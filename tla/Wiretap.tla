------------------------------- MODULE Wiretap -------------------------------
(***************************************************************************)
(* What a recording relay promises the two sides of a session and whoever  *)
(* reads the tape afterwards: each side is given exactly what the other    *)
(* sent, in its order; and no message is handed on before it is on the     *)
(* tape, unless the tape takes no more or the message is of those the      *)
(* relay may leave out.                                                    *)
(***************************************************************************)
EXTENDS Naturals, Sequences

CONSTANTS
    Ends,       \* the directions a message may travel in
    Blank       \* what an entry that is no message has in its place

VARIABLES
    recordable, \* the messages that must not be left out of the tape
    sent,       \* [Ends -> Seq of messages], what the sender has completed
    given,      \* [Ends -> Seq of messages], what the receiver was handed
    tape,       \* the entries [dir, msg, full] recorded, in order
    sealed      \* the tape takes no more: it was closed, or it failed

vars == <<recordable, sent, given, tape, sealed>>

Init ==
    /\ sent = [d \in Ends |-> <<>>]
    /\ given = [d \in Ends |-> <<>>]
    /\ tape = <<>>
    /\ sealed = FALSE

Taped(d) == {tape[i].msg : i \in {j \in 1 .. Len(tape) : tape[j].dir = d}}

Send(d) ==
    /\ Len(sent'[d]) = Len(sent[d]) + 1
    /\ SubSeq(sent'[d], 1, Len(sent[d])) = sent[d]
    /\ \A other \in Ends \ {d} : sent'[other] = sent[other]
    /\ UNCHANGED <<recordable, given, tape, sealed>>

\* A message is taken down: in its sender's order, complete, and once.  What a
\* tape that failed had held back may still reach it.
Record(d) ==
    /\ \E i \in 1 .. Len(sent[d]) :
         /\ sent[d][i] \notin Taped(d)
         /\ \A j \in i + 1 .. Len(sent[d]) : sent[d][j] \notin Taped(d)
         /\ \A j \in 1 .. i - 1 : sent[d][j] \in recordable => sent[d][j] \in Taped(d)
         /\ tape' = Append(tape, [dir |-> d, msg |-> sent[d][i], full |-> TRUE])
    /\ UNCHANGED <<recordable, sent, given, sealed>>

\* The sender stopped in the middle of a message: what there is of it is noted,
\* after everything it completed.
RecordFragment(d) ==
    /\ \A i \in 1 .. Len(sent[d]) : sent[d][i] \in recordable => sent[d][i] \in Taped(d)
    /\ \E m \in recordable :
         /\ m \notin Taped(d)
         /\ \A i \in 1 .. Len(sent[d]) : sent[d][i] # m
         /\ tape' = Append(tape, [dir |-> d, msg |-> m, full |-> FALSE])
    /\ UNCHANGED <<recordable, sent, given, sealed>>

\* The receiver is handed the next message it was sent.
Give(d) ==
    /\ Len(given[d]) < Len(sent[d])
    /\ LET m == sent[d][Len(given[d]) + 1]
       IN  /\ m \in recordable /\ ~sealed => m \in Taped(d)
           /\ given' = [given EXCEPT ![d] = Append(@, m)]
    /\ UNCHANGED <<recordable, sent, tape, sealed>>

\* The tape is marked with how the session began or ended.
Mark(d) == tape' = Append(tape, [dir |-> d, msg |-> Blank, full |-> TRUE])

Open ==
    /\ \E d \in Ends : Mark(d)
    /\ UNCHANGED <<recordable, sent, given, sealed>>

Seal ==
    /\ ~sealed
    /\ sealed' = TRUE
    /\ UNCHANGED tape \/ \E d \in Ends : Mark(d)
    /\ UNCHANGED <<recordable, sent, given>>

Next ==
    \/ \E d \in Ends : Send(d) \/ Record(d) \/ RecordFragment(d) \/ Give(d)
    \/ Open \/ Seal

Spec == Init /\ [][Next]_vars
=============================================================================

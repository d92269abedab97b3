------------------------------ MODULE TraceLog ------------------------------
(***************************************************************************)
(* What a trace promises its reader (recorder.rs, "The trace writer"): a   *)
(* log of events, each numbered by its place, that only ever grows at its  *)
(* end and that nothing changes once it is sealed.  The validator treats   *)
(* the numbers as its only ordering authority.                             *)
(***************************************************************************)
EXTENDS Naturals, Sequences

VARIABLES
    log,        \* the lines a reader of the file sees
    sealed      \* the trace has its last line

vars == <<log, sealed>>

Init == log = <<>> /\ sealed = FALSE

\* `longer` is `shorter` with at most two more lines, each numbered by its place.
Extends(longer, shorter) ==
    /\ Len(longer) \in Len(shorter) .. Len(shorter) + 2
    /\ \A i \in 1 .. Len(shorter) : longer[i] = shorter[i]
    /\ \A i \in Len(shorter) + 1 .. Len(longer) :
           longer[i].seq = i - 1 /\ longer[i].whole

\* An event, or two recorded together, is appended; the last may seal the log.
Grow == ~sealed /\ Extends(log', log)

Next == Grow

Spec == Init /\ [][Next]_vars
=============================================================================

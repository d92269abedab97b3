---------------------------- MODULE StdioCapture ----------------------------
(***************************************************************************)
(* mcp-trace-capture wrapped around a stdio server (stdio.rs, run.rs).  A  *)
(* client talks to the wrapper's stdin and stdout; the wrapper started the *)
(* server in a process group of its own and holds its stdin and stdout.    *)
(* Two pump tasks copy one direction each and record every complete line   *)
(* before they forward it; the main task waits for the session to end,     *)
(* closes the trace and finishes it.                                       *)
(*                                                                         *)
(* Three things end a session, in any order and any interleaving: the      *)
(* server exits, the client closes its end, or the wrapper is asked to     *)
(* stop.  The client, the server's processes, the kernel's pipes and the   *)
(* signals are the environment; they are modelled by what the wrapper can  *)
(* see of them.  A message is one piece or two, so that a read, a write,   *)
(* a close or an exit can fall in the middle of one.                       *)
(***************************************************************************)
EXTENDS Recorder, SequencesExt

CONSTANTS
    Requests,   \* bound: how many requests the client may send
    Stops,      \* the kinds of request to stop
    Setups      \* the sessions considered, see Setup below

MishapKinds == {"wrapper killed", "client stalls", "client leaves", "server stops reading",
                "write fails"}

Kinds    == {"request", "response", "note"}
Messages == ({"request", "response"} \X (1 .. Requests)) \union {<<"note", 0>>}
Procs    == {"leader", "helper"}
C2S      == "client-to-server"
S2C      == "server-to-client"
None     == <<"none", 0>>

(***************************************************************************)
(* A session considered: the server's processes, the ones in its group and *)
(* the ones that hold the session's pipes; which kinds of message are two  *)
(* pieces long or beyond max_message; how many pieces a pipe holds; and    *)
(* the bounds: how many requests the client sends, how many requests to    *)
(* stop are made, and which mishaps may happen.                            *)
(***************************************************************************)
Setup == [procs: SUBSET Procs, group: SUBSET Procs, holds: SUBSET Procs,
          twoPieces: SUBSET Kinds, oversized: SUBSET Kinds, room: Nat \ {0},
          requests: 0 .. Requests, stops: Nat, mishaps: SUBSET MishapKinds]

ASSUME StdioAssumption ==
    /\ Requests \in Nat
    /\ "none" \notin Stops
    /\ \A s \in Setups : /\ s \in Setup
                         /\ "leader" \in s.group \intersect s.holds
                         /\ s.group \union s.holds \subseteq s.procs

VARIABLES
    rec,        \* the recorder
    main,       \* the main task: where it is and its `End`
    pump,       \* the two pump tasks
    summary,    \* what `finish` reported
    inp,        \* [Directions -> pieces the pump has not read]
    outp,       \* [Directions -> pieces the pump wrote, not yet read]
    client,     \* the client's ends of the pipes, and what it is sending
    server,     \* the server's processes, how much they read, and what they are sending
    setup,      \* which of Setups this session is
    signals,    \* requests to stop: delivered but not received, and how many made
    sent,       \* history: the messages completed by each sender
    given,      \* history: the messages completely written to each receiver
    before      \* history: <<a, b>> when a had been given before b was begun

env   == <<inp, outp, client, server, setup, signals, sent, given, before>>
vars  == <<rec, main, pump, summary, env>>

-----------------------------------------------------------------------------
\* Messages, pieces and lines.

Opposite(d) == IF d = C2S THEN S2C ELSE C2S

Pieces(m) ==
    (IF m[1] \in setup.twoPieces THEN <<[msg |-> m, last |-> FALSE]>> ELSE <<>>)
    \o <<[msg |-> m, last |-> TRUE]>>

MessageEvent(d, line) ==
    [dir |-> d, body |-> "message", fits |-> TRUE, opens |-> FALSE, ids |-> {},
     msg |-> line.msg, full |-> line.full]

StdioEvent(d, body) ==
    [dir |-> d, body |-> body, fits |-> TRUE, opens |-> FALSE, ids |-> {},
     msg |-> None, full |-> TRUE]

\* Piece i is the first that completes a line.
Completes(pieces, i) == pieces[i].last /\ \A j \in 1 .. i - 1 : ~pieces[j].last

\* Mutant: a chunk yields one line at most.
FirstLineOf(chunk) ==
    IF \E i \in 1 .. Len(chunk) : chunk[i].last
    THEN SubSeq(chunk, 1, CHOOSE i \in 1 .. Len(chunk) : Completes(chunk, i))
    ELSE <<>>

\* LineSplitter::push: the lines a chunk completes are recorded one by one, and
\* what remains is kept for the next chunk, or for `finish` when there is none.
LinesOf(chunk)     == chunk
RemainderOf(chunk) == IF Last(chunk).last THEN None ELSE Last(chunk).msg

-----------------------------------------------------------------------------
\* What a task sees of the world.

Holders == server.alive \intersect setup.holds

PumpRuns(d) == pump[d].state = "running"

\* A line of what the pump has read is still to be recorded: of its chunk, or the
\* one the stream ended in the middle of.
Unrecorded(p) == \/ \E i \in 1 .. Len(p.lines) : p.lines[i].last
                 \/ p.eof /\ p.part # None

PumpIdle(d) ==
    PumpRuns(d) /\ ~Unrecorded(pump[d]) /\ pump[d].chunk = <<>> /\ ~pump[d].eof

\* No writer is left on the pipe the pump reads.
WritersGone(d) == IF d = C2S THEN client.closed ELSE Holders = {}

\* No reader is left on the pipe the pump writes.
ReadersGone(d) == IF d = C2S THEN Holders = {} \/ ~server.reads
                             ELSE client.state = "gone"

Asked == main.stop # "none"

Ended == main.phase \in {"exited", "killed"}

\* The recorder after one of these outcomes; a write to the trace fails only in
\* the sessions where it may.
After(outcomes) ==
    {r \in {w.rec : w \in outcomes} :
        r.failed => rec.failed \/ "write fails" \in setup.mishaps}

-----------------------------------------------------------------------------
Init ==
    /\ rec = New("buffered")
    /\ main = [phase |-> "starting", clientClosed |-> FALSE, clientFinished |-> FALSE,
               stop |-> "none", hurried |-> FALSE]      \* ending.rs End
    /\ pump = [d \in Directions |->
                 [state |-> "off", chunk |-> <<>>, lines |-> <<>>, part |-> None,
                  eof |-> FALSE, aborting |-> FALSE, oversized |-> 0]]
    /\ summary = SummaryOf(rec)
    /\ inp = [d \in Directions |-> <<>>]
    /\ outp = [d \in Directions |-> <<>>]
    /\ client = [state |-> "reading", closed |-> FALSE, rest |-> <<>>, begun |-> 0]
    /\ setup \in Setups
    /\ server = [alive |-> setup.procs, reads |-> TRUE, owes |-> <<>>, rest |-> <<>>,
                 noted |-> FALSE, read |-> 0, told |-> {}, clean |-> TRUE]
    /\ signals = [pending |-> {}, made |-> 0]
    /\ sent = [d \in Directions |-> <<>>]
    /\ given = [d \in Directions |-> <<>>]
    /\ before = {}

-----------------------------------------------------------------------------
(* A pump task: pump_counted, record_line and write. *)

SetPump(d, p) == pump' = [pump EXCEPT ![d] = p]

\* read() returns some of what is in the pipe; the splitter finds its lines.
PumpReads(d) ==
    /\ PumpIdle(d)
    /\ \E n \in 1 .. Len(inp[d]) :
         LET chunk == SubSeq(inp[d], 1, n)
         IN  /\ inp' = [inp EXCEPT ![d] = SubSeq(@, n + 1, Len(@))]
             /\ SetPump(d, [pump[d] EXCEPT !.chunk = chunk, !.lines = LinesOf(chunk),
                                           !.part = RemainderOf(chunk)])
    /\ UNCHANGED <<rec, main, summary, outp, client, server, setup, signals, sent, given, before>>

\* read() returns 0: what the stream ended in the middle of is a line too.
PumpReadsEnd(d) ==
    /\ PumpIdle(d)
    /\ inp[d] = <<>> /\ WritersGone(d)
    /\ SetPump(d, [pump[d] EXCEPT !.eof = TRUE])
    /\ UNCHANGED <<rec, main, summary, env>>

\* Mutant: once the trace is closed, what crosses the wire is not even offered.
TakesUntilClosed(d, line, rest) ==
    /\ SetPump(d, rest)
    /\ IF rec.closed THEN UNCHANGED rec
       ELSE rec' \in After(Record(rec, MessageEvent(d, line)))

\* record_line: an oversized line is counted, any other is offered to the recorder.
Takes(d, line, rest) ==
    IF line.msg[1] \in setup.oversized
      THEN /\ SetPump(d, [rest EXCEPT !.oversized = @ + 1])
           /\ UNCHANGED rec
      ELSE /\ SetPump(d, rest)
           /\ rec' \in After(Record(rec, MessageEvent(d, line)))

\* The next line of the chunk is recorded, or what the stream ended with.
PumpRecords(d) ==
    /\ PumpRuns(d)
    /\ \/ \E i \in 1 .. Len(pump[d].lines) :
            /\ Completes(pump[d].lines, i)
            /\ Takes(d, [msg |-> pump[d].lines[i].msg, full |-> TRUE],
                     [pump[d] EXCEPT !.lines = SubSeq(@, i + 1, Len(@))])
       \/ /\ pump[d].eof /\ pump[d].part # None
          /\ Takes(d, [msg |-> pump[d].part, full |-> FALSE], [pump[d] EXCEPT !.part = None])
    /\ UNCHANGED <<main, summary, env>>

\* One piece of the chunk enters the pipe.
WritesPiece(d) ==
    LET piece == Head(pump[d].chunk)
    IN  /\ ~ReadersGone(d)
        /\ Len(outp[d]) < setup.room
        /\ outp' = [outp EXCEPT ![d] = Append(@, piece)]
        /\ given' = [given EXCEPT ![d] = IF piece.last THEN Append(@, piece.msg) ELSE @]
        /\ SetPump(d, [pump[d] EXCEPT !.chunk = Tail(@)])
        /\ UNCHANGED <<rec, main, summary, inp, client, server, setup, signals, sent, before>>

\* Mutant: the bytes are forwarded before their lines are recorded.
PumpForwards(d) ==
    /\ PumpRuns(d) /\ pump[d].chunk # <<>>
    /\ WritesPiece(d)

\* write_all, once every line of the chunk has been recorded.
PumpWrites(d) ==
    /\ PumpRuns(d) /\ ~Unrecorded(pump[d]) /\ pump[d].chunk # <<>>
    /\ WritesPiece(d)

\* The write fails because nobody can read it: the task returns its error, and
\* with it go both its ends of the pipes.
PumpFails(d) ==
    /\ PumpRuns(d) /\ ~Unrecorded(pump[d]) /\ pump[d].chunk # <<>>
    /\ ReadersGone(d)
    /\ SetPump(d, [pump[d] EXCEPT !.state = "failed", !.chunk = <<>>])
    /\ UNCHANGED <<rec, main, summary, env>>

PumpEnds(d) ==
    /\ PumpRuns(d) /\ pump[d].eof /\ ~Unrecorded(pump[d])
    /\ SetPump(d, [pump[d] EXCEPT !.state = "done"])
    /\ UNCHANGED <<rec, main, summary, env>>

\* An abort takes hold where the task waits: in a read, a write or the shutdown.
PumpAborts(d) ==
    /\ PumpRuns(d) /\ pump[d].aborting /\ ~Unrecorded(pump[d])
    /\ SetPump(d, [pump[d] EXCEPT !.state = "aborted", !.chunk = <<>>])
    /\ UNCHANGED <<rec, main, summary, env>>

PumpStep(d) ==
    \/ PumpReads(d) \/ PumpReadsEnd(d) \/ PumpRecords(d) \/ PumpWrites(d)
    \/ PumpFails(d) \/ PumpEnds(d) \/ PumpAborts(d)

-----------------------------------------------------------------------------
(* The main task: run::stdio, relay, and the waits of ending.rs.  Each wait is  *)
(* a phase; a select! takes any of its branches that is ready.                  *)

SetMain(m) == main' = m

\* killpg(SIGKILL), and the leader through its handle.
AfterKill == [server EXCEPT !.alive = @ \ (setup.group \union {"leader"}),
                            !.clean = @ /\ "leader" \notin server.alive]

\* output::open succeeded: the trace is opened and both pumps are started.
OpenTrace ==
    /\ main.phase = "starting"
    /\ rec' \in After(Record(rec, StdioEvent(C2S, "transport-open")))
    /\ pump' = [d \in Directions |-> [pump[d] EXCEPT !.state = "running"]]
    /\ SetMain([main EXCEPT !.phase = "session"])
    /\ UNCHANGED <<summary, env>>

\* It failed: the server is killed and waited for, and there is no session.
OpenFails ==
    /\ main.phase = "starting"
    /\ server' = AfterKill
    /\ SetMain([main EXCEPT !.phase = "exited"])
    /\ UNCHANGED <<rec, pump, summary, inp, outp, client, setup, signals, sent, given, before>>

\* Mutant: any end of the client's relay is read as the client closing its end.
ClosedByAnyEnd == pump[C2S].state # "running"

\* Only a clean end of stream is the client closing.
ClosedByClient == pump[C2S].state = "done"

ClientRelayEnds ==
    /\ main.phase = "session" /\ ~PumpRuns(C2S)
    /\ SetMain([main EXCEPT !.phase = "clientDone", !.clientFinished = TRUE,
                            !.clientClosed = ClosedByClient])
    /\ UNCHANGED <<rec, pump, summary, env>>

DrainPhase(m) ==
    IF m.stop = "none" THEN "draining" ELSE IF m.hurried THEN "drainKill" ELSE "drainStop"

\* Mutants: the client's relay is aborted without waiting for it, or waited for
\* without being aborted.
JoinedAtOnce(m) == [m EXCEPT !.phase = DrainPhase(m)]
AbortsNothing(c) == c

\* Once wait_for_end has returned, an unfinished client relay is aborted first.
ThenJoin(m) == [m EXCEPT !.phase = IF m.clientFinished THEN DrainPhase(m) ELSE "joining"]
Abort(c)    == [c EXCEPT !.aborting = TRUE]

ServerExitSeen ==
    /\ main.phase \in {"session", "clientDone", "stopping", "reaping"}
    /\ "leader" \notin server.alive
    /\ SetMain(ThenJoin(main))
    /\ pump' = IF main.clientFinished THEN pump ELSE [pump EXCEPT ![C2S] = Abort(@)]
    /\ UNCHANGED <<rec, summary, env>>

ClientJoined ==
    /\ main.phase = "joining" /\ ~PumpRuns(C2S)
    /\ SetMain([main EXCEPT !.phase = DrainPhase(main)])
    /\ UNCHANGED <<rec, pump, summary, env>>

\* Signals::recv, where the task listens: a request is taken off what is pending.
Receive(s) == signals' = [signals EXCEPT !.pending = @ \ {s}]

\* Mutant: the request is relayed without closing the trace first.
ClosedLater(r) == {r}

ClosedFirst(r) == After(Close(r, StdioEvent(C2S, "transport-close")))

\* begin_stop closes the trace, and only then relays the request.
BeginStop ==
    /\ main.phase \in {"session", "clientDone", "draining"}
    /\ \E s \in signals.pending :
         /\ Receive(s)
         /\ SetMain([main EXCEPT !.stop = s,
                       !.phase = IF @ = "draining" THEN "lateRelay" ELSE "relaying"])
    /\ rec' \in ClosedFirst(rec)
    /\ UNCHANGED <<pump, summary, inp, outp, client, server, setup, sent, given, before>>

RelayStop ==
    /\ main.phase \in {"relaying", "lateRelay"}
    /\ server' = [server EXCEPT !.told = @ \union (server.alive \intersect setup.group)]
    /\ SetMain([main EXCEPT !.phase = IF @ = "relaying" THEN "stopping" ELSE "drainStop"])
    /\ UNCHANGED <<rec, pump, summary, inp, outp, client, setup, signals, sent, given, before>>

\* The deadline of the stop passes, or a second request arrives.
DeadlineOrAgain(hurried) ==
    \/ ~hurried /\ UNCHANGED signals
    \/ hurried /\ \E s \in signals.pending : Receive(s)

\* stop_server: the group is killed, and the leader's exit is still awaited.
StopKills ==
    /\ main.phase = "stopping"
    /\ \E hurried \in BOOLEAN :
         /\ DeadlineOrAgain(hurried)
         /\ SetMain([main EXCEPT !.phase = "reaping", !.hurried = hurried])
    /\ server' = AfterKill
    /\ UNCHANGED <<rec, pump, summary, inp, outp, client, setup, sent, given, before>>

\* drain: the server's output relay has ended.
RelayEnds ==
    /\ main.phase \in {"draining", "drainStop", "afterKill"} /\ ~PumpRuns(S2C)
    /\ SetMain([main EXCEPT !.phase = "closing"])
    /\ UNCHANGED <<rec, pump, summary, env>>

\* Mutants: only another request ends the wait; the group is not killed.
DrainEndsOnlyAgain ==
    \/ main.phase = "drainKill" /\ UNCHANGED signals
    \/ main.phase = "drainStop" /\ DeadlineOrAgain(TRUE)

KillsNobody == server

\* drain: the wait is over (or was cut short already), and the group is killed.
DrainEnds ==
    \/ main.phase = "drainKill" /\ UNCHANGED signals
    \/ main.phase = "drainStop" /\ \E hurried \in BOOLEAN : DeadlineOrAgain(hurried)

DrainVictims == AfterKill

DrainKills ==
    /\ DrainEnds
    /\ server' = DrainVictims
    /\ SetMain([main EXCEPT !.phase = "afterKill"])
    /\ UNCHANGED <<rec, pump, summary, inp, outp, client, setup, sent, given, before>>

\* AFTER_KILL has passed: the relay is aborted, and not waited for.
AbandonRelay ==
    /\ main.phase = "afterKill" /\ PumpRuns(S2C)
    /\ pump' = [pump EXCEPT ![S2C] = Abort(@)]
    /\ SetMain([main EXCEPT !.phase = "closing"])
    /\ UNCHANGED <<rec, summary, env>>

ClosingEvent ==
    StdioEvent(IF main.clientClosed THEN C2S ELSE S2C,
               IF server.clean THEN "transport-close" ELSE "transport-abort")

\* close: the last word, refused when a stop has had it.
CloseSession ==
    /\ main.phase = "closing"
    /\ rec' \in After(Close(rec, ClosingEvent))
    /\ SetMain([main EXCEPT !.phase = "finishing"])
    /\ UNCHANGED <<pump, summary, env>>

FinishSession ==
    /\ main.phase = "finishing"
    /\ \E f \in Finish(rec) : rec' = f.rec /\ summary' = f.summary
    /\ SetMain([main EXCEPT !.phase = "finished"])
    /\ UNCHANGED <<pump, env>>

TasksGone(d) == [pump[d] EXCEPT !.state = IF @ \in {"off", "running"} THEN "aborted" ELSE @,
                                !.chunk = <<>>, !.lines = <<>>]

Exit ==
    /\ main.phase = "finished"
    /\ rec' \in Drop(rec)
    /\ pump' = [d \in Directions |-> TasksGone(d)]
    /\ SetMain([main EXCEPT !.phase = "exited"])
    /\ UNCHANGED <<summary, env>>

MainStep ==
    \/ OpenTrace \/ OpenFails \/ ClientRelayEnds \/ ServerExitSeen \/ ClientJoined
    \/ BeginStop \/ RelayStop \/ StopKills \/ RelayEnds \/ DrainKills \/ AbandonRelay
    \/ CloseSession \/ FinishSession \/ Exit

\* SIGKILL to the wrapper, perhaps in the middle of a write to the trace.
Kill ==
    /\ "wrapper killed" \in setup.mishaps /\ ~Ended
    /\ \/ UNCHANGED rec
       \/ /\ \E d \in Directions : Unrecorded(pump[d])
          /\ ~rec.closed /\ ~rec.failed
          /\ rec' = [rec EXCEPT !.torn = TRUE]
    /\ pump' = [d \in Directions |-> TasksGone(d)]
    /\ SetMain([main EXCEPT !.phase = "killed"])
    /\ UNCHANGED <<summary, env>>

-----------------------------------------------------------------------------
(* The environment, while the wrapper is there to see it. *)

\* The next piece of `rest`, or the first of a new message m, enters the pipe.
Emits(d, piece) ==
    /\ inp' = [inp EXCEPT ![d] = Append(@, piece)]
    /\ sent' = [sent EXCEPT ![d] = IF piece.last THEN Append(@, piece.msg) ELSE @]

Begins(d, m) == before' = before \union {<<a, m>> : a \in ToSet(given[Opposite(d)])}

ClientSends ==
    /\ ~client.closed /\ Len(inp[C2S]) < setup.room
    /\ \/ /\ client.rest # <<>>
          /\ Emits(C2S, Head(client.rest))
          /\ client' = [client EXCEPT !.rest = Tail(@)]
          /\ UNCHANGED before
       \/ /\ client.rest = <<>> /\ client.begun < setup.requests
          /\ LET m == <<"request", client.begun + 1>>
             IN  /\ Emits(C2S, Head(Pieces(m)))
                 /\ Begins(C2S, m)
                 /\ client' = [client EXCEPT !.rest = Tail(Pieces(m)), !.begun = @ + 1]
    /\ UNCHANGED <<outp, server, setup, signals, given>>

ClientCloses ==
    /\ ~client.closed
    /\ client' = [client EXCEPT !.closed = TRUE]
    /\ UNCHANGED <<inp, outp, server, setup, signals, sent, given, before>>

ClientReceives ==
    /\ client.state = "reading" /\ outp[S2C] # <<>>
    /\ outp' = [outp EXCEPT ![S2C] = Tail(@)]
    /\ UNCHANGED <<inp, client, server, setup, signals, sent, given, before>>

\* It stops reading what it is sent, with its end open or closed.
ClientNeglects ==
    /\ client.state = "reading"
    /\ \/ "client stalls" \in setup.mishaps /\ client' = [client EXCEPT !.state = "stalled"]
       \/ "client leaves" \in setup.mishaps /\ client' = [client EXCEPT !.state = "gone"]
    /\ UNCHANGED <<inp, outp, server, setup, signals, sent, given, before>>

ServerReceives ==
    /\ Holders # {} /\ server.reads /\ outp[C2S] # <<>>
    /\ outp' = [outp EXCEPT ![C2S] = Tail(@)]
    /\ LET piece == Head(outp[C2S])
       IN  server' = IF piece.last
                     THEN [server EXCEPT !.owes = Append(@, <<"response", piece.msg[2]>>),
                                         !.read = @ + 1]
                     ELSE server
    /\ UNCHANGED <<inp, client, setup, signals, sent, given, before>>

\* A process of the server writes; once the pump is gone its pieces reach nobody.
ServerWrites(piece) ==
    IF pump[S2C].state \in {"off", "running"}
      THEN Len(inp[S2C]) < setup.room /\ Emits(S2C, piece)
      ELSE UNCHANGED <<inp, sent>>

ServerBegins(m, next) ==
    /\ ServerWrites(Head(Pieces(m)))
    /\ Begins(S2C, m)
    /\ server' = [next EXCEPT !.rest = Tail(Pieces(m))]

ServerSends ==
    /\ Holders # {}
    /\ \/ /\ server.rest # <<>>
          /\ ServerWrites(Head(server.rest))
          /\ server' = [server EXCEPT !.rest = Tail(@)]
          /\ UNCHANGED before
       \/ /\ server.rest = <<>> /\ server.owes # <<>>
          /\ ServerBegins(Head(server.owes), [server EXCEPT !.owes = Tail(@)])
       \/ /\ server.rest = <<>> /\ ~server.noted
          /\ ServerBegins(<<"note", 0>>, [server EXCEPT !.noted = TRUE])
    /\ UNCHANGED <<outp, client, setup, signals, given>>

ServerExits(p) ==
    /\ p \in server.alive
    /\ \E clean \in BOOLEAN :
         server' = [server EXCEPT !.alive = @ \ {p},
                                  !.clean = IF p = "leader" THEN clean ELSE @]
    /\ UNCHANGED <<inp, outp, client, setup, signals, sent, given, before>>

ServerClosesInput ==
    /\ "server stops reading" \in setup.mishaps /\ Holders # {} /\ server.reads
    /\ server' = [server EXCEPT !.reads = FALSE]
    /\ UNCHANGED <<inp, outp, client, setup, signals, sent, given, before>>

\* A request to stop is delivered; one of a kind already pending adds nothing.
RequestStop(s) ==
    /\ signals.made < setup.stops
    /\ signals' = [pending |-> signals.pending \union {s}, made |-> signals.made + 1]
    /\ UNCHANGED <<inp, outp, client, server, setup, sent, given, before>>

EnvStep ==
    /\ ~Ended
    /\ \/ ClientSends \/ ClientCloses \/ ClientReceives \/ ClientNeglects
       \/ ServerReceives \/ ServerSends \/ ServerClosesInput
       \/ \E p \in Procs : ServerExits(p)
       \/ \E s \in Stops : RequestStop(s)
    /\ UNCHANGED <<rec, main, pump, summary>>

Next ==
    \/ MainStep
    \/ \E d \in Directions : PumpStep(d)
    \/ Kill
    \/ EnvStep

Spec == Init /\ [][Next]_vars

\* The runtime polls every task that can go on, and its timers fire; the client
\* takes what it is sent unless it has stopped reading.  Nothing is assumed of
\* the server's processes.
FairSpec ==
    /\ Spec
    /\ WF_vars(MainStep)
    /\ \A d \in Directions : WF_vars(PumpStep(d))
    /\ WF_vars(EnvStep /\ ClientReceives)

-----------------------------------------------------------------------------
(* Properties. *)

Recordable == {m \in Messages : m[1] \notin setup.oversized}
Taped(m)   == \E i \in 1 .. Len(rec.lines) : rec.lines[i].ev.msg = m
Finished   == main.phase = "finished" \/ (main.phase = "exited" /\ rec.closed)

TypeOK ==
    /\ main \in [phase: {"starting", "session", "clientDone", "joining", "relaying",
                         "lateRelay", "stopping", "reaping", "draining", "drainStop",
                         "drainKill", "afterKill", "closing", "finishing", "finished",
                         "exited", "killed"},
                 clientClosed: BOOLEAN, clientFinished: BOOLEAN,
                 stop: Stops \union {"none"}, hurried: BOOLEAN]
    /\ \A d \in Directions :
         /\ pump[d].state \in {"off", "running", "done", "failed", "aborted"}
         /\ Len(inp[d]) <= setup.room /\ Len(outp[d]) <= setup.room
         /\ Len(pump[d].lines) <= setup.room /\ Len(pump[d].chunk) <= setup.room
         /\ ToSet(sent[d]) \union ToSet(given[d]) \subseteq Messages
    /\ server.alive \subseteq setup.procs /\ server.told \subseteq setup.group
    /\ signals.pending \subseteq Stops

\* The trace's order is an order things could have happened in: what one side had
\* been given before it began a message precedes that message in the trace, though
\* two tasks record the two directions and nothing but the lock orders them
\* (pump, "before forwarding the bytes that complete it").
CausalOrder ==
    \A pair \in before : \A i \in 1 .. Len(rec.lines) :
        rec.lines[i].ev.msg = pair[2] /\ pair[1] \in Recordable =>
            \E j \in 1 .. i - 1 : rec.lines[j].ev.msg = pair[1]

\* A session that ended without a request to stop has every message either side
\* was given in its trace, and nothing arrived behind its close: the client's
\* relay had stopped and the server's had reached its end.
\* And the client was given all the server's processes wrote, what they wrote
\* just before they exited and what a process left behind wrote included.
EndedSessionIsWhole ==
    Finished /\ ~Asked =>
        /\ ~summary.error =>
              /\ summary.afterClose = 0
              /\ \A d \in Directions : \A m \in ToSet(given[d]) \intersect Recordable : Taped(m)
        /\ client.state # "gone" => given[S2C] = sent[S2C]

\* A trace the client closed without a request to stop: the client did close its
\* end, and the server had been given everything it sent (wait_for_end, "Only a
\* clean end of stream is the client closing").
ClientCloseIsClean ==
    \A i \in 1 .. Len(rec.lines) :
        rec.lines[i].ev.body \in {"transport-close", "transport-abort"}
          /\ rec.lines[i].ev.dir = C2S /\ ~Asked
            => client.closed /\ given[C2S] = sent[C2S]

\* By the time any process has been sent a request to stop, the trace is closed
\* from the client's side, so a wrapper killed during the grace period still
\* leaves a closed trace (ending.rs, begin_stop).
StopClosesFirst ==
    server.told # {} =>
        /\ rec.closed
        /\ ~rec.failed /\ ~summary.error =>
             /\ rec.lines # <<>>
             /\ Last(rec.lines).ev = StdioEvent(C2S, "transport-close")

\* After a request to stop, no process of the server's group is left holding the
\* session's pipes, unless the client had stopped the relay by going away
\* (process.rs, "a kill leaves none of them holding the session's pipes").
PipesReleased ==
    Finished /\ Asked /\ pump[S2C].state # "failed" =>
        server.alive \intersect setup.group \intersect setup.holds = {}

\* What was handed on and is not in the trace has been counted when the run
\* reports: after the close, dropped by a failed sink, or oversized.
UntapedIsCounted ==
    [][main.phase = "finishing" /\ main'.phase = "finished" =>
         Cardinality({m \in ToSet(given[C2S]) \union ToSet(given[S2C]) : ~Taped(m)})
           <= summary'.afterClose + summary'.dropped
              + pump[C2S].oversized + pump[S2C].oversized]_vars

\* Each side is given what the other sent, and nothing recordable is handed on
\* before it is on the tape.
Entries == [i \in 1 .. Len(rec.lines) |-> [dir |-> rec.lines[i].ev.dir,
                                           msg |-> rec.lines[i].ev.msg,
                                           full |-> rec.lines[i].ev.full]]

Tapped == INSTANCE Wiretap WITH
    Ends <- Directions, Blank <- None, recordable <- Recordable, tape <- Entries,
    sealed <- rec.closed \/ rec.failed \/ Ended

ImplementsWiretap == Tapped!Spec

\* A request to stop ends the run, whatever the server's processes and the client
\* do: "no wait after a request to stop is unbounded" (ending.rs).
StopIsServed == (signals.pending # {}) ~> Ended

\* When the server's processes have all exited the run ends, though the client
\* may hold its end open for ever; only a client that neither reads nor leaves
\* can hold it up.
SessionEnds == (server.alive = {}) ~> (Ended \/ client.state = "stalled")

=============================================================================

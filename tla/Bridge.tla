-------------------------------- MODULE Bridge --------------------------------
(***************************************************************************)
(* The stdio bridge of mcp-conformance test (bridge.rs, bridge/session.rs):*)
(* a loopback HTTP listener that gives each session the suite begins a     *)
(* server process behind the recorder's stdio wrapper, writes each POST to *)
(* it as one line, and carries what it writes back on event streams.       *)
(*                                                                         *)
(* The suite and the servers are the environment; the wrapper              *)
(* (StdioCapture) appears by its promises: a request to stop ends it, and  *)
(* its end closes the pipes.  A step of a handler is what it does between  *)
(* two awaits or two lock holds.  Refusals that touch no state, the        *)
(* contents of messages and trace files are left out.  What the server     *)
(* writes is routed as it is written: nothing else reads that pipe.        *)
(***************************************************************************)
EXTENDS Integers, Sequences, FiniteSets, SequencesExt

CONSTANTS
    MaxExchanges,    \* bound: HTTP requests of the suite
    MaxSessions,     \* bound: sessions that may begin
    Room,            \* PIPE_BYTES, in pieces of a line
    PENDING_LIMIT,
    Settings         \* the suites and servers considered, see Setting below

Kinds == {"initialize", "request", "batch", "notification", "get", "delete"}

Setting == [exchanges: Nat, sessions: Nat, kinds: SUBSET Kinds, pieces: 1 .. 2, notices: Nat,
            may: SUBSET {"leave", "exit", "mute", "stall", "stop"}]

ASSUME BridgeAssumption ==
    /\ MaxExchanges \in Nat \ {0} /\ MaxSessions \in Nat \ {0}
    /\ Room \in Nat \ {0} /\ PENDING_LIMIT \in Nat
    /\ Settings \subseteq Setting

VARIABLES
    setting,     \* which of Settings this run is
    exchange,    \* what each HTTP exchange is doing
    sessions,    \* State::sessions: the ids in the map
    relays,      \* State::relays: the sessions whose relay stop() waits for
    session,     \* each session's writer, routes and grace
    server,      \* each server: what it has read, and still owes
    stopping,    \* Bridge::stop
    got,         \* history: the lines sent on each exchange's stream
    said         \* history: the lines each server wrote

vars == <<setting, exchange, sessions, relays, session, server, stopping, got, said>>

Exchanges == 1 .. MaxExchanges
NoExchange == 0
Sessions == 1 .. MaxSessions
NoSession == 0

Steps == {"idle", "beginning", "opening", "sending", "writing", "streaming",
          "removing", "closing", "done", "gone"}

Idle == [step |-> "idle", kind |-> "get", session |-> NoSession, written |-> 0]

\* Routes::default(), a fresh pipe, and no timer.
NewSession == [writer |-> "open", pipe |-> <<>>, streams |-> {}, standalone |-> NoExchange,
               pending |-> <<>>, ended |-> FALSE, grace |-> "none"]

Init ==
    /\ setting \in Settings
    /\ exchange = [e \in Exchanges |-> Idle]
    /\ sessions = {} /\ relays = {}
    /\ session = [s \in Sessions |-> NewSession]
    /\ server = [s \in Sessions |-> [state |-> "none", line |-> <<>>, garbled |-> {}, owes |-> {}]]
    /\ stopping = [step |-> "no", ending |-> <<>>, awaited |-> {}]
    /\ got = [e \in Exchanges |-> <<>>]
    /\ said = [s \in Sessions |-> <<>>]

\* request_ids: the requests a POST carries.
Ids(e) ==
    CASE exchange[e].kind \in {"initialize", "request"} -> {<<e, 1>>}
      [] exchange[e].kind = "batch" -> {<<e, 1>>, <<e, 2>>}
      [] OTHER -> {}

Answer(r)    == [kind |-> "answer", id |-> r]
Notice(s, n) == [kind |-> "notice", id |-> <<s, n>>]

\* The receiver of an exchange's stream is alive.
Receiving(e) == e # NoExchange /\ exchange[e].step \in {"sending", "writing", "streaming"}

\* The writer's lock is held by the POST that writes.
Locked(s) == \E e \in Exchanges : exchange[e].step = "writing" /\ exchange[e].session = s

Goes(e, step) == exchange' = [exchange EXCEPT ![e].step = step]
Changed(s, f, v) == session' = [session EXCEPT ![s][f] = v]

-----------------------------------------------------------------------------
(* Handlers *)

\* An initialize without a session: State::begin, up to the map.
Begin(e, s) ==
    /\ "initialize" \in setting.kinds
    /\ server[s].state = "none" /\ s <= setting.sessions
    /\ \A x \in 1 .. s - 1 : server[x].state # "none"
    /\ server' = [server EXCEPT ![s].state = "running"]
    /\ relays' = relays \union {s}
    /\ exchange' = [exchange EXCEPT ![e] = [Idle EXCEPT !.step = "beginning", !.kind = "initialize", !.session = s]]
    /\ UNCHANGED <<sessions, session>>

Insert(e) ==
    /\ exchange[e].step = "beginning"
    /\ sessions' = sessions \union {exchange[e].session}
    /\ Goes(e, "opening")
    /\ UNCHANGED <<setting, relays, session, server, stopping, got, said>>

\* A request that names a session the suite was given: State::session.
Named == {exchange[e].session : e \in {x \in Exchanges :
             exchange[x].kind = "initialize" /\ exchange[x].step \in {"streaming", "done"}}} \ {NoSession}

Enter(e, s) ==
    /\ s \in Named
    /\ \E kind \in setting.kinds \ {"initialize"} :
          exchange' = [exchange EXCEPT ![e] = [Idle EXCEPT !.kind = kind, !.session = s,
              !.step = IF s \notin sessions THEN "done"
                       ELSE IF kind = "delete" THEN "removing" ELSE "opening"]]
    /\ UNCHANGED <<sessions, relays, session, server>>

Arrive(e) ==
    /\ exchange[e].step = "idle" /\ e <= setting.exchanges /\ stopping.step = "no"
    /\ \A x \in 1 .. e - 1 : exchange[x].step # "idle"
    /\ \E s \in Sessions : Begin(e, s) \/ Enter(e, s)
    /\ UNCHANGED <<setting, stopping, got, said>>

\* Routes::streams, oldest first: a set of streams, each with its place in the
\* order in which they were opened.
Pushed(streams, e) ==
    streams \union {[post |-> e, waiting |-> Ids(e), nth |-> 1 + Max({0} \union {x.nth : x \in streams})]}

\* Mutant: a stream is opened whether or not the server's output has ended.
OpenStreamAlways(s, e) ==
    /\ Changed(s, "streams", Pushed(session[s].streams, e))
    /\ UNCHANGED got

\* Session::open_stream.
OpenStream(s, e) ==
    /\ IF session[s].ended \/ Ids(e) = {} THEN UNCHANGED session
       ELSE Changed(s, "streams", Pushed(session[s].streams, e))
    /\ UNCHANGED got

\* Mutant: what waited for a standalone stream stays waiting once it is sent.
OpenStandaloneKeeping(s, e) ==
    IF session[s].ended THEN UNCHANGED <<session, got>>
    ELSE /\ got' = [got EXCEPT ![e] = session[s].pending]
         /\ Changed(s, "standalone", e)

\* Session::open_standalone: what waited for one arrives first.
OpenStandalone(s, e) ==
    IF session[s].ended THEN UNCHANGED <<session, got>>
    ELSE /\ got' = [got EXCEPT ![e] = session[s].pending]
         /\ session' = [session EXCEPT ![s].standalone = e, ![s].pending = <<>>]

Open(e) ==
    /\ exchange[e].step = "opening"
    /\ IF exchange[e].kind = "get"
       THEN OpenStandalone(exchange[e].session, e) /\ Goes(e, "streaming")
       ELSE OpenStream(exchange[e].session, e) /\ Goes(e, "sending")
    /\ UNCHANGED <<setting, sessions, relays, server, stopping, said>>

\* Mutant: the writer is not held from one piece of a line to the next.
LockShared(e) ==
    /\ exchange[e].step = "sending"
    /\ Goes(e, IF session[exchange[e].session].writer = "closed" THEN "done" ELSE "writing")
    /\ UNCHANGED <<setting, sessions, relays, session, server, stopping, got, said>>

\* Session::send: the writer, unless the session is closed, which is a 502.
Lock(e) ==
    /\ exchange[e].step = "sending" /\ ~Locked(exchange[e].session)
    /\ Goes(e, IF session[exchange[e].session].writer = "closed" THEN "done" ELSE "writing")
    /\ UNCHANGED <<setting, sessions, relays, session, server, stopping, got, said>>

\* write_all: the next piece of the line, when the pipe has room; a pipe whose
\* wrapper has ended is a 502.
Write(e) ==
    LET s == exchange[e].session
        n == exchange[e].written + 1
    IN  /\ exchange[e].step = "writing"
        /\ \/ /\ server[s].state = "exited"
              /\ Goes(e, "done") /\ UNCHANGED session
           \/ /\ server[s].state = "running" /\ Len(session[s].pipe) < Room
              /\ Changed(s, "pipe", Append(session[s].pipe, <<e, n>>))
              /\ exchange' = [exchange EXCEPT ![e] = [@ EXCEPT
                     !.written = n,
                     !.step    = IF n < setting.pieces THEN "writing"
                                 ELSE IF Ids(e) = {} THEN "done" ELSE "streaming"]]
        /\ UNCHANGED <<setting, sessions, relays, server, stopping, got, said>>

\* The stream's senders are gone: the response's body ends.
Held(e) ==
    LET s == session[exchange[e].session]
    IN  s.standalone = e \/ \E x \in s.streams : x.post = e

EndOfStream(e) ==
    /\ exchange[e].step = "streaming" /\ ~Held(e)
    /\ Goes(e, "done")
    /\ UNCHANGED <<setting, sessions, relays, session, server, stopping, got, said>>

\* A DELETE takes the session out of the map, whoever else is using it.
Withdraw(e) ==
    /\ exchange[e].step = "removing"
    /\ sessions' = sessions \ {exchange[e].session}
    /\ Goes(e, "closing")
    /\ UNCHANGED <<setting, relays, session, server, stopping, got, said>>

\* Mutant: the server is left to exit of itself.
EndWithoutGrace(s) ==
    /\ ~Locked(s)
    /\ Changed(s, "writer", "closed")

\* end: Session::close waits for the writer; then the grace begins.
End(s) ==
    /\ ~Locked(s)
    /\ session' = [session EXCEPT ![s].writer = "closed", ![s].grace = IF @ = "none" THEN "running" ELSE @]

Close(e) ==
    /\ exchange[e].step = "closing"
    /\ End(exchange[e].session)
    /\ Goes(e, "done")
    /\ UNCHANGED <<setting, sessions, relays, server, stopping, got, said>>

\* CLOSE_GRACE has passed: stop.request(Terminate).
Grace(s) ==
    /\ session[s].grace = "running"
    /\ Changed(s, "grace", "over")
    /\ UNCHANGED <<setting, exchange, sessions, relays, server, stopping, got, said>>

\* The client leaves: the handler is dropped at its await, or the body with its
\* receiver.  What it had written of a line stays written.
Leave(e) ==
    /\ "leave" \in setting.may \/ stopping.step # "no"
    /\ exchange[e].step \in {"sending", "writing", "streaming", "closing"}
    /\ Goes(e, "gone")
    /\ UNCHANGED <<setting, sessions, relays, session, server, stopping, got, said>>

-----------------------------------------------------------------------------
(* What the server writes *)

\* Session::route, a response: the oldest stream that waits for its id.
Waiting(s, line) ==
    {x \in session[s].streams : line.kind = "answer" /\ line.id \in x.waiting}

Sent(e, line) == got' = [got EXCEPT ![e] = Append(@, line)]

\* Mutant: a stream ends with the first of its answers.
ToItsStreamOnce(s, line) ==
    \E x \in Waiting(s, line) :
        /\ Changed(s, "streams", session[s].streams \ {x})
        /\ IF Receiving(x.post) THEN Sent(x.post, line) ELSE UNCHANGED got

ToItsStream(s, line) ==
    \E x \in Waiting(s, line) :
        LET left == x.waiting \ {line.id}
        IN  /\ \A y \in Waiting(s, line) : x.nth <= y.nth
            /\ Changed(s, "streams", (session[s].streams \ {x}) \union
                   IF left = {} THEN {} ELSE {[x EXCEPT !.waiting = left]})
            /\ IF Receiving(x.post) THEN Sent(x.post, line) ELSE UNCHANGED got

\* Routes::unsolicited: the newest POST stream still open, else the standalone
\* stream, else it waits for one, up to a limit.
Unsolicited(s, line) ==
    LET open == {x \in session[s].streams : Receiving(x.post)}
        kept == [session[s] EXCEPT !.streams = open]
    IN  \/ /\ session' = [session EXCEPT ![s] = kept]
           /\ \E newest \in open : (\A x \in open : x.nth <= newest.nth) /\ Sent(newest.post, line)
        \/ /\ open = {} /\ Receiving(kept.standalone)
           /\ session' = [session EXCEPT ![s] = kept]
           /\ Sent(kept.standalone, line)
        \/ /\ open = {} /\ ~Receiving(kept.standalone)
           /\ session' = [session EXCEPT ![s] = [kept EXCEPT !.standalone = NoExchange,
                  !.pending = IF Len(kept.pending) < PENDING_LIMIT THEN Append(kept.pending, line)
                              ELSE kept.pending]]
           /\ UNCHANGED got

Route(s, line) ==
    /\ IF Waiting(s, line) # {} THEN ToItsStream(s, line) ELSE Unsolicited(s, line)
    /\ said' = [said EXCEPT ![s] = Append(@, line)]
    /\ UNCHANGED <<setting, exchange, sessions, relays, stopping>>

\* The server answers a request it has read, or says something of its own.
Respond(s, r) ==
    /\ server[s].state = "running" /\ ~session[s].ended /\ r \in server[s].owes
    /\ server' = [server EXCEPT ![s].owes = @ \ {r}]
    /\ Route(s, Answer(r))

Notices(s) == Cardinality({i \in DOMAIN said[s] : said[s][i].kind = "notice"})

Notify(s) ==
    /\ server[s].state = "running" /\ ~session[s].ended /\ Notices(s) < setting.notices
    /\ Route(s, Notice(s, Notices(s) + 1))
    /\ UNCHANGED server

\* The server reads: a line is what it has read since the last one ended.
Read(s) ==
    LET piece == Head(session[s].pipe)
        line  == Append(server[s].line, piece)
        whole == line = [n \in 1 .. setting.pieces |-> <<piece[1], n>>]
    IN  /\ server[s].state = "running" /\ session[s].pipe # <<>>
        /\ Changed(s, "pipe", Tail(session[s].pipe))
        /\ server' = [server EXCEPT ![s] =
               IF piece[2] # setting.pieces THEN [server[s] EXCEPT !.line = line]
               ELSE IF whole THEN [server[s] EXCEPT !.line = <<>>, !.owes = server[s].owes \union Ids(piece[1])]
               ELSE [server[s] EXCEPT !.line = <<>>,
                        !.garbled = server[s].garbled \union {{line[i][1] : i \in DOMAIN line}}]]
        /\ UNCHANGED <<setting, exchange, sessions, relays, stopping, got, said>>

\* The server exits, of itself, at its input's end, or because the wrapper was
\* asked to stop it.
Exit(s) ==
    /\ server[s].state = "running"
    /\ \/ "exit" \in setting.may
       \/ session[s].writer = "closed" /\ session[s].pipe = <<>>
       \/ session[s].grace = "over"
    /\ server' = [server EXCEPT ![s].state = "exited"]
    /\ UNCHANGED <<setting, exchange, sessions, relays, session, stopping, got, said>>

\* route_output has read the end: Session::end.  A server may close its output
\* and live on.
OutputEnds(s) ==
    /\ ~session[s].ended
    /\ server[s].state = "exited" \/ (server[s].state = "running" /\ "mute" \in setting.may)
    /\ session' = [session EXCEPT ![s].ended = TRUE, ![s].streams = {},
                                  ![s].standalone = NoExchange, ![s].pending = <<>>]
    /\ UNCHANGED <<setting, exchange, sessions, relays, server, stopping, got, said>>

-----------------------------------------------------------------------------
(* Bridge::stop *)

StopBegins ==
    /\ "stop" \in setting.may /\ stopping.step = "no"
    /\ \E order \in SetToSeqs(sessions) :
          stopping' = [stopping EXCEPT !.step = "ending", !.ending = order]
    /\ sessions' = {}
    /\ UNCHANGED <<setting, exchange, relays, session, server, got, said>>

StopEnds ==
    /\ stopping.step = "ending" /\ stopping.ending # <<>>
    /\ End(Head(stopping.ending))
    /\ stopping' = [stopping EXCEPT !.ending = Tail(@)]
    /\ UNCHANGED <<setting, exchange, sessions, relays, server, got, said>>

StopWaits ==
    /\ stopping.step = "ending" /\ stopping.ending = <<>>
    /\ stopping' = [stopping EXCEPT !.step = "waiting", !.awaited = relays]
    /\ relays' = {}
    /\ UNCHANGED <<setting, exchange, sessions, session, server, got, said>>

StopReturns ==
    /\ stopping.step = "waiting"
    /\ \A s \in stopping.awaited : server[s].state = "exited"
    /\ stopping' = [stopping EXCEPT !.step = "over"]
    /\ UNCHANGED <<setting, exchange, sessions, relays, session, server, got, said>>

-----------------------------------------------------------------------------
Handler(e) ==
    \/ Insert(e) \/ Open(e) \/ Lock(e) \/ Write(e) \/ EndOfStream(e) \/ Withdraw(e) \/ Close(e)

Next ==
    \/ \E e \in Exchanges : Arrive(e) \/ Handler(e) \/ Leave(e)
    \/ \E s \in Sessions :
          \/ Grace(s) \/ Read(s) \/ Notify(s) \/ Exit(s) \/ OutputEnds(s)
          \/ \E r \in server[s].owes : Respond(s, r)
    \/ StopBegins \/ StopEnds \/ StopWaits \/ StopReturns

Spec == Init /\ [][Next]_vars

\* The bridge's tasks run, timers fire, and the wrapper stops a server it was
\* asked to stop.  A server reads its input, unless it stalls; it owes nobody
\* an answer or an exit.
FairSpec ==
    /\ Spec
    /\ \A e \in Exchanges : WF_vars(Handler(e))
    /\ \A s \in Sessions :
          /\ WF_vars(Grace(s)) /\ WF_vars(server[s].state = "exited" /\ OutputEnds(s))
          /\ WF_vars(session[s].grace = "over" /\ Exit(s))
          /\ WF_vars("stall" \notin setting.may /\ Read(s))
    /\ WF_vars(StopEnds) /\ WF_vars(StopWaits) /\ WF_vars(StopReturns)

-----------------------------------------------------------------------------
\* The output of the exchange's server has ended; the server has exited.
Silent(e) == exchange[e].session \in {s \in Sessions : session[s].ended \/ server[s].state = "exited"}
Bereft(e) == exchange[e].session \in {s \in Sessions : server[s].state = "exited"}

TypeOK ==
    /\ setting \in Settings
    /\ exchange \in [Exchanges -> [step: Steps, kind: Kinds, session: Sessions \union {NoSession}, written: 0 .. 2]]
    /\ sessions \subseteq Sessions /\ relays \subseteq Sessions
    /\ \A s \in Sessions :
          /\ session[s].writer \in {"open", "closed"} /\ session[s].grace \in {"none", "running", "over"}
          /\ Len(session[s].pipe) <= Room /\ Len(session[s].pending) <= PENDING_LIMIT
          /\ server[s].state \in {"none", "running", "exited"}
    /\ stopping.step \in {"no", "ending", "waiting", "over"}

InOrder(lines, all) ==
    \A i, j \in DOMAIN lines : i < j =>
        \E k, l \in DOMAIN all : k < l /\ all[k] = lines[i] /\ all[l] = lines[j]

\* What a server wrote goes to one stream or waits for one, and no stream tells
\* it out of the server's order, however streams open, end, are left or replaced.
RoutedOnce ==
    \A s \in Sessions :
        /\ \A line \in Range(said[s]) :
              LET streams == {e \in Exchanges : line \in Range(got[e])}
              IN  /\ Cardinality(streams) <= 1
                  /\ streams # {} => line \notin Range(session[s].pending)
                  /\ \/ streams # {} \/ line \in Range(session[s].pending) \/ session[s].ended
                     \/ line.kind = "notice" /\ Len(said[s]) > PENDING_LIMIT
                     \/ line.kind = "answer" /\ exchange[line.id[1]].step \in {"done", "gone"}
        /\ InOrder(session[s].pending, said[s])
        /\ \A e \in Exchanges : exchange[e].session = s => InOrder(got[e], said[s])

\* "A response goes on the stream of the POST that carried its request, and that
\* stream ends once every request it carried is answered" (session.rs:10-11), or
\* with the server's output: for every POST whose client stays.
AnswersKeepTheirStream ==
    \A e \in Exchanges : exchange[e].step \in {"writing", "streaming", "done"} =>
        LET s == exchange[e].session
            answered == {r \in Ids(e) : Answer(r) \in Range(said[s])}
        IN  /\ \A r \in answered : Answer(r) \in Range(got[e])
            /\ exchange[e].written = setting.pieces /\ answered # Ids(e) => Held(e) \/ session[s].ended

\* "A message a POST carries is written to that process's stdin as one line"
\* (bridge.rs:11): lines of concurrent POSTs never mix.  Only a client that left
\* in the middle of a line can spoil the one behind it.
LinesAreWhole ==
    \A s \in Sessions : \A mixed \in server[s].garbled :
        \E e \in mixed : exchange[e].step = "gone" /\ exchange[e].written < setting.pieces

\* "The server's output ended: every stream ends with it" (session.rs:146): no
\* client is left waiting on a stream nobody will write to.
StreamsEnd ==
    \A e \in Exchanges :
        (exchange[e].step = "streaming" /\ Silent(e)) ~> exchange[e].step # "streaming"

\* "A DELETE closes the server's stdin; a server still running two seconds later
\* is stopped" (bridge.rs:14-16), when the server reads what POSTs are writing
\* and the client waits for the answer.
DeleteStopsServer ==
    "stall" \notin setting.may =>
        \A e \in Exchanges :
            exchange[e].step = "closing" ~> (exchange[e].step = "gone" \/ Bereft(e))

\* stop() "ends every session as a DELETE would, waits for their servers"
\* (bridge.rs:145): it waits for no server that nobody has told to end.
StopEndsEverySession ==
    stopping.step = "waiting" =>
        \A s \in stopping.awaited : session[s].writer = "closed" \/ server[s].state = "exited"
=============================================================================

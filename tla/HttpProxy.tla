------------------------------ MODULE HttpProxy -------------------------------
(***************************************************************************)
(* The recording proxy, mcp-trace-capture http (http.rs, http/listen.rs,   *)
(* http/relay.rs, http/answers.rs, run.rs).  One handler serves one        *)
(* exchange: it reads the request, asks the router for its trace, records, *)
(* forwards, records the answer and relays it.  Handlers run in parallel,  *)
(* so between any two steps of one, which are two holds of a lock or two   *)
(* sides of an await, the others and the stop take theirs.                 *)
(*                                                                         *)
(* Composes Traces (the router) and Recorder (one per trace).  The client, *)
(* the upstream and the signals are the environment: a setting says which  *)
(* requests clients may make and which answers the upstream may give, and  *)
(* which happens is a choice.                                              *)
(***************************************************************************)
EXTENDS Traces, Recorder, SequencesExt

CONSTANTS
    Handlers,     \* exchanges, each served once
    MaxEvents,    \* bound: events of one SSE stream
    Settings      \* the proxies considered, see Setting below

Methods == {"POST", "GET", "DELETE", "CONNECT", "dotted path"}

\* A request's body: a message, bytes that are not one, none at all, one past
\* max_message or the buffer budget, or one its client leaves or stalls in.
RequestBodies == {"message", "unreadable", "empty", "long", "gone", "stalled"}

\* An answer's body, when it is not an event stream, and "cut" by the upstream.
AnswerBodies == {"message", "unreadable", "empty", "long", "cut"}

(***************************************************************************)
(* A proxy considered: a trace per session or one for all, what clients    *)
(* may send, what the upstream may answer, whether a file may fail to be   *)
(* created or written, and the bound on requests to stop.                  *)
(***************************************************************************)
Setting == [perSession: BOOLEAN,
            requests: SUBSET [method: Methods, id: MaybeIds, initialize: BOOLEAN,
                              body: RequestBodies],
            answers: SUBSET [ok: BOOLEAN, id: MaybeIds, sse: BOOLEAN, body: AnswerBodies],
            faults: BOOLEAN, signals: Nat]

ASSUME HttpProxyAssumption ==
    /\ MaxEvents \in Nat
    /\ \A s \in Settings : s \in Setting

VARIABLES
    setting,    \* which of Settings this proxy is
    router,     \* Traces::state
    traces,     \* the recorders: one per session, or the one
    handler,    \* what each handler is doing
    counters,   \* Counters
    stop,       \* the main task: serving, stopping, closing, finishing; and of
                \* its closing, how many recorders it collected and which are left
    reached,    \* history: the requests the upstream received
    relayed,    \* history: the exchanges whose answer the client received
    before      \* history: <<g, h>> when g's answer was relayed before h was sent

vars == <<setting, router, traces, handler, counters, stop, reached, relayed, before>>

C2S == "client-to-server"
S2C == "server-to-client"

NoRequest == [method |-> "GET", id |-> NoId, initialize |-> FALSE, body |-> "empty"]
NoAnswer  == [ok |-> FALSE, id |-> NoId, sse |-> FALSE, body |-> "empty"]

Unused == [phase |-> "unused", req |-> NoRequest, ans |-> NoAnswer,
           route |-> [index |-> 0, unseen |-> NoId], events |-> 0, fate |-> "none"]

CounterNames == {"refused", "stalled", "upstream_failures", "upstream_cut",
                 "not_2xx", "over_limit", "not_json"}

Count(name) == counters' = [counters EXCEPT ![name] = @ + 1]
CountIf(condition, name) == IF condition THEN Count(name) ELSE UNCHANGED counters

Init ==
    /\ setting \in Settings
    /\ router = NewRouter
    /\ traces = IF setting.perSession THEN <<>> ELSE <<New("buffered")>>
    /\ handler = [h \in Handlers |-> Unused]
    /\ counters = [name \in CounterNames |-> 0]
    /\ stop = [phase |-> "serving", signals |-> 0, event |-> "transport-close",
               recorders |-> 0, todo |-> {}]
    /\ reached = {}
    /\ relayed = {}
    /\ before = {}

-----------------------------------------------------------------------------
(* What a handler records. *)

Event(h, part, body) ==
    LET e == handler[h]
        request == part = "request"
    IN  [dir |-> IF request THEN C2S ELSE S2C, body |-> body, fits |-> TRUE,
         opens |-> request /\ body = "message" /\ e.req.initialize,
         ids |-> IF body # "http" THEN {}
                 ELSE (IF request THEN {e.req.id} ELSE {e.ans.id}) \ {NoId},
         of |-> h, part |-> part]

TraceOf(h) == IF setting.perSession THEN handler[h].route.index ELSE 1

\* Trace t after one of these outcomes; a write fails only where it may.
After(t, outcomes) ==
    \E r \in {w.rec : w \in outcomes} :
        /\ r.failed => traces[t].failed \/ setting.faults
        /\ traces' = [traces EXCEPT ![t] = r]

\* One event, or an http event and the message beside it, into h's trace.
RecordIn(h, event) == After(TraceOf(h), Record(traces[TraceOf(h)], event))

RecordTogether(h, part, body) ==
    IF body = "message"
    THEN After(TraceOf(h), RecordPair(traces[TraceOf(h)], Event(h, part, "http"),
                                      Event(h, part, "message")))
    ELSE RecordIn(h, Event(h, part, "http"))

Unreadable(body) == body = "unreadable"

-----------------------------------------------------------------------------
(* A handler: forward and what it calls. *)

Running == stop.phase # "exited"

\* Traces::finish holds the router's lock while it finishes every trace.
RouterFree == stop.phase # "finishing"

At(h, phase) == Running /\ handler[h].phase = phase

Goto(h, phase) == handler' = [handler EXCEPT ![h].phase = phase]

Done(h, fate) == handler' = [handler EXCEPT ![h].phase = "done", ![h].fate = fate]

\* The accept loop; it ends at the request to stop.
Connect(h) ==
    /\ At(h, "unused")
    /\ stop.phase = "serving"
    /\ Goto(h, "connected")
    /\ UNCHANGED <<setting, router, traces, counters, stop, reached, relayed, before>>

\* An open connection's request still arrives after the request to stop.
Arrive(h, req) ==
    /\ At(h, "connected")
    /\ handler' = [handler EXCEPT ![h].phase = "reading", ![h].req = req]
    /\ before' = before \union (relayed \X {h})
    /\ UNCHANGED <<setting, router, traces, counters, stop, reached, relayed>>

\* CONNECT, and a path that would leave the upstream's: the proxy's own answer.
Refuse(h) ==
    /\ At(h, "reading")
    /\ handler[h].req.method \in {"CONNECT", "dotted path"}
    /\ Done(h, "refused")
    /\ Count("refused")
    /\ UNCHANGED <<setting, router, traces, stop, reached, relayed, before>>

\* The body was read as far as it goes, and the request is routed: by its
\* message only when that was read whole.
RouteRequest(h) ==
    LET e == handler[h]
        whole == e.req.body \in {"message", "unreadable", "empty"}
        r == Route(router, e.req.id, e.req.body = "message" /\ e.req.initialize)
    IN  /\ At(h, "reading") /\ RouterFree
        /\ e.req.method \notin {"CONNECT", "dotted path"}
        /\ router' = r.router
        /\ handler' = [handler EXCEPT ![h].phase = "routed", ![h].route = r.route]
        /\ IF setting.perSession /\ Len(r.router.ids) > Len(traces)
           THEN \E sink \in {"direct"} \union (IF setting.faults THEN {"unwritable"} ELSE {}) :
                    traces' = Append(traces, New(sink))
           ELSE UNCHANGED traces
        /\ UNCHANGED <<setting, counters, stop, reached, relayed, before>>

AfterRequest(body) ==
    CASE body = "gone"    -> "aborting"
      [] body = "stalled" -> "stalling"
      [] OTHER            -> "forwarding"

\* Mutant: the http event and its message are recorded one after the other.
RecordRequestApart(h) ==
    LET body == handler[h].req.body
    IN  /\ \/ /\ At(h, "routed")
              /\ RecordIn(h, Event(h, "request", "http"))
              /\ Goto(h, IF body = "message" THEN "headed" ELSE AfterRequest(body))
           \/ /\ At(h, "headed")
              /\ RecordIn(h, Event(h, "request", "message"))
              /\ Goto(h, AfterRequest(body))
        /\ UNCHANGED <<setting, router, counters, stop, reached, relayed, before>>

\* The http event, and the message if the body is one, in one step; a body
\* that is not recorded is counted.
RecordRequest(h) ==
    LET body == handler[h].req.body
    IN  /\ At(h, "routed")
        /\ RecordTogether(h, "request", body)
        /\ IF body = "long" THEN Count("over_limit")
           ELSE CountIf(Unreadable(body), "not_json")
        /\ Goto(h, AfterRequest(body))
        /\ UNCHANGED <<setting, router, stop, reached, relayed, before>>

\* The client went away mid-body: the exchange is recorded as cut off.
AbortRequest(h) ==
    /\ At(h, "aborting")
    /\ RecordIn(h, Event(h, "request", "transport-abort"))
    /\ Done(h, "gone")
    /\ UNCHANGED <<setting, router, counters, stop, reached, relayed, before>>

\* body_stalled: 408, counted, and recorded as cut off.  A body streamed past
\* the limit can stall while it is being sent upstream, which has part of it.
BodyStalled(h) ==
    /\ \/ At(h, "stalling")
       \/ /\ At(h, "forwarding") \/ At(h, "waiting")
          /\ handler[h].req.body = "long"
    /\ RecordIn(h, Event(h, "request", "transport-abort"))
    /\ Count("stalled")
    /\ Done(h, "stalled")
    /\ UNCHANGED <<setting, router, stop, reached, relayed, before>>

\* The request is sent upstream.
Forward(h) ==
    /\ At(h, "forwarding")
    /\ Goto(h, "waiting")
    /\ reached' = reached \union {h}
    /\ UNCHANGED <<setting, router, traces, counters, stop, relayed, before>>

\* upstream_failed: 502 and an aborted transport, never an answer.
UpstreamFailed(h) ==
    /\ At(h, "forwarding") \/ At(h, "waiting")
    /\ RecordIn(h, Event(h, "answer", "transport-abort"))
    /\ Count("upstream_failures")
    /\ Done(h, "unreached")
    /\ UNCHANGED <<setting, router, stop, reached, relayed, before>>

\* The upstream's status and headers.
Answer(h, ans) ==
    /\ At(h, "waiting")
    /\ handler' = [handler EXCEPT ![h].phase = "answered", ![h].ans = ans]
    /\ UNCHANGED <<setting, router, traces, counters, stop, reached, relayed, before>>

EndsSession(h) ==
    LET e == handler[h] IN e.req.method = "DELETE" /\ e.req.id # NoId /\ e.ans.ok

EndSession(h) ==
    /\ At(h, "answered") /\ RouterFree
    /\ EndsSession(h)
    /\ router' = End(router, handler[h].req.id)
    /\ Goto(h, "ended")
    /\ UNCHANGED <<setting, traces, counters, stop, reached, relayed, before>>

RespondTo(h) ==
    LET e == handler[h]
    IN  /\ At(h, IF EndsSession(h) THEN "ended" ELSE "answered") /\ RouterFree
        /\ router' = Respond(router, e.route, e.ans.id, e.ans.ok)
        /\ CountIf(~e.ans.ok, "not_2xx")
        /\ Goto(h, "responding")
        /\ UNCHANGED <<setting, traces, stop, reached, relayed, before>>

\* Mutant: the answer is relayed and then recorded.
RecordAnswerLate(h) ==
    LET e == handler[h]
    IN  /\ \/ /\ At(h, "responding") /\ e.ans.body # "cut"
              /\ Goto(h, "late")
              /\ relayed' = relayed \union {h}
              /\ UNCHANGED traces
           \/ /\ At(h, "late")
              /\ RecordTogether(h, "answer", e.ans.body)
              /\ Done(h, "answered")
              /\ UNCHANGED relayed
        /\ UNCHANGED <<setting, router, counters, stop, reached, before>>

\* A body read whole, or as far as it is read, then recorded and relayed.
RecordAnswer(h) ==
    LET e == handler[h]
    IN  /\ At(h, "responding")
        /\ ~e.ans.sse
        /\ RecordTogether(h, "answer", e.ans.body)
        /\ IF e.ans.body = "long" THEN Count("over_limit")
           ELSE CountIf(Unreadable(e.ans.body), "not_json")
        /\ IF e.ans.body = "cut"
           THEN Goto(h, "cutting") /\ UNCHANGED relayed
           ELSE Done(h, "answered") /\ relayed' = relayed \union {h}
        /\ UNCHANGED <<setting, router, stop, reached, before>>

\* Mutants: the truncation is relayed but not recorded; it is not counted.
UpstreamCutUnrecorded(h) ==
    /\ At(h, "cutting") \/ At(h, "streaming")
    /\ Count("upstream_cut")
    /\ Done(h, "cut")
    /\ UNCHANGED <<setting, router, traces, stop, reached, relayed, before>>

\* upstream_cut: the truncation is relayed and recorded as an aborted transport.
UpstreamCut(h) ==
    /\ At(h, "cutting") \/ At(h, "streaming")
    /\ RecordIn(h, Event(h, "answer", "transport-abort"))
    /\ Count("upstream_cut")
    /\ Done(h, "cut")
    /\ UNCHANGED <<setting, router, stop, reached, relayed, before>>

\* An event stream: its head is recorded at once.
RecordStream(h) ==
    /\ At(h, "responding")
    /\ handler[h].ans.sse
    /\ RecordTogether(h, "answer", "none")
    /\ Goto(h, "streaming")
    /\ UNCHANGED <<setting, router, counters, stop, reached, relayed, before>>

\* Each event is recorded before the chunk that completes it is yielded.
StreamEvent(h) ==
    /\ At(h, "streaming")
    /\ handler[h].events < MaxEvents
    /\ RecordIn(h, Event(h, "event", "message"))
    /\ handler' = [handler EXCEPT ![h].events = @ + 1]
    /\ relayed' = relayed \union {h}
    /\ UNCHANGED <<setting, router, counters, stop, reached, before>>

StreamEnds(h) ==
    /\ At(h, "streaming")
    /\ Done(h, "answered")
    /\ UNCHANGED <<setting, router, traces, counters, stop, reached, relayed, before>>

\* cut_at_stop: a standalone stream, the answer to a GET, ends with an error.
StreamStopped(h) ==
    /\ At(h, "streaming")
    /\ handler[h].req.method = "GET"
    /\ stop.phase # "serving"
    /\ Done(h, "stopped")
    /\ UNCHANGED <<setting, router, traces, counters, stop, reached, relayed, before>>

\* The client closes its connection: the handler is dropped where it waits.
ClientLeaves(h) ==
    /\ \/ \E phase \in {"connected", "reading", "waiting", "streaming"} : At(h, phase)
       \/ At(h, "responding") /\ ~handler[h].ans.sse
    /\ Done(h, "left")
    /\ UNCHANGED <<setting, router, traces, counters, stop, reached, relayed, before>>

-----------------------------------------------------------------------------
(* The main task: serve_until_stopped, serve_traces, finish_traces. *)

\* A first request to stop ends the accept loop; a second ends the wait too.
Signal ==
    /\ stop.phase = "serving"
    /\ stop.signals < setting.signals
    /\ stop' = [stop EXCEPT !.phase = "stopping", !.signals = @ + 1]
    /\ UNCHANGED <<setting, router, traces, handler, counters, reached, relayed, before>>

\* Mutant: the last session's trace is left out.
CloseAllButLast(event) ==
    /\ stop' = [stop EXCEPT !.phase = "closing", !.event = event,
                            !.recorders = Len(traces), !.todo = 1 .. Len(traces) - 1]
    /\ UNCHANGED <<setting, router, traces, handler, counters, reached, relayed, before>>

\* close_all: the traces are collected under the router's lock and closed after.
CloseAll(event) ==
    /\ stop' = [stop EXCEPT !.phase = "closing", !.event = event,
                            !.recorders = Len(traces), !.todo = 1 .. Len(traces)]
    /\ UNCHANGED <<setting, router, traces, handler, counters, reached, relayed, before>>

SecondSignal ==
    /\ stop.phase = "stopping"
    /\ stop.signals < setting.signals
    /\ CloseAll("transport-abort")

\* Every open connection finished its exchange.
ServerDone ==
    /\ stop.phase = "stopping"
    /\ \A h \in Handlers : handler[h].phase \in {"unused", "done"}
    /\ CloseAll("transport-close")

GraceElapsed ==
    /\ stop.phase = "stopping"
    /\ CloseAll("transport-close")

CloseTrace(t) ==
    /\ stop.phase = "closing"
    /\ t \in stop.todo /\ \A u \in stop.todo : t <= u
    /\ After(t, Close(traces[t], LifecycleEvent(C2S, stop.event)))
    /\ stop' = [stop EXCEPT !.todo = @ \ {t}]
    /\ UNCHANGED <<setting, router, handler, counters, reached, relayed, before>>

StartFinish ==
    /\ stop.phase = "closing" /\ stop.todo = {}
    /\ stop' = [stop EXCEPT !.phase = "finishing", !.todo = 1 .. Len(traces)]
    /\ UNCHANGED <<setting, router, traces, handler, counters, reached, relayed, before>>

FinishTrace(t) ==
    /\ stop.phase = "finishing"
    /\ t \in stop.todo /\ \A u \in stop.todo : t <= u
    /\ \E f \in Finish(traces[t]) : traces' = [traces EXCEPT ![t] = f.rec]
    /\ stop' = [stop EXCEPT !.todo = @ \ {t}]
    /\ UNCHANGED <<setting, router, handler, counters, reached, relayed, before>>

Exit ==
    /\ stop.phase = "finishing" /\ stop.todo = {}
    /\ stop' = [stop EXCEPT !.phase = "exited"]
    /\ UNCHANGED <<setting, router, traces, handler, counters, reached, relayed, before>>

-----------------------------------------------------------------------------
HandlerStep(h) ==
    \/ Connect(h)
    \/ \E req \in setting.requests : Arrive(h, req)
    \/ Refuse(h)
    \/ RouteRequest(h)
    \/ RecordRequest(h)
    \/ AbortRequest(h)
    \/ BodyStalled(h)
    \/ Forward(h)
    \/ UpstreamFailed(h)
    \/ \E ans \in setting.answers : Answer(h, ans)
    \/ EndSession(h)
    \/ RespondTo(h)
    \/ RecordAnswer(h)
    \/ UpstreamCut(h)
    \/ RecordStream(h)
    \/ StreamEvent(h)
    \/ StreamEnds(h)
    \/ StreamStopped(h)
    \/ ClientLeaves(h)

MainStep ==
    \/ \E t \in 1 .. Len(traces) : CloseTrace(t) \/ FinishTrace(t)
    \/ StartFinish
    \/ Exit

Next ==
    \/ \E h \in Handlers : HandlerStep(h)
    \/ MainStep
    \/ Signal
    \/ SecondSignal
    \/ ServerDone
    \/ GraceElapsed

Spec == Init /\ [][Next]_vars

-----------------------------------------------------------------------------
HandlerPhases == {"unused", "connected", "reading", "routed", "aborting", "stalling",
                  "forwarding", "waiting", "answered", "ended", "responding",
                  "cutting", "streaming", "done"}

Fates == {"none", "refused", "gone", "stalled", "unreached", "answered", "cut",
          "stopped", "left"}

Told(h) == [dir: Directions, body: Bodies, fits: {TRUE}, opens: BOOLEAN,
            ids: SUBSET Ids, of: {h}, part: {"request", "answer", "event"}]

Events == (UNION {Told(h) : h \in Handlers})
          \union {LifecycleEvent(C2S, body) : body \in {"transport-close", "transport-abort"}}

\* Every handler past the router carries the route of a session that began,
\* and every session has the recorder its route names.
TypeOK ==
    /\ router \in Routers
    /\ setting.perSession => Len(traces) = Len(router.ids)
    /\ \A t \in 1 .. Len(traces) : traces[t] \in RecordersOver(Events, Ids)
    /\ \A h \in Handlers :
          /\ handler[h].phase \in HandlerPhases
          /\ handler[h].fate \in Fates
          /\ handler[h].phase \notin {"unused", "connected", "reading", "done"} =>
                handler[h].route.index \in 1 .. Len(router.ids)
    /\ counters \in [CounterNames -> Nat]
    /\ stop.todo \subseteq 1 .. Len(traces)
    /\ reached \subseteq Handlers /\ relayed \subseteq Handlers
    /\ before \subseteq Handlers \X Handlers

-----------------------------------------------------------------------------
\* The lines of h, which of them line i is, and what a line tells.
IsOf(h, line) == "of" \in DOMAIN line.ev /\ line.ev.of = h

Places(h, lines) == {i \in 1 .. Len(lines) : IsOf(h, lines[i])}

Rank(h, lines, i) == Cardinality({j \in Places(h, lines) : j <= i})

Says(line) == <<line.ev.part, line.ev.body>>

\* What they tell is the story from its beginning, in order.
Recounts(h, lines, story) ==
    \A i \in Places(h, lines) :
        LET k == Rank(h, lines, i)
        IN  k <= Len(story) /\ Says(lines[i]) = story[k]

WithMessage(part, body) ==
    <<<<part, "http">>>> \o (IF body = "message" THEN <<<<part, "message">>>> ELSE <<>>)

Asked(e) == WithMessage("request", e.req.body)

Answered(e) ==
    IF e.ans.sse
    THEN <<<<"answer", "http">>>> \o [i \in 1 .. e.events |-> <<"event", "message">>]
    ELSE WithMessage("answer", e.ans.body)

\* What the trace of exchange e says once it is over, by how it ended.
Story(e) ==
    CASE e.fate \in {"gone", "stalled"} -> Asked(e) \o <<<<"request", "transport-abort">>>>
      [] e.fate = "unreached"           -> Asked(e) \o <<<<"answer", "transport-abort">>>>
      [] e.fate = "cut"                 -> Asked(e) \o Answered(e) \o <<<<"answer", "transport-abort">>>>
      [] OTHER                          -> Asked(e) \o Answered(e)

\* Trace t failed, began too late to be closed, and has been finished: its
\* recorder handed the failure to the summary and kept none, so what a handler
\* still running records is written behind what was lost (recorder.rs:319).
Lapsed(t) ==
    /\ traces[t].dropped > 0 /\ t > stop.recorders
    /\ stop.phase = "exited" \/ (stop.phase = "finishing" /\ t \notin stop.todo)

\* An exchange that is over is told in one trace, whole and in order, by how
\* it ended: one request, then its answer, its cut-off or its failure, once.
\* Of a trace that refused or dropped events it is told as far as it goes,
\* until the stop has finished one that it could not close; a request the
\* proxy refused is in no trace (relay.rs, answers.rs:4-9).
StoryIsTold ==
    \A h \in Handlers :
        handler[h].phase = "done" /\ handler[h].fate # "left" =>
            \A t \in 1 .. Len(traces) :
                LET rec == traces[t]
                    story == Story(handler[h])
                IN  IF handler[h].fate = "refused" \/ t # TraceOf(h)
                    THEN Places(h, rec.lines) = {}
                    ELSE /\ Lapsed(t) \/ Recounts(h, rec.lines, story)
                         /\ rec.dropped + rec.afterClose = 0 =>
                               Cardinality(Places(h, rec.lines)) = Len(story)

\* A message is the line after the http event of its own exchange: the
\* validator reads a message with the headers beside it, and no concurrent
\* exchange's come between them (relay.rs:103-106).
MessageBesideItsHeaders ==
    \A t \in 1 .. Len(traces) : \A i \in 1 .. Len(traces[t].lines) :
        LET ev == traces[t].lines[i].ev
        IN  ev.body = "message" /\ ev.part # "event" =>
                /\ i > 1
                /\ IsOf(ev.of, traces[t].lines[i - 1])
                /\ traces[t].lines[i - 1].ev.body = "http"
                /\ traces[t].lines[i - 1].ev.part = ev.part

\* In one trace, an answer its client had received is before every request it
\* sent afterwards: the trace shows no effect ahead of its cause.  Nor does it
\* lack one: what the upstream received is in it, unless it can hold no more
\* (traces.rs:261-265).
CausalOrder ==
    /\ \A h \in reached :
          LET rec == traces[TraceOf(h)]
          IN  rec.dropped + rec.afterClose = 0 =>
                  \E i \in 1 .. Len(rec.lines) : IsOf(h, rec.lines[i])
    /\ \A t \in 1 .. Len(traces) : \A i, j \in 1 .. Len(traces[t].lines) :
        LET cause == traces[t].lines[i]
            effect == traces[t].lines[j]
        IN  \A pair \in before :
                IsOf(pair[1], cause) /\ cause.ev.part = "answer"
                  /\ cause.ev.body # "transport-abort" /\ IsOf(pair[2], effect) => i < j

\* "the proxy is stopping" (traces.rs:215): once the traces are closed, each
\* of them that was there when they were collected takes no more, whatever the
\* handlers still running do, and ends with the event of the stop, unless it
\* could not take that.  A session begun meanwhile is the one that may go on.
TracesEndAtStop ==
    stop.phase \in {"finishing", "exited"} =>
        \A t \in 1 .. stop.recorders :
            /\ traces[t].closed
            /\ traces[t].dropped = 0 =>
                  /\ traces[t].lines # <<>>
                  /\ traces[t].lines[Len(traces[t].lines)].ev = LifecycleEvent(C2S, stop.event)

=============================================================================

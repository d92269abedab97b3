------------------------------- MODULE Routing --------------------------------
(***************************************************************************)
(* Concurrent exchanges through the session router (http/relay.rs, forward *)
(* and relay_response, over traces.rs).  A handler routes its request,     *)
(* waits for the upstream, and only then tells the router how the server   *)
(* answered: whatever other handlers do in between has already changed the *)
(* router.  Recording is left out; HttpProxy has it.                       *)
(*                                                                         *)
(* The server and the client are the environment.  With Orderly they keep  *)
(* to the transport's rules: the server assigns a new id on the answer to  *)
(* an initialize and refuses an id whose session it does not hold; the     *)
(* client names only ids it was given, or the Strange ones, which it knew  *)
(* (or invented) before the proxy started.  Otherwise both say anything.   *)
(***************************************************************************)
EXTENDS Traces, FiniteSets

CONSTANTS Handlers,      \* exchanges in progress at once
          Strange,       \* ids not assigned through the proxy
          Orderly,       \* whether client and server keep to the rules
          MaxRequests    \* bound: requests the client sends

ASSUME RoutingAssumption ==
    Strange \subseteq Ids /\ Orderly \in BOOLEAN /\ MaxRequests \in Nat

VARIABLES router,     \* Traces::state
          exchange,   \* what each handler is doing
          sent,       \* requests sent so far
          live,       \* the sessions the server holds
          learnt,     \* the ids the client was given
          home,       \* the trace of the initialize an id was assigned on, or 0
          starts,     \* initialize requests without an id, routed
          accepts     \* unseen ids accepted

vars == <<router, exchange, sent, live, learnt, home, starts, accepts>>

Kinds  == {"initialize", "delete", "other"}
Phases == {"idle", "sending", "forwarded", "answered", "ended"}

NoRoute == [index |-> 0, unseen |-> NoId]

Exchanges == [phase: Phases, id: MaybeIds, kind: Kinds, route: Routes,
              ok: BOOLEAN, given: MaybeIds]

Idle == [phase |-> "idle", id |-> NoId, kind |-> "other", route |-> NoRoute,
         ok |-> FALSE, given |-> NoId]

Init ==
    /\ router = NewRouter
    /\ exchange = [h \in Handlers |-> Idle]
    /\ sent = 0
    /\ live \in SUBSET Strange
    /\ learnt = {}
    /\ home = [id \in Ids |-> 0]
    /\ starts = 0
    /\ accepts = 0

\* A request arrives; the handler reads its body before it routes it.
Send(h, id, kind) ==
    /\ exchange[h].phase = "idle"
    /\ sent < MaxRequests
    /\ Orderly => id \in learnt \union Strange \union {NoId}
    /\ exchange' = [exchange EXCEPT ![h] =
                       [Idle EXCEPT !.phase = "sending", !.id = id, !.kind = kind]]
    /\ sent' = sent + 1
    /\ UNCHANGED <<router, live, learnt, home, starts, accepts>>

\* Traces::route; the request is then on its way to the server.
RouteRequest(h) ==
    LET e == exchange[h]
        r == Route(router, e.id, e.kind = "initialize")
    IN  /\ e.phase = "sending"
        /\ router' = r.router
        /\ exchange' = [exchange EXCEPT ![h] =
                           [e EXCEPT !.phase = "forwarded", !.route = r.route]]
        /\ starts' = IF e.id = NoId /\ e.kind = "initialize" THEN starts + 1 ELSE starts
        /\ UNCHANGED <<sent, live, learnt, home, accepts>>

\* The upstream could not be reached, or the client was gone: no answer.
Fail(h) ==
    /\ exchange[h].phase = "forwarded"
    /\ exchange' = [exchange EXCEPT ![h] = Idle]
    /\ UNCHANGED <<router, sent, live, learnt, home, starts, accepts>>

Assignable == {id \in Ids \ Strange : home[id] = 0}

\* What a server that keeps to the rules may answer.
OrderlyAnswer(e, ok, given) ==
    IF e.id # NoId
    THEN IF e.id \in live THEN given \in {NoId, e.id} ELSE ~ok /\ given = NoId
    ELSE IF e.kind = "initialize" /\ ok THEN given \in Assignable \union {NoId}
    ELSE given = NoId

\* The server answers.
Answer(h, ok, given) ==
    LET e == exchange[h]
        opens == e.kind = "initialize" /\ e.id = NoId /\ given \in Assignable
    IN  /\ e.phase = "forwarded"
        /\ Orderly => OrderlyAnswer(e, ok, given)
        /\ live' = IF e.kind = "delete" /\ ok THEN live \ {e.id}
                   ELSE IF opens THEN live \union {given} ELSE live
        /\ home' = IF opens THEN [home EXCEPT ![given] = e.route.index] ELSE home
        /\ exchange' = [exchange EXCEPT ![h] =
                           [e EXCEPT !.phase = "answered", !.ok = ok, !.given = given]]
        /\ UNCHANGED <<router, sent, learnt, starts, accepts>>

Ending(e) == e.kind = "delete" /\ e.id # NoId /\ e.ok

\* Traces::end, for a DELETE answered 2xx.
EndSession(h) ==
    LET e == exchange[h]
    IN  /\ e.phase = "answered"
        /\ Ending(e)
        /\ router' = End(router, e.id)
        /\ exchange' = [exchange EXCEPT ![h].phase = "ended"]
        /\ UNCHANGED <<sent, live, learnt, home, starts, accepts>>

\* Traces::respond, before the answer is returned to the client, which then
\* knows the id it carries.
RespondTo(h) ==
    LET e == exchange[h]
    IN  /\ e.phase = IF Ending(e) THEN "ended" ELSE "answered"
        /\ router' = Respond(router, e.route, e.given, e.ok)
        /\ accepts' = IF Accepts(router, e.route, e.ok) THEN accepts + 1 ELSE accepts
        /\ learnt' = IF e.given # NoId THEN learnt \union {e.given} ELSE learnt
        /\ exchange' = [exchange EXCEPT ![h] = Idle]
        /\ UNCHANGED <<sent, live, home, starts>>

Next ==
    \E h \in Handlers :
        \/ \E id \in MaybeIds, kind \in Kinds : Send(h, id, kind)
        \/ RouteRequest(h)
        \/ Fail(h)
        \/ \E ok \in BOOLEAN, given \in MaybeIds : Answer(h, ok, given)
        \/ EndSession(h)
        \/ RespondTo(h)

Spec == Init /\ [][Next]_vars

-----------------------------------------------------------------------------
Sessions == 1 .. Len(router.ids)

\* The router and the exchanges have their types: every index the router keeps
\* or a handler carries names a session that has begun, so no later
\* `sessions[index]` can be out of bounds.
TypeOK ==
    /\ router \in Routers
    /\ \A id \in Ids : router.byId[id] \in 0 .. Len(router.ids)
    /\ router.current \in 0 .. Len(router.ids)
    /\ router.unseen \in 0 .. Len(router.ids)
    /\ exchange \in [Handlers -> Exchanges]
    /\ \A h \in Handlers :
          /\ exchange[h].route.index \in 0 .. Len(router.ids)
          /\ exchange[h].phase \in {"forwarded", "answered", "ended"} =>
                exchange[h].route.index # 0
    /\ sent \in Nat /\ starts \in Nat /\ accepts \in Nat
    /\ live \subseteq Ids /\ learnt \subseteq Ids
    /\ home \in [Ids -> 0 .. Len(router.ids)]

\* However many ids clients invent, a trace is begun only for an initialize,
\* for an id the server accepted, and twice besides: once for requests with
\* no session before them, once for ids not accepted yet (traces.rs:16-18).
FilesAreNotPerInventedId == Len(router.ids) <= starts + accepts + 2

\* Requests without an id never join the trace kept for ids the server has
\* not accepted: that trace is not the current one (traces.rs:10-16).
UnseenIsNotCurrent == router.current # 0 => router.current # router.unseen

\* A session the server holds and the client was given the id of is known to
\* the router, as the trace its initialize was recorded in, and that trace is
\* no other id's: whatever its requests race with, they are recorded behind
\* their own initialize (traces.rs:8-10, relay.rs:167-169).
SessionsKeepTheirTrace ==
    \A id \in live \ Strange :
        id \in learnt => /\ router.byId[id] = home[id]
                         /\ \A other \in Ids \ {id} : router.byId[other] # home[id]

\* An id that has a trace keeps it until the session is ended: a late answer
\* to an older exchange does not move it to another (traces.rs:184-195).
KnownIdsDoNotMove ==
    [][\A id \in Ids : router.byId[id] # 0 => router'.byId[id] \in {0, router.byId[id]}]_vars

\* Only a session's own DELETE makes the router forget its id.
OnlyDeleteForgets ==
    [][\A id \in Ids :
          router.byId[id] # 0 /\ router'.byId[id] = 0 =>
             \E h \in Handlers : /\ exchange[h].id = id
                                 /\ exchange[h].kind = "delete"
                                 /\ exchange[h].ok]_vars
=============================================================================

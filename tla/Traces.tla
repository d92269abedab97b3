-------------------------------- MODULE Traces --------------------------------
(***************************************************************************)
(* Which trace a proxied HTTP exchange belongs to (traces.rs), as          *)
(* operators on the router's value.  Each public method of Traces holds    *)
(* the router's lock from its first read to its last write, so each        *)
(* operator is one atomic step of the handler that calls it.               *)
(*                                                                         *)
(* Sessions are numbered 1, 2, ... in the order they begin; 0 stands for   *)
(* the code's None, and NoId for a missing Mcp-Session-Id.  The file a     *)
(* session's trace is created as is the business of NumberedTraces, and    *)
(* its recorder of Recorder; both are met again in HttpProxy.              *)
(***************************************************************************)
EXTENDS Naturals, Sequences

CONSTANTS Ids,      \* the session ids that appear on the wire
          NoId      \* an exchange or a session without one

ASSUME IdsAssumption == NoId \notin Ids

MaybeIds == Ids \union {NoId}

\* ids[i] is the id session i is known by; byId is the index of the session an
\* accepted or assigned id belongs to.
Routers == [ids: Seq(MaybeIds), byId: [Ids -> Nat], current: Nat, unseen: Nat]

\* The trace of an exchange, and the id its request named if the server has
\* not accepted it yet.
Routes == [index: Nat, unseen: MaybeIds]

NewRouter == [ids |-> <<>>, byId |-> [id \in Ids |-> 0], current |-> 0, unseen |-> 0]

Known(router, id) == router.byId[id] # 0

Begun(router) == [router EXCEPT !.ids = Append(@, NoId)]

\* Starting a session: its index is the last one.
BegunCurrent(router) ==
    [Begun(router) EXCEPT !.current = Len(router.ids) + 1]
BegunUnseen(router) ==
    [Begun(router) EXCEPT !.unseen = Len(router.ids) + 1]

Routing(router, index, unseen) ==
    [router |-> router, route |-> [index |-> index, unseen |-> unseen]]

\* Mutants: every unseen id starts a trace; an initialize joins the session
\* begun before it; the trace for unseen ids also serves requests without one.
RoutePerId(router, id, initialize) ==
    IF id # NoId
    THEN IF Known(router, id) THEN Routing(router, router.byId[id], NoId)
         ELSE Routing(BegunUnseen(router), Len(router.ids) + 1, id)
    ELSE IF initialize \/ router.current = 0
    THEN Routing(BegunCurrent(router), Len(router.ids) + 1, NoId)
    ELSE Routing(router, router.current, NoId)

RouteJoining(router, id, initialize) ==
    IF id # NoId
    THEN IF Known(router, id) THEN Routing(router, router.byId[id], NoId)
         ELSE IF router.unseen # 0 THEN Routing(router, router.unseen, id)
         ELSE Routing(BegunUnseen(router), Len(router.ids) + 1, id)
    ELSE IF router.current = 0
    THEN Routing(BegunCurrent(router), Len(router.ids) + 1, NoId)
    ELSE Routing(router, router.current, NoId)

\* The session of a request naming `id`, or of one naming none that is or is
\* not an initialize.
Route(router, id, initialize) ==
    IF id # NoId
    THEN IF Known(router, id) THEN Routing(router, router.byId[id], NoId)
         ELSE IF router.unseen # 0 THEN Routing(router, router.unseen, id)
         ELSE Routing(BegunUnseen(router), Len(router.ids) + 1, id)
    ELSE IF initialize \/ router.current = 0
    THEN Routing(BegunCurrent(router), Len(router.ids) + 1, NoId)
    ELSE Routing(router, router.current, NoId)

\* Mutant: an accepted trace stays the trace for unseen ids.
AcceptKeepingUnseen(router, route) ==
    [router EXCEPT !.current = route.index,
                   !.byId[route.unseen] = route.index,
                   !.ids[route.index] = IF @ = NoId THEN route.unseen ELSE @]

\* The server answered a request naming an unseen id with a 2xx: its trace
\* becomes that id's session, and the one later requests without an id join.
Accept(router, route) ==
    [router EXCEPT !.unseen = IF @ = route.index THEN 0 ELSE @,
                   !.current = route.index,
                   !.byId[route.unseen] = route.index,
                   !.ids[route.index] = IF @ = NoId THEN route.unseen ELSE @]

\* Mutant: an id accepted meanwhile is accepted again, for this trace.
AcceptsAgain(router, route, succeeded) == route.unseen # NoId /\ succeeded

Accepts(router, route, succeeded) ==
    route.unseen # NoId /\ succeeded /\ ~Known(router, route.unseen)

\* The session id a response carries names its session, unless either is
\* taken.
Assigns(router, route, id) ==
    id # NoId /\ router.ids[route.index] = NoId /\ ~Known(router, id)

Assign(router, route, id) ==
    [router EXCEPT !.ids[route.index] = id, !.byId[id] = route.index]

\* How the server answered the exchange of `route`.
Respond(router, route, id, succeeded) ==
    LET accepted == IF Accepts(router, route, succeeded) THEN Accept(router, route)
                                                         ELSE router
    IN  IF Assigns(accepted, route, id) THEN Assign(accepted, route, id)
                                        ELSE accepted

\* The server accepted the client's DELETE of `id`.
End(router, id) == [router EXCEPT !.byId[id] = 0]
=============================================================================

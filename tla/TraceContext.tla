----------------------------- MODULE TraceContext -----------------------------
(***************************************************************************)
(* What the validator derives from a recorded trace before any check runs: *)
(* which response answers which request (context/pairing.rs), the phase of *)
(* the 2025-11-25 lifecycle before each event (context.rs), what each side *)
(* declared (checks/support.rs), and the party a finding is held against   *)
(* (engine.rs).  A trace is the sequence of its messages; the framing of   *)
(* Streamable HTTP and the requests it refuses are Framing's.              *)
(***************************************************************************)
EXTENDS Integers, Sequences, FiniteSetsExt, TLC

Parties == {"client", "server"}
Other(p) == IF p = "client" THEN "server" ELSE "client"

NoId == 0
None == "none"

\* A message, where a field says nothing the others leave open: `names` is the
\* request a cancellation names, `tag` the subscription that a message says it
\* belongs to, `ref` the cursor, task, elicitation or state
\* its params or result name, `body` the variant of the method that it is,
\* `keys` the entries of what it asks for, gives or offers, and `caps` the
\* capabilities it declares.
\* `nth` is its place among its sender's.
Blank == [from |-> "client", nth |-> 0, kind |-> "notification", method |-> None,
          id |-> NoId, token |-> None, value |-> 0, names |-> NoId, tag |-> NoId, ref |-> None, body |-> "plain",
          code |-> None, keys |-> {}, caps |-> {}]

IsRequest(m)      == m.kind = "request"
IsNotification(m) == m.kind = "notification"
IsResponse(m)     == m.kind \in {"result", "error"}
IsCancel(m)       == IsNotification(m) /\ m.method = "notifications/cancelled"
IsProgress(m)     == IsNotification(m) /\ m.method = "notifications/progress"

\* The latest and the earliest of a set of positions, 0 where there is none.
Latest(S)   == Max(S \union {0})
Earliest(S) == IF S = {} THEN 0 ELSE Min(S)

\* The latest request of p under id before position i.
LatestRequest(t, p, id, i) ==
    Latest({j \in 1 .. i - 1 : IsRequest(t[j]) /\ t[j].from = p /\ t[j].id = id})

-----------------------------------------------------------------------------
(* context/pairing.rs *)

\* The requests a response at i may answer, of those not in `answered`.
Answerable(t, i, answered) ==
    {j \in 1 .. i - 1 : /\ IsRequest(t[j]) /\ t[j].from = Other(t[i].from)
                        /\ t[j].id = t[i].id /\ t[i].id # NoId /\ j \notin answered}

\* Each response with the earliest open request it can answer.
PairResponses(t) ==
    LET pairs[i \in 0 .. Len(t)] ==
            IF i = 0 THEN {}
            ELSE LET before == pairs[i - 1]
                     open == Answerable(t, i, {p[2] : p \in before})
                 IN  IF IsResponse(t[i]) /\ open # {} THEN before \union {<<i, Min(open)>>}
                     ELSE before
    IN  pairs[Len(t)]

-----------------------------------------------------------------------------
(* LifecycleTracker, context.rs *)

Start == [phase |-> "BeforeInitialize", request |-> 0, result |-> 0, initialized |-> 0]

Tracked(k, t, i) ==
    LET m == t[i]
        answers == m.from = "server" /\ k.request # 0 /\ m.id = t[k.request].id
    IN  CASE /\ k.phase \in {"BeforeInitialize", "AfterInitializeError"}
             /\ IsRequest(m) /\ m.from = "client" /\ m.method = "initialize"
                 -> [k EXCEPT !.phase = "AwaitingInitializeResult", !.request = i]
          [] k.phase = "AwaitingInitializeResult" /\ m.kind = "result" /\ answers
                 -> [k EXCEPT !.phase = "AfterInitializeSuccess", !.result = i]
          [] k.phase = "AwaitingInitializeResult" /\ m.kind = "error" /\ answers
                 -> [k EXCEPT !.phase = "AfterInitializeError"]
          [] /\ k.phase = "AfterInitializeSuccess" /\ m.from = "client"
             /\ IsNotification(m) /\ m.method = "notifications/initialized"
                 -> [k EXCEPT !.phase = "Ready", !.initialized = i]
          [] OTHER -> k

\* The tracker before each event, and after the last.
Tracker(t) ==
    LET until[i \in 0 .. Len(t)] ==
            IF i = 0 THEN <<Start>> ELSE Append(until[i - 1], Tracked(until[i - 1][i], t, i))
    IN  until[Len(t)]

Context(t, transport) ==
    [t |-> t, pairs |-> PairResponses(t), tracker |-> Tracker(t), transport |-> transport]

PhaseBefore(c, i) == c.tracker[i].phase
Handshake(c) == c.tracker[Len(c.tracker)]

\* The request a response at i answers, and when a request j was answered.
Answers(c, i)    == Latest({p[2] : p \in {q \in c.pairs : q[1] = i}})
AnsweredAt(c, j) == Latest({p[1] : p \in {q \in c.pairs : q[2] = j}})

\* When j had been answered before i.
DoneBefore(c, j, i) == AnsweredAt(c, j) \in 1 .. i - 1

\* The answered requests of a method, each <<response, request>>.
ExchangesFor(c, methods) == {p \in c.pairs : c.t[p[2]].method \in methods}

-----------------------------------------------------------------------------
(* checks/support.rs *)

\* Until an initialize result is recorded nothing is declared or withheld.
Declaration(c, p, capability) ==
    IF Handshake(c).result = 0 THEN "Unknowable"
    ELSE LET at == IF p = "client" THEN Handshake(c).request ELSE Handshake(c).result
         IN  IF capability \in c.t[at].caps THEN "Declared" ELSE "Withheld"

-----------------------------------------------------------------------------
(* attribute, engine.rs: the party the clause binds, or else the sender.   *)

HeldAgainst(c, actors, clause, i) ==
    IF clause \in DOMAIN actors THEN actors[clause] ELSE c.t[i].from

Positions(c) == DOMAIN c.t
=============================================================================

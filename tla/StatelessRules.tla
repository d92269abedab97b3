---------------------------- MODULE StatelessRules ----------------------------
(***************************************************************************)
(* The rules of 2026-07-28 for a party p that sends m after its log l, in  *)
(* a conversation of setting s, and what it may find to say.  A clause is  *)
(* broken by a party's own order of the messages; where no recording can   *)
(* show it, "unseen" is broken with it.  Two fields tell a party's intent  *)
(* and are seen by no check: a retry's `value` is the place, among the     *)
(* client's messages, of the request it repeats, and a log's the request   *)
(* it is sent for.                                                         *)
(***************************************************************************)
EXTENDS PartyLog

IsListen(m) == m.method = "subscriptions/listen"
IsLog(m)    == m.method = "notifications/message"
IsAck(m)    == m.method = "notifications/subscriptions/acknowledged"

\* Clauses are broken, beyond the recording's sight unless shown.
Broken(clauses, shown) ==
    clauses \union {cl \in {"unseen"} : clauses # {} /\ ~shown}

-----------------------------------------------------------------------------
(* Rounds of input: a request, the result that asks for more, its retry.   *)

AsksForInput(m) == m.kind = "result" /\ m.body = "input_required"

\* The client's requests in l whose answer asks for input.
Interrupted(l) == {q \in Requests("client", l) : Reply(l, q) # 0 /\ AsksForInput(l[Reply(l, q)])}

\* The request that m retries, 0 if it is no retry.
Retried(l, m) == Latest({q \in Interrupted(l) : m.value # 0 /\ l[q].nth = m.value})

\* The recording tells which round m answers.
RoundIsPlain(l, m) ==
    LET round == l[Reply(l, Retried(l, m))]
    IN  \/ m.ref # None /\ m.ref = round.ref
        \/ \A q \in Interrupted(l) \ {Retried(l, m)} :
               l[q].method # m.method \/ l[q].body # m.body

RetryBreaches(l, m) ==
    LET asked == l[Retried(l, m)]
        round == l[Reply(l, Retried(l, m))]
    IN  IF Retried(l, m) = 0 THEN {}
        ELSE Broken({cl \in {"MRTR-015"} : ~(round.keys \subseteq m.keys)}
                    \union {cl \in {"MRTR-016"} : round.ref \notin {None, m.ref}}
                    \union {cl \in {"MRTR-018"} : round.ref = None /\ m.ref # None}
                    \union {cl \in {"MRTR-019"} : m.id = asked.id}
                    \union {cl \in {"MRTR-020"} : m.ref \notin {None} /\ m.ref = round.ref /\ m.method # asked.method},
                    RoundIsPlain(l, m))

\* A client that declares caps takes this input.
Takes(caps, key) ==
    CASE key \in {"elicitation.url", "elicitation.form"} ->
             /\ "elicitation" \in caps
             /\ key \in caps \/ (key = "elicitation.form" /\ "elicitation.url" \notin caps)
      [] OTHER -> key \in caps

RoundBreaches(asked, m) ==
    {cl \in {"MRTR-004"} : asked.method \notin {"tools/call", "prompts/get", "resources/read"}}
    \union {cl \in {"MRTR-011"} : m.keys = {} /\ m.ref = None}
    \union {cl \in {"BASE-034"} : \E key \in m.keys : ~Takes(asked.caps, key)}

-----------------------------------------------------------------------------
(* Subscriptions: a listen, what is tagged with its id, its end.           *)

\* p has ended the subscription opened at r, or read that its peer has.
Ended(l, r) ==
    \/ Reply(l, r) # 0
    \/ \E i \in DOMAIN l : i > r /\ IsCancel(l[i]) /\ l[i].names = l[r].id

Subscribing(l) == \E i \in Requests("client", l) : IsListen(l[i])

\* The subscription m belongs to: its end names it, and need not be tagged.
SubscriptionOf(m) == IF m.tag # NoId THEN m.tag ELSE m.names

\* What a server sends on the subscription opened at r.  That a message belongs
\* to it is recorded only in the tag.
OnSubscription(l, r, m) ==
    {cl \in {"SUBS-001"} : /\ IsNotification(m) /\ ~IsAck(m)
                           /\ ~(IsCancel(m) /\ m.names = SubscriptionOf(m))
                           /\ m.method \notin l[r].keys}
    \union Broken({cl \in {"SUBS-002"} : /\ ~IsAck(m)
                                         /\ ~\E i \in Sent("server", l) : i > r /\ SubscriptionOf(l[i]) = SubscriptionOf(m)},
                  m.tag # NoId)

\* m is about a subscription, whatever it is tagged with.
EndsOne(l, m) == \E r \in {Named("client", l, m.names)} \ {0} : IsListen(l[r])

TaggedBreaches(l, m) ==
    LET r == Named("client", l, SubscriptionOf(m))
    IN  IF r = 0 \/ ~IsListen(l[r]) THEN Broken({"BASE-039"}, Subscribing(l) /\ ~EndsOne(l, m))
        ELSE IF Ended(l, r) THEN {"unseen"} ELSE OnSubscription(l, r, m)

ServerNotifies(l, m) ==
    IF IsProgress(m) \/ IsLog(m) THEN {}
    ELSE (IF SubscriptionOf(m) = NoId THEN Broken({"BASE-039"}, Subscribing(l)) ELSE TaggedBreaches(l, m))
         \union {cl \in {"CANC-003"} : /\ IsCancel(m)
                                       /\ \E r \in {Named("client", l, m.names)} : r # 0 /\ ~IsListen(l[r])}

-----------------------------------------------------------------------------
(* Requests, and what a server sends about them.                           *)

Versioned == {"v1", "v2"}

\* The versions the server last said it supports.
Offered(l) ==
    LET said == Latest({i \in Responses("server", l) : l[i].code = "-32022"})
    IN  IF said = 0 THEN Versioned ELSE l[said].keys

\* A client that speaks both revisions probes first.
ProbesFirst(l, m) ==
    LET all == {l[i] : i \in Requests("client", l)} \union {m}
        first == IF Requests("client", l) = {} THEN m ELSE l[Min(Requests("client", l))]
    IN  (\E a, b \in all : a.method = "initialize" /\ b.body \in Versioned)
            => first.method = "server/discover"

AskBreaches(s, p, l, m) ==
    {cl \in {"TRAN-066"} : p = "server"}
    \union {cl \in {"BASE-045"} : Named(p, l, m.id) # 0 /\ Reply(l, Named(p, l, m.id)) = 0}
    \union {cl \in {"PROG-002"} : /\ p = "client" /\ m.token # None
                                  /\ \E r \in Requests(p, l) : l[r].token = m.token /\ Reply(l, r) = 0}
    \union {cl \in {"VERS-002"} : p = "client" /\ m.body \in Versioned \ Offered(l)}
    \union {cl \in {"DISC-002"} : s.transport = "stdio" /\ p = "client" /\ ~ProbesFirst(l, m)}

\* What follows a cancellation the server has read, once it shows that it has.
AfterCancel(l, r, plain) ==
    IF Withdrawn(l, r) = 0 THEN {}
    ELSE Broken({"TRAN-124"}, plain /\ AnsweredSince("server", l, Withdrawn(l, r)))

\* What an owed answer says.
OwedBreaches(s, l, r, m) ==
    LET asked == l[r]
        withheld(capability) == capability \notin s.caps["server"]
        short == IF m.kind = "error" THEN RetryBreaches(SubSeq(l, 1, r - 1), asked) ELSE {}
    IN  {cl \in {"TOOL-019"} : asked.method \in {"tools/list", "tools/call"} /\ m.kind = "result" /\ withheld("tools")}
        \union {cl \in {"TOOL-020"} : asked.method = "tools/list" /\ m.code = "-32601" /\ ~withheld("tools")}
        \union {cl \in {"COMP-007"} : asked.method = "completion/complete" /\ m.kind = "result" /\ withheld("completions")}
        \union Broken({cl \in {"MRTR-024"} : "MRTR-015" \in short}, "unseen" \notin short)
        \union (IF AsksForInput(m) THEN RoundBreaches(asked, m) ELSE {})
        \union (IF IsListen(asked) /\ ~Ended(l, r) THEN OnSubscription(l, r, m) ELSE {})

RespondBreaches(s, p, l, m) ==
    LET r == Named(Other(p), l, m.id)
        owed == r # 0 /\ Reply(l, r) = 0
    IN  {cl \in {"TRAN-060"} : p = "client"}
        \union {cl \in {"BASE-046"} : m.kind = "result" /\ ~owed}
        \union {cl \in {"BASE-052"} : m.kind = "error" /\ ~owed}
        \union (IF p = "client" \/ r = 0 THEN {}
                ELSE AfterCancel(l, r, TRUE) \union {cl \in {"DISC-001"} : l[r].method = "server/discover" /\ m.code = "-32601"})
        \union (IF p = "server" /\ owed THEN OwedBreaches(s, l, r, m) ELSE {})

ReportBreaches(s, p, l, m) ==
    LET r == Holding("client", l, m.token)
        before == Latest({i \in Sent(p, l) : i > r /\ IsProgress(l[i]) /\ l[i].token = m.token})
    IN  {cl \in {"PROG-003"} : before # 0 /\ m.value <= l[before].value}
        \union {cl \in {"PROG-005"} : s.transport = "stdio" /\ r # 0 /\ Reply(l, r) # 0}
        \union (IF r = 0 THEN {}
                ELSE AfterCancel(l, r, \A q \in Requests("client", l) : l[q].token = m.token => l[q].id = l[r].id))

\* A log belongs to a request that is open and asks for logs; a recording
\* shows that it does not only where at most one request can be its own, and
\* takes a late one for that request's.
LogBreaches(s, l, m) ==
    LET r == Named("client", l, m.value)
        open == {q \in Requests("client", l) : ~IsListen(l[q]) /\ Reply(l, q) = 0}
        silent == {q \in Requests("client", l) : l[q].body # "logs"}
    IN  {cl \in {"LOG-007"} : "logging" \notin s.caps["server"]}
        \union Broken({cl \in {"LOG-008"} : \/ r \in silent
                                           \/ (r \notin open /\ (s.crossing \/ (open # {} /\ open \subseteq silent)))},
                      s.crossing \/ \E q \in silent : open = {q})
        \union Broken({cl \in {"LOG-009"} : r \notin open}, open = {})

\* The clauses that p breaks by sending m.
StatelessBreaches(s, p, l, m) ==
    UNION {IF IsRequest(m) THEN AskBreaches(s, p, l, m) ELSE {},
           IF IsRequest(m) /\ p = "client" THEN RetryBreaches(l, m) ELSE {},
           IF IsResponse(m) THEN RespondBreaches(s, p, l, m) ELSE {},
           IF IsNotification(m) /\ p = "server" THEN ServerNotifies(l, m) ELSE {},
           IF IsProgress(m) THEN ReportBreaches(s, p, l, m) ELSE {},
           IF IsLog(m) THEN LogBreaches(s, l, m) ELSE {},
           IF IsCancel(m) /\ p = "client" /\ Named(p, l, m.names) = 0 THEN {"unseen"} ELSE {}}

-----------------------------------------------------------------------------
(* What a party may find to say. *)

\* A round asks for the inputs and gives the state of one of s.rounds.
RoundsOf(s, asked) ==
    {[Result("server", asked.id, "input_required", IF round.state THEN "state" \o ToString(asked.id) ELSE None)
      EXCEPT !.keys = round.keys] : round \in s.rounds}

StatelessRepliesTo(s, p, asked) ==
    CASE asked.method = "server/discover" ->
            {[Result(p, asked.id, "plain", None) EXCEPT !.caps = s.caps["server"]],
             Error(p, asked.id, "-32601", None)}
      [] IsListen(asked) -> {[Result(p, asked.id, "plain", None) EXCEPT !.tag = asked.id]}
      [] asked.body \in Versioned ->
            {Result(p, asked.id, "plain", None)}
            \union {[Error(p, asked.id, "-32022", None) EXCEPT !.keys = {v}] : v \in Versioned}
      [] OTHER -> {Result(p, asked.id, "plain", None), Error(p, asked.id, "-32602", None)}
                  \union (IF "answered" \in s.reuse THEN {} ELSE {Error(p, asked.id, "-32601", None)})
                  \union (IF p = "server" THEN RoundsOf(s, asked) ELSE {})

\* A faithful retry answers a round not retried yet; a deviant's leaves the
\* input out, changes the state, keeps the id or is another request's.
RetriesOf(s, l) ==
    LET owed == {q \in Interrupted(l) : \A i \in Requests("client", l) : l[i].value # l[q].nth}
        next == 1 + Cardinality(Requests("client", l))
        round(q) == l[Reply(l, q)]
        again(q, id, keys, ref) ==
            [l[q] EXCEPT !.id = id, !.keys = keys, !.ref = ref, !.value = l[q].nth]
        faithful(q) == again(q, next, round(q).keys, round(q).ref)
        varied(q) == {again(q, id, keys, ref) : id \in {next, l[q].id}, keys \in {{}, round(q).keys},
                                                ref \in {None, "forged", round(q).ref}}
                     \union {[faithful(q) EXCEPT !.method = "resources/read"]}
    IN  {m \in UNION {IF "client" \in s.deviants THEN varied(q) ELSE {faithful(q)} : q \in owed} :
            m.keys # {} \/ m.ref # None}

\* Left out is what no recording can tell the meaning of, as in SessionRules;
\* the cancellation of what is answered, and a token taken over from a request
\* that was cancelled; and what names a request the server has not read, or
\* ends a subscription that is over.
StatelessAmbiguous(s, p, l, m) ==
    \/ /\ IsProgress(m) /\ Holding(Other(p), l, m.token) = 0
    \/ /\ IsRequest(m) /\ m.token # None
       /\ \E r \in Requests(p, l) :
              l[r].token = m.token /\ (Withdrawn(l, r) # 0 \/ (s.crossing /\ Reply(l, r) = 0))
    \/ /\ p = "server"
       /\ \E id \in {m.names, m.tag, IF IsLog(m) THEN m.value ELSE NoId} \ {NoId} : Named("client", l, id) = 0
    \/ /\ IsCancel(m)
       /\ \E r \in {Named("client", l, m.names)} \ {0} :
              Reply(l, r) # 0 \/ (p = "server" /\ Ended(l, r))

\* An id is free again once it is answered; a deviant does not wait for that
\* before it repeats a request.
StatelessSays(s, p, l) ==
    LET next == 1 + Cardinality(Requests(p, l))
        answered == {r \in Requests(p, l) : Reply(l, r) # 0}
        free == IF "answered" \in s.reuse THEN {l[r].id : r \in answered} ELSE {}
        taken(m) == {l[r].id : r \in {q \in Requests(p, l) \ answered :
                        /\ "open" \in s.reuse /\ p \in s.deviants
                        /\ l[q].method = m.method /\ l[q].token = m.token}}
        ids(m) == IF IsRequest(m) THEN {next} \union free \union taken(m) ELSE {NoId}
        open == {m \in s.says[p] : ~StatelessAmbiguous(s, p, l, m)}
    IN  UNION {{[m EXCEPT !.id = id] : id \in ids(m)} : m \in open}
        \union UNION {StatelessRepliesTo(s, p, l[r]) :
                         r \in {q \in Requests(Other(p), l) : q = Named(Other(p), l, l[q].id)}}
        \union (IF p = "client" THEN RetriesOf(s, l) ELSE {})
=============================================================================

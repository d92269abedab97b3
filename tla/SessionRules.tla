----------------------------- MODULE SessionRules -----------------------------
(***************************************************************************)
(* The rules of 2025-11-25 for a party p that sends m after its log l, in  *)
(* a conversation of setting s, and what it may find to say.               *)
(***************************************************************************)
EXTENDS PartyLog

Declares(s, p, capability) == capability \in s.caps[p]

HandshakeBreaches(p, l, m) ==
    LET begun == Latest({i \in Requests("client", l) : l[i].method = "initialize"})
        isDuring == begun = 0 \/ Reply(l, begun) = 0
        isReady == \E i \in Sent("client", l) : l[i].method = "notifications/initialized"
        probing == \A i \in DOMAIN l : l[i].method = "server/discover" \/ l[i].kind = "error"
    IN  {cl \in {"LIFE-001"} : /\ p = "client" /\ probing
                               /\ m.method \notin {"initialize", "server/discover"}}
        \union {cl \in {"LIFE-004"} : /\ p = "client" /\ IsRequest(m) /\ isDuring
                               /\ m.method \notin {"initialize", "ping", "server/discover"}}
        \union {cl \in {"LIFE-005"} : /\ p = "server" /\ IsRequest(m) /\ ~isReady /\ m.method # "ping"}

Pages == {"tools/list", "prompts/list"}

\* A page of the same list, asked for before the request at r, ended in the
\* cursor that m asks to go on from.
Issued(l, m, r) ==
    \E q \in Requests("client", l) :
        /\ q < r /\ l[q].method = m.method
        /\ Reply(l, q) # 0 /\ l[Reply(l, q)].kind = "result" /\ l[Reply(l, q)].ref = m.ref

\* An answer that is still due to an earlier request may issue it yet.
MayBeIssued(l, m, r) ==
    \E q \in Requests("client", l) : q < r /\ l[q].method = m.method /\ Reply(l, q) = 0

RequestBreaches(p, l, m) ==
    {cl \in {"BASE-003"} : Named(p, l, m.id) # 0}
    \union {cl \in {"PROG-010"} : /\ m.token # None /\ Holding(p, l, m.token) # 0
                                  /\ Reply(l, Holding(p, l, m.token)) = 0}
    \union {cl \in {"PAGE-002"} : m.method \in Pages /\ m.ref # None /\ ~Issued(l, m, Len(l) + 1)}

ResponseBreaches(p, l, m) ==
    LET r == Named(Other(p), l, m.id)
    IN  IF r = 0 \/ Reply(l, r) # 0 THEN {IF m.kind = "result" THEN "BASE-004" ELSE "BASE-009"}
        ELSE IF Withdrawn(l, r) # 0
             THEN {IF AnsweredSince(p, l, Withdrawn(l, r)) THEN "CANC-021" ELSE "unseen"} ELSE {}

\* What an owed answer says.
AnswerBreaches(s, p, l, m) ==
    LET r == Named(Other(p), l, m.id)
        asked == l[r]
        mode == "elicitation." \o asked.body
        modes == {k \in {"elicitation.form", "elicitation.url"} : Declares(s, "client", k)}
        takes == mode \in modes \/ (modes = {} /\ mode = "elicitation.form")
        serves(method, capability) == asked.method = method /\ m.kind = "result" /\ ~Declares(s, p, capability)
    IN  IF r = 0 \/ Reply(l, r) # 0 THEN {}
        ELSE {cl \in {"PING-001"} : asked.method = "ping" /\ (m.kind = "error" \/ m.body # "empty")}
          \union {cl \in {"TOOL-001"} : serves("tools/list", "tools") \/ serves("tools/call", "tools")}
          \union {cl \in {"PROM-001"} : serves("prompts/list", "prompts")}
          \union {cl \in {"RES-001"} : serves("resources/read", "resources")}
          \union {cl \in {"COMP-001"} : serves("completion/complete", "completions")}
          \union {cl \in {"ELIC-004"} : serves("elicitation/create", "elicitation")}
          \union {cl \in {"ROOT-001"} : serves("roots/list", "roots")}
          \union {cl \in {"SAMP-005"} : serves("sampling/createMessage", "sampling")}
          \union {cl \in {"ELIC-021"} : /\ asked.method = "elicitation/create" /\ m.code # "-32602"
                                        /\ Declares(s, "client", "elicitation") /\ ~takes}
          \union {cl \in {"ROOT-004"} : /\ asked.method = "roots/list" /\ m.code # "-32601"
                                        /\ ~Declares(s, "client", "roots")}
          \union {cl \in {"PAGE-003"} \union {x \in {"unseen"} : MayBeIssued(l, asked, r)} :
                      asked.method \in Pages /\ asked.ref # None /\ ~Issued(l, asked, r) /\ m.code # "-32602"}

MakesTask(m) == m.kind = "result" /\ m.body = "task"

CancelBreaches(p, l, m) ==
    LET r == Named(p, l, m.names)
    IN  IF r = 0 THEN {"CANC-018"}
        ELSE {cl \in {"CANC-019"} : l[r].method = "initialize"}
             \union {cl \in {"CANC-020"} : Reply(l, r) # 0 /\ MakesTask(l[Reply(l, r)])}

\* p's own word that the task its answer at a made is over.
TaskOver(p, l, a) ==
    \E i \in Sent(p, l) : i > a /\ l[i].ref = l[a].ref /\ l[i].body = "terminal"

\* The request of p's peer at r needs no more progress.
Over(p, l, r) ==
    /\ Reply(l, r) # 0
    /\ (l[r].body = "task" /\ l[Reply(l, r)].body = "task") => TaskOver(p, l, Reply(l, r))

ProgressBreaches(s, p, l, m) ==
    LET r == Holding(Other(p), l, m.token)
        before == Latest({i \in Sent(p, l) : i > r /\ IsProgress(l[i]) /\ l[i].token = m.token})
        task == Latest({i \in Responses(p, l) : MakesTask(l[i]) /\ l[i].ref = m.ref})
    IN  {cl \in {"PROG-013"} : r = 0}
        \union {cl \in {"PROG-011"} : before # 0 /\ m.value <= l[before].value}
        \union {cl \in {"PROG-016"} : s.transport = "stdio" /\ r # 0 /\ Over(p, l, r)}
        \union {cl \in {"PROG-014"} : /\ m.ref # None /\ task # 0
                   /\ l[Named(Other(p), l, l[task].id)].token \notin {m.token, None}}

\* What a request or notification rides on, and who must have declared it.
RidesOn(m) ==
    CASE m.method \in {"tools/list", "tools/call"} -> <<"server", "tools">>
      [] m.method = "prompts/list" -> <<"server", "prompts">>
      [] m.method = "resources/read" -> <<"server", "resources">>
      [] m.method \in {"logging/setLevel", "notifications/message"} -> <<"server", "logging">>
      [] m.method = "completion/complete" -> <<"server", "completions">>
      [] m.method = "notifications/tools/list_changed" -> <<"server", "tools.listChanged">>
      [] m.method = "notifications/roots/list_changed" -> <<"client", "roots.listChanged">>
      [] m.method = "roots/list" -> <<"client", "roots">>
      [] m.method = "sampling/createMessage" -> <<"client", "sampling">>
      [] m.method = "elicitation/create" -> <<"client", "elicitation">>
      [] OTHER -> <<>>

\* The same for the variant of the method.
RidesFurtherOn(s, m) ==
    CASE m.method = "sampling/createMessage" /\ m.body = "tools" -> <<"client", "sampling.tools">>
      [] m.method = "elicitation/create" /\ m.body = "url" -> <<"client", "elicitation.url">>
      [] /\ m.method = "elicitation/create" /\ m.body = "form" /\ Declares(s, "client", "elicitation.url")
           -> <<"client", "elicitation.form">>
      [] m.method = "tools/call" /\ m.body = "task" -> <<"server", "tasks.requests.tools.call">>
      [] OTHER -> <<>>

Lacks(s, need) == need # <<>> /\ ~Declares(s, need[1], need[2])

CapabilityBreaches(s, p, l, m) ==
    {cl \in {"LIFE-009"} : Lacks(s, RidesOn(m)) \/ Lacks(s, RidesFurtherOn(s, m))}
    \union {cl \in {"LOG-001"} : m.method = "notifications/message" /\ Lacks(s, RidesOn(m))}
    \union {cl \in {"ROOT-009"} : m.method = "roots/list" /\ Lacks(s, RidesOn(m))}
    \union {cl \in {"ELIC-006"} : m.method = "elicitation/create" /\ (Lacks(s, RidesOn(m)) \/ Lacks(s, RidesFurtherOn(s, m)))}
    \union {cl \in {"SAMP-004"} : m.body = "tools" /\ Lacks(s, RidesFurtherOn(s, m))}
    \union {cl \in {"ELIC-014"} : /\ m.method = "notifications/elicitation/complete"
               /\ ~\E i \in Sent(p, l) : l[i].ref = m.ref /\ (l[i].body = "url" \/ l[i].code = "-32042")}

\* The clauses that p breaks by sending m; "unseen" is a fault no recording
\* can show.
SessionBreaches(s, p, l, m) ==
    HandshakeBreaches(p, l, m)
    \union (IF IsRequest(m) THEN RequestBreaches(p, l, m) ELSE {})
    \union (IF IsResponse(m) THEN ResponseBreaches(p, l, m) \union AnswerBreaches(s, p, l, m) ELSE {})
    \union (IF IsCancel(m) THEN CancelBreaches(p, l, m) ELSE {})
    \union (IF IsProgress(m) THEN ProgressBreaches(s, p, l, m) ELSE {})
    \union (IF IsResponse(m) THEN {} ELSE CapabilityBreaches(s, p, l, m))

-----------------------------------------------------------------------------
(* What a party may find to say. *)

SessionRepliesTo(s, p, asked) ==
    CASE asked.method = "initialize" ->
            {[Result(p, asked.id, "plain", None) EXCEPT !.caps = s.caps[p]],
             Error(p, asked.id, "-32602", None)}
      [] asked.method = "ping" -> {Result(p, asked.id, body, None) : body \in {"empty", "plain"}}
      [] asked.method = "server/discover" -> {Error(p, asked.id, "-32601", None)}
      [] asked.method = "tools/call" /\ asked.body = "task" ->
            {Result(p, asked.id, "task", "task"), Result(p, asked.id, "plain", None)}
      [] asked.method = "tools/call" /\ asked.body = "url" ->
            {Error(p, asked.id, "-32042", "e1"), Result(p, asked.id, "plain", None)}
      [] asked.method \in Pages ->
            {Result(p, asked.id, "plain", "c1"), Error(p, asked.id, "-32602", None)}
      [] asked.method = "tasks/get" ->
            {Result(p, asked.id, body, asked.ref) : body \in {"plain", "terminal"}}
      [] OTHER -> {Result(p, asked.id, "plain", None), Error(p, asked.id, "-32601", None),
                   Error(p, asked.id, "-32602", None)}

\* What no recording can tell the meaning of is left out: the cancellation of
\* a request that, unknown to its sender, is a task by now; progress under a
\* token not read yet that its peer uses; and, crossing progress on its way, a
\* second request under a token.
SessionAmbiguous(s, p, l, m) ==
    \/ /\ IsCancel(m) /\ p \notin s.hasty
       /\ \E r \in {Named(p, l, m.names)} \ {0} : l[r].body = "task" /\ Reply(l, r) = 0
    \/ /\ IsProgress(m) /\ Holding(Other(p), l, m.token) = 0
       /\ \E n \in s.says[Other(p)] : n.token = m.token
    \/ /\ IsRequest(m) /\ m.token # None /\ s.crossing
       /\ \E r \in {Holding(p, l, m.token)} \ {0} : Reply(l, r) = 0

\* A client speaks first, unless the server is hasty, initializes again only
\* once it was refused, and notifies only an initialize that succeeded.
InItsPhase(s, p, l, m) ==
    LET begun == Latest({i \in Requests("client", l) : l[i].method = "initialize"})
        outcome == IF begun = 0 \/ Reply(l, begun) = 0 THEN None ELSE l[Reply(l, begun)].kind
    IN  CASE m.method = "initialize" -> begun = 0 \/ outcome = "error"
          [] m.method = "notifications/initialized" -> outcome = "result"
          [] OTHER -> p = "client" \/ p \in s.hasty \/ begun # 0

\* A deviant also asks under ids that are spent, and answers once more.
SessionSays(s, p, l) ==
    LET next == 1 + Cardinality(Requests(p, l))
        spent == {l[r].id : r \in {q \in Requests(p, l) : p \in s.deviants /\ Reply(l, q) # 0}}
        ids(m) == IF IsRequest(m) THEN {next} \union spent ELSE {NoId}
        open == {m \in s.says[p] : InItsPhase(s, p, l, m) /\ ~SessionAmbiguous(s, p, l, m)}
    IN  UNION {{[m EXCEPT !.id = id] : id \in ids(m)} : m \in open}
        \union UNION {SessionRepliesTo(s, p, l[r]) : r \in Requests(Other(p), l)}
=============================================================================

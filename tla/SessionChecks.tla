----------------------------- MODULE SessionChecks -----------------------------
(***************************************************************************)
(* The 2025-11-25 clauses about what a party does in the course of a       *)
(* session: handshake, correlation, cancellation, progress, tasks,         *)
(* capabilities, pagination and what the server asks of the client.  Each  *)
(* check is the set of positions it has a finding at, over a TraceContext. *)
(* Clauses about the shape of one message alone are left out.              *)
(***************************************************************************)
EXTENDS TraceContext

-----------------------------------------------------------------------------
(* checks/lifecycle.rs *)

\* declared.rs: a server/discover that no result answered, as the first
\* response after it under its id tells.
FailedProbes(c) ==
    {i \in Positions(c) :
        /\ c.t[i].method = "server/discover"
        /\ LET responses == {j \in i + 1 .. Len(c.t) : /\ IsResponse(c.t[j])
                                /\ c.t[j].from = Other(c.t[i].from) /\ c.t[j].id = c.t[i].id}
           IN  responses = {} \/ c.t[Min(responses)].kind = "error"}

PartOfAProbe(c, probes, i) ==
    i \in probes \/ (probes # {} /\ c.t[i].from = "server" /\ c.t[i].kind = "error")

IsInitialize(m) == IsRequest(m) /\ m.from = "client" /\ m.method = "initialize"

FirstInteractionInitialize(c) ==
    LET probes == FailedProbes(c)
        interactions == {i \in Positions(c) : ~PartOfAProbe(c, probes, i)}
    IN  IF interactions = {} \/ IsInitialize(c.t[Min(interactions)]) THEN {}
        ELSE {Min(interactions)}

InitializedNotification(c) ==
    IF Handshake(c).result # 0 /\ Handshake(c).initialized = 0 THEN {Handshake(c).result} ELSE {}

ClientRequestsBeforeInitResponse(c) ==
    {i \in Positions(c) \ FailedProbes(c) :
        /\ IsRequest(c.t[i]) /\ c.t[i].from = "client"
        /\ PhaseBefore(c, i) \in {"BeforeInitialize", "AwaitingInitializeResult"}
        /\ c.t[i].method \notin {"initialize", "ping"}}

ServerRequestsBeforeInitialized(c) ==
    {i \in Positions(c) : /\ IsRequest(c.t[i]) /\ c.t[i].from = "server"
                          /\ PhaseBefore(c, i) # "Ready" /\ c.t[i].method # "ping"}

-----------------------------------------------------------------------------
(* checks/base.rs, checks/base/correlation.rs, ping.rs *)

RequestIdUnique(c) ==
    {i \in Positions(c) : IsRequest(c.t[i]) /\ LatestRequest(c.t, c.t[i].from, c.t[i].id, i) # 0}

\* Mutant: a request is outstanding until a response of the same flavour.
IsOutstandingOfKind(c, i) ==
    LET request == LatestRequest(c.t, Other(c.t[i].from), c.t[i].id, i)
    IN  /\ request # 0
        /\ \A j \in request + 1 .. i - 1 :
               ~(c.t[j].kind = c.t[i].kind /\ c.t[j].from = c.t[i].from /\ c.t[j].id = c.t[i].id)

\* The latest request under the id is outstanding until a response of either
\* flavour names it.
IsOutstanding(c, i) ==
    LET request == LatestRequest(c.t, Other(c.t[i].from), c.t[i].id, i)
    IN  /\ request # 0
        /\ \A j \in request + 1 .. i - 1 :
               ~(IsResponse(c.t[j]) /\ c.t[j].from = c.t[i].from /\ c.t[j].id = c.t[i].id)

ResponsesMatchRequests(c, kind) ==
    {i \in Positions(c) : c.t[i].kind = kind /\ ~IsOutstanding(c, i)}

EmptyResult(c) ==
    {p[1] : p \in {q \in ExchangesFor(c, {"ping"}) : c.t[q[1]].kind = "error" \/ c.t[q[1]].body # "empty"}}

-----------------------------------------------------------------------------
(* checks/basic_utilities/cancellation.rs *)

\* The client's first initialize, 0 in a recording that does not hold it.
SessionStart(c) ==
    Earliest({i \in Positions(c) : IsInitialize(c.t[i])})

Cancels(c) == {i \in Positions(c) : IsCancel(c.t[i])}

\* The request a cancellation names: the latest of its sender under that id.
Cancelled(c, i) == LatestRequest(c.t, c.t[i].from, c.t[i].names, i)

ReferencesIssuedRequest(c) ==
    {i \in Cancels(c) : SessionStart(c) \in 1 .. i - 1 /\ Cancelled(c, i) = 0}

InitializeNotCancelled(c) ==
    {i \in Cancels(c) : /\ c.t[i].from = "client" /\ Cancelled(c, i) # 0
                        /\ c.t[Cancelled(c, i)].method = "initialize"}

CreatesTask(m) == m.kind = "result" /\ m.body = "task"

TaskCancelledByRequest(c) ==
    {i \in Cancels(c) : /\ Cancelled(c, i) # 0 /\ DoneBefore(c, Cancelled(c, i), i)
                        /\ CreatesTask(c.t[AnsweredAt(c, Cancelled(c, i))])}

\* The cancellation that stands when i answers an id: the first since the
\* request took the id up.
StandingCancel(c, i) ==
    LET request == LatestRequest(c.t, Other(c.t[i].from), c.t[i].id, i)
        cancels == {k \in Cancels(c) : k \in request + 1 .. i - 1 /\ c.t[k].from = Other(c.t[i].from)
                                       /\ c.t[k].names = c.t[i].id}
    IN  IF request = 0 THEN 0 ELSE Earliest(cancels)

\* Mutant: what was recorded before an answer was read before it.
HasReadAll(c, p, k, i) == TRUE

\* p has read what its peer sent at k once it answers a later request.
HasRead(c, p, k, i) ==
    \E j \in k + 1 .. i - 1 : /\ IsResponse(c.t[j]) /\ c.t[j].from = p
                              /\ LatestRequest(c.t, Other(p), c.t[j].id, j) > k

NoResponseAfterCancellation(c) ==
    IF c.transport # "stdio" THEN {}
    ELSE {i \in Positions(c) : /\ IsResponse(c.t[i]) /\ StandingCancel(c, i) # 0
                               /\ HasRead(c, c.t[i].from, StandingCancel(c, i), i)}

-----------------------------------------------------------------------------
(* checks/basic_utilities/progress.rs, progress/lifetime.rs *)

\* The latest request of p that took the token up before i.
Holder(c, p, token, i) ==
    Latest({j \in 1 .. i - 1 : IsRequest(c.t[j]) /\ c.t[j].from = p /\ c.t[j].token = token})

Progresses(c) == {i \in Positions(c) : IsProgress(c.t[i])}

\* The request whose progress i reports.
Owner(c, i) == Holder(c, Other(c.t[i].from), c.t[i].token, i)

TokenUnique(c) ==
    {i \in Positions(c) :
        /\ IsRequest(c.t[i]) /\ c.t[i].token # None
        /\ LET held == Holder(c, c.t[i].from, c.t[i].token, i)
           IN  held # 0 /\ ~DoneBefore(c, held, i)}

ValueIncreases(c) ==
    {i \in Progresses(c) :
        LET earlier == {j \in Progresses(c) : /\ j \in Owner(c, i) + 1 .. i - 1
                            /\ c.t[j].from = c.t[i].from /\ c.t[j].token = c.t[i].token}
        IN  earlier # {} /\ c.t[i].value <= c.t[Max(earlier)].value}

TokenIssued(c) == {i \in Progresses(c) : SessionStart(c) \in 1 .. i - 1 /\ Owner(c, i) = 0}

\* The request whose CreateTaskResult, the latest before i, made the task that
\* p calls `ref`.
TaskRequest(c, p, ref, i) ==
    Answers(c, Latest({q[1] : q \in {r \in c.pairs :
        /\ r[1] < i /\ c.t[r[1]].from = p /\ CreatesTask(c.t[r[1]]) /\ c.t[r[1]].ref = ref
        /\ c.t[r[2]].body = "task" /\ c.t[r[2]].token # None}}))

\* Whether the message at j shows the end of the task p calls `ref`.
EndsTask(c, p, ref, j) ==
    LET m == c.t[j]
    IN  /\ m.from = p
        /\ \/ IsNotification(m) /\ m.method = "notifications/tasks/status"
                /\ m.ref = ref /\ m.body = "terminal"
           \/ m.kind = "result" /\ Answers(c, j) # 0 /\
                LET asked == c.t[Answers(c, j)]
                IN  \/ asked.method \in {"tasks/get", "tasks/cancel"}
                         /\ m.ref = ref /\ m.body = "terminal"
                    \/ asked.method = "tasks/result" /\ asked.ref = ref

\* A request is finished by its answer, or one answered with the task it asked
\* for by the end of that task.
Finished(c, request, i) ==
    /\ DoneBefore(c, request, i)
    /\ LET made == c.t[AnsweredAt(c, request)]
       IN  c.t[request].body = "task" /\ CreatesTask(made) =>
               \E j \in AnsweredAt(c, request) + 1 .. i - 1 :
                   EndsTask(c, made.from, made.ref, j) /\ TaskRequest(c, made.from, made.ref, j) = request

StopsAfterCompletion(c) ==
    IF c.transport # "stdio" THEN {}
    ELSE {i \in Progresses(c) : Owner(c, i) # 0 /\ Finished(c, Owner(c, i), i)}

TaskTokenUnchanged(c) ==
    {i \in Progresses(c) :
        LET request == TaskRequest(c, c.t[i].from, c.t[i].ref, i)
        IN  request # 0 /\ c.t[i].token # c.t[request].token}

-----------------------------------------------------------------------------
(* checks/negotiation.rs; tools.rs, prompts.rs, resources.rs, utilities.rs *)

\* GATED_METHODS: who sends it, and whose declaration of what it rides on.
GatedMethods ==
    UNION {{<<"client", method, "server", "tools">> : method \in {"tools/list", "tools/call"}},
           {<<"client", method, "server", "resources">> :
                method \in {"resources/list", "resources/read", "resources/templates/list"}},
           {<<"client", method, "server", "resources.subscribe">> :
                method \in {"resources/subscribe", "resources/unsubscribe"}},
           {<<"client", method, "server", "prompts">> : method \in {"prompts/list", "prompts/get"}},
           {<<"server", "notifications/" \o kind \o "/list_changed", "server", kind \o ".listChanged">> :
                kind \in {"tools", "resources", "prompts"}},
           {<<p, "tasks/" \o operation, Other(p), "tasks." \o operation>> :
                p \in Parties, operation \in {"list", "cancel"}},
           {<<"client", "completion/complete", "server", "completions">>,
            <<"client", "logging/setLevel", "server", "logging">>,
            <<"client", "notifications/roots/list_changed", "client", "roots.listChanged">>,
            <<"server", "notifications/resources/updated", "server", "resources.subscribe">>,
            <<"server", "notifications/message", "server", "logging">>,
            <<"server", "sampling/createMessage", "client", "sampling">>,
            <<"server", "elicitation/create", "client", "elicitation">>,
            <<"server", "roots/list", "client", "roots">>}}

\* Form mode is declared by an elicitation that names it, or names no mode.
FormDeclared(c) == Declaration(c, "client", "elicitation.form") = "Declared"
                   \/ Declaration(c, "client", "elicitation.url") = "Withheld"

\* sub_capability: what a variant of a method rides on beyond the method's own.
SubCapabilityWithheld(c, m) ==
    \/ m.method = "elicitation/create" /\ m.body = "url"
         /\ Declaration(c, "client", "elicitation.url") = "Withheld"
    \/ m.method = "elicitation/create" /\ m.body = "form" /\ ~FormDeclared(c)
    \/ m.method = "sampling/createMessage" /\ m.body = "tools"
         /\ Declaration(c, "client", "sampling.tools") = "Withheld"
    \/ m.method = "tools/call" /\ m.body = "task"
         /\ Declaration(c, "server", "tasks.requests.tools.call") = "Withheld"

NegotiatedCapabilitiesOnly(c) ==
    {i \in Positions(c) : ~IsResponse(c.t[i]) /\ \E g \in GatedMethods :
        /\ g[1] = c.t[i].from /\ g[2] = c.t[i].method
        /\ \/ Declaration(c, g[3], g[4]) = "Withheld"
           \/ Declaration(c, g[3], g[4]) = "Declared" /\ SubCapabilityWithheld(c, c.t[i])}

\* capability_declared: a result to one of these methods is support for it.
ServedUndeclared(c, capability, methods) ==
    IF Declaration(c, "server", capability) # "Withheld" THEN {}
    ELSE {p[1] : p \in {q \in ExchangesFor(c, methods) : c.t[q[1]].kind = "result"}}

LoggingDeclared(c) ==
    IF Declaration(c, "server", "logging") # "Withheld" THEN {}
    ELSE {i \in Positions(c) : IsNotification(c.t[i]) /\ c.t[i].from = "server"
                               /\ c.t[i].method = "notifications/message"}

Paginated == {"tools/list", "resources/list", "resources/templates/list", "prompts/list"}

\* Mutant: a cursor issued anywhere in the trace will do.
IssuedCursorsEver(c, method, i) ==
    {c.t[p[1]].ref : p \in {q \in ExchangesFor(c, {method}) : c.t[q[1]].kind = "result"}}

\* The cursors a server had issued for a method in results before i.
IssuedCursors(c, method, i) ==
    {c.t[p[1]].ref : p \in {q \in ExchangesFor(c, {method}) : c.t[q[1]].kind = "result" /\ q[1] < i}}

CursorOpacity(c) ==
    {i \in Positions(c) :
        /\ IsRequest(c.t[i]) /\ c.t[i].from = "client" /\ c.t[i].method \in Paginated
        /\ c.t[i].ref # None /\ c.t[i].ref \notin IssuedCursors(c, c.t[i].method, i)}

\* Exchanges are walked in the order of their requests.
InvalidCursorRejected(c) ==
    {p[1] : p \in {q \in ExchangesFor(c, Paginated) :
        /\ c.t[q[2]].ref # None /\ c.t[q[1]].code # "-32602"
        /\ c.t[q[2]].ref \notin
               {c.t[r[1]].ref : r \in {s \in ExchangesFor(c, {c.t[q[2]].method}) :
                                          s[2] < q[2] /\ c.t[s[1]].kind = "result"}}}}

-----------------------------------------------------------------------------
(* checks/client_features: asks.rs, elicitation.rs, roots.rs, sampling.rs,  *)
(* url_flow.rs                                                             *)

\* Surface: what the client's initialize declares, answered or not.
SurfaceKnown(c) == Handshake(c).request # 0
Surface(c) == c.t[Handshake(c).request].caps

Asks(c, method) ==
    {i \in Positions(c) : SurfaceKnown(c) /\ IsRequest(c.t[i]) /\ c.t[i].from = "server"
                          /\ c.t[i].method = method}

\* The client's answers to a method, each <<response, request>>.
AsksAnswered(c, method) == {p \in c.pairs : p[2] \in Asks(c, method)}

DeclaredWhereAnswered(c, method, capability) ==
    {p[1] : p \in {q \in AsksAnswered(c, method) :
                      c.t[q[1]].kind = "result" /\ capability \notin Surface(c)}}

ModeDeclared(c, mode) ==
    /\ "elicitation" \in Surface(c)
    /\ \/ "elicitation." \o mode \in Surface(c)
       \/ mode = "form" /\ "elicitation.url" \notin Surface(c)

ModeSupported(c) == {i \in Asks(c, "elicitation/create") : ~ModeDeclared(c, c.t[i].body)}

UndeclaredModeRejected(c) ==
    {p[1] : p \in {q \in AsksAnswered(c, "elicitation/create") :
        /\ "elicitation" \in Surface(c) /\ ~ModeDeclared(c, c.t[q[2]].body)
        /\ c.t[q[1]].code # "-32602"}}

RootsChecked(c) == {i \in Asks(c, "roots/list") : "roots" \notin Surface(c)}

RootsUnsupportedRejected(c) ==
    {p[1] : p \in {q \in AsksAnswered(c, "roots/list") :
                      "roots" \notin Surface(c) /\ c.t[q[1]].code # "-32601"}}

ToolsDeclared(c) ==
    {i \in Asks(c, "sampling/createMessage") :
        c.t[i].body = "tools" /\ "sampling.tools" \notin Surface(c)}

\* An elicitation is established by a URL mode ask, or by a -32042 listing it.
Establishes(c, j, ref) ==
    /\ c.t[j].ref = ref
    /\ \/ j \in Asks(c, "elicitation/create") /\ c.t[j].body = "url"
       \/ c.t[j].from = "server" /\ c.t[j].kind = "error" /\ c.t[j].code = "-32042"

CompleteNotificationId(c) ==
    {i \in Positions(c) :
        /\ IsNotification(c.t[i]) /\ c.t[i].from = "server"
        /\ c.t[i].method = "notifications/elicitation/complete"
        /\ ~\E j \in 1 .. i - 1 : Establishes(c, j, c.t[i].ref)}

-----------------------------------------------------------------------------
(* The clauses, the parties they bind and all their findings.              *)

\* The clauses that bind one party; the others bind the sender.
SessionActors ==
    [cl \in {"LIFE-001", "LIFE-003", "LIFE-004", "CANC-019", "PAGE-002", "ELIC-004", "ROOT-001",
             "SAMP-005", "ELIC-021", "ROOT-004"} |-> "client"]
    @@ [cl \in {"LIFE-005", "TOOL-001", "PROM-001", "RES-001", "COMP-001", "LOG-001", "PAGE-003", "ELIC-006",
                "ROOT-009", "SAMP-004", "ELIC-014"} |-> "server"]

SessionClauses(c) ==
    ("LIFE-001" :> FirstInteractionInitialize(c))
    @@ ("LIFE-003" :> InitializedNotification(c))
    @@ ("LIFE-004" :> ClientRequestsBeforeInitResponse(c))
    @@ ("LIFE-005" :> ServerRequestsBeforeInitialized(c))
    @@ ("LIFE-009" :> NegotiatedCapabilitiesOnly(c))
    @@ ("BASE-003" :> RequestIdUnique(c))
    @@ ("BASE-004" :> ResponsesMatchRequests(c, "result"))
    @@ ("BASE-009" :> ResponsesMatchRequests(c, "error"))
    @@ ("PING-001" :> EmptyResult(c))
    @@ ("CANC-018" :> ReferencesIssuedRequest(c))
    @@ ("CANC-019" :> InitializeNotCancelled(c))
    @@ ("CANC-020" :> TaskCancelledByRequest(c))
    @@ ("CANC-021" :> NoResponseAfterCancellation(c))
    @@ ("PROG-010" :> TokenUnique(c))
    @@ ("PROG-011" :> ValueIncreases(c))
    @@ ("PROG-013" :> TokenIssued(c))
    @@ ("PROG-014" :> TaskTokenUnchanged(c))
    @@ ("PROG-016" :> StopsAfterCompletion(c))
    @@ ("TOOL-001" :> ServedUndeclared(c, "tools", {"tools/list", "tools/call"}))
    @@ ("PROM-001" :> ServedUndeclared(c, "prompts", {"prompts/list", "prompts/get"}))
    @@ ("RES-001" :> ServedUndeclared(c, "resources", {"resources/list", "resources/read", "resources/templates/list"}))
    @@ ("COMP-001" :> ServedUndeclared(c, "completions", {"completion/complete"}))
    @@ ("LOG-001" :> LoggingDeclared(c))
    @@ ("PAGE-002" :> CursorOpacity(c))
    @@ ("PAGE-003" :> InvalidCursorRejected(c))
    @@ ("ELIC-004" :> DeclaredWhereAnswered(c, "elicitation/create", "elicitation"))
    @@ ("ROOT-001" :> DeclaredWhereAnswered(c, "roots/list", "roots"))
    @@ ("SAMP-005" :> DeclaredWhereAnswered(c, "sampling/createMessage", "sampling"))
    @@ ("ELIC-006" :> ModeSupported(c))
    @@ ("ELIC-021" :> UndeclaredModeRejected(c))
    @@ ("ROOT-009" :> RootsChecked(c))
    @@ ("ROOT-004" :> RootsUnsupportedRejected(c))
    @@ ("SAMP-004" :> ToolsDeclared(c))
    @@ ("ELIC-014" :> CompleteNotificationId(c))

\* The clauses with a finding, each with the party it is held against.
Found(c, clauses, actors) ==
    UNION {{<<HeldAgainst(c, actors, clause, i), clause>> : i \in clauses[clause]}
           : clause \in DOMAIN clauses}

SessionConvictions(t, transport) ==
    LET c == Context(t, transport)
    IN  Found(c, SessionClauses(c), SessionActors)
=============================================================================

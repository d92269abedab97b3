---------------------------- MODULE StatelessChecks ----------------------------
(***************************************************************************)
(* The 2026-07-28 clauses about what a party does in the course of a       *)
(* session without a handshake: rounds of input and their retries,         *)
(* subscriptions, ids in flight, cancellation, progress, logging,          *)
(* discovery and capabilities.  Each check is the set of positions it has  *)
(* a finding at, as in SessionChecks; clauses about the shape of one       *)
(* message alone, and HTTP's headers, are left out.                        *)
(***************************************************************************)
EXTENDS SessionChecks

FromClient(c, i) == c.t[i].from = "client"
FromServer(c, i) == c.t[i].from = "server"

ClientRequests(c) == {i \in Positions(c) : FromClient(c, i) /\ IsRequest(c.t[i])}

-----------------------------------------------------------------------------
(* mrtr/pairing.rs.  A round's `keys` are the inputs it asks for, a retry's *)
(* the inputs it responds to; `ref` is the requestState of either.          *)

\* The results that ask for input, of requests that are recorded.
Rounds(c) == {p[1] : p \in {q \in c.pairs : c.t[q[1]].kind = "result" /\ c.t[q[1]].body = "input_required"}}

\* The request a round answered.
Origin(c, r) == Answers(c, r)

Retries(c) == {i \in ClientRequests(c) : c.t[i].keys # {} \/ c.t[i].ref # None}

\* A retry repeats its request's method and target.
Repeats(c, i, j) == c.t[i].method = c.t[j].method /\ c.t[i].body = c.t[j].body

\* What the clauses about a retry compare is the same in both rounds.
Interchangeable(c, i, a, b) ==
    /\ c.t[a].keys = c.t[b].keys /\ c.t[a].ref = c.t[b].ref
    /\ (c.t[i].id = c.t[Origin(c, a)].id) = (c.t[i].id = c.t[Origin(c, b)].id)

\* The round named by the state that is echoed; or else the latest of the
\* unanswered rounds of the request that is repeated, if the choice does not
\* matter.
PairOf(c, i, rounds, paired) ==
    LET named == {r \in rounds : r < i /\ c.t[i].ref # None /\ c.t[r].ref = c.t[i].ref}
        open == {r \in rounds : r < i /\ Repeats(c, i, Origin(c, r))} \ {p[2] : p \in paired}
    IN  IF named # {} THEN {<<i, Max(named)>>}
        ELSE {<<i, r>> : r \in {x \in {Latest(open)} \ {0} : \A y \in open : Interchangeable(c, i, x, y)}}

\* Each retry with its round, where the pairing is certain.
RetriesWithRounds(c) ==
    LET rounds == Rounds(c)
        retries == Retries(c)
        upTo[i \in 0 .. Len(c.t)] ==
            IF i = 0 THEN {}
            ELSE upTo[i - 1] \union (IF i \in retries THEN PairOf(c, i, rounds, upTo[i - 1]) ELSE {})
    IN  IF retries = {} THEN {} ELSE upTo[Len(c.t)]

-----------------------------------------------------------------------------
(* mrtr.rs, meta/reliance.rs *)

InputSupported == {"prompts/get", "resources/read", "tools/call"}

InputRequiredSupportedMethods(c) == {r \in Rounds(c) : c.t[Origin(c, r)].method \notin InputSupported}

InputRequiredHasContent(c) == {r \in Rounds(c) : c.t[r].keys = {} /\ c.t[r].ref = None}

MissingKeys(c, p) == c.t[p[2]].keys \ c.t[p[1]].keys

RetryCarriesInputResponses(c) == {p[1] : p \in {q \in RetriesWithRounds(c) : MissingKeys(c, q) # {}}}

RequestStateEchoed(c) ==
    {p[1] : p \in {q \in RetriesWithRounds(c) : c.t[q[2]].ref \notin {None, c.t[q[1]].ref}}}

NoUnsolicitedRequestState(c) ==
    {p[1] : p \in {q \in RetriesWithRounds(c) : c.t[q[1]].ref # None /\ c.t[q[2]].ref = None}}

RetryIdDiffers(c) ==
    {p[1] : p \in {q \in RetriesWithRounds(c) : c.t[q[1]].id = c.t[Origin(c, q[2])].id}}

\* A state issued twice belongs to the round recorded last.
RequestStateScopedToRetry(c) ==
    {i \in Retries(c) : c.t[i].ref # None /\
        \E r \in {Latest({x \in Rounds(c) : c.t[x].ref = c.t[i].ref})} \ {0} :
            c.t[Origin(c, r)].method # c.t[i].method}

MissingInputReasked(c) ==
    {AnsweredAt(c, p[1]) : p \in {q \in RetriesWithRounds(c) :
        /\ MissingKeys(c, q) # {} /\ AnsweredAt(c, q[1]) # 0
        /\ c.t[AnsweredAt(c, q[1])].kind = "error"}}

\* An input is named by the capability, and its member, that it takes.
Undeclared(caps, key) ==
    CASE key = "elicitation.url"  -> ~({"elicitation", key} \subseteq caps)
      [] key = "elicitation.form" -> \/ "elicitation" \notin caps
                                     \/ key \notin caps /\ "elicitation.url" \in caps
      [] key = "sampling.tools"   -> ~({"sampling", key} \subseteq caps)
      [] OTHER                    -> key \notin caps

\* Judged by the capabilities that came with the request the round answers.
NoUndeclaredCapabilityReliance(c) ==
    {r \in Rounds(c) : /\ FromClient(c, Origin(c, r))
                       /\ \E key \in c.t[r].keys : Undeclared(c.t[Origin(c, r)].caps, key)}

-----------------------------------------------------------------------------
(* subscriptions.rs, cancellation.rs, meta.rs.  The `keys` of a listen are  *)
(* the notifications its filter asks for.                                   *)

Listen == "subscriptions/listen"
Acknowledged == "notifications/subscriptions/acknowledged"

IsTagged(c, i) == FromServer(c, i) /\ c.t[i].tag # NoId

\* The subscription that a tag names when it is sent: the latest under the
\* id, unless a response or a cancellation has ended it.
Subscribed(c, i) ==
    LET opened == Latest({j \in ClientRequests(c) : j < i /\ c.t[j].method = Listen /\ c.t[j].id = c.t[i].tag})
        ends(k) == \/ FromServer(c, k) /\ IsResponse(c.t[k]) /\ c.t[k].id = c.t[i].tag
                   \/ IsCancel(c.t[k]) /\ c.t[k].names = c.t[i].tag
    IN  IF opened # 0 /\ \E k \in opened + 1 .. i - 1 : ends(k) THEN 0 ELSE opened

\* The messages of each subscription that was open for them.
Resolved(c) == {i \in Positions(c) : IsTagged(c, i) /\ Subscribed(c, i) # 0}

\* The server ends the subscription that is tagged.
IsTeardown(m) == IsCancel(m) /\ m.names = m.tag

OnlyRequestedNotifications(c) ==
    {i \in Resolved(c) : /\ IsNotification(c.t[i]) /\ ~IsTeardown(c.t[i])
                         /\ c.t[i].method # Acknowledged
                         /\ c.t[i].method \notin c.t[Subscribed(c, i)].keys}

\* The first message of each opening, whatever the id named before.
AcknowledgmentFirst(c) ==
    {i \in Resolved(c) : /\ c.t[i].method # Acknowledged
                         /\ \A j \in Resolved(c) : j < i => Subscribed(c, j) # Subscribed(c, i)}

\* A server cancels nothing but a subscription.
ServerCancelsOnlySubscriptions(c) ==
    {i \in Cancels(c) : FromServer(c, i) /\
        LET named == LatestRequest(c.t, "client", c.t[i].names, i)
        IN  c.t[i].names = NoId \/ (named # 0 /\ c.t[named].method # Listen)}

\* The end of a subscription names it, tagged or not.
SubscriptionIdPresent(c) ==
    LET listens == {c.t[j].id : j \in {k \in ClientRequests(c) : c.t[k].method = Listen}}
    IN  IF listens = {} THEN {}
        ELSE {i \in Positions(c) :
                /\ FromServer(c, i) /\ IsNotification(c.t[i])
                /\ c.t[i].method \notin {"notifications/progress", "notifications/message"}
                /\ c.t[i].tag \notin listens /\ ~(IsCancel(c.t[i]) /\ c.t[i].names \in listens)}

-----------------------------------------------------------------------------
(* envelope.rs, transport/stdio.rs, transport/stream.rs *)

\* A request under an id that its sender has a request outstanding under.
RequestIdUniqueInFlight(c) ==
    {i \in Positions(c) : IsRequest(c.t[i]) /\
        \E r \in {LatestRequest(c.t, c.t[i].from, c.t[i].id, i)} \ {0} :
            \A k \in r + 1 .. i - 1 :
                ~(IsResponse(c.t[k]) /\ c.t[k].from # c.t[i].from /\ c.t[k].id = c.t[i].id)}

ClientNoResponses(c) == {i \in Positions(c) : FromClient(c, i) /\ IsResponse(c.t[i])}

NoIndependentServerRequests(c) == {i \in Positions(c) : FromServer(c, i) /\ IsRequest(c.t[i])}

\* The client's cancellation of an id that stands at i: the first since a
\* request last took the id up, recorded or not.
StandsCancelled(c, id, i) ==
    Earliest({k \in Cancels(c) : /\ k \in LatestRequest(c.t, "client", id, i) + 1 .. i - 1
                                 /\ FromClient(c, k) /\ c.t[k].names = id})

\* The ids a progress notification may report on: whose latest request holds
\* its token.
Reported(c, i) ==
    {c.t[j].id : j \in {k \in ClientRequests(c) :
        k < i /\ c.t[k].token = c.t[i].token /\ k = LatestRequest(c.t, "client", c.t[k].id, i)}}

NoMessagesAfterCancelNotification(c) ==
    {i \in Positions(c) : FromServer(c, i) /\
        \E id \in IF IsResponse(c.t[i]) THEN {c.t[i].id}
                  ELSE IF IsProgress(c.t[i]) /\ Reported(c, i) # {} THEN {Min(Reported(c, i))} ELSE {} :
            StandsCancelled(c, id, i) # 0 /\ HasRead(c, "server", StandsCancelled(c, id, i), i)}

-----------------------------------------------------------------------------
(* progress.rs: only a client's requests carry tokens.                      *)

TokenUniqueInFlight(c) ==
    {i \in ClientRequests(c) : c.t[i].token # None /\
        \E j \in ClientRequests(c) : /\ j < i /\ c.t[j].token = c.t[i].token
                                     /\ ~DoneBefore(c, j, i)}

ServerValueIncreases(c) == {i \in ValueIncreases(c) : FromServer(c, i)}

NoProgressAfterCompletion(c) ==
    IF c.transport # "stdio" THEN {}
    ELSE {i \in Progresses(c) : /\ FromServer(c, i) /\ Owner(c, i) # 0
                                /\ DoneBefore(c, Owner(c, i), i)}

-----------------------------------------------------------------------------
(* logging.rs.  A log's `value` is the request it was sent for, which no    *)
(* recording shows.                                                         *)

Logs(c) == {i \in Positions(c) : FromServer(c, i) /\ c.t[i].method = "notifications/message"}

RequestsLogs(c, i) == FromClient(c, i) /\ c.t[i].body = "logs"

\* The client's requests in flight at i, each the latest under its id.
InFlight(c, i) ==
    {j \in ClientRequests(c) : j < i /\ c.t[j].method # Listen /\
        \A k \in j + 1 .. i - 1 :
            /\ ~(k \in ClientRequests(c) /\ c.t[k].method # Listen /\ c.t[k].id = c.t[j].id)
            /\ ~(FromServer(c, k) /\ IsResponse(c.t[k]) /\ c.t[k].id = c.t[j].id)}

LevelRequested(c) ==
    IF ~\E j \in Positions(c) : RequestsLogs(c, j) THEN Logs(c)
    ELSE {i \in Logs(c) : \E j \in InFlight(c, i) : InFlight(c, i) = {j} /\ ~RequestsLogs(c, j)}

\* A request from before the recording, answered after i.
AnsweredUnrecorded(c, i) ==
    \E k \in i + 1 .. Len(c.t) : FromServer(c, k) /\ IsResponse(c.t[k])
                                 /\ LatestRequest(c.t, "client", c.t[k].id, k) = 0

NotOnSubscription(c) ==
    {i \in Logs(c) : IsTagged(c, i) \/ (InFlight(c, i) = {} /\ ~AnsweredUnrecorded(c, i))}

-----------------------------------------------------------------------------
(* capabilities.rs, discovery.rs, versioning.rs.  A request's `body` v1 or  *)
(* v2 is the protocol version it declares, and the `keys` of a -32022 the   *)
(* versions the server supports.                                            *)

\* The first result of a discovery.
Discovered(c) ==
    Earliest({p[1] : p \in {q \in ExchangesFor(c, {"server/discover"}) : c.t[q[1]].kind = "result"}})

Withholds(c, capability) == Discovered(c) # 0 /\ capability \notin c.t[Discovered(c)].caps

AnsweredUndeclared(c, capability, methods) ==
    IF ~Withholds(c, capability) THEN {}
    ELSE {p[1] : p \in {q \in ExchangesFor(c, methods) : c.t[q[1]].kind = "result"}}

LoggingUndeclared(c) == IF Withholds(c, "logging") THEN Logs(c) ELSE {}

DeclaredListAnswered(c, capability, method) ==
    IF Discovered(c) = 0 \/ Withholds(c, capability) THEN {}
    ELSE {p[1] : p \in {q \in ExchangesFor(c, {method}) : c.t[q[1]].code = "-32601"}}

\* A probe is answered by whatever answers under its id.
Implemented(c) ==
    LET probes == {c.t[j].id : j \in {k \in ClientRequests(c) : c.t[k].method = "server/discover"}}
    IN  {i \in Positions(c) : FromServer(c, i) /\ c.t[i].code = "-32601" /\ c.t[i].id \in probes}

Versions == {"v1", "v2"}

DualEraProbeFirst(c) ==
    LET requests == IF c.transport = "stdio" THEN ClientRequests(c) ELSE {}
        legacy == \E i \in requests : c.t[i].method = "initialize"
        modern == \E i \in requests : c.t[i].body \in Versions
    IN  {i \in {Earliest(requests)} : legacy /\ modern /\ c.t[i].method # "server/discover"}

\* The latest word of a server on the versions it supports, before i.
SupportedAt(c, i) ==
    Latest({j \in Positions(c) : j < i /\ FromServer(c, j) /\ c.t[j].code = "-32022" /\ c.t[j].keys # {}})

RetryUsesSupportedVersion(c) ==
    {i \in ClientRequests(c) : /\ c.t[i].body \in Versions /\ SupportedAt(c, i) # 0
                               /\ c.t[i].body \notin c.t[SupportedAt(c, i)].keys}

-----------------------------------------------------------------------------
(* The clauses, and the parties they bind: the others bind the sender.     *)

StatelessActors ==
    [cl \in {"MRTR-015", "MRTR-016", "MRTR-018", "MRTR-019", "MRTR-020", "TRAN-060", "PROG-002",
             "DISC-002", "VERS-002"} |-> "client"]
    @@ [cl \in {"MRTR-004", "MRTR-011", "MRTR-024", "BASE-034", "SUBS-001", "SUBS-002", "CANC-003", "BASE-039",
                "TRAN-066", "TRAN-124", "PROG-003", "PROG-005", "LOG-007", "LOG-008", "LOG-009",
                "TOOL-019", "TOOL-020", "COMP-007", "DISC-001"} |-> "server"]

StatelessClauses(c) ==
    ("MRTR-004" :> InputRequiredSupportedMethods(c))
    @@ ("MRTR-011" :> InputRequiredHasContent(c))
    @@ ("MRTR-015" :> RetryCarriesInputResponses(c))
    @@ ("MRTR-016" :> RequestStateEchoed(c))
    @@ ("MRTR-018" :> NoUnsolicitedRequestState(c))
    @@ ("MRTR-019" :> RetryIdDiffers(c))
    @@ ("MRTR-020" :> RequestStateScopedToRetry(c))
    @@ ("MRTR-024" :> MissingInputReasked(c))
    @@ ("BASE-034" :> NoUndeclaredCapabilityReliance(c))
    @@ ("BASE-039" :> SubscriptionIdPresent(c))
    @@ ("BASE-045" :> RequestIdUniqueInFlight(c))
    @@ ("BASE-046" :> ResponsesMatchRequests(c, "result"))
    @@ ("BASE-052" :> ResponsesMatchRequests(c, "error"))
    @@ ("SUBS-001" :> OnlyRequestedNotifications(c))
    @@ ("SUBS-002" :> AcknowledgmentFirst(c))
    @@ ("CANC-003" :> ServerCancelsOnlySubscriptions(c))
    @@ ("TRAN-060" :> ClientNoResponses(c))
    @@ ("TRAN-066" :> NoIndependentServerRequests(c))
    @@ ("TRAN-124" :> NoMessagesAfterCancelNotification(c))
    @@ ("PROG-002" :> TokenUniqueInFlight(c))
    @@ ("PROG-003" :> ServerValueIncreases(c))
    @@ ("PROG-005" :> NoProgressAfterCompletion(c))
    @@ ("LOG-007" :> LoggingUndeclared(c))
    @@ ("LOG-008" :> LevelRequested(c))
    @@ ("LOG-009" :> NotOnSubscription(c))
    @@ ("TOOL-019" :> AnsweredUndeclared(c, "tools", {"tools/list", "tools/call"}))
    @@ ("TOOL-020" :> DeclaredListAnswered(c, "tools", "tools/list"))
    @@ ("COMP-007" :> AnsweredUndeclared(c, "completions", {"completion/complete"}))
    @@ ("DISC-001" :> Implemented(c))
    @@ ("DISC-002" :> DualEraProbeFirst(c))
    @@ ("VERS-002" :> RetryUsesSupportedVersion(c))

\* The clauses of 2026-07-28 found broken, each with the party it is held
\* against.
StatelessConvictions(t, transport) ==
    LET c == Context(t, transport)
    IN  Found(c, StatelessClauses(c), StatelessActors)
=============================================================================

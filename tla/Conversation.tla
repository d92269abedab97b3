----------------------------- MODULE Conversation -----------------------------
(***************************************************************************)
(* A client and a server of either revision, the recorder between them,    *)
(* and the verdict of SessionChecks or StatelessChecks on what it          *)
(* recorded.  Three orders of the same messages exist: each party's own,   *)
(* of what it sent and read, and the recorder's.  A party keeps or breaks  *)
(* the protocol by its own order; it is judged by the recorder's.          *)
(*                                                                         *)
(* Over stdio each direction is a pipe and stays in order.  Over HTTP      *)
(* every message of the client is a POST of its own, and the server's      *)
(* messages about different requests travel on different streams.          *)
(***************************************************************************)
EXTENDS StatelessChecks, SessionRules, StatelessRules

CONSTANTS Settings    \* the conversations considered, see Setting below

(***************************************************************************)
(* A conversation considered: the revision, the transport, whether         *)
(* messages may cross on their way, whether it begins with the handshake,  *)
(* or the discovery, done, the capabilities declared, the parties that may *)
(* break a clause and until how many are broken, how many messages there   *)
(* are at most, and the requests and notifications each party may send.  A *)
(* hasty client may cancel a request that, unknown to it, has become a     *)
(* task; a hasty server may ping before it has read the client's           *)
(* initialize.  At 2026-07-28 also which ids a client takes up again, once *)
(* they are answered or as a deviant while they are open, and the rounds   *)
(* of input a server may answer with.                                      *)
(***************************************************************************)
IsSetting(s) ==
    /\ s.revision \in {"2025-11-25", "2026-07-28"}
    /\ s.transport \in {"stdio", "http"}
    /\ {s.crossing, s.opened} \subseteq BOOLEAN /\ s.reuse \subseteq {"answered", "open"}
    /\ \A round \in s.rounds : round.keys \subseteq STRING /\ round.state \in BOOLEAN
    /\ s.hasty \subseteq Parties
    /\ s.deviants \subseteq Parties /\ {s.faults, s.most} \subseteq Nat
    /\ DOMAIN s.caps = Parties /\ DOMAIN s.says = Parties
    /\ \A p \in Parties : \A m \in s.says[p] : DOMAIN m = DOMAIN Blank /\ m.from = p

ASSUME SettingsAreSettings == \A s \in Settings : IsSetting(s)

VARIABLES
    setting,    \* which of Settings this conversation is
    sent,       \* each party's messages, in the order it sent them
    log,        \* each party's order of what it sent and read
    trace,      \* the recorder's order of what it recorded
    verdict,    \* what the validator finds in the trace: <<party, clause>>
    broken      \* history: <<party, clause>> for each clause a party broke

vars == <<setting, sent, log, trace, verdict, broken>>

Unrecorded == {p \in Parties : Cardinality({i \in DOMAIN trace : trace[i].from = p}) < Len(sent[p])}

-----------------------------------------------------------------------------
(* The revision that the parties speak, and the recording is judged by.     *)

Handshaken == setting.revision = "2025-11-25"

Breaches(p, l, m) ==
    IF Handshaken THEN SessionBreaches(setting, p, l, m) ELSE StatelessBreaches(setting, p, l, m)

Says(p, l) ==
    IF Handshaken THEN SessionSays(setting, p, l) ELSE StatelessSays(setting, p, l)

Convictions(s, t) ==
    IF s.revision = "2025-11-25" THEN SessionConvictions(t, s.transport)
    ELSE StatelessConvictions(t, s.transport)

-----------------------------------------------------------------------------
Initializing ==
    <<[Blank EXCEPT !.nth = 1, !.kind = "request", !.method = "initialize", !.id = 1, !.caps = setting.caps["client"]],
      [Blank EXCEPT !.nth = 1, !.from = "server", !.kind = "result", !.id = 1, !.caps = setting.caps["server"]],
      [Blank EXCEPT !.nth = 2, !.method = "notifications/initialized"]>>

Discovering ==
    <<[Blank EXCEPT !.nth = 1, !.kind = "request", !.method = "server/discover", !.id = 1],
      [Blank EXCEPT !.nth = 1, !.from = "server", !.kind = "result", !.id = 1, !.caps = setting.caps["server"]]>>

Greeting == IF ~setting.opened THEN <<>> ELSE IF Handshaken THEN Initializing ELSE Discovering

Init ==
    /\ setting \in Settings
    /\ trace = Greeting
    /\ sent = [p \in Parties |-> SelectSeq(trace, LAMBDA m : m.from = p)]
    /\ log = [p \in Parties |-> trace]
    /\ verdict = Convictions(setting, trace)
    /\ broken = {}

\* Nothing is on its way.
Still == Unrecorded = {} /\ \A p \in Parties : Len(log[p]) = Len(trace)

\* A conversation is bounded; an orderly one goes on when all has been read.
MaySend ==
    /\ Len(sent["client"]) + Len(sent["server"]) < setting.most + Len(Greeting)
    /\ ~setting.crossing => Still

\* What p sends, and the clauses it breaks with it.
Send(p, m) ==
    LET breaches == Breaches(p, log[p], m)
        said == [m EXCEPT !.nth = Len(sent[p]) + 1]
    IN  /\ breaches # {} => p \in setting.deviants /\ Cardinality(broken) < setting.faults
        /\ sent' = [sent EXCEPT ![p] = Append(@, said)]
        /\ log' = [log EXCEPT ![p] = Append(@, said)]
        /\ broken' = broken \union {<<p, cl>> : cl \in breaches}
        /\ UNCHANGED <<setting, trace, verdict>>

\* What must be recorded, and delivered, in the order it was sent.
Stream(p, m) ==
    IF setting.transport = "stdio" THEN <<>>
    ELSE CASE p = "client"  -> <<m>>
           [] IsResponse(m) -> <<m.id>>
           [] IsProgress(m) -> <<Max({0} \union {sent["client"][i].id : i \in
                                  {j \in DOMAIN sent["client"] : sent["client"][j].token = m.token}})>>
           [] m.method = "notifications/message" /\ m.value # 0 -> <<m.value>>
           [] SubscriptionOf(m) # NoId -> <<SubscriptionOf(m)>>
           [] OTHER         -> <<>>

\* The next messages of p that are not in l.
Coming(p, l) ==
    LET waiting == Range(sent[p]) \ Range(l)
    IN  {m \in waiting : \A o \in waiting : o.nth < m.nth => Stream(p, o) # Stream(p, m)}

Record(p) ==
    \E m \in Coming(p, trace) :
        /\ trace' = Append(trace, m)
        /\ verdict' = Convictions(setting, trace')
        /\ UNCHANGED <<setting, sent, log, broken>>

Deliver(p) ==
    \E m \in Coming(Other(p), log[p]) \intersect Range(trace) :
        /\ log' = [log EXCEPT ![p] = Append(@, m)]
        /\ UNCHANGED <<setting, sent, trace, verdict, broken>>

Next ==
    \E p \in Parties :
        \/ MaySend /\ \E m \in Says(p, log[p]) : Send(p, m)
        \/ Record(p)
        \/ Deliver(p)

Spec == Init /\ [][Next]_vars

-----------------------------------------------------------------------------
\* A recording may end before the client sends its initialized.
Pending == {<<"client", "LIFE-003">>}

\* A finding on what is recorded so far that a message still to come may
\* explain: a request that asks for logs, an answer that issues a cursor.
Provisional == Pending \union {<<"server", "LOG-008">>, <<"server", "PAGE-003">>}

\* A fault the peer's message, recorded first, covers.
Coverable ==
    {"LIFE-004", "LIFE-005", "PROG-016", "PAGE-002", "PROG-005", "SUBS-001", "SUBS-002", "LOG-008", "LOG-009",
     "MRTR-015", "MRTR-016", "MRTR-018", "MRTR-019", "MRTR-024"}

TypeOK ==
    /\ setting \in Settings
    /\ \A p \in Parties : Range(log[p]) \union Range(trace) \subseteq Range(sent["client"]) \union Range(sent["server"])
    /\ broken \subseteq Parties \X (STRING)

\* No clause is found broken that the party it is held against did not break,
\* whatever crosses on its way between the parties and the recorder.
NoFalseConviction ==
    Unrecorded = {} => verdict \ Pending \subseteq broken

\* Every clause a party demonstrably breaks is found, and held against it.
DeviationsAreConvicted ==
    Unrecorded = {} =>
        \A b \in broken : \/ b \in verdict \/ <<b[1], "unseen">> \in broken
                         \/ (setting.crossing /\ b[2] \in Coverable)

\* What is found in a recording is found in every continuation of it.
FindingsStand ==
    [][verdict \ Provisional \subseteq verdict']_vars
=============================================================================

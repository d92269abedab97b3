---------------------------- MODULE MCConversation ----------------------------
(***************************************************************************)
(* Instances of Conversation for TLC: one topic of the protocol each.      *)
(***************************************************************************)
EXTENDS Conversation

Ask(p, method)  == [Blank EXCEPT !.from = p, !.kind = "request", !.method = method]
Tell(p, method) == [Blank EXCEPT !.from = p, !.method = method]
Cancel(p, ids)  == {[Tell(p, "notifications/cancelled") EXCEPT !.names = id] : id \in ids}
Progress(p, tokens, values) ==
    {[Tell(p, "notifications/progress") EXCEPT !.token = token, !.value = value]
     : token \in tokens, value \in values}

ServerAll == {"tools", "prompts", "resources", "logging", "completions", "tools.listChanged", "tasks.requests.tools.call"}
ClientAll == {"elicitation", "elicitation.url", "elicitation.form", "roots",
              "roots.listChanged", "sampling", "sampling.tools"}

\* Conversations over stdio, once the handshake is done, of parties that
\* may break one clause.
Conversing(client, server, most) ==
    [revision |-> "2025-11-25", reuse |-> {}, rounds |-> {}, transport |-> "stdio", crossing |-> TRUE, opened |-> TRUE, hasty |-> {},
     caps |-> [p \in Parties |-> IF p = "client" THEN ClientAll ELSE ServerAll],
     deviants |-> Parties, faults |-> 1, most |-> most,
     says |-> [p \in Parties |-> IF p = "client" THEN client ELSE server]]

Initialize == [Ask("client", "initialize") EXCEPT !.caps = ClientAll]

Opening == [Conversing({Ask("client", "server/discover"), Initialize, Ask("client", "ping"),
                        Tell("client", "notifications/initialized"), Ask("client", "tools/list")},
                       {Ask("server", "ping"), Ask("server", "roots/list")}, 4)
            EXCEPT !.opened = FALSE]

Call(token) == [Ask("client", "tools/call") EXCEPT !.token = token]

Calls == Conversing({Call("t"), Ask("client", "ping")} \union Cancel("client", {1, 2, 3}),
                    Progress("server", {"t"}, {1, 2}) \union Progress("server", {"u"}, {1})
                    \union {Ask("server", "ping")}, 4)

\* Long enough that what follows a cancellation shows whether it was read.
Cancelling == Conversing({Call("t"), Ask("client", "tools/list")} \union Cancel("client", {2}),
                         Progress("server", {"t"}, {1}), 5)

TaskCall   == [Call("t") EXCEPT !.body = "task"]
TaskGet    == [Ask("client", "tasks/get") EXCEPT !.ref = "task"]
TaskStatus == [Tell("server", "notifications/tasks/status") EXCEPT !.ref = "task", !.body = "terminal"]

Tasks == Conversing({TaskCall, TaskGet} \union Cancel("client", {2}),
                    {[m EXCEPT !.ref = "task"] : m \in Progress("server", {"t", "u"}, {1, 2})}
                    \union {TaskStatus}, 4)

Elicit(mode) == [Ask("server", "elicitation/create") EXCEPT !.body = mode, !.ref = mode]
Establishing == [Call(None) EXCEPT !.body = "url"]
Completed    == [Tell("server", "notifications/elicitation/complete") EXCEPT !.ref = "e1"]
SampleTools  == [Ask("server", "sampling/createMessage") EXCEPT !.body = "tools"]

\* What the server asks of a client that declares caps.
Asking(caps) ==
    [Conversing({Establishing}, {Elicit("form"), Elicit("url"), SampleTools, Ask("server", "roots/list"), Completed}, 4)
     EXCEPT !.caps["client"] = caps]

\* What rides on a capability, between parties that declare all, or none.
Gated(all) ==
    [Conversing({Ask("client", "tools/list"), Ask("client", "prompts/list"), Ask("client", "resources/read"),
                 TaskCall, Ask("client", "completion/complete"),
                 Tell("client", "notifications/roots/list_changed")},
                {Tell("server", "notifications/message"), Tell("server", "notifications/tools/list_changed"),
                 Ask("server", "sampling/createMessage")}, 3)
     EXCEPT !.caps = [p \in Parties |-> IF ~all THEN {} ELSE @[p]]]

Page(cursor) == [Ask("client", "tools/list") EXCEPT !.ref = cursor]
Paged == Conversing({Page(None), Page("c1"), Page("forged"),
                     [Page("c1") EXCEPT !.method = "prompts/list"]}, {}, 4)

\* Each message of the client may be served before an earlier one.
OverHttp(s) == [s EXCEPT !.transport = "http", !.deviants = {},
                         !.says["client"] = {m \in @ : ~IsCancel(m)},
                         !.says["server"] = @ \ {Completed}]

Stateless(s) == [s EXCEPT !.revision = "2026-07-28"]

CallThat(takes) == [Ask("client", "tools/call") EXCEPT !.caps = takes]

\* Rounds of input, of calls that take form elicitation.
Rounded(rounds) ==
    [Stateless(Conversing({CallThat({"elicitation"})}, {}, 5)) EXCEPT !.rounds = rounds]

Asking2026 == {[keys |-> {"elicitation.form"}, state |-> TRUE], [keys |-> {"elicitation.form"}, state |-> FALSE]}
Unanswerable == {[keys |-> {}, state |-> FALSE], [keys |-> {"elicitation.url"}, state |-> TRUE],
                 [keys |-> {"sampling"}, state |-> FALSE]}

\* Rounds of what takes no input.
Misplaced ==
    [Stateless(Conversing({Ask("client", "completion/complete")}, {}, 3)) EXCEPT !.rounds = Asking2026]

ListenFor(kinds) == [Ask("client", "subscriptions/listen") EXCEPT !.keys = kinds]
TaggedWith(method, ids) == {[Tell("server", method) EXCEPT !.tag = id] : id \in ids}
Teardowns(ids) == {[m EXCEPT !.tag = tag] : m \in Cancel("server", ids), tag \in ids \union {NoId}}

ToolsChanged == "notifications/tools/list_changed"

Subscribing2026 ==
    Stateless(Conversing({ListenFor({ToolsChanged}), ListenFor({}), Ask("client", "tools/list")} \union Cancel("client", {2, 3}),
                         TaggedWith("notifications/subscriptions/acknowledged", {2, 3}) \union TaggedWith(ToolsChanged, {2, 3})
                         \union {Tell("server", ToolsChanged)} \union Teardowns({2, 3}), 4))

Calling2026 ==
    Stateless(Conversing({Call("t"), Call("u"), Ask("client", "tools/list")} \union Cancel("client", {2, 3}),
                         Progress("server", {"t"}, {1, 2}) \union {Ask("server", "ping")}, 4))

CallWithLogs == [Ask("client", "tools/call") EXCEPT !.body = "logs"]
LogOf(ids) == {[Tell("server", "notifications/message") EXCEPT !.value = id] : id \in ids}

Logging2026 ==
    Stateless(Conversing({CallWithLogs, Ask("client", "tools/list"), Ask("client", "completion/complete")}, LogOf({2, 3}), 4))

\* A server that declares nothing in its discovery.
Undeclared2026 ==
    [Stateless(Conversing({Ask("client", "tools/list"), Ask("client", "completion/complete"), CallWithLogs}, LogOf({2}), 3))
     EXCEPT !.caps["server"] = {}]

Declaring(version) == [Ask("client", "tools/call") EXCEPT !.body = version]

Eras == [Stateless(Conversing({Ask("client", "server/discover"), Initialize, Declaring("v1"), Declaring("v2")}, {}, 4))
         EXCEPT !.opened = FALSE, !.crossing = FALSE]

\* A client that takes up the ids that are answered.
Reusing(s) == [s EXCEPT !.reuse = {"answered"}, !.deviants = {}]

\* A client that takes up an id before it is answered.
Repeating(s) == [s EXCEPT !.reuse = {"open"}, !.crossing = FALSE]

\* One message at a time: nothing covers a fault.
Orderly(s) == [s EXCEPT !.crossing = FALSE]

\* A fault may follow others, until n clauses are broken.
Faulty(n, s) == [s EXCEPT !.faults = n]

Shorter(s) == [s EXCEPT !.most = @ - 1]

\* The conversations of the run judge.  Where messages may cross there is one
\* message fewer.
MCSettings ==
    {Shorter(s) : s \in {Calls, Tasks, Asking({"elicitation", "elicitation.url"}), OverHttp(Calls), OverHttp(Tasks),
                         Rounded(Asking2026), Rounded(Unanswerable), Subscribing2026, Calling2026, Logging2026}}
    \union {Opening, Asking({}), Gated(FALSE), Paged, OverHttp(Asking({"elicitation"})), Undeclared2026, Eras, Misplaced}
    \union {Shorter(Gated(TRUE))}
    \union {Orderly(s) : s \in {Opening, Calls, Tasks, Cancelling, Gated(TRUE)}}
    \union {Faulty(3, Orderly(s)) : s \in {Asking({"elicitation"}), Asking({})}}
    \union {Faulty(2, Orderly(s)) : s \in {Gated(FALSE), Paged, Calling2026, Rounded(Asking2026)}}
    \union {Shorter(Reusing(s)) : s \in {Subscribing2026, Calling2026, Logging2026}}
    \union {Repeating(Calling2026), Orderly(Subscribing2026), Orderly(Logging2026), Orderly(Stateless(Cancelling))}
    \union {Shorter(OverHttp(s)) : s \in {Rounded(Asking2026), Subscribing2026, Logging2026, Calling2026}}

\* A client that cancels what, unknown to it, is a task.
MCHasty == {[Tasks EXCEPT !.hasty = {"client"}, !.deviants = {}]}

=============================================================================

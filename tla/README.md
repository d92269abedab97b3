# TLA+ verification of mcp-conformance

mcp-conformance records the traffic of a Model Context Protocol session and
judges the recording against the protocol's clauses. This directory holds a
formal model of its core: what is recorded, in which order and with which
promises; what the validator concludes from the order of a recording, and
whether its verdicts are just; and the two programs around them that carry
concurrent traffic, the bridge of `mcp-conformance test` and the tap of the
reference server. The modules are translated from the Rust source, the TLC
configurations check them on small instances, and the `*Proofs` modules prove
guarantees for every value of the constants. `PROJECT.json` maps each definition
to the lines it models.

Parse with `tlasany M.tla`, check with `tlc -workers 2 -config X.cfg M`, prove
with `tlapm M.tla` for each module `*Proofs`.

## 1. Inventory

### 1.1 The parts and how they interact

    suite -> bridge -> server processes                (mcp-conformance test)
                |
    client <-> mcp-trace-capture <-> server            (stdio wrapper or HTTP proxy)
                     |  Recorder(s), Traces, Numbered
                     v
               trace files (JSON lines)  -> mcp-trace-validator -> report, verdict
                     ^      |                       ^
    reference server |      +-> observer -> live judging   (mcp-conformance watch)
       with its tap -+

| part | source (`src/crates/...`) | state | operations | hard behaviour |
|---|---|---|---|---|
| recorder | `mcp-trace-capture/src/recorder.rs` | one `Mutex<Inner>`: sink, next number, the first error, `closed`, counters of what was dropped or came late | `record`, `record_all`, `close`, `finish`, drop of the sink | any number of tasks; torn and buffered writes; SIGKILL |
| stdio capture | `stdio.rs`, `stdio/ending.rs`, `stdio/process.rs`, `signals.rs`, `run.rs` | two pump tasks, the main task's wait, the server's process group, pipes | read/record/forward, end of either side, request to stop, kill, drain, close, finish | everything is concurrent: the exits, the closes, signals, deadlines and full pipes race |
| session router | `traces.rs` | sessions in order, id to session, current session, the trace for ids not accepted yet | `route`, `respond`, `end`, `close_all`, `finish` | an exchange's answer finds a router that others have changed |
| HTTP proxy | `http.rs`, `http/{listen,relay,answers,body}.rs` | handlers, counters, the stop | receive, route, record, forward, relay, abort, count, stop | handlers interleave at every await and around every lock |
| numbered traces | `numbered.rs` | the directory, the next number of a proxy | list, search, create | several processes and users change the directory meanwhile |
| message framing of the recorder | `framing.rs`, `framing/faithful.rs`, `http/body.rs` | partial line, partial SSE event, shared buffer budget | push, finish | cuts anywhere; a budget shared by exchanges |
| validator: HTTP framing | `mcp-trace-validator/src/context/{framing,refusal,pairing}.rs` | one fold over the trace | pairing of headers, messages, statuses and responses from order only | overlapping exchanges, missing bodies and statuses, retries |
| validator: checks of both revisions | `context.rs`, `checks/**` | the lifecycle fold; per-clause folds | judge each clause | a clause must convict no conforming party whatever crosses on the wire, and must convict whoever breaks it |
| validator: reader, engine, verdict, rendering | `reader.rs`, `engine.rs`, `judge.rs`, `report.rs`, `html`, `sarif`, `junit` | none kept | parse, fold outcomes, print | sequential |
| core | `mcp-conformance-core/src` | none | message classes, canonical JSON, the requirement registry | none: types and pure functions |
| cli: bridge | `mcp-conformance-cli/src/bridge.rs`, `bridge/session.rs` | sessions and their relays; of each the writer, the open streams, what waits for one, the grace | begin, POST, GET, DELETE, route, end of output, stop | handlers dropped at any await; streams replaced; a stop among initializes |
| cli: suite runner | `run/`, `suite/` | none kept | start, wait, compare | sequential |
| cli: live judging | `mcp-conformance-cli/src/{watch,live,otlp}` | judging thread, bounded queue, exporter | observe, shed, judge, export | a slow judge must not hold up the session |
| cli: workbench | `workbench/` | a cache of a directory | list, open, delete, re-read | other processes write the directory |
| reference server: tap | `mcp-everything-server/src/tap.rs`, `tap/{files,writer}.rs` | sessions with a trace, a bounded channel, the writer's queues and open places | reserve, record, give a place up, fill, release, write | a request's trace is known only after its answer; clients that leave; writes that fail |
| reference server: protocol | `mcp-everything-server/src/server.rs`, ... | a fixed catalogue, subscriptions | MRTR, subscriptions, pagination | behind an SDK that is not in the repository |
| reference host | `mcp-reference-host/src` | agent loop, retries, resumption | bounded loop, back-off, resume | cut streams and repeated calls |
| tooling, corpus, documents | `xtask`, `action`, `corpus`, `book` | - | - | they drive or describe the program |

### 1.2 What makes each part correct

* **Recorder.** Line *i* of a trace carries number *i* and can be parsed,
  whatever failed or was killed; what a caller was told is recorded is in the
  file; the close is its last line; every event is accounted for once; a trace
  reported complete is whole.
* **Stdio capture.** Each side is given exactly what the other sent; nothing is
  handed on before it is recorded; the trace's order is a causal order; a stop
  closes the trace before anybody is told to stop; every wait after a stop ends;
  what is not in the trace is in the report.
* **Router.** A session's requests stay behind its own initialize; invented ids
  cost no files; a late answer moves nothing.
* **Proxy.** An exchange is told once, in one trace, in order, as what it was;
  a message stays beside its headers; the upstream sees nothing unrecorded; the
  traces end at the stop.
* **Numbered traces.** A file has one holder; the directory reads in session
  order.
* **Validator framing.** Whatever it claims about which message rode which HTTP
  exchange is true; what order can settle is settled.
* **Validator checks.** No party is convicted of what it did not do, by its own
  order of the messages, whatever order they were recorded in; whoever
  demonstrably breaks a clause is convicted of it; a finding on a recording
  stands when the recording goes on.
* **Bridge.** What a server says goes to one stream, in order; an answer goes to
  the stream of its request; lines of concurrent POSTs never mix; every stream
  ends with its server; a DELETE ends the server, and a stop ends them all.
* **Tap.** A trace is in the order its parties knew of; every exchange that comes
  to its end is in one trace, once; a session's trace is its own; a place held in
  memory is always released.
* **Live judging, workbench, host** (planned). A bounded queue sheds and says so;
  a cache never serves what is gone; a loop and its retries are bounded.

The hazards behind these are listed one by one in `PROJECT.json`, at the line
where each bites, with the properties that watch them.

## 2. Modules

| module | models | extends / instantiates |
|---|---|---|
| `Recorder` | `recorder.rs` as operators on the recorder's value: each public method holds one lock from first read to last write, so each is one atomic step of its caller. The sink is buffered, direct, or unwritable; a write may fail whole or leave a fragment | - |
| `TraceLog` | abstract: a log that only grows, line by line, until it is sealed | - |
| `RecorderTasks` | any number of tasks calling the recorder in any order, the finish at any time, the drop, SIGKILL inside a write | `Recorder`; refines `TraceLog` |
| `RecorderProofs` | the theorems about `RecorderTasks` | `RecorderTasks`, `TLAPS` |
| `Wiretap` | abstract: what a recording relay promises the two sides and the reader of the tape | - |
| `StdioCapture` | the wrapper: two pumps, the main task, the client, the server's processes, pipes and signals | `Recorder`; refines `Wiretap` |
| `StdioProofs` | the theorems about `StdioCapture` | `StdioCapture`, `TLAPS` |
| `Traces` | `traces.rs` as operators on the router's value | - |
| `Routing` | concurrent exchanges through the router, with clients and servers that keep to the transport's rules, or not | `Traces` |
| `RoutingProofs` | the theorems about `Routing` | `Routing`, `TLAPS` |
| `HttpProxy` | the proxy: a handler per exchange, the router, one recorder per trace, the stop | `Traces`, `Recorder` |
| `ProxyProofs` | the theorems about `HttpProxy` | `HttpProxy`, `TLAPS` |
| `NumberedTraces` | the three steps of `create_next` by captures that share a directory | - |
| `NumberedProofs` | the theorems about `NumberedTraces` | `NumberedTraces`, `TLAPS` |
| `Framing` | the `Builder` of `context/framing.rs` as operators on its state | - |
| `HttpConversation` | a conforming client and server, recorded as the proxy records, and what the validator makes of it: framing, refusals, pairing, BASE-003 and BASE-008 | `Framing` |
| `FramingProofs` | the theorems about `HttpConversation` | `HttpConversation`, `TLAPS` |
| `TraceContext` | what the validator derives from a trace before any check: pairing, lifecycle phases, declarations, the party a finding is held against | - |
| `SessionChecks` | 34 clauses of 2025-11-25 about the course of a session, each the set of positions it finds something at | `TraceContext` |
| `StatelessChecks` | 31 clauses of 2026-07-28, likewise | `SessionChecks` |
| `PartyLog` | a party's own order of a conversation, over which the rules are stated | `TraceContext` |
| `SessionRules`, `StatelessRules` | what a party may send after its log, and which clauses it breaks by sending it: the specification the checks are compared with | `PartyLog` |
| `Conversation` | a client and a server, the recorder between them, and the verdict on what it recorded so far | the checks and the rules |
| `Bridge` | the bridge's handlers, routes (its streams a set, each with its place in the order of opening), writer, grace and stop, among suites and servers | - |
| `Tap` | the tap: exchanges, places, channel, writer, among clients and a service | - |
| `TapProofs` | the theorems about `Tap` | `Tap`, `TLAPS` |
| `BridgeProofs` | the theorems about `Bridge` | `Bridge`, `TLAPS` |
| `MC*` | instances for TLC | the module each is named after |

How the state corresponds to the code:

* **A lock hold is a step.** `Recorder` and `Traces` are guarded by one mutex
  each; the state a method computes under it is an operator, and the action of
  the caller applies it atomically. Two consecutive lock holds of one handler are
  two actions.
* **An await is a boundary.** A handler's or a pump's phase is the await it
  stands at; `select!` is a disjunction of the branches that are ready.
  `StdioCapture.main.phase` names each wait of `ending.rs`: `session` and
  `clientDone` are `wait_for_end`, `stopping` and `reaping` are `stop_server`,
  `joining` the abort of the client's relay, `draining`, `drainStop`, `drainKill`
  and `afterKill` are `drain`, then `closing`, `finishing`, `finished`. In `Bridge`
  and `Tap` `exchange[e].step` is the same; a handler whose client leaves is dropped
  where it stands (`Leave`, `Abandon`), with whatever it had done so far done.
* **A message is a name.** In `StdioCapture` a message is one or two pieces, so
  that reads, writes, closes and exits fall inside one; its text is left out. A
  pump keeps the pieces it read and has not yet forwarded (`chunk`) and those it
  has not yet recorded (`lines`); a line is recorded up to the piece that completes it. In
  `HttpProxy` a body is what can be told apart (a message, unreadable, empty,
  too long, gone, stalled, cut). In `HttpConversation` an event is named by its
  exchange and part, so the truth a framing claim is compared with is in the
  name itself. In `Conversation` a message is a record of what the clauses tell
  apart: kind, method, id, token, and the few members of params or result that a
  clause reads.
* **Three orders of one conversation.** `log[p]` is party *p*'s order of what it
  sent and read, `trace` the recorder's. Over stdio each direction stays in order;
  over HTTP each of the client's messages is a POST of its own, and the server's
  are in order per stream. A rule reads a log and says what the party *did*; a
  check reads the trace and says what the party is *charged with*. `verdict` is
  recomputed from the code's definitions with each message recorded, `broken`
  grows with the rules. Rules that no recording can show broken mark the breach
  *unseen*.
* **The recorder's sink.** `lines` is what a reader of the file would find,
  `held` what sits in the `BufWriter`; `torn` says the file ends in a fragment.
* **The tap's places.** `writer.waiting[f]` is the writer's queue for a file,
  `writer.places` the reservations it knows open, `channel` the commands on their
  way, `releases` the tasks a dropped reservation leaves to release its place.
* **The wrapper behind the bridge** is `StdioCapture`'s, and appears in `Bridge` by
  its promises: a request to stop ends the server (`StopIsServed`), and the
  server's end closes the pipes.
* **The environment** - clients, servers, upstreams, users, kernels, signals - is
  nondeterministic. A record of `Settings` or `Setups` says what it may do in
  one family of behaviours; the initial state picks one.

Definitions whose comment begins with *Mutant* are deliberately wrong variants of
the definition that follows them. No specification uses them. They document that
each property notices the bug it is there for: with the mutant in place of the
definition, TLC finds the property violated under the same configuration.

## 3. What is checked

Twelve runs, each up to about three minutes on two workers.

| run | question | properties | answer |
|---|---|---|---|
| `recorder` | two tasks' worth of events in every order to every sink, with failing and torn writes, a close, a finish before or after it, drop, kill | `AckedAreKept` `Accounting` `CompleteIsWhole` `ImplementsTraceLog` | hold |
| `stdio` | a session with traffic, one message cut in two, pipes that fill, a failing trace file, a stop, a kill, and every way a session ends | `CausalOrder` `ImplementsWiretap` `EndedSessionIsWhole` `ClientCloseIsClean` `StopClosesFirst` `UntapedIsCounted` | hold |
| `stdio_stops` | two requests to stop, over launchers, quiet helpers and daemons, with a client that leaves or stalls | `PipesReleased`; liveness `StopIsServed` `SessionEnds` | hold |
| `routing` | three concurrent exchanges, four requests, two ids older than the proxy | `SessionsKeepTheirTrace` `UnseenIsNotCurrent` `FilesAreNotPerInventedId` `KnownIdsDoNotMove` | hold |
| `proxy` | two concurrent exchanges: a session's life with failing files; a session begun during a stop, once in files that fail; every body, with a stop; streams, with two | `StoryIsTold` `TracesEndAtStop` `MessageBesideItsHeaders` `CausalOrder` | hold |
| `numbered` | a proxy and a repeated launch in one directory, with two deletions | `OneHolder` `SessionsAscend` `ReadsInOrder` | hold |
| `framing` | is every claim of the framing true, and does it claim all it can? | `PostsAreTrue` `ExchangesAreTrue` `RefusedIsRefused` `OrderlyIsSettled` | hold |
| `judge` | is a party convicted only of what it did, always of what it demonstrably did, and for good? 65 clauses in 41 settings of conforming and faulty parties | `NoFalseConviction` `DeviationsAreConvicted` `FindingsStand` | hold |
| `judge_crossing` | ... when a task is cancelled while its creation crosses on the wire? | `NoFalseConviction` | **violated** |
| `tap` | three overlapping exchanges and the writer, with sessions that begin and end, streams, bodies past the cap, clients that leave, writes that fail | `ObservationOrder` `HeldForTheLiving` `RecordedOnce` `SessionsKeepTheirTrace` | hold |
| `bridge` | up to three exchanges with one server or two: traffic, batches, long lines, departures, exits, DELETEs, a stop | `RoutedOnce` `AnswersKeepTheirStream` `LinesAreWhole`; liveness `StreamsEnd` `DeleteStopsServer` | hold |
| `bridge_stop` | does a stop end every session it waits for? | `StopEndsEverySession` | **violated** |

The type invariants (`TypeOK`), and `SeqIsPlace`, `CloseIsLast` and `OnlyDeleteForgets`
of the proved modules, are in no configuration: theorems state those of the
proved modules, and the others were checked while the modules were written.

What three of the answers mean:

* **`judge`.** A *conviction* is a finding of a check at a position of the
  recording, held against a party. `NoFalseConviction` says that the party had, by its own order
  of what it sent and read, broken that clause with that message or an earlier one.
  `DeviationsAreConvicted` says that a party that broke a clause, in a way a reader
  of any recording could tell, is convicted of it once the conversation is
  recorded. `FindingsStand` says that a finding is not taken back when the
  recording goes on, except the kinds named in `Provisional`: LIFE-003 while the
  handshake is pending, and the server's LOG-008 and PAGE-003, which a later
  message can excuse. The rules are not the checks again: they are stated over a
  party's log, of which the checks know nothing, and each of the 65 clauses is
  convicted in some reachable state.
* **`bridge`.** `AnswersKeepTheirStream` is about POSTs whose client stays. The
  liveness properties say that no client waits on a stream nobody will write to,
  and that a DELETE whose client waits ends the server when it reads its input.
* **`tap`.** `HeldForTheLiving` is why a client that leaves at any await cannot
  make every later record of the stateless trace wait in memory for ever.

### 3.1 Disagreements with the repository's own words

Two are checked, each by a run that expects the violation:

1. `judge_crossing`: CANC-020 convicts every `notifications/cancelled` recorded
   after the task result of the request it names
   (`checks/basic_utilities/cancellation.rs:224`), although the module says that a
   cancellation that crosses the answer is conforming and not judged (`:62-65`).
   Over either transport the client may have sent it before it read the answer.
2. `bridge_stop`: `stop()` drains the map of sessions before it takes their
   relays (`bridge.rs:153`). A session whose initialize hands over its relay before and
   enters the map after is waited for, and never told to end, although `stop` is said
   to end every session as a DELETE would (`:145`). A DELETE whose client leaves
   while it waits for the writer leaves such a session too.

Those below came up while translating; no run claims them. The actions that show
them are in the models, and the properties name the case and say what still holds in it.

* *Recorder and capture.* `finish` takes the first error out of the recorder, and a
  session begun after `close_all` is not closed, though `traces.rs:216` says that it
  is not recorded, so its handler can write again
  behind the fragment of a failed write: two lines become one unreadable one
  (`recorder.rs:319` against `:57`). When the relay of the server's output ends
  first, `drain` returns before the deadline and nothing kills the group
  (`stdio/ending.rs:159` against `stdio.rs:290-292`). For a DELETE answered 2xx the proxy ends
  the session and then reports the answer as a success, so an id unseen before is
  known again (`traces.rs:180` against `:19-20`).
* *HTTP framing.* A recorded abort after a recorded status removes an exchange that is
  still waiting, and a later status goes to the wrong one (`framing.rs:292` against
  `:284-286`). When two requests overlap and one is refused, the refusal is
  attributed to nobody, its own body is read as a message and the conforming
  repetition of its request as a second use of the id (`refusal.rs:67` against
  `framing.rs:21-22`).
* *Tap.* A request whose handler is dropped before its answer is in no trace
  (`tap/files.rs:83` against `tap.rs:21` and `:39`). A write that fails spends no `seq`, "so a
  failed write leaves no gap" (`tap/writer.rs:160-161`), but the lines and the fragment it wrote
  stay in the file (`Parts`): the lines' `seq` are given out again, and the next line
  runs on from the fragment. In the model a record keeps its own lines, so this last effect,
  which spoils the line behind a fragment, is not shown; the order of what is in a file is
  checked and proved with such parts in it, and that a trace is whole only where no write
  fails (`RecordedOnce`).
* *Checks of 2025-11-25.* A server's ping or logging before `initialized` is on its way
  convicts the client of LIFE-001 (`lifecycle.rs:54` against `:38-40`). Over HTTP,
  where each of the client's messages is a POST of its own: CANC-018
  (`cancellation.rs:106` against `:257-258`) and PROG-011 (`progress.rs:152` against
  `lifetime.rs:284-287`) convict by an order neither party knew; so do LIFE-001 when POSTs
  overtake the initialize, and ELIC-014 when the completion overtakes the -32042. An
  outstanding id that a client takes again is charged to the server as BASE-004 or
  BASE-046. Progress recorded behind a new request with its token counts for the
  new one (PROG-011, PROG-003). PAGE-003 walks exchanges in the order of requests,
  so a later exchange can excuse an earlier cursor.
* *Checks of 2026-07-28.* DISC-001 looks for an id in the whole trace
  (`discovery.rs:62-71`, `:97` against `:44-46`). MRTR-019 convicts a retry that takes
  the freed id of another, interchangeable round's request
  (`pairing.rs:207-209` against `:20-24`). VERS-002 convicts a request that was
  pipelined before the -32022 was read (`versioning.rs:95-125`). TRAN-124 resolves a
  progress token to the first id in text order (`transport/stdio.rs`).
* *Bridge.* An answer whose client has left, and whose stream was pruned by a
  message of the server's own, goes to another stream (`bridge/session.rs:163` and `:129-143` against `:10-11`).
  A DELETE behind a POST stuck in its write never starts the grace (`bridge.rs:278`
  against `:14-16`). A POST whose client leaves in mid-write leaves a fragment the
  next line is glued to (`bridge.rs:11-13`).

Smaller differences: a line held in the buffer when a flush fails is counted as
recorded (`recorder.rs:329` against `:88` and `:299-300`); `is_complete` ignores
oversized lines (`recorder.rs:150` against `:147`); a client that closes while the
server's exit is being handled is not told apart (`stdio/ending.rs:60` against
`:37`); an unseen id's answer may give two sessions one trace (`traces.rs:191`
against `:117`, `:14-16`); a session begun during the stop is not closed
(`traces.rs:220` against `:216`); the numbers of a proxy may have gaps where the
search skips other captures' files (`numbered.rs:11-13`); one event over the budget
is counted once per read (`http/relay.rs:355-359` against `http.rs:241-242`); a
client that leaves in the middle of an oversized body is counted as an upstream
failure.

### 3.2 Bounds, and why they are enough

* `recorder`: five offers of three kinds of event (an initialize, headers with a
  session id, a message too long) and a close. Every ordering of a success, a
  whole failure, a torn failure, a refusal, a close, a finish (before the close or
  after it, with writes behind either), a drop and a kill fits in five offers, and the proofs do away with the bound.
* `stdio`: two requests, a notification and a response each, with pipes of one
  piece, and one request with pipes of two. A pump reads any prefix of what is there, so two pieces give a read in
  the middle of a message, two messages in a read, and a full pipe. The server has
  a leader and one other process, which covers the four relations of a process to
  the group and the pipes that the code distinguishes.
* `stdio_stops` has no traffic but the server's notification: the waits of
  `ending.rs` depend on who is alive and who holds a pipe, not on what is sent.
  Two requests to stop are all the code distinguishes; the launcher has both, the other
  processes one.
* `routing`: three handlers are needed for a route, an accept and an end to be
  in progress at once; two strange ids for two acceptances of one trace; four
  requests let all of it happen.
* `proxy`: two handlers, because what the traces relate is at most a pair of
  exchanges; one SSE event per stream. Five settings, because the kinds of
  bodies, the sessions and the streams meet only in the router, which `routing`
  covers. Files fail in the setting of sessions; a stop falls in the other four,
  in two of them while a session begins, so that the traces it collected and the
  traces there are differ, and in one of these the files fail as well.
* `numbered`: numbers up to 4 (the code's 999 999), any files to begin with, two
  deletions: a remembered number can be below, at and above the listed highest,
  and the search can run off the end.
* `framing`: three exchanges: two that overlap, and a third that is misled.
  Five settings: every body and every answer, with headers and body recorded
  together or apart; answers that are one body or none; messages without their
  headers; and two POSTs whose streams the upstream may cut.
* `judge`: a setting names the messages of each party, the transport and the
  revision. Four or five messages beyond the greeting when one is read before the next is sent,
  three or four when they cross, one fewer again for 2026-07-28 over HTTP: a request, its
  answer and what refers to either is what any of the clauses relates, and the orderly
  settings have one message more of another actor. Every clause is broken and found in
  some setting. Settings in which messages cross have conforming parties or
  one fault; orderly settings have two or three faults, so that one can hide another.
* `tap`: three exchanges, two ids, a channel of two, one frame per stream. A place
  needs one exchange behind it and one ahead; a full channel needs two commands.
  Six settings: sessions that begin and end, streams (two exchanges at a time), bodies past the cap,
  clients that leave, and two of writes that fail and leave any part of the record: two
  exchanges whose records have two lines, three whose records have one.
* `bridge`: three exchanges, two sessions, room for one piece of a line in the
  pipe, one message that may wait for a stream. An initialize and two
  exchanges that race it or each other: streams of POSTs and a client's own, one that
  replaces another, a DELETE; lines of two pieces block
  in the middle. Ten settings: traffic, clients that leave, servers that exit, batches, more than may wait, long lines,
  DELETEs, a server that stalls, a stop.

Actions are bounded by guards on named constants (`MaxOffered`, `Requests`,
`MaxRequests`, `MaxEvents`, `MaxClaims`, `MaxDeletes`, `MaxExchanges`, `MaxSessions`,
`MaxFrames`) or on the fields of a setting (`requests`, `stops`, `signals`, `room`,
`exchanges`, `notices`). `CHECK_DEADLOCK FALSE` is said in every configuration:
each of these programs ends, and so do bounded environments. That they do not
end too early is what the liveness properties say.

Symmetry is used for handlers, exchanges and ids, only in runs whose
specifications have no fairness.

### 3.3 Fairness

`StdioCapture!FairSpec` assumes weak fairness of the main task's step, of each
pump's step, and of the client's receiving what it is sent. The first two are the
runtime: it polls a task whose future is ready, and a timer that was set fires;
deadlines are actions that are enabled from the moment the wait begins, so they
may fire before or after anything else. The third is the client's part of the
contract and is switched off by the mishaps *client stalls* and *client leaves*.
Nothing is assumed of the server's processes, of users or of signals: the server
may never exit, never read and never write. Under this `StopIsServed` says that
no wait after a request to stop is unbounded.

`Bridge!FairSpec` assumes weak fairness of each handler's step, of the grace's
timer, of the relay's reading the end of a server that has exited, of the steps of `stop`,
and of the exit of a server once its grace is over, which is the wrapper's `StopIsServed`.
It assumes that a server reads its input, except in the setting *stall*. Nothing is
assumed of a server's answering or exiting, nor of a client's leaving.

For the proxy and the tap only safety is stated: the proxy's main task waits for no handler
after a stop that it does not bound by the grace period, and the tap's writer waits for
nothing but the channel, so termination in the models would repeat the guards.

## 4. What is proved

`RecorderProofs` proves for `RecorderTasks`, for every set of session ids and
events that satisfies `RecorderAssumption` and every `MaxOffered`:

| theorem | statement |
|---|---|
| `Invariance` | `Spec => []IInv` |
| `TypeCorrect` | `Spec => []TypeOK` |
| `SeqIsAlwaysPlace` | `Spec => []SeqIsPlace` |
| `AckedStay` | `Spec => []AckedAreKept` |
| `CloseStaysLast` | `Spec => []CloseIsLast` |
| `EveryEventIsCounted` | `Spec => []Accounting` |
| `ReportedCompleteIsWhole` | `Spec => []CompleteIsWhole` |
| `NothingFollowsALoss` | `Spec => NothingBehindALoss`, an action property |
| `Refinement` | `Spec => ImplementsTraceLog` |

None of the safety properties is inductive: they speak of the file, the summary
and what callers were told, and what the next write does to those depends on the
sink. The invariant `IInv` adds, while the process lives, a *ledger*: the file has
exactly `nextSeq` lines, the acknowledged events are those lines one for one,
whatever the sink still holds is at most the one whole line that could not be
flushed, it carries the next number, an open and healthy recorder holds nothing
and ends in no fragment, and the offers are the sum of the four ways an event can
go. It adds that the close is in the file last, or not in the file as long as the
recorder is open or holds a line (`CloseOnly`), and that what a summary reported
stays true of the recorder in the stages after it (`Running`, `Finished`, `Dropped`).
The proof takes each operator of `Recorder` once, in a lemma that says what it
keeps of the ledger (`WriteKeepsLedger`, `WriteKeepsClose`, `CloseKeeps`,
`FinishEffect`, `DrainedLines`, `InterruptedLines`), and each action of
`RecorderTasks` once, from those lemmas. The refinement follows from a second
lemma per action (`...Effect`): what is promised grows at its end, and not once sealed.

The main task may finish a trace whether or not somebody closed it. A run finishes
what it has closed, and so does the proxy, but for the sessions that began while it
stopped (`traces.rs:220`), whose handlers still record. `finish` takes the first error
out of the recorder, so if such a trace had failed, its recorder is healthy again and
the next line goes behind the fragment, or behind an event that was dropped. The model
has these steps, and the theorems say what they leave of the promise: `Lapsed` names
the traces that were not closed when `finish` reported their failure, and `Kept` is
the file, or of a lapsed trace the lines its summary counts. Of these the numbers, the
acknowledgements, the close and `TraceLog` are proved; what is written behind them is
promised to nobody. `NothingFollowsALoss` says that this is the only way: in every
other trace, finished early or not, no event is numbered behind a lost one. In the
proof the ledger holds until the trace lapses (`WriteStep`, `EndStep`), and from then
on a step only adds lines behind the ones that are kept (`LapsedStep`, from
`WriteExtends` and `InterruptedExtends`). `ReportedCompleteIsWhole` says of a trace that
was reported complete before it was closed only what holds of it: the lines counted
are there and nothing had been dropped. Its recorder still takes events, and the write
that fails later is reported to nobody.

`RoutingProofs` proves for `Routing`, for any ids, handlers and number of
requests, and whether or not clients and servers keep to the transport's rules
(`Orderly`):

| theorem | statement |
|---|---|
| `Invariance` | `Spec => []IInv` |
| `TypeCorrect` | `Spec => []TypeOK`: no index the router keeps or a handler carries is out of bounds |
| `UnseenIsNeverCurrent` | `Spec => []UnseenIsNotCurrent` |
| `FilesAreBounded` | `Spec => []FilesAreNotPerInventedId` |
| `KnownIdsStay` | `Spec => KnownIdsDoNotMove`, an action property |
| `OnlyItsDeleteForgets` | `Spec => OnlyDeleteForgets`, an action property |
| `SessionsStay` | `Orderly => (Spec => []SessionsKeepTheirTrace)` |

`FilesAreNotPerInventedId` (sessions are at most initializes, acceptances and two)
is not inductive: nothing in it says that the router opens the trace for ids
nobody accepted only when it has none. `Paid` counts the two free traces only while the
router has them: a session begun is paid for by an initialize or fills one of the
two places, and accepting an id empties a place and counts the acceptance.
`TypeOK` has to know that a handler that was routed carries an index, because the
answer names a session by it. Each operation of `Traces` has one lemma
(`RouteKeeps`, `RespondKeeps`, `EndKeeps`); the two action properties follow from
`StepMoves`, which says of one step whose mapping it may change and to what.

`SessionsStay` needs the rules of the transport (`Orderly`): a server that assigns an
id twice does share a trace. Its invariant `SInv` calls a session *reserved* when the
initialize that began it is in flight or was given an id, and says four things.
`HomesApart`: an id that was assigned has one such session, and no two ids have the
same. `Named`: a client names only what it was given or knew before, the server
assigns only what neither knows. `OwnApart`: the session of an initialize in flight is
no other handler's initialize's, and has no id yet. `ReachedByItsId`: no id but its own
leads to a reserved session, in the router's map, in a route a handler still carries,
or through the trace kept for unaccepted ids. The last is what makes the router's
interleavings harmless: a late answer names the session its route carries, and that is
reserved only if the answer is its own.

`NumberedProofs` proves for `NumberedTraces`, for any captures, any of which are
proxies, any files to begin with and any `MAX_NUMBER`:

| theorem | statement |
|---|---|
| `Invariance` | `Spec => []IInv` |
| `TypeCorrect` | `Spec => []TypeOK` |
| `FilesHaveOneHolder` | `Spec => []OneHolder` |
| `ProxySessionsAscend` | `Spec => []SessionsAscend` |
| `DirectoryReadsInOrder` | `Spec => ReadsInOrder`, an action property |

The strengthening says what the search knows while it runs: it is never behind
what the proxy remembers (`Ahead`), it is past every file that has been there
since the listing (`PastListed`), and what a proxy has used is behind what it
remembers (`UsedIsPast`).

`TapProofs` proves for `Tap`, for any exchanges, ids, capacity of the channel,
number of frames and settings:

| theorem | statement |
|---|---|
| `Invariance` | `Spec => []IInv` |
| `TypeCorrect` | `Spec => []TypeOK` |
| `PlacesAreReleased` | `Spec => []HeldForTheLiving` |
| `OrderInvariance` | `Spec => [](IInv /\ OInv)` |
| `ObservedInOrder` | `Spec => []ObservationOrder` |
| `TraceInvariance` | `Spec => [](IInv /\ OInv /\ SInv)` |
| `TracesAreKept` | `Spec => []SessionsKeepTheirTrace` |
| `RecordInvariance` | `Spec => [](IInv /\ OInv /\ SInv /\ RInv)` |
| `EverythingIsRecordedOnce` | `Spec => []RecordedOnce` |

`HeldForTheLiving` (an open place of the writer belongs to an exchange in progress,
or its fill or release is on the way) is not inductive: it says nothing of a
reservation the writer has not read, which makes a place when it does. `Promised`
speaks of both: who has a place, or a reservation in the channel, is spoken for by
the handler that holds it, by the task that will release it, or by a fill in the
channel. So that a fill is never read before its reservation, `ReserveFirst` says
that the reservation is the first the channel carries about an exchange, and
`Unreserved` that before it there is nothing. `SlotsKnown` ties the slots of the
queues to the places, `HeadsOpen` says that no queue is held back by a place that is
filled, and `Commanded` what a command may be about. Steps that send nothing share the lemma `Moves`, steps that send
one command `Sending`, and the writer has a lemma per command.

The order of a trace is an invariant of the *row* of its file: what is on the disk, then
what waits for it in the writer, then what the channel has for it. An event is `At` a
place of that row: where it is spoken of, or where an open place stands for it. The
writer moves the ends of the three parts, but what it takes keeps its place in the row or
moves up together with all behind it (`RowMoves`), and an exchange adds at the row's end only
(`RowGrows`). So `OInv` needs to say only what is true of a row when something is added to it:
nobody knows of what has not been sent (`KnownSent`), what is in a row was sent (`Located`),
what was known before is before it in every row (`Ordered`), and nothing is in a row twice
(`Once`). What moves from the stateless row to a session's is the hard case: the place is
given up before the request is sent again, and nothing of the session can be in its row by
then (`AtHome`), because whoever names a session learnt of it from the answer of the one
exchange it was assigned to (`Founded`, `LearntFrom`).

`SInv` is about which row that is. An exchange's trace (`TraceOf`) depends on which other
exchanges there were, so it is shown to change no more once the exchange is settled
(`TraceKeeps`); `Filed` says that by then the exchange has it, `AllOwned` that every record,
wherever it is, is that of one event of an exchange whose trace it is in, and `Firsts` that
a session's file, or the channel when the file is still empty, begins with the request that
began the session. For a request that names a session, the hard part is that the session's
trace was begun before (`AnswersFiled`, `UsedStarted`).

`RInv` is about what is not lost. A place has one word on it, whoever has it (`OneWord`), and
the writer has the place, or its reservation is in the channel, as long as the word is out
(`Placed`): so no fill comes to a place that is not there, the case `HandleFill` ignores.
A place the writer knows is a slot of the queue (`PlacesWait`) that has nothing in it yet
(`OpenEmpty`), so filling it overwrites nothing. With that, what an exchange has recorded is
on the disk, in the writer or in the channel (`AllRecorded`) as long as no write fails.
What a failed write leaves is a `Piece` of its record: it tells of nothing that the record
does not, which is all that the order and the ownership of records need.
When all is still the writer has no places, so its queues are empty and what it held is on
the disk (`NothingWaits`). All three rest on two conventions of the model that
`TapAssumption` names: the traces of no session have names that are no session's ids, as
`TraceKey` tells them apart (tap/files.rs:13-22), and a file is the sequence of records
written to it.

`StdioProofs` proves for `StdioCapture`, for any sessions considered (processes, groups,
holders of the pipes, mishaps), any number of requests and of requests to stop, and any
room in the pipes:

| theorem | statement |
|---|---|
| `Invariance` | `Spec => []PInv` |
| `TypeCorrect` | `Spec => []TypeOK` |
| `StopReleasesPipes` | `Spec => []PipesReleased` |
| `StopsCloseFirst` | `Spec => []StopClosesFirst` |
| `ClientClosesAreClean` | `Spec => []ClientCloseIsClean` |
| `CausesAreRecordedFirst` | `Spec => []CausalOrder` |
| `SessionsEndWhole` | `Spec => []EndedSessionIsWhole` |
| `CountedInvariance` | `Spec => []Counted` |
| `WhatIsUntapedIsCounted` | `Spec => UntapedIsCounted` |
| `WatchInvariance` | `Spec => []WInv` |
| `WiretapIsImplemented` | `Spec => ImplementsWiretap` |

None of these properties is inductive. The invariants speak of the file and of what was given,
and `PInv` says what leads there, in three layers. *Control*: `PhasesAgree` says in
which phases of the main task a stop has been asked for and which pumps run,
`PumpsAgree` that a pump which is done came to the end of its input and wrote all of it
and why one failed or was aborted, `DrainAgrees` what the end of the drain says of the
processes: without a stop the output relay ended by itself, with one the group no longer
holds the pipes or the client has gone. *Data*: `Flows` says that what a pump holds and
what is in its pipe are the pieces of what was sent and not yet given, in order (`Flow`,
a rank for each piece), until the pump is stopped; `InTurn` and `NothingEarly` that
nothing is on its way or on the tape before its sender began it. *The recorder*: `Closing`
says who closes the trace and when, that a sink which holds a line has counted a loss,
and that the run reports it; `RecordFirst` that what a pump hands on is recorded, or waits
in `lines`, or was counted. `CausalOrder` needs all three: a message is begun after its
cause was given, so the cause is on the tape (`RecordFirst`) when the message is not
(`NothingEarly`), and stays ahead of it (`Ordered`). As for the proxy, the recorder is seen
through its *tape* (`Wrote`, `Closed`, `Rested`). A step of a pump, of the main task or
of the environment is first put as what it leaves of the variables (`PumpGoes`,
`MainGoes`, `WorldGoes`), and each part of `PInv` has one lemma for each of the three.

`UntapedIsCounted` compares the number of messages that were handed on without a line
with four counters of three owners: the recorder's two, and the one of each pump. `PInv`
says of a single message that it is on the tape or that something was lost, never how
much. `Counted` does: there is a finite set of messages, no more of them than the
counters say together (`Covers`), such that whatever a side was given, and whatever a
pump has taken of its chunk, is in that set or has a line (`Handed`). The set is the
history the counters have no memory of; when a pump takes a message, either the file has a
line of it after the step, or one counter has grown by one and the message joins the set
(`RecordCounts` for the recorder: after the close, after a failure, at a failing write;
`Noted` for the pump's own). Nothing else lowers a counter or takes a line from the file
(`MainKeepsLines`: the flush of `finish` and the drop at the exit included), and a close
event whose write failed only makes the right side larger. (TLC was asked first, on the
sessions of `stdio`, whether `Counted` holds.)

That the capture implements `Wiretap` rests on another invariant, `WInv`, proved on top
of `PInv`. `RecordFirst` says that what is handed on was recorded; the wiretap also
promises that a line taken down is the next of its sender that may not be left out, is
complete, and is taken down once. `Cursor` says where a pump is in what its sender
completed: what it still has to record (`lines`) and what is in its pipe are the pieces
of `sent` from place c on, the file has every recordable message up to c, unless the tape
takes no more, and none behind c (`Caught`). A line recorded moves c by one (`NextLine`), because
the pieces of a message come one after the other wherever a read cut them (`Unbroken`:
what a pump has stops short only if the rest is the first in the pipe, or the first its
sender will write), and it stays true because no message is sent twice (`Apart`). What
the file has of a direction was completed by its sender, or is the fragment a stream
ended with, after which that pump records nothing (`Filed`). A sink that failed may hold
one line and write it when the wrapper exits: `HeldFits` says that this line is still one
the wiretap would take down then, since the tape was sealed when it failed. `MainWrites`,
`RecordsNote` and `Speaks` say what the main task, a pump and a sender do to the file and
to `sent`; `StepTaps` then gives for each step the action of `Wiretap` it is
(`MarkSteps`, `RecordSteps`, `WritesStep`, `SpeaksStep`), or none (`QuietSteps`).

`ProxyProofs` proves for `HttpProxy`, for any handlers, ids, frames of a stream and
settings:

| theorem | statement |
|---|---|
| `Invariance` | `Spec => [](PInv /\ TInv)` |
| `TypeCorrect` | `Spec => []TypeOK` |
| `MessagesStayBeside` | `Spec => []MessageBesideItsHeaders` |
| `CausesComeFirst` | `Spec => []CausalOrder` |
| `TracesEnd` | `Spec => []TracesEndAtStop` |
| `EveryStoryIsTold` | `Spec => []StoryIsTold` |

The proof looks at a recorder's *tape*: the lines of its file and then the lines its
sink still holds. `Given` says what every operation of `Recorder` does to it: the tape
grows by the line of the event, or stays as it is and never grows again, and a counter
says so. `PInv` then has two halves. Of each tape, `Kept`: a message is behind its own
headers (`Beside`), and an answer that was relayed is ahead of the requests sent after
(`Ordered`); the second is inductive only together with `Behaves`, which ties what a
handler is doing to what of it is on a tape: nothing before it has read its body, its
own trace once it has recorded, nothing more of the answer once that was relayed. Of
the stop, `Closing`: a closed trace is one that the stop collected, and its tape ends in
the event of the stop. That every handler which recorded has a trace within range
(`RoutesTo`) comes from the router's `Indexed`.

`StoryIsTold` compares the lines of an exchange with what they should say, so it is
stated with positions: the line of h at position i has a rank among the lines of h, and
says what the story says at that rank (`Recounts`). `TInv` says it of every state the
exchange passes through: `Said` is what a handler in its phase has given its recorder,
and `Tells` that the tape of its own trace recounts `Said`, all of it unless a write was
lost, and that no other tape has a line of h. Every step that records extends `Said` by
what it records (`Recites`), and `GivenTells` and `GivenLeaves` carry the ranks through
one event, of h or of another handler. A sink that has failed takes no more, so what is
lost is an end of the story and never its middle, with one exception which the proof
found and TLC then confirmed. `finish` hands the failure over and keeps none
(`failed.take()`, `recorder.rs:319`), and the stop also finishes the recorders of
sessions that began after `close_all` had collected those it closes. If the file of such
a session failed, a handler still running writes behind the gap, and its trace has the
end of a story without the middle, although the recorder announced that events from the
lost one on are not recorded (`recorder.rs:300`). `Lapsed` names just these traces, all of which count
what they lost; of their exchanges `StoryIsTold` says only that no other trace has a line.
The setting `StoppedFailing` reaches them: without `Lapsed` the property is violated there.

`FramingProofs` proves for `HttpConversation`, for any number of exchanges and any
settings:

| theorem | statement |
|---|---|
| `TypeCorrect` | `Spec => []TypeOK` |
| `PostsTrue` | `Spec => []PostsAreTrue` |
| `ExchangesTrue` | `Spec => [](Uncut => ExchangesAreTrue)` |
| `RefusedTrue` | `Spec => [](Uncut => RefusedIsRefused)` |

The two kinds of claim rest on different facts. A message is paired with headers by
their place in a queue, and `PInv` says why that is right: `open_bodies` counts at least
the exchanges whose headers are recorded and whose message is not (`Counted`); as long
as no two of them overlapped, the place of one is behind every other place that still
has a body to come (`Behind`); and a place carries nothing but its own exchange's message
and id (`OwnPlaces`). A status is attributed by elimination, and `EInv` says why
nothing else is left: there are at least as many places as exchanges without an answer
(`PlacesSuffice`), a place that nothing has tainted is that of an exchange still waiting
(`Untainted`), an id is in use by one exchange that was not refused (`OwnIds`), and its
registration is that exchange's (`Registration`). An abort takes away a place whose
exchange may still be waiting, so `EInv` is stated of settings that cut no stream
(`Uncut`), and of recordings without the requests' headers (`partial`) only those that
hold no streams: of settings with cuts the claims are false, and 3.1 says how. A partial
recording with streams breaks `ExchangesAreTrue` in TLC within six steps, so the
theorems leave it out too.

`BridgeProofs` proves for `Bridge`, for any number of exchanges and sessions, any room
in the pipe and any settings:

| theorem | statement |
|---|---|
| `Invariance` | `Spec => []IInv` |
| `LinesNeverMix` | `Spec => []LinesAreWhole` |
| `RoutesInvariance` | `Spec => []RInv` |
| `RoutedOnceHolds` | `Spec => []RoutedOnce` |
| `AnswersStay` | `Spec => []AnswersKeepTheirStream` |

`LinesAreWhole` (a line that a server cannot read holds a part of one whose client left
in the middle) is not inductive: it looks at lines that have been read, and what makes
it true is the lock under which they were written. `IInv` speaks of `Unread(s)`, the
server's unfinished line followed by what is in its pipe. `PartsFollow` says that a part
which does not begin a line is behind the part before it, `LinesFollow` and
`LastIsWritten` that a line which stops short belongs to a client that left, or is being
written and is the last; `OneWriter` is the lock, and `WriterIsLast` says that nobody
writes behind its holder. A handler lets go of the writer when its line is complete, when the
server's input has ended (nothing is read after that), or when its client left and the
future is dropped with the guard: the last is the exception the property makes. Steps that neither write nor read share the
lemmas `NothingWritten` and `NothingEnds`, `WriteKeeps` appends a part, `ReadKeeps`
takes one, and `LineEnds` says what a finished line is.

The two properties of the routes rest on a second invariant, `RInv`, proved on top of
`IInv`. They say of a line that it is in one place; `RInv` says why it could not come
twice. A request is answered once: the end of its line is read once (`PartsOnce`: no
part is in the pipe twice, and a last part in the pipe belongs to requests that are
neither owed nor answered), what a server owes was asked in whole by the session's
exchanges (`OwedAreAsked`) and has not been answered (`OwedOnce`), and its own words are
numbered (`NoticesAreNumbered`). So a line that is said is new to every server, stream
and queue (`Fresh`), and to route it puts it on one stream, or in the queue, or drops it
for a reason (`Told`). A stream waits for exactly what its POST has not been answered
(`StreamsWait`), a POST whose client waits has its stream as long as something is
missing (`WaitersAreHeld`, `DoneAreAnswered`), and what was answered it has got
(`AnswersAreGot`). Steps that route nothing share `RoutesStand`; `OpenPost` and `OpenGet`
are the two ways a stream opens, the second of which moves the queue to it; `SayingKeeps`
is for both ways a server speaks, with a lemma each for a line that goes to the stream
that waits for it and one that goes to any (`RouteToStream`, `RouteToAny`).

The assumptions are those of the modules and no others: `RecorderAssumption` (the
events are of the recorder's type and the closing one fits in a line) and
`SinkFaultsAssumption`, `RoutingAssumption`, `IdsAssumption`, `NumberedAssumption`,
`StdioAssumption`, `HttpProxyAssumption`, `HttpConversationAssumption`, `TapAssumption`, `BridgeAssumption`
(the types of the constants), `IdsAreExchanges` and `NoSeqIsNoEvent` (names of the model
that stand for nothing in it). TLC evaluates them on every run of those modules.

Only model-checked:

* `Conversation`, and the liveness of `StdioCapture`.
* `OrderlyIsSettled` of the framing: it is stated with `FoldLeft`, and what a recursive
  definition computes for every input needs an induction the provers cannot do.
* The checks and rules of `Conversation`: recursive, over whole recordings.
* Liveness under fairness and `ENABLED`, which the proof system does not treat.
* The two properties that do not hold.

## 5. What is not modelled, and why

* Wording, layout, JSON Schema evaluation, rendering, argument parsing: no state
  and no order; the repository's golden files test them.
* The clauses about the shape of one message (names, schemas, ids, versions,
  `_meta`), about HTTP headers, status codes and closed streams of 2026-07-28, about
  authorization and extensions: each looks at one record, or at one exchange with
  its headers, and holds or not whatever the order. The clauses about the course
  of a conversation are in `SessionChecks` and `StatelessChecks`.
* The URI targeting, header filtering and redirect rewriting of the proxy, TLS and
  pooling, keep-alive: pure functions or libraries. In `HttpProxy` an exchange has
  a connection of its own.
* The observer called by the recorder: made under the same lock and changing
  nothing of it; what an observer does belongs to the live judging.
* Errors of `waitpid` on the wrapper's own child, and reuse of a process group's
  number: the first does not happen, the second is not the program's doing.
* The cancellation of a proxy handler when its client leaves is an action
  (`ClientLeaves`), after which nothing is promised about that exchange.
* Of the tap: the names of files, the choice of headers, the splitting of a stream into
  frames, and a kill of the reference server, which nothing recovers from.
* Of the bridge: refusals that touch no state (a foreign `Host` or `Origin`, unreadable
  bodies, a server that cannot be started), the contents of messages, the trace
  files, which the wrapper writes. That a stream's client is there and the sending of a
  line to it are one step: a client that leaves between the two has left before.
* Everything listed as `not_modelled` in `PROJECT.json`: those parts are sequential
  or printing, or the plan below has not reached them.

## 6. Plan

Done: the recorder, the router and the numbered files, with their proofs; the
stdio capture with its proofs; the proxy and the HTTP framing of the validator, with their proofs; the course of a
conversation as the validator judges it, for both revisions; the bridge; the tap,
with their proofs.

Next, in this order:

1. **The recorder's splitters and budget**: `LineSplitter` and the SSE parser
   against the definition of a line and of an event over every cut of small
   inputs, and the budget concurrent bodies share.
2. **Live judging**: the bounded queue, what is shed, the final judgement from the
   file; the exporter.
3. **The host's loop**, retries and resumption; the workbench's cache.
4. **The reader and the engine**: what of a torn or unreadable trace is judged, and
   how outcomes become a verdict.
5. **Tasks**, subscriptions and pagination of the reference server.

Theorems worth proving next, each for every value of the constants:

* `OrderlyIsSettled` of the framing, which folds a sequence (`FoldLeft`), of which the
  provers know nothing. Stated with positions instead, as `StoryIsTold` of the proxy is,
  it would be an invariant like the ones above.
* The same form for the lines of `TraceLog`, on which `Conversation` and the framing
  both rest.

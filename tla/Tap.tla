--------------------------------- MODULE Tap ---------------------------------
(***************************************************************************)
(* The reference server's session tap (mcp-everything-server, tap.rs,      *)
(* tap/files.rs, tap/writer.rs): a middleware that records every exchange  *)
(* in the trace of its session through a bounded channel to one writer.    *)
(* A request that names no session may turn out to begin one, so it holds  *)
(* a place in the stateless trace until its response tells; what is        *)
(* recorded behind an open place waits for it in the writer's memory.      *)
(*                                                                         *)
(* The client and the service are the environment.  An exchange whose      *)
(* client leaves is dropped at the await it is at.  File names, headers    *)
(* and what makes a frame's payload readable are left out; the writer is   *)
(* taken to live as long as its exchanges.                                 *)
(***************************************************************************)
EXTENDS Integers, Sequences, FiniteSets, SequencesExt

CONSTANTS
    Exchanges,    \* exchanges, each made once
    Ids,          \* session ids the service may assign
    NoId,
    Capacity,     \* CHANNEL_CAPACITY
    MaxFrames,    \* bound: frames of one event stream
    Settings      \* the servers considered, see Setting below

\* What a request names, and what it carries: a message, nothing, or a body
\* past the recording cap or cut off.
Names   == {"nothing", "session", "invented"}
Carries == {"message", "nothing", "large"}

\* A body that is a message, none the tap records, a stream, or a DELETE's 2xx.
Answers == {"message", "unrecorded", "stream", "deleted"}

\* What exchanges name and carry, what the service answers, how many exchanges
\* there are at most, whether clients leave and writes fail.
Setting == [names: SUBSET Names, carries: SUBSET Carries, answers: SUBSET Answers,
            exchanges: Nat, abandons: BOOLEAN, failures: BOOLEAN]

\* The traces that are no session's.
Stateless  == "stateless"
Unassigned == "unassigned"

\* A TraceKey tells the two from a session's, whatever its id.
ASSUME TapAssumption ==
    /\ NoId \notin Ids /\ Stateless \notin Ids /\ Unassigned \notin Ids
    /\ Capacity \in Nat \ {0} /\ MaxFrames \in Nat
    /\ Settings \subseteq Setting

VARIABLES
    setting,     \* which of Settings this server is
    exchange,    \* what each exchange is doing
    files,       \* Tap::files: the sessions that have a trace
    channel,     \* the commands on their way to the writer
    releases,    \* the tasks that release a place once the channel has room
    writer,      \* what waits for each file, and the open places
    disk,        \* the records of each trace file, each a sequence of lines
    heard,       \* history: the events the service knows of
    told,        \* history: the events the client knows of
    past         \* history: <<u, v>> when v's party knew of u

vars == <<setting, exchange, files, channel, releases, writer, disk, heard, told, past>>

Files == Ids \union {Stateless, Unassigned}

Steps == {"idle", "read", "passing", "recording", "reserving", "serving", "giving", "moving",
          "settling", "answered", "streaming", "framing", "done", "gone"}

Idle == [step |-> "idle", names |-> "nothing", id |-> NoId, carries |-> "nothing",
         answer |-> "unrecorded", file |-> Stateless, frames |-> 0]

\* An event of an exchange: its request, its answer, a frame of its stream.
RequestOf(e)  == <<e, 0>>
AnswerOf(e)   == <<e, 1>>
FrameOf(e, n) == <<e, n + 1>>

Line(e, part, what) == [event |-> <<e, part>>, what |-> what]

\* request_events: the request's HTTP event and the message it carried.
RequestLines(e) ==
    <<Line(e, 0, "http")>> \o (IF exchange[e].carries = "message" THEN <<Line(e, 0, "message")>> ELSE <<>>)

\* record_response: a DELETE's success is the transport's close.
AnswerLines(e) ==
    <<Line(e, 1, "http")>>
    \o (CASE exchange[e].answer = "message" -> <<Line(e, 1, "message")>>
          [] exchange[e].answer = "deleted" -> <<Line(e, 1, "transport-close")>>
          [] OTHER -> <<>>)

\* One record per frame.
FrameLines(e) == <<Line(e, exchange[e].frames + 1, "message")>>

Write(f, lines) == [kind |-> "write", file |-> f, lines |-> lines, place |-> {}]
Reserve(e)      == [kind |-> "reserve", file |-> Stateless, lines |-> <<>>, place |-> {e}]
Fill(e, lines)  == [kind |-> "fill", file |-> Stateless, lines |-> lines, place |-> {e}]

Init ==
    /\ setting \in Settings
    /\ exchange = [e \in Exchanges |-> Idle]
    /\ files = {} /\ channel = <<>> /\ releases = {}
    /\ writer = [waiting |-> [f \in Files |-> <<>>], places |-> {}]
    /\ disk = [f \in Files |-> <<>>]
    /\ heard = {} /\ told = {} /\ past = {}

-----------------------------------------------------------------------------
HasRoom == Len(channel) < Capacity
Step(e, step) == exchange' = [exchange EXCEPT ![e].step = step]
Past(v) == {p[1] : p \in {q \in past : q[2] = v}}
Knowing(v, known) == past' = past \union {<<u, v>> : u \in known}

\* The ids the service assigned, and those whose response has been delivered.
Assigned == {exchange[e].id : e \in {x \in Exchanges : exchange[x].names = "nothing"}} \ {NoId}
Learnt   == {exchange[e].id : e \in {x \in Exchanges : AnswerOf(x) \in told}} \ {NoId}

\* The client makes a request, and the tap reads its body.
Arrive(e) ==
    /\ exchange[e].step = "idle"
    /\ Cardinality({x \in Exchanges : exchange[x].step # "idle"}) < setting.exchanges
    /\ \E names \in setting.names, carries \in setting.carries :
         \E id \in IF names = "session" THEN Learnt ELSE {NoId} :
            exchange' = [exchange EXCEPT ![e] = [Idle EXCEPT !.names = names, !.id = id, !.carries = carries,
                                                     !.step = IF carries = "large" THEN "passing" ELSE "read"]]
    /\ Knowing(RequestOf(e), told)
    /\ UNCHANGED <<setting, files, channel, releases, writer, disk, heard, told>>

\* A body the tap does not hold is passed through, and so is its answer.
Pass(e) ==
    /\ exchange[e].step = "passing"
    /\ \E id \in IF exchange[e].names = "nothing" THEN {NoId} \union (Ids \ Assigned) ELSE {exchange[e].id} :
         exchange' = [exchange EXCEPT ![e] = [@ EXCEPT !.step = "done", !.id = id]]
    /\ heard' = heard \union Past(RequestOf(e))
    /\ told' = told \union heard' \union {AnswerOf(e)}
    /\ UNCHANGED <<setting, files, channel, releases, writer, disk, past>>

\* Tap::named, or Tap::reserve up to its await.
Observe(e) ==
    /\ exchange[e].step = "read"
    /\ exchange' = [exchange EXCEPT ![e] = [@ EXCEPT
           !.step = IF exchange[e].names = "nothing" THEN "reserving" ELSE "recording",
           !.file = IF exchange[e].names = "nothing" THEN Stateless
                    ELSE IF exchange[e].id \in files THEN exchange[e].id ELSE Unassigned]]
    /\ UNCHANGED <<setting, files, channel, releases, writer, disk, heard, told, past>>

\* The exchange's command enters the channel, once it has room.
Sends(e, from, command) ==
    /\ exchange[e].step = from
    /\ HasRoom
    /\ channel' = Append(channel, command)
    /\ UNCHANGED <<setting, releases, writer, disk, past>>

\* next.run: the service has the request at once.
ThenServe(e) ==
    /\ Step(e, "serving")
    /\ heard' = heard \union {RequestOf(e)} \union Past(RequestOf(e))
    /\ UNCHANGED <<files, told>>

RecordRequest(e) == Sends(e, "recording", Write(exchange[e].file, RequestLines(e))) /\ ThenServe(e)
ReservePlace(e)  == Sends(e, "reserving", Reserve(e)) /\ ThenServe(e)

\* The service answers; a request that named no session may be given one.
Answer(e) ==
    /\ exchange[e].step = "serving"
    /\ \E answer \in setting.answers :
         \E id \in IF exchange[e].names = "nothing" THEN {NoId} \union (Ids \ Assigned) ELSE {exchange[e].id} :
            /\ answer = "deleted" => exchange[e].names = "session" /\ exchange[e].carries = "nothing"
            /\ exchange' = [exchange EXCEPT ![e] = [@ EXCEPT !.answer = answer, !.id = id,
                   !.step = IF exchange[e].names # "nothing" THEN "answered"
                            ELSE IF id # NoId THEN "giving" ELSE "settling"]]
    /\ Knowing(AnswerOf(e), heard)
    /\ UNCHANGED <<setting, files, channel, releases, writer, disk, heard, told>>

\* Mutant: the place in the stateless trace is filled all the same.
GivePlaceUpFilled(e) ==
    /\ Sends(e, "giving", Fill(e, RequestLines(e)))
    /\ files' = files \union {exchange[e].id}
    /\ exchange' = [exchange EXCEPT ![e] = [@ EXCEPT !.step = "moving", !.file = exchange[e].id]]
    /\ UNCHANGED <<heard, told>>

\* Mutant: a session has its trace only once its first exchange is recorded.
GivePlaceUpOnly(e) ==
    /\ Sends(e, "giving", Fill(e, <<>>))
    /\ exchange' = [exchange EXCEPT ![e] = [@ EXCEPT !.step = "moving", !.file = exchange[e].id]]
    /\ UNCHANGED <<files, heard, told>>

\* The request is the first event of the session it began: its place is given
\* up, the session has its trace, and the request moves there.
GivePlaceUp(e) ==
    /\ Sends(e, "giving", Fill(e, <<>>))
    /\ files' = files \union {exchange[e].id}
    /\ exchange' = [exchange EXCEPT ![e] = [@ EXCEPT !.step = "moving", !.file = exchange[e].id]]
    /\ UNCHANGED <<heard, told>>

MoveRequest(e) ==
    /\ Sends(e, "moving", Write(exchange[e].file, RequestLines(e)))
    /\ Step(e, "answered") /\ UNCHANGED <<files, heard, told>>

FillPlace(e) ==
    /\ Sends(e, "settling", Fill(e, RequestLines(e)))
    /\ Step(e, "answered") /\ UNCHANGED <<files, heard, told>>

\* What the client receives, at once, with all it tells of.
Told(v) == told' = told \union {v} \union Past(v)

\* record_response: the answer, or a stream's head, is recorded and returned.
RecordAnswer(e) ==
    /\ Sends(e, "answered", Write(exchange[e].file, AnswerLines(e)))
    /\ Step(e, IF exchange[e].answer = "stream" THEN "streaming" ELSE "done")
    /\ Told(AnswerOf(e)) /\ UNCHANGED <<files, heard>>

\* record_sse: the service emits a frame, which flows on once it is recorded.
Emit(e) ==
    /\ exchange[e].step = "streaming" /\ exchange[e].frames < MaxFrames
    /\ exchange' = [exchange EXCEPT ![e] = [@ EXCEPT !.step = "framing", !.frames = exchange[e].frames + 1]]
    /\ Knowing(FrameOf(e, exchange[e].frames + 1), heard)
    /\ UNCHANGED <<setting, files, channel, releases, writer, disk, heard, told>>

RecordFrame(e) ==
    /\ Sends(e, "framing", Write(exchange[e].file, FrameLines(e)))
    /\ Step(e, "streaming")
    /\ Told(FrameOf(e, exchange[e].frames)) /\ UNCHANGED <<files, heard>>

EndStream(e) ==
    /\ exchange[e].step = "streaming"
    /\ Step(e, "done")
    /\ UNCHANGED <<setting, files, channel, releases, writer, disk, heard, told, past>>

\* An unsettled Reservation.
Holding(x) == x.names = "nothing" /\ x.step \in {"serving", "giving", "settling"}

\* Mutant: an abandoned exchange keeps its place.
AbandonHolding(e) ==
    /\ setting.abandons
    /\ exchange[e].step \notin {"idle", "passing", "done", "gone"}
    /\ Step(e, "gone")
    /\ UNCHANGED <<setting, files, channel, releases, writer, disk, heard, told, past>>

\* The client leaves: the exchange is dropped where it awaits, and a place it
\* holds is released, by a task of its own when the channel is full.
Abandon(e) ==
    /\ setting.abandons
    /\ exchange[e].step \notin {"idle", "passing", "done", "gone"}
    /\ Step(e, "gone")
    /\ IF ~Holding(exchange[e]) THEN UNCHANGED <<channel, releases>>
       ELSE IF HasRoom THEN channel' = Append(channel, Fill(e, <<>>)) /\ UNCHANGED releases
       ELSE releases' = releases \union {e} /\ UNCHANGED channel
    /\ UNCHANGED <<setting, files, writer, disk, heard, told, past>>

Release(e) ==
    /\ e \in releases /\ HasRoom
    /\ channel' = Append(channel, Fill(e, <<>>))
    /\ releases' = releases \ {e}
    /\ UNCHANGED <<setting, exchange, files, writer, disk, heard, told, past>>

-----------------------------------------------------------------------------
(* Writer::handle, tap/writer.rs *)

Ready(lines) == [open |-> {}, lines |-> lines]
Place(e)     == [open |-> {e}, lines |-> <<>>]
IsOpen(slot) == slot.open # {}

\* The first n slots are the records before the first open place.
Free(slots, n) ==
    /\ \A i \in 1 .. n : ~IsOpen(slots[i])
    /\ n < Len(slots) => IsOpen(slots[n + 1])

\* What a write that fails leaves of a record: some of its lines, and perhaps a
\* fragment of the next.  The file goes on right behind it.
Parts(lines) ==
    UNION {{SubSeq(lines, 1, k),
            Append(SubSeq(lines, 1, k), [lines[k + 1] EXCEPT !.what = "fragment"])} :
              k \in 0 .. Len(lines) - 1}

Outcomes(lines) == {lines} \union (IF setting.failures THEN Parts(lines) ELSE {})

\* append: the lines of a record go to the file in one write, numbered from its
\* next seq: as long as no write fails a line's seq is its position.  A place
\* that was given up leaves no line.  A record whose write fails spends no seq,
\* so what it leaves has the seqs of the record behind it.
Appended(slots, n) ==
    {records \in [1 .. n -> UNION {Outcomes(slots[i].lines) : i \in 1 .. n}] :
        \A i \in 1 .. n : records[i] \in Outcomes(slots[i].lines)}

\* The queue of f becomes `slots`, less what is written of it.
Advance(f, slots, places) ==
    \E n \in 0 .. Len(slots) :
        /\ Free(slots, n)
        /\ \E records \in Appended(slots, n) : disk' = [disk EXCEPT ![f] = @ \o records]
        /\ writer' = [waiting |-> [writer.waiting EXCEPT ![f] = SubSeq(slots, n + 1, Len(slots))],
                      places |-> places]

\* Mutant: what is recorded does not wait behind an open place.
HandleWriteAtOnce(command) ==
    /\ command.kind = "write"
    /\ disk' = [disk EXCEPT ![command.file] = Append(@, command.lines)]
    /\ UNCHANGED writer

\* A record is queued, and written unless an open place is before it.
HandleWrite(command) ==
    /\ command.kind = "write"
    /\ Advance(command.file, Append(writer.waiting[command.file], Ready(command.lines)), writer.places)

HandleReserve(command) ==
    /\ command.kind = "reserve"
    /\ \E e \in command.place :
          Advance(command.file, Append(writer.waiting[command.file], Place(e)), writer.places \union {e})

\* A place already settled is ignored.
HandleFill(command) ==
    /\ command.kind = "fill"
    /\ IF command.place \subseteq writer.places
       THEN LET slots == writer.waiting[command.file]
            IN  Advance(command.file,
                        [i \in DOMAIN slots |->
                            IF slots[i].open = command.place THEN Ready(command.lines) ELSE slots[i]],
                        writer.places \ command.place)
       ELSE UNCHANGED <<disk, writer>>

Handle ==
    /\ channel # <<>>
    /\ channel' = Tail(channel)
    /\ \/ HandleWrite(Head(channel))
       \/ HandleReserve(Head(channel))
       \/ HandleFill(Head(channel))
    /\ UNCHANGED <<setting, exchange, files, releases, heard, told, past>>

Next ==
    \/ Handle
    \/ \E e \in Exchanges :
        \/ Arrive(e) \/ Pass(e) \/ Observe(e) \/ RecordRequest(e) \/ ReservePlace(e)
        \/ Answer(e) \/ GivePlaceUp(e) \/ MoveRequest(e) \/ FillPlace(e) \/ RecordAnswer(e)
        \/ Emit(e) \/ RecordFrame(e) \/ EndStream(e) \/ Abandon(e) \/ Release(e)

Spec == Init /\ [][Next]_vars
-----------------------------------------------------------------------------
Events  == Exchanges \X (0 .. MaxFrames + 1)
Records == [event: Events, what: {"http", "message", "transport-close", "fragment"}]
Holders == {{}} \union {{e} : e \in Exchanges}

TypeOK ==
    /\ setting \in Settings
    /\ exchange \in [Exchanges -> [step: Steps, names: Names, id: Ids \union {NoId}, carries: Carries,
                                   answer: Answers, file: Files, frames: 0 .. MaxFrames]]
    /\ files \subseteq Ids /\ releases \subseteq Exchanges
    /\ channel \in Seq([kind: {"write", "reserve", "fill"}, file: Files, lines: Seq(Records), place: Holders])
    /\ Len(channel) <= Capacity
    /\ writer \in [waiting: [Files -> Seq([open: Holders, lines: Seq(Records)])], places: SUBSET Exchanges]
    /\ disk \in [Files -> Seq(Seq(Records))]
    /\ heard \subseteq Events /\ told \subseteq Events /\ past \subseteq Events \X Events

Speaks(record, u) == \E k \in DOMAIN record : record[k].event = u

\* "`seq` is observation order" (tap.rs:39): in no trace does an event stand
\* ahead of one its party knew of: a request before an answer its client had,
\* or what a request caused, on whatever stream, before the request.
ObservationOrder ==
    \A f \in Files : \A j \in DOMAIN disk[f], i \in DOMAIN disk[f] :
        i <= j => ~\E p \in past : Speaks(disk[f][i], p[2]) /\ Speaks(disk[f][j], p[1])

\* A place is held only by an exchange that goes on or whose word on it is on
\* its way, and records wait for nothing else: an exchange that is over, or
\* was abandoned anywhere, never keeps the others' records in memory.
HeldForTheLiving ==
    \A f \in Files :
        /\ writer.waiting[f] # <<>> => IsOpen(Head(writer.waiting[f]))
        /\ \A slot \in Range(writer.waiting[f]) : \A e \in slot.open :
              /\ e \in writer.places
              /\ \/ Holding(exchange[e])
                 \/ e \in releases
                 \/ \E i \in DOMAIN channel : channel[i].kind = "fill" /\ channel[i].place = {e}

Quiet == channel = <<>> /\ releases = {} /\ \A e \in Exchanges : exchange[e].step \in {"idle", "done", "gone"}

\* What there is to record of e, in order.
RecordsOf(e) ==
    <<RequestLines(e), AnswerLines(e)>> \o [n \in 1 .. exchange[e].frames |-> <<Line(e, n + 1, "message")>>]

Mentions(record, e) == \E k \in DOMAIN record : record[k].event[1] = e

\* Once all is still, every exchange that came to its end is in one trace, all
\* of it, once, in its order, and each message beside the HTTP event it rode.
RecordedOnce ==
    Quiet /\ ~setting.failures =>
        \A e \in {x \in Exchanges : exchange[x].step = "done" /\ exchange[x].carries # "large"} :
            LET records == RecordsOf(e)
                file    == disk[exchange[e].file]
            IN  /\ \A i \in DOMAIN records : \E k \in DOMAIN file : file[k] = records[i]
                /\ \A i, j \in DOMAIN records : \A k, l \in DOMAIN file :
                      file[k] = records[i] /\ file[l] = records[j] => (i < j <=> k < l)
                /\ \A f \in Files : \A k \in DOMAIN disk[f] : Mentions(disk[f][k], e) =>
                      f = exchange[e].file /\ disk[f][k] \in Range(records)

\* The request that began the session id, as far as it was recorded.
Beginning(id) == {e \in Exchanges : exchange[e].names = "nothing" /\ exchange[e].id = id
                                     /\ exchange[e].carries # "large"}

\* The trace an exchange belongs in.
TraceOf(x) ==
    IF x.names = "invented" \/ (x.names = "session" /\ Beginning(x.id) = {}) THEN Unassigned
    ELSE IF x.id = NoId THEN Stateless ELSE x.id

\* A session's trace begins with the request it was assigned to, or with what a
\* failed write left of that, and no trace holds an exchange that is another's.
SessionsKeepTheirTrace ==
    /\ \A id \in Ids : disk[id] # <<>> =>
          \E e \in Beginning(id) : disk[id][1] \in Outcomes(RequestLines(e))
    /\ \A f \in Files : \A record \in Range(disk[f]) :
          \A e \in {d \in Exchanges : Mentions(record, d)} : f = TraceOf(exchange[e])

=============================================================================

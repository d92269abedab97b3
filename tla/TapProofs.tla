------------------------------- MODULE TapProofs -------------------------------
(***************************************************************************)
(* Proofs about Tap, for any exchanges and session ids, any capacity of    *)
(* the channel, any number of frames and any settings: what exchanges owe  *)
(* the writer and what the writer waits for, the order of what it writes,  *)
(* which exchanges a trace holds, and that it holds all of them.           *)
(***************************************************************************)
EXTENDS Tap, SequenceTheorems, TLAPS

ExchangeType == [step: Steps, names: Names, id: Ids \union {NoId}, carries: Carries,
                 answer: Answers, file: Files, frames: 0 .. MaxFrames]
Commands == [kind: {"write", "reserve", "fill"}, file: Files, lines: Seq(Records), place: Holders]
Slots    == [open: Holders, lines: Seq(Records)]

\* The exchange has not held a place yet.
Early(x) == x.step \in {"idle", "read", "passing", "recording", "reserving"}

Reserves(e, i) == channel[i].kind = "reserve" /\ channel[i].place = {e}
Fills(e, i)    == channel[i].kind = "fill" /\ channel[i].place = {e}

\* A record opens no place; every other command is about one exchange's place
\* in the stateless trace.
Commanded ==
    \A i \in 1 .. Len(channel) :
        \/ channel[i].kind = "write" /\ channel[i].place = {}
        \/ channel[i].file = Stateless /\ \E e \in Exchanges : channel[i].place = {e}

\* Before its reservation an exchange has no place, and no word about one is
\* on its way.  Only an exchange that names no session reserves.
Unreserved ==
    \A e \in Exchanges :
        /\ exchange[e].step = "reserving" => exchange[e].names = "nothing"
        /\ Early(exchange[e]) => /\ e \notin writer.places /\ e \notin releases
                                 /\ \A i \in 1 .. Len(channel) : channel[i].place # {e}

\* A place is given up for the session the request began.
Given == \A e \in Exchanges : exchange[e].step = "giving" => exchange[e].id \in Ids

\* The reservation of a place is the first the writer hears of it.
ReserveFirst ==
    \A e \in Exchanges : \A i, j \in 1 .. Len(channel) :
        Reserves(e, i) /\ channel[j].place = {e} => i <= j

\* Who will say what becomes of e's place.
Spoken(e) ==
    \/ Holding(exchange[e])
    \/ e \in releases
    \/ \E i \in 1 .. Len(channel) : Fills(e, i)

Promised ==
    \A e \in Exchanges :
        (e \in writer.places \/ \E i \in 1 .. Len(channel) : Reserves(e, i)) => Spoken(e)

\* An open slot is one of the places the writer knows, in the stateless trace.
SlotsKnown ==
    \A f \in Files : \A k \in 1 .. Len(writer.waiting[f]) : \A e \in writer.waiting[f][k].open :
        f = Stateless /\ e \in writer.places

HeadsOpen ==
    \A f \in Files : writer.waiting[f] # <<>> => IsOpen(writer.waiting[f][1])

IInv ==
    /\ TypeOK
    /\ Commanded /\ Unreserved /\ Given /\ ReserveFirst /\ Promised
    /\ SlotsKnown /\ HeadsOpen

\* It holds before the first exchange: no place is kept, nothing is sent.
THEOREM InitInv == Init => IInv
<1> SUFFICES ASSUME Init PROVE IInv
  OBVIOUS
<1>1. TypeOK
  <2>1. exchange \in [Exchanges -> [step: Steps, names: Names, id: Ids \union {NoId}, carries: Carries,
                                    answer: Answers, file: Files, frames: 0 .. MaxFrames]]
    BY TapAssumption DEF Init, Idle, Steps, Names, Carries, Answers, Files
  <2>2. /\ channel \in Seq([kind: {"write", "reserve", "fill"}, file: Files, lines: Seq(Records), place: Holders])
        /\ Len(channel) <= Capacity
    BY TapAssumption DEF Init
  <2>3. writer \in [waiting: [Files -> Seq([open: Holders, lines: Seq(Records)])], places: SUBSET Exchanges]
    BY DEF Init
  <2>4. disk \in [Files -> Seq(Seq(Records))]
    BY DEF Init
  <2> QED BY <2>1, <2>2, <2>3, <2>4 DEF TypeOK, Init
<1>2. Commanded /\ Unreserved /\ Given /\ ReserveFirst /\ Promised /\ SlotsKnown /\ HeadsOpen
  BY DEF Init, Idle, Commanded, Unreserved, Given, ReserveFirst, Promised, SlotsKnown, HeadsOpen
<1> QED BY <1>1, <1>2 DEF IInv

-----------------------------------------------------------------------------
(* Types of what a step records and learns. *)

LEMMA EventTypes ==
    ASSUME NEW e \in Exchanges
    PROVE  /\ RequestOf(e) \in Events /\ AnswerOf(e) \in Events
           /\ \A k \in 0 .. MaxFrames : FrameOf(e, k) \in Events
BY TapAssumption DEF RequestOf, AnswerOf, FrameOf, Events

LEMMA KnowledgeTypes ==
    ASSUME TypeOK
    PROVE  /\ \A v : Past(v) \subseteq Events
           /\ \A v \in Events, known \in SUBSET Events :
                 Knowing(v, known) => past' \subseteq Events \X Events
           /\ \A v \in Events : Told(v) => told' \subseteq Events
<1>1. heard \subseteq Events /\ told \subseteq Events /\ past \subseteq Events \X Events
  BY DEF TypeOK
<1>2. ASSUME NEW v PROVE Past(v) \subseteq Events
  BY <1>1, Zenon DEF Past
<1>3. ASSUME NEW v \in Events, NEW known \in SUBSET Events, Knowing(v, known)
      PROVE  past' \subseteq Events \X Events
  <2>1. \A u \in known : <<u, v>> \in Events \X Events
    OBVIOUS
  <2> QED BY <1>1, <1>3, <2>1 DEF Knowing
<1>4. ASSUME NEW v \in Events, Told(v) PROVE told' \subseteq Events
  BY <1>1, <1>2, <1>4 DEF Told
<1> QED BY <1>2, <1>3, <1>4

LEMMA LineTypes ==
    ASSUME TypeOK, NEW e \in Exchanges
    PROVE  /\ RequestLines(e) \in Seq(Records) /\ AnswerLines(e) \in Seq(Records)
           /\ FrameLines(e) \in Seq(Records)
<1>1. /\ Line(e, 0, "http") \in Records /\ Line(e, 0, "message") \in Records
      /\ Line(e, 1, "http") \in Records /\ Line(e, 1, "message") \in Records
      /\ Line(e, 1, "transport-close") \in Records
  BY TapAssumption DEF Line, Records, Events
<1>2. exchange[e].frames \in 0 .. MaxFrames
  BY DEF TypeOK
<1>3. Line(e, exchange[e].frames + 1, "message") \in Records
  BY <1>2, TapAssumption DEF Line, Records, Events
<1>4. RequestLines(e) \in Seq(Records)
  BY <1>1 DEF RequestLines
<1>5. AnswerLines(e) \in Seq(Records)
  BY <1>1 DEF AnswerLines
<1> QED BY <1>3, <1>4, <1>5 DEF FrameLines

LEMMA CommandTypes ==
    ASSUME NEW e \in Exchanges, NEW f \in Files, NEW lines \in Seq(Records)
    PROVE  /\ Write(f, lines) \in Commands /\ Reserve(e) \in Commands /\ Fill(e, lines) \in Commands
           /\ Write(f, lines).kind = "write" /\ Write(f, lines).place = {}
           /\ Reserve(e).kind = "reserve" /\ Reserve(e).place = {e} /\ Reserve(e).file = Stateless
           /\ Fill(e, lines).kind = "fill" /\ Fill(e, lines).place = {e} /\ Fill(e, lines).file = Stateless
BY DEF Write, Reserve, Fill, Commands, Holders, Files

-----------------------------------------------------------------------------
(* Steps that leave the channel and the writer alone. *)

LEMMA Moves ==
    ASSUME IInv, NEW e \in Exchanges, NEW x \in ExchangeType,
           setting' = setting, files' \subseteq Ids, heard' \subseteq Events,
           told' \subseteq Events, past' \subseteq Events \X Events,
           exchange' = [exchange EXCEPT ![e] = x],
           UNCHANGED <<channel, releases, writer, disk>>,
           Holding(exchange[e]) => Holding(x),
           Early(x) => Early(exchange[e]),
           x.step = "reserving" => x.names = "nothing",
           x.step = "giving" => x.id \in Ids
    PROVE  IInv'
<1>1. \A d \in Exchanges : exchange'[d] = IF d = e THEN x ELSE exchange[d]
  BY DEF IInv, TypeOK
<1>2. Commanded' /\ ReserveFirst' /\ SlotsKnown' /\ HeadsOpen'
  BY DEF IInv, Commanded, ReserveFirst, Reserves, SlotsKnown, HeadsOpen
<1>3. Unreserved' /\ Given'
  BY <1>1 DEF IInv, Unreserved, Given
<1>4. \A d \in Exchanges : Spoken(d) => Spoken(d)'
  BY <1>1 DEF Spoken, Fills
<1>5. Promised'
  BY <1>4 DEF IInv, Promised, Reserves
<1>6. TypeOK'
  BY DEF IInv, TypeOK, ExchangeType
<1> QED BY <1>2, <1>3, <1>5, <1>6 DEF IInv

(* Steps by which e's command c enters the channel: a record, e's reservation *)
(* or its word on its place.                                                  *)

LEMMA Sending ==
    ASSUME IInv, NEW e \in Exchanges, NEW x \in ExchangeType, NEW c \in Commands,
           setting' = setting, files' \subseteq Ids, heard' \subseteq Events,
           told' \subseteq Events, past' \subseteq Events \X Events,
           exchange' = [exchange EXCEPT ![e] = x],
           HasRoom, channel' = Append(channel, c), UNCHANGED <<writer, disk>>,
           ~Early(x), x.step = "giving" => x.id \in Ids,
           releases' \in {releases, releases \ {e}},
           \/ /\ c.kind = "write" /\ c.place = {}
              /\ Holding(exchange[e]) => Holding(x) /\ releases' = releases
              /\ releases' = releases
           \/ /\ c.kind = "reserve" /\ c.place = {e} /\ c.file = Stateless
              /\ Early(exchange[e]) /\ Holding(x) /\ releases' = releases
           \/ /\ c.kind = "fill" /\ c.place = {e} /\ c.file = Stateless
              /\ ~Early(exchange[e])
    PROVE  IInv'
<1> DEFINE n == Len(channel)
<1>1. \A d \in Exchanges : exchange'[d] = IF d = e THEN x ELSE exchange[d]
  BY DEF IInv, TypeOK
<1>2. /\ n \in Nat /\ Len(channel') = n + 1
      /\ \A i \in 1 .. n : channel'[i] = channel[i]
      /\ channel'[n + 1] = c
  <2>1. channel \in Seq(Commands)
    BY DEF IInv, TypeOK, Commands
  <2> QED BY <2>1
<1>3. \A i \in 1 .. n + 1 : i \in 1 .. n \/ i = n + 1
  BY <1>2
<1>4. Commanded'
  BY <1>2, <1>3 DEF IInv, Commanded
<1>5. Unreserved'
  <2> SUFFICES ASSUME NEW d \in Exchanges
               PROVE  /\ exchange'[d].step = "reserving" => exchange'[d].names = "nothing"
                      /\ Early(exchange'[d]) => /\ d \notin writer.places /\ d \notin releases'
                                                /\ \A i \in 1 .. Len(channel') : channel'[i].place # {d}
    BY DEF Unreserved
  <2>1. CASE d = e
    BY <2>1, <1>1 DEF Early
  <2>2. CASE d # e
    <3>1. Early(exchange[d]) => d \notin releases /\ d \notin releases'
      BY DEF IInv, Unreserved
    <3>2. c.place # {d}
      BY <2>2
    <3> QED BY <2>2, <3>1, <3>2, <1>1, <1>2, <1>3 DEF IInv, Unreserved
  <2> QED BY <2>1, <2>2
<1>6. ReserveFirst'
  <2> SUFFICES ASSUME NEW d \in Exchanges, NEW i \in 1 .. n + 1, NEW j \in 1 .. n + 1,
                      Reserves(d, i)', channel'[j].place = {d}
               PROVE  i <= j
    BY <1>2 DEF ReserveFirst
  <2>1. CASE i \in 1 .. n /\ j \in 1 .. n
    BY <2>1, <1>2 DEF IInv, ReserveFirst, Reserves
  <2>2. CASE i = n + 1 /\ j \in 1 .. n
    <3>1. d = e /\ Early(exchange[e])
      BY <2>2, <1>2 DEF Reserves
    <3> QED BY <3>1, <2>2, <1>2 DEF IInv, Unreserved
  <2>3. CASE j = n + 1
    BY <2>3, <1>2
  <2> QED BY <2>1, <2>2, <2>3, <1>3
<1>7. Promised'
  <2> SUFFICES ASSUME NEW d \in Exchanges,
                      d \in writer.places \/ \E i \in 1 .. n + 1 : Reserves(d, i)'
               PROVE  Spoken(d)'
    BY <1>2 DEF Promised
  <2>1. CASE d = e /\ c.place = {e}
    BY <2>1, <1>1, <1>2 DEF Spoken, Fills
  <2>2. CASE ~(d = e /\ c.place = {e})
    <3>1. d \in writer.places \/ \E i \in 1 .. n : Reserves(d, i)
      BY <2>2, <1>2, <1>3 DEF Reserves
    <3>2. Spoken(d)
      BY <3>1 DEF IInv, Promised
    <3>3. (\E i \in 1 .. n : Fills(d, i)) => \E i \in 1 .. Len(channel') : Fills(d, i)'
      BY <1>2 DEF Fills
    <3>4. d \in releases => d \in releases'
      BY <2>2
    <3>5. Holding(exchange[d]) => Holding(exchange'[d])
      BY <2>2, <1>1
    <3> QED BY <3>2, <3>3, <3>4, <3>5 DEF Spoken
  <2> QED BY <2>1, <2>2
<1>8. SlotsKnown' /\ HeadsOpen' /\ Given'
  BY <1>1 DEF IInv, SlotsKnown, HeadsOpen, Given
<1>9. TypeOK'
  <2>1. channel' \in Seq(Commands) /\ Len(channel') <= Capacity
    BY <1>2, TapAssumption DEF IInv, TypeOK, Commands, HasRoom
  <2> QED BY <2>1 DEF IInv, TypeOK, ExchangeType, Commands
<1> QED BY <1>4, <1>5, <1>6, <1>7, <1>8, <1>9 DEF IInv

-----------------------------------------------------------------------------
(* The steps of an exchange. *)

\* A settled part of the state, for the steps that leave it alone.
LEMMA Kept ==
    ASSUME IInv
    PROVE  /\ files \subseteq Ids /\ heard \subseteq Events /\ told \subseteq Events
           /\ past \subseteq Events \X Events
           /\ \A e \in Exchanges : exchange[e] \in ExchangeType
           /\ \A e \in Exchanges : exchange[e].step = "reserving" => exchange[e].names = "nothing"
BY DEF IInv, TypeOK, Unreserved, ExchangeType

LEMMA ArriveInv == ASSUME IInv, NEW e \in Exchanges, Arrive(e) PROVE IInv'
<1>1. PICK names \in setting.names, carries \in setting.carries,
           id \in Ids \union {NoId} :
             exchange' = [exchange EXCEPT ![e] = [Idle EXCEPT !.names = names, !.id = id, !.carries = carries,
                             !.step = IF carries = "large" THEN "passing" ELSE "read"]]
  <2>1. Learnt \subseteq Ids
    BY DEF Learnt, IInv, TypeOK
  <2> QED BY <2>1 DEF Arrive
<1> DEFINE x == [Idle EXCEPT !.names = names, !.id = id, !.carries = carries,
                             !.step = IF carries = "large" THEN "passing" ELSE "read"]
<1>2. names \in Names /\ carries \in Carries
  BY TapAssumption DEF IInv, TypeOK, Setting
<1>3. x \in ExchangeType /\ x.step \in {"passing", "read"}
  <2>1. Idle \in ExchangeType
    BY TapAssumption DEF Idle, ExchangeType, Steps, Names, Carries, Answers, Files
  <2> QED BY <1>2, <2>1 DEF ExchangeType, Steps
<1>4. past' \subseteq Events \X Events
  BY KnowledgeTypes, EventTypes, Kept DEF Arrive, IInv
<1> HIDE DEF x
<1>5. exchange' = [exchange EXCEPT ![e] = x]
  BY <1>1 DEF x
<1>6. exchange[e].step = "idle" /\ UNCHANGED <<setting, files, channel, releases, writer, disk, heard, told>>
  BY DEF Arrive
<1> QED BY <1>3, <1>4, <1>5, <1>6, Kept, Moves DEF Early, Holding

LEMMA PassInv == ASSUME IInv, NEW e \in Exchanges, Pass(e) PROVE IInv'
<1>1. PICK id \in Ids \union {NoId} :
        exchange' = [exchange EXCEPT ![e] = [exchange[e] EXCEPT !.step = "done", !.id = id]]
  BY Kept DEF Pass, ExchangeType
<1> DEFINE x == [exchange[e] EXCEPT !.step = "done", !.id = id]
<1>2. x \in ExchangeType /\ x.step = "done"
  BY Kept DEF ExchangeType, Steps
<1>3. heard' \subseteq Events /\ told' \subseteq Events
  BY KnowledgeTypes, EventTypes, Kept DEF Pass, IInv
<1> HIDE DEF x
<1>4. exchange' = [exchange EXCEPT ![e] = x]
  BY <1>1 DEF x
<1>5. exchange[e].step = "passing" /\ UNCHANGED <<setting, files, channel, releases, writer, disk, past>>
  BY DEF Pass
<1> QED BY <1>2, <1>3, <1>4, <1>5, Kept, Moves DEF Early, Holding

LEMMA ObserveInv == ASSUME IInv, NEW e \in Exchanges, Observe(e) PROVE IInv'
<1> DEFINE step == IF exchange[e].names = "nothing" THEN "reserving" ELSE "recording"
           file == IF exchange[e].names = "nothing" THEN Stateless
                   ELSE IF exchange[e].id \in files THEN exchange[e].id ELSE Unassigned
           x    == [exchange[e] EXCEPT !.step = step, !.file = file]
<1>1. step \in Steps /\ file \in Files
  BY Kept DEF Steps, Files
<1>2. x \in ExchangeType /\ x.step = step /\ x.names = exchange[e].names
  BY <1>1, Kept DEF ExchangeType
<1>3. exchange' = [exchange EXCEPT ![e] = x]
  BY DEF Observe
<1> HIDE DEF x
<1>4. exchange[e].step = "read" /\ UNCHANGED <<setting, files, channel, releases, writer, disk, heard, told, past>>
  BY DEF Observe
<1> QED BY <1>2, <1>3, <1>4, Kept, Moves DEF Early, Holding

LEMMA AnswerInv == ASSUME IInv, NEW e \in Exchanges, Answer(e) PROVE IInv'
<1>1. PICK answer \in setting.answers, id \in Ids \union {NoId} :
          exchange' = [exchange EXCEPT ![e] = [exchange[e] EXCEPT !.answer = answer, !.id = id,
                   !.step = IF exchange[e].names # "nothing" THEN "answered"
                            ELSE IF id # NoId THEN "giving" ELSE "settling"]]
  BY Kept DEF Answer, ExchangeType
<1> DEFINE step == IF exchange[e].names # "nothing" THEN "answered"
                   ELSE IF id # NoId THEN "giving" ELSE "settling"
           x == [exchange[e] EXCEPT !.answer = answer, !.id = id, !.step = step]
<1>2. answer \in Answers /\ step \in Steps
  BY TapAssumption DEF IInv, TypeOK, Setting, Steps
<1>3. x \in ExchangeType /\ x.step = step /\ x.names = exchange[e].names /\ x.id = id
  BY <1>2, Kept DEF ExchangeType
<1>4. exchange' = [exchange EXCEPT ![e] = x]
  BY <1>1
<1> HIDE DEF x
<1>5. past' \subseteq Events \X Events
  BY KnowledgeTypes, EventTypes, Kept DEF Answer, IInv
<1>6. exchange[e].step = "serving" /\ UNCHANGED <<setting, files, channel, releases, writer, disk, heard, told>>
  BY DEF Answer
<1> QED BY <1>3, <1>4, <1>5, <1>6, Kept, Moves DEF Early, Holding

LEMMA EmitInv == ASSUME IInv, NEW e \in Exchanges, Emit(e) PROVE IInv'
<1> DEFINE frames == exchange[e].frames + 1
           x == [exchange[e] EXCEPT !.step = "framing", !.frames = frames]
<1>1. frames \in 0 .. MaxFrames
  BY Kept, TapAssumption DEF Emit, ExchangeType
<1>2. x \in ExchangeType /\ x.step = "framing"
  <2> HIDE DEF frames
  <2> QED BY <1>1, Kept DEF ExchangeType, Steps
<1>3. exchange' = [exchange EXCEPT ![e] = x]
  BY DEF Emit
<1> HIDE DEF x
<1>4. past' \subseteq Events \X Events
  BY <1>1, KnowledgeTypes, EventTypes, Kept DEF Emit, IInv
<1>5. exchange[e].step = "streaming" /\ UNCHANGED <<setting, files, channel, releases, writer, disk, heard, told>>
  BY DEF Emit
<1> QED BY <1>2, <1>3, <1>4, <1>5, Kept, Moves DEF Early, Holding

LEMMA EndStreamInv == ASSUME IInv, NEW e \in Exchanges, EndStream(e) PROVE IInv'
<1> DEFINE x == [exchange[e] EXCEPT !.step = "done"]
<1>1. x \in ExchangeType /\ x.step = "done"
  BY Kept DEF ExchangeType, Steps
<1>2. exchange' = [exchange EXCEPT ![e] = x]
  BY DEF EndStream, Step
<1> HIDE DEF x
<1>3. exchange[e].step = "streaming" /\ UNCHANGED <<setting, files, channel, releases, writer, disk, heard, told, past>>
  BY DEF EndStream
<1> QED BY <1>1, <1>2, <1>3, Kept, Moves DEF Early, Holding

\* A sent command leaves the exchange at a later step, and e's record otherwise
\* as it was, or in another file.
LEMMA StepOf ==
    ASSUME IInv, NEW e \in Exchanges, NEW step \in Steps, Step(e, step)
    PROVE  \E x \in ExchangeType :
              /\ exchange' = [exchange EXCEPT ![e] = x]
              /\ x.step = step /\ x.names = exchange[e].names
<1> DEFINE x == [exchange[e] EXCEPT !.step = step]
<1>1. x \in ExchangeType /\ x.step = step /\ x.names = exchange[e].names
  BY Kept DEF ExchangeType
<1>2. exchange' = [exchange EXCEPT ![e] = x]
  BY DEF Step
<1> QED BY <1>1, <1>2

LEMMA RecordRequestInv == ASSUME IInv, NEW e \in Exchanges, RecordRequest(e) PROVE IInv'
<1> DEFINE c == Write(exchange[e].file, RequestLines(e))
<1>1. c \in Commands /\ c.kind = "write" /\ c.place = {}
  BY CommandTypes, LineTypes, Kept DEF IInv, ExchangeType
<1>2. PICK x \in ExchangeType : exchange' = [exchange EXCEPT ![e] = x] /\ x.step = "serving"
  BY StepOf DEF RecordRequest, ThenServe, Steps
<1>3. heard' \subseteq Events
  BY KnowledgeTypes, EventTypes, Kept DEF RecordRequest, ThenServe, IInv
<1>4. /\ exchange[e].step = "recording" /\ HasRoom /\ channel' = Append(channel, c)
      /\ UNCHANGED <<setting, files, releases, writer, disk, told, past>>
  BY DEF RecordRequest, Sends, ThenServe
<1> HIDE DEF c
<1> QED BY <1>1, <1>2, <1>3, <1>4, Kept, Sending DEF Early, Holding

LEMMA ReservePlaceInv == ASSUME IInv, NEW e \in Exchanges, ReservePlace(e) PROVE IInv'
<1> DEFINE c == Reserve(e)
<1>1. c \in Commands /\ c.kind = "reserve" /\ c.place = {e} /\ c.file = Stateless
  BY CommandTypes DEF Reserve, Commands, Holders, Files
<1>2. PICK x \in ExchangeType : /\ exchange' = [exchange EXCEPT ![e] = x]
                                /\ x.step = "serving" /\ x.names = exchange[e].names
  BY StepOf DEF ReservePlace, ThenServe, Steps
<1>3. heard' \subseteq Events
  BY KnowledgeTypes, EventTypes, Kept DEF ReservePlace, ThenServe, IInv
<1>4. /\ exchange[e].step = "reserving" /\ HasRoom /\ channel' = Append(channel, c)
      /\ UNCHANGED <<setting, files, releases, writer, disk, told, past>>
  BY DEF ReservePlace, Sends, ThenServe
<1> HIDE DEF c
<1> QED BY <1>1, <1>2, <1>3, <1>4, Kept, Sending DEF Early, Holding

LEMMA GivePlaceUpInv == ASSUME IInv, NEW e \in Exchanges, GivePlaceUp(e) PROVE IInv'
<1> DEFINE c == Fill(e, <<>>)
           x == [exchange[e] EXCEPT !.step = "moving", !.file = exchange[e].id]
<1>1. exchange[e].step = "giving"
  BY DEF GivePlaceUp, Sends
<1>2. CASE exchange[e].id \in Ids
  <2>1. c \in Commands /\ c.kind = "fill" /\ c.place = {e} /\ c.file = Stateless
    BY DEF Fill, Commands, Holders, Files
  <2>2. x \in ExchangeType /\ x.step = "moving"
    BY <1>2, Kept DEF ExchangeType, Steps, Files
  <2>3. /\ exchange' = [exchange EXCEPT ![e] = x] /\ HasRoom /\ channel' = Append(channel, c)
        /\ UNCHANGED <<setting, releases, writer, disk, heard, told, past>> /\ files' \subseteq Ids
    BY <1>2, Kept DEF GivePlaceUp, Sends
  <2> HIDE DEF c, x
  <2> QED BY <1>1, <2>1, <2>2, <2>3, Kept, Sending DEF Early, Holding
<1>3. exchange[e].id \in Ids
  BY <1>1 DEF IInv, Given
<1> QED BY <1>2, <1>3

LEMMA MoveRequestInv == ASSUME IInv, NEW e \in Exchanges, MoveRequest(e) PROVE IInv'
<1> DEFINE c == Write(exchange[e].file, RequestLines(e))
<1>1. c \in Commands /\ c.kind = "write" /\ c.place = {}
  BY CommandTypes, LineTypes, Kept DEF IInv, ExchangeType
<1>2. PICK x \in ExchangeType : exchange' = [exchange EXCEPT ![e] = x] /\ x.step = "answered"
  BY StepOf DEF MoveRequest, Steps
<1>3. /\ exchange[e].step = "moving" /\ HasRoom /\ channel' = Append(channel, c)
      /\ UNCHANGED <<setting, files, releases, writer, disk, heard, told, past>>
  BY DEF MoveRequest, Sends
<1> HIDE DEF c
<1> QED BY <1>1, <1>2, <1>3, Kept, Sending DEF Early, Holding

LEMMA FillPlaceInv == ASSUME IInv, NEW e \in Exchanges, FillPlace(e) PROVE IInv'
<1> DEFINE c == Fill(e, RequestLines(e))
<1>1. c \in Commands /\ c.kind = "fill" /\ c.place = {e} /\ c.file = Stateless
  BY LineTypes DEF Fill, Commands, Holders, Files, IInv
<1>2. PICK x \in ExchangeType : exchange' = [exchange EXCEPT ![e] = x] /\ x.step = "answered"
  BY StepOf DEF FillPlace, Steps
<1>3. /\ exchange[e].step = "settling" /\ HasRoom /\ channel' = Append(channel, c)
      /\ UNCHANGED <<setting, files, releases, writer, disk, heard, told, past>>
  BY DEF FillPlace, Sends
<1> HIDE DEF c
<1> QED BY <1>1, <1>2, <1>3, Kept, Sending DEF Early, Holding

LEMMA RecordAnswerInv == ASSUME IInv, NEW e \in Exchanges, RecordAnswer(e) PROVE IInv'
<1> DEFINE c == Write(exchange[e].file, AnswerLines(e))
<1>1. c \in Commands /\ c.kind = "write" /\ c.place = {}
  BY CommandTypes, LineTypes, Kept DEF IInv, ExchangeType
<1>2. PICK x \in ExchangeType : exchange' = [exchange EXCEPT ![e] = x] /\ x.step \in {"streaming", "done"}
  BY StepOf DEF RecordAnswer, Steps
<1>3. told' \subseteq Events
  BY KnowledgeTypes, EventTypes DEF RecordAnswer, IInv
<1>4. /\ exchange[e].step = "answered" /\ HasRoom /\ channel' = Append(channel, c)
      /\ UNCHANGED <<setting, files, releases, writer, disk, heard, past>>
  BY DEF RecordAnswer, Sends
<1> HIDE DEF c
<1> QED BY <1>1, <1>2, <1>3, <1>4, Kept, Sending DEF Early, Holding

LEMMA RecordFrameInv == ASSUME IInv, NEW e \in Exchanges, RecordFrame(e) PROVE IInv'
<1> DEFINE c == Write(exchange[e].file, FrameLines(e))
<1>1. c \in Commands /\ c.kind = "write" /\ c.place = {}
  BY CommandTypes, LineTypes, Kept DEF IInv, ExchangeType
<1>2. PICK x \in ExchangeType : exchange' = [exchange EXCEPT ![e] = x] /\ x.step = "streaming"
  BY StepOf DEF RecordFrame, Steps
<1>3. told' \subseteq Events
  BY KnowledgeTypes, EventTypes, Kept DEF RecordFrame, IInv, ExchangeType
<1>4. /\ exchange[e].step = "framing" /\ HasRoom /\ channel' = Append(channel, c)
      /\ UNCHANGED <<setting, files, releases, writer, disk, heard, past>>
  BY DEF RecordFrame, Sends
<1> HIDE DEF c
<1> QED BY <1>1, <1>2, <1>3, <1>4, Kept, Sending DEF Early, Holding

\* The exchange is dropped: nothing changes for a place it does not hold; one
\* it holds is released now, or later by a task that has the word to say.
LEMMA AbandonInv == ASSUME IInv, NEW e \in Exchanges, Abandon(e) PROVE IInv'
<1>1. PICK x \in ExchangeType : exchange' = [exchange EXCEPT ![e] = x] /\ x.step = "gone"
  BY StepOf DEF Abandon, Steps
<1>2. UNCHANGED <<setting, files, writer, disk, heard, told, past>>
  BY DEF Abandon
<1>3. CASE ~Holding(exchange[e])
  <2>1. UNCHANGED <<channel, releases>>
    BY <1>3 DEF Abandon
  <2> QED BY <1>1, <1>2, <1>3, <2>1, Kept, Moves DEF Early
<1>4. CASE Holding(exchange[e]) /\ HasRoom
  <2> DEFINE c == Fill(e, <<>>)
  <2>1. c \in Commands /\ c.kind = "fill" /\ c.place = {e} /\ c.file = Stateless
    BY DEF Fill, Commands, Holders, Files
  <2>2. channel' = Append(channel, c) /\ releases' = releases
    BY <1>4 DEF Abandon
  <2>3. ~Early(exchange[e])
    BY <1>4 DEF Holding, Early
  <2> HIDE DEF c
  <2> QED BY <1>1, <1>2, <1>4, <2>1, <2>2, <2>3, Kept, Sending DEF Early
<1>5. CASE Holding(exchange[e]) /\ ~HasRoom
  <2>1. releases' = releases \union {e} /\ channel' = channel
    BY <1>5 DEF Abandon
  <2>2. ~Early(exchange[e])
    BY <1>5 DEF Holding, Early
  <2>3. \A d \in Exchanges : exchange'[d] = IF d = e THEN x ELSE exchange[d]
    BY <1>1 DEF IInv, TypeOK
  <2>4. TypeOK'
    BY <1>1, <1>2, <2>1 DEF IInv, TypeOK, ExchangeType
  <2>5. Commanded' /\ ReserveFirst' /\ SlotsKnown' /\ HeadsOpen' /\ Given'
    BY <1>1, <1>2, <2>1, <2>3 DEF IInv, Commanded, ReserveFirst, Reserves, SlotsKnown, HeadsOpen, Given
  <2>6. Unreserved'
    BY <1>1, <1>2, <2>1, <2>3 DEF IInv, Unreserved, Early
  <2>7. Promised'
    <3>1. \A d \in Exchanges : Spoken(d) => Spoken(d)'
      BY <1>1, <2>1, <2>3 DEF Spoken, Fills
    <3> QED BY <1>2, <2>1, <3>1 DEF IInv, Promised, Reserves
  <2> QED BY <2>4, <2>5, <2>6, <2>7 DEF IInv
<1> QED BY <1>3, <1>4, <1>5

LEMMA ReleaseInv == ASSUME IInv, NEW e \in Exchanges, Release(e) PROVE IInv'
<1> DEFINE c == Fill(e, <<>>)
           x == exchange[e]
<1>1. c \in Commands /\ c.kind = "fill" /\ c.place = {e} /\ c.file = Stateless
  BY DEF Fill, Commands, Holders, Files
<1>2. x \in ExchangeType /\ ~Early(x)
  BY Kept DEF IInv, Unreserved, Release
<1>3. exchange' = [exchange EXCEPT ![e] = x]
  BY DEF Release, IInv, TypeOK
<1>4. /\ HasRoom /\ channel' = Append(channel, c) /\ releases' = releases \ {e}
      /\ UNCHANGED <<setting, files, writer, disk, heard, told, past>>
  BY DEF Release
<1>5. x.step = "giving" => x.id \in Ids
  BY DEF IInv, Given
<1> HIDE DEF c
<1> QED BY <1>1, <1>2, <1>3, <1>4, <1>5, Kept, Sending

-----------------------------------------------------------------------------
(* The steps of the writer. *)

\* What a file gets of a record: all of it or, where writes fail, a part, which
\* tells of nothing else.
Piece(p, lines) ==
    /\ \A u : Speaks(p, u) => Speaks(lines, u)
    /\ ~setting.failures => p = lines

LEMMA Pieces ==
    ASSUME NEW lines \in Seq(Records), NEW p \in Outcomes(lines)
    PROVE  p \in Seq(Records) /\ Piece(p, lines)
<1>1. CASE p = lines
  BY <1>1 DEF Piece
<1>2. CASE p # lines
  <2>1. setting.failures /\ p \in Parts(lines)
    BY <1>2 DEF Outcomes
  <2>2. PICK k \in 0 .. Len(lines) - 1 :
           \/ p = SubSeq(lines, 1, k)
           \/ p = Append(SubSeq(lines, 1, k), [lines[k + 1] EXCEPT !.what = "fragment"])
    BY <2>1 DEF Parts
  <2> DEFINE start == SubSeq(lines, 1, k)
             torn  == [lines[k + 1] EXCEPT !.what = "fragment"]
  <2>3. /\ start \in Seq(Records) /\ Len(start) = k /\ k \in Nat
        /\ \A m \in 1 .. k : m \in 1 .. Len(lines) /\ start[m] = lines[m]
    BY LenProperties
  <2>4. k + 1 \in 1 .. Len(lines) /\ lines[k + 1] \in Records
    BY LenProperties
  <2>5. torn \in Records /\ torn.event = lines[k + 1].event
    BY <2>4 DEF Records
  <2> HIDE DEF start, torn
  <2>6. /\ Append(start, torn) \in Seq(Records) /\ Len(Append(start, torn)) = k + 1
        /\ Append(start, torn)[k + 1] = torn
        /\ \A m \in 1 .. k : Append(start, torn)[m] = start[m]
    BY <2>3, <2>5, AppendProperties
  <2>7. /\ p \in Seq(Records)
        /\ \A m \in 1 .. Len(p) : m \in 1 .. Len(lines) /\ p[m].event = lines[m].event
    <3>1. CASE p = start
      BY <2>3, <3>1
    <3>2. CASE p = Append(start, torn)
      BY <2>3, <2>4, <2>5, <2>6, <3>2
    <3> QED BY <2>2, <3>1, <3>2 DEF start, torn
  <2>8. \A u : Speaks(p, u) => Speaks(lines, u)
    BY <2>7 DEF Speaks
  <2> QED BY <2>1, <2>7, <2>8 DEF Piece
<1> QED BY <1>1, <1>2

\* The first n slots of a queue went to the file d, which is d2 now; w2 is what
\* is left of the queue.
Moved(d, slots, d2, w2, n) ==
    /\ n \in 0 .. Len(slots)
    /\ Len(d2) = Len(d) + n /\ \A k \in 1 .. Len(d) : d2[k] = d[k]
    /\ \A k \in 1 .. n : slots[k].open = {} /\ Piece(d2[Len(d) + k], slots[k].lines)
    /\ Len(w2) = Len(slots) - n /\ \A k \in 1 .. Len(w2) : w2[k] = slots[k + n]

LEMMA MovedShape ==
    ASSUME NEW d \in Seq(Seq(Records)), NEW slots \in Seq(Slots), NEW n \in 0 .. Len(slots),
           NEW more \in Appended(slots, n), Free(slots, n)
    PROVE  /\ Moved(d, slots, d \o more, SubSeq(slots, n + 1, Len(slots)), n)
           /\ d \o more \in Seq(Seq(Records))
           /\ SubSeq(slots, n + 1, Len(slots)) \in Seq(Slots)
<1> DEFINE d2 == d \o more
           w2 == SubSeq(slots, n + 1, Len(slots))
<1>1. /\ more \in Seq(Seq(Records)) /\ Len(more) = n
      /\ \A k \in 1 .. n : Piece(more[k], slots[k].lines)
  <2>1. n \in Nat /\ DOMAIN more = 1 .. n /\ more = [k \in 1 .. n |-> more[k]]
    BY LenProperties DEF Appended
  <2>2. ASSUME NEW k \in 1 .. n PROVE more[k] \in Seq(Records) /\ Piece(more[k], slots[k].lines)
    <3>1. slots[k].lines \in Seq(Records)
      <4>1. slots[k] \in Slots
        BY LenProperties
      <4> QED BY <4>1 DEF Slots
    <3>2. more[k] \in Outcomes(slots[k].lines)
      BY DEF Appended
    <3> QED BY <3>1, <3>2, Pieces
  <2>3. more \in [1 .. n -> Seq(Records)]
    BY <2>1, <2>2
  <2> QED BY <2>1, <2>2, <2>3
<1>2. d2 = d \o more
  OBVIOUS
<1> HIDE DEF d2
<1>3. /\ d2 \in Seq(Seq(Records)) /\ Len(d2) = Len(d) + n
      /\ \A k \in 1 .. Len(d) : d2[k] = d[k]
      /\ \A k \in 1 .. n : d2[Len(d) + k] = more[k]
  <2>1. Len(d) \in Nat /\ n \in Nat
    BY LenProperties
  <2>2. /\ d \o more \in Seq(Seq(Records))
        /\ Len(d \o more) = Len(d) + Len(more)
        /\ \A i \in 1 .. Len(d) + Len(more) : (d \o more)[i] = IF i <= Len(d) THEN d[i] ELSE more[i - Len(d)]
    <3>1. d \in Seq(Seq(Records)) /\ more \in Seq(Seq(Records))
      BY <1>1
    <3> QED BY ONLY <3>1, ConcatProperties, Zenon
  <2>3. /\ d2 \in Seq(Seq(Records)) /\ Len(d2) = Len(d) + n
        /\ \A i \in 1 .. Len(d) + n : d2[i] = IF i <= Len(d) THEN d[i] ELSE more[i - Len(d)]
    BY <1>1, <1>2, <2>2, Zenon
  <2>4. \A k \in 1 .. Len(d) : d2[k] = d[k]
    BY <2>1, <2>3
  <2>5. ASSUME NEW k \in 1 .. n PROVE d2[Len(d) + k] = more[k]
    <3> DEFINE i == Len(d) + k
    <3>1. i \in 1 .. Len(d) + n /\ ~(i <= Len(d)) /\ i - Len(d) = k
      BY <2>1
    <3> HIDE DEF i
    <3>2. d2[i] = more[k]
      BY <2>3, <3>1
    <3> QED BY <3>2 DEF i
  <2> QED BY <2>3, <2>4, <2>5
<1>4. /\ w2 \in Seq(Slots) /\ Len(w2) = Len(slots) - n
      /\ \A k \in 1 .. Len(w2) : w2[k] = slots[k + n]
  <2>1. Len(slots) \in Nat /\ n \in Nat /\ n <= Len(slots)
    BY LenProperties
  <2>2. slots \in Seq(Slots)
    OBVIOUS
  <2> QED BY ONLY <2>1, <2>2
<1>5. \A k \in 1 .. n : slots[k].open = {}
  BY DEF Free, IsOpen
<1> HIDE DEF w2
<1>6. Moved(d, slots, d2, w2, n)
  BY <1>1, <1>3, <1>4, <1>5 DEF Moved
<1> QED BY <1>3, <1>4, <1>6 DEF d2, w2

\* What a step of the writer does to the queue and the file it is about.
LEMMA Advances ==
    ASSUME IInv, NEW f \in Files, NEW slots \in Seq(Slots), NEW places, Advance(f, slots, places)
    PROVE  /\ disk' \in [Files -> Seq(Seq(Records))]
           /\ \A g \in Files \ {f} : disk'[g] = disk[g] /\ writer'.waiting[g] = writer.waiting[g]
           /\ \E n : Moved(disk[f], slots, disk'[f], writer'.waiting[f], n)
<1>1. disk \in [Files -> Seq(Seq(Records))] /\ writer.waiting \in [Files -> Seq(Slots)]
  BY DEF IInv, TypeOK, Slots
<1>2. PICK n \in 0 .. Len(slots) :
         /\ Free(slots, n)
         /\ \E more \in Appended(slots, n) : disk' = [disk EXCEPT ![f] = disk[f] \o more]
         /\ writer' = [waiting |-> [writer.waiting EXCEPT ![f] = SubSeq(slots, n + 1, Len(slots))], places |-> places]
  BY DEF Advance
<1>3. PICK more \in Appended(slots, n) : disk' = [disk EXCEPT ![f] = disk[f] \o more]
  BY <1>2
<1> DEFINE d2 == disk[f] \o more
           w2 == SubSeq(slots, n + 1, Len(slots))
<1>4. Moved(disk[f], slots, d2, w2, n) /\ d2 \in Seq(Seq(Records)) /\ w2 \in Seq(Slots)
  BY <1>1, <1>2, MovedShape
<1> HIDE DEF d2, w2
<1>5. disk' = [disk EXCEPT ![f] = d2] /\ writer'.waiting = [writer.waiting EXCEPT ![f] = w2]
  BY <1>2, <1>3 DEF d2, w2
<1>6. disk' \in [Files -> Seq(Seq(Records))] /\ disk'[f] = d2 /\ writer'.waiting[f] = w2
  BY <1>1, <1>4, <1>5
<1>7. \A g \in Files \ {f} : disk'[g] = disk[g] /\ writer'.waiting[g] = writer.waiting[g]
  BY <1>1, <1>5
<1> QED BY <1>4, <1>6, <1>7

\* What is left of a queue begins with an open place, and is of the queue.
LEMMA AdvanceEffect ==
    ASSUME NEW w \in [Files -> Seq(Slots)], writer.waiting = w,
           NEW f \in Files, NEW slots \in Seq(Slots), NEW places \in SUBSET Exchanges,
           Advance(f, slots, places)
    PROVE  /\ writer' \in [waiting: [Files -> Seq(Slots)], places: SUBSET Exchanges]
           /\ writer'.places = places
           /\ \A g \in Files \ {f} : writer'.waiting[g] = w[g]
           /\ writer'.waiting[f] # <<>> => IsOpen(writer'.waiting[f][1])
           /\ \A k \in 1 .. Len(writer'.waiting[f]) :
                 \E i \in 1 .. Len(slots) : writer'.waiting[f][k] = slots[i]
<1>1. PICK n \in 0 .. Len(slots) :
         /\ Free(slots, n)
         /\ writer' = [waiting |-> [w EXCEPT ![f] = SubSeq(slots, n + 1, Len(slots))], places |-> places]
  BY DEF Advance
<1> DEFINE rest == SubSeq(slots, n + 1, Len(slots))
<1>2. /\ rest \in Seq(Slots) /\ Len(rest) = Len(slots) - n
      /\ \A k \in 1 .. Len(rest) : k + n \in 1 .. Len(slots) /\ rest[k] = slots[k + n]
  OBVIOUS
<1>3. rest # <<>> => IsOpen(rest[1])
  BY <1>1, <1>2 DEF Free
<1> HIDE DEF rest
<1>4. /\ writer'.waiting = [w EXCEPT ![f] = rest] /\ writer'.places = places
      /\ writer' \in [waiting: [Files -> Seq(Slots)], places: SUBSET Exchanges]
  BY <1>1, <1>2 DEF rest
<1>5. writer'.waiting[f] = rest /\ \A g \in Files \ {f} : writer'.waiting[g] = w[g]
  BY <1>4
<1> QED BY <1>2, <1>3, <1>4, <1>5

\* The channel without its first command.
LEMMA Taken ==
    ASSUME IInv, Handle
    PROVE  /\ channel # <<>> /\ Len(channel) \in Nat \ {0} /\ 1 \in 1 .. Len(channel)
           /\ channel[1] \in Commands /\ Head(channel) = channel[1]
           /\ channel' \in Seq(Commands) /\ Len(channel') = Len(channel) - 1
           /\ \A i \in 1 .. Len(channel') : i + 1 \in 1 .. Len(channel) /\ channel'[i] = channel[i + 1]
           /\ \A i \in 1 .. Len(channel) : i = 1 \/ (i - 1 \in 1 .. Len(channel') /\ channel[i] = channel'[i - 1])
<1>1. channel \in Seq(Commands) /\ channel # <<>> /\ channel' = Tail(channel)
  BY DEF Handle, IInv, TypeOK, Commands
<1> QED BY <1>1

\* What every step of the writer keeps, as long as no place is opened for an
\* exchange that has reserved none.
LEMMA HandleKeeps ==
    ASSUME IInv, Handle,
           writer' \in [waiting: [Files -> Seq(Slots)], places: SUBSET Exchanges],
           disk' \in [Files -> Seq(Seq(Records))],
           \A e \in writer'.places : e \in writer.places \/ ~Early(exchange[e])
    PROVE  TypeOK' /\ Commanded' /\ Given' /\ ReserveFirst' /\ Unreserved'
<1>1. UNCHANGED <<setting, exchange, files, releases, heard, told, past>>
  BY DEF Handle
<1>2. /\ Len(channel) \in Nat \ {0} /\ channel' \in Seq(Commands) /\ Len(channel') = Len(channel) - 1
      /\ \A i \in 1 .. Len(channel') : i + 1 \in 1 .. Len(channel) /\ channel'[i] = channel[i + 1]
  BY Taken
<1>3. TypeOK'
  <2>1. Len(channel) <= Capacity /\ Len(channel') <= Capacity
    BY <1>2, TapAssumption DEF IInv, TypeOK
  <2> QED BY <1>1, <1>2, <2>1 DEF IInv, TypeOK, Commands, Slots
<1>4. Commanded'
  <2> SUFFICES ASSUME NEW i \in 1 .. Len(channel')
               PROVE  \/ channel'[i].kind = "write" /\ channel'[i].place = {}
                      \/ channel'[i].file = Stateless /\ \E e \in Exchanges : channel'[i].place = {e}
    BY DEF Commanded
  <2>1. i + 1 \in 1 .. Len(channel) /\ channel'[i] = channel[i + 1]
    BY <1>2
  <2>2. \/ channel[i + 1].kind = "write" /\ channel[i + 1].place = {}
        \/ channel[i + 1].file = Stateless /\ \E e \in Exchanges : channel[i + 1].place = {e}
    BY <2>1 DEF IInv, Commanded
  <2> QED BY <2>1, <2>2
<1>5. Given'
  BY <1>1 DEF IInv, Given
<1>6. ReserveFirst'
  <2> SUFFICES ASSUME NEW e \in Exchanges, NEW i \in 1 .. Len(channel'), NEW j \in 1 .. Len(channel'),
                      Reserves(e, i)', channel'[j].place = {e}
               PROVE  i <= j
    BY DEF ReserveFirst
  <2>1. i + 1 \in 1 .. Len(channel) /\ j + 1 \in 1 .. Len(channel)
    BY <1>2
  <2>2. Reserves(e, i + 1) /\ channel[j + 1].place = {e}
    BY <1>2 DEF Reserves
  <2>3. i + 1 <= j + 1
    BY <2>1, <2>2 DEF IInv, ReserveFirst
  <2> QED BY <2>3
<1>7. Unreserved'
  <2> SUFFICES ASSUME NEW e \in Exchanges
               PROVE  /\ exchange[e].step = "reserving" => exchange[e].names = "nothing"
                      /\ Early(exchange[e]) => /\ e \notin writer'.places /\ e \notin releases
                                               /\ \A i \in 1 .. Len(channel') : channel'[i].place # {e}
    BY <1>1 DEF Unreserved
  <2>1. /\ exchange[e].step = "reserving" => exchange[e].names = "nothing"
        /\ Early(exchange[e]) => /\ e \notin writer.places /\ e \notin releases
                                 /\ \A i \in 1 .. Len(channel) : channel[i].place # {e}
    BY DEF IInv, Unreserved
  <2> QED BY <1>2, <2>1
<1> QED BY <1>3, <1>4, <1>5, <1>6, <1>7

\* The queues after one of them was advanced.
LEMMA QueuesKeep ==
    ASSUME IInv, NEW f \in Files, NEW slots \in Seq(Slots), NEW places \in SUBSET Exchanges,
           Advance(f, slots, places),
           \A i \in 1 .. Len(slots) : \A e \in slots[i].open : f = Stateless /\ e \in places,
           f = Stateless \/ places = writer.places
    PROVE  /\ SlotsKnown' /\ HeadsOpen' /\ writer'.places = places
           /\ disk' \in [Files -> Seq(Seq(Records))]
           /\ writer' \in [waiting: [Files -> Seq(Slots)], places: SUBSET Exchanges]
<1>1. writer.waiting \in [Files -> Seq(Slots)]
  BY DEF IInv, TypeOK, Slots
<1>2. /\ writer' \in [waiting: [Files -> Seq(Slots)], places: SUBSET Exchanges]
      /\ writer'.places = places
      /\ \A g \in Files \ {f} : writer'.waiting[g] = writer.waiting[g]
      /\ writer'.waiting[f] # <<>> => IsOpen(writer'.waiting[f][1])
      /\ \A k \in 1 .. Len(writer'.waiting[f]) :
            \E i \in 1 .. Len(slots) : writer'.waiting[f][k] = slots[i]
  BY <1>1, AdvanceEffect
<1>3. SlotsKnown /\ HeadsOpen
  BY DEF IInv
<1>4. HeadsOpen'
  BY <1>2, <1>3 DEF HeadsOpen
<1>5. SlotsKnown'
  <2> SUFFICES ASSUME NEW g \in Files, NEW k \in 1 .. Len(writer'.waiting[g]),
                      NEW e \in writer'.waiting[g][k].open
               PROVE  g = Stateless /\ e \in places
    BY <1>2 DEF SlotsKnown
  <2>1. CASE g = f
    BY <1>2, <2>1
  <2>2. CASE g # f
    <3>1. k \in 1 .. Len(writer.waiting[g]) /\ e \in writer.waiting[g][k].open
      BY <1>2, <2>2
    <3>2. g = Stateless /\ e \in writer.places
      BY <1>3, <3>1 DEF SlotsKnown
    <3> QED BY <2>2, <3>2
  <2> QED BY <2>1, <2>2
<1>6. disk' \in [Files -> Seq(Seq(Records))]
  BY Advances
<1> QED BY <1>2, <1>4, <1>5, <1>6

\* Nobody who has the word loses it, but for the command that is taken.
LEMMA WordsKept ==
    ASSUME IInv, Handle
    PROVE  /\ \A e \in Exchanges : Spoken(e) /\ ~Fills(e, 1) => Spoken(e)'
           /\ \A e \in Exchanges, i \in 1 .. Len(channel') :
                 Reserves(e, i)' => \E j \in 1 .. Len(channel) : Reserves(e, j)
<1>1. UNCHANGED <<exchange, releases>>
  BY DEF Handle
<1>2. /\ \A i \in 1 .. Len(channel') : i + 1 \in 1 .. Len(channel) /\ channel'[i] = channel[i + 1]
      /\ \A i \in 1 .. Len(channel) : i = 1 \/ (i - 1 \in 1 .. Len(channel') /\ channel[i] = channel'[i - 1])
  BY Taken
<1>3. ASSUME NEW e \in Exchanges, Spoken(e), ~Fills(e, 1) PROVE Spoken(e)'
  <2>1. CASE \E i \in 1 .. Len(channel) : Fills(e, i)
    <3>1. PICK i \in 1 .. Len(channel) : Fills(e, i)
      BY <2>1
    <3>2. i - 1 \in 1 .. Len(channel') /\ Fills(e, i - 1)'
      BY <1>2, <1>3, <3>1 DEF Fills
    <3> QED BY <3>2 DEF Spoken
  <2>2. CASE ~\E i \in 1 .. Len(channel) : Fills(e, i)
    BY <1>1, <1>3, <2>2 DEF Spoken
  <2> QED BY <2>1, <2>2
<1>4. ASSUME NEW e \in Exchanges, NEW i \in 1 .. Len(channel'), Reserves(e, i)'
      PROVE  \E j \in 1 .. Len(channel) : Reserves(e, j)
  BY <1>2, <1>4 DEF Reserves
<1> QED BY <1>3, <1>4

\* A queue with one slot more.
LEMMA Queued ==
    ASSUME IInv, NEW f \in Files, NEW slot \in Slots
    PROVE  LET slots == Append(writer.waiting[f], slot)
           IN  /\ slots \in Seq(Slots)
               /\ \A i \in 1 .. Len(slots) : \A e \in slots[i].open :
                     e \in slot.open \/ (f = Stateless /\ e \in writer.places)
<1>1. writer.waiting[f] \in Seq(Slots)
  BY DEF IInv, TypeOK, Slots
<1> DEFINE slots == Append(writer.waiting[f], slot)
<1>2. /\ slots \in Seq(Slots)
      /\ \A i \in 1 .. Len(slots) :
            \/ i \in 1 .. Len(writer.waiting[f]) /\ slots[i] = writer.waiting[f][i]
            \/ slots[i] = slot
  BY <1>1
<1>3. SlotsKnown
  BY DEF IInv
<1> HIDE DEF slots
<1>4. \A i \in 1 .. Len(slots) : \A e \in slots[i].open :
         e \in slot.open \/ (f = Stateless /\ e \in writer.places)
  BY <1>2, <1>3 DEF SlotsKnown
<1> QED BY <1>2, <1>4 DEF slots

LEMMA HandleWriteInv == ASSUME IInv, Handle, HandleWrite(Head(channel)) PROVE IInv'
<1> DEFINE c == channel[1]
           slots == Append(writer.waiting[c.file], Ready(c.lines))
<1>1. c \in Commands /\ Head(channel) = c
  BY Taken
<1>2. c.kind = "write" /\ c.file \in Files /\ Advance(c.file, slots, writer.places)
  BY <1>1 DEF HandleWrite, Commands
<1>3. Ready(c.lines) \in Slots /\ Ready(c.lines).open = {}
  BY <1>1 DEF Ready, Slots, Holders, Commands
<1>4. slots \in Seq(Slots) /\ \A i \in 1 .. Len(slots) : \A e \in slots[i].open :
                                  c.file = Stateless /\ e \in writer.places
  BY <1>2, <1>3, Queued
<1>5. writer.places \in SUBSET Exchanges
  BY DEF IInv, TypeOK
<1>6. \A e \in Exchanges : ~Fills(e, 1)
  BY <1>2 DEF Fills
<1> HIDE DEF slots, c
<1>7. /\ SlotsKnown' /\ HeadsOpen' /\ writer'.places = writer.places
      /\ writer' \in [waiting: [Files -> Seq(Slots)], places: SUBSET Exchanges]
      /\ disk' \in [Files -> Seq(Seq(Records))]
  BY <1>2, <1>4, <1>5, QueuesKeep
<1>8. TypeOK' /\ Commanded' /\ Given' /\ ReserveFirst' /\ Unreserved'
  BY <1>7, HandleKeeps
<1>9. Promised'
  <2>1. \A e \in Exchanges : Spoken(e) => Spoken(e)'
    BY <1>6, WordsKept
  <2>2. \A e \in Exchanges, i \in 1 .. Len(channel') :
           Reserves(e, i)' => \E j \in 1 .. Len(channel) : Reserves(e, j)
    BY WordsKept
  <2>3. Promised
    BY DEF IInv
  <2> QED BY <1>7, <2>1, <2>2, <2>3 DEF Promised
<1> QED BY <1>7, <1>8, <1>9 DEF IInv

LEMMA HandleReserveInv == ASSUME IInv, Handle, HandleReserve(Head(channel)) PROVE IInv'
<1> DEFINE c == channel[1]
<1>1. c \in Commands /\ Head(channel) = c /\ 1 \in 1 .. Len(channel)
  BY Taken
<1>2. PICK e \in c.place : /\ c.kind = "reserve"
                           /\ Advance(c.file, Append(writer.waiting[c.file], Place(e)), writer.places \union {e})
  BY <1>1 DEF HandleReserve
<1>3. e \in Exchanges /\ c.place = {e} /\ c.file = Stateless
  BY <1>1, <1>2 DEF IInv, Commanded
<1> DEFINE slots == Append(writer.waiting[c.file], Place(e))
           places == writer.places \union {e}
<1>4. Place(e) \in Slots /\ Place(e).open = {e}
  BY <1>3 DEF Place, Slots, Holders
<1>5. slots \in Seq(Slots) /\ \A i \in 1 .. Len(slots) : \A d \in slots[i].open :
                                  c.file = Stateless /\ d \in places
  BY <1>3, <1>4, Queued DEF Files
<1>6. places \in SUBSET Exchanges /\ c.file \in Files /\ Advance(c.file, slots, places)
  BY <1>2, <1>3 DEF IInv, TypeOK, Files
<1>7. ~Early(exchange[e])
  BY <1>1, <1>3 DEF IInv, Unreserved
<1>8. \A d \in Exchanges : ~Fills(d, 1)
  BY <1>2 DEF Fills
<1>9. Reserves(e, 1)
  BY <1>2, <1>3 DEF Reserves
<1> HIDE DEF slots, c
<1>10. /\ SlotsKnown' /\ HeadsOpen' /\ writer'.places = places
       /\ writer' \in [waiting: [Files -> Seq(Slots)], places: SUBSET Exchanges]
       /\ disk' \in [Files -> Seq(Seq(Records))]
  BY <1>3, <1>5, <1>6, QueuesKeep
<1>11. TypeOK' /\ Commanded' /\ Given' /\ ReserveFirst' /\ Unreserved'
  BY <1>7, <1>10, HandleKeeps
<1>12. Promised'
  <2>1. \A d \in Exchanges : Spoken(d) => Spoken(d)'
    BY <1>8, WordsKept
  <2>2. \A d \in Exchanges, i \in 1 .. Len(channel') :
           Reserves(d, i)' => \E j \in 1 .. Len(channel) : Reserves(d, j)
    BY WordsKept
  <2>3. Promised
    BY DEF IInv
  <2> QED BY <1>1, <1>9, <1>10, <2>1, <2>2, <2>3 DEF Promised
<1> QED BY <1>10, <1>11, <1>12 DEF IInv

LEMMA HandleFillInv == ASSUME IInv, Handle, HandleFill(Head(channel)) PROVE IInv'
<1> DEFINE c == channel[1]
<1>1. c \in Commands /\ Head(channel) = c /\ 1 \in 1 .. Len(channel) /\ c.kind = "fill"
  BY Taken DEF HandleFill
<1>2. PICK e \in Exchanges : c.place = {e}
  BY <1>1 DEF IInv, Commanded
<1>3. c.file = Stateless /\ c.file \in Files
  BY <1>1 DEF IInv, Commanded, Files
<1>4. \A d \in Exchanges : Fills(d, 1) => d = e
  BY <1>2 DEF Fills
\* The writer heard of e's place before this.
<1>5. \A i \in 1 .. Len(channel) : ~Reserves(e, i)
  <2>1. \A i \in 1 .. Len(channel) : Reserves(e, i) => i <= 1
    BY <1>1, <1>2 DEF IInv, ReserveFirst
  <2> QED BY <1>1, <2>1 DEF Reserves
<1>6. \A d \in Exchanges, i \in 1 .. Len(channel') :
         Reserves(d, i)' => \E j \in 1 .. Len(channel) : Reserves(d, j)
  BY WordsKept
<1>7. ASSUME writer'.places = writer.places \ {e} PROVE Promised'
  <2>1. \A d \in Exchanges : d # e /\ Spoken(d) => Spoken(d)'
    BY <1>4, WordsKept
  <2>2. Promised
    BY DEF IInv
  <2> QED BY <1>5, <1>6, <1>7, <2>1, <2>2 DEF Promised
<1>8. CASE e \notin writer.places
  <2>1. writer' = writer /\ disk' = disk
    BY <1>1, <1>2, <1>8 DEF HandleFill
  <2>2. SlotsKnown' /\ HeadsOpen'
    BY <2>1 DEF IInv, SlotsKnown, HeadsOpen
  <2>3. /\ writer' \in [waiting: [Files -> Seq(Slots)], places: SUBSET Exchanges]
        /\ disk' \in [Files -> Seq(Seq(Records))]
    BY <2>1 DEF IInv, TypeOK, Slots
  <2>4. TypeOK' /\ Commanded' /\ Given' /\ ReserveFirst' /\ Unreserved'
    BY <2>1, <2>3, HandleKeeps
  <2>5. Promised'
    BY <1>7, <1>8, <2>1
  <2> QED BY <2>2, <2>4, <2>5 DEF IInv
<1>9. CASE e \in writer.places
  <2> DEFINE old == writer.waiting[c.file]
             slots == [i \in DOMAIN old |-> IF old[i].open = c.place THEN Ready(c.lines) ELSE old[i]]
             places == writer.places \ c.place
  <2>1. c.place \subseteq writer.places
    BY <1>2, <1>9
  <2>2. Advance(c.file, slots, places)
    BY <1>1, <2>1, Zenon DEF HandleFill
  <2>3. old \in Seq(Slots)
    BY <1>3 DEF IInv, TypeOK, Slots
  <2>4. Ready(c.lines) \in Slots /\ Ready(c.lines).open = {}
    BY <1>1 DEF Ready, Slots, Holders, Commands
  <2>5. /\ slots \in Seq(Slots) /\ Len(slots) = Len(old)
        /\ \A i \in 1 .. Len(slots) : i \in 1 .. Len(old) /\ old[i] \in Slots
              /\ slots[i] = IF old[i].open = c.place THEN Ready(c.lines) ELSE old[i]
    <3> HIDE DEF old, c
    <3> QED BY <2>3, <2>4
  <2>6. \A i \in 1 .. Len(old) : \A d \in old[i].open : d \in writer.places
    BY <1>3 DEF IInv, SlotsKnown
  <2> HIDE DEF slots, old, c
  <2>7. ASSUME NEW i \in 1 .. Len(slots), NEW d \in slots[i].open PROVE d \in places
    <3>1. i \in 1 .. Len(old) /\ old[i] \in Slots /\ old[i].open # {e} /\ slots[i] = old[i]
      BY <1>2, <2>4, <2>5, <2>7
    <3>2. old[i].open \in Holders
      BY <3>1 DEF Slots
    <3> QED BY <1>2, <2>6, <2>7, <3>1, <3>2 DEF Holders
  <2>8. places \in SUBSET Exchanges
    BY DEF IInv, TypeOK
  <2>9. /\ SlotsKnown' /\ HeadsOpen' /\ writer'.places = places
        /\ writer' \in [waiting: [Files -> Seq(Slots)], places: SUBSET Exchanges]
        /\ disk' \in [Files -> Seq(Seq(Records))]
    BY <1>3, <2>2, <2>5, <2>7, <2>8, QueuesKeep
  <2>10. TypeOK' /\ Commanded' /\ Given' /\ ReserveFirst' /\ Unreserved'
    BY <2>9, HandleKeeps
  <2>11. Promised'
    BY <1>2, <1>7, <2>9
  <2> QED BY <2>9, <2>10, <2>11 DEF IInv
<1> QED BY <1>8, <1>9

-----------------------------------------------------------------------------
\* Every step of a handler, a release or the writer keeps it.
THEOREM NextInv == IInv /\ [Next]_vars => IInv'
<1> SUFFICES ASSUME IInv, [Next]_vars PROVE IInv'
  OBVIOUS
<1>1. CASE Handle
  BY <1>1, HandleWriteInv, HandleReserveInv, HandleFillInv DEF Handle
<1>2. ASSUME NEW e \in Exchanges,
             \/ Arrive(e) \/ Pass(e) \/ Observe(e) \/ RecordRequest(e) \/ ReservePlace(e)
             \/ Answer(e) \/ GivePlaceUp(e) \/ MoveRequest(e) \/ FillPlace(e) \/ RecordAnswer(e)
             \/ Emit(e) \/ RecordFrame(e) \/ EndStream(e) \/ Abandon(e) \/ Release(e)
      PROVE  IInv'
  BY <1>2, ArriveInv, PassInv, ObserveInv, RecordRequestInv, ReservePlaceInv, AnswerInv, GivePlaceUpInv,
     MoveRequestInv, FillPlaceInv, RecordAnswerInv, EmitInv, RecordFrameInv, EndStreamInv, AbandonInv, ReleaseInv
<1>3. CASE UNCHANGED vars
  BY <1>3 DEF vars, IInv, TypeOK, Commanded, Unreserved, Given, ReserveFirst, Reserves, Promised, Spoken, Fills,
              SlotsKnown, HeadsOpen
<1> QED BY <1>1, <1>2, <1>3 DEF Next

\* The inductive invariant holds of every behaviour of the tap.
THEOREM Invariance == Spec => []IInv
<1> QED BY InitInv, NextInv, PTL DEF Spec

\* Whatever an exchange, the channel and the writer's queues hold is of its
\* type, and the channel is never past its capacity.
THEOREM TypeCorrect == Spec => []TypeOK
<1>1. IInv => TypeOK
  BY DEF IInv
<1> QED BY <1>1, Invariance, PTL

\* A place is held only by an exchange that goes on or whose word on it is on
\* its way, and records wait for nothing else, whoever leaves and whatever is
\* full (tap.rs Reservation, tap/writer.rs Writer::handle).
THEOREM PlacesAreReleased == Spec => []HeldForTheLiving
<1>1. IInv => HeldForTheLiving
  <2> SUFFICES ASSUME IInv, NEW f \in Files
               PROVE  /\ writer.waiting[f] # <<>> => IsOpen(Head(writer.waiting[f]))
                      /\ \A slot \in Range(writer.waiting[f]) : \A e \in slot.open :
                            /\ e \in writer.places
                            /\ \/ Holding(exchange[e]) \/ e \in releases
                               \/ \E i \in DOMAIN channel : channel[i].kind = "fill" /\ channel[i].place = {e}
    BY DEF HeldForTheLiving
  <2>1. /\ writer.waiting[f] \in Seq(Slots) /\ channel \in Seq(Commands)
        /\ DOMAIN writer.waiting[f] = 1 .. Len(writer.waiting[f]) /\ DOMAIN channel = 1 .. Len(channel)
    <3>1. writer.waiting[f] \in Seq(Slots) /\ channel \in Seq(Commands)
      BY DEF IInv, TypeOK, Slots, Commands
    <3>2. \A S : \A s \in Seq(S) : DOMAIN s = 1 .. Len(s)
      OBVIOUS
    <3> QED BY <3>1, <3>2
  <2>2. writer.waiting[f] # <<>> => IsOpen(Head(writer.waiting[f]))
    BY <2>1 DEF IInv, HeadsOpen
  <2>3. ASSUME NEW slot \in Range(writer.waiting[f]), NEW e \in slot.open
        PROVE  e \in writer.places /\ Spoken(e)
    <3>1. PICK k \in 1 .. Len(writer.waiting[f]) : slot = writer.waiting[f][k]
      BY <2>1 DEF Range
    <3>2. e \in writer.places /\ e \in Exchanges
      BY <2>3, <3>1 DEF IInv, SlotsKnown, TypeOK
    <3> QED BY <3>2 DEF IInv, Promised
  <2> QED BY <2>1, <2>2, <2>3 DEF Spoken, Fills
<1> QED BY <1>1, Invariance, PTL

-----------------------------------------------------------------------------
(* The order of a file.  What is recorded for a file stands in its disk, then *)
(* in what waits for it, then in the channel: every event has a place in that *)
(* row, which only the writer moves, and never past another.                  *)

Late(x) == x.step \in {"streaming", "framing", "done", "gone"}

\* The p-th event of exchange x has been recorded or passed on.
SentOf(x, p) ==
    IF p = 0 THEN ~Early(x)
    ELSE Late(x) /\ (p > 1 => p - 1 <= x.frames /\ (x.step = "framing" => p - 1 < x.frames))

Sent(u) == SentOf(exchange[u[1]], u[2])

\* An open place stands for the request of its exchange.
InSlot(u, slot) == Speaks(slot.lines, u) \/ \E e \in slot.open : u = RequestOf(e)

InQueue(d, w, u, n) ==
    \/ n \in 1 .. Len(d) /\ Speaks(d[n], u)
    \/ \E i \in 1 .. Len(w) : n = Len(d) + i /\ InSlot(u, w[i])

InCommand(f, u, c) ==
    /\ c.file = f
    /\ \/ c.kind = "write" /\ Speaks(c.lines, u)
       \/ c.kind = "reserve" /\ \E e \in c.place : u = RequestOf(e)

\* Where the channel begins in the row of f, and where it ends.
Begins(f) == Len(disk[f]) + Len(writer.waiting[f])
Ends(f)   == Begins(f) + Len(channel)

\* u is the n-th of the row of f.
At(f, u, n) ==
    \/ InQueue(disk[f], writer.waiting[f], u, n)
    \/ \E i \in 1 .. Len(channel) : n = Begins(f) + i /\ InCommand(f, u, channel[i])

\* u was known when v was uttered, or v is a later event of its exchange.
Before(u, v) == <<u, v>> \in past \/ (u[1] = v[1] /\ u[2] < v[2])

\* Nobody knows of what has not been recorded or passed on.
KnownSent ==
    /\ \A u \in heard \union told : Sent(u)
    /\ \A p \in past : Sent(p[1]) /\ p[1] # p[2]

\* A place is filled with its exchange's request, or nothing.
FillsOwn ==
    \A i \in 1 .. Len(channel) : channel[i].kind = "fill" =>
        \A u \in Events : Speaks(channel[i].lines, u) => u[2] = 0 /\ channel[i].place = {u[1]}

Located == \A f \in Files, u \in Events, n \in Nat : At(f, u, n) => Sent(u)

Ordered ==
    \A f \in Files, u, v \in Events, m, n \in Nat : Before(u, v) /\ At(f, u, m) /\ At(f, v, n) => m < n

\* Nothing is recorded twice.
Once == \A f \in Files, u \in Events, m, n \in Nat : At(f, u, m) /\ At(f, u, n) => m = n

\* A session is begun by one exchange, and used by those who learnt of it.
Founded ==
    \A d, e \in Exchanges :
        exchange[d].names = "nothing" /\ exchange[e].names = "nothing" /\ exchange[d].id = exchange[e].id
            /\ exchange[d].id \in Ids => d = e

LearntFrom ==
    \A e \in Exchanges :
        /\ exchange[e].names = "session" =>
              \E y \in Exchanges : exchange[y].names = "nothing" /\ exchange[y].id = exchange[e].id
                                   /\ AnswerOf(y) \in told
        /\ exchange[e].names = "invented" => exchange[e].id = NoId

\* The file of an exchange, the session it is about, and the frame it is at.
Right(x) ==
    /\ x.file \in Ids => /\ x.id = x.file /\ x.step \notin {"idle", "read", "passing"}
                         /\ x.names = "nothing" => (x.step \in {"moving", "answered"} \/ Late(x))
    /\ x.step \in {"giving", "settling", "moving"} => x.names = "nothing"
    /\ x.step = "moving" => x.file \in Ids
    /\ x.step = "framing" => x.frames > 0

FileIs == \A e \in Exchanges : Right(exchange[e])

\* Before the request that began a session is moved there, its file has nothing.
AtHome ==
    \A id \in Ids, u \in Events, n \in Nat :
        At(id, u, n) => exchange[u[1]].file = id /\ exchange[u[1]].step # "moving"

OInv ==
    /\ KnownSent /\ FillsOwn /\ Located /\ Ordered /\ Once
    /\ Founded /\ LearntFrom /\ FileIs /\ AtHome

-----------------------------------------------------------------------------
(* The row of a file. *)

LEMMA Sums ==
    ASSUME NEW a \in Nat, NEW b \in Nat, NEW c \in Nat
    PROVE  /\ a + b \in Nat /\ a + b + c \in Nat /\ a <= a + b + c
           /\ \A i \in 1 .. a : i \in Nat /\ i <= a + b + c
           /\ \A i \in 1 .. b : a + i \in Nat /\ a + i <= a + b + c
           /\ \A i \in 1 .. c : a + b + i \in Nat /\ a + b + i <= a + b + c
OBVIOUS

LEMMA RowShape ==
    ASSUME IInv, NEW f \in Files
    PROVE  /\ disk[f] \in Seq(Seq(Records)) /\ writer.waiting[f] \in Seq(Slots) /\ channel \in Seq(Commands)
           /\ Len(disk[f]) \in Nat /\ Len(writer.waiting[f]) \in Nat /\ Len(channel) \in Nat
           /\ Begins(f) \in Nat /\ Ends(f) \in Nat
<1>1. disk[f] \in Seq(Seq(Records)) /\ writer.waiting[f] \in Seq(Slots) /\ channel \in Seq(Commands)
  BY DEF IInv, TypeOK, Slots, Commands
<1>2. Len(disk[f]) \in Nat /\ Len(writer.waiting[f]) \in Nat /\ Len(channel) \in Nat
  BY <1>1, LenProperties
<1>3. Begins(f) \in Nat /\ Ends(f) \in Nat
  BY <1>2, Sums, Zenon DEF Begins, Ends
<1> QED BY <1>1, <1>2, <1>3

\* No event is beyond the end of a row.
LEMMA RowEnds ==
    ASSUME IInv, NEW f \in Files, NEW u, NEW n, At(f, u, n)
    PROVE  n \in Nat /\ n <= Ends(f)
<1>1. /\ Len(disk[f]) \in Nat /\ Len(writer.waiting[f]) \in Nat /\ Len(channel) \in Nat
      /\ Begins(f) = Len(disk[f]) + Len(writer.waiting[f]) /\ Ends(f) = Begins(f) + Len(channel)
  BY RowShape DEF Begins, Ends
<1> DEFINE a == Len(disk[f])
           b == Len(writer.waiting[f])
           c == Len(channel)
<1>2. \/ n \in 1 .. a
      \/ \E i \in 1 .. b : n = a + i
      \/ \E i \in 1 .. c : n = a + b + i
  BY <1>1, Zenon DEF At, InQueue
<1>3. a \in Nat /\ b \in Nat /\ c \in Nat /\ Ends(f) = a + b + c
  BY <1>1
<1> HIDE DEF a, b, c
<1> QED BY <1>2, <1>3

\* A command that is sent is the last of its file's row.
LEMMA RowGrows ==
    ASSUME IInv, NEW c \in Commands, channel' = Append(channel, c), UNCHANGED <<writer, disk>>,
           NEW f \in Files, NEW u, NEW n, At(f, u, n)'
    PROVE  At(f, u, n) \/ (n = Ends(f) + 1 /\ InCommand(f, u, c))
<1>1. channel \in Seq(Commands) /\ Len(channel) \in Nat
  BY RowShape
<1>2. /\ Len(channel') = Len(channel) + 1 /\ channel'[Len(channel) + 1] = c
      /\ \A i \in 1 .. Len(channel) : channel'[i] = channel[i]
  BY <1>1, AppendProperties
<1>3. Begins(f)' = Begins(f) /\ Begins(f) \in Nat /\ Ends(f) = Begins(f) + Len(channel)
  BY RowShape DEF Begins, Ends
<1>4. CASE InQueue(disk[f], writer.waiting[f], u, n)
  BY <1>4 DEF At
<1>5. CASE ~InQueue(disk[f], writer.waiting[f], u, n)
  <2>1. PICK i \in 1 .. Len(channel') : n = Begins(f) + i /\ InCommand(f, u, channel'[i])
    BY <1>3, <1>5 DEF At, InCommand
  <2>2. CASE i \in 1 .. Len(channel)
    BY <1>2, <2>1, <2>2 DEF At
  <2>3. CASE i = Len(channel) + 1
    BY <1>2, <1>3, <2>1, <2>3
  <2> QED BY <1>1, <1>2, <2>2, <2>3
<1> QED BY <1>4, <1>5

\* The writer moves what waits to the file without changing its row.
LEMMA QueueMoves ==
    ASSUME NEW d \in Seq(Seq(Records)), NEW slots \in Seq(Slots), NEW d2 \in Seq(Seq(Records)), NEW w2 \in Seq(Slots),
           NEW n, Moved(d, slots, d2, w2, n)
    PROVE  /\ Len(d2) + Len(w2) = Len(d) + Len(slots)
           /\ \A u, m : InQueue(d2, w2, u, m) => InQueue(d, slots, u, m)
<1> DEFINE a  == Len(d)
           b  == Len(slots)
           a2 == Len(d2)
           b2 == Len(w2)
<1>1. a \in Nat /\ b \in Nat /\ a2 \in Nat /\ b2 \in Nat
  BY LenProperties
<1>2. /\ n \in 0 .. b
      /\ a2 = a + n /\ \A k \in 1 .. a : d2[k] = d[k]
      /\ \A k \in 1 .. n : slots[k].open = {} /\ Piece(d2[a + k], slots[k].lines)
      /\ b2 = b - n /\ \A k \in 1 .. b2 : w2[k] = slots[k + n]
  BY DEF Moved
<1>3. ASSUME NEW u, NEW m, InQueue(d2, w2, u, m) PROVE InQueue(d, slots, u, m)
  <2> SUFFICES \/ m \in 1 .. a /\ Speaks(d[m], u)
               \/ \E i \in 1 .. b : m = a + i /\ InSlot(u, slots[i])
    BY DEF InQueue
  <2>1. \/ m \in 1 .. a2 /\ Speaks(d2[m], u)
        \/ \E i \in 1 .. b2 : m = a2 + i /\ InSlot(u, w2[i])
    BY <1>3, Zenon DEF InQueue
  <2> HIDE DEF a, b, a2, b2
  <2>2. CASE m \in 1 .. a /\ Speaks(d2[m], u)
    BY <1>2, <2>2
  <2>3. CASE m \in 1 .. a2 /\ Speaks(d2[m], u) /\ m \notin 1 .. a
    <3> DEFINE k == m - a
    <3>1. k \in 1 .. n /\ m = a + k /\ k \in 1 .. b
      BY <1>1, <1>2, <2>3
    <3> HIDE DEF k
    <3>2. Speaks(slots[k].lines, u)
      BY <1>2, <2>3, <3>1 DEF Piece
    <3> QED BY <3>1, <3>2 DEF InSlot
  <2>4. CASE \E i \in 1 .. b2 : m = a2 + i /\ InSlot(u, w2[i])
    <3>1. PICK i \in 1 .. b2 : m = a2 + i /\ InSlot(u, w2[i])
      BY <2>4
    <3>2. i + n \in 1 .. b /\ m = a + (i + n)
      BY <1>1, <1>2, <3>1
    <3>3. InSlot(u, slots[i + n])
      BY <1>2, <3>1
    <3> QED BY <3>2, <3>3
  <2> QED BY <2>1, <2>2, <2>3, <2>4
<1>4. a2 + b2 = a + b
  <2> HIDE DEF a, b, a2, b2
  <2> QED BY <1>1, <1>2
<1> QED BY <1>3, <1>4

LEMMA QueueAdvances ==
    ASSUME IInv, NEW f \in Files, NEW slots \in Seq(Slots), NEW places \in SUBSET Exchanges, Advance(f, slots, places)
    PROVE  /\ Begins(f)' = Len(disk[f]) + Len(slots)
           /\ \A u, m : InQueue(disk'[f], writer'.waiting[f], u, m) => InQueue(disk[f], slots, u, m)
           /\ \A g \in Files \ {f} : disk'[g] = disk[g] /\ writer'.waiting[g] = writer.waiting[g]
<1>1. PICK n : Moved(disk[f], slots, disk'[f], writer'.waiting[f], n)
  BY Advances
<1>2. /\ disk[f] \in Seq(Seq(Records)) /\ disk'[f] \in Seq(Seq(Records))
      /\ \A g \in Files \ {f} : disk'[g] = disk[g] /\ writer'.waiting[g] = writer.waiting[g]
  BY Advances, RowShape
<1>3. writer'.waiting[f] \in Seq(Slots)
  <2>1. writer.waiting \in [Files -> Seq(Slots)]
    BY DEF IInv, TypeOK, Slots
  <2> QED BY <2>1, AdvanceEffect
<1>4. /\ Len(disk'[f]) + Len(writer'.waiting[f]) = Len(disk[f]) + Len(slots)
      /\ \A u, m : InQueue(disk'[f], writer'.waiting[f], u, m) => InQueue(disk[f], slots, u, m)
  BY <1>1, <1>2, <1>3, QueueMoves
<1> QED BY <1>2, <1>4 DEF Begins

\* A slot that is queued is the last of the queue.
LEMMA QueueTakes ==
    ASSUME IInv, NEW f \in Files, NEW slot \in Slots, NEW places \in SUBSET Exchanges,
           Advance(f, Append(writer.waiting[f], slot), places)
    PROVE  /\ Begins(f)' = Begins(f) + 1
           /\ \A u, m : InQueue(disk'[f], writer'.waiting[f], u, m) =>
                           InQueue(disk[f], writer.waiting[f], u, m) \/ (m = Begins(f) + 1 /\ InSlot(u, slot))
           /\ \A g \in Files \ {f} : disk'[g] = disk[g] /\ writer'.waiting[g] = writer.waiting[g]
<1> DEFINE w == writer.waiting[f]
           slots == Append(w, slot)
<1>1. w \in Seq(Slots) /\ Len(w) \in Nat /\ Len(disk[f]) \in Nat
  BY RowShape
<1>2. /\ slots \in Seq(Slots) /\ Len(slots) = Len(w) + 1 /\ slots[Len(w) + 1] = slot
      /\ \A i \in 1 .. Len(w) : slots[i] = w[i]
  BY <1>1, AppendProperties
<1> HIDE DEF slots
<1>3. /\ Begins(f)' = Len(disk[f]) + Len(slots)
      /\ \A u, m : InQueue(disk'[f], writer'.waiting[f], u, m) => InQueue(disk[f], slots, u, m)
      /\ \A g \in Files \ {f} : disk'[g] = disk[g] /\ writer'.waiting[g] = writer.waiting[g]
  BY <1>2, QueueAdvances DEF slots
<1> DEFINE a == Len(disk[f])
           b == Len(w)
<1>4. ASSUME NEW u, NEW m, InQueue(disk[f], slots, u, m)
      PROVE  InQueue(disk[f], w, u, m) \/ (m = Begins(f) + 1 /\ InSlot(u, slot))
  <2>1. CASE m \in 1 .. a /\ Speaks(disk[f][m], u)
    BY <2>1 DEF InQueue
  <2>2. CASE \E i \in 1 .. Len(slots) : m = a + i /\ InSlot(u, slots[i])
    <3>1. PICK i \in 1 .. b + 1 : m = a + i /\ InSlot(u, slots[i])
      BY <1>2, <2>2
    <3>2. CASE i \in 1 .. b
      BY <1>2, <3>1, <3>2 DEF InQueue
    <3>3. CASE i = b + 1
      <4>1. m = a + (b + 1) /\ Begins(f) = a + b
        BY <3>1, <3>3 DEF Begins
      <4>2. a \in Nat /\ b \in Nat
        BY <1>1
      <4> HIDE DEF a, b
      <4>3. m = Begins(f) + 1
        BY <4>1, <4>2
      <4> QED BY <1>2, <3>1, <3>3, <4>3 DEF b
    <3>4. b \in Nat
      BY <1>1
    <3> HIDE DEF b
    <3> QED BY <3>1, <3>2, <3>3, <3>4
  <2> QED BY <1>4, <2>1, <2>2, Zenon DEF InQueue
<1>5. Begins(f)' = Begins(f) + 1
  <2>1. Begins(f) = a + b /\ Begins(f)' = a + (b + 1) /\ a \in Nat /\ b \in Nat
    BY <1>1, <1>2, <1>3 DEF Begins
  <2> HIDE DEF a, b
  <2> QED BY <2>1
<1> QED BY <1>3, <1>4, <1>5

LEMMA QueueEnds ==
    ASSUME NEW d \in Seq(Seq(Records)), NEW w \in Seq(Slots), NEW u, NEW n, InQueue(d, w, u, n)
    PROVE  n \in Nat /\ n <= Len(d) + Len(w)
<1> DEFINE a == Len(d)
           b == Len(w)
<1>1. n \in 1 .. a \/ \E i \in 1 .. b : n = a + i
  BY Zenon DEF InQueue
<1>2. a \in Nat /\ b \in Nat
  BY LenProperties
<1> HIDE DEF a, b
<1>3. n \in Nat /\ n <= a + b
  BY <1>1, <1>2
<1> QED BY <1>3 DEF a, b

\* A place that is filled says nothing it did not stand for.
LEMMA QueueFills ==
    ASSUME IInv, FillsOwn, Handle, HandleFill(Head(channel)), NEW f \in Files
    PROVE  /\ Begins(f)' = Begins(f)
           /\ \A u \in Events : \A m : InQueue(disk'[f], writer'.waiting[f], u, m) =>
                                      InQueue(disk[f], writer.waiting[f], u, m)
<1>1. PICK c \in Commands : c = channel[1] /\ Head(channel) = c /\ 1 \in 1 .. Len(channel) /\ c.kind = "fill"
  BY Taken DEF HandleFill
<1>2. PICK e \in Exchanges : c.place = {e}
  BY <1>1 DEF IInv, Commanded
<1>3. c.file = Stateless /\ c.file \in Files
  BY <1>1 DEF IInv, Commanded, Files
<1>4. CASE ~(c.place \subseteq writer.places)
  <2>1. writer' = writer /\ disk' = disk
    BY <1>1, <1>4, Zenon DEF HandleFill
  <2> QED BY <2>1 DEF Begins
<1>5. CASE c.place \subseteq writer.places
  <2> DEFINE old == writer.waiting[c.file]
             slots == [i \in DOMAIN old |-> IF old[i].open = c.place THEN Ready(c.lines) ELSE old[i]]
             places == writer.places \ c.place
  <2>1. Advance(c.file, slots, places)
    BY <1>1, <1>5, Zenon DEF HandleFill
  <2>2. old \in Seq(Slots) /\ places \in SUBSET Exchanges
    BY <1>3 DEF IInv, TypeOK, Slots
  <2>3. Ready(c.lines) \in Slots /\ Ready(c.lines).open = {} /\ Ready(c.lines).lines = c.lines
    BY <1>1 DEF Ready, Slots, Holders, Commands
  <2>4. /\ slots \in Seq(Slots) /\ Len(slots) = Len(old)
        /\ \A i \in 1 .. Len(slots) : slots[i] = IF old[i].open = c.place THEN Ready(c.lines) ELSE old[i]
    <3> HIDE DEF old
    <3> QED BY <2>2, <2>3
  <2>5. \A u \in Events : Speaks(c.lines, u) => u = RequestOf(e)
    <3>1. \A u \in Events : Speaks(c.lines, u) => u[2] = 0 /\ u[1] = e
      BY <1>1, <1>2 DEF FillsOwn
    <3>2. \A u \in Events : u = <<u[1], u[2]>>
      BY DEF Events
    <3> QED BY <3>1, <3>2 DEF RequestOf
  <2> HIDE DEF slots, old, places
  <2>6. \A u \in Events : \A i \in 1 .. Len(slots) : InSlot(u, slots[i]) => InSlot(u, old[i])
    <3> SUFFICES ASSUME NEW u \in Events, NEW i \in 1 .. Len(slots), InSlot(u, slots[i]) PROVE InSlot(u, old[i])
      OBVIOUS
    <3>1. CASE old[i].open = c.place
      <4>1. Speaks(c.lines, u)
        BY <2>3, <2>4, <3>1 DEF InSlot
      <4>2. u = RequestOf(e) /\ e \in old[i].open
        BY <1>2, <2>5, <3>1, <4>1
      <4> QED BY <4>2 DEF InSlot
    <3>2. CASE old[i].open # c.place
      BY <2>4, <3>2
    <3> QED BY <3>1, <3>2
  <2>7. \A u \in Events : \A m : InQueue(disk[c.file], slots, u, m) => InQueue(disk[c.file], old, u, m)
    BY <2>4, <2>6 DEF InQueue
  <2>8. /\ Begins(c.file)' = Len(disk[c.file]) + Len(slots)
        /\ \A u, m : InQueue(disk'[c.file], writer'.waiting[c.file], u, m) => InQueue(disk[c.file], slots, u, m)
        /\ \A g \in Files \ {c.file} : disk'[g] = disk[g] /\ writer'.waiting[g] = writer.waiting[g]
    BY <1>3, <2>1, <2>2, <2>4, QueueAdvances
  <2>9. CASE f = c.file
    BY <2>4, <2>7, <2>8, <2>9 DEF Begins, old
  <2>10. CASE f # c.file
    BY <2>8, <2>10 DEF Begins
  <2> QED BY <2>9, <2>10
<1> QED BY <1>4, <1>5

\* What the writer takes from the channel was the first behind the queue.
QueueStep(f, s) ==
    /\ s \in {0, 1} /\ Begins(f)' + s = Begins(f) + 1
    /\ \A u \in Events : \A m : InQueue(disk'[f], writer'.waiting[f], u, m) =>
          \/ InQueue(disk[f], writer.waiting[f], u, m)
          \/ m = Begins(f) + 1 /\ InCommand(f, u, channel[1])

LEMMA QueueSteps ==
    ASSUME IInv, FillsOwn, Handle, NEW f \in Files
    PROVE  \E s : QueueStep(f, s)
<1>1. PICK c \in Commands : c = channel[1] /\ Head(channel) = c /\ Begins(f) \in Nat
  BY Taken, RowShape
<1>2. c.file \in Files /\ c.lines \in Seq(Records) /\ writer.places \in SUBSET Exchanges
  BY <1>1 DEF Commands, IInv, TypeOK
<1>3. CASE HandleFill(c)
  <2>1. QueueStep(f, 1)
    BY <1>1, <1>3, QueueFills DEF QueueStep
  <2> QED BY <2>1
<1>4. ASSUME NEW slot \in Slots, NEW places \in SUBSET Exchanges,
             Advance(c.file, Append(writer.waiting[c.file], slot), places),
             \A u \in Events : InSlot(u, slot) => InCommand(c.file, u, c)
      PROVE  \E s : QueueStep(f, s)
  <2>1. /\ Begins(c.file)' = Begins(c.file) + 1
        /\ \A u, m : InQueue(disk'[c.file], writer'.waiting[c.file], u, m) =>
              InQueue(disk[c.file], writer.waiting[c.file], u, m) \/ (m = Begins(c.file) + 1 /\ InSlot(u, slot))
        /\ \A g \in Files \ {c.file} : disk'[g] = disk[g] /\ writer'.waiting[g] = writer.waiting[g]
    BY <1>2, <1>4, QueueTakes
  <2>2. CASE f = c.file
    <3>1. QueueStep(f, 0)
      BY <1>1, <1>4, <2>1, <2>2 DEF QueueStep
    <3> QED BY <3>1
  <2>3. CASE f # c.file
    <3>1. QueueStep(f, 1)
      BY <1>1, <2>1, <2>3 DEF QueueStep, Begins
    <3> QED BY <3>1
  <2> QED BY <2>2, <2>3
<1>5. CASE HandleWrite(c)
  <2>1. /\ Ready(c.lines) \in Slots
        /\ \A u : InSlot(u, Ready(c.lines)) => Speaks(c.lines, u)
    BY <1>2 DEF Ready, Slots, Holders, InSlot
  <2>2. /\ Advance(c.file, Append(writer.waiting[c.file], Ready(c.lines)), writer.places)
        /\ c.kind = "write"
    BY <1>5 DEF HandleWrite
  <2>3. \A u : Speaks(c.lines, u) => InCommand(c.file, u, c)
    BY <2>2 DEF InCommand
  <2> QED BY <1>2, <1>4, <2>1, <2>2, <2>3
<1>6. CASE HandleReserve(c)
  <2>1. PICK e \in c.place : /\ c.kind = "reserve"
                             /\ Advance(c.file, Append(writer.waiting[c.file], Place(e)), writer.places \union {e})
    BY <1>6 DEF HandleReserve
  <2>2. e \in Exchanges
    BY <1>1, <2>1 DEF Commands, Holders
  <2>3. Place(e) \in Slots /\ \A u : InSlot(u, Place(e)) => u = RequestOf(e)
    BY <2>2 DEF Place, Slots, Holders, InSlot, Speaks
  <2>4. \A u : u = RequestOf(e) => InCommand(c.file, u, c)
    BY <2>1 DEF InCommand
  <2>5. writer.places \union {e} \in SUBSET Exchanges
    BY <1>2, <2>2
  <2> QED BY <1>4, <2>1, <2>3, <2>4, <2>5
<1> QED BY <1>1, <1>3, <1>5, <1>6 DEF Handle

\* The row of a file as the writer takes a command: what is behind the command
\* moves up, if it was not this file's, and nothing passes anything.
LEMMA RowMoves ==
    ASSUME IInv, FillsOwn, Handle, NEW f \in Files
    PROVE  \E k \in Nat, s \in {0, 1} :
              \A u \in Events : \A n : At(f, u, n)' => n \in Nat /\ At(f, u, IF n <= k THEN n ELSE n + s)
<1>1. PICK s : QueueStep(f, s)
  BY QueueSteps
<1>2. PICK k \in Nat, b \in Nat : k = Begins(f)' /\ b = Begins(f) /\ s \in {0, 1} /\ k + s = b + 1
  <2>1. disk'[f] \in Seq(Seq(Records)) /\ writer'.waiting[f] \in Seq(Slots)
    BY NextInv DEF Next, IInv, TypeOK, Slots
  <2>2. Len(disk'[f]) \in Nat /\ Len(writer'.waiting[f]) \in Nat
    BY <2>1, LenProperties
  <2>3. Begins(f)' \in Nat
    BY <2>2, Sums, Zenon DEF Begins
  <2> QED BY <1>1, <2>3, RowShape DEF QueueStep
<1>3. /\ Len(channel) \in Nat \ {0} /\ 1 \in 1 .. Len(channel)
      /\ Len(channel') = Len(channel) - 1
      /\ \A i \in 1 .. Len(channel') : i + 1 \in 1 .. Len(channel) /\ channel'[i] = channel[i + 1]
  BY Taken
<1>5. ASSUME NEW u, NEW n, InQueue(disk'[f], writer'.waiting[f], u, n) PROVE n \in Nat /\ n <= k
  <2>1. disk'[f] \in Seq(Seq(Records)) /\ writer'.waiting[f] \in Seq(Slots)
    BY NextInv DEF Next, IInv, TypeOK, Slots
  <2> QED BY <1>2, <1>5, <2>1, QueueEnds DEF Begins
<1>4. ASSUME NEW u \in Events, NEW n, At(f, u, n)'
      PROVE  n \in Nat /\ At(f, u, IF n <= k THEN n ELSE n + s)
  <2>1. CASE InQueue(disk'[f], writer'.waiting[f], u, n)
    <3>1. n \in Nat /\ n <= k
      BY <1>5, <2>1
    <3>2. CASE InQueue(disk[f], writer.waiting[f], u, n)
      BY <3>1, <3>2 DEF At
    <3>3. CASE n = b + 1 /\ InCommand(f, u, channel[1])
      BY <1>2, <1>3, <3>1, <3>3 DEF At
    <3> QED BY <1>1, <1>2, <2>1, <3>2, <3>3 DEF QueueStep
  <2>2. CASE \E i \in 1 .. Len(channel') : n = k + i /\ InCommand(f, u, channel'[i])
    <3>1. PICK i \in 1 .. Len(channel') : n = k + i /\ InCommand(f, u, channel'[i])
      BY <2>2
    <3>4. i \in Nat \ {0}
      BY <1>3
    <3>2. n \in Nat /\ ~(n <= k) /\ n + s = b + (i + 1)
      BY <1>2, <3>1, <3>4
    <3>3. At(f, u, b + (i + 1))
      BY <1>2, <1>3, <3>1 DEF At
    <3> QED BY <3>2, <3>3
  <2> QED BY <1>2, <1>4, <2>1, <2>2, Zenon DEF At, InCommand
<1> QED BY <1>2, <1>4

-----------------------------------------------------------------------------
(* How an exchange goes on. *)

\* Every part of x but its step is as y's.
Same(y, x) ==
    /\ x.names = y.names /\ x.id = y.id /\ x.carries = y.carries
    /\ x.answer = y.answer /\ x.file = y.file /\ x.frames = y.frames

\* An id the service may assign to an exchange that names a session, or none.
Assignable(y) == IF y.names = "nothing" THEN {NoId} \union (Ids \ Assigned) ELSE {y.id}

Turn(y, x) ==
    \/ /\ y.step = "idle" /\ x.step = IF x.carries = "large" THEN "passing" ELSE "read"
       /\ x.file = Stateless /\ x.frames = 0
       /\ x.id \in IF x.names = "session" THEN Learnt ELSE {NoId}
    \/ /\ y.step = "passing" /\ x.step = "done" /\ x.id \in Assignable(y)
       /\ x.names = y.names /\ x.carries = y.carries /\ x.file = y.file /\ x.frames = y.frames
    \/ /\ y.step = "read"
       /\ x.step = IF y.names = "nothing" THEN "reserving" ELSE "recording"
       /\ x.file = IF y.names = "nothing" THEN Stateless ELSE IF y.id \in files THEN y.id ELSE Unassigned
       /\ x.names = y.names /\ x.id = y.id /\ x.carries = y.carries /\ x.frames = y.frames
    \/ y.step \in {"recording", "reserving"} /\ x.step = "serving" /\ Same(y, x)
    \/ /\ y.step = "serving" /\ x.id \in Assignable(y)
       /\ x.step = IF y.names # "nothing" THEN "answered" ELSE IF x.id # NoId THEN "giving" ELSE "settling"
       /\ x.names = y.names /\ x.carries = y.carries /\ x.file = y.file /\ x.frames = y.frames
    \/ /\ y.step = "giving" /\ x.step = "moving" /\ x.file = y.id
       /\ x.names = y.names /\ x.id = y.id /\ x.carries = y.carries /\ x.answer = y.answer /\ x.frames = y.frames
    \/ y.step \in {"moving", "settling"} /\ x.step = "answered" /\ Same(y, x)
    \/ y.step = "answered" /\ x.step \in {"streaming", "done"} /\ Same(y, x)
    \/ /\ y.step = "streaming" /\ x.step = "framing" /\ x.frames = y.frames + 1
       /\ x.names = y.names /\ x.id = y.id /\ x.carries = y.carries /\ x.answer = y.answer /\ x.file = y.file
    \/ y.step = "framing" /\ x.step = "streaming" /\ Same(y, x)
    \/ y.step = "streaming" /\ x.step = "done" /\ Same(y, x)
    \/ y.step \notin {"idle", "passing", "done", "gone"} /\ x.step = "gone" /\ Same(y, x)
    \/ x = y

Turned(e) == \E x \in ExchangeType : exchange' = [exchange EXCEPT ![e] = x] /\ Turn(exchange[e], x)

\* A step by which only the step of an exchange changes.
LEMMA Steps1 ==
    ASSUME IInv, NEW e \in Exchanges, NEW step \in Steps, Step(e, step)
    PROVE  \E x \in ExchangeType :
              exchange' = [exchange EXCEPT ![e] = x] /\ x.step = step /\ Same(exchange[e], x)
<1> DEFINE x == [exchange[e] EXCEPT !.step = step]
<1>1. exchange[e] \in ExchangeType
  BY Kept
<1>2. x \in ExchangeType /\ x.step = step /\ Same(exchange[e], x)
  BY <1>1 DEF ExchangeType, Same
<1>3. exchange' = [exchange EXCEPT ![e] = x]
  BY DEF Step
<1> QED BY <1>2, <1>3

LEMMA ArriveTurns == ASSUME IInv, NEW e \in Exchanges, Arrive(e) PROVE Turned(e)
<1>1. PICK names \in setting.names, carries \in setting.carries, id \in Learnt \union {NoId} :
          /\ id \in IF names = "session" THEN Learnt ELSE {NoId}
          /\ exchange' = [exchange EXCEPT ![e] = [Idle EXCEPT !.names = names, !.id = id, !.carries = carries,
                             !.step = IF carries = "large" THEN "passing" ELSE "read"]]
  BY DEF Arrive
<1> DEFINE x == [Idle EXCEPT !.names = names, !.id = id, !.carries = carries,
                             !.step = IF carries = "large" THEN "passing" ELSE "read"]
<1>2. names \in Names /\ carries \in Carries
  BY TapAssumption DEF IInv, TypeOK, Setting
<1>3. id \in Ids \union {NoId}
  BY DEF Learnt, IInv, TypeOK
<1>4. /\ x \in ExchangeType /\ x.step = IF carries = "large" THEN "passing" ELSE "read"
      /\ x.names = names /\ x.id = id /\ x.carries = carries /\ x.file = Stateless /\ x.frames = 0
  <2>1. Idle \in ExchangeType
    BY TapAssumption DEF Idle, ExchangeType, Steps, Names, Carries, Answers, Files
  <2> QED BY <1>2, <1>3, <2>1 DEF ExchangeType, Steps, Idle
<1> HIDE DEF x
<1>5. exchange' = [exchange EXCEPT ![e] = x]
  BY <1>1 DEF x
<1>6. exchange[e].step = "idle"
  BY DEF Arrive
<1>7. Turn(exchange[e], x)
  BY <1>1, <1>4, <1>6 DEF Turn
<1> QED BY <1>4, <1>5, <1>7 DEF Turned

LEMMA PassTurns == ASSUME IInv, NEW e \in Exchanges, Pass(e) PROVE Turned(e)
<1>1. PICK id \in Assignable(exchange[e]) :
           exchange' = [exchange EXCEPT ![e] = [exchange[e] EXCEPT !.step = "done", !.id = id]]
  BY DEF Pass, Assignable
<1> DEFINE x == [exchange[e] EXCEPT !.step = "done", !.id = id]
<1>2. exchange[e] \in ExchangeType /\ id \in Ids \union {NoId}
  BY Kept DEF Assignable, ExchangeType
<1>3. /\ x \in ExchangeType /\ x.step = "done" /\ x.id = id /\ x.names = exchange[e].names
      /\ x.carries = exchange[e].carries /\ x.file = exchange[e].file /\ x.frames = exchange[e].frames
  BY <1>2 DEF ExchangeType, Steps
<1> HIDE DEF x
<1>4. exchange' = [exchange EXCEPT ![e] = x] /\ exchange[e].step = "passing"
  BY <1>1 DEF x, Pass
<1>5. Turn(exchange[e], x)
  BY <1>3, <1>4 DEF Turn
<1> QED BY <1>3, <1>4, <1>5 DEF Turned

LEMMA ObserveTurns == ASSUME IInv, NEW e \in Exchanges, Observe(e) PROVE Turned(e)
<1> DEFINE step == IF exchange[e].names = "nothing" THEN "reserving" ELSE "recording"
           file == IF exchange[e].names = "nothing" THEN Stateless
                   ELSE IF exchange[e].id \in files THEN exchange[e].id ELSE Unassigned
           x    == [exchange[e] EXCEPT !.step = step, !.file = file]
<1>1. step \in Steps /\ file \in Files
  BY Kept DEF Steps, Files
<1>2. exchange[e] \in ExchangeType
  BY Kept
<1>3. /\ x \in ExchangeType /\ x.step = step /\ x.file = file /\ x.names = exchange[e].names
      /\ x.id = exchange[e].id /\ x.carries = exchange[e].carries /\ x.frames = exchange[e].frames
  <2> HIDE DEF step, file
  <2> QED BY <1>1, <1>2 DEF ExchangeType
<1>4. exchange' = [exchange EXCEPT ![e] = x] /\ exchange[e].step = "read"
  BY DEF Observe
<1> HIDE DEF x
<1>5. Turn(exchange[e], x)
  BY <1>3, <1>4 DEF Turn
<1> QED BY <1>3, <1>4, <1>5 DEF Turned

LEMMA AnswerTurns == ASSUME IInv, NEW e \in Exchanges, Answer(e) PROVE Turned(e)
<1>1. PICK answer \in setting.answers, id \in Assignable(exchange[e]) :
          exchange' = [exchange EXCEPT ![e] = [exchange[e] EXCEPT !.answer = answer, !.id = id,
                   !.step = IF exchange[e].names # "nothing" THEN "answered"
                            ELSE IF id # NoId THEN "giving" ELSE "settling"]]
  BY DEF Answer, Assignable
<1> DEFINE step == IF exchange[e].names # "nothing" THEN "answered"
                   ELSE IF id # NoId THEN "giving" ELSE "settling"
           x == [exchange[e] EXCEPT !.answer = answer, !.id = id, !.step = step]
<1>2. answer \in Answers /\ step \in Steps /\ exchange[e] \in ExchangeType /\ id \in Ids \union {NoId}
  BY TapAssumption, Kept DEF IInv, TypeOK, Setting, Steps, Assignable, ExchangeType
<1>3. /\ x \in ExchangeType /\ x.step = step /\ x.id = id /\ x.names = exchange[e].names
      /\ x.carries = exchange[e].carries /\ x.file = exchange[e].file /\ x.frames = exchange[e].frames
  <2> HIDE DEF step
  <2> QED BY <1>2 DEF ExchangeType
<1>4. exchange' = [exchange EXCEPT ![e] = x] /\ exchange[e].step = "serving"
  BY <1>1 DEF Answer
<1> HIDE DEF x
<1>5. Turn(exchange[e], x)
  BY <1>3, <1>4 DEF Turn
<1> QED BY <1>3, <1>4, <1>5 DEF Turned

LEMMA GivePlaceUpTurns == ASSUME IInv, NEW e \in Exchanges, GivePlaceUp(e) PROVE Turned(e)
<1> DEFINE x == [exchange[e] EXCEPT !.step = "moving", !.file = exchange[e].id]
<1>1. exchange[e].step = "giving" /\ exchange' = [exchange EXCEPT ![e] = x]
  BY DEF GivePlaceUp, Sends
<1>2. exchange[e] \in ExchangeType /\ exchange[e].id \in Files
  BY <1>1, Kept DEF IInv, Given, Files
<1>3. /\ x \in ExchangeType /\ x.step = "moving" /\ x.file = exchange[e].id /\ x.names = exchange[e].names
      /\ x.id = exchange[e].id /\ x.carries = exchange[e].carries /\ x.answer = exchange[e].answer
      /\ x.frames = exchange[e].frames
  BY <1>2 DEF ExchangeType, Steps
<1> HIDE DEF x
<1>4. Turn(exchange[e], x)
  BY <1>1, <1>3 DEF Turn
<1> QED BY <1>1, <1>3, <1>4 DEF Turned

LEMMA EmitTurns == ASSUME IInv, NEW e \in Exchanges, Emit(e) PROVE Turned(e)
<1> DEFINE frames == exchange[e].frames + 1
           x == [exchange[e] EXCEPT !.step = "framing", !.frames = frames]
<1>1. frames \in 0 .. MaxFrames /\ exchange[e] \in ExchangeType
  BY Kept, TapAssumption DEF Emit, ExchangeType
<1>2. /\ x \in ExchangeType /\ x.step = "framing" /\ x.frames = frames /\ x.names = exchange[e].names
      /\ x.id = exchange[e].id /\ x.carries = exchange[e].carries /\ x.answer = exchange[e].answer
      /\ x.file = exchange[e].file
  <2> HIDE DEF frames
  <2> QED BY <1>1 DEF ExchangeType, Steps
<1>3. exchange' = [exchange EXCEPT ![e] = x] /\ exchange[e].step = "streaming"
  BY DEF Emit
<1> HIDE DEF x
<1>4. Turn(exchange[e], x)
  BY <1>2, <1>3 DEF Turn
<1> QED BY <1>2, <1>3, <1>4 DEF Turned

\* Every step of an exchange is a turn of it.
LEMMA Turns ==
    ASSUME IInv, NEW e \in Exchanges,
           \/ Arrive(e) \/ Pass(e) \/ Observe(e) \/ RecordRequest(e) \/ ReservePlace(e)
           \/ Answer(e) \/ GivePlaceUp(e) \/ MoveRequest(e) \/ FillPlace(e) \/ RecordAnswer(e)
           \/ Emit(e) \/ RecordFrame(e) \/ EndStream(e) \/ Abandon(e) \/ Release(e)
    PROVE  Turned(e)
<1>1. ASSUME NEW step \in Steps, Step(e, step),
             \A x \in ExchangeType : x.step = step /\ Same(exchange[e], x) => Turn(exchange[e], x)
      PROVE  Turned(e)
  BY <1>1, Steps1 DEF Turned
<1>2. CASE RecordRequest(e) \/ ReservePlace(e)
  <2>1. exchange[e].step \in {"recording", "reserving"} /\ Step(e, "serving")
    BY <1>2 DEF RecordRequest, ReservePlace, Sends, ThenServe
  <2> QED BY <1>1, <2>1 DEF Turn, Steps
<1>3. CASE MoveRequest(e) \/ FillPlace(e)
  <2>1. exchange[e].step \in {"moving", "settling"} /\ Step(e, "answered")
    BY <1>3 DEF MoveRequest, FillPlace, Sends
  <2> QED BY <1>1, <2>1 DEF Turn, Steps
<1>4. CASE RecordAnswer(e)
  <2>1. exchange[e].step = "answered" /\ Step(e, IF exchange[e].answer = "stream" THEN "streaming" ELSE "done")
    BY <1>4 DEF RecordAnswer, Sends
  <2> QED BY <1>1, <2>1 DEF Turn, Steps
<1>5. CASE RecordFrame(e)
  <2>1. exchange[e].step = "framing" /\ Step(e, "streaming")
    BY <1>5 DEF RecordFrame, Sends
  <2> QED BY <1>1, <2>1 DEF Turn, Steps
<1>6. CASE EndStream(e)
  <2>1. exchange[e].step = "streaming" /\ Step(e, "done")
    BY <1>6 DEF EndStream
  <2> QED BY <1>1, <2>1 DEF Turn, Steps
<1>7. CASE Abandon(e)
  <2>1. exchange[e].step \notin {"idle", "passing", "done", "gone"} /\ Step(e, "gone")
    BY <1>7 DEF Abandon
  <2> QED BY <1>1, <2>1 DEF Turn, Steps
<1>8. CASE Release(e)
  <2>1. exchange' = [exchange EXCEPT ![e] = exchange[e]] /\ exchange[e] \in ExchangeType
    BY <1>8, Kept DEF Release, IInv, TypeOK
  <2> QED BY <2>1 DEF Turned, Turn
<1> QED BY <1>2, <1>3, <1>4, <1>5, <1>6, <1>7, <1>8, ArriveTurns, PassTurns, ObserveTurns, AnswerTurns,
           GivePlaceUpTurns, EmitTurns

LEMMA EventParts ==
    ASSUME NEW u \in Events
    PROVE  u[1] \in Exchanges /\ u[2] \in 0 .. MaxFrames + 1 /\ u[2] \in Nat /\ u = <<u[1], u[2]>>
BY TapAssumption DEF Events

\* What has been recorded or passed on stays so, and came after what was before it.
LEMMA TurnSends ==
    ASSUME NEW y \in ExchangeType, NEW x \in ExchangeType, Turn(y, x), NEW p \in Nat, SentOf(y, p)
    PROVE  SentOf(x, p)
<1>1. y.frames \in Nat /\ x.frames \in Nat
  BY TapAssumption DEF ExchangeType
<1>2. CASE p = 0
  <2>1. ~Early(y)
    BY <1>2 DEF SentOf
  <2>2. ~Early(x)
    BY <2>1 DEF Turn, Early
  <2> QED BY <1>2, <2>2 DEF SentOf
<1>3. CASE p # 0
  <2>1. Late(y) /\ (p > 1 => p - 1 <= y.frames /\ (y.step = "framing" => p - 1 < y.frames))
    BY <1>3 DEF SentOf
  <2>2. \/ y.step = "streaming" /\ x.step = "framing" /\ x.frames = y.frames + 1
        \/ y.step = "framing" /\ x.step = "streaming" /\ x.frames = y.frames
        \/ y.step = "streaming" /\ x.step = "done" /\ x.frames = y.frames
        \/ x.step = "gone" /\ x.frames = y.frames
        \/ x = y
    BY <2>1 DEF Turn, Late, Same
  <2>3. Late(x)
    BY <2>1, <2>2 DEF Late
  <2>4. p > 1 => p - 1 <= x.frames /\ (x.step = "framing" => p - 1 < x.frames)
    BY <1>1, <2>1, <2>2
  <2> QED BY <1>3, <2>3, <2>4 DEF SentOf
<1> QED BY <1>2, <1>3

LEMMA SentDown ==
    ASSUME NEW x \in ExchangeType, NEW p \in Nat, NEW q \in Nat, p < q, SentOf(x, q)
    PROVE  SentOf(x, p)
<1>1. x.frames \in Nat
  BY TapAssumption DEF ExchangeType
<1>2. Late(x) /\ (q > 1 => q - 1 <= x.frames /\ (x.step = "framing" => q - 1 < x.frames))
  BY DEF SentOf
<1>3. ~Early(x)
  BY <1>2 DEF Late, Early
<1>4. p > 1 => p - 1 <= x.frames /\ (x.step = "framing" => p - 1 < x.frames)
  BY <1>1, <1>2
<1> QED BY <1>2, <1>3, <1>4 DEF SentOf

LEMMA SentStays ==
    ASSUME IInv, NEW e \in Exchanges, Turned(e), NEW u \in Events, Sent(u)
    PROVE  Sent(u)'
<1>1. PICK x \in ExchangeType : exchange' = [exchange EXCEPT ![e] = x] /\ Turn(exchange[e], x)
  BY DEF Turned
<1>2. u[1] \in Exchanges /\ u[2] \in Nat
  BY EventParts
<1>3. \A d \in Exchanges : exchange'[d] = IF d = e THEN x ELSE exchange[d]
  BY <1>1 DEF IInv, TypeOK
<1>4. exchange[e] \in ExchangeType
  BY Kept
<1>5. u[1] = e => SentOf(x, u[2])
  BY <1>1, <1>2, <1>4, TurnSends DEF Sent
<1> QED BY <1>2, <1>3, <1>5 DEF Sent

\* Sessions and their files, as an exchange goes on.
LEMMA FoundersStay ==
    ASSUME IInv, Founded, NEW e \in Exchanges, Turned(e)
    PROVE  Founded'
<1>1. PICK x \in ExchangeType : exchange' = [exchange EXCEPT ![e] = x] /\ Turn(exchange[e], x)
  BY DEF Turned
<1>2. \A d \in Exchanges : exchange'[d] = IF d = e THEN x ELSE exchange[d]
  BY <1>1 DEF IInv, TypeOK
<1>3. x.names = "nothing" /\ x.id \in Ids =>
         \/ x.id = exchange[e].id /\ exchange[e].names = "nothing"
         \/ x.id \notin Assigned
  BY <1>1, TapAssumption DEF Turn, Same, Assignable
<1>4. \A d \in Exchanges : exchange[d].names = "nothing" /\ exchange[d].id \in Ids => exchange[d].id \in Assigned
  BY TapAssumption DEF Assigned
<1>5. ASSUME NEW d \in Exchanges, d # e, exchange[d].names = "nothing", x.names = "nothing",
             exchange[d].id = x.id, x.id \in Ids
      PROVE  FALSE
  BY <1>3, <1>4, <1>5 DEF Founded
<1> QED BY <1>2, <1>5 DEF Founded

LEMMA LearningStays ==
    ASSUME IInv, KnownSent, LearntFrom, NEW e \in Exchanges, Turned(e), told \subseteq told'
    PROVE  LearntFrom'
<1>1. PICK x \in ExchangeType : exchange' = [exchange EXCEPT ![e] = x] /\ Turn(exchange[e], x)
  BY DEF Turned
<1>2. \A d \in Exchanges : exchange'[d] = IF d = e THEN x ELSE exchange[d]
  BY <1>1 DEF IInv, TypeOK
<1> DEFINE Source(y, id) == exchange[y].names = "nothing" /\ exchange[y].id = id /\ AnswerOf(y) \in told
\* Whose answer is known is past the choice of its id.
<1>3. ASSUME NEW y \in Exchanges, AnswerOf(y) \in told
      PROVE  exchange'[y].names = exchange[y].names /\ exchange'[y].id = exchange[y].id /\ AnswerOf(y) \in told'
  <2>1. Late(exchange[y])
    BY <1>3 DEF KnownSent, Sent, SentOf, AnswerOf
  <2>2. y = e => x.names = exchange[e].names /\ x.id = exchange[e].id
    BY <1>1, <2>1 DEF Turn, Late, Same
  <2> QED BY <1>2, <1>3, <2>2
<1>4. ASSUME NEW id \in Ids, NEW y \in Exchanges, Source(y, id)
      PROVE  \E z \in Exchanges : exchange'[z].names = "nothing" /\ exchange'[z].id = id /\ AnswerOf(z) \in told'
  BY <1>3, <1>4
<1>5. ASSUME NEW d \in Exchanges, exchange[d].names = "session"
      PROVE  \E y \in Exchanges : Source(y, exchange[d].id)
  BY <1>5 DEF LearntFrom
<1>6. ASSUME NEW id \in Learnt PROVE id \in Ids /\ \E y \in Exchanges : Source(y, id)
  <2>1. PICK z \in Exchanges : AnswerOf(z) \in told /\ id = exchange[z].id /\ id # NoId
    BY <1>6 DEF Learnt
  <2>2. exchange[z] \in ExchangeType
    BY Kept
  <2>3. id \in Ids /\ exchange[z].names \in {"nothing", "session", "invented"}
    BY <2>1, <2>2 DEF ExchangeType, Names
  <2>4. exchange[z].names # "invented"
    BY <2>1 DEF LearntFrom
  <2>5. CASE exchange[z].names = "nothing"
    BY <2>1, <2>3, <2>5
  <2>6. CASE exchange[z].names = "session"
    BY <1>5, <2>1, <2>3, <2>6
  <2> QED BY <2>3, <2>4, <2>5, <2>6
<1>7. ASSUME NEW d \in Exchanges, exchange[d].names = "session" PROVE exchange[d].id \in Ids \/ exchange[d].id = NoId
  BY Kept DEF ExchangeType
<1>8. \/ x.names = exchange[e].names /\ x.id = exchange[e].id
      \/ exchange[e].names = "nothing" /\ x.names = exchange[e].names
      \/ x.id \in IF x.names = "session" THEN Learnt ELSE {NoId}
  BY <1>1 DEF Turn, Same, Assignable
<1>9. ASSUME NEW d \in Exchanges
      PROVE  /\ exchange'[d].names = "session" => \E y \in Exchanges : Source(y, exchange'[d].id)
             /\ exchange'[d].names = "invented" => exchange'[d].id = NoId
  <2> HIDE DEF Source
  <2>1. CASE exchange'[d].names = exchange[d].names /\ exchange'[d].id = exchange[d].id
    BY <1>5, <2>1 DEF LearntFrom
  <2>2. CASE d = e
    BY <1>2, <1>6, <1>8, <2>1, <2>2
  <2> QED BY <1>2, <2>1, <2>2
<1>10. ASSUME NEW d \in Exchanges, NEW id, NEW y \in Exchanges, Source(y, id)
       PROVE  \E z \in Exchanges : exchange'[z].names = "nothing" /\ exchange'[z].id = id /\ AnswerOf(z) \in told'
  BY <1>3, <1>10
<1> HIDE DEF Source
<1> QED BY <1>9, <1>10 DEF LearntFrom, AnswerOf

LEMMA TurnHomes ==
    ASSUME NEW y \in ExchangeType, NEW x \in ExchangeType, Turn(y, x), Right(y), y.step = "giving" => y.id \in Ids
    PROVE  Right(x) /\ (y.file \in Ids /\ y.step # "moving" => x.file = y.file /\ x.step # "moving")
<1>1. Stateless \notin Ids /\ Unassigned \notin Ids /\ y.frames \in Nat
  BY TapAssumption DEF ExchangeType
<1>2. CASE y.step = "idle" /\ x # y
  <2>1. x.file = Stateless /\ x.step \in {"read", "passing"}
    BY <1>2 DEF Turn
  <2> QED BY <1>1, <1>2, <2>1 DEF Right
<1>3. CASE y.step = "passing" /\ x # y
  <2>1. x.file = y.file /\ x.step = "done"
    BY <1>3 DEF Turn
  <2> QED BY <1>3, <2>1 DEF Right
<1>4. CASE y.step = "read" /\ x # y
  <2>1. CASE x.step = "gone" /\ x.file = y.file
    BY <1>4, <2>1 DEF Right
  <2>2. CASE /\ x.step = IF y.names = "nothing" THEN "reserving" ELSE "recording"
             /\ x.file = IF y.names = "nothing" THEN Stateless ELSE IF y.id \in files THEN y.id ELSE Unassigned
             /\ x.names = y.names /\ x.id = y.id
    BY <1>1, <1>4, <2>2 DEF Right
  <2> QED BY <1>4, <2>1, <2>2 DEF Turn, Same
<1>5. CASE y.step = "giving" /\ x # y
  <2>1. x.names = y.names /\ x.id = y.id
    BY <1>5 DEF Turn, Same
  <2>2. (x.step = "gone" /\ x.file = y.file) \/ (x.step = "moving" /\ x.file = y.id)
    BY <1>5 DEF Turn, Same
  <2> QED BY <1>5, <2>1, <2>2 DEF Right, Late
<1>6. CASE y.step = "serving" /\ x # y
  <2>1. CASE x.step = "gone" /\ Same(y, x)
    BY <1>6, <2>1 DEF Right, Same, Late
  <2>2. CASE /\ x.id \in Assignable(y)
             /\ x.step = IF y.names # "nothing" THEN "answered" ELSE IF x.id # NoId THEN "giving" ELSE "settling"
             /\ x.names = y.names /\ x.file = y.file
    BY <1>6, <2>2 DEF Right, Assignable, Late
  <2> QED BY <1>6, <2>1, <2>2 DEF Turn
<1>7. CASE y.step \notin {"idle", "passing", "read", "giving", "serving"} /\ x # y
  <2>1. x.file = y.file /\ x.id = y.id /\ x.names = y.names
    BY <1>7 DEF Turn, Same
  <2>3. x.step = "framing" => x.frames = y.frames + 1
    BY <1>7 DEF Turn
  <2>2. \/ y.step \in {"recording", "reserving"} /\ x.step \in {"serving", "gone"}
        \/ y.step \in {"moving", "settling"} /\ x.step \in {"answered", "gone"}
        \/ (y.step = "answered" \/ Late(y)) /\ Late(x)
    <3>1. y.step \in Steps
      BY DEF ExchangeType
    <3> QED BY <1>7, <3>1 DEF Turn, Late, Steps
  <2> QED BY <1>1, <1>7, <2>1, <2>2, <2>3 DEF Right, Late
<1>8. CASE x = y
  BY <1>8
<1> QED BY <1>2, <1>3, <1>4, <1>5, <1>6, <1>7, <1>8

LEMMA HomesStay ==
    ASSUME IInv, FileIs, NEW e \in Exchanges, Turned(e)
    PROVE  /\ FileIs'
           /\ \A d \in Exchanges : exchange[d].file \in Ids /\ exchange[d].step # "moving" =>
                 exchange'[d].file = exchange[d].file /\ exchange'[d].step # "moving"
<1>1. PICK x \in ExchangeType : exchange' = [exchange EXCEPT ![e] = x] /\ Turn(exchange[e], x)
  BY DEF Turned
<1>2. \A d \in Exchanges : exchange'[d] = IF d = e THEN x ELSE exchange[d]
  BY <1>1 DEF IInv, TypeOK
<1>3. exchange[e] \in ExchangeType /\ Right(exchange[e]) /\ (exchange[e].step = "giving" => exchange[e].id \in Ids)
  BY Kept DEF FileIs, IInv, Given
<1>4. Right(x) /\ (exchange[e].file \in Ids /\ exchange[e].step # "moving" =>
                     x.file = exchange[e].file /\ x.step # "moving")
  BY <1>1, <1>3, TurnHomes
<1>5. \A d \in Exchanges : Right(exchange'[d])
  BY <1>2, <1>4 DEF FileIs
<1>6. FileIs'
  BY <1>5 DEF FileIs, Right, Late
<1> QED BY <1>2, <1>4, <1>6

-----------------------------------------------------------------------------
(* The order of the rows, as an exchange goes on. *)

\* Who knows what: only of what was known, or has been recorded or passed on.
LEMMA KnowledgeKept ==
    ASSUME IInv, KnownSent, NEW e \in Exchanges, Turned(e),
           \A u \in heard' \union told' :
              u \in heard \union told \/ (\E v : u \in Past(v)) \/ (u \in Events /\ Sent(u)'),
           \A p \in past' : p \in past \/ (p[1] \in heard \union told /\ ~Sent(p[2]))
    PROVE  KnownSent'
<1>1. /\ \A u \in heard \union told : u \in Events /\ Sent(u)
      /\ \A p \in past : p[1] \in Events /\ Sent(p[1]) /\ p[1] # p[2]
  BY DEF KnownSent, IInv, TypeOK
<1>2. \A u \in Events : Sent(u) => Sent(u)'
  BY SentStays
<1>3. \A v : \A u \in Past(v) : \E p \in past : u = p[1]
  BY Zenon DEF Past
<1>4. \A u \in heard' \union told' : Sent(u)'
  BY <1>1, <1>2, <1>3
<1>5. ASSUME NEW p \in past' PROVE Sent(p[1])' /\ p[1] # p[2]
  BY <1>1, <1>2, <1>5
<1> QED BY <1>4, <1>5 DEF KnownSent

Rows == FillsOwn /\ Located /\ Ordered /\ Once /\ AtHome

LEMMA RowsKept ==
    ASSUME IInv, OInv, NEW e \in Exchanges, Turned(e), UNCHANGED <<channel, writer, disk>>,
           \A p \in past' : p \in past \/ ~Sent(p[2])
    PROVE  Rows'
<1>1. \A f, u, n : At(f, u, n)' <=> At(f, u, n)
  BY DEF At, Begins
<1>2. FillsOwn'
  BY DEF OInv, FillsOwn
<1>3. Located'
  BY <1>1, SentStays DEF OInv, Located
<1>4. ASSUME NEW f \in Files, NEW u \in Events, NEW v \in Events, NEW m \in Nat, NEW n \in Nat,
             Before(u, v)', At(f, u, m), At(f, v, n)
      PROVE  m < n
  <2>1. Sent(v)
    BY <1>4 DEF OInv, Located
  <2>2. Before(u, v)
    BY <1>4, <2>1 DEF Before
  <2> QED BY <1>4, <2>2 DEF OInv, Ordered
<1>5. Ordered'
  BY <1>1, <1>4 DEF Ordered
<1>6. AtHome'
  <2>1. \A d \in Exchanges : exchange[d].file \in Ids /\ exchange[d].step # "moving" =>
           exchange'[d].file = exchange[d].file /\ exchange'[d].step # "moving"
    BY HomesStay DEF OInv
  <2> QED BY <1>1, <2>1, EventParts DEF OInv, AtHome
<1>7. Once'
  BY <1>1 DEF OInv, Once
<1> QED BY <1>2, <1>3, <1>5, <1>6, <1>7 DEF Rows

\* A command about w alone enters a row that has nothing of what w causes.
LEMMA RowsGrow ==
    ASSUME IInv, OInv, NEW e \in Exchanges, Turned(e), NEW c \in Commands, NEW w \in Events,
           channel' = Append(channel, c), UNCHANGED <<writer, disk, past>>,
           w[1] = e, Sent(w)',
           \A u \in Events : Speaks(c.lines, u) => u = w,
           c.kind \in {"reserve", "fill"} => w = RequestOf(e) /\ c.place = {e},
           c.kind = "fill" \/ ~Sent(w) \/ ~\E v \in Events, n \in Nat : At(c.file, v, n),
           c.file \in Ids => exchange'[e].file = c.file /\ exchange'[e].step # "moving"
    PROVE  Rows'
<1>1. \A u \in Events : \A f : InCommand(f, u, c) => u = w /\ f = c.file /\ c.kind # "fill"
  BY DEF InCommand
<1>2. /\ \A i \in 1 .. Len(channel') : channel'[i] = c \/ \E j \in 1 .. Len(channel) : channel'[i] = channel[j]
      /\ c.file \in Files
  <2>1. channel \in Seq(Commands)
    BY DEF IInv, TypeOK, Commands
  <2> QED BY <2>1 DEF Commands
<1>3. FillsOwn'
  BY <1>2 DEF OInv, FillsOwn, RequestOf
<1>4. ASSUME NEW f \in Files, NEW u \in Events, NEW n \in Nat, At(f, u, n)'
      PROVE  \/ At(f, u, n) /\ n <= Ends(f)
             \/ n = Ends(f) + 1 /\ u = w /\ f = c.file /\ c.kind # "fill"
  <2>1. At(f, u, n) \/ (n = Ends(f) + 1 /\ InCommand(f, u, c))
    BY <1>4, RowGrows
  <2>2. At(f, u, n) => n <= Ends(f)
    BY RowEnds
  <2> QED BY <1>1, <2>1, <2>2
<1>5. Located'
  BY <1>4, SentStays DEF OInv, Located
<1>6. ASSUME NEW f \in Files, NEW u \in Events, NEW v \in Events, NEW m \in Nat, NEW n \in Nat,
             Before(u, v), At(f, u, m)', At(f, v, n)'
      PROVE  m < n
  <2>1. Ends(f) \in Nat
    BY RowShape
  <2>2. CASE At(f, u, m) /\ At(f, v, n)
    BY <1>6, <2>2 DEF OInv, Ordered
  <2>3. CASE ~At(f, v, n)
    <3>1. n = Ends(f) + 1 /\ v = w
      BY <1>4, <1>6, <2>3
    <3>2. u # w
      <4>1. ~Before(w, w)
        BY EventParts DEF OInv, KnownSent, Before
      <4> QED BY <1>6, <3>1, <4>1
    <3>3. m <= Ends(f)
      BY <1>4, <1>6, <3>2
    <3> QED BY <2>1, <3>1, <3>3
  <2>4. CASE At(f, v, n) /\ ~At(f, u, m)
    <3>1. u = w /\ f = c.file /\ c.kind # "fill"
      BY <1>4, <1>6, <2>4
    <3>2. ~Sent(w) /\ Sent(v)
      BY <2>4, <3>1 DEF OInv, Located
    <3>3. <<w, v>> \notin past
      BY <3>2 DEF OInv, KnownSent
    <3>4. w[1] = v[1] /\ w[2] < v[2]
      BY <1>6, <3>1, <3>3 DEF Before
    <3>5. SentOf(exchange[v[1]], v[2]) /\ exchange[v[1]] \in ExchangeType /\ w[2] \in Nat /\ v[2] \in Nat
      BY <3>2, Kept, EventParts DEF Sent
    <3>6. SentOf(exchange[v[1]], w[2])
      BY <3>4, <3>5, SentDown
    <3> QED BY <3>2, <3>4, <3>6 DEF Sent
  <2> QED BY <2>2, <2>3, <2>4
<1>7. Ordered'
  BY <1>6 DEF Ordered, Before
<1>8. AtHome'
  <2>1. \A d \in Exchanges : exchange[d].file \in Ids /\ exchange[d].step # "moving" =>
           exchange'[d].file = exchange[d].file /\ exchange'[d].step # "moving"
    BY HomesStay DEF OInv
  <2>2. ASSUME NEW id \in Ids, NEW u \in Events, NEW n \in Nat, At(id, u, n)'
        PROVE  exchange'[u[1]].file = id /\ exchange'[u[1]].step # "moving"
    <3>1. CASE At(id, u, n)
      BY <2>1, <2>2, <3>1, EventParts DEF OInv, AtHome
    <3>2. CASE ~At(id, u, n)
      <4>1. id \in Files
        BY DEF Files
      <4>2. u = w /\ id = c.file
        BY <1>4, <2>2, <3>2, <4>1
      <4> QED BY <4>2
    <3> QED BY <3>1, <3>2
  <2> QED BY <2>2 DEF AtHome
<1>9. ASSUME NEW f \in Files, NEW u \in Events, NEW m \in Nat, NEW n \in Nat, At(f, u, m)', At(f, u, n)'
      PROVE  m = n
  <2>1. CASE At(f, u, m) /\ At(f, u, n)
    BY <2>1 DEF OInv, Once
  <2>2. CASE ~At(f, u, m) /\ ~At(f, u, n)
    BY <1>4, <1>9, <2>2
  <2>3. ASSUME NEW k \in Nat, NEW l \in Nat, At(f, u, k), ~At(f, u, l), At(f, u, l)' PROVE FALSE
    <3>1. u = w /\ f = c.file /\ c.kind # "fill"
      BY <1>4, <2>3
    <3> QED BY <2>3, <3>1 DEF OInv, Located
  <2> QED BY <1>9, <2>1, <2>2, <2>3
<1>10. Once'
  BY <1>9 DEF Once
<1> QED BY <1>3, <1>5, <1>7, <1>8, <1>10 DEF Rows

-----------------------------------------------------------------------------
(* The steps of an exchange keep the order. *)

LEMMA Said ==
    ASSUME NEW e \in Exchanges
    PROVE  /\ \A u : Speaks(RequestLines(e), u) => u = RequestOf(e)
           /\ \A u : Speaks(AnswerLines(e), u) => u = AnswerOf(e)
           /\ \A u : Speaks(FrameLines(e), u) => u = FrameOf(e, exchange[e].frames)
           /\ \A u : ~Speaks(<<>>, u)
<1>1. /\ \A what : Line(e, 0, what).event = RequestOf(e) /\ Line(e, 1, what).event = AnswerOf(e)
      /\ \A n, what : Line(e, n + 1, what).event = FrameOf(e, n)
  BY DEF Line, RequestOf, AnswerOf, FrameOf
<1>2. \A u : Speaks(RequestLines(e), u) => u = RequestOf(e)
  BY <1>1 DEF RequestLines, Speaks
<1>3. \A u : Speaks(AnswerLines(e), u) => u = AnswerOf(e)
  BY <1>1 DEF AnswerLines, Speaks
<1>4. \A u : Speaks(FrameLines(e), u) => u = FrameOf(e, exchange[e].frames)
  BY <1>1 DEF FrameLines, Speaks
<1> QED BY <1>2, <1>3, <1>4 DEF Speaks

LEMMA OrderTurns ==
    ASSUME IInv, OInv, NEW e \in Exchanges, Turned(e), KnownSent', Rows', told \subseteq told'
    PROVE  OInv'
BY FoundersStay, LearningStays, HomesStay DEF OInv, Rows

\* What an exchange utters has not been recorded or passed on before.
LEMMA Utters ==
    ASSUME IInv, OInv, NEW e \in Exchanges
    PROVE  /\ Early(exchange[e]) => ~Sent(RequestOf(e))
           /\ ~Early(exchange[e]) => Sent(RequestOf(e))
           /\ ~Late(exchange[e]) => ~Sent(AnswerOf(e))
           /\ Late(exchange[e]) => Sent(AnswerOf(e))
           /\ exchange[e].step = "streaming" => ~Sent(FrameOf(e, exchange[e].frames + 1))
           /\ exchange[e].step = "framing" => ~Sent(FrameOf(e, exchange[e].frames))
<1>1. exchange[e].frames \in Nat /\ (exchange[e].step = "framing" => exchange[e].frames > 0)
  BY Kept, TapAssumption DEF ExchangeType, OInv, FileIs, Right
<1>2. /\ Early(exchange[e]) => ~Sent(RequestOf(e))
      /\ ~Early(exchange[e]) => Sent(RequestOf(e))
  BY DEF Sent, SentOf, RequestOf
<1>3. /\ ~Late(exchange[e]) => ~Sent(AnswerOf(e))
      /\ Late(exchange[e]) => Sent(AnswerOf(e))
  BY DEF Sent, SentOf, AnswerOf
<1>4. ASSUME NEW n \in Nat
      PROVE  Sent(FrameOf(e, n + 1)) => n + 1 <= exchange[e].frames
  BY <1>1, <1>4 DEF Sent, SentOf, FrameOf
<1>5. exchange[e].step = "streaming" => ~Sent(FrameOf(e, exchange[e].frames + 1))
  BY <1>1, <1>4
<1>6. exchange[e].step = "framing" /\ Sent(FrameOf(e, exchange[e].frames)) => FALSE
  BY <1>1 DEF Sent, SentOf, FrameOf
<1> QED BY <1>2, <1>3, <1>5, <1>6

LEMMA ArriveOrder == ASSUME IInv, OInv, NEW e \in Exchanges, Turned(e), Arrive(e) PROVE OInv'
<1>1. ~Sent(RequestOf(e))
  BY Utters DEF Arrive, Early
<1>2. \A p \in past' : p \in past \/ (p[1] \in told /\ p[2] = RequestOf(e))
  BY DEF Arrive, Knowing
<1>3. UNCHANGED <<channel, writer, disk, heard, told>>
  BY DEF Arrive
<1>4. KnownSent'
  BY <1>1, <1>2, <1>3, KnowledgeKept DEF OInv
<1>5. Rows'
  BY <1>1, <1>2, <1>3, RowsKept
<1> QED BY <1>3, <1>4, <1>5, OrderTurns

LEMMA PassOrder == ASSUME IInv, OInv, NEW e \in Exchanges, Turned(e), Pass(e) PROVE OInv'
<1>1. Sent(AnswerOf(e))'
  <2>1. exchange'[e].step = "done"
    BY DEF Pass, IInv, TypeOK
  <2> QED BY <2>1 DEF Sent, SentOf, AnswerOf, Late
<1>2. AnswerOf(e) \in Events
  BY EventTypes
<1>3. UNCHANGED <<channel, writer, disk, past>> /\ told \subseteq told'
  BY DEF Pass
<1>4. \A u \in heard' \union told' : u \in heard \union told \/ (\E v : u \in Past(v)) \/ u = AnswerOf(e)
  BY DEF Pass
<1>5. KnownSent'
  BY <1>1, <1>2, <1>3, <1>4, KnowledgeKept DEF OInv
<1>6. Rows'
  BY <1>3, RowsKept
<1> QED BY <1>3, <1>5, <1>6, OrderTurns

LEMMA SilentOrder ==
    ASSUME IInv, OInv, NEW e \in Exchanges, Turned(e), Observe(e) \/ EndStream(e)
    PROVE  OInv'
<1>1. UNCHANGED <<channel, writer, disk, heard, told, past>>
  BY DEF Observe, EndStream
<1>2. KnownSent'
  BY <1>1, KnowledgeKept DEF OInv
<1>3. Rows'
  BY <1>1, RowsKept
<1> QED BY <1>1, <1>2, <1>3, OrderTurns

LEMMA UttersOrder ==
    ASSUME IInv, OInv, NEW e \in Exchanges, Turned(e), Answer(e) \/ Emit(e)
    PROVE  OInv'
<1>1. PICK w : ~Sent(w) /\ Knowing(w, heard)
  <2>1. CASE Answer(e)
    <3>1. ~Sent(AnswerOf(e)) /\ Knowing(AnswerOf(e), heard)
      BY <2>1, Utters DEF Answer, Late
    <3> QED BY <3>1
  <2>2. CASE Emit(e)
    <3>1. ~Sent(FrameOf(e, exchange[e].frames + 1)) /\ Knowing(FrameOf(e, exchange[e].frames + 1), heard)
      BY <2>2, Utters DEF Emit
    <3> QED BY <3>1
  <2> QED BY <2>1, <2>2
<1>2. \A p \in past' : p \in past \/ (p[1] \in heard /\ p[2] = w)
  BY <1>1 DEF Knowing
<1>3. UNCHANGED <<channel, writer, disk, heard, told>>
  BY DEF Answer, Emit
<1>4. KnownSent'
  BY <1>1, <1>2, <1>3, KnowledgeKept DEF OInv
<1>5. Rows'
  BY <1>1, <1>2, <1>3, RowsKept
<1> QED BY <1>3, <1>4, <1>5, OrderTurns

\* The step of an exchange that sends, and what of it stays.
LEMMA SendsTo ==
    ASSUME IInv, NEW e \in Exchanges, NEW from, NEW c, NEW to, Sends(e, from, c), Step(e, to)
    PROVE  /\ exchange[e].step = from /\ channel' = Append(channel, c) /\ UNCHANGED <<writer, disk, past>>
           /\ exchange'[e].step = to /\ exchange'[e].file = exchange[e].file
           /\ exchange'[e].frames = exchange[e].frames
BY DEF Sends, Step, IInv, TypeOK

LEMMA RecordRequestOrder == ASSUME IInv, OInv, NEW e \in Exchanges, Turned(e), RecordRequest(e) PROVE OInv'
<1> DEFINE c == Write(exchange[e].file, RequestLines(e))
           w == RequestOf(e)
<1>1. /\ exchange[e].step = "recording" /\ channel' = Append(channel, c) /\ UNCHANGED <<writer, disk, past>>
      /\ exchange'[e].step = "serving" /\ exchange'[e].file = exchange[e].file
  BY SendsTo DEF RecordRequest, ThenServe
<1>2. w \in Events /\ exchange[e].file \in Files /\ RequestLines(e) \in Seq(Records)
  BY EventTypes, LineTypes, Kept DEF IInv, ExchangeType
<1>3. c \in Commands /\ c.kind = "write" /\ c.file = exchange[e].file /\ c.lines = RequestLines(e)
  BY <1>2, CommandTypes DEF Write
<1>4. ~Sent(w) /\ Sent(w)' /\ w[1] = e
  BY <1>1, Utters DEF Early, Sent, SentOf, RequestOf
<1>5. told' = told /\ \A u \in heard' : u \in heard \/ (\E v : u \in Past(v)) \/ u = w
  BY DEF RecordRequest, ThenServe
<1> HIDE DEF c, w
<1>6. KnownSent'
  BY <1>1, <1>2, <1>4, <1>5, KnowledgeKept DEF OInv
<1>7. \A u \in Events : Speaks(c.lines, u) => u = w
  BY <1>3, Said DEF w
<1>8. Rows'
  BY <1>1, <1>2, <1>3, <1>4, <1>7, RowsGrow
<1> QED BY <1>5, <1>6, <1>8, OrderTurns

LEMMA ReservePlaceOrder == ASSUME IInv, OInv, NEW e \in Exchanges, Turned(e), ReservePlace(e) PROVE OInv'
<1> DEFINE c == Reserve(e)
           w == RequestOf(e)
<1>1. /\ exchange[e].step = "reserving" /\ channel' = Append(channel, c) /\ UNCHANGED <<writer, disk, past>>
      /\ exchange'[e].step = "serving"
  BY SendsTo DEF ReservePlace, ThenServe
<1>2. w \in Events /\ Stateless \in Files /\ Stateless \notin Ids
  BY EventTypes, TapAssumption DEF Files
<1>3. c \in Commands /\ c.kind = "reserve" /\ c.file = Stateless /\ c.lines = <<>> /\ c.place = {e}
  BY <1>2 DEF Reserve, Commands, Holders
<1>4. ~Sent(w) /\ Sent(w)' /\ w[1] = e
  BY <1>1, Utters DEF Early, Sent, SentOf, RequestOf
<1>5. told' = told /\ \A u \in heard' : u \in heard \/ (\E v : u \in Past(v)) \/ u = w
  BY DEF ReservePlace, ThenServe
<1>6. w = RequestOf(e)
  OBVIOUS
<1> HIDE DEF c, w
<1>7. KnownSent'
  BY <1>1, <1>2, <1>4, <1>5, KnowledgeKept DEF OInv
<1>8. \A u \in Events : Speaks(c.lines, u) => u = w
  BY <1>3, Said
<1>9. Rows'
  BY <1>1, <1>2, <1>3, <1>4, <1>6, <1>8, RowsGrow
<1> QED BY <1>5, <1>7, <1>9, OrderTurns

\* A word on e's place: its request, or nothing.
LEMMA FillOrder ==
    ASSUME IInv, OInv, NEW e \in Exchanges, Turned(e), NEW lines \in {RequestLines(e), <<>>},
           channel' = Append(channel, Fill(e, lines)), ~Early(exchange[e]),
           UNCHANGED <<writer, disk, heard, told, past>>
    PROVE  OInv'
<1> DEFINE c == Fill(e, lines)
           w == RequestOf(e)
<1>1. w \in Events /\ Stateless \in Files /\ Stateless \notin Ids
  BY EventTypes, TapAssumption DEF Files
<1>2. lines \in Seq(Records)
  <2>1. TypeOK
    BY DEF IInv
  <2>2. RequestLines(e) \in Seq(Records)
    BY <2>1, LineTypes
  <2>3. <<>> \in Seq(Records)
    OBVIOUS
  <2> QED BY <2>2, <2>3
<1>3. c \in Commands /\ c.kind = "fill" /\ c.file = Stateless /\ c.lines = lines /\ c.place = {e}
  BY <1>1, <1>2 DEF Fill, Commands, Holders
<1>4. Sent(w)' /\ w[1] = e
  <2>1. Sent(w)
    BY Utters
  <2> QED BY <1>1, <2>1, SentStays DEF RequestOf
<1>5. w = RequestOf(e)
  OBVIOUS
<1>6. channel' = Append(channel, c)
  OBVIOUS
<1>7. \A u \in Events : Speaks(c.lines, u) => u = w
  BY <1>3, Said
<1> HIDE DEF c, w
<1>8. KnownSent'
  BY KnowledgeKept DEF OInv
<1>9. Rows'
  BY <1>1, <1>3, <1>4, <1>5, <1>6, <1>7, RowsGrow
<1> QED BY <1>8, <1>9, OrderTurns

LEMMA PlacesOrder ==
    ASSUME IInv, OInv, NEW e \in Exchanges, Turned(e),
           GivePlaceUp(e) \/ FillPlace(e) \/ Abandon(e) \/ Release(e)
    PROVE  OInv'
<1>1. UNCHANGED <<writer, disk, heard, told, past>>
  BY DEF GivePlaceUp, FillPlace, Sends, Abandon, Release
<1>2. CASE channel' = channel
  <2>1. KnownSent'
    BY <1>1, KnowledgeKept DEF OInv
  <2>2. Rows'
    BY <1>1, <1>2, RowsKept
  <2> QED BY <1>1, <2>1, <2>2, OrderTurns
<1>3. CASE \E lines \in {RequestLines(e), <<>>} : channel' = Append(channel, Fill(e, lines)) /\ ~Early(exchange[e])
  BY <1>1, <1>3, FillOrder
<1>4. CASE GivePlaceUp(e) \/ FillPlace(e)
  BY <1>3, <1>4 DEF GivePlaceUp, FillPlace, Sends, Early
<1>5. CASE Abandon(e)
  BY <1>2, <1>3, <1>5 DEF Abandon, Holding, Early
<1>6. CASE Release(e)
  BY <1>3, <1>6 DEF Release, IInv, Unreserved
<1> QED BY <1>4, <1>5, <1>6

\* Before the request that began a session is moved to its trace, nobody has
\* used the session.
LEMMA MovesFirst ==
    ASSUME IInv, OInv, NEW e \in Exchanges, exchange[e].step = "moving"
    PROVE  /\ exchange[e].file \in Ids
           /\ ~\E v \in Events, n \in Nat : At(exchange[e].file, v, n)
<1>1. exchange[e].file \in Ids /\ exchange[e].id = exchange[e].file /\ exchange[e].names = "nothing"
  BY DEF OInv, FileIs, Right
<1>2. ASSUME NEW v \in Events, NEW n \in Nat, At(exchange[e].file, v, n) PROVE FALSE
  <2>1. PICK d \in Exchanges : d = v[1]
    BY EventParts
  <2>2. exchange[d].file = exchange[e].file /\ exchange[d].step # "moving"
    BY <1>1, <1>2, <2>1 DEF OInv, AtHome
  <2>3. exchange[d].id = exchange[e].id
    BY <1>1, <2>2 DEF OInv, FileIs, Right
  <2>4. exchange[d].names \in {"nothing", "session", "invented"}
    BY Kept DEF ExchangeType, Names
  <2>5. CASE exchange[d].names = "nothing"
    BY <1>1, <2>2, <2>3, <2>5 DEF OInv, Founded
  <2>6. CASE exchange[d].names = "session"
    <3>1. PICK y \in Exchanges : exchange[y].names = "nothing" /\ exchange[y].id = exchange[d].id
                                 /\ AnswerOf(y) \in told
      BY <2>6 DEF OInv, LearntFrom
    <3>2. y = e
      BY <1>1, <2>3, <3>1 DEF OInv, Founded
    <3>3. Sent(AnswerOf(e))
      BY <3>1, <3>2 DEF OInv, KnownSent
    <3> QED BY <3>3, Utters DEF Late
  <2>7. CASE exchange[d].names = "invented"
    BY <1>1, <2>3, <2>7, TapAssumption DEF OInv, LearntFrom
  <2> QED BY <2>4, <2>5, <2>6, <2>7
<1> QED BY <1>1, <1>2

LEMMA MoveRequestOrder == ASSUME IInv, OInv, NEW e \in Exchanges, Turned(e), MoveRequest(e) PROVE OInv'
<1> DEFINE c == Write(exchange[e].file, RequestLines(e))
           w == RequestOf(e)
<1>1. /\ exchange[e].step = "moving" /\ channel' = Append(channel, c) /\ UNCHANGED <<writer, disk, past>>
      /\ exchange'[e].step = "answered" /\ exchange'[e].file = exchange[e].file
  BY SendsTo DEF MoveRequest
<1>2. w \in Events /\ exchange[e].file \in Files /\ RequestLines(e) \in Seq(Records)
  BY EventTypes, LineTypes, Kept DEF IInv, ExchangeType
<1>3. c \in Commands /\ c.kind = "write" /\ c.file = exchange[e].file /\ c.lines = RequestLines(e)
  BY <1>2, CommandTypes DEF Write
<1>4. Sent(w)' /\ w[1] = e
  BY <1>1 DEF Early, Sent, SentOf, RequestOf
<1>5. UNCHANGED <<heard, told>>
  BY DEF MoveRequest
<1>6. ~\E v \in Events, n \in Nat : At(c.file, v, n)
  BY <1>1, <1>3, MovesFirst
<1> HIDE DEF c, w
<1>7. KnownSent'
  BY <1>1, <1>5, KnowledgeKept DEF OInv
<1>8. \A u \in Events : Speaks(c.lines, u) => u = w
  BY <1>3, Said DEF w
<1>9. Rows'
  BY <1>1, <1>2, <1>3, <1>4, <1>6, <1>8, RowsGrow
<1> QED BY <1>5, <1>7, <1>9, OrderTurns

LEMMA RecordAnswerOrder == ASSUME IInv, OInv, NEW e \in Exchanges, Turned(e), RecordAnswer(e) PROVE OInv'
<1> DEFINE c == Write(exchange[e].file, AnswerLines(e))
           w == AnswerOf(e)
<1>1. /\ exchange[e].step = "answered" /\ channel' = Append(channel, c) /\ UNCHANGED <<writer, disk, past>>
      /\ exchange'[e].step \in {"streaming", "done"} /\ exchange'[e].file = exchange[e].file
  BY SendsTo DEF RecordAnswer
<1>2. w \in Events /\ exchange[e].file \in Files /\ AnswerLines(e) \in Seq(Records)
  BY EventTypes, LineTypes, Kept DEF IInv, ExchangeType
<1>3. c \in Commands /\ c.kind = "write" /\ c.file = exchange[e].file /\ c.lines = AnswerLines(e)
  BY <1>2, CommandTypes DEF Write
<1>4. ~Sent(w) /\ Sent(w)' /\ w[1] = e
  BY <1>1, Utters DEF Late, Sent, SentOf, AnswerOf
<1>5. heard' = heard /\ told \subseteq told' /\ \A u \in told' : u \in told \/ (\E v : u \in Past(v)) \/ u = w
  BY DEF RecordAnswer, Told
<1> HIDE DEF c, w
<1>6. KnownSent'
  BY <1>1, <1>2, <1>4, <1>5, KnowledgeKept DEF OInv
<1>7. \A u \in Events : Speaks(c.lines, u) => u = w
  BY <1>3, Said DEF w
<1>8. Rows'
  BY <1>1, <1>2, <1>3, <1>4, <1>7, RowsGrow
<1> QED BY <1>5, <1>6, <1>8, OrderTurns

LEMMA RecordFrameOrder == ASSUME IInv, OInv, NEW e \in Exchanges, Turned(e), RecordFrame(e) PROVE OInv'
<1> DEFINE c == Write(exchange[e].file, FrameLines(e))
           w == FrameOf(e, exchange[e].frames)
<1>1. /\ exchange[e].step = "framing" /\ channel' = Append(channel, c) /\ UNCHANGED <<writer, disk, past>>
      /\ exchange'[e].step = "streaming" /\ exchange'[e].file = exchange[e].file
      /\ exchange'[e].frames = exchange[e].frames
  BY SendsTo DEF RecordFrame
<1>2. w \in Events /\ exchange[e].file \in Files /\ FrameLines(e) \in Seq(Records) /\ exchange[e].frames \in Nat
  BY EventTypes, LineTypes, Kept, TapAssumption DEF IInv, ExchangeType
<1>3. c \in Commands /\ c.kind = "write" /\ c.file = exchange[e].file /\ c.lines = FrameLines(e)
  BY <1>2, CommandTypes DEF Write
<1>4. ~Sent(w) /\ w[1] = e
  BY <1>1, Utters DEF FrameOf
<1>5. PICK u \in Events : u = w
  BY <1>2
<1>6. Sent(u)'
  <2>1. u[1] = e /\ u[2] = exchange[e].frames + 1
    BY <1>5 DEF FrameOf
  <2> QED BY <1>1, <1>2, <2>1 DEF Sent, SentOf, Late
<1>7. heard' = heard /\ told \subseteq told' /\ \A v \in told' : v \in told \/ (\E z : v \in Past(z)) \/ v = w
  BY DEF RecordFrame, Told
<1> HIDE DEF c, w
<1>8. KnownSent'
  BY <1>1, <1>2, <1>5, <1>6, <1>7, KnowledgeKept DEF OInv
<1>9. \A v \in Events : Speaks(c.lines, v) => v = u
  BY <1>3, <1>5, Said DEF w
<1>10. Rows'
  BY <1>1, <1>2, <1>3, <1>4, <1>5, <1>6, <1>9, RowsGrow
<1> QED BY <1>7, <1>8, <1>10, OrderTurns

-----------------------------------------------------------------------------
(* The order of what is recorded. *)

LEMMA HandleOrder == ASSUME IInv, OInv, Handle PROVE OInv'
<1>1. UNCHANGED <<exchange, heard, told, past>>
  BY DEF Handle
<1>2. KnownSent' /\ Founded' /\ LearntFrom' /\ FileIs'
  BY <1>1 DEF OInv, KnownSent, Sent, Founded, LearntFrom, FileIs, Right, Late
<1>3. FillsOwn'
  <2>1. \A i \in 1 .. Len(channel') : i + 1 \in 1 .. Len(channel) /\ channel'[i] = channel[i + 1]
    BY Taken
  <2> QED BY <2>1 DEF OInv, FillsOwn
<1>4. ASSUME NEW f \in Files
      PROVE  \E k \in Nat, s \in {0, 1} :
                \A u \in Events : \A n : At(f, u, n)' => n \in Nat /\ At(f, u, IF n <= k THEN n ELSE n + s)
  BY RowMoves DEF OInv
<1>5. ASSUME NEW f \in Files, NEW u \in Events, NEW n \in Nat, At(f, u, n)'
      PROVE  \E m \in Nat : At(f, u, m)
  <2>1. PICK k \in Nat, s \in {0, 1} : At(f, u, IF n <= k THEN n ELSE n + s)
    BY <1>4, <1>5
  <2> QED BY <2>1
<1>6. Located'
  BY <1>1, <1>5 DEF OInv, Located, Sent
<1>7. ASSUME NEW f \in Files, NEW u \in Events, NEW v \in Events, NEW m \in Nat, NEW n \in Nat,
             Before(u, v), At(f, u, m)', At(f, v, n)'
      PROVE  m < n
  <2>1. PICK k \in Nat, s \in {0, 1} :
           \A w \in Events : \A l : At(f, w, l)' => l \in Nat /\ At(f, w, IF l <= k THEN l ELSE l + s)
    BY <1>4
  <2>2. At(f, u, IF m <= k THEN m ELSE m + s) /\ At(f, v, IF n <= k THEN n ELSE n + s)
    BY <1>7, <2>1
  <2>3. (IF m <= k THEN m ELSE m + s) < (IF n <= k THEN n ELSE n + s)
    BY <1>7, <2>2 DEF OInv, Ordered
  <2> QED BY <2>3
<1>8. Ordered'
  BY <1>1, <1>7 DEF Ordered, Before
<1>9. AtHome'
  <2>1. Ids \subseteq Files
    BY DEF Files
  <2> QED BY <1>1, <1>5, <2>1 DEF OInv, AtHome
<1>10. ASSUME NEW f \in Files, NEW u \in Events, NEW m \in Nat, NEW n \in Nat, At(f, u, m)', At(f, u, n)'
       PROVE  m = n
  <2>1. PICK k \in Nat, s \in {0, 1} :
           \A w \in Events : \A l : At(f, w, l)' => l \in Nat /\ At(f, w, IF l <= k THEN l ELSE l + s)
    BY <1>4
  <2>2. At(f, u, IF m <= k THEN m ELSE m + s) /\ At(f, u, IF n <= k THEN n ELSE n + s)
    BY <1>10, <2>1
  <2>3. (IF m <= k THEN m ELSE m + s) = (IF n <= k THEN n ELSE n + s)
    BY <2>2 DEF OInv, Once
  <2> QED BY <2>3
<1>11. Once'
  BY <1>10 DEF Once
<1> QED BY <1>2, <1>3, <1>6, <1>8, <1>9, <1>11 DEF OInv

\* Every step of an exchange, a release or the writer keeps the order.
THEOREM NextOrder == IInv /\ OInv /\ [Next]_vars => OInv'
<1> SUFFICES ASSUME IInv, OInv, [Next]_vars PROVE OInv'
  OBVIOUS
<1>1. CASE Handle
  BY <1>1, HandleOrder
<1>2. ASSUME NEW e \in Exchanges,
             \/ Arrive(e) \/ Pass(e) \/ Observe(e) \/ RecordRequest(e) \/ ReservePlace(e)
             \/ Answer(e) \/ GivePlaceUp(e) \/ MoveRequest(e) \/ FillPlace(e) \/ RecordAnswer(e)
             \/ Emit(e) \/ RecordFrame(e) \/ EndStream(e) \/ Abandon(e) \/ Release(e)
      PROVE  OInv'
  <2>1. Turned(e)
    BY <1>2, Turns
  <2> QED BY <1>2, <2>1, ArriveOrder, PassOrder, SilentOrder, UttersOrder, RecordRequestOrder, ReservePlaceOrder,
             PlacesOrder, MoveRequestOrder, RecordAnswerOrder, RecordFrameOrder
<1>3. CASE UNCHANGED vars
  <2>1. /\ \A f, u, n : At(f, u, n)' <=> At(f, u, n)
        /\ \A u : Sent(u)' <=> Sent(u)
    BY <1>3 DEF vars, At, Begins, Sent
  <2>2. UNCHANGED <<exchange, channel, heard, told, past>>
    BY <1>3 DEF vars
  <2>3. KnownSent' /\ FillsOwn' /\ Founded' /\ LearntFrom' /\ FileIs'
    BY <2>1, <2>2 DEF OInv, KnownSent, FillsOwn, Founded, LearntFrom, FileIs, Right, Late
  <2>4. Located' /\ Ordered' /\ Once' /\ AtHome'
    BY <2>1, <2>2 DEF OInv, Located, Ordered, Once, Before, AtHome
  <2> QED BY <2>3, <2>4 DEF OInv
<1> QED BY <1>1, <1>2, <1>3 DEF Next

\* Before the first exchange there is nothing to put in order.
THEOREM InitOrder == Init => OInv
<1> SUFFICES ASSUME Init PROVE OInv
  OBVIOUS
<1>1. /\ channel = <<>> /\ heard = {} /\ told = {} /\ past = {}
      /\ \A f \in Files : disk[f] = <<>> /\ writer.waiting[f] = <<>>
      /\ \A e \in Exchanges : exchange[e] = Idle
  BY DEF Init
<1>2. \A f \in Files : \A u, n : ~At(f, u, n)
  BY <1>1 DEF At, InQueue
<1>3. KnownSent /\ FillsOwn
  BY <1>1 DEF KnownSent, FillsOwn
<1>4. Founded /\ LearntFrom /\ FileIs
  BY <1>1, TapAssumption DEF Founded, LearntFrom, FileIs, Right, Idle
<1>5. Located /\ Ordered /\ Once /\ AtHome
  BY <1>2 DEF Located, Ordered, Once, AtHome, Files
<1> QED BY <1>3, <1>4, <1>5 DEF OInv

\* The order of every trace, its memory and its channel holds throughout.
THEOREM OrderInvariance == Spec => [](IInv /\ OInv)
<1>1. Init => IInv /\ OInv
  BY InitInv, InitOrder
<1>2. IInv /\ OInv /\ [Next]_vars => (IInv /\ OInv)'
  BY NextInv, NextOrder
<1> QED BY <1>1, <1>2, PTL DEF Spec

\* In no trace does an event stand ahead of one its party knew of (tap.rs:39,
\* "`seq` is observation order"), however exchanges interleave, whoever leaves
\* and whatever waits for an open place.
THEOREM ObservedInOrder == Spec => []ObservationOrder
<1>1. ASSUME IInv, OInv PROVE ObservationOrder
  <2> SUFFICES ASSUME NEW f \in Files, NEW i \in DOMAIN disk[f], NEW j \in DOMAIN disk[f], i <= j,
                      NEW p \in past, Speaks(disk[f][i], p[2]), Speaks(disk[f][j], p[1])
               PROVE  FALSE
    BY DEF ObservationOrder
  <2>1. disk[f] \in Seq(Seq(Records)) /\ Len(disk[f]) \in Nat
    BY <1>1, RowShape
  <2>2. i \in 1 .. Len(disk[f]) /\ j \in 1 .. Len(disk[f])
    BY <2>1
  <2>3. At(f, p[2], i) /\ At(f, p[1], j)
    BY <2>2, Zenon DEF At, InQueue
  <2>4. p \in Events \X Events
    BY <1>1 DEF IInv, TypeOK
  <2>5. p[1] \in Events /\ p[2] \in Events /\ <<p[1], p[2]>> \in past
    BY <2>4
  <2>6. Before(p[1], p[2])
    BY <2>5 DEF Before
  <2>7. j < i
    <3>1. i \in Nat /\ j \in Nat
      BY <2>1, <2>2
    <3>2. Ordered
      BY <1>1 DEF OInv
    <3> QED BY <2>3, <2>5, <2>6, <3>1, <3>2, Zenon DEF Ordered
  <2> QED BY <2>1, <2>2, <2>7
<1> QED BY <1>1, OrderInvariance, PTL

-----------------------------------------------------------------------------
(* The trace of an exchange.  A session's trace is opened by the request that *)
(* began it, and every other record of it comes from who learnt of it.        *)

\* What x has is in its trace, or is about to be sent there.
Filing(x) ==
    \/ x.step \in {"recording", "settling", "moving", "answered", "streaming", "framing"}
    \/ x.step = "serving" /\ x.names # "nothing"
    \/ x.step = "done" /\ x.carries # "large"

\* What x is about changes no more.
Settled(x) == x.step = "answered" \/ Late(x) \/ (x.step = "serving" /\ x.names # "nothing")

\* What a step says of what an exchange names, carries and is assigned.
Shaped(x) ==
    /\ x.names = "nothing" /\ x.step \in {"idle", "read", "passing", "reserving", "serving", "settling"} =>
          x.id = NoId
    /\ x.names = "nothing" /\ (Early(x) \/ x.step \in {"serving", "settling"}) => x.file = Stateless
    /\ x.names = "session" => x.id \in Ids
    /\ x.names = "invented" => x.id = NoId
    /\ x.step = "idle" => x.names = "nothing"
    /\ x.carries = "large" => x.step \in {"passing", "done"}
    /\ x.step = "passing" => x.carries = "large"
    /\ x.step \in {"reserving", "giving", "settling", "moving"} => x.names = "nothing"
    /\ x.step = "recording" => x.names # "nothing"
    /\ x.step = "framing" => x.frames > 0

Known == heard \union told \union {p[1] : p \in past}

\* Something has been recorded for f: nothing waits in a session's queue.
Started(f) == disk[f] # <<>> \/ \E i \in 1 .. Len(channel) : channel[i].file = f

Holds(f, r) ==
    \/ \E i \in 1 .. Len(disk[f]) : disk[f][i] = r
    \/ \E i \in 1 .. Len(writer.waiting[f]) : writer.waiting[f][i].lines = r
    \/ \E i \in 1 .. Len(channel) : channel[i].file = f /\ channel[i].lines = r

\* The record of an event.
RecordOf(u) ==
    IF u[2] = 0 THEN RequestLines(u[1])
    ELSE IF u[2] = 1 THEN AnswerLines(u[1]) ELSE <<Line(u[1], u[2], "message")>>

Shapes == \A e \in Exchanges : Shaped(exchange[e])

\* A session's trace is opened by the request that began it.
Opened ==
    /\ \A id \in files : Beginning(id) # {}
    /\ \A e \in Exchanges : exchange[e].file \in Ids => exchange[e].file \in files

Filed == \A e \in Exchanges : Filing(exchange[e]) => exchange[e].file = TraceOf(exchange[e])

\* Whose answer is known has its request in its trace, if the tap held it.
AnswersFiled ==
    \A e \in Exchanges :
        AnswerOf(e) \in Known /\ exchange[e].names = "nothing" /\ exchange[e].carries # "large" =>
            /\ exchange[e].file = TraceOf(exchange[e])
            /\ exchange[e].file \in Ids => Started(exchange[e].file)

\* A session's trace is used after it was begun.
UsedStarted ==
    \A e \in Exchanges :
        exchange[e].file \in Ids /\ exchange[e].step \notin {"moving", "gone"} => Started(exchange[e].file)

\* A record, or what a failed write left of it, is of one event and in the trace
\* of its exchange.
Owned(f, r) ==
    \A u \in Events : Speaks(r, u) =>
        /\ f = TraceOf(exchange[u[1]]) /\ Settled(exchange[u[1]])
        /\ Sent(u) /\ (setting.failures \/ r = RecordOf(u))

AllOwned == \A f \in Files : \A r : Holds(f, r) => Owned(f, r)

\* The first record of a session's trace is the request that began it.
First(id) ==
    /\ disk[id] # <<>> => \E e \in Beginning(id) : disk[id][1] \in Outcomes(RequestLines(e))
    /\ disk[id] = <<>> =>
          \/ \A i \in 1 .. Len(channel) : channel[i].file # id
          \/ \E i \in 1 .. Len(channel) :
                /\ channel[i].file = id /\ \A j \in 1 .. Len(channel) : j < i => channel[j].file # id
                /\ \E e \in Beginning(id) : channel[i].lines = RequestLines(e)

Firsts == \A id \in Ids : First(id)

SInv ==
    /\ Shapes /\ Opened /\ Filed /\ AnswersFiled /\ UsedStarted
    /\ AllOwned /\ Firsts

-----------------------------------------------------------------------------
(* The trace of an exchange as exchanges go on. *)

LEMMA TurnShapes ==
    ASSUME IInv, NEW y \in ExchangeType, NEW x \in ExchangeType, Turn(y, x), Shaped(y),
           y.step = "giving" => y.id \in Ids
    PROVE  Shaped(x)
<1>1. y.frames \in Nat /\ y.step \in Steps /\ x.names \in Names
  BY TapAssumption DEF ExchangeType
<1>2. Learnt \subseteq Ids
  BY DEF Learnt, IInv, TypeOK
<1>3. CASE y.step = "idle" /\ x # y
  BY <1>2, <1>3 DEF Turn, Shaped, Early
<1>4. CASE y.step = "passing" /\ x # y
  BY <1>4 DEF Turn, Shaped, Assignable, Early
<1>5. CASE y.step = "read" /\ x # y
  BY <1>5 DEF Turn, Shaped, Same, Early
<1>6. CASE y.step \in {"recording", "reserving"} /\ x # y
  BY <1>6 DEF Turn, Shaped, Same, Early
<1>7. CASE y.step = "serving" /\ x # y
  BY <1>7 DEF Turn, Shaped, Same, Assignable, Early
<1>8. CASE y.step \in {"giving", "moving", "settling"} /\ x # y
  BY <1>8 DEF Turn, Shaped, Same, Early
<1>9. CASE (y.step = "answered" \/ Late(y)) /\ x # y
  BY <1>1, <1>9 DEF Turn, Shaped, Same, Early, Late
<1> QED BY <1>1, <1>3, <1>4, <1>5, <1>6, <1>7, <1>8, <1>9 DEF Steps, Late

\* What an exchange names and carries is settled when it arrives, and its
\* session when it is answered.
LEMMA TurnKeeps ==
    ASSUME NEW y \in ExchangeType, NEW x \in ExchangeType, Turn(y, x), Shaped(y)
    PROVE  /\ y.step # "idle" => x.names = y.names /\ x.carries = y.carries
           /\ (y.names # "nothing" \/ y.id \in Ids) => x.names = y.names /\ x.carries = y.carries /\ x.id = y.id
           /\ Settled(y) => Settled(x) /\ x.id = y.id /\ x.names = y.names /\ x.carries = y.carries
           /\ Late(y) => x.answer = y.answer /\ x.file = y.file /\ Late(x)
<1>1. NoId \notin Ids /\ y.step \in Steps
  BY TapAssumption DEF ExchangeType
<1>2. y.step # "idle" => x.names = y.names /\ x.carries = y.carries
  BY DEF Turn, Same
<1>3. (y.names # "nothing" \/ y.id \in Ids) => x.names = y.names /\ x.carries = y.carries /\ x.id = y.id
  BY <1>1 DEF Turn, Same, Shaped, Assignable
<1>4. Settled(y) => Settled(x) /\ x.id = y.id /\ x.names = y.names /\ x.carries = y.carries
  BY <1>1 DEF Turn, Same, Shaped, Assignable, Settled, Late
<1>5. Late(y) => x.answer = y.answer /\ x.file = y.file /\ Late(x)
  BY DEF Turn, Same, Late
<1> QED BY <1>2, <1>3, <1>4, <1>5

LEMMA ExchangesKeep ==
    ASSUME IInv, Shapes, NEW e \in Exchanges, Turned(e)
    PROVE  /\ Shapes'
           /\ \A d \in Exchanges :
                /\ exchange[d].step # "idle" =>
                      exchange'[d].names = exchange[d].names /\ exchange'[d].carries = exchange[d].carries
                /\ (exchange[d].names # "nothing" \/ exchange[d].id \in Ids) =>
                      /\ exchange'[d].names = exchange[d].names /\ exchange'[d].carries = exchange[d].carries
                      /\ exchange'[d].id = exchange[d].id
                /\ Settled(exchange[d]) =>
                      /\ Settled(exchange'[d]) /\ exchange'[d].id = exchange[d].id
                      /\ exchange'[d].names = exchange[d].names /\ exchange'[d].carries = exchange[d].carries
                /\ Late(exchange[d]) =>
                      /\ exchange'[d].answer = exchange[d].answer /\ exchange'[d].file = exchange[d].file
                      /\ Late(exchange'[d])
                /\ exchange[d] \in ExchangeType /\ exchange'[d] \in ExchangeType
<1>1. PICK x \in ExchangeType : exchange' = [exchange EXCEPT ![e] = x] /\ Turn(exchange[e], x)
  BY DEF Turned
<1>2. \A d \in Exchanges : exchange'[d] = IF d = e THEN x ELSE exchange[d]
  BY <1>1 DEF IInv, TypeOK
<1>3. exchange[e] \in ExchangeType /\ Shaped(exchange[e]) /\ (exchange[e].step = "giving" => exchange[e].id \in Ids)
      /\ \A d \in Exchanges : exchange[d] \in ExchangeType
  BY Kept DEF Shapes, IInv, Given
<1>4. Shaped(x)
  BY <1>1, <1>3, TurnShapes
<1>5. \A d \in Exchanges : Shaped(exchange'[d])
  BY <1>2, <1>4 DEF Shapes
<1>6. Shapes'
  BY <1>5 DEF Shapes, Shaped, Early
<1> QED BY <1>1, <1>2, <1>3, <1>6, TurnKeeps

\* Who began a session stays; who has a session had it from whom it was
\* assigned to, so nobody else will begin it.
LEMMA BeginningsKeep ==
    ASSUME IInv, Shapes, NEW e \in Exchanges, Turned(e)
    PROVE  /\ \A id \in Ids : Beginning(id) \subseteq Beginning(id)'
           /\ \A id \in Assigned \cap Ids : Beginning(id)' = Beginning(id)
<1>1. PICK x \in ExchangeType : exchange' = [exchange EXCEPT ![e] = x] /\ Turn(exchange[e], x)
  BY DEF Turned
<1>2. \A d \in Exchanges : exchange'[d] = IF d = e THEN x ELSE exchange[d]
  BY <1>1 DEF IInv, TypeOK
<1>3. \A id \in Ids : Beginning(id) \subseteq Beginning(id)'
  BY ExchangesKeep DEF Beginning
<1>4. ASSUME NEW id \in Assigned \cap Ids, NEW d \in Beginning(id)' PROVE d \in Beginning(id)
  <2>1. exchange'[d].names = "nothing" /\ exchange'[d].id = id /\ exchange'[d].carries # "large" /\ d \in Exchanges
    BY <1>4 DEF Beginning
  <2>2. CASE exchange[d].id \in Ids \/ exchange[d].names # "nothing"
    BY <2>1, <2>2, ExchangesKeep DEF Beginning
  <2>3. CASE exchange[d].id \notin Ids /\ exchange[d].names = "nothing"
    <3>1. d = e /\ x.id = id /\ x.names = "nothing"
      BY <1>2, <2>1, <2>3
    <3>2. id # NoId /\ id \notin {NoId} \union (Ids \ Assigned)
      BY <1>4, TapAssumption
    <3> QED BY <1>1, <2>3, <3>1, <3>2 DEF Turn, Same, Assignable
  <2> QED BY <2>2, <2>3
<1> QED BY <1>3, <1>4

\* The trace of an exchange stays the same.
LEMMA TraceKeeps ==
    ASSUME IInv, Shapes, LearntFrom, NEW e \in Exchanges, Turned(e), NEW d \in Exchanges,
           exchange'[d].names = exchange[d].names, exchange'[d].id = exchange[d].id
    PROVE  TraceOf(exchange[d])' = TraceOf(exchange[d])
<1>1. CASE exchange[d].names = "session"
  <2>1. exchange[d].id \in Ids
    BY <1>1 DEF Shapes, Shaped
  <2>2. exchange[d].id \in Assigned
    BY <1>1, <2>1, TapAssumption DEF LearntFrom, Assigned
  <2>3. Beginning(exchange[d].id)' = Beginning(exchange[d].id)
    <3>1. PICK id \in Assigned \cap Ids : id = exchange[d].id
      BY <2>1, <2>2
    <3>2. Beginning(id)' = Beginning(id)
      BY BeginningsKeep
    <3> QED BY <3>1, <3>2 DEF Beginning
  <2> QED BY <2>3 DEF TraceOf
<1>2. CASE exchange[d].names # "session"
  BY <1>2 DEF TraceOf
<1> QED BY <1>1, <1>2

-----------------------------------------------------------------------------
(* What an exchange says as it goes on. *)

Utterance(e, c) ==
    \/ c.lines = <<>> /\ c.file = Stateless
    \/ /\ c.lines = RequestLines(e) /\ c.file = exchange[e].file
       /\ \/ exchange[e].step = "recording" /\ exchange'[e].step = "serving"
          \/ exchange[e].step = "moving" /\ exchange'[e].step = "answered"
    \/ /\ c.lines = RequestLines(e) /\ c.file = Stateless
       /\ exchange[e].step = "settling" /\ exchange'[e].step = "answered"
    \/ /\ c.lines = AnswerLines(e) /\ c.file = exchange[e].file
       /\ exchange[e].step = "answered" /\ exchange'[e].step \in {"streaming", "done"}
    \/ /\ c.lines = FrameLines(e) /\ c.file = exchange[e].file
       /\ exchange[e].step = "framing" /\ exchange'[e].step = "streaming"

Speech(e) ==
    \/ /\ channel' = channel
       /\ exchange[e].step = "moving" => exchange'[e].step # "answered"
    \/ \E c \in Commands :
          /\ channel' = Append(channel, c) /\ Utterance(e, c)
          /\ exchange[e].step = "moving" /\ exchange'[e].step = "answered" => c.file = exchange[e].file

Goes(e) ==
    /\ Turned(e) /\ UNCHANGED <<setting, writer, disk>>
    /\ files \subseteq files'
    /\ \A id \in files' : id \in files \/ (exchange[e].step = "giving" /\ id = exchange[e].id)
    /\ exchange[e].step = "giving" /\ exchange'[e].step = "moving" => exchange[e].id \in files'
    /\ \A d \in Exchanges : AnswerOf(d) \in Known' =>
          AnswerOf(d) \in Known \/ (d = e /\ (exchange[e].carries = "large" \/ exchange[e].step = "answered"))
    /\ Speech(e)

\* A step that leaves the channel alone.
LEMMA QuietGoes ==
    ASSUME IInv, NEW e \in Exchanges, Turned(e), UNCHANGED <<setting, files, channel, writer, disk>>,
           exchange[e].step = "moving" => exchange'[e].step # "answered",
           exchange[e].step # "giving" \/ exchange'[e].step # "moving",
           \A d \in Exchanges : AnswerOf(d) \in Known' =>
              AnswerOf(d) \in Known \/ (d = e /\ (exchange[e].carries = "large" \/ exchange[e].step = "answered"))
    PROVE  Goes(e)
BY DEF Goes, Speech

\* What is known in a step in which knowledge only spreads.
LEMMA Spreads ==
    ASSUME NEW W, \A u \in heard' \union told' : u \in Known \/ u \in W,
           \A p \in past' : p \in past \/ p[1] \in Known
    PROVE  \A u \in Known' : u \in Known \/ u \in W
BY DEF Known

LEMMA PastKnown == \A v : \A u \in Past(v) : u \in Known
BY Zenon DEF Past, Known

LEMMA AnswerIsNone ==
    ASSUME NEW e, NEW d
    PROVE  AnswerOf(d) # RequestOf(e) /\ (AnswerOf(d) = AnswerOf(e) => d = e)
           /\ \A n \in Nat \ {0} : AnswerOf(d) # FrameOf(e, n)
BY DEF AnswerOf, RequestOf, FrameOf

LEMMA QuietStepsGo ==
    ASSUME IInv, SInv, NEW e \in Exchanges, Turned(e),
           Arrive(e) \/ Pass(e) \/ Observe(e) \/ Answer(e) \/ Emit(e) \/ EndStream(e)
    PROVE  Goes(e)
<1> DEFINE W == {AnswerOf(d) : d \in {b \in {e} : exchange[b].carries = "large"}}
<1>1. UNCHANGED <<setting, files, channel, writer, disk>>
  BY DEF Arrive, Pass, Observe, Answer, Emit, EndStream
<1>2. exchange[e].step # "moving" /\ (exchange[e].step # "giving" \/ exchange'[e].step # "moving")
  BY DEF Arrive, Pass, Observe, Answer, Emit, EndStream
<1>3. exchange[e].step = "passing" => exchange[e].carries = "large"
  BY DEF SInv, Shapes, Shaped
<1>4. \A u \in heard' \union told' : u \in Known \/ u \in W
  <2>1. heard \union told \subseteq Known
    BY DEF Known
  <2>2. CASE Pass(e)
    <3>1. /\ heard' = heard \union Past(RequestOf(e)) /\ told' = told \union heard' \union {AnswerOf(e)}
          /\ AnswerOf(e) \in W
      BY <1>3, <2>2 DEF Pass
    <3> QED BY <2>1, <3>1, PastKnown
  <2>3. CASE ~Pass(e)
    <3>1. heard' = heard /\ told' = told
      BY <2>3 DEF Arrive, Observe, Answer, Emit, EndStream
    <3> QED BY <2>1, <3>1
  <2> QED BY <2>2, <2>3
<1>5. \A p \in past' : p \in past \/ p[1] \in Known
  <2>1. ASSUME NEW v, NEW known \in {heard, told}, Knowing(v, known)
        PROVE  \A p \in past' : p \in past \/ p[1] \in Known
    BY <2>1 DEF Knowing, Known
  <2>2. \/ UNCHANGED past
        \/ \E v : Knowing(v, heard) \/ Knowing(v, told)
    BY DEF Arrive, Pass, Observe, Answer, Emit, EndStream
  <2> QED BY <2>1, <2>2
<1>6. \A d \in Exchanges : AnswerOf(d) \in W => d = e /\ exchange[e].carries = "large"
  BY AnswerIsNone
<1> HIDE DEF W
<1>7. \A u \in Known' : u \in Known \/ u \in W
  BY <1>4, <1>5, Spreads
<1> QED BY <1>1, <1>2, <1>6, <1>7, QuietGoes

\* A step that sends one command.
LEMMA TalkGoes ==
    ASSUME IInv, NEW e \in Exchanges, Turned(e), UNCHANGED <<setting, writer, disk, past>>, NEW c \in Commands,
           channel' = Append(channel, c), Utterance(e, c),
           exchange[e].step = "moving" /\ exchange'[e].step = "answered" => c.file = exchange[e].file,
           \/ files' = files /\ ~(exchange[e].step = "giving" /\ exchange'[e].step = "moving")
           \/ files' = files \union {exchange[e].id} /\ exchange[e].step = "giving",
           \A u \in heard' \union told' : u \in Known \/ u = RequestOf(e) \/ (\E n \in Nat \ {0} : u = FrameOf(e, n))
                                          \/ (u = AnswerOf(e) /\ exchange[e].step = "answered")
    PROVE  Goes(e)
<1>1. \A d \in Exchanges : AnswerOf(d) \in Known' =>
         AnswerOf(d) \in Known \/ (d = e /\ exchange[e].step = "answered")
  BY AnswerIsNone DEF Known
<1>2. Speech(e)
  BY DEF Speech
<1> QED BY <1>1, <1>2 DEF Goes

LEMMA TalkingStepsGo ==
    ASSUME IInv, SInv, NEW e \in Exchanges, Turned(e),
           \/ RecordRequest(e) \/ ReservePlace(e) \/ GivePlaceUp(e) \/ MoveRequest(e) \/ FillPlace(e)
           \/ RecordAnswer(e) \/ RecordFrame(e)
    PROVE  Goes(e)
<1>1. /\ exchange[e].file \in Files /\ RequestLines(e) \in Seq(Records) /\ AnswerLines(e) \in Seq(Records)
      /\ FrameLines(e) \in Seq(Records) /\ <<>> \in Seq(Records) /\ exchange[e].frames \in Nat
  BY LineTypes, Kept, TapAssumption DEF IInv, ExchangeType
<1>2. /\ \A lines \in Seq(Records) : Write(exchange[e].file, lines) \in Commands /\ Fill(e, lines) \in Commands
      /\ Reserve(e) \in Commands
      /\ \A lines : /\ Write(exchange[e].file, lines).lines = lines
                    /\ Write(exchange[e].file, lines).file = exchange[e].file
                    /\ Fill(e, lines).lines = lines /\ Fill(e, lines).file = Stateless
      /\ Reserve(e).lines = <<>> /\ Reserve(e).file = Stateless
  BY <1>1 DEF Write, Fill, Reserve, Commands, Holders, Files
<1>3. \A u \in heard \union told : u \in Known
  BY DEF Known
<1>4. UNCHANGED <<setting, writer, disk, past>>
  BY DEF RecordRequest, ReservePlace, GivePlaceUp, MoveRequest, FillPlace, RecordAnswer, RecordFrame, Sends
<1>5. CASE RecordRequest(e)
  <2>1. /\ exchange[e].step = "recording" /\ exchange'[e].step = "serving"
        /\ channel' = Append(channel, Write(exchange[e].file, RequestLines(e)))
        /\ files' = files /\ told' = told /\ heard' = heard \union {RequestOf(e)} \union Past(RequestOf(e))
    BY <1>5, SendsTo DEF RecordRequest, Sends, ThenServe
  <2>2. Utterance(e, Write(exchange[e].file, RequestLines(e)))
    BY <1>2, <2>1 DEF Utterance
  <2>3. \A u \in heard' \union told' : u \in Known \/ u = RequestOf(e)
    BY <1>3, <2>1, PastKnown
  <2>4. PICK c \in Commands : c = Write(exchange[e].file, RequestLines(e))
    BY <1>1, <1>2
  <2> QED BY <1>4, <2>1, <2>2, <2>3, <2>4, TalkGoes
<1>6. CASE ReservePlace(e)
  <2>1. /\ exchange[e].step = "reserving" /\ exchange'[e].step = "serving"
        /\ channel' = Append(channel, Reserve(e))
        /\ files' = files /\ told' = told /\ heard' = heard \union {RequestOf(e)} \union Past(RequestOf(e))
    BY <1>6, SendsTo DEF ReservePlace, Sends, ThenServe
  <2>2. Utterance(e, Reserve(e))
    BY <1>2, <2>1 DEF Utterance
  <2>3. \A u \in heard' \union told' : u \in Known \/ u = RequestOf(e)
    BY <1>3, <2>1, PastKnown
  <2>4. PICK c \in Commands : c = Reserve(e)
    BY <1>1, <1>2
  <2> QED BY <1>4, <2>1, <2>2, <2>3, <2>4, TalkGoes
<1>7. CASE GivePlaceUp(e)
  <2>1. /\ exchange[e].step = "giving" /\ channel' = Append(channel, Fill(e, <<>>))
        /\ files' = files \union {exchange[e].id} /\ told' = told /\ heard' = heard
    BY <1>7 DEF GivePlaceUp, Sends
  <2>2. Utterance(e, Fill(e, <<>>))
    BY <1>2 DEF Utterance
  <2>3. PICK c \in Commands : c = Fill(e, <<>>)
    BY <1>1, <1>2
  <2> QED BY <1>3, <1>4, <2>1, <2>2, <2>3, TalkGoes
<1>8. CASE MoveRequest(e)
  <2>1. /\ exchange[e].step = "moving" /\ exchange'[e].step = "answered"
        /\ channel' = Append(channel, Write(exchange[e].file, RequestLines(e)))
        /\ files' = files /\ told' = told /\ heard' = heard
    BY <1>8, SendsTo DEF MoveRequest, Sends
  <2>2. Utterance(e, Write(exchange[e].file, RequestLines(e)))
    BY <1>2, <2>1 DEF Utterance
  <2>3. PICK c \in Commands : c = Write(exchange[e].file, RequestLines(e))
    BY <1>1, <1>2
  <2>4. c.file = exchange[e].file
    BY <1>2, <2>3
  <2> QED BY <1>3, <1>4, <2>1, <2>2, <2>3, <2>4, TalkGoes
<1>9. CASE FillPlace(e)
  <2>1. /\ exchange[e].step = "settling" /\ exchange'[e].step = "answered"
        /\ channel' = Append(channel, Fill(e, RequestLines(e)))
        /\ files' = files /\ told' = told /\ heard' = heard
    BY <1>9, SendsTo DEF FillPlace, Sends
  <2>2. Utterance(e, Fill(e, RequestLines(e)))
    BY <1>2, <2>1 DEF Utterance
  <2>3. PICK c \in Commands : c = Fill(e, RequestLines(e))
    BY <1>1, <1>2
  <2> QED BY <1>3, <1>4, <2>1, <2>2, <2>3, TalkGoes
<1>10. CASE RecordAnswer(e)
  <2>1. /\ exchange[e].step = "answered" /\ exchange'[e].step \in {"streaming", "done"}
        /\ channel' = Append(channel, Write(exchange[e].file, AnswerLines(e)))
        /\ files' = files /\ heard' = heard /\ told' = told \union {AnswerOf(e)} \union Past(AnswerOf(e))
    BY <1>10, SendsTo DEF RecordAnswer, Sends, Told
  <2>2. Utterance(e, Write(exchange[e].file, AnswerLines(e)))
    BY <1>2, <2>1 DEF Utterance
  <2>3. \A u \in heard' \union told' : u \in Known \/ (u = AnswerOf(e) /\ exchange[e].step = "answered")
    BY <1>3, <2>1, PastKnown
  <2>4. PICK c \in Commands : c = Write(exchange[e].file, AnswerLines(e))
    BY <1>1, <1>2
  <2> QED BY <1>4, <2>1, <2>2, <2>3, <2>4, TalkGoes
<1>11. CASE RecordFrame(e)
  <2>1. /\ exchange[e].step = "framing" /\ exchange'[e].step = "streaming"
        /\ channel' = Append(channel, Write(exchange[e].file, FrameLines(e)))
        /\ files' = files /\ heard' = heard
        /\ told' = told \union {FrameOf(e, exchange[e].frames)} \union Past(FrameOf(e, exchange[e].frames))
    BY <1>11, SendsTo DEF RecordFrame, Sends, Told
  <2>2. Utterance(e, Write(exchange[e].file, FrameLines(e)))
    BY <1>2, <2>1 DEF Utterance
  <2>3. exchange[e].frames \in Nat \ {0}
    BY <1>1, <2>1 DEF SInv, Shapes, Shaped
  <2>4. \A u \in heard' \union told' : u \in Known \/ \E n \in Nat \ {0} : u = FrameOf(e, n)
    BY <1>3, <2>1, <2>3, PastKnown
  <2>5. PICK c \in Commands : c = Write(exchange[e].file, FrameLines(e))
    BY <1>1, <1>2
  <2> QED BY <1>4, <2>1, <2>2, <2>4, <2>5, TalkGoes
<1> QED BY <1>5, <1>6, <1>7, <1>8, <1>9, <1>10, <1>11

\* Every step of an exchange is one of these.
LEMMA StepsGo ==
    ASSUME IInv, SInv, NEW e \in Exchanges,
           \/ Arrive(e) \/ Pass(e) \/ Observe(e) \/ RecordRequest(e) \/ ReservePlace(e)
           \/ Answer(e) \/ GivePlaceUp(e) \/ MoveRequest(e) \/ FillPlace(e) \/ RecordAnswer(e)
           \/ Emit(e) \/ RecordFrame(e) \/ EndStream(e) \/ Abandon(e) \/ Release(e)
    PROVE  Goes(e)
<1>1. Turned(e)
  BY Turns
<1>2. CASE Abandon(e) \/ Release(e)
  <2>1. UNCHANGED <<setting, files, writer, disk, heard, told, past>>
    BY <1>2 DEF Abandon, Release
  <2>2. exchange'[e].step = "gone" \/ exchange' = exchange
    BY <1>2 DEF Abandon, Release, Step, IInv, TypeOK
  <2>3. CASE channel' = channel
    BY <1>1, <2>1, <2>2, <2>3, QuietGoes DEF Known
  <2>4. CASE channel' = Append(channel, Fill(e, <<>>))
    <3>1. Fill(e, <<>>) \in Commands /\ Fill(e, <<>>).lines = <<>> /\ Fill(e, <<>>).file = Stateless
      BY DEF Fill, Commands, Holders, Files
    <3>2. Utterance(e, Fill(e, <<>>))
      BY <3>1 DEF Utterance
    <3>3. PICK c \in Commands : c = Fill(e, <<>>)
      BY <3>1
    <3> QED BY <1>1, <2>1, <2>2, <2>4, <3>2, <3>3, TalkGoes DEF Known
  <2> QED BY <1>2, <2>3, <2>4 DEF Abandon, Release
<1> QED BY <1>1, <1>2, QuietStepsGo, TalkingStepsGo

-----------------------------------------------------------------------------
(* The traces as exchanges go on. *)

LEMMA SpeechShape ==
    ASSUME IInv, NEW e \in Exchanges, Goes(e)
    PROVE  /\ Len(channel) \in Nat
           /\ \A i \in 1 .. Len(channel) : i \in 1 .. Len(channel') /\ channel'[i] = channel[i]
           /\ \A i \in 1 .. Len(channel') :
                 \/ i \in 1 .. Len(channel)
                 \/ i = Len(channel) + 1 /\ channel'[i] \in Commands /\ Utterance(e, channel'[i])
           /\ exchange[e].step = "moving" /\ exchange'[e].step = "answered" =>
                 \E i \in 1 .. Len(channel') : channel'[i].file = exchange[e].file
<1>1. channel \in Seq(Commands) /\ Len(channel) \in Nat
  BY DEF IInv, TypeOK, Commands
<1>2. CASE channel' = channel /\ (exchange[e].step = "moving" => exchange'[e].step # "answered")
  BY <1>1, <1>2
<1>3. ASSUME NEW c \in Commands, channel' = Append(channel, c), Utterance(e, c),
             exchange[e].step = "moving" /\ exchange'[e].step = "answered" => c.file = exchange[e].file
      PROVE  /\ \A i \in 1 .. Len(channel) : i \in 1 .. Len(channel') /\ channel'[i] = channel[i]
             /\ \A i \in 1 .. Len(channel') :
                   \/ i \in 1 .. Len(channel)
                   \/ i = Len(channel) + 1 /\ channel'[i] \in Commands /\ Utterance(e, channel'[i])
             /\ exchange[e].step = "moving" /\ exchange'[e].step = "answered" =>
                   \E i \in 1 .. Len(channel') : channel'[i].file = exchange[e].file
  <2>1. /\ Len(channel') = Len(channel) + 1 /\ channel'[Len(channel) + 1] = c
        /\ \A i \in 1 .. Len(channel) : channel'[i] = channel[i]
    BY <1>1, <1>3, AppendProperties
  <2> QED BY <1>1, <1>3, <2>1
<1> QED BY <1>1, <1>2, <1>3 DEF Goes, Speech

LEMMA StartedKeeps ==
    ASSUME IInv, NEW e \in Exchanges, Goes(e), NEW f, Started(f)
    PROVE  Started(f)'
BY SpeechShape DEF Goes, Started

\* A request that names a session finds the session's trace if, and only if, a
\* request the tap held began it; and then the trace was begun.
LEMMA Observed ==
    ASSUME IInv, OInv, SInv, NEW e \in Exchanges, exchange[e].names # "nothing"
    PROVE  /\ TraceOf(exchange[e]) = IF exchange[e].id \in files THEN exchange[e].id ELSE Unassigned
           /\ exchange[e].id \in files => Started(exchange[e].id)
<1> DEFINE id == exchange[e].id
<1>1. CASE exchange[e].names = "invented"
  <2>1. id \notin files
    BY <1>1, TapAssumption DEF SInv, Shapes, Shaped, IInv, TypeOK
  <2> QED BY <1>1, <2>1 DEF TraceOf
<1>2. CASE exchange[e].names = "session"
  <2>1. id \in Ids /\ id # NoId
    BY <1>2, TapAssumption DEF SInv, Shapes, Shaped
  <2>2. PICK y \in Exchanges : exchange[y].names = "nothing" /\ exchange[y].id = id /\ AnswerOf(y) \in told
    BY <1>2 DEF OInv, LearntFrom
  <2>3. AnswerOf(y) \in Known
    BY <2>2 DEF Known
  <2>4. \A b \in Beginning(id) : b = y
    BY <2>1, <2>2 DEF Beginning, OInv, Founded
  <2>5. CASE id \in files
    <3>1. Beginning(id) # {}
      BY <2>5 DEF SInv, Opened
    <3>2. y \in Beginning(id)
      BY <2>4, <3>1
    <3>3. exchange[y].file = TraceOf(exchange[y]) /\ (exchange[y].file \in Ids => Started(exchange[y].file))
      BY <2>2, <2>3, <3>2 DEF SInv, AnswersFiled, Beginning
    <3>4. TraceOf(exchange[y]) = id
      BY <2>1, <2>2 DEF TraceOf
    <3> QED BY <1>2, <2>1, <2>5, <3>1, <3>3, <3>4 DEF TraceOf
  <2>6. CASE id \notin files
    <3>1. ASSUME y \in Beginning(id) PROVE FALSE
      <4>1. exchange[y].file = TraceOf(exchange[y])
        BY <2>2, <2>3, <3>1 DEF SInv, AnswersFiled, Beginning
      <4>2. TraceOf(exchange[y]) = id
        BY <2>1, <2>2 DEF TraceOf
      <4> QED BY <2>1, <2>6, <4>1, <4>2 DEF SInv, Opened
    <3>2. Beginning(id) = {}
      BY <2>4, <3>1
    <3> QED BY <1>2, <2>6, <3>2 DEF TraceOf
  <2> QED BY <2>5, <2>6
<1>3. exchange[e].names \in {"nothing", "session", "invented"}
  BY Kept DEF ExchangeType, Names
<1> QED BY <1>1, <1>2, <1>3

LEMMA OpenedKeeps ==
    ASSUME IInv, OInv, SInv, NEW e \in Exchanges, Goes(e)
    PROVE  Opened'
<1>1. PICK x \in ExchangeType : exchange' = [exchange EXCEPT ![e] = x] /\ Turn(exchange[e], x)
  BY DEF Goes, Turned
<1>2. \A d \in Exchanges : exchange'[d] = IF d = e THEN x ELSE exchange[d]
  BY <1>1 DEF IInv, TypeOK
<1>3. Turned(e) /\ files \subseteq files' /\ files \subseteq Ids
  BY DEF Goes, IInv, TypeOK
<1>4. \A id \in Ids : Beginning(id) \subseteq Beginning(id)'
  BY <1>3, BeginningsKeep DEF SInv
<1>5. exchange[e].step = "giving" =>
         exchange[e].id \in Ids /\ exchange[e].names = "nothing" /\ exchange[e].carries # "large"
  BY DEF IInv, Given, SInv, Shapes, Shaped
<1>6. ASSUME NEW id \in files' PROVE Beginning(id)' # {}
  <2>1. CASE id \in files
    BY <1>3, <1>4, <2>1 DEF SInv, Opened
  <2>2. CASE exchange[e].step = "giving" /\ id = exchange[e].id
    <3>1. e \in Beginning(id) /\ id \in Ids
      BY <1>5, <2>2 DEF Beginning
    <3> QED BY <1>4, <3>1
  <2> QED BY <1>6, <2>1, <2>2 DEF Goes
<1>7. ASSUME x.file \in Ids PROVE x.file \in files'
  <2>1. CASE x.file = exchange[e].file
    BY <1>3, <1>7, <2>1 DEF SInv, Opened
  <2>2. CASE x.file # exchange[e].file
    <3>1. \/ x.file = Stateless \/ x.file = Unassigned \/ x.file \in files
          \/ exchange[e].step = "giving" /\ x.step = "moving" /\ x.file = exchange[e].id
      BY <1>1, <2>2 DEF Turn, Same
    <3> QED BY <1>2, <1>3, <1>7, <3>1, TapAssumption DEF Goes
  <2> QED BY <2>1, <2>2
<1>8. \A d \in Exchanges : exchange'[d].file \in Ids => exchange'[d].file \in files'
  BY <1>2, <1>3, <1>7 DEF SInv, Opened
<1> QED BY <1>6, <1>8 DEF Opened

\* How a turn comes to have something in its trace.
LEMMA TurnFiles ==
    ASSUME IInv, NEW y \in ExchangeType, NEW x \in ExchangeType, Turn(y, x), Shaped(y), Filing(x)
    PROVE  \/ Filing(y) /\ x.names = y.names /\ x.id = y.id /\ x.file = y.file
           \/ /\ y.step = "read" /\ y.names # "nothing" /\ x.names = y.names /\ x.id = y.id
              /\ x.file = IF y.id \in files THEN y.id ELSE Unassigned
           \/ x.names = "nothing" /\ x.id = NoId /\ x.file = Stateless
           \/ y.step = "giving" /\ x.names = "nothing" /\ y.names = "nothing" /\ x.id = y.id /\ x.file = x.id
<1>1. y.step \in Steps
  BY DEF ExchangeType
<1>2. CASE y.step = "idle" /\ x # y
  BY <1>2 DEF Turn, Filing
<1>3. CASE y.step = "passing" /\ x # y
  BY <1>3 DEF Turn, Filing, Shaped
<1>4. CASE y.step = "read" /\ x # y
  BY <1>4 DEF Turn, Filing
<1>5. CASE y.step \in {"recording", "reserving"} /\ x # y
  BY <1>5 DEF Turn, Filing, Shaped, Same, Early
<1>6. CASE y.step = "serving" /\ x # y
  BY <1>6 DEF Turn, Filing, Shaped, Assignable
<1>7. CASE y.step = "giving" /\ x # y
  BY <1>7 DEF Turn, Filing, Shaped
<1>8. CASE y.step \in {"moving", "settling"} /\ x # y
  BY <1>8 DEF Turn, Filing, Same
<1>9. CASE y.step \in {"answered", "streaming", "framing"} /\ x # y
  BY <1>9 DEF Turn, Filing, Same
<1>10. CASE x = y
  BY <1>10
<1>11. CASE y.step \in {"done", "gone"}
  BY <1>11 DEF Turn
<1> QED BY <1>1, <1>2, <1>3, <1>4, <1>5, <1>6, <1>7, <1>8, <1>9, <1>10, <1>11 DEF Steps

LEMMA FiledKeeps ==
    ASSUME IInv, OInv, SInv, NEW e \in Exchanges, Goes(e)
    PROVE  Filed'
<1>1. PICK x \in ExchangeType : exchange' = [exchange EXCEPT ![e] = x] /\ Turn(exchange[e], x)
  BY DEF Goes, Turned
<1>2. \A d \in Exchanges : exchange'[d] = IF d = e THEN x ELSE exchange[d]
  BY <1>1 DEF IInv, TypeOK
<1>3. Shapes /\ LearntFrom /\ Turned(e) /\ exchange[e] \in ExchangeType /\ Shaped(exchange[e])
  BY Kept DEF SInv, OInv, Goes, Shapes
<1>4. \A d \in Exchanges : exchange'[d].names = exchange[d].names /\ exchange'[d].id = exchange[d].id =>
         TraceOf(exchange[d])' = TraceOf(exchange[d])
  BY <1>3, TraceKeeps
<1>5. ASSUME Filing(x) PROVE x.file = TraceOf(exchange[e])'
  <2>1. CASE Filing(exchange[e]) /\ x.names = exchange[e].names /\ x.id = exchange[e].id /\ x.file = exchange[e].file
    BY <1>2, <1>4, <2>1 DEF SInv, Filed
  <2>2. CASE /\ exchange[e].names # "nothing" /\ x.names = exchange[e].names /\ x.id = exchange[e].id
             /\ x.file = IF exchange[e].id \in files THEN exchange[e].id ELSE Unassigned
    BY <1>2, <1>4, <2>2, Observed
  <2>3. CASE x.names = "nothing" /\ x.id = NoId /\ x.file = Stateless
    BY <1>2, <2>3 DEF TraceOf
  <2>4. CASE /\ exchange[e].step = "giving" /\ x.names = "nothing" /\ exchange[e].names = "nothing"
             /\ x.id = exchange[e].id /\ x.file = x.id
    <3>1. x.id # NoId
      BY <2>4, TapAssumption DEF IInv, Given
    <3> QED BY <1>2, <2>4, <3>1 DEF TraceOf
  <2> QED BY <1>1, <1>3, <1>5, <2>1, <2>2, <2>3, <2>4, TurnFiles
<1>6. ASSUME NEW d \in Exchanges, Filing(exchange'[d]) PROVE exchange'[d].file = TraceOf(exchange[d])'
  <2>1. CASE d = e
    BY <1>2, <1>5, <1>6, <2>1
  <2>2. CASE d # e
    BY <1>2, <1>4, <1>6, <2>2 DEF SInv, Filed
  <2> QED BY <2>1, <2>2
<1> QED BY <1>6 DEF Filed, Filing

LEMMA AnswersKeep ==
    ASSUME IInv, OInv, SInv, NEW e \in Exchanges, Goes(e)
    PROVE  AnswersFiled'
<1>1. PICK x \in ExchangeType : exchange' = [exchange EXCEPT ![e] = x] /\ Turn(exchange[e], x)
  BY DEF Goes, Turned
<1>2. \A d \in Exchanges : exchange'[d] = IF d = e THEN x ELSE exchange[d]
  BY <1>1 DEF IInv, TypeOK
<1>3. Shapes /\ LearntFrom /\ Turned(e)
  BY DEF SInv, OInv, Goes
<1>4. ASSUME NEW d \in Exchanges, AnswerOf(d) \in Known PROVE Late(exchange[d])
  <2>1. Sent(AnswerOf(d))
    BY <1>4 DEF OInv, KnownSent, Known
  <2> QED BY <2>1, Utters
\* The answer that is being recorded is of an exchange that has its trace.
<1>5. ASSUME NEW d \in Exchanges, AnswerOf(d) \in Known', exchange'[d].names = "nothing", exchange'[d].carries # "large"
      PROVE  /\ Settled(exchange[d]) /\ exchange'[d].file = exchange[d].file
             /\ exchange[d].file = TraceOf(exchange[d])
             /\ exchange[d].file \in Ids => Started(exchange[d].file)
  <2>1. CASE AnswerOf(d) \in Known
    <3>1. Late(exchange[d]) /\ Settled(exchange[d])
      BY <1>4, <2>1 DEF Settled
    <3>2. /\ exchange'[d].names = exchange[d].names /\ exchange'[d].carries = exchange[d].carries
          /\ exchange'[d].file = exchange[d].file
      BY <1>3, <3>1, ExchangesKeep
    <3> QED BY <1>5, <2>1, <3>1, <3>2 DEF SInv, AnswersFiled
  <2>2. CASE AnswerOf(d) \notin Known
    <3>1. d = e /\ (exchange[e].carries = "large" \/ exchange[e].step = "answered")
      BY <1>5, <2>2 DEF Goes
    <3>2. exchange[e].step = "answered"
      <4>1. exchange[e].carries = "large" => exchange[e].step # "idle"
        BY DEF SInv, Shapes, Shaped
      <4> QED BY <1>3, <1>5, <3>1, <4>1, ExchangesKeep
    <3>3. x.file = exchange[e].file
      BY <1>1, <3>2 DEF Turn, Same
    <3> QED BY <1>2, <3>1, <3>2, <3>3 DEF Settled, SInv, Filed, Filing, UsedStarted
  <2> QED BY <2>1, <2>2
<1>6. ASSUME NEW d \in Exchanges, AnswerOf(d) \in Known', exchange'[d].names = "nothing", exchange'[d].carries # "large"
      PROVE  /\ exchange'[d].file = TraceOf(exchange[d])'
             /\ exchange'[d].file \in Ids => Started(exchange[d].file)'
  <2>1. /\ Settled(exchange[d]) /\ exchange'[d].file = exchange[d].file
        /\ exchange[d].file = TraceOf(exchange[d])
        /\ exchange[d].file \in Ids => Started(exchange[d].file)
    BY <1>5, <1>6
  <2>2. TraceOf(exchange[d])' = TraceOf(exchange[d])
    BY <1>3, <2>1, ExchangesKeep, TraceKeeps
  <2>3. PICK f : f = exchange[d].file
    OBVIOUS
  <2>4. Started(f) => Started(f)'
    BY StartedKeeps
  <2> QED BY <2>1, <2>2, <2>3, <2>4 DEF Started
<1> QED BY <1>6 DEF AnswersFiled, AnswerOf, Started

LEMMA UsesKeep ==
    ASSUME IInv, OInv, SInv, NEW e \in Exchanges, Goes(e)
    PROVE  UsedStarted'
<1>1. PICK x \in ExchangeType : exchange' = [exchange EXCEPT ![e] = x] /\ Turn(exchange[e], x)
  BY DEF Goes, Turned
<1>2. \A d \in Exchanges : exchange'[d] = IF d = e THEN x ELSE exchange[d]
  BY <1>1 DEF IInv, TypeOK
<1>3. \A f : Started(f) => Started(f)'
  BY StartedKeeps
<1>4. ASSUME NEW d \in Exchanges, exchange'[d].file \in Ids, exchange'[d].step \notin {"moving", "gone"}
      PROVE  \E f : f = exchange'[d].file /\ Started(f)'
  <2>1. CASE /\ exchange[d].file = exchange'[d].file /\ exchange[d].step \notin {"moving", "gone"}
    BY <1>3, <1>4, <2>1 DEF SInv, UsedStarted
  <2>2. CASE d = e /\ ~(x.file = exchange[e].file /\ exchange[e].step \notin {"moving", "gone"})
    <3>1. \/ exchange[e].step = "moving" /\ x.step = "answered" /\ x.file = exchange[e].file
          \/ /\ exchange[e].step = "read" /\ exchange[e].names # "nothing"
             /\ x.file = exchange[e].id /\ exchange[e].id \in files
      <4>1. exchange[e].step = "gone" => x = exchange[e]
        BY <1>1 DEF Turn
      <4> QED BY <1>1, <1>2, <1>4, <2>2, <4>1, TapAssumption DEF Turn, Same
    <3>2. CASE exchange[e].step = "moving" /\ x.step = "answered" /\ x.file = exchange[e].file
      <4>1. \E i \in 1 .. Len(channel') : channel'[i].file = x.file
        BY <1>2, <3>2, SpeechShape
      <4>2. Started(x.file)'
        BY <4>1 DEF Started
      <4> QED BY <1>2, <2>2, <4>2
    <3>3. CASE exchange[e].names # "nothing" /\ x.file = exchange[e].id /\ exchange[e].id \in files
      <4>1. Started(x.file)
        BY <3>3, Observed
      <4> QED BY <1>2, <1>3, <2>2, <4>1
    <3> QED BY <3>1, <3>2, <3>3
  <2> QED BY <1>2, <1>4, <2>1, <2>2
<1> QED BY <1>4 DEF UsedStarted, Started

-----------------------------------------------------------------------------
(* The records of the traces as exchanges go on. *)

LEMMA RecordKeeps ==
    ASSUME IInv, Shapes, NEW e \in Exchanges, Turned(e), NEW u \in Events, Settled(exchange[u[1]]), Sent(u)
    PROVE  RecordOf(u)' = RecordOf(u)
<1>1. u[1] \in Exchanges /\ u[2] \in Nat
  BY EventParts
<1>2. exchange'[u[1]].carries = exchange[u[1]].carries
  BY <1>1, ExchangesKeep
<1>3. u[2] = 1 => exchange'[u[1]].answer = exchange[u[1]].answer
  <2>1. u[2] = 1 => Late(exchange[u[1]])
    BY DEF Sent, SentOf
  <2> QED BY <1>1, <2>1, ExchangesKeep
<1> QED BY <1>2, <1>3 DEF RecordOf, RequestLines, AnswerLines

LEMMA HoldsGrows ==
    ASSUME IInv, NEW e \in Exchanges, Goes(e), NEW f, NEW r, Holds(f, r)'
    PROVE  Holds(f, r) \/ \E c \in Commands : c.file = f /\ c.lines = r /\ Utterance(e, c)
<1>1. CASE (\E i \in 1 .. Len(disk[f]) : disk[f][i] = r)
           \/ (\E i \in 1 .. Len(writer.waiting[f]) : writer.waiting[f][i].lines = r)
  BY <1>1 DEF Holds
<1>2. CASE \E i \in 1 .. Len(channel') : channel'[i].file = f /\ channel'[i].lines = r
  BY <1>2, SpeechShape DEF Holds
<1> QED BY <1>1, <1>2 DEF Holds, Goes

\* A step of an exchange owns what it says.
LEMMA UtteranceOwned ==
    ASSUME IInv, OInv, SInv, NEW e \in Exchanges, Goes(e), NEW c \in Commands, Utterance(e, c), NEW f \in {c.file}
    PROVE  \A u \in Events : Speaks(c.lines, u) =>
              /\ f = TraceOf(exchange[u[1]])' /\ Settled(exchange'[u[1]])
              /\ Sent(u)' /\ c.lines = RecordOf(u)'
<1>1. PICK x \in ExchangeType : exchange' = [exchange EXCEPT ![e] = x] /\ Turn(exchange[e], x)
  BY DEF Goes, Turned
<1>2. exchange'[e] = x
  BY <1>1 DEF IInv, TypeOK
<1>3. Shapes /\ LearntFrom /\ Turned(e) /\ exchange[e] \in ExchangeType /\ Shaped(exchange[e])
  BY Kept DEF SInv, OInv, Goes, Shapes
<1>4. exchange[e].step \in {"recording", "moving", "settling", "answered", "framing"}
      /\ x.step \in {"serving", "answered", "streaming", "done"} =>
         /\ x.names = exchange[e].names /\ x.id = exchange[e].id /\ x.carries = exchange[e].carries
         /\ x.answer = exchange[e].answer /\ x.file = exchange[e].file /\ x.frames = exchange[e].frames
  BY <1>1 DEF Turn, Same
<1>5. exchange[e].step \in {"recording", "moving", "settling", "answered", "framing"} =>
         exchange[e].file = TraceOf(exchange[e])
  BY DEF SInv, Filed, Filing
<1>6. exchange[e].step = "settling" => exchange[e].file = Stateless
  BY <1>3 DEF Shaped
<1>7. x.names = exchange[e].names /\ x.id = exchange[e].id => TraceOf(exchange[e])' = TraceOf(exchange[e])
  BY <1>2, <1>3, TraceKeeps
<1> DEFINE Own(u) == /\ f = TraceOf(exchange[u[1]])' /\ Settled(exchange'[u[1]])
                     /\ Sent(u)' /\ c.lines = RecordOf(u)'
<1>8. RequestOf(e)[1] = e /\ RequestOf(e)[2] = 0 /\ AnswerOf(e)[1] = e /\ AnswerOf(e)[2] = 1
  BY DEF RequestOf, AnswerOf
<1>9. CASE c.lines = <<>>
  BY <1>9, Said
<1>10. CASE /\ c.lines = RequestLines(e) /\ c.file = exchange[e].file
            /\ \/ exchange[e].step = "recording" /\ x.step = "serving"
               \/ exchange[e].step \in {"moving", "settling"} /\ x.step = "answered"
  <2>1. \A u : Speaks(c.lines, u) => u = RequestOf(e)
    BY <1>10, Said
  <2>2. f = TraceOf(exchange[e])'
    BY <1>4, <1>5, <1>7, <1>10
  <2>3. Settled(x) /\ ~Early(x)
    BY <1>3, <1>4, <1>10 DEF Settled, Shaped, Early
  <2>4. RequestLines(e)' = RequestLines(e)
    BY <1>2, <1>4, <1>10 DEF RequestLines
  <2>5. ASSUME NEW u \in Events, u = RequestOf(e) PROVE Own(u)
    <3>1. u[1] = e /\ u[2] = 0
      BY <1>8, <2>5
    <3>2. Sent(u)'
      BY <1>2, <2>3, <3>1 DEF Sent, SentOf
    <3>3. RecordOf(u)' = c.lines
      BY <1>10, <2>4, <3>1 DEF RecordOf
    <3>4. TraceOf(exchange[u[1]])' = TraceOf(exchange[e])'
      BY <3>1
    <3> QED BY <1>2, <2>2, <2>3, <3>1, <3>2, <3>3, <3>4
  <2> QED BY <2>1, <2>5
<1>11. CASE /\ c.lines = AnswerLines(e) /\ c.file = exchange[e].file
            /\ exchange[e].step = "answered" /\ x.step \in {"streaming", "done"}
  <2>1. \A u : Speaks(c.lines, u) => u = AnswerOf(e)
    BY <1>11, Said
  <2>2. f = TraceOf(exchange[e])'
    BY <1>4, <1>5, <1>7, <1>11
  <2>3. Settled(x) /\ Late(x)
    BY <1>11 DEF Settled, Late
  <2>4. AnswerLines(e)' = AnswerLines(e)
    BY <1>2, <1>4, <1>11 DEF AnswerLines
  <2>5. ASSUME NEW u \in Events, u = AnswerOf(e) PROVE Own(u)
    <3>1. u[1] = e /\ u[2] = 1
      BY <1>8, <2>5
    <3>2. Sent(u)'
      BY <1>2, <2>3, <3>1 DEF Sent, SentOf
    <3>3. RecordOf(u)' = c.lines
      BY <1>11, <2>4, <3>1 DEF RecordOf
    <3>4. TraceOf(exchange[u[1]])' = TraceOf(exchange[e])'
      BY <3>1
    <3> QED BY <1>2, <2>2, <2>3, <3>1, <3>2, <3>3, <3>4
  <2> QED BY <2>1, <2>5
<1>12. CASE /\ c.lines = FrameLines(e) /\ c.file = exchange[e].file
            /\ exchange[e].step = "framing" /\ x.step = "streaming"
  <2> DEFINE k == exchange[e].frames
  <2>1. \A u : Speaks(c.lines, u) => u = FrameOf(e, k)
    BY <1>12, Said
  <2>2. f = TraceOf(exchange[e])'
    BY <1>4, <1>5, <1>7, <1>12
  <2>3. Settled(x) /\ Late(x)
    BY <1>12 DEF Settled, Late
  <2>4. k \in Nat /\ k > 0 /\ x.frames = k
    BY <1>3, <1>4, <1>12, TapAssumption DEF Shaped, ExchangeType
  <2>5. ASSUME NEW u \in Events, u = FrameOf(e, k) PROVE Own(u)
    <3>1. u[1] = e /\ u[2] = k + 1
      BY <2>5 DEF FrameOf
    <3>2. Sent(u)'
      BY <1>2, <1>12, <2>3, <2>4, <3>1 DEF Sent, SentOf
    <3>3. RecordOf(u)' = <<Line(e, k + 1, "message")>>
      BY <2>4, <3>1 DEF RecordOf, Line
    <3>4. TraceOf(exchange[u[1]])' = TraceOf(exchange[e])'
      BY <3>1
    <3> QED BY <1>2, <1>12, <2>2, <2>3, <3>1, <3>2, <3>3, <3>4 DEF FrameLines
  <2> QED BY <2>1, <2>5
<1> QED BY <1>2, <1>6, <1>9, <1>10, <1>11, <1>12 DEF Utterance

LEMMA OwnedKeeps ==
    ASSUME IInv, OInv, SInv, NEW e \in Exchanges, Goes(e)
    PROVE  AllOwned'
<1>1. Shapes /\ LearntFrom /\ Turned(e) /\ setting' = setting
  BY DEF SInv, OInv, Goes
<1>2. ASSUME NEW f \in Files, NEW r, Holds(f, r)', NEW u \in Events, Speaks(r, u)
      PROVE  /\ f = TraceOf(exchange[u[1]])' /\ Settled(exchange'[u[1]])
             /\ Sent(u)' /\ (setting'.failures \/ r = RecordOf(u)')
  <2>1. CASE Holds(f, r)
    <3>1. f = TraceOf(exchange[u[1]]) /\ Settled(exchange[u[1]]) /\ Sent(u) /\ (setting.failures \/ r = RecordOf(u))
      BY <1>2, <2>1 DEF SInv, AllOwned, Owned
    <3>2. u[1] \in Exchanges
      BY EventParts
    <3>3. /\ exchange'[u[1]].names = exchange[u[1]].names /\ exchange'[u[1]].id = exchange[u[1]].id
          /\ Settled(exchange'[u[1]])
      BY <1>1, <3>1, <3>2, ExchangesKeep
    <3>4. PICK d \in Exchanges : d = u[1]
      BY <3>2
    <3>5. TraceOf(exchange[d])' = TraceOf(exchange[d])
      BY <1>1, <3>3, <3>4, TraceKeeps
    <3>6. TraceOf(exchange[u[1]])' = TraceOf(exchange[d])'
      BY <3>4
    <3> QED BY <1>1, <3>1, <3>3, <3>4, <3>5, <3>6, RecordKeeps, SentStays
  <2>2. CASE \E c \in Commands : c.file = f /\ c.lines = r /\ Utterance(e, c)
    BY <1>2, <2>2, UtteranceOwned
  <2> QED BY <1>2, <2>1, <2>2, HoldsGrows
<1> QED BY <1>2 DEF AllOwned, Owned, Settled, Late

\* Who began a session has arrived, and what it carried stays.
LEMMA BeginnersKeep ==
    ASSUME IInv, SInv, NEW e \in Exchanges, Turned(e), NEW id \in Ids, NEW b \in Beginning(id)
    PROVE  b \in Beginning(id)' /\ RequestLines(b)' = RequestLines(b)
<1>1. b \in Exchanges /\ exchange[b].id \in Ids
  BY DEF Beginning
<1>2. exchange'[b].carries = exchange[b].carries
  BY <1>1, ExchangesKeep DEF SInv
<1> QED BY <1>2, BeginningsKeep DEF SInv, RequestLines

\* A session's trace that was not begun is begun with a moved request.
LEMMA BeginsRight ==
    ASSUME IInv, OInv, SInv, NEW e \in Exchanges, Goes(e), NEW c \in Commands, Utterance(e, c),
           c.file \in Ids, ~Started(c.file)
    PROVE  e \in Beginning(c.file) /\ c.lines = RequestLines(e)
<1>1. c.file = exchange[e].file /\ c.file \notin {Stateless}
  BY TapAssumption DEF Utterance
<1>2. exchange[e].step = "moving" /\ c.lines = RequestLines(e)
  <2>1. exchange[e].step \in {"recording", "moving", "settling", "answered", "framing"}
    BY <1>1 DEF Utterance
  <2>2. exchange[e].step \in {"moving", "gone"}
    BY <1>1 DEF SInv, UsedStarted
  <2>3. exchange[e].step = "moving"
    BY <2>1, <2>2
  <2> QED BY <1>1, <2>3 DEF Utterance
<1>3. exchange[e].names = "nothing" /\ exchange[e].id = c.file /\ exchange[e].carries # "large"
  BY <1>1, <1>2 DEF OInv, FileIs, Right, SInv, Shapes, Shaped
<1> QED BY <1>2, <1>3 DEF Beginning

LEMMA FirstsKeep ==
    ASSUME IInv, OInv, SInv, NEW e \in Exchanges, Goes(e)
    PROVE  Firsts'
<1> SUFFICES ASSUME NEW id \in Ids PROVE First(id)'
  BY DEF Firsts
<1>1. First(id) /\ Turned(e) /\ UNCHANGED <<setting, writer, disk>>
  BY DEF SInv, Firsts, Goes
<1>2. \A b \in Beginning(id) : b \in Beginning(id)' /\ RequestLines(b)' = RequestLines(b)
  BY <1>1, BeginnersKeep
<1>3. CASE disk[id] # <<>>
  <2>1. PICK b \in Beginning(id) : disk[id][1] \in Outcomes(RequestLines(b))
    BY <1>1, <1>3 DEF First
  <2>2. b \in Beginning(id)' /\ Outcomes(RequestLines(b))' = Outcomes(RequestLines(b))
    BY <1>1, <1>2 DEF Outcomes
  <2> QED BY <1>1, <1>3, <2>1, <2>2 DEF First
<1>4. CASE disk[id] = <<>> /\ Started(id)
  <2>1. PICK i \in 1 .. Len(channel) :
           /\ channel[i].file = id /\ \A j \in 1 .. Len(channel) : j < i => channel[j].file # id
           /\ \E b \in Beginning(id) : channel[i].lines = RequestLines(b)
    BY <1>1, <1>4 DEF First, Started
  <2>2. i \in 1 .. Len(channel') /\ channel'[i] = channel[i]
    BY SpeechShape
  <2>3. \A j \in 1 .. Len(channel') : j < i => channel'[j].file # id
    BY <2>1, SpeechShape
  <2>4. \E b \in Beginning(id)' : channel'[i].lines = RequestLines(b)'
    BY <1>2, <2>1, <2>2
  <2> QED BY <1>1, <1>4, <2>1, <2>2, <2>3, <2>4 DEF First
<1>5. CASE disk[id] = <<>> /\ ~Started(id)
  <2>1. \A i \in 1 .. Len(channel) : channel[i].file # id
    BY <1>5 DEF Started
  <2>2. CASE \A i \in 1 .. Len(channel') : channel'[i].file # id
    BY <1>1, <1>5, <2>2 DEF First
  <2>3. CASE ~\A i \in 1 .. Len(channel') : channel'[i].file # id
    <3>1. PICK i \in 1 .. Len(channel') : channel'[i].file = id
      BY <2>3
    <3>2. i = Len(channel) + 1 /\ channel'[i] \in Commands /\ Utterance(e, channel'[i])
      BY <2>1, <3>1, SpeechShape
    <3>3. PICK c \in Commands : c = channel'[i]
      BY <3>2
    <3>4. e \in Beginning(id) /\ c.lines = RequestLines(e)
      BY <1>5, <3>1, <3>2, <3>3, BeginsRight
    <3>5. \A j \in 1 .. Len(channel') : j < i => channel'[j].file # id
      BY <2>1, <3>2, SpeechShape
    <3>6. e \in Beginning(id)' /\ channel'[i].lines = RequestLines(e)'
      BY <1>2, <3>3, <3>4
    <3> QED BY <1>1, <1>5, <3>1, <3>5, <3>6 DEF First
  <2> QED BY <2>2, <2>3
<1> QED BY <1>3, <1>4, <1>5

LEMMA StepsKeepTraces ==
    ASSUME IInv, OInv, SInv, NEW e \in Exchanges, Goes(e)
    PROVE  SInv'
<1>1. Shapes'
  BY ExchangesKeep DEF SInv, Goes
<1> QED BY <1>1, OpenedKeeps, FiledKeeps, AnswersKeep, UsesKeep, OwnedKeeps, FirstsKeep DEF SInv

-----------------------------------------------------------------------------
(* The records of the traces as the writer goes on. *)

HasRecord(d, w, r) ==
    \/ \E i \in 1 .. Len(d) : d[i] = r
    \/ \E i \in 1 .. Len(w) : w[i].lines = r

\* A file or a queue has r, or what is left of it.
HasPiece(d, w, r) == \E q : HasRecord(d, w, q) /\ Piece(r, q)

\* The writer moves records, and loses of them only where a write fails.
LEMMA RecordsMove ==
    ASSUME NEW d \in Seq(Seq(Records)), NEW slots \in Seq(Slots), NEW d2 \in Seq(Seq(Records)), NEW w2 \in Seq(Slots),
           NEW n, Moved(d, slots, d2, w2, n), NEW r
    PROVE  /\ HasRecord(d2, w2, r) => HasPiece(d, slots, r)
           /\ ~setting.failures /\ HasRecord(d, slots, r) => HasRecord(d2, w2, r)
<1> DEFINE a  == Len(d)
           b  == Len(slots)
           a2 == Len(d2)
           b2 == Len(w2)
<1>1. a \in Nat /\ b \in Nat /\ a2 \in Nat /\ b2 \in Nat
  BY LenProperties
<1>2. /\ n \in 0 .. b
      /\ a2 = a + n /\ \A k \in 1 .. a : d2[k] = d[k]
      /\ \A k \in 1 .. n : slots[k].open = {} /\ Piece(d2[a + k], slots[k].lines)
      /\ b2 = b - n /\ \A k \in 1 .. b2 : w2[k] = slots[k + n]
  BY DEF Moved
<1>3. ASSUME HasRecord(d2, w2, r) PROVE HasPiece(d, slots, r)
  <2>0. Piece(r, r)
    BY DEF Piece
  <2> SUFFICES (\E i \in 1 .. a : d[i] = r) \/ (\E i \in 1 .. b : Piece(r, slots[i].lines))
    BY <2>0, Zenon DEF HasRecord, HasPiece
  <2>1. (\E i \in 1 .. a2 : d2[i] = r) \/ (\E i \in 1 .. b2 : w2[i].lines = r)
    BY <1>3 DEF HasRecord
  <2> HIDE DEF a, b, a2, b2
  <2>2. ASSUME NEW i \in 1 .. a2, d2[i] = r, i \notin 1 .. a
        PROVE  \E k \in 1 .. b : Piece(r, slots[k].lines)
    <3>1. i - a \in 1 .. n /\ a + (i - a) = i /\ i - a \in 1 .. b
      BY <1>1, <1>2, <2>2
    <3> QED BY <1>2, <2>2, <3>1
  <2>3. ASSUME NEW i \in 1 .. b2, w2[i].lines = r PROVE \E k \in 1 .. b : Piece(r, slots[k].lines)
    <3>1. i + n \in 1 .. b
      BY <1>1, <1>2
    <3> QED BY <1>2, <2>0, <2>3, <3>1
  <2> QED BY <1>2, <2>1, <2>2, <2>3
<1>4. ASSUME ~setting.failures, HasRecord(d, slots, r) PROVE HasRecord(d2, w2, r)
  <2> SUFFICES (\E i \in 1 .. a2 : d2[i] = r) \/ (\E i \in 1 .. b2 : w2[i].lines = r)
    BY DEF HasRecord
  <2>1. (\E i \in 1 .. a : d[i] = r) \/ (\E i \in 1 .. b : slots[i].lines = r)
    BY <1>4 DEF HasRecord
  <2> HIDE DEF a, b, a2, b2
  <2>2. ASSUME NEW i \in 1 .. a, d[i] = r PROVE \E k \in 1 .. a2 : d2[k] = r
    <3>1. i \in 1 .. a2
      BY <1>1, <1>2
    <3> QED BY <1>2, <2>2, <3>1
  <2>3. ASSUME NEW i \in 1 .. b, slots[i].lines = r, i \in 1 .. n PROVE \E k \in 1 .. a2 : d2[k] = r
    <3>1. a + i \in 1 .. a2
      BY <1>1, <1>2, <2>3
    <3> QED BY <1>2, <1>4, <2>3, <3>1 DEF Piece
  <2>4. ASSUME NEW i \in 1 .. b, slots[i].lines = r, i \notin 1 .. n PROVE \E k \in 1 .. b2 : w2[k].lines = r
    <3>1. i - n \in 1 .. b2 /\ (i - n) + n = i
      BY <1>1, <1>2, <2>4
    <3> QED BY <1>2, <2>4, <3>1
  <2> QED BY <2>1, <2>2, <2>3, <2>4
<1> QED BY <1>3, <1>4

LEMMA RecordsAdvance ==
    ASSUME IInv, NEW f \in Files, NEW slots \in Seq(Slots), NEW places \in SUBSET Exchanges, Advance(f, slots, places)
    PROVE  /\ \A r : HasRecord(disk'[f], writer'.waiting[f], r) => HasPiece(disk[f], slots, r)
           /\ ~setting.failures =>
                 \A r : HasRecord(disk[f], slots, r) => HasRecord(disk'[f], writer'.waiting[f], r)
           /\ \A g \in Files \ {f} : disk'[g] = disk[g] /\ writer'.waiting[g] = writer.waiting[g]
<1>1. PICK n : Moved(disk[f], slots, disk'[f], writer'.waiting[f], n)
  BY Advances
<1>2. /\ disk[f] \in Seq(Seq(Records)) /\ disk'[f] \in Seq(Seq(Records))
      /\ \A g \in Files \ {f} : disk'[g] = disk[g] /\ writer'.waiting[g] = writer.waiting[g]
  BY Advances, RowShape
<1>3. writer'.waiting[f] \in Seq(Slots)
  <2>1. writer.waiting \in [Files -> Seq(Slots)]
    BY DEF IInv, TypeOK, Slots
  <2> QED BY <2>1, AdvanceEffect
<1>4. \A r : /\ HasRecord(disk'[f], writer'.waiting[f], r) => HasPiece(disk[f], slots, r)
             /\ ~setting.failures /\ HasRecord(disk[f], slots, r) => HasRecord(disk'[f], writer'.waiting[f], r)
  BY <1>1, <1>2, <1>3, RecordsMove
<1> QED BY <1>1, <1>2, <1>4

\* The writer adds no record to a file but the one it takes from the channel.
LEMMA WriterAdds ==
    ASSUME IInv, Handle, NEW f \in Files, NEW r, HasRecord(disk'[f], writer'.waiting[f], r)
    PROVE  \E q : /\ Piece(r, q)
                  /\ \/ HasRecord(disk[f], writer.waiting[f], q) \/ q = <<>>
                     \/ channel[1].file = f /\ channel[1].lines = q
<1>1. PICK c \in Commands : c = channel[1] /\ Head(channel) = c
  BY Taken
<1> DEFINE Had(q) == \/ HasRecord(disk[f], writer.waiting[f], q) \/ q = <<>>
                     \/ c.file = f /\ c.lines = q
<1>0. Piece(r, r)
  BY DEF Piece
<1>2. c.file \in Files /\ c.lines \in Seq(Records) /\ writer.places \in SUBSET Exchanges
  BY <1>1 DEF Commands, IInv, TypeOK
<1>3. writer.waiting[c.file] \in Seq(Slots) /\ Len(writer.waiting[c.file]) \in Nat
  BY <1>2, RowShape
<1>4. ASSUME NEW slots \in Seq(Slots), NEW places \in SUBSET Exchanges, Advance(c.file, slots, places),
             \A i \in 1 .. Len(slots) : \/ slots[i].lines = <<>> \/ slots[i].lines = c.lines
                                        \/ \E k \in 1 .. Len(writer.waiting[c.file]) :
                                              slots[i].lines = writer.waiting[c.file][k].lines
      PROVE  \E q : Piece(r, q) /\ Had(q)
  <2>1. CASE f = c.file
    <3>1. PICK q : HasRecord(disk[f], slots, q) /\ Piece(r, q)
      BY <1>2, <1>4, <2>1, RecordsAdvance DEF HasPiece
    <3>2. Had(q)
      BY <1>4, <2>1, <3>1 DEF HasRecord
    <3> QED BY <3>1, <3>2
  <2>2. CASE f # c.file
    <3>1. HasRecord(disk[f], writer.waiting[f], r)
      BY <1>2, <1>4, <2>2, RecordsAdvance
    <3> QED BY <1>0, <3>1
  <2> QED BY <2>1, <2>2
<1>5. ASSUME NEW slot \in Slots, slot.lines = <<>> \/ slot.lines = c.lines, NEW places \in SUBSET Exchanges,
             Advance(c.file, Append(writer.waiting[c.file], slot), places)
      PROVE  \E q : Piece(r, q) /\ Had(q)
  <2> DEFINE w == writer.waiting[c.file]
             slots == Append(w, slot)
  <2>1. /\ slots \in Seq(Slots) /\ Len(slots) = Len(w) + 1 /\ slots[Len(w) + 1] = slot
        /\ \A i \in 1 .. Len(w) : slots[i] = w[i]
    BY <1>3, AppendProperties
  <2> HIDE DEF slots
  <2>2. \A i \in 1 .. Len(slots) : slots[i] = slot \/ (i \in 1 .. Len(w) /\ slots[i] = w[i])
    BY <1>3, <2>1
  <2>3. Advance(c.file, slots, places)
    BY <1>5 DEF slots
  <2> QED BY <1>4, <1>5, <2>1, <2>2, <2>3
<1>6. CASE HandleWrite(c)
  <2>1. Ready(c.lines) \in Slots /\ Ready(c.lines).lines = c.lines
    BY <1>2 DEF Ready, Slots, Holders
  <2> QED BY <1>1, <1>2, <1>5, <1>6, <2>1 DEF HandleWrite
<1>7. CASE HandleReserve(c)
  <2>1. PICK e \in c.place : Advance(c.file, Append(writer.waiting[c.file], Place(e)), writer.places \union {e})
    BY <1>7 DEF HandleReserve
  <2>2. e \in Exchanges
    BY <1>1, <2>1 DEF Commands, Holders
  <2>3. Place(e) \in Slots /\ Place(e).lines = <<>> /\ writer.places \union {e} \in SUBSET Exchanges
    BY <1>2, <2>2 DEF Place, Slots, Holders
  <2> QED BY <1>1, <1>5, <2>1, <2>3
<1>8. CASE HandleFill(c)
  <2>1. CASE ~(c.place \subseteq writer.places)
    <3>1. writer' = writer /\ disk' = disk
      BY <1>8, <2>1, Zenon DEF HandleFill
    <3> QED BY <1>0, <3>1
  <2>2. CASE c.place \subseteq writer.places
    <3> DEFINE old == writer.waiting[c.file]
               slots == [i \in DOMAIN old |-> IF old[i].open = c.place THEN Ready(c.lines) ELSE old[i]]
               places == writer.places \ c.place
    <3>1. Advance(c.file, slots, places)
      BY <1>8, <2>2, Zenon DEF HandleFill
    <3>2. Ready(c.lines) \in Slots /\ Ready(c.lines).lines = c.lines
      BY <1>2 DEF Ready, Slots, Holders
    <3>3. /\ slots \in Seq(Slots) /\ Len(slots) = Len(old)
          /\ \A i \in 1 .. Len(slots) : slots[i] = IF old[i].open = c.place THEN Ready(c.lines) ELSE old[i]
      <4>1. old \in Seq(Slots)
        BY <1>3
      <4> HIDE DEF old
      <4> QED BY <3>2, <4>1
    <3> HIDE DEF slots
    <3>4. \A i \in 1 .. Len(slots) : slots[i].lines = c.lines \/ (i \in 1 .. Len(old) /\ slots[i].lines = old[i].lines)
      BY <3>2, <3>3
    <3>5. places \in SUBSET Exchanges
      BY <1>2
    <3> HIDE DEF places
    <3> QED BY <1>1, <1>4, <3>1, <3>3, <3>4, <3>5
  <2> QED BY <2>1, <2>2
<1> QED BY <1>1, <1>6, <1>7, <1>8 DEF Handle

LEMMA HandleOwned ==
    ASSUME IInv, SInv, Handle
    PROVE  AllOwned'
<1>1. ASSUME NEW f \in Files, NEW r, Holds(f, r)'
      PROVE  \E q : Piece(r, q) /\ (Holds(f, q) \/ q = <<>>)
  <2>1. CASE HasRecord(disk'[f], writer'.waiting[f], r)
    <3>1. 1 \in 1 .. Len(channel)
      BY Taken
    <3>2. PICK q : /\ Piece(r, q)
                   /\ \/ HasRecord(disk[f], writer.waiting[f], q) \/ q = <<>>
                      \/ channel[1].file = f /\ channel[1].lines = q
      BY <2>1, WriterAdds
    <3> QED BY <3>1, <3>2 DEF HasRecord, Holds
  <2>2. CASE \E i \in 1 .. Len(channel') : channel'[i].file = f /\ channel'[i].lines = r
    <3>1. Holds(f, r)
      BY <2>2, Taken DEF Holds
    <3>2. Piece(r, r)
      BY DEF Piece
    <3> QED BY <3>1, <3>2
  <2> QED BY <1>1, <2>1, <2>2 DEF Holds, HasRecord
<1>2. UNCHANGED <<setting, exchange>>
  BY DEF Handle
<1>3. ASSUME NEW f \in Files, NEW r, Holds(f, r)', NEW u \in Events, Speaks(r, u)
      PROVE  /\ f = TraceOf(exchange[u[1]]) /\ Settled(exchange[u[1]])
             /\ Sent(u) /\ (setting.failures \/ r = RecordOf(u))
  <2>1. PICK q : Piece(r, q) /\ (Holds(f, q) \/ q = <<>>)
    BY <1>1, <1>3
  <2>2. Speaks(q, u)
    BY <1>3, <2>1 DEF Piece
  <2>3. Holds(f, q)
    BY <2>1, <2>2 DEF Speaks
  <2>4. /\ f = TraceOf(exchange[u[1]]) /\ Settled(exchange[u[1]])
        /\ Sent(u) /\ (setting.failures \/ q = RecordOf(u))
    BY <2>2, <2>3 DEF SInv, AllOwned, Owned
  <2>5. setting.failures \/ r = q
    BY <2>1 DEF Piece
  <2> QED BY <2>4, <2>5
<1>4. /\ \A u : (Sent(u)' <=> Sent(u)) /\ RecordOf(u)' = RecordOf(u)
      /\ \A b : TraceOf(exchange[b])' = TraceOf(exchange[b])
  BY <1>2 DEF Sent, RecordOf, RequestLines, AnswerLines, TraceOf, Beginning
<1> QED BY <1>2, <1>3, <1>4 DEF AllOwned, Owned, Settled, Late

\* Nothing waits in a session's queue, so what is recorded there goes to its file.
LEMMA SessionWritten ==
    ASSUME IInv, Handle, NEW id \in Ids
    PROVE  \/ channel[1].file # id /\ disk'[id] = disk[id]
           \/ /\ channel[1].file = id /\ disk'[id] # <<>>
              /\ disk[id] # <<>> => disk'[id][1] = disk[id][1]
              /\ disk[id] = <<>> => disk'[id][1] \in Outcomes(channel[1].lines)
<1>1. PICK c \in Commands : c = channel[1] /\ Head(channel) = c /\ 1 \in 1 .. Len(channel)
  BY Taken
<1>2. c.file \in Files /\ c.lines \in Seq(Records) /\ writer.places \in SUBSET Exchanges /\ id \in Files
  BY <1>1 DEF Commands, IInv, TypeOK, Files
<1>3. CASE c.file # id
  <2>1. CASE HandleWrite(c)
    <3>1. Append(writer.waiting[c.file], Ready(c.lines)) \in Seq(Slots)
      <4>1. writer.waiting[c.file] \in Seq(Slots) /\ Ready(c.lines) \in Slots
        BY <1>2, RowShape DEF Ready, Slots, Holders
      <4> QED BY <4>1
    <3> QED BY <1>1, <1>2, <1>3, <2>1, <3>1, RecordsAdvance DEF HandleWrite
  <2>2. CASE HandleReserve(c)
    <3>1. PICK e \in c.place : Advance(c.file, Append(writer.waiting[c.file], Place(e)), writer.places \union {e})
      BY <2>2 DEF HandleReserve
    <3>2. e \in Exchanges
      BY <1>1, <3>1 DEF Commands, Holders
    <3>3. Append(writer.waiting[c.file], Place(e)) \in Seq(Slots) /\ writer.places \union {e} \in SUBSET Exchanges
      <4>1. writer.waiting[c.file] \in Seq(Slots)
        BY <1>2, RowShape
      <4>2. Place(e) \in Slots
        BY <3>2 DEF Place, Slots, Holders
      <4> QED BY <1>2, <3>2, <4>1, <4>2
    <3> QED BY <1>1, <1>2, <1>3, <3>1, <3>3, RecordsAdvance
  <2>3. CASE HandleFill(c)
    <3>1. disk' = disk \/ \E slots, places : disk' = [disk EXCEPT ![c.file] = disk'[c.file]]
      BY <2>3 DEF HandleFill, Advance, IInv, TypeOK
    <3>2. DOMAIN disk = Files
      BY DEF IInv, TypeOK
    <3> QED BY <1>1, <1>2, <1>3, <3>1, <3>2
  <2> QED BY <1>1, <2>1, <2>2, <2>3 DEF Handle
<1>4. CASE c.file = id
  <2>1. c.kind = "write"
    BY <1>1, <1>4, TapAssumption DEF IInv, Commanded
  <2>2. Advance(id, Append(writer.waiting[id], Ready(c.lines)), writer.places)
    BY <1>1, <1>4, <2>1 DEF Handle, HandleWrite, HandleReserve, HandleFill
  <2>3. writer.waiting[id] \in Seq(Slots) /\ disk[id] \in Seq(Seq(Records)) /\ Len(disk[id]) \in Nat
    BY <1>2, RowShape
  <2>4. writer.waiting[id] = <<>>
    <3>1. ASSUME writer.waiting[id] # <<>> PROVE FALSE
      <4>1. IsOpen(writer.waiting[id][1]) /\ 1 \in 1 .. Len(writer.waiting[id])
        BY <1>2, <2>3, <3>1 DEF IInv, HeadsOpen
      <4>2. id = Stateless
        BY <1>2, <4>1 DEF IInv, SlotsKnown, IsOpen
      <4> QED BY <4>2, TapAssumption
    <3> QED BY <3>1
  <2>5. PICK slot \in Slots : slot = Ready(c.lines) /\ slot.open = {} /\ slot.lines = c.lines
    <3>1. Ready(c.lines) \in Slots /\ Ready(c.lines).open = {} /\ Ready(c.lines).lines = c.lines
      BY <1>2 DEF Ready, Slots, Holders
    <3> QED BY <3>1
  <2> DEFINE slots == Append(writer.waiting[id], Ready(c.lines))
  <2>6. slots = <<slot>> /\ slots \in Seq(Slots) /\ Len(slots) = 1 /\ slots[1] = slot
    BY <2>4, <2>5
  <2> HIDE DEF slots
  <2>7. PICK n \in 0 .. 1 :
          /\ Free(slots, n)
          /\ \E more \in Appended(slots, n) : disk' = [disk EXCEPT ![id] = disk[id] \o more]
    BY <2>2, <2>6 DEF Advance, slots
  <2>8. n = 1
    BY <2>5, <2>6, <2>7 DEF Free, IsOpen
  <2>9. PICK more \in Appended(slots, 1) : disk' = [disk EXCEPT ![id] = disk[id] \o more]
    BY <2>7, <2>8
  <2>10. disk'[id] = disk[id] \o more
    BY <1>2, <2>9 DEF IInv, TypeOK
  <2>11. PICK r \in Seq(Records) : r \in Outcomes(c.lines) /\ more = <<r>>
    <3>1. more[1] \in Outcomes(c.lines)
      BY <2>5, <2>6 DEF Appended
    <3>2. more[1] \in Seq(Records)
      BY <1>2, <3>1, Pieces
    <3>3. more = <<more[1]>>
      BY DEF Appended
    <3> QED BY <3>1, <3>2, <3>3
  <2>12. disk'[id] = disk[id] \o <<r>>
    BY <2>10, <2>11
  <2>13. Len(disk'[id]) = Len(disk[id]) + 1 /\ disk'[id][Len(disk[id]) + 1] = r
         /\ \A i \in 1 .. Len(disk[id]) : disk'[id][i] = disk[id][i]
    BY <2>3, <2>11, <2>12
  <2>14. disk'[id] # <<>>
    BY <2>3, <2>13
  <2>15. ASSUME disk[id] # <<>> PROVE disk'[id][1] = disk[id][1]
    <3>1. 1 \in 1 .. Len(disk[id])
      BY <2>3, <2>15
    <3> QED BY <2>13, <3>1
  <2>16. ASSUME disk[id] = <<>> PROVE disk'[id][1] \in Outcomes(c.lines)
    <3>1. Len(disk[id]) = 0
      BY <2>16
    <3> QED BY <2>11, <2>13, <3>1
  <2> QED BY <1>1, <1>4, <2>14, <2>15, <2>16
<1> QED BY <1>3, <1>4

LEMMA HandleFirsts ==
    ASSUME IInv, SInv, Handle
    PROVE  Firsts' /\ \A id \in Ids : Started(id) => Started(id)'
<1>1. UNCHANGED <<setting, exchange>>
  BY DEF Handle
<1>2. /\ \A id : Beginning(id)' = Beginning(id)
      /\ \A b : RequestLines(b)' = RequestLines(b) /\ Outcomes(RequestLines(b))' = Outcomes(RequestLines(b))
  BY <1>1 DEF Beginning, RequestLines, Outcomes
<1> SUFFICES ASSUME NEW id \in Ids PROVE First(id)' /\ (Started(id) => Started(id)')
  BY DEF Firsts
<1>3. First(id)
  BY DEF SInv, Firsts
<1>4. CASE channel[1].file = id
  <2>1. /\ disk'[id] # <<>>
        /\ disk[id] # <<>> => disk'[id][1] = disk[id][1]
        /\ disk[id] = <<>> => disk'[id][1] \in Outcomes(channel[1].lines)
    BY <1>4, SessionWritten
  <2>2. CASE disk[id] # <<>>
    BY <1>1, <1>2, <1>3, <2>1, <2>2 DEF First, Started
  <2>3. CASE disk[id] = <<>>
    <3>1. PICK i \in 1 .. Len(channel) :
             /\ channel[i].file = id /\ \A j \in 1 .. Len(channel) : j < i => channel[j].file # id
             /\ \E b \in Beginning(id) : channel[i].lines = RequestLines(b)
      BY <1>3, <1>4, <2>3, Taken DEF First
    <3>2. i = 1
      BY <1>4, <3>1, Taken
    <3> QED BY <1>1, <1>2, <2>1, <2>3, <3>1, <3>2 DEF First, Started
  <2> QED BY <2>2, <2>3
<1>5. CASE channel[1].file # id
  <2>1. disk'[id] = disk[id]
    BY <1>5, SessionWritten
  <2>2. ASSUME NEW i \in 1 .. Len(channel), channel[i].file = id
        PROVE  i - 1 \in 1 .. Len(channel') /\ channel'[i - 1] = channel[i]
    BY <1>5, <2>2, Taken
  <2>3. CASE disk[id] # <<>>
    BY <1>1, <1>2, <1>3, <2>1, <2>3 DEF First, Started
  <2>4. CASE disk[id] = <<>> /\ \A i \in 1 .. Len(channel) : channel[i].file # id
    <3>1. \A i \in 1 .. Len(channel') : channel'[i].file # id
      BY <2>4, Taken
    <3> QED BY <2>1, <2>4, <3>1 DEF First, Started
  <2>5. CASE disk[id] = <<>> /\ ~\A i \in 1 .. Len(channel) : channel[i].file # id
    <3>1. PICK i \in 1 .. Len(channel) :
             /\ channel[i].file = id /\ \A j \in 1 .. Len(channel) : j < i => channel[j].file # id
             /\ \E b \in Beginning(id) : channel[i].lines = RequestLines(b)
      BY <1>3, <2>5 DEF First
    <3>2. i - 1 \in 1 .. Len(channel') /\ channel'[i - 1] = channel[i]
      BY <2>2, <3>1
    <3>3. \A j \in 1 .. Len(channel') : j < i - 1 => channel'[j].file # id
      BY <3>1, Taken
    <3> QED BY <1>2, <2>1, <2>5, <3>1, <3>2, <3>3 DEF First, Started
  <2> QED BY <2>3, <2>4, <2>5
<1> QED BY <1>4, <1>5

LEMMA HandleKeepsTraces == ASSUME IInv, SInv, Handle PROVE SInv'
<1>1. UNCHANGED <<setting, exchange, files, heard, told, past>>
  BY DEF Handle
<1>2. Shapes' /\ Opened' /\ Filed'
  BY <1>1 DEF SInv, Shapes, Shaped, Early, Opened, Filed, Filing, TraceOf, Beginning
<1>3. \A id \in Ids : Started(id) => Started(id)'
  BY HandleFirsts
<1>4. AnswersFiled' /\ UsedStarted'
  BY <1>1, <1>3 DEF SInv, AnswersFiled, UsedStarted, Known, TraceOf, Beginning
<1> QED BY <1>2, <1>4, HandleOwned, HandleFirsts DEF SInv

\* Every step of an exchange, a release or the writer keeps the traces.
THEOREM NextTraces == IInv /\ OInv /\ SInv /\ [Next]_vars => SInv'
<1> SUFFICES ASSUME IInv, OInv, SInv, [Next]_vars PROVE SInv'
  OBVIOUS
<1>1. CASE Handle
  BY <1>1, HandleKeepsTraces
<1>2. ASSUME NEW e \in Exchanges,
             \/ Arrive(e) \/ Pass(e) \/ Observe(e) \/ RecordRequest(e) \/ ReservePlace(e)
             \/ Answer(e) \/ GivePlaceUp(e) \/ MoveRequest(e) \/ FillPlace(e) \/ RecordAnswer(e)
             \/ Emit(e) \/ RecordFrame(e) \/ EndStream(e) \/ Abandon(e) \/ Release(e)
      PROVE  SInv'
  BY <1>2, StepsGo, StepsKeepTraces
<1>3. CASE UNCHANGED vars
  <2>1. UNCHANGED <<setting, exchange, files, channel, writer, disk, heard, told, past>>
    BY <1>3 DEF vars
  <2>2. /\ \A f, r : Holds(f, r)' <=> Holds(f, r)
        /\ \A f : Started(f)' <=> Started(f)
        /\ \A id : Beginning(id)' = Beginning(id)
        /\ \A u : (Sent(u)' <=> Sent(u)) /\ RecordOf(u)' = RecordOf(u)
        /\ \A b : RequestLines(b)' = RequestLines(b) /\ Outcomes(RequestLines(b))' = Outcomes(RequestLines(b))
        /\ \A b : TraceOf(exchange[b])' = TraceOf(exchange[b])
        /\ Known' = Known
    BY <2>1 DEF Holds, Started, Beginning, Sent, RecordOf, RequestLines, AnswerLines, Outcomes, TraceOf, Known
  <2>3. Shapes' /\ Opened' /\ Filed' /\ AnswersFiled' /\ UsedStarted'
    BY <2>1, <2>2 DEF SInv, Shapes, Shaped, Early, Opened, Filed, Filing, AnswersFiled, UsedStarted
  <2>4. AllOwned'
    BY <2>1, <2>2 DEF SInv, AllOwned, Owned, Settled, Late
  <2>5. Firsts'
    BY <2>1, <2>2 DEF SInv, Firsts, First
  <2> QED BY <2>3, <2>4, <2>5 DEF SInv
<1> QED BY <1>1, <1>2, <1>3 DEF Next

THEOREM InitTraces == Init => SInv
<1> SUFFICES ASSUME Init PROVE SInv
  OBVIOUS
<1>1. /\ channel = <<>> /\ heard = {} /\ told = {} /\ past = {} /\ files = {}
      /\ \A f \in Files : disk[f] = <<>> /\ writer.waiting[f] = <<>>
      /\ \A e \in Exchanges : exchange[e] = Idle
  BY DEF Init
<1>2. Shapes /\ Opened /\ Filed /\ UsedStarted
  BY <1>1, TapAssumption DEF Shapes, Shaped, Early, Opened, Filed, Filing, UsedStarted, Idle
<1>3. AnswersFiled
  BY <1>1 DEF AnswersFiled, Known
<1>4. AllOwned
  BY <1>1 DEF AllOwned, Holds
<1>5. Firsts
  BY <1>1 DEF Firsts, First, Files
<1> QED BY <1>2, <1>3, <1>4, <1>5 DEF SInv

\* What every trace holds, holds throughout.
THEOREM TraceInvariance == Spec => [](IInv /\ OInv /\ SInv)
<1>1. Init => IInv /\ OInv /\ SInv
  BY InitInv, InitOrder, InitTraces
<1>2. IInv /\ OInv /\ SInv /\ [Next]_vars => (IInv /\ OInv /\ SInv)'
  BY NextInv, NextOrder, NextTraces
<1> QED BY <1>1, <1>2, PTL DEF Spec

\* A session's trace begins with the request that began it, or with what a failed
\* write left of that, and no trace holds an exchange that is another's (tap.rs
\* Tap::named, Tap::reserve; tap/files.rs TraceKey).
THEOREM TracesAreKept == Spec => []SessionsKeepTheirTrace
<1>1. ASSUME IInv, SInv PROVE SessionsKeepTheirTrace
  <2>1. \A id \in Ids : disk[id] # <<>> =>
           \E e \in Beginning(id) : disk[id][1] \in Outcomes(RequestLines(e))
    BY <1>1 DEF SInv, Firsts, First
  <2>2. ASSUME NEW f \in Files, NEW record \in Range(disk[f]), NEW e \in Exchanges, Mentions(record, e)
        PROVE  f = TraceOf(exchange[e])
    <3>1. disk[f] \in Seq(Seq(Records))
      BY <1>1, RowShape
    <3>2. PICK i \in 1 .. Len(disk[f]) : disk[f][i] = record
      BY <3>1 DEF Range
    <3>3. record \in Seq(Records) /\ Holds(f, record)
      BY <3>1, <3>2 DEF Holds
    <3>4. PICK k \in DOMAIN record : record[k].event[1] = e
      BY <2>2 DEF Mentions
    <3>5. PICK u \in Events : u = record[k].event
      <4>1. record[k] \in Records
        BY <3>3, <3>4
      <4> QED BY <4>1 DEF Records
    <3>6. Speaks(record, u) /\ u[1] = e
      BY <3>4, <3>5 DEF Speaks
    <3> QED BY <1>1, <3>3, <3>6 DEF SInv, AllOwned, Owned
  <2> QED BY <2>1, <2>2 DEF SessionsKeepTheirTrace
<1> QED BY <1>1, TraceInvariance, PTL

-----------------------------------------------------------------------------
(* Nothing is lost.  Until e's place is settled, one party has the word on it *)
(* and the writer keeps the place, or will; so what an exchange has said is   *)
(* in its trace, or on its way there.                                         *)

\* There is one word on e's place.
OneWord ==
    \A e \in Exchanges :
        /\ Holding(exchange[e]) => e \notin releases
        /\ \A i \in 1 .. Len(channel) : Fills(e, i) =>
              /\ ~Holding(exchange[e]) /\ e \notin releases
              /\ \A j \in 1 .. Len(channel) : Fills(e, j) => i = j

\* Who has the word has it on a place.
Placed ==
    \A e \in Exchanges : Spoken(e) => e \in writer.places \/ \E i \in 1 .. Len(channel) : Reserves(e, i)

PlacesWait ==
    \A e \in writer.places :
        \E k \in 1 .. Len(writer.waiting[Stateless]) : writer.waiting[Stateless][k].open = {e}

OpenEmpty ==
    \A f \in Files : \A k \in 1 .. Len(writer.waiting[f]) :
        IsOpen(writer.waiting[f][k]) => writer.waiting[f][k].lines = <<>>

ReservesBlank == \A i \in 1 .. Len(channel) : channel[i].kind = "reserve" => channel[i].lines = <<>>

\* A stream has its frames after its head.
NoFrameYet == \A e \in Exchanges : ~Late(exchange[e]) => exchange[e].frames = 0

\* The p-th event of exchange x has been sent to its trace.
Recorded(x, p) ==
    /\ x.carries # "large"
    /\ p = 0 => x.step \in {"answered", "streaming", "framing", "done"} \/ (x.step = "serving" /\ x.names # "nothing")
    /\ p > 0 => x.step \in {"streaming", "framing", "done"}
    /\ p > 1 => p - 1 <= x.frames /\ (x.step = "framing" => p - 1 < x.frames)

AllRecorded ==
    ~setting.failures =>
        \A u \in Events : Recorded(exchange[u[1]], u[2]) => Holds(exchange[u[1]].file, RecordOf(u))

RInv ==
    /\ OneWord /\ Placed /\ PlacesWait /\ OpenEmpty /\ ReservesBlank
    /\ NoFrameYet /\ AllRecorded

-----------------------------------------------------------------------------
(* The words on the places, as exchanges go on. *)

LEMMA ChannelGrows ==
    ASSUME IInv, NEW c \in Commands, channel' = Append(channel, c)
    PROVE  /\ Len(channel) \in Nat /\ Len(channel') = Len(channel) + 1 /\ channel'[Len(channel) + 1] = c
           /\ \A i \in 1 .. Len(channel) : i \in 1 .. Len(channel') /\ channel'[i] = channel[i]
           /\ \A i \in 1 .. Len(channel') : i \in 1 .. Len(channel) \/ i = Len(channel) + 1
<1>1. channel \in Seq(Commands) /\ Len(channel) \in Nat
  BY DEF IInv, TypeOK, Commands
<1>2. /\ Len(channel') = Len(channel) + 1 /\ channel'[Len(channel) + 1] = c
      /\ \A i \in 1 .. Len(channel) : channel'[i] = channel[i]
  BY <1>1, AppendProperties
<1> QED BY <1>1, <1>2

\* What becomes of the word on e's place: it stays where it is; e reserves, and
\* has it; the exchange says it, or leaves it to a task, which says it.
Wording(e) ==
    /\ UNCHANGED writer /\ \A d \in Exchanges \ {e} : exchange'[d] = exchange[d]
    /\ \/ /\ Holding(exchange'[e]) <=> Holding(exchange[e])
          /\ releases' = releases
          /\ channel' = channel \/ \E c \in Commands : c.kind = "write" /\ channel' = Append(channel, c)
       \/ /\ Early(exchange[e]) /\ releases' = releases
          /\ \E c \in Commands : c.kind = "reserve" /\ c.place = {e} /\ c.lines = <<>> /\ channel' = Append(channel, c)
       \/ /\ Holding(exchange[e]) /\ ~Holding(exchange'[e]) /\ releases' = releases
          /\ \E c \in Commands : c.kind = "fill" /\ c.place = {e} /\ channel' = Append(channel, c)
       \/ /\ Holding(exchange[e]) /\ ~Holding(exchange'[e])
          /\ releases' = releases \union {e} /\ channel' = channel
       \/ /\ e \in releases /\ releases' = releases \ {e} /\ exchange'[e] = exchange[e]
          /\ \E c \in Commands : c.kind = "fill" /\ c.place = {e} /\ channel' = Append(channel, c)

\* Where the fills and the reservations are after a command was sent.
LEMMA WordsGrow ==
    ASSUME IInv, NEW c \in Commands, channel' = Append(channel, c), NEW d \in Exchanges
    PROVE  /\ \A i \in 1 .. Len(channel') :
                 Fills(d, i)' => \/ i \in 1 .. Len(channel) /\ Fills(d, i)
                                 \/ i = Len(channel) + 1 /\ c.kind = "fill" /\ c.place = {d}
           /\ (\E i \in 1 .. Len(channel) : Reserves(d, i)) => \E i \in 1 .. Len(channel') : Reserves(d, i)'
           /\ c.kind = "reserve" /\ c.place = {d} => \E i \in 1 .. Len(channel') : Reserves(d, i)'
<1>1. /\ Len(channel) \in Nat /\ Len(channel') = Len(channel) + 1 /\ channel'[Len(channel) + 1] = c
      /\ \A i \in 1 .. Len(channel) : i \in 1 .. Len(channel') /\ channel'[i] = channel[i]
      /\ \A i \in 1 .. Len(channel') : i \in 1 .. Len(channel) \/ i = Len(channel) + 1
  BY ChannelGrows
<1>2. Len(channel) + 1 \in 1 .. Len(channel')
  BY <1>1
<1> QED BY <1>1, <1>2 DEF Fills, Reserves

LEMMA OneWordKeeps ==
    ASSUME IInv, RInv, NEW e \in Exchanges, Wording(e)
    PROVE  OneWord'
<1> SUFFICES ASSUME NEW d \in Exchanges
             PROVE  /\ Holding(exchange'[d]) => d \notin releases'
                    /\ \A i \in 1 .. Len(channel') : Fills(d, i)' =>
                          /\ ~Holding(exchange'[d]) /\ d \notin releases'
                          /\ \A j \in 1 .. Len(channel') : Fills(d, j)' => i = j
  BY DEF OneWord, Holding
<1>1. /\ Holding(exchange[d]) => d \notin releases
      /\ \A i \in 1 .. Len(channel) : Fills(d, i) =>
            /\ ~Holding(exchange[d]) /\ d \notin releases
            /\ \A j \in 1 .. Len(channel) : Fills(d, j) => i = j
  BY DEF RInv, OneWord
<1>2. d # e => exchange'[d] = exchange[d] /\ (d \in releases' <=> d \in releases)
  BY DEF Wording
<1>3. CASE channel' = channel
  <2>1. \A i \in 1 .. Len(channel) : Fills(d, i)' <=> Fills(d, i)
    BY <1>3 DEF Fills
  <2>2. CASE d # e
    BY <1>1, <1>2, <1>3, <2>1, <2>2
  <2>3. CASE d = e /\ (Holding(exchange'[e]) <=> Holding(exchange[e])) /\ releases' = releases
    BY <1>1, <1>3, <2>1, <2>3
  <2>4. CASE d = e /\ Holding(exchange[e]) /\ ~Holding(exchange'[e]) /\ releases' = releases \union {e}
    BY <1>1, <1>3, <2>1, <2>4
  <2>5. Append(channel, channel[1]) # channel /\ \A c \in Commands : channel' # Append(channel, c)
    <3>1. \A c \in Commands : channel' = Append(channel, c) => Len(channel') = Len(channel) + 1 /\ Len(channel) \in Nat
      BY ChannelGrows
    <3>2. channel \in Seq(Commands)
      BY DEF IInv, TypeOK, Commands
    <3> QED BY <1>3, <3>1, <3>2
  <2> QED BY <2>2, <2>3, <2>4, <2>5 DEF Wording
<1>4. ASSUME NEW c \in Commands, channel' = Append(channel, c)
      PROVE  \A i \in 1 .. Len(channel') :
                Fills(d, i)' => \/ i \in 1 .. Len(channel) /\ Fills(d, i)
                                \/ i = Len(channel) + 1 /\ c.kind = "fill" /\ c.place = {d}
  BY <1>4, WordsGrow
<1>5. CASE \E c \in Commands : /\ c.kind = "write" /\ channel' = Append(channel, c)
                               /\ (Holding(exchange'[e]) <=> Holding(exchange[e])) /\ releases' = releases
  <2>1. \A i \in 1 .. Len(channel') : Fills(d, i)' => i \in 1 .. Len(channel) /\ Fills(d, i)
    BY <1>4, <1>5
  <2>2. (Holding(exchange'[d]) <=> Holding(exchange[d])) /\ releases' = releases
    BY <1>2, <1>5
  <2> QED BY <1>1, <2>1, <2>2
<1>6. CASE \E c \in Commands : /\ c.kind = "reserve" /\ c.place = {e} /\ channel' = Append(channel, c)
                               /\ Early(exchange[e]) /\ releases' = releases
  <2>1. \A i \in 1 .. Len(channel') : Fills(d, i)' => i \in 1 .. Len(channel) /\ Fills(d, i)
    BY <1>4, <1>6
  <2>2. CASE d = e
    <3>1. e \notin releases /\ \A i \in 1 .. Len(channel) : ~Fills(e, i)
      BY <1>6 DEF IInv, Unreserved, Fills
    <3> QED BY <1>6, <2>1, <2>2, <3>1
  <2>3. CASE d # e
    BY <1>1, <1>2, <2>1, <2>3
  <2> QED BY <2>2, <2>3
<1>7. ASSUME NEW c \in Commands, channel' = Append(channel, c), c.kind = "fill", c.place = {e},
             Holding(exchange[e]) \/ e \in releases, ~Holding(exchange'[e]), e \notin releases'
      PROVE  /\ Holding(exchange'[d]) => d \notin releases'
             /\ \A i \in 1 .. Len(channel') : Fills(d, i)' =>
                   /\ ~Holding(exchange'[d]) /\ d \notin releases'
                   /\ \A j \in 1 .. Len(channel') : Fills(d, j)' => i = j
  <2>1. CASE d = e
    <3>1. \A i \in 1 .. Len(channel) : ~Fills(d, i)
      BY <1>1, <1>7, <2>1
    <3>2. \A i \in 1 .. Len(channel') : Fills(d, i)' => i = Len(channel) + 1
      BY <1>4, <1>7, <3>1
    <3> QED BY <1>7, <2>1, <3>2
  <2>2. CASE d # e
    <3>1. \A i \in 1 .. Len(channel') : Fills(d, i)' => i \in 1 .. Len(channel) /\ Fills(d, i)
      BY <1>4, <1>7, <2>2
    <3> QED BY <1>1, <1>2, <2>2, <3>1
  <2> QED BY <2>1, <2>2
<1>8. e \in releases => ~Holding(exchange[e])
  BY DEF RInv, OneWord
<1>9. Holding(exchange[e]) => e \notin releases
  BY DEF RInv, OneWord
<1> QED BY <1>3, <1>5, <1>6, <1>7, <1>8, <1>9 DEF Wording

LEMMA PlacedKeeps ==
    ASSUME IInv, RInv, NEW e \in Exchanges, Wording(e)
    PROVE  Placed'
<1> SUFFICES ASSUME NEW d \in Exchanges, Spoken(d)'
             PROVE  d \in writer'.places \/ \E i \in 1 .. Len(channel') : Reserves(d, i)'
  BY DEF Placed
<1>1. writer' = writer /\ (d # e => exchange'[d] = exchange[d] /\ (d \in releases' <=> d \in releases))
  BY DEF Wording
<1>2. CASE \E c \in Commands : c.kind = "reserve" /\ c.place = {d} /\ channel' = Append(channel, c)
  BY <1>2, WordsGrow
<1>3. CASE ~\E c \in Commands : c.kind = "reserve" /\ c.place = {d} /\ channel' = Append(channel, c)
  <2>1. Spoken(d)
    <3>1. CASE channel' = channel
      <4>1. \A i \in 1 .. Len(channel) : Fills(d, i)' <=> Fills(d, i)
        BY <3>1 DEF Fills
      <4>2. Spoken(d)' => \/ Holding(exchange'[d]) \/ d \in releases'
                          \/ \E i \in 1 .. Len(channel) : Fills(d, i)
        BY <3>1, <4>1 DEF Spoken, Holding
      <4> QED BY <1>1, <1>3, <4>2 DEF Spoken, Wording
    <3>2. ASSUME NEW c \in Commands, channel' = Append(channel, c) PROVE Spoken(d)
      <4>1. Spoken(d)' => \/ Holding(exchange'[d]) \/ d \in releases'
                          \/ \E i \in 1 .. Len(channel') : Fills(d, i)'
        BY DEF Spoken, Holding
      <4>2. (\E i \in 1 .. Len(channel') : Fills(d, i)') =>
               (\E i \in 1 .. Len(channel) : Fills(d, i)) \/ (c.kind = "fill" /\ c.place = {d})
        BY <3>2, WordsGrow
      <4>3. channel'[Len(channel) + 1] = c /\ \A b \in Commands : channel' = Append(channel, b) => b = c
        BY <3>2, ChannelGrows
      <4>4. CASE d # e
        <5>1. c.kind = "fill" /\ c.place = {d} => FALSE
          BY <3>2, <4>3, <4>4, TapAssumption DEF Wording
        <5> QED BY <1>1, <4>1, <4>2, <4>4, <5>1 DEF Spoken
      <4>5. CASE d = e
        <5>1. \/ (Holding(exchange'[e]) <=> Holding(exchange[e])) /\ releases' = releases /\ c.kind = "write"
              \/ Holding(exchange[e])
              \/ e \in releases
          BY <1>3, <3>2, <4>3, <4>5 DEF Wording
        <5> QED BY <4>1, <4>2, <4>5, <5>1 DEF Spoken
      <4> QED BY <4>4, <4>5
    <3> QED BY <3>1, <3>2 DEF Wording
  <2>2. d \in writer.places \/ \E i \in 1 .. Len(channel) : Reserves(d, i)
    BY <2>1 DEF RInv, Placed
  <2>3. CASE channel' = channel
    BY <1>1, <2>2, <2>3 DEF Reserves
  <2>4. CASE \E c \in Commands : channel' = Append(channel, c)
    BY <1>1, <2>2, <2>4, WordsGrow
  <2> QED BY <2>3, <2>4 DEF Wording
<1> QED BY <1>2, <1>3

LEMMA BlankKeeps ==
    ASSUME IInv, RInv, NEW e \in Exchanges, Wording(e)
    PROVE  ReservesBlank'
<1>1. ReservesBlank
  BY DEF RInv
<1>2. CASE channel' = channel
  BY <1>1, <1>2 DEF ReservesBlank
<1>3. ASSUME NEW c \in Commands, channel' = Append(channel, c), c.kind = "reserve" => c.lines = <<>>
      PROVE  ReservesBlank'
  <2>1. /\ channel'[Len(channel) + 1] = c
        /\ \A i \in 1 .. Len(channel) : i \in 1 .. Len(channel') /\ channel'[i] = channel[i]
        /\ \A i \in 1 .. Len(channel') : i \in 1 .. Len(channel) \/ i = Len(channel) + 1
    BY <1>3, ChannelGrows
  <2> QED BY <1>1, <1>3, <2>1 DEF ReservesBlank
<1> QED BY <1>2, <1>3 DEF Wording

\* How a step of an exchange bears on who holds a place.
LEMMA TurnHolds ==
    ASSUME NEW y \in ExchangeType, NEW x \in ExchangeType, Turn(y, x), Shaped(y)
    PROVE  /\ y.step \in {"idle", "passing", "read", "recording", "moving", "answered", "streaming", "framing"} =>
                 ~Holding(y) /\ ~Holding(x)
           /\ y.step = "serving" /\ x.step # "gone" => (Holding(x) <=> Holding(y))
           /\ y.step \in {"giving", "settling"} => Holding(y)
           /\ x.step \in {"moving", "answered", "gone"} => ~Holding(x)
<1>1. y.step \in {"idle", "passing", "read", "recording", "moving", "answered", "streaming", "framing"} =>
         ~Holding(y) /\ ~Holding(x)
  BY DEF Turn, Same, Shaped, Holding
<1>2. y.step = "serving" /\ x.step # "gone" => (Holding(x) <=> Holding(y))
  BY DEF Turn, Same, Shaped, Holding
<1> QED BY <1>1, <1>2 DEF Shaped, Holding

LEMMA QuietWords ==
    ASSUME IInv, SInv, NEW e \in Exchanges, Turned(e),
           Arrive(e) \/ Pass(e) \/ Observe(e) \/ Answer(e) \/ Emit(e) \/ EndStream(e)
    PROVE  Wording(e)
<1>1. PICK x \in ExchangeType : exchange' = [exchange EXCEPT ![e] = x] /\ Turn(exchange[e], x)
  BY DEF Turned
<1>2. exchange'[e] = x /\ \A d \in Exchanges \ {e} : exchange'[d] = exchange[d]
  BY <1>1 DEF IInv, TypeOK
<1>3. UNCHANGED <<channel, releases, writer>>
  BY DEF Arrive, Pass, Observe, Answer, Emit, EndStream
<1>4. exchange[e] \in ExchangeType /\ Shaped(exchange[e])
  BY Kept DEF SInv, Shapes
<1>5. \/ exchange[e].step \in {"idle", "passing", "read", "streaming"}
      \/ exchange[e].step = "serving" /\ exchange'[e].step # "gone"
  <2>1. ASSUME Answer(e) PROVE exchange[e].step = "serving" /\ exchange'[e].step # "gone"
    <3>1. PICK answer \in setting.answers, id \in Assignable(exchange[e]) :
               exchange' = [exchange EXCEPT ![e] = [exchange[e] EXCEPT !.answer = answer, !.id = id,
                   !.step = IF exchange[e].names # "nothing" THEN "answered"
                            ELSE IF id # NoId THEN "giving" ELSE "settling"]]
      BY <2>1, Zenon DEF Answer, Assignable
    <3>2. exchange \in [Exchanges -> ExchangeType]
      BY DEF IInv, TypeOK, ExchangeType
    <3>3. exchange'[e].step \in {"answered", "giving", "settling"}
      BY <1>4, <3>1, <3>2 DEF ExchangeType
    <3>4. exchange[e].step = "serving"
      BY <2>1, Zenon DEF Answer
    <3> QED BY <3>3, <3>4
  <2> QED BY <2>1 DEF Arrive, Pass, Observe, Emit, EndStream
<1>6. Holding(exchange'[e]) <=> Holding(exchange[e])
  BY <1>1, <1>2, <1>4, <1>5, TurnHolds
<1> QED BY <1>2, <1>3, <1>6 DEF Wording

LEMMA TalkWords ==
    ASSUME IInv, SInv, NEW e \in Exchanges, Turned(e),
           \/ RecordRequest(e) \/ ReservePlace(e) \/ GivePlaceUp(e) \/ MoveRequest(e) \/ FillPlace(e)
           \/ RecordAnswer(e) \/ RecordFrame(e)
    PROVE  Wording(e)
<1>1. PICK x \in ExchangeType : exchange' = [exchange EXCEPT ![e] = x] /\ Turn(exchange[e], x)
  BY DEF Turned
<1>2. exchange'[e] = x /\ \A d \in Exchanges \ {e} : exchange'[d] = exchange[d]
  BY <1>1 DEF IInv, TypeOK
<1>3. UNCHANGED <<releases, writer>>
  BY DEF RecordRequest, ReservePlace, GivePlaceUp, MoveRequest, FillPlace, RecordAnswer, RecordFrame, Sends
<1>4. exchange[e] \in ExchangeType /\ Shaped(exchange[e])
  BY Kept DEF SInv, Shapes
<1>5. /\ exchange[e].file \in Files /\ RequestLines(e) \in Seq(Records) /\ AnswerLines(e) \in Seq(Records)
      /\ FrameLines(e) \in Seq(Records) /\ <<>> \in Seq(Records)
  BY <1>4, LineTypes DEF ExchangeType, IInv
<1>6. /\ \A lines \in Seq(Records) :
            /\ Write(exchange[e].file, lines) \in Commands /\ Write(exchange[e].file, lines).kind = "write"
            /\ Fill(e, lines) \in Commands /\ Fill(e, lines).kind = "fill" /\ Fill(e, lines).place = {e}
      /\ Reserve(e) \in Commands /\ Reserve(e).kind = "reserve" /\ Reserve(e).place = {e} /\ Reserve(e).lines = <<>>
  BY <1>5, CommandTypes DEF Reserve
<1>7. CASE RecordRequest(e) \/ MoveRequest(e) \/ RecordAnswer(e) \/ RecordFrame(e)
  <2>1. exchange[e].step \in {"recording", "moving", "answered", "framing"}
    BY <1>7 DEF RecordRequest, MoveRequest, RecordAnswer, RecordFrame, Sends
  <2>2. \E lines \in Seq(Records) : channel' = Append(channel, Write(exchange[e].file, lines))
    BY <1>5, <1>7 DEF RecordRequest, MoveRequest, RecordAnswer, RecordFrame, Sends
  <2>3. Holding(exchange'[e]) <=> Holding(exchange[e])
    BY <1>1, <1>2, <1>4, <2>1, TurnHolds
  <2>4. \E c \in Commands : c.kind = "write" /\ channel' = Append(channel, c)
    BY <1>6, <2>2
  <2> QED BY <1>2, <1>3, <2>3, <2>4 DEF Wording
<1>8. CASE ReservePlace(e)
  <2>1. Early(exchange[e]) /\ channel' = Append(channel, Reserve(e))
    BY <1>8 DEF ReservePlace, Sends, Early
  <2>2. \E c \in Commands : c.kind = "reserve" /\ c.place = {e} /\ c.lines = <<>> /\ channel' = Append(channel, c)
    BY <1>6, <2>1
  <2> QED BY <1>2, <1>3, <2>1, <2>2 DEF Wording
<1>9. CASE GivePlaceUp(e) \/ FillPlace(e)
  <2>1. exchange[e].step \in {"giving", "settling"} /\ exchange'[e].step \in {"moving", "answered"}
    <3>1. CASE GivePlaceUp(e)
      BY <3>1 DEF GivePlaceUp, Sends, IInv, TypeOK
    <3>2. CASE FillPlace(e)
      BY <3>2 DEF FillPlace, Sends, Step, IInv, TypeOK
    <3> QED BY <1>9, <3>1, <3>2
  <2>2. \E lines \in Seq(Records) : channel' = Append(channel, Fill(e, lines))
    BY <1>5, <1>9 DEF GivePlaceUp, FillPlace, Sends
  <2>3. Holding(exchange[e]) /\ ~Holding(exchange'[e])
    BY <1>1, <1>2, <1>4, <2>1, TurnHolds
  <2>4. \E c \in Commands : c.kind = "fill" /\ c.place = {e} /\ channel' = Append(channel, c)
    BY <1>6, <2>2
  <2> QED BY <1>2, <1>3, <2>3, <2>4 DEF Wording
<1> QED BY <1>7, <1>8, <1>9

LEMMA StepWords ==
    ASSUME IInv, SInv, NEW e \in Exchanges,
           \/ Arrive(e) \/ Pass(e) \/ Observe(e) \/ RecordRequest(e) \/ ReservePlace(e)
           \/ Answer(e) \/ GivePlaceUp(e) \/ MoveRequest(e) \/ FillPlace(e) \/ RecordAnswer(e)
           \/ Emit(e) \/ RecordFrame(e) \/ EndStream(e) \/ Abandon(e) \/ Release(e)
    PROVE  Wording(e)
<1>1. Turned(e)
  BY Turns
<1>2. Fill(e, <<>>) \in Commands /\ Fill(e, <<>>).kind = "fill" /\ Fill(e, <<>>).place = {e}
  <2>1. Stateless \in Files /\ <<>> \in Seq(Records)
    BY DEF Files
  <2> QED BY <2>1, CommandTypes
<1>3. CASE Abandon(e)
  <2>1. /\ exchange' = [exchange EXCEPT ![e].step = "gone"] /\ UNCHANGED writer
        /\ ~Holding(exchange[e]) => channel' = channel /\ releases' = releases
        /\ Holding(exchange[e]) => \/ channel' = Append(channel, Fill(e, <<>>)) /\ releases' = releases
                                   \/ releases' = releases \union {e} /\ channel' = channel
    BY <1>3 DEF Abandon, Step
  <2>2. exchange'[e].step = "gone" /\ \A d \in Exchanges \ {e} : exchange'[d] = exchange[d]
    BY <2>1 DEF IInv, TypeOK
  <2>3. ~Holding(exchange'[e])
    BY <2>2 DEF Holding
  <2>4. CASE ~Holding(exchange[e])
    BY <2>1, <2>2, <2>3, <2>4 DEF Wording
  <2>5. CASE Holding(exchange[e]) /\ channel' = channel
    BY <1>2, <2>1, <2>2, <2>3, <2>5 DEF Wording
  <2>6. CASE Holding(exchange[e]) /\ channel' = Append(channel, Fill(e, <<>>)) /\ releases' = releases
    BY <1>2, <2>1, <2>2, <2>3, <2>6 DEF Wording
  <2> QED BY <2>1, <2>4, <2>5, <2>6
<1>4. CASE Release(e)
  <2>1. /\ e \in releases /\ releases' = releases \ {e} /\ exchange' = exchange /\ writer' = writer
        /\ channel' = Append(channel, Fill(e, <<>>))
    BY <1>4 DEF Release
  <2> QED BY <1>2, <2>1 DEF Wording
<1> QED BY <1>1, <1>3, <1>4, QuietWords, TalkWords

-----------------------------------------------------------------------------
(* What has been recorded, as exchanges go on. *)

\* What a turn records: the request, the answer or a frame, in one place each.
LEMMA TurnRecords ==
    ASSUME NEW y \in ExchangeType, NEW x \in ExchangeType, Turn(y, x), Shaped(y), ~Late(y) => y.frames = 0,
           NEW p \in Nat, Recorded(x, p)
    PROVE  /\ Recorded(y, p) \/ Same(y, x)
           /\ Recorded(y, p) => x.file = y.file
           /\ \/ Recorded(y, p)
              \/ p = 0 /\ y.step = "recording" /\ x.step = "serving"
              \/ p = 0 /\ y.step \in {"moving", "settling"} /\ x.step = "answered"
              \/ p = 1 /\ y.step = "answered" /\ x.step \in {"streaming", "done"}
              \/ p > 1 /\ p = y.frames + 1 /\ y.step = "framing" /\ x.step = "streaming"
<1>1. y.frames \in Nat /\ x.frames \in Nat /\ y.step \in Steps
  BY TapAssumption DEF ExchangeType
<1>2. Recorded(y, p) => x.file = y.file
  BY DEF Turn, Same, Recorded
<1>3. CASE p = 0
  BY <1>2, <1>3 DEF Turn, Same, Recorded, Shaped
<1>4. CASE p = 1
  BY <1>1, <1>2, <1>4 DEF Turn, Same, Recorded, Shaped
<1>5. CASE p > 1
  <2>1. y.step \in {"answered", "streaming", "framing", "done"} \/ x = y
    BY <1>5 DEF Turn, Same, Recorded, Shaped
  <2>2. CASE y.step = "answered" /\ x # y
    BY <1>1, <1>5, <2>2 DEF Turn, Same, Recorded, Late
  <2>3. CASE y.step = "streaming" /\ x # y
    BY <1>1, <1>2, <1>5, <2>3 DEF Turn, Same, Recorded
  <2>4. CASE y.step = "framing" /\ x # y
    BY <1>1, <1>2, <1>5, <2>4 DEF Turn, Same, Recorded
  <2>5. CASE y.step = "done" /\ x # y
    BY <1>1, <1>2, <1>5, <2>5 DEF Turn, Same, Recorded
  <2> QED BY <1>2, <2>1, <2>2, <2>3, <2>4, <2>5
<1> QED BY <1>3, <1>4, <1>5

\* The p-th record of exchange e goes to its file when it is recorded.
Records1(e, p) ==
    \E i \in 1 .. Len(channel') : channel'[i].file = exchange[e].file /\ channel'[i].lines = RecordOf(<<e, p>>)

LEMMA StepRecords ==
    ASSUME IInv, SInv, NoFrameYet, NEW e \in Exchanges,
           \/ Arrive(e) \/ Pass(e) \/ Observe(e) \/ RecordRequest(e) \/ ReservePlace(e)
           \/ Answer(e) \/ GivePlaceUp(e) \/ MoveRequest(e) \/ FillPlace(e) \/ RecordAnswer(e)
           \/ Emit(e) \/ RecordFrame(e) \/ EndStream(e) \/ Abandon(e) \/ Release(e),
           NEW p \in Nat, Recorded(exchange'[e], p), ~Recorded(exchange[e], p)
    PROVE  Records1(e, p)
<1>1. PICK x \in ExchangeType : exchange' = [exchange EXCEPT ![e] = x] /\ Turn(exchange[e], x)
  BY Turns DEF Turned
<1>2. exchange'[e] = x
  BY <1>1 DEF IInv, TypeOK
<1>3. /\ exchange[e] \in ExchangeType /\ Shaped(exchange[e]) /\ (~Late(exchange[e]) => exchange[e].frames = 0)
      /\ exchange[e].frames \in Nat
  BY Kept, TapAssumption DEF SInv, Shapes, NoFrameYet, ExchangeType
<1>4. \/ p = 0 /\ exchange[e].step = "recording" /\ x.step = "serving"
      \/ p = 0 /\ exchange[e].step \in {"moving", "settling"} /\ x.step = "answered"
      \/ p = 1 /\ exchange[e].step = "answered" /\ x.step \in {"streaming", "done"}
      \/ p > 1 /\ p = exchange[e].frames + 1 /\ exchange[e].step = "framing" /\ x.step = "streaming"
  BY <1>1, <1>2, <1>3, TurnRecords
<1>5. ~Abandon(e) /\ ~Release(e)
  <2>1. Abandon(e) => x.step = "gone"
    BY <1>2 DEF Abandon, Step, IInv, TypeOK
  <2>2. Release(e) => x = exchange[e]
    BY <1>2 DEF Release
  <2> QED BY <1>2, <1>4, <2>1, <2>2
<1>6. ~(Arrive(e) \/ Pass(e) \/ Observe(e) \/ Answer(e) \/ Emit(e) \/ EndStream(e) \/ ReservePlace(e) \/ GivePlaceUp(e))
  BY <1>4 DEF Arrive, Pass, Observe, Answer, Emit, EndStream, ReservePlace, GivePlaceUp, Sends
<1>7. /\ exchange[e].file \in Files /\ RequestLines(e) \in Seq(Records) /\ AnswerLines(e) \in Seq(Records)
      /\ FrameLines(e) \in Seq(Records)
  BY <1>3, LineTypes DEF ExchangeType, IInv
<1>8. ASSUME NEW c \in Commands, channel' = Append(channel, c), c.file = exchange[e].file, c.lines = RecordOf(<<e, p>>)
      PROVE  Records1(e, p)
  <2>1. Len(channel) \in Nat /\ Len(channel') = Len(channel) + 1 /\ channel'[Len(channel) + 1] = c
    BY <1>8, ChannelGrows
  <2>2. Len(channel) + 1 \in 1 .. Len(channel')
    BY <2>1
  <2> QED BY <1>8, <2>1, <2>2 DEF Records1
<1>9. \A lines \in Seq(Records) : /\ Write(exchange[e].file, lines) \in Commands /\ Fill(e, lines) \in Commands
                                  /\ Write(exchange[e].file, lines).file = exchange[e].file
                                  /\ Write(exchange[e].file, lines).lines = lines
                                  /\ Fill(e, lines).file = Stateless /\ Fill(e, lines).lines = lines
  BY <1>7, CommandTypes DEF Write, Fill
<1>10. CASE RecordRequest(e) \/ MoveRequest(e)
  <2>1. /\ channel' = Append(channel, Write(exchange[e].file, RequestLines(e)))
        /\ exchange[e].step \in {"recording", "moving"}
    BY <1>10 DEF RecordRequest, MoveRequest, Sends
  <2>2. RequestLines(e) = RecordOf(<<e, p>>)
    BY <1>4, <2>1 DEF RecordOf
  <2> QED BY <1>7, <1>8, <1>9, <2>1, <2>2
<1>11. CASE FillPlace(e)
  <2>1. channel' = Append(channel, Fill(e, RequestLines(e))) /\ exchange[e].step = "settling"
    BY <1>11 DEF FillPlace, Sends
  <2>2. RequestLines(e) = RecordOf(<<e, p>>)
    BY <1>4, <2>1 DEF RecordOf
  <2>3. exchange[e].file = Stateless
    BY <1>3, <2>1 DEF Shaped
  <2> QED BY <1>7, <1>8, <1>9, <2>1, <2>2, <2>3
<1>12. CASE RecordAnswer(e)
  <2>1. channel' = Append(channel, Write(exchange[e].file, AnswerLines(e))) /\ exchange[e].step = "answered"
    BY <1>12 DEF RecordAnswer, Sends
  <2>2. AnswerLines(e) = RecordOf(<<e, p>>)
    BY <1>4, <2>1 DEF RecordOf
  <2> QED BY <1>7, <1>8, <1>9, <2>1, <2>2
<1>13. CASE RecordFrame(e)
  <2>1. channel' = Append(channel, Write(exchange[e].file, FrameLines(e))) /\ exchange[e].step = "framing"
    BY <1>13 DEF RecordFrame, Sends
  <2>2. p > 1 /\ p = exchange[e].frames + 1
    BY <1>4, <2>1
  <2>3. FrameLines(e) = RecordOf(<<e, p>>)
    BY <2>2 DEF RecordOf, FrameLines
  <2> QED BY <1>7, <1>8, <1>9, <2>1, <2>3
<1> QED BY <1>5, <1>6, <1>10, <1>11, <1>12, <1>13

LEMMA NoFrameKeeps ==
    ASSUME IInv, SInv, NoFrameYet, NEW e \in Exchanges, Turned(e)
    PROVE  NoFrameYet'
<1> SUFFICES ASSUME NEW d \in Exchanges, ~Late(exchange'[d]) PROVE exchange'[d].frames = 0
  BY DEF NoFrameYet, Late
<1>1. PICK x \in ExchangeType : exchange' = [exchange EXCEPT ![e] = x] /\ Turn(exchange[e], x)
  BY DEF Turned
<1>2. exchange'[d] = IF d = e THEN x ELSE exchange[d]
  BY <1>1 DEF IInv, TypeOK
<1>3. ~Late(exchange[d])
  BY ExchangesKeep DEF SInv
<1>4. exchange[d].frames = 0
  BY <1>3 DEF NoFrameYet
<1> QED BY <1>1, <1>2, <1>3, <1>4 DEF Turn, Same, Late

\* A step of an exchange leaves what has been recorded where it is.
LEMMA AllRecordedKeeps ==
    ASSUME IInv, SInv, RInv, NEW e \in Exchanges,
           \/ Arrive(e) \/ Pass(e) \/ Observe(e) \/ RecordRequest(e) \/ ReservePlace(e)
           \/ Answer(e) \/ GivePlaceUp(e) \/ MoveRequest(e) \/ FillPlace(e) \/ RecordAnswer(e)
           \/ Emit(e) \/ RecordFrame(e) \/ EndStream(e) \/ Abandon(e) \/ Release(e)
    PROVE  AllRecorded'
<1>1. Goes(e) /\ Turned(e) /\ setting' = setting /\ NoFrameYet
  BY StepsGo DEF Goes, RInv
<1> SUFFICES ASSUME ~setting.failures, NEW u \in Events, Recorded(exchange[u[1]], u[2])'
             PROVE  Holds(exchange[u[1]].file, RecordOf(u))'
  BY <1>1 DEF AllRecorded
<1>0. Recorded(exchange'[u[1]], u[2])
  BY DEF Recorded
<1>01. ASSUME NEW f, NEW r, exchange'[u[1]].file = f, RecordOf(u)' = r, Holds(f, r)'
       PROVE  Holds(exchange[u[1]].file, RecordOf(u))'
  BY <1>01 DEF Holds
<1>2. PICK x \in ExchangeType : exchange' = [exchange EXCEPT ![e] = x] /\ Turn(exchange[e], x)
  BY <1>1 DEF Turned
<1>3. \A d \in Exchanges : exchange'[d] = IF d = e THEN x ELSE exchange[d]
  BY <1>2 DEF IInv, TypeOK
<1>4. u[1] \in Exchanges /\ u[2] \in Nat /\ u = <<u[1], u[2]>>
  BY EventParts
<1>5. \A f, r : Holds(f, r) => Holds(f, r)'
  BY <1>1, SpeechShape DEF Holds, Goes
<1>6. CASE Recorded(exchange[u[1]], u[2])
  <2>1. Settled(exchange[u[1]]) /\ Sent(u)
    BY <1>4, <1>6 DEF Recorded, Settled, Sent, SentOf, Late, Early
  <2>2. RecordOf(u)' = RecordOf(u)
    BY <1>1, <2>1, RecordKeeps DEF SInv
  <2>3. exchange'[u[1]].file = exchange[u[1]].file
    <3>1. exchange[e] \in ExchangeType /\ Shaped(exchange[e]) /\ (~Late(exchange[e]) => exchange[e].frames = 0)
      BY <1>1, Kept DEF SInv, Shapes, NoFrameYet
    <3>2. u[1] = e => x.file = exchange[e].file
      BY <1>0, <1>2, <1>3, <1>4, <1>6, <3>1, TurnRecords
    <3> QED BY <1>3, <1>4, <3>2
  <2>4. Holds(exchange[u[1]].file, RecordOf(u))
    BY <1>6 DEF RInv, AllRecorded
  <2>5. PICK f, r : f = exchange[u[1]].file /\ r = RecordOf(u)
    OBVIOUS
  <2> QED BY <1>01, <1>5, <2>2, <2>3, <2>4, <2>5
<1>7. CASE ~Recorded(exchange[u[1]], u[2])
  <2>1. u[1] = e
    BY <1>0, <1>3, <1>4, <1>7
  <2>2. Records1(e, u[2])
    BY <1>0, <1>4, <1>1, <1>7, <2>1, StepRecords
  <2>3. exchange[e] \in ExchangeType /\ Shaped(exchange[e]) /\ (~Late(exchange[e]) => exchange[e].frames = 0)
    BY <1>1, Kept DEF SInv, Shapes, NoFrameYet
  <2>4. Same(exchange[e], exchange'[e])
    BY <1>0, <1>2, <1>3, <1>4, <1>7, <2>1, <2>3, TurnRecords
  <2>5. RecordOf(u)' = RecordOf(<<e, u[2]>>) /\ exchange'[e].file = exchange[e].file
    BY <1>4, <2>1, <2>4 DEF Same, RecordOf, RequestLines, AnswerLines
  <2>6. PICK f, r : f = exchange[e].file /\ r = RecordOf(<<e, u[2]>>)
    OBVIOUS
  <2>7. Holds(f, r)'
    BY <2>2, <2>6 DEF Records1, Holds
  <2> QED BY <1>01, <2>1, <2>5, <2>6, <2>7
<1> QED BY <1>6, <1>7

LEMMA StepsKeepRecords ==
    ASSUME IInv, SInv, RInv, NEW e \in Exchanges,
           \/ Arrive(e) \/ Pass(e) \/ Observe(e) \/ RecordRequest(e) \/ ReservePlace(e)
           \/ Answer(e) \/ GivePlaceUp(e) \/ MoveRequest(e) \/ FillPlace(e) \/ RecordAnswer(e)
           \/ Emit(e) \/ RecordFrame(e) \/ EndStream(e) \/ Abandon(e) \/ Release(e)
    PROVE  RInv'
<1>1. Wording(e) /\ Turned(e)
  BY StepWords, Turns
<1>2. PlacesWait' /\ OpenEmpty'
  BY <1>1 DEF Wording, RInv, PlacesWait, OpenEmpty
<1>3. NoFrameYet'
  BY <1>1, NoFrameKeeps DEF RInv
<1> QED BY <1>1, <1>2, <1>3, OneWordKeeps, PlacedKeeps, BlankKeeps, AllRecordedKeeps DEF RInv

-----------------------------------------------------------------------------
(* What has been recorded, as the writer goes on. *)

\* The queue of the command's file becomes `slots`, and is written as far as it
\* is free: no place but the filled one is lost, nor what was to be written.
Takes(f, slots, places) ==
    /\ Advance(f, slots, places)
    /\ \A i \in 1 .. Len(slots) : IsOpen(slots[i]) => slots[i].lines = <<>>
    /\ \A e \in places :
          IF f = Stateless THEN \E i \in 1 .. Len(slots) : slots[i].open = {e} ELSE e \in writer.places
    /\ \A e \in Exchanges : (e \in writer.places /\ ~Fills(e, 1)) \/ Reserves(e, 1) => e \in places
    /\ \A r : r # <<>> /\ (HasRecord(disk[f], writer.waiting[f], r) \/ channel[1].lines = r) =>
                 HasRecord(disk[f], slots, r)

\* The slots that wait, for the lemmas below.
LEMMA WaitShape ==
    ASSUME IInv, NEW f \in Files
    PROVE  /\ writer.waiting[f] \in Seq(Slots) /\ Len(writer.waiting[f]) \in Nat
           /\ writer.places \in SUBSET Exchanges
<1>1. writer.waiting \in [Files -> Seq(Slots)] /\ writer.places \in SUBSET Exchanges
  BY DEF IInv, TypeOK, Slots
<1> QED BY <1>1

LEMMA QueuedTakes ==
    ASSUME IInv, RInv, NEW f \in Files, NEW slot \in Slots, NEW places \in SUBSET Exchanges,
           Advance(f, Append(writer.waiting[f], slot), places),
           IsOpen(slot) => slot.lines = <<>>,
           channel[1].lines = <<>> \/ channel[1].lines = slot.lines,
           \A e \in places : e \in writer.places \/ (f = Stateless /\ slot.open = {e}),
           \A e \in Exchanges : e \in writer.places \/ Reserves(e, 1) => e \in places
    PROVE  \E slots \in Seq(Slots) : Takes(f, slots, places)
<1> DEFINE w == writer.waiting[f]
           slots == Append(w, slot)
<1>1. w \in Seq(Slots) /\ Len(w) \in Nat
  BY WaitShape
<1>2. /\ slots \in Seq(Slots) /\ Len(slots) = Len(w) + 1 /\ slots[Len(w) + 1] = slot
      /\ \A i \in 1 .. Len(w) : slots[i] = w[i]
  BY <1>1, AppendProperties
<1>3. Advance(f, slots, places)
  OBVIOUS
<1>4. f = Stateless => \A e \in writer.places : \E k \in 1 .. Len(w) : w[k].open = {e}
  BY DEF RInv, PlacesWait
<1>5. \A k \in 1 .. Len(w) : IsOpen(w[k]) => w[k].lines = <<>>
  BY DEF RInv, OpenEmpty
<1>6. \A r : HasRecord(disk[f], writer.waiting[f], r) =>
               (\E i \in 1 .. Len(disk[f]) : disk[f][i] = r) \/ \E i \in 1 .. Len(w) : w[i].lines = r
  BY DEF HasRecord
<1> HIDE DEF slots, w
<1>7. /\ \A i \in 1 .. Len(slots) : slots[i] = slot \/ (i \in 1 .. Len(w) /\ slots[i] = w[i])
      /\ \A k \in 1 .. Len(w) : k \in 1 .. Len(slots)
      /\ Len(w) + 1 \in 1 .. Len(slots)
  BY <1>1, <1>2
<1>8. \A i \in 1 .. Len(slots) : IsOpen(slots[i]) => slots[i].lines = <<>>
  BY <1>5, <1>7
<1>9. \A e \in places :
          IF f = Stateless THEN \E i \in 1 .. Len(slots) : slots[i].open = {e} ELSE e \in writer.places
  BY <1>2, <1>4, <1>7
<1>10. \A r : r # <<>> /\ (HasRecord(disk[f], writer.waiting[f], r) \/ channel[1].lines = r) =>
                 HasRecord(disk[f], slots, r)
  BY <1>2, <1>6, <1>7 DEF HasRecord
<1> QED BY <1>2, <1>3, <1>8, <1>9, <1>10 DEF Takes

\* A fill finds its place.
LEMMA FillTakes ==
    ASSUME IInv, RInv, Handle, HandleFill(Head(channel))
    PROVE  \E slots \in Seq(Slots), places \in SUBSET Exchanges : Takes(channel[1].file, slots, places)
<1> DEFINE c == channel[1]
<1>1. c \in Commands /\ Head(channel) = c /\ 1 \in 1 .. Len(channel) /\ c.kind = "fill"
  BY Taken DEF HandleFill
<1>2. PICK e \in Exchanges : c.place = {e}
  BY <1>1 DEF IInv, Commanded
<1>3. c.file = Stateless /\ c.file \in Files
  BY <1>1 DEF IInv, Commanded, Files
<1>4. Fills(e, 1) /\ \A d \in Exchanges : (Fills(d, 1) <=> d = e) /\ ~Reserves(d, 1)
  BY <1>1, <1>2 DEF Fills, Reserves
<1>5. e \in writer.places
  <2>1. Spoken(e)
    BY <1>1, <1>4 DEF Spoken
  <2>2. \A i \in 1 .. Len(channel) : Reserves(e, i) => i <= 1
    BY <1>1, <1>2 DEF IInv, ReserveFirst
  <2>3. \A i \in 1 .. Len(channel) : ~Reserves(e, i)
    BY <1>4, <2>2
  <2> QED BY <2>1, <2>3 DEF RInv, Placed
<1> DEFINE old == writer.waiting[c.file]
           slots == [i \in DOMAIN old |-> IF old[i].open = c.place THEN Ready(c.lines) ELSE old[i]]
           places == writer.places \ c.place
<1>6. Advance(c.file, slots, places)
  <2>1. c.place \subseteq writer.places
    BY <1>2, <1>5
  <2> QED BY <1>1, <2>1, Zenon DEF HandleFill
<1>7. old \in Seq(Slots) /\ Len(old) \in Nat
  BY <1>3, WaitShape
<1>8. Ready(c.lines) \in Slots /\ Ready(c.lines).open = {} /\ Ready(c.lines).lines = c.lines
  BY <1>1 DEF Ready, Slots, Holders, Commands
<1>9. /\ slots \in Seq(Slots) /\ Len(slots) = Len(old)
      /\ \A i \in 1 .. Len(slots) : slots[i] = IF old[i].open = c.place THEN Ready(c.lines) ELSE old[i]
  <2> HIDE DEF old, c
  <2> QED BY <1>7, <1>8
<1>10. \A k \in 1 .. Len(old) : IsOpen(old[k]) => old[k].lines = <<>>
  BY <1>3 DEF RInv, OpenEmpty
<1>11. \A d \in writer.places : \E k \in 1 .. Len(old) : old[k].open = {d}
  BY <1>3 DEF RInv, PlacesWait
<1>12. \A r : HasRecord(disk[c.file], writer.waiting[c.file], r) =>
                (\E i \in 1 .. Len(disk[c.file]) : disk[c.file][i] = r) \/ \E i \in 1 .. Len(old) : old[i].lines = r
  BY DEF HasRecord
<1>13. places \in SUBSET Exchanges /\ \A d \in places : d \in writer.places /\ d # e
  BY <1>2, <1>3, WaitShape
<1>14. \A d \in Exchanges : d \in writer.places /\ d # e => d \in places
  BY <1>2
<1> HIDE DEF slots, old, places, c
<1>15. \A i \in 1 .. Len(slots) : IsOpen(slots[i]) => slots[i].lines = <<>>
  BY <1>8, <1>9, <1>10 DEF IsOpen
<1>16. \A d \in places : \E i \in 1 .. Len(slots) : slots[i].open = {d}
  <2> SUFFICES ASSUME NEW d \in places PROVE \E i \in 1 .. Len(slots) : slots[i].open = {d}
    OBVIOUS
  <2>1. PICK k \in 1 .. Len(old) : old[k].open = {d}
    BY <1>11, <1>13
  <2>2. k \in 1 .. Len(slots) /\ slots[k] = old[k]
    BY <1>2, <1>9, <1>13, <2>1
  <2> QED BY <2>1, <2>2
<1>17. ASSUME NEW r, r # <<>>, HasRecord(disk[c.file], writer.waiting[c.file], r) \/ c.lines = r
       PROVE  HasRecord(disk[c.file], slots, r)
  <2>1. CASE c.lines = r
    <3>1. PICK k \in 1 .. Len(old) : old[k].open = {e}
      BY <1>5, <1>11
    <3>2. k \in 1 .. Len(slots) /\ slots[k].lines = r
      BY <1>2, <1>8, <1>9, <2>1, <3>1
    <3> QED BY <3>2 DEF HasRecord
  <2>2. ASSUME NEW k \in 1 .. Len(old), old[k].lines = r PROVE HasRecord(disk[c.file], slots, r)
    <3>1. old[k].open = {}
      BY <1>10, <1>17, <2>2 DEF IsOpen
    <3>2. k \in 1 .. Len(slots) /\ slots[k] = old[k]
      BY <1>2, <1>9, <3>1
    <3> QED BY <2>2, <3>2 DEF HasRecord
  <2>3. CASE \E i \in 1 .. Len(disk[c.file]) : disk[c.file][i] = r
    BY <2>3 DEF HasRecord
  <2> QED BY <1>12, <1>17, <2>1, <2>2, <2>3
<1>18. Takes(c.file, slots, places)
  BY <1>3, <1>4, <1>6, <1>14, <1>15, <1>16, <1>17 DEF Takes, c
<1> QED BY <1>9, <1>13, <1>18 DEF c

LEMMA HandleTakes ==
    ASSUME IInv, RInv, Handle
    PROVE  \E slots \in Seq(Slots), places \in SUBSET Exchanges : Takes(channel[1].file, slots, places)
<1>1. PICK c \in Commands : c = channel[1] /\ Head(channel) = c /\ 1 \in 1 .. Len(channel)
  BY Taken
<1>2. c.file \in Files /\ c.lines \in Seq(Records) /\ writer.places \in SUBSET Exchanges
  BY <1>1 DEF Commands, IInv, TypeOK
<1>3. CASE HandleWrite(c)
  <2>1. Ready(c.lines) \in Slots /\ Ready(c.lines).lines = c.lines /\ ~IsOpen(Ready(c.lines))
    BY <1>2 DEF Ready, Slots, Holders, IsOpen
  <2>2. c.kind = "write" /\ Advance(c.file, Append(writer.waiting[c.file], Ready(c.lines)), writer.places)
    BY <1>3 DEF HandleWrite
  <2>3. \A e \in Exchanges : ~Reserves(e, 1)
    BY <1>1, <2>2 DEF Reserves
  <2>4. \E slots \in Seq(Slots) : Takes(c.file, slots, writer.places)
    BY <1>1, <1>2, <2>1, <2>2, <2>3, QueuedTakes
  <2> QED BY <1>1, <1>2, <2>4
<1>4. CASE HandleReserve(c)
  <2>1. PICK e \in c.place : /\ c.kind = "reserve"
                             /\ Advance(c.file, Append(writer.waiting[c.file], Place(e)), writer.places \union {e})
    BY <1>4 DEF HandleReserve
  <2>2. e \in Exchanges /\ c.place = {e} /\ c.file = Stateless
    BY <1>1, <2>1 DEF IInv, Commanded
  <2>3. Place(e) \in Slots /\ Place(e).lines = <<>> /\ Place(e).open = {e}
    BY <2>2 DEF Place, Slots, Holders
  <2>4. c.lines = <<>>
    BY <1>1, <2>1 DEF RInv, ReservesBlank
  <2>5. \A d \in Exchanges : Reserves(d, 1) => d = e
    BY <1>1, <2>2 DEF Reserves
  <2> DEFINE places == writer.places \union {e}
  <2>6. /\ places \in SUBSET Exchanges /\ Advance(c.file, Append(writer.waiting[c.file], Place(e)), places)
        /\ \A d \in places : d \in writer.places \/ (c.file = Stateless /\ Place(e).open = {d})
        /\ \A d \in Exchanges : d \in writer.places \/ Reserves(d, 1) => d \in places
    BY <1>2, <2>1, <2>2, <2>3, <2>5
  <2> HIDE DEF places
  <2>7. \E slots \in Seq(Slots) : Takes(c.file, slots, places)
    BY <1>1, <1>2, <2>3, <2>4, <2>6, QueuedTakes
  <2> QED BY <1>1, <2>6, <2>7
<1> QED BY <1>1, <1>3, <1>4, FillTakes DEF Handle

\* What the writer leaves of a queue is what the queue was, as far as it is open.
LEMMA OpenStays ==
    ASSUME IInv, NEW f \in Files, NEW slots \in Seq(Slots), NEW places \in SUBSET Exchanges, Advance(f, slots, places)
    PROVE  /\ \A i \in 1 .. Len(slots) : IsOpen(slots[i]) =>
                 \E k \in 1 .. Len(writer'.waiting[f]) : writer'.waiting[f][k] = slots[i]
           /\ \A k \in 1 .. Len(writer'.waiting[f]) : \E i \in 1 .. Len(slots) : writer'.waiting[f][k] = slots[i]
           /\ writer'.places = places
           /\ \A g \in Files \ {f} : disk'[g] = disk[g] /\ writer'.waiting[g] = writer.waiting[g]
<1>1. PICK n : Moved(disk[f], slots, disk'[f], writer'.waiting[f], n)
  BY Advances
<1>2. writer.waiting \in [Files -> Seq(Slots)]
  BY DEF IInv, TypeOK, Slots
<1>3. /\ \A k \in 1 .. Len(writer'.waiting[f]) : \E i \in 1 .. Len(slots) : writer'.waiting[f][k] = slots[i]
      /\ writer'.places = places
  BY <1>2, AdvanceEffect
<1>4. \A g \in Files \ {f} : disk'[g] = disk[g] /\ writer'.waiting[g] = writer.waiting[g]
  BY Advances
<1> DEFINE w2 == writer'.waiting[f]
<1>5. /\ n \in 0 .. Len(slots) /\ Len(w2) = Len(slots) - n
      /\ \A k \in 1 .. n : slots[k].open = {}
      /\ \A k \in 1 .. Len(w2) : w2[k] = slots[k + n]
  BY <1>1 DEF Moved
<1> DEFINE b == Len(slots)
           b2 == Len(w2)
<1>6. b \in Nat
  BY LenProperties
<1> HIDE DEF w2, b, b2
<1>7. ASSUME NEW i \in 1 .. b, IsOpen(slots[i]) PROVE \E k \in 1 .. b2 : w2[k] = slots[i]
  <2>1. i \notin 1 .. n
    BY <1>5, <1>7 DEF IsOpen
  <2>2. i - n \in 1 .. b2 /\ (i - n) + n = i
    BY <1>5, <1>6, <2>1 DEF b, b2
  <2> QED BY <1>5, <2>2 DEF b2
<1> QED BY <1>3, <1>4, <1>7 DEF w2, b, b2

\* The channel as the writer takes from it.
LEMMA WordsTaken ==
    ASSUME IInv, Handle, NEW d \in Exchanges
    PROVE  /\ \A i \in 1 .. Len(channel') : i + 1 \in 1 .. Len(channel) /\ (Fills(d, i)' <=> Fills(d, i + 1))
           /\ \A i \in 1 .. Len(channel) : Reserves(d, i) =>
                 i = 1 \/ \E k \in 1 .. Len(channel') : Reserves(d, k)'
           /\ Spoken(d)' <=> \/ Holding(exchange[d]) \/ d \in releases
                             \/ \E i \in 1 .. Len(channel') : Fills(d, i + 1)
<1>1. UNCHANGED <<exchange, releases>>
  BY DEF Handle
<1>2. \A i \in 1 .. Len(channel') : i + 1 \in 1 .. Len(channel) /\ (Fills(d, i)' <=> Fills(d, i + 1))
  BY Taken DEF Fills
<1>3. \A i \in 1 .. Len(channel) : Reserves(d, i) => i = 1 \/ \E k \in 1 .. Len(channel') : Reserves(d, k)'
  BY Taken DEF Reserves
<1> QED BY <1>1, <1>2, <1>3 DEF Spoken, Holding

LEMMA HandleWords ==
    ASSUME IInv, RInv, Handle
    PROVE  OneWord' /\ Placed' /\ ReservesBlank' /\ NoFrameYet'
<1>1. UNCHANGED <<exchange, releases>>
  BY DEF Handle
<1>2. \A d \in Exchanges :
        /\ Holding(exchange[d]) => d \notin releases
        /\ \A i \in 1 .. Len(channel) : Fills(d, i) =>
              /\ ~Holding(exchange[d]) /\ d \notin releases
              /\ \A j \in 1 .. Len(channel) : Fills(d, j) => i = j
  BY DEF RInv, OneWord
<1>3. Len(channel') \in Nat /\ 1 \in 1 .. Len(channel)
  BY Taken
<1>4. ASSUME NEW d \in Exchanges
      PROVE  /\ Holding(exchange[d]) => d \notin releases
             /\ \A i \in 1 .. Len(channel') : Fills(d, i)' =>
                   /\ ~Holding(exchange[d]) /\ d \notin releases
                   /\ \A j \in 1 .. Len(channel') : Fills(d, j)' => i = j
  <2>1. \A i \in 1 .. Len(channel') : i + 1 \in 1 .. Len(channel) /\ (Fills(d, i)' <=> Fills(d, i + 1))
    BY WordsTaken
  <2>2. \A i, j \in 1 .. Len(channel') : i + 1 = j + 1 => i = j
    BY <1>3
  <2> QED BY <1>2, <2>1, <2>2
<1>5. OneWord'
  BY <1>1, <1>4 DEF OneWord, Holding
<1>6. PICK slots \in Seq(Slots), places \in SUBSET Exchanges : Takes(channel[1].file, slots, places)
  BY HandleTakes
<1>7. writer'.places = places
  <2>1. channel[1].file \in Files
    BY Taken DEF Commands
  <2> QED BY <1>6, <2>1, OpenStays DEF Takes
<1>8. Placed'
  <2> SUFFICES ASSUME NEW d \in Exchanges, Spoken(d)'
               PROVE  d \in writer'.places \/ \E i \in 1 .. Len(channel') : Reserves(d, i)'
    BY DEF Placed
  <2>1. /\ \A i \in 1 .. Len(channel) : Reserves(d, i) =>
              i = 1 \/ \E k \in 1 .. Len(channel') : Reserves(d, k)'
        /\ Holding(exchange[d]) \/ d \in releases \/ \E i \in 1 .. Len(channel') : Fills(d, i + 1)
        /\ \A i \in 1 .. Len(channel') : i + 1 \in 1 .. Len(channel)
    BY WordsTaken
  <2>2. Spoken(d)
    BY <2>1 DEF Spoken
  <2>3. ~Fills(d, 1)
    <3>1. \A i \in 1 .. Len(channel') : i + 1 # 1
      BY <1>3
    <3> QED BY <1>2, <1>3, <2>1, <3>1
  <2>4. d \in writer.places \/ \E i \in 1 .. Len(channel) : Reserves(d, i)
    BY <2>2 DEF RInv, Placed
  <2>5. (d \in writer.places /\ ~Fills(d, 1)) \/ Reserves(d, 1) => d \in places
    BY <1>6 DEF Takes
  <2> QED BY <1>7, <2>1, <2>3, <2>4, <2>5
<1>9. ReservesBlank'
  BY Taken DEF RInv, ReservesBlank
<1>10. NoFrameYet'
  BY <1>1 DEF RInv, NoFrameYet, Late
<1> QED BY <1>5, <1>8, <1>9, <1>10

LEMMA HandleWaits ==
    ASSUME IInv, RInv, Handle
    PROVE  PlacesWait' /\ OpenEmpty'
<1>1. PICK f \in Files : f = channel[1].file
  BY Taken DEF Commands
<1>2. PICK slots \in Seq(Slots), places \in SUBSET Exchanges : Takes(f, slots, places)
  BY <1>1, HandleTakes
<1>3. Advance(f, slots, places)
  BY <1>2 DEF Takes
<1>4. /\ \A i \in 1 .. Len(slots) : IsOpen(slots[i]) =>
            \E k \in 1 .. Len(writer'.waiting[f]) : writer'.waiting[f][k] = slots[i]
      /\ \A k \in 1 .. Len(writer'.waiting[f]) : \E i \in 1 .. Len(slots) : writer'.waiting[f][k] = slots[i]
      /\ writer'.places = places
      /\ \A g \in Files \ {f} : disk'[g] = disk[g] /\ writer'.waiting[g] = writer.waiting[g]
  BY <1>3, OpenStays
<1>5. OpenEmpty'
  <2> SUFFICES ASSUME NEW g \in Files, NEW k \in 1 .. Len(writer'.waiting[g]), IsOpen(writer'.waiting[g][k])
               PROVE  writer'.waiting[g][k].lines = <<>>
    BY DEF OpenEmpty, IsOpen
  <2>1. CASE g = f
    <3>1. PICK i \in 1 .. Len(slots) : writer'.waiting[f][k] = slots[i]
      BY <1>4, <2>1
    <3>2. IsOpen(slots[i])
      BY <2>1, <3>1
    <3>3. slots[i].lines = <<>>
      BY <1>2, <3>2 DEF Takes
    <3> QED BY <2>1, <3>1, <3>3
  <2>2. CASE g # f
    <3>1. writer'.waiting[g] = writer.waiting[g]
      BY <1>4, <2>2
    <3>2. k \in 1 .. Len(writer.waiting[g]) /\ IsOpen(writer.waiting[g][k])
      BY <3>1
    <3>3. writer.waiting[g][k].lines = <<>>
      BY <3>2 DEF RInv, OpenEmpty
    <3> QED BY <3>1, <3>3
  <2> QED BY <2>1, <2>2
<1>6. PlacesWait'
  <2> SUFFICES ASSUME NEW e \in places
               PROVE  \E k \in 1 .. Len(writer'.waiting[Stateless]) : writer'.waiting[Stateless][k].open = {e}
    BY <1>4 DEF PlacesWait
  <2>1. CASE f = Stateless
    <3>1. PICK i \in 1 .. Len(slots) : slots[i].open = {e}
      BY <1>2, <2>1 DEF Takes
    <3>2. IsOpen(slots[i])
      BY <3>1 DEF IsOpen
    <3>3. PICK k \in 1 .. Len(writer'.waiting[f]) : writer'.waiting[f][k] = slots[i]
      BY <1>4, <3>2
    <3> QED BY <2>1, <3>1, <3>3
  <2>2. CASE f # Stateless
    <3>1. e \in writer.places
      BY <1>2, <2>2 DEF Takes
    <3>2. writer'.waiting[Stateless] = writer.waiting[Stateless]
      BY <1>4, <2>2 DEF Files
    <3>3. \E k \in 1 .. Len(writer.waiting[Stateless]) : writer.waiting[Stateless][k].open = {e}
      BY <3>1 DEF RInv, PlacesWait
    <3> QED BY <3>2, <3>3
  <2> QED BY <2>1, <2>2
<1> QED BY <1>5, <1>6

LEMMA HandleRecorded ==
    ASSUME IInv, RInv, Handle
    PROVE  AllRecorded'
<1>1. UNCHANGED <<setting, exchange>>
  BY DEF Handle
<1>2. PICK f \in Files : f = channel[1].file
  BY Taken DEF Commands
<1>3. PICK slots \in Seq(Slots), places \in SUBSET Exchanges : Takes(f, slots, places)
  BY <1>2, HandleTakes
<1>4. Advance(f, slots, places)
  BY <1>3 DEF Takes
<1>5. ASSUME ~setting.failures, NEW g \in Files, NEW r, r # <<>>, Holds(g, r) PROVE Holds(g, r)'
  <2>1. /\ \A q : HasRecord(disk[f], slots, q) => HasRecord(disk'[f], writer'.waiting[f], q)
        /\ \A h \in Files \ {f} : disk'[h] = disk[h] /\ writer'.waiting[h] = writer.waiting[h]
    BY <1>4, <1>5, RecordsAdvance
  <2>2. HasRecord(disk'[g], writer'.waiting[g], r) => Holds(g, r)'
    BY DEF HasRecord, Holds
  <2>3. CASE HasRecord(disk[g], writer.waiting[g], r)
    <3>1. CASE g = f
      <4>1. HasRecord(disk[f], slots, r)
        BY <1>3, <1>5, <2>3, <3>1 DEF Takes
      <4> QED BY <2>1, <2>2, <3>1, <4>1
    <3>2. CASE g # f
      <4>1. disk'[g] = disk[g] /\ writer'.waiting[g] = writer.waiting[g]
        BY <2>1, <3>2
      <4> QED BY <2>2, <2>3, <4>1
    <3> QED BY <3>1, <3>2
  <2>4. ASSUME NEW i \in 1 .. Len(channel), channel[i].file = g, channel[i].lines = r PROVE Holds(g, r)'
    <3>1. CASE i = 1
      <4>1. HasRecord(disk[f], slots, r)
        BY <1>3, <1>5, <2>4, <3>1 DEF Takes
      <4> QED BY <1>2, <2>1, <2>2, <2>4, <3>1, <4>1
    <3>2. CASE i # 1
      <4>1. i - 1 \in 1 .. Len(channel') /\ channel[i] = channel'[i - 1]
        BY <3>2, Taken
      <4> QED BY <2>4, <4>1 DEF Holds
    <3> QED BY <3>1, <3>2
  <2> QED BY <1>5, <2>3, <2>4 DEF Holds, HasRecord
<1> SUFFICES ASSUME ~setting.failures, NEW u \in Events, Recorded(exchange[u[1]], u[2])
             PROVE  Holds(exchange[u[1]].file, RecordOf(u))'
  BY <1>1 DEF AllRecorded, Recorded
<1>6. PICK g \in Files : g = exchange[u[1]].file
  BY EventParts, Kept DEF ExchangeType
<1>7. PICK r : g = exchange[u[1]].file /\ r = RecordOf(u)
  BY <1>6
<1>8. r # <<>>
  <2>1. RequestLines(u[1]) # <<>> /\ AnswerLines(u[1]) # <<>> /\ <<Line(u[1], u[2], "message")>> # <<>>
    BY DEF RequestLines, AnswerLines
  <2> QED BY <1>7, <2>1 DEF RecordOf
<1>9. Holds(g, r)
  BY <1>7 DEF RInv, AllRecorded
<1>10. Holds(g, r)'
  BY <1>5, <1>8, <1>9
<1>11. exchange'[u[1]].file = g /\ RecordOf(u)' = r
  BY <1>1, <1>7 DEF RecordOf, RequestLines, AnswerLines
<1> QED BY <1>10, <1>11 DEF Holds

\* Every step of an exchange, a release or the writer keeps the records.
THEOREM NextRecords == IInv /\ SInv /\ RInv /\ [Next]_vars => RInv'
<1> SUFFICES ASSUME IInv, SInv, RInv, [Next]_vars PROVE RInv'
  OBVIOUS
<1>1. CASE Handle
  BY <1>1, HandleWords, HandleWaits, HandleRecorded DEF RInv
<1>2. ASSUME NEW e \in Exchanges,
             \/ Arrive(e) \/ Pass(e) \/ Observe(e) \/ RecordRequest(e) \/ ReservePlace(e)
             \/ Answer(e) \/ GivePlaceUp(e) \/ MoveRequest(e) \/ FillPlace(e) \/ RecordAnswer(e)
             \/ Emit(e) \/ RecordFrame(e) \/ EndStream(e) \/ Abandon(e) \/ Release(e)
      PROVE  RInv'
  BY <1>2, StepsKeepRecords
<1>3. CASE UNCHANGED vars
  <2>1. UNCHANGED <<setting, exchange, channel, releases, writer, disk>>
    BY <1>3 DEF vars
  <2>2. /\ \A d, i : (Fills(d, i)' <=> Fills(d, i)) /\ (Reserves(d, i)' <=> Reserves(d, i))
        /\ \A d : Spoken(d)' <=> Spoken(d)
        /\ \A f, r : Holds(f, r)' <=> Holds(f, r)
        /\ \A u : RecordOf(u)' = RecordOf(u)
    BY <2>1 DEF Fills, Reserves, Spoken, Holding, Holds, RecordOf, RequestLines, AnswerLines
  <2>3. OneWord' /\ Placed' /\ PlacesWait' /\ OpenEmpty' /\ ReservesBlank' /\ NoFrameYet'
    BY <2>1, <2>2 DEF RInv, OneWord, Placed, PlacesWait, OpenEmpty, IsOpen, ReservesBlank, NoFrameYet, Late, Holding
  <2>4. AllRecorded'
    BY <2>1, <2>2 DEF RInv, AllRecorded, Recorded
  <2> QED BY <2>3, <2>4 DEF RInv
<1> QED BY <1>1, <1>2, <1>3 DEF Next

THEOREM InitRecords == Init => RInv
<1> SUFFICES ASSUME Init PROVE RInv
  OBVIOUS
<1>1. /\ channel = <<>> /\ releases = {} /\ writer.places = {} /\ Len(channel) = 0
      /\ \A f \in Files : writer.waiting[f] = <<>>
      /\ \A e \in Exchanges : exchange[e] = Idle
  BY DEF Init
<1>2. \A e \in Exchanges : ~Holding(exchange[e]) /\ exchange[e].frames = 0
  BY <1>1 DEF Idle, Holding
<1>3. OneWord /\ Placed /\ PlacesWait /\ OpenEmpty /\ ReservesBlank /\ NoFrameYet
  BY <1>1, <1>2 DEF OneWord, Placed, Spoken, PlacesWait, OpenEmpty, ReservesBlank, NoFrameYet
<1>4. AllRecorded
  <2>1. \A u \in Events : ~Recorded(exchange[u[1]], u[2])
    <3> SUFFICES ASSUME NEW u \in Events PROVE ~Recorded(exchange[u[1]], u[2])
      OBVIOUS
    <3>1. u[2] \in Nat /\ exchange[u[1]] = Idle
      BY <1>1, EventParts
    <3> QED BY <3>1 DEF Recorded, Idle
  <2> QED BY <2>1 DEF AllRecorded
<1> QED BY <1>3, <1>4 DEF RInv

\* Nothing that was recorded is lost.
THEOREM RecordInvariance == Spec => [](IInv /\ OInv /\ SInv /\ RInv)
<1>1. Init => IInv /\ OInv /\ SInv /\ RInv
  BY InitInv, InitOrder, InitTraces, InitRecords
<1>2. IInv /\ OInv /\ SInv /\ RInv /\ [Next]_vars => (IInv /\ OInv /\ SInv /\ RInv)'
  BY NextInv, NextOrder, NextTraces, NextRecords
<1> QED BY <1>1, <1>2, PTL DEF Spec

-----------------------------------------------------------------------------
(* Once all is still. *)

LEMMA NothingWaits ==
    ASSUME IInv, Quiet
    PROVE  \A f \in Files : \A r : Holds(f, r) => \E i \in 1 .. Len(disk[f]) : disk[f][i] = r
<1>1. channel = <<>> /\ releases = {} /\ Len(channel) = 0
  BY DEF Quiet
<1>2. \A d \in Exchanges : ~Spoken(d)
  BY <1>1 DEF Quiet, Spoken, Holding
<1>3. \A d \in Exchanges : d \notin writer.places
  BY <1>2 DEF IInv, Promised
<1>4. ASSUME NEW f \in Files PROVE writer.waiting[f] = <<>>
  <2>1. writer.waiting[f] \in Seq(Slots) /\ writer.places \in SUBSET Exchanges
    BY WaitShape
  <2>2. writer.waiting[f] # <<>> => 1 \in 1 .. Len(writer.waiting[f]) /\ IsOpen(writer.waiting[f][1])
    BY <2>1 DEF IInv, HeadsOpen
  <2>3. writer.waiting[f] # <<>> => \E d \in writer.waiting[f][1].open : d \in writer.places
    BY <2>2 DEF IInv, SlotsKnown, IsOpen
  <2> QED BY <1>3, <2>1, <2>3
<1>5. \A f \in Files : Len(writer.waiting[f]) = 0
  BY <1>4
<1> QED BY <1>1, <1>5 DEF Holds

\* The records of an exchange are those of its events.
LEMMA RecordsShape ==
    ASSUME IInv, NEW e \in Exchanges
    PROVE  /\ DOMAIN RecordsOf(e) = 1 .. exchange[e].frames + 2
           /\ \A i \in 1 .. exchange[e].frames + 2 :
                 /\ RecordsOf(e)[i] = RecordOf(<<e, i - 1>>) /\ <<e, i - 1>> \in Events
                 /\ Speaks(RecordOf(<<e, i - 1>>), <<e, i - 1>>)
<1> DEFINE n == exchange[e].frames
           head == <<RequestLines(e), AnswerLines(e)>>
           tail == [k \in 1 .. n |-> <<Line(e, k + 1, "message")>>]
<1>1. n \in 0 .. MaxFrames /\ n \in Nat /\ MaxFrames \in Nat
  BY Kept, TapAssumption DEF ExchangeType
<1>2. /\ \A k \in 1 .. n : <<Line(e, k + 1, "message")>> \in Seq(Records)
      /\ RequestLines(e) \in Seq(Records) /\ AnswerLines(e) \in Seq(Records)
  <2>1. \A k \in 1 .. n : Line(e, k + 1, "message") \in Records
    BY <1>1 DEF Line, Records, Events
  <2> QED BY <2>1, LineTypes DEF IInv
<1>3. tail \in Seq(Seq(Records)) /\ Len(tail) = n /\ \A k \in 1 .. n : tail[k] = <<Line(e, k + 1, "message")>>
  <2> HIDE DEF n
  <2>1. tail \in [1 .. n -> Seq(Records)]
    BY <1>2
  <2> QED BY <1>1, <2>1
<1>4. head \in Seq(Seq(Records)) /\ Len(head) = 2 /\ head[1] = RequestLines(e) /\ head[2] = AnswerLines(e)
  BY <1>2
<1>5. RecordsOf(e) = head \o tail
  BY DEF RecordsOf
<1> HIDE DEF n, head, tail
<1>6. /\ head \o tail \in Seq(Seq(Records)) /\ Len(head \o tail) = Len(head) + Len(tail)
      /\ \A i \in 1 .. Len(head) + Len(tail) :
            (head \o tail)[i] = IF i <= Len(head) THEN head[i] ELSE tail[i - Len(head)]
  BY ONLY <1>3, <1>4, ConcatProperties, Zenon
<1>7. DOMAIN RecordsOf(e) = 1 .. n + 2
  <2>1. Len(head \o tail) = n + 2
    BY <1>1, <1>3, <1>4, <1>6
  <2> QED BY <1>5, <1>6, <2>1
<1>8. ASSUME NEW i \in 1 .. n + 2
      PROVE  /\ RecordsOf(e)[i] = RecordOf(<<e, i - 1>>) /\ <<e, i - 1>> \in Events
             /\ Speaks(RecordOf(<<e, i - 1>>), <<e, i - 1>>)
  <2>1. RecordsOf(e)[i] = IF i <= 2 THEN head[i] ELSE tail[i - 2]
    <3>1. i \in 1 .. Len(head) + Len(tail)
      BY <1>1, <1>3, <1>4
    <3> QED BY <1>4, <1>5, <1>6, <3>1
  <2>2. i - 1 \in 0 .. MaxFrames + 1
    BY <1>1
  <2>3. CASE i = 1
    <3>1. RequestLines(e) \in Seq(Records) /\ 1 \in DOMAIN RequestLines(e) /\ RequestLines(e)[1].event = <<e, 0>>
      BY <1>2 DEF RequestLines, Line
    <3>2. RecordOf(<<e, 0>>) = RequestLines(e)
      BY DEF RecordOf
    <3>3. RecordsOf(e)[i] = RequestLines(e) /\ i - 1 = 0 /\ <<e, i - 1>> = <<e, 0>>
      BY <1>4, <2>1, <2>3
    <3>4. Speaks(RequestLines(e), <<e, 0>>)
      BY <3>1 DEF Speaks
    <3>5. <<e, i - 1>> \in Events
      BY <2>2 DEF Events
    <3> QED BY <3>2, <3>3, <3>4, <3>5
  <2>4. CASE i = 2
    <3>1. AnswerLines(e) \in Seq(Records) /\ 1 \in DOMAIN AnswerLines(e) /\ AnswerLines(e)[1].event = <<e, 1>>
      BY <1>2 DEF AnswerLines, Line
    <3>2. RecordOf(<<e, 1>>) = AnswerLines(e)
      BY DEF RecordOf
    <3>3. RecordsOf(e)[i] = AnswerLines(e) /\ i - 1 = 1 /\ <<e, i - 1>> = <<e, 1>>
      BY <1>4, <2>1, <2>4
    <3>4. Speaks(AnswerLines(e), <<e, 1>>)
      BY <3>1 DEF Speaks
    <3>5. <<e, i - 1>> \in Events
      BY <2>2 DEF Events
    <3> QED BY <3>2, <3>3, <3>4, <3>5
  <2>5. CASE i > 2
    <3>1. i - 2 \in 1 .. n /\ (i - 2) + 1 = i - 1
      BY <1>1, <2>5
    <3>2. RecordsOf(e)[i] = <<Line(e, i - 1, "message")>>
      <4>1. tail[i - 2] = <<Line(e, (i - 2) + 1, "message")>>
        BY <1>3, <3>1
      <4> QED BY <2>1, <2>5, <3>1, <4>1
    <3>3. RecordOf(<<e, i - 1>>) = <<Line(e, i - 1, "message")>>
      BY <2>5 DEF RecordOf
    <3>4. Speaks(<<Line(e, i - 1, "message")>>, <<e, i - 1>>)
      BY DEF Speaks, Line
    <3> QED BY <2>2, <3>2, <3>3, <3>4 DEF Events
  <2> QED BY <1>1, <2>3, <2>4, <2>5
<1> QED BY <1>7, <1>8 DEF n

\* Once all is still, every exchange that came to its end is in one trace, all of
\* it, once, in its order (tap.rs `tap`, record_response; tap/writer.rs Writer).
THEOREM EverythingIsRecordedOnce == Spec => []RecordedOnce
<1>1. ASSUME IInv, OInv, SInv, RInv PROVE RecordedOnce
  <2> SUFFICES ASSUME Quiet, ~setting.failures, NEW e \in Exchanges,
                      exchange[e].step = "done", exchange[e].carries # "large"
               PROVE  LET records == RecordsOf(e)
                          file    == disk[exchange[e].file]
                      IN  /\ \A i \in DOMAIN records : \E k \in DOMAIN file : file[k] = records[i]
                          /\ \A i, j \in DOMAIN records : \A k, l \in DOMAIN file :
                                file[k] = records[i] /\ file[l] = records[j] => (i < j <=> k < l)
                          /\ \A f \in Files : \A k \in DOMAIN disk[f] : Mentions(disk[f][k], e) =>
                                f = exchange[e].file /\ disk[f][k] \in Range(records)
    BY DEF RecordedOnce
  <2> DEFINE records == RecordsOf(e)
             home == exchange[e].file
             n == exchange[e].frames
  <2>1. /\ DOMAIN records = 1 .. n + 2
        /\ \A i \in 1 .. n + 2 :
              /\ records[i] = RecordOf(<<e, i - 1>>) /\ <<e, i - 1>> \in Events
              /\ Speaks(RecordOf(<<e, i - 1>>), <<e, i - 1>>)
    BY <1>1, RecordsShape
  <2>2. n \in Nat /\ home \in Files
    BY <1>1, Kept, TapAssumption DEF ExchangeType
  <2>3. \A f \in Files : DOMAIN disk[f] = 1 .. Len(disk[f]) /\ Len(disk[f]) \in Nat
    <3>1. \A f \in Files : disk[f] \in Seq(Seq(Records))
      BY <1>1 DEF IInv, TypeOK
    <3> QED BY <3>1
  <2>4. ASSUME NEW i \in 1 .. n + 2 PROVE \E k \in DOMAIN disk[home] : disk[home][k] = records[i]
    <3>1. Recorded(exchange[e], i - 1)
      BY <2>2 DEF Recorded
    <3>2. PICK u \in Events : u = <<e, i - 1>> /\ records[i] = RecordOf(u)
      BY <2>1
    <3>3. Recorded(exchange[u[1]], u[2])
      BY <3>1, <3>2
    <3>4. Holds(home, records[i])
      BY <1>1, <3>2, <3>3 DEF RInv, AllRecorded
    <3> QED BY <1>1, <2>2, <2>3, <3>4, NothingWaits
  <2>5. ASSUME NEW i \in 1 .. n + 2, NEW j \in 1 .. n + 2, NEW k \in DOMAIN disk[home], NEW l \in DOMAIN disk[home],
               disk[home][k] = records[i], disk[home][l] = records[j]
        PROVE  i < j <=> k < l
    <3>1. PICK u \in Events : u = <<e, i - 1>> /\ Speaks(disk[home][k], u)
      BY <2>1, <2>5
    <3>2. PICK v \in Events : v = <<e, j - 1>> /\ Speaks(disk[home][l], v)
      BY <2>1, <2>5
    <3>3. k \in 1 .. Len(disk[home]) /\ l \in 1 .. Len(disk[home]) /\ k \in Nat /\ l \in Nat
      BY <2>2, <2>3
    <3>4. At(home, u, k) /\ At(home, v, l)
      BY <3>1, <3>2, <3>3 DEF At, InQueue
    <3>5. i < j => k < l
      <4>1. i < j => Before(u, v)
        BY <3>1, <3>2 DEF Before
      <4> QED BY <1>1, <2>2, <3>3, <3>4, <4>1 DEF OInv, Ordered
    <3>6. j < i => l < k
      <4>1. j < i => Before(v, u)
        BY <3>1, <3>2 DEF Before
      <4> QED BY <1>1, <2>2, <3>3, <3>4, <4>1 DEF OInv, Ordered
    <3>7. i = j => k = l
      BY <1>1, <2>2, <3>1, <3>2, <3>3, <3>4 DEF OInv, Once
    <3> QED BY <3>3, <3>5, <3>6, <3>7
  <2>6. ASSUME NEW f \in Files, NEW k \in DOMAIN disk[f], Mentions(disk[f][k], e)
        PROVE  f = home /\ disk[f][k] \in Range(records)
    <3>1. disk[f] \in Seq(Seq(Records)) /\ k \in 1 .. Len(disk[f])
      BY <1>1, <2>3 DEF IInv, TypeOK
    <3>2. PICK r \in Seq(Records) : r = disk[f][k]
      BY <3>1
    <3>3. Holds(f, r)
      BY <3>1, <3>2 DEF Holds
    <3>4. PICK u \in Events : Speaks(r, u) /\ u[1] = e
      <4>1. PICK m \in DOMAIN r : r[m].event[1] = e
        BY <2>6, <3>2 DEF Mentions
      <4>2. r[m].event \in Events
        <5>1. r[m] \in Records
          BY <3>2, <4>1
        <5> QED BY <5>1 DEF Records
      <4> QED BY <4>1, <4>2 DEF Speaks
    <3>5. f = TraceOf(exchange[e]) /\ Sent(u) /\ r = RecordOf(u)
      BY <1>1, <3>3, <3>4 DEF SInv, AllOwned, Owned
    <3>6. f = home
      BY <1>1, <3>5 DEF SInv, Filed, Filing
    <3>7. u = <<e, u[2]>> /\ u[2] \in Nat
      BY <3>4, EventParts
    <3>8. u[2] + 1 \in 1 .. n + 2 /\ (u[2] + 1) - 1 = u[2]
      BY <2>2, <3>4, <3>5, <3>7 DEF Sent, SentOf
    <3>9. records[u[2] + 1] = r
      BY <2>1, <3>5, <3>7, <3>8
    <3> QED BY <2>1, <3>2, <3>6, <3>8, <3>9 DEF Range
  <2> HIDE DEF records
  <2> QED BY <2>1, <2>4, <2>5, <2>6 DEF records
<1> QED BY <1>1, RecordInvariance, PTL
=============================================================================

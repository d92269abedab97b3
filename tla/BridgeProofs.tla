----------------------------- MODULE BridgeProofs -----------------------------
(***************************************************************************)
(* Proofs about Bridge: lines of concurrent POSTs never mix, each line of  *)
(* a server is told once and in order, and an answer reaches the stream of *)
(* its request, for any number of exchanges and sessions, any room in the  *)
(* pipe, any limit on what waits, and any suites, servers, departures,     *)
(* exits and stops.                                                        *)
(***************************************************************************)
EXTENDS Bridge, FiniteSetTheorems, SequenceTheorems, TLAPS

Pieces == Exchanges \X (Nat \ {0})
SessionFields == {"writer", "pipe", "streams", "standalone", "pending", "ended", "grace"}

\* The fields of an exchange, a session and a server that writing is about.
Typed ==
    /\ setting \in Settings
    /\ exchange \in [Exchanges -> [step: Steps, kind: Kinds, session: Sessions \union {NoSession}, written: 0 .. 2]]
    /\ session = [s \in Sessions |-> session[s]]
    /\ \A s \in Sessions : DOMAIN session[s] = SessionFields /\ session[s].pipe \in Seq(Pieces)
    /\ server \in [Sessions -> [state: {"none", "running", "exited"}, line: Seq(Pieces),
                                garbled: SUBSET (SUBSET Exchanges), owes: SUBSET (Exchanges \X Nat)]]

\* What was written to a server and it has not made a line of.
Unread(s) == server[s].line \o session[s].pipe

Part(s, i) == Unread(s)[i]

\* The client left with a part of its line written.
LeftHalf(e) == exchange[e].step = "gone" /\ exchange[e].written < setting.pieces

\* Parts are of the session's exchanges, as far as each has come.
OwnParts ==
    \A s \in Sessions : \A i \in 1 .. Len(Unread(s)) :
        /\ exchange[Part(s, i)[1]].session = s
        /\ Part(s, i)[2] <= exchange[Part(s, i)[1]].written

\* A part that does not begin a line is behind the part before it.
PartsFollow ==
    \A s \in Sessions : \A i \in 1 .. Len(Unread(s)) :
        Part(s, i)[2] > 1 => i > 1 /\ Part(s, i - 1) = <<Part(s, i)[1], Part(s, i)[2] - 1>>

\* A line that another one follows is at its end, or its client left.
LinesFollow ==
    \A s \in Sessions : \A i \in 1 .. Len(Unread(s)) - 1 :
        \/ Part(s, i)[2] >= setting.pieces
        \/ Part(s, i + 1) = <<Part(s, i)[1], Part(s, i)[2] + 1>>
        \/ LeftHalf(Part(s, i)[1])

\* While the server runs, the last line is being written, or as above.
LastIsWritten ==
    \A s \in Sessions : server[s].state = "running" /\ Unread(s) # <<>> =>
        LET part == Part(s, Len(Unread(s)))
        IN  \/ part[2] >= setting.pieces
            \/ LeftHalf(part[1])
            \/ exchange[part[1]].step = "writing" /\ exchange[part[1]].written = part[2]

\* Who writes has the last word.
WriterIsLast ==
    \A s \in Sessions : \A e \in Exchanges :
        exchange[e].step = "writing" /\ exchange[e].session = s =>
            /\ exchange[e].written < setting.pieces
            /\ exchange[e].written > 0 =>
                  Unread(s) # <<>> /\ Part(s, Len(Unread(s))) = <<e, exchange[e].written>>

\* A line that has been read in part is not at its end.
NotYetALine ==
    \A s \in Sessions : \A i \in 1 .. Len(server[s].line) : server[s].line[i][2] < setting.pieces

OneWriter ==
    \A e, d \in Exchanges :
        /\ exchange[e].step = "writing" /\ exchange[d].step = "writing"
        /\ exchange[e].session = exchange[d].session
        => e = d

\* A server that has not begun has been written nothing.
FreshPipes == \A s \in Sessions : server[s].state = "none" => Unread(s) = <<>>

\* What an exchange has not come to, it has not written.
Unwritten ==
    \A e \in Exchanges :
        /\ exchange[e].step \in {"idle", "beginning", "opening", "sending", "removing", "closing"}
              => exchange[e].written = 0
        /\ exchange[e].written <= setting.pieces
        /\ exchange[e].step # "idle" => exchange[e].session \in Sessions

IInv ==
    /\ Typed
    /\ OwnParts /\ PartsFollow /\ LinesFollow /\ LastIsWritten
    /\ WriterIsLast /\ NotYetALine /\ OneWriter /\ FreshPipes /\ Unwritten
    /\ LinesAreWhole

\* Lines are of one piece or two.
LEMMA PiecesOfALine == ASSUME Typed PROVE setting.pieces \in 1 .. 2
BY BridgeAssumption DEF Typed, Setting

LEMMA Sequences == ASSUME Typed, NEW s \in Sessions
                   PROVE  /\ server[s].line \in Seq(Pieces) /\ session[s].pipe \in Seq(Pieces)
                          /\ Unread(s) \in Seq(Pieces)
                          /\ Len(Unread(s)) = Len(server[s].line) + Len(session[s].pipe)
                          /\ Len(Unread(s)) \in Nat
                          /\ \A i \in 1 .. Len(Unread(s)) : /\ Part(s, i) \in Pieces
                                                           /\ Part(s, i)[1] \in Exchanges
                                                           /\ Part(s, i)[2] \in Nat \ {0}
<1>1. server[s].line \in Seq(Pieces) /\ session[s].pipe \in Seq(Pieces)
  BY DEF Typed
<1>2. /\ Unread(s) \in Seq(Pieces) /\ Len(Unread(s)) = Len(server[s].line) + Len(session[s].pipe)
      /\ Len(Unread(s)) \in Nat
  <2>1. /\ Unread(s) \in Seq(Pieces)
        /\ Len(Unread(s)) = Len(server[s].line) + Len(session[s].pipe)
    BY <1>1, ConcatProperties, Zenon DEF Unread
  <2> QED BY <2>1, LenProperties
<1>3. \A i \in 1 .. Len(Unread(s)) : Part(s, i) \in Pieces
  BY <1>2, ElementOfSeq DEF Part
<1>4. \A p \in Pieces : p[1] \in Exchanges /\ p[2] \in Nat \ {0}
  BY DEF Pieces
<1> QED BY <1>1, <1>2, <1>3, <1>4

\* Nothing is written before the first exchange (Bridge::start).
THEOREM InitInv == Init => IInv
<1> SUFFICES ASSUME Init PROVE IInv
  OBVIOUS
<1>1. Typed
  <2>1. Idle \in [step: Steps, kind: Kinds, session: Sessions \union {NoSession}, written: 0 .. 2]
    BY DEF Idle, Steps, Kinds
  <2>2. exchange \in [Exchanges -> [step: Steps, kind: Kinds, session: Sessions \union {NoSession}, written: 0 .. 2]]
    BY <2>1 DEF Init
  <2>3. /\ session = [s \in Sessions |-> session[s]]
        /\ \A s \in Sessions : DOMAIN session[s] = SessionFields /\ session[s].pipe \in Seq(Pieces)
    <3>1. DOMAIN NewSession = SessionFields /\ NewSession.pipe \in Seq(Pieces)
      BY DEF NewSession, SessionFields
    <3> QED BY <3>1 DEF Init
  <2>4. server \in [Sessions -> [state: {"none", "running", "exited"}, line: Seq(Pieces),
                                 garbled: SUBSET (SUBSET Exchanges), owes: SUBSET (Exchanges \X Nat)]]
    BY DEF Init
  <2> QED BY <2>2, <2>3, <2>4 DEF Init, Typed
<1>2. \A s \in Sessions : server[s].line = <<>> /\ session[s].pipe = <<>> /\ server[s].garbled = {}
                          /\ Unread(s) = <<>> /\ server[s].state = "none"
  BY DEF Init, NewSession, Unread
<1>3. OwnParts /\ PartsFollow /\ LinesFollow /\ LastIsWritten /\ NotYetALine /\ LinesAreWhole
  BY <1>2 DEF OwnParts, PartsFollow, LinesFollow, LastIsWritten, NotYetALine, LinesAreWhole
<1>4. WriterIsLast /\ OneWriter /\ FreshPipes /\ Unwritten
  BY <1>1, <1>2, PiecesOfALine DEF FreshPipes, Init, Idle, WriterIsLast, OneWriter, Unwritten
<1> QED BY <1>1, <1>3, <1>4 DEF IInv

-----------------------------------------------------------------------------
(* Steps that write and read nothing. *)

\* The pipes are left alone.
PipesStay ==
    /\ session' = [s \in Sessions |-> session'[s]]
    /\ \A s \in Sessions : DOMAIN session'[s] = SessionFields /\ session'[s].pipe = session[s].pipe

\* The servers' lines are left alone, and none comes to life that has parts
\* to read.
ServersStay ==
    /\ server' \in [Sessions -> [state: {"none", "running", "exited"}, line: Seq(Pieces),
                                 garbled: SUBSET (SUBSET Exchanges), owes: SUBSET (Exchanges \X Nat)]]
    /\ \A s \in Sessions : /\ server'[s].line = server[s].line /\ server'[s].garbled = server[s].garbled
                           /\ server'[s].state = "running" => server[s].state = "running" \/ Unread(s) = <<>>
                           /\ server'[s].state = "none" => server[s].state = "none"

\* An exchange that goes on has written no more, and does not drop a line.
GoesOn(e, x) ==
    /\ x \in [step: Steps, kind: Kinds, session: Sessions \union {NoSession}, written: 0 .. 2]
    /\ x.written = exchange[e].written
    /\ x.step \in {"idle", "beginning", "opening", "sending", "removing", "closing"} => x.written = 0
    /\ x.step # "idle" => x.session \in Sessions
    /\ exchange[e].step = "gone" => x.step = "gone"
    /\ exchange[e].step # "idle" => x.session = exchange[e].session
    /\ exchange[e].step = "writing" =>
          x.step \in {"writing", "gone"} \/ server[exchange[e].session].state = "exited"
    /\ x.step = "writing" =>
          \/ exchange[e].step = "writing" /\ x.session = exchange[e].session
          \/ /\ x.written = 0
             /\ \A d \in Exchanges : ~(exchange[d].step = "writing" /\ exchange[d].session = x.session)

\* What is unread stays unread.
UnreadStays ==
    /\ \A s \in Sessions : /\ Unread(s)' = Unread(s)
                           /\ server'[s].garbled = server[s].garbled
                           /\ server'[s].state = "running" => server[s].state = "running" \/ Unread(s) = <<>>
                           /\ server'[s].state = "none" => server[s].state = "none"
    /\ NotYetALine'

LEMMA NothingEnds ==
    ASSUME IInv, setting' = setting, Typed', UnreadStays,
           NEW e \in Exchanges, NEW x, GoesOn(e, x), exchange' = [exchange EXCEPT ![e] = x]
    PROVE  IInv'
<1>1. \A d \in Exchanges : exchange'[d] = IF d = e THEN x ELSE exchange[d]
  BY DEF IInv, Typed
<1>2. Typed'
  OBVIOUS
<1>3. \A s \in Sessions : Unread(s)' = Unread(s) /\ \A i \in 1 .. Len(Unread(s)) : Part(s, i)' = Part(s, i)
  BY DEF UnreadStays, Part
<1>4. \A d \in Exchanges : LeftHalf(d) => LeftHalf(d)'
  BY <1>1 DEF GoesOn, LeftHalf
<1>5. \A d \in Exchanges : /\ exchange'[d].written = exchange[d].written /\ exchange[d].written \in 0 .. 2
                           /\ exchange[d].written > 0 => exchange'[d].session = exchange[d].session
  BY <1>1 DEF GoesOn, IInv, Typed, Unwritten
<1>6. \A s \in Sessions : /\ Len(Unread(s)) \in Nat
                          /\ \A i \in 1 .. Len(Unread(s)) : Part(s, i)[1] \in Exchanges /\ Part(s, i)[2] \in Nat \ {0}
  BY Sequences DEF IInv
<1>7. OwnParts'
  <2> SUFFICES ASSUME NEW s \in Sessions, NEW i \in 1 .. Len(Unread(s))
               PROVE  /\ exchange'[Part(s, i)[1]].session = s
                      /\ Part(s, i)[2] <= exchange'[Part(s, i)[1]].written
    BY <1>3 DEF OwnParts
  <2>1. exchange[Part(s, i)[1]].session = s /\ Part(s, i)[2] <= exchange[Part(s, i)[1]].written
    BY DEF IInv, OwnParts
  <2> QED BY <1>5, <1>6, <2>1
<1>8. PartsFollow'
  <2> SUFFICES ASSUME NEW s \in Sessions, NEW i \in 1 .. Len(Unread(s)), Part(s, i)[2] > 1
               PROVE  i > 1 /\ Part(s, i - 1)' = <<Part(s, i)[1], Part(s, i)[2] - 1>>
    BY <1>3 DEF PartsFollow
  <2>1. i > 1 /\ Part(s, i - 1) = <<Part(s, i)[1], Part(s, i)[2] - 1>>
    BY DEF IInv, PartsFollow
  <2>2. i - 1 \in 1 .. Len(Unread(s))
    BY <2>1, <1>6
  <2> QED BY <1>3, <2>1, <2>2
<1>9. LinesFollow'
  <2> SUFFICES ASSUME NEW s \in Sessions, NEW i \in 1 .. Len(Unread(s)) - 1
               PROVE  \/ Part(s, i)[2] >= setting.pieces
                      \/ Part(s, i + 1)' = <<Part(s, i)[1], Part(s, i)[2] + 1>>
                      \/ LeftHalf(Part(s, i)[1])'
    BY <1>3, <1>6 DEF LinesFollow
  <2>1. i \in 1 .. Len(Unread(s)) /\ i + 1 \in 1 .. Len(Unread(s))
    BY <1>6
  <2> QED BY <1>3, <1>4, <1>6, <2>1 DEF IInv, LinesFollow
<1>10. LastIsWritten'
  <2>a. \A s \in Sessions : Unread(s) # <<>> => Len(Unread(s)) \in 1 .. Len(Unread(s))
    BY Sequences DEF IInv
  <2> SUFFICES ASSUME NEW s \in Sessions, server'[s].state = "running", Unread(s) # <<>>,
                      NEW part, part = Part(s, Len(Unread(s)))
               PROVE  \/ part[2] >= setting.pieces
                      \/ LeftHalf(part[1])'
                      \/ exchange'[part[1]].step = "writing" /\ exchange'[part[1]].written = part[2]
    BY <1>3, <2>a DEF LastIsWritten
  <2>1. server[s].state = "running"
    BY DEF UnreadStays
  <2>2. \/ part[2] >= setting.pieces \/ LeftHalf(part[1])
        \/ exchange[part[1]].step = "writing" /\ exchange[part[1]].written = part[2]
    BY <2>1 DEF IInv, LastIsWritten
  <2>3. Len(Unread(s)) \in 1 .. Len(Unread(s))
    BY Sequences DEF IInv
  <2>4. part[1] \in Exchanges /\ part[2] \in Nat \ {0} /\ exchange[part[1]].session = s
    BY <1>6, <2>3 DEF IInv, OwnParts
  <2>5. CASE exchange[part[1]].step = "writing" /\ exchange[part[1]].written = part[2]
    <3>1. CASE part[1] # e
      BY <1>1, <2>4, <2>5, <3>1
    <3>2. CASE part[1] = e
      <4>1. x.step \in {"writing", "gone"} /\ x.written = part[2]
        BY <2>1, <2>4, <2>5, <3>2 DEF GoesOn
      <4>2. exchange[e].written < setting.pieces
        BY <2>4, <2>5, <3>2 DEF IInv, WriterIsLast
      <4> QED BY <1>1, <2>5, <3>2, <4>1, <4>2 DEF LeftHalf
    <3> QED BY <3>1, <3>2
  <2> QED BY <1>4, <2>2, <2>4, <2>5
<1>11. WriterIsLast'
  <2>a. \A s \in Sessions : Unread(s) # <<>> => Len(Unread(s)) \in 1 .. Len(Unread(s))
    BY Sequences DEF IInv
  <2> SUFFICES ASSUME NEW s \in Sessions, NEW d \in Exchanges,
                      exchange'[d].step = "writing", exchange'[d].session = s
               PROVE  /\ exchange'[d].written < setting.pieces
                      /\ exchange'[d].written > 0 =>
                            Unread(s) # <<>> /\ Part(s, Len(Unread(s))) = <<d, exchange'[d].written>>
    BY <1>3, <2>a DEF WriterIsLast
  <2>1. CASE exchange[d].step = "writing"
    <3>1. exchange[d].session = s
      BY <1>1, <2>1 DEF GoesOn, IInv, OneWriter
    <3> QED BY <1>5, <2>1, <3>1 DEF IInv, WriterIsLast
  <2>2. CASE exchange[d].step # "writing"
    <3>1. d = e /\ exchange'[d].written = 0
      BY <1>1, <2>2 DEF GoesOn
    <3> QED BY <3>1, PiecesOfALine DEF IInv
  <2> QED BY <2>1, <2>2
<1>12. NotYetALine' /\ LinesAreWhole'
  <2>1. NotYetALine'
    BY DEF UnreadStays
  <2>2. LinesAreWhole'
    <3> SUFFICES ASSUME NEW s \in Sessions, NEW mixed \in server'[s].garbled
                 PROVE  \E d \in mixed : exchange'[d].step = "gone" /\ exchange'[d].written < setting.pieces
      BY DEF LinesAreWhole
    <3>1. mixed \in server[s].garbled /\ mixed \subseteq Exchanges
      BY DEF UnreadStays, IInv, Typed
    <3>2. PICK d \in mixed : LeftHalf(d)
      BY <3>1 DEF IInv, LinesAreWhole, LeftHalf
    <3> QED BY <1>4, <3>1, <3>2 DEF LeftHalf
  <2> QED BY <2>1, <2>2
<1>13. OneWriter'
  BY <1>1 DEF IInv, OneWriter, GoesOn
<1>14. Unwritten' /\ FreshPipes'
  BY <1>1, <1>3 DEF IInv, Unwritten, GoesOn, FreshPipes, UnreadStays
<1> QED BY <1>2, <1>7, <1>8, <1>9, <1>10, <1>11, <1>12, <1>13, <1>14 DEF IInv

LEMMA NothingWritten ==
    ASSUME IInv, setting' = setting, PipesStay, ServersStay,
           NEW e \in Exchanges, NEW x, GoesOn(e, x), exchange' = [exchange EXCEPT ![e] = x]
    PROVE  IInv'
<1>1. Typed'
  BY DEF IInv, Typed, PipesStay, ServersStay, GoesOn
<1>2. UnreadStays
  BY DEF UnreadStays, PipesStay, ServersStay, Unread, NotYetALine, IInv
<1> QED BY <1>1, <1>2, NothingEnds

\* An exchange of which nothing changes.
LEMMA StandsStill == ASSUME IInv PROVE \A e \in Exchanges : GoesOn(e, exchange[e])
BY DEF GoesOn, IInv, Typed, Unwritten

\* A step of nobody's handler.
LEMMA NobodyMoves ==
    ASSUME IInv, setting' = setting, PipesStay, ServersStay, exchange' = exchange
    PROVE  IInv'
<1>1. 1 \in Exchanges
  BY BridgeAssumption DEF Exchanges
<1>2. GoesOn(1, exchange[1])
  BY <1>1, StandsStill
<1>3. exchange' = [exchange EXCEPT ![1] = exchange[1]]
  BY <1>1 DEF IInv, Typed
<1> QED BY <1>1, <1>2, <1>3, NothingWritten

\* What stands still as a whole stands still in its parts.
LEMMA Unchanged ==
    ASSUME IInv
    PROVE  /\ session' = session => PipesStay
           /\ server' = server => ServersStay
BY DEF IInv, Typed, PipesStay, ServersStay

\* A handler that takes its next step.
LEMMA HandlerMoves ==
    ASSUME IInv, NEW e \in Exchanges, NEW step \in Steps, Goes(e, step), setting' = setting,
           PipesStay, ServersStay, exchange[e].step # "idle",
           step \in {"beginning", "opening", "sending", "removing", "closing"} => exchange[e].written = 0,
           step # "idle", exchange[e].step = "gone" => step = "gone",
           exchange[e].step = "writing" =>
               step \in {"writing", "gone"} \/ server[exchange[e].session].state = "exited",
           step = "writing" => exchange[e].written = 0 /\ ~Locked(exchange[e].session)
    PROVE  IInv'
<1> DEFINE x == [exchange[e] EXCEPT !.step = step]
<1>1. exchange' = [exchange EXCEPT ![e] = x]
  BY DEF Goes
<1>2. /\ x \in [step: Steps, kind: Kinds, session: Sessions \union {NoSession}, written: 0 .. 2]
      /\ x.step = step /\ x.written = exchange[e].written /\ x.session = exchange[e].session
  BY DEF IInv, Typed
<1>3. exchange[e].session \in Sessions
  BY DEF IInv, Unwritten
<1>4. GoesOn(e, x)
  <2> HIDE DEF x
  <2> QED BY <1>2, <1>3 DEF GoesOn, Locked
<1> HIDE DEF x
<1> QED BY <1>1, <1>4, NothingWritten

\* A session of which a field other than the pipe changes.
LEMMA PipeStays ==
    ASSUME IInv, NEW s \in Sessions, NEW value, DOMAIN value = SessionFields,
           value.pipe = session[s].pipe, session' = [session EXCEPT ![s] = value]
    PROVE  PipesStay
BY DEF IInv, Typed, PipesStay

\* A server of which neither the line nor what it garbled changes.
LEMMA ServerStays ==
    ASSUME IInv, NEW s \in Sessions, NEW value,
           value \in [state: {"none", "running", "exited"}, line: Seq(Pieces),
                      garbled: SUBSET (SUBSET Exchanges), owes: SUBSET (Exchanges \X Nat)],
           value.line = server[s].line, value.garbled = server[s].garbled,
           value.state = "running" => server[s].state = "running" \/ Unread(s) = <<>>,
           value.state = "none" => server[s].state = "none",
           server' = [server EXCEPT ![s] = value]
    PROVE  ServersStay
BY DEF IInv, Typed, ServersStay

-----------------------------------------------------------------------------
(* Handlers that write nothing. *)

LEMMA IdleType ==
    /\ Idle \in [step: Steps, kind: Kinds, session: Sessions \union {NoSession}, written: 0 .. 2]
    /\ Idle.written = 0 /\ "beginning" \in Steps /\ "initialize" \in Kinds
BY DEF Idle, Steps, Kinds

LEMMA ArriveKeeps == ASSUME IInv, NEW e \in Exchanges, Arrive(e) PROVE IInv'
<1>1. exchange[e].step = "idle" /\ exchange[e].written = 0 /\ setting' = setting
  BY DEF Arrive, IInv, Unwritten
<1>2. PICK s \in Sessions : Begin(e, s) \/ Enter(e, s)
  BY DEF Arrive
<1>3. CASE Begin(e, s)
  <2> DEFINE x == [Idle EXCEPT !.step = "beginning", !.kind = "initialize", !.session = s]
             value == [server[s] EXCEPT !.state = "running"]
  <2>1. exchange' = [exchange EXCEPT ![e] = x] /\ server' = [server EXCEPT ![s] = value]
    BY <1>3 DEF Begin
  <2>2. GoesOn(e, x)
    <3>1. /\ x \in [step: Steps, kind: Kinds, session: Sessions \union {NoSession}, written: 0 .. 2]
          /\ x.step = "beginning" /\ x.session = s /\ x.written = 0
      BY IdleType
    <3> HIDE DEF x
    <3> QED BY <1>1, <3>1 DEF GoesOn
  <2>3. ServersStay
    <3>1. /\ value \in [state: {"none", "running", "exited"}, line: Seq(Pieces),
                        garbled: SUBSET (SUBSET Exchanges), owes: SUBSET (Exchanges \X Nat)]
          /\ value.line = server[s].line /\ value.garbled = server[s].garbled
          /\ value.state = "running"
      BY DEF IInv, Typed
    <3>2. Unread(s) = <<>>
      BY <1>3 DEF Begin, IInv, FreshPipes
    <3> HIDE DEF value
    <3> QED BY <2>1, <3>1, <3>2, ServerStays
  <2>4. PipesStay
    BY <1>3, Unchanged DEF Begin
  <2> HIDE DEF x
  <2> QED BY <1>1, <2>1, <2>2, <2>3, <2>4, NothingWritten
<1>4. CASE Enter(e, s)
  <2>1. PICK kind \in setting.kinds \ {"initialize"} :
           exchange' = [exchange EXCEPT ![e] = [Idle EXCEPT !.kind = kind, !.session = s,
              !.step = IF s \notin sessions THEN "done"
                       ELSE IF kind = "delete" THEN "removing" ELSE "opening"]]
    BY <1>4 DEF Enter
  <2> DEFINE x == [Idle EXCEPT !.kind = kind, !.session = s,
              !.step = IF s \notin sessions THEN "done"
                       ELSE IF kind = "delete" THEN "removing" ELSE "opening"]
  <2>2. kind \in Kinds
    BY BridgeAssumption DEF IInv, Typed, Setting
  <2>3. GoesOn(e, x)
    <3>1. {"done", "removing", "opening"} \subseteq Steps
      BY DEF Steps
    <3>2. /\ x \in [step: Steps, kind: Kinds, session: Sessions \union {NoSession}, written: 0 .. 2]
          /\ x.step \in {"done", "removing", "opening"} /\ x.session = s /\ x.written = 0
      BY <2>2, <3>1, IdleType
    <3> HIDE DEF x
    <3> QED BY <1>1, <3>2 DEF GoesOn
  <2>4. PipesStay /\ ServersStay
    BY <1>4, Unchanged DEF Enter
  <2> HIDE DEF x
  <2> QED BY <1>1, <2>1, <2>3, <2>4, NothingWritten DEF x
<1> QED BY <1>2, <1>3, <1>4

LEMMA OpenKeeps == ASSUME IInv, NEW e \in Exchanges, Open(e) PROVE IInv'
<1>1. exchange[e].written = 0 /\ exchange[e].session \in Sessions
  BY DEF Open, IInv, Unwritten
<1>2. ServersStay /\ setting' = setting
  BY Unchanged DEF Open
<1>3. PipesStay
  <2> DEFINE s == exchange[e].session
  <2>1. DOMAIN session[s] = SessionFields
    BY <1>1 DEF IInv, Typed
  <2>2. CASE UNCHANGED session
    BY <2>2, Unchanged
  <2>3. ASSUME NEW v, session' = [session EXCEPT ![s].streams = v] PROVE PipesStay
    <3> DEFINE value == [session[s] EXCEPT !.streams = v]
    <3>1. DOMAIN value = SessionFields /\ value.pipe = session[s].pipe
      BY <2>1 DEF SessionFields
    <3>2. session' = [session EXCEPT ![s] = value]
      BY <2>3
    <3> HIDE DEF value
    <3> QED BY <1>1, <3>1, <3>2, PipeStays
  <2>4. CASE session' = [session EXCEPT ![s].standalone = e, ![s].pending = <<>>]
    <3> DEFINE value == [session[s] EXCEPT !.standalone = e, !.pending = <<>>]
    <3>1. DOMAIN value = SessionFields /\ value.pipe = session[s].pipe
      BY <2>1 DEF SessionFields
    <3>2. session' = [session EXCEPT ![s] = value]
      BY <2>4
    <3> HIDE DEF value
    <3> QED BY <1>1, <3>1, <3>2, PipeStays
  <2> QED BY <2>2, <2>3, <2>4 DEF Open, OpenStandalone, OpenStream, Changed
<1>4. CASE Goes(e, "streaming")
  BY <1>1, <1>2, <1>3, <1>4, HandlerMoves DEF Open, Steps
<1>5. CASE Goes(e, "sending")
  BY <1>1, <1>2, <1>3, <1>5, HandlerMoves DEF Open, Steps
<1> QED BY <1>4, <1>5 DEF Open

LEMMA InsertKeeps == ASSUME IInv, NEW e \in Exchanges, Insert(e) PROVE IInv'
<1>1. exchange[e].written = 0 /\ PipesStay /\ ServersStay /\ "opening" \in Steps
  BY Unchanged DEF Insert, IInv, Unwritten, Steps
<1> QED BY <1>1, HandlerMoves DEF Insert

LEMMA LockKeeps == ASSUME IInv, NEW e \in Exchanges, Lock(e) PROVE IInv'
<1>1. exchange[e].written = 0 /\ PipesStay /\ ServersStay /\ {"done", "writing"} \subseteq Steps
  BY Unchanged DEF Lock, IInv, Unwritten, Steps
<1>2. CASE Goes(e, "done")
  BY <1>1, <1>2, HandlerMoves DEF Lock
<1>3. CASE Goes(e, "writing")
  BY <1>1, <1>3, HandlerMoves DEF Lock
<1> QED BY <1>2, <1>3 DEF Lock

LEMMA EndOfStreamKeeps == ASSUME IInv, NEW e \in Exchanges, EndOfStream(e) PROVE IInv'
<1>1. PipesStay /\ ServersStay /\ "done" \in Steps
  BY Unchanged DEF EndOfStream, Steps
<1> QED BY <1>1, HandlerMoves DEF EndOfStream

LEMMA WithdrawKeeps == ASSUME IInv, NEW e \in Exchanges, Withdraw(e) PROVE IInv'
<1>1. exchange[e].written = 0 /\ PipesStay /\ ServersStay /\ "closing" \in Steps
  BY Unchanged DEF Withdraw, IInv, Unwritten, Steps
<1> QED BY <1>1, HandlerMoves DEF Withdraw

LEMMA LeaveKeeps == ASSUME IInv, NEW e \in Exchanges, Leave(e) PROVE IInv'
<1>1. PipesStay /\ ServersStay /\ "gone" \in Steps
  BY Unchanged DEF Leave, Steps
<1> QED BY <1>1, HandlerMoves DEF Leave

LEMMA EndStays == ASSUME IInv, NEW s, End(s) PROVE PipesStay
<1> DEFINE value == [session[s] EXCEPT !.writer = "closed",
                         !.grace = IF session[s].grace = "none" THEN "running" ELSE session[s].grace]
<1>1. session' = [session EXCEPT ![s] = value]
  BY DEF End
<1>2. CASE s \in Sessions
  <2>1. DOMAIN session[s] = SessionFields
    BY <1>2 DEF IInv, Typed
  <2>2. DOMAIN value = SessionFields /\ value.pipe = session[s].pipe
    BY <2>1 DEF SessionFields
  <2> HIDE DEF value
  <2> QED BY <1>1, <1>2, <2>2, PipeStays
<1>3. CASE s \notin Sessions
  <2> HIDE DEF value
  <2> QED BY <1>1, <1>3 DEF IInv, Typed, PipesStay
<1> QED BY <1>2, <1>3

LEMMA CloseKeeps == ASSUME IInv, NEW e \in Exchanges, Close(e) PROVE IInv'
<1>1. exchange[e].session \in Sessions /\ ServersStay /\ "done" \in Steps
  BY Unchanged DEF Close, IInv, Unwritten, Steps
<1>2. PipesStay
  BY <1>1, EndStays DEF Close
<1> QED BY <1>1, <1>2, HandlerMoves DEF Close

LEMMA GraceKeeps == ASSUME IInv, NEW s \in Sessions, Grace(s) PROVE IInv'
<1> DEFINE value == [session[s] EXCEPT !.grace = "over"]
<1>1. DOMAIN value = SessionFields /\ value.pipe = session[s].pipe
  BY DEF SessionFields, IInv, Typed
<1>2. session' = [session EXCEPT ![s] = value]
  BY DEF Grace, Changed
<1> HIDE DEF value
<1>3. PipesStay
  BY <1>1, <1>2, PipeStays
<1> QED BY <1>3, Unchanged, NobodyMoves DEF Grace

LEMMA OutputEndsKeeps == ASSUME IInv, NEW s \in Sessions, OutputEnds(s) PROVE IInv'
<1> DEFINE value == [session[s] EXCEPT !.ended = TRUE, !.streams = {},
                         !.standalone = NoExchange, !.pending = <<>>]
<1>1. DOMAIN value = SessionFields /\ value.pipe = session[s].pipe
  BY DEF SessionFields, IInv, Typed
<1>2. session' = [session EXCEPT ![s] = value]
  BY DEF OutputEnds
<1> HIDE DEF value
<1>3. PipesStay
  BY <1>1, <1>2, PipeStays
<1> QED BY <1>3, Unchanged, NobodyMoves DEF OutputEnds

LEMMA ExitKeeps == ASSUME IInv, NEW s \in Sessions, Exit(s) PROVE IInv'
<1> DEFINE value == [server[s] EXCEPT !.state = "exited"]
<1>1. /\ value \in [state: {"none", "running", "exited"}, line: Seq(Pieces),
                    garbled: SUBSET (SUBSET Exchanges), owes: SUBSET (Exchanges \X Nat)]
      /\ value.line = server[s].line /\ value.garbled = server[s].garbled /\ value.state = "exited"
  BY DEF IInv, Typed
<1>2. server' = [server EXCEPT ![s] = value]
  BY DEF Exit
<1> HIDE DEF value
<1>3. ServersStay
  BY <1>1, <1>2, ServerStays
<1> QED BY <1>3, Unchanged, NobodyMoves DEF Exit

LEMMA StopKeeps == ASSUME IInv, StopBegins \/ StopEnds \/ StopWaits \/ StopReturns PROVE IInv'
<1>1. CASE StopBegins \/ StopWaits \/ StopReturns
  BY <1>1, Unchanged, NobodyMoves DEF StopBegins, StopWaits, StopReturns
<1>2. CASE StopEnds
  <2>1. End(Head(stopping.ending))
    BY <1>2 DEF StopEnds
  <2>2. PipesStay
    BY <2>1, EndStays
  <2> QED BY <1>2, <2>2, Unchanged, NobodyMoves DEF StopEnds
<1> QED BY <1>1, <1>2

-----------------------------------------------------------------------------
(* What the server writes. *)

LEMMA RouteStays == ASSUME IInv, NEW s \in Sessions, NEW line, Route(s, line) PROVE PipesStay
<1>1. DOMAIN session[s] = SessionFields
  BY DEF IInv, Typed
<1>2. ASSUME NEW v, session' = [session EXCEPT ![s].streams = v] PROVE PipesStay
  <2> DEFINE value == [session[s] EXCEPT !.streams = v]
  <2>1. DOMAIN value = SessionFields /\ value.pipe = session[s].pipe /\ session' = [session EXCEPT ![s] = value]
    BY <1>1, <1>2 DEF SessionFields
  <2> HIDE DEF value
  <2> QED BY <2>1, PipeStays
<1>3. CASE ToItsStream(s, line)
  BY <1>2, <1>3 DEF ToItsStream, Changed
<1>4. CASE Unsolicited(s, line)
  <2> DEFINE open == {x \in session[s].streams : Receiving(x.post)}
             kept == [session[s] EXCEPT !.streams = open]
             held == [kept EXCEPT !.standalone = NoExchange,
                          !.pending = IF Len(kept.pending) < PENDING_LIMIT THEN Append(kept.pending, line)
                                      ELSE kept.pending]
  <2>1. session' = [session EXCEPT ![s] = kept] \/ session' = [session EXCEPT ![s] = held]
    BY <1>4, Zenon DEF Unsolicited
  <2> HIDE DEF open
  <2>2. DOMAIN kept = SessionFields /\ kept.pipe = session[s].pipe
    BY <1>1 DEF SessionFields
  <2> HIDE DEF kept
  <2>3. DOMAIN held = SessionFields /\ held.pipe = session[s].pipe
    BY <2>2 DEF SessionFields
  <2> HIDE DEF held
  <2> QED BY <2>1, <2>2, <2>3, PipeStays
<1> QED BY <1>3, <1>4 DEF Route

LEMMA NotifyKeeps == ASSUME IInv, NEW s \in Sessions, Notify(s) PROVE IInv'
<1>1. PICK line : Route(s, line)
  BY DEF Notify
<1>2. PipesStay
  BY <1>1, RouteStays
<1> QED BY <1>1, <1>2, Unchanged, NobodyMoves DEF Notify, Route

LEMMA RespondKeeps == ASSUME IInv, NEW s \in Sessions, NEW r, Respond(s, r) PROVE IInv'
<1>1. Route(s, Answer(r))
  BY DEF Respond
<1>2. PipesStay
  BY <1>1, RouteStays
<1>3. ServersStay
  <2> DEFINE value == [server[s] EXCEPT !.owes = server[s].owes \ {r}]
  <2>1. /\ value \in [state: {"none", "running", "exited"}, line: Seq(Pieces),
                      garbled: SUBSET (SUBSET Exchanges), owes: SUBSET (Exchanges \X Nat)]
        /\ value.line = server[s].line /\ value.garbled = server[s].garbled /\ value.state = server[s].state
    BY DEF IInv, Typed
  <2>2. server' = [server EXCEPT ![s] = value]
    BY DEF Respond
  <2> HIDE DEF value
  <2> QED BY <2>1, <2>2, ServerStays
<1> QED BY <1>1, <1>2, <1>3, NobodyMoves DEF Route

-----------------------------------------------------------------------------
(* The next part of a line is written. *)

LEMMA AppendToConcat ==
    \A u, v \in Seq(Pieces) : \A p \in Pieces : u \o Append(v, p) = Append(u \o v, p)
<1> SUFFICES ASSUME NEW u \in Seq(Pieces), NEW v \in Seq(Pieces), NEW p \in Pieces
             PROVE  u \o Append(v, p) = Append(u \o v, p)
  OBVIOUS
<1>1. <<p>> \in Seq(Pieces)
  OBVIOUS
<1>2. Append(v, p) = v \o <<p>> /\ u \o v \in Seq(Pieces)
  BY AppendIsConcat, ConcatProperties
<1>3. Append(u \o v, p) = (u \o v) \o <<p>>
  BY <1>2, AppendIsConcat
<1> QED BY <1>1, <1>2, <1>3, ConcatAssociative

LEMMA WriteKeeps == ASSUME IInv, NEW e \in Exchanges, Write(e) PROVE IInv'
<1> DEFINE n == exchange[e].written + 1
<1>1. PICK s \in Sessions : s = exchange[e].session
  BY DEF Write, IInv, Unwritten
<1>2. exchange[e].step = "writing" /\ setting' = setting /\ server' = server
  BY DEF Write
<1>3. exchange[e].written \in 0 .. 1 /\ n \in 1 .. 2 /\ n <= setting.pieces /\ setting.pieces \in 1 .. 2
  <2>1. exchange[e].written < setting.pieces /\ exchange[e].written \in 0 .. 2
    BY <1>1, <1>2 DEF IInv, WriterIsLast, Typed
  <2> QED BY <2>1, PiecesOfALine DEF IInv
<1>4. CASE server[s].state = "exited" /\ Goes(e, "done") /\ UNCHANGED session
  BY <1>1, <1>2, <1>4, Unchanged, HandlerMoves DEF Steps
<1>5. CASE /\ server[s].state = "running"
           /\ session' = [session EXCEPT ![s].pipe = Append(session[s].pipe, <<e, n>>)]
           /\ exchange' = [exchange EXCEPT ![e] = [exchange[e] EXCEPT
                  !.written = n,
                  !.step    = IF n < setting.pieces THEN "writing"
                              ELSE IF Ids(e) = {} THEN "done" ELSE "streaming"]]
  <2>1. /\ \A d \in Exchanges : d # e => exchange'[d] = exchange[d]
        /\ exchange'[e].written = n /\ exchange'[e].session = s
        /\ exchange'[e].step \in {"writing", "done", "streaming"}
        /\ exchange'[e].step = "writing" <=> n < setting.pieces
        /\ exchange' \in [Exchanges -> [step: Steps, kind: Kinds, session: Sessions \union {NoSession}, written: 0 .. 2]]
    <3> DEFINE next == IF n < setting.pieces THEN "writing"
                       ELSE IF Ids(e) = {} THEN "done" ELSE "streaming"
               x == [exchange[e] EXCEPT !.written = n, !.step = next]
    <3>1. exchange' = [exchange EXCEPT ![e] = x]
      BY <1>5
    <3>2. next \in {"writing", "done", "streaming"} /\ (next = "writing" <=> n < setting.pieces) /\ next \in Steps
      BY DEF Steps
    <3> HIDE DEF next, n
    <3>3. exchange[e] \in [step: Steps, kind: Kinds, session: Sessions \union {NoSession}, written: 0 .. 2]
      BY DEF IInv, Typed
    <3>4. n \in 0 .. 2
      BY <1>3
    <3>5. /\ x \in [step: Steps, kind: Kinds, session: Sessions \union {NoSession}, written: 0 .. 2]
          /\ x.written = n /\ x.session = s /\ x.step = next
      BY <1>1, <3>2, <3>3, <3>4
    <3> HIDE DEF x
    <3> QED BY <3>1, <3>2, <3>5 DEF IInv, Typed
  <2>2. /\ \A t \in Sessions : t # s => session'[t] = session[t]
        /\ session'[s].pipe = Append(session[s].pipe, <<e, n>>)
        /\ session' = [t \in Sessions |-> session'[t]]
        /\ \A t \in Sessions : DOMAIN session'[t] = SessionFields
    <3> DEFINE value == [session[s] EXCEPT !.pipe = Append(session[s].pipe, <<e, n>>)]
    <3>1. session' = [session EXCEPT ![s] = value]
      BY <1>5
    <3>2. DOMAIN value = SessionFields /\ value.pipe = Append(session[s].pipe, <<e, n>>)
      BY DEF IInv, Typed, SessionFields
    <3> HIDE DEF value
    <3> QED BY <3>1, <3>2 DEF IInv, Typed
  <2>3. <<e, n>> \in Pieces
    BY <1>3 DEF Pieces
  <2> HIDE DEF n
  <2> DEFINE last == Len(Unread(s))
             piece == <<e, n>>
  <2>4. \A t \in Sessions \ {s} : Unread(t)' = Unread(t) /\ \A i \in 1 .. Len(Unread(t)) : Part(t, i)' = Part(t, i)
    BY <1>2, <2>2 DEF Unread, Part
  <2>5. /\ last \in Nat /\ Len(Unread(s))' = last + 1
        /\ \A i \in 1 .. last : Part(s, i)' = Part(s, i)
        /\ Unread(s)'[last + 1] = piece
    <3>1. server[s].line \in Seq(Pieces) /\ session[s].pipe \in Seq(Pieces) /\ Unread(s) \in Seq(Pieces)
      BY Sequences DEF IInv
    <3>2. Unread(s)' = server[s].line \o Append(session[s].pipe, piece)
      BY <1>2, <2>2 DEF Unread
    <3> HIDE DEF piece
    <3>3. piece \in Pieces
      BY <2>3 DEF piece
    <3>4. Unread(s)' = Append(Unread(s), piece)
      <4>1. server[s].line \o Append(session[s].pipe, piece) = Append(server[s].line \o session[s].pipe, piece)
        BY <3>1, <3>3, AppendToConcat, Zenon
      <4> QED BY <3>2, <4>1, Zenon DEF Unread
    <3>6. /\ Len(Append(Unread(s), piece)) = last + 1
          /\ \A i \in 1 .. last : Append(Unread(s), piece)[i] = Unread(s)[i]
          /\ Append(Unread(s), piece)[last + 1] = piece
      BY <3>1, <3>3, AppendProperties
    <3>5. last \in Nat /\ last + 1 \in Nat
      BY <3>1, LenProperties
    <3> HIDE DEF last
    <3> QED BY <3>4, <3>5, <3>6 DEF Part
  <2> HIDE DEF last
  <2>6. \A d \in Exchanges : LeftHalf(d) => LeftHalf(d)'
    BY <1>2, <2>1 DEF LeftHalf
  <2>7. \A d \in Exchanges : /\ exchange'[d].session = exchange[d].session
                             /\ exchange[d].written \in 0 .. 2 /\ exchange'[d].written \in 0 .. 2
                             /\ exchange[d].written <= exchange'[d].written
    <3>1. \A d \in Exchanges : exchange[d].written \in 0 .. 2 /\ exchange'[d].written \in 0 .. 2
      BY <2>1 DEF IInv, Typed
    <3> QED BY <1>1, <2>1, <3>1 DEF n
  <2>8. \A t \in Sessions : /\ Len(Unread(t)) \in Nat
                           /\ \A i \in 1 .. Len(Unread(t)) : Part(t, i)[1] \in Exchanges /\ Part(t, i)[2] \in Nat \ {0}
    BY Sequences DEF IInv
  <2>9. Typed'
    <3>1. Append(session[s].pipe, <<e, n>>) \in Seq(Pieces)
      BY <2>3, Sequences, AppendProperties DEF IInv
    <3> QED BY <1>2, <2>1, <2>2, <3>1 DEF IInv, Typed
  \* What the writer wrote last, if it has, is what the pipe holds last.
  <2>10. /\ n > 1 => last > 0 /\ Part(s, last) = <<e, n - 1>>
         /\ last > 0 => \/ Part(s, last)[2] >= setting.pieces
                        \/ LeftHalf(Part(s, last)[1])
                        \/ Part(s, last) = <<e, n - 1>>
    <3>1. Unread(s) # <<>> <=> last > 0
      BY Sequences, EmptySeq DEF IInv, last
    <3>2. n > 1 => last > 0 /\ Part(s, last) = <<e, n - 1>>
      BY <1>1, <1>2, <1>3, <3>1 DEF IInv, WriterIsLast, last, n
    <3>3. ASSUME last > 0
          PROVE  \/ Part(s, last)[2] >= setting.pieces \/ LeftHalf(Part(s, last)[1])
                 \/ Part(s, last) = <<e, n - 1>>
      <4>1. last \in 1 .. last /\ Part(s, last)[1] \in Exchanges /\ exchange[Part(s, last)[1]].session = s
        BY <2>5, <2>8, <3>3 DEF IInv, OwnParts, last
      <4>2. \/ Part(s, last)[2] >= setting.pieces \/ LeftHalf(Part(s, last)[1])
            \/ /\ exchange[Part(s, last)[1]].step = "writing"
               /\ exchange[Part(s, last)[1]].written = Part(s, last)[2]
        BY <1>5, <3>1, <3>3 DEF IInv, LastIsWritten, last
      <4>3. CASE /\ exchange[Part(s, last)[1]].step = "writing"
                 /\ exchange[Part(s, last)[1]].written = Part(s, last)[2]
        <5>1. Part(s, last)[1] = e
          BY <1>1, <1>2, <4>1, <4>3 DEF IInv, OneWriter
        <5>2. n > 1
          BY <1>3, <2>8, <4>1, <4>3, <5>1 DEF n, last
        <5> QED BY <3>2, <5>2
      <4> QED BY <4>2, <4>3
    <3> QED BY <3>2, <3>3
  <2>11. OwnParts'
    <3> SUFFICES ASSUME NEW t \in Sessions, NEW i \in 1 .. Len(Unread(t))'
                 PROVE  exchange'[Part(t, i)'[1]].session = t /\ Part(t, i)'[2] <= exchange'[Part(t, i)'[1]].written
      BY DEF OwnParts
    <3>1. CASE i \in 1 .. Len(Unread(t))
      <4>1. /\ exchange[Part(t, i)[1]].session = t /\ Part(t, i)[2] <= exchange[Part(t, i)[1]].written
            /\ Part(t, i)[1] \in Exchanges /\ Part(t, i)[2] \in Nat
        BY <2>8, <3>1 DEF IInv, OwnParts
      <4>2. Part(t, i)' = Part(t, i)
        BY <2>4, <2>5, <3>1 DEF last
      <4> QED BY <2>7, <4>1, <4>2
    <3>2. CASE i \notin 1 .. Len(Unread(t))
      <4>1. t = s /\ i = last + 1
        BY <2>4, <2>5, <3>2 DEF last
      <4>2. Part(t, i)' = <<e, n>>
        BY <2>5, <4>1 DEF Part, Unread
      <4> QED BY <1>3, <2>1, <4>1, <4>2
    <3> QED BY <3>1, <3>2
  <2>12. PartsFollow'
    <3> SUFFICES ASSUME NEW t \in Sessions, NEW i \in 1 .. Len(Unread(t))', Part(t, i)'[2] > 1
                 PROVE  i > 1 /\ Part(t, i - 1)' = <<Part(t, i)'[1], Part(t, i)'[2] - 1>>
      BY DEF PartsFollow
    <3>1. CASE i \in 1 .. Len(Unread(t))
      <4>1. Part(t, i)' = Part(t, i)
        BY <2>4, <2>5, <3>1 DEF last
      <4>2. i > 1 /\ Part(t, i - 1) = <<Part(t, i)[1], Part(t, i)[2] - 1>>
        BY <3>1, <4>1 DEF IInv, PartsFollow
      <4>3. i - 1 \in 1 .. Len(Unread(t))
        BY <2>8, <3>1, <4>2
      <4> QED BY <2>4, <2>5, <4>1, <4>2, <4>3 DEF last
    <3>2. CASE i \notin 1 .. Len(Unread(t))
      <4>1. t = s /\ i = last + 1
        BY <2>4, <2>5, <3>2 DEF last
      <4>2. Part(t, i)' = <<e, n>>
        BY <2>5, <4>1 DEF Part, Unread
      <4>3. n > 1 /\ last \in 1 .. last /\ Part(s, last) = <<e, n - 1>>
        BY <2>5, <2>10, <4>2
      <4>4. Part(t, i - 1)' = <<e, n - 1>>
        <5>1. i - 1 = last
          BY <2>5, <4>1
        <5>2. \A k \in 1 .. last : Part(s, k)' = Part(s, k)
          BY <2>5
        <5>3. Unread(s)'[last] = <<e, n - 1>>
          BY <4>3, <5>2 DEF Part
        <5> QED BY <4>1, <5>1, <5>3 DEF Part, Unread
      <4>5. i > 1
        <5>1. last \in Nat /\ last > 0
          BY <2>5, <4>3
        <5> QED BY <4>1, <5>1
      <4> QED BY <4>2, <4>4, <4>5
    <3> QED BY <3>1, <3>2
  <2>13. LinesFollow'
    <3> SUFFICES ASSUME NEW t \in Sessions, NEW i \in 1 .. Len(Unread(t))' - 1
                 PROVE  \/ Part(t, i)'[2] >= setting.pieces
                        \/ Part(t, i + 1)' = <<Part(t, i)'[1], Part(t, i)'[2] + 1>>
                        \/ LeftHalf(Part(t, i)[1])'
      BY <1>2 DEF LinesFollow
    <3>1. i \in 1 .. Len(Unread(t)) /\ Part(t, i)' = Part(t, i) /\ Part(t, i)[1] \in Exchanges
      BY <2>4, <2>5, <2>8 DEF last
    <3>2. LeftHalf(Part(t, i)[1]) => LeftHalf(Part(t, i)[1])'
      BY <2>6, <3>1
    <3>3. CASE i \in 1 .. Len(Unread(t)) - 1
      <4>1. i + 1 \in 1 .. Len(Unread(t))
        BY <2>8, <3>3
      <4>2. Part(t, i + 1)' = Part(t, i + 1)
        BY <2>4, <2>5, <4>1 DEF last
      <4> QED BY <3>1, <3>2, <3>3, <4>2 DEF IInv, LinesFollow
    <3>4. CASE i \notin 1 .. Len(Unread(t)) - 1
      <4>1. t = s /\ i = last /\ last > 0
        BY <2>4, <2>5, <2>8, <3>1, <3>4 DEF last
      <4>2. Part(t, i + 1)' = <<e, n>>
        <5>1. i + 1 = last + 1
          BY <4>1
        <5> QED BY <2>5, <4>1, <5>1 DEF Part, Unread
      <4>3. \/ Part(t, i)[2] >= setting.pieces \/ LeftHalf(Part(t, i)[1])
            \/ Part(t, i) = <<e, n - 1>>
        BY <2>10, <4>1
      <4> QED BY <1>3, <3>1, <3>2, <4>2, <4>3
    <3> QED BY <3>3, <3>4
  <2>14. LastIsWritten'
    <3> SUFFICES ASSUME NEW t \in Sessions, server'[t].state = "running", Unread(t)' # <<>>,
                        NEW part, part = Part(t, Len(Unread(t)))'
                 PROVE  \/ part[2] >= setting.pieces
                        \/ LeftHalf(part[1])'
                        \/ exchange'[part[1]].step = "writing" /\ exchange'[part[1]].written = part[2]
      BY <1>2 DEF LastIsWritten
    <3>1. CASE t = s
      <4>1. part = <<e, n>>
        BY <2>5, <3>1 DEF Part, Unread
      <4> QED BY <1>3, <2>1, <4>1
    <3>2. CASE t # s
      <4>1. Unread(t)' = Unread(t) /\ Unread(t) # <<>> /\ Len(Unread(t)) \in 1 .. Len(Unread(t))
        BY <2>4, <3>2, Sequences, EmptySeq DEF IInv
      <4>2. part = Part(t, Len(Unread(t)))
        BY <4>1 DEF Part
      <4>3. part[1] \in Exchanges /\ exchange[part[1]].session = t
        BY <2>8, <4>1, <4>2 DEF IInv, OwnParts
      <4>4. part[1] # e /\ exchange'[part[1]] = exchange[part[1]]
        BY <1>1, <2>1, <3>2, <4>3
      <4>5. \/ part[2] >= setting.pieces \/ LeftHalf(part[1])
            \/ exchange[part[1]].step = "writing" /\ exchange[part[1]].written = part[2]
        BY <1>2, <4>1, <4>2 DEF IInv, LastIsWritten
      <4> QED BY <2>6, <4>3, <4>4, <4>5
    <3> QED BY <3>1, <3>2
  <2>15. WriterIsLast'
    <3> SUFFICES ASSUME NEW t \in Sessions, NEW d \in Exchanges,
                        exchange'[d].step = "writing", exchange'[d].session = t
                 PROVE  /\ exchange'[d].written < setting.pieces
                        /\ exchange'[d].written > 0 =>
                              Unread(t)' # <<>> /\ Part(t, Len(Unread(t)))' = <<d, exchange'[d].written>>
      BY <1>2 DEF WriterIsLast
    <3>1. CASE d = e
      <4>1. t = s /\ exchange'[d].written = n /\ n < setting.pieces
        BY <2>1, <3>1
      <4>2. Unread(t)' # <<>>
        <5>1. Len(Unread(t))' = last + 1 /\ last \in Nat
          BY <2>5, <4>1 DEF Unread
        <5> QED BY <5>1
      <4>3. Part(t, Len(Unread(t)))' = <<e, n>>
        BY <2>5, <4>1 DEF Part, Unread
      <4> QED BY <3>1, <4>1, <4>2, <4>3
    <3>2. CASE d # e
      <4>1. exchange'[d] = exchange[d] /\ t # s
        BY <1>1, <1>2, <2>1, <3>2 DEF IInv, OneWriter
      <4>2. /\ exchange[d].written < setting.pieces
            /\ exchange[d].written > 0 =>
                  Unread(t) # <<>> /\ Part(t, Len(Unread(t))) = <<d, exchange[d].written>>
        BY <4>1 DEF IInv, WriterIsLast
      <4>3. Unread(t)' = Unread(t)
        BY <2>4, <4>1
      <4> QED BY <4>1, <4>2, <4>3 DEF Part
    <3> QED BY <3>1, <3>2
  <2>16. NotYetALine' /\ LinesAreWhole'
    <3>1. NotYetALine'
      BY <1>2 DEF IInv, NotYetALine
    <3>2. LinesAreWhole'
      <4> SUFFICES ASSUME NEW t \in Sessions, NEW mixed \in server[t].garbled
                   PROVE  \E d \in mixed : LeftHalf(d)'
        BY <1>2 DEF LinesAreWhole, LeftHalf
      <4>1. mixed \subseteq Exchanges
        BY DEF IInv, Typed
      <4>2. PICK d \in mixed : LeftHalf(d)
        BY DEF IInv, LinesAreWhole, LeftHalf
      <4> QED BY <2>6, <4>1, <4>2
    <3> QED BY <3>1, <3>2
  <2>17. OneWriter'
    BY <1>2, <2>1, <2>7 DEF IInv, OneWriter
  <2>18. FreshPipes'
    <3> SUFFICES ASSUME NEW t \in Sessions, server[t].state = "none" PROVE Unread(t)' = <<>>
      BY <1>2 DEF FreshPipes
    <3> QED BY <1>5, <2>4 DEF IInv, FreshPipes
  <2>19. Unwritten'
    BY <1>2, <1>3, <2>1 DEF IInv, Unwritten
  <2> QED BY <2>9, <2>11, <2>12, <2>13, <2>14, <2>15, <2>16, <2>17, <2>18, <2>19 DEF IInv
<1> QED BY <1>1, <1>4, <1>5 DEF Write, Changed

-----------------------------------------------------------------------------
(* The server reads the next part. *)

\* The part that is read moves from the pipe to the line.
LEMMA Rejoined ==
    \A u, v \in Seq(Pieces) : v # <<>> => Append(u, Head(v)) \o Tail(v) = u \o v
<1> SUFFICES ASSUME NEW u \in Seq(Pieces), NEW v \in Seq(Pieces), v # <<>>
             PROVE  Append(u, Head(v)) \o Tail(v) = u \o v
  OBVIOUS
<1>1. /\ Head(v) \in Pieces /\ Tail(v) \in Seq(Pieces) /\ <<Head(v)>> \in Seq(Pieces)
      /\ v = <<Head(v)>> \o Tail(v)
  OBVIOUS
<1>2. Append(u, Head(v)) = u \o <<Head(v)>>
  BY <1>1, AppendIsConcat
<1> QED BY <1>1, <1>2, ConcatAssociative

\* Where the part that is read next stands among the unread ones.
LEMMA Positions ==
    ASSUME IInv, NEW s \in Sessions, session[s].pipe # <<>>,
           NEW last, last = Len(server[s].line)
    PROVE  /\ last \in Nat /\ last + 1 \in 1 .. Len(Unread(s)) /\ Len(Unread(s)) \in Nat
           /\ Part(s, last + 1) = Head(session[s].pipe)
           /\ Head(session[s].pipe) \in Pieces /\ Tail(session[s].pipe) \in Seq(Pieces)
           /\ Len(Tail(session[s].pipe)) = Len(Unread(s)) - (last + 1)
           /\ \A i \in 1 .. Len(Unread(s)) - (last + 1) :
                 Tail(session[s].pipe)[i] = Part(s, i + last + 1)
           /\ \A i \in 1 .. last : Part(s, i) = server[s].line[i]
<1> DEFINE pipe == session[s].pipe
           line == server[s].line
<1>1. /\ line \in Seq(Pieces) /\ pipe \in Seq(Pieces) /\ Len(Unread(s)) = Len(line) + Len(pipe)
      /\ Unread(s) = line \o pipe
  BY Sequences DEF IInv, Unread
<1> HIDE DEF pipe, line
<1>2. \A i \in 1 .. Len(line) + Len(pipe) : (line \o pipe)[i] = IF i <= Len(line) THEN line[i] ELSE pipe[i - Len(line)]
  BY <1>1, ConcatProperties
<1>3. Len(line) \in Nat /\ Len(pipe) \in Nat \ {0}
  BY <1>1 DEF pipe
<1>4. /\ Head(pipe) = pipe[1] /\ Head(pipe) \in Pieces /\ Tail(pipe) \in Seq(Pieces)
      /\ Len(Tail(pipe)) = Len(pipe) - 1
      /\ \A i \in 1 .. Len(Tail(pipe)) : Tail(pipe)[i] = pipe[i + 1]
  BY <1>1, HeadTailProperties DEF pipe
<1>5. last \in Nat /\ last + 1 \in 1 .. Len(Unread(s)) /\ Len(Unread(s)) \in Nat
  BY <1>1, <1>3 DEF line
<1>6. Part(s, last + 1) = Head(pipe)
  BY <1>1, <1>2, <1>3, <1>4 DEF Part, line
<1>7. \A i \in 1 .. Len(Unread(s)) - (last + 1) : Tail(pipe)[i] = Part(s, i + last + 1)
  BY <1>1, <1>2, <1>3, <1>4 DEF Part, line
<1>8. \A i \in 1 .. last : Part(s, i) = line[i]
  BY <1>1, <1>2, <1>3 DEF Part, line
<1>9. Len(Tail(pipe)) = Len(Unread(s)) - (last + 1)
  BY <1>1, <1>3, <1>4 DEF line
<1> QED BY <1>4, <1>5, <1>6, <1>7, <1>8, <1>9 DEF pipe, line

\* What becomes of the line when its last part is read: it is whole, or a
\* client left it in the middle.
LEMMA LineEnds ==
    ASSUME IInv, NEW s \in Sessions, session[s].pipe # <<>>,
           Head(session[s].pipe)[2] = setting.pieces,
           NEW line, line = Append(server[s].line, Head(session[s].pipe))
    PROVE  \/ line = [k \in 1 .. setting.pieces |-> <<Head(session[s].pipe)[1], k>>]
           \/ \E i \in DOMAIN line : LeftHalf(line[i][1])
<1> DEFINE piece == Head(session[s].pipe)
           last  == Len(server[s].line)
<1>1. /\ last \in Nat /\ last + 1 \in 1 .. Len(Unread(s)) /\ Len(Unread(s)) \in Nat
      /\ Part(s, last + 1) = piece /\ piece \in Pieces
      /\ \A i \in 1 .. last : Part(s, i) = server[s].line[i]
  BY Positions
<1>2. /\ server[s].line \in Seq(Pieces) /\ Len(line) = last + 1 /\ DOMAIN line = 1 .. last + 1
      /\ \A i \in 1 .. last : line[i] = server[s].line[i]
      /\ line[last + 1] = piece /\ line \in Seq(Pieces)
  <2>1. server[s].line \in Seq(Pieces)
    BY Sequences DEF IInv
  <2> HIDE DEF piece
  <2>2. /\ line \in Seq(Pieces) /\ Len(line) = last + 1
        /\ \A i \in 1 .. last : line[i] = server[s].line[i]
        /\ line[last + 1] = piece
    BY <1>1, <2>1, AppendProperties DEF piece
  <2>3. DOMAIN line = 1 .. last + 1
    BY <2>2, LenProperties
  <2> QED BY <2>1, <2>2, <2>3
<1>3. \A i \in 1 .. last : server[s].line[i][2] < setting.pieces /\ server[s].line[i][2] \in Nat \ {0}
  <2>1. \A i \in 1 .. last : Part(s, i)[2] \in Nat \ {0}
    <3>1. \A i \in 1 .. Len(Unread(s)) : Part(s, i)[2] \in Nat \ {0}
      BY Sequences DEF IInv
    <3> HIDE DEF last
    <3> QED BY <1>1, <3>1
  <2>2. \A i \in 1 .. last : server[s].line[i][2] < setting.pieces
    BY DEF IInv, NotYetALine
  <2>3. \A i \in 1 .. last : Part(s, i) = server[s].line[i]
    BY <1>1
  <2> HIDE DEF last
  <2> QED BY <2>1, <2>2, <2>3
<1>4. piece = <<piece[1], setting.pieces>>
  BY <1>1 DEF Pieces
<1> HIDE DEF piece, last
<1>5. CASE setting.pieces = 1
  <2>1. last = 0
    BY <1>1, <1>3, <1>5
  <2> QED BY <1>2, <1>4, <1>5, <2>1 DEF piece
<1>6. CASE setting.pieces = 2
  <2>1. last >= 1 /\ Part(s, last) = <<piece[1], 1>>
    <3>1. Part(s, last + 1)[2] > 1
      BY <1>1, <1>4, <1>6
    <3>2. last + 1 > 1 /\ Part(s, last + 1 - 1) = <<Part(s, last + 1)[1], Part(s, last + 1)[2] - 1>>
      BY <1>1, <3>1 DEF IInv, PartsFollow
    <3>3. last + 1 - 1 = last
      BY <1>1
    <3> QED BY <1>1, <1>4, <1>6, <3>2, <3>3
  <2>2. CASE last = 1
    <3>1. line[1] = <<piece[1], 1>> /\ line[2] = <<piece[1], 2>> /\ Len(line) = 2
      BY <1>1, <1>2, <1>4, <1>6, <2>1, <2>2
    <3>2. line = [k \in 1 .. 2 |-> line[k]]
      <4>1. line \in Seq(Pieces) /\ Len(line) = 2
        BY <1>2, <3>1
      <4>2. line \in [1 .. 2 -> Pieces]
        BY <4>1, LenProperties
      <4> QED BY <4>2
    <3>3. \A k \in 1 .. 2 : line[k] = <<piece[1], k>>
      BY <3>1
    <3>4. line = [k \in 1 .. 2 |-> <<piece[1], k>>]
      BY <3>2, <3>3
    <3> QED BY <1>6, <3>4 DEF piece
  <2>3. CASE last # 1
    <3>1. 1 \in 1 .. last /\ 2 \in 1 .. last /\ 1 \in 1 .. Len(Unread(s)) - 1
      BY <1>1, <2>1, <2>3
    <3>2. Part(s, 1)[2] < 2 /\ Part(s, 1)[2] \in Nat \ {0} /\ Part(s, 2)[2] < 2
      BY <1>1, <1>3, <1>6, <3>1
    <3>3. \/ Part(s, 1)[2] >= setting.pieces
          \/ Part(s, 1 + 1) = <<Part(s, 1)[1], Part(s, 1)[2] + 1>>
          \/ LeftHalf(Part(s, 1)[1])
      BY <3>1 DEF IInv, LinesFollow
    <3>4. LeftHalf(Part(s, 1)[1])
      BY <1>6, <3>2, <3>3
    <3>5. 1 \in DOMAIN line /\ line[1] = Part(s, 1)
      BY <1>1, <1>2, <3>1
    <3> QED BY <3>4, <3>5
  <2> QED BY <2>2, <2>3
<1>7. setting.pieces = 1 \/ setting.pieces = 2
  BY PiecesOfALine DEF IInv
<1> QED BY <1>5, <1>6, <1>7, Zenon

LEMMA ReadKeeps == ASSUME IInv, NEW s \in Sessions, Read(s) PROVE IInv'
<1> DEFINE piece == Head(session[s].pipe)
           line  == Append(server[s].line, piece)
<1>1. /\ setting' = setting /\ exchange' = exchange /\ server[s].state = "running"
      /\ session[s].pipe # <<>> /\ session' = [session EXCEPT ![s].pipe = Tail(session[s].pipe)]
  BY DEF Read, Changed
<1>2. /\ server[s].line \in Seq(Pieces) /\ session[s].pipe \in Seq(Pieces) /\ Unread(s) \in Seq(Pieces)
      /\ Unread(s) = server[s].line \o session[s].pipe
  BY Sequences DEF IInv, Unread
<1>3. /\ piece \in Pieces /\ line \in Seq(Pieces) /\ Tail(session[s].pipe) \in Seq(Pieces)
  BY <1>1, <1>2, HeadTailProperties, AppendProperties
<1>4. /\ \A t \in Sessions : t # s => session'[t] = session[t]
      /\ session'[s].pipe = Tail(session[s].pipe)
      /\ session' = [t \in Sessions |-> session'[t]]
      /\ \A t \in Sessions : DOMAIN session'[t] = SessionFields
  <2> DEFINE value == [session[s] EXCEPT !.pipe = Tail(session[s].pipe)]
  <2>1. session' = [session EXCEPT ![s] = value]
    BY <1>1
  <2>2. DOMAIN value = SessionFields /\ value.pipe = Tail(session[s].pipe)
    BY DEF IInv, Typed, SessionFields
  <2> HIDE DEF value
  <2> QED BY <2>1, <2>2 DEF IInv, Typed
<1>5. CASE piece[2] # setting.pieces
  <2>1. server' = [server EXCEPT ![s] = [server[s] EXCEPT !.line = line]]
    BY <1>5 DEF Read
  <2> DEFINE value == [server[s] EXCEPT !.line = line]
  <2>2. /\ value \in [state: {"none", "running", "exited"}, line: Seq(Pieces),
                      garbled: SUBSET (SUBSET Exchanges), owes: SUBSET (Exchanges \X Nat)]
        /\ value.line = line /\ value.garbled = server[s].garbled /\ value.state = server[s].state
    BY <1>3 DEF IInv, Typed
  <2> HIDE DEF value
  <2>3. Typed'
    BY <1>1, <1>3, <1>4, <2>1, <2>2 DEF IInv, Typed, value
  <2>4. /\ \A t \in Sessions : t # s => server'[t] = server[t]
        /\ server'[s] = value
    BY <2>1 DEF IInv, Typed, value
  <2>5. \A t \in Sessions : Unread(t)' = Unread(t)
    <3>1. line \o Tail(session[s].pipe) = server[s].line \o session[s].pipe
      BY <1>1, <1>2, Rejoined
    <3> HIDE DEF line
    <3> QED BY <1>4, <2>2, <2>4, <3>1 DEF Unread
  <2>6. NotYetALine'
    <3>1. piece[2] < setting.pieces
      <4> DEFINE last == Len(server[s].line)
      <4>1. last + 1 \in 1 .. Len(Unread(s)) /\ Part(s, last + 1) = piece
        BY <1>1, Positions
      <4>2. /\ piece[1] \in Exchanges /\ piece[2] \in Nat \ {0}
            /\ piece[2] <= exchange[piece[1]].written
        BY <4>1, Sequences DEF IInv, OwnParts
      <4>3. exchange[piece[1]].written \in 0 .. 2 /\ exchange[piece[1]].written <= setting.pieces
        BY <4>2 DEF IInv, Typed, Unwritten
      <4> QED BY <1>5, <4>2, <4>3, PiecesOfALine DEF IInv
    <3>2. \A i \in 1 .. Len(line) : line[i][2] < setting.pieces
      <4>1. /\ Len(line) = Len(server[s].line) + 1 /\ Len(server[s].line) \in Nat
            /\ \A i \in 1 .. Len(server[s].line) : line[i] = server[s].line[i]
            /\ line[Len(server[s].line) + 1] = piece
        BY <1>2, <1>3, AppendProperties, LenProperties
      <4>2. \A i \in 1 .. Len(server[s].line) : server[s].line[i][2] < setting.pieces
        BY DEF IInv, NotYetALine
      <4> DEFINE last == Len(server[s].line)
      <4> HIDE DEF line, piece, last
      <4>3. \A i \in 1 .. Len(line) : i = last + 1 \/ i \in 1 .. last
        BY <4>1 DEF last
      <4> QED BY <3>1, <4>1, <4>2, <4>3 DEF last
    <3> HIDE DEF line
    <3> QED BY <1>1, <2>2, <2>4, <3>2 DEF IInv, NotYetALine
  <2>7. UnreadStays
    BY <2>2, <2>4, <2>5, <2>6 DEF UnreadStays
  <2>8. 1 \in Exchanges /\ exchange' = [exchange EXCEPT ![1] = exchange[1]]
    BY <1>1, BridgeAssumption DEF Exchanges, IInv, Typed
  <2> QED BY <1>1, <2>3, <2>7, <2>8, StandsStill, NothingEnds
<1>6. CASE piece[2] = setting.pieces
  <2> DEFINE whole == line = [k \in 1 .. setting.pieces |-> <<piece[1], k>>]
             mixed == {line[i][1] : i \in DOMAIN line}
  <2>1. /\ whole => server' = [server EXCEPT ![s] =
                        [server[s] EXCEPT !.line = <<>>, !.owes = server[s].owes \union Ids(piece[1])]]
        /\ ~whole => server' = [server EXCEPT ![s] =
                        [server[s] EXCEPT !.line = <<>>, !.garbled = server[s].garbled \union {mixed}]]
    BY <1>6 DEF Read
  <2>2. mixed \subseteq Exchanges /\ Ids(piece[1]) \subseteq Exchanges \X Nat
    <3>1. \A i \in DOMAIN line : line[i] \in Pieces
      BY <1>3, ElementOfSeq, LenProperties
    <3>2. piece[1] \in Exchanges
      BY <1>3 DEF Pieces
    <3>3. Ids(piece[1]) \subseteq Exchanges \X Nat
      BY <3>2 DEF Ids
    <3> HIDE DEF line
    <3> QED BY <3>1, <3>3 DEF Pieces
  <2>3. ~whole => \E d \in mixed : LeftHalf(d)
    BY <1>1, <1>6, LineEnds
  <2> HIDE DEF mixed, whole
  <2>4. /\ \A t \in Sessions : t # s => server'[t] = server[t]
        /\ server'[s].line = <<>> /\ server'[s].state = server[s].state
        /\ server'[s].garbled \subseteq server[s].garbled \union (IF whole THEN {} ELSE {mixed})
        /\ server' \in [Sessions -> [state: {"none", "running", "exited"}, line: Seq(Pieces),
                                     garbled: SUBSET (SUBSET Exchanges), owes: SUBSET (Exchanges \X Nat)]]
    <3>1. server[s] \in [state: {"none", "running", "exited"}, line: Seq(Pieces),
                         garbled: SUBSET (SUBSET Exchanges), owes: SUBSET (Exchanges \X Nat)]
      BY DEF IInv, Typed
    <3>2. PICK value : /\ server' = [server EXCEPT ![s] = value]
                       /\ value \in [state: {"none", "running", "exited"}, line: Seq(Pieces),
                                     garbled: SUBSET (SUBSET Exchanges), owes: SUBSET (Exchanges \X Nat)]
                       /\ value.line = <<>> /\ value.state = server[s].state
                       /\ value.garbled \subseteq server[s].garbled \union (IF whole THEN {} ELSE {mixed})
      <4>1. CASE whole
        <5> DEFINE owes  == server[s].owes \union Ids(piece[1])
                   value == [server[s] EXCEPT !.line = <<>>, !.owes = owes]
        <5>a. owes \in SUBSET (Exchanges \X Nat) /\ <<>> \in Seq(Pieces)
          BY <2>2, <3>1
        <5>1. /\ value \in [state: {"none", "running", "exited"}, line: Seq(Pieces),
                            garbled: SUBSET (SUBSET Exchanges), owes: SUBSET (Exchanges \X Nat)]
              /\ value.line = <<>> /\ value.state = server[s].state /\ value.garbled = server[s].garbled
          <6> HIDE DEF owes
          <6> QED BY <3>1, <5>a
        <5>2. server' = [server EXCEPT ![s] = value]
          BY <2>1, <4>1
        <5> HIDE DEF value
        <5> QED BY <5>1, <5>2
      <4>2. CASE ~whole
        <5> DEFINE garbled == server[s].garbled \union {mixed}
                   value   == [server[s] EXCEPT !.line = <<>>, !.garbled = garbled]
        <5>a. garbled \in SUBSET (SUBSET Exchanges) /\ <<>> \in Seq(Pieces)
          BY <2>2, <3>1
        <5>1. /\ value \in [state: {"none", "running", "exited"}, line: Seq(Pieces),
                            garbled: SUBSET (SUBSET Exchanges), owes: SUBSET (Exchanges \X Nat)]
              /\ value.line = <<>> /\ value.state = server[s].state
              /\ value.garbled = garbled
          <6> HIDE DEF garbled
          <6> QED BY <3>1, <5>a
        <5>2. server' = [server EXCEPT ![s] = value]
          BY <2>1, <4>2
        <5> HIDE DEF value
        <5> QED BY <4>2, <5>1, <5>2
      <4> QED BY <4>1, <4>2
    <3> QED BY <3>2 DEF IInv, Typed
  <2>5. Typed'
    BY <1>1, <1>3, <1>4, <2>4 DEF IInv, Typed
  <2>6. \A t \in Sessions : Len(Unread(t)) \in Nat
                           /\ \A i \in 1 .. Len(Unread(t)) : Part(t, i)[1] \in Exchanges /\ Part(t, i)[2] \in Nat \ {0}
    BY Sequences DEF IInv
  \* What was unread is, but for the parts up to the last one of a line.
  <2>7. ASSUME NEW t \in Sessions
        PROVE  \E k \in 0 .. Len(Unread(t)) :
                  /\ Len(Unread(t))' = Len(Unread(t)) - k
                  /\ \A i \in 1 .. Len(Unread(t)) - k : Part(t, i)' = Part(t, i + k)
                  /\ k > 0 => Part(t, k)[2] = setting.pieces
    <3>1. CASE t # s
      <4>1. Unread(t)' = Unread(t)
        BY <1>4, <2>4, <3>1 DEF Unread
      <4> QED BY <2>6, <4>1 DEF Part
    <3>2. CASE t = s
      <4> DEFINE last == Len(server[s].line)
      <4>1. /\ last \in Nat /\ last + 1 \in 1 .. Len(Unread(s)) /\ Part(s, last + 1) = piece
            /\ Len(Tail(session[s].pipe)) = Len(Unread(s)) - (last + 1)
            /\ \A i \in 1 .. Len(Unread(s)) - (last + 1) : Tail(session[s].pipe)[i] = Part(s, i + last + 1)
        BY <1>1, Positions
      <4>2. Unread(s)' = Tail(session[s].pipe)
        BY <1>3, <1>4, <2>4, ConcatEmptySeq DEF Unread
      <4> HIDE DEF last, piece
      <4>3. last + 1 \in 0 .. Len(Unread(s)) /\ last + 1 > 0
        BY <2>6, <4>1
      <4>4. \A i \in 1 .. Len(Unread(s)) - (last + 1) : Unread(s)'[i] = Part(s, i + (last + 1))
        BY <2>6, <4>1, <4>2
      <4> QED BY <1>6, <3>2, <4>1, <4>2, <4>3, <4>4 DEF Part
    <3> QED BY <3>1, <3>2
  <2> HIDE DEF piece, line
  <2>8. ASSUME NEW t \in Sessions, NEW i \in 1 .. Len(Unread(t)) PROVE Part(t, i)[2] <= setting.pieces
    <3>1. /\ Part(t, i)[1] \in Exchanges /\ Part(t, i)[2] \in Nat
          /\ Part(t, i)[2] <= exchange[Part(t, i)[1]].written
      BY <2>6 DEF IInv, OwnParts
    <3>2. /\ exchange[Part(t, i)[1]].written \in 0 .. 2
          /\ exchange[Part(t, i)[1]].written <= setting.pieces
      BY <3>1 DEF IInv, Typed, Unwritten
    <3> QED BY <3>1, <3>2, PiecesOfALine DEF IInv
  <2>9. OwnParts'
    <3> SUFFICES ASSUME NEW t \in Sessions, NEW i \in 1 .. Len(Unread(t))'
                 PROVE  exchange[Part(t, i)'[1]].session = t /\ Part(t, i)'[2] <= exchange[Part(t, i)'[1]].written
      BY <1>1 DEF OwnParts
    <3>1. PICK k \in 0 .. Len(Unread(t)) :
             i \in 1 .. Len(Unread(t)) - k /\ Part(t, i)' = Part(t, i + k)
      BY <2>7
    <3>2. i + k \in 1 .. Len(Unread(t))
      BY <2>6, <3>1
    <3> QED BY <3>1, <3>2 DEF IInv, OwnParts
  <2>10. PartsFollow'
    <3> SUFFICES ASSUME NEW t \in Sessions, NEW i \in 1 .. Len(Unread(t))', Part(t, i)'[2] > 1
                 PROVE  i > 1 /\ Part(t, i - 1)' = <<Part(t, i)'[1], Part(t, i)'[2] - 1>>
      BY DEF PartsFollow
    <3>1. PICK k \in 0 .. Len(Unread(t)) :
             /\ Len(Unread(t))' = Len(Unread(t)) - k
             /\ \A j \in 1 .. Len(Unread(t)) - k : Part(t, j)' = Part(t, j + k)
             /\ k > 0 => Part(t, k)[2] = setting.pieces
      BY <2>7
    <3>2. i \in 1 .. Len(Unread(t)) - k /\ i + k \in 1 .. Len(Unread(t)) /\ Part(t, i)' = Part(t, i + k)
      BY <2>6, <3>1
    <3>3. i + k > 1 /\ Part(t, i + k - 1) = <<Part(t, i + k)[1], Part(t, i + k)[2] - 1>>
      BY <3>2 DEF IInv, PartsFollow
    <3>4. i > 1
      <4> SUFFICES ASSUME i = 1 PROVE FALSE
        BY <3>2
      <4>1. k > 0 /\ i + k - 1 = k
        BY <3>3
      <4>2. Part(t, k) = <<Part(t, i + k)[1], Part(t, i + k)[2] - 1>>
        BY <3>3, <4>1
      <4>3. Part(t, i + k)[2] - 1 = setting.pieces
        BY <3>1, <4>1, <4>2
      <4>4. Part(t, i + k)[2] <= setting.pieces /\ Part(t, i + k)[2] \in Nat
        BY <2>6, <2>8, <3>2
      <4> QED BY <4>3, <4>4, PiecesOfALine DEF IInv
    <3>5. i - 1 \in 1 .. Len(Unread(t)) - k /\ i - 1 + k = i + k - 1
      BY <2>6, <3>2, <3>4
    <3>6. Part(t, i - 1)' = Part(t, i + k - 1)
      BY <3>1, <3>5
    <3> QED BY <3>2, <3>3, <3>4, <3>6
  <2>11. LinesFollow'
    <3> SUFFICES ASSUME NEW t \in Sessions, NEW i \in 1 .. Len(Unread(t))' - 1
                 PROVE  \/ Part(t, i)'[2] >= setting.pieces
                        \/ Part(t, i + 1)' = <<Part(t, i)'[1], Part(t, i)'[2] + 1>>
                        \/ LeftHalf(Part(t, i)[1])'
      BY <1>1 DEF LinesFollow
    <3>1. PICK k \in 0 .. Len(Unread(t)) :
             /\ Len(Unread(t))' = Len(Unread(t)) - k
             /\ \A j \in 1 .. Len(Unread(t)) - k : Part(t, j)' = Part(t, j + k)
      BY <2>7
    <3>2. /\ i \in 1 .. Len(Unread(t)) - k /\ i + 1 \in 1 .. Len(Unread(t)) - k
          /\ i + k \in 1 .. Len(Unread(t)) - 1 /\ i + 1 + k = i + k + 1
      BY <2>6, <3>1
    <3>3. Part(t, i)' = Part(t, i + k) /\ Part(t, i + 1)' = Part(t, i + k + 1)
      BY <3>1, <3>2
    <3>4. \/ Part(t, i + k)[2] >= setting.pieces
          \/ Part(t, i + k + 1) = <<Part(t, i + k)[1], Part(t, i + k)[2] + 1>>
          \/ LeftHalf(Part(t, i + k)[1])
      BY <3>2 DEF IInv, LinesFollow
    <3> QED BY <1>1, <3>3, <3>4 DEF LeftHalf
  \* The last part stays the last, as long as any is left.
  <2>b. ASSUME NEW t \in Sessions, Unread(t)' # <<>>
        PROVE  Unread(t) # <<>> /\ Part(t, Len(Unread(t)))' = Part(t, Len(Unread(t)))
    <3>1. PICK k \in 0 .. Len(Unread(t)) :
             /\ Len(Unread(t))' = Len(Unread(t)) - k
             /\ \A j \in 1 .. Len(Unread(t)) - k : Part(t, j)' = Part(t, j + k)
      BY <2>7
    <3>2. Len(Unread(t))' > 0
      <4>1. server'[t].line \in Seq(Pieces) /\ session'[t].pipe \in Seq(Pieces)
        BY <2>5 DEF Typed
      <4>2. Unread(t)' \in Seq(Pieces)
        BY <4>1, ConcatProperties DEF Unread
      <4> QED BY <2>b, <4>2
    <3>3. PICK j : j = Len(Unread(t))'
      OBVIOUS
    <3>4. j \in 1 .. Len(Unread(t)) - k /\ j + k = Len(Unread(t)) /\ Len(Unread(t)) > 0
      BY <2>6, <3>1, <3>2, <3>3
    <3>5. Part(t, j)' = Part(t, j + k)
      BY <3>1, <3>4
    <3>6. Unread(t) # <<>>
      BY <3>4
    <3> QED BY <3>3, <3>4, <3>5, <3>6 DEF Part
  <2>12. LastIsWritten'
    <3> SUFFICES ASSUME NEW t \in Sessions, server'[t].state = "running", Unread(t)' # <<>>,
                        NEW part, part = Part(t, Len(Unread(t)))'
                 PROVE  \/ part[2] >= setting.pieces \/ LeftHalf(part[1])
                        \/ exchange[part[1]].step = "writing" /\ exchange[part[1]].written = part[2]
      BY <1>1 DEF LastIsWritten, LeftHalf
    <3>1. Unread(t) # <<>> /\ part = Part(t, Len(Unread(t)))
      BY <2>b
    <3> QED BY <2>4, <3>1 DEF IInv, LastIsWritten
  <2>13. WriterIsLast'
    <3> SUFFICES ASSUME NEW t \in Sessions, NEW d \in Exchanges,
                        exchange[d].step = "writing", exchange[d].session = t
                 PROVE  /\ exchange[d].written < setting.pieces
                        /\ exchange[d].written > 0 =>
                              Unread(t)' # <<>> /\ Part(t, Len(Unread(t)))' = <<d, exchange[d].written>>
      BY <1>1 DEF WriterIsLast
    <3>1. /\ exchange[d].written < setting.pieces
          /\ exchange[d].written > 0 =>
                Unread(t) # <<>> /\ Part(t, Len(Unread(t))) = <<d, exchange[d].written>>
      BY DEF IInv, WriterIsLast
    <3>2. ASSUME exchange[d].written > 0 PROVE Unread(t)' # <<>>
      <4>1. PICK k \in 0 .. Len(Unread(t)) :
               Len(Unread(t))' = Len(Unread(t)) - k /\ (k > 0 => Part(t, k)[2] = setting.pieces)
        BY <2>7
      <4>2. Len(Unread(t)) > 0 /\ Part(t, Len(Unread(t)))[2] < setting.pieces
        BY <2>6, <3>1, <3>2, EmptySeq, Sequences DEF IInv
      <4>3. k # Len(Unread(t))
        BY <4>1, <4>2, PiecesOfALine DEF IInv
      <4>4. Len(Unread(t))' > 0
        BY <2>6, <4>1, <4>3
      <4> QED BY <4>4
    <3> QED BY <2>b, <3>1, <3>2
  <2>14. NotYetALine'
    BY <1>1, <2>4 DEF IInv, NotYetALine
  <2>15. OneWriter' /\ Unwritten'
    BY <1>1 DEF IInv, OneWriter, Unwritten
  <2>16. FreshPipes'
    <3> SUFFICES ASSUME NEW t \in Sessions, server'[t].state = "none" PROVE Unread(t)' = <<>>
      BY DEF FreshPipes
    <3>1. t # s
      BY <1>1, <2>4
    <3> QED BY <1>4, <2>4, <3>1 DEF Unread, IInv, FreshPipes
  <2>17. LinesAreWhole'
    <3> SUFFICES ASSUME NEW t \in Sessions, NEW m \in server'[t].garbled PROVE \E d \in m : LeftHalf(d)
      BY <1>1 DEF LinesAreWhole, LeftHalf
    <3>1. CASE m \in server[t].garbled
      BY <3>1 DEF IInv, LinesAreWhole, LeftHalf
    <3>2. CASE m \notin server[t].garbled
      <4>1. ~whole /\ m = mixed
        BY <2>4, <3>2
      <4> QED BY <2>3, <4>1
    <3> QED BY <3>1, <3>2
  <2> QED BY <2>5, <2>9, <2>10, <2>11, <2>12, <2>13, <2>14, <2>15, <2>16, <2>17 DEF IInv
<1> QED BY <1>5, <1>6

-----------------------------------------------------------------------------
\* Every step of a handler, a server, a relay or stop() keeps the invariant.
THEOREM NextInv == IInv /\ [Next]_vars => IInv'
<1> SUFFICES ASSUME IInv, [Next]_vars PROVE IInv'
  OBVIOUS
<1>1. CASE \E e \in Exchanges : Arrive(e) \/ Handler(e) \/ Leave(e)
  <2> PICK e \in Exchanges : Arrive(e) \/ Handler(e) \/ Leave(e)
    BY <1>1
  <2>1. CASE Handler(e)
    BY <2>1, InsertKeeps, OpenKeeps, LockKeeps, WriteKeeps, EndOfStreamKeeps, WithdrawKeeps, CloseKeeps
       DEF Handler
  <2> QED BY <2>1, ArriveKeeps, LeaveKeeps
<1>2. ASSUME NEW s \in Sessions,
             \/ Grace(s) \/ Read(s) \/ Notify(s) \/ Exit(s) \/ OutputEnds(s)
             \/ \E r \in server[s].owes : Respond(s, r)
      PROVE  IInv'
  BY <1>2, GraceKeeps, ReadKeeps, NotifyKeeps, ExitKeeps, OutputEndsKeeps, RespondKeeps
<1>3. CASE StopBegins \/ StopEnds \/ StopWaits \/ StopReturns
  BY <1>3, StopKeeps
<1>4. CASE UNCHANGED vars
  BY <1>4, Unchanged, NobodyMoves DEF vars
<1> QED BY <1>1, <1>2, <1>3, <1>4 DEF Next

\* In every reachable state of a bridge with any number of exchanges and
\* sessions, any room in the pipe and any settings, the parts a server has not
\* made a line of are whole lines one behind the other, but for those whose
\* client left in the middle (Session::send holds the writer for write_all).
THEOREM Invariance == Spec => []IInv
<1>1. Init => IInv
  BY InitInv
<1>2. IInv /\ [Next]_vars => IInv'
  BY NextInv
<1> QED BY <1>1, <1>2, PTL DEF Spec

\* Lines of concurrent POSTs never mix: a line the server cannot read holds a
\* part of one whose client left while it was being written (bridge.rs:11-13).
THEOREM LinesNeverMix == Spec => []LinesAreWhole
<1>1. IInv => LinesAreWhole
  BY DEF IInv
<1> QED BY <1>1, Invariance, PTL

-----------------------------------------------------------------------------
(* Where what a server says goes. *)

Requests == Exchanges \X Nat
Words == [kind: {"answer"}, id: Requests] \union [kind: {"notice"}, id: Sessions \X Nat]

\* The handler has opened its stream; its client is there, or was.
Opened == {"sending", "writing", "streaming", "done", "gone"}

Said(s) == Range(said[s])
Got(e)  == Range(got[e])
Answered(s, r) == Answer(r) \in Said(s)

RoutesTyped ==
    /\ said \in [Sessions -> Seq(Words)] /\ got \in [Exchanges -> Seq(Words)]
    /\ \A s \in Sessions :
          /\ session[s].pending \in Seq(Words)
          /\ session[s].standalone \in Exchanges \union {NoExchange}
          /\ \A x \in session[s].streams : DOMAIN x = {"post", "waiting", "nth"} /\ x.post \in Exchanges

\* A server owes and answers what the session's exchanges have asked in whole.
Asked(s, r) ==
    /\ exchange[r[1]].session = s /\ exchange[r[1]].written = setting.pieces
    /\ r \in Ids(r[1])

OwedAreAsked ==
    \A s \in Sessions : \A r \in Requests :
        r \in server[s].owes \/ Answered(s, r) => Asked(s, r)

\* What it owes it has not answered.
OwedOnce == \A s \in Sessions : \A r \in server[s].owes : ~Answered(s, r)

\* The end of a line is read once, and then its requests are owed.
PartsOnce ==
    \A s \in Sessions : \A i \in 1 .. Len(session[s].pipe) :
        LET part == session[s].pipe[i]
        IN  /\ \A j \in 1 .. Len(session[s].pipe) : session[s].pipe[j] = part => i = j
            /\ part[2] = setting.pieces =>
                  \A k \in Nat : <<part[1], k>> \notin server[s].owes /\ ~Answered(s, <<part[1], k>>)

NoticesAreNumbered ==
    \A s \in Sessions : \A line \in Said(s) :
        line.kind = "notice" => line.id[1] = s /\ line.id[2] <= Notices(s)

\* A stream is of one POST of the session, and waits for what it has not been
\* answered.
StreamsWait ==
    \A s \in Sessions : \A x \in session[s].streams :
        /\ exchange[x.post].session = s /\ exchange[x.post].step \in Opened
        /\ x.waiting = {r \in Ids(x.post) : ~Answered(s, r)}
        /\ \A y \in session[s].streams : x.post = y.post => x = y

\* A POST whose client waits has its stream until it is answered in whole.
WaitersAreHeld ==
    \A e \in Exchanges : Receiving(e) =>
        LET s == exchange[e].session
        IN  \/ session[s].ended
            \/ \E x \in session[s].streams : x.post = e
            \/ \A r \in Ids(e) : Answered(s, r)

DoneAreAnswered ==
    \A e \in Exchanges : exchange[e].step = "done" /\ exchange[e].written = setting.pieces =>
        LET s == exchange[e].session
        IN  session[s].ended \/ \A r \in Ids(e) : Answered(s, r)

AnswersAreGot ==
    \A e \in Exchanges : exchange[e].step \in Opened \ {"gone"} =>
        \A r \in Ids(e) : Answered(exchange[e].session, r) => Answer(r) \in Got(e)

\* What reached a client or waits for one was said by its server.
ToldWasSaid ==
    /\ \A e \in Exchanges : got[e] # <<>> => exchange[e].step \in Opened /\ Got(e) \subseteq Said(exchange[e].session)
    /\ \A s \in Sessions :
          /\ Range(session[s].pending) \subseteq Said(s)
          /\ Len(session[s].pending) <= Len(said[s])
          /\ session[s].standalone # NoExchange =>
                exchange[session[s].standalone].session = s /\ exchange[session[s].standalone].step \in Opened

ToldOnce ==
    /\ \A e, d \in Exchanges : \A line \in Got(e) \intersect Got(d) : e = d
    /\ \A s \in Sessions : \A e \in Exchanges : \A line \in Range(session[s].pending) : line \notin Got(e)

Excused(s, line) ==
    \/ session[s].ended
    \/ line.kind = "notice" /\ Len(said[s]) > PENDING_LIMIT
    \/ line.kind = "answer" /\ exchange[line.id[1]].step \in {"done", "gone"}

SaidIsTold ==
    \A s \in Sessions : \A line \in Said(s) :
        \/ \E e \in Exchanges : line \in Got(e)
        \/ line \in Range(session[s].pending)
        \/ Excused(s, line)

ToldInOrder ==
    /\ \A s \in Sessions : InOrder(session[s].pending, said[s])
    /\ \A e \in Exchanges : got[e] # <<>> => InOrder(got[e], said[exchange[e].session])

RInv ==
    /\ RoutesTyped
    /\ OwedAreAsked /\ OwedOnce /\ PartsOnce /\ NoticesAreNumbered
    /\ StreamsWait /\ WaitersAreHeld /\ DoneAreAnswered /\ AnswersAreGot
    /\ ToldWasSaid /\ ToldOnce /\ SaidIsTold /\ ToldInOrder

LEMMA RangeOfAppend ==
    ASSUME NEW S, NEW q \in Seq(S), NEW x \in S
    PROVE  /\ Append(q, x) \in Seq(S) /\ Append(q, x) # <<>> /\ Len(Append(q, x)) = Len(q) + 1
           /\ Range(Append(q, x)) = Range(q) \union {x}
           /\ Range(q) \subseteq S
<1>1. Append(q, x) \in Seq(S) /\ Append(q, x) # <<>> /\ Len(Append(q, x)) = Len(q) + 1 /\ Len(q) \in Nat
  BY AppendProperties
<1>2. DOMAIN q = 1 .. Len(q) /\ DOMAIN Append(q, x) = 1 .. Len(q) + 1
  BY <1>1
<1>3. \A i \in 1 .. Len(q) : Append(q, x)[i] = q[i]
  BY AppendProperties
<1>4. Append(q, x)[Len(q) + 1] = x
  BY AppendProperties
<1>5. Range(Append(q, x)) = Range(q) \union {x}
  <2>1. ASSUME NEW y \in Range(Append(q, x)) PROVE y \in Range(q) \union {x}
    <3>1. PICK i \in 1 .. Len(q) + 1 : y = Append(q, x)[i]
      BY <1>2 DEF Range
    <3>2. CASE i = Len(q) + 1
      BY <1>4, <3>1, <3>2
    <3>3. CASE i # Len(q) + 1
      <4>1. i \in 1 .. Len(q)
        BY <1>1, <3>3
      <4> QED BY <1>2, <1>3, <3>1, <4>1 DEF Range
    <3> QED BY <3>2, <3>3
  <2>2. ASSUME NEW y \in Range(q) PROVE y \in Range(Append(q, x))
    <3>1. PICK i \in 1 .. Len(q) : y = q[i]
      BY <1>2 DEF Range
    <3>2. i \in 1 .. Len(q) + 1 /\ y = Append(q, x)[i]
      BY <1>1, <1>3, <3>1
    <3> QED BY <1>2, <3>2 DEF Range
  <2>3. x \in Range(Append(q, x))
    <3>1. Len(q) + 1 \in 1 .. Len(q) + 1
      BY <1>1
    <3> QED BY <1>2, <1>4, <3>1 DEF Range
  <2> QED BY <2>1, <2>2, <2>3
<1>6. Range(q) \subseteq S
  BY <1>2, ElementOfSeq DEF Range
<1> QED BY <1>1, <1>5, <1>6

\* What has been told in order still is when more is said, and when that is
\* told as well.
LEMMA OrderOfAppend ==
    ASSUME NEW S, NEW lines \in Seq(S), NEW all \in Seq(S), NEW x \in S,
           InOrder(lines, all), Range(lines) \subseteq Range(all)
    PROVE  InOrder(lines, Append(all, x)) /\ InOrder(Append(lines, x), Append(all, x))
<1> DEFINE more == Append(all, x)
           told == Append(lines, x)
           n == Len(all)
           m == Len(lines)
<1>1. /\ n \in Nat /\ m \in Nat /\ DOMAIN all = 1 .. n /\ DOMAIN lines = 1 .. m
      /\ DOMAIN more = 1 .. n + 1 /\ DOMAIN told = 1 .. m + 1
      /\ more[n + 1] = x /\ told[m + 1] = x
  BY AppendProperties
<1>2. (\A i \in 1 .. n : more[i] = all[i]) /\ (\A i \in 1 .. m : told[i] = lines[i])
  BY AppendProperties
<1>3. \A i \in 1 .. m : \E k \in 1 .. n : all[k] = lines[i]
  BY <1>1 DEF Range
<1>4. \A i, j \in 1 .. m : i < j => \E k, l \in 1 .. n : k < l /\ all[k] = lines[i] /\ all[l] = lines[j]
  <2>1. \A i, j \in DOMAIN lines : i < j =>
            \E k, l \in DOMAIN all : k < l /\ all[k] = lines[i] /\ all[l] = lines[j]
    BY Zenon DEF InOrder
  <2>2. DOMAIN lines = 1 .. m /\ DOMAIN all = 1 .. n
    BY <1>1
  <2> HIDE DEF n, m
  <2> SUFFICES ASSUME NEW i \in 1 .. m, NEW j \in 1 .. m, i < j
               PROVE  \E k, l \in 1 .. n : k < l /\ all[k] = lines[i] /\ all[l] = lines[j]
    OBVIOUS
  <2>3. \E k, l \in DOMAIN all : k < l /\ all[k] = lines[i] /\ all[l] = lines[j]
    <3>1. i \in DOMAIN lines /\ j \in DOMAIN lines
      BY <2>2
    <3> QED BY <2>1, <3>1
  <2> QED BY <2>2, <2>3, Zenon
<1> HIDE DEF more, told, n, m
<1>5. ASSUME NEW i \in 1 .. m, NEW j \in 1 .. m, i < j
      PROVE  \E k, l \in 1 .. n + 1 : k < l /\ more[k] = lines[i] /\ more[l] = lines[j]
  <2>1. PICK k \in 1 .. n, l \in 1 .. n : k < l /\ all[k] = lines[i] /\ all[l] = lines[j]
    BY <1>4, <1>5
  <2>2. k \in 1 .. n + 1 /\ l \in 1 .. n + 1 /\ more[k] = lines[i] /\ more[l] = lines[j]
    BY <1>1, <1>2, <2>1
  <2> QED BY <2>1, <2>2
<1>6. InOrder(lines, more)
  <2> SUFFICES ASSUME NEW i \in DOMAIN lines, NEW j \in DOMAIN lines, i < j
               PROVE  \E k, l \in DOMAIN more : k < l /\ more[k] = lines[i] /\ more[l] = lines[j]
    BY Zenon DEF InOrder
  <2>1. i \in 1 .. m /\ j \in 1 .. m
    BY <1>1
  <2>2. PICK k \in 1 .. n + 1, l \in 1 .. n + 1 : k < l /\ more[k] = lines[i] /\ more[l] = lines[j]
    BY <1>5, <2>1
  <2>3. k \in DOMAIN more /\ l \in DOMAIN more
    BY <1>1
  <2> QED BY <2>2, <2>3
<1>7. ASSUME NEW i \in 1 .. m + 1, NEW j \in 1 .. m + 1, i < j
      PROVE  \E k, l \in 1 .. n + 1 : k < l /\ more[k] = told[i] /\ more[l] = told[j]
  <2>1. i \in 1 .. m /\ told[i] = lines[i]
    <3>1. i \in 1 .. m
      BY <1>1, <1>7
    <3> QED BY <1>2, <3>1
  <2>2. CASE j \in 1 .. m
    BY <1>2, <1>5, <1>7, <2>1, <2>2
  <2>3. CASE j = m + 1
    <3>1. PICK k \in 1 .. n : all[k] = lines[i]
      BY <1>3, <2>1
    <3>2. k \in 1 .. n + 1 /\ n + 1 \in 1 .. n + 1 /\ k < n + 1 /\ more[k] = told[i]
      BY <1>1, <1>2, <2>1, <3>1
    <3> QED BY <1>1, <2>3, <3>2
  <2> QED BY <1>1, <2>2, <2>3
<1>8. InOrder(told, more)
  <2> SUFFICES ASSUME NEW i \in DOMAIN told, NEW j \in DOMAIN told, i < j
               PROVE  \E k, l \in DOMAIN more : k < l /\ more[k] = told[i] /\ more[l] = told[j]
    BY Zenon DEF InOrder
  <2>1. i \in 1 .. m + 1 /\ j \in 1 .. m + 1
    BY <1>1
  <2>2. PICK k \in 1 .. n + 1, l \in 1 .. n + 1 : k < l /\ more[k] = told[i] /\ more[l] = told[j]
    BY <1>7, <2>1
  <2>3. k \in DOMAIN more /\ l \in DOMAIN more
    BY <1>1
  <2> QED BY <2>2, <2>3
<1> QED BY <1>6, <1>8 DEF more, told

\* Another notice is counted, and nothing else is.
NoticesIn(words) == Cardinality({i \in DOMAIN words : words[i].kind = "notice"})

LEMMA NoticesOfAppend ==
    ASSUME NEW q \in Seq(Words), NEW x \in Words
    PROVE  /\ NoticesIn(q) \in Nat /\ NoticesIn(Append(q, x)) \in Nat
           /\ NoticesIn(Append(q, x)) >= NoticesIn(q)
           /\ x.kind = "notice" => NoticesIn(Append(q, x)) = NoticesIn(q) + 1
<1> DEFINE n == Len(q)
           counted == {i \in DOMAIN q : q[i].kind = "notice"}
           next == {i \in DOMAIN Append(q, x) : Append(q, x)[i].kind = "notice"}
<1>1. /\ n \in Nat /\ DOMAIN q = 1 .. n /\ DOMAIN Append(q, x) = 1 .. n + 1
      /\ Append(q, x)[n + 1] = x
  BY AppendProperties
<1>2. \A i \in 1 .. n : Append(q, x)[i] = q[i]
  BY AppendProperties
<1>3. counted = {i \in 1 .. n : q[i].kind = "notice"}
  BY <1>1
<1>4. next = {i \in 1 .. n + 1 : Append(q, x)[i].kind = "notice"}
  BY <1>1
<1>5. IsFiniteSet(1 .. n)
  BY <1>1, FS_Interval
<1>6. IsFiniteSet(counted) /\ Cardinality(counted) \in Nat
  <2>1. counted \subseteq 1 .. n
    BY <1>3
  <2>2. IsFiniteSet(counted)
    BY <1>5, <2>1, FS_Subset
  <2> QED BY <2>2, FS_CardinalityType
<1>a. NoticesIn(q) = Cardinality(counted) /\ NoticesIn(Append(q, x)) = Cardinality(next)
  BY DEF NoticesIn
<1> HIDE DEF n, counted, next
<1>7. n + 1 \notin counted
  BY <1>1, <1>3
<1>8. CASE x.kind = "notice"
  <2>1. next = counted \union {n + 1}
    BY <1>1, <1>2, <1>3, <1>4, <1>8
  <2>2. Cardinality(next) = Cardinality(counted) + 1
    BY <1>6, <1>7, <2>1, FS_AddElement
  <2> QED BY <1>a, <1>6, <2>2
<1>9. CASE x.kind # "notice"
  <2>1. next = counted
    BY <1>1, <1>2, <1>3, <1>4, <1>9
  <2> QED BY <1>a, <1>6, <1>9, <2>1
<1> QED BY <1>8, <1>9

\* The requests of an exchange are its own.
LEMMA OwnIds == \A e \in Exchanges : \A r \in Ids(e) : r \in Requests /\ r[1] = e
BY DEF Ids, Requests

-----------------------------------------------------------------------------
(* Steps that say, route and answer nothing. *)

ListsStay ==
    /\ setting' = setting /\ said' = said /\ got' = got
    /\ \A s \in Sessions :
          /\ session'[s].standalone = session[s].standalone
          /\ session'[s].pending = session[s].pending
          /\ session'[s].ended = session[s].ended

RoutesStay == ListsStay /\ \A s \in Sessions : session'[s].streams = session[s].streams

OwesStay == \A s \in Sessions : server'[s].owes = server[s].owes

\* An exchange is done when nothing was asked, or nobody will answer it any more.
Finishes(e) ==
    \/ exchange[e].step = "done" \/ exchange'[e].written # setting.pieces \/ Ids(e) = {}
    \/ exchange[e].step = "streaming" /\ ~Held(e)

Continues(e) ==
    /\ exchange[e].step # "idle" =>
          exchange'[e].session = exchange[e].session /\ exchange'[e].kind = exchange[e].kind
    /\ exchange[e].written = setting.pieces => exchange'[e].written = setting.pieces
    /\ exchange[e].step \in Opened => exchange'[e].step \in Opened
    /\ exchange[e].step \in {"done", "gone"} =>
          exchange'[e].step = exchange[e].step /\ exchange'[e].written = exchange[e].written

Advances(e) ==
    /\ Continues(e)
    /\ Receiving(e)' => Receiving(e)
    /\ exchange'[e].step \in Opened => exchange[e].step \in Opened \/ exchange[e].written # setting.pieces
    /\ exchange'[e].step = "done" => (exchange[e].step # "idle" /\ Finishes(e)) \/ exchange'[e].written # setting.pieces

LEMMA WrittenIsBegun ==
    ASSUME IInv, NEW e \in Exchanges
    PROVE  /\ exchange[e].written = setting.pieces => exchange[e].step # "idle"
           /\ exchange[e].step # "idle" => exchange[e].session \in Sessions
           /\ exchange[e].step \in Opened => exchange[e].session \in Sessions
BY PiecesOfALine DEF IInv, Unwritten, Opened

LEMMA AskedStays ==
    ASSUME IInv, NEW e \in Exchanges, setting' = setting, Continues(e), exchange[e].step # "idle"
    PROVE  Ids(e)' = Ids(e) /\ exchange'[e].session = exchange[e].session
BY DEF Ids, Continues

\* Who asked still has.
LEMMA OwedStays ==
    ASSUME IInv, OwedAreAsked, NoticesAreNumbered, OwedOnce, ListsStay, OwesStay, \A e \in Exchanges : Continues(e)
    PROVE  OwedAreAsked' /\ NoticesAreNumbered' /\ OwedOnce'
<1>1. OwedAreAsked'
  <2> SUFFICES ASSUME NEW s \in Sessions, NEW r \in Requests, r \in server'[s].owes \/ Answered(s, r)'
               PROVE  Asked(s, r)'
    BY DEF OwedAreAsked
  <2>1. Asked(s, r)
    BY DEF OwedAreAsked, ListsStay, OwesStay, Answered, Said
  <2>2. r[1] \in Exchanges
    BY DEF Requests
  <2>3. exchange[r[1]].step # "idle"
    BY <2>1, <2>2, WrittenIsBegun DEF Asked
  <2>4. Ids(r[1])' = Ids(r[1]) /\ exchange'[r[1]].session = exchange[r[1]].session
    BY <2>2, <2>3, AskedStays DEF ListsStay
  <2>5. exchange[r[1]].written = setting.pieces => exchange'[r[1]].written = setting.pieces
    BY <2>2 DEF Continues
  <2> QED BY <2>1, <2>4, <2>5 DEF Asked, ListsStay
<1>2. NoticesAreNumbered'
  BY DEF NoticesAreNumbered, ListsStay, Said, Notices
<1>3. OwedOnce'
  BY DEF OwedOnce, ListsStay, OwesStay, Answered, Said
<1> QED BY <1>1, <1>2, <1>3

\* A POST that has opened its stream and its session.
LEMMA OpenedStays ==
    ASSUME IInv, setting' = setting, NEW e \in Exchanges, Continues(e), exchange[e].step \in Opened
    PROVE  /\ Ids(e)' = Ids(e) /\ exchange'[e].session = exchange[e].session
           /\ exchange'[e].step \in Opened
<1>1. exchange[e].step # "idle"
  BY DEF Opened
<1> QED BY <1>1, AskedStays DEF Continues

LEMMA StreamsStay ==
    ASSUME IInv, IInv', RInv, RoutesStay, \A e \in Exchanges : Advances(e)
    PROVE  StreamsWait' /\ WaitersAreHeld' /\ DoneAreAnswered' /\ AnswersAreGot'
<1>1. \A s, r : Answered(s, r)' = Answered(s, r)
  BY DEF RoutesStay, ListsStay, Answered, Said
<1>2. StreamsWait'
  <2> SUFFICES ASSUME NEW s \in Sessions, NEW x \in session[s].streams
               PROVE  /\ exchange'[x.post].session = s /\ exchange'[x.post].step \in Opened
                      /\ x.waiting = {r \in Ids(x.post)' : ~Answered(s, r)}
                      /\ \A y \in session[s].streams : x.post = y.post => x = y
    BY <1>1 DEF StreamsWait, RoutesStay, ListsStay
  <2>1. /\ exchange[x.post].session = s /\ exchange[x.post].step \in Opened
        /\ x.waiting = {r \in Ids(x.post) : ~Answered(s, r)}
        /\ \A y \in session[s].streams : x.post = y.post => x = y
    BY DEF RInv, StreamsWait
  <2>2. x.post \in Exchanges
    BY DEF RInv, RoutesTyped
  <2>3. Ids(x.post)' = Ids(x.post) /\ exchange'[x.post].session = s /\ exchange'[x.post].step \in Opened
    BY <2>1, <2>2, OpenedStays DEF RoutesStay, ListsStay, Advances
  <2> QED BY <2>1, <2>3
<1>3. WaitersAreHeld'
  <2> SUFFICES ASSUME NEW e \in Exchanges, Receiving(e)', NEW s, s = exchange'[e].session
               PROVE  \/ session'[s].ended
                      \/ \E x \in session'[s].streams : x.post = e
                      \/ \A r \in Ids(e)' : Answered(s, r)
    BY <1>1 DEF WaitersAreHeld
  <2>1. Receiving(e) /\ exchange[e].step \in Opened
    BY DEF Advances, Continues, Receiving, Opened
  <2>2. Ids(e)' = Ids(e) /\ exchange[e].session = s /\ s \in Sessions
    BY <2>1, OpenedStays, WrittenIsBegun DEF RoutesStay, ListsStay, Advances
  <2> QED BY <2>1, <2>2 DEF RInv, WaitersAreHeld, RoutesStay, ListsStay
<1>4. DoneAreAnswered'
  <2> SUFFICES ASSUME NEW e \in Exchanges, exchange'[e].step = "done", exchange'[e].written = setting.pieces,
                      NEW s, s = exchange'[e].session
               PROVE  session'[s].ended \/ \A r \in Ids(e)' : Answered(s, r)
    BY <1>1 DEF DoneAreAnswered, RoutesStay, ListsStay
  <2>1. exchange[e].step # "idle" /\ Finishes(e)
    BY DEF Advances, Continues
  <2>2. Ids(e)' = Ids(e) /\ exchange[e].session = s /\ s \in Sessions
    BY <2>1, AskedStays, WrittenIsBegun DEF RoutesStay, ListsStay, Advances
  <2>3. CASE Ids(e) = {}
    BY <2>2, <2>3
  <2>4. CASE exchange[e].step = "streaming" /\ ~Held(e)
    <3>1. Receiving(e)
      BY <2>4, BridgeAssumption DEF Receiving, NoExchange, Exchanges
    <3>2. ~ \E x \in session[s].streams : x.post = e
      BY <2>2, <2>4 DEF Held
    <3> QED BY <2>2, <3>1, <3>2 DEF RInv, WaitersAreHeld, RoutesStay, ListsStay
  <2>5. CASE exchange[e].step = "done"
    <3>1. exchange[e].written = setting.pieces
      BY <2>5 DEF Advances, Continues
    <3> QED BY <2>2, <2>5, <3>1 DEF RInv, DoneAreAnswered, RoutesStay, ListsStay
  <2> QED BY <2>1, <2>3, <2>4, <2>5 DEF Finishes
<1>5. AnswersAreGot'
  <2> SUFFICES ASSUME NEW e \in Exchanges, exchange'[e].step \in Opened \ {"gone"},
                      NEW r \in Ids(e)', Answered(exchange'[e].session, r)
               PROVE  Answer(r) \in Got(e)
    BY <1>1 DEF AnswersAreGot, RoutesStay, ListsStay, Got, Answer
  <2>1. CASE exchange[e].step \in Opened
    <3>1. Ids(e)' = Ids(e) /\ exchange[e].session = exchange'[e].session /\ exchange[e].step # "gone"
      BY <2>1, OpenedStays DEF RoutesStay, ListsStay, Advances, Continues
    <3> QED BY <2>1, <3>1 DEF RInv, AnswersAreGot
  <2>2. CASE exchange[e].step \notin Opened
    <3>1. exchange[e].written # setting.pieces
      BY <2>2 DEF Advances, Continues, Opened
    <3>2. r \in Requests /\ r[1] = e
      BY DEF Ids, Requests
    <3>3. exchange'[e].session \in Sessions
      BY DEF IInv, Unwritten, Opened
    <3>4. Asked(exchange'[e].session, r)
      BY <3>2, <3>3 DEF RInv, OwedAreAsked
    <3> QED BY <3>1, <3>2, <3>4 DEF Asked
  <2> QED BY <2>1, <2>2
<1> QED BY <1>2, <1>3, <1>4, <1>5

\* What is said is of the servers' words.
LEMMA RangeOfSaid ==
    ASSUME RoutesTyped, NEW s \in Sessions
    PROVE  said[s] \in Seq(Words) /\ Said(s) \subseteq Words
<1>1. said[s] \in Seq(Words)
  BY DEF RoutesTyped
<1> QED BY <1>1, ElementOfSeq DEF Said, Range

LEMMA ToldStays ==
    ASSUME IInv, RInv, ListsStay, \A e \in Exchanges : Continues(e)
    PROVE  ToldWasSaid' /\ ToldOnce' /\ SaidIsTold' /\ ToldInOrder'
<1>1. \A s \in Sessions : Said(s)' = Said(s) /\ session'[s].pending = session[s].pending
  BY DEF ListsStay, Said
<1>2. \A e \in Exchanges : Got(e)' = Got(e)
  BY DEF ListsStay, Got
<1>3. \A e \in Exchanges : exchange[e].step \in Opened =>
         exchange'[e].session = exchange[e].session /\ exchange'[e].step \in Opened
  BY OpenedStays DEF ListsStay
<1>4. ToldWasSaid'
  <2>1. ASSUME NEW e \in Exchanges, got[e] # <<>>
        PROVE  exchange'[e].step \in Opened /\ Got(e) \subseteq Said(exchange'[e].session)
    <3>1. exchange[e].step \in Opened /\ Got(e) \subseteq Said(exchange[e].session)
      BY <2>1 DEF RInv, ToldWasSaid
    <3>2. exchange[e].session \in Sessions
      BY <3>1, WrittenIsBegun
    <3> QED BY <1>1, <1>2, <1>3, <3>1, <3>2
  <2>2. ASSUME NEW s \in Sessions
        PROVE  /\ Range(session'[s].pending) \subseteq Said(s)
               /\ Len(session'[s].pending) <= Len(said[s])
               /\ session'[s].standalone # NoExchange =>
                     exchange'[session'[s].standalone].session = s /\ exchange'[session'[s].standalone].step \in Opened
    <3>1. session[s].standalone \in Exchanges \union {NoExchange} /\ session'[s].standalone = session[s].standalone
      BY DEF RInv, RoutesTyped, ListsStay
    <3> QED BY <1>1, <1>3, <3>1 DEF RInv, ToldWasSaid, ListsStay
  <2> QED BY <2>1, <2>2 DEF ToldWasSaid, ListsStay, Got, Said
<1>5. ToldOnce'
  BY <1>1, <1>2 DEF RInv, ToldOnce
<1>6. SaidIsTold'
  <2> SUFFICES ASSUME NEW s \in Sessions, NEW line \in Said(s)
               PROVE  \/ \E e \in Exchanges : line \in Got(e)
                      \/ line \in Range(session[s].pending)
                      \/ Excused(s, line)'
    BY <1>1, <1>2 DEF SaidIsTold
  <2>1. \/ \E e \in Exchanges : line \in Got(e)
        \/ line \in Range(session[s].pending)
        \/ Excused(s, line)
    BY DEF RInv, SaidIsTold
  <2>2. CASE Excused(s, line)
    <3>1. line.kind = "answer" => line.id[1] \in Exchanges
      BY RangeOfSaid DEF RInv, Words, Requests
    <3> QED BY <2>2, <3>1 DEF Excused, ListsStay, Continues
  <2> QED BY <2>1, <2>2
<1>7. ToldInOrder'
  <2>1. \A s \in Sessions : InOrder(session'[s].pending, said'[s])
    BY DEF RInv, ToldInOrder, ListsStay
  <2>2. ASSUME NEW e \in Exchanges, got[e] # <<>> PROVE InOrder(got[e], said[exchange'[e].session])
    BY <1>3, <2>2 DEF RInv, ToldInOrder, ToldWasSaid
  <2> QED BY <2>1, <2>2 DEF ToldInOrder, ListsStay
<1> QED BY <1>4, <1>5, <1>6, <1>7

LEMMA RoutesStayTyped ==
    ASSUME RoutesTyped, RoutesStay
    PROVE  RoutesTyped'
BY DEF RoutesTyped, RoutesStay, ListsStay

LEMMA PartsStayOnce ==
    ASSUME PartsOnce, RoutesStay, OwesStay, PipesStay
    PROVE  PartsOnce'
BY DEF PartsOnce, RoutesStay, ListsStay, OwesStay, PipesStay, Answered, Said, Answer

\* Steps that say, route and answer nothing, and write nothing.
LEMMA RoutesStand ==
    ASSUME IInv, IInv', RInv, RoutesStay, OwesStay, PartsOnce', \A e \in Exchanges : Advances(e)
    PROVE  RInv'
BY OwedStays, StreamsStay, ToldStays, RoutesStayTyped DEF RInv, RoutesStay, Advances

\* An exchange that stands still.
LEMMA StillAdvances ==
    ASSUME setting' = setting, NEW e \in Exchanges, exchange'[e] = exchange[e],
           exchange[e].step = "idle" => exchange[e].written # setting.pieces
    PROVE  Advances(e)
BY DEF Advances, Continues, Receiving, Finishes

LEMMA AllAdvance ==
    ASSUME IInv, setting' = setting, NEW e \in Exchanges, NEW x, exchange' = [exchange EXCEPT ![e] = x],
           Advances(e)
    PROVE  \A d \in Exchanges : Advances(d)
BY StillAdvances, WrittenIsBegun DEF IInv, Typed

LEMMA NobodyAdvances ==
    ASSUME IInv, setting' = setting, exchange' = exchange
    PROVE  \A d \in Exchanges : Advances(d)
BY StillAdvances, WrittenIsBegun

\* A handler that takes its next step.
LEMMA StepAdvances ==
    ASSUME IInv, setting' = setting, NEW e \in Exchanges, NEW step, Goes(e, step),
           exchange[e].step \notin {"idle", "done", "gone"},
           exchange[e].step \in Opened => step \in Opened,
           step \in {"sending", "writing", "streaming"} => exchange[e].step \in {"sending", "writing", "streaming"},
           step \in Opened => exchange[e].step \in Opened \/ exchange[e].written # setting.pieces,
           step = "done" => \/ exchange[e].written # setting.pieces
                            \/ exchange[e].step = "streaming" /\ ~Held(e)
    PROVE  \A d \in Exchanges : Advances(d)
<1> DEFINE x == [exchange[e] EXCEPT !.step = step]
<1>1. exchange' = [exchange EXCEPT ![e] = x]
  BY DEF Goes
<1>2. x.step = step /\ x.written = exchange[e].written /\ x.session = exchange[e].session /\ x.kind = exchange[e].kind
  BY DEF IInv, Typed
<1> HIDE DEF x
<1>3. exchange'[e] = x
  BY <1>1 DEF IInv, Typed
<1>4. Receiving(e)' => Receiving(e)
  BY <1>2, <1>3 DEF Receiving
<1>5. Advances(e)
  BY <1>2, <1>3, <1>4 DEF Advances, Continues, Finishes
<1> QED BY <1>1, <1>5, AllAdvance

\* A session of which neither the routes nor the pipe change.
LEMMA FieldsStay ==
    ASSUME IInv, setting' = setting, said' = said, got' = got, server' = server,
           NEW s, NEW value, session' = [session EXCEPT ![s] = value],
           s \in Sessions =>
               /\ value.streams = session[s].streams /\ value.standalone = session[s].standalone
               /\ value.pending = session[s].pending /\ value.ended = session[s].ended
    PROVE  RoutesStay /\ OwesStay
BY DEF RoutesStay, ListsStay, OwesStay, IInv, Typed

LEMMA NothingRouted ==
    ASSUME setting' = setting, said' = said, got' = got, session' = session,
           \A s \in Sessions : server'[s].owes = server[s].owes
    PROVE  RoutesStay /\ OwesStay
BY DEF RoutesStay, ListsStay, OwesStay

LEMMA Begun == ASSUME IInv PROVE setting.pieces \in 1 .. 2 /\ setting.pieces # 0
BY PiecesOfALine DEF IInv

LEMMA ArriveRoutes == ASSUME IInv, IInv', RInv, NEW e \in Exchanges, Arrive(e) PROVE RInv'
<1>1. exchange[e].step = "idle" /\ exchange[e].written = 0 /\ setting' = setting
  BY DEF Arrive, IInv, Unwritten
<1>2. PICK s \in Sessions : Begin(e, s) \/ Enter(e, s)
  BY DEF Arrive
<1>3. PICK x : /\ exchange' = [exchange EXCEPT ![e] = x]
               /\ x.step \in {"beginning", "done", "removing", "opening"} /\ x.written = 0
  <2>1. CASE Begin(e, s)
    <3> DEFINE x == [Idle EXCEPT !.step = "beginning", !.kind = "initialize", !.session = s]
    <3>1. x.step = "beginning" /\ x.written = 0
      BY DEF Idle
    <3>2. exchange' = [exchange EXCEPT ![e] = x]
      BY <2>1 DEF Begin
    <3> QED BY <3>1, <3>2
  <2>2. CASE Enter(e, s)
    <3>1. PICK kind \in setting.kinds \ {"initialize"} :
             exchange' = [exchange EXCEPT ![e] = [Idle EXCEPT !.kind = kind, !.session = s,
                !.step = IF s \notin sessions THEN "done"
                         ELSE IF kind = "delete" THEN "removing" ELSE "opening"]]
      BY <2>2 DEF Enter
    <3> DEFINE x == [Idle EXCEPT !.kind = kind, !.session = s,
                !.step = IF s \notin sessions THEN "done"
                         ELSE IF kind = "delete" THEN "removing" ELSE "opening"]
    <3>2. x.step \in {"done", "removing", "opening"} /\ x.written = 0
      BY DEF Idle
    <3> QED BY <3>1, <3>2
  <2> QED BY <1>2, <2>1, <2>2
<1>4. exchange'[e] = x
  BY <1>3 DEF IInv, Typed
<1>5. Advances(e)
  BY <1>1, <1>3, <1>4, Begun DEF Advances, Continues, Receiving, Opened, Finishes
<1>6. \A d \in Exchanges : Advances(d)
  BY <1>1, <1>3, <1>5, AllAdvance
<1>7. \A t \in Sessions : server'[t].owes = server[t].owes
  <2>1. CASE Begin(e, s)
    <3>1. server' = [server EXCEPT ![s].state = "running"]
      BY <2>1 DEF Begin
    <3> QED BY <3>1 DEF IInv, Typed
  <2>2. CASE Enter(e, s)
    BY <2>2 DEF Enter
  <2> QED BY <1>2, <2>1, <2>2
<1>8. RoutesStay /\ OwesStay /\ PipesStay
  BY <1>1, <1>2, <1>7, NothingRouted, Unchanged DEF Arrive, Begin, Enter
<1> QED BY <1>6, <1>8, PartsStayOnce, RoutesStand DEF RInv

LEMMA HandlerRoutes ==
    ASSUME IInv, IInv', RInv, NEW e \in Exchanges,
           Insert(e) \/ Lock(e) \/ EndOfStream(e) \/ Withdraw(e) \/ Leave(e)
    PROVE  RInv'
<1>1. RoutesStay /\ OwesStay /\ PipesStay
  BY NothingRouted, Unchanged DEF Insert, Lock, EndOfStream, Withdraw, Leave
<1>2. setting' = setting
  BY <1>1 DEF RoutesStay, ListsStay
<1>3. exchange[e].step \in {"beginning", "sending", "removing", "opening", "closing"} =>
         exchange[e].written # setting.pieces
  BY Begun DEF IInv, Unwritten
<1>4. \A d \in Exchanges : Advances(d)
  <2>1. CASE Insert(e)
    BY <1>2, <2>1, StepAdvances DEF Insert, Opened
  <2>2. CASE Lock(e)
    <3>1. CASE Goes(e, "done")
      BY <1>2, <1>3, <2>2, <3>1, StepAdvances DEF Lock, Opened
    <3>2. CASE Goes(e, "writing")
      BY <1>2, <1>3, <2>2, <3>2, StepAdvances DEF Lock, Opened
    <3> QED BY <2>2, <3>1, <3>2 DEF Lock
  <2>3. CASE EndOfStream(e)
    BY <1>2, <2>3, StepAdvances DEF EndOfStream, Opened
  <2>4. CASE Withdraw(e)
    BY <1>2, <2>4, StepAdvances DEF Withdraw, Opened
  <2>5. CASE Leave(e)
    BY <1>2, <1>3, <2>5, StepAdvances DEF Leave, Opened
  <2> QED BY <2>1, <2>2, <2>3, <2>4, <2>5
<1> QED BY <1>1, <1>4, PartsStayOnce, RoutesStand DEF RInv

LEMMA EndRoutes == ASSUME IInv, NEW s, End(s), setting' = setting, said' = said, got' = got, server' = server
                   PROVE  RoutesStay /\ OwesStay /\ PipesStay
<1> DEFINE value == [session[s] EXCEPT !.writer = "closed",
                         !.grace = IF session[s].grace = "none" THEN "running" ELSE session[s].grace]
<1>1. session' = [session EXCEPT ![s] = value]
  BY DEF End
<1>2. s \in Sessions => /\ value.streams = session[s].streams /\ value.standalone = session[s].standalone
                        /\ value.pending = session[s].pending /\ value.ended = session[s].ended
  BY DEF IInv, Typed, SessionFields
<1> HIDE DEF value
<1> QED BY <1>1, <1>2, FieldsStay, EndStays

LEMMA CloseRoutes == ASSUME IInv, IInv', RInv, NEW e \in Exchanges, Close(e) PROVE RInv'
<1>1. RoutesStay /\ OwesStay /\ PipesStay /\ setting' = setting
  BY EndRoutes DEF Close
<1>2. exchange[e].written # setting.pieces
  BY Begun DEF Close, IInv, Unwritten
<1>3. \A d \in Exchanges : Advances(d)
  BY <1>1, <1>2, StepAdvances DEF Close, Opened
<1> QED BY <1>1, <1>3, PartsStayOnce, RoutesStand DEF RInv

LEMMA NobodyRoutes ==
    ASSUME IInv, IInv', RInv, RoutesStay, OwesStay, PipesStay, exchange' = exchange
    PROVE  RInv'
<1>1. \A d \in Exchanges : Advances(d)
  BY NobodyAdvances DEF RoutesStay, ListsStay
<1> QED BY <1>1, PartsStayOnce, RoutesStand DEF RInv

LEMMA GraceRoutes == ASSUME IInv, IInv', RInv, NEW s \in Sessions, Grace(s) PROVE RInv'
<1> DEFINE value == [session[s] EXCEPT !.grace = "over"]
<1>1. /\ value.streams = session[s].streams /\ value.standalone = session[s].standalone
      /\ value.pending = session[s].pending /\ value.ended = session[s].ended
      /\ DOMAIN value = SessionFields /\ value.pipe = session[s].pipe
  BY DEF SessionFields, IInv, Typed
<1>2. session' = [session EXCEPT ![s] = value]
  BY DEF Grace, Changed
<1> HIDE DEF value
<1>3. PipesStay /\ RoutesStay /\ OwesStay
  BY <1>1, <1>2, PipeStays, FieldsStay DEF Grace
<1> QED BY <1>3, NobodyRoutes DEF Grace

LEMMA ExitRoutes == ASSUME IInv, IInv', RInv, NEW s \in Sessions, Exit(s) PROVE RInv'
<1>1. \A t \in Sessions : server'[t].owes = server[t].owes
  BY DEF Exit, IInv, Typed
<1> QED BY <1>1, NothingRouted, Unchanged, NobodyRoutes DEF Exit

LEMMA StopRoutes ==
    ASSUME IInv, IInv', RInv, StopBegins \/ StopEnds \/ StopWaits \/ StopReturns
    PROVE  RInv'
<1>1. CASE StopBegins \/ StopWaits \/ StopReturns
  BY <1>1, NothingRouted, Unchanged, NobodyRoutes DEF StopBegins, StopWaits, StopReturns
<1>2. CASE StopEnds
  BY <1>2, EndRoutes, NobodyRoutes DEF StopEnds
<1> QED BY <1>1, <1>2

LEMMA StillRoutes == ASSUME IInv, IInv', RInv, UNCHANGED vars PROVE RInv'
BY NothingRouted, Unchanged, NobodyRoutes DEF vars

-----------------------------------------------------------------------------
(* Lines that are written and read. *)

\* The parts in a pipe are the session's, as far as each exchange has come.
LEMMA PipeParts ==
    ASSUME IInv, NEW s \in Sessions, NEW i \in 1 .. Len(session[s].pipe)
    PROVE  /\ session[s].pipe[i] \in Pieces
           /\ exchange[session[s].pipe[i][1]].session = s
           /\ session[s].pipe[i][2] <= exchange[session[s].pipe[i][1]].written
<1> DEFINE line == server[s].line
           pipe == session[s].pipe
           k == Len(line) + i
<1>1. line \in Seq(Pieces) /\ pipe \in Seq(Pieces) /\ Len(Unread(s)) = Len(line) + Len(pipe)
      /\ Unread(s) = line \o pipe
  BY Sequences DEF IInv, Unread
<1>2. Len(line) \in Nat /\ Len(pipe) \in Nat /\ i \in 1 .. Len(pipe)
  BY <1>1
<1> HIDE DEF line, pipe
<1>3. k \in 1 .. Len(line) + Len(pipe) /\ k > Len(line) /\ k - Len(line) = i
  BY <1>2
<1>4. Unread(s)[k] = pipe[i]
  BY <1>1, <1>3, ConcatProperties
<1> HIDE DEF k
<1>5. k \in 1 .. Len(Unread(s)) /\ Part(s, k) = pipe[i]
  BY <1>1, <1>3, <1>4 DEF Part
<1>6. pipe[i] \in Pieces
  BY <1>1, <1>2, ElementOfSeq
<1>7. exchange[pipe[i][1]].session = s /\ pipe[i][2] <= exchange[pipe[i][1]].written
  BY <1>5 DEF IInv, OwnParts
<1> QED BY <1>6, <1>7 DEF pipe

LEMMA WriteRoutes == ASSUME IInv, IInv', RInv, NEW e \in Exchanges, Write(e) PROVE RInv'
<1> DEFINE n == exchange[e].written + 1
<1>1. PICK s \in Sessions : s = exchange[e].session
  BY DEF Write, IInv, Unwritten
<1>2. /\ exchange[e].step = "writing" /\ setting' = setting /\ server' = server
      /\ said' = said /\ got' = got
  BY DEF Write
<1>3. exchange[e].written # setting.pieces /\ exchange[e].written \in 0 .. 2
  <2>1. exchange[e].written < setting.pieces /\ exchange[e].written \in 0 .. 2
    BY <1>1, <1>2 DEF IInv, WriterIsLast, Typed
  <2> QED BY <2>1, PiecesOfALine DEF IInv
<1>4. CASE Goes(e, "done") /\ UNCHANGED session
  <2>1. RoutesStay /\ OwesStay /\ PipesStay
    BY <1>2, <1>4, NothingRouted, Unchanged
  <2>2. \A d \in Exchanges : Advances(d)
    BY <1>2, <1>3, <1>4, StepAdvances DEF Opened
  <2> QED BY <2>1, <2>2, PartsStayOnce, RoutesStand DEF RInv
<1>5. CASE /\ session' = [session EXCEPT ![s].pipe = Append(session[s].pipe, <<e, n>>)]
           /\ exchange' = [exchange EXCEPT ![e] = [exchange[e] EXCEPT
                  !.written = n,
                  !.step    = IF n < setting.pieces THEN "writing"
                              ELSE IF Ids(e) = {} THEN "done" ELSE "streaming"]]
  <2> DEFINE value == [session[s] EXCEPT !.pipe = Append(session[s].pipe, <<e, n>>)]
             next == IF n < setting.pieces THEN "writing"
                     ELSE IF Ids(e) = {} THEN "done" ELSE "streaming"
             x == [exchange[e] EXCEPT !.written = n, !.step = next]
  <2>1. /\ value.streams = session[s].streams /\ value.standalone = session[s].standalone
        /\ value.pending = session[s].pending /\ value.ended = session[s].ended
        /\ value.pipe = Append(session[s].pipe, <<e, n>>)
    BY DEF IInv, Typed, SessionFields
  <2>2. session' = [session EXCEPT ![s] = value]
    BY <1>5
  <2> HIDE DEF value
  <2>3. RoutesStay /\ OwesStay
    BY <1>2, <2>1, <2>2, FieldsStay
  <2>4. /\ session'[s].pipe = Append(session[s].pipe, <<e, n>>)
        /\ \A t \in Sessions : t # s => session'[t].pipe = session[t].pipe
    BY <2>1, <2>2 DEF IInv, Typed
  <2>5. exchange' = [exchange EXCEPT ![e] = x]
    BY <1>5
  <2>6. next \in {"writing", "done", "streaming"} /\ (next = "done" => Ids(e) = {})
    OBVIOUS
  <2>7. x.written = n /\ x.step = next /\ x.session = exchange[e].session /\ x.kind = exchange[e].kind
    BY DEF IInv, Typed
  <2> HIDE DEF x, next
  <2>8. exchange'[e] = x
    BY <2>5 DEF IInv, Typed
  <2>9. Receiving(e)
    BY <1>2, BridgeAssumption DEF Receiving, NoExchange, Exchanges
  <2>10. Advances(e)
    BY <1>2, <1>3, <2>6, <2>7, <2>8, <2>9 DEF Advances, Continues, Finishes, Opened
  <2>11. \A d \in Exchanges : Advances(d)
    BY <1>2, <2>5, <2>10, AllAdvance
  <2>12. PartsOnce'
    <3> SUFFICES ASSUME NEW t \in Sessions, NEW i \in 1 .. Len(session'[t].pipe)
                 PROVE  /\ \A j \in 1 .. Len(session'[t].pipe) : session'[t].pipe[j] = session'[t].pipe[i] => i = j
                        /\ session'[t].pipe[i][2] = setting.pieces =>
                              \A k \in Nat : /\ <<session'[t].pipe[i][1], k>> \notin server[t].owes
                                             /\ ~Answered(t, <<session'[t].pipe[i][1], k>>)
      BY <1>2 DEF PartsOnce, Answered, Said, Answer
    <3>1. CASE t # s
      BY <2>4, <3>1 DEF RInv, PartsOnce
    <3>2. CASE t = s
      <4> DEFINE pipe == session[s].pipe
                 m == Len(pipe)
                 more == Append(pipe, <<e, n>>)
      <4>1. pipe \in Seq(Pieces)
        BY DEF IInv, Typed
      <4>2. m \in Nat /\ Len(more) = m + 1 /\ more[m + 1] = <<e, n>>
        BY <4>1
      <4>3. \A j \in 1 .. m : more[j] = pipe[j]
        BY <4>1
      <4>4. \A j \in 1 .. m : pipe[j] \in Pieces /\ pipe[j][2] <= exchange[pipe[j][1]].written
        BY PipeParts
      <4>5. \A j \in 1 .. m :
               /\ \A k \in 1 .. m : pipe[k] = pipe[j] => j = k
               /\ pipe[j][2] = setting.pieces =>
                     \A k \in Nat : <<pipe[j][1], k>> \notin server[s].owes /\ ~Answered(s, <<pipe[j][1], k>>)
        BY DEF RInv, PartsOnce
      <4> HIDE DEF pipe, m, more
      <4>6. \A j \in 1 .. m : pipe[j] # <<e, n>>
        <5> SUFFICES ASSUME NEW j \in 1 .. m, pipe[j] = <<e, n>> PROVE FALSE
          OBVIOUS
        <5>1. n <= exchange[e].written
          BY <4>4
        <5> QED BY <1>3, <5>1
      <4>7. \A k \in Nat : <<e, k>> \notin server[s].owes /\ ~Answered(s, <<e, k>>)
        <5> SUFFICES ASSUME NEW k \in Nat, <<e, k>> \in server[s].owes \/ Answered(s, <<e, k>>) PROVE FALSE
          OBVIOUS
        <5>1. <<e, k>> \in Requests
          BY DEF Requests
        <5>2. Asked(s, <<e, k>>)
          BY <5>1 DEF RInv, OwedAreAsked
        <5> QED BY <1>3, <5>2 DEF Asked
      <4>8. session'[t].pipe = more /\ i \in 1 .. m + 1
        BY <2>4, <3>2, <4>2 DEF more, pipe
      <4>9. CASE i = m + 1
        BY <3>2, <4>2, <4>3, <4>6, <4>7, <4>8, <4>9
      <4>10. CASE i # m + 1
        <5>1. i \in 1 .. m /\ more[i] = pipe[i]
          BY <4>2, <4>3, <4>8, <4>10
        <5>2. \A j \in 1 .. m + 1 : more[j] = more[i] => i = j
          BY <4>2, <4>3, <4>5, <4>6, <5>1
        <5>3. more[i][2] = setting.pieces =>
                 \A k \in Nat : <<more[i][1], k>> \notin server[s].owes /\ ~Answered(s, <<more[i][1], k>>)
          BY <4>5, <5>1
        <5> QED BY <3>2, <4>2, <4>8, <5>2, <5>3
      <4> QED BY <4>9, <4>10
    <3> QED BY <3>1, <3>2
  <2> QED BY <2>3, <2>11, <2>12, RoutesStand
<1>6. \/ Goes(e, "done") /\ UNCHANGED session
      \/ /\ session' = [session EXCEPT ![s].pipe = Append(session[s].pipe, <<e, n>>)]
         /\ exchange' = [exchange EXCEPT ![e] = [exchange[e] EXCEPT
                !.written = n,
                !.step    = IF n < setting.pieces THEN "writing"
                            ELSE IF Ids(e) = {} THEN "done" ELSE "streaming"]]
  BY <1>1, Zenon DEF Write, Changed
<1> QED BY <1>4, <1>5, <1>6

\* What a server owes when it has read the end of a line.
LEMMA ReadOwes ==
    ASSUME IInv, NEW s \in Sessions, Read(s)
    PROVE  /\ \A t \in Sessions : t # s => server'[t].owes = server[t].owes /\ session'[t].pipe = session[t].pipe
           /\ session'[s].pipe = Tail(session[s].pipe) /\ session[s].pipe # <<>>
           /\ \/ server'[s].owes = server[s].owes
              \/ /\ Head(session[s].pipe)[2] = setting.pieces
                 /\ server'[s].owes = server[s].owes \union Ids(Head(session[s].pipe)[1])
<1> DEFINE piece == Head(session[s].pipe)
           line == Append(server[s].line, piece)
           whole == line = [n \in 1 .. setting.pieces |-> <<piece[1], n>>]
           garbled == server[s].garbled \union {{line[i][1] : i \in DOMAIN line}}
           value == IF piece[2] # setting.pieces THEN [server[s] EXCEPT !.line = line]
                    ELSE IF whole THEN [server[s] EXCEPT !.line = <<>>, !.owes = server[s].owes \union Ids(piece[1])]
                    ELSE [server[s] EXCEPT !.line = <<>>, !.garbled = garbled]
<1>1. /\ session' = [session EXCEPT ![s].pipe = Tail(session[s].pipe)] /\ session[s].pipe # <<>>
      /\ server' = [server EXCEPT ![s] = value]
  BY DEF Read, Changed
<1> HIDE DEF piece, line, whole, garbled
<1>2. \/ value.owes = server[s].owes
      \/ piece[2] = setting.pieces /\ value.owes = server[s].owes \union Ids(piece[1])
  BY DEF IInv, Typed
<1> HIDE DEF value
<1>3. \A t \in Sessions : t # s => server'[t] = server[t] /\ session'[t] = session[t]
  BY <1>1 DEF IInv, Typed
<1>4. server'[s] = value
  BY <1>1 DEF IInv, Typed
<1>5. session'[s].pipe = Tail(session[s].pipe)
  BY <1>1 DEF IInv, Typed, SessionFields
<1> QED BY <1>1, <1>2, <1>3, <1>4, <1>5 DEF piece

LEMMA ReadRoutes == ASSUME IInv, IInv', RInv, NEW s \in Sessions, Read(s) PROVE RInv'
<1> DEFINE pipe == session[s].pipe
           piece == Head(pipe)
<1>1. setting' = setting /\ exchange' = exchange /\ said' = said /\ got' = got
  BY DEF Read
<1>2. RoutesStay
  <2> DEFINE value == [session[s] EXCEPT !.pipe = Tail(session[s].pipe)]
  <2>1. session' = [session EXCEPT ![s] = value]
    BY DEF Read, Changed
  <2>2. /\ value.streams = session[s].streams /\ value.standalone = session[s].standalone
        /\ value.pending = session[s].pending /\ value.ended = session[s].ended
    BY DEF IInv, Typed, SessionFields
  <2> HIDE DEF value
  <2>3. \A t \in Sessions : session'[t] = IF t = s THEN value ELSE session[t]
    BY <2>1 DEF IInv, Typed
  <2> QED BY <1>1, <2>2, <2>3 DEF RoutesStay, ListsStay
<1>3. \A d \in Exchanges : Advances(d)
  BY <1>1, NobodyAdvances
<1>4. /\ \A t \in Sessions : t # s => server'[t].owes = server[t].owes /\ session'[t].pipe = session[t].pipe
      /\ session'[s].pipe = Tail(pipe) /\ pipe # <<>>
      /\ \/ server'[s].owes = server[s].owes
         \/ piece[2] = setting.pieces /\ server'[s].owes = server[s].owes \union Ids(piece[1])
  BY ReadOwes
<1>5. pipe \in Seq(Pieces)
  BY DEF IInv, Typed
<1>6. /\ piece = pipe[1] /\ 1 \in 1 .. Len(pipe) /\ Len(pipe) \in Nat /\ Len(Tail(pipe)) = Len(pipe) - 1
      /\ \A i \in 1 .. Len(Tail(pipe)) : Tail(pipe)[i] = pipe[i + 1]
  BY <1>4, <1>5, HeadTailProperties
<1>7. piece \in Pieces /\ exchange[piece[1]].session = s /\ piece[2] <= exchange[piece[1]].written
  BY <1>6, PipeParts
<1>8. \A i \in 1 .. Len(pipe) :
         /\ \A j \in 1 .. Len(pipe) : pipe[j] = pipe[i] => i = j
         /\ pipe[i][2] = setting.pieces =>
               \A k \in Nat : <<pipe[i][1], k>> \notin server[s].owes /\ ~Answered(s, <<pipe[i][1], k>>)
  BY DEF RInv, PartsOnce
<1>9. \A i \in 1 .. Len(pipe) : pipe[i] \in Pieces
  BY PipeParts
<1> HIDE DEF pipe, piece
<1>10. piece[2] = setting.pieces => exchange[piece[1]].written = setting.pieces
  <2>1. piece[1] \in Exchanges
    BY <1>7 DEF Pieces
  <2>2. exchange[piece[1]].written \in 0 .. 2 /\ exchange[piece[1]].written <= setting.pieces
    BY <2>1 DEF IInv, Typed, Unwritten
  <2> QED BY <1>7, <2>2, PiecesOfALine DEF IInv
<1>11. \A t, r : Answered(t, r)' = Answered(t, r) /\ Asked(t, r)' = Asked(t, r)
  BY <1>1 DEF Answered, Said, Asked, Ids, Answer
<1>12. OwedAreAsked'
  <2> SUFFICES ASSUME NEW t \in Sessions, NEW r \in Requests, r \in server'[t].owes \/ Answered(t, r)
               PROVE  Asked(t, r)
    BY <1>11 DEF OwedAreAsked
  <2>1. CASE r \in server[t].owes \/ Answered(t, r)
    BY <2>1 DEF RInv, OwedAreAsked
  <2>2. CASE ~(r \in server[t].owes \/ Answered(t, r))
    <3>1. t = s /\ piece[2] = setting.pieces /\ r \in Ids(piece[1])
      BY <1>4, <2>2
    <3>2. r[1] = piece[1]
      BY <1>7, <3>1, OwnIds DEF Pieces
    <3> QED BY <1>7, <1>10, <3>1, <3>2 DEF Asked
  <2> QED BY <2>1, <2>2
<1>13. OwedOnce'
  <2> SUFFICES ASSUME NEW t \in Sessions, NEW r \in server'[t].owes PROVE ~Answered(t, r)
    BY <1>11 DEF OwedOnce
  <2>1. CASE r \in server[t].owes
    BY <2>1 DEF RInv, OwedOnce
  <2>2. CASE r \notin server[t].owes
    <3>1. t = s /\ piece[2] = setting.pieces /\ r \in Ids(piece[1])
      BY <1>4, <2>2
    <3>2. r = <<piece[1], 1>> \/ r = <<piece[1], 2>>
      BY <3>1 DEF Ids
    <3> QED BY <1>6, <1>8, <3>1, <3>2
  <2> QED BY <2>1, <2>2
<1>14. PartsOnce'
  <2> SUFFICES ASSUME NEW t \in Sessions, NEW i \in 1 .. Len(session'[t].pipe)
               PROVE  /\ \A j \in 1 .. Len(session'[t].pipe) : session'[t].pipe[j] = session'[t].pipe[i] => i = j
                      /\ session'[t].pipe[i][2] = setting.pieces =>
                            \A k \in Nat : /\ <<session'[t].pipe[i][1], k>> \notin server'[t].owes
                                           /\ ~Answered(t, <<session'[t].pipe[i][1], k>>)
    BY <1>1 DEF PartsOnce, Answered, Said, Answer
  <2>1. CASE t # s
    BY <1>4, <2>1 DEF RInv, PartsOnce
  <2>2. CASE t = s
    <3> DEFINE rest == Tail(pipe)
               m == Len(rest)
    <3>1. m \in Nat /\ Len(rest) = m /\ Len(pipe) = m + 1 /\ (\A j \in 1 .. m : rest[j] = pipe[j + 1]) /\ i \in 1 .. m
          /\ session'[t].pipe = rest
      BY <1>4, <1>6, <2>2
    <3> HIDE DEF rest, m
    <3>2. \A j \in 1 .. m : j + 1 \in 1 .. Len(pipe) /\ j + 1 # 1
      BY <3>1
    <3>3. \A j \in 1 .. m : rest[j] = rest[i] => i = j
      <4> SUFFICES ASSUME NEW j \in 1 .. m, rest[j] = rest[i] PROVE i = j
        OBVIOUS
      <4>1. pipe[j + 1] = pipe[i + 1]
        BY <3>1
      <4>2. i + 1 = j + 1
        BY <1>8, <3>1, <3>2, <4>1
      <4> QED BY <3>1, <4>2
    <3>4. ASSUME rest[i][2] = setting.pieces, NEW k \in Nat
          PROVE  <<rest[i][1], k>> \notin server'[s].owes /\ ~Answered(s, <<rest[i][1], k>>)
      <4>1. <<rest[i][1], k>> \notin server[s].owes /\ ~Answered(s, <<rest[i][1], k>>)
        <5>1. rest[i] = pipe[i + 1] /\ i + 1 \in 1 .. Len(pipe)
          BY <3>1, <3>2
        <5>2. pipe[i + 1][2] = setting.pieces
          BY <3>4, <5>1
        <5>3. <<pipe[i + 1][1], k>> \notin server[s].owes /\ ~Answered(s, <<pipe[i + 1][1], k>>)
          BY <1>8, <3>4, <5>1, <5>2
        <5> QED BY <5>1, <5>3
      <4>2. ASSUME piece[2] = setting.pieces PROVE <<rest[i][1], k>> \notin Ids(piece[1])
        <5> SUFFICES ASSUME <<rest[i][1], k>> \in Ids(piece[1]) PROVE FALSE
          OBVIOUS
        <5>1. rest[i][1] = piece[1] /\ rest[i][2] = piece[2]
          BY <3>4, <4>2 DEF Ids
        <5>2. rest[i] \in Pieces
          BY <1>9, <3>1, <3>2
        <5>3. rest[i] = piece
          BY <1>7, <5>1, <5>2 DEF Pieces
        <5>4. pipe[i + 1] = pipe[1]
          BY <1>6, <3>1, <5>3
        <5> QED BY <1>6, <1>8, <3>1, <3>2, <5>4
      <4> QED BY <1>4, <4>1, <4>2
    <3>5. rest[i][2] = setting.pieces =>
             \A k \in Nat : <<rest[i][1], k>> \notin server'[s].owes /\ ~Answered(s, <<rest[i][1], k>>)
      BY <3>4
    <3> QED BY <2>2, <3>1, <3>3, <3>5
  <2> QED BY <2>1, <2>2
<1>15. NoticesAreNumbered'
  BY <1>1 DEF RInv, NoticesAreNumbered, Said, Notices
<1> QED BY <1>2, <1>3, <1>12, <1>13, <1>14, <1>15, StreamsStay, ToldStays, RoutesStayTyped
    DEF RInv, RoutesStay, Advances

-----------------------------------------------------------------------------
(* The end of a server's output. *)

LEMMA OutputEndsRoutes == ASSUME IInv, IInv', RInv, NEW s \in Sessions, OutputEnds(s) PROVE RInv'
<1> DEFINE value == [session[s] EXCEPT !.ended = TRUE, !.streams = {}, !.standalone = NoExchange, !.pending = <<>>]
<1>1. session' = [session EXCEPT ![s] = value]
  BY DEF OutputEnds
<1>2. /\ value.ended = TRUE /\ value.streams = {} /\ value.standalone = NoExchange /\ value.pending = <<>>
      /\ value.pipe = session[s].pipe
  BY DEF IInv, Typed, SessionFields
<1> HIDE DEF value
<1>3. /\ session'[s] = value /\ \A t \in Sessions : t # s => session'[t] = session[t]
  BY <1>1 DEF IInv, Typed
<1>4. setting' = setting /\ exchange' = exchange /\ server' = server /\ said' = said /\ got' = got
  BY DEF OutputEnds
<1>5. /\ \A t, r : Answered(t, r)' = Answered(t, r) /\ Asked(t, r)' = Asked(t, r)
      /\ \A t : Said(t)' = Said(t)
      /\ \A e : Got(e)' = Got(e) /\ Ids(e)' = Ids(e)
  BY <1>4 DEF Answered, Said, Asked, Ids, Answer, Got
<1>6. RoutesTyped'
  <2>1. <<>> \in Seq(Words)
    OBVIOUS
  <2>2. ASSUME NEW t \in Sessions
        PROVE  /\ session'[t].pending \in Seq(Words)
               /\ session'[t].standalone \in Exchanges \union {NoExchange}
               /\ \A x \in session'[t].streams : DOMAIN x = {"post", "waiting", "nth"} /\ x.post \in Exchanges
    BY <1>2, <1>3, <2>1 DEF RInv, RoutesTyped
  <2> QED BY <1>4, <2>2 DEF RInv, RoutesTyped
<1>7. OwedAreAsked' /\ OwedOnce' /\ NoticesAreNumbered'
  BY <1>4, <1>5 DEF RInv, OwedAreAsked, OwedOnce, NoticesAreNumbered, Notices
<1>8. PartsOnce'
  <2>1. \A t \in Sessions : session'[t].pipe = session[t].pipe
    BY <1>2, <1>3
  <2> QED BY <1>4, <1>5, <2>1 DEF RInv, PartsOnce
<1>9. StreamsWait'
  BY <1>2, <1>3, <1>4, <1>5 DEF RInv, StreamsWait
<1>10. WaitersAreHeld' /\ DoneAreAnswered' /\ AnswersAreGot'
  <2>1. \A e \in Exchanges : Receiving(e) <=> Receiving(e)'
    BY <1>4 DEF Receiving
  <2>2. \A e \in Exchanges : exchange[e].step \in Opened => exchange[e].session \in Sessions
    BY WrittenIsBegun
  <2>3. \A e \in Exchanges : Receiving(e) => exchange[e].step \in Opened
    BY DEF Receiving, Opened
  <2>4. WaitersAreHeld'
    BY <1>2, <1>3, <1>4, <1>5, <2>1, <2>2, <2>3 DEF RInv, WaitersAreHeld
  <2>5. DoneAreAnswered'
    BY <1>2, <1>3, <1>4, <1>5, <2>2 DEF RInv, DoneAreAnswered, Opened
  <2>6. AnswersAreGot'
    BY <1>4, <1>5 DEF RInv, AnswersAreGot
  <2> QED BY <2>4, <2>5, <2>6
<1>11. \A t \in Sessions : Len(said[t]) \in Nat
  BY RangeOfSaid, LenProperties DEF RInv
<1>12. Range(<<>>) = {} /\ Len(<<>>) = 0
  BY DEF Range
<1>13. ToldWasSaid'
  BY <1>2, <1>3, <1>4, <1>5, <1>11, <1>12 DEF RInv, ToldWasSaid, NoExchange
<1>14. ToldOnce'
  BY <1>2, <1>3, <1>5, <1>12 DEF RInv, ToldOnce
<1>15. SaidIsTold'
  BY <1>2, <1>3, <1>4, <1>5 DEF RInv, SaidIsTold, Excused
<1>16. ToldInOrder'
  <2>1. InOrder(<<>>, said[s])
    BY DEF InOrder
  <2> QED BY <1>2, <1>3, <1>4, <2>1 DEF RInv, ToldInOrder
<1> QED BY <1>6, <1>7, <1>8, <1>9, <1>10, <1>13, <1>14, <1>15, <1>16 DEF RInv

\* No two servers say the same.
LEMMA SaidApart ==
    ASSUME RInv, NEW s \in Sessions, NEW t \in Sessions, s # t
    PROVE  Said(s) \intersect Said(t) = {}
<1> SUFFICES ASSUME NEW line \in Said(s), line \in Said(t) PROVE FALSE
  OBVIOUS
<1>1. line \in Words
  BY RangeOfSaid DEF RInv
<1>2. CASE line.kind = "notice"
  BY <1>2 DEF RInv, NoticesAreNumbered
<1>3. CASE line.kind = "answer"
  <2>1. line.id \in Requests /\ line = Answer(line.id)
    BY <1>1, <1>3 DEF Words, Answer
  <2> QED BY <2>1 DEF RInv, OwedAreAsked, Answered, Asked
<1> QED BY <1>1, <1>2, <1>3 DEF Words

-----------------------------------------------------------------------------
(* Streams that are opened. *)

\* Before its stream is opened an exchange has asked and been told nothing.
LEMMA Unopened ==
    ASSUME IInv, RInv, NEW e \in Exchanges, exchange[e].step = "opening", NEW s, s = exchange[e].session
    PROVE  /\ s \in Sessions /\ exchange[e].written # setting.pieces /\ got[e] = <<>>
           /\ \A r \in Ids(e) : ~Answered(s, r)
           /\ \A t \in Sessions : \A x \in session[t].streams : x.post # e
<1>1. s \in Sessions /\ exchange[e].written # setting.pieces
  BY Begun DEF IInv, Unwritten
<1>2. got[e] = <<>>
  BY DEF RInv, ToldWasSaid, Opened
<1>3. \A r \in Ids(e) : ~Answered(s, r)
  BY <1>1, OwnIds DEF RInv, OwedAreAsked, Asked
<1>4. \A t \in Sessions : \A x \in session[t].streams : x.post # e
  BY DEF RInv, StreamsWait, Opened
<1> QED BY <1>1, <1>2, <1>3, <1>4

\* An exchange that opens, as far as its asking goes.
LEMMA OpeningGoes ==
    ASSUME IInv, setting' = setting, NEW e \in Exchanges, NEW step \in Opened \ {"done", "gone"}, Goes(e, step),
           exchange[e].step = "opening"
    PROVE  /\ \A d \in Exchanges : Continues(d) /\ Ids(d)' = Ids(d) /\ exchange'[d].session = exchange[d].session
           /\ \A d \in Exchanges : d # e => exchange'[d] = exchange[d]
           /\ exchange'[e].step = step /\ exchange'[e].written = exchange[e].written
<1> DEFINE x == [exchange[e] EXCEPT !.step = step]
<1>1. exchange' = [exchange EXCEPT ![e] = x]
  BY DEF Goes
<1>2. x.step = step /\ x.written = exchange[e].written /\ x.session = exchange[e].session /\ x.kind = exchange[e].kind
  BY DEF IInv, Typed
<1> HIDE DEF x
<1>3. exchange'[e] = x /\ \A d \in Exchanges : d # e => exchange'[d] = exchange[d]
  BY <1>1 DEF IInv, Typed
<1>4. \A d \in Exchanges : exchange'[d].session = exchange[d].session /\ exchange'[d].kind = exchange[d].kind
  BY <1>2, <1>3
<1>5. \A d \in Exchanges : Ids(d)' = Ids(d)
  BY <1>4 DEF Ids
<1>6. \A d \in Exchanges : Continues(d)
  BY <1>2, <1>3, <1>4 DEF Continues, Opened
<1> QED BY <1>2, <1>3, <1>4, <1>5, <1>6

\* Answers are where they were, and the exchange that opened has been given none.
LEMMA OpenedAnswers ==
    ASSUME IInv, RInv, setting' = setting, said' = said, NEW e \in Exchanges, exchange[e].step = "opening",
           \A d \in Exchanges : Ids(d)' = Ids(d) /\ exchange'[d].session = exchange[d].session,
           \A d \in Exchanges : d # e => exchange'[d] = exchange[d] /\ got'[d] = got[d],
           exchange'[e].step # "done",
           \A s \in Sessions : session'[s].ended = session[s].ended
    PROVE  DoneAreAnswered' /\ AnswersAreGot'
<1>1. \A s, r : Answered(s, r)' = Answered(s, r)
  BY DEF Answered, Said
<1>2. DoneAreAnswered'
  <2> SUFFICES ASSUME NEW d \in Exchanges, exchange'[d].step = "done", exchange'[d].written = setting.pieces,
                      NEW s, s = exchange'[d].session
               PROVE  session'[s].ended \/ \A r \in Ids(d)' : Answered(s, r)
    BY <1>1 DEF DoneAreAnswered
  <2>1. exchange[d].step = "done" /\ exchange[d].written = setting.pieces /\ exchange[d].session = s
    OBVIOUS
  <2>2. s \in Sessions
    BY <2>1, WrittenIsBegun DEF Opened
  <2> QED BY <2>1, <2>2 DEF RInv, DoneAreAnswered
<1>3. AnswersAreGot'
  <2> SUFFICES ASSUME NEW d \in Exchanges, exchange'[d].step \in Opened \ {"gone"},
                      NEW r \in Ids(d)', Answered(exchange'[d].session, r)
               PROVE  Answer(r) \in Range(got'[d])
    BY <1>1 DEF AnswersAreGot, Got, Answer
  <2>1. r \in Ids(d) /\ Answered(exchange[d].session, r)
    OBVIOUS
  <2>2. d # e
    BY <2>1, Unopened
  <2> QED BY <2>1, <2>2 DEF RInv, AnswersAreGot, Got
<1> QED BY <1>2, <1>3

LEMMA OpenPost ==
    ASSUME IInv, IInv', RInv, NEW e \in Exchanges, exchange[e].step = "opening",
           NEW s, s = exchange[e].session, OpenStream(s, e), Goes(e, "sending"),
           setting' = setting, server' = server, said' = said
    PROVE  RInv'
<1> DEFINE new == [post |-> e, waiting |-> Ids(e), nth |-> 1 + Max({0} \union {x.nth : x \in session[s].streams})]
           value == [session[s] EXCEPT !.streams = session[s].streams \union {new}]
<1>1. /\ s \in Sessions /\ exchange[e].written # setting.pieces
      /\ \A r \in Ids(e) : ~Answered(s, r)
      /\ \A t \in Sessions : \A x \in session[t].streams : x.post # e
  BY Unopened
<1>2. new.post = e /\ new.waiting = Ids(e) /\ DOMAIN new = {"post", "waiting", "nth"}
  OBVIOUS
<1>3. /\ value.streams = session[s].streams \union {new} /\ value.standalone = session[s].standalone
      /\ value.pending = session[s].pending /\ value.ended = session[s].ended /\ value.pipe = session[s].pipe
      /\ DOMAIN value = SessionFields
  BY <1>1 DEF IInv, Typed, SessionFields
<1>4. \/ session' = session /\ (session[s].ended \/ Ids(e) = {})
      \/ session' = [session EXCEPT ![s] = value]
  BY DEF OpenStream, Changed, Pushed
<1>5. got' = got
  BY DEF OpenStream
<1> HIDE DEF new, value
<1>6. PipesStay
  BY <1>1, <1>3, <1>4, PipeStays, Unchanged
<1>7. ListsStay /\ OwesStay
  <2>1. \A t \in Sessions : session'[t] = session[t] \/ (t = s /\ session'[t] = value)
    <3>1. session' = session \/ session' = [session EXCEPT ![s] = value]
      BY <1>4
    <3>2. session = [t \in Sessions |-> session[t]]
      BY DEF IInv, Typed
    <3> QED BY <3>1, <3>2
  <2> QED BY <1>3, <1>5, <2>1 DEF ListsStay, OwesStay
<1>8. \A t \in Sessions : \/ session'[t].streams = session[t].streams
                          \/ t = s /\ session'[t].streams = session[t].streams \union {new}
  BY <1>3, <1>4 DEF IInv, Typed
<1>9. session[s].ended \/ Ids(e) = {} \/ new \in session'[s].streams
  BY <1>1, <1>3, <1>4 DEF IInv, Typed
<1>10. /\ \A d \in Exchanges : Continues(d) /\ Ids(d)' = Ids(d) /\ exchange'[d].session = exchange[d].session
       /\ \A d \in Exchanges : d # e => exchange'[d] = exchange[d]
       /\ exchange'[e].step = "sending"
  BY OpeningGoes DEF Opened
<1>11. OwedAreAsked' /\ NoticesAreNumbered' /\ OwedOnce'
  BY <1>7, <1>10, OwedStays DEF RInv
<1>12. ToldWasSaid' /\ ToldOnce' /\ SaidIsTold' /\ ToldInOrder'
  BY <1>7, <1>10, ToldStays
<1>13. PartsOnce'
  BY <1>6, <1>7 DEF RInv, PartsOnce, ListsStay, OwesStay, PipesStay, Answered, Said, Answer
<1>14. RoutesTyped'
  <2>1. \A t \in Sessions : \A x \in session'[t].streams :
           DOMAIN x = {"post", "waiting", "nth"} /\ x.post \in Exchanges
    <3> SUFFICES ASSUME NEW t \in Sessions, NEW x \in session'[t].streams
                 PROVE  DOMAIN x = {"post", "waiting", "nth"} /\ x.post \in Exchanges
      OBVIOUS
    <3>1. CASE x \in session[t].streams
      BY <3>1 DEF RInv, RoutesTyped
    <3>2. CASE x = new
      BY <1>2, <3>2
    <3> QED BY <1>8, <3>1, <3>2
  <2> QED BY <1>7, <2>1 DEF RInv, RoutesTyped, ListsStay
<1>15. \A t, r : Answered(t, r)' = Answered(t, r)
  BY DEF Answered, Said
<1>16. StreamsWait'
  <2> SUFFICES ASSUME NEW t \in Sessions, NEW x \in session'[t].streams
               PROVE  /\ exchange'[x.post].session = t /\ exchange'[x.post].step \in Opened
                      /\ x.waiting = {r \in Ids(x.post)' : ~Answered(t, r)}
                      /\ \A y \in session'[t].streams : x.post = y.post => x = y
    BY <1>15 DEF StreamsWait
  <2>1. CASE x \in session[t].streams
    <3>1. /\ exchange[x.post].session = t /\ exchange[x.post].step \in Opened /\ x.post \in Exchanges
          /\ x.waiting = {r \in Ids(x.post) : ~Answered(t, r)}
          /\ \A y \in session[t].streams : x.post = y.post => x = y
      BY <2>1 DEF RInv, RoutesTyped, StreamsWait
    <3>2. x.post # e
      BY <1>1, <2>1
    <3> QED BY <1>2, <1>8, <1>10, <3>1, <3>2
  <2>2. CASE x \notin session[t].streams
    <3>1. t = s /\ x = new
      BY <1>8, <2>2
    <3>2. x.waiting = {r \in Ids(e) : ~Answered(s, r)}
      BY <1>1, <1>2, <3>1
    <3> QED BY <1>1, <1>2, <1>8, <1>10, <3>1, <3>2 DEF Opened
  <2> QED BY <2>1, <2>2
<1>17. WaitersAreHeld'
  <2> SUFFICES ASSUME NEW d \in Exchanges, Receiving(d)', NEW t, t = exchange[d].session
               PROVE  \/ session'[t].ended
                      \/ \E x \in session'[t].streams : x.post = d
                      \/ \A r \in Ids(d) : Answered(t, r)
    BY <1>10, <1>15 DEF WaitersAreHeld
  <2>1. CASE d = e
    BY <1>1, <1>2, <1>7, <1>9, <2>1 DEF ListsStay
  <2>2. CASE d # e
    <3>1. Receiving(d) /\ t \in Sessions
      BY <1>10, <2>2, WrittenIsBegun DEF Receiving, Opened
    <3> QED BY <1>7, <1>8, <3>1 DEF RInv, WaitersAreHeld, ListsStay
  <2> QED BY <2>1, <2>2
<1>18. DoneAreAnswered' /\ AnswersAreGot'
  <2>1. \A t \in Sessions : session'[t].ended = session[t].ended
    BY <1>7 DEF ListsStay
  <2>2. exchange'[e].step # "done" /\ \A d \in Exchanges : d # e => exchange'[d] = exchange[d] /\ got'[d] = got[d]
    BY <1>5, <1>10
  <2> QED BY <1>10, <2>1, <2>2, OpenedAnswers
<1> QED BY <1>11, <1>12, <1>13, <1>14, <1>16, <1>17, <1>18 DEF RInv

LEMMA OpenGet ==
    ASSUME IInv, IInv', RInv, NEW e \in Exchanges, exchange[e].step = "opening", exchange[e].kind = "get",
           NEW s, s = exchange[e].session, OpenStandalone(s, e), Goes(e, "streaming"),
           setting' = setting, server' = server, said' = said
    PROVE  RInv'
<1> DEFINE value == [session[s] EXCEPT !.standalone = e, !.pending = <<>>]
<1>1. /\ s \in Sessions /\ exchange[e].written # setting.pieces /\ got[e] = <<>>
      /\ \A t \in Sessions : \A x \in session[t].streams : x.post # e
  BY Unopened
<1>2. Ids(e) = {}
  BY DEF Ids
<1>3. /\ value.streams = session[s].streams /\ value.standalone = e
      /\ value.pending = <<>> /\ value.ended = session[s].ended /\ value.pipe = session[s].pipe
      /\ DOMAIN value = SessionFields
  BY <1>1 DEF IInv, Typed, SessionFields
<1>4. \/ session' = session /\ got' = got
      \/ session' = [session EXCEPT ![s] = value] /\ got' = [got EXCEPT ![e] = session[s].pending]
  BY DEF OpenStandalone
<1> HIDE DEF value
<1>5. PipesStay
  BY <1>1, <1>3, <1>4, PipeStays, Unchanged
<1>6. /\ \A d \in Exchanges : Continues(d) /\ Ids(d)' = Ids(d) /\ exchange'[d].session = exchange[d].session
      /\ \A d \in Exchanges : d # e => exchange'[d] = exchange[d]
      /\ exchange'[e].step = "streaming"
  BY OpeningGoes DEF Opened
<1>7. \A t \in Sessions : \/ session'[t] = session[t]
                          \/ t = s /\ session'[t] = value
  BY <1>4 DEF IInv, Typed
<1>8. \A t \in Sessions : /\ session'[t].streams = session[t].streams /\ session'[t].ended = session[t].ended
                          /\ session'[t].pipe = session[t].pipe
  BY <1>3, <1>7
<1>9. \A t, r : Answered(t, r)' = Answered(t, r)
  BY DEF Answered, Said
<1>10. OwedAreAsked' /\ NoticesAreNumbered' /\ OwedOnce'
  <2>1. ASSUME NEW r \in Requests, NEW t \in Sessions, Asked(t, r) PROVE Asked(t, r)'
    <3>1. r[1] \in Exchanges
      BY DEF Requests
    <3> QED BY <1>6, <2>1, <3>1 DEF Asked, Continues
  <2>2. OwedAreAsked'
    BY <1>9, <2>1 DEF RInv, OwedAreAsked
  <2> QED BY <1>9, <2>2 DEF RInv, NoticesAreNumbered, OwedOnce, Said, Notices
<1>11. PartsOnce'
  BY <1>8, <1>9 DEF RInv, PartsOnce
<1>12. StreamsWait'
  <2> SUFFICES ASSUME NEW t \in Sessions, NEW x \in session[t].streams
               PROVE  /\ exchange'[x.post].session = t /\ exchange'[x.post].step \in Opened
                      /\ x.waiting = {r \in Ids(x.post)' : ~Answered(t, r)}
                      /\ \A y \in session[t].streams : x.post = y.post => x = y
    BY <1>8, <1>9 DEF StreamsWait
  <2>1. /\ exchange[x.post].session = t /\ exchange[x.post].step \in Opened /\ x.post \in Exchanges
        /\ x.waiting = {r \in Ids(x.post) : ~Answered(t, r)}
        /\ \A y \in session[t].streams : x.post = y.post => x = y
    BY DEF RInv, RoutesTyped, StreamsWait
  <2> QED BY <1>1, <1>6, <2>1
<1>13. WaitersAreHeld'
  <2> SUFFICES ASSUME NEW d \in Exchanges, Receiving(d)', NEW t, t = exchange[d].session
               PROVE  \/ session'[t].ended
                      \/ \E x \in session'[t].streams : x.post = d
                      \/ \A r \in Ids(d) : Answered(t, r)
    BY <1>6, <1>9 DEF WaitersAreHeld
  <2>1. CASE d = e
    BY <1>2, <2>1
  <2>2. CASE d # e
    <3>1. Receiving(d) /\ t \in Sessions
      BY <1>6, <2>2, WrittenIsBegun DEF Receiving, Opened
    <3> QED BY <1>8, <3>1 DEF RInv, WaitersAreHeld
  <2> QED BY <2>1, <2>2
<1>14. DoneAreAnswered' /\ AnswersAreGot'
  <2>1. exchange'[e].step # "done"
    BY <1>6
  <2>2. \A d \in Exchanges : d # e => exchange'[d] = exchange[d] /\ got'[d] = got[d]
    BY <1>4, <1>6 DEF RInv, RoutesTyped
  <2> QED BY <1>6, <1>8, <2>1, <2>2, OpenedAnswers
<1>15. CASE session' = session /\ got' = got
  <2>1. ListsStay
    BY <1>15 DEF ListsStay
  <2>2. ToldWasSaid' /\ ToldOnce' /\ SaidIsTold' /\ ToldInOrder'
    BY <1>6, <2>1, ToldStays
  <2>3. RoutesTyped'
    BY <1>15 DEF RInv, RoutesTyped
  <2> QED BY <1>10, <1>11, <1>12, <1>13, <1>14, <2>2, <2>3 DEF RInv
\* What waited for a standalone stream is sent on it.
<1>16. CASE session' = [session EXCEPT ![s] = value] /\ got' = [got EXCEPT ![e] = session[s].pending]
  <2>1. /\ session'[s] = value /\ \A t \in Sessions : t # s => session'[t] = session[t]
        /\ got'[e] = session[s].pending /\ \A d \in Exchanges : d # e => got'[d] = got[d]
    BY <1>1, <1>16 DEF IInv, Typed, RInv, RoutesTyped
  <2>2. Range(<<>>) = {} /\ Len(<<>>) = 0 /\ <<>> \in Seq(Words)
    BY DEF Range
  <2>3. RoutesTyped'
    <3>1. got' \in [Exchanges -> Seq(Words)]
      BY <1>1, <1>16 DEF RInv, RoutesTyped
    <3>2. ASSUME NEW t \in Sessions
          PROVE  /\ session'[t].pending \in Seq(Words)
                 /\ session'[t].standalone \in Exchanges \union {NoExchange}
                 /\ \A x \in session'[t].streams : DOMAIN x = {"post", "waiting", "nth"} /\ x.post \in Exchanges
      <4>1. \A x \in session[t].streams : DOMAIN x = {"post", "waiting", "nth"} /\ x.post \in Exchanges
        BY DEF RInv, RoutesTyped
      <4>2. session[t].pending \in Seq(Words) /\ session[t].standalone \in Exchanges \union {NoExchange}
        BY DEF RInv, RoutesTyped
      <4>3. session'[t].streams = session[t].streams
        BY <1>8
      <4>4. session'[t].pending = (IF t = s THEN <<>> ELSE session[t].pending)
            /\ session'[t].standalone = (IF t = s THEN e ELSE session[t].standalone)
        BY <1>3, <2>1
      <4> QED BY <2>2, <4>1, <4>2, <4>3, <4>4
    <3> QED BY <3>1, <3>2 DEF RInv, RoutesTyped
  <2>4. \A t \in Sessions : Len(said[t]) \in Nat
    BY RangeOfSaid, LenProperties DEF RInv
  <2>5. ToldWasSaid'
    <3>1. ASSUME NEW d \in Exchanges, got'[d] # <<>>
          PROVE  exchange'[d].step \in Opened /\ Range(got'[d]) \subseteq Range(said[exchange'[d].session])
      BY <1>1, <1>6, <2>1, <3>1 DEF RInv, ToldWasSaid, Opened, Got, Said
    <3>2. ASSUME NEW t \in Sessions
          PROVE  /\ Range(session'[t].pending) \subseteq Range(said[t])
                 /\ Len(session'[t].pending) <= Len(said[t])
                 /\ session'[t].standalone # NoExchange =>
                       /\ exchange'[session'[t].standalone].session = t
                       /\ exchange'[session'[t].standalone].step \in Opened
      <4>1. CASE t = s
        BY <1>3, <1>6, <2>1, <2>2, <2>4, <4>1 DEF Opened
      <4>2. CASE t # s
        <5>1. session[t].standalone # NoExchange =>
                 /\ session[t].standalone \in Exchanges
                 /\ exchange[session[t].standalone].session = t
                 /\ exchange[session[t].standalone].step \in Opened
          BY DEF RInv, RoutesTyped, ToldWasSaid
        <5> QED BY <1>6, <2>1, <4>2, <5>1 DEF RInv, ToldWasSaid, Said, Opened
      <4> QED BY <4>1, <4>2
    <3> QED BY <3>1, <3>2 DEF ToldWasSaid, Got, Said
  <2>6. \A d \in Exchanges : Range(got'[d]) = IF d = e THEN Range(session[s].pending) ELSE Got(d)
    BY <2>1 DEF Got
  <2>7. \A t \in Sessions : Range(session'[t].pending) = IF t = s THEN {} ELSE Range(session[t].pending)
    <3> SUFFICES ASSUME NEW t \in Sessions
                 PROVE  Range(session'[t].pending) = IF t = s THEN {} ELSE Range(session[t].pending)
      OBVIOUS
    <3>1. CASE t = s
      <4>1. session'[t].pending = <<>>
        BY <1>3, <2>1, <3>1
      <4> QED BY <2>2, <3>1, <4>1
    <3>2. CASE t # s
      BY <2>1, <3>2
    <3> QED BY <3>1, <3>2
  <2>8. ToldOnce'
    <3>1. \A d \in Exchanges : Range(session[s].pending) \intersect Got(d) = {}
      BY <1>1 DEF RInv, ToldOnce
    <3>2. \A t \in Sessions : t # s => Range(session[t].pending) \intersect Range(session[s].pending) = {}
      BY <1>1, SaidApart DEF RInv, ToldWasSaid
    <3>3. \A d, c \in Exchanges : \A line \in Range(got'[d]) \intersect Range(got'[c]) : d = c
      BY <2>6, <3>1 DEF RInv, ToldOnce
    <3>4. \A t \in Sessions : \A d \in Exchanges : \A line \in Range(session'[t].pending) : line \notin Range(got'[d])
      BY <2>6, <2>7, <3>2 DEF RInv, ToldOnce
    <3> QED BY <3>3, <3>4 DEF ToldOnce, Got
  <2>9. SaidIsTold'
    <3> SUFFICES ASSUME NEW t \in Sessions, NEW line \in Said(t)
                 PROVE  \/ \E d \in Exchanges : line \in Range(got'[d])
                        \/ line \in Range(session'[t].pending)
                        \/ Excused(t, line)'
      BY DEF SaidIsTold, Said, Got
    <3>1. \/ \E d \in Exchanges : line \in Got(d)
          \/ line \in Range(session[t].pending)
          \/ Excused(t, line)
      BY DEF RInv, SaidIsTold
    <3>2. CASE \E d \in Exchanges : line \in Got(d)
      BY <1>1, <2>2, <2>6, <3>2 DEF Got
    <3>3. CASE line \in Range(session[t].pending)
      BY <2>6, <2>7, <3>3
    <3>4. CASE Excused(t, line)
      <4>1. line.kind = "answer" => line.id[1] \in Exchanges
        BY RangeOfSaid DEF RInv, Words, Requests
      <4> QED BY <1>6, <1>8, <3>4, <4>1 DEF Excused, Continues
    <3> QED BY <3>1, <3>2, <3>3, <3>4
  <2>10. ToldInOrder'
    <3>1. \A t \in Sessions : InOrder(session'[t].pending, said[t])
      <4>1. InOrder(<<>>, said[s])
        BY DEF InOrder
      <4> QED BY <1>3, <2>1, <4>1 DEF RInv, ToldInOrder
    <3>2. ASSUME NEW d \in Exchanges, got'[d] # <<>> PROVE InOrder(got'[d], said[exchange'[d].session])
      BY <1>1, <1>6, <2>1, <3>2 DEF RInv, ToldInOrder
    <3> QED BY <3>1, <3>2 DEF ToldInOrder
  <2> QED BY <1>10, <1>11, <1>12, <1>13, <1>14, <2>3, <2>5, <2>8, <2>9, <2>10 DEF RInv
<1> QED BY <1>4, <1>15, <1>16

LEMMA OpenRoutes == ASSUME IInv, IInv', RInv, NEW e \in Exchanges, Open(e) PROVE RInv'
<1>1. exchange[e].step = "opening" /\ setting' = setting /\ server' = server /\ said' = said
  BY DEF Open
<1>2. CASE exchange[e].kind = "get"
  BY <1>1, <1>2, OpenGet DEF Open
<1>3. CASE exchange[e].kind # "get"
  BY <1>1, <1>3, OpenPost DEF Open
<1> QED BY <1>2, <1>3

-----------------------------------------------------------------------------
(* What a server says. *)

\* A line a server has not said yet, and nobody else has; an answer it owes.
Fresh(s, line) ==
    /\ s \in Sessions /\ line \in Words /\ ~session[s].ended
    /\ \A t \in Sessions : line \notin Said(t)
    /\ line.kind = "answer" => Asked(s, line.id)

\* It is said, and whatever else happens happens to the session's routes.
Speaks(s, line) ==
    /\ setting' = setting /\ exchange' = exchange
    /\ said' = [said EXCEPT ![s] = Append(said[s], line)]
    /\ \A t \in Sessions : t # s => session'[t] = session[t]
    /\ session'[s].ended = session[s].ended /\ session'[s].pipe = session[s].pipe
    /\ session'[s].standalone \in {session[s].standalone, NoExchange}

\* It is sent to an exchange, or waits for a stream, or is dropped.
Told(s, line, to, kept) ==
    /\ to \in Exchanges \union {NoExchange} /\ kept \in {{}, {line}}
    /\ got' = IF to = NoExchange THEN got ELSE [got EXCEPT ![to] = Append(got[to], line)]
    /\ session'[s].pending = IF kept = {} THEN session[s].pending ELSE Append(session[s].pending, line)
    /\ to # NoExchange => kept = {} /\ exchange[to].session = s /\ exchange[to].step \in Opened
    /\ to = NoExchange /\ kept = {} =>
          \/ line.kind = "answer" /\ exchange[line.id[1]].step \in {"done", "gone"}
          \/ line.kind = "notice" /\ Len(session[s].pending) >= PENDING_LIMIT

LEMMA SaidMore ==
    ASSUME RInv, NEW s, NEW line, Fresh(s, line), Speaks(s, line)
    PROVE  /\ said'[s] = Append(said[s], line) /\ said'[s] \in Seq(Words)
           /\ Len(said[s]) \in Nat /\ Len(said'[s]) = Len(said[s]) + 1
           /\ Range(said'[s]) = Said(s) \union {line}
           /\ \A t \in Sessions : t # s => said'[t] = said[t]
           /\ said' \in [Sessions -> Seq(Words)]
<1>1. s \in Sessions /\ line \in Words /\ said[s] \in Seq(Words)
  BY RangeOfSaid DEF Fresh, RInv
<1>2. said'[s] = Append(said[s], line) /\ \A t \in Sessions : t # s => said'[t] = said[t]
  BY <1>1 DEF Speaks, RInv, RoutesTyped
<1>3. /\ Append(said[s], line) \in Seq(Words) /\ Len(Append(said[s], line)) = Len(said[s]) + 1
      /\ Range(Append(said[s], line)) = Range(said[s]) \union {line}
  BY <1>1, RangeOfAppend
<1>4. said' \in [Sessions -> Seq(Words)]
  BY <1>1, <1>3 DEF Speaks, RInv, RoutesTyped
<1>5. Len(said[s]) \in Nat
  BY <1>1, LenProperties
<1> QED BY <1>2, <1>3, <1>4, <1>5 DEF Said

LEMMA AnsweredMore ==
    ASSUME RInv, NEW s, NEW line, Fresh(s, line), Speaks(s, line)
    PROVE  \A t \in Sessions : \A r : Answered(t, r)' <=> Answered(t, r) \/ (t = s /\ line = Answer(r))
<1> SUFFICES ASSUME NEW t \in Sessions, NEW r
             PROVE  Answer(r) \in Range(said'[t]) <=> Answer(r) \in Range(said[t]) \/ (t = s /\ line = Answer(r))
  BY DEF Answered, Said, Answer
<1>1. Range(said'[s]) = Range(said[s]) \union {line} /\ \A u \in Sessions : u # s => said'[u] = said[u]
  <2>1. Range(said'[s]) = Said(s) \union {line} /\ \A u \in Sessions : u # s => said'[u] = said[u]
    BY SaidMore
  <2> QED BY <2>1 DEF Said
<1>2. CASE t = s
  BY <1>1, <1>2
<1>3. CASE t # s
  BY <1>1, <1>3
<1> QED BY <1>2, <1>3

LEMMA ToldMore ==
    ASSUME IInv, RInv, NEW s, NEW line, Fresh(s, line), Speaks(s, line), NEW to, NEW kept, Told(s, line, to, kept)
    PROVE  ToldWasSaid' /\ ToldOnce' /\ SaidIsTold' /\ ToldInOrder'
<1>1. s \in Sessions /\ line \in Words /\ \A t \in Sessions : line \notin Said(t)
  BY DEF Fresh
<1>2. /\ said'[s] = Append(said[s], line) /\ Len(said[s]) \in Nat /\ Len(said'[s]) = Len(said[s]) + 1
      /\ Range(said'[s]) = Said(s) \union {line}
      /\ \A t \in Sessions : t # s => said'[t] = said[t]
  BY SaidMore
<1>3. exchange' = exchange /\ \A t \in Sessions : t # s => session'[t] = session[t]
  BY DEF Speaks
<1>4. \A d \in Exchanges : d # to => got'[d] = got[d]
  BY DEF Told, RInv, RoutesTyped
<1>5. ASSUME to # NoExchange
      PROVE  /\ to \in Exchanges /\ kept = {} /\ exchange[to].session = s /\ exchange[to].step \in Opened
             /\ got'[to] = Append(got[to], line) /\ got[to] \in Seq(Words)
  BY <1>5 DEF Told, RInv, RoutesTyped
<1>6. \A d \in Exchanges : got[d] \in Seq(Words)
  BY DEF RInv, RoutesTyped
<1>7. NoExchange \notin Exchanges
  BY DEF NoExchange, Exchanges
<1>8. \A d \in Exchanges : Range(got'[d]) = IF d = to THEN Got(d) \union {line} ELSE Got(d)
  <2> SUFFICES ASSUME NEW d \in Exchanges, d = to PROVE Range(got'[d]) = Got(d) \union {line}
    BY <1>4 DEF Got
  <2>1. got'[d] = Append(got[d], line) /\ got[d] \in Seq(Words) /\ line \in Words
    BY <1>1, <1>5, <1>7
  <2>2. Range(Append(got[d], line)) = Range(got[d]) \union {line}
    BY <2>1, RangeOfAppend
  <2> QED BY <2>1, <2>2 DEF Got
<1>9. session[s].pending \in Seq(Words)
  BY <1>1 DEF RInv, RoutesTyped
<1>10. kept = {} \/ kept = {line}
  BY DEF Told
<1>11. session'[s].pending = IF kept = {} THEN session[s].pending ELSE Append(session[s].pending, line)
  BY DEF Told
<1>12. Range(session'[s].pending) = Range(session[s].pending) \union kept
  BY <1>1, <1>9, <1>10, <1>11, RangeOfAppend
<1>13. \A d \in Exchanges : got[d] # <<>> =>
          exchange[d].step \in Opened /\ Got(d) \subseteq Said(exchange[d].session)
  BY DEF RInv, ToldWasSaid
<1>14. Range(session[s].pending) \subseteq Said(s)
  BY <1>1 DEF RInv, ToldWasSaid
<1>15. \A d \in Exchanges : line \notin Got(d)
  <2> SUFFICES ASSUME NEW d \in Exchanges, line \in Got(d) PROVE FALSE
    OBVIOUS
  <2>1. got[d] # <<>>
    BY DEF Got, Range
  <2>2. exchange[d].session \in Sessions
    BY <1>13, <2>1, WrittenIsBegun
  <2> QED BY <1>1, <1>13, <2>1, <2>2
<1>16. \A t \in Sessions : line \notin Range(session[t].pending)
  BY <1>1 DEF RInv, ToldWasSaid
<1>17. \A t \in Sessions : Said(t) \subseteq Range(said'[t])
  BY <1>2 DEF Said
<1>18. ToldWasSaid'
  <2>1. ASSUME NEW d \in Exchanges, got'[d] # <<>>
        PROVE  exchange[d].step \in Opened /\ Range(got'[d]) \subseteq Range(said'[exchange[d].session])
    <3>1. CASE d = to
      <4>1. exchange[d].session = s /\ exchange[d].step \in Opened
        BY <1>5, <1>7, <3>1
      <4>2. Got(d) \subseteq Said(s)
        BY <1>13, <4>1 DEF Got, Range
      <4> QED BY <1>2, <1>8, <3>1, <4>1, <4>2
    <3>2. CASE d # to
      <4>1. exchange[d].step \in Opened /\ Got(d) \subseteq Said(exchange[d].session)
        BY <1>4, <1>13, <2>1, <3>2
      <4>2. exchange[d].session \in Sessions
        BY <4>1, WrittenIsBegun
      <4> QED BY <1>8, <1>17, <3>2, <4>1, <4>2
    <3> QED BY <3>1, <3>2
  <2>2. ASSUME NEW t \in Sessions
        PROVE  /\ Range(session'[t].pending) \subseteq Range(said'[t])
               /\ Len(session'[t].pending) <= Len(said'[t])
               /\ session'[t].standalone # NoExchange =>
                     exchange[session'[t].standalone].session = t /\ exchange[session'[t].standalone].step \in Opened
    <3>1. CASE t # s
      BY <1>2, <1>3, <3>1 DEF RInv, ToldWasSaid, Said
    <3>2. CASE t = s
      <4>1. Range(session'[s].pending) \subseteq Range(said'[s])
        BY <1>2, <1>10, <1>12, <1>14
      <4>2. Len(session[s].pending) <= Len(said[s]) /\ Len(session[s].pending) \in Nat
        BY <1>1, <1>9, LenProperties DEF RInv, ToldWasSaid
      <4>3. Len(session'[s].pending) <= Len(said'[s])
        BY <1>1, <1>2, <1>9, <1>11, <4>2, RangeOfAppend
      <4>4. session'[s].standalone # NoExchange => session'[s].standalone = session[s].standalone
        BY DEF Speaks
      <4> QED BY <3>2, <4>1, <4>3, <4>4 DEF RInv, ToldWasSaid
    <3> QED BY <3>1, <3>2
  <2> QED BY <1>3, <2>1, <2>2 DEF ToldWasSaid, Got, Said
<1>19. ToldOnce'
  <2>1. \A d, c \in Exchanges : \A w \in Range(got'[d]) \intersect Range(got'[c]) : d = c
    <3> SUFFICES ASSUME NEW d \in Exchanges, NEW c \in Exchanges, NEW w \in Range(got'[d]) \intersect Range(got'[c])
                 PROVE  d = c
      OBVIOUS
    <3>1. CASE w = line
      BY <1>8, <1>15, <3>1
    <3>2. CASE w # line
      <4>1. w \in Got(d) /\ w \in Got(c)
        <5>1. \A b \in Exchanges : w \in Range(got'[b]) => w \in Got(b)
          BY <1>8, <3>2
        <5> QED BY <5>1
      <4> QED BY <4>1 DEF RInv, ToldOnce
    <3> QED BY <3>1, <3>2
  <2>2. \A t \in Sessions : \A d \in Exchanges : \A w \in Range(session'[t].pending) : w \notin Range(got'[d])
    <3> SUFFICES ASSUME NEW t \in Sessions, NEW d \in Exchanges, NEW w \in Range(session'[t].pending),
                        w \in Range(got'[d])
                 PROVE  FALSE
      OBVIOUS
    <3>1. CASE w = line
      <4>1. d = to
        BY <1>8, <1>15, <3>1
      <4>2. kept = {}
        BY <1>5, <1>7, <4>1
      <4> QED BY <1>3, <1>12, <1>16, <3>1, <4>2
    <3>2. CASE w # line
      <4>1. w \in Got(d)
        BY <1>8, <3>2
      <4>2. w \in Range(session[t].pending)
        BY <1>3, <1>10, <1>12, <3>2
      <4> QED BY <4>1, <4>2 DEF RInv, ToldOnce
    <3> QED BY <3>1, <3>2
  <2> QED BY <2>1, <2>2 DEF ToldOnce, Got
<1>20. SaidIsTold'
  <2> SUFFICES ASSUME NEW t \in Sessions, NEW w \in Range(said'[t])
               PROVE  \/ \E d \in Exchanges : w \in Range(got'[d])
                      \/ w \in Range(session'[t].pending)
                      \/ Excused(t, w)'
    BY DEF SaidIsTold, Said, Got
  <2>1. CASE w \in Said(t)
    <3>1. \/ \E d \in Exchanges : w \in Got(d)
          \/ w \in Range(session[t].pending)
          \/ Excused(t, w)
      BY <2>1 DEF RInv, SaidIsTold
    <3>2. Range(session[t].pending) \subseteq Range(session'[t].pending)
      BY <1>3, <1>12
    <3>3. CASE Excused(t, w)
      <4>1. session'[t].ended = session[t].ended
        BY DEF Speaks
      <4>2. Len(said[t]) > PENDING_LIMIT => Len(said'[t]) > PENDING_LIMIT
        BY <1>2, BridgeAssumption
      <4> QED BY <1>3, <3>3, <4>1, <4>2 DEF Excused
    <3> QED BY <1>8, <3>1, <3>2, <3>3
  <2>2. CASE w \notin Said(t)
    <3>1. t = s /\ w = line
      BY <1>2, <2>2 DEF Said
    <3>2. CASE to # NoExchange
      BY <1>5, <1>8, <3>1, <3>2
    <3>3. CASE kept # {}
      BY <1>10, <1>12, <3>1, <3>3
    <3>4. CASE to = NoExchange /\ kept = {}
      <4>1. \/ line.kind = "answer" /\ exchange[line.id[1]].step \in {"done", "gone"}
            \/ line.kind = "notice" /\ Len(session[s].pending) >= PENDING_LIMIT
        BY <3>4 DEF Told
      <4>2. Len(session[s].pending) <= Len(said[s]) /\ Len(session[s].pending) \in Nat
        BY <1>1, <1>9, LenProperties DEF RInv, ToldWasSaid
      <4>3. Len(session[s].pending) >= PENDING_LIMIT => Len(said'[s]) > PENDING_LIMIT
        BY <1>2, <4>2, BridgeAssumption
      <4> QED BY <1>3, <3>1, <4>1, <4>3 DEF Excused
    <3> QED BY <3>2, <3>3, <3>4
  <2> QED BY <2>1, <2>2
<1>21. ToldInOrder'
  <2>1. said[s] \in Seq(Words)
    BY <1>1 DEF RInv, RoutesTyped
  <2>2. ASSUME NEW lines \in Seq(Words), InOrder(lines, said[s]), Range(lines) \subseteq Range(said[s])
        PROVE  InOrder(lines, said'[s]) /\ InOrder(Append(lines, line), said'[s])
    BY <1>1, <1>2, <2>1, <2>2, OrderOfAppend
  <2>3. ASSUME NEW t \in Sessions PROVE InOrder(session'[t].pending, said'[t])
    <3>1. InOrder(session[t].pending, said[t])
      BY DEF RInv, ToldInOrder
    <3>2. CASE t = s
      <4>1. InOrder(session[s].pending, said'[s]) /\ InOrder(Append(session[s].pending, line), said'[s])
        BY <1>9, <1>14, <2>2, <3>1, <3>2 DEF Said
      <4> QED BY <1>11, <3>2, <4>1
    <3> QED BY <1>2, <1>3, <3>1, <3>2
  <2>4. ASSUME NEW d \in Exchanges, got'[d] # <<>> PROVE InOrder(got'[d], said'[exchange[d].session])
    <3>1. CASE exchange[d].session = s
      <4>1. InOrder(got[d], said[s]) /\ Got(d) \subseteq Said(s)
        <5>1. CASE got[d] = <<>>
          BY <5>1 DEF InOrder, Got, Range
        <5>2. CASE got[d] # <<>>
          BY <1>13, <3>1, <5>2 DEF RInv, ToldInOrder
        <5> QED BY <5>1, <5>2
      <4>2. InOrder(got[d], said'[s]) /\ InOrder(Append(got[d], line), said'[s])
        BY <1>6, <2>2, <4>1 DEF Got, Said
      <4>3. got'[d] = got[d] \/ got'[d] = Append(got[d], line)
        BY <1>4, <1>5, <1>7
      <4> QED BY <3>1, <4>2, <4>3
    <3>2. CASE exchange[d].session # s
      <4>1. got'[d] = got[d]
        BY <1>4, <1>5, <1>7, <3>2
      <4>2. exchange[d].session \in Sessions
        BY <1>13, <2>4, <4>1, WrittenIsBegun
      <4>3. said'[exchange[d].session] = said[exchange[d].session]
        BY <1>2, <3>2, <4>2
      <4> QED BY <2>4, <4>1, <4>3 DEF RInv, ToldInOrder
    <3> QED BY <3>1, <3>2
  <2> QED BY <1>3, <2>3, <2>4 DEF ToldInOrder
<1> QED BY <1>18, <1>19, <1>20, <1>21

\* The answers an exchange has are those of before, and the one being said.
LEMMA AnswersAfter ==
    ASSUME IInv, RInv, NEW s, NEW line, Fresh(s, line), Speaks(s, line), NEW to, NEW kept, Told(s, line, to, kept),
           \A e \in Exchanges : line.kind = "answer" /\ line.id[1] = e /\ Receiving(e) => to = e
    PROVE  DoneAreAnswered' /\ AnswersAreGot'
<1>1. \A t \in Sessions : \A r : Answered(t, r)' <=> Answered(t, r) \/ (t = s /\ line = Answer(r))
  BY AnsweredMore
<1>2. exchange' = exchange /\ setting' = setting /\ \A t \in Sessions : session'[t].ended = session[t].ended
  BY DEF Speaks
<1>3. \A e \in Exchanges : Ids(e)' = Ids(e)
  BY <1>2 DEF Ids
<1>4. \A e \in Exchanges : exchange[e].step \in Opened => exchange[e].session \in Sessions
  BY WrittenIsBegun
<1>5. DoneAreAnswered'
  BY <1>1, <1>2, <1>3, <1>4 DEF RInv, DoneAreAnswered, Opened
<1>6. AnswersAreGot'
  <2> SUFFICES ASSUME NEW e \in Exchanges, exchange[e].step \in Opened \ {"gone"}, NEW r \in Ids(e),
                      NEW t, t = exchange[e].session, Answered(t, r)'
               PROVE  Answer(r) \in Range(got'[e])
    BY <1>2, <1>3 DEF AnswersAreGot, Got, Answer
  <2>1. t \in Sessions
    BY <1>4
  <2>2. CASE Answered(t, r)
    <3>1. Answer(r) \in Got(e)
      BY <2>2 DEF RInv, AnswersAreGot
    <3>2. Got(e) \subseteq Range(got'[e])
      <4>1. got[e] \in Seq(Words) /\ line \in Words
        BY DEF RInv, RoutesTyped, Fresh
      <4>2. Range(Append(got[e], line)) = Got(e) \union {line}
        BY <4>1, RangeOfAppend DEF Got
      <4>3. got'[e] = got[e] \/ got'[e] = Append(got[e], line)
        BY DEF Told, RInv, RoutesTyped
      <4> QED BY <4>2, <4>3 DEF Got
    <3> QED BY <3>1, <3>2
  <2>3. CASE ~Answered(t, r)
    <3>1. t = s /\ line = Answer(r)
      BY <1>1, <2>1, <2>3
    <3>2. line.kind = "answer" /\ line.id = r /\ r[1] = e
      BY <3>1, OwnIds DEF Answer
    <3>3. Asked(s, r) /\ ~session[s].ended
      BY <3>2 DEF Fresh
    <3>4. exchange[e].step # "done"
      BY <2>3, <3>1, <3>2, <3>3 DEF RInv, DoneAreAnswered, Asked
    <3>5. Receiving(e)
      BY <3>4, BridgeAssumption DEF Opened, Receiving, NoExchange, Exchanges
    <3>6. to = e /\ e # NoExchange
      BY <3>2, <3>5 DEF Receiving
    <3>7. got'[e] = Append(got[e], line) /\ got[e] \in Seq(Words) /\ line \in Words
      BY <3>6 DEF Told, RInv, RoutesTyped, Fresh
    <3>8. line \in Range(Append(got[e], line))
      BY <3>7, RangeOfAppend
    <3> QED BY <3>1, <3>7, <3>8
  <2> QED BY <2>2, <2>3
<1> QED BY <1>5, <1>6

\* The routes of the session, as they were and with what was told.
LEMMA TypedAfter ==
    ASSUME RInv, NEW s, NEW line, Fresh(s, line), Speaks(s, line), NEW to, NEW kept, Told(s, line, to, kept),
           \A x \in session'[s].streams : DOMAIN x = {"post", "waiting", "nth"} /\ x.post \in Exchanges
    PROVE  RoutesTyped'
<1>1. s \in Sessions /\ line \in Words
  BY DEF Fresh
<1>2. said' \in [Sessions -> Seq(Words)]
  BY SaidMore
<1>3. got' \in [Exchanges -> Seq(Words)]
  <2>1. got \in [Exchanges -> Seq(Words)]
    BY DEF RInv, RoutesTyped
  <2>2. CASE to = NoExchange
    BY <2>1, <2>2 DEF Told
  <2>3. CASE to # NoExchange
    <3>1. to \in Exchanges /\ got' = [got EXCEPT ![to] = Append(got[to], line)]
      BY <2>3 DEF Told
    <3>2. Append(got[to], line) \in Seq(Words)
      BY <1>1, <2>1, <3>1, RangeOfAppend
    <3> QED BY <2>1, <3>1, <3>2
  <2> QED BY <2>2, <2>3
<1>4. ASSUME NEW t \in Sessions
      PROVE  /\ session'[t].pending \in Seq(Words)
             /\ session'[t].standalone \in Exchanges \union {NoExchange}
             /\ \A x \in session'[t].streams : DOMAIN x = {"post", "waiting", "nth"} /\ x.post \in Exchanges
  <2>1. /\ session[t].pending \in Seq(Words) /\ session[t].standalone \in Exchanges \union {NoExchange}
        /\ \A x \in session[t].streams : DOMAIN x = {"post", "waiting", "nth"} /\ x.post \in Exchanges
    BY DEF RInv, RoutesTyped
  <2>2. CASE t # s
    <3>1. session'[t] = session[t]
      BY <2>2 DEF Speaks
    <3> QED BY <2>1, <3>1
  <2>3. CASE t = s
    <3>1. Append(session[s].pending, line) \in Seq(Words)
      BY <1>1, <2>1, <2>3, RangeOfAppend
    <3>2. session'[s].pending \in Seq(Words)
      BY <2>1, <2>3, <3>1 DEF Told
    <3>3. session'[s].standalone \in Exchanges \union {NoExchange}
      BY <2>1, <2>3 DEF Speaks
    <3> QED BY <2>3, <3>2, <3>3
  <2> QED BY <2>2, <2>3
<1> QED BY <1>2, <1>3, <1>4 DEF RoutesTyped

\* A line goes to the stream that waits for it.
Answering(s, line, x, streams) ==
    /\ x \in session[s].streams /\ line.kind = "answer" /\ line.id \in x.waiting
    /\ streams = (session[s].streams \ {x}) \union
           IF x.waiting \ {line.id} = {} THEN {} ELSE {[x EXCEPT !.waiting = x.waiting \ {line.id}]}

\* Or to any, or to none: streams that nobody receives are closed.
Skipping(s, line, streams) ==
    /\ \A x \in session[s].streams : ~(line.kind = "answer" /\ line.id \in x.waiting)
    /\ streams = {x \in session[s].streams : Receiving(x.post)}

LEMMA StreamsAnswer ==
    ASSUME IInv, RInv, NEW s, NEW line, Fresh(s, line), Speaks(s, line),
           NEW x, Answering(s, line, x, session'[s].streams)
    PROVE  /\ StreamsWait' /\ WaitersAreHeld'
           /\ x.post \in Exchanges /\ x.post = line.id[1] /\ line = Answer(line.id)
           /\ exchange[x.post].session = s /\ exchange[x.post].step \in Opened
           /\ \A y \in session'[s].streams : DOMAIN y = {"post", "waiting", "nth"} /\ y.post \in Exchanges
<1> DEFINE streams == session'[s].streams
           r == line.id
           e == x.post
           left == x.waiting \ {r}
           new == [x EXCEPT !.waiting = left]
<1>1. /\ s \in Sessions /\ x \in session[s].streams /\ line.kind = "answer" /\ r \in x.waiting
      /\ streams = (session[s].streams \ {x}) \union IF left = {} THEN {} ELSE {new}
  BY DEF Answering, Fresh
<1>2. /\ DOMAIN x = {"post", "waiting", "nth"} /\ e \in Exchanges
      /\ exchange[e].session = s /\ exchange[e].step \in Opened
      /\ x.waiting = {q \in Ids(e) : ~Answered(s, q)}
      /\ \A y \in session[s].streams : y.post = e => y = x
  BY <1>1 DEF RInv, RoutesTyped, StreamsWait
<1>3. new.post = e /\ new.waiting = left /\ DOMAIN new = {"post", "waiting", "nth"}
  BY <1>2
<1>4. r \in Ids(e) /\ r[1] = e /\ line = Answer(r)
  <2>1. r \in Ids(e) /\ line \in Words
    BY <1>1, <1>2 DEF Fresh
  <2> QED BY <1>1, <1>2, <2>1, OwnIds DEF Words, Answer
<1>5. \A t \in Sessions : \A q : Answered(t, q)' <=> Answered(t, q) \/ (t = s /\ q = r)
  <2>1. \A q : Answer(r) = Answer(q) <=> q = r
    BY DEF Answer
  <2> QED BY <1>4, <2>1, AnsweredMore
<1>6. setting' = setting /\ exchange' = exchange /\ \A t \in Sessions : t # s => session'[t] = session[t]
  BY DEF Speaks
<1>7. \A d \in Exchanges : Ids(d)' = Ids(d)
  BY <1>6 DEF Ids
<1> HIDE DEF streams, r, e, left, new
<1>8. left = {q \in Ids(e) : ~(Answered(s, q) \/ q = r)}
  BY <1>2 DEF left
<1>9. \A y \in streams : \/ y \in session[s].streams /\ y # x /\ y.post # e
                         \/ y = new
  BY <1>1, <1>2
<1>10. ASSUME NEW y \in streams PROVE DOMAIN y = {"post", "waiting", "nth"} /\ y.post \in Exchanges
  <2>1. CASE y \in session[s].streams
    BY <1>1, <2>1 DEF RInv, RoutesTyped
  <2>2. CASE y = new
    BY <1>2, <1>3, <2>2
  <2> QED BY <1>9, <2>1, <2>2
<1>11. StreamsWait'
  <2> SUFFICES ASSUME NEW t \in Sessions, NEW y \in session'[t].streams
               PROVE  /\ exchange[y.post].session = t /\ exchange[y.post].step \in Opened
                      /\ y.waiting = {q \in Ids(y.post)' : ~Answered(t, q)'}
                      /\ \A z \in session'[t].streams : y.post = z.post => y = z
    BY <1>6 DEF StreamsWait
  <2>1. CASE t # s
    <3>1. y \in session[t].streams /\ session'[t] = session[t] /\ y.post \in Exchanges
      BY <1>6, <2>1 DEF RInv, RoutesTyped
    <3>2. \A q : Answered(t, q)' <=> Answered(t, q)
      BY <1>5, <2>1
    <3> QED BY <1>7, <3>1, <3>2 DEF RInv, StreamsWait
  <2>2. CASE t = s
    <3>1. y \in streams /\ streams = session'[t].streams
      BY <2>2 DEF streams
    <3>2. CASE y = new
      <4>1. y.waiting = {q \in Ids(y.post)' : ~Answered(t, q)'}
        BY <1>1, <1>2, <1>3, <1>5, <1>7, <1>8, <2>2, <3>2
      <4>2. \A z \in streams : y.post = z.post => y = z
        BY <1>3, <1>9, <3>2
      <4> QED BY <1>2, <1>3, <2>2, <3>1, <3>2, <4>1, <4>2
    <3>3. CASE y # new
      <4>1. y \in session[s].streams /\ y.post # e /\ y.post \in Exchanges
        BY <1>9, <1>10, <3>1, <3>3
      <4>2. /\ exchange[y.post].session = s /\ exchange[y.post].step \in Opened
            /\ y.waiting = {q \in Ids(y.post) : ~Answered(s, q)}
            /\ \A z \in session[s].streams : y.post = z.post => y = z
        BY <1>1, <4>1 DEF RInv, StreamsWait
      <4>3. \A q \in Ids(y.post) : q # r
        BY <1>4, <4>1, OwnIds
      <4>4. y.waiting = {q \in Ids(y.post)' : ~Answered(t, q)'}
        BY <1>1, <1>5, <1>7, <2>2, <4>1, <4>2, <4>3
      <4>5. \A z \in streams : y.post = z.post => y = z
        BY <1>3, <1>9, <4>1, <4>2
      <4> QED BY <2>2, <3>1, <4>2, <4>4, <4>5
    <3> QED BY <3>2, <3>3
  <2> QED BY <2>1, <2>2
<1>12. WaitersAreHeld'
  <2> SUFFICES ASSUME NEW d \in Exchanges, Receiving(d), NEW t, t = exchange[d].session
               PROVE  \/ session'[t].ended
                      \/ \E y \in session'[t].streams : y.post = d
                      \/ \A q \in Ids(d) : Answered(t, q)'
    BY <1>6, <1>7 DEF WaitersAreHeld, Receiving
  <2>1. \/ session[t].ended
        \/ \E y \in session[t].streams : y.post = d
        \/ \A q \in Ids(d) : Answered(t, q)
    BY DEF RInv, WaitersAreHeld
  <2>2. t \in Sessions
    BY WrittenIsBegun DEF Receiving, Opened
  <2>3. session'[t].ended = session[t].ended
    BY <2>2 DEF Speaks
  <2>4. \A q : Answered(t, q) => Answered(t, q)'
    BY <1>5, <2>2
  <2>5. ASSUME NEW y \in session[t].streams, y.post = d
        PROVE  (\E z \in session'[t].streams : z.post = d) \/ \A q \in Ids(d) : Answered(t, q)'
    <3>1. CASE t # s
      BY <1>6, <2>2, <2>5, <3>1
    <3>2. CASE t = s /\ y # x
      <4>1. y \in streams
        BY <1>1, <2>5, <3>2
      <4> QED BY <2>5, <3>2, <4>1 DEF streams
    <3>3. CASE t = s /\ y = x
      <4>1. d = e
        BY <2>5, <3>3 DEF e
      <4>2. CASE left = {}
        BY <1>5, <1>8, <2>2, <3>3, <4>1, <4>2
      <4>3. CASE left # {}
        <5>1. new \in streams
          BY <1>1, <4>3
        <5> QED BY <1>3, <3>3, <4>1, <5>1 DEF streams
      <4> QED BY <4>2, <4>3
    <3> QED BY <3>1, <3>2, <3>3
  <2> QED BY <2>1, <2>3, <2>4, <2>5
<1> QED BY <1>2, <1>4, <1>10, <1>11, <1>12 DEF streams, e, r

LEMMA StreamsSkip ==
    ASSUME IInv, RInv, NEW s, NEW line, Fresh(s, line), Speaks(s, line),
           Skipping(s, line, session'[s].streams)
    PROVE  /\ StreamsWait' /\ WaitersAreHeld'
           /\ line.kind = "answer" => ~Receiving(line.id[1])
           /\ \A y \in session'[s].streams : DOMAIN y = {"post", "waiting", "nth"} /\ y.post \in Exchanges
<1> DEFINE streams == session'[s].streams
           r == line.id
<1>1. /\ s \in Sessions /\ ~session[s].ended /\ \A t \in Sessions : line \notin Said(t)
      /\ streams = {x \in session[s].streams : Receiving(x.post)}
      /\ \A x \in session[s].streams : ~(line.kind = "answer" /\ r \in x.waiting)
  BY DEF Skipping, Fresh
<1>2. setting' = setting /\ exchange' = exchange /\ \A t \in Sessions : t # s => session'[t] = session[t]
  BY DEF Speaks
<1>3. \A d \in Exchanges : Ids(d)' = Ids(d)
  BY <1>2 DEF Ids
<1>4. \A t \in Sessions : \A q : Answered(t, q)' <=> Answered(t, q) \/ (t = s /\ line = Answer(q))
  BY AnsweredMore
<1>5. \A q : line = Answer(q) => line.kind = "answer" /\ r = q
  BY DEF Answer
<1>6. ASSUME line.kind = "answer" PROVE line = Answer(r) /\ Asked(s, r) /\ ~Answered(s, r) /\ r[1] \in Exchanges
  <2>1. line = Answer(r) /\ r \in Requests /\ Asked(s, r)
    BY <1>6 DEF Fresh, Words, Answer
  <2> QED BY <1>1, <2>1 DEF Answered, Requests
<1> HIDE DEF streams, r
<1>7. \A y \in streams : DOMAIN y = {"post", "waiting", "nth"} /\ y.post \in Exchanges
  BY <1>1 DEF RInv, RoutesTyped
<1>8. ASSUME line.kind = "answer", Receiving(r[1]) PROVE FALSE
  <2>1. Asked(s, r) /\ ~Answered(s, r) /\ r[1] \in Exchanges
    BY <1>6, <1>8
  <2>2. exchange[r[1]].session = s /\ r \in Ids(r[1])
    BY <2>1 DEF Asked
  <2>3. PICK x \in session[s].streams : x.post = r[1]
    BY <1>1, <1>8, <2>1, <2>2 DEF RInv, WaitersAreHeld
  <2>4. r \in x.waiting
    BY <1>1, <2>1, <2>2, <2>3 DEF RInv, StreamsWait
  <2> QED BY <1>1, <1>8, <2>4
<1>9. StreamsWait'
  <2> SUFFICES ASSUME NEW t \in Sessions, NEW y \in session'[t].streams
               PROVE  /\ exchange[y.post].session = t /\ exchange[y.post].step \in Opened
                      /\ y.waiting = {q \in Ids(y.post)' : ~Answered(t, q)'}
                      /\ \A z \in session'[t].streams : y.post = z.post => y = z
    BY <1>2 DEF StreamsWait
  <2>1. session'[t].streams \subseteq session[t].streams
    BY <1>1, <1>2 DEF streams
  <2>2. /\ exchange[y.post].session = t /\ exchange[y.post].step \in Opened /\ y.post \in Exchanges
        /\ y.waiting = {q \in Ids(y.post) : ~Answered(t, q)}
        /\ \A z \in session[t].streams : y.post = z.post => y = z
    BY <2>1 DEF RInv, StreamsWait, RoutesTyped
  <2>3. \A q \in Ids(y.post) : ~Answered(t, q) => ~Answered(t, q)'
    <3> SUFFICES ASSUME NEW q \in Ids(y.post), ~Answered(t, q), t = s, line = Answer(q) PROVE FALSE
      BY <1>4
    <3>1. q \in y.waiting
      BY <2>2
    <3> QED BY <1>1, <1>5, <2>1, <3>1
  <2>4. \A q \in Ids(y.post) : Answered(t, q) => Answered(t, q)'
    BY <1>4
  <2>5. y.waiting = {q \in Ids(y.post)' : ~Answered(t, q)'}
    BY <1>3, <2>2, <2>3, <2>4
  <2> QED BY <2>1, <2>2, <2>5
<1>10. WaitersAreHeld'
  <2> SUFFICES ASSUME NEW d \in Exchanges, Receiving(d), NEW t, t = exchange[d].session
               PROVE  \/ session'[t].ended
                      \/ \E y \in session'[t].streams : y.post = d
                      \/ \A q \in Ids(d) : Answered(t, q)'
    BY <1>2, <1>3 DEF WaitersAreHeld, Receiving
  <2>1. \/ session[t].ended
        \/ \E y \in session[t].streams : y.post = d
        \/ \A q \in Ids(d) : Answered(t, q)
    BY DEF RInv, WaitersAreHeld
  <2>2. t \in Sessions
    BY WrittenIsBegun DEF Receiving, Opened
  <2>3. session'[t].ended = session[t].ended
    BY <2>2 DEF Speaks
  <2>4. \A q : Answered(t, q) => Answered(t, q)'
    BY <1>4, <2>2
  <2>5. \A y \in session[t].streams : y.post = d => y \in session'[t].streams
    BY <1>1, <1>2, <2>2 DEF streams
  <2> QED BY <2>1, <2>3, <2>4, <2>5
<1> QED BY <1>7, <1>8, <1>9, <1>10 DEF streams, r

\* Whatever else a step does to the servers, what it routes is told, once.
Routed ==
    /\ RoutesTyped' /\ StreamsWait' /\ WaitersAreHeld' /\ DoneAreAnswered' /\ AnswersAreGot'
    /\ ToldWasSaid' /\ ToldOnce' /\ SaidIsTold' /\ ToldInOrder'

LEMMA TellingKeeps ==
    ASSUME IInv, RInv, NEW s, NEW line, Fresh(s, line), Speaks(s, line), NEW to, NEW kept, Told(s, line, to, kept),
           \/ /\ Skipping(s, line, session'[s].streams)
           \/ \E x : Answering(s, line, x, session'[s].streams) /\ (Receiving(x.post) => to = x.post)
    PROVE  Routed
<1>1. ToldWasSaid' /\ ToldOnce' /\ SaidIsTold' /\ ToldInOrder'
  BY ToldMore
<1>2. CASE Skipping(s, line, session'[s].streams)
  <2>1. /\ StreamsWait' /\ WaitersAreHeld'
        /\ line.kind = "answer" => ~Receiving(line.id[1])
        /\ \A y \in session'[s].streams : DOMAIN y = {"post", "waiting", "nth"} /\ y.post \in Exchanges
    BY <1>2, StreamsSkip
  <2>2. RoutesTyped'
    BY <2>1, TypedAfter
  <2>3. DoneAreAnswered' /\ AnswersAreGot'
    BY <2>1, AnswersAfter
  <2> QED BY <1>1, <2>1, <2>2, <2>3 DEF Routed
<1>3. CASE \E x : Answering(s, line, x, session'[s].streams) /\ (Receiving(x.post) => to = x.post)
  <2>1. PICK x : Answering(s, line, x, session'[s].streams) /\ (Receiving(x.post) => to = x.post)
    BY <1>3
  <2>2. /\ StreamsWait' /\ WaitersAreHeld' /\ x.post = line.id[1]
        /\ \A y \in session'[s].streams : DOMAIN y = {"post", "waiting", "nth"} /\ y.post \in Exchanges
    BY <2>1, StreamsAnswer
  <2>3. RoutesTyped'
    BY <2>2, TypedAfter
  <2>4. DoneAreAnswered' /\ AnswersAreGot'
    BY <2>1, <2>2, AnswersAfter
  <2> QED BY <1>1, <2>2, <2>3, <2>4 DEF Routed
<1> QED BY <1>2, <1>3

LEMMA RouteToStream ==
    ASSUME IInv, RInv, NEW s, NEW line, Fresh(s, line), Route(s, line), Waiting(s, line) # {}
    PROVE  Routed
<1> DEFINE left(x) == x.waiting \ {line.id}
           rest(x) == (session[s].streams \ {x}) \union
                          IF left(x) = {} THEN {} ELSE {[x EXCEPT !.waiting = left(x)]}
<1>1. PICK x \in Waiting(s, line) :
         /\ Changed(s, "streams", rest(x))
         /\ IF Receiving(x.post) THEN Sent(x.post, line) ELSE UNCHANGED got
  BY DEF Route, ToItsStream
<1>2. s \in Sessions /\ x \in session[s].streams /\ line.kind = "answer" /\ line.id \in x.waiting
  BY DEF Waiting, Fresh
<1> DEFINE value == [session[s] EXCEPT !.streams = rest(x)]
<1>3. session' = [session EXCEPT ![s] = value]
  BY <1>1 DEF Changed
<1>4. /\ value.streams = rest(x) /\ value.standalone = session[s].standalone /\ value.pending = session[s].pending
      /\ value.ended = session[s].ended /\ value.pipe = session[s].pipe
  BY <1>2 DEF IInv, Typed, SessionFields
<1>5. Answering(s, line, x, rest(x))
  BY <1>2 DEF Answering
<1> HIDE DEF value, rest
<1>6. session'[s] = value /\ \A t \in Sessions : t # s => session'[t] = session[t]
  BY <1>2, <1>3 DEF IInv, Typed
<1>7. Speaks(s, line)
  BY <1>4, <1>6 DEF Speaks, Route
<1>8. Answering(s, line, x, session'[s].streams)
  BY <1>4, <1>5, <1>6
<1>9. /\ x.post \in Exchanges /\ x.post = line.id[1]
      /\ exchange[x.post].session = s /\ exchange[x.post].step \in Opened
  BY <1>7, <1>8, StreamsAnswer
<1>10. x.post # NoExchange
  BY <1>9 DEF Exchanges, NoExchange
<1>11. CASE Receiving(x.post)
  <2>1. got' = [got EXCEPT ![x.post] = Append(got[x.post], line)]
    BY <1>1, <1>11 DEF Sent
  <2>2. Told(s, line, x.post, {})
    BY <1>4, <1>6, <1>9, <1>10, <2>1 DEF Told
  <2> QED BY <1>7, <1>8, <2>2, TellingKeeps
<1>12. CASE ~Receiving(x.post)
  <2>1. exchange[x.post].step \in {"done", "gone"} /\ got' = got
    BY <1>1, <1>9, <1>10, <1>12 DEF Receiving, Opened
  <2>2. Told(s, line, NoExchange, {})
    BY <1>2, <1>4, <1>6, <1>9, <2>1 DEF Told
  <2> QED BY <1>7, <1>8, <1>12, <2>2, TellingKeeps
<1> QED BY <1>11, <1>12

LEMMA RouteToAny ==
    ASSUME IInv, RInv, NEW s, NEW line, Fresh(s, line), Route(s, line), Waiting(s, line) = {}
    PROVE  Routed
<1> DEFINE open == {x \in session[s].streams : Receiving(x.post)}
           pending == session[s].pending
           kept == [session[s] EXCEPT !.streams = open]
           more == IF Len(pending) < PENDING_LIMIT THEN Append(pending, line) ELSE pending
           alone == [kept EXCEPT !.standalone = NoExchange,
                         !.pending = IF Len(kept.pending) < PENDING_LIMIT THEN Append(kept.pending, line)
                                     ELSE kept.pending]
<1>1. s \in Sessions /\ Unsolicited(s, line) /\ DOMAIN session[s] = SessionFields
  BY DEF Fresh, Route, IInv, Typed
<1>2. /\ kept.streams = open /\ kept.standalone = session[s].standalone /\ kept.pending = pending
      /\ kept.ended = session[s].ended /\ kept.pipe = session[s].pipe
  BY <1>1 DEF SessionFields
<1>3. /\ alone.streams = open /\ alone.standalone = NoExchange /\ alone.pending = more
      /\ alone.ended = session[s].ended /\ alone.pipe = session[s].pipe
  BY <1>1, <1>2 DEF SessionFields
<1>4. \/ /\ session' = [session EXCEPT ![s] = kept]
         /\ \E newest \in open : Sent(newest.post, line)
      \/ /\ session' = [session EXCEPT ![s] = kept]
         /\ Receiving(kept.standalone) /\ Sent(kept.standalone, line)
      \/ session' = [session EXCEPT ![s] = alone] /\ got' = got
  <2>1. \/ /\ session' = [session EXCEPT ![s] = kept]
           /\ \E newest \in open : (\A x \in open : x.nth <= newest.nth) /\ Sent(newest.post, line)
        \/ /\ open = {} /\ Receiving(kept.standalone)
           /\ session' = [session EXCEPT ![s] = kept]
           /\ Sent(kept.standalone, line)
        \/ /\ open = {} /\ ~Receiving(kept.standalone)
           /\ session' = [session EXCEPT ![s] = alone]
           /\ UNCHANGED got
    BY <1>1, Zenon DEF Unsolicited
  <2> HIDE DEF kept, alone, open
  <2> QED BY <2>1
<1>5. \A x \in session[s].streams : ~(line.kind = "answer" /\ line.id \in x.waiting)
  BY DEF Waiting
<1>6. Skipping(s, line, open)
  BY <1>5 DEF Skipping
<1>7. \A x \in open : /\ x.post \in Exchanges /\ exchange[x.post].session = s /\ exchange[x.post].step \in Opened
  BY <1>1 DEF RInv, RoutesTyped, StreamsWait
<1>8. Receiving(session[s].standalone) =>
         /\ session[s].standalone \in Exchanges
         /\ exchange[session[s].standalone].session = s /\ exchange[session[s].standalone].step \in Opened
  BY <1>1 DEF RInv, RoutesTyped, ToldWasSaid, Receiving
<1> HIDE DEF kept, alone
<1>9. CASE session' = [session EXCEPT ![s] = kept] /\ \E to \in Exchanges :
              /\ Sent(to, line) /\ exchange[to].session = s /\ exchange[to].step \in Opened
  <2>1. session'[s] = kept /\ \A t \in Sessions : t # s => session'[t] = session[t]
    BY <1>1, <1>9 DEF IInv, Typed
  <2>2. Speaks(s, line)
    BY <1>2, <2>1 DEF Speaks, Route
  <2>3. PICK to \in Exchanges : Sent(to, line) /\ exchange[to].session = s /\ exchange[to].step \in Opened
    BY <1>9
  <2>4. to # NoExchange
    BY DEF Exchanges, NoExchange
  <2>5. Told(s, line, to, {})
    BY <1>2, <2>1, <2>3, <2>4 DEF Told, Sent
  <2>6. Skipping(s, line, session'[s].streams)
    BY <1>2, <1>6, <2>1
  <2> QED BY <2>2, <2>5, <2>6, TellingKeeps
<1>10. CASE session' = [session EXCEPT ![s] = alone] /\ got' = got
  <2>1. session'[s] = alone /\ \A t \in Sessions : t # s => session'[t] = session[t]
    BY <1>1, <1>10 DEF IInv, Typed
  <2>2. Speaks(s, line)
    BY <1>3, <2>1 DEF Speaks, Route
  <2>3. Skipping(s, line, session'[s].streams)
    BY <1>3, <1>6, <2>1
  <2>4. line.kind = "answer" => ~Receiving(line.id[1])
    BY <2>2, <2>3, StreamsSkip
  <2>5. line.kind = "answer" => exchange[line.id[1]].step \in {"done", "gone"}
    <3> SUFFICES ASSUME line.kind = "answer" PROVE exchange[line.id[1]].step \in {"done", "gone"}
      OBVIOUS
    <3>1. Asked(s, line.id) /\ line.id[1] \in Exchanges
      BY DEF Fresh, Words, Requests
    <3>2. line.id[1] # NoExchange /\ exchange[line.id[1]].written = setting.pieces
      BY <3>1 DEF Exchanges, NoExchange, Asked
    <3>3. exchange[line.id[1]].step \in Steps
      BY <3>1 DEF IInv, Typed
    <3> QED BY <2>4, <3>1, <3>2, <3>3, Begun DEF IInv, Unwritten, Receiving, Steps
  <2>6. CASE Len(pending) < PENDING_LIMIT
    <3>1. Told(s, line, NoExchange, {line})
      BY <1>3, <1>10, <2>1, <2>6 DEF Told
    <3> QED BY <2>2, <2>3, <3>1, TellingKeeps
  <2>7. CASE ~(Len(pending) < PENDING_LIMIT)
    <3>1. line.kind \in {"answer", "notice"}
      BY DEF Fresh, Words
    <3>2. Len(pending) >= PENDING_LIMIT
      <4>1. Len(pending) \in Nat
        BY <1>1, LenProperties DEF RInv, RoutesTyped
      <4> QED BY <2>7, <4>1, BridgeAssumption
    <3>3. Told(s, line, NoExchange, {})
      BY <1>3, <1>10, <2>1, <2>5, <2>7, <3>1, <3>2 DEF Told
    <3> QED BY <2>2, <2>3, <3>3, TellingKeeps
  <2> QED BY <2>6, <2>7
<1> QED BY <1>2, <1>4, <1>7, <1>8, <1>9, <1>10

LEMMA RouteKeeps ==
    ASSUME IInv, RInv, NEW s, NEW line, Fresh(s, line), Route(s, line)
    PROVE  Routed
BY RouteToStream, RouteToAny

\* What is said more, and what a server owes no longer.
LEMMA SayingCounts ==
    ASSUME IInv, RInv, NEW s, NEW line, Fresh(s, line), Route(s, line)
    PROVE  /\ \A t \in Sessions : \A r : Answered(t, r)' <=> Answered(t, r) \/ (t = s /\ line = Answer(r))
           /\ \A t \in Sessions : Notices(t) \in Nat /\ Notices(t)' \in Nat /\ Notices(t)' >= Notices(t)
           /\ line.kind = "notice" => Notices(s)' = Notices(s) + 1
           /\ \A t \in Sessions : Range(said'[t]) = IF t = s THEN Said(t) \union {line} ELSE Said(t)
           /\ \A t \in Sessions : session'[t].pipe = session[t].pipe
           /\ setting' = setting /\ exchange' = exchange
<1>1. setting' = setting /\ exchange' = exchange /\ said' = [said EXCEPT ![s] = Append(said[s], line)]
  BY DEF Route
<1>2. s \in Sessions /\ line \in Words /\ said \in [Sessions -> Seq(Words)]
  BY DEF Fresh, RInv, RoutesTyped
<1>3. said'[s] = Append(said[s], line) /\ \A t \in Sessions : t # s => said'[t] = said[t]
  BY <1>1, <1>2
<1>4. Range(said'[s]) = Said(s) \union {line}
  BY <1>2, <1>3, RangeOfAppend DEF Said
<1>5. \A t \in Sessions : Range(said'[t]) = IF t = s THEN Said(t) \union {line} ELSE Said(t)
  BY <1>3, <1>4 DEF Said
<1>6. \A t \in Sessions : \A r : Answered(t, r)' <=> Answered(t, r) \/ (t = s /\ line = Answer(r))
  <2> SUFFICES ASSUME NEW t \in Sessions, NEW r
               PROVE  Answer(r) \in Range(said'[t]) <=> Answer(r) \in Said(t) \/ (t = s /\ line = Answer(r))
    BY DEF Answered, Said, Answer
  <2> QED BY <1>5
<1>7. \A t \in Sessions : Notices(t) = NoticesIn(said[t]) /\ Notices(t)' = NoticesIn(said'[t])
  BY DEF Notices, NoticesIn
<1>8. \A t \in Sessions : NoticesIn(said[t]) \in Nat
  BY <1>2, NoticesOfAppend
<1>9. /\ NoticesIn(said'[s]) \in Nat /\ NoticesIn(said'[s]) >= NoticesIn(said[s])
      /\ line.kind = "notice" => NoticesIn(said'[s]) = NoticesIn(said[s]) + 1
  BY <1>2, <1>3, NoticesOfAppend
<1>10. \A t \in Sessions : Notices(t) \in Nat /\ Notices(t)' \in Nat /\ Notices(t)' >= Notices(t)
  <2> SUFFICES ASSUME NEW t \in Sessions
               PROVE  Notices(t) \in Nat /\ Notices(t)' \in Nat /\ Notices(t)' >= Notices(t)
    OBVIOUS
  <2>1. Notices(t) \in Nat /\ Notices(t)' = NoticesIn(said'[t]) /\ Notices(t) = NoticesIn(said[t])
    BY <1>7, <1>8
  <2>2. CASE t = s
    BY <1>9, <2>1, <2>2
  <2>3. CASE t # s
    <3>1. Notices(t)' = Notices(t)
      BY <1>3, <2>1, <2>3
    <3> HIDE DEF Notices
    <3> QED BY <2>1, <3>1
  <2> QED BY <2>2, <2>3
<1>11. \A t \in Sessions : session'[t].pipe = session[t].pipe
  BY <1>2, RouteStays DEF PipesStay
<1> QED BY <1>1, <1>2, <1>5, <1>6, <1>7, <1>9, <1>10, <1>11

\* What a step does to a server's debts when it says a line: it owes no more,
\* and not the answer it gives.
LEMMA SayingKeeps ==
    ASSUME IInv, RInv, NEW s, NEW line, Fresh(s, line), Route(s, line),
           \A t \in Sessions : server'[t].owes \subseteq server[t].owes,
           line.kind = "answer" => line.id \in server[s].owes /\ line.id \notin server'[s].owes,
           line.kind = "notice" => line.id = <<s, Notices(s) + 1>>
    PROVE  RInv'
<1>1. /\ \A t \in Sessions : \A r : Answered(t, r)' <=> Answered(t, r) \/ (t = s /\ line = Answer(r))
      /\ \A t \in Sessions : Notices(t) \in Nat /\ Notices(t)' \in Nat /\ Notices(t)' >= Notices(t)
      /\ line.kind = "notice" => Notices(s)' = Notices(s) + 1
      /\ \A t \in Sessions : Range(said'[t]) = IF t = s THEN Said(t) \union {line} ELSE Said(t)
      /\ \A t \in Sessions : session'[t].pipe = session[t].pipe
      /\ setting' = setting /\ exchange' = exchange
  BY SayingCounts
<1>2. Routed
  BY RouteKeeps
<1>3. s \in Sessions /\ line \in Words
  BY DEF Fresh
<1>4. \A r : line = Answer(r) => line.kind = "answer" /\ line.id = r
  BY DEF Answer
<1>5. \A t \in Sessions : \A r : Asked(t, r)' <=> Asked(t, r)
  BY <1>1 DEF Asked, Ids
<1>6. OwedAreAsked'
  <2> SUFFICES ASSUME NEW t \in Sessions, NEW r \in Requests, r \in server'[t].owes \/ Answered(t, r)'
               PROVE  Asked(t, r)
    BY <1>5 DEF OwedAreAsked
  <2>1. r \in server[t].owes \/ Answered(t, r) \/ (t = s /\ line = Answer(r))
    BY <1>1
  <2>2. CASE t = s /\ line = Answer(r)
    BY <1>4, <2>2 DEF Fresh
  <2> QED BY <2>1, <2>2 DEF RInv, OwedAreAsked
<1>7. OwedOnce'
  <2> SUFFICES ASSUME NEW t \in Sessions, NEW r \in server'[t].owes, Answered(t, r)' PROVE FALSE
    BY DEF OwedOnce
  <2>1. r \in server[t].owes
    OBVIOUS
  <2>2. ~Answered(t, r)
    BY <2>1 DEF RInv, OwedOnce
  <2>3. t = s /\ line = Answer(r)
    BY <1>1, <2>2
  <2> QED BY <1>4, <2>3
<1>8. PartsOnce'
  <2> SUFFICES ASSUME NEW t \in Sessions, NEW i \in 1 .. Len(session'[t].pipe)
               PROVE  /\ \A j \in 1 .. Len(session'[t].pipe) : session'[t].pipe[j] = session'[t].pipe[i] => i = j
                      /\ session'[t].pipe[i][2] = setting'.pieces =>
                            \A k \in Nat : /\ <<session'[t].pipe[i][1], k>> \notin server'[t].owes
                                           /\ Answer(<<session'[t].pipe[i][1], k>>) \notin Range(said'[t])
    BY DEF PartsOnce, Answered, Said
  <2>0. i \in 1 .. Len(session[t].pipe) /\ session'[t].pipe = session[t].pipe
    BY <1>1
  <2> DEFINE part == session[t].pipe[i]
  <2>1. /\ \A j \in 1 .. Len(session[t].pipe) : session[t].pipe[j] = part => i = j
        /\ part[2] = setting.pieces =>
              \A k \in Nat : <<part[1], k>> \notin server[t].owes /\ ~Answered(t, <<part[1], k>>)
    BY <2>0 DEF RInv, PartsOnce
  <2> HIDE DEF part
  <2>2. ASSUME part[2] = setting.pieces, NEW k \in Nat, NEW r, r = <<part[1], k>>, Answer(r) \in Range(said'[t])
        PROVE  FALSE
    <3>1. r \notin server[t].owes /\ Answer(r) \notin Said(t)
      BY <2>1, <2>2 DEF Answered
    <3>2. t = s /\ line = Answer(r)
      BY <1>1, <2>2, <3>1
    <3>3. r \in server[s].owes
      BY <1>4, <3>2
    <3> QED BY <3>1, <3>2, <3>3
  <2>3. ASSUME part[2] = setting.pieces, NEW k \in Nat
        PROVE  <<part[1], k>> \notin server'[t].owes /\ Answer(<<part[1], k>>) \notin Range(said'[t])
    <3>1. <<part[1], k>> \notin server[t].owes
      BY <2>1, <2>3
    <3> QED BY <2>2, <2>3, <3>1
  <2> QED BY <1>1, <2>0, <2>1, <2>3 DEF part
<1>9. NoticesAreNumbered'
  <2> SUFFICES ASSUME NEW t \in Sessions, NEW w \in Range(said'[t]), w.kind = "notice"
               PROVE  w.id[1] = t /\ w.id[2] <= Notices(t)'
    BY DEF NoticesAreNumbered, Said
  <2>1. CASE w \in Said(t)
    <3>1. w.id[1] = t /\ w.id[2] <= Notices(t) /\ w.id[2] \in Nat
      BY <2>1, RangeOfSaid DEF RInv, NoticesAreNumbered, Words
    <3> QED BY <1>1, <3>1
  <2>2. CASE w \notin Said(t)
    <3>1. t = s /\ w = line
      BY <1>1, <2>2
    <3> QED BY <1>1, <3>1
  <2> QED BY <2>1, <2>2
<1> QED BY <1>2, <1>6, <1>7, <1>8, <1>9 DEF RInv, Routed

LEMMA RespondRoutes ==
    ASSUME IInv, RInv, NEW s \in Sessions, NEW r \in server[s].owes, Respond(s, r) PROVE RInv'
<1>1. /\ Route(s, Answer(r)) /\ ~session[s].ended
      /\ server' = [server EXCEPT ![s].owes = server[s].owes \ {r}]
  BY DEF Respond
<1>2. r \in Requests
  BY DEF IInv, Typed, Requests
<1>3. Asked(s, r) /\ ~Answered(s, r)
  BY <1>2 DEF RInv, OwedAreAsked, OwedOnce
<1>4. \A t \in Sessions : ~Answered(t, r)
  BY <1>2, <1>3 DEF RInv, OwedAreAsked, Asked
<1>5. Answer(r).kind = "answer" /\ Answer(r).id = r /\ Answer(r) \in Words
  BY <1>2 DEF Answer, Words
<1>6. Fresh(s, Answer(r))
  BY <1>1, <1>3, <1>4, <1>5 DEF Fresh, Answered
<1>7. server'[s].owes = server[s].owes \ {r} /\ \A t \in Sessions : t # s => server'[t] = server[t]
  BY <1>1 DEF IInv, Typed
<1> QED BY <1>1, <1>5, <1>6, <1>7, SayingKeeps

LEMMA NotifyRoutes == ASSUME IInv, RInv, NEW s \in Sessions, Notify(s) PROVE RInv'
<1> DEFINE line == Notice(s, Notices(s) + 1)
<1>1. Route(s, line) /\ ~session[s].ended /\ server' = server
  BY DEF Notify
<1>2. Notices(s) \in Nat
  <2>1. said[s] \in Seq(Words)
    BY DEF RInv, RoutesTyped
  <2>2. Notice(s, 0) \in Words
    BY DEF Notice, Words
  <2> QED BY <2>1, <2>2, NoticesOfAppend DEF Notices, NoticesIn
<1>3. line \in Words /\ line.kind = "notice" /\ line.id = <<s, Notices(s) + 1>>
  BY <1>2 DEF Notice, Words
<1>4. \A t \in Sessions : line \notin Said(t)
  <2> SUFFICES ASSUME NEW t \in Sessions, line \in Said(t) PROVE FALSE
    OBVIOUS
  <2>1. line.id[1] = t /\ line.id[2] <= Notices(t)
    BY <1>3 DEF RInv, NoticesAreNumbered
  <2>2. t = s /\ Notices(s) + 1 <= Notices(s)
    BY <1>3, <2>1
  <2> QED BY <1>2, <2>2
<1> HIDE DEF line
<1>5. Fresh(s, line)
  BY <1>1, <1>3, <1>4 DEF Fresh
<1> QED BY <1>1, <1>3, <1>5, SayingKeeps

-----------------------------------------------------------------------------
(* Every step. *)

LEMMA InitRoutes == Init => RInv
<1> SUFFICES ASSUME Init PROVE RInv
  OBVIOUS
<1>1. /\ \A s \in Sessions : /\ said[s] = <<>> /\ session[s] = NewSession /\ server[s].owes = {}
      /\ \A e \in Exchanges : got[e] = <<>> /\ exchange[e] = Idle
  BY DEF Init
<1>2. /\ Idle.step = "idle" /\ NewSession.streams = {} /\ NewSession.pending = <<>> /\ NewSession.pipe = <<>>
      /\ NewSession.standalone = NoExchange
  BY DEF Idle, NewSession
<1>3. /\ \A s \in Sessions : Said(s) = {} /\ Range(session[s].pending) = {}
      /\ \A e \in Exchanges : Got(e) = {}
  BY <1>1, <1>2 DEF Said, Got, Range
<1>4. RoutesTyped
  <2>1. <<>> \in Seq(Words)
    BY EmptySeq
  <2>2. said = [s \in Sessions |-> <<>>] /\ got = [e \in Exchanges |-> <<>>]
    BY DEF Init
  <2> QED BY <1>1, <1>2, <2>1, <2>2 DEF RoutesTyped
<1>5. OwedAreAsked /\ OwedOnce /\ NoticesAreNumbered
  BY <1>1, <1>3 DEF OwedAreAsked, OwedOnce, NoticesAreNumbered, Answered
<1>6. PartsOnce
  <2>1. \A s \in Sessions : 1 .. Len(session[s].pipe) = {}
    BY <1>1, <1>2
  <2> QED BY <2>1 DEF PartsOnce
<1>7. StreamsWait /\ WaitersAreHeld /\ DoneAreAnswered /\ AnswersAreGot
  BY <1>1, <1>2 DEF StreamsWait, WaitersAreHeld, DoneAreAnswered, AnswersAreGot, Receiving, Opened
<1>8. ToldWasSaid /\ ToldOnce /\ SaidIsTold
  BY <1>1, <1>2, <1>3 DEF ToldWasSaid, ToldOnce, SaidIsTold
<1>9. ToldInOrder
  <2>1. \A all : InOrder(<<>>, all)
    BY DEF InOrder
  <2> QED BY <1>1, <1>2, <2>1 DEF ToldInOrder
<1> QED BY <1>4, <1>5, <1>6, <1>7, <1>8, <1>9 DEF RInv

LEMMA NextRoutes == ASSUME IInv, IInv', RInv, [Next]_vars PROVE RInv'
<1>1. CASE \E e \in Exchanges : Arrive(e) \/ Handler(e) \/ Leave(e)
  <2> PICK e \in Exchanges : Arrive(e) \/ Handler(e) \/ Leave(e)
    BY <1>1
  <2>1. CASE Arrive(e)
    BY <2>1, ArriveRoutes
  <2>2. CASE Insert(e) \/ Lock(e) \/ EndOfStream(e) \/ Withdraw(e) \/ Leave(e)
    BY <2>2, HandlerRoutes
  <2>3. CASE Open(e) \/ Write(e) \/ Close(e)
    BY <2>3, OpenRoutes, WriteRoutes, CloseRoutes
  <2> QED BY <2>1, <2>2, <2>3 DEF Handler
<1>2. ASSUME NEW s \in Sessions,
             \/ Grace(s) \/ Read(s) \/ Notify(s) \/ Exit(s) \/ OutputEnds(s)
             \/ \E r \in server[s].owes : Respond(s, r)
      PROVE  RInv'
  BY <1>2, GraceRoutes, ReadRoutes, NotifyRoutes, ExitRoutes, OutputEndsRoutes, RespondRoutes
<1>3. CASE StopBegins \/ StopEnds \/ StopWaits \/ StopReturns
  BY <1>3, StopRoutes
<1>4. CASE UNCHANGED vars
  BY <1>4, StillRoutes
<1> QED BY <1>1, <1>2, <1>3, <1>4 DEF Next

\* In every reachable state, whatever streams are opened, left, ended or
\* replaced: what a server owes its session's POSTs have asked and it has not
\* answered, a stream waits for what its POST has not been answered, and each
\* line said is in one place, in the order in which it was said
\* (Session::route, open_stream, open_standalone, end and routed).
THEOREM RoutesInvariance == Spec => []RInv
<1>1. Init => IInv /\ RInv
  BY InitInv, InitRoutes
<1>2. (IInv /\ RInv) /\ [Next]_vars => (IInv /\ RInv)'
  BY NextInv, NextRoutes
<1>3. (IInv /\ RInv) => RInv
  OBVIOUS
<1> QED BY <1>1, <1>2, <1>3, PTL DEF Spec

LEMMA RoutesOnce == ASSUME RInv PROVE RoutedOnce
<1> SUFFICES ASSUME NEW s \in Sessions
             PROVE  /\ \A line \in Range(said[s]) :
                         LET streams == {e \in Exchanges : line \in Range(got[e])}
                         IN  /\ Cardinality(streams) <= 1
                             /\ streams # {} => line \notin Range(session[s].pending)
                             /\ \/ streams # {} \/ line \in Range(session[s].pending) \/ session[s].ended
                                \/ line.kind = "notice" /\ Len(said[s]) > PENDING_LIMIT
                                \/ line.kind = "answer" /\ exchange[line.id[1]].step \in {"done", "gone"}
                    /\ InOrder(session[s].pending, said[s])
                    /\ \A e \in Exchanges : exchange[e].session = s => InOrder(got[e], said[s])
  BY DEF RoutedOnce
<1>1. ASSUME NEW line \in Range(said[s])
      PROVE  LET streams == {e \in Exchanges : line \in Range(got[e])}
             IN  /\ Cardinality(streams) <= 1
                 /\ streams # {} => line \notin Range(session[s].pending)
                 /\ \/ streams # {} \/ line \in Range(session[s].pending) \/ session[s].ended
                    \/ line.kind = "notice" /\ Len(said[s]) > PENDING_LIMIT
                    \/ line.kind = "answer" /\ exchange[line.id[1]].step \in {"done", "gone"}
  <2> DEFINE streams == {e \in Exchanges : line \in Range(got[e])}
  <2>1. \A e, d \in streams : e = d
    BY DEF RInv, ToldOnce, Got
  <2>2. Cardinality(streams) <= 1
    <3>1. CASE streams = {}
      BY <3>1, FS_EmptySet
    <3>2. CASE streams # {}
      <4>1. PICK e : e \in streams
        BY <3>2
      <4>2. streams = {e}
        BY <2>1, <4>1
      <4> HIDE DEF streams
      <4>3. Cardinality({e}) = 1
        BY FS_Singleton
      <4> QED BY <4>2, <4>3
    <3> QED BY <3>1, <3>2
  <2>3. streams # {} => line \notin Range(session[s].pending)
    BY DEF RInv, ToldOnce, Got
  <2>4. \/ streams # {} \/ line \in Range(session[s].pending) \/ session[s].ended
        \/ line.kind = "notice" /\ Len(said[s]) > PENDING_LIMIT
        \/ line.kind = "answer" /\ exchange[line.id[1]].step \in {"done", "gone"}
    BY DEF RInv, SaidIsTold, Said, Got, Excused
  <2> QED BY <2>2, <2>3, <2>4
<1>2. InOrder(session[s].pending, said[s])
  BY DEF RInv, ToldInOrder
<1>3. ASSUME NEW e \in Exchanges, exchange[e].session = s PROVE InOrder(got[e], said[s])
  <2>1. CASE got[e] = <<>>
    <3>1. \A all : InOrder(<<>>, all)
      BY DEF InOrder
    <3> QED BY <2>1, <3>1
  <2>2. CASE got[e] # <<>>
    BY <1>3, <2>2 DEF RInv, ToldInOrder
  <2> QED BY <2>1, <2>2
<1> QED BY <1>1, <1>2, <1>3

LEMMA StreamsAreKept == ASSUME IInv, RInv PROVE AnswersKeepTheirStream
<1> SUFFICES ASSUME NEW e \in Exchanges, exchange[e].step \in {"writing", "streaming", "done"}
             PROVE  LET s == exchange[e].session
                        answered == {r \in Ids(e) : Answer(r) \in Range(said[s])}
                    IN  /\ \A r \in answered : Answer(r) \in Range(got[e])
                        /\ exchange[e].written = setting.pieces /\ answered # Ids(e) => Held(e) \/ session[s].ended
  BY DEF AnswersKeepTheirStream
<1> DEFINE s == exchange[e].session
           answered == {r \in Ids(e) : Answer(r) \in Range(said[s])}
<1>1. ASSUME NEW r \in answered PROVE Answer(r) \in Range(got[e])
  BY DEF RInv, AnswersAreGot, Answered, Said, Got, Opened
<1>2. ASSUME exchange[e].written = setting.pieces, answered # Ids(e) PROVE Held(e) \/ session[s].ended
  <2>1. ~(\A r \in Ids(e) : Answered(s, r))
    BY <1>2 DEF Answered, Said
  <2>2. CASE exchange[e].step = "done"
    BY <1>2, <2>1, <2>2 DEF RInv, DoneAreAnswered
  <2>3. CASE exchange[e].step \in {"writing", "streaming"}
    <3>1. e # NoExchange
      BY DEF Exchanges, NoExchange
    <3>2. Receiving(e)
      BY <2>3, <3>1 DEF Receiving
    <3>3. session[s].ended \/ \E x \in session[s].streams : x.post = e
      BY <2>1, <3>2 DEF RInv, WaitersAreHeld
    <3> QED BY <3>3 DEF Held
  <2> QED BY <2>2, <2>3
<1> QED BY <1>1, <1>2

\* Whatever the number of exchanges, sessions and notices, and whenever streams
\* open, end, are left or replaced, each line a server wrote is on at most one
\* stream, or waits for one, or was dropped for a reason the code states, and
\* every stream has its lines in the server's order (Session::route).
THEOREM RoutedOnceHolds == Spec => []RoutedOnce
<1>1. RInv => RoutedOnce
  BY RoutesOnce
<1> QED BY <1>1, RoutesInvariance, PTL

\* The answer to a request is on the stream of the POST that carried it, and
\* that stream is open until each of its requests is answered or the server's
\* output has ended (session.rs:10-11), for every POST whose client stays.
THEOREM AnswersStay == Spec => []AnswersKeepTheirStream
<1>1. IInv /\ RInv => AnswersKeepTheirStream
  BY StreamsAreKept
<1> QED BY <1>1, Invariance, RoutesInvariance, PTL
=============================================================================

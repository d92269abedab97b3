----------------------------- MODULE StdioProofs ------------------------------
(***************************************************************************)
(* Proofs about StdioCapture, for any sessions considered and any number   *)
(* of requests and of pieces in a pipe.                                    *)
(***************************************************************************)
EXTENDS StdioCapture, SequenceTheorems, FiniteSetTheorems, TLAPS

Events == [dir: Directions, body: Bodies, fits: {TRUE}, opens: {FALSE}, ids: {{}},
           msg: Messages \union {None}, full: BOOLEAN]

Lines == LinesOver(Events)
Trace == RecordersOver(Events, {})

\* The lines of the file, and those its sink still holds.
Tape(r) == r.lines \o r.held

Stuck(r) == r.closed \/ r.failed

OnTape(r, d, m) ==
    \E i \in 1 .. Len(Tape(r)) : Tape(r)[i].ev.msg = m /\ Tape(r)[i].ev.dir = d

\* The sink holds nothing unless a write failed.
Held(r) == r.dropped = 0 => r.held = <<>>

\* Where the line of an event given to r is in x: in the file, in the sink, or
\* nowhere.
Lands(r, x, e) ==
    \/ Stuck(r) /\ x.lines = r.lines /\ x.held = r.held /\ x.failed = r.failed
    \/ /\ ~Stuck(r) /\ ~x.failed /\ x.held = <<>>
       /\ \E line \in Lines : line.ev = e /\ x.lines = Append(Tape(r), line)
    \/ /\ ~Stuck(r) /\ x.failed /\ x.lines = r.lines
       /\ \/ x.held = r.held
          \/ \E line \in Lines : line.ev = e /\ x.held = Append(r.held, line)

\* x is r after it was given an event: its line is on the tape, or the recorder
\* takes no more, or it was dropped.
Wrote(r, x, e) ==
    /\ x \in Trace /\ Lands(r, x, e)
    /\ Held(r) => Held(x)
    /\ r.dropped # 0 => x.dropped # 0
    /\ r.failed => x.failed
    /\ x.dropped # r.dropped => x.failed
    /\ ~r.closed => x.afterClose = r.afterClose
    /\ \/ Tape(x) = Tape(r) /\ (r.closed \/ x.dropped # 0)
       \/ ~Stuck(r) /\ \E line \in Lines : line.ev = e /\ Tape(x) = Append(Tape(r), line)

Recorded(r, x, e) ==
    Wrote(r, x, e) /\ x.closed = r.closed /\ (r.closed => x.failed = r.failed)

Closed(r, x, e) == \/ r.closed /\ x = r
                   \/ ~r.closed /\ Wrote(r, x, e) /\ x.closed

\* x is r, but for where its lines are kept.
Rested(r, x) ==
    /\ x \in Trace /\ Tape(x) = Tape(r)
    /\ Held(r) => Held(x)
    /\ x.closed = r.closed /\ x.dropped = r.dropped /\ x.afterClose = r.afterClose
    /\ \/ x.lines = r.lines /\ x.held = r.held
       \/ x.lines = Tape(r) /\ x.held = <<>>

-----------------------------------------------------------------------------
(* What the operators of Recorder return. *)

\* Updating the fields an operator touches, one group at a time.
LEMMA Updates ==
    ASSUME NEW r \in Trace
    PROVE  /\ \A n \in Nat, S \in SUBSET {} :
                [r EXCEPT !.initializes = n, !.ids = S] \in Trace
           /\ \A n, m \in Nat, l, h \in Seq(Lines) :
                [r EXCEPT !.lines = l, !.torn = FALSE, !.held = h, !.nextSeq = n,
                          !.messages = m] \in Trace
           /\ \A n \in Nat, b \in BOOLEAN, h \in Seq(Lines) :
                [r EXCEPT !.failed = TRUE, !.dropped = n, !.torn = b, !.held = h] \in Trace
           /\ \A n \in Nat : [r EXCEPT !.dropped = n] \in Trace
           /\ \A n \in Nat : [r EXCEPT !.afterClose = n] \in Trace
           /\ [r EXCEPT !.closed = TRUE] \in Trace
           /\ \A b \in BOOLEAN : [r EXCEPT !.failed = b] \in Trace
           /\ \A l, h \in Seq(Lines) :
                [r EXCEPT !.lines = l, !.torn = FALSE, !.held = h] \in Trace
BY DEF Trace, RecordersOver, Lines

LEMMA Fields ==
    ASSUME NEW r \in Trace
    PROVE  /\ r.lines \in Seq(Lines) /\ r.held \in Seq(Lines)
           /\ r.nextSeq \in Nat /\ r.messages \in Nat /\ r.dropped \in Nat
           /\ r.afterClose \in Nat /\ r.initializes \in Nat
           /\ r.torn \in BOOLEAN /\ r.failed \in BOOLEAN /\ r.closed \in BOOLEAN
           /\ r.ids \in SUBSET {} /\ r.sink \in Sinks
BY DEF Trace, RecordersOver, Lines

LEMMA LineType ==
    ASSUME NEW r \in Trace, NEW e \in Events
    PROVE  LineOf(r, e) \in Lines /\ LineOf(r, e).ev = e
BY Fields DEF LineOf, Lines, LinesOver

\* A tape is a sequence of lines, of which those in the file are the first.
LEMMA TapeType ==
    ASSUME NEW r \in Trace
    PROVE  /\ Tape(r) \in Seq(Lines) /\ Len(Tape(r)) \in Nat
           /\ Len(r.lines) \in Nat /\ Len(r.lines) <= Len(Tape(r))
           /\ \A i \in 1 .. Len(r.lines) : Tape(r)[i] = r.lines[i]
           /\ r.held = <<>> => Tape(r) = r.lines
<1>1. r.lines \in Seq(Lines) /\ r.held \in Seq(Lines)
  BY Fields
<1>2. Len(r.lines) \in Nat /\ Len(r.held) \in Nat
  BY <1>1, LenProperties
<1>3. /\ Tape(r) \in Seq(Lines) /\ Len(Tape(r)) = Len(r.lines) + Len(r.held)
      /\ \A i \in 1 .. Len(r.lines) + Len(r.held) :
             Tape(r)[i] = IF i <= Len(r.lines) THEN r.lines[i] ELSE r.held[i - Len(r.lines)]
  BY <1>1, ConcatProperties DEF Tape
<1>4. r.held = <<>> => Tape(r) = r.lines
  BY <1>1, ConcatEmptySeq DEF Tape
<1> DEFINE n == Len(r.lines)
           m == Len(r.held)
<1> HIDE DEF Tape, n, m
<1>5. n \in Nat /\ m \in Nat /\ Len(Tape(r)) = n + m
      /\ \A i \in 1 .. n + m : Tape(r)[i] = IF i <= n THEN r.lines[i] ELSE r.held[i - n]
  BY <1>2, <1>3 DEF n, m
<1>6. Len(Tape(r)) \in Nat /\ n <= Len(Tape(r)) /\ \A i \in 1 .. n : Tape(r)[i] = r.lines[i]
  BY <1>5
<1> QED BY <1>3, <1>4, <1>5, <1>6 DEF n

\* Appending, to what is held or behind what was.
Appends(l, h, x) ==
    /\ (l \o h \o <<x>>) \o <<>> = Append(l \o h, x) /\ l \o h \o <<x>> = Append(l \o h, x)
    /\ l \o Append(h, x) = Append(l \o h, x)
    /\ (l \o h) \o <<>> = l \o h
    /\ l \o h \o <<x>> \in Seq(Lines) /\ Append(h, x) \in Seq(Lines) /\ l \o h \in Seq(Lines)

LEMMA Appending ==
    ASSUME NEW l \in Seq(Lines), NEW h \in Seq(Lines), NEW x \in Lines
    PROVE  Appends(l, h, x)
<1>1. l \o h \in Seq(Lines) /\ <<x>> \in Seq(Lines)
  BY ConcatProperties
<1>2. (l \o h) \o <<x>> = Append(l \o h, x) /\ h \o <<x>> = Append(h, x)
  BY <1>1, AppendIsConcat
<1>3. (l \o h) \o <<x>> = l \o (h \o <<x>>)
  BY <1>1, ConcatAssociative
<1>4. (l \o h) \o <<x>> \in Seq(Lines)
  BY <1>1, ConcatProperties
<1>5. ((l \o h) \o <<x>>) \o <<>> = (l \o h) \o <<x>> /\ (l \o h) \o <<>> = l \o h
  BY <1>1, <1>4, ConcatEmptySeq
<1> QED BY <1>1, <1>2, <1>3, <1>4, <1>5 DEF Appends

\* Noting an event's sessions leaves the trace alone.
SameTrace(x, r) ==
    /\ x.sink = r.sink /\ x.lines = r.lines /\ x.held = r.held
    /\ x.failed = r.failed /\ x.closed = r.closed
    /\ x.afterClose = r.afterClose /\ x.dropped = r.dropped

LEMMA ObserveLeavesTheTrace ==
    ASSUME NEW r \in Trace, NEW e \in Events, NEW o, o = Observe(r, e)
    PROVE  o \in Trace /\ SameTrace(o, r)
<1>1. (IF e.opens THEN r.initializes + 1 ELSE r.initializes) \in Nat /\ r.ids \union e.ids \in SUBSET {}
  BY Fields DEF Events
<1>2. o \in Trace
  BY <1>1, Updates DEF Observe
<1>3. \A n, S : SameTrace([r EXCEPT !.initializes = n, !.ids = S], r)
  BY DEF SameTrace, Trace, RecordersOver
<1> QED BY <1>2, <1>3 DEF Observe

LEMMA WrittenFields ==
    ASSUME NEW r \in Trace, NEW e \in Events, NEW x, x = Written(r, e)
    PROVE  /\ x \in Trace /\ Tape(x) = Append(Tape(r), LineOf(r, e)) /\ x.held = <<>>
           /\ x.lines = Append(Tape(r), LineOf(r, e)) /\ x.failed = r.failed
           /\ x.dropped = r.dropped /\ x.afterClose = r.afterClose /\ x.closed = r.closed
<1> DEFINE m == IF e.body = "message" THEN r.messages + 1 ELSE r.messages
           l == r.lines \o r.held \o <<LineOf(r, e)>>
<1>1. m \in Nat /\ r.nextSeq + 1 \in Nat /\ r.lines \in Seq(Lines) /\ r.held \in Seq(Lines)
      /\ LineOf(r, e) \in Lines /\ <<>> \in Seq(Lines)
  BY Fields, LineType
<1>2. x = [r EXCEPT !.lines = l, !.torn = FALSE, !.held = <<>>,
                    !.nextSeq = r.nextSeq + 1, !.messages = m]
  BY DEF Written
<1>3. /\ l \in Seq(Lines) /\ l \o <<>> = Append(r.lines \o r.held, LineOf(r, e))
      /\ l = Append(r.lines \o r.held, LineOf(r, e))
  <2>1. Appends(r.lines, r.held, LineOf(r, e))
    BY <1>1, Appending
  <2> QED BY <2>1 DEF Appends
<1> HIDE DEF m, l
<1>4. x \in Trace
  <2>1. \A n, k \in Nat, y, h \in Seq(Lines) :
           [r EXCEPT !.lines = y, !.torn = FALSE, !.held = h, !.nextSeq = n,
                     !.messages = k] \in Trace
    BY Updates
  <2>2. [r EXCEPT !.lines = l, !.torn = FALSE, !.held = <<>>,
                  !.nextSeq = r.nextSeq + 1, !.messages = m] \in Trace
    BY <1>1, <1>3, <2>1
  <2> QED BY <1>2, <2>2
<1>5. /\ x.lines = l /\ x.held = <<>> /\ x.dropped = r.dropped /\ x.failed = r.failed
      /\ x.afterClose = r.afterClose /\ x.closed = r.closed
  BY <1>2 DEF Trace, RecordersOver
<1> QED BY <1>3, <1>4, <1>5 DEF Tape

LEMMA FailureFields ==
    ASSUME NEW r \in Trace, NEW e \in Events, NEW x \in WriteFailures(r, e)
    PROVE  /\ x \in Trace /\ x.failed /\ x.closed = r.closed
           /\ x.dropped = r.dropped + 1 /\ x.afterClose = r.afterClose
           /\ Tape(x) = Tape(r) \/ Tape(x) = Append(Tape(r), LineOf(r, e))
           /\ x.lines = r.lines /\ x.held \in {r.held, Append(r.held, LineOf(r, e))}
<1>1. PICK t \in BOOLEAN, h \in {r.held, Append(r.held, LineOf(r, e))} :
           x = [r EXCEPT !.failed = TRUE, !.dropped = r.dropped + 1, !.torn = t, !.held = h]
  <2>1. r.torn \in BOOLEAN
    BY Fields
  <2>2. PICK t \in IF r.sink = "unwritable" THEN {r.torn} ELSE {r.torn, TRUE},
            h \in IF r.sink = "buffered" THEN {r.held, Append(r.held, LineOf(r, e))}
                                         ELSE {r.held} :
              x = [r EXCEPT !.failed = TRUE, !.dropped = @ + 1, !.torn = t, !.held = h]
    BY DEF WriteFailures
  <2>3. t \in BOOLEAN /\ h \in {r.held, Append(r.held, LineOf(r, e))}
    BY <2>1
  <2> QED BY <2>2, <2>3
<1>2. /\ r.lines \in Seq(Lines) /\ r.held \in Seq(Lines) /\ LineOf(r, e) \in Lines
      /\ r.dropped + 1 \in Nat
  BY Fields, LineType
<1>3. h \in Seq(Lines) /\ r.lines \o Append(r.held, LineOf(r, e)) = Append(Tape(r), LineOf(r, e))
  <2> DEFINE x1 == LineOf(r, e)
             l1 == r.lines
             h1 == r.held
  <2>1. l1 \in Seq(Lines) /\ h1 \in Seq(Lines) /\ x1 \in Lines /\ h \in {h1, Append(h1, x1)}
    BY <1>1, <1>2
  <2> HIDE DEF x1, l1, h1
  <2>2. h \in Seq(Lines) /\ l1 \o Append(h1, x1) = Append(l1 \o h1, x1)
    <3>1. Appends(l1, h1, x1)
      BY <2>1, Appending
    <3> QED BY <2>1, <3>1 DEF Appends
  <2> QED BY <2>2 DEF x1, l1, h1, Tape
<1>4. x \in Trace
  BY <1>1, <1>2, <1>3, Updates
<1>5. /\ x.lines = r.lines /\ x.dropped = r.dropped + 1 /\ x.afterClose = r.afterClose
      /\ x.failed /\ x.closed = r.closed /\ x.held = h
  BY <1>1 DEF Trace, RecordersOver
<1> QED BY <1>1, <1>3, <1>4, <1>5 DEF Tape

LEMMA RecordWrites ==
    ASSUME NEW r \in Trace, NEW e \in Events, NEW w \in Record(r, e), NEW x, x = w.rec
    PROVE  Recorded(r, x, e)
<1> DEFINE o == Observe(r, e)
<1>w. w \in Write(r, e)
  BY DEF Record
<1>o. o \in Trace /\ SameTrace(o, r)
  BY ObserveLeavesTheTrace
<1>l. LineOf(o, e) \in Lines /\ LineOf(o, e).ev = e /\ Tape(o) = Tape(r)
  BY <1>o, LineType DEF SameTrace, Tape
<1>f. /\ r.dropped \in Nat /\ r.afterClose \in Nat /\ r.closed \in BOOLEAN /\ r.failed \in BOOLEAN
      /\ e.fits = TRUE
  BY Fields DEF Events
<1> HIDE DEF o
<1>1. CASE r.closed
  <2>1. x = [r EXCEPT !.afterClose = r.afterClose + 1]
    BY <1>1, <1>w DEF Write
  <2>2. x \in Trace
    <3>1. r.afterClose + 1 \in Nat
      BY <1>f
    <3> QED BY <2>1, <3>1, Updates
  <2>3. /\ x.closed = r.closed /\ x.lines = r.lines /\ x.held = r.held
        /\ x.dropped = r.dropped /\ x.failed = r.failed
    BY <2>1 DEF Trace, RecordersOver
  <2> QED BY <1>1, <1>f, <2>2, <2>3 DEF Recorded, Wrote, Lands, Held, Stuck, Tape
<1>2. CASE ~r.closed /\ r.failed
  <2>1. x = [o EXCEPT !.dropped = o.dropped + 1] /\ o.dropped = r.dropped
    BY <1>2, <1>o, <1>w DEF Write, o, SameTrace
  <2>2. x \in Trace
    <3>1. o.dropped + 1 \in Nat
      BY <1>f, <2>1
    <3> QED BY <1>o, <2>1, <3>1, Updates
  <2>3. /\ x.closed = r.closed /\ x.lines = r.lines /\ x.held = r.held /\ x.failed = r.failed
        /\ x.dropped = r.dropped + 1 /\ x.afterClose = r.afterClose
    <3>1. /\ x.closed = o.closed /\ x.lines = o.lines /\ x.held = o.held /\ x.failed = o.failed
          /\ x.dropped = o.dropped + 1 /\ x.afterClose = o.afterClose
      BY <1>o, <2>1 DEF Trace, RecordersOver
    <3> QED BY <1>o, <3>1 DEF SameTrace
  <2> QED BY <1>2, <1>f, <2>2, <2>3 DEF Recorded, Wrote, Lands, Held, Stuck, Tape
<1>3. CASE ~r.closed /\ ~r.failed
  <2>1. w \in SinkOutcomes(o, e)
    BY <1>3, <1>f, <1>w DEF Write, o
  <2>2. CASE x = Written(o, e)
    <3>1. /\ x \in Trace /\ Tape(x) = Append(Tape(r), LineOf(o, e)) /\ x.held = <<>>
          /\ x.lines = Append(Tape(r), LineOf(o, e)) /\ x.failed = r.failed
          /\ x.dropped = r.dropped /\ x.afterClose = r.afterClose /\ x.closed = r.closed
      <4>1. /\ x \in Trace /\ Tape(x) = Append(Tape(o), LineOf(o, e)) /\ x.held = <<>>
            /\ x.lines = Append(Tape(o), LineOf(o, e)) /\ x.failed = o.failed
            /\ x.dropped = o.dropped /\ x.afterClose = o.afterClose /\ x.closed = o.closed
        BY <1>o, <2>2, WrittenFields
      <4> QED BY <1>o, <1>l, <4>1 DEF SameTrace
    <3>2. Lands(r, x, e)
      BY <1>3, <1>l, <3>1 DEF Lands, Stuck
    <3> QED BY <1>3, <1>f, <1>l, <3>1, <3>2 DEF Recorded, Wrote, Held, Stuck
  <2>3. CASE x \in WriteFailures(o, e)
    <3>1. /\ x \in Trace /\ x.failed /\ x.closed = r.closed
          /\ x.dropped = r.dropped + 1 /\ x.afterClose = r.afterClose
          /\ Tape(x) = Tape(r) \/ Tape(x) = Append(Tape(r), LineOf(o, e))
          /\ x.lines = r.lines /\ x.held \in {r.held, Append(r.held, LineOf(o, e))}
      <4>1. /\ x \in Trace /\ x.failed /\ x.closed = o.closed
            /\ x.dropped = o.dropped + 1 /\ x.afterClose = o.afterClose
            /\ Tape(x) = Tape(o) \/ Tape(x) = Append(Tape(o), LineOf(o, e))
            /\ x.lines = o.lines /\ x.held \in {o.held, Append(o.held, LineOf(o, e))}
        BY <1>o, <2>3, FailureFields
      <4> QED BY <1>o, <1>l, <4>1 DEF SameTrace
    <3>2. x.dropped # 0 /\ (Held(r) => Held(x))
      BY <1>f, <3>1 DEF Held
    <3>3. \/ Tape(x) = Tape(r)
          \/ \E line \in Lines : line.ev = e /\ Tape(x) = Append(Tape(r), line)
      BY <1>l, <3>1
    <3>4. ~Stuck(r)
      BY <1>3 DEF Stuck
    <3>5. Lands(r, x, e)
      BY <1>l, <3>1, <3>4 DEF Lands
    <3>6. Wrote(r, x, e)
      BY <1>3, <3>1, <3>2, <3>3, <3>4, <3>5 DEF Wrote
    <3> QED BY <1>3, <3>1, <3>6 DEF Recorded
  <2> QED BY <2>1, <2>2, <2>3 DEF SinkOutcomes
<1> QED BY <1>1, <1>2, <1>3, <1>f

\* A message and a lifecycle event are events a recorder takes.
LEMMA EventTypes ==
    /\ \A d \in Directions, m \in Messages, b \in BOOLEAN :
          LET e == MessageEvent(d, [msg |-> m, full |-> b])
          IN  e \in Events /\ e.msg = m /\ e.body = "message" /\ e.dir = d
    /\ \A d \in Directions, body \in Bodies :
          LET e == StdioEvent(d, body)
          IN  e \in Events /\ e.msg = None /\ e.body = body /\ e.dir = d
<1>1. \A d \in Directions, m \in Messages, b \in BOOLEAN :
         [dir |-> d, body |-> "message", fits |-> TRUE, opens |-> FALSE, ids |-> {},
          msg |-> m, full |-> b] \in Events
  BY DEF Events, Bodies
<1>2. \A d \in Directions, body \in Bodies :
         [dir |-> d, body |-> body, fits |-> TRUE, opens |-> FALSE, ids |-> {},
          msg |-> None, full |-> TRUE] \in Events
  BY DEF Events
<1>3. \A d \in Directions, m \in Messages, b \in BOOLEAN :
         LET e == MessageEvent(d, [msg |-> m, full |-> b])
         IN  e \in Events /\ e.msg = m /\ e.body = "message" /\ e.dir = d
  BY <1>1 DEF MessageEvent
<1>4. \A d \in Directions, body \in Bodies :
         LET e == StdioEvent(d, body)
         IN  e \in Events /\ e.msg = None /\ e.body = body /\ e.dir = d
  BY <1>2 DEF StdioEvent
<1> QED BY <1>3, <1>4

\* The first close writes its event and seals; a later one changes nothing.
LEMMA CloseWrites ==
    ASSUME NEW r \in Trace, NEW e \in Events, NEW w \in Close(r, e), NEW x, x = w.rec
    PROVE  Closed(r, x, e)
<1>1. CASE r.closed
  BY <1>1 DEF Close, Closed
<1>2. CASE ~r.closed
  <2>1. PICK v \in Write(r, e) : w = [out |-> v.out, rec |-> [v.rec EXCEPT !.closed = TRUE]]
    <3>1. w \in {[out |-> v.out, rec |-> [v.rec EXCEPT !.closed = TRUE]] : v \in Write(r, e)}
      BY <1>2 DEF Close
    <3> QED BY <3>1
  <2> DEFINE y == v.rec
  <2>2. Recorded(r, y, e)
    BY <2>1, RecordWrites DEF Record
  <2>3. x = [y EXCEPT !.closed = TRUE]
    BY <2>1
  <2> HIDE DEF y
  <2>4. y \in Trace
    BY <2>2 DEF Recorded, Wrote
  <2>5. x \in Trace
    BY <2>3, <2>4, Updates
  <2>6. /\ x.lines = y.lines /\ x.held = y.held /\ x.dropped = y.dropped
        /\ x.failed = y.failed /\ x.afterClose = y.afterClose /\ x.closed
    BY <2>3, <2>4 DEF Trace, RecordersOver
  <2>7. Lands(r, x, e)
    BY <2>2, <2>6 DEF Recorded, Wrote, Lands
  <2> QED BY <1>2, <2>2, <2>5, <2>6, <2>7 DEF Recorded, Closed, Wrote, Held, Tape
<1> QED BY <1>1, <1>2

LEMMA DrainedRests ==
    ASSUME NEW r \in Trace, NEW x, x = Drained(r)
    PROVE  Rested(r, x) /\ x.failed = r.failed /\ x.held = <<>>
<1> DEFINE l == r.lines \o r.held
<1>1. l \in Seq(Lines) /\ l \o <<>> = l /\ <<>> \in Seq(Lines)
  BY Fields, ConcatProperties, ConcatEmptySeq
<1>2. x = [r EXCEPT !.lines = l, !.torn = FALSE, !.held = <<>>]
  BY DEF Drained
<1>3. Tape(r) = l
  BY DEF Tape
<1> HIDE DEF l
<1>4. x \in Trace
  <2>1. \A y, h \in Seq(Lines) : [r EXCEPT !.lines = y, !.torn = FALSE, !.held = h] \in Trace
    BY Updates
  <2> QED BY <1>1, <1>2, <2>1
<1>5. /\ x.lines = l /\ x.held = <<>> /\ x.dropped = r.dropped /\ x.failed = r.failed
      /\ x.afterClose = r.afterClose /\ x.closed = r.closed
  BY <1>2 DEF Trace, RecordersOver
<1> QED BY <1>1, <1>3, <1>4, <1>5 DEF Rested, Tape, Held

\* The flush changes where the tape is kept; the summary has the error and the
\* counters.
LEMMA FinishRests ==
    ASSUME NEW r \in Trace, NEW f \in Finish(r), NEW x, x = f.rec
    PROVE  /\ Rested(r, x) /\ ~x.failed
           /\ r.failed => x.lines = r.lines /\ x.held = r.held
           /\ f.summary.error \in BOOLEAN /\ (r.failed => f.summary.error)
           /\ f.summary.afterClose = r.afterClose /\ f.summary.dropped = r.dropped
<1>1. PICK g \in Flushed(r) : f = [summary |-> SummaryOf(g), rec |-> [g EXCEPT !.failed = FALSE]]
  BY DEF Finish
<1>2. g \in {r, Drained(r), [r EXCEPT !.failed = TRUE]} /\ (r.failed => g = r)
  BY <1>1 DEF Flushed
<1>3. Rested(r, g) /\ g.failed \in BOOLEAN
  <2>1. CASE g = Drained(r)
    BY <2>1, DrainedRests, Fields
  <2>2. CASE g = r
    BY <2>2, Fields DEF Rested
  <2>3. CASE g = [r EXCEPT !.failed = TRUE]
    <3>1. g \in Trace
      BY <2>3, Updates
    <3>2. /\ g.lines = r.lines /\ g.held = r.held /\ g.dropped = r.dropped /\ g.failed
          /\ g.afterClose = r.afterClose /\ g.closed = r.closed
      BY <2>3 DEF Trace, RecordersOver
    <3> QED BY <2>3, <3>1, <3>2 DEF Rested, Tape, Held
  <2> QED BY <1>2, <2>1, <2>2, <2>3
<1>4. x = [g EXCEPT !.failed = FALSE] /\ f.summary = SummaryOf(g)
  BY <1>1
<1>5. g \in Trace
  BY <1>3 DEF Rested
<1>6. x \in Trace
  BY <1>4, <1>5, Updates
<1>7. /\ x.lines = g.lines /\ x.held = g.held /\ x.dropped = g.dropped /\ ~x.failed
      /\ x.afterClose = g.afterClose /\ x.closed = g.closed
  BY <1>4, <1>5 DEF Trace, RecordersOver
<1>8. /\ f.summary.error = g.failed /\ f.summary.afterClose = g.afterClose
      /\ f.summary.dropped = g.dropped
  BY <1>4 DEF SummaryOf
<1> QED BY <1>2, <1>3, <1>6, <1>7, <1>8 DEF Rested, Tape, Held

LEMMA DropRests ==
    ASSUME NEW r \in Trace, NEW x \in Drop(r)
    PROVE  Rested(r, x) /\ x.failed = r.failed
BY DrainedRests DEF Drop, Rested

LEMMA NewTrace ==
    ASSUME NEW r, r = New("buffered")
    PROVE  /\ r \in Trace /\ Tape(r) = <<>> /\ Held(r)
           /\ ~r.closed /\ ~r.failed /\ r.dropped = 0 /\ r.afterClose = 0
<1>1. <<>> \in Seq(Lines) /\ <<>> \o <<>> = <<>>
  BY ConcatEmptySeq
<1>2. r \in Trace
  BY <1>1 DEF New, Trace, RecordersOver, Lines, Sinks
<1>3. /\ r.lines = <<>> /\ r.held = <<>> /\ ~r.closed /\ ~r.failed
      /\ r.dropped = 0 /\ r.afterClose = 0
  BY DEF New
<1> QED BY <1>1, <1>2, <1>3 DEF Tape, Held

-----------------------------------------------------------------------------
(* What the file has, and what the recorder counts instead.                    *)

HasLine(r, m) == \E i \in 1 .. Len(r.lines) : r.lines[i].ev.msg = m

Lost(r) == r.afterClose + r.dropped

\* x has the lines of r, and counts what r does.
Keeps(r, x) ==
    /\ Lost(r) \in Nat /\ Lost(x) \in Nat /\ Lost(r) <= Lost(x)
    /\ \A m : HasLine(r, m) => HasLine(x, m)

\* And has a line of m, or counts one more.
Counts(r, x, m) == Keeps(r, x) /\ (HasLine(x, m) \/ Lost(r) + 1 <= Lost(x))

LEMMA LostType == ASSUME NEW r \in Trace PROVE Lost(r) \in Nat /\ Keeps(r, r)
<1>1. r.afterClose \in Nat /\ r.dropped \in Nat
  BY Fields
<1>2. Lost(r) \in Nat
  BY <1>1 DEF Lost
<1> QED BY <1>2 DEF Keeps

LEMMA LineLands ==
    ASSUME NEW r \in Trace, NEW x, NEW line \in Lines, x.lines = Append(Tape(r), line)
    PROVE  HasLine(x, line.ev.msg) /\ \A m : HasLine(r, m) => HasLine(x, m)
<1> DEFINE s == Tape(r)
           t == x.lines
<1>1. /\ s \in Seq(Lines) /\ Len(s) \in Nat /\ Len(r.lines) \in Nat /\ Len(r.lines) <= Len(s)
      /\ \A i \in 1 .. Len(r.lines) : s[i] = r.lines[i]
  BY TapeType
<1>2. Len(t) = Len(s) + 1 /\ t[Len(s) + 1] = line /\ \A i \in 1 .. Len(s) : t[i] = s[i]
  BY <1>1, AppendProperties
<1> HIDE DEF s
<1>3. Len(s) + 1 \in 1 .. Len(t) /\ \A i \in 1 .. Len(r.lines) : i \in 1 .. Len(t) /\ t[i] = r.lines[i]
  BY <1>1, <1>2
<1> QED BY <1>2, <1>3 DEF HasLine

\* Lines do not leave the file.
LEMMA LandsKeepsLines ==
    ASSUME NEW r \in Trace, NEW x, NEW e, Lands(r, x, e)
    PROVE  \A m : HasLine(r, m) => HasLine(x, m)
<1>1. CASE x.lines = r.lines
  BY <1>1 DEF HasLine
<1>2. CASE \E line \in Lines : line.ev = e /\ x.lines = Append(Tape(r), line)
  BY <1>2, LineLands
<1> QED BY <1>1, <1>2 DEF Lands

\* Flushing and dropping the sink too.
LEMMA RestedKeeps ==
    ASSUME NEW r \in Trace, NEW x, Rested(r, x)
    PROVE  Keeps(r, x)
<1>1. x \in Trace /\ Lost(x) = Lost(r)
  BY DEF Rested, Lost
<1>2. ASSUME NEW m, HasLine(r, m) PROVE HasLine(x, m)
  <2>1. CASE x.lines = r.lines
    BY <1>2, <2>1 DEF HasLine
  <2>2. CASE x.lines = Tape(r)
    <3>1. PICK i \in 1 .. Len(r.lines) : r.lines[i].ev.msg = m
      BY <1>2 DEF HasLine
    <3>2. /\ Len(Tape(r)) \in Nat /\ Len(r.lines) \in Nat /\ Len(r.lines) <= Len(Tape(r))
          /\ Tape(r)[i] = r.lines[i]
      BY TapeType
    <3>3. i \in 1 .. Len(Tape(r))
      BY <3>2
    <3> QED BY <2>2, <3>1, <3>2, <3>3 DEF HasLine
  <2> QED BY <2>1, <2>2 DEF Rested
<1> QED BY <1>1, <1>2, LostType DEF Keeps

\* An event of m that Record was given has its line, or is counted.
LEMMA RecordCounts ==
    ASSUME NEW r \in Trace, NEW e \in Events, NEW w \in Record(r, e), NEW x, x = w.rec
    PROVE  Counts(r, x, e.msg)
<1> DEFINE o == Observe(r, e)
<1>w. w \in Write(r, e)
  BY DEF Record
<1>o. o \in Trace /\ SameTrace(o, r)
  BY ObserveLeavesTheTrace
<1>l. LineOf(o, e) \in Lines /\ LineOf(o, e).ev = e
  BY <1>o, LineType
<1>f. /\ r.dropped \in Nat /\ r.afterClose \in Nat /\ r.closed \in BOOLEAN /\ r.failed \in BOOLEAN
      /\ e.fits = TRUE /\ Lost(r) \in Nat
  BY Fields, LostType DEF Events
<1>r. x \in Trace /\ \A m : HasLine(r, m) => HasLine(x, m)
  <2>1. Recorded(r, x, e)
    BY RecordWrites
  <2>2. x \in Trace /\ Lands(r, x, e)
    BY <2>1 DEF Recorded, Wrote
  <2> QED BY <2>2, LandsKeepsLines
<1> HIDE DEF o
<1>1. ASSUME x.afterClose \in {r.afterClose, r.afterClose + 1}, x.dropped \in {r.dropped, r.dropped + 1},
             HasLine(x, e.msg) \/ x.afterClose # r.afterClose \/ x.dropped # r.dropped
      PROVE  Counts(r, x, e.msg)
  <2>1. Lost(x) \in Nat /\ Lost(r) <= Lost(x) /\ (HasLine(x, e.msg) \/ Lost(r) + 1 <= Lost(x))
    BY <1>f, <1>1 DEF Lost
  <2> QED BY <1>f, <1>r, <2>1 DEF Counts, Keeps
<1>2. CASE r.closed
  <2>1. x = [r EXCEPT !.afterClose = r.afterClose + 1]
    BY <1>2, <1>w DEF Write
  <2>2. x.afterClose = r.afterClose + 1 /\ x.dropped = r.dropped
    BY <2>1 DEF Trace, RecordersOver
  <2>3. x.afterClose # r.afterClose
    BY <1>f, <2>2
  <2> QED BY <1>1, <2>2, <2>3
<1>3. CASE ~r.closed /\ r.failed
  <2>1. x = [o EXCEPT !.dropped = o.dropped + 1]
    BY <1>3, <1>w DEF Write, o
  <2>2. x.afterClose = r.afterClose /\ x.dropped = r.dropped + 1
    <3>1. x.afterClose = o.afterClose /\ x.dropped = o.dropped + 1
      BY <1>o, <2>1 DEF Trace, RecordersOver
    <3> QED BY <1>o, <3>1 DEF SameTrace
  <2>3. x.dropped # r.dropped
    BY <1>f, <2>2
  <2> QED BY <1>1, <2>2, <2>3
<1>4. CASE ~r.closed /\ ~r.failed
  <2>1. w \in SinkOutcomes(o, e)
    BY <1>4, <1>f, <1>w DEF Write, o
  <2>2. CASE x = Written(o, e)
    <3>1. /\ x.lines = Append(Tape(o), LineOf(o, e))
          /\ x.dropped = o.dropped /\ x.afterClose = o.afterClose
      BY <1>o, <2>2, WrittenFields
    <3>2. HasLine(x, e.msg)
      BY <1>o, <1>l, <3>1, LineLands
    <3> QED BY <1>1, <1>o, <3>1, <3>2 DEF SameTrace
  <2>3. CASE x \in WriteFailures(o, e)
    <3>1. x.dropped = o.dropped + 1 /\ x.afterClose = o.afterClose
      BY <1>o, <2>3, FailureFields
    <3>2. x.dropped = r.dropped + 1 /\ x.afterClose = r.afterClose
      BY <1>o, <3>1 DEF SameTrace
    <3>3. x.dropped # r.dropped
      BY <1>f, <3>2
    <3> QED BY <1>1, <3>2, <3>3
  <2> QED BY <2>1, <2>2, <2>3 DEF SinkOutcomes
<1> QED BY <1>2, <1>3, <1>4, <1>f

LEMMA CloseKeeps ==
    ASSUME NEW r \in Trace, NEW e \in Events, NEW w \in Close(r, e), NEW x, x = w.rec
    PROVE  Keeps(r, x)
<1>1. CASE r.closed
  BY <1>1, LostType DEF Close
<1>2. CASE ~r.closed
  <2>1. PICK v \in Write(r, e) : w = [out |-> v.out, rec |-> [v.rec EXCEPT !.closed = TRUE]]
    <3>1. w \in {[out |-> v.out, rec |-> [v.rec EXCEPT !.closed = TRUE]] : v \in Write(r, e)}
      BY <1>2 DEF Close
    <3> QED BY <3>1
  <2> DEFINE y == v.rec
  <2>2. Recorded(r, y, e) /\ Counts(r, y, e.msg)
    BY <2>1, RecordWrites, RecordCounts DEF Record
  <2>3. x = [y EXCEPT !.closed = TRUE]
    BY <2>1
  <2> HIDE DEF y
  <2>4. y \in Trace
    BY <2>2 DEF Recorded, Wrote
  <2>5. x.lines = y.lines /\ x.dropped = y.dropped /\ x.afterClose = y.afterClose
    BY <2>3, <2>4 DEF Trace, RecordersOver
  <2> QED BY <2>2, <2>5 DEF Counts, Keeps, Lost, HasLine
<1> QED BY <1>1, <1>2

-----------------------------------------------------------------------------
(* The inductive invariant. *)

Piece == [msg: Messages, last: BOOLEAN]

PumpStates == {"off", "running", "done", "failed", "aborted"}

Pumps == [state: PumpStates, chunk: Seq(Piece), lines: Seq(Piece),
          part: Messages \union {None}, eof: BOOLEAN, aborting: BOOLEAN, oversized: Nat]

MainPhases == {"starting", "session", "clientDone", "joining", "relaying", "lateRelay",
               "stopping", "reaping", "draining", "drainStop", "drainKill", "afterKill",
               "closing", "finishing", "finished", "exited", "killed"}

Mains == [phase: MainPhases, clientClosed: BOOLEAN, clientFinished: BOOLEAN,
          stop: Stops \union {"none"}, hurried: BOOLEAN]

Clients == [state: {"reading", "stalled", "gone"}, closed: BOOLEAN, rest: Seq(Piece),
            begun: Nat]

Servers == [alive: SUBSET Procs, reads: BOOLEAN, owes: Seq(Messages), rest: Seq(Piece),
            noted: BOOLEAN, read: Nat, told: SUBSET Procs, clean: BOOLEAN]

Typed ==
    /\ rec \in Trace
    /\ main \in Mains
    /\ pump \in [Directions -> Pumps]
    /\ inp \in [Directions -> Seq(Piece)] /\ outp \in [Directions -> Seq(Piece)]
    /\ sent \in [Directions -> Seq(Messages)] /\ given \in [Directions -> Seq(Messages)]
    /\ client \in Clients
    /\ server \in Servers /\ server.alive \subseteq setup.procs /\ server.told \subseteq setup.group
    /\ setup \in Setups
    /\ signals.pending \subseteq Stops
    /\ before \subseteq Messages \X Messages
    /\ \A d \in Directions : Len(inp[d]) <= setup.room /\ Len(outp[d]) <= setup.room
    /\ \A d \in Directions :
          Len(pump[d].lines) <= setup.room /\ Len(pump[d].chunk) <= setup.room

\* Where the main task is, and what it knows of the pumps.
Joined == {"lateRelay", "draining", "drainStop", "drainKill", "afterKill", "closing",
           "finishing", "finished", "exited", "killed"}

Over == {"closing", "finishing", "finished"}

PhasesAgree ==
    /\ main.phase \in {"starting", "session", "clientDone", "draining"} => ~Asked
    /\ main.phase \in {"relaying", "lateRelay", "stopping", "reaping", "drainStop",
                       "drainKill", "afterKill"} => Asked
    /\ server.told # {} => Asked
    /\ main.phase = "starting" =>
          ~main.clientFinished /\ \A d \in Directions : pump[d].state = "off"
    /\ \A d \in Directions : pump[d].state = "off" => main.phase \in {"starting", "exited"}
    /\ main.phase \in Joined \/ main.clientFinished => ~PumpRuns(C2S)
    /\ main.phase \in {"exited", "killed"} => ~PumpRuns(S2C)
    /\ main.clientClosed => pump[C2S].state = "done"

\* A pump that came to the end of its input has written all of it; one that
\* failed had nobody to write to; one is aborted on request.
PumpsAgree ==
    /\ \A d \in Directions :
          /\ pump[d].eof => WritersGone(d) /\ inp[d] = <<>> /\ pump[d].chunk = <<>>
          /\ pump[d].state = "done" => pump[d].eof
    /\ pump[S2C].state = "failed" => client.state = "gone"
    /\ pump[S2C].aborting => Asked /\ main.phase \in Over \union {"exited", "killed"}
    /\ pump[S2C].state = "aborted" => pump[S2C].aborting \/ Ended

GroupGone == server.alive \intersect setup.group \intersect setup.holds = {}

\* What the end of the drain says of the processes and the pumps.
DrainAgrees ==
    /\ main.phase = "afterKill" => GroupGone
    /\ main.phase \in Over \/ (main.phase = "exited" /\ rec.closed) =>
          /\ ~Asked => pump[S2C].state \in {"done", "failed"}
          /\ Asked /\ pump[S2C].state # "failed" => GroupGone

\* The last line closes the trace from the client's side; a line that does so has
\* the client's own close behind it.
ClosedLast(r) ==
    /\ Len(Tape(r)) > 0
    /\ Tape(r)[Len(Tape(r))].ev = StdioEvent(C2S, "transport-close")

IsClose(e) == e.body \in {"transport-close", "transport-abort"} /\ e.dir = C2S

CleanCloses(r, clean) == \A i \in 1 .. Len(Tape(r)) : IsClose(Tape(r)[i].ev) => clean

\* The trace is closed by a stop, or when the drain is over; the sink holds lines
\* only once one was dropped, and the run reports it.
Closing ==
    /\ rec.closed => Asked \/ main.phase \in {"finishing", "finished", "exited", "killed"}
    /\ Asked \/ main.phase \in {"finishing", "finished"} => rec.closed
    /\ rec.closed /\ ~Asked => \A d \in Directions : ~PumpRuns(d)
    /\ Held(rec)
    /\ rec.dropped # 0 => rec.failed \/ (rec.closed /\ summary.error)
    /\ main.phase \notin {"finished", "exited", "killed"} => ~summary.error
    /\ Finished => ~rec.failed
    /\ ~Asked => rec.afterClose = 0 /\ summary.afterClose = 0
    /\ Asked /\ rec.dropped = 0 => ClosedLast(rec)
    /\ ~Asked => CleanCloses(rec, main.clientClosed)

(***************************************************************************)
(* The pieces of a sequence of messages s, of which the first a are behind *)
(* them: rank[i] is how many of s are complete after piece i.              *)
(***************************************************************************)
Ranks(rank, pieces, s, a) ==
    /\ rank[0] = a /\ rank[Len(pieces)] = Len(s)
    /\ \A i \in 1 .. Len(pieces) :
          /\ rank[i] = rank[i - 1] + (IF pieces[i].last THEN 1 ELSE 0)
          /\ pieces[i].last => pieces[i].msg = s[rank[i]]

Flow(pieces, s, a) ==
    \E rank \in [0 .. Len(pieces) -> 0 .. Len(s)] : Ranks(rank, pieces, s, a)

Prefix(g, s) == Len(g) <= Len(s) /\ \A k \in 1 .. Len(g) : g[k] = s[k]

Intact(p) == p.state \in {"off", "running", "done"}

\* It may yet record something.
Live(p) == p.state \in {"off", "running"}

\* Nothing is lost, added or moved on the way, until a pump is stopped.
Flows ==
    /\ \A d \in Directions :
          /\ Prefix(given[d], sent[d])
          /\ Intact(pump[d]) => Flow(pump[d].chunk \o inp[d], sent[d], Len(given[d]))
    /\ Flow(outp[C2S], given[C2S], server.read)

\* What the two sides, c and s, have begun, and in which order.
Begun(c, s, m) ==
    /\ m[1] = "request"  => m[2] <= c.begun
    /\ m[1] = "response" => m[2] + Len(s.owes) <= s.read
    /\ m[1] = "note"     => s.noted

AllBegun(c, s, pieces) == \A i \in 1 .. Len(pieces) : Begun(c, s, pieces[i].msg)

TapeBegun(c, s, r) ==
    \A i \in 1 .. Len(Tape(r)) :
        Tape(r)[i].ev.msg # None => Begun(c, s, Tape(r)[i].ev.msg)

InTurn ==
    /\ \A k \in 1 .. Len(sent[C2S]) : sent[C2S][k] = <<"request", k>>
    /\ client.begun <= setup.requests
    /\ \/ client.rest = <<>> /\ client.begun = Len(sent[C2S])
       \/ /\ client.rest = <<[msg |-> <<"request", client.begun>>, last |-> TRUE]>>
          /\ client.begun = Len(sent[C2S]) + 1
    /\ Len(server.owes) <= server.read
    /\ \A i \in 1 .. Len(server.owes) :
          /\ server.owes[i][1] = "response"
          /\ server.owes[i][2] + Len(server.owes) = server.read + i

\* Nothing is on its way or on the tape before it was begun.
NothingEarly ==
    /\ \A d \in Directions :
          /\ AllBegun(client, server, inp[d])
          /\ AllBegun(client, server, pump[d].chunk)
          /\ AllBegun(client, server, pump[d].lines)
          /\ pump[d].part # None => Begun(client, server, pump[d].part)
    /\ AllBegun(client, server, client.rest) /\ AllBegun(client, server, server.rest)
    /\ TapeBegun(client, server, rec)

\* A message is on the tape, or cannot be, and the run will say so.
Settled(r, mn, d, m) == OnTape(r, d, m) \/ r.dropped # 0 \/ mn.stop # "none"

Pending(lines, m) == \E j \in 1 .. Len(lines) : lines[j].last /\ lines[j].msg = m

\* Nothing is handed on before it is recorded.
RecordFirst ==
    \A d \in Directions :
        /\ \A k \in 1 .. Len(given[d]) :
              given[d][k] \in Recordable => Settled(rec, main, d, given[d][k])
        /\ \A i \in 1 .. Len(pump[d].chunk) :
              pump[d].chunk[i].last /\ pump[d].chunk[i].msg \in Recordable =>
                  \/ Settled(rec, main, d, pump[d].chunk[i].msg)
                  \/ Pending(pump[d].lines, pump[d].chunk[i].msg)

Ordered ==
    \A pair \in before :
        /\ \E d \in Directions : \E k \in 1 .. Len(given[d]) : given[d][k] = pair[1]
        /\ \A i \in 1 .. Len(Tape(rec)) :
              Tape(rec)[i].ev.msg = pair[2] /\ pair[1] \in Recordable =>
                  \E j \in 1 .. i - 1 : Tape(rec)[j].ev.msg = pair[1]

PInv == /\ Typed /\ PhasesAgree /\ PumpsAgree /\ DrainAgrees /\ Closing
        /\ Flows /\ InTurn /\ NothingEarly /\ RecordFirst /\ Ordered

-----------------------------------------------------------------------------
(* What a step of a pump does to it. *)

LEMMA PumpFields ==
    ASSUME NEW p \in Pumps
    PROVE  /\ p.state \in PumpStates /\ p.chunk \in Seq(Piece) /\ p.lines \in Seq(Piece)
           /\ p.part \in Messages \union {None} /\ p.eof \in BOOLEAN /\ p.aborting \in BOOLEAN
           /\ p.oversized \in Nat
BY DEF Pumps

LEMMA PumpUpdates ==
    ASSUME NEW p \in Pumps
    PROVE  /\ \A c, l \in Seq(Piece), m \in Messages \union {None} :
                 [p EXCEPT !.chunk = c, !.lines = l, !.part = m] \in Pumps
           /\ [p EXCEPT !.eof = TRUE] \in Pumps
           /\ \A l \in Seq(Piece) : [p EXCEPT !.lines = l] \in Pumps
           /\ [p EXCEPT !.part = None] \in Pumps
           /\ \A n \in Nat : [p EXCEPT !.oversized = n] \in Pumps
           /\ \A c \in Seq(Piece) : [p EXCEPT !.chunk = c] \in Pumps
           /\ \A s \in PumpStates, c \in Seq(Piece) : [p EXCEPT !.state = s, !.chunk = c] \in Pumps
           /\ \A s \in PumpStates : [p EXCEPT !.state = s] \in Pumps
           /\ [p EXCEPT !.aborting = TRUE] \in Pumps
           /\ \A s \in PumpStates, c, l \in Seq(Piece) :
                 [p EXCEPT !.state = s, !.chunk = c, !.lines = l] \in Pumps
BY DEF Pumps

\* Pump d goes on as q, and the other as it was.
Becomes(d, q) ==
    /\ pump' \in [Directions -> Pumps] /\ pump'[d] = q /\ q \in Pumps
    /\ \A o \in Directions : o # d => pump'[o] = pump[o]

LEMMA PumpBecomes ==
    ASSUME pump \in [Directions -> Pumps], NEW d \in Directions, NEW q \in Pumps, SetPump(d, q)
    PROVE  Becomes(d, q)
BY DEF SetPump, Becomes

LEMMA TypedPump ==
    ASSUME Typed, NEW d \in Directions
    PROVE  /\ pump \in [Directions -> Pumps] /\ pump[d] \in Pumps
           /\ rec \in Trace /\ inp[d] \in Seq(Piece) /\ outp[d] \in Seq(Piece)
           /\ sent[d] \in Seq(Messages) /\ given[d] \in Seq(Messages)
           /\ Len(pump[d].lines) <= setup.room /\ Len(pump[d].chunk) <= setup.room
           /\ Len(inp[d]) <= setup.room /\ Len(outp[d]) <= setup.room
           /\ setup.room \in Nat /\ setup.requests \in 0 .. Requests /\ Requests \in Nat
<1>1. setup \in Setup
  BY StdioAssumption DEF Typed
<1>2. setup.room \in Nat /\ setup.requests \in 0 .. Requests
  BY <1>1 DEF Setup
<1> QED BY <1>2, StdioAssumption DEF Typed

\* An event of the recorder, or a message of a kind that is only counted.
Taken(d, m, b) ==
    \/ m[1] \in setup.oversized /\ rec' = rec
    \/ m[1] \notin setup.oversized /\ Recorded(rec, rec', MessageEvent(d, [msg |-> m, full |-> b]))

\* Either way it is on the file, or counted: by the recorder, or by the pump.
Noted(r, x, n, k, m) == (x = r /\ k = n + 1) \/ (k = n /\ Counts(r, x, m))

LEMMA TakesGives ==
    ASSUME pump \in [Directions -> Pumps], rec \in Trace, NEW d \in Directions,
           NEW m \in Messages, NEW b \in BOOLEAN,
           NEW p \in Pumps, Takes(d, [msg |-> m, full |-> b], p)
    PROVE  /\ Taken(d, m, b)
           /\ \E n \in Nat : /\ Becomes(d, [p EXCEPT !.oversized = n])
                            /\ Noted(rec, rec', p.oversized, n, m)
<1> DEFINE e == MessageEvent(d, [msg |-> m, full |-> b])
<1>1. CASE m[1] \in setup.oversized
  <2>1. SetPump(d, [p EXCEPT !.oversized = @ + 1]) /\ rec' = rec
    BY <1>1 DEF Takes
  <2>2. p.oversized + 1 \in Nat
    BY PumpFields
  <2>3. [p EXCEPT !.oversized = p.oversized + 1] \in Pumps
    BY <2>2, PumpUpdates
  <2>4. Becomes(d, [p EXCEPT !.oversized = p.oversized + 1])
    BY <2>1, <2>3, PumpBecomes
  <2>5. Noted(rec, rec', p.oversized, p.oversized + 1, m)
    BY <2>1 DEF Noted
  <2> QED BY <1>1, <2>1, <2>2, <2>4, <2>5 DEF Taken
<1>2. CASE m[1] \notin setup.oversized
  <2>1. SetPump(d, p) /\ rec' \in After(Record(rec, e))
    BY <1>2 DEF Takes
  <2>2. PICK w \in Record(rec, e) : rec' = w.rec
    BY <2>1 DEF After
  <2>3. e \in Events /\ e.msg = m
    BY EventTypes
  <2>4. Recorded(rec, rec', e) /\ Counts(rec, rec', m)
    BY <2>2, <2>3, RecordWrites, RecordCounts
  <2>5. p = [p EXCEPT !.oversized = p.oversized] /\ p.oversized \in Nat
    BY DEF Pumps
  <2>6. Becomes(d, p)
    BY <2>1, PumpBecomes
  <2>7. Noted(rec, rec', p.oversized, p.oversized, m)
    BY <2>4 DEF Noted
  <2> QED BY <1>2, <2>4, <2>5, <2>6, <2>7 DEF Taken
<1> QED BY <1>1, <1>2

-----------------------------------------------------------------------------
(* The steps of pump d, by the fields of what each leaves of it.               *)

SameControl(q, p) == q.state = p.state /\ q.eof = p.eof /\ q.aborting = p.aborting

ReadsAs(d, q, n) ==
    /\ n \in 1 .. Len(inp[d])
    /\ q.chunk = SubSeq(inp[d], 1, n) /\ q.lines = q.chunk
    /\ q.part # None => inp[d][n] = [msg |-> q.part, last |-> FALSE]
    /\ SameControl(q, pump[d])
    /\ pump[d].chunk = <<>> /\ ~pump[d].eof
    /\ ~\E i \in 1 .. Len(pump[d].lines) : pump[d].lines[i].last
    /\ inp' = [inp EXCEPT ![d] = SubSeq(inp[d], n + 1, Len(inp[d]))]
    /\ UNCHANGED <<rec, outp, given>>

LEMMA PumpReadsAs ==
    ASSUME Typed, NEW d \in Directions, PumpReads(d)
    PROVE  \E q, n : Becomes(d, q) /\ ReadsAs(d, q, n)
<1>1. PICK n \in 1 .. Len(inp[d]) :
         LET chunk == SubSeq(inp[d], 1, n)
         IN  /\ inp' = [inp EXCEPT ![d] = SubSeq(@, n + 1, Len(@))]
             /\ SetPump(d, [pump[d] EXCEPT !.chunk = chunk, !.lines = LinesOf(chunk),
                                           !.part = RemainderOf(chunk)])
  BY DEF PumpReads
<1> DEFINE c == SubSeq(inp[d], 1, n)
           q == [pump[d] EXCEPT !.chunk = c, !.lines = c, !.part = RemainderOf(c)]
<1>2. inp[d] \in Seq(Piece) /\ pump[d] \in Pumps /\ pump \in [Directions -> Pumps]
  BY TypedPump
<1>3. c \in Seq(Piece) /\ Len(c) = n /\ n \in Nat /\ n >= 1 /\ c[n] = inp[d][n]
  BY <1>1, <1>2, SubSeqProperties
<1>4. SetPump(d, q)
  BY <1>1 DEF LinesOf
<1> HIDE DEF c
<1>5. RemainderOf(c) \in Messages \union {None}
      /\ (RemainderOf(c) # None => inp[d][n] = [msg |-> RemainderOf(c), last |-> FALSE])
  <2>1. c[Len(c)] \in Piece
    BY <1>3
  <2> QED BY <1>3, <2>1 DEF RemainderOf, Last, Piece
<1>6. q \in Pumps
  BY <1>2, <1>3, <1>5, PumpUpdates
<1>7. q.chunk = c /\ q.lines = c /\ q.part = RemainderOf(c) /\ SameControl(q, pump[d])
  BY <1>2 DEF Pumps, SameControl
<1> HIDE DEF q
<1>8. Becomes(d, q)
  BY <1>2, <1>4, <1>6, PumpBecomes
<1>9. /\ inp' = [inp EXCEPT ![d] = SubSeq(inp[d], n + 1, Len(inp[d]))]
      /\ UNCHANGED <<rec, outp, given>> /\ pump[d].chunk = <<>> /\ ~pump[d].eof
      /\ ~\E i \in 1 .. Len(pump[d].lines) : pump[d].lines[i].last
  BY <1>1 DEF PumpReads, PumpIdle, Unrecorded
<1>10. ReadsAs(d, q, n)
  BY <1>1, <1>3, <1>5, <1>7, <1>9 DEF ReadsAs, c
<1> QED BY <1>8, <1>10

ReadsEndAs(d, q) ==
    /\ inp[d] = <<>> /\ WritersGone(d) /\ pump[d].chunk = <<>>
    /\ ~\E i \in 1 .. Len(pump[d].lines) : pump[d].lines[i].last
    /\ q.state = pump[d].state /\ q.eof /\ q.aborting = pump[d].aborting
    /\ q.chunk = pump[d].chunk /\ q.lines = pump[d].lines /\ q.part = pump[d].part
    /\ UNCHANGED <<rec, inp, outp, given>>

LEMMA PumpReadsEndAs ==
    ASSUME Typed, NEW d \in Directions, PumpReadsEnd(d)
    PROVE  \E q : Becomes(d, q) /\ ReadsEndAs(d, q)
<1> DEFINE q == [pump[d] EXCEPT !.eof = TRUE]
<1>1. pump[d] \in Pumps /\ pump \in [Directions -> Pumps]
  BY TypedPump
<1>2. q \in Pumps /\ SetPump(d, q)
  BY <1>1, PumpUpdates DEF PumpReadsEnd
<1>3. ReadsEndAs(d, q)
  BY <1>1 DEF PumpReadsEnd, PumpIdle, Unrecorded, ReadsEndAs, Pumps, env
<1> QED BY <1>1, <1>2, <1>3, PumpBecomes

RecordsAs(d, q, m, b) ==
    /\ m \in Messages /\ b \in BOOLEAN /\ Taken(d, m, b)
    /\ Noted(rec, rec', pump[d].oversized, q.oversized, m)
    /\ SameControl(q, pump[d]) /\ q.chunk = pump[d].chunk
    /\ \/ \E i \in 1 .. Len(pump[d].lines) :
            /\ Completes(pump[d].lines, i) /\ m = pump[d].lines[i].msg /\ b
            /\ q.lines = SubSeq(pump[d].lines, i + 1, Len(pump[d].lines))
            /\ q.part = pump[d].part
       \/ /\ pump[d].eof /\ m = pump[d].part /\ ~b
          /\ q.lines = pump[d].lines /\ q.part = None
    /\ UNCHANGED <<inp, outp, given>>

LEMMA PumpRecordsAs ==
    ASSUME Typed, NEW d \in Directions, PumpRecords(d)
    PROVE  \E q, m, b : Becomes(d, q) /\ RecordsAs(d, q, m, b)
<1>1. pump[d] \in Pumps /\ pump \in [Directions -> Pumps] /\ rec \in Trace
  BY TypedPump
<1>2. UNCHANGED <<inp, outp, given>>
  BY DEF PumpRecords, env
<1>3. ASSUME NEW i \in 1 .. Len(pump[d].lines), Completes(pump[d].lines, i),
             Takes(d, [msg |-> pump[d].lines[i].msg, full |-> TRUE],
                   [pump[d] EXCEPT !.lines = SubSeq(@, i + 1, Len(@))])
      PROVE  \E q, m, b : Becomes(d, q) /\ RecordsAs(d, q, m, b)
  <2> DEFINE l == pump[d].lines
             t == SubSeq(l, i + 1, Len(l))
             p == [pump[d] EXCEPT !.lines = t]
             m == l[i].msg
  <2>1. l \in Seq(Piece)
    BY <1>1, PumpFields
  <2>2. t \in Seq(Piece) /\ m \in Messages
    <3> HIDE DEF l
    <3>1. l[i] \in Piece /\ Len(l) \in Nat /\ i \in Nat
      BY <1>3, <2>1 DEF l
    <3>2. SubSeq(l, i + 1, Len(l)) \in Seq(Piece)
      <4>1. i + 1 \in 1 .. Len(l) + 1
        BY <1>3, <3>1 DEF l
      <4> QED BY <2>1, <3>1, <4>1, SubSeqProperties
    <3> QED BY <3>1, <3>2 DEF Piece
  <2>3. p \in Pumps
    BY <1>1, <2>2, PumpUpdates
  <2>4. Takes(d, [msg |-> m, full |-> TRUE], p)
    BY <1>3
  <2>5. /\ Taken(d, m, TRUE)
        /\ \E n \in Nat : /\ Becomes(d, [p EXCEPT !.oversized = n])
                         /\ Noted(rec, rec', p.oversized, n, m)
    BY <1>1, <2>2, <2>3, <2>4, TakesGives
  <2>6. PICK n \in Nat : /\ Becomes(d, [p EXCEPT !.oversized = n])
                         /\ Noted(rec, rec', p.oversized, n, m)
    BY <2>5
  <2> DEFINE q == [p EXCEPT !.oversized = n]
  <2>9. q.oversized = n /\ p.oversized = pump[d].oversized
    BY <1>1 DEF Pumps
  <2>7. q.lines = t /\ q.part = pump[d].part /\ q.chunk = pump[d].chunk /\ SameControl(q, pump[d])
    BY <1>1 DEF Pumps, SameControl
  <2> HIDE DEF q
  <2>8. RecordsAs(d, q, m, TRUE)
    BY <1>2, <1>3, <2>2, <2>5, <2>6, <2>7, <2>9 DEF RecordsAs
  <2> QED BY <2>6, <2>8 DEF q
<1>4. ASSUME pump[d].eof, pump[d].part # None,
             Takes(d, [msg |-> pump[d].part, full |-> FALSE], [pump[d] EXCEPT !.part = None])
      PROVE  \E q, m, b : Becomes(d, q) /\ RecordsAs(d, q, m, b)
  <2> DEFINE p == [pump[d] EXCEPT !.part = None]
             m == pump[d].part
  <2>1. m \in Messages /\ p \in Pumps
    BY <1>1, <1>4, PumpFields, PumpUpdates
  <2>2. /\ Taken(d, m, FALSE)
        /\ \E n \in Nat : /\ Becomes(d, [p EXCEPT !.oversized = n])
                         /\ Noted(rec, rec', p.oversized, n, m)
    BY <1>1, <1>4, <2>1, TakesGives
  <2>3. PICK n \in Nat : /\ Becomes(d, [p EXCEPT !.oversized = n])
                         /\ Noted(rec, rec', p.oversized, n, m)
    BY <2>2
  <2> DEFINE q == [p EXCEPT !.oversized = n]
  <2>6. q.oversized = n /\ p.oversized = pump[d].oversized
    BY <1>1 DEF Pumps
  <2>4. /\ q.lines = pump[d].lines /\ q.part = None
        /\ q.chunk = pump[d].chunk /\ SameControl(q, pump[d])
    BY <1>1 DEF Pumps, SameControl
  <2> HIDE DEF q
  <2>5. RecordsAs(d, q, m, FALSE)
    BY <1>2, <1>4, <2>1, <2>2, <2>3, <2>4, <2>6 DEF RecordsAs
  <2> QED BY <2>3, <2>5 DEF q
<1> QED BY <1>3, <1>4 DEF PumpRecords

WritesAs(d, q) ==
    /\ pump[d].chunk # <<>> /\ q.chunk = Tail(pump[d].chunk)
    /\ ~\E i \in 1 .. Len(pump[d].lines) : pump[d].lines[i].last
    /\ SameControl(q, pump[d]) /\ q.lines = pump[d].lines /\ q.part = pump[d].part
    /\ Len(outp[d]) < setup.room
    /\ outp' = [outp EXCEPT ![d] = Append(@, Head(pump[d].chunk))]
    /\ given' = [given EXCEPT ![d] = IF Head(pump[d].chunk).last
                                     THEN Append(@, Head(pump[d].chunk).msg) ELSE @]
    /\ UNCHANGED <<rec, inp>>

LEMMA PumpWritesAs ==
    ASSUME Typed, NEW d \in Directions, PumpWrites(d)
    PROVE  \E q : Becomes(d, q) /\ WritesAs(d, q)
<1> DEFINE c == Tail(pump[d].chunk)
           q == [pump[d] EXCEPT !.chunk = c]
<1>1. pump[d] \in Pumps /\ pump \in [Directions -> Pumps] /\ pump[d].chunk # <<>>
  BY TypedPump DEF PumpWrites
<1>2. c \in Seq(Piece)
  BY <1>1, PumpFields, HeadTailProperties
<1>3. SetPump(d, q)
  BY DEF PumpWrites, WritesPiece
<1> HIDE DEF c
<1>4. q \in Pumps
  BY <1>1, <1>2, PumpUpdates
<1>5. q.chunk = c /\ SameControl(q, pump[d]) /\ q.lines = pump[d].lines /\ q.part = pump[d].part
  BY <1>1 DEF Pumps, SameControl
<1> HIDE DEF q
<1>6. WritesAs(d, q)
  BY <1>5 DEF PumpWrites, WritesPiece, WritesAs, Unrecorded, c
<1> QED BY <1>1, <1>3, <1>4, <1>6, PumpBecomes

\* It fails, ends or is aborted.
StopsAs(d, q) ==
    /\ q.eof = pump[d].eof /\ q.aborting = pump[d].aborting
    /\ q.lines = pump[d].lines /\ q.part = pump[d].part
    /\ ~Unrecorded(pump[d])
    /\ \/ pump[d].chunk # <<>> /\ ReadersGone(d) /\ q.state = "failed" /\ q.chunk = <<>>
       \/ pump[d].eof /\ q.state = "done" /\ q.chunk = pump[d].chunk
       \/ pump[d].aborting /\ q.state = "aborted" /\ q.chunk = <<>>
    /\ UNCHANGED <<rec, inp, outp, given>>

LEMMA PumpStopsAs ==
    ASSUME Typed, NEW d \in Directions, PumpFails(d) \/ PumpEnds(d) \/ PumpAborts(d)
    PROVE  \E q : Becomes(d, q) /\ StopsAs(d, q)
<1>1. pump[d] \in Pumps /\ pump \in [Directions -> Pumps]
  BY TypedPump
<1>2. <<>> \in Seq(Piece) /\ {"failed", "done", "aborted"} \subseteq PumpStates
  BY DEF PumpStates
<1>3. \A s \in PumpStates :
         LET q == [pump[d] EXCEPT !.state = s, !.chunk = <<>>]
         IN  /\ q \in Pumps /\ q.state = s /\ q.chunk = <<>> /\ q.eof = pump[d].eof
             /\ q.aborting = pump[d].aborting /\ q.lines = pump[d].lines /\ q.part = pump[d].part
  BY <1>1, <1>2 DEF Pumps
<1>4. LET q == [pump[d] EXCEPT !.state = "done"]
      IN  /\ q \in Pumps /\ q.state = "done" /\ q.chunk = pump[d].chunk /\ q.eof = pump[d].eof
          /\ q.aborting = pump[d].aborting /\ q.lines = pump[d].lines /\ q.part = pump[d].part
  BY <1>1, <1>2 DEF Pumps
<1>5. CASE PumpFails(d)
  <2> DEFINE q == [pump[d] EXCEPT !.state = "failed", !.chunk = <<>>]
  <2>1. SetPump(d, q) /\ q \in Pumps
    BY <1>2, <1>3, <1>5 DEF PumpFails
  <2>2. StopsAs(d, q)
    BY <1>2, <1>3, <1>5 DEF PumpFails, StopsAs, env
  <2> QED BY <1>1, <2>1, <2>2, PumpBecomes
<1>6. CASE PumpEnds(d)
  <2> DEFINE q == [pump[d] EXCEPT !.state = "done"]
  <2>1. SetPump(d, q) /\ q \in Pumps
    BY <1>4, <1>6 DEF PumpEnds
  <2>2. StopsAs(d, q)
    BY <1>4, <1>6 DEF PumpEnds, StopsAs, env
  <2> QED BY <1>1, <2>1, <2>2, PumpBecomes
<1>7. CASE PumpAborts(d)
  <2> DEFINE q == [pump[d] EXCEPT !.state = "aborted", !.chunk = <<>>]
  <2>1. SetPump(d, q) /\ q \in Pumps
    BY <1>2, <1>3, <1>7 DEF PumpAborts
  <2>2. StopsAs(d, q)
    BY <1>2, <1>3, <1>7 DEF PumpAborts, StopsAs, env
  <2> QED BY <1>1, <2>1, <2>2, PumpBecomes
<1> QED BY <1>5, <1>6, <1>7

\* Any step of pump d: what it leaves to the rest of the wrapper, and how.
PumpGoes(d, q) ==
    /\ Becomes(d, q) /\ PumpRuns(d)
    /\ UNCHANGED <<main, summary, client, server, setup, signals, sent, before>>
    /\ \/ \E n : ReadsAs(d, q, n)
       \/ ReadsEndAs(d, q)
       \/ \E m, b : RecordsAs(d, q, m, b)
       \/ WritesAs(d, q)
       \/ StopsAs(d, q)

LEMMA PumpStepGoes ==
    ASSUME Typed, NEW d \in Directions, PumpStep(d)
    PROVE  \E q : PumpGoes(d, q)
<1>1. PumpRuns(d) /\ UNCHANGED <<main, summary, client, server, setup, signals, sent, before>>
  BY DEF PumpStep, PumpReads, PumpReadsEnd, PumpRecords, PumpWrites, PumpFails, PumpEnds,
         PumpAborts, PumpIdle, WritesPiece, env
<1>2. CASE PumpReads(d)
  BY <1>1, <1>2, PumpReadsAs DEF PumpGoes
<1>3. CASE PumpReadsEnd(d)
  BY <1>1, <1>3, PumpReadsEndAs DEF PumpGoes
<1>4. CASE PumpRecords(d)
  BY <1>1, <1>4, PumpRecordsAs DEF PumpGoes
<1>5. CASE PumpWrites(d)
  BY <1>1, <1>5, PumpWritesAs DEF PumpGoes
<1>6. CASE PumpFails(d) \/ PumpEnds(d) \/ PumpAborts(d)
  BY <1>1, <1>6, PumpStopsAs DEF PumpGoes
<1> QED BY <1>2, <1>3, <1>4, <1>5, <1>6 DEF PumpStep

-----------------------------------------------------------------------------
(* What a step of the main task, or the end of the wrapper, does to the rest.  *)

\* The tape is as it was, or has a line for m more.
Adds(r, x, m) ==
    /\ x \in Trace
    /\ r.dropped # 0 => x.dropped # 0
    /\ \/ Tape(x) = Tape(r)
       \/ ~Stuck(r) /\ \E line \in Lines : line.ev.msg = m /\ Tape(x) = Append(Tape(r), line)

\* The tasks go on, or are gone.
Leaves(q, p) ==
    /\ q \in Pumps /\ q.part = p.part /\ q.eof = p.eof
    /\ \/ /\ q.chunk = p.chunk /\ q.lines = p.lines
          /\ (Intact(q) => Intact(p)) /\ (Live(q) => Live(p))
       \/ /\ q.chunk = <<>> /\ q.lines = <<>>
          /\ (Intact(q) => p.state = "done") /\ ~Live(q)

SameRest(q, p) ==
    /\ q.reads = p.reads /\ q.owes = p.owes /\ q.rest = p.rest
    /\ q.noted = p.noted /\ q.read = p.read

MainGoes ==
    /\ UNCHANGED <<inp, outp, client, setup, sent, given, before>>
    /\ server' \in Servers /\ SameRest(server', server)
    /\ server'.alive \subseteq server.alive /\ server'.told \subseteq setup.group
    /\ main' \in Mains /\ (main.stop # "none" => main'.stop # "none")
    /\ signals'.pending \subseteq Stops
    /\ pump' \in [Directions -> Pumps] /\ \A d \in Directions : Leaves(pump'[d], pump[d])
    /\ Adds(rec, rec', None)

LEMMA AddsNothing == ASSUME NEW r \in Trace PROVE \A m : Adds(r, r, m)
BY DEF Adds

LEMMA RecordedAdds ==
    ASSUME NEW r, NEW x, NEW e, Recorded(r, x, e) PROVE Adds(r, x, e.msg)
BY DEF Recorded, Wrote, Adds

LEMMA ClosedAdds ==
    ASSUME NEW r \in Trace, NEW x, NEW e, Closed(r, x, e) PROVE Adds(r, x, e.msg)
BY DEF Closed, Wrote, Adds

LEMMA RestedAdds ==
    ASSUME NEW r, NEW x, Rested(r, x) PROVE \A m : Adds(r, x, m)
BY DEF Rested, Adds

LEMMA PumpLeaves ==
    ASSUME NEW p \in Pumps, p.state = "done" => p.chunk = <<>>
    PROVE  /\ Leaves(p, p)
           /\ Leaves([p EXCEPT !.aborting = TRUE], p)
           /\ p.state = "off" => Leaves([p EXCEPT !.state = "running"], p)
           /\ Leaves([p EXCEPT !.state = IF @ \in {"off", "running"} THEN "aborted" ELSE @,
                               !.chunk = <<>>, !.lines = <<>>], p)
<1>1. <<>> \in Seq(Piece)
  OBVIOUS
<1> QED BY <1>1 DEF Leaves, Pumps, PumpStates, Intact, Live

\* What the main task writes to the trace.
OpenTraceRecords == Recorded(rec, rec', StdioEvent(C2S, "transport-open"))
BeginStopCloses  == Closed(rec, rec', StdioEvent(C2S, "transport-close"))
CloseSessionCloses ==
    \E e \in Events : /\ Closed(rec, rec', e) /\ e = ClosingEvent /\ e.msg = None
                      /\ e.dir = C2S => main.clientClosed

LEMMA MainRecords ==
    ASSUME Typed
    PROVE  /\ OpenTrace => OpenTraceRecords
           /\ BeginStop => BeginStopCloses
           /\ CloseSession => CloseSessionCloses
<1>1. rec \in Trace /\ C2S \in Directions /\ S2C \in Directions /\ C2S # S2C
  BY DEF Typed, Directions, C2S, S2C
<1>2. {"transport-open", "transport-close", "transport-abort"} \subseteq Bodies
  BY DEF Bodies
<1>3. ASSUME OpenTrace PROVE OpenTraceRecords
  <2> DEFINE e == StdioEvent(C2S, "transport-open")
  <2>1. e \in Events
    BY <1>1, <1>2, EventTypes
  <2>2. rec' \in After(Record(rec, e))
    BY <1>3 DEF OpenTrace
  <2>3. PICK w \in Record(rec, e) : rec' = w.rec
    BY <2>2 DEF After
  <2> QED BY <1>1, <2>1, <2>3, RecordWrites DEF OpenTraceRecords
<1>4. ASSUME BeginStop PROVE BeginStopCloses
  <2> DEFINE e == StdioEvent(C2S, "transport-close")
  <2>1. e \in Events
    BY <1>1, <1>2, EventTypes
  <2>2. rec' \in After(Close(rec, e))
    BY <1>4 DEF BeginStop, ClosedFirst
  <2>3. PICK w \in Close(rec, e) : rec' = w.rec
    BY <2>2 DEF After
  <2> QED BY <1>1, <2>1, <2>3, CloseWrites DEF BeginStopCloses
<1>5. ASSUME CloseSession PROVE CloseSessionCloses
  <2> DEFINE d == IF main.clientClosed THEN C2S ELSE S2C
             b == IF server.clean THEN "transport-close" ELSE "transport-abort"
             e == StdioEvent(d, b)
  <2>1. d \in Directions /\ b \in Bodies /\ (d = C2S => main.clientClosed)
    BY <1>1, <1>2 DEF Typed, Mains, Servers
  <2>2. e = ClosingEvent
    BY DEF ClosingEvent
  <2> HIDE DEF d, b
  <2>3. e \in Events /\ e.msg = None /\ e.dir = d
    BY <2>1, EventTypes
  <2> HIDE DEF e
  <2>4. rec' \in After(Close(rec, e))
    BY <1>5, <2>2 DEF CloseSession
  <2>5. PICK w \in Close(rec, e) : rec' = w.rec
    BY <2>4 DEF After
  <2>6. Closed(rec, rec', e)
    BY <1>1, <2>3, <2>5, CloseWrites
  <2> QED BY <2>1, <2>2, <2>3, <2>6 DEF CloseSessionCloses
<1> QED BY <1>3, <1>4, <1>5

LEMMA EndRests ==
    ASSUME Typed, FinishSession \/ Exit \/ Kill
    PROVE  /\ Rested(rec, rec')
           /\ FinishSession => /\ ~rec'.failed
                               /\ rec.failed => /\ summary'.error
                                                /\ rec'.lines = rec.lines /\ rec'.held = rec.held
                               /\ summary'.afterClose = rec.afterClose
           /\ Exit \/ Kill => rec'.failed = rec.failed
           /\ Kill => rec'.lines = rec.lines /\ rec'.held = rec.held
<1>1. rec \in Trace
  BY DEF Typed
<1>2. CASE FinishSession
  <2>1. PICK f \in Finish(rec) : rec' = f.rec /\ summary' = f.summary
    BY <1>2 DEF FinishSession
  <2>2. /\ Rested(rec, rec') /\ ~rec'.failed /\ (rec.failed => summary'.error)
        /\ rec.failed => rec'.lines = rec.lines /\ rec'.held = rec.held
        /\ summary'.afterClose = rec.afterClose
    BY <1>1, <2>1, FinishRests
  <2>3. ~Exit /\ ~Kill
    <3>1. main.phase = "finishing" /\ main'.phase = "finished"
      BY <1>2 DEF FinishSession, SetMain, Typed, Mains
    <3>2. Kill => main'.phase = "killed"
      BY DEF Kill, SetMain, Typed, Mains
    <3> QED BY <3>1, <3>2 DEF Exit
  <2> QED BY <2>2, <2>3
<1>3. CASE Exit
  <2>1. Rested(rec, rec') /\ rec'.failed = rec.failed
    BY <1>1, <1>3, DropRests DEF Exit
  <2>2. ~FinishSession
    BY <1>3 DEF Exit, FinishSession
  <2>3. ~Kill
    <3>1. main'.phase = "exited"
      BY <1>3 DEF Exit, SetMain, Typed, Mains
    <3>2. Kill => main'.phase = "killed"
      BY DEF Kill, SetMain, Typed, Mains
    <3> QED BY <3>1, <3>2
  <2> QED BY <2>1, <2>2, <2>3
<1>4. CASE Kill
  <2>1. rec' = rec \/ rec' = [rec EXCEPT !.torn = TRUE]
    BY <1>4 DEF Kill
  <2>2. [rec EXCEPT !.torn = TRUE] \in Trace
    BY <1>1 DEF Trace, RecordersOver
  <2>3. /\ Rested(rec, rec') /\ rec'.failed = rec.failed
        /\ rec'.lines = rec.lines /\ rec'.held = rec.held
    BY <1>1, <2>1, <2>2 DEF Rested, Tape, Held, Trace, RecordersOver
  <2>4. ~FinishSession
    <3>1. main'.phase = "killed"
      BY <1>4 DEF Kill, SetMain, Typed, Mains
    <3>2. FinishSession => main'.phase = "finished"
      BY DEF FinishSession, SetMain, Typed, Mains
    <3> QED BY <3>1, <3>2
  <2> QED BY <2>3, <2>4
<1> QED BY <1>2, <1>3, <1>4

\* The processes that are left after a kill.
LEMMA KillLeaves ==
    ASSUME Typed
    PROVE  /\ AfterKill \in Servers /\ SameRest(AfterKill, server)
           /\ AfterKill.alive = server.alive \ (setup.group \union {"leader"})
           /\ AfterKill.told = server.told
BY DEF AfterKill, Typed, Servers, SameRest

\* Where the main task goes.
LEMMA MainTypes ==
    ASSUME Typed, MainStep \/ Kill
    PROVE  main' \in Mains /\ (main.stop # "none" => main'.stop # "none")
<1>1. main \in Mains /\ "none" \notin Stops /\ signals.pending \subseteq Stops
  BY StdioAssumption DEF Typed
<1>2. /\ \A ph \in MainPhases :
            /\ [main EXCEPT !.phase = ph] \in Mains
            /\ [main EXCEPT !.phase = ph].stop = main.stop
            /\ \A b, c \in BOOLEAN :
                 LET m == [main EXCEPT !.phase = ph, !.clientFinished = b, !.clientClosed = c]
                 IN  m \in Mains /\ m.stop = main.stop
            /\ \A s \in Stops :
                 LET m == [main EXCEPT !.stop = s, !.phase = ph]
                 IN  m \in Mains /\ m.stop = s
            /\ \A b \in BOOLEAN :
                 LET m == [main EXCEPT !.phase = ph, !.hurried = b]
                 IN  m \in Mains /\ m.stop = main.stop
  BY <1>1 DEF Mains
<1>3. DrainPhase(main) \in MainPhases /\ DrainPhase(main) \in {"draining", "drainKill", "drainStop"}
  BY DEF DrainPhase, MainPhases
<1>4. {"session", "exited", "clientDone", "joining", "lateRelay", "relaying", "stopping",
       "drainStop", "reaping", "closing", "afterKill", "finishing", "finished", "killed"}
        \subseteq MainPhases
  BY DEF MainPhases
<1>5. CASE BeginStop
  <2>1. PICK s \in signals.pending :
           main' = [main EXCEPT !.stop = s,
                       !.phase = IF @ = "draining" THEN "lateRelay" ELSE "relaying"]
    BY <1>5 DEF BeginStop, SetMain
  <2> DEFINE ph == IF main.phase = "draining" THEN "lateRelay" ELSE "relaying"
  <2>2. ph \in MainPhases /\ main' = [main EXCEPT !.stop = s, !.phase = ph]
    BY <1>4, <2>1
  <2> HIDE DEF ph
  <2> QED BY <1>1, <1>2, <2>2
<1>6. CASE ClientRelayEnds
  <2>1. main' = [main EXCEPT !.phase = "clientDone", !.clientFinished = TRUE,
                            !.clientClosed = ClosedByClient]
    BY <1>6 DEF ClientRelayEnds, SetMain
  <2>2. ClosedByClient \in BOOLEAN
    BY DEF ClosedByClient
  <2> QED BY <1>2, <1>4, <2>1, <2>2
<1>7. CASE StopKills
  <2>1. PICK b \in BOOLEAN : main' = [main EXCEPT !.phase = "reaping", !.hurried = b]
    BY <1>7 DEF StopKills, SetMain
  <2> QED BY <1>2, <1>4, <2>1
<1>8. CASE ~BeginStop /\ ~ClientRelayEnds /\ ~StopKills
  <2>1. \E ph \in MainPhases : main' = [main EXCEPT !.phase = ph]
    <3>1. CASE ServerExitSeen \/ ClientJoined
      BY <1>3, <1>4, <3>1 DEF ServerExitSeen, ClientJoined, ThenJoin, SetMain
    <3>2. CASE RelayStop
      <4>1. main' = [main EXCEPT !.phase = IF main.phase = "relaying" THEN "stopping"
                                                                     ELSE "drainStop"]
        BY <3>2 DEF RelayStop, SetMain
      <4> QED BY <1>4, <4>1
    <3>3. CASE OpenTrace \/ OpenFails \/ RelayEnds \/ DrainKills \/ AbandonRelay
      BY <1>4, <3>3 DEF OpenTrace, OpenFails, RelayEnds, DrainKills, AbandonRelay, SetMain
    <3>4. CASE CloseSession \/ FinishSession \/ Exit \/ Kill
      BY <1>4, <3>4 DEF CloseSession, FinishSession, Exit, Kill, SetMain
    <3> QED BY <1>8, <3>1, <3>2, <3>3, <3>4 DEF MainStep
  <2> QED BY <1>2, <2>1
<1> QED BY <1>5, <1>6, <1>7, <1>8

LEMMA ServerAfter ==
    ASSUME Typed, MainStep \/ Kill
    PROVE  /\ server' \in Servers /\ SameRest(server', server)
           /\ server'.alive \subseteq server.alive /\ server'.told \subseteq setup.group
<1>1. server \in Servers /\ server.told \subseteq setup.group
  BY DEF Typed
<1>2. server' \in {server, AfterKill} \/ RelayStop
  BY DEF MainStep, Kill, OpenTrace, OpenFails, ClientRelayEnds, ServerExitSeen, ClientJoined,
         BeginStop, StopKills, RelayEnds, DrainKills, DrainVictims, AbandonRelay,
         CloseSession, FinishSession, Exit, env
<1>3. CASE RelayStop
  <2>1. server' = [server EXCEPT !.told = server.told \union (server.alive \intersect setup.group)]
    BY <1>3 DEF RelayStop
  <2> QED BY <1>1, <2>1 DEF Servers, SameRest
<1>4. CASE server' = server
  BY <1>1, <1>4 DEF SameRest
<1>5. CASE server' = AfterKill
  BY <1>1, <1>5, KillLeaves
<1> QED BY <1>2, <1>3, <1>4, <1>5

LEMMA PumpsAfter ==
    ASSUME Typed, PhasesAgree, PumpsAgree, MainStep \/ Kill
    PROVE  pump' \in [Directions -> Pumps] /\ \A d \in Directions : Leaves(pump'[d], pump[d])
<1>1. pump \in [Directions -> Pumps]
  BY DEF Typed
<1>2. ASSUME NEW d \in Directions
      PROVE  pump[d] \in Pumps /\ (pump[d].state = "done" => pump[d].chunk = <<>>)
  BY <1>1 DEF PumpsAgree
<1>3. CASE OpenTrace
  <2>1. pump' = [d \in Directions |-> [pump[d] EXCEPT !.state = "running"]]
        /\ \A d \in Directions : pump[d].state = "off"
    BY <1>3 DEF OpenTrace, PhasesAgree
  <2>2. \A d \in Directions : Leaves([pump[d] EXCEPT !.state = "running"], pump[d])
    BY <1>2, <2>1, PumpLeaves
  <2> QED BY <2>1, <2>2 DEF Leaves
<1>4. CASE Exit \/ Kill
  <2>1. pump' = [d \in Directions |-> TasksGone(d)]
    BY <1>4 DEF Exit, Kill
  <2>2. \A d \in Directions : Leaves(TasksGone(d), pump[d])
    BY <1>2, PumpLeaves DEF TasksGone
  <2> QED BY <2>1, <2>2 DEF Leaves
<1>5. CASE ServerExitSeen \/ AbandonRelay
  <2>1. \/ pump' = pump
        \/ \E o \in Directions : pump' = [pump EXCEPT ![o] = [pump[o] EXCEPT !.aborting = TRUE]]
    BY <1>5 DEF ServerExitSeen, AbandonRelay, Abort, Directions, C2S, S2C
  <2>2. \A d \in Directions : /\ Leaves(pump[d], pump[d])
                              /\ Leaves([pump[d] EXCEPT !.aborting = TRUE], pump[d])
    BY <1>2, PumpLeaves
  <2>3. \A d \in Directions : [pump[d] EXCEPT !.aborting = TRUE] \in Pumps
    BY <2>2 DEF Leaves
  <2> QED BY <1>1, <2>1, <2>2, <2>3
<1>6. CASE UNCHANGED pump
  BY <1>1, <1>2, <1>6, PumpLeaves
<1> QED BY <1>3, <1>4, <1>5, <1>6
        DEF MainStep, OpenFails, ClientRelayEnds, ClientJoined, BeginStop, RelayStop, StopKills,
            RelayEnds, DrainKills, CloseSession, FinishSession, env

LEMMA MainStepGoes ==
    ASSUME Typed, PhasesAgree, PumpsAgree, MainStep \/ Kill
    PROVE  MainGoes
<1>1. UNCHANGED <<inp, outp, client, setup, sent, given, before>>
  BY DEF MainStep, Kill, OpenTrace, OpenFails, ClientRelayEnds, ServerExitSeen, ClientJoined,
         BeginStop, RelayStop, StopKills, RelayEnds, DrainKills, AbandonRelay,
         CloseSession, FinishSession, Exit, env
<1>2. signals'.pending \subseteq Stops
  <2>1. signals.pending \subseteq Stops
    BY DEF Typed
  <2>2. UNCHANGED signals \/ \E s \in signals.pending : Receive(s)
    BY DEF MainStep, Kill, OpenTrace, OpenFails, ClientRelayEnds, ServerExitSeen, ClientJoined,
           BeginStop, RelayStop, StopKills, RelayEnds, DrainKills, DrainEnds, DeadlineOrAgain,
           AbandonRelay, CloseSession, FinishSession, Exit, env
  <2>3. ASSUME NEW s \in signals.pending, Receive(s)
        PROVE  signals'.pending \subseteq signals.pending
    <3>1. signals' = [signals EXCEPT !.pending = signals.pending \ {s}]
      BY <2>3 DEF Receive
    <3> QED BY <3>1
  <2> QED BY <2>1, <2>2, <2>3
<1>3. Adds(rec, rec', None)
  <2>1. rec \in Trace /\ C2S \in Directions
        /\ {"transport-open", "transport-close", "transport-abort"} \subseteq Bodies
    BY DEF Typed, Directions, C2S, Bodies
  <2>2. \A b \in {"transport-open", "transport-close"} : StdioEvent(C2S, b).msg = None
    BY <2>1, EventTypes
  <2>3. CASE OpenTrace
    BY <2>2, <2>3, MainRecords, RecordedAdds DEF OpenTraceRecords
  <2>4. CASE BeginStop
    BY <2>1, <2>2, <2>4, MainRecords, ClosedAdds DEF BeginStopCloses
  <2>5. CASE CloseSession
    BY <2>1, <2>5, MainRecords, ClosedAdds DEF CloseSessionCloses
  <2>6. CASE FinishSession \/ Exit \/ Kill
    BY <2>6, EndRests, RestedAdds
  <2>7. CASE UNCHANGED rec
    BY <2>1, <2>7, AddsNothing
  <2> QED BY <2>3, <2>4, <2>5, <2>6, <2>7
          DEF MainStep, OpenFails, ClientRelayEnds, ServerExitSeen, ClientJoined, RelayStop,
              StopKills, RelayEnds, DrainKills, AbandonRelay
<1> QED BY <1>1, <1>2, <1>3, MainTypes, ServerAfter, PumpsAfter DEF MainGoes

-----------------------------------------------------------------------------
(* Types.                                                                      *)

LEMMA TakenAdds ==
    ASSUME Typed, NEW d \in Directions, NEW m \in Messages, NEW b \in BOOLEAN, Taken(d, m, b)
    PROVE  Adds(rec, rec', m)
<1> DEFINE e == MessageEvent(d, [msg |-> m, full |-> b])
<1>1. rec \in Trace /\ e.msg = m
  BY EventTypes DEF Typed
<1> HIDE DEF e
<1>2. rec' = rec \/ Recorded(rec, rec', e)
  BY DEF Taken, e
<1> QED BY <1>1, <1>2, AddsNothing, RecordedAdds

\* The recorder, on any step of a pump.
LEMMA PumpRec ==
    ASSUME Typed, NEW d \in Directions, NEW q, PumpGoes(d, q)
    PROVE  rec' \in Trace
<1>1. CASE \E m, b : RecordsAs(d, q, m, b)
  <2>1. PICK m, b : RecordsAs(d, q, m, b)
    BY <1>1
  <2> QED BY <2>1, TakenAdds DEF RecordsAs, Adds
<1>2. CASE UNCHANGED rec
  BY <1>2 DEF Typed
<1> QED BY <1>1, <1>2 DEF PumpGoes, ReadsAs, ReadsEndAs, WritesAs, StopsAs

LEMMA RestOf ==
    ASSUME NEW S, NEW s \in Seq(S), NEW n \in 0 .. Len(s)
    PROVE  /\ SubSeq(s, n + 1, Len(s)) \in Seq(S)
           /\ Len(SubSeq(s, n + 1, Len(s))) = Len(s) - n
           /\ \A i \in 1 .. Len(s) - n : SubSeq(s, n + 1, Len(s))[i] = s[n + i]
<1> DEFINE k == Len(s)
<1>1. k \in Nat
  BY LenProperties
<1> HIDE DEF k
<1>2. n \in Nat /\ n + 1 \in 1 .. k + 1 /\ k - (n + 1) + 1 = k - n
  BY <1>1 DEF k
<1>3. SubSeq(s, n + 1, k) \in Seq(S)
  BY <1>1, <1>2, SubSeqProperties DEF k
<1>4. Len(SubSeq(s, n + 1, k)) = k - n
  <2>1. Len(SubSeq(s, n + 1, k)) = IF n + 1 <= k THEN k - (n + 1) + 1 ELSE 0
    BY <1>1, <1>2, SubSeqProperties DEF k
  <2>2. n <= k
    BY <1>1 DEF k
  <2> QED BY <1>1, <1>2, <2>1, <2>2
<1>5. ASSUME NEW i \in 1 .. k - n PROVE SubSeq(s, n + 1, k)[i] = s[n + i]
  BY <1>1, <1>2, SubSeqProperties DEF k
<1> QED BY <1>3, <1>4, <1>5 DEF k

LEMMA FirstOf ==
    ASSUME NEW S, NEW s \in Seq(S), NEW n \in 0 .. Len(s)
    PROVE  /\ SubSeq(s, 1, n) \in Seq(S) /\ Len(SubSeq(s, 1, n)) = n
           /\ \A i \in 1 .. n : SubSeq(s, 1, n)[i] = s[i]
           /\ SubSeq(s, 1, n) \o SubSeq(s, n + 1, Len(s)) = s
<1>1. Len(s) \in Nat /\ n \in Nat /\ n <= Len(s)
  BY LenProperties
<1>2. /\ SubSeq(s, 1, n) \in Seq(S) /\ Len(SubSeq(s, 1, n)) = n
      /\ \A i \in 1 .. n : SubSeq(s, 1, n)[i] = s[i]
  BY <1>1, SubSeqProperties
<1>3. SubSeq(s, 1, n) \o SubSeq(s, n + 1, Len(s)) = SubSeq(s, 1, Len(s))
  <2>1. /\ 1 \in 1 .. Len(s) + 1 /\ n \in 1 - 1 .. Len(s) /\ Len(s) \in n .. Len(s)
    BY <1>1
  <2> QED BY <2>1, ConcatAdjacentSubSeq
<1> QED BY <1>2, <1>3, SubSeqFull

LEMMA PumpKeepsTypes ==
    ASSUME Typed, NEW d \in Directions, NEW q, PumpGoes(d, q)
    PROVE  Typed'
<1> DEFINE p == pump[d]
<1>t. /\ p \in Pumps /\ inp[d] \in Seq(Piece) /\ outp[d] \in Seq(Piece)
      /\ given[d] \in Seq(Messages) /\ setup.room \in Nat
      /\ Len(p.lines) <= setup.room /\ Len(p.chunk) <= setup.room /\ Len(inp[d]) <= setup.room
      /\ p.lines \in Seq(Piece) /\ p.chunk \in Seq(Piece) /\ Len(outp[d]) <= setup.room
  BY TypedPump, PumpFields
<1>e. inp \in [Directions -> Seq(Piece)] /\ outp \in [Directions -> Seq(Piece)]
      /\ given \in [Directions -> Seq(Messages)]
  BY DEF Typed
<1>0. <<>> \in Seq(Piece) /\ Len(<<>>) = 0
  OBVIOUS
<1>b. Becomes(d, q)
  BY DEF PumpGoes
<1> HIDE DEF p
<1>1. /\ inp' \in [Directions -> Seq(Piece)] /\ outp' \in [Directions -> Seq(Piece)]
      /\ given' \in [Directions -> Seq(Messages)]
      /\ \A o \in Directions : Len(inp'[o]) <= setup.room /\ Len(outp'[o]) <= setup.room
      /\ Len(q.lines) <= setup.room /\ Len(q.chunk) <= setup.room
  <2>0. \A o \in Directions : Len(inp[o]) <= setup.room /\ Len(outp[o]) <= setup.room
    BY DEF Typed
  <2>1. CASE \E n : ReadsAs(d, q, n)
    <3>1. PICK n : ReadsAs(d, q, n)
      BY <2>1
    <3> DEFINE z == SubSeq(inp[d], n + 1, Len(inp[d]))
               a == SubSeq(inp[d], 1, n)
               k == Len(inp[d])
    <3>2. n \in 0 .. k /\ n \in 1 .. k /\ k \in Nat
      BY <1>t, <3>1 DEF ReadsAs
    <3>3. z \in Seq(Piece) /\ Len(z) = k - n /\ Len(a) = n
      BY <1>t, <3>2, RestOf, FirstOf
    <3>4. inp' = [inp EXCEPT ![d] = z] /\ q.chunk = a /\ q.lines = a /\ UNCHANGED <<outp, given>>
      BY <3>1 DEF ReadsAs
    <3>5. k <= setup.room
      BY <1>t
    <3> HIDE DEF z, a, k
    <3>6. Len(z) <= setup.room /\ Len(a) <= setup.room
      BY <1>t, <3>2, <3>3, <3>5
    <3> QED BY <1>e, <2>0, <3>3, <3>4, <3>6
  <2>2. CASE \E m, b : RecordsAs(d, q, m, b)
    <3>1. PICK m, b : RecordsAs(d, q, m, b)
      BY <2>2
    <3>2. q.chunk = p.chunk /\ UNCHANGED <<inp, outp, given>>
      BY <3>1 DEF RecordsAs, p
    <3>3. Len(q.lines) <= setup.room
      <4>1. CASE q.lines = p.lines
        BY <1>t, <4>1
      <4>2. CASE \E i \in 1 .. Len(p.lines) : q.lines = SubSeq(p.lines, i + 1, Len(p.lines))
        <5> DEFINE k == Len(p.lines)
        <5>1. PICK i \in 1 .. k : q.lines = SubSeq(p.lines, i + 1, k)
          BY <4>2
        <5>2. k \in Nat /\ k <= setup.room
          BY <1>t
        <5>3. i \in 0 .. k
          BY <5>2
        <5>4. Len(q.lines) = k - i
          BY <1>t, <5>1, <5>3, RestOf
        <5> HIDE DEF k
        <5> QED BY <1>t, <5>1, <5>2, <5>3, <5>4
      <4> QED BY <3>1, <4>1, <4>2 DEF RecordsAs, p
    <3> QED BY <1>e, <1>t, <2>0, <3>2, <3>3
  <2>3. CASE WritesAs(d, q)
    <3> DEFINE x == Head(p.chunk)
               g == IF x.last THEN Append(given[d], x.msg) ELSE given[d]
               z == Append(outp[d], x)
    <3>1. /\ q.chunk = Tail(p.chunk) /\ q.lines = p.lines /\ p.chunk # <<>> /\ UNCHANGED inp
          /\ outp' = [outp EXCEPT ![d] = z] /\ given' = [given EXCEPT ![d] = g]
          /\ Len(outp[d]) < setup.room
      BY <2>3 DEF WritesAs, p
    <3>2. x \in Piece /\ x.msg \in Messages /\ Tail(p.chunk) \in Seq(Piece)
          /\ Len(Tail(p.chunk)) = Len(p.chunk) - 1
      <4>1. /\ Head(p.chunk) \in Piece /\ Tail(p.chunk) \in Seq(Piece)
            /\ Len(Tail(p.chunk)) = Len(p.chunk) - 1
        BY <1>t, <3>1, HeadTailProperties
      <4> QED BY <4>1 DEF Piece
    <3> HIDE DEF x
    <3>3. z \in Seq(Piece) /\ g \in Seq(Messages) /\ Len(z) = Len(outp[d]) + 1
      BY <1>t, <3>2, AppendProperties
    <3>4. Len(z) <= setup.room
      <4> DEFINE k == Len(outp[d])
      <4>1. k \in Nat /\ k < setup.room /\ Len(z) = k + 1
        BY <1>t, <3>1, <3>3, LenProperties
      <4> HIDE DEF k, z
      <4> QED BY <1>t, <4>1
    <3>5. Len(q.chunk) <= setup.room
      <4> DEFINE k == Len(p.chunk)
      <4>1. k \in Nat /\ k <= setup.room /\ Len(q.chunk) = k - 1
        BY <1>t, <3>1, <3>2, LenProperties
      <4> HIDE DEF k
      <4> QED BY <1>t, <4>1
    <3> HIDE DEF g, z
    <3> QED BY <1>e, <1>t, <2>0, <3>1, <3>3, <3>4, <3>5
  <2>4. CASE ReadsEndAs(d, q) \/ StopsAs(d, q)
    <3>1. /\ UNCHANGED <<inp, outp, given>> /\ q.lines = p.lines
          /\ q.chunk = p.chunk \/ q.chunk = <<>>
      BY <2>4 DEF ReadsEndAs, StopsAs, p
    <3> QED BY <1>0, <1>e, <1>t, <2>0, <3>1
  <2> QED BY <2>1, <2>2, <2>3, <2>4 DEF PumpGoes
<1>2. /\ pump' \in [Directions -> Pumps]
      /\ \A o \in Directions :
            Len(pump'[o].lines) <= setup.room /\ Len(pump'[o].chunk) <= setup.room
  BY <1>1, <1>b DEF Becomes, Typed
<1>3. UNCHANGED <<main, client, server, setup, signals, sent, before>>
  BY DEF PumpGoes
<1> QED BY <1>1, <1>2, <1>3, PumpRec DEF Typed

LEMMA MainKeepsTypes ==
    ASSUME Typed, MainGoes
    PROVE  Typed'
<1>1. UNCHANGED <<inp, outp, client, setup, sent, given, before>>
  BY DEF MainGoes
<1>2. /\ server' \in Servers /\ server'.alive \subseteq setup.procs
      /\ server'.told \subseteq setup.group /\ main' \in Mains /\ rec' \in Trace
      /\ signals'.pending \subseteq Stops /\ pump' \in [Directions -> Pumps]
  BY DEF MainGoes, Adds, Typed
<1>3. ASSUME NEW d \in Directions
      PROVE  Len(pump'[d].lines) <= setup.room /\ Len(pump'[d].chunk) <= setup.room
  <2>1. Leaves(pump'[d], pump[d]) /\ Len(<<>>) <= setup.room
    BY TypedPump DEF MainGoes
  <2> QED BY <2>1, TypedPump DEF Leaves
<1> QED BY <1>1, <1>2, <1>3 DEF Typed

-----------------------------------------------------------------------------
(* What a step of the environment does.                                        *)

Final(m) == [msg |-> m, last |-> TRUE]

\* The first piece of m, and what follows it.
StartsAs(m, piece, rest) ==
    \/ piece = Final(m) /\ rest = <<>>
    \/ piece = [msg |-> m, last |-> FALSE] /\ rest = <<Final(m)>>

LEMMA PiecesStart ==
    ASSUME NEW m \in Messages
    PROVE  /\ StartsAs(m, Head(Pieces(m)), Tail(Pieces(m)))
           /\ Head(Pieces(m)) \in Piece /\ Tail(Pieces(m)) \in Seq(Piece)
<1> DEFINE a == [msg |-> m, last |-> FALSE]
           z == Final(m)
<1>1. a \in Piece /\ z \in Piece
  BY DEF Piece, Final
<1>2. Pieces(m) = <<a>> \o <<z>> \/ Pieces(m) = <<>> \o <<z>>
  BY DEF Pieces, Final
<1>3. /\ a = [msg |-> m, last |-> FALSE] /\ z = Final(m)
  OBVIOUS
<1> HIDE DEF a, z
<1>4. <<a>> \o <<z>> = <<a, z>> /\ <<>> \o <<z>> = <<z>>
  <2>1. <<a>> \in Seq(Piece) /\ <<z>> \in Seq(Piece)
    BY <1>1
  <2>2. <<a>> \o <<z>> = Append(<<a>>, z)
    BY <1>1, <2>1, AppendIsConcat
  <2>3. Append(<<a>>, z) = <<a, z>>
    <3>1. <<a, z>> \in Seq(Piece) /\ Len(<<a, z>>) = 2 /\ <<a, z>>[1] = a /\ <<a, z>>[2] = z
      BY <1>1
    <3>2. Len(<<a>>) = 1 /\ <<a>>[1] = a
      OBVIOUS
    <3>3. /\ Append(<<a>>, z) \in Seq(Piece) /\ Len(Append(<<a>>, z)) = 2
          /\ Append(<<a>>, z)[1] = a /\ Append(<<a>>, z)[2] = z
      BY <1>1, <2>1, <3>2, AppendProperties
    <3>4. \A i \in 1 .. 2 : Append(<<a>>, z)[i] = <<a, z>>[i]
      BY <3>1, <3>3
    <3> QED BY <3>1, <3>3, <3>4, SeqEqual
  <2>4. <<>> \o <<z>> = <<z>>
    BY <2>1, ConcatEmptySeq
  <2> QED BY <2>2, <2>3, <2>4
<1>5. /\ Head(<<a, z>>) = a /\ Tail(<<a, z>>) = <<z>>
      /\ Head(<<z>>) = z /\ Tail(<<z>>) = <<>>
  BY <1>1
<1>6. \/ Head(Pieces(m)) = a /\ Tail(Pieces(m)) = <<z>>
      \/ Head(Pieces(m)) = z /\ Tail(Pieces(m)) = <<>>
  BY <1>2, <1>4, <1>5
<1>7. <<z>> \in Seq(Piece) /\ <<>> \in Seq(Piece)
  BY <1>1
<1> QED BY <1>1, <1>3, <1>6, <1>7 DEF StartsAs

ClientSendsAs(piece, c) ==
    /\ piece \in Piece /\ client' = c /\ c \in Clients
    /\ c.state = client.state /\ c.closed = client.closed /\ ~client.closed
    /\ Len(inp[C2S]) < setup.room /\ Emits(C2S, piece)
    /\ UNCHANGED <<outp, server, setup, signals, given>>
    /\ \/ /\ client.rest # <<>> /\ piece = Head(client.rest)
          /\ c.rest = Tail(client.rest) /\ c.begun = client.begun
          /\ UNCHANGED before
       \/ /\ client.rest = <<>> /\ client.begun < setup.requests
          /\ StartsAs(<<"request", client.begun + 1>>, piece, c.rest)
          /\ c.begun = client.begun + 1
          /\ Begins(C2S, <<"request", client.begun + 1>>)

LEMMA ClientSendsAlike ==
    ASSUME Typed, ClientSends
    PROVE  \E piece, c : ClientSendsAs(piece, c)
<1>1. /\ client \in Clients /\ client.rest \in Seq(Piece) /\ client.begun \in Nat
      /\ setup.requests \in 0 .. Requests /\ Requests \in Nat
  BY TypedPump, C2S \in Directions DEF Typed, Clients, C2S, Directions
<1>2. /\ ~client.closed /\ Len(inp[C2S]) < setup.room
      /\ UNCHANGED <<outp, server, setup, signals, given>>
  BY DEF ClientSends
<1>3. CASE /\ client.rest # <<>> /\ Emits(C2S, Head(client.rest))
           /\ client' = [client EXCEPT !.rest = Tail(@)] /\ UNCHANGED before
  <2> DEFINE c == [client EXCEPT !.rest = Tail(client.rest)]
  <2>1. Head(client.rest) \in Piece /\ Tail(client.rest) \in Seq(Piece)
    BY <1>1, <1>3, HeadTailProperties
  <2>2. /\ c \in Clients /\ c.rest = Tail(client.rest) /\ c.begun = client.begun
        /\ c.state = client.state /\ c.closed = client.closed
    BY <1>1, <2>1 DEF Clients
  <2>3. client' = c
    BY <1>3
  <2> HIDE DEF c
  <2>4. ClientSendsAs(Head(client.rest), c)
    BY <1>2, <1>3, <2>1, <2>2, <2>3 DEF ClientSendsAs
  <2> QED BY <2>4
<1>4. CASE /\ client.rest = <<>> /\ client.begun < setup.requests
           /\ LET m == <<"request", client.begun + 1>>
              IN  /\ Emits(C2S, Head(Pieces(m)))
                  /\ Begins(C2S, m)
                  /\ client' = [client EXCEPT !.rest = Tail(Pieces(m)), !.begun = @ + 1]
  <2> DEFINE m == <<"request", client.begun + 1>>
             t == Tail(Pieces(m))
             c == [client EXCEPT !.rest = t, !.begun = client.begun + 1]
  <2>1. m \in Messages
    <3>1. client.begun + 1 \in 1 .. Requests
      BY <1>1, <1>4
    <3> QED BY <3>1 DEF Messages
  <2>2. StartsAs(m, Head(Pieces(m)), t) /\ Head(Pieces(m)) \in Piece /\ t \in Seq(Piece)
    BY <2>1, PiecesStart
  <2>3. client' = c /\ Emits(C2S, Head(Pieces(m))) /\ Begins(C2S, m)
    BY <1>4
  <2> HIDE DEF t
  <2>4. /\ c \in Clients /\ c.rest = t /\ c.begun = client.begun + 1
        /\ c.state = client.state /\ c.closed = client.closed
    <3>1. client.begun + 1 \in Nat
      BY <1>1
    <3> QED BY <1>1, <2>2, <3>1 DEF Clients
  <2> HIDE DEF c
  <2>5. ClientSendsAs(Head(Pieces(m)), c)
    BY <1>2, <1>4, <2>2, <2>3, <2>4 DEF ClientSendsAs
  <2> QED BY <2>5
<1> QED BY <1>3, <1>4 DEF ClientSends

ServerGives(piece) ==
    \/ /\ pump[S2C].state \in {"off", "running"} /\ Len(inp[S2C]) < setup.room
       /\ Emits(S2C, piece)
    \/ pump[S2C].state \notin {"off", "running"} /\ UNCHANGED <<inp, sent>>

ServerSendsAs(piece, s, m) ==
    /\ piece \in Piece /\ server' = s /\ s \in Servers
    /\ s.alive = server.alive /\ s.told = server.told /\ s.reads = server.reads
    /\ s.read = server.read /\ Holders # {}
    /\ ServerGives(piece)
    /\ UNCHANGED <<outp, client, setup, signals, given>>
    /\ \/ /\ server.rest # <<>> /\ piece = Head(server.rest)
          /\ s.rest = Tail(server.rest) /\ s.owes = server.owes /\ s.noted = server.noted
          /\ UNCHANGED before
       \/ /\ server.rest = <<>> /\ server.owes # <<>> /\ m = Head(server.owes)
          /\ StartsAs(m, piece, s.rest) /\ s.owes = Tail(server.owes) /\ s.noted = server.noted
          /\ m \in Messages /\ Begins(S2C, m)
       \/ /\ server.rest = <<>> /\ ~server.noted /\ m = <<"note", 0>>
          /\ StartsAs(m, piece, s.rest) /\ s.owes = server.owes /\ s.noted
          /\ m \in Messages /\ Begins(S2C, m)

LEMMA ServerSendsAlike ==
    ASSUME Typed, ServerSends
    PROVE  \E piece, s, m : ServerSendsAs(piece, s, m)
<1>1. server \in Servers /\ server.rest \in Seq(Piece) /\ server.owes \in Seq(Messages)
  BY DEF Typed, Servers
<1>2. Holders # {} /\ UNCHANGED <<outp, client, setup, signals, given>>
  BY DEF ServerSends
<1>3. \A piece : ServerWrites(piece) => ServerGives(piece)
  BY DEF ServerWrites, ServerGives
<1>4. CASE /\ server.rest # <<>> /\ ServerWrites(Head(server.rest))
           /\ server' = [server EXCEPT !.rest = Tail(@)] /\ UNCHANGED before
  <2> DEFINE s == [server EXCEPT !.rest = Tail(server.rest)]
  <2>1. Head(server.rest) \in Piece /\ Tail(server.rest) \in Seq(Piece)
    BY <1>1, <1>4, HeadTailProperties
  <2>2. /\ s \in Servers /\ s.rest = Tail(server.rest) /\ s.owes = server.owes
        /\ s.noted = server.noted /\ s.alive = server.alive /\ s.told = server.told
        /\ s.reads = server.reads /\ s.read = server.read
    BY <1>1, <2>1 DEF Servers
  <2>3. server' = s /\ ServerGives(Head(server.rest))
    BY <1>3, <1>4
  <2> HIDE DEF s
  <2>4. ServerSendsAs(Head(server.rest), s, None)
    BY <1>2, <1>4, <2>1, <2>2, <2>3 DEF ServerSendsAs
  <2> QED BY <2>4
<1>5. CASE /\ server.rest = <<>> /\ server.owes # <<>>
           /\ ServerBegins(Head(server.owes), [server EXCEPT !.owes = Tail(@)])
  <2> DEFINE m == Head(server.owes)
             o == Tail(server.owes)
             t == Tail(Pieces(m))
             s == [server EXCEPT !.owes = o, !.rest = t]
  <2>1. m \in Messages /\ o \in Seq(Messages)
    BY <1>1, <1>5, HeadTailProperties
  <2> HIDE DEF o
  <2>2. StartsAs(m, Head(Pieces(m)), t) /\ Head(Pieces(m)) \in Piece /\ t \in Seq(Piece)
    BY <2>1, PiecesStart
  <2>3. server' = s /\ ServerGives(Head(Pieces(m))) /\ Begins(S2C, m)
    BY <1>1, <1>3, <1>5 DEF ServerBegins, o, Servers
  <2> HIDE DEF t
  <2>4. /\ s \in Servers /\ s.rest = t /\ s.owes = o
        /\ s.noted = server.noted /\ s.alive = server.alive /\ s.told = server.told
        /\ s.reads = server.reads /\ s.read = server.read
    BY <1>1, <2>1, <2>2 DEF Servers
  <2> HIDE DEF s
  <2>5. ServerSendsAs(Head(Pieces(m)), s, m)
    BY <1>2, <1>5, <2>1, <2>2, <2>3, <2>4 DEF ServerSendsAs, o
  <2> QED BY <2>5
<1>6. CASE /\ server.rest = <<>> /\ ~server.noted
           /\ ServerBegins(<<"note", 0>>, [server EXCEPT !.noted = TRUE])
  <2> DEFINE m == <<"note", 0>>
             t == Tail(Pieces(m))
             s == [server EXCEPT !.noted = TRUE, !.rest = t]
  <2>1. m \in Messages
    BY DEF Messages
  <2>2. StartsAs(m, Head(Pieces(m)), t) /\ Head(Pieces(m)) \in Piece /\ t \in Seq(Piece)
    BY <2>1, PiecesStart
  <2>3. server' = s /\ ServerGives(Head(Pieces(m))) /\ Begins(S2C, m)
    BY <1>1, <1>3, <1>6 DEF ServerBegins, Servers
  <2> HIDE DEF t
  <2>4. /\ s \in Servers /\ s.rest = t /\ s.owes = server.owes
        /\ s.noted /\ s.alive = server.alive /\ s.told = server.told
        /\ s.reads = server.reads /\ s.read = server.read
    BY <1>1, <2>2 DEF Servers
  <2> HIDE DEF s
  <2>5. ServerSendsAs(Head(Pieces(m)), s, m)
    BY <1>2, <1>6, <2>1, <2>2, <2>3, <2>4 DEF ServerSendsAs
  <2> QED BY <2>5
<1> QED BY <1>4, <1>5, <1>6 DEF ServerSends

-----------------------------------------------------------------------------
(* Pieces on their way.                                                        *)

\* Piece x is put in behind the others.
Longer(s, x) == IF x.last THEN Append(s, x.msg) ELSE s

LEMMA LongerType ==
    ASSUME NEW s \in Seq(Messages), NEW x \in Piece, NEW t, t = Longer(s, x)
    PROVE  /\ t \in Seq(Messages) /\ Len(s) \in Nat /\ Len(t) \in Nat
           /\ Len(t) = Len(s) + (IF x.last THEN 1 ELSE 0)
           /\ \A k \in 1 .. Len(s) : t[k] = s[k]
           /\ x.last => t[Len(s) + 1] = x.msg
           /\ \A k \in 1 .. Len(t) : k \in 1 .. Len(s) \/ (x.last /\ k = Len(s) + 1)
<1>1. Len(s) \in Nat /\ x.msg \in Messages /\ x.last \in BOOLEAN
  BY LenProperties DEF Piece
<1>2. CASE x.last
  <2>1. t = Append(s, x.msg)
    BY <1>2 DEF Longer
  <2>2. /\ t \in Seq(Messages) /\ Len(t) = Len(s) + 1 /\ t[Len(s) + 1] = x.msg
        /\ \A k \in 1 .. Len(s) : t[k] = s[k]
    BY <1>1, <2>1, AppendProperties
  <2> DEFINE n == Len(s)
  <2> HIDE DEF n
  <2>3. n \in Nat /\ Len(t) = n + 1
    BY <1>1, <2>2 DEF n
  <2>4. \A k \in 1 .. Len(t) : k \in 1 .. n \/ k = n + 1
    BY <2>3
  <2> QED BY <1>1, <1>2, <2>2, <2>3, <2>4 DEF n
<1>3. CASE ~x.last
  <2>1. t = s
    BY <1>3 DEF Longer
  <2> QED BY <1>1, <1>3, <2>1
<1> QED BY <1>2, <1>3

LEMMA FlowAppend ==
    ASSUME NEW pieces \in Seq(Piece), NEW s \in Seq(Messages), NEW a, Flow(pieces, s, a),
           NEW x \in Piece
    PROVE  Flow(Append(pieces, x), Longer(s, x), a)
<1> DEFINE n == Len(pieces)
           k == Len(s)
           t == Longer(s, x)
           u == Len(t)
           y == Append(pieces, x)
           one == IF x.last THEN 1 ELSE 0
<1>1. /\ n \in Nat /\ k \in Nat /\ u = k + one /\ u \in Nat /\ one \in {0, 1}
      /\ \A j \in 1 .. k : t[j] = s[j]
      /\ x.last => t[k + 1] = x.msg
      /\ one = 1 <=> x.last
  BY LongerType, LenProperties DEF Piece
<1>2. Len(y) = n + 1 /\ y[n + 1] = x /\ \A i \in 1 .. n : y[i] = pieces[i]
  BY AppendProperties
<1>3. PICK rank \in [0 .. n -> 0 .. k] :
        /\ rank[0] = a /\ rank[n] = k
        /\ \A i \in 1 .. n :
              /\ rank[i] = rank[i - 1] + (IF pieces[i].last THEN 1 ELSE 0)
              /\ pieces[i].last => pieces[i].msg = s[rank[i]]
  BY DEF Flow, Ranks
<1> DEFINE r == [i \in 0 .. n + 1 |-> IF i = n + 1 THEN u ELSE rank[i]]
<1> HIDE DEF n, k, t, u, y, one
<1>4. r \in [0 .. n + 1 -> 0 .. u]
  BY <1>1, <1>3
<1>5. r[0] = a /\ r[n + 1] = u /\ \A i \in 0 .. n : r[i] = rank[i]
  BY <1>1, <1>3
<1> HIDE DEF r
<1>6. ASSUME NEW i \in 1 .. n + 1
      PROVE  /\ r[i] = r[i - 1] + (IF y[i].last THEN 1 ELSE 0)
             /\ y[i].last => y[i].msg = t[r[i]]
  <2>1. CASE i = n + 1
    <3>1. r[i - 1] = k /\ r[i] = u /\ y[i] = x
      BY <1>1, <1>2, <1>3, <1>5, <2>1
    <3> QED BY <1>1, <3>1 DEF one
  <2>2. CASE i # n + 1
    <3>1. i \in 1 .. n /\ i - 1 \in 0 .. n /\ i \in 0 .. n
      BY <1>1, <2>2
    <3>2. /\ r[i] = rank[i] /\ r[i - 1] = rank[i - 1] /\ y[i] = pieces[i]
          /\ rank[i] \in 0 .. k /\ rank[i - 1] \in 0 .. k
      BY <1>2, <1>3, <1>5, <3>1
    <3>3. /\ rank[i] = rank[i - 1] + (IF pieces[i].last THEN 1 ELSE 0)
          /\ pieces[i].last => pieces[i].msg = s[rank[i]]
      BY <1>3, <3>1
    <3>4. pieces[i].last => rank[i] \in 1 .. k
      BY <1>1, <3>2, <3>3
    <3> QED BY <1>1, <3>2, <3>3, <3>4
  <2> QED BY <2>1, <2>2
<1>7. Len(y) = n + 1 /\ Len(t) = u
  BY <1>2 DEF u
<1> HIDE DEF y, t
<1>8. Ranks(r, y, t, a)
  BY <1>5, <1>6, <1>7 DEF Ranks
<1>9. Flow(y, t, a)
  BY <1>4, <1>7, <1>8 DEF Flow
<1> QED BY <1>9 DEF y, t

LEMMA FlowTail ==
    ASSUME NEW pieces \in Seq(Piece), NEW s \in Seq(Messages), NEW a, Flow(pieces, s, a),
           pieces # <<>>, NEW x, x = Head(pieces)
    PROVE  /\ a \in Nat
           /\ x.last => a + 1 \in 1 .. Len(s) /\ x.msg = s[a + 1]
           /\ Flow(Tail(pieces), s, IF x.last THEN a + 1 ELSE a)
<1> DEFINE n == Len(pieces)
           k == Len(s)
           y == Tail(pieces)
<1>1. k \in Nat
  BY LenProperties
<1>2. n \in Nat /\ n > 0 /\ x = pieces[1] /\ Len(y) = n - 1
      /\ \A i \in 1 .. n - 1 : y[i] = pieces[i + 1]
  <2>1. n \in Nat /\ n > 0
    BY LenProperties, EmptySeq
  <2> QED BY <2>1, HeadTailProperties
<1>3. PICK rank \in [0 .. n -> 0 .. k] :
        /\ rank[0] = a /\ rank[n] = k
        /\ \A i \in 1 .. n :
              /\ rank[i] = rank[i - 1] + (IF pieces[i].last THEN 1 ELSE 0)
              /\ pieces[i].last => pieces[i].msg = s[rank[i]]
  BY DEF Flow, Ranks
<1> DEFINE b == IF x.last THEN a + 1 ELSE a
           r == [i \in 0 .. n - 1 |-> rank[i + 1]]
<1> HIDE DEF n, k, y
<1>4. 0 \in 0 .. n /\ 1 \in 1 .. n /\ 1 \in 0 .. n
  BY <1>2
<1>5. a \in 0 .. k /\ rank[1] \in 0 .. k /\ rank[1] = b
      /\ (x.last => rank[1] = a + 1 /\ x.msg = s[rank[1]])
  BY <1>1, <1>2, <1>3, <1>4
<1>6. r \in [0 .. n - 1 -> 0 .. k]
  BY <1>2, <1>3
<1>7. r[0] = b /\ r[n - 1] = k /\ \A i \in 0 .. n - 1 : r[i] = rank[i + 1]
  BY <1>2, <1>3, <1>5
<1> HIDE DEF r, b
<1>8. ASSUME NEW i \in 1 .. n - 1
      PROVE  /\ r[i] = r[i - 1] + (IF y[i].last THEN 1 ELSE 0)
             /\ y[i].last => y[i].msg = s[r[i]]
  <2>1. i + 1 \in 1 .. n /\ i - 1 \in 0 .. n - 1 /\ i \in 0 .. n - 1 /\ (i - 1) + 1 = i
        /\ (i + 1) - 1 = i
    BY <1>2
  <2>2. r[i] = rank[i + 1] /\ r[i - 1] = rank[i] /\ y[i] = pieces[i + 1]
    BY <1>2, <1>7, <2>1
  <2> QED BY <1>3, <2>1, <2>2
<1>9. Flow(y, s, b)
  <2>1. Ranks(r, y, s, b)
    BY <1>2, <1>7, <1>8 DEF Ranks, k
  <2> QED BY <1>2, <1>6, <2>1 DEF Flow, k
<1>10. x.last => a + 1 \in 1 .. k /\ x.msg = s[a + 1]
  BY <1>1, <1>5
<1> QED BY <1>1, <1>5, <1>9, <1>10 DEF k, y, b

LEMMA FlowEmpty ==
    ASSUME NEW s \in Seq(Messages), NEW a
    PROVE  Flow(<<>>, s, a) <=> a = Len(s)
<1>1. Len(s) \in Nat /\ Len(<<>>) = 0
  BY LenProperties
<1>2. ASSUME Flow(<<>>, s, a) PROVE a = Len(s)
  BY <1>1, <1>2 DEF Flow, Ranks
<1>3. ASSUME a = Len(s) PROVE Flow(<<>>, s, a)
  <2> DEFINE r == [i \in 0 .. 0 |-> a]
  <2>1. r \in [0 .. 0 -> 0 .. Len(s)] /\ r[0] = a
    BY <1>1, <1>3
  <2>2. \A i \in 1 .. 0 : FALSE
    OBVIOUS
  <2> QED BY <1>1, <1>3, <2>1, <2>2 DEF Flow, Ranks
<1> QED BY <1>2, <1>3

LEMMA ConcatSteps ==
    ASSUME NEW c \in Seq(Piece), NEW p \in Seq(Piece)
    PROVE  /\ c \o p \in Seq(Piece)
           /\ \A x \in Piece : c \o Append(p, x) = Append(c \o p, x)
           /\ c # <<>> => /\ c \o p # <<>> /\ Head(c \o p) = Head(c)
                          /\ Tail(c \o p) = Tail(c) \o p
           /\ <<>> \o p = p
<1>1. c \o p \in Seq(Piece) /\ <<>> \o p = p
  BY ConcatProperties, ConcatEmptySeq
<1>2. ASSUME NEW x \in Piece PROVE c \o Append(p, x) = Append(c \o p, x)
  <2>1. <<x>> \in Seq(Piece)
    OBVIOUS
  <2>2. Append(p, x) = p \o <<x>> /\ Append(c \o p, x) = (c \o p) \o <<x>>
    BY <1>1, AppendIsConcat
  <2> QED BY <2>1, <2>2, ConcatAssociative
<1>3. ASSUME c # <<>>
      PROVE  c \o p # <<>> /\ Head(c \o p) = Head(c) /\ Tail(c \o p) = Tail(c) \o p
  <2> DEFINE n == Len(c)
             m == Len(p)
             t == Tail(c)
             u == c \o p
  <2>1. n \in Nat /\ n > 0 /\ m \in Nat
    BY <1>3, LenProperties, EmptySeq
  <2>2. t \in Seq(Piece) /\ Len(t) = n - 1 /\ \A i \in 1 .. n - 1 : t[i] = c[i + 1]
    BY <1>3, HeadTailProperties
  <2>3. u \in Seq(Piece) /\ Len(u) = n + m
        /\ \A i \in 1 .. n + m : u[i] = IF i <= n THEN c[i] ELSE p[i - n]
    BY ConcatProperties
  <2>4. u # <<>> /\ Head(u) = u[1] /\ Head(c) = c[1]
    BY <1>3, <2>1, <2>3, EmptySeq
  <2> HIDE DEF n, m, t, u
  <2>5. u[1] = c[1]
    BY <2>1, <2>3
  <2>6. Tail(u) \in Seq(Piece) /\ Len(Tail(u)) = n + m - 1
        /\ \A i \in 1 .. n + m - 1 : Tail(u)[i] = u[i + 1]
    <3>1. /\ Tail(u) \in Seq(Piece) /\ Len(Tail(u)) = Len(u) - 1
          /\ \A i \in 1 .. Len(Tail(u)) : Tail(u)[i] = u[i + 1]
      BY <2>3, <2>4, HeadTailProperties
    <3>2. Len(Tail(u)) = n + m - 1
      BY <2>1, <2>3, <3>1
    <3> QED BY <3>1, <3>2
  <2>7. t \o p \in Seq(Piece) /\ Len(t \o p) = (n - 1) + m
        /\ \A i \in 1 .. (n - 1) + m : (t \o p)[i] = IF i <= n - 1 THEN t[i] ELSE p[i - (n - 1)]
    <3>1. /\ t \o p \in Seq(Piece) /\ Len(t \o p) = Len(t) + Len(p)
          /\ \A i \in 1 .. Len(t) + Len(p) :
                (t \o p)[i] = IF i <= Len(t) THEN t[i] ELSE p[i - Len(t)]
      BY <2>2, ConcatProperties
    <3> QED BY <2>2, <3>1 DEF m
  <2>8. ASSUME NEW i \in 1 .. n + m - 1 PROVE Tail(u)[i] = (t \o p)[i]
    <3>1. i + 1 \in 1 .. n + m /\ i \in 1 .. (n - 1) + m
      BY <2>1
    <3>2. CASE i <= n - 1
      <4>1. i \in 1 .. n - 1 /\ i + 1 <= n
        BY <2>1, <3>2
      <4> QED BY <2>2, <2>3, <2>6, <2>7, <3>1, <3>2, <4>1
    <3>3. CASE ~(i <= n - 1)
      <4>1. ~(i + 1 <= n) /\ (i + 1) - n = i - (n - 1)
        BY <2>1, <3>3
      <4> QED BY <2>3, <2>6, <2>7, <3>1, <3>3, <4>1
    <3> QED BY <3>2, <3>3
  <2>9. n + m - 1 = (n - 1) + m
    BY <2>1
  <2>10. Tail(u) = t \o p
    BY <2>6, <2>7, <2>8, <2>9, SeqEqual
  <2> QED BY <2>4, <2>5, <2>10 DEF t, u
<1> QED BY <1>1, <1>2, <1>3

-----------------------------------------------------------------------------
(* The rest of what the environment does.                                      *)

\* The server reads the requests in the order they were given.
LEMMA ServerGets ==
    ASSUME Typed, Flows, InTurn, outp[C2S] # <<>>, Head(outp[C2S]).last
    PROVE  /\ Head(outp[C2S]).msg = <<"request", server.read + 1>>
           /\ server.read + 1 \in 1 .. Requests /\ server.read \in Nat
           /\ <<"response", server.read + 1>> \in Messages
<1> DEFINE a == server.read
           x == Head(outp[C2S])
<1>1. C2S \in Directions
  BY DEF C2S, Directions
<1>2. /\ outp[C2S] \in Seq(Piece) /\ given[C2S] \in Seq(Messages) /\ sent[C2S] \in Seq(Messages)
      /\ a \in Nat /\ Requests \in Nat
  BY <1>1, TypedPump DEF Typed, Servers
<1>3. a + 1 \in 1 .. Len(given[C2S]) /\ x.msg = given[C2S][a + 1]
  BY <1>2, FlowTail DEF Flows
<1>4. a + 1 \in 1 .. Len(sent[C2S]) /\ x.msg = sent[C2S][a + 1]
  <2>1. Len(given[C2S]) <= Len(sent[C2S]) /\ given[C2S][a + 1] = sent[C2S][a + 1]
    BY <1>1, <1>3 DEF Flows, Prefix
  <2>2. Len(given[C2S]) \in Nat /\ Len(sent[C2S]) \in Nat
    BY <1>2, LenProperties
  <2> QED BY <1>3, <2>1, <2>2
<1>5. x.msg = <<"request", a + 1>> /\ x.msg \in Messages
  BY <1>2, <1>4 DEF InTurn
<1>6. a + 1 \in 1 .. Requests
  BY <1>5 DEF Messages
<1>7. <<"response", a + 1>> \in Messages
  BY <1>6 DEF Messages
<1> QED BY <1>2, <1>5, <1>6, <1>7

ServerReceivesAs(s) ==
    /\ outp[C2S] # <<>> /\ outp' = [outp EXCEPT ![C2S] = Tail(@)]
    /\ server' = s /\ s \in Servers
    /\ s.alive = server.alive /\ s.told = server.told /\ s.reads = server.reads
    /\ s.rest = server.rest /\ s.noted = server.noted
    /\ \/ /\ Head(outp[C2S]).last
          /\ s.owes = Append(server.owes, <<"response", server.read + 1>>)
          /\ s.read = server.read + 1
       \/ ~Head(outp[C2S]).last /\ s.owes = server.owes /\ s.read = server.read
    /\ UNCHANGED <<inp, client, setup, signals, sent, given, before>>

LEMMA ServerReceivesAlike ==
    ASSUME Typed, Flows, InTurn, ServerReceives
    PROVE  \E s : ServerReceivesAs(s)
<1>1. server \in Servers /\ server.owes \in Seq(Messages)
  BY DEF Typed, Servers
<1>2. /\ outp[C2S] # <<>> /\ outp' = [outp EXCEPT ![C2S] = Tail(@)]
      /\ UNCHANGED <<inp, client, setup, signals, sent, given, before>>
  BY DEF ServerReceives
<1>3. CASE Head(outp[C2S]).last
  <2> DEFINE o == Append(server.owes, <<"response", server.read + 1>>)
             s == [server EXCEPT !.owes = o, !.read = server.read + 1]
  <2>1. /\ Head(outp[C2S]).msg = <<"request", server.read + 1>>
        /\ server.read \in Nat /\ <<"response", server.read + 1>> \in Messages
    BY <1>2, <1>3, ServerGets
  <2>2. o \in Seq(Messages) /\ server.read + 1 \in Nat
    BY <1>1, <2>1
  <2>3. server' = s
    <3>1. Head(outp[C2S]).msg[2] = server.read + 1
      BY <2>1
    <3>2. server' = [server EXCEPT !.owes = Append(@, <<"response", Head(outp[C2S]).msg[2]>>),
                                   !.read = @ + 1]
      BY <1>3 DEF ServerReceives
    <3> QED BY <1>1, <3>1, <3>2
  <2> HIDE DEF o
  <2>4. /\ s \in Servers /\ s.owes = o /\ s.read = server.read + 1
        /\ s.alive = server.alive /\ s.told = server.told /\ s.reads = server.reads
        /\ s.rest = server.rest /\ s.noted = server.noted
    BY <1>1, <2>2 DEF Servers
  <2> HIDE DEF s
  <2>5. ServerReceivesAs(s)
    BY <1>2, <1>3, <2>3, <2>4 DEF ServerReceivesAs, o
  <2> QED BY <2>5
<1>4. CASE ~Head(outp[C2S]).last
  <2>1. server' = server
    BY <1>4 DEF ServerReceives
  <2>2. ServerReceivesAs(server)
    BY <1>1, <1>2, <1>4, <2>1 DEF ServerReceivesAs
  <2> QED BY <2>2
<1> QED BY <1>3, <1>4

\* The steps that move no message the proofs follow.
WorldGoes ==
    /\ client' \in Clients /\ client'.rest = client.rest /\ client'.begun = client.begun
    /\ client.closed => client'.closed
    /\ client.state = "gone" => client'.state = "gone"
    /\ server' \in Servers /\ server'.alive \subseteq server.alive /\ server'.told = server.told
    /\ server'.owes = server.owes /\ server'.rest = server.rest
    /\ server'.noted = server.noted /\ server'.read = server.read
    /\ signals'.pending \subseteq Stops
    /\ outp' \in [Directions -> Seq(Piece)] /\ outp'[C2S] = outp[C2S]
    /\ Len(outp'[S2C]) <= setup.room
    /\ UNCHANGED <<inp, setup, sent, given, before>>

WorldStep ==
    \/ ClientCloses \/ ClientReceives \/ ClientNeglects \/ ServerClosesInput
    \/ \E p \in Procs : ServerExits(p)
    \/ \E s \in Stops : RequestStop(s)

LEMMA WorldStepGoes ==
    ASSUME Typed, WorldStep
    PROVE  WorldGoes
<1>1. /\ client \in Clients /\ server \in Servers /\ signals.pending \subseteq Stops
      /\ outp \in [Directions -> Seq(Piece)] /\ Len(outp[S2C]) <= setup.room
      /\ C2S \in Directions /\ S2C \in Directions /\ C2S # S2C
  BY DEF Typed, C2S, S2C, Directions
<1>2. CASE ClientCloses
  <2>1. client' = [client EXCEPT !.closed = TRUE]
        /\ UNCHANGED <<inp, outp, server, setup, signals, sent, given, before>>
    BY <1>2 DEF ClientCloses
  <2> QED BY <1>1, <2>1 DEF Clients, WorldGoes
<1>3. CASE ClientReceives
  <2>1. outp[S2C] # <<>> /\ outp' = [outp EXCEPT ![S2C] = Tail(outp[S2C])]
        /\ UNCHANGED <<inp, client, server, setup, signals, sent, given, before>>
    BY <1>3 DEF ClientReceives
  <2>2. Tail(outp[S2C]) \in Seq(Piece) /\ Len(Tail(outp[S2C])) = Len(outp[S2C]) - 1
    BY <1>1, <2>1, HeadTailProperties
  <2>3. outp' \in [Directions -> Seq(Piece)] /\ outp'[C2S] = outp[C2S]
        /\ outp'[S2C] = Tail(outp[S2C])
    BY <1>1, <2>1, <2>2
  <2>4. Len(Tail(outp[S2C])) <= setup.room
    <3> DEFINE n == Len(outp[S2C])
    <3>1. n \in Nat /\ n <= setup.room /\ setup.room \in Nat /\ Len(Tail(outp[S2C])) = n - 1
      BY <1>1, <2>2, LenProperties, TypedPump
    <3> HIDE DEF n
    <3> QED BY <3>1
  <2> QED BY <1>1, <2>1, <2>3, <2>4 DEF WorldGoes
<1>4. CASE ClientNeglects
  <2>1. \E s \in {"stalled", "gone"} : client.state = "reading" /\ client' = [client EXCEPT !.state = s]
    BY <1>4 DEF ClientNeglects
  <2>2. UNCHANGED <<inp, outp, server, setup, signals, sent, given, before>>
    BY <1>4 DEF ClientNeglects
  <2> QED BY <1>1, <2>1, <2>2 DEF Clients, WorldGoes
<1>5. CASE ServerClosesInput
  <2>1. server' = [server EXCEPT !.reads = FALSE]
        /\ UNCHANGED <<inp, outp, client, setup, signals, sent, given, before>>
    BY <1>5 DEF ServerClosesInput
  <2> QED BY <1>1, <2>1 DEF Servers, WorldGoes
<1>6. CASE \E p \in Procs : ServerExits(p)
  <2>1. PICK p \in Procs, clean \in BOOLEAN :
           server' = [server EXCEPT !.alive = @ \ {p},
                                    !.clean = IF p = "leader" THEN clean ELSE @]
    BY <1>6 DEF ServerExits
  <2>2. UNCHANGED <<inp, outp, client, setup, signals, sent, given, before>>
    BY <1>6 DEF ServerExits
  <2> QED BY <1>1, <2>1, <2>2 DEF Servers, WorldGoes
<1>7. CASE \E s \in Stops : RequestStop(s)
  <2>1. PICK s \in Stops :
           /\ signals' = [pending |-> signals.pending \union {s}, made |-> signals.made + 1]
           /\ UNCHANGED <<inp, outp, client, server, setup, sent, given, before>>
    BY <1>7 DEF RequestStop
  <2> QED BY <1>1, <2>1 DEF WorldGoes
<1> QED BY <1>2, <1>3, <1>4, <1>5, <1>6, <1>7 DEF WorldStep

\* Any step of the environment.
EnvGoes ==
    /\ UNCHANGED <<rec, main, pump, summary>>
    /\ \/ \E piece, c : ClientSendsAs(piece, c)
       \/ \E piece, s, m : ServerSendsAs(piece, s, m)
       \/ \E s : ServerReceivesAs(s)
       \/ WorldGoes

LEMMA EnvStepGoes ==
    ASSUME Typed, Flows, InTurn, EnvStep
    PROVE  EnvGoes
<1>1. UNCHANGED <<rec, main, pump, summary>>
  BY DEF EnvStep
<1>2. ClientSends \/ ServerSends \/ ServerReceives \/ WorldStep
  BY DEF EnvStep, WorldStep
<1> QED BY <1>1, <1>2, ClientSendsAlike, ServerSendsAlike, ServerReceivesAlike, WorldStepGoes
        DEF EnvGoes

LEMMA EmitTypes ==
    ASSUME Typed, NEW d \in Directions, NEW x \in Piece, Emits(d, x), Len(inp[d]) < setup.room
    PROVE  /\ inp' \in [Directions -> Seq(Piece)] /\ sent' \in [Directions -> Seq(Messages)]
           /\ inp'[d] = Append(inp[d], x) /\ sent'[d] = Longer(sent[d], x)
           /\ \A o \in Directions : o # d => inp'[o] = inp[o] /\ sent'[o] = sent[o]
           /\ \A o \in Directions : Len(inp'[o]) <= setup.room
<1>1. /\ inp \in [Directions -> Seq(Piece)] /\ sent \in [Directions -> Seq(Messages)]
      /\ inp[d] \in Seq(Piece) /\ sent[d] \in Seq(Messages) /\ setup.room \in Nat
  BY TypedPump DEF Typed
<1> DEFINE y == Append(inp[d], x)
           t == Longer(sent[d], x)
<1>2. inp' = [inp EXCEPT ![d] = y] /\ sent' = [sent EXCEPT ![d] = t]
  BY DEF Emits, Longer
<1>3. y \in Seq(Piece) /\ Len(y) = Len(inp[d]) + 1 /\ t \in Seq(Messages)
  BY <1>1, AppendProperties, LongerType
<1>4. Len(y) <= setup.room
  <2> DEFINE n == Len(inp[d])
  <2>1. n \in Nat /\ n < setup.room /\ Len(y) = n + 1
    BY <1>1, <1>3, LenProperties
  <2> HIDE DEF n, y
  <2> QED BY <1>1, <2>1
<1> HIDE DEF y, t
<1>5. \A o \in Directions : Len(inp[o]) <= setup.room
  BY DEF Typed
<1>6. /\ inp' \in [Directions -> Seq(Piece)] /\ sent' \in [Directions -> Seq(Messages)]
      /\ inp'[d] = y /\ sent'[d] = t
      /\ \A o \in Directions : o # d => inp'[o] = inp[o] /\ sent'[o] = sent[o]
  BY <1>1, <1>2, <1>3
<1>7. \A o \in Directions : Len(inp'[o]) <= setup.room
  BY <1>4, <1>5, <1>6
<1> QED BY <1>6, <1>7 DEF y, t

LEMMA BeginsTypes ==
    ASSUME Typed, NEW d \in Directions, NEW m \in Messages, Begins(d, m)
    PROVE  /\ before' \subseteq Messages \X Messages
           /\ \A pair \in before' :
                 \/ pair \in before
                 \/ /\ pair[2] = m
                    /\ \E o \in Directions : \E k \in 1 .. Len(given[o]) : given[o][k] = pair[1]
<1> DEFINE o == Opposite(d)
<1>1. o \in Directions /\ given[o] \in Seq(Messages) /\ before \subseteq Messages \X Messages
  <2>1. o \in Directions
    BY DEF Opposite, Directions, C2S, S2C
  <2> QED BY <2>1 DEF Typed
<1>2. before' = before \union {<<a, m>> : a \in ToSet(given[o])}
  BY DEF Begins
<1>3. \A a \in ToSet(given[o]) : a \in Messages /\ \E k \in 1 .. Len(given[o]) : given[o][k] = a
  BY <1>1 DEF ToSet
<1> HIDE DEF o
<1> QED BY <1>1, <1>2, <1>3

LEMMA EnvKeepsTypes ==
    ASSUME Typed, EnvGoes
    PROVE  Typed'
<1>0. C2S \in Directions /\ S2C \in Directions
  BY DEF C2S, S2C, Directions
<1>1. UNCHANGED <<rec, main, pump>>
  BY DEF EnvGoes
<1>2. CASE \E piece, c : ClientSendsAs(piece, c)
  <2>1. PICK piece, c : ClientSendsAs(piece, c)
    BY <1>2
  <2>2. /\ inp' \in [Directions -> Seq(Piece)] /\ sent' \in [Directions -> Seq(Messages)]
        /\ \A o \in Directions : Len(inp'[o]) <= setup.room
    BY <1>0, <2>1, EmitTypes DEF ClientSendsAs
  <2>3. before' \subseteq Messages \X Messages
    <3>1. CASE UNCHANGED before
      BY <3>1 DEF Typed
    <3>2. CASE client.begun < setup.requests /\ Begins(C2S, <<"request", client.begun + 1>>)
      <4>1. client.begun + 1 \in 1 .. Requests
        BY <1>0, <3>2, TypedPump DEF Typed, Clients
      <4>2. <<"request", client.begun + 1>> \in Messages
        BY <4>1 DEF Messages
      <4> QED BY <1>0, <3>2, <4>2, BeginsTypes
    <3> QED BY <2>1, <3>1, <3>2 DEF ClientSendsAs
  <2>4. client' \in Clients /\ UNCHANGED <<outp, server, setup, signals, given>>
    BY <2>1 DEF ClientSendsAs
  <2> QED BY <1>1, <2>2, <2>3, <2>4 DEF Typed
<1>3. CASE \E piece, s, m : ServerSendsAs(piece, s, m)
  <2>1. PICK piece, s, m : ServerSendsAs(piece, s, m)
    BY <1>3
  <2>2. /\ inp' \in [Directions -> Seq(Piece)] /\ sent' \in [Directions -> Seq(Messages)]
        /\ \A o \in Directions : Len(inp'[o]) <= setup.room
    <3>1. CASE UNCHANGED <<inp, sent>>
      BY <3>1 DEF Typed
    <3>2. CASE Len(inp[S2C]) < setup.room /\ Emits(S2C, piece)
      BY <1>0, <2>1, <3>2, EmitTypes DEF ServerSendsAs
    <3> QED BY <2>1, <3>1, <3>2 DEF ServerSendsAs, ServerGives
  <2>3. before' \subseteq Messages \X Messages
    <3>1. CASE UNCHANGED before
      BY <3>1 DEF Typed
    <3>2. CASE m \in Messages /\ Begins(S2C, m)
      BY <1>0, <3>2, BeginsTypes
    <3> QED BY <2>1, <3>1, <3>2 DEF ServerSendsAs
  <2>4. /\ server' \in Servers /\ server'.alive = server.alive /\ server'.told = server.told
        /\ UNCHANGED <<outp, client, setup, signals, given>>
    BY <2>1 DEF ServerSendsAs
  <2> QED BY <1>1, <2>2, <2>3, <2>4 DEF Typed
<1>4. CASE \E s : ServerReceivesAs(s)
  <2>1. PICK s : ServerReceivesAs(s)
    BY <1>4
  <2>2. /\ server' \in Servers /\ server'.alive = server.alive /\ server'.told = server.told
        /\ UNCHANGED <<inp, client, setup, signals, sent, given, before>>
        /\ outp[C2S] # <<>> /\ outp' = [outp EXCEPT ![C2S] = Tail(outp[C2S])]
    BY <2>1 DEF ServerReceivesAs
  <2>3. outp[C2S] \in Seq(Piece) /\ Len(outp[C2S]) <= setup.room /\ setup.room \in Nat
        /\ outp \in [Directions -> Seq(Piece)]
    BY <1>0, TypedPump DEF Typed
  <2>4. Tail(outp[C2S]) \in Seq(Piece) /\ Len(Tail(outp[C2S])) <= setup.room
    <3> DEFINE n == Len(outp[C2S])
               z == Tail(outp[C2S])
    <3>1. n \in Nat /\ n <= setup.room /\ Len(z) = n - 1 /\ z \in Seq(Piece)
      BY <2>2, <2>3, LenProperties, HeadTailProperties
    <3> HIDE DEF n, z
    <3>2. Len(z) <= setup.room
      BY <2>3, <3>1
    <3> QED BY <3>1, <3>2 DEF z
  <2>5. /\ outp' \in [Directions -> Seq(Piece)]
        /\ \A o \in Directions : Len(outp'[o]) <= setup.room
    BY <2>2, <2>3, <2>4 DEF Typed
  <2> QED BY <1>1, <2>2, <2>5 DEF Typed
<1>5. CASE WorldGoes
  <2>1. \A o \in Directions : Len(outp'[o]) <= setup.room
    BY <1>5 DEF WorldGoes, Typed, Directions, C2S, S2C
  <2>2. /\ server'.alive \subseteq setup.procs /\ server'.told \subseteq setup.group
    BY <1>5 DEF WorldGoes, Typed
  <2> QED BY <1>1, <1>5, <2>1, <2>2 DEF WorldGoes, Typed
<1> QED BY <1>2, <1>3, <1>4, <1>5 DEF EnvGoes

-----------------------------------------------------------------------------
(* Where the tasks are, under each step.                                       *)

\* What a step of pump d says of its state, its end and the trace.
PumpTurns(d, q) ==
    /\ Becomes(d, q) /\ pump[d].state = "running"
    /\ UNCHANGED <<main, summary, client, server, setup>>
    /\ q.aborting = pump[d].aborting
    /\ \/ q.state = "running"
       \/ q.state = "failed" /\ ReadersGone(d)
       \/ q.state = "done" /\ q.eof
       \/ q.state = "aborted" /\ pump[d].aborting
    /\ q.eof => WritersGone(d) /\ inp'[d] = <<>> /\ q.chunk = <<>>
    /\ \A o \in Directions : o # d => inp'[o] = inp[o]
    /\ \/ rec' = rec
       \/ \E e \in Events : e.body = "message" /\ Recorded(rec, rec', e)

LEMMA PumpTurned ==
    ASSUME Typed, PumpsAgree, NEW d \in Directions, NEW q, PumpGoes(d, q)
    PROVE  PumpTurns(d, q)
<1> DEFINE p == pump[d]
<1>1. /\ Becomes(d, q) /\ p.state = "running"
      /\ UNCHANGED <<main, summary, client, server, setup>>
      /\ inp \in [Directions -> Seq(Piece)]
      /\ p.eof => WritersGone(d) /\ inp[d] = <<>> /\ p.chunk = <<>>
  BY DEF PumpGoes, PumpRuns, PumpsAgree, Typed
<1>2. CASE \E n : ReadsAs(d, q, n)
  <2>1. PICK n : ReadsAs(d, q, n)
    BY <1>2
  <2>2. /\ q.state = "running" /\ q.aborting = p.aborting /\ ~q.eof /\ rec' = rec
        /\ inp' = [inp EXCEPT ![d] = SubSeq(inp[d], n + 1, Len(inp[d]))]
    BY <1>1, <2>1 DEF ReadsAs, SameControl
  <2> QED BY <1>1, <2>2 DEF PumpTurns
<1>3. CASE \E m, b : RecordsAs(d, q, m, b)
  <2>1. PICK m, b : RecordsAs(d, q, m, b)
    BY <1>3
  <2>2. /\ q.state = "running" /\ q.aborting = p.aborting /\ q.eof = p.eof
        /\ q.chunk = p.chunk /\ inp' = inp
    BY <1>1, <2>1 DEF RecordsAs, SameControl
  <2>3. \/ rec' = rec
        \/ \E e \in Events : e.body = "message" /\ Recorded(rec, rec', e)
    <3>1. m \in Messages /\ b \in BOOLEAN /\ Taken(d, m, b)
      BY <2>1 DEF RecordsAs
    <3> DEFINE e == MessageEvent(d, [msg |-> m, full |-> b])
    <3>2. e \in Events /\ e.body = "message"
      BY <3>1, EventTypes
    <3> QED BY <3>1, <3>2 DEF Taken
  <2> QED BY <1>1, <2>2, <2>3 DEF PumpTurns
<1>4. CASE ReadsEndAs(d, q)
  BY <1>1, <1>4 DEF ReadsEndAs, PumpTurns
<1>5. CASE WritesAs(d, q)
  BY <1>1, <1>5 DEF WritesAs, SameControl, PumpTurns
<1>6. CASE StopsAs(d, q)
  BY <1>1, <1>6 DEF StopsAs, PumpTurns
<1> QED BY <1>2, <1>3, <1>4, <1>5, <1>6 DEF PumpGoes

\* What a step of the environment says of the two sides.
EnvTurns ==
    /\ UNCHANGED <<rec, main, pump, summary, setup>>
    /\ server'.told = server.told /\ server'.alive \subseteq server.alive
    /\ client.closed => client'.closed
    /\ client.state = "gone" => client'.state = "gone"
    /\ inp'[C2S] = inp[C2S] \/ ~client.closed
    /\ inp'[S2C] = inp[S2C] \/ Holders # {}

LEMMA EnvTurned ==
    ASSUME Typed, EnvGoes
    PROVE  EnvTurns
<1>0. C2S \in Directions /\ S2C \in Directions /\ C2S # S2C
  BY DEF C2S, S2C, Directions
<1>1. CASE \E piece, c : ClientSendsAs(piece, c)
  <2>1. PICK piece, c : ClientSendsAs(piece, c)
    BY <1>1
  <2>2. inp'[S2C] = inp[S2C]
    BY <1>0, <2>1, EmitTypes DEF ClientSendsAs
  <2> QED BY <2>1, <2>2 DEF EnvGoes, EnvTurns, ClientSendsAs
<1>2. CASE \E piece, s, m : ServerSendsAs(piece, s, m)
  <2>1. PICK piece, s, m : ServerSendsAs(piece, s, m)
    BY <1>2
  <2>2. inp'[C2S] = inp[C2S]
    <3>1. CASE UNCHANGED <<inp, sent>>
      BY <3>1
    <3>2. CASE Len(inp[S2C]) < setup.room /\ Emits(S2C, piece)
      BY <1>0, <2>1, <3>2, EmitTypes DEF ServerSendsAs
    <3> QED BY <2>1, <3>1, <3>2 DEF ServerSendsAs, ServerGives
  <2> QED BY <2>1, <2>2 DEF EnvGoes, EnvTurns, ServerSendsAs
<1>3. CASE \E s : ServerReceivesAs(s)
  BY <1>3 DEF EnvGoes, EnvTurns, ServerReceivesAs
<1>4. CASE WorldGoes
  BY <1>4 DEF EnvGoes, EnvTurns, WorldGoes
<1> QED BY <1>1, <1>2, <1>3, <1>4 DEF EnvGoes

\* Nobody comes back to a pipe that everybody left.
LEMMA GoneStays ==
    ASSUME server'.alive \subseteq server.alive, setup' = setup,
           client.closed => client'.closed, NEW d \in Directions, WritersGone(d)
    PROVE  WritersGone(d)'
BY DEF WritersGone, Holders

LEMMA PumpKeepsPhases ==
    ASSUME Typed, PhasesAgree, PumpsAgree, NEW d \in Directions, NEW q, PumpTurns(d, q),
           rec'.closed = rec.closed
    PROVE  PhasesAgree'
<1>1. \A o \in Directions : o = d \/ pump'[o] = pump[o]
  BY DEF PumpTurns, Becomes
<1>2. pump'[d].state # "off" /\ pump[d].state = "running" /\ UNCHANGED <<main, server>>
  BY DEF PumpTurns, Becomes
<1>3. C2S \in Directions /\ S2C \in Directions
  BY DEF C2S, S2C, Directions
<1> QED BY <1>1, <1>2, <1>3 DEF PhasesAgree, PumpRuns, Asked

LEMMA PumpKeepsPumps ==
    ASSUME Typed, PhasesAgree, PumpsAgree, NEW d \in Directions, NEW q, PumpTurns(d, q)
    PROVE  PumpsAgree'
<1>0. C2S \in Directions /\ S2C \in Directions /\ C2S # S2C
  BY DEF C2S, S2C, Directions
<1>1. \A o \in Directions : o # d => pump'[o] = pump[o] /\ inp'[o] = inp[o]
  BY DEF PumpTurns, Becomes
<1>2. pump'[d] = q /\ pump[d].state = "running" /\ q.aborting = pump[d].aborting
      /\ UNCHANGED <<main, server, client, setup>>
  BY DEF PumpTurns, Becomes
<1>3. \A o \in Directions : WritersGone(o) => WritersGone(o)'
  BY <1>2 DEF WritersGone, Holders
<1>4. ASSUME NEW o \in Directions
      PROVE  /\ pump'[o].eof => WritersGone(o)' /\ inp'[o] = <<>> /\ pump'[o].chunk = <<>>
             /\ pump'[o].state = "done" => pump'[o].eof
  <2>1. CASE o = d
    BY <1>2, <1>3, <2>1 DEF PumpTurns
  <2>2. CASE o # d
    BY <1>1, <1>3, <2>2 DEF PumpsAgree
  <2> QED BY <2>1, <2>2
<1>5. pump'[S2C].state = "failed" => client'.state = "gone"
  <2>1. CASE d = S2C
    BY <1>0, <1>2, <2>1 DEF PumpTurns, ReadersGone
  <2>2. CASE d # S2C
    BY <1>0, <1>1, <1>2, <2>2 DEF PumpsAgree
  <2> QED BY <2>1, <2>2
<1>6. /\ pump'[S2C].aborting => Asked' /\ main'.phase \in Over \union {"exited", "killed"}
      /\ pump'[S2C].state = "aborted" => pump'[S2C].aborting \/ Ended'
  <2>1. CASE d = S2C
    BY <1>0, <1>2, <2>1 DEF PumpTurns, PumpsAgree, Asked, Ended
  <2>2. CASE d # S2C
    BY <1>0, <1>1, <1>2, <2>2 DEF PumpsAgree, Asked, Ended
  <2> QED BY <2>1, <2>2
<1> QED BY <1>4, <1>5, <1>6 DEF PumpsAgree

LEMMA PumpKeepsDrain ==
    ASSUME Typed, PhasesAgree, PumpsAgree, DrainAgrees, NEW d \in Directions, NEW q,
           PumpTurns(d, q), rec'.closed = rec.closed
    PROVE  DrainAgrees'
<1>0. C2S \in Directions /\ S2C \in Directions /\ C2S # S2C
  BY DEF C2S, S2C, Directions
<1>1. \A o \in Directions : o # d => pump'[o] = pump[o]
  BY DEF PumpTurns, Becomes
<1>2. pump'[d] = q /\ pump[d].state = "running" /\ UNCHANGED <<main, server, setup>>
  BY DEF PumpTurns, Becomes
<1>3. /\ GroupGone' = GroupGone /\ Asked' = Asked /\ main'.phase = main.phase
  BY <1>2 DEF GroupGone, Asked
<1>4. CASE d = S2C
  BY <1>0, <1>2, <1>3, <1>4 DEF DrainAgrees
<1>5. CASE d # S2C
  BY <1>0, <1>1, <1>3, <1>5 DEF DrainAgrees
<1> QED BY <1>4, <1>5

LEMMA EnvKeepsControl ==
    ASSUME Typed, PhasesAgree, PumpsAgree, DrainAgrees, EnvTurns
    PROVE  PhasesAgree' /\ PumpsAgree' /\ DrainAgrees'
<1>0. \A d \in Directions : d = C2S \/ d = S2C
  BY DEF C2S, S2C, Directions
<1>1. UNCHANGED <<rec, main, pump, setup>> /\ server'.told = server.told
      /\ server'.alive \subseteq server.alive
  BY DEF EnvTurns
<1>2. PhasesAgree'
  BY <1>1 DEF PhasesAgree, PumpRuns, Asked
<1>3. \A d \in Directions : WritersGone(d) => WritersGone(d)' /\ inp'[d] = inp[d]
  BY <1>0 DEF EnvTurns, WritersGone, Holders
<1>4. PumpsAgree'
  BY <1>1, <1>3 DEF PumpsAgree, EnvTurns, Asked, Ended
<1>5. DrainAgrees'
  BY <1>1 DEF DrainAgrees, GroupGone, Asked
<1> QED BY <1>2, <1>4, <1>5

-----------------------------------------------------------------------------
(* Where the main task goes, action by action.                                 *)

\* The main task is in phase ph, and knows what it knew.
To(ph) ==
    /\ main'.phase = ph /\ main'.stop = main.stop
    /\ main'.clientClosed = main.clientClosed /\ main'.clientFinished = main.clientFinished

SameStates == \A d \in Directions : pump'[d].state = pump[d].state

\* What each action says of the phase, the pumps' states and the processes.
OpenTraceTurns ==
    /\ main.phase = "starting" /\ To("session") /\ server' = server
    /\ \A d \in Directions : pump'[d].state = "running" /\ pump'[d].aborting = pump[d].aborting

OpenFailsTurns ==
    /\ main.phase = "starting" /\ To("exited") /\ server' = AfterKill
    /\ UNCHANGED <<pump, rec, summary>>

RelayEndsTurns ==
    /\ main.phase = "session" /\ ~PumpRuns(C2S)
    /\ main'.phase = "clientDone" /\ main'.stop = main.stop /\ main'.clientFinished
    /\ main'.clientClosed = ClosedByClient
    /\ UNCHANGED <<pump, server, rec, summary>>

\* On the way to the drain, with the client's relay over.
Drains == {"draining", "drainKill", "drainStop"}

JoinTurns ==
    \/ /\ main.phase \in {"session", "clientDone", "stopping", "reaping"}
       /\ ~main.clientFinished /\ To("joining")
    \/ /\ \/ main.phase \in {"session", "clientDone", "stopping", "reaping"} /\ main.clientFinished
          \/ main.phase = "joining" /\ ~PumpRuns(C2S)
       /\ \E ph \in Drains : To(ph) /\ (ph = "draining" <=> ~Asked)

ExitSeenTurns ==
    /\ JoinTurns /\ pump'[S2C] = pump[S2C] /\ SameStates
    /\ UNCHANGED <<server, rec, summary>>

StopTurns ==
    /\ main.phase \in {"session", "clientDone", "draining"}
    /\ main'.phase = (IF main.phase = "draining" THEN "lateRelay" ELSE "relaying")
    /\ main'.stop # "none"
    /\ main'.clientClosed = main.clientClosed /\ main'.clientFinished = main.clientFinished
    /\ UNCHANGED <<pump, server, summary>>

RelayTurns ==
    /\ main.phase \in {"relaying", "lateRelay"}
    /\ To(IF main.phase = "relaying" THEN "stopping" ELSE "drainStop")
    /\ server'.alive = server.alive
    /\ UNCHANGED <<pump, rec, summary>>

KillTurns ==
    /\ \/ main.phase = "stopping" /\ To("reaping")
       \/ main.phase \in {"drainKill", "drainStop"} /\ To("afterKill")
    /\ server' = AfterKill
    /\ UNCHANGED <<pump, rec, summary>>

OverTurns ==
    /\ To("closing") /\ UNCHANGED <<server, rec, summary>> /\ pump'[C2S] = pump[C2S]
    /\ \/ main.phase \in {"draining", "drainStop", "afterKill"} /\ ~PumpRuns(S2C)
          /\ pump'[S2C] = pump[S2C]
       \/ main.phase = "afterKill" /\ pump'[S2C].state = pump[S2C].state

CloseTurns ==
    main.phase = "closing" /\ To("finishing") /\ UNCHANGED <<pump, server, summary>>

FinishTurns ==
    main.phase = "finishing" /\ To("finished") /\ UNCHANGED <<pump, server>>

\* The wrapper exits, or is killed.
GoneTurns ==
    /\ \/ main.phase = "finished" /\ To("exited")
       \/ ~Ended /\ To("killed")
    /\ UNCHANGED <<server, summary>>
    /\ \A d \in Directions :
          /\ pump'[d].aborting = pump[d].aborting
          /\ pump'[d].state = IF pump[d].state \in {"off", "running"} THEN "aborted"
                              ELSE pump[d].state

LEMMA MainTurns ==
    ASSUME Typed
    PROVE  /\ OpenTrace => OpenTraceTurns
           /\ OpenFails => OpenFailsTurns
           /\ ClientRelayEnds => RelayEndsTurns
           /\ ServerExitSeen \/ ClientJoined => ExitSeenTurns
           /\ BeginStop => StopTurns
           /\ RelayStop => RelayTurns
           /\ StopKills \/ DrainKills => KillTurns
           /\ RelayEnds \/ AbandonRelay => OverTurns
           /\ CloseSession => CloseTurns
           /\ FinishSession => FinishTurns
           /\ Exit \/ Kill => GoneTurns
<1>1. /\ main \in Mains /\ pump \in [Directions -> Pumps] /\ C2S \in Directions
      /\ S2C \in Directions /\ C2S # S2C
      /\ server \in Servers
  BY DEF Typed, C2S, S2C, Directions
<1>2. ASSUME OpenTrace PROVE OpenTraceTurns
  BY <1>1, <1>2 DEF OpenTrace, OpenTraceTurns, SetMain, To, Mains, Pumps, env
<1>3. ASSUME OpenFails PROVE OpenFailsTurns
  BY <1>1, <1>3 DEF OpenFails, OpenFailsTurns, SetMain, To, Mains
<1>4. ASSUME ClientRelayEnds PROVE RelayEndsTurns
  BY <1>1, <1>4 DEF ClientRelayEnds, RelayEndsTurns, SetMain, Mains, env
<1>5. /\ DrainPhase(main) \in Drains
      /\ DrainPhase(main) = "draining" <=> ~Asked
  BY DEF DrainPhase, Drains, Asked
<1>6. ASSUME ServerExitSeen \/ ClientJoined PROVE ExitSeenTurns
  <2>1. JoinTurns
    <3>1. To(DrainPhase(main)) \/ (To("joining") /\ ~main.clientFinished /\ ~ClientJoined)
      BY <1>1, <1>6 DEF ServerExitSeen, ClientJoined, ThenJoin, SetMain, To, Mains
    <3>2. \/ main.phase \in {"session", "clientDone", "stopping", "reaping"}
          \/ main.phase = "joining" /\ ~PumpRuns(C2S) /\ ClientJoined
      BY <1>6 DEF ServerExitSeen, ClientJoined
    <3>3. To(DrainPhase(main)) /\ ServerExitSeen => main.clientFinished
      BY <1>1 DEF ServerExitSeen, ThenJoin, SetMain, To, Mains, DrainPhase
    <3>4. ClientJoined => main.phase = "joining"
      BY DEF ClientJoined
    <3> QED BY <1>5, <1>6, <3>1, <3>2, <3>3, <3>4 DEF JoinTurns
  <2>2. pump' = pump \/ pump' = [pump EXCEPT ![C2S] = [pump[C2S] EXCEPT !.aborting = TRUE]]
    BY <1>6 DEF ServerExitSeen, ClientJoined, Abort
  <2>3. pump'[S2C] = pump[S2C] /\ SameStates
    <3> DEFINE q == [pump[C2S] EXCEPT !.aborting = TRUE]
    <3>1. q.state = pump[C2S].state
      <4>1. pump[C2S] \in Pumps
        BY <1>1
      <4> QED BY <4>1 DEF Pumps
    <3>2. pump' = pump \/ pump' = [pump EXCEPT ![C2S] = q]
      BY <2>2
    <3> HIDE DEF q
    <3> QED BY <1>1, <3>1, <3>2 DEF SameStates
  <2> QED BY <1>6, <2>1, <2>3 DEF ExitSeenTurns, ServerExitSeen, ClientJoined, env
<1>7. ASSUME BeginStop PROVE StopTurns
  <2>1. PICK s \in signals.pending :
           main' = [main EXCEPT !.stop = s,
                       !.phase = IF @ = "draining" THEN "lateRelay" ELSE "relaying"]
    BY <1>7 DEF BeginStop, SetMain
  <2>2. s # "none"
    BY StdioAssumption DEF Typed
  <2> QED BY <1>1, <1>7, <2>1, <2>2 DEF BeginStop, StopTurns, Mains
<1>8. ASSUME RelayStop PROVE RelayTurns
  <2>1. server'.alive = server.alive
    BY <1>1, <1>8 DEF RelayStop, Servers
  <2> QED BY <1>1, <1>8, <2>1 DEF RelayStop, RelayTurns, SetMain, To, Mains
<1>9. ASSUME StopKills \/ DrainKills PROVE KillTurns
  BY <1>1, <1>9 DEF StopKills, DrainKills, DrainEnds, DrainVictims, KillTurns, SetMain, To, Mains
<1>10. ASSUME RelayEnds \/ AbandonRelay PROVE OverTurns
  <2>1. CASE RelayEnds
    BY <1>1, <2>1 DEF RelayEnds, OverTurns, SetMain, To, Mains, env
  <2>2. CASE AbandonRelay
    BY <1>1, <2>2 DEF AbandonRelay, Abort, OverTurns, SetMain, To, Mains, Pumps, env
  <2> QED BY <1>10, <2>1, <2>2
<1>11. ASSUME CloseSession PROVE CloseTurns
  BY <1>1, <1>11 DEF CloseSession, CloseTurns, SetMain, To, Mains, env
<1>12. ASSUME FinishSession PROVE FinishTurns
  BY <1>1, <1>12 DEF FinishSession, FinishTurns, SetMain, To, Mains, env
<1>13. ASSUME Exit \/ Kill PROVE GoneTurns
  <2>1. /\ UNCHANGED <<server, summary>> /\ pump' = [d \in Directions |-> TasksGone(d)]
        /\ \/ main.phase = "finished" /\ main' = [main EXCEPT !.phase = "exited"]
           \/ ~Ended /\ main' = [main EXCEPT !.phase = "killed"]
    BY <1>13 DEF Exit, Kill, SetMain, env
  <2>2. \A d \in Directions :
          /\ pump'[d].aborting = pump[d].aborting
          /\ pump'[d].state = IF pump[d].state \in {"off", "running"} THEN "aborted"
                              ELSE pump[d].state
    BY <1>1, <2>1 DEF TasksGone, Pumps
  <2> QED BY <1>1, <2>1, <2>2 DEF GoneTurns, To, Mains
<1> QED BY <1>2, <1>3, <1>4, <1>6, <1>7, <1>8, <1>9, <1>10, <1>11, <1>12, <1>13

Turns ==
    \/ OpenTraceTurns \/ OpenFailsTurns \/ RelayEndsTurns \/ ExitSeenTurns \/ StopTurns
    \/ RelayTurns \/ KillTurns \/ OverTurns \/ CloseTurns \/ FinishTurns \/ GoneTurns

LEMMA MainStepTurns ==
    ASSUME Typed, MainStep \/ Kill
    PROVE  Turns
BY MainTurns DEF MainStep, Turns


-----------------------------------------------------------------------------
(* What the turns of the main task keep.                                       *)

\* What MainGoes says of the pumps and of what they wait for.
Calm ==
    /\ UNCHANGED <<inp, client, setup>>
    /\ server'.alive \subseteq server.alive
    /\ \A d \in Directions : /\ pump'[d].eof = pump[d].eof
                             /\ pump'[d].chunk = pump[d].chunk \/ pump'[d].chunk = <<>>

LEMMA MainCalm == ASSUME MainGoes PROVE Calm
BY DEF MainGoes, Leaves, Calm

LEMMA TurnsKeepPhases ==
    ASSUME Typed, PhasesAgree, PumpsAgree, Turns
    PROVE  PhasesAgree'
<1>0. /\ C2S \in Directions /\ S2C \in Directions /\ \A d \in Directions : d = C2S \/ d = S2C
      /\ main.stop \in Stops \union {"none"}
      /\ main.clientClosed \in BOOLEAN /\ main.clientFinished \in BOOLEAN
  BY DEF C2S, S2C, Directions, Typed, Mains
<1>1. CASE OpenTraceTurns
  BY <1>0, <1>1 DEF OpenTraceTurns, To, PhasesAgree, PumpRuns, Asked, Joined
<1>2. CASE OpenFailsTurns
  <2>1. server'.told = server.told
    BY <1>2, KillLeaves DEF OpenFailsTurns
  <2> QED BY <1>0, <1>2, <2>1 DEF OpenFailsTurns, To, PhasesAgree, PumpRuns, Asked, Joined
<1>3. CASE RelayEndsTurns
  BY <1>0, <1>3 DEF RelayEndsTurns, PhasesAgree, PumpRuns, Asked, Joined, ClosedByClient
<1>4. CASE ExitSeenTurns
  BY <1>0, <1>4 DEF ExitSeenTurns, JoinTurns, Drains, SameStates, To, PhasesAgree, PumpRuns, Asked, Joined
<1>5. CASE StopTurns
  BY <1>0, <1>5 DEF StopTurns, PhasesAgree, PumpRuns, Asked, Joined
<1>6. CASE RelayTurns
  BY <1>0, <1>6 DEF RelayTurns, To, PhasesAgree, PumpRuns, Asked, Joined
<1>7. CASE KillTurns
  <2>1. server'.told = server.told
    BY <1>7, KillLeaves DEF KillTurns
  <2> QED BY <1>0, <1>7, <2>1 DEF KillTurns, To, PhasesAgree, PumpRuns, Asked, Joined
<1>8. CASE OverTurns
  <2>1. \A d \in Directions : pump'[d].state = pump[d].state
    BY <1>0, <1>8 DEF OverTurns
  <2> QED BY <1>0, <1>8, <2>1 DEF OverTurns, To, PhasesAgree, PumpRuns, Asked, Joined
<1>9. CASE CloseTurns \/ FinishTurns
  BY <1>0, <1>9 DEF CloseTurns, FinishTurns, To, PhasesAgree, PumpRuns, Asked, Joined
<1>10. CASE GoneTurns
  BY <1>0, <1>10 DEF GoneTurns, To, PhasesAgree, PumpRuns, Asked, Joined, Ended
<1> QED BY <1>1, <1>2, <1>3, <1>4, <1>5, <1>6, <1>7, <1>8, <1>9, <1>10 DEF Turns

\* What a turn leaves of the output relay's state.
S2CTurns ==
    LET q == pump'[S2C] p == pump[S2C]
    IN  \/ q.state = p.state /\ q.aborting = p.aborting
        \/ p.state = "off" /\ q.state = "running" /\ q.aborting = p.aborting
        \/ main'.phase = "closing" /\ main.phase = "afterKill" /\ q.state = p.state
        \/ Ended' /\ p.state \in {"off", "running"} /\ q.state = "aborted"

LEMMA TurnsOfS2C == ASSUME Typed, PhasesAgree, Turns PROVE S2CTurns
<1>0. S2C \in Directions /\ (main.phase = "starting" => pump[S2C].state = "off")
  BY DEF C2S, S2C, Directions, PhasesAgree
<1> QED BY <1>0 DEF Turns, S2CTurns, OpenTraceTurns, OpenFailsTurns, RelayEndsTurns, ExitSeenTurns,
     StopTurns, RelayTurns, KillTurns, OverTurns, CloseTurns, FinishTurns, GoneTurns, To, Ended

\* An end of the wrapper stays one, and a request to stop is not forgotten.
Onward ==
    /\ Asked => Asked'
    /\ main.phase \in Over \union {"exited", "killed"} =>
          main'.phase \in Over \union {"exited", "killed"}
    /\ Ended => Ended'

LEMMA TurnsOnward == ASSUME Typed, PhasesAgree, Turns PROVE Onward
<1>1. Asked => Asked'
  BY StdioAssumption DEF Turns, Asked, To, OpenTraceTurns, OpenFailsTurns, RelayEndsTurns,
     ExitSeenTurns, JoinTurns, StopTurns, RelayTurns, KillTurns, OverTurns, CloseTurns, FinishTurns, GoneTurns
<1>2. /\ main.phase \in Over \union {"exited", "killed"} =>
            main'.phase \in Over \union {"exited", "killed"}
      /\ Ended => Ended'
  BY DEF Turns, Over, Ended, To, OpenTraceTurns, OpenFailsTurns, RelayEndsTurns,
     ExitSeenTurns, JoinTurns, Drains, StopTurns, RelayTurns, KillTurns, OverTurns, CloseTurns, FinishTurns,
     GoneTurns
<1> QED BY <1>1, <1>2 DEF Onward

LEMMA TurnsKeepPumps ==
    ASSUME Typed, PhasesAgree, PumpsAgree, Turns, Calm
    PROVE  PumpsAgree'
<1>0. C2S \in Directions /\ S2C \in Directions /\ \A d \in Directions : d = C2S \/ d = S2C
  BY DEF C2S, S2C, Directions
<1>1. \A d \in Directions : WritersGone(d) => WritersGone(d)'
  BY DEF Calm, WritersGone, Holders
<1>2. ASSUME NEW d \in Directions
      PROVE  /\ pump'[d].eof => WritersGone(d)' /\ inp'[d] = <<>> /\ pump'[d].chunk = <<>>
             /\ pump'[d].state = "done" => pump'[d].eof
  <2>1. pump'[d].eof => WritersGone(d)' /\ inp'[d] = <<>> /\ pump'[d].chunk = <<>>
    BY <1>1 DEF Calm, PumpsAgree
  <2>2. pump'[d].state = "done" => pump[d].state = "done"
    BY <1>0 DEF Turns, OpenTraceTurns, OpenFailsTurns, RelayEndsTurns, ExitSeenTurns, SameStates,
       StopTurns, RelayTurns, KillTurns, OverTurns, CloseTurns, FinishTurns, GoneTurns
  <2> QED BY <2>1, <2>2 DEF Calm, PumpsAgree
<1>3. pump'[S2C].state = "failed" => client'.state = "gone"
  BY TurnsOfS2C DEF S2CTurns, PumpsAgree, Calm
<1>4. pump'[S2C].aborting => Asked' /\ main'.phase \in Over \union {"exited", "killed"}
  <2>1. CASE pump'[S2C].aborting = pump[S2C].aborting
    BY <2>1, TurnsOnward DEF Onward, PumpsAgree
  <2>2. CASE main'.phase = "closing" /\ main.phase = "afterKill"
    <3>1. Asked
      BY <2>2 DEF PhasesAgree
    <3> QED BY <2>2, <3>1, TurnsOnward DEF Onward, Over
  <2>3. CASE Ended' /\ pump[S2C].state \in {"off", "running"} /\ pump'[S2C].state = "aborted"
             /\ pump'[S2C].aborting # pump[S2C].aborting
    <3>1. GoneTurns \/ main.phase = "starting"
      BY <2>3 DEF Turns, OpenTraceTurns, OpenFailsTurns, RelayEndsTurns, ExitSeenTurns, JoinTurns, Drains,
       StopTurns, RelayTurns, KillTurns, OverTurns, CloseTurns, FinishTurns, To, Ended
    <3>2. pump'[S2C].aborting = pump[S2C].aborting
      BY <1>0, <2>3, <3>1 DEF Turns, OpenTraceTurns, OpenFailsTurns, RelayEndsTurns, ExitSeenTurns, JoinTurns,
       StopTurns, RelayTurns, KillTurns, OverTurns, CloseTurns, FinishTurns, GoneTurns
    <3> QED BY <2>3, <3>2
  <2> QED BY <2>1, <2>2, <2>3, TurnsOfS2C DEF S2CTurns
<1>5. pump'[S2C].state = "aborted" => pump'[S2C].aborting \/ Ended'
  <2>1. CASE pump'[S2C].state = pump[S2C].state /\ pump'[S2C].aborting = pump[S2C].aborting
    BY <2>1, TurnsOnward DEF Onward, PumpsAgree
  <2>2. CASE main'.phase = "closing" /\ main.phase = "afterKill" /\ pump'[S2C].state = pump[S2C].state
    <3>1. pump[S2C].state # "aborted"
      BY <2>2 DEF PumpsAgree, Over, Ended
    <3> QED BY <2>2, <3>1
  <2> QED BY <2>1, <2>2, TurnsOfS2C DEF S2CTurns
<1> QED BY <1>2, <1>3, <1>4, <1>5 DEF PumpsAgree

\* A turn into the end of the drain, and one that is already there.
LEMMA TurnsKeepDrain ==
    ASSUME Typed, PhasesAgree, PumpsAgree, DrainAgrees, Closing, Turns, Calm,
           rec'.closed => rec.closed \/ CloseTurns \/ StopTurns
    PROVE  DrainAgrees'
<1>0. S2C \in Directions
  BY DEF S2C, Directions
<1>1. GroupGone => GroupGone'
  BY DEF Calm, GroupGone
<1>2. server' = AfterKill => GroupGone'
  <2>1. AfterKill.alive = server.alive \ (setup.group \union {"leader"})
    BY KillLeaves
  <2> QED BY <2>1 DEF Calm, GroupGone
<1>3. ASSUME main'.phase = "afterKill" PROVE GroupGone'
  <2>1. KillTurns
    BY <1>3 DEF Turns, OpenTraceTurns, OpenFailsTurns, RelayEndsTurns, ExitSeenTurns, JoinTurns,
       Drains, StopTurns, RelayTurns, OverTurns, CloseTurns, FinishTurns, GoneTurns, To
  <2> QED BY <1>2, <2>1 DEF KillTurns
<1>4. CASE OverTurns
  <2>1. /\ main'.phase = "closing" /\ Asked' = Asked /\ pump'[S2C].state = pump[S2C].state
        /\ server' = server
    BY <1>4 DEF OverTurns, To, Asked
  <2>2. ~Asked => pump[S2C].state \in {"done", "failed"}
    <3>1. SUFFICES ASSUME ~Asked PROVE pump[S2C].state \in {"done", "failed"}
      OBVIOUS
    <3>2. main.phase = "draining" /\ ~PumpRuns(S2C)
      BY <1>4, <3>1 DEF OverTurns, PhasesAgree
    <3>3. pump[S2C].state \notin {"off", "aborted", "running"}
      BY <1>0, <3>1, <3>2 DEF PhasesAgree, PumpsAgree, PumpRuns, Ended
    <3>4. pump[S2C].state \in PumpStates
      BY <1>0, TypedPump, PumpFields
    <3> QED BY <3>3, <3>4 DEF PumpStates
  <2>3. Asked /\ pump[S2C].state # "failed" => GroupGone
    <3>1. SUFFICES ASSUME Asked, pump[S2C].state # "failed" PROVE GroupGone
      OBVIOUS
    <3>2. CASE main.phase = "afterKill"
      BY <3>2 DEF DrainAgrees
    <3>3. CASE main.phase = "drainStop" /\ ~PumpRuns(S2C)
      <4>1. pump[S2C].state \notin {"off", "aborted", "running", "failed"}
        BY <1>0, <3>1, <3>3 DEF PhasesAgree, PumpsAgree, PumpRuns, Over, Ended
      <4>2. pump[S2C].state = "done"
        BY <1>0, <4>1, TypedPump, PumpFields DEF PumpStates
      <4>3. Holders = {}
        BY <1>0, <4>2 DEF PumpsAgree, WritersGone, C2S, S2C
      <4> QED BY <4>3 DEF GroupGone, Holders
    <3> QED BY <1>4, <3>1, <3>2, <3>3 DEF OverTurns, PhasesAgree
  <2> QED BY <1>1, <1>3, <2>1, <2>2, <2>3 DEF DrainAgrees
<1>5. CASE ~OverTurns /\ main'.phase \in Over
  <2>1. CloseTurns \/ FinishTurns
    BY <1>5 DEF Turns, OpenTraceTurns, OpenFailsTurns, RelayEndsTurns, ExitSeenTurns, JoinTurns,
       Drains, StopTurns, RelayTurns, KillTurns, GoneTurns, To, Over
  <2>2. main.phase \in Over /\ Asked' = Asked /\ pump' = pump
    BY <2>1 DEF CloseTurns, FinishTurns, To, Asked, Over
  <2> QED BY <1>1, <1>3, <2>2 DEF DrainAgrees
<1>6. CASE main'.phase = "exited" /\ rec'.closed
  <2>1. /\ main.phase = "finished" \/ main.phase = "starting"
        /\ rec.closed
    BY <1>6 DEF Turns, OpenTraceTurns, OpenFailsTurns, RelayEndsTurns, ExitSeenTurns, JoinTurns,
       Drains, StopTurns, RelayTurns, KillTurns, OverTurns, CloseTurns, FinishTurns, GoneTurns, To
  <2>2. main.phase = "finished" /\ GoneTurns
    <3>1. main.phase # "starting"
      BY <2>1 DEF Closing, PhasesAgree
    <3> QED BY <1>6, <2>1, <3>1 DEF Turns, OpenTraceTurns, OpenFailsTurns, RelayEndsTurns,
       ExitSeenTurns, JoinTurns,
       Drains, StopTurns, RelayTurns, KillTurns, OverTurns, CloseTurns, FinishTurns, To
  <2>3. Asked' = Asked
    BY <2>2 DEF GoneTurns, To, Asked
  <2>4. /\ ~Asked => pump[S2C].state \in {"done", "failed"}
        /\ Asked /\ pump[S2C].state # "failed" => GroupGone
    BY <2>2 DEF DrainAgrees, Over
  <2>5. pump'[S2C].state # "failed" => pump[S2C].state # "failed"
    BY <1>0, <2>2 DEF GoneTurns
  <2>6. pump[S2C].state \in {"done", "failed"} => pump'[S2C].state = pump[S2C].state
    BY <1>0, <2>2 DEF GoneTurns
  <2> QED BY <1>1, <1>3, <1>6, <2>3, <2>4, <2>5, <2>6 DEF DrainAgrees
<1> QED BY <1>3, <1>4, <1>5, <1>6 DEF DrainAgrees

-----------------------------------------------------------------------------
(* How the trace ends.                                                         *)

LEMMA TapeGrows ==
    ASSUME NEW r \in Trace, NEW t, NEW line \in Lines, t = Append(Tape(r), line)
    PROVE  /\ Len(Tape(r)) \in Nat /\ Len(t) = Len(Tape(r)) + 1 /\ Len(t) \in Nat
           /\ t[Len(t)] = line /\ Len(t) > 0
           /\ \A i \in 1 .. Len(Tape(r)) : t[i] = Tape(r)[i] /\ i \in 1 .. Len(t)
           /\ \A i \in 1 .. Len(t) : i \in 1 .. Len(Tape(r)) \/ i = Len(t)
<1> DEFINE s == Tape(r)
           n == Len(s)
<1>1. s \in Seq(Lines) /\ n \in Nat
  BY TapeType
<1> HIDE DEF s
<1>2. /\ t \in Seq(Lines) /\ Len(t) = n + 1 /\ t[n + 1] = line
      /\ \A i \in 1 .. n : t[i] = s[i]
  BY <1>1, AppendProperties DEF s
<1> HIDE DEF n
<1>3. /\ n + 1 \in Nat /\ n + 1 > 0 /\ \A i \in 1 .. n : i \in 1 .. n + 1
      /\ \A i \in 1 .. n + 1 : i \in 1 .. n \/ i = n + 1
  BY <1>1
<1> QED BY <1>1, <1>2, <1>3 DEF n, s

LEMMA CleanClosesKept ==
    ASSUME NEW r \in Trace, NEW x, NEW e, Wrote(r, x, e), NEW clean,
           IsClose(e) => clean, CleanCloses(r, clean)
    PROVE  CleanCloses(x, clean)
<1>1. CASE Tape(x) = Tape(r)
  BY <1>1 DEF CleanCloses
<1>2. CASE \E line \in Lines : line.ev = e /\ Tape(x) = Append(Tape(r), line)
  <2>1. PICK line \in Lines : line.ev = e /\ Tape(x) = Append(Tape(r), line)
    BY <1>2
  <2>2. SUFFICES ASSUME NEW i \in 1 .. Len(Tape(x)), IsClose(Tape(x)[i].ev) PROVE clean
    BY DEF CleanCloses
  <2>3. CASE i \in 1 .. Len(Tape(r))
    BY <2>1, <2>2, <2>3, TapeGrows DEF CleanCloses
  <2>4. CASE i = Len(Tape(x))
    BY <2>1, <2>2, <2>4, TapeGrows
  <2> QED BY <2>1, <2>3, <2>4, TapeGrows
<1> QED BY <1>1, <1>2 DEF Wrote

LEMMA ClosedLastMade ==
    ASSUME NEW r \in Trace, NEW x, NEW e, Wrote(r, x, e), ~r.closed, x.dropped = 0,
           e = StdioEvent(C2S, "transport-close")
    PROVE  ClosedLast(x)
<1>1. PICK line \in Lines : line.ev = e /\ Tape(x) = Append(Tape(r), line)
  BY DEF Wrote
<1> QED BY <1>1, TapeGrows DEF ClosedLast

\* A closed trace takes nothing more.
LEMMA ClosedKept ==
    ASSUME NEW r, NEW x, NEW e, Wrote(r, x, e), r.closed
    PROVE  /\ Tape(x) = Tape(r) /\ (x.dropped = 0 => r.dropped = 0)
           /\ ClosedLast(r) => ClosedLast(x)
<1>1. Tape(x) = Tape(r)
  BY DEF Wrote, Stuck
<1> QED BY <1>1 DEF Wrote, ClosedLast

LEMMA PumpKeepsClosing ==
    ASSUME Typed, PhasesAgree, PumpsAgree, Closing, NEW d \in Directions, NEW q, PumpTurns(d, q)
    PROVE  Closing'
<1>1. /\ UNCHANGED <<main, summary>> /\ rec \in Trace /\ pump[d].state = "running"
      /\ \A o \in Directions : o # d => pump'[o] = pump[o]
      /\ C2S \in Directions /\ S2C \in Directions
  BY DEF PumpTurns, Becomes, Typed, C2S, S2C, Directions
<1>2. ~(rec.closed /\ ~Asked)
  BY <1>1 DEF Closing, PumpRuns
<1>3. CASE rec' = rec
  BY <1>1, <1>2, <1>3 DEF Closing, Asked, Finished
<1>4. CASE \E e \in Events : e.body = "message" /\ Recorded(rec, rec', e)
  <2>1. PICK e \in Events : e.body = "message" /\ Recorded(rec, rec', e)
    BY <1>4
  <2>2. Wrote(rec, rec', e) /\ rec'.closed = rec.closed
        /\ (rec.closed => rec'.failed = rec.failed)
    BY <2>1 DEF Recorded
  <2>3. /\ Held(rec) => Held(rec') /\ (rec.dropped # 0 => rec'.dropped # 0)
        /\ rec.failed => rec'.failed
        /\ rec'.dropped # rec.dropped => rec'.failed
        /\ ~rec.closed => rec'.afterClose = rec.afterClose
    BY <2>2 DEF Wrote
  <2>4. Held(rec') /\ (rec'.dropped # 0 => rec'.failed \/ (rec'.closed /\ summary'.error))
    BY <1>1, <2>2, <2>3 DEF Closing
  <2>5. Finished => rec.closed
    BY DEF Finished, Closing
  <2>6. Finished' => ~rec'.failed
    BY <1>1, <2>2, <2>5 DEF Closing, Finished
  <2>7. Asked' /\ rec'.dropped = 0 => ClosedLast(rec')
    BY <1>1, <2>2, ClosedKept DEF Closing, Asked
  <2>8. ~Asked' => CleanCloses(rec', main'.clientClosed)
    <3>1. ~IsClose(e)
      BY <2>1 DEF IsClose
    <3> QED BY <1>1, <2>2, <3>1, CleanClosesKept DEF Closing, Asked
  <2> QED BY <1>1, <1>2, <2>2, <2>3, <2>4, <2>6, <2>7, <2>8 DEF Closing, Asked
<1> QED BY <1>3, <1>4 DEF PumpTurns

LEMMA EnvKeepsClosing ==
    ASSUME Closing, EnvTurns
    PROVE  Closing'
BY DEF EnvTurns, Closing, Asked, Finished, PumpRuns

\* The pumps do not start again.
LEMMA NoneStarts ==
    ASSUME Typed, PhasesAgree, Turns, main.phase # "starting"
    PROVE  \A d \in Directions : PumpRuns(d)' => PumpRuns(d)
<1>1. \A d \in Directions : d = C2S \/ d = S2C
  BY DEF Directions, C2S, S2C
<1> QED BY <1>1 DEF Turns, PumpRuns, OpenTraceTurns, OpenFailsTurns, RelayEndsTurns, ExitSeenTurns,
     SameStates, StopTurns, RelayTurns, KillTurns, OverTurns, CloseTurns, FinishTurns, GoneTurns

LEMMA MainKeepsClosing ==
    ASSUME Typed, PhasesAgree, PumpsAgree, DrainAgrees, Closing, MainStep \/ Kill
    PROVE  Closing'
<1>0. /\ rec \in Trace /\ main \in Mains
      /\ C2S \in Directions /\ S2C \in Directions /\ \A d \in Directions : d = C2S \/ d = S2C
      /\ Held(rec) /\ (rec.dropped # 0 => rec.failed \/ (rec.closed /\ summary.error))
  BY DEF Typed, C2S, S2C, Directions, Closing
<1>s. Turns
  BY MainStepTurns
<1>1. CASE OpenTrace
  <2> DEFINE e == StdioEvent(C2S, "transport-open")
  <2>1. Recorded(rec, rec', e) /\ OpenTraceTurns
    BY <1>1, MainRecords, MainTurns DEF OpenTraceRecords
  <2>2. ~IsClose(e)
    BY EventTypes DEF IsClose, StdioEvent
  <2> HIDE DEF e
  <2>3. /\ main.phase = "starting" /\ ~Asked /\ ~rec.closed
        /\ main'.phase = "session" /\ ~Asked' /\ main'.clientClosed = main.clientClosed
        /\ summary' = summary
    BY <1>1, <2>1 DEF OpenTraceTurns, To, Asked, PhasesAgree, Closing, OpenTrace
  <2>4. /\ Wrote(rec, rec', e) /\ ~rec'.closed /\ Held(rec') /\ rec'.afterClose = rec.afterClose
        /\ rec'.dropped # 0 => rec'.failed
    BY <1>0, <2>1, <2>3 DEF Recorded, Wrote
  <2>5. CleanCloses(rec', main'.clientClosed)
    BY <1>0, <2>2, <2>3, <2>4, CleanClosesKept DEF Closing
  <2> QED BY <2>3, <2>4, <2>5 DEF Closing, Finished
<1>2. CASE BeginStop
  <2> DEFINE e == StdioEvent(C2S, "transport-close")
  <2>1. Closed(rec, rec', e) /\ StopTurns
    BY <1>2, MainRecords, MainTurns DEF BeginStopCloses
  <2> HIDE DEF e
  <2>2. ~rec.closed /\ Asked' /\ main'.phase \in {"relaying", "lateRelay"}
        /\ UNCHANGED summary /\ ~summary.error
    BY <2>1 DEF StopTurns, PhasesAgree, Closing, Asked
  <2>3. Wrote(rec, rec', e) /\ rec'.closed
    BY <2>1, <2>2 DEF Closed
  <2>4. Held(rec') /\ (rec'.dropped # 0 => rec'.failed)
    BY <1>0, <2>2, <2>3 DEF Wrote
  <2>5. rec'.dropped = 0 => ClosedLast(rec')
    BY <1>0, <2>2, <2>3, ClosedLastMade DEF e
  <2> QED BY <2>2, <2>3, <2>4, <2>5 DEF Closing, Finished
<1>3. CASE CloseSession
  <2>1. PICK e \in Events : /\ Closed(rec, rec', e)
                            /\ e.dir = C2S => main.clientClosed
    BY <1>3, MainRecords DEF CloseSessionCloses
  <2>2. CloseTurns
    BY <1>3, MainTurns
  <2>3. /\ main.phase = "closing" /\ main'.phase = "finishing" /\ Asked' = Asked
        /\ main'.clientClosed = main.clientClosed /\ UNCHANGED <<pump, summary>>
        /\ ~summary.error
    BY <2>2 DEF CloseTurns, To, Asked, Closing
  <2>4. \A d \in Directions : ~Asked => ~PumpRuns(d)'
    BY <1>0, <2>3 DEF PhasesAgree, DrainAgrees, Joined, Over, PumpRuns
  <2>5. CASE rec.closed
    <3>1. rec' = rec
      BY <2>1, <2>5 DEF Closed
    <3> QED BY <2>3, <2>4, <2>5, <3>1 DEF Closing, Asked, Finished
  <2>6. CASE ~rec.closed
    <3>1. Wrote(rec, rec', e) /\ rec'.closed /\ ~Asked
      BY <2>1, <2>6 DEF Closed, Closing
    <3>2. Held(rec') /\ rec'.afterClose = rec.afterClose /\ (rec'.dropped # 0 => rec'.failed)
      BY <1>0, <2>6, <3>1 DEF Wrote
    <3>3. CleanCloses(rec', main'.clientClosed)
      BY <1>0, <2>1, <2>3, <3>1, CleanClosesKept DEF Closing, IsClose
    <3> QED BY <2>3, <2>4, <3>1, <3>2, <3>3 DEF Closing, Finished
  <2> QED BY <2>5, <2>6
<1>4. CASE FinishSession
  <2>1. /\ Rested(rec, rec') /\ ~rec'.failed /\ (rec.failed => summary'.error)
        /\ summary'.afterClose = rec.afterClose
    BY <1>4, EndRests
  <2>2. FinishTurns
    BY <1>4, MainTurns
  <2>3. /\ main.phase = "finishing" /\ main'.phase = "finished" /\ Asked' = Asked
        /\ main'.clientClosed = main.clientClosed /\ UNCHANGED pump /\ rec.closed
        /\ ~summary.error
    BY <2>2 DEF FinishTurns, To, Asked, Closing
  <2>4. /\ rec'.closed = rec.closed /\ rec'.dropped = rec.dropped
        /\ rec'.afterClose = rec.afterClose /\ Tape(rec') = Tape(rec) /\ Held(rec')
    BY <1>0, <2>1 DEF Rested
  <2>5. ClosedLast(rec') = ClosedLast(rec)
        /\ CleanCloses(rec', main'.clientClosed) = CleanCloses(rec, main.clientClosed)
    BY <2>3, <2>4 DEF ClosedLast, CleanCloses
  <2> QED BY <1>0, <2>1, <2>3, <2>4, <2>5 DEF Closing, PumpRuns
<1>5. CASE Exit \/ Kill
  <2>1. Rested(rec, rec') /\ rec'.failed = rec.failed
    BY <1>5, EndRests
  <2>2. GoneTurns
    BY <1>5, MainTurns
  <2>3. /\ \/ main.phase = "finished" /\ main'.phase = "exited"
           \/ main'.phase = "killed"
        /\ Asked' = Asked
        /\ main'.clientClosed = main.clientClosed /\ UNCHANGED summary
        /\ \A d \in Directions : ~PumpRuns(d)'
    BY <2>2 DEF GoneTurns, To, Asked, PumpRuns
  <2>4. /\ rec'.closed = rec.closed /\ rec'.dropped = rec.dropped
        /\ rec'.afterClose = rec.afterClose /\ Tape(rec') = Tape(rec) /\ Held(rec')
    BY <1>0, <2>1 DEF Rested
  <2>5. ClosedLast(rec') = ClosedLast(rec)
        /\ CleanCloses(rec', main'.clientClosed) = CleanCloses(rec, main.clientClosed)
    BY <2>3, <2>4 DEF ClosedLast, CleanCloses
  <2>6. Finished' => Finished
    BY <2>3 DEF Finished
  <2> QED BY <1>0, <2>1, <2>3, <2>4, <2>5, <2>6 DEF Closing
<1>6. CASE \/ OpenFails \/ ClientRelayEnds \/ ServerExitSeen \/ ClientJoined \/ RelayStop
           \/ StopKills \/ RelayEnds \/ DrainKills \/ AbandonRelay
  <2> DEFINE Others == \/ OpenFailsTurns \/ ExitSeenTurns \/ RelayTurns \/ KillTurns
                       \/ OverTurns
  <2>0. UNCHANGED <<rec, summary>> /\ (RelayEndsTurns \/ Others)
    <3>1. RelayEndsTurns \/ Others
      BY <1>6, MainTurns
    <3> QED BY <3>1 DEF OpenFailsTurns, RelayEndsTurns, ExitSeenTurns, RelayTurns, KillTurns,
                        OverTurns
  <2>1. CASE RelayEndsTurns
    <3>1. /\ main.phase = "session" /\ main'.phase = "clientDone" /\ Asked' = Asked
          /\ UNCHANGED pump /\ (~rec.closed \/ Asked)
          /\ main.clientClosed => main'.clientClosed
      BY <2>1 DEF RelayEndsTurns, Asked, Closing, PhasesAgree, ClosedByClient
    <3>2. CleanCloses(rec, main.clientClosed) => CleanCloses(rec, main'.clientClosed)
      BY <3>1 DEF CleanCloses
    <3> QED BY <2>0, <3>1, <3>2 DEF Closing, Finished
  <2>2. CASE Others
    <3>1. main'.clientClosed = main.clientClosed /\ Asked' = Asked
      BY <2>2 DEF OpenFailsTurns, ExitSeenTurns, JoinTurns, RelayTurns, KillTurns, OverTurns,
                  To, Asked
    <3>2. rec.closed /\ ~Asked => \A d \in Directions : ~PumpRuns(d)'
      <4>1. rec.closed /\ ~Asked => main.phase # "starting"
        BY DEF Closing
      <4> QED BY <1>s, <4>1, NoneStarts DEF Closing
    <3>3. /\ main'.phase \notin {"finishing", "finished", "killed"}
          /\ main.phase \notin {"finishing", "finished", "exited", "killed"}
          /\ main'.phase = "exited" => main.phase = "starting"
      BY <2>2 DEF OpenFailsTurns, ExitSeenTurns, JoinTurns, Drains, RelayTurns, KillTurns,
                  OverTurns, To
    <3>4. rec.closed => Asked
      BY <3>3 DEF Closing
    <3>5. main.phase = "starting" => ~Asked
      BY DEF PhasesAgree
    <3> QED BY <1>0, <2>0, <3>1, <3>2, <3>3, <3>4, <3>5 DEF Closing, Finished
  <2> QED BY <2>0, <2>1, <2>2
<1> QED BY <1>1, <1>2, <1>3, <1>4, <1>5, <1>6 DEF MainStep

-----------------------------------------------------------------------------
(* What is on its way, under each step.                                        *)

LEMMA PrefixGrows ==
    ASSUME NEW g \in Seq(Messages), NEW s \in Seq(Messages), Prefix(g, s), NEW m \in Messages,
           Len(g) + 1 \in 1 .. Len(s), m = s[Len(g) + 1]
    PROVE  Prefix(Append(g, m), s)
<1> DEFINE n == Len(g)
           t == Append(g, m)
<1>1. n \in Nat /\ Len(t) = n + 1 /\ t[n + 1] = m /\ \A k \in 1 .. n : t[k] = g[k]
  BY LenProperties, AppendProperties
<1>2. n + 1 \in 1 .. Len(s) /\ m = s[n + 1] /\ \A k \in 1 .. n : g[k] = s[k]
  BY DEF Prefix
<1> HIDE DEF n, t
<1>3. \A k \in 1 .. n + 1 : k \in 1 .. n \/ k = n + 1
  BY <1>1
<1>4. Len(t) <= Len(s) /\ \A k \in 1 .. Len(t) : t[k] = s[k]
  BY <1>1, <1>2, <1>3
<1> QED BY <1>4 DEF Prefix, t

LEMMA PrefixWidens ==
    ASSUME NEW g \in Seq(Messages), NEW s \in Seq(Messages), Prefix(g, s), NEW x \in Piece
    PROVE  Prefix(g, Longer(s, x))
<1> DEFINE n == Len(g)
           k == Len(s)
           t == Longer(s, x)
           u == Len(t)
<1>1. /\ n \in Nat /\ k \in Nat /\ u \in Nat /\ u = k + (IF x.last THEN 1 ELSE 0)
      /\ \A j \in 1 .. k : t[j] = s[j]
  BY LenProperties, LongerType
<1>2. n <= k /\ \A j \in 1 .. n : g[j] = s[j]
  BY DEF Prefix
<1> HIDE DEF n, k, t, u
<1>3. k <= u
  BY <1>1
<1>4. n <= u /\ \A j \in 1 .. n : g[j] = t[j]
  BY <1>1, <1>2, <1>3
<1> QED BY <1>4 DEF Prefix, n, t, u

LEMMA PumpKeepsFlows ==
    ASSUME Typed, Flows, NEW d \in Directions, NEW q, PumpGoes(d, q)
    PROVE  Flows'
<1> DEFINE c == pump[d].chunk
           p == inp[d]
           s == sent[d]
           g == given[d]
<1>0. /\ c \in Seq(Piece) /\ p \in Seq(Piece) /\ s \in Seq(Messages) /\ g \in Seq(Messages)
      /\ outp[d] \in Seq(Piece) /\ inp \in [Directions -> Seq(Piece)]
      /\ outp \in [Directions -> Seq(Piece)] /\ given \in [Directions -> Seq(Messages)]
      /\ pump[d].state = "running" /\ C2S \in Directions
  BY TypedPump, PumpFields DEF Typed, PumpGoes, PumpRuns, C2S, Directions
<1>1. /\ pump'[d] = q /\ sent' = sent /\ server' = server
      /\ \A o \in Directions : o # d => pump'[o] = pump[o]
  BY DEF PumpGoes, Becomes
<1>2. Prefix(g, s) /\ Flow(c \o p, s, Len(g)) /\ Flow(outp[C2S], given[C2S], server.read)
  BY <1>0 DEF Flows, Intact
<1>3. ASSUME outp' = outp, given' = given,
             \A o \in Directions : o # d => inp'[o] = inp[o],
             Intact(q) => q.chunk \o inp'[d] = c \o p
      PROVE  Flows'
  <2>1. ASSUME NEW o \in Directions
        PROVE  /\ Prefix(given'[o], sent'[o])
               /\ Intact(pump'[o]) => Flow(pump'[o].chunk \o inp'[o], sent'[o], Len(given'[o]))
    <3>1. CASE o = d
      BY <1>1, <1>2, <1>3, <3>1
    <3>2. CASE o # d
      BY <1>1, <1>3, <3>2 DEF Flows
    <3> QED BY <3>1, <3>2
  <2> QED BY <1>1, <1>2, <1>3, <2>1 DEF Flows
<1>4. CASE \E n : ReadsAs(d, q, n)
  <2>1. PICK n : ReadsAs(d, q, n)
    BY <1>4
  <2>2. /\ n \in 0 .. Len(p) /\ q.chunk = SubSeq(p, 1, n) /\ c = <<>>
        /\ inp' = [inp EXCEPT ![d] = SubSeq(p, n + 1, Len(p))] /\ UNCHANGED <<outp, given>>
    BY <1>0, <2>1 DEF ReadsAs
  <2>3. SubSeq(p, 1, n) \o SubSeq(p, n + 1, Len(p)) = p /\ c \o p = p
    <3>1. p \in Seq(Piece) /\ c = <<>> /\ n \in 0 .. Len(p)
      BY <1>0, <2>2
    <3> HIDE DEF c, p
    <3> QED BY <3>1, FirstOf, ConcatEmptySeq
  <2>4. inp'[d] = SubSeq(p, n + 1, Len(p)) /\ \A o \in Directions : o # d => inp'[o] = inp[o]
    BY <1>0, <2>2
  <2> QED BY <1>3, <2>2, <2>3, <2>4
<1>5. CASE ReadsEndAs(d, q) \/ \E m, b : RecordsAs(d, q, m, b)
  <2>1. q.chunk = c /\ UNCHANGED <<inp, outp, given>>
    BY <1>5 DEF ReadsEndAs, RecordsAs
  <2> QED BY <1>3, <2>1
<1>6. CASE StopsAs(d, q)
  <2>1. UNCHANGED <<inp, outp, given>> /\ (Intact(q) => q.chunk = c)
    BY <1>6 DEF StopsAs, Intact
  <2> QED BY <1>3, <2>1
<1>7. CASE WritesAs(d, q)
  <2> DEFINE x == Head(c)
             g2 == Longer(g, x)
             z == Append(outp[d], x)
  <2>1. /\ c # <<>> /\ q.chunk = Tail(c) /\ inp' = inp
        /\ outp' = [outp EXCEPT ![d] = z] /\ given' = [given EXCEPT ![d] = g2]
    BY <1>7 DEF WritesAs, Longer
  <2>2. x \in Piece /\ x.msg \in Messages /\ x.last \in BOOLEAN
    <3>1. c \in Seq(Piece) /\ c # <<>>
      BY <1>0, <2>1
    <3>2. x \in Piece
      BY <3>1, HeadTailProperties
    <3> HIDE DEF x
    <3> QED BY <3>2 DEF Piece
  <2>3. c \o p # <<>> /\ Head(c \o p) = x /\ Tail(c \o p) = Tail(c) \o p /\ c \o p \in Seq(Piece)
    BY <1>0, <2>1, ConcatSteps, ConcatProperties
  <2>4. /\ Len(g) \in Nat
        /\ x.last => Len(g) + 1 \in 1 .. Len(s) /\ x.msg = s[Len(g) + 1]
        /\ Flow(Tail(c) \o p, s, IF x.last THEN Len(g) + 1 ELSE Len(g))
    <3> DEFINE u == c \o p
               a == Len(g)
    <3>1. u \in Seq(Piece) /\ u # <<>> /\ x = Head(u) /\ Flow(u, s, a) /\ s \in Seq(Messages)
          /\ Tail(u) = Tail(c) \o p
      BY <1>0, <1>2, <2>3
    <3> HIDE DEF u, a, x, c, p, g, s
    <3>2. /\ x.last => a + 1 \in 1 .. Len(s) /\ x.msg = s[a + 1]
          /\ Flow(Tail(u), s, IF x.last THEN a + 1 ELSE a)
      BY <3>1, FlowTail
    <3>3. a \in Nat
      BY <3>1, FlowTail
    <3> QED BY <3>1, <3>2, <3>3 DEF a
  <2> HIDE DEF x
  <2>5. g2 \in Seq(Messages) /\ Len(g2) = Len(g) + (IF x.last THEN 1 ELSE 0)
    BY <1>0, <2>2, LongerType
  <2>6. Prefix(g2, s)
    <3>1. CASE x.last
      BY <1>0, <1>2, <2>2, <2>4, <3>1, PrefixGrows DEF Longer
    <3>2. CASE ~x.last
      BY <1>2, <3>2 DEF Longer
    <3> QED BY <3>1, <3>2
  <2>7. Flow(Tail(c) \o p, s, Len(g2))
    <3>1. Len(g2) = IF x.last THEN Len(g) + 1 ELSE Len(g)
      <4> DEFINE a == Len(g)
                 b == Len(g2)
      <4>1. a \in Nat /\ b = a + (IF x.last THEN 1 ELSE 0)
        BY <2>4, <2>5
      <4> HIDE DEF a, b
      <4>2. b = IF x.last THEN a + 1 ELSE a
        BY <2>2, <4>1
      <4> QED BY <4>2 DEF a, b
    <3> HIDE DEF c, p, s, g, g2
    <3> QED BY <2>4, <3>1
  <2>8. ASSUME d = C2S PROVE Flow(z, g2, server.read)
    <3>1. Flow(outp[d], g, server.read)
      BY <1>2, <2>8
    <3> QED BY <1>0, <2>2, <3>1, FlowAppend
  <2> HIDE DEF g2, z
  <2>9. /\ given'[d] = g2 /\ outp'[d] = z
        /\ \A o \in Directions : o # d => given'[o] = given[o] /\ outp'[o] = outp[o]
    BY <1>0, <2>1
  <2>10. Flow(outp'[C2S], given'[C2S], server.read)
    <3>1. CASE d = C2S
      BY <2>8, <2>9, <3>1
    <3>2. CASE d # C2S
      BY <1>0, <1>2, <2>9, <3>2
    <3> QED BY <3>1, <3>2
  <2>11. ASSUME NEW o \in Directions
        PROVE  /\ Prefix(given'[o], sent'[o])
               /\ Intact(pump'[o]) => Flow(pump'[o].chunk \o inp'[o], sent'[o], Len(given'[o]))
    <3>1. CASE o = d
      BY <1>1, <2>1, <2>6, <2>7, <2>9, <3>1
    <3>2. CASE o # d
      BY <1>1, <2>1, <2>9, <3>2 DEF Flows
    <3> QED BY <3>1, <3>2
  <2> QED BY <1>1, <2>10, <2>11 DEF Flows
<1> QED BY <1>4, <1>5, <1>6, <1>7 DEF PumpGoes

LEMMA MainKeepsFlows ==
    ASSUME Typed, PumpsAgree, Flows, MainGoes
    PROVE  Flows'
<1>1. UNCHANGED <<inp, outp, sent, given>> /\ server'.read = server.read
  BY DEF MainGoes, SameRest
<1>2. ASSUME NEW d \in Directions, Intact(pump'[d])
      PROVE  Intact(pump[d]) /\ pump'[d].chunk = pump[d].chunk
  <2>1. Leaves(pump'[d], pump[d])
    BY DEF MainGoes
  <2>2. pump[d].state = "done" => pump[d].chunk = <<>>
    BY DEF PumpsAgree
  <2> QED BY <1>2, <2>1, <2>2 DEF Leaves, Intact
<1> QED BY <1>1, <1>2 DEF Flows

LEMMA EnvKeepsFlows ==
    ASSUME Typed, Flows, EnvGoes
    PROVE  Flows'
<1>0. /\ C2S \in Directions /\ S2C \in Directions /\ UNCHANGED pump
      /\ outp[C2S] \in Seq(Piece) /\ given[C2S] \in Seq(Messages)
  BY TypedPump DEF C2S, S2C, Directions, EnvGoes
<1>1. ASSUME NEW o \in Directions, NEW x \in Piece, Emits(o, x), Len(inp[o]) < setup.room,
             given' = given
      PROVE  \A d \in Directions :
                /\ Prefix(given'[d], sent'[d])
                /\ Intact(pump'[d]) => Flow(pump'[d].chunk \o inp'[d], sent'[d], Len(given'[d]))
  <2>1. /\ inp'[o] = Append(inp[o], x) /\ sent'[o] = Longer(sent[o], x)
        /\ \A d \in Directions : d # o => inp'[d] = inp[d] /\ sent'[d] = sent[d]
    BY <1>1, EmitTypes
  <2>2. /\ inp[o] \in Seq(Piece) /\ sent[o] \in Seq(Messages) /\ given[o] \in Seq(Messages)
        /\ pump[o].chunk \in Seq(Piece) /\ pump[o].chunk \o inp[o] \in Seq(Piece)
    BY TypedPump, PumpFields, ConcatProperties
  <2>3. pump[o].chunk \o Append(inp[o], x) = Append(pump[o].chunk \o inp[o], x)
    <3> DEFINE c == pump[o].chunk
               p == inp[o]
    <3>1. c \in Seq(Piece) /\ p \in Seq(Piece) /\ x \in Piece /\ <<x>> \in Seq(Piece)
      BY <2>2
    <3> HIDE DEF c, p
    <3>2. Append(p, x) = p \o <<x>> /\ Append(c \o p, x) = (c \o p) \o <<x>>
      BY <3>1, AppendIsConcat, ConcatProperties
    <3>3. (c \o p) \o <<x>> = c \o (p \o <<x>>)
      BY <3>1, ConcatAssociative
    <3> QED BY <3>2, <3>3 DEF c, p
  <2>4. Prefix(given[o], Longer(sent[o], x))
    BY <2>2, PrefixWidens DEF Flows
  <2>5. Intact(pump[o]) =>
            Flow(Append(pump[o].chunk \o inp[o], x), Longer(sent[o], x), Len(given[o]))
    BY <2>2, FlowAppend DEF Flows
  <2>6. SUFFICES ASSUME NEW d \in Directions
                 PROVE  /\ Prefix(given'[d], sent'[d])
                        /\ Intact(pump'[d]) =>
                             Flow(pump'[d].chunk \o inp'[d], sent'[d], Len(given'[d]))
    OBVIOUS
  <2>7. CASE d = o
    BY <1>0, <1>1, <2>1, <2>3, <2>4, <2>5, <2>7
  <2>8. CASE d # o
    BY <1>0, <1>1, <2>1, <2>8 DEF Flows
  <2> QED BY <2>7, <2>8
<1>2. CASE \E piece, c : ClientSendsAs(piece, c)
  <2>1. PICK piece, c : ClientSendsAs(piece, c)
    BY <1>2
  <2>2. /\ piece \in Piece /\ Emits(C2S, piece) /\ Len(inp[C2S]) < setup.room
        /\ UNCHANGED <<outp, given, server>>
    BY <2>1 DEF ClientSendsAs
  <2> QED BY <1>0, <1>1, <2>2 DEF Flows
<1>3. CASE \E piece, s, m : ServerSendsAs(piece, s, m)
  <2>1. PICK piece, s, m : ServerSendsAs(piece, s, m)
    BY <1>3
  <2>2. piece \in Piece /\ UNCHANGED <<outp, given>> /\ server'.read = server.read
    BY <2>1 DEF ServerSendsAs
  <2>3. CASE Emits(S2C, piece) /\ Len(inp[S2C]) < setup.room
    BY <1>0, <1>1, <2>2, <2>3 DEF Flows
  <2>4. CASE UNCHANGED <<inp, sent>>
    BY <1>0, <2>2, <2>4 DEF Flows
  <2> QED BY <2>1, <2>3, <2>4 DEF ServerSendsAs, ServerGives
<1>4. CASE \E s : ServerReceivesAs(s)
  <2>1. PICK s : ServerReceivesAs(s)
    BY <1>4
  <2>2. /\ outp[C2S] # <<>> /\ outp' = [outp EXCEPT ![C2S] = Tail(outp[C2S])]
        /\ server'.read = IF Head(outp[C2S]).last THEN server.read + 1 ELSE server.read
        /\ UNCHANGED <<inp, sent, given>>
    BY <2>1 DEF ServerReceivesAs
  <2>3. Flow(Tail(outp[C2S]), given[C2S], server'.read)
    BY <1>0, <2>2, FlowTail DEF Flows
  <2>4. outp'[C2S] = Tail(outp[C2S])
    BY <1>0, <2>2 DEF Typed
  <2> QED BY <1>0, <2>2, <2>3, <2>4 DEF Flows
<1>5. CASE WorldGoes
  BY <1>0, <1>5 DEF WorldGoes, Flows
<1> QED BY <1>2, <1>3, <1>4, <1>5 DEF EnvGoes

-----------------------------------------------------------------------------
(* Nothing is early.                                                           *)

\* The lines of x are those of r, and perhaps one more, for m.
Extends(r, x, m) ==
    /\ \A i \in 1 .. Len(Tape(r)) : i \in 1 .. Len(Tape(x)) /\ Tape(x)[i] = Tape(r)[i]
    /\ \A i \in 1 .. Len(Tape(x)) :
          \/ i \in 1 .. Len(Tape(r))
          \/ i = Len(Tape(r)) + 1 /\ Tape(x)[i].ev.msg = m /\ ~Stuck(r)

LEMMA AddsExtends ==
    ASSUME NEW r \in Trace, NEW x, NEW m, Adds(r, x, m)
    PROVE  Extends(r, x, m)
<1>1. CASE Tape(x) = Tape(r)
  BY <1>1 DEF Extends
<1>2. CASE ~Stuck(r) /\ \E line \in Lines : line.ev.msg = m /\ Tape(x) = Append(Tape(r), line)
  <2>1. PICK line \in Lines : line.ev.msg = m /\ Tape(x) = Append(Tape(r), line)
    BY <1>2
  <2> QED BY <1>2, <2>1, TapeGrows DEF Extends
<1> QED BY <1>1, <1>2 DEF Adds

LEMMA MessageFields ==
    /\ None \notin Messages
    /\ \A m \in Messages : m[1] \in Kinds /\ m[2] \in Nat
BY StdioAssumption DEF Messages, Kinds, None

\* What was begun stays begun.
BeginsOn == \A m \in Messages : Begun(client, server, m) => Begun(client', server', m)

LEMMA MainBeginsOn == ASSUME MainGoes PROVE BeginsOn
BY DEF MainGoes, SameRest, BeginsOn, Begun

LEMMA WorldBeginsOn == ASSUME WorldGoes PROVE BeginsOn
BY DEF WorldGoes, BeginsOn, Begun

LEMMA ClientBeginsOn ==
    ASSUME Typed, NEW piece, NEW c, ClientSendsAs(piece, c) PROVE BeginsOn
<1>1. client.begun \in Nat /\ client'.begun \in {client.begun, client.begun + 1} /\ server' = server
  BY DEF Typed, Clients, ClientSendsAs
<1>2. \A m \in Messages : m[2] <= client.begun => m[2] <= client'.begun
  BY <1>1, MessageFields
<1> QED BY <1>1, <1>2 DEF BeginsOn, Begun

\* A tail is one shorter.
LEMMA TailIs ==
    ASSUME NEW S, NEW s \in Seq(S), s # <<>>
    PROVE  /\ Tail(s) \in Seq(S) /\ Head(s) \in S /\ Head(s) = s[1]
           /\ Len(s) \in Nat /\ Len(s) > 0 /\ Len(Tail(s)) = Len(s) - 1
           /\ \A i \in 1 .. Len(Tail(s)) : Tail(s)[i] = s[i + 1] /\ i + 1 \in 1 .. Len(s)
<1> DEFINE n == Len(s)
           t == Tail(s)
<1>1. n \in Nat /\ n > 0
  BY LenProperties, EmptySeq
<1>2. /\ t \in Seq(S) /\ Head(s) \in S /\ Head(s) = s[1] /\ Len(t) = n - 1
      /\ \A i \in 1 .. Len(t) : t[i] = s[i + 1]
  BY HeadTailProperties
<1> HIDE DEF n, t
<1>3. \A i \in 1 .. Len(t) : i + 1 \in 1 .. n
  BY <1>1, <1>2
<1> QED BY <1>1, <1>2, <1>3 DEF n, t

LEMMA AppendIs ==
    ASSUME NEW S, NEW s \in Seq(S), NEW x \in S, NEW t, t = Append(s, x)
    PROVE  /\ t \in Seq(S) /\ Len(s) \in Nat /\ Len(t) = Len(s) + 1 /\ t[Len(s) + 1] = x
           /\ \A i \in 1 .. Len(s) : t[i] = s[i] /\ i \in 1 .. Len(t)
           /\ \A i \in 1 .. Len(t) : i \in 1 .. Len(s) \/ (i = Len(s) + 1 /\ t[i] = x)
<1> DEFINE n == Len(s)
<1>1. n \in Nat /\ t \in Seq(S) /\ Len(t) = n + 1 /\ t[n + 1] = x /\ \A i \in 1 .. n : t[i] = s[i]
  BY LenProperties, AppendProperties
<1> HIDE DEF n
<1>2. /\ \A i \in 1 .. n : i \in 1 .. Len(t)
      /\ \A i \in 1 .. Len(t) : i \in 1 .. n \/ i = n + 1
  BY <1>1
<1> QED BY <1>1, <1>2 DEF n

\* What the server owes, in the order it read the requests.
LEMMA Owing ==
    ASSUME Typed, InTurn
    PROVE  /\ server.owes \in Seq(Messages) /\ server.read \in Nat /\ Len(server.owes) \in Nat
           /\ \A i \in 1 .. Len(server.owes) :
                 /\ server.owes[i] \in Messages /\ server.owes[i][2] \in Nat
                 /\ server.owes[i][1] = "response"
                 /\ server.owes[i][2] + Len(server.owes) = server.read + i
           /\ Len(server.owes) <= server.read
<1>1. server.owes \in Seq(Messages) /\ server.read \in Nat /\ Len(server.owes) \in Nat
  BY LenProperties DEF Typed, Servers
<1>2. \A i \in 1 .. Len(server.owes) : server.owes[i] \in Messages
  BY <1>1, ElementOfSeq
<1> QED BY <1>1, <1>2, MessageFields DEF InTurn

\* The server's next message is new.
LEMMA ServerBeginsOn ==
    ASSUME Typed, InTurn, NEW piece, NEW s, NEW m, ServerSendsAs(piece, s, m)
    PROVE  /\ BeginsOn
           /\ server.rest = <<>> => /\ m \in Messages /\ ~Begun(client, server, m)
                                    /\ Begun(client', server', m)
<1> DEFINE o == server.owes
           n == Len(o)
<1>1. /\ o \in Seq(Messages) /\ n \in Nat /\ server.read \in Nat
      /\ \A i \in 1 .. n : o[i][1] = "response" /\ o[i][2] \in Nat /\ o[i][2] + n = server.read + i
  BY Owing
<1>2. server' = s /\ client' = client /\ s.read = server.read
  BY DEF ServerSendsAs
<1>3. ASSUME s.owes = o, s.noted \/ ~server.noted
      PROVE  BeginsOn
  BY <1>2, <1>3 DEF BeginsOn, Begun
<1>4. CASE server.rest # <<>> /\ s.owes = o /\ s.noted = server.noted
  BY <1>3, <1>4
<1>5. CASE /\ server.rest = <<>> /\ o # <<>> /\ m = Head(o) /\ m \in Messages
           /\ s.owes = Tail(o) /\ s.noted = server.noted
  <2>1. m = o[1] /\ n > 0 /\ Len(s.owes) = n - 1
    BY <1>1, <1>5, TailIs
  <2>2. 1 \in 1 .. n
    BY <1>1, <2>1
  <2>3. m[1] = "response" /\ m[2] \in Nat /\ m[2] + n = server.read + 1
    BY <1>1, <2>1, <2>2
  <2>a. \A k \in Messages : k[2] \in Nat
    BY MessageFields
  <2>b. Len(s.owes) = n - 1 /\ s.read = server.read /\ Len(server.owes) = n
    BY <1>2, <2>1
  <2> HIDE DEF n
  <2>4. \A k \in Messages : k[2] + n <= server.read => k[2] + (n - 1) <= server.read
    BY <1>1, <2>a
  <2>5. m[2] + (n - 1) <= server.read /\ ~(m[2] + n <= server.read)
    BY <1>1, <2>3
  <2>6. BeginsOn
    BY <1>2, <1>5, <2>4, <2>b DEF BeginsOn, Begun
  <2>7. ~Begun(client, server, m)
    BY <2>3, <2>5, <2>b DEF Begun
  <2>8. Begun(client', server', m)
    BY <1>2, <2>3, <2>5, <2>b DEF Begun
  <2> QED BY <1>5, <2>6, <2>7, <2>8
<1>6. CASE /\ server.rest = <<>> /\ ~server.noted /\ m = <<"note", 0>> /\ m \in Messages
           /\ s.owes = o /\ s.noted
  <2>1. BeginsOn
    BY <1>3, <1>6
  <2>2. m[1] = "note"
    BY <1>6
  <2> QED BY <1>2, <1>6, <2>1, <2>2 DEF Begun
<1> QED BY <1>4, <1>5, <1>6 DEF ServerSendsAs

LEMMA ReceiveBeginsOn ==
    ASSUME Typed, InTurn, NEW s, ServerReceivesAs(s)
    PROVE  BeginsOn
<1> DEFINE o == server.owes
           n == Len(o)
<1>1. o \in Seq(Messages) /\ n \in Nat /\ server.read \in Nat
  BY Owing
<1>2. server' = s /\ client' = client /\ s.noted = server.noted
  BY DEF ServerReceivesAs
<1>3. CASE s.owes = o /\ s.read = server.read
  BY <1>2, <1>3 DEF BeginsOn, Begun
<1>4. CASE s.owes = Append(o, <<"response", server.read + 1>>) /\ s.read = server.read + 1
  <2>1. Len(s.owes) = n + 1
    BY <1>1, <1>4
  <2>2. \A k \in Messages : k[2] \in Nat
    BY MessageFields
  <2>3. Len(server.owes) = n
    OBVIOUS
  <2> HIDE DEF n
  <2>4. \A k \in Messages : k[2] + n <= server.read => k[2] + (n + 1) <= server.read + 1
    BY <1>1, <2>2
  <2> QED BY <1>2, <1>4, <2>1, <2>3, <2>4 DEF BeginsOn, Begun
<1> QED BY <1>3, <1>4 DEF ServerReceivesAs

LEMMA EnvBeginsOn ==
    ASSUME Typed, InTurn, EnvGoes
    PROVE  BeginsOn
BY ClientBeginsOn, ServerBeginsOn, ReceiveBeginsOn, WorldBeginsOn DEF EnvGoes

LEMMA SameInTurn ==
    ASSUME InTurn, sent'[C2S] = sent[C2S], client'.begun = client.begun,
           client'.rest = client.rest, setup' = setup,
           server'.owes = server.owes, server'.read = server.read
    PROVE  InTurn'
BY DEF InTurn

\* The client sends what it began, and numbers its requests.
LEMMA ClientInTurn ==
    ASSUME Typed, InTurn, NEW piece, NEW c, ClientSendsAs(piece, c)
    PROVE  InTurn'
<1> DEFINE b == client.begun
           s == sent[C2S]
           t == Longer(s, piece)
           n == Len(s)
           r == <<"request", b + 1>>
<1>0. C2S \in Directions
  BY DEF C2S, Directions
<1>1. /\ s \in Seq(Messages) /\ n \in Nat /\ b \in Nat /\ setup.requests \in Nat
      /\ piece \in Piece /\ sent'[C2S] = t
  <2>1. s \in Seq(Messages) /\ setup.requests \in Nat /\ b \in Nat
    BY <1>0, TypedPump DEF Typed, Clients
  <2>2. sent'[C2S] = t
    BY <1>0, EmitTypes DEF ClientSendsAs
  <2> QED BY <2>1, <2>2, LenProperties DEF ClientSendsAs
<1>2. /\ Len(t) \in Nat /\ Len(t) = n + (IF piece.last THEN 1 ELSE 0)
      /\ \A k \in 1 .. n : t[k] = s[k]
      /\ piece.last => t[n + 1] = piece.msg
      /\ \A k \in 1 .. Len(t) : k \in 1 .. n \/ (piece.last /\ k = n + 1)
  <2>1. t = Longer(s, piece) /\ s \in Seq(Messages) /\ piece \in Piece
    BY <1>1
  <2> HIDE DEF t, s
  <2>2. /\ Len(t) \in Nat /\ Len(t) = Len(s) + (IF piece.last THEN 1 ELSE 0)
        /\ \A k \in 1 .. Len(s) : t[k] = s[k]
        /\ piece.last => t[Len(s) + 1] = piece.msg
        /\ \A k \in 1 .. Len(t) : k \in 1 .. Len(s) \/ (piece.last /\ k = Len(s) + 1)
    BY <2>1, LongerType
  <2> QED BY <2>2
<1>3. UNCHANGED <<server, setup>> /\ client' = c
  BY DEF ClientSendsAs
<1>4. /\ \A k \in 1 .. n : s[k] = <<"request", k>>
      /\ b <= setup.requests
      /\ \/ client.rest = <<>> /\ b = n
         \/ client.rest = <<[msg |-> <<"request", b>>, last |-> TRUE]>> /\ b = n + 1
  BY DEF InTurn
<1>5. ASSUME piece.last => piece.msg = <<"request", n + 1>>, c.begun <= setup.requests,
             \/ c.rest = <<>> /\ c.begun = Len(t)
             \/ c.rest = <<[msg |-> <<"request", c.begun>>, last |-> TRUE]>> /\ c.begun = Len(t) + 1
      PROVE  InTurn'
  <2>1. \A k \in 1 .. Len(t) : t[k] = <<"request", k>>
    BY <1>2, <1>4, <1>5
  <2> QED BY <1>1, <1>3, <1>5, <2>1 DEF InTurn
<1>6. CASE client.rest # <<>> /\ piece = Head(client.rest) /\ c.rest = Tail(client.rest) /\ c.begun = b
  <2>1. client.rest = <<[msg |-> <<"request", b>>, last |-> TRUE]>> /\ b = n + 1
    BY <1>4, <1>6
  <2>2. piece = [msg |-> <<"request", b>>, last |-> TRUE] /\ c.rest = <<>>
    BY <1>6, <2>1
  <2>3. piece.last /\ piece.msg = <<"request", n + 1>> /\ Len(t) = n + 1
    BY <1>2, <2>1, <2>2
  <2> HIDE DEF t, s, n, b
  <2> QED BY <1>4, <1>5, <1>6, <2>1, <2>2, <2>3
<1>7. CASE client.rest = <<>> /\ b < setup.requests /\ StartsAs(r, piece, c.rest) /\ c.begun = b + 1
  <2>1. b = n
    BY <1>4, <1>7
  <2>2. c.begun <= setup.requests
    BY <1>1, <1>7
  <2>3. CASE piece = Final(r) /\ c.rest = <<>>
    <3>1. piece.last /\ piece.msg = <<"request", n + 1>> /\ Len(t) = n + 1
      BY <1>2, <2>1, <2>3 DEF Final
    <3> HIDE DEF t, s, n, b
    <3> QED BY <1>5, <1>7, <2>1, <2>2, <2>3, <3>1
  <2>4. CASE piece = [msg |-> r, last |-> FALSE] /\ c.rest = <<Final(r)>>
    <3>1. ~piece.last /\ Len(t) = n
      BY <1>1, <1>2, <2>4
    <3>2. c.rest = <<[msg |-> <<"request", c.begun>>, last |-> TRUE]>>
      BY <1>7, <2>4 DEF Final
    <3> HIDE DEF t, s, n, b, r
    <3> QED BY <1>5, <1>7, <2>1, <2>2, <3>1, <3>2
  <2> QED BY <1>7, <2>3, <2>4 DEF StartsAs
<1> QED BY <1>6, <1>7 DEF ClientSendsAs

\* The debt grows at its end and is paid from its head.
LEMMA ServerInTurn ==
    ASSUME Typed, InTurn,
           UNCHANGED <<client, setup>>, sent'[C2S] = sent[C2S],
           \/ server'.owes = server.owes /\ server'.read = server.read
           \/ server.owes # <<>> /\ server'.owes = Tail(server.owes) /\ server'.read = server.read
           \/ /\ server'.owes = Append(server.owes, <<"response", server.read + 1>>)
              /\ server'.read = server.read + 1
              /\ <<"response", server.read + 1>> \in Messages
    PROVE  InTurn'
<1> DEFINE o == server.owes
           n == Len(o)
           a == server.read
           w == server'.owes
           r == <<"response", a + 1>>
<1>1. /\ o \in Seq(Messages) /\ n \in Nat /\ a \in Nat /\ n <= a
      /\ \A i \in 1 .. n : o[i][1] = "response" /\ o[i][2] \in Nat /\ o[i][2] + n = a + i
  BY Owing
<1>2. ASSUME Len(w) <= server'.read,
             \A i \in 1 .. Len(w) : w[i][1] = "response" /\ w[i][2] + Len(w) = server'.read + i
      PROVE  InTurn'
  BY <1>2 DEF InTurn
<1>3. CASE w = o /\ server'.read = a
  BY <1>3 DEF InTurn
<1>4. CASE o # <<>> /\ w = Tail(o) /\ server'.read = a
  <2>1. /\ n > 0 /\ Len(w) = n - 1
        /\ \A i \in 1 .. Len(w) : w[i] = o[i + 1] /\ i + 1 \in 1 .. n
    BY <1>1, <1>4, TailIs
  <2> HIDE DEF n, o, a, w
  <2>2. Len(w) <= a
    BY <1>1, <2>1
  <2>3. ASSUME NEW i \in 1 .. Len(w)
        PROVE  w[i][1] = "response" /\ w[i][2] + Len(w) = a + i
    <3>1. w[i] = o[i + 1] /\ i + 1 \in 1 .. n /\ i \in Nat
      BY <1>1, <2>1
    <3>2. o[i + 1][1] = "response" /\ o[i + 1][2] \in Nat /\ o[i + 1][2] + n = a + (i + 1)
      BY <1>1, <3>1
    <3> DEFINE x == o[i + 1][2]
    <3>3. x \in Nat /\ x + n = a + (i + 1)
      BY <3>2
    <3> HIDE DEF x
    <3>4. x + (n - 1) = a + i
      <4>1. n \in Nat /\ a \in Nat /\ i \in Nat
        BY <1>1, <3>1
      <4> QED BY <3>3, <4>1
    <3> QED BY <2>1, <3>1, <3>2, <3>4 DEF x
  <2> QED BY <1>2, <1>4, <2>2, <2>3
<1>5. CASE w = Append(o, r) /\ server'.read = a + 1 /\ r \in Messages
  <2>1. /\ Len(w) = n + 1
        /\ \A i \in 1 .. n : w[i] = o[i]
        /\ \A i \in 1 .. Len(w) : i \in 1 .. n \/ (i = n + 1 /\ w[i] = r)
    BY <1>1, <1>5, AppendIs
  <2>r. r[1] = "response" /\ r[2] = a + 1
    OBVIOUS
  <2> HIDE DEF n, o, a, w, r
  <2>2. Len(w) <= a + 1
    BY <1>1, <2>1
  <2>3. ASSUME NEW i \in 1 .. Len(w)
        PROVE  w[i][1] = "response" /\ w[i][2] + Len(w) = (a + 1) + i
    <3>1. CASE i \in 1 .. n
      <4>1. w[i] = o[i] /\ o[i][1] = "response" /\ o[i][2] \in Nat /\ o[i][2] + n = a + i
        BY <1>1, <2>1, <3>1
      <4> DEFINE x == o[i][2]
      <4>2. x \in Nat /\ x + n = a + i
        BY <4>1
      <4> HIDE DEF x
      <4>3. x + (n + 1) = (a + 1) + i
        BY <1>1, <3>1, <4>2
      <4> QED BY <2>1, <4>1, <4>3 DEF x
    <3>2. CASE i = n + 1 /\ w[i] = r
      BY <1>1, <2>1, <2>r, <3>2
    <3> QED BY <2>1, <3>1, <3>2
  <2> QED BY <1>2, <1>5, <2>2, <2>3 DEF a
<1> QED BY <1>3, <1>4, <1>5

LEMMA EnvKeepsTurn ==
    ASSUME Typed, Flows, InTurn, EnvGoes
    PROVE  InTurn'
<1>0. C2S \in Directions /\ S2C \in Directions /\ C2S # S2C
  BY DEF C2S, S2C, Directions
<1>1. CASE \E piece, c : ClientSendsAs(piece, c)
  BY <1>1, ClientInTurn
<1>2. CASE \E piece, s, m : ServerSendsAs(piece, s, m)
  <2>1. PICK piece, s, m : ServerSendsAs(piece, s, m)
    BY <1>2
  <2>2. sent'[C2S] = sent[C2S]
    <3>1. CASE UNCHANGED <<inp, sent>>
      BY <3>1
    <3>2. CASE Len(inp[S2C]) < setup.room /\ Emits(S2C, piece)
      BY <1>0, <2>1, <3>2, EmitTypes DEF ServerSendsAs
    <3> QED BY <2>1, <3>1, <3>2 DEF ServerSendsAs, ServerGives
  <2>3. /\ UNCHANGED <<client, setup>> /\ server'.read = server.read
        /\ \/ server'.owes = server.owes
           \/ server.owes # <<>> /\ server'.owes = Tail(server.owes)
    BY <2>1 DEF ServerSendsAs
  <2> QED BY <2>2, <2>3, ServerInTurn
<1>3. CASE \E s : ServerReceivesAs(s)
  <2>1. PICK s : ServerReceivesAs(s)
    BY <1>3
  <2>2. UNCHANGED <<client, setup, sent>> /\ outp[C2S] # <<>>
    BY <2>1 DEF ServerReceivesAs
  <2>3. CASE Head(outp[C2S]).last
    <3>1. <<"response", server.read + 1>> \in Messages
      BY <2>2, <2>3, ServerGets
    <3> QED BY <2>1, <2>2, <2>3, <3>1, ServerInTurn DEF ServerReceivesAs
  <2>4. CASE ~Head(outp[C2S]).last
    BY <2>1, <2>2, <2>4, ServerInTurn DEF ServerReceivesAs
  <2> QED BY <2>3, <2>4
<1>4. CASE WorldGoes
  BY <1>4, SameInTurn DEF WorldGoes
<1> QED BY <1>1, <1>2, <1>3, <1>4 DEF EnvGoes

LEMMA TapeMessages ==
    ASSUME NEW r \in Trace, NEW i \in 1 .. Len(Tape(r))
    PROVE  Tape(r)[i] \in Lines /\ Tape(r)[i].ev.msg \in Messages \union {None}
<1>1. Tape(r) \in Seq(Lines)
  BY TapeType
<1>2. Tape(r)[i] \in Lines
  BY <1>1, ElementOfSeq
<1> QED BY <1>2 DEF Lines, LinesOver, Events

LEMMA PieceMessages ==
    ASSUME NEW s \in Seq(Piece), NEW i \in 1 .. Len(s)
    PROVE  s[i] \in Piece /\ s[i].msg \in Messages /\ s[i].last \in BOOLEAN
<1>1. s[i] \in Piece
  BY ElementOfSeq
<1> QED BY <1>1 DEF Piece

LEMMA AllBegunOn ==
    ASSUME BeginsOn, NEW s \in Seq(Piece), AllBegun(client, server, s)
    PROVE  AllBegun(client', server', s)
BY PieceMessages DEF BeginsOn, AllBegun

LEMMA TapeBegunOn ==
    ASSUME BeginsOn, NEW r \in Trace, NEW x, NEW m, Adds(r, x, m),
           TapeBegun(client, server, r), m = None \/ Begun(client', server', m)
    PROVE  TapeBegun(client', server', x)
<1>1. Extends(r, x, m)
  BY AddsExtends
<1>2. SUFFICES ASSUME NEW i \in 1 .. Len(Tape(x)), Tape(x)[i].ev.msg # None
               PROVE  Begun(client', server', Tape(x)[i].ev.msg)
  BY DEF TapeBegun
<1>3. CASE i \in 1 .. Len(Tape(r))
  <2>1. Tape(x)[i] = Tape(r)[i] /\ Tape(r)[i].ev.msg \in Messages
    BY <1>1, <1>2, <1>3, TapeMessages DEF Extends
  <2>2. Begun(client, server, Tape(r)[i].ev.msg)
    BY <1>2, <1>3, <2>1 DEF TapeBegun
  <2> QED BY <2>1, <2>2 DEF BeginsOn
<1>4. CASE Tape(x)[i].ev.msg = m
  BY <1>2, <1>4
<1> QED BY <1>1, <1>3, <1>4 DEF Extends

LEMMA AllBegunParts ==
    ASSUME NEW c, NEW s, NEW pieces \in Seq(Piece), AllBegun(c, s, pieces)
    PROVE  /\ \A n \in 0 .. Len(pieces) :
                 /\ AllBegun(c, s, SubSeq(pieces, 1, n))
                 /\ AllBegun(c, s, SubSeq(pieces, n + 1, Len(pieces)))
           /\ pieces # <<>> => Begun(c, s, Head(pieces).msg) /\ AllBegun(c, s, Tail(pieces))
           /\ \A x \in Piece : Begun(c, s, x.msg) => AllBegun(c, s, Append(pieces, x))
           /\ AllBegun(c, s, <<>>)
<1>1. ASSUME NEW n \in 0 .. Len(pieces) PROVE AllBegun(c, s, SubSeq(pieces, 1, n))
  <2> DEFINE t == SubSeq(pieces, 1, n)
  <2>1. Len(t) = n /\ \A i \in 1 .. n : t[i] = pieces[i]
    BY FirstOf
  <2>2. n \in Nat /\ n <= Len(pieces) /\ Len(pieces) \in Nat
    BY LenProperties
  <2>3. \A i \in 1 .. n : i \in 1 .. Len(pieces)
    BY <2>2
  <2> HIDE DEF t
  <2> QED BY <2>1, <2>3 DEF AllBegun
<1>2. ASSUME NEW n \in 0 .. Len(pieces) PROVE AllBegun(c, s, SubSeq(pieces, n + 1, Len(pieces)))
  <2> DEFINE k == Len(pieces)
             t == SubSeq(pieces, n + 1, k)
  <2>1. Len(t) = k - n /\ \A i \in 1 .. k - n : t[i] = pieces[n + i]
    BY RestOf
  <2>2. n \in Nat /\ k \in Nat /\ n <= k
    BY LenProperties
  <2>k. AllBegun(c, s, pieces) <=> \A i \in 1 .. k : Begun(c, s, pieces[i].msg)
    BY DEF AllBegun
  <2> HIDE DEF t, k
  <2>3. \A i \in 1 .. k - n : n + i \in 1 .. k
    BY <2>2
  <2>4. \A i \in 1 .. Len(t) : Begun(c, s, t[i].msg)
    BY <2>1, <2>3, <2>k
  <2> QED BY <2>4 DEF AllBegun, t, k
<1>3. pieces # <<>> => Begun(c, s, Head(pieces).msg) /\ AllBegun(c, s, Tail(pieces))
  <2>1. SUFFICES ASSUME pieces # <<>>
                 PROVE  Begun(c, s, Head(pieces).msg) /\ AllBegun(c, s, Tail(pieces))
    OBVIOUS
  <2>2. Head(pieces) = pieces[1] /\ Len(pieces) \in Nat /\ Len(pieces) > 0
    BY <2>1, TailIs
  <2>3. 1 \in 1 .. Len(pieces)
    BY <2>2
  <2>4. \A i \in 1 .. Len(Tail(pieces)) :
           Tail(pieces)[i] = pieces[i + 1] /\ i + 1 \in 1 .. Len(pieces)
    BY <2>1, TailIs
  <2> QED BY <2>2, <2>3, <2>4 DEF AllBegun
<1>4. ASSUME NEW x \in Piece, Begun(c, s, x.msg) PROVE AllBegun(c, s, Append(pieces, x))
  <2> DEFINE t == Append(pieces, x)
  <2>1. /\ \A i \in 1 .. Len(pieces) : t[i] = pieces[i]
        /\ \A i \in 1 .. Len(t) : i \in 1 .. Len(pieces) \/ t[i] = x
    BY AppendIs
  <2> HIDE DEF t
  <2>2. AllBegun(c, s, t)
    BY <1>4, <2>1 DEF AllBegun
  <2> QED BY <2>2 DEF t
<1>5. AllBegun(c, s, <<>>)
  BY DEF AllBegun
<1> QED BY <1>1, <1>2, <1>3, <1>4, <1>5

\* One pump's part of NothingEarly.
PumpBegun(c, s, d, p, i) ==
    /\ AllBegun(c, s, i) /\ AllBegun(c, s, p.chunk) /\ AllBegun(c, s, p.lines)
    /\ p.part # None => Begun(c, s, p.part)

LEMMA PumpKeepsEarly ==
    ASSUME Typed, NothingEarly, NEW d \in Directions, NEW q, PumpGoes(d, q)
    PROVE  NothingEarly'
<1> DEFINE p == pump[d]
           AB(s) == AllBegun(client, server, s)
<1>0. /\ p \in Pumps /\ inp[d] \in Seq(Piece) /\ p.chunk \in Seq(Piece) /\ p.lines \in Seq(Piece)
      /\ inp \in [Directions -> Seq(Piece)] /\ rec \in Trace
  BY TypedPump, PumpFields DEF Typed
<1>1. /\ UNCHANGED <<client, server>> /\ pump'[d] = q
      /\ \A o \in Directions : o # d => pump'[o] = pump[o]
  BY DEF PumpGoes, Becomes
<1>2. /\ AB(inp[d]) /\ AB(p.chunk) /\ AB(p.lines)
      /\ p.part # None => Begun(client, server, p.part)
      /\ TapeBegun(client, server, rec)
  BY DEF NothingEarly
<1>3. ASSUME \A o \in Directions : o # d => inp'[o] = inp[o],
             PumpBegun(client, server, d, q, inp'[d]),
             TapeBegun(client, server, rec')
      PROVE  NothingEarly'
  <2>1. ASSUME NEW o \in Directions
        PROVE  /\ AllBegun(client', server', inp'[o])
               /\ AllBegun(client', server', pump'[o].chunk)
               /\ AllBegun(client', server', pump'[o].lines)
               /\ pump'[o].part # None => Begun(client', server', pump'[o].part)
    <3>1. CASE o = d
      BY <1>1, <1>3, <3>1 DEF PumpBegun
    <3>2. CASE o # d
      BY <1>1, <1>3, <3>2 DEF NothingEarly
    <3> QED BY <3>1, <3>2
  <2> QED BY <1>1, <1>3, <2>1 DEF NothingEarly
<1>4. CASE \E n : ReadsAs(d, q, n)
  <2>1. PICK n : ReadsAs(d, q, n)
    BY <1>4
  <2> DEFINE a == SubSeq(inp[d], 1, n)
             z == SubSeq(inp[d], n + 1, Len(inp[d]))
  <2>2. /\ n \in 1 .. Len(inp[d]) /\ q.chunk = a /\ q.lines = a /\ rec' = rec
        /\ inp' = [inp EXCEPT ![d] = z]
        /\ q.part # None => inp[d][n].msg = q.part
    BY <2>1 DEF ReadsAs
  <2>3. n \in 0 .. Len(inp[d]) /\ \A i \in 1 .. n : i \in 1 .. Len(inp[d])
    BY <1>0, <2>2, LenProperties
  <2>4. AB(a) /\ AB(z)
    BY <1>0, <1>2, <2>3, AllBegunParts
  <2>5. q.part # None => Begun(client, server, q.part)
    BY <1>2, <2>2, <2>3 DEF AllBegun
  <2> HIDE DEF a, z
  <2>6. inp'[d] = z /\ \A o \in Directions : o # d => inp'[o] = inp[o]
    BY <1>0, <2>2
  <2> QED BY <1>2, <1>3, <2>2, <2>4, <2>5, <2>6 DEF PumpBegun
<1>5. CASE ReadsEndAs(d, q) \/ StopsAs(d, q)
  <2>1. /\ UNCHANGED <<rec, inp>> /\ q.lines = p.lines /\ q.part = p.part
        /\ q.chunk = p.chunk \/ q.chunk = <<>>
    BY <1>5 DEF ReadsEndAs, StopsAs
  <2>2. AB(<<>>)
    BY <1>0, <1>2, AllBegunParts
  <2> QED BY <1>2, <1>3, <2>1, <2>2 DEF PumpBegun
<1>6. CASE \E m, b : RecordsAs(d, q, m, b)
  <2>1. PICK m, b : RecordsAs(d, q, m, b)
    BY <1>6
  <2>2. /\ m \in Messages /\ b \in BOOLEAN /\ Taken(d, m, b) /\ q.chunk = p.chunk /\ inp' = inp
        /\ \/ \E i \in 1 .. Len(p.lines) :
                /\ m = p.lines[i].msg /\ q.lines = SubSeq(p.lines, i + 1, Len(p.lines))
                /\ q.part = p.part
           \/ m = p.part /\ q.lines = p.lines /\ q.part = None
    BY <2>1 DEF RecordsAs
  <2>3. AB(q.lines) /\ (q.part # None => Begun(client, server, q.part)) /\ Begun(client, server, m)
    <3>1. CASE m = p.part /\ q.lines = p.lines /\ q.part = None
      BY <1>2, <2>2, <3>1, MessageFields
    <3>2. CASE \E i \in 1 .. Len(p.lines) :
                /\ m = p.lines[i].msg /\ q.lines = SubSeq(p.lines, i + 1, Len(p.lines))
                /\ q.part = p.part
      <4>1. PICK i \in 1 .. Len(p.lines) :
                /\ m = p.lines[i].msg /\ q.lines = SubSeq(p.lines, i + 1, Len(p.lines))
                /\ q.part = p.part
        BY <3>2
      <4>2. i \in 0 .. Len(p.lines)
        BY <1>0, LenProperties
      <4>3. AB(q.lines)
        BY <1>0, <1>2, <4>1, <4>2, AllBegunParts
      <4> QED BY <1>2, <4>1, <4>3 DEF AllBegun
    <3> QED BY <2>2, <3>1, <3>2
  <2>4. TapeBegun(client, server, rec')
    <3>1. Adds(rec, rec', m)
      BY <2>2, TakenAdds
    <3>2. BeginsOn
      BY <1>1 DEF BeginsOn
    <3>3. TapeBegun(client', server', rec')
      BY <1>0, <1>1, <1>2, <2>3, <3>1, <3>2, TapeBegunOn
    <3> QED BY <1>1, <3>3
  <2> QED BY <1>2, <1>3, <2>2, <2>3, <2>4 DEF PumpBegun
<1>7. CASE WritesAs(d, q)
  <2>1. /\ UNCHANGED <<rec, inp>> /\ p.chunk # <<>> /\ q.chunk = Tail(p.chunk)
        /\ q.lines = p.lines /\ q.part = p.part
    BY <1>7 DEF WritesAs
  <2>2. AB(q.chunk)
    BY <1>0, <1>2, <2>1, AllBegunParts
  <2> QED BY <1>2, <1>3, <2>1, <2>2 DEF PumpBegun
<1> QED BY <1>4, <1>5, <1>6, <1>7 DEF PumpGoes

LEMMA MainKeepsEarly ==
    ASSUME Typed, NothingEarly, MainGoes
    PROVE  NothingEarly'
<1>1. BeginsOn
  BY MainBeginsOn
<1>2. UNCHANGED <<inp, client>> /\ server'.rest = server.rest /\ Adds(rec, rec', None)
  BY DEF MainGoes, SameRest
<1>3. rec \in Trace /\ client.rest \in Seq(Piece) /\ server.rest \in Seq(Piece)
  BY DEF Typed, Clients, Servers
<1>4. TapeBegun(client', server', rec')
  BY <1>1, <1>2, <1>3, TapeBegunOn DEF NothingEarly
<1>5. ASSUME NEW d \in Directions
      PROVE  /\ AllBegun(client', server', inp'[d])
             /\ AllBegun(client', server', pump'[d].chunk)
             /\ AllBegun(client', server', pump'[d].lines)
             /\ pump'[d].part # None => Begun(client', server', pump'[d].part)
  <2>1. /\ inp[d] \in Seq(Piece) /\ pump[d].chunk \in Seq(Piece) /\ pump[d].lines \in Seq(Piece)
        /\ pump[d].part \in Messages \union {None}
    BY TypedPump, PumpFields
  <2>2. /\ AllBegun(client', server', inp[d]) /\ AllBegun(client', server', pump[d].chunk)
        /\ AllBegun(client', server', pump[d].lines)
        /\ pump[d].part # None => Begun(client', server', pump[d].part)
    <3>1. /\ AllBegun(client, server, inp[d]) /\ AllBegun(client, server, pump[d].chunk)
          /\ AllBegun(client, server, pump[d].lines)
          /\ pump[d].part # None => Begun(client, server, pump[d].part)
      BY DEF NothingEarly
    <3> QED BY <1>1, <2>1, <3>1, AllBegunOn DEF BeginsOn
  <2>3. /\ pump'[d].part = pump[d].part
        /\ \/ pump'[d].chunk = pump[d].chunk /\ pump'[d].lines = pump[d].lines
           \/ pump'[d].chunk = <<>> /\ pump'[d].lines = <<>>
    BY DEF MainGoes, Leaves
  <2>4. AllBegun(client', server', <<>>)
    BY DEF AllBegun
  <2> QED BY <1>2, <2>2, <2>3, <2>4
<1>6. AllBegun(client', server', client'.rest) /\ AllBegun(client', server', server'.rest)
  BY <1>1, <1>2, <1>3, AllBegunOn DEF NothingEarly
<1> QED BY <1>4, <1>5, <1>6 DEF NothingEarly

\* The environment puts in what it has begun.
LEMMA EarlyFrom ==
    ASSUME Typed, NothingEarly, UNCHANGED <<rec, pump>>, BeginsOn,
           \A d \in Directions :
              \/ inp'[d] = inp[d]
              \/ \E x \in Piece : inp'[d] = Append(inp[d], x) /\ Begun(client', server', x.msg),
           AllBegun(client', server', client'.rest), AllBegun(client', server', server'.rest)
    PROVE  NothingEarly'
<1>1. rec \in Trace /\ Adds(rec, rec', None)
  BY AddsNothing DEF Typed
<1>2. TapeBegun(client', server', rec')
  BY <1>1, TapeBegunOn DEF NothingEarly
<1>3. ASSUME NEW d \in Directions
      PROVE  /\ AllBegun(client', server', inp'[d])
             /\ AllBegun(client', server', pump'[d].chunk)
             /\ AllBegun(client', server', pump'[d].lines)
             /\ pump'[d].part # None => Begun(client', server', pump'[d].part)
  <2>1. /\ inp[d] \in Seq(Piece) /\ pump[d].chunk \in Seq(Piece) /\ pump[d].lines \in Seq(Piece)
        /\ pump[d].part \in Messages \union {None}
    BY TypedPump, PumpFields
  <2>2. /\ AllBegun(client, server, inp[d]) /\ AllBegun(client, server, pump[d].chunk)
        /\ AllBegun(client, server, pump[d].lines)
        /\ pump[d].part # None => Begun(client, server, pump[d].part)
    BY DEF NothingEarly
  <2>3. /\ AllBegun(client', server', inp[d]) /\ AllBegun(client', server', pump[d].chunk)
        /\ AllBegun(client', server', pump[d].lines)
        /\ pump[d].part # None => Begun(client', server', pump[d].part)
    BY <2>1, <2>2, AllBegunOn DEF BeginsOn
  <2>4. AllBegun(client', server', inp'[d])
    BY <2>1, <2>3, AllBegunParts
  <2> QED BY <2>3, <2>4
<1> QED BY <1>2, <1>3 DEF NothingEarly

\* The pieces of a message that has been begun.
LEMMA StartBegun ==
    ASSUME NEW c, NEW s, NEW m, NEW piece, NEW rest, StartsAs(m, piece, rest), Begun(c, s, m)
    PROVE  Begun(c, s, piece.msg) /\ AllBegun(c, s, rest)
<1>1. CASE piece = Final(m) /\ rest = <<>>
  BY <1>1 DEF Final, AllBegun
<1>2. CASE piece = [msg |-> m, last |-> FALSE] /\ rest = <<Final(m)>>
  <2>1. Len(rest) = 1 /\ rest[1] = Final(m)
    BY <1>2
  <2>2. \A i \in 1 .. Len(rest) : rest[i] = Final(m)
    BY <2>1
  <2> QED BY <1>2, <2>2 DEF Final, AllBegun
<1> QED BY <1>1, <1>2 DEF StartsAs

LEMMA EnvKeepsEarly ==
    ASSUME Typed, Flows, InTurn, NothingEarly, EnvGoes
    PROVE  NothingEarly'
<1>0. /\ C2S \in Directions /\ S2C \in Directions /\ UNCHANGED <<rec, pump>> /\ BeginsOn
      /\ client.rest \in Seq(Piece) /\ server.rest \in Seq(Piece)
      /\ AllBegun(client, server, client.rest) /\ AllBegun(client, server, server.rest)
  BY EnvBeginsOn DEF C2S, S2C, Directions, EnvGoes, NothingEarly, Typed, Clients, Servers
<1>1. AllBegun(client', server', client.rest) /\ AllBegun(client', server', server.rest)
  BY <1>0, AllBegunOn
<1>2. CASE \E piece, c : ClientSendsAs(piece, c)
  <2>1. PICK piece, c : ClientSendsAs(piece, c)
    BY <1>2
  <2>2. /\ piece \in Piece /\ inp'[C2S] = Append(inp[C2S], piece) /\ client' = c /\ server' = server
        /\ \A o \in Directions : o # C2S => inp'[o] = inp[o]
    BY <1>0, <2>1, EmitTypes DEF ClientSendsAs
  <2>3. Begun(client', server', piece.msg) /\ AllBegun(client', server', client'.rest)
    <3>1. CASE client.rest # <<>> /\ piece = Head(client.rest) /\ c.rest = Tail(client.rest)
      BY <1>0, <1>1, <2>2, <3>1, AllBegunParts
    <3>2. CASE /\ client.rest = <<>> /\ c.begun = client.begun + 1
               /\ StartsAs(<<"request", client.begun + 1>>, piece, c.rest)
      <4>1. client.begun \in Nat
        BY DEF Typed, Clients
      <4>2. Begun(client', server', <<"request", client.begun + 1>>)
        BY <2>2, <3>2, <4>1 DEF Begun
      <4> QED BY <2>2, <3>2, <4>2, StartBegun
    <3> QED BY <2>1, <3>1, <3>2 DEF ClientSendsAs
  <2> QED BY <1>0, <1>1, <2>2, <2>3, EarlyFrom
<1>3. CASE \E piece, s, m : ServerSendsAs(piece, s, m)
  <2>1. PICK piece, s, m : ServerSendsAs(piece, s, m)
    BY <1>3
  <2>2. piece \in Piece /\ server' = s /\ client' = client
    BY <2>1 DEF ServerSendsAs
  <2>3. Begun(client', server', piece.msg) /\ AllBegun(client', server', server'.rest)
    <3>1. CASE server.rest # <<>> /\ piece = Head(server.rest) /\ s.rest = Tail(server.rest)
      BY <1>0, <1>1, <2>2, <3>1, AllBegunParts
    <3>2. CASE server.rest = <<>> /\ StartsAs(m, piece, s.rest)
      BY <2>1, <2>2, <3>2, ServerBeginsOn, StartBegun
    <3> QED BY <2>1, <3>1, <3>2 DEF ServerSendsAs
  <2>4. \A d \in Directions : inp'[d] = inp[d] \/ inp'[d] = Append(inp[d], piece)
    <3>1. CASE UNCHANGED <<inp, sent>>
      BY <3>1
    <3>2. CASE Len(inp[S2C]) < setup.room /\ Emits(S2C, piece)
      BY <1>0, <2>2, <3>2, EmitTypes
    <3> QED BY <2>1, <3>1, <3>2 DEF ServerSendsAs, ServerGives
  <2> QED BY <1>0, <1>1, <2>2, <2>3, <2>4, EarlyFrom
<1>4. CASE (\E s : ServerReceivesAs(s)) \/ WorldGoes
  <2>1. inp' = inp /\ client'.rest = client.rest /\ server'.rest = server.rest
    BY <1>4 DEF ServerReceivesAs, WorldGoes
  <2> QED BY <1>0, <1>1, <2>1, EarlyFrom
<1> QED BY <1>2, <1>3, <1>4 DEF EnvGoes

-----------------------------------------------------------------------------
(* What is handed on was recorded, and the order of the trace.                 *)

\* A message that cannot be on the tape any more, or is.
LEMMA SettledOn ==
    ASSUME NEW r \in Trace, NEW x, NEW m, Adds(r, x, m), NEW mn, NEW mn2,
           mn.stop # "none" => mn2.stop # "none"
    PROVE  \A d, k : Settled(r, mn, d, k) => Settled(x, mn2, d, k)
<1>1. Extends(r, x, m) /\ (r.dropped # 0 => x.dropped # 0)
  BY AddsExtends DEF Adds
<1>2. ASSUME NEW d, NEW k, OnTape(r, d, k) PROVE OnTape(x, d, k)
  BY <1>1, <1>2 DEF OnTape, Extends
<1> QED BY <1>1, <1>2 DEF Settled

\* One pump's part of RecordFirst.
Recordings(r, mn, d, g, p) ==
    /\ \A k \in 1 .. Len(g) : g[k] \in Recordable => Settled(r, mn, d, g[k])
    /\ \A i \in 1 .. Len(p.chunk) :
          p.chunk[i].last /\ p.chunk[i].msg \in Recordable =>
              Settled(r, mn, d, p.chunk[i].msg) \/ Pending(p.lines, p.chunk[i].msg)

\* What a pump takes is settled.
LEMMA TakenSettles ==
    ASSUME Typed, Closing, NEW d \in Directions, PumpRuns(d), NEW m \in Recordable, NEW b \in BOOLEAN,
           Taken(d, m, b)
    PROVE  Settled(rec', main, d, m)
<1> DEFINE e == MessageEvent(d, [msg |-> m, full |-> b])
<1>1. m \in Messages /\ m[1] \notin setup.oversized /\ rec \in Trace
  BY DEF Recordable, Typed
<1>2. e.msg = m /\ e.dir = d
  BY <1>1, EventTypes
<1>3. Recorded(rec, rec', e)
  BY <1>1 DEF Taken
<1> HIDE DEF e
<1>4. Wrote(rec, rec', e)
  BY <1>3 DEF Recorded
<1>5. CASE Tape(rec') = Tape(rec) /\ (rec.closed \/ rec'.dropped # 0)
  <2>1. rec.closed => main.stop # "none"
    BY DEF Closing, Asked
  <2> QED BY <1>5, <2>1 DEF Settled
<1>6. CASE \E line \in Lines : line.ev = e /\ Tape(rec') = Append(Tape(rec), line)
  <2>1. PICK line \in Lines : line.ev = e /\ Tape(rec') = Append(Tape(rec), line)
    BY <1>6
  <2> DEFINE t == Tape(rec')
  <2>2. Len(t) \in Nat /\ Len(t) > 0 /\ t[Len(t)].ev.msg = m /\ t[Len(t)].ev.dir = d
    BY <1>1, <1>2, <2>1, TapeGrows
  <2>3. Len(t) \in 1 .. Len(t)
    BY <2>2
  <2> QED BY <2>2, <2>3 DEF Settled, OnTape
<1> QED BY <1>4, <1>5, <1>6 DEF Wrote

\* What is behind the line just taken is still to be taken.
LEMMA StillPending ==
    ASSUME NEW s \in Seq(Piece), NEW i \in 1 .. Len(s), Completes(s, i),
           NEW k, k # s[i].msg, Pending(s, k)
    PROVE  Pending(SubSeq(s, i + 1, Len(s)), k)
<1> DEFINE n == Len(s)
           t == SubSeq(s, i + 1, n)
<1>1. PICK j \in 1 .. n : s[j].last /\ s[j].msg = k
  BY DEF Pending
<1>2. n \in Nat /\ i \in 0 .. n
  BY LenProperties
<1>3. Len(t) = n - i /\ \A h \in 1 .. n - i : t[h] = s[i + h]
  BY <1>2, RestOf
<1>4. j \notin 1 .. i - 1 /\ j # i
  BY <1>1 DEF Completes
<1> HIDE DEF n, t
<1>5. j - i \in 1 .. n - i /\ i + (j - i) = j
  BY <1>1, <1>2, <1>4
<1>6. Pending(t, k)
  BY <1>1, <1>3, <1>5 DEF Pending
<1> QED BY <1>6 DEF t, n

LEMMA PumpKeepsRecordFirst ==
    ASSUME Typed, Closing, RecordFirst, NEW d \in Directions, NEW q, PumpGoes(d, q)
    PROVE  RecordFirst'
<1> DEFINE p == pump[d]
           S(k) == Settled(rec', main, d, k)
<1>0. /\ p \in Pumps /\ inp[d] \in Seq(Piece) /\ p.chunk \in Seq(Piece) /\ p.lines \in Seq(Piece)
      /\ given \in [Directions -> Seq(Messages)] /\ rec \in Trace /\ given[d] \in Seq(Messages)
      /\ PumpRuns(d)
  BY TypedPump, PumpFields DEF Typed, PumpGoes
<1>1. /\ main' = main /\ pump'[d] = q /\ Recordable' = Recordable
      /\ \A o \in Directions : o # d => pump'[o] = pump[o]
  BY DEF PumpGoes, Becomes, Recordable
<1>2. /\ Recordings(rec, main, d, given[d], p)
      /\ \A o \in Directions : Recordings(rec, main, o, given[o], pump[o])
  BY DEF RecordFirst, Recordings
<1>3. \A o, k : Settled(rec, main, o, k) => Settled(rec', main, o, k)
  <2>1. CASE rec' = rec
    BY <2>1
  <2>2. CASE \E m, b : RecordsAs(d, q, m, b)
    <3>1. PICK m, b : RecordsAs(d, q, m, b)
      BY <2>2
    <3>2. Adds(rec, rec', m)
      BY <3>1, TakenAdds DEF RecordsAs
    <3> QED BY <1>0, <3>2, SettledOn
  <2> QED BY <2>1, <2>2 DEF PumpGoes, ReadsAs, ReadsEndAs, WritesAs, StopsAs
<1>4. ASSUME \A o \in Directions : o # d => given'[o] = given[o],
             Recordings(rec', main, d, given'[d], q)
      PROVE  RecordFirst'
  <2>1. ASSUME NEW o \in Directions PROVE Recordings(rec', main, o, given'[o], pump'[o])
    <3>1. CASE o = d
      BY <1>1, <1>4, <3>1
    <3>2. CASE o # d
      BY <1>1, <1>2, <1>3, <1>4, <3>2 DEF Recordings
    <3> QED BY <3>1, <3>2
  <2> QED BY <1>1, <2>1 DEF RecordFirst, Recordings
<1>5. \A k \in 1 .. Len(given[d]) : given[d][k] \in Recordable => S(given[d][k])
  BY <1>2, <1>3 DEF Recordings
<1>6. CASE \E n : ReadsAs(d, q, n)
  <2>1. PICK n : ReadsAs(d, q, n)
    BY <1>6
  <2>2. q.lines = q.chunk /\ given' = given
    BY <2>1 DEF ReadsAs
  <2>3. Recordings(rec', main, d, given[d], q)
    BY <1>5, <2>2 DEF Recordings, Pending
  <2> QED BY <1>4, <2>2, <2>3
<1>7. CASE ReadsEndAs(d, q) \/ StopsAs(d, q)
  <2>1. given' = given /\ q.lines = p.lines /\ (q.chunk = p.chunk \/ q.chunk = <<>>)
    BY <1>7 DEF ReadsEndAs, StopsAs
  <2>2. Recordings(rec', main, d, given[d], q)
    BY <1>2, <1>3, <1>5, <2>1 DEF Recordings
  <2> QED BY <1>4, <2>1, <2>2
<1>8. CASE \E m, b : RecordsAs(d, q, m, b)
  <2>1. PICK m, b : RecordsAs(d, q, m, b)
    BY <1>8
  <2>2. given' = given /\ q.chunk = p.chunk /\ m \in Messages /\ b \in BOOLEAN /\ Taken(d, m, b)
    BY <2>1 DEF RecordsAs
  <2>3. m \in Recordable => S(m)
    BY <1>0, <2>2, TakenSettles
  <2>4. ASSUME NEW k \in Recordable, Pending(p.lines, k), k # m PROVE Pending(q.lines, k)
    <3>1. CASE q.lines = p.lines
      BY <2>4, <3>1
    <3>2. CASE \E i \in 1 .. Len(p.lines) :
                  /\ Completes(p.lines, i) /\ m = p.lines[i].msg
                  /\ q.lines = SubSeq(p.lines, i + 1, Len(p.lines))
      <4>1. PICK i \in 1 .. Len(p.lines) :
               /\ Completes(p.lines, i) /\ m = p.lines[i].msg
               /\ q.lines = SubSeq(p.lines, i + 1, Len(p.lines))
        BY <3>2
      <4> QED BY <1>0, <2>4, <4>1, StillPending
    <3> QED BY <2>1, <3>1, <3>2 DEF RecordsAs
  <2>5. Recordings(rec', main, d, given[d], q)
    BY <1>2, <1>3, <1>5, <2>2, <2>3, <2>4 DEF Recordings
  <2> QED BY <1>4, <2>2, <2>5
<1>9. CASE WritesAs(d, q)
  <2> DEFINE x == Head(p.chunk)
             g2 == Longer(given[d], x)
  <2>1. /\ p.chunk # <<>> /\ q.chunk = Tail(p.chunk) /\ q.lines = p.lines
        /\ ~\E i \in 1 .. Len(p.lines) : p.lines[i].last
        /\ given' = [given EXCEPT ![d] = g2]
    BY <1>9 DEF WritesAs, Longer
  <2>2. \A i \in 1 .. Len(p.chunk) :
           p.chunk[i].last /\ p.chunk[i].msg \in Recordable => S(p.chunk[i].msg)
    BY <1>2, <1>3, <2>1 DEF Recordings, Pending
  <2>3. /\ x = p.chunk[1] /\ x \in Piece /\ 1 \in 1 .. Len(p.chunk)
        /\ \A i \in 1 .. Len(q.chunk) : q.chunk[i] = p.chunk[i + 1] /\ i + 1 \in 1 .. Len(p.chunk)
    BY <1>0, <2>1, TailIs
  <2>4. x.last /\ x.msg \in Recordable => S(x.msg)
    BY <2>2, <2>3
  <2> HIDE DEF x
  <2>5. /\ \A k \in 1 .. Len(given[d]) : g2[k] = given[d][k]
        /\ x.last => g2[Len(given[d]) + 1] = x.msg
        /\ \A k \in 1 .. Len(g2) : k \in 1 .. Len(given[d]) \/ (x.last /\ k = Len(given[d]) + 1)
    <3> DEFINE g == given[d]
    <3>1. g \in Seq(Messages) /\ x \in Piece /\ g2 = Longer(g, x)
      BY <1>0, <2>3
    <3> HIDE DEF g, g2
    <3>2. /\ \A k \in 1 .. Len(g) : g2[k] = g[k]
          /\ x.last => g2[Len(g) + 1] = x.msg
          /\ \A k \in 1 .. Len(g2) : k \in 1 .. Len(g) \/ (x.last /\ k = Len(g) + 1)
      BY <3>1, LongerType
    <3> QED BY <3>2 DEF g
  <2> HIDE DEF g2
  <2>6. given'[d] = g2 /\ \A o \in Directions : o # d => given'[o] = given[o]
    BY <1>0, <2>1
  <2>7. \A k \in 1 .. Len(g2) : g2[k] \in Recordable => S(g2[k])
    BY <1>5, <2>4, <2>5
  <2>8. Recordings(rec', main, d, g2, q)
    BY <2>2, <2>3, <2>7 DEF Recordings
  <2> QED BY <1>4, <2>6, <2>8
<1> QED BY <1>6, <1>7, <1>8, <1>9 DEF PumpGoes

LEMMA MainKeepsRecordFirst ==
    ASSUME Typed, RecordFirst, MainGoes
    PROVE  RecordFirst'
<1>1. /\ UNCHANGED <<given, setup>> /\ Adds(rec, rec', None) /\ rec \in Trace
      /\ main.stop # "none" => main'.stop # "none"
  BY DEF MainGoes, Typed
<1>2. \A d, k : Settled(rec, main, d, k) => Settled(rec', main', d, k)
  BY <1>1, SettledOn
<1>3. \A d \in Directions : /\ \/ pump'[d].chunk = pump[d].chunk /\ pump'[d].lines = pump[d].lines
                               \/ pump'[d].chunk = <<>> /\ pump'[d].lines = <<>>
  BY DEF MainGoes, Leaves
<1> QED BY <1>1, <1>2, <1>3 DEF RecordFirst, Recordable

LEMMA EnvKeepsRecordFirst ==
    ASSUME RecordFirst, EnvGoes
    PROVE  RecordFirst'
BY DEF EnvGoes, ClientSendsAs, ServerSendsAs, ServerReceivesAs, WorldGoes, RecordFirst, Recordable

\* The pairs hold together on tape r: what came before is on it.
InOrder(r, a, b) ==
    \A i \in 1 .. Len(Tape(r)) :
        Tape(r)[i].ev.msg = b =>
            \E j \in 1 .. i - 1 : Tape(r)[j].ev.msg = a

WasGiven(g, a) == \E d \in Directions : \E k \in 1 .. Len(g[d]) : g[d][k] = a

\* A line more disturbs no pair, when its cause is on the tape.
LEMMA OrderKept ==
    ASSUME NEW r \in Trace, NEW x, NEW m, Adds(r, x, m), NEW a, NEW b, InOrder(r, a, b),
           m = b /\ ~Stuck(r) => \E d : OnTape(r, d, a)
    PROVE  InOrder(x, a, b)
<1> DEFINE n == Len(Tape(r))
<1>1. Extends(r, x, m) /\ n \in Nat
  BY AddsExtends, TapeType
<1>2. SUFFICES ASSUME NEW i \in 1 .. Len(Tape(x)), Tape(x)[i].ev.msg = b
               PROVE  \E j \in 1 .. i - 1 : Tape(x)[j].ev.msg = a
  BY DEF InOrder
<1>3. CASE i \in 1 .. n
  <2>1. PICK j \in 1 .. i - 1 : Tape(r)[j].ev.msg = a
    BY <1>1, <1>2, <1>3 DEF InOrder, Extends
  <2>2. j \in 1 .. n
    BY <1>1, <1>3
  <2> QED BY <1>1, <2>1, <2>2 DEF Extends
<1>4. CASE i = n + 1 /\ Tape(x)[i].ev.msg = m /\ ~Stuck(r)
  <2>1. PICK j \in 1 .. n : Tape(r)[j].ev.msg = a
    BY <1>2, <1>4 DEF OnTape
  <2>2. j \in 1 .. i - 1
    BY <1>1, <1>4
  <2> QED BY <1>1, <2>1, <2>2 DEF Extends
<1> QED BY <1>1, <1>3, <1>4 DEF Extends

\* What is given stays given.
LEMMA GivenStays ==
    ASSUME Typed, NEW d \in Directions, NEW q, PumpGoes(d, q), NEW a, WasGiven(given, a)
    PROVE  WasGiven(given', a)
<1>1. CASE WritesAs(d, q)
  <2> DEFINE x == Head(pump[d].chunk)
             g == given[d]
             g2 == Longer(g, x)
  <2>1. given' = [given EXCEPT ![d] = g2] /\ pump[d].chunk # <<>>
    BY <1>1 DEF WritesAs, Longer
  <2>2. g \in Seq(Messages) /\ x \in Piece /\ given \in [Directions -> Seq(Messages)]
    BY <2>1, TypedPump, PumpFields, TailIs DEF Typed
  <2>3. given'[d] = g2 /\ \A o \in Directions : o # d => given'[o] = given[o]
    BY <2>1, <2>2
  <2>4. Len(g) \in Nat /\ Len(g2) \in Nat /\ Len(g) <= Len(g2) /\ \A k \in 1 .. Len(g) : g2[k] = g[k]
    <3>1. g2 = Longer(g, x)
      OBVIOUS
    <3> HIDE DEF g, g2, x
    <3>2. /\ Len(g) \in Nat /\ Len(g2) \in Nat /\ Len(g2) = Len(g) + (IF x.last THEN 1 ELSE 0)
          /\ \A k \in 1 .. Len(g) : g2[k] = g[k]
      BY <2>2, <3>1, LongerType
    <3> QED BY <3>2
  <2>5. PICK o \in Directions : \E k \in 1 .. Len(given[o]) : given[o][k] = a
    BY DEF WasGiven
  <2>6. PICK k \in 1 .. Len(given[o]) : given[o][k] = a
    BY <2>5
  <2> HIDE DEF g2
  <2>7. CASE o = d
    <3>1. k \in 1 .. Len(g2) /\ g2[k] = a
      BY <2>4, <2>6, <2>7
    <3> QED BY <2>3, <3>1 DEF WasGiven
  <2>8. CASE o # d
    BY <2>3, <2>6, <2>8 DEF WasGiven
  <2> QED BY <2>7, <2>8
<1>2. CASE given' = given
  BY <1>2 DEF WasGiven
<1> QED BY <1>1, <1>2 DEF PumpGoes, ReadsAs, ReadsEndAs, RecordsAs, StopsAs

\* Ordered, by its parts.
Pairs(r, g, pairs) ==
    \A pair \in pairs : /\ WasGiven(g, pair[1])
                        /\ pair[1] \in Recordable => InOrder(r, pair[1], pair[2])

LEMMA PairsOrdered == Ordered <=> Pairs(rec, given, before)
BY DEF Ordered, Pairs, WasGiven, InOrder

LEMMA PumpKeepsOrdered ==
    ASSUME Typed, Closing, RecordFirst, Ordered, NEW d \in Directions, NEW q, PumpGoes(d, q)
    PROVE  Ordered'
<1>0. rec \in Trace /\ before' = before /\ Recordable' = Recordable
  BY DEF Typed, PumpGoes, Recordable
<1>1. Pairs(rec, given, before)
  BY PairsOrdered
<1>2. \E m : Adds(rec, rec', m)
  <2>1. CASE \E m, b : RecordsAs(d, q, m, b)
    <3>1. PICK m, b : RecordsAs(d, q, m, b)
      BY <2>1
    <3> QED BY <3>1, TakenAdds DEF RecordsAs
  <2>2. CASE rec' = rec
    BY <1>0, <2>2, AddsNothing
  <2> QED BY <2>1, <2>2 DEF PumpGoes, ReadsAs, ReadsEndAs, WritesAs, StopsAs
<1>3. PICK m : Adds(rec, rec', m)
  BY <1>2
<1>4. ASSUME NEW pair \in before
      PROVE  /\ WasGiven(given', pair[1])
             /\ pair[1] \in Recordable => InOrder(rec', pair[1], pair[2])
  <2>1. WasGiven(given, pair[1])
    BY <1>1 DEF Pairs
  <2>2. WasGiven(given', pair[1])
    BY <2>1, GivenStays
  <2>3. ASSUME pair[1] \in Recordable PROVE InOrder(rec', pair[1], pair[2])
    <3>1. \E o : Settled(rec, main, o, pair[1])
      BY <2>1, <2>3 DEF WasGiven, RecordFirst
    <3>2. ~Stuck(rec) => rec.dropped = 0 /\ main.stop = "none"
      BY DEF Stuck, Closing, Asked
    <3>3. ~Stuck(rec) => \E o : OnTape(rec, o, pair[1])
      BY <3>1, <3>2 DEF Settled
    <3>4. InOrder(rec, pair[1], pair[2])
      BY <1>1, <2>3 DEF Pairs
    <3> QED BY <1>0, <1>3, <3>3, <3>4, OrderKept
  <2> QED BY <2>2, <2>3
<1>5. Pairs(rec', given', before')
  BY <1>0, <1>4 DEF Pairs
<1> QED BY <1>0, <1>5 DEF Ordered, Pairs, WasGiven, InOrder

LEMMA MainKeepsOrdered ==
    ASSUME Typed, Ordered, MainGoes
    PROVE  Ordered'
<1>0. /\ rec \in Trace /\ before \subseteq Messages \X Messages
      /\ UNCHANGED <<given, before, setup>> /\ Adds(rec, rec', None)
      /\ Pairs(rec, given, before)
  BY PairsOrdered DEF Typed, MainGoes
<1>1. ASSUME NEW pair \in before, pair[1] \in Recordable
      PROVE  InOrder(rec', pair[1], pair[2])
  <2>1. pair[2] # None
    BY <1>0, MessageFields
  <2>2. InOrder(rec, pair[1], pair[2])
    BY <1>0, <1>1 DEF Pairs
  <2> QED BY <1>0, <2>1, <2>2, OrderKept
<1>2. Recordable' = Recordable
  BY <1>0 DEF Recordable
<1>3. Pairs(rec', given', before')
  BY <1>0, <1>1 DEF Pairs
<1> QED BY <1>2, <1>3 DEF Ordered, Pairs, WasGiven, InOrder

\* A message that has not been begun is not on the tape.
LEMMA NewIsOff ==
    ASSUME NothingEarly, NEW m \in Messages, ~Begun(client, server, m), NEW a
    PROVE  InOrder(rec, a, m)
BY MessageFields DEF NothingEarly, TapeBegun, InOrder

LEMMA EnvKeepsOrdered ==
    ASSUME Typed, InTurn, NothingEarly, Ordered, EnvGoes
    PROVE  Ordered'
<1>0. UNCHANGED <<rec, given, setup>> /\ Pairs(rec, given, before)
  BY PairsOrdered DEF EnvGoes, ClientSendsAs, ServerSendsAs, ServerReceivesAs, WorldGoes
<1>r. Recordable' = Recordable
  BY <1>0 DEF Recordable
<1>1. ASSUME NEW d \in Directions, NEW m \in Messages, Begins(d, m), ~Begun(client, server, m)
      PROVE  Ordered'
  <2>1. \A pair \in before' : pair \in before \/ (pair[2] = m /\ WasGiven(given, pair[1]))
    BY <1>1, BeginsTypes DEF WasGiven
  <2>2. \A a : InOrder(rec, a, m)
    BY <1>1, NewIsOff
  <2>3. Pairs(rec, given, before')
    BY <1>0, <2>1, <2>2 DEF Pairs
  <2> QED BY <1>0, <1>r, <2>3 DEF Ordered, Pairs, WasGiven, InOrder
<1>2. CASE UNCHANGED before
  BY <1>0, <1>2 DEF Ordered, Recordable
<1>3. CASE \E piece, c : ClientSendsAs(piece, c)
  <2> DEFINE m == <<"request", client.begun + 1>>
  <2>1. PICK piece, c : ClientSendsAs(piece, c)
    BY <1>3
  <2>2. CASE client.begun < setup.requests /\ Begins(C2S, m)
    <3>1. C2S \in Directions
      BY DEF C2S, Directions
    <3>2. client.begun \in Nat /\ client.begun + 1 \in 1 .. Requests
      BY <2>2, <3>1, TypedPump DEF Typed, Clients
    <3>3. m \in Messages
      BY <3>2 DEF Messages
    <3>4. ~Begun(client, server, m)
      BY <3>2 DEF Begun
    <3> QED BY <1>1, <2>2, <3>1, <3>3, <3>4
  <2> QED BY <1>2, <2>1, <2>2 DEF ClientSendsAs
<1>4. CASE \E piece, s, m : ServerSendsAs(piece, s, m)
  <2>1. PICK piece, s, m : ServerSendsAs(piece, s, m)
    BY <1>4
  <2>2. CASE server.rest = <<>> /\ Begins(S2C, m)
    <3>1. S2C \in Directions
      BY DEF S2C, Directions
    <3>2. m \in Messages /\ ~Begun(client, server, m)
      BY <2>1, <2>2, ServerBeginsOn
    <3> QED BY <1>1, <2>2, <3>1, <3>2
  <2> QED BY <1>2, <2>1, <2>2 DEF ServerSendsAs
<1>5. CASE (\E s : ServerReceivesAs(s)) \/ WorldGoes
  BY <1>2, <1>5 DEF ServerReceivesAs, WorldGoes
<1> QED BY <1>3, <1>4, <1>5 DEF EnvGoes

-----------------------------------------------------------------------------
(* The invariant. *)

LEMMA InitPInv == Init => PInv
<1>1. SUFFICES ASSUME Init PROVE PInv
  OBVIOUS
<1>0. /\ <<>> \in Seq(Piece) /\ <<>> \in Seq(Messages) /\ Len(<<>>) = 0
      /\ C2S \in Directions /\ S2C \in Directions
  BY DEF C2S, S2C, Directions
<1>2. /\ rec \in Trace /\ Tape(rec) = <<>> /\ Held(rec)
      /\ ~rec.closed /\ ~rec.failed /\ rec.dropped = 0 /\ rec.afterClose = 0
  BY <1>1, NewTrace DEF Init
<1>3. /\ main = [phase |-> "starting", clientClosed |-> FALSE, clientFinished |-> FALSE,
                 stop |-> "none", hurried |-> FALSE]
      /\ \A d \in Directions :
            /\ pump[d] = [state |-> "off", chunk |-> <<>>, lines |-> <<>>, part |-> None,
                          eof |-> FALSE, aborting |-> FALSE, oversized |-> 0]
            /\ inp[d] = <<>> /\ outp[d] = <<>> /\ sent[d] = <<>> /\ given[d] = <<>>
      /\ client = [state |-> "reading", closed |-> FALSE, rest |-> <<>>, begun |-> 0]
      /\ server = [alive |-> setup.procs, reads |-> TRUE, owes |-> <<>>, rest |-> <<>>,
                   noted |-> FALSE, read |-> 0, told |-> {}, clean |-> TRUE]
      /\ before = {} /\ setup \in Setups /\ signals.pending = {}
  BY <1>1 DEF Init
<1>4. setup.procs \subseteq Procs /\ setup.room \in Nat /\ setup.requests \in Nat
  <2>1. setup \in Setup
    BY <1>3, StdioAssumption
  <2> QED BY <2>1, StdioAssumption DEF Setup
<1>5. Typed
  <2>1. main \in Mains
    BY <1>3 DEF Mains, MainPhases
  <2>2. pump \in [Directions -> Pumps]
    <3>1. \A d \in Directions : pump[d] \in Pumps
      <4>1. [state |-> "off", chunk |-> <<>>, lines |-> <<>>, part |-> None,
             eof |-> FALSE, aborting |-> FALSE, oversized |-> 0] \in Pumps
        BY <1>0 DEF Pumps, PumpStates
      <4> QED BY <1>3, <4>1
    <3> QED BY <1>1, <3>1 DEF Init
  <2>3. /\ inp \in [Directions -> Seq(Piece)] /\ outp \in [Directions -> Seq(Piece)]
        /\ sent \in [Directions -> Seq(Messages)] /\ given \in [Directions -> Seq(Messages)]
    BY <1>0, <1>1 DEF Init
  <2>4. client \in Clients /\ server \in Servers
    BY <1>0, <1>3, <1>4 DEF Clients, Servers
  <2>5. /\ server.alive \subseteq setup.procs /\ server.told \subseteq setup.group
        /\ signals.pending \subseteq Stops /\ before \subseteq Messages \X Messages
    BY <1>3
  <2>6. \A d \in Directions : /\ Len(inp[d]) <= setup.room /\ Len(outp[d]) <= setup.room
                              /\ Len(pump[d].lines) <= setup.room /\ Len(pump[d].chunk) <= setup.room
    BY <1>0, <1>3, <1>4
  <2> QED BY <1>2, <1>3, <2>1, <2>2, <2>3, <2>4, <2>5, <2>6 DEF Typed
<1>6. PhasesAgree /\ PumpsAgree /\ DrainAgrees
  BY <1>0, <1>2, <1>3 DEF PhasesAgree, PumpsAgree, DrainAgrees, Asked, Ended, Joined, Over, PumpRuns
<1>7. Closing
  <2>1. summary.error = FALSE /\ summary.afterClose = 0
    BY <1>1, <1>2 DEF Init, SummaryOf
  <2>2. CleanCloses(rec, main.clientClosed)
    BY <1>0, <1>2 DEF CleanCloses
  <2> QED BY <1>2, <1>3, <2>1, <2>2 DEF Closing, Asked, Finished
<1>8. Flows
  <2>1. Flow(<<>>, <<>>, 0)
    BY <1>0, FlowEmpty
  <2>2. <<>> \o <<>> = <<>>
    BY <1>0, ConcatEmptySeq
  <2>3. Prefix(<<>>, <<>>)
    BY <1>0 DEF Prefix
  <2>4. server.read = 0 /\ \A d \in Directions :
           pump[d].chunk = <<>> /\ inp[d] = <<>> /\ sent[d] = <<>> /\ given[d] = <<>>
    BY <1>3
  <2>5. outp[C2S] = <<>> /\ Len(<<>>) = 0
    BY <1>0, <1>3
  <2>6. \A d \in Directions : /\ pump[d].chunk \o inp[d] = <<>> /\ Len(given[d]) = 0
                              /\ sent[d] = <<>> /\ given[d] = <<>>
    BY <2>2, <2>4, <2>5
  <2> QED BY <1>0, <2>1, <2>3, <2>4, <2>5, <2>6 DEF Flows
<1>9. InTurn
  BY <1>0, <1>3, <1>4 DEF InTurn
<1>10. NothingEarly
  <2>1. AllBegun(client, server, <<>>) /\ TapeBegun(client, server, rec)
    BY <1>0, <1>2 DEF AllBegun, TapeBegun
  <2> QED BY <1>3, <2>1 DEF NothingEarly
<1>11. RecordFirst /\ Ordered
  BY <1>0, <1>3 DEF RecordFirst, Ordered
<1> QED BY <1>5, <1>6, <1>7, <1>8, <1>9, <1>10, <1>11 DEF PInv

LEMMA StepPInv == PInv /\ [Next]_vars => PInv'
<1>1. SUFFICES ASSUME PInv, [Next]_vars PROVE PInv'
  OBVIOUS
<1>0. /\ Typed /\ PhasesAgree /\ PumpsAgree /\ DrainAgrees /\ Closing
      /\ Flows /\ InTurn /\ NothingEarly /\ RecordFirst /\ Ordered
  BY <1>1 DEF PInv
<1>2. CASE MainStep \/ Kill
  <2>1. MainGoes /\ Calm /\ Turns
    BY <1>0, <1>2, MainStepGoes, MainCalm, MainStepTurns
  <2>2. Typed' /\ Flows' /\ NothingEarly' /\ RecordFirst' /\ Ordered' /\ Closing'
    BY <1>0, <1>2, <2>1, MainKeepsTypes, MainKeepsFlows, MainKeepsEarly, MainKeepsRecordFirst,
       MainKeepsOrdered, MainKeepsClosing
  <2>3. PhasesAgree' /\ PumpsAgree'
    BY <1>0, <2>1, TurnsKeepPhases, TurnsKeepPumps
  <2>4. rec'.closed => rec.closed \/ CloseTurns \/ StopTurns
    <3>1. CASE BeginStop \/ CloseSession
      BY <1>0, <3>1, MainTurns
    <3>2. CASE OpenTrace
      BY <1>0, <3>2, MainRecords DEF OpenTraceRecords, Recorded
    <3>3. CASE FinishSession \/ Exit \/ Kill
      BY <1>0, <3>3, EndRests DEF Rested
    <3>4. CASE UNCHANGED rec
      BY <3>4
    <3> QED BY <1>2, <3>1, <3>2, <3>3, <3>4
            DEF MainStep, OpenFails, ClientRelayEnds, ServerExitSeen, ClientJoined, RelayStop,
                StopKills, RelayEnds, DrainKills, AbandonRelay
  <2>5. DrainAgrees'
    BY <1>0, <2>1, <2>4, TurnsKeepDrain
  <2>6. InTurn'
    BY <1>0, <2>1, SameInTurn DEF MainGoes, SameRest
  <2> QED BY <2>2, <2>3, <2>5, <2>6 DEF PInv
<1>3. CASE \E d \in Directions : PumpStep(d)
  <2>1. PICK d \in Directions : PumpStep(d)
    BY <1>3
  <2>2. PICK q : PumpGoes(d, q)
    BY <1>0, <2>1, PumpStepGoes
  <2>3. PumpTurns(d, q)
    BY <1>0, <2>2, PumpTurned
  <2>4. rec'.closed = rec.closed
    BY <2>3 DEF PumpTurns, Recorded
  <2>5. Typed' /\ Flows' /\ NothingEarly' /\ RecordFirst' /\ Ordered' /\ Closing'
    BY <1>0, <2>2, <2>3, PumpKeepsTypes, PumpKeepsFlows, PumpKeepsEarly, PumpKeepsRecordFirst,
       PumpKeepsOrdered, PumpKeepsClosing
  <2>6. PhasesAgree' /\ PumpsAgree' /\ DrainAgrees'
    BY <1>0, <2>3, <2>4, PumpKeepsPhases, PumpKeepsPumps, PumpKeepsDrain
  <2>7. InTurn'
    BY <1>0, <2>2, SameInTurn DEF PumpGoes
  <2> QED BY <2>5, <2>6, <2>7 DEF PInv
<1>4. CASE EnvStep
  <2>1. EnvGoes
    BY <1>0, <1>4, EnvStepGoes
  <2>2. EnvTurns
    BY <1>0, <2>1, EnvTurned
  <2>3. /\ Typed' /\ Flows' /\ InTurn' /\ NothingEarly' /\ RecordFirst' /\ Ordered' /\ Closing'
    BY <1>0, <2>1, <2>2, EnvKeepsTypes, EnvKeepsFlows, EnvKeepsTurn, EnvKeepsEarly,
       EnvKeepsRecordFirst, EnvKeepsOrdered, EnvKeepsClosing
  <2>4. PhasesAgree' /\ PumpsAgree' /\ DrainAgrees'
    BY <1>0, <2>2, EnvKeepsControl
  <2> QED BY <2>3, <2>4 DEF PInv
<1>5. CASE UNCHANGED vars
  <2>1. UNCHANGED <<rec, main, pump, summary, inp, outp, client, server, setup, signals,
                    sent, given, before>>
    BY <1>5 DEF vars, env
  <2> QED BY <1>0, <2>1
          DEF PInv, Typed, PhasesAgree, PumpsAgree, DrainAgrees, Closing, Flows, InTurn,
              NothingEarly, RecordFirst, Ordered, Asked, Ended, PumpRuns, Finished, GroupGone,
              WritersGone, Holders, Recordable
<1> QED BY <1>1, <1>2, <1>3, <1>4, <1>5 DEF Next

LEMMA Invariance == Spec => []PInv
BY InitPInv, StepPInv, PTL DEF Spec

-----------------------------------------------------------------------------
(***************************************************************************)
(* Why the trace is the tape of Wiretap.  The first invariant says that    *)
(* what is handed on was recorded; the tape also has each direction in its *)
(* order, complete and once, and that a second invariant shows.  A pump    *)
(* has a place in what its sender completed (Cursor): the file has what is *)
(* before it and nothing behind it.  The place moves by one with each line *)
(* the pump records, because the pieces of a message come one after the    *)
(* other (Unbroken) and no message is sent twice (Apart).                  *)
(***************************************************************************)

\* A message of the direction d is in the file.
InFile(d, m) == \E i \in 1 .. Len(rec.lines) : rec.lines[i].ev.dir = d /\ rec.lines[i].ev.msg = m

Sealed == rec.closed \/ rec.failed \/ Ended

\* What is still to come of a message its sender has begun.
Rest(d) == IF d = C2S THEN client.rest ELSE server.rest

\* Every message is sent once, after it was begun.
Fresh(d, m) == \A i \in 1 .. Len(sent[d]) : sent[d][i] # m

Apart ==
    \A d \in Directions :
        /\ \A i, j \in 1 .. Len(sent[d]) : sent[d][i] = sent[d][j] => i = j
        /\ \A i \in 1 .. Len(sent[d]) : Begun(client, server, sent[d][i])
        /\ \/ Rest(d) = <<>>
           \/ \E m \in Messages : Rest(d) = <<Final(m)>> /\ Begun(client, server, m) /\ Fresh(d, m)

\* What the file has of a direction: messages its sender completed, and what it
\* stopped in the middle of.
Filed ==
    \A i \in 1 .. Len(rec.lines) : LET e == rec.lines[i].ev IN
        \/ e.msg = None
        \/ e.full /\ ~Fresh(e.dir, e.msg)
        \/ ~e.full /\ pump[e.dir].eof /\ pump[e.dir].part = None

\* The pieces of a message come one after the other.
Paired(pieces) ==
    \A i \in 1 .. Len(pieces) - 1 : ~pieces[i].last => pieces[i + 1] = Final(pieces[i].msg)

\* What follows the last of these pieces is `next`.
Leads(pieces, next) ==
    pieces # <<>> /\ ~pieces[Len(pieces)].last
       => next # <<>> /\ next[1] = Final(pieces[Len(pieces)].msg)

NoneLast(pieces) == \A i \in 1 .. Len(pieces) : ~pieces[i].last

Unbroken(d) ==
    LET p == pump[d] IN
    /\ Paired(p.lines) /\ Paired(inp[d])
    /\ Leads(p.lines, IF inp[d] = <<>> THEN Rest(d) ELSE inp[d])
    /\ Leads(inp[d], Rest(d))
    /\ p.eof => NoneLast(p.lines)
    /\ p.part # None => /\ p.lines # <<>>
                        /\ p.lines[Len(p.lines)] = [msg |-> p.part, last |-> FALSE]

\* Of what was sent, the first c are recorded, unless the tape takes no more.
Caught(d, c) ==
    /\ \A i \in 1 .. c : sent[d][i] \in Recordable => Sealed \/ InFile(d, sent[d][i])
    /\ \A i \in c + 1 .. Len(sent[d]) : ~InFile(d, sent[d][i])

Cursor(d) ==
    \E c \in 0 .. Len(sent[d]) : Flow(pump[d].lines \o inp[d], sent[d], c) /\ Caught(d, c)

\* The file may have a line for this event.
NextUp(d, m) ==
    \E i \in 1 .. Len(sent[d]) :
        /\ sent[d][i] = m
        /\ \A j \in i .. Len(sent[d]) : ~InFile(d, sent[d][j])
        /\ \A j \in 1 .. i - 1 : sent[d][j] \in Recordable => InFile(d, sent[d][j])

Leftover(d, m) ==
    /\ pump[d].eof /\ m \in Recordable /\ ~InFile(d, m) /\ Fresh(d, m)
    /\ \A i \in 1 .. Len(sent[d]) : sent[d][i] \in Recordable => InFile(d, sent[d][i])

Fits(e) ==
    \/ e.msg = None /\ e.full
    \/ e.msg # None /\ e.full /\ NextUp(e.dir, e.msg)
    \/ e.msg # None /\ ~e.full /\ Leftover(e.dir, e.msg)

HeldFits ==
    rec.held = <<>> \/ \E line \in Lines :
        /\ rec.held = <<line>> /\ Fits(line.ev)
        /\ line.ev.msg # None /\ ~line.ev.full => pump[line.ev.dir].part = None

WInv ==
    /\ Apart /\ Filed /\ HeldFits
    /\ \A d \in Directions : Live(pump[d]) => Unbroken(d) /\ Cursor(d)

-----------------------------------------------------------------------------
(* The next line to record.                                                    *)

LEMMA FirstLine ==
    ASSUME NEW l \in Seq(Piece), NEW p \in Seq(Piece), NEW s \in Seq(Messages), NEW c,
           Flow(l \o p, s, c), l # <<>>
    PROVE  /\ c \in Nat /\ Tail(l) = SubSeq(l, 2, Len(l)) /\ Tail(l) \in Seq(Piece)
           /\ l[1].last => /\ c + 1 \in 1 .. Len(s) /\ l[1].msg = s[c + 1]
                           /\ Flow(Tail(l) \o p, s, c + 1)
           /\ ~l[1].last => Flow(Tail(l) \o p, s, c)
<1> DEFINE x == Head(l)
           u == l \o p
           t == Tail(l)
           n == Len(l)
<1>1. x = l[1] /\ t \in Seq(Piece) /\ n \in Nat /\ n > 0 /\ Len(t) = n - 1
      /\ \A i \in 1 .. Len(t) : t[i] = l[i + 1]
  BY TailIs
<1>2. u \in Seq(Piece) /\ u # <<>> /\ Head(u) = x /\ Tail(u) = t \o p
  BY ConcatSteps
<1>3. t = SubSeq(l, 2, n)
  <2>1. 1 \in 0 .. Len(l) /\ 1 + 1 = 2
    BY <1>1
  <2>2. /\ SubSeq(l, 2, n) \in Seq(Piece) /\ Len(SubSeq(l, 2, n)) = n - 1
        /\ \A i \in 1 .. n - 1 : SubSeq(l, 2, n)[i] = l[1 + i]
    BY <2>1, RestOf
  <2> HIDE DEF n, t
  <2>3. \A i \in 1 .. n - 1 : 1 + i = i + 1
    BY <1>1
  <2> QED BY <1>1, <2>2, <2>3, SeqEqual
<1>4. Flow(u, s, c)
  OBVIOUS
<1> HIDE DEF u, x, t, n
<1>5. /\ c \in Nat /\ x.last => c + 1 \in 1 .. Len(s) /\ x.msg = s[c + 1]
      /\ Flow(Tail(u), s, IF x.last THEN c + 1 ELSE c)
  BY <1>2, <1>4, FlowTail
<1>6. c \in Nat
  BY <1>2, <1>4, FlowTail
<1> QED BY <1>1, <1>2, <1>3, <1>5, <1>6 DEF t, n

\* Piece i of l completes the next message of s, and p follows the rest of l.
GoesOn(l, i, p, s, c) ==
    /\ c \in Nat /\ c + 1 \in 1 .. Len(s) /\ l[i].msg = s[c + 1]
    /\ Flow(SubSeq(l, i + 1, Len(l)) \o p, s, c + 1)

LEMMA NextLine ==
    ASSUME NEW l \in Seq(Piece), NEW p \in Seq(Piece), NEW s \in Seq(Messages), NEW c,
           Flow(l \o p, s, c), Paired(l), NEW i \in 1 .. Len(l), Completes(l, i)
    PROVE  GoesOn(l, i, p, s, c)
<1> DEFINE n == Len(l)
           t == Tail(l)
           r == SubSeq(l, i + 1, n)
<1> SUFFICES c \in Nat /\ c + 1 \in 1 .. Len(s) /\ l[i].msg = s[c + 1] /\ Flow(r \o p, s, c + 1)
  BY DEF GoesOn
<1>1. n \in Nat /\ l # <<>>
  BY LenProperties, EmptySeq
<1>2. /\ c \in Nat /\ t = SubSeq(l, 2, n) /\ t \in Seq(Piece)
      /\ l[1].last => /\ c + 1 \in 1 .. Len(s) /\ l[1].msg = s[c + 1]
                      /\ Flow(t \o p, s, c + 1)
      /\ ~l[1].last => Flow(t \o p, s, c)
  BY <1>1, FirstLine
<1>3. l[i].last /\ \A j \in 1 .. i - 1 : ~l[j].last
  BY DEF Completes
<1>4. CASE i = 1
  <2>1. r = t
    <3>1. i + 1 = 2
      BY <1>4
    <3> QED BY <1>2, <3>1
  <2> HIDE DEF t, n, r
  <2> QED BY <1>2, <1>3, <1>4, <2>1
<1>5. CASE i # 1
  <2>0. i \in 1 .. n
    OBVIOUS
  <2>e. Len(t) = n - 1 /\ \A j \in 1 .. Len(t) : t[j] = l[j + 1]
    BY <1>1, TailIs
  <2>p. \A j \in 1 .. n - 1 : ~l[j].last => l[j + 1] = Final(l[j].msg)
    BY DEF Paired
  <2> DEFINE k == Len(t)
             r2 == SubSeq(t, 2, k)
  <2> HIDE DEF n, t, r
  <2>1. 1 \in 1 .. i - 1 /\ 1 \in 1 .. n - 1 /\ 1 + 1 = 2
    BY <1>1, <1>5, <2>0
  <2>2. l[2] = Final(l[1].msg) /\ ~l[1].last
    BY <1>3, <2>1, <2>p
  <2>3. l[2].last
    BY <2>2 DEF Final
  <2>4. i = 2
    BY <1>3, <1>5, <2>0, <2>3, <1>1
  <2>5. k = n - 1 /\ k \in Nat /\ k > 0 /\ 1 \in 1 .. k /\ t # <<>>
    <3>1. k = n - 1 /\ k \in Nat /\ k > 0 /\ 1 \in 1 .. k
      BY <1>1, <2>0, <2>4, <2>e DEF k
    <3> QED BY <3>1, <1>2, EmptySeq DEF k
  <2>6. t[1] = l[2]
    BY <2>1, <2>5, <2>e DEF k
  <2>7. /\ Tail(t) = r2 /\ c + 1 \in 1 .. Len(s) /\ t[1].msg = s[c + 1]
        /\ Flow(Tail(t) \o p, s, c + 1)
    <3>1. Flow(t \o p, s, c)
      BY <1>2, <2>2
    <3>2. /\ Tail(t) = SubSeq(t, 2, Len(t))
          /\ t[1].last => /\ c + 1 \in 1 .. Len(s) /\ t[1].msg = s[c + 1]
                          /\ Flow(Tail(t) \o p, s, c + 1)
      <4>1. t \in Seq(Piece) /\ t # <<>> /\ Flow(t \o p, s, c)
        BY <1>2, <2>5, <3>1
      <4> QED BY <4>1, FirstLine
    <3> QED BY <2>3, <2>6, <3>2 DEF k
  <2>8. r2 = r
    <3>1. 1 \in 0 .. k /\ 2 \in 0 .. n /\ k - 1 = n - 2 /\ 2 + 1 = 3
      BY <1>1, <2>0, <2>4, <2>5
    <3>2. r2 \in Seq(Piece) /\ Len(r2) = k - 1 /\ \A j \in 1 .. k - 1 : r2[j] = t[1 + j]
      <4>1. /\ SubSeq(t, 1 + 1, Len(t)) \in Seq(Piece) /\ Len(SubSeq(t, 1 + 1, Len(t))) = Len(t) - 1
            /\ \A j \in 1 .. Len(t) - 1 : SubSeq(t, 1 + 1, Len(t))[j] = t[1 + j]
        <5>1. t \in Seq(Piece) /\ 1 \in 0 .. Len(t)
          BY <1>2, <3>1 DEF k
        <5> QED BY <5>1, RestOf
      <4>2. SubSeq(t, 1 + 1, Len(t)) = r2
        BY <2>1 DEF k
      <4> HIDE DEF r2
      <4> QED BY <4>1, <4>2 DEF k
    <3>3. r \in Seq(Piece) /\ Len(r) = n - 2 /\ \A j \in 1 .. n - 2 : r[j] = l[2 + j]
      BY <2>4, <3>1, RestOf DEF n, r
    <3>4. ASSUME NEW j \in 1 .. n - 2 PROVE r2[j] = r[j]
      <4>1. 1 + j \in 1 .. k /\ (1 + j) + 1 = 2 + j
        BY <1>1, <2>5, <3>1
      <4> QED BY <2>e, <3>1, <3>2, <3>3, <4>1 DEF k
    <3>5. Len(r2) = Len(r) /\ \A j \in 1 .. Len(r2) : r2[j] = r[j]
      BY <3>1, <3>2, <3>3, <3>4
    <3> HIDE DEF r2
    <3> QED BY <3>2, <3>3, <3>5, SeqEqual
  <2> QED BY <1>2, <2>4, <2>6, <2>7, <2>8
<1> QED BY <1>4, <1>5

\* When no line is left to record, what follows goes on from there.
LEMMA NoLineLeft ==
    ASSUME NEW l \in Seq(Piece), NEW p \in Seq(Piece), NEW s \in Seq(Messages), NEW c,
           Flow(l \o p, s, c), Paired(l), NoneLast(l)
    PROVE  Flow(p, s, c)
<1> DEFINE n == Len(l)
<1>1. CASE l = <<>>
  BY <1>1, ConcatSteps
<1>2. CASE l # <<>>
  <2>1. n \in Nat /\ n > 0 /\ Tail(l) \in Seq(Piece) /\ Len(Tail(l)) = n - 1
    BY <1>2, TailIs
  <2>p. /\ \A j \in 1 .. n - 1 : ~l[j].last => l[j + 1] = Final(l[j].msg)
        /\ \A j \in 1 .. n : ~l[j].last
    BY DEF Paired, NoneLast
  <2> HIDE DEF n
  <2>2. n = 1
    <3> SUFFICES ASSUME n # 1 PROVE FALSE
      OBVIOUS
    <3>1. 1 \in 1 .. n - 1 /\ 1 \in 1 .. n /\ 1 + 1 \in 1 .. n
      BY <2>1
    <3>2. l[1 + 1] = Final(l[1].msg)
      BY <2>p, <3>1
    <3>3. l[1 + 1].last
      BY <3>2 DEF Final
    <3> QED BY <2>p, <3>1, <3>3
  <2>3. Tail(l) = <<>>
    <3>1. Len(Tail(l)) = 0
      BY <2>1, <2>2
    <3> QED BY <2>1, <3>1, EmptySeq
  <2>4. ~l[1].last
    BY <2>2, <2>p
  <2>5. Flow(Tail(l) \o p, s, c)
    BY <1>2, <2>4, FirstLine
  <2> QED BY <2>3, <2>5, ConcatEmptySeq
<1> QED BY <1>1, <1>2

-----------------------------------------------------------------------------
(* What a step does to the file.                                               *)

\* While the tape takes more, the sink holds nothing.
LEMMA Unheld ==
    ASSUME Typed, Closing, ~Stuck(rec)
    PROVE  rec.held = <<>> /\ Tape(rec) = rec.lines
<1>1. rec \in Trace /\ rec.held = <<>>
  BY DEF Typed, Closing, Held, Stuck
<1> QED BY <1>1, TapeType

Untouched == rec'.lines = rec.lines /\ rec'.held = rec.held

Lengthens(e) ==
    /\ ~Stuck(rec) /\ ~rec'.failed /\ rec'.held = <<>>
    /\ \E line \in Lines : line.ev = e /\ rec'.lines = Append(rec.lines, line)

HoldsBack(e) ==
    /\ ~Stuck(rec) /\ rec'.failed /\ rec'.lines = rec.lines
    /\ \E line \in Lines : line.ev = e /\ rec'.held = <<line>>

LEMMA LandsSomewhere ==
    ASSUME Typed, Closing, NEW e, Lands(rec, rec', e)
    PROVE  (Untouched /\ (Stuck(rec) \/ rec'.failed)) \/ Lengthens(e) \/ HoldsBack(e)
<1>1. CASE Stuck(rec)
  BY <1>1 DEF Lands, Untouched
<1>2. CASE ~Stuck(rec)
  <2>1. rec.held = <<>> /\ Tape(rec) = rec.lines
    BY <1>2, Unheld
  <2>2. \A line \in Lines : Append(<<>>, line) = <<line>>
    OBVIOUS
  <2> QED BY <1>2, <2>1, <2>2 DEF Lands, Untouched, Lengthens, HoldsBack
<1> QED BY <1>1, <1>2

LEMMA FileStays ==
    ASSUME rec'.lines = rec.lines
    PROVE  \A d, m : InFile(d, m)' <=> InFile(d, m)
BY DEF InFile

LEMMA FileGrows ==
    ASSUME rec \in Trace, NEW line \in Lines, rec'.lines = Append(rec.lines, line)
    PROVE  /\ \A d, m : InFile(d, m)' <=> InFile(d, m) \/ (line.ev.dir = d /\ line.ev.msg = m)
           /\ \A i \in 1 .. Len(rec'.lines) :
                 \/ i \in 1 .. Len(rec.lines) /\ rec'.lines[i] = rec.lines[i]
                 \/ rec'.lines[i] = line
<1> DEFINE s == rec.lines
           t == rec'.lines
<1>1. s \in Seq(Lines)
  BY Fields
<1>2. /\ Len(s) \in Nat /\ Len(t) = Len(s) + 1 /\ t[Len(s) + 1] = line
      /\ \A i \in 1 .. Len(s) : t[i] = s[i] /\ i \in 1 .. Len(t)
      /\ \A i \in 1 .. Len(t) : i \in 1 .. Len(s) \/ (i = Len(s) + 1 /\ t[i] = line)
  BY <1>1, AppendIs
<1>3. /\ \A d, m : InFile(d, m)' <=> \E i \in 1 .. Len(t) : t[i].ev.dir = d /\ t[i].ev.msg = m
      /\ \A d, m : InFile(d, m) <=> \E i \in 1 .. Len(s) : s[i].ev.dir = d /\ s[i].ev.msg = m
  BY DEF InFile
<1> HIDE DEF s, t
<1>4. Len(s) + 1 \in 1 .. Len(t)
  BY <1>2
<1>5. \A d, m : InFile(d, m)' <=> InFile(d, m) \/ (line.ev.dir = d /\ line.ev.msg = m)
  BY <1>2, <1>3, <1>4
<1>6. \A i \in 1 .. Len(t) : (i \in 1 .. Len(s) /\ t[i] = s[i]) \/ t[i] = line
  BY <1>2
<1> QED BY <1>5, <1>6 DEF s, t

\* A tape that takes no more takes no more for good.
LEMMA NotOver == ASSUME MainStep \/ Kill PROVE ~Ended
BY DEF MainStep, OpenTrace, OpenFails, ClientRelayEnds, ServerExitSeen, ClientJoined, BeginStop,
       RelayStop, StopKills, RelayEnds, DrainKills, DrainEnds, AbandonRelay, CloseSession,
       FinishSession, Exit, Kill, Ended

MainFiles ==
    \/ OpenTrace /\ OpenTraceRecords
    \/ BeginStop /\ BeginStopCloses
    \/ CloseSession /\ CloseSessionCloses
    \/ (FinishSession \/ Exit \/ Kill) /\ Rested(rec, rec')
    \/ UNCHANGED rec

LEMMA MainFilesAs == ASSUME Typed, MainStep \/ Kill PROVE MainFiles
<1>1. CASE OpenTrace \/ BeginStop \/ CloseSession
  BY <1>1, MainRecords DEF MainFiles
<1>2. CASE FinishSession \/ Exit \/ Kill
  BY <1>2, EndRests DEF MainFiles
<1>3. CASE \/ OpenFails \/ ClientRelayEnds \/ ServerExitSeen \/ ClientJoined \/ RelayStop
           \/ StopKills \/ RelayEnds \/ DrainKills \/ AbandonRelay
  BY <1>3 DEF MainFiles, OpenFails, ClientRelayEnds, ServerExitSeen, ClientJoined, RelayStop,
              StopKills, RelayEnds, DrainKills, AbandonRelay
<1> QED BY <1>1, <1>2, <1>3 DEF MainStep

LEMMA SealedStays ==
    ASSUME PInv, [Next]_vars, Sealed
    PROVE  Sealed'
<1>0. Typed /\ Closing /\ PumpsAgree
  BY DEF PInv
<1>1. CASE MainStep \/ Kill
  <2>1. ~Ended /\ Stuck(rec)
    BY <1>1, NotOver DEF Sealed, Stuck
  <2>2. MainFiles
    BY <1>0, <1>1, MainFilesAs
  <2>3. CASE OpenTraceRecords
    BY <2>1, <2>3 DEF OpenTraceRecords, Recorded, Wrote, Stuck, Sealed
  <2>4. CASE BeginStopCloses
    BY <2>1, <2>4 DEF BeginStopCloses, Closed, Sealed
  <2>5. CASE CloseSessionCloses
    BY <2>1, <2>5 DEF CloseSessionCloses, Closed, Sealed
  <2>6. CASE Rested(rec, rec') /\ (Exit \/ Kill)
    BY <1>0, <2>1, <2>6, EndRests DEF Rested, Stuck, Sealed
  <2>7. CASE Rested(rec, rec') /\ FinishSession
    <3>1. rec.closed
      BY <1>0, <2>7 DEF Closing, FinishSession
    <3> QED BY <2>7, <3>1 DEF Rested, Sealed
  <2>8. CASE UNCHANGED rec
    BY <2>1, <2>8 DEF Stuck, Sealed
  <2> QED BY <2>2, <2>3, <2>4, <2>5, <2>6, <2>7, <2>8 DEF MainFiles
<1>2. CASE \E d \in Directions : PumpStep(d)
  <2>1. PICK d \in Directions : PumpStep(d)
    BY <1>2
  <2>2. PICK q : PumpGoes(d, q)
    BY <1>0, <2>1, PumpStepGoes
  <2>3. PumpTurns(d, q) /\ main' = main
    BY <1>0, <2>2, PumpTurned DEF PumpGoes
  <2>4. rec'.closed = rec.closed /\ (rec.failed => rec'.failed)
    BY <2>3 DEF PumpTurns, Recorded, Wrote
  <2> QED BY <2>3, <2>4 DEF Sealed, Ended
<1>3. CASE EnvStep \/ UNCHANGED vars
  BY <1>3 DEF EnvStep, vars, Sealed, Ended
<1> QED BY <1>1, <1>2, <1>3 DEF Next

-----------------------------------------------------------------------------
(* What a pump records is the next of its direction.                           *)

\* What is on its way has its place.
LEMMA NowFits ==
    ASSUME PInv, WInv, NEW d \in Directions, PumpRuns(d), NEW q, NEW m, NEW b,
           RecordsAs(d, q, m, b), m \in Recordable, ~Stuck(rec)
    PROVE  /\ Fits(MessageEvent(d, [msg |-> m, full |-> b]))
           /\ b => NextUp(d, m)
           /\ ~b => Leftover(d, m)
<1> DEFINE e == MessageEvent(d, [msg |-> m, full |-> b])
           s == sent[d]
           l == pump[d].lines
<1>1. /\ s \in Seq(Messages) /\ l \in Seq(Piece) /\ inp[d] \in Seq(Piece)
      /\ m \in Messages /\ b \in BOOLEAN /\ m # None /\ Len(s) \in Nat
  BY TypedPump, PumpFields, MessageFields, LenProperties DEF PInv, RecordsAs
<1>2. e.msg = m /\ e.dir = d /\ e.full = b
  BY DEF MessageEvent
<1>3. ~Sealed
  BY DEF PInv, PhasesAgree, PumpRuns, Sealed, Stuck, Ended, Joined, Directions, C2S, S2C
<1>4. Unbroken(d) /\ Cursor(d)
  BY DEF WInv, Live, PumpRuns
<1>5. PICK c \in 0 .. Len(s) : Flow(l \o inp[d], s, c) /\ Caught(d, c)
  BY <1>4 DEF Cursor
<1>6. /\ \A i \in 1 .. c : s[i] \in Recordable => InFile(d, s[i])
      /\ \A i \in c + 1 .. Len(s) : ~InFile(d, s[i])
  BY <1>3, <1>5 DEF Caught
<1>7. Paired(l)
  BY <1>4 DEF Unbroken
<1>8. ASSUME b PROVE NextUp(d, m)
  <2>1. PICK i \in 1 .. Len(l) : Completes(l, i) /\ m = l[i].msg
    BY <1>8 DEF RecordsAs
  <2> HIDE DEF s, l
  <2>g. GoesOn(l, i, inp[d], s, c)
    BY <1>1, <1>5, <1>7, <2>1, NextLine
  <2>2. c \in Nat /\ c + 1 \in 1 .. Len(s) /\ m = s[c + 1]
    BY <2>1, <2>g DEF GoesOn
  <2>3. (c + 1) - 1 = c
    BY <2>2
  <2> QED BY <1>6, <2>2, <2>3 DEF NextUp, s
<1>9. ASSUME ~b PROVE Leftover(d, m)
  <2>1. pump[d].eof /\ m = pump[d].part
    BY <1>9 DEF RecordsAs
  <2>2. inp[d] = <<>>
    BY <2>1 DEF PInv, PumpsAgree
  <2>3. NoneLast(l) /\ l # <<>> /\ l[Len(l)] = [msg |-> m, last |-> FALSE] /\ Leads(l, Rest(d))
    BY <1>1, <1>4, <2>1, <2>2 DEF Unbroken
  <2>4. Rest(d) # <<>> /\ Rest(d)[1] = Final(m)
    BY <2>3 DEF Leads
  <2>5. PICK k \in Messages : Rest(d) = <<Final(k)>> /\ Fresh(d, k)
    BY <2>4 DEF WInv, Apart
  <2>6. k = m
    BY <2>4, <2>5 DEF Final
  <2>7. c = Len(s)
    <3>1. Flow(inp[d], s, c)
      BY <1>1, <1>5, <1>7, <2>3, NoLineLeft
    <3> QED BY <1>1, <2>2, <3>1, FlowEmpty
  <2>8. ~InFile(d, m)
    <3> SUFFICES ASSUME NEW i \in 1 .. Len(rec.lines), rec.lines[i].ev.dir = d,
                        rec.lines[i].ev.msg = m
                 PROVE  FALSE
      BY DEF InFile
    <3> QED BY <1>1, <2>1, <2>5, <2>6 DEF WInv, Filed
  <2> QED BY <1>6, <2>1, <2>5, <2>6, <2>7, <2>8 DEF Leftover
<1> QED BY <1>1, <1>2, <1>8, <1>9 DEF Fits

-----------------------------------------------------------------------------
(* The pieces of a message stay together.                                      *)

\* What a pump read and what it left follow each other.
Parts(pieces, n, rest) ==
    LET l == SubSeq(pieces, 1, n)
        t == SubSeq(pieces, n + 1, Len(pieces))
    IN  /\ l \in Seq(Piece) /\ t \in Seq(Piece) /\ l \o t = pieces
        /\ l # <<>> /\ l[Len(l)] = pieces[n]
        /\ Paired(l) /\ Paired(t)
        /\ Leads(l, IF t = <<>> THEN rest ELSE t) /\ Leads(t, rest)
        /\ ~pieces[Len(pieces)].last /\ pieces[n].last =>
              t # <<>> /\ t[Len(t)] = pieces[Len(pieces)]

LEMMA PartsFollow ==
    ASSUME NEW s \in Seq(Piece), NEW rest, Paired(s), Leads(s, rest), NEW n \in 1 .. Len(s)
    PROVE  Parts(s, n, rest)
<1> DEFINE l == SubSeq(s, 1, n)
           t == SubSeq(s, n + 1, Len(s))
           k == Len(s)
<1>0. k \in Nat /\ n \in 0 .. k /\ n \in Nat /\ n >= 1 /\ n <= k
  BY LenProperties
<1>1. /\ l \in Seq(Piece) /\ Len(l) = n /\ \A i \in 1 .. n : l[i] = s[i]
      /\ l \o t = s
  BY <1>0, FirstOf
<1>2. t \in Seq(Piece) /\ Len(t) = k - n /\ \A i \in 1 .. k - n : t[i] = s[n + i]
  BY <1>0, RestOf
<1>p. \A i \in 1 .. k - 1 : ~s[i].last => s[i + 1] = Final(s[i].msg)
  BY DEF Paired
<1>q. s # <<>> /\ ~s[k].last => rest # <<>> /\ rest[1] = Final(s[k].msg)
  BY DEF Leads
<1>s. s # <<>>
  BY <1>0, EmptySeq
<1> HIDE DEF l, t, k
<1>3. l # <<>> /\ l[Len(l)] = s[n]
  <2>1. Len(l) # 0 /\ n \in 1 .. n
    BY <1>0, <1>1
  <2> QED BY <1>1, <2>1, EmptySeq
<1>4. t = <<>> <=> n = k
  <2>1. Len(t) = 0 <=> n = k
    BY <1>0, <1>2
  <2> QED BY <1>2, <2>1, EmptySeq
<1>5. Paired(l)
  <2> SUFFICES ASSUME NEW i \in 1 .. Len(l) - 1, ~l[i].last PROVE l[i + 1] = Final(l[i].msg)
    BY DEF Paired
  <2>1. i \in 1 .. n /\ i + 1 \in 1 .. n /\ i \in 1 .. k - 1
    BY <1>0, <1>1
  <2> QED BY <1>1, <1>p, <2>1
<1>6. Paired(t)
  <2> SUFFICES ASSUME NEW i \in 1 .. Len(t) - 1, ~t[i].last PROVE t[i + 1] = Final(t[i].msg)
    BY DEF Paired
  <2>1. /\ i \in 1 .. k - n /\ i + 1 \in 1 .. k - n /\ n + i \in 1 .. k - 1
        /\ (n + i) + 1 = n + (i + 1)
    BY <1>0, <1>2
  <2> QED BY <1>2, <1>p, <2>1
<1>7. CASE n = k
  <2>1. t = <<>> /\ l[Len(l)] = s[k]
    BY <1>3, <1>4, <1>7
  <2>2. Leads(l, rest) /\ Leads(t, rest)
    BY <1>q, <1>s, <2>1 DEF Leads
  <2> QED BY <1>1, <1>2, <1>3, <1>5, <1>6, <1>7, <2>1, <2>2 DEF Parts, l, t, k
<1>8. CASE n # k
  <2>1. t # <<>> /\ 1 \in 1 .. k - n /\ k - n \in 1 .. k - n /\ n \in 1 .. k - 1 /\ n + (k - n) = k
    BY <1>0, <1>4, <1>8
  <2>2. t[1] = s[n + 1] /\ t[Len(t)] = s[k]
    BY <1>2, <2>1
  <2>3. Leads(l, t)
    BY <1>3, <1>p, <2>1, <2>2 DEF Leads
  <2>4. Leads(t, rest)
    BY <1>q, <1>s, <2>2 DEF Leads
  <2> QED BY <1>1, <1>2, <1>3, <1>5, <1>6, <2>1, <2>2, <2>3, <2>4 DEF Parts, l, t, k
<1> QED BY <1>7, <1>8

\* One more piece fits behind what its sender had begun.
LEMMA PieceFollows ==
    ASSUME NEW s \in Seq(Piece), Paired(s), NEW m \in Messages, NEW x \in Piece, NEW old, NEW new,
           Leads(s, old),
           \/ old = <<Final(m)>> /\ x = Final(m) /\ new = <<>>
           \/ old = <<>> /\ StartsAs(m, x, new)
    PROVE  /\ Paired(Append(s, x)) /\ Leads(Append(s, x), new)
           /\ \A l : Leads(l, IF s = <<>> THEN old ELSE s) => Leads(l, Append(s, x))
<1> DEFINE t == Append(s, x)
           n == Len(s)
<1>1. /\ t \in Seq(Piece) /\ n \in Nat /\ Len(t) = n + 1 /\ t[n + 1] = x
      /\ \A i \in 1 .. n : t[i] = s[i]
  BY AppendIs
<1>e. s = <<>> <=> n = 0
  BY EmptySeq
<1>p. \A i \in 1 .. n - 1 : ~s[i].last => s[i + 1] = Final(s[i].msg)
  BY DEF Paired
<1>q. n # 0 /\ ~s[n].last => x = Final(s[n].msg)
  <2> SUFFICES ASSUME n # 0, ~s[n].last PROVE x = Final(s[n].msg)
    OBVIOUS
  <2>1. old # <<>> /\ old[1] = Final(s[n].msg)
    BY <1>e DEF Leads
  <2>2. old = <<Final(m)>> /\ x = Final(m)
    BY <2>1
  <2> QED BY <2>1, <2>2
<1> HIDE DEF t, n
<1>2. t # <<>>
  <2>1. Len(t) # 0
    BY <1>1
  <2> QED BY <1>1, <2>1, EmptySeq
<1>3. Paired(t)
  <2> SUFFICES ASSUME NEW i \in 1 .. Len(t) - 1, ~t[i].last PROVE t[i + 1] = Final(t[i].msg)
    BY DEF Paired
  <2>0. i \in 1 .. n
    BY <1>1
  <2>1. CASE i = n
    <3>1. n # 0 /\ t[n] = s[n] /\ t[i + 1] = x
      BY <1>1, <2>0, <2>1
    <3> QED BY <1>q, <2>1, <3>1
  <2>2. CASE i # n
    <3>1. i \in 1 .. n - 1 /\ i + 1 \in 1 .. n
      BY <1>1, <2>0, <2>2
    <3>2. t[i] = s[i] /\ t[i + 1] = s[i + 1]
      BY <1>1, <2>0, <3>1
    <3> QED BY <1>p, <3>1, <3>2
  <2> QED BY <2>1, <2>2
<1>4. Leads(t, new)
  <2>1. t[Len(t)] = x
    BY <1>1
  <2>2. ~x.last => new = <<Final(m)>> /\ x.msg = m
    BY DEF StartsAs, Final
  <2> QED BY <2>1, <2>2 DEF Leads
<1>5. ASSUME NEW l, Leads(l, IF s = <<>> THEN old ELSE s) PROVE Leads(l, t)
  <2>1. CASE s = <<>>
    <3>1. t[1] = x
      BY <1>1, <1>e, <2>1
    <3> SUFFICES ASSUME l # <<>>, ~l[Len(l)].last PROVE t[1] = Final(l[Len(l)].msg)
      BY <1>2 DEF Leads
    <3>2. old # <<>> /\ old[1] = Final(l[Len(l)].msg)
      BY <1>5, <2>1 DEF Leads
    <3>3. old = <<Final(m)>> /\ x = Final(m)
      BY <3>2
    <3> QED BY <3>1, <3>2, <3>3
  <2>2. CASE s # <<>>
    <3>1. t[1] = s[1]
      <4>1. 1 \in 1 .. n
        BY <1>1, <1>e, <2>2
      <4> QED BY <1>1, <4>1
    <3> QED BY <1>2, <1>5, <2>2, <3>1 DEF Leads
  <2> QED BY <2>1, <2>2
<1> QED BY <1>3, <1>4, <1>5 DEF t

-----------------------------------------------------------------------------
(* What the steps leave alone.                                                 *)

\* The file says of d's messages what it said.
SameFile(d) == \A i \in 1 .. Len(sent[d]) : InFile(d, sent[d][i])' <=> InFile(d, sent[d][i])

Watched(d) == Unbroken(d) /\ Cursor(d)

\* d's pump records nothing of what its sender completed, and nothing is sent.
WatchGoesOn(d) ==
    /\ pump'[d].lines = pump[d].lines /\ pump'[d].part \in {pump[d].part, None}
    /\ pump'[d].eof => pump[d].eof \/ NoneLast(pump[d].lines)
    /\ inp'[d] = inp[d] /\ sent'[d] = sent[d] /\ setup' = setup
    /\ Rest(d)' = Rest(d)

LEMMA CaughtOn ==
    ASSUME NEW d, NEW c \in 0 .. Len(sent[d]), Caught(d, c), sent'[d] = sent[d], setup' = setup,
           SameFile(d), Sealed => Sealed', Len(sent[d]) \in Nat
    PROVE  Caught(d, c)'
<1>1. \A i \in 1 .. c : i \in 1 .. Len(sent[d])
  OBVIOUS
<1>2. \A i \in c + 1 .. Len(sent[d]) : i \in 1 .. Len(sent[d])
  OBVIOUS
<1>3. /\ \A i \in 1 .. c : sent[d][i] \in Recordable => Sealed \/ InFile(d, sent[d][i])
      /\ \A i \in c + 1 .. Len(sent[d]) : ~InFile(d, sent[d][i])
  BY DEF Caught
<1>4. Recordable' = Recordable
  BY DEF Recordable
<1>5. /\ \A i \in 1 .. c : sent[d][i] \in Recordable => Sealed' \/ InFile(d, sent[d][i])'
      /\ \A i \in c + 1 .. Len(sent[d]) : ~InFile(d, sent[d][i])'
  BY <1>1, <1>2, <1>3 DEF SameFile
<1> QED BY <1>4, <1>5 DEF Caught, InFile

LEMMA WatchOn ==
    ASSUME Typed, NEW d \in Directions, WatchGoesOn(d), SameFile(d), Sealed => Sealed', Watched(d)
    PROVE  Watched(d)'
<1>1. PICK c \in 0 .. Len(sent[d]) : Flow(pump[d].lines \o inp[d], sent[d], c) /\ Caught(d, c)
  BY DEF Watched, Cursor
<1>2. Len(sent[d]) \in Nat
  BY TypedPump, LenProperties
<1>3. Caught(d, c)'
  BY <1>1, <1>2, CaughtOn DEF WatchGoesOn
<1>4. Cursor(d)'
  BY <1>1, <1>3 DEF Cursor, WatchGoesOn
<1>5. Unbroken(d)'
  BY DEF Watched, Unbroken, WatchGoesOn
<1> QED BY <1>4, <1>5 DEF Watched

LEMMA ApartStays ==
    ASSUME Typed, Apart, sent' = sent, \A d \in Directions : Rest(d)' = Rest(d), BeginsOn
    PROVE  Apart'
<1> SUFFICES ASSUME NEW d \in Directions
             PROVE  /\ \A i, j \in 1 .. Len(sent[d]) : sent[d][i] = sent[d][j] => i = j
                    /\ \A i \in 1 .. Len(sent[d]) : Begun(client', server', sent[d][i])
                    /\ \/ Rest(d)' = <<>>
                       \/ \E m \in Messages : /\ Rest(d)' = <<Final(m)>>
                                              /\ Begun(client', server', m) /\ Fresh(d, m)
  BY DEF Apart, Begun, Fresh
<1>1. /\ \A i, j \in 1 .. Len(sent[d]) : sent[d][i] = sent[d][j] => i = j
      /\ \A i \in 1 .. Len(sent[d]) : Begun(client, server, sent[d][i])
      /\ \/ Rest(d) = <<>>
         \/ \E m \in Messages : Rest(d) = <<Final(m)>> /\ Begun(client, server, m) /\ Fresh(d, m)
  BY DEF Apart
<1>2. sent[d] \in Seq(Messages)
  BY TypedPump
<1>3. \A i \in 1 .. Len(sent[d]) : sent[d][i] \in Messages
  BY <1>2
<1>4. Rest(d)' = Rest(d)
  OBVIOUS
<1> QED BY <1>1, <1>3, <1>4 DEF BeginsOn

\* An event that fits goes on fitting.
LEMMA FitsOn ==
    ASSUME rec'.lines = rec.lines, sent' = sent, setup' = setup,
           \A d \in Directions : pump[d].eof => pump'[d].eof,
           NEW e \in Events, Fits(e)
    PROVE  Fits(e)'
<1>1. Recordable' = Recordable /\ e.dir \in Directions
  BY DEF Recordable, Events
<1>2. \A d, m : InFile(d, m)' <=> InFile(d, m)
  BY FileStays
<1>3. NextUp(e.dir, e.msg) => NextUp(e.dir, e.msg)'
  BY <1>1 DEF NextUp, InFile
<1>4. Leftover(e.dir, e.msg) => Leftover(e.dir, e.msg)'
  BY <1>1 DEF Leftover, InFile, Fresh
<1> QED BY <1>3, <1>4 DEF Fits

\* What a pump came to the end of it does not go back to.
EndsStay ==
    \A d \in Directions :
        /\ pump[d].eof => pump'[d].eof
        /\ pump[d].eof /\ pump[d].part = None => pump'[d].part = None

LEMMA HeldFitsOn ==
    ASSUME Untouched, sent' = sent, setup' = setup, EndsStay, HeldFits
    PROVE  HeldFits'
<1>1. CASE rec.held = <<>>
  BY <1>1 DEF Untouched, HeldFits
<1>2. CASE rec.held # <<>>
  <2>1. PICK line \in Lines :
          /\ rec.held = <<line>> /\ Fits(line.ev)
          /\ line.ev.msg # None /\ ~line.ev.full => pump[line.ev.dir].part = None
    BY <1>2 DEF HeldFits
  <2>2. line.ev \in Events /\ line.ev.dir \in Directions
    BY DEF Lines, LinesOver, Events
  <2>3. Fits(line.ev)'
    <3>1. rec'.lines = rec.lines /\ \A d \in Directions : pump[d].eof => pump'[d].eof
      BY DEF Untouched, EndsStay
    <3> QED BY <2>1, <2>2, <3>1, FitsOn
  <2>4. line.ev.msg # None /\ ~line.ev.full => pump[line.ev.dir].eof
    BY <2>1 DEF Fits, Leftover
  <2>5. line.ev.msg # None /\ ~line.ev.full => pump'[line.ev.dir].part = None
    BY <2>1, <2>2, <2>4 DEF EndsStay
  <2>6. rec'.held = <<line>>
    BY <2>1 DEF Untouched
  <2> QED BY <2>3, <2>5, <2>6 DEF HeldFits
<1> QED BY <1>1, <1>2

\* What the file has for an entry, if it is one it may have.
FiledAs(e) ==
    \/ e.msg = None
    \/ e.full /\ ~Fresh(e.dir, e.msg)
    \/ ~e.full /\ pump[e.dir].eof /\ pump[e.dir].part = None

LEMMA FiledOn ==
    ASSUME Typed, Filed, sent' = sent, EndsStay
    PROVE  \A i \in 1 .. Len(rec.lines) : \A e : e = rec.lines[i].ev => FiledAs(e)'
<1> SUFFICES ASSUME NEW i \in 1 .. Len(rec.lines), NEW e, e = rec.lines[i].ev
             PROVE  FiledAs(e)'
  OBVIOUS
<1>1. FiledAs(e)
  BY DEF Filed, FiledAs
<1>2. e.dir \in Directions
  <2>1. rec.lines \in Seq(Lines)
    BY Fields DEF Typed
  <2>2. rec.lines[i] \in Lines
    BY <2>1
  <2> QED BY <2>2 DEF Lines, LinesOver, Events
<1> QED BY <1>1, <1>2 DEF FiledAs, Fresh, EndsStay

-----------------------------------------------------------------------------
(* What a pump's records do to the file.                                       *)

LEMMA EndsStayOn ==
    ASSUME PInv, NEW d \in Directions, NEW q, PumpGoes(d, q)
    PROVE  EndsStay
<1>1. /\ \A o \in Directions : o # d => pump'[o] = pump[o]
      /\ pump'[d] = q
  BY DEF PumpGoes, Becomes
<1>2. /\ pump[d].eof => q.eof
      /\ pump[d].eof /\ pump[d].part = None => q.part = None
  <2>1. CASE \E n : ReadsAs(d, q, n)
    BY <2>1 DEF ReadsAs
  <2>2. CASE ReadsEndAs(d, q)
    BY <2>2 DEF ReadsEndAs
  <2>3. CASE \E m, b : RecordsAs(d, q, m, b)
    BY <2>3 DEF RecordsAs, SameControl
  <2>4. CASE WritesAs(d, q)
    BY <2>4 DEF WritesAs, SameControl
  <2>5. CASE StopsAs(d, q)
    BY <2>5 DEF StopsAs
  <2> QED BY <2>1, <2>2, <2>3, <2>4, <2>5 DEF PumpGoes
<1> QED BY <1>1, <1>2 DEF EndsStay

\* The message m is only counted, or is refused, written or held back.
Notes(d, m, b) ==
    LET e == MessageEvent(d, [msg |-> m, full |-> b])
    IN  \/ m \notin Recordable /\ Untouched
        \/ m \in Recordable /\ Untouched /\ Sealed'
        \/ m \in Recordable /\ Lengthens(e)
        \/ m \in Recordable /\ HoldsBack(e)

LEMMA RecordsNote ==
    ASSUME PInv, NEW d \in Directions, NEW q, NEW m, NEW b, RecordsAs(d, q, m, b)
    PROVE  Notes(d, m, b)
<1> DEFINE e == MessageEvent(d, [msg |-> m, full |-> b])
<1>0. m \in Messages /\ Taken(d, m, b) /\ Typed /\ Closing
  BY DEF RecordsAs, PInv
<1>1. CASE m[1] \in setup.oversized
  BY <1>0, <1>1 DEF Taken, Notes, Recordable, Untouched
<1>2. CASE m[1] \notin setup.oversized
  <2>1. m \in Recordable /\ Recorded(rec, rec', e)
    BY <1>0, <1>2 DEF Taken, Recordable
  <2>2. Lands(rec, rec', e) /\ rec'.closed = rec.closed /\ (rec.failed => rec'.failed)
    BY <2>1 DEF Recorded, Wrote
  <2> HIDE DEF e
  <2>3. (Untouched /\ (Stuck(rec) \/ rec'.failed)) \/ Lengthens(e) \/ HoldsBack(e)
    BY <1>0, <2>2, LandsSomewhere
  <2>4. Stuck(rec) \/ rec'.failed => Sealed'
    BY <2>2 DEF Stuck, Sealed
  <2> QED BY <2>1, <2>3, <2>4 DEF Notes, e
<1> QED BY <1>1, <1>2

\* The message is in the file then, unless the tape takes no more.
InFileThen(d, m) ==
    /\ \A o, k : InFile(o, k) => InFile(o, k)'
    /\ \A o, k : InFile(o, k)' => InFile(o, k) \/ (o = d /\ k = m)
    /\ m \in Recordable => Sealed' \/ InFile(d, m)'

LEMMA NotesFile ==
    ASSUME rec \in Trace, NEW d, NEW m, NEW b, Notes(d, m, b)
    PROVE  InFileThen(d, m)
<1> DEFINE e == MessageEvent(d, [msg |-> m, full |-> b])
<1>1. CASE Lengthens(e)
  <2>1. PICK line \in Lines : line.ev = e /\ rec'.lines = Append(rec.lines, line)
    BY <1>1 DEF Lengthens
  <2>2. \A o, k : InFile(o, k)' <=> InFile(o, k) \/ (line.ev.dir = o /\ line.ev.msg = k)
    BY <2>1, FileGrows
  <2>3. e.dir = d /\ e.msg = m
    BY DEF MessageEvent
  <2> HIDE DEF e
  <2> QED BY <2>1, <2>2, <2>3 DEF InFileThen
<1>2. CASE ~Lengthens(e)
  <2>1. rec'.lines = rec.lines /\ (m \in Recordable => Sealed')
    BY <1>2 DEF Notes, Untouched, HoldsBack, Sealed
  <2>2. \A o, k : InFile(o, k)' <=> InFile(o, k)
    BY <2>1, FileStays
  <2> QED BY <2>1, <2>2 DEF InFileThen
<1> QED BY <1>1, <1>2

\* The entries of the file, and what the sink holds, after a record.
LEMMA NotesFit ==
    ASSUME PInv, WInv, NEW d \in Directions, NEW q, NEW m, NEW b, PumpGoes(d, q), RecordsAs(d, q, m, b)
    PROVE  Filed' /\ HeldFits'
<1> DEFINE e == MessageEvent(d, [msg |-> m, full |-> b])
<1>0. Typed /\ rec \in Trace /\ Filed /\ HeldFits
  BY DEF PInv, Typed, WInv
<1>1. EndsStay /\ sent' = sent /\ setup' = setup /\ PumpRuns(d) /\ pump'[d] = q
  BY EndsStayOn DEF PumpGoes, Becomes
<1>2. \A i \in 1 .. Len(rec.lines) : \A x : x = rec.lines[i].ev => FiledAs(x)'
  BY <1>0, <1>1, FiledOn
<1>3. Notes(d, m, b)
  BY RecordsNote
<1>4. e.dir = d /\ e.msg = m /\ e.full = b /\ e \in Events /\ m # None /\ b \in BOOLEAN
  BY EventTypes, MessageFields DEF MessageEvent, RecordsAs
<1>5. CASE Untouched
  <2>1. rec'.lines = rec.lines
    BY <1>5 DEF Untouched
  <2> QED BY <1>0, <1>1, <1>2, <1>5, <2>1, HeldFitsOn DEF Filed, FiledAs, Fresh
<1>6. ASSUME m \in Recordable, ~Stuck(rec)
      PROVE  /\ Fits(e) /\ (b => ~Fresh(d, m)) /\ (~b => q.eof /\ q.part = None)
  <2>1. Fits(e) /\ (b => NextUp(d, m))
    BY <1>1, <1>6, NowFits
  <2>2. ~b => q.eof /\ q.part = None
    BY DEF RecordsAs, SameControl
  <2> QED BY <2>1, <2>2 DEF NextUp, Fresh
<1>7. CASE Lengthens(e) /\ m \in Recordable
  <2>1. PICK line \in Lines : line.ev = e /\ rec'.lines = Append(rec.lines, line) /\ rec'.held = <<>>
    BY <1>7 DEF Lengthens
  <2>2. ~Stuck(rec)
    BY <1>7 DEF Lengthens
  <2> HIDE DEF e
  <2>3. FiledAs(e)'
    BY <1>1, <1>4, <1>6, <1>7, <2>2 DEF FiledAs, Fresh
  <2>4. \A i \in 1 .. Len(rec'.lines) : \A x : x = rec'.lines[i].ev => FiledAs(x)'
    BY <1>0, <1>2, <2>1, <2>3, FileGrows
  <2> QED BY <2>1, <2>4 DEF Filed, FiledAs, Fresh, HeldFits
<1>8. CASE HoldsBack(e) /\ m \in Recordable
  <2>1. PICK line \in Lines : line.ev = e /\ rec'.held = <<line>> /\ rec'.lines = rec.lines
    BY <1>8 DEF HoldsBack
  <2>2. ~Stuck(rec)
    BY <1>8 DEF HoldsBack
  <2> HIDE DEF e
  <2>3. Fits(e)'
    <3>1. \A o \in Directions : pump[o].eof => pump'[o].eof
      BY <1>1 DEF EndsStay
    <3> QED BY <1>1, <1>4, <1>6, <1>8, <2>1, <2>2, <3>1, FitsOn
  <2>4. ~b => pump'[d].part = None
    BY <1>1, <1>6, <1>8, <2>2
  <2>5. HeldFits'
    BY <1>4, <2>1, <2>3, <2>4 DEF HeldFits
  <2> QED BY <1>2, <2>1, <2>5 DEF Filed, FiledAs, Fresh
<1> QED BY <1>3, <1>5, <1>7, <1>8 DEF Notes

-----------------------------------------------------------------------------
(* The watch on each direction, under the steps of a pump.                     *)

LEMMA ReadsKeepWatch ==
    ASSUME PInv, NEW d \in Directions, NEW q, NEW n, Becomes(d, q), ReadsAs(d, q, n),
           UNCHANGED <<main, client, server, setup, sent>>, Watched(d)
    PROVE  Watched(d)'
<1> DEFINE s == inp[d]
           l == SubSeq(s, 1, n)
           t == SubSeq(s, n + 1, Len(s))
<1>0. /\ inp \in [Directions -> Seq(Piece)] /\ s \in Seq(Piece) /\ sent[d] \in Seq(Messages)
      /\ n \in 1 .. Len(s) /\ pump[d].lines \in Seq(Piece)
  BY TypedPump, PumpFields DEF PInv, Typed, ReadsAs
<1>1. q.lines = l /\ inp'[d] = t /\ pump'[d] = q /\ ~q.eof /\ rec' = rec
  BY <1>0 DEF ReadsAs, SameControl, Becomes
<1>2. Rest(d)' = Rest(d) /\ sent' = sent /\ setup' = setup
  BY DEF Rest
<1>3. Parts(s, n, Rest(d))
  BY <1>0, PartsFollow DEF Watched, Unbroken
<1>4. /\ l # <<>> /\ l[Len(l)] = s[n] /\ Paired(l) /\ Paired(t) /\ l \o t = s
      /\ Leads(l, IF t = <<>> THEN Rest(d) ELSE t) /\ Leads(t, Rest(d))
  BY <1>3 DEF Parts
<1>5. q.part # None => s[n] = [msg |-> q.part, last |-> FALSE]
  BY DEF ReadsAs
<1> HIDE DEF l, t, s
<1>6. Unbroken(d)'
  BY <1>1, <1>2, <1>4, <1>5 DEF Unbroken
<1>7. PICK c \in 0 .. Len(sent[d]) : Flow(pump[d].lines \o s, sent[d], c) /\ Caught(d, c)
  BY DEF Watched, Cursor, s
<1>8. Flow(s, sent[d], c)
  <2>1. NoneLast(pump[d].lines) /\ Paired(pump[d].lines)
    BY DEF ReadsAs, NoneLast, Watched, Unbroken
  <2> QED BY <1>0, <1>7, <2>1, NoLineLeft
<1>9. Caught(d, c)'
  <2>1. SameFile(d) /\ (Sealed => Sealed') /\ Len(sent[d]) \in Nat
    <3>1. main' = main
      OBVIOUS
    <3> QED BY <1>0, <1>1, <3>1, LenProperties DEF SameFile, InFile, Sealed, Ended
  <2> QED BY <1>2, <1>7, <2>1, CaughtOn
<1> QED BY <1>1, <1>2, <1>4, <1>6, <1>8, <1>9 DEF Watched, Cursor

LEMMA RecordsKeepWatch ==
    ASSUME PInv, WInv, NEW d \in Directions, NEW q, NEW m, NEW b, Becomes(d, q), RecordsAs(d, q, m, b),
           UNCHANGED <<main, client, server, setup, sent>>, Sealed => Sealed', Watched(d)
    PROVE  Watched(d)'
<1> DEFINE l == pump[d].lines
           s == sent[d]
<1>0. l \in Seq(Piece) /\ inp[d] \in Seq(Piece) /\ s \in Seq(Messages) /\ Len(s) \in Nat /\ rec \in Trace
  BY TypedPump, PumpFields, LenProperties DEF PInv
<1>1. pump'[d] = q /\ inp' = inp /\ Rest(d)' = Rest(d) /\ sent' = sent /\ setup' = setup
  BY DEF Rest, Becomes, RecordsAs
<1>2. InFileThen(d, m)
  BY <1>0, RecordsNote, NotesFile
<1>3. PICK c \in 0 .. Len(s) : Flow(l \o inp[d], s, c) /\ Caught(d, c)
  BY DEF Watched, Cursor
<1>4. /\ Paired(l) /\ Paired(inp[d]) /\ Leads(inp[d], Rest(d))
      /\ Leads(l, IF inp[d] = <<>> THEN Rest(d) ELSE inp[d])
      /\ (pump[d].eof => NoneLast(l))
      /\ pump[d].part # None => l # <<>> /\ l[Len(l)] = [msg |-> pump[d].part, last |-> FALSE]
  BY DEF Watched, Unbroken
<1>5. CASE b
  <2>1. PICK i \in 1 .. Len(l) : /\ Completes(l, i) /\ m = l[i].msg
                                 /\ q.lines = SubSeq(l, i + 1, Len(l)) /\ q.part = pump[d].part
    BY <1>5 DEF RecordsAs
  <2> DEFINE next == IF inp[d] = <<>> THEN Rest(d) ELSE inp[d]
             t == SubSeq(l, i + 1, Len(l))
  <2>2. Parts(l, i, next)
    BY <1>0, <1>4, <2>1, PartsFollow
  <2>3. /\ Paired(t) /\ Leads(t, next)
        /\ ~l[Len(l)].last /\ l[i].last => t # <<>> /\ t[Len(t)] = l[Len(l)]
    BY <2>2 DEF Parts
  <2>4. GoesOn(l, i, inp[d], s, c)
    BY <1>0, <1>3, <1>4, <2>1, NextLine
  <2>5. c \in Nat /\ c + 1 \in 1 .. Len(s) /\ m = s[c + 1] /\ Flow(t \o inp[d], s, c + 1)
    BY <2>1, <2>4 DEF GoesOn
  <2>6. l[i].last /\ ~pump[d].eof
    BY <1>4, <2>1 DEF Completes, NoneLast
  <2>7. q.lines = t /\ ~q.eof
    BY <2>1, <2>6 DEF RecordsAs, SameControl
  <2> HIDE DEF t
  <2>8. Unbroken(d)'
    <3>1. q.part # None => t # <<>> /\ t[Len(t)] = [msg |-> q.part, last |-> FALSE]
      BY <1>4, <2>1, <2>3, <2>6
    <3> QED BY <1>1, <1>4, <2>3, <2>7, <3>1 DEF Unbroken
  <2>9. Caught(d, c + 1)'
    <3>1. /\ \A k \in 1 .. c : s[k] \in Recordable => Sealed \/ InFile(d, s[k])
          /\ \A k \in c + 1 .. Len(s) : ~InFile(d, s[k])
      BY <1>3 DEF Caught
    <3>2. Recordable' = Recordable
      BY <1>1 DEF Recordable
    <3>3. ASSUME NEW k \in 1 .. c + 1, s[k] \in Recordable PROVE Sealed' \/ InFile(d, s[k])'
      <4>1. k \in 1 .. c \/ k = c + 1
        BY <2>5
      <4> QED BY <1>2, <2>5, <3>1, <3>3, <4>1 DEF InFileThen
    <3>4. ASSUME NEW k \in (c + 1) + 1 .. Len(s) PROVE ~InFile(d, s[k])'
      <4>1. k \in c + 1 .. Len(s) /\ k \in 1 .. Len(s) /\ k # c + 1
        BY <1>0, <2>5
      <4>2. s[k] # s[c + 1]
        BY <2>5, <4>1 DEF WInv, Apart
      <4> QED BY <1>2, <2>5, <3>1, <4>1, <4>2 DEF InFileThen
    <3> QED BY <1>1, <3>2, <3>3, <3>4 DEF Caught, InFile
  <2>10. c + 1 \in 0 .. Len(s)
    BY <2>5
  <2>11. Cursor(d)'
    BY <1>1, <2>5, <2>7, <2>9, <2>10 DEF Cursor
  <2> QED BY <2>8, <2>11 DEF Watched
<1>6. CASE ~b
  <2>1. q.lines = l /\ q.part = None /\ pump[d].eof /\ m = pump[d].part /\ m # None
    BY <1>6, MessageFields DEF RecordsAs
  <2>2. inp[d] = <<>>
    BY <2>1 DEF PInv, PumpsAgree
  <2>3. Fresh(d, m)
    <3>1. Rest(d) # <<>> /\ Rest(d)[1] = Final(m)
      BY <1>4, <2>1, <2>2 DEF Leads
    <3>2. PICK k \in Messages : Rest(d) = <<Final(k)>> /\ Fresh(d, k)
      BY <3>1 DEF WInv, Apart
    <3> QED BY <3>1, <3>2 DEF Final
  <2>4. SameFile(d)
    BY <1>2, <2>3 DEF SameFile, InFileThen, Fresh
  <2>5. WatchGoesOn(d)
    BY <1>1, <2>1 DEF WatchGoesOn
  <2>6. Typed
    BY DEF PInv
  <2> QED BY <2>4, <2>5, <2>6, WatchOn
<1> QED BY <1>5, <1>6 DEF RecordsAs

LEMMA PumpKeepsWatch ==
    ASSUME PInv, WInv, NEW d \in Directions, NEW q, PumpGoes(d, q), Sealed => Sealed'
    PROVE  WInv'
<1>0. Typed /\ rec \in Trace /\ Becomes(d, q) /\ pump'[d] = q /\ Live(pump[d])
  BY DEF PInv, Typed, PumpGoes, Becomes, PumpRuns, Live
<1>1. /\ UNCHANGED <<main, client, server, setup, sent>>
      /\ \A o \in Directions : Rest(o)' = Rest(o)
  BY DEF PumpGoes, Rest
<1>2. EndsStay
  BY EndsStayOn
<1>3. Apart'
  <2>1. BeginsOn
    BY <1>1 DEF BeginsOn
  <2> QED BY <1>0, <1>1, <2>1, ApartStays DEF WInv
<1>4. Filed' /\ HeldFits'
  <2>1. CASE \E m, b : RecordsAs(d, q, m, b)
    BY <2>1, NotesFit
  <2>2. CASE rec' = rec
    <3>1. \A i \in 1 .. Len(rec.lines) : \A x : x = rec.lines[i].ev => FiledAs(x)'
      BY <1>0, <1>1, <1>2, FiledOn DEF WInv
    <3>2. Filed'
      BY <2>2, <3>1 DEF Filed, FiledAs, Fresh
    <3> QED BY <1>1, <1>2, <2>2, <3>2, HeldFitsOn DEF WInv, Untouched
  <2> QED BY <2>1, <2>2 DEF PumpGoes, ReadsAs, ReadsEndAs, WritesAs, StopsAs
<1>5. Watched(d)
  BY <1>0 DEF WInv, Watched
<1>6. ASSUME NEW o \in Directions, Live(pump'[o]) PROVE Watched(o)'
  <2>1. CASE o # d
    <3>1. pump'[o] = pump[o] /\ inp'[o] = inp[o]
      <4>1. inp \in [Directions -> Seq(Piece)]
        BY <1>0 DEF Typed
      <4> QED BY <1>0, <2>1, <4>1 DEF Becomes, PumpGoes, ReadsAs, ReadsEndAs, RecordsAs, WritesAs, StopsAs
    <3>2. Watched(o)
      BY <1>6, <3>1 DEF WInv, Watched
    <3>3. SameFile(o)
      <4>1. CASE \E m, b : RecordsAs(d, q, m, b)
        <5>1. PICK m, b : RecordsAs(d, q, m, b)
          BY <4>1
        <5>2. InFileThen(d, m)
          BY <1>0, <5>1, RecordsNote, NotesFile
        <5>3. sent' = sent
          BY <1>1
        <5>4. \A k : InFile(o, k)' <=> InFile(o, k)
          BY <2>1, <5>2 DEF InFileThen
        <5> QED BY <5>3, <5>4 DEF SameFile
      <4>2. CASE rec' = rec
        BY <1>1, <4>2 DEF SameFile, InFile
      <4> QED BY <4>1, <4>2 DEF PumpGoes, ReadsAs, ReadsEndAs, WritesAs, StopsAs
    <3> QED BY <1>0, <1>1, <3>1, <3>2, <3>3, WatchOn DEF WatchGoesOn
  <2>2. CASE o = d /\ \E n : ReadsAs(d, q, n)
    BY <1>0, <1>1, <1>5, <2>2, ReadsKeepWatch
  <2>3. CASE o = d /\ \E m, b : RecordsAs(d, q, m, b)
    BY <1>0, <1>1, <1>5, <2>3, RecordsKeepWatch
  <2>4. CASE o = d /\ (ReadsEndAs(d, q) \/ WritesAs(d, q))
    <3>1. SameFile(d)
      BY <1>1, <2>4 DEF SameFile, InFile, ReadsEndAs, WritesAs
    <3>2. WatchGoesOn(d)
      BY <1>0, <1>1, <2>4 DEF WatchGoesOn, ReadsEndAs, WritesAs, NoneLast, SameControl
    <3> QED BY <1>0, <1>5, <2>4, <3>1, <3>2, WatchOn
  <2>5. CASE o = d /\ StopsAs(d, q)
    BY <1>0, <1>6, <2>5 DEF StopsAs, Live
  <2> QED BY <2>1, <2>2, <2>3, <2>4, <2>5 DEF PumpGoes
<1> QED BY <1>3, <1>4, <1>6 DEF WInv, Watched, Live

-----------------------------------------------------------------------------
(* The watch, under the steps of the main task and the end of the wrapper.     *)

\* The file has a mark more, or has one to come, or is as it was; or the wrapper
\* is gone and what its sink held is in the file.
MarkStep ==
    \/ Untouched
    \/ \E e \in Events : e.msg = None /\ e.full /\ (Lengthens(e) \/ HoldsBack(e))

LastWrite ==
    /\ rec'.lines = Tape(rec) /\ rec'.held = <<>>
    /\ \A d \in Directions : ~Live(pump'[d])

LEMMA MarkFiles ==
    ASSUME Typed, Closing, NEW e \in Events, e.msg = None, e.full, NEW c,
           Wrote(rec, rec', e) \/ Closed(rec, rec', e)
    PROVE  MarkStep
<1>1. CASE Closed(rec, rec', e) /\ rec.closed
  BY <1>1 DEF Closed, MarkStep, Untouched
<1>2. CASE Wrote(rec, rec', e)
  <2>1. Lands(rec, rec', e)
    BY <1>2 DEF Wrote
  <2> QED BY <2>1, LandsSomewhere DEF MarkStep
<1> QED BY <1>1, <1>2 DEF Closed

LEMMA StdioEventIs ==
    \A d \in Directions, body \in Bodies :
        LET e == StdioEvent(d, body)
        IN  e \in Events /\ e.msg = None /\ e.full /\ e.body = body
BY EventTypes DEF StdioEvent

LEMMA MainWrites ==
    ASSUME PInv, MainStep \/ Kill
    PROVE  MarkStep \/ LastWrite
<1>0. Typed /\ Closing /\ rec \in Trace /\ C2S \in Directions /\ S2C \in Directions
  BY DEF PInv, Typed, Directions, C2S, S2C
<1>b. {"transport-open", "transport-close", "transport-abort"} \subseteq Bodies
  BY DEF Bodies
<1>1. CASE OpenTraceRecords
  <2> DEFINE e == StdioEvent(C2S, "transport-open")
  <2>1. Wrote(rec, rec', e)
    BY <1>1 DEF OpenTraceRecords, Recorded
  <2>2. e \in Events /\ e.msg = None /\ e.full
    BY <1>0, <1>b, StdioEventIs
  <2> HIDE DEF e
  <2> QED BY <1>0, <2>1, <2>2, MarkFiles
<1>2. CASE BeginStopCloses
  <2> DEFINE e == StdioEvent(C2S, "transport-close")
  <2>1. Closed(rec, rec', e)
    BY <1>2 DEF BeginStopCloses
  <2>2. e \in Events /\ e.msg = None /\ e.full
    BY <1>0, <1>b, StdioEventIs
  <2> HIDE DEF e
  <2> QED BY <1>0, <2>1, <2>2, MarkFiles
<1>3. CASE CloseSessionCloses
  <2>1. PICK e \in Events : Closed(rec, rec', e) /\ e = ClosingEvent /\ e.msg = None
    BY <1>3 DEF CloseSessionCloses
  <2>2. e.full
    BY <2>1 DEF ClosingEvent, StdioEvent
  <2> QED BY <1>0, <2>1, <2>2, MarkFiles
<1>4. CASE FinishSession
  <2>1. rec.failed => Untouched
    BY <1>0, <1>4, EndRests DEF Untouched
  <2>2. ~rec.failed => Untouched
    <3> SUFFICES ASSUME ~rec.failed PROVE Untouched
      OBVIOUS
    <3>1. rec.dropped = 0
      BY <1>0, <1>4 DEF Closing, FinishSession
    <3>2. rec.held = <<>>
      BY <1>0, <3>1 DEF Closing, Held
    <3>3. Tape(rec) = rec.lines
      BY <1>0, <3>2, TapeType
    <3>4. Rested(rec, rec')
      BY <1>0, <1>4, EndRests
    <3> QED BY <3>2, <3>3, <3>4 DEF Rested, Untouched
  <2> QED BY <2>1, <2>2 DEF MarkStep
<1>5. CASE Kill
  BY <1>0, <1>5, EndRests DEF MarkStep, Untouched
<1>6. CASE Exit
  <2>1. Rested(rec, rec')
    BY <1>0, <1>6, EndRests
  <2>2. \A d \in Directions : ~Live(pump'[d])
    <3>1. GoneTurns
      BY <1>0, <1>6, MainTurns
    <3> QED BY <3>1 DEF GoneTurns, Live
  <2> QED BY <2>1, <2>2 DEF Rested, MarkStep, LastWrite, Untouched
<1>7. CASE UNCHANGED rec
  BY <1>7 DEF MarkStep, Untouched
<1> QED BY <1>0, <1>1, <1>2, <1>3, <1>4, <1>5, <1>6, <1>7, MainFilesAs DEF MainFiles

\* A mark is no message.
LEMMA MarkFile ==
    ASSUME rec \in Trace, MarkStep
    PROVE  \A d : \A m \in Messages : InFile(d, m)' <=> InFile(d, m)
<1>1. CASE rec'.lines = rec.lines
  BY <1>1, FileStays
<1>2. CASE rec'.lines # rec.lines
  <2>1. PICK e \in Events : e.msg = None /\ Lengthens(e)
    BY <1>2 DEF MarkStep, Untouched, HoldsBack
  <2>2. PICK line \in Lines : line.ev = e /\ rec'.lines = Append(rec.lines, line)
    BY <2>1 DEF Lengthens
  <2>3. \A d, m : InFile(d, m)' <=> InFile(d, m) \/ (line.ev.dir = d /\ line.ev.msg = m)
    BY <2>2, FileGrows
  <2> QED BY <2>1, <2>2, <2>3, MessageFields
<1> QED BY <1>1, <1>2

LEMMA MarkKeepsFile ==
    ASSUME Typed, WInv, EndsStay, sent' = sent, setup' = setup, MarkStep
    PROVE  Filed' /\ HeldFits'
<1>1. \A i \in 1 .. Len(rec.lines) : \A x : x = rec.lines[i].ev => FiledAs(x)'
  BY FiledOn DEF WInv
<1>2. CASE Untouched
  <2>1. HeldFits'
    BY <1>2, HeldFitsOn DEF WInv
  <2>2. rec'.lines = rec.lines
    BY <1>2 DEF Untouched
  <2> QED BY <1>1, <2>1, <2>2 DEF Filed, FiledAs, Fresh
<1>3. CASE \E e \in Events : e.msg = None /\ e.full /\ Lengthens(e)
  <2>1. PICK e \in Events, line \in Lines :
          /\ e.msg = None /\ line.ev = e
          /\ rec'.lines = Append(rec.lines, line) /\ rec'.held = <<>>
    BY <1>3 DEF Lengthens
  <2>2. rec \in Trace
    BY DEF Typed
  <2>3. FiledAs(e)'
    BY <2>1 DEF FiledAs
  <2>4. \A i \in 1 .. Len(rec'.lines) : \A x : x = rec'.lines[i].ev => FiledAs(x)'
    BY <1>1, <2>1, <2>2, <2>3, FileGrows
  <2> QED BY <2>1, <2>4 DEF Filed, FiledAs, Fresh, HeldFits
<1>4. CASE \E e \in Events : e.msg = None /\ e.full /\ HoldsBack(e)
  <2>1. PICK e \in Events, line \in Lines :
          /\ e.msg = None /\ e.full /\ line.ev = e
          /\ rec'.lines = rec.lines /\ rec'.held = <<line>>
    BY <1>4 DEF HoldsBack
  <2>2. Fits(e)'
    BY <2>1 DEF Fits
  <2>3. HeldFits'
    BY <2>1, <2>2 DEF HeldFits
  <2> QED BY <1>1, <2>1, <2>3 DEF Filed, FiledAs, Fresh
<1> QED BY <1>2, <1>3, <1>4 DEF MarkStep

\* What the sink held was of its place.
LEMMA LastKeepsFile ==
    ASSUME Typed, WInv, EndsStay, sent' = sent, LastWrite
    PROVE  Filed' /\ HeldFits'
<1>0. rec \in Trace
  BY DEF Typed
<1>1. \A i \in 1 .. Len(rec.lines) : \A x : x = rec.lines[i].ev => FiledAs(x)'
  BY FiledOn DEF WInv
<1>2. CASE rec.held = <<>>
  <2>1. rec'.lines = rec.lines
    BY <1>0, <1>2, TapeType DEF LastWrite
  <2> QED BY <1>1, <2>1 DEF Filed, FiledAs, Fresh, HeldFits, LastWrite
<1>3. CASE rec.held # <<>>
  <2>1. PICK line \in Lines :
          /\ rec.held = <<line>> /\ Fits(line.ev)
          /\ line.ev.msg # None /\ ~line.ev.full => pump[line.ev.dir].part = None
    BY <1>3 DEF WInv, HeldFits
  <2>2. line.ev.dir \in Directions
    BY DEF Lines, LinesOver, Events
  <2>3. \A x : x = line.ev => FiledAs(x)'
    <3> SUFFICES ASSUME NEW x, x = line.ev PROVE FiledAs(x)'
      OBVIOUS
    <3>1. CASE x.msg # None /\ x.full
      BY <2>1, <3>1 DEF Fits, NextUp, FiledAs, Fresh
    <3>2. CASE x.msg # None /\ ~x.full
      BY <2>1, <2>2, <3>2 DEF Fits, Leftover, FiledAs, EndsStay
    <3> QED BY <3>1, <3>2 DEF FiledAs
  <2>4. rec'.lines = Append(rec.lines, line)
    <3>1. rec.lines \in Seq(Lines)
      BY <1>0, Fields
    <3> QED BY <2>1, <3>1 DEF LastWrite, Tape
  <2>5. \A i \in 1 .. Len(rec'.lines) : \A x : x = rec'.lines[i].ev => FiledAs(x)'
    BY <1>0, <1>1, <2>3, <2>4, FileGrows
  <2> QED BY <2>5 DEF Filed, FiledAs, Fresh, HeldFits, LastWrite
<1> QED BY <1>2, <1>3

LEMMA MainKeepsWatch ==
    ASSUME PInv, WInv, MainStep \/ Kill, Sealed => Sealed'
    PROVE  WInv'
<1>0. Typed /\ rec \in Trace
  BY DEF PInv, Typed
<1>1. MainGoes
  BY MainStepGoes DEF PInv
<1>2. /\ UNCHANGED <<inp, client, setup, sent>> /\ \A o \in Directions : Rest(o)' = Rest(o)
      /\ \A o \in Directions : Leaves(pump'[o], pump[o])
  BY <1>1 DEF MainGoes, SameRest, Rest
<1>3. EndsStay
  BY <1>2 DEF EndsStay, Leaves
<1>4. Apart'
  BY <1>0, <1>1, <1>2, MainBeginsOn, ApartStays DEF WInv
<1>5. Filed' /\ HeldFits'
  BY <1>0, <1>2, <1>3, MainWrites, MarkKeepsFile, LastKeepsFile
<1>6. ASSUME NEW o \in Directions, Live(pump'[o]) PROVE Watched(o)'
  <2>1. MarkStep
    BY <1>6, MainWrites DEF LastWrite
  <2>2. SameFile(o)
    <3>1. sent[o] \in Seq(Messages) /\ sent' = sent
      BY <1>0, <1>2, TypedPump
    <3>2. \A i \in 1 .. Len(sent[o]) : sent[o][i] \in Messages
      BY <3>1
    <3>3. \A m \in Messages : InFile(o, m)' <=> InFile(o, m)
      BY <1>0, <2>1, MarkFile
    <3> QED BY <3>1, <3>2, <3>3 DEF SameFile
  <2>3. /\ Live(pump[o]) /\ pump'[o].lines = pump[o].lines /\ pump'[o].part = pump[o].part
        /\ pump'[o].eof = pump[o].eof
    BY <1>2, <1>6 DEF Leaves
  <2>4. WatchGoesOn(o)
    BY <1>2, <2>3 DEF WatchGoesOn
  <2>5. Watched(o)
    BY <2>3 DEF WInv, Watched
  <2> QED BY <1>0, <2>2, <2>4, <2>5, WatchOn
<1> QED BY <1>4, <1>5, <1>6 DEF WInv, Watched, Live

-----------------------------------------------------------------------------
(* The watch, under the steps of the environment.                              *)

\* The sender of d puts in a piece x of the message m, or there is nobody to
\* take it.
Speaks(d, x, m) ==
    /\ x \in Piece /\ m \in Messages /\ Fresh(d, m) /\ Begun(client', server', m)
    /\ \/ Rest(d) = <<Final(m)>> /\ x = Final(m) /\ Rest(d)' = <<>>
       \/ Rest(d) = <<>> /\ StartsAs(m, x, Rest(d)')
    /\ \A o \in Directions : o # d => Rest(o)' = Rest(o)
    /\ \/ ~WritersGone(d) /\ Emits(d, x) /\ Len(inp[d]) < setup.room
       \/ ~Live(pump[d]) /\ inp' = inp /\ sent' = sent
    /\ BeginsOn /\ UNCHANGED <<rec, main, pump, setup>>

\* What has not been begun has not been sent.
LEMMA NewIsFresh ==
    ASSUME WInv, NEW d \in Directions, NEW m, ~Begun(client, server, m)
    PROVE  Fresh(d, m)
BY DEF WInv, Apart, Fresh

\* What the sender had begun it goes on with.
LEMMA RestIs ==
    ASSUME WInv, NEW d \in Directions, Rest(d) # <<>>
    PROVE  \E m \in Messages : /\ Rest(d) = <<Final(m)>> /\ Head(Rest(d)) = Final(m)
                               /\ Tail(Rest(d)) = <<>>
                               /\ Begun(client, server, m) /\ Fresh(d, m)
<1>1. PICK m \in Messages : Rest(d) = <<Final(m)>> /\ Begun(client, server, m) /\ Fresh(d, m)
  BY DEF WInv, Apart
<1>2. \A x : Head(<<x>>) = x /\ Tail(<<x>>) = <<>>
  OBVIOUS
<1> QED BY <1>1, <1>2

LEMMA ClientSpeaks ==
    ASSUME PInv, WInv, NEW x, NEW c, ClientSendsAs(x, c), UNCHANGED <<rec, main, pump>>
    PROVE  \E m : Speaks(C2S, x, m)
<1>0. C2S \in Directions /\ S2C \in Directions /\ C2S # S2C /\ Directions = {C2S, S2C} /\ Typed
      /\ server' = server
  BY DEF Directions, C2S, S2C, PInv, ClientSendsAs
<1>1. /\ Rest(C2S) = client.rest /\ Rest(C2S)' = c.rest
      /\ \A o \in Directions : o # C2S => Rest(o)' = Rest(o)
  BY <1>0 DEF Rest, ClientSendsAs
<1>2. /\ x \in Piece /\ ~WritersGone(C2S) /\ Emits(C2S, x) /\ Len(inp[C2S]) < setup.room
      /\ BeginsOn /\ setup' = setup
  BY <1>0, ClientBeginsOn DEF ClientSendsAs, WritersGone
<1>3. CASE client.rest # <<>>
  <2>1. PICK m \in Messages : /\ Rest(C2S) = <<Final(m)>> /\ Head(Rest(C2S)) = Final(m)
                              /\ Tail(Rest(C2S)) = <<>>
                              /\ Begun(client, server, m) /\ Fresh(C2S, m)
    BY <1>0, <1>1, <1>3, RestIs
  <2>2. x = Final(m) /\ Rest(C2S)' = <<>>
    BY <1>1, <1>3, <2>1 DEF ClientSendsAs
  <2>3. Begun(client', server', m)
    BY <1>2, <2>1 DEF BeginsOn
  <2> QED BY <1>1, <1>2, <2>1, <2>2, <2>3 DEF Speaks
<1>4. CASE client.rest = <<>>
  <2> DEFINE m == <<"request", client.begun + 1>>
  <2>1. /\ client.begun < setup.requests /\ StartsAs(m, x, c.rest)
        /\ c.begun = client.begun + 1 /\ client' = c
    BY <1>4 DEF ClientSendsAs
  <2>2. m \in Messages /\ client.begun \in Nat
    <3>1. client.begun \in Nat
      BY <1>0 DEF Typed, Clients
    <3>2. setup.requests \in 0 .. Requests /\ Requests \in Nat
      BY <1>0, TypedPump
    <3>3. client.begun + 1 \in 1 .. Requests
      BY <2>1, <3>1, <3>2
    <3> QED BY <3>1, <3>3 DEF Messages
  <2>3. ~Begun(client, server, m) /\ Begun(client', server', m)
    BY <1>0, <2>1, <2>2 DEF Begun
  <2> HIDE DEF m
  <2>4. Fresh(C2S, m)
    BY <1>0, <2>3, NewIsFresh
  <2> QED BY <1>1, <1>2, <1>4, <2>1, <2>2, <2>3, <2>4 DEF Speaks
<1> QED BY <1>3, <1>4

LEMMA ServerSpeaks ==
    ASSUME PInv, WInv, NEW x, NEW s, NEW k, ServerSendsAs(x, s, k), UNCHANGED <<rec, main, pump>>
    PROVE  \E m : Speaks(S2C, x, m)
<1>0. C2S \in Directions /\ S2C \in Directions /\ C2S # S2C /\ Directions = {C2S, S2C} /\ Typed
      /\ InTurn /\ client' = client
  BY DEF Directions, C2S, S2C, PInv, ServerSendsAs
<1>1. /\ Rest(S2C) = server.rest /\ Rest(S2C)' = s.rest
      /\ \A o \in Directions : o # S2C => Rest(o)' = Rest(o)
  BY <1>0 DEF Rest, ServerSendsAs
<1>2. /\ x \in Piece /\ ~WritersGone(S2C) /\ BeginsOn /\ setup' = setup
      /\ \/ Emits(S2C, x) /\ Len(inp[S2C]) < setup.room
         \/ ~Live(pump[S2C]) /\ inp' = inp /\ sent' = sent
  BY <1>0, ServerBeginsOn DEF ServerSendsAs, ServerGives, WritersGone, Live
<1>3. CASE server.rest # <<>>
  <2>1. PICK m \in Messages : /\ Rest(S2C) = <<Final(m)>> /\ Head(Rest(S2C)) = Final(m)
                              /\ Tail(Rest(S2C)) = <<>>
                              /\ Begun(client, server, m) /\ Fresh(S2C, m)
    BY <1>0, <1>1, <1>3, RestIs
  <2>2. x = Final(m) /\ Rest(S2C)' = <<>>
    BY <1>1, <1>3, <2>1 DEF ServerSendsAs
  <2>3. Begun(client', server', m)
    BY <1>2, <2>1 DEF BeginsOn
  <2> QED BY <1>1, <1>2, <2>1, <2>2, <2>3 DEF Speaks
<1>4. CASE server.rest = <<>>
  <2>1. k \in Messages /\ ~Begun(client, server, k) /\ Begun(client', server', k)
    BY <1>0, <1>4, ServerBeginsOn
  <2>2. StartsAs(k, x, s.rest)
    BY <1>4 DEF ServerSendsAs
  <2>3. Fresh(S2C, k)
    BY <1>0, <2>1, NewIsFresh
  <2> QED BY <1>1, <1>2, <1>4, <2>1, <2>2, <2>3 DEF Speaks
<1> QED BY <1>3, <1>4

\* What is sent is new, and was not recorded.
LEMMA NewIsUnfiled ==
    ASSUME PInv, WInv, NEW d \in Directions, NEW m \in Messages, Fresh(d, m), ~WritersGone(d)
    PROVE  ~InFile(d, m) /\ ~pump[d].eof
<1>1. ~pump[d].eof
  BY DEF PInv, PumpsAgree
<1>2. m # None
  BY MessageFields
<1> QED BY <1>1, <1>2 DEF WInv, Filed, InFile

\* What a sender has sent, a piece later.
LEMMA SpokenIs ==
    ASSUME PInv, NEW d \in Directions, NEW x, NEW m, Speaks(d, x, m)
    PROVE  /\ \A o \in Directions : o # d => inp'[o] = inp[o] /\ sent'[o] = sent[o]
           /\ \/ sent'[d] = sent[d]
              \/ x = Final(m) /\ ~WritersGone(d) /\ sent'[d] = Append(sent[d], m) /\ Rest(d)' = <<>>
           /\ \A i \in 1 .. Len(sent[d]) : i \in 1 .. Len(sent'[d]) /\ sent'[d][i] = sent[d][i]
           /\ \A i \in 1 .. Len(sent'[d]) :
                 \/ i \in 1 .. Len(sent[d]) /\ sent'[d][i] = sent[d][i]
                 \/ i = Len(sent[d]) + 1 /\ sent'[d][i] = m
           /\ Len(sent[d]) \in Nat
<1>0. Typed /\ sent[d] \in Seq(Messages) /\ Len(sent[d]) \in Nat
  BY TypedPump, LenProperties DEF PInv
<1>1. CASE inp' = inp /\ sent' = sent
  BY <1>0, <1>1
<1>2. CASE ~WritersGone(d) /\ Emits(d, x) /\ Len(inp[d]) < setup.room
  <2>1. /\ sent'[d] = Longer(sent[d], x)
        /\ \A o \in Directions : o # d => inp'[o] = inp[o] /\ sent'[o] = sent[o]
    BY <1>0, <1>2, EmitTypes DEF Speaks
  <2>2. CASE x.last
    <3>1. x = Final(m) /\ Rest(d)' = <<>> /\ x.msg = m /\ m \in Messages
      BY <2>2 DEF Speaks, StartsAs, Final
    <3>2. sent'[d] = Append(sent[d], m)
      BY <2>1, <2>2, <3>1 DEF Longer
    <3>3. /\ \A i \in 1 .. Len(sent[d]) : sent'[d][i] = sent[d][i] /\ i \in 1 .. Len(sent'[d])
          /\ \A i \in 1 .. Len(sent'[d]) :
                i \in 1 .. Len(sent[d]) \/ (i = Len(sent[d]) + 1 /\ sent'[d][i] = m)
      BY <1>0, <3>1, <3>2, AppendIs
    <3> QED BY <1>0, <1>2, <2>1, <3>1, <3>2, <3>3
  <2>3. CASE ~x.last
    <3>1. sent'[d] = sent[d]
      BY <2>1, <2>3 DEF Longer
    <3> QED BY <1>0, <2>1, <3>1
  <2> QED BY <2>2, <2>3
<1> QED BY <1>1, <1>2 DEF Speaks

LEMMA SpeaksApart ==
    ASSUME PInv, WInv, NEW d \in Directions, NEW x, NEW m, Speaks(d, x, m)
    PROVE  Apart'
<1> SUFFICES ASSUME NEW o \in Directions
             PROVE  /\ \A i, j \in 1 .. Len(sent'[o]) : sent'[o][i] = sent'[o][j] => i = j
                    /\ \A i \in 1 .. Len(sent'[o]) : Begun(client', server', sent'[o][i])
                    /\ \/ Rest(o)' = <<>>
                       \/ \E k \in Messages :
                             /\ Rest(o)' = <<Final(k)>> /\ Begun(client', server', k)
                             /\ \A i \in 1 .. Len(sent'[o]) : sent'[o][i] # k
  BY DEF Apart, Fresh, Begun
<1>0. sent[o] \in Seq(Messages) /\ \A i \in 1 .. Len(sent[o]) : sent[o][i] \in Messages
  <2>1. sent[o] \in Seq(Messages)
    BY TypedPump DEF PInv
  <2> QED BY <2>1
<1>1. /\ \A i, j \in 1 .. Len(sent[o]) : sent[o][i] = sent[o][j] => i = j
      /\ \A i \in 1 .. Len(sent[o]) : Begun(client, server, sent[o][i])
      /\ \/ Rest(o) = <<>>
         \/ \E k \in Messages : Rest(o) = <<Final(k)>> /\ Begun(client, server, k) /\ Fresh(o, k)
  BY DEF WInv, Apart
<1>2. \A k \in Messages : Begun(client, server, k) => Begun(client', server', k)
  BY DEF Speaks, BeginsOn
<1>3. CASE o # d
  <2>1. sent'[o] = sent[o] /\ Rest(o)' = Rest(o)
    BY <1>3, SpokenIs DEF Speaks
  <2> QED BY <1>0, <1>1, <1>2, <2>1 DEF Fresh
<1>4. CASE o = d
  <2>1. /\ m \in Messages /\ Begun(client', server', m) /\ \A i \in 1 .. Len(sent[d]) : sent[d][i] # m
        /\ \A i \in 1 .. Len(sent'[d]) :
              \/ i \in 1 .. Len(sent[d]) /\ sent'[d][i] = sent[d][i]
              \/ i = Len(sent[d]) + 1 /\ sent'[d][i] = m
    <3>1. /\ m \in Messages /\ Begun(client', server', m)
          /\ \A i \in 1 .. Len(sent[d]) : sent[d][i] # m
      BY DEF Speaks, Fresh
    <3> QED BY <3>1, SpokenIs
  <2>2. ASSUME NEW i \in 1 .. Len(sent'[d]), NEW j \in 1 .. Len(sent'[d]), sent'[d][i] = sent'[d][j]
        PROVE  i = j
    BY <1>1, <1>4, <2>1, <2>2
  <2>3. \A i \in 1 .. Len(sent'[d]) : Begun(client', server', sent'[d][i])
    BY <1>0, <1>1, <1>2, <1>4, <2>1
  <2>4. \/ Rest(d)' = <<>>
        \/ Rest(d)' = <<Final(m)>> /\ \A i \in 1 .. Len(sent'[d]) : sent'[d][i] # m
    <3>1. CASE sent'[d] = sent[d]
      <4>1. Rest(d)' = <<>> \/ Rest(d)' = <<Final(m)>>
        BY DEF Speaks, StartsAs
      <4> QED BY <2>1, <3>1, <4>1
    <3> QED BY <3>1, SpokenIs
  <2> QED BY <1>4, <2>1, <2>2, <2>3, <2>4
<1> QED BY <1>3, <1>4

LEMMA SpeaksKeepsFile ==
    ASSUME PInv, WInv, NEW d \in Directions, NEW x, NEW m, Speaks(d, x, m)
    PROVE  Filed' /\ HeldFits'
<1>0. rec' = rec /\ pump' = pump /\ setup' = setup /\ m \in Messages /\ Typed
  BY DEF Speaks, PInv
<1>1. \A o \in Directions : \A k : ~Fresh(o, k) => ~Fresh(o, k)'
  <2> SUFFICES ASSUME NEW o \in Directions, NEW k, NEW i \in 1 .. Len(sent[o]), sent[o][i] = k
               PROVE  ~Fresh(o, k)'
    BY DEF Fresh
  <2>1. i \in 1 .. Len(sent'[o]) /\ sent'[o][i] = k
    BY SpokenIs
  <2> QED BY <2>1 DEF Fresh
<1>2. \A line \in Lines : line.ev \in Events /\ line.ev.dir \in Directions
  BY DEF Lines, LinesOver, Events
<1>3. \A i \in 1 .. Len(rec.lines) : rec.lines[i].ev.dir \in Directions
  <2>1. rec.lines \in Seq(Lines)
    BY <1>0, Fields DEF Typed
  <2>2. \A i \in 1 .. Len(rec.lines) : rec.lines[i] \in Lines
    BY <2>1
  <2> QED BY <1>2, <2>2
<1>4. Filed'
  <2> SUFFICES ASSUME NEW i \in 1 .. Len(rec.lines), NEW e, e = rec.lines[i].ev
               PROVE  FiledAs(e)'
    BY <1>0 DEF Filed, FiledAs, Fresh
  <2>1. FiledAs(e) /\ e.dir \in Directions
    BY <1>3 DEF WInv, Filed, FiledAs
  <2> QED BY <1>0, <1>1, <2>1 DEF FiledAs
<1>5. ASSUME NEW e \in Events, Fits(e) PROVE Fits(e)'
  <2> DEFINE o == e.dir
  <2>0. o \in Directions /\ Recordable' = Recordable
    BY <1>0 DEF Events, Recordable
  <2>f. \A k : InFile(o, k)' <=> InFile(o, k)
    BY <1>0, FileStays
  <2> HIDE DEF o
  <2>1. CASE sent'[o] = sent[o]
    <3>1. NextUp(o, e.msg) => NextUp(o, e.msg)'
      BY <1>0, <2>0, <2>1 DEF NextUp, InFile
    <3>2. Leftover(o, e.msg) => Leftover(o, e.msg)'
      BY <1>0, <2>0, <2>1 DEF Leftover, InFile, Fresh
    <3> QED BY <1>5, <3>1, <3>2 DEF Fits, o
  <2>2. CASE sent'[o] # sent[o]
    <3>1. o = d /\ ~WritersGone(d)
      BY <2>0, <2>2, SpokenIs
    <3>2. ~InFile(d, m) /\ ~pump[d].eof
      BY <1>0, <3>1, NewIsUnfiled DEF Speaks
    <3>3. NextUp(d, e.msg) => NextUp(d, e.msg)'
      <4> SUFFICES ASSUME NEW k, k = e.msg, NextUp(d, k) PROVE NextUp(d, k)'
        OBVIOUS
      <4>1. PICK i \in 1 .. Len(sent[d]) :
              /\ sent[d][i] = k
              /\ \A j \in i .. Len(sent[d]) : ~InFile(d, sent[d][j])
              /\ \A j \in 1 .. i - 1 : sent[d][j] \in Recordable => InFile(d, sent[d][j])
        BY DEF NextUp
      <4>2. /\ i \in 1 .. Len(sent'[d]) /\ sent'[d][i] = k
            /\ \A j \in 1 .. Len(sent[d]) : sent'[d][j] = sent[d][j]
            /\ \A j \in 1 .. Len(sent'[d]) :
                  \/ j \in 1 .. Len(sent[d]) /\ sent'[d][j] = sent[d][j]
                  \/ sent'[d][j] = m
            /\ Len(sent[d]) \in Nat
        BY <4>1, SpokenIs
      <4>3. \A j \in i .. Len(sent'[d]) : ~InFile(d, sent'[d][j])
        BY <3>2, <4>1, <4>2
      <4>4. \A j \in 1 .. i - 1 : sent'[d][j] \in Recordable => InFile(d, sent'[d][j])
        BY <4>1, <4>2
      <4> QED BY <1>0, <2>0, <4>2, <4>3, <4>4 DEF NextUp, InFile
    <3>4. ~Leftover(d, e.msg)
      BY <3>2 DEF Leftover
    <3> QED BY <1>5, <3>1, <3>3, <3>4 DEF Fits, o
  <2> QED BY <2>1, <2>2
<1>6. HeldFits'
  <2>1. CASE rec.held = <<>>
    BY <1>0, <2>1 DEF HeldFits
  <2>2. CASE rec.held # <<>>
    <3>1. PICK line \in Lines :
            /\ rec.held = <<line>> /\ Fits(line.ev)
            /\ line.ev.msg # None /\ ~line.ev.full => pump[line.ev.dir].part = None
      BY <2>2 DEF WInv, HeldFits
    <3>2. Fits(line.ev)'
      BY <1>2, <1>5, <3>1
    <3> QED BY <1>0, <3>1, <3>2 DEF HeldFits
  <2> QED BY <2>1, <2>2
<1> QED BY <1>4, <1>6

LEMMA SpeaksKeepsWatch ==
    ASSUME PInv, WInv, NEW d \in Directions, NEW x, NEW m, Speaks(d, x, m), Live(pump[d])
    PROVE  Watched(d)'
<1> DEFINE l == pump[d].lines
           s == inp[d]
           old == Rest(d)
           new == Rest(d)'
           t == Append(s, x)
<1>0. /\ Typed /\ l \in Seq(Piece) /\ s \in Seq(Piece) /\ sent[d] \in Seq(Messages)
      /\ Len(sent[d]) \in Nat /\ m \in Messages /\ x \in Piece
      /\ ~WritersGone(d) /\ Emits(d, x) /\ Len(inp[d]) < setup.room
      /\ rec' = rec /\ pump' = pump /\ main' = main /\ setup' = setup
  BY TypedPump, PumpFields, LenProperties DEF PInv, Speaks
<1>1. inp'[d] = t /\ sent'[d] = Longer(sent[d], x)
  BY <1>0, EmitTypes
<1>2. ~InFile(d, m) /\ ~pump[d].eof
  BY <1>0, NewIsUnfiled DEF Speaks
<1>3. /\ Paired(l) /\ Paired(s) /\ Leads(s, old) /\ Leads(l, IF s = <<>> THEN old ELSE s)
      /\ pump[d].part # None => l # <<>> /\ l[Len(l)] = [msg |-> pump[d].part, last |-> FALSE]
  BY DEF WInv, Unbroken
<1>4. \/ old = <<Final(m)>> /\ x = Final(m) /\ new = <<>>
      \/ old = <<>> /\ StartsAs(m, x, new)
  BY DEF Speaks
<1>5. PICK c \in 0 .. Len(sent[d]) : Flow(l \o s, sent[d], c) /\ Caught(d, c)
  BY DEF WInv, Cursor
<1>n. new = Rest(d)'
  OBVIOUS
<1> HIDE DEF l, s, old, new
<1>6. Paired(t) /\ Leads(t, new) /\ Leads(l, t)
  BY <1>0, <1>3, <1>4, PieceFollows
<1>7. t # <<>>
  <2>1. s \in Seq(Piece) /\ x \in Piece
    BY <1>0
  <2>2. t \in Seq(Piece) /\ Len(t) # 0
    BY <2>1, AppendIs
  <2> HIDE DEF t
  <2> QED BY <2>2, EmptySeq
<1> HIDE DEF t
<1>8. Unbroken(d)'
  BY <1>0, <1>1, <1>2, <1>3, <1>6, <1>7, <1>n DEF Unbroken, l
<1>9. Flow(l \o t, sent'[d], c)
  <2>1. l \o t = Append(l \o s, x) /\ l \o s \in Seq(Piece)
    BY <1>0, ConcatSteps DEF t
  <2> QED BY <1>0, <1>1, <1>5, <2>1, FlowAppend
<1>10. c \in 0 .. Len(sent'[d]) /\ Caught(d, c)'
  <2>1. /\ \A i \in 1 .. Len(sent[d]) : i \in 1 .. Len(sent'[d]) /\ sent'[d][i] = sent[d][i]
        /\ \A i \in 1 .. Len(sent'[d]) :
              \/ i \in 1 .. Len(sent[d]) /\ sent'[d][i] = sent[d][i]
              \/ i = Len(sent[d]) + 1 /\ sent'[d][i] = m
    BY SpokenIs
  <2>2. /\ \A i \in 1 .. c : sent[d][i] \in Recordable => Sealed \/ InFile(d, sent[d][i])
        /\ \A i \in c + 1 .. Len(sent[d]) : ~InFile(d, sent[d][i])
    BY <1>5 DEF Caught
  <2>3. \A i \in 1 .. c : sent'[d][i] \in Recordable => Sealed \/ InFile(d, sent'[d][i])
    BY <1>0, <1>5, <2>1, <2>2
  <2>4. \A i \in c + 1 .. Len(sent'[d]) : ~InFile(d, sent'[d][i])
    <3> SUFFICES ASSUME NEW i \in c + 1 .. Len(sent'[d]) PROVE ~InFile(d, sent'[d][i])
      OBVIOUS
    <3>1. i \in 1 .. Len(sent'[d])
      BY <1>5
    <3>2. CASE i \in 1 .. Len(sent[d]) /\ sent'[d][i] = sent[d][i]
      <4>1. i \in c + 1 .. Len(sent[d])
        BY <1>0, <1>5, <3>2
      <4> QED BY <2>2, <3>2, <4>1
    <3>3. CASE sent'[d][i] = m
      BY <1>2, <3>3
    <3> QED BY <2>1, <3>1, <3>2, <3>3
  <2>5. c \in 0 .. Len(sent'[d])
    <3>1. /\ Len(sent[d]) \in Nat
          /\ Len(sent'[d]) = Len(sent[d]) + 1 \/ Len(sent'[d]) = Len(sent[d])
      BY <1>0, <1>1, LongerType
    <3> QED BY <3>1
  <2>6. Recordable' = Recordable /\ (Sealed' <=> Sealed)
    BY <1>0 DEF Recordable, Sealed, Ended
  <2>7. /\ \A i \in 1 .. c : sent'[d][i] \in Recordable' => Sealed' \/ InFile(d, sent[d][i])'
        /\ \A i \in c + 1 .. Len(sent'[d]) : ~InFile(d, sent[d][i])'
    BY <1>0, <2>3, <2>4, <2>6 DEF InFile
  <2>8. Caught(d, c)'
    BY <2>7 DEF Caught
  <2> QED BY <2>5, <2>8
<1>11. Cursor(d)'
  BY <1>0, <1>1, <1>9, <1>10 DEF Cursor, l
<1> QED BY <1>8, <1>11 DEF Watched

LEMMA SpeakerKeepsWatch ==
    ASSUME PInv, WInv, NEW d \in Directions, NEW x, NEW m, Speaks(d, x, m)
    PROVE  WInv'
<1>0. Typed /\ rec' = rec /\ pump' = pump /\ main' = main /\ setup' = setup
  BY DEF PInv, Speaks
<1>1. Apart' /\ Filed' /\ HeldFits'
  BY SpeaksApart, SpeaksKeepsFile
<1>2. ASSUME NEW o \in Directions, Live(pump'[o]) PROVE Watched(o)'
  <2>1. CASE o = d
    BY <1>0, <1>2, <2>1, SpeaksKeepsWatch
  <2>2. CASE o # d
    <3>1. sent'[o] = sent[o] /\ inp'[o] = inp[o] /\ Rest(o)' = Rest(o)
      BY <2>2, SpokenIs DEF Speaks
    <3>2. WatchGoesOn(o)
      BY <1>0, <3>1 DEF WatchGoesOn
    <3>3. SameFile(o) /\ (Sealed => Sealed')
      BY <1>0, <3>1 DEF SameFile, InFile, Sealed, Ended
    <3>4. Watched(o)
      BY <1>0, <1>2 DEF WInv, Watched
    <3> QED BY <1>0, <3>2, <3>3, <3>4, WatchOn
  <2> QED BY <2>1, <2>2
<1> QED BY <1>1, <1>2 DEF WInv, Watched, Live

\* A step that puts nothing in, takes nothing out and records nothing.
StillStep ==
    /\ UNCHANGED <<rec, main, pump, inp, setup, sent>>
    /\ \A d \in Directions : Rest(d)' = Rest(d)

LEMMA StillKeepsWatch ==
    ASSUME PInv, WInv, StillStep, BeginsOn
    PROVE  WInv'
<1>0. Typed /\ rec' = rec /\ pump' = pump /\ main' = main /\ setup' = setup /\ sent' = sent /\ inp' = inp
  BY DEF PInv, StillStep
<1>1. Apart'
  BY <1>0, ApartStays DEF WInv, StillStep
<1>2. EndsStay /\ Untouched
  BY <1>0 DEF EndsStay, Untouched
<1>3. Filed' /\ HeldFits'
  BY <1>0, <1>2, MarkKeepsFile DEF MarkStep
<1>4. ASSUME NEW o \in Directions, Live(pump'[o]) PROVE Watched(o)'
  <2>1. WatchGoesOn(o)
    BY <1>0 DEF WatchGoesOn, StillStep
  <2>2. SameFile(o) /\ (Sealed => Sealed')
    BY <1>0 DEF SameFile, InFile, Sealed, Ended
  <2>3. Watched(o)
    BY <1>0, <1>4 DEF WInv, Watched
  <2> QED BY <1>0, <2>1, <2>2, <2>3, WatchOn
<1> QED BY <1>1, <1>3, <1>4 DEF WInv, Watched, Live

LEMMA EnvKeepsWatch ==
    ASSUME PInv, WInv, EnvGoes
    PROVE  WInv'
<1>0. /\ Typed /\ InTurn /\ UNCHANGED <<rec, main, pump>>
      /\ C2S \in Directions /\ S2C \in Directions
  BY DEF PInv, EnvGoes, Directions, C2S, S2C
<1>1. CASE \E x, c : ClientSendsAs(x, c)
  BY <1>0, <1>1, ClientSpeaks, SpeakerKeepsWatch
<1>2. CASE \E x, s, k : ServerSendsAs(x, s, k)
  BY <1>0, <1>2, ServerSpeaks, SpeakerKeepsWatch
<1>3. CASE \E s : ServerReceivesAs(s)
  <2>1. BeginsOn
    BY <1>0, <1>3, ReceiveBeginsOn
  <2>2. StillStep
    BY <1>0, <1>3 DEF ServerReceivesAs, StillStep, Rest
  <2> QED BY <2>1, <2>2, StillKeepsWatch
<1>4. CASE WorldGoes
  <2>1. BeginsOn
    BY <1>4, WorldBeginsOn
  <2>2. StillStep
    BY <1>0, <1>4 DEF WorldGoes, StillStep, Rest
  <2> QED BY <2>1, <2>2, StillKeepsWatch
<1> QED BY <1>1, <1>2, <1>3, <1>4 DEF EnvGoes

LEMMA InitWInv == Init => WInv
<1> SUFFICES ASSUME Init PROVE WInv
  OBVIOUS
<1>1. /\ \A d \in Directions : /\ sent[d] = <<>> /\ inp[d] = <<>> /\ Rest(d) = <<>>
                               /\ pump[d].lines = <<>> /\ pump[d].part = None
      /\ rec.lines = <<>> /\ rec.held = <<>>
  BY DEF Init, Rest, New
<1>2. Apart /\ Filed /\ HeldFits
  BY <1>1 DEF Apart, Filed, HeldFits
<1>3. ASSUME NEW d \in Directions PROVE Unbroken(d) /\ Cursor(d)
  <2>1. Unbroken(d)
    BY <1>1 DEF Unbroken, Paired, Leads, NoneLast
  <2>2. <<>> \in Seq(Messages) /\ <<>> \in Seq(Piece) /\ Len(<<>>) = 0
    OBVIOUS
  <2>3. Flow(<<>> \o <<>>, <<>>, 0)
    <3>1. <<>> \o <<>> = <<>>
      BY <2>2, ConcatSteps
    <3> QED BY <2>2, <3>1, FlowEmpty
  <2>4. Flow(pump[d].lines \o inp[d], sent[d], 0)
    BY <1>1, <2>3
  <2>5. Caught(d, 0) /\ 0 \in 0 .. Len(sent[d])
    BY <1>1 DEF Caught
  <2> QED BY <2>1, <2>4, <2>5 DEF Cursor
<1> QED BY <1>2, <1>3 DEF WInv

LEMMA StepWInv ==
    ASSUME PInv, WInv, [Next]_vars
    PROVE  WInv'
<1>0. Typed /\ Flows /\ InTurn /\ (Sealed => Sealed')
  BY SealedStays DEF PInv
<1>1. CASE MainStep \/ Kill
  BY <1>0, <1>1, MainKeepsWatch
<1>2. CASE \E d \in Directions : PumpStep(d)
  <2>1. PICK d \in Directions : PumpStep(d)
    BY <1>2
  <2>2. PICK q : PumpGoes(d, q)
    BY <1>0, <2>1, PumpStepGoes
  <2> QED BY <1>0, <2>2, PumpKeepsWatch
<1>3. CASE EnvStep
  BY <1>0, <1>3, EnvStepGoes, EnvKeepsWatch
<1>4. CASE UNCHANGED vars
  <2>1. StillStep /\ BeginsOn
    BY <1>4 DEF vars, env, StillStep, Rest, BeginsOn
  <2> QED BY <2>1, StillKeepsWatch
<1> QED BY <1>1, <1>2, <1>3, <1>4 DEF Next

LEMMA WatchInvariance == Spec => []WInv
<1>1. PInv /\ WInv /\ [Next]_vars => WInv'
  BY StepWInv
<1> QED BY <1>1, InitWInv, Invariance, PTL DEF Spec

-----------------------------------------------------------------------------
(* The tape that the wiretap promises.                                         *)

EntryOf(e) == [dir |-> e.dir, msg |-> e.msg, full |-> e.full]

EntriesOf(lines) == [i \in 1 .. Len(lines) |-> EntryOf(lines[i].ev)]

LEMMA EntriesAre ==
    ASSUME NEW lines \in Seq(Lines), NEW t, t = EntriesOf(lines)
    PROVE  /\ t \in Seq({EntryOf(e) : e \in Events}) /\ Len(t) = Len(lines) /\ Len(lines) \in Nat
           /\ \A i \in 1 .. Len(lines) : t[i] = EntryOf(lines[i].ev)
<1> DEFINE n == Len(lines)
           S == {EntryOf(e) : e \in Events}
           f == [i \in 1 .. n |-> EntryOf(lines[i].ev)]
<1>1. n \in Nat
  BY LenProperties
<1>2. t = f
  BY DEF EntriesOf
<1>3. \A i \in 1 .. n : EntryOf(lines[i].ev) \in S
  <2>1. \A i \in 1 .. n : lines[i] \in Lines
    OBVIOUS
  <2> QED BY <2>1 DEF Lines, LinesOver
<1> HIDE DEF n, S
<1>4. f \in Seq(S) /\ Len(f) = n
  <2>1. f \in [1 .. n -> S] /\ DOMAIN f = 1 .. n
    BY <1>3
  <2> HIDE DEF f
  <2>2. f \in Seq(S)
    BY <1>1, <2>1, SeqDef
  <2>3. Len(f) \in Nat /\ DOMAIN f = 1 .. Len(f)
    BY <2>2, LenProperties
  <2>4. Len(f) = n
    <3>1. 1 .. Len(f) = 1 .. n
      BY <2>1, <2>3
    <3>2. \A j \in Nat : \A k \in Nat : 1 .. j = 1 .. k => j = k
      <4> SUFFICES ASSUME NEW j \in Nat, NEW k \in Nat, 1 .. j = 1 .. k PROVE j = k
        OBVIOUS
      <4>1. \A i \in Nat \ {0} : i <= j <=> i <= k
        <5>1. \A i \in Nat \ {0} : (i \in 1 .. j <=> i <= j) /\ (i \in 1 .. k <=> i <= k)
          OBVIOUS
        <5> QED BY <5>1
      <4>2. (j # 0 => j <= k) /\ (k # 0 => k <= j)
        BY <4>1
      <4> QED BY <4>2
    <3> QED BY <1>1, <2>3, <3>1, <3>2
  <2> QED BY <2>2, <2>4
<1> QED BY <1>1, <1>2, <1>4 DEF n, S

LEMMA EntriesNow ==
    /\ Entries = EntriesOf(rec.lines) /\ Entries' = EntriesOf(rec'.lines)
    /\ rec'.lines = rec.lines => Entries' = Entries
BY DEF Entries, EntriesOf, EntryOf

\* The tape has what the file has.
LEMMA TapedIs ==
    ASSUME rec \in Trace
    PROVE  \A d, m : m \in Tapped!Taped(d) <=> InFile(d, m)
<1> DEFINE t == Entries
           s == rec.lines
           n == Len(s)
<1>0. s \in Seq(Lines) /\ t = EntriesOf(s)
  BY Fields, EntriesNow
<1>e. \A e : EntryOf(e).dir = e.dir /\ EntryOf(e).msg = e.msg
  BY DEF EntryOf
<1> HIDE DEF t, s
<1>1. Len(t) = n /\ \A i \in 1 .. n : t[i] = EntryOf(s[i].ev)
  BY <1>0, EntriesAre
<1>2. \A i \in 1 .. n : t[i].dir = s[i].ev.dir /\ t[i].msg = s[i].ev.msg
  BY <1>1, <1>e
<1>3. \A d : Tapped!Taped(d) = {t[i].msg : i \in {j \in 1 .. Len(t) : t[j].dir = d}}
  BY DEF Tapped!Taped, t
<1>4. \A d, m : InFile(d, m) <=> \E i \in 1 .. n : s[i].ev.dir = d /\ s[i].ev.msg = m
  BY DEF InFile, s
<1> HIDE DEF n
<1> QED BY <1>1, <1>2, <1>3, <1>4

LEMMA EntriesGrow ==
    ASSUME NEW s \in Seq(Lines), NEW line \in Lines, NEW r, r = Append(s, line)
    PROVE  EntriesOf(r) = Append(EntriesOf(s), EntryOf(line.ev))
<1> DEFINE S == {EntryOf(e) : e \in Events}
           t == EntriesOf(s)
           u == EntriesOf(r)
           x == EntryOf(line.ev)
           y == Append(t, x)
           n == Len(s)
<1>1. /\ r \in Seq(Lines) /\ n \in Nat /\ Len(r) = n + 1 /\ r[n + 1] = line
      /\ \A i \in 1 .. n : r[i] = s[i]
  BY AppendIs
<1>2. t \in Seq(S) /\ Len(t) = n /\ \A i \in 1 .. n : t[i] = EntryOf(s[i].ev)
  BY EntriesAre
<1>3. u \in Seq(S) /\ Len(u) = n + 1 /\ \A i \in 1 .. n + 1 : u[i] = EntryOf(r[i].ev)
  <2>1. r \in Seq(Lines) /\ u = EntriesOf(r)
    BY <1>1
  <2> HIDE DEF u
  <2>2. u \in Seq(S) /\ Len(u) = Len(r) /\ \A i \in 1 .. Len(r) : u[i] = EntryOf(r[i].ev)
    BY <2>1, EntriesAre
  <2> QED BY <1>1, <2>2
<1>4. x \in S
  BY DEF Lines, LinesOver
<1> HIDE DEF S, t, u, x, n
<1>5. y \in Seq(S) /\ Len(y) = n + 1 /\ y[n + 1] = x /\ \A i \in 1 .. n : y[i] = t[i]
  BY <1>2, <1>4, AppendIs
<1>6. \A i \in 1 .. n + 1 : u[i] = y[i]
  <2> SUFFICES ASSUME NEW i \in 1 .. n + 1 PROVE u[i] = y[i]
    OBVIOUS
  <2>1. CASE i = n + 1
    BY <1>1, <1>3, <1>5, <2>1 DEF x
  <2>2. CASE i # n + 1
    <3>1. i \in 1 .. n
      BY <1>1, <2>2
    <3> QED BY <1>1, <1>2, <1>3, <1>5, <3>1
  <2> QED BY <2>1, <2>2
<1> HIDE DEF y
<1>7. u = y
  BY <1>3, <1>5, <1>6, SeqEqual
<1> QED BY <1>7 DEF u, y, t, x

-----------------------------------------------------------------------------
(* Each step is one of the wiretap's, or none.                                 *)

TapStep == [Tapped!Next]_(Tapped!vars)

\* Nothing is sent, given or written; the tape may be sealed.
LEMMA QuietSteps ==
    ASSUME rec'.lines = rec.lines, sent' = sent, given' = given, setup' = setup, Sealed => Sealed'
    PROVE  TapStep
<1>1. Recordable' = Recordable /\ Entries' = Entries
  BY EntriesNow DEF Recordable
<1>2. CASE Sealed <=> Sealed'
  <2>1. (rec.closed \/ rec.failed \/ Ended)' = (rec.closed \/ rec.failed \/ Ended)
    BY <1>2 DEF Sealed
  <2> QED BY <1>1, <2>1 DEF TapStep, Tapped!vars
<1>3. CASE ~(Sealed <=> Sealed')
  <2>1. ~(rec.closed \/ rec.failed \/ Ended) /\ (rec.closed \/ rec.failed \/ Ended)'
    BY <1>3 DEF Sealed
  <2>2. (rec.closed \/ rec.failed \/ Ended)' = TRUE
    BY <2>1
  <2>3. Tapped!Seal
    BY <1>1, <2>1, <2>2 DEF Tapped!Seal
  <2> QED BY <2>3 DEF TapStep, Tapped!Next
<1> QED BY <1>2, <1>3

\* A line goes down on the tape.
LEMMA EntryIs ==
    ASSUME rec \in Trace, NEW line \in Lines, rec'.lines = Append(rec.lines, line)
    PROVE  /\ line.ev \in Events /\ line.ev.dir \in Directions /\ line.ev.full \in BOOLEAN
           /\ Entries' = Append(Entries, [dir |-> line.ev.dir, msg |-> line.ev.msg,
                                          full |-> line.ev.full])
<1>1. line.ev \in Events
  BY DEF Lines, LinesOver
<1>2. rec.lines \in Seq(Lines)
  BY Fields
<1>3. EntriesOf(rec'.lines) = Append(EntriesOf(rec.lines), EntryOf(line.ev))
  BY <1>2, EntriesGrow
<1> QED BY <1>1, <1>3, EntriesNow DEF EntryOf, Events

LEMMA MarkSteps ==
    ASSUME rec \in Trace, NEW line \in Lines, rec'.lines = Append(rec.lines, line),
           line.ev.msg = None, line.ev.full,
           sent' = sent, given' = given, setup' = setup, Sealed => Sealed'
    PROVE  TapStep
<1>1. Recordable' = Recordable
  BY DEF Recordable
<1>2. \E d \in Directions : Tapped!Mark(d)
  <2>1. line.ev.full = TRUE
    BY EntryIs
  <2> QED BY <2>1, EntryIs DEF Tapped!Mark
<1>3. CASE Sealed <=> Sealed'
  <2>1. (rec.closed \/ rec.failed \/ Ended)' = (rec.closed \/ rec.failed \/ Ended)
    BY <1>3 DEF Sealed
  <2>2. Tapped!Open
    BY <1>1, <1>2, <2>1 DEF Tapped!Open
  <2> QED BY <2>2 DEF TapStep, Tapped!Next
<1>4. CASE ~(Sealed <=> Sealed')
  <2>1. ~(rec.closed \/ rec.failed \/ Ended) /\ (rec.closed \/ rec.failed \/ Ended)'
    BY <1>4 DEF Sealed
  <2>2. (rec.closed \/ rec.failed \/ Ended)' = TRUE
    BY <2>1
  <2>3. Tapped!Seal
    BY <1>1, <1>2, <2>1, <2>2 DEF Tapped!Seal
  <2> QED BY <2>3 DEF TapStep, Tapped!Next
<1> QED BY <1>3, <1>4

LEMMA RecordSteps ==
    ASSUME rec \in Trace, NEW line \in Lines, rec'.lines = Append(rec.lines, line), Fits(line.ev),
           sent' = sent, given' = given, setup' = setup, Sealed' <=> Sealed
    PROVE  TapStep
<1> DEFINE d == line.ev.dir
           m == line.ev.msg
<1>1. Recordable' = Recordable
  BY DEF Recordable
<1>2. (rec.closed \/ rec.failed \/ Ended)' = (rec.closed \/ rec.failed \/ Ended)
  BY DEF Sealed
<1>3. d \in Directions /\ line.ev.full \in BOOLEAN
      /\ Entries' = Append(Entries, [dir |-> d, msg |-> m, full |-> line.ev.full])
  BY EntryIs
<1>4. \A k : k \in Tapped!Taped(d) <=> InFile(d, k)
  BY TapedIs
<1>5. \/ m = None /\ line.ev.full
      \/ line.ev.full /\ NextUp(d, m)
      \/ ~line.ev.full /\ Leftover(d, m)
  BY DEF Fits
<1> HIDE DEF d, m
<1>6. CASE m = None /\ line.ev.full
  BY <1>6, MarkSteps DEF m
<1>7. CASE line.ev.full /\ NextUp(d, m)
  <2>1. PICK i \in 1 .. Len(sent[d]) :
          /\ sent[d][i] = m
          /\ \A j \in i .. Len(sent[d]) : ~InFile(d, sent[d][j])
          /\ \A j \in 1 .. i - 1 : sent[d][j] \in Recordable => InFile(d, sent[d][j])
    BY <1>7 DEF NextUp
  <2>2. line.ev.full = TRUE
    BY <1>3, <1>7
  <2>3. i \in i .. Len(sent[d]) /\ \A j \in i + 1 .. Len(sent[d]) : j \in i .. Len(sent[d])
    OBVIOUS
  <2>4. /\ sent[d][i] \notin Tapped!Taped(d)
        /\ \A j \in i + 1 .. Len(sent[d]) : sent[d][j] \notin Tapped!Taped(d)
        /\ \A j \in 1 .. i - 1 : sent[d][j] \in Recordable => sent[d][j] \in Tapped!Taped(d)
        /\ Entries' = Append(Entries, [dir |-> d, msg |-> sent[d][i], full |-> TRUE])
    BY <1>3, <1>4, <2>1, <2>2, <2>3
  <2>5. Tapped!Record(d)
    BY <1>1, <1>2, <2>4 DEF Tapped!Record
  <2> QED BY <1>3, <2>5 DEF TapStep, Tapped!Next
<1>8. CASE ~line.ev.full /\ Leftover(d, m)
  <2>1. /\ m \in Recordable /\ ~InFile(d, m) /\ \A i \in 1 .. Len(sent[d]) : sent[d][i] # m
        /\ \A i \in 1 .. Len(sent[d]) : sent[d][i] \in Recordable => InFile(d, sent[d][i])
    BY <1>8 DEF Leftover, Fresh
  <2>2. line.ev.full = FALSE
    BY <1>3, <1>8
  <2>3. /\ \A i \in 1 .. Len(sent[d]) : sent[d][i] \in Recordable => sent[d][i] \in Tapped!Taped(d)
        /\ m \notin Tapped!Taped(d)
        /\ Entries' = Append(Entries, [dir |-> d, msg |-> m, full |-> FALSE])
    BY <1>3, <1>4, <2>1, <2>2
  <2>4. Tapped!RecordFragment(d)
    BY <1>1, <1>2, <2>1, <2>3 DEF Tapped!RecordFragment
  <2> QED BY <1>3, <2>4 DEF TapStep, Tapped!Next
<1> QED BY <1>5, <1>6, <1>7, <1>8

LEMMA WritesStep ==
    ASSUME PInv, NEW d \in Directions, NEW q, WritesAs(d, q), PumpRuns(d),
           UNCHANGED <<main, setup, sent>>
    PROVE  TapStep
<1> DEFINE x == Head(pump[d].chunk)
           g == given[d]
           s == sent[d]
           ch == pump[d].chunk
           p == inp[d]
<1>0. /\ Typed /\ ch \in Seq(Piece) /\ p \in Seq(Piece) /\ s \in Seq(Messages)
      /\ ch # <<>> /\ given \in [Directions -> Seq(Messages)] /\ rec \in Trace /\ rec' = rec
      /\ given' = [given EXCEPT ![d] = IF x.last THEN Append(@, x.msg) ELSE @]
  BY TypedPump, PumpFields DEF PInv, WritesAs, Typed
<1>1. Sealed => Sealed'
  BY <1>0 DEF Sealed, Ended
<1>2. CASE ~x.last
  <2>1. given' = given
    BY <1>0, <1>2
  <2> QED BY <1>0, <1>1, <2>1, QuietSteps
<1>3. CASE x.last
  <2>1. Flow(ch \o p, s, Len(g))
    BY DEF PInv, Flows, Intact, PumpRuns
  <2>h. x = Head(ch) /\ x = ch[1] /\ 1 \in 1 .. Len(ch)
    BY <1>0, TailIs
  <2>c. \A i \in 1 .. Len(ch) : ch[i].last /\ ch[i].msg \in Recordable =>
           Settled(rec, main, d, ch[i].msg) \/ Pending(pump[d].lines, ch[i].msg)
    BY DEF PInv, RecordFirst
  <2>g. given' = [given EXCEPT ![d] = Append(@, x.msg)]
    BY <1>0, <1>3
  <2>n. ~\E i \in 1 .. Len(pump[d].lines) : pump[d].lines[i].last
    BY DEF WritesAs
  <2> HIDE DEF x, ch, p
  <2>2. ch \o p \in Seq(Piece) /\ ch \o p # <<>> /\ Head(ch \o p) = x
    BY <1>0, <2>h, ConcatSteps
  <2> DEFINE u == ch \o p
             a == Len(g)
  <2> HIDE DEF u, a, s
  <2>3. a \in Nat /\ (x.last => a + 1 \in 1 .. Len(s) /\ x.msg = s[a + 1])
    <3>1. u \in Seq(Piece) /\ Flow(u, s, a) /\ u # <<>> /\ x = Head(u) /\ s \in Seq(Messages)
      BY <1>0, <2>1, <2>2 DEF u, a, s
    <3> QED BY <3>1, FlowTail
  <2>4. a + 1 \in 1 .. Len(s) /\ x.msg = s[a + 1] /\ a < Len(s)
    <3>1. Len(s) \in Nat
      BY <1>0, LenProperties
    <3> QED BY <1>3, <2>3, <3>1
  <2>5. ASSUME x.msg \in Recordable, ~Sealed PROVE InFile(d, x.msg)
    <3>1. Settled(rec, main, d, x.msg)
      BY <1>3, <2>5, <2>c, <2>h, <2>n DEF Pending
    <3>2. rec.dropped = 0 /\ main.stop = "none" /\ ~Stuck(rec)
      BY <2>5 DEF PInv, Closing, Sealed, Asked, Stuck
    <3>3. Tape(rec) = rec.lines
      BY <3>2, Unheld DEF PInv
    <3>4. OnTape(rec, d, x.msg)
      BY <3>1, <3>2 DEF Settled
    <3> QED BY <3>3, <3>4 DEF OnTape, InFile
  <2>6. Tapped!Give(d)
    <3>1. Recordable' = Recordable /\ Entries' = Entries
      BY <1>0, EntriesNow DEF Recordable
    <3>2. (rec.closed \/ rec.failed \/ Ended)' = (rec.closed \/ rec.failed \/ Ended)
      BY <1>0 DEF Ended
    <3>3. x.msg \in Recordable /\ ~(rec.closed \/ rec.failed \/ Ended) => x.msg \in Tapped!Taped(d)
      BY <1>0, <2>5, TapedIs DEF Sealed
    <3>4. /\ Len(given[d]) < Len(sent[d]) /\ x.msg = sent[d][Len(given[d]) + 1]
      BY <2>4 DEF a, s
    <3> QED BY <2>g, <3>1, <3>2, <3>3, <3>4 DEF Tapped!Give
  <2> QED BY <2>6 DEF TapStep, Tapped!Next
<1> QED BY <1>2, <1>3

LEMMA RecordsStep ==
    ASSUME PInv, WInv, NEW d \in Directions, NEW q, NEW m, NEW b, RecordsAs(d, q, m, b), PumpRuns(d),
           UNCHANGED <<main, setup, sent>>, Sealed => Sealed'
    PROVE  TapStep
<1> DEFINE e == MessageEvent(d, [msg |-> m, full |-> b])
<1>0. given' = given /\ rec \in Trace
  BY DEF RecordsAs, PInv, Typed
<1>1. Notes(d, m, b)
  BY RecordsNote
<1>2. CASE Lengthens(e) /\ m \in Recordable
  <2>1. PICK line \in Lines : line.ev = e /\ rec'.lines = Append(rec.lines, line)
    BY <1>2 DEF Lengthens
  <2>2. ~Stuck(rec) /\ ~rec'.failed
    BY <1>2 DEF Lengthens
  <2>3. Fits(line.ev)
    BY <1>2, <2>1, <2>2, NowFits
  <2>4. Sealed' <=> Sealed
    <3>1. rec'.closed = rec.closed
      BY <1>2, <2>2 DEF RecordsAs, Taken, Recorded, Recordable
    <3> QED BY <2>2, <3>1 DEF Sealed, Stuck, Ended
  <2> QED BY <1>0, <2>1, <2>3, <2>4, RecordSteps
<1>3. CASE ~(Lengthens(e) /\ m \in Recordable)
  <2>1. rec'.lines = rec.lines
    BY <1>1, <1>3 DEF Notes, Untouched, HoldsBack
  <2> QED BY <1>0, <2>1, QuietSteps
<1> QED BY <1>2, <1>3

LEMMA PumpTapStep ==
    ASSUME PInv, WInv, NEW d \in Directions, NEW q, PumpGoes(d, q), Sealed => Sealed'
    PROVE  TapStep
<1>0. PumpRuns(d) /\ UNCHANGED <<main, setup, sent>>
  BY DEF PumpGoes
<1>1. CASE WritesAs(d, q)
  BY <1>0, <1>1, WritesStep
<1>2. CASE \E m, b : RecordsAs(d, q, m, b)
  BY <1>0, <1>2, RecordsStep
<1>3. CASE (\E n : ReadsAs(d, q, n)) \/ ReadsEndAs(d, q) \/ StopsAs(d, q)
  <2>1. rec' = rec /\ given' = given
    BY <1>3 DEF ReadsAs, ReadsEndAs, StopsAs
  <2> QED BY <1>0, <2>1, QuietSteps
<1> QED BY <1>1, <1>2, <1>3 DEF PumpGoes

LEMMA MainTapStep ==
    ASSUME PInv, WInv, MainStep \/ Kill, Sealed => Sealed'
    PROVE  TapStep
<1>0. Typed /\ Closing /\ rec \in Trace /\ rec' \in Trace
  <2>1. PInv'
    BY StepPInv DEF Next
  <2> QED BY <2>1 DEF PInv, Typed
<1>1. sent' = sent /\ given' = given /\ setup' = setup
  BY MainStepGoes DEF PInv, MainGoes
<1>2. CASE rec'.lines = rec.lines
  BY <1>1, <1>2, QuietSteps
<1>3. CASE rec'.lines # rec.lines /\ MarkStep
  <2>1. PICK e \in Events : e.msg = None /\ e.full /\ Lengthens(e)
    BY <1>3 DEF MarkStep, Untouched, HoldsBack
  <2>2. PICK line \in Lines : line.ev = e /\ rec'.lines = Append(rec.lines, line)
    BY <2>1 DEF Lengthens
  <2> QED BY <1>0, <1>1, <2>1, <2>2, MarkSteps
<1>4. CASE rec'.lines # rec.lines /\ LastWrite
  <2>1. rec.held # <<>>
    BY <1>0, <1>4, TapeType DEF LastWrite
  <2>2. PICK line \in Lines : rec.held = <<line>> /\ Fits(line.ev)
    BY <2>1 DEF WInv, HeldFits
  <2>3. rec'.lines = Append(rec.lines, line)
    <3>1. rec.lines \in Seq(Lines)
      BY <1>0, Fields
    <3> QED BY <1>4, <2>2, <3>1 DEF LastWrite, Tape
  <2>4. Sealed
    BY <1>0, <2>1 DEF Closing, Held, Sealed
  <2> QED BY <1>0, <1>1, <2>2, <2>3, <2>4, RecordSteps
<1> QED BY <1>2, <1>3, <1>4, MainWrites

LEMMA SpeaksStep ==
    ASSUME PInv, WInv, NEW d \in Directions, NEW x, NEW m, Speaks(d, x, m), given' = given
    PROVE  TapStep
<1>0. /\ rec' = rec /\ main' = main /\ setup' = setup /\ Typed
      /\ sent \in [Directions -> Seq(Messages)] /\ sent[d] \in Seq(Messages) /\ m \in Messages
  BY DEF Speaks, PInv, Typed
<1>1. /\ \A o \in Directions : o # d => sent'[o] = sent[o]
      /\ sent'[d] = sent[d] \/ sent'[d] = Append(sent[d], m)
  BY SpokenIs
<1>2. sent' \in [Directions -> Seq(Messages)]
  <2>1. CASE sent' = sent
    BY <1>0, <2>1
  <2>2. CASE Emits(d, x) /\ Len(inp[d]) < setup.room
    BY <1>0, <2>2, EmitTypes DEF Speaks
  <2> QED BY <2>1, <2>2 DEF Speaks
<1>3. CASE sent'[d] = sent[d]
  <2>1. sent' = sent
    BY <1>0, <1>1, <1>2, <1>3
  <2>2. Sealed => Sealed'
    BY <1>0 DEF Sealed, Ended
  <2> QED BY <1>0, <2>1, <2>2, QuietSteps
<1>4. CASE sent'[d] = Append(sent[d], m)
  <2> DEFINE s == sent[d]
             t == sent'[d]
             u == SubSeq(t, 1, Len(s))
  <2>1. t = Append(s, m) /\ s \in Seq(Messages)
    BY <1>0, <1>4
  <2> HIDE DEF s, t
  <2>2. /\ t \in Seq(Messages) /\ Len(s) \in Nat /\ Len(t) = Len(s) + 1
        /\ \A i \in 1 .. Len(s) : t[i] = s[i]
    BY <1>0, <2>1, AppendIs
  <2>3. u \in Seq(Messages) /\ Len(u) = Len(s) /\ \A i \in 1 .. Len(s) : u[i] = t[i]
    <3>1. Len(s) \in 0 .. Len(t)
      BY <2>2
    <3> QED BY <2>2, <3>1, FirstOf
  <2> HIDE DEF u
  <2>4. u = s
    <3>1. \A i \in 1 .. Len(u) : u[i] = s[i]
      BY <2>2, <2>3
    <3> QED BY <2>1, <2>3, <3>1, SeqEqual
  <2>5. Recordable' = Recordable /\ Entries' = Entries
    BY <1>0, EntriesNow DEF Recordable
  <2>6. (rec.closed \/ rec.failed \/ Ended)' = (rec.closed \/ rec.failed \/ Ended)
    BY <1>0 DEF Ended
  <2>7. Tapped!Send(d)
    BY <1>1, <2>2, <2>4, <2>5, <2>6 DEF Tapped!Send, s, t, u
  <2> QED BY <2>7 DEF TapStep, Tapped!Next
<1> QED BY <1>1, <1>3, <1>4

LEMMA EnvTapStep ==
    ASSUME PInv, WInv, EnvGoes
    PROVE  TapStep
<1>0. /\ UNCHANGED <<rec, main, pump>> /\ C2S \in Directions /\ S2C \in Directions
      /\ (Sealed => Sealed')
  BY DEF EnvGoes, Directions, C2S, S2C, Sealed, Ended
<1>1. CASE \E x, c : ClientSendsAs(x, c)
  <2>1. given' = given /\ \E x, m : Speaks(C2S, x, m)
    BY <1>0, <1>1, ClientSpeaks DEF ClientSendsAs
  <2> QED BY <1>0, <2>1, SpeaksStep
<1>2. CASE \E x, s, k : ServerSendsAs(x, s, k)
  <2>1. given' = given /\ \E x, m : Speaks(S2C, x, m)
    BY <1>0, <1>2, ServerSpeaks DEF ServerSendsAs
  <2> QED BY <1>0, <2>1, SpeaksStep
<1>3. CASE (\E s : ServerReceivesAs(s)) \/ WorldGoes
  <2>1. sent' = sent /\ given' = given /\ setup' = setup
    BY <1>3 DEF ServerReceivesAs, WorldGoes
  <2> QED BY <1>0, <2>1, QuietSteps
<1> QED BY <1>1, <1>2, <1>3 DEF EnvGoes

\* Every step is a step of the wiretap, or changes nothing of it.
LEMMA StepTaps ==
    ASSUME PInv, WInv, [Next]_vars
    PROVE  TapStep
<1>0. Typed /\ Flows /\ InTurn /\ (Sealed => Sealed')
  BY SealedStays DEF PInv
<1>1. CASE MainStep \/ Kill
  BY <1>0, <1>1, MainTapStep
<1>2. CASE \E d \in Directions : PumpStep(d)
  <2>1. PICK d \in Directions : PumpStep(d)
    BY <1>2
  <2>2. PICK q : PumpGoes(d, q)
    BY <1>0, <2>1, PumpStepGoes
  <2> QED BY <1>0, <2>2, PumpTapStep
<1>3. CASE EnvStep
  BY <1>0, <1>3, EnvStepGoes, EnvTapStep
<1>4. CASE UNCHANGED vars
  <2>1. UNCHANGED <<rec, sent, given, setup>>
    BY <1>4 DEF vars, env
  <2> QED BY <1>0, <2>1, QuietSteps
<1> QED BY <1>1, <1>2, <1>3, <1>4 DEF Next

LEMMA InitTaps == Init => Tapped!Init
<1> SUFFICES ASSUME Init PROVE Tapped!Init
  OBVIOUS
<1>1. rec.lines = <<>> /\ ~rec.closed /\ ~rec.failed /\ ~Ended
  BY DEF Init, New, Ended
<1>2. (rec.closed \/ rec.failed \/ Ended) = FALSE
  BY <1>1
<1>3. Entries = <<>>
  <2>1. <<>> \in Seq(Lines) /\ Len(<<>>) = 0
    BY EmptySeq
  <2> DEFINE t == EntriesOf(<<>>)
  <2>2. t \in Seq({EntryOf(e) : e \in Events}) /\ Len(t) = 0
    BY <2>1, EntriesAre
  <2>3. Entries = t
    BY <1>1, EntriesNow
  <2> HIDE DEF t
  <2> QED BY <2>2, <2>3, EmptySeq
<1>4. sent = [d \in Directions |-> <<>>] /\ given = [d \in Directions |-> <<>>]
  BY DEF Init
<1> QED BY <1>2, <1>3, <1>4 DEF Tapped!Init

-----------------------------------------------------------------------------
(***************************************************************************)
(* What was handed on without a line is counted.  N has the messages that  *)
(* were lost, no more of them than the counters say: what a pump takes has *)
(* a line after it, or a counter has grown by one and the message joins N. *)
(***************************************************************************)

\* What the file has a line of.
Lined(r) == {m \in Messages : HasLine(r, m)}

\* What each side was given is in K, and so is all that a pump has taken of its
\* chunk.
HandedOf(g, p, K) ==
    /\ \A k \in 1 .. Len(g) : g[k] \in K
    /\ \A i \in 1 .. Len(p.chunk) :
          p.chunk[i].last => p.chunk[i].msg \in K \/ Pending(p.lines, p.chunk[i].msg)

Handed(g, p, K) == \A d \in Directions : HandedOf(g[d], p[d], K)

Ledger(r, p) == Lost(r) + p[C2S].oversized + p[S2C].oversized

Covers(N, r, p) == IsFiniteSet(N) /\ Cardinality(N) <= Ledger(r, p)

Counted ==
    \E N \in SUBSET Messages : Covers(N, rec, pump) /\ Handed(given, pump, N \union Lined(rec))

LEMMA HandedWider ==
    ASSUME NEW g, NEW p, NEW K, NEW L, K \subseteq L, Handed(g, p, K)
    PROVE  Handed(g, p, L)
BY DEF Handed, HandedOf

LEMMA LinedWider ==
    ASSUME NEW r, NEW x, Keeps(r, x), NEW N
    PROVE  N \union Lined(r) \subseteq N \union Lined(x)
BY DEF Keeps, Lined

\* A step of a pump that records nothing new, or only what is in K.
LEMMA PumpKeepsHanded ==
    ASSUME Typed, NEW d \in Directions, NEW q, PumpGoes(d, q), NEW K, Handed(given, pump, K),
           (\E m, b : RecordsAs(d, q, m, b)) => \E m, b : RecordsAs(d, q, m, b) /\ m \in K
    PROVE  Handed(given', pump', K)
<1> DEFINE p == pump[d]
<1>0. /\ p \in Pumps /\ p.chunk \in Seq(Piece) /\ p.lines \in Seq(Piece)
      /\ given \in [Directions -> Seq(Messages)] /\ given[d] \in Seq(Messages)
  BY TypedPump, PumpFields DEF Typed
<1>1. pump'[d] = q /\ \A o \in Directions : o # d => pump'[o] = pump[o]
  BY DEF PumpGoes, Becomes
<1>2. \A o \in Directions : HandedOf(given[o], pump[o], K)
  BY DEF Handed
<1>3. ASSUME \A o \in Directions : o # d => given'[o] = given[o], HandedOf(given'[d], q, K)
      PROVE  Handed(given', pump', K)
  <2>1. ASSUME NEW o \in Directions PROVE HandedOf(given'[o], pump'[o], K)
    <3>1. CASE o = d
      BY <1>1, <1>3, <3>1
    <3>2. CASE o # d
      BY <1>1, <1>2, <1>3, <3>2
    <3> QED BY <3>1, <3>2
  <2> QED BY <2>1 DEF Handed
<1>4. HandedOf(given[d], p, K)
  BY <1>2
<1>5. CASE \E n : ReadsAs(d, q, n)
  <2>1. q.lines = q.chunk /\ given' = given
    BY <1>5 DEF ReadsAs
  <2>2. HandedOf(given[d], q, K)
    BY <1>4, <2>1 DEF HandedOf, Pending
  <2> QED BY <1>3, <2>1, <2>2
<1>6. CASE ReadsEndAs(d, q) \/ StopsAs(d, q)
  <2>1. given' = given /\ q.lines = p.lines /\ (q.chunk = p.chunk \/ q.chunk = <<>>)
    BY <1>6 DEF ReadsEndAs, StopsAs
  <2>2. HandedOf(given[d], q, K)
    BY <1>4, <2>1 DEF HandedOf
  <2> QED BY <1>3, <2>1, <2>2
<1>7. CASE \E m, b : RecordsAs(d, q, m, b)
  <2>1. PICK m, b : RecordsAs(d, q, m, b) /\ m \in K
    BY <1>7
  <2>2. given' = given /\ q.chunk = p.chunk /\ m \in K
    BY <2>1 DEF RecordsAs
  <2>3. ASSUME NEW k, Pending(p.lines, k), k # m PROVE Pending(q.lines, k)
    <3>1. CASE q.lines = p.lines
      BY <2>3, <3>1
    <3>2. CASE \E i \in 1 .. Len(p.lines) :
                  /\ Completes(p.lines, i) /\ m = p.lines[i].msg
                  /\ q.lines = SubSeq(p.lines, i + 1, Len(p.lines))
      <4>1. PICK i \in 1 .. Len(p.lines) :
               /\ Completes(p.lines, i) /\ m = p.lines[i].msg
               /\ q.lines = SubSeq(p.lines, i + 1, Len(p.lines))
        BY <3>2
      <4> QED BY <1>0, <2>3, <4>1, StillPending
    <3> QED BY <2>1, <3>1, <3>2 DEF RecordsAs
  <2>4. HandedOf(given[d], q, K)
    BY <1>4, <2>2, <2>3 DEF HandedOf
  <2> QED BY <1>3, <2>2, <2>4
<1>8. CASE WritesAs(d, q)
  <2> DEFINE x == Head(p.chunk)
             g == given[d]
             g2 == Longer(g, x)
  <2>1. /\ p.chunk # <<>> /\ q.chunk = Tail(p.chunk) /\ q.lines = p.lines
        /\ ~\E i \in 1 .. Len(p.lines) : p.lines[i].last
        /\ given' = [given EXCEPT ![d] = g2]
    BY <1>8 DEF WritesAs, Longer
  <2>2. \A i \in 1 .. Len(p.chunk) : p.chunk[i].last => p.chunk[i].msg \in K
    BY <1>4, <2>1 DEF HandedOf, Pending
  <2>3. /\ x = p.chunk[1] /\ x \in Piece /\ 1 \in 1 .. Len(p.chunk)
        /\ \A i \in 1 .. Len(q.chunk) : q.chunk[i] = p.chunk[i + 1] /\ i + 1 \in 1 .. Len(p.chunk)
    BY <1>0, <2>1, TailIs
  <2>4. x.last => x.msg \in K
    BY <2>2, <2>3
  <2>5. g2 = Longer(g, x) /\ g \in Seq(Messages)
    BY <1>0
  <2> HIDE DEF x, g, g2
  <2>6. /\ \A k \in 1 .. Len(g) : g2[k] = g[k]
        /\ x.last => g2[Len(g) + 1] = x.msg
        /\ \A k \in 1 .. Len(g2) : k \in 1 .. Len(g) \/ (x.last /\ k = Len(g) + 1)
    <3>1. x \in Piece
      BY <2>3
    <3> QED BY <2>5, <3>1, LongerType
  <2>7. given'[d] = g2 /\ \A o \in Directions : o # d => given'[o] = given[o]
    BY <1>0, <2>1
  <2>8. \A k \in 1 .. Len(g) : g[k] \in K
    BY <1>4 DEF HandedOf, g
  <2>9. \A k \in 1 .. Len(g2) : g2[k] \in K
    BY <2>4, <2>6, <2>8
  <2>10. HandedOf(g2, q, K)
    BY <2>2, <2>3, <2>9 DEF HandedOf
  <2> QED BY <1>3, <2>7, <2>10
<1> QED BY <1>5, <1>6, <1>7, <1>8 DEF PumpGoes

\* One message more may be lost when a counter has grown by one.
LEMMA CoversOneMore ==
    ASSUME NEW N, NEW m, NEW r, NEW p, NEW x, NEW y, Covers(N, r, p),
           Ledger(r, p) \in Int, Ledger(x, y) \in Int, Ledger(r, p) + 1 <= Ledger(x, y)
    PROVE  Covers(N \union {m}, x, y)
<1>1. IsFiniteSet(N) /\ Cardinality(N) <= Ledger(r, p)
  BY DEF Covers
<1>2. Cardinality(N) \in Nat
  BY <1>1, FS_CardinalityType
<1>3. /\ IsFiniteSet(N \union {m})
      /\ Cardinality(N \union {m}) = Cardinality(N) \/ Cardinality(N \union {m}) = Cardinality(N) + 1
  BY <1>1, FS_AddElement
<1>4. Cardinality(N \union {m}) <= Ledger(x, y)
  BY <1>1, <1>2, <1>3
<1> QED BY <1>3, <1>4 DEF Covers

LEMMA CoversStill ==
    ASSUME NEW N, NEW r, NEW p, NEW x, NEW y, Covers(N, r, p),
           Ledger(r, p) \in Int, Ledger(x, y) \in Int, Ledger(r, p) <= Ledger(x, y)
    PROVE  Covers(N, x, y)
<1>1. IsFiniteSet(N) /\ Cardinality(N) <= Ledger(r, p)
  BY DEF Covers
<1>2. Cardinality(N) \in Nat
  BY <1>1, FS_CardinalityType
<1> QED BY <1>1, <1>2 DEF Covers

SameOversized == \A d \in Directions : pump'[d].oversized = pump[d].oversized

LEMMA LedgerType ==
    ASSUME NEW r \in Trace, NEW p \in [Directions -> Pumps]
    PROVE  Ledger(r, p) \in Int
<1>1. Lost(r) \in Nat /\ p[C2S] \in Pumps /\ p[S2C] \in Pumps
  BY LostType DEF Directions, C2S, S2C
<1>2. p[C2S].oversized \in Nat /\ p[S2C].oversized \in Nat
  BY <1>1, PumpFields
<1> QED BY <1>1, <1>2 DEF Ledger

\* A step that leaves the file and the counters no worse off.
LEMMA KeepsCounted ==
    ASSUME Typed, Counted, rec' \in Trace, pump' \in [Directions -> Pumps], Keeps(rec, rec'),
           SameOversized, \A K : Handed(given, pump, K) => Handed(given', pump', K)
    PROVE  Counted'
<1>1. PICK N \in SUBSET Messages : Covers(N, rec, pump) /\ Handed(given, pump, N \union Lined(rec))
  BY DEF Counted
<1>2. Ledger(rec, pump) \in Int /\ Ledger(rec', pump') \in Int /\ Lost(rec) \in Nat /\ Lost(rec') \in Nat
  BY LedgerType, LostType DEF Typed
<1>3. Ledger(rec, pump) <= Ledger(rec', pump')
  <2>1. /\ pump'[C2S].oversized = pump[C2S].oversized /\ pump'[S2C].oversized = pump[S2C].oversized
        /\ Lost(rec) <= Lost(rec')
    BY DEF SameOversized, Directions, C2S, S2C, Keeps
  <2>2. pump[C2S].oversized \in Nat /\ pump[S2C].oversized \in Nat
    BY PumpFields DEF Typed, Directions, C2S, S2C
  <2> QED BY <1>2, <2>1, <2>2 DEF Ledger
<1>4. Covers(N, rec', pump')
  BY <1>1, <1>2, <1>3, CoversStill
<1>5. Handed(given', pump', N \union Lined(rec'))
  BY <1>1, LinedWider, HandedWider
<1> QED BY <1>4, <1>5 DEF Counted

\* A step of a pump that takes nothing.
LEMMA PumpTakesNone ==
    ASSUME Typed, NEW d \in Directions, PumpStep(d), ~PumpRecords(d)
    PROVE  SameOversized /\ rec' = rec
<1>1. pump \in [Directions -> Pumps] /\ pump[d] \in Pumps
  BY TypedPump
<1>2. \E q : pump' = [pump EXCEPT ![d] = q] /\ q.oversized = pump[d].oversized
  BY <1>1 DEF PumpStep, PumpReads, PumpReadsEnd, PumpWrites, WritesPiece, PumpFails, PumpEnds,
              PumpAborts, SetPump, Pumps
<1>3. rec' = rec
  BY DEF PumpStep, PumpReads, PumpReadsEnd, PumpWrites, WritesPiece, PumpFails, PumpEnds,
         PumpAborts, env
<1> QED BY <1>1, <1>2, <1>3 DEF SameOversized

LEMMA PumpKeepsCounted ==
    ASSUME Typed, Counted, NEW d \in Directions, PumpStep(d),
           rec' \in Trace, pump' \in [Directions -> Pumps]
    PROVE  Counted'
<1>0. /\ rec \in Trace /\ pump \in [Directions -> Pumps]
      /\ Ledger(rec, pump) \in Int /\ Ledger(rec', pump') \in Int
  BY LedgerType DEF Typed
<1>1. PICK q : PumpGoes(d, q)
  BY PumpStepGoes
<1>2. CASE ~\E m, b : RecordsAs(d, q, m, b)
  <2>1. ~PumpRecords(d)
    <3>1. ASSUME PumpRecords(d) PROVE FALSE
      <4>1. PICK y, m, b : Becomes(d, y) /\ RecordsAs(d, y, m, b)
        BY <3>1, PumpRecordsAs
      <4>2. y = q
        BY <1>1, <4>1 DEF PumpGoes, Becomes
      <4> QED BY <1>2, <4>1, <4>2
    <3> QED BY <3>1
  <2>2. SameOversized /\ rec' = rec
    BY <2>1, PumpTakesNone
  <2>3. Keeps(rec, rec')
    BY <1>0, <2>2, LostType
  <2>4. \A K : Handed(given, pump, K) => Handed(given', pump', K)
    BY <1>1, <1>2, PumpKeepsHanded
  <2> QED BY <1>0, <2>2, <2>3, <2>4, KeepsCounted
<1>3. CASE \E m, b : RecordsAs(d, q, m, b)
  <2>1. PICK m, b : RecordsAs(d, q, m, b)
    BY <1>3
  <2>2. m \in Messages /\ Noted(rec, rec', pump[d].oversized, q.oversized, m)
    BY <2>1 DEF RecordsAs
  <2>3. PICK N \in SUBSET Messages : Covers(N, rec, pump) /\ Handed(given, pump, N \union Lined(rec))
    BY DEF Counted
  <2>4. Keeps(rec, rec')
    BY <1>0, <2>2, LostType DEF Noted, Counts
  <2>5. /\ Lost(rec) \in Nat /\ Lost(rec') \in Nat /\ Lost(rec) <= Lost(rec')
        /\ \A o \in Directions : pump[o].oversized \in Nat /\ pump'[o].oversized \in Nat
        /\ q.oversized = pump'[d].oversized
        /\ \A o \in Directions : o # d => pump'[o].oversized = pump[o].oversized
    BY <1>0, <1>1, <2>4, PumpFields DEF Keeps, PumpGoes, Becomes
  <2>6. CASE HasLine(rec', m) /\ q.oversized = pump[d].oversized
    <3>1. Ledger(rec, pump) <= Ledger(rec', pump')
      <4>1. \A o \in Directions : pump'[o].oversized = pump[o].oversized
        BY <2>5, <2>6
      <4>2. C2S \in Directions /\ S2C \in Directions
        BY DEF Directions, C2S, S2C
      <4> QED BY <2>5, <4>1, <4>2 DEF Ledger
    <3>2. Covers(N, rec', pump')
      BY <1>0, <2>3, <3>1, CoversStill
    <3> DEFINE K == N \union Lined(rec')
    <3>3. Handed(given, pump, K) /\ m \in K
      BY <2>2, <2>3, <2>4, <2>6, LinedWider, HandedWider DEF Lined
    <3> HIDE DEF K
    <3>4. Handed(given', pump', K)
      BY <1>1, <2>1, <3>3, PumpKeepsHanded
    <3> QED BY <3>2, <3>4 DEF Counted, K
  <2>7. CASE \/ rec' = rec /\ q.oversized = pump[d].oversized + 1
             \/ Lost(rec) + 1 <= Lost(rec') /\ q.oversized = pump[d].oversized
    <3>1. Ledger(rec, pump) + 1 <= Ledger(rec', pump')
      <4>1. C2S \in Directions /\ S2C \in Directions /\ C2S # S2C /\ (d = C2S \/ d = S2C)
        BY DEF Directions, C2S, S2C
      <4>2. \/ /\ Lost(rec') = Lost(rec) /\ pump'[d].oversized = pump[d].oversized + 1
            \/ /\ Lost(rec) + 1 <= Lost(rec') /\ pump'[d].oversized = pump[d].oversized
        BY <2>5, <2>7
      <4>3. CASE d = C2S
        BY <2>5, <4>1, <4>2, <4>3 DEF Ledger
      <4>4. CASE d = S2C
        BY <2>5, <4>1, <4>2, <4>4 DEF Ledger
      <4> QED BY <4>1, <4>3, <4>4
    <3> DEFINE M == N \union {m}
    <3>2. Covers(M, rec', pump') /\ M \in SUBSET Messages
      BY <1>0, <2>2, <2>3, <3>1, CoversOneMore
    <3> DEFINE K == M \union Lined(rec')
    <3>3. N \union Lined(rec) \subseteq K /\ m \in K
      BY <2>4, LinedWider
    <3> HIDE DEF K
    <3>4. Handed(given, pump, K)
      BY <2>3, <3>3, HandedWider
    <3>5. Handed(given', pump', K)
      BY <1>1, <2>1, <3>3, <3>4, PumpKeepsHanded
    <3> QED BY <3>2, <3>5 DEF Counted, K
  <2> QED BY <2>2, <2>6, <2>7 DEF Noted, Counts
<1> QED BY <1>2, <1>3

\* What the main task writes is counted too, and loses nothing.
LEMMA MainKeepsLines ==
    ASSUME Typed, MainStep \/ Kill
    PROVE  Keeps(rec, rec')
<1>1. rec \in Trace /\ C2S \in Directions /\ S2C \in Directions
  BY DEF Typed, Directions, C2S, S2C
<1>2. \A d \in Directions, b \in {"transport-open", "transport-close", "transport-abort"} :
         StdioEvent(d, b) \in Events
  BY EventTypes DEF Bodies
<1>3. CASE OpenTrace
  <2>1. PICK w \in Record(rec, StdioEvent(C2S, "transport-open")) : rec' = w.rec
    BY <1>3 DEF OpenTrace, After
  <2> QED BY <1>1, <1>2, <2>1, RecordCounts DEF Counts
<1>4. CASE BeginStop
  <2>1. PICK w \in Close(rec, StdioEvent(C2S, "transport-close")) : rec' = w.rec
    BY <1>4 DEF BeginStop, ClosedFirst, After
  <2> QED BY <1>1, <1>2, <2>1, CloseKeeps
<1>5. CASE CloseSession
  <2>1. PICK w \in Close(rec, ClosingEvent) : rec' = w.rec
    BY <1>5 DEF CloseSession, After
  <2>2. ClosingEvent \in Events
    BY <1>1, <1>2 DEF ClosingEvent
  <2> QED BY <1>1, <2>1, <2>2, CloseKeeps
<1>6. CASE FinishSession \/ Exit \/ Kill
  BY <1>1, <1>6, EndRests, RestedKeeps
<1>7. CASE UNCHANGED rec
  BY <1>1, <1>7, LostType
<1> QED BY <1>3, <1>4, <1>5, <1>6, <1>7
        DEF MainStep, OpenFails, ClientRelayEnds, ServerExitSeen, ClientJoined, RelayStop,
            StopKills, RelayEnds, DrainKills, AbandonRelay

LEMMA MainTakesNone ==
    ASSUME Typed, MainStep \/ Kill
    PROVE  SameOversized
<1>1. pump \in [Directions -> Pumps]
  BY DEF Typed
<1>2. CASE OpenTrace
  BY <1>1, <1>2 DEF OpenTrace, SameOversized, Pumps
<1>3. CASE Exit \/ Kill
  <2>1. pump' = [d \in Directions |-> TasksGone(d)]
    BY <1>3 DEF Exit, Kill
  <2>2. ASSUME NEW d \in Directions PROVE TasksGone(d).oversized = pump[d].oversized
    <3>1. pump[d] \in Pumps
      BY <1>1
    <3> QED BY <3>1 DEF TasksGone, Pumps
  <2> QED BY <2>1, <2>2 DEF SameOversized
<1>4. CASE ServerExitSeen \/ AbandonRelay
  <2>1. \/ pump' = pump
        \/ \E o \in Directions : pump' = [pump EXCEPT ![o] = [pump[o] EXCEPT !.aborting = TRUE]]
    BY <1>4 DEF ServerExitSeen, AbandonRelay, Abort, Directions, C2S, S2C
  <2>2. ASSUME NEW o \in Directions, NEW d \in Directions
        PROVE  [pump EXCEPT ![o] = [pump[o] EXCEPT !.aborting = TRUE]][d].oversized = pump[d].oversized
    <3>1. pump[o] \in Pumps
      BY <1>1
    <3> QED BY <1>1, <3>1 DEF Pumps
  <2> QED BY <2>1, <2>2 DEF SameOversized
<1>5. CASE UNCHANGED pump
  BY <1>5 DEF SameOversized
<1> QED BY <1>2, <1>3, <1>4, <1>5
        DEF MainStep, OpenFails, ClientRelayEnds, ClientJoined, BeginStop, RelayStop, StopKills,
            RelayEnds, DrainKills, CloseSession, FinishSession, env

LEMMA MainKeepsCounted ==
    ASSUME Typed, PhasesAgree, PumpsAgree, Counted, MainStep \/ Kill
    PROVE  Counted'
<1>1. MainGoes
  BY MainStepGoes
<1>2. /\ rec' \in Trace /\ pump' \in [Directions -> Pumps] /\ given' = given
      /\ \A d \in Directions : \/ pump'[d].chunk = pump[d].chunk /\ pump'[d].lines = pump[d].lines
                               \/ pump'[d].chunk = <<>>
  BY <1>1 DEF MainGoes, Adds, Leaves
<1>3. \A K : Handed(given, pump, K) => Handed(given', pump', K)
  BY <1>2 DEF Handed, HandedOf
<1> QED BY <1>2, <1>3, MainKeepsLines, MainTakesNone, KeepsCounted

LEMMA SameCounted ==
    ASSUME Counted, UNCHANGED <<rec, pump, given>>
    PROVE  Counted'
BY DEF Counted

LEMMA EnvKeepsCounted ==
    ASSUME Counted, EnvGoes
    PROVE  Counted'
<1>1. UNCHANGED <<rec, pump, given>>
  BY DEF EnvGoes, ClientSendsAs, ServerSendsAs, ServerReceivesAs, WorldGoes
<1> QED BY <1>1, SameCounted

LEMMA InitCounted == Init => Counted
<1> SUFFICES ASSUME Init PROVE Counted
  OBVIOUS
<1>1. rec \in Trace /\ pump \in [Directions -> Pumps] /\ Ledger(rec, pump) \in Int
  BY InitPInv, LedgerType DEF PInv, Typed
<1>2. \A d \in Directions : given[d] = <<>> /\ pump[d].chunk = <<>> /\ pump[d].oversized = 0
  BY DEF Init
<1>3. Lost(rec) = 0
  BY NewTrace DEF Init, Lost
<1>4. Ledger(rec, pump) = 0
  BY <1>2, <1>3 DEF Ledger, Directions, C2S, S2C
<1>5. Covers({}, rec, pump)
  BY <1>4, FS_EmptySet DEF Covers
<1>6. Handed(given, pump, {} \union Lined(rec))
  BY <1>2 DEF Handed, HandedOf
<1> QED BY <1>5, <1>6 DEF Counted

LEMMA CountedInvariance == Spec => []Counted
<1>1. PInv /\ PInv' /\ Counted /\ [Next]_vars => Counted'
  <2> SUFFICES ASSUME PInv, PInv', Counted, [Next]_vars PROVE Counted'
    OBVIOUS
  <2>1. /\ Typed /\ PhasesAgree /\ PumpsAgree
        /\ rec' \in Trace /\ pump' \in [Directions -> Pumps]
    BY DEF PInv, Typed
  <2>2. CASE MainStep \/ Kill
    BY <2>1, <2>2, MainKeepsCounted
  <2>3. CASE \E d \in Directions : PumpStep(d)
    BY <2>1, <2>3, PumpKeepsCounted
  <2>4. CASE EnvStep
    BY <2>1, <2>4, EnvStepGoes, EnvKeepsCounted DEF PInv
  <2>5. CASE UNCHANGED vars
    BY <2>5, SameCounted DEF vars, env
  <2> QED BY <2>2, <2>3, <2>4, <2>5 DEF Next
<1> QED BY <1>1, InitCounted, Invariance, PTL DEF Spec

\* Only FinishSession makes the report.
LEMMA FinishesBy ==
    ASSUME Typed, [Next]_vars, main.phase = "finishing", main'.phase = "finished"
    PROVE  FinishSession
<1>1. main \in Mains
  BY DEF Typed
<1>2. main' # main
  OBVIOUS
<1>3. CASE MainStep
  <2>1. ~OpenTrace /\ ~OpenFails /\ ~ClientRelayEnds
    BY DEF OpenTrace, OpenFails, ClientRelayEnds
  <2>2. ~ServerExitSeen /\ ~ClientJoined /\ ~BeginStop
    BY DEF ServerExitSeen, ClientJoined, BeginStop
  <2>3. ~RelayStop /\ ~StopKills /\ ~RelayEnds
    BY DEF RelayStop, StopKills, RelayEnds
  <2>4. ~DrainKills
    BY DEF DrainKills, DrainEnds, DrainVictims
  <2>5. ~AbandonRelay /\ ~CloseSession /\ ~Exit
    BY DEF AbandonRelay, CloseSession, Exit
  <2> QED BY <1>3, <2>1, <2>2, <2>3, <2>4, <2>5 DEF MainStep
<1>4. CASE Kill
  BY <1>1, <1>4 DEF Kill, SetMain, Mains
<1>5. CASE \E d \in Directions : PumpStep(d)
  BY <1>2, <1>5, PumpStepGoes DEF PumpGoes
<1>6. CASE EnvStep
  BY <1>2, <1>6 DEF EnvStep
<1> QED BY <1>2, <1>3, <1>4, <1>5, <1>6 DEF Next, vars

-----------------------------------------------------------------------------
(* The theorems. *)

LEMMA ToSetIn ==
    ASSUME NEW S, NEW s \in Seq(S)
    PROVE  ToSet(s) = {s[i] : i \in 1 .. Len(s)} /\ ToSet(s) \subseteq S
<1>1. \A i \in 1 .. Len(s) : s[i] \in S
  BY ElementOfSeq
<1>2. ToSet(s) = {s[i] : i \in 1 .. Len(s)}
  BY DEF ToSet
<1> QED BY <1>1, <1>2

\* Every variable keeps its type, whatever the environment does.
THEOREM TypeCorrect == Spec => []TypeOK
<1>1. PInv => TypeOK
  <2> SUFFICES ASSUME PInv PROVE TypeOK
    OBVIOUS
  <2>1. Typed
    BY DEF PInv
  <2>2. main \in Mains
    BY <2>1 DEF Typed
  <2>3. ASSUME NEW d \in Directions
        PROVE  /\ pump[d].state \in PumpStates
               /\ Len(inp[d]) <= setup.room /\ Len(outp[d]) <= setup.room
               /\ Len(pump[d].lines) <= setup.room /\ Len(pump[d].chunk) <= setup.room
    BY <2>1 DEF Typed, Pumps
  <2>4. ASSUME NEW d \in Directions
        PROVE  ToSet(sent[d]) \union ToSet(given[d]) \subseteq Messages
    <3>1. sent[d] \in Seq(Messages) /\ given[d] \in Seq(Messages)
      BY <2>1 DEF Typed
    <3>2. ToSet(sent[d]) \subseteq Messages /\ ToSet(given[d]) \subseteq Messages
      BY <3>1, ToSetIn
    <3> QED BY <3>2
  <2>5. /\ server.alive \subseteq setup.procs /\ server.told \subseteq setup.group
        /\ signals.pending \subseteq Stops
    BY <2>1 DEF Typed
  <2> QED BY <2>2, <2>3, <2>4, <2>5 DEF TypeOK, Mains, MainPhases, PumpStates
<1> QED BY <1>1, Invariance, PTL

\* A run that was asked to stop leaves no process of the server's group holding
\* the session's pipes when it has finished, unless the client had gone away: the
\* drain ends with the relay at its end of stream, which takes all writers gone,
\* or with a kill of the group (ending.rs drain, process.rs kill).
THEOREM StopReleasesPipes == Spec => []PipesReleased
<1>1. PInv => PipesReleased
  BY DEF PInv, DrainAgrees, GroupGone, Over, PipesReleased, Finished
<1> QED BY <1>1, Invariance, PTL

\* What the sink holds is nothing, once a run has nothing to report.
LEMMA WholeTape ==
    ASSUME PInv, rec.dropped = 0
    PROVE  rec \in Trace /\ Tape(rec) = rec.lines
<1>1. rec \in Trace /\ rec.held = <<>>
  BY DEF PInv, Typed, Closing, Held
<1> QED BY <1>1, TapeType

\* The trace is closed from the client's side before any process is sent a
\* request to stop: begin_stop closes it first, and nothing is recorded after.
THEOREM StopsCloseFirst == Spec => []StopClosesFirst
<1>1. PInv => StopClosesFirst
  <2> SUFFICES ASSUME PInv, server.told # {} PROVE
               /\ rec.closed
               /\ ~rec.failed /\ ~summary.error =>
                     /\ rec.lines # <<>>
                     /\ Last(rec.lines).ev = StdioEvent(C2S, "transport-close")
    BY DEF StopClosesFirst
  <2>1. Asked /\ rec.closed
    BY DEF PInv, PhasesAgree, Closing
  <2>2. ASSUME ~rec.failed, ~summary.error
        PROVE  rec.lines # <<>> /\ Last(rec.lines).ev = StdioEvent(C2S, "transport-close")
    <3>1. rec.dropped = 0
      BY <2>2 DEF PInv, Closing
    <3>2. ClosedLast(rec)
      BY <2>1, <3>1 DEF PInv, Closing
    <3>3. Tape(rec) = rec.lines
      BY <3>1, WholeTape
    <3>4. /\ Len(rec.lines) > 0
          /\ rec.lines[Len(rec.lines)].ev = StdioEvent(C2S, "transport-close")
      BY <3>2, <3>3 DEF ClosedLast
    <3>5. rec.lines # <<>>
      BY <3>4
    <3> QED BY <3>4, <3>5 DEF Last
  <2> QED BY <2>1, <2>2
<1> QED BY <1>1, Invariance, PTL

\* A pump that came to the end of its input has handed on all that was sent.
LEMMA DoneIsAll ==
    ASSUME PInv, NEW d \in Directions, pump[d].state = "done"
    PROVE  given[d] = sent[d]
<1>1. pump[d].eof /\ inp[d] = <<>> /\ pump[d].chunk = <<>>
  BY DEF PInv, PumpsAgree
<1>2. Prefix(given[d], sent[d]) /\ Flow(pump[d].chunk \o inp[d], sent[d], Len(given[d]))
  BY DEF PInv, Flows, Intact
<1>3. sent[d] \in Seq(Messages) /\ given[d] \in Seq(Messages)
  BY DEF PInv, Typed
<1>4. pump[d].chunk \o inp[d] = <<>>
  BY <1>1, ConcatEmptySeq, EmptySeq
<1>5. Len(given[d]) = Len(sent[d])
  BY <1>2, <1>3, <1>4, FlowEmpty
<1>6. \A k \in 1 .. Len(given[d]) : given[d][k] = sent[d][k]
  BY <1>2 DEF Prefix
<1> QED BY <1>3, <1>5, <1>6, SeqEqual

\* A trace says that the client closed the session only if it did close its end
\* and the server has been given all that it sent: wait_for_end takes only a
\* clean end of the client's relay for the client closing.
THEOREM ClientClosesAreClean == Spec => []ClientCloseIsClean
<1>1. PInv => ClientCloseIsClean
  <2> SUFFICES ASSUME PInv, ~Asked, NEW i \in 1 .. Len(rec.lines), IsClose(rec.lines[i].ev)
               PROVE  client.closed /\ given[C2S] = sent[C2S]
    BY DEF ClientCloseIsClean, IsClose
  <2>1. rec \in Trace
    BY DEF PInv, Typed
  <2>2. i \in 1 .. Len(Tape(rec)) /\ Tape(rec)[i] = rec.lines[i]
    BY <2>1, TapeType
  <2>3. CleanCloses(rec, main.clientClosed)
    BY DEF PInv, Closing
  <2>4. main.clientClosed
    BY <2>2, <2>3 DEF CleanCloses
  <2>5. C2S \in Directions /\ pump[C2S].state = "done"
    BY <2>4 DEF PInv, PhasesAgree, Directions, C2S
  <2>6. client.closed
    BY <2>5 DEF PInv, PumpsAgree, WritersGone
  <2> QED BY <2>5, <2>6, DoneIsAll
<1> QED BY <1>1, Invariance, PTL

\* What one side had been given before it began a message precedes that message
\* in the trace, though two tasks record the two directions: each records a line
\* before it forwards the bytes that complete it (pump).
THEOREM CausesAreRecordedFirst == Spec => []CausalOrder
<1>1. PInv => CausalOrder
  <2> SUFFICES ASSUME PInv, NEW pair \in before, NEW i \in 1 .. Len(rec.lines),
                      rec.lines[i].ev.msg = pair[2], pair[1] \in Recordable
               PROVE  \E j \in 1 .. i - 1 : rec.lines[j].ev.msg = pair[1]
    BY DEF CausalOrder
  <2> DEFINE n == Len(rec.lines)
             t == Tape(rec)
             k == Len(t)
  <2>1. rec \in Trace
    BY DEF PInv, Typed
  <2>2. /\ n \in Nat /\ k \in Nat /\ n <= k
        /\ \A j \in 1 .. n : t[j] = rec.lines[j]
    BY <2>1, TapeType
  <2>3. i \in 1 .. n
    OBVIOUS
  <2>4. \A l \in 1 .. k : t[l].ev.msg = pair[2] =>
            \E j \in 1 .. l - 1 : t[j].ev.msg = pair[1]
    BY DEF PInv, Ordered
  <2> HIDE DEF n, t, k
  <2>5. i \in 1 .. k /\ t[i].ev.msg = pair[2]
    BY <2>2, <2>3
  <2>6. PICK j \in 1 .. i - 1 : t[j].ev.msg = pair[1]
    BY <2>4, <2>5
  <2>7. j \in 1 .. n
    BY <2>2, <2>3
  <2> QED BY <2>2, <2>6, <2>7
<1> QED BY <1>1, Invariance, PTL

\* A session that ended without a request to stop is whole: all that either side
\* was given is in its trace, nothing came behind its close, and the client was
\* given all that the server's processes wrote, unless it had gone away.
THEOREM SessionsEndWhole == Spec => []EndedSessionIsWhole
<1>1. PInv => EndedSessionIsWhole
  <2> SUFFICES ASSUME PInv, Finished, ~Asked
               PROVE  /\ ~summary.error =>
                           /\ summary.afterClose = 0
                           /\ \A d \in Directions :
                                 \A m \in ToSet(given[d]) \intersect Recordable : Taped(m)
                      /\ client.state # "gone" => given[S2C] = sent[S2C]
    BY DEF EndedSessionIsWhole
  <2>1. summary.afterClose = 0
    BY DEF PInv, Closing
  <2>2. ASSUME ~summary.error, NEW d \in Directions,
               NEW m \in ToSet(given[d]) \intersect Recordable
        PROVE  Taped(m)
    <3>1. rec.dropped = 0
      BY <2>2 DEF PInv, Closing
    <3>2. given[d] \in Seq(Messages)
      BY DEF PInv, Typed
    <3>3. PICK k \in 1 .. Len(given[d]) : given[d][k] = m
      BY <3>2, ToSetIn
    <3>4. Settled(rec, main, d, m)
      BY <3>3 DEF PInv, RecordFirst
    <3>5. OnTape(rec, d, m)
      BY <3>1, <3>4 DEF Settled, Asked
    <3>6. Tape(rec) = rec.lines
      BY <3>1, WholeTape
    <3> QED BY <3>5, <3>6 DEF OnTape, Taped
  <2>3. ASSUME client.state # "gone" PROVE given[S2C] = sent[S2C]
    <3>1. pump[S2C].state \in {"done", "failed"}
      BY DEF PInv, DrainAgrees, Finished, Over
    <3>2. pump[S2C].state = "done" /\ S2C \in Directions
      BY <2>3, <3>1 DEF PInv, PumpsAgree, Directions, S2C
    <3> QED BY <3>2, DoneIsAll
  <2> QED BY <2>1, <2>2, <2>3
<1> QED BY <1>1, Invariance, PTL

\* A message that was handed on and has no line when the run reports is counted
\* in the report: it came after the close, was dropped by a failed sink, or was
\* too large to record (stdio.rs pump, writer.rs record, finish).
THEOREM WhatIsUntapedIsCounted == Spec => UntapedIsCounted
<1>1. ASSUME PInv, Counted, [Next]_vars, main.phase = "finishing", main'.phase = "finished"
      PROVE  Cardinality({m \in ToSet(given[C2S]) \union ToSet(given[S2C]) : ~Taped(m)})
               <= summary'.afterClose + summary'.dropped
                  + pump[C2S].oversized + pump[S2C].oversized
  <2> DEFINE T == {m \in ToSet(given[C2S]) \union ToSet(given[S2C]) : ~Taped(m)}
  <2>1. Typed /\ FinishSession /\ rec \in Trace /\ C2S \in Directions /\ S2C \in Directions
    BY <1>1, FinishesBy DEF PInv, Typed, Directions, C2S, S2C
  <2>2. PICK f \in Finish(rec) : rec' = f.rec /\ summary' = f.summary
    BY <2>1 DEF FinishSession
  <2>3. summary'.afterClose = rec.afterClose /\ summary'.dropped = rec.dropped
    BY <2>1, <2>2, FinishRests
  <2>4. PICK N \in SUBSET Messages : Covers(N, rec, pump) /\ Handed(given, pump, N \union Lined(rec))
    BY <1>1 DEF Counted
  <2>5. T \subseteq N
    <3>1. ASSUME NEW d \in Directions, NEW m \in ToSet(given[d]), ~Taped(m) PROVE m \in N
      <4>1. given[d] \in Seq(Messages)
        BY <2>1 DEF Typed
      <4>2. PICK k \in 1 .. Len(given[d]) : given[d][k] = m
        BY <4>1, ToSetIn
      <4>3. m \in N \union Lined(rec)
        BY <2>4, <4>2 DEF Handed, HandedOf
      <4> QED BY <3>1, <4>3 DEF Lined, HasLine, Taped
    <3> QED BY <2>1, <3>1
  <2>6. Cardinality(T) <= Cardinality(N) /\ Cardinality(T) \in Nat /\ Cardinality(N) \in Nat
    BY <2>4, <2>5, FS_Subset, FS_CardinalityType DEF Covers
  <2>7. Cardinality(N) <= Ledger(rec, pump) /\ Ledger(rec, pump) \in Int
    BY <2>1, <2>4, LedgerType DEF Covers, Typed
  <2> HIDE DEF T
  <2>8. Cardinality(T) <= Ledger(rec, pump)
    BY <2>6, <2>7
  <2> QED BY <2>3, <2>8 DEF Ledger, Lost, T
<1>2. PInv /\ Counted /\ [Next]_vars =>
        [main.phase = "finishing" /\ main'.phase = "finished" =>
           Cardinality({m \in ToSet(given[C2S]) \union ToSet(given[S2C]) : ~Taped(m)})
             <= summary'.afterClose + summary'.dropped
                + pump[C2S].oversized + pump[S2C].oversized]_vars
  BY <1>1
<1> QED BY <1>2, Invariance, CountedInvariance, PTL DEF Spec, UntapedIsCounted

\* The capture is the wiretap it is meant to be: each side is given what the
\* other sent, in its order, and nothing that is to be recorded is handed on
\* before it is in the trace, unless the trace takes no more; what the trace has
\* of a direction it has in its order, complete and once (stdio.rs pump).
THEOREM WiretapIsImplemented == Spec => ImplementsWiretap
<1>1. PInv /\ WInv /\ [Next]_vars => [Tapped!Next]_(Tapped!vars)
  BY StepTaps DEF TapStep
<1> QED BY <1>1, InitTaps, Invariance, WatchInvariance, PTL DEF Spec, ImplementsWiretap, Tapped!Spec
=============================================================================

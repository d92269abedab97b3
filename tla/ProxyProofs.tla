----------------------------- MODULE ProxyProofs ------------------------------
(***************************************************************************)
(* Proofs about HttpProxy, for any number of exchanges, session ids and    *)
(* events of a stream, and any settings.  What a recorder does is first    *)
(* said of its tape: the lines of its file and those its sink still holds, *)
(* which every operation leaves alone or appends to.                       *)
(***************************************************************************)
EXTENDS HttpProxy, SequenceTheorems, FiniteSetTheorems, TLAPS

Lines == LinesOver(Events)
Trace == RecordersOver(Events, Ids)

Tape(r) == r.lines \o r.held

\* Nothing was dropped and nothing refused; and no more will be taken.
Clean(r) == r.dropped = 0 /\ r.afterClose = 0
Stuck(r) == r.closed \/ r.failed

\* The sink holds nothing unless a write failed.
Held(r) == r.dropped = 0 => r.held = <<>>

\* x is r after it was given an event: the tape has its line, or neither it nor
\* what follows will be on it, and one of the counters says so.
Given(r, x, e) ==
    /\ x \in Trace /\ x.closed = r.closed
    /\ Held(r) => Held(x)
    /\ x.dropped = 0 => r.dropped = 0
    /\ Clean(x) => Clean(r)
    /\ \/ Tape(x) = Tape(r) /\ Stuck(x) /\ ~Clean(x) /\ (x.dropped = 0 => r.closed)
       \/ ~Stuck(r) /\ \E line \in Lines : line.ev = e /\ Tape(x) = Append(Tape(r), line)

-----------------------------------------------------------------------------
(* What the operators of Recorder return. *)

LEMMA EventFields ==
    \A e \in Events : e.opens \in BOOLEAN /\ e.ids \in SUBSET Ids /\ e.fits = TRUE
<1>1. \A h \in Handlers : \A e \in Told(h) : e.opens \in BOOLEAN /\ e.ids \in SUBSET Ids /\ e.fits = TRUE
  BY DEF Told
<1>2. \A body : LET e == LifecycleEvent(C2S, body)
                IN  e.opens \in BOOLEAN /\ e.ids \in SUBSET Ids /\ e.fits = TRUE
  BY DEF LifecycleEvent
<1>3. ASSUME NEW e \in Events
      PROVE  \/ \E h \in Handlers : e \in Told(h)
             \/ \E body : e = LifecycleEvent(C2S, body)
  BY <1>3 DEF Events
<1> QED BY <1>1, <1>2, <1>3

\* Updating the fields an operator touches, one group at a time.
LEMMA Updates ==
    ASSUME NEW r \in Trace
    PROVE  /\ \A n \in Nat, S \in SUBSET Ids :
                [r EXCEPT !.initializes = n, !.ids = S] \in Trace
           /\ \A n, m \in Nat, l, h \in Seq(Lines) :
                [r EXCEPT !.lines = l, !.torn = FALSE, !.held = h, !.nextSeq = n,
                          !.messages = m] \in Trace
           /\ \A n \in Nat, b \in BOOLEAN, h \in Seq(Lines) :
                [r EXCEPT !.failed = TRUE, !.dropped = n, !.torn = b, !.held = h] \in Trace
           /\ \A n \in Nat : [r EXCEPT !.dropped = n] \in Trace
           /\ \A n \in Nat : [r EXCEPT !.afterClose = n] \in Trace
           /\ [r EXCEPT !.closed = TRUE] \in Trace
           /\ \A b \in BOOLEAN : [r EXCEPT !.failed = b] \in Trace
           /\ \A l, h \in Seq(Lines) :
                [r EXCEPT !.lines = l, !.torn = FALSE, !.held = h] \in Trace
BY DEF Trace, RecordersOver, Lines

LEMMA Fields ==
    ASSUME NEW r \in Trace
    PROVE  /\ r.lines \in Seq(Lines) /\ r.held \in Seq(Lines)
           /\ r.nextSeq \in Nat /\ r.messages \in Nat /\ r.dropped \in Nat
           /\ r.afterClose \in Nat /\ r.initializes \in Nat
           /\ r.torn \in BOOLEAN /\ r.failed \in BOOLEAN /\ r.closed \in BOOLEAN
           /\ r.ids \in SUBSET Ids /\ r.sink \in Sinks
BY DEF Trace, RecordersOver, Lines

LEMMA LineType ==
    ASSUME NEW r \in Trace, NEW e \in Events
    PROVE  LineOf(r, e) \in Lines /\ LineOf(r, e).ev = e
BY Fields DEF LineOf, Lines, LinesOver

\* A tape is a sequence of lines, of which those in the file are the first.
LEMMA TapeType ==
    ASSUME NEW r \in Trace
    PROVE  /\ Tape(r) \in Seq(Lines) /\ Len(Tape(r)) \in Nat
           /\ Len(r.lines) \in Nat /\ Len(r.lines) <= Len(Tape(r))
           /\ \A i \in 1 .. Len(r.lines) : Tape(r)[i] = r.lines[i]
           /\ r.held = <<>> => Tape(r) = r.lines
<1>1. r.lines \in Seq(Lines) /\ r.held \in Seq(Lines)
  BY Fields
<1>2. Len(r.lines) \in Nat /\ Len(r.held) \in Nat
  BY <1>1, LenProperties
<1>3. /\ Tape(r) \in Seq(Lines) /\ Len(Tape(r)) = Len(r.lines) + Len(r.held)
      /\ \A i \in 1 .. Len(r.lines) + Len(r.held) :
             Tape(r)[i] = IF i <= Len(r.lines) THEN r.lines[i] ELSE r.held[i - Len(r.lines)]
  BY <1>1, ConcatProperties DEF Tape
<1>4. r.held = <<>> => Tape(r) = r.lines
  BY <1>1, ConcatEmptySeq DEF Tape
<1> DEFINE n == Len(r.lines)
           m == Len(r.held)
<1> HIDE DEF Tape, n, m
<1>5. n \in Nat /\ m \in Nat /\ Len(Tape(r)) = n + m
      /\ \A i \in 1 .. n + m : Tape(r)[i] = IF i <= n THEN r.lines[i] ELSE r.held[i - n]
  BY <1>2, <1>3 DEF n, m
<1>6. Len(Tape(r)) \in Nat /\ n <= Len(Tape(r)) /\ \A i \in 1 .. n : Tape(r)[i] = r.lines[i]
  BY <1>5
<1> QED BY <1>3, <1>4, <1>5, <1>6 DEF n

\* Appending, to what is held or behind what was.
Appends(l, h, x) ==
    /\ (l \o h \o <<x>>) \o <<>> = Append(l \o h, x)
    /\ l \o Append(h, x) = Append(l \o h, x)
    /\ (l \o h) \o <<>> = l \o h
    /\ l \o h \o <<x>> \in Seq(Lines) /\ Append(h, x) \in Seq(Lines) /\ l \o h \in Seq(Lines)

LEMMA Appending ==
    ASSUME NEW l \in Seq(Lines), NEW h \in Seq(Lines), NEW x \in Lines
    PROVE  Appends(l, h, x)
<1>1. l \o h \in Seq(Lines) /\ <<x>> \in Seq(Lines)
  BY ConcatProperties
<1>2. (l \o h) \o <<x>> = Append(l \o h, x) /\ h \o <<x>> = Append(h, x)
  BY <1>1, AppendIsConcat
<1>3. (l \o h) \o <<x>> = l \o (h \o <<x>>)
  BY <1>1, ConcatAssociative
<1>4. (l \o h) \o <<x>> \in Seq(Lines)
  BY <1>1, ConcatProperties
<1>5. ((l \o h) \o <<x>>) \o <<>> = (l \o h) \o <<x>> /\ (l \o h) \o <<>> = l \o h
  BY <1>1, <1>4, ConcatEmptySeq
<1> QED BY <1>1, <1>2, <1>3, <1>4, <1>5 DEF Appends

\* Noting an event's sessions leaves the trace alone.
SameTrace(x, r) ==
    /\ x.sink = r.sink /\ x.lines = r.lines /\ x.held = r.held
    /\ x.failed = r.failed /\ x.closed = r.closed
    /\ x.afterClose = r.afterClose /\ x.dropped = r.dropped

LEMMA ObserveLeavesTheTrace ==
    ASSUME NEW r \in Trace, NEW e \in Events, NEW o, o = Observe(r, e)
    PROVE  o \in Trace /\ SameTrace(o, r)
<1>1. (IF e.opens THEN r.initializes + 1 ELSE r.initializes) \in Nat /\ r.ids \union e.ids \in SUBSET Ids
  BY EventFields, Fields
<1>2. o \in Trace
  BY <1>1, Updates DEF Observe
<1>3. \A n, S : SameTrace([r EXCEPT !.initializes = n, !.ids = S], r)
  BY DEF SameTrace, Trace, RecordersOver
<1> QED BY <1>2, <1>3 DEF Observe

LEMMA WrittenFields ==
    ASSUME NEW r \in Trace, NEW e \in Events, NEW x, x = Written(r, e)
    PROVE  /\ x \in Trace /\ Tape(x) = Append(Tape(r), LineOf(r, e)) /\ x.held = <<>>
           /\ x.dropped = r.dropped /\ x.afterClose = r.afterClose /\ x.closed = r.closed
<1> DEFINE m == IF e.body = "message" THEN r.messages + 1 ELSE r.messages
           l == r.lines \o r.held \o <<LineOf(r, e)>>
<1>1. m \in Nat /\ r.nextSeq + 1 \in Nat /\ r.lines \in Seq(Lines) /\ r.held \in Seq(Lines)
      /\ LineOf(r, e) \in Lines /\ <<>> \in Seq(Lines)
  BY Fields, LineType
<1>2. x = [r EXCEPT !.lines = l, !.torn = FALSE, !.held = <<>>,
                    !.nextSeq = r.nextSeq + 1, !.messages = m]
  BY DEF Written
<1>3. l \in Seq(Lines) /\ l \o <<>> = Append(r.lines \o r.held, LineOf(r, e))
  <2>1. Appends(r.lines, r.held, LineOf(r, e))
    BY <1>1, Appending
  <2> QED BY <2>1 DEF Appends
<1> HIDE DEF m, l
<1>4. x \in Trace
  <2>1. \A n, k \in Nat, y, h \in Seq(Lines) :
           [r EXCEPT !.lines = y, !.torn = FALSE, !.held = h, !.nextSeq = n,
                     !.messages = k] \in Trace
    BY Updates
  <2>2. [r EXCEPT !.lines = l, !.torn = FALSE, !.held = <<>>,
                  !.nextSeq = r.nextSeq + 1, !.messages = m] \in Trace
    BY <1>1, <1>3, <2>1
  <2> QED BY <1>2, <2>2
<1>5. /\ x.lines = l /\ x.held = <<>> /\ x.dropped = r.dropped
      /\ x.afterClose = r.afterClose /\ x.closed = r.closed
  BY <1>2 DEF Trace, RecordersOver
<1> QED BY <1>3, <1>4, <1>5 DEF Tape

LEMMA FailureFields ==
    ASSUME NEW r \in Trace, NEW e \in Events, NEW x \in WriteFailures(r, e)
    PROVE  /\ x \in Trace /\ x.failed /\ x.closed = r.closed
           /\ x.dropped = r.dropped + 1 /\ x.afterClose = r.afterClose
           /\ Tape(x) = Tape(r) \/ Tape(x) = Append(Tape(r), LineOf(r, e))
<1>1. PICK t \in BOOLEAN, h \in {r.held, Append(r.held, LineOf(r, e))} :
           x = [r EXCEPT !.failed = TRUE, !.dropped = r.dropped + 1, !.torn = t, !.held = h]
  <2>1. r.torn \in BOOLEAN
    BY Fields
  <2>2. PICK t \in IF r.sink = "unwritable" THEN {r.torn} ELSE {r.torn, TRUE},
            h \in IF r.sink = "buffered" THEN {r.held, Append(r.held, LineOf(r, e))}
                                         ELSE {r.held} :
              x = [r EXCEPT !.failed = TRUE, !.dropped = @ + 1, !.torn = t, !.held = h]
    BY DEF WriteFailures
  <2>3. t \in BOOLEAN /\ h \in {r.held, Append(r.held, LineOf(r, e))}
    BY <2>1
  <2> QED BY <2>2, <2>3
<1>2. /\ r.lines \in Seq(Lines) /\ r.held \in Seq(Lines) /\ LineOf(r, e) \in Lines
      /\ r.dropped + 1 \in Nat
  BY Fields, LineType
<1>3. h \in Seq(Lines) /\ r.lines \o Append(r.held, LineOf(r, e)) = Append(Tape(r), LineOf(r, e))
  <2> DEFINE x1 == LineOf(r, e)
             l1 == r.lines
             h1 == r.held
  <2>1. l1 \in Seq(Lines) /\ h1 \in Seq(Lines) /\ x1 \in Lines /\ h \in {h1, Append(h1, x1)}
    BY <1>1, <1>2
  <2> HIDE DEF x1, l1, h1
  <2>2. h \in Seq(Lines) /\ l1 \o Append(h1, x1) = Append(l1 \o h1, x1)
    <3>1. Appends(l1, h1, x1)
      BY <2>1, Appending
    <3> QED BY <2>1, <3>1 DEF Appends
  <2> QED BY <2>2 DEF x1, l1, h1, Tape
<1>4. x \in Trace
  BY <1>1, <1>2, <1>3, Updates
<1>5. /\ x.lines = r.lines /\ x.dropped = r.dropped + 1 /\ x.afterClose = r.afterClose
      /\ x.failed /\ x.closed = r.closed /\ x.held = h
  BY <1>1 DEF Trace, RecordersOver
<1> QED BY <1>1, <1>3, <1>4, <1>5 DEF Tape

LEMMA WriteGives ==
    ASSUME NEW r \in Trace, NEW e \in Events, NEW w \in Write(r, e)
    PROVE  Given(r, w.rec, e)
<1> DEFINE o == Observe(r, e)
           x == w.rec
<1>o. o \in Trace /\ SameTrace(o, r)
  BY ObserveLeavesTheTrace
<1>l. LineOf(o, e) \in Lines /\ LineOf(o, e).ev = e /\ Tape(o) = Tape(r)
  BY <1>o, LineType DEF SameTrace, Tape
<1>f. /\ r.dropped \in Nat /\ r.afterClose \in Nat /\ r.closed \in BOOLEAN /\ r.failed \in BOOLEAN
      /\ e.fits = TRUE
  BY Fields, EventFields
<1> HIDE DEF o
<1>1. CASE r.closed
  <2>1. x = [r EXCEPT !.afterClose = r.afterClose + 1]
    BY <1>1 DEF Write
  <2>2. x \in Trace
    <3>1. r.afterClose + 1 \in Nat
      BY <1>f
    <3> QED BY <2>1, <3>1, Updates
  <2>3. /\ x.closed = r.closed /\ x.lines = r.lines /\ x.held = r.held
        /\ x.dropped = r.dropped /\ x.afterClose = r.afterClose + 1
    BY <2>1 DEF Trace, RecordersOver
  <2> HIDE DEF x
  <2> QED BY <1>1, <1>f, <2>2, <2>3 DEF x, Given, Held, Clean, Stuck, Tape
<1>2. CASE ~r.closed /\ r.failed
  <2>1. x = [o EXCEPT !.dropped = o.dropped + 1] /\ o.dropped = r.dropped
    BY <1>2, <1>o DEF Write, o, SameTrace
  <2>2. x \in Trace
    <3>1. o.dropped + 1 \in Nat
      BY <1>f, <2>1
    <3> QED BY <1>o, <2>1, <3>1, Updates
  <2>3. /\ x.closed = r.closed /\ x.lines = r.lines /\ x.held = r.held /\ x.failed = r.failed
        /\ x.dropped = r.dropped + 1 /\ x.afterClose = r.afterClose
    <3>1. /\ x.closed = o.closed /\ x.lines = o.lines /\ x.held = o.held /\ x.failed = o.failed
          /\ x.dropped = o.dropped + 1 /\ x.afterClose = o.afterClose
      BY <1>o, <2>1 DEF Trace, RecordersOver
    <3> QED BY <1>o, <3>1 DEF SameTrace
  <2> HIDE DEF x
  <2> QED BY <1>2, <1>f, <2>2, <2>3 DEF x, Given, Held, Clean, Stuck, Tape
<1>3. CASE ~r.closed /\ ~r.failed
  <2>1. w \in SinkOutcomes(o, e)
    BY <1>3, <1>f DEF Write, o
  <2>2. CASE x = Written(o, e)
    <3>1. /\ x \in Trace /\ Tape(x) = Append(Tape(r), LineOf(o, e)) /\ x.held = <<>>
          /\ x.dropped = r.dropped /\ x.afterClose = r.afterClose /\ x.closed = r.closed
      <4>1. /\ x \in Trace /\ Tape(x) = Append(Tape(o), LineOf(o, e)) /\ x.held = <<>>
            /\ x.dropped = o.dropped /\ x.afterClose = o.afterClose /\ x.closed = o.closed
        BY <1>o, <2>2, WrittenFields
      <4> QED BY <1>o, <1>l, <4>1 DEF SameTrace
    <3> HIDE DEF x
    <3> QED BY <1>3, <1>f, <1>l, <3>1 DEF x, Given, Held, Clean, Stuck
  <2>3. CASE x \in WriteFailures(o, e)
    <3>1. /\ x \in Trace /\ x.failed /\ x.closed = r.closed
          /\ x.dropped = r.dropped + 1 /\ x.afterClose = r.afterClose
          /\ Tape(x) = Tape(r) \/ Tape(x) = Append(Tape(r), LineOf(o, e))
      <4>1. /\ x \in Trace /\ x.failed /\ x.closed = o.closed
            /\ x.dropped = o.dropped + 1 /\ x.afterClose = o.afterClose
            /\ Tape(x) = Tape(o) \/ Tape(x) = Append(Tape(o), LineOf(o, e))
        BY <1>o, <2>3, FailureFields
      <4> QED BY <1>o, <1>l, <4>1 DEF SameTrace
    <3> HIDE DEF x
    <3> QED BY <1>3, <1>f, <1>l, <3>1 DEF x, Given, Held, Clean, Stuck
  <2> QED BY <2>1, <2>2, <2>3 DEF SinkOutcomes
<1> QED BY <1>1, <1>2, <1>3, <1>f

\* The first close writes its event, or counts that it could not, and seals.
Sealed(r, e) ==
    /\ r.closed
    /\ r.dropped = 0 => /\ Len(Tape(r)) > 0
                        /\ Tape(r)[Len(Tape(r))].ev = e

LEMMA CloseSeals ==
    ASSUME NEW r \in Trace, ~r.closed, NEW e \in Events, NEW w \in Close(r, e)
    PROVE  \E x : /\ Given(r, x, e) /\ w.rec \in Trace /\ Sealed(w.rec, e)
                  /\ w.rec.dropped = x.dropped /\ w.rec.afterClose = x.afterClose
                  /\ w.rec.lines = x.lines /\ w.rec.held = x.held
<1>1. PICK v \in Write(r, e) : w.rec = [v.rec EXCEPT !.closed = TRUE]
  <2>1. w \in {[out |-> v.out, rec |-> [v.rec EXCEPT !.closed = TRUE]] : v \in Write(r, e)}
    BY DEF Close
  <2>2. PICK v \in Write(r, e) : w = [out |-> v.out, rec |-> [v.rec EXCEPT !.closed = TRUE]]
    BY <2>1
  <2>3. w.rec = [v.rec EXCEPT !.closed = TRUE]
    BY <2>2
  <2> QED BY <2>3
<1> DEFINE x == v.rec
           y == w.rec
<1>2. Given(r, x, e)
  BY WriteGives
<1>3. x \in Trace
  BY <1>2 DEF Given
<1>4. /\ y.dropped = x.dropped /\ y.afterClose = x.afterClose /\ y.closed
      /\ y.lines = x.lines /\ y.held = x.held
  BY <1>1, <1>3 DEF Trace, RecordersOver
<1>5. y \in Trace
  BY <1>1, <1>3, Updates
<1> HIDE DEF x, y
<1>6. Tape(y) = Tape(x) /\ Tape(r) \in Seq(Lines)
  BY <1>4, TapeType DEF Tape
<1>7. Sealed(y, e)
  <2> SUFFICES ASSUME y.dropped = 0
               PROVE  Len(Tape(x)) > 0 /\ Tape(x)[Len(Tape(x))].ev = e
    BY <1>4, <1>6 DEF Sealed
  <2>1. PICK line \in Lines : line.ev = e /\ Tape(x) = Append(Tape(r), line)
    BY <1>2, <1>4 DEF Given
  <2>2. Len(Append(Tape(r), line)) = Len(Tape(r)) + 1 /\ Len(Tape(r)) \in Nat
        /\ Append(Tape(r), line)[Len(Tape(r)) + 1] = line
    BY <1>6, AppendProperties, LenProperties
  <2> QED BY <2>1, <2>2
<1> QED BY <1>2, <1>4, <1>5, <1>7 DEF x, y

\* The flush changes where the tape is kept, and nothing else that is told.
LEMMA FinishKeeps ==
    ASSUME NEW r \in Trace, NEW f \in Finish(r), NEW x, x = f.rec
    PROVE  /\ x \in Trace /\ Tape(x) = Tape(r) /\ x.closed = r.closed
           /\ x.dropped = r.dropped /\ x.afterClose = r.afterClose /\ (Held(r) => Held(x))
<1>1. PICK g \in {r, Drained(r), [r EXCEPT !.failed = TRUE]} : x = [g EXCEPT !.failed = FALSE]
  <2>1. PICK g \in Flushed(r) : f = [summary |-> SummaryOf(g), rec |-> [g EXCEPT !.failed = FALSE]]
    BY DEF Finish
  <2>2. g \in {r, Drained(r), [r EXCEPT !.failed = TRUE]}
    BY <2>1 DEF Flushed
  <2>3. x = [g EXCEPT !.failed = FALSE]
    BY <2>1
  <2> QED BY <2>2, <2>3
<1>2. r.lines \in Seq(Lines) /\ r.held \in Seq(Lines) /\ r.lines \o r.held \in Seq(Lines)
      /\ (r.lines \o r.held) \o <<>> = r.lines \o r.held /\ <<>> \in Seq(Lines)
  BY Fields, ConcatProperties, ConcatEmptySeq
<1>3. /\ g \in Trace /\ g.closed = r.closed /\ g.dropped = r.dropped /\ g.afterClose = r.afterClose
      /\ \/ g.lines = r.lines /\ g.held = r.held
         \/ g.lines = r.lines \o r.held /\ g.held = <<>>
  <2>1. CASE g = Drained(r)
    <3>1. g = [r EXCEPT !.lines = r.lines \o r.held, !.torn = FALSE, !.held = <<>>]
      BY <2>1 DEF Drained
    <3> DEFINE l == r.lines \o r.held
    <3>2. l \in Seq(Lines)
      BY <1>2
    <3>3. g = [r EXCEPT !.lines = l, !.torn = FALSE, !.held = <<>>]
      BY <3>1
    <3> HIDE DEF l
    <3>4. g \in Trace
      BY <1>2, <3>2, <3>3, Updates
    <3>5. /\ g.closed = r.closed /\ g.dropped = r.dropped /\ g.afterClose = r.afterClose
          /\ g.lines = l /\ g.held = <<>>
      BY <3>3 DEF Trace, RecordersOver
    <3> QED BY <3>4, <3>5 DEF l
  <2>2. CASE g \in {r, [r EXCEPT !.failed = TRUE]}
    <3>1. g \in Trace
      BY <2>2, Updates
    <3> QED BY <2>2, <3>1 DEF Trace, RecordersOver
  <2> QED BY <2>1, <2>2
<1>4. x \in Trace
  BY <1>1, <1>3, Updates
<1>5. /\ x.closed = g.closed /\ x.dropped = g.dropped /\ x.afterClose = g.afterClose
      /\ x.lines = g.lines /\ x.held = g.held
  BY <1>1, <1>3 DEF Trace, RecordersOver
<1> QED BY <1>2, <1>3, <1>4, <1>5 DEF Tape, Held

LEMMA NewTrace ==
    ASSUME NEW sink \in Sinks, NEW r, r = New(sink)
    PROVE  /\ r \in Trace /\ Tape(r) = <<>> /\ ~r.closed /\ Held(r)
<1>1. <<>> \in Seq(Lines) /\ <<>> \o <<>> = <<>>
  BY ConcatEmptySeq
<1>2. r \in Trace
  BY <1>1 DEF New, Trace, RecordersOver, Lines
<1>3. r.lines = <<>> /\ r.held = <<>> /\ ~r.closed
  BY DEF New
<1> QED BY <1>1, <1>2, <1>3 DEF Tape, Held

-----------------------------------------------------------------------------
(* The inductive invariant. *)

\* A handler between the router and its end, and one whose request is recorded.
Live == HandlerPhases \ {"unused", "connected", "reading", "done"}
Past == Live \ {"routed"}

Requests == [method: Methods, id: MaybeIds, initialize: BOOLEAN, body: RequestBodies]
Answers  == [ok: BOOLEAN, id: MaybeIds, sse: BOOLEAN, body: AnswerBodies]

Serving == [phase: HandlerPhases, req: Requests, ans: Answers, route: Routes,
            events: Nat, fate: Fates]

Stops == [phase: {"serving", "stopping", "closing", "finishing", "exited"}, signals: Nat,
          event: {"transport-close", "transport-abort"}, recorders: Nat, todo: SUBSET Nat]

\* Every index the router keeps names a session that has begun.
Indexed(r) ==
    /\ \A id \in Ids : r.byId[id] \in 0 .. Len(r.ids)
    /\ r.current \in 0 .. Len(r.ids)
    /\ r.unseen \in 0 .. Len(r.ids)

RoutesTo(r, hd, sent) ==
    \A h \in Handlers : hd[h].phase \in Live \/ h \in sent => hd[h].route.index \in 1 .. Len(r.ids)

Typed ==
    /\ setting \in Settings
    /\ router \in Routers /\ Indexed(router)
    /\ traces \in Seq(Trace)
    /\ Len(traces) = IF setting.perSession THEN Len(router.ids) ELSE 1
    /\ handler \in [Handlers -> Serving] /\ RoutesTo(router, handler, reached)
    /\ counters \in [CounterNames -> Nat]
    /\ stop \in Stops /\ stop.todo \subseteq 1 .. Len(traces) /\ stop.recorders <= Len(traces)
    /\ reached \subseteq Handlers /\ relayed \subseteq Handlers
    /\ before \subseteq relayed \X Handlers

\* On every tape, a message is behind its headers, and answers that were relayed
\* are ahead of the requests sent after.
Beside(tape) ==
    \A i \in 1 .. Len(tape) :
        tape[i].ev.body = "message" /\ tape[i].ev.part # "event" =>
            /\ i > 1
            /\ IsOf(tape[i].ev.of, tape[i - 1])
            /\ tape[i - 1].ev.body = "http"
            /\ tape[i - 1].ev.part = tape[i].ev.part

IsAnswer(g, line) ==
    IsOf(g, line) /\ line.ev.part = "answer" /\ line.ev.body # "transport-abort"

Ordered(tape, pairs) ==
    \A pair \in pairs : \A i, j \in 1 .. Len(tape) :
        IsAnswer(pair[1], tape[i]) /\ IsOf(pair[2], tape[j]) => i < j

Kept(r, pairs) == Held(r) /\ Beside(Tape(r)) /\ Ordered(Tape(r), pairs)

Heard(h, tape) == \E i \in 1 .. Len(tape) : IsOf(h, tape[i])

\* The trace of h, by what the handlers are doing.
TraceBy(hd, h) == IF setting.perSession THEN hd[h].route.index ELSE 1

\* A handler that has recorded nothing is on no tape; one that has, is on its
\* own, unless that is no longer clean; one whose answer was relayed has nothing
\* of it left to record.
Behaves(h, T, hd, sent, told) ==
    /\ hd[h].phase \in {"unused", "connected", "reading"} =>
          \A t \in 1 .. Len(T) : ~Heard(h, Tape(T[t]))
    /\ h \in told => hd[h].phase \in {"streaming", "done"}
    /\ h \in sent => hd[h].phase \in
          {"waiting", "answered", "ended", "responding", "cutting", "streaming", "done"}
    /\ (hd[h].phase \in Past \/ h \in sent) /\ Clean(T[TraceBy(hd, h)]) =>
          Heard(h, Tape(T[TraceBy(hd, h)]))

\* Only what the stop collected is closed, and that is sealed with its event.
Closing ==
    /\ \A t \in 1 .. Len(traces) : traces[t].closed =>
          /\ stop.phase \in {"closing", "finishing", "exited"} /\ t <= stop.recorders
          /\ stop.phase = "closing" => t \notin stop.todo
    /\ stop.phase = "closing" => stop.todo \subseteq 1 .. stop.recorders
    /\ \A t \in 1 .. stop.recorders :
          \/ stop.phase \in {"serving", "stopping"}
          \/ stop.phase = "closing" /\ t \in stop.todo
          \/ Sealed(traces[t], LifecycleEvent(C2S, stop.event))

PInv ==
    /\ Typed /\ Closing
    /\ \A t \in 1 .. Len(traces) : Kept(traces[t], before)
    /\ \A h \in Handlers : Behaves(h, traces, handler, reached, relayed)
    /\ \A pair \in before : pair[1] # pair[2]

-----------------------------------------------------------------------------
(* What a handler records. *)

OnlyOf(h, line) == IsOf(h, line) /\ \A g : IsOf(g, line) => g = h

Extended(tape, longer) ==
    Len(tape) <= Len(longer) /\ \A i \in 1 .. Len(tape) : longer[i] = tape[i]

\* h wrote to r, which is x now; `answers` says whether of its answer.
Writes(h, r, x, answers) ==
    /\ x \in Trace /\ x.closed = r.closed
    /\ Held(r) => Held(x)
    /\ x.dropped = 0 => r.dropped = 0
    /\ r.closed => Tape(x) = Tape(r)
    /\ Clean(x) => Clean(r) /\ Heard(h, Tape(x))
    /\ Extended(Tape(r), Tape(x))
    /\ \A i \in Len(Tape(r)) + 1 .. Len(Tape(x)) :
          OnlyOf(h, Tape(x)[i]) /\ (IsAnswer(h, Tape(x)[i]) => answers)
    /\ Beside(Tape(r)) => Beside(Tape(x))

LEMMA EventFacts ==
    ASSUME NEW h \in Handlers, handler \in [Handlers -> Serving],
           NEW part \in {"request", "answer", "event"}, NEW body \in Bodies,
           NEW e, e = Event(h, part, body)
    PROVE  /\ e \in Events /\ e.body = body /\ e.part = part /\ e.of = h
           /\ \A line : line.ev = e => OnlyOf(h, line)
<1>1. /\ handler[h].req.initialize \in BOOLEAN /\ handler[h].req.id \in Ids \union {NoId}
      /\ handler[h].ans.id \in Ids \union {NoId}
  BY DEF Serving, Requests, Answers, MaybeIds
<1>2. /\ (IF part = "request" THEN C2S ELSE S2C) \in Directions
      /\ (part = "request" /\ body = "message" /\ handler[h].req.initialize) \in BOOLEAN
      /\ (IF body # "http" THEN {}
          ELSE (IF part = "request" THEN {handler[h].req.id} ELSE {handler[h].ans.id}) \ {NoId})
             \in SUBSET Ids
  BY <1>1 DEF C2S, S2C, Directions
<1>3. e \in Told(h)
  BY <1>2 DEF Event, Told
<1>4. e \in Events
  BY <1>3 DEF Events
<1>5. e.body = body /\ e.part = part /\ e.of = h /\ "of" \in DOMAIN e
  BY DEF Event
<1> QED BY <1>4, <1>5 DEF OnlyOf, IsOf

\* One line behind a tape.
LEMMA Longer ==
    ASSUME NEW tape \in Seq(Lines), NEW line \in Lines, NEW x, x = Append(tape, line)
    PROVE  /\ Extended(tape, x) /\ Len(x) = Len(tape) + 1 /\ x[Len(tape) + 1] = line
           /\ Len(tape) \in Nat /\ Len(tape) + 1 .. Len(x) = {Len(tape) + 1}
           /\ 1 .. Len(x) = (1 .. Len(tape)) \union {Len(tape) + 1}
<1>1. /\ Len(x) = Len(tape) + 1 /\ x[Len(tape) + 1] = line /\ Len(tape) \in Nat
      /\ \A i \in 1 .. Len(tape) : x[i] = tape[i]
  BY AppendProperties, LenProperties
<1> DEFINE n == Len(tape)
<1> HIDE DEF n
<1>2. /\ n \in Nat => /\ n <= n + 1 /\ n + 1 .. n + 1 = {n + 1}
                      /\ 1 .. n + 1 = (1 .. n) \union {n + 1}
  OBVIOUS
<1> QED BY <1>1, <1>2 DEF n, Extended

\* A line that is not a message leaves every message behind its headers, and so
\* does a message behind its own.
LEMMA BesideAppend ==
    ASSUME NEW tape \in Seq(Lines), Beside(tape), NEW line \in Lines,
           \/ line.ev.body # "message" \/ line.ev.part = "event"
           \/ /\ Len(tape) > 0 /\ IsOf(line.ev.of, tape[Len(tape)])
              /\ tape[Len(tape)].ev.body = "http" /\ tape[Len(tape)].ev.part = line.ev.part
    PROVE  Beside(Append(tape, line))
<1> DEFINE x == Append(tape, line)
           n == Len(tape)
<1>1. /\ n \in Nat /\ Len(x) = n + 1 /\ x[n + 1] = line
      /\ \A i \in 1 .. n : x[i] = tape[i]
  BY Longer DEF Extended
<1> SUFFICES ASSUME NEW i \in 1 .. n + 1, x[i].ev.body = "message", x[i].ev.part # "event"
             PROVE  /\ i > 1 /\ IsOf(x[i].ev.of, x[i - 1])
                    /\ x[i - 1].ev.body = "http" /\ x[i - 1].ev.part = x[i].ev.part
  BY <1>1 DEF Beside
<1> HIDE DEF x, n
<1>2. CASE i = n + 1
  <2>1. n > 0 /\ i - 1 = n /\ x[n] = tape[n]
    BY <1>1, <1>2 DEF n
  <2> QED BY <1>1, <1>2, <2>1 DEF n
<1>3. CASE i \in 1 .. n
  <2>1. /\ i > 1 /\ IsOf(tape[i].ev.of, tape[i - 1])
        /\ tape[i - 1].ev.body = "http" /\ tape[i - 1].ev.part = tape[i].ev.part
    BY <1>1, <1>3 DEF Beside, n
  <2>2. i - 1 \in 1 .. n
    BY <1>1, <1>3, <2>1
  <2> QED BY <1>1, <1>3, <2>1, <2>2
<1> QED BY <1>1, <1>2, <1>3

LEMMA GivenWrites ==
    ASSUME NEW r \in Trace, NEW h \in Handlers, NEW e \in Events, NEW x, Given(r, x, e),
           \A line : line.ev = e => OnlyOf(h, line),
           e.body # "message" \/ e.part = "event",
           NEW answers \in BOOLEAN, answers = (e.part = "answer" /\ e.body # "transport-abort")
    PROVE  Writes(h, r, x, answers)
<1> DEFINE T == Tape(r)
           U == Tape(x)
<1>1. x \in Trace /\ x.closed = r.closed /\ (Held(r) => Held(x)) /\ (x.dropped = 0 => r.dropped = 0)
      /\ (Clean(x) => Clean(r)) /\ T \in Seq(Lines) /\ Len(T) \in Nat
  BY TapeType DEF Given
<1>2. CASE U = T /\ ~Clean(x)
  <2>1. Len(T) + 1 .. Len(U) = {}
    BY <1>1, <1>2
  <2> HIDE DEF T, U
  <2> QED BY <1>1, <1>2, <2>1 DEF Writes, Extended, T, U
<1>3. ASSUME ~r.closed, NEW line \in Lines, line.ev = e, U = Append(T, line)
      PROVE  Writes(h, r, x, answers)
  <2>1. /\ Extended(T, U) /\ Len(U) = Len(T) + 1 /\ U[Len(T) + 1] = line
        /\ Len(T) + 1 .. Len(U) = {Len(T) + 1} /\ Len(T) + 1 \in 1 .. Len(U)
    <3>1. /\ Extended(T, U) /\ Len(U) = Len(T) + 1 /\ U[Len(T) + 1] = line
          /\ Len(T) + 1 .. Len(U) = {Len(T) + 1} /\ 1 .. Len(U) = (1 .. Len(T)) \union {Len(T) + 1}
      BY <1>1, <1>3, Longer
    <3> QED BY <3>1
  <2>2. Beside(T) => Beside(U)
    BY <1>1, <1>3, BesideAppend
  <2>3. OnlyOf(h, line) /\ (IsAnswer(h, line) => answers)
    BY <1>3 DEF IsAnswer
  <2>4. Heard(h, U)
    BY <2>1, <2>3 DEF Heard, OnlyOf
  <2> HIDE DEF T, U
  <2> QED BY <1>1, <1>3, <2>1, <2>2, <2>3, <2>4 DEF Writes, T, U
<1> QED BY <1>1, <1>2, <1>3 DEF Given, Stuck

\* The http event and the message beside it: both, the first, or neither.
LEMMA PairWrites ==
    ASSUME NEW r \in Trace, NEW h \in Handlers, NEW e \in Events, NEW f \in Events,
           NEW m, Given(r, m, e), NEW x, Given(m, x, f),
           \A line : line.ev \in {e, f} => OnlyOf(h, line),
           e.body = "http", f.body = "message", e.part = f.part, f.of = h,
           NEW answers \in BOOLEAN, answers = (e.part = "answer")
    PROVE  Writes(h, r, x, answers)
<1> DEFINE T == Tape(r)
           V == Tape(m)
           U == Tape(x)
<1>1. /\ Writes(h, r, m, answers) /\ m \in Trace /\ x \in Trace /\ x.closed = m.closed
      /\ (Held(m) => Held(x)) /\ (x.dropped = 0 => m.dropped = 0) /\ (Clean(x) => Clean(m))
      /\ V \in Seq(Lines) /\ Len(V) \in Nat
  <2>1. /\ e.body # "message" /\ answers = (e.part = "answer" /\ e.body # "transport-abort")
        /\ \A line : line.ev = e => OnlyOf(h, line)
    OBVIOUS
  <2>2. Writes(h, r, m, answers)
    BY <2>1, GivenWrites
  <2> QED BY <2>2, TapeType DEF Given
<1>2. CASE U = V /\ ~Clean(x)
  <2> HIDE DEF T, U, V
  <2> QED BY <1>1, <1>2 DEF Writes, T, U, V
<1>3. ASSUME ~Stuck(m), NEW line \in Lines, line.ev = f, U = Append(V, line)
      PROVE  Writes(h, r, x, answers)
  <2>1. PICK head \in Lines : head.ev = e /\ V = Append(T, head)
    BY <1>3 DEF Given
  <2>2. T \in Seq(Lines) /\ Len(T) \in Nat /\ ~r.closed
    BY <1>1, <1>3, TapeType DEF Given, Stuck
  <2>3. /\ Extended(T, V) /\ Len(V) = Len(T) + 1 /\ V[Len(T) + 1] = head
    <3>1. T \in Seq(Lines) /\ head \in Lines /\ V = Append(T, head)
      BY <2>1, <2>2
    <3> HIDE DEF T, V
    <3> QED BY <3>1, Longer
  <2>4. /\ Extended(V, U) /\ Len(U) = Len(V) + 1 /\ U[Len(V) + 1] = line
    BY <1>1, <1>3, Longer
  <2>5. OnlyOf(h, line) /\ OnlyOf(h, head) /\ IsOf(h, head)
    BY <1>3, <2>1 DEF OnlyOf
  <2>6. Beside(T) => Beside(U)
    <3>1. Beside(T) => Beside(V)
      BY <2>1, <2>2, BesideAppend
    <3>2. Len(V) > 0 /\ IsOf(line.ev.of, V[Len(V)]) /\ V[Len(V)].ev.body = "http"
          /\ V[Len(V)].ev.part = line.ev.part
      BY <1>3, <2>1, <2>2, <2>3, <2>5
    <3> QED BY <1>1, <1>3, <3>1, <3>2, BesideAppend
  <2> DEFINE n == Len(T)
  <2> HIDE DEF T, U, V, n
  <2>7. /\ n \in Nat /\ Len(U) = n + 2 /\ U[n + 1] = head /\ U[n + 2] = line
        /\ \A i \in 1 .. n : U[i] = T[i]
    BY <2>2, <2>3, <2>4 DEF Extended, n
  <2>8. Extended(T, U) /\ \A i \in n + 1 .. Len(U) : U[i] \in {head, line}
    BY <2>7 DEF Extended, n
  <2>9. Heard(h, U)
    <3>1. n + 1 \in 1 .. Len(U)
      BY <2>7
    <3> QED BY <2>5, <2>7, <3>1 DEF Heard
  <2>10. \A i \in n + 1 .. Len(U) : OnlyOf(h, U[i]) /\ (IsAnswer(h, U[i]) => answers)
    BY <1>3, <2>1, <2>5, <2>8 DEF IsAnswer
  <2> QED BY <1>1, <2>2, <2>6, <2>8, <2>9, <2>10 DEF Writes, T, U, V, n
<1> QED BY <1>1, <1>2, <1>3 DEF Given

\* What a handler's line leaves true of a tape.
LEMMA WriteKeeps ==
    ASSUME NEW r \in Trace, NEW h \in Handlers, NEW x, NEW answers \in BOOLEAN,
           Writes(h, r, x, answers), NEW pairs, Kept(r, pairs),
           \A pair \in pairs : pair[1] # pair[2] /\ (answers => pair[1] # h)
    PROVE  Kept(x, pairs)
<1> DEFINE T == Tape(r)
           U == Tape(x)
<1>1. Held(x) /\ Beside(U) /\ Len(T) \in Nat /\ Len(U) \in Nat
  BY TapeType DEF Kept, Writes
<1>2. Ordered(U, pairs)
  <2> SUFFICES ASSUME NEW pair \in pairs, NEW i \in 1 .. Len(U), NEW j \in 1 .. Len(U),
                      IsAnswer(pair[1], U[i]), IsOf(pair[2], U[j])
               PROVE  i < j
    BY DEF Ordered
  <2>1. /\ Len(T) <= Len(U) /\ \A k \in 1 .. Len(T) : U[k] = T[k]
        /\ \A k \in Len(T) + 1 .. Len(U) : OnlyOf(h, U[k]) /\ (IsAnswer(h, U[k]) => answers)
    BY DEF Writes, Extended
  <2>2. i \in 1 .. Len(T)
    <3>1. CASE i \in Len(T) + 1 .. Len(U)
      <4>1. pair[1] = h /\ answers
        BY <2>1, <3>1 DEF IsAnswer, OnlyOf
      <4> QED BY <4>1
    <3> QED BY <1>1, <3>1
  <2>3. CASE j \in 1 .. Len(T)
    BY <2>1, <2>2, <2>3 DEF Kept, Ordered
  <2>4. CASE j \in Len(T) + 1 .. Len(U)
    BY <1>1, <2>2, <2>4
  <2> QED BY <1>1, <2>3, <2>4
<1> QED BY <1>1, <1>2 DEF Kept

\* The others are where they were on it, and a sealed trace stays as it is.
LEMMA WriteLeaves ==
    ASSUME NEW r \in Trace, NEW h \in Handlers, NEW x, NEW answers, Writes(h, r, x, answers)
    PROVE  /\ \A g : g # h => (Heard(g, Tape(x)) <=> Heard(g, Tape(r)))
           /\ Heard(h, Tape(r)) => Heard(h, Tape(x))
           /\ Clean(x) => Clean(r) /\ Heard(h, Tape(x))
           /\ x.closed = r.closed /\ \A e : Sealed(r, e) => Sealed(x, e)
<1> DEFINE T == Tape(r)
           U == Tape(x)
<1>1. Len(T) \in Nat /\ Len(U) \in Nat
  BY TapeType DEF Writes
<1>2. /\ Len(T) <= Len(U) /\ \A k \in 1 .. Len(T) : U[k] = T[k]
      /\ \A k \in Len(T) + 1 .. Len(U) : OnlyOf(h, U[k])
  BY DEF Writes, Extended
<1>3. 1 .. Len(U) = (1 .. Len(T)) \union (Len(T) + 1 .. Len(U))
  BY <1>1, <1>2
<1>4. \A g : g # h => (Heard(g, U) <=> Heard(g, T))
  BY <1>2, <1>3 DEF Heard, OnlyOf
<1>5. Heard(h, T) => Heard(h, U)
  BY <1>2, <1>3 DEF Heard
<1>6. \A e : Sealed(r, e) => Sealed(x, e)
  BY DEF Sealed, Writes
<1> QED BY <1>4, <1>5, <1>6 DEF Writes

\* h wrote to its trace, and nothing else is written.
Wrote(h, answers) ==
    LET t == TraceOf(h)
    IN  /\ traces' \in Seq(Trace) /\ Len(traces') = Len(traces)
        /\ t \in 1 .. Len(traces)
        /\ \A u \in 1 .. Len(traces) : u # t => traces'[u] = traces[u]
        /\ Writes(h, traces[t], traces'[t], answers)

LEMMA Types ==
    ASSUME Typed
    PROVE  /\ setting \in Setting /\ Len(traces) \in Nat /\ Len(router.ids) \in Nat
           /\ \A t \in 1 .. Len(traces) : traces[t] \in Trace
           /\ \A h \in Handlers : handler[h] \in Serving
           /\ \A h \in Handlers : handler[h].phase \in Live \/ h \in reached =>
                 TraceOf(h) \in 1 .. Len(traces)
           /\ \A h \in Handlers : TraceOf(h) = TraceBy(handler, h)
<1>1. setting \in Setting
  BY HttpProxyAssumption DEF Typed
<1>2. router.ids \in Seq(MaybeIds) /\ traces \in Seq(Trace)
  BY DEF Typed, Routers
<1>3. Len(traces) \in Nat /\ Len(router.ids) \in Nat /\ \A t \in 1 .. Len(traces) : traces[t] \in Trace
  BY <1>2, LenProperties, ElementOfSeq
<1>4. \A h \in Handlers : handler[h].phase \in Live \/ h \in reached =>
          TraceOf(h) \in 1 .. Len(traces)
  BY <1>3 DEF Typed, RoutesTo, TraceOf
<1>5. \A h \in Handlers : handler[h] \in Serving /\ TraceOf(h) = TraceBy(handler, h)
  BY DEF Typed, TraceOf, TraceBy
<1> QED BY <1>1, <1>3, <1>4, <1>5

\* One trace became r.
LEMMA TraceReplaced ==
    ASSUME Typed, NEW t \in 1 .. Len(traces), NEW r \in Trace, traces' = [traces EXCEPT ![t] = r]
    PROVE  /\ traces' \in Seq(Trace) /\ Len(traces') = Len(traces) /\ traces'[t] = r
           /\ \A u \in 1 .. Len(traces) : u # t => traces'[u] = traces[u]
<1>1. traces \in Seq(Trace)
  BY DEF Typed
<1> QED BY <1>1, ExceptSeq

LEMMA RecordInWrote ==
    ASSUME Typed, NEW h \in Handlers, handler[h].phase \in Live,
           NEW part \in {"request", "answer", "event"}, NEW body \in Bodies,
           body # "message" \/ part = "event", RecordIn(h, Event(h, part, body)),
           NEW answers \in BOOLEAN, answers = (part = "answer" /\ body # "transport-abort")
    PROVE  Wrote(h, answers)
<1> DEFINE e == Event(h, part, body)
           t == TraceOf(h)
           r == traces[t]
<1>1. t \in 1 .. Len(traces) /\ r \in Trace /\ handler \in [Handlers -> Serving]
  BY Types DEF Typed
<1>2. e \in Events /\ e.body = body /\ e.part = part /\ \A line : line.ev = e => OnlyOf(h, line)
  BY <1>1, EventFacts
<1>3. PICK w \in Write(r, e) : traces' = [traces EXCEPT ![t] = w.rec]
  BY DEF RecordIn, After, Record
<1> HIDE DEF e, t
<1>4. Given(r, w.rec, e) /\ w.rec \in Trace
  BY <1>1, <1>2, WriteGives DEF Given
<1> HIDE DEF r
<1>5. Writes(h, r, w.rec, answers)
  BY <1>1, <1>2, <1>4, GivenWrites
<1> QED BY <1>1, <1>3, <1>4, <1>5, TraceReplaced DEF Wrote, t, r

LEMMA RecordTogetherWrote ==
    ASSUME Typed, NEW h \in Handlers, handler[h].phase \in Live,
           NEW part \in {"request", "answer"}, NEW body, RecordTogether(h, part, body),
           NEW answers \in BOOLEAN, answers = (part = "answer")
    PROVE  Wrote(h, answers)
<1>1. CASE body # "message"
  <2>1. RecordIn(h, Event(h, part, "http"))
    BY <1>1 DEF RecordTogether
  <2>2. "http" \in Bodies /\ answers = (part = "answer" /\ "http" # "transport-abort")
    BY DEF Bodies
  <2> QED BY <2>1, <2>2, RecordInWrote
<1>2. CASE body = "message"
  <2> DEFINE e == Event(h, part, "http")
             f == Event(h, part, "message")
             t == TraceOf(h)
             r == traces[t]
  <2>1. t \in 1 .. Len(traces) /\ r \in Trace /\ handler \in [Handlers -> Serving]
    BY Types DEF Typed
  <2>2. "http" \in Bodies /\ "message" \in Bodies
    BY DEF Bodies
  <2>3. /\ e \in Events /\ e.body = "http" /\ e.part = part
        /\ f \in Events /\ f.body = "message" /\ f.part = part /\ f.of = h
        /\ \A line : line.ev \in {e, f} => OnlyOf(h, line)
    <3>1. /\ e \in Events /\ e.body = "http" /\ e.part = part
          /\ \A line : line.ev = e => OnlyOf(h, line)
      BY <2>1, <2>2, EventFacts
    <3>2. /\ f \in Events /\ f.body = "message" /\ f.part = part /\ f.of = h
          /\ \A line : line.ev = f => OnlyOf(h, line)
      BY <2>1, <2>2, EventFacts
    <3> QED BY <3>1, <3>2
  <2>4. PICK w \in RecordPair(r, e, f) : traces' = [traces EXCEPT ![t] = w.rec]
    BY <1>2 DEF RecordTogether, After
  <2>5. PICK a \in Write(r, e) : \E b \in Write(a.rec, f) :
             w = [outs |-> <<a.out, b.out>>, rec |-> b.rec]
    BY DEF RecordPair
  <2>b. PICK b \in Write(a.rec, f) : w = [outs |-> <<a.out, b.out>>, rec |-> b.rec]
    BY <2>5
  <2>6. w.rec = b.rec
    BY <2>b
  <2> HIDE DEF e, f, t
  <2>7. Given(r, a.rec, e)
    BY <2>1, <2>3, WriteGives
  <2>8. Given(a.rec, w.rec, f) /\ w.rec \in Trace
    <3>1. a.rec \in Trace
      BY <2>7 DEF Given
    <3>2. Given(a.rec, b.rec, f)
      BY <2>3, <3>1, WriteGives
    <3> QED BY <2>6, <3>2 DEF Given
  <2> HIDE DEF r
  <2>9. Writes(h, r, w.rec, answers)
    <3> DEFINE m == a.rec
               x == w.rec
    <3>1. Given(r, m, e) /\ Given(m, x, f) /\ r \in Trace
      BY <2>1, <2>7, <2>8
    <3>2. answers = (e.part = "answer") /\ e.part = f.part
      BY <2>3
    <3> HIDE DEF m, x
    <3>3. Writes(h, r, x, answers)
      BY <2>3, <3>1, <3>2, PairWrites
    <3> QED BY <3>3 DEF x
  <2> QED BY <2>1, <2>4, <2>8, <2>9, TraceReplaced DEF Wrote, t, r
<1> QED BY <1>1, <1>2

-----------------------------------------------------------------------------
(* The steps of a handler, by whether they write. *)

Moves(h) ==
    /\ setting' = setting /\ handler' \in [Handlers -> Serving]
    /\ \A g \in Handlers : g # h => handler'[g] = handler[g]
    /\ handler'[h].route = handler[h].route
    /\ counters' \in [CounterNames -> Nat]

LEMMA HandlerWrote ==
    ASSUME PInv, NEW h \in Handlers, handler[h].phase \in Live,
           NEW answers \in BOOLEAN, Wrote(h, answers), answers => h \notin relayed,
           Moves(h), handler'[h].phase \in Past \union {"done"},
           stop' = stop, before' = before, router' = router, reached' = reached,
           relayed' \in {relayed, relayed \union {h}},
           h \in relayed' => handler'[h].phase \in {"streaming", "done"},
           h \in reached => handler'[h].phase \in
               {"waiting", "answered", "ended", "responding", "cutting", "streaming", "done"}
    PROVE  PInv'
<1> DEFINE t == TraceOf(h)
           r == traces[t]
           x == traces'[t]
<1>1. /\ Typed /\ Closing /\ setting' = setting
      /\ t \in 1 .. Len(traces) /\ r \in Trace /\ Len(traces) \in Nat
      /\ traces' \in Seq(Trace) /\ Len(traces') = Len(traces)
      /\ \A u \in 1 .. Len(traces) : u # t => traces'[u] = traces[u]
      /\ Writes(h, r, x, answers)
  BY Types DEF PInv, Wrote, Moves
<1>2. /\ \A g : g # h => (Heard(g, Tape(x)) <=> Heard(g, Tape(r)))
      /\ Clean(x) => Clean(r) /\ Heard(h, Tape(x))
      /\ x.closed = r.closed /\ \A e : Sealed(r, e) => Sealed(x, e)
  BY <1>1, WriteLeaves
<1>3. Typed'
  <2>1. RoutesTo(router, handler', reached)
    BY <1>1 DEF RoutesTo, Typed, Moves, Past, Live
  <2> QED BY <1>1, <2>1 DEF Typed, Moves, RoutesTo, Indexed
<1>4. Closing'
  <2>1. \A u \in 1 .. Len(traces) : /\ traces'[u].closed = traces[u].closed
                                    /\ \A e : Sealed(traces[u], e) => Sealed(traces'[u], e)
    BY <1>1, <1>2
  <2>2. \A u \in 1 .. stop.recorders : u \in 1 .. Len(traces)
    BY <1>1 DEF Typed, Stops
  <2> HIDE DEF t, r, x
  <2> QED BY <1>1, <2>1, <2>2 DEF Closing
<1>5. \A u \in 1 .. Len(traces') : Kept(traces'[u], before')
  <2>1. \A pair \in before : pair[1] # pair[2] /\ (answers => pair[1] # h)
    BY <1>1 DEF PInv, Typed
  <2>2. Kept(x, before)
    <3>1. Kept(r, before)
      BY <1>1 DEF PInv
    <3> QED BY <1>1, <2>1, <3>1, WriteKeeps
  <2> QED BY <1>1, <2>2 DEF PInv
<1>6. ASSUME NEW g \in Handlers PROVE Behaves(g, traces, handler, reached, relayed)'
  <2>1. Behaves(g, traces, handler, reached, relayed)
    BY DEF PInv
  <2>2. CASE g # h
    <3>1. /\ handler'[g] = handler[g] /\ TraceBy(handler, g)' = TraceBy(handler, g)
          /\ g \in relayed' <=> g \in relayed
      BY <1>1, <2>2 DEF Moves, TraceBy
    <3>2. \A u \in 1 .. Len(traces) : /\ Heard(g, Tape(traces'[u])) <=> Heard(g, Tape(traces[u]))
                                      /\ Clean(traces'[u]) => Clean(traces[u])
      BY <1>1, <1>2, <2>2
    <3>3. handler[g].phase \in Past \/ g \in reached => TraceBy(handler, g) \in 1 .. Len(traces)
      BY <1>1, Types DEF Past
    <3> HIDE DEF t, r, x
    <3>4. reached' = reached /\ Len(traces') = Len(traces)
      BY <1>1
    <3>5. handler'[g].phase \in {"unused", "connected", "reading"} =>
              \A u \in 1 .. Len(traces') : ~Heard(g, Tape(traces'[u]))
      BY <2>1, <3>1, <3>2, <3>4 DEF Behaves
    <3>6. (handler'[g].phase \in Past \/ g \in reached')
              /\ Clean(traces'[TraceBy(handler, g)]) => Heard(g, Tape(traces'[TraceBy(handler, g)]))
      BY <2>1, <3>1, <3>2, <3>3, <3>4 DEF Behaves
    <3> QED BY <2>1, <3>1, <3>4, <3>5, <3>6 DEF Behaves
  <2>3. CASE g = h
    <3>1. TraceBy(handler, h)' = t /\ handler'[h].phase \notin {"unused", "connected", "reading"}
      BY <1>1 DEF Moves, TraceBy, TraceOf, Past, Live
    <3> HIDE DEF t, r
    <3> QED BY <1>1, <1>2, <2>3, <3>1 DEF Behaves, x
  <2> QED BY <2>2, <2>3
<1>7. \A pair \in before' : pair[1] # pair[2]
  BY DEF PInv
<1> QED BY <1>3, <1>4, <1>5, <1>6, <1>7 DEF PInv

LEMMA HandlerMoved ==
    ASSUME PInv, NEW h \in Handlers, Moves(h), traces' = traces, stop' = stop,
           before' = before, relayed' = relayed, reached' \in {reached, reached \union {h}},
           router' \in Routers, Indexed(router'), Len(router'.ids) = Len(router.ids),
           handler'[h].phase \in {"unused", "connected", "reading"} =>
               handler[h].phase \in {"unused", "connected", "reading"},
           handler'[h].phase \in Past \/ h \in reached' => handler[h].phase \in Past \/ h \in reached,
           h \in relayed => handler'[h].phase \in {"streaming", "done"},
           h \in reached' => handler'[h].phase \in
               {"waiting", "answered", "ended", "responding", "cutting", "streaming", "done"},
           handler'[h].phase # "routed"
    PROVE  PInv'
<1>1. Typed /\ Closing /\ setting' = setting
  BY DEF PInv, Moves
<1>2. Typed'
  <2>1. RoutesTo(router', handler', reached')
    BY <1>1 DEF RoutesTo, Typed, Moves, Past
  <2> QED BY <1>1, <2>1 DEF Typed, Moves, RoutesTo, Indexed
<1>3. Closing'
  BY <1>1 DEF Closing
<1>4. ASSUME NEW g \in Handlers PROVE Behaves(g, traces, handler, reached, relayed)'
  <2>1. Behaves(g, traces, handler, reached, relayed)
    BY DEF PInv
  <2>2. TraceBy(handler, g)' = TraceBy(handler, g)
    BY <1>1 DEF Moves, TraceBy
  <2>3. g # h => handler'[g] = handler[g]
    BY DEF Moves
  <2> QED BY <2>1, <2>2, <2>3 DEF Behaves
<1> QED BY <1>2, <1>3, <1>4 DEF PInv

-----------------------------------------------------------------------------
(* What a tape recounts of an exchange. *)

Sayings == {"request", "answer", "event"} \X Bodies

\* r takes no more, and one of its counters says what became of the rest.
Lost(r) == Stuck(r) /\ ~Clean(r) /\ (r.dropped = 0 => r.closed)

\* The tape of r tells the whole of s, or as much as it came to.
Recounted(h, r, s) ==
    /\ Recounts(h, Tape(r), s)
    /\ \/ Cardinality(Places(h, Tape(r))) = Len(s)
       \/ Cardinality(Places(h, Tape(r))) < Len(s) /\ Lost(r)

LEMMA PlacesFinite ==
    ASSUME NEW h, NEW tape \in Seq(Lines)
    PROVE  /\ IsFiniteSet(Places(h, tape)) /\ Cardinality(Places(h, tape)) \in Nat
           /\ \A i : /\ Rank(h, tape, i) \in Nat
                     /\ Rank(h, tape, i) <= Cardinality(Places(h, tape))
<1>1. Len(tape) \in Nat
  BY LenProperties
<1>2. IsFiniteSet(1 .. Len(tape))
  BY <1>1, FS_Interval
<1>3. Places(h, tape) \in SUBSET (1 .. Len(tape))
  BY DEF Places
<1>4. IsFiniteSet(Places(h, tape)) /\ Cardinality(Places(h, tape)) \in Nat
  BY <1>2, <1>3, FS_Subset, FS_CardinalityType
<1>5. ASSUME NEW i
      PROVE  Rank(h, tape, i) \in Nat /\ Rank(h, tape, i) <= Cardinality(Places(h, tape))
  <2> DEFINE P == Places(h, tape)
             Q == {j \in P : j <= i}
  <2>1. Q \in SUBSET P
    OBVIOUS
  <2> HIDE DEF P, Q
  <2>2. IsFiniteSet(Q) /\ Cardinality(Q) <= Cardinality(P)
    BY <1>4, <2>1, FS_Subset DEF P
  <2>3. Cardinality(Q) \in Nat
    BY <2>2, FS_CardinalityType
  <2> QED BY <2>2, <2>3 DEF P, Q, Rank
<1> QED BY <1>4, <1>5

\* A line that is not of h leaves its ranks as they are; one that is takes the
\* next.
Continues(h, tape, line, x) ==
    /\ ~IsOf(h, line) => Places(h, x) = Places(h, tape)
    /\ IsOf(h, line) =>
          /\ Places(h, x) = Places(h, tape) \union {Len(tape) + 1}
          /\ Cardinality(Places(h, x)) = Cardinality(Places(h, tape)) + 1
          /\ Rank(h, x, Len(tape) + 1) = Cardinality(Places(h, tape)) + 1
    /\ \A i \in Places(h, tape) : Rank(h, x, i) = Rank(h, tape, i) /\ x[i] = tape[i]

LEMMA AppendPlaces ==
    ASSUME NEW h, NEW tape \in Seq(Lines), NEW line \in Lines, NEW x, x = Append(tape, line)
    PROVE  Continues(h, tape, line, x)
<1> DEFINE n == Len(tape)
           P == Places(h, tape)
           Q == Places(h, x)
<1>1. /\ n \in Nat /\ Len(x) = n + 1 /\ x[n + 1] = line
      /\ \A i \in 1 .. n : x[i] = tape[i]
  BY Longer DEF Extended
<1>2. /\ P = {i \in 1 .. n : IsOf(h, tape[i])}
      /\ Q = {i \in 1 .. n + 1 : IsOf(h, x[i])}
  BY <1>1 DEF Places
<1>3. IsFiniteSet(P) /\ Cardinality(P) \in Nat
  BY PlacesFinite
<1> HIDE DEF n, P, Q
<1>4. ~IsOf(h, line) => Q = P
  BY <1>1, <1>2
<1>5. IsOf(h, line) => Q = P \union {n + 1}
  BY <1>1, <1>2
<1>6. n + 1 \notin P /\ \A i \in P : i \in 1 .. n
  BY <1>1, <1>2
<1>7. ASSUME NEW i \in P PROVE Rank(h, x, i) = Rank(h, tape, i) /\ x[i] = tape[i]
  <2>1. {j \in Q : j <= i} = {j \in P : j <= i}
    BY <1>1, <1>4, <1>5, <1>6
  <2> QED BY <1>1, <1>6, <2>1 DEF Rank, P, Q
<1>8. ASSUME IsOf(h, line)
      PROVE  /\ Cardinality(Q) = Cardinality(P) + 1
             /\ Rank(h, x, n + 1) = Cardinality(P) + 1
  <2>1. Cardinality(Q) = Cardinality(P) + 1
    BY <1>3, <1>5, <1>6, <1>8, FS_AddElement
  <2>2. {j \in Q : j <= n + 1} = Q
    BY <1>1, <1>2
  <2> QED BY <2>1, <2>2 DEF Rank, Q
<1> QED BY <1>4, <1>5, <1>7, <1>8 DEF P, Q, n, Continues

\* A line of h has a rank of at least one.
LEMMA RankPositive ==
    ASSUME NEW h, NEW tape \in Seq(Lines), NEW i \in Places(h, tape)
    PROVE  Rank(h, tape, i) \in Nat /\ Rank(h, tape, i) >= 1
<1> DEFINE R == {j \in Places(h, tape) : j <= i}
<1>1. i \in R
  <2>1. i \in Nat
    BY DEF Places
  <2> QED BY <2>1
<1>2. IsFiniteSet(R)
  <2>1. IsFiniteSet(Places(h, tape)) /\ R \in SUBSET Places(h, tape)
    BY PlacesFinite
  <2> HIDE DEF R
  <2> QED BY <2>1, FS_Subset
<1> HIDE DEF R
<1>3. Cardinality(R) # 0 /\ Cardinality(R) \in Nat
  BY <1>1, <1>2, FS_EmptySet, FS_CardinalityType
<1>4. Cardinality(R) >= 1
  BY <1>3
<1> QED BY <1>3, <1>4 DEF R, Rank

\* Who is given a line of h tells one thing more of h, or is lost.
Whole(h, tape, s) == Recounts(h, tape, s) /\ Cardinality(Places(h, tape)) = Len(s)

LEMMA RecountedMore ==
    ASSUME NEW h, NEW tape \in Seq(Lines), NEW line \in Lines, IsOf(h, line),
           NEW s \in Seq(Sayings), NEW a \in Sayings, a = Says(line),
           Whole(h, tape, s), NEW x, x = Append(tape, line), NEW z, z = Append(s, a)
    PROVE  Whole(h, x, z)
<1> DEFINE n == Len(tape) + 1
           m == Len(s)
<1>1. m \in Nat /\ Len(z) = m + 1 /\ z[m + 1] = a /\ \A k \in 1 .. m : z[k] = s[k]
  BY AppendProperties, LenProperties
<1>2. /\ Places(h, x) = Places(h, tape) \union {n}
      /\ Cardinality(Places(h, x)) = m + 1
      /\ Rank(h, x, n) = m + 1
      /\ \A i \in Places(h, tape) : Rank(h, x, i) = Rank(h, tape, i) /\ x[i] = tape[i]
  <2>1. Continues(h, tape, line, x)
    BY AppendPlaces
  <2> QED BY <2>1 DEF Continues, Whole
<1>3. x[n] = line
  BY Longer
<1> HIDE DEF m, n
<1>4. ASSUME NEW i \in Places(h, tape)
      PROVE  Rank(h, tape, i) \in 1 .. m /\ Says(tape[i]) = s[Rank(h, tape, i)]
  <2>1. Rank(h, tape, i) <= m /\ Says(tape[i]) = s[Rank(h, tape, i)]
    BY DEF Whole, Recounts, m
  <2>2. Rank(h, tape, i) \in Nat /\ Rank(h, tape, i) >= 1
    BY RankPositive
  <2> QED BY <1>1, <2>1, <2>2
<1>5. ASSUME NEW i \in Places(h, x)
      PROVE  Rank(h, x, i) <= Len(z) /\ Says(x[i]) = z[Rank(h, x, i)]
  <2>1. CASE i = n
    <3>1. Rank(h, x, i) = m + 1 /\ Says(x[i]) = a
      BY <1>2, <1>3, <2>1
    <3>2. m + 1 <= m + 1
      BY <1>1
    <3> QED BY <1>1, <3>1, <3>2
  <2>2. CASE i \in Places(h, tape)
    <3> DEFINE k == Rank(h, tape, i)
    <3>1. Rank(h, x, i) = k /\ x[i] = tape[i] /\ k \in 1 .. m /\ Says(tape[i]) = s[k]
      BY <1>2, <1>4, <2>2
    <3> HIDE DEF k
    <3>2. k <= m + 1 /\ z[k] = s[k]
      BY <1>1, <3>1
    <3> QED BY <1>1, <3>1, <3>2
  <2> QED BY <1>2, <2>1, <2>2
<1> QED BY <1>1, <1>2, <1>5 DEF Recounts, Whole

LEMMA GivenTells ==
    ASSUME NEW r \in Trace, NEW e \in Events, NEW x, Given(r, x, e), NEW h,
           \A line : line.ev = e => IsOf(h, line),
           NEW a \in Sayings, a = <<e.part, e.body>>,
           NEW s \in Seq(Sayings), Recounted(h, r, s)
    PROVE  Recounted(h, x, Append(s, a))
<1> DEFINE T == Tape(r)
           U == Tape(x)
           z == Append(s, a)
           m == Len(s)
<1>1. T \in Seq(Lines) /\ m \in Nat /\ Len(z) = m + 1 /\ \A k \in 1 .. m : z[k] = s[k]
  BY TapeType, AppendProperties, LenProperties
<1>z. z = Append(s, a)
  OBVIOUS
<1> HIDE DEF m, z
<1>2. CASE U = T /\ Lost(x)
  <2> HIDE DEF T, U
  <2>1. Cardinality(Places(h, T)) \in Nat /\ \A i : Rank(h, T, i) \in Nat
    BY <1>1, PlacesFinite
  <2>2. Cardinality(Places(h, T)) <= m
    BY <1>1, <2>1 DEF Recounted, T, m
  <2>3. Cardinality(Places(h, T)) < Len(z)
    BY <1>1, <2>1, <2>2
  <2>4. Recounts(h, T, z)
    <3> SUFFICES ASSUME NEW i \in Places(h, T)
                 PROVE  Rank(h, T, i) <= Len(z) /\ Says(T[i]) = z[Rank(h, T, i)]
      BY DEF Recounts
    <3> DEFINE k == Rank(h, T, i)
    <3>1. k <= m /\ Says(T[i]) = s[k]
      BY DEF Recounted, Recounts, T, m
    <3>2. k \in Nat /\ k >= 1
      BY <1>1, RankPositive
    <3> HIDE DEF k
    <3>3. k \in 1 .. m /\ k <= m + 1
      BY <1>1, <3>1, <3>2
    <3>4. k <= Len(z) /\ Says(T[i]) = z[k]
      BY <1>1, <3>1, <3>3
    <3> QED BY <3>4 DEF k
  <2> QED BY <1>2, <2>3, <2>4 DEF Recounted, T, U, z
<1>3. ASSUME ~Stuck(r), NEW line \in Lines, line.ev = e, U = Append(T, line)
      PROVE  Recounted(h, x, z)
  <2>1. IsOf(h, line) /\ a = Says(line)
    BY <1>3 DEF Says
  <2>2. Whole(h, T, s)
    BY <1>3 DEF Recounted, Lost, Whole
  <2> HIDE DEF T, U
  <2>3. Whole(h, U, z)
    BY <1>1, <1>3, <1>z, <2>1, <2>2, RecountedMore
  <2> QED BY <2>3 DEF Recounted, Whole, U
<1> QED BY <1>2, <1>3 DEF Given, Lost, z

\* An event that is not of h leaves what is told of it.
LEMMA GivenLeaves ==
    ASSUME NEW r \in Trace, NEW e \in Events, NEW x, Given(r, x, e), NEW h,
           \A line : line.ev = e => ~IsOf(h, line), NEW s, Recounted(h, r, s)
    PROVE  Recounted(h, x, s)
<1> DEFINE T == Tape(r)
           U == Tape(x)
<1>1. T \in Seq(Lines)
  BY TapeType
<1>2. CASE U = T /\ Lost(x)
  BY <1>2 DEF Recounted
<1>3. ASSUME ~Stuck(r), NEW line \in Lines, line.ev = e, U = Append(T, line)
      PROVE  Recounted(h, x, s)
  <2>1. /\ Places(h, U) = Places(h, T)
        /\ \A i \in Places(h, T) : Rank(h, U, i) = Rank(h, T, i) /\ U[i] = T[i]
    <3>1. Continues(h, T, line, U) /\ ~IsOf(h, line)
      BY <1>1, <1>3, AppendPlaces
    <3> QED BY <3>1 DEF Continues
  <2>2. Recounts(h, T, s) /\ Cardinality(Places(h, T)) = Len(s)
    BY <1>3 DEF Recounted, Lost
  <2>3. Recounts(h, U, s)
    BY <2>1, <2>2 DEF Recounts
  <2> QED BY <2>1, <2>2, <2>3 DEF Recounted
<1> QED BY <1>2, <1>3 DEF Given, Lost

-----------------------------------------------------------------------------
(* What a handler has told so far: the invariant behind StoryIsTold. *)

\* The exchange may be on a tape; and it is followed to its end.
Placed(e) == e.phase \in Live \/ (e.phase = "done" /\ e.fate # "refused")
Followed(e) == Placed(e) /\ ~(e.phase = "done" /\ e.fate = "left")

Said(e) ==
    CASE e.phase = "routed"                   -> <<>>
      [] e.phase \in {"cutting", "streaming"} -> Asked(e) \o Answered(e)
      [] e.phase = "done"                     -> Story(e)
      [] OTHER                                -> Asked(e)

Shaped(e) ==
    /\ e.phase = "streaming" => e.ans.sse
    /\ e.phase = "cutting" => ~e.ans.sse
    /\ e.phase \notin {"streaming", "done"} => e.events = 0

\* h is on no tape but its own, which has all it told unless a line was lost.
Tells(h) ==
    /\ \A u \in 1 .. Len(traces) : Heard(h, Tape(traces[u])) => Placed(handler[h]) /\ u = TraceOf(h)
    /\ Shaped(handler[h])
    /\ Followed(handler[h]) =>
          /\ TraceOf(h) \in 1 .. Len(traces)
          /\ Lapsed(TraceOf(h)) \/ Recounted(h, traces[TraceOf(h)], Said(handler[h]))

TInv == \A h \in Handlers : Tells(h)

\* The trace of h was given s to tell of h, and nothing of another.
Recites(h, s) ==
    LET r == traces[TraceOf(h)]
        x == traces'[TraceOf(h)]
    IN  /\ \A z \in Seq(Sayings) : Recounted(h, r, z) => Recounted(h, x, z \o s)
        /\ \A g : g # h => \A z : Recounted(g, r, z) => Recounted(g, x, z)

LEMMA MessageType ==
    ASSUME NEW part \in {"request", "answer", "event"}, NEW body
    PROVE  /\ <<part, "http">> \in Sayings /\ <<part, "message">> \in Sayings
           /\ <<part, "transport-abort">> \in Sayings
           /\ WithMessage(part, body) \in Seq(Sayings)
           /\ body # "message" => WithMessage(part, body) = <<<<part, "http">>>>
           /\ body = "message" => WithMessage(part, body) = <<<<part, "http">>>> \o <<<<part, "message">>>>
<1>1. /\ <<part, "http">> \in Sayings /\ <<part, "message">> \in Sayings
      /\ <<part, "transport-abort">> \in Sayings
  BY DEF Sayings, Bodies
<1> DEFINE a == <<part, "http">>
           b == <<part, "message">>
<1>2. a \in Sayings /\ b \in Sayings
  BY <1>1
<1>3. WithMessage(part, body) = <<a>> \o (IF body = "message" THEN <<b>> ELSE <<>>)
  BY DEF WithMessage
<1> HIDE DEF a, b
<1>4. <<a>> \in Seq(Sayings) /\ <<b>> \in Seq(Sayings) /\ <<>> \in Seq(Sayings)
  BY <1>2
<1>5. /\ <<a>> \o <<b>> \in Seq(Sayings) /\ <<a>> \o <<>> = <<a>>
  BY <1>4, ConcatProperties, ConcatEmptySeq
<1> QED BY <1>1, <1>3, <1>4, <1>5 DEF a, b

\* What is told is a sequence of sayings.
LEMMA SaidType ==
    ASSUME NEW e \in Serving
    PROVE  /\ Asked(e) \in Seq(Sayings) /\ Answered(e) \in Seq(Sayings)
           /\ Asked(e) \o Answered(e) \in Seq(Sayings)
           /\ Said(e) \in Seq(Sayings) /\ Story(e) \in Seq(Sayings)
<1>1. Asked(e) \in Seq(Sayings)
  BY MessageType DEF Asked
<1>2. Answered(e) \in Seq(Sayings)
  <2> DEFINE a == <<"answer", "http">>
             b == <<"event", "message">>
             f == [i \in 1 .. e.events |-> b]
  <2>1. a \in Sayings /\ b \in Sayings /\ WithMessage("answer", e.ans.body) \in Seq(Sayings)
    BY MessageType
  <2>2. e.events \in Nat
    BY DEF Serving
  <2>3. Answered(e) = IF e.ans.sse THEN <<a>> \o f ELSE WithMessage("answer", e.ans.body)
    BY DEF Answered
  <2>4. f \in Seq(Sayings) /\ <<a>> \in Seq(Sayings)
    <3> HIDE DEF a, b
    <3> QED BY <2>1, <2>2
  <2> HIDE DEF a, f
  <2>5. <<a>> \o f \in Seq(Sayings)
    BY <2>4, ConcatProperties
  <2> QED BY <2>1, <2>3, <2>5
<1> DEFINE s == Asked(e)
           w == Answered(e)
<1>3. s \in Seq(Sayings) /\ w \in Seq(Sayings)
  BY <1>1, <1>2
<1> HIDE DEF s, w
<1>4. s \o w \in Seq(Sayings)
  BY <1>3, ConcatProperties
<1>5. \A a \in Sayings : s \o <<a>> \in Seq(Sayings) /\ (s \o w) \o <<a>> \in Seq(Sayings)
  <2> TAKE a \in Sayings
  <2>1. <<a>> \in Seq(Sayings)
    OBVIOUS
  <2> QED BY <1>3, <1>4, <2>1, ConcatProperties
<1>6. /\ <<"request", "transport-abort">> \in Sayings
      /\ <<"answer", "transport-abort">> \in Sayings
  BY MessageType
<1>7. Story(e) \in Seq(Sayings)
  <2>1. Story(e) \in {s \o <<<<"request", "transport-abort">>>>, s \o <<<<"answer", "transport-abort">>>>,
                      (s \o w) \o <<<<"answer", "transport-abort">>>>, s \o w}
    BY DEF Story, s, w
  <2> QED BY <1>4, <1>5, <1>6, <2>1
<1>8. Said(e) \in {<<>>, s \o w, Story(e), s} /\ <<>> \in Seq(Sayings)
  BY DEF Said, s, w
<1> QED BY <1>3, <1>4, <1>7, <1>8 DEF s, w

LEMMA RecordInTells ==
    ASSUME Typed, NEW h \in Handlers, handler[h].phase \in Live,
           NEW part \in {"request", "answer", "event"}, NEW body \in Bodies,
           RecordIn(h, Event(h, part, body))
    PROVE  Recites(h, <<<<part, body>>>>)
<1> DEFINE e == Event(h, part, body)
           t == TraceOf(h)
           r == traces[t]
           a == <<part, body>>
<1>1. t \in 1 .. Len(traces) /\ r \in Trace /\ handler \in [Handlers -> Serving]
  BY Types DEF Typed
<1>2. e \in Events /\ e.body = body /\ e.part = part /\ \A line : line.ev = e => OnlyOf(h, line)
  BY <1>1, EventFacts
<1>3. PICK w \in Write(r, e) : traces' = [traces EXCEPT ![t] = w.rec]
  BY DEF RecordIn, After, Record
<1>4. a \in Sayings
  BY DEF Sayings
<1> HIDE DEF e, t
<1>5. Given(r, w.rec, e) /\ w.rec \in Trace
  BY <1>1, <1>2, WriteGives DEF Given
<1>6. traces'[t] = w.rec
  BY <1>1, <1>3, <1>5, TraceReplaced
<1> DEFINE x == w.rec
<1> HIDE DEF r, x
<1>7. ASSUME NEW z \in Seq(Sayings), Recounted(h, r, z) PROVE Recounted(h, x, z \o <<a>>)
  <2> DEFINE y == Append(z, a)
  <2>1. y = z \o <<a>>
    BY <1>4, AppendIsConcat
  <2>2. (\A line : line.ev = e => IsOf(h, line)) /\ a = <<e.part, e.body>> /\ Given(r, x, e)
        /\ y = Append(z, a) /\ e \in Events
    BY <1>2, <1>5 DEF OnlyOf, x
  <2> HIDE DEF a, y
  <2>3. Recounted(h, x, y)
    <3>1. Recounted(h, x, Append(z, a))
      BY <1>1, <1>4, <1>7, <2>2, GivenTells
    <3> QED BY <2>2, <3>1
  <2> QED BY <2>1, <2>3
<1>8. ASSUME NEW g, g # h, NEW z, Recounted(g, r, z) PROVE Recounted(g, x, z)
  <2>1. (\A line : line.ev = e => ~IsOf(g, line)) /\ Given(r, x, e)
    BY <1>2, <1>5, <1>8 DEF OnlyOf, x
  <2> QED BY <1>1, <1>2, <1>8, <2>1, GivenLeaves
<1> QED BY <1>6, <1>7, <1>8 DEF Recites, x, r, t

LEMMA RecordTogetherTells ==
    ASSUME Typed, NEW h \in Handlers, handler[h].phase \in Live,
           NEW part \in {"request", "answer"}, NEW body, RecordTogether(h, part, body)
    PROVE  Recites(h, WithMessage(part, body))
<1>1. CASE body # "message"
  <2>1. RecordIn(h, Event(h, part, "http")) /\ "http" \in Bodies
    BY <1>1 DEF RecordTogether, Bodies
  <2>2. WithMessage(part, body) = <<<<part, "http">>>>
    BY <1>1, MessageType
  <2> QED BY <2>1, <2>2, RecordInTells
<1>2. CASE body = "message"
  <2> DEFINE e == Event(h, part, "http")
             f == Event(h, part, "message")
             t == TraceOf(h)
             r == traces[t]
             a == <<part, "http">>
             b == <<part, "message">>
  <2>1. t \in 1 .. Len(traces) /\ r \in Trace /\ handler \in [Handlers -> Serving]
    BY Types DEF Typed
  <2>2. "http" \in Bodies /\ "message" \in Bodies
    BY DEF Bodies
  <2>3. /\ e \in Events /\ a = <<e.part, e.body>> /\ \A line : line.ev = e => OnlyOf(h, line)
        /\ f \in Events /\ b = <<f.part, f.body>> /\ \A line : line.ev = f => OnlyOf(h, line)
    <3>1. e \in Events /\ e.body = "http" /\ e.part = part /\ \A line : line.ev = e => OnlyOf(h, line)
      BY <2>1, <2>2, EventFacts
    <3>2. f \in Events /\ f.body = "message" /\ f.part = part /\ \A line : line.ev = f => OnlyOf(h, line)
      BY <2>1, <2>2, EventFacts
    <3> QED BY <3>1, <3>2
  <2>4. PICK w \in RecordPair(r, e, f) : traces' = [traces EXCEPT ![t] = w.rec]
    BY <1>2 DEF RecordTogether, After
  <2>5. PICK c \in Write(r, e) : \E d \in Write(c.rec, f) :
             w = [outs |-> <<c.out, d.out>>, rec |-> d.rec]
    BY DEF RecordPair
  <2>d. PICK d \in Write(c.rec, f) : w = [outs |-> <<c.out, d.out>>, rec |-> d.rec]
    BY <2>5
  <2>6. w.rec = d.rec
    BY <2>d
  <2>s. a \in Sayings /\ b \in Sayings /\ WithMessage(part, body) = <<a>> \o <<b>>
    BY <1>2, MessageType
  <2> HIDE DEF e, f, t, a, b
  <2> DEFINE m == c.rec
             x == d.rec
  <2>7. Given(r, m, e) /\ m \in Trace
    BY <2>1, <2>3, WriteGives DEF Given
  <2>8. Given(m, x, f) /\ x \in Trace
    BY <2>3, <2>7, WriteGives DEF Given
  <2>9. traces'[t] = x
    BY <2>1, <2>4, <2>6, <2>8, TraceReplaced
  <2> HIDE DEF r, m, x
  <2>10. ASSUME NEW z \in Seq(Sayings), Recounted(h, r, z) PROVE Recounted(h, x, z \o (<<a>> \o <<b>>))
    <3> DEFINE y == Append(z, a)
               v == Append(y, b)
    <3>1. y \in Seq(Sayings) /\ y = z \o <<a>>
      BY <2>s, AppendProperties, AppendIsConcat
    <3>2. v = y \o <<b>>
      BY <2>s, <3>1, AppendIsConcat
    <3>3. v = z \o (<<a>> \o <<b>>)
      <4>1. <<a>> \in Seq(Sayings) /\ <<b>> \in Seq(Sayings)
        BY <2>s
      <4> QED BY <3>1, <3>2, <4>1, ConcatAssociative
    <3>4. Recounted(h, m, y)
      <4>1. \A line : line.ev = e => IsOf(h, line)
        BY <2>3 DEF OnlyOf
      <4> QED BY <2>1, <2>3, <2>7, <2>s, <2>10, <4>1, GivenTells
    <3> HIDE DEF y
    <3>5. Recounted(h, x, v)
      <4>1. /\ \A line : line.ev = f => IsOf(h, line)
            /\ f \in Events /\ b = <<f.part, f.body>> /\ b \in Sayings
        BY <2>3, <2>s DEF OnlyOf
      <4>2. m \in Trace /\ Given(m, x, f) /\ y \in Seq(Sayings) /\ v = Append(y, b)
        BY <2>7, <2>8, <3>1
      <4> HIDE DEF v
      <4>3. Recounted(h, x, Append(y, b))
        BY <3>4, <4>1, <4>2, GivenTells
      <4> QED BY <4>2, <4>3
    <3> QED BY <3>3, <3>5
  <2>11. ASSUME NEW g, g # h, NEW z, Recounted(g, r, z) PROVE Recounted(g, x, z)
    <3>1. /\ \A line : line.ev = e => ~IsOf(g, line)
          /\ \A line : line.ev = f => ~IsOf(g, line)
      BY <2>3, <2>11 DEF OnlyOf
    <3>2. Recounted(g, m, z)
      BY <2>1, <2>3, <2>7, <2>11, <3>1, GivenLeaves
    <3> QED BY <2>3, <2>7, <2>8, <3>1, <3>2, GivenLeaves
  <2> QED BY <2>9, <2>10, <2>11, <2>s DEF Recites, r, t
<1> QED BY <1>1, <1>2

LEMMA NothingToTell ==
    ASSUME NEW h, NEW r, ~Heard(h, Tape(r))
    PROVE  Places(h, Tape(r)) = {} /\ Recounted(h, r, <<>>)
<1>1. Places(h, Tape(r)) = {}
  BY DEF Heard, Places
<1>2. Cardinality({}) = 0 /\ Len(<<>>) = 0
  BY FS_EmptySet
<1> QED BY <1>1, <1>2 DEF Recounted, Recounts

\* h told s more, and did nothing else that is told of.
LEMMA HandlerTold ==
    ASSUME PInv, TInv, NEW h \in Handlers, handler[h].phase \in Live,
           NEW answers, Wrote(h, answers), NEW s, Recites(h, s),
           Moves(h), stop' = stop, Shaped(handler'[h]), Placed(handler'[h]),
           Said(handler'[h]) = Said(handler[h]) \o s
    PROVE  TInv'
<1>t. PICK t \in 1 .. Len(traces) : t = TraceOf(h)
  BY DEF Wrote
<1> DEFINE r == traces[t]
           x == traces'[t]
<1>1. /\ Typed /\ setting' = setting /\ handler[h] \in Serving
      /\ t \in 1 .. Len(traces) /\ r \in Trace /\ Len(traces) \in Nat
      /\ traces' \in Seq(Trace) /\ Len(traces') = Len(traces)
      /\ \A u \in 1 .. Len(traces) : u # t => traces'[u] = traces[u]
      /\ Writes(h, r, x, answers)
  BY <1>t, Types DEF PInv, Wrote, Moves
<1>2. /\ \A g : g # h => (Heard(g, Tape(x)) <=> Heard(g, Tape(r)))
      /\ x \in Trace /\ (x.dropped = 0 => r.dropped = 0) /\ x.dropped \in Nat /\ r.dropped \in Nat
  <2>1. \A g : g # h => (Heard(g, Tape(x)) <=> Heard(g, Tape(r)))
    BY <1>1, WriteLeaves
  <2>2. x \in Trace /\ (x.dropped = 0 => r.dropped = 0)
    BY <1>1 DEF Writes
  <2> HIDE DEF x, r
  <2> QED BY <1>1, <2>1, <2>2, Fields
<1>3. ASSUME NEW u \in 1 .. Len(traces), Lapsed(u) PROVE Lapsed(u)'
  <2>1. CASE u = t
    <3>1. r.dropped > 0 => x.dropped > 0
      BY <1>2
    <3> QED BY <1>3, <2>1, <3>1 DEF Lapsed
  <2>2. CASE u # t
    BY <1>1, <1>3, <2>2 DEF Lapsed
  <2> QED BY <2>1, <2>2
<1>4. \A u \in 1 .. Len(traces) : Lapsed(u) => Lapsed(u)'
  BY <1>3
<1>5. ASSUME NEW g \in Handlers, g # h PROVE Tells(g)'
  <2>v. PICK v : v = TraceOf(g)
    OBVIOUS
  <2>1. Tells(g) /\ handler'[g] = handler[g] /\ TraceOf(g)' = v
    BY <1>1, <1>5, <2>v DEF TInv, Moves, TraceOf
  <2>2. \A u \in 1 .. Len(traces) : Heard(g, Tape(traces'[u])) <=> Heard(g, Tape(traces[u]))
    BY <1>1, <1>2, <1>5
  <2>3. \A z : v \in 1 .. Len(traces) /\ Recounted(g, traces[v], z) => Recounted(g, traces'[v], z)
    BY <1>1, <1>t, <1>5 DEF Recites
  <2> HIDE DEF r, x
  <2>4. Followed(handler[g]) =>
            v \in 1 .. Len(traces) /\ (Lapsed(v)' \/ Recounted(g, traces'[v], Said(handler[g])))
    BY <1>4, <2>1, <2>3, <2>v DEF Tells
  <2> QED BY <1>1, <2>1, <2>2, <2>4, <2>v DEF Tells
<1>6. Tells(h)'
  <2>1. Tells(h) /\ TraceOf(h)' = t
    BY <1>1, <1>t DEF TInv, Moves, TraceOf
  <2>2. Followed(handler[h]) /\ Said(handler[h]) \in Seq(Sayings)
    BY <1>1, SaidType DEF Followed, Placed, Live
  <2>3. Lapsed(t)' \/ Recounted(h, traces'[t], Said(handler'[h]))
    BY <1>1, <1>4, <1>t, <2>1, <2>2 DEF Tells, Recites
  <2>4. \A u \in 1 .. Len(traces) : Heard(h, Tape(traces'[u])) => u = t
    BY <1>1, <1>t, <2>1 DEF Tells
  <2>5. t \in 1 .. Len(traces')
    BY <1>1
  <2> HIDE DEF x, r
  <2>6. (\A u \in 1 .. Len(traces) :
            Heard(h, Tape(traces[u])) => Placed(handler[h]) /\ u = TraceOf(h))'
    BY <1>1, <2>1, <2>4
  <2>7. (Followed(handler[h]) =>
            /\ TraceOf(h) \in 1 .. Len(traces)
            /\ Lapsed(TraceOf(h)) \/ Recounted(h, traces[TraceOf(h)], Said(handler[h])))'
    <3>1. Lapsed(TraceOf(h))' <=> Lapsed(t)'
      BY <2>1 DEF Lapsed
    <3> QED BY <2>1, <2>3, <2>5, <3>1
  <2> QED BY <2>6, <2>7 DEF Tells
<1> QED BY <1>5, <1>6 DEF TInv

\* h wrote nothing.
LEMMA HandlerSilent ==
    ASSUME PInv, TInv, NEW h \in Handlers, Moves(h), traces' = traces, stop' = stop,
           Shaped(handler'[h]), Placed(handler[h]) => Placed(handler'[h]),
           Followed(handler'[h]) => Followed(handler[h]) /\ Said(handler'[h]) = Said(handler[h])
    PROVE  TInv'
<1>1. /\ \A g \in Handlers : TraceOf(g)' = TraceOf(g) /\ Tells(g)
      /\ \A u : Lapsed(u)' <=> Lapsed(u)
  BY DEF TInv, Moves, TraceOf, Lapsed
<1>2. ASSUME NEW g \in Handlers, g # h PROVE Tells(g)'
  BY <1>1, <1>2 DEF Tells, Moves
<1>3. Tells(h)'
  BY <1>1 DEF Tells
<1> QED BY <1>2, <1>3 DEF TInv

-----------------------------------------------------------------------------
(* Each action of a handler keeps the invariant. *)

LEMMA Going ==
    ASSUME Typed, NEW h \in Handlers, NEW p \in HandlerPhases, Goto(h, p)
    PROVE  /\ handler' \in [Handlers -> Serving] /\ \A g \in Handlers : g # h => handler'[g] = handler[g]
           /\ handler'[h].phase = p /\ handler'[h].route = handler[h].route
           /\ handler'[h].req = handler[h].req /\ handler'[h].ans = handler[h].ans
           /\ handler'[h].events = handler[h].events
  BY DEF Typed, Goto, Serving

LEMMA Finishing ==
    ASSUME Typed, NEW h \in Handlers, NEW fate \in Fates, Done(h, fate)
    PROVE  /\ handler' \in [Handlers -> Serving] /\ \A g \in Handlers : g # h => handler'[g] = handler[g]
           /\ handler'[h].phase = "done" /\ handler'[h].route = handler[h].route
           /\ handler'[h].fate = fate /\ handler'[h].req = handler[h].req
           /\ handler'[h].ans = handler[h].ans /\ handler'[h].events = handler[h].events
<1>1. handler \in [Handlers -> Serving] /\ handler[h] \in Serving
  BY DEF Typed
<1> DEFINE s == [handler[h] EXCEPT !.phase = "done", !.fate = fate]
<1>2. /\ s \in Serving /\ s.phase = "done" /\ s.route = handler[h].route
      /\ s.fate = fate /\ s.req = handler[h].req
      /\ s.ans = handler[h].ans /\ s.events = handler[h].events
  BY <1>1 DEF Serving, HandlerPhases
<1>3. handler' = [handler EXCEPT ![h] = s]
  BY <1>1 DEF Done
<1> HIDE DEF s
<1> QED BY <1>1, <1>2, <1>3

\* The same request, answered alike: what is told of it is the same.
Alike(e, f) == e.req = f.req /\ e.ans = f.ans /\ e.events = f.events

LEMMA SameExchange ==
    ASSUME NEW e, NEW f, Alike(e, f)
    PROVE  Asked(e) = Asked(f) /\ Answered(e) = Answered(f)
  BY DEF Alike, Asked, Answered

\* One more event of the stream.
LEMMA OneMoreEvent ==
    ASSUME NEW e \in Serving, NEW f \in Serving, e.ans.sse, f.ans.sse, f.events = e.events + 1
    PROVE  Answered(f) = Answered(e) \o <<<<"event", "message">>>>
<1> DEFINE a == <<"answer", "http">>
           b == <<"event", "message">>
           n == e.events
           s == [i \in 1 .. n |-> b]
           t == [i \in 1 .. n + 1 |-> b]
<1>1. a \in Sayings /\ b \in Sayings /\ n \in Nat
  BY MessageType DEF Serving
<1>2. Answered(e) = <<a>> \o s /\ Answered(f) = <<a>> \o t
  BY DEF Answered
<1> HIDE DEF a, b, n
<1>3. s \in Seq(Sayings) /\ t \in Seq(Sayings) /\ Len(s) = n /\ Len(t) = n + 1
      /\ <<a>> \in Seq(Sayings) /\ <<b>> \in Seq(Sayings)
  BY <1>1
<1>4. t = Append(s, b)
  BY <1>1, <1>3
<1> HIDE DEF s, t
<1>5. t = s \o <<b>>
  BY <1>1, <1>3, <1>4, AppendIsConcat
<1>6. <<a>> \o (s \o <<b>>) = (<<a>> \o s) \o <<b>>
  BY <1>3, ConcatAssociative
<1> QED BY <1>2, <1>5, <1>6 DEF b

LEMMA ToldFacts ==
    ASSUME TInv, NEW h \in Handlers
    PROVE  Shaped(handler[h])
  BY DEF TInv, Tells

LEMMA Counting ==
    ASSUME Typed
    PROVE  /\ \A name \in CounterNames : Count(name) => counters' \in [CounterNames -> Nat]
           /\ counters' = counters => counters' \in [CounterNames -> Nat]
           /\ \A name \in CounterNames : \A c \in BOOLEAN :
                 CountIf(c, name) => counters' \in [CounterNames -> Nat]
  BY DEF Typed, Count, CountIf

\* What the invariant says of a handler.
LEMMA HandlerFacts ==
    ASSUME PInv, NEW h \in Handlers
    PROVE  /\ Typed /\ handler[h] \in Serving /\ handler[h].phase \in HandlerPhases
           /\ h \in relayed => handler[h].phase \in {"streaming", "done"}
           /\ h \in reached => handler[h].phase \in
                 {"waiting", "answered", "ended", "responding", "cutting", "streaming", "done"}
  BY DEF PInv, Behaves, Typed, Serving

LEMMA RecordRequestKeeps ==
    ASSUME PInv, TInv, NEW h \in Handlers, RecordRequest(h)
    PROVE  PInv' /\ TInv'
<1> DEFINE p == AfterRequest(handler[h].req.body)
<1>1. /\ handler[h].phase = "routed" /\ h \notin relayed /\ h \notin reached /\ Typed
      /\ RecordTogether(h, "request", handler[h].req.body) /\ Goto(h, p)
      /\ setting' = setting /\ router' = router /\ stop' = stop /\ reached' = reached
      /\ relayed' = relayed /\ before' = before
  BY HandlerFacts DEF RecordRequest, At
<1>2. p \in {"aborting", "stalling", "forwarding"}
  BY DEF AfterRequest
<1>3. counters' \in [CounterNames -> Nat]
  BY <1>1, Counting DEF RecordRequest, CounterNames, Unreadable
<1> HIDE DEF p
<1>4. Moves(h) /\ handler'[h].phase = p
  <2>1. p \in HandlerPhases
    BY <1>2 DEF HandlerPhases
  <2> QED BY <1>1, <1>3, <2>1, Going DEF Moves
<1>5. handler[h].phase \in Live /\ p \in Past \union {"done"}
  BY <1>1, <1>2 DEF Live, Past, HandlerPhases
<1>6. Wrote(h, FALSE)
  BY <1>1, <1>5, RecordTogetherWrote
<1>p. PInv'
  BY <1>1, <1>4, <1>5, <1>6, HandlerWrote
<1>t. TInv'
  <2>1. Recites(h, Asked(handler[h]))
    BY <1>1, <1>5, RecordTogetherTells DEF Asked
  <2>2. Alike(handler'[h], handler[h]) /\ Asked(handler[h]) \in Seq(Sayings) /\ Shaped(handler[h])
    <3>1. p \in HandlerPhases
      BY <1>2 DEF HandlerPhases
    <3> QED BY <1>1, <3>1, Going, ToldFacts, HandlerFacts, SaidType DEF Alike
  <2>3. Said(handler[h]) = <<>> /\ Said(handler'[h]) = Asked(handler[h])
    BY <1>1, <1>2, <1>4, <2>2, SameExchange DEF Said
  <2>4. <<>> \o Asked(handler[h]) = Asked(handler[h])
    BY <2>2, ConcatEmptySeq
  <2>5. Shaped(handler'[h]) /\ Placed(handler'[h])
    BY <1>1, <1>2, <1>4, <2>2 DEF Shaped, Alike, Placed, Live, HandlerPhases
  <2> QED BY <1>1, <1>4, <1>5, <1>6, <2>1, <2>3, <2>4, <2>5, HandlerTold
<1> QED BY <1>p, <1>t

LEMMA AbortRequestKeeps ==
    ASSUME PInv, TInv, NEW h \in Handlers, AbortRequest(h)
    PROVE  PInv' /\ TInv'
<1>1. /\ handler[h].phase = "aborting" /\ h \notin relayed /\ h \notin reached /\ Typed
      /\ RecordIn(h, Event(h, "request", "transport-abort")) /\ Done(h, "gone")
      /\ setting' = setting /\ router' = router /\ stop' = stop /\ reached' = reached
      /\ relayed' = relayed /\ before' = before /\ counters' = counters
  BY HandlerFacts DEF AbortRequest, At
<1>2. Moves(h) /\ handler'[h].phase = "done" /\ "gone" \in Fates
  BY <1>1, Finishing, Counting DEF Moves, Fates
<1>3. handler[h].phase \in Live /\ "transport-abort" \in Bodies
  BY <1>1 DEF Live, HandlerPhases, Bodies
<1>4. Wrote(h, FALSE)
  BY <1>1, <1>3, RecordInWrote
<1>p. PInv'
  BY <1>1, <1>2, <1>3, <1>4, HandlerWrote
<1>t. TInv'
  <2>1. Recites(h, <<<<"request", "transport-abort">>>>)
    BY <1>1, <1>3, RecordInTells
  <2>2. Alike(handler'[h], handler[h]) /\ handler'[h].fate = "gone"
    BY <1>1, Finishing DEF Alike, Fates
  <2>3. /\ Said(handler[h]) = Asked(handler[h])
        /\ Said(handler'[h]) = Asked(handler[h]) \o <<<<"request", "transport-abort">>>>
    BY <1>1, <1>2, <2>2, SameExchange DEF Said, Story
  <2>4. Shaped(handler'[h]) /\ Placed(handler'[h])
    BY <1>2, <2>2 DEF Shaped, Placed
  <2> QED BY <1>1, <1>2, <1>3, <1>4, <2>1, <2>3, <2>4, HandlerTold
<1> QED BY <1>p, <1>t

LEMMA BodyStalledKeeps ==
    ASSUME PInv, TInv, NEW h \in Handlers, BodyStalled(h)
    PROVE  PInv' /\ TInv'
<1>1. /\ handler[h].phase \in {"stalling", "forwarding", "waiting"} /\ h \notin relayed /\ Typed
      /\ RecordIn(h, Event(h, "request", "transport-abort")) /\ Done(h, "stalled")
      /\ setting' = setting /\ router' = router /\ stop' = stop /\ reached' = reached
      /\ relayed' = relayed /\ before' = before
  BY HandlerFacts DEF BodyStalled, At
<1>2. counters' \in [CounterNames -> Nat]
  BY <1>1, Counting DEF BodyStalled, CounterNames
<1>3. Moves(h) /\ handler'[h].phase = "done"
  <2>1. "stalled" \in Fates
    BY DEF Fates
  <2> QED BY <1>1, <1>2, <2>1, Finishing DEF Moves
<1>4. handler[h].phase \in Live /\ "transport-abort" \in Bodies
  BY <1>1 DEF Live, HandlerPhases, Bodies
<1>5. Wrote(h, FALSE)
  BY <1>1, <1>4, RecordInWrote
<1>p. PInv'
  BY <1>1, <1>3, <1>4, <1>5, HandlerWrote
<1>t. TInv'
  <2>1. Recites(h, <<<<"request", "transport-abort">>>>)
    BY <1>1, <1>4, RecordInTells
  <2>2. Alike(handler'[h], handler[h]) /\ handler'[h].fate = "stalled"
    BY <1>1, Finishing DEF Alike, Fates
  <2>3. /\ Said(handler[h]) = Asked(handler[h])
        /\ Said(handler'[h]) = Asked(handler[h]) \o <<<<"request", "transport-abort">>>>
    BY <1>1, <1>3, <2>2, SameExchange DEF Said, Story
  <2>4. Shaped(handler'[h]) /\ Placed(handler'[h])
    BY <1>3, <2>2 DEF Shaped, Placed
  <2> QED BY <1>1, <1>3, <1>4, <1>5, <2>1, <2>3, <2>4, HandlerTold
<1> QED BY <1>p, <1>t

LEMMA UpstreamFailedKeeps ==
    ASSUME PInv, TInv, NEW h \in Handlers, UpstreamFailed(h)
    PROVE  PInv' /\ TInv'
<1>1. /\ handler[h].phase \in {"forwarding", "waiting"} /\ h \notin relayed /\ Typed
      /\ RecordIn(h, Event(h, "answer", "transport-abort")) /\ Done(h, "unreached")
      /\ setting' = setting /\ router' = router /\ stop' = stop /\ reached' = reached
      /\ relayed' = relayed /\ before' = before
  BY HandlerFacts DEF UpstreamFailed, At
<1>2. counters' \in [CounterNames -> Nat]
  BY <1>1, Counting DEF UpstreamFailed, CounterNames
<1>3. Moves(h) /\ handler'[h].phase = "done"
  <2>1. "unreached" \in Fates
    BY DEF Fates
  <2> QED BY <1>1, <1>2, <2>1, Finishing DEF Moves
<1>4. handler[h].phase \in Live /\ "transport-abort" \in Bodies
  BY <1>1 DEF Live, HandlerPhases, Bodies
<1>5. Wrote(h, FALSE)
  BY <1>1, <1>4, RecordInWrote
<1>p. PInv'
  BY <1>1, <1>3, <1>4, <1>5, HandlerWrote
<1>t. TInv'
  <2>1. Recites(h, <<<<"answer", "transport-abort">>>>)
    BY <1>1, <1>4, RecordInTells
  <2>2. Alike(handler'[h], handler[h]) /\ handler'[h].fate = "unreached"
    BY <1>1, Finishing DEF Alike, Fates
  <2>3. /\ Said(handler[h]) = Asked(handler[h])
        /\ Said(handler'[h]) = Asked(handler[h]) \o <<<<"answer", "transport-abort">>>>
    BY <1>1, <1>3, <2>2, SameExchange DEF Said, Story
  <2>4. Shaped(handler'[h]) /\ Placed(handler'[h])
    BY <1>3, <2>2 DEF Shaped, Placed
  <2> QED BY <1>1, <1>3, <1>4, <1>5, <2>1, <2>3, <2>4, HandlerTold
<1> QED BY <1>p, <1>t

LEMMA RecordAnswerKeeps ==
    ASSUME PInv, TInv, NEW h \in Handlers, RecordAnswer(h)
    PROVE  PInv' /\ TInv'
<1>1. /\ handler[h].phase = "responding" /\ h \notin relayed /\ Typed
      /\ RecordTogether(h, "answer", handler[h].ans.body)
      /\ \/ Goto(h, "cutting") /\ relayed' = relayed
         \/ Done(h, "answered") /\ relayed' = relayed \union {h}
      /\ setting' = setting /\ router' = router /\ stop' = stop /\ reached' = reached
      /\ before' = before
  BY HandlerFacts DEF RecordAnswer, At
<1>2. counters' \in [CounterNames -> Nat]
  BY <1>1, Counting DEF RecordAnswer, CounterNames, Unreadable
<1>3. /\ Moves(h) /\ handler'[h].phase \in {"cutting", "done"}
      /\ relayed' # relayed => handler'[h].phase = "done"
  <2>1. "answered" \in Fates /\ "cutting" \in HandlerPhases
    BY DEF Fates, HandlerPhases
  <2> QED BY <1>1, <1>2, <2>1, Finishing, Going DEF Moves
<1>4. handler[h].phase \in Live /\ "cutting" \in Past
  BY <1>1 DEF Live, Past, HandlerPhases
<1>5. Wrote(h, TRUE)
  BY <1>1, <1>4, RecordTogetherWrote
<1>p. PInv'
  BY <1>1, <1>3, <1>4, <1>5, HandlerWrote
<1>t. TInv'
  <2>1. Shaped(handler[h]) /\ ~handler[h].ans.sse
    BY ToldFacts DEF RecordAnswer
  <2>2. Recites(h, Answered(handler[h]))
    BY <1>1, <1>4, <2>1, RecordTogetherTells DEF Answered
  <2>3. /\ Alike(handler'[h], handler[h])
        /\ handler'[h].phase = "done" => handler'[h].fate = "answered"
    <3>1. "answered" \in Fates /\ "cutting" \in HandlerPhases
      BY DEF Fates, HandlerPhases
    <3> QED BY <1>1, <3>1, Finishing, Going DEF Alike
  <2>4. Said(handler[h]) = Asked(handler[h]) /\ Said(handler'[h]) = Asked(handler[h]) \o Answered(handler[h])
    BY <1>1, <1>3, <2>3, SameExchange DEF Said, Story
  <2>5. Shaped(handler'[h]) /\ Placed(handler'[h])
    BY <1>1, <1>3, <2>1, <2>3 DEF Shaped, Alike, Placed, Live, HandlerPhases
  <2> QED BY <1>1, <1>3, <1>4, <1>5, <2>2, <2>4, <2>5, HandlerTold
<1> QED BY <1>p, <1>t

LEMMA UpstreamCutKeeps ==
    ASSUME PInv, TInv, NEW h \in Handlers, UpstreamCut(h)
    PROVE  PInv' /\ TInv'
<1>1. /\ handler[h].phase \in {"cutting", "streaming"} /\ Typed
      /\ RecordIn(h, Event(h, "answer", "transport-abort")) /\ Done(h, "cut")
      /\ setting' = setting /\ router' = router /\ stop' = stop /\ reached' = reached
      /\ relayed' = relayed /\ before' = before
  BY HandlerFacts DEF UpstreamCut, At
<1>2. counters' \in [CounterNames -> Nat]
  BY <1>1, Counting DEF UpstreamCut, CounterNames
<1>3. Moves(h) /\ handler'[h].phase = "done"
  <2>1. "cut" \in Fates
    BY DEF Fates
  <2> QED BY <1>1, <1>2, <2>1, Finishing DEF Moves
<1>4. handler[h].phase \in Live /\ "transport-abort" \in Bodies
  BY <1>1 DEF Live, HandlerPhases, Bodies
<1>5. Wrote(h, FALSE)
  BY <1>1, <1>4, RecordInWrote
<1>p. PInv'
  BY <1>1, <1>3, <1>4, <1>5, HandlerWrote
<1>t. TInv'
  <2>1. Recites(h, <<<<"answer", "transport-abort">>>>)
    BY <1>1, <1>4, RecordInTells
  <2>2. Alike(handler'[h], handler[h]) /\ handler'[h].fate = "cut"
    BY <1>1, Finishing DEF Alike, Fates
  <2>3. /\ Said(handler[h]) = (Asked(handler[h]) \o Answered(handler[h]))
        /\ Said(handler'[h]) = (Asked(handler[h]) \o Answered(handler[h])) \o <<<<"answer", "transport-abort">>>>
    BY <1>1, <1>3, <2>2, SameExchange DEF Said, Story
  <2>4. Shaped(handler'[h]) /\ Placed(handler'[h])
    BY <1>3, <2>2 DEF Shaped, Placed
  <2> QED BY <1>1, <1>3, <1>4, <1>5, <2>1, <2>3, <2>4, HandlerTold
<1> QED BY <1>p, <1>t

LEMMA RecordStreamKeeps ==
    ASSUME PInv, TInv, NEW h \in Handlers, RecordStream(h)
    PROVE  PInv' /\ TInv'
<1>1. /\ handler[h].phase = "responding" /\ h \notin relayed /\ Typed
      /\ RecordTogether(h, "answer", "none") /\ Goto(h, "streaming")
      /\ setting' = setting /\ router' = router /\ stop' = stop /\ reached' = reached
      /\ relayed' = relayed /\ before' = before /\ counters' = counters
  BY HandlerFacts DEF RecordStream, At
<1>2. Moves(h) /\ handler'[h].phase = "streaming"
  <2>1. "streaming" \in HandlerPhases
    BY DEF HandlerPhases
  <2> QED BY <1>1, <2>1, Going, Counting DEF Moves
<1>3. handler[h].phase \in Live /\ "streaming" \in Past
  BY <1>1 DEF Live, Past, HandlerPhases
<1>4. Wrote(h, TRUE)
  BY <1>1, <1>3, RecordTogetherWrote
<1>p. PInv'
  BY <1>1, <1>2, <1>3, <1>4, HandlerWrote
<1>t. TInv'
  <2> DEFINE a == <<"answer", "http">>
  <2>1. Shaped(handler[h]) /\ handler[h].ans.sse /\ handler[h].events = 0
    BY <1>1, ToldFacts DEF RecordStream, Shaped
  <2>2. Recites(h, <<a>>)
    <3>1. WithMessage("answer", "none") = <<a>>
      BY MessageType
    <3> QED BY <1>1, <1>3, <3>1, RecordTogetherTells
  <2>3. Alike(handler'[h], handler[h])
    BY <1>1, Going DEF Alike, HandlerPhases
  <2>4. Answered(handler[h]) = <<a>>
    <3>1. [i \in 1 .. 0 |-> <<"event", "message">>] = <<>>
      OBVIOUS
    <3>2. a \in Sayings
      BY MessageType
    <3> HIDE DEF a
    <3>3. <<a>> \o <<>> = <<a>>
      BY <3>2, ConcatEmptySeq
    <3> QED BY <2>1, <3>1, <3>3 DEF Answered, a
  <2>5. Said(handler[h]) = Asked(handler[h]) /\ Said(handler'[h]) = Asked(handler[h]) \o <<a>>
    BY <1>1, <1>2, <2>3, <2>4, SameExchange DEF Said
  <2>6. Shaped(handler'[h]) /\ Placed(handler'[h])
    BY <1>2, <2>1, <2>3 DEF Shaped, Alike, Placed, Live, HandlerPhases
  <2> HIDE DEF a
  <2> QED BY <1>1, <1>2, <1>3, <1>4, <2>2, <2>5, <2>6, HandlerTold
<1> QED BY <1>p, <1>t

LEMMA StreamEventKeeps ==
    ASSUME PInv, TInv, NEW h \in Handlers, StreamEvent(h)
    PROVE  PInv' /\ TInv'
<1>1. /\ handler[h].phase = "streaming" /\ Typed /\ handler[h] \in Serving
      /\ RecordIn(h, Event(h, "event", "message"))
      /\ handler' = [handler EXCEPT ![h].events = @ + 1]
      /\ setting' = setting /\ router' = router /\ stop' = stop /\ reached' = reached
      /\ relayed' = relayed \union {h} /\ before' = before /\ counters' = counters
  BY HandlerFacts DEF StreamEvent, At
<1>2. Moves(h) /\ handler'[h].phase = "streaming"
  <2>1. handler' \in [Handlers -> Serving] /\ handler'[h].phase = handler[h].phase
        /\ handler'[h].route = handler[h].route
        /\ \A g \in Handlers : g # h => handler'[g] = handler[g]
    <3> DEFINE e == [handler[h] EXCEPT !.events = handler[h].events + 1]
    <3>1. handler[h].events + 1 \in Nat
      BY <1>1 DEF Serving
    <3>2. e \in Serving /\ e.phase = handler[h].phase /\ e.route = handler[h].route
      BY <1>1, <3>1 DEF Serving
    <3>3. handler' = [handler EXCEPT ![h] = e] /\ handler \in [Handlers -> Serving]
      BY <1>1 DEF Typed
    <3> HIDE DEF e
    <3> QED BY <3>2, <3>3
  <2> QED BY <1>1, <2>1, Counting DEF Moves
<1>3. handler[h].phase \in Live /\ "streaming" \in Past /\ "message" \in Bodies
  BY <1>1 DEF Live, Past, HandlerPhases, Bodies
<1>4. Wrote(h, FALSE)
  BY <1>1, <1>3, RecordInWrote
<1>p. PInv'
  BY <1>1, <1>2, <1>3, <1>4, HandlerWrote
<1>t. TInv'
  <2> DEFINE b == <<"event", "message">>
  <2>1. Shaped(handler[h]) /\ handler[h].ans.sse
    BY <1>1, ToldFacts DEF Shaped
  <2>2. Recites(h, <<b>>)
    BY <1>1, <1>3, RecordInTells
  <2>3. /\ handler'[h].req = handler[h].req /\ handler'[h].ans = handler[h].ans
        /\ handler'[h].events = handler[h].events + 1
    BY <1>1 DEF Typed, Serving
  <2>4. Answered(handler'[h]) = Answered(handler[h]) \o <<b>>
    <3>1. handler'[h] \in Serving
      BY <1>2 DEF Moves
    <3> QED BY <1>1, <2>1, <2>3, <3>1, OneMoreEvent
  <2>5. /\ Said(handler[h]) = Asked(handler[h]) \o Answered(handler[h])
        /\ Said(handler'[h]) = Asked(handler[h]) \o (Answered(handler[h]) \o <<b>>)
    BY <1>1, <1>2, <2>3, <2>4 DEF Said, Asked
  <2>6. /\ Asked(handler[h]) \in Seq(Sayings) /\ Answered(handler[h]) \in Seq(Sayings)
        /\ <<b>> \in Seq(Sayings)
    <3>1. b \in Sayings
      BY MessageType
    <3> HIDE DEF b
    <3> QED BY <1>1, <3>1, SaidType
  <2>7. Said(handler'[h]) = Said(handler[h]) \o <<b>>
    BY <2>5, <2>6, ConcatAssociative
  <2>8. Shaped(handler'[h]) /\ Placed(handler'[h])
    BY <1>2, <2>1, <2>3 DEF Shaped, Placed, Live, HandlerPhases
  <2> HIDE DEF b
  <2> QED BY <1>1, <1>2, <1>3, <1>4, <2>2, <2>7, <2>8, HandlerTold
<1> QED BY <1>p, <1>t

-----------------------------------------------------------------------------
(* What the router's operations keep. *)

LEMMA RouterFields ==
    ASSUME NEW r \in Routers
    PROVE  /\ r.ids \in Seq(MaybeIds) /\ r.byId \in [Ids -> Nat]
           /\ r.current \in Nat /\ r.unseen \in Nat /\ Len(r.ids) \in Nat
BY DEF Routers

\* A router after a session began, and was made current or the one for unseen ids.
LEMMA BegunFields ==
    ASSUME NEW r \in Routers, Indexed(r), NEW n \in {BegunCurrent(r), BegunUnseen(r)}
    PROVE  n \in Routers /\ Indexed(n) /\ Len(n.ids) = Len(r.ids) + 1
<1> DEFINE b == Begun(r)
           k == Len(r.ids)
<1>1. Append(r.ids, NoId) \in Seq(MaybeIds) /\ Len(Append(r.ids, NoId)) = k + 1 /\ k \in Nat
  BY DEF Routers, MaybeIds
<1>2. \A s \in Seq(MaybeIds) : [r EXCEPT !.ids = s] \in Routers /\ [r EXCEPT !.ids = s].ids = s
  BY DEF Routers
<1>3. b.byId = r.byId /\ b.current = r.current /\ b.unseen = r.unseen
  BY DEF Routers, Begun
<1>4. b \in Routers /\ Len(b.ids) = k + 1
  BY <1>1, <1>2 DEF Begun
<1>5. /\ \A id \in Ids : r.byId[id] \in 0 .. k
      /\ r.current \in 0 .. k /\ r.unseen \in 0 .. k
  BY DEF Indexed
<1> HIDE DEF k
<1>6. k + 1 \in Nat /\ k + 1 \in 0 .. k + 1 /\ \A i \in 0 .. k : i \in 0 .. k + 1
  BY <1>1
<1>7. n = [b EXCEPT !.current = k + 1] \/ n = [b EXCEPT !.unseen = k + 1]
  BY DEF BegunCurrent, BegunUnseen, k
<1> HIDE DEF b
<1>8. /\ n \in Routers /\ n.ids = b.ids /\ n.byId = b.byId
      /\ n.current \in {b.current, k + 1} /\ n.unseen \in {b.unseen, k + 1}
  BY <1>4, <1>6, <1>7 DEF Routers
<1>9. \A id \in Ids : n.byId[id] \in 0 .. Len(n.ids)
  BY <1>3, <1>4, <1>5, <1>6, <1>8
<1> QED BY <1>3, <1>4, <1>5, <1>6, <1>8, <1>9 DEF Indexed, k

\* A request is routed to a session that has begun, at most one of them for it.
LEMMA RouteGives ==
    ASSUME NEW r \in Routers, Indexed(r), NEW id \in MaybeIds, NEW initialize \in BOOLEAN,
           NEW x, x = Route(r, id, initialize)
    PROVE  /\ x.router \in Routers /\ Indexed(x.router) /\ x.route \in Routes
           /\ x.route.index \in 1 .. Len(x.router.ids)
           /\ x.router = r \/ Len(x.router.ids) = Len(r.ids) + 1
<1> DEFINE k == Len(r.ids)
<1>1. /\ k \in Nat /\ NoId \in MaybeIds
      /\ \A i \in Nat, u \in MaybeIds : [index |-> i, unseen |-> u] \in Routes
  BY RouterFields DEF MaybeIds, Routes
<1>2. /\ BegunCurrent(r) \in Routers /\ Indexed(BegunCurrent(r)) /\ Len(BegunCurrent(r).ids) = k + 1
      /\ BegunUnseen(r) \in Routers /\ Indexed(BegunUnseen(r)) /\ Len(BegunUnseen(r).ids) = k + 1
  BY BegunFields
<1>3. \E n \in {r, BegunCurrent(r), BegunUnseen(r)} : \E i \in 1 .. Len(n.ids), u \in MaybeIds :
          x = Routing(n, i, u) /\ (n = r \/ Len(n.ids) = k + 1)
  <2>1. CASE id # NoId /\ Known(r, id)
    <3>1. r.byId[id] \in 1 .. k
      BY <1>1, <2>1 DEF Known, Indexed, MaybeIds
    <3> QED BY <1>1, <2>1, <3>1 DEF Route
  <2>2. CASE id # NoId /\ ~Known(r, id) /\ r.unseen # 0
    <3>1. r.unseen \in 1 .. k
      BY <1>1, <2>2 DEF Indexed
    <3> QED BY <1>1, <2>2, <3>1 DEF Route
  <2>3. CASE id # NoId /\ ~Known(r, id) /\ r.unseen = 0
    <3>1. x = Routing(BegunUnseen(r), k + 1, id)
      BY <2>3 DEF Route
    <3>2. k + 1 \in 1 .. Len(BegunUnseen(r).ids)
      BY <1>1, <1>2
    <3> QED BY <1>2, <3>1, <3>2
  <2>4. CASE id = NoId /\ (initialize \/ r.current = 0)
    <3>1. x = Routing(BegunCurrent(r), k + 1, NoId)
      BY <2>4 DEF Route
    <3>2. k + 1 \in 1 .. Len(BegunCurrent(r).ids)
      BY <1>1, <1>2
    <3> QED BY <1>1, <1>2, <3>1, <3>2
  <2>5. CASE id = NoId /\ ~initialize /\ r.current # 0
    <3>1. r.current \in 1 .. k
      BY <1>1, <2>5 DEF Indexed
    <3> QED BY <1>1, <2>5, <3>1 DEF Route
  <2> QED BY <2>1, <2>2, <2>3, <2>4, <2>5
<1>4. PICK n \in {r, BegunCurrent(r), BegunUnseen(r)} : \E i \in 1 .. Len(n.ids), u \in MaybeIds :
          x = Routing(n, i, u) /\ (n = r \/ Len(n.ids) = k + 1)
  BY <1>3
<1>5. PICK i \in 1 .. Len(n.ids), u \in MaybeIds :
          x = Routing(n, i, u) /\ (n = r \/ Len(n.ids) = k + 1)
  BY <1>4
<1>6. x.router = n /\ x.route = [index |-> i, unseen |-> u] /\ i \in Nat
  BY <1>5 DEF Routing
<1> QED BY <1>1, <1>2, <1>4, <1>5, <1>6

LEMMA AcceptKeeps ==
    ASSUME NEW r \in Routers, Indexed(r), NEW route \in Routes,
           route.index \in 1 .. Len(r.ids), route.unseen \in Ids
    PROVE  LET n == Accept(r, route)
           IN  n \in Routers /\ Indexed(n) /\ Len(n.ids) = Len(r.ids)
<1> DEFINE n == Accept(r, route)
<1>0. /\ r.ids \in Seq(MaybeIds) /\ r.byId \in [Ids -> Nat] /\ r.current \in Nat
      /\ r.unseen \in Nat /\ Len(r.ids) \in Nat
      /\ route.index \in Nat /\ route.index # 0 /\ route.unseen \in MaybeIds
  BY RouterFields DEF MaybeIds
<1>1. n.byId = [r.byId EXCEPT ![route.unseen] = route.index]
  BY DEF Accept, Routers
<1>2. n.current = route.index /\ n.unseen = IF r.unseen = route.index THEN 0 ELSE r.unseen
  BY DEF Accept, Routers
<1>3. n.ids = [r.ids EXCEPT ![route.index] = IF @ = NoId THEN route.unseen ELSE @]
  BY DEF Accept, Routers
<1>4. ASSUME [r.ids EXCEPT ![route.index] = IF @ = NoId THEN route.unseen ELSE @] \in Seq(MaybeIds),
             [r.byId EXCEPT ![route.unseen] = route.index] \in [Ids -> Nat]
      PROVE  n \in Routers
  BY <1>0, <1>4 DEF Accept, Routers
<1> HIDE DEF n
<1>5. n.ids \in Seq(MaybeIds) /\ Len(n.ids) = Len(r.ids)
  BY <1>0, <1>3
<1>6. n.byId \in [Ids -> Nat] /\ \A id \in Ids : n.byId[id] \in {r.byId[id], route.index}
  BY <1>0, <1>1
<1>7. n \in Routers
  BY <1>1, <1>3, <1>4, <1>5, <1>6
<1>8. Indexed(n)
  <2> DEFINE k == Len(r.ids)
             i == route.index
  <2>1. k \in Nat /\ i \in 1 .. k /\ Len(n.ids) = k
    BY <1>0, <1>5
  <2>2. (\A id \in Ids : r.byId[id] \in 0 .. k) /\ r.current \in 0 .. k /\ r.unseen \in 0 .. k
    BY DEF Indexed
  <2>3. (\A id \in Ids : n.byId[id] \in {r.byId[id], i}) /\ n.current = i /\ n.unseen \in {0, r.unseen}
    BY <1>2, <1>6
  <2> HIDE DEF k, i
  <2>4. 0 \in 0 .. k /\ i \in 0 .. k
    BY <2>1
  <2>5. \A id \in Ids : n.byId[id] \in 0 .. k
    BY <2>2, <2>3, <2>4
  <2>6. n.current \in 0 .. k /\ n.unseen \in 0 .. k
    BY <2>2, <2>3, <2>4
  <2> QED BY <2>1, <2>5, <2>6 DEF Indexed
<1> QED BY <1>5, <1>7, <1>8 DEF n

LEMMA AssignKeeps ==
    ASSUME NEW r \in Routers, Indexed(r), NEW route \in Routes,
           route.index \in 1 .. Len(r.ids), NEW given \in Ids
    PROVE  LET n == Assign(r, route, given)
           IN  n \in Routers /\ Indexed(n) /\ Len(n.ids) = Len(r.ids)
<1> DEFINE n == Assign(r, route, given)
<1>0. /\ r.ids \in Seq(MaybeIds) /\ r.byId \in [Ids -> Nat] /\ r.current \in Nat
      /\ r.unseen \in Nat /\ Len(r.ids) \in Nat /\ route.index \in Nat
      /\ given \in MaybeIds
  BY RouterFields DEF MaybeIds
<1>1. n.byId = [r.byId EXCEPT ![given] = route.index]
  BY DEF Assign, Routers
<1>2. n.current = r.current /\ n.unseen = r.unseen
  BY DEF Assign, Routers
<1>3. n.ids = [r.ids EXCEPT ![route.index] = given]
  BY DEF Assign, Routers
<1>4. ASSUME [r.ids EXCEPT ![route.index] = given] \in Seq(MaybeIds),
             [r.byId EXCEPT ![given] = route.index] \in [Ids -> Nat]
      PROVE  n \in Routers
  BY <1>0, <1>4 DEF Assign, Routers
<1> HIDE DEF n
<1>5. n.ids \in Seq(MaybeIds) /\ Len(n.ids) = Len(r.ids)
  BY <1>0, <1>3
<1>6. n.byId \in [Ids -> Nat] /\ \A id \in Ids : n.byId[id] \in {r.byId[id], route.index}
  BY <1>0, <1>1
<1>7. n \in Routers
  BY <1>1, <1>3, <1>4, <1>5, <1>6
<1>8. Indexed(n)
  BY <1>0, <1>2, <1>5, <1>6 DEF Indexed
<1> QED BY <1>5, <1>7, <1>8 DEF n

\* An answer and an end leave every session its place.
LEMMA RespondKeeps ==
    ASSUME NEW r \in Routers, Indexed(r), NEW route \in Routes,
           route.index \in 1 .. Len(r.ids), NEW given \in MaybeIds, NEW ok \in BOOLEAN
    PROVE  LET n == Respond(r, route, given, ok)
           IN  n \in Routers /\ Indexed(n) /\ Len(n.ids) = Len(r.ids)
<1> DEFINE a == IF Accepts(r, route, ok) THEN Accept(r, route) ELSE r
<1>1. a \in Routers /\ Indexed(a) /\ Len(a.ids) = Len(r.ids)
  <2>1. CASE Accepts(r, route, ok)
    <3>1. route.unseen \in Ids
      BY <2>1 DEF Accepts, Routes, MaybeIds
    <3> QED BY <2>1, <3>1, AcceptKeeps
  <2>2. CASE ~Accepts(r, route, ok)
    BY <2>2
  <2> QED BY <2>1, <2>2
<1>2. Respond(r, route, given, ok) = IF Assigns(a, route, given) THEN Assign(a, route, given) ELSE a
  BY DEF Respond
<1> HIDE DEF a
<1>3. Assigns(a, route, given) => given \in Ids
  BY DEF Assigns, MaybeIds
<1> QED BY <1>1, <1>2, <1>3, AssignKeeps

LEMMA EndKeeps ==
    ASSUME NEW r \in Routers, Indexed(r), NEW gone \in Ids
    PROVE  LET n == End(r, gone)
           IN  n \in Routers /\ Indexed(n) /\ Len(n.ids) = Len(r.ids)
<1> DEFINE n == End(r, gone)
<1>0. r.byId \in [Ids -> Nat] /\ Len(r.ids) \in Nat
  BY RouterFields
<1>1. n.ids = r.ids /\ n.current = r.current /\ n.unseen = r.unseen
  BY DEF End, Routers
<1>2. n.byId = [r.byId EXCEPT ![gone] = 0]
  BY DEF End, Routers
<1>3. ASSUME [r.byId EXCEPT ![gone] = 0] \in [Ids -> Nat] PROVE n \in Routers
  BY <1>3 DEF End, Routers
<1> HIDE DEF n
<1>4. n \in Routers /\ \A id \in Ids : n.byId[id] \in {r.byId[id], 0}
  BY <1>0, <1>2, <1>3
<1>5. Indexed(n)
  BY <1>0, <1>1, <1>4 DEF Indexed
<1> QED BY <1>1, <1>4, <1>5 DEF n

-----------------------------------------------------------------------------
(* The steps of a handler that write nothing. *)

LEMMA ConnectKeeps ==
    ASSUME PInv, TInv, NEW h \in Handlers, Connect(h)
    PROVE  PInv' /\ TInv'
<1>1. /\ handler[h].phase = "unused" /\ h \notin relayed /\ h \notin reached /\ Typed
      /\ Goto(h, "connected") /\ setting' = setting /\ router' = router /\ traces' = traces
      /\ counters' = counters /\ stop' = stop /\ reached' = reached /\ relayed' = relayed
      /\ before' = before
  BY HandlerFacts DEF Connect, At
<1>2. Moves(h) /\ handler'[h].phase = "connected"
  <2>1. "connected" \in HandlerPhases
    BY DEF HandlerPhases
  <2> QED BY <1>1, <2>1, Going, Counting DEF Moves
<1>3. "connected" \notin Past /\ router \in Routers /\ Indexed(router)
  BY <1>1 DEF Past, Live, Typed
<1>p. PInv'
  BY <1>1, <1>2, <1>3, HandlerMoved
<1>t. TInv'
  <2>1. Shaped(handler[h]) /\ handler'[h].events = handler[h].events
    BY <1>1, Going, ToldFacts DEF HandlerPhases
  <2>2. /\ Shaped(handler'[h]) /\ ~Placed(handler[h]) /\ ~Followed(handler'[h])
    BY <1>1, <1>2, <2>1 DEF Shaped, Followed, Placed, Live
  <2> QED BY <1>1, <1>2, <2>2, HandlerSilent
<1> QED BY <1>p, <1>t

LEMMA RefuseKeeps ==
    ASSUME PInv, TInv, NEW h \in Handlers, Refuse(h)
    PROVE  PInv' /\ TInv'
<1>1. /\ handler[h].phase = "reading" /\ h \notin relayed /\ h \notin reached /\ Typed
      /\ Done(h, "refused") /\ setting' = setting /\ router' = router /\ traces' = traces
      /\ stop' = stop /\ reached' = reached /\ relayed' = relayed /\ before' = before
  BY HandlerFacts DEF Refuse, At
<1>2. counters' \in [CounterNames -> Nat]
  BY <1>1, Counting DEF Refuse, CounterNames
<1>3. Moves(h) /\ handler'[h].phase = "done"
  <2>1. "refused" \in Fates
    BY DEF Fates
  <2> QED BY <1>1, <1>2, <2>1, Finishing DEF Moves
<1>4. "done" \notin Past /\ router \in Routers /\ Indexed(router)
  BY <1>1 DEF Past, Live, Typed
<1>p. PInv'
  BY <1>1, <1>3, <1>4, HandlerMoved
<1>t. TInv'
  <2>1. handler'[h].fate = "refused"
    BY <1>1, Finishing DEF Fates
  <2>2. /\ Shaped(handler'[h]) /\ ~Placed(handler[h]) /\ ~Followed(handler'[h])
    BY <1>1, <1>3, <2>1 DEF Shaped, Followed, Placed, Live
  <2> QED BY <1>1, <1>3, <2>2, HandlerSilent
<1> QED BY <1>p, <1>t

LEMMA ForwardKeeps ==
    ASSUME PInv, TInv, NEW h \in Handlers, Forward(h)
    PROVE  PInv' /\ TInv'
<1>1. /\ handler[h].phase = "forwarding" /\ h \notin relayed /\ Typed
      /\ Goto(h, "waiting") /\ setting' = setting /\ router' = router /\ traces' = traces
      /\ counters' = counters /\ stop' = stop /\ reached' = reached \union {h}
      /\ relayed' = relayed /\ before' = before
  BY HandlerFacts DEF Forward, At
<1>2. Moves(h) /\ handler'[h].phase = "waiting"
  <2>1. "waiting" \in HandlerPhases
    BY DEF HandlerPhases
  <2> QED BY <1>1, <2>1, Going, Counting DEF Moves
<1>3. handler[h].phase \in Past /\ router \in Routers /\ Indexed(router)
  BY <1>1 DEF Past, Live, HandlerPhases, Typed
<1>p. PInv'
  BY <1>1, <1>2, <1>3, HandlerMoved
<1>t. TInv'
  <2>1. Alike(handler'[h], handler[h]) /\ Shaped(handler[h])
    BY <1>1, Going, ToldFacts DEF Alike, HandlerPhases
  <2>2. Said(handler'[h]) = Said(handler[h])
    BY <1>1, <1>2, <2>1, SameExchange DEF Said
  <2>3. Shaped(handler'[h]) /\ Followed(handler[h]) /\ Placed(handler'[h])
    BY <1>1, <1>2, <2>1 DEF Shaped, Alike, Followed, Placed, Live, HandlerPhases
  <2> QED BY <1>1, <1>2, <2>2, <2>3, HandlerSilent
<1> QED BY <1>p, <1>t

LEMMA AnswerKeeps ==
    ASSUME PInv, TInv, NEW h \in Handlers, NEW ans \in setting.answers, Answer(h, ans)
    PROVE  PInv' /\ TInv'
<1>1. /\ handler[h].phase = "waiting" /\ h \notin relayed /\ Typed /\ handler[h] \in Serving
      /\ handler' = [handler EXCEPT ![h].phase = "answered", ![h].ans = ans]
      /\ setting' = setting /\ router' = router /\ traces' = traces
      /\ counters' = counters /\ stop' = stop /\ reached' = reached
      /\ relayed' = relayed /\ before' = before
  BY HandlerFacts DEF Answer, At
<1>2. Moves(h) /\ handler'[h].phase = "answered"
  <2>1. ans \in Answers
    BY <1>1, Types DEF Setting, Answers
  <2>2. /\ handler' \in [Handlers -> Serving] /\ handler'[h].phase = "answered"
        /\ handler'[h].route = handler[h].route
        /\ \A g \in Handlers : g # h => handler'[g] = handler[g]
    <3> DEFINE e == [handler[h] EXCEPT !.phase = "answered", !.ans = ans]
    <3>1. e \in Serving /\ e.phase = "answered" /\ e.route = handler[h].route
      BY <1>1, <2>1 DEF Serving, HandlerPhases
    <3>2. handler' = [handler EXCEPT ![h] = e] /\ handler \in [Handlers -> Serving]
      BY <1>1 DEF Typed
    <3> HIDE DEF e
    <3> QED BY <3>1, <3>2
  <2> QED BY <1>1, <2>2, Counting DEF Moves
<1>3. handler[h].phase \in Past /\ router \in Routers /\ Indexed(router)
  BY <1>1 DEF Past, Live, HandlerPhases, Typed
<1>p. PInv'
  BY <1>1, <1>2, <1>3, HandlerMoved
<1>t. TInv'
  <2>1. /\ Shaped(handler[h]) /\ handler'[h].req = handler[h].req
        /\ handler'[h].events = handler[h].events
    BY <1>1, ToldFacts DEF Typed, Serving
  <2>2. Said(handler'[h]) = Said(handler[h])
    BY <1>1, <1>2, <2>1 DEF Said, Asked
  <2>3. Shaped(handler'[h]) /\ Followed(handler[h]) /\ Placed(handler'[h])
    BY <1>1, <1>2, <2>1 DEF Shaped, Followed, Placed, Live, HandlerPhases
  <2> QED BY <1>1, <1>2, <2>2, <2>3, HandlerSilent
<1> QED BY <1>p, <1>t

LEMMA EndSessionKeeps ==
    ASSUME PInv, TInv, NEW h \in Handlers, EndSession(h)
    PROVE  PInv' /\ TInv'
<1>1. /\ handler[h].phase = "answered" /\ h \notin relayed /\ Typed /\ handler[h] \in Serving
      /\ Goto(h, "ended") /\ router' = End(router, handler[h].req.id) /\ EndsSession(h)
      /\ setting' = setting /\ traces' = traces
      /\ counters' = counters /\ stop' = stop /\ reached' = reached
      /\ relayed' = relayed /\ before' = before
  BY HandlerFacts DEF EndSession, At
<1>2. Moves(h) /\ handler'[h].phase = "ended"
  <2>1. "ended" \in HandlerPhases
    BY DEF HandlerPhases
  <2> QED BY <1>1, <2>1, Going, Counting DEF Moves
<1>3. router' \in Routers /\ Indexed(router') /\ Len(router'.ids) = Len(router.ids)
  <2>1. handler[h].req.id \in Ids
    BY <1>1 DEF EndsSession, Serving, Requests, MaybeIds
  <2> QED BY <1>1, <2>1, EndKeeps DEF Typed
<1>4. handler[h].phase \in Past
  BY <1>1 DEF Past, Live, HandlerPhases
<1>p. PInv'
  BY <1>1, <1>2, <1>3, <1>4, HandlerMoved
<1>t. TInv'
  <2>1. Alike(handler'[h], handler[h]) /\ Shaped(handler[h])
    BY <1>1, Going, ToldFacts DEF Alike, HandlerPhases
  <2>2. Said(handler'[h]) = Said(handler[h])
    BY <1>1, <1>2, <2>1, SameExchange DEF Said
  <2>3. Shaped(handler'[h]) /\ Followed(handler[h]) /\ Placed(handler'[h])
    BY <1>1, <1>2, <2>1 DEF Shaped, Alike, Followed, Placed, Live, HandlerPhases
  <2> QED BY <1>1, <1>2, <2>2, <2>3, HandlerSilent
<1> QED BY <1>p, <1>t

LEMMA RespondToKeeps ==
    ASSUME PInv, TInv, NEW h \in Handlers, RespondTo(h)
    PROVE  PInv' /\ TInv'
<1> DEFINE e == handler[h]
<1>1. /\ e.phase \in {"answered", "ended"} /\ h \notin relayed /\ Typed /\ e \in Serving
      /\ Goto(h, "responding") /\ router' = Respond(router, e.route, e.ans.id, e.ans.ok)
      /\ setting' = setting /\ traces' = traces
      /\ stop' = stop /\ reached' = reached /\ relayed' = relayed /\ before' = before
  BY HandlerFacts DEF RespondTo, At
<1>2. e.phase \in Past /\ e.phase \in Live
  BY <1>1 DEF Past, Live, HandlerPhases
<1>3. counters' \in [CounterNames -> Nat]
  <2>1. CountIf(~e.ans.ok, "not_2xx") /\ (~e.ans.ok) \in BOOLEAN
    BY DEF RespondTo
  <2> QED BY <1>1, <2>1, Counting DEF CounterNames
<1>4. Moves(h) /\ handler'[h].phase = "responding"
  <2>1. "responding" \in HandlerPhases
    BY DEF HandlerPhases
  <2> QED BY <1>1, <1>3, <2>1, Going DEF Moves
<1>5. router' \in Routers /\ Indexed(router') /\ Len(router'.ids) = Len(router.ids)
  <2>1. /\ router \in Routers /\ Indexed(router) /\ e.route \in Routes
        /\ e.route.index \in 1 .. Len(router.ids)
        /\ e.ans.id \in MaybeIds /\ e.ans.ok \in BOOLEAN
    BY <1>1, <1>2 DEF Typed, RoutesTo, Serving, Answers
  <2> HIDE DEF e
  <2> QED BY <1>1, <2>1, RespondKeeps
<1>p. PInv'
  BY <1>1, <1>2, <1>4, <1>5, HandlerMoved
<1>t. TInv'
  <2>1. Alike(handler'[h], handler[h]) /\ Shaped(handler[h])
    BY <1>1, Going, ToldFacts DEF Alike, HandlerPhases
  <2>2. Said(handler'[h]) = Said(handler[h])
    BY <1>1, <1>4, <2>1, SameExchange DEF Said
  <2>3. Shaped(handler'[h]) /\ Followed(handler[h]) /\ Placed(handler'[h])
    BY <1>1, <1>4, <2>1 DEF Shaped, Alike, Followed, Placed, Live, HandlerPhases
  <2> QED BY <1>1, <1>4, <2>2, <2>3, HandlerSilent
<1> QED BY <1>p, <1>t

\* Leaving the phases in which something is recorded.
LEMMA LeavingKeeps ==
    ASSUME PInv, TInv, NEW h \in Handlers, StreamEnds(h) \/ StreamStopped(h) \/ ClientLeaves(h)
    PROVE  PInv' /\ TInv'
<1>1. /\ Typed /\ (Done(h, "answered") \/ Done(h, "stopped") \/ Done(h, "left"))
      /\ handler[h].phase # "done"
      /\ setting' = setting /\ router' = router /\ traces' = traces
      /\ counters' = counters /\ stop' = stop /\ reached' = reached
      /\ relayed' = relayed /\ before' = before
  BY HandlerFacts DEF StreamEnds, StreamStopped, ClientLeaves, At
<1>2. Moves(h) /\ handler'[h].phase = "done"
  <2>1. "answered" \in Fates /\ "stopped" \in Fates /\ "left" \in Fates
    BY DEF Fates
  <2> QED BY <1>1, <2>1, Finishing, Counting DEF Moves
<1>3. "done" \notin Past /\ router \in Routers /\ Indexed(router)
  BY <1>1 DEF Past, Live, Typed
<1>p. PInv'
  BY <1>1, <1>2, <1>3, HandlerMoved
<1>t. TInv'
  <2>1. \/ handler[h].phase = "streaming" /\ (Done(h, "answered") \/ Done(h, "stopped"))
        \/ Done(h, "left")
    BY DEF StreamEnds, StreamStopped, ClientLeaves, At
  <2>2. /\ Alike(handler'[h], handler[h])
        /\ \/ handler[h].phase = "streaming" /\ handler'[h].fate \in {"answered", "stopped"}
           \/ handler'[h].fate = "left"
    <3>1. "answered" \in Fates /\ "stopped" \in Fates /\ "left" \in Fates
      BY DEF Fates
    <3> QED BY <1>1, <2>1, <3>1, Finishing DEF Alike
  <2>3. Shaped(handler'[h]) /\ Placed(handler'[h])
    BY <1>2, <2>2 DEF Shaped, Placed
  <2>4. Followed(handler'[h]) => Followed(handler[h]) /\ Said(handler'[h]) = Said(handler[h])
    <3>1. CASE handler'[h].fate = "left"
      BY <1>2, <3>1 DEF Followed
    <3>2. CASE handler[h].phase = "streaming" /\ handler'[h].fate \in {"answered", "stopped"}
      <4>1. Followed(handler[h])
        BY <3>2 DEF Followed, Placed, Live, HandlerPhases
      <4>2. Said(handler'[h]) = Said(handler[h])
        BY <1>2, <2>2, <3>2, SameExchange DEF Said, Story
      <4> QED BY <4>1, <4>2
    <3> QED BY <2>2, <3>1, <3>2
  <2> QED BY <1>1, <1>2, <2>3, <2>4, HandlerSilent
<1> QED BY <1>p, <1>t

-----------------------------------------------------------------------------
(* A request arrives, and is routed. *)

LEMMA ArriveKeeps ==
    ASSUME PInv, TInv, NEW h \in Handlers, NEW req \in setting.requests, Arrive(h, req)
    PROVE  PInv' /\ TInv'
<1>1. /\ handler[h].phase = "connected" /\ h \notin relayed /\ h \notin reached
      /\ Typed /\ Closing /\ handler[h] \in Serving
      /\ handler' = [handler EXCEPT ![h].phase = "reading", ![h].req = req]
      /\ before' = before \union (relayed \X {h})
      /\ setting' = setting /\ router' = router /\ traces' = traces
      /\ counters' = counters /\ stop' = stop /\ reached' = reached /\ relayed' = relayed
  BY HandlerFacts DEF Arrive, At, PInv
<1>2. /\ handler' \in [Handlers -> Serving] /\ handler'[h].phase = "reading"
      /\ handler'[h].route = handler[h].route
      /\ \A g \in Handlers : g # h => handler'[g] = handler[g]
  <2>1. req \in Requests
    BY <1>1, Types DEF Setting, Requests
  <2> DEFINE e == [handler[h] EXCEPT !.phase = "reading", !.req = req]
  <2>2. e \in Serving /\ e.phase = "reading" /\ e.route = handler[h].route
    BY <1>1, <2>1 DEF Serving, HandlerPhases
  <2>3. handler' = [handler EXCEPT ![h] = e] /\ handler \in [Handlers -> Serving]
    BY <1>1 DEF Typed
  <2> HIDE DEF e
  <2> QED BY <2>2, <2>3
<1>3. \A pair \in before' : pair \in before \/ (pair[1] # h /\ pair[2] = h)
  BY <1>1
<1>4. Typed'
  <2>1. RoutesTo(router, handler', reached)
    BY <1>1, <1>2 DEF RoutesTo, Typed, Live
  <2>2. before' \subseteq relayed \X Handlers
    BY <1>1 DEF Typed
  <2> QED BY <1>1, <1>2, <2>1, <2>2 DEF Typed, RoutesTo, Indexed
<1>5. Closing'
  BY <1>1 DEF Closing
<1>6. ASSUME NEW t \in 1 .. Len(traces) PROVE Kept(traces[t], before')
  <2>1. Kept(traces[t], before)
    BY DEF PInv
  <2>2. ~Heard(h, Tape(traces[t]))
    BY <1>1 DEF PInv, Behaves
  <2>3. Ordered(Tape(traces[t]), before')
    BY <1>3, <2>1, <2>2 DEF Kept, Ordered, Heard
  <2> QED BY <2>1, <2>3 DEF Kept
<1>7. ASSUME NEW g \in Handlers PROVE Behaves(g, traces, handler, reached, relayed)'
  <2>1. Behaves(g, traces, handler, reached, relayed) /\ Behaves(h, traces, handler, reached, relayed)
    BY DEF PInv
  <2>2. TraceBy(handler, g)' = TraceBy(handler, g)
    BY <1>1, <1>2 DEF TraceBy
  <2>3. "reading" \notin Past
    BY DEF Past, Live
  <2> QED BY <1>1, <1>2, <2>1, <2>2, <2>3 DEF Behaves
<1>8. \A pair \in before' : pair[1] # pair[2]
  BY <1>3 DEF PInv
<1>p. PInv'
  BY <1>1, <1>4, <1>5, <1>6, <1>7, <1>8 DEF PInv
<1>t. TInv'
  <2>1. Shaped(handler[h]) /\ handler'[h].events = handler[h].events
    BY <1>1, ToldFacts DEF Typed, Serving
  <2>2. Shaped(handler'[h]) /\ ~Placed(handler[h]) /\ ~Followed(handler'[h])
    BY <1>1, <1>2, <2>1 DEF Shaped, Followed, Placed, Live
  <2>3. Moves(h)
    BY <1>1, <1>2, Counting DEF Moves
  <2> QED BY <1>1, <2>2, <2>3, HandlerSilent
<1> QED BY <1>p, <1>t

LEMMA RouteRequestKeeps ==
    ASSUME PInv, TInv, NEW h \in Handlers, RouteRequest(h)
    PROVE  PInv' /\ TInv'
<1> DEFINE e == handler[h]
           opens == e.req.body = "message" /\ e.req.initialize
           r == Route(router, e.req.id, opens)
<1>1. /\ e.phase = "reading" /\ h \notin relayed /\ h \notin reached
      /\ Typed /\ Closing /\ e \in Serving
      /\ router' = r.router
      /\ handler' = [handler EXCEPT ![h].phase = "routed", ![h].route = r.route]
      /\ IF setting.perSession /\ Len(r.router.ids) > Len(traces)
         THEN \E sink \in {"direct", "unwritable"} : traces' = Append(traces, New(sink))
         ELSE traces' = traces
      /\ setting' = setting /\ counters' = counters /\ stop' = stop /\ reached' = reached
      /\ relayed' = relayed /\ before' = before
  BY HandlerFacts DEF RouteRequest, At, PInv
<1>2. /\ router' \in Routers /\ Indexed(router') /\ r.route \in Routes
      /\ r.route.index \in 1 .. Len(router'.ids)
      /\ router' = router \/ Len(router'.ids) = Len(router.ids) + 1
  <2>1. e.req.id \in MaybeIds /\ opens \in BOOLEAN /\ router \in Routers /\ Indexed(router)
    BY <1>1 DEF Typed, Serving, Requests
  <2> HIDE DEF opens, e
  <2> QED BY <1>1, <2>1, RouteGives
<1>3. /\ handler' \in [Handlers -> Serving] /\ handler'[h].phase = "routed"
      /\ handler'[h].route = r.route
      /\ \A g \in Handlers : g # h => handler'[g] = handler[g]
  <2> DEFINE n == [handler[h] EXCEPT !.phase = "routed", !.route = r.route]
  <2>1. n \in Serving /\ n.phase = "routed" /\ n.route = r.route
    BY <1>1, <1>2 DEF Serving, HandlerPhases
  <2>2. handler' = [handler EXCEPT ![h] = n] /\ handler \in [Handlers -> Serving]
    BY <1>1 DEF Typed
  <2> HIDE DEF n
  <2> QED BY <2>1, <2>2
<1> HIDE DEF r, e
<1>4. /\ Len(traces) \in Nat /\ Len(router.ids) \in Nat /\ traces \in Seq(Trace)
      /\ Len(traces) = IF setting.perSession THEN Len(router.ids) ELSE 1
  BY <1>1, Types DEF Typed
<1>5. /\ traces' \in Seq(Trace)
      /\ \A t \in 1 .. Len(traces) : traces'[t] = traces[t]
      /\ \A t \in 1 .. Len(traces') : t \in 1 .. Len(traces)
             \/ (traces'[t] \in Trace /\ Tape(traces'[t]) = <<>> /\ ~traces'[t].closed /\ Held(traces'[t]))
      /\ Len(traces) <= Len(traces') /\ Len(traces') \in Nat
      /\ Len(traces') = IF setting.perSession THEN Len(router'.ids) ELSE 1
  <2>1. CASE setting.perSession /\ Len(r.router.ids) > Len(traces)
    <3>1. PICK sink \in {"direct", "unwritable"} : traces' = Append(traces, New(sink))
      BY <1>1, <2>1
    <3> DEFINE n == New(sink)
    <3>2. n \in Trace /\ Tape(n) = <<>> /\ ~n.closed /\ Held(n)
      BY NewTrace DEF Sinks
    <3> HIDE DEF n
    <3>3. /\ traces' \in Seq(Trace) /\ Len(traces') = Len(traces) + 1 /\ traces'[Len(traces) + 1] = n
          /\ \A t \in 1 .. Len(traces) : traces'[t] = traces[t]
      BY <1>4, <3>1, <3>2 DEF n
    <3>4. Len(router'.ids) = Len(router.ids) + 1
      BY <1>1, <1>2, <1>4, <2>1
    <3>5. \A t \in 1 .. Len(traces') : t \in 1 .. Len(traces) \/ t = Len(traces) + 1
      BY <1>4, <3>3
    <3>6. Len(traces') = Len(router'.ids)
      BY <1>4, <2>1, <3>3, <3>4
    <3>7. Len(traces) <= Len(traces') /\ Len(traces') \in Nat
      BY <1>4, <3>3
    <3>8. \A t \in 1 .. Len(traces') : t \in 1 .. Len(traces)
             \/ (traces'[t] \in Trace /\ Tape(traces'[t]) = <<>> /\ ~traces'[t].closed /\ Held(traces'[t]))
      BY <3>2, <3>3, <3>5
    <3> QED BY <2>1, <3>3, <3>6, <3>7, <3>8
  <2>2. CASE ~(setting.perSession /\ Len(r.router.ids) > Len(traces))
    <3>1. traces' = traces
      BY <1>1, <2>2
    <3>2. setting.perSession => router' = router
      BY <1>1, <1>2, <1>4, <2>2
    <3>3. Len(traces) <= Len(traces)
      BY <1>4
    <3>4. Len(traces) = IF setting.perSession THEN Len(router'.ids) ELSE 1
      BY <1>4, <3>2
    <3> QED BY <1>4, <3>1, <3>3, <3>4
  <2> QED BY <2>1, <2>2
<1>6. Len(router.ids) <= Len(router'.ids) /\ Len(router'.ids) \in Nat
  BY <1>2, <1>4
<1>7. Typed'
  <2>1. RoutesTo(router', handler', reached)
    BY <1>1, <1>2, <1>3, <1>4, <1>6 DEF RoutesTo, Typed
  <2>2. stop.todo \subseteq 1 .. Len(traces') /\ stop.recorders <= Len(traces')
    BY <1>1, <1>4, <1>5 DEF Typed, Stops
  <2> QED BY <1>1, <1>2, <1>3, <1>5, <2>1, <2>2 DEF Typed, RoutesTo, Indexed
<1>8. Closing'
  <2>1. \A t \in 1 .. stop.recorders : t \in 1 .. Len(traces)
    BY <1>1, <1>4 DEF Typed, Stops
  <2> QED BY <1>1, <1>5, <2>1 DEF Closing
<1>9. ASSUME NEW t \in 1 .. Len(traces') PROVE Kept(traces'[t], before)
  <2>1. CASE t \in 1 .. Len(traces)
    BY <1>5, <2>1 DEF PInv
  <2>2. CASE Tape(traces'[t]) = <<>> /\ Held(traces'[t])
    <3>1. Len(<<>>) = 0 /\ 1 .. 0 = {}
      OBVIOUS
    <3> QED BY <2>2, <3>1 DEF Kept, Beside, Ordered
  <2> QED BY <1>5, <2>1, <2>2
<1>10. ASSUME NEW g \in Handlers PROVE Behaves(g, traces, handler, reached, relayed)'
  <2>1. Behaves(g, traces, handler, reached, relayed)
    BY DEF PInv
  <2>2. \A t \in 1 .. Len(traces') : t \notin 1 .. Len(traces) => ~Heard(g, Tape(traces'[t]))
    <3>1. Len(<<>>) = 0 /\ 1 .. 0 = {}
      OBVIOUS
    <3> QED BY <1>5, <3>1 DEF Heard
  <2>3. CASE g # h
    <3>1. handler'[g] = handler[g] /\ TraceBy(handler, g)' = TraceBy(handler, g)
      BY <1>1, <1>3, <2>3 DEF TraceBy
    <3>2. handler[g].phase \in Past \/ g \in reached => TraceBy(handler, g) \in 1 .. Len(traces)
      BY <1>1, Types DEF Past
    <3>3. handler'[g].phase \in {"unused", "connected", "reading"} =>
              \A t \in 1 .. Len(traces') : ~Heard(g, Tape(traces'[t]))
      BY <1>5, <2>1, <2>2, <3>1 DEF Behaves
    <3>4. (handler'[g].phase \in Past \/ g \in reached)
              /\ Clean(traces'[TraceBy(handler, g)]) => Heard(g, Tape(traces'[TraceBy(handler, g)]))
      BY <1>5, <2>1, <3>1, <3>2 DEF Behaves
    <3> QED BY <1>1, <2>1, <3>1, <3>3, <3>4 DEF Behaves
  <2>4. CASE g = h
    <3>1. "routed" \notin Past
      BY DEF Past
    <3> QED BY <1>1, <1>3, <2>4, <3>1 DEF Behaves
  <2> QED BY <2>3, <2>4
<1>p. PInv'
  BY <1>1, <1>7, <1>8, <1>9, <1>10 DEF PInv
<1>t. TInv'
  <2>1. PICK t : t = TraceOf(h)'
    OBVIOUS
  <2>2. t \in 1 .. Len(traces')
    BY <1>1, <1>2, <1>3, <1>5, <2>1 DEF TraceOf
  <2>3. \A u \in 1 .. Len(traces') : u \notin 1 .. Len(traces) => \A g : ~Heard(g, Tape(traces'[u]))
    <3>1. Len(<<>>) = 0 /\ 1 .. 0 = {}
      OBVIOUS
    <3> QED BY <1>5, <3>1 DEF Heard
  <2>4. ASSUME NEW g \in Handlers, g # h PROVE Tells(g)'
    <3>v. PICK v : v = TraceOf(g)
      OBVIOUS
    <3>1. Tells(g) /\ handler'[g] = handler[g] /\ TraceOf(g)' = v
      BY <1>1, <1>3, <2>4, <3>v DEF TInv, TraceOf
    <3>2. \A u \in 1 .. Len(traces') : Heard(g, Tape(traces'[u])) => Placed(handler[g]) /\ u = v
      BY <1>5, <2>3, <3>1, <3>v DEF Tells
    <3>3. Followed(handler[g]) =>
              v \in 1 .. Len(traces) /\ (Lapsed(v) \/ Recounted(g, traces[v], Said(handler[g])))
      BY <3>1, <3>v DEF Tells
    <3>4. ASSUME v \in 1 .. Len(traces)
          PROVE  v \in 1 .. Len(traces') /\ traces'[v] = traces[v] /\ (Lapsed(v) => Lapsed(v)')
      BY <1>1, <1>4, <1>5, <3>4 DEF Lapsed
    <3> QED BY <3>1, <3>2, <3>3, <3>4 DEF Tells
  <2>5. Tells(h)'
    <3>1. ~Placed(handler[h]) /\ Shaped(handler[h]) /\ Tells(h)
      BY <1>1, ToldFacts DEF Placed, Live, e, TInv
    <3>2. \A u \in 1 .. Len(traces') : ~Heard(h, Tape(traces'[u]))
      BY <1>5, <2>3, <3>1 DEF Tells
    <3>3. Recounted(h, traces'[t], <<>>)
      BY <2>2, <3>2, NothingToTell
    <3>4. Said(handler'[h]) = <<>> /\ handler'[h].events = handler[h].events
      BY <1>1, <1>3 DEF Said, Typed, Serving
    <3>5. Shaped(handler'[h])
      BY <1>1, <1>3, <3>1, <3>4 DEF Shaped, e
    <3> QED BY <2>1, <2>2, <3>2, <3>3, <3>4, <3>5 DEF Tells
  <2> QED BY <2>4, <2>5 DEF TInv
<1> QED BY <1>p, <1>t

-----------------------------------------------------------------------------
(* The steps of the main task. *)

\* What a step of the main task may do to the stop.
Stopped ==
    /\ stop' \in Stops /\ stop'.todo \subseteq 1 .. Len(traces) /\ stop'.recorders <= Len(traces)
    /\ setting' = setting /\ router' = router /\ handler' = handler /\ counters' = counters
    /\ reached' = reached /\ relayed' = relayed /\ before' = before

LEMMA OnlyTheStop ==
    ASSUME PInv, Stopped, traces' = traces, Closing'
    PROVE  PInv'
<1>1. Typed'
  BY DEF PInv, Typed, Stopped, RoutesTo, Indexed
<1>2. ASSUME NEW g \in Handlers PROVE Behaves(g, traces, handler, reached, relayed)'
  <2>1. Behaves(g, traces, handler, reached, relayed) /\ TraceBy(handler, g)' = TraceBy(handler, g)
    BY DEF PInv, Stopped, TraceBy
  <2> QED BY <2>1 DEF Behaves, Stopped
<1> QED BY <1>1, <1>2 DEF PInv, Stopped

\* Trace t became x, which tells of the handlers what it told before.
LEMMA OnlyOneTrace ==
    ASSUME PInv, Stopped, Closing', NEW t \in 1 .. Len(traces), NEW x \in Trace,
           traces' = [traces EXCEPT ![t] = x],
           Kept(traces[t], before) => Kept(x, before),
           \A g : Heard(g, Tape(x)) <=> Heard(g, Tape(traces[t])), Clean(x) => Clean(traces[t])
    PROVE  PInv'
<1>1. /\ Typed /\ traces' \in Seq(Trace) /\ Len(traces') = Len(traces) /\ traces'[t] = x
      /\ \A u \in 1 .. Len(traces) : u # t => traces'[u] = traces[u]
  BY TraceReplaced DEF PInv
<1>2. Typed'
  BY <1>1 DEF Typed, Stopped, RoutesTo, Indexed
<1>3. \A u \in 1 .. Len(traces') : Kept(traces'[u], before')
  BY <1>1 DEF PInv, Stopped
<1>4. \A u \in 1 .. Len(traces) : Clean(traces'[u]) => Clean(traces[u])
  BY <1>1
<1>5. ASSUME NEW g \in Handlers PROVE Behaves(g, traces, handler, reached, relayed)'
  <2>1. Behaves(g, traces, handler, reached, relayed) /\ TraceBy(handler, g)' = TraceBy(handler, g)
    BY DEF PInv, Stopped, TraceBy
  <2>2. \A u \in 1 .. Len(traces) : Heard(g, Tape(traces'[u])) <=> Heard(g, Tape(traces[u]))
    BY <1>1
  <2>3. handler[g].phase \in Past \/ g \in reached => TraceBy(handler, g) \in 1 .. Len(traces)
    BY <1>1, Types DEF Past
  <2>4. handler[g].phase \in {"unused", "connected", "reading"} =>
            \A u \in 1 .. Len(traces') : ~Heard(g, Tape(traces'[u]))
    BY <1>1, <2>1, <2>2 DEF Behaves
  <2>5. (handler[g].phase \in Past \/ g \in reached)
            /\ Clean(traces'[TraceBy(handler, g)]) => Heard(g, Tape(traces'[TraceBy(handler, g)]))
    BY <1>4, <2>1, <2>2, <2>3 DEF Behaves
  <2> QED BY <2>1, <2>4, <2>5 DEF Behaves, Stopped
<1> QED BY <1>2, <1>3, <1>5 DEF PInv, Stopped

\* Likewise of what the handlers have told.
LEMMA StopTells ==
    ASSUME PInv, TInv, Stopped, traces' = traces, \A u \in 1 .. Len(traces) : Lapsed(u) => Lapsed(u)'
    PROVE  TInv'
<1> SUFFICES ASSUME NEW g \in Handlers PROVE Tells(g)'
  BY DEF TInv
<1>v. PICK v : v = TraceOf(g)
  OBVIOUS
<1>1. Tells(g) /\ handler'[g] = handler[g] /\ TraceOf(g)' = v
  BY <1>v DEF TInv, Stopped, TraceOf
<1>2. Followed(handler[g]) =>
          v \in 1 .. Len(traces) /\ (Lapsed(v) \/ Recounted(g, traces[v], Said(handler[g])))
  BY <1>1, <1>v DEF Tells
<1> QED BY <1>1, <1>2, <1>v DEF Tells

LEMMA OneTraceTells ==
    ASSUME PInv, TInv, Stopped, NEW t \in 1 .. Len(traces), NEW x \in Trace,
           traces' = [traces EXCEPT ![t] = x],
           \A g : Heard(g, Tape(x)) <=> Heard(g, Tape(traces[t])),
           \A u \in 1 .. Len(traces) : u # t /\ Lapsed(u) => Lapsed(u)',
           Lapsed(t) => Lapsed(t)',
           \A g, s : Recounted(g, traces[t], s) => Lapsed(t)' \/ Recounted(g, x, s)
    PROVE  TInv'
<1> SUFFICES ASSUME NEW g \in Handlers PROVE Tells(g)'
  BY DEF TInv
<1>v. PICK v : v = TraceOf(g)
  OBVIOUS
<1>1. Tells(g) /\ handler'[g] = handler[g] /\ TraceOf(g)' = v
  BY <1>v DEF TInv, Stopped, TraceOf
<1>2. /\ Len(traces') = Len(traces) /\ traces'[t] = x
      /\ \A u \in 1 .. Len(traces) : u # t => traces'[u] = traces[u]
  BY TraceReplaced DEF PInv
<1>3. Followed(handler[g]) =>
          v \in 1 .. Len(traces) /\ (Lapsed(v) \/ Recounted(g, traces[v], Said(handler[g])))
  BY <1>1, <1>v DEF Tells
<1>4. \A u \in 1 .. Len(traces') : Heard(g, Tape(traces'[u])) => Placed(handler[g]) /\ u = v
  BY <1>1, <1>2, <1>v DEF Tells
<1>5. Followed(handler[g]) =>
          v \in 1 .. Len(traces') /\ (Lapsed(v)' \/ Recounted(g, traces'[v], Said(handler[g])))
  <2>1. CASE v = t
    BY <1>2, <1>3, <2>1
  <2>2. CASE v # t
    BY <1>2, <1>3, <2>2
  <2> QED BY <2>1, <2>2
<1> QED BY <1>1, <1>4, <1>5 DEF Tells

LEMMA StopFields ==
    ASSUME Typed
    PROVE  /\ stop \in Stops /\ stop.phase \in {"serving", "stopping", "closing", "finishing", "exited"}
           /\ stop.todo \subseteq 1 .. Len(traces) /\ stop.recorders <= Len(traces)
           /\ stop.event \in {"transport-close", "transport-abort"}
           /\ stop.recorders \in Nat /\ stop.signals \in Nat /\ stop.todo \in SUBSET Nat
           /\ Len(traces) \in Nat /\ 1 .. Len(traces) \in SUBSET Nat
  BY Types DEF Typed, Stops

LEMMA SignalKeeps ==
    ASSUME PInv, TInv, Signal
    PROVE  PInv' /\ TInv'
<1>1. /\ Typed /\ Closing /\ stop.phase = "serving" /\ traces' = traces
      /\ stop' = [stop EXCEPT !.phase = "stopping", !.signals = stop.signals + 1]
  BY DEF PInv, Signal
<1>2. /\ stop' \in Stops /\ stop'.phase = "stopping"
      /\ stop'.todo = stop.todo /\ stop'.recorders = stop.recorders
  <2>1. stop.signals + 1 \in Nat
    BY <1>1, StopFields
  <2> QED BY <1>1, <2>1, StopFields DEF Stops
<1>3. Stopped
  BY <1>1, <1>2, StopFields DEF Stopped, Signal
<1>4. Closing'
  BY <1>1, <1>2 DEF Closing
<1>p. PInv'
  BY <1>1, <1>3, <1>4, OnlyTheStop
<1>t. TInv'
  <2>1. \A u \in 1 .. Len(traces) : ~Lapsed(u)
    BY <1>1 DEF Lapsed
  <2> QED BY <1>1, <1>3, <2>1, StopTells
<1> QED BY <1>p, <1>t

LEMMA CloseAllKeeps ==
    ASSUME PInv, TInv, stop.phase = "stopping", NEW event \in {"transport-close", "transport-abort"},
           CloseAll(event)
    PROVE  PInv' /\ TInv'
<1>1. /\ Typed /\ Closing /\ traces' = traces
      /\ stop' = [stop EXCEPT !.phase = "closing", !.event = event,
                              !.recorders = Len(traces), !.todo = 1 .. Len(traces)]
  BY DEF PInv, CloseAll
<1>2. /\ stop' \in Stops /\ stop'.phase = "closing"
      /\ stop'.todo = 1 .. Len(traces) /\ stop'.recorders = Len(traces)
  BY <1>1, StopFields DEF Stops
<1>3. Stopped
  BY <1>1, <1>2, StopFields DEF Stopped, CloseAll
<1>4. Closing'
  BY <1>1, <1>2 DEF Closing
<1>p. PInv'
  BY <1>1, <1>3, <1>4, OnlyTheStop
<1>t. TInv'
  <2>1. \A u \in 1 .. Len(traces) : ~Lapsed(u)
    BY <1>1 DEF Lapsed
  <2> QED BY <1>1, <1>3, <2>1, StopTells
<1> QED BY <1>p, <1>t

LEMMA StartFinishKeeps ==
    ASSUME PInv, TInv, StartFinish
    PROVE  PInv' /\ TInv'
<1>1. /\ Typed /\ Closing /\ stop.phase = "closing" /\ stop.todo = {} /\ traces' = traces
      /\ stop' = [stop EXCEPT !.phase = "finishing", !.todo = 1 .. Len(traces)]
  BY DEF PInv, StartFinish
<1>2. /\ stop' \in Stops /\ stop'.phase = "finishing" /\ stop'.event = stop.event
      /\ stop'.todo = 1 .. Len(traces) /\ stop'.recorders = stop.recorders
  BY <1>1, StopFields DEF Stops
<1>3. Stopped
  BY <1>1, <1>2, StopFields DEF Stopped, StartFinish
<1>4. Closing'
  BY <1>1, <1>2 DEF Closing
<1>p. PInv'
  BY <1>1, <1>3, <1>4, OnlyTheStop
<1>t. TInv'
  <2>1. \A u \in 1 .. Len(traces) : ~Lapsed(u)
    BY <1>1 DEF Lapsed
  <2> QED BY <1>1, <1>3, <2>1, StopTells
<1> QED BY <1>p, <1>t

LEMMA ExitKeeps ==
    ASSUME PInv, TInv, Exit
    PROVE  PInv' /\ TInv'
<1>1. /\ Typed /\ Closing /\ stop.phase = "finishing" /\ traces' = traces
      /\ stop' = [stop EXCEPT !.phase = "exited"]
  BY DEF PInv, Exit
<1>2. /\ stop' \in Stops /\ stop'.phase = "exited" /\ stop'.event = stop.event
      /\ stop'.todo = stop.todo /\ stop'.recorders = stop.recorders
  BY <1>1, StopFields DEF Stops
<1>3. Stopped
  BY <1>1, <1>2, StopFields DEF Stopped, Exit
<1>4. Closing'
  BY <1>1, <1>2 DEF Closing
<1>p. PInv'
  BY <1>1, <1>3, <1>4, OnlyTheStop
<1>t. TInv'
  <2>1. \A u \in 1 .. Len(traces) : Lapsed(u) => Lapsed(u)'
    BY <1>1, <1>2 DEF Lapsed
  <2> QED BY <1>1, <1>3, <2>1, StopTells
<1> QED BY <1>p, <1>t

\* The events of the stop are of no handler.
LEMMA LifecycleFacts ==
    ASSUME NEW event \in {"transport-close", "transport-abort"},
           NEW e, e = LifecycleEvent(C2S, event)
    PROVE  /\ e \in Events /\ e.body # "message"
           /\ \A line : line.ev = e => \A g : ~IsOf(g, line)
<1>1. e \in Events
  BY DEF Events
<1>2. e.body = event /\ "of" \notin DOMAIN e
  BY DEF LifecycleEvent
<1> QED BY <1>1, <1>2 DEF IsOf

\* A trace given such an event tells of the handlers what it told before.
LEMMA LifecycleLeaves ==
    ASSUME NEW r \in Trace, NEW e \in Events, NEW x, Given(r, x, e), e.body # "message",
           \A line : line.ev = e => \A g : ~IsOf(g, line)
    PROVE  /\ \A g : Heard(g, Tape(x)) <=> Heard(g, Tape(r))
           /\ Clean(x) => Clean(r)
           /\ \A pairs : Kept(r, pairs) => Kept(x, pairs)
<1> DEFINE T == Tape(r)
           U == Tape(x)
<1>1. T \in Seq(Lines) /\ (Clean(x) => Clean(r)) /\ (Held(r) => Held(x))
  BY TapeType DEF Given
<1>2. CASE U = T
  BY <1>1, <1>2 DEF Kept
<1>3. ASSUME NEW line \in Lines, line.ev = e, U = Append(T, line)
      PROVE  /\ \A g : Heard(g, U) <=> Heard(g, T)
             /\ \A pairs : Kept(r, pairs) => Kept(x, pairs)
  <2> HIDE DEF T, U
  <2> DEFINE n == Len(T)
  <2>1. /\ n \in Nat /\ Len(U) = n + 1 /\ U[n + 1] = line
        /\ \A i \in 1 .. n : U[i] = T[i]
    BY <1>1, <1>3, Longer DEF Extended
  <2>2. \A g : ~IsOf(g, line)
    BY <1>3
  <2> HIDE DEF n
  <2>3. \A i \in 1 .. n + 1 : i \in 1 .. n \/ i = n + 1
    BY <2>1
  <2>4. \A i \in 1 .. n : i \in 1 .. n + 1
    BY <2>1
  <2>5. ASSUME NEW g PROVE Heard(g, U) <=> Heard(g, T)
    BY <2>1, <2>2, <2>3, <2>4 DEF Heard, n
  <2>6. ASSUME NEW pairs, Ordered(T, pairs) PROVE Ordered(U, pairs)
    BY <2>1, <2>2, <2>3, <2>6 DEF Ordered, IsAnswer, n
  <2>7. Beside(T) => Beside(U)
    BY <1>1, <1>3, BesideAppend
  <2> QED BY <1>1, <2>5, <2>6, <2>7 DEF Kept, T, U
<1> QED BY <1>1, <1>2, <1>3 DEF Given

LEMMA CloseTraceKeeps ==
    ASSUME PInv, TInv, NEW t \in 1 .. Len(traces), CloseTrace(t)
    PROVE  PInv' /\ TInv'
<1> DEFINE e == LifecycleEvent(C2S, stop.event)
           r == traces[t]
<1>1. /\ Typed /\ Closing /\ r \in Trace /\ stop.phase = "closing" /\ t \in stop.todo
      /\ stop' = [stop EXCEPT !.todo = stop.todo \ {t}] /\ ~r.closed
      /\ e \in Events /\ e.body # "message"
      /\ \A line : line.ev = e => \A g : ~IsOf(g, line)
  <2>1. Typed /\ Closing /\ r \in Trace /\ stop.phase = "closing" /\ t \in stop.todo
        /\ stop' = [stop EXCEPT !.todo = stop.todo \ {t}]
    BY Types DEF PInv, CloseTrace
  <2>2. ~r.closed
    BY <2>1, Fields DEF Closing
  <2> QED BY <2>1, <2>2, StopFields, LifecycleFacts
<1>2. PICK w \in Close(r, e) : traces' = [traces EXCEPT ![t] = w.rec]
  BY DEF CloseTrace, After
<1> DEFINE y == w.rec
<1> HIDE DEF e, r
<1>3. PICK x : /\ Given(r, x, e) /\ w.rec \in Trace /\ Sealed(w.rec, e)
               /\ w.rec.dropped = x.dropped /\ w.rec.afterClose = x.afterClose
               /\ w.rec.lines = x.lines /\ w.rec.held = x.held
  BY <1>1, CloseSeals
<1> HIDE DEF y
<1>4. /\ y \in Trace /\ Sealed(y, e) /\ Tape(y) = Tape(x)
      /\ Clean(y) = Clean(x) /\ Held(y) = Held(x) /\ traces' = [traces EXCEPT ![t] = y]
  BY <1>2, <1>3 DEF y, Tape, Clean, Held
<1>5. /\ \A g : Heard(g, Tape(y)) <=> Heard(g, Tape(r))
      /\ Clean(y) => Clean(r)
      /\ Kept(r, before) => Kept(y, before)
  BY <1>1, <1>3, <1>4, LifecycleLeaves DEF Kept
<1>6. /\ stop' \in Stops /\ stop'.phase = "closing" /\ stop'.event = stop.event
      /\ stop'.todo = stop.todo \ {t} /\ stop'.recorders = stop.recorders
  BY <1>1, StopFields DEF Stops
<1>7. Stopped
  BY <1>1, <1>6, StopFields DEF Stopped, CloseTrace
<1>8. Closing'
  <2>1. /\ Len(traces') = Len(traces) /\ traces'[t] = y
        /\ \A u \in 1 .. Len(traces) : u # t => traces'[u] = traces[u]
    BY <1>1, <1>4, TraceReplaced
  <2>2. t <= stop.recorders /\ \A u \in 1 .. stop.recorders : u \in 1 .. Len(traces)
    BY <1>1, StopFields DEF Closing
  <2>3. \A u \in 1 .. Len(traces') : traces'[u].closed => u <= stop.recorders /\ u \notin stop.todo \ {t}
    BY <1>1, <2>1, <2>2 DEF Closing
  <2>4. \A u \in 1 .. stop.recorders : u \in stop.todo \ {t} \/ Sealed(traces'[u], e)
    BY <1>1, <1>4, <2>1, <2>2 DEF Closing, e
  <2>5. stop.todo \ {t} \subseteq 1 .. stop.recorders
    BY <1>1 DEF Closing
  <2> QED BY <1>6, <2>3, <2>4, <2>5 DEF Closing, e
<1>p. PInv'
  BY <1>4, <1>5, <1>7, <1>8, OnlyOneTrace DEF r
<1>t. TInv'
  <2>1. \A u \in 1 .. Len(traces) : ~Lapsed(u)
    BY <1>1 DEF Lapsed
  <2>2. ASSUME NEW g, NEW s, Recounted(g, r, s) PROVE Recounted(g, y, s)
    <3>1. Recounted(g, x, s)
      <4>1. \A line : line.ev = e => ~IsOf(g, line)
        BY <1>1
      <4> QED BY <1>1, <1>3, <2>2, <4>1, GivenLeaves
    <3>2. Lost(x) => Lost(y)
      BY <1>4 DEF Lost, Sealed, Stuck
    <3> QED BY <1>4, <3>1, <3>2 DEF Recounted
  <2> QED BY <1>4, <1>5, <1>7, <2>1, <2>2, OneTraceTells DEF r
<1> QED BY <1>p, <1>t

LEMMA FinishTraceKeeps ==
    ASSUME PInv, TInv, NEW t \in 1 .. Len(traces), FinishTrace(t)
    PROVE  PInv' /\ TInv'
<1> DEFINE r == traces[t]
<1>1. /\ Typed /\ Closing /\ r \in Trace /\ stop.phase = "finishing"
      /\ stop' = [stop EXCEPT !.todo = stop.todo \ {t}]
  BY Types DEF PInv, FinishTrace
<1>2. PICK f \in Finish(r) : traces' = [traces EXCEPT ![t] = f.rec]
  BY DEF FinishTrace
<1> DEFINE x == f.rec
<1> HIDE DEF r
<1>3. /\ x \in Trace /\ Tape(x) = Tape(r) /\ x.closed = r.closed
      /\ x.dropped = r.dropped /\ x.afterClose = r.afterClose /\ (Held(r) => Held(x))
  BY <1>1, FinishKeeps
<1> HIDE DEF x
<1>4. /\ Clean(x) = Clean(r) /\ \A e : Sealed(r, e) => Sealed(x, e)
      /\ Kept(r, before) => Kept(x, before)
  BY <1>3 DEF Clean, Sealed, Kept
<1>5. /\ stop' \in Stops /\ stop'.phase = "finishing" /\ stop'.event = stop.event
      /\ stop'.todo = stop.todo \ {t} /\ stop'.recorders = stop.recorders
  BY <1>1, StopFields DEF Stops
<1>6. Stopped
  BY <1>1, <1>5, StopFields DEF Stopped, FinishTrace
<1>7. Closing'
  <2>1. /\ Len(traces') = Len(traces) /\ traces'[t] = x
        /\ \A u \in 1 .. Len(traces) : u # t => traces'[u] = traces[u]
    BY <1>1, <1>2, <1>3, TraceReplaced DEF x
  <2>2. \A u \in 1 .. stop.recorders : u \in 1 .. Len(traces)
    BY <1>1, StopFields
  <2>3. \A u \in 1 .. Len(traces) : traces'[u].closed = traces[u].closed
    BY <1>3, <2>1 DEF r
  <2>4. \A u \in 1 .. Len(traces) : \A e : Sealed(traces[u], e) => Sealed(traces'[u], e)
    BY <1>4, <2>1 DEF r
  <2> QED BY <1>1, <1>5, <2>1, <2>2, <2>3, <2>4 DEF Closing
<1>p. PInv'
  BY <1>2, <1>3, <1>4, <1>6, <1>7, OnlyOneTrace DEF r, x
<1>t. TInv'
  <2>1. \A g, s : Recounted(g, r, s) => Lost(r) \/ Recounted(g, x, s)
    BY <1>3 DEF Recounted
  <2>2. Lost(r) => Lapsed(t)' \/ Lost(x)
    <3>1. CASE r.closed
      BY <1>3, <1>4, <3>1 DEF Lost, Stuck
    <3>2. ASSUME ~r.closed, r.dropped # 0 PROVE Lapsed(t)'
      <4>1. r.dropped \in Nat /\ x.dropped > 0
        BY <1>1, <1>3, <3>2, Fields
      <4>2. traces'[t] = x
        BY <1>1, <1>2, <1>3, TraceReplaced DEF x
      <4>3. t > stop.recorders
        <5>1. t \notin 1 .. stop.recorders
          BY <1>1, <3>2 DEF Closing, Sealed, r
        <5> QED BY <1>1, <5>1, StopFields
      <4> QED BY <1>5, <4>1, <4>2, <4>3 DEF Lapsed
    <3> QED BY <3>1, <3>2 DEF Lost
  <2>3. ASSUME NEW g, NEW s, Recounted(g, r, s), ~Lapsed(t)' PROVE Recounted(g, x, s)
    BY <1>3, <2>2, <2>3 DEF Recounted
  <2>4. /\ \A u \in 1 .. Len(traces) : u # t => traces'[u] = traces[u]
        /\ traces'[t] = x
    BY <1>1, <1>2, <1>3, TraceReplaced DEF x
  <2>5. \A u \in 1 .. Len(traces) : Lapsed(u) => Lapsed(u)'
    BY <1>1, <1>3, <1>5, <2>4 DEF Lapsed, r
  <2> QED BY <1>2, <1>3, <1>6, <2>3, <2>5, OneTraceTells DEF r, x
<1> QED BY <1>p, <1>t

-----------------------------------------------------------------------------
(* The invariant holds at first and is kept by every step. *)

LEMMA InitHolds ==
    ASSUME Init
    PROVE  PInv /\ TInv
<1>1. setting \in Setting
  BY HttpProxyAssumption DEF Init
<1> DEFINE n == New("buffered")
<1>2. n \in Trace /\ Tape(n) = <<>> /\ ~n.closed /\ Held(n)
  BY NewTrace DEF Sinks
<1> HIDE DEF n
<1>3. traces = IF setting.perSession THEN <<>> ELSE <<n>>
  BY DEF Init, n
<1>4. /\ traces \in Seq(Trace) /\ Len(traces) = IF setting.perSession THEN 0 ELSE 1
      /\ \A t \in 1 .. Len(traces) : traces[t] = n
  BY <1>2, <1>3
<1>5. router \in Routers /\ Len(router.ids) = 0 /\ Indexed(router)
  <2>1. /\ router.ids = <<>> /\ router.byId = [id \in Ids |-> 0]
        /\ router.current = 0 /\ router.unseen = 0
    BY DEF Init, NewRouter
  <2>2. <<>> \in Seq(MaybeIds) /\ Len(<<>>) = 0 /\ [id \in Ids |-> 0] \in [Ids -> Nat]
    OBVIOUS
  <2>3. router \in Routers
    BY <2>2 DEF Init, NewRouter, Routers
  <2> QED BY <2>1, <2>2, <2>3 DEF Indexed
<1>6. \A h \in Handlers : handler[h] = Unused /\ handler[h].phase = "unused"
  BY DEF Init, Unused
<1>7. Unused \in Serving
  BY DEF Unused, Serving, NoRequest, NoAnswer, Requests, Answers, Methods, MaybeIds,
         RequestBodies, AnswerBodies, Routes, HandlerPhases, Fates
<1>8. Typed
  <2>1. handler \in [Handlers -> Serving] /\ counters \in [CounterNames -> Nat]
    BY <1>7 DEF Init
  <2>2. stop \in Stops /\ stop.todo \subseteq 1 .. Len(traces) /\ stop.recorders <= Len(traces)
    BY <1>4 DEF Init, Stops
  <2>3. RoutesTo(router, handler, reached)
    BY <1>6 DEF RoutesTo, Init, Live
  <2> QED BY <1>4, <1>5, <2>1, <2>2, <2>3 DEF Typed, Init
<1>9. Closing
  BY <1>2, <1>4 DEF Closing, Init
<1>10. 1 .. Len(<<>>) = {}
  OBVIOUS
<1>11. \A t \in 1 .. Len(traces) : Kept(traces[t], before)
  BY <1>2, <1>4, <1>10 DEF Kept, Beside, Ordered
<1>12. ASSUME NEW h \in Handlers PROVE Behaves(h, traces, handler, reached, relayed)
  <2>1. \A t \in 1 .. Len(traces) : ~Heard(h, Tape(traces[t]))
    BY <1>2, <1>4, <1>10 DEF Heard
  <2>2. "unused" \notin Past /\ reached = {} /\ relayed = {}
    BY DEF Past, Live, Init
  <2> QED BY <1>6, <2>1, <2>2 DEF Behaves
<1>13. ASSUME NEW h \in Handlers PROVE Tells(h)
  <2>1. \A t \in 1 .. Len(traces) : ~Heard(h, Tape(traces[t]))
    BY <1>2, <1>4, <1>10 DEF Heard
  <2>2. ~Followed(Unused) /\ Shaped(Unused)
    BY DEF Followed, Placed, Live, Shaped, Unused
  <2> QED BY <1>6, <2>1, <2>2 DEF Tells
<1> QED BY <1>8, <1>9, <1>11, <1>12, <1>13 DEF PInv, Init, TInv

LEMMA HandlerStepKeeps ==
    ASSUME PInv, TInv, NEW h \in Handlers, HandlerStep(h)
    PROVE  PInv' /\ TInv'
<1>1. CASE Connect(h)
  BY <1>1, ConnectKeeps
<1>2. CASE \E req \in setting.requests : Arrive(h, req)
  BY <1>2, ArriveKeeps
<1>3. CASE Refuse(h)
  BY <1>3, RefuseKeeps
<1>4. CASE RouteRequest(h)
  BY <1>4, RouteRequestKeeps
<1>5. CASE RecordRequest(h)
  BY <1>5, RecordRequestKeeps
<1>6. CASE AbortRequest(h)
  BY <1>6, AbortRequestKeeps
<1>7. CASE BodyStalled(h)
  BY <1>7, BodyStalledKeeps
<1>8. CASE Forward(h)
  BY <1>8, ForwardKeeps
<1>9. CASE UpstreamFailed(h)
  BY <1>9, UpstreamFailedKeeps
<1>10. CASE \E ans \in setting.answers : Answer(h, ans)
  BY <1>10, AnswerKeeps
<1>11. CASE EndSession(h)
  BY <1>11, EndSessionKeeps
<1>12. CASE RespondTo(h)
  BY <1>12, RespondToKeeps
<1>13. CASE RecordAnswer(h)
  BY <1>13, RecordAnswerKeeps
<1>14. CASE UpstreamCut(h)
  BY <1>14, UpstreamCutKeeps
<1>15. CASE RecordStream(h)
  BY <1>15, RecordStreamKeeps
<1>16. CASE StreamEvent(h)
  BY <1>16, StreamEventKeeps
<1>17. CASE StreamEnds(h) \/ StreamStopped(h) \/ ClientLeaves(h)
  BY <1>17, LeavingKeeps
<1> QED BY <1>1, <1>2, <1>3, <1>4, <1>5, <1>6, <1>7, <1>8, <1>9, <1>10, <1>11, <1>12, <1>13,
           <1>14, <1>15, <1>16, <1>17 DEF HandlerStep

LEMMA StepKeeps ==
    ASSUME PInv, TInv, [Next]_vars
    PROVE  PInv' /\ TInv'
<1>1. CASE \E h \in Handlers : HandlerStep(h)
  BY <1>1, HandlerStepKeeps
<1>2. CASE MainStep
  BY <1>2, CloseTraceKeeps, FinishTraceKeeps, StartFinishKeeps, ExitKeeps DEF MainStep
<1>3. CASE Signal
  BY <1>3, SignalKeeps
<1>4. CASE SecondSignal \/ ServerDone \/ GraceElapsed
  <2>1. stop.phase = "stopping" /\ (CloseAll("transport-abort") \/ CloseAll("transport-close"))
    BY <1>4 DEF SecondSignal, ServerDone, GraceElapsed
  <2> QED BY <2>1, CloseAllKeeps
<1>5. CASE UNCHANGED vars
  <2>1. Typed /\ Closing /\ traces' = traces /\ stop' = stop
    BY <1>5 DEF vars, PInv
  <2>2. Stopped
    BY <1>5, <2>1, StopFields DEF Stopped, vars
  <2>3. Closing'
    BY <2>1 DEF Closing
  <2>4. \A u \in 1 .. Len(traces) : Lapsed(u) => Lapsed(u)'
    BY <2>1 DEF Lapsed
  <2> QED BY <2>1, <2>2, <2>3, <2>4, OnlyTheStop, StopTells
<1> QED BY <1>1, <1>2, <1>3, <1>4, <1>5 DEF Next

LEMMA Invariance == Spec => [](PInv /\ TInv)
<1>1. Init => PInv /\ TInv
  BY InitHolds
<1>2. PInv /\ TInv /\ [Next]_vars => (PInv /\ TInv)'
  BY StepKeeps
<1> QED BY <1>1, <1>2, PTL DEF Spec

-----------------------------------------------------------------------------
(* The theorems. *)

\* Routes, traces, handlers and counters stay well formed whatever clients,
\* the upstream and the stop do: in particular a handler past the router always
\* has a trace to record into.
THEOREM TypeCorrect == Spec => []TypeOK
<1>1. ASSUME PInv PROVE TypeOK
  <2>1. Typed
    BY <1>1 DEF PInv
  <2>2. \A t \in 1 .. Len(traces) : traces[t] \in RecordersOver(Events, Ids)
    BY <2>1, Types DEF Trace
  <2>3. ASSUME NEW h \in Handlers
        PROVE  /\ handler[h].phase \in HandlerPhases
               /\ handler[h].fate \in Fates
               /\ handler[h].phase \notin {"unused", "connected", "reading", "done"} =>
                     handler[h].route.index \in 1 .. Len(router.ids)
    BY <2>1 DEF Typed, RoutesTo, Serving, Live
  <2> QED BY <2>1, <2>2, <2>3 DEF Typed, TypeOK
<1> QED BY <1>1, Invariance, PTL

\* A message is the line after the http event of its own exchange in every
\* trace of every proxy: the pair is recorded under one lock, and a trace cut
\* short by a failed write loses lines only at its end (relay.rs:103-106).
THEOREM MessagesStayBeside == Spec => []MessageBesideItsHeaders
<1>1. ASSUME PInv PROVE MessageBesideItsHeaders
  <2> SUFFICES ASSUME NEW t \in 1 .. Len(traces), NEW i \in 1 .. Len(traces[t].lines),
                      traces[t].lines[i].ev.body = "message",
                      traces[t].lines[i].ev.part # "event"
               PROVE  /\ i > 1
                      /\ IsOf(traces[t].lines[i].ev.of, traces[t].lines[i - 1])
                      /\ traces[t].lines[i - 1].ev.body = "http"
                      /\ traces[t].lines[i - 1].ev.part = traces[t].lines[i].ev.part
    BY DEF MessageBesideItsHeaders
  <2> DEFINE r == traces[t]
             n == Len(r.lines)
             m == Len(Tape(r))
  <2>1. r \in Trace /\ Beside(Tape(r))
    BY <1>1, Types DEF PInv, Kept
  <2>2. /\ n \in Nat /\ m \in Nat /\ n <= m
        /\ \A j \in 1 .. n : Tape(r)[j] = r.lines[j]
    BY <2>1, TapeType
  <2>3. i \in 1 .. m /\ Tape(r)[i] = r.lines[i] /\ (i > 1 => Tape(r)[i - 1] = r.lines[i - 1])
    <3>1. i \in 1 .. n
      OBVIOUS
    <3> HIDE DEF n, m, r
    <3>2. i \in 1 .. m /\ (i > 1 => i - 1 \in 1 .. n)
      BY <2>2, <3>1
    <3> QED BY <2>2, <3>1, <3>2
  <2> QED BY <2>1, <2>3 DEF Beside
<1> QED BY <1>1, Invariance, PTL

\* An exchange that is over is told in one trace, whole and in order, by how
\* it ended, for every proxy: of a trace that lost events it is told as far as
\* it goes, until the stop has finished one it could not close, and a request
\* the proxy refused is in no trace (relay.rs, answers.rs:4-9).
THEOREM EveryStoryIsTold == Spec => []StoryIsTold
<1>1. ASSUME PInv, TInv PROVE StoryIsTold
  <2> SUFFICES ASSUME NEW h \in Handlers, handler[h].phase = "done", handler[h].fate # "left",
                      NEW t \in 1 .. Len(traces), NEW rec, rec = traces[t],
                      NEW story, story = Story(handler[h])
               PROVE  IF handler[h].fate = "refused" \/ t # TraceOf(h)
                      THEN Places(h, rec.lines) = {}
                      ELSE /\ Lapsed(t) \/ Recounts(h, rec.lines, story)
                           /\ rec.dropped + rec.afterClose = 0 =>
                                 Cardinality(Places(h, rec.lines)) = Len(story)
    BY DEF StoryIsTold
  <2>1. rec \in Trace /\ Held(rec) /\ Tells(h)
    BY <1>1, Types DEF PInv, Kept, TInv
  <2> DEFINE L == rec.lines
             T == Tape(rec)
  <2>2. /\ T \in Seq(Lines) /\ Len(T) \in Nat /\ Len(L) \in Nat /\ Len(L) <= Len(T)
        /\ \A i \in 1 .. Len(L) : T[i] = L[i]
        /\ rec.held = <<>> => T = L
        /\ rec.dropped \in Nat /\ rec.afterClose \in Nat
    BY <2>1, TapeType, Fields
  <2> HIDE DEF L, T
  <2>3. /\ Places(h, L) \subseteq Places(h, T)
        /\ \A i \in Places(h, L) : Rank(h, L, i) = Rank(h, T, i)
    <3>1. Places(h, L) \subseteq Places(h, T)
      BY <2>2 DEF Places
    <3>2. ASSUME NEW i \in Places(h, L)
          PROVE  {j \in Places(h, L) : j <= i} = {j \in Places(h, T) : j <= i}
      BY <2>2 DEF Places
    <3> QED BY <3>1, <3>2 DEF Rank
  <2>4. CASE handler[h].fate = "refused" \/ t # TraceOf(h)
    <3>1. ~Heard(h, T)
      BY <2>1, <2>4 DEF Tells, Placed, Live, T
    <3>2. Places(h, T) = {}
      BY <3>1, NothingToTell DEF T
    <3> QED BY <2>3, <2>4, <3>2 DEF L
  <2>5. CASE ~(handler[h].fate = "refused" \/ t # TraceOf(h))
    <3>1. Followed(handler[h]) /\ Said(handler[h]) = story
      BY <2>5 DEF Followed, Placed, Said
    <3>2. Lapsed(t) \/ Recounted(h, rec, story)
      BY <2>1, <2>5, <3>1 DEF Tells
    <3>3. Recounts(h, T, story) => Recounts(h, L, story)
      BY <2>2, <2>3 DEF Recounts, Places
    <3>4. ASSUME rec.dropped + rec.afterClose = 0
          PROVE  Cardinality(Places(h, L)) = Len(story)
      <4>1. rec.dropped = 0 /\ rec.afterClose = 0
        BY <2>2, <3>4
      <4>2. Clean(rec) /\ ~Lapsed(t) /\ T = L
        BY <2>1, <2>2, <4>1 DEF Clean, Lapsed, Held
      <4> QED BY <3>2, <4>2 DEF Recounted, Lost, T
    <3> QED BY <2>5, <3>2, <3>3, <3>4 DEF Recounted, T, L
  <2> QED BY <2>4, <2>5
<1> QED BY <1>1, Invariance, PTL

\* In one trace an answer its client had received is ahead of every request
\* sent afterwards, and what the upstream received is in the trace of its
\* exchange, unless that lost a line (traces.rs:261-265).
THEOREM CausesComeFirst == Spec => []CausalOrder
<1>1. ASSUME PInv PROVE CausalOrder
  <2>1. ASSUME NEW h \in reached, Clean(traces[TraceOf(h)])
        PROVE  \E i \in 1 .. Len(traces[TraceOf(h)].lines) : IsOf(h, traces[TraceOf(h)].lines[i])
    <3> DEFINE r == traces[TraceOf(h)]
    <3>1. h \in Handlers /\ TraceOf(h) \in 1 .. Len(traces) /\ r \in Trace
          /\ TraceOf(h) = TraceBy(handler, h)
      <4>1. h \in Handlers
        BY <1>1 DEF PInv, Typed
      <4> QED BY <1>1, <4>1, Types DEF PInv
    <3>2. Held(r) /\ Heard(h, Tape(r))
      BY <1>1, <2>1, <3>1 DEF PInv, Kept, Behaves
    <3>3. Tape(r) = r.lines
      BY <2>1, <3>1, <3>2, TapeType DEF Held, Clean
    <3> QED BY <3>2, <3>3 DEF Heard
  <2>2. ASSUME NEW t \in 1 .. Len(traces), NEW i \in 1 .. Len(traces[t].lines),
               NEW j \in 1 .. Len(traces[t].lines), NEW pair \in before,
               IsAnswer(pair[1], traces[t].lines[i]), IsOf(pair[2], traces[t].lines[j])
        PROVE  i < j
    <3> DEFINE r == traces[t]
               n == Len(r.lines)
               m == Len(Tape(r))
    <3>1. r \in Trace /\ Ordered(Tape(r), before)
      BY <1>1, Types DEF PInv, Kept
    <3>2. /\ n \in Nat /\ m \in Nat /\ n <= m
          /\ \A k \in 1 .. n : Tape(r)[k] = r.lines[k]
      BY <3>1, TapeType
    <3>3. i \in 1 .. m /\ j \in 1 .. m
      BY <3>2
    <3>4. Tape(r)[i] = r.lines[i] /\ Tape(r)[j] = r.lines[j]
      BY <3>2
    <3> QED BY <2>2, <3>1, <3>3, <3>4 DEF Ordered
  <2>3. ASSUME NEW h \in reached, traces[TraceOf(h)].dropped + traces[TraceOf(h)].afterClose = 0
        PROVE  Clean(traces[TraceOf(h)])
    <3> DEFINE r == traces[TraceOf(h)]
    <3>1. r \in Trace
      BY <1>1, Types DEF PInv, Typed
    <3>2. r.dropped \in Nat /\ r.afterClose \in Nat /\ r.dropped + r.afterClose = 0
      BY <2>3, <3>1, Fields
    <3> HIDE DEF r
    <3>3. r.dropped = 0 /\ r.afterClose = 0
      BY <3>2
    <3> QED BY <3>3 DEF Clean, r
  <2>4. \A h \in reached :
            LET rec == traces[TraceOf(h)]
            IN  rec.dropped + rec.afterClose = 0 =>
                    \E i \in 1 .. Len(rec.lines) : IsOf(h, rec.lines[i])
    BY <2>1, <2>3
  <2>5. \A t \in 1 .. Len(traces) : \A i, j \in 1 .. Len(traces[t].lines) :
            LET cause == traces[t].lines[i]
                effect == traces[t].lines[j]
            IN  \A pair \in before :
                    IsOf(pair[1], cause) /\ cause.ev.part = "answer"
                      /\ cause.ev.body # "transport-abort" /\ IsOf(pair[2], effect) => i < j
    BY <2>2 DEF IsAnswer
  <2> QED BY <2>4, <2>5 DEF CausalOrder
<1> QED BY <1>1, Invariance, PTL

\* Once the stop has closed the traces it collected, each of them is closed and
\* ends with the event of the stop, unless it could not take that: no handler
\* still running adds a line after it (traces.rs:215).
THEOREM TracesEnd == Spec => []TracesEndAtStop
<1>1. ASSUME PInv PROVE TracesEndAtStop
  <2> SUFFICES ASSUME stop.phase \in {"finishing", "exited"}, NEW t \in 1 .. stop.recorders
               PROVE  /\ traces[t].closed
                      /\ traces[t].dropped = 0 =>
                            /\ traces[t].lines # <<>>
                            /\ traces[t].lines[Len(traces[t].lines)].ev
                                  = LifecycleEvent(C2S, stop.event)
    BY DEF TracesEndAtStop
  <2> DEFINE r == traces[t]
  <2>1. r \in Trace /\ Held(r) /\ Sealed(r, LifecycleEvent(C2S, stop.event))
    <3>1. t \in 1 .. Len(traces)
      BY <1>1, StopFields DEF PInv
    <3> QED BY <1>1, <3>1, Types DEF PInv, Kept, Closing
  <2>2. r.dropped = 0 => Tape(r) = r.lines
    BY <2>1, TapeType DEF Held
  <2>3. Len(<<>>) = 0 /\ ~(0 > 0)
    OBVIOUS
  <2> QED BY <2>1, <2>2, <2>3 DEF Sealed
<1> QED BY <1>1, Invariance, PTL
=============================================================================

--------------------------- MODULE RecorderProofs ---------------------------
(***************************************************************************)
(* Proofs about any number of tasks that share one recorder, for every set *)
(* of events and any number of them.  The inductive invariant is stated of *)
(* the recorder's value first (Kept), so that a write, a pair of writes    *)
(* and a close are each shown once to preserve it.                         *)
(***************************************************************************)
EXTENDS RecorderTasks, TLAPS

Lines     == LinesOver(AllEvents)
Recorders == RecordersOver(AllEvents, Ids)

-----------------------------------------------------------------------------
(* What the operators of Recorder return.                                  *)

LEMMA EventFields ==
    \A ev \in AllEvents : ev.opens \in BOOLEAN /\ ev.ids \in SUBSET Ids
BY RecorderAssumption DEF AllEvents, EventsOver

\* Updating the fields an operator touches, one group at a time.
LEMMA Updates ==
    ASSUME NEW r \in Recorders
    PROVE  /\ \A n \in Nat, S \in SUBSET Ids :
                [r EXCEPT !.initializes = n, !.ids = S] \in Recorders
           /\ \A n, m \in Nat, l, h \in Seq(Lines) :
                [r EXCEPT !.lines = l, !.torn = FALSE, !.held = h, !.nextSeq = n,
                          !.messages = m] \in Recorders
           /\ \A n \in Nat, b \in BOOLEAN, h \in Seq(Lines) :
                [r EXCEPT !.failed = TRUE, !.dropped = n, !.torn = b, !.held = h] \in Recorders
           /\ \A n \in Nat : [r EXCEPT !.dropped = n] \in Recorders
           /\ \A n \in Nat : [r EXCEPT !.afterClose = n] \in Recorders
           /\ [r EXCEPT !.closed = TRUE] \in Recorders
           /\ \A b \in BOOLEAN : [r EXCEPT !.failed = b] \in Recorders
           /\ \A b \in BOOLEAN, l \in Seq(Lines) :
                [r EXCEPT !.lines = l, !.torn = b] \in Recorders
           /\ \A l, h \in Seq(Lines) :
                [r EXCEPT !.lines = l, !.torn = FALSE, !.held = h] \in Recorders
BY DEF Recorders, RecordersOver, Lines

LEMMA Fields ==
    ASSUME NEW r \in Recorders
    PROVE  /\ r.lines \in Seq(Lines) /\ r.held \in Seq(Lines)
           /\ r.nextSeq \in Nat /\ r.messages \in Nat /\ r.dropped \in Nat
           /\ r.afterClose \in Nat /\ r.initializes \in Nat
           /\ r.torn \in BOOLEAN /\ r.failed \in BOOLEAN /\ r.closed \in BOOLEAN
           /\ r.ids \in SUBSET Ids /\ r.sink \in Sinks
BY DEF Recorders, RecordersOver, Lines

\* Noting an event's sessions leaves the trace alone.
SameTrace(x, r) ==
    /\ x.sink = r.sink /\ x.lines = r.lines /\ x.torn = r.torn /\ x.held = r.held
    /\ x.nextSeq = r.nextSeq /\ x.failed = r.failed /\ x.closed = r.closed
    /\ x.afterClose = r.afterClose /\ x.dropped = r.dropped

LEMMA ObserveLeavesTheTrace ==
    ASSUME NEW r \in Recorders, NEW ev \in AllEvents
    PROVE  Observe(r, ev) \in Recorders /\ SameTrace(Observe(r, ev), r)
<1>1. (IF ev.opens THEN r.initializes + 1 ELSE r.initializes) \in Nat
  BY Fields
<1>2. r.ids \union ev.ids \in SUBSET Ids
  BY EventFields, Fields
<1>3. Observe(r, ev) \in Recorders
  BY <1>1, <1>2, Updates, Fields DEF Observe
<1>4. \A n, S : SameTrace([r EXCEPT !.initializes = n, !.ids = S], r)
  BY DEF SameTrace, Recorders, RecordersOver
<1> QED BY <1>3, <1>4 DEF Observe

\* The four ways a write can end.
Ok(r, ev, w) ==
    /\ w.out = "Ok" /\ ~r.closed /\ ~r.failed /\ ev.fits
    /\ w.rec.lines = r.lines \o r.held \o <<LineOf(r, ev)>>
    /\ ~w.rec.torn /\ w.rec.held = <<>> /\ w.rec.nextSeq = r.nextSeq + 1
    /\ w.rec.dropped = r.dropped /\ w.rec.afterClose = r.afterClose
    /\ ~w.rec.failed /\ ~w.rec.closed

Lost(r, ev, w) ==
    /\ w.out = "SinkFailed" /\ ~r.closed
    /\ w.rec.lines = r.lines /\ w.rec.nextSeq = r.nextSeq
    /\ w.rec.dropped = r.dropped + 1 /\ w.rec.afterClose = r.afterClose
    /\ w.rec.failed /\ ~w.rec.closed
    /\ \/ w.rec.held = r.held
       \/ ~r.failed /\ w.rec.held = Append(r.held, LineOf(r, ev))

TooLong(r, ev, w) ==
    /\ w.out = "TooLong" /\ ~r.closed /\ ~r.failed
    /\ SameTrace(w.rec, r)

AfterClose(r, ev, w) ==
    /\ w.out = "Closed" /\ r.closed /\ w.rec.closed
    /\ w.rec.lines = r.lines /\ w.rec.nextSeq = r.nextSeq /\ w.rec.held = r.held
    /\ w.rec.torn = r.torn /\ w.rec.dropped = r.dropped /\ w.rec.failed = r.failed
    /\ w.rec.afterClose = r.afterClose + 1

LEMMA LineType ==
    ASSUME NEW r \in Recorders, NEW ev \in AllEvents
    PROVE  /\ LineOf(r, ev) \in Lines
           /\ LineOf(r, ev).seq = r.nextSeq /\ LineOf(r, ev).ev = ev
           /\ LineOf(r, ev).whole = (r.torn => r.held # <<>>)
BY Fields DEF LineOf, Lines, LinesOver

LEMMA WrittenFields ==
    ASSUME NEW r \in Recorders, NEW ev \in AllEvents
    PROVE  /\ Written(r, ev) \in Recorders
           /\ Written(r, ev).lines = r.lines \o r.held \o <<LineOf(r, ev)>>
           /\ ~Written(r, ev).torn /\ Written(r, ev).held = <<>>
           /\ Written(r, ev).nextSeq = r.nextSeq + 1
           /\ Written(r, ev).dropped = r.dropped
           /\ Written(r, ev).afterClose = r.afterClose
           /\ Written(r, ev).failed = r.failed /\ Written(r, ev).closed = r.closed
<1> DEFINE m == IF ev.body = "message" THEN r.messages + 1 ELSE r.messages
           l == r.lines \o r.held \o <<LineOf(r, ev)>>
<1>1. m \in Nat /\ r.nextSeq + 1 \in Nat
  BY Fields
<1>2. l \in Seq(Lines) /\ <<>> \in Seq(Lines)
  BY Fields, LineType
<1>3. Written(r, ev) = [r EXCEPT !.lines = l, !.torn = FALSE, !.held = <<>>,
                                 !.nextSeq = r.nextSeq + 1, !.messages = m]
  BY DEF Written
<1> HIDE DEF m, l
<1>4. Written(r, ev) \in Recorders
  <2>1. \A n, k \in Nat, x, h \in Seq(Lines) :
           [r EXCEPT !.lines = x, !.torn = FALSE, !.held = h, !.nextSeq = n,
                     !.messages = k] \in Recorders
    BY Updates
  <2>2. [r EXCEPT !.lines = l, !.torn = FALSE, !.held = <<>>,
                  !.nextSeq = r.nextSeq + 1, !.messages = m] \in Recorders
    BY <1>1, <1>2, <2>1
  <2> QED BY <1>3, <2>2
<1>5. LET x == [r EXCEPT !.lines = l, !.torn = FALSE, !.held = <<>>,
                         !.nextSeq = r.nextSeq + 1, !.messages = m]
      IN  /\ x.lines = l /\ ~x.torn /\ x.held = <<>> /\ x.nextSeq = r.nextSeq + 1
          /\ x.dropped = r.dropped /\ x.afterClose = r.afterClose
          /\ x.failed = r.failed /\ x.closed = r.closed
  BY DEF Recorders, RecordersOver
<1> QED BY <1>3, <1>4, <1>5 DEF l

LEMMA FailureFields ==
    ASSUME NEW r \in Recorders, NEW ev \in AllEvents, NEW x \in WriteFailures(r, ev)
    PROVE  /\ x \in Recorders
           /\ x.lines = r.lines /\ x.nextSeq = r.nextSeq
           /\ x.dropped = r.dropped + 1 /\ x.afterClose = r.afterClose
           /\ x.failed /\ x.closed = r.closed
           /\ x.held = r.held \/ x.held = Append(r.held, LineOf(r, ev))
<1>1. PICK t \in BOOLEAN, h \in {r.held, Append(r.held, LineOf(r, ev))} :
           x = [r EXCEPT !.failed = TRUE, !.dropped = r.dropped + 1, !.torn = t, !.held = h]
  <2>1. r.torn \in BOOLEAN
    BY Fields
  <2>2. PICK t \in IF r.sink = "unwritable" THEN {r.torn} ELSE {r.torn, TRUE},
            h \in IF r.sink = "buffered" THEN {r.held, Append(r.held, LineOf(r, ev))}
                                         ELSE {r.held} :
              x = [r EXCEPT !.failed = TRUE, !.dropped = @ + 1, !.torn = t, !.held = h]
    BY DEF WriteFailures
  <2>3. t \in BOOLEAN /\ h \in {r.held, Append(r.held, LineOf(r, ev))}
    BY <2>1
  <2> QED BY <2>2, <2>3
<1>2. h \in Seq(Lines) /\ r.dropped + 1 \in Nat
  <2>1. r.held \in Seq(Lines) /\ r.dropped \in Nat /\ LineOf(r, ev) \in Lines
    BY Fields, LineType
  <2>2. Append(r.held, LineOf(r, ev)) \in Seq(Lines)
    BY <2>1
  <2> QED BY <1>1, <2>1, <2>2
<1>3. x \in Recorders
  BY <1>1, <1>2, Updates
<1>4. LET y == [r EXCEPT !.failed = TRUE, !.dropped = r.dropped + 1, !.torn = t, !.held = h]
      IN  /\ y.lines = r.lines /\ y.nextSeq = r.nextSeq /\ y.dropped = r.dropped + 1
          /\ y.afterClose = r.afterClose /\ y.failed /\ y.closed = r.closed /\ y.held = h
  BY DEF Recorders, RecordersOver
<1> QED BY <1>1, <1>3, <1>4

LEMMA WriteOutcomes ==
    ASSUME NEW r \in Recorders, NEW ev \in AllEvents, NEW w \in Write(r, ev)
    PROVE  /\ w.rec \in Recorders
           /\ Ok(r, ev, w) \/ Lost(r, ev, w) \/ TooLong(r, ev, w) \/ AfterClose(r, ev, w)
<1> DEFINE o == Observe(r, ev)
<1>o. o \in Recorders /\ SameTrace(o, r)
  BY ObserveLeavesTheTrace
<1>l. LineOf(o, ev) = LineOf(r, ev)
  BY <1>o DEF LineOf, SameTrace
<1> HIDE DEF o
<1>1. CASE r.closed
  <2>1. w = [out |-> "Closed", rec |-> [r EXCEPT !.afterClose = r.afterClose + 1]]
    BY <1>1 DEF Write
  <2>2. [r EXCEPT !.afterClose = r.afterClose + 1] \in Recorders
    <3>1. r.afterClose + 1 \in Nat
      BY Fields
    <3> QED BY <3>1, Updates
  <2>3. LET y == [r EXCEPT !.afterClose = r.afterClose + 1]
        IN  /\ y.closed = r.closed /\ y.lines = r.lines /\ y.nextSeq = r.nextSeq
            /\ y.held = r.held /\ y.torn = r.torn /\ y.dropped = r.dropped
            /\ y.failed = r.failed /\ y.afterClose = r.afterClose + 1
    BY DEF Recorders, RecordersOver
  <2> QED BY <1>1, <2>1, <2>2, <2>3 DEF AfterClose
<1>2. CASE ~r.closed /\ r.failed
  <2>1. w = [out |-> "SinkFailed", rec |-> [o EXCEPT !.dropped = o.dropped + 1]]
    BY <1>2 DEF Write, o
  <2>2. [o EXCEPT !.dropped = o.dropped + 1] \in Recorders
    <3>1. o.dropped + 1 \in Nat
      BY <1>o, Fields
    <3> QED BY <1>o, <3>1, Updates
  <2>3. LET y == [o EXCEPT !.dropped = o.dropped + 1]
        IN  /\ y.closed = o.closed /\ y.lines = o.lines /\ y.nextSeq = o.nextSeq
            /\ y.held = o.held /\ y.dropped = o.dropped + 1
            /\ y.failed = o.failed /\ y.afterClose = o.afterClose
    BY <1>o DEF Recorders, RecordersOver
  <2> QED BY <1>2, <1>o, <2>1, <2>2, <2>3 DEF Lost, SameTrace
<1>3. CASE ~r.closed /\ ~r.failed /\ ~ev.fits
  <2>1. w = [out |-> "TooLong", rec |-> o]
    BY <1>3 DEF Write, o
  <2> QED BY <1>3, <1>o, <2>1 DEF TooLong
<1>4. CASE ~r.closed /\ ~r.failed /\ ev.fits
  <2>1. w \in SinkOutcomes(o, ev)
    BY <1>4 DEF Write, o
  <2>2. CASE w = [out |-> "Ok", rec |-> Written(o, ev)]
    <3>1. w.rec \in Recorders /\ w.out = "Ok" /\ w.rec = Written(o, ev)
      BY <2>2, <1>o, WrittenFields
    <3>2. /\ w.rec.lines = o.lines \o o.held \o <<LineOf(o, ev)>>
          /\ ~w.rec.torn /\ w.rec.held = <<>> /\ w.rec.nextSeq = o.nextSeq + 1
          /\ w.rec.dropped = o.dropped /\ w.rec.afterClose = o.afterClose
          /\ w.rec.failed = o.failed /\ w.rec.closed = o.closed
      <4>1. /\ Written(o, ev).lines = o.lines \o o.held \o <<LineOf(o, ev)>>
            /\ ~Written(o, ev).torn /\ Written(o, ev).held = <<>>
            /\ Written(o, ev).nextSeq = o.nextSeq + 1
            /\ Written(o, ev).dropped = o.dropped
            /\ Written(o, ev).afterClose = o.afterClose
            /\ Written(o, ev).failed = o.failed /\ Written(o, ev).closed = o.closed
        BY <1>o, WrittenFields
      <4> QED BY <3>1, <4>1
    <3>3. Ok(r, ev, w)
      BY <1>4, <1>o, <1>l, <3>1, <3>2 DEF Ok, SameTrace
    <3> QED BY <3>1, <3>3
  <2>3. ASSUME NEW x \in WriteFailures(o, ev), w = [out |-> "SinkFailed", rec |-> x]
        PROVE  w.rec \in Recorders /\ Lost(r, ev, w)
    <3>1. w.rec = x /\ w.out = "SinkFailed"
      BY <2>3
    <3> QED BY <1>4, <1>o, <1>l, <3>1, FailureFields DEF Lost, SameTrace
  <2> QED BY <2>1, <2>2, <2>3 DEF SinkOutcomes
<1>5. r.closed \in BOOLEAN /\ r.failed \in BOOLEAN
  BY Fields
<1> QED BY <1>1, <1>2, <1>3, <1>4, <1>5

-----------------------------------------------------------------------------
(* What a recorder's value keeps while its process lives, whoever writes.  *)

Placed(lines)    == \A i \in 1 .. Len(lines) : lines[i].seq = i - 1 /\ lines[i].whole
Told(lines, a)   == Len(a) = Len(lines) /\ \A i \in 1 .. Len(a) : lines[i].ev = a[i]
NoClose(lines)   == \A i \in 1 .. Len(lines) : lines[i].ev # CloseEvent
CloseLast(lines) == \A i \in 1 .. Len(lines) : lines[i].ev = CloseEvent => i = Len(lines)

\* What the sink holds is at most the line that could not be flushed.
Pending(r) ==
    \/ r.held = <<>>
    \/ Len(r.held) = 1 /\ r.held[1].seq = r.nextSeq /\ r.held[1].whole

Clean(r) == r.held = <<>> /\ ~r.torn /\ r.dropped = 0

\* Kept opaque where the arithmetic does not matter.
Total(i, j, l, m) == i + j + l + m

LEMMA TotalCounts ==
    ASSUME NEW r \in Recorders, NEW t \in Nat
    PROVE  LET total == Total(r.nextSeq, r.dropped, r.afterClose, t) IN
           /\ Total(r.nextSeq + 1, r.dropped, r.afterClose, t) = total + 1
           /\ Total(r.nextSeq, r.dropped + 1, r.afterClose, t) = total + 1
           /\ Total(r.nextSeq, r.dropped, r.afterClose + 1, t) = total + 1
           /\ Total(r.nextSeq, r.dropped, r.afterClose, t + 1) = total + 1
<1>f. r.nextSeq \in Nat /\ r.dropped \in Nat /\ r.afterClose \in Nat
  BY Fields
<1>1. \A i, j, l, m \in Nat :
         /\ Total(i + 1, j, l, m) = Total(i, j, l, m) + 1
         /\ Total(i, j + 1, l, m) = Total(i, j, l, m) + 1
         /\ Total(i, j, l + 1, m) = Total(i, j, l, m) + 1
         /\ Total(i, j, l, m + 1) = Total(i, j, l, m) + 1
  BY DEF Total
<1> DEFINE n == r.nextSeq
           d == r.dropped
           a == r.afterClose
<1>2. n \in Nat /\ d \in Nat /\ a \in Nat
  BY <1>f
<1> HIDE DEF n, d, a
<1>3. /\ Total(n + 1, d, a, t) = Total(n, d, a, t) + 1
      /\ Total(n, d + 1, a, t) = Total(n, d, a, t) + 1
      /\ Total(n, d, a + 1, t) = Total(n, d, a, t) + 1
      /\ Total(n, d, a, t + 1) = Total(n, d, a, t) + 1
  BY <1>1, <1>2
<1> QED BY <1>3 DEF n, d, a

\* `a` was acknowledged, `n` events offered and `t` of them too long.
Ledger(r, a, n, t) ==
    /\ Placed(r.lines) /\ Len(r.lines) = r.nextSeq
    /\ Told(r.lines, a)
    /\ Pending(r)
    /\ ~r.closed /\ ~r.failed => r.held = <<>> /\ ~r.torn
    /\ n = Total(r.nextSeq, r.dropped, r.afterClose, t)

CloseOnly(r) ==
    /\ CloseLast(r.lines)
    /\ ~r.closed \/ r.held # <<>> => NoClose(r.lines)

LEMMA AppendLine ==
    ASSUME NEW L \in Seq(Lines), NEW x \in Lines
    PROVE  /\ L \o <<>> \o <<x>> = Append(L, x)
           /\ Len(Append(L, x)) = Len(L) + 1
           /\ Placed(L) /\ x.seq = Len(L) /\ x.whole => Placed(Append(L, x))
           /\ \A a \in Seq(AllEvents) : Told(L, a) => Told(Append(L, x), Append(a, x.ev))
           /\ NoClose(L) /\ x.ev # CloseEvent => NoClose(Append(L, x))
           /\ NoClose(L) => CloseLast(Append(L, x))
<1>1. L \o <<>> \o <<x>> = Append(L, x)
  OBVIOUS
<1>2. /\ Len(Append(L, x)) = Len(L) + 1
      /\ Append(L, x)[Len(L) + 1] = x
      /\ \A i \in 1 .. Len(L) : Append(L, x)[i] = L[i]
  OBVIOUS
<1>3. Placed(L) /\ x.seq = Len(L) /\ x.whole => Placed(Append(L, x))
  BY <1>2 DEF Placed
<1>4. \A a \in Seq(AllEvents) : Told(L, a) => Told(Append(L, x), Append(a, x.ev))
  BY <1>2 DEF Told
<1>5. NoClose(L) /\ x.ev # CloseEvent => NoClose(Append(L, x))
  BY <1>2 DEF NoClose
<1>6. NoClose(L) => CloseLast(Append(L, x))
  BY <1>2 DEF NoClose, CloseLast
<1> QED BY <1>1, <1>2, <1>3, <1>4, <1>5, <1>6

LEMMA AcknowledgedType ==
    ASSUME NEW a \in Seq(AllEvents), NEW ev \in AllEvents, NEW out
    PROVE  /\ a \o Acknowledged(ev, out) \in Seq(AllEvents)
           /\ out = "Ok" => a \o Acknowledged(ev, out) = Append(a, ev)
           /\ out # "Ok" => a \o Acknowledged(ev, out) = a
           /\ Refused(out) \in Nat
           /\ out = "TooLong" => Refused(out) = 1
           /\ out # "TooLong" => Refused(out) = 0
<1>1. CASE out = "Ok"
  BY <1>1 DEF Acknowledged, Refused
<1>2. CASE out # "Ok"
  <2>1. a \o <<>> = a
    OBVIOUS
  <2> QED BY <1>2, <2>1 DEF Acknowledged, Refused
<1> QED BY <1>1, <1>2

\* One event is counted once, whichever way its write ends.
LEMMA WriteCounts ==
    ASSUME NEW r \in Recorders, NEW ev \in AllEvents, NEW w \in Write(r, ev), NEW t \in Nat
    PROVE  Total(w.rec.nextSeq, w.rec.dropped, w.rec.afterClose, t + Refused(w.out))
             = Total(r.nextSeq, r.dropped, r.afterClose, t) + 1
<1> DEFINE q == w.rec
           k == Refused(w.out)
<1>k. t + 0 = t
  OBVIOUS
<1>c. /\ Total(r.nextSeq + 1, r.dropped, r.afterClose, t) = Total(r.nextSeq, r.dropped, r.afterClose, t) + 1
      /\ Total(r.nextSeq, r.dropped + 1, r.afterClose, t) = Total(r.nextSeq, r.dropped, r.afterClose, t) + 1
      /\ Total(r.nextSeq, r.dropped, r.afterClose + 1, t) = Total(r.nextSeq, r.dropped, r.afterClose, t) + 1
      /\ Total(r.nextSeq, r.dropped, r.afterClose, t + 1) = Total(r.nextSeq, r.dropped, r.afterClose, t) + 1
  BY TotalCounts
<1>1. CASE Ok(r, ev, w)
  <2>1. q.nextSeq = r.nextSeq + 1 /\ q.dropped = r.dropped /\ q.afterClose = r.afterClose /\ k = 0
    BY <1>1 DEF Ok, Refused
  <2> HIDE DEF q, k
  <2>2. Total(q.nextSeq, q.dropped, q.afterClose, t + k) = Total(r.nextSeq, r.dropped, r.afterClose, t) + 1
    BY <1>k, <1>c, <2>1
  <2> QED BY <2>2 DEF q, k
<1>2. CASE Lost(r, ev, w)
  <2>1. q.nextSeq = r.nextSeq /\ q.dropped = r.dropped + 1 /\ q.afterClose = r.afterClose /\ k = 0
    BY <1>2 DEF Lost, Refused
  <2> HIDE DEF q, k
  <2>2. Total(q.nextSeq, q.dropped, q.afterClose, t + k) = Total(r.nextSeq, r.dropped, r.afterClose, t) + 1
    BY <1>k, <1>c, <2>1
  <2> QED BY <2>2 DEF q, k
<1>3. CASE TooLong(r, ev, w)
  <2>1. q.nextSeq = r.nextSeq /\ q.dropped = r.dropped /\ q.afterClose = r.afterClose /\ k = 1
    BY <1>3 DEF TooLong, SameTrace, Refused
  <2> HIDE DEF q, k
  <2>2. Total(q.nextSeq, q.dropped, q.afterClose, t + k) = Total(r.nextSeq, r.dropped, r.afterClose, t) + 1
    BY <1>c, <2>1
  <2> QED BY <2>2 DEF q, k
<1>4. CASE AfterClose(r, ev, w)
  <2>1. q.nextSeq = r.nextSeq /\ q.dropped = r.dropped /\ q.afterClose = r.afterClose + 1 /\ k = 0
    BY <1>4 DEF AfterClose, Refused
  <2> HIDE DEF q, k
  <2>2. Total(q.nextSeq, q.dropped, q.afterClose, t + k) = Total(r.nextSeq, r.dropped, r.afterClose, t) + 1
    BY <1>k, <1>c, <2>1
  <2> QED BY <2>2 DEF q, k
<1> QED BY <1>1, <1>2, <1>3, <1>4, WriteOutcomes

\* L is M, with lines added at its end.
Extended(L, M) == L \in Seq(Lines) /\ Len(L) >= Len(M) /\ \A i \in 1 .. Len(M) : L[i] = M[i]

LEMMA ExtendedSelf == \A L \in Seq(Lines) : Extended(L, L)
<1> SUFFICES ASSUME NEW L \in Seq(Lines) PROVE Extended(L, L)
  OBVIOUS
<1>1. Len(L) \in Nat
  OBVIOUS
<1> QED BY <1>1 DEF Extended

LEMMA ExtendedBoth ==
    ASSUME NEW L \in Seq(Lines), NEW M, NEW N, Extended(M, L), Extended(N, M)
    PROVE  Extended(N, L)
<1>1. Len(L) \in Nat /\ Len(M) \in Nat /\ Len(N) \in Nat
  BY DEF Extended
<1> QED BY <1>1 DEF Extended

LEMMA Concatenated ==
    ASSUME NEW L \in Seq(Lines), NEW M \in Seq(Lines)
    PROVE  Extended(L \o M, L)
<1>1. L \o M \in Seq(Lines) /\ Len(L \o M) = Len(L) + Len(M) /\ Len(M) \in Nat /\ Len(L) \in Nat
  OBVIOUS
<1>2. \A i \in 1 .. Len(L) : (L \o M)[i] = L[i]
  OBVIOUS
<1> QED BY <1>1, <1>2 DEF Extended

\* A write, whatever the recorder has been through, only adds lines.
LEMMA WriteExtends ==
    ASSUME NEW r \in Recorders, NEW ev \in AllEvents, NEW w \in Write(r, ev)
    PROVE  Extended(w.rec.lines, r.lines)
<1>f. r.lines \in Seq(Lines) /\ r.held \in Seq(Lines) /\ LineOf(r, ev) \in Lines
  BY Fields, LineType
<1>1. CASE Ok(r, ev, w)
  <2> DEFINE M == r.held \o <<LineOf(r, ev)>>
  <2>1. M \in Seq(Lines)
    BY <1>f
  <2>2. w.rec.lines = r.lines \o M
    <3>1. w.rec.lines = r.lines \o r.held \o <<LineOf(r, ev)>>
      BY <1>1 DEF Ok
    <3> DEFINE L == r.lines
               N == r.held
               z == <<LineOf(r, ev)>>
    <3>2. L \in Seq(Lines) /\ N \in Seq(Lines) /\ z \in Seq(Lines)
      BY <1>f
    <3> HIDE DEF L, N, z
    <3>3. (L \o N) \o z = L \o (N \o z)
      BY <3>2
    <3> QED BY <3>1, <3>3 DEF L, N, z
  <2> HIDE DEF M
  <2> QED BY <1>f, <2>1, <2>2, Concatenated
<1>2. CASE w.rec.lines = r.lines
  BY <1>f, <1>2, ExtendedSelf
<1> QED BY <1>1, <1>2, WriteOutcomes DEF Lost, TooLong, AfterClose, SameTrace

\* One write keeps the ledger, whichever way it ends.
LEMMA WriteKeepsLedger ==
    ASSUME NEW r \in Recorders, NEW ev \in AllEvents, NEW w \in Write(r, ev),
           NEW a \in Seq(AllEvents), NEW n \in Nat, NEW t \in Nat,
           Ledger(r, a, n, t)
    PROVE  /\ Ledger(w.rec, a \o Acknowledged(ev, w.out), n + 1, t + Refused(w.out))
           /\ (~r.failed => Clean(r)) => (~w.rec.failed => Clean(w.rec))
<1> DEFINE b == a \o Acknowledged(ev, w.out)
           k == Refused(w.out)
           x == LineOf(r, ev)
           q == w.rec
<1>f. /\ r.lines \in Seq(Lines) /\ r.held \in Seq(Lines) /\ r.nextSeq \in Nat
      /\ r.dropped \in Nat /\ r.afterClose \in Nat
  BY Fields
<1>w. q \in Recorders
  BY WriteOutcomes
<1>a. /\ b \in Seq(AllEvents) /\ k \in Nat
      /\ w.out = "Ok" => b = Append(a, ev)
      /\ w.out # "Ok" => b = a
      /\ w.out = "TooLong" => k = 1
      /\ w.out # "TooLong" => k = 0
  BY AcknowledgedType
<1>x. /\ x \in Lines /\ x.seq = r.nextSeq /\ x.ev = ev
      /\ x.whole = (r.torn => r.held # <<>>)
  BY LineType
<1>o. Ok(r, ev, w) \/ Lost(r, ev, w) \/ TooLong(r, ev, w) \/ AfterClose(r, ev, w)
  BY WriteOutcomes
<1>t. n + 1 = Total(q.nextSeq, q.dropped, q.afterClose, t + k)
  BY WriteCounts DEF Ledger
<1>1. CASE Ok(r, ev, w)
  <2>1. r.held = <<>> /\ ~r.torn /\ Len(r.lines) = r.nextSeq
    BY <1>1 DEF Ok, Ledger
  <2>2. q.lines = r.lines \o <<>> \o <<x>>
    BY <1>1, <2>1 DEF Ok
  <2>3. q.lines = Append(r.lines, x) /\ Len(q.lines) = Len(r.lines) + 1
    BY <1>f, <1>x, <2>2, AppendLine
  <2>4. b = Append(a, ev) /\ k = 0
    BY <1>1, <1>a DEF Ok
  <2>5. Placed(q.lines)
    BY <1>f, <1>x, <2>1, <2>3, AppendLine DEF Ledger
  <2>6. Told(q.lines, b)
    BY <1>f, <1>x, <2>3, <2>4, AppendLine DEF Ledger
  <2>7. Pending(q) /\ q.held = <<>> /\ ~q.torn
    BY <1>1 DEF Ok, Pending
  <2>8. Len(q.lines) = q.nextSeq
    <3>1. q.nextSeq = r.nextSeq + 1
      BY <1>1 DEF Ok
    <3> QED BY <2>1, <2>3, <3>1
  <2>9. (~r.failed => Clean(r)) => Clean(q)
    BY <1>1 DEF Ok, Clean
  <2>10. n + 1 = Total(q.nextSeq, q.dropped, q.afterClose, t + k)
    BY <1>t
  <2> QED BY <2>5, <2>6, <2>7, <2>8, <2>9, <2>10 DEF Ledger
<1>2. CASE Lost(r, ev, w)
  <2>1. b = a /\ k = 0
    BY <1>2, <1>a DEF Lost
  <2>2. Pending(q)
    <3>0. q.held = r.held \/ (~r.failed /\ q.held = Append(r.held, x))
      BY <1>2 DEF Lost
    <3>1. CASE q.held = r.held
      BY <1>2, <3>1 DEF Lost, Ledger, Pending
    <3>2. CASE ~r.failed /\ q.held = Append(r.held, x)
      <4>1. r.held = <<>> /\ ~r.torn
        BY <1>2, <3>2 DEF Lost, Ledger
      <4>2. q.held = <<x>>
        BY <3>2, <4>1
      <4>3. Len(q.held) = 1 /\ q.held[1] = x
        BY <4>2
      <4>4. q.nextSeq = r.nextSeq
        BY <1>2 DEF Lost
      <4>5. x.seq = r.nextSeq /\ x.whole
        BY <1>x, <4>1
      <4> QED BY <4>3, <4>4, <4>5 DEF Pending
    <3> QED BY <3>0, <3>1, <3>2
  <2>3. n + 1 = Total(q.nextSeq, q.dropped, q.afterClose, t + k)
    BY <1>t
  <2> QED BY <1>2, <2>1, <2>2, <2>3 DEF Lost, Ledger
<1>3. CASE TooLong(r, ev, w)
  <2>1. b = a /\ k = 1
    BY <1>3, <1>a DEF TooLong
  <2>2. n + 1 = Total(q.nextSeq, q.dropped, q.afterClose, t + k)
    BY <1>t
  <2>3. Pending(q) /\ ((~r.failed => Clean(r)) => (~q.failed => Clean(q)))
    BY <1>3 DEF TooLong, SameTrace, Ledger, Pending, Clean
  <2> QED BY <1>3, <2>1, <2>2, <2>3 DEF TooLong, SameTrace, Ledger
<1>4. CASE AfterClose(r, ev, w)
  <2>1. b = a /\ k = 0
    BY <1>4, <1>a DEF AfterClose
  <2>2. n + 1 = Total(q.nextSeq, q.dropped, q.afterClose, t + k)
    BY <1>t
  <2>3. Pending(q) /\ ((~r.failed => Clean(r)) => (~q.failed => Clean(q)))
    BY <1>4 DEF AfterClose, Ledger, Pending, Clean
  <2> QED BY <1>4, <2>1, <2>2, <2>3 DEF AfterClose, Ledger
<1> QED BY <1>o, <1>1, <1>2, <1>3, <1>4

\* Writing anything but the close keeps it alone at the end.
LEMMA WriteKeepsClose ==
    ASSUME NEW r \in Recorders, NEW ev \in Events, NEW w \in Write(r, ev),
           ~r.closed /\ ~r.failed => r.held = <<>>, CloseOnly(r)
    PROVE  CloseOnly(w.rec)
<1> DEFINE x == LineOf(r, ev)
<1>e. ev \in AllEvents /\ ev # CloseEvent
  BY RecorderAssumption DEF AllEvents
<1>f. r.lines \in Seq(Lines)
  BY Fields
<1>x. x \in Lines /\ x.ev = ev
  BY <1>e, LineType
<1>1. CASE Ok(r, ev, w)
  <2>1. w.rec.lines = r.lines \o <<>> \o <<x>>
    BY <1>1 DEF Ok
  <2>2. w.rec.lines = Append(r.lines, x)
    BY <1>f, <1>x, <2>1, AppendLine
  <2>3. NoClose(w.rec.lines)
    BY <1>e, <1>f, <1>x, <1>1, <2>2, AppendLine DEF Ok, CloseOnly
  <2> QED BY <2>3 DEF CloseOnly, NoClose, CloseLast
<1>2. CASE Lost(r, ev, w)
  BY <1>2 DEF Lost, CloseOnly
<1>3. CASE TooLong(r, ev, w)
  BY <1>3 DEF TooLong, SameTrace, CloseOnly
<1>4. CASE AfterClose(r, ev, w)
  BY <1>4 DEF AfterClose, CloseOnly
<1> QED BY <1>e, <1>1, <1>2, <1>3, <1>4, WriteOutcomes

\* The two writes of record_all, one after the other.
LEMMA PairWrites ==
    ASSUME NEW r, NEW first, NEW second, NEW p \in RecordPair(r, first, second)
    PROVE  \E u \in Write(r, first) : \E v \in Write(u.rec, second) :
               p.outs[1] = u.out /\ p.outs[2] = v.out /\ p.rec = v.rec
<1>1. PICK u \in Write(r, first) : p \in {[outs |-> <<u.out, v.out>>, rec |-> v.rec] :
                                             v \in Write(u.rec, second)}
  BY DEF RecordPair
<1>2. PICK v \in Write(u.rec, second) : p = [outs |-> <<u.out, v.out>>, rec |-> v.rec]
  BY <1>1
<1>3. p.outs[1] = u.out /\ p.outs[2] = v.out /\ p.rec = v.rec
  BY <1>2
<1> QED BY <1>3

LEMMA CloseKeeps ==
    ASSUME NEW r \in Recorders, NEW w \in Close(r, CloseEvent), ~r.closed,
           NEW a \in Seq(AllEvents), NEW n \in Nat, NEW t \in Nat,
           Ledger(r, a, n, t), CloseOnly(r)
    PROVE  /\ w.rec \in Recorders /\ w.rec.closed
           /\ Ledger(w.rec, a \o Acknowledged(CloseEvent, w.out), n + 1, t)
           /\ CloseOnly(w.rec)
           /\ (~r.failed => Clean(r)) => (~w.rec.failed => Clean(w.rec))
<1>c. CloseEvent \in AllEvents /\ CloseEvent.fits
  BY RecorderAssumption DEF AllEvents
<1>1. PICK u \in Write(r, CloseEvent) :
           w = [out |-> u.out, rec |-> [u.rec EXCEPT !.closed = TRUE]]
  BY DEF Close
<1> DEFINE q == [u.rec EXCEPT !.closed = TRUE]
           x == LineOf(r, CloseEvent)
<1>2. u.rec \in Recorders /\ (Ok(r, CloseEvent, u) \/ Lost(r, CloseEvent, u))
  <2>1. TooLong(r, CloseEvent, u) => ~CloseEvent.fits
    BY <1>c DEF Write, TooLong, SinkOutcomes
  <2> QED BY <1>c, <2>1, WriteOutcomes DEF AfterClose
<1>3. q \in Recorders
  BY <1>2, Updates
<1>4. /\ q.lines = u.rec.lines /\ q.torn = u.rec.torn /\ q.held = u.rec.held
      /\ q.nextSeq = u.rec.nextSeq /\ q.dropped = u.rec.dropped
      /\ q.afterClose = u.rec.afterClose /\ q.failed = u.rec.failed /\ q.closed
  BY <1>2 DEF Recorders, RecordersOver
<1>5. w.rec = q /\ w.out = u.out
  BY <1>1
<1>6. /\ Ledger(u.rec, a \o Acknowledged(CloseEvent, u.out), n + 1, t + Refused(u.out))
      /\ (~r.failed => Clean(r)) => (~u.rec.failed => Clean(u.rec))
  BY <1>c, WriteKeepsLedger
<1>7. t + Refused(u.out) = t
  <2>1. u.out # "TooLong"
    BY <1>2 DEF Ok, Lost
  <2>2. Refused(u.out) = 0
    BY <2>1 DEF Refused
  <2> QED BY <2>2
<1> HIDE DEF q
<1>8. Ledger(q, a \o Acknowledged(CloseEvent, u.out), n + 1, t)
  BY <1>4, <1>6, <1>7 DEF Ledger, Pending
<1>9. (~r.failed => Clean(r)) => (~q.failed => Clean(q))
  BY <1>4, <1>6 DEF Clean
<1>10. CloseOnly(q)
  <2>0. NoClose(r.lines)
    BY DEF CloseOnly
  <2>1. CASE Ok(r, CloseEvent, u)
    <3>1. r.lines \in Seq(Lines) /\ x \in Lines /\ r.held = <<>>
      BY <1>c, <2>1, Fields, LineType DEF Ok, Ledger
    <3>2. q.lines = r.lines \o <<>> \o <<x>> /\ q.held = <<>>
      BY <1>4, <2>1, <3>1 DEF Ok
    <3>3. q.lines = Append(r.lines, x)
      BY <3>1, <3>2, AppendLine
    <3> QED BY <1>4, <2>0, <3>1, <3>2, <3>3, AppendLine DEF CloseOnly
  <2>2. CASE Lost(r, CloseEvent, u)
    BY <1>4, <2>0, <2>2 DEF Lost, CloseOnly, NoClose, CloseLast
  <2> QED BY <1>2, <2>1, <2>2
<1> QED BY <1>3, <1>4, <1>5, <1>8, <1>9, <1>10

LEMMA DrainedType ==
    ASSUME NEW r \in Recorders
    PROVE  /\ Drained(r) \in Recorders
           /\ Drained(r).lines = r.lines \o r.held /\ ~Drained(r).torn
           /\ Drained(r).held = <<>> /\ Drained(r).nextSeq = r.nextSeq
           /\ Drained(r).dropped = r.dropped /\ Drained(r).closed = r.closed
           /\ Drained(r).afterClose = r.afterClose /\ Drained(r).failed = r.failed
<1> DEFINE l == r.lines \o r.held
           q == [r EXCEPT !.lines = l, !.torn = FALSE, !.held = <<>>]
<1>1. l \in Seq(Lines) /\ <<>> \in Seq(Lines)
  BY Fields
<1>2. Drained(r) = q
  BY DEF Drained
<1> HIDE DEF l
<1>3. q \in Recorders
  BY <1>1, Updates
<1>4. /\ q.lines = l /\ ~q.torn /\ q.held = <<>> /\ q.nextSeq = r.nextSeq
      /\ q.dropped = r.dropped /\ q.closed = r.closed
      /\ q.afterClose = r.afterClose /\ q.failed = r.failed
  BY DEF Recorders, RecordersOver
<1> QED BY <1>2, <1>3, <1>4 DEF l

\* Finishing a closed trace changes nothing but the error it hands over.
LEMMA FinishEffect ==
    ASSUME NEW r \in Recorders, ~r.failed => Clean(r), NEW f \in Finish(r)
    PROVE  /\ f.rec \in Recorders /\ ~f.rec.failed
           /\ f.rec.lines = r.lines /\ f.rec.held = r.held /\ f.rec.torn = r.torn
           /\ f.rec.nextSeq = r.nextSeq /\ f.rec.dropped = r.dropped
           /\ f.rec.afterClose = r.afterClose /\ f.rec.closed = r.closed
           /\ f.summary \in Summaries /\ f.summary.error = r.failed
           /\ f.summary.recorded = r.nextSeq /\ f.summary.dropped = r.dropped
<1>1. PICK x \in Flushed(r) :
           f = [summary |-> SummaryOf(x), rec |-> [x EXCEPT !.failed = FALSE]]
  BY DEF Finish
<1>2. /\ x \in Recorders /\ x.failed = r.failed
      /\ x.lines = r.lines /\ x.held = r.held /\ x.torn = r.torn
      /\ x.nextSeq = r.nextSeq /\ x.dropped = r.dropped
      /\ x.afterClose = r.afterClose /\ x.closed = r.closed
  <2>1. CASE r.failed
    BY <2>1 DEF Flushed
  <2>2. CASE ~r.failed
    <3>1. r.held = <<>> /\ ~r.torn
      BY <2>2 DEF Clean
    <3>2. x = Drained(r)
      BY <2>2, <3>1 DEF Flushed
    <3>3. r.lines \o <<>> = r.lines /\ r.torn \in BOOLEAN
      BY Fields
    <3>4. /\ Drained(r) \in Recorders /\ Drained(r).failed = r.failed
          /\ Drained(r).lines = r.lines \o r.held
          /\ Drained(r).held = <<>> /\ ~Drained(r).torn
          /\ Drained(r).nextSeq = r.nextSeq /\ Drained(r).dropped = r.dropped
          /\ Drained(r).afterClose = r.afterClose /\ Drained(r).closed = r.closed
      BY DrainedType
    <3>5. x.torn = r.torn
      BY <3>1, <3>2, <3>3, <3>4, Fields
    <3> QED BY <3>1, <3>2, <3>3, <3>4, <3>5
  <2> QED BY <2>1, <2>2
<1> DEFINE q == [x EXCEPT !.failed = FALSE]
<1>3. q \in Recorders
  BY <1>2, Updates
<1>4. /\ ~q.failed /\ q.lines = x.lines /\ q.held = x.held /\ q.torn = x.torn
      /\ q.nextSeq = x.nextSeq /\ q.dropped = x.dropped
      /\ q.afterClose = x.afterClose /\ q.closed = x.closed
  BY <1>2 DEF Recorders, RecordersOver
<1>5. /\ SummaryOf(x) \in Summaries /\ SummaryOf(x).error = x.failed
      /\ SummaryOf(x).recorded = x.nextSeq /\ SummaryOf(x).dropped = x.dropped
  BY <1>2, Fields DEF SummaryOf, Summaries
<1>6. f.rec = q /\ f.summary = SummaryOf(x)
  BY <1>1
<1> QED BY <1>2, <1>3, <1>4, <1>5, <1>6
\* `longer` is `shorter` with at most two lines more, well numbered, and a close
\* only at its end.
Grown(longer, shorter) ==
    /\ longer \in Seq(Lines)
    /\ Len(longer) \in Len(shorter) .. Len(shorter) + 2
    /\ \A i \in 1 .. Len(shorter) : longer[i] = shorter[i]
    /\ Placed(longer) /\ CloseLast(longer)

LEMMA InterruptedLines ==
    ASSUME NEW r \in Recorders, ~r.closed, ~r.failed, r.held = <<>>, ~r.torn,
           Placed(r.lines), Len(r.lines) = r.nextSeq, NoClose(r.lines),
           NEW x \in Interrupted(r)
    PROVE  Grown(x.lines, r.lines) /\ x.torn \in BOOLEAN
<1> DEFINE one == {Written(r, ev) : ev \in Fitting(Events)}
           two == UNION {{Written(y, ev) : ev \in Fitting(Events)} : y \in one}
<1>e. /\ \A ev \in Fitting(Events) : ev \in AllEvents /\ ev # CloseEvent
      /\ CloseEvent \in AllEvents
  BY RecorderAssumption DEF AllEvents, Fitting
<1>f. r.lines \in Seq(Lines) /\ r.nextSeq \in Nat /\ r.torn \in BOOLEAN
  BY Fields
<1>0. Grown(r.lines, r.lines)
  BY <1>f DEF Grown, CloseLast, NoClose
\* One more line on a recorder whose sink holds nothing.
<1>1. ASSUME NEW y \in Recorders, NEW ev \in AllEvents, y.held = <<>>, ~y.torn,
             Placed(y.lines), Len(y.lines) = y.nextSeq, NoClose(y.lines)
      PROVE  LET z == Written(y, ev) IN
             /\ z \in Recorders /\ z.held = <<>> /\ ~z.torn /\ z.torn \in BOOLEAN
             /\ Placed(z.lines) /\ Len(z.lines) = z.nextSeq /\ CloseLast(z.lines)
             /\ ev # CloseEvent => NoClose(z.lines)
             /\ Len(z.lines) = Len(y.lines) + 1
             /\ \A i \in 1 .. Len(y.lines) : z.lines[i] = y.lines[i]
  <2> DEFINE z == Written(y, ev)
             l == LineOf(y, ev)
  <2>1. /\ z \in Recorders /\ z.lines = y.lines \o <<>> \o <<l>>
        /\ ~z.torn /\ z.held = <<>> /\ z.nextSeq = y.nextSeq + 1
    BY <1>1, WrittenFields
  <2>2. /\ y.lines \in Seq(Lines) /\ l \in Lines /\ z.torn \in BOOLEAN
        /\ l.seq = Len(y.lines) /\ l.whole /\ l.ev = ev
    BY <1>1, <2>1, Fields, LineType
  <2> HIDE DEF z, l
  <2>3. z.lines = Append(y.lines, l)
    BY <2>1, <2>2, AppendLine
  <2>4. \A i \in 1 .. Len(y.lines) : z.lines[i] = y.lines[i]
    BY <2>2, <2>3
  <2>5. Placed(z.lines) /\ CloseLast(z.lines) /\ Len(z.lines) = Len(y.lines) + 1
    BY <1>1, <2>2, <2>3, AppendLine
  <2>6. ev # CloseEvent => NoClose(z.lines)
    BY <1>1, <2>2, <2>3, AppendLine
  <2>7. Len(z.lines) = z.nextSeq
    BY <1>1, <2>1, <2>5
  <2> QED BY <2>1, <2>2, <2>4, <2>5, <2>6, <2>7 DEF z
<1>2. ASSUME NEW y \in one
      PROVE  /\ y \in Recorders /\ y.held = <<>> /\ ~y.torn /\ y.torn \in BOOLEAN
             /\ Placed(y.lines) /\ Len(y.lines) = y.nextSeq /\ NoClose(y.lines)
             /\ Grown(y.lines, r.lines) /\ Len(y.lines) = Len(r.lines) + 1
  <2>1. PICK ev \in Fitting(Events) : y = Written(r, ev)
    OBVIOUS
  <2>2. /\ y \in Recorders /\ y.held = <<>> /\ ~y.torn /\ y.torn \in BOOLEAN
        /\ Placed(y.lines) /\ Len(y.lines) = y.nextSeq /\ CloseLast(y.lines)
        /\ NoClose(y.lines) /\ Len(y.lines) = Len(r.lines) + 1
        /\ \A i \in 1 .. Len(r.lines) : y.lines[i] = r.lines[i]
    BY <1>e, <1>1, <2>1
  <2>3. y.lines \in Seq(Lines)
    BY <2>2, Fields
  <2> QED BY <1>f, <2>2, <2>3 DEF Grown
<1>3. ASSUME NEW y \in two
      PROVE  y.torn \in BOOLEAN /\ Grown(y.lines, r.lines)
  <2>1. PICK z \in one, ev \in Fitting(Events) : y = Written(z, ev)
    OBVIOUS
  <2>2. /\ y \in Recorders /\ y.torn \in BOOLEAN
        /\ Placed(y.lines) /\ CloseLast(y.lines) /\ Len(y.lines) = Len(z.lines) + 1
        /\ \A i \in 1 .. Len(z.lines) : y.lines[i] = z.lines[i]
    BY <1>e, <1>1, <1>2, <2>1
  <2>3. y.lines \in Seq(Lines)
    BY <2>2, Fields
  <2>4. /\ Len(z.lines) = Len(r.lines) + 1
        /\ \A i \in 1 .. Len(r.lines) : z.lines[i] = r.lines[i]
    BY <1>2 DEF Grown
  <2> QED BY <1>f, <2>2, <2>3, <2>4 DEF Grown
<1>4. Written(r, CloseEvent).torn \in BOOLEAN /\ Grown(Written(r, CloseEvent).lines, r.lines)
  <2> DEFINE y == Written(r, CloseEvent)
  <2>1. /\ y \in Recorders /\ y.torn \in BOOLEAN
        /\ Placed(y.lines) /\ CloseLast(y.lines) /\ Len(y.lines) = Len(r.lines) + 1
        /\ \A i \in 1 .. Len(r.lines) : y.lines[i] = r.lines[i]
    BY <1>e, <1>1
  <2>2. y.lines \in Seq(Lines)
    BY <2>1, Fields
  <2> QED BY <1>f, <2>1, <2>2 DEF Grown
<1>5. \A y \in Recorders : /\ [y EXCEPT !.torn = TRUE].lines = y.lines
                           /\ [y EXCEPT !.torn = TRUE].torn = TRUE
  BY DEF Recorders, RecordersOver
<1>6. \/ \E y \in {r} \union one : x = [y EXCEPT !.torn = TRUE]
      \/ x \in one \/ x \in two \/ x = Written(r, CloseEvent)
  BY DEF Interrupted
<1> HIDE DEF one, two
<1>7. CASE \E y \in {r} \union one : x = [y EXCEPT !.torn = TRUE]
  <2>1. PICK y \in {r} \union one : x = [y EXCEPT !.torn = TRUE]
    BY <1>7
  <2>2. y \in Recorders /\ Grown(y.lines, r.lines)
    BY <1>0, <1>2
  <2>3. x.lines = y.lines /\ x.torn = TRUE
    BY <1>5, <2>1, <2>2
  <2> QED BY <2>2, <2>3
<1> QED BY <1>2, <1>3, <1>4, <1>6, <1>7

LEMMA InterruptedExtends ==
    ASSUME NEW r \in Recorders, NEW x \in Interrupted(r)
    PROVE  Extended(x.lines, r.lines) /\ x.torn \in BOOLEAN
<1> DEFINE one == {Written(r, ev) : ev \in Fitting(Events)}
           two == UNION {{Written(y, ev) : ev \in Fitting(Events)} : y \in one}
<1>e. CloseEvent \in AllEvents /\ \A ev \in Fitting(Events) : ev \in AllEvents
  BY DEF AllEvents, Fitting
<1>f. r.lines \in Seq(Lines) /\ Extended(r.lines, r.lines)
  BY Fields, ExtendedSelf
<1>1. ASSUME NEW y \in Recorders, NEW ev \in AllEvents
      PROVE  /\ Written(y, ev) \in Recorders /\ Written(y, ev).torn \in BOOLEAN
             /\ Extended(Written(y, ev).lines, y.lines)
  <2> DEFINE L == y.lines
             M == y.held
             z == <<LineOf(y, ev)>>
  <2>1. L \in Seq(Lines) /\ M \in Seq(Lines) /\ z \in Seq(Lines)
    BY Fields, LineType
  <2>2. Written(y, ev) \in Recorders /\ Written(y, ev).lines = (L \o M) \o z
    BY WrittenFields
  <2>3. Written(y, ev).torn \in BOOLEAN
    BY <2>2, Fields
  <2> HIDE DEF L, M, z
  <2>4. Extended(L \o M, L) /\ Extended((L \o M) \o z, L \o M)
    <3>1. L \o M \in Seq(Lines)
      BY <2>1
    <3> QED BY <2>1, <3>1, Concatenated
  <2>5. Extended((L \o M) \o z, L)
    BY <2>1, <2>4, ExtendedBoth
  <2> QED BY <2>2, <2>3, <2>5 DEF L
<1>2. ASSUME NEW y \in one
      PROVE  y \in Recorders /\ y.torn \in BOOLEAN /\ Extended(y.lines, r.lines)
  BY <1>e, <1>1
<1>3. ASSUME NEW y \in two
      PROVE  y.torn \in BOOLEAN /\ Extended(y.lines, r.lines)
  <2>1. PICK z \in one, ev \in Fitting(Events) : y = Written(z, ev)
    OBVIOUS
  <2>2. z \in Recorders /\ Extended(z.lines, r.lines) /\ ev \in AllEvents
    BY <1>e, <1>2
  <2>3. y.torn \in BOOLEAN /\ Extended(y.lines, z.lines)
    BY <1>1, <2>1, <2>2
  <2> QED BY <1>f, <2>2, <2>3, ExtendedBoth
<1>4. Written(r, CloseEvent).torn \in BOOLEAN /\ Extended(Written(r, CloseEvent).lines, r.lines)
  BY <1>e, <1>1
<1>5. \A y \in Recorders : [y EXCEPT !.torn = TRUE].lines = y.lines /\ [y EXCEPT !.torn = TRUE].torn = TRUE
  BY DEF Recorders, RecordersOver
<1>6. \/ \E y \in {r} \union one : x = [y EXCEPT !.torn = TRUE]
      \/ x \in one \/ x \in two \/ x = Written(r, CloseEvent)
  BY DEF Interrupted
<1> HIDE DEF one, two
<1>7. CASE \E y \in {r} \union one : x = [y EXCEPT !.torn = TRUE]
  <2>1. PICK y \in {r} \union one : x = [y EXCEPT !.torn = TRUE]
    BY <1>7
  <2>2. y \in Recorders /\ Extended(y.lines, r.lines)
    BY <1>f, <1>2
  <2>3. x.lines = y.lines /\ x.torn = TRUE
    BY <1>5, <2>1, <2>2
  <2> QED BY <2>2, <2>3
<1> QED BY <1>2, <1>3, <1>4, <1>6, <1>7

-----------------------------------------------------------------------------
(* What a reader is promised of a trace.                                   *)

LEMMA Prefix ==
    ASSUME NEW L \in Seq(Lines), NEW n \in Nat, n <= Len(L)
    PROVE  /\ SubSeq(L, 1, n) \in Seq(Lines) /\ Len(SubSeq(L, 1, n)) = n
           /\ \A i \in 1 .. n : SubSeq(L, 1, n)[i] = L[i]
           /\ n = Len(L) => SubSeq(L, 1, n) = L
<1>1. SubSeq(L, 1, n) \in Seq(Lines) /\ Len(SubSeq(L, 1, n)) = n
  OBVIOUS
<1>2. \A i \in 1 .. n : SubSeq(L, 1, n)[i] = L[i]
  OBVIOUS
<1>3. ASSUME n = Len(L) PROVE SubSeq(L, 1, n) = L
  <2>1. Len(SubSeq(L, 1, n)) = Len(L) /\ \A i \in 1 .. Len(L) : SubSeq(L, 1, n)[i] = L[i]
    BY <1>1, <1>2, <1>3
  <2> QED BY <1>1, <2>1
<1> QED BY <1>1, <1>2, <1>3

LEMMA SamePrefix ==
    ASSUME NEW L \in Seq(Lines), NEW M, Extended(M, L), NEW n \in Nat, n <= Len(L)
    PROVE  SubSeq(M, 1, n) = SubSeq(L, 1, n) /\ n <= Len(M)
<1>1. M \in Seq(Lines) /\ Len(L) <= Len(M) /\ Len(L) \in Nat /\ Len(M) \in Nat
  BY DEF Extended
<1>2. n <= Len(M) /\ \A i \in 1 .. n : M[i] = L[i]
  BY <1>1 DEF Extended
<1> DEFINE A == SubSeq(M, 1, n)
           B == SubSeq(L, 1, n)
<1>3. A \in Seq(Lines) /\ Len(A) = n /\ \A i \in 1 .. n : A[i] = M[i]
  BY <1>1, <1>2, Prefix
<1>4. B \in Seq(Lines) /\ Len(B) = n /\ \A i \in 1 .. n : B[i] = L[i]
  BY Prefix
<1> HIDE DEF A, B
<1>5. A = B
  BY <1>2, <1>3, <1>4
<1> QED BY <1>2, <1>5 DEF A, B

\* Of a trace that has not lapsed, all its lines.
LEMMA AllKept ==
    ASSUME rec.lines \in Seq(Lines), ~Lapsed
    PROVE  Kept = rec.lines
<1>1. Len(rec.lines) \in Nat
  OBVIOUS
<1> QED BY <1>1, Prefix DEF Kept, Promised

-----------------------------------------------------------------------------
(* The inductive invariant: the ledger holds until the process ends or the *)
(* trace lapses, and what was reported of a trace stays true of it.        *)

Running == stage = "running" => ~summary.error /\ ~early /\ (~rec.failed => Clean(rec))

\* Of a trace that was closed before it was finished, and of one that was not.
Reported ==
    /\ ~summary.error => Len(rec.lines) >= summary.recorded /\ summary.dropped = 0
    /\ ~early /\ ~summary.error =>
          /\ Len(rec.lines) = summary.recorded
          /\ rec.dropped = 0 /\ rec.held = <<>> /\ ~rec.torn

Finished ==
    stage = "finished" =>
        /\ Reported
        /\ ~early => rec.closed /\ ~rec.failed
        /\ early /\ ~summary.error => (~rec.failed => Clean(rec))

Dropped == stage = "dropped" => Reported

Cut ==
    Lapsed => /\ stage # "running"
              /\ summary.recorded <= Len(rec.lines) /\ summary.recorded <= Len(acked)

IInv ==
    /\ TypeOK
    /\ Alive /\ ~Lapsed => Ledger(rec, acked, offered, tooLong) /\ CloseOnly(rec)
    /\ Running /\ Finished /\ Dropped /\ Cut
    /\ SeqIsPlace /\ AckedAreKept /\ CloseIsLast /\ Accounting

LEMMA TypeOKFacts == TypeOK => rec \in Recorders
BY DEF TypeOK, Recorders

\* While the process lives, the ledger gives the invariants themselves.
LEMMA LedgerImplies ==
    ASSUME NEW r \in Recorders, NEW a \in Seq(AllEvents), NEW n, NEW t,
           Ledger(r, a, n, t), CloseOnly(r)
    PROVE  /\ Placed(r.lines) /\ CloseLast(r.lines)
           /\ Len(a) <= Len(r.lines) /\ \A i \in 1 .. Len(a) : r.lines[i].ev = a[i]
           /\ n = r.nextSeq + r.dropped + r.afterClose + t
<1>1. Len(a) \in Nat
  OBVIOUS
<1> QED BY <1>1 DEF Ledger, CloseOnly, Told, Total

\* It holds when the recorder starts.
THEOREM InitInv == Init => IInv
<1> SUFFICES ASSUME Init PROVE IInv
  OBVIOUS
<1>1. PICK sink \in Sinks : rec = New(sink)
  BY DEF Init
<1>2. /\ rec.lines = <<>> /\ rec.held = <<>> /\ ~rec.torn /\ rec.nextSeq = 0
      /\ rec.dropped = 0 /\ rec.afterClose = 0 /\ ~rec.failed /\ ~rec.closed
  BY <1>1 DEF New
<1>3. TypeOK
  <2>1. rec \in RecordersOver(AllEvents, Ids)
    BY <1>1 DEF New, RecordersOver
  <2>2. summary \in Summaries
    BY DEF Init, SummaryOf, New, Summaries
  <2>3. acked \in Seq(AllEvents)
    BY DEF Init
  <2>4. early \in BOOLEAN /\ offered \in Nat /\ tooLong \in Nat /\ stage \in Stages
    BY DEF Init, Stages
  <2> QED BY <2>1, <2>2, <2>3, <2>4 DEF TypeOK
<1>4. /\ Placed(rec.lines) /\ CloseLast(rec.lines) /\ NoClose(rec.lines)
      /\ Told(rec.lines, acked) /\ Len(rec.lines) = 0
  BY <1>2 DEF Init, Placed, CloseLast, NoClose, Told
<1>5. Ledger(rec, acked, offered, tooLong) /\ CloseOnly(rec)
  BY <1>2, <1>4 DEF Init, Ledger, CloseOnly, Pending, Total
<1>6. ~summary.error /\ ~Lapsed
  BY DEF Init, SummaryOf, New, Lapsed
<1>7. Kept = rec.lines
  BY <1>3, <1>6, AllKept, TypeOKFacts, Fields
<1>8. SeqIsPlace /\ AckedAreKept /\ CloseIsLast /\ Accounting
  BY <1>2, <1>4, <1>5, <1>6, <1>7 DEF Init, Placed, CloseLast, SeqIsPlace, AckedAreKept, Promised,
     CloseIsLast, Accounting
<1> QED BY <1>2, <1>3, <1>5, <1>6, <1>8 DEF Init, IInv, Running, Finished, Dropped, Cut, Clean

\* What every step but `finish` does to the file, whatever it went through.
Adds ==
    /\ UNCHANGED <<summary, early>>
    /\ rec' \in Recorders /\ Extended(rec'.lines, rec.lines)
    /\ rec'.nextSeq # rec.nextSeq => ~rec.failed /\ ~rec.closed

\* What every action that writes or closes has to show.
LEMMA WriteStep ==
    ASSUME IInv, Alive, ~Lapsed, Adds, UNCHANGED stage,
           acked' \in Seq(AllEvents), offered' \in Nat, tooLong' \in Nat,
           Ledger(rec, acked, offered, tooLong)', CloseOnly(rec)',
           (~rec.failed => Clean(rec)) => (~rec.failed => Clean(rec))',
           stage = "finished" /\ ~early =>
               /\ rec'.closed /\ ~rec'.failed /\ rec'.lines = rec.lines
               /\ rec'.held = rec.held /\ rec'.torn = rec.torn /\ rec'.dropped = rec.dropped
    PROVE  IInv'
<1>1. TypeOK' /\ ~Lapsed' /\ (Cut)'
  BY DEF IInv, TypeOK, Recorders, Lapsed, Cut, Adds
<1>2. (Running /\ Dropped)'
  BY DEF IInv, Running, Dropped, Alive, Adds
<1>3. Finished'
  <2> SUFFICES ASSUME stage = "finished" PROVE Finished'
    BY DEF Finished
  <2>01. summary.recorded \in Nat
    BY DEF IInv, TypeOK, Summaries
  <2>02. Len(rec'.lines) >= Len(rec.lines)
    BY DEF Adds, Extended
  <2>03. Len(rec.lines) \in Nat /\ Len(rec'.lines) \in Nat
    BY Fields, TypeOKFacts DEF IInv, TypeOK, Adds
  <2>1. Len(rec.lines) \in Nat /\ Len(rec'.lines) \in Nat /\ Len(rec'.lines) >= Len(rec.lines)
        /\ summary.recorded \in Nat
    BY <2>01, <2>02, <2>03
  <2>2. CASE early
    BY <2>1, <2>2 DEF IInv, Finished, Reported, Lapsed, Adds
  <2>3. CASE ~early
    BY <2>1, <2>3 DEF IInv, Finished, Reported, Adds
  <2> QED BY <2>2, <2>3
<1>4. (Kept = rec.lines)'
  <2>1. (rec.lines \in Seq(Lines))'
    BY Fields DEF Adds
  <2> QED BY <1>1, <2>1, Prefix DEF Kept, Promised
<1>5. /\ Placed(rec'.lines) /\ CloseLast(rec'.lines)
      /\ Len(acked') <= Len(rec'.lines) /\ \A i \in 1 .. Len(acked') : rec'.lines[i].ev = acked'[i]
      /\ Accounting'
  BY LedgerImplies DEF Accounting, Adds
<1>6. (SeqIsPlace /\ AckedAreKept /\ CloseIsLast /\ Accounting)'
  BY <1>1, <1>4, <1>5 DEF Placed, CloseLast, SeqIsPlace, AckedAreKept, Promised, CloseIsLast
<1> QED BY <1>1, <1>2, <1>3, <1>6 DEF IInv

\* What is recorded after a trace has lapsed changes nothing of what is promised.
LEMMA LapsedStep ==
    ASSUME IInv, Lapsed, Adds, stage' \in Stages \ {"running"},
           acked' \in Seq(AllEvents), offered' \in Nat, tooLong' \in Nat, Accounting',
           Len(acked') >= Len(acked), \A i \in 1 .. Len(acked) : acked'[i] = acked[i]
    PROVE  IInv' /\ Kept' = Kept
<1> DEFINE n == summary.recorded
           L == rec.lines
           M == rec'.lines
<1>1. /\ n \in Nat /\ L \in Seq(Lines) /\ n <= Len(L) /\ n <= Len(acked)
      /\ Len(acked) \in Nat /\ Len(acked') \in Nat
  BY Fields, TypeOKFacts DEF IInv, TypeOK, Summaries, Cut
<1>2. TypeOK' /\ Lapsed' /\ Extended(M, L) /\ summary' = summary
  BY DEF IInv, TypeOK, Recorders, Lapsed, Adds
<1>3. SubSeq(M, 1, n) = SubSeq(L, 1, n) /\ n <= Len(M)
  <2> HIDE DEF n, L, M
  <2> QED BY <1>1, <1>2, SamePrefix
<1>4. Kept' = Kept
  BY <1>2, <1>3 DEF Kept, Promised
<1>5. (SeqIsPlace /\ CloseIsLast)'
  BY <1>4 DEF IInv, SeqIsPlace, CloseIsLast
<1>6. AckedAreKept'
  <2>1. \A i \in 1 .. n : M[i] = L[i] /\ acked'[i] = acked[i] /\ L[i].ev = acked[i]
    BY <1>1, <1>2 DEF Extended, IInv, AckedAreKept, Promised
  <2> QED BY <1>2, <1>3, <2>1 DEF AckedAreKept, Promised
<1>7. (Running /\ Finished /\ Dropped /\ Cut)'
  BY <1>1, <1>2, <1>3 DEF Running, Finished, Dropped, Reported, Cut, Lapsed
<1> QED BY <1>2, <1>4, <1>5, <1>6, <1>7 DEF IInv

\* After the close a write changes only the count of refusals.
LEMMA ClosedWrite ==
    ASSUME NEW r \in Recorders, NEW ev \in AllEvents, NEW w \in Write(r, ev), r.closed
    PROVE  AfterClose(r, ev, w)
BY WriteOutcomes DEF Ok, Lost, TooLong

\* A closed trace is only counted against, and a failing sink's trace too.
LEMMA RefusedWrite ==
    ASSUME NEW r \in Recorders, NEW ev \in AllEvents, NEW w \in Write(r, ev),
           r.closed \/ r.failed
    PROVE  /\ w.rec.lines = r.lines /\ w.rec.nextSeq = r.nextSeq /\ w.rec \in Recorders
           /\ w.rec.closed \/ w.rec.failed
           /\ r.closed => w.rec.closed /\ w.rec.held = r.held
BY WriteOutcomes DEF Ok, Lost, TooLong, AfterClose

\* What a caller was told before stays what it was told.
LEMMA Acknowledgements ==
    ASSUME NEW a \in Seq(AllEvents), NEW ev \in AllEvents, NEW out
    PROVE  LET b == a \o Acknowledged(ev, out)
           IN  b \in Seq(AllEvents) /\ Len(b) >= Len(a) /\ \A i \in 1 .. Len(a) : b[i] = a[i]
<1>1. Len(a) \in Nat
  OBVIOUS
<1>2. \A x : Len(Append(a, x)) = Len(a) + 1 /\ \A i \in 1 .. Len(a) : Append(a, x)[i] = a[i]
  OBVIOUS
<1> QED BY <1>1, <1>2, AcknowledgedType

LEMMA RecordEventAdds ==
    ASSUME IInv, NEW ev \in Events, RecordEvent(ev)
    PROVE  Adds
<1>1. PICK w \in Write(rec, ev) : rec' = w.rec
  BY DEF RecordEvent, Record
<1>2. ev \in AllEvents /\ rec \in Recorders
  BY TypeOKFacts DEF IInv, AllEvents
<1>3. w.rec \in Recorders /\ Extended(w.rec.lines, rec.lines)
  BY <1>2, WriteOutcomes, WriteExtends
<1>4. rec.closed \/ rec.failed => w.rec.nextSeq = rec.nextSeq
  BY <1>2, RefusedWrite
<1> QED BY <1>1, <1>3, <1>4 DEF Adds, RecordEvent

LEMMA RecordEventInv ==
    ASSUME IInv, NEW ev \in Events, RecordEvent(ev)
    PROVE  IInv'
<1>e. ev \in AllEvents
  BY DEF AllEvents
<1>a. Adds
  BY RecordEventAdds
<1>1. PICK w \in Write(rec, ev) :
           /\ rec' = w.rec
           /\ acked' = acked \o Acknowledged(ev, w.out)
           /\ tooLong' = tooLong + Refused(w.out)
  BY DEF RecordEvent, Record
<1>2. /\ rec \in Recorders /\ acked \in Seq(AllEvents) /\ offered \in Nat /\ tooLong \in Nat
      /\ Alive /\ offered' = offered + 1 /\ UNCHANGED stage
  BY DEF IInv, TypeOK, Recorders, RecordEvent
<1>3. acked' \in Seq(AllEvents) /\ offered' \in Nat /\ tooLong' \in Nat
  BY <1>e, <1>1, <1>2, AcknowledgedType
<1>4. CASE ~Lapsed
  <2>1. Ledger(rec, acked, offered, tooLong) /\ CloseOnly(rec)
    BY <1>2, <1>4 DEF IInv
  <2>2. /\ Ledger(rec, acked, offered, tooLong)'
        /\ (~rec.failed => Clean(rec)) => (~rec.failed => Clean(rec))'
    BY <1>e, <1>1, <1>2, <2>1, WriteKeepsLedger
  <2>3. CloseOnly(rec)'
    BY <1>1, <1>2, <2>1, WriteKeepsClose DEF Ledger
  <2>4. stage = "finished" /\ ~early =>
           /\ rec'.closed /\ ~rec'.failed /\ rec'.lines = rec.lines
           /\ rec'.held = rec.held /\ rec'.torn = rec.torn /\ rec'.dropped = rec.dropped
    BY <1>e, <1>1, <1>2, ClosedWrite DEF IInv, Finished, AfterClose
  <2> QED BY <1>a, <1>2, <1>3, <1>4, <2>2, <2>3, <2>4, WriteStep
<1>5. CASE Lapsed
  <2>1. Accounting'
    <3>1. offered = Total(rec.nextSeq, rec.dropped, rec.afterClose, tooLong)
      BY DEF IInv, Accounting, Total
    <3>2. offered' = Total(w.rec.nextSeq, w.rec.dropped, w.rec.afterClose, tooLong')
      BY <1>e, <1>1, <1>2, <3>1, WriteCounts
    <3> QED BY <1>1, <3>2 DEF Accounting, Total
  <2>2. Len(acked') >= Len(acked) /\ \A i \in 1 .. Len(acked) : acked'[i] = acked[i]
    BY <1>e, <1>1, <1>2, Acknowledgements
  <2>3. stage' \in Stages \ {"running"}
    BY <1>2, <1>5 DEF IInv, TypeOK, Cut
  <2> QED BY <1>a, <1>3, <1>5, <2>1, <2>2, <2>3, LapsedStep
<1> QED BY <1>4, <1>5

\* The two writes of a record_all, with the recorder in between.
Halfway(u, v, first, second) ==
    /\ u \in Write(rec, first) /\ v \in Write(u.rec, second) /\ rec' = v.rec
    /\ acked' = acked \o Acknowledged(first, u.out) \o Acknowledged(second, v.out)
    /\ tooLong' = tooLong + Refused(u.out) + Refused(v.out)

LEMMA TwoWrites ==
    ASSUME IInv, NEW first \in Events, NEW second \in Events, RecordTwo(first, second)
    PROVE  /\ first \in AllEvents /\ second \in AllEvents /\ rec \in Recorders
           /\ \E u \in Write(rec, first) : u.rec \in Recorders /\ \E v \in Write(u.rec, second) :
                 Halfway(u, v, first, second)
<1>e. first \in AllEvents /\ second \in AllEvents /\ rec \in Recorders
  BY TypeOKFacts DEF AllEvents, IInv
<1>0. PICK p \in RecordPair(rec, first, second) :
           /\ rec' = p.rec
           /\ acked' = acked \o Acknowledged(first, p.outs[1])
                             \o Acknowledged(second, p.outs[2])
           /\ tooLong' = tooLong + Refused(p.outs[1]) + Refused(p.outs[2])
  BY DEF RecordTwo
<1>1. PICK u \in Write(rec, first) : \E v \in Write(u.rec, second) :
           p.outs[1] = u.out /\ p.outs[2] = v.out /\ p.rec = v.rec
  BY PairWrites
<1>2. PICK v \in Write(u.rec, second) :
           p.outs[1] = u.out /\ p.outs[2] = v.out /\ p.rec = v.rec
  BY <1>1
<1>3. u.rec \in Recorders
  BY <1>e, WriteOutcomes
<1>4. Halfway(u, v, first, second)
  BY <1>0, <1>2 DEF Halfway
<1> QED BY <1>e, <1>3, <1>4

LEMMA RecordTwoAdds ==
    ASSUME IInv, NEW first \in Events, NEW second \in Events, RecordTwo(first, second)
    PROVE  Adds
<1>e. first \in AllEvents /\ second \in AllEvents /\ rec \in Recorders
  BY TwoWrites
<1>1. PICK u \in Write(rec, first) : u.rec \in Recorders /\ \E v \in Write(u.rec, second) :
           Halfway(u, v, first, second)
  BY TwoWrites
<1>2. PICK v \in Write(u.rec, second) : Halfway(u, v, first, second)
  BY <1>1
<1>3. v.rec \in Recorders /\ rec' = v.rec
  BY <1>e, <1>1, <1>2, WriteOutcomes DEF Halfway
<1>4. Extended(v.rec.lines, rec.lines)
  <2>1. Extended(u.rec.lines, rec.lines) /\ Extended(v.rec.lines, u.rec.lines)
    BY <1>e, <1>1, WriteExtends
  <2>2. rec.lines \in Seq(Lines)
    BY <1>e, Fields
  <2> QED BY <2>1, <2>2, ExtendedBoth
<1>5. rec.closed \/ rec.failed => v.rec.nextSeq = rec.nextSeq
  <2>1. rec.closed \/ rec.failed => u.rec.nextSeq = rec.nextSeq /\ (u.rec.closed \/ u.rec.failed)
    BY <1>e, RefusedWrite
  <2>2. u.rec.closed \/ u.rec.failed => v.rec.nextSeq = u.rec.nextSeq
    BY <1>e, <1>1, RefusedWrite
  <2> QED BY <2>1, <2>2
<1> QED BY <1>3, <1>4, <1>5 DEF Adds, RecordTwo

LEMMA RecordTwoInv ==
    ASSUME IInv, NEW first \in Events, NEW second \in Events, RecordTwo(first, second)
    PROVE  IInv'
<1>e. first \in AllEvents /\ second \in AllEvents
  BY TwoWrites
<1>a. Adds
  BY RecordTwoAdds
<1>1. PICK u \in Write(rec, first) : u.rec \in Recorders /\ \E v \in Write(u.rec, second) :
           Halfway(u, v, first, second)
  BY TwoWrites
<1>2. PICK v \in Write(u.rec, second) : Halfway(u, v, first, second)
  BY <1>1
<1> DEFINE b == acked \o Acknowledged(first, u.out)
           k == tooLong + Refused(u.out)
<1>3. /\ rec \in Recorders /\ acked \in Seq(AllEvents) /\ offered \in Nat /\ tooLong \in Nat
      /\ Alive /\ UNCHANGED stage
  BY DEF IInv, TypeOK, Recorders, RecordTwo
<1>o. offered + 1 \in Nat /\ offered' = (offered + 1) + 1
  BY <1>3 DEF RecordTwo
<1>4. /\ b \in Seq(AllEvents) /\ k \in Nat
      /\ Len(b) >= Len(acked) /\ \A i \in 1 .. Len(acked) : b[i] = acked[i]
  <2>1. Refused(u.out) \in Nat
    BY <1>e, <1>3, AcknowledgedType
  <2> QED BY <1>e, <1>3, <2>1, Acknowledgements
<1>5. rec' = v.rec /\ acked' = b \o Acknowledged(second, v.out) /\ tooLong' = k + Refused(v.out)
  BY <1>2 DEF Halfway
<1>k. /\ ~Lapsed => /\ Ledger(u.rec, b, offered + 1, k)
                    /\ (~rec.failed => Clean(rec)) => (~u.rec.failed => Clean(u.rec))
      /\ Total(u.rec.nextSeq, u.rec.dropped, u.rec.afterClose, k)
           = Total(rec.nextSeq, rec.dropped, rec.afterClose, tooLong) + 1
  BY <1>e, <1>3, WriteKeepsLedger, WriteCounts DEF IInv
<1> HIDE DEF b, k
<1>6. /\ acked' \in Seq(AllEvents) /\ offered' \in Nat /\ tooLong' \in Nat
      /\ Len(acked') >= Len(b) /\ \A i \in 1 .. Len(b) : acked'[i] = b[i]
  <2>1. Refused(v.out) \in Nat
    BY <1>e, <1>4, AcknowledgedType
  <2> QED BY <1>e, <1>o, <1>4, <1>5, <2>1, Acknowledgements
<1>7. CASE ~Lapsed
  <2>1. /\ Ledger(v.rec, b \o Acknowledged(second, v.out), (offered + 1) + 1, k + Refused(v.out))
        /\ (~u.rec.failed => Clean(u.rec)) => (~v.rec.failed => Clean(v.rec))
    BY <1>e, <1>1, <1>4, <1>7, <1>o, <1>k, WriteKeepsLedger
  <2>2. CloseOnly(u.rec)
    BY <1>3, <1>7, WriteKeepsClose DEF Ledger, IInv
  <2>3. CloseOnly(v.rec)
    BY <1>1, <1>7, <1>k, <2>2, WriteKeepsClose DEF Ledger
  <2>4. /\ Ledger(rec, acked, offered, tooLong)' /\ CloseOnly(rec)'
        /\ (~rec.failed => Clean(rec)) => (~rec.failed => Clean(rec))'
    BY <1>o, <1>5, <1>7, <1>k, <2>1, <2>3
  <2>5. stage = "finished" /\ ~early =>
           /\ rec'.closed /\ ~rec'.failed /\ rec'.lines = rec.lines
           /\ rec'.held = rec.held /\ rec'.torn = rec.torn /\ rec'.dropped = rec.dropped
    <3> SUFFICES ASSUME stage = "finished", ~early
                 PROVE  /\ rec'.closed /\ ~rec'.failed /\ rec'.lines = rec.lines
                        /\ rec'.held = rec.held /\ rec'.torn = rec.torn
                        /\ rec'.dropped = rec.dropped
      OBVIOUS
    <3>1. rec.closed /\ ~rec.failed
      BY DEF IInv, Finished
    <3>2. AfterClose(rec, first, u)
      BY <1>e, <1>3, <3>1, ClosedWrite
    <3>3. AfterClose(u.rec, second, v)
      BY <1>e, <1>1, <3>2, ClosedWrite DEF AfterClose
    <3> QED BY <1>5, <3>1, <3>2, <3>3 DEF AfterClose
  <2> QED BY <1>a, <1>3, <1>6, <1>7, <2>4, <2>5, WriteStep
<1>8. CASE Lapsed
  <2>1. Accounting'
    <3>1. offered = Total(rec.nextSeq, rec.dropped, rec.afterClose, tooLong)
      BY DEF IInv, Accounting, Total
    <3>2. Total(v.rec.nextSeq, v.rec.dropped, v.rec.afterClose, k + Refused(v.out))
            = Total(u.rec.nextSeq, u.rec.dropped, u.rec.afterClose, k) + 1
      BY <1>e, <1>1, <1>4, WriteCounts
    <3>3. offered' = Total(rec'.nextSeq, rec'.dropped, rec'.afterClose, tooLong')
      BY <1>o, <1>5, <1>k, <3>1, <3>2
    <3> QED BY <3>3 DEF Accounting, Total
  <2>2. Len(acked') >= Len(acked) /\ \A i \in 1 .. Len(acked) : acked'[i] = acked[i]
    <3>1. Len(acked) \in Nat /\ Len(b) \in Nat /\ Len(acked') \in Nat
      BY <1>3, <1>4, <1>6
    <3> QED BY <1>4, <1>6, <3>1
  <2>3. stage' \in Stages \ {"running"}
    BY <1>3, <1>8 DEF IInv, TypeOK, Cut
  <2> QED BY <1>a, <1>6, <1>8, <2>1, <2>2, <2>3, LapsedStep
<1> QED BY <1>7, <1>8

\* A close that finds the trace open is a write.
LEMMA CloseAdds ==
    ASSUME NEW r \in Recorders, NEW w \in Close(r, CloseEvent), ~r.closed, NEW t \in Nat
    PROVE  /\ w.rec \in Recorders /\ Extended(w.rec.lines, r.lines)
           /\ r.failed => w.rec.nextSeq = r.nextSeq /\ w.rec.lines = r.lines
           /\ Total(w.rec.nextSeq, w.rec.dropped, w.rec.afterClose, t)
                = Total(r.nextSeq, r.dropped, r.afterClose, t) + 1
<1>c. CloseEvent \in AllEvents /\ CloseEvent.fits
  BY RecorderAssumption DEF AllEvents
<1>1. PICK u \in Write(r, CloseEvent) :
           w = [out |-> u.out, rec |-> [u.rec EXCEPT !.closed = TRUE]]
  BY DEF Close
<1>2. u.rec \in Recorders /\ (Ok(r, CloseEvent, u) \/ Lost(r, CloseEvent, u))
  <2>1. TooLong(r, CloseEvent, u) => ~CloseEvent.fits
    BY <1>c DEF Write, TooLong, SinkOutcomes
  <2> QED BY <1>c, <2>1, WriteOutcomes DEF AfterClose
<1>3. w.rec \in Recorders
  BY <1>1, <1>2, Updates
<1>4. /\ w.rec.lines = u.rec.lines /\ w.rec.nextSeq = u.rec.nextSeq
      /\ w.rec.dropped = u.rec.dropped /\ w.rec.afterClose = u.rec.afterClose
  BY <1>1, <1>2 DEF Recorders, RecordersOver
<1>5. Extended(u.rec.lines, r.lines)
  BY <1>c, WriteExtends
<1>6. r.failed => u.rec.nextSeq = r.nextSeq /\ u.rec.lines = r.lines
  BY <1>c, RefusedWrite
<1>7. t + Refused(u.out) = t
  <2>1. u.out # "TooLong"
    BY <1>2 DEF Ok, Lost
  <2>2. Refused(u.out) = 0
    BY <2>1 DEF Refused
  <2> QED BY <2>2
<1>8. Total(u.rec.nextSeq, u.rec.dropped, u.rec.afterClose, t)
        = Total(r.nextSeq, r.dropped, r.afterClose, t) + 1
  <2>1. Total(u.rec.nextSeq, u.rec.dropped, u.rec.afterClose, t + Refused(u.out))
          = Total(r.nextSeq, r.dropped, r.afterClose, t) + 1
    BY <1>c, WriteCounts
  <2> QED BY <1>7, <2>1
<1> QED BY <1>3, <1>4, <1>5, <1>6, <1>8

LEMMA CloseTraceAdds ==
    ASSUME IInv, CloseTrace
    PROVE  Adds
<1>1. PICK w \in Close(rec, CloseEvent) : rec' = w.rec
  BY DEF CloseTrace
<1>2. rec \in Recorders /\ rec.lines \in Seq(Lines) /\ tooLong \in Nat
      /\ UNCHANGED <<summary, early>>
  BY TypeOKFacts, Fields DEF IInv, TypeOK, CloseTrace
<1>3. CASE rec.closed
  <2>1. rec' = rec
    BY <1>1, <1>3 DEF Close
  <2> QED BY <1>2, <2>1, ExtendedSelf DEF Adds
<1>4. CASE ~rec.closed
  BY <1>1, <1>2, <1>4, CloseAdds DEF Adds
<1> QED BY <1>3, <1>4

LEMMA StutterInv ==
    ASSUME IInv, UNCHANGED vars
    PROVE  IInv' /\ Kept' = Kept
<1>1. IInv'
  BY DEF vars, IInv, TypeOK, Running, Finished, Dropped, Reported, Cut, SeqIsPlace, AckedAreKept,
     CloseIsLast, Accounting, Alive, Lapsed, Kept, Promised
<1> QED BY <1>1 DEF vars, Kept, Promised, Lapsed

LEMMA CloseTraceInv ==
    ASSUME IInv, CloseTrace
    PROVE  IInv'
<1>c. CloseEvent \in AllEvents
  BY DEF AllEvents
<1>a. Adds
  BY CloseTraceAdds
<1>1. PICK w \in Close(rec, CloseEvent) :
           rec' = w.rec /\ acked' = acked \o Acknowledged(CloseEvent, w.out)
  BY DEF CloseTrace
<1>2. /\ rec \in Recorders /\ acked \in Seq(AllEvents) /\ offered \in Nat /\ tooLong \in Nat
      /\ Alive
      /\ offered' = IF rec.closed THEN offered ELSE offered + 1
      /\ UNCHANGED <<stage, summary, early, tooLong>>
  BY DEF IInv, TypeOK, Recorders, CloseTrace
<1>3. CASE rec.closed
  <2>1. w = [out |-> "Closed", rec |-> rec]
    BY <1>3 DEF Close
  <2>2. rec' = rec /\ acked' = acked
    <3>1. acked \o Acknowledged(CloseEvent, w.out) = acked
      BY <1>c, <1>2, <2>1, AcknowledgedType
    <3> QED BY <1>1, <2>1, <3>1
  <2>3. UNCHANGED vars
    BY <1>2, <1>3, <2>2 DEF vars
  <2> QED BY <2>3, StutterInv
<1>4. CASE ~rec.closed
  <2>0. acked' \in Seq(AllEvents) /\ offered' \in Nat /\ tooLong' \in Nat
    BY <1>c, <1>1, <1>2, <1>4, AcknowledgedType
  <2>1. CASE ~Lapsed
    <3>1. Ledger(rec, acked, offered, tooLong) /\ CloseOnly(rec)
      BY <1>2, <2>1 DEF IInv
    <3>2. /\ w.rec.closed
          /\ Ledger(w.rec, acked \o Acknowledged(CloseEvent, w.out), offered + 1, tooLong)
          /\ CloseOnly(w.rec)
          /\ (~rec.failed => Clean(rec)) => (~w.rec.failed => Clean(w.rec))
      BY <1>2, <1>4, <3>1, CloseKeeps
    <3>3. ~(stage = "finished" /\ ~early)
      BY <1>4 DEF IInv, Finished
    <3>4. /\ Ledger(rec, acked, offered, tooLong)' /\ CloseOnly(rec)'
          /\ (~rec.failed => Clean(rec)) => (~rec.failed => Clean(rec))'
      BY <1>1, <1>2, <1>4, <3>2
    <3> QED BY <1>a, <1>2, <2>0, <2>1, <3>3, <3>4, WriteStep
  <2>2. CASE Lapsed
    <3>1. Accounting'
      <4>1. offered = Total(rec.nextSeq, rec.dropped, rec.afterClose, tooLong)
        BY DEF IInv, Accounting, Total
      <4>2. offered' = Total(w.rec.nextSeq, w.rec.dropped, w.rec.afterClose, tooLong)
        BY <1>2, <1>4, <4>1, CloseAdds
      <4> QED BY <1>1, <1>2, <4>2 DEF Accounting, Total
    <3>2. Len(acked') >= Len(acked) /\ \A i \in 1 .. Len(acked) : acked'[i] = acked[i]
      BY <1>c, <1>1, <1>2, Acknowledgements
    <3>3. stage' \in Stages \ {"running"}
      BY <1>2, <2>2 DEF IInv, TypeOK, Cut
    <3> QED BY <1>a, <2>0, <2>2, <3>1, <3>2, <3>3, LapsedStep
  <2> QED BY <2>1, <2>2
<1> QED BY <1>3, <1>4

\* When `finish` takes the failure of an open trace, what is promised from then
\* on is what was promised before.
LEMMA FinishTraceInv ==
    ASSUME IInv, FinishTrace
    PROVE  IInv' /\ Kept' = Kept
<1>1. PICK f \in Finish(rec) : rec' = f.rec /\ summary' = f.summary
  BY DEF FinishTrace
<1>2. /\ rec \in Recorders /\ stage = "running" /\ stage' = "finished"
      /\ ~summary.error /\ ~early /\ early' = ~rec.closed
      /\ ~rec.failed => Clean(rec)
      /\ UNCHANGED <<offered, tooLong, acked>>
  BY DEF IInv, TypeOK, Recorders, FinishTrace, Running
<1>l. ~Lapsed /\ Ledger(rec, acked, offered, tooLong) /\ CloseOnly(rec)
  BY <1>2 DEF IInv, Lapsed, Alive
<1>3. /\ rec' \in Recorders /\ ~rec'.failed /\ rec'.closed = rec.closed
      /\ rec'.lines = rec.lines /\ rec'.held = rec.held /\ rec'.torn = rec.torn
      /\ rec'.nextSeq = rec.nextSeq /\ rec'.dropped = rec.dropped
      /\ rec'.afterClose = rec.afterClose
      /\ summary' \in Summaries /\ summary'.error = rec.failed
      /\ summary'.recorded = rec.nextSeq /\ summary'.dropped = rec.dropped
  BY <1>1, <1>2, FinishEffect
<1>4. /\ rec.lines \in Seq(Lines) /\ Len(rec.lines) = rec.nextSeq /\ Len(acked) = rec.nextSeq
      /\ rec.nextSeq \in Nat /\ rec.closed \in BOOLEAN
  BY <1>2, <1>l, Fields DEF Ledger, Told
<1>5. TypeOK'
  BY <1>2, <1>3, <1>4 DEF IInv, TypeOK, Recorders, Stages
<1>6. (Alive /\ ~Lapsed => Ledger(rec, acked, offered, tooLong) /\ CloseOnly(rec))'
  <2> SUFFICES ASSUME ~Lapsed' PROVE (Ledger(rec, acked, offered, tooLong) /\ CloseOnly(rec))'
    OBVIOUS
  <2>1. rec.closed \/ ~rec.failed
    BY <1>2, <1>3 DEF Lapsed
  <2>2. CloseOnly(rec)'
    BY <1>3, <1>l DEF CloseOnly
  <2>3. (Pending(rec))'
    BY <1>3, <1>l DEF Ledger, Pending
  <2> QED BY <1>2, <1>3, <1>l, <2>1, <2>2, <2>3 DEF Ledger, Clean
<1>7. (Reported)'
  <2> SUFFICES ASSUME ~summary'.error PROVE (Reported)'
    BY DEF Reported
  <2>1. Clean(rec)
    BY <1>2, <1>3
  <2> QED BY <1>3, <1>4, <2>1 DEF Reported, Clean
<1>8. (Running /\ Finished /\ Dropped /\ Cut)'
  <2>1. (Running /\ Dropped)'
    BY <1>2 DEF Running, Dropped
  <2>2. (early /\ ~summary.error => (~rec.failed => Clean(rec)))'
    BY <1>2, <1>3 DEF Clean
  <2>3. Finished'
    BY <1>2, <1>3, <1>7, <2>2 DEF Finished
  <2>4. (Cut)'
    BY <1>2, <1>3, <1>4 DEF Cut
  <2> QED BY <2>1, <2>3, <2>4
<1>9. Kept' = Kept
  <2>1. Kept = rec.lines
    BY <1>4, <1>l, AllKept
  <2>2. (Promised(Len(rec.lines)) = Len(rec.lines))'
    BY <1>3, <1>4 DEF Promised
  <2>3. Kept' = SubSeq(rec.lines, 1, Len(rec.lines))
    BY <1>3, <2>2 DEF Kept
  <2>4. Kept' = rec.lines
    BY <1>4, <2>3, Prefix
  <2> QED BY <2>1, <2>4
<1>10. (SeqIsPlace /\ CloseIsLast)'
  BY <1>9 DEF IInv, SeqIsPlace, CloseIsLast
<1>11. (AckedAreKept)'
  <2>1. (Promised(Len(acked)) = Len(acked))'
    BY <1>2, <1>3, <1>4 DEF Promised
  <2>2. Len(acked) <= Len(rec.lines) /\ \A i \in 1 .. Len(acked) : rec.lines[i].ev = acked[i]
    BY <1>l DEF IInv, AckedAreKept, Promised
  <2> QED BY <1>2, <1>3, <2>1, <2>2 DEF AckedAreKept
<1>12. (Accounting)'
  BY <1>2, <1>3 DEF IInv, Accounting
<1> QED BY <1>5, <1>6, <1>8, <1>9, <1>10, <1>11, <1>12 DEF IInv

\* The last lines a dropped sink writes are numbered like the others.
LEMMA DrainedLines ==
    ASSUME NEW r \in Recorders, Pending(r), Placed(r.lines), Len(r.lines) = r.nextSeq,
           CloseOnly(r)
    PROVE  /\ Grown(r.lines \o r.held, r.lines)
           /\ r.held = <<>> => r.lines \o r.held = r.lines
<1>f. r.lines \in Seq(Lines) /\ r.held \in Seq(Lines)
  BY Fields
<1>1. CASE r.held = <<>>
  <2>1. r.lines \o r.held = r.lines
    BY <1>f, <1>1
  <2> QED BY <1>f, <2>1 DEF Grown, CloseOnly
<1>2. CASE r.held # <<>>
  <2> DEFINE x == r.held[1]
  <2>1. Len(r.held) = 1 /\ x.seq = r.nextSeq /\ x.whole /\ x \in Lines
    BY <1>f, <1>2 DEF Pending
  <2>2. r.held = <<x>>
    BY <1>f, <2>1
  <2> HIDE DEF x
  <2>3. r.lines \o r.held = Append(r.lines, x)
    BY <1>f, <2>1, <2>2
  <2>4. /\ Placed(Append(r.lines, x)) /\ CloseLast(Append(r.lines, x))
        /\ Len(Append(r.lines, x)) = Len(r.lines) + 1
    BY <1>f, <1>2, <2>1, AppendLine DEF CloseOnly
  <2>5. /\ Append(r.lines, x) \in Seq(Lines)
        /\ \A i \in 1 .. Len(r.lines) : Append(r.lines, x)[i] = r.lines[i]
    BY <1>f, <2>1
  <2> QED BY <1>f, <1>2, <2>3, <2>4, <2>5 DEF Grown
<1> QED BY <1>1, <1>2

\* Lines added at the end leave the acknowledged ones where they were.
LEMMA GrownKeepsAcks ==
    ASSUME NEW L, NEW M \in Seq(Lines), NEW a \in Seq(AllEvents), Told(M, a), Grown(L, M)
    PROVE  Len(a) <= Len(L) /\ \A i \in 1 .. Len(a) : L[i].ev = a[i]
<1>1. Len(a) = Len(M) /\ Len(L) >= Len(M)
  BY DEF Told, Grown
<1> QED BY <1>1 DEF Told, Grown

\* What both ways to end a trace have to show of one that has not lapsed.
LEMMA EndStep ==
    ASSUME IInv, Alive, ~Lapsed, Adds, Grown(rec'.lines, rec.lines),
           UNCHANGED <<acked, offered, tooLong>>, stage' \in {"dropped", "killed"},
           rec'.nextSeq = rec.nextSeq, rec'.dropped = rec.dropped,
           rec'.afterClose = rec.afterClose, (Dropped)'
    PROVE  IInv'
<1>1. /\ rec.lines \in Seq(Lines) /\ rec' \in Recorders /\ rec'.lines \in Seq(Lines)
      /\ acked \in Seq(AllEvents) /\ Told(rec.lines, acked) /\ ~Lapsed'
  BY TypeOKFacts, Fields DEF IInv, TypeOK, Ledger, Lapsed, Adds, Grown
<1>2. TypeOK' /\ ~Alive' /\ (Running /\ Finished /\ Cut)'
  BY <1>1 DEF IInv, TypeOK, Recorders, Stages, Alive, Running, Finished, Cut, Adds
<1>3. (Kept = rec.lines)'
  <2>1. Len(rec'.lines) \in Nat
    BY <1>1
  <2> QED BY <1>1, <2>1, Prefix DEF Kept, Promised
<1>4. /\ Placed(rec'.lines) /\ CloseLast(rec'.lines)
      /\ Len(acked) <= Len(rec'.lines) /\ \A i \in 1 .. Len(acked) : rec'.lines[i].ev = acked[i]
  BY <1>1, GrownKeepsAcks DEF Grown
<1>5. (SeqIsPlace /\ AckedAreKept /\ CloseIsLast)'
  BY <1>1, <1>3, <1>4 DEF Placed, CloseLast, SeqIsPlace, AckedAreKept, CloseIsLast, Promised
<1>6. (Accounting)'
  BY DEF IInv, Accounting
<1> QED BY <1>2, <1>5, <1>6 DEF IInv

\* What it is to end: nobody is told anything more.
Ends ==
    /\ UNCHANGED <<acked, offered, tooLong>>
    /\ rec'.nextSeq = rec.nextSeq /\ rec'.dropped = rec.dropped
    /\ rec'.afterClose = rec.afterClose

LEMMA LapsedEnd ==
    ASSUME IInv, Lapsed, Adds, Ends, stage' \in {"dropped", "killed"}
    PROVE  IInv'
<1>1. /\ acked' \in Seq(AllEvents) /\ offered' \in Nat /\ tooLong' \in Nat
      /\ Len(acked') >= Len(acked) /\ \A i \in 1 .. Len(acked) : acked'[i] = acked[i]
  BY DEF IInv, TypeOK, Ends
<1>2. (Accounting)' /\ stage' \in Stages \ {"running"}
  BY DEF IInv, Accounting, Ends, Stages
<1> QED BY <1>1, <1>2, LapsedStep

LEMMA DropTraceEnds ==
    ASSUME IInv, DropTrace
    PROVE  /\ Adds /\ Ends /\ rec \in Recorders /\ stage = "finished" /\ stage' = "dropped"
           /\ rec' \in {rec, Drained(rec)}
<1>1. /\ rec \in Recorders /\ rec.lines \in Seq(Lines) /\ rec.held \in Seq(Lines)
      /\ stage = "finished" /\ stage' = "dropped" /\ rec' \in {rec, Drained(rec)}
      /\ UNCHANGED <<summary, early, offered, tooLong, acked>>
  BY TypeOKFacts, Fields DEF IInv, DropTrace, Drop
<1>2. CASE rec' = rec
  BY <1>1, <1>2, ExtendedSelf DEF Adds, Ends
<1>3. CASE rec' = Drained(rec)
  <2>1. /\ rec' \in Recorders /\ rec'.lines = rec.lines \o rec.held
        /\ rec'.nextSeq = rec.nextSeq /\ rec'.dropped = rec.dropped
        /\ rec'.afterClose = rec.afterClose
    BY <1>1, <1>3, DrainedType
  <2>2. Extended(rec'.lines, rec.lines)
    BY <1>1, <2>1, Concatenated
  <2> QED BY <1>1, <2>1, <2>2 DEF Adds, Ends
<1> QED BY <1>1, <1>2, <1>3

LEMMA DropTraceGrows ==
    ASSUME IInv, DropTrace, ~Lapsed
    PROVE  /\ Grown(rec'.lines, rec.lines)
           /\ rec.held = <<>> => rec'.lines = rec.lines
<1>1. /\ rec \in Recorders /\ Ledger(rec, acked, offered, tooLong) /\ CloseOnly(rec)
      /\ rec' \in {rec, Drained(rec)} /\ rec.lines \in Seq(Lines)
  BY DropTraceEnds, Fields DEF IInv, Alive
<1>2. CASE rec' = rec
  BY <1>1, <1>2 DEF Grown, Ledger, CloseOnly
<1>3. CASE rec' = Drained(rec)
  BY <1>1, <1>3, DrainedType, DrainedLines DEF Ledger
<1> QED BY <1>1, <1>2, <1>3

LEMMA DropTraceInv ==
    ASSUME IInv, DropTrace
    PROVE  IInv'
<1>1. /\ Adds /\ Ends /\ rec \in Recorders /\ stage = "finished" /\ stage' = "dropped"
      /\ rec' \in {rec, Drained(rec)}
  BY DropTraceEnds
<1>2. CASE Lapsed
  BY <1>1, <1>2, LapsedEnd
<1>3. CASE ~Lapsed
  <2>1. /\ Grown(rec'.lines, rec.lines)
        /\ rec.held = <<>> => rec'.lines = rec.lines
    BY <1>3, DropTraceGrows
  <2>2. (Dropped)'
    <3>1. Reported /\ summary' = summary /\ early' = early
      BY <1>1 DEF IInv, Finished, Adds
    <3>2. Len(rec'.lines) >= Len(rec.lines) /\ Len(rec.lines) \in Nat /\ Len(rec'.lines) \in Nat
          /\ summary.recorded \in Nat
      BY <1>1, <2>1, Fields DEF Grown, IInv, TypeOK, Summaries
    <3>3. rec' = rec \/ (rec'.held = <<>> /\ ~rec'.torn)
      BY <1>1, DrainedType
    <3>4. (Reported)'
      BY <1>1, <2>1, <3>1, <3>2, <3>3 DEF Reported, Ends
    <3> QED BY <3>4 DEF Dropped
  <2> QED BY <1>1, <1>3, <2>1, <2>2, EndStep DEF Ends, Alive
<1> QED BY <1>2, <1>3

LEMMA KillEnds ==
    ASSUME IInv, Kill
    PROVE  /\ Adds /\ Ends /\ Alive /\ stage' = "killed"
           /\ ~Lapsed => Grown(rec'.lines, rec.lines) /\ (rec.closed => rec'.lines = rec.lines)
<1>1. /\ rec \in Recorders /\ rec.lines \in Seq(Lines) /\ Alive /\ stage' = "killed"
      /\ UNCHANGED <<summary, early, offered, tooLong, acked>>
  BY TypeOKFacts, Fields DEF IInv, Kill
<1>l. ~Lapsed => Ledger(rec, acked, offered, tooLong) /\ CloseOnly(rec)
  BY <1>1 DEF IInv
<1>2. CASE rec' = rec
  <2>1. Adds /\ Ends
    BY <1>1, <1>2, ExtendedSelf DEF Adds, Ends
  <2>2. ~Lapsed => Grown(rec'.lines, rec.lines)
    BY <1>1, <1>2, <1>l DEF Grown, Ledger, CloseOnly
  <2> QED BY <1>1, <1>2, <2>1, <2>2
<1>3. ASSUME ~rec.closed, ~rec.failed, NEW x \in Interrupted(rec),
             rec' = [rec EXCEPT !.lines = x.lines, !.torn = x.torn]
      PROVE  /\ Adds /\ Ends
             /\ ~Lapsed => Grown(rec'.lines, rec.lines)
  <2> DEFINE L == x.lines
             b == x.torn
             q == [rec EXCEPT !.lines = L, !.torn = b]
  <2>2. Extended(L, rec.lines) /\ b \in BOOLEAN
    BY <1>1, InterruptedExtends
  <2>3. L \in Seq(Lines)
    BY <2>2 DEF Extended
  <2>g. ~Lapsed => Grown(L, rec.lines)
    BY <1>1, <1>3, <1>l, InterruptedLines DEF Ledger, CloseOnly
  <2>6. rec' = q
    BY <1>3
  <2> HIDE DEF L, b
  <2>4. q \in Recorders
    BY <1>1, <2>2, <2>3, Updates
  <2>5. /\ q.lines = L /\ q.nextSeq = rec.nextSeq /\ q.dropped = rec.dropped
        /\ q.afterClose = rec.afterClose
    BY <1>1 DEF Recorders, RecordersOver
  <2> QED BY <1>1, <2>2, <2>g, <2>4, <2>5, <2>6 DEF Adds, Ends
<1>4. \/ rec' = rec
      \/ /\ ~rec.closed /\ ~rec.failed
         /\ \E x \in Interrupted(rec) : rec' = [rec EXCEPT !.lines = x.lines, !.torn = x.torn]
  BY DEF Kill
<1> QED BY <1>1, <1>2, <1>3, <1>4

LEMMA KillInv ==
    ASSUME IInv, Kill
    PROVE  IInv'
<1>1. Adds /\ Ends /\ Alive /\ stage' = "killed"
  BY KillEnds
<1>2. CASE Lapsed
  BY <1>1, <1>2, LapsedEnd
<1>3. CASE ~Lapsed
  <2>1. (Dropped)'
    BY <1>1 DEF Dropped
  <2>2. Grown(rec'.lines, rec.lines)
    BY <1>3, KillEnds
  <2> QED BY <1>1, <1>3, <2>1, <2>2, EndStep DEF Ends
<1> QED BY <1>2, <1>3

LEMMA NextInv == IInv /\ [Next]_vars => IInv'
<1> SUFFICES ASSUME IInv, [Next]_vars PROVE IInv'
  OBVIOUS
<1>1. ASSUME NEW ev \in Events, RecordEvent(ev) PROVE IInv'
  BY <1>1, RecordEventInv
<1>2. ASSUME NEW first \in Events, NEW second \in Events, RecordTwo(first, second)
      PROVE  IInv'
  BY <1>2, RecordTwoInv
<1>3. CASE CloseTrace
  BY <1>3, CloseTraceInv
<1>4. CASE FinishTrace
  BY <1>4, FinishTraceInv
<1>5. CASE DropTrace
  BY <1>5, DropTraceInv
<1>6. CASE Kill
  BY <1>6, KillInv
<1>7. CASE UNCHANGED vars
  BY <1>7, StutterInv
<1> QED BY <1>1, <1>2, <1>3, <1>4, <1>5, <1>6, <1>7 DEF Next

\* The inductive invariant holds in every reachable state.
THEOREM Invariance == Spec => []IInv
<1>1. Init => IInv
  BY InitInv
<1>2. IInv /\ [Next]_vars => IInv'
  BY NextInv
<1> QED BY <1>1, <1>2, PTL DEF Spec

\* Type correctness.
THEOREM TypeCorrect == Spec => []TypeOK
<1>1. IInv => TypeOK
  BY DEF IInv
<1> QED BY <1>1, Invariance, PTL

\* The lines a reader is promised are numbered by their places, whatever fails
\* or is killed.
THEOREM SeqIsAlwaysPlace == Spec => []SeqIsPlace
<1>1. IInv => SeqIsPlace
  BY DEF IInv
<1> QED BY <1>1, Invariance, PTL

\* What a caller was told is recorded stays in the file.
THEOREM AckedStay == Spec => []AckedAreKept
<1>1. IInv => AckedAreKept
  BY DEF IInv
<1> QED BY <1>1, Invariance, PTL

\* The close is the last line of what a reader is promised.
THEOREM CloseStaysLast == Spec => []CloseIsLast
<1>1. IInv => CloseIsLast
  BY DEF IInv
<1> QED BY <1>1, Invariance, PTL

\* Every event offered is accounted for.
THEOREM EveryEventIsCounted == Spec => []Accounting
<1>1. IInv => Accounting
  BY DEF IInv
<1> QED BY <1>1, Invariance, PTL

\* A trace reported complete holds what the report counts, and is whole if it
\* was closed.
THEOREM ReportedCompleteIsWhole == Spec => []CompleteIsWhole
<1>1. IInv => CompleteIsWhole
  BY DEF IInv, CompleteIsWhole, IsComplete, Finished, Dropped, Reported
<1> QED BY <1>1, Invariance, PTL

-----------------------------------------------------------------------------
(* What no step does, and the log a reader is promised.                    *)

Longer(L, M) ==
    /\ Len(L) \in Len(M) .. Len(M) + 2
    /\ \A i \in 1 .. Len(M) : L[i] = M[i]

\* A step promises at most two lines more and none less, leaves a sealed trace
\* as it is, and numbers an event only behind what was not lost.
Effect ==
    /\ Longer(Kept', Kept)
    /\ Sealed => Kept' = Kept /\ Sealed'
    /\ rec'.nextSeq # rec.nextSeq =>
          ~rec.failed /\ ~rec.closed /\ (Clean(rec) \/ Lapsed)

LEMMA KeptType == IInv => Kept \in Seq(Lines)
<1> SUFFICES ASSUME IInv PROVE Kept \in Seq(Lines)
  OBVIOUS
<1>1. rec.lines \in Seq(Lines) /\ summary.recorded \in Nat
  BY TypeOKFacts, Fields DEF IInv, TypeOK, Summaries
<1>2. CASE ~Lapsed
  BY <1>1, <1>2, AllKept
<1>3. CASE Lapsed
  <2>1. Kept = SubSeq(rec.lines, 1, summary.recorded) /\ summary.recorded <= Len(rec.lines)
    BY <1>3 DEF Kept, Promised, IInv, Cut
  <2> QED BY <1>1, <2>1, Prefix
<1> QED BY <1>2, <1>3

LEMMA SameKept ==
    ASSUME IInv, Kept' = Kept, Sealed => Sealed',
           rec'.nextSeq # rec.nextSeq =>
               ~rec.failed /\ ~rec.closed /\ (Clean(rec) \/ Lapsed)
    PROVE  Effect
<1>1. Len(Kept) \in Nat
  BY KeptType
<1> QED BY <1>1 DEF Effect, Longer

\* Before a trace lapses a step changes what is promised as it changes the file.
LEMMA KeptLines ==
    ASSUME IInv, ~Lapsed, Adds
    PROVE  Kept = rec.lines /\ Kept' = rec'.lines
<1>1. rec.lines \in Seq(Lines) /\ rec'.lines \in Seq(Lines) /\ ~Lapsed'
  BY TypeOKFacts, Fields DEF IInv, Adds, Lapsed
<1>2. Len(rec'.lines) \in Nat
  BY <1>1
<1>3. (Kept = rec.lines)'
  BY <1>1, <1>2, Prefix DEF Kept, Promised
<1> QED BY <1>1, <1>3, AllKept

\* Once it has lapsed nothing of it changes.
LEMMA LapsedEffect ==
    ASSUME IInv, Lapsed, Adds
    PROVE  Effect
<1> DEFINE n == summary.recorded
           L == rec.lines
           M == rec'.lines
<1>1. n \in Nat /\ L \in Seq(Lines) /\ n <= Len(L)
  BY Fields, TypeOKFacts DEF IInv, TypeOK, Summaries, Cut
<1>2. Lapsed' /\ Extended(M, L) /\ summary' = summary
  BY DEF Lapsed, Adds
<1>3. SubSeq(M, 1, n) = SubSeq(L, 1, n)
  <2> HIDE DEF n, L, M
  <2> QED BY <1>1, <1>2, SamePrefix
<1>4. Kept' = Kept
  BY <1>2, <1>3 DEF Kept, Promised
<1>5. Sealed'
  BY <1>2 DEF Sealed
<1> QED BY <1>4, <1>5, SameKept DEF Adds

\* A trace that can still be written to has lost nothing, or has lapsed.
LEMMA OpenIsClean ==
    ASSUME IInv, Alive, ~Lapsed, ~rec.failed, ~rec.closed
    PROVE  Clean(rec)
BY DEF IInv, Alive, Lapsed, Running, Finished

LEMMA OpenEffect ==
    ASSUME IInv, Alive, ~Lapsed, Adds, ~rec.failed, ~rec.closed, Longer(rec'.lines, rec.lines)
    PROVE  Effect
<1>1. Kept = rec.lines /\ Kept' = rec'.lines /\ Clean(rec)
  BY KeptLines, OpenIsClean
<1>2. ~Sealed
  BY DEF Sealed, Alive
<1> QED BY <1>1, <1>2 DEF Effect

LEMMA ShutEffect ==
    ASSUME IInv, ~Lapsed, Adds, rec'.lines = rec.lines, rec'.nextSeq = rec.nextSeq,
           Sealed => Sealed'
    PROVE  Effect
BY KeptLines, SameKept

\* The lines after a write: those before, and at most one more.
LEMMA WriteGrows ==
    ASSUME NEW r \in Recorders, NEW ev \in AllEvents, NEW w \in Write(r, ev),
           ~r.closed /\ ~r.failed => r.held = <<>> /\ ~r.torn
    PROVE  \/ w.rec.lines = r.lines
           \/ /\ Len(w.rec.lines) = Len(r.lines) + 1
              /\ \A i \in 1 .. Len(r.lines) : w.rec.lines[i] = r.lines[i]
<1>f. r.lines \in Seq(Lines)
  BY Fields
<1>1. CASE Ok(r, ev, w)
  <2>1. w.rec.lines = r.lines \o <<>> \o <<LineOf(r, ev)>> /\ LineOf(r, ev) \in Lines
    BY <1>1, LineType DEF Ok
  <2>2. w.rec.lines = Append(r.lines, LineOf(r, ev))
    BY <1>f, <2>1, AppendLine
  <2> QED BY <1>f, <2>1, <2>2
<1>2. CASE w.rec.lines = r.lines
  BY <1>2
<1> QED BY <1>1, <1>2, WriteOutcomes DEF Lost, TooLong, SameTrace, AfterClose

LEMMA RecordEventEffect ==
    ASSUME IInv, NEW ev \in Events, RecordEvent(ev)
    PROVE  Effect
<1>e. ev \in AllEvents
  BY DEF AllEvents
<1>a. Adds
  BY RecordEventAdds
<1>1. PICK w \in Write(rec, ev) : rec' = w.rec
  BY DEF RecordEvent, Record
<1>2. /\ rec \in Recorders /\ Alive /\ UNCHANGED <<stage, summary, early>>
      /\ rec.lines \in Seq(Lines)
  BY TypeOKFacts, Fields DEF IInv, RecordEvent
<1>3. CASE Lapsed
  BY <1>a, <1>3, LapsedEffect
<1>4. CASE ~Lapsed /\ (rec.closed \/ rec.failed)
  <2>1. /\ rec'.lines = rec.lines /\ rec'.nextSeq = rec.nextSeq
        /\ rec.closed => rec'.closed /\ rec'.held = rec.held
    BY <1>e, <1>1, <1>2, <1>4, RefusedWrite
  <2>2. Sealed => Sealed'
    BY <1>2, <1>4, <2>1 DEF Sealed, Alive
  <2> QED BY <1>a, <1>4, <2>1, <2>2, ShutEffect
<1>5. CASE ~Lapsed /\ ~rec.closed /\ ~rec.failed
  <2>1. \/ w.rec.lines = rec.lines
        \/ /\ Len(w.rec.lines) = Len(rec.lines) + 1
           /\ \A i \in 1 .. Len(rec.lines) : w.rec.lines[i] = rec.lines[i]
    BY <1>e, <1>2, <1>5, WriteGrows DEF Ledger, IInv
  <2>2. Longer(rec'.lines, rec.lines)
    BY <1>1, <1>2, <2>1 DEF Longer
  <2> QED BY <1>a, <1>2, <1>5, <2>2, OpenEffect
<1> QED BY <1>3, <1>4, <1>5

LEMMA RecordTwoEffect ==
    ASSUME IInv, NEW first \in Events, NEW second \in Events, RecordTwo(first, second)
    PROVE  Effect
<1>e. first \in AllEvents /\ second \in AllEvents
  BY DEF AllEvents
<1>a. Adds
  BY RecordTwoAdds
<1>1. PICK u \in Write(rec, first) : u.rec \in Recorders /\ \E v \in Write(u.rec, second) :
           Halfway(u, v, first, second)
  BY TwoWrites
<1>2. PICK v \in Write(u.rec, second) : rec' = v.rec
  BY <1>1 DEF Halfway
<1>3. /\ rec \in Recorders /\ Alive /\ UNCHANGED <<stage, summary, early>>
      /\ rec.lines \in Seq(Lines)
      /\ acked \in Seq(AllEvents) /\ offered \in Nat /\ tooLong \in Nat
  BY TypeOKFacts, Fields DEF IInv, RecordTwo, TypeOK
<1>4. CASE Lapsed
  BY <1>a, <1>4, LapsedEffect
<1>5. CASE ~Lapsed /\ (rec.closed \/ rec.failed)
  <2>1. /\ u.rec.lines = rec.lines /\ u.rec.nextSeq = rec.nextSeq
        /\ u.rec.closed \/ u.rec.failed
        /\ rec.closed => u.rec.closed /\ u.rec.held = rec.held
    BY <1>e, <1>3, <1>5, RefusedWrite
  <2>2. /\ rec'.lines = u.rec.lines /\ rec'.nextSeq = u.rec.nextSeq
        /\ u.rec.closed => rec'.closed /\ rec'.held = u.rec.held
    BY <1>e, <1>1, <1>2, <2>1, RefusedWrite
  <2>3. Sealed => Sealed'
    BY <1>3, <1>5, <2>1, <2>2 DEF Sealed, Alive
  <2> QED BY <1>a, <1>5, <2>1, <2>2, <2>3, ShutEffect
<1>6. CASE ~Lapsed /\ ~rec.closed /\ ~rec.failed
  <2>0. Ledger(rec, acked, offered, tooLong)
    BY <1>3, <1>6 DEF IInv
  <2>1. \/ u.rec.lines = rec.lines
        \/ /\ Len(u.rec.lines) = Len(rec.lines) + 1
           /\ \A i \in 1 .. Len(rec.lines) : u.rec.lines[i] = rec.lines[i]
    BY <1>e, <1>3, <2>0, WriteGrows DEF Ledger
  <2>2. Ledger(u.rec, acked \o Acknowledged(first, u.out), offered + 1,
               tooLong + Refused(u.out))
    BY <1>e, <1>3, <2>0, WriteKeepsLedger
  <2>3. \/ v.rec.lines = u.rec.lines
        \/ /\ Len(v.rec.lines) = Len(u.rec.lines) + 1
           /\ \A i \in 1 .. Len(u.rec.lines) : v.rec.lines[i] = u.rec.lines[i]
    BY <1>e, <1>1, <2>2, WriteGrows DEF Ledger
  <2>5. Longer(v.rec.lines, rec.lines)
    <3> DEFINE L == rec.lines
               M == u.rec.lines
               N == v.rec.lines
    <3>1. M = L \/ (Len(M) = Len(L) + 1 /\ \A i \in 1 .. Len(L) : M[i] = L[i])
      BY <2>1
    <3>2. N = M \/ (Len(N) = Len(M) + 1 /\ \A i \in 1 .. Len(M) : N[i] = M[i])
      BY <2>3
    <3>3. Len(L) \in Nat
      BY <1>3
    <3> HIDE DEF L, M, N
    <3>4. Longer(N, L)
      BY <3>1, <3>2, <3>3 DEF Longer
    <3> QED BY <3>4 DEF L, N
  <2>6. Longer(rec'.lines, rec.lines)
    BY <1>2, <2>5
  <2> QED BY <1>a, <1>3, <1>6, <2>6, OpenEffect
<1> QED BY <1>4, <1>5, <1>6

LEMMA CloseTraceEffect ==
    ASSUME IInv, CloseTrace
    PROVE  Effect
<1>c. CloseEvent \in AllEvents
  BY DEF AllEvents
<1>a. Adds
  BY CloseTraceAdds
<1>1. PICK w \in Close(rec, CloseEvent) : rec' = w.rec
  BY DEF CloseTrace
<1>2. /\ rec \in Recorders /\ Alive /\ UNCHANGED <<stage, summary, early>>
      /\ rec.lines \in Seq(Lines) /\ tooLong \in Nat
  BY TypeOKFacts, Fields DEF IInv, CloseTrace, TypeOK
<1>3. CASE Lapsed
  BY <1>a, <1>3, LapsedEffect
<1>4. CASE ~Lapsed /\ rec.closed
  <2>1. rec' = rec
    BY <1>1, <1>4 DEF Close
  <2>2. Sealed => Sealed'
    BY <1>2, <2>1 DEF Sealed, Lapsed
  <2> QED BY <1>a, <1>4, <2>1, <2>2, ShutEffect
<1>5. CASE ~Lapsed /\ ~rec.closed /\ rec.failed
  <2>1. rec'.lines = rec.lines /\ rec'.nextSeq = rec.nextSeq
    BY <1>1, <1>2, <1>5, CloseAdds
  <2>2. ~Sealed
    BY <1>2, <1>5 DEF Sealed, Alive
  <2> QED BY <1>a, <1>5, <2>1, <2>2, ShutEffect
<1>6. CASE ~Lapsed /\ ~rec.closed /\ ~rec.failed
  <2>0. PICK u \in Write(rec, CloseEvent) :
             w = [out |-> u.out, rec |-> [u.rec EXCEPT !.closed = TRUE]]
    BY <1>6 DEF Close
  <2>1. rec' = [u.rec EXCEPT !.closed = TRUE]
    BY <1>1, <2>0
  <2>2. u.rec \in Recorders
    BY <1>c, <1>2, WriteOutcomes
  <2>3. rec'.lines = u.rec.lines
    BY <2>1, <2>2 DEF Recorders, RecordersOver
  <2>4. \/ u.rec.lines = rec.lines
        \/ /\ Len(u.rec.lines) = Len(rec.lines) + 1
           /\ \A i \in 1 .. Len(rec.lines) : u.rec.lines[i] = rec.lines[i]
    BY <1>c, <1>2, <1>6, WriteGrows DEF Ledger, IInv
  <2>5. Longer(rec'.lines, rec.lines)
    BY <1>2, <2>3, <2>4 DEF Longer
  <2> QED BY <1>a, <1>2, <1>6, <2>5, OpenEffect
<1> QED BY <1>3, <1>4, <1>5, <1>6

LEMMA FinishTraceEffect ==
    ASSUME IInv, FinishTrace
    PROVE  Effect
<1>1. PICK f \in Finish(rec) : rec' = f.rec
  BY DEF FinishTrace
<1>2. /\ rec \in Recorders /\ stage = "running" /\ ~Lapsed
      /\ ~rec.failed => Clean(rec)
  BY TypeOKFacts DEF IInv, FinishTrace, Running, Lapsed
<1>3. /\ rec'.nextSeq = rec.nextSeq
      /\ rec'.held = rec.held /\ rec'.closed = rec.closed
  BY <1>1, <1>2, FinishEffect
<1>4. Sealed => Sealed'
  BY <1>2, <1>3 DEF Sealed
<1>5. Kept' = Kept
  BY FinishTraceInv
<1> QED BY <1>3, <1>4, <1>5, SameKept

LEMMA DropTraceEffect ==
    ASSUME IInv, DropTrace
    PROVE  Effect
<1>1. Adds /\ Ends /\ stage = "finished" /\ stage' = "dropped"
  BY DropTraceEnds
<1>2. CASE Lapsed
  BY <1>1, <1>2, LapsedEffect
<1>3. CASE ~Lapsed
  <2>1. Kept = rec.lines /\ Kept' = rec'.lines
    BY <1>1, <1>3, KeptLines
  <2>2. Grown(rec'.lines, rec.lines) /\ (rec.held = <<>> => rec'.lines = rec.lines)
    BY <1>3, DropTraceGrows
  <2>3. Sealed' /\ (Sealed => rec.held = <<>>)
    BY <1>1, <1>3 DEF Sealed
  <2>4. rec'.nextSeq = rec.nextSeq
    BY <1>1 DEF Ends
  <2> QED BY <2>1, <2>2, <2>3, <2>4 DEF Effect, Longer, Grown
<1> QED BY <1>2, <1>3

LEMMA KillEffect ==
    ASSUME IInv, Kill
    PROVE  Effect
<1>1. Adds /\ Ends /\ Alive /\ stage' = "killed"
  BY KillEnds
<1>2. CASE Lapsed
  BY <1>1, <1>2, LapsedEffect
<1>3. CASE ~Lapsed
  <2>1. Kept = rec.lines /\ Kept' = rec'.lines
    BY <1>1, <1>3, KeptLines
  <2>2. Grown(rec'.lines, rec.lines) /\ (rec.closed => rec'.lines = rec.lines)
    BY <1>3, KillEnds
  <2>3. Sealed' /\ (Sealed => rec.closed)
    BY <1>1, <1>3 DEF Sealed, Alive
  <2>4. rec'.nextSeq = rec.nextSeq
    BY <1>1 DEF Ends
  <2> QED BY <2>1, <2>2, <2>3, <2>4 DEF Effect, Longer, Grown
<1> QED BY <1>2, <1>3

LEMMA StepEffect == IInv /\ [Next]_vars => Effect
<1> SUFFICES ASSUME IInv, [Next]_vars PROVE Effect
  OBVIOUS
<1>1. ASSUME NEW ev \in Events, RecordEvent(ev) PROVE Effect
  BY <1>1, RecordEventEffect
<1>2. ASSUME NEW first \in Events, NEW second \in Events, RecordTwo(first, second)
      PROVE  Effect
  BY <1>2, RecordTwoEffect
<1>3. CASE CloseTrace
  BY <1>3, CloseTraceEffect
<1>4. CASE FinishTrace
  BY <1>4, FinishTraceEffect
<1>5. CASE DropTrace
  BY <1>5, DropTraceEffect
<1>6. CASE Kill
  BY <1>6, KillEffect
<1>7. CASE UNCHANGED vars
  <2>1. Kept' = Kept
    BY <1>7, StutterInv
  <2>2. (Sealed => Sealed') /\ rec' = rec
    BY <1>7 DEF vars, Sealed, Lapsed
  <2> QED BY <2>1, <2>2, SameKept
<1> QED BY <1>1, <1>2, <1>3, <1>4, <1>5, <1>6, <1>7 DEF Next

\* NotRecorded::SinkFailed: an event is numbered behind one that was lost only in
\* a trace whose failure `finish` reported before the trace was closed.
THEOREM NothingFollowsALoss == Spec => NothingBehindALoss
<1> DEFINE Behind == rec'.nextSeq # rec.nextSeq =>
                        /\ ~rec.failed /\ ~rec.closed
                        /\ rec.dropped > 0 \/ rec.torn \/ rec.held # <<>> => Lapsed
<1>1. IInv /\ [Next]_vars => [Behind]_vars
  <2> SUFFICES ASSUME IInv, [Next]_vars PROVE Behind
    OBVIOUS
  <2>1. Effect
    BY StepEffect
  <2>2. Clean(rec) => ~(rec.dropped > 0 \/ rec.torn \/ rec.held # <<>>)
    BY DEF Clean
  <2> QED BY <2>1, <2>2 DEF Effect
<1> QED BY <1>1, Invariance, PTL DEF Spec, NothingBehindALoss

\* Every step of the tasks is a step of the reader's log, or leaves it alone.
THEOREM Refinement == Spec => ImplementsTraceLog
<1>1. Init => Log!Init
  <2> SUFFICES ASSUME Init PROVE Log!Init
    OBVIOUS
  <2>1. rec.lines = <<>> /\ ~rec.closed /\ stage = "running" /\ ~early
    BY DEF Init, New
  <2>2. ~Lapsed /\ ~Sealed
    BY <2>1 DEF Lapsed, Sealed
  <2>3. Kept = <<>>
    BY <2>1, <2>2, AllKept
  <2> QED BY <2>2, <2>3 DEF Log!Init
<1>2. IInv /\ IInv' /\ [Next]_vars => [Log!Next]_(Log!vars)
  <2> SUFFICES ASSUME IInv, IInv', [Next]_vars PROVE [Log!Next]_(Log!vars)
    OBVIOUS
  <2>1. Effect
    BY StepEffect
  <2>2. CASE Sealed
    <3>1. Kept' = Kept /\ Sealed' = Sealed
      BY <2>1, <2>2 DEF Effect, Sealed
    <3> QED BY <3>1 DEF Log!vars
  <2>3. CASE ~Sealed
    <3>1. \A i \in 1 .. Len(Kept') : Kept'[i].seq = i - 1 /\ Kept'[i].whole
      BY DEF IInv, SeqIsPlace
    <3>2. Len(Kept) \in Nat
      BY KeptType
    <3>3. Log!Extends(Kept', Kept)
      BY <2>1, <3>1, <3>2 DEF Effect, Longer, Log!Extends
    <3> QED BY <2>3, <3>3 DEF Log!Next, Log!Grow
  <2> QED BY <2>2, <2>3
<1>3. IInv /\ [Next]_vars => IInv'
  BY NextInv
<1> QED BY <1>1, <1>2, <1>3, Invariance, PTL DEF Spec, Log!Spec, ImplementsTraceLog
=============================================================================

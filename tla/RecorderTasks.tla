--------------------------- MODULE RecorderTasks ---------------------------
(***************************************************************************)
(* Any number of tasks sharing one recorder (recorder.rs): they record     *)
(* events in any order, one of them closes the trace, the run's main task  *)
(* finishes it, before or after that, and drops it, and the process may be *)
(* killed at any moment, in the middle of a write included.                *)
(***************************************************************************)
EXTENDS Recorder

CONSTANTS
    Ids,        \* the Mcp-Session-Id values seen
    Events,     \* the events the tasks record
    CloseEvent, \* the lifecycle event that closes the trace
    MaxOffered  \* bound: how many events are offered to the recorder

ASSUME RecorderAssumption ==
    /\ Events \subseteq EventsOver(Ids)
    /\ CloseEvent \in EventsOver(Ids) \ Events
    /\ CloseEvent.fits
    /\ MaxOffered \in Nat

VARIABLES
    rec,        \* the recorder
    stage,      \* "running", "finished", "dropped", or "killed"
    summary,    \* what `finish` reported
    early,      \* history: `finish` came before the close
    offered,    \* history: events offered by record, record_all or the first close
    tooLong,    \* history: of those, refused as TooLong
    acked       \* history: the events a caller was told were recorded, in order

vars == <<rec, stage, summary, early, offered, tooLong, acked>>

AllEvents == Events \union {CloseEvent}
Stages    == {"running", "finished", "dropped", "killed"}
Summaries == [recorded: Nat, messages: Nat, dropped: Nat, error: BOOLEAN,
              afterClose: Nat, initializes: Nat, ids: SUBSET Ids]

Init ==
    /\ \E sink \in Sinks : rec = New(sink)
    /\ stage = "running"
    /\ summary = SummaryOf(New("direct"))
    /\ early = FALSE
    /\ offered = 0
    /\ tooLong = 0
    /\ acked = <<>>

\* The process has not ended: its tasks still run, even while it finishes.
Alive == stage \in {"running", "finished"}

Acknowledged(ev, out) == IF out = "Ok" THEN <<ev>> ELSE <<>>
Refused(out)          == IF out = "TooLong" THEN 1 ELSE 0

RecordEvent(ev) ==
    /\ Alive /\ offered < MaxOffered
    /\ \E w \in Record(rec, ev) :
         /\ rec' = w.rec
         /\ acked' = acked \o Acknowledged(ev, w.out)
         /\ tooLong' = tooLong + Refused(w.out)
    /\ offered' = offered + 1
    /\ UNCHANGED <<stage, summary, early>>

RecordTwo(first, second) ==
    /\ Alive /\ offered + 1 < MaxOffered
    /\ \E w \in RecordPair(rec, first, second) :
         /\ rec' = w.rec
         /\ acked' = acked \o Acknowledged(first, w.outs[1]) \o Acknowledged(second, w.outs[2])
         /\ tooLong' = tooLong + Refused(w.outs[1]) + Refused(w.outs[2])
    /\ offered' = offered + 2
    /\ UNCHANGED <<stage, summary, early>>

CloseTrace ==
    /\ Alive /\ offered < MaxOffered
    /\ \E w \in Close(rec, CloseEvent) :
         /\ rec' = w.rec
         /\ acked' = acked \o Acknowledged(CloseEvent, w.out)
    /\ offered' = IF rec.closed THEN offered ELSE offered + 1
    /\ UNCHANGED <<stage, summary, early, tooLong>>

\* A run finishes a trace it has closed; but the proxy also finishes that of a
\* session which began while it stopped, and whose handlers may still record
\* (traces.rs:220).
FinishTrace ==
    /\ stage = "running"
    /\ \E f \in Finish(rec) : rec' = f.rec /\ summary' = f.summary
    /\ stage' = "finished"
    /\ early' = ~rec.closed
    /\ UNCHANGED <<offered, tooLong, acked>>

DropTrace ==
    /\ stage = "finished"
    /\ rec' \in Drop(rec)
    /\ stage' = "dropped"
    /\ UNCHANGED <<summary, early, offered, tooLong, acked>>

\* What the end of the process leaves of a call it interrupts: for a record, a
\* record_all or a close, some of its lines with nobody told, and perhaps a
\* fragment of the next.
Fitting(S) == {ev \in S : ev.fits}

Interrupted(r) ==
    LET one == {Written(r, ev) : ev \in Fitting(Events)}
        two == UNION {{Written(x, ev) : ev \in Fitting(Events)} : x \in one}
    IN  {[x EXCEPT !.torn = TRUE] : x \in {r} \union one}
        \union one \union two \union {Written(r, CloseEvent)}

\* SIGKILL: no destructor runs.
Kill ==
    /\ Alive
    /\ \/ UNCHANGED rec
       \/ /\ ~rec.closed /\ ~rec.failed /\ rec.sink # "unwritable"
          /\ \E x \in Interrupted(rec) :
               rec' = [rec EXCEPT !.lines = x.lines, !.torn = x.torn]
    /\ stage' = "killed"
    /\ UNCHANGED <<summary, early, offered, tooLong, acked>>

Next ==
    \/ \E ev \in Events : RecordEvent(ev)
    \/ \E first, second \in Events : RecordTwo(first, second)
    \/ CloseTrace
    \/ FinishTrace
    \/ DropTrace
    \/ Kill

Spec == Init /\ [][Next]_vars

-----------------------------------------------------------------------------
TypeOK ==
    /\ rec \in RecordersOver(AllEvents, Ids)
    /\ stage \in Stages
    /\ summary \in Summaries
    /\ early \in BOOLEAN
    /\ offered \in Nat
    /\ tooLong \in Nat
    /\ acked \in Seq(AllEvents)

\* `finish` took the failure of a trace that nobody had closed: its recorder has
\* none any more, and what is recorded then goes behind what was lost.  What a
\* reader is promised ends with what the summary counts.
Lapsed == early /\ summary.error

Promised(n) == IF Lapsed THEN summary.recorded ELSE n

Kept == SubSeq(rec.lines, 1, Promised(Len(rec.lines)))

\* The lines are numbered by their places and each can be parsed: no refusal,
\* failure, close or kill leaves a gap, a duplicate or a garbled line in a file
\* that was not reported as failed while it could still grow.
SeqIsPlace ==
    \A i \in 1 .. Len(Kept) : Kept[i].seq = i - 1 /\ Kept[i].whole

\* "A capture killed mid-session keeps everything it recorded": what a caller
\* was told is recorded is in the file, in the order it was told.
AckedAreKept ==
    /\ Promised(Len(acked)) <= Len(rec.lines)
    /\ \A i \in 1 .. Promised(Len(acked)) : rec.lines[i].ev = acked[i]

\* The close stays the last line, whatever tasks record after it.
CloseIsLast ==
    \A i \in 1 .. Len(Kept) : Kept[i].ev = CloseEvent => i = Len(Kept)

\* Each event offered is accounted for once: numbered, dropped, refused after
\* the close, or refused as too long.
Accounting == offered = rec.nextSeq + rec.dropped + rec.afterClose + tooLong

\* A trace reported without an error holds all that the report counts and
\* dropped nothing of it; if it was closed, nobody adds to it afterwards, and
\* it ends in no fragment.
CompleteIsWhole ==
    stage \in {"finished", "dropped"} /\ IsComplete(summary) =>
        /\ Len(rec.lines) >= summary.recorded
        /\ summary.dropped = 0
        /\ ~early => /\ Len(rec.lines) = summary.recorded
                     /\ rec.dropped = 0
                     /\ ~rec.torn

\* NotRecorded::SinkFailed, "The sink has failed; nothing more is written": an
\* event is numbered behind one that was dropped, or behind a fragment, only in
\* a trace whose failure was reported before it was closed.
NothingBehindALoss ==
    [][rec'.nextSeq # rec.nextSeq =>
          /\ ~rec.failed /\ ~rec.closed
          /\ rec.dropped > 0 \/ rec.torn \/ rec.held # <<>> => Lapsed]_vars

\* Nothing can be added any more: the close is in the file or was given up,
\* nobody holds the recorder, or what is added is promised to nobody.
Sealed == (rec.closed /\ rec.held = <<>>) \/ stage \in {"dropped", "killed"} \/ Lapsed

Log == INSTANCE TraceLog WITH log <- Kept, sealed <- Sealed

\* The tasks and the recorder implement the log a reader is promised.
ImplementsTraceLog == Log!Spec
=============================================================================

------------------------------ MODULE Recorder ------------------------------
(***************************************************************************)
(* The trace writer of mcp-trace-capture (recorder.rs), as operators on    *)
(* one recorder's value.  A recorder is a mutex around the trace's sink    *)
(* and counters; every public method holds that lock from its first read   *)
(* to its last write, so each operator below is one atomic step of the     *)
(* task that calls it.                                                     *)
(*                                                                         *)
(* An operator that can touch the sink returns the SET of its possible     *)
(* outcomes, [out |-> what the caller is told, rec |-> the recorder after],*)
(* since whether a write reaches the file is the file system's choice.     *)
(* Sequences of bytes are abstracted to whole lines, one possible torn     *)
(* fragment at the end of the file, and the lines a buffering sink still   *)
(* holds after a failed flush.                                             *)
(***************************************************************************)
EXTENDS Naturals, Sequences, FiniteSets

CONSTANT SinkFaults     \* whether a write to a usable sink may fail

ASSUME SinkFaultsAssumption == SinkFaults \in BOOLEAN

Directions == {"client-to-server", "server-to-client"}
Bodies     == {"message", "http", "transport-open", "transport-close",
               "transport-abort"}

\* BufWriter<File> for a named trace, Appender for a session's own trace, and
\* Unwritable for a session whose file could not be created.
Sinks == {"buffered", "direct", "unwritable"}

\* What a recorder reads of an event: `fits` is whether its line is within the
\* line limit, `opens` whether it is a client's initialize request, and `ids`
\* the Mcp-Session-Id values an http event carries (none or one).
EventsOver(Ids) == [dir: Directions, body: Bodies, fits: BOOLEAN,
                    opens: BOOLEAN, ids: SUBSET Ids]

LifecycleEvent(dir, body) ==
    [dir |-> dir, body |-> body, fits |-> TRUE, opens |-> FALSE, ids |-> {}]

(***************************************************************************)
(* The recorder's value.                                                   *)
(*   lines  the complete lines of the file; a line that was appended to a  *)
(*          fragment is not `whole`: no reader can parse it                *)
(*   torn   the file ends in a fragment of a line                          *)
(*   held   the lines whose bytes the buffering sink still holds           *)
(***************************************************************************)
LinesOver(Events) == [seq: Nat, ev: Events, whole: BOOLEAN]

RecordersOver(Events, Ids) ==
    [sink: Sinks, lines: Seq(LinesOver(Events)), torn: BOOLEAN,
     held: Seq(LinesOver(Events)), nextSeq: Nat, messages: Nat,
     failed: BOOLEAN, dropped: Nat, closed: BOOLEAN, afterClose: Nat,
     initializes: Nat, ids: SUBSET Ids]

New(sink) ==
    [sink |-> sink, lines |-> <<>>, torn |-> FALSE, held |-> <<>>,
     nextSeq |-> 0, messages |-> 0, failed |-> FALSE, dropped |-> 0,
     closed |-> FALSE, afterClose |-> 0, initializes |-> 0, ids |-> {}]

(***************************************************************************)
(* Writing one event.                                                      *)
(***************************************************************************)

\* The sessions an event is evidence of, noted whether or not it is written.
Observe(r, ev) ==
    [r EXCEPT !.initializes = IF ev.opens THEN @ + 1 ELSE @,
              !.ids = @ \union ev.ids]

LineOf(r, ev) ==
    [seq |-> r.nextSeq, ev |-> ev, whole |-> r.torn => r.held # <<>>]

\* Mutant: the write leaves the line in the sink's buffer.
WrittenUnflushed(r, ev) ==
    IF r.sink = "buffered"
      THEN [r EXCEPT !.held = Append(@, LineOf(r, ev)), !.nextSeq = @ + 1]
      ELSE [r EXCEPT !.lines = Append(@, LineOf(r, ev)), !.nextSeq = @ + 1]

\* The line and its newline reached the file, behind anything the sink held.
Written(r, ev) ==
    [r EXCEPT !.lines = @ \o r.held \o <<LineOf(r, ev)>>,
              !.torn = FALSE,
              !.held = <<>>,
              !.nextSeq = @ + 1,
              !.messages = IF ev.body = "message" THEN @ + 1 ELSE @]

\* Mutant: the failure is counted but not kept.
WriteFailuresForgotten(r, ev) ==
    {[r EXCEPT !.dropped = @ + 1, !.torn = t] : t \in {r.torn, TRUE}}

\* The write failed.  Part of the line may be in the file; a buffering sink may
\* keep the line to write later (a line larger than its buffer is not kept).
WriteFailures(r, ev) ==
    LET torn == IF r.sink = "unwritable" THEN {r.torn} ELSE {r.torn, TRUE}
        held == IF r.sink = "buffered" THEN {r.held, Append(r.held, LineOf(r, ev))}
                                       ELSE {r.held}
    IN  UNION {{[r EXCEPT !.failed = TRUE, !.dropped = @ + 1, !.torn = t, !.held = h] :
                   h \in held} : t \in torn}

SinkOutcomes(r, ev) ==
    (IF r.sink = "unwritable" THEN {}
                              ELSE {[out |-> "Ok", rec |-> Written(r, ev)]})
    \union
    (IF SinkFaults \/ r.sink = "unwritable"
       THEN {[out |-> "SinkFailed", rec |-> x] : x \in WriteFailures(r, ev)}
       ELSE {})

\* Mutants: events after a failure are not counted; a closed trace is
\* written to.
WriteUncounted(r, ev) ==
    IF r.closed THEN {[out |-> "Closed", rec |-> [r EXCEPT !.afterClose = @ + 1]]}
    ELSE IF r.failed THEN {[out |-> "SinkFailed", rec |-> Observe(r, ev)]}
    ELSE IF ~ev.fits THEN {[out |-> "TooLong", rec |-> Observe(r, ev)]}
    ELSE SinkOutcomes(Observe(r, ev), ev)

WriteUnsealed(r, ev) ==
    IF r.failed
      THEN {[out |-> "SinkFailed", rec |-> [Observe(r, ev) EXCEPT !.dropped = @ + 1]]}
    ELSE IF ~ev.fits THEN {[out |-> "TooLong", rec |-> Observe(r, ev)]}
    ELSE SinkOutcomes(Observe(r, ev), ev)

Write(r, ev) ==
    IF r.closed THEN {[out |-> "Closed", rec |-> [r EXCEPT !.afterClose = @ + 1]]}
    ELSE IF r.failed
      THEN {[out |-> "SinkFailed", rec |-> [Observe(r, ev) EXCEPT !.dropped = @ + 1]]}
    ELSE IF ~ev.fits
      THEN {[out |-> "TooLong", rec |-> Observe(r, ev)]}
    ELSE SinkOutcomes(Observe(r, ev), ev)

(***************************************************************************)
(* The public methods.                                                     *)
(***************************************************************************)

Record(r, ev) == Write(r, ev)

\* record_all over the two events its one caller passes: both under one hold
\* of the lock, so no other event comes between their lines.
RecordPair(r, first, second) ==
    UNION {{[outs |-> <<a.out, b.out>>, rec |-> b.rec] : b \in Write(a.rec, second)} :
              a \in Write(r, first)}

\* The first close writes its event and seals the trace, even when the event
\* could not be written; a later one is refused, uncounted.
Close(r, ev) ==
    IF r.closed THEN {[out |-> "Closed", rec |-> r]}
    ELSE {[out |-> w.out, rec |-> [w.rec EXCEPT !.closed = TRUE]] : w \in Write(r, ev)}

\* Everything the sink held is now in the file.
Drained(r) == [r EXCEPT !.lines = @ \o r.held, !.torn = FALSE, !.held = <<>>]

\* The flush of `finish`: nothing to do unless the sink holds something.
Flushed(r) ==
    IF r.failed THEN {r}
    ELSE {Drained(r)} \union
         (IF SinkFaults /\ r.held # <<>> THEN {[r EXCEPT !.failed = TRUE]} ELSE {})

SummaryOf(r) ==
    [recorded |-> r.nextSeq, messages |-> r.messages, dropped |-> r.dropped,
     error |-> r.failed, afterClose |-> r.afterClose,
     initializes |-> r.initializes, ids |-> r.ids]

\* `finish` hands the error to the summary and keeps none (failed.take()).
Finish(r) ==
    {[summary |-> SummaryOf(f), rec |-> [f EXCEPT !.failed = FALSE]] : f \in Flushed(r)}

\* The last handle is dropped: a buffering sink tries once more to write what
\* it holds, and nobody hears whether it could.
Drop(r) == {r, Drained(r)}

IsComplete(summary) == ~summary.error
=============================================================================

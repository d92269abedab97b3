------------------------------- MODULE MCStdio -------------------------------
(***************************************************************************)
(* Instances of StdioCapture for TLC.  A server is one process; a launcher *)
(* and the process behind it, which share the pipes; a launcher whose      *)
(* second process holds no pipe; or a server that left a daemon behind: a  *)
(* process outside its group that holds its stdout.                        *)
(***************************************************************************)
EXTENDS StdioCapture

CONSTANT Terminate

MCStops == {Terminate}

Alone    == [procs |-> {"leader"}, group |-> {"leader"}, holds |-> {"leader"}]
Launched == [procs |-> Procs, group |-> Procs, holds |-> Procs]
Quiet    == [procs |-> Procs, group |-> Procs, holds |-> {"leader"}]
Daemon   == [procs |-> Procs, group |-> {"leader"}, holds |-> Procs]

Session(processes, long, oversized, room, requests, stops, mishaps) ==
    [procs |-> processes.procs, group |-> processes.group, holds |-> processes.holds,
     twoPieces |-> long, oversized |-> oversized, room |-> room, requests |-> requests,
     stops |-> stops, mishaps |-> mishaps]

\* Two requests, or one, their responses in two pieces each: pipes of a piece
\* or of two.
Traffic == Session(Alone, {"response"}, {}, 1, 2, 0, {})
Wide    == Session(Alone, {"response"}, {}, 2, 1, 0, {})

\* Sessions that end of themselves, one of the two sides letting the other down.
Ending(processes) ==
    Session(processes, {}, {}, 1, 1, 0, {"client leaves", "server stops reading"})

\* A stop with messages on their way, one of them too large to record.
Asking == Session(Alone, {}, {"note"}, 1, 1, 1, {})

\* A trace file whose writes fail, and a request too large to record.
Lossy == Session(Alone, {}, {"request"}, 1, 1, 0, {"write fails"})

\* A stop and a SIGKILL anywhere, over a file whose writes fail.
Killed == Session(Alone, {}, {}, 1, 0, 1, {"wrapper killed", "write fails"})

\* Requests to stop, before a client that leaves or will not read.
Stopped(processes, stops) ==
    Session(processes, {}, {}, 1, 0, stops, {"client leaves", "client stalls"})

MCSafety  == {Traffic, Wide, Asking, Lossy, Killed,
              Ending(Launched), Ending(Quiet), Ending(Daemon)}
MCStopped == {Stopped(Launched, 2), Stopped(Quiet, 1), Stopped(Daemon, 1)}
=============================================================================

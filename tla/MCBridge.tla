------------------------------ MODULE MCBridge ------------------------------
(***************************************************************************)
(* Instances of Bridge for TLC.                                            *)
(***************************************************************************)
EXTENDS Bridge

Suite(requests, started, kinds, pieces, notices, may) ==
    [exchanges |-> requests, sessions |-> started, kinds |-> {"initialize"} \union kinds, pieces |-> pieces,
     notices |-> notices, may |-> may]

\* Traffic both ways: requests, a stream of the client's, the server's own words.
Traffic == Suite(3, 1, {"request", "get"}, 1, 2, {})
Left    == Suite(3, 1, {"request", "get"}, 1, 1, {"leave"})
Exits   == Suite(3, 1, {"request", "get"}, 1, 1, {"exit", "mute"})
Batches == Suite(3, 1, {"batch"}, 1, 1, {})
Cut     == Suite(3, 1, {"batch"}, 1, 0, {"exit"})

\* More than may wait for a stream, before clients that leave theirs.
Overfull == Suite(3, 1, {"get"}, 1, 3, {"leave"})

\* Lines in two pieces, and clients that leave in the middle of one.
Lines == Suite(3, 1, {"notification", "request"}, 2, 0, {"leave"})

\* Sessions that are deleted, by clients that wait or leave.
Deleted == Suite(3, 1, {"request", "delete"}, 1, 0, {"leave"})
Stuck   == Suite(3, 1, {"notification", "delete"}, 1, 0, {"stall", "leave"})

\* A bridge that is stopped while its clients are still there.
Stopped == Suite(2, 2, {"request"}, 1, 0, {"stop"})

MCSettings == {Traffic, Left, Exits, Batches, Cut, Overfull, Lines, Deleted, Stuck, Stopped}
MCStop     == {Stopped}
=============================================================================

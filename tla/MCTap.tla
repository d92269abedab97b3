-------------------------------- MODULE MCTap --------------------------------
(***************************************************************************)
(* Instances of Tap for TLC.  Exchanges and session ids are                *)
(* interchangeable.                                                        *)
(***************************************************************************)
EXTENDS Tap, TLC

Server(names, carries, answers) ==
    [names |-> names, carries |-> carries, answers |-> answers,
     exchanges |-> 3, abandons |-> FALSE, failures |-> FALSE]

\* Sessions that begin, are used, and end, beside requests that name none.
Sessions == Server(Names, {"message", "nothing"}, {"message", "deleted"})

\* Streams of a session, and of requests without one: two at a time.
Streams == [Server({"nothing", "session"}, {"message"}, {"stream"}) EXCEPT !.exchanges = 2]

\* Bodies the tap does not hold, sessions begun by them, and answers it cannot record.
Large == Server({"nothing", "session"}, {"message", "large"}, {"message", "unrecorded"})

\* Clients that leave at any moment.
Leaving == [Server({"nothing", "session"}, {"message"}, {"message"}) EXCEPT !.abandons = TRUE]

\* Writes that fail, and leave any part of the record in the file.
Failures == [Server({"nothing", "session"}, {"message"}, {"message"})
                EXCEPT !.exchanges = 2, !.failures = TRUE]

\* The same with three exchanges, whose records are of one line.
ShortFailures == [Server({"nothing", "session"}, {"nothing"}, {"unrecorded"})
                     EXCEPT !.failures = TRUE]

MCSettings == {Sessions, Streams, Large, Leaving, Failures, ShortFailures}

TapSymmetry == Permutations(Exchanges) \union Permutations(Ids)
=============================================================================

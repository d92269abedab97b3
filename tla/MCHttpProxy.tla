----------------------------- MODULE MCHttpProxy ------------------------------
(***************************************************************************)
(* Instances of HttpProxy for TLC, by what clients send and the upstream   *)
(* answers.  The exchanges are interchangeable.                            *)
(***************************************************************************)
EXTENDS HttpProxy

CONSTANT a      \* a session id

Req(method, id, initialize, body) ==
    [method |-> method, id |-> id, initialize |-> initialize, body |-> body]

Ans(ok, id, sse, body) == [ok |-> ok, id |-> id, sse |-> sse, body |-> body]

MCIds == {a}

Stream == Ans(TRUE, NoId, TRUE, "empty")

\* A session's life, with a trace of its own.
SessionRequests == {Req("POST", NoId, TRUE, "message"), Req("POST", a, FALSE, "message"),
                    Req("DELETE", a, FALSE, "empty")}
SessionAnswers  == {Ans(TRUE, a, FALSE, "message"), Stream, Ans(FALSE, NoId, FALSE, "empty")}

Sessions(faults) ==
    [perSession |-> TRUE, requests |-> SessionRequests, answers |-> SessionAnswers,
     faults |-> faults, signals |-> 0]

\* A stop while a session begins, and another in its trace.
Stopped ==
    [perSession |-> TRUE, faults |-> FALSE, signals |-> 1,
     requests |-> {Req("POST", NoId, TRUE, "message"), Req("POST", a, FALSE, "message")},
     answers |-> {Ans(TRUE, a, FALSE, "message")}]

\* A stop while sessions begin in files that fail: the recorder of one that
\* began too late to be closed forgets its failure when it is finished.
StoppedFailing ==
    [perSession |-> TRUE, faults |-> TRUE, signals |-> 1,
     requests |-> {Req("POST", NoId, TRUE, "message")},
     answers |-> {Ans(TRUE, a, FALSE, "message")}]

\* Every kind of body, in one trace.
AllBodies ==
    [perSession |-> FALSE,
     requests |-> {Req("CONNECT", NoId, FALSE, "empty")} \union
                  {Req("POST", NoId, FALSE, body) : body \in RequestBodies},
     answers |-> {Stream} \union {Ans(TRUE, NoId, FALSE, body) : body \in AnswerBodies},
     faults |-> FALSE, signals |-> 1]

\* Standalone streams and the requests beside them.
Streams ==
    [perSession |-> FALSE,
     requests |-> {Req("GET", NoId, FALSE, "empty"), Req("POST", NoId, FALSE, "message")},
     answers |-> {Ans(TRUE, NoId, FALSE, "message"), Stream},
     faults |-> FALSE, signals |-> 2]

MCSafety  == {Sessions(TRUE), Stopped, StoppedFailing, AllBodies, Streams}

HandlerSymmetry == Permutations(Handlers)
=============================================================================

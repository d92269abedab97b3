-------------------------- MODULE MCHttpConversation --------------------------
(***************************************************************************)
(* Instances of HttpConversation for TLC.  Exchanges are interchangeable.  *)
(***************************************************************************)
EXTENDS HttpConversation

Conversation(apart, bodies, replies) ==
    [apart |-> apart, partial |-> FALSE, cuts |-> FALSE, most |-> 3, verbs |-> {"POST", "GET"},
     bodies |-> bodies, replies |-> replies]

\* Every body and every answer, recorded together or apart.
Whole(apart) == Conversation(apart, Bodies, Replies)

\* Every answer that is one JSON body or none.
Plain == Conversation(FALSE, {"request", "other"}, Replies \ {"stream"})

\* Streams that the upstream may cut.
CutStreams == [Whole(FALSE) EXCEPT !.cuts = TRUE]

\* The same between two POSTs, where a cut misleads nobody.
CutPair == [CutStreams EXCEPT !.most = 2, !.verbs = {"POST"}]

\* Requests recorded without the http events they came in.
Partial == [Conversation(FALSE, {"request"}, {"json", "null", "denied"}) EXCEPT !.partial = TRUE]

MCTruth    == {Whole(TRUE), Whole(FALSE), Plain, Partial, CutPair}

ExchangeSymmetry == Permutations(Exchanges)
=============================================================================

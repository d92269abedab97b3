------------------------------- MODULE PartyLog -------------------------------
(***************************************************************************)
(* A party's own order of a conversation: the log l of what it sent and    *)
(* what it read.  The rules a party follows are stated over it.            *)
(***************************************************************************)
EXTENDS TraceContext, SequencesExt

Sent(p, l)      == {i \in DOMAIN l : l[i].from = p}
Requests(p, l)  == {i \in Sent(p, l) : IsRequest(l[i])}
Responses(p, l) == {i \in Sent(p, l) : IsResponse(l[i])}

\* The latest request of q under an id, and of a token.
Named(q, l, id)   == Latest({i \in Requests(q, l) : l[i].id = id})
Holding(q, l, tk) == Latest({i \in Requests(q, l) : l[i].token = tk})

\* The response to the request at r in l, 0 before there is one.
Reply(l, r) == Earliest({i \in Responses(Other(l[r].from), l) : i > r /\ l[i].id = l[r].id})

\* The cancellation of the request at r by its sender, 0 if there is none.
Withdrawn(l, r) ==
    Latest({i \in Sent(l[r].from, l) : i > r /\ IsCancel(l[i]) /\ l[i].names = l[r].id})

\* p has answered a request that it read after k.
AnsweredSince(p, l, k) ==
    \E r \in Requests(Other(p), l) : r > k /\ Reply(l, r) # 0

Result(p, id, body, ref) == [Blank EXCEPT !.from = p, !.kind = "result", !.id = id, !.body = body, !.ref = ref]
Error(p, id, code, ref)  == [Blank EXCEPT !.from = p, !.kind = "error", !.id = id, !.code = code, !.ref = ref]
=============================================================================

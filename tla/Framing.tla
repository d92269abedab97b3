------------------------------- MODULE Framing --------------------------------
(***************************************************************************)
(* Which HTTP exchange each recorded message belongs to                    *)
(* (mcp-trace-validator, context/framing.rs): the one pass over a trace,   *)
(* as operators on its state.  The trace carries no correlation, so        *)
(* everything is told from order, and what order cannot settle is left     *)
(* out.  An event is known by its seq, any value that names it.            *)
(***************************************************************************)
EXTENDS Naturals, Sequences, FiniteSets

CONSTANTS
    Ids,       \* JSON-RPC ids, of which NoId is not one
    NoId,      \* a message's id when it is null or absent
    NoSeq      \* no event

-----------------------------------------------------------------------------
(* Slot, Owner and Builder. *)

Slot(seq, has_body) ==
    [seq |-> seq, has_body |-> has_body, request |-> NoSeq, id |-> NoId, tainted |-> FALSE]

NoStatus == [seq |-> NoSeq, owner |-> "none", request |-> NoSeq]

\* The Builder and the Framing it fills: the POSTs paired with their messages,
\* the exchanges a status was attributed to, the status each response rode, and
\* the requests that null-id answers belong to.
NewFraming ==
    [posts |-> {}, exchanges |-> <<>>, statuses |-> {}, answers |-> {},
     awaiting |-> <<>>, open_bodies |-> 0, overlapped |-> FALSE,
     requests |-> [id \in Ids |-> [seq |-> NoSeq, status |-> NoSeq]],
     fresh_status |-> NoStatus, fresh_exchange |-> 0]

\* A client http event opens an exchange, and a body unless a GET or a DELETE.
Requested(f, seq, has_body) ==
    [f EXCEPT !.open_bodies = IF has_body THEN @ + 1 ELSE @,
              !.overlapped = @ \/ (has_body /\ f.open_bodies > 0),
              !.awaiting = Append(@, Slot(seq, has_body))]

\* Registered even when unpaired: a later request reusing the id never
\* inherits an earlier one's status.
Registered(f, seq, id, is_request) ==
    IF is_request /\ id # NoId
    THEN [f EXCEPT !.requests[id] = [seq |-> seq, status |-> NoSeq]]
    ELSE f

\* The slots a body may still be paired with; the newest takes it.
Bodiless(f) ==
    {i \in 1 .. Len(f.awaiting) : f.awaiting[i].has_body /\ f.awaiting[i].request = NoSeq}

Newest(slots) == CHOOSE i \in slots : \A j \in slots : j <= i

\* Whether a POST awaits a body; without one the message is unframed.
Expected(f) == f.open_bodies # 0

\* Mutant: an overlap is forgotten when one of the two bodies has come.
CertainAlone(f) == f.open_bodies = 1

\* One body is awaited, and no other was beside it since none last was.
Certain(f) == f.open_bodies = 1 /\ ~f.overlapped

\* A message takes the open slot only when no other was open beside it.
ClientMessage(f, seq, id, is_request) ==
    LET r == Registered(f, seq, id, is_request)
        closed == [r EXCEPT !.open_bodies = @ - 1,
                            !.overlapped = @ /\ r.open_bodies # 1]
        slot == Newest(Bodiless(f))
    IN  IF ~Expected(f) THEN r
        ELSE IF ~Certain(f) \/ Bodiless(f) = {} THEN closed
        ELSE [closed EXCEPT !.awaiting[slot].request = seq,
                            !.awaiting[slot].id = id,
                            !.posts = @ \union {[seq |-> f.awaiting[slot].seq,
                                                 message_seq |-> seq]}]

PushExchange(f, request, carried, status) ==
    [f EXCEPT !.fresh_exchange = Len(f.exchanges) + 1,
              !.exchanges = Append(@, [request |-> request, carried |-> carried,
                                       status_seq |-> status, framed_response |-> FALSE])]

\* Mutant: the exchanges that were waiting beside it keep their good name.
TaintNone(slots) == slots

Taint(slots) == [i \in DOMAIN slots |-> [slots[i] EXCEPT !.tainted = TRUE]]

\* Whose response a status began: the one exchange awaiting one, or no one's.
Attributed(f, status) ==
    LET slot == Head(f.awaiting)
        pushed == PushExchange(f, slot.seq, slot.request, status)
        mine == slot.id # NoId /\ f.requests[slot.id].seq = slot.request
    IN  [pushed EXCEPT
           !.fresh_status = [seq |-> status,
                             owner |-> IF slot.request = NoSeq THEN "unknown" ELSE "request",
                             request |-> slot.request],
           !.requests = IF slot.request # NoSeq /\ mine
                        THEN [@ EXCEPT ![slot.id].status = status] ELSE @]

\* A response status, or an abort standing in for one, ends one exchange.
ResponseBegan(f, status) ==
    LET stale == [f EXCEPT !.fresh_status = NoStatus, !.fresh_exchange = 0]
        ambiguous == Len(f.awaiting) > 1
        left == IF ambiguous THEN Taint(Tail(f.awaiting)) ELSE Tail(f.awaiting)
        ended(g) == [g EXCEPT !.awaiting = left]
        unknown == [seq |-> status, owner |-> "unknown", request |-> NoSeq]
    IN  IF f.awaiting = <<>>
        THEN IF status = NoSeq THEN stale
             ELSE [PushExchange(stale, NoSeq, NoSeq, status)
                   EXCEPT !.fresh_status = [seq |-> status, owner |-> "unaccounted",
                                            request |-> NoSeq]]
        ELSE IF status = NoSeq THEN ended(stale)
        ELSE IF ambiguous \/ Head(f.awaiting).tainted
             THEN ended([stale EXCEPT !.fresh_status = unknown])
        ELSE ended(Attributed(stale, status))

\* A response rides the status of the request its id names; a null-id one
\* answers the request whose status came just before it.
ServerMessage(f, seq, id, is_response) ==
    LET fresh == f.fresh_status
        taken == [f EXCEPT !.fresh_status = NoStatus, !.fresh_exchange = 0]
        framed == IF f.fresh_exchange = 0 THEN taken
                  ELSE [taken EXCEPT !.exchanges[f.fresh_exchange].framed_response = TRUE]
        rode(status) == [framed EXCEPT !.statuses = @ \union {<<seq, status>>}]
    IN  IF ~is_response THEN taken
        ELSE IF id # NoId
        THEN IF f.requests[id].status # NoSeq THEN rode(f.requests[id].status)
             ELSE IF fresh.owner = "unaccounted" THEN rode(fresh.seq)
             ELSE framed
        ELSE IF fresh.owner = "request"
        THEN [rode(fresh.seq) EXCEPT !.answers = @ \union {<<seq, fresh.request>>}]
        ELSE framed
=============================================================================

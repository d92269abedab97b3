--------------------------- MODULE HttpConversation ---------------------------
(***************************************************************************)
(* A conforming client and server over Streamable HTTP, recorded as the    *)
(* proxy records (http/relay.rs), and what the validator makes of the      *)
(* recording: its framing (Framing), the requests refused before they were *)
(* read (context/refusal.rs), the responses' requests (context/pairing.rs) *)
(* and the requests whose id was used before (BASE-003, checks/base.rs).   *)
(*                                                                         *)
(* An exchange is one HTTP request and its answer.  Exchanges overlap, so  *)
(* the events of one are recorded between those of the others.  An event   *)
(* is named by its exchange and its part of it: what the validator should  *)
(* have found out is then in the name.                                     *)
(***************************************************************************)
EXTENDS Framing, SequencesExt

CONSTANTS
    Exchanges,    \* HTTP exchanges; also the ids of the requests they carry
    Settings      \* the conversations considered, see Setting below

\* What a client request carries: a JSON-RPC request, a notification or a
\* response, or nothing that is recorded: no message, or one past the limits.
Bodies == {"request", "other", "none"}

\* The answers, "lost" being none: a client that went away.  "denied" is a 401
\* with a JSON-RPC error, "refused" one without a body and "foreign" one whose
\* body is JSON of the resource server's own; "null" is an error of no id.
Replies == {"json", "null", "denied", "refused", "foreign", "bare", "stream",
            "failed", "lost"}

(***************************************************************************)
(* A conversation considered: whether a request's headers and its body are *)
(* recorded apart, whether requests are recorded without their http event, *)
(* whether streams may be cut, how many exchanges there are at most, and   *)
(* what is asked and answered.                                             *)
(***************************************************************************)
Setting == [apart: BOOLEAN, partial: BOOLEAN, cuts: BOOLEAN, most: Nat,
            verbs: SUBSET {"POST", "GET"}, bodies: SUBSET Bodies, replies: SUBSET Replies]

ASSUME HttpConversationAssumption == \A s \in Settings : s \in Setting
ASSUME IdsAreExchanges == Ids = Exchanges /\ NoId \notin Exchanges

VARIABLES
    setting,    \* which of Settings this conversation is
    ex,         \* what each exchange has come to
    framing,    \* Framing::of the events recorded so far
    messages,   \* the requests and responses recorded so far, in order
    orderly     \* history: one exchange at a time has awaited its status

vars == <<setting, ex, framing, messages, orderly>>

Unused == [phase |-> "unused", verb |-> "GET", body |-> "none", id |-> NoId,
           reply |-> "lost", answered |-> FALSE]

Init ==
    /\ setting \in Settings
    /\ ex = [e \in Exchanges |-> Unused]
    /\ framing = NewFraming
    /\ messages = <<>>
    /\ orderly = TRUE

Http(e)     == <<e, "http">>
Message(e)  == <<e, "message">>
Status(e)   == <<e, "status">>
Response(e) == <<e, "response">>
Foreign(e)  == <<e, "foreign">>

-----------------------------------------------------------------------------
(* The client's side: Proxy::record_request. *)

Request(e)       == [kind |-> "request", of |-> e]
ResponseTo(e)    == [kind |-> "response", of |-> e]
Awaits(e)        == ex[e].phase \in {"headed", "sent"}

\* The framing f after the message of e, whose id and body these are.
Carried(f, e, id, body) ==
    ClientMessage(f, Message(e), IF body = "request" THEN id ELSE NoId, body = "request")

\* A request whose authorization was refused, as its client sees it.
Refused(e) == ex[e].phase = "done" /\ ex[e].body = "request"
              /\ ex[e].reply \in {"refused", "foreign"}

\* A request's id is its own, or that of a refused one it repeats.
FreshIds(e) ==
    {e} \union {id \in Exchanges : /\ \E r \in Exchanges : ex[r].id = id
                                   /\ \A r \in Exchanges : ex[r].id = id => Refused(r)}

RecordsMessage(body) == body # "none"

\* The http event and, unless recorded apart, the message beside it.
Ask(e, verb, body, id) ==
    LET message == RecordsMessage(body) /\ ~setting.apart
        headed == IF setting.partial THEN framing
                  ELSE Requested(framing, Http(e), verb = "POST")
    IN  /\ ex[e].phase = "unused"
        /\ Cardinality({o \in Exchanges : ex[o].phase # "unused"}) < setting.most
        /\ verb = "GET" => body = "none"
        /\ id \in (IF body = "request" THEN FreshIds(e) ELSE {NoId})
        /\ ex' = [ex EXCEPT ![e].phase = IF message \/ body = "none" THEN "sent" ELSE "headed",
                            ![e].verb = verb, ![e].body = body, ![e].id = id]
        /\ framing' = IF message THEN Carried(headed, e, id, body) ELSE headed
        /\ messages' = IF message /\ body = "request"
                       THEN Append(messages, Request(e)) ELSE messages
        /\ orderly' = (orderly /\ (verb = "POST" => body # "none")
                               /\ \A o \in Exchanges : ~Awaits(o))
        /\ UNCHANGED setting

\* The body, where a recorder waits between the headers and it.
SendBody(e) ==
    /\ ex[e].phase = "headed"
    /\ ex' = [ex EXCEPT ![e].phase = "sent"]
    /\ framing' = Carried(framing, e, ex[e].id, ex[e].body)
    /\ messages' = IF ex[e].body = "request" THEN Append(messages, Request(e)) ELSE messages
    /\ UNCHANGED <<setting, orderly>>

-----------------------------------------------------------------------------
(* The server's side: Proxy::relay_response, upstream_failed. *)

\* The answers a conforming server gives to what e carries.
Fitting(e) ==
    CASE ex[e].verb = "GET"      -> {"stream", "bare", "refused", "failed", "lost"}
      [] ex[e].body = "request"  -> Replies
      [] ex[e].body = "other"    -> {"bare", "refused", "foreign", "failed", "lost"}
      [] OTHER                   -> {"bare", "null", "refused", "foreign", "failed", "lost"}

\* The id a response to e carries on the wire: none when it could not be read.
AnswerId(e, reply) == IF reply = "null" THEN NoId ELSE ex[e].id

HasResponse(reply) == reply \in {"json", "null", "denied"}

\* The status, and the JSON body beside it.
Answered(e, reply) ==
    LET began == ResponseBegan(framing, Status(e))
    IN  CASE HasResponse(reply) -> ServerMessage(began, Response(e), AnswerId(e, reply), TRUE)
          [] reply = "foreign"  -> ServerMessage(began, Foreign(e), NoId, TRUE)
          [] reply = "failed"   -> ResponseBegan(framing, NoSeq)
          [] reply = "lost"     -> framing
          [] OTHER              -> began

Reply(e, reply) ==
    /\ ex[e].phase = "sent"
    /\ reply \in setting.replies \intersect Fitting(e)
    /\ ex' = [ex EXCEPT ![e].phase = IF reply = "stream" THEN "streaming" ELSE "done",
                        ![e].reply = reply, ![e].answered = HasResponse(reply)]
    /\ framing' = Answered(e, reply)
    /\ messages' = IF HasResponse(reply) /\ ex[e].body = "request"
                   THEN Append(messages, ResponseTo(e)) ELSE messages
    /\ orderly' = (orderly /\ reply # "lost")
    /\ UNCHANGED setting

\* A notification or a request of the server's on a stream.
StreamOther(e) ==
    /\ ex[e].phase = "streaming"
    /\ framing' = ServerMessage(framing, NoSeq, NoId, FALSE)
    /\ UNCHANGED <<setting, ex, messages, orderly>>

\* A stream of e that has ended owes e's response to one that resumes it.
Owed(e) == ex[e].body = "request" /\ ex[e].reply = "stream" /\ ~ex[e].answered

\* The response to e, on e's stream or on a GET that resumes it.
StreamResponse(e, to) ==
    /\ ex[e].phase = "streaming"
    /\ Owed(to)
    /\ to = e \/ (ex[to].phase = "done" /\ ex[e].verb = "GET")
    /\ ex' = [ex EXCEPT ![to].answered = TRUE]
    /\ framing' = ServerMessage(framing, Response(to), ex[to].id, TRUE)
    /\ messages' = Append(messages, ResponseTo(to))
    /\ UNCHANGED <<setting, orderly>>

StreamEnds(e) ==
    /\ ex[e].phase = "streaming"
    /\ ex' = [ex EXCEPT ![e].phase = "done"]
    /\ UNCHANGED <<setting, framing, messages, orderly>>

\* upstream_cut: an abort after the status, where the others are in its place.
StreamCut(e) ==
    /\ setting.cuts
    /\ ex[e].phase = "streaming"
    /\ ex' = [ex EXCEPT ![e].phase = "done"]
    /\ framing' = ResponseBegan(framing, NoSeq)
    /\ orderly' = (orderly /\ \A o \in Exchanges : ~Awaits(o))
    /\ UNCHANGED <<setting, messages>>

Next ==
    \E e \in Exchanges :
        \/ \E verb \in setting.verbs, body \in setting.bodies, id \in Exchanges \union {NoId} :
               Ask(e, verb, body, id)
        \/ SendBody(e)
        \/ \E reply \in Replies : Reply(e, reply)
        \/ StreamOther(e)
        \/ \E to \in Exchanges : StreamResponse(e, to)
        \/ StreamEnds(e)
        \/ StreamCut(e)

Spec == Init /\ [][Next]_vars

-----------------------------------------------------------------------------
(* context/refusal.rs, context/pairing.rs and BASE-003. *)

Recorded(e) == \E i \in DOMAIN messages : messages[i] = Request(e)

\* is_authorization_refusal, of the exchange the status is part of.
Refuses(status) == ex[status[1]].reply \in {"denied", "refused", "foreign"}

\* body_after: the refusal's own JSON, recorded beside its status.
HasForeignBody(status) == ex[status[1]].reply = "foreign"

Refusing == {x \in ToSet(framing.exchanges) : Refuses(x.status_seq)}

RefusalBodies == {Foreign(x.status_seq[1]) : x \in {y \in Refusing : HasForeignBody(y.status_seq)}}

\* Mutant: a refusal answered in JSON-RPC counts as a refusal too.
RefusedRequestsDenied ==
    {p.message_seq : p \in {q \in framing.posts : \E x \in Refusing :
                               x.request = q.seq /\ ex[q.message_seq[1]].body = "request"}}

\* A request is refused when the status is its exchange's and no JSON-RPC
\* response came after it.
RefusedRequests ==
    {p.message_seq : p \in {q \in framing.posts : \E x \in Refusing :
                               /\ x.request = q.seq
                               /\ x.framed_response => HasForeignBody(x.status_seq)
                               /\ ex[q.message_seq[1]].body # "none"}}

\* The messages that took part in the protocol.
Delivered == SelectSeq(messages, LAMBDA m : m.kind = "request" => Message(m.of) \notin RefusedRequests)

\* The open requests a response may answer: by its id, or else by the framing.
ById(open, e) ==
    SelectSeq(open, LAMBDA r : AnswerId(e, ex[e].reply) # NoId /\ ex[r].id = AnswerId(e, ex[e].reply))

\* Mutant: an answer that could not read its id is paired with nothing.
ByFramingNever(open, e) == <<>>

ByFraming(open, e) == SelectSeq(open, LAMBDA r : <<Response(e), Message(r)>> \in framing.answers)

Answering(open, e) == ById(open, e) \o ByFraming(open, e)

PairStep(p, m) ==
    IF m.kind = "request" THEN [p EXCEPT !.open = Append(@, m.of)]
    ELSE LET found == Answering(p.open, m.of)
         IN  IF found = <<>> THEN p
             ELSE [open  |-> SelectSeq(p.open, LAMBDA r : r # Head(found)),
                   pairs |-> p.pairs \union {<<m.of, Head(found)>>}]

\* pair_responses: the earliest open request each response can answer.
Pairs == FoldLeft(PairStep, [open |-> <<>>, pairs |-> {}], Delivered).pairs

\* BASE-003: a request whose id was used before, in a session.
Reused ==
    {i \in DOMAIN Delivered : Delivered[i].kind = "request" /\ \E j \in 1 .. i - 1 :
        Delivered[j].kind = "request" /\ ex[Delivered[j].of].id = ex[Delivered[i].of].id}

\* BASE-008: a body that is not JSON-RPC, read as a message.
Misread == {e \in Exchanges : ex[e].reply = "foreign" /\ Foreign(e) \notin RefusalBodies}

-----------------------------------------------------------------------------
Seqs == UNION {{Http(e), Message(e), Status(e), Response(e), Foreign(e)} : e \in Exchanges}
MaybeSeqs == Seqs \union {NoSeq}
MaybeIds == Ids \union {NoId}

ASSUME NoSeqIsNoEvent == NoSeq \notin Seqs

Framings ==
    [posts: SUBSET [seq: Seqs, message_seq: Seqs],
     exchanges: Seq([request: MaybeSeqs, carried: MaybeSeqs, status_seq: Seqs,
                     framed_response: BOOLEAN]),
     statuses: SUBSET (Seqs \X Seqs), answers: SUBSET (Seqs \X Seqs),
     awaiting: Seq([seq: Seqs, has_body: BOOLEAN, request: MaybeSeqs, id: MaybeIds,
                    tainted: BOOLEAN]),
     open_bodies: Nat, overlapped: BOOLEAN,
     requests: [Ids -> [seq: MaybeSeqs, status: MaybeSeqs]],
     fresh_status: [seq: MaybeSeqs, owner: {"none", "request", "unaccounted", "unknown"},
                    request: MaybeSeqs],
     fresh_exchange: Nat]

\* The state has its type, and the index of the latest exchange is in range.
TypeOK ==
    /\ setting \in Settings
    /\ ex \in [Exchanges -> [phase: {"unused", "headed", "sent", "streaming", "done"},
                             verb: {"POST", "GET"}, body: Bodies, id: MaybeIds,
                             reply: Replies, answered: BOOLEAN]]
    /\ framing \in Framings
    /\ framing.fresh_exchange <= Len(framing.exchanges)
    /\ messages \in Seq([kind: {"request", "response"}, of: Exchanges])
    /\ orderly \in BOOLEAN

\* "An ambiguous pairing is no pairing": a message is paired only with the
\* headers it came with, however exchanges overlap, whatever is not recorded
\* and whether bodies are recorded beside the headers (framing.rs:18-22).
PostsAreTrue ==
    \A p \in framing.posts : \E e \in Exchanges : p = [seq |-> Http(e), message_seq |-> Message(e)]

\* A status is attributed to the exchange it ended, with the message that
\* exchange carried, or to none (framing.rs:20-23); a response rides the status
\* of the exchange that carried its request, and a null-id answer is tied to the
\* request it answers (framing.rs:35-53).
ExchangesAreTrue ==
    /\ \A i \in DOMAIN framing.exchanges :
        LET x == framing.exchanges[i]
        IN  x.request # NoSeq =>
                \E e \in Exchanges : /\ x.status_seq = Status(e) /\ x.request = Http(e)
                                     /\ x.carried \in {NoSeq, Message(e)}
    /\ \A r \in framing.statuses : \E e \in Exchanges :
           r \in {<<Response(e), Status(e)>>, <<Foreign(e), Status(e)>>}
    /\ \A r \in framing.answers : \E e \in Exchanges :
           r \in {<<Response(e), Message(e)>>, <<Foreign(e), Message(e)>>}

\* No request the server read is taken for one it refused, so that none
\* escapes judgement (refusal.rs:30-33).
RefusedIsRefused ==
    \A seq \in RefusedRequests :
        \E e \in Exchanges : seq = Message(e) /\ ex[e].reply \in {"refused", "foreign"}

\* All that is to be known of the HTTP side of e.
Settled(e) ==
    /\ ex[e].body # "none" => [seq |-> Http(e), message_seq |-> Message(e)] \in framing.posts
    /\ ex[e].reply # "failed" => \E i \in DOMAIN framing.exchanges :
           /\ framing.exchanges[i].status_seq = Status(e)
           /\ framing.exchanges[i].request = Http(e)
    /\ ex[e].body = "request" /\ ex[e].answered =>
           <<Response(e), Status(e)>> \in framing.statuses

\* "Everything the order cannot settle is left out, which can only make a
\* clause not observed, never convict" (framing.rs:21-22): no party to a
\* conforming conversation is convicted of BASE-003 or BASE-008.
NoneIsConvicted == Reused = {} /\ Misread = {}

\* What order can settle is settled: while one exchange at a time awaits its
\* status and each one's body and end are recorded, every exchange is known
\* whole.  Where no stream is open beside them, each response is paired with
\* its request, and a client that repeats a refused request under the same id,
\* as the SDKs' clients do (refusal.rs:8-12), is convicted of nothing.
OrderlyIsSettled ==
    orderly /\ ~setting.partial =>
        /\ \A e \in Exchanges : ex[e].phase \in {"streaming", "done"} => Settled(e)
        /\ "stream" \notin setting.replies =>
               /\ Pairs = {<<e, e>> : e \in {o \in Exchanges : ex[o].answered /\ Recorded(o)}}
               /\ NoneIsConvicted
=============================================================================

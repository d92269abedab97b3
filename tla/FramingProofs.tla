---------------------------- MODULE FramingProofs ----------------------------
(***************************************************************************)
(* Proofs about HttpConversation: what the framing pairs belongs together, *)
(* for any number of exchanges and any settings.  The operators of Framing *)
(* are first shown to keep what is true of a framing; the handlers are     *)
(* then compositions of them.                                              *)
(***************************************************************************)
EXTENDS HttpConversation, SequenceTheorems, FiniteSetTheorems,
        WellFoundedInduction, TLAPS

Slots == [seq: Seqs, has_body: BOOLEAN, request: MaybeSeqs, id: MaybeIds, tainted: BOOLEAN]
Ended == [request: MaybeSeqs, carried: MaybeSeqs, status_seq: Seqs, framed_response: BOOLEAN]
Post(e) == [seq |-> Http(e), message_seq |-> Message(e)]

\* The exchanges whose headers are recorded and whose message is still to come.
Headed == IF setting.partial THEN {} ELSE {e \in Exchanges : ex[e].phase = "headed"}

\* Each of them is counted among the open bodies of f; while none overlaps, the
\* place of one is behind every other that has a body.
Counted(f, H) == IsFiniteSet(H) /\ Cardinality(H) <= f.open_bodies

Behind(f, H) ==
    ~f.overlapped =>
        \A e \in H : \A i \in 1 .. Len(f.awaiting) :
            f.awaiting[i].has_body /\ f.awaiting[i].seq # Http(e) =>
                \E j \in i + 1 .. Len(f.awaiting) :
                    /\ f.awaiting[j].seq = Http(e) /\ f.awaiting[j].has_body
                    /\ f.awaiting[j].request = NoSeq

\* What is paired belongs together.
Paired(f) == \A p \in f.posts : \E e \in Exchanges : p = Post(e)

\* A place is that of an exchange, and what it carries is that exchange's.
OwnPlaces(f, x) ==
    \A i \in 1 .. Len(f.awaiting) : \E e \in Exchanges :
        /\ f.awaiting[i].seq = Http(e) /\ x[e].phase # "unused"
        /\ \/ f.awaiting[i].request = NoSeq /\ f.awaiting[i].id = NoId
           \/ f.awaiting[i].request = Message(e) /\ f.awaiting[i].id = x[e].id

\* What is known of a status that no message came after yet.
Fresh(f) ==
    /\ f.fresh_status.owner \in {"unaccounted", "request"} => f.fresh_status.seq \in Seqs
    /\ f.fresh_status.owner = "request" => f.fresh_status.request \in Seqs
    /\ f.fresh_exchange <= Len(f.exchanges)

Sound(f, H, x) == Fresh(f) /\ Counted(f, H) /\ Behind(f, H) /\ Paired(f) /\ OwnPlaces(f, x)

Idle(f) == f.open_bodies = 0 /\ f.awaiting = <<>>

\* What an exchange has come to: an answer given is one of the setting's.
Lives(x) ==
    \A e \in Exchanges :
        /\ x[e].phase \in {"streaming", "done"} => x[e].reply \in setting.replies
        /\ x[e].phase \in {"unused", "headed", "sent"} => x[e].reply = "lost"
        /\ x[e].phase = "streaming" => x[e].reply = "stream"
        /\ x[e].id # NoId <=> x[e].body = "request"
        /\ x[e].body = "request" => x[e].phase # "unused"
        /\ x[e].id # NoId => x[x[e].id].phase # "unused"

PInv ==
    /\ TypeOK
    /\ Lives(ex)
    /\ Sound(framing, Headed, ex)
    /\ setting.partial => Idle(framing)

(***************************************************************************)
(* While no stream is cut, every status comes from an exchange that has a  *)
(* place: a place that stands alone, and beside no other that was ended,   *)
(* is the place of the exchange whose status it is.                        *)
(***************************************************************************)
Uncut == ~setting.cuts /\ (setting.partial => "stream" \notin setting.replies)

Waiting(x) == {e \in Exchanges : x[e].phase # "unused" /\ x[e].reply = "lost"}

PlacesSuffice(f, x) ==
    ~setting.partial => IsFiniteSet(Waiting(x)) /\ Cardinality(Waiting(x)) <= Len(f.awaiting)

Untainted(f, x) ==
    \A i \in 1 .. Len(f.awaiting) :
        ~f.awaiting[i].tainted => \E e \in Waiting(x) : f.awaiting[i].seq = Http(e)

\* An id is in use by one exchange that is not refused.
Spurned(x, e) == x[e].phase = "done" /\ x[e].body = "request"
                 /\ x[e].reply \in {"refused", "foreign"}

OwnIds(x) ==
    \A e, g \in Exchanges :
        x[e].id # NoId /\ x[e].id = x[g].id /\ e # g => Spurned(x, e) \/ Spurned(x, g)

\* Its registration is that exchange's, with that exchange's status or none.
Registration(f, x) ==
    \A e \in Exchanges :
        x[e].body = "request" /\ x[e].phase \in {"sent", "streaming", "done"} /\ ~Spurned(x, e) =>
            /\ f.requests[x[e].id].seq = Message(e)
            /\ f.requests[x[e].id].status \in {NoSeq, Status(e)}

\* A denial recorded in JSON-RPC is beside its status.
DeniedIsFramed(f, x) ==
    \A i \in 1 .. Len(f.exchanges) : \E e \in Exchanges :
        /\ f.exchanges[i].status_seq = Status(e) /\ x[e].phase \in {"streaming", "done"}
        /\ x[e].reply = "denied" => f.exchanges[i].framed_response

Attributions(f) ==
    /\ \A i \in 1 .. Len(f.exchanges) :
          f.exchanges[i].request # NoSeq =>
              \E e \in Exchanges : /\ f.exchanges[i].status_seq = Status(e)
                                   /\ f.exchanges[i].request = Http(e)
                                   /\ f.exchanges[i].carried \in {NoSeq, Message(e)}
    /\ \A r \in f.statuses : \E e \in Exchanges :
           r \in {<<Response(e), Status(e)>>, <<Foreign(e), Status(e)>>}
    /\ \A r \in f.answers : \E e \in Exchanges :
           r \in {<<Response(e), Message(e)>>, <<Foreign(e), Message(e)>>}

Truthful(f, x) ==
    /\ PlacesSuffice(f, x) /\ Untainted(f, x) /\ OwnIds(x) /\ Registration(f, x)
    /\ f.fresh_status.owner = "unaccounted" => setting.partial
    /\ DeniedIsFramed(f, x) /\ Attributions(f)

EInv == Uncut => Truthful(framing, ex)

-----------------------------------------------------------------------------
(* Events, and the fields of a framing. *)

LEMMA EventFacts ==
    /\ \A e \in Exchanges : /\ {Http(e), Message(e), Status(e), Response(e), Foreign(e)} \subseteq Seqs
                            /\ NoSeq \notin {Http(e), Message(e), Status(e), Response(e), Foreign(e)}
                            /\ Http(e)[1] = e /\ Message(e)[1] = e /\ Status(e)[1] = e
    /\ \A e, g \in Exchanges : /\ Http(e) = Http(g) => e = g
                               /\ Message(e) = Message(g) => e = g
                               /\ Status(e) = Status(g) => e = g
    /\ NoSeq \in MaybeSeqs /\ NoId \in MaybeIds /\ Seqs \subseteq MaybeSeqs
<1>1. \A e \in Exchanges : {Http(e), Message(e), Status(e), Response(e), Foreign(e)} \subseteq Seqs
  BY DEF Seqs
<1>2. \A e \in Exchanges : NoSeq \notin {Http(e), Message(e), Status(e), Response(e), Foreign(e)}
  BY <1>1, NoSeqIsNoEvent
<1>3. \A e, g \in Exchanges : /\ Http(e) = Http(g) => e = g
                              /\ Message(e) = Message(g) => e = g
                              /\ Status(e) = Status(g) => e = g
  BY DEF Http, Message, Status
<1>4. \A e \in Exchanges : Http(e)[1] = e /\ Message(e)[1] = e /\ Status(e)[1] = e
  BY DEF Http, Message, Status
<1> QED BY <1>1, <1>2, <1>3, <1>4 DEF MaybeSeqs, MaybeIds

LEMMA Fields ==
    ASSUME NEW f \in Framings
    PROVE  /\ f.awaiting \in Seq(Slots) /\ Len(f.awaiting) \in Nat
           /\ f.exchanges \in Seq(Ended) /\ Len(f.exchanges) \in Nat
           /\ f.open_bodies \in Nat /\ f.overlapped \in BOOLEAN
           /\ f.fresh_exchange \in Nat
           /\ \A i \in 1 .. Len(f.awaiting) : f.awaiting[i] \in Slots
           /\ \A i \in 1 .. Len(f.exchanges) : f.exchanges[i] \in Ended
           /\ f.requests \in [Ids -> [seq: MaybeSeqs, status: MaybeSeqs]]
           /\ f.fresh_status \in [seq: MaybeSeqs, owner: {"none", "request", "unaccounted", "unknown"},
                                  request: MaybeSeqs]
<1>1. /\ f.awaiting \in Seq(Slots) /\ f.exchanges \in Seq(Ended)
  BY DEF Framings, Slots, Ended
<1>2. \A i \in 1 .. Len(f.awaiting) : f.awaiting[i] \in Slots
  BY <1>1, ElementOfSeq
<1>3. \A i \in 1 .. Len(f.exchanges) : f.exchanges[i] \in Ended
  BY <1>1, ElementOfSeq
<1>4. /\ f.open_bodies \in Nat /\ f.overlapped \in BOOLEAN
      /\ f.fresh_exchange \in Nat
      /\ f.requests \in [Ids -> [seq: MaybeSeqs, status: MaybeSeqs]]
      /\ f.fresh_status \in [seq: MaybeSeqs, owner: {"none", "request", "unaccounted", "unknown"},
                             request: MaybeSeqs]
  BY DEF Framings
<1> QED BY <1>1, <1>2, <1>3, <1>4, LenProperties

-----------------------------------------------------------------------------
(* The client's events. *)

LEMMA RequestedEffect ==
    ASSUME NEW f \in Framings, NEW e \in Exchanges, NEW b \in BOOLEAN,
           NEW r, r = Requested(f, Http(e), b)
    PROVE  /\ r \in Framings
           /\ r.awaiting = Append(f.awaiting, Slot(Http(e), b))
           /\ r.open_bodies = IF b THEN f.open_bodies + 1 ELSE f.open_bodies
           /\ r.overlapped = (f.overlapped \/ (b /\ f.open_bodies > 0))
           /\ r.posts = f.posts /\ r.exchanges = f.exchanges /\ r.statuses = f.statuses
           /\ r.answers = f.answers /\ r.requests = f.requests
           /\ r.fresh_status = f.fresh_status /\ r.fresh_exchange = f.fresh_exchange
<1>1. Slot(Http(e), b) \in Slots
  BY EventFacts DEF Slot, Slots
<1>2. Append(f.awaiting, Slot(Http(e), b)) \in Seq(Slots)
  BY <1>1, Fields
<1>3. (IF b THEN f.open_bodies + 1 ELSE f.open_bodies) \in Nat
  BY Fields
<1>4. (f.overlapped \/ (b /\ f.open_bodies > 0)) \in BOOLEAN
  OBVIOUS
<1> DEFINE a == Append(f.awaiting, Slot(Http(e), b))
           n == IF b THEN f.open_bodies + 1 ELSE f.open_bodies
           o == (f.overlapped \/ (b /\ f.open_bodies > 0))
<1>5. r = [f EXCEPT !.open_bodies = n, !.overlapped = o, !.awaiting = a]
  BY DEF Requested
<1> HIDE DEF a, n, o
<1>6. a \in Seq(Slots) /\ n \in Nat /\ o \in BOOLEAN
  BY <1>2, <1>3, <1>4 DEF a, n, o
<1>7. /\ r \in Framings /\ r.awaiting = a /\ r.open_bodies = n /\ r.overlapped = o
      /\ r.posts = f.posts /\ r.exchanges = f.exchanges /\ r.statuses = f.statuses
      /\ r.answers = f.answers /\ r.requests = f.requests
      /\ r.fresh_status = f.fresh_status /\ r.fresh_exchange = f.fresh_exchange
  BY <1>5, <1>6 DEF Framings, Slots
<1> QED BY <1>7 DEF a, n, o

LEMMA RequestedKeeps ==
    ASSUME NEW f \in Framings, NEW e \in Exchanges, NEW b \in BOOLEAN,
           NEW r, r = Requested(f, Http(e), b), NEW H, e \notin H,
           NEW x, x[e].phase # "unused",
           Counted(f, H), Behind(f, H), Paired(f), OwnPlaces(f, x)
    PROVE  /\ Counted(r, H) /\ Behind(r, H) /\ Paired(r) /\ OwnPlaces(r, x)
           /\ b => Counted(r, H \union {e}) /\ Behind(r, H \union {e})
<1> DEFINE s == Slot(Http(e), b)
<1>1. /\ r.awaiting = Append(f.awaiting, s) /\ r.posts = f.posts
      /\ r.open_bodies = IF b THEN f.open_bodies + 1 ELSE f.open_bodies
      /\ r.overlapped = (f.overlapped \/ (b /\ f.open_bodies > 0))
  BY RequestedEffect
<1>2. /\ s.seq = Http(e) /\ s.has_body = b /\ s.request = NoSeq /\ s.id = NoId
  BY DEF Slot
<1>3. /\ Len(r.awaiting) = Len(f.awaiting) + 1 /\ Len(f.awaiting) \in Nat
      /\ \A i \in 1 .. Len(f.awaiting) : r.awaiting[i] = f.awaiting[i]
      /\ r.awaiting[Len(f.awaiting) + 1] = s
  <2>1. f.awaiting \in Seq(Slots) /\ Len(f.awaiting) \in Nat
    BY Fields
  <2> HIDE DEF s
  <2> QED BY <1>1, <2>1
<1> HIDE DEF s
<1>4. IsFiniteSet(H) /\ Cardinality(H) \in Nat /\ Cardinality(H) <= f.open_bodies /\ f.open_bodies \in Nat
  BY FS_CardinalityType, Fields DEF Counted
<1>5. IsFiniteSet(H \union {e}) /\ Cardinality(H \union {e}) = Cardinality(H) + 1
  BY <1>4, FS_AddElement
<1>6. Counted(r, H) /\ (b => Counted(r, H \union {e}))
  BY <1>1, <1>4, <1>5 DEF Counted
<1>7. Paired(r)
  BY <1>1 DEF Paired
<1>8. OwnPlaces(r, x)
  <2> SUFFICES ASSUME NEW i \in 1 .. Len(r.awaiting)
               PROVE  \E g \in Exchanges :
                        /\ r.awaiting[i].seq = Http(g) /\ x[g].phase # "unused"
                        /\ \/ r.awaiting[i].request = NoSeq /\ r.awaiting[i].id = NoId
                           \/ r.awaiting[i].request = Message(g) /\ r.awaiting[i].id = x[g].id
    BY DEF OwnPlaces
  <2>1. CASE i = Len(f.awaiting) + 1
    BY <2>1, <1>2, <1>3
  <2>2. CASE i \in 1 .. Len(f.awaiting)
    BY <2>2, <1>3 DEF OwnPlaces
  <2> QED BY <2>1, <2>2, <1>3
<1>9. ASSUME NEW G, G \subseteq H \union {e}, e \in G => b
      PROVE  Behind(r, G)
  <2> SUFFICES ASSUME ~r.overlapped, NEW g \in G, NEW i \in 1 .. Len(r.awaiting),
                      r.awaiting[i].has_body, r.awaiting[i].seq # Http(g)
               PROVE  \E j \in i + 1 .. Len(r.awaiting) :
                        /\ r.awaiting[j].seq = Http(g) /\ r.awaiting[j].has_body
                        /\ r.awaiting[j].request = NoSeq
    BY DEF Behind
  <2>1. CASE g = e
    <3>1. i # Len(f.awaiting) + 1 /\ b
      BY <2>1, <1>2, <1>3, <1>9
    <3>2. Len(f.awaiting) + 1 \in i + 1 .. Len(r.awaiting)
      <4>1. \A n \in Nat : \A k \in 1 .. n + 1 : k # n + 1 => n + 1 \in k + 1 .. n + 1
        OBVIOUS
      <4> QED BY <3>1, <1>3, <4>1
    <3> QED BY <3>1, <3>2, <2>1, <1>2, <1>3
  <2>2. CASE g # e
    <3>1. g \in H
      BY <2>2, <1>9
    <3>2. ~b
      <4>1. Cardinality(H) # 0
        BY <3>1, <1>4, FS_EmptySet
      <4> QED BY <4>1, <1>1, <1>4
    <3>3. i \in 1 .. Len(f.awaiting) /\ ~f.overlapped
      <4>1. i # Len(f.awaiting) + 1
        BY <3>2, <1>2, <1>3
      <4>2. \A n \in Nat : \A k \in 1 .. n + 1 : k # n + 1 => k \in 1 .. n
        OBVIOUS
      <4> QED BY <4>1, <4>2, <1>1, <1>3
    <3>4. PICK j \in i + 1 .. Len(f.awaiting) :
            f.awaiting[j].seq = Http(g) /\ f.awaiting[j].has_body /\ f.awaiting[j].request = NoSeq
      BY <3>1, <3>3, <1>3 DEF Behind
    <3>5. j \in 1 .. Len(f.awaiting) /\ j \in i + 1 .. Len(r.awaiting)
      BY <1>3, <3>3
    <3> QED BY <3>4, <3>5, <1>3
  <2> QED BY <2>1, <2>2
<1> QED BY <1>6, <1>7, <1>8, <1>9

\* Registering a request changes the requests alone.
LEMMA RegisteredEffect ==
    ASSUME NEW f \in Framings, NEW e \in Exchanges, NEW id \in MaybeIds, NEW q \in BOOLEAN,
           NEW r, r = Registered(f, Message(e), id, q)
    PROVE  /\ r \in Framings
           /\ r.awaiting = f.awaiting /\ r.open_bodies = f.open_bodies
           /\ r.overlapped = f.overlapped
           /\ r.posts = f.posts /\ r.exchanges = f.exchanges /\ r.statuses = f.statuses
           /\ r.answers = f.answers
           /\ r.requests = IF q /\ id # NoId
                           THEN [f.requests EXCEPT ![id] = [seq |-> Message(e), status |-> NoSeq]]
                           ELSE f.requests
           /\ r.fresh_status = f.fresh_status /\ r.fresh_exchange = f.fresh_exchange
<1> DEFINE entry == [seq |-> Message(e), status |-> NoSeq]
<1>1. CASE q /\ id # NoId
  <2>1. id \in Ids /\ entry \in [seq: MaybeSeqs, status: MaybeSeqs]
    BY <1>1, EventFacts DEF MaybeIds
  <2> HIDE DEF entry
  <2>2. [f.requests EXCEPT ![id] = entry] \in [Ids -> [seq: MaybeSeqs, status: MaybeSeqs]]
    BY <2>1, Fields
  <2>3. r = [f EXCEPT !.requests = [f.requests EXCEPT ![id] = entry]]
    BY <1>1 DEF Registered, Framings, entry
  <2> QED BY <1>1, <2>2, <2>3 DEF Framings, entry
<1>2. CASE ~(q /\ id # NoId)
  BY <1>2 DEF Registered
<1> QED BY <1>1, <1>2

\* A bounded set of places has a newest one: the one with the fewest after it.
LEMMA NewestIsLast ==
    ASSUME NEW n \in Nat, NEW S \in SUBSET (1 .. n), S # {}
    PROVE  Newest(S) \in S /\ \A j \in S : j <= Newest(S)
<1> DEFINE After(k) == {j \in S : j > k}
           T == {After(k) : k \in S}
<1>1. IsFiniteSet(S)
  <2>1. IsFiniteSet(1 .. n)
    BY FS_Interval
  <2> QED BY <2>1, FS_Subset
<1>2. T \subseteq FiniteSubsetsOf(S) /\ T # {}
  <2>1. T \subseteq SUBSET S /\ T # {}
    OBVIOUS
  <2> HIDE DEF T
  <2> QED BY <1>1, <2>1, FS_FiniteSubsetsOfFinite
<1>3. PICK U \in T : \A V \in T : ~(<<V, U>> \in StrictSubsetOrdering(S))
  <2> HIDE DEF T
  <2> QED BY <1>2, FS_StrictSubsetOrderingWellFounded, WFMin
<1>4. PICK k \in S : U = After(k)
  OBVIOUS
<1>5. ASSUME NEW j \in S, ~(j <= k) PROVE FALSE
  <2>1. j > k /\ ~(j > j) /\ \A i \in S : i > j => i > k
    BY <1>5
  <2>2. j \in After(k) /\ j \notin After(j) /\ After(j) \subseteq After(k)
    <3> HIDE <1>5
    <3> QED BY <2>1
  <2>3. After(j) \in T /\ After(j) \in SUBSET S /\ After(k) \in SUBSET S
    OBVIOUS
  <2>4. <<After(j), U>> \in StrictSubsetOrdering(S)
    <3> HIDE DEF After
    <3> QED BY <2>2, <2>3, <1>4 DEF StrictSubsetOrdering
  <2> QED BY <2>3, <2>4, <1>3
<1> QED BY <1>5 DEF Newest

\* What a message does to the open body it may be the one of.
MessageLeaves(f, c) == c.posts = f.posts /\ c.awaiting = f.awaiting

MessageTakes(f, c, seq, id) ==
    \E k \in Bodiless(f) :
        /\ \A j \in Bodiless(f) : j <= k
        /\ c.awaiting = [f.awaiting EXCEPT ![k].request = seq, ![k].id = id]
        /\ c.posts = f.posts \union {[seq |-> f.awaiting[k].seq, message_seq |-> seq]}

BodyCame(f, c, seq, id) ==
    \/ /\ f.open_bodies = 0 /\ MessageLeaves(f, c)
       /\ c.open_bodies = 0 /\ c.overlapped = f.overlapped
    \/ /\ f.open_bodies # 0 /\ MessageLeaves(f, c)
       /\ c.open_bodies = f.open_bodies - 1
       /\ c.overlapped = (f.overlapped /\ f.open_bodies # 1)
    \/ /\ f.open_bodies = 1 /\ ~f.overlapped /\ MessageTakes(f, c, seq, id)
       /\ c.open_bodies = 0 /\ ~c.overlapped

\* What else it changes: the registration of a request, and nothing.
Heard(f, c, seq, id, q) ==
    /\ c.exchanges = f.exchanges /\ c.statuses = f.statuses /\ c.answers = f.answers
    /\ c.requests = IF q /\ id # NoId
                    THEN [f.requests EXCEPT ![id] = [seq |-> seq, status |-> NoSeq]]
                    ELSE f.requests
    /\ c.fresh_status = f.fresh_status /\ c.fresh_exchange = f.fresh_exchange
    /\ Len(c.awaiting) = Len(f.awaiting)
    /\ \A i \in 1 .. Len(f.awaiting) : /\ c.awaiting[i].seq = f.awaiting[i].seq
                                       /\ c.awaiting[i].tainted = f.awaiting[i].tainted

LEMMA ClientMessageEffect ==
    ASSUME NEW f \in Framings, NEW e \in Exchanges, NEW id \in MaybeIds, NEW q \in BOOLEAN,
           NEW c, c = ClientMessage(f, Message(e), id, q)
    PROVE  c \in Framings /\ Heard(f, c, Message(e), id, q) /\ BodyCame(f, c, Message(e), id)
<1> DEFINE seq == Message(e)
           r == Registered(f, seq, id, q)
           closed == [r EXCEPT !.open_bodies = @ - 1,
                               !.overlapped = @ /\ r.open_bodies # 1]
           k == Newest(Bodiless(f))
<1>1. /\ r \in Framings
      /\ r.awaiting = f.awaiting /\ r.open_bodies = f.open_bodies
      /\ r.overlapped = f.overlapped
      /\ r.posts = f.posts /\ r.exchanges = f.exchanges /\ r.statuses = f.statuses
      /\ r.answers = f.answers
      /\ r.requests = IF q /\ id # NoId
                      THEN [f.requests EXCEPT ![id] = [seq |-> Message(e), status |-> NoSeq]]
                      ELSE f.requests
      /\ r.fresh_status = f.fresh_status /\ r.fresh_exchange = f.fresh_exchange
  BY RegisteredEffect
<1>2. /\ seq \in Seqs /\ seq \in MaybeSeqs /\ f.open_bodies \in Nat /\ f.overlapped \in BOOLEAN
      /\ f.awaiting \in Seq(Slots) /\ Len(f.awaiting) \in Nat
      /\ \A i \in 1 .. Len(f.awaiting) : f.awaiting[i] \in Slots
  BY EventFacts, Fields
<1>c. c = IF ~Expected(f) THEN r
          ELSE IF ~Certain(f) \/ Bodiless(f) = {} THEN closed
          ELSE [closed EXCEPT !.awaiting[k].request = seq, !.awaiting[k].id = id,
                              !.posts = @ \union {[seq |-> f.awaiting[k].seq, message_seq |-> seq]}]
  BY DEF ClientMessage
<1>3. CASE ~Expected(f)
  BY <1>3, <1>c, <1>1, <1>2 DEF Expected, BodyCame, Heard, MessageLeaves
<1> HIDE DEF r, seq
<1>4. ASSUME Expected(f)
      PROVE  /\ closed \in Framings
             /\ closed.awaiting = f.awaiting /\ closed.open_bodies = f.open_bodies - 1
             /\ closed.overlapped = (f.overlapped /\ f.open_bodies # 1)
             /\ closed.posts = f.posts /\ closed.exchanges = f.exchanges
             /\ closed.statuses = f.statuses /\ closed.answers = f.answers
             /\ closed.requests = r.requests
             /\ closed.fresh_status = f.fresh_status /\ closed.fresh_exchange = f.fresh_exchange
  <2>1. f.open_bodies - 1 \in Nat /\ (f.overlapped /\ f.open_bodies # 1) \in BOOLEAN
    BY <1>4, <1>2 DEF Expected
  <2> QED BY <2>1, <1>1 DEF Framings
<1> HIDE DEF closed
<1>5. CASE Expected(f) /\ (~Certain(f) \/ Bodiless(f) = {})
  BY <1>5, <1>c, <1>1, <1>4 DEF Expected, BodyCame, Heard, MessageLeaves
<1>6. CASE Expected(f) /\ Certain(f) /\ Bodiless(f) # {}
  <2>1. k \in Bodiless(f) /\ \A j \in Bodiless(f) : j <= k
    BY <1>6, <1>2, NewestIsLast DEF Bodiless
  <2>2. k \in 1 .. Len(f.awaiting) /\ f.awaiting[k] \in Slots
    BY <2>1, <1>2 DEF Bodiless
  <2> HIDE DEF k
  <2> DEFINE taken == [f.awaiting EXCEPT ![k].request = seq, ![k].id = id]
             posts == f.posts \union {[seq |-> f.awaiting[k].seq, message_seq |-> seq]}
  <2>3. c = [closed EXCEPT !.awaiting = taken, !.posts = posts]
    <3>1. closed \in Framings /\ closed.awaiting = f.awaiting /\ closed.posts = f.posts
      BY <1>4, <1>6
    <3>2. c = [closed EXCEPT !.awaiting[k].request = seq, !.awaiting[k].id = id,
                             !.posts = @ \union {[seq |-> f.awaiting[k].seq, message_seq |-> seq]}]
      BY <1>c, <1>6
    <3>3. c = [closed EXCEPT !.awaiting = [closed.awaiting EXCEPT ![k].request = seq, ![k].id = id],
                             !.posts = closed.posts \union {[seq |-> f.awaiting[k].seq, message_seq |-> seq]}]
      BY <3>1, <3>2, Zenon DEF Framings
    <3> QED BY <3>1, <3>3
  <2>4. taken \in Seq(Slots) /\ Len(taken) = Len(f.awaiting)
    <3>1. [f.awaiting[k] EXCEPT !.request = seq, !.id = id] \in Slots
      BY <2>2, <1>2 DEF Slots
    <3>2. taken = [f.awaiting EXCEPT ![k] = [f.awaiting[k] EXCEPT !.request = seq, !.id = id]]
      BY <1>2, <2>2
    <3> HIDE DEF taken
    <3> QED BY <3>1, <3>2, <1>2, <2>2
  <2>5. \A i \in 1 .. Len(f.awaiting) : /\ taken[i].seq = f.awaiting[i].seq
                                        /\ taken[i].tainted = f.awaiting[i].tainted
    BY <1>2, <2>2 DEF Slots
  <2>6. posts \in SUBSET [seq: Seqs, message_seq: Seqs]
    BY <1>2, <2>2 DEF Framings, Slots
  <2> HIDE DEF taken, posts
  <2>7. /\ c \in Framings /\ c.awaiting = taken /\ c.posts = posts
        /\ c.open_bodies = closed.open_bodies /\ c.overlapped = closed.overlapped
        /\ c.exchanges = closed.exchanges
        /\ c.statuses = closed.statuses /\ c.answers = closed.answers
        /\ c.requests = closed.requests
        /\ c.fresh_status = closed.fresh_status /\ c.fresh_exchange = closed.fresh_exchange
    <3>1. closed \in Framings
      BY <1>4, <1>6
    <3> QED BY <2>3, <2>4, <2>6, <3>1 DEF Framings, Slots
  <2>8. MessageTakes(f, c, Message(e), id)
    BY <2>1, <2>7 DEF MessageTakes, taken, posts, seq
  <2> QED BY <2>7, <2>8, <2>4, <2>5, <1>1, <1>2, <1>4, <1>6 DEF Certain, BodyCame, Heard, seq
<1> QED BY <1>3, <1>5, <1>6

LEMMA BehindFewer ==
    ASSUME NEW f, NEW G, Behind(f, G), NEW H, H \subseteq G,
           NEW r, r.awaiting = f.awaiting, f.overlapped => r.overlapped
    PROVE  Behind(r, H)
BY DEF Behind

\* The message of e, the last thing of e that was awaited, takes no place but e's.
LEMMA ClientMessageKeeps ==
    ASSUME NEW f \in Framings, NEW e \in Exchanges, NEW x, NEW q \in BOOLEAN,
           NEW id \in MaybeIds, id = x[e].id,
           NEW c, c = ClientMessage(f, Message(e), id, q), NEW H, e \notin H,
           \/ Counted(f, H \union {e}) /\ Behind(f, H \union {e})
           \/ Counted(f, {}) /\ f.open_bodies = 0 /\ H = {},
           Paired(f), OwnPlaces(f, x)
    PROVE  Counted(c, H) /\ Behind(c, H) /\ Paired(c) /\ OwnPlaces(c, x)
<1>1. /\ f.open_bodies \in Nat /\ Len(f.awaiting) \in Nat
      /\ f.awaiting \in Seq(Slots) /\ \A i \in 1 .. Len(f.awaiting) : f.awaiting[i] \in Slots
  BY Fields
<1>2. ASSUME Counted(f, H \union {e})
      PROVE  /\ IsFiniteSet(H) /\ Cardinality(H) \in Nat
             /\ Cardinality(H) + 1 <= f.open_bodies
  <2>1. IsFiniteSet(H)
    BY <1>2, FS_Subset DEF Counted
  <2>2. Cardinality(H \union {e}) = Cardinality(H) + 1
    BY <2>1, FS_AddElement
  <2> QED BY <2>1, <2>2, <1>2, FS_CardinalityType DEF Counted
<1>3. ASSUME f.open_bodies = 1, Counted(f, H \union {e}) PROVE H = {}
  <2>1. Cardinality(H) = 0
    BY <1>2, <1>3
  <2> QED BY <2>1, <1>2, <1>3, FS_EmptySet
<1>4. CASE f.open_bodies = 0 /\ MessageLeaves(f, c) /\ c.open_bodies = 0
  <2>1. H = {} /\ Counted(f, {})
    BY <1>2, <1>4, <1>1
  <2> QED BY <2>1, <1>4 DEF Counted, Behind, Paired, OwnPlaces, MessageLeaves
<1>5. CASE /\ f.open_bodies # 0 /\ MessageLeaves(f, c)
           /\ c.open_bodies = f.open_bodies - 1
           /\ c.overlapped = (f.overlapped /\ f.open_bodies # 1)
  <2>1. Counted(f, H \union {e}) /\ Behind(f, H \union {e})
    BY <1>5
  <2>2. Counted(c, H)
    BY <2>1, <1>1, <1>2, <1>5 DEF Counted
  <2>3. Behind(c, H)
    <3>1. CASE f.open_bodies = 1
      BY <3>1, <2>1, <1>3 DEF Behind
    <3>2. CASE f.open_bodies # 1
      BY <3>2, <2>1, <1>5, BehindFewer DEF MessageLeaves
    <3> QED BY <3>1, <3>2
  <2> QED BY <2>2, <2>3, <1>5 DEF Paired, OwnPlaces, MessageLeaves
<1>6. CASE /\ f.open_bodies = 1 /\ ~f.overlapped /\ MessageTakes(f, c, Message(e), id)
           /\ c.open_bodies = 0
  <2>1. Counted(f, {e}) /\ Behind(f, {e}) /\ H = {}
    BY <1>6, <1>3
  <2>2. Counted(c, H) /\ Behind(c, H)
    BY <2>1, <1>6, FS_EmptySet DEF Counted, Behind
  <2>3. PICK k \in Bodiless(f) :
            /\ \A j \in Bodiless(f) : j <= k
            /\ c.awaiting = [f.awaiting EXCEPT ![k].request = Message(e), ![k].id = id]
            /\ c.posts = f.posts \union {[seq |-> f.awaiting[k].seq, message_seq |-> Message(e)]}
    BY <1>6 DEF MessageTakes
  <2>4. k \in 1 .. Len(f.awaiting) /\ f.awaiting[k].has_body /\ f.awaiting[k].request = NoSeq
    BY <2>3 DEF Bodiless
  <2>5. f.awaiting[k].seq = Http(e)
    <3> SUFFICES ASSUME f.awaiting[k].seq # Http(e) PROVE FALSE
      OBVIOUS
    <3>1. PICK j \in k + 1 .. Len(f.awaiting) :
              f.awaiting[j].seq = Http(e) /\ f.awaiting[j].has_body /\ f.awaiting[j].request = NoSeq
      BY <2>1, <2>4, <1>6 DEF Behind
    <3>2. j \in 1 .. Len(f.awaiting) /\ ~(j <= k)
      BY <1>1, <2>4
    <3> QED BY <3>1, <3>2, <2>3 DEF Bodiless
  <2>6. Paired(c)
    BY <2>3, <2>5 DEF Paired, Post
  <2>7. OwnPlaces(c, x)
    <3> SUFFICES ASSUME NEW i \in 1 .. Len(c.awaiting)
                 PROVE  \E g \in Exchanges :
                          /\ c.awaiting[i].seq = Http(g) /\ x[g].phase # "unused"
                          /\ \/ c.awaiting[i].request = NoSeq /\ c.awaiting[i].id = NoId
                             \/ c.awaiting[i].request = Message(g) /\ c.awaiting[i].id = x[g].id
      BY DEF OwnPlaces
    <3>a. i \in 1 .. Len(f.awaiting)
      BY <2>3, <1>1
    <3>1. CASE i = k
      <4>1. /\ c.awaiting[k].seq = Http(e) /\ c.awaiting[k].request = Message(e)
            /\ c.awaiting[k].id = id
        BY <2>3, <2>4, <2>5, <1>1 DEF Slots
      <4>2. x[e].phase # "unused"
        BY <2>4, <2>5, EventFacts DEF OwnPlaces
      <4> QED BY <3>1, <4>1, <4>2
    <3>2. CASE i # k
      <4>1. c.awaiting[i] = f.awaiting[i]
        BY <3>2, <3>a, <2>3, <1>1
      <4> QED BY <4>1, <3>a DEF OwnPlaces
    <3> QED BY <3>1, <3>2
  <2> QED BY <2>2, <2>6, <2>7
<1>7. BodyCame(f, c, Message(e), id)
  BY ClientMessageEffect
<1> QED BY <1>4, <1>5, <1>6, <1>7, <1>1 DEF BodyCame

-----------------------------------------------------------------------------
(* The server's events. *)

Passed(f, r) ==
    /\ r.exchanges = f.exchanges /\ r.requests = f.requests /\ r.fresh_exchange = 0
    /\ r.fresh_status.owner \in {"none", "unknown"}

Pushed(f, r, request, carried, status) ==
    /\ r.exchanges = Append(f.exchanges, [request |-> request, carried |-> carried,
                                          status_seq |-> status, framed_response |-> FALSE])
    /\ r.fresh_exchange = Len(f.exchanges) + 1

\* The status went to no exchange, or to the one that had been waiting alone.
Unclaimed(f, r, status) ==
    /\ Pushed(f, r, NoSeq, NoSeq, status) /\ r.requests = f.requests
    /\ r.fresh_status = [seq |-> status, owner |-> "unaccounted", request |-> NoSeq]

Claimed(f, r, status) ==
    /\ Pushed(f, r, f.awaiting[1].seq, f.awaiting[1].request, status)
    /\ r.fresh_status = [seq |-> status,
                         owner |-> IF f.awaiting[1].request = NoSeq THEN "unknown" ELSE "request",
                         request |-> f.awaiting[1].request]
    /\ r.requests =
          IF /\ f.awaiting[1].request # NoSeq /\ f.awaiting[1].id # NoId
             /\ f.requests[f.awaiting[1].id].seq = f.awaiting[1].request
          THEN [f.requests EXCEPT ![f.awaiting[1].id].status = status] ELSE f.requests

\* The places left, each tainted: one alone has none beside it.
Advanced(f, r) ==
    /\ Len(r.awaiting) = Len(f.awaiting) - 1
    /\ \A i \in 1 .. Len(r.awaiting) : r.awaiting[i] = [f.awaiting[i + 1] EXCEPT !.tainted = TRUE]

LEMMA TaintedTail ==
    ASSUME NEW s \in Seq(Slots), s # <<>>,
           NEW t, t = IF Len(s) > 1 THEN Taint(Tail(s)) ELSE Tail(s)
    PROVE  /\ t \in Seq(Slots) /\ Len(t) = Len(s) - 1
           /\ \A i \in 1 .. Len(t) : t[i] = [s[i + 1] EXCEPT !.tainted = TRUE]
<1>1. /\ Tail(s) \in Seq(Slots) /\ Len(Tail(s)) = Len(s) - 1 /\ Len(s) \in Nat /\ Len(s) # 0
      /\ \A i \in 1 .. Len(Tail(s)) : Tail(s)[i] = s[i + 1]
  OBVIOUS
<1>2. CASE ~(Len(s) > 1)
  BY <1>1, <1>2
<1>3. CASE Len(s) > 1
  <2> DEFINE u == Tail(s)
  <2>1. t = [i \in 1 .. Len(u) |-> [u[i] EXCEPT !.tainted = TRUE]]
    BY <1>3, <1>1, LenProperties DEF Taint
  <2>2. \A i \in 1 .. Len(u) : u[i] \in Slots
    BY <1>1, ElementOfSeq
  <2>3. \A i \in 1 .. Len(u) : [u[i] EXCEPT !.tainted = TRUE] \in Slots
    BY <2>2 DEF Slots
  <2>4. Len(u) \in Nat
    BY <1>1
  <2>5. t \in Seq(Slots) /\ Len(t) = Len(u)
    <3> HIDE DEF u
    <3> QED BY <2>1, <2>3, <2>4, LenProperties
  <2> QED BY <2>1, <2>5, <1>1
<1> QED BY <1>2, <1>3

\* Whose response a status began, if it is anyone's.
Began(f, r, status) ==
    IF status = NoSeq THEN Passed(f, r)
    ELSE IF f.awaiting = <<>> THEN Unclaimed(f, r, status)
    ELSE IF Len(f.awaiting) > 1 \/ f.awaiting[1].tainted THEN Passed(f, r)
    ELSE Claimed(f, r, status)

LEMMA PushExchangeEffect ==
    ASSUME NEW f \in Framings, NEW request \in MaybeSeqs, NEW carried \in MaybeSeqs,
           NEW status \in Seqs, NEW p, p = PushExchange(f, request, carried, status)
    PROVE  /\ p \in Framings /\ Pushed(f, p, request, carried, status)
           /\ p.awaiting = f.awaiting /\ p.open_bodies = f.open_bodies
           /\ p.overlapped = f.overlapped /\ p.posts = f.posts
           /\ p.statuses = f.statuses /\ p.answers = f.answers
           /\ p.requests = f.requests /\ p.fresh_status = f.fresh_status
<1> DEFINE entry == [request |-> request, carried |-> carried,
                     status_seq |-> status, framed_response |-> FALSE]
<1>1. entry \in Ended
  BY DEF Ended
<1>2. Len(f.exchanges) + 1 \in Nat /\ Append(f.exchanges, entry) \in Seq(Ended)
  <2> HIDE DEF entry
  <2> QED BY <1>1, Fields
<1>3. p = [f EXCEPT !.fresh_exchange = Len(f.exchanges) + 1, !.exchanges = Append(f.exchanges, entry)]
  BY DEF PushExchange, Framings
<1>4. /\ p \in Framings /\ p.exchanges = Append(f.exchanges, entry)
      /\ p.fresh_exchange = Len(f.exchanges) + 1
      /\ p.awaiting = f.awaiting /\ p.open_bodies = f.open_bodies
      /\ p.overlapped = f.overlapped /\ p.posts = f.posts
      /\ p.statuses = f.statuses /\ p.answers = f.answers
      /\ p.requests = f.requests /\ p.fresh_status = f.fresh_status
  <2> HIDE DEF entry
  <2> QED BY <1>2, <1>3 DEF Framings, Ended
<1> QED BY <1>4 DEF Pushed

LEMMA NoStatusIsNone == NoStatus.owner = "none"
BY DEF NoStatus

\* Forgetting the latest status and exchange changes nothing else.
LEMMA StaleEffect ==
    ASSUME NEW f \in Framings, NEW s, s = [f EXCEPT !.fresh_status = NoStatus, !.fresh_exchange = 0]
    PROVE  /\ s \in Framings /\ s.fresh_status = NoStatus /\ s.fresh_exchange = 0
           /\ NoStatus.owner = "none"
           /\ s.awaiting = f.awaiting /\ s.open_bodies = f.open_bodies
           /\ s.overlapped = f.overlapped /\ s.posts = f.posts
           /\ s.exchanges = f.exchanges /\ s.statuses = f.statuses
           /\ s.answers = f.answers /\ s.requests = f.requests
<1>1. /\ NoStatus \in [seq: MaybeSeqs, owner: {"none", "request", "unaccounted", "unknown"},
                       request: MaybeSeqs]
      /\ NoStatus.owner = "none"
  BY DEF NoStatus, MaybeSeqs
<1> QED BY <1>1 DEF Framings

LEMMA AwaitingEffect ==
    ASSUME NEW f \in Framings, NEW a \in Seq(Slots), NEW g, g = [f EXCEPT !.awaiting = a]
    PROVE  /\ g \in Framings /\ g.awaiting = a
           /\ g.open_bodies = f.open_bodies /\ g.overlapped = f.overlapped
           /\ g.posts = f.posts /\ g.exchanges = f.exchanges
           /\ g.statuses = f.statuses /\ g.answers = f.answers /\ g.requests = f.requests
           /\ g.fresh_status = f.fresh_status /\ g.fresh_exchange = f.fresh_exchange
BY DEF Framings, Slots

FreshStatuses == [seq: MaybeSeqs, owner: {"none", "request", "unaccounted", "unknown"},
                  request: MaybeSeqs]

LEMMA FreshStatusEffect ==
    ASSUME NEW f \in Framings, NEW t \in FreshStatuses, NEW g, g = [f EXCEPT !.fresh_status = t]
    PROVE  /\ g \in Framings /\ g.fresh_status = t
           /\ g.awaiting = f.awaiting /\ g.open_bodies = f.open_bodies
           /\ g.overlapped = f.overlapped /\ g.posts = f.posts
           /\ g.exchanges = f.exchanges /\ g.statuses = f.statuses
           /\ g.answers = f.answers /\ g.requests = f.requests
           /\ g.fresh_exchange = f.fresh_exchange
BY DEF Framings, FreshStatuses

LEMMA AttributedEffect ==
    ASSUME NEW f \in Framings, f.awaiting # <<>>,
           NEW status \in Seqs, NEW a, a = Attributed(f, status)
    PROVE  /\ a \in Framings /\ Claimed(f, a, status)
           /\ a.awaiting = f.awaiting /\ a.open_bodies = f.open_bodies
           /\ a.overlapped = f.overlapped /\ a.posts = f.posts
           /\ a.statuses = f.statuses /\ a.answers = f.answers
<1> DEFINE slot == f.awaiting[1]
           owner == IF slot.request = NoSeq THEN "unknown" ELSE "request"
           fresh == [seq |-> status, owner |-> owner, request |-> slot.request]
           mine == slot.id # NoId /\ f.requests[slot.id].seq = slot.request
           requests == IF slot.request # NoSeq /\ mine
                       THEN [f.requests EXCEPT ![slot.id].status = status] ELSE f.requests
           p == PushExchange(f, slot.seq, slot.request, status)
<1>1. slot \in Slots /\ status \in MaybeSeqs /\ Head(f.awaiting) = slot
  <2>1. f.awaiting \in Seq(Slots) /\ Len(f.awaiting) \in Nat /\ Len(f.awaiting) # 0
    BY Fields
  <2> QED BY <2>1, Fields, EventFacts
<1>2. /\ slot.request \in MaybeSeqs /\ slot.seq \in Seqs /\ slot.seq \in MaybeSeqs
      /\ slot.id \in MaybeIds
  BY <1>1, EventFacts DEF Slots
<1>3. /\ p \in Framings /\ Pushed(f, p, slot.seq, slot.request, status)
      /\ p.awaiting = f.awaiting /\ p.open_bodies = f.open_bodies
      /\ p.overlapped = f.overlapped /\ p.posts = f.posts
      /\ p.statuses = f.statuses /\ p.answers = f.answers
      /\ p.requests = f.requests /\ p.fresh_status = f.fresh_status
  BY <1>2, PushExchangeEffect
<1>4. fresh \in [seq: MaybeSeqs, owner: {"none", "request", "unaccounted", "unknown"},
                 request: MaybeSeqs]
  BY <1>1, <1>2
<1>5. requests \in [Ids -> [seq: MaybeSeqs, status: MaybeSeqs]]
  <2>1. CASE slot.request # NoSeq /\ mine
    <3>1. slot.id \in Ids
      BY <2>1, <1>2 DEF MaybeIds
    <3> HIDE DEF slot
    <3> QED BY <2>1, <3>1, <1>1, Fields
  <2>2. CASE ~(slot.request # NoSeq /\ mine)
    BY <2>2, Fields
  <2> QED BY <2>1, <2>2
<1>6. a = [p EXCEPT !.fresh_status = fresh, !.requests = requests]
  <2>1. a = [p EXCEPT !.fresh_status = fresh,
                      !.requests = IF slot.request # NoSeq /\ mine
                                   THEN [@ EXCEPT ![slot.id].status = status] ELSE @]
    BY <1>1 DEF Attributed
  <2> HIDE DEF p, fresh, slot, mine
  <2> QED BY <2>1, <1>3 DEF Framings
<1>7. /\ a \in Framings /\ a.fresh_status = fresh /\ a.requests = requests
      /\ a.awaiting = p.awaiting /\ a.open_bodies = p.open_bodies
      /\ a.overlapped = p.overlapped /\ a.posts = p.posts
      /\ a.statuses = p.statuses /\ a.answers = p.answers
      /\ a.exchanges = p.exchanges /\ a.fresh_exchange = p.fresh_exchange
  <2> HIDE DEF p, fresh, requests
  <2> QED BY <1>3, <1>4, <1>5, <1>6 DEF Framings
<1>8. Claimed(f, a, status)
  <2> HIDE DEF p
  <2> QED BY <1>3, <1>7 DEF Claimed, Pushed
<1> QED BY <1>3, <1>7, <1>8

LEMMA ResponseBeganEffect ==
    ASSUME NEW f \in Framings, NEW status \in MaybeSeqs,
           NEW r, r = ResponseBegan(f, status)
    PROVE  /\ r \in Framings
           /\ r.open_bodies = f.open_bodies /\ r.overlapped = f.overlapped /\ r.posts = f.posts
           /\ r.statuses = f.statuses /\ r.answers = f.answers
           /\ f.awaiting = <<>> => r.awaiting = <<>>
           /\ f.awaiting # <<>> => Advanced(f, r)
           /\ Began(f, r, status)
<1> DEFINE stale == [f EXCEPT !.fresh_status = NoStatus, !.fresh_exchange = 0]
           ambiguous == Len(f.awaiting) > 1
           left == IF ambiguous THEN Taint(Tail(f.awaiting)) ELSE Tail(f.awaiting)
           unknown == [seq |-> status, owner |-> "unknown", request |-> NoSeq]
           ended(g) == [g EXCEPT !.awaiting = left]
<1>1. /\ stale \in Framings /\ stale.fresh_status.owner = "none" /\ stale.fresh_exchange = 0
      /\ stale.awaiting = f.awaiting /\ stale.open_bodies = f.open_bodies
      /\ stale.overlapped = f.overlapped /\ stale.posts = f.posts
      /\ stale.exchanges = f.exchanges /\ stale.statuses = f.statuses
      /\ stale.answers = f.answers /\ stale.requests = f.requests
  BY StaleEffect
<1>2. f.awaiting \in Seq(Slots) /\ Len(f.awaiting) \in Nat
  BY Fields
<1>r. r = IF f.awaiting = <<>>
          THEN IF status = NoSeq THEN stale
               ELSE [PushExchange(stale, NoSeq, NoSeq, status)
                     EXCEPT !.fresh_status = [seq |-> status, owner |-> "unaccounted",
                                              request |-> NoSeq]]
          ELSE IF status = NoSeq THEN ended(stale)
          ELSE IF ambiguous \/ Head(f.awaiting).tainted
               THEN ended([stale EXCEPT !.fresh_status = unknown])
          ELSE ended(Attributed(stale, status))
  BY DEF ResponseBegan
<1> HIDE DEF stale
<1>3. CASE f.awaiting = <<>> /\ status = NoSeq
  BY <1>3, <1>1, <1>r DEF Began, Passed
<1>4. CASE f.awaiting = <<>> /\ status # NoSeq
  <2> DEFINE p == PushExchange(stale, NoSeq, NoSeq, status)
  <2>1. status \in Seqs /\ NoSeq \in MaybeSeqs
    BY <1>4, EventFacts DEF MaybeSeqs
  <2>2. /\ p \in Framings /\ Pushed(stale, p, NoSeq, NoSeq, status)
        /\ p.awaiting = f.awaiting /\ p.open_bodies = f.open_bodies
        /\ p.overlapped = f.overlapped /\ p.posts = f.posts
        /\ p.statuses = f.statuses /\ p.answers = f.answers
        /\ p.requests = f.requests
    BY <1>1, <2>1, PushExchangeEffect
  <2>3. r = [p EXCEPT !.fresh_status = [seq |-> status, owner |-> "unaccounted", request |-> NoSeq]]
    BY <1>4, <1>r
  <2> HIDE DEF p
  <2>4. /\ r \in Framings
        /\ r.fresh_status = [seq |-> status, owner |-> "unaccounted", request |-> NoSeq]
        /\ r.awaiting = p.awaiting /\ r.open_bodies = p.open_bodies
        /\ r.overlapped = p.overlapped /\ r.posts = p.posts
        /\ r.exchanges = p.exchanges /\ r.statuses = p.statuses
        /\ r.answers = p.answers /\ r.requests = p.requests
        /\ r.fresh_exchange = p.fresh_exchange
    <3>1. [seq |-> status, owner |-> "unaccounted", request |-> NoSeq] \in FreshStatuses
      BY <2>1 DEF FreshStatuses
    <3> QED BY <2>1, <2>2, <2>3, <3>1, FreshStatusEffect
  <2>5. Unclaimed(f, r, status)
    BY <2>2, <2>4, <1>1 DEF Unclaimed, Pushed
  <2> QED BY <1>4, <2>2, <2>4, <2>5 DEF Began
<1>5. ASSUME f.awaiting # <<>>
      PROVE  /\ left \in Seq(Slots) /\ Len(left) = Len(f.awaiting) - 1
             /\ \A i \in 1 .. Len(left) : left[i] = [f.awaiting[i + 1] EXCEPT !.tainted = TRUE]
  BY <1>2, <1>5, TaintedTail
<1>6. f.awaiting # <<>> => Head(f.awaiting) = f.awaiting[1]
  BY <1>2
<1>7. ASSUME f.awaiting # <<>>, NEW g \in Framings, r = ended(g),
             g.open_bodies = f.open_bodies, g.overlapped = f.overlapped, g.posts = f.posts,
             g.statuses = f.statuses, g.answers = f.answers
      PROVE  /\ r \in Framings /\ Advanced(f, r)
             /\ r.open_bodies = f.open_bodies /\ r.overlapped = f.overlapped /\ r.posts = f.posts
             /\ r.statuses = f.statuses /\ r.answers = f.answers
             /\ r.exchanges = g.exchanges /\ r.requests = g.requests
             /\ r.fresh_status = g.fresh_status /\ r.fresh_exchange = g.fresh_exchange
  <2>1. /\ left \in Seq(Slots) /\ Len(left) = Len(f.awaiting) - 1
        /\ \A i \in 1 .. Len(left) : left[i] = [f.awaiting[i + 1] EXCEPT !.tainted = TRUE]
    BY <1>5, <1>7
  <2> HIDE DEF left
  <2>2. /\ r \in Framings /\ r.awaiting = left
        /\ r.open_bodies = g.open_bodies /\ r.overlapped = g.overlapped
        /\ r.posts = g.posts /\ r.exchanges = g.exchanges
        /\ r.statuses = g.statuses /\ r.answers = g.answers /\ r.requests = g.requests
        /\ r.fresh_status = g.fresh_status /\ r.fresh_exchange = g.fresh_exchange
    BY <1>7, <2>1, AwaitingEffect
  <2> QED BY <1>7, <2>1, <2>2 DEF Advanced
<1> HIDE DEF left, ended
<1>8. CASE f.awaiting # <<>> /\ status = NoSeq
  <2>1. r = ended(stale)
    BY <1>8, <1>r
  <2> QED BY <1>1, <1>7, <1>8, <2>1 DEF Began, Passed
<1>9. CASE f.awaiting # <<>> /\ status # NoSeq /\ (ambiguous \/ f.awaiting[1].tainted)
  <2> DEFINE g == [stale EXCEPT !.fresh_status = unknown]
  <2>1. r = ended(g)
    BY <1>9, <1>r, <1>6
  <2>2. /\ g \in Framings /\ g.fresh_status = unknown
        /\ g.open_bodies = f.open_bodies /\ g.overlapped = f.overlapped /\ g.posts = f.posts
        /\ g.exchanges = f.exchanges /\ g.statuses = f.statuses
        /\ g.answers = f.answers /\ g.requests = f.requests
        /\ g.fresh_exchange = 0
    <3>1. unknown \in FreshStatuses
      BY EventFacts DEF FreshStatuses
    <3>2. g = [stale EXCEPT !.fresh_status = unknown]
      OBVIOUS
    <3> HIDE DEF g, unknown
    <3>3. /\ g \in Framings /\ g.fresh_status = unknown
          /\ g.open_bodies = stale.open_bodies /\ g.overlapped = stale.overlapped
          /\ g.posts = stale.posts /\ g.exchanges = stale.exchanges
          /\ g.statuses = stale.statuses /\ g.answers = stale.answers
          /\ g.requests = stale.requests /\ g.fresh_exchange = stale.fresh_exchange
      BY <1>1, <3>1, <3>2, FreshStatusEffect
    <3> QED BY <1>1, <3>3
  <2> HIDE DEF g
  <2> QED BY <1>7, <1>9, <2>1, <2>2 DEF Began, Passed
<1>10. CASE f.awaiting # <<>> /\ status # NoSeq /\ ~(ambiguous \/ f.awaiting[1].tainted)
  <2> DEFINE g == Attributed(stale, status)
  <2>1. r = ended(g)
    BY <1>10, <1>r, <1>6
  <2>2. status \in Seqs
    BY <1>10 DEF MaybeSeqs
  <2>3. /\ g \in Framings /\ Claimed(stale, g, status)
        /\ g.open_bodies = f.open_bodies /\ g.overlapped = f.overlapped /\ g.posts = f.posts
        /\ g.statuses = f.statuses /\ g.answers = f.answers
    BY <1>1, <1>10, <2>2, AttributedEffect
  <2> HIDE DEF g
  <2>4. Claimed(f, g, status)
    BY <1>1, <2>3 DEF Claimed, Pushed
  <2>5. /\ r \in Framings /\ Advanced(f, r)
        /\ r.open_bodies = f.open_bodies /\ r.overlapped = f.overlapped /\ r.posts = f.posts
        /\ r.statuses = f.statuses /\ r.answers = f.answers
        /\ r.exchanges = g.exchanges /\ r.requests = g.requests
        /\ r.fresh_status = g.fresh_status /\ r.fresh_exchange = g.fresh_exchange
    BY <1>7, <1>10, <2>1, <2>3
  <2>6. Claimed(f, r, status)
    BY <2>4, <2>5 DEF Claimed, Pushed
  <2> QED BY <1>10, <2>5, <2>6 DEF Began
<1> QED BY <1>3, <1>4, <1>8, <1>9, <1>10

\* A status takes the place of one that awaited it and disturbs no other's.
LEMMA ResponseBeganKeeps ==
    ASSUME NEW f \in Framings, NEW status \in MaybeSeqs,
           NEW r, r = ResponseBegan(f, status), NEW H, NEW x,
           Counted(f, H), Behind(f, H), Paired(f), OwnPlaces(f, x)
    PROVE  /\ Counted(r, H) /\ Behind(r, H) /\ Paired(r) /\ OwnPlaces(r, x)
           /\ \A i \in 1 .. Len(r.awaiting) : r.awaiting[i].tainted
<1>1. /\ r.open_bodies = f.open_bodies /\ r.overlapped = f.overlapped /\ r.posts = f.posts
      /\ f.awaiting = <<>> => r.awaiting = <<>>
      /\ f.awaiting # <<>> => Advanced(f, r)
      /\ Len(r.awaiting) \in Nat /\ Len(f.awaiting) \in Nat
      /\ \A i \in 1 .. Len(f.awaiting) : f.awaiting[i] \in Slots
  BY ResponseBeganEffect, Fields
<1>2. Counted(r, H) /\ Paired(r)
  BY <1>1 DEF Counted, Paired
<1>3. CASE f.awaiting = <<>>
  <2>1. r.awaiting = <<>> /\ Len(r.awaiting) = 0
    BY <1>1, <1>3
  <2> QED BY <2>1, <1>2 DEF Behind, OwnPlaces
<1>4. CASE f.awaiting # <<>>
  <2> DEFINE n == Len(f.awaiting)
  <2>1. n \in Nat /\ Len(r.awaiting) = n - 1 /\ n # 0
    <3>1. f.awaiting \in Seq(Slots)
      BY Fields
    <3> QED BY <1>1, <1>4, <3>1 DEF Advanced
  <2>2. \A i \in 1 .. n - 1 : i + 1 \in 1 .. n
    BY <2>1
  <2>3. \A i \in 1 .. n - 1 :
            /\ r.awaiting[i].seq = f.awaiting[i + 1].seq
            /\ r.awaiting[i].has_body = f.awaiting[i + 1].has_body
            /\ r.awaiting[i].request = f.awaiting[i + 1].request
            /\ r.awaiting[i].id = f.awaiting[i + 1].id
            /\ r.awaiting[i].tainted
    <3> SUFFICES ASSUME NEW i \in 1 .. n - 1
                 PROVE  /\ r.awaiting[i].seq = f.awaiting[i + 1].seq
                        /\ r.awaiting[i].has_body = f.awaiting[i + 1].has_body
                        /\ r.awaiting[i].request = f.awaiting[i + 1].request
                        /\ r.awaiting[i].id = f.awaiting[i + 1].id
                        /\ r.awaiting[i].tainted
      OBVIOUS
    <3>1. f.awaiting[i + 1] \in Slots
      BY <1>1, <2>2
    <3>2. r.awaiting[i] = [f.awaiting[i + 1] EXCEPT !.tainted = TRUE]
      BY <1>1, <1>4, <2>1 DEF Advanced
    <3> QED BY <3>1, <3>2 DEF Slots
  <2> HIDE DEF n
  <2>4. OwnPlaces(r, x)
    <3> SUFFICES ASSUME NEW i \in 1 .. n - 1
                 PROVE  \E g \in Exchanges :
                          /\ r.awaiting[i].seq = Http(g) /\ x[g].phase # "unused"
                          /\ \/ r.awaiting[i].request = NoSeq /\ r.awaiting[i].id = NoId
                             \/ r.awaiting[i].request = Message(g) /\ r.awaiting[i].id = x[g].id
      BY <2>1 DEF OwnPlaces
    <3>1. PICK g \in Exchanges :
              /\ f.awaiting[i + 1].seq = Http(g) /\ x[g].phase # "unused"
              /\ \/ f.awaiting[i + 1].request = NoSeq /\ f.awaiting[i + 1].id = NoId
                 \/ f.awaiting[i + 1].request = Message(g) /\ f.awaiting[i + 1].id = x[g].id
      BY <2>2 DEF OwnPlaces, n
    <3> QED BY <3>1, <2>3
  <2>5. Behind(r, H)
    <3> SUFFICES ASSUME ~r.overlapped, NEW g \in H, NEW i \in 1 .. n - 1,
                        r.awaiting[i].has_body, r.awaiting[i].seq # Http(g)
                 PROVE  \E j \in i + 1 .. n - 1 :
                          /\ r.awaiting[j].seq = Http(g) /\ r.awaiting[j].has_body
                          /\ r.awaiting[j].request = NoSeq
      BY <2>1 DEF Behind
    <3>1. i + 1 \in 1 .. n /\ f.awaiting[i + 1].has_body /\ f.awaiting[i + 1].seq # Http(g)
      BY <2>2, <2>3
    <3>2. PICK k \in (i + 1) + 1 .. n :
              f.awaiting[k].seq = Http(g) /\ f.awaiting[k].has_body /\ f.awaiting[k].request = NoSeq
      BY <3>1, <1>1 DEF Behind, n
    <3>3. k - 1 \in i + 1 .. n - 1 /\ k - 1 \in 1 .. n - 1 /\ (k - 1) + 1 = k
      BY <2>1
    <3> QED BY <3>2, <3>3, <2>3
  <2> QED BY <1>2, <2>1, <2>3, <2>4, <2>5
<1> QED BY <1>3, <1>4

\* A message of the server's is tied to a status that is told it belongs to,
\* and leaves what awaits and what is registered alone.
Told(f, m) ==
    /\ m.posts = f.posts /\ m.awaiting = f.awaiting
    /\ m.open_bodies = f.open_bodies /\ m.overlapped = f.overlapped
    /\ m.requests = f.requests
    /\ m.fresh_status = NoStatus /\ m.fresh_exchange = 0
    /\ Len(m.exchanges) = Len(f.exchanges)
    /\ \A i \in 1 .. Len(f.exchanges) :
           /\ m.exchanges[i].request = f.exchanges[i].request
           /\ m.exchanges[i].carried = f.exchanges[i].carried
           /\ m.exchanges[i].status_seq = f.exchanges[i].status_seq
           /\ f.exchanges[i].framed_response => m.exchanges[i].framed_response

Rides(f, id, status) ==
    IF id # NoId THEN \/ status = f.requests[id].status /\ status # NoSeq
                      \/ status = f.fresh_status.seq /\ f.fresh_status.owner = "unaccounted"
                 ELSE status = f.fresh_status.seq /\ f.fresh_status.owner = "request"

Tied(f, m, seq, id) ==
    /\ \A t \in m.statuses : t \in f.statuses \/ \E status : t = <<seq, status>> /\ Rides(f, id, status)
    /\ \A t \in m.answers : \/ t \in f.answers
                            \/ /\ t = <<seq, f.fresh_status.request>>
                               /\ id = NoId /\ f.fresh_status.owner = "request"

LEMMA ServerMessageEffect ==
    ASSUME NEW f \in Framings, Fresh(f), NEW seq \in Seqs, NEW id \in MaybeIds,
           NEW m, m = ServerMessage(f, seq, id, TRUE)
    PROVE  /\ m \in Framings /\ Told(f, m) /\ Tied(f, m, seq, id)
           /\ f.fresh_exchange # 0 => m.exchanges[f.fresh_exchange].framed_response
<1> DEFINE fresh == f.fresh_status
           taken == [f EXCEPT !.fresh_status = NoStatus, !.fresh_exchange = 0]
           framed == IF f.fresh_exchange = 0 THEN taken
                     ELSE [taken EXCEPT !.exchanges[f.fresh_exchange].framed_response = TRUE]
           rode(status) == [framed EXCEPT !.statuses = @ \union {<<seq, status>>}]
<1>m. m = IF id # NoId
          THEN IF f.requests[id].status # NoSeq THEN rode(f.requests[id].status)
               ELSE IF fresh.owner = "unaccounted" THEN rode(fresh.seq)
               ELSE framed
          ELSE IF fresh.owner = "request"
          THEN [rode(fresh.seq) EXCEPT !.answers = @ \union {<<seq, fresh.request>>}]
          ELSE framed
  BY DEF ServerMessage
<1>1. /\ taken \in Framings /\ taken.fresh_status = NoStatus /\ taken.fresh_exchange = 0
      /\ taken.awaiting = f.awaiting /\ taken.open_bodies = f.open_bodies
      /\ taken.overlapped = f.overlapped /\ taken.posts = f.posts
      /\ taken.exchanges = f.exchanges /\ taken.statuses = f.statuses
      /\ taken.answers = f.answers /\ taken.requests = f.requests
  BY StaleEffect
<1> HIDE DEF taken
<1>2. /\ framed \in Framings /\ Told(f, framed)
      /\ framed.statuses = f.statuses /\ framed.answers = f.answers
      /\ f.fresh_exchange # 0 => framed.exchanges[f.fresh_exchange].framed_response
  <2>1. CASE f.fresh_exchange = 0
    BY <2>1, <1>1 DEF Told
  <2>2. CASE f.fresh_exchange # 0
    <3> DEFINE k == f.fresh_exchange
               es == [f.exchanges EXCEPT ![k].framed_response = TRUE]
    <3>1. /\ k \in 1 .. Len(f.exchanges) /\ f.exchanges \in Seq(Ended)
          /\ \A i \in 1 .. Len(f.exchanges) : f.exchanges[i] \in Ended
      BY <2>2, Fields DEF Fresh
    <3>2. framed = [taken EXCEPT !.exchanges = es]
      <4>1. framed = [taken EXCEPT !.exchanges[k].framed_response = TRUE]
        BY <2>2
      <4> HIDE DEF framed, k
      <4> QED BY <4>1, <1>1 DEF Framings
    <3>3. [f.exchanges[k] EXCEPT !.framed_response = TRUE] \in Ended
      BY <3>1 DEF Ended
    <3>4. es = [f.exchanges EXCEPT ![k] = [f.exchanges[k] EXCEPT !.framed_response = TRUE]]
      BY <3>1
    <3>5. es \in Seq(Ended) /\ Len(es) = Len(f.exchanges)
      <4> HIDE DEF es, k
      <4> QED BY <3>1, <3>3, <3>4
    <3>6. \A i \in 1 .. Len(f.exchanges) :
             /\ es[i].request = f.exchanges[i].request
             /\ es[i].carried = f.exchanges[i].carried
             /\ es[i].status_seq = f.exchanges[i].status_seq
             /\ f.exchanges[i].framed_response => es[i].framed_response
      <4> HIDE DEF k
      <4> QED BY <3>1 DEF Ended
    <3>7. es[k].framed_response
      <4> HIDE DEF k
      <4> QED BY <3>1 DEF Ended
    <3> HIDE DEF es, framed
    <3>8. /\ framed \in Framings /\ framed.exchanges = es
          /\ framed.fresh_status = taken.fresh_status /\ framed.fresh_exchange = taken.fresh_exchange
          /\ framed.awaiting = taken.awaiting /\ framed.open_bodies = taken.open_bodies
          /\ framed.overlapped = taken.overlapped /\ framed.posts = taken.posts
          /\ framed.statuses = taken.statuses
          /\ framed.answers = taken.answers /\ framed.requests = taken.requests
      BY <3>2, <3>5, <1>1 DEF Framings, Ended
    <3> QED BY <3>5, <3>6, <3>7, <3>8, <1>1 DEF Told
  <2> QED BY <2>1, <2>2
<1> HIDE DEF framed
<1>3. ASSUME NEW S \in SUBSET (Seqs \X Seqs), NEW A \in SUBSET (Seqs \X Seqs),
             m = [framed EXCEPT !.statuses = S, !.answers = A]
      PROVE  /\ m \in Framings /\ Told(f, m) /\ m.statuses = S /\ m.answers = A
             /\ f.fresh_exchange # 0 => m.exchanges[f.fresh_exchange].framed_response
  <2>1. /\ m \in Framings /\ m.statuses = S /\ m.answers = A
        /\ m.exchanges = framed.exchanges /\ m.fresh_exchange = framed.fresh_exchange
        /\ m.fresh_status = framed.fresh_status /\ m.requests = framed.requests
        /\ m.awaiting = framed.awaiting /\ m.open_bodies = framed.open_bodies
        /\ m.overlapped = framed.overlapped /\ m.posts = framed.posts
    BY <1>2, <1>3 DEF Framings
  <2> QED BY <1>2, <2>1 DEF Told
<1>4. f.statuses \in SUBSET (Seqs \X Seqs) /\ f.answers \in SUBSET (Seqs \X Seqs)
  BY DEF Framings
<1>5. ASSUME NEW status \in Seqs, m = rode(status), Rides(f, id, status)
      PROVE  /\ m \in Framings /\ Told(f, m) /\ Tied(f, m, seq, id)
             /\ f.fresh_exchange # 0 => m.exchanges[f.fresh_exchange].framed_response
  <2> DEFINE S == f.statuses \union {<<seq, status>>}
  <2>1. S \in SUBSET (Seqs \X Seqs)
    BY <1>4
  <2>2. m = [framed EXCEPT !.statuses = S, !.answers = f.answers]
    <3>1. m = [framed EXCEPT !.statuses = S]
      BY <1>2, <1>5
    <3> HIDE DEF S
    <3> QED BY <3>1, <1>2 DEF Framings
  <2> HIDE DEF S
  <2>3. /\ m \in Framings /\ Told(f, m) /\ m.statuses = S /\ m.answers = f.answers
        /\ f.fresh_exchange # 0 => m.exchanges[f.fresh_exchange].framed_response
    BY <1>3, <1>4, <2>1, <2>2
  <2> QED BY <1>5, <2>3 DEF Tied, S
<1>6. CASE m = framed
  BY <1>6, <1>2 DEF Tied
<1>7. CASE id # NoId /\ f.requests[id].status # NoSeq
  <2>1. f.requests[id].status \in Seqs
    BY <1>7, Fields DEF MaybeIds, MaybeSeqs
  <2> QED BY <2>1, <1>5, <1>7, <1>m DEF Rides
<1>8. CASE id # NoId /\ ~(f.requests[id].status # NoSeq) /\ fresh.owner = "unaccounted"
  <2>1. fresh.seq \in Seqs
    BY <1>8 DEF Fresh
  <2> QED BY <2>1, <1>5, <1>8, <1>m DEF Rides
<1>9. CASE ~(id # NoId) /\ fresh.owner = "request"
  <2> DEFINE S == f.statuses \union {<<seq, fresh.seq>>}
             A == f.answers \union {<<seq, fresh.request>>}
  <2>1. S \in SUBSET (Seqs \X Seqs) /\ A \in SUBSET (Seqs \X Seqs)
    BY <1>4, <1>9 DEF Fresh
  <2>2. m = [framed EXCEPT !.statuses = S, !.answers = A]
    <3>1. m = [rode(fresh.seq) EXCEPT !.answers = @ \union {<<seq, fresh.request>>}]
      BY <1>9, <1>m
    <3>2. rode(fresh.seq) = [framed EXCEPT !.statuses = S]
      BY <1>2
    <3> HIDE DEF S
    <3>3. [framed EXCEPT !.statuses = S].answers = f.answers
      BY <1>2 DEF Framings
    <3>4. m = [[framed EXCEPT !.statuses = S] EXCEPT !.answers = A]
      BY <3>1, <3>2, <3>3
    <3> QED BY <3>4
  <2> HIDE DEF S, A
  <2>3. /\ m \in Framings /\ Told(f, m) /\ m.statuses = S /\ m.answers = A
        /\ f.fresh_exchange # 0 => m.exchanges[f.fresh_exchange].framed_response
    BY <1>3, <2>1, <2>2
  <2> QED BY <1>9, <2>3 DEF Tied, Rides, S, A
<1> QED BY <1>m, <1>6, <1>7, <1>8, <1>9

-----------------------------------------------------------------------------
(* What the events of an exchange keep, as the handlers record them. *)

LEMMA StaysOwn ==
    ASSUME NEW f, NEW x, OwnPlaces(f, x), NEW y,
           \A e \in Exchanges :
               x[e].phase # "unused" => y[e].phase # "unused" /\ y[e].id = x[e].id
    PROVE  OwnPlaces(f, y)
BY DEF OwnPlaces

LEMMA RequestedSound ==
    ASSUME NEW f \in Framings, NEW e \in Exchanges, NEW b \in BOOLEAN,
           NEW r, r = Requested(f, Http(e), b), NEW H, e \notin H,
           NEW x, x[e].phase # "unused", Sound(f, H, x)
    PROVE  r \in Framings /\ Sound(r, H, x) /\ (b => Sound(r, H \union {e}, x))
<1>1. /\ r \in Framings /\ r.fresh_status = f.fresh_status
      /\ r.fresh_exchange = f.fresh_exchange /\ r.exchanges = f.exchanges
  BY RequestedEffect
<1>2. Fresh(r)
  BY <1>1 DEF Fresh, Sound
<1>3. /\ Counted(r, H) /\ Behind(r, H) /\ Paired(r) /\ OwnPlaces(r, x)
      /\ b => Counted(r, H \union {e}) /\ Behind(r, H \union {e})
  BY RequestedKeeps DEF Sound
<1> QED BY <1>1, <1>2, <1>3 DEF Sound

\* x is the conversation in which the message of e comes next; then it has come.
DueFor(f, e, H, x) ==
    /\ e \notin H
    /\ \/ Sound(f, H \union {e}, x)
       \/ Sound(f, {}, x) /\ f.open_bodies = 0 /\ H = {}

CameSoundly(f, c, H, x) == c \in Framings /\ Sound(c, H, x) /\ (Idle(f) => Idle(c))

LEMMA CarriedSound ==
    ASSUME NEW f \in Framings, NEW e \in Exchanges, NEW x,
           NEW id \in MaybeIds, id = x[e].id, NEW body, body # "request" => id = NoId,
           NEW c, c = Carried(f, e, id, body), NEW H, DueFor(f, e, H, x)
    PROVE  CameSoundly(f, c, H, x)
<1> DEFINE q == body = "request"
<1>1. c = ClientMessage(f, Message(e), id, q) /\ q \in BOOLEAN
  BY DEF Carried
<1> HIDE DEF q
<1>2. c \in Framings /\ Heard(f, c, Message(e), id, q) /\ BodyCame(f, c, Message(e), id)
  BY <1>1, ClientMessageEffect
<1>3. Counted(c, H) /\ Behind(c, H) /\ Paired(c) /\ OwnPlaces(c, x)
  <2>1. \/ Counted(f, H \union {e}) /\ Behind(f, H \union {e})
        \/ Counted(f, {}) /\ f.open_bodies = 0 /\ H = {}
    BY DEF Sound, DueFor
  <2>2. Paired(f) /\ OwnPlaces(f, x)
    BY DEF Sound, DueFor
  <2>3. e \notin H
    BY DEF DueFor
  <2> QED BY <1>1, <2>1, <2>2, <2>3, ClientMessageKeeps
<1>4. Fresh(c)
  <2>1. Fresh(f)
    BY DEF Sound, DueFor
  <2>2. /\ c.exchanges = f.exchanges /\ c.fresh_status = f.fresh_status
        /\ c.fresh_exchange = f.fresh_exchange
    BY <1>2 DEF Heard
  <2> QED BY <2>1, <2>2 DEF Fresh
<1>5. Idle(f) => Idle(c)
  BY <1>2 DEF Idle, BodyCame, MessageLeaves
<1> QED BY <1>2, <1>3, <1>4, <1>5 DEF Sound, CameSoundly

LEMMA BeganSound ==
    ASSUME NEW f \in Framings, NEW status \in MaybeSeqs,
           NEW r, r = ResponseBegan(f, status), NEW H, NEW x, Sound(f, H, x)
    PROVE  r \in Framings /\ Sound(r, H, x) /\ (Idle(f) => Idle(r))
<1>1. /\ r \in Framings /\ Began(f, r, status) /\ r.open_bodies = f.open_bodies
      /\ f.awaiting = <<>> => r.awaiting = <<>>
  BY ResponseBeganEffect
<1>2. Counted(r, H) /\ Behind(r, H) /\ Paired(r) /\ OwnPlaces(r, x)
  BY ResponseBeganKeeps DEF Sound
<1>3. Fresh(r)
  <2>1. f.exchanges \in Seq(Ended) /\ Len(f.exchanges) \in Nat /\ f.awaiting \in Seq(Slots)
    BY Fields
  <2>2. CASE Passed(f, r)
    BY <2>1, <2>2 DEF Passed, Fresh
  <2>3. ASSUME status # NoSeq, NEW request, NEW carried, Pushed(f, r, request, carried, status)
        PROVE  r.fresh_exchange <= Len(r.exchanges) /\ status \in Seqs
    BY <2>1, <2>3 DEF Pushed, MaybeSeqs
  <2>4. CASE status # NoSeq /\ Unclaimed(f, r, status)
    BY <2>3, <2>4 DEF Unclaimed, Fresh
  <2>5. CASE f.awaiting # <<>> /\ status # NoSeq /\ Claimed(f, r, status)
    <3>1. f.awaiting[1] \in Slots
      BY <2>1, <2>5, Fields
    <3>2. f.awaiting[1].request # NoSeq => f.awaiting[1].request \in Seqs
      BY <3>1 DEF Slots, MaybeSeqs
    <3>3. r.fresh_exchange <= Len(r.exchanges) /\ status \in Seqs
      BY <2>3, <2>5 DEF Claimed
    <3> QED BY <2>5, <3>2, <3>3 DEF Claimed, Fresh
  <2> QED BY <1>1, <2>2, <2>4, <2>5 DEF Began
<1> QED BY <1>1, <1>2, <1>3 DEF Sound, Idle

LEMMA ToldSound ==
    ASSUME NEW f \in Framings, NEW m \in Framings, Told(f, m), NEW H, NEW x, Sound(f, H, x)
    PROVE  Sound(m, H, x) /\ (Idle(f) => Idle(m))
<1>1. Fresh(m)
  <2>1. Len(m.exchanges) \in Nat /\ NoStatus.owner = "none"
    BY Fields DEF NoStatus
  <2> QED BY <2>1 DEF Told, Fresh
<1>2. m.awaiting = f.awaiting /\ m.overlapped = f.overlapped
  BY DEF Told
<1>3. Behind(m, H)
  BY <1>2, BehindFewer DEF Sound
<1>4. OwnPlaces(m, x)
  BY <1>2 DEF Sound, OwnPlaces
<1> QED BY <1>1, <1>3, <1>4 DEF Told, Sound, Counted, Paired, Idle

LEMMA MessageSound ==
    ASSUME NEW f \in Framings, NEW seq \in Seqs, NEW id \in MaybeIds,
           NEW m, m = ServerMessage(f, seq, id, TRUE), NEW H, NEW x, Sound(f, H, x)
    PROVE  m \in Framings /\ Sound(m, H, x) /\ (Idle(f) => Idle(m))
<1>1. m \in Framings /\ Told(f, m)
  BY ServerMessageEffect DEF Sound
<1> QED BY <1>1, ToldSound

LEMMA OtherSound ==
    ASSUME NEW f \in Framings, NEW seq, NEW id,
           NEW m, m = ServerMessage(f, seq, id, FALSE), NEW H, NEW x, Sound(f, H, x)
    PROVE  m \in Framings /\ Told(f, m) /\ Sound(m, H, x) /\ (Idle(f) => Idle(m))
<1>1. m = [f EXCEPT !.fresh_status = NoStatus, !.fresh_exchange = 0]
  BY DEF ServerMessage
<1>2. m \in Framings /\ Told(f, m)
  BY <1>1, StaleEffect DEF Told
<1> QED BY <1>2, ToldSound

-----------------------------------------------------------------------------
(* The posts: every step keeps what pairs a message with its headers. *)

Lived == [phase: {"unused", "headed", "sent", "streaming", "done"},
          verb: {"POST", "GET"}, body: Bodies, id: MaybeIds,
          reply: Replies, answered: BOOLEAN]

Said == [kind: {"request", "response"}, of: Exchanges]

LEMMA InitPosts == Init => PInv
<1> SUFFICES ASSUME Init PROVE PInv
  OBVIOUS
<1> USE DEF Init
<1>1. Unused \in Lived /\ \A e \in Exchanges : ex[e] = Unused
  BY DEF Unused, Lived, Bodies, Replies, MaybeIds
<1>2. NewFraming \in Framings
  BY DEF NewFraming, NoStatus, Framings, MaybeSeqs
<1>3. /\ framing.awaiting = <<>> /\ framing.open_bodies = 0 /\ framing.posts = {}
      /\ framing.fresh_status.owner = "none" /\ framing.fresh_exchange = 0
      /\ framing.exchanges = <<>>
  BY DEF NewFraming, NoStatus
<1>4. Len(framing.awaiting) = 0 /\ Len(framing.exchanges) = 0
  BY <1>3
<1>5. TypeOK
  BY <1>1, <1>2, <1>3, <1>4 DEF TypeOK, Lived
<1>6. Lives(ex)
  BY <1>1 DEF Lives, Unused
<1>7. Headed = {}
  BY <1>1 DEF Headed, Unused
<1>8. Sound(framing, Headed, ex)
  BY <1>3, <1>4, <1>7, FS_EmptySet DEF Sound, Fresh, Counted, Behind, Paired, OwnPlaces
<1> QED BY <1>3, <1>5, <1>6, <1>8 DEF PInv, Idle

LEMMA Types ==
    ASSUME TypeOK
    PROVE  /\ setting \in Settings /\ setting \in Setting
           /\ ex \in [Exchanges -> Lived] /\ \A e \in Exchanges : ex[e] \in Lived
           /\ framing \in Framings /\ messages \in Seq(Said) /\ orderly \in BOOLEAN
BY HttpConversationAssumption DEF TypeOK, Lived, Said

\* What an exchange asks, and what of it is recorded.
Asked(e, verb, body, id) ==
    [ex[e] EXCEPT !.phase = IF (RecordsMessage(body) /\ ~setting.apart) \/ body = "none"
                            THEN "sent" ELSE "headed",
                  !.verb = verb, !.body = body, !.id = id]

LEMMA AskEffect ==
    ASSUME PInv, NEW e \in Exchanges, NEW verb \in setting.verbs, NEW body \in setting.bodies,
           NEW id, Ask(e, verb, body, id)
    PROVE  /\ setting' = setting /\ ex[e].phase = "unused"
           /\ ex' = [ex EXCEPT ![e] = Asked(e, verb, body, id)]
           /\ Asked(e, verb, body, id) \in Lived
           /\ verb \in {"POST", "GET"} /\ (verb = "GET" => body = "none")
           /\ id \in MaybeIds /\ (id # NoId <=> body = "request")
           /\ ex'[e].phase \in {"sent", "headed"} /\ (ex'[e].phase = "headed" => body # "none")
           /\ ex'[e].id = id /\ ex'[e].body = body /\ ex'[e].reply = "lost"
           /\ \A o \in Exchanges : o # e => ex'[o] = ex[o]
           /\ messages' \in Seq(Said) /\ orderly' \in BOOLEAN
           /\ id # NoId => id \in FreshIds(e)
<1>1. /\ setting \in Setting /\ ex \in [Exchanges -> Lived] /\ ex[e] \in Lived
      /\ messages \in Seq(Said) /\ orderly \in BOOLEAN
  BY Types DEF PInv
<1>2. verb \in {"POST", "GET"} /\ body \in Bodies
  BY <1>1 DEF Setting
<1>3. id \in MaybeIds /\ (id # NoId <=> body = "request") /\ (id # NoId => id \in FreshIds(e))
  BY IdsAreExchanges DEF Ask, FreshIds, MaybeIds
<1>4. Asked(e, verb, body, id) \in Lived
  BY <1>1, <1>2, <1>3 DEF Asked, Lived
<1>5. ex' = [ex EXCEPT ![e] = Asked(e, verb, body, id)]
  BY <1>1 DEF Ask, Asked
<1>6. ex[e].phase = "unused" /\ ex[e].reply = "lost" /\ setting' = setting
      /\ (verb = "GET" => body = "none")
  BY DEF Ask, PInv, Lives
<1>7. /\ Asked(e, verb, body, id).phase \in {"sent", "headed"}
      /\ Asked(e, verb, body, id).phase = "headed" => body # "none"
      /\ Asked(e, verb, body, id).id = id /\ Asked(e, verb, body, id).body = body
      /\ Asked(e, verb, body, id).reply = "lost"
  BY <1>1, <1>6 DEF Asked, Lived
<1>8. messages' \in Seq(Said)
  <2>1. Request(e) \in Said
    BY DEF Request, Said
  <2>2. Append(messages, Request(e)) \in Seq(Said)
    BY <2>1, <1>1
  <2> QED BY <2>2, <1>1 DEF Ask
<1>9. orderly' \in BOOLEAN
  BY DEF Ask
<1> HIDE DEF Asked
<1>10. ex'[e] = Asked(e, verb, body, id) /\ \A o \in Exchanges : o # e => ex'[o] = ex[o]
  BY <1>1, <1>5
<1> QED BY <1>2, <1>3, <1>4, <1>5, <1>6, <1>7, <1>8, <1>9, <1>10

\* Who lives on, and whose places these are, after a step of e.
LEMMA AskLives ==
    ASSUME PInv, NEW e \in Exchanges, NEW verb \in setting.verbs, NEW body \in setting.bodies,
           NEW id, Ask(e, verb, body, id)
    PROVE  Lives(ex)' /\ OwnPlaces(framing, ex')
<1>1. /\ setting' = setting /\ ex[e].phase = "unused"
      /\ id \in MaybeIds /\ (id # NoId <=> body = "request")
      /\ ex'[e].phase \in {"sent", "headed"}
      /\ ex'[e].id = id /\ ex'[e].body = body /\ ex'[e].reply = "lost"
      /\ \A o \in Exchanges : o # e => ex'[o] = ex[o]
      /\ id # NoId => id \in FreshIds(e)
  BY AskEffect
<1>2. Lives(ex) /\ OwnPlaces(framing, ex)
  BY DEF PInv, Sound
<1>3. \A o \in Exchanges : ex[o].phase # "unused" => ex'[o].phase # "unused" /\ ex'[o].id = ex[o].id
  BY <1>1
<1>4. OwnPlaces(framing, ex')
  BY <1>2, <1>3, StaysOwn
<1>5. \A o \in Exchanges : ex[o].id \in Exchanges /\ ex[o].id # NoId => ex'[ex[o].id].phase # "unused"
  BY <1>1, <1>2, <1>3 DEF Lives
<1>6. \A o \in Exchanges : ex[o].id # NoId => ex[o].id \in Exchanges
  BY Types, IdsAreExchanges DEF PInv, Lived, MaybeIds
<1>7. id # NoId => ex'[id].phase # "unused"
  <2>1. CASE id = e
    BY <2>1, <1>1
  <2>2. CASE id # NoId /\ id # e
    <3>1. PICK r \in Exchanges : ex[r].id = id
      BY <2>2, <1>1 DEF FreshIds
    <3> QED BY <3>1, <2>2, <1>5, <1>6
  <2> QED BY <2>1, <2>2
<1>8. Lives(ex)'
  <2> SUFFICES ASSUME NEW o \in Exchanges
               PROVE  /\ ex'[o].phase \in {"streaming", "done"} => ex'[o].reply \in setting.replies
                      /\ ex'[o].phase \in {"unused", "headed", "sent"} => ex'[o].reply = "lost"
                      /\ ex'[o].phase = "streaming" => ex'[o].reply = "stream"
                      /\ ex'[o].id # NoId <=> ex'[o].body = "request"
                      /\ ex'[o].body = "request" => ex'[o].phase # "unused"
                      /\ ex'[o].id # NoId => ex'[ex'[o].id].phase # "unused"
    BY <1>1 DEF Lives
  <2>1. CASE o = e
    BY <2>1, <1>1, <1>7
  <2>2. CASE o # e
    BY <2>2, <1>1, <1>2, <1>5, <1>6 DEF Lives
  <2> QED BY <2>1, <2>2
<1> QED BY <1>4, <1>8

LEMMA AskPosts ==
    ASSUME PInv, NEW e \in Exchanges, NEW verb \in setting.verbs, NEW body \in setting.bodies,
           NEW id, Ask(e, verb, body, id)
    PROVE  PInv'
<1> DEFINE message == RecordsMessage(body) /\ ~setting.apart
           headed == IF setting.partial THEN framing
                     ELSE Requested(framing, Http(e), verb = "POST")
<1>1. /\ setting' = setting /\ setting \in Settings /\ ex[e].phase = "unused"
      /\ ex' = [ex EXCEPT ![e] = Asked(e, verb, body, id)]
      /\ Asked(e, verb, body, id) \in Lived
      /\ verb \in {"POST", "GET"} /\ (verb = "GET" => body = "none")
      /\ id \in MaybeIds /\ (id # NoId <=> body = "request")
      /\ ex'[e].phase \in {"sent", "headed"} /\ (ex'[e].phase = "headed" => body # "none")
      /\ ex'[e].id = id
      /\ \A o \in Exchanges : o # e => ex'[o] = ex[o]
      /\ messages' \in Seq(Said) /\ orderly' \in BOOLEAN
      /\ ex \in [Exchanges -> Lived] /\ framing \in Framings
  BY AskEffect, Types DEF PInv
<1>2. ex' \in [Exchanges -> Lived]
  BY <1>1
<1>3. framing' = IF message THEN Carried(headed, e, id, body) ELSE headed
  BY DEF Ask
<1>4. e \notin Headed /\ Sound(framing, Headed, ex')
  BY <1>1, AskLives DEF Headed, Sound, PInv
<1>5. ex'[e].phase = IF message \/ body = "none" THEN "sent" ELSE "headed"
  BY <1>1, Types DEF Ask, PInv, Lived
<1>6. (message => body # "none") /\ (body # "none" => verb = "POST")
  BY <1>1 DEF RecordsMessage
<1> HIDE DEF message
<1>7. ASSUME ~setting.partial PROVE framing' \in Framings /\ Sound(framing', Headed', ex')
  <2> DEFINE b == verb = "POST"
  <2>1. headed = Requested(framing, Http(e), b) /\ b \in BOOLEAN /\ ex'[e].phase # "unused"
    BY <1>1, <1>7
  <2>a. b <=> verb = "POST"
    OBVIOUS
  <2> HIDE DEF b, headed
  <2>2. headed \in Framings /\ Sound(headed, Headed, ex') /\ (b => Sound(headed, Headed \union {e}, ex'))
    <3> DEFINE x == ex'
               H == Headed
    <3>1. framing \in Framings /\ e \notin H /\ x[e].phase # "unused" /\ Sound(framing, H, x)
      BY <1>1, <1>4, <2>1
    <3> HIDE DEF x, H
    <3>2. headed \in Framings /\ Sound(headed, H, x) /\ (b => Sound(headed, H \union {e}, x))
      BY <3>1, <2>1, RequestedSound
    <3> QED BY <3>2 DEF x, H
  <2>3. Headed' = IF ex'[e].phase = "headed" THEN Headed \union {e} ELSE Headed
    <3>1. \A o \in Exchanges : ex'[o].phase = "headed" <=> ex[o].phase = "headed" \/ (o = e /\ ex'[e].phase = "headed")
      BY <1>1
    <3> QED BY <3>1, <1>1, <1>7 DEF Headed
  <2>4. CASE message
    <3>1. Sound(headed, Headed \union {e}, ex')
      BY <2>2, <2>a, <2>4, <1>6
    <3>2. framing' = Carried(headed, e, id, body)
      BY <2>4, <1>3
    <3>3. framing' \in Framings /\ Sound(framing', Headed, ex')
      <4>1. body # "request" => id = NoId
        BY <1>1
      <4> DEFINE x == ex'
                 c == framing'
                 H == Headed
      <4>2. /\ id = x[e].id /\ id \in MaybeIds /\ e \notin H
            /\ c = Carried(headed, e, id, body) /\ Sound(headed, H \union {e}, x)
            /\ headed \in Framings
        BY <1>1, <1>4, <2>2, <3>1, <3>2
      <4> HIDE DEF x, c, H
      <4>3. c \in Framings /\ Sound(c, H, x)
        <5>1. DueFor(headed, e, H, x)
          BY <4>1, <4>2 DEF DueFor
        <5>2. CameSoundly(headed, c, H, x)
          BY <4>1, <4>2, <5>1, CarriedSound
        <5> QED BY <5>2 DEF CameSoundly
      <4> QED BY <4>3 DEF x, c, H
    <3> QED BY <2>3, <2>4, <3>3, <1>5
  <2>5. CASE ~message
    <3>1. framing' = headed
      BY <2>5, <1>3
    <3>2. CASE body = "none"
      BY <2>2, <2>3, <3>1, <3>2, <1>5
    <3>3. CASE body # "none"
      <4>1. Sound(headed, Headed \union {e}, ex')
        BY <2>2, <2>a, <3>3, <1>6
      <4>2. ex'[e].phase = "headed"
        BY <2>5, <3>3, <1>5
      <4> QED BY <2>2, <2>3, <3>1, <4>1, <4>2
    <3> QED BY <3>2, <3>3
  <2> QED BY <2>4, <2>5
<1>8. ASSUME setting.partial
      PROVE  framing' \in Framings /\ Sound(framing', Headed', ex') /\ Idle(framing')
  <2>1. headed = framing /\ Headed = {} /\ Headed' = {} /\ Idle(framing) /\ framing.open_bodies = 0
    BY <1>1, <1>8 DEF PInv, Headed, Idle
  <2>2. CASE message
    <3> DEFINE x == ex'
               c == framing'
    <3>1. c = Carried(framing, e, id, body) /\ Sound(framing, {}, x) /\ id = x[e].id
      BY <2>1, <2>2, <1>1, <1>3, <1>4
    <3>2. e \notin {} /\ (body # "request" => id = NoId)
      BY <1>1
    <3> HIDE DEF x, c
    <3>3. c \in Framings /\ Sound(c, {}, x) /\ Idle(c)
      <4>1. DueFor(framing, e, {}, x)
        BY <2>1, <3>1, <3>2 DEF DueFor
      <4>2. /\ framing \in Framings /\ e \in Exchanges /\ id \in MaybeIds /\ id = x[e].id
            /\ (body # "request" => id = NoId) /\ c = Carried(framing, e, id, body)
        BY <1>1, <3>1, <3>2
      <4>3. CameSoundly(framing, c, {}, x)
        BY <4>1, <4>2, CarriedSound
      <4> QED BY <2>1, <4>3 DEF CameSoundly
    <3> QED BY <2>1, <3>3 DEF x, c
  <2>3. CASE ~message
    BY <2>1, <2>3, <1>1, <1>3, <1>4
  <2> QED BY <2>2, <2>3
<1>9. Fresh(framing')
  BY <1>7, <1>8 DEF Sound
<1>10. TypeOK'
  BY <1>1, <1>2, <1>7, <1>8, <1>9 DEF TypeOK, Lived, Said, Fresh
<1> QED BY <1>1, <1>7, <1>8, <1>10, AskLives DEF PInv

\* A step that sends no body leaves the bodies that are awaited.
LEMMA PostsKept ==
    ASSUME PInv, setting' = setting, ex' \in [Exchanges -> Lived], Lives(ex)',
           \A o \in Exchanges :
               /\ ex[o].phase # "unused" => ex'[o].phase # "unused" /\ ex'[o].id = ex[o].id
               /\ ex'[o].phase = "headed" <=> ex[o].phase = "headed",
           framing' \in Framings, Sound(framing', Headed, ex), Idle(framing) => Idle(framing'),
           messages' \in Seq(Said), orderly' \in BOOLEAN
    PROVE  PInv'
<1>1. Headed' = Headed
  BY DEF Headed
<1>2. OwnPlaces(framing', ex')
  <2>1. OwnPlaces(framing', ex)
    BY DEF Sound
  <2> QED BY <2>1, StaysOwn
<1>3. Sound(framing', Headed', ex') /\ Fresh(framing')
  BY <1>1, <1>2 DEF Sound
<1>4. TypeOK'
  BY <1>3 DEF PInv, TypeOK, Lived, Said, Fresh
<1> QED BY <1>3, <1>4 DEF PInv

LEMMA SendBodyPosts ==
    ASSUME PInv, NEW e \in Exchanges, SendBody(e)
    PROVE  PInv'
<1>1. /\ setting' = setting /\ setting \in Settings /\ ex \in [Exchanges -> Lived] /\ ex[e] \in Lived
      /\ framing \in Framings /\ messages \in Seq(Said) /\ orderly' \in BOOLEAN
      /\ ex[e].phase = "headed" /\ ex' = [ex EXCEPT ![e] = [ex[e] EXCEPT !.phase = "sent"]]
      /\ framing' = Carried(framing, e, ex[e].id, ex[e].body)
  BY Types DEF PInv, SendBody
<1>2. /\ ex' \in [Exchanges -> Lived] /\ \A o \in Exchanges : o # e => ex'[o] = ex[o]
      /\ ex'[e].phase = "sent" /\ ex'[e].id = ex[e].id
      /\ ex'[e].body = ex[e].body /\ ex'[e].reply = ex[e].reply
  BY <1>1 DEF Lived
<1>3. messages' \in Seq(Said)
  <2>1. Request(e) \in Said
    BY DEF Request, Said
  <2>2. Append(messages, Request(e)) \in Seq(Said)
    BY <2>1, <1>1
  <2> QED BY <2>2, <1>1 DEF SendBody
<1>4. \A o \in Exchanges : ex[o].phase # "unused" => ex'[o].phase # "unused" /\ ex'[o].id = ex[o].id
  BY <1>1, <1>2
<1>5. Lives(ex)'
  <2>1. \A o \in Exchanges : ex[o].id # NoId => ex[o].id \in Exchanges
    BY Types, IdsAreExchanges DEF PInv, Lived, MaybeIds
  <2> QED BY <1>1, <1>2, <1>4, <2>1 DEF PInv, Lives
<1>6. ex[e].id \in MaybeIds /\ (ex[e].body # "request" => ex[e].id = NoId)
  BY <1>1 DEF Lived, PInv, Lives
<1>7. \/ ~setting.partial /\ Headed = Headed' \union {e} /\ e \notin Headed'
      \/ setting.partial /\ Headed = {} /\ Headed' = {} /\ framing.open_bodies = 0 /\ Idle(framing)
  BY <1>1, <1>2 DEF Headed, PInv, Idle
<1>8. framing' \in Framings /\ Sound(framing', Headed', ex) /\ (Idle(framing) => Idle(framing'))
  <2> DEFINE id == ex[e].id
             body == ex[e].body
             c == framing'
             H == Headed'
             x == ex
  <2>1. /\ id \in MaybeIds /\ id = x[e].id /\ (body # "request" => id = NoId)
        /\ c = Carried(framing, e, id, body) /\ e \notin H
        /\ \/ Sound(framing, H \union {e}, x)
           \/ Sound(framing, {}, x) /\ framing.open_bodies = 0 /\ H = {}
    BY <1>1, <1>6, <1>7 DEF PInv
  <2> HIDE DEF id, body, c, H, x
  <2>2. c \in Framings /\ Sound(c, H, x) /\ (Idle(framing) => Idle(c))
    <3>1. DueFor(framing, e, H, x)
      BY <2>1 DEF DueFor
    <3>2. framing \in Framings
      BY <1>1
    <3>3. CameSoundly(framing, c, H, x)
      BY <2>1, <3>1, <3>2, CarriedSound
    <3> QED BY <3>3 DEF CameSoundly
  <2> QED BY <2>2 DEF c, H, x
<1>9. OwnPlaces(framing', ex')
  <2>1. OwnPlaces(framing', ex)
    BY <1>8 DEF Sound
  <2> QED BY <1>4, <2>1, StaysOwn
<1>10. Sound(framing', Headed', ex') /\ Fresh(framing')
  BY <1>8, <1>9 DEF Sound
<1>11. TypeOK'
  BY <1>1, <1>2, <1>3, <1>8, <1>10 DEF TypeOK, Lived, Said, Fresh
<1> QED BY <1>1, <1>5, <1>7, <1>8, <1>10, <1>11 DEF PInv

LEMMA AnsweredSound ==
    ASSUME PInv, NEW e \in Exchanges, NEW reply \in Replies
    PROVE  /\ Answered(e, reply) \in Framings /\ Sound(Answered(e, reply), Headed, ex)
           /\ Idle(framing) => Idle(Answered(e, reply))
<1> DEFINE H == Headed
           began == ResponseBegan(framing, Status(e))
           failed == ResponseBegan(framing, NoSeq)
           id == AnswerId(e, reply)
<1>1. framing \in Framings /\ Sound(framing, H, ex) /\ NoSeq \in MaybeSeqs /\ Status(e) \in MaybeSeqs
  BY Types, EventFacts DEF PInv
<1>2. id \in MaybeIds /\ NoId \in MaybeIds /\ Response(e) \in Seqs /\ Foreign(e) \in Seqs
  BY Types, EventFacts DEF PInv, AnswerId, Lived
<1>a. Answered(e, reply) =
        IF HasResponse(reply) THEN ServerMessage(began, Response(e), id, TRUE)
        ELSE IF reply = "foreign" THEN ServerMessage(began, Foreign(e), NoId, TRUE)
        ELSE IF reply = "failed" THEN failed
        ELSE IF reply = "lost" THEN framing ELSE began
  BY DEF Answered, HasResponse
<1> HIDE DEF H, began, failed, id
<1>3. began \in Framings /\ Sound(began, H, ex) /\ (Idle(framing) => Idle(began))
  BY <1>1, BeganSound DEF began
<1>4. failed \in Framings /\ Sound(failed, H, ex) /\ (Idle(framing) => Idle(failed))
  BY <1>1, BeganSound DEF failed
<1>5. CASE HasResponse(reply)
  <2> DEFINE m == ServerMessage(began, Response(e), id, TRUE)
  <2>1. m \in Framings /\ Sound(m, H, ex) /\ (Idle(began) => Idle(m))
    BY <1>2, <1>3, MessageSound
  <2>2. Answered(e, reply) = m
    BY <1>5, <1>a
  <2> QED BY <2>1, <2>2, <1>3 DEF H
<1>6. CASE reply = "foreign"
  <2> DEFINE m == ServerMessage(began, Foreign(e), NoId, TRUE)
  <2>1. m \in Framings /\ Sound(m, H, ex) /\ (Idle(began) => Idle(m))
    BY <1>2, <1>3, MessageSound
  <2>2. ~HasResponse(reply)
    BY <1>6 DEF HasResponse
  <2>3. Answered(e, reply) = m
    BY <1>6, <1>a, <2>2
  <2> QED BY <2>1, <2>3, <1>3 DEF H
<1>7. CASE ~HasResponse(reply) /\ reply # "foreign"
  BY <1>7, <1>a, <1>1, <1>3, <1>4 DEF H
<1> QED BY <1>5, <1>6, <1>7

\* What a status makes of its exchange.
Came(e, reply) ==
    [ex[e] EXCEPT !.phase = IF reply = "stream" THEN "streaming" ELSE "done",
                  !.reply = reply, !.answered = HasResponse(reply)]

LEMMA ReplyEffect ==
    ASSUME PInv, NEW e \in Exchanges, NEW reply \in Replies, Reply(e, reply)
    PROVE  /\ setting' = setting /\ ex[e].phase = "sent" /\ ex[e].reply = "lost"
           /\ reply \in setting.replies /\ reply \in Fitting(e)
           /\ framing' = Answered(e, reply)
           /\ ex' \in [Exchanges -> Lived] /\ \A o \in Exchanges : o # e => ex'[o] = ex[o]
           /\ ex'[e].phase = (IF reply = "stream" THEN "streaming" ELSE "done")
           /\ ex'[e].reply = reply /\ ex'[e].id = ex[e].id /\ ex'[e].body = ex[e].body
           /\ messages' \in Seq(Said) /\ orderly' \in BOOLEAN
<1>1. /\ ex \in [Exchanges -> Lived] /\ ex[e] \in Lived /\ messages \in Seq(Said)
      /\ ex[e].phase = "sent" /\ ex[e].reply = "lost"
  BY Types DEF PInv, Reply, Lives
<1>2. ex' = [ex EXCEPT ![e] = Came(e, reply)]
  BY <1>1 DEF Reply, Came
<1>3. /\ Came(e, reply) \in Lived
      /\ Came(e, reply).phase = (IF reply = "stream" THEN "streaming" ELSE "done")
      /\ Came(e, reply).reply = reply /\ Came(e, reply).id = ex[e].id
      /\ Came(e, reply).body = ex[e].body
  <2>1. HasResponse(reply) \in BOOLEAN
    BY DEF HasResponse
  <2>2. (IF reply = "stream" THEN "streaming" ELSE "done") \in {"streaming", "done"}
    OBVIOUS
  <2> QED BY <1>1, <2>1, <2>2 DEF Came, Lived
<1>4. messages' \in Seq(Said)
  <2>1. ResponseTo(e) \in Said
    BY DEF ResponseTo, Said
  <2>2. Append(messages, ResponseTo(e)) \in Seq(Said)
    BY <2>1, <1>1
  <2> QED BY <2>2, <1>1 DEF Reply
<1>5. setting' = setting /\ framing' = Answered(e, reply) /\ orderly' \in BOOLEAN
      /\ reply \in setting.replies /\ reply \in Fitting(e)
  BY DEF Reply
<1> HIDE DEF Came
<1> QED BY <1>1, <1>2, <1>3, <1>4, <1>5

LEMMA ReplyPosts ==
    ASSUME PInv, NEW e \in Exchanges, NEW reply \in Replies, Reply(e, reply)
    PROVE  PInv'
<1>1. /\ setting' = setting /\ ex[e].phase = "sent" /\ reply \in setting.replies
      /\ framing' = Answered(e, reply)
      /\ ex' \in [Exchanges -> Lived] /\ \A o \in Exchanges : o # e => ex'[o] = ex[o]
      /\ ex'[e].phase = (IF reply = "stream" THEN "streaming" ELSE "done")
      /\ ex'[e].reply = reply /\ ex'[e].id = ex[e].id /\ ex'[e].body = ex[e].body
      /\ messages' \in Seq(Said) /\ orderly' \in BOOLEAN
  BY ReplyEffect
<1>2. \A o \in Exchanges :
          /\ ex[o].phase # "unused" => ex'[o].phase # "unused" /\ ex'[o].id = ex[o].id
          /\ ex'[o].phase = "headed" <=> ex[o].phase = "headed"
  BY <1>1
<1>3. Lives(ex)'
  <2>1. \A o \in Exchanges : ex[o].id # NoId => ex[o].id \in Exchanges
    BY Types, IdsAreExchanges DEF PInv, Lived, MaybeIds
  <2> QED BY <1>1, <1>2, <2>1 DEF PInv, Lives
<1>4. /\ framing' \in Framings /\ Sound(framing', Headed, ex)
      /\ Idle(framing) => Idle(framing')
  BY <1>1, AnsweredSound
<1> QED BY <1>1, <1>2, <1>3, <1>4, PostsKept

LEMMA StreamOtherPosts ==
    ASSUME PInv, NEW e \in Exchanges, StreamOther(e)
    PROVE  PInv'
<1>1. /\ setting' = setting /\ ex' = ex /\ messages' = messages /\ orderly' = orderly
      /\ framing' = ServerMessage(framing, NoSeq, NoId, FALSE)
  BY DEF StreamOther
<1>2. framing \in Framings /\ ex \in [Exchanges -> Lived] /\ messages \in Seq(Said) /\ orderly \in BOOLEAN
  BY Types DEF PInv
<1>3. /\ framing' \in Framings /\ Sound(framing', Headed, ex)
      /\ Idle(framing) => Idle(framing')
  <2> DEFINE m == ServerMessage(framing, NoSeq, NoId, FALSE)
             H == Headed
  <2>1. Sound(framing, H, ex)
    BY DEF PInv
  <2> HIDE DEF H
  <2>2. m \in Framings /\ Sound(m, H, ex) /\ (Idle(framing) => Idle(m))
    BY <1>2, <2>1, OtherSound
  <2> QED BY <1>1, <2>2 DEF H
<1>4. Lives(ex)'
  BY <1>1 DEF PInv, Lives
<1> QED BY <1>1, <1>2, <1>3, <1>4, PostsKept

LEMMA StreamResponsePosts ==
    ASSUME PInv, NEW e \in Exchanges, NEW to \in Exchanges, StreamResponse(e, to)
    PROVE  PInv'
<1>1. /\ setting' = setting /\ orderly' = orderly
      /\ ex' = [ex EXCEPT ![to] = [ex[to] EXCEPT !.answered = TRUE]]
      /\ framing' = ServerMessage(framing, Response(to), ex[to].id, TRUE)
      /\ messages' = Append(messages, ResponseTo(to))
  BY DEF StreamResponse
<1>2. /\ framing \in Framings /\ ex \in [Exchanges -> Lived] /\ ex[to] \in Lived
      /\ messages \in Seq(Said) /\ orderly \in BOOLEAN
  BY Types DEF PInv
<1>3. /\ ex' \in [Exchanges -> Lived] /\ \A o \in Exchanges : o # to => ex'[o] = ex[o]
      /\ ex'[to].phase = ex[to].phase /\ ex'[to].id = ex[to].id
      /\ ex'[to].reply = ex[to].reply /\ ex'[to].body = ex[to].body
  BY <1>1, <1>2 DEF Lived
<1>4. /\ framing' \in Framings /\ Sound(framing', Headed, ex)
      /\ Idle(framing) => Idle(framing')
  <2> DEFINE id == ex[to].id
             m == ServerMessage(framing, Response(to), id, TRUE)
             H == Headed
  <2>1. Sound(framing, H, ex) /\ id \in MaybeIds /\ Response(to) \in Seqs
    BY <1>2, EventFacts DEF PInv, Lived
  <2> HIDE DEF H, id
  <2>2. m \in Framings /\ Sound(m, H, ex) /\ (Idle(framing) => Idle(m))
    BY <1>2, <2>1, MessageSound
  <2> QED BY <1>1, <2>2 DEF H, id
<1>5. Lives(ex)'
  <2>1. \A o \in Exchanges : ex[o].id # NoId => ex[o].id \in Exchanges
    BY Types, IdsAreExchanges DEF PInv, Lived, MaybeIds
  <2> QED BY <1>1, <1>3, <2>1 DEF PInv, Lives
<1>6. messages' \in Seq(Said)
  <2>1. ResponseTo(to) \in Said
    BY DEF ResponseTo, Said
  <2> QED BY <2>1, <1>1, <1>2
<1>7. \A o \in Exchanges :
          /\ ex[o].phase # "unused" => ex'[o].phase # "unused" /\ ex'[o].id = ex[o].id
          /\ ex'[o].phase = "headed" <=> ex[o].phase = "headed"
  BY <1>3
<1> QED BY <1>1, <1>2, <1>3, <1>4, <1>5, <1>6, <1>7, PostsKept

LEMMA StreamOverPosts ==
    ASSUME PInv, NEW e \in Exchanges, StreamEnds(e) \/ StreamCut(e)
    PROVE  PInv'
<1>1. /\ setting' = setting /\ messages' = messages /\ orderly' \in BOOLEAN
      /\ ex' = [ex EXCEPT ![e] = [ex[e] EXCEPT !.phase = "done"]]
      /\ framing' \in {framing, ResponseBegan(framing, NoSeq)}
      /\ ex[e].phase = "streaming"
  BY Types DEF StreamEnds, StreamCut, PInv
<1>2. /\ framing \in Framings /\ ex \in [Exchanges -> Lived] /\ ex[e] \in Lived
      /\ messages \in Seq(Said)
  BY Types DEF PInv
<1>3. /\ ex' \in [Exchanges -> Lived] /\ \A o \in Exchanges : o # e => ex'[o] = ex[o]
      /\ ex'[e].phase = "done" /\ ex'[e].id = ex[e].id
      /\ ex'[e].reply = ex[e].reply /\ ex'[e].body = ex[e].body
  BY <1>1, <1>2 DEF Lived
<1>4. /\ framing' \in Framings /\ Sound(framing', Headed, ex)
      /\ Idle(framing) => Idle(framing')
  <2> DEFINE r == ResponseBegan(framing, NoSeq)
             H == Headed
  <2>1. Sound(framing, H, ex) /\ NoSeq \in MaybeSeqs
    BY EventFacts DEF PInv
  <2> HIDE DEF H
  <2>2. r \in Framings /\ Sound(r, H, ex) /\ (Idle(framing) => Idle(r))
    BY <1>2, <2>1, BeganSound
  <2> QED BY <1>1, <1>2, <2>1, <2>2 DEF H
<1>5. Lives(ex)'
  <2>1. \A o \in Exchanges : ex[o].id # NoId => ex[o].id \in Exchanges
    BY Types, IdsAreExchanges DEF PInv, Lived, MaybeIds
  <2> QED BY <1>1, <1>3, <2>1 DEF PInv, Lives
<1>7. \A o \in Exchanges :
          /\ ex[o].phase # "unused" => ex'[o].phase # "unused" /\ ex'[o].id = ex[o].id
          /\ ex'[o].phase = "headed" <=> ex[o].phase = "headed"
  BY <1>1, <1>3
<1> QED BY <1>1, <1>2, <1>3, <1>4, <1>5, <1>7, PostsKept

LEMMA NextPosts == PInv /\ [Next]_vars => PInv'
<1> SUFFICES ASSUME PInv, [Next]_vars PROVE PInv'
  OBVIOUS
<1>1. CASE UNCHANGED vars
  BY <1>1 DEF vars, PInv, TypeOK, Lives, Headed
<1>2. ASSUME NEW e \in Exchanges, NEW verb \in setting.verbs, NEW body \in setting.bodies,
             NEW id, Ask(e, verb, body, id)
      PROVE  PInv'
  BY <1>2, AskPosts
<1>3. ASSUME NEW e \in Exchanges, SendBody(e) PROVE PInv'
  BY <1>3, SendBodyPosts
<1>4. ASSUME NEW e \in Exchanges, NEW reply \in Replies, Reply(e, reply) PROVE PInv'
  BY <1>4, ReplyPosts
<1>5. ASSUME NEW e \in Exchanges, StreamOther(e) PROVE PInv'
  BY <1>5, StreamOtherPosts
<1>6. ASSUME NEW e \in Exchanges, NEW to \in Exchanges, StreamResponse(e, to) PROVE PInv'
  BY <1>6, StreamResponsePosts
<1>7. ASSUME NEW e \in Exchanges, StreamEnds(e) \/ StreamCut(e) PROVE PInv'
  BY <1>7, StreamOverPosts
<1> QED BY <1>1, <1>2, <1>3, <1>4, <1>5, <1>6, <1>7 DEF Next

\* The conversation and its framing have their types, and the index of the
\* latest exchange is in range whatever is framed.
THEOREM TypeCorrect == Spec => []TypeOK
<1>1. Init => PInv
  BY InitPosts
<1>2. PInv /\ [Next]_vars => PInv'
  BY NextPosts
<1>3. PInv => TypeOK
  BY DEF PInv
<1> QED BY <1>1, <1>2, <1>3, PTL DEF Spec

\* A message is paired only with the headers it came with, for any number of
\* exchanges that overlap, with streams that are cut and headers that are not
\* recorded (Builder::client_message).
THEOREM PostsTrue == Spec => []PostsAreTrue
<1>1. Init => PInv
  BY InitPosts
<1>2. PInv /\ [Next]_vars => PInv'
  BY NextPosts
<1>3. PInv => PostsAreTrue
  BY DEF PInv, Sound, Paired, Post, PostsAreTrue
<1> QED BY <1>1, <1>2, <1>3, PTL DEF Spec

-----------------------------------------------------------------------------
(* The attributions: what a status and a response are told to belong to. *)

\* A registration replaces that of no exchange that still counts.
LEMMA ClientRegistration ==
    ASSUME NEW f \in Framings, NEW g, NEW e \in Exchanges, NEW x, NEW y,
           \A o \in Exchanges : o # e => y[o] = x[o],
           \A o \in Exchanges : /\ y[o].id \in MaybeIds
                                /\ y[o].body = "request" => y[o].id # NoId,
           y[e].phase \in {"headed", "sent"}, OwnIds(y), Registration(f, x),
           g.requests = IF y[e].phase = "sent" /\ y[e].body = "request"
                        THEN [f.requests EXCEPT ![y[e].id] = [seq |-> Message(e), status |-> NoSeq]]
                        ELSE f.requests
    PROVE  Registration(g, y)
<1> SUFFICES ASSUME NEW o \in Exchanges, y[o].body = "request", ~Spurned(y, o),
                    y[o].phase \in {"sent", "streaming", "done"}
             PROVE  /\ g.requests[y[o].id].seq = Message(o)
                    /\ g.requests[y[o].id].status \in {NoSeq, Status(o)}
  BY DEF Registration
<1>1. f.requests \in [Ids -> [seq: MaybeSeqs, status: MaybeSeqs]]
  BY Fields
<1>2. y[o].id \in Ids /\ y[o].id # NoId
  BY DEF MaybeIds
<1>3. CASE o = e
  <2>1. g.requests = [f.requests EXCEPT ![y[e].id] = [seq |-> Message(e), status |-> NoSeq]]
    BY <1>3
  <2>2. g.requests[y[e].id] = [seq |-> Message(e), status |-> NoSeq]
    BY <1>1, <1>2, <1>3, <2>1
  <2> QED BY <1>3, <2>2
<1>4. CASE o # e
  <2>1. /\ f.requests[y[o].id].seq = Message(o)
        /\ f.requests[y[o].id].status \in {NoSeq, Status(o)}
    BY <1>4 DEF Registration, Spurned
  <2>2. y[e].id # y[o].id
    <3> SUFFICES ASSUME y[e].id = y[o].id PROVE FALSE
      OBVIOUS
    <3>1. ~Spurned(y, e)
      BY DEF Spurned
    <3> QED BY <3>1, <1>2, <1>4 DEF OwnIds
  <2>3. g.requests[y[o].id] = f.requests[y[o].id]
    BY <1>1, <1>2, <2>2
  <2> QED BY <2>1, <2>3
<1> QED BY <1>3, <1>4

\* An exchange's status takes a place, and is told to belong to its own.
LEMMA BeganTrue ==
    ASSUME PInv, Truthful(framing, ex), NEW e \in Exchanges, ex[e].phase = "sent",
           NEW status \in {NoSeq, Status(e)}, NEW r, r = ResponseBegan(framing, status)
    PROVE  /\ r \in Framings /\ Fresh(r)
           /\ ~setting.partial => Len(r.awaiting) = Len(framing.awaiting) - 1
           /\ \A i \in 1 .. Len(r.awaiting) : r.awaiting[i].tainted
           /\ Registration(r, ex) /\ Attributions(r)
           /\ r.fresh_status.owner = "unaccounted" => setting.partial /\ r.fresh_status.seq = Status(e)
           /\ r.fresh_status.owner = "request" => /\ r.fresh_status.seq = Status(e)
                                                  /\ r.fresh_status.request = Message(e)
           /\ \/ r.exchanges = framing.exchanges
              \/ /\ Len(r.exchanges) = Len(framing.exchanges) + 1
                 /\ r.fresh_exchange = Len(r.exchanges)
                 /\ \A i \in 1 .. Len(framing.exchanges) : r.exchanges[i] = framing.exchanges[i]
                 /\ r.exchanges[Len(r.exchanges)].status_seq = Status(e)
<1> DEFINE f == framing
<1>1. /\ f \in Framings /\ status \in MaybeSeqs /\ Sound(f, Headed, ex)
      /\ f.exchanges \in Seq(Ended) /\ Len(f.exchanges) \in Nat /\ f.awaiting \in Seq(Slots)
      /\ Len(f.awaiting) \in Nat
  BY Types, EventFacts, Fields DEF PInv
<1>2. /\ r \in Framings /\ Fresh(r) /\ Began(f, r, status)
      /\ r.statuses = f.statuses /\ r.answers = f.answers
      /\ f.awaiting # <<>> => Advanced(f, r)
      /\ \A i \in 1 .. Len(r.awaiting) : r.awaiting[i].tainted
  <2> HIDE DEF f
  <2>1. r \in Framings /\ Sound(r, Headed, ex)
    BY <1>1, BeganSound DEF f
  <2>2. \A i \in 1 .. Len(r.awaiting) : r.awaiting[i].tainted
    <3> DEFINE H == Headed
    <3>1. Counted(f, H) /\ Behind(f, H) /\ Paired(f) /\ OwnPlaces(f, ex)
      BY <1>1 DEF Sound
    <3> HIDE DEF H
    <3> QED BY <1>1, <3>1, ResponseBeganKeeps DEF f
  <2> QED BY <1>1, <2>1, <2>2, ResponseBeganEffect DEF f, Sound
<1>3. e \in Waiting(ex) /\ (status # NoSeq => status = Status(e))
  BY DEF Waiting, PInv, Lives
<1>4. ~setting.partial => f.awaiting # <<>> /\ Len(r.awaiting) = Len(f.awaiting) - 1
  <2>1. SUFFICES ASSUME ~setting.partial PROVE f.awaiting # <<>>
    BY <1>2 DEF Advanced
  <2>2. IsFiniteSet(Waiting(ex)) /\ Cardinality(Waiting(ex)) <= Len(f.awaiting)
    BY <2>1 DEF Truthful, PlacesSuffice
  <2>3. Cardinality(Waiting(ex)) # 0
    BY <1>3, <2>2, FS_EmptySet
  <2>4. Cardinality(Waiting(ex)) \in Nat
    BY <2>2, FS_CardinalityType
  <2> QED BY <2>2, <2>3, <2>4, <1>1
<1>5. CASE Passed(f, r)
  <2>1. Registration(r, ex) /\ Attributions(r)
    BY <1>2, <1>5 DEF Truthful, Passed, Registration, Attributions
  <2> QED BY <1>2, <1>4, <1>5, <2>1 DEF Passed
<1>6. ASSUME NEW request, NEW carried, Pushed(f, r, request, carried, Status(e)),
             request # NoSeq => request = Http(e) /\ carried \in {NoSeq, Message(e)}
      PROVE  /\ Attributions(r)
             /\ Len(r.exchanges) = Len(f.exchanges) + 1
             /\ r.fresh_exchange = Len(r.exchanges)
             /\ \A i \in 1 .. Len(f.exchanges) : r.exchanges[i] = f.exchanges[i]
             /\ r.exchanges[Len(r.exchanges)].status_seq = Status(e)
  <2> DEFINE n == Len(f.exchanges)
             entry == [request |-> request, carried |-> carried,
                       status_seq |-> Status(e), framed_response |-> FALSE]
  <2>1. r.exchanges = Append(f.exchanges, entry) /\ r.fresh_exchange = n + 1
    BY <1>6 DEF Pushed
  <2>2. /\ entry.request = request /\ entry.carried = carried /\ entry.status_seq = Status(e)
    OBVIOUS
  <2> HIDE DEF entry
  <2>3. /\ Len(r.exchanges) = n + 1 /\ r.exchanges[n + 1] = entry
        /\ \A i \in 1 .. n : r.exchanges[i] = f.exchanges[i]
    BY <1>1, <2>1
  <2>4. \A i \in 1 .. n + 1 : r.exchanges[i].request # NoSeq =>
            \E g \in Exchanges : /\ r.exchanges[i].status_seq = Status(g)
                                 /\ r.exchanges[i].request = Http(g)
                                 /\ r.exchanges[i].carried \in {NoSeq, Message(g)}
    <3> SUFFICES ASSUME NEW i \in 1 .. n + 1, r.exchanges[i].request # NoSeq
                 PROVE  \E g \in Exchanges : /\ r.exchanges[i].status_seq = Status(g)
                                             /\ r.exchanges[i].request = Http(g)
                                             /\ r.exchanges[i].carried \in {NoSeq, Message(g)}
      OBVIOUS
    <3>1. CASE i = n + 1
      BY <1>6, <2>2, <2>3, <3>1
    <3>2. CASE i \in 1 .. n
      BY <2>3, <3>2 DEF Truthful, Attributions
    <3> QED BY <1>1, <3>1, <3>2
  <2>5. Attributions(r)
    BY <1>2, <2>3, <2>4 DEF Truthful, Attributions
  <2> QED BY <2>1, <2>2, <2>3, <2>5
<1>7. CASE status # NoSeq /\ f.awaiting = <<>> /\ Unclaimed(f, r, status)
  <2>1. status = Status(e) /\ setting.partial
    BY <1>3, <1>4, <1>7
  <2>2. Registration(r, ex)
    BY <1>7 DEF Truthful, Unclaimed, Registration
  <2>3. r.fresh_status = [seq |-> Status(e), owner |-> "unaccounted", request |-> NoSeq]
        /\ Pushed(f, r, NoSeq, NoSeq, Status(e))
    BY <1>7, <2>1 DEF Unclaimed
  <2>4. /\ Attributions(r)
        /\ Len(r.exchanges) = Len(f.exchanges) + 1
        /\ r.fresh_exchange = Len(r.exchanges)
        /\ \A i \in 1 .. Len(f.exchanges) : r.exchanges[i] = f.exchanges[i]
        /\ r.exchanges[Len(r.exchanges)].status_seq = Status(e)
    BY <1>6, <2>3
  <2>5. /\ r.fresh_status.owner = "unaccounted" /\ r.fresh_status.seq = Status(e)
    BY <2>3
  <2> QED BY <1>2, <2>1, <2>2, <2>4, <2>5
<1>8. CASE /\ status # NoSeq /\ f.awaiting # <<>>
           /\ ~(Len(f.awaiting) > 1 \/ f.awaiting[1].tainted) /\ Claimed(f, r, status)
  <2> DEFINE slot == f.awaiting[1]
  <2>1. status = Status(e) /\ ~setting.partial /\ Len(f.awaiting) = 1 /\ slot \in Slots
    <3>1. Len(f.awaiting) # 0
      BY <1>1, <1>8
    <3>2. ~setting.partial
      BY <1>8 DEF PInv, Idle
    <3>3. Len(f.awaiting) = 1
      <4> DEFINE n == Len(f.awaiting)
      <4>1. ~(n > 1) /\ n \in Nat /\ n # 0
        BY <1>1, <1>8, <3>1
      <4> HIDE DEF n
      <4>2. n = 1
        BY <4>1
      <4> QED BY <4>2 DEF n
    <3>4. slot \in Slots
      BY <1>1, <3>3, ElementOfSeq
    <3> QED BY <1>3, <1>8, <3>2, <3>3, <3>4
  <2>2. PICK g \in Waiting(ex) : slot.seq = Http(g)
    BY <1>8, <2>1 DEF Truthful, Untainted
  <2>3. g = e
    <3>1. IsFiniteSet(Waiting(ex)) /\ Cardinality(Waiting(ex)) <= 1
      BY <2>1 DEF Truthful, PlacesSuffice
    <3>2. Cardinality(Waiting(ex)) # 0 /\ Cardinality(Waiting(ex)) \in Nat
      BY <1>3, <3>1, FS_EmptySet, FS_CardinalityType
    <3>3. Cardinality(Waiting(ex)) = 1
      BY <3>1, <3>2
    <3>4. \E o : Waiting(ex) = {o}
      BY <3>1, <3>3, FS_Singleton
    <3> QED BY <1>3, <3>4
  <2>4. slot.seq = Http(e)
        /\ (slot.request = NoSeq \/ (slot.request = Message(e) /\ slot.id = ex[e].id))
    <3>1. OwnPlaces(f, ex)
      BY <1>1 DEF Sound
    <3>2. PICK o \in Exchanges : /\ slot.seq = Http(o)
                                 /\ \/ slot.request = NoSeq
                                    \/ slot.request = Message(o) /\ slot.id = ex[o].id
      BY <2>1, <3>1 DEF OwnPlaces
    <3> QED BY <2>2, <2>3, <3>2, EventFacts
  <2>5. /\ r.fresh_status = [seq |-> Status(e),
                             owner |-> IF slot.request = NoSeq THEN "unknown" ELSE "request",
                             request |-> slot.request]
        /\ Pushed(f, r, slot.seq, slot.request, Status(e))
        /\ r.requests = IF slot.request # NoSeq /\ slot.id # NoId
                           /\ f.requests[slot.id].seq = slot.request
                        THEN [f.requests EXCEPT ![slot.id].status = Status(e)] ELSE f.requests
    BY <1>8, <2>1 DEF Claimed
  <2> HIDE DEF slot
  <2>6. Registration(r, ex)
    <3> SUFFICES ASSUME NEW o \in Exchanges, ex[o].body = "request", ~Spurned(ex, o),
                        ex[o].phase \in {"sent", "streaming", "done"}
                 PROVE  /\ r.requests[ex[o].id].seq = Message(o)
                        /\ r.requests[ex[o].id].status \in {NoSeq, Status(o)}
      BY DEF Registration
    <3>1. /\ f.requests[ex[o].id].seq = Message(o)
          /\ f.requests[ex[o].id].status \in {NoSeq, Status(o)}
      BY DEF Truthful, Registration
    <3>2. CASE r.requests = f.requests
      BY <3>1, <3>2
    <3>3. CASE /\ r.requests = [f.requests EXCEPT ![slot.id].status = Status(e)]
               /\ slot.request # NoSeq /\ slot.id # NoId /\ f.requests[slot.id].seq = slot.request
      <4>1. f.requests \in [Ids -> [seq: MaybeSeqs, status: MaybeSeqs]] /\ slot.id \in Ids
        BY <1>1, <2>1, <3>3, Fields DEF Slots, MaybeIds
      <4>2. ex[o].id \in Ids
        BY Types DEF PInv, Lives, Lived, MaybeIds
      <4>3. CASE ex[o].id = slot.id
        <5>1. Message(o) = Message(e)
          BY <2>4, <3>1, <3>3, <4>3
        <5>2. o = e
          BY <5>1, EventFacts
        <5>3. r.requests[slot.id] = [f.requests[slot.id] EXCEPT !.status = Status(e)]
          BY <3>3, <4>1
        <5>4. r.requests[slot.id].seq = f.requests[slot.id].seq /\ r.requests[slot.id].status = Status(e)
          BY <5>3, <4>1
        <5> QED BY <3>1, <4>3, <5>2, <5>4
      <4>4. CASE ex[o].id # slot.id
        <5>1. r.requests[ex[o].id] = f.requests[ex[o].id]
          BY <3>3, <4>1, <4>2, <4>4
        <5> QED BY <3>1, <5>1
      <4> QED BY <4>3, <4>4
    <3> QED BY <2>5, <3>2, <3>3
  <2>7. slot.request # NoSeq => slot.request = Message(e)
    BY <2>4
  <2>8. r.fresh_status.owner # "unaccounted"
        /\ (r.fresh_status.owner = "request" => /\ r.fresh_status.seq = Status(e)
                                                /\ r.fresh_status.request = Message(e))
    BY <2>5, <2>7
  <2>9. slot.seq = Http(e) /\ slot.request \in {NoSeq, Message(e)}
    BY <2>4
  <2> QED BY <1>2, <1>4, <1>6, <2>5, <2>6, <2>8, <2>9
<1> QED BY <1>2, <1>5, <1>7, <1>8 DEF Began

\* A response rides its own exchange's status.
LEMMA SaidTrue ==
    ASSUME NEW r \in Framings, Fresh(r), Attributions(r), NEW e \in Exchanges,
           NEW seq \in {Response(e), Foreign(e)}, NEW id \in MaybeIds,
           id # NoId => r.requests[id].status \in {NoSeq, Status(e)},
           id # NoId /\ r.fresh_status.owner = "unaccounted" => r.fresh_status.seq = Status(e),
           id = NoId /\ r.fresh_status.owner = "request" =>
               r.fresh_status.seq = Status(e) /\ r.fresh_status.request = Message(e),
           NEW m, m = ServerMessage(r, seq, id, TRUE)
    PROVE  /\ m \in Framings /\ Told(r, m) /\ Attributions(m)
           /\ m.fresh_status.owner = "none"
           /\ r.fresh_exchange # 0 => m.exchanges[r.fresh_exchange].framed_response
<1>1. /\ m \in Framings /\ Told(r, m) /\ Tied(r, m, seq, id)
      /\ r.fresh_exchange # 0 => m.exchanges[r.fresh_exchange].framed_response
  <2>1. seq \in Seqs
    BY EventFacts
  <2> QED BY <2>1, ServerMessageEffect
<1>2. \A i \in 1 .. Len(m.exchanges) : m.exchanges[i].request # NoSeq =>
          \E g \in Exchanges : /\ m.exchanges[i].status_seq = Status(g)
                               /\ m.exchanges[i].request = Http(g)
                               /\ m.exchanges[i].carried \in {NoSeq, Message(g)}
  <2> SUFFICES ASSUME NEW i \in 1 .. Len(r.exchanges), m.exchanges[i].request # NoSeq
               PROVE  \E g \in Exchanges : /\ m.exchanges[i].status_seq = Status(g)
                                           /\ m.exchanges[i].request = Http(g)
                                           /\ m.exchanges[i].carried \in {NoSeq, Message(g)}
    <3>1. Len(m.exchanges) = Len(r.exchanges)
      BY <1>1 DEF Told
    <3> QED BY <3>1
  <2>1. /\ m.exchanges[i].request = r.exchanges[i].request
        /\ m.exchanges[i].carried = r.exchanges[i].carried
        /\ m.exchanges[i].status_seq = r.exchanges[i].status_seq
    BY <1>1 DEF Told
  <2>2. PICK g \in Exchanges : /\ r.exchanges[i].status_seq = Status(g)
                               /\ r.exchanges[i].request = Http(g)
                               /\ r.exchanges[i].carried \in {NoSeq, Message(g)}
    BY <2>1 DEF Attributions
  <2> QED BY <2>1, <2>2
<1>3. \A t \in m.statuses : \E g \in Exchanges :
          t \in {<<Response(g), Status(g)>>, <<Foreign(g), Status(g)>>}
  <2> SUFFICES ASSUME NEW t \in m.statuses, t \notin r.statuses
               PROVE  t \in {<<Response(e), Status(e)>>, <<Foreign(e), Status(e)>>}
    BY DEF Attributions
  <2>1. PICK status : t = <<seq, status>> /\ Rides(r, id, status)
    BY <1>1 DEF Tied
  <2>2. status = Status(e)
    BY <2>1 DEF Rides
  <2> QED BY <2>1, <2>2
<1>4. \A t \in m.answers : \E g \in Exchanges :
          t \in {<<Response(g), Message(g)>>, <<Foreign(g), Message(g)>>}
  <2> SUFFICES ASSUME NEW t \in m.answers, t \notin r.answers
               PROVE  t \in {<<Response(e), Message(e)>>, <<Foreign(e), Message(e)>>}
    BY DEF Attributions
  <2> QED BY <1>1 DEF Tied
<1>5. m.fresh_status.owner = "none"
  <2>1. m.fresh_status = NoStatus
    BY <1>1 DEF Told
  <2> QED BY <2>1, NoStatusIsNone
<1> QED BY <1>1, <1>2, <1>3, <1>4, <1>5 DEF Attributions

\* What a step that moves no place and registers nothing leaves true.
Still(x, y) ==
    \A o \in Exchanges :
        /\ y[o].id = x[o].id /\ y[o].body = x[o].body /\ y[o].reply = x[o].reply
        /\ y[o].phase # "unused" <=> x[o].phase # "unused"
        /\ x[o].phase \in {"streaming", "done"} => y[o].phase \in {"streaming", "done"}
        /\ y[o].phase \in {"sent", "streaming", "done"}
               => x[o].phase \in {"sent", "streaming", "done"}
        /\ Spurned(x, o) => Spurned(y, o)

LEMMA TruthKept ==
    ASSUME NEW f, NEW x, Truthful(f, x), NEW g,
           g.awaiting = f.awaiting, g.requests = f.requests,
           g.fresh_status.owner = "unaccounted" => setting.partial, Attributions(g),
           Len(g.exchanges) = Len(f.exchanges),
           \A i \in 1 .. Len(f.exchanges) :
               /\ g.exchanges[i].status_seq = f.exchanges[i].status_seq
               /\ f.exchanges[i].framed_response => g.exchanges[i].framed_response,
           NEW y, Still(x, y)
    PROVE  Truthful(g, y)
<1>1. Waiting(y) = Waiting(x)
  BY DEF Waiting, Still
<1>2. PlacesSuffice(g, y) /\ Untainted(g, y)
  BY <1>1 DEF Truthful, PlacesSuffice, Untainted
<1>3. OwnIds(y)
  BY DEF Truthful, OwnIds, Still
<1>4. Registration(g, y)
  BY DEF Truthful, Registration, Still
<1>5. DeniedIsFramed(g, y)
  <2> SUFFICES ASSUME NEW i \in 1 .. Len(f.exchanges)
               PROVE  \E e \in Exchanges :
                        /\ g.exchanges[i].status_seq = Status(e) /\ y[e].phase \in {"streaming", "done"}
                        /\ y[e].reply = "denied" => g.exchanges[i].framed_response
    BY DEF DeniedIsFramed
  <2>1. PICK e \in Exchanges :
            /\ f.exchanges[i].status_seq = Status(e) /\ x[e].phase \in {"streaming", "done"}
            /\ x[e].reply = "denied" => f.exchanges[i].framed_response
    BY DEF Truthful, DeniedIsFramed
  <2> QED BY <2>1 DEF Still
<1> QED BY <1>2, <1>3, <1>4, <1>5 DEF Truthful

\* What a client's step leaves true, when the places suffice.
Unheard(f, g) ==
    /\ g.exchanges = f.exchanges /\ g.statuses = f.statuses /\ g.answers = f.answers
    /\ g.fresh_status = f.fresh_status

LEMMA ClientTruth ==
    ASSUME NEW f \in Framings, NEW x, Truthful(f, x), NEW g, NEW e \in Exchanges, NEW y,
           \A o \in Exchanges : o # e => y[o] = x[o],
           \A o \in Exchanges : /\ y[o].id \in MaybeIds
                                /\ y[o].body = "request" => y[o].id # NoId,
           x[e].phase \in {"unused", "headed"}, y[e].phase \in {"headed", "sent"}, OwnIds(y),
           g.requests = IF y[e].phase = "sent" /\ y[e].body = "request"
                        THEN [f.requests EXCEPT ![y[e].id] = [seq |-> Message(e), status |-> NoSeq]]
                        ELSE f.requests,
           Unheard(f, g), PlacesSuffice(g, y), Untainted(g, y)
    PROVE  Truthful(g, y)
<1>1. Registration(g, y)
  BY ClientRegistration DEF Truthful
<1>2. DeniedIsFramed(g, y)
  <2> SUFFICES ASSUME NEW i \in 1 .. Len(f.exchanges)
               PROVE  \E o \in Exchanges :
                        /\ f.exchanges[i].status_seq = Status(o) /\ y[o].phase \in {"streaming", "done"}
                        /\ y[o].reply = "denied" => f.exchanges[i].framed_response
    BY DEF DeniedIsFramed, Unheard
  <2>1. PICK o \in Exchanges :
            /\ f.exchanges[i].status_seq = Status(o) /\ x[o].phase \in {"streaming", "done"}
            /\ x[o].reply = "denied" => f.exchanges[i].framed_response
    BY DEF Truthful, DeniedIsFramed
  <2> QED BY <2>1
<1>3. Attributions(g) /\ (g.fresh_status.owner = "unaccounted" => setting.partial)
  BY DEF Truthful, Attributions, Unheard
<1> QED BY <1>1, <1>2, <1>3 DEF Truthful

\* c is f after the message of e came.
CarriedFrom(f, c, e, id, body) ==
    /\ Unheard(f, c) /\ Len(c.awaiting) = Len(f.awaiting)
    /\ \A i \in 1 .. Len(f.awaiting) : /\ c.awaiting[i].seq = f.awaiting[i].seq
                                       /\ c.awaiting[i].tainted = f.awaiting[i].tainted
    /\ c.requests = IF body = "request"
                    THEN [f.requests EXCEPT ![id] = [seq |-> Message(e), status |-> NoSeq]]
                    ELSE f.requests

LEMMA CarriedEffect ==
    ASSUME NEW f \in Framings, NEW e \in Exchanges, NEW id \in MaybeIds, NEW body,
           body = "request" <=> id # NoId, NEW c, c = Carried(f, e, id, body)
    PROVE  CarriedFrom(f, c, e, id, body)
<1> DEFINE q == body = "request"
<1>1. c = ClientMessage(f, Message(e), id, q) /\ q \in BOOLEAN
  BY DEF Carried
<1>2. q <=> body = "request"
  OBVIOUS
<1> HIDE DEF q
<1>3. Heard(f, c, Message(e), id, q)
  BY <1>1, ClientMessageEffect
<1> QED BY <1>2, <1>3 DEF Heard, Unheard, CarriedFrom

LEMMA AskFraming ==
    ASSUME PInv, NEW e \in Exchanges, NEW verb \in setting.verbs, NEW body \in setting.bodies,
           NEW id, Ask(e, verb, body, id)
    PROVE  /\ Unheard(framing, framing')
           /\ framing'.requests =
                IF ex'[e].phase = "sent" /\ body = "request"
                THEN [framing.requests EXCEPT ![id] = [seq |-> Message(e), status |-> NoSeq]]
                ELSE framing.requests
           /\ ~setting.partial =>
                /\ Len(framing'.awaiting) = Len(framing.awaiting) + 1
                /\ \A i \in 1 .. Len(framing.awaiting) :
                       /\ framing'.awaiting[i].seq = framing.awaiting[i].seq
                       /\ framing'.awaiting[i].tainted = framing.awaiting[i].tainted
                /\ framing'.awaiting[Len(framing.awaiting) + 1].seq = Http(e)
<1> DEFINE message == RecordsMessage(body) /\ ~setting.apart
           headed == IF setting.partial THEN framing
                     ELSE Requested(framing, Http(e), verb = "POST")
<1>1. /\ verb \in {"POST", "GET"} /\ id \in MaybeIds /\ (id # NoId <=> body = "request")
      /\ framing \in Framings /\ framing.awaiting \in Seq(Slots) /\ Len(framing.awaiting) \in Nat
  BY AskEffect, Types, Fields DEF PInv
<1>2. framing' = IF message THEN Carried(headed, e, id, body) ELSE headed
  BY DEF Ask
<1>3. ex'[e].phase = IF message \/ body = "none" THEN "sent" ELSE "headed"
  BY Types DEF Ask, PInv, Lived
<1>4. message => body # "none"
  BY DEF RecordsMessage
<1>5. /\ headed \in Framings /\ Unheard(framing, headed) /\ headed.requests = framing.requests
      /\ ~setting.partial =>
           /\ Len(headed.awaiting) = Len(framing.awaiting) + 1
           /\ \A i \in 1 .. Len(framing.awaiting) : headed.awaiting[i] = framing.awaiting[i]
           /\ headed.awaiting[Len(framing.awaiting) + 1].seq = Http(e)
  <2>1. CASE setting.partial
    BY <2>1, <1>1 DEF Unheard
  <2>2. CASE ~setting.partial
    <3> DEFINE b == verb = "POST"
               s == Slot(Http(e), b)
               n == Len(framing.awaiting)
    <3>1. headed = Requested(framing, Http(e), b) /\ b \in BOOLEAN /\ s.seq = Http(e)
      BY <2>2 DEF Slot
    <3> HIDE DEF b, s, headed
    <3>2. /\ headed \in Framings /\ Unheard(framing, headed) /\ headed.requests = framing.requests
          /\ headed.awaiting = Append(framing.awaiting, s)
      BY <1>1, <3>1, RequestedEffect DEF Unheard, s
    <3>3. /\ Len(headed.awaiting) = n + 1 /\ headed.awaiting[n + 1] = s
          /\ \A i \in 1 .. n : headed.awaiting[i] = framing.awaiting[i]
      BY <1>1, <3>2
    <3> QED BY <3>1, <3>2, <3>3
  <2> QED BY <2>1, <2>2
<1> HIDE DEF message, headed
<1>6. CASE message
  <2> DEFINE c == framing'
  <2>1. c = Carried(headed, e, id, body)
    BY <1>2, <1>6
  <2> HIDE DEF c
  <2>2. /\ Unheard(headed, c) /\ Len(c.awaiting) = Len(headed.awaiting)
        /\ \A i \in 1 .. Len(headed.awaiting) : /\ c.awaiting[i].seq = headed.awaiting[i].seq
                                                /\ c.awaiting[i].tainted = headed.awaiting[i].tainted
        /\ c.requests = IF body = "request"
                        THEN [headed.requests EXCEPT ![id] = [seq |-> Message(e), status |-> NoSeq]]
                        ELSE headed.requests
    <3>1. CarriedFrom(headed, c, e, id, body)
      BY <1>1, <1>5, <2>1, CarriedEffect
    <3> QED BY <3>1 DEF CarriedFrom
  <2>3. Unheard(framing, c)
    BY <1>5, <2>2 DEF Unheard
  <2>4. c.requests = IF ex'[e].phase = "sent" /\ body = "request"
                     THEN [framing.requests EXCEPT ![id] = [seq |-> Message(e), status |-> NoSeq]]
                     ELSE framing.requests
    BY <1>3, <1>5, <1>6, <2>2
  <2>5. ~setting.partial =>
            /\ Len(c.awaiting) = Len(framing.awaiting) + 1
            /\ \A i \in 1 .. Len(framing.awaiting) :
                   /\ c.awaiting[i].seq = framing.awaiting[i].seq
                   /\ c.awaiting[i].tainted = framing.awaiting[i].tainted
            /\ c.awaiting[Len(framing.awaiting) + 1].seq = Http(e)
    <3> DEFINE n == Len(framing.awaiting)
    <3>1. \A i \in 1 .. n : i \in 1 .. n + 1
      BY <1>1
    <3>2. n + 1 \in 1 .. n + 1
      BY <1>1
    <3> HIDE DEF n
    <3> QED BY <1>5, <2>2, <3>1, <3>2 DEF n
  <2> QED BY <2>3, <2>4, <2>5 DEF c
<1>7. CASE ~message
  BY <1>2, <1>3, <1>5, <1>7
<1> QED BY <1>6, <1>7

LEMMA AskTrue ==
    ASSUME PInv, Truthful(framing, ex), NEW e \in Exchanges,
           NEW verb \in setting.verbs, NEW body \in setting.bodies, NEW id, Ask(e, verb, body, id)
    PROVE  Truthful(framing, ex)'
<1> DEFINE f == framing
           g == framing'
           x == ex
           y == ex'
           n == Len(f.awaiting)
<1>1. /\ setting' = setting /\ x[e].phase = "unused"
      /\ id \in MaybeIds /\ (id # NoId <=> body = "request")
      /\ y[e].phase \in {"sent", "headed"}
      /\ y[e].id = id /\ y[e].body = body /\ y[e].reply = "lost"
      /\ \A o \in Exchanges : o # e => y[o] = x[o]
      /\ id # NoId => id \in FreshIds(e)
  BY AskEffect
<1>2. /\ f \in Framings /\ n \in Nat /\ PInv'
      /\ \A o \in Exchanges : x[o].id \in MaybeIds
  BY Types, Fields, AskPosts DEF PInv, Lived
<1>3. /\ Unheard(f, g)
      /\ g.requests = IF y[e].phase = "sent" /\ body = "request"
                      THEN [f.requests EXCEPT ![id] = [seq |-> Message(e), status |-> NoSeq]]
                      ELSE f.requests
      /\ ~setting.partial =>
           /\ Len(g.awaiting) = n + 1
           /\ \A i \in 1 .. n : /\ g.awaiting[i].seq = f.awaiting[i].seq
                                /\ g.awaiting[i].tainted = f.awaiting[i].tainted
           /\ g.awaiting[n + 1].seq = Http(e)
  BY AskFraming
<1>4. \A o \in Exchanges : /\ y[o].id \in MaybeIds
                           /\ y[o].body = "request" => y[o].id # NoId
  BY <1>1, <1>2 DEF PInv, Lives
<1>5. Waiting(y) = Waiting(x) \union {e} /\ e \notin Waiting(x)
  BY <1>1 DEF Waiting
<1>6. PlacesSuffice(g, y)
  <2> SUFFICES ASSUME ~setting.partial
               PROVE  IsFiniteSet(Waiting(y)) /\ Cardinality(Waiting(y)) <= Len(g.awaiting)
    BY DEF PlacesSuffice
  <2>1. IsFiniteSet(Waiting(x)) /\ Cardinality(Waiting(x)) <= n
    BY DEF Truthful, PlacesSuffice
  <2>2. IsFiniteSet(Waiting(y)) /\ Cardinality(Waiting(y)) = Cardinality(Waiting(x)) + 1
    BY <1>5, <2>1, FS_AddElement
  <2>3. Cardinality(Waiting(x)) \in Nat
    BY <2>1, FS_CardinalityType
  <2> QED BY <1>2, <1>3, <2>1, <2>2, <2>3
<1>7. Untainted(g, y)
  <2>1. CASE setting.partial
    <3>1. g.awaiting = <<>>
      BY <1>1, <1>2, <2>1 DEF PInv, Idle
    <3>2. Len(g.awaiting) = 0
      BY <3>1
    <3> QED BY <3>2 DEF Untainted
  <2>2. CASE ~setting.partial
    <3> SUFFICES ASSUME NEW i \in 1 .. n + 1, ~g.awaiting[i].tainted
                 PROVE  \E o \in Waiting(y) : g.awaiting[i].seq = Http(o)
      BY <1>3, <2>2 DEF Untainted
    <3>1. CASE i = n + 1
      BY <1>3, <1>5, <2>2, <3>1
    <3>2. CASE i \in 1 .. n
      <4>1. ~f.awaiting[i].tainted /\ g.awaiting[i].seq = f.awaiting[i].seq
        BY <1>3, <2>2, <3>2
      <4>2. PICK o \in Waiting(x) : f.awaiting[i].seq = Http(o)
        BY <3>2, <4>1 DEF Truthful, Untainted
      <4> QED BY <1>5, <4>1, <4>2
    <3> QED BY <1>2, <3>1, <3>2
  <2> QED BY <2>1, <2>2
<1>8. OwnIds(y)
  <2>1. ASSUME NEW o \in Exchanges, o # e, id # NoId, x[o].id = id
        PROVE  Spurned(y, o)
    <3>1. CASE id = e
      <4>1. x[x[o].id].phase # "unused"
        BY <2>1 DEF PInv, Lives
      <4> QED BY <1>1, <2>1, <3>1, <4>1
    <3>2. CASE id # e
      <4>1. Refused(o)
        BY <1>1, <2>1, <3>2 DEF FreshIds
      <4> QED BY <1>1, <2>1, <4>1 DEF Refused, Spurned
    <3> QED BY <3>1, <3>2
  <2>2. ASSUME NEW o \in Exchanges, NEW p \in Exchanges, o # e, p # e,
               y[o].id # NoId, y[o].id = y[p].id, o # p
        PROVE  Spurned(y, o) \/ Spurned(y, p)
    BY <1>1, <2>2 DEF Truthful, OwnIds, Spurned
  <2> QED BY <1>1, <2>1, <2>2 DEF OwnIds
<1> HIDE DEF f, g, x, y
<1>9. Truthful(g, y)
  <2>1. Truthful(f, x)
    BY DEF f, x
  <2>2. x[e].phase \in {"unused", "headed"} /\ y[e].phase \in {"headed", "sent"}
    BY <1>1
  <2>3. g.requests = IF y[e].phase = "sent" /\ y[e].body = "request"
                     THEN [f.requests EXCEPT ![y[e].id] = [seq |-> Message(e), status |-> NoSeq]]
                     ELSE f.requests
    BY <1>1, <1>3
  <2>4. \A o \in Exchanges : o # e => y[o] = x[o]
    BY <1>1
  <2>5. Unheard(f, g)
    BY <1>3
  <2> QED BY <1>2, <1>4, <1>6, <1>7, <1>8, <2>1, <2>2, <2>3, <2>4, <2>5, ClientTruth
<1> QED BY <1>1, <1>9 DEF g, y, Truthful, PlacesSuffice

LEMMA SendBodyTrue ==
    ASSUME PInv, Truthful(framing, ex), NEW e \in Exchanges, SendBody(e)
    PROVE  Truthful(framing, ex)'
<1> DEFINE f == framing
           g == framing'
           x == ex
           y == ex'
           id == ex[e].id
           body == ex[e].body
<1>1. /\ setting' = setting /\ x \in [Exchanges -> Lived] /\ x[e].phase = "headed"
      /\ y = [x EXCEPT ![e] = [x[e] EXCEPT !.phase = "sent"]]
      /\ g = Carried(f, e, id, body) /\ f \in Framings
      /\ \A o \in Exchanges : x[o] \in Lived
  BY Types DEF PInv, SendBody
<1>2. /\ \A o \in Exchanges : o # e => y[o] = x[o]
      /\ y[e].phase = "sent" /\ y[e].id = id /\ y[e].body = body /\ y[e].reply = x[e].reply
  BY <1>1 DEF Lived
<1>3. \A o \in Exchanges : /\ x[o].id \in MaybeIds /\ (x[o].body = "request" <=> x[o].id # NoId)
                           /\ y[o].id = x[o].id /\ y[o].body = x[o].body
  BY <1>1, <1>2 DEF Lived, PInv, Lives
<1> HIDE DEF id, body, g
<1>4. /\ Unheard(f, g) /\ Len(g.awaiting) = Len(f.awaiting)
      /\ \A i \in 1 .. Len(f.awaiting) : /\ g.awaiting[i].seq = f.awaiting[i].seq
                                         /\ g.awaiting[i].tainted = f.awaiting[i].tainted
      /\ g.requests = IF body = "request"
                      THEN [f.requests EXCEPT ![id] = [seq |-> Message(e), status |-> NoSeq]]
                      ELSE f.requests
  <2>1. id \in MaybeIds /\ (body = "request" <=> id # NoId)
    BY <1>3 DEF id, body
  <2> HIDE DEF f
  <2>2. CarriedFrom(f, g, e, id, body)
    BY <1>1, <2>1, CarriedEffect
  <2> QED BY <2>2 DEF CarriedFrom
<1>5. Waiting(y) = Waiting(x)
  BY <1>1, <1>2 DEF Waiting
<1>6. PlacesSuffice(g, y) /\ Untainted(g, y)
  BY <1>4, <1>5 DEF Truthful, PlacesSuffice, Untainted
<1>7. OwnIds(y)
  BY <1>1, <1>2, <1>3 DEF Truthful, OwnIds, Spurned
<1> HIDE DEF f, x, y
<1>8. Truthful(g, y)
  <2>1. Truthful(f, x)
    BY DEF f, x
  <2>2. x[e].phase \in {"unused", "headed"} /\ y[e].phase \in {"headed", "sent"}
    BY <1>1, <1>2
  <2>3. g.requests = IF y[e].phase = "sent" /\ y[e].body = "request"
                     THEN [f.requests EXCEPT ![y[e].id] = [seq |-> Message(e), status |-> NoSeq]]
                     ELSE f.requests
    BY <1>2, <1>4
  <2>4. \A o \in Exchanges : o # e => y[o] = x[o]
    BY <1>2
  <2>5. \A o \in Exchanges : /\ y[o].id \in MaybeIds
                             /\ y[o].body = "request" => y[o].id # NoId
    BY <1>3
  <2>6. Unheard(f, g) /\ f \in Framings
    BY <1>1, <1>4
  <2> QED BY <1>6, <1>7, <2>1, <2>2, <2>3, <2>4, <2>5, <2>6, ClientTruth
<1> QED BY <1>1, <1>8 DEF g, y, Truthful, PlacesSuffice

\* What an answer leaves true: it takes a place of those that wait.
LEMMA AnswerTruth ==
    ASSUME PInv, Truthful(framing, ex), NEW e \in Exchanges, ex[e].phase = "sent",
           NEW r \in Framings, NEW g, NEW y,
           \A o \in Exchanges : o # e => y[o] = ex[o],
           y[e].id = ex[e].id, y[e].body = ex[e].body, y[e].reply # "lost",
           y[e].phase \in {"streaming", "done"},
           ~setting.partial => Len(r.awaiting) = Len(framing.awaiting) - 1,
           \A i \in 1 .. Len(r.awaiting) : r.awaiting[i].tainted,
           Registration(r, ex),
           g.awaiting = r.awaiting, g.requests = r.requests,
           g.fresh_status.owner = "unaccounted" => setting.partial,
           Attributions(g), DeniedIsFramed(g, y)
    PROVE  Truthful(g, y)
<1> DEFINE x == ex
           f == framing
<1>1. ex[e].reply = "lost" /\ framing \in Framings
  BY Types DEF PInv, Lives
<1>2. PlacesSuffice(g, y)
  <2> SUFFICES ASSUME ~setting.partial
               PROVE  IsFiniteSet(Waiting(y)) /\ Cardinality(Waiting(y)) <= Len(r.awaiting)
    BY DEF PlacesSuffice
  <2>1. IsFiniteSet(Waiting(x)) /\ Cardinality(Waiting(x)) <= Len(f.awaiting)
    BY DEF Truthful, PlacesSuffice
  <2>2. Waiting(y) = Waiting(x) \ {e} /\ e \in Waiting(x)
    BY <1>1 DEF Waiting
  <2>3. IsFiniteSet(Waiting(y)) /\ Cardinality(Waiting(y)) = Cardinality(Waiting(x)) - 1
    BY <2>1, <2>2, FS_RemoveElement
  <2>4. Cardinality(Waiting(x)) \in Nat /\ Len(f.awaiting) \in Nat
    BY <1>1, <2>1, FS_CardinalityType, Fields
  <2> QED BY <2>1, <2>3, <2>4
<1>3. Untainted(g, y)
  BY DEF Untainted
<1>4. OwnIds(y)
  BY DEF Truthful, OwnIds, Spurned
<1>5. Registration(g, y)
  BY DEF Registration, Spurned
<1> QED BY <1>2, <1>3, <1>4, <1>5 DEF Truthful

\* The exchanges ended before the status of e are others'; its own is framed
\* when its denial is.
StaysFramed(r, g) ==
    /\ Len(g.exchanges) = Len(r.exchanges)
    /\ \A i \in 1 .. Len(r.exchanges) :
           /\ g.exchanges[i].status_seq = r.exchanges[i].status_seq
           /\ r.exchanges[i].framed_response => g.exchanges[i].framed_response

LEMMA DeniedKept ==
    ASSUME Truthful(framing, ex), NEW e \in Exchanges, ex[e].phase = "sent", NEW r, NEW g, NEW y,
           \A o \in Exchanges : o # e => y[o] = ex[o], y[e].phase \in {"streaming", "done"},
           Len(framing.exchanges) \in Nat, StaysFramed(r, g),
           \/ r.exchanges = framing.exchanges
           \/ /\ Len(r.exchanges) = Len(framing.exchanges) + 1
              /\ \A i \in 1 .. Len(framing.exchanges) : r.exchanges[i] = framing.exchanges[i]
              /\ r.exchanges[Len(r.exchanges)].status_seq = Status(e)
              /\ y[e].reply = "denied" => g.exchanges[Len(r.exchanges)].framed_response
    PROVE  DeniedIsFramed(g, y)
<1> DEFINE n == Len(framing.exchanges)
<1>1. ASSUME NEW i \in 1 .. n, i \in 1 .. Len(r.exchanges), r.exchanges[i] = framing.exchanges[i]
      PROVE  \E o \in Exchanges :
               /\ g.exchanges[i].status_seq = Status(o) /\ y[o].phase \in {"streaming", "done"}
               /\ y[o].reply = "denied" => g.exchanges[i].framed_response
  <2>1. PICK o \in Exchanges :
            /\ framing.exchanges[i].status_seq = Status(o) /\ ex[o].phase \in {"streaming", "done"}
            /\ ex[o].reply = "denied" => framing.exchanges[i].framed_response
    BY DEF Truthful, DeniedIsFramed
  <2>2. o # e
    BY <2>1
  <2> QED BY <1>1, <2>1, <2>2 DEF StaysFramed
<1>2. CASE r.exchanges = framing.exchanges
  BY <1>1, <1>2 DEF DeniedIsFramed, StaysFramed
<1>3. CASE /\ Len(r.exchanges) = n + 1
           /\ \A i \in 1 .. n : r.exchanges[i] = framing.exchanges[i]
           /\ r.exchanges[n + 1].status_seq = Status(e)
           /\ y[e].reply = "denied" => g.exchanges[n + 1].framed_response
  <2> SUFFICES ASSUME NEW i \in 1 .. n + 1
               PROVE  \E o \in Exchanges :
                        /\ g.exchanges[i].status_seq = Status(o) /\ y[o].phase \in {"streaming", "done"}
                        /\ y[o].reply = "denied" => g.exchanges[i].framed_response
    BY <1>3 DEF DeniedIsFramed, StaysFramed
  <2>1. CASE i = n + 1
    BY <1>3, <2>1 DEF StaysFramed
  <2>2. CASE i \in 1 .. n
    BY <1>1, <1>3, <2>2
  <2> QED BY <2>1, <2>2
<1> QED BY <1>2, <1>3

LEMMA ReplyTrue ==
    ASSUME PInv, Truthful(framing, ex), NEW e \in Exchanges, NEW reply \in Replies, Reply(e, reply)
    PROVE  Truthful(framing, ex)'
<1> DEFINE f == framing
           g == framing'
           x == ex
           y == ex'
           began == ResponseBegan(f, Status(e))
           failed == ResponseBegan(f, NoSeq)
           id == AnswerId(e, reply)
<1>1. /\ setting' = setting /\ x[e].phase = "sent" /\ x[e].reply = "lost" /\ reply \in Fitting(e)
      /\ g = Answered(e, reply) /\ \A o \in Exchanges : o # e => y[o] = x[o]
      /\ y[e].phase \in {"streaming", "done"}
      /\ y[e].reply = reply /\ y[e].id = x[e].id /\ y[e].body = x[e].body
  BY ReplyEffect
<1>a. g = IF HasResponse(reply) THEN ServerMessage(began, Response(e), id, TRUE)
          ELSE IF reply = "foreign" THEN ServerMessage(began, Foreign(e), NoId, TRUE)
          ELSE IF reply = "failed" THEN failed
          ELSE IF reply = "lost" THEN f ELSE began
  BY <1>1 DEF Answered, HasResponse
<1>2. CASE reply = "lost"
  <2>1. g = f
    BY <1>2, <1>a DEF HasResponse
  <2>2. Still(x, y)
    BY <1>1, <1>2 DEF Still, Spurned
  <2> HIDE DEF x, y, f, g
  <2>3. Truthful(g, y)
    <3>1. Truthful(f, x)
      BY DEF f, x
    <3> QED BY <2>1, <2>2, <3>1, TruthKept DEF Truthful
  <2> QED BY <1>1, <2>3 DEF g, y, Truthful, PlacesSuffice
<1> HIDE DEF began, failed, id, g, y
<1>3. ASSUME NEW r, r \in {began, failed}
      PROVE  /\ r \in Framings /\ Fresh(r)
             /\ ~setting.partial => Len(r.awaiting) = Len(framing.awaiting) - 1
             /\ \A i \in 1 .. Len(r.awaiting) : r.awaiting[i].tainted
             /\ Registration(r, ex) /\ Attributions(r)
             /\ r.fresh_status.owner = "unaccounted" => setting.partial /\ r.fresh_status.seq = Status(e)
             /\ r.fresh_status.owner = "request" => /\ r.fresh_status.seq = Status(e)
                                                    /\ r.fresh_status.request = Message(e)
             /\ \/ r.exchanges = framing.exchanges
                \/ /\ Len(r.exchanges) = Len(framing.exchanges) + 1
                   /\ r.fresh_exchange = Len(r.exchanges)
                   /\ \A i \in 1 .. Len(framing.exchanges) : r.exchanges[i] = framing.exchanges[i]
                   /\ r.exchanges[Len(r.exchanges)].status_seq = Status(e)
  <2>1. PICK status \in {NoSeq, Status(e)} : r = ResponseBegan(framing, status)
    BY <1>3 DEF began, failed
  <2> QED BY <1>1, <2>1, BeganTrue
<1>4. Len(framing.exchanges) \in Nat
  BY Types, Fields DEF PInv
<1>5. CASE ~HasResponse(reply) /\ reply \notin {"foreign", "lost"}
  <2>1. g \in {began, failed} /\ reply # "denied"
    BY <1>5, <1>a DEF HasResponse
  <2>2. DeniedIsFramed(g, y)
    <3>1. \/ g.exchanges = framing.exchanges
          \/ /\ Len(g.exchanges) = Len(framing.exchanges) + 1
             /\ \A i \in 1 .. Len(framing.exchanges) : g.exchanges[i] = framing.exchanges[i]
             /\ g.exchanges[Len(g.exchanges)].status_seq = Status(e)
             /\ y[e].reply = "denied" => g.exchanges[Len(g.exchanges)].framed_response
      BY <1>1, <1>3, <2>1
    <3>2. x[e].phase = "sent" /\ y[e].phase \in {"streaming", "done"}
          /\ \A o \in Exchanges : o # e => y[o] = x[o]
      BY <1>1
    <3>3. StaysFramed(g, g)
      BY DEF StaysFramed
    <3> QED BY <1>4, <3>1, <3>2, <3>3, DeniedKept
  <2>3. Truthful(g, y)
    BY <1>1, <1>3, <1>5, <2>1, <2>2, AnswerTruth
  <2> QED BY <1>1, <2>3 DEF g, y, Truthful, PlacesSuffice
<1>6. CASE HasResponse(reply) \/ reply = "foreign"
  <2>1. PICK seq \in {Response(e), Foreign(e)}, k \in {id, NoId} :
            g = ServerMessage(began, seq, k, TRUE)
    BY <1>6, <1>a
  <2>2. k \in MaybeIds /\ (k # NoId => k = x[e].id /\ x[e].body = "request")
    <3>1. x[e].id \in MaybeIds /\ NoId \in MaybeIds /\ (x[e].id # NoId => x[e].body = "request")
      BY Types, EventFacts DEF PInv, Lived, Lives
    <3> QED BY <3>1 DEF id, AnswerId
  <2>3. k # NoId => began.requests[k].status \in {NoSeq, Status(e)}
    <3>1. Registration(began, x)
      BY <1>3
    <3> QED BY <1>1, <2>2, <3>1 DEF Registration, Spurned
  <2>4. /\ g \in Framings /\ Told(began, g) /\ Attributions(g) /\ g.fresh_status.owner = "none"
        /\ began.fresh_exchange # 0 => g.exchanges[began.fresh_exchange].framed_response
    <3>1. /\ began \in Framings /\ Fresh(began) /\ Attributions(began)
          /\ began.fresh_status.owner = "unaccounted" => began.fresh_status.seq = Status(e)
          /\ began.fresh_status.owner = "request" => /\ began.fresh_status.seq = Status(e)
                                                     /\ began.fresh_status.request = Message(e)
      BY <1>3
    <3> QED BY <2>1, <2>2, <2>3, <3>1, SaidTrue
  <2>5. DeniedIsFramed(g, y)
    <3>1. StaysFramed(began, g)
      BY <2>4 DEF Told, StaysFramed
    <3>2. \/ began.exchanges = framing.exchanges
          \/ /\ Len(began.exchanges) = Len(framing.exchanges) + 1
             /\ \A i \in 1 .. Len(framing.exchanges) : began.exchanges[i] = framing.exchanges[i]
             /\ began.exchanges[Len(began.exchanges)].status_seq = Status(e)
             /\ y[e].reply = "denied" => g.exchanges[Len(began.exchanges)].framed_response
      BY <1>3, <1>4, <2>4
    <3>3. x[e].phase = "sent" /\ y[e].phase \in {"streaming", "done"}
          /\ \A o \in Exchanges : o # e => y[o] = x[o]
      BY <1>1
    <3> QED BY <1>4, <3>1, <3>2, <3>3, DeniedKept
  <2>6. g.awaiting = began.awaiting /\ g.requests = began.requests
    BY <2>4 DEF Told
  <2>7. Truthful(g, y)
    <3>1. reply # "lost" /\ g.fresh_status.owner # "unaccounted"
      BY <1>6, <2>4 DEF HasResponse
    <3>2. /\ began \in Framings
          /\ ~setting.partial => Len(began.awaiting) = Len(framing.awaiting) - 1
          /\ \A i \in 1 .. Len(began.awaiting) : began.awaiting[i].tainted
          /\ Registration(began, ex)
      BY <1>3
    <3> QED BY <1>1, <2>4, <2>5, <2>6, <3>1, <3>2, AnswerTruth
  <2> QED BY <1>1, <2>7 DEF g, y, Truthful, PlacesSuffice
<1> QED BY <1>2, <1>5, <1>6

\* What a message of the server's leaves true.
LEMMA ToldTrue ==
    ASSUME NEW f, NEW x, Truthful(f, x), NEW m, Told(f, m), Attributions(m), NEW y, Still(x, y)
    PROVE  Truthful(m, y)
<1>1. m.fresh_status.owner = "none"
  <2>1. m.fresh_status = NoStatus
    BY DEF Told
  <2> QED BY <2>1, NoStatusIsNone
<1>2. /\ m.awaiting = f.awaiting /\ m.requests = f.requests /\ Len(m.exchanges) = Len(f.exchanges)
      /\ \A i \in 1 .. Len(f.exchanges) :
             /\ m.exchanges[i].status_seq = f.exchanges[i].status_seq
             /\ f.exchanges[i].framed_response => m.exchanges[i].framed_response
  BY DEF Told
<1> QED BY <1>1, <1>2, TruthKept

LEMMA StreamOtherTrue ==
    ASSUME PInv, Truthful(framing, ex), NEW e \in Exchanges, StreamOther(e)
    PROVE  Truthful(framing, ex)'
<1> DEFINE f == framing
           g == framing'
           x == ex
           y == ex'
<1>1. /\ setting' = setting /\ y = x /\ f \in Framings
      /\ g = [f EXCEPT !.fresh_status = NoStatus, !.fresh_exchange = 0]
  BY Types DEF StreamOther, PInv, ServerMessage
<1>2. Truthful(f, x)
  OBVIOUS
<1>3. Still(x, y)
  BY <1>1 DEF Still, Spurned
<1> HIDE DEF f, g, x, y
<1>4. Told(f, g) /\ g.statuses = f.statuses /\ g.answers = f.answers /\ g.exchanges = f.exchanges
  BY <1>1, StaleEffect DEF Told
<1>5. Attributions(g)
  BY <1>2, <1>4 DEF Truthful, Attributions
<1>6. Truthful(g, y)
  BY <1>2, <1>3, <1>4, <1>5, ToldTrue
<1> QED BY <1>1, <1>6 DEF g, y, Truthful, PlacesSuffice

LEMMA StreamResponseTrue ==
    ASSUME PInv, Uncut, Truthful(framing, ex), NEW e \in Exchanges, NEW to \in Exchanges,
           StreamResponse(e, to)
    PROVE  Truthful(framing, ex)'
<1> DEFINE f == framing
           g == framing'
           x == ex
           y == ex'
           id == x[to].id
<1>1. /\ setting' = setting /\ x \in [Exchanges -> Lived] /\ f \in Framings /\ Fresh(f)
      /\ x[to].body = "request" /\ x[to].reply = "stream"
      /\ y = [x EXCEPT ![to] = [x[to] EXCEPT !.answered = TRUE]]
      /\ g = ServerMessage(f, Response(to), id, TRUE)
  BY Types DEF StreamResponse, Owed, PInv, Sound
<1>2. x[to].phase \in {"streaming", "done"} /\ x[to].reply \in setting.replies /\ id # NoId
  BY <1>1 DEF PInv, Lives, Lived
<1>3. id \in MaybeIds
  BY <1>1 DEF Lived
<1>4. ~setting.partial
  BY <1>1, <1>2 DEF Uncut
<1>5. Truthful(f, x)
  OBVIOUS
<1>6. Still(x, y)
  <2>1. \A o \in Exchanges : /\ y[o].id = x[o].id /\ y[o].body = x[o].body
                            /\ y[o].reply = x[o].reply /\ y[o].phase = x[o].phase
    BY <1>1 DEF Lived
  <2> HIDE DEF x, y
  <2> QED BY <2>1 DEF Still, Spurned
<1> HIDE DEF f, g, x, y, id
<1>7. f.requests[id].status \in {NoSeq, Status(to)}
  <2>1. f.requests[x[to].id].status \in {NoSeq, Status(to)}
    BY <1>1, <1>2, <1>5 DEF Truthful, Registration, Spurned
  <2> QED BY <2>1 DEF id
<1>8. f.fresh_status.owner # "unaccounted" /\ Attributions(f)
  BY <1>4, <1>5 DEF Truthful
<1>9. Told(f, g) /\ Attributions(g)
  BY <1>1, <1>2, <1>3, <1>7, <1>8, SaidTrue
<1>10. Truthful(g, y)
  BY <1>5, <1>6, <1>9, ToldTrue
<1> QED BY <1>1, <1>10 DEF g, y, Truthful, PlacesSuffice

LEMMA StreamEndsTrue ==
    ASSUME PInv, Truthful(framing, ex), NEW e \in Exchanges, StreamEnds(e)
    PROVE  Truthful(framing, ex)'
<1> DEFINE f == framing
           g == framing'
           x == ex
           y == ex'
<1>1. /\ setting' = setting /\ x \in [Exchanges -> Lived] /\ g = f /\ x[e].phase = "streaming"
      /\ y = [x EXCEPT ![e] = [x[e] EXCEPT !.phase = "done"]] /\ x[e].reply = "stream"
  BY Types DEF StreamEnds, PInv, Lives
<1>2. Truthful(f, x)
  OBVIOUS
<1>3. /\ \A o \in Exchanges : o # e => y[o] = x[o]
      /\ y[e].phase = "done" /\ y[e].id = x[e].id /\ y[e].body = x[e].body /\ y[e].reply = x[e].reply
  BY <1>1 DEF Lived
<1>4. Still(x, y)
  <2> HIDE DEF x, y
  <2> QED BY <1>1, <1>3 DEF Still, Spurned
<1> HIDE DEF f, g, x, y
<1>5. Truthful(g, y)
  BY <1>1, <1>2, <1>4, TruthKept DEF Truthful
<1> QED BY <1>1, <1>5 DEF g, y, Truthful, PlacesSuffice

LEMMA InitTruth == Init => EInv
<1> SUFFICES ASSUME Init PROVE Truthful(framing, ex)
  BY DEF EInv
<1>1. \A e \in Exchanges : ex[e].phase = "unused" /\ ex[e].id = NoId /\ ex[e].body = "none"
  BY DEF Init, Unused
<1>2. /\ framing.awaiting = <<>> /\ framing.exchanges = <<>>
      /\ framing.statuses = {} /\ framing.answers = {} /\ framing.fresh_status.owner = "none"
  BY DEF Init, NewFraming, NoStatus
<1>3. Waiting(ex) = {}
  BY <1>1 DEF Waiting
<1>4. PlacesSuffice(framing, ex) /\ Untainted(framing, ex)
  BY <1>2, <1>3, FS_EmptySet DEF PlacesSuffice, Untainted
<1>5. OwnIds(ex) /\ Registration(framing, ex)
  BY <1>1 DEF OwnIds, Registration
<1>6. DeniedIsFramed(framing, ex) /\ Attributions(framing)
  BY <1>2 DEF DeniedIsFramed, Attributions
<1> QED BY <1>2, <1>4, <1>5, <1>6 DEF Truthful

LEMMA NextTruth == PInv /\ EInv /\ [Next]_vars => EInv'
<1> SUFFICES ASSUME PInv, Uncut', Truthful(framing, ex) \/ ~Uncut, [Next]_vars
             PROVE  Truthful(framing, ex)'
  BY DEF EInv
<1>1. setting' = setting
  <2>1. CASE UNCHANGED vars
    BY <2>1 DEF vars
  <2>2. ASSUME NEW e, NEW verb, NEW body, NEW id, Ask(e, verb, body, id) PROVE setting' = setting
    BY <2>2 DEF Ask
  <2>3. ASSUME NEW e, NEW to, NEW reply,
               \/ SendBody(e) \/ Reply(e, reply) \/ StreamOther(e)
               \/ StreamResponse(e, to) \/ StreamEnds(e) \/ StreamCut(e)
        PROVE  setting' = setting
    BY <2>3 DEF SendBody, Reply, StreamOther, StreamResponse, StreamEnds, StreamCut
  <2> QED BY <2>1, <2>2, <2>3 DEF Next
<1>2. Uncut /\ Truthful(framing, ex)
  BY <1>1 DEF Uncut
<1>3. CASE UNCHANGED vars
  <2>1. framing' = framing /\ ex' = ex
    BY <1>3 DEF vars
  <2>2. PlacesSuffice(framing, ex)'
    BY <1>1, <1>2, <2>1 DEF Truthful, PlacesSuffice
  <2>3. Untainted(framing, ex)' /\ OwnIds(ex)' /\ Registration(framing, ex)'
    BY <1>2, <2>1 DEF Truthful
  <2>4. DeniedIsFramed(framing, ex)' /\ Attributions(framing)'
    BY <1>2, <2>1 DEF Truthful
  <2>5. framing'.fresh_status.owner = "unaccounted" => setting'.partial
    BY <1>1, <1>2, <2>1 DEF Truthful
  <2> QED BY <2>2, <2>3, <2>4, <2>5 DEF Truthful
<1>4. ASSUME NEW e \in Exchanges, NEW verb \in setting.verbs, NEW body \in setting.bodies,
             NEW id, Ask(e, verb, body, id)
      PROVE  Truthful(framing, ex)'
  BY <1>2, <1>4, AskTrue
<1>5. ASSUME NEW e \in Exchanges, SendBody(e) PROVE Truthful(framing, ex)'
  BY <1>2, <1>5, SendBodyTrue
<1>6. ASSUME NEW e \in Exchanges, NEW reply \in Replies, Reply(e, reply)
      PROVE  Truthful(framing, ex)'
  BY <1>2, <1>6, ReplyTrue
<1>7. ASSUME NEW e \in Exchanges, StreamOther(e) PROVE Truthful(framing, ex)'
  BY <1>2, <1>7, StreamOtherTrue
<1>8. ASSUME NEW e \in Exchanges, NEW to \in Exchanges, StreamResponse(e, to)
      PROVE  Truthful(framing, ex)'
  BY <1>2, <1>8, StreamResponseTrue
<1>9. ASSUME NEW e \in Exchanges, StreamEnds(e) PROVE Truthful(framing, ex)'
  BY <1>2, <1>9, StreamEndsTrue
<1>10. ASSUME NEW e \in Exchanges, StreamCut(e) PROVE FALSE
  BY <1>2, <1>10 DEF StreamCut, Uncut
<1> QED BY <1>3, <1>4, <1>5, <1>6, <1>7, <1>8, <1>9, <1>10 DEF Next

\* A status is attributed to the exchange it ended, and a response to the
\* status it rode and the request it answers, in every conversation whose
\* streams are not cut (Builder::response_began, Builder::server_message).
THEOREM ExchangesTrue == Spec => [](Uncut => ExchangesAreTrue)
<1>1. Init => PInv /\ EInv
  BY InitPosts, InitTruth
<1>2. PInv /\ EInv /\ [Next]_vars => PInv' /\ EInv'
  BY NextPosts, NextTruth
<1>3. PInv /\ EInv => (Uncut => ExchangesAreTrue)
  <2> SUFFICES ASSUME PInv, Attributions(framing) PROVE ExchangesAreTrue
    BY DEF EInv, Truthful
  <2>1. DOMAIN framing.exchanges = 1 .. Len(framing.exchanges)
    BY Types, Fields DEF PInv
  <2> QED BY <2>1 DEF Attributions, ExchangesAreTrue
<1> QED BY <1>1, <1>2, <1>3, PTL DEF Spec

\* No request the server read is taken for one whose authorization it refused
\* (refused_requests, is_authorization_refusal).
THEOREM RefusedTrue == Spec => [](Uncut => RefusedIsRefused)
<1>1. Init => PInv /\ EInv
  BY InitPosts, InitTruth
<1>2. PInv /\ EInv /\ [Next]_vars => PInv' /\ EInv'
  BY NextPosts, NextTruth
<1>3. PInv /\ EInv => (Uncut => RefusedIsRefused)
  <2> SUFFICES ASSUME PInv, Attributions(framing), DeniedIsFramed(framing, ex),
                      NEW seq \in RefusedRequests
               PROVE  \E e \in Exchanges : seq = Message(e) /\ ex[e].reply \in {"refused", "foreign"}
    BY DEF EInv, Truthful, RefusedIsRefused
  <2>1. PICK p \in framing.posts, r \in Refusing :
            /\ seq = p.message_seq /\ r.request = p.seq
            /\ r.framed_response => HasForeignBody(r.status_seq)
    BY DEF RefusedRequests
  <2>2. PICK e \in Exchanges : p = Post(e)
    BY DEF PInv, Sound, Paired
  <2>3. PICK i \in 1 .. Len(framing.exchanges) : r = framing.exchanges[i]
    BY Types, Fields DEF PInv, Refusing, ToSet
  <2>4. r.request = Http(e) /\ r.request # NoSeq
    BY <2>1, <2>2, EventFacts DEF Post
  <2>5. r.status_seq = Status(e)
    <3>1. PICK g \in Exchanges : r.status_seq = Status(g) /\ r.request = Http(g)
      BY <2>3, <2>4 DEF Attributions
    <3> QED BY <2>4, <3>1, EventFacts
  <2>6. ex[e].reply = "denied" => r.framed_response
    <3>1. PICK g \in Exchanges : /\ r.status_seq = Status(g)
                                 /\ ex[g].reply = "denied" => r.framed_response
      BY <2>3 DEF DeniedIsFramed
    <3> QED BY <2>5, <3>1, EventFacts
  <2>7. ex[e].reply \in {"denied", "refused", "foreign"} /\ (r.framed_response => ex[e].reply = "foreign")
    BY <2>1, <2>5 DEF Refusing, Refuses, HasForeignBody, Status
  <2> QED BY <2>1, <2>2, <2>6, <2>7 DEF Post
<1> QED BY <1>1, <1>2, <1>3, PTL DEF Spec
=============================================================================

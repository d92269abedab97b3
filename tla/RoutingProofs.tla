---------------------------- MODULE RoutingProofs ----------------------------
(***************************************************************************)
(* Proofs about Routing, for any session ids, any number of handlers and   *)
(* requests, and clients and servers that keep to the rules or do not.     *)
(***************************************************************************)
EXTENDS Routing, TLAPS

\* Every index the router keeps names a session that has begun.
Indexed(r) ==
    /\ \A id \in Ids : r.byId[id] \in 0 .. Len(r.ids)
    /\ r.current \in 0 .. Len(r.ids)
    /\ r.unseen \in 0 .. Len(r.ids)

Apart(r) == r.current # 0 => r.current # r.unseen

\* The traces that neither an initialize nor an acceptance has paid for.
Unpaid(r) == (IF r.unseen # 0 THEN 1 ELSE 0) + (IF r.current # 0 THEN 1 ELSE 0)

Paid(r, s, a) == Len(r.ids) <= s + a + Unpaid(r)

IInv == TypeOK /\ UnseenIsNotCurrent /\ Paid(router, starts, accepts)

LEMMA RouterFields ==
    ASSUME NEW r \in Routers
    PROVE  /\ r.ids \in Seq(MaybeIds) /\ r.byId \in [Ids -> Nat]
           /\ r.current \in Nat /\ r.unseen \in Nat
           /\ Len(r.ids) \in Nat
BY DEF Routers

-----------------------------------------------------------------------------
(* What the router's operations keep. *)

\* The router after one of its fields was set.
LEMMA RouterUpdates ==
    /\ \A q \in Routers, c \in Nat : [q EXCEPT !.current = c] \in Routers
    /\ \A q \in Routers, c \in Nat : [q EXCEPT !.current = c].ids = q.ids
    /\ \A q \in Routers, c \in Nat : [q EXCEPT !.current = c].byId = q.byId
    /\ \A q \in Routers, c \in Nat : [q EXCEPT !.current = c].current = c
    /\ \A q \in Routers, c \in Nat : [q EXCEPT !.current = c].unseen = q.unseen
    /\ \A q \in Routers, c \in Nat : [q EXCEPT !.unseen = c] \in Routers
    /\ \A q \in Routers, c \in Nat : [q EXCEPT !.unseen = c].ids = q.ids
    /\ \A q \in Routers, c \in Nat : [q EXCEPT !.unseen = c].byId = q.byId
    /\ \A q \in Routers, c \in Nat : [q EXCEPT !.unseen = c].current = q.current
    /\ \A q \in Routers, c \in Nat : [q EXCEPT !.unseen = c].unseen = c
BY DEF Routers

LEMMA BegunFields ==
    ASSUME NEW r \in Routers
    PROVE  /\ Begun(r) \in Routers /\ Len(Begun(r).ids) = Len(r.ids) + 1
           /\ Begun(r).byId = r.byId /\ Begun(r).current = r.current
           /\ Begun(r).unseen = r.unseen /\ Len(r.ids) + 1 \in Nat
<1>1. Append(r.ids, NoId) \in Seq(MaybeIds) /\ Len(Append(r.ids, NoId)) = Len(r.ids) + 1
      /\ Len(r.ids) \in Nat
  BY DEF Routers, MaybeIds
<1>2. \A s \in Seq(MaybeIds) : [r EXCEPT !.ids = s] \in Routers
  BY DEF Routers
<1>3. \A s \in Seq(MaybeIds) : [r EXCEPT !.ids = s].ids = s
  BY DEF Routers
<1>4. /\ Begun(r).byId = r.byId /\ Begun(r).current = r.current
      /\ Begun(r).unseen = r.unseen
  BY DEF Routers, Begun
<1>5. Begun(r) = [r EXCEPT !.ids = Append(r.ids, NoId)]
  BY DEF Begun
<1>6. Begun(r) \in Routers /\ Begun(r).ids = Append(r.ids, NoId)
  BY <1>1, <1>2, <1>3, <1>5
<1> QED BY <1>1, <1>4, <1>6

\* A session that begins is the last one, and moves nothing.
LEMMA BegunCurrentFields ==
    ASSUME NEW r \in Routers
    PROVE  LET n == BegunCurrent(r)
           IN  /\ n \in Routers /\ Len(n.ids) = Len(r.ids) + 1
               /\ n.byId = r.byId /\ n.current = Len(r.ids) + 1 /\ n.unseen = r.unseen
<1> DEFINE b == Begun(r)
           c == Len(r.ids) + 1
<1>1. /\ b \in Routers /\ Len(b.ids) = c /\ b.byId = r.byId
      /\ b.current = r.current /\ b.unseen = r.unseen /\ c \in Nat
  BY BegunFields
<1>2. BegunCurrent(r) = [b EXCEPT !.current = c]
  BY <1>1 DEF BegunCurrent
<1> HIDE DEF b, c
<1>3. /\ [b EXCEPT !.current = c] \in Routers /\ [b EXCEPT !.current = c].ids = b.ids
      /\ [b EXCEPT !.current = c].byId = b.byId /\ [b EXCEPT !.current = c].current = c
      /\ [b EXCEPT !.current = c].unseen = b.unseen
  BY <1>1, RouterUpdates
<1>4. /\ BegunCurrent(r) \in Routers /\ Len(BegunCurrent(r).ids) = c
      /\ BegunCurrent(r).byId = r.byId /\ BegunCurrent(r).current = c
      /\ BegunCurrent(r).unseen = r.unseen
  BY <1>1, <1>2, <1>3
<1> QED BY <1>4 DEF c

LEMMA BegunUnseenFields ==
    ASSUME NEW r \in Routers
    PROVE  LET n == BegunUnseen(r)
           IN  /\ n \in Routers /\ Len(n.ids) = Len(r.ids) + 1
               /\ n.byId = r.byId /\ n.current = r.current /\ n.unseen = Len(r.ids) + 1
<1> DEFINE b == Begun(r)
           c == Len(r.ids) + 1
<1>1. /\ b \in Routers /\ Len(b.ids) = c /\ b.byId = r.byId
      /\ b.current = r.current /\ b.unseen = r.unseen /\ c \in Nat
  BY BegunFields
<1>2. BegunUnseen(r) = [b EXCEPT !.unseen = c]
  BY <1>1 DEF BegunUnseen
<1> HIDE DEF b, c
<1>3. /\ [b EXCEPT !.unseen = c] \in Routers /\ [b EXCEPT !.unseen = c].ids = b.ids
      /\ [b EXCEPT !.unseen = c].byId = b.byId /\ [b EXCEPT !.unseen = c].current = b.current
      /\ [b EXCEPT !.unseen = c].unseen = c
  BY <1>1, RouterUpdates
<1>4. /\ BegunUnseen(r) \in Routers /\ Len(BegunUnseen(r).ids) = c
      /\ BegunUnseen(r).byId = r.byId /\ BegunUnseen(r).current = r.current
      /\ BegunUnseen(r).unseen = c
  BY <1>1, <1>2, <1>3
<1> QED BY <1>4 DEF c

\* The four ways a request is routed.
LEMMA RouteCases ==
    ASSUME NEW r \in Routers, Indexed(r), NEW id \in MaybeIds, NEW initialize \in BOOLEAN
    PROVE  LET x == Route(r, id, initialize)
           IN  \/ /\ id # NoId \/ ~initialize
                  /\ x.router = r /\ x.route.index \in 1 .. Len(r.ids)
                  /\ x.route.unseen \in MaybeIds /\ x.route \in Routes
               \/ /\ id # NoId /\ r.unseen = 0
                  /\ x.router = BegunUnseen(r) /\ x.route.index = Len(r.ids) + 1
                  /\ x.route.unseen \in MaybeIds /\ x.route \in Routes
               \/ /\ id = NoId /\ (initialize \/ r.current = 0)
                  /\ x.router = BegunCurrent(r) /\ x.route.index = Len(r.ids) + 1
                  /\ x.route.unseen \in MaybeIds /\ x.route \in Routes
<1> DEFINE x == Route(r, id, initialize)
<1>0. Len(r.ids) \in Nat /\ NoId \in MaybeIds
      /\ \A i \in Nat, u \in MaybeIds : [index |-> i, unseen |-> u] \in Routes
  BY RouterFields DEF MaybeIds, Routes
<1>1. CASE id # NoId /\ Known(r, id)
  <2>1. x = Routing(r, r.byId[id], NoId)
    BY <1>1 DEF Route
  <2>2. r.byId[id] \in 1 .. Len(r.ids)
    BY <1>0, <1>1 DEF Known, Indexed, MaybeIds
  <2> QED BY <1>0, <1>1, <2>1, <2>2 DEF Routing
<1>2. CASE id # NoId /\ ~Known(r, id) /\ r.unseen # 0
  <2>1. x = Routing(r, r.unseen, id)
    BY <1>2 DEF Route
  <2>2. r.unseen \in 1 .. Len(r.ids)
    BY <1>0, <1>2 DEF Indexed
  <2> QED BY <1>0, <1>2, <2>1, <2>2 DEF Routing
<1>3. CASE id # NoId /\ ~Known(r, id) /\ r.unseen = 0
  <2>1. x = Routing(BegunUnseen(r), Len(r.ids) + 1, id)
    BY <1>3 DEF Route
  <2> QED BY <1>0, <1>3, <2>1 DEF Routing
<1>4. CASE id = NoId /\ (initialize \/ r.current = 0)
  <2>1. x = Routing(BegunCurrent(r), Len(r.ids) + 1, NoId)
    BY <1>4 DEF Route
  <2> QED BY <1>0, <1>4, <2>1 DEF Routing
<1>5. CASE id = NoId /\ ~initialize /\ r.current # 0
  <2>1. x = Routing(r, r.current, NoId)
    BY <1>5 DEF Route
  <2>2. r.current \in 1 .. Len(r.ids)
    BY <1>0, <1>5 DEF Indexed
  <2> QED BY <1>0, <1>5, <2>1, <2>2 DEF Routing
<1> QED BY <1>1, <1>2, <1>3, <1>4, <1>5

\* Routing begins at most one session, paid for by an initialize or as the one
\* unaccepted or the one current trace, and moves no id.
LEMMA RouteKeeps ==
    ASSUME NEW r \in Routers, Indexed(r), Apart(r), NEW id \in MaybeIds,
           NEW initialize \in BOOLEAN, NEW s \in Nat, NEW a \in Nat, Paid(r, s, a)
    PROVE  LET x == Route(r, id, initialize)
               t == IF id = NoId /\ initialize THEN s + 1 ELSE s
           IN  /\ x.router \in Routers /\ Indexed(x.router) /\ Apart(x.router)
               /\ x.router.byId = r.byId
               /\ Len(x.router.ids) \in Nat /\ Len(r.ids) <= Len(x.router.ids)
               /\ x.route \in Routes /\ x.route.index \in 1 .. Len(x.router.ids)
               /\ Paid(x.router, t, a)
<1> DEFINE x == Route(r, id, initialize)
           t == IF id = NoId /\ initialize THEN s + 1 ELSE s
<1>0. Len(r.ids) \in Nat /\ r.current \in Nat /\ r.unseen \in Nat /\ r.byId \in [Ids -> Nat]
  BY RouterFields
<1>1. t \in Nat /\ s <= t /\ (id = NoId /\ initialize => t = s + 1)
  OBVIOUS
<1>2. CASE x.router = r
  <2>1. x.route \in Routes /\ x.route.index \in 1 .. Len(r.ids)
    <3>1. Len(BegunUnseen(r).ids) # Len(r.ids) /\ Len(BegunCurrent(r).ids) # Len(r.ids)
      BY <1>0, BegunUnseenFields, BegunCurrentFields
    <3> QED BY <1>2, <3>1, RouteCases
  <2>2. Paid(r, t, a)
    BY <1>0, <1>1 DEF Paid, Unpaid
  <2> QED BY <1>0, <1>2, <2>1, <2>2
<1>3. CASE id # NoId /\ r.unseen = 0 /\ x.router = BegunUnseen(r)
           /\ x.route.index = Len(r.ids) + 1 /\ x.route \in Routes
  <2> DEFINE n == BegunUnseen(r)
  <2>1. /\ n \in Routers /\ Len(n.ids) = Len(r.ids) + 1
        /\ n.byId = r.byId /\ n.current = r.current /\ n.unseen = Len(r.ids) + 1
    BY BegunUnseenFields
  <2> HIDE DEF n
  <2>2. Indexed(n) /\ Apart(n)
    BY <1>0, <2>1 DEF Indexed, Apart
  <2>3. Paid(n, t, a)
    BY <1>0, <1>1, <1>3, <2>1 DEF Paid, Unpaid
  <2> QED BY <1>0, <1>3, <2>1, <2>2, <2>3 DEF n
<1>4. CASE id = NoId /\ (initialize \/ r.current = 0) /\ x.router = BegunCurrent(r)
           /\ x.route.index = Len(r.ids) + 1 /\ x.route \in Routes
  <2> DEFINE n == BegunCurrent(r)
  <2>1. /\ n \in Routers /\ Len(n.ids) = Len(r.ids) + 1
        /\ n.byId = r.byId /\ n.current = Len(r.ids) + 1 /\ n.unseen = r.unseen
    BY BegunCurrentFields
  <2> HIDE DEF n
  <2>2. Indexed(n) /\ Apart(n)
    BY <1>0, <2>1 DEF Indexed, Apart
  <2>3. Paid(n, t, a)
    BY <1>0, <1>1, <1>4, <2>1 DEF Paid, Unpaid
  <2> QED BY <1>0, <1>4, <2>1, <2>2, <2>3 DEF n
<1> QED BY <1>2, <1>3, <1>4, RouteCases

\* A trace accepted for the id its request named, which no trace had.
LEMMA AcceptKeeps ==
    ASSUME NEW r \in Routers, Indexed(r), Apart(r), NEW route \in Routes,
           route.index \in 1 .. Len(r.ids), route.unseen \in Ids,
           NEW s \in Nat, NEW a \in Nat, Paid(r, s, a)
    PROVE  LET n == Accept(r, route)
           IN  /\ n \in Routers /\ Indexed(n) /\ Apart(n) /\ Len(n.ids) = Len(r.ids)
               /\ \A id \in Ids \ {route.unseen} : n.byId[id] = r.byId[id]
               /\ n.byId[route.unseen] # 0
               /\ Paid(n, s, a + 1)
<1> DEFINE n == Accept(r, route)
<1>0. /\ r.ids \in Seq(MaybeIds) /\ r.byId \in [Ids -> Nat] /\ r.current \in Nat
      /\ r.unseen \in Nat /\ Len(r.ids) \in Nat
      /\ route.index \in Nat /\ route.index # 0 /\ route.unseen \in MaybeIds
  BY RouterFields DEF MaybeIds
<1>1. n.byId = [r.byId EXCEPT ![route.unseen] = route.index]
  BY DEF Accept, Routers
<1>2. n.current = route.index
  BY DEF Accept, Routers
<1>3. n.unseen = IF r.unseen = route.index THEN 0 ELSE r.unseen
  BY DEF Accept, Routers
<1>4. n.ids = [r.ids EXCEPT ![route.index] = IF @ = NoId THEN route.unseen ELSE @]
  BY DEF Accept, Routers
<1>5. ASSUME [r.ids EXCEPT ![route.index] = IF @ = NoId THEN route.unseen ELSE @] \in Seq(MaybeIds),
             [r.byId EXCEPT ![route.unseen] = route.index] \in [Ids -> Nat]
      PROVE  n \in Routers
  BY <1>0, <1>5 DEF Accept, Routers
<1> HIDE DEF n
<1>6. n.ids \in Seq(MaybeIds) /\ Len(n.ids) = Len(r.ids)
  BY <1>0, <1>4
<1>7. n.byId \in [Ids -> Nat] /\ n.current \in Nat /\ n.unseen \in Nat
  BY <1>0, <1>1, <1>2, <1>3
<1>8. n \in Routers
  BY <1>1, <1>4, <1>5, <1>6, <1>7
<1>9. /\ \A id \in Ids \ {route.unseen} : n.byId[id] = r.byId[id]
      /\ n.byId[route.unseen] = route.index
  BY <1>0, <1>1
<1>10. Indexed(n)
  BY <1>0, <1>2, <1>3, <1>6, <1>9 DEF Indexed
<1>11. Apart(n)
  BY <1>0, <1>2, <1>3 DEF Apart
<1>12. Paid(n, s, a + 1)
  BY <1>0, <1>2, <1>3, <1>6 DEF Paid, Unpaid
<1> QED BY <1>0, <1>6, <1>8, <1>9, <1>10, <1>11, <1>12 DEF n

\* A session named by the id its response assigned, when neither was taken.
LEMMA AssignKeeps ==
    ASSUME NEW r \in Routers, Indexed(r), Apart(r), NEW route \in Routes,
           route.index \in 1 .. Len(r.ids), NEW given \in Ids,
           NEW s \in Nat, NEW a \in Nat, Paid(r, s, a)
    PROVE  LET n == Assign(r, route, given)
           IN  /\ n \in Routers /\ Indexed(n) /\ Apart(n) /\ Len(n.ids) = Len(r.ids)
               /\ \A id \in Ids \ {given} : n.byId[id] = r.byId[id]
               /\ Paid(n, s, a)
<1> DEFINE n == Assign(r, route, given)
<1>0. /\ r.ids \in Seq(MaybeIds) /\ r.byId \in [Ids -> Nat] /\ r.current \in Nat
      /\ r.unseen \in Nat /\ Len(r.ids) \in Nat /\ route.index \in Nat
      /\ given \in MaybeIds
  BY RouterFields DEF MaybeIds
<1>1. n.byId = [r.byId EXCEPT ![given] = route.index]
  BY DEF Assign, Routers
<1>2. n.current = r.current /\ n.unseen = r.unseen
  BY DEF Assign, Routers
<1>3. n.ids = [r.ids EXCEPT ![route.index] = given]
  BY DEF Assign, Routers
<1>4. ASSUME [r.ids EXCEPT ![route.index] = given] \in Seq(MaybeIds),
             [r.byId EXCEPT ![given] = route.index] \in [Ids -> Nat]
      PROVE  n \in Routers
  BY <1>0, <1>4 DEF Assign, Routers
<1> HIDE DEF n
<1>5. n.ids \in Seq(MaybeIds) /\ Len(n.ids) = Len(r.ids)
  BY <1>0, <1>3
<1>6. n.byId \in [Ids -> Nat]
  BY <1>0, <1>1
<1>7. n \in Routers
  BY <1>1, <1>3, <1>4, <1>5, <1>6
<1>8. /\ \A id \in Ids \ {given} : n.byId[id] = r.byId[id]
      /\ n.byId[given] = route.index
  BY <1>0, <1>1
<1>9. Indexed(n) /\ Apart(n)
  BY <1>0, <1>2, <1>5, <1>8 DEF Indexed, Apart
<1>10. Paid(n, s, a)
  BY <1>0, <1>2, <1>5 DEF Paid, Unpaid
<1> QED BY <1>5, <1>7, <1>8, <1>9, <1>10 DEF n

\* An answer may accept the id its request named, and may name its session; an
\* id that has a trace keeps it.
LEMMA RespondKeeps ==
    ASSUME NEW r \in Routers, Indexed(r), Apart(r), NEW route \in Routes,
           route.index \in 1 .. Len(r.ids), NEW given \in MaybeIds, NEW ok \in BOOLEAN,
           NEW s \in Nat, NEW a \in Nat, Paid(r, s, a)
    PROVE  LET n == Respond(r, route, given, ok)
           IN  /\ n \in Routers /\ Indexed(n) /\ Apart(n) /\ Len(n.ids) = Len(r.ids)
               /\ \A id \in Ids : r.byId[id] # 0 => n.byId[id] = r.byId[id]
               /\ Paid(n, s, IF Accepts(r, route, ok) THEN a + 1 ELSE a)
<1> DEFINE x == IF Accepts(r, route, ok) THEN Accept(r, route) ELSE r
           b == IF Accepts(r, route, ok) THEN a + 1 ELSE a
<1>0. b \in Nat /\ route.unseen \in MaybeIds
  BY DEF Routes
<1>1. /\ x \in Routers /\ Indexed(x) /\ Apart(x) /\ Len(x.ids) = Len(r.ids) /\ Paid(x, s, b)
      /\ \A id \in Ids : r.byId[id] # 0 => x.byId[id] = r.byId[id]
  <2>1. CASE Accepts(r, route, ok)
    <3>1. route.unseen \in Ids /\ r.byId[route.unseen] = 0
      BY <1>0, <2>1 DEF Accepts, Known, MaybeIds
    <3>2. /\ Accept(r, route) \in Routers /\ Indexed(Accept(r, route)) /\ Apart(Accept(r, route))
          /\ Len(Accept(r, route).ids) = Len(r.ids) /\ Paid(Accept(r, route), s, a + 1)
          /\ \A id \in Ids \ {route.unseen} : Accept(r, route).byId[id] = r.byId[id]
      BY <3>1, AcceptKeeps
    <3> QED BY <2>1, <3>1, <3>2
  <2>2. CASE ~Accepts(r, route, ok)
    BY <2>2
  <2> QED BY <2>1, <2>2
<1>2. Respond(r, route, given, ok) = IF Assigns(x, route, given) THEN Assign(x, route, given) ELSE x
  BY DEF Respond
<1> HIDE DEF x, b
<1>3. CASE Assigns(x, route, given)
  <2>1. given \in Ids /\ x.byId[given] = 0
    BY <1>3 DEF Assigns, Known, MaybeIds
  <2>2. /\ Assign(x, route, given) \in Routers /\ Indexed(Assign(x, route, given))
        /\ Apart(Assign(x, route, given)) /\ Len(Assign(x, route, given).ids) = Len(x.ids)
        /\ \A id \in Ids \ {given} : Assign(x, route, given).byId[id] = x.byId[id]
        /\ Paid(Assign(x, route, given), s, b)
    BY <1>0, <1>1, <2>1, AssignKeeps
  <2>3. \A id \in Ids : r.byId[id] # 0 => Assign(x, route, given).byId[id] = r.byId[id]
    BY <1>1, <2>1, <2>2
  <2> QED BY <1>1, <1>2, <1>3, <2>2, <2>3 DEF b
<1>4. CASE ~Assigns(x, route, given)
  BY <1>1, <1>2, <1>4 DEF b
<1> QED BY <1>3, <1>4

\* A session's end forgets its id and nothing else.
LEMMA EndKeeps ==
    ASSUME NEW r \in Routers, Indexed(r), Apart(r), NEW gone \in Ids,
           NEW s \in Nat, NEW a \in Nat, Paid(r, s, a)
    PROVE  LET n == End(r, gone)
           IN  /\ n \in Routers /\ Indexed(n) /\ Apart(n) /\ Len(n.ids) = Len(r.ids)
               /\ \A id \in Ids \ {gone} : n.byId[id] = r.byId[id]
               /\ n.byId[gone] = 0
               /\ Paid(n, s, a)
<1> DEFINE n == End(r, gone)
<1>0. r.byId \in [Ids -> Nat] /\ Len(r.ids) \in Nat
  BY RouterFields
<1>1. n.ids = r.ids /\ n.current = r.current /\ n.unseen = r.unseen
  BY DEF End, Routers
<1>2. n.byId = [r.byId EXCEPT ![gone] = 0]
  BY DEF End, Routers
<1>3. ASSUME [r.byId EXCEPT ![gone] = 0] \in [Ids -> Nat] PROVE n \in Routers
  BY <1>3 DEF End, Routers
<1> HIDE DEF n
<1>4. /\ n \in Routers /\ \A id \in Ids \ {gone} : n.byId[id] = r.byId[id]
      /\ n.byId[gone] = 0
  BY <1>0, <1>2, <1>3
<1>5. Indexed(n) /\ Apart(n) /\ Paid(n, s, a)
  BY <1>0, <1>1, <1>4 DEF Indexed, Apart, Paid, Unpaid
<1> QED BY <1>1, <1>4, <1>5 DEF n

-----------------------------------------------------------------------------
(* The steps of the handlers. *)

\* What an exchange carries, and where that must point.
ExchangesIndexed(x, n) ==
    /\ x \in [Handlers -> Exchanges]
    /\ \A h \in Handlers :
          /\ x[h].route.index \in 0 .. n
          /\ x[h].phase \in {"forwarded", "answered", "ended"} => x[h].route.index # 0

LEMMA TypeOKParts ==
    TypeOK <=> /\ router \in Routers /\ Indexed(router)
               /\ ExchangesIndexed(exchange, Len(router.ids))
               /\ sent \in Nat /\ starts \in Nat /\ accepts \in Nat
               /\ live \subseteq Ids /\ learnt \subseteq Ids
               /\ home \in [Ids -> 0 .. Len(router.ids)]
BY DEF TypeOK, Indexed, ExchangesIndexed

\* An exchange replaced by one that is as well indexed, among sessions that are
\* no fewer.
LEMMA ExchangeStep ==
    ASSUME NEW n \in Nat, NEW m \in Nat, n <= m, NEW x, ExchangesIndexed(x, n),
           NEW h \in Handlers, NEW e \in Exchanges, e.route.index \in 0 .. m,
           e.phase \in {"forwarded", "answered", "ended"} => e.route.index # 0
    PROVE  ExchangesIndexed([x EXCEPT ![h] = e], m)
BY DEF ExchangesIndexed

LEMMA ExchangeFields ==
    /\ \A e \in Exchanges : /\ e.phase \in Phases /\ e.id \in MaybeIds /\ e.kind \in Kinds
                            /\ e.route \in Routes /\ e.ok \in BOOLEAN /\ e.given \in MaybeIds
    /\ Idle \in Exchanges /\ Idle.route.index = 0 /\ Idle.phase = "idle"
BY DEF Exchanges, Idle, Phases, Kinds, Routes, NoRoute, MaybeIds

\* It holds before the first request: no file, no route, no accepted id.
THEOREM InitInv == Init => IInv
<1> SUFFICES ASSUME Init PROVE IInv
  OBVIOUS
<1>1. /\ router.ids = <<>> /\ router.current = 0 /\ router.unseen = 0
      /\ router.byId = [id \in Ids |-> 0]
  BY DEF Init, NewRouter
<1>2. router \in Routers /\ Len(router.ids) = 0
  BY DEF Init, NewRouter, Routers
<1>3. Indexed(router)
  BY <1>1, <1>2 DEF Indexed
<1>4. ExchangesIndexed(exchange, 0)
  BY ExchangeFields DEF Init, ExchangesIndexed
<1>5. TypeOK
  BY <1>2, <1>3, <1>4, TypeOKParts, RoutingAssumption DEF Init
<1>6. UnseenIsNotCurrent /\ Paid(router, starts, accepts)
  BY <1>1, <1>2 DEF Init, UnseenIsNotCurrent, Paid, Unpaid
<1> QED BY <1>5, <1>6 DEF IInv

\* The steps that leave the router alone.
LEMMA QuietStep ==
    ASSUME IInv, NEW h \in Handlers, NEW e \in Exchanges,
           e.route.index \in 0 .. Len(router.ids),
           e.phase \in {"forwarded", "answered", "ended"} => e.route.index # 0,
           exchange' = [exchange EXCEPT ![h] = e],
           UNCHANGED <<router, learnt, starts, accepts>>,
           sent' \in Nat, live' \subseteq Ids, home' \in [Ids -> 0 .. Len(router.ids)]
    PROVE  IInv'
<1>1. Len(router.ids) \in Nat /\ ExchangesIndexed(exchange, Len(router.ids))
  BY TypeOKParts, RouterFields DEF IInv
<1> DEFINE n == Len(router.ids)
<1>2. n \in Nat /\ n <= n /\ ExchangesIndexed(exchange, n) /\ e.route.index \in 0 .. n
  BY <1>1
<1> HIDE DEF n
<1>3. ExchangesIndexed([exchange EXCEPT ![h] = e], n)
  BY <1>2, ExchangeStep
<1> USE DEF n
<1>4. TypeOK'
  BY <1>3, TypeOKParts DEF IInv, TypeOK, ExchangesIndexed
<1> QED BY <1>4 DEF IInv, UnseenIsNotCurrent, Paid, Unpaid

LEMMA SendInv ==
    ASSUME IInv, NEW h \in Handlers, NEW id \in MaybeIds, NEW kind \in Kinds, Send(h, id, kind)
    PROVE  IInv'
<1> DEFINE e == [Idle EXCEPT !.phase = "sending", !.id = id, !.kind = kind]
<1>1. \A x \in Exchanges : [x EXCEPT !.phase = "sending", !.id = id, !.kind = kind] \in Exchanges
  BY DEF Exchanges, Phases
<1>2. \A x \in Exchanges :
         [x EXCEPT !.phase = "sending", !.id = id, !.kind = kind].route = x.route
  BY DEF Exchanges
<1>3. \A x \in Exchanges :
         [x EXCEPT !.phase = "sending", !.id = id, !.kind = kind].phase = "sending"
  BY DEF Exchanges
<1>4. e \in Exchanges /\ e.route.index = 0 /\ e.phase = "sending"
  BY <1>1, <1>2, <1>3, ExchangeFields
<1>5. /\ exchange' = [exchange EXCEPT ![h] = e] /\ UNCHANGED <<router, learnt, starts, accepts>>
      /\ sent' \in Nat /\ live' = live /\ home' = home
  BY DEF Send, IInv, TypeOK
<1>6. /\ Len(router.ids) \in Nat /\ live \subseteq Ids
      /\ home \in [Ids -> 0 .. Len(router.ids)]
  BY TypeOKParts, RouterFields DEF IInv
<1>7. live' \subseteq Ids /\ home' \in [Ids -> 0 .. Len(router.ids)]
      /\ e.route.index \in 0 .. Len(router.ids) /\ e.phase \notin {"forwarded", "answered", "ended"}
  BY <1>4, <1>5, <1>6
<1> HIDE DEF e
<1> QED BY <1>4, <1>5, <1>7, QuietStep

LEMMA FailInv == ASSUME IInv, NEW h \in Handlers, Fail(h) PROVE IInv'
<1>1. /\ exchange' = [exchange EXCEPT ![h] = Idle] /\ UNCHANGED <<router, learnt, starts, accepts>>
      /\ sent' = sent /\ live' = live /\ home' = home
  BY DEF Fail
<1>2. /\ Len(router.ids) \in Nat /\ live \subseteq Ids /\ sent \in Nat
      /\ home \in [Ids -> 0 .. Len(router.ids)]
  BY TypeOKParts, RouterFields DEF IInv
<1>3. /\ sent' \in Nat /\ live' \subseteq Ids /\ home' \in [Ids -> 0 .. Len(router.ids)]
      /\ Idle.route.index \in 0 .. Len(router.ids)
      /\ Idle.phase \notin {"forwarded", "answered", "ended"} /\ Idle \in Exchanges
  BY <1>1, <1>2, ExchangeFields
<1> QED BY <1>1, <1>3, QuietStep

LEMMA AnswerInv ==
    ASSUME IInv, NEW h \in Handlers, NEW ok \in BOOLEAN, NEW given \in MaybeIds,
           Answer(h, ok, given)
    PROVE  IInv'
<1> DEFINE old == exchange[h]
           e == [old EXCEPT !.phase = "answered", !.ok = ok, !.given = given]
<1>1. /\ Len(router.ids) \in Nat /\ live \subseteq Ids /\ sent \in Nat
      /\ home \in [Ids -> 0 .. Len(router.ids)] /\ old \in Exchanges
      /\ old.route.index \in 0 .. Len(router.ids) /\ old.route.index # 0
  BY TypeOKParts, RouterFields DEF IInv, Answer, ExchangesIndexed
<1>2. e \in Exchanges /\ e.route = old.route
  BY <1>1 DEF Exchanges, Phases
<1>3. /\ exchange' = [exchange EXCEPT ![h] = e] /\ UNCHANGED <<router, learnt, starts, accepts>>
      /\ sent' = sent
  BY DEF Answer
<1>4. live' \subseteq Ids
  BY <1>1 DEF Answer, Assignable
<1>5. home' \in [Ids -> 0 .. Len(router.ids)]
  BY <1>1 DEF Answer
<1> HIDE DEF e, old
<1> QED BY <1>1, <1>2, <1>3, <1>4, <1>5, QuietStep

LEMMA RouteRequestInv == ASSUME IInv, NEW h \in Handlers, RouteRequest(h) PROVE IInv'
<1> DEFINE old == exchange[h]
           x == Route(router, old.id, old.kind = "initialize")
           e == [old EXCEPT !.phase = "forwarded", !.route = x.route]
           t == IF old.id = NoId /\ old.kind = "initialize" THEN starts + 1 ELSE starts
<1>1. /\ router \in Routers /\ Indexed(router) /\ Apart(router) /\ Paid(router, starts, accepts)
      /\ starts \in Nat /\ accepts \in Nat /\ sent \in Nat /\ Len(router.ids) \in Nat
      /\ live \subseteq Ids /\ learnt \subseteq Ids /\ home \in [Ids -> 0 .. Len(router.ids)]
      /\ old \in Exchanges /\ old.id \in MaybeIds
      /\ ExchangesIndexed(exchange, Len(router.ids))
  BY TypeOKParts, RouterFields, ExchangeFields
     DEF IInv, UnseenIsNotCurrent, Apart, ExchangesIndexed
<1>2. /\ x.router \in Routers /\ Indexed(x.router) /\ Apart(x.router)
      /\ Len(x.router.ids) \in Nat /\ Len(router.ids) <= Len(x.router.ids)
      /\ x.route \in Routes /\ x.route.index \in 1 .. Len(x.router.ids)
      /\ Paid(x.router, t, accepts)
  BY <1>1, RouteKeeps
<1>3. e \in Exchanges /\ e.route = x.route
  BY <1>1, <1>2 DEF Exchanges, Phases
<1>4. /\ router' = x.router /\ exchange' = [exchange EXCEPT ![h] = e] /\ starts' = t
      /\ UNCHANGED <<sent, live, learnt, home, accepts>>
  BY DEF RouteRequest
<1> HIDE DEF x, e, old
<1>5. ExchangesIndexed([exchange EXCEPT ![h] = e], Len(x.router.ids))
  BY <1>1, <1>2, <1>3, ExchangeStep
<1>6. home' \in [Ids -> 0 .. Len(router'.ids)]
  BY <1>1, <1>2, <1>4
<1>7. t \in Nat
  BY <1>1
<1> HIDE DEF t
<1>8. TypeOK'
  BY <1>1, <1>2, <1>4, <1>5, <1>6, <1>7, TypeOKParts DEF TypeOK, Indexed, ExchangesIndexed
<1> QED BY <1>2, <1>4, <1>8 DEF IInv, UnseenIsNotCurrent, Apart

\* The steps that tell the router how the server answered.
LEMMA ToldStep ==
    ASSUME IInv, NEW h \in Handlers, NEW e \in Exchanges,
           e.route.index \in 0 .. Len(router.ids),
           e.phase \in {"forwarded", "answered", "ended"} => e.route.index # 0,
           exchange' = [exchange EXCEPT ![h] = e],
           UNCHANGED <<sent, live, home, starts>>,
           learnt' \subseteq Ids, accepts' \in Nat,
           router' \in Routers, Indexed(router'), Apart(router'),
           Len(router'.ids) = Len(router.ids), Paid(router', starts, accepts')
    PROVE  IInv'
<1>1. Len(router.ids) \in Nat /\ ExchangesIndexed(exchange, Len(router.ids))
  BY TypeOKParts, RouterFields DEF IInv
<1> DEFINE n == Len(router.ids)
<1>2. n \in Nat /\ n <= n /\ ExchangesIndexed(exchange, n) /\ e.route.index \in 0 .. n
  BY <1>1
<1> HIDE DEF n
<1>3. ExchangesIndexed([exchange EXCEPT ![h] = e], n)
  BY <1>2, ExchangeStep
<1> USE DEF n
<1>4. TypeOK'
  BY <1>3, TypeOKParts DEF IInv, TypeOK, Indexed, ExchangesIndexed
<1> QED BY <1>4 DEF IInv, UnseenIsNotCurrent, Apart

LEMMA EndSessionInv == ASSUME IInv, NEW h \in Handlers, EndSession(h) PROVE IInv'
<1> DEFINE old == exchange[h]
           e == [old EXCEPT !.phase = "ended"]
<1>1. /\ router \in Routers /\ Indexed(router) /\ Apart(router) /\ Paid(router, starts, accepts)
      /\ starts \in Nat /\ accepts \in Nat /\ learnt \subseteq Ids
      /\ old \in Exchanges /\ old.id \in MaybeIds
      /\ old.route.index \in 0 .. Len(router.ids) /\ old.route.index # 0
  BY TypeOKParts, ExchangeFields
     DEF IInv, UnseenIsNotCurrent, Apart, ExchangesIndexed, EndSession
<1>2. old.id \in Ids
  BY <1>1 DEF EndSession, Ending, MaybeIds
<1>3. e \in Exchanges /\ e.route = old.route
  BY <1>1 DEF Exchanges, Phases
<1>4. /\ router' = End(router, old.id) /\ exchange' = [exchange EXCEPT ![h] = e]
      /\ UNCHANGED <<sent, live, learnt, home, starts, accepts>>
  BY <1>1 DEF EndSession, ExchangesIndexed
<1> HIDE DEF e, old
<1>5. /\ router' \in Routers /\ Indexed(router') /\ Apart(router')
      /\ Len(router'.ids) = Len(router.ids) /\ Paid(router', starts, accepts')
  BY <1>1, <1>2, <1>4, EndKeeps
<1> QED BY <1>1, <1>3, <1>4, <1>5, ToldStep

LEMMA RespondToInv == ASSUME IInv, NEW h \in Handlers, RespondTo(h) PROVE IInv'
<1> DEFINE old == exchange[h]
<1>1. /\ router \in Routers /\ Indexed(router) /\ Apart(router) /\ Paid(router, starts, accepts)
      /\ starts \in Nat /\ accepts \in Nat /\ learnt \subseteq Ids /\ Len(router.ids) \in Nat
      /\ old \in Exchanges /\ old.route \in Routes /\ old.given \in MaybeIds /\ old.ok \in BOOLEAN
      /\ old.route.index \in 0 .. Len(router.ids) /\ old.route.index # 0
  BY TypeOKParts, ExchangeFields, RouterFields
     DEF IInv, UnseenIsNotCurrent, Apart, ExchangesIndexed, RespondTo
<1>2. /\ router' = Respond(router, old.route, old.given, old.ok)
      /\ exchange' = [exchange EXCEPT ![h] = Idle]
      /\ accepts' = IF Accepts(router, old.route, old.ok) THEN accepts + 1 ELSE accepts
      /\ learnt' = IF old.given # NoId THEN learnt \union {old.given} ELSE learnt
      /\ UNCHANGED <<sent, live, home, starts>>
  BY DEF RespondTo
<1> HIDE DEF old
<1>3. old.route.index \in 1 .. Len(router.ids)
  BY <1>1
<1>4. /\ router' \in Routers /\ Indexed(router') /\ Apart(router')
      /\ Len(router'.ids) = Len(router.ids) /\ Paid(router', starts, accepts')
  BY <1>1, <1>2, <1>3, RespondKeeps
<1>5. learnt' \subseteq Ids /\ accepts' \in Nat
  BY <1>1, <1>2 DEF MaybeIds
<1>6. /\ Idle.route.index \in 0 .. Len(router.ids) /\ Idle \in Exchanges
      /\ Idle.phase \notin {"forwarded", "answered", "ended"}
  BY <1>1, ExchangeFields
<1> QED BY <1>2, <1>4, <1>5, <1>6, ToldStep

LEMMA NextInv == IInv /\ [Next]_vars => IInv'
<1> SUFFICES ASSUME IInv, [Next]_vars PROVE IInv'
  OBVIOUS
<1>1. CASE Next
  <2>1. PICK h \in Handlers :
           \/ \E id \in MaybeIds, kind \in Kinds : Send(h, id, kind)
           \/ RouteRequest(h)
           \/ Fail(h)
           \/ \E ok \in BOOLEAN, given \in MaybeIds : Answer(h, ok, given)
           \/ EndSession(h)
           \/ RespondTo(h)
    BY <1>1 DEF Next
  <2> QED BY <2>1, SendInv, RouteRequestInv, FailInv, AnswerInv, EndSessionInv, RespondToInv
<1>2. CASE UNCHANGED vars
  BY <1>2 DEF vars, IInv, TypeOK, UnseenIsNotCurrent, Paid, Unpaid
<1> QED BY <1>1, <1>2

-----------------------------------------------------------------------------
\* The inductive invariant of the exchanges holds in every reachable state.
THEOREM Invariance == Spec => []IInv
<1>1. Init => IInv
  BY InitInv
<1>2. IInv /\ [Next]_vars => IInv'
  BY NextInv
<1> QED BY <1>1, <1>2, PTL DEF Spec

\* No index the router keeps or a handler carries is out of bounds: `sessions
\* [index]` in traces.rs does not panic, whatever clients and servers say.
THEOREM TypeCorrect == Spec => []TypeOK
<1>1. IInv => TypeOK
  BY DEF IInv
<1> QED BY <1>1, Invariance, PTL

\* Requests without an id never join the trace kept for ids the server has not
\* accepted (traces.rs:10-16).
THEOREM UnseenIsNeverCurrent == Spec => []UnseenIsNotCurrent
<1>1. IInv => UnseenIsNotCurrent
  BY DEF IInv
<1> QED BY <1>1, Invariance, PTL

\* However many ids clients invent, the traces are at most the initializes, the
\* acceptances and two (traces.rs:16-18).
THEOREM FilesAreBounded == Spec => []FilesAreNotPerInventedId
<1>1. IInv => FilesAreNotPerInventedId
  <2> SUFFICES ASSUME IInv PROVE FilesAreNotPerInventedId
    OBVIOUS
  <2>1. Len(router.ids) \in Nat /\ starts \in Nat /\ accepts \in Nat
    BY TypeOKParts, RouterFields DEF IInv
  <2> QED BY <2>1 DEF IInv, Paid, Unpaid, FilesAreNotPerInventedId
<1> QED BY <1>1, Invariance, PTL

\* Who may change what an id is mapped to: an end, which forgets the id of its
\* own exchange, and an answer, which never moves an id that has a trace.
LEMMA StepMoves ==
    ASSUME IInv, [Next]_vars, NEW id \in Ids, router.byId[id] # 0,
           router'.byId[id] # router.byId[id]
    PROVE  /\ router'.byId[id] = 0
           /\ \E h \in Handlers : /\ exchange[h].id = id
                                  /\ exchange[h].kind = "delete"
                                  /\ exchange[h].ok
<1>0. /\ router \in Routers /\ Indexed(router) /\ Apart(router) /\ Paid(router, starts, accepts)
      /\ starts \in Nat /\ accepts \in Nat /\ Len(router.ids) \in Nat
      /\ \A h \in Handlers : exchange[h] \in Exchanges
      /\ \A h \in Handlers : exchange[h].route.index \in 0 .. Len(router.ids)
      /\ \A h \in Handlers : exchange[h].phase \in {"forwarded", "answered", "ended"} =>
                                exchange[h].route.index # 0
  BY TypeOKParts, RouterFields DEF IInv, UnseenIsNotCurrent, Apart, ExchangesIndexed
<1>1. PICK h \in Handlers : RouteRequest(h) \/ EndSession(h) \/ RespondTo(h)
  BY DEF Next, vars, Send, Fail, Answer
<1>2. exchange[h] \in Exchanges /\ exchange[h].id \in MaybeIds /\ exchange[h].route \in Routes
      /\ exchange[h].given \in MaybeIds /\ exchange[h].ok \in BOOLEAN
  BY <1>0, ExchangeFields
<1>3. ~RouteRequest(h)
  <2> SUFFICES ASSUME RouteRequest(h) PROVE FALSE
    OBVIOUS
  <2>1. router' = Route(router, exchange[h].id, exchange[h].kind = "initialize").router
    BY DEF RouteRequest
  <2>2. router'.byId = router.byId
    BY <1>0, <1>2, <2>1, RouteKeeps
  <2> QED BY <2>2
<1>4. ~RespondTo(h)
  <2> SUFFICES ASSUME RespondTo(h) PROVE FALSE
    OBVIOUS
  <2>1. router' = Respond(router, exchange[h].route, exchange[h].given, exchange[h].ok)
        /\ exchange[h].route.index \in 1 .. Len(router.ids)
    BY <1>0 DEF RespondTo
  <2>2. router'.byId[id] = router.byId[id]
    BY <1>0, <1>2, <2>1, RespondKeeps
  <2> QED BY <2>2
<1>5. EndSession(h) /\ router' = End(router, exchange[h].id) /\ exchange[h].id \in Ids
      /\ exchange[h].kind = "delete" /\ exchange[h].ok
  BY <1>1, <1>2, <1>3, <1>4 DEF EndSession, Ending, MaybeIds
<1>6. router'.byId[exchange[h].id] = 0
      /\ \A other \in Ids \ {exchange[h].id} : router'.byId[other] = router.byId[other]
  BY <1>0, <1>5, EndKeeps
<1>7. exchange[h].id = id
  BY <1>6
<1> QED BY <1>5, <1>6, <1>7

\* An id that has a trace keeps it until its session is ended: no late answer to
\* an older exchange moves it (traces.rs:184-195).
THEOREM KnownIdsStay == Spec => KnownIdsDoNotMove
<1>1. IInv /\ [Next]_vars =>
        \A id \in Ids : router.byId[id] # 0 => router'.byId[id] \in {0, router.byId[id]}
  BY StepMoves
<1> QED BY <1>1, Invariance, PTL DEF Spec, KnownIdsDoNotMove

\* Only a session's own DELETE, answered 2xx, makes the router forget its id.
THEOREM OnlyItsDeleteForgets == Spec => OnlyDeleteForgets
<1>1. IInv /\ [Next]_vars =>
        \A id \in Ids :
          router.byId[id] # 0 /\ router'.byId[id] = 0 =>
             \E h \in Handlers : /\ exchange[h].id = id
                                 /\ exchange[h].kind = "delete"
                                 /\ exchange[h].ok
  BY StepMoves
<1> QED BY <1>1, Invariance, PTL DEF Spec, OnlyDeleteForgets

-----------------------------------------------------------------------------
(* Sessions of clients and servers that keep to the rules.                 *)

InFlight(h) == exchange[h].phase \in {"forwarded", "answered", "ended"}

\* An initialize that began a session and has not been answered to its client.
Own(h) == InFlight(h) /\ exchange[h].id = NoId /\ exchange[h].kind = "initialize"

IndexOf(h) == exchange[h].route.index

\* Session k began with an initialize that is in flight or was given an id.
Reserved(k) == (\E a \in Ids : home[a] = k) \/ (\E h \in Handlers : Own(h) /\ IndexOf(h) = k)

HomesApart ==
    /\ \A a \in Ids : home[a] # 0 => a \notin Strange
    /\ \A a, b \in Ids : home[a] # 0 /\ home[a] = home[b] => a = b
    /\ \A a \in live \union learnt : a \in Strange \/ home[a] # 0

\* What the client names it was given, and what the server names it was sent or
\* assigns on the answer to an initialize.
Named ==
    /\ \A h \in Handlers :
          /\ exchange[h].phase # "idle" => exchange[h].id \in learnt \union Strange \union {NoId}
          /\ exchange[h].phase \in {"sending", "forwarded"} => exchange[h].given = NoId
          /\ exchange[h].given # NoId /\ exchange[h].given # exchange[h].id => Own(h)
          /\ Own(h) /\ exchange[h].given # NoId =>
                exchange[h].given \notin learnt /\ home[exchange[h].given] = IndexOf(h)
          /\ InFlight(h) /\ exchange[h].route.unseen # NoId =>
                exchange[h].route.unseen = exchange[h].id
          /\ exchange[h].phase \in {"answered", "ended"} /\ Ending(exchange[h]) =>
                exchange[h].id \notin live

\* The session an initialize in flight began is its alone, and has no name yet.
OwnApart ==
    \A h \in Handlers : Own(h) =>
        /\ router.ids[IndexOf(h)] = NoId
        /\ exchange[h].given = NoId => \A a \in Ids : home[a] # IndexOf(h)
        /\ \A g \in Handlers : Own(g) /\ IndexOf(g) = IndexOf(h) => g = h

\* Such a session is reached by its own id only, and that once it was given.
ReachedByItsId ==
    /\ router.unseen # 0 => ~Reserved(router.unseen)
    /\ \A a \in Ids :
          /\ router.byId[a] # 0 /\ Reserved(router.byId[a]) => router.byId[a] = home[a]
          /\ a \in learnt \union Strange \/ router.byId[a] = 0
          /\ a \in live \intersect learnt /\ a \notin Strange => router.byId[a] = home[a]
    /\ \A h \in Handlers : InFlight(h) /\ exchange[h].id # NoId /\ Reserved(IndexOf(h)) =>
          IndexOf(h) = home[exchange[h].id] /\ exchange[h].route.unseen = NoId

SInv == HomesApart /\ Named /\ OwnApart /\ ReachedByItsId

LEMMA InitSettled == Init => SInv
<1> SUFFICES ASSUME Init PROVE SInv
  OBVIOUS
<1>1. /\ router.byId = [id \in Ids |-> 0] /\ router.unseen = 0
      /\ live \subseteq Strange /\ learnt = {} /\ home = [id \in Ids |-> 0]
      /\ \A h \in Handlers : exchange[h].phase = "idle" /\ exchange[h].given = NoId
  BY DEF Init, NewRouter, Idle
<1>2. \A h \in Handlers : ~InFlight(h) /\ ~Own(h)
  BY <1>1 DEF InFlight, Own
<1>3. HomesApart /\ OwnApart
  BY <1>1, <1>2, RoutingAssumption DEF HomesApart, OwnApart
<1>4. Named
  BY <1>1, <1>2 DEF Named
<1>5. ReachedByItsId
  BY <1>1, <1>2 DEF ReachedByItsId, Reserved
<1> QED BY <1>3, <1>4, <1>5 DEF SInv

\* What the steps below read of the types.
Typed ==
    /\ router \in Routers /\ Len(router.ids) \in Nat
    /\ router.unseen \in 0 .. Len(router.ids)
    /\ \A id \in Ids : router.byId[id] \in 0 .. Len(router.ids)
    /\ \A id \in Ids : home[id] \in 0 .. Len(router.ids)
    /\ live \subseteq Ids /\ learnt \subseteq Ids
    /\ \A h \in Handlers : exchange[h] \in Exchanges /\ exchange[h].route \in Routes
    /\ \A h \in Handlers : exchange[h].id \in MaybeIds /\ exchange[h].given \in MaybeIds
    /\ \A h \in Handlers : exchange[h].ok \in BOOLEAN
    /\ \A h \in Handlers : InFlight(h) => IndexOf(h) \in 1 .. Len(router.ids)

LEMMA InvTyped == ASSUME IInv PROVE Typed
<1>1. /\ router \in Routers /\ Indexed(router) /\ Len(router.ids) \in Nat
      /\ ExchangesIndexed(exchange, Len(router.ids))
      /\ live \subseteq Ids /\ learnt \subseteq Ids
      /\ home \in [Ids -> 0 .. Len(router.ids)]
  BY TypeOKParts, RouterFields DEF IInv
<1>2. \A h \in Handlers : exchange[h] \in Exchanges
  BY <1>1 DEF ExchangesIndexed
<1>3. \A h \in Handlers : InFlight(h) => IndexOf(h) \in 1 .. Len(router.ids)
  BY <1>1 DEF ExchangesIndexed, InFlight, IndexOf
<1> QED BY <1>1, <1>2, <1>3, ExchangeFields DEF Typed, Indexed

\* Handler h goes on as e, and no other handler moves.
Moved(h, e) ==
    /\ exchange'[h] = e
    /\ \A g \in Handlers \ {h} :
          /\ exchange'[g] = exchange[g]
          /\ (InFlight(g)' <=> InFlight(g)) /\ (Own(g)' <=> Own(g))
          /\ IndexOf(g)' = IndexOf(g)

LEMMA Moving ==
    ASSUME IInv, NEW h \in Handlers, NEW e, exchange' = [exchange EXCEPT ![h] = e]
    PROVE  Moved(h, e)
<1>1. exchange \in [Handlers -> Exchanges]
  BY DEF IInv, TypeOK
<1>2. exchange'[h] = e /\ \A g \in Handlers \ {h} : exchange'[g] = exchange[g]
  BY <1>1
<1> QED BY <1>2 DEF Moved, InFlight, Own, IndexOf

\* A step of h that leaves router, ids and homes alone, to a phase in which
\* nothing is in flight, keeps all but what Named says of h.
LEMMA GroundedStep ==
    ASSUME Typed, SInv, NEW h \in Handlers, NEW e, Moved(h, e),
           UNCHANGED <<router, live, learnt, home>>,
           e.phase \notin {"forwarded", "answered", "ended"},
           e.phase # "idle" => e.id \in learnt \union Strange \union {NoId},
           e.given = NoId
    PROVE  SInv'
<1>1. ~InFlight(h)' /\ ~Own(h)'
  BY DEF Moved, InFlight, Own
<1>2. HomesApart'
  BY DEF SInv, HomesApart
<1>3. \A k : Reserved(k)' => Reserved(k)
  BY <1>1 DEF Reserved, Moved
<1>4. Named'
  BY <1>1 DEF SInv, Named, Moved, InFlight
<1>5. OwnApart'
  BY <1>1 DEF SInv, OwnApart, Moved
<1>6. ReachedByItsId'
  BY <1>1, <1>3 DEF SInv, ReachedByItsId, Moved
<1> QED BY <1>2, <1>4, <1>5, <1>6 DEF SInv

LEMMA SendSettled ==
    ASSUME Orderly, IInv, SInv, NEW h \in Handlers, NEW id \in MaybeIds, NEW kind \in Kinds,
           Send(h, id, kind)
    PROVE  SInv'
<1> DEFINE e == [Idle EXCEPT !.phase = "sending", !.id = id, !.kind = kind]
<1>1. /\ e.phase = "sending" /\ e.id = id /\ e.given = NoId
      /\ exchange' = [exchange EXCEPT ![h] = e] /\ UNCHANGED <<router, live, learnt, home>>
      /\ id \in learnt \union Strange \union {NoId}
  BY DEF Send, Idle
<1> HIDE DEF e
<1>2. Typed /\ Moved(h, e)
  BY <1>1, InvTyped, Moving
<1> QED BY <1>1, <1>2, GroundedStep

LEMMA FailSettled == ASSUME IInv, SInv, NEW h \in Handlers, Fail(h) PROVE SInv'
<1>1. /\ exchange' = [exchange EXCEPT ![h] = Idle] /\ UNCHANGED <<router, live, learnt, home>>
      /\ Idle.phase = "idle" /\ Idle.given = NoId
  BY DEF Fail, Idle
<1> HIDE DEF Idle
<1>2. Typed /\ Moved(h, Idle)
  BY <1>1, InvTyped, Moving
<1> QED BY <1>1, <1>2, GroundedStep

\* What routing makes of the router: it moves no id, begins at most one
\* session, which has no id yet, and that for an initialize without one.
LEMMA Routed ==
    ASSUME NEW r \in Routers, Indexed(r), NEW id \in MaybeIds, NEW initialize \in BOOLEAN
    PROVE  LET x == Route(r, id, initialize)
               fresh == Len(r.ids) + 1
           IN  /\ x.router.byId = r.byId
               /\ \A k \in 1 .. Len(r.ids) : x.router.ids[k] = r.ids[k]
               /\ x.router.unseen \in {r.unseen, fresh}
               /\ id = NoId /\ initialize =>
                     /\ x.route.index = fresh /\ x.router.ids[fresh] = NoId
                     /\ x.router.unseen = r.unseen /\ x.route.unseen = NoId
               /\ id # NoId =>
                     \/ x.route.unseen = NoId /\ x.route.index = r.byId[id] /\ r.byId[id] # 0
                     \/ x.route.unseen = id /\ x.route.index = fresh
                     \/ x.route.unseen = id /\ x.route.index = r.unseen
               /\ x.route.unseen \in {NoId, id}
<1> DEFINE x == Route(r, id, initialize)
           fresh == Len(r.ids) + 1
<1>0. /\ r.ids \in Seq(MaybeIds) /\ Len(r.ids) \in Nat /\ NoId \in MaybeIds
      /\ r.unseen \in Nat /\ r.byId \in [Ids -> Nat]
  BY RouterFields DEF MaybeIds
<1>1. /\ \A k \in 1 .. Len(r.ids) : Append(r.ids, NoId)[k] = r.ids[k]
      /\ Append(r.ids, NoId)[fresh] = NoId
  BY <1>0
<1>2. \A q \in {BegunCurrent(r), BegunUnseen(r)} : q.ids = Append(r.ids, NoId)
  BY DEF BegunCurrent, BegunUnseen, Begun, Routers
<1>3. \A q \in {r, BegunCurrent(r), BegunUnseen(r)} : q.byId = r.byId
  BY BegunCurrentFields, BegunUnseenFields
<1>4. /\ BegunCurrent(r).unseen = r.unseen /\ BegunUnseen(r).unseen = fresh
  BY BegunCurrentFields, BegunUnseenFields
<1>5. \A q \in {r, BegunCurrent(r), BegunUnseen(r)} :
         \A k \in 1 .. Len(r.ids) : q.ids[k] = r.ids[k]
  BY <1>1, <1>2
<1>6. /\ BegunCurrent(r).ids[fresh] = NoId
      /\ \A q \in {r, BegunCurrent(r), BegunUnseen(r)} : q.unseen \in {r.unseen, fresh}
  BY <1>1, <1>2, <1>4
<1> HIDE DEF fresh
<1>7. CASE id # NoId /\ Known(r, id)
  <2>1. x = Routing(r, r.byId[id], NoId) /\ r.byId[id] # 0
    BY <1>7 DEF Route, Known
  <2> QED BY <1>5, <1>6, <1>7, <2>1 DEF Routing, fresh
<1>8. CASE id # NoId /\ ~Known(r, id) /\ r.unseen # 0
  <2>1. x = Routing(r, r.unseen, id)
    BY <1>8 DEF Route
  <2> QED BY <1>5, <1>6, <1>8, <2>1 DEF Routing, fresh
<1>9. CASE id # NoId /\ ~Known(r, id) /\ r.unseen = 0
  <2>1. x = Routing(BegunUnseen(r), fresh, id)
    BY <1>9 DEF Route, fresh
  <2> QED BY <1>3, <1>5, <1>6, <1>9, <2>1 DEF Routing, fresh
<1>10. CASE id = NoId /\ (initialize \/ r.current = 0)
  <2>1. x = Routing(BegunCurrent(r), fresh, NoId)
    BY <1>10 DEF Route, fresh
  <2> QED BY <1>3, <1>4, <1>5, <1>6, <1>10, <2>1 DEF Routing, fresh
<1>11. CASE id = NoId /\ ~initialize /\ r.current # 0
  <2>1. x = Routing(r, r.current, NoId)
    BY <1>11 DEF Route
  <2> QED BY <1>5, <1>6, <1>11, <2>1 DEF Routing, fresh
<1> QED BY <1>7, <1>8, <1>9, <1>10, <1>11

\* A session that begins is nobody's yet; one that had begun stays whose it was.
LEMMA RouteRequestSettled ==
    ASSUME IInv, SInv, NEW h \in Handlers, RouteRequest(h) PROVE SInv'
<1> DEFINE old == exchange[h]
           x == Route(router, old.id, old.kind = "initialize")
           e == [old EXCEPT !.phase = "forwarded", !.route = x.route]
           fresh == Len(router.ids) + 1
<1>1. /\ Typed /\ old \in Exchanges /\ old.id \in MaybeIds /\ Indexed(router)
      /\ router \in Routers
  BY InvTyped, TypeOKParts DEF Typed, IInv
<1>2. /\ e.phase = "forwarded" /\ e.id = old.id /\ e.kind = old.kind /\ e.given = old.given
      /\ e.route = x.route
  BY <1>1 DEF Exchanges
<1>3. /\ exchange' = [exchange EXCEPT ![h] = e] /\ router' = x.router
      /\ UNCHANGED <<live, learnt, home>> /\ old.phase = "sending"
  BY DEF RouteRequest
<1>4. /\ router'.byId = router.byId
      /\ \A k \in 1 .. Len(router.ids) : router'.ids[k] = router.ids[k]
      /\ router'.unseen \in {router.unseen, fresh}
      /\ old.id = NoId /\ old.kind = "initialize" =>
            /\ e.route.index = fresh /\ router'.ids[fresh] = NoId
            /\ router'.unseen = router.unseen /\ e.route.unseen = NoId
      /\ old.id # NoId =>
            \/ /\ e.route.unseen = NoId /\ e.route.index = router.byId[old.id]
               /\ router.byId[old.id] # 0
            \/ e.route.unseen = old.id /\ e.route.index = fresh
            \/ e.route.unseen = old.id /\ e.route.index = router.unseen
      /\ e.route.unseen \in {NoId, old.id}
  <2> DEFINE initialize == old.kind = "initialize"
  <2>1. initialize \in BOOLEAN
    OBVIOUS
  <2>2. x = Route(router, old.id, initialize) /\ e.route = x.route /\ router' = x.router
    BY <1>2, <1>3
  <2>3. initialize <=> old.kind = "initialize"
    OBVIOUS
  <2> HIDE DEF initialize, x, e, old
  <2> QED BY <1>1, <2>1, <2>2, <2>3, Routed
<1> HIDE DEF e, x
<1>5. Moved(h, e)
  BY <1>3, Moving
<1>6. /\ InFlight(h)' /\ ~InFlight(h) /\ IndexOf(h)' = e.route.index
      /\ (Own(h)' <=> old.id = NoId /\ old.kind = "initialize")
  BY <1>2, <1>3, <1>5 DEF Moved, InFlight, Own, IndexOf
<1>7. /\ fresh \notin 0 .. Len(router.ids) /\ ~Reserved(fresh)
  <2>1. fresh \notin 0 .. Len(router.ids)
    BY <1>1 DEF Typed
  <2> QED BY <1>1, <2>1 DEF Reserved, Typed, Own
<1>8. \A g \in Handlers \ {h} : InFlight(g) => IndexOf(g) \in 1 .. Len(router.ids)
  BY <1>1 DEF Typed
<1>9. \A k : Reserved(k)' => Reserved(k) \/ (k = fresh /\ Own(h)')
  BY <1>3, <1>4, <1>5, <1>6 DEF Reserved, Moved
<1> HIDE DEF fresh, old
<1>10. HomesApart'
  BY <1>3 DEF SInv, HomesApart
<1>11. Named'
  <2>1. old.given = NoId /\ old.id \in learnt \union Strange \union {NoId}
    BY <1>3 DEF SInv, Named, old
  <2>2. \A g \in Handlers \ {h} :
          /\ exchange'[g].given # NoId /\ exchange'[g].given # exchange'[g].id => Own(g)'
          /\ Own(g)' /\ exchange'[g].given # NoId =>
                exchange'[g].given \notin learnt' /\ home'[exchange'[g].given] = IndexOf(g)'
    BY <1>3, <1>5 DEF SInv, Named, Moved
  <2> QED BY <1>2, <1>3, <1>4, <1>5, <1>6, <2>1, <2>2 DEF SInv, Named, Moved, Ending
<1>12. OwnApart'
  <2>1. ASSUME NEW g \in Handlers \ {h}, Own(g)'
        PROVE  /\ router'.ids[IndexOf(g)'] = NoId
               /\ exchange'[g].given = NoId => \A a \in Ids : home'[a] # IndexOf(g)'
               /\ IndexOf(g)' \in 0 .. Len(router.ids)
               /\ \A j \in Handlers \ {h} : Own(j)' /\ IndexOf(j)' = IndexOf(g)' => j = g
    <3>1. IndexOf(g) \in 1 .. Len(router.ids) /\ Own(g) /\ IndexOf(g)' = IndexOf(g)
      BY <1>5, <1>8, <2>1 DEF Own, Moved
    <3> QED BY <1>3, <1>4, <1>5, <3>1 DEF SInv, OwnApart, Moved
  <2>2. ASSUME Own(h)'
        PROVE  /\ router'.ids[IndexOf(h)'] = NoId /\ IndexOf(h)' = fresh
               /\ \A a \in Ids : home'[a] # IndexOf(h)'
    BY <1>1, <1>3, <1>4, <1>6, <1>7, <2>2 DEF Typed
  <2> QED BY <1>7, <2>1, <2>2 DEF OwnApart
<1>13. ReachedByItsId'
  <2>1. router'.unseen # 0 => ~Reserved(router.unseen)'
    <3>1. router'.unseen = fresh => ~Own(h)'
      BY <1>1, <1>4, <1>6, <1>7 DEF Typed
    <3>2. router.unseen # fresh
      BY <1>1, <1>7 DEF Typed
    <3> QED BY <1>4, <1>7, <1>9, <3>1, <3>2 DEF SInv, ReachedByItsId
  <2>2. \A a \in Ids :
          /\ router'.byId[a] # 0 /\ Reserved(router.byId[a])' => router'.byId[a] = home'[a]
          /\ a \in learnt' \union Strange \/ router'.byId[a] = 0
          /\ a \in live' \intersect learnt' /\ a \notin Strange => router'.byId[a] = home'[a]
    <3>1. \A a \in Ids : router.byId[a] # fresh
      BY <1>1, <1>7 DEF Typed
    <3> QED BY <1>3, <1>4, <1>9, <3>1 DEF SInv, ReachedByItsId
  <2>3. ASSUME NEW g \in Handlers \ {h}, InFlight(g)', exchange'[g].id # NoId,
               Reserved(IndexOf(g))'
        PROVE  IndexOf(g)' = home'[exchange'[g].id] /\ exchange'[g].route.unseen = NoId
    <3>1. /\ InFlight(g) /\ IndexOf(g)' = IndexOf(g) /\ exchange'[g] = exchange[g]
          /\ IndexOf(g) # fresh
      BY <1>5, <1>7, <1>8, <2>3 DEF Moved
    <3>2. Reserved(IndexOf(g))
      BY <1>9, <2>3, <3>1
    <3> QED BY <1>3, <2>3, <3>1, <3>2 DEF SInv, ReachedByItsId
  <2>4. ASSUME exchange'[h].id # NoId, Reserved(IndexOf(h))'
        PROVE  IndexOf(h)' = home'[exchange'[h].id] /\ exchange'[h].route.unseen = NoId
    <3>1. exchange'[h] = e /\ old.id # NoId /\ old.id \in Ids /\ ~Own(h)'
      BY <1>1, <1>2, <1>5, <1>6, <2>4 DEF Moved, MaybeIds
    <3>2. Reserved(e.route.index) /\ e.route.index # fresh
      BY <1>6, <1>7, <1>9, <2>4, <3>1
    <3>3. e.route.index # 0
      BY <1>6, RouteRequestInv DEF IInv, TypeOK, InFlight, IndexOf
    <3>4. e.route.unseen = NoId /\ e.route.index = router.byId[old.id] /\ router.byId[old.id] # 0
      BY <1>4, <3>1, <3>2, <3>3 DEF SInv, ReachedByItsId
    <3> QED BY <1>2, <1>3, <1>6, <3>1, <3>2, <3>4 DEF SInv, ReachedByItsId
  <2> QED BY <2>1, <2>2, <2>3, <2>4 DEF ReachedByItsId
<1> QED BY <1>10, <1>11, <1>12, <1>13 DEF SInv

\* An id the server assigns is new to both sides; whoever ends a session no
\* longer holds it.
LEMMA AnswerSettled ==
    ASSUME Orderly, IInv, SInv, NEW h \in Handlers, NEW ok \in BOOLEAN, NEW given \in MaybeIds,
           Answer(h, ok, given)
    PROVE  SInv'
<1> DEFINE old == exchange[h]
           e == [old EXCEPT !.phase = "answered", !.ok = ok, !.given = given]
<1>1. /\ Typed /\ old \in Exchanges /\ old.id \in MaybeIds /\ home \in [Ids -> Nat]
  BY InvTyped, TypeOKParts DEF Typed, IInv
<1>2. /\ e.phase = "answered" /\ e.id = old.id /\ e.kind = old.kind /\ e.given = given
      /\ e.route = old.route /\ e.ok = ok
  BY <1>1 DEF Exchanges
<1>3. /\ exchange' = [exchange EXCEPT ![h] = e] /\ UNCHANGED <<router, learnt>>
      /\ OrderlyAnswer(old, ok, given) /\ old.phase = "forwarded"
  BY DEF Answer
<1> HIDE DEF e
<1>4. Moved(h, e)
  BY <1>3, Moving
<1>5. /\ InFlight(h)' /\ InFlight(h) /\ IndexOf(h)' = IndexOf(h) /\ (Own(h)' <=> Own(h))
      /\ IndexOf(h) # 0
  BY <1>1, <1>2, <1>3, <1>4 DEF Moved, InFlight, Own, IndexOf, Typed
<1> DEFINE opens == Own(h) /\ given \in Assignable
<1>6. opens <=> old.kind = "initialize" /\ old.id = NoId /\ given \in Assignable
  BY <1>5 DEF Own
<1>7. /\ live' \subseteq live \union (IF opens THEN {given} ELSE {})
      /\ old.kind = "delete" /\ ok => live' = live \ {old.id}
      /\ home' = IF opens THEN [home EXCEPT ![given] = IndexOf(h)] ELSE home
  BY <1>6 DEF Answer, IndexOf
<1>8. given \in {NoId, old.id} \/ opens
  BY <1>3, <1>6, <1>7 DEF OrderlyAnswer
<1> HIDE DEF opens
<1>9. opens => /\ Own(h) /\ given \in Ids /\ given \notin Strange /\ home[given] = 0
               /\ given \notin live \union learnt
               /\ router.byId[given] = 0
               /\ \A a \in Ids : home[a] # IndexOf(h)
  <2>1. exchange[h].given = NoId
    BY <1>3 DEF SInv, Named
  <2> QED BY <2>1 DEF opens, Assignable, SInv, HomesApart, OwnApart, ReachedByItsId
<1>10. /\ \A a \in Ids : home'[a] = IF opens /\ a = given THEN IndexOf(h) ELSE home[a]
  BY <1>1, <1>7, <1>9
<1>11. \A k : k # 0 => (Reserved(k)' <=> Reserved(k))
  <2> SUFFICES ASSUME NEW k, k # 0 PROVE Reserved(k)' <=> Reserved(k)
    OBVIOUS
  <2>1. (\E g \in Handlers : Own(g) /\ IndexOf(g) = k)'
           <=> (\E g \in Handlers : Own(g) /\ IndexOf(g) = k)
    BY <1>4, <1>5 DEF Moved
  <2>2. (\E a \in Ids : home[a] = k) => (\E a \in Ids : home'[a] = k)
    BY <1>9, <1>10
  <2>3. (\E a \in Ids : home'[a] = k) => Reserved(k)
    BY <1>9, <1>10 DEF Reserved
  <2> QED BY <2>1, <2>2, <2>3 DEF Reserved
<1> HIDE DEF old
<1>12. HomesApart'
  <2>1. \A a \in Ids : home'[a] # 0 => a \notin Strange
    BY <1>9, <1>10 DEF SInv, HomesApart
  <2>2. \A a, b \in Ids : home'[a] # 0 /\ home'[a] = home'[b] => a = b
    BY <1>9, <1>10 DEF SInv, HomesApart
  <2>3. \A a \in live' \union learnt' : a \in Strange \/ home'[a] # 0
    BY <1>1, <1>3, <1>5, <1>7, <1>9, <1>10 DEF SInv, HomesApart, Typed
  <2> QED BY <2>1, <2>2, <2>3 DEF HomesApart
<1>13. Named'
  <2>1. ASSUME NEW g \in Handlers \ {h}
        PROVE  /\ exchange'[g].phase # "idle" =>
                     exchange'[g].id \in learnt' \union Strange \union {NoId}
               /\ exchange'[g].phase \in {"sending", "forwarded"} => exchange'[g].given = NoId
               /\ exchange'[g].given # NoId /\ exchange'[g].given # exchange'[g].id => Own(g)'
               /\ Own(g)' /\ exchange'[g].given # NoId =>
                     exchange'[g].given \notin learnt' /\ home'[exchange'[g].given] = IndexOf(g)'
               /\ InFlight(g)' /\ exchange'[g].route.unseen # NoId =>
                     exchange'[g].route.unseen = exchange'[g].id
    <3>1. exchange'[g] = exchange[g] /\ (Own(g)' <=> Own(g)) /\ (InFlight(g)' <=> InFlight(g))
          /\ IndexOf(g)' = IndexOf(g) /\ exchange[g].given \in MaybeIds
      BY <1>1, <1>4 DEF Moved, Typed
    <3>2. Own(g) /\ exchange[g].given # NoId =>
             exchange[g].given \notin learnt' /\ home'[exchange[g].given] = IndexOf(g)
      <4> SUFFICES ASSUME Own(g), exchange[g].given # NoId
                   PROVE  exchange[g].given \notin learnt'
                          /\ home'[exchange[g].given] = IndexOf(g)
        OBVIOUS
      <4>1. exchange[g].given \in Ids /\ home[exchange[g].given] = IndexOf(g)
            /\ exchange[g].given \notin learnt
        BY <3>1 DEF SInv, Named, MaybeIds
      <4>2. IndexOf(g) # 0
        BY <1>1 DEF Typed, Own
      <4> QED BY <1>3, <1>9, <1>10, <4>1, <4>2
    <3> QED BY <1>3, <3>1, <3>2 DEF SInv, Named
  <2>2. ASSUME NEW g \in Handlers \ {h}, exchange'[g].phase \in {"answered", "ended"},
               Ending(exchange'[g])
        PROVE  exchange'[g].id \notin live'
    <3>1. exchange'[g] = exchange[g] /\ exchange[g].id \notin live
      BY <1>4, <2>2 DEF Moved, SInv, Named
    <3>2. exchange[g].id \in learnt \union Strange \union {NoId} /\ exchange[g].id # NoId
      BY <2>2, <3>1 DEF SInv, Named, Ending
    <3> QED BY <1>7, <1>9, <3>1, <3>2
  <2>3. /\ e.id \in learnt' \union Strange \union {NoId}
        /\ e.given # NoId /\ e.given # e.id => Own(h)'
        /\ e.route.unseen # NoId => e.route.unseen = e.id
    BY <1>2, <1>3, <1>5, <1>8, <1>9 DEF SInv, Named, old
  <2>4. Own(h)' /\ e.given # NoId => e.given \notin learnt' /\ home'[e.given] = IndexOf(h)'
    BY <1>2, <1>3, <1>5, <1>8, <1>9, <1>10 DEF Own, old
  <2>5. Ending(e) => e.id \notin live'
    BY <1>2, <1>7 DEF Ending
  <2>6. exchange'[h] = e /\ e.phase = "answered"
    BY <1>2, <1>4 DEF Moved
  <2> QED BY <2>1, <2>2, <2>3, <2>4, <2>5, <2>6 DEF Named
<1>14. OwnApart'
  <2>1. ASSUME NEW g \in Handlers, Own(g)'
        PROVE  /\ router'.ids[IndexOf(g)'] = NoId
               /\ \A j \in Handlers : Own(j)' /\ IndexOf(j)' = IndexOf(g)' => j = g
    BY <1>3, <1>4, <1>5, <2>1 DEF SInv, OwnApart, Moved
  <2>2. ASSUME NEW g \in Handlers, Own(g)', exchange'[g].given = NoId, NEW a \in Ids
        PROVE  home'[a] # IndexOf(g)'
    <3>1. CASE g = h
      <4>1. given = NoId /\ exchange[h].given = NoId /\ ~opens
        BY <1>2, <1>3, <1>4, <1>9, <2>2, <3>1, IdsAssumption DEF Moved, SInv, Named, old
      <4> QED BY <1>5, <1>10, <2>2, <3>1, <4>1 DEF SInv, OwnApart
    <3>2. CASE g # h
      <4>1. Own(g) /\ IndexOf(g)' = IndexOf(g) /\ exchange'[g] = exchange[g]
        BY <1>4, <2>2, <3>2 DEF Moved
      <4>2. opens => IndexOf(g) # IndexOf(h)
        BY <1>9, <3>2, <4>1 DEF SInv, OwnApart
      <4> QED BY <1>10, <2>2, <4>1, <4>2 DEF SInv, OwnApart
    <3> QED BY <3>1, <3>2
  <2> QED BY <2>1, <2>2 DEF OwnApart
<1>15. ReachedByItsId'
  <2>1. router'.unseen # 0 => ~Reserved(router.unseen)'
    BY <1>3, <1>11 DEF SInv, ReachedByItsId
  <2>2. ASSUME NEW a \in Ids
        PROVE  /\ router'.byId[a] # 0 /\ Reserved(router.byId[a])' => router'.byId[a] = home'[a]
               /\ a \in learnt' \union Strange \/ router'.byId[a] = 0
               /\ a \in live' \intersect learnt' /\ a \notin Strange => router'.byId[a] = home'[a]
    <3>1. router'.byId[a] # 0 /\ Reserved(router.byId[a])' =>
             router.byId[a] = home[a] /\ ~(opens /\ a = given)
      BY <1>3, <1>9, <1>11 DEF SInv, ReachedByItsId
    <3>2. a \in live' \intersect learnt' => a \in live /\ ~(opens /\ a = given)
      BY <1>3, <1>7, <1>9
    <3> QED BY <1>3, <1>10, <3>1, <3>2 DEF SInv, ReachedByItsId
  <2>3. ASSUME NEW g \in Handlers, InFlight(g)', exchange'[g].id # NoId,
               Reserved(IndexOf(g))'
        PROVE  IndexOf(g)' = home'[exchange'[g].id] /\ exchange'[g].route.unseen = NoId
    <3>1. /\ InFlight(g) /\ IndexOf(g)' = IndexOf(g) /\ exchange'[g].id = exchange[g].id
          /\ exchange'[g].route = exchange[g].route
      BY <1>2, <1>4, <1>5, <2>3 DEF Moved, old
    <3>2. IndexOf(g) # 0
      BY <1>1, <3>1 DEF Typed
    <3>3. /\ IndexOf(g) = home[exchange[g].id] /\ exchange[g].route.unseen = NoId
      BY <1>11, <2>3, <3>1, <3>2 DEF SInv, ReachedByItsId
    <3>4. exchange[g].id \in learnt \union Strange /\ exchange[g].id \in Ids
      BY <1>1, <2>3, <3>1 DEF SInv, Named, InFlight, Typed, MaybeIds
    <3> QED BY <1>9, <1>10, <3>1, <3>3, <3>4
  <2> QED BY <2>1, <2>2, <2>3 DEF ReachedByItsId
<1> QED BY <1>12, <1>13, <1>14, <1>15 DEF SInv

LEMMA EndSessionSettled ==
    ASSUME IInv, SInv, NEW h \in Handlers, EndSession(h) PROVE SInv'
<1> DEFINE old == exchange[h]
           e == [old EXCEPT !.phase = "ended"]
<1>1. /\ Typed /\ old \in Exchanges /\ old.id \in MaybeIds /\ router \in Routers
      /\ exchange \in [Handlers -> Exchanges]
  BY InvTyped DEF Typed, IInv, TypeOK
<1>2. /\ e.phase = "ended" /\ e.id = old.id /\ e.kind = old.kind /\ e.given = old.given
      /\ e.route = old.route /\ e.ok = old.ok
  BY <1>1 DEF Exchanges
<1>3. /\ exchange' = [exchange EXCEPT ![h] = e] /\ UNCHANGED <<live, learnt, home>>
      /\ router' = End(router, old.id) /\ old.phase = "answered" /\ Ending(old)
  BY <1>1 DEF EndSession
<1> HIDE DEF e
<1>4. Moved(h, e)
  BY <1>3, Moving
<1>5. /\ InFlight(h)' /\ InFlight(h) /\ IndexOf(h)' = IndexOf(h) /\ (Own(h)' <=> Own(h))
  BY <1>2, <1>3, <1>4 DEF Moved, InFlight, Own, IndexOf
<1>6. /\ router'.ids = router.ids /\ router'.unseen = router.unseen
      /\ \A a \in Ids : router'.byId[a] = IF a = old.id THEN 0 ELSE router.byId[a]
  BY <1>1, <1>3 DEF End, Routers
<1>7. old.id \notin live
  BY <1>3 DEF SInv, Named
<1> HIDE DEF old
<1>8. \A k : Reserved(k)' <=> Reserved(k)
  BY <1>3, <1>4, <1>5 DEF Reserved, Moved
<1>9. HomesApart'
  BY <1>3 DEF SInv, HomesApart
<1>10. Named'
  <2>1. ASSUME NEW g \in Handlers
        PROVE  /\ exchange'[g].id = exchange[g].id /\ exchange'[g].given = exchange[g].given
               /\ exchange'[g].route = exchange[g].route /\ (Own(g)' <=> Own(g))
               /\ (InFlight(g)' <=> InFlight(g)) /\ IndexOf(g)' = IndexOf(g)
               /\ (Ending(exchange'[g]) <=> Ending(exchange[g]))
               /\ \/ exchange'[g].phase = exchange[g].phase
                  \/ exchange[g].phase = "answered" /\ exchange'[g].phase = "ended"
    <3>1. CASE g = h
      <4>1. exchange'[h] = e /\ exchange[h] = old
        BY <1>4 DEF Moved, old
      <4>2. Ending(e) <=> Ending(old)
        BY <1>2 DEF Ending
      <4> QED BY <1>2, <1>3, <1>5, <3>1, <4>1, <4>2
    <3>2. CASE g # h
      BY <1>4, <3>2 DEF Moved
    <3> QED BY <3>1, <3>2
  <2> QED BY <1>3, <2>1 DEF SInv, Named
<1>11. OwnApart'
  BY <1>2, <1>3, <1>4, <1>5, <1>6 DEF SInv, OwnApart, Moved, old
<1>12. ReachedByItsId'
  <2>1. router'.unseen # 0 => ~Reserved(router.unseen)'
    BY <1>6, <1>8 DEF SInv, ReachedByItsId
  <2>2. ASSUME NEW a \in Ids
        PROVE  /\ router'.byId[a] # 0 /\ Reserved(router.byId[a])' => router'.byId[a] = home'[a]
               /\ a \in learnt' \union Strange \/ router'.byId[a] = 0
               /\ a \in live' \intersect learnt' /\ a \notin Strange => router'.byId[a] = home'[a]
    BY <1>3, <1>6, <1>7, <1>8 DEF SInv, ReachedByItsId
  <2>3. \A g \in Handlers : InFlight(g)' /\ exchange'[g].id # NoId /\ Reserved(IndexOf(g))' =>
           IndexOf(g)' = home'[exchange'[g].id] /\ exchange'[g].route.unseen = NoId
    BY <1>2, <1>3, <1>4, <1>5, <1>8 DEF SInv, ReachedByItsId, Moved, old
  <2> QED BY <2>1, <2>2, <2>3 DEF ReachedByItsId
<1> QED BY <1>9, <1>10, <1>11, <1>12 DEF SInv

\* What an answer makes of the router: it touches the session of its exchange
\* only, and maps to that the id the request named or the response carries.
LEMMA Responded ==
    ASSUME NEW r \in Routers, NEW route \in Routes, NEW given \in MaybeIds, NEW ok \in BOOLEAN,
           route.index \in 1 .. Len(r.ids)
    PROVE  LET n == Respond(r, route, given, ok)
           IN  /\ n.unseen \in {r.unseen, 0}
               /\ \A k \in 1 .. Len(r.ids) : k # route.index => n.ids[k] = r.ids[k]
               /\ \A id \in Ids :
                     \/ n.byId[id] = r.byId[id]
                     \/ /\ n.byId[id] = route.index /\ r.byId[id] = 0
                        /\ id = route.unseen \/ id = given
               /\ route.unseen = NoId /\ given = NoId => n = r
               /\ route.unseen = NoId /\ given # NoId /\ r.ids[route.index] = NoId
                  /\ r.byId[given] = 0 => n.byId[given] = route.index
<1> DEFINE x == IF Accepts(r, route, ok) THEN Accept(r, route) ELSE r
           n == Respond(r, route, given, ok)
<1>0. /\ r.ids \in Seq(MaybeIds) /\ r.byId \in [Ids -> Nat] /\ route.unseen \in MaybeIds
      /\ route.index \in Nat
  BY RouterFields DEF Routes
<1>1. /\ x.unseen \in {r.unseen, 0}
      /\ \A k \in 1 .. Len(r.ids) : k # route.index => x.ids[k] = r.ids[k]
      /\ DOMAIN x.ids = DOMAIN r.ids
      /\ x.byId \in [Ids -> Nat]
      /\ \A id \in Ids : \/ x.byId[id] = r.byId[id]
                         \/ x.byId[id] = route.index /\ r.byId[id] = 0 /\ id = route.unseen
      /\ route.unseen = NoId => x = r
  <2>1. CASE Accepts(r, route, ok)
    <3> DEFINE y == Accept(r, route)
    <3>1. /\ y.byId = [r.byId EXCEPT ![route.unseen] = route.index]
          /\ y.unseen = IF r.unseen = route.index THEN 0 ELSE r.unseen
          /\ y.ids = [r.ids EXCEPT ![route.index] = IF @ = NoId THEN route.unseen ELSE @]
      BY DEF Accept, Routers
    <3>2. route.unseen \in Ids /\ route.unseen # NoId /\ r.byId[route.unseen] = 0
      BY <1>0, <2>1 DEF Accepts, Known, MaybeIds
    <3>3. x = y
      BY <2>1
    <3> HIDE DEF y, x
    <3>4. /\ \A k \in 1 .. Len(r.ids) : k # route.index => y.ids[k] = r.ids[k]
          /\ DOMAIN y.ids = DOMAIN r.ids
      BY <1>0, <3>1
    <3> QED BY <1>0, <3>1, <3>2, <3>3, <3>4
  <2>2. CASE ~Accepts(r, route, ok)
    BY <1>0, <2>2
  <2> QED BY <2>1, <2>2
<1>2. n = IF Assigns(x, route, given) THEN Assign(x, route, given) ELSE x
  BY DEF Respond
<1>3. route.unseen = NoId => x = r
  BY <1>1
<1> HIDE DEF x, n
<1>4. CASE Assigns(x, route, given)
  <2>1. given \in Ids /\ given # NoId /\ x.byId[given] = 0
    BY <1>4 DEF Assigns, Known, MaybeIds
  <2>2. x \in Routers
    <3>1. CASE Accepts(r, route, ok)
      <4>1. [r.ids EXCEPT ![route.index] = IF @ = NoId THEN route.unseen ELSE @] \in Seq(MaybeIds)
        BY <1>0
      <4>2. [r.byId EXCEPT ![route.unseen] = route.index] \in [Ids -> Nat]
        BY <1>0
      <4>3. Accept(r, route) \in Routers
        BY <1>0, <4>1, <4>2 DEF Accept, Routers
      <4> QED BY <3>1, <4>3 DEF x
    <3>2. CASE ~Accepts(r, route, ok)
      BY <3>2 DEF x
    <3> QED BY <3>1, <3>2
  <2>3. /\ Assign(x, route, given).byId = [x.byId EXCEPT ![given] = route.index]
        /\ Assign(x, route, given).unseen = x.unseen
        /\ Assign(x, route, given).ids = [x.ids EXCEPT ![route.index] = given]
    BY <2>2 DEF Assign, Routers
  <2>4. n = Assign(x, route, given)
    BY <1>2, <1>4
  <2>5. n.byId[given] = route.index /\ \A id \in Ids \ {given} : n.byId[id] = x.byId[id]
    BY <1>1, <2>1, <2>3, <2>4
  <2>6. \A k \in 1 .. Len(r.ids) : k # route.index => n.ids[k] = r.ids[k]
    <3>1. x.ids \in Seq(MaybeIds)
      BY <2>2 DEF Routers
    <3>2. \A k \in DOMAIN x.ids : k # route.index => n.ids[k] = x.ids[k]
      BY <2>3, <2>4, <3>1
    <3>3. DOMAIN x.ids = 1 .. Len(r.ids)
      BY <1>0, <1>1
    <3> QED BY <1>1, <3>2, <3>3
  <2>7. r.byId[given] = 0 \/ r.byId[given] = x.byId[given]
    BY <1>1, <2>1
  <2> QED BY <1>1, <2>1, <2>3, <2>4, <2>5, <2>6, <2>7 DEF n
<1>5. CASE ~Assigns(x, route, given)
  <2>1. n = x
    BY <1>2, <1>5
  <2>2. route.unseen = NoId /\ given # NoId /\ r.ids[route.index] = NoId => r.byId[given] # 0
    BY <1>3, <1>5 DEF Assigns, Known
  <2> QED BY <1>1, <2>1, <2>2 DEF n
<1> QED BY <1>4, <1>5

\* An answer touches no reserved session but its own, and gives that the id the
\* initialize was answered with.
LEMMA RespondToSettled ==
    ASSUME IInv, SInv, NEW h \in Handlers, RespondTo(h) PROVE SInv'
<1> DEFINE old == exchange[h]
           at  == IndexOf(h)
<1>1. /\ Typed /\ old \in Exchanges /\ old.id \in MaybeIds /\ router \in Routers
      /\ old.route \in Routes /\ old.given \in MaybeIds /\ old.ok \in BOOLEAN
      /\ at = old.route.index
  BY InvTyped DEF Typed, IInv, TypeOK, IndexOf
<1>2. /\ exchange' = [exchange EXCEPT ![h] = Idle] /\ UNCHANGED <<live, home>>
      /\ router' = Respond(router, old.route, old.given, old.ok)
      /\ learnt' = IF old.given # NoId THEN learnt \union {old.given} ELSE learnt
      /\ InFlight(h)
  BY DEF RespondTo, InFlight
<1>3. Moved(h, Idle) /\ Idle.phase = "idle" /\ Idle.given = NoId /\ Idle.id = NoId
  BY <1>2, Moving DEF Idle
<1>4. ~InFlight(h)' /\ ~Own(h)'
  BY <1>3 DEF Moved, InFlight, Own
<1>5. at \in 1 .. Len(router.ids)
  BY <1>1, <1>2 DEF Typed
<1>6. /\ router'.unseen \in {router.unseen, 0}
      /\ \A k \in 1 .. Len(router.ids) : k # at => router'.ids[k] = router.ids[k]
      /\ \A id \in Ids :
            \/ router'.byId[id] = router.byId[id]
            \/ /\ router'.byId[id] = at /\ router.byId[id] = 0
               /\ id = old.route.unseen \/ id = old.given
      /\ old.route.unseen = NoId /\ old.given = NoId => router' = router
      /\ old.route.unseen = NoId /\ old.given # NoId /\ router.ids[at] = NoId
         /\ router.byId[old.given] = 0 => router'.byId[old.given] = at
  <2> HIDE DEF at, old
  <2> QED BY <1>1, <1>2, <1>5, Responded
<1>7. /\ old.given # NoId /\ old.given # old.id => Own(h)
      /\ Own(h) /\ old.given # NoId => old.given \notin learnt /\ home[old.given] = at
      /\ old.route.unseen # NoId => old.route.unseen = old.id
      /\ old.id \in learnt \union Strange \union {NoId}
  BY <1>2 DEF SInv, Named, InFlight
<1>8. Own(h) => /\ router.ids[at] = NoId /\ old.id = NoId
                /\ old.given = NoId => \A a \in Ids : home[a] # at
                /\ \A g \in Handlers : Own(g) /\ IndexOf(g) = at => g = h
  BY DEF SInv, OwnApart, Own
<1>9. old.id # NoId /\ Reserved(at) => at = home[old.id] /\ old.route.unseen = NoId
  BY <1>2 DEF SInv, ReachedByItsId
<1>10. at # 0
  BY <1>5
<1>11. \A k : Reserved(k)' => Reserved(k)
  BY <1>2, <1>3, <1>4 DEF Reserved, Moved
<1>12. ASSUME NEW g \in Handlers \ {h}, Own(g), IndexOf(g) = at
       PROVE  old.given = NoId /\ old.route.unseen = NoId
  <2>1. ~Own(h) /\ Reserved(at)
    BY <1>8, <1>12 DEF Reserved
  <2>2. CASE old.id = NoId
    BY <1>7, <2>1, <2>2
  <2>3. CASE old.id # NoId
    <3>1. at = home[old.id] /\ old.id \in Ids
      BY <1>1, <1>9, <2>1, <2>3 DEF MaybeIds
    <3>2. exchange[g].given # NoId /\ exchange[g].given \in Ids
      BY <1>1, <1>12, <3>1 DEF SInv, OwnApart, Typed, MaybeIds
    <3>3. exchange[g].given \notin learnt /\ home[exchange[g].given] = at
      BY <1>12, <3>2 DEF SInv, Named
    <3>4. exchange[g].given = old.id /\ old.id \notin Strange
      BY <1>10, <3>1, <3>2, <3>3 DEF SInv, HomesApart
    <3> QED BY <1>7, <2>3, <3>3, <3>4
  <2> QED BY <2>2, <2>3
<1> HIDE DEF old, at
<1>13. HomesApart'
  <2>1. \A a \in live' \union learnt' : a \in Strange \/ home'[a] # 0
    BY <1>2, <1>7, <1>10 DEF SInv, HomesApart
  <2> QED BY <1>2, <2>1 DEF SInv, HomesApart
<1>14. Named'
  <2>1. ASSUME NEW g \in Handlers \ {h}, Own(g), exchange[g].given # NoId
        PROVE  exchange[g].given \notin learnt'
    <3>1. /\ exchange[g].given \notin learnt /\ home[exchange[g].given] = IndexOf(g)
          /\ exchange[g].given \in Ids
      BY <1>1, <2>1 DEF SInv, Named, Typed, MaybeIds
    <3>2. IndexOf(g) # 0
      BY <1>1, <2>1 DEF Typed, Own
    <3>3. ASSUME exchange[g].given = old.given PROVE FALSE
      <4>1. CASE Own(h)
        BY <1>7, <1>8, <2>1, <3>1, <3>3, <4>1
      <4>2. CASE ~Own(h)
        <5>1. old.given = old.id /\ old.id \in Strange
          BY <1>7, <2>1, <3>1, <3>3, <4>2
        <5> QED BY <3>1, <3>2, <3>3, <5>1 DEF SInv, HomesApart
      <4> QED BY <4>1, <4>2
    <3> QED BY <1>2, <3>1, <3>3
  <2>2. \A g \in Handlers \ {h} :
          /\ exchange'[g].given # NoId /\ exchange'[g].given # exchange'[g].id => Own(g)'
          /\ Own(g)' /\ exchange'[g].given # NoId =>
                exchange'[g].given \notin learnt' /\ home'[exchange'[g].given] = IndexOf(g)'
    BY <1>2, <1>3, <2>1 DEF SInv, Named, Moved
  <2>3. learnt \subseteq learnt'
    BY <1>2
  <2>4. \A g \in Handlers \ {h} :
          /\ exchange'[g].phase # "idle" =>
                exchange'[g].id \in learnt' \union Strange \union {NoId}
          /\ exchange'[g].phase \in {"sending", "forwarded"} => exchange'[g].given = NoId
          /\ InFlight(g)' /\ exchange'[g].route.unseen # NoId =>
                exchange'[g].route.unseen = exchange'[g].id
          /\ exchange'[g].phase \in {"answered", "ended"} /\ Ending(exchange'[g]) =>
                exchange'[g].id \notin live'
    BY <1>2, <1>3, <2>3 DEF SInv, Named, Moved
  <2> QED BY <1>3, <1>4, <2>2, <2>4 DEF Named, Moved
<1>15. OwnApart'
  <2>1. ASSUME NEW g \in Handlers \ {h}, Own(g)
        PROVE  router'.ids[IndexOf(g)] = NoId
    <3>1. IndexOf(g) \in 1 .. Len(router.ids) /\ router.ids[IndexOf(g)] = NoId
      BY <1>1, <2>1 DEF Typed, SInv, OwnApart, Own
    <3>2. IndexOf(g) = at => router' = router
      BY <1>6, <1>12, <2>1
    <3> QED BY <1>6, <3>1, <3>2
  <2> QED BY <1>2, <1>3, <1>4, <2>1 DEF SInv, OwnApart, Moved
<1>16. ReachedByItsId'
  <2>1. router'.unseen # 0 => ~Reserved(router.unseen)'
    BY <1>6, <1>11 DEF SInv, ReachedByItsId
  <2>2. ASSUME NEW a \in Ids
        PROVE  router'.byId[a] # 0 /\ Reserved(router.byId[a])' => router'.byId[a] = home'[a]
    <3> SUFFICES ASSUME router'.byId[a] # 0, Reserved(router'.byId[a])
                 PROVE  router'.byId[a] = home[a]
      BY <1>2, <1>11
    <3>1. CASE router'.byId[a] = router.byId[a]
      BY <3>1 DEF SInv, ReachedByItsId
    <3>2. CASE router'.byId[a] = at /\ a = old.route.unseen
      <4>1. old.id # NoId /\ old.route.unseen # NoId /\ Reserved(at)
        BY <1>7, <3>2, IdsAssumption
      <4> QED BY <1>9, <4>1
    <3>3. CASE router'.byId[a] = at /\ a = old.given
      <4>1. old.given # NoId /\ Reserved(at)
        BY <3>3, IdsAssumption
      <4> QED BY <1>7, <1>9, <3>3, <4>1
    <3> QED BY <1>6, <3>1, <3>2, <3>3
  <2>3. ASSUME NEW a \in Ids
        PROVE  a \in learnt' \union Strange \/ router'.byId[a] = 0
    <3>1. a = old.route.unseen \/ a = old.given => a \in learnt' \union Strange
      BY <1>2, <1>7, IdsAssumption
    <3>2. a \in learnt \union Strange \/ router.byId[a] = 0
      BY DEF SInv, ReachedByItsId
    <3> QED BY <1>2, <1>6, <3>1, <3>2
  <2>4. ASSUME NEW a \in live' \intersect learnt', a \notin Strange
        PROVE  router'.byId[a] = home'[a]
    <3>0. a \in Ids /\ home[a] # 0
      BY <1>1, <1>2, <2>4 DEF Typed, SInv, HomesApart
    <3>1. CASE a \in learnt
      <4>1. router.byId[a] = home[a]
        BY <1>2, <2>4, <3>0, <3>1 DEF SInv, ReachedByItsId
      <4> QED BY <1>2, <1>6, <3>0, <4>1
    <3>2. CASE a \notin learnt
      <4>1. a = old.given /\ old.given # NoId /\ Own(h)
        BY <1>2, <1>7, <2>4, <3>2, IdsAssumption
      <4>2. router.byId[a] = 0
        BY <2>4, <3>0, <3>2 DEF SInv, ReachedByItsId
      <4> QED BY <1>2, <1>6, <1>7, <1>8, <4>1, <4>2
    <3> QED BY <3>1, <3>2
  <2>5. \A g \in Handlers : InFlight(g)' /\ exchange'[g].id # NoId /\ Reserved(IndexOf(g))' =>
           IndexOf(g)' = home'[exchange'[g].id] /\ exchange'[g].route.unseen = NoId
    BY <1>2, <1>3, <1>4, <1>11 DEF SInv, ReachedByItsId, Moved
  <2> QED BY <2>1, <2>2, <2>3, <2>4, <2>5 DEF ReachedByItsId
<1> QED BY <1>13, <1>14, <1>15, <1>16 DEF SInv

LEMMA NextSettled == Orderly /\ IInv /\ SInv /\ [Next]_vars => SInv'
<1> SUFFICES ASSUME Orderly, IInv, SInv, [Next]_vars PROVE SInv'
  OBVIOUS
<1>1. CASE Next
  <2>1. PICK h \in Handlers :
           \/ \E id \in MaybeIds, kind \in Kinds : Send(h, id, kind)
           \/ RouteRequest(h)
           \/ Fail(h)
           \/ \E ok \in BOOLEAN, given \in MaybeIds : Answer(h, ok, given)
           \/ EndSession(h)
           \/ RespondTo(h)
    BY <1>1 DEF Next
  <2> QED BY <2>1, SendSettled, RouteRequestSettled, FailSettled, AnswerSettled,
             EndSessionSettled, RespondToSettled
<1>2. CASE UNCHANGED vars
  <2>1. UNCHANGED <<router, exchange, live, learnt, home>>
    BY <1>2 DEF vars
  <2>2. /\ \A h : (InFlight(h)' <=> InFlight(h)) /\ (Own(h)' <=> Own(h)) /\ IndexOf(h)' = IndexOf(h)
        /\ \A k : Reserved(k)' <=> Reserved(k)
    BY <2>1 DEF InFlight, Own, IndexOf, Reserved
  <2> QED BY <2>1, <2>2 DEF SInv, HomesApart, Named, OwnApart, ReachedByItsId
<1> QED BY <1>1, <1>2

\* Between a client and a server that keep to the rules, a session the server
\* holds and the client knows is recorded in the trace of its own initialize,
\* which is no other session's (traces.rs:8-10, relay.rs:167-169).
THEOREM SessionsStay == Orderly => (Spec => []SessionsKeepTheirTrace)
<1> SUFFICES ASSUME Orderly PROVE Spec => []SessionsKeepTheirTrace
  OBVIOUS
<1>1. Init => SInv
  BY InitSettled
<1>2. IInv /\ SInv /\ [Next]_vars => SInv'
  BY NextSettled
<1>3. IInv /\ SInv => SessionsKeepTheirTrace
  <2> SUFFICES ASSUME IInv, SInv, NEW id \in live \ Strange, id \in learnt
               PROVE  /\ router.byId[id] = home[id]
                      /\ \A other \in Ids \ {id} : router.byId[other] # home[id]
    BY DEF SessionsKeepTheirTrace
  <2>1. id \in Ids /\ home[id] # 0 /\ router.byId[id] = home[id]
    BY InvTyped DEF Typed, SInv, HomesApart, ReachedByItsId
  <2>2. ASSUME NEW other \in Ids \ {id}, router.byId[other] = home[id] PROVE FALSE
    <3>1. router.byId[other] = home[other]
      BY <2>1, <2>2 DEF SInv, ReachedByItsId, Reserved
    <3> QED BY <2>1, <2>2, <3>1 DEF SInv, HomesApart
  <2> QED BY <2>1, <2>2
<1> QED BY <1>1, <1>2, <1>3, Invariance, PTL DEF Spec
=============================================================================

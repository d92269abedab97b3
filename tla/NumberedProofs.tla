---------------------------- MODULE NumberedProofs ----------------------------
(***************************************************************************)
(* Proofs about NumberedTraces, for any captures, however many files exist *)
(* and are deleted, and wherever the numbers end.                          *)
(***************************************************************************)
EXTENDS NumberedTraces, TLAPS

\* A claim in progress tries no number its capture, if it remembers, has used,
\* and none at or below a file that was there since before the listing.
Ahead ==
    \A c \in Captures : call[c].phase = "claiming" => call[c].number >= next[c]

PastListed ==
    \A c \in Captures : call[c].listed =>
        /\ call[c].phase = "claiming"
        /\ \A n \in call[c].stable : n < call[c].number

UsedIsPast ==
    \A c \in Proxies : \A i \in 1 .. Len(claimed[c]) : claimed[c][i] < next[c]

IInv ==
    /\ TypeOK /\ OneHolder
    /\ Ahead /\ PastListed /\ UsedIsPast /\ SessionsAscend

\* Calls of any phase are built field by field.
LEMMA CallFields ==
    /\ \A k \in Calls : /\ k.phase \in {"idle", "listing", "claiming"}
                        /\ k.number \in 0 .. MAX_NUMBER + 1
                        /\ k.stable \subseteq Numbers /\ k.possible \subseteq Numbers
                        /\ k.listed \in BOOLEAN
    /\ Idle \in Calls
BY NumberedAssumption, SMT DEF Calls, Idle

\* What a listing leaves a call with: a number past what it saw and what the
\* capture remembers.
LEMMA StartIsPast ==
    ASSUME NEW c, NEW highest \in 0 .. MAX_NUMBER, next[c] \in 1 .. MAX_NUMBER + 1
    PROVE  /\ Start(c, highest) \in 0 .. MAX_NUMBER + 1
           /\ Start(c, highest) >= next[c] /\ Start(c, highest) > highest
BY NumberedAssumption DEF Start

\* It holds of the directory as it is first found.
THEOREM InitInv == Init => IInv
<1> SUFFICES ASSUME Init PROVE IInv
  OBVIOUS
<1>1. TypeOK
  BY CallFields, NumberedAssumption, SMT DEF Init, TypeOK, Numbers
<1>2. OneHolder
  BY DEF Init, OneHolder
<1>3. Ahead /\ PastListed
  BY DEF Init, Ahead, PastListed, Idle
<1>4. UsedIsPast /\ SessionsAscend
  BY NumberedAssumption, SMT DEF Init, UsedIsPast, SessionsAscend
<1> QED BY <1>1, <1>2, <1>3, <1>4 DEF IInv

\* The steps of a call that claim nothing: they leave the files and the
\* claims alone, so only the call itself has to be looked at.
LEMMA CallStep ==
    ASSUME IInv, NEW c \in Captures, NEW k \in Calls,
           UNCHANGED <<files, holders, next, claimed, deletes>>,
           call' = [call EXCEPT ![c] = k],
           k.phase = "claiming" => k.number >= next[c],
           k.listed => k.phase = "claiming",
           k.listed => \A n \in k.stable : n < k.number
    PROVE  IInv'
<1>1. call' \in [Captures -> Calls] /\ \A d \in Captures : call'[d] = IF d = c THEN k ELSE call[d]
  BY DEF IInv, TypeOK
<1>2. TypeOK'
  BY <1>1 DEF IInv, TypeOK
<1>3. OneHolder' /\ UsedIsPast' /\ SessionsAscend'
  BY DEF IInv, OneHolder, UsedIsPast, SessionsAscend
<1>4. Ahead' /\ PastListed'
  BY <1>1 DEF IInv, Ahead, PastListed
<1> QED BY <1>2, <1>3, <1>4 DEF IInv

LEMMA ListInv == ASSUME IInv, NEW c \in Captures, List(c) PROVE IInv'
<1> DEFINE k == [Idle EXCEPT !.phase = "listing", !.stable = files, !.possible = files]
<1>1. files \subseteq Numbers
  BY DEF IInv, TypeOK
<1>2. \A j \in Calls : [j EXCEPT !.phase = "listing", !.stable = files, !.possible = files] \in Calls
  BY <1>1 DEF Calls
<1>3. \A j \in Calls :
         [j EXCEPT !.phase = "listing", !.stable = files, !.possible = files].phase = "listing"
  BY DEF Calls
<1>4. \A j \in Calls :
         [j EXCEPT !.phase = "listing", !.stable = files, !.possible = files].listed = j.listed
  BY DEF Calls
<1>5. Idle \in Calls /\ ~Idle.listed
  BY CallFields DEF Idle
<1>6. k \in Calls /\ k.phase = "listing" /\ ~k.listed
  BY <1>2, <1>3, <1>4, <1>5
<1>7. call' = [call EXCEPT ![c] = k] /\ UNCHANGED <<files, holders, next, claimed, deletes>>
  BY DEF List
<1> HIDE DEF k
<1> QED BY <1>6, <1>7, CallStep

LEMMA ListedInv == ASSUME IInv, NEW c \in Captures, Listed(c) PROVE IInv'
<1>1. call[c] \in Calls /\ next[c] \in 1 .. MAX_NUMBER + 1 /\ call \in [Captures -> Calls]
  BY DEF IInv, TypeOK
<1>2. ~call[c].listed
  BY DEF IInv, PastListed, Listed
<1>3. CASE \E highest \in Highest(c) :
              call' = [call EXCEPT ![c].phase = "claiming", ![c].listed = TRUE,
                                   ![c].number = Start(c, highest)]
  <2>1. PICK highest \in Highest(c) :
              call' = [call EXCEPT ![c].phase = "claiming", ![c].listed = TRUE,
                                   ![c].number = Start(c, highest)]
    BY <1>3
  <2>2. highest \in 0 .. MAX_NUMBER /\ \A n \in call[c].stable : n <= highest
    BY <1>1, NumberedAssumption DEF Highest, Calls, Numbers
  <2> DEFINE k == [call[c] EXCEPT !.phase = "claiming", !.listed = TRUE,
                                  !.number = Start(c, highest)]
  <2>3. Start(c, highest) \in 0 .. MAX_NUMBER + 1 /\ Start(c, highest) >= next[c]
        /\ Start(c, highest) > highest
    BY <1>1, <2>2, StartIsPast
  <2>4. k \in Calls /\ k.phase = "claiming" /\ k.number = Start(c, highest)
        /\ k.stable = call[c].stable
    BY <1>1, <2>3 DEF Calls
  <2>5. \A n \in k.stable : n < k.number
    BY <1>1, <2>2, <2>3, <2>4, NumberedAssumption DEF Calls, Numbers
  <2>6. call' = [call EXCEPT ![c] = k]
    BY <2>1, <1>1
  <2>7. UNCHANGED <<files, holders, next, claimed, deletes>>
    BY DEF Listed
  <2> HIDE DEF k
  <2> QED BY <2>3, <2>4, <2>5, <2>6, <2>7, CallStep
<1>4. CASE call' = [call EXCEPT ![c].phase = "claiming", ![c].number = Start(c, 0)]
  <2> DEFINE k == [call[c] EXCEPT !.phase = "claiming", !.number = Start(c, 0)]
  <2>1. Start(c, 0) \in 0 .. MAX_NUMBER + 1 /\ Start(c, 0) >= next[c]
    BY <1>1, StartIsPast, NumberedAssumption
  <2>2. k \in Calls /\ k.phase = "claiming" /\ k.number = Start(c, 0) /\ ~k.listed
    BY <1>1, <1>2, <2>1 DEF Calls
  <2>3. call' = [call EXCEPT ![c] = k]
    BY <1>4, <1>1
  <2>4. UNCHANGED <<files, holders, next, claimed, deletes>>
    BY DEF Listed
  <2> HIDE DEF k
  <2> QED BY <2>1, <2>2, <2>3, <2>4, CallStep
<1> QED BY <1>3, <1>4 DEF Listed

LEMMA SkipInv == ASSUME IInv, NEW c \in Captures, Skip(c) PROVE IInv'
<1>1. call[c] \in Calls /\ next[c] \in 1 .. MAX_NUMBER + 1 /\ call \in [Captures -> Calls]
      /\ call[c].number \in 1 .. MAX_NUMBER
  BY DEF IInv, TypeOK, Skip, Numbers
<1> DEFINE k == [call[c] EXCEPT !.number = @ + 1]
<1>2. k.number = call[c].number + 1 /\ k.phase = call[c].phase
      /\ k.listed = call[c].listed /\ k.stable = call[c].stable
  BY <1>1 DEF Calls
<1>3. k \in Calls
  BY <1>1, NumberedAssumption DEF Calls
<1>4. k.phase = "claiming" /\ k.number >= next[c]
  BY <1>1, <1>2, NumberedAssumption DEF IInv, Ahead, Skip
<1>5. k.listed => \A n \in k.stable : n < k.number
  BY <1>1, <1>2, NumberedAssumption DEF IInv, PastListed, Calls, Numbers
<1>6. call' = [call EXCEPT ![c] = k] /\ UNCHANGED <<files, holders, next, claimed, deletes>>
  BY <1>1 DEF Skip
<1> HIDE DEF k
<1> QED BY <1>3, <1>4, <1>5, <1>6, CallStep

LEMMA GiveUpInv == ASSUME IInv, NEW c \in Captures, GiveUp(c) PROVE IInv'
<1>1. Idle \in Calls /\ Idle.phase = "idle" /\ ~Idle.listed
  BY CallFields DEF Idle
<1> QED BY <1>1, CallStep DEF GiveUp

\* A file that appears changes no call but in what its listing may show.
LEMMA AppearingKeeps ==
    ASSUME call \in [Captures -> Calls], NEW n \in Numbers
    PROVE  /\ Appearing(n) \in [Captures -> Calls]
           /\ \A d \in Captures : /\ Appearing(n)[d].phase = call[d].phase
                                  /\ Appearing(n)[d].number = call[d].number
                                  /\ Appearing(n)[d].stable = call[d].stable
                                  /\ Appearing(n)[d].listed = call[d].listed
<1>1. \A k \in Calls : [k EXCEPT !.possible = @ \union {n}] \in Calls
  BY DEF Calls
<1>2. \A k \in Calls : LET j == [k EXCEPT !.possible = @ \union {n}]
                      IN  j.phase = k.phase /\ j.number = k.number
                          /\ j.stable = k.stable /\ j.listed = k.listed
  BY DEF Calls
<1> QED BY <1>1, <1>2 DEF Appearing

LEMMA CreateInv == ASSUME IInv, NEW c \in Captures, Create(c) PROVE IInv'
<1> DEFINE n == call[c].number
<1>1. /\ n \in Numbers /\ call \in [Captures -> Calls] /\ next \in [Captures -> 1 .. MAX_NUMBER + 1]
      /\ claimed \in [Captures -> Seq(Numbers)] /\ holders \in [Numbers -> SUBSET Captures]
      /\ n >= next[c]
  BY DEF IInv, TypeOK, Create, Ahead
<1>2. /\ files' = files \union {n} /\ holders' = [holders EXCEPT ![n] = {c}]
      /\ claimed' = [claimed EXCEPT ![c] = Append(@, n)] /\ next' = NextAfter(c, n)
      /\ call' = [Appearing(n) EXCEPT ![c] = Idle] /\ deletes' = deletes
  BY DEF Create
<1> HIDE DEF n
<1>3. /\ call' \in [Captures -> Calls] /\ call'[c] = Idle
      /\ \A d \in Captures \ {c} : /\ call'[d].phase = call[d].phase
                                   /\ call'[d].number = call[d].number
                                   /\ call'[d].stable = call[d].stable
                                   /\ call'[d].listed = call[d].listed
  BY <1>1, <1>2, AppearingKeeps, CallFields
<1>4. /\ next' \in [Captures -> 1 .. MAX_NUMBER + 1]
      /\ \A d \in Captures \ {c} : next'[d] = next[d]
      /\ c \in Proxies => next'[c] = n + 1
  BY <1>1, <1>2, NumberedAssumption DEF NextAfter, Numbers
<1>5. /\ claimed' \in [Captures -> Seq(Numbers)]
      /\ \A d \in Captures \ {c} : claimed'[d] = claimed[d]
      /\ claimed'[c] = Append(claimed[c], n)
  BY <1>1, <1>2
<1>6. TypeOK'
  BY <1>1, <1>2, <1>3, <1>4, <1>5 DEF IInv, TypeOK
<1>7. OneHolder'
  BY <1>1, <1>2 DEF IInv, OneHolder
<1>8. Ahead' /\ PastListed'
  BY <1>3, <1>4 DEF IInv, Ahead, PastListed, Idle
<1>9. UsedIsPast' /\ SessionsAscend'
  <2> SUFFICES ASSUME NEW d \in Proxies
               PROVE  /\ \A i \in 1 .. Len(claimed'[d]) : claimed'[d][i] < next'[d]
                      /\ \A i, j \in 1 .. Len(claimed'[d]) :
                             i < j => claimed'[d][i] < claimed'[d][j]
    BY DEF UsedIsPast, SessionsAscend
  <2>1. d \in Captures
    BY NumberedAssumption
  <2>2. CASE d # c
    BY <2>1, <2>2, <1>4, <1>5 DEF IInv, UsedIsPast, SessionsAscend
  <2>3. CASE d = c
    <3>1. claimed[c] \in Seq(Numbers) /\ next[c] \in Nat /\ n \in Nat /\ next'[c] = n + 1
      BY <1>1, <1>4, <2>3, NumberedAssumption DEF Numbers
    <3>2. Len(claimed'[c]) = Len(claimed[c]) + 1 /\ Len(claimed[c]) \in Nat
          /\ claimed'[c][Len(claimed[c]) + 1] = n
          /\ \A i \in 1 .. Len(claimed[c]) : claimed'[c][i] = claimed[c][i]
      BY <1>5, <1>1, <3>1
    <3>3. \A i \in 1 .. Len(claimed[c]) : claimed[c][i] \in Nat /\ claimed[c][i] < next[c]
      <4>1. \A i \in 1 .. Len(claimed[c]) : claimed[c][i] < next[c]
        BY <2>3 DEF IInv, UsedIsPast
      <4>2. \A i \in 1 .. Len(claimed[c]) : claimed[c][i] \in Numbers
        BY <3>1
      <4> QED BY <4>1, <4>2, NumberedAssumption DEF Numbers
    <3>4. \A i \in 1 .. Len(claimed[c]) : claimed'[c][i] < n
      BY <3>1, <3>2, <3>3, <1>1
    <3>5. \A i, j \in 1 .. Len(claimed[c]) : i < j => claimed'[c][i] < claimed'[c][j]
      BY <3>2, <2>3 DEF IInv, SessionsAscend
    <3>6. \A i \in 1 .. Len(claimed[c]) : claimed'[c][i] \in Nat
      BY <3>2, <3>3
    <3>7. \A i \in 1 .. Len(claimed'[c]) : claimed'[c][i] < next'[c]
      <4> SUFFICES ASSUME NEW i \in 1 .. Len(claimed'[c]) PROVE claimed'[c][i] < next'[c]
        OBVIOUS
      <4>1. CASE i \in 1 .. Len(claimed[c])
        BY <4>1, <3>1, <3>4, <3>6
      <4>2. CASE i = Len(claimed[c]) + 1
        BY <4>2, <3>1, <3>2
      <4> QED BY <3>2, <4>1, <4>2
    <3>8. \A i, j \in 1 .. Len(claimed'[c]) : i < j => claimed'[c][i] < claimed'[c][j]
      <4> SUFFICES ASSUME NEW i \in 1 .. Len(claimed'[c]), NEW j \in 1 .. Len(claimed'[c]), i < j
                   PROVE  claimed'[c][i] < claimed'[c][j]
        OBVIOUS
      <4>1. CASE j \in 1 .. Len(claimed[c])
        BY <4>1, <3>2, <3>5
      <4>2. CASE j = Len(claimed[c]) + 1
        BY <4>2, <3>2, <3>4
      <4> QED BY <3>2, <4>1, <4>2
    <3> QED BY <2>3, <3>7, <3>8
  <2> QED BY <2>2, <2>3
<1> QED BY <1>6, <1>7, <1>8, <1>9 DEF IInv

LEMMA DeleteInv == ASSUME IInv, NEW n \in Numbers, Delete(n) PROVE IInv'
<1>1. /\ call \in [Captures -> Calls] /\ holders \in [Numbers -> SUBSET Captures]
      /\ files \subseteq Numbers /\ deletes \in Nat
  BY DEF IInv, TypeOK
<1>2. /\ files' = files \ {n} /\ holders' = [holders EXCEPT ![n] = {}]
      /\ call' = [c \in Captures |-> [call[c] EXCEPT !.stable = @ \ {n}]]
      /\ deletes' = deletes + 1 /\ next' = next /\ claimed' = claimed
  BY DEF Delete
<1>3. \A k \in Calls : [k EXCEPT !.stable = @ \ {n}] \in Calls
  BY DEF Calls
<1>4. \A k \in Calls : LET j == [k EXCEPT !.stable = @ \ {n}]
                      IN  j.phase = k.phase /\ j.number = k.number
                          /\ j.listed = k.listed /\ j.stable \subseteq k.stable
  BY DEF Calls
<1>5. /\ call' \in [Captures -> Calls]
      /\ \A d \in Captures : /\ call'[d].phase = call[d].phase
                             /\ call'[d].number = call[d].number
                             /\ call'[d].listed = call[d].listed
                             /\ call'[d].stable \subseteq call[d].stable
  BY <1>1, <1>2, <1>3, <1>4
<1>6. TypeOK'
  BY <1>1, <1>2, <1>5 DEF IInv, TypeOK
<1>7. OneHolder'
  BY <1>1, <1>2 DEF IInv, OneHolder
<1>8. Ahead' /\ PastListed'
  BY <1>2, <1>5 DEF IInv, Ahead, PastListed
<1>9. UsedIsPast' /\ SessionsAscend'
  BY <1>2 DEF IInv, UsedIsPast, SessionsAscend
<1> QED BY <1>6, <1>7, <1>8, <1>9 DEF IInv

LEMMA NextInv == IInv /\ [Next]_vars => IInv'
<1> SUFFICES ASSUME IInv, [Next]_vars PROVE IInv'
  OBVIOUS
<1>1. CASE \E c \in Captures : List(c) \/ Listed(c) \/ Skip(c) \/ Create(c) \/ GiveUp(c)
  BY <1>1, ListInv, ListedInv, SkipInv, CreateInv, GiveUpInv
<1>2. CASE \E n \in Numbers : Delete(n)
  BY <1>2, DeleteInv
<1>3. CASE UNCHANGED vars
  BY <1>3 DEF vars, IInv, TypeOK, OneHolder, Ahead, PastListed, UsedIsPast, SessionsAscend
<1> QED BY <1>1, <1>2, <1>3 DEF Next

\* The inductive invariant of the captures holds in every reachable state.
THEOREM Invariance == Spec => []IInv
<1>1. Init => IInv
  BY InitInv
<1>2. IInv /\ [Next]_vars => IInv'
  BY NextInv
<1> QED BY <1>1, <1>2, PTL DEF Spec

\* Every reachable state has its type: a search past the last number has
\* nothing to create, and no remembered number is past it.
THEOREM TypeCorrect == Spec => []TypeOK
<1>1. IInv => TypeOK
  BY DEF IInv
<1> QED BY <1>1, Invariance, PTL

\* No file is ever open in two captures, whoever lists, creates or deletes in
\* between: create_new decides (numbered.rs:118-130).
THEOREM FilesHaveOneHolder == Spec => []OneHolder
<1>1. IInv => OneHolder
  BY DEF IInv
<1> QED BY <1>1, Invariance, PTL

\* A proxy's sessions are numbered in the order they begin (traces.rs:270-272).
THEOREM ProxySessionsAscend == Spec => []SessionsAscend
<1>1. IInv => SessionsAscend
  BY DEF IInv
<1> QED BY <1>1, Invariance, PTL

\* Only a creation claims a number, for its own capture, and it is the number
\* that capture was trying.
LEMMA ClaimIsCreate ==
    ASSUME IInv, [Next]_vars, NEW c \in Captures, claimed'[c] # claimed[c]
    PROVE  Create(c) /\ claimed'[c] = Append(claimed[c], call[c].number)
<1>0. claimed \in [Captures -> Seq(Numbers)]
  BY DEF IInv, TypeOK
<1>1. PICK d \in Captures : Create(d)
  BY DEF Next, vars, List, Listed, Skip, GiveUp, Delete
<1>2. d = c
  BY <1>0, <1>1 DEF Create
<1> QED BY <1>0, <1>1, <1>2 DEF Create

\* A directory reads in session order: a session gets a later number than any
\* file that was there from before its listing until its creation.
THEOREM DirectoryReadsInOrder == Spec => ReadsInOrder
<1>1. IInv /\ [Next]_vars =>
        \A c \in Captures :
          claimed'[c] # claimed[c] /\ call[c].listed =>
             \A n \in call[c].stable : n < claimed'[c][Len(claimed'[c])]
  <2> SUFFICES ASSUME IInv, [Next]_vars, NEW c \in Captures, claimed'[c] # claimed[c],
                      call[c].listed, NEW n \in call[c].stable
               PROVE  n < claimed'[c][Len(claimed'[c])]
    OBVIOUS
  <2>1. claimed'[c] = Append(claimed[c], call[c].number) /\ claimed[c] \in Seq(Numbers)
        /\ call[c].number \in Numbers
    BY ClaimIsCreate DEF IInv, TypeOK, Create
  <2>2. claimed'[c][Len(claimed'[c])] = call[c].number
    BY <2>1
  <2> QED BY <2>2 DEF IInv, PastListed
<1> QED BY <1>1, Invariance, PTL DEF Spec, ReadsInOrder
=============================================================================

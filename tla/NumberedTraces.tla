---------------------------- MODULE NumberedTraces ----------------------------
(***************************************************************************)
(* Claiming numbered trace files (numbered.rs).  Captures share a          *)
(* directory and nothing else: each lists it, takes the number after the   *)
(* highest it saw, and tries that number and the next ones until it        *)
(* creates a file that did not exist.  Between its listing and its         *)
(* creation the others create theirs, and users delete.                    *)
(*                                                                         *)
(* A listing is not a snapshot: a file created or deleted while it runs    *)
(* may be in it or not.                                                    *)
(***************************************************************************)
EXTENDS Naturals, Sequences, FiniteSets

CONSTANTS
    Captures,       \* processes, or a proxy's router, that claim numbers
    Proxies,        \* those that remember the next number: Traces::begin
    MAX_NUMBER,     \* how far a search for a free number goes
    MaxClaims,      \* bound: claims of one capture
    MaxDeletes      \* bound: files deleted

ASSUME NumberedAssumption ==
    /\ Proxies \subseteq Captures
    /\ MAX_NUMBER \in Nat /\ MaxClaims \in Nat /\ MaxDeletes \in Nat

Numbers == 1 .. MAX_NUMBER

VARIABLES
    files,      \* the numbers whose file exists
    holders,    \* who has the file of that name open
    call,       \* each capture's create_next in progress
    next,       \* State::next_number
    claimed,    \* history: the numbers each capture claimed, in order
    deletes     \* files deleted so far

vars == <<files, holders, call, next, claimed, deletes>>

\* stable and possible bound what a listing may return: the files there ever
\* since the call, and those there at some time during the listing.
Idle == [phase |-> "idle", number |-> 0, stable |-> {}, possible |-> {}, listed |-> FALSE]

Calls == [phase: {"idle", "listing", "claiming"}, number: 0 .. MAX_NUMBER + 1,
          stable: SUBSET Numbers, possible: SUBSET Numbers, listed: BOOLEAN]

Init ==
    /\ files \in SUBSET Numbers
    /\ holders = [n \in Numbers |-> {}]
    /\ call = [c \in Captures |-> Idle]
    /\ next = [c \in Captures |-> 1]
    /\ claimed = [c \in Captures |-> <<>>]
    /\ deletes = 0

\* create_next begins: `highest` opens the directory.
List(c) ==
    /\ call[c].phase = "idle"
    /\ Len(claimed[c]) < MaxClaims
    /\ call' = [call EXCEPT ![c] = [Idle EXCEPT !.phase = "listing", !.stable = files,
                                                !.possible = files]]
    /\ UNCHANGED <<files, holders, next, claimed, deletes>>

\* The highest number a listing can have shown, or 0.
Highest(c) ==
    {h \in call[c].possible \union {0} : \A n \in call[c].stable : n <= h}

\* Mutant: a proxy counts on from its own last number only.
StartRemembered(c, highest) ==
    IF c \in Proxies THEN next[c] ELSE highest + 1

\* from.max(after_highest), for a `from` of at least 1.
Start(c, highest) ==
    IF next[c] > highest + 1 THEN next[c] ELSE highest + 1

\* The listing is read; an unreadable directory shows no number.
Listed(c) ==
    /\ call[c].phase = "listing"
    /\ \/ \E highest \in Highest(c) :
            call' = [call EXCEPT ![c].phase = "claiming", ![c].listed = TRUE,
                                 ![c].number = Start(c, highest)]
       \/ call' = [call EXCEPT ![c].phase = "claiming", ![c].number = Start(c, 0)]
    /\ UNCHANGED <<files, holders, next, claimed, deletes>>

\* AlreadyExists: the next number is tried.
Skip(c) ==
    /\ call[c].phase = "claiming"
    /\ call[c].number \in files
    /\ call' = [call EXCEPT ![c].number = @ + 1]
    /\ UNCHANGED <<files, holders, next, claimed, deletes>>

\* Mutant: the number is handed out again by a proxy that lost its file.
NextAfterSame(c, n) == IF c \in Proxies THEN [next EXCEPT ![c] = n] ELSE next

NextAfter(c, n) == IF c \in Proxies THEN [next EXCEPT ![c] = n + 1] ELSE next

\* A file n appears: a listing in progress may show it.
Appearing(n) ==
    [d \in Captures |-> IF call[d].phase = "listing"
                        THEN [call[d] EXCEPT !.possible = @ \union {n}]
                        ELSE call[d]]

\* Mutant: the file is opened, and truncated, if it exists.
CreateOver(c) ==
    LET n == call[c].number
    IN  /\ call[c].phase = "claiming"
        /\ n \in Numbers
        /\ files' = files \union {n}
        /\ holders' = [holders EXCEPT ![n] = @ \union {c}]
        /\ claimed' = [claimed EXCEPT ![c] = Append(@, n)]
        /\ next' = NextAfter(c, n)
        /\ call' = [Appearing(n) EXCEPT ![c] = Idle]
        /\ UNCHANGED deletes

\* create_new succeeds: the name did not exist and now does.
Create(c) ==
    LET n == call[c].number
    IN  /\ call[c].phase = "claiming"
        /\ n \in Numbers \ files
        /\ files' = files \union {n}
        /\ holders' = [holders EXCEPT ![n] = {c}]
        /\ claimed' = [claimed EXCEPT ![c] = Append(@, n)]
        /\ next' = NextAfter(c, n)
        /\ call' = [Appearing(n) EXCEPT ![c] = Idle]
        /\ UNCHANGED deletes

\* The file cannot be created, or no number is left.
GiveUp(c) ==
    /\ call[c].phase = "claiming"
    /\ call' = [call EXCEPT ![c] = Idle]
    /\ UNCHANGED <<files, holders, next, claimed, deletes>>

\* A user deletes a trace; who has it open writes on into no file.
Delete(n) ==
    /\ n \in files /\ deletes < MaxDeletes
    /\ files' = files \ {n}
    /\ holders' = [holders EXCEPT ![n] = {}]
    /\ call' = [c \in Captures |-> [call[c] EXCEPT !.stable = @ \ {n}]]
    /\ deletes' = deletes + 1
    /\ UNCHANGED <<next, claimed>>

Next ==
    \/ \E c \in Captures : List(c) \/ Listed(c) \/ Skip(c) \/ Create(c) \/ GiveUp(c)
    \/ \E n \in Numbers : Delete(n)

Spec == Init /\ [][Next]_vars

-----------------------------------------------------------------------------
\* Types; a call past the last number has nothing to create.
TypeOK ==
    /\ files \subseteq Numbers
    /\ holders \in [Numbers -> SUBSET Captures]
    /\ call \in [Captures -> Calls]
    /\ next \in [Captures -> 1 .. MAX_NUMBER + 1]
    /\ claimed \in [Captures -> Seq(Numbers)]
    /\ deletes \in Nat

\* "two captures starting at once … cannot both claim the same number": no
\* file is ever open in two captures.
OneHolder == \A n \in Numbers : \A c, d \in holders[n] : c = d

\* A proxy's sessions are numbered in the order they begin, whatever is
\* deleted or claimed by others meanwhile.
SessionsAscend ==
    \A c \in Proxies : \A i, j \in 1 .. Len(claimed[c]) : i < j => claimed[c][i] < claimed[c][j]

\* "a numbered directory reads in session order": a session that begins after
\* a file appeared, and while it stays, gets a later number than the file's.
ReadsInOrder ==
    [][\A c \in Captures :
          claimed'[c] # claimed[c] /\ call[c].listed =>
             \A n \in call[c].stable : n < claimed'[c][Len(claimed'[c])]]_vars
=============================================================================

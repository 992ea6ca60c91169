--------------------------- MODULE PlatformProofs ---------------------------
(***************************************************************************)
(* The two parts below the application, proved for every value of their    *)
(* constants.                                                              *)
(*                                                                         *)
(* The timer server (TimerServer).  Its list is a chain of pointers in an  *)
(* array, whose free contexts point anywhere, also in circles.  That the   *)
(* running timers are listed is a rank that falls along NextID one timer   *)
(* at a time (Chain); a walk, written as a recursive function, ends        *)
(* because of it.  A timer's count says when it is due only together with  *)
(* what has elapsed since the last setup (Clock), and the wakeup timer     *)
(* counts for the current timer, perhaps a tick early (Wakeup).  How late  *)
(* a timer may be depends on its place (Slack): each timer before it may   *)
(* still delay it once, since the handler runs once for each that fires.   *)
(*                                                                         *)
(* The start (BootDfu), for any number of requests, resets and power       *)
(* cycles: the register leads into the bootloader at most once for each    *)
(* request, whichever program runs has its own vector table, and USB is    *)
(* never left without a clock that runs.                                   *)
(***************************************************************************)
EXTENDS BootDfu, TimerServer, FiniteSetTheorems, WellFoundedInduction, TLAPS

-----------------------------------------------------------------------------
(* The timer server: what its list, its counts and its clock have in common. *)

\* The static variables, with counts of any size.
State ==
  [ctx : [Ids -> Context], current : Ids \cup {None}, previous : Ids \cup {None},
   since : {FORBIDDEN} \cup 0 .. WRAP - 1, overpassed : BOOLEAN,
   wut : 0 .. MaxWakeupTimerSetup, pending : {NotPending} \cup 0 .. DELAY]

\* The timers the list has to hold.
RunningIn(s) == {t \in Ids : s.ctx[t].status = "Running"}

\* The timers of R are listed: r falls along NextID, from the current timer on, one
\* timer at a time; PreviousID leads back; and the counts grow as r falls.
Chain(s, R, r) ==
  /\ \A i, j \in R : r[i] = r[j] => i = j
  /\ \/ R = {} /\ s.current = None
     \/ s.current \in R /\ \A j \in R : r[j] <= r[s.current]
  /\ \A i \in R :
       LET next == s.ctx[i].NextID IN
       \/ next = None /\ \A j \in R : r[i] <= r[j]
       \/ next \in R /\ r[next] < r[i] /\ s.ctx[next].PreviousID = i
          /\ \A j \in R : r[j] < r[i] => r[j] <= r[next]
  /\ \A i \in R : i # s.current =>
       s.ctx[i].PreviousID \in R /\ s.ctx[s.ctx[i].PreviousID].NextID = i
  /\ \A i, j \in R : r[j] < r[i] => s.ctx[i].CountLeft <= s.ctx[j].CountLeft

\* A count above 0 is what is left until the timer is due and what has elapsed
\* since the last setup; at 0 the timer was due then.
Clock(s, R, d) ==
  \A i \in R : LET left == s.ctx[i].CountLeft IN
    IF left > 0 THEN d[i] = left - ReturnTimeElapsed(s)
    ELSE d[i] <= -ReturnTimeElapsed(s)

\* The wakeup timer counts for the current timer, in parts if it has to; it may be a
\* tick early.  After it has expired its interrupt is pending.
Counted(s) == IF s.overpassed THEN MaxWakeupTimerSetup ELSE s.ctx[s.current].CountLeft
Wakeup(s) ==
  IF s.current = None
  THEN s.since = FORBIDDEN /\ s.wut = 0 /\ s.pending = NotPending
  ELSE /\ s.since # FORBIDDEN
       /\ s.overpassed <=> s.ctx[s.current].CountLeft > MaxWakeupTimerSetup
       /\ IF s.pending = NotPending
          THEN s.wut > 0 /\ s.wut = Counted(s) - s.since
          ELSE /\ s.wut = 0
               /\ Counted(s) - 1 <= s.since /\ s.since <= Counted(s) + s.pending

\* How late a timer may be when the handler starts: a delay for each timer
\* that is not before it, and what a part of its count left over.
Again == IF DELAY = 0 THEN 0 ELSE DELAY - 1
Before(R, r, i) == {j \in R : r[i] < r[j]}
Slack(R, r, i) == DELAY * (MaxTimers - 1 - Cardinality(Before(R, r, i))) + Again
Held(s) == IF s.pending = NotPending THEN 0 ELSE s.pending
InTime(s, R, r, d) == \A i \in R : -d[i] <= Slack(R, r, i) + Held(s)

\* What the sections of a call rely on.
CallOK ==
  /\ call \in {"idle", "restart", "link", "stop", "delete", "free"}
              \X (Ids \cup {None}) \X (Timeouts \cup {0})
  /\ call[1] # "idle" => call[2] \in Ids
  /\ call[1] \in {"link", "free"} => ~Running(ts, call[2])
  /\ calls \in 0 .. MaxCalls

\* What the list, the wakeup timer and the times left have to do with each other.
ListInv(s, d) ==
  /\ s \in State /\ d \in [Ids -> Int] /\ s.previous # s.current
  /\ Wakeup(s) /\ Clock(s, RunningIn(s), d)
  /\ \E r \in [Ids -> Nat] : Chain(s, RunningIn(s), r) /\ InTime(s, RunningIn(s), r, d)

TimerIInv == CallOK /\ ListInv(ts, due)
-----------------------------------------------------------------------------
(* Following pointers that may lead anywhere.                              *)

\* No context is its own end of list.
LEMMA NoneIsNoTimer == None \notin Ids
  BY TimerConstants DEF Ids, None, TimerConstants

\* Wherever the pointers lead, also round in circles, there is the set of what
\* they reach: the one that Listed and LinkedAfter are about.
LEMMA Reach ==
  ASSUME NEW n \in [Ids -> Ids \cup {None}]
  PROVE  \E F \in [Ids \cup {None} -> SUBSET Ids] :
           /\ F[None] = {}
           /\ \A i \in Ids : F[i] = {i} \cup F[n[i]]
  <1> DEFINE Closed(X) == \A y \in X : n[y] # None => n[y] \in X
             From(i) == {x \in Ids : \A X \in SUBSET Ids : i \in X /\ Closed(X) => x \in X}
             F == [i \in Ids \cup {None} |-> IF i = None THEN {} ELSE From(i)]
  <1>1. F \in [Ids \cup {None} -> SUBSET Ids] /\ F[None] = {}
    OBVIOUS
  <1>2. ASSUME NEW i \in Ids
        PROVE  F[i] = {i} \cup F[n[i]]
    <2>1. F[i] = From(i)
      BY NoneIsNoTimer
    <2>2. i \in From(i)
      OBVIOUS
    <2>3. CASE n[i] = None
      <3>1. F[n[i]] = {}
        BY <2>3
      <3>2. {i} \in SUBSET Ids /\ Closed({i})
        BY <2>3
      <3>3. From(i) \subseteq {i}
        BY <3>2
      <3> QED
        BY <2>1, <2>2, <3>1, <3>3
    <2>4. CASE n[i] # None
      <3>1. n[i] \in Ids /\ F[n[i]] = From(n[i])
        BY <2>4
      <3>2. From(n[i]) \subseteq From(i)
        BY <2>4
      <3>3. From(i) \subseteq {i} \cup From(n[i])
        <4> DEFINE X == {i} \cup From(n[i])
        <4>1. X \in SUBSET Ids /\ i \in X
          OBVIOUS
        <4>2. n[i] \in From(n[i])
          BY <3>1
        <4>3. ASSUME NEW y \in From(n[i]), n[y] # None
              PROVE  n[y] \in From(n[i])
          BY <4>3
        <4>4. Closed(X)
          BY <4>2, <4>3
        <4> HIDE DEF X
        <4>5. ASSUME NEW x \in From(i) PROVE x \in X
          BY <4>1, <4>4
        <4> QED
          BY <4>5 DEF X
      <3> QED
        BY <2>1, <2>2, <3>1, <3>2, <3>3
    <2> QED
      BY <2>3, <2>4
  <1> HIDE DEF F
  <1> QED
    BY <1>1, <1>2

\* The fields of the static variables.
LEMMA StateFields ==
  ASSUME NEW s \in State
  PROVE  /\ s.ctx \in [Ids -> Context] /\ s.current \in Ids \cup {None}
         /\ \A i \in Ids : /\ s.ctx[i] \in Context /\ s.ctx[i].CountLeft \in Nat
                           /\ s.ctx[i].NextID \in Ids \cup {None}
                           /\ s.ctx[i].PreviousID \in Ids \cup {None}
         /\ ReturnTimeElapsed(s) \in Nat
  <1>1. s.ctx \in [Ids -> Context] /\ s.current \in Ids \cup {None}
        /\ s.since \in {FORBIDDEN} \cup 0 .. WRAP - 1
    BY DEF State
  <1>2. ReturnTimeElapsed(s) \in Nat
    BY <1>1, TimerConstants DEF ReturnTimeElapsed, FORBIDDEN, TimerConstants
  <1>3. ASSUME NEW i \in Ids
        PROVE  /\ s.ctx[i] \in Context /\ s.ctx[i].CountLeft \in Nat
               /\ s.ctx[i].NextID \in Ids \cup {None}
               /\ s.ctx[i].PreviousID \in Ids \cup {None}
    <2>1. s.ctx[i] \in Context
      BY <1>1
    <2> QED
      BY <2>1 DEF Context
  <1> QED
    BY <1>1, <1>2, <1>3

\* What Listed returns, one timer at a time.
LEMMA ListedUnfolds ==
  ASSUME NEW s \in State
  PROVE  \E F : /\ Listed(s) = F[s.current] /\ F[None] = {}
                /\ \A i \in Ids : F[i] = {i} \cup F[s.ctx[i].NextID]
  <1> DEFINE n == [i \in Ids |-> s.ctx[i].NextID]
             Step(f) == [id \in Ids \cup {None} |->
                           IF id = None THEN {} ELSE {id} \cup f[s.ctx[id].NextID]]
             F == CHOOSE f : f = Step(f)
  <1>1. n \in [Ids -> Ids \cup {None}]
    BY StateFields
  <1>2. PICK G \in [Ids \cup {None} -> SUBSET Ids] :
          /\ G[None] = {}
          /\ \A i \in Ids : G[i] = {i} \cup G[n[i]]
    <2> HIDE DEF n
    <2> QED
      BY <1>1, Reach
  <1>3. G = Step(G)
    <2>1. \A id \in Ids \cup {None} :
            G[id] = IF id = None THEN {} ELSE {id} \cup G[s.ctx[id].NextID]
      BY <1>2
    <2> QED
      BY <2>1
  <1>4. F = Step(F)
    <2> HIDE DEF Step
    <2> QED
      BY <1>3
  <1>5. Listed(s) = F[s.current]
    BY DEF Listed
  <1> HIDE DEF F
  <1>6. F[None] = {} /\ \A i \in Ids : F[i] = {i} \cup F[s.ctx[i].NextID]
    BY <1>4, NoneIsNoTimer, StateFields
  <1> QED
    BY <1>5, <1>6

\* What LinkedAfter returns, one timer at a time.
LEMMA WalkUnfolds ==
  ASSUME NEW s \in State, NEW left
  PROVE  \E W : /\ LinkedAfter(s, left) = W[s.current]
                /\ \A i \in Ids :
                     LET next == s.ctx[i].NextID IN
                     W[i] = IF next # None /\ s.ctx[next].CountLeft <= left THEN W[next] ELSE i
  <1> DEFINE Goes(i) == s.ctx[i].NextID # None /\ s.ctx[s.ctx[i].NextID].CountLeft <= left
             n == [i \in Ids |-> IF Goes(i) THEN s.ctx[i].NextID ELSE None]
             Step(f) == [id \in Ids |-> IF Goes(id) THEN f[s.ctx[id].NextID] ELSE id]
             W == CHOOSE f : f = Step(f)
  <1>1. n \in [Ids -> Ids \cup {None}]
    BY StateFields
  <1>2. PICK F \in [Ids \cup {None} -> SUBSET Ids] :
          /\ F[None] = {}
          /\ \A i \in Ids : F[i] = {i} \cup F[n[i]]
    <2> HIDE DEF n
    <2> QED
      BY <1>1, Reach
  <1> DEFINE Stops(i) == {x \in F[i] : ~Goes(x)}
             V == [i \in Ids |-> CHOOSE x : x \in Stops(i)]
  <1>3. ASSUME NEW i \in Ids
        PROVE  V[i] = IF Goes(i) THEN V[s.ctx[i].NextID] ELSE i
    <2>1. CASE Goes(i)
      <3>1. s.ctx[i].NextID \in Ids /\ n[i] = s.ctx[i].NextID
        BY <2>1, StateFields
      <3>2. F[i] = {i} \cup F[s.ctx[i].NextID]
        BY <1>2, <3>1
      <3>3. Stops(i) = Stops(s.ctx[i].NextID)
        BY <2>1, <3>2
      <3> HIDE DEF Stops, Goes
      <3> QED
        BY <2>1, <3>1, <3>3
    <2>2. CASE ~Goes(i)
      <3>1. F[i] = {i}
        BY <1>2, <2>2
      <3>2. Stops(i) = {i}
        BY <2>2, <3>1
      <3> HIDE DEF Stops, Goes
      <3> QED
        BY <2>2, <3>2
    <2> QED
      BY <2>1, <2>2
  <1>4. V = Step(V)
    <2> HIDE DEF Goes, Stops
    <2>1. V = [i \in Ids |-> V[i]]
      OBVIOUS
    <2> HIDE DEF V
    <2> QED
      BY <1>3, <2>1
  <1>5. W = Step(W)
    <2> HIDE DEF Step, V
    <2> QED
      BY <1>4
  <1>6. LinkedAfter(s, left) = W[s.current]
    BY DEF LinkedAfter
  <1> HIDE DEF W
  <1>7. \A i \in Ids : W[i] = IF Goes(i) THEN W[s.ctx[i].NextID] ELSE i
    <2> HIDE DEF Goes
    <2> QED
      BY <1>5
  <1> QED
    BY <1>6, <1>7

-----------------------------------------------------------------------------
(* The list: what it holds, and what is linked to it and unlinked.         *)

\* Every nonempty set of natural numbers has a least one.
LEMMA Least ==
  ASSUME NEW T \in SUBSET Nat, T # {}
  PROVE  \E x \in T : \A y \in T : x <= y
<1>1. PICK n \in T : TRUE
  OBVIOUS
<1> DEFINE S == 0 .. n
           R == StrictSubsetOrdering(S)
           F == {0 .. k : k \in T \cap S}
<1>2. IsWellFoundedOn(R, SUBSET S)
  <2>1. IsFiniteSet(S)
    BY FS_Interval
  <2> HIDE DEF S
  <2>2. FiniteSubsetsOf(S) = SUBSET S
    BY <2>1, FS_FiniteSubsetsOfFinite
  <2>3. IsWellFoundedOn(R, FiniteSubsetsOf(S))
    BY FS_StrictSubsetOrderingWellFounded
  <2> QED  BY <2>2, <2>3
<1>3. F \subseteq SUBSET S /\ F # {}
  OBVIOUS
<1>4. PICK s \in F : \A r \in F : ~ (<<r, s>> \in R)
  <2> HIDE DEF F, R, S
  <2> QED  BY <1>2, <1>3, WFMin
<1>5. PICK k \in T \cap S : s = 0 .. k
  BY <1>4
<1>6. ASSUME NEW j \in T, j < k
      PROVE  FALSE
  <2>1. j \in T \cap S
    BY <1>6
  <2>2. 0 .. j \in F /\ 0 .. j \in SUBSET S /\ s \in SUBSET S
    BY <2>1, <1>5
  <2>3. 0 .. j \subseteq s /\ 0 .. j # s
    BY <1>5, <1>6
  <2>4. <<0 .. j, s>> \in R
    BY <2>2, <2>3 DEF StrictSubsetOrdering
  <2> QED  BY <1>4, <2>2, <2>4
<1> QED  BY <1>5, <1>6

\* Of the timers of a nonempty set one has the lowest rank.
LEMMA Lowest ==
  ASSUME NEW r \in [Ids -> Nat], NEW B \in SUBSET Ids, B # {}
  PROVE  \E i \in B : \A j \in B : r[i] <= r[j]
  <1> DEFINE T == {r[i] : i \in B}
  <1>1. T \in SUBSET Nat /\ T # {}
    OBVIOUS
  <1>2. PICK x \in T : \A y \in T : x <= y
    <2> HIDE DEF T
    <2> QED
      BY <1>1, Least
  <1> QED
    BY <1>2

\* The list holds the timers of the chain and no other.
LEMMA ListedIsChain ==
  ASSUME NEW s \in State, NEW R \in SUBSET Ids, NEW r \in [Ids -> Nat], Chain(s, R, r)
  PROVE  Listed(s) = R
  <1>1. PICK F : /\ Listed(s) = F[s.current] /\ F[None] = {}
                 /\ \A i \in Ids : F[i] = {i} \cup F[s.ctx[i].NextID]
    BY ListedUnfolds
  <1> DEFINE Lower(i) == {j \in R : r[j] <= r[i]}
             Bad == {i \in R : F[i] # Lower(i)}
  <1>2. ASSUME NEW i \in Bad, \A j \in Bad : r[i] <= r[j]
        PROVE  FALSE
    <2>1. i \in R /\ i \in Ids /\ F[i] # Lower(i) /\ F[i] = {i} \cup F[s.ctx[i].NextID]
      BY <1>1
    <2> DEFINE next == s.ctx[i].NextID
    <2>2. CASE next = None /\ \A j \in R : r[i] <= r[j]
      <3>1. ASSUME NEW j \in R, r[j] <= r[i] PROVE j = i
        <4>1. r[j] \in Nat /\ r[i] \in Nat /\ r[i] <= r[j]
          BY <2>1, <2>2
        <4>2. r[i] = r[j]
          BY <3>1, <4>1
        <4> QED
          BY <2>1, <4>2 DEF Chain
      <3> QED
        BY <1>1, <2>1, <2>2, <3>1
    <2>3. CASE /\ next \in R /\ r[next] < r[i]
               /\ \A j \in R : r[j] < r[i] => r[j] <= r[next]
      <3> HIDE DEF next
      <3>1. next \notin Bad
        BY <1>2, <2>1, <2>3
      <3>2. F[next] = Lower(next)
        BY <2>3, <3>1
      <3>3. \A j \in R : r[j] <= r[i] => j = i \/ r[j] <= r[next]
        BY <2>1, <2>3 DEF Chain
      <3>4. \A j \in R : r[j] <= r[next] => r[j] <= r[i]
        BY <2>1, <2>3
      <3>5. Lower(i) = {i} \cup Lower(next)
        BY <2>1, <3>3, <3>4
      <3> QED
        BY <2>1, <3>2, <3>5 DEF next
    <2> QED
      BY <2>1, <2>2, <2>3 DEF Chain
  <1>3. \A i \in R : F[i] = Lower(i)
    <2>1. Bad \in SUBSET Ids
      OBVIOUS
    <2>2. Bad = {}
      <3> HIDE DEF Bad
      <3> QED
        BY <1>2, <2>1, Lowest
    <2> QED
      BY <2>2
  <1> HIDE DEF Bad
  <1>4. CASE R = {} /\ s.current = None
    BY <1>1, <1>4
  <1>5. CASE s.current \in R /\ \A j \in R : r[j] <= r[s.current]
    BY <1>1, <1>3, <1>5
  <1> QED
    BY <1>4, <1>5 DEF Chain

\* LinkedAfter finds the place of a timer with the count left: every timer up to it
\* is due no later, every timer beyond it later.
LEMMA PlaceInChain ==
  ASSUME NEW s \in State, NEW R \in SUBSET Ids, NEW r \in [Ids -> Nat], Chain(s, R, r),
         NEW left \in Nat, s.current \in R, s.ctx[s.current].CountLeft <= left
  PROVE  LET ref == LinkedAfter(s, left) IN
         /\ ref \in R /\ s.ctx[ref].CountLeft <= left
         /\ \A j \in R : r[j] < r[ref] => s.ctx[j].CountLeft > left
  <1>1. PICK W : /\ LinkedAfter(s, left) = W[s.current]
                 /\ \A i \in Ids :
                      LET next == s.ctx[i].NextID IN
                      W[i] = IF next # None /\ s.ctx[next].CountLeft <= left THEN W[next] ELSE i
    BY WalkUnfolds
  <1> DEFINE Left(i) == s.ctx[i].CountLeft
             Place(w) == /\ w \in R /\ Left(w) <= left
                         /\ \A j \in R : r[j] < r[w] => Left(j) > left
             Bad == {i \in R : Left(i) <= left /\ ~Place(W[i])}
  <1>0. \A i \in Ids : Left(i) \in Nat
    BY StateFields
  <1>2. ASSUME NEW i \in Bad, \A j \in Bad : r[i] <= r[j]
        PROVE  FALSE
    <2>1. i \in R /\ i \in Ids /\ Left(i) <= left /\ ~Place(W[i])
      OBVIOUS
    <2> DEFINE next == s.ctx[i].NextID
    <2>2. W[i] = IF next # None /\ Left(next) <= left THEN W[next] ELSE i
      BY <1>1, <2>1
    <2>3. CASE next = None /\ \A j \in R : r[i] <= r[j]
      <3>1. W[i] = i
        BY <2>2, <2>3
      <3>2. \A j \in R : ~(r[j] < r[i])
        BY <2>1, <2>3
      <3> HIDE DEF Left
      <3> QED
        BY <2>1, <3>1, <3>2
    <2>4. CASE /\ next \in R /\ r[next] < r[i]
               /\ \A j \in R : r[j] < r[i] => r[j] <= r[next]
      <3>1. next \in Ids /\ next # None
        BY <2>4, NoneIsNoTimer
      <3> HIDE DEF next, Place
      <3>2. CASE Left(next) <= left
        <4>1. W[i] = W[next]
          BY <2>2, <3>1, <3>2
        <4>2. next \notin Bad
          BY <1>2, <2>1, <2>4
        <4> QED
          BY <2>1, <2>4, <3>2, <4>1, <4>2
      <3>3. CASE ~(Left(next) <= left)
        <4>1. W[i] = i
          BY <2>2, <3>3
        <4>2. ASSUME NEW j \in R, r[j] < r[i] PROVE Left(j) > left
          <5>1. r[j] <= r[next] /\ j \in Ids
            BY <2>4, <4>2
          <5>2. CASE r[j] = r[next]
            <6>1. j = next
              BY <2>4, <5>2 DEF Chain
            <6> QED
              BY <1>0, <3>1, <3>3, <6>1
          <5>3. CASE r[j] < r[next]
            <6>1. Left(next) <= Left(j)
              BY <2>4, <5>3 DEF Chain
            <6> HIDE DEF Left
            <6> QED
              BY <1>0, <3>1, <3>3, <5>1, <6>1
          <5>4. r[j] \in Nat /\ r[next] \in Nat
            BY <3>1, <5>1
          <5> QED
            BY <5>1, <5>2, <5>3, <5>4
        <4> HIDE DEF Left
        <4> QED
          BY <2>1, <4>1, <4>2 DEF Place
      <3> QED
        BY <3>2, <3>3
    <2> QED
      BY <2>1, <2>3, <2>4 DEF Chain
  <1>3. \A i \in R : Left(i) <= left => Place(W[i])
    <2>1. Bad \in SUBSET Ids
      OBVIOUS
    <2>2. Bad = {}
      <3> HIDE DEF Bad
      <3> QED
        BY <1>2, <2>1, Lowest
    <2> HIDE DEF Place
    <2> QED
      BY <2>2
  <1> QED
    BY <1>1, <1>3

\* Only the links and the places of the list differ.
SameButLinks(u, s) ==
  /\ u \in State
  /\ u.since = s.since /\ u.overpassed = s.overpassed
  /\ u.wut = s.wut /\ u.pending = s.pending
  /\ \A i \in Ids : /\ u.ctx[i].status = s.ctx[i].status
                    /\ u.ctx[i].mode = s.ctx[i].mode
                    /\ u.ctx[i].CountLeft = s.ctx[i].CountLeft
                    /\ u.ctx[i].CounterInit = s.ctx[i].CounterInit

\* The pointers LinkTimerAfter sets.
LEMMA LinkTimerAfterSets ==
  ASSUME NEW s \in State, NEW t \in Ids, NEW ref \in Ids, t # ref,
         s.ctx[ref].NextID # t, s.ctx[ref].NextID # ref
  PROVE  LET u == LinkTimerAfter(s, t, ref)
             next == s.ctx[ref].NextID
         IN  /\ SameButLinks(u, s) /\ u.current = s.current /\ u.previous = s.previous
             /\ \A i \in Ids :
                  /\ u.ctx[i].NextID = IF i = t THEN next ELSE IF i = ref THEN t
                                       ELSE s.ctx[i].NextID
                  /\ u.ctx[i].PreviousID = IF i = t THEN ref ELSE IF i = next THEN t
                                           ELSE s.ctx[i].PreviousID
  <1> DEFINE next == s.ctx[ref].NextID
             c == [i \in Ids |->
                     CASE i = t -> [s.ctx[t] EXCEPT !.NextID = next, !.PreviousID = ref]
                       [] i = ref -> [s.ctx[ref] EXCEPT !.NextID = t]
                       [] i = next -> [s.ctx[next] EXCEPT !.PreviousID = t]
                       [] OTHER -> s.ctx[i]]
             u == LinkTimerAfter(s, t, ref)
  <1>1. u = [s EXCEPT !.ctx = c]
    BY DEF LinkTimerAfter
  <1>2. next \in Ids \cup {None}
    BY StateFields
  <1>3. ASSUME NEW i \in Ids
        PROVE  /\ c[i] \in Context
               /\ c[i].status = s.ctx[i].status /\ c[i].mode = s.ctx[i].mode
               /\ c[i].CountLeft = s.ctx[i].CountLeft /\ c[i].CounterInit = s.ctx[i].CounterInit
               /\ c[i].NextID = IF i = t THEN next ELSE IF i = ref THEN t ELSE s.ctx[i].NextID
               /\ c[i].PreviousID = IF i = t THEN ref ELSE IF i = next THEN t
                                    ELSE s.ctx[i].PreviousID
    <2>1. s.ctx[i] \in Context
      BY StateFields
    <2> HIDE DEF next
    <2>2. CASE i = t
      <3>0. t # next /\ t # ref /\ i = t
        BY <2>2 DEF next
      <3>1. c[t] = [s.ctx[t] EXCEPT !.NextID = next, !.PreviousID = ref]
        BY <3>0
      <3>2. /\ c[i] \in Context /\ c[i].NextID = next /\ c[i].PreviousID = ref
            /\ c[i].status = s.ctx[i].status /\ c[i].mode = s.ctx[i].mode
            /\ c[i].CountLeft = s.ctx[i].CountLeft /\ c[i].CounterInit = s.ctx[i].CounterInit
        <4> HIDE DEF c
        <4> QED
          BY <1>2, <2>1, <3>0, <3>1 DEF Context
      <3> HIDE DEF c
      <3> QED
        BY <2>2, <3>2
    <2>3. CASE i = ref
      <3>1. c[i] = [s.ctx[i] EXCEPT !.NextID = t] /\ i # next /\ i # t
        BY <2>3 DEF next
      <3> QED
        BY <2>1, <2>3, <3>1 DEF Context
    <2>4. CASE i = next /\ i # t /\ i # ref
      <3>1. c[i] = [s.ctx[i] EXCEPT !.PreviousID = t]
        BY <2>4
      <3> QED
        BY <2>1, <2>4, <3>1 DEF Context
    <2>5. CASE i # next /\ i # t /\ i # ref
      <3>1. c[i] = s.ctx[i]
        BY <2>5
      <3> QED
        BY <2>1, <2>5, <3>1
    <2> QED
      BY <2>2, <2>3, <2>4, <2>5
  <1>4. c \in [Ids -> Context]
    <2>1. c = [i \in Ids |-> c[i]]
      OBVIOUS
    <2> HIDE DEF c
    <2> QED
      BY <1>3, <2>1
  <1> HIDE DEF c, u
  <1>5. /\ u \in State /\ u.ctx = c /\ u.current = s.current /\ u.previous = s.previous
        /\ u.since = s.since /\ u.overpassed = s.overpassed
        /\ u.wut = s.wut /\ u.pending = s.pending
    BY <1>1, <1>4 DEF State
  <1> QED
    BY <1>3, <1>5 DEF SameButLinks, u

\* What the ranks of a chain say of a timer's neighbours.
LEMMA Neighbours ==
  ASSUME NEW s \in State, NEW R \in SUBSET Ids, NEW r \in [Ids -> Nat], Chain(s, R, r),
         NEW i \in R
  PROVE  LET next == s.ctx[i].NextID
             previous == s.ctx[i].PreviousID
         IN  /\ s.current \in R /\ r[i] <= r[s.current]
             /\ \/ next = None /\ \A j \in R : r[i] <= r[j]
                \/ /\ next \in R /\ next # i /\ r[next] < r[i] /\ s.ctx[next].PreviousID = i
                   /\ \A j \in R : r[j] < r[i] => r[j] <= r[next]
             /\ i # s.current => previous \in R /\ s.ctx[previous].NextID = i
             /\ \A j \in R : r[j] < r[i] => s.ctx[i].CountLeft <= s.ctx[j].CountLeft
             /\ \A j \in R : r[j] = r[i] => i = j
  BY DEF Chain

\* A timer linked after one that is due no later, before all that are due later,
\* joins the chain.
LEMMA ChainLinkedAfter ==
  ASSUME NEW s \in State, NEW R \in SUBSET Ids, NEW r \in [Ids -> Nat], Chain(s, R, r),
         NEW t \in Ids, t \notin R, NEW ref \in R,
         s.ctx[ref].CountLeft <= s.ctx[t].CountLeft,
         \A j \in R : r[j] < r[ref] => s.ctx[j].CountLeft > s.ctx[t].CountLeft
  PROVE  LET u == LinkTimerAfter(s, t, ref) IN
         /\ SameButLinks(u, s) /\ u.current = s.current /\ u.previous = s.previous
         /\ \E q \in [Ids -> Nat] :
              /\ Chain(u, R \cup {t}, q)
              /\ \A i, j \in R : q[i] < q[j] <=> r[i] < r[j]
              /\ \A i \in R : q[t] < q[i] <=> r[ref] <= r[i]
  <1> DEFINE u == LinkTimerAfter(s, t, ref)
             next == s.ctx[ref].NextID
             q == [i \in Ids |-> IF i = t THEN 2 * r[ref] ELSE 2 * r[i] + 1]
             S == R \cup {t}
             Left(i) == s.ctx[i].CountLeft
  <1>1. next = None \/ (next \in R /\ next # ref)
    BY Neighbours
  <1>2. /\ SameButLinks(u, s) /\ u.current = s.current /\ u.previous = s.previous
        /\ \A i \in Ids :
             /\ u.ctx[i].NextID = IF i = t THEN next ELSE IF i = ref THEN t
                                  ELSE s.ctx[i].NextID
             /\ u.ctx[i].PreviousID = IF i = t THEN ref ELSE IF i = next THEN t
                                      ELSE s.ctx[i].PreviousID
    BY <1>1, LinkTimerAfterSets, NoneIsNoTimer
  <1>3. /\ q \in [Ids -> Nat]
        /\ \A i \in R : q[i] = 2 * r[i] + 1 /\ r[i] \in Nat /\ q[i] \in Nat
        /\ q[t] = 2 * r[ref] /\ r[ref] \in Nat
    OBVIOUS
  <1> HIDE DEF q, u
  <1>4. /\ \A i, j \in R : /\ q[i] < q[j] <=> r[i] < r[j]
                           /\ q[i] <= q[j] <=> r[i] <= r[j]
                           /\ q[i] = q[j] <=> r[i] = r[j]
        /\ \A i \in R : /\ q[t] < q[i] <=> r[ref] <= r[i]
                        /\ q[t] <= q[i] <=> r[ref] <= r[i]
                        /\ q[i] < q[t] <=> r[i] < r[ref]
                        /\ q[i] <= q[t] <=> r[i] < r[ref]
                        /\ q[i] # q[t]
    BY <1>3
  <1>5. \A i \in R : r[i] \in Nat /\ r[ref] \in Nat /\ Left(i) \in Nat /\ Left(t) \in Nat
    BY StateFields
  <1>6. \A i \in Ids : u.ctx[i].CountLeft = Left(i)
    BY <1>2 DEF SameButLinks
  <1> HIDE DEF Left
  <1>7. \A i, j \in S : q[i] = q[j] => i = j
    BY <1>4 DEF Chain
  <1>8. u.current \in S /\ \A j \in S : q[j] <= q[u.current]
    <2>1. s.current \in R /\ r[ref] <= r[s.current] /\ \A j \in R : r[j] <= r[s.current]
      BY Neighbours
    <2> QED
      BY <1>2, <1>4, <2>1
  <1>9. ASSUME NEW i \in S
        PROVE  LET n == u.ctx[i].NextID IN
               \/ n = None /\ \A j \in S : q[i] <= q[j]
               \/ n \in S /\ q[n] < q[i] /\ u.ctx[n].PreviousID = i
                  /\ \A j \in S : q[j] < q[i] => q[j] <= q[n]
    <2>0. \/ next = None /\ \A j \in R : r[ref] <= r[j]
          \/ /\ next \in R /\ next # ref /\ r[next] < r[ref] /\ s.ctx[next].PreviousID = ref
             /\ \A j \in R : r[j] < r[ref] => r[j] <= r[next]
      BY Neighbours
    <2>1. CASE i = t
      <3>1. u.ctx[i].NextID = next
        BY <1>2, <2>1
      <3>2. next \in R => u.ctx[next].PreviousID = t
        BY <1>2
      <3> HIDE DEF next
      <3> QED
        BY <1>3, <1>4, <2>0, <2>1, <3>1, <3>2
    <2>2. CASE i = ref
      <3>1. u.ctx[i].NextID = t /\ u.ctx[t].PreviousID = ref
        BY <1>2, <2>2
      <3>2. \A j \in R : q[j] < q[i] => q[j] <= q[t]
        BY <1>4, <2>2
      <3>3. q[t] < q[i] /\ q[t] <= q[t]
        BY <1>3, <1>4, <2>2
      <3> QED
        BY <2>2, <3>1, <3>2, <3>3
    <2>3. CASE i \in R /\ i # ref
      <3> DEFINE n == s.ctx[i].NextID
      <3>1. u.ctx[i].NextID = n /\ i # t
        BY <1>2, <2>3
      <3>2. /\ \/ n = None /\ \A j \in R : r[i] <= r[j]
               \/ /\ n \in R /\ n # i /\ r[n] < r[i] /\ s.ctx[n].PreviousID = i
                  /\ \A j \in R : r[j] < r[i] => r[j] <= r[n]
            /\ r[i] # r[ref]
        BY <2>3, Neighbours
      <3>3. n \in R => u.ctx[n].PreviousID = i
        <4> SUFFICES ASSUME n \in R PROVE u.ctx[n].PreviousID = i
          OBVIOUS
        <4>1. s.ctx[n].PreviousID = i /\ n # t
          BY <3>2, NoneIsNoTimer
        <4>2. n # next
          BY <2>0, <2>3, <4>1, NoneIsNoTimer
        <4> QED
          BY <1>2, <4>1, <4>2
      <3> HIDE DEF n, next
      <3>4. r[i] \in Nat /\ r[ref] \in Nat /\ \A j \in R : r[j] \in Nat
        BY <1>5, <2>3
      <3>5. CASE n = None /\ \A j \in R : r[i] <= r[j]
        <4>1. r[i] < r[ref]
          BY <3>2, <3>4, <3>5
        <4> QED
          BY <1>4, <2>3, <3>1, <3>5, <4>1
      <3>6. CASE /\ n \in R /\ r[n] < r[i]
                 /\ \A j \in R : r[j] < r[i] => r[j] <= r[n]
        <4>1. q[n] < q[i] /\ \A j \in R : q[j] < q[i] => q[j] <= q[n]
          BY <1>4, <2>3, <3>6
        <4>2. q[t] < q[i] => q[t] <= q[n]
          BY <1>4, <2>3, <3>2, <3>4, <3>6
        <4> QED
          BY <3>1, <3>3, <3>6, <4>1, <4>2
      <3> QED
        BY <3>2, <3>5, <3>6
    <2> QED
      BY <2>1, <2>2, <2>3
  <1>10. ASSUME NEW i \in S, i # u.current
         PROVE  u.ctx[i].PreviousID \in S /\ u.ctx[u.ctx[i].PreviousID].NextID = i
    <2>1. CASE i = t
      BY <1>2, <2>1
    <2>2. CASE i # t /\ i = next
      <3>1. u.ctx[i].PreviousID = t /\ u.ctx[t].NextID = next
        BY <1>2, <2>2
      <3> QED
        BY <2>2, <3>1
    <2>3. CASE i # t /\ i # next
      <3> DEFINE p == s.ctx[i].PreviousID
      <3>0. i \in R /\ i # s.current
        BY <1>2, <1>10, <2>3
      <3>1. i \in R /\ p \in R /\ s.ctx[p].NextID = i
        BY <3>0, Neighbours
      <3>2. u.ctx[i].PreviousID = p
        BY <1>2, <2>3
      <3>3. p # t /\ p # ref
        BY <2>3, <3>1
      <3> HIDE DEF p
      <3> QED
        BY <1>2, <3>1, <3>2, <3>3
    <2> QED
      BY <2>1, <2>2, <2>3
  <1>11. ASSUME NEW i \in S, NEW j \in S, q[j] < q[i]
         PROVE  u.ctx[i].CountLeft <= u.ctx[j].CountLeft
    <2>0. /\ Left(ref) <= Left(t) /\ \A k \in R : r[k] < r[ref] => Left(k) > Left(t)
          /\ \A k, l \in R : r[l] < r[k] => Left(k) <= Left(l)
          /\ \A k, l \in R : r[l] = r[k] => k = l
      BY DEF Left, Chain
    <2>1. CASE i = t
      <3>1. j \in R /\ r[j] < r[ref]
        BY <1>3, <1>4, <1>11, <2>1
      <3> QED
        BY <1>5, <1>6, <2>0, <2>1, <3>1
    <2>2. CASE i # t /\ j = t
      <3>1. i \in R /\ r[ref] <= r[i]
        BY <1>4, <1>11, <2>2
      <3>2. Left(i) <= Left(ref)
        BY <1>5, <2>0, <3>1
      <3> QED
        BY <1>5, <1>6, <2>0, <2>2, <3>1, <3>2
    <2>3. CASE i # t /\ j # t
      BY <1>4, <1>6, <1>11, <2>0, <2>3
    <2> QED
      BY <2>1, <2>2, <2>3
  <1>12. Chain(u, S, q)
    BY <1>7, <1>8, <1>9, <1>10, <1>11 DEF Chain
  <1> QED
    BY <1>2, <1>3, <1>4, <1>12 DEF u

\* A timer that is due before the current one is linked before it and becomes the
\* current one.
LEMMA ChainLinkedBefore ==
  ASSUME NEW s \in State, NEW R \in SUBSET Ids, NEW r \in [Ids -> Nat], Chain(s, R, r),
         NEW t \in Ids, t \notin R, s.current \in R,
         s.ctx[s.current].CountLeft > s.ctx[t].CountLeft
  PROVE  LET u == BecomesCurrent(LinkTimerBefore(s, t, s.current), t) IN
         /\ SameButLinks(u, s) /\ u.current = t /\ u.previous = s.current
         /\ \E q \in [Ids -> Nat] :
              /\ Chain(u, R \cup {t}, q)
              /\ \A i, j \in R : q[i] < q[j] <=> r[i] < r[j]
  <1> DEFINE u == BecomesCurrent(LinkTimerBefore(s, t, s.current), t)
             cur == s.current
             q == [i \in Ids |-> IF i = t THEN r[cur] + 1 ELSE r[i]]
             S == R \cup {t}
             Left(i) == s.ctx[i].CountLeft
             c == [s.ctx EXCEPT ![t] = [s.ctx[t] EXCEPT !.NextID = cur],
                                ![cur] = [s.ctx[cur] EXCEPT !.PreviousID = t]]
  <1>1. cur \in R /\ cur \in Ids /\ cur # t
    OBVIOUS
  <1> HIDE DEF cur
  <1>2. u = [s EXCEPT !.ctx = c, !.previous = cur, !.current = t]
    BY <1>1, StateFields DEF LinkTimerBefore, BecomesCurrent, cur, State
  <1>3. /\ c \in [Ids -> Context]
        /\ \A i \in Ids :
             /\ c[i].status = s.ctx[i].status /\ c[i].mode = s.ctx[i].mode
             /\ c[i].CountLeft = Left(i) /\ c[i].CounterInit = s.ctx[i].CounterInit
             /\ c[i].NextID = IF i = t THEN cur ELSE s.ctx[i].NextID
             /\ c[i].PreviousID = IF i = cur THEN t ELSE s.ctx[i].PreviousID
    <2>1. s.ctx \in [Ids -> Context]
      BY StateFields
    <2>2. /\ [s.ctx[t] EXCEPT !.NextID = cur] \in Context
          /\ [s.ctx[cur] EXCEPT !.PreviousID = t] \in Context
      BY <1>1, <2>1 DEF Context
    <2>3. c \in [Ids -> Context]
      BY <1>1, <2>1, <2>2
    <2>4. ASSUME NEW i \in Ids
          PROVE  /\ c[i].status = s.ctx[i].status /\ c[i].mode = s.ctx[i].mode
                 /\ c[i].CountLeft = Left(i) /\ c[i].CounterInit = s.ctx[i].CounterInit
                 /\ c[i].NextID = IF i = t THEN cur ELSE s.ctx[i].NextID
                 /\ c[i].PreviousID = IF i = cur THEN t ELSE s.ctx[i].PreviousID
      <3>0. s.ctx[i] \in Context
        BY <2>1
      <3>1. CASE i = t
        <4>1. c[i] = [s.ctx[i] EXCEPT !.NextID = cur]
          BY <1>1, <2>1, <3>1
        <4> HIDE DEF c
        <4> QED
          BY <1>1, <3>0, <3>1, <4>1 DEF Context
      <3>2. CASE i = cur
        <4>1. c[i] = [s.ctx[i] EXCEPT !.PreviousID = t]
          BY <1>1, <2>1, <3>2
        <4> HIDE DEF c
        <4> QED
          BY <1>1, <3>0, <3>2, <4>1 DEF Context
      <3>3. CASE i # t /\ i # cur
        <4>1. c[i] = s.ctx[i]
          BY <1>1, <2>1, <3>3
        <4> HIDE DEF c
        <4> QED
          BY <3>3, <4>1
      <3> QED
        BY <3>1, <3>2, <3>3
    <2> QED
      BY <2>3, <2>4
  <1> HIDE DEF c, u
  <1>4. /\ u \in State /\ u.ctx = c /\ u.current = t /\ u.previous = cur
        /\ u.since = s.since /\ u.overpassed = s.overpassed
        /\ u.wut = s.wut /\ u.pending = s.pending
    BY <1>1, <1>2, <1>3 DEF State
  <1>5. SameButLinks(u, s)
    BY <1>3, <1>4 DEF SameButLinks
  <1>6. /\ q \in [Ids -> Nat] /\ q[t] = r[cur] + 1
        /\ \A i \in R : q[i] = r[i] /\ r[i] \in Nat
    BY <1>1
  <1> HIDE DEF q
  <1>7. \A i \in R : r[i] <= r[cur] /\ q[i] < q[t] /\ q[i] <= q[t] /\ q[i] # q[t] /\ ~(q[t] < q[i])
    <2>1. \A i \in R : r[i] <= r[cur]
      BY Neighbours DEF cur
    <2> QED
      BY <1>1, <1>6, <2>1
  <1>8. /\ \A i, j \in R : r[i] = r[j] => i = j
        /\ \A i \in R :
             LET n == s.ctx[i].NextID
                 p == s.ctx[i].PreviousID
             IN  /\ \/ n = None /\ \A j \in R : r[i] <= r[j]
                    \/ /\ n \in R /\ n # i /\ r[n] < r[i] /\ s.ctx[n].PreviousID = i
                       /\ \A j \in R : r[j] < r[i] => r[j] <= r[n]
                 /\ i # cur => p \in R /\ s.ctx[p].NextID = i
        /\ \A i, j \in R : r[j] < r[i] => Left(i) <= Left(j)
    BY Neighbours DEF cur
  <1>9. \A i, j \in S : q[i] = q[j] => i = j
    BY <1>6, <1>7, <1>8
  <1>10. u.current \in S /\ \A j \in S : q[j] <= q[u.current]
    BY <1>1, <1>4, <1>6, <1>7
  <1>11. ASSUME NEW i \in S
         PROVE  LET n == u.ctx[i].NextID IN
                \/ n = None /\ \A j \in S : q[i] <= q[j]
                \/ n \in S /\ q[n] < q[i] /\ u.ctx[n].PreviousID = i
                   /\ \A j \in S : q[j] < q[i] => q[j] <= q[n]
    <2>1. CASE i = t
      <3>1. u.ctx[i].NextID = cur /\ u.ctx[cur].PreviousID = t
        BY <1>1, <1>3, <1>4, <2>1
      <3>2. \A j \in R : q[j] <= q[cur]
        BY <1>1, <1>6, <1>7
      <3>3. ~(q[t] < q[t])
        BY <1>6
      <3> QED
        BY <1>1, <1>7, <2>1, <3>1, <3>2, <3>3
    <2>2. CASE i # t
      <3> DEFINE n == s.ctx[i].NextID
      <3>1. i \in R /\ u.ctx[i].NextID = n
        BY <1>3, <1>4, <2>2
      <3>2. \/ n = None /\ \A j \in R : r[i] <= r[j]
            \/ /\ n \in R /\ n # i /\ r[n] < r[i] /\ s.ctx[n].PreviousID = i
               /\ \A j \in R : r[j] < r[i] => r[j] <= r[n]
        BY <1>8, <3>1
      <3>3. n \in R => n # cur \/ n = None
        <4>1. n \in R /\ r[n] < r[i] => n # cur
          BY <1>1, <1>6, <1>7, <3>1
        <4> QED
          BY <3>2, <4>1
      <3>4. n \in R /\ n # cur => u.ctx[n].PreviousID = s.ctx[n].PreviousID
        BY <1>3, <1>4
      <3> HIDE DEF n
      <3>5. CASE n = None /\ \A j \in R : r[i] <= r[j]
        BY <1>6, <1>7, <3>1, <3>5
      <3>6. CASE /\ n \in R /\ n # i /\ r[n] < r[i] /\ s.ctx[n].PreviousID = i
                 /\ \A j \in R : r[j] < r[i] => r[j] <= r[n]
        <4>1. u.ctx[n].PreviousID = i
          BY <3>3, <3>4, <3>6, NoneIsNoTimer
        <4>2. q[n] < q[i] /\ \A j \in R : q[j] < q[i] => q[j] <= q[n]
          BY <1>6, <3>1, <3>6
        <4> QED
          BY <1>7, <3>1, <3>6, <4>1, <4>2
      <3> QED
        BY <3>2, <3>5, <3>6
    <2> QED
      BY <2>1, <2>2
  <1>12. ASSUME NEW i \in S, i # u.current
         PROVE  u.ctx[i].PreviousID \in S /\ u.ctx[u.ctx[i].PreviousID].NextID = i
    <2>1. i \in R /\ i # t
      BY <1>4, <1>12
    <2>2. CASE i = cur
      BY <1>1, <1>3, <1>4, <2>2
    <2>3. CASE i # cur
      <3> DEFINE p == s.ctx[i].PreviousID
      <3>1. p \in R /\ s.ctx[p].NextID = i
        BY <1>8, <2>1, <2>3
      <3>2. u.ctx[i].PreviousID = p
        BY <1>3, <1>4, <2>1, <2>3
      <3> HIDE DEF p
      <3>3. u.ctx[p].NextID = i
        BY <1>3, <1>4, <3>1
      <3> QED
        BY <3>1, <3>2, <3>3
    <2> QED
      BY <2>2, <2>3
  <1>13. ASSUME NEW i \in S, NEW j \in S, q[j] < q[i]
         PROVE  u.ctx[i].CountLeft <= u.ctx[j].CountLeft
    <2>1. /\ u.ctx[i].CountLeft = Left(i) /\ u.ctx[j].CountLeft = Left(j)
          /\ Left(i) \in Nat /\ Left(j) \in Nat /\ Left(t) \in Nat /\ Left(cur) \in Nat
      BY <1>1, <1>3, <1>4, StateFields
    <2>2. Left(t) < Left(cur)
      BY <1>1, StateFields DEF cur
    <2> HIDE DEF Left
    <2>3. CASE i = t
      <3>1. j \in R
        BY <1>6, <1>13, <2>3
      <3>2. r[j] = r[cur] \/ r[j] < r[cur]
        BY <1>1, <1>6, <1>7, <3>1
      <3>3. Left(cur) <= Left(j)
        BY <1>1, <1>8, <2>1, <3>1, <3>2
      <3> QED
        BY <2>1, <2>2, <2>3, <3>3
    <2>4. CASE i # t
      <3>1. j # t /\ i \in R /\ j \in R
        BY <1>7, <1>13, <2>4
      <3> QED
        BY <1>6, <1>8, <1>13, <2>1, <3>1
    <2> QED
      BY <2>3, <2>4
  <1>14. Chain(u, S, q)
    BY <1>9, <1>10, <1>11, <1>12, <1>13 DEF Chain
  <1>15. \A i, j \in R : q[i] < q[j] <=> r[i] < r[j]
    BY <1>6
  <1> QED
    BY <1>4, <1>5, <1>6, <1>14, <1>15 DEF u, cur

\* The timers listed when t is added.
Added(R, t) == R \cup {t}

\* t is in the chain: the order of the others stays, and those due no later are before it.
Joins(u, s, R, r, t) ==
  \E q \in [Ids -> Nat] :
    /\ Chain(u, Added(R, t), q)
    /\ \A i, j \in R : q[i] < q[j] <=> r[i] < r[j]
    /\ \A i \in R : s.ctx[i].CountLeft <= s.ctx[t].CountLeft => q[t] < q[i]

\* InsertTimer puts a timer behind all that are due no later.
LEMMA ChainInserted ==
  ASSUME NEW s \in State, NEW R \in SUBSET Ids, NEW r \in [Ids -> Nat], Chain(s, R, r),
         NEW t \in Ids, t \notin R, s.current \in R, s.previous # s.current
  PROVE  LET u == InsertTimer(s, t) IN
         SameButLinks(u, s) /\ u.previous # u.current /\ Joins(u, s, R, r, t)
  <1> DEFINE left == s.ctx[t].CountLeft
             ref == LinkedAfter(s, left)
             u == InsertTimer(s, t)
             Left(i) == s.ctx[i].CountLeft
  <1>0. left \in Nat /\ \A i \in Ids : Left(i) \in Nat
    BY StateFields
  <1>1. CASE s.ctx[s.current].CountLeft <= left
    <2>1. /\ ref \in R /\ s.ctx[ref].CountLeft <= left
          /\ \A j \in R : r[j] < r[ref] => s.ctx[j].CountLeft > left
      BY <1>0, <1>1, PlaceInChain
    <2> DEFINE v == LinkTimerAfter(s, t, ref)
    <2>2. u = v
      BY <1>1 DEF InsertTimer
    <2> HIDE DEF ref, u
    <2>3. /\ SameButLinks(v, s) /\ v.current = s.current /\ v.previous = s.previous
          /\ \E q \in [Ids -> Nat] :
               /\ Chain(v, R \cup {t}, q)
               /\ \A i, j \in R : q[i] < q[j] <=> r[i] < r[j]
               /\ \A i \in R : q[t] < q[i] <=> r[ref] <= r[i]
      <3> HIDE DEF Left
      <3> QED
        BY <2>1, ChainLinkedAfter, SMTT(20)
    <2> HIDE DEF v
    <2>4. ASSUME NEW i \in R, Left(i) <= left
          PROVE  r[ref] <= r[i]
      <3>1. ~(r[i] < r[ref])
        <4>1. r[i] < r[ref] => Left(i) > left
          BY <2>1
        <4> HIDE DEF Left, left
        <4> QED
          BY <1>0, <2>4, <4>1
      <3>2. r[i] \in Nat /\ r[ref] \in Nat
        BY <2>1
      <3> QED
        BY <3>1, <3>2
    <2> QED
      BY <2>2, <2>3, <2>4 DEF u, Joins, Added
  <1>2. CASE ~(s.ctx[s.current].CountLeft <= left)
    <2>1. s.ctx[s.current].CountLeft > left
      BY <1>0, <1>2, StateFields
    <2> DEFINE v == BecomesCurrent(LinkTimerBefore(s, t, s.current), t)
    <2>2. u = v
      BY <1>2 DEF InsertTimer
    <2> HIDE DEF u
    <2>3. /\ SameButLinks(v, s) /\ v.current = t /\ v.previous = s.current
          /\ \E q \in [Ids -> Nat] :
               /\ Chain(v, R \cup {t}, q)
               /\ \A i, j \in R : q[i] < q[j] <=> r[i] < r[j]
      BY <2>1, ChainLinkedBefore
    <2> HIDE DEF v
    <2>4. ASSUME NEW i \in R
          PROVE  ~(Left(i) <= left)
      <3>1. s.current \in Ids /\ Left(s.current) > left
        BY <2>1
      <3>2. r[i] <= r[s.current] /\ r[i] \in Nat /\ r[s.current] \in Nat
        BY Neighbours
      <3>3. r[i] = r[s.current] => i = s.current
        BY DEF Chain
      <3>4. r[i] < r[s.current] => Left(s.current) <= Left(i)
        BY DEF Chain
      <3> HIDE DEF Left, left
      <3> QED
        BY <1>0, <3>1, <3>2, <3>3, <3>4
    <2> QED
      BY <2>2, <2>3, <2>4 DEF u, Joins, Added
  <1> QED
    BY <1>1, <1>2

\* The timers left when t is taken off.
Others(R, t) == R \ {t}

\* RemoveTimer takes a timer out of the chain, and the ranks of the others stay.
LEMMA ChainRemoved ==
  ASSUME NEW s \in State, NEW R \in SUBSET Ids, NEW r \in [Ids -> Nat], Chain(s, R, r),
         NEW t \in R, s.previous # s.current
  PROVE  LET u == RemoveTimer(s, t) IN
         /\ SameButLinks(u, s) /\ u.previous # u.current
         /\ Chain(u, Others(R, t), r)
  <1> DEFINE u == RemoveTimer(s, t)
             next == s.ctx[t].NextID
             before == s.ctx[t].PreviousID
             S == R \ {t}
  <1>1. /\ s.current \in R /\ r[t] <= r[s.current] /\ \A j \in R : r[j] <= r[s.current]
        /\ \A i, j \in R : r[i] = r[j] => i = j
        /\ \A i \in R :
             LET n == s.ctx[i].NextID
                 p == s.ctx[i].PreviousID
             IN  /\ \/ n = None /\ \A j \in R : r[i] <= r[j]
                    \/ /\ n \in R /\ n # i /\ r[n] < r[i] /\ s.ctx[n].PreviousID = i
                       /\ \A j \in R : r[j] < r[i] => r[j] <= r[n]
                 /\ i # s.current => p \in R /\ s.ctx[p].NextID = i
        /\ \A i, j \in R : r[j] < r[i] => s.ctx[i].CountLeft <= s.ctx[j].CountLeft
    BY Neighbours
  <1>2. \A i \in R : r[i] \in Nat
    OBVIOUS
  <1>3. CASE t = s.current
    <2>1. u = [s EXCEPT !.previous = s.current, !.current = next]
      BY <1>3 DEF RemoveTimer, BecomesCurrent
    <2>2. next \in Ids \cup {None}
      BY StateFields
    <2> HIDE DEF u
    <2>3. /\ u \in State /\ u.ctx = s.ctx /\ u.current = next /\ u.previous = t
          /\ u.since = s.since /\ u.overpassed = s.overpassed
          /\ u.wut = s.wut /\ u.pending = s.pending
      BY <1>3, <2>1, <2>2 DEF State
    <2>4. next # t
      BY <1>1, NoneIsNoTimer
    <2>5. \/ S = {} /\ next = None
          \/ next \in S /\ \A j \in S : r[j] <= r[next]
      <3>1. CASE next = None /\ \A j \in R : r[t] <= r[j]
        BY <1>1, <1>2, <1>3, <3>1
      <3>2. CASE next \in R /\ \A j \in R : r[j] < r[t] => r[j] <= r[next]
        BY <1>1, <1>2, <1>3, <2>4, <3>2
      <3> QED
        BY <1>1, <3>1, <3>2
    <2>6. \A i \in S : s.ctx[i].NextID # t
      BY <1>1, <1>2, <1>3, NoneIsNoTimer
    <2>7. \A i \in S : i # next =>
            s.ctx[i].PreviousID \in S /\ s.ctx[s.ctx[i].PreviousID].NextID = i
      BY <1>1, <1>3
    <2>8. Chain(u, S, r)
      <3>1. \A i \in S : LET n == u.ctx[i].NextID IN
              \/ n = None /\ \A j \in S : r[i] <= r[j]
              \/ n \in S /\ r[n] < r[i] /\ u.ctx[n].PreviousID = i
                 /\ \A j \in S : r[j] < r[i] => r[j] <= r[n]
        BY <1>1, <2>3, <2>6
      <3> HIDE DEF next
      <3> QED
        BY <1>1, <2>3, <2>5, <2>7, <3>1 DEF Chain
    <2> QED
      BY <1>3, <2>3, <2>4, <2>8 DEF SameButLinks, u, Others
  <1>4. CASE t # s.current
    <2> DEFINE c == [i \in Ids |->
                       CASE i = before -> [s.ctx[before] EXCEPT !.NextID = next]
                         [] i = next -> [s.ctx[next] EXCEPT !.PreviousID = before]
                         [] OTHER -> s.ctx[i]]
    <2>1. u = [s EXCEPT !.ctx = c]
      BY <1>4 DEF RemoveTimer
    <2>2. /\ before \in R /\ s.ctx[before].NextID = t /\ before # t
          /\ r[t] < r[before] /\ \A j \in R : r[j] < r[before] => r[j] <= r[t]
      BY <1>1, <1>4, NoneIsNoTimer
    <2>3. /\ next # t /\ next # before /\ next \in Ids \cup {None}
          /\ \/ next = None /\ \A j \in R : r[t] <= r[j]
             \/ /\ next \in R /\ r[next] < r[t] /\ s.ctx[next].PreviousID = t
                /\ \A j \in R : r[j] < r[t] => r[j] <= r[next]
      <3>1. \/ next = None /\ \A j \in R : r[t] <= r[j]
            \/ /\ next \in R /\ next # t /\ r[next] < r[t] /\ s.ctx[next].PreviousID = t
               /\ \A j \in R : r[j] < r[t] => r[j] <= r[next]
        BY <1>1
      <3> HIDE DEF next, before
      <3>2. next # t /\ next # before
        BY <1>2, <2>2, <3>1, NoneIsNoTimer
      <3> QED
        BY <3>1, <3>2
    <2>4. ASSUME NEW i \in Ids
          PROVE  /\ c[i] \in Context
                 /\ c[i].status = s.ctx[i].status /\ c[i].mode = s.ctx[i].mode
                 /\ c[i].CountLeft = s.ctx[i].CountLeft
                 /\ c[i].CounterInit = s.ctx[i].CounterInit
                 /\ c[i].NextID = IF i = before THEN next ELSE s.ctx[i].NextID
                 /\ c[i].PreviousID = IF i = next THEN before ELSE s.ctx[i].PreviousID
      <3>1. s.ctx[i] \in Context /\ before \in Ids
        BY <2>2, StateFields
      <3> HIDE DEF next, before
      <3>2. CASE i = before
        <4>1. c[i] = [s.ctx[i] EXCEPT !.NextID = next] /\ i # next
          BY <2>3, <3>2
        <4> HIDE DEF c
        <4> QED
          BY <2>3, <3>1, <3>2, <4>1 DEF Context
      <3>3. CASE i = next
        <4>1. c[i] = [s.ctx[i] EXCEPT !.PreviousID = before] /\ i # before
          BY <2>3, <3>3
        <4> HIDE DEF c
        <4> QED
          BY <3>1, <3>3, <4>1 DEF Context
      <3>4. CASE i # before /\ i # next
        <4>1. c[i] = s.ctx[i]
          BY <3>4
        <4> HIDE DEF c
        <4> QED
          BY <3>1, <3>4, <4>1
      <3> QED
        BY <3>2, <3>3, <3>4
    <2>5. c \in [Ids -> Context]
      <3>1. c = [i \in Ids |-> c[i]]
        OBVIOUS
      <3> HIDE DEF c
      <3> QED
        BY <2>4, <3>1
    <2> HIDE DEF c, u
    <2>6. /\ u \in State /\ u.ctx = c /\ u.current = s.current /\ u.previous = s.previous
          /\ u.since = s.since /\ u.overpassed = s.overpassed
          /\ u.wut = s.wut /\ u.pending = s.pending
      BY <2>1, <2>5 DEF State
    <2>7. SameButLinks(u, s)
      BY <2>4, <2>6 DEF SameButLinks
    <2> HIDE DEF next, before
    <2>8. ASSUME NEW i \in S
          PROVE  LET n == u.ctx[i].NextID IN
                 \/ n = None /\ \A j \in S : r[i] <= r[j]
                 \/ n \in S /\ r[n] < r[i] /\ u.ctx[n].PreviousID = i
                    /\ \A j \in S : r[j] < r[i] => r[j] <= r[n]
      <3>1. CASE i = before
        <4>1. u.ctx[i].NextID = next
          BY <2>4, <2>6, <3>1
        <4>2. next \in R => u.ctx[next].PreviousID = i
          BY <2>4, <2>6, <3>1
        <4>3. ASSUME NEW j \in S, r[j] < r[i] PROVE r[j] < r[t]
          <5>1. r[j] <= r[t] /\ r[j] \in Nat /\ r[t] \in Nat
            BY <2>2, <3>1, <4>3
          <5>2. r[j] # r[t]
            BY <1>1
          <5> QED
            BY <5>1, <5>2
        <4> QED
          BY <1>2, <2>2, <2>3, <3>1, <4>1, <4>2, <4>3
      <3>2. CASE i # before
        <4> DEFINE n == s.ctx[i].NextID
        <4>1. u.ctx[i].NextID = n /\ n # t
          <5>1. n # t
            BY <1>1, <2>8, <3>2, NoneIsNoTimer DEF before
          <5> QED
            BY <2>4, <2>6, <3>2, <5>1
        <4>2. \/ n = None /\ \A j \in R : r[i] <= r[j]
              \/ /\ n \in R /\ r[n] < r[i] /\ s.ctx[n].PreviousID = i
                 /\ \A j \in R : r[j] < r[i] => r[j] <= r[n]
          BY <1>1
        <4>3. n \in R => u.ctx[n].PreviousID = i
          <5>1. n \in R => s.ctx[n].PreviousID = i
            BY <4>2, NoneIsNoTimer
          <5>2. n \in R => n # next
            BY <2>3, <5>1, NoneIsNoTimer
          <5> HIDE DEF n
          <5> QED
            BY <2>4, <2>6, <5>1, <5>2
        <4> HIDE DEF n
        <4> QED
          BY <4>1, <4>2, <4>3
      <3> QED
        BY <3>1, <3>2
    <2>9. ASSUME NEW i \in S, i # u.current
          PROVE  u.ctx[i].PreviousID \in S /\ u.ctx[u.ctx[i].PreviousID].NextID = i
      <3>1. CASE i = next
        BY <2>2, <2>4, <2>6, <3>1
      <3>2. CASE i # next
        <4> DEFINE p == s.ctx[i].PreviousID
        <4>1. p \in R /\ s.ctx[p].NextID = i
          BY <1>1, <2>6, <2>9
        <4>2. p # t /\ p # before
          BY <2>2, <3>2, <4>1 DEF next
        <4>3. u.ctx[i].PreviousID = p
          BY <2>4, <2>6, <3>2
        <4> HIDE DEF p
        <4> QED
          BY <2>4, <2>6, <4>1, <4>2, <4>3
      <3> QED
        BY <3>1, <3>2
    <2>10. \A i \in S : u.ctx[i].CountLeft = s.ctx[i].CountLeft
      BY <2>4, <2>6
    <2>11. Chain(u, S, r)
      BY <1>1, <1>4, <2>6, <2>8, <2>9, <2>10 DEF Chain
    <2> QED
      BY <2>6, <2>7, <2>11 DEF u, Others
  <1> QED
    BY <1>3, <1>4

-----------------------------------------------------------------------------
(* How late a timer may be.                                                *)

\* Multiples of the handler's delay.
LEMMA Multiples ==
  ASSUME NEW d \in Nat, NEW k \in Int, NEW l \in Int
  PROVE  /\ d * k \in Int /\ d * l \in Int
         /\ k <= l => d * k <= d * l
         /\ k >= 0 => d * k >= 0
         /\ d * (k + 1) = d * k + d
  BY Z3

\* At most all other timers are before one.
LEMMA BeforeFinite ==
  ASSUME NEW R \in SUBSET Ids, NEW r, NEW i \in R
  PROVE  /\ IsFiniteSet(Before(R, r, i))
         /\ Cardinality(Before(R, r, i)) \in Nat
         /\ r \in [Ids -> Nat] => Cardinality(Before(R, r, i)) <= MaxTimers - 1
  <1>1. MaxTimers \in Nat /\ MaxTimers > 0
    BY TimerConstants DEF TimerConstants
  <1>2. IsFiniteSet(Ids) /\ Cardinality(Ids) = MaxTimers
    BY <1>1, FS_Interval DEF Ids
  <1>3. IsFiniteSet(Ids \ {i}) /\ Cardinality(Ids \ {i}) = MaxTimers - 1
    BY <1>2, FS_RemoveElement
  <1>4. IsFiniteSet(Before(R, r, i)) /\ Cardinality(Before(R, r, i)) \in Nat
    BY <1>2, FS_Subset, FS_CardinalityType DEF Before
  <1>5. ASSUME r \in [Ids -> Nat] PROVE Cardinality(Before(R, r, i)) <= MaxTimers - 1
    <2>1. Before(R, r, i) \in SUBSET (Ids \ {i})
      BY <1>5 DEF Before
    <2> QED
      BY <1>3, <2>1, FS_Subset
  <1> QED
    BY <1>4, <1>5

\* Every timer has its own delay at least, none more than all have together.
LEMMA SlackBounds ==
  ASSUME NEW R \in SUBSET Ids, NEW r \in [Ids -> Nat], NEW i \in R
  PROVE  /\ Slack(R, r, i) \in Nat /\ Again \in Nat /\ Again <= Slack(R, r, i)
         /\ Slack(R, r, i) + DELAY <= MaxTimers * DELAY + Again
         /\ DELAY <= Again + 1
  <1> DEFINE k == Cardinality(Before(R, r, i))
             m == MaxTimers - 1 - k
  <1>1. /\ MaxTimers \in Nat /\ MaxTimers > 0 /\ DELAY \in Nat
        /\ k \in Nat /\ k <= MaxTimers - 1
    BY TimerConstants, BeforeFinite DEF TimerConstants
  <1>2. Slack(R, r, i) = DELAY * m + Again
    BY DEF Slack
  <1>3. Again \in Nat /\ DELAY <= Again + 1
    BY <1>1 DEF Again
  <1> HIDE DEF k
  <1>4. m \in Int /\ m >= 0 /\ m + 1 <= MaxTimers
    BY <1>1
  <1> HIDE DEF m
  <1>5. /\ DELAY * m \in Int /\ DELAY * m >= 0 /\ DELAY * (m + 1) = DELAY * m + DELAY
        /\ DELAY * (m + 1) <= DELAY * MaxTimers /\ DELAY * (m + 1) \in Int
        /\ DELAY * MaxTimers \in Int /\ DELAY * MaxTimers = MaxTimers * DELAY
    <2>1. /\ DELAY * m \in Int /\ DELAY * m >= 0 /\ DELAY * (m + 1) = DELAY * m + DELAY
      BY <1>1, <1>4, Multiples
    <2>2. m + 1 \in Int
      BY <1>4
    <2>3. /\ DELAY * (m + 1) <= DELAY * MaxTimers /\ DELAY * (m + 1) \in Int
          /\ DELAY * MaxTimers \in Int
      BY <1>1, <1>4, <2>2, Multiples
    <2>4. DELAY * MaxTimers = MaxTimers * DELAY
      BY <1>1, Z3
    <2> QED
      BY <2>1, <2>3, <2>4
  <1> DEFINE x == DELAY * m
             y == DELAY * MaxTimers
  <1>6. /\ x \in Int /\ x >= 0 /\ y \in Int /\ x + DELAY <= y
        /\ Slack(R, r, i) = x + Again /\ y = MaxTimers * DELAY
    BY <1>2, <1>5
  <1> HIDE DEF x, y
  <1> QED
    BY <1>1, <1>3, <1>6

\* With fewer timers to wait for, a timer may be as late as before.
LEMMA SlackOfFewer ==
  ASSUME NEW R \in SUBSET Ids, NEW r \in [Ids -> Nat], NEW t \in R, NEW i \in R, i # t
  PROVE  /\ Slack(R, r, i) <= Slack(R \ {t}, r, i)
         /\ r[i] < r[t] => Slack(R \ {t}, r, i) = Slack(R, r, i) + DELAY
  <1> DEFINE A == Before(R, r, i)
             B == Before(R \ {t}, r, i)
             k == Cardinality(A)
             l == Cardinality(B)
             m == MaxTimers - 1 - k
             n == MaxTimers - 1 - l
  <1>1. /\ MaxTimers \in Nat /\ DELAY \in Nat /\ Again \in Nat
        /\ IsFiniteSet(A) /\ k \in Nat /\ IsFiniteSet(B) /\ l \in Nat
    BY TimerConstants, BeforeFinite, SlackBounds DEF TimerConstants
  <1>2. B = A \ {t} /\ (t \in A <=> r[i] < r[t])
    BY DEF Before
  <1>3. l = IF r[i] < r[t] THEN k - 1 ELSE k
    <2> HIDE DEF A, B
    <2> QED
      BY <1>1, <1>2, FS_RemoveElement
  <1>4. Slack(R, r, i) = DELAY * m + Again /\ Slack(R \ {t}, r, i) = DELAY * n + Again
    BY DEF Slack
  <1> HIDE DEF k, l
  <1>5. m \in Int /\ n = IF r[i] < r[t] THEN m + 1 ELSE m
    BY <1>1, <1>3
  <1> HIDE DEF m, n
  <1>6. DELAY * m \in Int /\ DELAY * (m + 1) = DELAY * m + DELAY
    BY <1>1, <1>5, Multiples
  <1> DEFINE x == DELAY * m
  <1>7. /\ x \in Int /\ Slack(R, r, i) = x + Again
        /\ Slack(R \ {t}, r, i) = IF r[i] < r[t] THEN x + DELAY + Again ELSE x + Again
    BY <1>4, <1>5, <1>6
  <1> HIDE DEF x
  <1> QED
    BY <1>1, <1>7

\* A timer linked behind leaves those before it as much.
LEMMA SlackOfMore ==
  ASSUME NEW R \in SUBSET Ids, NEW r \in [Ids -> Nat], NEW q \in [Ids -> Nat],
         NEW t \in Ids, t \notin R, NEW i \in R,
         \A j \in R : q[i] < q[j] <=> r[i] < r[j], q[t] < q[i]
  PROVE  Slack(R \cup {t}, q, i) = Slack(R, r, i)
  <1>1. Before(R \cup {t}, q, i) = Before(R, r, i)
    BY DEF Before
  <1> QED
    BY <1>1 DEF Slack

-----------------------------------------------------------------------------
(* Rescheduling.                                                           *)

\* What RescheduleTimerList writes: the counts of the listed timers go down by what has
\* elapsed, and the wakeup timer counts for the current timer from now on.
LEMMA Rescheduled ==
  ASSUME NEW s \in State, NEW R \in SUBSET Ids, NEW r \in [Ids -> Nat], Chain(s, R, r),
         R # {}
  PROVE  LET u == RescheduleTimerList(s)
             elapsed == ReturnTimeElapsed(s)
         IN  /\ u \in State /\ u.current = s.current /\ u.previous = s.previous
             /\ u.since = 0 /\ Wakeup(u)
             /\ IF CountDown(s.ctx[s.current].CountLeft, elapsed) = 0
                THEN u.pending = Held(s) ELSE u.pending = NotPending
             /\ \A i \in Ids :
                  /\ u.ctx[i].status = s.ctx[i].status /\ u.ctx[i].mode = s.ctx[i].mode
                  /\ u.ctx[i].CounterInit = s.ctx[i].CounterInit
                  /\ u.ctx[i].NextID = s.ctx[i].NextID
                  /\ u.ctx[i].PreviousID = s.ctx[i].PreviousID
             /\ \A i \in R : u.ctx[i].CountLeft = CountDown(s.ctx[i].CountLeft, elapsed)
  <1> DEFINE u == RescheduleTimerList(s)
             e == ReturnTimeElapsed(s)
             cur == s.current
             over == WakeupTimerLimitation(s)
             left == CountDown(s.ctx[cur].CountLeft, e)
             value == IF over THEN MaxWakeupTimerSetup ELSE left
             c == [i \in Ids |-> IF i \in R
                                 THEN [s.ctx[i] EXCEPT !.CountLeft = CountDown(@, e)]
                                 ELSE s.ctx[i]]
             v == [s EXCEPT !.overpassed = over, !.ctx = c]
  <1>1. e \in Nat /\ cur \in R /\ cur \in Ids /\ cur # None
        /\ s.ctx[cur].CountLeft \in Nat
    BY StateFields, NoneIsNoTimer DEF Chain
  <1>2. u = RestartWakeupCounter(v, value)
    BY ListedIsChain DEF RescheduleTimerList
  <1>3. \A x \in Nat : CountDown(x, e) \in Nat /\ CountDown(x, e) = IF x < e THEN 0 ELSE x - e
    BY <1>1 DEF CountDown
  <1>4. ASSUME NEW i \in Ids
        PROVE  /\ c[i] \in Context
               /\ c[i].status = s.ctx[i].status /\ c[i].mode = s.ctx[i].mode
               /\ c[i].CounterInit = s.ctx[i].CounterInit
               /\ c[i].NextID = s.ctx[i].NextID /\ c[i].PreviousID = s.ctx[i].PreviousID
               /\ i \in R => c[i].CountLeft = CountDown(s.ctx[i].CountLeft, e)
    <2>1. s.ctx[i] \in Context /\ CountDown(s.ctx[i].CountLeft, e) \in Nat
      BY <1>3, StateFields
    <2>2. CASE i \in R
      <3>1. c[i] = [s.ctx[i] EXCEPT !.CountLeft = CountDown(@, e)]
        BY <2>2
      <3> HIDE DEF c, e
      <3> QED
        BY <2>1, <2>2, <3>1 DEF Context
    <2>3. CASE i \notin R
      BY <2>1, <2>3
    <2> QED
      BY <2>2, <2>3
  <1>5. c \in [Ids -> Context]
    <2>1. c = [i \in Ids |-> c[i]]
      OBVIOUS
    <2> HIDE DEF c
    <2> QED
      BY <1>4, <2>1
  <1>6. MaxWakeupTimerSetup \in Nat /\ MaxWakeupTimerSetup > 0 /\ WRAP \in Nat /\ DELAY \in Nat
        /\ WRAP > 0
    BY TimerConstants DEF TimerConstants, MaxWakeupTimerSetup
  <1>7. /\ over \in BOOLEAN
        /\ over <=> s.ctx[cur].CountLeft > e + MaxWakeupTimerSetup
    BY DEF WakeupTimerLimitation
  <1>8. /\ left \in Nat /\ value \in 0 .. MaxWakeupTimerSetup
        /\ over <=> left > MaxWakeupTimerSetup
        /\ value = 0 <=> left = 0
        /\ c[cur].CountLeft = left
    <2>1. c[cur].CountLeft = left
      BY <1>1, <1>4
    <2>2. left \in Nat /\ left = IF s.ctx[cur].CountLeft < e THEN 0 ELSE s.ctx[cur].CountLeft - e
      BY <1>1, <1>3
    <2> HIDE DEF left, over, c, cur, e
    <2> QED
      BY <1>1, <1>6, <1>7, <2>1, <2>2
  <1> HIDE DEF c, value, over, left, u
  <1>9. /\ v \in State /\ v.ctx = c /\ v.current = cur /\ v.previous = s.previous
        /\ v.overpassed = over /\ v.pending = s.pending
    BY <1>5, <1>7 DEF State
  <1>10. s.pending \in {NotPending} \cup 0 .. DELAY
    BY DEF State
  <1>11. /\ u \in State /\ u.ctx = c /\ u.current = cur /\ u.previous = s.previous
         /\ u.overpassed = over /\ u.since = 0 /\ u.wut = value
         /\ u.pending = IF value = 0 THEN Held(s) ELSE NotPending
    <2> DEFINE p == IF value = 0 THEN Held(s) ELSE NotPending
    <2>1. u = [v EXCEPT !.since = 0, !.wut = value, !.pending = p]
      BY <1>2, <1>9 DEF RestartWakeupCounter, Held
    <2>2. p \in {NotPending} \cup 0 .. DELAY
      <3>1. Held(s) \in 0 .. DELAY
        BY <1>6, <1>10 DEF Held, NotPending
      <3> QED
        BY <3>1
    <2>3. 0 \in 0 .. WRAP - 1 /\ value \in 0 .. MaxWakeupTimerSetup
      BY <1>6, <1>8
    <2> HIDE DEF v, p, cur
    <2>4. /\ u.since = 0 /\ u.wut = value /\ u.pending = p /\ u.ctx = v.ctx
          /\ u.current = v.current /\ u.previous = v.previous /\ u.overpassed = v.overpassed
          /\ u \in State
      BY <1>9, <2>1, <2>2, <2>3 DEF State
    <2> QED
      BY <1>9, <2>4 DEF p
  <1>12. Wakeup(u)
    <2>1. u.current # None /\ u.since # FORBIDDEN /\ Counted(u) = value
          /\ u.ctx[u.current].CountLeft = left
      <3>1. u.since # FORBIDDEN
        BY <1>11 DEF FORBIDDEN
      <3> HIDE DEF cur
      <3> QED
        BY <1>1, <1>8, <1>11, <3>1 DEF Counted, value
    <2>2. u.overpassed <=> u.ctx[u.current].CountLeft > MaxWakeupTimerSetup
      BY <1>8, <1>11, <2>1
    <2>3. CASE value = 0
      <3>1. u.pending = Held(s) /\ Held(s) \in 0 .. DELAY /\ u.pending # NotPending
        BY <1>6, <1>10, <1>11, <2>3 DEF Held, NotPending
      <3> QED
        BY <1>6, <1>11, <2>1, <2>2, <2>3, <3>1 DEF Wakeup
    <2>4. CASE value # 0
      BY <1>6, <1>8, <1>11, <2>1, <2>2, <2>4 DEF Wakeup
    <2> QED
      BY <2>3, <2>4
  <1>13. IF left = 0 THEN u.pending = Held(s) ELSE u.pending = NotPending
    BY <1>8, <1>11
  <1> QED
    BY <1>4, <1>11, <1>12, <1>13 DEF u, left

\* What the chain depends on.
LEMMA SameChain ==
  ASSUME NEW s \in State, NEW u \in State, NEW R \in SUBSET Ids, NEW r \in [Ids -> Nat],
         Chain(s, R, r), u.current = s.current,
         \A i \in R : /\ u.ctx[i].NextID = s.ctx[i].NextID
                      /\ u.ctx[i].PreviousID = s.ctx[i].PreviousID
                      /\ u.ctx[i].CountLeft = s.ctx[i].CountLeft
  PROVE  Chain(u, R, r)
  BY DEF Chain

\* The current timer is the first that is due.
LEMMA CurrentIsFirst ==
  ASSUME NEW s \in State, NEW R \in SUBSET Ids, NEW r \in [Ids -> Nat], Chain(s, R, r),
         NEW i \in R
  PROVE  /\ s.current \in R /\ s.current # None
         /\ s.ctx[s.current].CountLeft <= s.ctx[i].CountLeft
         /\ i # s.current => r[i] < r[s.current]
  <1>1. s.current \in R /\ s.current \in Ids /\ s.current # None /\ r[i] <= r[s.current]
    BY NoneIsNoTimer DEF Chain
  <1>2. i # s.current => r[i] # r[s.current]
    BY <1>1 DEF Chain
  <1>3. i # s.current => r[i] < r[s.current]
    BY <1>1, <1>2
  <1>4. i # s.current => s.ctx[s.current].CountLeft <= s.ctx[i].CountLeft
    BY <1>1, <1>3 DEF Chain
  <1>5. s.ctx[i].CountLeft \in Nat
    BY StateFields
  <1> QED
    BY <1>1, <1>3, <1>4, <1>5

\* After rescheduling the counts are up to date and no timer is later than it was.
LEMMA RescheduledKeeps ==
  ASSUME NEW s \in State, NEW R \in SUBSET Ids, R = RunningIn(s), R # {},
         NEW r \in [Ids -> Nat], Chain(s, R, r), s.previous # s.current,
         NEW d \in [Ids -> Int], Clock(s, R, d), InTime(s, R, r, d)
  PROVE  LET u == RescheduleTimerList(s) IN ListInv(u, d) /\ RunningIn(u) = R
  <1> DEFINE u == RescheduleTimerList(s)
             e == ReturnTimeElapsed(s)
             cur == s.current
             Left(i) == s.ctx[i].CountLeft
  <1>1. /\ u \in State /\ u.current = cur /\ u.previous = s.previous /\ u.since = 0
        /\ Wakeup(u)
        /\ IF CountDown(Left(cur), e) = 0 THEN u.pending = Held(s) ELSE u.pending = NotPending
        /\ \A i \in Ids : /\ u.ctx[i].status = s.ctx[i].status
                          /\ u.ctx[i].NextID = s.ctx[i].NextID
                          /\ u.ctx[i].PreviousID = s.ctx[i].PreviousID
        /\ \A i \in R : u.ctx[i].CountLeft = CountDown(Left(i), e)
    BY Rescheduled
  <1>2. /\ e \in Nat /\ \A i \in R : Left(i) \in Nat /\ i \in Ids
        /\ cur \in R /\ \A i \in R : Left(cur) <= Left(i)
    BY StateFields, CurrentIsFirst
  <1>3. ReturnTimeElapsed(u) = 0
    BY <1>1 DEF ReturnTimeElapsed, FORBIDDEN
  <1>4. RunningIn(u) = R
    BY <1>1 DEF RunningIn
  <1> HIDE DEF u
  <1>5. ASSUME NEW i \in R, NEW j \in R, Left(i) <= Left(j)
        PROVE  u.ctx[i].CountLeft <= u.ctx[j].CountLeft
    BY <1>1, <1>2, <1>5 DEF CountDown
  <1>6. Chain(u, R, r)
    <2> HIDE DEF e
    <2>1. \A i, j \in R : r[j] < r[i] => u.ctx[i].CountLeft <= u.ctx[j].CountLeft
      BY <1>5 DEF Chain
    <2> QED
      BY <1>1, <1>2, <2>1 DEF Chain
  <1>7. ASSUME NEW i \in R
        PROVE  LET left == u.ctx[i].CountLeft IN
               IF left > 0 THEN d[i] = left ELSE d[i] <= 0
    <2>1. /\ d[i] \in Int /\ e \in Nat /\ Left(i) \in Nat
          /\ IF Left(i) > 0 THEN d[i] = Left(i) - e ELSE d[i] <= -e
          /\ u.ctx[i].CountLeft = IF Left(i) < e THEN 0 ELSE Left(i) - e
      BY <1>1, <1>2 DEF Clock, CountDown
    <2> HIDE DEF e, Left
    <2> QED
      BY <2>1
  <1>8. Clock(u, R, d)
    <2>1. \A i \in R : d[i] \in Int /\ u.ctx[i].CountLeft \in Nat
      BY <1>1, StateFields
    <2> QED
      BY <1>3, <1>7, <2>1 DEF Clock
  <1>9. Held(s) \in Nat /\ NotPending < 0
    BY TimerConstants DEF State, Held, NotPending, TimerConstants
  <1>10. ASSUME NEW i \in R
         PROVE  -d[i] <= Slack(R, r, i) + Held(u)
    <2>1. d[i] \in Int /\ Slack(R, r, i) \in Nat /\ -d[i] <= Slack(R, r, i) + Held(s)
      BY <1>2, SlackBounds DEF InTime
    <2>2. CASE CountDown(Left(cur), e) = 0
      BY <1>1, <1>9, <2>1, <2>2 DEF Held
    <2>3. CASE CountDown(Left(cur), e) # 0
      <3>1. Left(cur) > e
        BY <1>2, <2>3 DEF CountDown
      <3>2. Left(i) > e
        BY <1>2, <3>1
      <3>3. d[i] = Left(i) - e
        BY <1>2, <3>2 DEF Clock
      <3>4. d[i] > 0
        BY <1>2, <3>2, <3>3
      <3>5. Held(u) = 0
        BY <1>1, <2>3 DEF Held
      <3> QED
        BY <2>1, <3>4, <3>5
    <2> QED
      BY <2>2, <2>3
  <1>11. InTime(u, R, r, d)
    BY <1>10 DEF InTime
  <1>12. ListInv(u, d)
    BY <1>1, <1>4, <1>6, <1>8, <1>11 DEF ListInv
  <1> QED
    BY <1>4, <1>12 DEF u

-----------------------------------------------------------------------------
(* Stopping and starting a timer.                                          *)

\* What UnlinkTimer returns, with the time of the last setup it keeps or gives up.
Unlink(s, t, since) ==
  [RemoveTimer(s, t) EXCEPT !.ctx[t].status = "Created", !.since = since]

\* What UnlinkTimer leaves, whatever it does to the time of the last setup: the list
\* without t, which is Created.
LEMMA Unlinked ==
  ASSUME NEW s \in State, NEW R \in SUBSET Ids, R = RunningIn(s),
         NEW r \in [Ids -> Nat], Chain(s, R, r), s.previous # s.current,
         NEW t \in R, NEW since \in {FORBIDDEN} \cup 0 .. WRAP - 1
  PROVE  LET u == Unlink(s, t, since) IN
         /\ u \in State /\ RunningIn(u) = Others(R, t) /\ Chain(u, Others(R, t), r)
         /\ u.previous # u.current
         /\ u.since = since /\ u.wut = s.wut /\ u.pending = s.pending
         /\ \A i \in Ids : /\ u.ctx[i].CountLeft = s.ctx[i].CountLeft
                           /\ u.ctx[i].CounterInit = s.ctx[i].CounterInit
                           /\ u.ctx[i].mode = s.ctx[i].mode
  <1> DEFINE v == RemoveTimer(s, t)
             c == [v.ctx EXCEPT ![t] = [v.ctx[t] EXCEPT !.status = "Created"]]
             u == Unlink(s, t, since)
  <1>1. /\ v \in State /\ v.wut = s.wut /\ v.pending = s.pending
        /\ \A i \in Ids : /\ v.ctx[i].status = s.ctx[i].status
                          /\ v.ctx[i].mode = s.ctx[i].mode
                          /\ v.ctx[i].CountLeft = s.ctx[i].CountLeft
                          /\ v.ctx[i].CounterInit = s.ctx[i].CounterInit
        /\ v.previous # v.current /\ Chain(v, Others(R, t), r)
    BY ChainRemoved DEF SameButLinks
  <1>2. u = [v EXCEPT !.ctx[t].status = "Created", !.since = since]
    BY DEF Unlink
  <1> HIDE DEF v
  <1>3. v.ctx \in [Ids -> Context] /\ t \in Ids /\ v.ctx[t] \in Context
    BY <1>1, StateFields
  <1>4. ASSUME NEW i \in Ids
        PROVE  /\ c[i] \in Context
               /\ c[i].status = IF i = t THEN "Created" ELSE v.ctx[i].status
               /\ c[i].mode = v.ctx[i].mode /\ c[i].CountLeft = v.ctx[i].CountLeft
               /\ c[i].CounterInit = v.ctx[i].CounterInit
               /\ c[i].NextID = v.ctx[i].NextID /\ c[i].PreviousID = v.ctx[i].PreviousID
    <2>1. c[i] = IF i = t THEN [v.ctx[t] EXCEPT !.status = "Created"] ELSE v.ctx[i]
      BY <1>3
    <2>2. v.ctx[i] \in Context
      BY <1>3
    <2> HIDE DEF c
    <2>3. CASE i = t
      <3>1. c[i] = [v.ctx[i] EXCEPT !.status = "Created"]
        BY <2>1, <2>3
      <3> QED
        BY <2>2, <2>3, <3>1 DEF Context
    <2>4. CASE i # t
      BY <2>1, <2>2, <2>4
    <2> QED
      BY <2>3, <2>4
  <1>5. c \in [Ids -> Context]
    <2>1. DOMAIN c = Ids /\ c = [i \in DOMAIN c |-> c[i]]
      BY <1>3
    <2> HIDE DEF c
    <2> QED
      BY <1>4, <2>1
  <1> HIDE DEF c
  <1>6. /\ u \in State /\ u.ctx = c /\ u.since = since /\ u.current = v.current
        /\ u.previous = v.previous /\ u.wut = v.wut /\ u.pending = v.pending
    <2>1. u = [v EXCEPT !.ctx = c, !.since = since]
      BY <1>1, <1>2 DEF c, State
    <2> HIDE DEF u
    <2> QED
      BY <1>1, <1>5, <2>1 DEF State
  <1> HIDE DEF u
  <1>7. RunningIn(u) = Others(R, t)
    BY <1>1, <1>4, <1>6 DEF RunningIn, Others
  <1>8. Chain(u, Others(R, t), r)
    <2>1. Others(R, t) \in SUBSET Ids
      BY DEF Others
    <2> QED
      BY <1>1, <1>4, <1>6, <2>1, SameChain
  <1> QED
    BY <1>1, <1>4, <1>6, <1>7, <1>8 DEF u

\* With no timer left there is nothing to keep.
LEMMA NoneLeft ==
  ASSUME NEW s \in State, RunningIn(s) = {}, s.current = None, s.previous # None,
         s.since = FORBIDDEN, NEW d \in [Ids -> Int]
  PROVE  LET u == NothingToCount(s) IN ListInv(u, d) /\ RunningIn(u) = {}
  <1> DEFINE u == NothingToCount(s)
             r == [i \in Ids |-> 0]
  <1>1. 0 \in 0 .. MaxWakeupTimerSetup
    BY TimerConstants DEF TimerConstants, MaxWakeupTimerSetup
  <1>2. u = [s EXCEPT !.wut = 0, !.pending = NotPending]
    BY DEF NothingToCount
  <1> HIDE DEF u
  <1>3. /\ u \in State /\ u.ctx = s.ctx /\ u.current = None /\ u.previous = s.previous
        /\ u.since = FORBIDDEN /\ u.wut = 0 /\ u.pending = NotPending
    BY <1>1, <1>2 DEF State
  <1>4. RunningIn(u) = {}
    BY <1>3 DEF RunningIn
  <1>5. Wakeup(u)
    BY <1>3 DEF Wakeup
  <1>6. Clock(u, {}, d) /\ Chain(u, {}, r) /\ InTime(u, {}, r, d) /\ r \in [Ids -> Nat]
    BY <1>3 DEF Clock, Chain, InTime
  <1>7. ListInv(u, d)
    BY <1>3, <1>4, <1>5, <1>6 DEF ListInv
  <1> QED
    BY <1>4, <1>7 DEF u

\* Stopping a running timer takes it off the list; for those left nothing changes.
LEMMA StoppedKeeps ==
  ASSUME NEW s \in State, NEW R \in SUBSET Ids, R = RunningIn(s),
         NEW r \in [Ids -> Nat], Chain(s, R, r), s.previous # s.current,
         NEW d \in [Ids -> Int], Clock(s, R, d),
         NEW t \in R,
         \A i \in Others(R, t) : -d[i] <= Slack(Others(R, t), r, i) + Held(s)
  PROVE  LET u == Stopped(s, t) IN
         ListInv(u, [d EXCEPT ![t] = 0]) /\ RunningIn(u) = Others(R, t)
  <1> DEFINE v == UnlinkTimer(s, t, TRUE)
             S == Others(R, t)
             e == [d EXCEPT ![t] = 0]
             u == Stopped(s, t)
  <1>1. /\ S \in SUBSET Ids /\ S \subseteq R /\ t \notin S
        /\ \A i \in S : -d[i] <= Slack(S, r, i) + Held(s)
    BY DEF Others
  <1>2. /\ v \in State /\ RunningIn(v) = S /\ Chain(v, S, r) /\ v.previous # v.current
        /\ v.since = IF S = {} THEN FORBIDDEN ELSE s.since
        /\ v.wut = s.wut /\ v.pending = s.pending
        /\ \A i \in Ids : v.ctx[i].CountLeft = s.ctx[i].CountLeft
    <2> DEFINE setup == IF RemoveTimer(s, t).current = None THEN FORBIDDEN ELSE s.since
    <2>1. setup = IF RemoveTimer(s, t).current = None /\ TRUE THEN FORBIDDEN ELSE s.since
      OBVIOUS
    <2>2. setup \in {FORBIDDEN} \cup 0 .. WRAP - 1
      BY DEF State
    <2>3. v = Unlink(s, t, setup)
      BY <2>1, Zenon DEF UnlinkTimer, Unlink
    <2>4. v.current = RemoveTimer(s, t).current
      <3> DEFINE out == RemoveTimer(s, t)
      <3>1. out \in State
        BY ChainRemoved DEF SameButLinks
      <3>2. v = [out EXCEPT !.ctx[t].status = "Created", !.since = setup]
        BY <2>3 DEF Unlink
      <3> HIDE DEF v, setup, out
      <3>3. v.current = out.current
        BY <3>1, <3>2 DEF State
      <3> QED
        BY <3>3 DEF out
    <2> HIDE DEF setup, v
    <2>5. /\ v \in State /\ RunningIn(v) = Others(R, t) /\ Chain(v, Others(R, t), r)
          /\ v.previous # v.current
          /\ v.since = setup /\ v.wut = s.wut /\ v.pending = s.pending
          /\ \A i \in Ids : v.ctx[i].CountLeft = s.ctx[i].CountLeft
      BY <2>2, <2>3, Unlinked
    <2>6. v.current = None <=> S = {}
      BY <1>1, <2>5, NoneIsNoTimer DEF Chain
    <2> QED
      BY <2>4, <2>5, <2>6 DEF setup
  <1>3. Running(s, t)
    BY NoneIsNoTimer DEF Running, RunningIn
  <1>4. u = IF v.current = None THEN NothingToCount(v) ELSE RescheduleTimerList(v)
    BY <1>2, <1>3 DEF Stopped
  <1> HIDE DEF v, u, S
  <1>5. e \in [Ids -> Int] /\ \A i \in S : e[i] = d[i]
    BY <1>1
  <1> HIDE DEF e
  <1>6. CASE S = {}
    <2>1. v.current = None /\ v.since = FORBIDDEN
      BY <1>2, <1>6 DEF Chain
    <2>2. u = NothingToCount(v) /\ RunningIn(v) = {} /\ v.previous # None
      BY <1>2, <1>4, <1>6, <2>1
    <2>3. ListInv(u, e) /\ RunningIn(u) = S
      BY <1>2, <1>5, <1>6, <2>1, <2>2, NoneLeft
    <2> QED
      BY <2>3 DEF u, e, S
  <1>7. CASE S # {}
    <2>1. v.current # None /\ v.since = s.since
      BY <1>1, <1>2, <1>7, NoneIsNoTimer DEF Chain
    <2>2. Clock(v, S, e)
      BY <1>1, <1>2, <1>5, <2>1 DEF Clock, ReturnTimeElapsed
    <2>3. InTime(v, S, r, e)
      BY <1>1, <1>2, <1>5 DEF InTime, Held
    <2>4. u = RescheduleTimerList(v) /\ S = RunningIn(v)
      BY <1>2, <1>4, <2>1
    <2>5. ListInv(u, e) /\ RunningIn(u) = S
      BY <1>2, <1>5, <1>7, <2>2, <2>3, <2>4, <1>1, RescheduledKeeps
    <2> QED
      BY <2>5 DEF u, e, S
  <1> QED
    BY <1>6, <1>7

\* Starting a timer lists it; those that are due before it stay in front of it.
LEMMA StartedKeeps ==
  ASSUME NEW s \in State, NEW R \in SUBSET Ids, R = RunningIn(s),
         NEW r \in [Ids -> Nat], Chain(s, R, r), s.previous # s.current,
         NEW d \in [Ids -> Int], Clock(s, R, d), InTime(s, R, r, d),
         NEW t \in Ids, t \notin R, NEW ticks \in Timeouts \cup {0}
  PROVE  LET u == Started(s, t, ticks) IN
         ListInv(u, [d EXCEPT ![t] = ticks]) /\ RunningIn(u) = Added(R, t)
  <1> DEFINE a == [s.ctx EXCEPT ![t].status = "Running"]
             b == [a EXCEPT ![t].CountLeft = ticks]
             c == [b EXCEPT ![t].CounterInit = ticks]
             v == [s EXCEPT !.ctx = c]
             w == linkTimer(v, t)
             e == [d EXCEPT ![t] = ticks]
             S == Added(R, t)
             u == Started(s, t, ticks)
             elapsed == ReturnTimeElapsed(s)
  <1>1. ticks \in Nat /\ elapsed \in Nat /\ S \in SUBSET Ids /\ S # {} /\ t # None
    BY TimerConstants, StateFields, NoneIsNoTimer DEF TimerConstants, Added
  <1>2. /\ e \in [Ids -> Int] /\ e[t] = ticks /\ \A i \in R : e[i] = d[i] /\ d[i] \in Int
        /\ S = R \cup {t} /\ S = Added(R, t)
    BY <1>1 DEF Added
  <1>3. ASSUME NEW i \in Ids
        PROVE  /\ c[i] \in Context
               /\ c[i].status = IF i = t THEN "Running" ELSE s.ctx[i].status
               /\ c[i].mode = s.ctx[i].mode
               /\ c[i].CountLeft = IF i = t THEN ticks ELSE s.ctx[i].CountLeft
               /\ c[i].NextID = s.ctx[i].NextID /\ c[i].PreviousID = s.ctx[i].PreviousID
    <2>1. s.ctx[i] \in Context /\ DOMAIN s.ctx = Ids
      BY StateFields
    <2>2. c[i] = IF i = t THEN [[[s.ctx[i] EXCEPT !.status = "Running"]
                                   EXCEPT !.CountLeft = ticks] EXCEPT !.CounterInit = ticks]
                 ELSE s.ctx[i]
      BY <2>1
    <2> HIDE DEF c
    <2>3. CASE i = t
      <3> DEFINE f == s.ctx[i]
      <3>1. c[i] = [f EXCEPT !.status = "Running", !.CountLeft = ticks, !.CounterInit = ticks]
        BY <2>2, <2>3
      <3> HIDE DEF f
      <3>2. /\ c[i] \in Context /\ c[i].status = "Running" /\ c[i].mode = f.mode
            /\ c[i].CountLeft = ticks /\ c[i].NextID = f.NextID
            /\ c[i].PreviousID = f.PreviousID
        BY <1>1, <2>1, <3>1 DEF Context, f
      <3> QED
        BY <2>3, <3>2 DEF f
    <2>4. CASE i # t
      BY <2>1, <2>2, <2>4
    <2> QED
      BY <2>3, <2>4
  <1>4. c \in [Ids -> Context]
    <2>1. DOMAIN c = Ids /\ c = [i \in DOMAIN c |-> c[i]]
      BY StateFields, Zenon
    <2> HIDE DEF c
    <2> QED
      BY <1>3, <2>1
  <1> DEFINE z == [s EXCEPT !.ctx[t].status = "Running", !.ctx[t].CountLeft = ticks,
                            !.ctx[t].CounterInit = ticks]
  <1>5. v = z
    <2> DEFINE s1 == [s EXCEPT !.ctx = a]
               s2 == [s1 EXCEPT !.ctx = b]
    <2>1. s1.ctx = a /\ s2.ctx = b
      BY DEF State
    <2>2. [s1 EXCEPT !.ctx[t].CountLeft = ticks] = s2
      BY <2>1
    <2>3. [s2 EXCEPT !.ctx[t].CounterInit = ticks] = [s2 EXCEPT !.ctx = c]
      BY <2>1
    <2>4. [s2 EXCEPT !.ctx = c] = v
      BY DEF State
    <2> QED
      BY <2>2, <2>3, <2>4
  <1>6. w.previous # w.current => u = RescheduleTimerList(w)
    <2>1. u = IF linkTimer(z, t).previous # linkTimer(z, t).current
              THEN RescheduleTimerList(linkTimer(z, t))
              ELSE [linkTimer(z, t) EXCEPT !.ctx[t].CountLeft = @ - ReturnTimeElapsed(s)]
      BY DEF Started
    <2> HIDE DEF u, z, v
    <2> QED
      BY <1>5, <2>1
  <1> HIDE DEF c, u, e, elapsed
  <1>7. /\ v \in State /\ v.ctx = c /\ v.current = s.current /\ v.previous = s.previous
        /\ v.since = s.since /\ v.pending = s.pending
    BY <1>4 DEF State
  <1>8. ASSUME NEW x \in State, RunningIn(x) = S, x.previous # x.current,
               Clock(x, S, e),
               NEW q \in [Ids -> Nat], Chain(x, S, q), InTime(x, S, q, e), w = x
        PROVE  ListInv(u, e) /\ RunningIn(u) = S
    <2>1. u = RescheduleTimerList(x)
      BY <1>6, <1>8
    <2> HIDE DEF S, w
    <2> QED
      BY <1>1, <1>2, <1>8, <2>1, RescheduledKeeps
  <1>9. /\ Slack(S, r, t) \in Nat /\ \A q \in [Ids -> Nat] : Slack(S, q, t) \in Nat
        /\ \A x \in State : Held(x) \in Nat
    <2>1. t \in S
      BY <1>2
    <2>2. \A q \in [Ids -> Nat] : Slack(S, q, t) \in Nat
      BY <1>1, <2>1, SlackBounds
    <2>3. \A x \in State : Held(x) \in Nat
      BY TimerConstants DEF TimerConstants, State, Held
    <2> QED
      BY <2>2, <2>3
  <1>10. CASE R = {}
    <2> DEFINE k == [c EXCEPT ![t].NextID = None]
    <2>1. v.current = None
      BY <1>7, <1>10 DEF Chain
    <2>2. w = [v EXCEPT !.previous = v.current, !.current = t, !.ctx = k, !.since = FORBIDDEN]
      BY <1>7, <2>1 DEF linkTimer, BecomesCurrent, State
    <2>3. /\ k \in [Ids -> Context] /\ k[t].NextID = None /\ k[t].CountLeft = ticks
          /\ \A i \in Ids : k[i].status = c[i].status
      <3>1. c[t] \in Context
        BY <1>3
      <3> DEFINE f == [c[t] EXCEPT !.NextID = None]
      <3>2. f \in Context /\ f.NextID = None /\ f.CountLeft = ticks /\ f.status = c[t].status
        BY <1>3, <3>1 DEF Context
      <3> HIDE DEF f
      <3>3. k = [c EXCEPT ![t] = f]
        BY DEF f
      <3> QED
        BY <1>4, <3>2, <3>3
    <2> HIDE DEF v, w, k
    <2>4. /\ w \in State /\ w.ctx = k /\ w.current = t /\ w.previous = None
          /\ w.since = FORBIDDEN
      BY <1>7, <2>1, <2>2, <2>3 DEF State
    <2>5. RunningIn(w) = S
      BY <1>2, <1>3, <1>10, <2>3, <2>4 DEF RunningIn
    <2>6. ReturnTimeElapsed(w) = 0
      BY <2>4 DEF ReturnTimeElapsed
    <2>7. Clock(w, S, e)
      BY <1>1, <1>2, <1>10, <2>3, <2>4, <2>6 DEF Clock
    <2>8. Chain(w, S, r)
      BY <1>2, <1>10, <2>3, <2>4 DEF Chain
    <2>9. InTime(w, S, r, e)
      BY <1>1, <1>2, <1>9, <1>10, <2>4 DEF InTime
    <2> QED
      BY <1>1, <1>8, <2>4, <2>5, <2>7, <2>8, <2>9 DEF u, e
  <1>11. CASE R # {}
    <2> DEFINE count == ticks + elapsed
               k == [c EXCEPT ![t].CountLeft = count]
               x == [v EXCEPT !.ctx = k]
    <2>1. v.current # None /\ s.current \in R
      BY <1>7, <1>11, NoneIsNoTimer DEF Chain
    <2>2. w = InsertTimer(x, t)
      <3>1. ReturnTimeElapsed(v) = elapsed
        BY <1>7 DEF ReturnTimeElapsed, elapsed
      <3>2. c[t].CountLeft = ticks
        BY <1>3
      <3>3. [v EXCEPT !.ctx[t].CountLeft = @ + ReturnTimeElapsed(v)] = x
        <4> HIDE DEF v
        <4>1. [v EXCEPT !.ctx[t].CountLeft = @ + ReturnTimeElapsed(v)]
                = [v EXCEPT !.ctx = [c EXCEPT ![t].CountLeft = c[t].CountLeft + elapsed]]
          BY <1>7, <3>1
        <4> QED
          BY <3>2, <4>1
      <3> DEFINE y == [v EXCEPT !.ctx[t].CountLeft = @ + ReturnTimeElapsed(v)]
      <3>4. w = InsertTimer(y, t)
        BY <2>1 DEF linkTimer
      <3> HIDE DEF w, x, y
      <3> QED
        BY <3>3, <3>4 DEF y
    <2>3. /\ k \in [Ids -> Context]
          /\ \A i \in Ids :
               /\ k[i].status = c[i].status /\ k[i].NextID = c[i].NextID
               /\ k[i].PreviousID = c[i].PreviousID
               /\ k[i].CountLeft = IF i = t THEN count ELSE c[i].CountLeft
      <3>1. c[t] \in Context /\ count \in Nat
        BY <1>1, <1>3
      <3> DEFINE f == [c[t] EXCEPT !.CountLeft = count]
      <3> HIDE DEF count
      <3>2. /\ f \in Context /\ f.CountLeft = count /\ f.status = c[t].status
            /\ f.NextID = c[t].NextID /\ f.PreviousID = c[t].PreviousID
        BY <3>1 DEF Context
      <3> HIDE DEF f
      <3>3. k = [c EXCEPT ![t] = f]
        BY DEF f
      <3> QED
        BY <1>4, <3>2, <3>3
    <2> HIDE DEF v, k
    <2>4. /\ x \in State /\ x.ctx = k /\ x.current = s.current /\ x.previous = s.previous
          /\ x.since = s.since /\ x.pending = s.pending
      BY <1>7, <2>3 DEF State
    <2> HIDE DEF w, x, S
    <2>5. \A i \in R : i # t /\ i \in Ids
      OBVIOUS
    <2>6. Chain(x, R, r)
      BY <1>3, <2>3, <2>4, <2>5, SameChain
    <2>7. SameButLinks(w, x) /\ w.previous # w.current /\ Joins(w, x, R, r, t)
      BY <2>1, <2>2, <2>4, <2>6, ChainInserted
    <2>8. PICK q \in [Ids -> Nat] :
               /\ Chain(w, S, q)
               /\ \A i, j \in R : q[i] < q[j] <=> r[i] < r[j]
               /\ \A i \in R : x.ctx[i].CountLeft <= x.ctx[t].CountLeft => q[t] < q[i]
      BY <1>2, <2>7 DEF Joins
    <2>9. /\ w \in State /\ w.since = s.since /\ w.pending = s.pending
          /\ \A i \in Ids : w.ctx[i].status = k[i].status /\ w.ctx[i].CountLeft = k[i].CountLeft
      BY <2>4, <2>7 DEF SameButLinks
    <2>10. RunningIn(w) = S
      BY <1>2, <1>3, <2>3, <2>9 DEF RunningIn
    <2>11. ReturnTimeElapsed(w) = elapsed /\ Held(w) = Held(s)
      BY <2>9 DEF ReturnTimeElapsed, elapsed, Held
    <2>12. w.ctx[t].CountLeft = ticks + elapsed
      BY <2>3, <2>9
    <2>13. ASSUME NEW i \in R
           PROVE  /\ i \in Ids /\ w.ctx[i].CountLeft = s.ctx[i].CountLeft
                  /\ x.ctx[i].CountLeft = s.ctx[i].CountLeft /\ s.ctx[i].CountLeft \in Nat
                  /\ IF s.ctx[i].CountLeft > 0 THEN d[i] = s.ctx[i].CountLeft - elapsed
                     ELSE d[i] <= -elapsed
                  /\ d[i] \in Int /\ e[i] = d[i]
      <3>1. c[i].CountLeft = s.ctx[i].CountLeft /\ s.ctx[i].CountLeft \in Nat
        BY <1>3, <2>5, StateFields
      <3>2. IF s.ctx[i].CountLeft > 0 THEN d[i] = s.ctx[i].CountLeft - elapsed
            ELSE d[i] <= -elapsed
        BY DEF Clock, elapsed
      <3> QED
        BY <1>2, <2>3, <2>4, <2>5, <2>9, <3>1, <3>2
    <2>14. Clock(w, S, e)
      <3> DEFINE back == ReturnTimeElapsed(w)
      <3>1. back \in Nat /\ back = elapsed
        BY <1>1, <2>11
      <3>2. \A i \in S : e[i] \in Int /\ w.ctx[i].CountLeft \in Nat
        BY <1>1, <1>2, <2>9, StateFields
      <3> HIDE DEF back
      <3>3. ASSUME NEW i \in S
            PROVE  IF w.ctx[i].CountLeft > 0 THEN e[i] = w.ctx[i].CountLeft - back
                   ELSE e[i] <= -back
        <4>1. CASE i = t
          BY <1>1, <1>2, <2>12, <3>1, <4>1
        <4>2. CASE i # t
          BY <1>2, <2>13, <3>1, <4>2
        <4> QED
          BY <4>1, <4>2
      <3> QED
        BY <3>1, <3>2, <3>3 DEF Clock, back
    <2>15. InTime(w, S, q, e)
      <3>1. -e[t] <= Slack(S, q, t) + Held(w)
        <4>1. Slack(S, q, t) \in Nat /\ Held(w) \in Nat /\ e[t] \in Nat
          BY <1>1, <1>2, <1>9, <2>9
        <4> QED
          BY <4>1
      <3>2. ASSUME NEW i \in R
            PROVE  -e[i] <= Slack(S, q, i) + Held(w)
        <4>1. /\ Slack(S, q, i) \in Nat /\ Held(w) \in Nat /\ Held(w) = Held(s)
              /\ -d[i] <= Slack(R, r, i) + Held(s) /\ Slack(R, r, i) \in Nat
          BY <1>1, <1>2, <1>9, <2>9, <2>11, SlackBounds DEF InTime
        <4>2. CASE d[i] >= 0
          BY <2>13, <4>1, <4>2
        <4>3. CASE d[i] < 0
          <5>1. s.ctx[i].CountLeft <= ticks + elapsed
            BY <1>1, <2>13, <4>3
          <5>2. q[t] < q[i]
            <6>1. x.ctx[t].CountLeft = ticks + elapsed
              BY <2>3, <2>4
            <6> QED
              BY <2>8, <2>13, <5>1, <6>1
          <5>3. Slack(R \cup {t}, q, i) = Slack(R, r, i)
            BY <2>8, <5>2, SlackOfMore
          <5> QED
            BY <1>2, <2>13, <4>1, <5>3
        <4> QED
          BY <2>13, <4>2, <4>3
      <3> QED
        BY <1>2, <3>1, <3>2 DEF InTime
    <2> QED
      BY <1>8, <2>7, <2>8, <2>9, <2>10, <2>14, <2>15 DEF u, e, S
  <1> QED
    BY <1>10, <1>11

-----------------------------------------------------------------------------
(* The invariant.                                                          *)

\* The timers that run are those the list has to hold.
LEMMA RunningMeans ==
  ASSUME NEW s, NEW t \in Ids
  PROVE  Running(s, t) <=> t \in RunningIn(s)
  BY NoneIsNoTimer DEF Running, RunningIn

\* A change to a timer that does not run changes nothing for those that do.
LEMMA UnlistedChange ==
  ASSUME NEW s, NEW d, ListInv(s, d), NEW u \in State,
         u.current = s.current, u.previous = s.previous, u.since = s.since,
         u.overpassed = s.overpassed, u.wut = s.wut, u.pending = s.pending,
         RunningIn(u) = RunningIn(s),
         \A i \in Ids : /\ u.ctx[i].CountLeft = s.ctx[i].CountLeft
                        /\ u.ctx[i].NextID = s.ctx[i].NextID
                        /\ u.ctx[i].PreviousID = s.ctx[i].PreviousID
  PROVE  ListInv(u, d)
  <1> DEFINE R == RunningIn(s)
  <1>1. s \in State /\ R \in SUBSET Ids
    BY DEF ListInv, RunningIn
  <1>2. PICK r \in [Ids -> Nat] : Chain(s, R, r) /\ InTime(s, R, r, d)
    BY DEF ListInv
  <1> HIDE DEF R
  <1>3. Chain(u, R, r)
    BY <1>1, <1>2, SameChain
  <1>4. InTime(u, R, r, d)
    BY <1>2 DEF InTime, Held
  <1>5. Clock(u, R, d)
    BY <1>1 DEF ListInv, Clock, ReturnTimeElapsed, R
  <1>6. Wakeup(u)
    <2>1. s.current \in Ids \cup {None} /\ Wakeup(s)
      BY <1>1, StateFields DEF ListInv
    <2>2. CASE s.current = None
      BY <2>1, <2>2 DEF Wakeup
    <2>3. CASE s.current # None
      <3>1. Counted(u) = Counted(s) /\ u.ctx[u.current].CountLeft = s.ctx[s.current].CountLeft
        BY <2>1, <2>3 DEF Counted
      <3> QED
        BY <2>1, <2>3, <3>1 DEF Wakeup
    <2> QED
      BY <2>2, <2>3
  <1> QED
    BY <1>2, <1>3, <1>4, <1>5, <1>6 DEF ListInv, R

\* When a timer that does not run is due is of no account.
LEMMA UnlistedDue ==
  ASSUME NEW s, NEW d, ListInv(s, d), NEW e \in [Ids -> Int],
         \A i \in RunningIn(s) : e[i] = d[i]
  PROVE  ListInv(s, e)
  <1> DEFINE R == RunningIn(s)
  <1>1. PICK r \in [Ids -> Nat] : Chain(s, R, r) /\ InTime(s, R, r, d)
    BY DEF ListInv
  <1>2. InTime(s, R, r, e)
    BY <1>1 DEF InTime
  <1>3. Clock(s, R, e)
    BY DEF ListInv, Clock
  <1> QED
    BY <1>1, <1>2, <1>3 DEF ListInv

\* A step that starts no other timer leaves the call a client is in as it is.
LEMMA CallKept ==
  ASSUME CallOK, UNCHANGED <<call, calls>>, RunningIn(ts') \in SUBSET RunningIn(ts)
  PROVE  CallOK'
  <1>1. ASSUME call[1] \in {"link", "free"}
        PROVE  ~Running(ts', call[2])
    BY <1>1, RunningMeans DEF CallOK
  <1> QED
    BY <1>1 DEF CallOK

\* After HW_TS_Init no timer runs.
LEMMA TimerInitIInv ==
  TimerInit => TimerIInv
  <1> SUFFICES ASSUME TimerInit PROVE TimerIInv
    OBVIOUS
  <1>1. MaxTimers \in Nat /\ MaxTimers > 0 /\ MaxWakeupTimerSetup \in Nat /\ MaxCalls \in Nat
    BY TimerConstants DEF TimerConstants, MaxWakeupTimerSetup
  <1>2. /\ ts.ctx = [t \in Ids |-> FreeContext] /\ ts.current = None /\ ts.previous = 0
        /\ ts.since = FORBIDDEN /\ ts.wut = 0 /\ ts.pending = NotPending
        /\ due = [t \in Ids |-> 0] /\ call = Idle /\ calls = 0
    BY DEF TimerInit
  <1>3. FreeContext \in Context /\ FreeContext.status = "Free"
    BY <1>1 DEF FreeContext, Context, Ids
  <1>4. ts.ctx \in [Ids -> Context] /\ 0 \in Ids /\ 0 # None
    BY <1>1, <1>2, <1>3 DEF Ids, None
  <1>5. ts \in State
    <2>1. 0 \in 0 .. MaxWakeupTimerSetup
      BY <1>1
    <2> QED
      BY <1>2, <1>4, <2>1 DEF TimerInit, State
  <1>6. RunningIn(ts) = {}
    BY <1>2, <1>3 DEF RunningIn
  <1> DEFINE r == [i \in Ids |-> 0]
  <1>7. Clock(ts, {}, due) /\ Chain(ts, {}, r) /\ InTime(ts, {}, r, due) /\ r \in [Ids -> Nat]
    BY <1>2 DEF Clock, Chain, InTime
  <1>8. Wakeup(ts)
    BY <1>2 DEF Wakeup
  <1>9. ListInv(ts, due)
    BY <1>2, <1>4, <1>5, <1>6, <1>7, <1>8 DEF ListInv
  <1>10. CallOK
    BY <1>1, <1>2 DEF CallOK, Idle
  <1> QED
    BY <1>9, <1>10 DEF TimerIInv

\* HW_TS_Create takes a context that is not running.
LEMMA CreateIInv ==
  ASSUME TimerIInv, NEW mode \in {"SingleShot", "Repeated"}, HW_TS_Create(mode)
  PROVE  TimerIInv'
  <1>1. PICK t \in Ids : /\ ts.ctx[t].status = "Free"
                         /\ ts' = [ts EXCEPT !.ctx[t].status = "Created", !.ctx[t].mode = mode]
    BY DEF HW_TS_Create, Created
  <1>2. ts \in State /\ ListInv(ts, due) /\ CallOK
    BY DEF TimerIInv, ListInv
  <1> DEFINE a == [ts.ctx EXCEPT ![t].status = "Created"]
             c == [a EXCEPT ![t].mode = mode]
  <1>3. ASSUME NEW i \in Ids
        PROVE  /\ c[i] \in Context
               /\ c[i].status = IF i = t THEN "Created" ELSE ts.ctx[i].status
               /\ c[i].CountLeft = ts.ctx[i].CountLeft
               /\ c[i].NextID = ts.ctx[i].NextID /\ c[i].PreviousID = ts.ctx[i].PreviousID
    <2>1. ts.ctx[i] \in Context /\ DOMAIN ts.ctx = Ids
      BY <1>2, StateFields
    <2>2. c[i] = IF i = t THEN [[ts.ctx[i] EXCEPT !.status = "Created"] EXCEPT !.mode = mode]
                 ELSE ts.ctx[i]
      BY <2>1
    <2> HIDE DEF c
    <2>3. CASE i = t
      <3> DEFINE f == ts.ctx[i]
      <3>1. c[i] = [f EXCEPT !.status = "Created", !.mode = mode]
        BY <2>2, <2>3
      <3> HIDE DEF f
      <3>2. /\ c[i] \in Context /\ c[i].status = "Created" /\ c[i].CountLeft = f.CountLeft
            /\ c[i].NextID = f.NextID /\ c[i].PreviousID = f.PreviousID
        BY <2>1, <3>1 DEF Context, f
      <3> QED
        BY <2>3, <3>2 DEF f
    <2>4. CASE i # t
      BY <2>1, <2>2, <2>4
    <2> QED
      BY <2>3, <2>4
  <1>4. c \in [Ids -> Context]
    <2>1. DOMAIN c = Ids /\ c = [i \in DOMAIN c |-> c[i]]
      BY <1>2, StateFields, Zenon
    <2> HIDE DEF c
    <2> QED
      BY <1>3, <2>1
  <1>5. ts' = [ts EXCEPT !.ctx = c]
    <2> DEFINE s1 == [ts EXCEPT !.ctx = a]
    <2>1. s1.ctx = a
      BY <1>2 DEF State
    <2>2. ts' = [s1 EXCEPT !.ctx = c]
      BY <1>1, <2>1
    <2> QED
      BY <1>2, <2>2 DEF State
  <1> HIDE DEF c
  <1>6. /\ ts' \in State /\ ts'.ctx = c /\ ts'.current = ts.current
        /\ ts'.previous = ts.previous /\ ts'.since = ts.since
        /\ ts'.overpassed = ts.overpassed /\ ts'.wut = ts.wut /\ ts'.pending = ts.pending
    BY <1>2, <1>4, <1>5 DEF State
  <1>7. RunningIn(ts') = RunningIn(ts)
    BY <1>1, <1>3, <1>6 DEF RunningIn
  <1>8. ListInv(ts', due)
    BY <1>2, <1>3, <1>6, <1>7, UnlistedChange
  <1>9. UNCHANGED <<call, due, calls>>
    BY DEF HW_TS_Create
  <1> QED
    BY <1>2, <1>7, <1>8, <1>9, CallKept DEF TimerIInv

\* HW_TS_Delete frees a timer it has stopped.
LEMMA FreesIInv ==
  ASSUME TimerIInv, FreesTimer
  PROVE  TimerIInv'
  <1> DEFINE t == call[2]
             c == [ts.ctx EXCEPT ![t].status = "Free"]
  <1>1. /\ ts \in State /\ ListInv(ts, due) /\ CallOK /\ t \in Ids
        /\ t \notin RunningIn(ts) /\ call[1] = "free"
    BY RunningMeans DEF TimerIInv, ListInv, FreesTimer, CallOK
  <1>2. ts' = [ts EXCEPT !.ctx = c] /\ call' = Idle /\ UNCHANGED <<due, calls>>
    BY DEF FreesTimer
  <1> HIDE DEF t
  <1>3. ASSUME NEW i \in Ids
        PROVE  /\ c[i] \in Context
               /\ c[i].status = IF i = t THEN "Free" ELSE ts.ctx[i].status
               /\ c[i].CountLeft = ts.ctx[i].CountLeft
               /\ c[i].NextID = ts.ctx[i].NextID /\ c[i].PreviousID = ts.ctx[i].PreviousID
    <2>1. ts.ctx[i] \in Context /\ DOMAIN ts.ctx = Ids
      BY <1>1, StateFields
    <2>2. c[i] = IF i = t THEN [ts.ctx[i] EXCEPT !.status = "Free"] ELSE ts.ctx[i]
      BY <2>1
    <2> HIDE DEF c
    <2>3. CASE i = t
      BY <2>1, <2>2, <2>3 DEF Context
    <2>4. CASE i # t
      BY <2>1, <2>2, <2>4
    <2> QED
      BY <2>3, <2>4
  <1>4. c \in [Ids -> Context]
    <2>1. DOMAIN c = Ids /\ c = [i \in DOMAIN c |-> c[i]]
      BY <1>1, StateFields, Zenon
    <2> HIDE DEF c
    <2> QED
      BY <1>3, <2>1
  <1> HIDE DEF c
  <1>5. /\ ts' \in State /\ ts'.ctx = c /\ ts'.current = ts.current
        /\ ts'.previous = ts.previous /\ ts'.since = ts.since
        /\ ts'.overpassed = ts.overpassed /\ ts'.wut = ts.wut /\ ts'.pending = ts.pending
    BY <1>1, <1>2, <1>4 DEF State
  <1>6. RunningIn(ts') = RunningIn(ts)
    BY <1>1, <1>3, <1>5 DEF RunningIn
  <1>7. ListInv(ts', due)
    BY <1>1, <1>3, <1>5, <1>6, UnlistedChange
  <1>8. CallOK'
    BY <1>1, <1>2 DEF CallOK, Idle
  <1> QED
    BY <1>2, <1>7, <1>8 DEF TimerIInv

\* A call has read the status of its timer before its first critical section.
LEMMA CallsIInv ==
  ASSUME TimerIInv, NEW t \in Ids, NEW ticks \in Timeouts \cup {0},
         NEW section \in {"restart", "link", "stop", "delete"}, Calls(section, t, ticks),
         section = "link" => ~Running(ts, t)
  PROVE  TimerIInv'
  <1>1. UNCHANGED <<ts, due>> /\ call' = <<section, t, ticks>> /\ calls' \in 0 .. MaxCalls
    BY TimerConstants DEF Calls, TimerIInv, CallOK, TimerConstants
  <1>2. CallOK'
    BY <1>1 DEF CallOK
  <1> QED
    BY <1>1, <1>2 DEF TimerIInv

\* The section of HW_TS_Stop, also on the way of a restart or a deletion.
LEMMA StopIInv ==
  ASSUME TimerIInv, StopSection
  PROVE  TimerIInv'
  <1> DEFINE t == call[2]
             R == RunningIn(ts)
             e == [due EXCEPT ![t] = 0]
  <1>1. /\ ts \in State /\ ListInv(ts, due) /\ CallOK /\ t \in Ids /\ R \in SUBSET Ids
        /\ ts.previous # ts.current /\ due \in [Ids -> Int] /\ Clock(ts, R, due)
    BY DEF TimerIInv, ListInv, StopSection, CallOK, RunningIn
  <1>2. ts' = Stopped(ts, t) /\ due' = e /\ UNCHANGED calls
    BY DEF StopSection
  <1>3. PICK r \in [Ids -> Nat] : Chain(ts, R, r) /\ InTime(ts, R, r, due)
    BY <1>1 DEF ListInv
  <1> HIDE DEF t
  <1>4. ListInv(ts', e) /\ t \notin RunningIn(ts')
    <2>1. CASE t \in R
      <3>1. ASSUME NEW i \in Others(R, t)
            PROVE  -due[i] <= Slack(Others(R, t), r, i) + Held(ts)
        <4>1. i \in R /\ i # t /\ Others(R, t) = R \ {t} /\ Others(R, t) \in SUBSET Ids
          BY <1>1 DEF Others
        <4>2. Slack(R, r, i) <= Slack(Others(R, t), r, i)
          BY <1>1, <1>3, <2>1, <4>1, SlackOfFewer
        <4>3. Slack(R, r, i) \in Nat /\ Slack(Others(R, t), r, i) \in Nat
          BY <1>1, <1>3, <4>1, SlackBounds
        <4>4. -due[i] <= Slack(R, r, i) + Held(ts) /\ due[i] \in Int
          BY <1>1, <1>3, <4>1 DEF InTime
        <4>5. Held(ts) \in Nat
          BY <1>1, TimerConstants DEF TimerConstants, State, Held
        <4> QED
          BY <4>2, <4>3, <4>4, <4>5
      <3> HIDE DEF R
      <3>2. R = RunningIn(ts)
        BY DEF R
      <3>3. ListInv(Stopped(ts, t), e) /\ RunningIn(Stopped(ts, t)) = Others(R, t)
        BY <1>1, <1>3, <2>1, <3>1, <3>2, StoppedKeeps
      <3> QED
        BY <1>2, <3>3 DEF Others
    <2>2. CASE t \notin R
      <3>1. Stopped(ts, t) = ts
        BY <1>1, <2>2, RunningMeans DEF Stopped
      <3>2. ListInv(ts, e)
        <4>1. e \in [Ids -> Int] /\ \A i \in R : e[i] = due[i]
          BY <1>1, <2>2
        <4> HIDE DEF e
        <4> QED
          BY <1>1, <4>1, UnlistedDue
      <3> QED
        BY <1>2, <2>2, <3>1, <3>2
    <2> QED
      BY <2>1, <2>2
  <1>5. CallOK'
    <2>1. ~Running(ts', t)
      BY <1>1, <1>4, RunningMeans
    <2>2. call[1] \in {"stop", "restart", "delete"} /\ call[3] \in Timeouts \cup {0}
      BY <1>1 DEF StopSection, CallOK
    <2>3. \/ call' = Idle
          \/ call' = <<"link", t, call[3]>>
          \/ call' = <<"free", t, 0>>
      BY <2>2 DEF StopSection, t
    <2> QED
      BY <1>1, <1>2, <2>1, <2>2, <2>3 DEF CallOK, Idle
  <1> QED
    BY <1>2, <1>4, <1>5 DEF TimerIInv

\* The section of HW_TS_Start, which only starts a timer that does not run.
LEMMA LinkIInv ==
  ASSUME TimerIInv, LinkSection
  PROVE  TimerIInv'
  <1> DEFINE t == call[2]
             ticks == call[3]
             R == RunningIn(ts)
             e == [due EXCEPT ![t] = ticks]
  <1>1. /\ ts \in State /\ CallOK /\ t \in Ids /\ R \in SUBSET Ids
        /\ ts.previous # ts.current /\ due \in [Ids -> Int] /\ Clock(ts, R, due)
        /\ ticks \in Timeouts \cup {0} /\ t \notin R
    BY RunningMeans DEF TimerIInv, ListInv, LinkSection, CallOK, RunningIn
  <1>2. ts' = Started(ts, t, ticks) /\ due' = e /\ UNCHANGED calls /\ call' = Idle
    BY DEF LinkSection
  <1>3. PICK r \in [Ids -> Nat] : Chain(ts, R, r) /\ InTime(ts, R, r, due)
    BY DEF ListInv, TimerIInv
  <1> HIDE DEF t, ticks
  <1>4. ListInv(ts', e)
    BY <1>1, <1>2, <1>3, StartedKeeps
  <1>5. CallOK'
    BY <1>1, <1>2 DEF CallOK, Idle
  <1> QED
    BY <1>2, <1>4, <1>5 DEF TimerIInv

\* On entry the handler has acknowledged its interrupt; the list is as it was.
LEMMA EnteredKeeps ==
  ASSUME ts \in State, NEW R \in SUBSET Ids, R = RunningIn(ts),
         NEW r \in [Ids -> Nat], Chain(ts, R, r), Clock(ts, R, due)
  PROVE  /\ Entered \in State /\ RunningIn(Entered) = R /\ Chain(Entered, R, r)
         /\ Clock(Entered, R, due) /\ Held(Entered) = 0
         /\ Entered.ctx = ts.ctx /\ Entered.current = ts.current
         /\ Entered.previous = ts.previous /\ Entered.since = ts.since
  <1> DEFINE u == Entered
  <1>1. 0 \in 0 .. MaxWakeupTimerSetup
    BY TimerConstants DEF TimerConstants, MaxWakeupTimerSetup
  <1>2. /\ u \in State /\ u.ctx = ts.ctx /\ u.current = ts.current
        /\ u.previous = ts.previous /\ u.since = ts.since /\ u.pending = NotPending
    BY <1>1 DEF Entered, State
  <1> HIDE DEF u
  <1>3. RunningIn(u) = R /\ Held(u) = 0
    BY <1>2 DEF RunningIn, Held
  <1>4. Chain(u, R, r)
    BY <1>2, SameChain
  <1>5. Clock(u, R, due)
    BY <1>2 DEF Clock, ReturnTimeElapsed
  <1> QED
    BY <1>2, <1>3, <1>4, <1>5 DEF u

\* A timer that is due is stopped, or started again.
LEMMA FiresIInv ==
  ASSUME TimerIInv, NEW t \in Ids, Fires(t)
  PROVE  TimerIInv'
  <1> DEFINE R == RunningIn(ts)
             S == Others(R, t)
             u == Entered
             again == ts.ctx[t].mode = "Repeated"
             ticks == ts.ctx[t].CounterInit
  <1>1. /\ ts \in State /\ ListInv(ts, due) /\ CallOK /\ R \in SUBSET Ids
        /\ ts.previous # ts.current /\ due \in [Ids -> Int] /\ Clock(ts, R, due)
    BY DEF TimerIInv, ListInv, CallOK, RunningIn
  <1>2. /\ ts.pending # NotPending /\ t = ts.current /\ t \in R /\ UNCHANGED <<call, calls>>
    BY RunningMeans DEF Fires, Interrupted
  <1>3. PICK r \in [Ids -> Nat] : Chain(ts, R, r) /\ InTime(ts, R, r, due)
    BY <1>1 DEF ListInv
  <1> HIDE DEF R
  <1>4. /\ u \in State /\ RunningIn(u) = R /\ Chain(u, R, r) /\ Clock(u, R, due)
        /\ Held(u) = 0 /\ u.ctx = ts.ctx /\ u.current = ts.current
        /\ u.previous = ts.previous /\ u.since = ts.since
    BY <1>1, <1>3, EnteredKeeps DEF R
  <1>5. S \in SUBSET Ids /\ t \notin S /\ S = R \ {t}
    BY <1>1 DEF Others
  <1>6. ASSUME NEW i \in S
        PROVE  -due[i] <= Slack(S, r, i) + Held(u)
    <2>1. i \in R /\ i # t
      BY <1>5
    <2>2. r[i] < r[t]
      BY <1>1, <1>2, <1>3, <2>1, CurrentIsFirst
    <2>3. Slack(R \ {t}, r, i) = Slack(R, r, i) + DELAY
      BY <1>1, <1>2, <1>3, <2>1, <2>2, SlackOfFewer
    <2>4. Slack(R, r, i) \in Nat /\ DELAY \in Nat /\ due[i] \in Int
      BY <1>1, <1>3, <2>1, SlackBounds, TimerConstants DEF TimerConstants
    <2>5. Held(ts) \in 0 .. DELAY
      BY <1>1, <1>2, <2>4 DEF State, Held
    <2>6. -due[i] <= Slack(R, r, i) + Held(ts)
      BY <1>3, <2>1 DEF InTime
    <2> QED
      BY <1>4, <1>5, <2>3, <2>4, <2>5, <2>6
  <1> HIDE DEF u
  <1>7. CASE ~again
    <2>1. ts' = Stopped(u, t) /\ due' = [due EXCEPT ![t] = 0]
      BY <1>7 DEF Fires, u
    <2>2. ListInv(Stopped(u, t), [due EXCEPT ![t] = 0]) /\ RunningIn(Stopped(u, t)) = S
      <3>1. R = RunningIn(u) /\ u.previous # u.current
        BY <1>1, <1>4
      <3>2. \A i \in Others(R, t) : -due[i] <= Slack(Others(R, t), r, i) + Held(u)
        BY <1>6
      <3> QED
        BY <1>1, <1>2, <1>3, <1>4, <3>1, <3>2, StoppedKeeps
    <2>3. RunningIn(ts') \in SUBSET RunningIn(ts)
      BY <1>5, <2>1, <2>2 DEF R
    <2> QED
      BY <1>1, <1>2, <2>1, <2>2, <2>3, CallKept DEF TimerIInv
  <1>8. CASE again
    <2> DEFINE v == UnlinkTimer(u, t, FALSE)
    <2>1. ts' = Started(v, t, ticks) /\ due' = [due EXCEPT ![t] = ticks]
      BY <1>8 DEF Fires, u
    <2>2. ticks \in Timeouts \cup {0}
      <3>1. ts.ctx[t] \in Context
        BY <1>1, StateFields
      <3> QED
        BY <3>1 DEF Context
    <2>3. u.since = IF RemoveTimer(u, t).current = None /\ FALSE THEN FORBIDDEN ELSE u.since
      OBVIOUS
    <2>4. v = Unlink(u, t, u.since)
      BY <2>3, Zenon DEF UnlinkTimer, Unlink
    <2>5. u.since \in {FORBIDDEN} \cup 0 .. WRAP - 1
      BY <1>4 DEF State
    <2> HIDE DEF v, ticks
    <2>6. /\ v \in State /\ RunningIn(v) = Others(R, t) /\ Chain(v, Others(R, t), r)
          /\ v.previous # v.current /\ v.since = u.since /\ v.pending = u.pending
          /\ \A i \in Ids : v.ctx[i].CountLeft = u.ctx[i].CountLeft
      BY <1>1, <1>2, <1>4, <2>4, <2>5, Unlinked
    <2>7. Clock(v, S, due)
      BY <1>4, <1>5, <2>6 DEF Clock, ReturnTimeElapsed
    <2>8. InTime(v, S, r, due)
      BY <1>6, <2>6 DEF InTime, Held
    <2>9. /\ ListInv(Started(v, t, ticks), [due EXCEPT ![t] = ticks])
          /\ RunningIn(Started(v, t, ticks)) = Added(S, t)
      <3>1. S = RunningIn(v) /\ Chain(v, S, r)
        BY <2>6
      <3>2. v \in State /\ v.previous # v.current /\ due \in [Ids -> Int]
        BY <1>1, <2>6
      <3>3. S \in SUBSET Ids /\ t \notin S
        BY <1>5
      <3> HIDE DEF S
      <3> QED
        BY <1>3, <2>2, <2>7, <2>8, <3>1, <3>2, <3>3, StartedKeeps
    <2>10. RunningIn(ts') \in SUBSET RunningIn(ts)
      BY <1>2, <1>5, <2>1, <2>9 DEF R, Added
    <2> QED
      BY <1>1, <1>2, <2>1, <2>9, <2>10, CallKept DEF TimerIInv
  <1> QED
    BY <1>7, <1>8

\* The wakeup timer counts on for a timer whose count it had to split.
LEMMA CountsOnIInv ==
  ASSUME TimerIInv, CountsOn
  PROVE  TimerIInv'
  <1> DEFINE R == RunningIn(ts)
             u == Entered
             cur == ts.current
  <1>1. /\ ts \in State /\ ListInv(ts, due) /\ CallOK /\ R \in SUBSET Ids
        /\ ts.previous # cur /\ due \in [Ids -> Int] /\ Clock(ts, R, due) /\ Wakeup(ts)
    BY DEF TimerIInv, ListInv, CallOK, RunningIn
  <1>2. /\ ts.pending # NotPending /\ cur \in R /\ cur # None /\ ts.overpassed
        /\ ts' = RescheduleTimerList(u) /\ UNCHANGED <<call, due, calls>>
    BY <1>1, StateFields, RunningMeans
       DEF CountsOn, Interrupted, WholeCountWritten, Running
  <1>3. PICK r \in [Ids -> Nat] : Chain(ts, R, r) /\ InTime(ts, R, r, due)
    BY <1>1 DEF ListInv
  <1> HIDE DEF R
  <1>4. /\ u \in State /\ RunningIn(u) = R /\ Chain(u, R, r) /\ Clock(u, R, due)
        /\ Held(u) = 0 /\ u.current = ts.current /\ u.previous = ts.previous
    BY <1>1, <1>3, EnteredKeeps DEF R
  <1>5. /\ MaxWakeupTimerSetup \in Nat /\ DELAY \in Nat
        /\ ts.pending \in 0 .. DELAY
    BY <1>1, <1>2, TimerConstants DEF TimerConstants, MaxWakeupTimerSetup, State
  <1>6. /\ ts.since # FORBIDDEN /\ ts.since \in Nat
        /\ ts.ctx[cur].CountLeft > MaxWakeupTimerSetup
        /\ ts.since <= MaxWakeupTimerSetup + ts.pending
    <2>1. ts.since # FORBIDDEN => ts.since \in Nat
      BY <1>1, TimerConstants DEF TimerConstants, State
    <2> QED
      BY <1>1, <1>2, <2>1 DEF Wakeup, Counted
  <1>7. ASSUME NEW i \in R
        PROVE  -due[i] <= Slack(R, r, i) + Held(u)
    <2>1. /\ ts.ctx[i].CountLeft \in Nat /\ ts.ctx[cur].CountLeft \in Nat
          /\ ts.ctx[cur].CountLeft <= ts.ctx[i].CountLeft
      BY <1>1, <1>2, <1>3, StateFields, CurrentIsFirst
    <2>2. due[i] = ts.ctx[i].CountLeft - ts.since /\ due[i] \in Int
      BY <1>1, <1>5, <1>6, <2>1 DEF Clock, ReturnTimeElapsed
    <2>3. Again \in Nat /\ Again <= Slack(R, r, i) /\ DELAY <= Again + 1
          /\ Slack(R, r, i) \in Nat
      BY <1>1, <1>3, SlackBounds
    <2> QED
      BY <1>4, <1>5, <1>6, <2>1, <2>2, <2>3
  <1>8. InTime(u, R, r, due)
    BY <1>7 DEF InTime
  <1> HIDE DEF u
  <1>9. ListInv(RescheduleTimerList(u), due) /\ RunningIn(RescheduleTimerList(u)) = R
    BY <1>1, <1>2, <1>3, <1>4, <1>8, RescheduledKeeps
  <1>10. RunningIn(ts') \in SUBSET RunningIn(ts)
    BY <1>2, <1>9 DEF R
  <1> QED
    BY <1>1, <1>2, <1>9, <1>10, CallKept DEF TimerIInv

\* What the state of the wakeup timer says of a current timer.
LEMMA WhileCounting ==
  ASSUME NEW s \in State, Wakeup(s), s.current # None
  PROVE  /\ s.current \in Ids /\ s.since \in Nat /\ ReturnTimeElapsed(s) = s.since
         /\ s.ctx[s.current].CountLeft \in Nat /\ Counted(s) \in Nat
         /\ Counted(s) <= MaxWakeupTimerSetup /\ Counted(s) <= s.ctx[s.current].CountLeft
         /\ MaxWakeupTimerSetup \in Nat /\ MaxWakeupTimerSetup + DELAY < WRAP
         /\ DELAY \in Nat /\ WRAP \in Nat
  <1>1. /\ MaxWakeupTimerSetup \in Nat /\ MaxWakeupTimerSetup + DELAY < WRAP
        /\ DELAY \in Nat /\ WRAP \in Nat
    BY TimerConstants DEF TimerConstants, MaxWakeupTimerSetup
  <1>2. s.current \in Ids /\ s.ctx[s.current].CountLeft \in Nat
    BY StateFields
  <1>3. s.since \in Nat /\ ReturnTimeElapsed(s) = s.since
    <2>1. s.since \in {FORBIDDEN} \cup 0 .. WRAP - 1
      BY DEF State
    <2> QED
      BY <1>1, <2>1 DEF Wakeup, ReturnTimeElapsed
  <1>4. s.overpassed \in BOOLEAN
    BY DEF State
  <1>5. /\ Counted(s) \in Nat /\ Counted(s) <= MaxWakeupTimerSetup
        /\ Counted(s) <= s.ctx[s.current].CountLeft
    <2>1. CASE s.overpassed
      BY <1>1, <1>2, <2>1 DEF Wakeup, Counted
    <2>2. CASE ~s.overpassed
      BY <1>1, <1>2, <2>2 DEF Wakeup, Counted
    <2> QED
      BY <2>1, <2>2
  <1> QED
    BY <1>1, <1>2, <1>3, <1>5

\* Nothing but the time of a wakeup and the times left changes.
LEMMA OnlyTime ==
  ASSUME NEW s, NEW d, ListInv(s, d), NEW u \in State, u.ctx = s.ctx,
         u.current = s.current, u.previous = s.previous, Wakeup(u),
         NEW e \in [Ids -> Int], Clock(u, RunningIn(s), e),
         \A r \in [Ids -> Nat] : Chain(s, RunningIn(s), r) /\ InTime(s, RunningIn(s), r, d)
            => InTime(u, RunningIn(s), r, e)
  PROVE  ListInv(u, e) /\ RunningIn(u) = RunningIn(s)
  <1> DEFINE R == RunningIn(s)
  <1>1. s \in State /\ R \in SUBSET Ids /\ u.previous # u.current
    BY DEF ListInv, RunningIn
  <1>2. PICK r \in [Ids -> Nat] : Chain(s, R, r) /\ InTime(s, R, r, d)
    BY DEF ListInv
  <1>3. RunningIn(u) = R
    BY DEF RunningIn
  <1>4. InTime(u, R, r, e)
    BY <1>2
  <1> HIDE DEF R
  <1>5. Chain(u, R, r)
    BY <1>1, <1>2, SameChain
  <1>6. Clock(u, R, e)
    BY DEF R
  <1> QED
    BY <1>1, <1>3, <1>4, <1>5, <1>6 DEF ListInv, R

\* The wakeup timer may expire before the last tick: the timer is due with it.
LEMMA ExpiresEarlyIInv ==
  ASSUME TimerIInv, ExpiresEarly
  PROVE  TimerIInv'
  <1>1. /\ ts \in State /\ ListInv(ts, due) /\ CallOK /\ Wakeup(ts)
        /\ due \in [Ids -> Int] /\ Clock(ts, RunningIn(ts), due)
    BY DEF TimerIInv, ListInv
  <1>2. /\ ts.wut = 1 /\ ts' = [ts EXCEPT !.wut = 0, !.pending = 0]
        /\ UNCHANGED <<call, due, calls>>
    BY DEF ExpiresEarly, Expired
  <1>3. ts.current # None /\ ts.pending = NotPending /\ ts.wut = Counted(ts) - ts.since
    BY <1>1, <1>2 DEF Wakeup
  <1>4. /\ ts.since \in Nat /\ Counted(ts) \in Nat /\ MaxWakeupTimerSetup \in Nat
        /\ DELAY \in Nat
    BY <1>1, <1>3, WhileCounting
  <1>5. /\ ts' \in State /\ ts'.ctx = ts.ctx /\ ts'.current = ts.current
        /\ ts'.previous = ts.previous /\ ts'.since = ts.since
        /\ ts'.overpassed = ts.overpassed /\ ts'.wut = 0 /\ ts'.pending = 0
    <2>1. 0 \in 0 .. MaxWakeupTimerSetup /\ 0 \in 0 .. DELAY
      BY <1>4
    <2> QED
      BY <1>1, <1>2, <2>1 DEF State
  <1>6. Wakeup(ts')
    <2>1. Counted(ts') = Counted(ts)
      BY <1>5 DEF Counted
    <2>2. 0 # NotPending
      BY DEF NotPending
    <2> QED
      BY <1>1, <1>2, <1>3, <1>4, <1>5, <2>1, <2>2 DEF Wakeup
  <1>7. Clock(ts', RunningIn(ts), due)
    BY <1>1, <1>5 DEF Clock, ReturnTimeElapsed
  <1>8. Held(ts') = Held(ts)
    BY <1>3, <1>5 DEF Held
  <1>9. \A r \in [Ids -> Nat] :
           InTime(ts, RunningIn(ts), r, due) => InTime(ts', RunningIn(ts), r, due)
    BY <1>8 DEF InTime
  <1>10. ListInv(ts', due) /\ RunningIn(ts') = RunningIn(ts)
    BY <1>1, <1>5, <1>6, <1>7, <1>9, OnlyTime
  <1> QED
    BY <1>1, <1>2, <1>10, CallKept DEF TimerIInv

\* A tick: no timer that still counts is overdue, and one more tick is the interrupt's.
LEMMA TickIInv ==
  ASSUME TimerIInv, Tick
  PROVE  TimerIInv'
  <1> DEFINE R == RunningIn(ts)
             cur == ts.current
             left == ts.ctx[cur].CountLeft
  <1>1. /\ ts \in State /\ ListInv(ts, due) /\ CallOK /\ Wakeup(ts) /\ R \in SUBSET Ids
        /\ due \in [Ids -> Int] /\ Clock(ts, R, due)
    BY DEF TimerIInv, ListInv, RunningIn
  <1>2. /\ ts.pending < DELAY /\ UNCHANGED <<call, calls>>
        /\ due' = [t \in Ids |-> IF t \in R THEN due[t] - 1 ELSE due[t]]
    BY RunningMeans DEF Tick
  <1>3. due' \in [Ids -> Int] /\ \A i \in R : due'[i] = due[i] - 1
    BY <1>1, <1>2
  <1>4. CASE cur = None
    <2>1. R = {}
      <3>1. PICK r \in [Ids -> Nat] : Chain(ts, R, r)
        BY <1>1 DEF ListInv
      <3> QED
        BY <1>1, <1>4, <3>1, NoneIsNoTimer DEF Chain
    <2>2. ts.since = FORBIDDEN /\ ts.wut = 0 /\ ts.pending = NotPending
      BY <1>1, <1>4 DEF Wakeup
    <2>3. ts' = [ts EXCEPT !.since = FORBIDDEN, !.wut = 0, !.pending = NotPending]
      BY <1>1, <2>2 DEF Tick, Ticked, State
    <2>4. /\ ts' \in State /\ ts'.ctx = ts.ctx /\ ts'.current = ts.current
          /\ ts'.previous = ts.previous /\ ts'.since = ts.since
          /\ ts'.overpassed = ts.overpassed /\ ts'.wut = ts.wut /\ ts'.pending = ts.pending
      BY <1>1, <2>2, <2>3 DEF State
    <2>5. ListInv(ts, due')
      BY <1>1, <1>3, <2>1, UnlistedDue
    <2>6. RunningIn(ts') = RunningIn(ts)
      BY <2>4 DEF RunningIn
    <2>7. ListInv(ts', due')
      BY <2>4, <2>5, <2>6, UnlistedChange
    <2> QED
      BY <1>1, <1>2, <2>6, <2>7, CallKept DEF TimerIInv
  <1>5. CASE cur # None
    <2>1. /\ cur \in Ids /\ ts.since \in Nat /\ ReturnTimeElapsed(ts) = ts.since
          /\ left \in Nat /\ Counted(ts) \in Nat
          /\ Counted(ts) <= MaxWakeupTimerSetup /\ Counted(ts) <= left
          /\ MaxWakeupTimerSetup \in Nat /\ MaxWakeupTimerSetup + DELAY < WRAP
          /\ DELAY \in Nat /\ WRAP \in Nat /\ ts.since # FORBIDDEN
      BY <1>1, <1>5, WhileCounting DEF Wakeup
    <2> DEFINE since == ts.since + 1
               wut == IF ts.wut > 1 THEN ts.wut - 1 ELSE 0
               pending == IF ts.wut = 1 THEN 0
                          ELSE IF ts.pending = NotPending THEN NotPending ELSE ts.pending + 1
    <2>2. /\ ts.pending \in {NotPending} \cup 0 .. DELAY
          /\ ts.wut \in 0 .. MaxWakeupTimerSetup
      BY <1>1 DEF State
    <2>3. /\ since \in 0 .. WRAP - 1
          /\ IF ts.pending = NotPending
             THEN ts.wut > 0 /\ ts.wut = Counted(ts) - ts.since /\ ts.since < left
             ELSE /\ ts.wut = 0 /\ ts.pending \in Nat
                  /\ Counted(ts) - 1 <= ts.since /\ ts.since <= Counted(ts) + ts.pending
      <3>1. CASE ts.pending = NotPending
        <4>1. ts.wut > 0 /\ ts.wut = Counted(ts) - ts.since
          BY <1>1, <1>5, <3>1 DEF Wakeup
        <4> QED
          BY <2>1, <2>2, <3>1, <4>1
      <3>2. CASE ts.pending # NotPending
        <4>1. /\ ts.wut = 0 /\ Counted(ts) - 1 <= ts.since
              /\ ts.since <= Counted(ts) + ts.pending /\ ts.pending \in 0 .. DELAY
          BY <1>1, <1>5, <2>2, <3>2 DEF Wakeup
        <4> QED
          BY <1>2, <2>1, <3>2, <4>1
      <3> QED
        BY <3>1, <3>2
    <2>4. (ts.since + 1) % WRAP = since
      BY <2>1, <2>3
    <2>5. /\ wut \in 0 .. MaxWakeupTimerSetup /\ pending \in {NotPending} \cup 0 .. DELAY
          /\ wut = 0 <=> ts.wut <= 1
      BY <1>2, <2>1, <2>2, <2>3
    <2>6. ts' = [ts EXCEPT !.since = since, !.wut = wut, !.pending = pending]
      <3> DEFINE u == Ticked(ts)
      <3>1. u = [ts EXCEPT !.since = since,
                           !.wut = IF ts.wut > 1 THEN ts.wut - 1 ELSE ts.wut,
                           !.pending = IF ts.pending = NotPending THEN ts.pending
                                       ELSE ts.pending + 1]
        <4> HIDE DEF since
        <4>1. ts.since # FORBIDDEN
          BY <2>1
        <4> QED
          BY <2>4, <4>1 DEF Ticked
      <3>2. ts' = IF ts.wut = 1 THEN [u EXCEPT !.wut = 0, !.pending = 0] ELSE u
        BY DEF Tick, Expired
      <3> HIDE DEF u, since
      <3>3. CASE ts.wut = 1
        <4>1. wut = 0 /\ pending = 0
          BY <3>3
        <4> DEFINE w == IF ts.wut > 1 THEN ts.wut - 1 ELSE ts.wut
                   p == IF ts.pending = NotPending THEN ts.pending ELSE ts.pending + 1
        <4> HIDE DEF w, p, wut, pending
        <4>2. u = [ts EXCEPT !.since = since, !.wut = w, !.pending = p]
          BY <3>1 DEF w, p
        <4>3. ts' = [u EXCEPT !.wut = 0, !.pending = 0]
          BY <3>2, <3>3
        <4> QED
          BY <1>1, <4>1, <4>2, <4>3 DEF State
      <3>4. CASE ts.wut # 1
        <4>1. wut = IF ts.wut > 1 THEN ts.wut - 1 ELSE ts.wut
          BY <2>2, <3>4
        <4>2. pending = IF ts.pending = NotPending THEN ts.pending ELSE ts.pending + 1
          BY <3>4
        <4> QED
          BY <3>1, <3>2, <3>4, <4>1, <4>2
      <3> QED
        BY <3>3, <3>4
    <2> HIDE DEF since, wut, pending, left, cur
    <2>7. /\ ts' \in State /\ ts'.ctx = ts.ctx /\ ts'.current = ts.current
          /\ ts'.previous = ts.previous /\ ts'.overpassed = ts.overpassed
          /\ ts'.since = since /\ ts'.wut = wut /\ ts'.pending = pending
      BY <1>1, <2>3, <2>5, <2>6 DEF State
    <2>8. Wakeup(ts')
      <3>1. Counted(ts') = Counted(ts) /\ ts'.current # None
        BY <1>5, <2>7 DEF Counted, cur
      <3>2. ts'.overpassed <=> ts'.ctx[ts'.current].CountLeft > MaxWakeupTimerSetup
        BY <1>1, <1>5, <2>7 DEF Wakeup, cur
      <3>3. since # FORBIDDEN /\ since = ts.since + 1 /\ NotPending = -1
        BY <2>1 DEF FORBIDDEN, since, NotPending
      <3>4. IF pending = NotPending
            THEN wut > 0 /\ wut = Counted(ts) - since
            ELSE wut = 0 /\ Counted(ts) - 1 <= since /\ since <= Counted(ts) + pending
        BY <2>1, <2>2, <2>3, <3>3 DEF wut, pending
      <3> QED
        BY <2>7, <3>1, <3>2, <3>3, <3>4 DEF Wakeup
    <2>9. ReturnTimeElapsed(ts') = ts.since + 1
      BY <2>1, <2>7 DEF ReturnTimeElapsed, since, FORBIDDEN
    <2>10. ASSUME NEW i \in R
           PROVE  /\ ts.ctx[i].CountLeft \in Nat /\ due[i] \in Int /\ i \in Ids
                  /\ IF ts.ctx[i].CountLeft > 0 THEN due[i] = ts.ctx[i].CountLeft - ts.since
                     ELSE due[i] <= -ts.since
      BY <1>1, <2>1, StateFields DEF Clock
    <2>11. Clock(ts', R, due')
      <3> DEFINE e == ReturnTimeElapsed(ts')
      <3>1. e \in Nat /\ e = ts.since + 1
        BY <2>1, <2>9
      <3> HIDE DEF e, R
      <3>2. ASSUME NEW i \in R
            PROVE  IF ts'.ctx[i].CountLeft > 0 THEN due'[i] = ts'.ctx[i].CountLeft - e
                   ELSE due'[i] <= -e
        BY <1>3, <2>1, <2>7, <2>10, <3>1
      <3> QED
        BY <3>2 DEF Clock, e
    <2>12. ASSUME NEW r \in [Ids -> Nat], Chain(ts, R, r), InTime(ts, R, r, due)
           PROVE  InTime(ts', R, r, due')
      <3> HIDE DEF R
      <3>1. ASSUME NEW i \in R
            PROVE  -due'[i] <= Slack(R, r, i) + Held(ts')
        <4>1. /\ Slack(R, r, i) \in Nat /\ -due[i] <= Slack(R, r, i) + Held(ts)
              /\ due'[i] = due[i] - 1
          BY <1>1, <1>3, <2>12, SlackBounds DEF InTime
        <4>2. left <= ts.ctx[i].CountLeft
          BY <1>1, <2>12, CurrentIsFirst DEF left, cur
        <4>3. CASE ts.pending = NotPending
          <5>1. due[i] > 0
            BY <2>1, <2>3, <2>10, <4>2, <4>3
          <5>2. Held(ts') \in Nat
            BY <2>1, <2>7 DEF Held, State
          <5> QED
            BY <2>10, <4>1, <5>1, <5>2
        <4>4. CASE ts.pending # NotPending
          <5>1. Held(ts) = ts.pending /\ pending = ts.pending + 1 /\ ts.pending \in Nat
            BY <2>3, <4>4 DEF Held, pending
          <5>2. Held(ts') = ts.pending + 1
            BY <2>7, <5>1 DEF Held, NotPending
          <5> QED
            BY <2>10, <4>1, <5>1, <5>2
        <4> QED
          BY <4>3, <4>4
      <3> QED
        BY <3>1 DEF InTime
    <2>13. ListInv(ts', due') /\ RunningIn(ts') = R
      BY <1>1, <1>3, <2>7, <2>8, <2>11, <2>12, OnlyTime
    <2> QED
      BY <1>1, <1>2, <2>13, CallKept DEF TimerIInv
  <1> QED
    BY <1>4, <1>5

\* No step, of a client, of the handler or of the RTC, breaks the invariant.
LEMMA TimerNextIInv ==
  TimerIInv /\ [TimerNext]_timerVars => TimerIInv'
  <1> SUFFICES ASSUME TimerIInv, [TimerNext]_timerVars PROVE TimerIInv'
    OBVIOUS
  <1>1. ASSUME NEW mode \in {"SingleShot", "Repeated"}, HW_TS_Create(mode)
        PROVE  TimerIInv'
    BY <1>1, CreateIInv
  <1>2. ASSUME NEW t \in Ids, NEW ticks \in Timeouts, HW_TS_Start(t, ticks)
        PROVE  TimerIInv'
    <2>1. CASE Running(ts, t)
      BY <1>2, <2>1, CallsIInv DEF HW_TS_Start
    <2>2. CASE ~Running(ts, t)
      BY <1>2, <2>2, CallsIInv DEF HW_TS_Start
    <2> QED
      BY <2>1, <2>2
  <1>3. ASSUME NEW t \in Ids, HW_TS_Stop(t) \/ HW_TS_Delete(t)
        PROVE  TimerIInv'
    BY <1>3, CallsIInv DEF HW_TS_Stop, HW_TS_Delete
  <1>4. CASE StopSection
    BY <1>4, StopIInv
  <1>5. CASE LinkSection
    BY <1>5, LinkIInv
  <1>6. CASE FreesTimer
    BY <1>6, FreesIInv
  <1>7. ASSUME NEW t \in Ids, Fires(t)
        PROVE  TimerIInv'
    BY <1>7, FiresIInv
  <1>8. CASE CountsOn
    BY <1>8, CountsOnIInv
  <1>9. CASE ExpiresEarly
    BY <1>9, ExpiresEarlyIInv
  <1>10. CASE Tick
    BY <1>10, TickIInv
  <1>11. CASE UNCHANGED timerVars
    BY <1>11 DEF timerVars, TimerIInv, CallOK
  <1> QED
    BY <1>1, <1>2, <1>3, <1>4, <1>5, <1>6, <1>7, <1>8, <1>9, <1>10, <1>11 DEF TimerNext

\* The invariant holds of every state the timer server can be in.
LEMMA TimerInductive ==
  TimerSpec => []TimerIInv
  BY TimerInitIInv, TimerNextIInv, PTL DEF TimerSpec

\* What the invariant says of a running timer.
LEMMA RunningTimer ==
  ASSUME TimerIInv, NEW t \in Ids, Running(ts, t)
  PROVE  LET left == ts.ctx[t].CountLeft
             elapsed == ReturnTimeElapsed(ts)
         IN  /\ left \in Nat /\ elapsed \in Nat /\ due[t] \in Int
             /\ IF left > 0 THEN due[t] = left - elapsed ELSE due[t] <= -elapsed
  <1>1. /\ ts \in State /\ due \in [Ids -> Int] /\ Clock(ts, RunningIn(ts), due)
        /\ t \in RunningIn(ts)
    BY RunningMeans DEF TimerIInv, ListInv
  <1> QED
    BY <1>1, StateFields DEF Clock

\* The list holds the running timers and no other, both ways and the earliest first; their
\* counts say when they are due (RescheduleTimerList, linkTimer, UnlinkTimer): however the
\* calls of clients, the handler and the RTC interleave, for any number of timers.
THEOREM TimersInvariant ==
  TimerSpec => []TimerInv
  <1> SUFFICES ASSUME TimerIInv PROVE TimerInv
    BY TimerInductive, PTL
  <1> DEFINE R == RunningIn(ts)
  <1>1. /\ ts \in State /\ due \in [Ids -> Int] /\ CallOK /\ R \in SUBSET Ids
    BY DEF TimerIInv, ListInv, RunningIn
  <1>2. PICK r \in [Ids -> Nat] : Chain(ts, R, r)
    BY DEF TimerIInv, ListInv
  <1>3. TimerTypeOK
    BY <1>1 DEF TimerTypeOK, State, CallOK
  <1>4. ListIsSorted
    <2>1. Listed(ts) = R
      BY <1>1, <1>2, ListedIsChain
    <2>2. R = {t \in Ids : Running(ts, t)}
      BY RunningMeans DEF RunningIn
    <2>3. ASSUME NEW t \in R, ts.ctx[t].NextID # None
          PROVE  /\ ts.ctx[ts.ctx[t].NextID].PreviousID = t
                 /\ ts.ctx[t].CountLeft <= ts.ctx[ts.ctx[t].NextID].CountLeft
      <3> HIDE DEF R
      <3>1. ts.ctx[t].NextID \in R /\ r[ts.ctx[t].NextID] < r[t]
            /\ ts.ctx[ts.ctx[t].NextID].PreviousID = t
        BY <1>1, <1>2, <2>3 DEF Chain
      <3> QED
        BY <1>1, <1>2, <3>1 DEF Chain
    <2> QED
      BY <2>1, <2>2, <2>3 DEF ListIsSorted
  <1>5. LeftMatchesClock
    <2> SUFFICES ASSUME NEW t \in Ids, Running(ts, t)
                 PROVE  LET left == ts.ctx[t].CountLeft - ReturnTimeElapsed(ts) IN
                        IF due[t] > 0 THEN left = due[t] ELSE left <= 0
      BY DEF LeftMatchesClock
    <2> QED
      BY RunningTimer
  <1> QED
    BY <1>3, <1>4, <1>5 DEF TimerInv

\* No running timer is overdue by more than the delay of the handler for each timer, and what
\* the last part of a count adds (HW_TS_RTC_Wakeup_Handler): no interrupt is ever lost,
\* neither by a stop or a start that rewrites the wakeup timer nor by a split count.
THEOREM TimersFireInTime ==
  TimerSpec => []FiresInTime
  <1> SUFFICES ASSUME TimerIInv PROVE FiresInTime
    BY TimerInductive, PTL
  <1> DEFINE R == RunningIn(ts)
  <1>1. ts \in State /\ due \in [Ids -> Int] /\ R \in SUBSET Ids
    BY DEF TimerIInv, ListInv, RunningIn
  <1>2. PICK r \in [Ids -> Nat] : Chain(ts, R, r) /\ InTime(ts, R, r, due)
    BY DEF TimerIInv, ListInv
  <1>3. ASSUME NEW t \in Ids, Running(ts, t)
        PROVE  due[t] >= -(MaxTimers * DELAY + Again)
    <2>1. t \in R
      BY <1>3, RunningMeans
    <2>2. /\ Slack(R, r, t) \in Nat /\ Again \in Nat
          /\ Slack(R, r, t) + DELAY <= MaxTimers * DELAY + Again
      BY <1>1, <2>1, SlackBounds
    <2>3. DELAY \in Nat /\ MaxTimers * DELAY \in Nat
      BY TimerConstants DEF TimerConstants
    <2>4. Held(ts) \in 0 .. DELAY
      BY <1>1, <2>3 DEF State, Held
    <2>5. -due[t] <= Slack(R, r, t) + Held(ts) /\ due[t] \in Int
      BY <1>1, <1>2, <2>1 DEF InTime
    <2> DEFINE m == MaxTimers * DELAY
    <2>6. m \in Nat /\ Slack(R, r, t) + DELAY <= m + Again
      BY <2>2, <2>3
    <2> HIDE DEF m, R
    <2>7. due[t] >= -(m + Again)
      BY <2>2, <2>3, <2>4, <2>5, <2>6
    <2> QED
      BY <2>7 DEF m
  <1> QED
    BY <1>3 DEF FiresInTime, Again

\* An interrupt of the wakeup timer finds the current timer running: the branch the handler
\* keeps for the case it should never end up in is not reached.
THEOREM WakeupsExpected ==
  TimerSpec => []WakeupExpected
  <1> SUFFICES ASSUME TimerIInv, ts.pending # NotPending PROVE Running(ts, ts.current)
    BY TimerInductive, PTL DEF WakeupExpected
  <1>1. ts.current # None
    BY DEF TimerIInv, ListInv, Wakeup
  <1>2. PICK r \in [Ids -> Nat] : Chain(ts, RunningIn(ts), r)
    BY DEF TimerIInv, ListInv
  <1>3. ts.current \in RunningIn(ts)
    BY <1>1, <1>2 DEF Chain
  <1>4. ts.current \in Ids
    BY <1>3 DEF RunningIn
  <1> QED
    BY <1>3, <1>4, RunningMeans

\* The handler calls the callback of a timer in the last tick of its timeout or later, also
\* when the wakeup timer had to count it in parts.
THEOREM TimersFireNotEarly ==
  TimerSpec => FiresNotEarly
  <1>1. ASSUME TimerIInv, NEW t \in Ids, Fires(t)
        PROVE  due[t] <= 1
    <2>1. /\ ts.pending # NotPending /\ Running(ts, t) /\ t = ts.current /\ ~ts.overpassed
          /\ t # None
      BY <1>1, NoneIsNoTimer DEF Fires, Interrupted, WholeCountWritten
    <2>2. ts \in State /\ Wakeup(ts)
      BY <1>1 DEF TimerIInv, ListInv
    <2>3. Counted(ts) = ts.ctx[t].CountLeft /\ Counted(ts) - 1 <= ts.since
      BY <2>1, <2>2 DEF Wakeup, Counted
    <2>4. ReturnTimeElapsed(ts) = ts.since /\ ts.since \in Nat
      BY <2>1, <2>2, WhileCounting
    <2>5. /\ ts.ctx[t].CountLeft \in Nat /\ due[t] \in Int
          /\ IF ts.ctx[t].CountLeft > 0 THEN due[t] = ts.ctx[t].CountLeft - ts.since
             ELSE due[t] <= -ts.since
      BY <1>1, <2>1, <2>4, RunningTimer
    <2> QED
      BY <2>3, <2>4, <2>5
  <1>2. TimerIInv => \A t \in Ids : Fires(t) => due[t] <= 1
    BY <1>1
  <1> QED
    BY <1>2, TimerInductive, PTL DEF FiresNotEarly

-----------------------------------------------------------------------------
(* The start, DFU entry and the USB clock.                                 *)

\* TypeOK without the counters.
KindsOK ==
  /\ bkp \in BOOLEAN /\ dbp \in BOOLEAN /\ vectors_ok \in BOOLEAN
  /\ map \in {"flash", "system"} /\ pc \in AppPc \cup {"bootloader", "stopped"}
  /\ usb \in BOOLEAN /\ clk48 \in {"HSI48", "PLLSAI1"} /\ hsi48 \in BOOLEAN
  /\ semaphore \in {"free", "CPU1"} /\ c2boot \in BOOLEAN
  /\ request \in {"none", "made", "entered", "refused", "interrupted"}

\* While a request waits one entry is still to come, and the jump is only
\* reached with a request that waits; the next request has room to be counted.
CountInv ==
  /\ CountsOK
  /\ entries <= requests
  /\ request = "made" => entries < requests
  /\ pc = "vectors" => request = "made"
  /\ pc = "request" => requests < MaxRequests

\* The flag is only set with a request that waits and consumed before the jump.
FlagInv ==
  /\ bkp => request = "made" /\ map = "flash"
  /\ pc = "consume" => bkp
  /\ pc = "vectors" => ~bkp
  /\ pc = "bootloader" => ~bkp
  /\ pc = "check" /\ usb => ~bkp

\* From the claim on, CPU1 has the semaphore and USB's clock, and CPU2 runs only
\* then; the bootloader runs without CPU2, and a device it leaves on the bus gets
\* its clock before the claim.
ClockInv ==
  /\ pc \in {"peripherals", "usb", "appe", "guard", "command", "request", "reset"}
       => semaphore = "CPU1" /\ clk48 = "PLLSAI1"
  /\ c2boot => pc \in {"guard", "command", "request", "reset"}
  /\ pc = "claim" => clk48 = "PLLSAI1"
  /\ pc \in {"check", "consume", "vectors", "bootloader", "clocks"} => semaphore = "free"
  /\ usb => \/ pc \in {"check", "clocks", "claim", "peripherals", "usb", "appe", "guard", "command"}
            \/ pc = "stopped" /\ (clk48 = "PLLSAI1" \/ semaphore = "free")
            \/ pc = "bootloader" /\ hsi48

BootIInv == KindsOK /\ CountInv /\ FlagInv /\ TableIsTheProgramsOwn /\ ClockInv

\* Power-up, with the register empty.
LEMMA BootInitIInv == Init => BootIInv
  <1> SUFFICES ASSUME Init PROVE BootIInv
    OBVIOUS
  <1>1. CountInv
    BY BootConstants DEF Init, CountInv, CountsOK, BootConstants
  <1>2. KindsOK /\ FlagInv /\ TableIsTheProgramsOwn /\ ClockInv
    BY DEF Init, KindsOK, FlagInv, TableIsTheProgramsOwn, ClockInv, AppPc
  <1> QED
    BY <1>1, <1>2 DEF BootIInv

\* Steps of the start and the loop that leave the flag and the history alone.
LEMMA QuietStep ==
  ASSUME BootIInv, Clocks \/ Claim \/ Peripherals \/ MX_USB_Device_Init
                 \/ InitFails \/ StartCpu2 \/ USB_ClockGuard \/ NoBoot \/ Cmd_EnterBootloader
  PROVE  BootIInv'
  <1> USE DEF BootIInv
  <1>1. CASE Clocks
    <2>1. CountInv'
      BY <1>1 DEF Clocks, CountInv, CountsOK, history
    <2>2. KindsOK' /\ FlagInv' /\ TableIsTheProgramsOwn' /\ ClockInv'
      BY <1>1 DEF Clocks, KindsOK, FlagInv, TableIsTheProgramsOwn, ClockInv, AppPc, backup,
         usbClock, history
    <2> QED
      BY <2>1, <2>2
  <1>2. CASE Claim
    <2>1. CountInv'
      BY <1>2 DEF Claim, FastTake, CountInv, CountsOK, history
    <2>2. KindsOK' /\ FlagInv' /\ TableIsTheProgramsOwn' /\ ClockInv'
      BY <1>2 DEF Claim, FastTake, KindsOK, FlagInv, TableIsTheProgramsOwn, ClockInv, AppPc,
         backup, usbClock, history
    <2> QED
      BY <2>1, <2>2
  <1>3. CASE Peripherals
    <2>1. CountInv'
      BY <1>3 DEF Peripherals, HAL_RTC_MspInit, CountInv, CountsOK, history
    <2>2. KindsOK' /\ FlagInv' /\ TableIsTheProgramsOwn' /\ ClockInv'
      BY <1>3 DEF Peripherals, HAL_RTC_MspInit, KindsOK, FlagInv, TableIsTheProgramsOwn,
         ClockInv, AppPc, backup, usbClock, history
    <2> QED
      BY <2>1, <2>2
  <1>4. CASE InitFails
    <2>1. CountInv'
      BY <1>4 DEF InitFails, Error_Handler, CountInv, CountsOK, history
    <2>2. dbp' \in BOOLEAN
      BY <1>4 DEF InitFails, KindsOK
    <2>3. /\ UNCHANGED <<bkp, vectors_ok, map, usb, clk48, hsi48, semaphore, c2boot, request>>
          /\ pc \in AppPc \ {"check", "consume", "claim"} /\ pc' = "stopped"
      BY <1>4 DEF InitFails, Error_Handler, backup, usbClock, history, AppPc
    <2>4. KindsOK'
      BY <2>2, <2>3 DEF KindsOK
    <2>5. FlagInv' /\ TableIsTheProgramsOwn'
      BY <2>3 DEF FlagInv, TableIsTheProgramsOwn, AppPc
    <2>6. ClockInv'
      BY <1>4, <2>3 DEF InitFails, ClockInv
    <2> QED
      BY <2>1, <2>4, <2>5, <2>6
  <1>5. CASE StartCpu2
    <2>1. CountInv'
      BY <1>5 DEF StartCpu2, CountInv, CountsOK, history
    <2>2. KindsOK' /\ FlagInv' /\ TableIsTheProgramsOwn' /\ ClockInv'
      BY <1>5 DEF StartCpu2, KindsOK, FlagInv, TableIsTheProgramsOwn, ClockInv, AppPc, backup,
         usbClock, history
    <2> QED
      BY <2>1, <2>2
  <1>6. CASE USB_ClockGuard
    <2>1. CountInv'
      BY <1>6 DEF USB_ClockGuard, CountInv, CountsOK, history
    <2>2. KindsOK' /\ FlagInv' /\ TableIsTheProgramsOwn' /\ ClockInv'
      BY <1>6 DEF USB_ClockGuard, KindsOK, FlagInv, TableIsTheProgramsOwn, ClockInv, AppPc,
         backup, usbClock, history
    <2> QED
      BY <2>1, <2>2
  <1>7. CASE NoBoot
    <2>1. CountInv'
      BY <1>7 DEF NoBoot, CountInv, CountsOK, history
    <2>2. KindsOK' /\ FlagInv' /\ TableIsTheProgramsOwn' /\ ClockInv'
      BY <1>7 DEF NoBoot, KindsOK, FlagInv, TableIsTheProgramsOwn, ClockInv, AppPc, backup,
         usbClock, history
    <2> QED
      BY <2>1, <2>2
  <1>8. CASE Cmd_EnterBootloader
    <2>1. CountInv'
      BY <1>8 DEF Cmd_EnterBootloader, CountInv, CountsOK, history
    <2>2. KindsOK' /\ FlagInv' /\ TableIsTheProgramsOwn' /\ ClockInv'
      BY <1>8 DEF Cmd_EnterBootloader, KindsOK, FlagInv, TableIsTheProgramsOwn, ClockInv,
         AppPc, backup, usbClock, history
    <2> QED
      BY <2>1, <2>2
  <1>9. CASE MX_USB_Device_Init
    <2>1. CountInv'
      BY <1>9 DEF MX_USB_Device_Init, CountInv, CountsOK, history
    <2>2. KindsOK' /\ FlagInv' /\ TableIsTheProgramsOwn' /\ ClockInv'
      BY <1>9 DEF MX_USB_Device_Init, KindsOK, FlagInv, TableIsTheProgramsOwn, ClockInv,
         AppPc, backup, usbClock, history
    <2> QED
      BY <2>1, <2>2
  <1> QED
    BY <1>1, <1>2, <1>3, <1>4, <1>5, <1>6, <1>7, <1>8, <1>9

\* Steps that set, test or consume the flag, or carry out the request.
LEMMA FlagStep ==
  ASSUME BootIInv, 
         NormalBoot \/ RequestFound \/ Consume \/ VectorsBad \/ Jump \/ Request \/ Reset
  PROVE  BootIInv'
  <1> USE DEF BootIInv
  <1>1. CASE NormalBoot
    <2>1. CountInv'
      BY <1>1 DEF NormalBoot, CountInv, CountsOK, history
    <2>2. KindsOK' /\ FlagInv' /\ TableIsTheProgramsOwn' /\ ClockInv'
      BY <1>1 DEF NormalBoot, KindsOK, FlagInv, TableIsTheProgramsOwn, ClockInv, AppPc,
         backup, usbClock, history
    <2> QED
      BY <2>1, <2>2
  <1>2. CASE RequestFound
    <2>1. CountInv'
      BY <1>2 DEF RequestFound, CountInv, CountsOK, history
    <2>2. KindsOK' /\ FlagInv' /\ TableIsTheProgramsOwn' /\ ClockInv'
      BY <1>2 DEF RequestFound, KindsOK, FlagInv, TableIsTheProgramsOwn, ClockInv, AppPc,
         backup, usbClock, history
    <2> QED
      BY <2>1, <2>2
  <1>3. CASE Consume
    <2>0. request = "made"
      BY <1>3 DEF Consume, FlagInv
    <2>1. CountInv'
      BY <1>3, <2>0 DEF Consume, CountInv, CountsOK, history
    <2>2. KindsOK' /\ FlagInv' /\ TableIsTheProgramsOwn' /\ ClockInv'
      BY <1>3 DEF Consume, ClearFlag, KindsOK, FlagInv, TableIsTheProgramsOwn, ClockInv,
         AppPc, backup, usbClock, history
    <2> QED
      BY <2>1, <2>2
  <1>4. CASE VectorsBad
    <2>1. CountInv'
      BY <1>4 DEF VectorsBad, CountInv, CountsOK, history
    <2>2. KindsOK' /\ FlagInv' /\ TableIsTheProgramsOwn' /\ ClockInv'
      BY <1>4 DEF VectorsBad, KindsOK, FlagInv, TableIsTheProgramsOwn, ClockInv, AppPc,
         backup, usbClock, history
    <2> QED
      BY <2>1, <2>2
  <1>5. CASE Jump
    <2>1. CountInv'
      BY <1>5, BootConstants DEF Jump, CountInv, CountsOK, history, BootConstants
    <2>2. KindsOK' /\ FlagInv' /\ TableIsTheProgramsOwn' /\ ClockInv'
      BY <1>5 DEF Jump, KindsOK, FlagInv, TableIsTheProgramsOwn, ClockInv, AppPc, backup,
         usbClock, history
    <2> QED
      BY <2>1, <2>2
  <1>6. CASE Request
    <2>1. CountInv'
      BY <1>6, BootConstants DEF Request, SetFlag, CountInv, CountsOK, history, BootConstants
    <2>2. KindsOK' /\ FlagInv' /\ TableIsTheProgramsOwn' /\ ClockInv'
      BY <1>6 DEF Request, SetFlag, KindsOK, FlagInv, TableIsTheProgramsOwn, ClockInv, AppPc,
         backup, usbClock, history
    <2> QED
      BY <2>1, <2>2
  <1>7. CASE Reset
    <2>1. CountInv'
      BY <1>7 DEF Reset, SystemReset, CountInv, CountsOK, history
    <2>2. KindsOK' /\ FlagInv' /\ TableIsTheProgramsOwn' /\ ClockInv'
      BY <1>7 DEF Reset, SystemReset, KindsOK, FlagInv, TableIsTheProgramsOwn, ClockInv,
         AppPc, backup, usbClock, history
    <2> QED
      BY <2>1, <2>2
  <1> QED
    BY <1>1, <1>2, <1>3, <1>4, <1>5, <1>6, <1>7

\* A reset or a power cycle at any place, the bootloader, and CPU2.
LEMMA WorldStep ==
  ASSUME BootIInv, World
  PROVE  BootIInv'
  <1> USE DEF BootIInv
  <1>1. CASE PinReset
    <2>1. CountInv'
      BY <1>1, BootConstants DEF PinReset, SystemReset, RequestAfterReset, CountInv, CountsOK,
         history, BootConstants
    <2>2. KindsOK' /\ FlagInv' /\ TableIsTheProgramsOwn' /\ ClockInv'
      BY <1>1 DEF PinReset, SystemReset, RequestAfterReset, KindsOK, FlagInv,
         TableIsTheProgramsOwn, ClockInv, AppPc, backup, usbClock, history
    <2> QED
      BY <2>1, <2>2
  <1>2. CASE PowerCycle
    <2>1. CountInv'
      BY <1>2, BootConstants DEF PowerCycle, SystemReset, RequestAfterReset, CountInv,
         CountsOK, history, BootConstants
    <2>2. KindsOK'
      BY <1>2 DEF PowerCycle, SystemReset, RequestAfterReset, KindsOK, AppPc
    <2>3. FlagInv'
      <3>1. ASSUME bkp' PROVE bkp /\ request = "made" /\ pc # "vectors"
        BY <1>2, <3>1 DEF PowerCycle, KindsOK, FlagInv
      <3>2. bkp' => request' = "made"
        BY <1>2, <3>1 DEF PowerCycle, RequestAfterReset
      <3> QED
        BY <1>2, <3>2 DEF PowerCycle, SystemReset, FlagInv
    <2>4. TableIsTheProgramsOwn' /\ ClockInv'
      BY <1>2 DEF PowerCycle, SystemReset, TableIsTheProgramsOwn, ClockInv, AppPc
    <2> QED
      BY <2>1, <2>2, <2>3, <2>4
  <1>3. CASE BootloaderUsb
    <2>1. CountInv'
      BY <1>3 DEF BootloaderUsb, CountInv, CountsOK, history
    <2>2. KindsOK' /\ FlagInv' /\ TableIsTheProgramsOwn' /\ ClockInv'
      BY <1>3 DEF BootloaderUsb, KindsOK, FlagInv, TableIsTheProgramsOwn, ClockInv, AppPc,
         backup, usbClock, history
    <2> QED
      BY <2>1, <2>2
  <1>4. CASE Go
    <2>1. CountInv'
      BY <1>4 DEF Go, CountInv, CountsOK, history
    <2>2. KindsOK' /\ FlagInv' /\ TableIsTheProgramsOwn' /\ ClockInv'
      BY <1>4 DEF Go, KindsOK, FlagInv, TableIsTheProgramsOwn, ClockInv, AppPc, backup,
         usbClock, history
    <2> QED
      BY <2>1, <2>2
  <1>5. CASE Cpu2LeavesClock
    <2>1. CountInv'
      BY <1>5 DEF Cpu2LeavesClock, CountInv, CountsOK, history
    <2>2. KindsOK' /\ FlagInv' /\ TableIsTheProgramsOwn' /\ ClockInv'
      BY <1>5 DEF Cpu2LeavesClock, KindsOK, FlagInv, TableIsTheProgramsOwn, ClockInv, AppPc,
         backup, usbClock, history
    <2> QED
      BY <2>1, <2>2
  <1> QED
    BY <1>1, <1>2, <1>3, <1>4, <1>5 DEF World

\* The invariant holds of every state from power-up on.
THEOREM BootInvariant == Spec => []BootIInv
  <1>1. BootIInv /\ [Next]_vars => BootIInv'
    <2> SUFFICES ASSUME BootIInv, [Next]_vars PROVE BootIInv'
      OBVIOUS
    <2>1. CASE Cpu1
      BY <2>1, QuietStep, FlagStep DEF Cpu1
    <2>2. CASE World
      BY <2>2, WorldStep
    <2>3. CASE UNCHANGED vars
      BY <2>3 DEF vars, BootIInv, KindsOK, CountInv, CountsOK, FlagInv,
                  TableIsTheProgramsOwn, ClockInv, backup, usbClock, history
    <2> QED
      BY <2>1, <2>2, <2>3 DEF Next
  <1> QED
    BY <1>1, BootInitIInv, PTL DEF Spec

\* Types, one entry for each request, and the running program's own vector table.
THEOREM BootCorrect == Spec => []BootInv
  <1>1. BootIInv => BootInv
    <2> SUFFICES ASSUME BootIInv PROVE BootInv
      OBVIOUS
    <2>1. TypeOK
      BY DEF BootIInv, KindsOK, CountInv, TypeOK
    <2>2. OneEntryPerRequest
      BY DEF BootIInv, CountInv, FlagInv, OneEntryPerRequest
    <2> QED
      BY <2>1, <2>2 DEF BootIInv, BootInv
  <1> QED
    BY <1>1, BootInvariant, PTL

\* From SystemClock_Config on the clock of USB runs whenever the host sees a device,
\* whatever CPU2 does; before, a device that the bootloader's Go left on the bus
\* may be without one.
THEOREM ClockKept == Spec => []UsbKeepsItsClock
  <1>1. BootIInv => UsbKeepsItsClock
    BY DEF BootIInv, ClockInv, UsbKeepsItsClock, ClockNotSet, KindsOK, AppPc
  <1> QED
    BY <1>1, BootInvariant, PTL
=============================================================================

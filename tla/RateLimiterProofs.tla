------------------------- MODULE RateLimiterProofs -------------------------
(***************************************************************************)
(* Theorems about RateLimiter, for every number of crypts and every rate.  *)
(***************************************************************************)
EXTENDS RateLimiter, WorkQueueProofs, FiniteSetTheorems, WellFoundedInduction,
        TLAPS

\* What a resync takes, and at most the other additions of a period.
PeriodTakes == Cardinality(Items) + MaxRequests

\* Of these tokens, those that the ticks since the last resync have repaid.
Repaid == Smaller(PeriodTakes, Period - toResync)

\* What is owed is what the last resync, and the additions before it, have taken
\* and is not repaid, and one token for each other addition since.
DebtInv ==
  /\ tokens \in Int /\ tokens <= Burst
  /\ requests \in 0..MaxRequests
  /\ toResync \in 0..Period
  /\ tokens >= Burst - PeriodTakes - requests + Repaid

\* The number of crypts is a number: their set is finite.
LEMMA ItemsCounted == Cardinality(Items) \in Nat
BY RateLimiterAssumption, FS_CardinalityType

\* Holds when a period repays what it takes: in the program, with up to 100
\* crypts and other additions in ten seconds.
LEMMA DebtInvHolds ==
  ASSUME PeriodTakes <= Period
  PROVE  Spec => []DebtInv
<1> USE RateLimiterAssumption, ItemsCounted DEF DebtInv, PeriodTakes, Repaid, Smaller
<1>1. Init => DebtInv
  BY DEF Init
<1>2. ASSUME DebtInv, [Next]_vars PROVE DebtInv'
  <2>1. ASSUME NEW k \in Items, Request(k) PROVE DebtInv'
    BY <1>2, <2>1 DEF Request
  <2>2. CASE Resync
    BY <1>2, <2>2 DEF Resync
  <2>3. CASE Tick
    <3>1. /\ tokens' = IF Burst < tokens + 1 THEN Burst ELSE tokens + 1
          /\ toResync > 0 /\ toResync' = toResync - 1 /\ requests' = requests
      BY <2>3 DEF Tick
    <3> QED BY <1>2, <3>1
  <2>4. ASSUME NEW k \in Items, RipenDue(k) \/ FinishItem(k) PROVE DebtInv'
    BY <1>2, <2>4 DEF RipenDue, FinishItem, limiterVars
  <2>5. CASE TakeItem
    BY <1>2, <2>5 DEF TakeItem, limiterVars
  <2>6. CASE UNCHANGED vars
    BY <1>2, <2>6 DEF vars, limiterVars
  <2> QED
    BY <1>2, <2>1, <2>2, <2>3, <2>4, <2>5, <2>6 DEF Next
<1> QED BY <1>1, <1>2, PTL DEF Spec

\* The debt of the bucket does not grow with the time the process is up.
THEOREM DebtStaysBounded ==
  ASSUME Cardinality(Items) + MaxRequests <= Period
  PROVE  Spec => []DebtBounded
<1>1. DebtInv => DebtBounded
  BY RateLimiterAssumption, ItemsCounted
     DEF DebtInv, DebtBounded, PeriodTakes, Repaid, Smaller
<1>2. PeriodTakes <= Period
  BY DEF PeriodTakes
<1> QED BY <1>1, <1>2, DebtInvHolds, PTL
-----------------------------------------------------------------------------
(* The queue under the limiter is the queue without it. *)

\* Every step of the limiter is one of the queue, or none.
LEMMA LimitedSteps == [Next]_vars => [WQNext]_wqVars
<1> SUFFICES ASSUME [Next]_vars PROVE [WQNext]_wqVars
  OBVIOUS
<1>1. ASSUME NEW k \in Items, Request(k) \/ RipenDue(k) \/ FinishItem(k)
      PROVE  WQNext
  <2>1. {k} \in SUBSET Items
    OBVIOUS
  <2> QED BY <1>1, <2>1 DEF Request, RipenDue, FinishItem, WQNext
<1>2. CASE Resync
  BY <1>2 DEF Resync, WQNext
<1>3. CASE TakeItem
  BY <1>3 DEF TakeItem, WQNext
<1>4. CASE Tick \/ UNCHANGED vars
  BY <1>4 DEF Tick, vars
<1> QED BY <1>1, <1>2, <1>3, <1>4 DEF Next

LEMMA LimitedQueue == Spec => WQSpec
<1>1. Init => WQInit
  BY DEF Init
<1> QED BY <1>1, LimitedSteps, PTL DEF Spec, WQSpec

\* Whatever the delays, the queue holds each dirty key that nobody holds, once.
THEOREM LimitedQueueCorrect == Spec => []QueueIsDirtyIdle
  BY LimitedQueue, QueueCorrect, PTL

\* Whatever the delays, no addition is forgotten and no key is held twice.
THEOREM LimitedQueueImplementsPendingSet == Spec => ImplementsPendingSet
  BY LimitedQueue, QueueImplementsPendingSet, PTL
-----------------------------------------------------------------------------
(* How long a crypt waits for its next sync. *)

LimiterTyped ==
  /\ failures \in [Items -> Nat]
  /\ delay \in [Items -> Nat \cup {None}]
  /\ idle \in [Items -> Nat]

\* A key that nobody has to sync was finished in this period and has not been
\* added since; or it waits, and ripens in time: additions that follow the first
\* put nothing off.
Rested(k) ==
  \/ failures[k] = 0 /\ idle[k] <= Period - toResync
  \/ delay[k] \in Nat /\ idle[k] + delay[k] <= 2 * Period

IdleInv ==
  \A k \in Items :
    /\ k \in processing => idle[k] = 0
    /\ k \in dirty \ processing => idle[k] <= 2 * Period
    /\ k \notin dirty \cup processing => Rested(k)

FreshInv == LimiterTyped /\ DebtInv /\ IdleInv

\* What the rates must satisfy: a period repays what it takes, and outlasts the
\* first backoff and the debt of the bucket.  In the program: with up to 100
\* crypts and other additions in ten seconds, for whatever time.
PeriodSuffices ==
  /\ PeriodTakes <= Period
  /\ Cardinality(Items) + 2 * MaxRequests <= Burst + Period
  /\ Backoff(0) <= Period

\* Every set of numbers has a least element, hence induction.
LEMMA Least ==
  ASSUME NEW T, T \subseteq Nat, T # {}
  PROVE  \E x \in T : \A y \in T : x <= y
<1>1. PICK R : R = OpToRel(<, Nat)
  OBVIOUS
<1>2. IsWellFoundedOn(R, Nat)
  BY <1>1, NatLessThanWellFounded
<1>3. \A x \in Nat, y \in Nat : x < y => <<x, y>> \in R
  BY <1>1 DEF OpToRel
<1>5. PICK x \in T : \A y \in T : ~ (<<y, x>> \in R)
  BY <1>2, WFMin
<1>6. ASSUME NEW y \in T PROVE x <= y
  <2>1. x \in Nat /\ y \in Nat
    OBVIOUS
  <2>2. ~(y < x)
   BY <1>5, <1>3, <2>1
  <2> QED BY <2>1, <2>2
<1> QED BY <1>6

\* What holds of 0, and of each next number, holds of all.
LEMMA Induction ==
  ASSUME NEW T, 0 \in T, \A n \in Nat : n \in T => n + 1 \in T
  PROVE  Nat \subseteq T
<1> SUFFICES ASSUME Nat \ T # {} PROVE FALSE
  OBVIOUS
<1>1. PICK x \in Nat \ T : \A y \in Nat \ T : x <= y
  BY Least
<1>2. x # 0 /\ x - 1 \in Nat /\ ~(x <= x - 1)
  BY <1>1
<1>3. x - 1 \in T
  BY <1>1, <1>2
<1>4. (x - 1) + 1 \in T
  BY <1>2, <1>3
<1> QED BY <1>1, <1>2, <1>4

\* Doubling n times is a function on 0..n, and yields a number.
Doubles(f, n) == f = [m \in 0..n |-> IF m = 0 THEN 1 ELSE 2 * f[m - 1]]

LEMMA DoubledTyped ==
  ASSUME NEW n \in Nat
  PROVE  Doubled(n) \in Nat
<1> DEFINE T == {m \in Nat : \E f : Doubles(f, m)}
           D == CHOOSE f : Doubles(f, n)
<1>1. Doubled(n) = D[n]
  BY Zenon DEF Doubled, Doubles
<1>2. 0 \in T
  <2>1. Doubles([m \in 0..0 |-> 1], 0)
    BY DEF Doubles
  <2> QED BY <2>1
<1>3. ASSUME NEW m \in Nat, NEW f, Doubles(f, m)
      PROVE  \E g : Doubles(g, m + 1)
  <2> DEFINE g == [k \in 0..m + 1 |-> IF k = m + 1 THEN 2 * f[m] ELSE f[k]]
  <2>1. ASSUME NEW k \in 0..m + 1
        PROVE  g[k] = IF k = 0 THEN 1 ELSE 2 * g[k - 1]
    BY <1>3 DEF Doubles
  <2>2. g = [k \in 0..m + 1 |-> g[k]]
    OBVIOUS
  <2> HIDE DEF g
  <2>3. Doubles(g, m + 1)
    BY <2>1, <2>2 DEF Doubles
  <2> QED BY <2>3
<1>4. \A m \in Nat : m \in T => m + 1 \in T
  BY <1>3
<1> HIDE DEF T
<1>5. n \in T
  BY <1>2, <1>4, Induction
<1>6. Doubles(D, n)
  BY <1>5 DEF T
<1> HIDE DEF D
<1> DEFINE U == {m \in Nat : m <= n => D[m] \in Nat}
<1>7. 0 \in U
  BY <1>6 DEF Doubles
<1>8. ASSUME NEW m \in Nat, m \in U PROVE m + 1 \in U
  <2>1. m + 1 <= n => D[m + 1] = 2 * D[m] /\ D[m] \in Nat
    BY <1>6, <1>8 DEF Doubles
  <2> QED BY <2>1
<1> HIDE DEF U
<1>9. n \in U
  BY <1>7, <1>8, Induction
<1> QED BY <1>1, <1>9 DEF U

\* A backoff is a number of ticks.
LEMMA BackoffTyped ==
  ASSUME NEW n \in Nat
  PROVE  Backoff(n) \in Nat
<1> USE RateLimiterAssumption
<1>1. PICK p \in Nat : p = Doubled(n)
  BY DoubledTyped
<1>2. PICK q \in Nat : q = p + PerTick - 1
  OBVIOUS
<1>3. q \div PerTick \in Nat
  BY Z3
<1> QED BY <1>1, <1>2, <1>3 DEF Backoff, Smaller

\* An addition puts off no key that waits, nor longer than its backoff and the
\* debt of the bucket say.
LEMMA DeadlineTyped ==
  ASSUME LimiterTyped, NEW k \in Items, NEW left \in Int
  PROVE  /\ Deadline(k, left) \in Nat
         /\ delay[k] # None => Deadline(k, left) <= delay[k]
         /\ \A bound \in Nat :
              Backoff(failures[k]) <= bound /\ -left <= bound =>
                Deadline(k, left) <= bound
<1>1. Backoff(failures[k]) \in Nat
  BY BackoffTyped DEF LimiterTyped
<1>2. /\ When(k, left) \in Nat
      /\ \A bound \in Nat :
           Backoff(failures[k]) <= bound /\ -left <= bound => When(k, left) <= bound
  <2> HIDE DEF Backoff
  <2> QED BY <1>1 DEF When, Larger
<1>3. delay[k] \in Nat \cup {None}
  BY DEF LimiterTyped
<1> QED BY <1>2, <1>3 DEF Deadline, Smaller, None

\* One more addition of a rested key leaves it rested: the first has a period's
\* delay at most, and a period has passed at most.
LEMMA AdditionInTime ==
  ASSUME PeriodSuffices, FreshInv, NEW k \in Items, Rested(k),
         NEW left \in Int, -left <= Period
  PROVE  Deadline(k, left) \in Nat /\ idle[k] + Deadline(k, left) <= 2 * Period
<1> USE RateLimiterAssumption DEF FreshInv
<1>1. idle[k] \in Nat /\ delay[k] \in Nat \cup {None} /\ toResync \in Nat
  BY DEF LimiterTyped, DebtInv
<1>2. PICK d : d = Deadline(k, left)
  OBVIOUS
<1>3. d \in Nat /\ (delay[k] # None => d <= delay[k])
  BY <1>2, DeadlineTyped
<1>4. CASE failures[k] = 0 /\ idle[k] <= Period - toResync
  <2>1. Backoff(failures[k]) <= Period /\ Period \in Nat
    BY <1>4 DEF PeriodSuffices
  <2>2. d <= Period
    BY <1>2, <2>1, DeadlineTyped
  <2> QED BY <1>1, <1>2, <1>3, <1>4, <2>1, <2>2
<1>5. CASE delay[k] \in Nat /\ idle[k] + delay[k] <= 2 * Period
  <2>1. delay[k] # None
    BY <1>5 DEF None
  <2> QED BY <1>1, <1>2, <1>3, <1>5, <2>1
<1> QED BY <1>4, <1>5 DEF Rested

\* A count of failures is a number.
LEMMA FailedTyped ==
  ASSUME LimiterTyped, NEW k \in Items
  PROVE  Failed(k, 1) \in Nat
BY RateLimiterAssumption DEF LimiterTyped, Failed, Smaller

\* A resync finds a rested key overdue by at most a period and adds it with a
\* delay of at most another.
LEMMA ResyncKeepsFresh ==
  ASSUME PeriodSuffices, FreshInv, Resync
  PROVE  LimiterTyped' /\ IdleInv'
<1> USE RateLimiterAssumption, ItemsCounted DEF FreshInv
<1>1. /\ toResync = 0 /\ toResync' = Period
      /\ UNCHANGED <<idle, queue, dirty, processing>>
      /\ failures' = [k \in Items |-> Failed(k, 1)]
  BY DEF Resync, AddRateLimited
<1>2. PICK place \in Orders :
        delay' = [k \in Items |-> Deadline(k, tokens - place[k])]
  BY DEF Resync
<1>3. \A k \in Items : place[k] \in 1..Cardinality(Items)
  BY DEF Orders, Places
<1>4. tokens \in Int /\ tokens >= Burst - MaxRequests
  <2>1. tokens \in Int /\ requests \in 0..MaxRequests
        /\ tokens >= Burst - PeriodTakes - requests + Repaid
    BY DEF DebtInv
  <2>2. Repaid = PeriodTakes /\ PeriodTakes \in Int
    BY <1>1 DEF Repaid, Smaller, PeriodSuffices, PeriodTakes
  <2> QED BY <2>1, <2>2
<1>5. ASSUME NEW k \in Items
      PROVE  /\ delay'[k] \in Nat
             /\ Rested(k) => idle[k] + delay'[k] <= 2 * Period
  <2>1. PICK left : left = tokens - place[k]
    OBVIOUS
  <2>2. left \in Int /\ -left <= Period
    BY <1>3, <1>4, <2>1 DEF PeriodSuffices
  <2>3. delay'[k] = Deadline(k, left)
    BY <1>2, <2>1
  <2> QED BY <2>2, <2>3, DeadlineTyped, AdditionInTime
<1>6. LimiterTyped'
  BY <1>1, <1>2, <1>5, FailedTyped DEF LimiterTyped
<1>7. ASSUME NEW k \in Items, k \notin dirty \cup processing
      PROVE  Rested(k)'
  <2>1. Rested(k)
    BY <1>7 DEF IdleInv
  <2> QED BY <1>1, <1>5, <2>1 DEF Rested
<1>8. IdleInv'
  BY <1>1, <1>7 DEF IdleInv
<1> QED BY <1>6, <1>8

\* Any other addition has the same delay at most.
LEMMA RequestKeepsFresh ==
  ASSUME PeriodSuffices, FreshInv, NEW k \in Items, Request(k)
  PROVE  LimiterTyped' /\ IdleInv'
<1> USE RateLimiterAssumption, ItemsCounted DEF FreshInv
<1>1. /\ requests < MaxRequests
      /\ UNCHANGED <<toResync, idle, queue, dirty, processing>>
      /\ failures' = [failures EXCEPT ![k] = Failed(k, 1)]
      /\ delay' = [delay EXCEPT ![k] = Deadline(k, tokens - 1)]
  BY DEF Request, AddRateLimited
<1>2. tokens - 1 \in Int /\ -(tokens - 1) <= Period
  <2>1. /\ tokens \in Int /\ requests \in 0..MaxRequests /\ toResync \in 0..Period
        /\ tokens >= Burst - PeriodTakes - requests + Repaid
    BY DEF DebtInv
  <2>2. Repaid >= 0 /\ Repaid \in Int /\ PeriodTakes \in Nat
    BY <2>1 DEF Repaid, Smaller, PeriodTakes
  <2> QED BY <1>1, <2>1, <2>2 DEF PeriodSuffices, PeriodTakes
<1>3. /\ delay'[k] = Deadline(k, tokens - 1)
      /\ \A l \in Items \ {k} : delay'[l] = delay[l] /\ failures'[l] = failures[l]
  BY <1>1 DEF LimiterTyped
<1>4. /\ delay'[k] \in Nat
      /\ Rested(k) => idle[k] + delay'[k] <= 2 * Period
  BY <1>2, <1>3, DeadlineTyped, AdditionInTime
<1>5. LimiterTyped'
  BY <1>1, <1>3, <1>4, FailedTyped DEF LimiterTyped
<1>6. ASSUME NEW l \in Items, l \notin dirty \cup processing
      PROVE  Rested(l)'
  <2>1. Rested(l)
    BY <1>6 DEF IdleInv
  <2> QED BY <1>1, <1>3, <1>4, <2>1 DEF Rested
<1>7. IdleInv'
  BY <1>1, <1>6 DEF IdleInv
<1> QED BY <1>5, <1>7

\* A tick keeps every key waiting that is not queued or held, and shortens what
\* it waits for.
LEMMA TickKeepsFresh ==
  ASSUME FreshInv, Tick
  PROVE  LimiterTyped' /\ IdleInv'
<1> USE RateLimiterAssumption DEF FreshInv
<1>1. /\ toResync \in 1..Period /\ toResync' = toResync - 1
      /\ UNCHANGED <<failures, waiting, queue, dirty, processing>>
      /\ \A k \in Items : delay[k] # 0
      /\ idle' = [k \in Items |-> IF k \in dirty \cup processing THEN idle[k]
                                  ELSE idle[k] + 1]
      /\ delay' = [k \in Items |-> IF delay[k] = None THEN None ELSE delay[k] - 1]
  BY DEF Tick, wqVars, DebtInv
<1>2. LimiterTyped'
  <2>1. \A k \in Items :
          (IF delay[k] = None THEN None ELSE delay[k] - 1) \in Nat \cup {None}
    BY <1>1 DEF LimiterTyped, None
  <2> QED BY <1>1, <2>1 DEF LimiterTyped
<1>3. ASSUME NEW k \in Items, k \notin dirty \cup processing
      PROVE  Rested(k)'
  <2>1. Rested(k) /\ delay[k] # 0
    BY <1>1, <1>3 DEF IdleInv
  <2>2. /\ idle[k] \in Nat /\ idle'[k] = idle[k] + 1 /\ failures'[k] = failures[k]
        /\ delay'[k] = IF delay[k] = None THEN None ELSE delay[k] - 1
    BY <1>1, <1>3 DEF LimiterTyped
  <2>3. CASE failures[k] = 0 /\ idle[k] <= Period - toResync
    <3>1. idle'[k] <= Period - toResync'
      BY <1>1, <2>2, <2>3
    <3> QED BY <2>2, <2>3, <3>1 DEF Rested
  <2>4. CASE delay[k] \in Nat /\ idle[k] + delay[k] <= 2 * Period
    <3>1. delay'[k] = delay[k] - 1 /\ delay'[k] \in Nat
      BY <2>1, <2>2, <2>4 DEF None
    <3>2. idle'[k] + delay'[k] <= 2 * Period
      BY <2>2, <2>4, <3>1
    <3> QED BY <3>1, <3>2 DEF Rested
  <2> QED BY <2>1, <2>3, <2>4 DEF Rested
<1>4. \A k \in dirty \cup processing : k \in Items => idle'[k] = idle[k]
  BY <1>1
<1>5. IdleInv'
  BY <1>1, <1>3, <1>4 DEF IdleInv
<1> QED BY <1>2, <1>5

\* Ripening, taking and finishing move a key on in time.
LEMMA QueueKeepsFresh ==
  ASSUME FreshInv, WQInv,
         NEW k \in Items, RipenDue(k) \/ FinishItem(k) \/ TakeItem
  PROVE  LimiterTyped' /\ IdleInv'
<1> USE RateLimiterAssumption DEF FreshInv
<1>1. CASE RipenDue(k)
  <2>1. /\ UNCHANGED <<failures, toResync, idle, processing>> /\ delay[k] = 0
        /\ delay' = [delay EXCEPT ![k] = None] /\ dirty' = dirty \cup {k}
    BY <1>1 DEF RipenDue, Ripen
  <2>2. LimiterTyped'
    BY <2>1 DEF LimiterTyped
  <2>3. idle[k] <= 2 * Period
    BY <2>1 DEF IdleInv, Rested, LimiterTyped, DebtInv
  <2>4. \A l \in Items \ {k} : Rested(l) => Rested(l)'
    BY <2>1 DEF Rested, LimiterTyped
  <2>5. IdleInv'
    BY <2>1, <2>3, <2>4 DEF IdleInv
  <2> QED BY <2>2, <2>5
<1>2. CASE FinishItem(k)
  <2>1. /\ UNCHANGED <<delay, toResync, idle, dirty>>
        /\ failures' = [failures EXCEPT ![k] = 0]
        /\ k \in processing /\ processing' = processing \ {k}
    BY <1>2 DEF FinishItem, Done
  <2>2. LimiterTyped' /\ failures'[k] = 0
        /\ \A l \in Items \ {k} : failures'[l] = failures[l]
    BY <2>1 DEF LimiterTyped
  <2>3. idle[k] = 0 /\ Period \in Nat /\ toResync \in 0..Period
    BY <2>1 DEF IdleInv, DebtInv
  <2>4. Rested(k)' /\ idle[k] <= 2 * Period
    BY <2>1, <2>2, <2>3 DEF Rested
  <2>5. \A l \in Items \ {k} : Rested(l) => Rested(l)'
    BY <2>1, <2>2 DEF Rested
  <2>6. IdleInv'
    BY <2>1, <2>4, <2>5 DEF IdleInv
  <2> QED BY <2>2, <2>6
<1>3. CASE TakeItem
  <2>1. PICK first : first = Head(queue)
    OBVIOUS
  <2>2. /\ UNCHANGED <<failures, delay, toResync>>
        /\ idle' = [idle EXCEPT ![first] = 0]
        /\ dirty' = dirty \ {first} /\ processing' = processing \cup {first}
    BY <1>3, <2>1 DEF TakeItem, Get, limiterVars
  <2>3. first \in Items /\ first \in dirty \ processing
    BY <1>3, <2>1, GetKeepsInv DEF TakeItem
  <2>4. LimiterTyped' /\ idle'[first] = 0
        /\ \A l \in Items \ {first} : idle'[l] = idle[l]
    BY <2>2, <2>3 DEF LimiterTyped
  <2>5. \A l \in Items \ {first} : Rested(l) => Rested(l)'
    BY <2>2, <2>4 DEF Rested
  <2>6. IdleInv'
    BY <2>2, <2>3, <2>4, <2>5 DEF IdleInv
  <2> QED BY <2>4, <2>6
<1> QED BY <1>1, <1>2, <1>3

\* From one sync of a crypt to the next it is for at most two periods neither
\* queued nor held: backoffs do not pile up, because a finished key is forgotten
\* and later additions put nothing off.
THEOREM SyncsStayFresh ==
  ASSUME PeriodSuffices
  PROVE  Spec => []Fresh
<1> USE RateLimiterAssumption, ItemsCounted
<1>1. Init => LimiterTyped /\ IdleInv /\ WQInv
  <2> SUFFICES ASSUME Init PROVE LimiterTyped /\ IdleInv /\ WQInv
    OBVIOUS
  <2>1. LimiterTyped /\ WQInv
    BY WQInitInv DEF Init, LimiterTyped
  <2>2. IdleInv
    BY DEF Init, WQInit, IdleInv, Rested
  <2> QED BY <2>1, <2>2
<1>2. ASSUME LimiterTyped, DebtInv, IdleInv, WQInv, [Next]_vars
      PROVE  LimiterTyped' /\ IdleInv'
  <2>1. FreshInv
    BY <1>2 DEF FreshInv
  <2>2. CASE UNCHANGED vars
    BY <1>2, <2>2 DEF vars, limiterVars, wqVars, LimiterTyped, IdleInv, Rested
  <2>3. ASSUME TakeItem PROVE LimiterTyped' /\ IdleInv'
    <3>1. Head(queue) \in Items
      BY <1>2, <2>3, GetKeepsInv DEF TakeItem
    <3> QED BY <1>2, <2>1, <2>3, <3>1, QueueKeepsFresh
  <2> QED BY <1>2, <2>1, <2>2, <2>3, ResyncKeepsFresh, RequestKeepsFresh,
             TickKeepsFresh, QueueKeepsFresh DEF Next
<1>3. Spec => []DebtInv
  BY DebtInvHolds DEF PeriodSuffices
<1>4. WQInv /\ [Next]_vars => WQInv'
  BY LimitedSteps, WQNextInv
<1>5. ASSUME LimiterTyped, DebtInv, IdleInv PROVE Fresh
  <2>1. ASSUME NEW k \in Items PROVE idle[k] <= 2 * Period
    <3>1. idle[k] \in Nat /\ toResync \in 0..Period /\ delay[k] \in Nat \cup {None}
      BY <1>5 DEF LimiterTyped, DebtInv
    <3> QED BY <1>5, <3>1 DEF IdleInv, Rested
  <2> QED BY <2>1 DEF Fresh
<1> QED BY <1>1, <1>2, <1>3, <1>4, <1>5, PTL DEF Spec
=============================================================================

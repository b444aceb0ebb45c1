---------------------------- MODULE RateLimiter -----------------------------
(***************************************************************************)
(* The delays of the work queue: DefaultControllerRateLimiter under the    *)
(* resyncs of the crypt informer.  Every addition takes a token, and waits *)
(* until the bucket has repaid it, or as long as the key's backoff if that *)
(* is longer.  Time goes in ticks, in each of which the bucket regains one *)
(* token (100 ms).  Extends WorkQueue: a key with a delay is waiting.      *)
(***************************************************************************)
EXTENDS WorkQueue, Integers

CONSTANTS
  Burst,        \* size of the bucket (100)
  Period,       \* ticks from one resync of the crypt informer to the next (100)
  PerTick,      \* base backoffs (5 ms) in a tick (20)
  Cap,          \* longest backoff, in ticks (10000)
  MaxFailures,  \* additions after which the backoff is Cap (18)
  MaxRequests   \* bound of a period's additions that are not a resync's

ASSUME RateLimiterAssumption ==
  /\ IsFiniteSet(Items)
  /\ {Burst, Cap, MaxFailures, MaxRequests} \subseteq Nat
  /\ {Period, PerTick} \subseteq Nat \ {0}

None == -1      \* the delay of a key that is not waiting

VARIABLES
  tokens,       \* in the bucket; below 0 they are owed
  failures,     \* additions of a key since it was last forgotten, at most MaxFailures
  delay,        \* ticks until a waiting key is added to the queue
  toResync,     \* ticks until the informer delivers every crypt again
  requests,     \* additions since the last resync that were not its own
  idle          \* ticks since a worker last took the key, but for those in which
                \* it was queued or held

limiterVars == <<tokens, failures, delay>>
vars == <<limiterVars, toResync, requests, idle, wqVars>>

\* The informer's first list delivers every crypt.
Init ==
  /\ tokens = Burst
  /\ failures = [k \in Items |-> 0]
  /\ delay = [k \in Items |-> None]
  /\ toResync = 0
  /\ requests = 0
  /\ idle = [k \in Items |-> 0]
  /\ WQInit
-----------------------------------------------------------------------------
Larger(a, b) == IF a > b THEN a ELSE b
Smaller(a, b) == IF a < b THEN a ELSE b

\* ItemExponentialFailureRateLimiter, in whole ticks: a base backoff doubles
\* with every failure.
Doubled(n) ==
  LET power[m \in 0..n] == IF m = 0 THEN 1 ELSE 2 * power[m - 1] IN power[n]
Backoff(n) == Smaller(Cap, (Doubled(n) + PerTick - 1) \div PerTick)

\* More failures make no difference.
Failed(k, n) == Smaller(MaxFailures, failures[k] + n)
ASSUME CapAssumption == Backoff(MaxFailures) = Cap

\* MaxOfRateLimiter.When, for an addition that leaves the bucket at left.
When(k, left) == Larger(Backoff(failures[k]), -left)

\* AddAfter: a key that is already waiting keeps its earlier deadline.
Deadline(k, left) ==
  IF delay[k] = None THEN When(k, left) ELSE Smaller(delay[k], When(k, left))

\* enqueueCrypt for one crypt: a watch event or one of the other handlers.
Request(k) ==
  /\ requests < MaxRequests
  /\ AddRateLimited({k})
  /\ requests' = requests + 1
  /\ tokens' = tokens - 1
  /\ delay' = [delay EXCEPT ![k] = Deadline(k, tokens - 1)]
  /\ failures' = [failures EXCEPT ![k] = Failed(k, 1)]
  /\ UNCHANGED <<toResync, idle>>

Places == 1..Cardinality(Items)
Orders == {place \in [Items -> Places] :
             \A k, l \in Items : place[k] = place[l] => k = l}

\* Mutant of Resync: UpdateFunc enqueues the old crypt and the new one.
ResyncOldAndNew ==
  /\ toResync = 0
  /\ AddRateLimited(Items)
  /\ toResync' = Period
  /\ requests' = 0
  /\ tokens' = tokens - 2 * Cardinality(Items)
  /\ \E place \in Orders :
       delay' = [k \in Items |-> Deadline(k, tokens - 2 * place[k] + 1)]
  /\ failures' = [k \in Items |-> Failed(k, 2)]
  /\ UNCHANGED idle

\* The informer calls UpdateFunc for every crypt, in some order.
Resync ==
  /\ toResync = 0
  /\ AddRateLimited(Items)
  /\ toResync' = Period
  /\ requests' = 0
  /\ tokens' = tokens - Cardinality(Items)
  /\ \E place \in Orders :
       delay' = [k \in Items |-> Deadline(k, tokens - place[k])]
  /\ failures' = [k \in Items |-> Failed(k, 1)]
  /\ UNCHANGED idle

\* Timers are prompt; workers may take any time for what is queued.
Tick ==
  /\ toResync > 0
  /\ \A k \in Items : delay[k] # 0
  /\ tokens' = Smaller(Burst, tokens + 1)
  /\ delay' = [k \in Items |-> IF delay[k] = None THEN None ELSE delay[k] - 1]
  /\ toResync' = toResync - 1
  /\ idle' = [k \in Items |-> IF k \in dirty \cup processing THEN idle[k]
                              ELSE idle[k] + 1]
  /\ UNCHANGED <<failures, requests, wqVars>>

RipenDue(k) ==
  /\ delay[k] = 0
  /\ delay' = [delay EXCEPT ![k] = None]
  /\ Ripen(k)
  /\ UNCHANGED <<tokens, failures, toResync, requests, idle>>

TakeItem ==
  /\ UNCHANGED <<limiterVars, toResync, requests>>
  /\ Get
  /\ idle' = [idle EXCEPT ![Head(queue)] = 0]

\* Mutant of FinishItem: the key is not forgotten.
FinishWithoutForget(k) ==
  /\ UNCHANGED <<limiterVars, toResync, requests, idle>>
  /\ Done(k)

\* syncHandler never fails, so the key is always forgotten.
FinishItem(k) ==
  /\ failures' = [failures EXCEPT ![k] = 0]
  /\ UNCHANGED <<tokens, delay, toResync, requests, idle>>
  /\ Done(k)

Next ==
  \/ \E k \in Items : Request(k) \/ RipenDue(k) \/ FinishItem(k)
  \/ Resync \/ Tick \/ TakeItem

Spec == Init /\ [][Next]_vars
-----------------------------------------------------------------------------
(* Properties. *)

\* The debt of the bucket does not grow with the time the process is up, as
\* long as a period repays what its resync and its other additions take: at the
\* real rates, up to 100 crypts and additions in ten seconds.  It is at most what
\* one resync takes, and the other additions of two periods.
DebtBounded == tokens >= Burst - Cardinality(Items) - 2 * MaxRequests

\* README, Behaviour: a changed value reaches the secrets "after a small resync
\* period delay".  Here: from one sync of a crypt to the next at most two periods
\* pass before a worker has it in its queue, whatever the backoffs and the bucket
\* add, and however long the process is up.
Fresh == \A k \in Items : idle[k] <= 2 * Period
=============================================================================

----------------------------- MODULE WorkQueue ------------------------------
(***************************************************************************)
(* The rate-limited work queue the controller is built on (client-go's     *)
(* workqueue.RateLimitingInterface), as controller.go uses it: it only     *)
(* ever adds with AddRateLimited, a worker takes a key with Get and gives  *)
(* it back with Done.  The delay of an addition is abstracted to "some     *)
(* time later": the key waits, then ripens.                                *)
(***************************************************************************)
EXTENDS SequencesExt

CONSTANT Items        \* the keys "namespace/name" of crypts

VARIABLES
  waiting,            \* keys added with a delay that has not elapsed
  queue,              \* keys a worker may take, oldest first
  dirty,              \* keys that need processing
  processing          \* keys a worker holds

wqVars == <<waiting, queue, dirty, processing>>

WQTypeOK ==
  /\ waiting \subseteq Items
  /\ queue \in Seq(Items)
  /\ dirty \subseteq Items
  /\ processing \subseteq Items

WQInit ==
  /\ waiting = {}
  /\ queue = <<>>
  /\ dirty = {}
  /\ processing = {}
-----------------------------------------------------------------------------
\* A key that is already waiting keeps its earlier deadline.
AddRateLimited(keys) ==
  /\ waiting' = waiting \cup keys
  /\ UNCHANGED <<queue, dirty, processing>>

\* Mutant of Ripen: a dirty key is queued once more.
RipenAgain(k) ==
  /\ k \in waiting
  /\ waiting' = waiting \ {k}
  /\ dirty' = dirty \cup {k}
  /\ queue' = IF k \in processing THEN queue ELSE Append(queue, k)
  /\ UNCHANGED processing

\* The delay of k has elapsed, and k is added.  Adding a dirty key is a no-op;
\* a key some worker holds becomes dirty, and is queued again by Done.
Ripen(k) ==
  /\ k \in waiting
  /\ waiting' = waiting \ {k}
  /\ dirty' = dirty \cup {k}
  /\ queue' = IF k \in dirty \cup processing THEN queue ELSE Append(queue, k)
  /\ UNCHANGED processing

\* Get hands out the oldest key: Head(queue).
Get ==
  /\ queue # <<>>
  /\ queue' = Tail(queue)
  /\ dirty' = dirty \ {Head(queue)}
  /\ processing' = processing \cup {Head(queue)}
  /\ UNCHANGED waiting

\* Mutant of Done: a key that became dirty while it was held is forgotten.
DoneForgetsDirty(k) ==
  /\ k \in processing
  /\ processing' = processing \ {k}
  /\ dirty' = dirty \ {k}
  /\ UNCHANGED <<waiting, queue>>

Done(k) ==
  /\ k \in processing
  /\ processing' = processing \ {k}
  /\ queue' = IF k \in dirty THEN Append(queue, k) ELSE queue
  /\ UNCHANGED <<waiting, dirty>>

WQNext ==
  \/ \E keys \in SUBSET Items : AddRateLimited(keys)
  \/ \E k \in Items : Ripen(k) \/ Done(k)
  \/ Get

WQSpec == WQInit /\ [][WQNext]_wqVars
-----------------------------------------------------------------------------
\* The queue holds the dirty keys that nobody holds, each once.
QueueIsDirtyIdle ==
  /\ ToSet(queue) = dirty \ processing
  /\ \A i, j \in 1..Len(queue) : i # j => queue[i] # queue[j]

\* The queue is a pending set: an addition is never forgotten, also when it
\* comes while a worker holds the key, and no key is handed out twice.
PS == INSTANCE PendingSet WITH
        pending <- waiting \cup dirty, active <- processing
ImplementsPendingSet == PS!Spec
=============================================================================

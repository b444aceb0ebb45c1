-------------------------- MODULE InformerFactory ---------------------------
(***************************************************************************)
(* The shared informer factory: goroutines that ask it for informers       *)
(* (InformerFor), start them (Start) and wait for them (WaitForCacheSync), *)
(* under its lock.  A step is a stretch of a call between two reads or     *)
(* writes of what the calls share.  Implements InformerRegistry.           *)
(***************************************************************************)
EXTENDS Naturals

CONSTANTS
  Callers,      \* goroutines that use the factory
  Types,        \* the types of objects
  Nobody        \* holder of the lock when it is free

ASSUME NobodyAssumption == Nobody \notin Callers

VARIABLES
  lock,         \* holder of f.lock
  informers,    \* f.informers: the number of the informer for t, 0 if none
  started,      \* f.startedInformers
  made,         \* informers made so far for t, also those nobody stored
  runs,         \* times Run was called for an informer of t
  synced,       \* types whose informer has synced
  stopped,      \* the stop channel is closed
  call          \* call[c]: where c is in which call

factoryVars == <<informers, started>>
infVars == <<made, runs, synced, stopped>>
vars == <<lock, factoryVars, infVars, call>>

\* types: the one asked for, the ones Start has yet to visit, or the ones
\* WaitForCacheSync has yet to wait for; got: the informer InformerFor returns;
\* found: the types WaitForCacheSync found synced, among those in asked.
Call(pc, op, types) ==
  [pc |-> pc, op |-> op, types |-> types, got |-> 0, asked |-> {}, found |-> {}]

Init ==
  /\ lock = Nobody
  /\ informers = [t \in Types |-> 0]
  /\ started = {}
  /\ made = [t \in Types |-> 0]
  /\ runs = [t \in Types |-> 0]
  /\ synced = {}
  /\ stopped = FALSE
  /\ call = [c \in Callers |-> Call("idle", "none", {})]
-----------------------------------------------------------------------------
At(c, op, pc) == call[c].op = op /\ call[c].pc = pc

Go(c, pc) == call' = [call EXCEPT ![c].pc = pc]

Begin(c) ==
  /\ call[c].pc \in {"idle", "returned"}
  /\ \/ \E t \in Types :
          call' = [call EXCEPT ![c] = Call("lock", "InformerFor", {t})]
     \/ \E op \in {"Start", "WaitForCacheSync"} :
          call' = [call EXCEPT ![c] = Call("lock", op, {})]
  /\ UNCHANGED <<lock, factoryVars, infVars>>

\* Mutant of Lock: a reader's lock, which others may hold as well.
LockShared(c) ==
  /\ call[c].pc = "lock"
  /\ lock' = c
  /\ call' = [call EXCEPT ![c].pc = "locked",
                ![c].types = IF call[c].op = "InformerFor" THEN @
                             ELSE {t \in Types : informers[t] # 0}]
  /\ UNCHANGED <<factoryVars, infVars>>

\* The map that Start and WaitForCacheSync range over is f.informers.
Lock(c) ==
  /\ call[c].pc = "lock" /\ lock = Nobody
  /\ lock' = c
  /\ call' = [call EXCEPT ![c].pc = "locked",
                ![c].types = IF call[c].op = "InformerFor" THEN @
                             ELSE {t \in Types : informers[t] # 0}]
  /\ UNCHANGED <<factoryVars, infVars>>

Lookup(c, t) ==
  /\ At(c, "InformerFor", "locked") /\ t \in call[c].types
  /\ IF informers[t] = 0
     THEN Go(c, "make") /\ UNCHANGED lock
     ELSE /\ call' = [call EXCEPT ![c].pc = "returned", ![c].got = informers[t]]
          /\ lock' = Nobody
  /\ UNCHANGED <<factoryVars, infVars>>

\* newFunc: NewFilteredCryptInformer.
MakeInformer(c, t) ==
  /\ At(c, "InformerFor", "make") /\ t \in call[c].types
  /\ made' = [made EXCEPT ![t] = @ + 1]
  /\ call' = [call EXCEPT ![c].pc = "store", ![c].got = made[t] + 1]
  /\ UNCHANGED <<lock, factoryVars, runs, synced, stopped>>

Store(c, t) ==
  /\ At(c, "InformerFor", "store") /\ t \in call[c].types
  /\ informers' = [informers EXCEPT ![t] = call[c].got]
  /\ Go(c, "returned")
  /\ lock' = Nobody
  /\ UNCHANGED <<started, infVars>>

\* Mutant of StartOne: the informer is not marked as started.
StartOneUnmarked(c, t) ==
  /\ At(c, "Start", "locked") /\ t \in call[c].types
  /\ call' = [call EXCEPT ![c].types = @ \ {t}]
  /\ runs' = [runs EXCEPT ![t] = IF t \in started THEN @ ELSE @ + 1]
  /\ UNCHANGED <<lock, factoryVars, made, synced, stopped>>

StartOne(c, t) ==
  /\ At(c, "Start", "locked") /\ t \in call[c].types
  /\ call' = [call EXCEPT ![c].types = @ \ {t}]
  /\ started' = started \cup {t}
  /\ runs' = [runs EXCEPT ![t] = IF t \in started THEN @ ELSE @ + 1]
  /\ UNCHANGED <<lock, informers, made, synced, stopped>>

EndStart(c) ==
  /\ At(c, "Start", "locked") /\ call[c].types = {}
  /\ Go(c, "returned")
  /\ lock' = Nobody
  /\ UNCHANGED <<factoryVars, infVars>>

\* WaitForCacheSync leaves out what was not started, and gives the lock back
\* before it waits.
Snapshot(c) ==
  /\ At(c, "WaitForCacheSync", "locked")
  /\ lock' = Nobody
  /\ LET asked == call[c].types \cap started IN
     call' = [call EXCEPT ![c].pc = "wait", ![c].types = asked, ![c].asked = asked]
  /\ UNCHANGED <<factoryVars, infVars>>

\* Mutant of AwaitOne: the result of cache.WaitForCacheSync is not looked at.
AwaitOneAnyway(c, t) ==
  /\ At(c, "WaitForCacheSync", "wait") /\ t \in call[c].types
  /\ t \in synced \/ stopped
  /\ call' = [call EXCEPT ![c].types = @ \ {t}, ![c].found = @ \cup {t}]
  /\ UNCHANGED <<lock, factoryVars, infVars>>

\* Mutant of AwaitOne: a caller keeps the lock while it waits.
AwaitOneLocked(c, t) ==
  /\ At(c, "WaitForCacheSync", "wait") /\ t \in call[c].types
  /\ lock \in {c, Nobody}
  /\ IF t \in synced \/ stopped
     THEN call' = [call EXCEPT ![c].types = @ \ {t}] /\ lock' = Nobody
     ELSE lock' = c /\ UNCHANGED call
  /\ UNCHANGED <<factoryVars, infVars>>

\* A poll finds the informer synced, or the stop channel closed.
AwaitOne(c, t) ==
  /\ At(c, "WaitForCacheSync", "wait") /\ t \in call[c].types
  /\ \/ /\ t \in synced
        /\ call' = [call EXCEPT ![c].types = @ \ {t}, ![c].found = @ \cup {t}]
     \/ /\ stopped
        /\ call' = [call EXCEPT ![c].types = @ \ {t}]
  /\ UNCHANGED <<lock, factoryVars, infVars>>

EndWait(c) ==
  /\ At(c, "WaitForCacheSync", "wait") /\ call[c].types = {}
  /\ Go(c, "returned")
  /\ UNCHANGED <<lock, factoryVars, infVars>>

\* A running informer lists its objects, unless it is stopped before.
Sync(t) ==
  /\ runs[t] > 0 /\ t \notin synced /\ ~stopped
  /\ synced' = synced \cup {t}
  /\ UNCHANGED <<lock, factoryVars, made, runs, stopped, call>>

Stop ==
  /\ ~stopped
  /\ stopped' = TRUE
  /\ UNCHANGED <<lock, factoryVars, made, runs, synced, call>>

Proceed(c) ==
  \/ EndStart(c) \/ Snapshot(c) \/ EndWait(c)
  \/ \E t \in Types : \/ Lookup(c, t) \/ MakeInformer(c, t) \/ Store(c, t)
                      \/ StartOne(c, t) \/ AwaitOne(c, t)

Next ==
  \/ \E c \in Callers : Begin(c) \/ Lock(c) \/ Proceed(c)
  \/ \E t \in Types : Sync(t)
  \/ Stop

Spec == Init /\ [][Next]_vars

\* A goroutine runs on, and a mutex of Go does not starve one that waits for it.
\* Nothing is assumed of the API server: an informer may never sync.
FairSpec ==
  Spec /\ \A c \in Callers : WF_vars(Proceed(c)) /\ SF_vars(Lock(c))
-----------------------------------------------------------------------------
(* Properties. *)

\* Every caller gets the one informer that Start will run.
SharedInformer ==
  \A c \in Callers : At(c, "InformerFor", "returned") =>
    \A t \in call[c].types : call[c].got = informers[t] /\ informers[t] # 0

\* WaitForCacheSync says of an informer that it has synced only when it has,
\* and of others only after the stop.
HonestWait ==
  \A c \in Callers : At(c, "WaitForCacheSync", "returned") =>
    call[c].found \subseteq synced /\ (call[c].found # call[c].asked => stopped)

\* No informer is made or run twice, whoever calls InformerFor and Start when.
Registry == INSTANCE InformerRegistry
ImplementsRegistry == Registry!RegistrySpec

\* While one caller waits for a cache that never syncs, the others' calls return.
CallsReturn ==
  \A c \in Callers :
    call[c].pc \in {"lock", "locked"} ~> call[c].pc \in {"wait", "returned"}
=============================================================================

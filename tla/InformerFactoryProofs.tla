----------------------- MODULE InformerFactoryProofs -----------------------
(***************************************************************************)
(* Theorems about InformerFactory, for any goroutines and any types.       *)
(***************************************************************************)
EXTENDS InformerFactory, TLAPS

Pcs == {"idle", "lock", "locked", "make", "store", "wait", "returned"}
Ops == {"none", "InformerFor", "Start", "WaitForCacheSync"}
Calls == [pc : Pcs, op : Ops, types : SUBSET Types, got : Nat,
          asked : SUBSET Types, found : SUBSET Types]

FactoryTyped ==
  /\ informers \in [Types -> {0, 1}]
  /\ started \subseteq Types
  /\ made \in [Types -> {0, 1}]
  /\ runs \in [Types -> {0, 1}]
  /\ synced \subseteq Types
  /\ call \in [Callers -> Calls]

\* Where a call holds the lock.
Locked == {"locked", "make", "store"}
Exclusive == \A c \in Callers : call[c].pc \in Locked => lock = c

\* Only the caller that is about to store an informer has made one that is not
\* stored.
NoneTwice ==
  /\ \A t \in Types :
       \/ made[t] = informers[t]
       \/ \E c \in Callers : call[c].pc = "store" /\ t \in call[c].types
  /\ \A c \in Callers : \A t \in call[c].types :
       /\ call[c].pc = "make" => informers[t] = 0 /\ made[t] = 0
       /\ call[c].pc = "store" =>
            informers[t] = 0 /\ made[t] = 1 /\ call[c].got = 1

\* InformerFor asks for one type, and only it makes and stores.
OneType ==
  \A c \in Callers :
    /\ call[c].op = "InformerFor" => \E t \in Types : call[c].types = {t}
    /\ call[c].pc \in {"make", "store"} => call[c].op = "InformerFor"

\* What runs was stored before and is marked.
RunOnce ==
  /\ \A t \in Types : runs[t] = IF t \in started THEN 1 ELSE 0
  /\ \A t \in started : informers[t] = 1
  /\ \A c \in Callers : At(c, "Start", "locked") =>
       \A t \in call[c].types : informers[t] = 1
  /\ \A t \in synced : runs[t] = 1

\* A wait has found what is synced, has yet to look at the rest, or was stopped.
Waits ==
  \A c \in Callers : call[c].op = "WaitForCacheSync" =>
    /\ call[c].pc \in {"lock", "locked"} => call[c].found = {}
    /\ call[c].pc \in {"wait", "returned"} =>
         /\ call[c].found \subseteq synced \cap call[c].asked
         /\ call[c].types \subseteq call[c].asked
         /\ call[c].found \cup call[c].types # call[c].asked => stopped
    /\ call[c].pc = "returned" => call[c].types = {}

FactoryInv ==
  /\ FactoryTyped /\ Exclusive /\ NoneTwice /\ OneType /\ RunOnce
  /\ Waits /\ SharedInformer

\* A step by which the call of c becomes next, and no other call changes.
Becomes(c, next) ==
  call'[c] = next /\ \A d \in Callers \ {c} : call'[d] = call[d]

\* A call begins outside the lock.
LEMMA BeginStep ==
  ASSUME FactoryInv, NEW c \in Callers, Begin(c)
  PROVE  FactoryInv'
<1>1. PICK op \in Ops, types \in SUBSET Types :
        /\ call' = [call EXCEPT ![c] = Call("lock", op, types)]
        /\ op = "InformerFor" => \E t \in Types : types = {t}
  <2>1. CASE \E t \in Types :
          call' = [call EXCEPT ![c] = Call("lock", "InformerFor", {t})]
    BY <2>1 DEF Ops
  <2>2. CASE \E op \in {"Start", "WaitForCacheSync"} :
          call' = [call EXCEPT ![c] = Call("lock", op, {})]
    <3>1. PICK op \in {"Start", "WaitForCacheSync"} :
            call' = [call EXCEPT ![c] = Call("lock", op, {})]
      BY <2>2
    <3>2. op \in Ops /\ {} \in SUBSET Types /\ op # "InformerFor"
      BY DEF Ops
    <3> QED BY <3>1, <3>2
  <2> QED BY <2>1, <2>2 DEF Begin
<1>2. /\ call'[c].pc = "lock" /\ call'[c].op = op /\ call'[c].types = types
      /\ call'[c].found = {}
      /\ \A d \in Callers \ {c} : call'[d] = call[d]
  BY <1>1 DEF Call, FactoryInv, FactoryTyped
<1>3. Call("lock", op, types) \in Calls
  BY DEF Call, Calls, Pcs
<1>4. UNCHANGED <<lock, informers, started, made, runs, synced, stopped>>
  BY DEF Begin, factoryVars, infVars
<1>5. FactoryTyped'
  BY <1>1, <1>3, <1>4 DEF FactoryInv, FactoryTyped
<1>6. Exclusive' /\ RunOnce' /\ Waits' /\ SharedInformer'
  BY <1>2, <1>4 DEF FactoryInv, Exclusive, RunOnce, Waits, SharedInformer, At,
                    Locked
<1>7. OneType'
  BY <1>1, <1>2 DEF FactoryInv, OneType
<1>8. NoneTwice'
  <2>1. call[c].pc # "store"
    BY DEF Begin
  <2> QED BY <1>2, <1>4, <2>1 DEF FactoryInv, NoneTwice
<1> QED BY <1>5, <1>6, <1>7, <1>8 DEF FactoryInv

\* InformerFor takes its lookup into the lock, Start and WaitForCacheSync the
\* types of all stored informers.
LEMMA LockStep ==
  ASSUME FactoryInv, NEW c \in Callers, Lock(c)
  PROVE  FactoryInv'
<1> DEFINE types == IF call[c].op = "InformerFor" THEN call[c].types
                    ELSE {t \in Types : informers[t] # 0}
<1>1. /\ call[c] \in Calls /\ call[c].pc = "lock" /\ lock = Nobody /\ lock' = c
      /\ UNCHANGED <<informers, started, made, runs, synced, stopped>>
      /\ call' = [call EXCEPT ![c].pc = "locked", ![c].types = types]
  BY DEF Lock, factoryVars, infVars, FactoryInv, FactoryTyped
<1>2. /\ call' \in [Callers -> Calls]
      /\ \A d \in Callers \ {c} : call'[d] = call[d]
      /\ call'[c].pc = "locked" /\ call'[c].op = call[c].op
      /\ call'[c].types = types /\ call'[c].found = call[c].found
  BY <1>1 DEF Calls, Pcs, FactoryInv, FactoryTyped
<1>3. FactoryTyped'
  BY <1>1, <1>2 DEF FactoryInv, FactoryTyped
<1>4. Exclusive'
  BY <1>1, <1>2, NobodyAssumption DEF FactoryInv, Exclusive, Locked
<1>5. NoneTwice'
  BY <1>1, <1>2 DEF FactoryInv, NoneTwice
<1>6. OneType'
  BY <1>1, <1>2 DEF FactoryInv, OneType
<1>7. RunOnce'
  BY <1>1, <1>2 DEF FactoryInv, FactoryTyped, RunOnce, At
<1>8. Waits' /\ SharedInformer'
  BY <1>1, <1>2 DEF FactoryInv, Waits, SharedInformer, At
<1> QED BY <1>3, <1>4, <1>5, <1>6, <1>7, <1>8 DEF FactoryInv

\* The caller in the lock is alone there, and asks for one type.
LEMMA InLock ==
  ASSUME FactoryInv, NEW c \in Callers, call[c].pc \in Locked
  PROVE  /\ lock = c /\ c # Nobody
         /\ \A d \in Callers \ {c} : call[d].pc \notin Locked
BY NobodyAssumption DEF FactoryInv, Exclusive

\* A type is made an informer for only when none is stored, hence none was made.
LEMMA LookupStep ==
  ASSUME FactoryInv, NEW c \in Callers, NEW t \in Types, Lookup(c, t)
  PROVE  FactoryInv'
<1>1. /\ call[c] \in Calls /\ call[c].pc = "locked" /\ call[c].op = "InformerFor"
      /\ call[c].types = {t} /\ informers[t] \in {0, 1}
      /\ UNCHANGED <<informers, started, made, runs, synced, stopped>>
  BY DEF Lookup, factoryVars, infVars, At, FactoryInv, FactoryTyped, OneType
<1>2. /\ lock = c /\ \A d \in Callers \ {c} : call[d].pc \notin Locked
  BY <1>1, InLock DEF Locked
<1>3. CASE informers[t] = 0
  <2>1. lock' = lock /\ call' = [call EXCEPT ![c].pc = "make"]
    BY <1>3 DEF Lookup, Go
  <2>2. /\ call' \in [Callers -> Calls]
        /\ \A d \in Callers \ {c} : call'[d] = call[d]
        /\ call'[c].pc = "make" /\ call'[c].op = call[c].op
        /\ call'[c].types = {t}
    BY <1>1, <2>1 DEF Calls, Pcs, FactoryInv, FactoryTyped
  <2>3. FactoryTyped'
    BY <1>1, <2>2 DEF FactoryInv, FactoryTyped
  <2>4. Exclusive' /\ OneType' /\ RunOnce' /\ Waits' /\ SharedInformer'
    BY <1>1, <1>2, <2>1, <2>2 DEF FactoryInv, Exclusive, Locked, OneType, RunOnce,
                                  Waits, SharedInformer, At
  <2>5. NoneTwice'
    <3>1. made[t] = 0
      BY <1>1, <1>2, <1>3 DEF FactoryInv, NoneTwice, Locked
    <3> QED BY <1>1, <1>3, <2>2, <3>1 DEF FactoryInv, NoneTwice
  <2> QED BY <2>3, <2>4, <2>5 DEF FactoryInv
<1>4. CASE informers[t] # 0
  <2>1. /\ lock' = Nobody /\ informers[t] = 1
        /\ call' = [call EXCEPT ![c].pc = "returned", ![c].got = 1]
    BY <1>1, <1>4 DEF Lookup
  <2>2. /\ call' \in [Callers -> Calls]
        /\ \A d \in Callers \ {c} : call'[d] = call[d]
        /\ call'[c].pc = "returned" /\ call'[c].op = call[c].op
        /\ call'[c].types = {t} /\ call'[c].got = 1
    BY <1>1, <2>1 DEF Calls, Pcs, FactoryInv, FactoryTyped
  <2>3. FactoryTyped'
    BY <1>1, <2>2 DEF FactoryInv, FactoryTyped
  <2>4. Exclusive' /\ OneType' /\ RunOnce' /\ Waits'
    BY <1>1, <1>2, <2>1, <2>2 DEF FactoryInv, Exclusive, Locked, OneType, RunOnce,
                                  Waits, At
  <2>5. NoneTwice' /\ SharedInformer'
    BY <1>1, <2>1, <2>2 DEF FactoryInv, NoneTwice, SharedInformer, At
  <2> QED BY <2>3, <2>4, <2>5 DEF FactoryInv
<1> QED BY <1>3, <1>4

\* The one step that makes an informer registers it.
LEMMA MakeStep ==
  ASSUME FactoryInv, NEW c \in Callers, NEW t \in Types, MakeInformer(c, t)
  PROVE  FactoryInv' /\ Registry!Register(t)
<1>1. /\ call[c] \in Calls /\ call[c].pc = "make" /\ call[c].op = "InformerFor"
      /\ call[c].types = {t} /\ made[t] = 0 /\ informers[t] = 0
      /\ UNCHANGED <<lock, informers, started, runs, synced, stopped>>
  BY DEF MakeInformer, factoryVars, At, FactoryInv, FactoryTyped, OneType,
         NoneTwice
<1>2. /\ lock = c /\ \A d \in Callers \ {c} : call[d].pc \notin Locked
  BY <1>1, InLock DEF Locked
<1>3. /\ made' = [made EXCEPT ![t] = 1]
      /\ call' = [call EXCEPT ![c].pc = "store", ![c].got = 1]
  BY <1>1 DEF MakeInformer
<1>4. /\ call' \in [Callers -> Calls]
      /\ \A d \in Callers \ {c} : call'[d] = call[d]
      /\ call'[c].pc = "store" /\ call'[c].op = call[c].op
      /\ call'[c].types = {t} /\ call'[c].got = 1
  BY <1>1, <1>3 DEF Calls, Pcs, FactoryInv, FactoryTyped
<1>5. FactoryTyped' /\ made'[t] = 1 /\ \A s \in Types \ {t} : made'[s] = made[s]
  BY <1>1, <1>3, <1>4 DEF FactoryInv, FactoryTyped
<1>6. Exclusive' /\ OneType' /\ RunOnce' /\ Waits' /\ SharedInformer'
  BY <1>1, <1>2, <1>4 DEF FactoryInv, Exclusive, Locked, OneType, RunOnce, Waits,
                          SharedInformer, At
<1>7. NoneTwice'
  BY <1>1, <1>2, <1>4, <1>5 DEF FactoryInv, NoneTwice, Locked
<1>8. Registry!Register(t)
  BY <1>1, <1>3 DEF Registry!Register
<1> QED BY <1>5, <1>6, <1>7, <1>8 DEF FactoryInv

\* The informer that was just made becomes the stored one.
LEMMA StoreStep ==
  ASSUME FactoryInv, NEW c \in Callers, NEW t \in Types, Store(c, t)
  PROVE  FactoryInv'
<1>1. /\ call[c] \in Calls /\ call[c].pc = "store" /\ call[c].op = "InformerFor"
      /\ call[c].types = {t} /\ made[t] = 1 /\ informers[t] = 0
      /\ call[c].got = 1
      /\ UNCHANGED <<started, made, runs, synced, stopped>>
  BY DEF Store, infVars, At, FactoryInv, FactoryTyped, OneType, NoneTwice
<1>2. /\ lock = c /\ \A d \in Callers \ {c} : call[d].pc \notin Locked
  BY <1>1, InLock DEF Locked
<1>3. /\ informers' = [informers EXCEPT ![t] = 1] /\ lock' = Nobody
      /\ call' = [call EXCEPT ![c].pc = "returned"]
  BY <1>1 DEF Store, Go
<1>4. /\ call' \in [Callers -> Calls]
      /\ \A d \in Callers \ {c} : call'[d] = call[d]
      /\ call'[c].pc = "returned" /\ call'[c].op = call[c].op
      /\ call'[c].types = {t} /\ call'[c].got = 1
  BY <1>1, <1>3 DEF Calls, Pcs, FactoryInv, FactoryTyped
<1>5. /\ FactoryTyped' /\ informers'[t] = 1
      /\ \A s \in Types \ {t} : informers'[s] = informers[s]
  BY <1>1, <1>3, <1>4 DEF FactoryInv, FactoryTyped
<1>6. Exclusive' /\ OneType' /\ Waits'
  BY <1>1, <1>2, <1>3, <1>4 DEF FactoryInv, Exclusive, Locked, OneType, Waits
<1>7. NoneTwice'
  BY <1>1, <1>2, <1>4, <1>5 DEF FactoryInv, NoneTwice, Locked
<1>8. RunOnce'
  BY <1>1, <1>4, <1>5 DEF FactoryInv, FactoryTyped, Calls, RunOnce, At
<1>9. SharedInformer'
  BY <1>1, <1>4, <1>5 DEF FactoryInv, FactoryTyped, Calls, SharedInformer, At
<1> QED BY <1>5, <1>6, <1>7, <1>8, <1>9 DEF FactoryInv

\* StartOne runs the informer of t once, or finds it started.
LEMMA StartStep ==
  ASSUME FactoryInv, NEW c \in Callers, NEW t \in Types, StartOne(c, t)
  PROVE  FactoryInv' /\ (Registry!Launch({t}) \/ UNCHANGED Registry!registryVars)
<1>1. /\ call[c] \in Calls /\ call[c].pc = "locked" /\ call[c].op = "Start"
      /\ t \in call[c].types /\ informers[t] = 1
      /\ UNCHANGED <<lock, informers, made, synced, stopped>>
  BY DEF StartOne, At, FactoryInv, FactoryTyped, RunOnce
<1>2. lock = c /\ \A d \in Callers \ {c} : call[d].pc \notin Locked
  BY <1>1, InLock DEF Locked
<1>3. made[t] = 1
  <2>1. ~ \E d \in Callers : call[d].pc = "store" /\ t \in call[d].types
    BY <1>1, <1>2 DEF Locked
  <2> QED BY <1>1, <2>1 DEF FactoryInv, NoneTwice
<1>4. call' = [call EXCEPT ![c].types = call[c].types \ {t}]
  BY DEF StartOne
<1>5. /\ call' \in [Callers -> Calls]
      /\ \A d \in Callers \ {c} : call'[d] = call[d]
      /\ call'[c].pc = "locked" /\ call'[c].op = call[c].op
      /\ call'[c].types = call[c].types \ {t}
  BY <1>1, <1>4 DEF Calls, FactoryInv, FactoryTyped
<1>6. started' = started \cup {t} /\ runs' = [runs EXCEPT ![t] = 1]
  <2>1. CASE t \in started
    <3>1. runs[t] = 1
      BY <2>1 DEF FactoryInv, RunOnce
    <3> QED BY <2>1, <3>1 DEF StartOne
  <2>2. CASE t \notin started
    <3>1. runs[t] = 0
      BY <2>2 DEF FactoryInv, RunOnce
    <3> QED BY <2>2, <3>1 DEF StartOne
  <2> QED BY <2>1, <2>2
<1>7. FactoryTyped' /\ runs'[t] = 1 /\ \A s \in Types \ {t} : runs'[s] = runs[s]
  BY <1>1, <1>5, <1>6 DEF FactoryInv, FactoryTyped
<1>8. Exclusive' /\ OneType' /\ NoneTwice' /\ Waits' /\ SharedInformer'
  BY <1>1, <1>2, <1>5 DEF FactoryInv, Exclusive, Locked, OneType, NoneTwice,
                          Waits, SharedInformer, At
<1>9. RunOnce'
  BY <1>1, <1>5, <1>6, <1>7 DEF FactoryInv, FactoryTyped, RunOnce, At
<1>10. CASE t \in started
  <2>1. runs[t] = 1
    BY <1>10 DEF FactoryInv, RunOnce
  <2>2. runs' = runs
    BY <1>6, <2>1 DEF FactoryInv, FactoryTyped
  <2> QED BY <1>1, <1>7, <1>8, <1>9, <2>2 DEF FactoryInv, Registry!registryVars
<1>11. CASE t \notin started
  <2>1. runs[t] = 0
    BY <1>11 DEF FactoryInv, RunOnce
  <2>2. runs' = [s \in Types |-> IF s \in {t} THEN 1 ELSE runs[s]]
    BY <1>6 DEF FactoryInv, FactoryTyped
  <2>3. Registry!Launch({t})
    BY <1>1, <1>3, <2>1, <2>2 DEF Registry!Launch
  <2> QED BY <1>7, <1>8, <1>9, <2>3 DEF FactoryInv
<1> QED BY <1>10, <1>11

\* Start ends as it left the informers.
LEMMA EndStartStep ==
  ASSUME FactoryInv, NEW c \in Callers, EndStart(c)
  PROVE  FactoryInv'
<1>1. /\ call[c] \in Calls /\ call[c].pc = "locked" /\ call[c].op = "Start"
      /\ UNCHANGED <<informers, started, made, runs, synced, stopped>>
      /\ lock' = Nobody /\ call' = [call EXCEPT ![c].pc = "returned"]
  BY DEF EndStart, Go, At, factoryVars, infVars, FactoryInv, FactoryTyped
<1>2. lock = c /\ \A d \in Callers \ {c} : call[d].pc \notin Locked
  BY <1>1, InLock DEF Locked
<1>3. /\ call' \in [Callers -> Calls]
      /\ \A d \in Callers \ {c} : call'[d] = call[d]
      /\ call'[c].pc = "returned" /\ call'[c].op = "Start"
      /\ call'[c].types = call[c].types
  BY <1>1 DEF Calls, Pcs, FactoryInv, FactoryTyped
<1>4. FactoryTyped'
  BY <1>1, <1>3 DEF FactoryInv, FactoryTyped
<1>5. Exclusive' /\ OneType' /\ NoneTwice' /\ RunOnce' /\ Waits' /\ SharedInformer'
  BY <1>1, <1>2, <1>3 DEF FactoryInv, Exclusive, Locked, OneType, NoneTwice,
                          RunOnce, Waits, SharedInformer, At
<1> QED BY <1>4, <1>5 DEF FactoryInv

\* WaitForCacheSync looks at the informers that are started.
LEMMA SnapshotStep ==
  ASSUME FactoryInv, NEW c \in Callers, Snapshot(c)
  PROVE  FactoryInv'
<1> DEFINE asked == call[c].types \cap started
<1>1. /\ call[c] \in Calls /\ call[c].pc = "locked"
      /\ call[c].op = "WaitForCacheSync"
      /\ UNCHANGED <<informers, started, made, runs, synced, stopped>>
      /\ lock' = Nobody
      /\ call' = [call EXCEPT ![c].pc = "wait", ![c].types = asked,
                              ![c].asked = asked]
  BY DEF Snapshot, At, factoryVars, infVars, FactoryInv, FactoryTyped
<1>2. lock = c /\ \A d \in Callers \ {c} : call[d].pc \notin Locked
  BY <1>1, InLock DEF Locked
<1>3. asked \in SUBSET Types
  BY <1>1 DEF Calls
<1>4. /\ call' \in [Callers -> Calls]
      /\ \A d \in Callers \ {c} : call'[d] = call[d]
      /\ call'[c].pc = "wait" /\ call'[c].op = "WaitForCacheSync"
      /\ call'[c].types = asked /\ call'[c].asked = asked
      /\ call'[c].found = call[c].found
  <2> HIDE DEF asked
  <2> QED BY <1>1, <1>3 DEF Calls, Pcs, FactoryInv, FactoryTyped
<1>5. FactoryTyped'
  BY <1>1, <1>4 DEF FactoryInv, FactoryTyped
<1>6. Exclusive' /\ OneType' /\ NoneTwice' /\ RunOnce' /\ SharedInformer'
  BY <1>1, <1>2, <1>4 DEF FactoryInv, Exclusive, Locked, OneType, NoneTwice,
                          RunOnce, SharedInformer, At
<1>7. Waits'
  BY <1>1, <1>4 DEF FactoryInv, Waits
<1> QED BY <1>5, <1>6, <1>7 DEF FactoryInv

\* A type leaves the wait synced, or because of the stop.
LEMMA AwaitStep ==
  ASSUME FactoryInv, NEW c \in Callers, NEW t \in Types, AwaitOne(c, t)
  PROVE  FactoryInv'
<1>1. /\ call[c] \in Calls /\ call[c].pc = "wait"
      /\ call[c].op = "WaitForCacheSync" /\ t \in call[c].types
      /\ UNCHANGED <<lock, informers, started, made, runs, synced, stopped>>
  BY DEF AwaitOne, At, factoryVars, infVars, FactoryInv, FactoryTyped
<1>2. PICK found \in {call[c].found, call[c].found \cup {t}} :
        /\ call' = [call EXCEPT ![c].types = call[c].types \ {t},
                                ![c].found = found]
        /\ \/ found = call[c].found \cup {t} /\ t \in synced
           \/ found = call[c].found /\ stopped
  <2>1. CASE /\ t \in synced
             /\ call' = [call EXCEPT ![c].types = @ \ {t},
                                     ![c].found = @ \cup {t}]
    BY <2>1
  <2>2. CASE stopped /\ call' = [call EXCEPT ![c].types = @ \ {t}]
    <3>1. call' = [call EXCEPT ![c].types = call[c].types \ {t},
                               ![c].found = call[c].found]
      BY <1>1, <2>2 DEF Calls, FactoryInv, FactoryTyped
    <3> QED BY <2>2, <3>1
  <2> QED BY <2>1, <2>2 DEF AwaitOne
<1>3. found \in SUBSET Types
  BY <1>1 DEF Calls
<1>4. /\ call' \in [Callers -> Calls]
      /\ \A d \in Callers \ {c} : call'[d] = call[d]
      /\ call'[c].pc = "wait" /\ call'[c].op = "WaitForCacheSync"
      /\ call'[c].types = call[c].types \ {t} /\ call'[c].found = found
      /\ call'[c].asked = call[c].asked
  BY <1>1, <1>2, <1>3 DEF Calls, FactoryInv, FactoryTyped
<1>5. FactoryTyped'
  BY <1>1, <1>4 DEF FactoryInv, FactoryTyped
<1>6. Exclusive' /\ OneType' /\ NoneTwice' /\ RunOnce' /\ SharedInformer'
  BY <1>1, <1>4 DEF FactoryInv, Exclusive, Locked, OneType, NoneTwice, RunOnce,
                    SharedInformer, At
<1>7. Waits'
  <2>1. /\ call[c].found \subseteq synced \cap call[c].asked
        /\ call[c].types \subseteq call[c].asked
        /\ call[c].found \cup call[c].types # call[c].asked => stopped
    BY <1>1 DEF FactoryInv, Waits
  <2>2. /\ found \subseteq synced \cap call[c].asked
        /\ call[c].types \ {t} \subseteq call[c].asked
        /\ found \cup (call[c].types \ {t}) # call[c].asked => stopped
    BY <1>1, <1>2, <2>1
  <2> QED BY <1>1, <1>4, <2>2 DEF FactoryInv, Waits
<1> QED BY <1>5, <1>6, <1>7 DEF FactoryInv

\* A wait returns with no type left to look at.
LEMMA EndWaitStep ==
  ASSUME FactoryInv, NEW c \in Callers, EndWait(c)
  PROVE  FactoryInv'
<1>1. /\ call[c] \in Calls /\ call[c].pc = "wait"
      /\ call[c].op = "WaitForCacheSync" /\ call[c].types = {}
      /\ UNCHANGED <<lock, informers, started, made, runs, synced, stopped>>
      /\ call' = [call EXCEPT ![c].pc = "returned"]
  BY DEF EndWait, Go, At, factoryVars, infVars, FactoryInv, FactoryTyped
<1>2. /\ call' \in [Callers -> Calls]
      /\ \A d \in Callers \ {c} : call'[d] = call[d]
      /\ call'[c].pc = "returned" /\ call'[c].op = "WaitForCacheSync"
      /\ call'[c].types = {} /\ call'[c].found = call[c].found
      /\ call'[c].asked = call[c].asked
  BY <1>1 DEF Calls, Pcs, FactoryInv, FactoryTyped
<1>3. FactoryTyped'
  BY <1>1, <1>2 DEF FactoryInv, FactoryTyped
<1>4. Exclusive' /\ OneType' /\ NoneTwice' /\ RunOnce' /\ Waits' /\ SharedInformer'
  BY <1>1, <1>2 DEF FactoryInv, Exclusive, Locked, OneType, NoneTwice, RunOnce,
                    Waits, SharedInformer, At
<1> QED BY <1>3, <1>4 DEF FactoryInv

\* The stop and an informer that syncs disturb no call.
LEMMA OutsideSteps ==
  ASSUME FactoryInv
  PROVE  /\ Stop => FactoryInv'
         /\ \A t \in Types : Sync(t) => FactoryInv' /\ Registry!Sync(t)
<1> USE DEF FactoryInv, FactoryTyped, Exclusive, Locked, OneType, NoneTwice,
            RunOnce, Waits, SharedInformer, At, factoryVars
<1>1. ASSUME Stop PROVE FactoryInv'
  BY <1>1 DEF Stop
<1>2. ASSUME NEW t \in Types, Sync(t) PROVE FactoryInv' /\ Registry!Sync(t)
  <2>1. runs[t] = 1
    BY <1>2 DEF Sync
  <2> QED BY <1>2, <2>1 DEF Sync, Registry!Sync
<1> QED BY <1>1, <1>2

\* The factory begins empty and every caller idle.
LEMMA InitHolds == Init => FactoryInv
<1> SUFFICES ASSUME Init PROVE FactoryInv
  OBVIOUS
<1>1. \A c \in Callers : call[c] = Call("idle", "none", {})
  BY DEF Init
<1>2. Call("idle", "none", {}) \in Calls
  BY DEF Call, Calls, Pcs, Ops
<1>3. FactoryTyped
  BY <1>2 DEF Init, FactoryTyped
<1>4. Exclusive /\ OneType /\ NoneTwice /\ RunOnce /\ Waits /\ SharedInformer
  BY <1>1 DEF Init, Call, Exclusive, Locked, OneType, NoneTwice, RunOnce, Waits,
              SharedInformer, At
<1> QED BY <1>3, <1>4 DEF FactoryInv

\* Every step keeps the invariant and is one of the registry, or none.
LEMMA Steps ==
  ASSUME FactoryInv, [Next]_vars
  PROVE  FactoryInv' /\ [Registry!RegistryNext]_(Registry!registryVars)
<1> USE DEF Registry!RegistryNext, Registry!registryVars
<1>1. ASSUME NEW c \in Callers, Begin(c) \/ Lock(c) \/ EndStart(c) \/ Snapshot(c)
                                 \/ EndWait(c)
      PROVE  FactoryInv' /\ UNCHANGED Registry!registryVars
  <2>1. UNCHANGED <<made, runs, synced>>
    BY <1>1 DEF Begin, Lock, EndStart, Snapshot, EndWait, infVars
  <2> QED BY <1>1, <2>1, BeginStep, LockStep, EndStartStep, SnapshotStep,
             EndWaitStep
<1>2. ASSUME NEW c \in Callers, NEW t \in Types,
             Lookup(c, t) \/ Store(c, t) \/ AwaitOne(c, t)
      PROVE  FactoryInv' /\ UNCHANGED Registry!registryVars
  <2>1. UNCHANGED <<made, runs, synced>>
    BY <1>2 DEF Lookup, Store, AwaitOne, infVars
  <2> QED BY <1>2, <2>1, LookupStep, StoreStep, AwaitStep
<1>3. ASSUME NEW c \in Callers, NEW t \in Types, MakeInformer(c, t)
      PROVE  FactoryInv' /\ Registry!RegistryNext
  BY <1>3, MakeStep
<1>4. ASSUME NEW c \in Callers, NEW t \in Types, StartOne(c, t)
      PROVE  FactoryInv' /\ [Registry!RegistryNext]_(Registry!registryVars)
  <2>1. {t} \in SUBSET Types
    OBVIOUS
  <2> QED BY <1>4, <2>1, StartStep
<1>5. ASSUME NEW t \in Types, Sync(t) PROVE FactoryInv' /\ Registry!RegistryNext
  BY <1>5, OutsideSteps
<1>6. CASE Stop
  BY <1>6, OutsideSteps DEF Stop
<1>7. CASE UNCHANGED vars
  BY <1>7 DEF vars, factoryVars, infVars, FactoryInv, FactoryTyped, Exclusive,
              Locked, OneType, NoneTwice, RunOnce, Waits, SharedInformer, At
<1> QED BY <1>1, <1>2, <1>3, <1>4, <1>5, <1>6, <1>7 DEF Next, Proceed

\* The invariant of all calls, by induction over the steps.
LEMMA InvHolds == Spec => []FactoryInv
BY InitHolds, Steps, PTL DEF Spec

\* Whoever asks for the informer of a type, and whenever, gets the one that
\* Start runs.
THEOREM InformersShared == Spec => []SharedInformer
<1>1. FactoryInv => SharedInformer
  BY DEF FactoryInv
<1> QED BY <1>1, InvHolds, PTL

\* WaitForCacheSync never takes a cache for synced that is not.
THEOREM WaitsHonest == Spec => []HonestWait
<1>1. FactoryInv => HonestWait
  BY DEF FactoryInv, Waits, HonestWait, At
<1> QED BY <1>1, InvHolds, PTL

\* The factory makes one informer for each type and runs it once.
THEOREM FactoryImplementsRegistry == Spec => ImplementsRegistry
<1>1. Init => Registry!RegistryInit
  BY DEF Init, Registry!RegistryInit
<1> QED
  BY <1>1, Steps, InvHolds, PTL DEF Spec, ImplementsRegistry, Registry!RegistrySpec
=============================================================================

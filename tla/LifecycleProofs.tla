-------------------------- MODULE LifecycleProofs --------------------------
(***************************************************************************)
(* Theorems about Lifecycle, for any number of workers.                    *)
(***************************************************************************)
EXTENDS Lifecycle, TLAPS

\* Where main is when each factory has been started.
KubeStarted == {"start crypt", "run", "wait for caches", "start workers", "serve"}
AllStarted == KubeStarted \ {"start crypt"}

RegistryTyped ==
  /\ made \in [Types -> {0, 1}]
  /\ runs \in [Types -> {0, 1}]
  /\ synced \subseteq Types
  /\ worker \in [Workers -> {"none", "idle", "syncing"}]

\* Workers exist only after StartWorkers, which only CachesSynced leads to.
WorkersLast ==
  /\ main \in {"start workers", "serve"} => synced = Types
  /\ main # "serve" => \A w \in Workers : worker[w] = "none"

\* New has registered every type before the first Start, and each Start runs
\* what is registered.
StartedInOrder ==
  /\ main \in KubeStarted \cup {"start kube"} => \A t \in Types : made[t] = 1
  /\ main \in KubeStarted => \A t \in Kube : runs[t] = 1
  /\ main \in AllStarted => \A t \in Crypt : runs[t] = 1

LifecycleInv == RegistryTyped /\ WorkersLast /\ StartedInOrder

\* The process begins with nothing registered and no worker.
LEMMA InvInit == Init => LifecycleInv
BY DEF Init, R!RegistryInit, LifecycleInv, RegistryTyped, WorkersLast,
       StartedInOrder, KubeStarted, AllStarted, Types, Kube, Crypt

\* Steps that change neither main, nor the workers, nor the registry.
LEMMA OutsideSteps ==
  LifecycleInv /\ UNCHANGED <<main, worker, registryVars>> => LifecycleInv'
BY DEF registryVars, LifecycleInv, RegistryTyped, WorkersLast, StartedInOrder,
       KubeStarted, AllStarted, Types, Kube, Crypt

\* main starts the workers last, after the two factories in their order.
LEMMA MainSteps == LifecycleInv /\ MainStep => LifecycleInv'
<1> SUFFICES ASSUME LifecycleInv, MainStep PROVE LifecycleInv'
  OBVIOUS
<1> USE DEF LifecycleInv, RegistryTyped, WorkersLast, StartedInOrder,
            KubeStarted, AllStarted, MainTo, registryVars
<1>1. CASE ParseFlags \/ MakeStore \/ MakeClients \/ New \/ Run \/ CachesNotSynced
              \/ Stopped
  BY <1>1 DEF ParseFlags, MakeStore, MakeClients, New, Run, CachesNotSynced,
              Stopped, Exit
<1>2. ASSUME NEW t \in Types, NewInformer(t) PROVE LifecycleInv'
  BY <1>2 DEF NewInformer, R!Register
<1>3. CASE StartInformers(Kube, "start kube", "start crypt")
  BY <1>3 DEF StartInformers, R!Launch, Types, Kube, Crypt
<1>4. CASE StartInformers(Crypt, "start crypt", "run")
  BY <1>4 DEF StartInformers, R!Launch, Types, Kube, Crypt
<1>5. CASE CachesSynced
  BY <1>5 DEF CachesSynced
<1>6. CASE StartWorkers
  BY <1>6 DEF StartWorkers
<1> QED
  BY <1>1, <1>2, <1>3, <1>4, <1>5, <1>6 DEF MainStep

\* Informers, workers and the wait of Run move only what was started.
LEMMA OtherSteps ==
  ASSUME LifecycleInv, Next, ~MainStep
  PROVE  LifecycleInv'
<1>1. CASE Fatal \/ Timeout \/ SignalStep \/ Signal \/ Enqueue
  <2>1. UNCHANGED <<main, worker, registryVars>>
    BY <1>1 DEF Fatal, Exit, Timeout, SignalStep, Notify, Receive, CloseStop,
                ReceiveAgain, ExitAtOnce, SignalsTo, Signal, Enqueue
  <2> QED BY <2>1, OutsideSteps
<1>2. ASSUME NEW t \in Types, SyncCache(t) PROVE LifecycleInv'
  BY <1>2 DEF SyncCache, R!Sync, LifecycleInv, RegistryTyped, WorkersLast,
              StartedInOrder
<1>3. ASSUME NEW w \in Workers, TakeItem(w) \/ FinishItem(w) PROVE LifecycleInv'
  BY <1>3 DEF TakeItem, FinishItem, registryVars, LifecycleInv, RegistryTyped,
              WorkersLast, StartedInOrder
<1> QED BY <1>1, <1>2, <1>3 DEF Next

\* The invariant of the life cycle, by induction over the steps.
LEMMA InvHolds == Spec => []LifecycleInv
<1>1. ASSUME LifecycleInv, [Next]_vars PROVE LifecycleInv'
  <2>1. CASE UNCHANGED vars
    BY <1>1, <2>1, OutsideSteps DEF vars
  <2> QED BY <1>1, <2>1, MainSteps, OtherSteps
<1> QED BY <1>1, InvInit, PTL DEF Spec

\* No worker exists before every cache holds its first list.
THEOREM CachesComeFirst == Spec => []CachesFirst
<1>1. LifecycleInv => CachesFirst
  BY DEF LifecycleInv, WorkersLast, CachesFirst
<1> QED BY <1>1, InvHolds, PTL

\* Run waits only for caches whose informers were started.
THEOREM AwaitedRun == Spec => []AwaitedInformersRun
<1>1. LifecycleInv => AwaitedInformersRun
  BY DEF LifecycleInv, StartedInOrder, AwaitedInformersRun, KubeStarted,
         AllStarted, Types
<1> QED BY <1>1, InvHolds, PTL
=============================================================================

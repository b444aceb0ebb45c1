----------------------------- MODULE Lifecycle ------------------------------
(***************************************************************************)
(* The process from main to its exit: start-up, the goroutine that waits   *)
(* for signals, the one that ends the wait for the caches, the workers,    *)
(* and the ways to exit.  Composes InformerRegistry; the queue is counted, *)
(* a sync is one held item.                                                *)
(***************************************************************************)
EXTENDS Naturals, FiniteSets

CONSTANTS
  Workers,        \* the goroutines Run starts
  MaxQueue        \* bound of the items in the queue

ASSUME MaxQueueAssumption == MaxQueue \in Nat

Kube == {"namespaces", "secrets"}       \* types of kubeInformerFactory
Crypt == {"crypts"}                     \* types of cryptInformerFactory
Types == Kube \cup Crypt

VARIABLES
  main,           \* where main, and Run within it, is
  signals,        \* where the goroutine that handles signals is
  stop,           \* the stop channel is closed
  timeout,        \* the goroutine of timeoutChan: "none", "waiting", "closed"
  queue,          \* items in the work queue
  worker,         \* worker[w]: "none", "idle" or "syncing"
  exit,           \* how the process ended
  made, runs, synced                    \* as in InformerRegistry

registryVars == <<made, runs, synced>>
vars == <<main, signals, stop, timeout, queue, worker, exit, registryVars>>

R == INSTANCE InformerRegistry

Init ==
  /\ main = "flags"
  /\ signals = "none"
  /\ stop = FALSE
  /\ timeout = "none"
  /\ queue = 0
  /\ worker = [w \in Workers |-> "none"]
  /\ exit = "none"
  /\ R!RegistryInit
-----------------------------------------------------------------------------
Up == exit = "none"

\* main goes from one place to the next.
MainTo(from, to) == Up /\ main = from /\ main' = to

\* The end of the process ends every goroutine where it is.
Exit(how) == Up /\ exit' = how /\ UNCHANGED <<main, signals, stop, timeout,
                                              queue, worker, registryVars>>

ParseFlags ==
  /\ MainTo("flags", "store")
  /\ signals' = "start"
  /\ UNCHANGED <<stop, timeout, queue, worker, exit, registryVars>>

\* log.Fatal: no store type, no store of this type, or no client.
Fatal == main \in {"store", "clients"} /\ Exit("fatal")

MakeStore ==
  /\ MainTo("store", "clients")
  /\ UNCHANGED <<signals, stop, timeout, queue, worker, exit, registryVars>>

MakeClients ==
  /\ MainTo("clients", "new")
  /\ UNCHANGED <<signals, stop, timeout, queue, worker, exit, registryVars>>

\* Each Informer() and Lister() of a type asks its factory for the informer.
NewInformer(t) ==
  /\ Up /\ main = "new"
  /\ R!Register(t)
  /\ UNCHANGED <<main, signals, stop, timeout, queue, worker, exit>>

\* Mutant of New: returns when the crypt informer is registered.
NewWithCryptsOnly ==
  /\ MainTo("new", "start kube") /\ made["crypts"] = 1
  /\ UNCHANGED <<signals, stop, timeout, queue, worker, exit, registryVars>>

New ==
  /\ MainTo("new", "start kube") /\ \A t \in Types : made[t] = 1
  /\ UNCHANGED <<signals, stop, timeout, queue, worker, exit, registryVars>>

StartInformers(types, from, to) ==
  /\ MainTo(from, to)
  /\ R!Launch({t \in types : made[t] = 1 /\ runs[t] = 0})
  /\ UNCHANGED <<signals, stop, timeout, queue, worker, exit>>

\* The goroutine of timeoutChan starts.
Run ==
  /\ MainTo("run", "wait for caches")
  /\ timeout' = "waiting"
  /\ UNCHANGED <<signals, stop, queue, worker, exit, registryVars>>

\* The select returns when stopChan is closed or five minutes have passed.
Timeout ==
  /\ Up /\ timeout = "waiting"
  /\ timeout' = "closed"
  /\ UNCHANGED <<main, signals, stop, queue, worker, exit, registryVars>>

\* Mutant of CachesSynced: the secrets are not waited for.
CachesSyncedButSecrets ==
  /\ MainTo("wait for caches", "start workers")
  /\ Types \ {"secrets"} \subseteq synced
  /\ UNCHANGED <<signals, stop, timeout, queue, worker, exit, registryVars>>

CachesSynced ==
  /\ MainTo("wait for caches", "start workers")
  /\ Types \subseteq synced
  /\ UNCHANGED <<signals, stop, timeout, queue, worker, exit, registryVars>>

\* Mutant of CachesNotSynced: stopChan is waited on, not timeoutChan.
CachesNotSyncedOnStop ==
  main = "wait for caches" /\ stop /\ Exit("fatal")

\* WaitForCacheSync may find its channel closed although the caches are synced:
\* it looks at them every 100 ms.
CachesNotSynced ==
  main = "wait for caches" /\ timeout = "closed" /\ Exit("fatal")

StartWorkers ==
  /\ MainTo("start workers", "serve")
  /\ worker' = [w \in Workers |-> "idle"]
  /\ UNCHANGED <<signals, stop, timeout, queue, exit, registryVars>>

\* Mutant of Stopped: Run waits for the workers.
StoppedGracefully ==
  /\ main = "serve" /\ stop
  /\ \A w \in Workers : worker[w] # "syncing"
  /\ Exit("success")

\* Run returns when stopChan is closed, and so does main.
Stopped == main = "serve" /\ stop /\ Exit("success")
-----------------------------------------------------------------------------
\* The channel has no buffer: a signal is lost when nobody receives from it.
SignalsTo(from, to) ==
  /\ Up /\ signals = from /\ signals' = to
  /\ UNCHANGED <<main, timeout, queue, worker, exit, registryVars>>

Notify == SignalsTo("start", "notified") /\ UNCHANGED stop
Receive == SignalsTo("notified", "receiving") /\ UNCHANGED stop

\* Mutant of CloseStop: the goroutine returns and leaves the channel open.
CloseStopForgotten == SignalsTo("received", "returned") /\ UNCHANGED stop

CloseStop == SignalsTo("received", "closed") /\ stop' = TRUE
ReceiveAgain == SignalsTo("closed", "receiving again") /\ UNCHANGED stop
ExitAtOnce == signals = "received again" /\ Exit("failure")

\* SIGTERM, SIGQUIT or SIGINT; before Notify the process dies of it.
Signal ==
  \/ SignalsTo("receiving", "received") /\ UNCHANGED stop
  \/ SignalsTo("receiving again", "received again") /\ UNCHANGED stop
  \/ signals \in {"none", "start"} /\ Exit("killed")
-----------------------------------------------------------------------------
\* An informer runs until the stop channel is closed.
SyncCache(t) ==
  /\ Up /\ ~stop
  /\ R!Sync(t)
  /\ UNCHANGED <<main, signals, stop, timeout, queue, worker, exit>>

\* A handler of a running informer enqueues a crypt: before the workers, too.
Enqueue ==
  /\ Up /\ queue < MaxQueue /\ \E t \in Types : runs[t] = 1
  /\ queue' = queue + 1
  /\ UNCHANGED <<main, signals, stop, timeout, worker, exit, registryVars>>

\* Run does not wait for the workers: they go on until the process ends.
TakeItem(w) ==
  /\ Up /\ worker[w] = "idle" /\ queue > 0
  /\ queue' = queue - 1
  /\ worker' = [worker EXCEPT ![w] = "syncing"]
  /\ UNCHANGED <<main, signals, stop, timeout, exit, registryVars>>

FinishItem(w) ==
  /\ Up /\ worker[w] = "syncing"
  /\ worker' = [worker EXCEPT ![w] = "idle"]
  /\ UNCHANGED <<main, signals, stop, timeout, queue, exit, registryVars>>

MainStep ==
  \/ ParseFlags \/ MakeStore \/ MakeClients \/ New
  \/ \E t \in Types : NewInformer(t)
  \/ StartInformers(Kube, "start kube", "start crypt")
  \/ StartInformers(Crypt, "start crypt", "run")
  \/ Run \/ CachesSynced \/ CachesNotSynced \/ StartWorkers \/ Stopped

SignalStep == Notify \/ Receive \/ CloseStop \/ ReceiveAgain \/ ExitAtOnce

Next ==
  \/ MainStep \/ Fatal \/ Timeout \/ SignalStep \/ Signal \/ Enqueue
  \/ \E t \in Types : SyncCache(t)
  \/ \E w \in Workers : TakeItem(w) \/ FinishItem(w)

Spec == Init /\ [][Next]_vars

\* Goroutines run on, and five minutes pass.  Nothing is assumed of the API
\* server: a cache may never sync, and a sync may hang in a call.
FairSpec ==
  Spec /\ WF_vars(MainStep) /\ WF_vars(Timeout) /\ WF_vars(SignalStep)
-----------------------------------------------------------------------------
(* Properties. *)

\* A sync reads listers and must never see a cache that is not filled yet: a
\* worker exists only once every cache is synced.
CachesFirst == \A w \in Workers : worker[w] # "none" => synced = Types

\* Start runs only the informers that were asked for before: every cache Run
\* waits for belongs to an informer that runs.
AwaitedInformersRun ==
  main \in {"run", "wait for caches", "start workers", "serve"} =>
    \A t \in Types : runs[t] = 1

\* Whatever the API server does, start-up ends: the workers run or the process
\* has exited, so that it is restarted.
StartUpEnds == <>(main = "serve" \/ ~Up)

\* Once the stop channel is closed the process ends, also when a worker hangs.
StopEnds == stop ~> ~Up

\* A process that somebody goes on telling to stop does, although it loses the
\* signals that come while it is not receiving.
InsistenceEnds == WF_vars(Signal) => <>~Up
=============================================================================

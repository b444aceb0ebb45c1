# Verification of crypt-controller

crypt-controller provisions Kubernetes namespaces with secrets. A *crypt* (a
custom resource) lists secret definitions and namespace patterns; the controller
reads each secret's data from a key-value store and writes the secret into every
namespace a pattern matches. This directory models the program in TLA+, checks
it on small instances with TLC and proves its central safety properties with
TLAPS for every instance.

## 1. Inventory

| part | state | operations | made correct by |
|---|---|---|---|
| event handlers (`controller/controller.go:103-122, 265-345`) | none of their own; read the caches | a crypt added or updated, a namespace added, a secret deleted; each ends in `enqueueCrypt` | no change that calls for a secret is missed |
| workers (`controller.go:161-246`) | locals of `syncHandler`: the copy of the crypt, the matched namespaces, the loop position, the value read | take a key, read the crypt, match patterns, per secret and namespace read the store, `Create`, on AlreadyExists `Update`, finally record an event | one sync per crypt at a time; no old value over a newer one; an error does not stop the rest |
| work queue (client-go, used at `controller.go:92, 167-189, 212`) | waiting, queue, dirty, processing | `AddRateLimited`, delay elapses, `Get`, `Done` | nothing requested is forgotten, nothing is held twice |
| informers, caches, listers (`pkg/client/informers`, `pkg/client/listers`) | started informers, cached objects, undelivered events | initial list, watch events in order, resync every 10 s for crypts | caches follow the API server |
| cluster (external) | namespaces, crypts, secrets | users' edits, garbage collection by owner UID | - |
| store backends (`pkg/store/*`) | none; a client | `Get(key)`: a value, not found, undecodable | decodes what the README promises |
| life cycle (`main.go`, `controller.go:127-159`) | stop and timeout channels | build, start informers, wait for caches, start 3 workers, stop on a signal | no sync before the caches are complete; stops when told |
| rate limiter (client-go defaults, `controller.go:92, 212`) | bucket, failures per key, deadlines | delay of the next addition | delays stay bounded, no crypt starves |
| deep copies (`zz_generated.deepcopy.go`) | none; a heap they share with others | `DeepCopy`, `DeepCopyInto` of each type | a copy is equal and shares nothing |
| typed client (`typed/crypt/v1alpha1/crypt.go`) | none | `List` and `Watch` for the informer; the other verbs have no caller | a watch starts where the list ended |
| chart, examples, Dockerfile, scripts | none | one replica, replaced by a rolling update | - |

**How they interact.** Users change the cluster; watches carry the changes to
the informers; each informer updates its cache and then calls the handlers, each
informer on a goroutine of its own. Handlers put keys in the work queue. Three
workers take keys and run `syncHandler`, which reads the caches and the store and
writes secrets to the API server. The owner references it writes let the
cluster's garbage collector delete the secrets of a deleted crypt. Nothing is
persisted by the process.

**What is hard.** The three caches are filled in no common order; `syncHandler`
works for a long time on what it read at its start; `Update` is unconditional;
errors are logged and dropped, so repair is left to the resync; the delete
handler finds an owner by name from two reads made at different times; watches
break and lose events; every resync spends tokens of a bucket that refills
slowly; caches may never sync and signals may come at any time; the process may
stop between any two writes, or overlap with its successor. `PROJECT.json` lists
each such hazard at its line with the properties aimed at it.

## 2. Modules

| module | role |
|---|---|
| `SecretMirror` | abstract promise of the controller: which secrets it may write |
| `CryptController` | handlers, caches, workers, cluster and store; composes `WorkQueue` by `INSTANCE ... WITH Items <- Crypts` |
| `MirroringController` | `CryptController` with a history of what crypts asked for; implements `SecretMirror` |
| `LateWrites` | the same beside another process of the controller that writes what it read at some time |
| `PendingSet` | abstract promise of a work queue: a set of pending items and a set of active ones |
| `WorkQueue` | client-go's queue as `controller.go` uses it; implements `PendingSet` |
| `RateLimiter` | extends `WorkQueue` by time: the token bucket, the backoffs, the resync timer |
| `Reflector` | list and watch of one type: how a cache follows the API server |
| `InformerRegistry` | abstract promise of an informer factory |
| `InformerFactory` | the generated factory's calls under their lock; implements `InformerRegistry` |
| `Lifecycle` | `main` and `Run` from the flags to the exit; composes `InformerRegistry` |
| `StoreBackends` | the store factory, consul and vault: what a `Get` returns for what the server holds |
| `DeepCopy` | the generated copies on a heap of cells |
| `MC*` | finite instances for TLC; `MCPlans` restricts the environment to a few plans per run |
| `*Proofs` | theorems and their proofs; `MirroringProofs` holds those about `MirroringController`, `CacheProofs` those about `Reflector` and `DeepCopy` |

How the modules divide the program: `CryptController` is the core and sees the
others through what they promise. Its queue is `WorkQueue` (delays of any
length; `RateLimiter` says how long they get). Its informers list and watch in
order and may relist (`Reflector` says why that is what a lost watch amounts
to). Its `synced` stands for `Lifecycle`'s wait, and its `Crash` for every exit
there. Its store returns a version or an error (`StoreBackends` says which).

### CryptController: state and actions

| state | code |
|---|---|
| `namespaces`, `crypts`, `secrets` | objects at the API server; `uids` counts creations per crypt name, so that `<<key, uid>>` stands for an object's UID |
| `store` | per key a version number and whether `Get` can decode the value |
| `synced`, `nsListed` | the informers that have listed, and the namespaces of the initial list that are not cached yet; `Ready` is the `HasSynced` of all three: listed, and the list cached |
| `cryptWatch`, `nsWatch`, `deleted` | watch events on their way to the informers |
| `cryptCache`, `nsCache` | what `cryptLister` and `namespaceLister` show |
| `nsAdded`, `lookup` | namespace additions not handled yet; `handleSecretDelete` between its `List` and its lister reads |
| `waiting`, `queue`, `dirty`, `processing` | the work queue |
| `job[w]` | worker `w`'s position in `syncHandler`: `pc`, its copy of the crypt, the matched namespaces, the loop indices `i` (pattern or secret) and `j` (namespace), the value read, whether a call failed |

Each call of `syncHandler` that reads or writes something shared is an action of
its own, in the code's order: `TakeItem`, `GetCrypt`, one `findNamespaceMatches`
per pattern, then for each secret (outer loop) and namespace (inner loop)
`fetchObject`, `createSecret`, `updateSecret` when the secret exists, and at the
end `recordSynced`, which also returns the key to the queue. `Returned` is the
tail every `createSecret` call shares: the error is dropped and the loops go on.
`WriteFails` is a `Create` or `Update` that returns an error, with or without
having taken effect.

The listers return objects in map order, hence `SetToSeqs` in
`findNamespaceMatches` and the free choice of the first match in
`handleNamespaceAdd`. `handleNamespaceAdd` enqueues, for each cached namespace,
one matching crypt: `break Out` leaves the loop over the crypts.

An informer caches a list one object at a time. `ListNamespaces` therefore only
notes the namespaces, and `NamespaceEvent` caches them in any order, each with its
`AddFunc`, before any later event; until the last of them is cached, `HasSynced`
is false and no worker starts. So a namespace that a crypt matches may be handled
while the crypt's own one is not cached yet. The crypts of a list are cached in
one step: each is enqueued as it is cached, so a handler that misses one that is
not there yet misses no sync.

`RelistCrypts`, `RelistNamespaces` and `RelistSecrets` are a broken watch
followed by a new list: the events on their way are replaced by the difference to
the cache, which for namespaces is again handled one by one. A namespace that went
and came back is no addition, and the deletion of a secret that exists again is
not told of.

### The other modules

| module | state | actions |
|---|---|---|
| `MirroringController` | `asked`: owner and spec of every version of every crypt | those of `CryptController`; `asked` grows |
| `LateWrites` | - | `LateWrite`: what `createSecret` of another process writes, from any version of a crypt and any earlier value of the store |
| `RateLimiter` | `tokens`, `failures[k]`, `delay[k]`, `toResync`; `requests`, the additions since the last resync that are not its own; `idle[k]`, the ticks since a worker last took `k`, without those in which `k` was queued or held | `Request` (`enqueueCrypt`), `Resync` (the informer's 10 s), `Tick` (100 ms), `RipenDue`, `TakeItem`, `FinishItem` (`Forget` and `Done`) |
| `Reflector` | `states`: the objects at each resource version; `oldest` that can be watched; the reflector's `pc` and `version`; `deltas[n]`: what the DeltaFIFO holds of an object; `cache`, the indexer; `unheeded` | `Create`, `Update`, `Delete`, `Compact`; `List` (with `Replace`), `Watch`, `Event`, `Break`, `Resync`; `HandleDelta` applies one delta of one object |
| `InformerFactory` | `lock`, `informers`, `started` as in `factory.go`; `made`, `runs`, `synced`, `stopped`; `call[c]` | one step per stretch of `InformerFor`, `Start`, `WaitForCacheSync` between two accesses to shared state |
| `Lifecycle` | `main`, `signals`: where the two goroutines are; `stop`, `timeout` channels; `queue` length; `worker[w]`; `exit` | each statement of `main` and `Run` that another goroutine can tell apart; `Signal`, `Timeout`, `SyncCache`, `Enqueue` |
| `StoreBackends` | `backend` made by the factory, `held` value, `reachable`, last `answer` | `Make`, `Put`, `Outage`, `Get` (`ConsulGet`, `VaultGet` as functions of the value) |
| `DeepCopy` | `heap` of cells, `root[v]` of each holder, `last` step | `DeepCopy` of the whole list, `Write` to any cell or struct a holder reaches |

### Abstractions

- The payload of a secret is the store key it came from and the version of the
  value; name, owner, key and type are what the properties tell apart. Labels
  and annotations are left out of `CryptController`; `DeepCopy` has them.
- A regular expression is the set of names it matches; one that does not
  compile matches none, as in the code, which drops the error.
- `nsAdded` and `deleted` are sets: their handlers may run in any order, which
  includes the order of the real informers.
- A handler's reads of local caches are one step, except in
  `handleSecretDelete`, which calls the API server between them.
- The crypt handler runs in the step that updates the cache: it reads nothing
  but its event, and its only effect is an addition with an arbitrary delay.
- An API call of the process itself takes effect before it returns; one that
  takes effect later, after its process is gone, is a `LateWrite`.
- The garbage collector resolves owners by UID, across namespaces. That is
  Kubernetes' behaviour as the code's cross-namespace owner references
  (`controller.go:370`) expect it.
- `DeleteNamespace` removes a namespace and its secrets at once, after its crypts.
- Secrets of others (`Foreign`) have the default type.
- `List` of `Reflector` may return an older state, as a list with resource
  version 0 may, but none older than what this server showed before.
- In `Reflector` the objects of the FIFO take turns in any order, where client-go
  keeps one, and a delta goes to the cache without its type.
- In `RateLimiter` a delay is a whole number of ticks and timers are prompt.
  Workers take any time, and how long a key is queued or held is not counted: that
  is the store's and the API server's matter. `failures` stops at `MaxFailures`,
  from where on the backoff is `Cap` (`CapAssumption`).
- `StoreBackends` tells values apart by what decoding does with them.
- `Lifecycle` counts the queue; a sync is one held item.

## 3. Runs

Every bound is a constant of the cfg. In the controller's runs `MaxMoves` bounds
the environment's moves (edits, crashes, faults) and nothing else; `EnvMoves`
selects their kinds; the controller, the queue, the watches and the collector run
without bound. `MCPlans` lets one run ask several questions: each initial state
picks a plan, which says how many moves of which kinds are made and which specs
each crypt may have, and a run checks all plans of its cfg. Deadlock is not
checked where the system really comes to rest: with the moves used up and no
crypt left, after the process has exited, when the objects rest, when the writes
are used up.

| run | instance | shows |
|---|---|---|
| `safety` | 2 workers (symmetric), 2 namespaces, `SafetyPlans`: (a) one crypt under crashes and edits of crypts, namespaces and secrets: 4 moves with one spec, 3 with two, and 4 with two in its home namespace alone; (b) two crypts that want one secret, 3 moves of edits, store changes, failing calls and crashes; (c) the same with two types; (d) one crypt whose type is edited | `TypeOK`, `ExclusiveSync`, `NeverRegress`, the inductive `SyncInv`, `ImplementsSecretMirror`; `SettledByEvents`: as long as no fault has happened and the crypts are `Independent`, when no event is on its way and the queue does not hold a crypt, every secret it wants exists |
| `live` | 1 worker, `LivePlans`: one crypt and every kind of move, relists and late writes included, 3 of them with its home or another namespace to write to, and 4 moves of edits of crypts and namespaces and faults; two secrets in two overlapping patterns with faults; two crypts of one namespace with one secret, and with two secrets and no target namespace at first; a crypt whose home and whose target are both new, so that the target may be handled before the home is cached; two crypts of one name, one of which has a secret that a user deletes, so that the delete handler may take the other for its owner | `EventuallyUpToDate`, `OrphansCollected` |
| `rate_limiter` | 2 keys (symmetric), period of 4 ticks, bucket of 2, 2 requests in each period, backoffs from half a tick to 8, any number of periods, and syncs that may outlast several | `DebtBounded`, `Fresh`, and of the queue under these delays `QueueIsDirtyIdle` and the refinement of `PendingSet` |
| `reflector` | 2 names, 4 changes, watches that break at any time, events that expire, resyncs, 2 queued deltas of an object when a list comes | `NothingLost`, `NeverBack`, `CatchesUp` |
| `informer_factory` | 2 goroutines, 2 types, any number of calls | `SharedInformer`, `HonestWait`, `CallsReturn`, refinement of `InformerRegistry` |
| `lifecycle` | 3 workers, 2 items, signals at any time | `CachesFirst`, `AwaitedInformersRun`, `StartUpEnds`, `StopEnds`, `InsistenceEnds` |
| `store` | both backends, all maps of 2 entries of 5 kinds, `null`, other values, outages | `WholeOrNothing`, `ConsulServesDataModel` |
| `deep_copy` | 2 holders; a crypt with every choice of nil fields and two definitions, or with none; 2 copies, 2 writes | `CopiesAreEqual`, `CopiesAreIndependent` |
| `namespace_add`, `synced_event`, `type_edit`, `vault` | 2 or 3 moves; the vault backend | the findings below: TLC finds each property violated |

**Why the bounds are enough.** The shortest interesting histories need four
moves: a crypt, a namespace, a deletion or an edit, and one more that races with
the sync the others caused; three when the crypt writes to its home, which exists
from the start. Two workers are enough to violate any property of
pairs of syncs, two crypts to compete for a secret, two namespaces to keep a
crypt's own namespace and its target apart, and a third one when the home is new,
too. In `RateLimiter` what matters is how many additions there are to a period (2
of the resync and 2 others to 4 ticks, the limit case of the real 100) and that
backoffs come to exceed a period, which `PerTick` and `Cap` allow; time is not
bounded. `Reflector` needs a change before, in and after a broken watch, on two
objects, and more than one delta of an object.
Each property is broken within these bounds by a plausible change of the code
(the mutants of `PROJECT.json`), among them: `UpdateFunc` not registered, `Done`
not deferred, the owner's UID looked up late, an error ending the loops,
deletions not reaching the cache, a key not forgotten, a watch that starts from
now, a resync of what is queued anyway, a reader's lock in the factory, a lock kept while waiting, a wait that
ignores the timeout, a shared map in a copy.

`SettledByEvents` speaks of an execution up to its first fault (`Faults`: a call
that fails, a watch that breaks, a secret of somebody else, a late write) and of
crypts that are `Independent`; beyond that only the resync repairs, which is what
`live` is about. Plans (b) to (d) leave these conditions at some point, and what
comes before is still checked. Each condition of `Independent` is there for a
behaviour of the code:

- a crypt's home exists from the start (`InitNamespaces`, like `default`), because
  a namespace handled before the crypt's own one is cached leads to no sync once
  the workers run (while the initial lists are cached it does no harm, for all
  crypts are enqueued then);
- no two crypts have one home, because of finding 1 below;
- no two crypts have one name, because the deletion of a secret is taken to be
  one of the first crypt of that name;
- no two crypts ask for secrets of one name, nor one crypt for one secret with two
  keys, because they overwrite each other;
- no version of a crypt changes the type of a secret, because of finding 3.

### Fairness

`CryptController`: weak fairness of each informer and handler (goroutines of
client-go that block on nothing else), of each worker, of the delay of each
waiting key (a timer), of the resync of each cached crypt (a 10-second ticker,
`main.go:82`) and of the garbage collector. No fairness is assumed of users or
faults. As faults use up moves, a worker that keeps running eventually meets
calls that succeed: this is the assumption that the cluster and the store
recover.

`InformerFactory`: a goroutine in a call runs on (weak), and one that waits for
the mutex gets it (strong: Go's mutex goes into starvation mode after 1 ms).
Nothing is assumed of the API server, so a cache may never sync.

`Lifecycle`: the goroutine of `main`, that of the signals and the timer of five
minutes run on. Caches, workers and signals are not fair: a sync may hang in a
call, and `StopEnds` holds because `Run` does not wait for it. `InsistenceEnds`
has its assumption in front: somebody keeps sending signals.

`Reflector`: the reflector lists and watches and the informer handles each delta
(weak: goroutines that run on), and not every watch breaks before it has sent an
event (strong). Resyncs are not fair.

`EventuallyUpToDate` holds of crypts that no other crypt's secrets collide with,
and of plans that neither define one secret twice in a crypt nor edit a type (that
is finding 3); its run has one worker. `OrphansCollected` rests on how the cluster
resolves owners (see the abstractions).

### Findings

Four statements of the documentation do not hold of the code; each has a run
that TLC finds violated.

1. `namespace_add`: README says crypts are checked when a namespace appears;
   `break Out` (`controller.go:288`) enqueues one matching crypt per home
   namespace, the others wait for the resync.
2. `synced_event`: "Crypt synced successfully" is recorded also when calls of
   the sync failed (`controller.go:238-244`).
3. `type_edit`: README says secrets follow the store; after an edit of a
   definition's type the API server refuses every `Update`
   (`controller.go:260`), and the secret keeps its old data for good.
4. `vault`: README says values are maps of strings to base64; vault's client
   decodes them to strings, and `dataToObject` (`vault.go:50`) accepts `[]byte`
   only.

Remarks on other places where code and words differ, found while modelling; the
models contain the behaviour, no run is kept for them:

- `controller.go:317` says the right crypt is found for a deleted secret; the
  lookup (`controller.go:330`) takes the first crypt of that name in any
  namespace (`SameName`). The plan of two like-named crypts, in which a secret of
  one of them is deleted, shows that the resync makes up for it.
- A matching namespace whose addition is handled before the crypt's own
  namespace is cached leads to no sync (`controller.go:271-277`), and so does one
  that was deleted and created anew while the watch was broken: it arrives as an
  update, for which no handler is registered (`controller.go:118`). The resync
  makes up for both, as the plan with a new home and the relists of `live` show.
- The FIFO of the client-go this program is built with (`Gopkg.lock`) does not
  heed all that a list says when the informer lags behind: an object that is
  created anew while its deletion is queued is left out, and one that is gone
  while only its creation is queued stays. Then the cache is wrong until the
  object changes or the next list comes. `unheeded` remembers that this has
  happened, and `NothingLost` and `CatchesUp` hold until then. `CryptController`'s
  relists are those in which it does not happen.
- `--storeConfig`, "Path to a store config." (`main.go:37`), is read by nobody:
  `factory.go:27` passes the clients' default configuration.
- Beyond 100 crypts a period of 10 s takes more tokens from the bucket than it
  repays, and the delays grow without bound, against "a small resync period
  delay" (`src/README.md:59`): with five additions to a period of
  four ticks `DebtBounded` fails, and `Fresh` with it.

## 4. Proofs

| theorem | says |
|---|---|
| `QueueCorrect` | `WQSpec => []QueueIsDirtyIdle` |
| `QueueImplementsPendingSet` | `WQSpec => ImplementsPendingSet` (initial states and every step) |
| `TypeCorrect` | `Spec => []TypeOK` |
| `SyncsExclusive` | `Spec => []ExclusiveSync` |
| `ValuesNeverRegress` | `Spec => NeverRegress` |
| `InvariantHolds` | `Spec => []SyncInv` |
| `CachesComeFirst` | `Spec => []CachesFirst` (`Lifecycle`) |
| `AwaitedRun` | `Spec => []AwaitedInformersRun` (`Lifecycle`) |
| `ControllerImplementsMirror` | `HistorySpec => ImplementsSecretMirror` (`MirroringController`) |
| `EventsSettle` | `HistorySpec => []SettledByEvents` (`MirroringController`) |
| `DebtStaysBounded` | `Cardinality(Items) + MaxRequests <= Period` gives `Spec => []DebtBounded` (`RateLimiter`) |
| `SyncsStayFresh` | `PeriodSuffices` gives `Spec => []Fresh` (`RateLimiter`) |
| `LimitedQueueCorrect` | `Spec => []QueueIsDirtyIdle` (`RateLimiter`) |
| `LimitedQueueImplementsPendingSet` | `Spec => ImplementsPendingSet` (`RateLimiter`) |
| `GetsAreWhole` | `Spec => []WholeOrNothing` (`StoreBackends`) |
| `ConsulAcceptsDataModel` | `Spec => []ConsulServesDataModel` (`StoreBackends`) |
| `CacheLosesNothing` | `Spec => []NothingLost` (`Reflector`) |
| `CacheNeverGoesBack` | `Spec => NeverBack` (`Reflector`) |
| `CopiesEqual` | `DCSpec => []CopiesAreEqual` (`DeepCopy`) |
| `CopiesIndependent` | `DCSpec => CopiesAreIndependent` (`DeepCopy`) |
| `InformersShared` | `Spec => []SharedInformer` (`InformerFactory`) |
| `WaitsHonest` | `Spec => []HonestWait` (`InformerFactory`) |
| `FactoryImplementsRegistry` | `Spec => ImplementsRegistry` (initial states and every step) |

The theorems about the controller hold for every finite set of namespaces and any
crypts, specs, stores, workers and number of moves that satisfy the named
assumptions of `CryptController` (typed specs and matches, the three informers,
distinct null values, which `NullJobsAssumption` states for jobs, tasks and
owners). The others hold for any workers, keys, rates, objects, fields,
goroutines and types; `InformerFactory` assumes that `Nobody` is no goroutine.
The two theorems on rates assume what the program needs. `DebtStaysBounded`: a
period repays what its resync and its other additions take. `SyncsStayFresh`
(`PeriodSuffices`): also that the largest debt is repaid within a period, and that
a first backoff is no longer than one. With the
program's constants the first is the strictest: crypts and other additions in ten
seconds come to at most 100. Neither bound depends on how long the process is up.
With more than that both are false, as the remarks above say.

*Types.* `TypeOK` alone is not inductive: to know that `secrets` stays typed one
needs `Target` and `newSecret` to be, hence that the loop indices are within the
sequences they index. `TypeInv` adds `JobsInBounds`.

*Exclusion.* `ExclusiveSync` follows from the queue: a key some worker syncs is
in `processing` (`KeysHeld`), the queue holds only dirty keys that are not in
`processing`, each once (`QueueIsDirtyIdle`, which `WorkQueueProofs` proves for
each operation of the queue and the controller's proof reuses through an
instance), so a key that `Get` hands out is nobody's.

*Values.* `Update` is unconditional, so order comes only from the exclusion: in
`NeverAhead`, no secret is newer than the store's value of its key, and the value
a sync is about to write is no older than what is there for the same crypt and
key. A step of one worker cannot break this for another, because the other
syncs another crypt. `StepKinds`, `QuietSteps` and `WorkerSteps` sort the
actions into those that do not write secrets, those that remove or replace them,
and the writes.

*Mirror.* The refinement of `SecretMirror` is a matter of time: the write that a
sync makes must be one that a version of its crypt asked for, though crypt,
namespaces and store were read at different moments before. `HistoryInv` says
that everything the controller works from is part of the history: the stored
crypts, the cached ones, those on the watch and the copies that syncs hold
(`WasAsked`), and that every namespace a sync has found matches a pattern of its
copy (`Matching`). That a value is no older than the one it replaces is
`NeverAhead` again. `WorkSteps`, `WritesChecked` and `WriteMirrors` are the steps
of a worker, `NextMirrors` maps every step to a write, to a removal of secrets,
to the growth of the history or the store, or to a stutter.

*Events settle.* The invariant behind `EventsSettle` is `SettlingInv`. Its last
part, `Provided`, says of every secret a crypt wants that it is written as its
definition says, or `OnTheWay`, for one of four reasons:

- `Due(k)`: a sync of the crypt will start; its cache is not filled, an event of
  it is undelivered, or its key is waiting or dirty;
- `Removed(k)`: a deletion of one of its secrets is still to be handled, and the
  handler will find the crypt;
- `Arriving(n)`: the namespace is in the initial list or on the watch and not
  cached yet, or its addition is unhandled;
- `Working`: a running sync works on the current version of the crypt and has the
  namespace and the definition ahead of it in its loops, and, if it is about to
  `Update`, the secret still exists.

`SettlingInv` is inductive with five more parts that say why each of these leads
to the next. `CryptsFollowed` and `NamespacesFollowed`: a cache shows what is
stored, or an event is on its way, and an outdated event is followed by another
one. `EarlyDue`: nobody syncs before all three caches are filled, and until then
every crypt is due. `StaleDue`: a sync of an old version is followed by another,
because the dirty set remembers the key while it is processed. `OnlyOurs` and
`StoreReadable`: until the first fault all secrets are the controller's, of the
type asked for, so a `Create` or the `Update` after it goes through. The step
that drops one reason must therefore establish another or write the secret:
`ReadsLead`, `FindsLead`, `TriesLead`, `DueLeads`, `RemovalNoticed` and the
lemmas around them take these steps one by one, and `ProvidedSettles` closes the
argument: nothing pending leaves none of the four reasons.

*Life cycle.* `LifecycleInv`: workers exist only in `main`'s last state, which
only `CachesSynced` leads to; each `Start` comes after `New` has registered every
type, so it runs all of its factory's.

*Rate.* `DebtInv` accounts for the bucket: what is owed is what the last resync
and the other additions of its period took and the ticks since have not repaid,
and one token for each addition of the current period. A full period repays the
former exactly when there are no more additions than ticks, hence the assumption.
For `Fresh`, `IdleInv` says how long a key is idle in each of its stations: not at
all when it is held, at most two periods when it is queued, because it does not
grow there. The strengthening is `Rested`, for a key in neither: either it was
given back in this period and not requested since, or it has a deadline that
comes before two periods are over. The first addition after a sync sets such a
deadline (`AdditionInTime`), as the bucket's debt and a first backoff are short
enough; the next resync is one at the latest. That a later addition, with a longer
backoff, never puts off a key that already waits is in `DeadlineTyped`. The queue
under these delays is a `WorkQueue` with fewer behaviours (`LimitedQueue`), so its
theorems carry over.

*Store.* `HeldInv`: only consul's server holds something else than a map, since a
secret of vault always is one, so a decoded value has the shape the backend looks
for. What decoding does is then a matter of cases on the kinds of values.

*Cache.* `NothingLost` is inductive with the types: a list says of each object
what it is at the list's version, and `Replaced` queues just that, unless it
ignores it (`Ignored`); an event is the difference of two consecutive versions,
of one object; a resync queues what is cached of an object of which nothing else
is queued; the informer moves deltas to the cache and changes neither the last of
them nor, with the last one, what was told. For `NeverBack`, `InOrder` says that
the states of an object, what is cached of it, what is queued of it and what the
server has had since the reflector's version follow each other in this order
(`Follows`). An older list never breaks that, because the reflector's version does
not go back, nor does a resync, because it finds nothing queued; the mutant that
does not look (`ResyncAll`) brings back what a queued edit has replaced.

*Copies.* The invariant is `Separate`: the cells of the heap can be laid out,
each at a place of one holder and one Go type (`Laid`), so that a cell holds what
its type says and refers to cells of its holder only. Who reads a list then sees
cells of its holder alone (`SameView`), and who writes to one changes no cell of
another and no type (`Rewritten`). Each generated function takes a value of one
holder and yields one laid out for another that reads the same, in a heap that
only grew (`CellCopied`, `DefinitionCopied`, `SecretsCopied`, `CryptCopied`,
`ListCopied`). The loops over a slice are recursive functions: that there is such
a function (`DefinitionLoop`, `CryptLoop`), and what it has done after `m` rounds
(`DefinitionsCopied`, `CryptsCopied`), is by induction over `m`, which `Least` and
`Induction` get from the well-foundedness of `<`. What a reflector decodes is
assumed to be laid out for its holder (`DecodedAssumption`), whatever its length.
The same induction shows that a backoff, which doubles with each failure, is a
number (`DoubledTyped` in `RateLimiterProofs`).

*Factory.* `FactoryInv`: the lock excludes, so that between the look-up of a type
and the storing of its informer nobody else makes one (`NoneTwice`: what was made
is what is stored, except by the caller about to store it); what runs is what is
marked as started (`RunOnce`); a waiting call splits what it asked for into found
and still to be found, unless it was stopped (`Waits`). `MakeInformer`,
`StartOne` and `Sync` are the registry's steps, all others stutter.

**Model-checked only.** Every liveness property (`EventuallyUpToDate`,
`OrphansCollected`, `CatchesUp`, `CallsReturn`, `StartUpEnds`, `StopEnds`,
`InsistenceEnds`): fairness and `ENABLED` are out of TLAPS's reach. `LateWrites`:
another process breaks `NeverRegress` and `ImplementsSecretMirror`'s promise on
values, so no theorem is stated of it; `live` shows that the resync repairs what
it does.

## 5. Not modelled, and the plan

Not modelled:

- the memory and the empty store: the factory cannot make them, tests alone do;
- the verbs of the typed client that nothing calls, and the fake clientset: REST
  plumbing without state, of which the program uses `List` and `Watch`;
- options of the informer factory that the program never sets (a custom resync
  period, one namespace, list filters);
- scheme registration and static manifests, which keep no state;
- the bucket of the client's own limit of requests (`main.go:71` leaves the
  default): it shows as time the workers of `RateLimiter` are busy;
- the broadcaster that ships events: client-go's, and nothing depends on it.

Plan: every invariant, action property and refinement that a run checks is
proved. What is left is the safety part of convergence: that a resync makes up
for a fault, as an invariant like `Provided` in which the next resync is a
reason, too.

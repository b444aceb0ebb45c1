--------------------------- MODULE CryptController --------------------------
(***************************************************************************)
(* The crypt controller at work in a cluster: users who edit crypts,       *)
(* namespaces, secrets and the key-value store; the informers that feed    *)
(* the controller's caches and event handlers; the work queue; the workers *)
(* running syncHandler; the garbage collector of the cluster.              *)
(***************************************************************************)
EXTENDS SequencesExt

CONSTANTS
  Namespaces,       \* names a namespace may have
  Crypts,           \* identities [ns, name] a crypt may have
  Specs,            \* crypt specs users write: [secrets, patterns]
  SecretNames,
  StoreKeys,
  SecretTypes,      \* the types a secret may have
  Opaque,           \* the type a secret has by default
  Unset,            \* the type of a definition that names none
  Patterns,
  Matches,          \* Matches[p]: the names regexp.MatchString accepts for p
  Workers,
  Informers,        \* the three shared informers, by the resource they watch
  InitNamespaces,   \* namespaces every cluster has and nobody can delete
  EnvMoves,         \* the kinds of environment moves this instance makes
  MaxMoves,         \* bound on the number of environment moves
  NoCrypt, NoSecret, Foreign, NoJob, NoTask    \* null and opaque values

SecretDefs == [name: SecretNames, key: StoreKeys, type: SecretTypes \cup {Unset}]
SpecType   == [secrets: Seq(SecretDefs), patterns: Seq(Patterns)]
Crypt      == [uid: Nat, spec: SpecType]
Owner      == [key: Crypts, uid: Nat]
\* A secret the controller wrote; any other secret is just Foreign.
Secret     == [owner: Owner, key: StoreKeys, ver: Nat, type: SecretTypes]
SecretIds  == Namespaces \X SecretNames

ASSUME NamespacesAssumption ==
  /\ IsFiniteSet(Namespaces)
  /\ InitNamespaces \subseteq Namespaces
ASSUME CryptsAssumption == \A k \in Crypts : k.ns \in Namespaces
ASSUME SecretTypesAssumption == Opaque \in SecretTypes
ASSUME SpecsAssumption == \A s \in Specs : s \in SpecType
ASSUME MatchesAssumption == Matches \in [Patterns -> SUBSET Namespaces]
ASSUME InformersAssumption == Informers = {"crypts", "namespaces", "secrets"}
ASSUME MaxMovesAssumption == MaxMoves \in Nat
ASSUME NullsAssumption ==
  /\ NoCrypt \notin Crypt
  /\ NoSecret # Foreign
  /\ NoSecret \notin Secret /\ Foreign \notin Secret

VARIABLES
  \* the cluster
  namespaces,   \* the namespaces that exist
  crypts,       \* crypts[k]: the crypt stored under k, or NoCrypt
  uids,         \* uids[k]: how many crypts were created under k so far
  secrets,      \* secrets[<<ns, name>>]: a Secret, Foreign or NoSecret
  store,        \* store[key]: what the key-value store holds
  moves,        \* environment moves made, and whether a fault was one of them
  \* the informers
  synced,       \* informers that have listed, and watch
  cryptWatch,   \* crypt events on their way to the cache
  cryptCache,   \* what the crypt lister shows
  nsListed,     \* namespaces of the initial list that are not cached yet
  nsWatch,      \* namespace events on their way to the cache
  nsCache,      \* what the namespace lister shows
  nsAdded,      \* additions the namespace AddFunc has not handled
  deleted,      \* owners of deleted secrets the DeleteFunc has not handled
  lookup,       \* the secret DeleteFunc between its two reads, or NoTask
  \* the work queue
  waiting, queue, dirty, processing,
  \* the workers
  job           \* job[w]: the sync w is running, or NoJob

clusterVars  == <<namespaces, crypts, uids, secrets, store>>
watchVars    == <<cryptWatch, nsWatch, deleted>>
cacheVars    == <<synced, cryptCache, nsListed, nsCache>>
queueVars    == <<waiting, queue, dirty, processing>>
vars == <<clusterVars, moves, watchVars, cacheVars, nsAdded, lookup,
          queueVars, job>>

WQ == INSTANCE WorkQueue WITH Items <- Crypts
-----------------------------------------------------------------------------
Pcs == {"get", "match", "fetch", "create", "update", "event"}
Job == [pc: Pcs, key: Crypts, crypt: Crypt \cup {NoCrypt},
        matched: Seq(Namespaces), i: Nat, j: Nat, ver: Nat, failed: BOOLEAN]

Watched == [key: Crypts, obj: Crypt \cup {NoCrypt}]
NsEvent == [ns: Namespaces, present: BOOLEAN]
Deletion == [id: SecretIds, owner: Owner \cup {Foreign}]
Task == [owner: Owner, seen: SUBSET Namespaces]
Moves == [made: 0..MaxMoves, faulty: BOOLEAN]

ASSUME NullJobsAssumption == NoJob \notin Job /\ NoTask \notin Task /\ Foreign \notin Owner

TypeOK ==
  /\ namespaces \subseteq Namespaces
  /\ crypts \in [Crypts -> Crypt \cup {NoCrypt}]
  /\ uids \in [Crypts -> Nat]
  /\ secrets \in [SecretIds -> Secret \cup {Foreign, NoSecret}]
  /\ store \in [StoreKeys -> [ver: Nat, readable: BOOLEAN]]
  /\ moves \in Moves
  /\ synced \subseteq Informers
  /\ cryptWatch \in Seq(Watched)
  /\ cryptCache \in [Crypts -> Crypt \cup {NoCrypt}]
  /\ nsWatch \in Seq(NsEvent)
  /\ nsListed \subseteq Namespaces
  /\ nsCache \subseteq Namespaces
  /\ nsAdded \subseteq Namespaces
  /\ deleted \subseteq Deletion
  /\ lookup \in Task \cup {NoTask}
  /\ WQ!WQTypeOK
  /\ job \in [Workers -> Job \cup {NoJob}]

\* The controller of a process that has just started knows nothing.
ProcessInit ==
  /\ synced = {}
  /\ cryptWatch = <<>> /\ nsWatch = <<>>
  /\ cryptCache = [k \in Crypts |-> NoCrypt] /\ nsListed = {} /\ nsCache = {}
  /\ nsAdded = {} /\ deleted = {} /\ lookup = NoTask
  /\ WQ!WQInit
  /\ job = [w \in Workers |-> NoJob]

Init ==
  /\ namespaces = InitNamespaces
  /\ crypts = [k \in Crypts |-> NoCrypt]
  /\ uids = [k \in Crypts |-> 0]
  /\ secrets = [s \in SecretIds |-> NoSecret]
  /\ store = [key \in StoreKeys |-> [ver |-> 0, readable |-> TRUE]]
  /\ moves = [made |-> 0, faulty |-> FALSE]
  /\ ProcessInit
-----------------------------------------------------------------------------
(* The environment: users, the store, faults.  Each move is counted. *)

\* Moves that no event tells the controller of, or that make it miss events.
Faults == {"relist", "foreign", "unreadable", "store fails", "write fails",
           "list fails", "late write"}

Move(kind) ==
  /\ kind \in EnvMoves
  /\ moves.made < MaxMoves
  /\ moves' = [made |-> moves.made + 1,
               faulty |-> moves.faulty \/ kind \in Faults]

\* The API server tells a watching informer about every change, in order.
Publish(informer, stream, event) ==
  IF informer \in synced THEN Append(stream, event) ELSE stream

\* The secret informer's DeleteFunc receives the last state of the secret.
Gone(ids) ==
  IF "secrets" \in synced
  THEN {[id |-> s, owner |-> IF secrets[s] = Foreign THEN Foreign
                             ELSE secrets[s].owner] :
          s \in {t \in ids : secrets[t] # NoSecret}}
  ELSE {}

PutCrypt(k, obj) ==
  /\ crypts' = [crypts EXCEPT ![k] = obj]
  /\ cryptWatch' = Publish("crypts", cryptWatch, [key |-> k, obj |-> obj])
  /\ UNCHANGED <<namespaces, secrets, store, nsWatch, deleted>>
  /\ UNCHANGED <<cacheVars, nsAdded, lookup, queueVars, job>>

CreateCrypt(k, spec) ==
  /\ Move("crypt")
  /\ crypts[k] = NoCrypt /\ k.ns \in namespaces
  /\ uids' = [uids EXCEPT ![k] = @ + 1]
  /\ PutCrypt(k, [uid |-> uids[k] + 1, spec |-> spec])

UpdateCrypt(k, spec) ==
  /\ Move("respec")
  /\ crypts[k] # NoCrypt /\ crypts[k].spec # spec
  /\ PutCrypt(k, [crypts[k] EXCEPT !.spec = spec])
  /\ UNCHANGED uids

DeleteCrypt(k) ==
  /\ Move("uncrypt")
  /\ crypts[k] # NoCrypt
  /\ PutCrypt(k, NoCrypt)
  /\ UNCHANGED uids

CreateNamespace(n) ==
  /\ Move("namespace")
  /\ n \notin namespaces
  /\ namespaces' = namespaces \cup {n}
  /\ nsWatch' = Publish("namespaces", nsWatch, [ns |-> n, present |-> TRUE])
  /\ UNCHANGED <<crypts, uids, secrets, store, cryptWatch, deleted>>
  /\ UNCHANGED <<cacheVars, nsAdded, lookup, queueVars, job>>

\* The secrets of a namespace go with it; its crypts were deleted before.
DeleteNamespace(n) ==
  /\ Move("unnamespace")
  /\ n \in namespaces \ InitNamespaces
  /\ \A k \in Crypts : k.ns = n => crypts[k] = NoCrypt
  /\ namespaces' = namespaces \ {n}
  /\ nsWatch' = Publish("namespaces", nsWatch, [ns |-> n, present |-> FALSE])
  /\ secrets' = [s \in SecretIds |-> IF s[1] = n THEN NoSecret ELSE secrets[s]]
  /\ deleted' = deleted \cup Gone({s \in SecretIds : s[1] = n})
  /\ UNCHANGED <<crypts, uids, store, cryptWatch>>
  /\ UNCHANGED <<cacheVars, nsAdded, lookup, queueVars, job>>

\* secrets[s] disappears: a user deletes it, or the garbage collector does.
RemoveSecret(s) ==
  /\ secrets' = [secrets EXCEPT ![s] = NoSecret]
  /\ deleted' = deleted \cup Gone({s})
  /\ UNCHANGED <<namespaces, crypts, uids, store, cryptWatch, nsWatch>>
  /\ UNCHANGED <<cacheVars, nsAdded, lookup, queueVars, job>>

DeleteSecret(s) ==
  /\ Move("unsecret")
  /\ secrets[s] # NoSecret
  /\ RemoveSecret(s)

\* Somebody creates a secret of that name, or replaces the one there is.
PutForeignSecret(s) ==
  /\ Move("foreign")
  /\ s[1] \in namespaces /\ secrets[s] # Foreign
  /\ secrets' = [secrets EXCEPT ![s] = Foreign]
  /\ UNCHANGED <<namespaces, crypts, uids, store>>
  /\ UNCHANGED <<watchVars, cacheVars, nsAdded, lookup, queueVars, job>>

\* A new value is written under a key of the store; an unreadable one stands
\* for a missing value or one that does not decode.
WriteStore(key, readable) ==
  /\ Move(IF readable THEN "store" ELSE "unreadable")
  /\ store' = [store EXCEPT ![key] = [ver |-> @.ver + 1, readable |-> readable]]
  /\ UNCHANGED <<namespaces, crypts, uids, secrets>>
  /\ UNCHANGED <<watchVars, cacheVars, nsAdded, lookup, queueVars, job>>

\* The process dies, at any point of any sync, and a new one is started.
Crash ==
  /\ Move("crash")
  /\ synced' = {}
  /\ cryptWatch' = <<>> /\ nsWatch' = <<>>
  /\ cryptCache' = [k \in Crypts |-> NoCrypt] /\ nsListed' = {} /\ nsCache' = {}
  /\ nsAdded' = {} /\ deleted' = {} /\ lookup' = NoTask
  /\ waiting' = {} /\ queue' = <<>> /\ dirty' = {} /\ processing' = {}
  /\ job' = [w \in Workers |-> NoJob]
  /\ UNCHANGED clusterVars

\* The cluster's garbage collector removes a secret whose owner is gone.
Owned(s) == secrets[s] \notin {NoSecret, Foreign}
Live(owner) == crypts[owner.key] # NoCrypt /\ crypts[owner.key].uid = owner.uid

CollectGarbage(s) ==
  /\ Owned(s) /\ ~Live(secrets[s].owner)
  /\ RemoveSecret(s)
  /\ UNCHANGED moves
-----------------------------------------------------------------------------
(* Informers and event handlers. *)

enqueueCrypt(keys) == WQ!AddRateLimited(keys)

CachedCrypts == {k \in Crypts : cryptCache[k] # NoCrypt}

\* The initial list: the cache is filled, and AddFunc is called for each item.  One
\* step for all crypts: who reads the cache before one of them is in it misses
\* nothing, as that one is enqueued when it comes.
ListCrypts ==
  /\ "crypts" \notin synced
  /\ synced' = synced \cup {"crypts"}
  /\ cryptCache' = crypts
  /\ enqueueCrypt({k \in Crypts : crypts[k] # NoCrypt})
  /\ UNCHANGED <<clusterVars, moves, watchVars, nsListed, nsCache, nsAdded, lookup,
                 job>>

\* A watch breaks and the reflector lists anew (see module Reflector): what was
\* on its way is replaced by the difference to the cache.
RelistCrypts ==
  /\ Move("relist")
  /\ "crypts" \in synced
  /\ cryptWatch' = <<>>
  /\ cryptCache' = crypts
  /\ enqueueCrypt({k \in Crypts : crypts[k] # NoCrypt})
  /\ UNCHANGED <<clusterVars, nsWatch, deleted, synced, nsListed, nsCache, nsAdded,
                 lookup, job>>

\* The difference goes to the cache one namespace at a time.  A namespace that is
\* cached is updated, and has no handler for that.
RelistNamespaces ==
  /\ Move("relist")
  /\ "namespaces" \in synced
  /\ LET known == nsCache \cup nsListed IN
       nsWatch' \in SetToSeqs(
         [ns: namespaces \ known, present: {TRUE}]
           \cup [ns: known \ namespaces, present: {FALSE}])
  /\ UNCHANGED <<clusterVars, cryptWatch, deleted, cacheVars, nsAdded, lookup,
                 queueVars, job>>

\* The deletion of a secret that exists again is not told of any more.
RelistSecrets ==
  /\ Move("relist")
  /\ "secrets" \in synced
  /\ \E missed \in SUBSET {d \in deleted : secrets[d.id] # NoSecret} :
       deleted' = deleted \ missed
  /\ UNCHANGED <<clusterVars, cryptWatch, nsWatch, cacheVars, nsAdded, lookup,
                 queueVars, job>>

ListNamespaces ==
  /\ "namespaces" \notin synced
  /\ synced' = synced \cup {"namespaces"}
  /\ nsListed' = namespaces
  /\ UNCHANGED <<clusterVars, moves, watchVars, cryptCache, nsCache, nsAdded,
                 lookup, queueVars, job>>

ListSecrets ==
  /\ "secrets" \notin synced
  /\ synced' = synced \cup {"secrets"}
  /\ UNCHANGED <<clusterVars, moves, watchVars, cryptCache, nsListed, nsCache,
                 nsAdded, lookup, queueVars, job>>

\* Mutant of Cached: a deletion does not reach the cache.
CachedForever(e) ==
  IF e.obj = NoCrypt THEN cryptCache ELSE [cryptCache EXCEPT ![e.key] = e.obj]

Cached(e) == [cryptCache EXCEPT ![e.key] = e.obj]

\* Mutant of Notified: no UpdateFunc is registered.
NotifiedOfAdd(e) ==
  IF e.obj = NoCrypt \/ cryptCache[e.key] # NoCrypt THEN {} ELSE {e.key}

\* AddFunc and UpdateFunc are registered, and no DeleteFunc.
Notified(e) == IF e.obj = NoCrypt THEN {} ELSE {e.key}

\* A crypt event reaches the cache, and the handler enqueues the crypt.  The
\* handler reads nothing but the event, so running it right away only moves the
\* start of the delay in the queue.
CryptEvent ==
  /\ cryptWatch # <<>>
  /\ LET e == Head(cryptWatch) IN
       cryptCache' = Cached(e) /\ enqueueCrypt(Notified(e))
  /\ cryptWatch' = Tail(cryptWatch)
  /\ UNCHANGED <<clusterVars, moves, nsWatch, deleted, synced, nsListed, nsCache,
                 nsAdded, lookup, job>>

\* Every 10 seconds the informer calls UpdateFunc for each cached crypt.
Resync(k) ==
  /\ k \in CachedCrypts
  /\ enqueueCrypt({k})
  /\ UNCHANGED <<clusterVars, moves, watchVars, cacheVars, nsAdded, lookup, job>>

\* Namespaces reach the cache one at a time, those of the initial list first and
\* in any order; AddFunc is called for each that was not cached.
NamespaceEvent ==
  /\ \/ \E n \in nsListed :
          /\ nsListed' = nsListed \ {n}
          /\ nsCache' = nsCache \cup {n} /\ nsAdded' = nsAdded \cup {n}
          /\ UNCHANGED nsWatch
     \/ /\ nsListed = {} /\ nsWatch # <<>>
        /\ LET e == Head(nsWatch) IN
             IF e.present
             THEN nsCache' = nsCache \cup {e.ns} /\ nsAdded' = nsAdded \cup {e.ns}
             ELSE nsCache' = nsCache \ {e.ns} /\ UNCHANGED nsAdded
        /\ nsWatch' = Tail(nsWatch)
        /\ UNCHANGED nsListed
  /\ UNCHANGED <<clusterVars, moves, cryptWatch, deleted, synced, cryptCache,
                 lookup, queueVars, job>>

\* The cached crypts of namespace home that have a pattern matching n.
MatchingIn(home, n) ==
  {k \in CachedCrypts : k.ns = home /\
     \E p \in ToSet(cryptCache[k].spec.patterns) : n \in Matches[p]}

\* In each known namespace the loop over its crypts, which come in any order,
\* stops at the first match: one matching crypt is enqueued, not all.
handleNamespaceAdd(n) ==
  /\ n \in nsAdded
  /\ nsAdded' = nsAdded \ {n}
  /\ LET homes == {h \in nsCache : MatchingIn(h, n) # {}} IN
       \E first \in [homes -> Crypts] :
         /\ \A h \in homes : first[h] \in MatchingIn(h, n)
         /\ enqueueCrypt({first[h] : h \in homes})
  /\ UNCHANGED <<clusterVars, moves, watchVars, cacheVars, lookup, job>>

\* DeleteFunc, first read: the namespaces of the crypts the API server lists.
\* A failed List is ignored and reads as an empty one.
handleSecretDelete(d) ==
  /\ d \in deleted /\ lookup = NoTask
  /\ deleted' = deleted \ {d}
  /\ \/ /\ d.owner = Foreign
        /\ UNCHANGED <<lookup, moves>>
     \/ /\ d.owner # Foreign
        /\ lookup' = [owner |-> d.owner,
                      seen |-> {k.ns : k \in {c \in Crypts : crypts[c] # NoCrypt}}]
        /\ UNCHANGED moves
     \/ /\ d.owner # Foreign
        /\ Move("list fails")
        /\ lookup' = [owner |-> d.owner, seen |-> {}]
  /\ UNCHANGED <<clusterVars, cryptWatch, nsWatch, cacheVars, nsAdded, queueVars,
                 job>>

\* DeleteFunc, second read: a cached crypt with the owner's name, in the first
\* of these namespaces that has one, is enqueued.
SameName(task) ==
  {k \in CachedCrypts : k.ns \in task.seen /\ k.name = task.owner.key.name}

enqueueOwner ==
  /\ lookup # NoTask
  /\ lookup' = NoTask
  /\ \/ SameName(lookup) = {} /\ UNCHANGED queueVars
     \/ \E k \in SameName(lookup) : enqueueCrypt({k})
  /\ UNCHANGED <<clusterVars, moves, watchVars, cacheVars, nsAdded, job>>
-----------------------------------------------------------------------------
(* Workers: processNextWorkItem, syncHandler and createSecret. *)

NewJob(k) ==
  [pc |-> "get", key |-> k, crypt |-> NoCrypt, matched |-> <<>>,
   i |-> 1, j |-> 1, ver |-> 0, failed |-> FALSE]

At(w, pc) == job[w] # NoJob /\ job[w].pc = pc

Continue(w, next) ==
  /\ job' = [job EXCEPT ![w] = next]
  /\ UNCHANGED <<watchVars, cacheVars, nsAdded, lookup>>

\* The caches have synced: HasSynced says so when the initial list is cached.
Ready == synced = Informers /\ nsListed = {}

\* Mutant of TakeItem: Done is called right after Get and not deferred.
TakeItemDoneAtOnce(w) ==
  /\ job[w] = NoJob
  /\ Ready
  /\ queue # <<>>
  /\ queue' = Tail(queue)
  /\ dirty' = dirty \ {Head(queue)}
  /\ UNCHANGED <<waiting, processing>>
  /\ Continue(w, NewJob(Head(queue)))
  /\ UNCHANGED <<clusterVars, moves>>

\* Workers are started once the caches have synced.
TakeItem(w) ==
  /\ job[w] = NoJob
  /\ Ready
  /\ WQ!Get
  /\ Continue(w, NewJob(Head(queue)))
  /\ UNCHANGED <<clusterVars, moves>>

\* syncHandler returns nil: Forget, which only resets the delay, and Done.
FinishItem(w) ==
  /\ WQ!Done(job[w].key)
  /\ Continue(w, NoJob)
  /\ UNCHANGED <<clusterVars, moves>>

\* The lister is read once; the sync works on this copy of the crypt.
GetCrypt(w) ==
  /\ At(w, "get")
  /\ LET crypt == cryptCache[job[w].key] IN
       \/ crypt = NoCrypt /\ FinishItem(w)
       \/ /\ crypt # NoCrypt
          /\ Continue(w, [job[w] EXCEPT !.crypt = crypt,
                  !.pc = IF crypt.spec.patterns = <<>> THEN "event" ELSE "match"])
          /\ UNCHANGED <<clusterVars, moves, queueVars>>

\* One call per pattern: the lister returns the namespaces in any order, and a
\* namespace that two patterns match is listed twice.
findNamespaceMatches(w) ==
  /\ At(w, "match")
  /\ LET jb == job[w]
         patterns == jb.crypt.spec.patterns
         hits == nsCache \cap Matches[patterns[jb.i]]
     IN \E order \in SetToSeqs(hits) :
          LET found == jb.matched \o order IN
          Continue(w,
            IF jb.i < Len(patterns)
            THEN [jb EXCEPT !.matched = found, !.i = @ + 1]
            ELSE IF found = <<>> \/ jb.crypt.spec.secrets = <<>>
            THEN [jb EXCEPT !.matched = <<>>, !.i = 1, !.pc = "event"]
            ELSE [jb EXCEPT !.matched = found, !.i = 1, !.pc = "fetch"])
  /\ UNCHANGED <<clusterVars, moves, queueVars>>

\* The call of createSecret a job is at: definition i, namespace j.
Def(jb) == jb.crypt.spec.secrets[jb.i]
Target(jb) == <<jb.matched[jb.j], Def(jb).name>>

GetType(def) == IF def.type = Unset THEN Opaque ELSE def.type

\* Mutant of Returned: an error ends the sync.
ReturnedOrAbort(jb, ok) ==
  LET done == [jb EXCEPT !.ver = 0, !.failed = @ \/ ~ok] IN
  IF ok /\ jb.j < Len(jb.matched)
  THEN [done EXCEPT !.pc = "fetch", !.j = @ + 1]
  ELSE IF ok /\ jb.i < Len(jb.crypt.spec.secrets)
  THEN [done EXCEPT !.pc = "fetch", !.i = @ + 1, !.j = 1]
  ELSE [done EXCEPT !.pc = "event", !.matched = <<>>, !.i = 1, !.j = 1]

\* createSecret returned: an error is logged, and the loops go on.
Returned(jb, ok) ==
  LET done == [jb EXCEPT !.ver = 0, !.failed = @ \/ ~ok] IN
  IF jb.j < Len(jb.matched)
  THEN [done EXCEPT !.pc = "fetch", !.j = @ + 1]
  ELSE IF jb.i < Len(jb.crypt.spec.secrets)
  THEN [done EXCEPT !.pc = "fetch", !.i = @ + 1, !.j = 1]
  ELSE [done EXCEPT !.pc = "event", !.matched = <<>>, !.i = 1, !.j = 1]

\* Mutant of newSecret: no owner reference.
newSecretWithoutOwner(jb) ==
  [owner |-> NoCrypt, key |-> Def(jb).key, ver |-> jb.ver,
   type |-> GetType(Def(jb))]

\* Mutant of newSecret: the owner's UID is looked up when the secret is made.
newSecretOfLatest(jb) ==
  [owner |-> [key |-> jb.key, uid |-> uids[jb.key]],
   key |-> Def(jb).key, ver |-> jb.ver, type |-> GetType(Def(jb))]

newSecret(jb) ==
  [owner |-> [key |-> jb.key, uid |-> jb.crypt.uid],
   key |-> Def(jb).key, ver |-> jb.ver, type |-> GetType(Def(jb))]

WriteSecret(jb) == secrets' = [secrets EXCEPT ![Target(jb)] = newSecret(jb)]

fetchObject(w) ==
  /\ At(w, "fetch")
  /\ LET jb == job[w]
         obj == store[Def(jb).key]
     IN \/ /\ obj.readable
           /\ Continue(w, [jb EXCEPT !.pc = "create", !.ver = obj.ver])
           /\ UNCHANGED moves
        \/ ~obj.readable /\ Continue(w, Returned(jb, FALSE)) /\ UNCHANGED moves
        \/ Move("store fails") /\ Continue(w, Returned(jb, FALSE))
  /\ UNCHANGED <<clusterVars, queueVars>>

createSecret(w) ==
  /\ At(w, "create")
  /\ LET jb == job[w]
         exists == secrets[Target(jb)] # NoSecret
     IN \/ /\ Target(jb)[1] \notin namespaces
           /\ Continue(w, Returned(jb, FALSE))
           /\ UNCHANGED secrets
        \/ /\ Target(jb)[1] \in namespaces /\ ~exists
           /\ WriteSecret(jb)
           /\ Continue(w, Returned(jb, TRUE))
        \/ /\ Target(jb)[1] \in namespaces /\ exists
           /\ Continue(w, [jb EXCEPT !.pc = "update"])
           /\ UNCHANGED secrets
  /\ UNCHANGED <<namespaces, crypts, uids, store, moves, queueVars>>

\* The API server refuses to change the type of a secret; others' secrets are
\* Opaque, as kubectl makes them.
TypeOf(secret) == IF secret = Foreign THEN Opaque ELSE secret.type
Updatable(jb) ==
  /\ secrets[Target(jb)] # NoSecret
  /\ TypeOf(secrets[Target(jb)]) = newSecret(jb).type

\* Update carries no resource version: it overwrites whatever is there.
updateSecret(w) ==
  /\ At(w, "update")
  /\ LET jb == job[w] IN
       \/ /\ ~Updatable(jb)
          /\ Continue(w, Returned(jb, FALSE))
          /\ UNCHANGED secrets
       \/ /\ Updatable(jb)
          /\ WriteSecret(jb)
          /\ Continue(w, Returned(jb, TRUE))
  /\ UNCHANGED <<namespaces, crypts, uids, store, moves, queueVars>>

\* Create or Update fails, and the API server may have done it all the same.
WriteFails(w) ==
  /\ \/ At(w, "create")
     \/ At(w, "update")
  /\ Move("write fails")
  /\ LET jb == job[w] IN
       /\ Continue(w, Returned(jb, FALSE))
       /\ \/ UNCHANGED secrets
          \/ /\ Target(jb)[1] \in namespaces
             /\ IF At(w, "create") THEN secrets[Target(jb)] = NoSecret
                ELSE Updatable(jb)
             /\ WriteSecret(jb)
  /\ UNCHANGED <<namespaces, crypts, uids, store, queueVars>>

\* The event "Synced" is recorded on the crypt, whatever the calls returned.
recordSynced(w) == At(w, "event") /\ FinishItem(w)
-----------------------------------------------------------------------------
Environment ==
  \/ \E k \in Crypts, spec \in Specs : CreateCrypt(k, spec) \/ UpdateCrypt(k, spec)
  \/ \E k \in Crypts : DeleteCrypt(k)
  \/ \E n \in Namespaces : CreateNamespace(n) \/ DeleteNamespace(n)
  \/ \E s \in SecretIds : DeleteSecret(s) \/ PutForeignSecret(s)
  \/ \E key \in StoreKeys, readable \in BOOLEAN : WriteStore(key, readable)
  \/ Crash

ResyncAny == \E k \in Crypts : Resync(k)
CollectAny == \E s \in SecretIds : CollectGarbage(s)

DeleteHandler == (\E d \in deleted : handleSecretDelete(d)) \/ enqueueOwner

Handlers ==
  \/ ListCrypts \/ ListNamespaces \/ ListSecrets
  \/ RelistCrypts \/ RelistNamespaces \/ RelistSecrets
  \/ CryptEvent \/ NamespaceEvent
  \/ \E n \in Namespaces : handleNamespaceAdd(n)
  \/ DeleteHandler

RipenKey(k) ==
  /\ WQ!Ripen(k)
  /\ UNCHANGED <<clusterVars, moves, watchVars, cacheVars, nsAdded, lookup, job>>

WorkerStep(w) ==
  \/ TakeItem(w) \/ GetCrypt(w) \/ findNamespaceMatches(w)
  \/ fetchObject(w) \/ createSecret(w) \/ updateSecret(w) \/ WriteFails(w)
  \/ recordSynced(w)

Next ==
  \/ Environment
  \/ CollectAny
  \/ ResyncAny
  \/ Handlers
  \/ \E k \in Crypts : RipenKey(k)
  \/ \E w \in Workers : WorkerStep(w)

Spec == Init /\ [][Next]_vars

\* Goroutines are scheduled, calls return, delays elapse, the cluster's watches
\* deliver, its garbage collector runs, and the resync timer fires.
Fairness ==
  /\ WF_vars(ListCrypts) /\ WF_vars(ListNamespaces) /\ WF_vars(ListSecrets)
  /\ WF_vars(CryptEvent) /\ WF_vars(NamespaceEvent)
  /\ \A n \in Namespaces : WF_vars(handleNamespaceAdd(n))
  /\ WF_vars(DeleteHandler)
  /\ \A k \in Crypts : WF_vars(RipenKey(k)) /\ WF_vars(Resync(k))
  /\ \A w \in Workers : WF_vars(WorkerStep(w))
  /\ WF_vars(CollectAny)

FairSpec == Spec /\ Fairness
-----------------------------------------------------------------------------
(* Properties. *)

\* No crypt is synced by two workers at once: a key that is requested again
\* during its sync waits until that sync is done.
ExclusiveSync ==
  \A v, w \in Workers :
    v # w /\ job[v] # NoJob /\ job[w] # NoJob => job[v].key # job[w].key

\* Two consecutive writes of a secret on behalf of the same crypt and store key
\* never go back to an older value, although each sync writes a value it read
\* earlier and Update is unconditional.
SameOrigin(old, new) == old.owner.key = new.owner.key /\ old.key = new.key

NeverRegress ==
  [][\A s \in SecretIds :
       /\ secrets[s] \notin {NoSecret, Foreign}
       /\ secrets'[s] \notin {NoSecret, Foreign}
       /\ SameOrigin(secrets[s], secrets'[s])
       => secrets[s].ver <= secrets'[s].ver]_secrets

\* Why both hold: the loops of a sync index what they iterate over, the key of
\* a running sync is held in the queue, and a value on its way is no newer than
\* the store and no older than what the sync's own crypt wrote before.
InBounds(jb) ==
  /\ IF jb.pc = "get" THEN jb.i = 1 ELSE jb.crypt # NoCrypt
  /\ jb.pc \in {"get", "match"} => jb.j = 1
  /\ jb.pc = "match" => jb.i \in 1..Len(jb.crypt.spec.patterns)
  /\ jb.pc \in {"fetch", "create", "update"} =>
       jb.i \in 1..Len(jb.crypt.spec.secrets) /\ jb.j \in 1..Len(jb.matched)

JobsInBounds == \A w \in Workers : job[w] # NoJob => InBounds(job[w])

KeysHeld == \A w \in Workers : job[w] # NoJob => job[w].key \in processing

InOrder(jb) ==
  jb.pc \in {"create", "update"} =>
    /\ jb.ver <= store[Def(jb).key].ver
    /\ Owned(Target(jb)) /\ SameOrigin(secrets[Target(jb)], newSecret(jb)) =>
         secrets[Target(jb)].ver <= jb.ver

NeverAhead ==
  /\ \A s \in SecretIds :
       Owned(s) => secrets[s].ver <= store[secrets[s].key].ver
  /\ \A w \in Workers : job[w] # NoJob => InOrder(job[w])

SyncInv ==
  /\ JobsInBounds
  /\ WQ!QueueIsDirtyIdle
  /\ KeysHeld
  /\ ExclusiveSync
  /\ NeverAhead

\* Something that will lead to another sync of k, or may: an event of a crypt,
\* namespace or secret on its way, or the key in the queue.
Pending(k) ==
  \/ ~Ready
  \/ \E e \in ToSet(cryptWatch) : e.key = k
  \/ nsWatch # <<>> \/ nsAdded # {}
  \/ \E d \in deleted : d.owner # Foreign /\ d.owner.key = k
  \/ lookup # NoTask /\ lookup.owner.key = k
  \/ k \in waiting \cup dirty \cup processing

\* The pairs <<target namespace, secret definition>> crypt k asks for.
Wanted(k) ==
  {nd \in namespaces \X ToSet(crypts[k].spec.secrets) :
     \E p \in ToSet(crypts[k].spec.patterns) : nd[1] \in Matches[p]}

\* Secret s is written for definition d of the crypt now stored under k.
WrittenFor(s, d, k) ==
  /\ Owned(s)
  /\ secrets[s].owner = [key |-> k, uid |-> crypts[k].uid]
  /\ secrets[s].key = d.key /\ secrets[s].type = GetType(d)

\* When nothing is pending for a crypt, each secret it asks for exists in each
\* namespace it matches.
Settled ==
  \A k \in Crypts :
    crypts[k] # NoCrypt /\ ~Pending(k) =>
      \A nd \in Wanted(k) : WrittenFor(<<nd[1], nd[2].name>>, nd[2], k)

\* No other crypt asks for secret s, too: two that do overwrite it in turns.
Sole(k, s) ==
  \A other \in Crypts \ {k} :
    crypts[other] # NoCrypt =>
      \A nd \in Wanted(other) : <<nd[1], nd[2].name>> # s

\* Once the environment rests, every secret that one crypt asks for and the
\* store can supply ends up holding the store's current value, for good,
\* whatever calls failed, secrets were replaced or events were missed before.
\* Not so for a crypt that defines one secret twice, or after a definition's type
\* was edited (DataFollowsStore): the plans of the run, which has one worker, have
\* neither.
EventuallyUpToDate ==
  <>[](\A k \in Crypts :
         crypts[k] # NoCrypt =>
           \A nd \in Wanted(k) :
             LET s == <<nd[1], nd[2].name>> IN
             store[nd[2].key].readable /\ Sole(k, s) =>
               WrittenFor(s, nd[2], k) /\ secrets[s].ver = store[nd[2].key].ver)

\* The secrets of a deleted crypt end up deleted, although a sync may still
\* write some of them after the deletion.  Live takes the collector to resolve an
\* owner by its UID in all namespaces, as newSecret's owner references expect.
OrphansCollected ==
  <>[](\A s \in SecretIds : Owned(s) => Live(secrets[s].owner))
-----------------------------------------------------------------------------
(* What the README and comments say, and the code does not do. *)

\* README: "If new namespaces appear, then crypts will be checked to see if any
\* secrets need to be created in this namespace".  handleNamespaceAdd enqueues
\* every crypt, of the namespaces it knows, with a pattern that matches.
NamespaceChecksEveryCrypt ==
  [][synced' = synced =>
       \A n \in nsAdded \ nsAdded', h \in nsCache :
         MatchingIn(h, n) \subseteq waiting' \cup dirty']_nsAdded

\* README: "If the data in the store changes, then the data in the secrets will
\* be updated".  Once the environment rests, a secret the controller wrote for a
\* crypt holds the current value of the key that crypt names for it.
DataFollowsStore ==
  <>[](\A k \in Crypts :
         crypts[k] # NoCrypt =>
           \A nd \in Wanted(k) :
             LET s == <<nd[1], nd[2].name>> IN
             /\ Owned(s) /\ Sole(k, s) /\ store[nd[2].key].readable
             => secrets[s].ver = store[nd[2].key].ver)

\* MessageResourceSynced is "used for an Event fired when a Crypt is synced
\* successfully": no call of a sync that reports it has failed.
SyncedMeansNoFailure ==
  [][synced' = synced =>
       \A w \in Workers : At(w, "event") /\ job'[w] = NoJob => ~job[w].failed]_job
=============================================================================

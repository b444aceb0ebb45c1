----------------------- MODULE CryptControllerProofs ------------------------
(***************************************************************************)
(* Theorems about CryptController, for every value of its constants.       *)
(***************************************************************************)
EXTENDS CryptController, FiniteSetTheorems, TLAPS

WQP == INSTANCE WorkQueueProofs WITH Items <- Crypts
-----------------------------------------------------------------------------
(* Jobs: each step of a worker leads to a job that is again in bounds. *)

GoodJob(jb) == jb \in Job /\ InBounds(jb)

TypeInv == TypeOK /\ JobsInBounds

LEMMA NewJobGood == ASSUME NEW k \in Crypts PROVE GoodJob(NewJob(k))
  BY DEF GoodJob, Job, InBounds, NewJob, Pcs

\* What createSecret's caller does next is a good job of the same crypt.
LEMMA ReturnedGood ==
  ASSUME NEW jb, GoodJob(jb), jb.pc \in {"fetch", "create", "update"},
         NEW ok \in BOOLEAN
  PROVE  /\ GoodJob(Returned(jb, ok))
         /\ Returned(jb, ok).key = jb.key
         /\ Returned(jb, ok).crypt = jb.crypt
         /\ Returned(jb, ok).matched \in {jb.matched, <<>>}
         /\ Returned(jb, ok).pc \in {"fetch", "event"}
<1>1. jb \in Job /\ jb.crypt \in Crypt /\ jb.crypt.spec.secrets \in Seq(SecretDefs)
  BY DEF GoodJob, Job, InBounds, Crypt, SpecType
<1>2. jb.i \in 1..Len(jb.crypt.spec.secrets) /\ jb.j \in 1..Len(jb.matched)
      /\ jb.matched \in Seq(Namespaces) /\ jb.crypt # NoCrypt
  BY <1>1 DEF GoodJob, InBounds, Job
<1> DEFINE failed == jb.failed \/ ~ok
           done == [jb EXCEPT !.ver = 0, !.failed = failed]
<1>3. failed \in BOOLEAN
  BY <1>1 DEF Job
<1> HIDE DEF failed
<1>4. /\ done \in Job
      /\ done.i = jb.i /\ done.j = jb.j /\ done.crypt = jb.crypt
      /\ done.key = jb.key /\ done.matched = jb.matched
  BY <1>1, <1>3 DEF Job
<1>5. Returned(jb, ok) =
        IF jb.j < Len(jb.matched)
        THEN [done EXCEPT !.pc = "fetch", !.j = @ + 1]
        ELSE IF jb.i < Len(jb.crypt.spec.secrets)
        THEN [done EXCEPT !.pc = "fetch", !.i = @ + 1, !.j = 1]
        ELSE [done EXCEPT !.pc = "event", !.matched = <<>>, !.i = 1, !.j = 1]
  BY DEF Returned, failed
<1> HIDE DEF done
<1>6. CASE jb.j < Len(jb.matched)
  <2> DEFINE next == jb.j + 1
             new == [done EXCEPT !.pc = "fetch", !.j = next]
  <2>0. next \in Nat
    BY <1>2
  <2>3. Returned(jb, ok) = new
    BY <1>4, <1>5, <1>6
  <2> HIDE DEF next
  <2>1. new \in Job
    BY <1>4, <2>0 DEF Job, Pcs
  <2>2. /\ new.pc = "fetch" /\ new.i = jb.i /\ new.j = next
        /\ new.crypt = jb.crypt /\ new.key = jb.key /\ new.matched = jb.matched
    BY <1>4 DEF Job
  <2> HIDE DEF new
  <2>4. InBounds(new)
    BY <1>1, <1>2, <1>6, <2>2 DEF InBounds, next
  <2> QED BY <2>1, <2>2, <2>3, <2>4 DEF GoodJob
<1>7. CASE ~(jb.j < Len(jb.matched)) /\ jb.i < Len(jb.crypt.spec.secrets)
  <2> DEFINE next == jb.i + 1
             new == [done EXCEPT !.pc = "fetch", !.i = next, !.j = 1]
  <2>0. next \in Nat
    BY <1>2
  <2>3. Returned(jb, ok) = new
    BY <1>4, <1>5, <1>7
  <2> HIDE DEF next
  <2>1. new \in Job
    BY <1>4, <2>0 DEF Job, Pcs
  <2>2. /\ new.pc = "fetch" /\ new.i = next /\ new.j = 1
        /\ new.crypt = jb.crypt /\ new.key = jb.key /\ new.matched = jb.matched
    BY <1>4 DEF Job
  <2> HIDE DEF new
  <2>4. InBounds(new)
    BY <1>1, <1>2, <1>7, <2>2 DEF InBounds, next
  <2> QED BY <2>1, <2>2, <2>3, <2>4 DEF GoodJob
<1>8. CASE ~(jb.j < Len(jb.matched)) /\ ~(jb.i < Len(jb.crypt.spec.secrets))
  <2> DEFINE none == <<>>
             new == [done EXCEPT !.pc = "event", !.matched = none,
                                 !.i = 1, !.j = 1]
  <2>0. none \in Seq(Namespaces)
    OBVIOUS
  <2>3. Returned(jb, ok) = new
    BY <1>5, <1>8
  <2> HIDE DEF none
  <2>1. new \in Job
    BY <1>4, <2>0 DEF Job, Pcs
  <2>2. /\ new.pc = "event" /\ new.crypt = jb.crypt /\ new.key = jb.key
        /\ new.matched = none
    BY <1>4 DEF Job
  <2> HIDE DEF new
  <2>4. InBounds(new)
    BY <1>1, <1>2, <1>8, <2>2 DEF InBounds
  <2> QED BY <2>1, <2>2, <2>3, <2>4 DEF GoodJob, none
<1> QED BY <1>6, <1>7, <1>8

\* The secret a job writes next is typed, and so is its place.
LEMMA TargetTyped ==
  ASSUME NEW jb, GoodJob(jb), jb.pc \in {"fetch", "create", "update"}
  PROVE  /\ Def(jb) \in SecretDefs
         /\ Target(jb) \in SecretIds
         /\ newSecret(jb) \in Secret
<1>1. jb \in Job /\ jb.crypt \in Crypt /\ jb.crypt.spec.secrets \in Seq(SecretDefs)
  BY DEF GoodJob, Job, InBounds, Crypt, SpecType
<1>2. jb.i \in 1..Len(jb.crypt.spec.secrets) /\ jb.j \in 1..Len(jb.matched)
      /\ jb.matched \in Seq(Namespaces)
  BY <1>1 DEF GoodJob, InBounds, Job
<1>3. Def(jb) \in SecretDefs
  BY <1>1, <1>2 DEF Def
<1>4. jb.matched[jb.j] \in Namespaces
  BY <1>2
<1>5. GetType(Def(jb)) \in SecretTypes
  BY <1>3, SecretTypesAssumption DEF GetType, SecretDefs
<1> QED BY <1>1, <1>3, <1>4, <1>5
        DEF Target, SecretIds, newSecret, Secret, SecretDefs, Owner, Crypt, Job

\* The lister's answer, in any order, is a sequence of these namespaces.
LEMMA OrderTyped ==
  ASSUME NEW hits \in SUBSET Namespaces, NEW order \in SetToSeqs(hits)
  PROVE  order \in Seq(Namespaces) /\ order \in Seq(hits)
<1>1. IsFiniteSet(hits)
  BY NamespacesAssumption, FS_Subset
<1>2. Cardinality(hits) \in Nat
  BY <1>1, FS_CardinalityType
<1>3. order \in [1..Cardinality(hits) -> hits]
  BY DEF SetToSeqs
<1> QED BY <1>2, <1>3

\* Some events of namespaces, in any order.
LEMMA ChangesTyped ==
  ASSUME NEW events \in SUBSET NsEvent, NEW order \in SetToSeqs(events)
  PROVE  order \in Seq(NsEvent)
<1>1. IsFiniteSet(NsEvent)
  <2> DEFINE pairs == Namespaces \X BOOLEAN
             event == [p \in pairs |-> [ns |-> p[1], present |-> p[2]]]
  <2>1. IsFiniteSet({TRUE, FALSE}) /\ BOOLEAN = {TRUE, FALSE}
    <3>1. IsFiniteSet({FALSE})
      BY FS_Singleton
    <3>2. IsFiniteSet({FALSE} \cup {TRUE})
      BY <3>1, FS_AddElement
    <3>3. {FALSE} \cup {TRUE} = {TRUE, FALSE}
      OBVIOUS
    <3>4. BOOLEAN = {TRUE, FALSE}
      BY Zenon
    <3> QED BY <3>2, <3>3, <3>4
  <2>2. IsFiniteSet(pairs)
    BY <2>1, NamespacesAssumption, FS_Product
  <2>3. event \in Surjection(pairs, NsEvent)
    <3>1. \A p \in pairs : event[p] \in NsEvent
      BY DEF NsEvent
    <3>2. ASSUME NEW e \in NsEvent PROVE \E p \in pairs : event[p] = e
      <4>1. <<e.ns, e.present>> \in pairs /\ event[<<e.ns, e.present>>] = e
        BY DEF NsEvent
      <4> QED BY <4>1
    <3> HIDE DEF pairs
    <3>3. event \in [pairs -> NsEvent]
      BY <3>1
    <3> QED BY <3>2, <3>3 DEF Surjection
  <2> QED BY <2>2, <2>3, FS_Surjection
<1>2. PICK m \in Nat : m = Cardinality(events)
  BY <1>1, FS_Subset, FS_CardinalityType
<1>3. order \in [1..m -> events]
  BY <1>2 DEF SetToSeqs
<1> QED BY <1>3

LEMMA ContinueGood ==
  ASSUME TypeInv, NEW w \in Workers, NEW next, next = NoJob \/ GoodJob(next),
         Continue(w, next)
  PROVE  job' \in [Workers -> Job \cup {NoJob}] /\ JobsInBounds'
<1>1. job \in [Workers -> Job \cup {NoJob}] /\ job' = [job EXCEPT ![w] = next]
  BY DEF TypeInv, TypeOK, Continue
<1>2. job' \in [Workers -> Job \cup {NoJob}]
  BY <1>1 DEF GoodJob
<1>3. ASSUME NEW v \in Workers, job'[v] # NoJob PROVE InBounds(job'[v])
  BY <1>1, <1>3 DEF TypeInv, JobsInBounds, GoodJob
<1>4. JobsInBounds'
  BY <1>3 DEF JobsInBounds, InBounds
<1> QED BY <1>2, <1>4
-----------------------------------------------------------------------------
(* Type correctness: one lemma per group of actions. *)

LEMMA InitTyped == Init => TypeInv
<1> SUFFICES ASSUME Init PROVE TypeInv
  OBVIOUS
<1>1. cryptWatch \in Seq(Watched) /\ nsWatch \in Seq(NsEvent)
  BY DEF Init, ProcessInit
<1>2. WQ!WQTypeOK
  BY DEF Init, ProcessInit, WQ!WQInit, WQ!WQTypeOK
<1>3. TypeOK
  BY <1>1, <1>2, NamespacesAssumption, MaxMovesAssumption
     DEF Init, ProcessInit, TypeOK, Moves
<1>4. JobsInBounds
  BY DEF Init, ProcessInit, JobsInBounds
<1> QED BY <1>3, <1>4 DEF TypeInv

LEMMA SameJobs ==
  ASSUME TypeInv, UNCHANGED job
  PROVE  job' \in [Workers -> Job \cup {NoJob}] /\ JobsInBounds'
  BY DEF TypeInv, TypeOK, JobsInBounds, InBounds

LEMMA SameQueue ==
  ASSUME TypeInv, UNCHANGED queueVars
  PROVE  WQ!WQTypeOK'
  BY DEF TypeInv, TypeOK, queueVars, WQ!WQTypeOK

LEMMA EnqueueTyped ==
  ASSUME TypeInv, NEW keys \in SUBSET Crypts, enqueueCrypt(keys)
  PROVE  WQ!WQTypeOK'
  BY DEF TypeInv, TypeOK, enqueueCrypt, WQ!AddRateLimited, WQ!WQTypeOK

LEMMA MoveTyped ==
  ASSUME TypeInv, NEW kind, Move(kind)
  PROVE  moves' \in Moves
  BY MaxMovesAssumption DEF TypeInv, TypeOK, Move, Moves

LEMMA PublishTyped ==
  ASSUME NEW S, NEW stream \in Seq(S), NEW event \in S, NEW informer
  PROVE  Publish(informer, stream, event) \in Seq(S)
  BY DEF Publish

LEMMA GoneTyped ==
  ASSUME TypeInv, NEW ids \in SUBSET SecretIds
  PROVE  Gone(ids) \subseteq Deletion
<1>1. ASSUME NEW s \in ids, secrets[s] # NoSecret
      PROVE  [id |-> s, owner |-> IF secrets[s] = Foreign THEN Foreign
                                  ELSE secrets[s].owner] \in Deletion
  BY <1>1 DEF TypeInv, TypeOK, Deletion, Secret
<1> QED BY <1>1 DEF Gone

LEMMA PutCryptTyped ==
  ASSUME TypeInv, NEW k \in Crypts, NEW obj \in Crypt \cup {NoCrypt},
         PutCrypt(k, obj), uids' \in [Crypts -> Nat], moves' \in Moves
  PROVE  TypeInv'
<1>1. [key |-> k, obj |-> obj] \in Watched
  BY DEF Watched
<1>2. cryptWatch' \in Seq(Watched)
  BY <1>1, PublishTyped DEF TypeInv, TypeOK, PutCrypt
<1>3. crypts' \in [Crypts -> Crypt \cup {NoCrypt}]
  BY DEF TypeInv, TypeOK, PutCrypt
<1>4. job' \in [Workers -> Job \cup {NoJob}] /\ JobsInBounds' /\ WQ!WQTypeOK'
  BY SameJobs, SameQueue DEF PutCrypt
<1> QED BY <1>2, <1>3, <1>4 DEF TypeInv, TypeOK, PutCrypt, cacheVars

LEMMA RemoveSecretTyped ==
  ASSUME TypeInv, NEW s \in SecretIds, RemoveSecret(s), moves' \in Moves
  PROVE  TypeInv'
<1>1. deleted' \subseteq Deletion
  BY GoneTyped DEF TypeInv, TypeOK, RemoveSecret
<1>2. job' \in [Workers -> Job \cup {NoJob}] /\ JobsInBounds' /\ WQ!WQTypeOK'
  BY SameJobs, SameQueue DEF RemoveSecret
<1>3. secrets' \in [SecretIds -> Secret \cup {Foreign, NoSecret}]
  BY DEF TypeInv, TypeOK, RemoveSecret
<1> QED BY <1>1, <1>2, <1>3 DEF TypeInv, TypeOK, RemoveSecret, cacheVars

LEMMA EnvironmentTyped ==
  ASSUME TypeInv, Environment
  PROVE  TypeInv'
<1>1. ASSUME NEW k \in Crypts, NEW spec \in Specs, CreateCrypt(k, spec)
      PROVE  TypeInv'
  <2>1. [uid |-> uids[k] + 1, spec |-> spec] \in Crypt
    BY SpecsAssumption DEF TypeInv, TypeOK, Crypt
  <2>2. uids' \in [Crypts -> Nat]
    BY <1>1 DEF CreateCrypt, TypeInv, TypeOK
  <2> QED BY <1>1, <2>1, <2>2, MoveTyped, PutCryptTyped DEF CreateCrypt
<1>2. ASSUME NEW k \in Crypts, NEW spec \in Specs, UpdateCrypt(k, spec)
      PROVE  TypeInv'
  <2>1. [crypts[k] EXCEPT !.spec = spec] \in Crypt
    BY <1>2, SpecsAssumption DEF UpdateCrypt, TypeInv, TypeOK, Crypt
  <2>2. uids' \in [Crypts -> Nat]
    BY <1>2 DEF UpdateCrypt, TypeInv, TypeOK
  <2> QED BY <1>2, <2>1, <2>2, MoveTyped, PutCryptTyped DEF UpdateCrypt
<1>3. ASSUME NEW k \in Crypts, DeleteCrypt(k)
      PROVE  TypeInv'
  <2>1. uids' \in [Crypts -> Nat]
    BY <1>3 DEF DeleteCrypt, TypeInv, TypeOK
  <2> QED BY <1>3, <2>1, MoveTyped, PutCryptTyped DEF DeleteCrypt
<1>4. ASSUME NEW n \in Namespaces, CreateNamespace(n)
      PROVE  TypeInv'
  <2>1. nsWatch' \in Seq(NsEvent)
    <3>1. [ns |-> n, present |-> TRUE] \in NsEvent
      BY DEF NsEvent
    <3> QED BY <1>4, <3>1, PublishTyped DEF CreateNamespace, TypeInv, TypeOK
  <2>2. job' \in [Workers -> Job \cup {NoJob}] /\ JobsInBounds' /\ WQ!WQTypeOK'
    BY <1>4, SameJobs, SameQueue DEF CreateNamespace
  <2>3. moves' \in Moves
    BY <1>4, MoveTyped DEF CreateNamespace
  <2> QED BY <1>4, <2>1, <2>2, <2>3
          DEF CreateNamespace, TypeInv, TypeOK, cacheVars
<1>5. ASSUME NEW n \in Namespaces, DeleteNamespace(n)
      PROVE  TypeInv'
  <2>1. nsWatch' \in Seq(NsEvent)
    <3>1. [ns |-> n, present |-> FALSE] \in NsEvent
      BY DEF NsEvent
    <3> QED BY <1>5, <3>1, PublishTyped DEF DeleteNamespace, TypeInv, TypeOK
  <2>2. job' \in [Workers -> Job \cup {NoJob}] /\ JobsInBounds' /\ WQ!WQTypeOK'
    BY <1>5, SameJobs, SameQueue DEF DeleteNamespace
  <2>3. moves' \in Moves
    BY <1>5, MoveTyped DEF DeleteNamespace
  <2>4. deleted' \subseteq Deletion
    BY <1>5, GoneTyped DEF DeleteNamespace, TypeInv, TypeOK
  <2>5. secrets' \in [SecretIds -> Secret \cup {Foreign, NoSecret}]
    BY <1>5 DEF DeleteNamespace, TypeInv, TypeOK
  <2> QED BY <1>5, <2>1, <2>2, <2>3, <2>4, <2>5
          DEF DeleteNamespace, TypeInv, TypeOK, cacheVars
<1>6. ASSUME NEW s \in SecretIds, DeleteSecret(s)
      PROVE  TypeInv'
  BY <1>6, MoveTyped, RemoveSecretTyped DEF DeleteSecret
<1>7. ASSUME NEW s \in SecretIds, PutForeignSecret(s)
      PROVE  TypeInv'
  <2>1. job' \in [Workers -> Job \cup {NoJob}] /\ JobsInBounds' /\ WQ!WQTypeOK'
    BY <1>7, SameJobs, SameQueue DEF PutForeignSecret
  <2>2. moves' \in Moves
    BY <1>7, MoveTyped DEF PutForeignSecret
  <2>3. secrets' \in [SecretIds -> Secret \cup {Foreign, NoSecret}]
    BY <1>7 DEF PutForeignSecret, TypeInv, TypeOK
  <2> QED BY <1>7, <2>1, <2>2, <2>3
          DEF PutForeignSecret, TypeInv, TypeOK, cacheVars, watchVars
<1>8. ASSUME NEW key \in StoreKeys, NEW readable \in BOOLEAN,
             WriteStore(key, readable)
      PROVE  TypeInv'
  <2>1. job' \in [Workers -> Job \cup {NoJob}] /\ JobsInBounds' /\ WQ!WQTypeOK'
    BY <1>8, SameJobs, SameQueue DEF WriteStore
  <2>2. moves' \in Moves
    BY <1>8, MoveTyped DEF WriteStore
  <2>3. store' \in [StoreKeys -> [ver: Nat, readable: BOOLEAN]]
    <3>1. [ver |-> store[key].ver + 1, readable |-> readable]
            \in [ver: Nat, readable: BOOLEAN]
      BY DEF TypeInv, TypeOK
    <3> QED BY <1>8, <3>1 DEF WriteStore, TypeInv, TypeOK
  <2> QED BY <1>8, <2>1, <2>2, <2>3
          DEF WriteStore, TypeInv, TypeOK, cacheVars, watchVars
<1>9. CASE Crash
  <2>1. moves' \in Moves
    BY <1>9, MoveTyped DEF Crash
  <2>2. cryptWatch' \in Seq(Watched) /\ nsWatch' \in Seq(NsEvent)
    BY <1>9 DEF Crash
  <2>3. WQ!WQTypeOK'
    BY <1>9 DEF Crash, WQ!WQTypeOK
  <2>4. job' \in [Workers -> Job \cup {NoJob}] /\ JobsInBounds'
    BY <1>9 DEF Crash, JobsInBounds
  <2> QED BY <1>9, <2>1, <2>2, <2>3, <2>4 DEF Crash, TypeInv, TypeOK, clusterVars
<1> QED BY <1>1, <1>2, <1>3, <1>4, <1>5, <1>6, <1>7, <1>8, <1>9 DEF Environment

LEMMA HandlersTyped ==
  ASSUME TypeInv, Handlers
  PROVE  TypeInv'
<1>1. CASE ListCrypts
  <2>1. WQ!WQTypeOK'
    BY <1>1, EnqueueTyped DEF ListCrypts
  <2>2. job' \in [Workers -> Job \cup {NoJob}] /\ JobsInBounds'
    BY <1>1, SameJobs DEF ListCrypts
  <2> QED BY <1>1, <2>1, <2>2, InformersAssumption
          DEF ListCrypts, TypeInv, TypeOK, clusterVars, watchVars
<1>2. CASE ListNamespaces
  <2>1. job' \in [Workers -> Job \cup {NoJob}] /\ JobsInBounds' /\ WQ!WQTypeOK'
    BY <1>2, SameJobs, SameQueue DEF ListNamespaces
  <2> QED BY <1>2, <2>1, InformersAssumption
          DEF ListNamespaces, TypeInv, TypeOK, clusterVars, watchVars
<1>3. CASE ListSecrets
  <2>1. job' \in [Workers -> Job \cup {NoJob}] /\ JobsInBounds' /\ WQ!WQTypeOK'
    BY <1>3, SameJobs, SameQueue DEF ListSecrets
  <2> QED BY <1>3, <2>1, InformersAssumption
          DEF ListSecrets, TypeInv, TypeOK, clusterVars, watchVars
<1>4. CASE CryptEvent
  <2> DEFINE e == Head(cryptWatch)
  <2>1. e \in Watched /\ Tail(cryptWatch) \in Seq(Watched)
    BY <1>4 DEF CryptEvent, TypeInv, TypeOK
  <2>2. WQ!WQTypeOK'
    <3>1. Notified(e) \in SUBSET Crypts
      BY <2>1 DEF Notified, Watched
    <3> QED BY <1>4, <3>1, EnqueueTyped DEF CryptEvent
  <2>3. cryptCache' \in [Crypts -> Crypt \cup {NoCrypt}]
    BY <1>4, <2>1 DEF CryptEvent, Cached, Watched, TypeInv, TypeOK
  <2>4. job' \in [Workers -> Job \cup {NoJob}] /\ JobsInBounds'
    BY <1>4, SameJobs DEF CryptEvent
  <2> QED BY <1>4, <2>1, <2>2, <2>3, <2>4
          DEF CryptEvent, TypeInv, TypeOK, clusterVars
<1>5. CASE NamespaceEvent
  <2> DEFINE e == Head(nsWatch)
  <2>1. nsWatch # <<>> => e \in NsEvent /\ Tail(nsWatch) \in Seq(NsEvent)
    BY DEF TypeInv, TypeOK
  <2>2. /\ nsListed' \subseteq Namespaces /\ nsCache' \subseteq Namespaces
        /\ nsAdded' \subseteq Namespaces /\ nsWatch' \in Seq(NsEvent)
    BY <1>5, <2>1 DEF NamespaceEvent, NsEvent, TypeInv, TypeOK
  <2>3. job' \in [Workers -> Job \cup {NoJob}] /\ JobsInBounds' /\ WQ!WQTypeOK'
    BY <1>5, SameJobs, SameQueue DEF NamespaceEvent
  <2> QED BY <1>5, <2>1, <2>2, <2>3
          DEF NamespaceEvent, TypeInv, TypeOK, clusterVars
<1>6. ASSUME NEW n \in Namespaces, handleNamespaceAdd(n)
      PROVE  TypeInv'
  <2>1. WQ!WQTypeOK'
    BY <1>6, EnqueueTyped DEF handleNamespaceAdd
  <2>2. job' \in [Workers -> Job \cup {NoJob}] /\ JobsInBounds'
    BY <1>6, SameJobs DEF handleNamespaceAdd
  <2> QED BY <1>6, <2>1, <2>2
          DEF handleNamespaceAdd, TypeInv, TypeOK, clusterVars, watchVars, cacheVars
<1>7. ASSUME NEW d \in deleted, handleSecretDelete(d)
      PROVE  TypeInv'
  <2>1. job' \in [Workers -> Job \cup {NoJob}] /\ JobsInBounds' /\ WQ!WQTypeOK'
    BY <1>7, SameJobs, SameQueue DEF handleSecretDelete
  <2>2. moves' \in Moves
    BY <1>7, MoveTyped DEF handleSecretDelete, TypeInv, TypeOK
  <2>3. d.owner \in Owner \cup {Foreign}
    BY DEF TypeInv, TypeOK, Deletion
  <2> DEFINE homes == {k.ns : k \in {c \in Crypts : crypts[c] # NoCrypt}}
  <2>4. homes \subseteq Namespaces
    BY CryptsAssumption
  <2>5. lookup' \in Task \cup {NoTask}
    <3>1. \/ lookup' = lookup
          \/ d.owner # Foreign /\ lookup' = [owner |-> d.owner, seen |-> homes]
          \/ d.owner # Foreign /\ lookup' = [owner |-> d.owner, seen |-> {}]
      BY <1>7 DEF handleSecretDelete
    <3> HIDE DEF homes
    <3>2. lookup \in Task \cup {NoTask}
      BY DEF TypeInv, TypeOK
    <3> QED BY <2>3, <2>4, <3>1, <3>2 DEF Task
  <2> QED BY <1>7, <2>1, <2>2, <2>5
          DEF handleSecretDelete, TypeInv, TypeOK, clusterVars, cacheVars
<1>8. CASE enqueueOwner
  <2>1. WQ!WQTypeOK'
    BY <1>8, SameQueue, EnqueueTyped DEF enqueueOwner, SameName, CachedCrypts
  <2>2. job' \in [Workers -> Job \cup {NoJob}] /\ JobsInBounds'
    BY <1>8, SameJobs DEF enqueueOwner
  <2> QED BY <1>8, <2>1, <2>2
          DEF enqueueOwner, TypeInv, TypeOK, clusterVars, watchVars, cacheVars
<1>9. CASE RelistCrypts
  <2>1. WQ!WQTypeOK'
    BY <1>9, EnqueueTyped DEF RelistCrypts
  <2>2. job' \in [Workers -> Job \cup {NoJob}] /\ JobsInBounds'
    BY <1>9, SameJobs DEF RelistCrypts
  <2>3. moves' \in Moves
    BY <1>9, MoveTyped DEF RelistCrypts, TypeInv, TypeOK
  <2> QED BY <1>9, <2>1, <2>2, <2>3
          DEF RelistCrypts, TypeInv, TypeOK, clusterVars
<1>10. CASE RelistNamespaces
  <2>1. job' \in [Workers -> Job \cup {NoJob}] /\ JobsInBounds' /\ WQ!WQTypeOK'
    BY <1>10, SameJobs, SameQueue DEF RelistNamespaces
  <2>2. moves' \in Moves
    BY <1>10, MoveTyped DEF RelistNamespaces, TypeInv, TypeOK
  <2>3. nsWatch' \in Seq(NsEvent)
    <3> DEFINE known == nsCache \cup nsListed
               events == [ns: namespaces \ known, present: {TRUE}]
                           \cup [ns: known \ namespaces, present: {FALSE}]
    <3>1. events \in SUBSET NsEvent
      BY DEF TypeInv, TypeOK, NsEvent
    <3>2. nsWatch' \in SetToSeqs(events)
      BY <1>10 DEF RelistNamespaces
    <3> HIDE DEF events
    <3> QED BY <3>1, <3>2, ChangesTyped
  <2> QED BY <1>10, <2>1, <2>2, <2>3
          DEF RelistNamespaces, TypeInv, TypeOK, clusterVars, cacheVars
<1>11. CASE RelistSecrets
  <2>1. job' \in [Workers -> Job \cup {NoJob}] /\ JobsInBounds' /\ WQ!WQTypeOK'
    BY <1>11, SameJobs, SameQueue DEF RelistSecrets
  <2>2. moves' \in Moves
    BY <1>11, MoveTyped DEF RelistSecrets, TypeInv, TypeOK
  <2>3. deleted' \subseteq Deletion
    BY <1>11 DEF RelistSecrets, TypeInv, TypeOK
  <2> QED BY <1>11, <2>1, <2>2, <2>3
          DEF RelistSecrets, TypeInv, TypeOK, clusterVars, cacheVars
<1> QED BY <1>1, <1>2, <1>3, <1>4, <1>5, <1>6, <1>7, <1>8, <1>9, <1>10, <1>11
        DEF Handlers, DeleteHandler

LEMMA WorkerTyped ==
  ASSUME TypeInv, NEW w \in Workers, WorkerStep(w)
  PROVE  TypeInv'
<1>1. ASSUME job[w] # NoJob PROVE GoodJob(job[w])
  BY <1>1 DEF GoodJob, TypeInv, TypeOK, JobsInBounds
\* What is left to show of a step that continues with a good job.
<1>2. ASSUME NEW next, next = NoJob \/ GoodJob(next), Continue(w, next),
             UNCHANGED <<namespaces, crypts, uids, store>>,
             moves' \in Moves, WQ!WQTypeOK',
             secrets' \in [SecretIds -> Secret \cup {Foreign, NoSecret}]
      PROVE  TypeInv'
  <2>1. job' \in [Workers -> Job \cup {NoJob}] /\ JobsInBounds'
    BY <1>2, ContinueGood
  <2> QED BY <1>2, <2>1 DEF Continue, TypeInv, TypeOK, watchVars, cacheVars
<1>3. /\ moves \in Moves
      /\ secrets \in [SecretIds -> Secret \cup {Foreign, NoSecret}]
  BY DEF TypeInv, TypeOK
<1>4. ASSUME NEW jb, GoodJob(jb), jb.pc \in {"create", "update"}, WriteSecret(jb)
      PROVE  secrets' \in [SecretIds -> Secret \cup {Foreign, NoSecret}]
  BY <1>3, <1>4, TargetTyped DEF WriteSecret
<1>5. CASE TakeItem(w)
  <2>1. Head(queue) \in Crypts /\ WQ!WQTypeOK'
    BY <1>5 DEF TakeItem, TypeInv, TypeOK, WQ!WQTypeOK, WQ!Get
  <2>2. GoodJob(NewJob(Head(queue)))
    BY <2>1, NewJobGood
  <2> QED BY <1>2, <1>3, <1>5, <2>1, <2>2 DEF TakeItem, clusterVars
<1>6. ASSUME job[w] # NoJob, FinishItem(w)
      PROVE  TypeInv'
  <2>1. job[w].key \in Crypts
    BY <1>1, <1>6 DEF GoodJob, Job
  <2>2. WQ!WQTypeOK'
    BY <1>6, <2>1 DEF FinishItem, TypeInv, TypeOK, WQ!WQTypeOK, WQ!Done
  <2> QED BY <1>2, <1>3, <1>6, <2>2 DEF FinishItem, clusterVars
<1>7. CASE GetCrypt(w)
  <2> DEFINE crypt == cryptCache[job[w].key]
  <2>1. GoodJob(job[w]) /\ job[w] # NoJob /\ job[w] \in Job
    BY <1>1, <1>7 DEF GetCrypt, At, GoodJob
  <2>2. CASE crypt = NoCrypt
    BY <1>6, <1>7, <2>1, <2>2 DEF GetCrypt
  <2>3. CASE crypt # NoCrypt
    <3> DEFINE pc == IF crypt.spec.patterns = <<>> THEN "event" ELSE "match"
               next == [job[w] EXCEPT !.crypt = crypt, !.pc = pc]
    <3>1. crypt \in Crypt /\ crypt.spec.patterns \in Seq(Patterns)
      BY <2>1, <2>3 DEF Job, TypeInv, TypeOK, Crypt, SpecType
    <3>2. Continue(w, next) /\ UNCHANGED <<clusterVars, moves, queueVars>>
      BY <1>7, <2>3 DEF GetCrypt
    <3>3. pc \in {"event", "match"} /\ (pc = "match" => crypt.spec.patterns # <<>>)
      OBVIOUS
    <3> HIDE DEF pc, crypt
    <3>4. GoodJob(next)
      <4>1. next \in Job /\ next.pc = pc /\ next.crypt = crypt /\ next.i = job[w].i
        BY <2>1, <3>1, <3>3 DEF Job, Pcs
      <4>2. job[w].i = 1 /\ job[w].j = 1 /\ next.j = job[w].j
        BY <1>7, <2>1 DEF GetCrypt, At, GoodJob, InBounds, Job
      <4>3. pc = "match" => 1 \in 1..Len(crypt.spec.patterns)
        BY <3>1, <3>3
      <4> QED BY <2>3, <3>3, <4>1, <4>2, <4>3 DEF GoodJob, InBounds
    <3> QED BY <1>2, <1>3, <3>2, <3>4, SameQueue DEF clusterVars
  <2> QED BY <2>2, <2>3
<1>8. CASE findNamespaceMatches(w)
  <2> DEFINE jb == job[w]
             patterns == jb.crypt.spec.patterns
             hits == nsCache \cap Matches[patterns[jb.i]]
  <2>1. GoodJob(jb) /\ job[w] # NoJob /\ jb \in Job /\ jb.pc = "match"
    BY <1>1, <1>8 DEF findNamespaceMatches, At, GoodJob
  <2>2. jb.crypt \in Crypt /\ patterns \in Seq(Patterns) /\ jb.j = 1
        /\ jb.crypt.spec.secrets \in Seq(SecretDefs)
        /\ jb.i \in 1..Len(patterns) /\ jb.matched \in Seq(Namespaces)
    BY <2>1 DEF GoodJob, InBounds, Job, Crypt, SpecType
  <2>3. hits \in SUBSET Namespaces
    BY DEF TypeInv, TypeOK
  <2>4. PICK order \in SetToSeqs(hits) :
          LET found == jb.matched \o order IN
          Continue(w,
            IF jb.i < Len(patterns)
            THEN [jb EXCEPT !.matched = found, !.i = @ + 1]
            ELSE IF found = <<>> \/ jb.crypt.spec.secrets = <<>>
            THEN [jb EXCEPT !.matched = <<>>, !.i = 1, !.pc = "event"]
            ELSE [jb EXCEPT !.matched = found, !.i = 1, !.pc = "fetch"])
    BY <1>8 DEF findNamespaceMatches
  <2> DEFINE found == jb.matched \o order
             none == <<>>
             i == jb.i + 1
             next == IF jb.i < Len(patterns)
                     THEN [jb EXCEPT !.matched = found, !.i = i]
                     ELSE IF found = <<>> \/ jb.crypt.spec.secrets = <<>>
                     THEN [jb EXCEPT !.matched = none, !.i = 1, !.pc = "event"]
                     ELSE [jb EXCEPT !.matched = found, !.i = 1, !.pc = "fetch"]
  <2>5. found \in Seq(Namespaces) /\ none \in Seq(Namespaces) /\ i \in Nat
    <3>1. order \in Seq(Namespaces)
      <4> HIDE DEF hits
      <4> QED BY <2>3, <2>4, OrderTyped
    <3>2. jb.i \in Nat
      BY <2>1 DEF Job
    <3> QED BY <2>2, <3>1, <3>2
  <2>6. Continue(w, next)
    BY <2>4
  <2>7. GoodJob(next)
    <3>1. ASSUME jb.i < Len(patterns)
          PROVE  GoodJob([jb EXCEPT !.matched = found, !.i = i])
      <4>1. i \in 1..Len(patterns)
        BY <2>2, <3>1
      <4> HIDE DEF jb, found, i
      <4> QED BY <2>1, <2>2, <2>5, <4>1 DEF GoodJob, Job, InBounds
    <3>2. GoodJob([jb EXCEPT !.matched = none, !.i = 1, !.pc = "event"])
      <4> HIDE DEF jb, none
      <4> QED BY <2>1, <2>5 DEF GoodJob, Job, InBounds, Pcs
    <3>3. ASSUME found # <<>>, jb.crypt.spec.secrets # <<>>
          PROVE  GoodJob([jb EXCEPT !.matched = found, !.i = 1, !.pc = "fetch"])
      <4>1. 1 \in 1..Len(found) /\ 1 \in 1..Len(jb.crypt.spec.secrets)
        BY <2>2, <2>5, <3>3
      <4> HIDE DEF jb, found
      <4> QED BY <2>1, <2>2, <2>5, <4>1 DEF GoodJob, Job, InBounds, Pcs
    <3> HIDE DEF jb, found, none, i, patterns
    <3> QED BY <3>1, <3>2, <3>3
  <2>8. UNCHANGED <<clusterVars, moves, queueVars>>
    BY <1>8 DEF findNamespaceMatches
  <2> QED BY <1>2, <1>3, <2>6, <2>7, <2>8, SameQueue DEF clusterVars
<1>9. CASE fetchObject(w)
  <2> DEFINE jb == job[w]
             obj == store[Def(jb).key]
  <2>1. GoodJob(jb) /\ job[w] # NoJob /\ jb \in Job /\ jb.pc = "fetch"
    BY <1>1, <1>9 DEF fetchObject, At, GoodJob
  <2>2. GoodJob(Returned(jb, FALSE))
    BY <2>1, ReturnedGood
  <2>3. obj.ver \in Nat
    BY <2>1, TargetTyped DEF SecretDefs, TypeInv, TypeOK
  <2>4. GoodJob([jb EXCEPT !.pc = "create", !.ver = obj.ver])
    <3> HIDE DEF jb, obj
    <3> QED BY <2>1, <2>3 DEF GoodJob, Job, InBounds, Pcs
  <2>5. \/ Continue(w, [jb EXCEPT !.pc = "create", !.ver = obj.ver])
        \/ Continue(w, Returned(jb, FALSE))
    BY <1>9 DEF fetchObject
  <2>6. moves' \in Moves
    BY <1>3, <1>9, MoveTyped DEF fetchObject
  <2>7. UNCHANGED <<clusterVars, queueVars>>
    BY <1>9 DEF fetchObject
  <2> QED BY <1>2, <1>3, <2>2, <2>4, <2>5, <2>6, <2>7, SameQueue DEF clusterVars
<1>10. CASE createSecret(w)
  <2> DEFINE jb == job[w]
  <2>1. GoodJob(jb) /\ job[w] # NoJob /\ jb \in Job /\ jb.pc = "create"
    BY <1>1, <1>10 DEF createSecret, At, GoodJob
  <2>2. GoodJob(Returned(jb, FALSE)) /\ GoodJob(Returned(jb, TRUE))
    BY <2>1, ReturnedGood
  <2>3. GoodJob([jb EXCEPT !.pc = "update"])
    <3> HIDE DEF jb
    <3> QED BY <2>1 DEF GoodJob, Job, InBounds, Pcs
  <2>4. \/ Continue(w, Returned(jb, FALSE)) \/ Continue(w, Returned(jb, TRUE))
        \/ Continue(w, [jb EXCEPT !.pc = "update"])
    BY <1>10 DEF createSecret
  <2>5. UNCHANGED secrets \/ WriteSecret(jb)
    BY <1>10 DEF createSecret
  <2>6. secrets' \in [SecretIds -> Secret \cup {Foreign, NoSecret}]
    BY <1>3, <1>4, <2>1, <2>5
  <2>7. UNCHANGED <<namespaces, crypts, uids, store, moves, queueVars>>
    BY <1>10 DEF createSecret
  <2> QED BY <1>2, <1>3, <2>2, <2>3, <2>4, <2>6, <2>7, SameQueue
<1>11. CASE updateSecret(w)
  <2> DEFINE jb == job[w]
  <2>1. GoodJob(jb) /\ job[w] # NoJob /\ jb.pc = "update"
    BY <1>1, <1>11 DEF updateSecret, At
  <2>2. GoodJob(Returned(jb, FALSE)) /\ GoodJob(Returned(jb, TRUE))
    BY <2>1, ReturnedGood
  <2>3. Continue(w, Returned(jb, FALSE)) \/ Continue(w, Returned(jb, TRUE))
    BY <1>11 DEF updateSecret
  <2>4. secrets' \in [SecretIds -> Secret \cup {Foreign, NoSecret}]
    BY <1>3, <1>4, <1>11, <2>1 DEF updateSecret
  <2>5. UNCHANGED <<namespaces, crypts, uids, store, moves, queueVars>>
    BY <1>11 DEF updateSecret
  <2> QED BY <1>2, <1>3, <2>2, <2>3, <2>4, <2>5, SameQueue
<1>12. CASE WriteFails(w)
  <2> DEFINE jb == job[w]
  <2>1. GoodJob(jb) /\ job[w] # NoJob /\ jb.pc \in {"create", "update"}
    BY <1>1, <1>12 DEF WriteFails, At
  <2>2. GoodJob(Returned(jb, FALSE))
    BY <2>1, ReturnedGood
  <2>3. Continue(w, Returned(jb, FALSE))
    BY <1>12 DEF WriteFails
  <2>4. secrets' \in [SecretIds -> Secret \cup {Foreign, NoSecret}]
    BY <1>3, <1>4, <1>12, <2>1 DEF WriteFails
  <2>5. moves' \in Moves
    BY <1>12, MoveTyped DEF WriteFails
  <2>6. UNCHANGED <<namespaces, crypts, uids, store, queueVars>>
    BY <1>12 DEF WriteFails
  <2> QED BY <1>2, <1>3, <2>2, <2>3, <2>4, <2>5, <2>6, SameQueue
<1>13. CASE recordSynced(w)
  BY <1>6, <1>13 DEF recordSynced, At
<1> QED BY <1>5, <1>7, <1>8, <1>9, <1>10, <1>11, <1>12, <1>13 DEF WorkerStep

LEMMA NextTyped == TypeInv /\ [Next]_vars => TypeInv'
<1> SUFFICES ASSUME TypeInv, [Next]_vars PROVE TypeInv'
  OBVIOUS
<1>1. CASE UNCHANGED vars
  BY <1>1, SameJobs, SameQueue
     DEF vars, clusterVars, watchVars, cacheVars, TypeInv, TypeOK
<1>2. CASE CollectAny
  <2>1. moves \in Moves
    BY DEF TypeInv, TypeOK
  <2> QED BY <1>2, <2>1, RemoveSecretTyped DEF CollectAny, CollectGarbage
<1>3. ASSUME NEW k \in Crypts, Resync(k) PROVE TypeInv'
  <2>1. WQ!WQTypeOK'
    BY <1>3, EnqueueTyped DEF Resync
  <2>2. job' \in [Workers -> Job \cup {NoJob}] /\ JobsInBounds'
    BY <1>3, SameJobs DEF Resync
  <2> QED BY <1>3, <2>1, <2>2
          DEF Resync, TypeInv, TypeOK, clusterVars, watchVars, cacheVars
<1>4. ASSUME NEW k \in Crypts, RipenKey(k) PROVE TypeInv'
  <2>1. WQ!WQTypeOK'
    BY <1>4 DEF RipenKey, TypeInv, TypeOK, WQ!WQTypeOK, WQ!Ripen
  <2>2. job' \in [Workers -> Job \cup {NoJob}] /\ JobsInBounds'
    BY <1>4, SameJobs DEF RipenKey
  <2> QED BY <1>4, <2>1, <2>2
          DEF RipenKey, TypeInv, TypeOK, clusterVars, watchVars, cacheVars
<1> QED BY <1>1, <1>2, <1>3, <1>4, EnvironmentTyped, HandlersTyped, WorkerTyped
        DEF Next, ResyncAny

\* Every variable of the controller and of the cluster keeps its type, for any
\* crypts, namespaces, secrets and workers: what createSecret writes is a secret
\* with an owner, of a namespace and a name there are.
THEOREM TypeCorrect == Spec => []TypeOK
<1>1. TypeInv => TypeOK
  BY DEF TypeInv
<1> QED BY <1>1, InitTyped, NextTyped, PTL DEF Spec
-----------------------------------------------------------------------------
(* Exclusive syncs.  A step of the system leaves jobs and queue alone, or uses *)
(* the queue through its operations, or keeps every job's key, or restarts.    *)

KeepsKeys ==
  \A w \in Workers :
    job'[w] # NoJob => job[w] # NoJob /\ job'[w].key = job[w].key

LEMMA StepKinds ==
  ASSUME TypeInv, [Next]_vars
  PROVE  \/ UNCHANGED queueVars /\ KeepsKeys
         \/ UNCHANGED job /\ \E keys \in SUBSET Crypts : WQ!AddRateLimited(keys)
         \/ UNCHANGED job /\ \E k \in Crypts : WQ!Ripen(k)
         \/ \E w \in Workers : TakeItem(w)
         \/ \E w \in Workers : job[w] # NoJob /\ FinishItem(w)
         \/ Crash
<1>1. CASE UNCHANGED vars
  BY <1>1 DEF vars, queueVars, KeepsKeys
<1>2. CASE Environment
  BY <1>2 DEF Environment, CreateCrypt, UpdateCrypt, DeleteCrypt, PutCrypt,
     CreateNamespace, DeleteNamespace, DeleteSecret, RemoveSecret,
     PutForeignSecret, WriteStore, KeepsKeys
<1>3. CASE CollectAny
  BY <1>3 DEF CollectAny, CollectGarbage, RemoveSecret, KeepsKeys
<1>4. CASE ResyncAny
  BY <1>4 DEF ResyncAny, Resync, enqueueCrypt
<1>5. CASE Handlers
  <2>1. CASE CryptEvent
    <3>1. Head(cryptWatch) \in Watched
      BY <2>1 DEF CryptEvent, TypeInv, TypeOK
    <3>2. Notified(Head(cryptWatch)) \in SUBSET Crypts
      BY <3>1 DEF Notified, Watched
    <3> QED BY <2>1, <3>2 DEF CryptEvent, enqueueCrypt
  <2>2. CASE ListCrypts \/ RelistCrypts
    BY <2>2 DEF ListCrypts, RelistCrypts, enqueueCrypt
  <2>3. CASE \/ ListNamespaces \/ ListSecrets \/ NamespaceEvent
             \/ RelistNamespaces \/ RelistSecrets
    BY <2>3 DEF ListNamespaces, ListSecrets, NamespaceEvent, RelistNamespaces,
       RelistSecrets, KeepsKeys
  <2>4. ASSUME NEW n \in Namespaces, handleNamespaceAdd(n)
        PROVE  UNCHANGED job /\ \E keys \in SUBSET Crypts : WQ!AddRateLimited(keys)
    <3> DEFINE homes == {h \in nsCache : MatchingIn(h, n) # {}}
    <3>1. PICK first \in [homes -> Crypts] : enqueueCrypt({first[h] : h \in homes})
      BY <2>4 DEF handleNamespaceAdd
    <3>2. {first[h] : h \in homes} \in SUBSET Crypts
      OBVIOUS
    <3>3. UNCHANGED job
      BY <2>4 DEF handleNamespaceAdd
    <3> QED BY <3>1, <3>2, <3>3 DEF enqueueCrypt
  <2>5. ASSUME NEW d \in deleted, handleSecretDelete(d)
        PROVE  UNCHANGED queueVars /\ KeepsKeys
    BY <2>5 DEF handleSecretDelete, KeepsKeys
  <2>6. CASE enqueueOwner
    BY <2>6 DEF enqueueOwner, enqueueCrypt, SameName, CachedCrypts, KeepsKeys
  <2> QED BY <1>5, <2>1, <2>2, <2>3, <2>4, <2>5, <2>6 DEF Handlers, DeleteHandler
<1>6. ASSUME NEW k \in Crypts, RipenKey(k)
      PROVE  UNCHANGED job /\ WQ!Ripen(k)
  BY <1>6 DEF RipenKey
<1>7. ASSUME NEW w \in Workers, WorkerStep(w)
      PROVE  \/ TakeItem(w)
             \/ job[w] # NoJob /\ FinishItem(w)
             \/ UNCHANGED queueVars /\ KeepsKeys
  <2>1. ASSUME job[w] # NoJob PROVE GoodJob(job[w]) /\ job[w] \in Job
    BY <2>1 DEF GoodJob, TypeInv, TypeOK, JobsInBounds
  <2>2. ASSUME NEW next, Continue(w, next), job[w] # NoJob,
               next.key = job[w].key
        PROVE  KeepsKeys
    BY <2>2 DEF Continue, KeepsKeys, TypeInv, TypeOK
  <2>3. ASSUME NEW ok \in BOOLEAN, Continue(w, Returned(job[w], ok)), job[w] # NoJob,
               job[w].pc \in {"fetch", "create", "update"}
        PROVE  KeepsKeys
    BY <2>1, <2>2, <2>3, ReturnedGood
  <2>4. CASE GetCrypt(w)
    <3> DEFINE crypt == cryptCache[job[w].key]
               pc == IF crypt.spec.patterns = <<>> THEN "event" ELSE "match"
               next == [job[w] EXCEPT !.crypt = crypt, !.pc = pc]
    <3>1. job[w] # NoJob /\ job[w] \in Job
      BY <2>1, <2>4 DEF GetCrypt, At
    <3>2. \/ FinishItem(w)
          \/ Continue(w, next) /\ UNCHANGED queueVars
      BY <2>4 DEF GetCrypt
    <3>3. next.key = job[w].key
      <4> HIDE DEF crypt, pc
      <4> QED BY <3>1 DEF Job
    <3> HIDE DEF next
    <3> QED BY <2>2, <3>1, <3>2, <3>3
  <2>5. CASE findNamespaceMatches(w)
    <3> DEFINE jb == job[w]
               patterns == jb.crypt.spec.patterns
               hits == nsCache \cap Matches[patterns[jb.i]]
    <3>1. job[w] # NoJob /\ jb \in Job /\ UNCHANGED queueVars
      BY <2>1, <2>5 DEF findNamespaceMatches, At
    <3>2. PICK found, next :
            /\ Continue(w, next)
            /\ \/ next = [jb EXCEPT !.matched = found, !.i = @ + 1]
               \/ next = [jb EXCEPT !.matched = <<>>, !.i = 1, !.pc = "event"]
               \/ next = [jb EXCEPT !.matched = found, !.i = 1, !.pc = "fetch"]
      BY <2>5 DEF findNamespaceMatches
    <3>3. next.key = jb.key
      <4> HIDE DEF jb
      <4> QED BY <3>1, <3>2 DEF Job
    <3> QED BY <2>2, <3>1, <3>2, <3>3
  <2>6. CASE fetchObject(w)
    <3> DEFINE jb == job[w]
               obj == store[Def(jb).key]
               next == [jb EXCEPT !.pc = "create", !.ver = obj.ver]
    <3>1. job[w] # NoJob /\ jb \in Job /\ jb.pc = "fetch" /\ UNCHANGED queueVars
      BY <2>1, <2>6 DEF fetchObject, At
    <3>2. Continue(w, next) \/ Continue(w, Returned(jb, FALSE))
      BY <2>6 DEF fetchObject
    <3>3. next.key = jb.key
      <4> HIDE DEF jb, obj
      <4> QED BY <3>1 DEF Job
    <3> HIDE DEF next
    <3> QED BY <2>2, <2>3, <3>1, <3>2, <3>3
  <2>7. CASE createSecret(w)
    <3> DEFINE jb == job[w]
               next == [jb EXCEPT !.pc = "update"]
    <3>1. job[w] # NoJob /\ jb \in Job /\ jb.pc = "create" /\ UNCHANGED queueVars
      BY <2>1, <2>7 DEF createSecret, At
    <3>2. \/ Continue(w, next) \/ Continue(w, Returned(jb, FALSE))
          \/ Continue(w, Returned(jb, TRUE))
      BY <2>7 DEF createSecret
    <3>3. next.key = jb.key
      <4> HIDE DEF jb
      <4> QED BY <3>1 DEF Job
    <3> HIDE DEF next
    <3> QED BY <2>2, <2>3, <3>1, <3>2, <3>3
  <2>8. CASE updateSecret(w)
    BY <2>3, <2>8 DEF updateSecret, At
  <2>9. CASE WriteFails(w)
    BY <2>3, <2>9 DEF WriteFails, At
  <2>10. CASE recordSynced(w)
    BY <2>10 DEF recordSynced, At
  <2> QED BY <1>7, <2>4, <2>5, <2>6, <2>7, <2>8, <2>9, <2>10 DEF WorkerStep
<1> QED BY <1>1, <1>2, <1>3, <1>4, <1>5, <1>6, <1>7 DEF Next

HeldInv == WQ!QueueIsDirtyIdle /\ KeysHeld /\ ExclusiveSync

\* The lemmas about the work queue, for the controller's queue.
LEMMA QueueOfController ==
  /\ WQP!WQInv <=> WQ!WQTypeOK /\ WQ!QueueIsDirtyIdle
  /\ WQP!Get <=> WQ!Get
  /\ \A k \in Crypts : WQP!Ripen(k) <=> WQ!Ripen(k)
  /\ \A k \in Crypts : WQP!Done(k) <=> WQ!Done(k)
  /\ \A keys \in SUBSET Crypts : WQP!AddRateLimited(keys) <=> WQ!AddRateLimited(keys)
<1>1. WQP!WQTypeOK <=> WQ!WQTypeOK
  BY DEF WQP!WQTypeOK, WQ!WQTypeOK
<1>2. WQP!QueueIsDirtyIdle <=> WQ!QueueIsDirtyIdle
  BY DEF WQP!QueueIsDirtyIdle, WQ!QueueIsDirtyIdle, WQP!ToSet, WQ!ToSet
<1>3. WQP!Get <=> WQ!Get
  BY DEF WQP!Get, WQ!Get
<1>4. \A k \in Crypts : WQP!Ripen(k) <=> WQ!Ripen(k)
  BY DEF WQP!Ripen, WQ!Ripen
<1>5. \A k \in Crypts : WQP!Done(k) <=> WQ!Done(k)
  BY DEF WQP!Done, WQ!Done
<1>6. \A keys \in SUBSET Crypts :
        WQP!AddRateLimited(keys) <=> WQ!AddRateLimited(keys)
  BY DEF WQP!AddRateLimited, WQ!AddRateLimited
<1> QED BY <1>1, <1>2, <1>3, <1>4, <1>5, <1>6 DEF WQP!WQInv

LEMMA InitHeld == Init => HeldInv
<1> SUFFICES ASSUME Init PROVE HeldInv
  OBVIOUS
<1>1. WQ!QueueIsDirtyIdle
  BY DEF Init, ProcessInit, WQ!WQInit, WQ!QueueIsDirtyIdle, WQ!ToSet
<1> QED BY <1>1 DEF Init, ProcessInit, HeldInv, KeysHeld, ExclusiveSync

LEMMA NextHeld ==
  ASSUME TypeInv, HeldInv, [Next]_vars
  PROVE  HeldInv'
<1>1. WQ!WQTypeOK /\ WQP!WQInv
  BY QueueOfController DEF TypeInv, TypeOK, HeldInv
<1>2. ASSUME WQP!WQInv' PROVE WQ!QueueIsDirtyIdle'
  BY <1>2 DEF WQP!WQInv, WQP!QueueIsDirtyIdle, WQ!QueueIsDirtyIdle,
              WQP!ToSet, WQ!ToSet
<1>3. CASE UNCHANGED queueVars /\ KeepsKeys
  <2>1. WQ!QueueIsDirtyIdle'
    BY <1>3 DEF HeldInv, WQ!QueueIsDirtyIdle, WQ!ToSet, queueVars
  <2>2. KeysHeld' /\ ExclusiveSync'
    BY <1>3 DEF HeldInv, KeepsKeys, KeysHeld, ExclusiveSync, queueVars
  <2> QED BY <2>1, <2>2 DEF HeldInv
<1>4. ASSUME UNCHANGED job,
             \/ \E keys \in SUBSET Crypts : WQ!AddRateLimited(keys)
             \/ \E k \in Crypts : WQ!Ripen(k)
      PROVE  HeldInv'
  <2>1. WQP!WQInv'
    BY <1>1, <1>4, QueueOfController, WQP!AddKeepsInv, WQP!RipenKeepsInv
  <2>2. UNCHANGED processing
    BY <1>4 DEF WQ!AddRateLimited, WQ!Ripen
  <2>3. KeysHeld' /\ ExclusiveSync'
    BY <1>4, <2>2 DEF HeldInv, KeysHeld, ExclusiveSync
  <2> QED BY <1>2, <2>1, <2>3 DEF HeldInv
\* The key that is taken was idle, so no job runs for it.
<1>5. ASSUME NEW w \in Workers, TakeItem(w) PROVE HeldInv'
  <2>1. WQP!Get
    BY <1>5, QueueOfController DEF TakeItem
  <2>2. WQP!WQInv' /\ Head(queue) \notin processing
    BY <1>1, <2>1, WQP!GetKeepsInv
  <2>3. processing' = processing \cup {Head(queue)}
    BY <1>5 DEF TakeItem, WQ!Get
  <2>4. job' = [job EXCEPT ![w] = NewJob(Head(queue))]
        /\ job \in [Workers -> Job \cup {NoJob}]
    BY <1>5 DEF TakeItem, Continue, TypeInv, TypeOK
  <2>5. NewJob(Head(queue)).key = Head(queue)
    BY DEF NewJob
  <2>6. KeysHeld' /\ ExclusiveSync'
    <3> HIDE DEF HeldInv
    <3>1. \A v \in Workers \ {w} : job'[v] = job[v]
      BY <2>4
    <3>2. job'[w].key = Head(queue)
      BY <2>4, <2>5
    <3>3. KeysHeld'
      BY <2>3, <3>1, <3>2 DEF HeldInv, KeysHeld
    <3>4. ExclusiveSync'
      BY <2>2, <3>1, <3>2 DEF HeldInv, KeysHeld, ExclusiveSync
    <3> QED BY <3>3, <3>4
  <2> QED BY <1>2, <2>2, <2>6 DEF HeldInv
\* The key that is given back is no other job's.
<1>6. ASSUME NEW w \in Workers, job[w] # NoJob, FinishItem(w) PROVE HeldInv'
  <2>1. job[w].key \in Crypts
    BY <1>6 DEF TypeInv, TypeOK, Job
  <2>2. WQP!WQInv'
    BY <1>1, <1>6, <2>1, QueueOfController, WQP!DoneKeepsInv DEF FinishItem
  <2>3. processing' = processing \ {job[w].key}
    BY <1>6 DEF FinishItem, WQ!Done
  <2>4. job'[w] = NoJob /\ \A v \in Workers \ {w} : job'[v] = job[v]
    BY <1>6 DEF FinishItem, Continue, TypeInv, TypeOK
  <2>5. KeysHeld' /\ ExclusiveSync'
    BY <1>6, <2>3, <2>4 DEF HeldInv, KeysHeld, ExclusiveSync
  <2> QED BY <1>2, <2>2, <2>5 DEF HeldInv
<1>7. CASE Crash
  <2>1. WQ!QueueIsDirtyIdle'
    BY <1>7 DEF Crash, WQ!QueueIsDirtyIdle, WQ!ToSet
  <2> QED BY <1>7, <2>1 DEF Crash, HeldInv, KeysHeld, ExclusiveSync
<1> QED BY <1>3, <1>4, <1>5, <1>6, <1>7, StepKinds

\* No two workers ever sync the same crypt, whatever requests arrive during its
\* sync and however many workers, crypts and restarts there are.
THEOREM SyncsExclusive == Spec => []ExclusiveSync
<1>1. HeldInv => ExclusiveSync
  BY DEF HeldInv
<1>2. TypeInv /\ HeldInv /\ [Next]_vars => HeldInv'
  BY NextHeld
<1> QED BY <1>1, <1>2, InitTyped, NextTyped, InitHeld, PTL DEF Spec
-----------------------------------------------------------------------------
(* Values never regress.  A step is quiet when no sync writes: secrets only    *)
(* disappear or become foreign, and the store only moves on.                   *)

Quiet ==
  /\ \A s \in SecretIds : secrets'[s] \in {secrets[s], NoSecret, Foreign}
  /\ \A key \in StoreKeys : store[key].ver <= store'[key].ver

LEMMA QuietSteps ==
  ASSUME TypeInv,
         Environment \/ CollectAny \/ ResyncAny \/ Handlers
           \/ (\E k \in Crypts : RipenKey(k)) \/ UNCHANGED vars
  PROVE  Quiet /\ \A w \in Workers : job'[w] \in {job[w], NoJob}
<1>1. /\ secrets \in [SecretIds -> Secret \cup {Foreign, NoSecret}]
      /\ store \in [StoreKeys -> [ver: Nat, readable: BOOLEAN]]
      /\ \A key \in StoreKeys : store[key].ver \in Nat
  BY DEF TypeInv, TypeOK
<1>2. ASSUME UNCHANGED <<secrets, store, job>>
      PROVE  Quiet /\ \A w \in Workers : job'[w] \in {job[w], NoJob}
  BY <1>1, <1>2 DEF Quiet
<1>3. ASSUME NEW s \in SecretIds, RemoveSecret(s)
      PROVE  Quiet /\ \A w \in Workers : job'[w] \in {job[w], NoJob}
  BY <1>1, <1>3 DEF Quiet, RemoveSecret
<1>4. CASE Environment
  <2>1. ASSUME NEW n \in Namespaces, DeleteNamespace(n)
        PROVE  Quiet /\ UNCHANGED job
    BY <1>1, <2>1 DEF Quiet, DeleteNamespace
  <2>2. ASSUME NEW s \in SecretIds, PutForeignSecret(s)
        PROVE  Quiet /\ UNCHANGED job
    BY <1>1, <2>2 DEF Quiet, PutForeignSecret
  <2>3. ASSUME NEW key \in StoreKeys, NEW readable \in BOOLEAN,
               WriteStore(key, readable)
        PROVE  Quiet /\ UNCHANGED job
    <3>1. \A other \in StoreKeys :
            store'[other] = IF other = key
                            THEN [ver |-> store[key].ver + 1, readable |-> readable]
                            ELSE store[other]
      BY <1>1, <2>3 DEF WriteStore
    <3> QED BY <1>1, <2>3, <3>1 DEF Quiet, WriteStore
  <2>4. CASE Crash
    BY <1>1, <2>4 DEF Quiet, Crash, clusterVars
  <2> QED BY <1>2, <1>3, <1>4, <2>1, <2>2, <2>3, <2>4
          DEF Environment, CreateCrypt, UpdateCrypt, DeleteCrypt, PutCrypt,
              CreateNamespace, DeleteSecret
<1>5. CASE CollectAny
  BY <1>3, <1>5 DEF CollectAny, CollectGarbage
<1>6. CASE Handlers
  BY <1>2, <1>6 DEF Handlers, ListCrypts, ListNamespaces, ListSecrets, CryptEvent,
     RelistCrypts, RelistNamespaces, RelistSecrets, NamespaceEvent, handleNamespaceAdd, DeleteHandler, handleSecretDelete,
     enqueueOwner, clusterVars
<1> QED BY <1>2, <1>4, <1>5, <1>6 DEF ResyncAny, Resync, RipenKey, clusterVars, vars

\* The new state of a worker that does not write: nothing left to write, or a
\* value that has just been read, or the value it had before.
Careful(w) ==
  \/ job'[w] = NoJob
  \/ job'[w].pc \notin {"create", "update"}
  \/ /\ job[w] # NoJob /\ job[w].pc = "fetch" /\ Target(job'[w]) \in SecretIds
     /\ Def(job'[w]) \in SecretDefs
     /\ job'[w].ver = store[Def(job'[w]).key].ver
     /\ newSecret(job'[w]).key = Def(job'[w]).key
  \/ /\ job[w] # NoJob /\ job[w].pc = "create"
     /\ Target(job'[w]) = Target(job[w]) /\ Def(job'[w]) = Def(job[w])
     /\ job'[w].ver = job[w].ver /\ newSecret(job'[w]) = newSecret(job[w])

Writes(w) ==
  /\ job[w] # NoJob /\ job[w].pc \in {"create", "update"}
  /\ WriteSecret(job[w])
  /\ job'[w].pc \notin {"create", "update"}

LEMMA WorkerSteps ==
  ASSUME TypeInv, NEW w \in Workers, WorkerStep(w)
  PROVE  /\ UNCHANGED store
         /\ \A v \in Workers \ {w} : job'[v] = job[v]
         /\ (UNCHANGED secrets /\ Careful(w)) \/ Writes(w)
<1>1. ASSUME job[w] # NoJob PROVE GoodJob(job[w]) /\ job[w] \in Job
  BY <1>1 DEF GoodJob, TypeInv, TypeOK, JobsInBounds
<1>2. ASSUME NEW next, Continue(w, next)
      PROVE  job'[w] = next /\ \A v \in Workers \ {w} : job'[v] = job[v]
  BY <1>2 DEF Continue, TypeInv, TypeOK
<1>3. ASSUME NEW ok \in BOOLEAN, Continue(w, Returned(job[w], ok)), job[w] # NoJob,
             job[w].pc \in {"fetch", "create", "update"}
      PROVE  job'[w].pc \notin {"create", "update"}
  BY <1>1, <1>2, <1>3, ReturnedGood
<1>4. CASE TakeItem(w)
  BY <1>2, <1>4 DEF TakeItem, NewJob, Careful, clusterVars
<1>5. ASSUME FinishItem(w)
      PROVE  Careful(w) /\ UNCHANGED <<secrets, store>>
             /\ \A v \in Workers \ {w} : job'[v] = job[v]
  BY <1>2, <1>5 DEF FinishItem, Careful, clusterVars
<1>6. CASE GetCrypt(w)
  <2> DEFINE crypt == cryptCache[job[w].key]
             pc == IF crypt.spec.patterns = <<>> THEN "event" ELSE "match"
             next == [job[w] EXCEPT !.crypt = crypt, !.pc = pc]
  <2>1. job[w] # NoJob /\ job[w] \in Job
    BY <1>1, <1>6 DEF GetCrypt, At
  <2>2. FinishItem(w) \/ (Continue(w, next) /\ UNCHANGED <<secrets, store>>)
    BY <1>6 DEF GetCrypt, clusterVars
  <2>3. next.pc \in {"event", "match"}
    BY <2>1 DEF Job
  <2> HIDE DEF next
  <2> QED BY <1>2, <1>5, <2>2, <2>3 DEF Careful
<1>7. CASE findNamespaceMatches(w)
  <2> DEFINE jb == job[w]
  <2>1. job[w] # NoJob /\ jb \in Job /\ jb.pc = "match"
        /\ UNCHANGED <<secrets, store>>
    BY <1>1, <1>7 DEF findNamespaceMatches, At, clusterVars
  <2>2. PICK found, next :
          /\ Continue(w, next)
          /\ \/ next = [jb EXCEPT !.matched = found, !.i = @ + 1]
             \/ next = [jb EXCEPT !.matched = <<>>, !.i = 1, !.pc = "event"]
             \/ next = [jb EXCEPT !.matched = found, !.i = 1, !.pc = "fetch"]
    BY <1>7 DEF findNamespaceMatches
  <2>3. next.pc \in {"match", "event", "fetch"}
    <3> HIDE DEF jb
    <3> QED BY <2>1, <2>2 DEF Job
  <2> QED BY <1>2, <2>1, <2>2, <2>3 DEF Careful
<1>8. CASE fetchObject(w)
  <2> DEFINE jb == job[w]
             obj == store[Def(jb).key]
             next == [jb EXCEPT !.pc = "create", !.ver = obj.ver]
  <2>1. job[w] # NoJob /\ jb \in Job /\ jb.pc = "fetch" /\ GoodJob(jb)
        /\ UNCHANGED <<secrets, store>>
    BY <1>1, <1>8 DEF fetchObject, At, clusterVars
  <2>2. Continue(w, next) \/ Continue(w, Returned(jb, FALSE))
    BY <1>8 DEF fetchObject
  <2>3. /\ next.i = jb.i /\ next.j = jb.j /\ next.crypt = jb.crypt
        /\ next.matched = jb.matched /\ next.ver = obj.ver
    <3> HIDE DEF jb, obj
    <3> QED BY <2>1 DEF Job
  <2>4. Def(next) = Def(jb) /\ Target(next) = Target(jb)
        /\ newSecret(next).key = Def(next).key
    BY <2>3 DEF Def, Target, newSecret
  <2>5. Target(jb) \in SecretIds /\ Def(jb) \in SecretDefs
    BY <2>1, TargetTyped
  <2> HIDE DEF next
  <2> QED BY <1>2, <1>3, <2>1, <2>2, <2>3, <2>4, <2>5 DEF Careful
<1>9. CASE createSecret(w)
  <2> DEFINE jb == job[w]
             next == [jb EXCEPT !.pc = "update"]
  <2>1. job[w] # NoJob /\ jb \in Job /\ jb.pc = "create" /\ UNCHANGED store
    BY <1>1, <1>9 DEF createSecret, At
  <2>2. \/ Continue(w, Returned(jb, FALSE)) /\ UNCHANGED secrets
        \/ Continue(w, Returned(jb, TRUE)) /\ WriteSecret(jb)
        \/ Continue(w, next) /\ UNCHANGED secrets
    BY <1>9 DEF createSecret
  <2>3. /\ next.i = jb.i /\ next.j = jb.j /\ next.crypt = jb.crypt
        /\ next.matched = jb.matched /\ next.ver = jb.ver /\ next.key = jb.key
    <3> HIDE DEF jb
    <3> QED BY <2>1 DEF Job
  <2>4. Def(next) = Def(jb) /\ Target(next) = Target(jb)
        /\ newSecret(next) = newSecret(jb)
    BY <2>3 DEF Def, Target, newSecret
  <2> HIDE DEF next
  <2> QED BY <1>2, <1>3, <2>1, <2>2, <2>3, <2>4 DEF Careful, Writes
<1>10. CASE updateSecret(w)
  <2>1. job[w] # NoJob /\ job[w].pc = "update" /\ UNCHANGED store
    BY <1>10 DEF updateSecret, At
  <2>2. \/ Continue(w, Returned(job[w], FALSE)) /\ UNCHANGED secrets
        \/ Continue(w, Returned(job[w], TRUE)) /\ WriteSecret(job[w])
    BY <1>10 DEF updateSecret
  <2> QED BY <1>2, <1>3, <2>1, <2>2 DEF Careful, Writes
<1>11. CASE WriteFails(w)
  <2>1. job[w] # NoJob /\ job[w].pc \in {"create", "update"} /\ UNCHANGED store
    BY <1>11 DEF WriteFails, At
  <2>2. Continue(w, Returned(job[w], FALSE))
        /\ (UNCHANGED secrets \/ WriteSecret(job[w]))
    BY <1>11 DEF WriteFails
  <2> QED BY <1>2, <1>3, <2>1, <2>2 DEF Careful, Writes
<1>12. CASE recordSynced(w)
  BY <1>5, <1>12 DEF recordSynced
<1> QED BY <1>4, <1>5, <1>6, <1>7, <1>8, <1>9, <1>10, <1>11, <1>12 DEF WorkerStep

\* What a secret and a job hold are records with a version and an origin.
LEMMA VersionsTyped ==
  ASSUME TypeInv
  PROVE  /\ \A s \in SecretIds :
              Owned(s) => secrets[s].ver \in Nat /\ secrets[s].key \in StoreKeys
         /\ \A w \in Workers : job[w] # NoJob => job[w].ver \in Nat
         /\ \A w \in Workers :
              job[w] # NoJob /\ job[w].pc \in {"fetch", "create", "update"} =>
                /\ Def(job[w]).key \in StoreKeys /\ Target(job[w]) \in SecretIds
                /\ newSecret(job[w]) \in Secret
         /\ \A key \in StoreKeys : store[key].ver \in Nat
<1>1. \A s \in SecretIds :
        Owned(s) => secrets[s].ver \in Nat /\ secrets[s].key \in StoreKeys
  BY DEF TypeInv, TypeOK, Owned, Secret
<1>2. ASSUME NEW w \in Workers, job[w] # NoJob
      PROVE  job[w] \in Job /\ GoodJob(job[w])
  BY <1>2 DEF GoodJob, TypeInv, TypeOK, JobsInBounds
<1>3. \A w \in Workers : job[w] # NoJob => job[w].ver \in Nat
  BY <1>2 DEF Job
<1>4. \A w \in Workers :
        job[w] # NoJob /\ job[w].pc \in {"fetch", "create", "update"} =>
          /\ Def(job[w]).key \in StoreKeys /\ Target(job[w]) \in SecretIds
          /\ newSecret(job[w]) \in Secret
  BY <1>2, TargetTyped DEF SecretDefs
<1>5. \A key \in StoreKeys : store[key].ver \in Nat
  BY DEF TypeInv, TypeOK
<1> QED BY <1>1, <1>3, <1>4, <1>5

LEMMA InitOrdered == Init => NeverAhead
  BY DEF Init, ProcessInit, NeverAhead, Owned

\* A quiet step keeps the order of the values.
LEMMA QuietOrdered ==
  ASSUME TypeInv, TypeInv', NeverAhead, Quiet,
         \A w \in Workers : job'[w] \in {job[w], NoJob}
  PROVE  NeverAhead'
<1>1. ASSUME NEW s \in SecretIds, Owned(s)'
      PROVE  Owned(s) /\ secrets'[s] = secrets[s]
  BY <1>1 DEF Quiet, Owned
<1>2. ASSUME NEW s \in SecretIds, Owned(s)'
      PROVE  secrets'[s].ver <= store'[secrets'[s].key].ver
  <2>1. /\ secrets[s].ver <= store[secrets[s].key].ver
        /\ secrets[s].ver \in Nat /\ secrets[s].key \in StoreKeys
    BY <1>1, <1>2, VersionsTyped DEF NeverAhead
  <2>2. /\ store[secrets[s].key].ver \in Nat /\ store'[secrets[s].key].ver \in Nat
        /\ store[secrets[s].key].ver <= store'[secrets[s].key].ver
    BY <2>1 DEF Quiet, TypeInv, TypeOK
  <2> QED BY <1>1, <1>2, <2>1, <2>2
<1>3. ASSUME NEW w \in Workers, job'[w] # NoJob,
             job'[w].pc \in {"create", "update"}
      PROVE  /\ job'[w].ver <= store'[Def(job'[w]).key].ver
             /\ secrets'[Target(job'[w])] \notin {NoSecret, Foreign}
                  /\ SameOrigin(secrets'[Target(job'[w])], newSecret(job'[w]))
                  => secrets'[Target(job'[w])].ver <= job'[w].ver
  <2>1. job'[w] = job[w] /\ InOrder(job[w])
    BY <1>3 DEF NeverAhead
  <2>2. /\ Def(job[w]).key \in StoreKeys /\ Target(job[w]) \in SecretIds
        /\ job[w].ver \in Nat
    BY <1>3, <2>1, VersionsTyped
  <2>3. /\ store[Def(job[w]).key].ver \in Nat /\ store'[Def(job[w]).key].ver \in Nat
        /\ store[Def(job[w]).key].ver <= store'[Def(job[w]).key].ver
    BY <2>2 DEF Quiet, TypeInv, TypeOK
  <2>4. job[w].ver <= store'[Def(job[w]).key].ver
    <3>1. job[w].ver <= store[Def(job[w]).key].ver
      BY <1>3, <2>1 DEF InOrder
    <3> QED BY <3>1, <2>2, <2>3
  <2>5. ASSUME secrets'[Target(job[w])] \notin {NoSecret, Foreign}
        PROVE  Owned(Target(job[w])) /\ secrets'[Target(job[w])] = secrets[Target(job[w])]
    <3> DEFINE t == Target(job[w])
    <3>1. t \in SecretIds /\ secrets'[t] \notin {NoSecret, Foreign}
      BY <2>2, <2>5
    <3> HIDE DEF t
    <3>2. Owned(t) /\ secrets'[t] = secrets[t]
      BY <3>1 DEF Quiet, Owned
    <3> QED BY <3>2 DEF t
  <2>6. ASSUME secrets'[Target(job[w])] \notin {NoSecret, Foreign},
               SameOrigin(secrets'[Target(job[w])], newSecret(job[w]))
        PROVE  secrets'[Target(job[w])].ver <= job[w].ver
    BY <1>3, <2>1, <2>5, <2>6 DEF InOrder
  <2> QED BY <2>1, <2>4, <2>6
<1> QED BY <1>2, <1>3 DEF NeverAhead, InOrder, Owned

\* A sync's write is ordered after what is there, and every other sync that is
\* about to write the same secret works for another crypt.
LEMMA WriteOrdered ==
  ASSUME TypeInv, TypeInv', HeldInv, NeverAhead, UNCHANGED store,
         NEW w \in Workers, Writes(w), \A v \in Workers \ {w} : job'[v] = job[v]
  PROVE  NeverAhead'
<1> DEFINE t == Target(job[w])
           new == newSecret(job[w])
<1>1. /\ secrets' = [secrets EXCEPT ![t] = new] /\ job[w] # NoJob
      /\ job[w].pc \in {"create", "update"} /\ job'[w].pc \notin {"create", "update"}
  BY DEF Writes, WriteSecret
<1>2. /\ t \in SecretIds /\ new \in Secret /\ InOrder(job[w])
      /\ job[w].ver \in Nat
  BY <1>1, VersionsTyped DEF NeverAhead
<1>3. secrets'[t] = new /\ \A s \in SecretIds \ {t} : secrets'[s] = secrets[s]
  BY <1>1, <1>2 DEF TypeInv, TypeOK
<1>4. new.ver = job[w].ver /\ new.key = Def(job[w]).key
      /\ new.owner.key = job[w].key
  BY DEF newSecret
<1> HIDE DEF t, new
<1>5. ASSUME NEW s \in SecretIds, Owned(s)'
      PROVE  secrets'[s].ver <= store'[secrets'[s].key].ver
  <2>1. CASE s = t
    BY <1>1, <1>2, <1>3, <1>4, <2>1 DEF InOrder
  <2>2. CASE s # t
    BY <1>3, <1>5, <2>2 DEF NeverAhead, Owned
  <2> QED BY <2>1, <2>2
<1>6. ASSUME NEW v \in Workers, job'[v] # NoJob,
             job'[v].pc \in {"create", "update"}
      PROVE  /\ job'[v].ver <= store'[Def(job'[v]).key].ver
             /\ secrets'[Target(job'[v])] \notin {NoSecret, Foreign}
                  /\ SameOrigin(secrets'[Target(job'[v])], newSecret(job'[v]))
                  => secrets'[Target(job'[v])].ver <= job'[v].ver
  <2>1. v # w /\ job'[v] = job[v] /\ InOrder(job[v])
    BY <1>1, <1>6 DEF NeverAhead
  <2>2. job[v].key # job[w].key
    BY <1>1, <1>6, <2>1 DEF HeldInv, ExclusiveSync
  <2>3. newSecret(job[v]).owner.key = job[v].key
    BY DEF newSecret
  <2>4. ~SameOrigin(new, newSecret(job[v]))
    BY <1>4, <2>2, <2>3 DEF SameOrigin
  <2>5. Target(job[v]) \in SecretIds
    BY <1>6, <2>1, VersionsTyped
  <2> QED BY <1>3, <1>6, <2>1, <2>4, <2>5 DEF InOrder, Owned
<1> QED BY <1>5, <1>6 DEF NeverAhead, InOrder, Owned

LEMMA CarefulOrdered ==
  ASSUME TypeInv, TypeInv', NeverAhead, UNCHANGED <<store, secrets>>,
         NEW w \in Workers, Careful(w), \A v \in Workers \ {w} : job'[v] = job[v]
  PROVE  NeverAhead'
<1>1. ASSUME NEW s \in SecretIds, Owned(s)'
      PROVE  secrets'[s].ver <= store'[secrets'[s].key].ver
  BY <1>1 DEF NeverAhead, Owned
<1>2. ASSUME NEW v \in Workers, job'[v] # NoJob,
             job'[v].pc \in {"create", "update"}
      PROVE  /\ job'[v].ver <= store'[Def(job'[v]).key].ver
             /\ Owned(Target(job'[v]))
                  /\ SameOrigin(secrets[Target(job'[v])], newSecret(job'[v]))
                  => secrets[Target(job'[v])].ver <= job'[v].ver
  <2>1. CASE v # w
    BY <1>2, <2>1 DEF NeverAhead, InOrder
  <2>2. CASE v = w /\ job[w] # NoJob /\ job[w].pc = "create"
             /\ Target(job'[w]) = Target(job[w]) /\ Def(job'[w]) = Def(job[w])
             /\ job'[w].ver = job[w].ver /\ newSecret(job'[w]) = newSecret(job[w])
    BY <1>2, <2>2 DEF NeverAhead, InOrder
  <2>3. CASE v = w /\ job[w] # NoJob /\ job[w].pc = "fetch"
             /\ Target(job'[w]) \in SecretIds /\ Def(job'[w]) \in SecretDefs
             /\ job'[w].ver = store[Def(job'[w]).key].ver
             /\ newSecret(job'[w]).key = Def(job'[w]).key
    <3>1. store[Def(job'[w]).key].ver \in Nat
      BY <2>3, VersionsTyped DEF SecretDefs
    <3> QED BY <1>2, <2>3, <3>1 DEF NeverAhead, SameOrigin
  <2> QED BY <1>2, <2>1, <2>2, <2>3 DEF Careful
<1> QED BY <1>1, <1>2 DEF NeverAhead, InOrder, Owned

LEMMA NextOrdered ==
  ASSUME TypeInv, HeldInv, NeverAhead, [Next]_vars
  PROVE  NeverAhead'
<1>1. TypeInv'
  BY NextTyped
<1>2. ASSUME NEW w \in Workers, WorkerStep(w) PROVE NeverAhead'
  BY <1>1, <1>2, WorkerSteps, WriteOrdered, CarefulOrdered
<1>3. ASSUME Environment \/ CollectAny \/ ResyncAny \/ Handlers
               \/ (\E k \in Crypts : RipenKey(k)) \/ UNCHANGED vars
      PROVE  NeverAhead'
  BY <1>1, <1>3, QuietSteps, QuietOrdered
<1> QED BY <1>2, <1>3 DEF Next

\* A secret that is rewritten for the same crypt and the same key of the store
\* never gets an older value than it has, although a sync writes what it read
\* some time ago and Update does not check what it overwrites.
THEOREM ValuesNeverRegress == Spec => NeverRegress
<1>1. ASSUME TypeInv, HeldInv, NeverAhead, [Next]_vars, NEW s \in SecretIds,
             secrets[s] \notin {NoSecret, Foreign},
             secrets'[s] \notin {NoSecret, Foreign},
             SameOrigin(secrets[s], secrets'[s])
      PROVE  secrets[s].ver <= secrets'[s].ver
  <2>1. Owned(s) /\ secrets[s].ver \in Nat
    BY <1>1, VersionsTyped DEF Owned
  <2>2. CASE secrets'[s] = secrets[s]
    BY <2>1, <2>2
  <2>3. CASE secrets'[s] # secrets[s]
    <3>1. ASSUME NEW w \in Workers, Writes(w)
          PROVE  secrets[s].ver <= secrets'[s].ver
      <4>1. /\ job[w] # NoJob /\ job[w].pc \in {"create", "update"}
            /\ secrets' = [secrets EXCEPT ![Target(job[w])] = newSecret(job[w])]
            /\ InOrder(job[w])
        BY <1>1, <3>1 DEF Writes, WriteSecret, NeverAhead
      <4>2. s = Target(job[w]) /\ secrets'[s] = newSecret(job[w])
        BY <1>1, <2>3, <4>1 DEF TypeInv, TypeOK
      <4>3. newSecret(job[w]).ver = job[w].ver
        BY DEF newSecret
      <4> QED BY <1>1, <2>1, <4>1, <4>2, <4>3 DEF InOrder
    <3>2. ~Quiet
      BY <1>1, <2>3 DEF Quiet
    <3> QED BY <1>1, <2>3, <3>1, <3>2, QuietSteps, WorkerSteps DEF Next
  <2> QED BY <2>2, <2>3
<1>2. TypeInv /\ HeldInv /\ NeverAhead /\ [Next]_vars =>
        [\A s \in SecretIds :
           /\ secrets[s] \notin {NoSecret, Foreign}
           /\ secrets'[s] \notin {NoSecret, Foreign}
           /\ SameOrigin(secrets[s], secrets'[s])
           => secrets[s].ver <= secrets'[s].ver]_secrets
  BY <1>1
<1>3. TypeInv /\ HeldInv /\ [Next]_vars => HeldInv'
  BY NextHeld
<1>4. TypeInv /\ HeldInv /\ NeverAhead /\ [Next]_vars => NeverAhead'
  BY NextOrdered
<1> QED BY <1>2, <1>3, <1>4, InitTyped, NextTyped, InitHeld, InitOrdered, PTL
        DEF Spec, NeverRegress

\* All that the argument rests on holds in every reachable state; in particular
\* the loops of findNamespaceMatches and syncHandler stay inside the slices they
\* range over.
THEOREM InvariantHolds == Spec => []SyncInv
<1>1. TypeInv /\ HeldInv /\ NeverAhead => SyncInv
  BY DEF TypeInv, HeldInv, SyncInv
<1>2. TypeInv /\ HeldInv /\ [Next]_vars => HeldInv'
  BY NextHeld
<1>3. TypeInv /\ HeldInv /\ NeverAhead /\ [Next]_vars => NeverAhead'
  BY NextOrdered
<1> QED BY <1>1, <1>2, <1>3, InitTyped, NextTyped, InitHeld, InitOrdered, PTL
        DEF Spec
=============================================================================

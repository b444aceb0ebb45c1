-------------------------- MODULE MirroringProofs --------------------------
(***************************************************************************)
(* What the controller promises, for every value of the constants: it      *)
(* implements SecretMirror, and until the first fault every secret a crypt *)
(* asks for is written or on its way.                                      *)
(***************************************************************************)
EXTENDS MirroringController, CryptControllerProofs

\* What a crypt that is stored, cached, on its way or synced has asked for is
\* part of the history.
AskedFor(k, crypt) == [owner |-> [key |-> k, uid |-> crypt.uid], spec |-> crypt.spec]

WasAsked(k, crypt) == crypt # NoCrypt => AskedFor(k, crypt) \in asked

\* Every namespace a sync has found matches a pattern of the crypt it works on;
\* before it has read that crypt, it has found none.
Matching(jb) ==
  /\ jb.pc = "get" => jb.matched = <<>>
  /\ \A j \in 1..Len(jb.matched) : \E p \in 1..Len(jb.crypt.spec.patterns) :
       jb.matched[j] \in Matches[jb.crypt.spec.patterns[p]]

StoredAsked == \A k \in Crypts : WasAsked(k, crypts[k])
CachedAsked == \A k \in Crypts : WasAsked(k, cryptCache[k])
WatchAsked == \A i \in 1..Len(cryptWatch) : WasAsked(cryptWatch[i].key, cryptWatch[i].obj)
JobsAsked ==
  \A w \in Workers :
    job[w] # NoJob => WasAsked(job[w].key, job[w].crypt) /\ Matching(job[w])

HistoryInv == StoredAsked /\ CachedAsked /\ WatchAsked /\ JobsAsked
-----------------------------------------------------------------------------
(* The history covers what the controller works on. *)

\* What a sync works on is what it worked on before, or comes from the cache.
SameWork(w) ==
  /\ job[w] # NoJob /\ job'[w].key = job[w].key /\ job'[w].crypt = job[w].crypt
  /\ Matching(job[w]) => Matching(job'[w])
NewWork(w) ==
  /\ job'[w].crypt = NoCrypt \/ job'[w].crypt = cryptCache[job'[w].key]
  /\ job'[w].key \in Crypts /\ job'[w].matched = <<>>

LEMMA NothingMatched ==
  ASSUME NEW jb, jb.matched = <<>>
  PROVE  Matching(jb)
  BY DEF Matching

\* The namespaces a sync has found, and those that match its next pattern.
LEMMA MatchedMore ==
  ASSUME NEW crypt \in Crypt, NEW matched \in Seq(Namespaces),
         NEW i \in 1..Len(crypt.spec.patterns),
         NEW order \in Seq(Matches[crypt.spec.patterns[i]]),
         \A j \in 1..Len(matched) : \E p \in 1..Len(crypt.spec.patterns) :
           matched[j] \in Matches[crypt.spec.patterns[p]],
         NEW j \in 1..Len(matched \o order)
  PROVE  \E p \in 1..Len(crypt.spec.patterns) :
           (matched \o order)[j] \in Matches[crypt.spec.patterns[p]]
<1>1. CASE j \in 1..Len(matched)
  <2>1. (matched \o order)[j] = matched[j]
    BY <1>1
  <2> QED BY <1>1, <2>1
<1>2. CASE j \notin 1..Len(matched)
  <2>1. j - Len(matched) \in 1..Len(order)
    BY <1>2
  <2>2. (matched \o order)[j] = order[j - Len(matched)]
    BY <1>2, <2>1
  <2>3. order[j - Len(matched)] \in Matches[crypt.spec.patterns[i]]
    BY <2>1
  <2> QED BY <2>2, <2>3
<1> QED BY <1>1, <1>2

LEMMA WorkSteps ==
  ASSUME TypeInv, JobsAsked, NEW w \in Workers, WorkerStep(w)
  PROVE  /\ UNCHANGED <<crypts, cryptCache, cryptWatch>>
         /\ \A v \in Workers \ {w} : job'[v] = job[v]
         /\ job'[w] = NoJob \/ SameWork(w) \/ NewWork(w)
<1>1. ASSUME job[w] # NoJob PROVE GoodJob(job[w]) /\ job[w] \in Job
  BY <1>1 DEF GoodJob, TypeInv, TypeOK, JobsInBounds
<1>2. ASSUME NEW next, Continue(w, next)
      PROVE  /\ job'[w] = next /\ \A v \in Workers \ {w} : job'[v] = job[v]
             /\ UNCHANGED <<cryptCache, cryptWatch>>
  BY <1>2 DEF Continue, TypeInv, TypeOK, watchVars, cacheVars
\* What is left to show of a step that leaves the stored crypts alone.
<1> DEFINE Goal == /\ UNCHANGED <<crypts, cryptCache, cryptWatch>>
                   /\ \A v \in Workers \ {w} : job'[v] = job[v]
                   /\ job'[w] = NoJob \/ SameWork(w) \/ NewWork(w)
<1>3. ASSUME NEW ok \in BOOLEAN, Continue(w, Returned(job[w], ok)), job[w] # NoJob,
             job[w].pc \in {"fetch", "create", "update"}, UNCHANGED crypts
      PROVE  Goal
  <2>1. /\ job'[w].key = job[w].key /\ job'[w].crypt = job[w].crypt
        /\ job'[w].matched \in {job[w].matched, <<>>}
    BY <1>1, <1>2, <1>3, ReturnedGood
  <2>2. job'[w].pc # "get"
    BY <1>1, <1>2, <1>3, ReturnedGood
  <2>3. SameWork(w)
    BY <1>3, <2>1, <2>2 DEF SameWork, Matching
  <2> QED BY <1>2, <1>3, <2>3
<1>4. CASE TakeItem(w)
  <2>1. Head(queue) \in Crypts
    BY <1>4 DEF TakeItem, TypeInv, TypeOK, WQ!WQTypeOK, WQ!Get
  <2>2. Continue(w, NewJob(Head(queue))) /\ UNCHANGED crypts
    BY <1>4 DEF TakeItem, clusterVars
  <2>3. NewWork(w)
    BY <1>2, <2>1, <2>2 DEF NewWork, NewJob
  <2> QED BY <1>2, <2>2, <2>3
<1>5. ASSUME FinishItem(w) PROVE Goal
  BY <1>2, <1>5 DEF FinishItem, clusterVars
<1>6. CASE GetCrypt(w)
  <2> DEFINE crypt == cryptCache[job[w].key]
             pc == IF crypt.spec.patterns = <<>> THEN "event" ELSE "match"
             next == [job[w] EXCEPT !.crypt = crypt, !.pc = pc]
  <2>1. job[w] # NoJob /\ job[w] \in Job
    BY <1>1, <1>6 DEF GetCrypt, At
  <2>2. FinishItem(w) \/ (Continue(w, next) /\ UNCHANGED crypts)
    BY <1>6 DEF GetCrypt, clusterVars
  <2>3. /\ next.crypt = crypt /\ next.key = job[w].key
        /\ next.matched = job[w].matched
    <3> HIDE DEF crypt, pc
    <3> QED BY <2>1 DEF Job
  <2>4. ASSUME Continue(w, next), UNCHANGED crypts
        PROVE  NewWork(w)
    <3>1. job[w].key \in Crypts /\ job[w].matched = <<>>
      BY <1>6, <2>1 DEF GetCrypt, At, Job, JobsAsked, Matching
    <3> HIDE DEF next
    <3> QED BY <1>2, <2>3, <2>4, <3>1 DEF NewWork
  <2> QED BY <1>2, <1>5, <2>2, <2>4
<1>7. CASE findNamespaceMatches(w)
  <2>1. PICK jb \in Job : jb = job[w] /\ jb # NoJob /\ GoodJob(jb) /\ jb.pc = "match"
    BY <1>1, <1>7 DEF findNamespaceMatches, At
  <2>2. /\ jb.crypt \in Crypt /\ jb.crypt.spec.patterns \in Seq(Patterns)
        /\ jb.i \in 1..Len(jb.crypt.spec.patterns) /\ jb.matched \in Seq(Namespaces)
    BY <2>1 DEF GoodJob, InBounds, Job, Crypt, SpecType
  <2>3. PICK hits \in SUBSET Namespaces :
          hits = nsCache \cap Matches[jb.crypt.spec.patterns[jb.i]]
    <3>1. nsCache \in SUBSET Namespaces
      BY DEF TypeInv, TypeOK
    <3> QED BY <3>1, Zenon
  <2>4. PICK order, next, found :
          /\ order \in SetToSeqs(hits) /\ found = jb.matched \o order
          /\ Continue(w, next) /\ UNCHANGED crypts
          /\ \/ next = [jb EXCEPT !.matched = found, !.i = @ + 1]
             \/ next = [jb EXCEPT !.matched = <<>>, !.i = 1, !.pc = "event"]
             \/ next = [jb EXCEPT !.matched = found, !.i = 1, !.pc = "fetch"]
    BY <1>7, <2>1, <2>3, ZenonT(60) DEF findNamespaceMatches, clusterVars
  <2>5. /\ next.key = jb.key /\ next.crypt = jb.crypt /\ next.pc # "get"
        /\ next.matched \in {<<>>, found}
    BY <2>1, <2>4 DEF Job
  <2>6. order \in Seq(Matches[jb.crypt.spec.patterns[jb.i]])
    <3>1. order \in Seq(hits)
      BY <2>4, OrderTyped
    <3> QED BY <2>3, <3>1
  <2>7. ASSUME Matching(jb) PROVE Matching(next)
    <3>1. CASE next.matched = <<>>
      BY <3>1, NothingMatched
    <3>2. CASE next.matched = found
      <4>1. \A l \in 1..Len(jb.matched) : \E p \in 1..Len(jb.crypt.spec.patterns) :
              jb.matched[l] \in Matches[jb.crypt.spec.patterns[p]]
        BY <2>7 DEF Matching
      <4>2. \A l \in 1..Len(found) : \E p \in 1..Len(jb.crypt.spec.patterns) :
              found[l] \in Matches[jb.crypt.spec.patterns[p]]
        BY <2>2, <2>4, <2>6, <4>1, MatchedMore
      <4> QED BY <2>5, <3>2, <4>2 DEF Matching
    <3> QED BY <2>5, <3>1, <3>2
  <2>8. SameWork(w)
    BY <1>2, <2>1, <2>4, <2>5, <2>7 DEF SameWork
  <2> QED BY <1>2, <2>4, <2>8
<1>8. ASSUME NEW next, job[w] # NoJob, Continue(w, next), UNCHANGED crypts,
             next.key = job[w].key, next.crypt = job[w].crypt,
             next.matched = job[w].matched, next.pc # "get"
      PROVE  Goal
  <2>1. job'[w] = next
    BY <1>2, <1>8
  <2>2. Matching(job[w]) => Matching(next)
    BY <1>8 DEF Matching
  <2>3. SameWork(w)
    BY <1>8, <2>1, <2>2 DEF SameWork
  <2> QED BY <1>2, <1>8, <2>3
<1>9. CASE fetchObject(w)
  <2> DEFINE jb == job[w]
             ver == store[Def(jb).key].ver
             next == [jb EXCEPT !.pc = "create", !.ver = ver]
  <2>1. job[w] # NoJob /\ jb \in Job /\ jb.pc = "fetch" /\ UNCHANGED crypts
    BY <1>1, <1>9 DEF fetchObject, At, clusterVars
  <2>2. Continue(w, next) \/ Continue(w, Returned(jb, FALSE))
    BY <1>9 DEF fetchObject
  <2>3. /\ next.key = jb.key /\ next.crypt = jb.crypt
        /\ next.matched = jb.matched /\ next.pc = "create"
    <3> HIDE DEF jb, ver
    <3> QED BY <2>1 DEF Job
  <2> HIDE DEF next
  <2> QED BY <1>3, <1>8, <2>1, <2>2, <2>3
<1>10. CASE createSecret(w)
  <2> DEFINE jb == job[w]
             next == [jb EXCEPT !.pc = "update"]
  <2>1. job[w] # NoJob /\ jb \in Job /\ jb.pc = "create" /\ UNCHANGED crypts
    BY <1>1, <1>10 DEF createSecret, At
  <2>2. \/ Continue(w, Returned(jb, FALSE)) \/ Continue(w, Returned(jb, TRUE))
        \/ Continue(w, next)
    BY <1>10 DEF createSecret
  <2>3. /\ next.key = jb.key /\ next.crypt = jb.crypt
        /\ next.matched = jb.matched /\ next.pc = "update"
    <3> HIDE DEF jb
    <3> QED BY <2>1 DEF Job
  <2> HIDE DEF next
  <2> QED BY <1>3, <1>8, <2>1, <2>2, <2>3
<1>11. CASE updateSecret(w)
  <2>1. job[w] # NoJob /\ job[w].pc = "update" /\ UNCHANGED crypts
    BY <1>11 DEF updateSecret, At
  <2>2. Continue(w, Returned(job[w], FALSE)) \/ Continue(w, Returned(job[w], TRUE))
    BY <1>11 DEF updateSecret
  <2> QED BY <1>3, <2>1, <2>2
<1>12. CASE WriteFails(w)
  <2>1. job[w] # NoJob /\ job[w].pc \in {"create", "update"} /\ UNCHANGED crypts
    BY <1>12 DEF WriteFails, At
  <2> QED BY <1>3, <1>12, <2>1 DEF WriteFails
<1>13. CASE recordSynced(w)
  BY <1>5, <1>13 DEF recordSynced
<1> QED BY <1>4, <1>5, <1>6, <1>7, <1>9, <1>10, <1>11, <1>12, <1>13 DEF WorkerStep

\* A step of anything else changes stored crypts, caches and jobs in one of a few
\* ways.
LEMMA OtherSteps ==
  ASSUME Environment \/ CollectAny \/ ResyncAny \/ Handlers
           \/ (\E k \in Crypts : RipenKey(k)) \/ UNCHANGED vars
  PROVE  \/ UNCHANGED <<crypts, cryptCache, cryptWatch, job>>
         \/ UNCHANGED <<secrets, store>> /\ \E k \in Crypts : \E obj : PutCrypt(k, obj)
         \/ Crash
         \/ /\ UNCHANGED <<crypts, job>> /\ cryptCache' = crypts
            /\ cryptWatch' \in {cryptWatch, <<>>}
         \/ CryptEvent
<1>1. ASSUME Environment
      PROVE  \/ UNCHANGED <<crypts, cryptCache, cryptWatch, job>>
             \/ UNCHANGED <<secrets, store>> /\ \E k \in Crypts : \E obj : PutCrypt(k, obj)
             \/ Crash
  <2>1. ASSUME NEW k \in Crypts, NEW spec \in Specs,
               CreateCrypt(k, spec) \/ UpdateCrypt(k, spec)
        PROVE  UNCHANGED <<secrets, store>> /\ \E obj : PutCrypt(k, obj)
    BY <2>1 DEF CreateCrypt, UpdateCrypt, PutCrypt
  <2>2. ASSUME NEW k \in Crypts, DeleteCrypt(k)
        PROVE  UNCHANGED <<secrets, store>> /\ \E obj : PutCrypt(k, obj)
    BY <2>2 DEF DeleteCrypt, PutCrypt
  <2>3. ASSUME NEW n \in Namespaces, CreateNamespace(n) \/ DeleteNamespace(n)
        PROVE  UNCHANGED <<crypts, cryptCache, cryptWatch, job>>
    BY <2>3 DEF CreateNamespace, DeleteNamespace, cacheVars
  <2>4. ASSUME NEW s \in SecretIds, DeleteSecret(s) \/ PutForeignSecret(s)
        PROVE  UNCHANGED <<crypts, cryptCache, cryptWatch, job>>
    BY <2>4 DEF DeleteSecret, RemoveSecret, PutForeignSecret, cacheVars, watchVars
  <2>5. ASSUME NEW key \in StoreKeys, NEW readable \in BOOLEAN,
               WriteStore(key, readable)
        PROVE  UNCHANGED <<crypts, cryptCache, cryptWatch, job>>
    BY <2>5 DEF WriteStore, cacheVars, watchVars
  <2> QED BY <1>1, <2>1, <2>2, <2>3, <2>4, <2>5 DEF Environment
<1>2. CASE CollectAny
  BY <1>2 DEF CollectAny, CollectGarbage, RemoveSecret, cacheVars
<1>3. CASE ListCrypts \/ RelistCrypts
  BY <1>3 DEF ListCrypts, RelistCrypts, clusterVars, watchVars
<1>4. CASE ListNamespaces \/ ListSecrets \/ RelistNamespaces \/ RelistSecrets
             \/ NamespaceEvent
  BY <1>4 DEF ListNamespaces, ListSecrets, RelistNamespaces, RelistSecrets,
     NamespaceEvent, clusterVars, watchVars, cacheVars
<1>5. CASE (\E n \in Namespaces : handleNamespaceAdd(n)) \/ DeleteHandler
  BY <1>5 DEF handleNamespaceAdd, DeleteHandler, handleSecretDelete, enqueueOwner,
     clusterVars, watchVars, cacheVars
<1>6. CASE ResyncAny \/ \E k \in Crypts : RipenKey(k)
  BY <1>6 DEF ResyncAny, Resync, RipenKey, clusterVars, watchVars, cacheVars
<1>7. CASE UNCHANGED vars
  BY <1>7 DEF vars, clusterVars, watchVars, cacheVars
<1> QED BY <1>1, <1>2, <1>3, <1>4, <1>5, <1>6, <1>7 DEF Handlers

LEMMA InitHistory == HistoryInit => HistoryInv
<1> SUFFICES ASSUME HistoryInit PROVE HistoryInv
  OBVIOUS
<1>1. StoredAsked /\ CachedAsked /\ JobsAsked
  BY DEF HistoryInit, Init, ProcessInit, StoredAsked, CachedAsked, JobsAsked, WasAsked
<1>2. WatchAsked
  BY DEF HistoryInit, Init, ProcessInit, WatchAsked
<1> QED BY <1>1, <1>2 DEF HistoryInv

\* The history only grows, and holds what the crypts ask for after the step.
LEMMA HistoryGrows ==
  ASSUME asked' = asked \cup Asking'
  PROVE  /\ \A k, crypt : WasAsked(k, crypt) => WasAsked(k, crypt)'
         /\ StoredAsked'
<1>1. ASSUME NEW k, NEW crypt, WasAsked(k, crypt)
      PROVE  crypt # NoCrypt => AskedFor(k, crypt) \in asked'
  BY <1>1 DEF WasAsked
<1>2. ASSUME NEW k \in Crypts, crypts'[k] # NoCrypt
      PROVE  AskedFor(k, crypts'[k]) \in asked'
  BY <1>2 DEF Asking, AskedFor
<1> QED BY <1>1, <1>2 DEF WasAsked, StoredAsked, AskedFor

LEMMA NextHistory ==
  ASSUME TypeInv, HistoryInv, [HistoryNext]_historyVars
  PROVE  HistoryInv'
<1> USE DEF HistoryInv
<1>1. CASE UNCHANGED historyVars
  BY <1>1 DEF historyVars, vars, clusterVars, watchVars, cacheVars, StoredAsked,
     CachedAsked, WatchAsked, JobsAsked, WasAsked, Matching
<1>2. CASE HistoryNext
  <2>1. /\ \A k, crypt : WasAsked(k, crypt) => (crypt # NoCrypt => AskedFor(k, crypt) \in asked')
        /\ StoredAsked'
    BY <1>2, HistoryGrows DEF HistoryNext, WasAsked, AskedFor
  <2>2. ASSUME UNCHANGED cryptCache PROVE CachedAsked'
    BY <2>1, <2>2 DEF CachedAsked, WasAsked
  <2>3. ASSUME UNCHANGED cryptWatch PROVE WatchAsked'
    BY <2>1, <2>3 DEF WatchAsked, WasAsked
  <2>4. ASSUME UNCHANGED job PROVE JobsAsked'
    BY <2>1, <2>4 DEF JobsAsked, WasAsked, Matching
  <2>5. CASE UNCHANGED <<crypts, cryptCache, cryptWatch, job>>
    BY <2>1, <2>2, <2>3, <2>4, <2>5
  <2>6. ASSUME NEW k \in Crypts, NEW obj, PutCrypt(k, obj) PROVE HistoryInv'
    <3>1. /\ crypts' = [crypts EXCEPT ![k] = obj]
          /\ crypts \in [Crypts -> Crypt \cup {NoCrypt}]
          /\ cryptWatch \in Seq(Watched)
          /\ UNCHANGED <<cryptCache, job>>
          /\ \/ cryptWatch' = cryptWatch
             \/ cryptWatch' = Append(cryptWatch, [key |-> k, obj |-> obj])
      BY <2>6 DEF PutCrypt, Publish, cacheVars, TypeInv, TypeOK
    <3>2. obj # NoCrypt => AskedFor(k, obj) \in asked'
      BY <2>1, <3>1 DEF StoredAsked, WasAsked, AskedFor
    <3>3. ASSUME cryptWatch' = Append(cryptWatch, [key |-> k, obj |-> obj])
          PROVE  WatchAsked'
      <4>1. ASSUME NEW i \in 1..Len(cryptWatch')
            PROVE  cryptWatch'[i].obj # NoCrypt =>
                     AskedFor(cryptWatch'[i].key, cryptWatch'[i].obj) \in asked'
        <5>1. CASE i \in 1..Len(cryptWatch)
          <6>1. cryptWatch'[i] = cryptWatch[i]
            BY <3>1, <3>3, <5>1
          <6> QED BY <2>1, <5>1, <6>1 DEF WatchAsked
        <5>2. CASE i \notin 1..Len(cryptWatch)
          <6>1. cryptWatch'[i] = [key |-> k, obj |-> obj]
            BY <3>1, <3>3, <4>1, <5>2
          <6> QED BY <3>2, <6>1
        <5> QED BY <5>1, <5>2
      <4> QED BY <4>1 DEF WatchAsked, WasAsked, AskedFor
    <3> QED BY <2>1, <2>2, <2>3, <2>4, <3>1, <3>3
  <2>7. CASE Crash
    <3>1. WatchAsked'
      BY <2>7 DEF Crash, WatchAsked
    <3> QED BY <2>1, <2>7, <3>1 DEF Crash, CachedAsked, JobsAsked, WasAsked
  <2>8. CASE /\ UNCHANGED <<crypts, job>> /\ cryptCache' = crypts
             /\ cryptWatch' \in {cryptWatch, <<>>}
    <3>1. CachedAsked'
      BY <2>1, <2>8 DEF CachedAsked, StoredAsked, WasAsked
    <3>2. cryptWatch' = <<>> => WatchAsked'
      BY DEF WatchAsked
    <3> QED BY <2>1, <2>3, <2>4, <2>8, <3>1, <3>2
  <2>9. CASE CryptEvent
    <3> DEFINE e == Head(cryptWatch)
    <3>1. /\ cryptWatch \in Seq(Watched) /\ cryptWatch # <<>>
          /\ cryptWatch' = Tail(cryptWatch) /\ e = cryptWatch[1]
          /\ cryptCache' = [cryptCache EXCEPT ![e.key] = e.obj]
          /\ cryptCache \in [Crypts -> Crypt \cup {NoCrypt}]
          /\ UNCHANGED job
      BY <2>9 DEF CryptEvent, Cached, TypeInv, TypeOK
    <3>2. 1 \in 1..Len(cryptWatch) /\ e.key \in Crypts
      <4>1. 1 \in 1..Len(cryptWatch)
        BY <3>1
      <4>2. cryptWatch[1] \in Watched
        BY <3>1, <4>1
      <4> QED BY <3>1, <4>1, <4>2 DEF Watched
    <3>3. e.obj # NoCrypt => AskedFor(e.key, e.obj) \in asked'
      BY <2>1, <3>1, <3>2 DEF WatchAsked
    <3> HIDE DEF e
    <3>4. CachedAsked'
      <4>1. ASSUME NEW k \in Crypts
            PROVE  cryptCache'[k] # NoCrypt => AskedFor(k, cryptCache'[k]) \in asked'
        BY <2>1, <3>1, <3>2, <3>3 DEF CachedAsked
      <4> QED BY <4>1 DEF CachedAsked, WasAsked, AskedFor
    <3>5. WatchAsked'
      <4>1. ASSUME NEW i \in 1..Len(cryptWatch')
            PROVE  i + 1 \in 1..Len(cryptWatch) /\ cryptWatch'[i] = cryptWatch[i + 1]
        BY <3>1
      <4>2. ASSUME NEW i \in 1..Len(cryptWatch')
            PROVE  cryptWatch'[i].obj # NoCrypt =>
                     AskedFor(cryptWatch'[i].key, cryptWatch'[i].obj) \in asked'
        <5> DEFINE j == i + 1
        <5>1. j \in 1..Len(cryptWatch) /\ cryptWatch'[i] = cryptWatch[j]
          BY <4>1
        <5> HIDE DEF j
        <5> QED BY <2>1, <5>1 DEF WatchAsked
      <4> QED BY <4>2 DEF WatchAsked, WasAsked, AskedFor
    <3> QED BY <2>1, <2>4, <3>1, <3>4, <3>5
  <2>10. ASSUME NEW w \in Workers, WorkerStep(w) PROVE HistoryInv'
    <3>1. /\ UNCHANGED <<crypts, cryptCache, cryptWatch>>
          /\ \A v \in Workers \ {w} : job'[v] = job[v]
          /\ job'[w] = NoJob \/ SameWork(w) \/ NewWork(w)
      BY <2>10, WorkSteps
    <3>2. ASSUME NEW v \in Workers \ {w}, job'[v] # NoJob
          PROVE  /\ job'[v].crypt # NoCrypt =>
                       AskedFor(job'[v].key, job'[v].crypt) \in asked'
                 /\ Matching(job'[v])
      BY <2>1, <3>1, <3>2 DEF JobsAsked
    <3>3. ASSUME job'[w] # NoJob
          PROVE  /\ job'[w].crypt # NoCrypt =>
                       AskedFor(job'[w].key, job'[w].crypt) \in asked'
                 /\ Matching(job'[w])
      <4>1. CASE SameWork(w)
        BY <2>1, <4>1 DEF JobsAsked, SameWork
      <4>2. CASE NewWork(w)
        BY <2>1, <4>2, NothingMatched DEF CachedAsked, NewWork
      <4> QED BY <3>1, <3>3, <4>1, <4>2
    <3>4. JobsAsked'
      BY <3>2, <3>3 DEF JobsAsked, WasAsked, AskedFor, Matching
    <3> QED BY <2>1, <2>2, <2>3, <3>1, <3>4
  <2> QED BY <1>2, <2>5, <2>6, <2>7, <2>8, <2>9, <2>10, OtherSteps
          DEF HistoryNext, Next
<1> QED BY <1>1, <1>2
-----------------------------------------------------------------------------
(* The refinement. *)

\* A step of anything but a worker changes secrets and store as users do.
LEMMA Disturbances ==
  ASSUME TypeInv,
         Environment \/ CollectAny \/ ResyncAny \/ Handlers
           \/ (\E k \in Crypts : RipenKey(k)) \/ UNCHANGED vars
  PROVE  \/ UNCHANGED <<secrets, store>>
         \/ /\ UNCHANGED <<crypts, store>>
            /\ \E ids \in SUBSET SecretIds, other \in {NoSecret, Foreign} :
                 secrets' = [s \in SecretIds |-> IF s \in ids THEN other ELSE secrets[s]]
         \/ /\ UNCHANGED <<crypts, secrets>>
            /\ \E key \in StoreKeys, readable \in BOOLEAN :
                 store' = [store EXCEPT ![key] = [ver |-> store[key].ver + 1,
                                                  readable |-> readable]]
<1> DEFINE Disturbed ==
             \E ids \in SUBSET SecretIds, other \in {NoSecret, Foreign} :
               secrets' = [s \in SecretIds |-> IF s \in ids THEN other ELSE secrets[s]]
<1>1. ASSUME NEW t \in SecretIds, NEW other \in {NoSecret, Foreign},
             secrets' = [secrets EXCEPT ![t] = other]
      PROVE  Disturbed
  <2>1. secrets' = [s \in SecretIds |-> IF s \in {t} THEN other ELSE secrets[s]]
    BY <1>1 DEF TypeInv, TypeOK
  <2> QED BY <2>1
<1>2. ASSUME NEW n, secrets' = [s \in SecretIds |-> IF s[1] = n THEN NoSecret ELSE secrets[s]]
      PROVE  Disturbed
  <2> DEFINE ids == {s \in SecretIds : s[1] = n}
  <2>1. secrets' = [s \in SecretIds |-> IF s \in ids THEN NoSecret ELSE secrets[s]]
    BY <1>2
  <2>2. ids \in SUBSET SecretIds
    OBVIOUS
  <2> HIDE DEF ids
  <2> QED BY <2>1, <2>2
<1>3. ASSUME NEW s \in SecretIds, RemoveSecret(s)
      PROVE  UNCHANGED <<crypts, store>> /\ Disturbed
  BY <1>1, <1>3 DEF RemoveSecret
<1>4. ASSUME NEW s \in SecretIds, PutForeignSecret(s)
      PROVE  UNCHANGED <<crypts, store>> /\ Disturbed
  BY <1>1, <1>4 DEF PutForeignSecret
<1>5. ASSUME NEW n \in Namespaces, DeleteNamespace(n)
      PROVE  UNCHANGED <<crypts, store>> /\ Disturbed
  BY <1>2, <1>5 DEF DeleteNamespace
<1> HIDE DEF Disturbed
<1>6. CASE Environment
  <2>1. ASSUME NEW key \in StoreKeys, NEW readable \in BOOLEAN,
               WriteStore(key, readable)
        PROVE  /\ UNCHANGED <<crypts, secrets>>
               /\ store' = [store EXCEPT ![key] = [ver |-> store[key].ver + 1,
                                                   readable |-> readable]]
    BY <2>1 DEF WriteStore
  <2>2. ASSUME NEW k \in Crypts, NEW spec \in Specs,
               CreateCrypt(k, spec) \/ UpdateCrypt(k, spec)
        PROVE  UNCHANGED <<secrets, store>>
    BY <2>2 DEF CreateCrypt, UpdateCrypt, PutCrypt
  <2> QED BY <1>3, <1>4, <1>5, <1>6, <2>1, <2>2
          DEF Environment, DeleteCrypt, PutCrypt, CreateNamespace, DeleteSecret,
              Crash, clusterVars, Disturbed
<1>7. CASE CollectAny
  BY <1>3, <1>7 DEF CollectAny, CollectGarbage, Disturbed
<1>8. CASE Handlers
  BY <1>8 DEF Handlers, ListCrypts, ListNamespaces, ListSecrets, CryptEvent,
     RelistCrypts, RelistNamespaces, RelistSecrets, NamespaceEvent,
     handleNamespaceAdd, DeleteHandler, handleSecretDelete, enqueueOwner, clusterVars
<1> QED BY <1>6, <1>7, <1>8 DEF ResyncAny, Resync, RipenKey, clusterVars, vars

\* A worker's write is checked by the API server: it creates what is not there,
\* or updates without changing the type.
LEMMA WritesChecked ==
  ASSUME NEW w \in Workers, WorkerStep(w), secrets' # secrets
  PROVE  /\ job[w] # NoJob /\ job[w].pc \in {"create", "update"}
         /\ WriteSecret(job[w])
         /\ secrets[Target(job[w])] = NoSecret \/ Updatable(job[w])
<1>1. CASE createSecret(w)
  BY <1>1 DEF createSecret, At
<1>2. CASE updateSecret(w)
  BY <1>2 DEF updateSecret, At
<1>3. CASE WriteFails(w)
  BY <1>3 DEF WriteFails, At
<1>4. ASSUME TakeItem(w) \/ FinishItem(w) \/ recordSynced(w) \/ fetchObject(w)
      PROVE  FALSE
  BY <1>4, Zenon DEF TakeItem, FinishItem, recordSynced, fetchObject, clusterVars
<1>5. ASSUME GetCrypt(w) \/ findNamespaceMatches(w)
      PROVE  FALSE
  BY <1>4, <1>5, Zenon DEF GetCrypt, findNamespaceMatches, clusterVars
<1> QED BY <1>1, <1>2, <1>3, <1>4, <1>5 DEF WorkerStep

\* A worker's write is what SecretMirror promises: something a version of the
\* owner asked for, in a namespace that version matches, no older than before.
LEMMA WriteMirrors ==
  ASSUME TypeInv, HistoryInv, NeverAhead, UNCHANGED <<asked, store>>,
         NEW w \in Workers, job[w] # NoJob, job[w].pc \in {"create", "update"},
         WriteSecret(job[w]),
         secrets[Target(job[w])] = NoSecret \/ Updatable(job[w])
  PROVE  Mirror!MirrorNext
<1>1. PICK jb \in Job : jb = job[w] /\ GoodJob(jb)
  BY DEF GoodJob, TypeInv, TypeOK, JobsInBounds
<1>2. /\ jb.crypt \in Crypt /\ jb.crypt.spec.secrets \in Seq(SecretDefs)
      /\ jb.crypt.spec.patterns \in Seq(Patterns) /\ jb.crypt # NoCrypt
      /\ jb.i \in 1..Len(jb.crypt.spec.secrets) /\ jb.j \in 1..Len(jb.matched)
      /\ jb.matched \in Seq(Namespaces) /\ jb.ver \in Nat
  BY <1>1 DEF GoodJob, InBounds, Job, Crypt, SpecType
<1>3. PICK a \in asked : /\ a.spec = jb.crypt.spec
                         /\ a.owner = [key |-> jb.key, uid |-> jb.crypt.uid]
  BY <1>1, <1>2 DEF HistoryInv, JobsAsked, WasAsked, AskedFor
<1>4. PICK n \in Namespaces, d \in DOMAIN a.spec.secrets, ver \in Nat :
        n = jb.matched[jb.j] /\ d = jb.i /\ ver = jb.ver
  <2>1. jb.matched[jb.j] \in Namespaces
    BY <1>2
  <2>2. jb.i \in DOMAIN a.spec.secrets
    BY <1>2, <1>3
  <2> QED BY <1>2, <2>1, <2>2
<1>5. PICK def, s, secret :
        /\ def = a.spec.secrets[d] /\ s = <<n, def.name>>
        /\ secret = [owner |-> a.owner, key |-> def.key, ver |-> ver,
                     type |-> GetType(def)]
  OBVIOUS
<1>6. def = Def(jb) /\ s = Target(jb) /\ secret = newSecret(jb)
  BY <1>3, <1>4, <1>5 DEF Def, Target, newSecret
<1>7. s \in SecretIds /\ def.key \in StoreKeys
  BY <1>1, <1>6, TargetTyped DEF SecretDefs
<1>8. secret.owner.key = jb.key /\ secret.key = def.key /\ secret.ver = ver
  BY <1>3, <1>5
<1>9. \E p \in DOMAIN a.spec.patterns : n \in Matches[a.spec.patterns[p]]
  <2>1. PICK p \in 1..Len(jb.crypt.spec.patterns) :
          n \in Matches[jb.crypt.spec.patterns[p]]
    BY <1>1, <1>2, <1>4 DEF HistoryInv, JobsAsked, Matching
  <2>2. p \in DOMAIN a.spec.patterns
    BY <1>2, <1>3
  <2> QED BY <1>3, <2>1, <2>2
<1>10. /\ ver <= store[def.key].ver
       /\ Owned(s) /\ SameOrigin(secrets[s], secret) => secrets[s].ver <= ver
  BY <1>1, <1>4, <1>6 DEF NeverAhead, InOrder
<1>11. Mirror!NotOlder(secrets[s], secret)
  BY <1>8, <1>10 DEF Mirror!NotOlder, Owned, SameOrigin
<1>12. secrets[s] \notin {NoSecret, Foreign} => secrets[s].type = secret.type
  BY <1>1, <1>6 DEF Updatable, TypeOf
<1>13. secrets' = [secrets EXCEPT ![s] = secret]
  BY <1>1, <1>6 DEF WriteSecret
<1>14. ver \in 0..[key \in StoreKeys |-> store[key].ver][def.key]
  <2>1. PICK latest \in Nat : latest = store[def.key].ver
    BY <1>7 DEF TypeInv, TypeOK
  <2>2. ver \in 0..latest
    BY <1>10, <2>1
  <2> QED BY <1>7, <2>1, <2>2
<1>15. Mirror!Mirror(a, d, n, ver)
  BY <1>5, <1>9, <1>11, <1>12, <1>13 DEF Mirror!Mirror
<1> QED BY <1>5, <1>14, <1>15 DEF Mirror!MirrorNext

\* Every step of the controller and its cluster is one of the mirror, or none.
LEMMA NextMirrors ==
  ASSUME TypeInv, HistoryInv, NeverAhead, [HistoryNext]_historyVars
  PROVE  [Mirror!MirrorNext]_(Mirror!mirrorVars)
<1>1. CASE UNCHANGED historyVars
  BY <1>1 DEF historyVars, vars, clusterVars, Mirror!mirrorVars
<1>2. ASSUME HistoryNext, UNCHANGED <<secrets, store>>
      PROVE  Mirror!Ask
  BY <1>2 DEF HistoryNext, Mirror!Ask
<1>3. ASSUME HistoryNext, UNCHANGED crypts
      PROVE  asked' = asked
  <2>1. Asking \subseteq asked
    BY DEF Asking, HistoryInv, StoredAsked, WasAsked, AskedFor
  <2>2. Asking' = Asking
    BY <1>3 DEF Asking
  <2> QED BY <1>3, <2>1, <2>2 DEF HistoryNext
<1>4. ASSUME HistoryNext, UNCHANGED <<crypts, store>>,
             NEW ids \in SUBSET SecretIds, NEW other \in {NoSecret, Foreign},
             secrets' = [s \in SecretIds |-> IF s \in ids THEN other ELSE secrets[s]]
      PROVE  Mirror!Disturb
  BY <1>3, <1>4 DEF Mirror!Disturb, SecretIds, Mirror!SecretIds
<1>5. ASSUME HistoryNext, UNCHANGED <<crypts, secrets>>,
             NEW key \in StoreKeys, NEW readable \in BOOLEAN,
             store' = [store EXCEPT ![key] = [ver |-> store[key].ver + 1,
                                              readable |-> readable]]
      PROVE  Mirror!Publish
  <2>1. [k \in StoreKeys |-> store'[k].ver]
          = [[k \in StoreKeys |-> store[k].ver] EXCEPT ![key] = store[key].ver + 1]
    <3>1. \A k \in StoreKeys :
            store'[k].ver = IF k = key THEN store[key].ver + 1 ELSE store[k].ver
      BY <1>5 DEF TypeInv, TypeOK
    <3> QED BY <3>1
  <2> QED BY <1>3, <1>5, <2>1 DEF Mirror!Publish
<1>6. ASSUME HistoryNext, NEW w \in Workers, WorkerStep(w), secrets' # secrets
      PROVE  Mirror!MirrorNext
  <2>1. UNCHANGED <<crypts, store>>
    BY <1>6, WorkSteps, WorkerSteps DEF HistoryInv
  <2> QED BY <1>3, <1>6, <2>1, WritesChecked, WriteMirrors
<1>7. ASSUME HistoryNext, NEW w \in Workers, WorkerStep(w), secrets' = secrets
      PROVE  Mirror!Ask
  BY <1>2, <1>7, WorkerSteps
<1> QED BY <1>1, <1>2, <1>4, <1>5, <1>6, <1>7, Disturbances
        DEF HistoryNext, Next, Mirror!MirrorNext

LEMMA InitMirrors == HistoryInit => Mirror!MirrorInit
  BY DEF HistoryInit, Init, Mirror!MirrorInit, SecretIds, Mirror!SecretIds

\* Whatever users, faults and restarts do, every secret the controller writes is
\* one that a version of its owner asked for, in a namespace that this version
\* matches, with a value the store had, no older than the one it replaces.
THEOREM ControllerImplementsMirror == HistorySpec => ImplementsSecretMirror
<1>1. HistoryInit => TypeInv /\ HeldInv /\ NeverAhead
  BY InitTyped, InitHeld, InitOrdered DEF HistoryInit
<1>2. [HistoryNext]_historyVars => [Next]_vars
  BY DEF HistoryNext, historyVars
<1>3. TypeInv /\ HeldInv /\ [Next]_vars => HeldInv'
  BY NextHeld
<1>4. TypeInv /\ HeldInv /\ NeverAhead /\ [Next]_vars => NeverAhead'
  BY NextOrdered
<1>5. TypeInv /\ HistoryInv /\ [HistoryNext]_historyVars => HistoryInv'
  BY NextHistory
<1>6. TypeInv /\ HistoryInv /\ NeverAhead /\ [HistoryNext]_historyVars =>
        [Mirror!MirrorNext]_(Mirror!mirrorVars)
  BY NextMirrors
<1> QED BY <1>1, <1>2, <1>3, <1>4, <1>5, <1>6, NextTyped, InitHistory, InitMirrors,
           PTL DEF HistorySpec, ImplementsSecretMirror, Mirror!MirrorSpec
-----------------------------------------------------------------------------
(* Settled: why events alone keep independent crypts provisioned. *)

Calm == ~moves.faulty /\ Independent

Exists(k) == crypts[k] # NoCrypt
OnWatch(k) == \E i \in 1..Len(cryptWatch) : cryptWatch[i].key = k
NsOnWatch(n) == \E i \in 1..Len(nsWatch) : nsWatch[i].ns = n

\* What is in the cache, or on its way to it, is what is stored: an event is out
\* of date only if another one follows.
CryptsFollowed ==
  /\ "crypts" \notin synced => cryptWatch = <<>>
  /\ "crypts" \in synced =>
       \A k \in Crypts : Exists(k) => OnWatch(k) \/ cryptCache[k] = crypts[k]
  /\ \A i \in 1..Len(cryptWatch) :
       LET e == cryptWatch[i] IN
       Exists(e.key) =>
         \/ e.obj = crypts[e.key]
         \/ \E j \in (i + 1)..Len(cryptWatch) : cryptWatch[j].key = e.key

NamespacesFollowed ==
  /\ InitNamespaces \subseteq namespaces
  /\ "namespaces" \notin synced => nsWatch = <<>> /\ nsAdded = {} /\ nsListed = {}
  /\ "namespaces" \in synced =>
       \A n \in namespaces : NsOnWatch(n) \/ n \in nsCache \cup nsListed
  /\ \A i \in 1..Len(nsWatch) :
       LET e == nsWatch[i] IN
       /\ e.ns \notin InitNamespaces
       /\ e.ns \in namespaces =>
            \/ e.present
            \/ \E j \in (i + 1)..Len(nsWatch) : nsWatch[j].ns = e.ns

\* A sync of k that starts later than now will come.
Due(k) == "crypts" \notin synced \/ OnWatch(k) \/ k \in waiting \cup dirty

\* Before the caches are filled nobody syncs, and all crypts are due.
EarlyDue ==
  ~Ready =>
    /\ \A w \in Workers : job[w] = NoJob
    /\ \A k \in Crypts : Exists(k) => Due(k)

\* A sync that works on an old version of a crypt will be followed by another.
StaleDue ==
  \A w \in Workers, k \in Crypts :
    job[w] # NoJob /\ job[w].key = k /\ Exists(k) /\ job[w].pc # "get" =>
      job[w].crypt = crypts[k] \/ Due(k)

\* All secrets are the controller's, each of the type its owner asked for.
AskedName(s) ==
  \E a \in asked : \E def \in ToSet(a.spec.secrets) :
    /\ a.owner = secrets[s].owner
    /\ def.name = s[2] /\ GetType(def) = secrets[s].type
OnlyOurs == \A s \in SecretIds : secrets[s] # NoSecret => Owned(s) /\ AskedName(s)
StoreReadable == \A key \in StoreKeys : store[key].readable

\* What leads to another sync of k, or of the crypts that match n.
Removed(k) ==
  \/ \E d \in deleted : d.owner # Foreign /\ d.owner.key = k
  \/ lookup # NoTask /\ lookup.owner.key = k /\ k.ns \in lookup.seen
Arriving(n) == n \in nsAdded \cup nsListed \/ NsOnWatch(n)

\* The loops of sync jb have yet to reach definition def and namespace n.
Ahead(jb, n, def) ==
  \E i \in jb.i..Len(jb.crypt.spec.secrets), j \in 1..Len(jb.matched) :
    /\ jb.matched[j] = n /\ jb.crypt.spec.secrets[i] = def
    /\ i = jb.i => j >= jb.j
    /\ jb.pc = "update" /\ i = jb.i /\ j = jb.j => secrets[<<n, def.name>>] # NoSecret

WillMatch(jb, n) ==
  \/ \E j \in 1..Len(jb.matched) : jb.matched[j] = n
  \/ n \in nsCache /\ \E p \in jb.i..Len(jb.crypt.spec.patterns) :
                        n \in Matches[jb.crypt.spec.patterns[p]]

WillWrite(jb, n, def) ==
  \/ jb.pc = "get"
  \/ /\ jb.crypt = crypts[jb.key]
     /\ \/ jb.pc = "match" /\ WillMatch(jb, n)
        \/ jb.pc \in {"fetch", "create", "update"} /\ Ahead(jb, n, def)

Working(k, n, def) ==
  \E w \in Workers : job[w] # NoJob /\ job[w].key = k /\ WillWrite(job[w], n, def)

OnTheWay(k, n, def) ==
  Due(k) \/ Removed(k) \/ Arriving(n) \/ Working(k, n, def)

\* Crypt k wants its definition number d in namespace n.
Wants(k, n, d) ==
  /\ Exists(k) /\ n \in namespaces /\ d \in 1..Len(crypts[k].spec.secrets)
  /\ \E p \in 1..Len(crypts[k].spec.patterns) : n \in Matches[crypts[k].spec.patterns[p]]

Provided ==
  \A k \in Crypts, n \in Namespaces, d \in Nat, def \in SecretDefs :
    Wants(k, n, d) /\ def = crypts[k].spec.secrets[d] =>
      WrittenFor(<<n, def.name>>, def, k) \/ OnTheWay(k, n, def)

SettlingInv ==
  Calm => /\ CryptsFollowed /\ NamespacesFollowed
          /\ EarlyDue /\ StaleDue
          /\ OnlyOurs /\ StoreReadable
          /\ Provided
-----------------------------------------------------------------------------
(* What a step without a fault does to each part of the state. *)

CryptStep ==
  \/ /\ UNCHANGED <<crypts, cryptWatch, cryptCache>>
     /\ "crypts" \in synced' <=> "crypts" \in synced
     /\ \/ waiting \cup dirty \subseteq waiting' \cup dirty'
        \/ \E w \in Workers : TakeItem(w)
  \/ \E k \in Crypts, obj \in Crypt \cup {NoCrypt} : PutCrypt(k, obj)
  \/ Crash \/ ListCrypts \/ CryptEvent

NamespaceStep ==
  \/ /\ UNCHANGED <<namespaces, nsWatch, nsListed, nsCache>>
     /\ "namespaces" \in synced' <=> "namespaces" \in synced
     /\ nsAdded' = nsAdded \/ \E n \in Namespaces : handleNamespaceAdd(n)
  \/ \E n \in Namespaces : CreateNamespace(n) \/ DeleteNamespace(n)
  \/ Crash \/ ListNamespaces \/ NamespaceEvent

DeletionStep ==
  \/ deleted \subseteq deleted' /\ lookup' = lookup
  \/ Crash \/ (\E d \in deleted : handleSecretDelete(d)) \/ enqueueOwner

SecretStep ==
  \/ UNCHANGED secrets
  \/ \E ids \in SUBSET SecretIds :
       /\ secrets' = [s \in SecretIds |-> IF s \in ids THEN NoSecret ELSE secrets[s]]
       /\ deleted' = deleted \cup Gone(ids)
       /\ UNCHANGED <<crypts, cryptWatch, synced, queueVars, job>>
  \/ \E w \in Workers : WorkerStep(w) /\ ~WriteFails(w)

JobStep ==
  /\ (Ready => Ready') \/ Crash
  /\ \/ UNCHANGED job
     \/ Crash
     \/ \E w \in Workers : WorkerStep(w) /\ ~WriteFails(w)

\* A secret that a user or the garbage collector removes.
LEMMA SecretRemoved ==
  ASSUME TypeInv, NEW s \in SecretIds, RemoveSecret(s)
  PROVE  /\ CryptStep /\ NamespaceStep /\ DeletionStep /\ SecretStep /\ JobStep
         /\ StoreReadable => StoreReadable'
<1> USE InformersAssumption DEF clusterVars, watchVars, cacheVars, queueVars, Ready
<1>1. /\ secrets' = [t \in SecretIds |-> IF t \in {s} THEN NoSecret ELSE secrets[t]]
      /\ deleted' = deleted \cup Gone({s})
      /\ {s} \in SUBSET SecretIds
  BY DEF RemoveSecret, TypeInv, TypeOK
<1>2. SecretStep
  BY <1>1 DEF RemoveSecret, SecretStep
<1> QED BY <1>2 DEF RemoveSecret, CryptStep, NamespaceStep, DeletionStep, JobStep,
           StoreReadable

\* A move that is no fault, of a run that has had none.
LEMMA CalmMove ==
  ASSUME NEW kind, Move(kind), ~moves'.faulty
  PROVE  kind \notin Faults /\ ~moves.faulty
  BY DEF Move

LEMMA CalmEnvironment ==
  ASSUME TypeInv, Environment, ~moves'.faulty
  PROVE  /\ ~moves.faulty
         /\ CryptStep /\ NamespaceStep /\ DeletionStep /\ SecretStep /\ JobStep
         /\ StoreReadable => StoreReadable'
<1> USE InformersAssumption DEF clusterVars, watchVars, cacheVars, queueVars, Ready
<1>1. ASSUME NEW k \in Crypts, NEW spec \in Specs,
             CreateCrypt(k, spec) \/ UpdateCrypt(k, spec) \/ DeleteCrypt(k)
      PROVE  /\ Move("crypt") \/ Move("respec") \/ Move("uncrypt")
             /\ \E obj \in Crypt \cup {NoCrypt} : PutCrypt(k, obj)
  <2>1. ASSUME CreateCrypt(k, spec)
        PROVE  [uid |-> uids[k] + 1, spec |-> spec] \in Crypt
    BY SpecsAssumption DEF TypeInv, TypeOK, Crypt
  <2>2. ASSUME UpdateCrypt(k, spec)
        PROVE  [crypts[k] EXCEPT !.spec = spec] \in Crypt
    BY <2>2, SpecsAssumption DEF TypeInv, TypeOK, Crypt, UpdateCrypt
  <2> QED BY <1>1, <2>1, <2>2 DEF CreateCrypt, UpdateCrypt, DeleteCrypt
<1>2. CASE \E k \in Crypts, spec \in Specs :
             CreateCrypt(k, spec) \/ UpdateCrypt(k, spec)
  <2>1. PICK k \in Crypts, obj \in Crypt \cup {NoCrypt} : PutCrypt(k, obj)
    BY <1>1, <1>2
  <2> QED BY <1>1, <1>2, <2>1, CalmMove DEF PutCrypt, CryptStep, NamespaceStep,
             DeletionStep, SecretStep, JobStep, StoreReadable
<1>3. ASSUME NEW k \in Crypts, DeleteCrypt(k)
      PROVE  Move("uncrypt") /\ PutCrypt(k, NoCrypt)
  BY <1>3 DEF DeleteCrypt
<1>4. CASE \E k \in Crypts : DeleteCrypt(k)
  BY <1>3, <1>4, CalmMove DEF PutCrypt, CryptStep, NamespaceStep,
     DeletionStep, SecretStep, JobStep, StoreReadable
<1>5. ASSUME NEW n \in Namespaces, CreateNamespace(n)
      PROVE  /\ Move("namespace")
             /\ CryptStep /\ NamespaceStep /\ DeletionStep /\ SecretStep /\ JobStep
             /\ StoreReadable => StoreReadable'
  BY <1>5 DEF CreateNamespace, CryptStep, NamespaceStep, DeletionStep, SecretStep,
     JobStep, StoreReadable
<1>6. ASSUME NEW n \in Namespaces, DeleteNamespace(n)
      PROVE  /\ Move("unnamespace")
             /\ CryptStep /\ NamespaceStep /\ DeletionStep /\ SecretStep /\ JobStep
             /\ StoreReadable => StoreReadable'
  <2>1. CryptStep /\ NamespaceStep /\ DeletionStep /\ JobStep
    BY <1>6 DEF DeleteNamespace, CryptStep, NamespaceStep, DeletionStep, JobStep
  <2> DEFINE ids == {s \in SecretIds : s[1] = n}
  <2>2. /\ secrets' = [s \in SecretIds |-> IF s \in ids THEN NoSecret ELSE secrets[s]]
        /\ deleted' = deleted \cup Gone(ids)
        /\ ids \in SUBSET SecretIds
    BY <1>6 DEF DeleteNamespace
  <2> HIDE DEF ids
  <2>3. SecretStep
    BY <1>6, <2>2 DEF DeleteNamespace, SecretStep
  <2> QED BY <1>6, <2>1, <2>3 DEF DeleteNamespace, StoreReadable
<1>7. ASSUME NEW s \in SecretIds, DeleteSecret(s)
      PROVE  Move("unsecret") /\ RemoveSecret(s)
  BY <1>7 DEF DeleteSecret
<1>8. ASSUME NEW s \in SecretIds, PutForeignSecret(s)
      PROVE  FALSE
  <2>1. "foreign" \in Faults
    BY DEF Faults
  <2> QED BY <1>8, <2>1, CalmMove DEF PutForeignSecret
<1>9. ASSUME NEW key \in StoreKeys, NEW readable \in BOOLEAN, WriteStore(key, readable)
      PROVE  /\ ~moves.faulty
             /\ CryptStep /\ NamespaceStep /\ DeletionStep /\ SecretStep /\ JobStep
             /\ StoreReadable => StoreReadable'
  <2>1. "unreadable" \in Faults
    BY DEF Faults
  <2>2. readable /\ ~moves.faulty
    BY <1>9, <2>1, CalmMove DEF WriteStore
  <2>3. StoreReadable => StoreReadable'
    <3>1. store' = [store EXCEPT ![key] = [ver |-> store[key].ver + 1,
                                           readable |-> readable]]
      BY <1>9 DEF WriteStore
    <3>2. \A other \in StoreKeys :
            store'[other] = IF other = key
                            THEN [ver |-> store[key].ver + 1, readable |-> readable]
                            ELSE store[other]
      BY <3>1 DEF TypeInv, TypeOK
    <3> QED BY <2>2, <3>2 DEF StoreReadable
  <2> QED BY <1>9, <2>2, <2>3 DEF WriteStore, CryptStep, NamespaceStep, DeletionStep,
             SecretStep, JobStep
<1>10. CASE Crash
  BY <1>10, CalmMove DEF Crash, CryptStep, NamespaceStep, DeletionStep, SecretStep,
     JobStep, StoreReadable
<1>11. CASE \E s \in SecretIds : DeleteSecret(s)
  BY <1>7, <1>11, CalmMove, SecretRemoved DEF CryptStep
<1> QED BY <1>2, <1>4, <1>5, <1>6, <1>8, <1>9, <1>10, <1>11, CalmMove DEF Environment

LEMMA CalmSteps ==
  ASSUME TypeInv, [Next]_vars, ~moves'.faulty
  PROVE  /\ ~moves.faulty
         /\ CryptStep /\ NamespaceStep /\ DeletionStep /\ SecretStep /\ JobStep
         /\ StoreReadable => StoreReadable'
<1> USE InformersAssumption DEF clusterVars, watchVars, cacheVars, queueVars, Ready
<1> DEFINE Goal == /\ ~moves.faulty
                   /\ CryptStep /\ NamespaceStep /\ DeletionStep /\ SecretStep /\ JobStep
                   /\ StoreReadable => StoreReadable'
<1>1. CASE UNCHANGED vars
  BY <1>1 DEF vars, CryptStep, NamespaceStep, DeletionStep, SecretStep, JobStep,
     StoreReadable
<1>2. CASE Environment
  BY <1>2, CalmEnvironment
<1>3. CASE CollectAny
  BY <1>3, SecretRemoved DEF CollectAny, CollectGarbage
<1>4. CASE ResyncAny
  BY <1>4 DEF ResyncAny, Resync, enqueueCrypt, WQ!AddRateLimited,
     CryptStep, NamespaceStep, DeletionStep, SecretStep, JobStep, StoreReadable
<1>5. ASSUME NEW k \in Crypts, RipenKey(k) PROVE Goal
  BY <1>5 DEF RipenKey, WQ!Ripen,
     CryptStep, NamespaceStep, DeletionStep, SecretStep, JobStep, StoreReadable
<1>6. CASE Handlers
  <2>1. CASE ListCrypts
    BY <2>1 DEF ListCrypts, CryptStep, NamespaceStep, DeletionStep, SecretStep,
       JobStep, StoreReadable
  <2>2. CASE ListNamespaces
    BY <2>2 DEF ListNamespaces, CryptStep, NamespaceStep, DeletionStep, SecretStep,
       JobStep, StoreReadable
  <2>3. CASE ListSecrets
    BY <2>3 DEF ListSecrets, CryptStep, NamespaceStep, DeletionStep, SecretStep,
       JobStep, StoreReadable
  <2>4. CASE RelistCrypts \/ RelistNamespaces \/ RelistSecrets
    <3>1. "relist" \in Faults
      BY DEF Faults
    <3> QED BY <2>4, <3>1, CalmMove DEF RelistCrypts, RelistNamespaces, RelistSecrets
  <2>5. CASE CryptEvent
    BY <2>5 DEF CryptEvent, CryptStep, NamespaceStep, DeletionStep, SecretStep,
       JobStep, StoreReadable
  <2>6. CASE NamespaceEvent
    BY <2>6 DEF NamespaceEvent, CryptStep, NamespaceStep, DeletionStep, SecretStep,
       JobStep, StoreReadable
  <2>7. ASSUME NEW n \in Namespaces, handleNamespaceAdd(n) PROVE Goal
    <3>1. PICK keys : enqueueCrypt(keys)
      BY <2>7 DEF handleNamespaceAdd
    <3>2. waiting \cup dirty \subseteq waiting' \cup dirty'
      BY <3>1 DEF enqueueCrypt, WQ!AddRateLimited
    <3>3. UNCHANGED <<crypts, cryptWatch, cryptCache, namespaces, nsWatch, nsListed,
                      nsCache, synced, deleted, lookup, secrets, job, store, moves>>
      BY <2>7 DEF handleNamespaceAdd
    <3> QED BY <2>7, <3>2, <3>3 DEF CryptStep, NamespaceStep, DeletionStep, SecretStep,
               JobStep, StoreReadable
  <2>8. ASSUME NEW d \in deleted, handleSecretDelete(d) PROVE Goal
    <3>1. ~moves.faulty
      BY <2>8, CalmMove DEF handleSecretDelete
    <3>2. UNCHANGED <<crypts, cryptWatch, cryptCache, namespaces, nsWatch, nsListed,
                      nsCache, synced, nsAdded, secrets, job, store, queueVars>>
      BY <2>8 DEF handleSecretDelete
    <3> QED BY <2>8, <3>1, <3>2 DEF CryptStep, NamespaceStep, DeletionStep, SecretStep,
               JobStep, StoreReadable
  <2>9. CASE enqueueOwner
    <3>1. waiting \cup dirty \subseteq waiting' \cup dirty'
      BY <2>9 DEF enqueueOwner, enqueueCrypt, WQ!AddRateLimited
    <3> QED BY <2>9, <3>1 DEF enqueueOwner, CryptStep, NamespaceStep, DeletionStep,
               SecretStep, JobStep, StoreReadable
  <2> QED BY <1>6, <2>1, <2>2, <2>3, <2>4, <2>5, <2>6, <2>7, <2>8, <2>9
          DEF Handlers, DeleteHandler
<1>7. ASSUME NEW w \in Workers, WorkerStep(w) PROVE Goal
  <2>1. WriteFails(w) => FALSE
    <3>1. "write fails" \in Faults
      BY DEF Faults
    <3> QED BY <3>1, CalmMove DEF WriteFails
  <2>2. /\ UNCHANGED <<crypts, cryptWatch, cryptCache, namespaces, nsWatch, nsListed,
                       nsCache, synced, nsAdded, deleted, lookup, store>>
        /\ waiting \cup dirty \subseteq waiting' \cup dirty' \/ TakeItem(w)
    BY <1>7, ZenonT(60) DEF WorkerStep, TakeItem, FinishItem, GetCrypt, findNamespaceMatches,
       fetchObject, createSecret, updateSecret, WriteFails, recordSynced, Continue,
       WQ!Done
  <2>3. ~moves.faulty
    BY <1>7, CalmMove, Zenon DEF WorkerStep, TakeItem, FinishItem, GetCrypt,
       findNamespaceMatches, fetchObject, createSecret, updateSecret, WriteFails,
       recordSynced
  <2> QED BY <1>7, <2>1, <2>2, <2>3 DEF CryptStep, NamespaceStep, DeletionStep,
             SecretStep, JobStep, StoreReadable
<1> QED BY <1>1, <1>2, <1>3, <1>4, <1>5, <1>6, <1>7 DEF Next
-----------------------------------------------------------------------------
(* Streams: events are appended at one end and handled at the other. *)

LEMMA AppendAt ==
  ASSUME NEW S, NEW s \in Seq(S), NEW e
  PROVE  /\ Len(Append(s, e)) = Len(s) + 1
         /\ \A i \in 1..Len(s) : Append(s, e)[i] = s[i]
         /\ Append(s, e)[Len(s) + 1] = e
  OBVIOUS

LEMMA TailAt ==
  ASSUME NEW S, NEW s \in Seq(S), s # <<>>
  PROVE  /\ Len(s) \in Nat \ {0} /\ Len(Tail(s)) = Len(s) - 1
         /\ Head(s) = s[1]
         /\ \A i \in 1..Len(Tail(s)) : Tail(s)[i] = s[i + 1]
         /\ \A i \in 2..Len(s) : i - 1 \in 1..Len(Tail(s)) /\ Tail(s)[i - 1] = s[i]
<1>1. /\ Len(s) \in Nat \ {0} /\ Len(Tail(s)) = Len(s) - 1
      /\ Head(s) = s[1]
      /\ \A i \in 1..Len(Tail(s)) : Tail(s)[i] = s[i + 1]
  OBVIOUS
<1>2. ASSUME NEW i \in 2..Len(s)
      PROVE  i - 1 \in 1..Len(Tail(s)) /\ Tail(s)[i - 1] = s[i]
  BY <1>1
<1> QED BY <1>1, <1>2

LEMMA StreamsTyped ==
  ASSUME TypeInv
  PROVE  /\ crypts \in [Crypts -> Crypt \cup {NoCrypt}]
         /\ cryptCache \in [Crypts -> Crypt \cup {NoCrypt}]
         /\ cryptWatch \in Seq(Watched) /\ Len(cryptWatch) \in Nat
         /\ \A i \in 1..Len(cryptWatch) : cryptWatch[i].key \in Crypts
         /\ nsWatch \in Seq(NsEvent) /\ Len(nsWatch) \in Nat
         /\ \A i \in 1..Len(nsWatch) : nsWatch[i].ns \in Namespaces
<1>1. /\ crypts \in [Crypts -> Crypt \cup {NoCrypt}]
      /\ cryptCache \in [Crypts -> Crypt \cup {NoCrypt}]
      /\ cryptWatch \in Seq(Watched) /\ nsWatch \in Seq(NsEvent)
  BY DEF TypeInv, TypeOK
<1>2. /\ Len(cryptWatch) \in Nat
      /\ \A i \in 1..Len(cryptWatch) : cryptWatch[i] \in Watched
  BY <1>1
<1>3. /\ Len(nsWatch) \in Nat
      /\ \A i \in 1..Len(nsWatch) : nsWatch[i] \in NsEvent
  BY <1>1
<1> QED BY <1>1, <1>2, <1>3 DEF Watched, NsEvent

LEMMA CryptsStayFollowed ==
  ASSUME TypeInv, CryptsFollowed, CryptStep
  PROVE  CryptsFollowed'
<1>1. /\ crypts \in [Crypts -> Crypt \cup {NoCrypt}]
      /\ cryptCache \in [Crypts -> Crypt \cup {NoCrypt}]
      /\ cryptWatch \in Seq(Watched) /\ Len(cryptWatch) \in Nat
      /\ \A i \in 1..Len(cryptWatch) : cryptWatch[i].key \in Crypts
  BY StreamsTyped
<1>2. ASSUME UNCHANGED <<crypts, cryptWatch, cryptCache>>,
             "crypts" \in synced' <=> "crypts" \in synced
      PROVE  CryptsFollowed'
  BY <1>2 DEF CryptsFollowed, Exists, OnWatch
<1>3. ASSUME NEW k \in Crypts, NEW obj, PutCrypt(k, obj) PROVE CryptsFollowed'
  <2>1. /\ crypts' = [crypts EXCEPT ![k] = obj]
        /\ UNCHANGED <<synced, cryptCache>>
    BY <1>3 DEF PutCrypt, cacheVars
  <2>2. CASE "crypts" \notin synced
    <3>1. cryptWatch' = <<>>
      BY <1>3, <2>2 DEF PutCrypt, Publish, CryptsFollowed
    <3> QED BY <2>1, <2>2, <3>1 DEF CryptsFollowed
  <2>3. CASE "crypts" \in synced
    <3> DEFINE e == [key |-> k, obj |-> obj]
               last == Len(cryptWatch) + 1
    <3>1. cryptWatch' = Append(cryptWatch, e)
      BY <1>3, <2>3 DEF PutCrypt, Publish
    <3>2. /\ Len(cryptWatch') = last
          /\ \A i \in 1..Len(cryptWatch) : cryptWatch'[i] = cryptWatch[i]
          /\ cryptWatch'[last] = e /\ last \in 1..Len(cryptWatch')
      BY <1>1, <3>1, AppendAt
    <3>3. e.key = k /\ e.obj = obj
      OBVIOUS
    <3> HIDE DEF e
    <3>4. ASSUME NEW c \in Crypts, crypts'[c] # NoCrypt
          PROVE  OnWatch(c)' \/ cryptCache'[c] = crypts'[c]
      <4>1. CASE c = k
        BY <3>2, <3>3, <4>1 DEF OnWatch
      <4>2. CASE c # k
        <5>1. OnWatch(c) \/ cryptCache[c] = crypts[c]
          BY <1>1, <2>1, <2>3, <3>4, <4>2 DEF CryptsFollowed, Exists
        <5> QED BY <1>1, <2>1, <3>2, <4>2, <5>1 DEF OnWatch
      <4> QED BY <4>1, <4>2
    <3>5. ASSUME NEW i \in 1..Len(cryptWatch'), crypts'[cryptWatch'[i].key] # NoCrypt
          PROVE  \/ cryptWatch'[i].obj = crypts'[cryptWatch'[i].key]
                 \/ \E j \in (i + 1)..Len(cryptWatch') :
                      cryptWatch'[j].key = cryptWatch'[i].key
      <4>1. CASE i = last
        BY <1>1, <2>1, <3>2, <3>3, <4>1
      <4>2. CASE i # last
        <5>1. i \in 1..Len(cryptWatch) /\ cryptWatch'[i] = cryptWatch[i]
              /\ last \in (i + 1)..Len(cryptWatch')
          BY <1>1, <3>2, <4>2
        <5>2. CASE cryptWatch[i].key = k
          BY <3>2, <3>3, <5>1, <5>2
        <5>3. CASE cryptWatch[i].key # k
          <6>1. crypts'[cryptWatch[i].key] = crypts[cryptWatch[i].key]
            BY <1>1, <2>1, <5>1, <5>3
          <6>2. \/ cryptWatch[i].obj = crypts[cryptWatch[i].key]
                \/ \E j \in (i + 1)..Len(cryptWatch) :
                     cryptWatch[j].key = cryptWatch[i].key
            BY <3>5, <5>1, <6>1 DEF CryptsFollowed, Exists
          <6>3. \A j \in (i + 1)..Len(cryptWatch) :
                  j \in (i + 1)..Len(cryptWatch') /\ cryptWatch'[j] = cryptWatch[j]
            BY <1>1, <3>2, <5>1
          <6> QED BY <5>1, <6>1, <6>2, <6>3
        <5> QED BY <5>2, <5>3
      <4> QED BY <4>1, <4>2
    <3> QED BY <2>1, <2>3, <3>4, <3>5 DEF CryptsFollowed, Exists
  <2> QED BY <2>2, <2>3
<1>4. CASE Crash
  BY <1>4 DEF Crash, CryptsFollowed
<1>5. CASE ListCrypts
  <2>1. cryptWatch' = <<>>
    BY <1>5 DEF ListCrypts, watchVars, CryptsFollowed
  <2> QED BY <1>5, <2>1 DEF ListCrypts, clusterVars, CryptsFollowed
<1>6. CASE CryptEvent
  <2> DEFINE e == Head(cryptWatch)
  <2>1. /\ cryptCache' = [cryptCache EXCEPT ![e.key] = e.obj]
        /\ cryptWatch' = Tail(cryptWatch) /\ cryptWatch # <<>>
        /\ UNCHANGED <<crypts, synced>>
    BY <1>6 DEF CryptEvent, Cached, clusterVars
  <2>2. /\ Len(cryptWatch) \in Nat \ {0} /\ Len(cryptWatch') = Len(cryptWatch) - 1
        /\ e = cryptWatch[1]
        /\ \A i \in 1..Len(cryptWatch') : cryptWatch'[i] = cryptWatch[i + 1]
        /\ \A i \in 2..Len(cryptWatch) :
             i - 1 \in 1..Len(cryptWatch') /\ cryptWatch'[i - 1] = cryptWatch[i]
    BY <1>1, <2>1, TailAt
  <2> HIDE DEF e
  <2>3. "crypts" \in synced
    BY <2>1 DEF CryptsFollowed
  <2>4. ASSUME NEW c \in Crypts, crypts'[c] # NoCrypt
        PROVE  OnWatch(c)' \/ cryptCache'[c] = crypts'[c]
    <3>1. ASSUME NEW i \in 2..Len(cryptWatch), cryptWatch[i].key = c
          PROVE  OnWatch(c)'
      <4> DEFINE l == i - 1
      <4>1. l \in 1..Len(cryptWatch') /\ cryptWatch'[l].key = c
        BY <2>2, <3>1
      <4> HIDE DEF l
      <4> QED BY <4>1 DEF OnWatch
    <3>2. CASE e.key = c
      <4>1. \/ e.obj = crypts[c]
            \/ \E j \in 2..Len(cryptWatch) : cryptWatch[j].key = c
        <5>1. 1 \in 1..Len(cryptWatch)
          BY <2>2
        <5> QED BY <2>1, <2>2, <2>4, <3>2, <5>1 DEF CryptsFollowed, Exists
      <4> QED BY <1>1, <2>1, <3>1, <3>2, <4>1
    <3>3. CASE e.key # c
      <4>1. OnWatch(c) \/ cryptCache[c] = crypts[c]
        BY <2>1, <2>3, <2>4 DEF CryptsFollowed, Exists
      <4>2. ASSUME OnWatch(c) PROVE \E i \in 2..Len(cryptWatch) : cryptWatch[i].key = c
        BY <2>2, <3>3, <4>2 DEF OnWatch
      <4>3. cryptCache'[c] = cryptCache[c]
        BY <1>1, <2>1, <3>3
      <4> QED BY <2>1, <3>1, <4>1, <4>2, <4>3
    <3> QED BY <3>2, <3>3
  <2>5. ASSUME NEW i \in 1..Len(cryptWatch'), crypts'[cryptWatch'[i].key] # NoCrypt
        PROVE  \/ cryptWatch'[i].obj = crypts'[cryptWatch'[i].key]
               \/ \E j \in (i + 1)..Len(cryptWatch') :
                    cryptWatch'[j].key = cryptWatch'[i].key
    <3> DEFINE n == i + 1
    <3>1. n \in 1..Len(cryptWatch) /\ cryptWatch'[i] = cryptWatch[n]
      BY <2>2
    <3>2. \A j \in (n + 1)..Len(cryptWatch) :
            j - 1 \in (i + 1)..Len(cryptWatch') /\ cryptWatch'[j - 1] = cryptWatch[j]
      BY <2>2
    <3> HIDE DEF n
    <3>3. \/ cryptWatch[n].obj = crypts[cryptWatch[n].key]
          \/ \E j \in (n + 1)..Len(cryptWatch) :
               cryptWatch[j].key = cryptWatch[n].key
      BY <2>1, <2>5, <3>1 DEF CryptsFollowed, Exists
    <3> QED BY <2>1, <3>1, <3>2, <3>3
  <2> QED BY <2>1, <2>3, <2>4, <2>5 DEF CryptsFollowed, Exists
<1> QED BY <1>2, <1>3, <1>4, <1>5, <1>6 DEF CryptStep

LEMMA NamespacesStayFollowed ==
  ASSUME TypeInv, NamespacesFollowed, NamespaceStep
  PROVE  NamespacesFollowed'
<1>1. /\ nsWatch \in Seq(NsEvent) /\ Len(nsWatch) \in Nat
      /\ \A i \in 1..Len(nsWatch) : nsWatch[i].ns \in Namespaces
  BY StreamsTyped
<1>2. ASSUME UNCHANGED <<namespaces, nsWatch, nsListed, nsCache>>,
             "namespaces" \in synced' <=> "namespaces" \in synced,
             nsAdded' \subseteq nsAdded
      PROVE  NamespacesFollowed'
  BY <1>2 DEF NamespacesFollowed, NsOnWatch
<1>3. ASSUME NEW n \in Namespaces \ InitNamespaces, NEW present \in BOOLEAN,
             namespaces' = IF present THEN namespaces \cup {n} ELSE namespaces \ {n},
             nsWatch' = Publish("namespaces", nsWatch, [ns |-> n, present |-> present]),
             UNCHANGED <<synced, nsListed, nsCache, nsAdded>>
      PROVE  NamespacesFollowed'
  <2>0. InitNamespaces \subseteq namespaces'
    BY <1>3 DEF NamespacesFollowed
  <2>1. CASE "namespaces" \notin synced
    <3>1. nsWatch' = <<>>
      BY <1>3, <2>1 DEF Publish, NamespacesFollowed
    <3> QED BY <1>3, <2>0, <2>1, <3>1 DEF NamespacesFollowed
  <2>2. CASE "namespaces" \in synced
    <3> DEFINE e == [ns |-> n, present |-> present]
               last == Len(nsWatch) + 1
    <3>1. nsWatch' = Append(nsWatch, e)
      BY <1>3, <2>2 DEF Publish
    <3>2. /\ Len(nsWatch') = last
          /\ \A i \in 1..Len(nsWatch) : nsWatch'[i] = nsWatch[i]
          /\ nsWatch'[last] = e /\ last \in 1..Len(nsWatch')
      BY <1>1, <3>1, AppendAt
    <3>3. e.ns = n /\ e.present = present
      OBVIOUS
    <3> HIDE DEF e
    <3>4. ASSUME NEW m \in namespaces'
          PROVE  NsOnWatch(m)' \/ m \in nsCache' \cup nsListed'
      <4>1. CASE m = n
        BY <3>2, <3>3, <4>1 DEF NsOnWatch
      <4>2. CASE m # n
        <5>1. NsOnWatch(m) \/ m \in nsCache \cup nsListed
          BY <1>3, <2>2, <4>2 DEF NamespacesFollowed
        <5> QED BY <1>1, <1>3, <3>2, <5>1 DEF NsOnWatch
      <4> QED BY <4>1, <4>2
    <3>5. ASSUME NEW i \in 1..Len(nsWatch')
          PROVE  /\ nsWatch'[i].ns \notin InitNamespaces
                 /\ nsWatch'[i].ns \in namespaces' =>
                      \/ nsWatch'[i].present
                      \/ \E j \in (i + 1)..Len(nsWatch') : nsWatch'[j].ns = nsWatch'[i].ns
      <4>1. CASE i = last
        BY <1>3, <3>2, <3>3, <4>1
      <4>2. CASE i # last
        <5>1. i \in 1..Len(nsWatch) /\ nsWatch'[i] = nsWatch[i]
              /\ last \in (i + 1)..Len(nsWatch')
          BY <1>1, <3>2, <4>2
        <5>2. CASE nsWatch[i].ns = n
          BY <1>3, <3>2, <3>3, <5>1, <5>2
        <5>3. CASE nsWatch[i].ns # n
          <6>1. nsWatch[i].ns \in namespaces' => nsWatch[i].ns \in namespaces
            BY <1>3, <5>3
          <6>2. /\ nsWatch[i].ns \notin InitNamespaces
                /\ nsWatch[i].ns \in namespaces =>
                     \/ nsWatch[i].present
                     \/ \E j \in (i + 1)..Len(nsWatch) : nsWatch[j].ns = nsWatch[i].ns
            BY <5>1 DEF NamespacesFollowed
          <6>3. \A j \in (i + 1)..Len(nsWatch) :
                  j \in (i + 1)..Len(nsWatch') /\ nsWatch'[j] = nsWatch[j]
            BY <1>1, <3>2, <5>1
          <6> QED BY <5>1, <6>1, <6>2, <6>3
        <5> QED BY <5>2, <5>3
      <4> QED BY <4>1, <4>2
    <3> QED BY <1>3, <2>0, <2>2, <3>4, <3>5 DEF NamespacesFollowed
  <2> QED BY <2>1, <2>2
<1>4. ASSUME NEW n \in Namespaces, CreateNamespace(n) PROVE NamespacesFollowed'
  <2>1. n \in Namespaces \ InitNamespaces
    BY <1>4 DEF CreateNamespace, NamespacesFollowed
  <2> QED BY <1>3, <1>4, <2>1 DEF CreateNamespace, cacheVars
<1>5. ASSUME NEW n \in Namespaces, DeleteNamespace(n) PROVE NamespacesFollowed'
  BY <1>3, <1>5 DEF DeleteNamespace, cacheVars
<1>6. CASE Crash
  BY <1>6 DEF Crash, NamespacesFollowed, clusterVars
<1>7. CASE ListNamespaces
  <2>1. nsWatch' = <<>>
    BY <1>7 DEF ListNamespaces, watchVars, NamespacesFollowed
  <2> QED BY <1>7, <2>1 DEF ListNamespaces, clusterVars, NamespacesFollowed
<1>10. ASSUME NamespaceEvent, UNCHANGED nsWatch
       PROVE  NamespacesFollowed'
  <2>1. /\ nsCache' \cup nsListed' = nsCache \cup nsListed
        /\ nsListed # {}
        /\ UNCHANGED <<namespaces, synced>>
    <3>1. nsWatch # <<>> => Tail(nsWatch) # nsWatch
      <4>1. nsWatch # <<>> => Len(Tail(nsWatch)) = Len(nsWatch) - 1
        BY <1>1, TailAt
      <4> QED BY <1>1, <4>1
    <3> QED BY <1>10, <3>1 DEF NamespaceEvent, clusterVars
  <2>2. "namespaces" \in synced
    BY <2>1 DEF NamespacesFollowed
  <2> QED BY <1>10, <2>1, <2>2 DEF NamespacesFollowed, NsOnWatch
<1>8. ASSUME NamespaceEvent, nsWatch' # nsWatch
      PROVE  NamespacesFollowed'
  <2> DEFINE e == Head(nsWatch)
  <2>1. /\ nsListed = {} /\ nsListed' = {}
        /\ nsCache' = IF e.present THEN nsCache \cup {e.ns} ELSE nsCache \ {e.ns}
        /\ nsWatch' = Tail(nsWatch) /\ nsWatch # <<>>
        /\ UNCHANGED <<namespaces, synced>>
    BY <1>8 DEF NamespaceEvent, clusterVars
  <2>2. /\ Len(nsWatch) \in Nat \ {0} /\ Len(nsWatch') = Len(nsWatch) - 1
        /\ e = nsWatch[1]
        /\ \A i \in 1..Len(nsWatch') : nsWatch'[i] = nsWatch[i + 1]
        /\ \A i \in 2..Len(nsWatch) :
             i - 1 \in 1..Len(nsWatch') /\ nsWatch'[i - 1] = nsWatch[i]
    BY <1>1, <2>1, TailAt
  <2> HIDE DEF e
  <2>3. "namespaces" \in synced
    BY <2>1 DEF NamespacesFollowed
  <2>4. ASSUME NEW n \in namespaces
        PROVE  NsOnWatch(n)' \/ n \in nsCache' \cup nsListed'
    <3>1. ASSUME NEW i \in 2..Len(nsWatch), nsWatch[i].ns = n
          PROVE  NsOnWatch(n)'
      <4> DEFINE l == i - 1
      <4>1. l \in 1..Len(nsWatch') /\ nsWatch'[l].ns = n
        BY <2>2, <3>1
      <4> HIDE DEF l
      <4> QED BY <4>1 DEF NsOnWatch
    <3>2. CASE e.ns = n
      <4>1. \/ e.present
            \/ \E j \in 2..Len(nsWatch) : nsWatch[j].ns = n
        <5>1. 1 \in 1..Len(nsWatch)
          BY <2>2
        <5> QED BY <2>2, <2>4, <3>2, <5>1 DEF NamespacesFollowed
      <4> QED BY <2>1, <3>1, <3>2, <4>1
    <3>3. CASE e.ns # n
      <4>1. NsOnWatch(n) \/ n \in nsCache
        BY <2>1, <2>3 DEF NamespacesFollowed
      <4>2. ASSUME NsOnWatch(n) PROVE \E i \in 2..Len(nsWatch) : nsWatch[i].ns = n
        BY <2>2, <3>3, <4>2 DEF NsOnWatch
      <4> QED BY <2>1, <3>1, <3>3, <4>1, <4>2
    <3> QED BY <3>2, <3>3
  <2>5. ASSUME NEW i \in 1..Len(nsWatch')
        PROVE  /\ nsWatch'[i].ns \notin InitNamespaces
               /\ nsWatch'[i].ns \in namespaces =>
                    \/ nsWatch'[i].present
                    \/ \E j \in (i + 1)..Len(nsWatch') : nsWatch'[j].ns = nsWatch'[i].ns
    <3> DEFINE n == i + 1
    <3>1. n \in 1..Len(nsWatch) /\ nsWatch'[i] = nsWatch[n]
      BY <2>2
    <3>2. \A j \in (n + 1)..Len(nsWatch) :
            j - 1 \in (i + 1)..Len(nsWatch') /\ nsWatch'[j - 1] = nsWatch[j]
      BY <2>2
    <3> HIDE DEF n
    <3>3. /\ nsWatch[n].ns \notin InitNamespaces
          /\ nsWatch[n].ns \in namespaces =>
               \/ nsWatch[n].present
               \/ \E j \in (n + 1)..Len(nsWatch) : nsWatch[j].ns = nsWatch[n].ns
      BY <3>1 DEF NamespacesFollowed
    <3> QED BY <3>1, <3>2, <3>3
  <2> QED BY <2>1, <2>3, <2>4, <2>5 DEF NamespacesFollowed
<1>9. ASSUME NEW n \in Namespaces, handleNamespaceAdd(n)
      PROVE  nsAdded' \subseteq nsAdded
  BY <1>9 DEF handleNamespaceAdd
<1> QED BY <1>2, <1>4, <1>5, <1>6, <1>7, <1>8, <1>9, <1>10 DEF NamespaceStep
-----------------------------------------------------------------------------
(* Due: a crypt that is due stays due until a worker takes it. *)

LEMMA DueStays ==
  ASSUME TypeInv, CryptsFollowed, CryptStep, NEW k \in Crypts,
         crypts'[k] # NoCrypt, Due(k) \/ crypts'[k] # crypts[k]
  PROVE  Due(k)' \/ \E w \in Workers : TakeItem(w) /\ Head(queue) = k
<1>1. /\ crypts \in [Crypts -> Crypt \cup {NoCrypt}]
      /\ cryptWatch \in Seq(Watched) /\ Len(cryptWatch) \in Nat
  BY StreamsTyped
<1>2. ASSUME UNCHANGED <<crypts, cryptWatch>>,
             "crypts" \in synced' <=> "crypts" \in synced,
             waiting \cup dirty \subseteq waiting' \cup dirty'
      PROVE  Due(k)'
  BY <1>2 DEF Due, OnWatch
<1>3. ASSUME UNCHANGED <<crypts, cryptWatch>>,
             "crypts" \in synced' <=> "crypts" \in synced,
             NEW w \in Workers, TakeItem(w), Head(queue) # k
      PROVE  Due(k)'
  <2>1. waiting' = waiting /\ dirty' = dirty \ {Head(queue)}
    BY <1>3 DEF TakeItem, WQ!Get
  <2> QED BY <1>3, <2>1 DEF Due, OnWatch
<1>4. ASSUME NEW c \in Crypts, NEW obj, PutCrypt(c, obj)
      PROVE  Due(k)'
  <2>1. /\ crypts' = [crypts EXCEPT ![c] = obj]
        /\ UNCHANGED <<synced, waiting, dirty>>
        /\ cryptWatch' = IF "crypts" \in synced
                         THEN Append(cryptWatch, [key |-> c, obj |-> obj])
                         ELSE cryptWatch
    BY <1>4 DEF PutCrypt, Publish, cacheVars, queueVars
  <2>2. CASE "crypts" \in synced
    <3> DEFINE e == [key |-> c, obj |-> obj]
               last == Len(cryptWatch) + 1
    <3>1. /\ Len(cryptWatch') = last
          /\ \A i \in 1..Len(cryptWatch) : cryptWatch'[i] = cryptWatch[i]
          /\ cryptWatch'[last] = e /\ last \in 1..Len(cryptWatch')
      BY <1>1, <2>1, <2>2, AppendAt
    <3>2. e.key = c
      OBVIOUS
    <3> HIDE DEF e
    <3>3. CASE k = c
      BY <3>1, <3>2, <3>3 DEF Due, OnWatch
    <3>4. CASE k # c
      BY <1>1, <2>1, <3>1, <3>4 DEF Due, OnWatch
    <3> QED BY <3>3, <3>4
  <2>3. CASE "crypts" \notin synced
    BY <2>1, <2>3 DEF Due
  <2> QED BY <2>2, <2>3
<1>5. CASE Crash
  BY <1>5 DEF Crash, Due
<1>6. CASE ListCrypts
  BY <1>6 DEF ListCrypts, enqueueCrypt, WQ!AddRateLimited, clusterVars, Due
<1>7. CASE CryptEvent
  <2> DEFINE e == Head(cryptWatch)
  <2>1. /\ cryptWatch' = Tail(cryptWatch) /\ cryptWatch # <<>>
        /\ UNCHANGED <<crypts, synced, dirty>>
        /\ waiting' = waiting \cup Notified(e)
    BY <1>7 DEF CryptEvent, clusterVars, enqueueCrypt, WQ!AddRateLimited
  <2>2. /\ Len(cryptWatch) \in Nat \ {0} /\ e = cryptWatch[1]
        /\ \A i \in 2..Len(cryptWatch) :
             i - 1 \in 1..Len(cryptWatch') /\ cryptWatch'[i - 1] = cryptWatch[i]
    BY <1>1, <2>1, TailAt
  <2> HIDE DEF e
  <2>3. ASSUME NEW i \in 2..Len(cryptWatch), cryptWatch[i].key = k
        PROVE  OnWatch(k)'
    <3> DEFINE l == i - 1
    <3>1. l \in 1..Len(cryptWatch') /\ cryptWatch'[l].key = k
      BY <2>2, <2>3
    <3> HIDE DEF l
    <3> QED BY <3>1 DEF OnWatch
  <2>4. CASE OnWatch(k)
    <3>1. PICK i \in 1..Len(cryptWatch) : cryptWatch[i].key = k
      BY <2>4 DEF OnWatch
    <3>2. CASE i \in 2..Len(cryptWatch)
      BY <2>3, <3>1, <3>2 DEF Due
    <3>3. CASE i \notin 2..Len(cryptWatch)
      <4>1. i = 1 /\ 1 \in 1..Len(cryptWatch) /\ e.key = k
        BY <2>2, <3>1, <3>3
      <4>2. \/ e.obj = crypts[k]
            \/ \E j \in 2..Len(cryptWatch) : cryptWatch[j].key = k
        BY <2>1, <2>2, <4>1 DEF CryptsFollowed, Exists
      <4>3. e.obj = crypts[k] => k \in waiting'
        BY <2>1, <4>1 DEF Notified
      <4> QED BY <2>3, <4>2, <4>3 DEF Due
    <3> QED BY <3>2, <3>3
  <2>5. CASE ~OnWatch(k)
    BY <2>1, <2>5 DEF Due
  <2> QED BY <2>4, <2>5
<1> QED BY <1>2, <1>3, <1>4, <1>5, <1>6, <1>7 DEF CryptStep

\* A key that a worker takes is not being synced.
LEMMA TakenIsIdle ==
  ASSUME TypeInv, HeldInv, NEW w \in Workers, TakeItem(w)
  PROVE  \A v \in Workers : job[v] # NoJob => job[v].key # Head(queue)
<1>1. queue \in Seq(Crypts) /\ queue # <<>>
  BY DEF TakeItem, WQ!Get, TypeInv, TypeOK, WQ!WQTypeOK
<1>2. Head(queue) = queue[1] /\ 1 \in DOMAIN queue
  BY <1>1
<1>3. Head(queue) \in WQ!ToSet(queue)
  BY <1>2 DEF WQ!ToSet
<1> QED BY <1>3 DEF HeldInv, WQ!QueueIsDirtyIdle, KeysHeld

LEMMA EarlyStaysDue ==
  ASSUME TypeInv, TypeInv', CryptsFollowed, EarlyDue, CryptStep, JobStep
  PROVE  EarlyDue'
<1> SUFFICES ASSUME ~Ready'
             PROVE  /\ \A w \in Workers : job'[w] = NoJob
                    /\ \A k \in Crypts : crypts'[k] # NoCrypt => Due(k)'
  BY DEF EarlyDue, Exists
<1>1. CASE Crash
  BY <1>1 DEF Crash, Due
<1>2. CASE ~Crash
  <2>1. ~Ready
    BY <1>2 DEF JobStep
  <2>2. ASSUME NEW w \in Workers, WorkerStep(w) PROVE FALSE
    BY <2>1, <2>2, Zenon DEF EarlyDue, WorkerStep, TakeItem, GetCrypt, findNamespaceMatches,
       fetchObject, createSecret, updateSecret, WriteFails, recordSynced, At
  <2>3. \A w \in Workers : ~TakeItem(w)
    BY <2>1 DEF TakeItem
  <2>4. ASSUME NEW k \in Crypts, crypts'[k] # NoCrypt PROVE Due(k)'
    BY <2>1, <2>3, <2>4, DueStays DEF EarlyDue, Exists
  <2> QED BY <1>2, <2>1, <2>2, <2>4 DEF JobStep, EarlyDue
<1> QED BY <1>1, <1>2
-----------------------------------------------------------------------------
(* Syncs: what one step of a worker does to the loops of its sync. *)

\* The place <<i, j>> in the loops of jb comes at or after the current one.
NotBefore(jb, i, j) == i >= jb.i /\ (i = jb.i => j >= jb.j)

\* createSecret's caller goes on to the next place, and leaves out none.
LEMMA ReturnedNext ==
  ASSUME NEW jb, GoodJob(jb), jb.pc \in {"fetch", "create", "update"},
         NEW ok \in BOOLEAN,
         NEW i \in 1..Len(jb.crypt.spec.secrets), NEW j \in 1..Len(jb.matched),
         NotBefore(jb, i, j), i # jb.i \/ j # jb.j
  PROVE  LET r == Returned(jb, ok) IN
         r.pc = "fetch" /\ r.matched = jb.matched /\ NotBefore(r, i, j)
<1>1. jb \in Job /\ jb.crypt \in Crypt /\ jb.crypt.spec.secrets \in Seq(SecretDefs)
  BY DEF GoodJob, Job, InBounds, Crypt, SpecType
<1>2. jb.i \in 1..Len(jb.crypt.spec.secrets) /\ jb.j \in 1..Len(jb.matched)
      /\ jb.matched \in Seq(Namespaces) /\ jb.crypt # NoCrypt
  BY <1>1 DEF GoodJob, InBounds, Job
<1> DEFINE failed == jb.failed \/ ~ok
           done == [jb EXCEPT !.ver = 0, !.failed = failed]
<1>3. failed \in BOOLEAN
  BY <1>1 DEF Job
<1> HIDE DEF failed
<1>4. /\ done \in Job
      /\ done.i = jb.i /\ done.j = jb.j /\ done.crypt = jb.crypt
      /\ done.key = jb.key /\ done.matched = jb.matched
  BY <1>1, <1>3 DEF Job
<1>5. Returned(jb, ok) =
        IF jb.j < Len(jb.matched)
        THEN [done EXCEPT !.pc = "fetch", !.j = @ + 1]
        ELSE IF jb.i < Len(jb.crypt.spec.secrets)
        THEN [done EXCEPT !.pc = "fetch", !.i = @ + 1, !.j = 1]
        ELSE [done EXCEPT !.pc = "event", !.matched = <<>>, !.i = 1, !.j = 1]
  BY DEF Returned, failed
<1> HIDE DEF done
<1>6. CASE jb.j < Len(jb.matched)
  <2> DEFINE next == jb.j + 1
             new == [done EXCEPT !.pc = "fetch", !.j = next]
  <2>1. Returned(jb, ok) = new
    BY <1>4, <1>5, <1>6
  <2> HIDE DEF next
  <2>2. new.pc = "fetch" /\ new.i = jb.i /\ new.j = next /\ new.matched = jb.matched
    BY <1>4 DEF Job
  <2> HIDE DEF new
  <2>3. NotBefore(new, i, j)
    BY <1>1, <1>2, <1>6, <2>2 DEF NotBefore, next
  <2> QED BY <2>1, <2>2, <2>3
<1>7. CASE ~(jb.j < Len(jb.matched)) /\ jb.i < Len(jb.crypt.spec.secrets)
  <2> DEFINE next == jb.i + 1
             new == [done EXCEPT !.pc = "fetch", !.i = next, !.j = 1]
  <2>1. Returned(jb, ok) = new
    BY <1>4, <1>5, <1>7
  <2> HIDE DEF next
  <2>2. new.pc = "fetch" /\ new.i = next /\ new.j = 1 /\ new.matched = jb.matched
    BY <1>4 DEF Job
  <2> HIDE DEF new
  <2>3. NotBefore(new, i, j)
    BY <1>1, <1>2, <1>7, <2>2 DEF NotBefore, next
  <2> QED BY <2>1, <2>2, <2>3
<1>8. CASE ~(jb.j < Len(jb.matched)) /\ ~(jb.i < Len(jb.crypt.spec.secrets))
  <2>1. i = jb.i /\ j = jb.j
    BY <1>1, <1>2, <1>8 DEF NotBefore
  <2> QED BY <2>1
<1> QED BY <1>6, <1>7, <1>8

\* The steps of a sync, by what they do to its job.
Starts(w) == TakeItem(w) /\ job'[w] = NewJob(Head(queue))
Ends(w) ==
  /\ job[w] # NoJob /\ job'[w] = NoJob
  /\ \/ job[w].pc = "event"
     \/ job[w].pc = "get" /\ cryptCache[job[w].key] = NoCrypt
Reads(w) ==
  /\ job[w] # NoJob /\ job[w].pc = "get" /\ job'[w] # NoJob
  /\ job'[w].key = job[w].key /\ job'[w].crypt = cryptCache[job[w].key]
  /\ job'[w].i = 1
  /\ job'[w].pc = IF job'[w].crypt.spec.patterns = <<>> THEN "event" ELSE "match"
Goes(w) ==    \* of a step that stays with the same crypt
  /\ job[w] # NoJob /\ job[w].pc # "get" /\ job'[w] # NoJob
  /\ job'[w].key = job[w].key /\ job'[w].crypt = job[w].crypt /\ job'[w].pc # "get"
Finds(w) ==
  /\ Goes(w) /\ job[w].pc = "match"
  /\ \E order \in SetToSeqs(nsCache \cap
                              Matches[job[w].crypt.spec.patterns[job[w].i]]) :
       LET found == job[w].matched \o order IN
       \/ /\ job[w].i < Len(job[w].crypt.spec.patterns)
          /\ job'[w].pc = "match" /\ job'[w].i = job[w].i + 1 /\ job'[w].matched = found
       \/ /\ job[w].i >= Len(job[w].crypt.spec.patterns)
          /\ found = <<>> \/ job[w].crypt.spec.secrets = <<>>
       \/ /\ job[w].i >= Len(job[w].crypt.spec.patterns)
          /\ job'[w].pc = "fetch" /\ job'[w].i = 1 /\ job'[w].j = 1
          /\ job'[w].matched = found
Tries(w) ==
  /\ Goes(w) /\ job[w].pc \in {"fetch", "create"}
  /\ job'[w].matched = job[w].matched /\ job'[w].i = job[w].i /\ job'[w].j = job[w].j
  /\ \/ job'[w].pc = "create"
     \/ job'[w].pc = "update" /\ secrets[Target(job[w])] # NoSecret
Returns(w) ==
  /\ Goes(w) /\ job[w].pc \in {"fetch", "create", "update"}
  /\ \E ok \in BOOLEAN : job'[w] = Returned(job[w], ok)
  /\ \/ WriteSecret(job[w])
     \/ /\ UNCHANGED secrets
        /\ \/ job[w].pc = "fetch" /\ ~store[Def(job[w]).key].readable
           \/ job[w].pc = "create" /\ Target(job[w])[1] \notin namespaces
           \/ job[w].pc = "update" /\ ~Updatable(job[w])

LEMMA SyncSteps ==
  ASSUME TypeInv, NEW w \in Workers, WorkerStep(w), ~WriteFails(w), ~moves'.faulty
  PROVE  /\ \A v \in Workers \ {w} : job'[v] = job[v]
         /\ UNCHANGED <<namespaces, crypts, synced, cryptWatch, cryptCache, nsWatch,
                        nsListed, nsCache, nsAdded, deleted, lookup>>
         /\ \/ UNCHANGED secrets
               /\ (Starts(w) \/ Ends(w) \/ Reads(w) \/ Finds(w) \/ Tries(w))
            \/ Returns(w)
<1>1. ASSUME job[w] # NoJob PROVE GoodJob(job[w]) /\ job[w] \in Job
  BY <1>1 DEF GoodJob, TypeInv, TypeOK, JobsInBounds
<1>2. ASSUME NEW next, Continue(w, next)
      PROVE  /\ job'[w] = next /\ \A v \in Workers \ {w} : job'[v] = job[v]
             /\ UNCHANGED <<synced, cryptWatch, cryptCache, nsWatch, nsListed, nsCache,
                            nsAdded, deleted, lookup>>
  BY <1>2 DEF Continue, TypeInv, TypeOK, watchVars, cacheVars
<1> DEFINE Others == UNCHANGED <<namespaces, crypts, synced, cryptWatch, cryptCache,
                                 nsWatch, nsListed, nsCache, nsAdded, deleted, lookup>>
<1>3. ASSUME NEW next \in Job, Continue(w, next)
      PROVE  job'[w] = next /\ job'[w] # NoJob
  BY <1>2, <1>3, NullJobsAssumption
<1>4. ASSUME NEW ok \in BOOLEAN, Continue(w, Returned(job[w], ok)), job[w] # NoJob,
             job[w].pc \in {"fetch", "create", "update"}
      PROVE  Goes(w) /\ job'[w] = Returned(job[w], ok)
  <2>1. /\ Returned(job[w], ok) \in Job
        /\ Returned(job[w], ok).key = job[w].key
        /\ Returned(job[w], ok).crypt = job[w].crypt
        /\ Returned(job[w], ok).pc \in {"fetch", "event"}
    BY <1>1, <1>4, ReturnedGood DEF GoodJob
  <2> QED BY <1>3, <1>4, <2>1 DEF Goes
<1>5. CASE TakeItem(w)
  <2>1. Continue(w, NewJob(Head(queue))) /\ UNCHANGED clusterVars
    BY <1>5 DEF TakeItem
  <2> QED BY <1>2, <1>5, <2>1 DEF Starts, clusterVars
<1>6. ASSUME FinishItem(w), job[w] # NoJob,
             job[w].pc = "event" \/ (job[w].pc = "get" /\ cryptCache[job[w].key] = NoCrypt)
      PROVE  /\ \A v \in Workers \ {w} : job'[v] = job[v]
             /\ Others /\ UNCHANGED secrets /\ Ends(w)
  BY <1>2, <1>6 DEF FinishItem, Ends, clusterVars
<1>7. CASE recordSynced(w)
  BY <1>6, <1>7 DEF recordSynced, At
<1>8. CASE GetCrypt(w)
  <2> DEFINE crypt == cryptCache[job[w].key]
             pc == IF crypt.spec.patterns = <<>> THEN "event" ELSE "match"
             next == [job[w] EXCEPT !.crypt = crypt, !.pc = pc]
  <2>1. job[w] # NoJob /\ job[w] \in Job /\ job[w].pc = "get" /\ job[w].i = 1
    BY <1>1, <1>8 DEF GetCrypt, At, GoodJob, InBounds
  <2>2. \/ crypt = NoCrypt /\ FinishItem(w)
        \/ Continue(w, next) /\ UNCHANGED clusterVars
    BY <1>8 DEF GetCrypt
  <2>3. crypt \in Crypt \cup {NoCrypt} /\ pc \in {"event", "match"}
    BY <2>1 DEF Job, TypeInv, TypeOK
  <2>4. /\ next.crypt = crypt /\ next.key = job[w].key /\ next.i = 1 /\ next.pc = pc
        /\ next \in Job
    <3> HIDE DEF crypt, pc
    <3> QED BY <2>1, <2>3 DEF Job, Pcs
  <2>5. ASSUME Continue(w, next), UNCHANGED clusterVars
        PROVE  Reads(w) /\ Others /\ UNCHANGED secrets
    <3>1. /\ job'[w].pc = pc /\ job'[w].crypt = crypt /\ job'[w].key = job[w].key
          /\ job'[w].i = 1 /\ job'[w] # NoJob
      <4> HIDE DEF next
      <4> QED BY <1>3, <2>4, <2>5
    <3> QED BY <1>2, <2>1, <2>5, <3>1 DEF Reads, clusterVars
  <2> QED BY <1>2, <1>6, <2>1, <2>2, <2>5
<1>9. CASE findNamespaceMatches(w)
  <2>1. PICK jb \in Job : jb = job[w] /\ jb # NoJob /\ GoodJob(jb) /\ jb.pc = "match"
    BY <1>1, <1>9 DEF findNamespaceMatches, At
  <2>2. /\ jb.matched \in Seq(Namespaces) /\ jb.j = 1 /\ jb.i \in Nat
        /\ Len(jb.crypt.spec.patterns) \in Nat
    BY <2>1 DEF GoodJob, InBounds, Job, Crypt, SpecType
  <2>3. PICK hits \in SUBSET Namespaces :
          hits = nsCache \cap Matches[jb.crypt.spec.patterns[jb.i]]
    <3>1. nsCache \in SUBSET Namespaces
      BY DEF TypeInv, TypeOK
    <3> QED BY <3>1
  <2>4. PICK order, found, i, none, next :
          /\ order \in SetToSeqs(hits)
          /\ found = jb.matched \o order /\ i = jb.i + 1 /\ none = <<>>
          /\ Continue(w, next) /\ UNCHANGED clusterVars
          /\ \/ /\ jb.i < Len(jb.crypt.spec.patterns)
                /\ next = [jb EXCEPT !.matched = found, !.i = i]
             \/ /\ ~(jb.i < Len(jb.crypt.spec.patterns))
                /\ found = <<>> \/ jb.crypt.spec.secrets = <<>>
                /\ next = [jb EXCEPT !.matched = none, !.i = 1, !.pc = "event"]
             \/ /\ ~(jb.i < Len(jb.crypt.spec.patterns))
                /\ next = [jb EXCEPT !.matched = found, !.i = 1, !.pc = "fetch"]
    BY <1>9, <2>1, <2>3, Zenon DEF findNamespaceMatches
  <2>5. found \in Seq(Namespaces) /\ none \in Seq(Namespaces) /\ i \in Nat
    <3>1. order \in Seq(Namespaces)
      BY <2>4, OrderTyped
    <3> QED BY <2>2, <2>4, <3>1
  <2>6. /\ next \in Job /\ next.key = jb.key /\ next.crypt = jb.crypt
        /\ next.pc # "get"
        /\ \/ /\ jb.i < Len(jb.crypt.spec.patterns)
              /\ next.pc = "match" /\ next.i = i /\ next.matched = found
           \/ /\ ~(jb.i < Len(jb.crypt.spec.patterns))
              /\ found = <<>> \/ jb.crypt.spec.secrets = <<>>
           \/ /\ ~(jb.i < Len(jb.crypt.spec.patterns))
              /\ next.pc = "fetch" /\ next.i = 1 /\ next.j = 1 /\ next.matched = found
    <3>1. CASE next = [jb EXCEPT !.matched = found, !.i = i]
      BY <2>1, <2>2, <2>4, <2>5, <3>1, Zenon DEF Job, Pcs
    <3>2. CASE next = [jb EXCEPT !.matched = none, !.i = 1, !.pc = "event"]
      BY <2>1, <2>2, <2>4, <2>5, <3>2, Zenon DEF Job, Pcs
    <3>3. CASE next = [jb EXCEPT !.matched = found, !.i = 1, !.pc = "fetch"]
      BY <2>1, <2>2, <2>4, <2>5, <3>3, Zenon DEF Job, Pcs
    <3> QED BY <2>4, <3>1, <3>2, <3>3
  <2>7. job'[w] = next /\ job'[w] # NoJob
    BY <1>3, <2>4, <2>6
  <2>8. Goes(w)
    BY <2>1, <2>6, <2>7 DEF Goes
  <2>9. Finds(w)
    <3>1. order \in SetToSeqs(nsCache \cap Matches[jb.crypt.spec.patterns[jb.i]])
      BY <2>3, <2>4
    <3>2. ~(jb.i < Len(jb.crypt.spec.patterns)) => jb.i >= Len(jb.crypt.spec.patterns)
      BY <2>2
    <3> QED BY <2>1, <2>4, <2>6, <2>7, <2>8, <3>1, <3>2, Zenon DEF Finds
  <2> QED BY <1>2, <2>4, <2>9 DEF clusterVars
<1>10. CASE fetchObject(w)
  <2> DEFINE jb == job[w]
             obj == store[Def(jb).key]
             next == [jb EXCEPT !.pc = "create", !.ver = obj.ver]
  <2>1. GoodJob(jb) /\ job[w] # NoJob /\ jb \in Job /\ jb.pc = "fetch"
        /\ UNCHANGED clusterVars
    BY <1>1, <1>10 DEF fetchObject, At, GoodJob
  <2>2. obj.ver \in Nat
    BY <2>1, TargetTyped DEF SecretDefs, TypeInv, TypeOK
  <2>3. /\ next \in Job /\ next.key = jb.key /\ next.crypt = jb.crypt
        /\ next.matched = jb.matched /\ next.i = jb.i /\ next.j = jb.j
        /\ next.pc = "create"
    <3> HIDE DEF jb, obj
    <3> QED BY <2>1, <2>2 DEF Job, Pcs
  <2> HIDE DEF next
  <2>4. CASE Continue(w, next)
    <3>1. job'[w] = next /\ job'[w] # NoJob
      BY <1>3, <2>3, <2>4
    <3> QED BY <1>2, <2>1, <2>3, <2>4, <3>1 DEF Tries, Goes, clusterVars
  <2>5. CASE Continue(w, Returned(jb, FALSE)) /\ ~obj.readable
    <3>1. Goes(w) /\ job'[w] = Returned(jb, FALSE)
      BY <1>4, <2>1, <2>5
    <3> QED BY <1>2, <2>1, <2>5, <3>1 DEF Returns, clusterVars
  <2>6. ~Move("store fails")
    <3>1. "store fails" \in Faults
      BY DEF Faults
    <3> QED BY <3>1, CalmMove
  <2>7. \/ Continue(w, next)
        \/ Continue(w, Returned(jb, FALSE)) /\ ~obj.readable
    BY <1>10, <2>6 DEF fetchObject, next
  <2> QED BY <2>4, <2>5, <2>7
<1>11. CASE createSecret(w)
  <2> DEFINE jb == job[w]
             next == [jb EXCEPT !.pc = "update"]
  <2>1. GoodJob(jb) /\ job[w] # NoJob /\ jb \in Job /\ jb.pc = "create"
        /\ UNCHANGED <<namespaces, crypts>>
    BY <1>1, <1>11 DEF createSecret, At, GoodJob
  <2>2. /\ next \in Job /\ next.key = jb.key /\ next.crypt = jb.crypt
        /\ next.matched = jb.matched /\ next.i = jb.i /\ next.j = jb.j
        /\ next.pc = "update"
    <3> HIDE DEF jb
    <3> QED BY <2>1 DEF Job, Pcs
  <2> HIDE DEF next
  <2>3. CASE Continue(w, next) /\ UNCHANGED secrets /\ secrets[Target(jb)] # NoSecret
    <3>1. job'[w] = next /\ job'[w] # NoJob
      BY <1>3, <2>2, <2>3
    <3> QED BY <1>2, <2>1, <2>2, <2>3, <3>1 DEF Tries, Goes
  <2>4. ASSUME NEW ok \in BOOLEAN, Continue(w, Returned(jb, ok)),
               \/ WriteSecret(jb)
               \/ UNCHANGED secrets /\ Target(jb)[1] \notin namespaces
        PROVE  Others /\ Returns(w)
    <3>1. Goes(w) /\ job'[w] = Returned(jb, ok)
      BY <1>4, <2>1, <2>4
    <3> QED BY <1>2, <2>1, <2>4, <3>1 DEF Returns
  <2>5. \/ Continue(w, Returned(jb, FALSE)) /\ UNCHANGED secrets
             /\ Target(jb)[1] \notin namespaces
        \/ Continue(w, Returned(jb, TRUE)) /\ WriteSecret(jb)
        \/ Continue(w, next) /\ UNCHANGED secrets /\ secrets[Target(jb)] # NoSecret
    BY <1>11 DEF createSecret, next
  <2> QED BY <1>2, <2>3, <2>4, <2>5
<1>12. CASE updateSecret(w)
  <2> DEFINE jb == job[w]
  <2>1. job[w] # NoJob /\ jb.pc = "update" /\ UNCHANGED <<namespaces, crypts>>
    BY <1>12 DEF updateSecret, At
  <2>2. ASSUME NEW ok \in BOOLEAN, Continue(w, Returned(jb, ok)),
               WriteSecret(jb) \/ (UNCHANGED secrets /\ ~Updatable(jb))
        PROVE  Others /\ Returns(w)
    <3>1. Goes(w) /\ job'[w] = Returned(jb, ok)
      BY <1>4, <2>1, <2>2
    <3> QED BY <1>2, <2>1, <2>2, <3>1 DEF Returns
  <2>3. \/ Continue(w, Returned(jb, FALSE)) /\ UNCHANGED secrets /\ ~Updatable(jb)
        \/ Continue(w, Returned(jb, TRUE)) /\ WriteSecret(jb)
    BY <1>12 DEF updateSecret
  <2> QED BY <1>2, <2>2, <2>3
<1> QED BY <1>5, <1>7, <1>8, <1>9, <1>10, <1>11, <1>12 DEF WorkerStep

LEMMA StaleStaysDue ==
  ASSUME TypeInv, HeldInv, CryptsFollowed, StaleDue, CryptStep, JobStep, ~moves'.faulty
  PROVE  StaleDue'
<1>1. ASSUME NEW w \in Workers, job[w] # NoJob
      PROVE  job[w].key \in Crypts
  BY <1>1 DEF TypeInv, TypeOK, Job
<1>2. ASSUME NEW w \in Workers, job[w] # NoJob, NEW k, job[w].key = k,
             crypts'[k] # NoCrypt, Due(k) \/ crypts'[k] # crypts[k]
      PROVE  Due(k)'
  BY <1>1, <1>2, DueStays, TakenIsIdle
<1> DEFINE Fine(w) == \A k \in Crypts :
                        job'[w] # NoJob /\ job'[w].key = k /\ crypts'[k] # NoCrypt
                          /\ job'[w].pc # "get" =>
                        job'[w].crypt = crypts'[k] \/ Due(k)'
<1>3. ASSUME NEW w \in Workers, job[w] # NoJob, job[w].pc # "get",
             job'[w].key = job[w].key, job'[w].crypt = job[w].crypt
      PROVE  Fine(w)
  <2> SUFFICES ASSUME NEW k \in Crypts, job[w].key = k, crypts'[k] # NoCrypt
               PROVE  job[w].crypt = crypts'[k] \/ Due(k)'
    BY <1>3
  <2>1. CASE crypts'[k] # crypts[k]
    BY <1>2, <1>3, <2>1
  <2>2. CASE crypts'[k] = crypts[k]
    <3>1. job[w].crypt = crypts[k] \/ Due(k)
      BY <1>3, <2>2 DEF StaleDue, Exists
    <3> QED BY <1>2, <1>3, <2>2, <3>1
  <2> QED BY <2>1, <2>2
<1>4. ASSUME NEW w \in Workers, job'[w] = job[w] PROVE Fine(w)
  <2>1. CASE job[w] # NoJob /\ job[w].pc # "get"
    BY <1>3, <1>4, <2>1
  <2> QED BY <1>4, <2>1
<1>5. ASSUME NEW w \in Workers, WorkerStep(w), ~WriteFails(w) PROVE Fine(w)
  <2>1. /\ UNCHANGED <<crypts, synced, cryptWatch, cryptCache>>
        /\ Starts(w) \/ Ends(w) \/ Reads(w) \/ Finds(w) \/ Tries(w) \/ Returns(w)
    BY <1>5, SyncSteps
  <2>2. CASE Starts(w)
    BY <2>2 DEF Starts, NewJob
  <2>3. CASE Ends(w)
    BY <2>3 DEF Ends
  <2>4. CASE Reads(w)
    <3> SUFFICES ASSUME NEW k \in Crypts, job[w].key = k, crypts'[k] # NoCrypt
                 PROVE  cryptCache[k] = crypts'[k] \/ Due(k)'
      BY <2>4 DEF Reads
    <3>1. job[w] # NoJob
      BY <2>4 DEF Reads
    <3>2. Due(k) \/ cryptCache[k] = crypts[k]
      BY <2>1 DEF CryptsFollowed, Exists, Due
    <3> QED BY <1>2, <2>1, <3>1, <3>2
  <2>5. CASE Finds(w) \/ Tries(w) \/ Returns(w)
    BY <1>3, <2>5, Zenon DEF Finds, Tries, Returns, Goes
  <2> QED BY <2>1, <2>2, <2>3, <2>4, <2>5
<1>6. \A w \in Workers : Fine(w)
  <2>1. CASE UNCHANGED job
    BY <1>4, <2>1
  <2>2. CASE Crash
    BY <2>2 DEF Crash
  <2>3. ASSUME NEW v \in Workers, WorkerStep(v), ~WriteFails(v)
        PROVE  \A w \in Workers : Fine(w)
    <3>1. \A w \in Workers \ {v} : job'[w] = job[w]
      BY <2>3, SyncSteps
    <3> HIDE DEF Fine
    <3> QED BY <1>4, <1>5, <2>3, <3>1
  <2> QED BY <2>1, <2>2, <2>3 DEF JobStep
<1> QED BY <1>6 DEF StaleDue, Exists
-----------------------------------------------------------------------------
(* Secrets: without foreign ones, each has the type its owner asked for. *)

LEMMA DefInSpec ==
  ASSUME NEW jb, GoodJob(jb), jb.pc \in {"fetch", "create", "update"}
  PROVE  Def(jb) \in ToSet(jb.crypt.spec.secrets)
<1>1. jb.crypt \in Crypt /\ jb.i \in 1..Len(jb.crypt.spec.secrets)
  BY DEF GoodJob, InBounds, Job
<1>2. jb.crypt.spec.secrets \in Seq(SecretDefs)
  BY <1>1 DEF Crypt, SpecType
<1>3. jb.i \in DOMAIN jb.crypt.spec.secrets
  BY <1>1, <1>2
<1> QED BY <1>3 DEF Def, ToSet

LEMMA OursStayOurs ==
  ASSUME TypeInv, HistoryInv, OnlyOurs, SecretStep, asked \subseteq asked', ~moves'.faulty
  PROVE  OnlyOurs'
<1> SUFFICES ASSUME NEW s \in SecretIds, secrets'[s] # NoSecret
             PROVE  Owned(s)' /\ AskedName(s)'
  BY DEF OnlyOurs
<1>1. ASSUME secrets'[s] = secrets[s] PROVE Owned(s)' /\ AskedName(s)'
  <2>1. Owned(s) /\ AskedName(s)
    BY <1>1 DEF OnlyOurs
  <2> QED BY <1>1, <2>1 DEF Owned, AskedName
<1>2. ASSUME NEW w \in Workers, job[w] # NoJob,
             job[w].pc \in {"fetch", "create", "update"}, WriteSecret(job[w])
      PROVE  Owned(s)' /\ AskedName(s)'
  <2> DEFINE jb == job[w]
             a == AskedFor(jb.key, jb.crypt)
  <2>1. GoodJob(jb) /\ jb \in Job
    BY <1>2 DEF GoodJob, TypeInv, TypeOK, JobsInBounds
  <2>2. Target(jb) \in SecretIds /\ newSecret(jb) \in Secret
    BY <1>2, <2>1, TargetTyped
  <2>3. CASE s # Target(jb)
    BY <1>1, <1>2, <2>3 DEF WriteSecret, TypeInv, TypeOK
  <2>4. CASE s = Target(jb)
    <3>1. secrets'[s] = newSecret(jb)
      BY <1>2, <2>2, <2>4 DEF WriteSecret, TypeInv, TypeOK
    <3>2. jb.crypt # NoCrypt /\ jb.i \in 1..Len(jb.crypt.spec.secrets)
      BY <1>2, <2>1 DEF GoodJob, InBounds
    <3>3. a \in asked' /\ a.spec = jb.crypt.spec
          /\ a.owner = [key |-> jb.key, uid |-> jb.crypt.uid]
      BY <1>2, <3>2 DEF HistoryInv, JobsAsked, WasAsked, AskedFor
    <3>4. /\ newSecret(jb).owner = [key |-> jb.key, uid |-> jb.crypt.uid]
          /\ newSecret(jb).type = GetType(Def(jb)) /\ s[2] = Def(jb).name
      BY <2>4 DEF newSecret, Target
    <3> HIDE DEF a
    <3>5. AskedName(s)'
      <4>1. Def(jb) \in ToSet(jb.crypt.spec.secrets)
        BY <1>2, <2>1, DefInSpec
      <4> QED BY <3>1, <3>3, <3>4, <4>1 DEF AskedName
    <3>6. Owned(s)'
      BY <2>2, <3>1, NullsAssumption DEF Owned
    <3> QED BY <3>5, <3>6
  <2> QED BY <2>3, <2>4
<1>3. ASSUME NEW w \in Workers, WorkerStep(w), ~WriteFails(w)
      PROVE  Owned(s)' /\ AskedName(s)'
  <2>1. UNCHANGED secrets \/ Returns(w)
    BY <1>3, SyncSteps
  <2> QED BY <1>1, <1>2, <2>1 DEF Returns, Goes
<1> QED BY <1>1, <1>3 DEF SecretStep
-----------------------------------------------------------------------------
(* What is on the way arrives, or something else is on the way. *)

\* What was asked for under the name of a secret of crypt k was asked for by k.
LEMMA SoleOwner ==
  ASSUME TypeInv, HistoryInv, Independent,
         NEW k \in Crypts, NEW n, NEW d, Wants(k, n, d),
         NEW a \in asked, NEW e \in ToSet(a.spec.secrets),
         NEW def, def = crypts[k].spec.secrets[d], e.name = def.name
  PROVE  /\ a.owner.key = k /\ GetType(e) = GetType(def)
         /\ a = AskedFor(k, crypts[k]) => e.key = def.key
<1> DEFINE b == AskedFor(k, crypts[k])
<1>1. b \in asked /\ b.spec = crypts[k].spec /\ b.owner.key = k
  BY DEF HistoryInv, StoredAsked, WasAsked, AskedFor, Wants, Exists
<1>2. crypts[k].spec.secrets \in Seq(SecretDefs)
  BY DEF Wants, Exists, TypeInv, TypeOK, Crypt, SpecType
<1>3. def \in ToSet(crypts[k].spec.secrets)
  BY <1>2 DEF ToSet, Wants
<1> HIDE DEF b
<1> QED BY <1>1, <1>3 DEF Independent, b

\* Two crypts that were cached or stored are the same if they share home or name.
LEMMA Alone ==
  ASSUME HistoryInv, Independent, NEW k \in Crypts, NEW c \in Crypts,
         Exists(k), cryptCache[c] # NoCrypt, c.ns = k.ns \/ c.name = k.name
  PROVE  c = k /\ k.ns \in InitNamespaces
<1> DEFINE a == AskedFor(k, crypts[k])
           b == AskedFor(c, cryptCache[c])
<1>1. a \in asked /\ b \in asked
  BY DEF HistoryInv, StoredAsked, CachedAsked, WasAsked, Exists
<1>2. a.owner.key = k /\ b.owner.key = c
  BY DEF AskedFor
<1> HIDE DEF a, b
<1> QED BY <1>1, <1>2 DEF Independent

LEMMA DueLeads ==
  ASSUME TypeInv, CryptsFollowed, CryptStep, NEW k \in Crypts,
         crypts'[k] # NoCrypt, Due(k) \/ crypts'[k] # crypts[k], NEW n, NEW def
  PROVE  OnTheWay(k, n, def)'
<1>1. ASSUME NEW w \in Workers, TakeItem(w), Head(queue) = k
      PROVE  Working(k, n, def)'
  <2>1. job' = [job EXCEPT ![w] = NewJob(k)] /\ job \in [Workers -> Job \cup {NoJob}]
    BY <1>1 DEF TakeItem, Continue, TypeInv, TypeOK
  <2>2. NewJob(k) \in Job /\ NewJob(k).key = k /\ NewJob(k).pc = "get"
    BY NewJobGood DEF GoodJob, NewJob
  <2>3. job'[w] # NoJob /\ job'[w].key = k /\ job'[w].pc = "get"
    BY <2>1, <2>2, NullJobsAssumption
  <2> QED BY <2>3 DEF Working, WillWrite
<1> QED BY <1>1, DueStays DEF OnTheWay

\* Before the caches are filled, nobody takes a key.
LEMMA EarlyLeads ==
  ASSUME TypeInv, CryptsFollowed, EarlyDue, CryptStep, ~Ready,
         NEW k \in Crypts, Exists(k), crypts'[k] # NoCrypt
  PROVE  Due(k)'
<1>1. Due(k) /\ \A w \in Workers : ~TakeItem(w)
  BY DEF EarlyDue, TakeItem
<1> QED BY <1>1, DueStays

LEMMA RemovalNoticed ==
  ASSUME TypeInv, HistoryInv, Independent, CryptsFollowed, EarlyDue, OnlyOurs, CryptStep,
         NEW k \in Crypts, NEW n \in Namespaces, NEW d, Wants(k, n, d),
         crypts'[k] # NoCrypt, NEW s \in SecretIds,
         s = <<n, crypts[k].spec.secrets[d].name>>, secrets[s] # NoSecret,
         NEW ids \in SUBSET SecretIds, s \in ids, deleted' = deleted \cup Gone(ids)
  PROVE  Removed(k)' \/ Due(k)'
<1>1. Exists(k)
  BY DEF Wants
<1>2. CASE ~Ready
  BY <1>1, <1>2, EarlyLeads
<1>3. CASE Ready
  <2>1. "secrets" \in synced
    BY <1>3, InformersAssumption DEF Ready
  <2>2. Owned(s) /\ AskedName(s)
    BY DEF OnlyOurs
  <2>3. PICK a \in asked : \E e \in ToSet(a.spec.secrets) :
          a.owner = secrets[s].owner /\ e.name = s[2]
    BY <2>2, Zenon DEF AskedName
  <2>4. secrets[s].owner.key = k
    BY <2>3, SoleOwner
  <2>5. secrets[s] \in Secret /\ secrets[s] # Foreign
    BY <2>2 DEF Owned, TypeInv, TypeOK
  <2>6. secrets[s].owner \in Owner /\ secrets[s].owner # Foreign
    BY <2>5, NullJobsAssumption DEF Secret
  <2> DEFINE gone == [id |-> s, owner |-> secrets[s].owner]
  <2>7. gone \in deleted' /\ gone.owner = secrets[s].owner
    BY <2>1, <2>5 DEF Gone
  <2> HIDE DEF gone
  <2> QED BY <2>4, <2>6, <2>7 DEF Removed
<1> QED BY <1>2, <1>3

\* A sync that writes a secret k wants is one of k, or will be followed by one.
LEMMA WriteLands ==
  ASSUME TypeInv, HistoryInv, Independent, CryptsFollowed, StaleDue, CryptStep,
         NEW w \in Workers, job[w] # NoJob, job[w].pc \in {"fetch", "create", "update"},
         WriteSecret(job[w]), UNCHANGED crypts,
         NEW k \in Crypts, NEW n \in Namespaces, NEW d, Wants(k, n, d),
         NEW def, def = crypts[k].spec.secrets[d], Target(job[w]) = <<n, def.name>>
  PROVE  WrittenFor(<<n, def.name>>, def, k)' \/ OnTheWay(k, n, def)'
<1> DEFINE jb == job[w]
           a == AskedFor(jb.key, jb.crypt)
<1>1. GoodJob(jb) /\ jb \in Job
  BY DEF GoodJob, TypeInv, TypeOK, JobsInBounds
<1>2. /\ Target(jb) \in SecretIds /\ newSecret(jb) \in Secret
      /\ jb.crypt \in Crypt /\ jb.crypt # NoCrypt
      /\ jb.i \in 1..Len(jb.crypt.spec.secrets)
      /\ jb.crypt.spec.secrets \in Seq(SecretDefs)
  BY <1>1, TargetTyped DEF GoodJob, InBounds, Job, Crypt, SpecType
<1>3. a \in asked /\ a.spec = jb.crypt.spec
      /\ a.owner = [key |-> jb.key, uid |-> jb.crypt.uid]
  BY <1>2 DEF HistoryInv, JobsAsked, WasAsked, AskedFor
<1>4. Def(jb) \in ToSet(a.spec.secrets) /\ Def(jb).name = def.name
  BY <1>1, <1>3, DefInSpec DEF Target
<1>5. /\ jb.key = k /\ GetType(Def(jb)) = GetType(def)
      /\ a = AskedFor(k, crypts[k]) => Def(jb).key = def.key
  <2>1. a.owner.key = jb.key
    BY <1>3
  <2> HIDE DEF a, jb
  <2> QED BY <1>3, <1>4, <2>1, SoleOwner
<1>6. CASE jb.crypt = crypts[k]
  <2>1. secrets'[<<n, def.name>>] = newSecret(jb)
    BY <1>2 DEF WriteSecret, TypeInv, TypeOK
  <2>2. Def(jb).key = def.key
    BY <1>3, <1>5, <1>6 DEF AskedFor
  <2>3. /\ newSecret(jb).owner = [key |-> k, uid |-> crypts[k].uid]
        /\ newSecret(jb).key = def.key /\ newSecret(jb).type = GetType(def)
    BY <1>5, <1>6, <2>2 DEF newSecret
  <2>4. newSecret(jb) \notin {NoSecret, Foreign}
    BY <1>2, NullsAssumption
  <2> HIDE DEF jb
  <2> QED BY <2>1, <2>3, <2>4 DEF WrittenFor, Owned
<1>7. CASE jb.crypt # crypts[k]
  <2>1. Due(k)
    BY <1>5, <1>7 DEF StaleDue, Wants, Exists
  <2> QED BY <2>1, DueLeads DEF Wants, Exists
<1> QED BY <1>6, <1>7

\* A removal that was noticed leads to another sync, unless one is due.
LEMMA RemovedStays ==
  ASSUME TypeInv, HistoryInv, Independent, CryptsFollowed, CryptStep,
         DeletionStep, ~moves'.faulty, NEW k \in Crypts, Exists(k),
         crypts'[k] = crypts[k], Removed(k), NEW n, NEW def
  PROVE  OnTheWay(k, n, def)'
<1>1. CASE deleted \subseteq deleted' /\ lookup' = lookup
  BY <1>1 DEF Removed, OnTheWay
<1>2. CASE Crash
  BY <1>2 DEF Crash, OnTheWay, Due
<1>3. ASSUME NEW d \in deleted, handleSecretDelete(d) PROVE Removed(k)'
  <2>1. lookup = NoTask /\ deleted' = deleted \ {d}
    BY <1>3 DEF handleSecretDelete
  <2>2. PICK e \in deleted : e.owner # Foreign /\ e.owner.key = k
    BY <2>1 DEF Removed
  <2>3. CASE e # d
    BY <2>1, <2>2, <2>3 DEF Removed
  <2>4. CASE e = d
    <3> DEFINE seen == {c.ns : c \in {x \in Crypts : crypts[x] # NoCrypt}}
    <3>1. ~Move("list fails")
      <4>1. "list fails" \in Faults
        BY DEF Faults
      <4> QED BY <4>1, CalmMove
    <3>2. lookup' = [owner |-> d.owner, seen |-> seen]
      BY <1>3, <2>2, <2>4, <3>1 DEF handleSecretDelete
    <3>3. d.owner \in Owner
      BY <2>2, <2>4 DEF TypeInv, TypeOK, Deletion
    <3>4. seen \in SUBSET Namespaces /\ k.ns \in seen
      BY CryptsAssumption DEF Exists
    <3> HIDE DEF seen
    <3>5. lookup' \in Task
      BY <3>2, <3>3, <3>4 DEF Task
    <3>6. lookup'.owner = d.owner /\ lookup'.seen = seen
      BY <3>2
    <3> QED BY <2>2, <2>4, <3>4, <3>5, <3>6, NullJobsAssumption DEF Removed
  <2> QED BY <2>3, <2>4
<1>4. CASE enqueueOwner
  <2>1. CASE \E d \in deleted : d.owner # Foreign /\ d.owner.key = k
    BY <1>4, <2>1 DEF enqueueOwner, watchVars, Removed, OnTheWay
  <2>2. CASE Due(k)
    BY <2>2, DueLeads DEF Exists
  <2>3. CASE lookup.owner.key = k /\ k.ns \in lookup.seen /\ ~Due(k)
    <3>1. cryptCache[k] # NoCrypt
      BY <2>3 DEF Due, CryptsFollowed, Exists
    <3>2. k \in SameName(lookup)
      BY <2>3, <3>1 DEF SameName, CachedCrypts
    <3>3. PICK c \in SameName(lookup) : enqueueCrypt({c})
      BY <1>4, <3>2 DEF enqueueOwner
    <3>4. c = k
      BY <2>3, <3>3, Alone DEF SameName, CachedCrypts
    <3> QED BY <3>3, <3>4 DEF enqueueCrypt, WQ!AddRateLimited, OnTheWay, Due
  <2> QED BY <2>1, <2>2, <2>3 DEF Removed
<1> QED BY <1>1, <1>2, <1>3, <1>4 DEF DeletionStep, OnTheWay

\* A namespace on its way to the handler leads to another sync of k.
LEMMA ArrivingStays ==
  ASSUME TypeInv, HistoryInv, Independent, CryptsFollowed, NamespacesFollowed, EarlyDue,
         CryptStep, NamespaceStep,
         NEW k \in Crypts, NEW n \in Namespaces, NEW d, Wants(k, n, d),
         crypts'[k] = crypts[k], Arriving(n), NEW def
  PROVE  OnTheWay(k, n, def)'
<1>1. /\ nsWatch \in Seq(NsEvent) /\ Len(nsWatch) \in Nat
      /\ \A i \in 1..Len(nsWatch) : nsWatch[i].ns \in Namespaces
  BY StreamsTyped
<1>2. Exists(k) /\ n \in namespaces
  BY DEF Wants
<1>3. CASE UNCHANGED <<nsWatch, nsListed, nsAdded>>
  BY <1>3 DEF Arriving, NsOnWatch, OnTheWay
<1>4. ASSUME NEW m \in Namespaces, handleNamespaceAdd(m), UNCHANGED <<nsWatch, nsListed>>
      PROVE  OnTheWay(k, n, def)'
  <2>1. CASE NsOnWatch(n) \/ m # n
    BY <1>4, <2>1 DEF handleNamespaceAdd, Arriving, NsOnWatch, OnTheWay
  <2>2. CASE Due(k)
    BY <1>2, <2>2, DueLeads DEF Exists
  <2>3. CASE m = n /\ ~Due(k)
    <3>1. cryptCache[k] = crypts[k] /\ cryptCache[k] # NoCrypt
      BY <1>2, <2>3 DEF Due, CryptsFollowed, Exists
    <3>2. k.ns \in InitNamespaces
      BY <1>2, <3>1, Alone
    <3>3. k.ns \in nsCache
      <4>1. "namespaces" \in synced /\ nsListed = {}
        BY <1>2, <2>3, InformersAssumption DEF EarlyDue, Ready
      <4> QED BY <3>2, <4>1 DEF NamespacesFollowed, NsOnWatch
    <3> DEFINE homes == {h \in nsCache : MatchingIn(h, n) # {}}
    <3>4. PICK first \in [homes -> Crypts] :
            /\ \A h \in homes : first[h] \in MatchingIn(h, n)
            /\ enqueueCrypt({first[h] : h \in homes})
      BY <1>4, <2>3 DEF handleNamespaceAdd
    <3>5. k.ns \in homes
      <4>1. PICK p \in 1..Len(crypts[k].spec.patterns) :
              n \in Matches[crypts[k].spec.patterns[p]]
        BY DEF Wants
      <4>2. crypts[k].spec.patterns \in Seq(Patterns)
        BY <1>2 DEF Exists, TypeInv, TypeOK, Crypt, SpecType
      <4>3. crypts[k].spec.patterns[p] \in ToSet(crypts[k].spec.patterns)
        BY <4>1, <4>2 DEF ToSet
      <4>4. k \in MatchingIn(k.ns, n)
        BY <3>1, <4>1, <4>3 DEF MatchingIn, CachedCrypts
      <4> QED BY <3>3, <4>4
    <3>6. first[k.ns] = k
      <4>1. first[k.ns] \in MatchingIn(k.ns, n)
        BY <3>4, <3>5
      <4> QED BY <1>2, <4>1, Alone DEF MatchingIn, CachedCrypts
    <3>7. k \in {first[h] : h \in homes}
      BY <3>5, <3>6
    <3> HIDE DEF homes
    <3> QED BY <3>4, <3>7 DEF enqueueCrypt, WQ!AddRateLimited, OnTheWay, Due
  <2> QED BY <2>1, <2>2, <2>3
<1>5. ASSUME NEW m \in Namespaces, CreateNamespace(m) \/ DeleteNamespace(m)
      PROVE  Arriving(n)'
  <2>1. PICK e : nsWatch' = Publish("namespaces", nsWatch, e)
    BY <1>5 DEF CreateNamespace, DeleteNamespace
  <2>2. nsAdded' = nsAdded /\ nsListed' = nsListed
    BY <1>5 DEF CreateNamespace, DeleteNamespace, cacheVars
  <2>3. NsOnWatch(n) => NsOnWatch(n)'
    <3>1. CASE nsWatch' = nsWatch
      BY <3>1 DEF NsOnWatch
    <3>2. CASE nsWatch' = Append(nsWatch, e)
      <4>1. /\ Len(nsWatch') = Len(nsWatch) + 1
            /\ \A i \in 1..Len(nsWatch) : nsWatch'[i] = nsWatch[i]
        BY <1>1, <3>2, AppendAt
      <4> QED BY <1>1, <4>1 DEF NsOnWatch
    <3> QED BY <2>1, <3>1, <3>2 DEF Publish
  <2> QED BY <2>2, <2>3 DEF Arriving
<1>6. CASE Crash
  BY <1>6 DEF Crash, OnTheWay, Due
<1>7. CASE ListNamespaces
  BY <1>2, <1>7 DEF ListNamespaces, Arriving, OnTheWay
<1>9. ASSUME NamespaceEvent, nsListed # {}
      PROVE  OnTheWay(k, n, def)'
  <2>1. /\ nsAdded \cup nsListed \subseteq nsAdded' \cup nsListed'
        /\ nsWatch' = nsWatch
    BY <1>9 DEF NamespaceEvent
  <2> QED BY <2>1 DEF Arriving, NsOnWatch, OnTheWay
<1>8. ASSUME NamespaceEvent, nsListed = {}
      PROVE  OnTheWay(k, n, def)'
  <2> DEFINE e == Head(nsWatch)
  <2>1. /\ nsAdded \subseteq nsAdded'
        /\ e.present => e.ns \in nsAdded'
        /\ nsWatch' = Tail(nsWatch) /\ nsWatch # <<>>
    BY <1>8 DEF NamespaceEvent
  <2>2. /\ Len(nsWatch) \in Nat \ {0} /\ e = nsWatch[1]
        /\ \A i \in 2..Len(nsWatch) :
             i - 1 \in 1..Len(nsWatch') /\ nsWatch'[i - 1] = nsWatch[i]
    BY <1>1, <2>1, TailAt
  <2> HIDE DEF e
  <2>3. ASSUME NEW i \in 2..Len(nsWatch), nsWatch[i].ns = n
        PROVE  NsOnWatch(n)'
    <3> DEFINE l == i - 1
    <3>1. l \in 1..Len(nsWatch') /\ nsWatch'[l].ns = n
      BY <2>2, <2>3
    <3> HIDE DEF l
    <3> QED BY <3>1 DEF NsOnWatch
  <2>4. n \in nsAdded' \/ NsOnWatch(n)' => OnTheWay(k, n, def)'
    BY DEF Arriving, OnTheWay
  <2>5. CASE NsOnWatch(n)
    <3>1. PICK i \in 1..Len(nsWatch) : nsWatch[i].ns = n
      BY <2>5 DEF NsOnWatch
    <3>2. CASE i \in 2..Len(nsWatch)
      BY <2>3, <2>4, <3>1, <3>2
    <3>3. CASE i \notin 2..Len(nsWatch)
      <4>1. i = 1 /\ 1 \in 1..Len(nsWatch) /\ e.ns = n
        BY <2>2, <3>1, <3>3
      <4>2. \/ e.present
            \/ \E j \in 2..Len(nsWatch) : nsWatch[j].ns = n
        BY <1>2, <2>2, <4>1 DEF NamespacesFollowed
      <4> QED BY <2>1, <2>3, <2>4, <4>1, <4>2
    <3> QED BY <3>2, <3>3
  <2> QED BY <1>8, <2>1, <2>4, <2>5 DEF Arriving
<1> QED BY <1>3, <1>4, <1>5, <1>6, <1>7, <1>8, <1>9 DEF NamespaceStep, OnTheWay

\* A secret k wants stays, or its removal is noticed.
LEMMA SecretStays ==
  ASSUME TypeInv, HistoryInv, Independent, CryptsFollowed, EarlyDue, OnlyOurs,
         CryptStep, SecretStep, ~moves'.faulty,
         NEW k \in Crypts, NEW n \in Namespaces, NEW d, Wants(k, n, d),
         crypts'[k] # NoCrypt, NEW s \in SecretIds,
         s = <<n, crypts[k].spec.secrets[d].name>>, secrets[s] # NoSecret
  PROVE  secrets'[s] # NoSecret \/ Removed(k)' \/ Due(k)'
<1>1. ASSUME NEW ids \in SUBSET SecretIds,
             secrets' = [t \in SecretIds |-> IF t \in ids THEN NoSecret ELSE secrets[t]],
             deleted' = deleted \cup Gone(ids)
      PROVE  secrets'[s] # NoSecret \/ Removed(k)' \/ Due(k)'
  <2>1. CASE s \in ids
    BY <1>1, <2>1, RemovalNoticed
  <2>2. CASE s \notin ids
    BY <1>1, <2>2
  <2> QED BY <2>1, <2>2
<1>2. ASSUME NEW w \in Workers, WorkerStep(w), ~WriteFails(w)
      PROVE  secrets'[s] # NoSecret
  <2>1. UNCHANGED secrets \/ Returns(w)
    BY <1>2, SyncSteps
  <2>2. ASSUME job[w] # NoJob, job[w].pc \in {"fetch", "create", "update"},
               WriteSecret(job[w])
        PROVE  secrets'[s] # NoSecret
    <3>1. GoodJob(job[w]) /\ job[w] \in Job
      BY <2>2 DEF GoodJob, TypeInv, TypeOK, JobsInBounds
    <3>2. newSecret(job[w]) # NoSecret
      BY <2>2, <3>1, TargetTyped, NullsAssumption
    <3> QED BY <2>2, <3>2 DEF WriteSecret, TypeInv, TypeOK
  <2> QED BY <2>1, <2>2 DEF Returns, Goes
<1> QED BY <1>1, <1>2 DEF SecretStep

\* A namespace k wants is in the cache, or on its way to it.
LEMMA NamespaceStays ==
  ASSUME NamespacesFollowed', EarlyDue',
         NEW k \in Crypts, crypts'[k] # NoCrypt, NEW n, n \in namespaces'
  PROVE  n \in nsCache' \/ Arriving(n)' \/ Due(k)'
<1>1. CASE "namespaces" \in synced'
  BY <1>1 DEF NamespacesFollowed, Arriving
<1>2. CASE "namespaces" \notin synced'
  BY <1>2, InformersAssumption DEF EarlyDue, Ready, Exists
<1> QED BY <1>1, <1>2

\* Another step leaves a sync to its work, or leads to another sync.
LEMMA WorkStays ==
  ASSUME NEW k \in Crypts, NEW n, NEW def, NEW w \in Workers,
         job[w] # NoJob, job[w].key = k, WillWrite(job[w], n, def),
         job'[w] = job[w], crypts'[k] = crypts[k],
         n \in nsCache' \/ Arriving(n)' \/ Due(k)',
         secrets[<<n, def.name>>] # NoSecret =>
           secrets'[<<n, def.name>>] # NoSecret \/ Removed(k)' \/ Due(k)'
  PROVE  OnTheWay(k, n, def)'
<1> SUFFICES ASSUME ~Due(k)', ~Removed(k)', ~Arriving(n)'
             PROVE  Working(k, n, def)'
  BY DEF OnTheWay
<1>1. n \in nsCache' /\ (secrets[<<n, def.name>>] # NoSecret =>
                           secrets'[<<n, def.name>>] # NoSecret)
  OBVIOUS
<1>2. CASE job[w].pc = "get"
  BY <1>2 DEF Working, WillWrite
<1>3. CASE job[w].pc = "match"
  BY <1>1, <1>3 DEF Working, WillWrite, WillMatch
<1>4. CASE job[w].pc \in {"fetch", "create", "update"} /\ Ahead(job[w], n, def)
            /\ job[w].crypt = crypts[job[w].key]
  <2>1. PICK i \in job[w].i..Len(job[w].crypt.spec.secrets), j \in 1..Len(job[w].matched) :
          /\ job[w].matched[j] = n /\ job[w].crypt.spec.secrets[i] = def
          /\ i = job[w].i => j >= job[w].j
          /\ job[w].pc = "update" /\ i = job[w].i /\ j = job[w].j =>
               secrets[<<n, def.name>>] # NoSecret
    BY <1>4 DEF Ahead
  <2>2. Ahead(job[w], n, def)'
    BY <1>1, <2>1 DEF Ahead
  <2> QED BY <1>4, <2>2 DEF Working, WillWrite
<1> QED BY <1>2, <1>3, <1>4 DEF WillWrite

\* An order of a set has every one of its elements at some place.
LEMMA OrderCovers ==
  ASSUME NEW hits \in SUBSET Namespaces, NEW order \in SetToSeqs(hits)
  PROVE  \A m \in hits : \E j \in 1..Len(order) : order[j] = m
<1> DEFINE D == 1..Cardinality(hits)
<1>1. IsFiniteSet(hits)
  BY NamespacesAssumption, FS_Subset
<1>2. Cardinality(hits) \in Nat
  BY <1>1, FS_CardinalityType
<1>3. /\ order \in [D -> hits] /\ Len(order) = Cardinality(hits)
      /\ \A i, j \in D : order[i] = order[j] => i = j
  BY <1>2 DEF SetToSeqs
<1>4. IsFiniteSet(D) /\ Cardinality(D) = Cardinality(hits)
  BY <1>2, FS_Interval
<1> HIDE DEF D
<1>5. order \in Injection(D, hits)
  BY <1>3 DEF Injection, IsInjective
<1>6. order \in Surjection(D, hits)
  BY <1>1, <1>4, <1>5, FS_Injection
<1> QED BY <1>3, <1>6 DEF Surjection, D

\* A sync that reads a crypt reads the stored one, or another sync is due; when
\* there is none to read, one is due.
LEMMA ReadsLead ==
  ASSUME TypeInv, CryptsFollowed, EarlyDue, CryptStep, NamespacesFollowed', EarlyDue',
         NEW k \in Crypts, NEW n \in Namespaces, NEW d, Wants(k, n, d),
         crypts'[k] = crypts[k], n \in namespaces',
         NEW w \in Workers, job[w].key = k, Ends(w) \/ Reads(w), job[w].pc = "get",
         NEW def
  PROVE  OnTheWay(k, n, def)'
<1>1. Exists(k)
  BY DEF Wants
<1>2. CASE Due(k)
  BY <1>1, <1>2, DueLeads DEF Exists
<1>3. CASE ~Due(k)
  <2>1. cryptCache[k] = crypts[k] /\ cryptCache[k] # NoCrypt
    BY <1>1, <1>3 DEF Due, CryptsFollowed, Exists
  <2>2. Reads(w)
    BY <2>1 DEF Ends
  <2>3. PICK p \in 1..Len(crypts[k].spec.patterns) :
          n \in Matches[crypts[k].spec.patterns[p]]
    BY DEF Wants
  <2>4. crypts[k].spec.patterns \in Seq(Patterns)
    BY <1>1 DEF Exists, TypeInv, TypeOK, Crypt, SpecType
  <2>5. crypts[k].spec.patterns # <<>>
    BY <2>3, <2>4
  <2>6. /\ job'[w] # NoJob /\ job'[w].key = k /\ job'[w].crypt = crypts'[k]
        /\ job'[w].pc = "match" /\ job'[w].i = 1
    BY <2>1, <2>2, <2>5 DEF Reads
  <2>7. n \in nsCache' \/ Arriving(n)' \/ Due(k)'
    BY <1>1, NamespaceStays DEF Exists
  <2>8. CASE n \in nsCache'
    BY <2>3, <2>6, <2>8 DEF OnTheWay, Working, WillWrite, WillMatch
  <2> QED BY <2>7, <2>8 DEF OnTheWay
<1> QED BY <1>2, <1>3

\* The namespaces a sync has found are those it had and those that match its
\* next pattern.
LEMMA Finding ==
  ASSUME NEW matched \in Seq(Namespaces), NEW hits \in SUBSET Namespaces,
         NEW order \in SetToSeqs(hits), NEW n,
         (\E j \in 1..Len(matched) : matched[j] = n) \/ n \in hits
  PROVE  \E j \in 1..Len(matched \o order) : (matched \o order)[j] = n
<1>1. order \in Seq(Namespaces)
  BY OrderTyped
<1>2. CASE \E j \in 1..Len(matched) : matched[j] = n
  <2>1. PICK j \in 1..Len(matched) : matched[j] = n
    BY <1>2
  <2>2. j \in 1..Len(matched \o order) /\ (matched \o order)[j] = n
    BY <1>1, <2>1
  <2> QED BY <2>2
<1>3. CASE n \in hits
  <2>1. PICK j \in 1..Len(order) : order[j] = n
    BY <1>3, OrderCovers
  <2> DEFINE l == Len(matched) + j
  <2>2. l \in 1..Len(matched \o order) /\ (matched \o order)[l] = n
    BY <1>1, <2>1
  <2> QED BY <2>2
<1> QED BY <1>2, <1>3

\* A sync that matches the patterns of a crypt finds every namespace in the cache.
LEMMA FindsLead ==
  ASSUME TypeInv, NEW k \in Crypts, NEW n \in Namespaces, NEW d, Wants(k, n, d),
         crypts'[k] = crypts[k], UNCHANGED nsCache,
         NEW w \in Workers, job[w].key = k, Finds(w), job[w].crypt = crypts[k],
         WillMatch(job[w], n), NEW def, def = crypts[k].spec.secrets[d]
  PROVE  Working(k, n, def)'
<1>1. PICK jb \in Job : jb = job[w] /\ GoodJob(jb) /\ jb.pc = "match"
  BY DEF Finds, Goes, GoodJob, TypeInv, TypeOK, JobsInBounds
<1>2. PICK spec \in SpecType : spec = crypts[k].spec /\ spec = jb.crypt.spec
  BY <1>1 DEF GoodJob, InBounds, Job, Crypt
<1>3. /\ jb.matched \in Seq(Namespaces) /\ jb.i \in 1..Len(spec.patterns)
      /\ Len(spec.patterns) \in Nat
      /\ spec.secrets \in Seq(SecretDefs) /\ d \in 1..Len(spec.secrets)
  BY <1>1, <1>2 DEF GoodJob, InBounds, Job, SpecType, Wants
<1>4. PICK hits \in SUBSET Namespaces :
        hits = nsCache \cap Matches[spec.patterns[jb.i]]
  <2>1. nsCache \in SUBSET Namespaces
    BY DEF TypeInv, TypeOK
  <2> QED BY <2>1
<1>5. PICK order, found :
        /\ order \in SetToSeqs(hits)
        /\ found = jb.matched \o order
        /\ \/ /\ jb.i < Len(spec.patterns)
              /\ job'[w].pc = "match" /\ job'[w].i = jb.i + 1 /\ job'[w].matched = found
           \/ /\ jb.i >= Len(spec.patterns)
              /\ found = <<>> \/ spec.secrets = <<>>
           \/ /\ jb.i >= Len(spec.patterns)
              /\ job'[w].pc = "fetch" /\ job'[w].i = 1 /\ job'[w].j = 1
              /\ job'[w].matched = found
  BY <1>1, <1>2, <1>4, ZenonT(60) DEF Finds
<1>6. /\ job'[w] # NoJob /\ job'[w].key = k /\ job'[w].crypt = crypts'[k]
      /\ crypts'[k].spec = spec
  BY <1>2, Zenon DEF Finds, Goes
<1>7. found \in Seq(Namespaces)
  <2>1. order \in Seq(Namespaces)
    BY <1>5, OrderTyped
  <2> QED BY <1>3, <1>5, <2>1
<1>8. \/ \E j \in 1..Len(found) : found[j] = n
      \/ n \in nsCache /\ \E p \in (jb.i + 1)..Len(spec.patterns) : n \in Matches[spec.patterns[p]]
  <2>1. (\E j \in 1..Len(jb.matched) : jb.matched[j] = n) \/ n \in hits =>
          \E j \in 1..Len(found) : found[j] = n
    BY <1>3, <1>5, Finding
  <2>2. ASSUME n \in nsCache, NEW p \in jb.i..Len(spec.patterns), n \in Matches[spec.patterns[p]]
        PROVE  n \in hits \/ p \in (jb.i + 1)..Len(spec.patterns)
    BY <1>3, <1>4, <2>2
  <2> QED BY <1>1, <1>2, <2>1, <2>2 DEF WillMatch
<1>9. CASE job'[w].pc = "match" /\ job'[w].i = jb.i + 1 /\ job'[w].matched = found
  <2>1. WillMatch(job[w], n)'
    BY <1>6, <1>8, <1>9 DEF WillMatch
  <2> QED BY <1>6, <1>9, <2>1 DEF Working, WillWrite
<1>10. CASE jb.i >= Len(spec.patterns)
  <2>1. PICK j \in 1..Len(found) : found[j] = n
    BY <1>3, <1>8, <1>10
  <2>2. found # <<>> /\ spec.secrets # <<>> /\ ~(jb.i < Len(spec.patterns))
    BY <1>3, <1>7, <1>10, <2>1
  <2>3. /\ job'[w].pc = "fetch" /\ job'[w].i = 1 /\ job'[w].j = 1
        /\ job'[w].matched = found
    BY <1>5, <2>2
  <2>4. Ahead(job[w], n, def)'
    <3>1. /\ d \in 1..Len(spec.secrets) /\ spec.secrets[d] = def
          /\ j \in 1..Len(found) /\ j >= 1
      BY <1>2, <1>3, <1>7, <2>1
    <3> QED BY <1>6, <2>1, <2>3, <3>1 DEF Ahead
  <2> QED BY <1>6, <2>3, <2>4 DEF Working, WillWrite
<1> QED BY <1>5, <1>9, <1>10

LEMMA TriesLead ==
  ASSUME NEW k \in Crypts, NEW n, NEW def, crypts'[k] = crypts[k], UNCHANGED secrets,
         NEW w \in Workers, job[w].key = k, Tries(w), job[w].crypt = crypts[k],
         Ahead(job[w], n, def)
  PROVE  Working(k, n, def)'
<1> DEFINE jb == job[w]
<1>1. PICK i \in jb.i..Len(jb.crypt.spec.secrets), j \in 1..Len(jb.matched) :
        /\ jb.matched[j] = n /\ jb.crypt.spec.secrets[i] = def
        /\ i = jb.i => j >= jb.j
  BY DEF Ahead
<1>2. /\ job'[w] # NoJob /\ job'[w].key = k /\ job'[w].crypt = jb.crypt
      /\ job'[w].matched = jb.matched /\ job'[w].i = jb.i /\ job'[w].j = jb.j
      /\ job'[w].pc \in {"create", "update"}
      /\ job'[w].pc = "update" => secrets[Target(jb)] # NoSecret
  BY DEF Tries, Goes
<1>3. i = jb.i /\ j = jb.j => Target(jb) = <<n, def.name>>
  BY <1>1 DEF Target, Def
<1> HIDE DEF jb
<1>4. Ahead(job[w], n, def)'
  BY <1>1, <1>2, <1>3 DEF Ahead
<1> QED BY <1>2, <1>4 DEF Working, WillWrite, jb

\* Each call of createSecret writes its secret, now that no call fails.
LEMMA ReturnsLead ==
  ASSUME TypeInv, HistoryInv, Independent, CryptsFollowed, StaleDue, OnlyOurs,
         StoreReadable, CryptStep,
         NEW k \in Crypts, NEW n \in Namespaces, NEW d, Wants(k, n, d),
         UNCHANGED crypts, NEW def, def = crypts[k].spec.secrets[d],
         NEW w \in Workers, job[w].key = k, Returns(w), job[w].crypt = crypts[k],
         Ahead(job[w], n, def)
  PROVE  WrittenFor(<<n, def.name>>, def, k)' \/ OnTheWay(k, n, def)'
<1> DEFINE jb == job[w]
<1>1. PICK i \in jb.i..Len(jb.crypt.spec.secrets), j \in 1..Len(jb.matched) :
        /\ jb.matched[j] = n /\ jb.crypt.spec.secrets[i] = def
        /\ i = jb.i => j >= jb.j
        /\ jb.pc = "update" /\ i = jb.i /\ j = jb.j =>
             secrets[<<n, def.name>>] # NoSecret
  BY DEF Ahead
<1>2. GoodJob(jb) /\ jb # NoJob /\ jb \in Job /\ jb.pc \in {"fetch", "create", "update"}
  BY DEF Returns, Goes, GoodJob, TypeInv, TypeOK, JobsInBounds
<1>3. /\ jb.i \in 1..Len(jb.crypt.spec.secrets) /\ Len(jb.crypt.spec.secrets) \in Nat
      /\ i \in 1..Len(jb.crypt.spec.secrets) /\ NotBefore(jb, i, j)
  BY <1>1, <1>2 DEF GoodJob, InBounds, Job, Crypt, SpecType, NotBefore
<1>4. /\ job'[w] # NoJob /\ job'[w].key = k /\ job'[w].crypt = crypts'[k]
  BY DEF Returns, Goes
<1>5. PICK ok \in BOOLEAN : job'[w] = Returned(jb, ok)
  BY DEF Returns
<1>6. CASE i # jb.i \/ j # jb.j
  <2> DEFINE r == Returned(jb, ok)
  <2>1. r.pc = "fetch" /\ r.matched = jb.matched /\ NotBefore(r, i, j)
    <3> HIDE DEF jb
    <3> QED BY <1>1, <1>2, <1>3, <1>6, ReturnedNext
  <2>2. job'[w] = r
    BY <1>5
  <2> HIDE DEF r
  <2>3. r \in Job
    BY <1>2, <2>2, <1>5, ReturnedGood DEF GoodJob
  <2>4. i \in r.i..Len(jb.crypt.spec.secrets) /\ (i = r.i => j >= r.j)
    BY <1>3, <2>1, <2>3 DEF NotBefore, Job
  <2>5. Ahead(job[w], n, def)'
    BY <1>1, <1>4, <2>1, <2>2, <2>4 DEF Ahead
  <2> QED BY <1>4, <2>1, <2>2, <2>5 DEF OnTheWay, Working, WillWrite
<1>7. CASE i = jb.i /\ j = jb.j
  <2>1. Target(jb) = <<n, def.name>> /\ Def(jb) = def
    BY <1>1, <1>7 DEF Target, Def
  <2>2. CASE WriteSecret(jb)
    BY <1>2, <2>1, <2>2, WriteLands
  <2>3. def.key \in StoreKeys /\ Target(jb) \in SecretIds
    BY <1>2, <2>1, TargetTyped DEF SecretDefs
  <2>4. CASE jb.pc = "fetch" /\ ~store[Def(jb).key].readable
    BY <2>1, <2>3, <2>4 DEF StoreReadable
  <2>5. CASE jb.pc = "create" /\ Target(jb)[1] \notin namespaces
    BY <2>1, <2>5 DEF Wants
  <2>6. CASE jb.pc = "update" /\ ~Updatable(jb)
    <3>1. secrets[Target(jb)] # NoSecret
      BY <1>1, <1>7, <2>1, <2>6
    <3>2. Owned(Target(jb)) /\ AskedName(Target(jb))
      BY <2>3, <3>1 DEF OnlyOurs
    <3>3. PICK a \in asked : \E e \in ToSet(a.spec.secrets) :
            e.name = Target(jb)[2] /\ GetType(e) = secrets[Target(jb)].type
      BY <3>2 DEF AskedName
    <3>4. Target(jb)[2] = def.name
      BY <2>1
    <3>5. secrets[Target(jb)].type = GetType(def)
      <4> HIDE DEF jb
      <4> QED BY <3>3, <3>4, SoleOwner
    <3> QED BY <2>1, <2>6, <3>1, <3>2, <3>5 DEF Updatable, TypeOf, newSecret, Owned
  <2> QED BY <2>2, <2>4, <2>5, <2>6 DEF Returns
<1> QED BY <1>6, <1>7

\* A sync that works for k goes on to do so, has done so, or another one is due.
LEMMA WorkingStays ==
  ASSUME TypeInv, HistoryInv, Independent, CryptsFollowed, EarlyDue, StaleDue,
         OnlyOurs, StoreReadable, NamespacesFollowed', EarlyDue',
         CryptStep, SecretStep, JobStep, ~moves'.faulty,
         NEW k \in Crypts, NEW n \in Namespaces, NEW d, Wants(k, n, d),
         crypts'[k] = crypts[k], n \in namespaces',
         NEW def, def = crypts[k].spec.secrets[d], Working(k, n, def)
  PROVE  WrittenFor(<<n, def.name>>, def, k)' \/ OnTheWay(k, n, def)'
<1>1. PICK w \in Workers : job[w] # NoJob /\ job[w].key = k /\ WillWrite(job[w], n, def)
  BY DEF Working
<1>2. crypts'[k] # NoCrypt
  BY DEF Wants, Exists
<1>3. CASE job'[w] = job[w]
  <2>1. n \in nsCache' \/ Arriving(n)' \/ Due(k)'
    BY <1>2, NamespaceStays
  <2>2. secrets[<<n, def.name>>] # NoSecret =>
          secrets'[<<n, def.name>>] # NoSecret \/ Removed(k)' \/ Due(k)'
    <3> DEFINE s == <<n, def.name>>
    <3>1. s \in SecretIds
      <4>1. def \in SecretDefs
        BY DEF Wants, Exists, TypeInv, TypeOK, Crypt, SpecType
      <4> QED BY <4>1 DEF SecretDefs, SecretIds
    <3> HIDE DEF s
    <3>2. s = <<n, crypts[k].spec.secrets[d].name>>
      BY DEF s
    <3>3. secrets[s] # NoSecret => secrets'[s] # NoSecret \/ Removed(k)' \/ Due(k)'
      BY <1>2, <3>1, <3>2, SecretStays
    <3> QED BY <3>3 DEF s
  <2> QED BY <1>1, <1>3, <2>1, <2>2, WorkStays
<1>4. CASE WorkerStep(w) /\ ~WriteFails(w)
  <2>1. /\ UNCHANGED <<crypts, nsCache>>
        /\ \/ UNCHANGED secrets
              /\ (Starts(w) \/ Ends(w) \/ Reads(w) \/ Finds(w) \/ Tries(w))
           \/ Returns(w)
    BY <1>4, SyncSteps
  <2>2. ~Starts(w)
    BY <1>1 DEF Starts, TakeItem
  <2>3. CASE Ends(w) \/ Reads(w)
    <3>1. job[w].pc = "get"
      BY <1>1, <2>3 DEF Ends, Reads, WillWrite
    <3> QED BY <1>1, <2>3, <3>1, ReadsLead
  <2>4. CASE Finds(w)
    <3>1. job[w].crypt = crypts[k] /\ WillMatch(job[w], n)
      BY <1>1, <2>4, Zenon DEF Finds, WillWrite
    <3> QED BY <1>1, <2>1, <2>4, <3>1, FindsLead DEF OnTheWay
  <2>5. CASE Tries(w) /\ UNCHANGED secrets
    <3>1. job[w].crypt = crypts[k] /\ Ahead(job[w], n, def)
      BY <1>1, <2>5 DEF Tries, WillWrite
    <3> QED BY <1>1, <2>5, <3>1, TriesLead DEF OnTheWay
  <2>6. CASE Returns(w)
    <3>1. job[w].crypt = crypts[k] /\ Ahead(job[w], n, def)
      BY <1>1, <2>6 DEF Returns, Goes, WillWrite
    <3> QED BY <1>1, <2>1, <2>6, <3>1, ReturnsLead
  <2> QED BY <2>1, <2>2, <2>3, <2>4, <2>5, <2>6
<1>5. CASE Crash
  BY <1>5 DEF Crash, OnTheWay, Due
<1>6. ASSUME NEW v \in Workers, v # w, WorkerStep(v), ~WriteFails(v)
      PROVE  job'[w] = job[w]
  BY <1>6, SyncSteps
<1> QED BY <1>3, <1>4, <1>5, <1>6 DEF JobStep

LEMMA WrittenStays ==
  ASSUME TypeInv, HistoryInv, Independent, CryptsFollowed, EarlyDue, StaleDue, OnlyOurs,
         CryptStep, SecretStep, ~moves'.faulty,
         NEW k \in Crypts, NEW n \in Namespaces, NEW d, Wants(k, n, d),
         crypts'[k] = crypts[k], NEW def \in SecretDefs, def = crypts[k].spec.secrets[d],
         WrittenFor(<<n, def.name>>, def, k)
  PROVE  WrittenFor(<<n, def.name>>, def, k)' \/ OnTheWay(k, n, def)'
<1> DEFINE s == <<n, def.name>>
<1>1. s \in SecretIds /\ s = <<n, crypts[k].spec.secrets[d].name>>
  BY DEF SecretDefs, SecretIds
<1>2. secrets[s] # NoSecret
  BY DEF WrittenFor, Owned
<1>3. secrets'[s] = secrets[s] => WrittenFor(<<n, def.name>>, def, k)'
  BY DEF WrittenFor, Owned
<1> HIDE DEF s
<1>4. ASSUME NEW ids \in SUBSET SecretIds,
             secrets' = [t \in SecretIds |-> IF t \in ids THEN NoSecret ELSE secrets[t]],
             deleted' = deleted \cup Gone(ids)
      PROVE  secrets'[s] = secrets[s] \/ Removed(k)' \/ Due(k)'
  <2>1. CASE s \in ids
    BY <1>1, <1>2, <1>4, <2>1, RemovalNoticed DEF Wants, Exists
  <2>2. CASE s \notin ids
    BY <1>1, <1>4, <2>2
  <2> QED BY <2>1, <2>2
<1>5. ASSUME NEW w \in Workers, WorkerStep(w), ~WriteFails(w)
      PROVE  secrets'[s] = secrets[s] \/ WrittenFor(<<n, def.name>>, def, k)'
               \/ OnTheWay(k, n, def)'
  <2>1. UNCHANGED crypts /\ (UNCHANGED secrets \/ Returns(w))
    BY <1>5, SyncSteps
  <2>2. ASSUME job[w] # NoJob, job[w].pc \in {"fetch", "create", "update"},
               WriteSecret(job[w])
        PROVE  secrets'[s] = secrets[s] \/ WrittenFor(<<n, def.name>>, def, k)'
                 \/ OnTheWay(k, n, def)'
    <3>1. CASE Target(job[w]) = s
      BY <2>1, <2>2, <3>1, WriteLands DEF s
    <3>2. CASE Target(job[w]) # s
      BY <1>1, <2>2, <3>2 DEF WriteSecret, TypeInv, TypeOK
    <3> QED BY <3>1, <3>2
  <2> QED BY <2>1, <2>2 DEF Returns, Goes
<1> QED BY <1>3, <1>4, <1>5 DEF SecretStep, OnTheWay

\* A namespace that appears is announced, or every sync is yet to come.
LEMMA NewcomerLeads ==
  ASSUME TypeInv, CryptsFollowed, EarlyDue, CryptStep, NamespaceStep,
         NEW k \in Crypts, Exists(k), crypts'[k] # NoCrypt,
         NEW n \in Namespaces, n \notin namespaces, n \in namespaces', NEW def
  PROVE  OnTheWay(k, n, def)'
<1>1. PICK m \in Namespaces : CreateNamespace(m) \/ DeleteNamespace(m)
  BY DEF NamespaceStep, Crash, ListNamespaces, NamespaceEvent, clusterVars
<1>2. m = n /\ CreateNamespace(m)
  BY <1>1 DEF CreateNamespace, DeleteNamespace
<1>3. CASE "namespaces" \in synced
  <2> DEFINE e == [ns |-> n, present |-> TRUE]
  <2>1. nsWatch' = Append(nsWatch, e)
    BY <1>2, <1>3 DEF CreateNamespace, Publish
  <2>2. e.ns = n
    OBVIOUS
  <2> HIDE DEF e
  <2>3. /\ Len(nsWatch') = Len(nsWatch) + 1 /\ Len(nsWatch) \in Nat
        /\ nsWatch'[Len(nsWatch) + 1] = e
    BY <2>1, StreamsTyped, AppendAt
  <2>4. Len(nsWatch) + 1 \in 1..Len(nsWatch')
    BY <2>3
  <2>5. NsOnWatch(n)'
    BY <2>2, <2>3, <2>4 DEF NsOnWatch
  <2> QED BY <2>5 DEF OnTheWay, Arriving
<1>4. CASE "namespaces" \notin synced
  BY <1>4, InformersAssumption, EarlyLeads DEF OnTheWay, Ready
<1> QED BY <1>3, <1>4

LEMMA ProvidedStays ==
  ASSUME TypeInv, HistoryInv, Independent, CryptsFollowed, NamespacesFollowed, EarlyDue,
         StaleDue, OnlyOurs, StoreReadable, Provided, NamespacesFollowed', EarlyDue',
         CryptStep, NamespaceStep, DeletionStep, SecretStep, JobStep, ~moves'.faulty
  PROVE  Provided'
<1> SUFFICES ASSUME NEW k \in Crypts, NEW n \in Namespaces, NEW d \in Nat,
                    NEW def \in SecretDefs, Wants(k, n, d)',
                    def = crypts'[k].spec.secrets[d]
             PROVE  WrittenFor(<<n, def.name>>, def, k)' \/ OnTheWay(k, n, def)'
  BY DEF Provided
<1>1. crypts'[k] # NoCrypt /\ n \in namespaces'
  BY DEF Wants, Exists
<1>2. CASE crypts'[k] # crypts[k]
  BY <1>1, <1>2, DueLeads
<1>3. CASE crypts'[k] = crypts[k] /\ n \notin namespaces
  BY <1>1, <1>3, NewcomerLeads DEF Exists
<1>4. CASE crypts'[k] = crypts[k] /\ n \in namespaces
  <2>1. Wants(k, n, d) /\ Exists(k) /\ def = crypts[k].spec.secrets[d]
    BY <1>4 DEF Wants, Exists
  <2>2. CASE WrittenFor(<<n, def.name>>, def, k)
    BY <1>4, <2>1, <2>2, WrittenStays
  <2>3. CASE Due(k)
    BY <1>1, <2>3, DueLeads
  <2>4. CASE Removed(k)
    BY <1>4, <2>1, <2>4, RemovedStays
  <2>5. CASE Arriving(n)
    BY <1>4, <2>1, <2>5, ArrivingStays
  <2>6. CASE Working(k, n, def)
    BY <1>1, <1>4, <2>1, <2>6, WorkingStays
  <2> QED BY <2>1, <2>2, <2>3, <2>4, <2>5, <2>6 DEF Provided, OnTheWay
<1> QED BY <1>2, <1>3, <1>4
-----------------------------------------------------------------------------
(* The theorem. *)

LEMMA InitSettling == HistoryInit => SettlingInv
<1> SUFFICES ASSUME HistoryInit PROVE SettlingInv
  OBVIOUS
<1>1. CryptsFollowed /\ NamespacesFollowed /\ EarlyDue
  BY DEF HistoryInit, Init, ProcessInit, CryptsFollowed, NamespacesFollowed, EarlyDue,
     Exists
<1>2. StaleDue /\ OnlyOurs /\ StoreReadable
  BY DEF HistoryInit, Init, ProcessInit, StaleDue, OnlyOurs, StoreReadable
<1>3. Provided
  BY DEF HistoryInit, Init, Provided, Wants, Exists
<1> QED BY <1>1, <1>2, <1>3 DEF SettlingInv

LEMMA NextSettling ==
  ASSUME TypeInv, HeldInv, HistoryInv, SettlingInv, [HistoryNext]_historyVars
  PROVE  SettlingInv'
<1> SUFFICES ASSUME Calm' PROVE SettlingInv'
  BY DEF SettlingInv
<1>1. [Next]_vars /\ asked \subseteq asked'
  BY DEF HistoryNext, historyVars
<1>2. TypeInv'
  BY <1>1, NextTyped
<1>3. ~moves'.faulty
  BY DEF Calm
<1>4. /\ ~moves.faulty
      /\ CryptStep /\ NamespaceStep /\ DeletionStep /\ SecretStep /\ JobStep
      /\ StoreReadable => StoreReadable'
  BY <1>1, <1>3, CalmSteps
<1>5. Independent
  BY <1>1 DEF Calm, Independent
<1>6. /\ CryptsFollowed /\ NamespacesFollowed /\ EarlyDue /\ StaleDue
      /\ OnlyOurs /\ StoreReadable /\ Provided
  BY <1>4, <1>5 DEF SettlingInv, Calm
<1>7. CryptsFollowed' /\ NamespacesFollowed'
  BY <1>4, <1>6, CryptsStayFollowed, NamespacesStayFollowed
<1>8. EarlyDue'
  BY <1>2, <1>4, <1>6, EarlyStaysDue
<1>9. StaleDue'
  BY <1>3, <1>4, <1>6, StaleStaysDue
<1>10. OnlyOurs'
  BY <1>1, <1>3, <1>4, <1>6, OursStayOurs
<1>11. Provided'
  BY <1>3, <1>4, <1>5, <1>6, <1>7, <1>8, ProvidedStays
<1> QED BY <1>4, <1>6, <1>7, <1>8, <1>9, <1>10, <1>11 DEF SettlingInv

LEMMA ElementAt ==
  ASSUME NEW S, NEW s \in Seq(S), NEW e \in ToSet(s)
  PROVE  \E i \in 1..Len(s) : s[i] = e
<1>1. DOMAIN s = 1..Len(s)
  OBVIOUS
<1> QED BY <1>1 DEF ToSet

\* What is on the way is pending.
LEMMA ProvidedSettles ==
  ASSUME TypeInv, KeysHeld, Provided
  PROVE  Settled
<1> SUFFICES ASSUME NEW k \in Crypts, crypts[k] # NoCrypt, ~Pending(k),
                    NEW nd \in Wanted(k)
             PROVE  WrittenFor(<<nd[1], nd[2].name>>, nd[2], k)
  BY DEF Settled
<1> DEFINE n == nd[1]
           def == nd[2]
           spec == crypts[k].spec
<1>1. /\ n \in namespaces /\ n \in Namespaces /\ def \in ToSet(spec.secrets)
      /\ \E p \in ToSet(spec.patterns) : n \in Matches[p]
  BY DEF Wanted, TypeInv, TypeOK
<1>2. spec.secrets \in Seq(SecretDefs) /\ spec.patterns \in Seq(Patterns)
  BY DEF TypeInv, TypeOK, Crypt, SpecType
<1> HIDE DEF spec, def
<1>3. PICK d \in 1..Len(spec.secrets) : spec.secrets[d] = def
  BY <1>1, <1>2, ElementAt
<1>4. \E p \in 1..Len(spec.patterns) : n \in Matches[spec.patterns[p]]
  BY <1>1, <1>2, ElementAt
<1> USE DEF spec, def
<1>5. def \in SecretDefs /\ d \in Nat
  BY <1>2, <1>3
<1>6. Wants(k, n, d)
  BY <1>1, <1>3, <1>4 DEF Wants, Exists
<1>7. WrittenFor(<<n, def.name>>, def, k) \/ OnTheWay(k, n, def)
  <2> HIDE DEF n, def
  <2> QED BY <1>1, <1>3, <1>5, <1>6 DEF Provided
<1>8. ~Due(k)
  <2>1. ASSUME OnWatch(k) PROVE \E e \in ToSet(cryptWatch) : e.key = k
    <3>1. PICK i \in 1..Len(cryptWatch) : cryptWatch[i].key = k
      BY <2>1 DEF OnWatch
    <3>2. cryptWatch[i] \in ToSet(cryptWatch)
      BY <3>1, StreamsTyped DEF ToSet
    <3> QED BY <3>1, <3>2
  <2> QED BY <2>1, InformersAssumption DEF Due, Pending, Ready
<1>9. ~Removed(k) /\ ~Arriving(n)
  BY StreamsTyped DEF Removed, Arriving, NsOnWatch, Pending, Ready
<1>10. ~Working(k, n, def)
  BY DEF Working, KeysHeld, Pending
<1> QED BY <1>7, <1>8, <1>9, <1>10 DEF OnTheWay

\* As long as no call has failed and no watch was broken, crypts that share
\* neither home nor name nor secret are provisioned by the events alone: when
\* nothing is pending for one, each secret it asks for exists in each namespace
\* it matches, whatever raced with its syncs.
THEOREM EventsSettle == HistorySpec => []SettledByEvents
<1>1. HistoryInit => TypeInv /\ HeldInv
  BY InitTyped, InitHeld DEF HistoryInit
<1>2. [HistoryNext]_historyVars => [Next]_vars
  BY DEF HistoryNext, historyVars
<1>3. TypeInv /\ HeldInv /\ [Next]_vars => HeldInv'
  BY NextHeld
<1>4. TypeInv /\ HistoryInv /\ [HistoryNext]_historyVars => HistoryInv'
  BY NextHistory
<1>5. TypeInv /\ HeldInv /\ HistoryInv /\ SettlingInv /\ [HistoryNext]_historyVars =>
        SettlingInv'
  BY NextSettling
<1>6. TypeInv /\ HeldInv /\ SettlingInv => SettledByEvents
  BY ProvidedSettles DEF SettlingInv, Calm, SettledByEvents, HeldInv
<1> QED BY <1>1, <1>2, <1>3, <1>4, <1>5, <1>6, NextTyped, InitHistory, InitSettling,
           PTL DEF HistorySpec
=============================================================================

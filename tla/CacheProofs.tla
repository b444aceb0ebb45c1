----------------------------- MODULE CacheProofs ----------------------------
(***************************************************************************)
(* What a reader of an informer's cache relies on: the cache is told of    *)
(* everything and never goes back (Reflector), and what a reader copies    *)
(* from it is its own (DeepCopy).  For any objects and changes, and any    *)
(* lists and holders.                                                      *)
(***************************************************************************)
EXTENDS Reflector, DeepCopy, TLAPS, WellFoundedInduction

Object == [uid : Nat, edit : Nat]
States == [Names -> Object]

\* What is queued for n, after what is cached.
Shown(n, i) == IF i = 0 THEN cache[n] ELSE deltas[n][i]

ReflectorTyped ==
  /\ states \in Seq(States) /\ Now > 0
  /\ oldest \in 1..Now
  /\ pc \in {"list", "watch", "watching"}
  /\ version \in 0..Now
  /\ pc # "list" => version > 0
  /\ deltas \in [Names -> Seq(Object)]
  /\ cache \in States

\* Unless one of them is absent, b is no older than a.
Follows(a, b) == a # Absent /\ b # Absent => NotOlder(a, b)

\* The server's history goes forward, a UID is older than the state it is in, and
\* so it is in the cache and behind it: each delta follows those before it, and
\* what the reflector has yet to see follows them all.
InOrder ==
  /\ \A n \in Names : \A v \in 1..Now :
       /\ states[v][n].uid < v
       /\ \A w \in v..Now : Follows(states[v][n], states[w][n])
  /\ \A n \in Names : \A i \in 0..Len(deltas[n]) :
       /\ Shown(n, i).uid < Now
       /\ \A j \in i..Len(deltas[n]) : Follows(Shown(n, i), Shown(n, j))
       /\ \A v \in 1..Now : version <= v => Follows(Shown(n, i), states[v][n])

ReflectorInv == ReflectorTyped /\ InOrder /\ NothingLost

LEMMA AbsentTyped == Absent \in Object /\ Absent.uid = 0
BY DEF Absent, Object

\* The order is that of pairs of numbers.
LEMMA FollowsReflexive == ASSUME NEW a \in Object PROVE Follows(a, a)
BY DEF Follows, NotOlder, Object

\* The last of a sequence is its last element, also when it was appended.
LEMMA LastAppended ==
  ASSUME NEW S, NEW s \in Seq(S), NEW x \in S
  PROVE  /\ Append(s, x) \in Seq(S) /\ Append(s, x) # <<>>
         /\ Last(Append(s, x)) = x
         /\ Len(Append(s, x)) = Len(s) + 1
         /\ Append(s, x)[Len(s) + 1] = x
         /\ \A i \in 1..Len(s) : Append(s, x)[i] = s[i]
BY DEF Last

\* A change adds a version and leaves the earlier ones as they were.
LEMMA ChangeAppends ==
  ASSUME ReflectorTyped, NEW n \in Names, NEW object \in Object, Change(n, object)
  PROVE  /\ states' \in Seq(States) /\ Now' = Now + 1
         /\ \A v \in 1..Now : states'[v] = states[v]
         /\ states'[Now + 1] = [Current EXCEPT ![n] = object]
         /\ states'[Now + 1] \in States
         /\ UNCHANGED <<oldest, pc, version, unheeded, deltas, cache>>
<1>1. [Current EXCEPT ![n] = object] \in States
  BY DEF ReflectorTyped, Current, Now, States
<1> QED BY <1>1 DEF ReflectorTyped, Change, Now, reflectorVars

\* What is new follows the state before it and all that came earlier.
LEMMA ChangeKeepsInv ==
  ASSUME ReflectorInv, NEW n \in Names, NEW object \in Object, Change(n, object),
         object.uid <= Now,
         Current[n] # Absent => Follows(Current[n], object) /\ object.uid <= Current[n].uid,
         Current[n] = Absent => object.uid = Now
  PROVE  ReflectorInv'
<1> USE DEF ReflectorInv
<1>1. /\ states' \in Seq(States) /\ Now' = Now + 1
      /\ \A v \in 1..Now : states'[v] = states[v]
      /\ states'[Now + 1] = [Current EXCEPT ![n] = object]
      /\ states'[Now + 1] \in States
      /\ UNCHANGED <<oldest, pc, version, unheeded, deltas, cache>>
  BY ChangeAppends
<1>2. Now \in Nat /\ Now > 0 /\ Current \in States /\ Current = states[Now]
  BY DEF ReflectorTyped, Current, Now
<1>3. ReflectorTyped'
  BY <1>1, <1>2 DEF ReflectorTyped
<1>4. NothingLost'
  BY <1>1, <1>2 DEF NothingLost, Told, ReflectorTyped
<1>5. ASSUME NEW m \in Names, NEW a \in Object, a.uid < Now, Follows(a, Current[m])
      PROVE  Follows(a, states'[Now + 1][m])
  <2>1. CASE m # n
    <3>1. states'[Now + 1][m] = Current[m]
      BY <1>1, <1>2, <2>1 DEF States
    <3> QED BY <1>5, <3>1
  <2>2. CASE m = n
    <3>1. states'[Now + 1][m] = object
      BY <1>1, <1>2, <2>2 DEF States
    <3>2. Current[n] \in Object
      BY <1>2 DEF States
    <3>3. CASE Current[n] = Absent
      BY <1>2, <1>5, <3>1, <3>3 DEF Follows, NotOlder, Object
    <3>4. CASE Current[n] # Absent
      BY <1>2, <1>5, <2>2, <3>1, <3>2, <3>4 DEF Follows, NotOlder, Object
    <3> QED BY <3>3, <3>4
  <2> QED BY <2>1, <2>2
<1>6. ASSUME NEW m \in Names, NEW v \in 1..Now
      PROVE  /\ states'[v][m] = states[v][m] /\ states[v][m] \in Object
             /\ states[v][m].uid < v
             /\ \A w \in v..Now : Follows(states[v][m], states[w][m])
  BY <1>1, <1>2 DEF InOrder, ReflectorTyped, States, Now
<1>7. ASSUME NEW m \in Names
      PROVE  /\ states'[Now + 1][m] \in Object
             /\ states'[Now + 1][m].uid < Now + 1
             /\ \A v \in 1..Now : Follows(states'[v][m], states'[Now + 1][m])
             /\ Follows(states'[Now + 1][m], states'[Now + 1][m])
  <2>1. states'[Now + 1][m] \in Object
    BY <1>1 DEF States
  <2>2. states'[Now + 1][m].uid < Now + 1
    <3>1. Current[m] \in Object /\ Current[m].uid < Now
      BY <1>2, <1>6
    <3>2. states'[Now + 1][m] = IF m = n THEN object ELSE Current[m]
      BY <1>1, <1>2 DEF States
    <3> QED BY <1>2, <3>1, <3>2 DEF Object
  <2>3. ASSUME NEW v \in 1..Now PROVE Follows(states'[v][m], states'[Now + 1][m])
    <3>1. states[v][m].uid < Now /\ Follows(states[v][m], Current[m])
      BY <1>2, <1>6 DEF Object
    <3> QED BY <1>5, <1>6, <3>1
  <2> QED BY <2>1, <2>2, <2>3, FollowsReflexive
<1>8. ASSUME NEW m \in Names, NEW i \in 0..Len(deltas[m])
      PROVE  /\ Shown(m, i)' = Shown(m, i) /\ Shown(m, i) \in Object
             /\ Shown(m, i).uid < Now
             /\ \A j \in i..Len(deltas[m]) : Follows(Shown(m, i), Shown(m, j))
             /\ \A v \in 1..Now : version <= v => Follows(Shown(m, i), states[v][m])
             /\ Follows(Shown(m, i), states'[Now + 1][m])
  <2>1. Shown(m, i)' = Shown(m, i) /\ Shown(m, i) \in Object
    BY <1>1 DEF Shown, ReflectorTyped, States
  <2>2. /\ Shown(m, i).uid < Now
        /\ \A j \in i..Len(deltas[m]) : Follows(Shown(m, i), Shown(m, j))
        /\ \A v \in 1..Now : version <= v => Follows(Shown(m, i), states[v][m])
    BY DEF InOrder
  <2>3. Follows(Shown(m, i), Current[m])
    BY <1>2, <2>2 DEF ReflectorTyped
  <2> QED BY <1>5, <2>1, <2>2, <2>3
<1>9. InOrder'
  <2>1. ASSUME NEW m \in Names, NEW v \in 1..(Now + 1)
        PROVE  /\ states'[v][m].uid < v
               /\ \A w \in v..(Now + 1) : Follows(states'[v][m], states'[w][m])
    <3>1. CASE v = Now + 1
      BY <1>2, <1>7, <3>1
    <3>2. CASE v \in 1..Now
      <4>1. ASSUME NEW w \in v..(Now + 1) PROVE Follows(states'[v][m], states'[w][m])
        <5>1. CASE w = Now + 1
          BY <1>7, <3>2, <5>1
        <5>2. CASE w \in v..Now
          BY <1>2, <1>6, <3>2, <5>2
        <5> QED BY <1>2, <5>1, <5>2
      <4> QED BY <1>6, <3>2, <4>1
    <3> QED BY <1>2, <3>1, <3>2
  <2>2. ASSUME NEW m \in Names, NEW i \in 0..Len(deltas[m])
        PROVE  /\ Shown(m, i)'.uid < Now + 1
               /\ \A j \in i..Len(deltas[m]) : Follows(Shown(m, i)', Shown(m, j)')
               /\ \A v \in 1..(Now + 1) : version <= v => Follows(Shown(m, i)', states'[v][m])
    <3>0. Len(deltas[m]) \in Nat
      BY DEF ReflectorTyped
    <3>1. Shown(m, i)'.uid < Now + 1
      BY <1>2, <1>8 DEF Object
    <3>2. \A j \in i..Len(deltas[m]) : Follows(Shown(m, i)', Shown(m, j)')
      BY <1>8, <3>0
    <3>3. ASSUME NEW v \in 1..(Now + 1), version <= v
          PROVE  Follows(Shown(m, i)', states'[v][m])
      <4>1. CASE v = Now + 1
        BY <1>8, <4>1
      <4>2. CASE v \in 1..Now
        BY <1>6, <1>8, <3>3, <4>2
      <4> QED BY <1>2, <4>1, <4>2
    <3> QED BY <3>1, <3>2, <3>3
  <2>3. Now' = Now + 1 /\ UNCHANGED <<version, deltas>>
    BY <1>1
  <2> HIDE DEF Shown
  <2> QED BY <2>1, <2>2, <2>3 DEF InOrder
<1> QED BY <1>3, <1>4, <1>9

\* What users change at the server leaves the cache as it was.
LEMMA ServerSteps ==
  ASSUME ReflectorInv, NEW n \in Names, Create(n) \/ Update(n) \/ Delete(n)
  PROVE  ReflectorInv'
<1>1. /\ Now \in Nat /\ Now > 0 /\ Current[n] \in Object
      /\ Current[n].uid < Now
  BY DEF ReflectorInv, ReflectorTyped, InOrder, Current, Now, States
<1>2. CASE Create(n)
  <2> DEFINE object == [uid |-> Now, edit |-> 0]
  <2>1. object \in Object /\ object.uid = Now /\ Current[n] = Absent /\ Change(n, object)
    BY <1>1, <1>2 DEF Create, Object
  <2> HIDE DEF object
  <2> QED BY <1>1, <2>1, ChangeKeepsInv
<1>3. CASE Update(n)
  <2> DEFINE object == [Current[n] EXCEPT !.edit = @ + 1]
  <2>1. Change(n, object) /\ Current[n] # Absent
    BY <1>3 DEF Update
  <2>2. object \in Object /\ object.uid = Current[n].uid /\ object.edit = Current[n].edit + 1
    BY <1>1 DEF Object
  <2> HIDE DEF object
  <2>3. Follows(Current[n], object) /\ object.uid <= Now /\ object.uid <= Current[n].uid
    BY <1>1, <2>2 DEF Follows, NotOlder, Object
  <2> QED BY <2>1, <2>2, <2>3, ChangeKeepsInv
<1>4. CASE Delete(n)
  <2>1. Change(n, Absent) /\ Current[n] # Absent
    BY <1>4 DEF Delete
  <2>2. Follows(Current[n], Absent) /\ Absent.uid <= Now /\ Absent.uid <= Current[n].uid
    BY <1>1, AbsentTyped DEF Follows, Object
  <2> QED BY <2>1, <2>2, AbsentTyped, ChangeKeepsInv
<1> QED BY <1>2, <1>3, <1>4

\* The objects that are told of at version v make the FIFO longer by what they
\* are at v, or leave it as it is.
LEMMA ToldInOrder ==
  ASSUME ReflectorTyped, InOrder, NEW v \in 1..Now, version <= v,
         UNCHANGED <<states, cache>>, version' = v,
         deltas' \in [Names -> Seq(Object)],
         \A n \in Names : deltas'[n] \in {deltas[n], Append(deltas[n], states[v][n])}
  PROVE  InOrder'
<1>1. Now \in Nat /\ Now' = Now
  BY DEF ReflectorTyped, Now
<1>2. ASSUME NEW n \in Names
      PROVE  /\ deltas[n] \in Seq(Object) /\ Len(deltas[n]) \in Nat
             /\ states[v][n] \in Object /\ states[v][n].uid < Now
             /\ \A w \in v..Now : Follows(states[v][n], states[w][n])
  <2>1. deltas[n] \in Seq(Object) /\ states[v] \in States
    BY DEF ReflectorTyped, Now
  <2>2. /\ states[v][n].uid < v
        /\ \A w \in v..Now : Follows(states[v][n], states[w][n])
    BY DEF InOrder
  <2>3. states[v][n] \in Object /\ v <= Now
    BY <1>1, <2>1 DEF States
  <2> QED BY <1>1, <2>1, <2>2, <2>3 DEF Object
<1>3. ASSUME NEW n \in Names, NEW i \in 0..Len(deltas'[n])
      PROVE  /\ Shown(n, i)'.uid < Now
             /\ \A j \in i..Len(deltas'[n]) : Follows(Shown(n, i)', Shown(n, j)')
             /\ \A w \in 1..Now : v <= w => Follows(Shown(n, i)', states[w][n])
  <2>1. ASSUME NEW j \in 0..Len(deltas[n])
        PROVE  /\ Shown(n, j)' = Shown(n, j)
               /\ Shown(n, j).uid < Now
               /\ \A l \in j..Len(deltas[n]) : Follows(Shown(n, j), Shown(n, l))
               /\ \A w \in 1..Now : v <= w => Follows(Shown(n, j), states[w][n])
    <3>1. deltas'[n] = deltas[n] \/ deltas'[n] = Append(deltas[n], states[v][n])
      OBVIOUS
    <3>2. Shown(n, j)' = Shown(n, j)
      <4>1. CASE j = 0
        BY <4>1 DEF Shown
      <4>2. CASE j \in 1..Len(deltas[n])
        <5>1. deltas'[n][j] = deltas[n][j]
          BY <1>2, <3>1, <4>2, LastAppended
        <5> QED BY <1>2, <4>2, <5>1 DEF Shown
      <4> QED BY <1>2, <4>1, <4>2
    <3>3. \A w \in 1..Now : v <= w => version <= w
      BY <1>1 DEF ReflectorTyped
    <3> QED BY <3>2, <3>3 DEF InOrder
  <2>2. CASE deltas'[n] = deltas[n]
    <3>1. i \in 0..Len(deltas[n]) /\ \A j \in i..Len(deltas[n]) : j \in 0..Len(deltas[n])
      BY <1>2, <2>2
    <3> HIDE DEF Shown
    <3> QED BY <2>1, <2>2, <3>1
  <2>3. CASE deltas'[n] = Append(deltas[n], states[v][n])
    <3>0. PICK L \in Nat : L = Len(deltas[n])
      BY <1>2
    <3>1. L \in Nat /\ Len(deltas'[n]) = L + 1 /\ Shown(n, L + 1)' = states[v][n]
      <4>1. /\ Len(Append(deltas[n], states[v][n])) = L + 1
            /\ Append(deltas[n], states[v][n])[L + 1] = states[v][n]
        BY <1>2, <3>0, LastAppended
      <4> QED BY <2>3, <3>0, <4>1 DEF Shown
    <3>2. CASE i = L + 1
      BY <1>1, <1>2, <3>1, <3>2, FollowsReflexive
    <3>3. CASE i \in 0..L
      <4>1. ASSUME NEW j \in i..(L + 1) PROVE Follows(Shown(n, i)', Shown(n, j)')
        <5>1. CASE j = L + 1
          BY <1>1, <2>1, <3>0, <3>1, <3>3, <5>1
        <5>2. CASE j \in i..L
          BY <2>1, <3>0, <3>1, <3>3, <5>2
        <5> QED BY <3>1, <5>1, <5>2
      <4> QED BY <2>1, <3>0, <3>1, <3>3, <4>1
    <3> QED BY <3>1, <3>2, <3>3
  <2> QED BY <2>2, <2>3
<1>4. \A n \in Names : \A w \in 1..Now :
        /\ states'[w][n].uid < w
        /\ \A x \in w..Now : Follows(states'[w][n], states'[x][n])
  BY DEF InOrder
<1> HIDE DEF Shown
<1> QED BY <1>1, <1>3, <1>4 DEF InOrder

\* What is queued is what was told, but for what is ignored.
LEMMA ReplacedTells ==
  ASSUME ReflectorTyped, NEW v \in 1..Now, NEW n \in Names
  PROVE  /\ Replaced(states[v])[n] \in {deltas[n], Append(deltas[n], states[v][n])}
         /\ ~Ignored(n, states[v][n]) =>
              states[v][n] = IF Replaced(states[v])[n] = <<>> THEN cache[n]
                             ELSE Last(Replaced(states[v])[n])
<1>1. states[v][n] \in Object /\ deltas[n] \in Seq(Object)
  BY DEF ReflectorTyped, States, Now
<1>2. PICK object \in Object : object = states[v][n]
  BY <1>1
<1>3. Replaced(states[v])[n] = IF object # Absent THEN Synced(n, object)
                               ELSE IF cache[n] # Absent THEN Queued(n, Absent)
                               ELSE deltas[n]
  BY <1>2 DEF Replaced
<1>4. Last(Append(deltas[n], object)) = object /\ Append(deltas[n], object) # <<>>
  BY <1>1, LastAppended
<1> QED BY <1>2, <1>3, <1>4 DEF Synced, Queued, Ignored, WillBeDeleted

\* The list replaces all that is cached by all that it holds.
LEMMA ListSteps ==
  ASSUME ReflectorInv, NEW v \in 1..Now, List(v)
  PROVE  ReflectorInv'
<1> USE DEF ReflectorInv
<1>1. /\ UNCHANGED <<states, oldest, cache>> /\ version' = v /\ pc' = "watch"
      /\ deltas' = Replaced(states[v]) /\ version <= v
      /\ unheeded' = (unheeded \/ \E n \in Names : Ignored(n, states[v][n]))
  BY DEF List, serverVars, ReflectorTyped, Now
<1>2. deltas' \in [Names -> Seq(Object)]
  <2>1. ASSUME NEW n \in Names PROVE Replaced(states[v])[n] \in Seq(Object)
    <3>1. states[v][n] \in Object /\ deltas[n] \in Seq(Object)
      BY DEF ReflectorTyped, States, Now
    <3>2. Append(deltas[n], states[v][n]) \in Seq(Object)
      BY <3>1, LastAppended
    <3> QED BY <3>1, <3>2, ReplacedTells
  <2>2. Replaced(states[v]) = [n \in Names |-> Replaced(states[v])[n]]
    BY DEF Replaced
  <2> QED BY <1>1, <2>1, <2>2
<1>3. ReflectorTyped'
  BY <1>1, <1>2 DEF ReflectorTyped, Now
<1>4. InOrder'
  BY <1>1, <1>2, ReplacedTells, ToldInOrder
<1>5. NothingLost'
  BY <1>1, ReplacedTells DEF NothingLost, Told
<1> QED BY <1>3, <1>4, <1>5

\* An event is the difference of two consecutive versions.
LEMMA EventSteps ==
  ASSUME ReflectorInv, NEW n \in Names, Event(n)
  PROVE  ReflectorInv'
<1> USE DEF ReflectorInv
<1>1. /\ version > 0 /\ version \in 1..Now /\ version + 1 \in 1..Now
      /\ UNCHANGED <<states, oldest, pc, unheeded, cache>> /\ version' = version + 1
      /\ deltas' = [deltas EXCEPT ![n] = Queued(n, states[version + 1][n])]
      /\ \A m \in Names \ {n} : states[version][m] = states[version + 1][m]
  BY DEF Event, serverVars, ReflectorTyped, Now
<1>2. PICK object \in Object : object = states[version + 1][n]
  BY <1>1 DEF ReflectorTyped, States, Now
<1>3. /\ deltas[n] \in Seq(Object)
      /\ Append(deltas[n], object) \in Seq(Object) /\ Append(deltas[n], object) # <<>>
      /\ Last(Append(deltas[n], object)) = object
  BY LastAppended DEF ReflectorTyped
<1>4. /\ deltas'[n] = IF object = Absent /\ WillBeDeleted(n) THEN deltas[n]
                      ELSE Append(deltas[n], object)
      /\ \A m \in Names \ {n} : deltas'[m] = deltas[m]
      /\ deltas' \in [Names -> Seq(Object)]
  BY <1>1, <1>2, <1>3 DEF ReflectorTyped, Queued
<1>5. ReflectorTyped'
  BY <1>1, <1>4 DEF ReflectorTyped, Now
<1>6. InOrder'
  <2>1. \A m \in Names :
          deltas'[m] \in {deltas[m], Append(deltas[m], states[version + 1][m])}
    BY <1>2, <1>4
  <2>2. version <= version + 1
    BY <1>1 DEF ReflectorTyped
  <2> QED BY <1>1, <1>4, <2>1, <2>2, ToldInOrder
<1>7. NothingLost'
  <2> SUFFICES ASSUME ~unheeded, NEW m \in Names
               PROVE  Told(m)' = states[version + 1][m]
    BY <1>1 DEF NothingLost
  <2>1. CASE m = n
    BY <1>2, <1>3, <1>4, <2>1 DEF Told, WillBeDeleted
  <2>2. CASE m # n
    <3>1. states[version + 1][m] = states[version][m]
      BY <1>1, <2>2 DEF NothingLost
    <3> QED BY <1>1, <1>4, <2>2, <3>1 DEF NothingLost, Told
  <2> QED BY <2>1, <2>2
<1> QED BY <1>5, <1>6, <1>7

\* The goroutine of the informer moves what was queued first into the cache.
LEMMA HandleDeltaSteps ==
  ASSUME ReflectorInv, NEW n \in Names, HandleDelta(n)
  PROVE  ReflectorInv'
<1> USE DEF ReflectorInv
<1>1. /\ UNCHANGED <<states, oldest, pc, version, unheeded>>
      /\ deltas[n] \in Seq(Object) /\ deltas[n] # <<>>
      /\ cache' = [cache EXCEPT ![n] = Head(deltas[n])]
      /\ deltas' = [deltas EXCEPT ![n] = Tail(deltas[n])]
  BY DEF HandleDelta, serverVars, reflectorVars, ReflectorTyped
<1>2. PICK L \in Nat : L = Len(deltas[n])
  BY <1>1
<1>3. /\ L > 0 /\ Head(deltas[n]) = deltas[n][1] /\ Head(deltas[n]) \in Object
      /\ Tail(deltas[n]) \in Seq(Object) /\ Len(Tail(deltas[n])) = L - 1
      /\ \A i \in 1..(L - 1) : Tail(deltas[n])[i] = deltas[n][i + 1]
  BY <1>1, <1>2
<1>4. /\ cache'[n] = deltas[n][1] /\ deltas'[n] = Tail(deltas[n])
      /\ \A m \in Names \ {n} : cache'[m] = cache[m] /\ deltas'[m] = deltas[m]
      /\ cache' \in States /\ deltas' \in [Names -> Seq(Object)]
  BY <1>1, <1>3 DEF ReflectorTyped, States
<1>5. ReflectorTyped'
  BY <1>1, <1>4 DEF ReflectorTyped, Now
<1>6. ASSUME NEW i \in 0..(L - 1) PROVE Shown(n, i)' = Shown(n, i + 1)
  <2>1. CASE i = 0
    BY <1>4, <2>1 DEF Shown
  <2>2. CASE i \in 1..(L - 1)
    BY <1>2, <1>3, <1>4, <2>2 DEF Shown
  <2> QED BY <1>2, <2>1, <2>2
<1>7. InOrder'
  <2>1. ASSUME NEW m \in Names, NEW i \in 0..Len(deltas'[m])
        PROVE  /\ Shown(m, i)'.uid < Now
               /\ \A j \in i..Len(deltas'[m]) : Follows(Shown(m, i)', Shown(m, j)')
               /\ \A v \in 1..Now : version <= v => Follows(Shown(m, i)', states[v][m])
    <3>1. CASE m = n
      <4>1. i \in 0..(L - 1) /\ i + 1 \in 0..L /\ Len(deltas'[m]) = L - 1
        BY <1>2, <1>3, <1>4, <3>1
      <4>2. /\ Shown(n, i + 1).uid < Now
            /\ \A j \in (i + 1)..L : Follows(Shown(n, i + 1), Shown(n, j))
            /\ \A v \in 1..Now : version <= v => Follows(Shown(n, i + 1), states[v][n])
        BY <1>2, <4>1 DEF InOrder
      <4>3. ASSUME NEW j \in i..(L - 1) PROVE Follows(Shown(n, i)', Shown(n, j)')
        <5>1. j + 1 \in (i + 1)..L /\ j \in 0..(L - 1)
          BY <1>2, <4>1
        <5> QED BY <1>6, <4>1, <4>2, <5>1
      <4> QED BY <1>6, <3>1, <4>1, <4>2, <4>3
    <3>2. CASE m # n
      <4>1. \A j \in 0..Len(deltas[m]) : Shown(m, j)' = Shown(m, j)
        BY <1>4, <3>2 DEF Shown
      <4>2. deltas'[m] = deltas[m] /\ Len(deltas[m]) \in Nat
        BY <1>4, <3>2 DEF ReflectorTyped
      <4>3. \A j \in i..Len(deltas[m]) : j \in 0..Len(deltas[m])
        BY <4>2
      <4> QED BY <4>1, <4>2, <4>3 DEF InOrder
    <3> QED BY <3>1, <3>2
  <2>2. Now' = Now
    BY <1>1 DEF Now
  <2>3. \A m \in Names : \A v \in 1..Now :
          /\ states[v][m].uid < v
          /\ \A w \in v..Now : Follows(states[v][m], states[w][m])
    BY DEF InOrder
  <2> HIDE DEF Shown
  <2> QED BY <1>1, <2>1, <2>2, <2>3 DEF InOrder
<1>8. ASSUME NEW m \in Names PROVE Told(m)' = Told(m)
  <2>1. CASE m # n
    BY <1>4, <2>1 DEF Told
  <2>2. CASE m = n
    <3>1. CASE L = 1
      BY <1>2, <1>3, <1>4, <2>2, <3>1 DEF Told, Last
    <3>2. CASE L > 1
      <4>1. PICK tail : tail = Tail(deltas[n])
        OBVIOUS
      <4>2. Len(tail) = L - 1 /\ tail # <<>> /\ tail[L - 1] = deltas[n][L]
        <5>1. tail \in Seq(Object) /\ Len(tail) = L - 1
          BY <1>3, <4>1
        <5>2. tail # <<>>
          BY <3>2, <5>1
        <5>3. L - 1 \in 1..(L - 1) /\ (L - 1) + 1 = L
          BY <1>2, <3>2
        <5>4. tail[L - 1] = deltas[n][(L - 1) + 1]
          BY <1>3, <4>1, <5>3
        <5> QED BY <5>1, <5>2, <5>3, <5>4
      <4>3. Last(tail) = deltas[n][L] /\ Last(deltas[n]) = deltas[n][L]
        BY <1>2, <4>2 DEF Last
      <4> QED BY <1>1, <1>4, <2>2, <4>1, <4>2, <4>3 DEF Told
    <3> QED BY <1>3, <3>1, <3>2
  <2> QED BY <2>1, <2>2
<1>9. NothingLost'
  BY <1>1, <1>8 DEF NothingLost
<1> QED BY <1>5, <1>7, <1>9

\* A resync says again what is cached, where nothing is queued.
LEMMA ResyncSteps ==
  ASSUME ReflectorInv, Resync
  PROVE  ReflectorInv'
<1> USE DEF ReflectorInv
<1>1. /\ UNCHANGED <<states, oldest, pc, version, unheeded, cache>>
      /\ \A m \in Names : deltas'[m] = IF cache[m] # Absent /\ deltas[m] = <<>>
                                       THEN <<cache[m]>> ELSE deltas[m]
      /\ DOMAIN deltas' = Names /\ deltas' = [m \in Names |-> deltas'[m]]
  BY DEF Resync, serverVars, reflectorVars
<1>2. ASSUME NEW m \in Names
      PROVE  /\ cache[m] \in Object /\ deltas[m] \in Seq(Object)
             /\ <<cache[m]>> \in Seq(Object) /\ Len(<<cache[m]>>) = 1
             /\ <<cache[m]>>[1] = cache[m] /\ Last(<<cache[m]>>) = cache[m]
             /\ <<cache[m]>> # <<>>
  BY DEF ReflectorTyped, States, Last
<1>3. deltas' \in [Names -> Seq(Object)]
  <2>1. \A m \in Names : deltas'[m] \in Seq(Object)
    BY <1>1, <1>2
  <2> QED BY <1>1, <2>1
<1>4. ReflectorTyped'
  BY <1>1, <1>3 DEF ReflectorTyped, Now
<1>5. ASSUME NEW m \in Names, NEW i \in 0..Len(deltas'[m])
      PROVE  /\ Shown(m, i)'.uid < Now
             /\ \A j \in i..Len(deltas'[m]) : Follows(Shown(m, i)', Shown(m, j)')
             /\ \A v \in 1..Now : version <= v => Follows(Shown(m, i)', states[v][m])
  <2>1. CASE deltas'[m] = deltas[m]
    <3>1. \A j \in 0..Len(deltas[m]) : Shown(m, j)' = Shown(m, j)
      BY <1>1, <2>1 DEF Shown
    <3>2. \A j \in i..Len(deltas[m]) : j \in 0..Len(deltas[m])
      BY <1>2
    <3> QED BY <2>1, <3>1, <3>2 DEF InOrder
  <2>2. CASE deltas'[m] = <<cache[m]>>
    <3>1. \A j \in 0..1 : Shown(m, j)' = cache[m]
      BY <1>1, <1>2, <2>2 DEF Shown
    <3>2. /\ cache[m].uid < Now
          /\ \A v \in 1..Now : version <= v => Follows(cache[m], states[v][m])
      <4>1. 0 \in 0..Len(deltas[m]) /\ Shown(m, 0) = cache[m]
        BY <1>2 DEF Shown
      <4> QED BY <4>1 DEF InOrder
    <3>3. Len(deltas'[m]) = 1 /\ i \in 0..1 /\ \A j \in i..1 : j \in 0..1
      BY <1>2, <2>2
    <3> QED BY <1>2, <3>1, <3>2, <3>3, FollowsReflexive
  <2> QED BY <1>1, <2>1, <2>2
<1>6. InOrder'
  <2>1. Now' = Now
    BY <1>1 DEF Now
  <2>2. \A m \in Names : \A v \in 1..Now :
          /\ states[v][m].uid < v
          /\ \A w \in v..Now : Follows(states[v][m], states[w][m])
    BY DEF InOrder
  <2> HIDE DEF Shown
  <2> QED BY <1>1, <1>5, <2>1, <2>2 DEF InOrder
<1>7. ASSUME NEW m \in Names PROVE Told(m)' = Told(m)
  BY <1>1, <1>2 DEF Told
<1>8. NothingLost'
  BY <1>1, <1>7 DEF NothingLost
<1> QED BY <1>4, <1>6, <1>8

\* Of what concerns neither objects, nor what is queued of them.
LEMMA QuietSteps ==
  ASSUME ReflectorInv, UNCHANGED <<states, version, unheeded, deltas, cache>>,
         oldest' \in 1..Now, pc' \in {"list", "watch", "watching"},
         pc' # "list" => version > 0
  PROVE  ReflectorInv'
<1> USE DEF ReflectorInv
<1>1. Now' = Now /\ \A n \in Names : Told(n)' = Told(n)
  BY DEF Now, Told
<1>2. \A n \in Names : \A i \in 0..Len(deltas[n]) : Shown(n, i)' = Shown(n, i)
  BY DEF Shown
<1>3. ReflectorTyped'
  BY <1>1 DEF ReflectorTyped
<1>4. NothingLost'
  BY <1>1 DEF NothingLost
<1>5. InOrder'
  BY <1>1 DEF InOrder, Shown
<1> QED BY <1>3, <1>4, <1>5

\* The invariant of the reflector, by induction over the steps.
LEMMA InvHolds == Spec => []ReflectorInv
<1>1. Init => ReflectorInv
  <2> SUFFICES ASSUME Init PROVE ReflectorInv
    OBVIOUS
  <2>1. /\ NoObjects \in States /\ \A n \in Names : NoObjects[n] = Absent
        /\ Absent \in Object /\ Absent.uid = 0
    BY AbsentTyped DEF NoObjects, States
  <2>2. states \in Seq(States) /\ Len(states) = 1 /\ states[1] = NoObjects
    BY <2>1 DEF Init
  <2>3. ReflectorTyped
    BY <2>1, <2>2 DEF Init, ReflectorTyped, Now
  <2>4. InOrder
    BY <2>1, <2>2 DEF Init, InOrder, Shown, Follows, Now
  <2>5. NothingLost
    BY DEF Init, NothingLost
  <2> QED BY <2>3, <2>4, <2>5 DEF ReflectorInv
<1>2. ASSUME ReflectorInv, [Next]_vars PROVE ReflectorInv'
  <2>0. ReflectorTyped /\ Now \in Nat
    BY <1>2 DEF ReflectorInv, ReflectorTyped, Now
  <2>1. ASSUME NEW n \in Names, Create(n) \/ Update(n) \/ Delete(n)
        PROVE  ReflectorInv'
    BY <1>2, <2>1, ServerSteps
  <2>2. ASSUME NEW v \in 1..Now, Compact(v) PROVE ReflectorInv'
    BY <1>2, <2>0, <2>2, QuietSteps DEF Compact, reflectorVars, ReflectorTyped
  <2>3. ASSUME NEW v \in 1..Now, List(v) PROVE ReflectorInv'
    BY <1>2, <2>3, ListSteps
  <2>4. CASE Watch
    BY <1>2, <2>0, <2>4, QuietSteps DEF Watch, serverVars, ReflectorTyped
  <2>5. ASSUME NEW n \in Names, Event(n) PROVE ReflectorInv'
    BY <1>2, <2>5, EventSteps
  <2>6. CASE Break
    BY <1>2, <2>0, <2>6, QuietSteps DEF Break, serverVars, ReflectorTyped
  <2>7. CASE Resync
    BY <1>2, <2>7, ResyncSteps
  <2>8. ASSUME NEW n \in Names, HandleDelta(n) PROVE ReflectorInv'
    BY <1>2, <2>8, HandleDeltaSteps
  <2>9. CASE UNCHANGED vars
    BY <1>2, <2>0, <2>9, QuietSteps
       DEF vars, serverVars, reflectorVars, ReflectorTyped
  <2> QED BY <1>2, <2>1, <2>2, <2>3, <2>4, <2>5, <2>6, <2>7, <2>8, <2>9 DEF Next
<1> QED BY <1>1, <1>2, PTL DEF Spec

\* The informer is told of every object as it was at the version its reflector
\* has reached, whatever watches broke and whatever is queued; unless the FIFO
\* ignored a part of a list.
THEOREM CacheLosesNothing == Spec => []NothingLost
<1>1. ReflectorInv => NothingLost
  BY DEF ReflectorInv
<1> QED BY <1>1, InvHolds, PTL

\* A lister never goes from an object back to what it was before.
THEOREM CacheNeverGoesBack == Spec => NeverBack
<1>1. ASSUME ReflectorInv, [Next]_vars, NEW n \in Names,
             cache[n] # Absent, cache'[n] # Absent
      PROVE  NotOlder(cache[n], cache'[n])
  <2>1. cache[n] \in Object /\ Len(deltas[n]) \in Nat
    BY <1>1 DEF ReflectorInv, ReflectorTyped, States
  <2>2. CASE cache' = cache
    BY <1>1, <2>1, <2>2 DEF NotOlder, Object
  <2>3. ASSUME NEW m \in Names, HandleDelta(m)
        PROVE  NotOlder(cache[n], cache'[n])
    <3>1. CASE m # n
      <4>1. cache'[n] = cache[n]
        BY <1>1, <2>3, <3>1 DEF HandleDelta, ReflectorInv, ReflectorTyped, States
      <4> QED BY <2>1, <4>1 DEF NotOlder, Object
    <3>2. CASE m = n
      <4>1. deltas[n] \in Seq(Object) /\ deltas[n] # <<>> /\ cache'[n] = Head(deltas[n])
        BY <1>1, <2>3, <3>2 DEF HandleDelta, ReflectorInv, ReflectorTyped, States
      <4>2. 1 \in 0..Len(deltas[n]) /\ Head(deltas[n]) = deltas[n][1]
        BY <4>1
      <4>3. Shown(n, 0) = cache[n] /\ Shown(n, 1) = cache'[n]
        BY <4>1, <4>2 DEF Shown
      <4>4. Follows(Shown(n, 0), Shown(n, 1))
        BY <1>1, <2>1, <4>2 DEF ReflectorInv, InOrder
      <4> QED BY <1>1, <4>3, <4>4 DEF Follows
    <3> QED BY <3>1, <3>2
  <2>4. ASSUME NEW m \in Names, Create(m) \/ Update(m) \/ Delete(m) \/ Event(m)
        PROVE  cache' = cache
    BY <2>4 DEF Create, Update, Delete, Change, Event
  <2>5. ASSUME NEW v \in 1..Now, Compact(v) \/ List(v) PROVE cache' = cache
    BY <2>5 DEF Compact, List
  <2>6. CASE Watch \/ Break \/ Resync
    BY <2>2, <2>6 DEF Watch, Break, Resync
  <2>7. CASE UNCHANGED vars
    BY <2>2, <2>7 DEF vars
  <2> QED BY <1>1, <2>2, <2>3, <2>4, <2>5, <2>6, <2>7 DEF Next
<1>2. ASSUME ReflectorInv, [Next]_vars
      PROVE  [\A n \in Names :
                cache[n] # Absent /\ cache'[n] # Absent
                  => NotOlder(cache[n], cache'[n])]_cache
  BY <1>1, <1>2
<1> QED BY <1>2, InvHolds, PTL DEF Spec, NeverBack
-----------------------------------------------------------------------------
(* Deep copies. *)

\* Every set of numbers has a least element, hence induction.
LEMMA Least ==
  ASSUME NEW T, T \subseteq Nat, T # {}
  PROVE  \E x \in T : \A y \in T : x <= y
<1>1. PICK R : R = OpToRel(<, Nat)
  OBVIOUS
<1>2. IsWellFoundedOn(R, Nat)
  BY <1>1, NatLessThanWellFounded
<1>3. \A x \in Nat, y \in Nat : x < y => <<x, y>> \in R
  BY <1>1 DEF OpToRel
<1>5. PICK x \in T : \A y \in T : ~ (<<y, x>> \in R)
  BY <1>2, WFMin
<1>6. ASSUME NEW y \in T PROVE x <= y
  <2>1. x \in Nat /\ y \in Nat
    OBVIOUS
  <2>2. ~(y < x)
   BY <1>5, <1>3, <2>1
  <2> QED BY <2>1, <2>2
<1> QED BY <1>6

\* What holds of 0, and of each next number, holds of all.
LEMMA Induction ==
  ASSUME NEW T, 0 \in T, \A n \in Nat : n \in T => n + 1 \in T
  PROVE  Nat \subseteq T
<1> SUFFICES ASSUME Nat \ T # {} PROVE FALSE
  OBVIOUS
<1>1. PICK x \in Nat \ T : \A y \in Nat \ T : x <= y
  BY Least
<1>2. x # 0 /\ x - 1 \in Nat /\ ~(x <= x - 1)
  BY <1>1
<1>3. x - 1 \in T
  BY <1>1, <1>2
<1>4. (x - 1) + 1 \in T
  BY <1>2, <1>3
<1> QED BY <1>1, <1>2, <1>4

-----------------------------------------------------------------------------
\* A heap of which the old cells, and their places, are what they were.
Grown(h, p, g, q) ==
  /\ Laid(g, q)
  /\ Len(h) <= Len(g)
  /\ \A a \in 1..Len(h) : g[a] = h[a] /\ q[a] = p[a]

\* Growing twice is growing, and so is not growing at all.
LEMMA GrowsOn ==
  ASSUME NEW h, NEW p, NEW g, NEW q, NEW f, NEW r, Laid(h, p),
         Grown(h, p, g, q), Grown(g, q, f, r)
  PROVE  Grown(h, p, f, r)
  BY DEF Grown, Laid

LEMMA GrownSelf ==
  ASSUME NEW h, NEW p, Laid(h, p)
  PROVE  Grown(h, p, h, p)
  BY DEF Grown, Laid

\* What refers to cells keeps doing so.
LEMMA TypesGrow ==
  ASSUME NEW h, NEW p, NEW g, NEW q, Laid(h, p), Grown(h, p, g, q), NEW v
  PROVE  /\ \A sort \in Sorts : Refs(p, v, sort) \subseteq Refs(q, v, sort)
         /\ SecretDefinitions(p, v) \subseteq SecretDefinitions(q, v)
         /\ Crypts(p, v) \subseteq Crypts(q, v)
         /\ CryptLists(p, v) \subseteq CryptLists(q, v)
<1>1. ASSUME NEW sort PROVE Refs(p, v, sort) \subseteq Refs(q, v, sort)
  <2>1. DOMAIN p = 1..Len(h) /\ DOMAIN q = 1..Len(g) /\ Len(h) <= Len(g)
        /\ Len(h) \in Nat /\ Len(g) \in Nat
    BY DEF Laid, Grown
  <2>2. \A a \in DOMAIN p : a \in DOMAIN q /\ q[a] = p[a]
    BY <2>1 DEF Grown
  <2> QED BY <2>2 DEF Refs
<1>2. SecretDefinitions(p, v) \subseteq SecretDefinitions(q, v)
  BY <1>1 DEF SecretDefinitions
<1>3. Crypts(p, v) \subseteq Crypts(q, v)
  BY <1>1 DEF Crypts
<1>4. CryptLists(p, v) \subseteq CryptLists(q, v)
  BY <1>1 DEF CryptLists
<1> QED BY <1>1, <1>2, <1>3, <1>4

\* A sequence over a set is one over every larger set.
LEMMA SeqMonotone ==
  ASSUME NEW S, NEW T, S \subseteq T, NEW s \in Seq(S)
  PROVE  s \in Seq(T)
  OBVIOUS

\* A heap with one more cell.
LEMMA Appended ==
  ASSUME NEW h, Len(h) \in Nat, h = [a \in 1..Len(h) |-> h[a]], NEW x
  PROVE  LET g == Append(h, x)
         IN  /\ Len(g) = Len(h) + 1
             /\ g = [a \in 1..Len(g) |-> g[a]]
             /\ \A a \in 1..Len(h) : g[a] = h[a]
             /\ g[Len(h) + 1] = x
<1> DEFINE S == {h[a] : a \in 1..Len(h)} \cup {x}
<1>1. PICK T : T = S
  OBVIOUS
<1>2. \A a \in 1..Len(h) : h[a] \in T
  BY <1>1
<1>3. h \in [1..Len(h) -> T]
  BY <1>2
<1>4. h \in Seq(T) /\ x \in T
  BY <1>1, <1>3
<1>5. PICK g : g = Append(h, x)
  OBVIOUS
<1>6. g \in Seq(T) /\ Len(g) = Len(h) + 1 /\ g[Len(h) + 1] = x
  BY <1>4, <1>5
<1>7. \A a \in 1..Len(h) : g[a] = h[a]
  BY <1>4, <1>5
<1>8. g = [a \in 1..Len(g) |-> g[a]]
  BY <1>6
<1> QED BY <1>5, <1>6, <1>7, <1>8

\* A new cell that fits its place.
LEMMA LayCell ==
  ASSUME NEW h, NEW p, Laid(h, p), NEW v \in Holders, NEW sort \in Sorts, NEW x,
         sort = "word" => x \in 0..1,
         sort = "definitions" => x \in Seq(SecretDefinitions(p, v)),
         sort = "crypts" => x \in Seq(Crypts(p, v))
  PROVE  /\ Grown(h, p, Append(h, x), Append(p, <<v, sort>>))
         /\ Len(h) + 1 \in Refs(Append(p, <<v, sort>>), v, sort)
         /\ Append(h, x)[Len(h) + 1] = x
<1>1. PICK g : g = Append(h, x)
  OBVIOUS
<1>2. PICK q : q = Append(p, <<v, sort>>)
  OBVIOUS
<1>3. /\ Len(h) \in Nat /\ Len(g) = Len(h) + 1
      /\ g = [a \in 1..Len(g) |-> g[a]]
      /\ \A a \in 1..Len(h) : g[a] = h[a]
      /\ g[Len(h) + 1] = x
  BY <1>1, Appended DEF Laid
<1>4. /\ q \in Seq(Holders \X Sorts) /\ Len(q) = Len(h) + 1
      /\ \A a \in 1..Len(h) : q[a] = p[a]
      /\ q[Len(h) + 1] = <<v, sort>>
      /\ p \in Seq(Holders \X Sorts) /\ Len(p) = Len(h)
  BY <1>2 DEF Laid
<1>5. ASSUME NEW w
      PROVE  /\ SecretDefinitions(p, w) \subseteq SecretDefinitions(q, w)
             /\ Crypts(p, w) \subseteq Crypts(q, w)
  <2>1. \A s : Refs(p, w, s) \subseteq Refs(q, w, s)
    BY <1>3, <1>4 DEF Refs
  <2>2. SecretDefinitions(p, w) \subseteq SecretDefinitions(q, w)
    BY <2>1 DEF SecretDefinitions
  <2>3. Crypts(p, w) \subseteq Crypts(q, w)
    BY <2>1 DEF Crypts
  <2> QED BY <2>2, <2>3
<1>6. ASSUME NEW a \in 1..Len(g), NEW w \in Holders PROVE Fits(g, q, a, w)
  <2>1. CASE a \in 1..Len(h)
    <3>1. Fits(h, p, a, w) /\ g[a] = h[a] /\ q[a] = p[a]
      BY <2>1, <1>3, <1>4 DEF Laid
    <3> QED BY <3>1, <1>5, SeqMonotone DEF Fits
  <2>2. CASE a = Len(h) + 1
    <3>1. g[a] = x /\ q[a] = <<v, sort>>
      BY <2>2, <1>3, <1>4
    <3> QED BY <3>1, <1>5, SeqMonotone DEF Fits
  <2> QED BY <2>1, <2>2, <1>3
<1>7. Laid(g, q)
  BY <1>3, <1>4, <1>6 DEF Laid
<1>8. Grown(h, p, g, q)
  BY <1>7, <1>3, <1>4 DEF Grown
<1>9. Len(h) + 1 \in Refs(q, v, sort)
  BY <1>3, <1>4 DEF Refs
<1> QED BY <1>1, <1>2, <1>3, <1>8, <1>9
-----------------------------------------------------------------------------
\* The cells of v are as they were.
Keeps(h, p, g, v) ==
  \A a \in 1..Len(h), sort \in Sorts : p[a] = <<v, sort>> => g[a] = h[a]

\* Growing touches no cell that was there.
LEMMA GrownKeeps ==
  ASSUME NEW h, NEW p, NEW g, NEW q, Grown(h, p, g, q), NEW v
  PROVE  Keeps(h, p, g, v)
  BY DEF Grown, Keeps

\* A reference that is not nil leads to a cell of its holder and sort.
LEMMA Follow ==
  ASSUME NEW h, NEW p, Laid(h, p), NEW v \in Holders, NEW sort \in Sorts,
         NEW ref \in Refs(p, v, sort), ref # Nil
  PROVE  /\ ref \in 1..Len(h)
         /\ p[ref] = <<v, sort>>
         /\ sort = "word" => h[ref] \in 0..1
         /\ sort = "definitions" => h[ref] \in Seq(SecretDefinitions(p, v))
         /\ sort = "crypts" => h[ref] \in Seq(Crypts(p, v))
<1>1. ref \in 1..Len(h) /\ p[ref] = <<v, sort>>
  BY DEF Refs, Laid
<1>2. Fits(h, p, ref, v)
  BY <1>1 DEF Laid
<1> QED BY <1>1, <1>2 DEF Fits

\* Who reads a list sees the cells of its holder, and no others.
LEMMA SameWord ==
  ASSUME NEW h, NEW p, Laid(h, p), NEW v \in Holders,
         NEW g, Keeps(h, p, g, v), NEW ref \in Refs(p, v, "word")
  PROVE  Seen(g, ref) = Seen(h, ref)
  BY Follow DEF Seen, Keeps, Sorts

LEMMA SameDefinition ==
  ASSUME NEW h, NEW p, Laid(h, p), NEW v \in Holders,
         NEW g, Keeps(h, p, g, v), NEW d \in SecretDefinitions(p, v)
  PROVE  SeenDefinition(g, d) = SeenDefinition(h, d)
<1>1. d.labels \in Refs(p, v, "word") /\ d.annotations \in Refs(p, v, "word")
  BY DEF SecretDefinitions
<1> QED BY <1>1, SameWord DEF SeenDefinition

\* The same for a slice of definitions, a crypt and a list.
LEMMA SameSecrets ==
  ASSUME NEW h, NEW p, Laid(h, p), NEW v \in Holders,
         NEW g, Keeps(h, p, g, v), NEW ref \in Refs(p, v, "definitions")
  PROVE  SeenSecrets(g, ref) = SeenSecrets(h, ref)
<1>1. CASE ref = Nil
  BY <1>1 DEF SeenSecrets
<1>2. CASE ref # Nil
  <2>1. /\ ref \in 1..Len(h) /\ p[ref] = <<v, "definitions">>
        /\ h[ref] \in Seq(SecretDefinitions(p, v))
    BY <1>2, Follow DEF Sorts
  <2>2. g[ref] = h[ref]
    BY <2>1 DEF Keeps, Sorts
  <2>3. \A i \in DOMAIN h[ref] :
          SeenDefinition(g, h[ref][i]) = SeenDefinition(h, h[ref][i])
    BY <2>1, SameDefinition
  <2> QED BY <1>2, <2>2, <2>3 DEF SeenSecrets
<1> QED BY <1>1, <1>2

LEMMA SameCrypt ==
  ASSUME NEW h, NEW p, Laid(h, p), NEW v \in Holders,
         NEW g, Keeps(h, p, g, v), NEW c \in Crypts(p, v)
  PROVE  SeenCrypt(g, c) = SeenCrypt(h, c)
<1>1. /\ c.meta \in Refs(p, v, "word") /\ c.namespaces \in Refs(p, v, "word")
      /\ c.secrets \in Refs(p, v, "definitions")
  BY DEF Crypts
<1>2. SeenSecrets(g, c.secrets) = SeenSecrets(h, c.secrets)
  BY <1>1, SameSecrets
<1> QED BY <1>1, <1>2, SameWord DEF SeenCrypt

LEMMA SameView ==
  ASSUME NEW h, NEW p, Laid(h, p), NEW v \in Holders,
         NEW g, Keeps(h, p, g, v), NEW l \in CryptLists(p, v)
  PROVE  View(g, l) = View(h, l)
<1>1. l.items \in Refs(p, v, "crypts")
  BY DEF CryptLists
<1>2. SeenItems(g, l.items) = SeenItems(h, l.items)
  <2>1. CASE l.items = Nil
    BY <2>1 DEF SeenItems
  <2>2. CASE l.items # Nil
    <3>1. /\ l.items \in 1..Len(h) /\ p[l.items] = <<v, "crypts">>
          /\ h[l.items] \in Seq(Crypts(p, v))
      BY <1>1, <2>2, Follow DEF Sorts
    <3>2. g[l.items] = h[l.items]
      BY <3>1 DEF Keeps, Sorts
    <3>3. \A i \in DOMAIN h[l.items] :
            SeenCrypt(g, h[l.items][i]) = SeenCrypt(h, h[l.items][i])
      BY <3>1, SameCrypt
    <3> QED BY <2>2, <3>2, <3>3 DEF SeenItems
  <2> QED BY <2>1, <2>2
<1> QED BY <1>2 DEF View
-----------------------------------------------------------------------------
\* A copy of v's map or slice for w reads the same, and is w's own.
LEMMA CellCopied ==
  ASSUME NEW h, NEW p, Laid(h, p), NEW v \in Holders, NEW w \in Holders,
         NEW ref \in Refs(p, v, "word"), NEW c, c = CopyCell(h, ref)
  PROVE  \E q : /\ Grown(h, p, c.heap, q)
                /\ c.value \in Refs(q, w, "word")
                /\ Seen(c.heap, c.value) = Seen(h, ref)
<1>1. CASE ref = Nil
  <2>1. c.heap = h /\ c.value = Nil
    BY <1>1 DEF CopyCell, Yield
  <2>2. Grown(h, p, h, p) /\ Nil \in Refs(p, w, "word")
    BY GrownSelf DEF Refs
  <2> QED BY <1>1, <2>1, <2>2
<1>2. CASE ref # Nil
  <2>1. c.heap = Append(h, h[ref]) /\ c.value = Len(h) + 1
    BY <1>2 DEF CopyCell, Yield
  <2>2. h[ref] \in 0..1
    BY <1>2, Follow DEF Sorts
  <2>3. PICK q : q = Append(p, <<w, "word">>)
    OBVIOUS
  <2>6. "word" \in Sorts /\ "word" # "definitions" /\ "word" # "crypts"
    BY DEF Sorts
  <2>7. /\ Grown(h, p, Append(h, h[ref]), q)
        /\ Len(h) + 1 \in Refs(q, w, "word")
        /\ Append(h, h[ref])[Len(h) + 1] = h[ref]
    BY <2>2, <2>3, <2>6, LayCell
  <2>4. /\ Grown(h, p, c.heap, q)
        /\ c.value \in Refs(q, w, "word")
        /\ c.heap[c.value] = h[ref]
    BY <2>1, <2>7
  <2>5. c.value # Nil
    BY <2>1 DEF Laid, Nil
  <2> QED BY <1>2, <2>4, <2>5 DEF Seen
<1> QED BY <1>1, <1>2

\* The same for a definition, by its two maps.
LEMMA DefinitionCopied ==
  ASSUME NEW h, NEW p, Laid(h, p), NEW v \in Holders, NEW w \in Holders,
         NEW d \in SecretDefinitions(p, v), NEW c, c = CopySecretDefinition(h, d)
  PROVE  \E q : /\ Grown(h, p, c.heap, q)
                /\ c.value \in SecretDefinitions(q, w)
                /\ SeenDefinition(c.heap, c.value) = SeenDefinition(h, d)
<1>1. PICK labels : labels = CopyCell(h, d.labels)
  OBVIOUS
<1>2. PICK annotations : annotations = CopyCell(labels.heap, d.annotations)
  OBVIOUS
<1>3. /\ c.heap = annotations.heap
      /\ c.value = [d EXCEPT !.labels = labels.value,
                             !.annotations = annotations.value]
  BY <1>1, <1>2 DEF CopySecretDefinition, Yield
<1>4. d.labels \in Refs(p, v, "word") /\ d.annotations \in Refs(p, v, "word")
      /\ d.says \in 0..1
  BY DEF SecretDefinitions
<1>5. PICK q : /\ Grown(h, p, labels.heap, q)
               /\ labels.value \in Refs(q, w, "word")
               /\ Seen(labels.heap, labels.value) = Seen(h, d.labels)
  BY <1>1, <1>4, CellCopied
<1>6. Laid(labels.heap, q) /\ d.annotations \in Refs(q, v, "word")
  BY <1>4, <1>5, TypesGrow DEF Grown, Sorts
<1>7. PICK r : /\ Grown(labels.heap, q, annotations.heap, r)
               /\ annotations.value \in Refs(r, w, "word")
               /\ Seen(annotations.heap, annotations.value)
                    = Seen(labels.heap, d.annotations)
  BY <1>2, <1>6, CellCopied
<1>8. Seen(labels.heap, d.annotations) = Seen(h, d.annotations)
  BY <1>4, <1>5, GrownKeeps, SameWord
<1>9. /\ Seen(annotations.heap, labels.value) = Seen(labels.heap, labels.value)
      /\ labels.value \in Refs(r, w, "word")
  BY <1>5, <1>6, <1>7, GrownKeeps, SameWord, TypesGrow DEF Sorts
<1>10. Grown(h, p, c.heap, r)
  BY <1>3, <1>5, <1>7, GrowsOn
<1>11. /\ c.value \in SecretDefinitions(r, w)
       /\ c.value.says = d.says
       /\ c.value.labels = labels.value
       /\ c.value.annotations = annotations.value
  BY <1>3, <1>4, <1>7, <1>9 DEF SecretDefinitions
<1> QED BY <1>3, <1>5, <1>7, <1>8, <1>9, <1>10, <1>11 DEF SeenDefinition
-----------------------------------------------------------------------------
\* The loop over a slice is the function it computes step by step.
DefinitionsSoFar(done, h, s, m) ==
  done = [n \in 0..m |->
            IF n = 0 THEN Yield(h, <<>>)
            ELSE Extended(done[n - 1],
                          CopySecretDefinition(done[n - 1].heap, s[n]))]

\* There is such a function, by induction over the length of the slice.
LEMMA DefinitionLoop ==
  ASSUME NEW h, NEW s, Len(s) \in Nat
  PROVE  \E done : /\ DefinitionsSoFar(done, h, s, Len(s))
                   /\ EachDefinition(h, s) = done[Len(s)]
<1> DEFINE D == CHOOSE done : DefinitionsSoFar(done, h, s, Len(s))
           T == {m \in Nat : \E f : DefinitionsSoFar(f, h, s, m)}
<1>1. EachDefinition(h, s) = D[Len(s)]
  BY Zenon DEF EachDefinition, DefinitionsSoFar
<1>2. 0 \in T
  <2>1. DefinitionsSoFar([n \in 0..0 |-> Yield(h, <<>>)], h, s, 0)
    BY DEF DefinitionsSoFar
  <2> QED BY <2>1
<1>3. ASSUME NEW m \in Nat, NEW f, DefinitionsSoFar(f, h, s, m)
      PROVE  \E g : DefinitionsSoFar(g, h, s, m + 1)
  <2> DEFINE g == [n \in 0..m + 1 |->
                     IF n = m + 1
                     THEN Extended(f[m], CopySecretDefinition(f[m].heap, s[m + 1]))
                     ELSE f[n]]
  <2>1. \A n \in 0..m : g[n] = f[n]
    OBVIOUS
  <2>2. ASSUME NEW n \in 0..m + 1
        PROVE  g[n] = IF n = 0 THEN Yield(h, <<>>)
                      ELSE Extended(g[n - 1],
                             CopySecretDefinition(g[n - 1].heap, s[n]))
    <3>1. CASE n = m + 1
      BY <3>1, <2>1
    <3>2. CASE n \in 0..m
      <4>1. f[n] = IF n = 0 THEN Yield(h, <<>>)
                   ELSE Extended(f[n - 1],
                          CopySecretDefinition(f[n - 1].heap, s[n]))
        BY <1>3, <3>2 DEF DefinitionsSoFar
      <4>2. n # 0 => n - 1 \in 0..m
        BY <3>2
      <4> QED BY <4>1, <4>2, <3>2, <2>1
    <3> QED BY <3>1, <3>2
  <2>3. g = [n \in 0..m + 1 |-> g[n]]
    OBVIOUS
  <2> HIDE DEF g
  <2>4. DefinitionsSoFar(g, h, s, m + 1)
    BY <2>2, <2>3 DEF DefinitionsSoFar
  <2> QED BY <2>4
<1>4. \A m \in Nat : m \in T => m + 1 \in T
  BY <1>3
<1> HIDE DEF T
<1>5. Len(s) \in T
  BY <1>2, <1>4, Induction
<1>6. DefinitionsSoFar(D, h, s, Len(s))
  BY <1>5 DEF T
<1> QED BY <1>1, <1>6

\* After m rounds the first m definitions are copied: induction over m.
LEMMA DefinitionsCopied ==
  ASSUME NEW h, NEW p, Laid(h, p), NEW v \in Holders, NEW w \in Holders,
         NEW s \in Seq(SecretDefinitions(p, v)), NEW c, c = EachDefinition(h, s)
  PROVE  \E q : /\ Grown(h, p, c.heap, q)
                /\ c.value \in Seq(SecretDefinitions(q, w))
                /\ Len(c.value) = Len(s)
                /\ \A i \in 1..Len(s) :
                     SeenDefinition(c.heap, c.value[i]) = SeenDefinition(h, s[i])
<1> DEFINE Good(b, m, q) ==
             /\ Grown(h, p, b.heap, q)
             /\ b.value \in Seq(SecretDefinitions(q, w))
             /\ Len(b.value) = m
             /\ \A i \in 1..m :
                  SeenDefinition(b.heap, b.value[i]) = SeenDefinition(h, s[i])
<1>1. Len(s) \in Nat
  OBVIOUS
<1>2. PICK done : DefinitionsSoFar(done, h, s, Len(s)) /\ c = done[Len(s)]
  BY <1>1, DefinitionLoop
<1> DEFINE T == {m \in Nat : m <= Len(s) => \E q : Good(done[m], m, q)}
<1>3. 0 \in T
  <2>1. done[0] = Yield(h, <<>>)
    BY <1>1, <1>2 DEF DefinitionsSoFar
  <2>2. done[0].heap = h /\ done[0].value = <<>>
    BY <2>1 DEF Yield
  <2>3. Good(done[0], 0, p)
    BY <2>2, GrownSelf
  <2> QED BY <2>3
<1>4. ASSUME NEW m \in Nat, m + 1 <= Len(s), NEW q, Good(done[m], m, q)
      PROVE  \E r : Good(done[m + 1], m + 1, r)
  <2>1. PICK b : b = done[m]
    OBVIOUS
  <2>2. PICK x : x = CopySecretDefinition(b.heap, s[m + 1])
    OBVIOUS
  <2>3. done[m + 1] = Extended(b, x)
    BY <1>1, <1>2, <1>4, <2>1, <2>2 DEF DefinitionsSoFar
  <2>4. done[m + 1].heap = x.heap /\ done[m + 1].value = Append(b.value, x.value)
    BY <2>3 DEF Extended, Yield
  <2>5. /\ Grown(h, p, b.heap, q) /\ Laid(b.heap, q)
        /\ b.value \in Seq(SecretDefinitions(q, w)) /\ Len(b.value) = m
    BY <1>4, <2>1 DEF Grown
  <2>6. s[m + 1] \in SecretDefinitions(p, v)
        /\ s[m + 1] \in SecretDefinitions(q, v)
    BY <1>1, <1>4, <2>5, TypesGrow
  <2>7. PICK r : /\ Grown(b.heap, q, x.heap, r)
                 /\ x.value \in SecretDefinitions(r, w)
                 /\ SeenDefinition(x.heap, x.value)
                      = SeenDefinition(b.heap, s[m + 1])
    BY <2>2, <2>5, <2>6, DefinitionCopied
  <2>8. SeenDefinition(b.heap, s[m + 1]) = SeenDefinition(h, s[m + 1])
    BY <2>5, <2>6, GrownKeeps, SameDefinition
  <2>9. Grown(h, p, x.heap, r) /\ Keeps(b.heap, q, x.heap, w)
    BY <2>5, <2>7, GrowsOn, GrownKeeps
  <2>10. b.value \in Seq(SecretDefinitions(r, w))
    BY <2>5, <2>7, TypesGrow, SeqMonotone
  <2>11. PICK all : all = Append(b.value, x.value)
    OBVIOUS
  <2>12. /\ all \in Seq(SecretDefinitions(r, w)) /\ Len(all) = m + 1
         /\ all[m + 1] = x.value
         /\ \A i \in 1..m : all[i] = b.value[i]
    BY <2>5, <2>7, <2>10, <2>11
  <2>13. ASSUME NEW i \in 1..m + 1
         PROVE  SeenDefinition(x.heap, all[i]) = SeenDefinition(h, s[i])
    <3>1. CASE i = m + 1
      BY <3>1, <2>7, <2>8, <2>12
    <3>2. CASE i \in 1..m
      <4>1. b.value[i] \in SecretDefinitions(q, w)
        BY <3>2, <2>5
      <4>2. SeenDefinition(x.heap, b.value[i]) = SeenDefinition(b.heap, b.value[i])
        BY <4>1, <2>5, <2>9, SameDefinition
      <4>3. SeenDefinition(b.heap, b.value[i]) = SeenDefinition(h, s[i])
        BY <1>4, <2>1, <3>2
      <4> QED BY <3>2, <4>2, <4>3, <2>12
    <3> QED BY <3>1, <3>2
  <2>14. Good(done[m + 1], m + 1, r)
    BY <2>4, <2>9, <2>11, <2>12, <2>13
  <2> QED BY <2>14
<1> HIDE DEF Good
<1>5. ASSUME NEW m \in Nat, m \in T PROVE m + 1 \in T
  <2>1. m + 1 <= Len(s) => \E q : Good(done[m], m, q)
    BY <1>1, <1>5
  <2>2. m + 1 <= Len(s) => \E r : Good(done[m + 1], m + 1, r)
    BY <1>4, <2>1
  <2> QED BY <2>2
<1> HIDE DEF T
<1>6. Len(s) \in T
  BY <1>1, <1>3, <1>5, Induction
<1>7. \E q : Good(done[Len(s)], Len(s), q)
  BY <1>1, <1>6 DEF T
<1> QED BY <1>2, <1>7 DEF Good
-----------------------------------------------------------------------------
\* The slice of definitions of a crypt, nil or not.
LEMMA SecretsCopied ==
  ASSUME NEW h, NEW p, Laid(h, p), NEW v \in Holders, NEW w \in Holders,
         NEW ref \in Refs(p, v, "definitions"), NEW c, c = CopySecrets(h, ref)
  PROVE  \E q : /\ Grown(h, p, c.heap, q)
                /\ c.value \in Refs(q, w, "definitions")
                /\ SeenSecrets(c.heap, c.value) = SeenSecrets(h, ref)
<1>1. CASE ref = Nil
  <2>1. c.heap = h /\ c.value = Nil
    BY <1>1 DEF CopySecrets, Yield
  <2>2. Grown(h, p, h, p) /\ Nil \in Refs(p, w, "definitions")
    BY GrownSelf DEF Refs
  <2> QED BY <1>1, <2>1, <2>2
<1>2. CASE ref # Nil
  <2>1. PICK s : s = h[ref]
    OBVIOUS
  <2>2. s \in Seq(SecretDefinitions(p, v))
    BY <1>2, <2>1, Follow DEF Sorts
  <2>3. PICK all : all = EachDefinition(h, s)
    OBVIOUS
  <2>4. PICK q : /\ Grown(h, p, all.heap, q)
                 /\ all.value \in Seq(SecretDefinitions(q, w))
                 /\ Len(all.value) = Len(s)
                 /\ \A i \in 1..Len(s) :
                      SeenDefinition(all.heap, all.value[i])
                        = SeenDefinition(h, s[i])
    BY <2>2, <2>3, DefinitionsCopied
  <2>5. PICK g : g = Append(all.heap, all.value)
    OBVIOUS
  <2>6. c.heap = g /\ c.value = Len(all.heap) + 1
    BY <1>2, <2>1, <2>3, <2>5 DEF CopySecrets, Allocated, Yield
  <2>7. PICK r : r = Append(q, <<w, "definitions">>)
    OBVIOUS
  <2>8. /\ "definitions" \in Sorts
        /\ "definitions" # "word"
        /\ "definitions" # "crypts"
        /\ Laid(all.heap, q)
    BY <2>4 DEF Sorts, Grown
  <2>9. /\ Grown(all.heap, q, g, r)
        /\ Len(all.heap) + 1 \in Refs(r, w, "definitions")
        /\ g[Len(all.heap) + 1] = all.value
    BY <2>4, <2>5, <2>7, <2>8, LayCell
  <2>10. Grown(h, p, g, r)
    BY <2>4, <2>9, GrowsOn
  <2>11. ASSUME NEW i \in 1..Len(s)
         PROVE  SeenDefinition(g, all.value[i]) = SeenDefinition(h, s[i])
    <3>1. all.value[i] \in SecretDefinitions(q, w)
      BY <2>4
    <3>2. SeenDefinition(g, all.value[i]) = SeenDefinition(all.heap, all.value[i])
      <4>1. Keeps(all.heap, q, g, w)
        BY <2>9, GrownKeeps
      <4> QED BY <2>8, <3>1, <4>1, SameDefinition
    <3>3. SeenDefinition(all.heap, all.value[i]) = SeenDefinition(h, s[i])
      BY <2>4
    <3> QED BY <3>2, <3>3
  <2>12. /\ DOMAIN all.value = 1..Len(s)
         /\ DOMAIN s = 1..Len(s)
         /\ Len(all.heap) + 1 # Nil
    BY <2>2, <2>4, <2>8 DEF Laid, Nil
  <2>13. SeenSecrets(g, Len(all.heap) + 1) = SeenSecrets(h, ref)
    BY <1>2, <2>1, <2>9, <2>11, <2>12 DEF SeenSecrets
  <2> QED BY <2>6, <2>9, <2>10, <2>13
<1> QED BY <1>1, <1>2

\* What CopySpec leaves of a crypt: the metadata is still the original's.
SpecCopy(h, p, w, c, x, q, secrets, namespaces) ==
  /\ Grown(h, p, x.heap, q)
  /\ secrets \in Refs(q, w, "definitions")
  /\ namespaces \in Refs(q, w, "word")
  /\ x.value = [c EXCEPT !.secrets = secrets, !.namespaces = namespaces]
  /\ SeenSecrets(x.heap, secrets) = SeenSecrets(h, c.secrets)
  /\ Seen(x.heap, namespaces) = Seen(h, c.namespaces)

\* The slice of definitions and the namespaces are copied one after the other.
LEMMA SpecCopied ==
  ASSUME NEW h, NEW p, Laid(h, p), NEW v \in Holders, NEW w \in Holders,
         NEW c \in Crypts(p, v), NEW x, x = CopySpec(h, c)
  PROVE  \E q, secrets, namespaces :
           SpecCopy(h, p, w, c, x, q, secrets, namespaces)
<1>1. PICK secrets : secrets = CopySecrets(h, c.secrets)
  OBVIOUS
<1>2. PICK namespaces : namespaces = CopyCell(secrets.heap, c.namespaces)
  OBVIOUS
<1>3. /\ x.heap = namespaces.heap
      /\ x.value = [c EXCEPT !.secrets = secrets.value,
                             !.namespaces = namespaces.value]
  BY <1>1, <1>2 DEF CopySpec, Yield
<1>4. c.secrets \in Refs(p, v, "definitions") /\ c.namespaces \in Refs(p, v, "word")
  BY DEF Crypts
<1>5. PICK q : /\ Grown(h, p, secrets.heap, q)
               /\ secrets.value \in Refs(q, w, "definitions")
               /\ SeenSecrets(secrets.heap, secrets.value)
                    = SeenSecrets(h, c.secrets)
  BY <1>1, <1>4, SecretsCopied
<1>6. Laid(secrets.heap, q) /\ c.namespaces \in Refs(q, v, "word")
  BY <1>4, <1>5, TypesGrow DEF Grown, Sorts
<1>7. PICK r : /\ Grown(secrets.heap, q, namespaces.heap, r)
               /\ namespaces.value \in Refs(r, w, "word")
               /\ Seen(namespaces.heap, namespaces.value)
                    = Seen(secrets.heap, c.namespaces)
  BY <1>2, <1>6, CellCopied
<1>8. Seen(secrets.heap, c.namespaces) = Seen(h, c.namespaces)
  BY <1>4, <1>5, GrownKeeps, SameWord
<1>9. /\ SeenSecrets(namespaces.heap, secrets.value)
           = SeenSecrets(secrets.heap, secrets.value)
      /\ secrets.value \in Refs(r, w, "definitions")
  BY <1>5, <1>6, <1>7, GrownKeeps, SameSecrets, TypesGrow DEF Sorts
<1>10. Grown(h, p, namespaces.heap, r)
  BY <1>5, <1>7, GrowsOn
<1>11. SpecCopy(h, p, w, c, x, r, secrets.value, namespaces.value)
  BY <1>3, <1>5, <1>7, <1>8, <1>9, <1>10 DEF SpecCopy
<1> QED BY <1>11

\* A copy of a crypt reads the same, and refers to nothing of the original.
LEMMA CryptCopied ==
  ASSUME NEW h, NEW p, Laid(h, p), NEW v \in Holders, NEW w \in Holders,
         NEW c \in Crypts(p, v), NEW x, x = CopyCrypt(h, c)
  PROVE  \E q : /\ Grown(h, p, x.heap, q)
                /\ x.value \in Crypts(q, w)
                /\ SeenCrypt(x.heap, x.value) = SeenCrypt(h, c)
<1>1. PICK meta : meta = CopyCell(h, c.meta)
  OBVIOUS
<1>2. PICK spec : spec = CopySpec(meta.heap, c)
  OBVIOUS
<1>3. x.heap = spec.heap /\ x.value = [spec.value EXCEPT !.meta = meta.value]
  BY <1>1, <1>2 DEF CopyCrypt, Yield
<1>4. /\ c.meta \in Refs(p, v, "word") /\ c.namespaces \in Refs(p, v, "word")
      /\ c.secrets \in Refs(p, v, "definitions")
      /\ c.says \in 0..1
  BY DEF Crypts
<1>5. PICK q : /\ Grown(h, p, meta.heap, q)
               /\ meta.value \in Refs(q, w, "word")
               /\ Seen(meta.heap, meta.value) = Seen(h, c.meta)
  BY <1>1, <1>4, CellCopied
<1>6. Laid(meta.heap, q) /\ c \in Crypts(q, v) /\ Keeps(h, p, meta.heap, v)
  BY <1>5, TypesGrow, GrownKeeps DEF Grown
<1>7. PICK r, secrets, namespaces :
        SpecCopy(meta.heap, q, w, c, spec, r, secrets, namespaces)
  BY <1>2, <1>6, SpecCopied
<1>8. /\ Grown(meta.heap, q, spec.heap, r)
      /\ secrets \in Refs(r, w, "definitions")
      /\ namespaces \in Refs(r, w, "word")
      /\ spec.value = [c EXCEPT !.secrets = secrets, !.namespaces = namespaces]
      /\ SeenSecrets(spec.heap, secrets) = SeenSecrets(meta.heap, c.secrets)
      /\ Seen(spec.heap, namespaces) = Seen(meta.heap, c.namespaces)
  BY <1>7 DEF SpecCopy
<1>9. /\ SeenSecrets(meta.heap, c.secrets) = SeenSecrets(h, c.secrets)
      /\ Seen(meta.heap, c.namespaces) = Seen(h, c.namespaces)
  BY <1>4, <1>6, SameSecrets, SameWord
<1>10. /\ Seen(spec.heap, meta.value) = Seen(meta.heap, meta.value)
       /\ meta.value \in Refs(r, w, "word")
  BY <1>5, <1>6, <1>8, GrownKeeps, SameWord, TypesGrow DEF Sorts
<1>11. Grown(h, p, spec.heap, r)
  BY <1>5, <1>8, GrowsOn
<1>12. /\ x.value \in Crypts(r, w)
       /\ x.value.says = c.says
       /\ x.value.meta = meta.value
       /\ x.value.secrets = secrets
       /\ x.value.namespaces = namespaces
  <2>1. c \in [says : 0..1, meta : Refs(p, v, "word"),
               secrets : Refs(p, v, "definitions"),
               namespaces : Refs(p, v, "word")]
    BY DEF Crypts
  <2>2. x.value = [says |-> c.says, meta |-> meta.value, secrets |-> secrets,
                   namespaces |-> namespaces]
    BY <1>3, <1>8, <2>1
  <2> QED BY <1>4, <1>8, <1>10, <2>2 DEF Crypts
<1> QED BY <1>3, <1>5, <1>8, <1>9, <1>10, <1>11, <1>12 DEF SeenCrypt
-----------------------------------------------------------------------------
\* The same for the crypts of a list.
CryptsSoFar(done, h, s, m) ==
  done = [n \in 0..m |->
            IF n = 0 THEN Yield(h, <<>>)
            ELSE Extended(done[n - 1],
                          CopyCrypt(done[n - 1].heap, s[n]))]

\* There is such a function, too.
LEMMA CryptLoop ==
  ASSUME NEW h, NEW s, Len(s) \in Nat
  PROVE  \E done : /\ CryptsSoFar(done, h, s, Len(s))
                   /\ EachCrypt(h, s) = done[Len(s)]
<1> DEFINE D == CHOOSE done : CryptsSoFar(done, h, s, Len(s))
           T == {m \in Nat : \E f : CryptsSoFar(f, h, s, m)}
<1>1. EachCrypt(h, s) = D[Len(s)]
  BY Zenon DEF EachCrypt, CryptsSoFar
<1>2. 0 \in T
  <2>1. CryptsSoFar([n \in 0..0 |-> Yield(h, <<>>)], h, s, 0)
    BY DEF CryptsSoFar
  <2> QED BY <2>1
<1>3. ASSUME NEW m \in Nat, NEW f, CryptsSoFar(f, h, s, m)
      PROVE  \E g : CryptsSoFar(g, h, s, m + 1)
  <2> DEFINE g == [n \in 0..m + 1 |->
                     IF n = m + 1
                     THEN Extended(f[m], CopyCrypt(f[m].heap, s[m + 1]))
                     ELSE f[n]]
  <2>1. \A n \in 0..m : g[n] = f[n]
    OBVIOUS
  <2>2. ASSUME NEW n \in 0..m + 1
        PROVE  g[n] = IF n = 0 THEN Yield(h, <<>>)
                      ELSE Extended(g[n - 1],
                             CopyCrypt(g[n - 1].heap, s[n]))
    <3>1. CASE n = m + 1
      BY <3>1, <2>1
    <3>2. CASE n \in 0..m
      <4>1. f[n] = IF n = 0 THEN Yield(h, <<>>)
                   ELSE Extended(f[n - 1],
                          CopyCrypt(f[n - 1].heap, s[n]))
        BY <1>3, <3>2 DEF CryptsSoFar
      <4>2. n # 0 => n - 1 \in 0..m
        BY <3>2
      <4> QED BY <4>1, <4>2, <3>2, <2>1
    <3> QED BY <3>1, <3>2
  <2>3. g = [n \in 0..m + 1 |-> g[n]]
    OBVIOUS
  <2> HIDE DEF g
  <2>4. CryptsSoFar(g, h, s, m + 1)
    BY <2>2, <2>3 DEF CryptsSoFar
  <2> QED BY <2>4
<1>4. \A m \in Nat : m \in T => m + 1 \in T
  BY <1>3
<1> HIDE DEF T
<1>5. Len(s) \in T
  BY <1>2, <1>4, Induction
<1>6. CryptsSoFar(D, h, s, Len(s))
  BY <1>5 DEF T
<1> QED BY <1>1, <1>6

\* After m rounds the first m crypts are copied: induction over m.
LEMMA CryptsCopied ==
  ASSUME NEW h, NEW p, Laid(h, p), NEW v \in Holders, NEW w \in Holders,
         NEW s \in Seq(Crypts(p, v)), NEW c, c = EachCrypt(h, s)
  PROVE  \E q : /\ Grown(h, p, c.heap, q)
                /\ c.value \in Seq(Crypts(q, w))
                /\ Len(c.value) = Len(s)
                /\ \A i \in 1..Len(s) :
                     SeenCrypt(c.heap, c.value[i]) = SeenCrypt(h, s[i])
<1> DEFINE Good(b, m, q) ==
             /\ Grown(h, p, b.heap, q)
             /\ b.value \in Seq(Crypts(q, w))
             /\ Len(b.value) = m
             /\ \A i \in 1..m :
                  SeenCrypt(b.heap, b.value[i]) = SeenCrypt(h, s[i])
<1>1. Len(s) \in Nat
  OBVIOUS
<1>2. PICK done : CryptsSoFar(done, h, s, Len(s)) /\ c = done[Len(s)]
  BY <1>1, CryptLoop
<1> DEFINE T == {m \in Nat : m <= Len(s) => \E q : Good(done[m], m, q)}
<1>3. 0 \in T
  <2>1. done[0] = Yield(h, <<>>)
    BY <1>1, <1>2 DEF CryptsSoFar
  <2>2. done[0].heap = h /\ done[0].value = <<>>
    BY <2>1 DEF Yield
  <2>3. Good(done[0], 0, p)
    BY <2>2, GrownSelf
  <2> QED BY <2>3
<1>4. ASSUME NEW m \in Nat, m + 1 <= Len(s), NEW q, Good(done[m], m, q)
      PROVE  \E r : Good(done[m + 1], m + 1, r)
  <2>1. PICK b : b = done[m]
    OBVIOUS
  <2>2. PICK x : x = CopyCrypt(b.heap, s[m + 1])
    OBVIOUS
  <2>3. done[m + 1] = Extended(b, x)
    BY <1>1, <1>2, <1>4, <2>1, <2>2 DEF CryptsSoFar
  <2>4. done[m + 1].heap = x.heap /\ done[m + 1].value = Append(b.value, x.value)
    BY <2>3 DEF Extended, Yield
  <2>5. /\ Grown(h, p, b.heap, q) /\ Laid(b.heap, q)
        /\ b.value \in Seq(Crypts(q, w)) /\ Len(b.value) = m
    BY <1>4, <2>1 DEF Grown
  <2>6. s[m + 1] \in Crypts(p, v)
        /\ s[m + 1] \in Crypts(q, v)
    BY <1>1, <1>4, <2>5, TypesGrow
  <2>7. PICK r : /\ Grown(b.heap, q, x.heap, r)
                 /\ x.value \in Crypts(r, w)
                 /\ SeenCrypt(x.heap, x.value)
                      = SeenCrypt(b.heap, s[m + 1])
    BY <2>2, <2>5, <2>6, CryptCopied
  <2>8. SeenCrypt(b.heap, s[m + 1]) = SeenCrypt(h, s[m + 1])
    BY <2>5, <2>6, GrownKeeps, SameCrypt
  <2>9. Grown(h, p, x.heap, r) /\ Keeps(b.heap, q, x.heap, w)
    BY <2>5, <2>7, GrowsOn, GrownKeeps
  <2>10. b.value \in Seq(Crypts(r, w))
    BY <2>5, <2>7, TypesGrow, SeqMonotone
  <2>11. PICK all : all = Append(b.value, x.value)
    OBVIOUS
  <2>12. /\ all \in Seq(Crypts(r, w)) /\ Len(all) = m + 1
         /\ all[m + 1] = x.value
         /\ \A i \in 1..m : all[i] = b.value[i]
    BY <2>5, <2>7, <2>10, <2>11
  <2>13. ASSUME NEW i \in 1..m + 1
         PROVE  SeenCrypt(x.heap, all[i]) = SeenCrypt(h, s[i])
    <3>1. CASE i = m + 1
      BY <3>1, <2>7, <2>8, <2>12
    <3>2. CASE i \in 1..m
      <4>1. b.value[i] \in Crypts(q, w)
        BY <3>2, <2>5
      <4>2. SeenCrypt(x.heap, b.value[i]) = SeenCrypt(b.heap, b.value[i])
        BY <4>1, <2>5, <2>9, SameCrypt
      <4>3. SeenCrypt(b.heap, b.value[i]) = SeenCrypt(h, s[i])
        BY <1>4, <2>1, <3>2
      <4> QED BY <3>2, <4>2, <4>3, <2>12
    <3> QED BY <3>1, <3>2
  <2>14. Good(done[m + 1], m + 1, r)
    BY <2>4, <2>9, <2>11, <2>12, <2>13
  <2> QED BY <2>14
<1> HIDE DEF Good
<1>5. ASSUME NEW m \in Nat, m \in T PROVE m + 1 \in T
  <2>1. m + 1 <= Len(s) => \E q : Good(done[m], m, q)
    BY <1>1, <1>5
  <2>2. m + 1 <= Len(s) => \E r : Good(done[m + 1], m + 1, r)
    BY <1>4, <2>1
  <2> QED BY <2>2
<1> HIDE DEF T
<1>6. Len(s) \in T
  BY <1>1, <1>3, <1>5, Induction
<1>7. \E q : Good(done[Len(s)], Len(s), q)
  BY <1>1, <1>6 DEF T
<1> QED BY <1>2, <1>7 DEF Good
-----------------------------------------------------------------------------
\* The slice of crypts of a list, nil or not.
LEMMA ItemsCopied ==
  ASSUME NEW h, NEW p, Laid(h, p), NEW v \in Holders, NEW w \in Holders,
         NEW ref \in Refs(p, v, "crypts"), NEW c, c = CopyItems(h, ref)
  PROVE  \E q : /\ Grown(h, p, c.heap, q)
                /\ c.value \in Refs(q, w, "crypts")
                /\ SeenItems(c.heap, c.value) = SeenItems(h, ref)
<1>1. CASE ref = Nil
  <2>1. c.heap = h /\ c.value = Nil
    BY <1>1 DEF CopyItems, Yield
  <2>2. Grown(h, p, h, p) /\ Nil \in Refs(p, w, "crypts")
    BY GrownSelf DEF Refs
  <2> QED BY <1>1, <2>1, <2>2
<1>2. CASE ref # Nil
  <2>1. PICK s : s = h[ref]
    OBVIOUS
  <2>2. s \in Seq(Crypts(p, v))
    BY <1>2, <2>1, Follow DEF Sorts
  <2>3. PICK all : all = EachCrypt(h, s)
    OBVIOUS
  <2>4. PICK q : /\ Grown(h, p, all.heap, q)
                 /\ all.value \in Seq(Crypts(q, w))
                 /\ Len(all.value) = Len(s)
                 /\ \A i \in 1..Len(s) :
                      SeenCrypt(all.heap, all.value[i])
                        = SeenCrypt(h, s[i])
    BY <2>2, <2>3, CryptsCopied
  <2>5. PICK g : g = Append(all.heap, all.value)
    OBVIOUS
  <2>6. c.heap = g /\ c.value = Len(all.heap) + 1
    BY <1>2, <2>1, <2>3, <2>5 DEF CopyItems, Allocated, Yield
  <2>7. PICK r : r = Append(q, <<w, "crypts">>)
    OBVIOUS
  <2>8. /\ "crypts" \in Sorts
        /\ "crypts" # "word"
        /\ "crypts" # "definitions"
        /\ Laid(all.heap, q)
    BY <2>4 DEF Sorts, Grown
  <2>9. /\ Grown(all.heap, q, g, r)
        /\ Len(all.heap) + 1 \in Refs(r, w, "crypts")
        /\ g[Len(all.heap) + 1] = all.value
    BY <2>4, <2>5, <2>7, <2>8, LayCell
  <2>10. Grown(h, p, g, r)
    BY <2>4, <2>9, GrowsOn
  <2>11. ASSUME NEW i \in 1..Len(s)
         PROVE  SeenCrypt(g, all.value[i]) = SeenCrypt(h, s[i])
    <3>1. all.value[i] \in Crypts(q, w)
      BY <2>4
    <3>2. SeenCrypt(g, all.value[i]) = SeenCrypt(all.heap, all.value[i])
      <4>1. Keeps(all.heap, q, g, w)
        BY <2>9, GrownKeeps
      <4> QED BY <2>8, <3>1, <4>1, SameCrypt
    <3>3. SeenCrypt(all.heap, all.value[i]) = SeenCrypt(h, s[i])
      BY <2>4
    <3> QED BY <3>2, <3>3
  <2>12. /\ DOMAIN all.value = 1..Len(s)
         /\ DOMAIN s = 1..Len(s)
         /\ Len(all.heap) + 1 # Nil
    BY <2>2, <2>4, <2>8 DEF Laid, Nil
  <2>13. SeenItems(g, Len(all.heap) + 1) = SeenItems(h, ref)
    BY <1>2, <2>1, <2>9, <2>11, <2>12 DEF SeenItems
  <2> QED BY <2>6, <2>9, <2>10, <2>13
<1> QED BY <1>1, <1>2

\* So does the copy of a whole list.
LEMMA ListCopied ==
  ASSUME NEW h, NEW p, Laid(h, p), NEW v \in Holders, NEW w \in Holders,
         NEW l \in CryptLists(p, v), NEW c, c = CopyCryptList(h, l)
  PROVE  \E q : /\ Grown(h, p, c.heap, q)
                /\ c.value \in CryptLists(q, w)
                /\ View(c.heap, c.value) = View(h, l)
<1>1. PICK items : items = CopyItems(h, l.items)
  OBVIOUS
<1>2. c.heap = items.heap /\ c.value = [l EXCEPT !.items = items.value]
  BY <1>1 DEF CopyCryptList, Yield
<1>3. l.items \in Refs(p, v, "crypts")
  BY DEF CryptLists
<1>4. PICK q : /\ Grown(h, p, items.heap, q)
               /\ items.value \in Refs(q, w, "crypts")
               /\ SeenItems(items.heap, items.value) = SeenItems(h, l.items)
  BY <1>1, <1>3, ItemsCopied
<1>5. /\ c.value \in CryptLists(q, w)
      /\ c.value.says = l.says
      /\ c.value.items = items.value
  BY <1>2, <1>4 DEF CryptLists
<1> QED BY <1>2, <1>4, <1>5 DEF View
-----------------------------------------------------------------------------
\* Every cell has one owner, and nobody refers to a cell of somebody else.
Owned(place) ==
  /\ Laid(heap, place)
  /\ root = [v \in Holders |-> root[v]]
  /\ \A v \in Holders : root[v] \in CryptLists(place, v)

Separate == \E place : Owned(place)

\* A decoded list is laid out for the holder that has it; nil is anybody's.
LEMMA InitSeparate == DCInit => Separate
<1> SUFFICES ASSUME DCInit PROVE Separate
  OBVIOUS
<1>1. PICK l \in Decoded, v \in Holders :
        /\ heap = l.heap
        /\ root = [w \in Holders |-> IF w = v THEN l.root
                                     ELSE [says |-> 0, items |-> Nil]]
  BY DEF DCInit
<1>2. PICK place : place = Places(l, v)
  OBVIOUS
<1>3. Laid(heap, place) /\ l.root \in CryptLists(place, v)
  BY <1>1, <1>2, DecodedAssumption
<1>4. \A w \in Holders : [says |-> 0, items |-> Nil] \in CryptLists(place, w)
  BY DEF CryptLists, Refs
<1>5. /\ root = [w \in Holders |-> root[w]]
      /\ \A w \in Holders : root[w] \in CryptLists(place, w)
  BY <1>1, <1>3, <1>4
<1> QED BY <1>3, <1>5 DEF Owned, Separate

\* A step that leaves what the others see as it was.
OthersKept(w) ==
  \A v \in Holders : v # w => View(heap', root'[v]) = View(heap, root[v])

\* A copy gives its target new cells, and everybody else keeps theirs.
LEMMA CopySteps ==
  ASSUME Separate, NEW from \in Holders, NEW to \in Holders, DeepCopy(from, to)
  PROVE  /\ Separate'
         /\ OthersKept(to)
         /\ View(heap', root'[to]) = View(heap', root'[from])
<1>1. PICK p : Owned(p)
  BY DEF Separate
<1>2. /\ Laid(heap, p) /\ root = [v \in Holders |-> root[v]]
      /\ \A v \in Holders : root[v] \in CryptLists(p, v)
  BY <1>1 DEF Owned
<1>3. PICK c : c = CopyCryptList(heap, root[from])
  OBVIOUS
<1>4. /\ heap' = c.heap
      /\ root' = [root EXCEPT ![to] = c.value]
      /\ from # to
  BY <1>3 DEF DeepCopy
<1>5. PICK q : /\ Grown(heap, p, c.heap, q)
               /\ c.value \in CryptLists(q, to)
               /\ View(c.heap, c.value) = View(heap, root[from])
  BY <1>2, <1>3, ListCopied
<1>6. /\ root' = [v \in Holders |-> root'[v]]
      /\ root'[to] = c.value
      /\ \A v \in Holders : v # to => root'[v] = root[v]
  BY <1>2, <1>4
<1>7. ASSUME NEW v \in Holders, v # to
      PROVE  /\ root'[v] \in CryptLists(q, v)
             /\ View(heap', root'[v]) = View(heap, root[v])
  <2>1. root'[v] = root[v] /\ root[v] \in CryptLists(p, v)
    BY <1>2, <1>6, <1>7
  <2>2. root[v] \in CryptLists(q, v)
    BY <1>2, <1>5, <2>1, TypesGrow
  <2>3. View(c.heap, root[v]) = View(heap, root[v])
    BY <1>2, <1>5, <2>1, GrownKeeps, SameView
  <2> QED BY <1>4, <2>1, <2>2, <2>3
<1>8. Owned(q)'
  <2>1. Laid(c.heap, q)
    BY <1>5 DEF Grown
  <2> QED BY <1>4, <1>5, <1>6, <1>7, <2>1 DEF Owned
<1>9. OthersKept(to)
  BY <1>7 DEF OthersKept
<1>10. View(heap', root'[to]) = View(heap', root'[from])
  BY <1>4, <1>5, <1>6, <1>7
<1> QED BY <1>8, <1>9, <1>10 DEF Separate
-----------------------------------------------------------------------------
\* A cell that is written to goes on to fit its place.
LEMMA Rewritten ==
  ASSUME NEW h, NEW p, Laid(h, p), NEW a \in 1..Len(h), NEW x,
         NEW v \in Holders, NEW sort \in Sorts, p[a] = <<v, sort>>,
         sort = "word" => x \in 0..1,
         sort = "definitions" => x \in Seq(SecretDefinitions(p, v)),
         sort = "crypts" => x \in Seq(Crypts(p, v)),
         NEW g, g = [h EXCEPT ![a] = x]
  PROVE  /\ Laid(g, p)
         /\ \A u \in Holders : u # v => Keeps(h, p, g, u)
<1>1. /\ Len(h) \in Nat /\ h = [b \in 1..Len(h) |-> h[b]]
      /\ p \in Seq(Holders \X Sorts) /\ Len(p) = Len(h)
  BY DEF Laid
<1>2. /\ g = [b \in 1..Len(h) |-> g[b]]
      /\ g[a] = x
      /\ \A b \in 1..Len(h) : b # a => g[b] = h[b]
  BY <1>1
<1>3. Len(g) = Len(h)
  BY <1>1, <1>2
<1>4. ASSUME NEW b \in 1..Len(h), NEW u \in Holders PROVE Fits(g, p, b, u)
  <2>1. Fits(h, p, b, u)
    BY DEF Laid
  <2>2. CASE b # a
    BY <2>1, <2>2, <1>2 DEF Fits
  <2>3. CASE b = a
    BY <2>3, <1>2 DEF Fits
  <2> QED BY <2>2, <2>3
<1>5. Laid(g, p)
  BY <1>1, <1>2, <1>3, <1>4 DEF Laid
<1>6. \A u \in Holders : u # v => Keeps(h, p, g, u)
  BY <1>2 DEF Keeps
<1> QED BY <1>5, <1>6

\* What a holder reaches is its own.
LEMMA ReachesOwn ==
  ASSUME NEW p, Owned(p), NEW v \in Holders
  PROVE  /\ \A a \in Words(v) : a \in 1..Len(heap) /\ p[a] = <<v, "word">>
         /\ \A a \in Slices(v) :
              /\ a \in 1..Len(heap)
              /\ p[a] \in {<<v, "definitions">>, <<v, "crypts">>}
<1>1. Laid(heap, p) /\ root[v].items \in Refs(p, v, "crypts")
  BY DEF Owned, CryptLists
<1>2. CryptsIn(v) \subseteq Crypts(p, v)
  <2>1. CASE root[v].items = Nil
    BY <2>1 DEF CryptsIn, Elements
  <2>2. CASE root[v].items # Nil
    <3>1. heap[root[v].items] \in Seq(Crypts(p, v))
      BY <1>1, <2>2, Follow DEF Sorts
    <3> QED BY <2>2, <3>1 DEF CryptsIn, Elements, ToSet
  <2> QED BY <2>1, <2>2
<1>3. ASSUME NEW c \in CryptsIn(v)
      PROVE  /\ c.meta \in Refs(p, v, "word")
             /\ c.namespaces \in Refs(p, v, "word")
             /\ c.secrets \in Refs(p, v, "definitions")
  BY <1>2 DEF Crypts
<1>4. ASSUME NEW d \in DefinitionsIn(v)
      PROVE  d.labels \in Refs(p, v, "word") /\ d.annotations \in Refs(p, v, "word")
  <2>1. PICK c \in CryptsIn(v) : d \in Elements(c.secrets)
    BY DEF DefinitionsIn
  <2>2. c.secrets # Nil /\ d \in ToSet(heap[c.secrets])
    BY <2>1 DEF Elements
  <2>3. heap[c.secrets] \in Seq(SecretDefinitions(p, v))
    BY <1>1, <1>3, <2>2, Follow DEF Sorts
  <2>4. d \in SecretDefinitions(p, v)
    BY <2>2, <2>3 DEF ToSet
  <2> QED BY <2>4 DEF SecretDefinitions
<1>5. ASSUME NEW a \in Words(v) PROVE a \in Refs(p, v, "word") /\ a # Nil
  BY <1>3, <1>4 DEF Words
<1>6. ASSUME NEW a \in Slices(v)
      PROVE  a \in Refs(p, v, "definitions") \cup Refs(p, v, "crypts") /\ a # Nil
  BY <1>1, <1>3 DEF Slices
<1>7. ASSUME NEW sort \in Sorts, NEW a \in Refs(p, v, sort), a # Nil
      PROVE  a \in 1..Len(heap) /\ p[a] = <<v, sort>>
  BY <1>1, <1>7, Follow
<1> QED BY <1>5, <1>6, <1>7 DEF Sorts

\* Who writes changes what it holds itself.
LEMMA WriteSteps ==
  ASSUME Separate, NEW w \in Holders, Write(w)
  PROVE  Separate' /\ OthersKept(w)
<1>1. PICK p : Owned(p)
  BY DEF Separate
<1>2. /\ Laid(heap, p) /\ root = [v \in Holders |-> root[v]]
      /\ \A v \in Holders : root[v] \in CryptLists(p, v)
  BY <1>1 DEF Owned
<1>3. CASE root' = [root EXCEPT ![w].says = 1 - @] /\ UNCHANGED heap
  <2>1. PICK l : l = [root[w] EXCEPT !.says = 1 - root[w].says]
    OBVIOUS
  <2>2. root[w] \in CryptLists(p, w) /\ root[w].says \in 0..1
    BY <1>2 DEF CryptLists
  <2>3. 1 - root[w].says \in 0..1
    BY <2>2
  <2>4. l \in CryptLists(p, w)
    BY <2>1, <2>2, <2>3 DEF CryptLists
  <2>5. root' = [root EXCEPT ![w] = l]
    BY <1>3, <2>1
  <2>6. Owned(p)'
    BY <1>2, <1>3, <2>4, <2>5 DEF Owned
  <2>7. OthersKept(w)
    BY <1>2, <1>3, <2>5 DEF OthersKept
  <2> QED BY <2>6, <2>7 DEF Separate
<1>4. ASSUME NEW a \in 1..Len(heap), NEW sort \in Sorts, p[a] = <<w, sort>>, NEW x,
             sort = "word" => x \in 0..1,
             sort = "definitions" => x \in Seq(SecretDefinitions(p, w)),
             sort = "crypts" => x \in Seq(Crypts(p, w)),
             heap' = [heap EXCEPT ![a] = x], UNCHANGED root
      PROVE  Separate' /\ OthersKept(w)
  <2>1. Laid(heap', p) /\ \A u \in Holders : u # w => Keeps(heap, p, heap', u)
    BY <1>2, <1>4, Rewritten
  <2>2. Owned(p)'
    BY <1>2, <1>4, <2>1 DEF Owned
  <2>3. ASSUME NEW v \in Holders, v # w
        PROVE  View(heap', root'[v]) = View(heap, root[v])
    <3>1. Keeps(heap, p, heap', v) /\ root[v] \in CryptLists(p, v)
      BY <1>2, <2>1, <2>3
    <3>2. PICK g : g = heap'
      OBVIOUS
    <3>3. View(g, root[v]) = View(heap, root[v])
      BY <1>2, <3>1, <3>2, SameView
    <3> QED BY <1>4, <3>2, <3>3
  <2> QED BY <2>2, <2>3 DEF OthersKept, Separate
<1>5. ASSUME NEW a \in Words(w), heap' = [heap EXCEPT ![a] = 1 - @], UNCHANGED root
      PROVE  Separate' /\ OthersKept(w)
  <2>1. a \in 1..Len(heap) /\ p[a] = <<w, "word">>
    BY <1>1, ReachesOwn
  <2>2. heap[a] \in 0..1
    BY <1>2, <2>1 DEF Laid, Fits
  <2>3. PICK x : x = 1 - heap[a]
    OBVIOUS
  <2>4. x \in 0..1 /\ heap' = [heap EXCEPT ![a] = x]
    BY <1>5, <2>2, <2>3
  <2>5. "word" \in Sorts /\ "word" # "definitions" /\ "word" # "crypts"
    BY DEF Sorts
  <2> QED BY <1>4, <1>5, <2>1, <2>4, <2>5
<1>6. ASSUME NEW a \in Slices(w), NEW i \in DOMAIN heap[a],
             heap' = [heap EXCEPT ![a][i].says = 1 - @], UNCHANGED root
      PROVE  Separate' /\ OthersKept(w)
  <2>1. a \in 1..Len(heap) /\ p[a] \in {<<w, "definitions">>, <<w, "crypts">>}
    BY <1>1, ReachesOwn
  <2>2. PICK s : s = heap[a]
    OBVIOUS
  <2>3. PICK e : e = [s[i] EXCEPT !.says = 1 - s[i].says]
    OBVIOUS
  <2>4. PICK x : x = [s EXCEPT ![i] = e]
    OBVIOUS
  <2>5. heap' = [heap EXCEPT ![a] = x]
    BY <1>6, <2>2, <2>3, <2>4
  <2>6. CASE p[a] = <<w, "definitions">>
    <3>1. s \in Seq(SecretDefinitions(p, w)) /\ i \in DOMAIN s
      BY <1>2, <1>6, <2>1, <2>2, <2>6 DEF Laid, Fits
    <3>2. s[i] \in SecretDefinitions(p, w)
      BY <3>1
    <3>3. s[i].says \in 0..1
      BY <3>2 DEF SecretDefinitions
    <3>4. 1 - s[i].says \in 0..1
      BY <3>3
    <3>5. e \in SecretDefinitions(p, w)
      BY <2>3, <3>2, <3>4 DEF SecretDefinitions
    <3>6. x \in Seq(SecretDefinitions(p, w))
      BY <2>4, <3>1, <3>5
    <3>7. /\ "definitions" \in Sorts
          /\ "definitions" # "word"
          /\ "definitions" # "crypts"
      BY DEF Sorts
    <3> QED BY <1>4, <1>6, <2>1, <2>5, <2>6, <3>6, <3>7
  <2>7. CASE p[a] = <<w, "crypts">>
    <3>1. s \in Seq(Crypts(p, w)) /\ i \in DOMAIN s
      BY <1>2, <1>6, <2>1, <2>2, <2>7 DEF Laid, Fits
    <3>2. s[i] \in Crypts(p, w)
      BY <3>1
    <3>3. s[i].says \in 0..1
      BY <3>2 DEF Crypts
    <3>4. 1 - s[i].says \in 0..1
      BY <3>3
    <3>5. e \in Crypts(p, w)
      BY <2>3, <3>2, <3>4 DEF Crypts
    <3>6. x \in Seq(Crypts(p, w))
      BY <2>4, <3>1, <3>5
    <3>7. /\ "crypts" \in Sorts
          /\ "crypts" # "word"
          /\ "crypts" # "definitions"
      BY DEF Sorts
    <3> QED BY <1>4, <1>6, <2>1, <2>5, <2>7, <3>6, <3>7
  <2> QED BY <2>1, <2>6, <2>7
<1> QED BY <1>3, <1>5, <1>6 DEF Write

\* Each step keeps what is not its target's, and a copy is as its original.
LEMMA StepsSeparate ==
  ASSUME Separate, CopiesAreEqual, [DCNext]_dcVars
  PROVE  /\ Separate'
         /\ CopiesAreEqual'
         /\ [OthersKept(last'.to)]_dcVars
<1>1. CASE UNCHANGED dcVars
  BY <1>1 DEF dcVars, Separate, Owned, CopiesAreEqual
<1>2. ASSUME NEW v \in Holders, NEW w \in Holders, DeepCopy(v, w)
      PROVE  Separate' /\ CopiesAreEqual' /\ OthersKept(last'.to)
  <2>1. last'.to = w /\ last'.from = v
    BY <1>2 DEF DeepCopy, Step
  <2> QED BY <1>2, <2>1, CopySteps DEF CopiesAreEqual
<1>3. ASSUME NEW v \in Holders, Write(v)
      PROVE  Separate' /\ CopiesAreEqual' /\ OthersKept(last'.to)
  <2>1. last'.to = v /\ last'.op # "copy"
    BY <1>3 DEF Write, Step
  <2> QED BY <1>3, <2>1, WriteSteps DEF CopiesAreEqual
<1> QED BY <1>1, <1>2, <1>3 DEF DCNext

\* The invariant, by induction over the steps.
LEMMA SeparateHolds == DCSpec => [](Separate /\ CopiesAreEqual)
<1>1. DCInit => CopiesAreEqual
  BY DEF DCInit, CopiesAreEqual, Step
<1> QED BY <1>1, InitSeparate, StepsSeparate, PTL DEF DCSpec

\* For any lists, holders, copies and writes, a copy says what its original
\* says, and nil is copied as nil.
THEOREM CopiesEqual == DCSpec => []CopiesAreEqual
  BY SeparateHolds, PTL

\* Whatever is written to a list or copied to it, nobody else sees a change.
THEOREM CopiesIndependent == DCSpec => CopiesAreIndependent
<1>1. Separate /\ CopiesAreEqual /\ [DCNext]_dcVars
        => [\A v \in Holders :
              v # last'.to => View(heap, root[v])' = View(heap, root[v])]_dcVars
  BY StepsSeparate DEF OthersKept
<1> QED BY <1>1, SeparateHolds, PTL DEF DCSpec, CopiesAreIndependent
=============================================================================

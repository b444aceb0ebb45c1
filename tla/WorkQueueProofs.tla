-------------------------- MODULE WorkQueueProofs ---------------------------
(***************************************************************************)
(* The work queue is a pending set, for every set of keys.                 *)
(***************************************************************************)
EXTENDS WorkQueue, TLAPS

\* A key is in the queue exactly when it is at one of its places.
LEMMA InToSet ==
  ASSUME NEW S, NEW seq \in Seq(S), NEW x
  PROVE  x \in ToSet(seq) <=> \E i \in 1..Len(seq) : seq[i] = x
  BY DEF ToSet

\* Append adds its element, Tail of a sequence without duplicates loses Head.
LEMMA ToSetAppend ==
  ASSUME NEW S, NEW seq \in Seq(S), NEW x \in S
  PROVE  ToSet(Append(seq, x)) = ToSet(seq) \cup {x}
<1> DEFINE new == Append(seq, x)
<1>1. new \in Seq(S) /\ Len(new) = Len(seq) + 1 /\ new[Len(seq) + 1] = x
  OBVIOUS
<1>2. \A i \in 1..Len(seq) : new[i] = seq[i]
  OBVIOUS
<1>3. ASSUME NEW y PROVE y \in ToSet(new) <=> y \in ToSet(seq) \cup {x}
  <2>1. y \in ToSet(new) <=> \E i \in 1..Len(new) : new[i] = y
    BY <1>1, InToSet
  <2>2. y \in ToSet(seq) <=> \E i \in 1..Len(seq) : seq[i] = y
    BY InToSet
  <2> QED BY <1>1, <1>2, <2>1, <2>2
<1> QED BY <1>3

NoDuplicates(seq) == \A i, j \in 1..Len(seq) : i # j => seq[i] # seq[j]

LEMMA ToSetTail ==
  ASSUME NEW S, NEW seq \in Seq(S), seq # <<>>, NoDuplicates(seq)
  PROVE  ToSet(Tail(seq)) = ToSet(seq) \ {Head(seq)}
<1> DEFINE new == Tail(seq)
<1>1. new \in Seq(S) /\ Len(seq) \in Nat \ {0} /\ Len(new) = Len(seq) - 1
      /\ Head(seq) = seq[1]
  OBVIOUS
<1>2. \A i \in 1..Len(new) : new[i] = seq[i + 1]
  OBVIOUS
<1>3. ASSUME NEW y PROVE y \in ToSet(new) <=> y \in ToSet(seq) \ {Head(seq)}
  <2>1. y \in ToSet(new) <=> \E i \in 1..Len(new) : new[i] = y
    BY <1>1, InToSet
  <2>2. y \in ToSet(seq) <=> \E i \in 1..Len(seq) : seq[i] = y
    BY InToSet
  <2>3. ASSUME y \in ToSet(new) PROVE y \in ToSet(seq) \ {Head(seq)}
    <3>1. PICK i \in 1..Len(new) : new[i] = y
      BY <2>1, <2>3
    <3>2. i + 1 \in 1..Len(seq) /\ seq[i + 1] = y /\ i + 1 # 1
      BY <1>1, <1>2, <3>1
    <3>3. y # seq[1]
      BY <1>1, <3>2 DEF NoDuplicates
    <3> QED BY <1>1, <2>2, <3>2, <3>3
  <2>4. ASSUME y \in ToSet(seq) \ {Head(seq)} PROVE y \in ToSet(new)
    <3>1. PICK i \in 1..Len(seq) : seq[i] = y
      BY <2>2, <2>4
    <3>2. i # 1 /\ i - 1 \in 1..Len(new) /\ new[i - 1] = y
      BY <1>1, <1>2, <2>4, <3>1
    <3> QED BY <2>1, <3>2
  <2> QED BY <2>3, <2>4
<1> QED BY <1>3
-----------------------------------------------------------------------------
WQInv == WQTypeOK /\ QueueIsDirtyIdle

LEMMA WQInitInv == WQInit => WQInv
  BY DEF WQInit, WQInv, WQTypeOK, QueueIsDirtyIdle, ToSet

\* The four operations, one by one: each keeps the invariant.
LEMMA AddKeepsInv ==
  ASSUME WQInv, NEW keys \in SUBSET Items, AddRateLimited(keys)
  PROVE  WQInv'
  BY DEF WQInv, WQTypeOK, QueueIsDirtyIdle, AddRateLimited, ToSet

\* A key is appended once more only when it is not in the queue yet.
LEMMA AppendKeepsDistinct ==
  ASSUME NEW S, NEW seq \in Seq(S), NEW x \in S, NoDuplicates(seq),
         x \notin ToSet(seq)
  PROVE  NoDuplicates(Append(seq, x))
<1> DEFINE new == Append(seq, x)
<1>1. /\ new \in Seq(S) /\ Len(new) = Len(seq) + 1
      /\ new[Len(seq) + 1] = x
      /\ \A i \in 1..Len(seq) : new[i] = seq[i]
  OBVIOUS
<1>2. \A i \in 1..Len(seq) : seq[i] # x
  BY InToSet
<1> QED BY <1>1, <1>2 DEF NoDuplicates

LEMMA RipenKeepsInv ==
  ASSUME WQInv, NEW k \in Items, Ripen(k)
  PROVE  WQInv'
<1>1. NoDuplicates(queue) /\ ToSet(queue) = dirty \ processing
  BY DEF WQInv, QueueIsDirtyIdle, NoDuplicates
<1>2. WQTypeOK'
  BY DEF WQInv, WQTypeOK, Ripen
<1>3. CASE k \in dirty \cup processing
  BY <1>1, <1>2, <1>3 DEF WQInv, WQTypeOK, QueueIsDirtyIdle, Ripen, NoDuplicates
<1>4. CASE k \notin dirty \cup processing
  <2>1. queue' = Append(queue, k) /\ queue \in Seq(Items)
    BY <1>4 DEF Ripen, WQInv, WQTypeOK
  <2>2. ToSet(queue') = ToSet(queue) \cup {k}
    BY <2>1, ToSetAppend
  <2>3. NoDuplicates(queue')
    BY <1>1, <1>4, <2>1, AppendKeepsDistinct
  <2> QED BY <1>1, <1>2, <1>4, <2>2, <2>3 DEF WQInv, QueueIsDirtyIdle, Ripen, NoDuplicates
<1> QED BY <1>3, <1>4

LEMMA GetKeepsInv ==
  ASSUME WQInv, Get
  PROVE  /\ WQInv'
         /\ Head(queue) \in Items
         /\ Head(queue) \in dirty \ processing
<1>1. NoDuplicates(queue) /\ ToSet(queue) = dirty \ processing
      /\ queue \in Seq(Items) /\ queue # <<>>
  BY DEF WQInv, WQTypeOK, QueueIsDirtyIdle, NoDuplicates, Get
<1>2. Head(queue) \in Items /\ Head(queue) = queue[1] /\ 1 \in 1..Len(queue)
      /\ Tail(queue) \in Seq(Items)
  BY <1>1
<1>3. Head(queue) \in ToSet(queue)
  BY <1>1, <1>2, InToSet
<1>4. ToSet(Tail(queue)) = ToSet(queue) \ {Head(queue)}
  BY <1>1, ToSetTail
<1>5. NoDuplicates(Tail(queue))
  <2>1. Len(Tail(queue)) = Len(queue) - 1
        /\ \A i \in 1..Len(Tail(queue)) : Tail(queue)[i] = queue[i + 1]
    BY <1>1
  <2> QED BY <1>1, <2>1 DEF NoDuplicates
<1>6. WQTypeOK'
  BY <1>2 DEF WQInv, WQTypeOK, Get
<1>7. QueueIsDirtyIdle'
  BY <1>1, <1>3, <1>4, <1>5 DEF QueueIsDirtyIdle, Get, NoDuplicates
<1> QED BY <1>1, <1>2, <1>3, <1>6, <1>7 DEF WQInv

LEMMA DoneKeepsInv ==
  ASSUME WQInv, NEW k \in Items, Done(k)
  PROVE  WQInv'
<1>1. /\ NoDuplicates(queue) /\ ToSet(queue) = dirty \ processing
      /\ queue \in Seq(Items) /\ k \in processing
      /\ processing' = processing \ {k} /\ dirty' = dirty
  BY DEF WQInv, WQTypeOK, QueueIsDirtyIdle, NoDuplicates, Done
<1>2. WQTypeOK'
  BY DEF WQInv, WQTypeOK, Done
<1>3. CASE k \in dirty
  <2>1. queue' = Append(queue, k)
    BY <1>3 DEF Done
  <2>2. ToSet(queue') = ToSet(queue) \cup {k}
    BY <1>1, <2>1, ToSetAppend
  <2>3. NoDuplicates(queue')
    BY <1>1, <2>1, AppendKeepsDistinct
  <2> QED BY <1>1, <1>2, <1>3, <2>2, <2>3 DEF WQInv, QueueIsDirtyIdle, NoDuplicates
<1>4. CASE k \notin dirty
  BY <1>1, <1>2, <1>4 DEF WQInv, QueueIsDirtyIdle, Done, NoDuplicates
<1> QED BY <1>3, <1>4

LEMMA WQNextInv ==
  ASSUME WQInv, [WQNext]_wqVars
  PROVE  WQInv'
<1>1. CASE UNCHANGED wqVars
  BY <1>1 DEF WQInv, WQTypeOK, QueueIsDirtyIdle, wqVars, ToSet
<1>2. CASE WQNext
  BY <1>2, AddKeepsInv, RipenKeepsInv, GetKeepsInv, DoneKeepsInv DEF WQNext
<1> QED BY <1>1, <1>2

\* The queue always holds the dirty keys that nobody holds, each once: the keys
\* handed to two workers at a time are different, and none is lost.
THEOREM QueueCorrect == WQSpec => []QueueIsDirtyIdle
<1>1. WQInit => WQInv
  BY WQInitInv
<1>2. WQInv /\ [WQNext]_wqVars => WQInv'
  BY WQNextInv
<1>3. WQInv => QueueIsDirtyIdle
  BY DEF WQInv
<1> QED BY <1>1, <1>2, <1>3, PTL DEF WQSpec

\* The work queue of the controller implements a pending set: every addition is
\* kept until a worker takes the key, and no key is held by two workers.
THEOREM QueueImplementsPendingSet == WQSpec => ImplementsPendingSet
<1>1. WQInit => PS!Init
  BY DEF WQInit, PS!Init
<1>2. ASSUME WQInv, [WQNext]_wqVars PROVE [PS!Next]_(PS!vars)
  <2>1. CASE UNCHANGED wqVars
    BY <2>1 DEF wqVars, PS!vars
  <2>2. ASSUME NEW keys \in SUBSET Items, AddRateLimited(keys)
        PROVE  [PS!Next]_(PS!vars)
    BY <2>2 DEF AddRateLimited, PS!Next, PS!Request, PS!vars
  <2>3. ASSUME NEW k \in Items, Ripen(k) PROVE [PS!Next]_(PS!vars)
    BY <2>3 DEF Ripen, PS!vars
  <2>4. ASSUME NEW k \in Items, Done(k) PROVE [PS!Next]_(PS!vars)
    BY <2>4 DEF Done, PS!Next, PS!Release
  <2>5. CASE Get
    <3>1. Head(queue) \in Items /\ Head(queue) \in dirty \ processing
      BY <1>2, <2>5, GetKeepsInv
    <3> QED BY <2>5, <3>1 DEF Get, PS!Next, PS!Take
  <2> QED BY <1>2, <2>1, <2>2, <2>3, <2>4, <2>5 DEF WQNext
<1>3. WQInit => WQInv
  BY WQInitInv
<1>4. WQInv /\ [WQNext]_wqVars => WQInv'
  BY WQNextInv
<1> QED BY <1>1, <1>2, <1>3, <1>4, PTL DEF WQSpec, ImplementsPendingSet, PS!Spec
=============================================================================

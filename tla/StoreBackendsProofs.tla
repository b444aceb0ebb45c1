------------------------ MODULE StoreBackendsProofs ------------------------
(***************************************************************************)
(* Theorems about StoreBackends, for all fields and values.                *)
(***************************************************************************)
EXTENDS StoreBackends, TLAPS

\* What a server may hold for the backend that reads it: only consul's holds
\* something else than a map.
HeldInv ==
  held \in Held \/ (held \in Plain /\ (held.is = Absent \/ backend.type = "consul"))

StoreInv == HeldInv /\ WholeOrNothing /\ ConsulServesDataModel

\* What the values of each kind look like.
LEMMA ValuesTyped ==
  /\ \A v \in Held : v.is = "map" /\ v.map \in Maps
  /\ \A v \in Plain : v.is \in {"null", "not a map", Absent} /\ v.is # "map"
<1>1. ASSUME NEW m PROVE [is |-> "map", map |-> m].is = "map" /\ [is |-> "map", map |-> m].map = m
  OBVIOUS
<1>2. \A v \in Held : v.is = "map" /\ v.map \in Maps
  BY <1>1 DEF Held
<1>3. ASSUME NEW v \in {"null", "not a map", Absent}, NEW none
      PROVE  [is |-> v, map |-> none].is = v
  OBVIOUS
<1>4. \A v \in Plain : v.is \in {"null", "not a map", Absent}
  BY <1>3 DEF Plain
<1> QED BY <1>2, <1>4 DEF Absent

\* A map is a function from some of the fields to kinds of values.
LEMMA MapsTyped ==
  ASSUME NEW m \in Maps
  PROVE  m \in [DOMAIN m -> Kinds]
  BY DEF Maps

\* Decoding that fails for no entry gives what the map says; a map of the data
\* model always decodes.
LEMMA UnmarshalWhole ==
  ASSUME NEW m \in Maps
  PROVE  /\ Unmarshal(m).ok => Unmarshal(m).obj = [f \in DOMAIN m |-> Bytes(m[f])]
         /\ (\A f \in DOMAIN m : m[f] = "base64") => Unmarshal(m).ok
<1> DEFINE good == {f \in DOMAIN m : Bytes(m[f]) # "error"}
<1>1. Unmarshal(m) = [obj |-> [f \in good |-> Bytes(m[f])], ok |-> good = DOMAIN m]
  BY DEF Unmarshal
<1>2. Unmarshal(m).obj = [f \in good |-> Bytes(m[f])]
      /\ (Unmarshal(m).ok <=> good = DOMAIN m)
  <2> DEFINE obj == [f \in good |-> Bytes(m[f])]
             ok == good = DOMAIN m
  <2>1. Unmarshal(m) = [obj |-> obj, ok |-> ok]
    BY <1>1
  <2>2. Unmarshal(m).obj = obj /\ Unmarshal(m).ok = ok
    <3> HIDE DEF obj, ok
    <3> QED BY <2>1
  <2> QED BY <2>2
<1>3. ASSUME \A f \in DOMAIN m : m[f] = "base64" PROVE good = DOMAIN m
  BY <1>3 DEF Bytes
<1> QED BY <1>2, <1>3

\* The outcomes of a Get.
LEMMA FailedFails == \A err : Failed(err).err = err
<1> SUFFICES ASSUME NEW err PROVE Failed(err).err = err
  OBVIOUS
<1> DEFINE none == <<>>
<1>1. Failed(err) = [err |-> err, obj |-> none]
  BY DEF Failed
<1> HIDE DEF none
<1> QED BY <1>1

LEMMA FoundFinds == \A obj : Found(obj).err = "none" /\ Found(obj).obj = obj
  BY DEF Found

\* A consul Get succeeds with all that the value says, and refuses none of the
\* data model.
LEMMA ConsulWhole ==
  ASSUME NEW value \in Held \cup Plain
  PROVE  /\ ConsulGet(value).err = "none" =>
              value.is # Absent /\ ConsulGet(value).obj = Says(value)
         /\ ConsulGet(value).err = "invalid data" => ~InDataModel(value)
<1>1. CASE ~reachable
  <2>1. ConsulGet(value) = Failed("request failed")
    BY <1>1 DEF ConsulGet
  <2>2. ConsulGet(value).err = "request failed"
    BY <2>1, FailedFails
  <2> QED BY <2>2
<1>2. CASE reachable /\ value \in Plain
  <2>1. value.is \in {"null", "not a map", Absent}
    BY <1>2, ValuesTyped
  <2>2. value.is # "map" /\ ~InDataModel(value)
    BY <2>1 DEF InDataModel, Absent
  <2>3. CASE value.is = Absent
    <3>1. ConsulGet(value) = Failed("key not found")
      BY <1>2, <2>3 DEF ConsulGet, Absent
    <3> QED BY <2>2, <3>1, FailedFails
  <2>4. CASE value.is = "null"
    <3>1. ConsulGet(value) = Found(<<>>) /\ value.is # Absent
      BY <1>2, <2>4 DEF ConsulGet, Absent
    <3>2. Says(value) = <<>>
      BY <2>2 DEF Says
    <3> HIDE DEF Found
    <3> QED BY <3>1, <3>2, FoundFinds
  <2>5. CASE value.is = "not a map"
    <3>1. ConsulGet(value) = Failed("invalid data")
      BY <1>2, <2>5 DEF ConsulGet, Absent
    <3> QED BY <2>2, <3>1, FailedFails
  <2> QED BY <2>1, <2>3, <2>4, <2>5
<1>3. CASE reachable /\ value \in Held
  <2>1. value.is = "map" /\ value.map \in Maps
    BY <1>3, ValuesTyped
  <2> DEFINE u == Unmarshal(value.map)
  <2>2. ConsulGet(value) = IF u.ok THEN Found(u.obj) ELSE Failed("invalid data")
    BY <1>3, <2>1 DEF ConsulGet, Absent
  <2>3. /\ u.ok => u.obj = Says(value)
        /\ InDataModel(value) => u.ok
    BY <2>1, UnmarshalWhole DEF Says, InDataModel
  <2>4. value.is # Absent
    BY <2>1 DEF Absent
  <2>5. CASE u.ok
    <3>1. ConsulGet(value).err = "none" /\ ConsulGet(value).obj = Says(value)
      BY <2>2, <2>3, <2>5, FoundFinds
    <3> QED BY <2>4, <3>1
  <2>6. CASE ~u.ok
    <3>1. ConsulGet(value).err = "invalid data" /\ ~InDataModel(value)
      BY <2>2, <2>3, <2>6, FailedFails
    <3> QED BY <3>1
  <2> QED BY <2>5, <2>6
<1> QED BY <1>1, <1>2, <1>3

\* A vault Get succeeds only with the empty map: a decoded entry is never a []byte.
LEMMA VaultWhole ==
  ASSUME NEW value \in Held \cup Plain, value \in Plain => value.is = Absent
  PROVE  VaultGet(value).err = "none" =>
           value.is # Absent /\ VaultGet(value).obj = Says(value)
<1>1. CASE ~reachable
  BY <1>1, FailedFails DEF VaultGet
<1>2. CASE reachable /\ value.is = Absent
  BY <1>2, FailedFails DEF VaultGet
<1>3. CASE reachable /\ value.is # Absent
  <2>1. value.is = "map" /\ value.map \in [DOMAIN value.map -> Kinds]
    BY <1>3, ValuesTyped, MapsTyped
  <2> DEFINE m == value.map
             data == Response(value)
  <2>2. VaultGet(value) = dataToObject(data)
    BY <1>3 DEF VaultGet
  <2>3. \A f \in DOMAIN m : GoType(m[f]) # "[]byte"
    BY <2>1 DEF GoType, Kinds
  <2>4. CASE backend.mount = "kv2"
    <3>1. "data" \in DOMAIN data /\ data["data"] # "[]byte"
      BY <2>4 DEF Response
    <3> HIDE DEF data
    <3> QED BY <2>2, <3>1, FailedFails DEF dataToObject
  <2>5. CASE backend.mount # "kv2"
    <3>1. data = [f \in DOMAIN m |-> GoType(m[f])]
      BY <2>5 DEF Response
    <3>2. DOMAIN data = DOMAIN m /\ \A f \in DOMAIN m : data[f] # "[]byte"
      BY <2>3, <3>1
    <3>3. ASSUME DOMAIN m # {} PROVE VaultGet(value).err = "invalid data"
      <4> HIDE DEF data, m
      <4> QED BY <2>2, <3>2, <3>3, FailedFails DEF dataToObject
    <3>4. ASSUME DOMAIN m = {} PROVE VaultGet(value).obj = Says(value)
      <4>1. VaultGet(value).obj = [f \in DOMAIN data |-> "bytes"]
        <5> HIDE DEF data, m
        <5> QED BY <2>2, <3>2, <3>4, FoundFinds DEF dataToObject
      <4>2. Says(value) = [f \in DOMAIN m |-> Bytes(m[f])]
        BY <2>1 DEF Says
      <4> HIDE DEF data, m
      <4> QED BY <3>2, <3>4, <4>1, <4>2
    <3> QED BY <1>3, <3>3, <3>4
  <2> QED BY <2>4, <2>5
<1> QED BY <1>1, <1>2, <1>3

LEMMA InitStores == Init => StoreInv
<1> SUFFICES ASSUME Init PROVE StoreInv
  OBVIOUS
<1>1. answer.err = "none yet"
  <2> DEFINE of == [is |-> Absent, map |-> <<>>]
             obj == <<>>
  <2>1. answer = [of |-> of, by |-> "none", err |-> "none yet", obj |-> obj]
    BY DEF Init, NoAnswer
  <2> HIDE DEF of, obj
  <2> QED BY <2>1
<1>2. held \in Plain /\ held.is = Absent
  BY DEF Init, Plain
<1> QED BY <1>1, <1>2 DEF StoreInv, HeldInv, WholeOrNothing, ConsulServesDataModel

LEMMA NextStores ==
  ASSUME StoreInv, [Next]_vars
  PROVE  StoreInv'
<1> USE DEF StoreInv
<1>1. ASSUME UNCHANGED answer PROVE WholeOrNothing' /\ ConsulServesDataModel'
  BY <1>1 DEF WholeOrNothing, ConsulServesDataModel, Says, InDataModel
<1>2. ASSUME NEW s \in Spellings, Make(s) PROVE StoreInv'
  <2>1. UNCHANGED <<held, answer>> /\ backend.type # "consul"
    BY <1>2 DEF Make, NoBackend
  <2>2. HeldInv'
    BY <2>1 DEF HeldInv
  <2> QED BY <1>1, <2>1, <2>2
<1>3. ASSUME NEW value \in Held \cup Plain, Put(value) PROVE StoreInv'
  BY <1>1, <1>3 DEF Put, HeldInv
<1>4. CASE Outage \/ UNCHANGED vars
  BY <1>1, <1>4 DEF Outage, vars, HeldInv
<1>5. CASE Get
  <2> DEFINE r == IF backend.type = "consul" THEN ConsulGet(held) ELSE VaultGet(held)
  <2>1. answer' = [of |-> held, by |-> backend.type, err |-> r.err, obj |-> r.obj]
        /\ UNCHANGED <<backend, held>>
    BY <1>5 DEF Get
  <2>2. held \in Held \cup Plain
    BY DEF HeldInv
  <2>3. r.err = "none" => held.is # Absent /\ r.obj = Says(held)
    <3>1. CASE backend.type = "consul"
      BY <2>2, <3>1, ConsulWhole
    <3>2. CASE backend.type # "consul"
      <4>1. held \in Plain => held.is = Absent
        BY <3>2, ValuesTyped DEF HeldInv
      <4> QED BY <2>2, <3>2, <4>1, VaultWhole
    <3> QED BY <3>1, <3>2
  <2>4. backend.type = "consul" /\ r.err = "invalid data" => ~InDataModel(held)
    BY <2>2, ConsulWhole
  <2> HIDE DEF r
  <2>7. /\ answer'.of = held /\ answer'.by = backend.type
        /\ answer'.err = r.err /\ answer'.obj = r.obj
    BY <2>1
  <2>5. WholeOrNothing' /\ ConsulServesDataModel'
    BY <2>3, <2>4, <2>7 DEF WholeOrNothing, ConsulServesDataModel, Says, InDataModel
  <2>6. HeldInv'
    BY <2>1 DEF HeldInv
  <2> QED BY <2>5, <2>6
<1> QED BY <1>2, <1>3, <1>4, <1>5 DEF Next

\* A Get of either backend returns everything its key holds or fails, whatever
\* was put there and however the server's reachability changes.
THEOREM GetsAreWhole == Spec => []WholeOrNothing
<1>1. StoreInv => WholeOrNothing
  BY DEF StoreInv
<1> QED BY <1>1, InitStores, NextStores, PTL DEF Spec

\* Consul never calls a value of the data model invalid.
THEOREM ConsulAcceptsDataModel == Spec => []ConsulServesDataModel
<1>1. StoreInv => ConsulServesDataModel
  BY DEF StoreInv
<1> QED BY <1>1, InitStores, NextStores, PTL DEF Spec
=============================================================================

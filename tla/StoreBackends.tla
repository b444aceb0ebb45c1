--------------------------- MODULE StoreBackends ----------------------------
(***************************************************************************)
(* The stores behind store.Store and the factory that makes one: what a    *)
(* Get returns for what the server holds, and the data createSecret then   *)
(* puts into the secret.  A value is told apart by what decoding it does.  *)
(***************************************************************************)
EXTENDS SequencesExt

CONSTANTS
  Fields,       \* names of the entries of a stored map
  Spellings,    \* what STORE_TYPE may be set to
  Normal        \* Normal[s]: s in lower case and without surrounding space

\* JSON values an entry of the map may have.
Kinds == {"base64", "text", "number", "null", "array of bytes"}
Maps == UNION {[F -> Kinds] : F \in SUBSET Fields}

\* What the server holds under the key.  Only consul holds plain bytes.
Absent == "absent"
Held == {[is |-> "map", map |-> m] : m \in Maps}
Plain == {[is |-> v, map |-> <<>>] : v \in {"null", "not a map", Absent}}

NoBackend == [type |-> "none", mount |-> "none"]
NoAnswer == [of |-> [is |-> Absent, map |-> <<>>], by |-> "none",
             err |-> "none yet", obj |-> <<>>]

VARIABLES
  backend,      \* the store the factory made
  held,         \* what the server holds under the key
  reachable,    \* whether the server answers
  answer        \* the last Get: what it was asked of and what came back

vars == <<backend, held, reachable, answer>>

Init ==
  /\ backend = NoBackend
  /\ held = [is |-> Absent, map |-> <<>>]
  /\ reachable = TRUE
  /\ answer = NoAnswer
-----------------------------------------------------------------------------
\* The clients are configured from the environment alone.  The mount of a vault is
\* one of key-value engine 1 or 2, whichever the server has at "secret/".
Make(storeType) ==
  /\ backend = NoBackend
  /\ \/ /\ Normal[storeType] = "consul"
        /\ backend' = [type |-> "consul", mount |-> "kv"]
     \/ /\ Normal[storeType] = "vault"
        /\ \E mount \in {"kv1", "kv2"} :
             backend' = [type |-> "vault", mount |-> mount]
  /\ UNCHANGED <<held, reachable, answer>>

Put(value) ==
  /\ value \in Plain => backend.type = "consul" \/ value.is = Absent
  /\ held' = value
  /\ UNCHANGED <<backend, reachable, answer>>

Outage ==
  /\ reachable' = ~reachable
  /\ UNCHANGED <<backend, held, answer>>
-----------------------------------------------------------------------------
Found(obj) == [err |-> "none", obj |-> obj]
Failed(err) == [err |-> err, obj |-> <<>>]

\* json.Unmarshal of an entry into a []byte: a string must be base64, an array
\* of small numbers is taken as it is, null gives no bytes.
Bytes(kind) ==
  CASE kind \in {"base64", "array of bytes"} -> "bytes"
    [] kind = "null" -> "no bytes"
    [] OTHER -> "error"

\* json.Unmarshal goes on after an entry of a wrong type, and fails at the end.
Unmarshal(m) ==
  LET good == {f \in DOMAIN m : Bytes(m[f]) # "error"} IN
  [obj |-> [f \in good |-> Bytes(m[f])], ok |-> good = DOMAIN m]

\* The Go type of an entry of vault's Secret.Data, which its client decodes from
\* JSON without a target type.
GoType(kind) ==
  CASE kind \in {"base64", "text"} -> "string"
    [] kind = "number" -> "json.Number"
    [] kind = "null" -> "nil"
    [] OTHER -> kind

dataToObject(data) ==
  IF \E f \in DOMAIN data : data[f] # "[]byte"
  THEN Failed("invalid data")
  ELSE Found([f \in DOMAIN data |-> "bytes"])

\* Mutant of ConsulGet: the map is decoded into interface{} values first.
ConsulGetUntyped(value) ==
  IF ~reachable THEN Failed("request failed")
  ELSE CASE value.is = Absent -> Failed("key not found")
         [] value.is \in {"null", "not a map"} -> Failed("invalid data")
         [] value.is = "map" ->
              dataToObject([f \in DOMAIN value.map |-> GoType(value.map[f])])

\* Mutant of ConsulGet: the entries that did decode are returned.
ConsulGetPartial(value) ==
  IF ~reachable THEN Failed("request failed")
  ELSE CASE value.is = Absent -> Failed("key not found")
         [] value.is = "null" -> Found(<<>>)
         [] value.is = "not a map" -> Failed("invalid data")
         [] value.is = "map" -> Found(Unmarshal(value.map).obj)

\* The JSON value null decodes into a map without an error: into none.
ConsulGet(value) ==
  IF ~reachable THEN Failed("request failed")
  ELSE CASE value.is = Absent -> Failed("key not found")
         [] value.is = "null" -> Found(<<>>)
         [] value.is = "not a map" -> Failed("invalid data")
         [] value.is = "map" -> LET u == Unmarshal(value.map) IN
                IF u.ok THEN Found(u.obj) ELSE Failed("invalid data")

\* "secret/data/<key>": engine 2 nests the map under "data", beside "metadata";
\* to engine 1 this is the key "data/<key>", and it answers with the map.
Response(value) ==
  IF backend.mount = "kv2"
  THEN [f \in {"data", "metadata"} |-> "map"]
  ELSE [f \in DOMAIN value.map |-> GoType(value.map[f])]

VaultGet(value) ==
  IF ~reachable THEN Failed("request failed")
  ELSE IF value.is = Absent THEN Failed("key not found")
  ELSE dataToObject(Response(value))

Get ==
  /\ backend # NoBackend
  /\ LET r == IF backend.type = "consul" THEN ConsulGet(held) ELSE VaultGet(held)
     IN answer' = [of |-> held, by |-> backend.type, err |-> r.err, obj |-> r.obj]
  /\ UNCHANGED <<backend, held, reachable>>

Next ==
  \/ \E s \in Spellings : Make(s)
  \/ \E value \in Held \cup Plain : Put(value)
  \/ Outage
  \/ Get

Spec == Init /\ [][Next]_vars
-----------------------------------------------------------------------------
(* Properties. *)

\* README, Data Model: a map of names to base64-encoded values.
InDataModel(value) ==
  value.is = "map" /\ \A f \in DOMAIN value.map : value.map[f] = "base64"

\* What a value says, whichever backend reads it.  Entries without bytes and
\* the empty secret of a null are what the code makes of values outside the
\* data model.
Says(value) ==
  IF value.is = "map" THEN [f \in DOMAIN value.map |-> Bytes(value.map[f])]
                      ELSE <<>>

\* A secret is written with everything its key holds or not at all: Get never
\* succeeds with a part of a map, and never invents one for a missing key.
WholeOrNothing ==
  answer.err = "none" =>
    answer.of.is # Absent /\ answer.obj = Says(answer.of)

\* README, Data Model: "The values stored in the key-values store are expected
\* to be key value maps of type string -> []byte".  Such a value is served.
ServesDataModel ==
  answer.err = "invalid data" => ~InDataModel(answer.of)

\* Consul does: it decodes with the type that the vault store only asserts.
ConsulServesDataModel ==
  answer.by = "consul" /\ answer.err = "invalid data" => ~InDataModel(answer.of)
=============================================================================

-------------------------- MODULE InformerRegistry --------------------------
(***************************************************************************)
(* What a shared informer factory promises: one informer per type, that    *)
(* runs once, and a cache that is synced only after its informer runs.     *)
(***************************************************************************)
EXTENDS Naturals

CONSTANT Types        \* the types of objects

VARIABLES
  made,               \* made[t]: informers made for t
  runs,               \* runs[t]: times an informer for t was run
  synced              \* types whose informer's first list is in its cache

registryVars == <<made, runs, synced>>

RegistryInit ==
  /\ made = [t \in Types |-> 0]
  /\ runs = [t \in Types |-> 0]
  /\ synced = {}

\* The first use of a type makes its informer.
Register(t) ==
  /\ made[t] = 0
  /\ made' = [made EXCEPT ![t] = 1]
  /\ UNCHANGED <<runs, synced>>

\* Registered informers start to run.
Launch(types) ==
  /\ \A t \in types : made[t] = 1 /\ runs[t] = 0
  /\ runs' = [t \in Types |-> IF t \in types THEN 1 ELSE runs[t]]
  /\ UNCHANGED <<made, synced>>

\* HasSynced of a running informer becomes true, and stays so.
Sync(t) ==
  /\ runs[t] = 1 /\ t \notin synced
  /\ synced' = synced \cup {t}
  /\ UNCHANGED <<made, runs>>

RegistryNext ==
  \/ \E t \in Types : Register(t) \/ Sync(t)
  \/ \E types \in SUBSET Types : Launch(types)

RegistrySpec == RegistryInit /\ [][RegistryNext]_registryVars
=============================================================================

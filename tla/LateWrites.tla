----------------------------- MODULE LateWrites -----------------------------
(***************************************************************************)
(* The controller in the company of other processes of its own: a replica  *)
(* a rolling update is about to replace (there is no leader election), or  *)
(* the requests of a process that died, which the API server may apply     *)
(* later.  All of them write without looking at what is there.             *)
(***************************************************************************)
EXTENDS MirroringController

\* Another process writes what it read at some time: version ver of the value
\* of a definition that some crypt once had, created or overwritten.
LateWrite(a, def, n, ver) ==
  LET s == <<n, def.name>>
      secret == [owner |-> a.owner, key |-> def.key, ver |-> ver,
                 type |-> GetType(def)]
  IN /\ Move("late write")
     /\ n \in namespaces
     /\ \E p \in ToSet(a.spec.patterns) : n \in Matches[p]
     /\ secrets[s] # NoSecret => TypeOf(secrets[s]) = secret.type
     /\ secrets' = [secrets EXCEPT ![s] = secret]
     /\ UNCHANGED <<namespaces, crypts, uids, store>>
     /\ UNCHANGED <<watchVars, cacheVars, nsAdded, lookup, queueVars, job>>

LateNext ==
  /\ \/ Next
     \/ \E a \in asked, n \in Namespaces : \E def \in ToSet(a.spec.secrets) :
          \E ver \in 0..store[def.key].ver : LateWrite(a, def, n, ver)
  /\ asked' = asked \cup Asking'
=============================================================================

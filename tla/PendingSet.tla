----------------------------- MODULE PendingSet -----------------------------
(***************************************************************************)
(* What the controller expects of its work queue, with no queue in it: a   *)
(* set of items that still need a sync and a set of items being synced.    *)
(* A request is never forgotten, and an item is never held twice, not even *)
(* when it is requested again while it is held.                            *)
(***************************************************************************)

CONSTANT Items      \* the keys "namespace/name" of crypts

VARIABLES pending,  \* items requested and not yet taken since
          active    \* items taken and not yet released

vars == <<pending, active>>

Init == pending = {} /\ active = {}

Request(keys) == pending' = pending \cup keys /\ UNCHANGED active

\* Several requests may be served by one sync, and a later one of them may
\* still call for a sync of its own.
Take(i) ==
  /\ i \in pending \ active
  /\ pending' \in {pending, pending \ {i}}
  /\ active' = active \cup {i}

Release(i) ==
  /\ i \in active
  /\ active' = active \ {i}
  /\ UNCHANGED pending

Next ==
  \/ \E keys \in SUBSET Items : Request(keys)
  \/ \E i \in Items : Take(i) \/ Release(i)

Spec == Init /\ [][Next]_vars
=============================================================================

------------------------ MODULE MirroringController -------------------------
(***************************************************************************)
(* CryptController with a history of what crypts have asked for, and the   *)
(* proof obligation that it implements SecretMirror.                       *)
(***************************************************************************)
EXTENDS CryptController

VARIABLE asked        \* what each crypt that exists or existed asked for

\* What the crypts that exist ask for.
Asking ==
  {[owner |-> [key |-> k, uid |-> crypts[k].uid], spec |-> crypts[k].spec] :
     k \in {c \in Crypts : crypts[c] # NoCrypt}}

historyVars == <<vars, asked>>

HistoryInit == Init /\ asked = {}
HistoryNext == Next /\ asked' = asked \cup Asking'

HistorySpec == HistoryInit /\ [][HistoryNext]_historyVars
-----------------------------------------------------------------------------
(* Properties. *)

\* Every secret that is ever written is one that a version of its owner asked
\* for, in a namespace that the same version matched, with a value of that
\* version's key that the store had, no older than the one before.  The sync
\* reads crypt, namespaces and store at different times.
Mirror == INSTANCE SecretMirror WITH
            latest <- [key \in StoreKeys |-> store[key].ver]
ImplementsSecretMirror == Mirror!MirrorSpec

\* Crypts whose homes are always there and that share neither home nor name nor the
\* name of a secret.  A version of a crypt gives a secret one key, and no version
\* of it changes the type of a secret; the other edits are free.
Independent ==
  \A a, b \in asked :
    /\ a.owner.key.ns \in InitNamespaces
    /\ a.owner.key # b.owner.key =>
         a.owner.key.ns # b.owner.key.ns /\ a.owner.key.name # b.owner.key.name
    /\ \A d \in ToSet(a.spec.secrets), e \in ToSet(b.spec.secrets) :
         d.name = e.name =>
           /\ a.owner.key = b.owner.key /\ GetType(d) = GetType(e)
           /\ a = b => d.key = e.key

\* The events alone keep such crypts provisioned: when nothing is pending for one,
\* each secret it asks for exists in each namespace it matches, whatever
\* creations, updates and deletions of crypts, namespaces and secrets and which
\* restarts raced with its syncs.  No resync is needed.  What a failed call or
\* another crypt does to a secret is repaired by the resync only.
SettledByEvents == ~moves.faulty /\ Independent => Settled
=============================================================================

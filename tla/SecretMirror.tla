---------------------------- MODULE SecretMirror ----------------------------
(***************************************************************************)
(* What the controller promises about the secrets of a cluster, whoever    *)
(* edits crypts and the store meanwhile: it writes a secret only where and *)
(* as one version of one crypt asked for it, with a value the store has    *)
(* had, and never an older one over its own newer one.                     *)
(***************************************************************************)
EXTENDS Naturals, Sequences

CONSTANTS Namespaces, SecretNames, StoreKeys, Matches, GetType(_), NoSecret,
          Foreign

VARIABLES
  asked,        \* [owner, spec]: what a crypt asked for at some time
  latest,       \* latest[key]: version of the value in the store
  secrets       \* secrets[<<ns, name>>]: a secret, NoSecret or Foreign

mirrorVars == <<asked, latest, secrets>>
SecretIds == Namespaces \X SecretNames

MirrorInit ==
  /\ asked = {}
  /\ latest = [key \in StoreKeys |-> 0]
  /\ secrets = [s \in SecretIds |-> NoSecret]

\* Users create and edit crypts.
Ask == asked \subseteq asked' /\ UNCHANGED <<latest, secrets>>

\* A new value is put into the store.
Publish ==
  /\ \E key \in StoreKeys : latest' = [latest EXCEPT ![key] = @ + 1]
  /\ UNCHANGED <<asked, secrets>>

NotOlder(old, new) ==
  \/ old \in {NoSecret, Foreign}
  \/ old.owner.key = new.owner.key /\ old.key = new.key => old.ver <= new.ver

\* What a asked for as its definition d is written into namespace n: created or
\* overwritten, never with another type.
Mirror(a, d, n, ver) ==
  LET def == a.spec.secrets[d]
      s == <<n, def.name>>
      secret == [owner |-> a.owner, key |-> def.key, ver |-> ver,
                 type |-> GetType(def)]
  IN /\ \E p \in DOMAIN a.spec.patterns : n \in Matches[a.spec.patterns[p]]
     /\ NotOlder(secrets[s], secret)
     /\ secrets[s] \notin {NoSecret, Foreign} => secrets[s].type = secret.type
     /\ secrets' = [secrets EXCEPT ![s] = secret]
     /\ UNCHANGED <<asked, latest>>

\* Users and the garbage collector delete secrets, and users make others.
Disturb ==
  /\ \E ids \in SUBSET SecretIds, other \in {NoSecret, Foreign} :
       secrets' = [s \in SecretIds |-> IF s \in ids THEN other ELSE secrets[s]]
  /\ UNCHANGED <<asked, latest>>

MirrorNext ==
  \/ Ask \/ Publish \/ Disturb
  \/ \E a \in asked, n \in Namespaces : \E d \in DOMAIN a.spec.secrets :
       \E ver \in 0..latest[a.spec.secrets[d].key] : Mirror(a, d, n, ver)

MirrorSpec == MirrorInit /\ [][MirrorNext]_mirrorVars
=============================================================================

-------------------------- MODULE MCStoreBackends ---------------------------
(***************************************************************************)
(* Instances of StoreBackends for TLC.                                     *)
(***************************************************************************)
EXTENDS StoreBackends

CONSTANTS user, password

Both == {"consul", " Consul", "VAULT", "etcd"}
Vault == {"VAULT"}

MCNormal ==
  [s \in {"consul", " Consul", "VAULT", "etcd"} |->
     CASE s \in {"consul", " Consul"} -> "consul"
       [] s = "VAULT" -> "vault"
       [] OTHER -> s]
=============================================================================

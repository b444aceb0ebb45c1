---------------------------- MODULE MCReflector -----------------------------
(***************************************************************************)
(* An instance of Reflector for TLC.                                       *)
(***************************************************************************)
EXTENDS Reflector
=============================================================================

----------------------------- MODULE MCDeepCopy -----------------------------
(***************************************************************************)
(* An instance of DeepCopy for TLC: lists of one crypt with two            *)
(* definitions, with every choice of the fields that are nil.              *)
(***************************************************************************)
EXTENDS DeepCopy

Fields == {"items", "meta", "secrets", "namespaces", "labels", "annotations"}

\* The cells of the definitions come before the slice of them, and so on.
Built(nil, definitions) ==
  LET Ref(f, address) == IF f \in nil THEN Nil ELSE address IN
  [heap |-> << 0, 0, 0, 0, definitions,
               0,
               << [says |-> 0, meta |-> Ref("meta", 4),
                   secrets |-> Ref("secrets", 5),
                   namespaces |-> Ref("namespaces", 6)] >> >>,
   sorts |-> <<"word", "word", "word", "word", "definitions", "word", "crypts">>,
   root |-> [says |-> 0, items |-> Ref("items", 7)]]

BothDefinitions(nil) ==
  LET Ref(f, address) == IF f \in nil THEN Nil ELSE address IN
  << [says |-> 0, labels |-> Ref("labels", 1),
      annotations |-> Ref("annotations", 2)],
     [says |-> 0, labels |-> Nil, annotations |-> Ref("annotations", 3)] >>

MCDecoded ==
  {Built(nil, BothDefinitions(nil)) : nil \in SUBSET Fields}
    \cup {Built({"labels", "annotations"}, <<>>)}
=============================================================================

----------------------------- MODULE MCHashmap -----------------------------
(***************************************************************************)
(* Instances of Hashmap for TLC.                                           *)
(***************************************************************************)
EXTENDS Hashmap, TLC

Symmetry == Permutations(Key)
=============================================================================

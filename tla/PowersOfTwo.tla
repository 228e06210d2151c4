---------------------------- MODULE PowersOfTwo ----------------------------
(***************************************************************************)
(* 2 to the power of n.  The sizes of the hash map's table are doublings   *)
(* of the smallest one, and the net masks are made by shifts.              *)
(***************************************************************************)
EXTENDS Integers

Pow2[n \in Nat] == IF n = 0 THEN 1 ELSE 2 * Pow2[n - 1]
=============================================================================

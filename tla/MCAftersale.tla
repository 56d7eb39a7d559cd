---------------------------- MODULE MCAftersale -----------------------------
(* Aftersale for TLC: requests in flight are interchangeable.                *)
EXTENDS Aftersale, TLC

CallSymmetry == Permutations(Calls)
=============================================================================

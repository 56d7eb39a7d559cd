---------------------------- MODULE MCRateLimit -----------------------------
(* RateLimit for TLC.                                                        *)
EXTENDS RateLimit, TLC

RequestSymmetry == Permutations(Requests)
=============================================================================

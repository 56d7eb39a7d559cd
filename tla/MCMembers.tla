----------------------------- MODULE MCMembers ------------------------------
(* Members for TLC: requests, and passwords, are interchangeable.            *)
EXTENDS Members, TLC

MemberSymmetry == Permutations(Calls) \cup Permutations(Passwords)
=============================================================================

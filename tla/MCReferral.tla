----------------------------- MODULE MCReferral -----------------------------
(* Symmetry for checking Social, and Referral in it.                       *)
EXTENDS Social, TLC

Symmetric == Permutations(Users) \union Permutations(IPs)
=============================================================================

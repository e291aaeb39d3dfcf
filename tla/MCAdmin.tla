------------------------------ MODULE MCAdmin -------------------------------
(* A small instance of Admin.                                              *)
EXTENDS Admin, TLC

Symmetric == Permutations(Users) \union Permutations(Sessions) \union Permutations(Requests)
=============================================================================

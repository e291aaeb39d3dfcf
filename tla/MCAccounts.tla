----------------------------- MODULE MCAccounts -----------------------------
(* Model values and symmetry for checking Accounts with TLC.               *)
EXTENDS Accounts, TLC

Symmetric ==
    Permutations(Users) \union Permutations(Emails) \union Permutations(Tokens)
        \union Permutations(Items) \union Permutations(Reqs)
=============================================================================

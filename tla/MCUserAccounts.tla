----------------------------- MODULE MCUserAccounts -----------------------------
(***************************************************************************)
(* Instances of UserAccounts for TLC.                                      *)
(***************************************************************************)
EXTENDS UserAccounts, TLC

Interchangeable ==
    Permutations(Emails) \cup Permutations(Subs) \cup Permutations(Requests)

=============================================================================

----------------------------- MODULE MCAuthSessions -----------------------------
(***************************************************************************)
(* Instances of AuthSessions for TLC.                                      *)
(***************************************************************************)
EXTENDS AuthSessionsRefinement, TLC

\* Identifiers are only compared for equality, and no property checked with this
\* symmetry is a liveness property.
Interchangeable ==
    Permutations(Users) \cup Permutations(Jtis)
        \cup Permutations(Families) \cup Permutations(Requests)

=============================================================================

---------------------------- MODULE MCBrowserSession ----------------------------
(***************************************************************************)
(* Instances of BrowserSession for TLC.                                    *)
(***************************************************************************)
EXTENDS BrowserSession, TLC

\* Identifiers are only compared for equality, and the mapping to the abstract
\* families chooses from a set with at most one member.
Interchangeable ==
    Permutations(Jtis) \cup Permutations(Families) \cup Permutations(Requests)

=============================================================================

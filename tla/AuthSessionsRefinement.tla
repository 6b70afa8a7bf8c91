------------------------- MODULE AuthSessionsRefinement -------------------------
(***************************************************************************)
(* AuthSessions implements SessionFamilies: what the table, the tokens and *)
(* the requests in flight say of each family.                              *)
(***************************************************************************)
EXTENDS AuthSessions

\* The tokens that hold family f: the active one, or the one about to be stored.
HoldersOf(f) ==
    {j \in Jtis : token[j].family = f /\
        (Live(j) \/ \E r \in Requests : req[r].pc = "store" /\ req[r].next = j)}

familyHolder ==
    [f \in Families |->
        IF HoldersOf(f) = {} THEN NoJti ELSE CHOOSE j \in Jtis : j \in HoldersOf(f)]

familyPhase ==
    [f \in Families |->
        IF FreshFamily(f) THEN "unused"
        ELSE IF \E j \in Jtis : token[j].family = f /\ Live(j) THEN "live"
        ELSE IF \E r \in Requests : Minting(r) /\ FamilyOf(r) = f THEN "minting"
        ELSE "over"]

Promise == INSTANCE SessionFamilies WITH
    phase <- familyPhase,
    holder <- familyHolder,
    drawn <- {j \in Jtis : Signed(j)}

\* Whatever the interleaving of requests, crashes, revocations and purges, every
\* step of the sessions is a step of some family's line, or none.
ImplementsSessionFamilies == Promise!AbstractSpec

=============================================================================

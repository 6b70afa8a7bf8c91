---------------------------- MODULE SessionFamilies ----------------------------
(***************************************************************************)
(* What the refresh-token sessions promise, without requests, rows, users  *)
(* or time.  A family is opened by one login and is a single line of       *)
(* tokens: at any moment at most one token is its holder.  The holder is   *)
(* exchanged for a token never drawn before, by one request at a time, and *)
(* a family that ends never starts again.                                  *)
(***************************************************************************)
CONSTANTS Jtis, Families, NoJti

VARIABLES
    phase,   \* of each family: unused, minting, live or over
    holder,  \* the token of each family, or the one about to become it
    drawn    \* the tokens drawn so far

abstractVars == <<phase, holder, drawn>>

AbstractTypeOK ==
    /\ phase \in [Families -> {"unused", "minting", "live", "over"}]
    /\ holder \in [Families -> Jtis \cup {NoJti}]
    /\ drawn \in SUBSET Jtis

AbstractInit ==
    /\ phase = [f \in Families |-> "unused"]
    /\ holder = [f \in Families |-> NoJti]
    /\ drawn = {}

\* A login draws the first token of a family.
Open(f, j) ==
    /\ phase[f] = "unused"
    /\ j \notin drawn
    /\ phase' = [phase EXCEPT ![f] = "minting"]
    /\ holder' = [holder EXCEPT ![f] = j]
    /\ drawn' = drawn \cup {j}

\* The token drawn for the family becomes its session.
HandOver(f) ==
    /\ phase[f] = "minting"
    /\ holder[f] # NoJti
    /\ phase' = [phase EXCEPT ![f] = "live"]
    /\ UNCHANGED <<holder, drawn>>

\* A refresh takes the session away from its holder.
Exchange(f) ==
    /\ phase[f] = "live"
    /\ phase' = [phase EXCEPT ![f] = "minting"]
    /\ holder' = [holder EXCEPT ![f] = NoJti]
    /\ UNCHANGED drawn

\* The refresh draws the successor.
Draw(f, j) ==
    /\ phase[f] = "minting"
    /\ holder[f] = NoJti
    /\ j \notin drawn
    /\ holder' = [holder EXCEPT ![f] = j]
    /\ drawn' = drawn \cup {j}
    /\ UNCHANGED phase

\* Logout, revocation, expiry, or a request that dies with the session in hand.
End(F) ==
    /\ \A f \in F : phase[f] \in {"minting", "live"}
    /\ phase' = [f \in Families |-> IF f \in F THEN "over" ELSE phase[f]]
    /\ holder' = [f \in Families |-> IF f \in F THEN NoJti ELSE holder[f]]
    /\ UNCHANGED drawn

AbstractNext ==
    \/ \E f \in Families, j \in Jtis : Open(f, j) \/ Draw(f, j)
    \/ \E f \in Families : HandOver(f) \/ Exchange(f)
    \/ \E F \in SUBSET Families : End(F)

AbstractSpec == AbstractInit /\ [][AbstractNext]_abstractVars

=============================================================================

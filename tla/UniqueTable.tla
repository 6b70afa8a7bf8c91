------------------------------ MODULE UniqueTable ------------------------------
(***************************************************************************)
(* What the tables products and users promise of a unique column, without  *)
(* requests and the statements they are made of: a row is written at once, *)
(* its id is new, and no two rows have the same key, whatever the writer   *)
(* believed when it last looked.  A row may do without a key; one that has *)
(* a key keeps one until the row goes.                                     *)
(***************************************************************************)
EXTENDS Naturals

CONSTANTS
    MaxId,         \* the last id of the sequence
    Keys, NoKey    \* values of the unique column; NoKey stands for null

VARIABLES
    present,   \* the ids of the rows
    key,       \* the key of each id, NoKey without a row
    issued     \* the last id drawn from the sequence

tableVars == <<present, key, issued>>

TableInit ==
    /\ present = {}
    /\ key = [i \in 1..MaxId |-> NoKey]
    /\ issued = 0

\* The unique index admits k in row i.
Free(k, i) == \A j \in 1..MaxId : j # i => key[j] # k

\* A row comes with the next id of the sequence.
Add(k) ==
    /\ issued < MaxId
    /\ k = NoKey \/ Free(k, issued + 1)
    /\ issued' = issued + 1
    /\ present' = present \cup {issued + 1}
    /\ key' = [key EXCEPT ![issued + 1] = k]

\* A refused row draws its id all the same.
Waste ==
    /\ issued < MaxId
    /\ issued' = issued + 1
    /\ UNCHANGED <<present, key>>

\* A row that is there gets its key, or another one.
Rename(i, k) ==
    /\ i \in present
    /\ Free(k, i)
    /\ key' = [key EXCEPT ![i] = k]
    /\ UNCHANGED <<present, issued>>

Remove(i) ==
    /\ i \in present
    /\ present' = present \ {i}
    /\ key' = [key EXCEPT ![i] = NoKey]
    /\ UNCHANGED issued

TableNext ==
    \/ \E k \in Keys \cup {NoKey} : Add(k)
    \/ Waste
    \/ \E i \in 1..MaxId, k \in Keys : Rename(i, k)
    \/ \E i \in 1..MaxId : Remove(i)

TableSpec == TableInit /\ [][TableNext]_tableVars

=============================================================================

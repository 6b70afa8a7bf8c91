------------------------------- MODULE AtLeastOnce -------------------------------
(***************************************************************************)
(* What the worker and its queue promise about each message: it leaves the *)
(* queue in the end, removed only once it was handled, or buried.  It may  *)
(* be handled any number of times, even after it was removed.              *)
(***************************************************************************)
EXTENDS Naturals

CONSTANT Messages

VARIABLES
    fate,   \* unsent, pending, removed or buried
    runs    \* how often it was handled

promiseVars == <<fate, runs>>

PromiseInit ==
    /\ fate = [m \in Messages |-> "unsent"]
    /\ runs = [m \in Messages |-> 0]

Accept(m) ==
    /\ fate[m] = "unsent"
    /\ fate' = [fate EXCEPT ![m] = "pending"]
    /\ UNCHANGED runs

Run(m) ==
    /\ fate[m] # "unsent"
    /\ runs' = [runs EXCEPT ![m] = @ + 1]
    /\ UNCHANGED fate

Remove(m) ==
    /\ fate[m] = "pending"
    /\ runs[m] > 0
    /\ fate' = [fate EXCEPT ![m] = "removed"]
    /\ UNCHANGED runs

Bury(m) ==
    /\ fate[m] = "pending"
    /\ fate' = [fate EXCEPT ![m] = "buried"]
    /\ UNCHANGED runs

PromiseNext == \E m \in Messages : Accept(m) \/ Run(m) \/ Remove(m) \/ Bury(m)

\* Safety, and that a pending message does not stay so for ever.
PromiseSafety == PromiseInit /\ [][PromiseNext]_promiseVars

Promise ==
    PromiseSafety /\ \A m \in Messages : WF_promiseVars(Remove(m) \/ Bury(m))

=============================================================================

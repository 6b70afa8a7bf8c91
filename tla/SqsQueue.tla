-------------------------------- MODULE SqsQueue --------------------------------
(***************************************************************************)
(* The SQS queue as the worker uses it: an external service that delivers  *)
(* at least once.  A received message is hidden until its visibility       *)
(* timeout, is deleted by a receipt handle, and goes to the dead-letter    *)
(* queue when it would be received once too often.                         *)
(***************************************************************************)
EXTENDS Naturals

CONSTANTS
    Messages,
    MaxReceives   \* maxReceiveCount of the redrive policy

ASSUME RedrivePolicy == MaxReceives \in Nat \ {0}

VARIABLES
    place,     \* where each message is
    receives   \* its ApproximateReceiveCount; also names the last receipt handle

queueVars == <<place, receives>>

Places == {"unsent", "visible", "hidden", "deleted", "dead"}

QueueTypeOK ==
    /\ place \in [Messages -> Places]
    /\ receives \in [Messages -> 0..MaxReceives]

QueueInit ==
    /\ place = [m \in Messages |-> "unsent"]
    /\ receives = [m \in Messages |-> 0]

\* A producer sends m.
Send(m) ==
    /\ place[m] = "unsent"
    /\ place' = [place EXCEPT ![m] = "visible"]
    /\ UNCHANGED receives

Receivable(m) == place[m] = "visible" /\ receives[m] < MaxReceives

\* ReceiveMessage returns the messages of M, each with a new receipt handle.
Deliver(M) ==
    /\ \A m \in M : Receivable(m)
    /\ place' = [m \in Messages |-> IF m \in M THEN "hidden" ELSE place[m]]
    /\ receives' = [m \in Messages |-> IF m \in M THEN receives[m] + 1 ELSE receives[m]]

\* DeleteMessage.  With a handle that is not the last one the service may or may
\* not delete the message, and it answers without an error either way.
Delete(m, receipt) ==
    /\ \/ place' = [place EXCEPT ![m] =
                      IF @ \in {"visible", "hidden"} THEN "deleted" ELSE @]
       \/ receipt # receives[m] /\ UNCHANGED place
    /\ UNCHANGED receives

\* The visibility timeout of m runs out.
Reappear(m) ==
    /\ place[m] = "hidden"
    /\ place' = [place EXCEPT ![m] = "visible"]
    /\ UNCHANGED receives

\* m was received as often as the policy allows.
Redrive(m) ==
    /\ place[m] = "visible"
    /\ receives[m] = MaxReceives
    /\ place' = [place EXCEPT ![m] = "dead"]
    /\ UNCHANGED receives

=============================================================================

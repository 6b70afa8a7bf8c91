------------------------- MODULE MessageWorkerRefinement -------------------------
(***************************************************************************)
(* MessageWorker implements AtLeastOnce: a message is pending while it is  *)
(* in the queue, seen or hidden.                                           *)
(***************************************************************************)
EXTENDS MessageWorker

\* Where the promise has a message that the queue has at place p.
FateOf(p) ==
    CASE p = "unsent"                -> "unsent"
      [] p \in {"visible", "hidden"} -> "pending"
      [] p = "deleted"               -> "removed"
      [] p = "dead"                  -> "buried"

Contract == INSTANCE AtLeastOnce WITH
    runs <- handled,
    fate <- [m \in Messages |-> FateOf(place[m])]

\* The worker and its queue implement at-least-once handling: a message leaves
\* the queue only handled or dead-lettered, and it does leave it.
ImplementsAtLeastOnce == Contract!Promise

=============================================================================

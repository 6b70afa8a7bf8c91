------------------------------ MODULE MessageWorker ------------------------------
(***************************************************************************)
(* The worker processes: MessageWorker, the SQS consumer and the process   *)
(* around them.  Each polls a batch, handles its messages concurrently     *)
(* (Promise.allSettled) and polls again when all are settled.  Several     *)
(* replicas share the queue; any of them may be stopped by a signal, by an *)
(* error of receive, or at once.                                           *)
(***************************************************************************)
EXTENDS SqsQueue, FiniteSets

CONSTANTS
    Workers,
    Valid,        \* messages whose body workerMessageSchema accepts
    MaxMessages   \* WORKER_MAX_MESSAGES

ASSUME BatchLimit == MaxMessages \in Nat \ {0}

ASSUME ValidMessages == Valid \subseteq Messages

VARIABLES
    process,   \* of each worker: stopped, polling, or handling a batch
    aborted,   \* of each worker: the signal of its AbortController
    job,       \* of each worker and message: the step of process() it is at
    handled    \* history: how often the handler of a message ran

workerVars == <<process, aborted, job>>

vars == <<place, receives, process, aborted, job, handled>>

\* receipt names the handle the message was received with.
Job == [step : {"none", "parse", "acknowledge"}, receipt : 0..MaxReceives]

NoJob == [step |-> "none", receipt |-> 0]

Batch(w) == {m \in Messages : job[w][m] # NoJob}

-----------------------------------------------------------------------------
\* The process.

\* bootstrap, by the orchestrator.
Start(w) ==
    /\ process[w] = "stopped"
    /\ process' = [process EXCEPT ![w] = "polling"]
    /\ aborted' = [aborted EXCEPT ![w] = FALSE]
    /\ UNCHANGED <<queueVars, job, handled>>

\* SIGINT or SIGTERM: only the flag; the worker sees it when it next looks.
Signal(w) ==
    /\ process[w] # "stopped"
    /\ aborted' = [aborted EXCEPT ![w] = TRUE]
    /\ UNCHANGED <<queueVars, process, job, handled>>

\* Mutant of ReceiveFails: the loop catches what receive throws and polls again.
ReceiveFailsRetried(w, M) ==
    /\ process[w] = "polling"
    /\ Cardinality(M) <= MaxMessages
    /\ Deliver(M)
    /\ UNCHANGED <<workerVars, handled>>

\* receive rejects, because it was aborted or because it failed: run rejects and
\* the process ends.  SQS may have delivered a batch M whose answer is lost.
ReceiveFails(w, M) ==
    /\ process[w] = "polling"
    /\ Cardinality(M) <= MaxMessages
    /\ Deliver(M)
    /\ process' = [process EXCEPT ![w] = "stopped"]
    /\ UNCHANGED <<aborted, job, handled>>

\* The process is killed: what it was doing is lost.
Crash(w) ==
    /\ process[w] # "stopped"
    /\ process' = [process EXCEPT ![w] = "stopped"]
    /\ job' = [job EXCEPT ![w] = [m \in Messages |-> NoJob]]
    /\ UNCHANGED <<queueVars, aborted, handled>>

-----------------------------------------------------------------------------
\* pollOnce.

\* Mutant of Receive: the next batch is asked for before the last one is settled.
ReceiveUnsettled(w, M) ==
    /\ process[w] \in {"polling", "handling"}
    /\ M # {} /\ Cardinality(M) <= MaxMessages
    /\ Deliver(M)
    /\ process' = [process EXCEPT ![w] = "polling"]
    /\ job' = [job EXCEPT ![w] = [m \in Messages |->
         IF m \in M THEN [step |-> "parse", receipt |-> receives[m] + 1] ELSE @[m]]]
    /\ UNCHANGED <<aborted, handled>>

\* receive returned the batch M.  An empty one changes nothing, or ends an aborted
\* worker as ReceiveFails does.
Receive(w, M) ==
    /\ process[w] = "polling"
    /\ M # {} /\ Cardinality(M) <= MaxMessages
    /\ Deliver(M)
    /\ process' = [process EXCEPT ![w] = "handling"]
    /\ job' = [job EXCEPT ![w] = [m \in Messages |->
         IF m \in M THEN [step |-> "parse", receipt |-> receives[m] + 1] ELSE NoJob]]
    /\ UNCHANGED <<aborted, handled>>

\* Mutant of Reject: a message that cannot be handled is acknowledged all the same.
RejectAcknowledging(w, m) ==
    /\ job[w][m].step = "parse"
    /\ m \notin Valid
    /\ job' = [job EXCEPT ![w][m].step = "acknowledge"]
    /\ UNCHANGED <<queueVars, process, aborted, handled>>

\* No body or no receipt handle, not JSON, or refused by the schema: a log line,
\* and the message is left to be received again.
Reject(w, m) ==
    /\ job[w][m].step = "parse"
    /\ m \notin Valid
    /\ job' = [job EXCEPT ![w][m] = NoJob]
    /\ UNCHANGED <<queueVars, process, aborted, handled>>

\* Mutant of Dispatch: a message that is being handled is taken up once more.
DispatchAgain(w, m) ==
    /\ job[w][m].step \in {"parse", "acknowledge"}
    /\ m \in Valid
    /\ job' = [job EXCEPT ![w][m].step = "acknowledge"]
    /\ handled' = [handled EXCEPT ![m] = @ + 1]
    /\ UNCHANGED <<queueVars, process, aborted>>

\* The body is valid: dispatch runs the handler.
Dispatch(w, m) ==
    /\ job[w][m].step = "parse"
    /\ m \in Valid
    /\ job' = [job EXCEPT ![w][m].step = "acknowledge"]
    /\ handled' = [handled EXCEPT ![m] = @ + 1]
    /\ UNCHANGED <<queueVars, process, aborted>>

\* acknowledge reached SQS, whether or not its answer reached the worker.
Acknowledge(w, m) ==
    /\ job[w][m].step = "acknowledge"
    /\ Delete(m, job[w][m].receipt)
    /\ job' = [job EXCEPT ![w][m] = NoJob]
    /\ UNCHANGED <<process, aborted, handled>>

\* acknowledge did not reach SQS: the error is logged.
AcknowledgeFails(w, m) ==
    /\ job[w][m].step = "acknowledge"
    /\ job' = [job EXCEPT ![w][m] = NoJob]
    /\ UNCHANGED <<queueVars, process, aborted, handled>>

\* Mutant of Settle: the loop does not poll again.
SettleOnce(w) ==
    /\ process[w] = "handling"
    /\ Batch(w) = {}
    /\ aborted[w]
    /\ process' = [process EXCEPT ![w] = "stopped"]
    /\ UNCHANGED <<queueVars, aborted, job, handled>>

\* allSettled resolved: back to the loop of run and its test of the signal.
Settle(w) ==
    /\ process[w] = "handling"
    /\ Batch(w) = {}
    /\ process' = [process EXCEPT ![w] = IF aborted[w] THEN "stopped" ELSE "polling"]
    /\ UNCHANGED <<queueVars, aborted, job, handled>>

-----------------------------------------------------------------------------

Init ==
    /\ QueueInit
    /\ process = [w \in Workers |-> "stopped"]
    /\ aborted = [w \in Workers |-> FALSE]
    /\ job = [w \in Workers |-> [m \in Messages |-> NoJob]]
    /\ handled = [m \in Messages |-> 0]

Queue(m) ==
    /\ Send(m) \/ Reappear(m) \/ Redrive(m)
    /\ UNCHANGED <<workerVars, handled>>

Handle(w, m) ==
    Reject(w, m) \/ Dispatch(w, m) \/ Acknowledge(w, m) \/ AcknowledgeFails(w, m)

Work(w) ==
    \/ Start(w) \/ Signal(w) \/ Crash(w) \/ Settle(w)
    \/ \E M \in SUBSET Messages : Receive(w, M) \/ ReceiveFails(w, M)
    \/ \E m \in Messages : Handle(w, m)

Next ==
    \/ \E m \in Messages : Queue(m)
    \/ \E w \in Workers : Work(w)

Spec == Init /\ [][Next]_vars

\* The orchestrator restarts a worker, a worker goes on with the batch it has, an
\* aborted receive ends, and SQS lets time pass and does not withhold a message
\* for ever from workers that keep asking.  Nothing keeps a worker from crashing again and again.
Fairness ==
    /\ \A w \in Workers :
         /\ WF_vars(Start(w))
         /\ WF_vars(Settle(w))
         /\ WF_vars(aborted[w] /\ ReceiveFails(w, {}))
         /\ \A m \in Messages : WF_vars(Handle(w, m))
    /\ \A m \in Messages :
         /\ WF_vars(Queue(m) /\ place[m] # "unsent")
         /\ SF_vars(\E w \in Workers, M \in SUBSET Messages : m \in M /\ Receive(w, M))

FairSpec == Spec /\ Fairness

-----------------------------------------------------------------------------
\* Properties.

\* Type invariant of the queue and the workers.
TypeOK ==
    /\ QueueTypeOK
    /\ process \in [Workers -> {"stopped", "polling", "handling"}]
    /\ aborted \in [Workers -> BOOLEAN]
    /\ job \in [Workers -> [Messages -> Job]]
    /\ handled \in [Messages -> Nat]

\* "Un mensaje solo se elimina despues de procesarse" (README.md:20), also when
\* replicas hold stale receipts of it and crash between handling and deleting.
DeletedOnlyAfterHandling ==
    \A m \in Messages : place[m] = "deleted" => handled[m] > 0

\* However workers overlap, crash and fail to acknowledge, the handler runs at
\* most once for each time the queue delivered the message, so an idempotent
\* handler sees a bounded number of repetitions.
HandledAtMostReceives ==
    \A m \in Messages : handled[m] <= receives[m]

\* Two handlers never run on the same receipt, and a worker is never at work on a
\* message that it has not received in the batch it is settling.
OneJobPerReceipt ==
    /\ \A v, w \in Workers, m \in Messages :
         job[v][m] # NoJob /\ job[v][m].receipt = job[w][m].receipt => v = w
    /\ \A w \in Workers : process[w] # "handling" => Batch(w) = {}

\* A stop signal ends the worker, whether it comes before the first poll, in the
\* long poll or while a batch is handled, whose messages are settled or abandoned
\* by a crash.
SignalEndsWorker ==
    \A w \in Workers : aborted[w] ~> process[w] = "stopped"

\* "los fallos agotados terminan en la DLQ" (README.md:21): every message sent is
\* deleted or dead-lettered in the end, crashes and poison messages included.
EveryMessageEnds ==
    \A m \in Messages : place[m] = "visible" ~> place[m] \in {"deleted", "dead"}

-----------------------------------------------------------------------------
\* The inductive invariant: each delivery is handled at most once.

\* A worker is at work only on what it received and has not settled.
JobsWellFormed ==
    \A w \in Workers, m \in Messages : job[w][m] # NoJob =>
        /\ process[w] = "handling"
        /\ job[w][m].step # "none"
        /\ job[w][m].receipt \in 1..receives[m]
        /\ place[m] # "unsent"
        /\ job[w][m].step = "acknowledge" => handled[m] > 0

Parsing(m) == {w \in Workers : job[w][m].step = "parse"}

\* A delivery whose handler has yet to run is one more than were handled.
UnhandledDeliveries ==
    \A m \in Messages :
        /\ IsFiniteSet(Parsing(m))
        /\ handled[m] + Cardinality(Parsing(m)) <= receives[m]

IInv ==
    /\ TypeOK
    /\ JobsWellFormed
    /\ UnhandledDeliveries
    /\ OneJobPerReceipt
    /\ DeletedOnlyAfterHandling

=============================================================================

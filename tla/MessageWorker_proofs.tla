--------------------------- MODULE MessageWorker_proofs ---------------------------
(***************************************************************************)
(* Proofs about MessageWorker, for every number of workers and messages,   *)
(* every batch size and every redrive policy.                              *)
(*                                                                         *)
(* Each delivery has a receipt of its own, held by at most one worker, and *)
(* a delivery whose handler has yet to run is one more delivered than      *)
(* handled: UnhandledDeliveries counts both on the left of the bound.      *)
(***************************************************************************)
EXTENDS MessageWorkerRefinement, FiniteSetTheorems, TLAPS

\* The empty queue and the stopped workers satisfy the invariant.
LEMMA InitIInv == Init => IInv
<1> SUFFICES ASSUME Init PROVE IInv
  OBVIOUS
<1>1. TypeOK
  BY RedrivePolicy
     DEF Init, QueueInit, TypeOK, QueueTypeOK, Places, Job, NoJob
<1>2. JobsWellFormed /\ OneJobPerReceipt
  BY DEF Init, JobsWellFormed, OneJobPerReceipt, Batch
<1>3. DeletedOnlyAfterHandling
  BY DEF Init, QueueInit, DeletedOnlyAfterHandling
<1>4. UnhandledDeliveries
  <2>1. \A m \in Messages : Parsing(m) = {}
    BY DEF Init, Parsing, NoJob
  <2>2. IsFiniteSet({}) /\ Cardinality({}) = 0
    BY FS_EmptySet
  <2>3. \A m \in Messages : IsFiniteSet(Parsing(m)) /\ Cardinality(Parsing(m)) = 0
    BY <2>1, <2>2
  <2>4. \A m \in Messages : handled[m] = 0 /\ receives[m] = 0
    BY DEF Init, QueueInit
  <2> SUFFICES ASSUME NEW m \in Messages
               PROVE  IsFiniteSet(Parsing(m)) /\ handled[m] + Cardinality(Parsing(m)) <= receives[m]
    BY DEF UnhandledDeliveries
  <2>5. handled[m] + Cardinality(Parsing(m)) = 0 /\ receives[m] = 0
    BY <2>3, <2>4
  <2> QED BY <2>3, <2>5
<1> QED BY <1>1, <1>2, <1>3, <1>4 DEF IInv

\* Who is at work names a receipt, and only the idle one none.
LEMMA ReceiptNamed ==
  ASSUME IInv, NEW w \in Workers, NEW m \in Messages
  PROVE  job[w][m].receipt = 0 <=> job[w][m] = NoJob
<1>1. receives[m] \in Nat
  BY DEF IInv, TypeOK, QueueTypeOK
<1>2. job[w][m] # NoJob => job[w][m].receipt \in 1..receives[m]
  BY DEF IInv, JobsWellFormed
<1>3. NoJob.receipt = 0
  BY DEF NoJob
<1> QED BY <1>1, <1>2, <1>3

\* Fewer deliveries being parsed, more of them received: the count still holds.
LEMMA FewerParsing ==
  ASSUME IInv, TypeOK', handled' = handled,
         \A m \in Messages : Parsing(m)' \subseteq Parsing(m) /\ receives[m] <= receives'[m]
  PROVE  UnhandledDeliveries'
<1> SUFFICES ASSUME NEW m \in Messages
             PROVE  /\ IsFiniteSet(Parsing(m)')
                    /\ handled[m] + Cardinality(Parsing(m)') <= receives'[m]
  BY DEF UnhandledDeliveries
<1>1. /\ IsFiniteSet(Parsing(m))
      /\ handled[m] + Cardinality(Parsing(m)) <= receives[m]
  BY DEF IInv, UnhandledDeliveries
<1>2. /\ IsFiniteSet(Parsing(m)') /\ Cardinality(Parsing(m)') <= Cardinality(Parsing(m))
      /\ Cardinality(Parsing(m)) \in Nat /\ Cardinality(Parsing(m)') \in Nat
  BY <1>1, FS_Subset, FS_CardinalityType
<1>3. handled[m] \in Nat /\ receives[m] \in Nat /\ receives'[m] \in Nat
  BY DEF IInv, TypeOK, QueueTypeOK
<1> QED BY <1>1, <1>2, <1>3

\* What the queue does by itself and what the orchestrator and signals do.
LEMMA QueueKeeps ==
  ASSUME IInv, NEW m \in Messages, Queue(m)
  PROVE  IInv'
<1>1. /\ process' = process /\ aborted' = aborted /\ job' = job /\ handled' = handled
      /\ receives' = receives
  BY DEF Queue, workerVars, Send, Reappear, Redrive
<1>2. TypeOK'
  BY <1>1 DEF IInv, TypeOK, QueueTypeOK, Places, Queue, Send, Reappear, Redrive
<1>3. JobsWellFormed'
  BY <1>1 DEF IInv, TypeOK, QueueTypeOK, JobsWellFormed, Queue, Send, Reappear, Redrive
<1>4. OneJobPerReceipt'
  BY <1>1 DEF IInv, OneJobPerReceipt, Batch
<1>5. DeletedOnlyAfterHandling'
  BY <1>1 DEF IInv, TypeOK, QueueTypeOK, DeletedOnlyAfterHandling, Queue, Send, Reappear, Redrive
<1>6. UnhandledDeliveries'
  BY <1>1 DEF IInv, UnhandledDeliveries, Parsing
<1> QED BY <1>2, <1>3, <1>4, <1>5, <1>6 DEF IInv

\* A worker that starts, is signalled or has settled its batch holds no job more.
LEMMA ProcessKeeps ==
  ASSUME IInv, NEW w \in Workers, Start(w) \/ Signal(w) \/ Settle(w)
  PROVE  IInv'
<1>1. place' = place /\ receives' = receives /\ job' = job /\ handled' = handled
  BY DEF Start, Signal, Settle, queueVars
<1>2. TypeOK'
  BY <1>1 DEF IInv, TypeOK, QueueTypeOK, Start, Signal, Settle
<1>3. Settle(w) => \A m \in Messages : job[w][m] = NoJob
  BY DEF Settle, Batch
<1>4. JobsWellFormed'
  BY <1>1, <1>3 DEF IInv, TypeOK, JobsWellFormed, Start, Signal, Settle
<1>5. OneJobPerReceipt'
  BY <1>1, <1>3 DEF IInv, TypeOK, OneJobPerReceipt, Batch, Start, Signal, Settle
<1>6. DeletedOnlyAfterHandling' /\ UnhandledDeliveries'
  BY <1>1 DEF IInv, DeletedOnlyAfterHandling, UnhandledDeliveries, Parsing
<1> QED BY <1>2, <1>4, <1>5, <1>6 DEF IInv

\* Whatever a killed worker was doing is lost; nobody else had it.
LEMMA CrashKeeps ==
  ASSUME IInv, NEW w \in Workers, Crash(w)
  PROVE  IInv'
<1>1. place' = place /\ receives' = receives /\ handled' = handled
  BY DEF Crash, queueVars
<1>2. \A v \in Workers, m \in Messages : job'[v][m] = IF v = w THEN NoJob ELSE job[v][m]
  BY DEF Crash, IInv, TypeOK
<1>3. TypeOK'
  <2>1. NoJob \in Job
    BY RedrivePolicy DEF NoJob, Job
  <2> QED BY <1>1, <2>1 DEF IInv, TypeOK, QueueTypeOK, Crash
<1>4. JobsWellFormed'
  BY <1>1, <1>2 DEF IInv, TypeOK, JobsWellFormed, Crash
<1>5. OneJobPerReceipt'
  <2>1. \A u, v \in Workers, m \in Messages :
          job'[u][m] # NoJob /\ job'[u][m].receipt = job'[v][m].receipt => u = v
    BY <1>2, ReceiptNamed DEF IInv, OneJobPerReceipt, NoJob
  <2>2. \A v \in Workers : process'[v] # "handling" => Batch(v)' = {}
    BY <1>2 DEF IInv, TypeOK, OneJobPerReceipt, Batch, Crash
  <2> QED BY <2>1, <2>2 DEF OneJobPerReceipt
<1>6. DeletedOnlyAfterHandling'
  BY <1>1 DEF IInv, DeletedOnlyAfterHandling
<1>7. \A m \in Messages : Parsing(m)' \subseteq Parsing(m)
  BY <1>2 DEF Parsing, NoJob
<1>8. UnhandledDeliveries'
  BY <1>1, <1>3, <1>7, FewerParsing DEF IInv, TypeOK, QueueTypeOK
<1> QED BY <1>3, <1>4, <1>5, <1>6, <1>8 DEF IInv

\* What a delivery does to the queue: no message changes its place for good, and
\* those delivered are received once more.
LEMMA DeliverEffect ==
  ASSUME IInv, NEW M \in SUBSET Messages, Deliver(M)
  PROVE  /\ QueueTypeOK'
         /\ \A m \in Messages :
              /\ place'[m] = IF m \in M THEN "hidden" ELSE place[m]
              /\ receives'[m] = IF m \in M THEN receives[m] + 1 ELSE receives[m]
              /\ receives[m] \in Nat
              /\ m \in M => place[m] = "visible"
BY RedrivePolicy DEF Deliver, Receivable, IInv, TypeOK, QueueTypeOK, Places

\* The answer of a receive is lost: the messages stay hidden and nobody has them.
LEMMA ReceiveFailsKeeps ==
  ASSUME IInv, NEW w \in Workers, NEW M \in SUBSET Messages, ReceiveFails(w, M)
  PROVE  IInv'
<1>1. /\ Deliver(M) /\ process[w] = "polling"
      /\ process' = [process EXCEPT ![w] = "stopped"]
      /\ aborted' = aborted /\ job' = job /\ handled' = handled
  BY DEF ReceiveFails
<1>2. TypeOK'
  BY <1>1, DeliverEffect DEF IInv, TypeOK
<1>3. JobsWellFormed'
  <2> SUFFICES ASSUME NEW v \in Workers, NEW m \in Messages, job[v][m] # NoJob
               PROVE  /\ process'[v] = "handling" /\ job[v][m].step # "none"
                      /\ job[v][m].receipt \in 1..receives'[m] /\ place'[m] # "unsent"
                      /\ job[v][m].step = "acknowledge" => handled[m] > 0
    BY <1>1 DEF JobsWellFormed
  <2>1. /\ process[v] = "handling" /\ job[v][m].step # "none"
        /\ job[v][m].receipt \in 1..receives[m] /\ place[m] # "unsent"
        /\ job[v][m].step = "acknowledge" => handled[m] > 0
    BY DEF IInv, JobsWellFormed
  <2> QED BY <1>1, <2>1, DeliverEffect DEF IInv, TypeOK
<1>4. OneJobPerReceipt'
  BY <1>1 DEF IInv, TypeOK, OneJobPerReceipt, Batch
<1>5. DeletedOnlyAfterHandling'
  BY <1>1, DeliverEffect DEF IInv, DeletedOnlyAfterHandling
<1>6. \A m \in Messages : Parsing(m)' = Parsing(m) /\ receives[m] <= receives'[m]
  BY <1>1, DeliverEffect DEF Parsing
<1>7. UnhandledDeliveries'
  BY <1>1, <1>2, <1>6, FewerParsing
<1> QED BY <1>2, <1>3, <1>4, <1>5, <1>7 DEF IInv

\* A polling worker holds nothing, so what it receives is all it holds, each with
\* a receipt nobody had before.
LEMMA ReceiveKeeps ==
  ASSUME IInv, NEW w \in Workers, NEW M \in SUBSET Messages, Receive(w, M)
  PROVE  IInv'
<1> DEFINE new(m) == IF m \in M THEN [step |-> "parse", receipt |-> receives[m] + 1] ELSE NoJob
<1>1. /\ Deliver(M) /\ process[w] = "polling"
      /\ process' = [process EXCEPT ![w] = "handling"]
      /\ aborted' = aborted /\ handled' = handled
      /\ job' = [job EXCEPT ![w] = [m \in Messages |-> new(m)]]
  BY DEF Receive
<1>2. \A v \in Workers, m \in Messages : job'[v][m] = IF v = w THEN new(m) ELSE job[v][m]
  BY <1>1 DEF IInv, TypeOK
<1>3. \A m \in Messages : job[w][m] = NoJob
  BY <1>1 DEF IInv, JobsWellFormed
<1>4. ASSUME NEW m \in M
      PROVE  receives[m] + 1 \in 0..MaxReceives
  BY <1>1, RedrivePolicy DEF Deliver, Receivable, IInv, TypeOK, QueueTypeOK
<1>5. \A m \in Messages : new(m) \in Job
  BY <1>4, RedrivePolicy DEF Job, NoJob
<1>6. TypeOK'
  <2> HIDE DEF new
  <2>1. [m \in Messages |-> new(m)] \in [Messages -> Job]
    BY <1>5
  <2>2. job' \in [Workers -> [Messages -> Job]]
    BY <1>1, <2>1 DEF IInv, TypeOK
  <2> QED BY <1>1, <2>2, DeliverEffect DEF IInv, TypeOK
<1>7. JobsWellFormed'
  <2> SUFFICES ASSUME NEW v \in Workers, NEW m \in Messages, job'[v][m] # NoJob
               PROVE  /\ process'[v] = "handling" /\ job'[v][m].step # "none"
                      /\ job'[v][m].receipt \in 1..receives'[m] /\ place'[m] # "unsent"
                      /\ job'[v][m].step = "acknowledge" => handled[m] > 0
    BY <1>1 DEF JobsWellFormed
  <2>1. CASE v = w
    <3>1. m \in M /\ job'[v][m] = [step |-> "parse", receipt |-> receives[m] + 1]
      BY <1>2, <2>1
    <3>2. process'[v] = "handling"
      BY <1>1, <2>1 DEF IInv, TypeOK
    <3>3. receives'[m] = receives[m] + 1 /\ receives[m] \in Nat /\ place'[m] = "hidden"
      BY <1>1, <3>1, DeliverEffect
    <3> QED BY <3>1, <3>2, <3>3
  <2>2. CASE v # w
    <3>1. /\ process[v] = "handling" /\ job[v][m].step # "none"
          /\ job[v][m].receipt \in 1..receives[m] /\ place[m] # "unsent"
          /\ job[v][m].step = "acknowledge" => handled[m] > 0
      BY <1>2, <2>2 DEF IInv, JobsWellFormed
    <3>2. job'[v][m] = job[v][m] /\ process'[v] = process[v]
      BY <1>1, <1>2, <2>2 DEF IInv, TypeOK
    <3>3. receives[m] \in Nat /\ receives'[m] \in {receives[m], receives[m] + 1}
          /\ place'[m] \in {"hidden", place[m]}
      BY <1>1, DeliverEffect
    <3> QED BY <3>1, <3>2, <3>3
  <2> QED BY <2>1, <2>2
<1>8. OneJobPerReceipt'
  <2>1. ASSUME NEW v \in Workers, NEW m \in Messages, v # w
        PROVE  /\ job[v][m] # NoJob => job[v][m].receipt # new(m).receipt
               /\ new(m) # NoJob => job[v][m].receipt # new(m).receipt
    <3>1. job[v][m].receipt \in 0..receives[m] /\ receives[m] \in Nat
      BY DEF IInv, TypeOK, QueueTypeOK, JobsWellFormed, NoJob
    <3>2. job[v][m] # NoJob => job[v][m].receipt # 0
      BY DEF IInv, TypeOK, QueueTypeOK, JobsWellFormed
    <3>3. new(m).receipt = IF m \in M THEN receives[m] + 1 ELSE 0
      BY DEF NoJob
    <3>4. new(m) # NoJob => m \in M
      OBVIOUS
    <3> HIDE DEF new
    <3> QED BY <3>1, <3>2, <3>3, <3>4
  <2> HIDE DEF new
  <2>2. \A u, v \in Workers, m \in Messages :
          job'[u][m] # NoJob /\ job'[u][m].receipt = job'[v][m].receipt => u = v
    BY <1>2, <2>1 DEF IInv, OneJobPerReceipt
  <2>3. \A v \in Workers : process'[v] # "handling" => Batch(v)' = {}
    BY <1>1, <1>2 DEF IInv, TypeOK, OneJobPerReceipt, Batch
  <2> QED BY <2>2, <2>3 DEF OneJobPerReceipt
<1>9. DeletedOnlyAfterHandling'
  BY <1>1, DeliverEffect DEF IInv, DeletedOnlyAfterHandling
<1>10. UnhandledDeliveries'
  <2> SUFFICES ASSUME NEW m \in Messages
               PROVE  /\ IsFiniteSet(Parsing(m)')
                      /\ handled[m] + Cardinality(Parsing(m)') <= receives'[m]
    BY <1>1 DEF UnhandledDeliveries
  <2>1. /\ IsFiniteSet(Parsing(m)) /\ Cardinality(Parsing(m)) \in Nat
        /\ handled[m] + Cardinality(Parsing(m)) <= receives[m]
        /\ handled[m] \in Nat
    BY FS_CardinalityType DEF IInv, TypeOK, UnhandledDeliveries
  <2>2. w \notin Parsing(m)
    BY <1>3 DEF Parsing, NoJob
  <2>3. CASE m \in M
    <3>1. Parsing(m)' = Parsing(m) \cup {w}
      <4>0. job'[w][m] = [step |-> "parse", receipt |-> receives[m] + 1]
        BY <1>2, <2>3
      <4>1. job'[w][m].step = "parse" /\ \A v \in Workers \ {w} : job'[v][m] = job[v][m]
        BY <1>2, <4>0
      <4> HIDE DEF new
      <4> QED BY <4>1 DEF Parsing
    <3>2. /\ IsFiniteSet(Parsing(m) \cup {w})
          /\ Cardinality(Parsing(m) \cup {w}) = Cardinality(Parsing(m)) + 1
      BY <2>1, <2>2, FS_AddElement
    <3>3. receives'[m] = receives[m] + 1 /\ receives[m] \in Nat
      BY <1>1, <2>3, DeliverEffect
    <3> QED BY <2>1, <3>1, <3>2, <3>3
  <2>4. CASE m \notin M
    <3>1. Parsing(m)' = Parsing(m)
      BY <1>2, <1>3, <2>4 DEF Parsing, NoJob
    <3>2. receives'[m] = receives[m]
      BY <1>1, <2>4, DeliverEffect
    <3> QED BY <2>1, <3>1, <3>2
  <2> QED BY <2>3, <2>4
<1> QED BY <1>6, <1>7, <1>8, <1>9, <1>10 DEF IInv

\* A job that ends, acknowledged or not; a delete finds the message handled.
LEMMA JobEndsKeeps ==
  ASSUME IInv, NEW w \in Workers, NEW m \in Messages,
         Reject(w, m) \/ Acknowledge(w, m) \/ AcknowledgeFails(w, m)
  PROVE  IInv'
<1>1. /\ process' = process /\ aborted' = aborted /\ handled' = handled /\ receives' = receives
      /\ job' = [job EXCEPT ![w][m] = NoJob]
  BY DEF Reject, Acknowledge, AcknowledgeFails, Delete, queueVars
<1>2. \A v \in Workers, n \in Messages :
        job'[v][n] = IF v = w /\ n = m THEN NoJob ELSE job[v][n]
  BY <1>1 DEF IInv, TypeOK
<1>3. \/ place' = place
      \/ /\ job[w][m].step = "acknowledge"
         /\ place' = [place EXCEPT ![m] =
                        IF @ \in {"visible", "hidden"} THEN "deleted" ELSE @]
  BY DEF Reject, Acknowledge, AcknowledgeFails, Delete, queueVars
<1>4. TypeOK'
  <2>1. NoJob \in Job
    BY RedrivePolicy DEF NoJob, Job
  <2> QED BY <1>1, <1>3, <2>1 DEF IInv, TypeOK, QueueTypeOK, Places
<1>5. \A n \in Messages : place'[n] = "unsent" <=> place[n] = "unsent"
  BY <1>3 DEF IInv, TypeOK, QueueTypeOK
<1>6. JobsWellFormed'
  BY <1>1, <1>2, <1>5 DEF IInv, JobsWellFormed
<1>7. OneJobPerReceipt'
  <2>1. \A u, v \in Workers, n \in Messages :
          job'[u][n] # NoJob /\ job'[u][n].receipt = job'[v][n].receipt => u = v
    BY <1>2, ReceiptNamed DEF IInv, OneJobPerReceipt, NoJob
  <2>2. \A v \in Workers : process'[v] # "handling" => Batch(v)' = {}
    BY <1>1, <1>2 DEF IInv, OneJobPerReceipt, Batch
  <2> QED BY <2>1, <2>2 DEF OneJobPerReceipt
<1>8. DeletedOnlyAfterHandling'
  <2>1. job[w][m].step = "acknowledge" => handled[m] > 0
    BY DEF IInv, JobsWellFormed, NoJob
  <2> QED BY <1>1, <1>3, <2>1 DEF IInv, TypeOK, QueueTypeOK, DeletedOnlyAfterHandling
<1>9. \A n \in Messages : Parsing(n)' \subseteq Parsing(n)
  BY <1>2 DEF Parsing, NoJob
<1>10. UnhandledDeliveries'
  BY <1>1, <1>4, <1>9, FewerParsing DEF IInv, TypeOK, QueueTypeOK
<1> QED BY <1>4, <1>6, <1>7, <1>8, <1>10 DEF IInv

\* The handler runs: the delivery was not handled and now is.
LEMMA DispatchKeeps ==
  ASSUME IInv, NEW w \in Workers, NEW m \in Messages, Dispatch(w, m)
  PROVE  IInv'
<1>1. /\ process' = process /\ aborted' = aborted /\ place' = place /\ receives' = receives
      /\ job' = [job EXCEPT ![w][m].step = "acknowledge"]
      /\ handled' = [handled EXCEPT ![m] = @ + 1]
      /\ job[w][m].step = "parse"
  BY DEF Dispatch, queueVars
<1>2. \A v \in Workers, n \in Messages :
        job'[v][n] = IF v = w /\ n = m THEN [job[v][n] EXCEPT !.step = "acknowledge"]
                                       ELSE job[v][n]
  BY <1>1 DEF IInv, TypeOK
<1>3. \A n \in Messages : /\ handled[n] \in Nat
                          /\ handled'[n] = IF n = m THEN handled[n] + 1 ELSE handled[n]
  BY <1>1 DEF IInv, TypeOK
<1>4. TypeOK'
  <2>1. [job[w][m] EXCEPT !.step = "acknowledge"] \in Job
    BY RedrivePolicy DEF IInv, TypeOK, Job
  <2>2. job' \in [Workers -> [Messages -> Job]]
    BY <1>1, <2>1 DEF IInv, TypeOK
  <2> QED BY <1>1, <2>2 DEF IInv, TypeOK, QueueTypeOK
<1>5. job[w][m] # NoJob /\ job[w][m] \in Job
  BY <1>1 DEF IInv, TypeOK, NoJob
<1>6. JobsWellFormed'
  <2> SUFFICES ASSUME NEW v \in Workers, NEW n \in Messages, job'[v][n] # NoJob
               PROVE  /\ process[v] = "handling" /\ job'[v][n].step # "none"
                      /\ job'[v][n].receipt \in 1..receives[n] /\ place[n] # "unsent"
                      /\ job'[v][n].step = "acknowledge" => handled'[n] > 0
    BY <1>1 DEF JobsWellFormed
  <2>1. CASE v = w /\ n = m
    <3>1. job'[v][n].step = "acknowledge" /\ job'[v][n].receipt = job[v][n].receipt
      BY <1>2, <1>5, <2>1 DEF Job
    <3> QED BY <3>1, <1>3, <1>5, <2>1 DEF IInv, JobsWellFormed
  <2>2. CASE ~ (v = w /\ n = m)
    <3>1. job'[v][n] = job[v][n]
      BY <1>2, <2>2
    <3> QED BY <3>1, <1>3 DEF IInv, JobsWellFormed
  <2> QED BY <2>1, <2>2
<1>7. OneJobPerReceipt'
  <2>1. ASSUME NEW u \in Workers, NEW v \in Workers, NEW n \in Messages,
               job'[u][n] # NoJob, job'[u][n].receipt = job'[v][n].receipt
        PROVE  u = v
    <3>1. ASSUME NEW x \in Workers
          PROVE  /\ job'[x][n].receipt = job[x][n].receipt
                 /\ job'[x][n] # NoJob => job[x][n] # NoJob
      <4>1. CASE x = w /\ n = m
        BY <1>2, <1>5, <4>1 DEF Job
      <4>2. CASE ~ (x = w /\ n = m)
        BY <1>2, <4>2
      <4> QED BY <4>1, <4>2
    <3> QED BY <2>1, <3>1 DEF IInv, OneJobPerReceipt
  <2>2. \A v \in Workers : process'[v] # "handling" => Batch(v)' = {}
    BY <1>1, <1>2, <1>5 DEF IInv, JobsWellFormed, OneJobPerReceipt, Batch
  <2> QED BY <2>1, <2>2 DEF OneJobPerReceipt
<1>8. DeletedOnlyAfterHandling'
  BY <1>1, <1>3 DEF IInv, DeletedOnlyAfterHandling
<1>9. UnhandledDeliveries'
  <2> SUFFICES ASSUME NEW n \in Messages
               PROVE  /\ IsFiniteSet(Parsing(n)')
                      /\ handled'[n] + Cardinality(Parsing(n)') <= receives[n]
    BY <1>1 DEF UnhandledDeliveries
  <2>1. /\ IsFiniteSet(Parsing(n)) /\ Cardinality(Parsing(n)) \in Nat
        /\ handled[n] + Cardinality(Parsing(n)) <= receives[n]
        /\ receives[n] \in Nat
    BY FS_CardinalityType DEF IInv, TypeOK, QueueTypeOK, UnhandledDeliveries
  <2>2. CASE n = m
    <3>1. Parsing(n)' = Parsing(n) \ {w} /\ w \in Parsing(n)
      BY <1>1, <1>2, <1>5, <2>2 DEF Parsing, Job
    <3>2. /\ IsFiniteSet(Parsing(n) \ {w})
          /\ Cardinality(Parsing(n) \ {w}) = Cardinality(Parsing(n)) - 1
      BY <2>1, <3>1, FS_RemoveElement
    <3> QED BY <1>3, <2>1, <2>2, <3>1, <3>2
  <2>3. CASE n # m
    <3>1. Parsing(n)' = Parsing(n)
      BY <1>2, <2>3 DEF Parsing
    <3> QED BY <1>3, <2>1, <2>3, <3>1
  <2> QED BY <2>2, <2>3
<1> QED BY <1>4, <1>6, <1>7, <1>8, <1>9 DEF IInv

\* The invariant is inductive.
LEMMA NextKeeps == IInv /\ [Next]_vars => IInv'
<1> SUFFICES ASSUME IInv, [Next]_vars PROVE IInv'
  OBVIOUS
<1>1. ASSUME NEW w \in Workers, Work(w)
      PROVE  IInv'
  <2>1. CASE Start(w) \/ Signal(w) \/ Settle(w)
    BY <2>1, ProcessKeeps
  <2>2. CASE Crash(w)
    BY <2>2, CrashKeeps
  <2>3. CASE \E M \in SUBSET Messages : Receive(w, M) \/ ReceiveFails(w, M)
    BY <2>3, ReceiveKeeps, ReceiveFailsKeeps
  <2>4. CASE \E m \in Messages : Handle(w, m)
    BY <2>4, JobEndsKeeps, DispatchKeeps DEF Handle
  <2> QED BY <1>1, <2>1, <2>2, <2>3, <2>4 DEF Work
<1>2. CASE UNCHANGED vars
  BY <1>2
     DEF vars, IInv, TypeOK, QueueTypeOK, JobsWellFormed, UnhandledDeliveries, Parsing,
         OneJobPerReceipt, Batch, DeletedOnlyAfterHandling
<1> QED BY <1>1, <1>2, QueueKeeps DEF Next

-----------------------------------------------------------------------------

\* What every step of queue and workers keeps.
THEOREM WorkerInvariant == Spec => []IInv
BY InitIInv, NextKeeps, PTL DEF Spec

\* The queue's and the workers' state is always well typed.
THEOREM TypeCorrect == Spec => []TypeOK
<1>1. IInv => TypeOK
  BY DEF IInv
<1> QED BY <1>1, WorkerInvariant, PTL

\* No message is deleted before its handler ran, whatever replicas hold of it.
THEOREM HandledBeforeDeleted == Spec => []DeletedOnlyAfterHandling
<1>1. IInv => DeletedOnlyAfterHandling
  BY DEF IInv
<1> QED BY <1>1, WorkerInvariant, PTL

\* A handler runs at most once per delivery, with any number of replicas.
THEOREM HandlingBounded == Spec => []HandledAtMostReceives
<1>1. IInv => HandledAtMostReceives
  <2> SUFFICES ASSUME IInv, NEW m \in Messages
               PROVE  handled[m] <= receives[m]
    BY DEF HandledAtMostReceives
  <2>1. Cardinality(Parsing(m)) \in Nat /\ handled[m] + Cardinality(Parsing(m)) <= receives[m]
    BY FS_CardinalityType DEF IInv, UnhandledDeliveries
  <2>2. handled[m] \in Nat /\ receives[m] \in Nat
    BY DEF IInv, TypeOK, QueueTypeOK
  <2> QED BY <2>1, <2>2
<1> QED BY <1>1, WorkerInvariant, PTL

\* No two workers are at work on the same receipt.
THEOREM ReceiptsHeldOnce == Spec => []OneJobPerReceipt
<1>1. IInv => OneJobPerReceipt
  BY DEF IInv
<1> QED BY <1>1, WorkerInvariant, PTL

-----------------------------------------------------------------------------
\* The safety half of the promise of AtLeastOnce: each step of the queue and the
\* workers is a step of the promise or none.

\* A step that changes neither a fate nor a count of runs is none.
LEMMA StutterIsNone ==
  ASSUME handled' = handled, \A m \in Messages : FateOf(place'[m]) = FateOf(place[m])
  PROVE  [Contract!PromiseNext]_(Contract!promiseVars)
<1>1. [m \in Messages |-> FateOf(place'[m])] = [m \in Messages |-> FateOf(place[m])]
  OBVIOUS
<1> QED BY <1>1 DEF Contract!promiseVars

\* The fate that each place stands for.
LEMMA Fates ==
  /\ FateOf("unsent") = "unsent" /\ FateOf("visible") = "pending" /\ FateOf("hidden") = "pending"
  /\ FateOf("deleted") = "removed" /\ FateOf("dead") = "buried"
BY DEF FateOf

\* The fate of one message changes.
LEMMA OneFateChanges ==
  ASSUME NEW m \in Messages, NEW fate,
         \A n \in Messages : FateOf(place'[n]) = IF n = m THEN fate ELSE FateOf(place[n])
  PROVE  [n \in Messages |-> FateOf(place'[n])]
           = [[n \in Messages |-> FateOf(place[n])] EXCEPT ![m] = fate]
OBVIOUS

\* The queue's own steps accept a message, hide it no longer, or bury it.
LEMMA QueueImplements ==
  ASSUME IInv, NEW m \in Messages, Queue(m)
  PROVE  [Contract!PromiseNext]_(Contract!promiseVars)
<1>1. handled' = handled
  BY DEF Queue
<1>2. CASE Send(m)
  <2>1. /\ FateOf(place[m]) = "unsent"
        /\ \A n \in Messages :
             FateOf(place'[n]) = IF n = m THEN "pending" ELSE FateOf(place[n])
    <3>1. \A n \in Messages : place'[n] = IF n = m THEN "visible" ELSE place[n]
      BY <1>2 DEF Send, IInv, TypeOK, QueueTypeOK
    <3> QED BY <1>2, <3>1, Fates DEF Send
  <2>2. Contract!Accept(m)
    BY <1>1, <2>1, OneFateChanges DEF Contract!Accept
  <2> QED BY <2>2 DEF Contract!PromiseNext
<1>3. CASE Reappear(m)
  <2>1. \A n \in Messages : FateOf(place'[n]) = FateOf(place[n])
    BY <1>3 DEF Reappear, FateOf, IInv, TypeOK, QueueTypeOK
  <2> QED BY <1>1, <2>1, StutterIsNone
<1>4. CASE Redrive(m)
  <2>1. /\ FateOf(place[m]) = "pending"
        /\ \A n \in Messages :
             FateOf(place'[n]) = IF n = m THEN "buried" ELSE FateOf(place[n])
    <3>1. \A n \in Messages : place'[n] = IF n = m THEN "dead" ELSE place[n]
      BY <1>4 DEF Redrive, IInv, TypeOK, QueueTypeOK
    <3> QED BY <1>4, <3>1, Fates DEF Redrive
  <2>2. Contract!Bury(m)
    BY <1>1, <2>1, OneFateChanges DEF Contract!Bury
  <2> QED BY <2>2 DEF Contract!PromiseNext
<1> QED BY <1>2, <1>3, <1>4 DEF Queue

\* A delivery hides messages, which leaves them pending.
LEMMA DeliverImplements ==
  ASSUME IInv, NEW M \in SUBSET Messages, Deliver(M), handled' = handled
  PROVE  [Contract!PromiseNext]_(Contract!promiseVars)
<1>1. \A n \in Messages : FateOf(place'[n]) = FateOf(place[n])
  BY DeliverEffect DEF FateOf
<1> QED BY <1>1, StutterIsNone

\* The handler of a job runs on a message that was sent.
LEMMA DispatchImplements ==
  ASSUME IInv, NEW w \in Workers, NEW m \in Messages, Dispatch(w, m)
  PROVE  [Contract!PromiseNext]_(Contract!promiseVars)
<1>1. place[m] # "unsent" /\ place[m] \in Places
  BY DEF Dispatch, IInv, TypeOK, QueueTypeOK, JobsWellFormed, NoJob
<1>2. place' = place /\ handled' = [handled EXCEPT ![m] = @ + 1]
  BY DEF Dispatch, queueVars
<1>3. Contract!Run(m)
  BY <1>1, <1>2 DEF Contract!Run, FateOf, Places
<1> QED BY <1>3 DEF Contract!PromiseNext

\* A delete removes a pending message that was handled, or finds it gone.
LEMMA AcknowledgeImplements ==
  ASSUME IInv, NEW w \in Workers, NEW m \in Messages, Acknowledge(w, m)
  PROVE  [Contract!PromiseNext]_(Contract!promiseVars)
<1>1. handled' = handled /\ handled[m] > 0
  BY DEF Acknowledge, IInv, JobsWellFormed, NoJob
<1>2. CASE place' = place
  BY <1>1, <1>2, StutterIsNone
<1>3. CASE place[m] \in {"visible", "hidden"} /\ place' = [place EXCEPT ![m] = "deleted"]
  <2>1. /\ FateOf(place[m]) = "pending"
        /\ \A n \in Messages :
             FateOf(place'[n]) = IF n = m THEN "removed" ELSE FateOf(place[n])
    <3>1. \A n \in Messages : place'[n] = IF n = m THEN "deleted" ELSE place[n]
      BY <1>3 DEF IInv, TypeOK, QueueTypeOK
    <3> QED BY <1>3, <3>1, Fates
  <2>2. Contract!Remove(m)
    BY <1>1, <2>1, OneFateChanges DEF Contract!Remove
  <2> QED BY <2>2 DEF Contract!PromiseNext
<1>4. \/ place' = place
      \/ place[m] \in {"visible", "hidden"} /\ place' = [place EXCEPT ![m] = "deleted"]
  BY DEF Acknowledge, Delete, IInv, TypeOK, QueueTypeOK
<1> QED BY <1>2, <1>3, <1>4

\* Workers that stop, crash and fail as they like still keep the promise that a
\* message is removed only after it was handled and is never brought back.
THEOREM ImplementsPromiseSafety == Spec => Contract!PromiseSafety
<1>1. Init => Contract!PromiseInit
  BY DEF Init, QueueInit, Contract!PromiseInit, FateOf
<1>2. IInv /\ [Next]_vars => [Contract!PromiseNext]_(Contract!promiseVars)
  <2> SUFFICES ASSUME IInv, [Next]_vars
               PROVE  [Contract!PromiseNext]_(Contract!promiseVars)
    OBVIOUS
  <2>1. ASSUME NEW w \in Workers, Work(w)
        PROVE  [Contract!PromiseNext]_(Contract!promiseVars)
    <3>1. CASE \E M \in SUBSET Messages : Receive(w, M) \/ ReceiveFails(w, M)
      BY <3>1, DeliverImplements DEF Receive, ReceiveFails
    <3>2. CASE \E m \in Messages : Dispatch(w, m) \/ Acknowledge(w, m)
      BY <3>2, DispatchImplements, AcknowledgeImplements
    <3>3. CASE place' = place /\ handled' = handled
      BY <3>3, StutterIsNone
    <3> QED BY <2>1, <3>1, <3>2, <3>3
            DEF Work, Start, Signal, Crash, Settle, Handle, Reject, AcknowledgeFails, queueVars
  <2>2. CASE UNCHANGED vars
    BY <2>2, StutterIsNone DEF vars
  <2> QED BY <2>1, <2>2, QueueImplements DEF Next
<1> QED BY <1>1, <1>2, WorkerInvariant, PTL DEF Spec, Contract!PromiseSafety

=============================================================================

---------------------------- MODULE MCMessageWorker ----------------------------
(***************************************************************************)
(* Instances of MessageWorker for TLC, with the promise it implements.     *)
(***************************************************************************)
EXTENDS MessageWorkerRefinement, TLC

=============================================================================

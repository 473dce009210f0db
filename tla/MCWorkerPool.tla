---------------------------- MODULE MCWorkerPool ----------------------------
(***************************************************************************)
(* WorkerPool on a small instance: WorkerPool.cfg has one caller, as the   *)
(* program does, two workers and three connections, so that a third one is *)
(* refused or waits for a worker to be reused; workers are obsolete after  *)
(* one second.                                                             *)
(***************************************************************************)
EXTENDS WorkerPool
=============================================================================

----------------------------- MODULE MCWorkerPool -----------------------------
(* Small instances of WorkerPool.tla for TLC. *)
EXTENDS WorkerPool
===============================================================================

---------------------------- MODULE MCWorkerLock ----------------------------
(* Three processes race for the worker lock, any of them may die anywhere. *)
EXTENDS WorkerLock
=============================================================================

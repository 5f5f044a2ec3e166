------------------------- MODULE MCWorkerSupervisor -------------------------
(* Instance of WorkerSupervisor for TLC. *)
EXTENDS WorkerSupervisor

CONSTANTS r1, r2, r3
=============================================================================

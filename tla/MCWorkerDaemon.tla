--------------------------- MODULE MCWorkerDaemon ---------------------------
(***************************************************************************)
(* Instances of WorkerDaemon for TLC.                                      *)
(***************************************************************************)
EXTENDS WorkerDaemon

CONSTANTS j1, j2, j3

MCJobs == {j1, j2, j3}

=============================================================================

-------------------------- MODULE MCLocalWorkerLoop --------------------------
(***************************************************************************)
(* Instances of LocalWorkerLoop for TLC.                                   *)
(***************************************************************************)
EXTENDS LocalWorkerLoop

CONSTANTS t1, t2, t3, j1, j2

MCThreads == {t1, t2, t3}
MCJobs == {j1, j2}

=============================================================================

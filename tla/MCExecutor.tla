----------------------------- MODULE MCExecutor -----------------------------
(* One run, with an overall timeout of two idle timeouts.                  *)
EXTENDS Executor

=============================================================================

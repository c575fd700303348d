---------------------------- MODULE MCAsyncLogger ----------------------------
(* Instances of AsyncLogger for TLC. *)
EXTENDS AsyncLogger
=============================================================================

--------------------------- MODULE MCMessageWriter ---------------------------
(* Instances of MessageWriter for TLC. *)
EXTENDS MessageWriter
=============================================================================

----------------------------- MODULE MCQtClient -----------------------------
(* Instances of QtClient for TLC. *)
EXTENDS QtClient
=============================================================================

---------------------------- MODULE MCConnection ----------------------------
(* Instances of Connection for TLC. *)
EXTENDS ConnectionInv, TLC

\* Workers are interchangeable: only safety runs use this.
WorkerSymmetry == Permutations(Workers)
=============================================================================

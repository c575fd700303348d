---------------------------- MODULE SessionService ----------------------------
(***************************************************************************)
(* What a Connection promises to the business layer that is plugged into   *)
(* it (the handler set by setBusinessHandler and the cleanup set by        *)
(* setcloseCallback): requests are handled one at a time, in the order of  *)
(* arrival and without a gap, only while the connection is open; and after *)
(* the close one cleanup runs, alone and last.                             *)
(***************************************************************************)
EXTENDS Integers, Sequences

VARIABLES
  entered,      \* the requests whose handler was entered, in that order
  active,       \* a handler is running
  open,         \* requests are still accepted
  cleaned       \* the cleanup has run

svars == <<entered, active, open, cleaned>>

Init == entered = <<>> /\ active = FALSE /\ open = TRUE /\ cleaned = FALSE

Enter ==
  /\ open /\ ~active
  /\ entered' = Append(entered, Len(entered) + 1)
  /\ active' = TRUE
  /\ UNCHANGED <<open, cleaned>>

Leave ==
  /\ active
  /\ active' = FALSE
  /\ UNCHANGED <<entered, open, cleaned>>

\* A handler that is running may go on after the close.
Close ==
  /\ open
  /\ open' = FALSE
  /\ UNCHANGED <<entered, active, cleaned>>

Cleanup ==
  /\ ~open /\ ~active /\ ~cleaned
  /\ cleaned' = TRUE
  /\ UNCHANGED <<entered, active, open>>

Next == Enter \/ Leave \/ Close \/ Cleanup

Spec == Init /\ [][Next]_svars
=============================================================================

------------------------------- MODULE Executor -------------------------------
(***************************************************************************)
(* What runInLoop() promises to the threads that use it: the callbacks     *)
(* they post run one at a time, each once, in the order of posting; a loop *)
(* that is told to stop may leave the rest undone.  Connection and         *)
(* ServerStop are written against this queue; EventLoop implements it.     *)
(***************************************************************************)
EXTENDS Sequences

CONSTANT Callbacks

VARIABLES
  pending,      \* posted and not yet run, in order
  ran,          \* run, in order
  halted        \* the loop has left

evars == <<pending, ran, halted>>

Init == pending = <<>> /\ ran = <<>> /\ halted = FALSE

Post ==
  /\ \E cb \in Callbacks : pending' = Append(pending, cb)
  /\ UNCHANGED <<ran, halted>>

Run ==
  /\ ~halted /\ pending # <<>>
  /\ ran' = Append(ran, Head(pending))
  /\ pending' = Tail(pending)
  /\ UNCHANGED halted

Halt == halted' = TRUE /\ UNCHANGED <<pending, ran>>

Next == Post \/ Run \/ Halt

Spec == Init /\ [][Next]_evars
=============================================================================

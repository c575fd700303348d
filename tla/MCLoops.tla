------------------------------- MODULE MCLoops -------------------------------
(***************************************************************************)
(* The event loops, for TLC: one loop in detail (EventLoop), and all the   *)
(* loops with the worker pool under Server::stop (ServerStop).  A          *)
(* behaviour moves one of the two, which Init chooses, and leaves the      *)
(* other as it started.                                                    *)
(***************************************************************************)
EXTENDS EventLoop, ServerStop

ASSUME PartsAssumption == StopAssumption

VARIABLE part

all == <<part, vars, serverVars>>

OneLoop(A) == part = "loop" /\ A /\ UNCHANGED <<part, serverVars>>
InServer(A) == part = "server" /\ A /\ UNCHANGED <<part, vars>>

AllInit == part \in {"loop", "server"} /\ Init /\ ServerInit

AllNext == OneLoop(Next) \/ InServer(ServerNext)

\* The fairness of the part that moves.
AllFairness ==
  /\ WF_all(OneLoop(LoopStep))
  /\ \A p \in Posters : WF_all(OneLoop(PosterStep(p)))
  /\ WF_all(InServer(MainStep))
  /\ \A l \in Loops : WF_all(InServer(IoLoopStep(l)))
  /\ \A w \in ServerWorkers : WF_all(InServer(WorkerStep(w)))

AllSpec == AllInit /\ [][AllNext]_all /\ AllFairness
=============================================================================

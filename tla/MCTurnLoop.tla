----------------------------- MODULE MCTurnLoop -----------------------------
(***************************************************************************)
(* A turn and the daemon its cells run in for TLC. In TurnLoop a cell is   *)
(* its outcome, so the two share nothing here: a behaviour is one of them  *)
(* and the state spaces add up instead of multiplying.                     *)
(***************************************************************************)
EXTENDS TurnLoop, ExecutionDaemon

VARIABLE part
MCInit == Init /\ DaemonInit /\ part \in {"turn", "daemon"}
MCNext ==
    /\ UNCHANGED part
    /\ \/ part = "turn" /\ Next /\ UNCHANGED daemonVars
       \/ part = "daemon" /\ DaemonNext /\ UNCHANGED vars

\* No step of the part that does not run is ever enabled.
MCSpec == MCInit /\ [][MCNext]_<<vars, daemonVars, part>> /\ WF_vars(TurnNext) /\ DaemonFairness
=============================================================================

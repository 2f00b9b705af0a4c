------------------------------ MODULE MCDaemon ------------------------------
(***************************************************************************)
(* The CLI for TLC: its daemon with one terminal and two supervisors at    *)
(* most, the log of one child, and wizard init and update. The three share *)
(* nothing here, so a behaviour is one of them and the state spaces add up *)
(* instead of multiplying.                                                 *)
(***************************************************************************)
EXTENDS WizardCLI, DaemonLogs, Setup

VARIABLE part
vars == <<cliVars, logVars, setupVars, part>>

MCInit ==
    /\ CliInit /\ LogInit /\ SetupInit
    /\ part \in {"cli", "log", "setup"}
    /\ part = "setup" \/ ram = "fits"

MCNext ==
    /\ UNCHANGED part
    /\ \/ part = "cli" /\ CliNext /\ UNCHANGED <<logVars, setupVars>>
       \/ part = "log" /\ LogNext /\ UNCHANGED <<cliVars, setupVars>>
       \/ part = "setup" /\ SetupNext /\ UNCHANGED <<cliVars, logVars>>

MCSpec == MCInit /\ [][MCNext]_vars /\ CliFairness
=============================================================================

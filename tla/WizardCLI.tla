------------------------------ MODULE WizardCLI ------------------------------
(***************************************************************************)
(* The commands a user types, wizard start and wizard stop, beside the     *)
(* supervisor they start and stop. They share nothing with it but the      *)
(* files of the run directory and signals, and each is a sequence of       *)
(* checks and file operations between which the supervisor moves.          *)
(***************************************************************************)
EXTENDS Supervisor

CONSTANT Terminals    \* where commands are typed, one at a time in each

VARIABLE cli          \* the command that runs in each terminal
cliVars == <<pidfile, sentinel, crashed, alive, sup, cli>>

Places == {"idle", "spawned", "waiting", "asked", "stop", "stopping",
           "kill_backend", "kill_frontend", "kill_daemon", "killed"}

CliTypeOK == cli \in [Terminals -> [at : Places, sup : Sups \cup {0}]]
CliInit == SupInit /\ cli = [t \in Terminals |-> [at |-> "idle", sup |-> 0]]

Moves(t, from, to) == cli[t].at = from /\ cli' = [cli EXCEPT ![t].at = to]

-----------------------------------------------------------------------------
StartDetached(s) == alive' = alive \cup {<<s>>} /\ Goes(s, "boot")

(* wizard start: refused while daemon.pid names a live process. *)
StartSpawns(t) ==
    /\ ~LiveAt("daemon")
    /\ \E s \in Sups :
          /\ sup[s].pc = "unborn" /\ \A r \in Sups : r < s => sup[r].pc # "unborn"
          /\ StartDetached(s)
          /\ cli[t].at = "idle"
          /\ cli' = [cli EXCEPT ![t] = [at |-> "spawned", sup |-> s]]
    /\ UNCHANGED <<pidfile, sentinel, crashed>>

(* The pid is recorded by the command, after the fact; when that fails the *)
(* supervisor is killed, wherever in Run it is.                            *)
StartRecords(t) ==
    /\ Moves(t, "spawned", "waiting")
    /\ Records("daemon", <<cli[t].sup>>)
    /\ UNCHANGED <<sentinel, crashed, alive, sup>>

StartCannotRecord(t) ==
    /\ Moves(t, "spawned", "idle")
    /\ IF <<cli[t].sup>> \in alive THEN KillsSupervisor(cli[t].sup)
                                   ELSE UNCHANGED <<alive, sup>>
    /\ UNCHANGED <<pidfile, sentinel, crashed>>

StartIsHealthy(t) ==
    /\ Moves(t, "waiting", "idle")
    /\ Answering("backend")
    /\ UNCHANGED supVars

(* requestStop, after a timeout or a version mismatch. *)
RequestsStop(t) ==
    /\ Moves(t, "waiting", "asked")
    /\ sentinel' = TRUE
    /\ UNCHANGED <<pidfile, crashed, alive, sup>>

RequestNoticed(t) == ~LiveAt("daemon") /\ Moves(t, "asked", "idle") /\ UNCHANGED supVars

RequestExpires(t) ==
    /\ Moves(t, "asked", "idle")
    /\ sentinel' = FALSE
    /\ UNCHANGED <<pidfile, crashed, alive, sup>>

-----------------------------------------------------------------------------
(* wizard stop. *)
StopFindsNothing(t) ==
    /\ cli[t].at = "idle" /\ ~LiveAt("daemon")
    /\ sentinel' = FALSE
    /\ pidfile' = Removed(DOMAIN pidfile)
    /\ UNCHANGED <<crashed, alive, sup, cli>>

StopFindsDaemon(t) == LiveAt("daemon") /\ Moves(t, "idle", "stop") /\ UNCHANGED supVars

StopAsks(t) ==
    /\ Moves(t, "stop", "stopping")
    /\ sentinel' = TRUE
    /\ UNCHANGED <<pidfile, crashed, alive, sup>>

StopCannotAsk(t) == Moves(t, "stop", "idle") /\ UNCHANGED supVars
StopNoticed(t) == ~LiveAt("daemon") /\ Moves(t, "stopping", "idle") /\ UNCHANGED supVars
StopForces(t) == Moves(t, "stopping", "kill_backend") /\ UNCHANGED supVars

(* forceKill reads each pid file right before it kills. *)
ForceKillsChild(t, l) ==
    /\ IF l = "backend" THEN Moves(t, "kill_backend", "kill_frontend")
                       ELSE Moves(t, "kill_frontend", "kill_daemon")
    /\ alive' = IF LiveAt(l) THEN alive \ {pidfile[l]} ELSE alive
    /\ UNCHANGED <<pidfile, sentinel, crashed, sup>>

ForceKillsNobody(t) == Moves(t, "kill_daemon", "killed") /\ UNCHANGED supVars

ForceKillsDaemon(t) ==
    /\ Moves(t, "kill_daemon", "killed")
    /\ IF LiveAt("daemon") THEN KillsSupervisor(pidfile["daemon"][1])
                           ELSE UNCHANGED <<alive, sup>>
    /\ UNCHANGED <<pidfile, sentinel, crashed>>

ForceCleans(t) ==
    /\ Moves(t, "killed", "idle")
    /\ pidfile' = Removed(DOMAIN pidfile)
    /\ sentinel' = FALSE
    /\ UNCHANGED <<crashed, alive, sup>>

Waits(t) == RequestExpires(t) \/ StopForces(t)

CliStep(t) ==
    \/ StartRecords(t) \/ StartCannotRecord(t) \/ StartIsHealthy(t)
    \/ RequestsStop(t) \/ RequestNoticed(t)
    \/ StopAsks(t) \/ StopCannotAsk(t) \/ StopNoticed(t)
    \/ \E l \in Labels : ForceKillsChild(t, l)
    \/ ForceKillsDaemon(t) \/ ForceCleans(t)

CliUser(t) == StartSpawns(t) \/ StopFindsNothing(t) \/ StopFindsDaemon(t)

CliNext ==
    \/ \E t \in Terminals : CliStep(t) \/ Waits(t) \/ CliUser(t)
    \/ (SupEnvironment \/ \E s \in Sups : SupStep(s)) /\ UNCHANGED cli

(* The loop is scheduled and its sleeps end; nobody has to type a command, *)
(* no child has to die. The deadlines of the commands are not assumed to   *)
(* pass: what ends only because a command lost patience was not heeded.    *)
CliFairness ==
    /\ \A s \in Sups : WF_cliVars(SupStep(s) /\ UNCHANGED cli)
    /\ \A t \in Terminals : WF_cliVars(CliStep(t))

CliSpec == CliInit /\ [][CliNext]_cliVars /\ CliFairness

-----------------------------------------------------------------------------
Supervising(s) == <<s>> \in alive

(* With one terminal there is one supervisor, and the pid files name each  *)
(* of its living children, so that status reports them and stop can reach  *)
(* them. A supervisor that ends by itself, on a request, after giving up   *)
(* or for a failed boot, leaves none of its children running: only one     *)
(* that was killed does (daemon.Run, managed.start, cleanupAll).           *)
EveryProcessIsAccountedFor ==
    /\ \A r, s \in Sups : Supervising(r) /\ Supervising(s) => r = s
    /\ \A s \in Sups, l \in Labels :
          Supervising(s) /\ Child(s, l) \in alive => pidfile[l] = Child(s, l)
    /\ \A p \in alive \cap Children : Supervising(p[1]) \/ sup[p[1]].pc = "killed"

(* stop does what it says: when it returns, noticed or forced, nothing     *)
(* supervises any more (RunStop, forceKill).                               *)
StopStops ==
    [][\A t \in Terminals :
          cli[t].at \in {"stopping", "killed"} /\ cli'[t].at = "idle"
             => \A s \in Sups : ~Supervising(s)']_cliVars

(* A request to stop is heeded by the supervisor itself: while the         *)
(* sentinel exists it does not go on for ever, whatever its children do    *)
(* and wherever in its sleeps it is (Run's ticks, restart's backoff).      *)
StopIsHeeded ==
    \A s \in Sups : sentinel /\ Supervising(s) ~> ~sentinel \/ ~Supervising(s)

(* Once no supervisor runs and no command is under way there is no stop    *)
(* request left to end the next start at its first tick (start.go:140).    *)
NoRequestIsLeft ==
    (\A t \in Terminals : cli[t].at = "idle") /\ (\A s \in Sups : ~Supervising(s))
        => ~sentinel
=============================================================================

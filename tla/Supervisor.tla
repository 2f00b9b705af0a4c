----------------------------- MODULE Supervisor -----------------------------
(***************************************************************************)
(* The daemon behind `wizard start`: daemon.Run, the loop that owns the    *)
(* backend and the frontend process, and the files of the run directory    *)
(* through which it and the commands of the CLI know of each other.        *)
(*                                                                         *)
(* A process is named by what started it, so a pid together with its start *)
(* time, which is what LiveAt compares: <<s>> is supervisor s and          *)
(* <<s, l, n>> the child with label l it launched after n restarts.        *)
(***************************************************************************)
EXTENDS Naturals, FiniteSets

CONSTANTS Sups,              \* the supervisors ever spawned, 1 .. n
          MaxRestarts,       \* Config.MaxRestarts
          FailuresToRestart  \* Config.FailuresToRestart

ASSUME SupervisorAssumption ==
    /\ Sups \subseteq Nat \ {0}
    /\ MaxRestarts \in Nat
    /\ FailuresToRestart \in Nat \ {0}

VARIABLES
    pidfile,   \* backend.pid, frontend.pid and daemon.pid: the process each names
    sentinel,  \* whether stop-requested exists
    crashed,   \* whether the crashed marker exists
    alive,     \* the processes that run
    sup        \* the state of each supervisor's Run

supVars == <<pidfile, sentinel, crashed, alive, sup>>

Labels == {"backend", "frontend"}
NoProcess == <<>>
Children == Sups \X Labels \X (0 .. MaxRestarts)
Processes == {<<s>> : s \in Sups} \cup Children

Phases == {"unborn", "boot", "boot2", "loop", "frontcheck", "backoff",
           "cleanup", "leave", "gone", "killed"}

SupTypeOK ==
    /\ pidfile \in [Labels \cup {"daemon"} -> Processes \cup {NoProcess}]
    /\ sentinel \in BOOLEAN
    /\ crashed \in BOOLEAN
    /\ alive \subseteq Processes
    /\ sup \in [Sups -> [pc : Phases, which : Labels, then : {"loop", "frontcheck"},
                         restarts : [Labels -> 0 .. MaxRestarts],
                         streak : [Labels -> 0 .. FailuresToRestart - 1]]]

(* What a supervisor remembers when it has done nothing yet; a process     *)
(* that has ended remembers nothing either.                                *)
Memory(pc) == [pc |-> pc, which |-> "backend", then |-> "loop",
               restarts |-> [l \in Labels |-> 0], streak |-> [l \in Labels |-> 0]]

SupInit ==
    /\ pidfile = [f \in Labels \cup {"daemon"} |-> NoProcess]
    /\ sentinel = FALSE
    /\ crashed = FALSE
    /\ alive = {}
    /\ sup = [s \in Sups |-> Memory("unborn")]

Child(s, l) == <<s, l, sup[s].restarts[l]>>
Other(l) == IF l = "backend" THEN "frontend" ELSE "backend"
LiveAt(f) == pidfile[f] \in alive
Records(f, p) == pidfile' = [pidfile EXCEPT ![f] = p]
Removed(fs) == [f \in DOMAIN pidfile |-> IF f \in fs THEN NoProcess ELSE pidfile[f]]
Answering(l) == \E p \in alive \cap Children : p[2] = l
Terminate(lives, s, l) == lives \ {Child(s, l)}
At(s, pc) == sup[s].pc = pc /\ <<s>> \in alive
Goes(s, pc) == sup' = [sup EXCEPT ![s].pc = pc]
OneMoreOf(s, l) == [sup[s].restarts EXCEPT ![l] = @ + 1]
StreakOf(s, l, n) == [sup[s].streak EXCEPT ![l] = n]
Ends(s, pc) == sup' = [sup EXCEPT ![s] = Memory(pc)]

-----------------------------------------------------------------------------
(* managed.start is transactional: a child is either running and recorded, *)
(* or it never started, or it was terminated because its pid could not be  *)
(* recorded, and then its pid file is removed.                             *)
Launches(s, l) ==
    /\ alive' = alive \cup {Child(s, l)}
    /\ Records(l, Child(s, l))

LaunchFails(l) == pidfile' \in {pidfile, Removed({l})}

(* An error before the loop ends the process: nothing else is cleaned up. *)
BootsBackend(s) ==
    /\ At(s, "boot")
    /\ \/ Launches(s, "backend") /\ Goes(s, "boot2") /\ crashed' = FALSE
       \/ /\ LaunchFails("backend")
          /\ crashed' \in {FALSE, crashed}    \* a log that cannot be opened comes first
          /\ alive' = alive \ {<<s>>}
          /\ Ends(s, "gone")
    /\ UNCHANGED sentinel

BootsFrontend(s) ==
    /\ At(s, "boot2")
    /\ \/ Launches(s, "frontend") /\ Goes(s, "loop")
       \/ /\ LaunchFails("frontend")
          /\ alive' = Terminate(alive, s, "backend") \ {<<s>>}
          /\ Ends(s, "gone")
    /\ UNCHANGED <<sentinel, crashed>>

-----------------------------------------------------------------------------
GivesUpAlone(s, l, lives) == crashed' = TRUE /\ alive' = lives /\ Ends(s, "cleanup")

(* giveUp terminates the survivor, and the process is about to end.        *)
GivesUp(s, l, lives) ==
    /\ crashed' = TRUE
    /\ alive' = Terminate(lives, s, Other(l))
    /\ Ends(s, "cleanup")

ExhaustedLate(s, l) == sup[s].restarts[l] > MaxRestarts
Exhausted(s, l) == sup[s].restarts[l] >= MaxRestarts

(* restart sleeps inside the loop; `lives` are the processes left once a   *)
(* child that failed its health checks has been terminated.                *)
Restarts(s, l, lives, then, streak) ==
    IF Exhausted(s, l)
    THEN GivesUp(s, l, lives) /\ UNCHANGED <<pidfile, sentinel>>
    ELSE /\ alive' = lives
         /\ sup' = [sup EXCEPT ![s] = [@ EXCEPT !.pc = "backoff", !.which = l, !.then = then,
                                              !.restarts = OneMoreOf(s, l),
                                              !.streak = StreakOf(s, l, streak)]]
         /\ UNCHANGED <<pidfile, sentinel, crashed>>

SeesExit(s, l) ==
    /\ At(s, "loop")
    /\ Child(s, l) \notin alive
    /\ Restarts(s, l, alive, "loop", sup[s].streak[l])

Wakes(s) ==
    /\ At(s, "backoff")
    /\ LET l == sup[s].which IN
       \/ /\ Launches(s, l)
          /\ sup' = [sup EXCEPT ![s] = [@ EXCEPT !.pc = sup[s].then, !.which = "backend",
                                               !.then = "loop"]]
          /\ UNCHANGED crashed
       \/ LaunchFails(l) /\ GivesUp(s, l, alive)
    /\ UNCHANGED sentinel

(* One health check: an answer needs a process behind the port, whoever's  *)
(* it is; silence needs nothing. The child is terminated at the last of    *)
(* FailuresToRestart failures in a row.                                    *)
Checks(s, l, then) ==
    \/ /\ Answering(l)
       /\ sup' = [sup EXCEPT ![s] = [@ EXCEPT !.pc = then, !.streak = StreakOf(s, l, 0)]]
       /\ UNCHANGED <<pidfile, sentinel, crashed, alive>>
    \/ /\ sup[s].streak[l] + 1 < FailuresToRestart
       /\ sup' = [sup EXCEPT ![s] = [@ EXCEPT !.pc = then,
                                            !.streak = StreakOf(s, l, sup[s].streak[l] + 1)]]
       /\ UNCHANGED <<pidfile, sentinel, crashed, alive>>
    \/ /\ sup[s].streak[l] + 1 >= FailuresToRestart
       /\ Restarts(s, l, Terminate(alive, s, l), then, 0)

(* A tick of the loop: the sentinel comes first, health when it is due.    *)
ChecksBackend(s) == At(s, "loop") /\ ~sentinel /\ Checks(s, "backend", "frontcheck")
ChecksFrontend(s) == At(s, "frontcheck") /\ Checks(s, "frontend", "loop")

SeesSentinelWhenWell(s) ==
    /\ At(s, "loop")
    /\ sentinel /\ \A l \in Labels : sup[s].streak[l] = 0 /\ Child(s, l) \in alive
    /\ alive' = Terminate(Terminate(alive, s, "backend"), s, "frontend")
    /\ Ends(s, "cleanup")
    /\ UNCHANGED <<pidfile, sentinel, crashed>>

SeesSentinel(s) ==
    /\ At(s, "loop")
    /\ sentinel
    /\ alive' = Terminate(Terminate(alive, s, "backend"), s, "frontend")
    /\ Ends(s, "cleanup")
    /\ UNCHANGED <<pidfile, sentinel, crashed>>

CleansUpAtOnce(s) ==
    /\ At(s, "cleanup")
    /\ pidfile' = Removed(DOMAIN pidfile)
    /\ sentinel' = FALSE
    /\ Goes(s, "leave")
    /\ UNCHANGED <<crashed, alive>>

(* cleanupAll: daemon.pid, which the commands wait on, goes last.          *)
CleansUp(s) ==
    /\ At(s, "cleanup")
    /\ pidfile' = Removed(Labels)
    /\ sentinel' = FALSE
    /\ Goes(s, "leave")
    /\ UNCHANGED <<crashed, alive>>

Leaves(s) ==
    /\ At(s, "leave")
    /\ pidfile' = Removed({"daemon"})
    /\ alive' = alive \ {<<s>>}
    /\ Ends(s, "gone")
    /\ UNCHANGED <<sentinel, crashed>>

-----------------------------------------------------------------------------
(* The environment: a child may exit, a supervisor may be killed (out of   *)
(* memory, a reboot of its session); its children, leaders of sessions of  *)
(* their own, go on.                                                       *)
ChildDies ==
    /\ \E p \in alive \cap Children : alive' = alive \ {p}
    /\ UNCHANGED <<pidfile, sentinel, crashed, sup>>

KillsSupervisor(s) ==
    /\ alive' = alive \ {<<s>>}
    /\ Ends(s, "killed")

SupervisorDies(s) ==
    /\ <<s>> \in alive
    /\ KillsSupervisor(s)
    /\ UNCHANGED <<pidfile, sentinel, crashed>>

SupStep(s) ==
    \/ BootsBackend(s) \/ BootsFrontend(s)
    \/ \E l \in Labels : SeesExit(s, l)
    \/ Wakes(s)
    \/ ChecksBackend(s) \/ ChecksFrontend(s)
    \/ SeesSentinel(s) \/ CleansUp(s) \/ Leaves(s)

SupEnvironment == ChildDies \/ \E s \in Sups : SupervisorDies(s)
=============================================================================

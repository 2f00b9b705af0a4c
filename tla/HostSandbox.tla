----------------------------- MODULE HostSandbox -----------------------------
(***************************************************************************)
(* The start of a session's host runtime under the operating system's      *)
(* policy: the parent plans, spawns and adopts; the child restricts        *)
(* itself, listens, and seals its network before it accepts the first      *)
(* cell.  The pool starts one runtime at a time and stops them outside its *)
(* lock; successive runtimes of a session share its workspace.  A          *)
(* self-test sends a probe through the same machinery.                     *)
(***************************************************************************)
CONSTANTS
    Runtimes,       \* the HostSessions of one session, in no order
    Probe,          \* the child of a self-test
    NoRuntime,
    Platforms,      \* the platforms the backend may run on
    Ceilings        \* the resource ceilings that may be configured

ASSUME HostSandboxAssumption ==
    /\ Probe \notin Runtimes /\ NoRuntime \notin Runtimes \cup {Probe}
    /\ Platforms \subseteq {"linux", "darwin", "win32", "other"}
    /\ Ceilings \subseteq SUBSET {"memory", "processes"}

VARIABLES
    machine,    \* the platform, and whether its optional mechanism is there
    wants,      \* the settings a policy is made of
    rt,         \* each runtime: its place in start or stop, its plan, job and child
    pooled,     \* the session's entry in HostRuntimePool._sessions
    starting,   \* the holder of HostRuntimePool._lock
    files,      \* the scripts in the workspace
    labelled,   \* the directories labelled Low
    verdict     \* of the self-test

hostVars == <<machine, wants, rt, pooled, starting, files, labelled, verdict>>

Features == {"filesystem", "network", "memory", "processes"}
Everyone == Runtimes \cup {Probe}
Enabled == wants.mode # "off"
Required == wants.mode = "require"
Denied == IF wants.network = "deny" THEN {"network"} ELSE {}
On(platform) == machine.platform = platform
Dir(r) == IF r = Probe THEN "temp" ELSE "workspace"

(* capability.detect, once per process: what the platform says it can do,    *)
(* or nothing at all when asking raised.                                     *)
Supported ==
    IF ~machine.detected THEN {}
    ELSE CASE On("linux") -> {"network", "memory", "processes"}
                             \cup (IF machine.modern THEN {"filesystem"} ELSE {})
           [] On("darwin") -> {"memory", "processes"}
                              \cup (IF machine.modern THEN {"filesystem", "network"} ELSE {})
           [] On("win32") -> {"filesystem", "memory", "processes"}
           [] OTHER -> {}

(* What the policy asks for that this platform says it has.                  *)
Asked ==
    IF Enabled THEN ({"filesystem"} \cup Denied \cup wants.ceilings) \cap Supported ELSE {}

Unstarted == [at |-> "new", plan |-> "none", job |-> "none", child |-> "none",
              inForce |-> {}, refused |-> {}, report |-> {}]

HostInit ==
    /\ machine \in [platform : Platforms, modern : BOOLEAN, detected : BOOLEAN]
    /\ wants \in [mode : {"off", "best-effort", "require"}, network : {"deny", "allow"},
                  ceilings : Ceilings]
    /\ rt = [r \in Everyone |-> Unstarted]
    /\ pooled = NoRuntime /\ starting = NoRuntime
    /\ files = {} /\ labelled = {}
    /\ verdict = "none"

Starts ==
    [at : {"new", "begun", "planned", "spawned", "waiting", "ready", "failed", "releasing",
           "stopped", "forgotten"},
     plan : {"none", "native", "wrapped", "job", "job+low"},
     job : {"none", "open", "closed"},
     child : {"none", "booting", "restricted", "listening", "serving", "dead"},
     inForce : SUBSET Features, refused : SUBSET Features, report : SUBSET Features]

HostTypeOK ==
    /\ machine \in [platform : Platforms, modern : BOOLEAN, detected : BOOLEAN]
    /\ wants \in [mode : {"off", "best-effort", "require"}, network : {"deny", "allow"},
                  ceilings : Ceilings]
    /\ rt \in [Everyone -> Starts]
    /\ pooled \in Runtimes \cup {NoRuntime} /\ starting \in Runtimes \cup {NoRuntime}
    /\ files \subseteq {"daemon", "bootstrap"}
    /\ labelled \subseteq {"workspace", "temp"}
    /\ verdict \in {"none", "green", "red", "unrun"}

Sets(r, new) == rt' = [rt EXCEPT ![r] = new]
Unpooled == UNCHANGED <<pooled, starting>>
Constant == UNCHANGED <<machine, wants>>
-----------------------------------------------------------------------------
(* HostRuntimePool.get: an entry whose child has exited is popped and never  *)
(* stopped.                                                                  *)
GetsTo(r, place) ==
    /\ rt[r].at = "new" /\ starting = NoRuntime
    /\ \/ pooled = NoRuntime /\ Sets(r, [rt[r] EXCEPT !.at = place])
       \/ /\ pooled # NoRuntime /\ rt[pooled].child = "dead"
          /\ rt' = [rt EXCEPT ![r].at = place, ![pooled].at = "forgotten"]
    /\ pooled' = NoRuntime
    /\ UNCHANGED <<labelled, verdict>> /\ Constant

(* Under the lock, start() writes the daemon's script first.                 *)
Begins(r) ==
    /\ GetsTo(r, "begun")
    /\ starting' = r
    /\ files' = files \cup {"daemon"}

(* It cannot, and get stops what has not begun.                              *)
BeginFails(r) ==
    /\ GetsTo(r, "stopped")
    /\ files' = files \ {"daemon"}
    /\ UNCHANGED starting

(* selftest.run writes its probe to a directory of its own, or cannot.       *)
ProbeBegins ==
    /\ rt[Probe].at = "new"
    /\ \E place \in {"begun", "failed"} : Sets(Probe, [rt[Probe] EXCEPT !.at = place])
    /\ UNCHANGED <<files, labelled, verdict>> /\ Unpooled /\ Constant

-----------------------------------------------------------------------------
(* plan_spawn. There may be nothing to plan with, or the macOS profile       *)
(* cannot be written: a plain spawn, unless the policy is required.          *)
MayNotPrepare == Supported = {} \/ On("darwin")

Planned(r, plan, refused) ==
    Sets(r, [rt[r] EXCEPT !.at = "planned", !.plan = plan, !.refused = refused])

PlansNone(r) ==
    /\ ~Enabled \/ (MayNotPrepare /\ ~Required)
    /\ Planned(r, "none", IF Enabled /\ On("darwin") THEN {"filesystem"} \cup Denied ELSE {})
    /\ UNCHANGED labelled

PlansNative(r) ==
    /\ Enabled /\ Supported # {} /\ ~On("darwin") /\ ~On("win32")
    /\ Planned(r, "native", {})
    /\ UNCHANGED labelled

PlansWrapped(r) ==
    /\ Enabled /\ Supported # {} /\ On("darwin")
    /\ Planned(r, "wrapped", {})
    /\ UNCHANGED labelled

(* _windows_plan: icacls may refuse, and the job may not be had, which       *)
(* leaves the ceilings out.                                                  *)
PlansJob(r) ==
    /\ Enabled /\ Supported # {} /\ On("win32")
    /\ \E low \in BOOLEAN, job \in {"open", "none"} :
         /\ Sets(r, [rt[r] EXCEPT !.at = "planned", !.job = job,
                       !.plan = IF low THEN "job+low" ELSE "job",
                       !.refused = IF low THEN {} ELSE {"filesystem"}])
         /\ labelled' = IF low THEN labelled \cup {Dir(r)} ELSE labelled

Refuses(r) ==
    /\ Required /\ MayNotPrepare
    /\ Sets(r, [rt[r] EXCEPT !.at = "failed"])
    /\ UNCHANGED labelled

Plans(r) ==
    /\ rt[r].at = "begun"
    /\ PlansNone(r) \/ PlansNative(r) \/ PlansWrapped(r) \/ PlansJob(r) \/ Refuses(r)
    /\ UNCHANGED <<files, verdict>> /\ Unpooled /\ Constant

-----------------------------------------------------------------------------
\* Mutant of ToldToLower: the bootstrap is rendered before the plan is made.
AlwaysToldToLower(r) == TRUE

(* The policy the bootstrap carries tells a Windows child to lower itself    *)
(* only when the plan has labelled the workspace.                            *)
ToldToLower(r) == rt[r].plan = "job+low"

(* What the macOS command line puts into force before the process exists.    *)
Wraps(r) == IF rt[r].plan = "wrapped" /\ machine.modern THEN {"filesystem"} \cup Denied ELSE {}

(* The bootstrap is written and the child begins; wrapped by a sandbox-exec  *)
(* that does not work it ends at once.                                       *)
Spawns(r) ==
    /\ rt[r].at = "planned"
    /\ Sets(r, [rt[r] EXCEPT !.at = "spawned", !.inForce = Wraps(r),
                  !.child = IF rt[r].plan = "wrapped" /\ ~machine.modern THEN "dead" ELSE "booting"])
    /\ files' = IF Enabled /\ r # Probe THEN files \cup {"bootstrap"} ELSE files
    /\ UNCHANGED <<labelled, verdict>> /\ Unpooled /\ Constant

(* Writing the bootstrap, or Popen, raises.                                  *)
SpawnFails(r) ==
    /\ rt[r].at = "planned"
    /\ Sets(r, [rt[r] EXCEPT !.at = "failed"])
    /\ UNCHANGED <<files, labelled, verdict>> /\ Unpooled /\ Constant

(* plan.adopt: the job's limits hold from here on, unless it has none or     *)
(* Windows refuses the process.                                              *)
Adopts(r) ==
    /\ rt[r].at = "spawned" /\ r # Probe
    /\ \E taken \in BOOLEAN :
         /\ taken => rt[r].job = "open"
         /\ Sets(r, [rt[r] EXCEPT !.at = "waiting",
                       !.inForce = @ \cup (IF taken THEN wants.ceilings ELSE {}),
                       !.refused = @ \cup (IF On("win32") /\ ~taken THEN wants.ceilings ELSE {})])
    /\ UNCHANGED <<files, labelled, verdict>> /\ Unpooled /\ Constant

(* The daemon answers a connection: the runtime is handed out.               *)
Ready(r) ==
    /\ rt[r].at = "waiting" /\ rt[r].child \in {"listening", "serving"}
    /\ Sets(r, [rt[r] EXCEPT !.at = "ready"])
    /\ pooled' = r /\ starting' = NoRuntime
    /\ UNCHANGED <<files, labelled, verdict>> /\ Constant

(* It has exited, or does not listen in time.                                *)
NotReady(r) ==
    /\ rt[r].at = "waiting"
    /\ Sets(r, [rt[r] EXCEPT !.at = "failed", !.child = "dead"])
    /\ UNCHANGED <<files, labelled, verdict>> /\ Unpooled /\ Constant

-----------------------------------------------------------------------------
(* The bootstrap: apply_policy, each part of which may be refused.           *)
Tries(r) ==
    CASE On("win32") -> IF ToldToLower(r) THEN {"filesystem"} ELSE {}
      [] On("linux") /\ machine.modern -> {"filesystem"} \cup wants.ceilings
      [] OTHER -> wants.ceilings

(* What it claims without having tried: macOS trusts the parent.             *)
Presumes == IF On("darwin") THEN {"filesystem"} ELSE {}

\* The entry script must still be there when the interpreter opens it.
HasEntry(r) == r = Probe \/ (IF Enabled THEN "bootstrap" ELSE "daemon") \in files

Restricts(r) ==
    /\ rt[r].child = "booting" /\ HasEntry(r)
    /\ IF Enabled
       THEN \E stuck \in SUBSET Tries(r) :
              Sets(r, [rt[r] EXCEPT !.child = "restricted", !.inForce = @ \cup stuck,
                         !.refused = @ \cup (Tries(r) \ stuck), !.report = stuck \cup Presumes])
       ELSE Sets(r, [rt[r] EXCEPT !.child = "restricted"])
    /\ UNCHANGED <<files, labelled, verdict>> /\ Unpooled /\ Constant

(* A child that has lowered itself can write only what is labelled.          *)
Lowered(r) == On("win32") /\ "filesystem" \in rt[r].inForce
Writes(r) == Lowered(r) => Dir(r) \in labelled

(* run_server up to listen: the pid file, the daemon's own memory limit.     *)
Listens(r) ==
    /\ rt[r].child = "restricted" /\ r # Probe /\ "daemon" \in files /\ Writes(r)
    /\ \E capped \in SUBSET (IF On("win32") THEN {} ELSE {"memory"} \cap wants.ceilings) :
         Sets(r, [rt[r] EXCEPT !.child = "listening", !.inForce = @ \cup capped])
    /\ UNCHANGED <<files, labelled, verdict>> /\ Unpooled /\ Constant

(* seal_network: seccomp may refuse; the other platforms only say what is so. *)
Sealings(r) ==
    IF ~Enabled \/ Denied = {} THEN {rt[r]}
    ELSE CASE On("linux") ->
                {[rt[r] EXCEPT !.inForce = @ \cup {"network"}, !.report = @ \cup {"network"}],
                 [rt[r] EXCEPT !.refused = @ \cup {"network"}]}
           [] On("darwin") -> {[rt[r] EXCEPT !.report = @ \cup {"network"}]}
           [] OTHER -> {rt[r]}

(* Then the accept loop.                                                     *)
Seals(r) ==
    /\ rt[r].child = "listening"
    /\ \E sealed \in Sealings(r) : Sets(r, [sealed EXCEPT !.child = "serving"])
    /\ UNCHANGED <<files, labelled, verdict>> /\ Unpooled /\ Constant

(* It exits: by itself, or because a script is gone or a file unwritable.    *)
ChildExits(r) ==
    /\ rt[r].child \in {"booting", "restricted", "listening", "serving"}
    /\ Sets(r, [rt[r] EXCEPT !.child = "dead"])
    /\ UNCHANGED <<files, labelled, verdict>> /\ Unpooled /\ Constant

(* A cell sent to a runtime that was handed out waits in the backlog until   *)
(* the child accepts, and then runs.                                         *)
RunsCells(r) == rt[r].at \in {"ready", "releasing"} /\ rt[r].child = "serving"

-----------------------------------------------------------------------------
(* release: out of the table under the lock, stopped after it.               *)
Releases ==
    /\ pooled # NoRuntime /\ starting = NoRuntime
    /\ Sets(pooled, [rt[pooled] EXCEPT !.at = "releasing"])
    /\ pooled' = NoRuntime
    /\ UNCHANGED <<starting, files, labelled, verdict>> /\ Constant

Closed(job) == IF job = "open" THEN "closed" ELSE job

(* stop: the child is ended, the plan torn down, the scripts removed from    *)
(* the workspace, whoever has written them. get calls it, under the lock,    *)
(* for a start that failed.                                                  *)
Stops(r) ==
    /\ r # Probe /\ rt[r].at \in {"failed", "releasing"}
    /\ Sets(r, [rt[r] EXCEPT !.at = "stopped", !.child = "dead", !.job = Closed(@)])
    /\ files' = files \ (IF Enabled THEN {"daemon", "bootstrap"} ELSE {"daemon"})
    /\ starting' = IF starting = r THEN NoRuntime ELSE starting
    /\ UNCHANGED <<pooled, labelled, verdict>> /\ Constant

-----------------------------------------------------------------------------
(* The probe seals, tries to write to its workspace, to write outside it and *)
(* to reach the network; what is not in force may fail for other reasons.    *)
Verdict(child, wrote) ==
    \E outside \in {"blocked", "allowed"}, outbound \in {"blocked", "allowed", "inconclusive"} :
        /\ "filesystem" \in child.inForce => outside = "blocked"
        /\ "network" \in child.inForce => outbound = "blocked"
        /\ verdict' = IF /\ wrote
                         /\ "filesystem" \in Supported => outside = "blocked"
                         /\ "network" \in Supported => outbound # "allowed"
                      THEN "green" ELSE "red"

ProbeReports ==
    /\ rt[Probe].child = "restricted"
    /\ \E sealed \in Sealings(Probe) :
         /\ Sets(Probe, [sealed EXCEPT !.at = "stopped", !.child = "dead", !.job = Closed(@)])
         /\ Verdict(sealed, Writes(Probe))
    /\ UNCHANGED <<files, labelled>> /\ Unpooled /\ Constant

(* No report: it could not be prepared, spawned, or finish. A job that was   *)
(* made before the bootstrap could not be written stays open.                *)
ProbeFails ==
    /\ rt[Probe].at \in {"failed", "spawned"}
    /\ \/ Sets(Probe, [rt[Probe] EXCEPT !.at = "stopped", !.child = "dead", !.job = Closed(@)])
       \/ rt[Probe].at = "failed" /\ Sets(Probe, [rt[Probe] EXCEPT !.at = "stopped"])
    /\ verdict' = "unrun"
    /\ UNCHANGED <<files, labelled>> /\ Unpooled /\ Constant

-----------------------------------------------------------------------------
RuntimeNext ==
    \/ \E r \in Runtimes :
         \/ Begins(r) \/ BeginFails(r) \/ Plans(r) \/ Spawns(r) \/ SpawnFails(r) \/ Adopts(r)
         \/ Ready(r) \/ NotReady(r) \/ Stops(r)
         \/ Restricts(r) \/ Listens(r) \/ Seals(r) \/ ChildExits(r)
    \/ Releases

SelfTestNext ==
    \/ ProbeBegins \/ Plans(Probe) \/ Spawns(Probe) \/ SpawnFails(Probe)
    \/ Restricts(Probe) \/ ChildExits(Probe) \/ ProbeReports \/ ProbeFails

HostNext == RuntimeNext \/ SelfTestNext
HostSpec == HostInit /\ [][HostNext]_hostVars

-----------------------------------------------------------------------------
(* A cell runs only in a child that is held to everything the policy asks    *)
(* for and the platform has, but for what the system refused to apply; where *)
(* containment is required it runs in none that was spawned plainly.         *)
CellsAreContained ==
    \A r \in Runtimes : RunsCells(r) =>
        /\ Asked \subseteq rt[r].inForce \cup rt[r].refused
        /\ Required => rt[r].plan # "none"

(* What a child reports as enforced is in force, except on a Mac whose       *)
(* profile could not be written (child.py, "returns what stuck").            *)
ReportsAreEarned ==
    \A r \in Everyone :
        rt[r].report \subseteq rt[r].inForce \/ (On("darwin") /\ rt[r].plan = "none")

(* A child lowers itself only in a workspace it can still write to           *)
(* (policy.windows_lower_integrity).                                         *)
LoweredCanWrite == \A r \in Everyone : Lowered(r) => Dir(r) \in labelled

(* A job object is closed with its runtime, unless the child exited by       *)
(* itself and the pool has forgotten it.                                     *)
JobsAreClosed == \A r \in Runtimes : rt[r].job = "open" => rt[r].at \notin {"new", "stopped"}

(* A self-test that ran is red only where something the platform supports is *)
(* not in force (selftest._judge).                                           *)
RedIsAGap ==
    verdict = "red" => (Supported \cap {"filesystem", "network"}) \ rt[Probe].inForce # {}

(* What a start promises: containment as far as the system allows, a report  *)
(* that is true, a child that can work, and nothing left behind.             *)
StartsAreContained ==
    CellsAreContained /\ ReportsAreEarned /\ LoweredCanWrite /\ JobsAreClosed /\ RedIsAGap

-----------------------------------------------------------------------------
(* These fail. "every restriction this platform supports was enforced".      *)
GreenIsEnforced == verdict = "green" => Supported \cap Features \subseteq rt[Probe].inForce

(* "enforcement rather than intent" (bootstrap.py).                          *)
ReportsAreEvidence == \A r \in Everyone : rt[r].report \subseteq rt[r].inForce

(* "refuse to start a runtime that cannot be contained" (config.py).         *)
RequiredIsInForce ==
    Required => \A r \in Runtimes : RunsCells(r) => Asked \subseteq rt[r].inForce

(* No job is open once nobody can stop its runtime.                          *)
NoJobIsForgotten == \A r \in Everyone : rt[r].job = "open" => rt[r].at \notin {"stopped", "forgotten"}

(* A starting child finds the scripts its parent has written.                *)
ScriptsAreThere == \A r \in Runtimes : rt[r].child = "booting" /\ starting = r => HasEntry(r)
=============================================================================

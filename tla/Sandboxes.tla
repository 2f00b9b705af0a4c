------------------------------ MODULE Sandboxes ------------------------------
(***************************************************************************)
(* The container backend: SandboxPool, the containers it starts, and the   *)
(* capability cache of runtime.py that remembers what a container          *)
(* reported.  The pool's callers are threads: turns that run a cell or     *)
(* build a prompt, and whatever disposes of a session.  Containers outlive *)
(* the backend's process; the next one prunes them before it serves.       *)
(***************************************************************************)
EXTENDS Naturals, FiniteSets

CONSTANTS
    Sessions,
    Threads,
    MaxBoxes,       \* bound: containers ever created
    MaxRestarts     \* bound: times the backend is started again

ASSUME BoxAssumption ==
    /\ "none" \notin Threads
    /\ MaxBoxes \in Nat /\ MaxRestarts \in Nat

VARIABLES
    serving,    \* whether the process has come past lifespan's prune
    docker,     \* SandboxPool.client: checked once by each process
    boxes,      \* the containers, in the order they were created
    pool,       \* SandboxPool._sessions: the container of each session
    poolLock,   \* SandboxPool._lock
    thread,     \* where each caller is
    reports,    \* _capability_cache: whose report, 0 for the declared tier
    restarts

boxVars == <<serving, docker, boxes, pool, poolLock, thread, reports, restarts>>

Boxes == DOMAIN boxes
Idle == [pc |-> "idle", of |-> "none", box |-> 0]
Uncached == MaxBoxes + 1

BoxInit ==
    /\ serving = FALSE /\ docker = "unchecked"
    /\ boxes = <<>>
    /\ pool = [s \in Sessions |-> 0]
    /\ poolLock = "none"
    /\ thread = [t \in Threads |-> Idle]
    /\ reports = [s \in Sessions |-> Uncached]
    /\ restarts = 0

Containers == [of : Sessions, state : {"created", "up", "mute", "gone"}, stray : BOOLEAN,
               era : 0 .. MaxRestarts]

BoxTypeOK ==
    /\ serving \in BOOLEAN /\ docker \in {"unchecked", "here", "absent"}
    /\ \E n \in 0 .. MaxBoxes : boxes \in [1 .. n -> Containers]
    /\ pool \in [Sessions -> {0} \cup Boxes]
    /\ poolLock \in {"none"} \cup Threads
    /\ thread \in [Threads -> [pc : {"idle", "wants", "starts", "stops", "asks"},
                               of : Sessions \cup {"none"}, box : {0} \cup Boxes]]
    /\ reports \in [Sessions -> 0 .. Uncached] /\ restarts \in 0 .. MaxRestarts

Exists(b) == boxes[b].state # "gone"
Goes(t, where) == thread' = [thread EXCEPT ![t] = where]

-----------------------------------------------------------------------------
(* SandboxPool.get, which execute calls to create a runtime.                 *)
LooksForBox(t, s) ==
    /\ serving /\ docker = "here"
    /\ thread[t].pc = "idle" /\ pool[s] = 0
    /\ Goes(t, [pc |-> "wants", of |-> s, box |-> 0])
    /\ UNCHANGED <<serving, docker, boxes, pool, poolLock, reports, restarts>>

Finds(t) ==
    /\ thread[t].pc = "wants" /\ poolLock = "none" /\ pool[thread[t].of] # 0
    /\ Goes(t, Idle)
    /\ UNCHANGED <<serving, docker, boxes, pool, poolLock, reports, restarts>>

Created(t, stray) ==
    /\ Cardinality(Boxes) < MaxBoxes
    /\ boxes' = [b \in 1 .. Cardinality(Boxes) + 1 |->
                   IF b \in Boxes THEN boxes[b]
                   ELSE [of |-> thread[t].of, state |-> "created", stray |-> stray,
                         era |-> restarts]]

\* Mutant of Runs: the pool is not looked at under the lock.
RunsBlind(t) ==
    /\ thread[t].pc = "wants" /\ poolLock = "none"
    /\ Created(t, FALSE)
    /\ poolLock' = t
    /\ Goes(t, [thread[t] EXCEPT !.pc = "starts", !.box = Cardinality(Boxes) + 1])
    /\ UNCHANGED <<serving, docker, pool, reports, restarts>>

(* containers.run, after the image has been built if there was none: the     *)
(* lock is held until the session has been registered.                       *)
Runs(t) ==
    /\ thread[t].pc = "wants" /\ poolLock = "none" /\ pool[thread[t].of] = 0
    /\ Created(t, FALSE)
    /\ poolLock' = t
    /\ Goes(t, [thread[t] EXCEPT !.pc = "starts", !.box = Cardinality(Boxes) + 1])
    /\ UNCHANGED <<serving, docker, pool, reports, restarts>>

(* It raises.  A container that was created and could not be started stays,  *)
(* and stop() has never heard of it.                                         *)
RunFails(t) ==
    /\ thread[t].pc = "wants" /\ poolLock = "none" /\ pool[thread[t].of] = 0
    /\ Created(t, TRUE) \/ UNCHANGED boxes
    /\ Goes(t, Idle)
    /\ UNCHANGED <<serving, docker, pool, poolLock, reports, restarts>>

(* The daemon is put in and started.  One that does not answer in time is    *)
(* only warned about.                                                        *)
Registers(t) ==
    /\ thread[t].pc = "starts"
    /\ \E state \in {"up", "mute"} : boxes' = [boxes EXCEPT ![thread[t].box].state = state]
    /\ pool' = [pool EXCEPT ![thread[t].of] = thread[t].box]
    /\ poolLock' = "none"
    /\ Goes(t, Idle)
    /\ UNCHANGED <<serving, docker, reports, restarts>>

(* SandboxSession.stop: a removal that fails is logged, and nothing is left  *)
(* to remember the container by.                                             *)
Removed(b) ==
    \/ boxes' = [boxes EXCEPT ![b].state = "gone"]
    \/ boxes' = [boxes EXCEPT ![b].stray = TRUE]

(* Putting the daemon in or starting it raises: the container is removed,    *)
(* the caller gets none and runs its cell in the API's own process.          *)
StartFails(t) ==
    /\ thread[t].pc = "starts"
    /\ Removed(thread[t].box)
    /\ poolLock' = "none"
    /\ Goes(t, Idle)
    /\ UNCHANGED <<serving, docker, pool, reports, restarts>>

(* The daemon dies, or comes up late.                                        *)
Changes(b) ==
    /\ boxes[b].state \in {"up", "mute"}
    /\ boxes' = [boxes EXCEPT ![b].state = IF @ = "up" THEN "mute" ELSE "up"]
    /\ UNCHANGED <<serving, docker, pool, poolLock, thread, reports, restarts>>

-----------------------------------------------------------------------------
(* release: out of the table under the lock, stopped after it; then whoever  *)
(* disposes of the session forgets its capabilities.                         *)
Releases(t, s) ==
    /\ serving /\ thread[t].pc = "idle" /\ poolLock = "none" /\ pool[s] # 0
    /\ pool' = [pool EXCEPT ![s] = 0]
    /\ Goes(t, [pc |-> "stops", of |-> s, box |-> pool[s]])
    /\ UNCHANGED <<serving, docker, boxes, poolLock, reports, restarts>>

Stops(t) ==
    /\ thread[t].pc = "stops"
    /\ Removed(thread[t].box)
    /\ reports' = [reports EXCEPT ![thread[t].of] = Uncached]
    /\ Goes(t, Idle)
    /\ UNCHANGED <<serving, docker, pool, poolLock, restarts>>

(* capabilities: of a runtime there is already, asked unless remembered.     *)
AsksCapabilities(t, s) ==
    /\ serving /\ docker = "here"
    /\ thread[t].pc = "idle" /\ reports[s] = Uncached /\ pool[s] # 0
    /\ Goes(t, [pc |-> "asks", of |-> s, box |-> pool[s]])
    /\ UNCHANGED <<serving, docker, boxes, pool, poolLock, reports, restarts>>

(* No answer is an empty report, and the tier's list is remembered for it.   *)
KeepsCapabilities(t) ==
    /\ thread[t].pc = "asks"
    /\ reports' = [reports EXCEPT ![thread[t].of] =
                     IF boxes[thread[t].box].state = "up" THEN thread[t].box ELSE 0]
    /\ Goes(t, Idle)
    /\ UNCHANGED <<serving, docker, boxes, pool, poolLock, restarts>>

-----------------------------------------------------------------------------
NewProcess ==
    /\ restarts < MaxRestarts
    /\ restarts' = restarts + 1
    /\ serving' = FALSE /\ docker' = "unchecked"
    /\ pool' = [s \in Sessions |-> 0]
    /\ poolLock' = "none"
    /\ thread' = [t \in Threads |-> Idle]
    /\ reports' = [s \in Sessions |-> Uncached]

Crashes == NewProcess /\ UNCHANGED boxes

(* shutdown: every session of the pool is stopped.                           *)
ShutsDown ==
    /\ serving /\ poolLock = "none"
    /\ \E left \in SUBSET {pool[s] : s \in Sessions} :
         boxes' = [b \in Boxes |->
                     IF \A s \in Sessions : pool[s] # b THEN boxes[b]
                     ELSE IF b \in left THEN [boxes[b] EXCEPT !.stray = TRUE]
                     ELSE [boxes[b] EXCEPT !.state = "gone"]]
    /\ NewProcess

(* Docker answers: what carries the label and is no session's is removed,    *)
(* started or not, as far as it can be.                                      *)
Prunes ==
    /\ ~serving
    /\ docker' = "here"
    /\ \E left \in SUBSET {b \in Boxes : Exists(b)} :
         boxes' = [b \in Boxes |->
                     IF b \in left THEN [boxes[b] EXCEPT !.stray = TRUE]
                     ELSE [boxes[b] EXCEPT !.state = "gone"]]
    /\ serving' = TRUE
    /\ UNCHANGED <<pool, poolLock, thread, reports, restarts>>

(* It does not: this process never asks again, and serves from the host.     *)
ServesWithout ==
    /\ ~serving
    /\ docker' = "absent" /\ serving' = TRUE
    /\ UNCHANGED <<boxes, pool, poolLock, thread, reports, restarts>>

BoxNext ==
    \/ \E t \in Threads :
         \/ \E s \in Sessions : LooksForBox(t, s) \/ Releases(t, s) \/ AsksCapabilities(t, s)
         \/ Finds(t) \/ Runs(t) \/ RunFails(t) \/ Registers(t) \/ StartFails(t)
         \/ Stops(t) \/ KeepsCapabilities(t)
    \/ \E b \in Boxes : Changes(b)
    \/ Crashes \/ ShutsDown \/ Prunes \/ ServesWithout

BoxSpec == BoxInit /\ [][BoxNext]_boxVars

-----------------------------------------------------------------------------
Held(b) == \/ \E s \in Sessions : pool[s] = b
           \/ \E t \in Threads : thread[t].pc \in {"starts", "stops"} /\ thread[t].box = b

(* A container exists only while a session has it, or a thread is starting   *)
(* or removing it, unless docker would not create or remove it cleanly; and  *)
(* one of an earlier process only until this one has pruned.                 *)
NoContainerIsLost ==
    docker # "absent" =>
        \A b \in Boxes : Exists(b) /\ ~boxes[b].stray =>
            Held(b) \/ (~serving /\ boxes[b].era < restarts)

(* A session has one container: while it has one, or one is being started    *)
(* for it, no other mounts its workspace but one that is being removed.      *)
OneContainerEach ==
    \A s \in Sessions :
        Cardinality({b \in Boxes : /\ boxes[b].of = s /\ Exists(b) /\ ~boxes[b].stray
                                   /\ boxes[b].era = restarts
                                   /\ \A t \in Threads : thread[t].pc = "stops" => thread[t].box # b}) <= 1

(* "once a runtime exists, its own report wins": what is remembered of a     *)
(* session's runtime is what that runtime has reported (runtime.py:309).     *)
TheReportWins == \A s \in Sessions : reports[s] # Uncached => reports[s] = pool[s]
=============================================================================

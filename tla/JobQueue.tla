------------------------------ MODULE JobQueue ------------------------------
(***************************************************************************)
(* JobQueue: jobs run as tasks of the event loop, a bounded number at a    *)
(* time; the status a poll reads is the job's record, mirrored in a cache  *)
(* with a time to live.                                                    *)
(***************************************************************************)
EXTENDS Naturals, FiniteSets

CONSTANTS
    MaxJobs,        \* bound: jobs ever submitted
    MaxWorkers      \* QUEUE_MAX_WORKERS

ASSUME QueueAssumption == MaxJobs \in Nat /\ MaxWorkers \in Nat

VARIABLES
    jobs,       \* the records, by number
    kept,       \* _jobs
    mirrored,   \* the cache's copies: the status each names
    tasks,      \* _tasks
    stopping    \* shutdown has cancelled every task and waits for them

queueVars == <<jobs, kept, mirrored, tasks, stopping>>

JobIds == DOMAIN jobs
Ended == {"succeeded", "failed", "cancelled"}
Statuses == {"pending", "running"} \cup Ended

JobRecords == [status : Statuses, task : {"waits", "runs", "done"}, cancelled : BOOLEAN, old : BOOLEAN]

QueueTypeOK ==
    /\ \E n \in 0 .. MaxJobs :
         jobs \in [1 .. n -> JobRecords] /\ mirrored \in [1 .. n -> {"gone"} \cup Statuses]
    /\ kept \subseteq JobIds /\ tasks \subseteq JobIds
    /\ stopping \in BOOLEAN

QueueInit ==
    /\ jobs = <<>> /\ mirrored = <<>>
    /\ kept = {} /\ tasks = {}
    /\ stopping = FALSE

Running == {j \in JobIds : jobs[j].task = "runs"}
Sets(j, status, task) == [jobs EXCEPT ![j] = [@ EXCEPT !.status = status, !.task = task]]
Persists(j) == kept' = kept \cup {j} /\ mirrored' = [mirrored EXCEPT ![j] = jobs'[j].status]

-----------------------------------------------------------------------------
Submits ==
    /\ Cardinality(JobIds) < MaxJobs /\ ~stopping
    /\ LET j == Cardinality(JobIds) + 1
           record == [status |-> "pending", task |-> "waits", cancelled |-> FALSE, old |-> FALSE]
       IN  /\ jobs' = [i \in 1 .. j |-> IF i < j THEN jobs[i] ELSE record]
           /\ mirrored' = [i \in 1 .. j |-> IF i < j THEN mirrored[i] ELSE "pending"]
           /\ kept' = kept \cup {j} /\ tasks' = tasks \cup {j}
    /\ UNCHANGED stopping

(* The semaphore, then the record.                                           *)
Begins(j) ==
    /\ jobs[j].task = "waits" /\ ~jobs[j].cancelled
    /\ Cardinality(Running) < MaxWorkers
    /\ jobs' = Sets(j, "running", "runs")
    /\ Persists(j)
    /\ UNCHANGED <<tasks, stopping>>

(* The handler returns, raises, or is where the cancellation reaches it.     *)
FinishesJob(j) ==
    /\ jobs[j].task = "runs"
    /\ \/ ~jobs[j].cancelled /\ jobs' \in {Sets(j, "succeeded", "done"), Sets(j, "failed", "done")}
       \/ jobs[j].cancelled /\ jobs' = Sets(j, "cancelled", "done")
    /\ Persists(j)
    /\ tasks' = tasks \ {j}
    /\ UNCHANGED stopping

(* A job cancelled while it waits for the semaphore never reaches the        *)
(* handlers that record how it ended.                                        *)
CancelledWaiting(j) ==
    /\ jobs[j].task = "waits" /\ jobs[j].cancelled
    /\ jobs' = Sets(j, jobs[j].status, "done")
    /\ UNCHANGED <<kept, mirrored, tasks, stopping>>

CancelsJob(j) ==
    /\ j \in tasks /\ jobs[j].task # "done" /\ ~jobs[j].cancelled
    /\ jobs' = [jobs EXCEPT ![j] = [@ EXCEPT !.cancelled = TRUE]]
    /\ UNCHANGED <<kept, mirrored, tasks, stopping>>

(* JOB_RESULT_TTL_SECONDS pass for a job that has ended.                     *)
JobAges(j) ==
    /\ jobs[j].status \in Ended /\ ~jobs[j].old
    /\ jobs' = [jobs EXCEPT ![j] = [@ EXCEPT !.old = TRUE]]
    /\ UNCHANGED <<kept, mirrored, tasks, stopping>>

PrunesJobs ==
    /\ kept' = {j \in kept : ~(jobs[j].status \in Ended /\ jobs[j].old)}
    /\ kept' # kept
    /\ UNCHANGED <<jobs, mirrored, tasks, stopping>>

(* The cache forgets on its own clock, or for want of room.                  *)
MirrorForgets(j) ==
    /\ mirrored[j] # "gone"
    /\ mirrored' = [mirrored EXCEPT ![j] = "gone"]
    /\ UNCHANGED <<jobs, kept, tasks, stopping>>

QueueShutsDown ==
    /\ ~stopping
    /\ stopping' = TRUE
    /\ jobs' = [j \in JobIds |-> IF j \in tasks /\ jobs[j].task # "done"
                                 THEN [jobs[j] EXCEPT !.cancelled = TRUE] ELSE jobs[j]]
    /\ UNCHANGED <<kept, mirrored, tasks>>

ShutdownReturns ==
    /\ stopping /\ \A j \in tasks : jobs[j].task = "done"
    /\ tasks' = {} /\ tasks # {}
    /\ UNCHANGED <<jobs, kept, mirrored, stopping>>

QueueNext ==
    \/ Submits \/ PrunesJobs \/ QueueShutsDown \/ ShutdownReturns
    \/ \E j \in JobIds :
         \/ Begins(j) \/ FinishesJob(j) \/ CancelledWaiting(j) \/ CancelsJob(j)
         \/ JobAges(j) \/ MirrorForgets(j)

QueueSpec == QueueInit /\ [][QueueNext]_queueVars

(* get: the record, or what the cache remembers of it.                       *)
Answer(j) == IF j \in kept THEN jobs[j].status ELSE mirrored[j]

-----------------------------------------------------------------------------
(* No more jobs run at once than there are workers.                          *)
WorkersAreBounded == Cardinality(Running) <= MaxWorkers

(* A poll never learns less than it has: what it is told of a job, from the  *)
(* record or from the cache after a prune, is never an earlier status, and   *)
(* a job is unknown only once it has ended (get, prune, _persist).           *)
PollsMoveForward ==
    [][\A j \in JobIds :
        /\ Answer(j) \in Ended => Answer(j)' \in {Answer(j), "gone"}
        /\ Answer(j) = "running" => Answer(j)' # "pending"
        /\ Answer(j) \in {"pending", "running"} => Answer(j)' # "gone"]_queueVars

(* A job that was cancelled ends cancelled.                                  *)
CancelledJobsEnd ==
    \A j \in JobIds : jobs[j].cancelled /\ jobs[j].task = "done" => jobs[j].status \in Ended
=============================================================================

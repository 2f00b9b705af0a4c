---------------------------- MODULE ServicesProofs ----------------------------
(***************************************************************************)
(* What is proved of the services around a turn.                           *)
(***************************************************************************)
EXTENDS Services, FiniteSetTheorems, SequenceTheorems, TLAPS

\* A sequence is of whatever holds its elements.
LEMMA SeqOfElements ==
    ASSUME NEW S, NEW T, NEW s \in Seq(S), \A i \in 1 .. Len(s) : s[i] \in T
    PROVE  s \in Seq(T)
<1>1. Len(s) \in Nat /\ SubSeq(s, 1, Len(s)) = s
  BY LenProperties, SubSeqFull
<1>2. SubSeq(s, 1, Len(s)) \in Seq(T)
  BY <1>1, SubSeqProperties
<1> QED BY <1>1, <1>2

-----------------------------------------------------------------------------
(***************************************************************************)
(* The queue, for any number of jobs and workers.                          *)
(*                                                                         *)
(* That a poll never goes back depends on the record, the copy in the      *)
(* cache and the table at once: the invariant says that a copy which is    *)
(* still there is of the record as it is, and that only the records of     *)
(* jobs which have ended leave the table.                                  *)
(***************************************************************************)

\* What a job's record may say at each place of its task.
RecordAgrees(j) ==
    /\ jobs[j].task = "waits" => jobs[j].status = "pending"
    /\ jobs[j].task = "runs" => jobs[j].status = "running"
    /\ jobs[j].task = "done" => jobs[j].status \in Ended \cup {"pending"}
    /\ mirrored[j] \in {"gone", jobs[j].status}
    /\ j \notin kept => jobs[j].status \in Ended

QueueInv == QueueTypeOK /\ WorkersAreBounded /\ \A j \in JobIds : RecordAgrees(j)

LEMMA QueueInitInv == QueueInit => QueueInv
<1> SUFFICES ASSUME QueueInit PROVE QueueInv
  OBVIOUS
<1>1. 1 .. 0 = {} /\ 0 \in 0 .. MaxJobs
  BY QueueAssumption
<1>2. /\ jobs \in [{} -> JobRecords] /\ mirrored \in [{} -> {"gone"} \cup Statuses]
      /\ JobIds = {} /\ Running = {}
  BY DEF QueueInit, JobIds, Running
<1>3. QueueTypeOK
  BY <1>1, <1>2 DEF QueueInit, QueueTypeOK
<1> QED BY <1>2, <1>3, FS_EmptySet, QueueAssumption DEF QueueInv, WorkersAreBounded

\* The jobs are numbered from 1, and few enough to be counted.
LEMMA JobsAreCounted ==
    ASSUME QueueTypeOK
    PROVE  /\ IsFiniteSet(JobIds) /\ Cardinality(JobIds) \in 0 .. MaxJobs
           /\ JobIds = 1 .. Cardinality(JobIds)
           /\ jobs \in [JobIds -> JobRecords] /\ mirrored \in [JobIds -> {"gone"} \cup Statuses]
           /\ IsFiniteSet(Running) /\ Cardinality(Running) \in Nat
<1>1. PICK n \in 0 .. MaxJobs :
         jobs \in [1 .. n -> JobRecords] /\ mirrored \in [1 .. n -> {"gone"} \cup Statuses]
  BY DEF QueueTypeOK
<1>2. JobIds = 1 .. n
  BY <1>1 DEF JobIds
<1>3. IsFiniteSet(JobIds) /\ Cardinality(JobIds) = n
  BY <1>2, FS_Interval, QueueAssumption
<1>4. IsFiniteSet(Running)
  BY <1>3, FS_Subset DEF Running
<1> QED BY <1>1, <1>2, <1>3, <1>4, FS_CardinalityType

\* A step that changes only the record of job j, and what is remembered of it.
JobMoves(j) ==
    /\ \E r \in JobRecords : jobs' = [jobs EXCEPT ![j] = r]
    /\ mirrored' \in {mirrored, [mirrored EXCEPT ![j] = jobs'[j].status]}
    /\ kept' \in {kept, kept \cup {j}} /\ tasks' \in {tasks, tasks \ {j}}
    /\ UNCHANGED stopping

LEMMA JobMovesKeepType ==
    ASSUME QueueTypeOK, NEW j \in JobIds, JobMoves(j)
    PROVE  /\ QueueTypeOK' /\ JobIds' = JobIds
           /\ \A i \in JobIds : i # j => jobs'[i] = jobs[i] /\ mirrored'[i] = mirrored[i]
           /\ jobs'[j] \in JobRecords
<1>1. PICK n \in 0 .. MaxJobs :
         jobs \in [1 .. n -> JobRecords] /\ mirrored \in [1 .. n -> {"gone"} \cup Statuses]
  BY DEF QueueTypeOK
<1>2. PICK r \in JobRecords : jobs' = [jobs EXCEPT ![j] = r]
  BY DEF JobMoves
<1>3. JobIds = 1 .. n /\ jobs' \in [1 .. n -> JobRecords] /\ jobs'[j] = r
  BY <1>1, <1>2 DEF JobIds
<1>4. r.status \in Statuses
  BY DEF JobRecords
<1>5. mirrored' \in [1 .. n -> {"gone"} \cup Statuses]
  BY <1>1, <1>3, <1>4 DEF JobMoves
<1>6. JobIds' = JobIds
  BY <1>2 DEF JobIds
<1>7. QueueTypeOK'
  BY <1>3, <1>5, <1>6 DEF QueueTypeOK, JobMoves
<1> QED BY <1>1, <1>2, <1>3, <1>6, <1>7 DEF JobMoves

\* The steps of one job, and what they do to it.
LEMMA JobStepsMove ==
    ASSUME QueueInv, NEW j \in JobIds,
           \/ Begins(j) \/ FinishesJob(j) \/ CancelledWaiting(j) \/ CancelsJob(j) \/ JobAges(j)
    PROVE  /\ JobMoves(j) /\ RecordAgrees(j)'
           /\ jobs'[j].task = "runs" => jobs[j].task = "runs" \/ Begins(j)
           /\ jobs[j].status \in Ended => jobs'[j].status = jobs[j].status
           /\ jobs[j].status = "running" => jobs'[j].status # "pending"
           /\ kept \subseteq kept'
<1>1. /\ jobs \in [JobIds -> JobRecords] /\ mirrored \in [JobIds -> {"gone"} \cup Statuses]
      /\ jobs[j] \in JobRecords /\ RecordAgrees(j)
  BY JobsAreCounted DEF QueueInv
<1>2. CASE Begins(j)
  <2>1. /\ jobs'[j] = [jobs[j] EXCEPT !.status = "running", !.task = "runs"]
        /\ jobs'[j] \in JobRecords /\ jobs' = [jobs EXCEPT ![j] = jobs'[j]]
    BY <1>1, <1>2 DEF Begins, Sets, JobRecords, Statuses
  <2> QED BY <1>1, <1>2, <2>1 DEF Begins, Persists, JobMoves, RecordAgrees, JobRecords, Ended
<1>3. CASE FinishesJob(j)
  <2>1. PICK s \in Ended : jobs' = Sets(j, s, "done")
    BY <1>3 DEF FinishesJob, Ended
  <2>2. /\ jobs'[j] = [jobs[j] EXCEPT !.status = s, !.task = "done"]
        /\ jobs'[j] \in JobRecords /\ jobs' = [jobs EXCEPT ![j] = jobs'[j]]
    BY <1>1, <2>1 DEF Sets, JobRecords, Statuses
  <2>3. jobs'[j].status = s /\ jobs'[j].task = "done" /\ jobs[j].task = "runs"
    BY <1>1, <1>3, <2>2 DEF FinishesJob, JobRecords
  <2>4. mirrored'[j] = s /\ j \in kept'
    BY <1>1, <1>3, <2>3 DEF FinishesJob, Persists
  <2> QED BY <1>1, <1>3, <2>1, <2>2, <2>3, <2>4 DEF FinishesJob, Persists, JobMoves, RecordAgrees, Ended
<1>4. CASE CancelledWaiting(j)
  <2>1. /\ jobs'[j] = [jobs[j] EXCEPT !.status = jobs[j].status, !.task = "done"]
        /\ jobs'[j] \in JobRecords /\ jobs' = [jobs EXCEPT ![j] = jobs'[j]]
    BY <1>1, <1>4 DEF CancelledWaiting, Sets, JobRecords, Statuses
  <2> QED BY <1>1, <1>4, <2>1 DEF CancelledWaiting, JobMoves, RecordAgrees, JobRecords, Ended
<1>5. CASE CancelsJob(j)
  <2>1. /\ jobs'[j] = [jobs[j] EXCEPT !.cancelled = TRUE]
        /\ jobs'[j] \in JobRecords /\ jobs' = [jobs EXCEPT ![j] = jobs'[j]]
    BY <1>1, <1>5 DEF CancelsJob, JobRecords, Statuses
  <2> QED BY <1>1, <1>5, <2>1 DEF CancelsJob, JobMoves, RecordAgrees, JobRecords, Ended
<1>6. CASE JobAges(j)
  <2>1. /\ jobs'[j] = [jobs[j] EXCEPT !.old = TRUE]
        /\ jobs'[j] \in JobRecords /\ jobs' = [jobs EXCEPT ![j] = jobs'[j]]
    BY <1>1, <1>6 DEF JobAges, JobRecords, Statuses
  <2> QED BY <1>1, <1>6, <2>1 DEF JobAges, JobMoves, RecordAgrees, JobRecords, Ended
<1> QED BY <1>2, <1>3, <1>4, <1>5, <1>6

LEMMA RunningStaysBounded ==
    ASSUME QueueInv, JobIds \subseteq JobIds', QueueTypeOK',
           \/ Running' \subseteq Running
           \/ \E j \in JobIds : Begins(j) /\ Running' \subseteq Running \cup {j}
    PROVE  WorkersAreBounded'
<1>1. IsFiniteSet(Running) /\ Cardinality(Running) \in Nat /\ Cardinality(Running) <= MaxWorkers
  BY JobsAreCounted DEF QueueInv, WorkersAreBounded
<1>2. CASE Running' \subseteq Running
  <2>1. Cardinality(Running') <= Cardinality(Running) /\ Cardinality(Running') \in Nat
    BY <1>1, <1>2, FS_Subset, FS_CardinalityType
  <2> QED BY <1>1, <2>1, QueueAssumption DEF WorkersAreBounded
<1>3. ASSUME NEW j \in JobIds, Begins(j), Running' \subseteq Running \cup {j}
      PROVE  WorkersAreBounded'
  <2>1. Cardinality(Running) < MaxWorkers
    BY <1>3 DEF Begins
  <2>2. /\ IsFiniteSet(Running \cup {j})
        /\ Cardinality(Running \cup {j}) \in {Cardinality(Running), Cardinality(Running) + 1}
    BY <1>1, FS_AddElement
  <2>3. Cardinality(Running') <= Cardinality(Running \cup {j}) /\ Cardinality(Running') \in Nat
    BY <1>3, <2>2, FS_Subset, FS_CardinalityType
  <2> QED BY <1>1, <2>1, <2>2, <2>3, QueueAssumption DEF WorkersAreBounded
<1> QED BY <1>2, <1>3

\* What every step does: the type, the bound, what the records say, and what a
\* poll is told.
Answered(j) ==
    /\ Answer(j) \in Ended => Answer(j)' \in {Answer(j), "gone"}
    /\ Answer(j) = "running" => Answer(j)' # "pending"
    /\ Answer(j) \in {"pending", "running"} => Answer(j)' # "gone"

LEMMA QueueStepsKeepInv ==
    ASSUME QueueInv, QueueNext
    PROVE  QueueInv' /\ \A j \in JobIds : Answered(j)
<1> DEFINE n == Cardinality(JobIds)
<1>1. /\ IsFiniteSet(JobIds) /\ n \in 0 .. MaxJobs /\ JobIds = 1 .. n
      /\ jobs \in [JobIds -> JobRecords] /\ mirrored \in [JobIds -> {"gone"} \cup Statuses]
      /\ \A i \in JobIds : RecordAgrees(i) /\ jobs[i] \in JobRecords
      /\ kept \subseteq JobIds /\ tasks \subseteq JobIds /\ stopping \in BOOLEAN
  BY JobsAreCounted DEF QueueInv, QueueTypeOK
<1> HIDE DEF n
<1>2. ASSUME NEW j \in JobIds,
             Begins(j) \/ FinishesJob(j) \/ CancelledWaiting(j) \/ CancelsJob(j) \/ JobAges(j)
      PROVE  QueueInv' /\ \A i \in JobIds : Answered(i)
  <2>1. /\ JobMoves(j) /\ RecordAgrees(j)' /\ kept \subseteq kept'
        /\ jobs'[j].task = "runs" => jobs[j].task = "runs" \/ Begins(j)
        /\ jobs[j].status \in Ended => jobs'[j].status = jobs[j].status
        /\ jobs[j].status = "running" => jobs'[j].status # "pending"
    BY <1>2, JobStepsMove
  <2>2. /\ QueueTypeOK' /\ JobIds' = JobIds
        /\ \A i \in JobIds : i # j => jobs'[i] = jobs[i] /\ mirrored'[i] = mirrored[i]
        /\ jobs'[j] \in JobRecords
    BY <2>1, JobMovesKeepType DEF QueueInv
  <2>3. \A i \in JobIds : RecordAgrees(i)'
    BY <1>1, <2>1, <2>2 DEF RecordAgrees, JobMoves
  <2>4. Running' \subseteq Running \cup (IF Begins(j) THEN {j} ELSE {})
    BY <2>1, <2>2 DEF Running
  <2>5. WorkersAreBounded'
    BY <2>2, <2>4, RunningStaysBounded
  <2>6. ASSUME NEW i \in JobIds PROVE Answered(i)
    <3>1. CASE i = j
      BY <1>1, <2>1, <2>2, <3>1 DEF RecordAgrees, Answered, Answer, Ended, JobRecords, Statuses
    <3>2. CASE i # j
      BY <1>1, <2>1, <2>2, <3>2 DEF RecordAgrees, Answered, Answer, Ended, JobMoves
    <3> QED BY <3>1, <3>2
  <2> QED BY <2>2, <2>3, <2>5, <2>6 DEF QueueInv
<1>3. CASE Submits
  <2>1. /\ n < MaxJobs
        /\ jobs' = [i \in 1 .. n + 1 |-> IF i < n + 1 THEN jobs[i] ELSE
                      [status |-> "pending", task |-> "waits", cancelled |-> FALSE, old |-> FALSE]]
        /\ mirrored' = [i \in 1 .. n + 1 |-> IF i < n + 1 THEN mirrored[i] ELSE "pending"]
        /\ kept' = kept \cup {n + 1} /\ tasks' = tasks \cup {n + 1} /\ UNCHANGED stopping
    BY <1>3 DEF Submits, n
  <2>2. n \in Nat /\ n + 1 \in 0 .. MaxJobs
    BY <1>1, <2>1, QueueAssumption
  <2>3. /\ \A i \in JobIds : jobs'[i] = jobs[i] /\ mirrored'[i] = mirrored[i]
        /\ jobs'[n + 1] = [status |-> "pending", task |-> "waits", cancelled |-> FALSE, old |-> FALSE]
        /\ mirrored'[n + 1] = "pending"
        /\ JobIds' = 1 .. n + 1 /\ JobIds' = JobIds \cup {n + 1}
    BY <1>1, <2>1, <2>2 DEF JobIds
  <2>4. jobs' \in [1 .. n + 1 -> JobRecords] /\ mirrored' \in [1 .. n + 1 -> {"gone"} \cup Statuses]
    <3>1. jobs'[n + 1] \in JobRecords /\ mirrored'[n + 1] \in Statuses
      BY <2>3 DEF JobRecords, Statuses
    <3>2. \A i \in 1 .. n + 1 : i \in JobIds \/ i = n + 1
      BY <2>3
    <3>3. \A i \in 1 .. n + 1 : jobs'[i] \in JobRecords /\ mirrored'[i] \in {"gone"} \cup Statuses
      BY <1>1, <2>3, <3>1, <3>2
    <3> QED BY <2>1, <3>3
  <2>5. QueueTypeOK'
    BY <1>1, <2>1, <2>2, <2>3, <2>4 DEF QueueTypeOK
  <2>6. \A i \in JobIds' : RecordAgrees(i)'
    BY <1>1, <2>1, <2>3 DEF RecordAgrees
  <2>7. Running' \subseteq Running
    BY <2>3 DEF Running
  <2>8. \A i \in JobIds : Answered(i)
    BY <1>1, <2>1, <2>2, <2>3 DEF RecordAgrees, Answered, Answer, Ended
  <2> QED BY <2>3, <2>5, <2>6, <2>7, <2>8, RunningStaysBounded DEF QueueInv
<1>4. CASE PrunesJobs \/ \E j \in JobIds : MirrorForgets(j)
  <2>1. /\ UNCHANGED <<jobs, tasks, stopping>>
        /\ kept' \subseteq kept /\ \A i \in kept \ kept' : jobs[i].status \in Ended
        /\ mirrored' \in [JobIds -> {"gone"} \cup Statuses]
        /\ \A i \in JobIds : mirrored'[i] \in {mirrored[i], "gone"}
    BY <1>1, <1>4 DEF PrunesJobs, MirrorForgets
  <2>2. JobIds' = JobIds /\ Running' = Running
    BY <2>1 DEF JobIds, Running
  <2>3. QueueTypeOK'
    BY <1>1, <2>1, <2>2 DEF QueueTypeOK
  <2>4. \A i \in JobIds' : RecordAgrees(i)'
    BY <1>1, <2>1, <2>2 DEF RecordAgrees
  <2>5. \A i \in JobIds : Answered(i)
    BY <1>1, <2>1 DEF RecordAgrees, Answered, Answer, Ended
  <2> QED BY <2>2, <2>3, <2>4, <2>5, RunningStaysBounded DEF QueueInv
<1>5. CASE QueueShutsDown
  <2>1. /\ UNCHANGED <<kept, mirrored, tasks>> /\ stopping' = TRUE
        /\ jobs' = [j \in JobIds |-> IF j \in tasks /\ jobs[j].task # "done"
                                     THEN [jobs[j] EXCEPT !.cancelled = TRUE] ELSE jobs[j]]
    BY <1>5 DEF QueueShutsDown
  <2>2. /\ JobIds' = JobIds
        /\ \A j \in JobIds : /\ jobs'[j] \in JobRecords
                             /\ jobs'[j].status = jobs[j].status /\ jobs'[j].task = jobs[j].task
    BY <1>1, <2>1 DEF JobIds, JobRecords
  <2>3. jobs' \in [JobIds -> JobRecords]
    BY <2>1, <2>2
  <2>4. QueueTypeOK'
    BY <1>1, <2>1, <2>2, <2>3 DEF QueueTypeOK
  <2>5. Running' = Running /\ \A i \in JobIds' : RecordAgrees(i)'
    BY <1>1, <2>1, <2>2 DEF RecordAgrees, Running
  <2>6. \A i \in JobIds : Answered(i)
    BY <1>1, <2>1, <2>2 DEF RecordAgrees, Answered, Answer, Ended
  <2> QED BY <2>2, <2>4, <2>5, <2>6, RunningStaysBounded DEF QueueInv
<1>6. CASE ShutdownReturns
  <2>1. UNCHANGED <<jobs, kept, mirrored, stopping>> /\ tasks' = {}
    BY <1>6 DEF ShutdownReturns
  <2>2. JobIds' = JobIds /\ Running' = Running
    BY <2>1 DEF JobIds, Running
  <2>3. QueueTypeOK' /\ \A i \in JobIds' : RecordAgrees(i)'
    BY <1>1, <2>1, <2>2 DEF QueueTypeOK, RecordAgrees
  <2>4. \A i \in JobIds : Answered(i)
    BY <1>1, <2>1 DEF RecordAgrees, Answered, Answer, Ended
  <2> QED BY <2>2, <2>3, <2>4, RunningStaysBounded DEF QueueInv
<1> QED BY <1>2, <1>3, <1>4, <1>5, <1>6 DEF QueueNext

LEMMA QueueStutters ==
    ASSUME QueueInv, UNCHANGED queueVars
    PROVE  QueueInv'
<1>1. UNCHANGED <<jobs, kept, mirrored, tasks, stopping>> /\ JobIds' = JobIds /\ Running' = Running
  BY DEF queueVars, JobIds, Running
<1> QED BY <1>1 DEF QueueInv, QueueTypeOK, WorkersAreBounded, RecordAgrees

(* The records, the copies and the table agree, and no more jobs run than    *)
(* there are workers, whenever jobs are cancelled, pruned or forgotten       *)
(* (JobQueue).                                                               *)
THEOREM QueueInvariance == QueueSpec => []QueueInv
<1>1. QueueInv /\ [QueueNext]_queueVars => QueueInv'
  BY QueueStepsKeepInv, QueueStutters
<1> QED BY <1>1, QueueInitInv, PTL DEF QueueSpec

(* A poll never learns less of a job than it has, from the record or from    *)
(* the cache (get, prune, _persist).                                         *)
THEOREM PollsGoForward == QueueSpec => PollsMoveForward
<1>1. QueueInv /\ [QueueNext]_queueVars =>
        [\A j \in JobIds :
            /\ Answer(j) \in Ended => Answer(j)' \in {Answer(j), "gone"}
            /\ Answer(j) = "running" => Answer(j)' # "pending"
            /\ Answer(j) \in {"pending", "running"} => Answer(j)' # "gone"]_queueVars
  BY QueueStepsKeepInv DEF Answered
<1> QED BY <1>1, QueueInvariance, PTL DEF QueueSpec, PollsMoveForward

-----------------------------------------------------------------------------
(***************************************************************************)
(* The limiter, for any number of clients, quota and window.               *)
(*                                                                         *)
(* The limiter only keeps what is in the window and decides by its length, *)
(* while the quota is about everything it has granted. The invariant says  *)
(* that what is kept of a client is the end of what it was granted, and    *)
(* that the rest has left the window.                                      *)
(***************************************************************************)

Forgotten(h) == Len(granted[h]) - Len(hits[h])

IsRemembered(h) ==
    /\ Len(hits[h]) <= Len(granted[h])
    /\ \A i \in 1 .. Len(hits[h]) : hits[h][i] = granted[h][Forgotten(h) + i]
    /\ \A i \in 1 .. Forgotten(h) : granted[h][i] + Window < now

Spaced(times) ==
    \A i \in 1 .. Len(times) : i + MaxRequests <= Len(times) => times[i + MaxRequests] > times[i] + Window

LimiterInv ==
    /\ now \in 0 .. MaxTime /\ hits \in [Hosts -> Seq(Nat)] /\ granted \in [Hosts -> Seq(Nat)]
    /\ \A h \in Hosts : \A i \in 1 .. Len(granted[h]) : granted[h][i] <= now
    /\ \A h \in Hosts : IsRemembered(h) /\ Spaced(granted[h])
    /\ TableIsBounded

\* What is left when the oldest k are dropped.
LEMMA RecentProperties ==
    ASSUME NEW q \in Seq(Nat), NEW k \in 0 .. Len(q)
    PROVE  /\ Recent(q, k) \in Seq(Nat) /\ Len(Recent(q, k)) = Len(q) - k
           /\ \A i \in 1 .. Len(q) - k : Recent(q, k)[i] = q[k + i]
<1>1. Len(q) \in Nat /\ \A i \in 1 .. Len(q) : q[i] \in Nat
  BY LenProperties, ElementOfSeq
<1>2. \A i \in k + 1 .. Len(q) : q[i] \in Nat
  BY <1>1
<1>3. /\ SubSeq(q, k + 1, Len(q)) \in Seq(Nat)
      /\ Len(SubSeq(q, k + 1, Len(q))) = IF k + 1 <= Len(q) THEN Len(q) - (k + 1) + 1 ELSE 0
      /\ \A i \in 1 .. Len(q) - (k + 1) + 1 : SubSeq(q, k + 1, Len(q))[i] = q[k + 1 + i - 1]
  BY <1>1, <1>2, SubSeqProperties
<1> QED BY <1>1, <1>3 DEF Recent

\* What lies past the first d of d + k.
LEMMA PastTheFirst ==
    ASSUME NEW d \in Nat, NEW k \in Nat, NEW m \in Nat, k <= m, NEW i \in 1 .. d + k, i > d
    PROVE  i - d \in 1 .. k /\ i - d \in 1 .. m /\ d + (i - d) = i
OBVIOUS

\* One more request let through: the quota holds with it, because what was
\* dropped is older than the window and what is left is less than the quota.
LEMMA OneMoreGrant ==
    ASSUME NEW q \in Seq(Nat), NEW g \in Seq(Nat), NEW k \in 0 .. Len(q), now \in Nat,
           Len(q) <= Len(g), Lapsed(q, k), Len(q) - k < MaxRequests, Spaced(g),
           \A i \in 1 .. Len(q) : q[i] = g[Len(g) - Len(q) + i],
           \A i \in 1 .. Len(g) - Len(q) : g[i] + Window < now
    PROVE  LET r == Append(Recent(q, k), now)
               f == Append(g, now)
           IN  /\ r \in Seq(Nat) /\ f \in Seq(Nat) /\ Len(r) <= Len(f) /\ Spaced(f)
               /\ \A i \in 1 .. Len(r) : r[i] = f[Len(f) - Len(r) + i]
               /\ \A i \in 1 .. Len(f) - Len(r) : f[i] + Window < now
               /\ Len(f) = Len(g) + 1 /\ f[Len(g) + 1] = now
               /\ \A i \in 1 .. Len(g) : f[i] = g[i]
<1> DEFINE p == Recent(q, k)
           r == Append(p, now)
           f == Append(g, now)
           d == Len(g) - Len(q)
<1>1. /\ Len(q) \in Nat /\ Len(g) \in Nat /\ d \in Nat
      /\ p \in Seq(Nat) /\ Len(p) = Len(q) - k
      /\ \A i \in 1 .. Len(q) - k : p[i] = q[k + i]
  BY RecentProperties, LenProperties
<1>9. k \in Nat /\ k <= Len(q) /\ d + k <= Len(g) /\ d + k \in Nat
  BY <1>1
<1>2. /\ r \in Seq(Nat) /\ Len(r) = Len(q) - k + 1
      /\ \A i \in 1 .. Len(q) - k : r[i] = q[k + i]
      /\ r[Len(q) - k + 1] = now
  <2> HIDE DEF p
  <2> QED BY <1>1, AppendProperties
<1>3. /\ f \in Seq(Nat) /\ Len(f) = Len(g) + 1
      /\ \A i \in 1 .. Len(g) : f[i] = g[i]
      /\ f[Len(g) + 1] = now
  BY <1>1, AppendProperties
<1>4. \A i \in 1 .. d + k : g[i] + Window < now
  <2> TAKE i \in 1 .. d + k
  <2>1. CASE i <= d
    BY <2>1, <1>1
  <2>2. CASE i > d
    <3> HIDE DEF d
    <3>1. i - d \in 1 .. k /\ i - d \in 1 .. Len(q) /\ d + (i - d) = i
      BY <2>2, <1>1, <1>9, PastTheFirst
    <3>2. q[i - d] + Window < now /\ q[i - d] = g[d + (i - d)]
      BY <3>1 DEF Lapsed, d
    <3> QED BY <3>1, <3>2
  <2> QED BY <2>1, <2>2, <1>1
<1> HIDE DEF p, r, f
<1>5. Len(f) - Len(r) = d + k /\ Len(r) <= Len(f)
  BY <1>1, <1>2, <1>3
<1>6. ASSUME NEW i \in 1 .. Len(r) PROVE r[i] = f[Len(f) - Len(r) + i]
  <2>1. CASE i = Len(q) - k + 1
    <3>1. i = Len(r)
      BY <2>1, <1>2
    <3>2. \A a, b \in Nat : a <= b => b - a + a = b
      OBVIOUS
    <3>3. Len(f) - Len(r) + i = Len(g) + 1
      BY <1>1, <1>2, <1>3, <1>5, <3>1, <3>2
    <3> QED BY <2>1, <3>3, <1>2, <1>3
  <2>2. CASE i \in 1 .. Len(q) - k
    <3>1. k + i \in 1 .. Len(q) /\ d + (k + i) = (d + k) + i /\ d + (k + i) \in 1 .. Len(g)
      BY <2>2, <1>1
    <3>2. q[k + i] = g[d + (k + i)]
      BY <3>1
    <3> QED BY <2>2, <3>1, <3>2, <1>2, <1>3, <1>5
  <2>3. i = Len(q) - k + 1 \/ i \in 1 .. Len(q) - k
    <3>1. i \in 1 .. Len(q) - k + 1
      BY <1>2
    <3> HIDE DEF d
    <3> QED BY <3>1, <1>1, <1>9
  <2> QED BY <2>1, <2>2, <2>3
<1>7. \A i \in 1 .. Len(f) - Len(r) : f[i] + Window < now
  <2> TAKE i \in 1 .. Len(f) - Len(r)
  <2>1. i \in 1 .. d + k /\ i \in 1 .. Len(g)
    BY <1>1, <1>9, <1>5
  <2> QED BY <2>1, <1>3, <1>4
<1>8. Spaced(f)
  <2> SUFFICES ASSUME NEW i \in 1 .. Len(f), i + MaxRequests <= Len(f)
               PROVE  f[i + MaxRequests] > f[i] + Window
    BY DEF Spaced
  <2>5. MaxRequests \in Nat /\ MaxRequests > 0 /\ Window \in Nat /\ i \in Nat
    BY <1>1, <1>3, AdmissionAssumption
  <2>6. i \in 1 .. Len(g)
    BY <2>5, <1>1, <1>3
  <2>1. f[i] = g[i] /\ g[i] \in Nat
    BY <2>6, <1>3, ElementOfSeq
  <2>2. CASE i + MaxRequests <= Len(g)
    <3>1. g[i + MaxRequests] > g[i] + Window
      BY <2>5, <2>6, <2>2 DEF Spaced
    <3>2. i + MaxRequests \in 1 .. Len(g)
      BY <2>5, <2>2, <1>1
    <3> QED BY <3>1, <3>2, <2>1, <1>3
  <2>3. CASE i + MaxRequests = Len(g) + 1
    <3>1. i \in 1 .. d + k
      BY <2>5, <2>3, <1>1, <1>9
    <3> QED BY <3>1, <2>1, <2>3, <1>3, <1>4
  <2>4. i + MaxRequests <= Len(g) \/ i + MaxRequests = Len(g) + 1
    <3>1. i + MaxRequests <= Len(g) + 1 /\ Len(g) \in Nat
      BY <1>1, <1>3
    <3>2. \A a, b \in Nat : a <= b + 1 => a <= b \/ a = b + 1
      OBVIOUS
    <3>3. i + MaxRequests \in Nat
      BY <2>5
    <3> QED BY <3>1, <3>2, <3>3
  <2> QED BY <2>2, <2>3, <2>4
<1> QED BY <1>2, <1>3, <1>5, <1>6, <1>7, <1>8 DEF r, f, p

\* A refusal only drops what has left the window.
LEMMA NoGrant ==
    ASSUME NEW q \in Seq(Nat), NEW g \in Seq(Nat), NEW k \in 0 .. Len(q), now \in Nat,
           Len(q) <= Len(g), Lapsed(q, k),
           \A i \in 1 .. Len(q) : q[i] = g[Len(g) - Len(q) + i],
           \A i \in 1 .. Len(g) - Len(q) : g[i] + Window < now
    PROVE  LET p == Recent(q, k)
           IN  /\ p \in Seq(Nat) /\ Len(p) <= Len(g)
               /\ \A i \in 1 .. Len(p) : p[i] = g[Len(g) - Len(p) + i]
               /\ \A i \in 1 .. Len(g) - Len(p) : g[i] + Window < now
<1> DEFINE p == Recent(q, k)
           d == Len(g) - Len(q)
<1>1. /\ Len(q) \in Nat /\ Len(g) \in Nat /\ d \in Nat
      /\ p \in Seq(Nat) /\ Len(p) = Len(q) - k
      /\ \A i \in 1 .. Len(q) - k : p[i] = q[k + i]
  BY RecentProperties, LenProperties
<1> HIDE DEF p
<1>2. Len(g) - Len(p) = d + k /\ Len(p) <= Len(g) /\ k \in Nat /\ k <= Len(q)
  BY <1>1
<1>3. ASSUME NEW i \in 1 .. Len(p) PROVE p[i] = g[Len(g) - Len(p) + i]
  <2>1. k + i \in 1 .. Len(q) /\ d + (k + i) = (d + k) + i /\ p[i] = q[k + i]
    BY <1>1
  <2> QED BY <2>1, <1>2
<1>4. ASSUME NEW i \in 1 .. d + k PROVE g[i] + Window < now
  <2>1. CASE i <= d
    BY <2>1, <1>1
  <2>2. CASE i > d
    <3> HIDE DEF d
    <3>1. i - d \in 1 .. k /\ i - d \in 1 .. Len(q) /\ d + (i - d) = i
      BY <2>2, <1>1, <1>2, PastTheFirst
    <3> QED BY <3>1 DEF Lapsed, d
  <2> QED BY <2>1, <2>2, <1>1
<1> QED BY <1>1, <1>2, <1>3, <1>4 DEF p

\* The table keeps to its bound: whoever is over it is evicted.
LEMMA EvictionBounds ==
    ASSUME NEW table \in [Hosts -> Seq(Nat)], NEW gone \in SUBSET Hosts, Evicted(table, gone),
           NEW left \in [Hosts -> Seq(Nat)],
           left = [c \in Hosts |-> IF c \in gone THEN <<>> ELSE table[c]]
    PROVE  Cardinality(Known(left)) <= MaxKeys
<1> DEFINE K == Known(table)
           excess == Cardinality(K) - MaxKeys
<1>1. IsFiniteSet(K) /\ Cardinality(K) \in Nat /\ MaxKeys \in Nat
  BY FS_Subset, FS_CardinalityType, AdmissionAssumption DEF Known
<1>2. Known(left) = K \ gone
  BY DEF Known
<1>3. CASE Cardinality(K) <= MaxKeys
  <2>1. gone = {}
    BY <1>3 DEF Evicted
  <2> QED BY <2>1, <1>2, <1>3
<1>4. CASE ~(Cardinality(K) <= MaxKeys)
  <2> DEFINE idle == {h \in K : Last(table[h]) + Window < now}
  <2>1. /\ gone \subseteq K
        /\ Cardinality(gone) = IF Cardinality(idle) > excess THEN Cardinality(idle) ELSE excess
    BY <1>4 DEF Evicted
  <2>2. Cardinality(idle) \in Nat /\ excess \in Nat
    BY <1>1, <1>4, FS_Subset, FS_CardinalityType
  <2>3. Cardinality(gone) >= excess /\ Cardinality(gone) \in Nat
    <3> HIDE DEF idle, excess
    <3> QED BY <2>1, <2>2
  <2>4. /\ Cardinality(K \ gone) = Cardinality(K) - Cardinality(K \cap gone)
        /\ K \cap gone = gone
    BY <1>1, <2>1, FS_Difference
  <2>5. Cardinality(K \ gone) <= MaxKeys
    <3>1. Cardinality(K \ gone) = Cardinality(K) - Cardinality(gone)
      BY <2>4
    <3>2. \A a, b, m \in Nat : b >= a - m => a - b <= m
      OBVIOUS
    <3> QED BY <1>1, <2>3, <3>1, <3>2
  <2> QED BY <1>2, <2>5
<1> QED BY <1>3, <1>4

LEMMA LimiterInitInv == AdmissionInit => LimiterInv
<1> SUFFICES ASSUME AdmissionInit PROVE LimiterInv
  OBVIOUS
<1>1. /\ <<>> \in Seq(Nat) /\ Len(<<>>) = 0
  BY EmptySeq
<1>2. \A h \in Hosts : hits[h] = <<>> /\ granted[h] = <<>>
  BY DEF AdmissionInit
<1>3. hits \in [Hosts -> Seq(Nat)] /\ granted \in [Hosts -> Seq(Nat)]
  BY <1>1 DEF AdmissionInit
<1>4. Known(hits) = {}
  BY <1>2 DEF Known
<1>5. TableIsBounded
  BY <1>4, FS_EmptySet, AdmissionAssumption DEF TableIsBounded
<1>6. ASSUME NEW h \in Hosts PROVE IsRemembered(h) /\ Spaced(granted[h])
  <2>1. Len(hits[h]) = 0 /\ Len(granted[h]) = 0 /\ Forgotten(h) = 0
    BY <1>1, <1>2 DEF Forgotten
  <2> QED BY <2>1 DEF IsRemembered, Spaced
<1>7. \A h \in Hosts : \A i \in 1 .. Len(granted[h]) : granted[h][i] <= now
  BY <1>1, <1>2
<1>8. now \in 0 .. MaxTime
  BY AdmissionAssumption DEF AdmissionInit
<1> QED BY <1>3, <1>5, <1>6, <1>7, <1>8 DEF LimiterInv

LEMMA AllowsKeepsInv ==
    ASSUME LimiterInv, NEW h \in Hosts, Allows(h)
    PROVE  LimiterInv'
<1>1. PICK k \in 0 .. Len(hits[h]), gone \in SUBSET Hosts :
        LET table == [hits EXCEPT ![h] = Append(Recent(hits[h], k), now)] IN
            /\ Lapsed(hits[h], k) /\ Len(hits[h]) - k < MaxRequests
            /\ Evicted(table, gone)
            /\ hits' = [c \in Hosts |-> IF c \in gone THEN <<>> ELSE table[c]]
            /\ granted' = [c \in Hosts |-> IF c \in gone THEN <<>>
                                            ELSE IF c = h THEN Append(granted[c], now)
                                            ELSE granted[c]]
  BY DEF Allows
<1> DEFINE table == [hits EXCEPT ![h] = Append(Recent(hits[h], k), now)]
           r == Append(Recent(hits[h], k), now)
           f == Append(granted[h], now)
<1>2. /\ now \in Nat /\ now' = now /\ hits \in [Hosts -> Seq(Nat)] /\ granted \in [Hosts -> Seq(Nat)]
      /\ hits[h] \in Seq(Nat) /\ granted[h] \in Seq(Nat)
  BY DEF LimiterInv, Allows
<1>3. /\ r \in Seq(Nat) /\ f \in Seq(Nat) /\ Len(r) <= Len(f) /\ Spaced(f)
      /\ \A i \in 1 .. Len(r) : r[i] = f[Len(f) - Len(r) + i]
      /\ \A i \in 1 .. Len(f) - Len(r) : f[i] + Window < now
      /\ Len(f) = Len(granted[h]) + 1 /\ f[Len(granted[h]) + 1] = now
      /\ \A i \in 1 .. Len(granted[h]) : f[i] = granted[h][i]
  <2>1. /\ Len(hits[h]) <= Len(granted[h]) /\ Spaced(granted[h])
        /\ \A i \in 1 .. Len(hits[h]) : hits[h][i] = granted[h][Len(granted[h]) - Len(hits[h]) + i]
        /\ \A i \in 1 .. Len(granted[h]) - Len(hits[h]) : granted[h][i] + Window < now
    BY DEF LimiterInv, IsRemembered, Forgotten
  <2> QED BY <1>1, <1>2, <2>1, OneMoreGrant
<1>4. \A i \in 1 .. Len(f) : f[i] <= now
  <2> TAKE i \in 1 .. Len(f)
  <2>1. Len(granted[h]) \in Nat
    BY <1>2, LenProperties
  <2>2. i \in 1 .. Len(granted[h]) \/ i = Len(granted[h]) + 1
    <3>1. i \in 1 .. Len(granted[h]) + 1
      BY <1>3
    <3> QED BY <2>1, <3>1
  <2> QED BY <1>2, <1>3, <2>2 DEF LimiterInv
<1> HIDE DEF r, f
<1>5. /\ table = [hits EXCEPT ![h] = r]
      /\ hits' = [c \in Hosts |-> IF c \in gone THEN <<>> ELSE table[c]]
      /\ granted' = [c \in Hosts |-> IF c \in gone THEN <<>> ELSE IF c = h THEN f ELSE granted[c]]
      /\ Evicted(table, gone)
  BY <1>1 DEF r, f
<1>6. table \in [Hosts -> Seq(Nat)]
  BY <1>2, <1>3, <1>5
<1> HIDE DEF table
<1>7. /\ <<>> \in Seq(Nat) /\ Len(<<>>) = 0
  BY EmptySeq
<1>8. /\ hits' \in [Hosts -> Seq(Nat)] /\ granted' \in [Hosts -> Seq(Nat)]
  BY <1>2, <1>3, <1>5, <1>6, <1>7
<1>9. TableIsBounded'
  BY <1>5, <1>6, <1>8, EvictionBounds DEF TableIsBounded
<1>10. ASSUME NEW c \in Hosts
       PROVE  /\ IsRemembered(c)' /\ Spaced(granted'[c])
              /\ \A i \in 1 .. Len(granted'[c]) : granted'[c][i] <= now'
  <2>1. CASE c \in gone
    <3>1. hits'[c] = <<>> /\ granted'[c] = <<>>
      BY <1>5, <2>1
    <3> QED BY <1>7, <3>1 DEF IsRemembered, Forgotten, Spaced
  <2>2. CASE c \notin gone /\ c = h
    <3>1. hits'[c] = r /\ granted'[c] = f
      BY <1>2, <1>5, <2>2
    <3> QED BY <1>2, <1>3, <1>4, <3>1 DEF IsRemembered, Forgotten
  <2>3. CASE c \notin gone /\ c # h
    <3>1. hits'[c] = hits[c] /\ granted'[c] = granted[c]
      BY <1>2, <1>5, <2>3
    <3> QED BY <1>2, <3>1 DEF IsRemembered, Forgotten, LimiterInv
  <2> QED BY <2>1, <2>2, <2>3
<1> QED BY <1>2, <1>8, <1>9, <1>10 DEF LimiterInv

LEMMA RefusesKeepsInv ==
    ASSUME LimiterInv, NEW h \in Hosts, Refuses(h)
    PROVE  LimiterInv'
<1>1. PICK k \in 0 .. Len(hits[h]) :
        Lapsed(hits[h], k) /\ hits' = [hits EXCEPT ![h] = Recent(hits[h], k)]
  BY DEF Refuses
<1> DEFINE p == Recent(hits[h], k)
<1>2. /\ now \in Nat /\ now' = now /\ granted' = granted
      /\ hits \in [Hosts -> Seq(Nat)] /\ granted \in [Hosts -> Seq(Nat)]
      /\ hits[h] \in Seq(Nat) /\ granted[h] \in Seq(Nat)
  BY DEF LimiterInv, Refuses
<1>3. /\ p \in Seq(Nat) /\ Len(p) <= Len(granted[h])
      /\ \A i \in 1 .. Len(p) : p[i] = granted[h][Len(granted[h]) - Len(p) + i]
      /\ \A i \in 1 .. Len(granted[h]) - Len(p) : granted[h][i] + Window < now
  <2>1. /\ Len(hits[h]) <= Len(granted[h])
        /\ \A i \in 1 .. Len(hits[h]) : hits[h][i] = granted[h][Len(granted[h]) - Len(hits[h]) + i]
        /\ \A i \in 1 .. Len(granted[h]) - Len(hits[h]) : granted[h][i] + Window < now
    BY DEF LimiterInv, IsRemembered, Forgotten
  <2> QED BY <1>1, <1>2, <2>1, NoGrant
<1>4. hits' = [hits EXCEPT ![h] = p]
  BY <1>1
<1>5. p # <<>> => hits[h] # <<>>
  <2> SUFFICES ASSUME hits[h] = <<>> PROVE p = <<>>
    OBVIOUS
  <2>1. Len(hits[h]) = 0 /\ k = 0
    BY EmptySeq
  <2> QED BY <2>1, SubSeqEmpty DEF Recent
<1> HIDE DEF p
<1>6. hits' \in [Hosts -> Seq(Nat)]
  BY <1>2, <1>3, <1>4
<1>7. Known(hits') \subseteq Known(hits)
  BY <1>2, <1>4, <1>5 DEF Known
<1>8. TableIsBounded'
  <2>1. IsFiniteSet(Known(hits))
    BY FS_Subset, AdmissionAssumption DEF Known
  <2>2. /\ Cardinality(Known(hits)) \in Nat /\ Cardinality(Known(hits')) \in Nat
        /\ Cardinality(Known(hits')) <= Cardinality(Known(hits))
    BY <1>7, <2>1, FS_Subset, FS_CardinalityType
  <2>3. Cardinality(Known(hits)) <= MaxKeys
    BY DEF LimiterInv, TableIsBounded
  <2> QED BY <2>2, <2>3, AdmissionAssumption DEF TableIsBounded
<1>9. ASSUME NEW c \in Hosts PROVE IsRemembered(c)'
  <2>1. CASE c = h
    BY <1>2, <1>3, <1>4, <2>1 DEF IsRemembered, Forgotten
  <2>2. CASE c # h
    BY <1>2, <1>4, <2>2 DEF IsRemembered, Forgotten, LimiterInv
  <2> QED BY <2>1, <2>2
<1> QED BY <1>2, <1>6, <1>8, <1>9 DEF LimiterInv

LEMMA LimiterStepsKeepInv == LimiterInv /\ [AdmissionNext]_admissionVars => LimiterInv'
<1> SUFFICES ASSUME LimiterInv, [AdmissionNext]_admissionVars PROVE LimiterInv'
  OBVIOUS
<1>1. CASE \E h \in Hosts : Allows(h) \/ Refuses(h)
  BY <1>1, AllowsKeepsInv, RefusesKeepsInv
<1>2. ASSUME UNCHANGED <<hits, granted>>, now' \in {now, now + 1}, now' \in 0 .. MaxTime
      PROVE  LimiterInv'
  <2>1. now \in Nat /\ now' \in Nat /\ now <= now' /\ Window \in Nat
    BY <1>2, AdmissionAssumption DEF LimiterInv
  <2>2. ASSUME NEW h \in Hosts
        PROVE  IsRemembered(h)' /\ \A i \in 1 .. Len(granted[h]) : granted[h][i] <= now'
    <3>1. /\ granted[h] \in Seq(Nat) /\ Len(granted[h]) \in Nat /\ Len(hits[h]) \in Nat
          /\ \A i \in 1 .. Len(granted[h]) : granted[h][i] \in Nat
      BY LenProperties, ElementOfSeq DEF LimiterInv
    <3>2. \A i \in 1 .. Len(granted[h]) : granted[h][i] <= now /\ granted[h][i] <= now'
      BY <2>1, <3>1 DEF LimiterInv
    <3>3. \A i \in 1 .. Forgotten(h) : granted[h][i] + Window < now /\ i \in 1 .. Len(granted[h])
      BY <3>1 DEF LimiterInv, IsRemembered, Forgotten
    <3>4. \A i \in 1 .. Forgotten(h) : granted[h][i] + Window < now'
      BY <2>1, <3>1, <3>3
    <3> QED BY <1>2, <3>2, <3>4 DEF LimiterInv, IsRemembered, Forgotten
  <2>3. TableIsBounded'
    BY <1>2 DEF LimiterInv, TableIsBounded, Known
  <2> QED BY <1>2, <2>1, <2>2, <2>3 DEF LimiterInv
<1>3. ASSUME ~\E h \in Hosts : Allows(h) \/ Refuses(h)
      PROVE  UNCHANGED <<hits, granted>> /\ now' \in {now, now + 1} /\ now' \in 0 .. MaxTime
  <2>1. now \in 0 .. MaxTime /\ MaxTime \in Nat
    BY AdmissionAssumption DEF LimiterInv
  <2> QED BY <1>3, <2>1 DEF AdmissionNext, admissionVars, Ticks, Acquires, Accepts,
                        ClosesRefused, BreaksEarly, Closes
<1> QED BY <1>1, <1>2, <1>3

(* What is kept of a client is the end of what it was granted, and all of it *)
(* that is in the window, after any refusals and evictions                   *)
(* (SlidingWindowRateLimiter).                                               *)
THEOREM LimiterInvariance == AdmissionSpec => []LimiterInv
BY LimiterInitInv, LimiterStepsKeepInv, PTL DEF AdmissionSpec

-----------------------------------------------------------------------------
(***************************************************************************)
(* The gate, for any number of clients and sockets.                        *)
(***************************************************************************)

Connections == [host : Hosts, at : {"acquired", "accepted", "refused", "open", "gone"}]

GateInv ==
    /\ active \in [Hosts -> 0 .. MaxPerHost]
    /\ socket \in [Sockets -> {Unconnected} \cup Connections]
    /\ LivingAreCounted

LEMMA GateInitInv == AdmissionInit => GateInv
<1> SUFFICES ASSUME AdmissionInit PROVE GateInv
  OBVIOUS
<1>1. \A h \in Hosts : Living(h) = {}
  BY DEF AdmissionInit, Living, Unconnected
<1>2. active \in [Hosts -> 0 .. MaxPerHost]
  BY AdmissionAssumption DEF AdmissionInit
<1>3. socket \in [Sockets -> {Unconnected} \cup Connections]
  BY DEF AdmissionInit
<1>4. \A h \in Hosts : active[h] = 0 /\ Cardinality(Living(h)) = 0
  BY <1>1, FS_EmptySet DEF AdmissionInit
<1> QED BY <1>2, <1>3, <1>4 DEF GateInv, LivingAreCounted

\* A client's living sockets can be counted.
LEMMA LivingAreFinite ==
    ASSUME NEW h \in Hosts
    PROVE  IsFiniteSet(Living(h)) /\ Cardinality(Living(h)) \in Nat
BY FS_Subset, FS_CardinalityType, AdmissionAssumption DEF Living

LEMMA AcquiresKeepsInv ==
    ASSUME GateInv, NEW s \in Sockets, NEW h \in Hosts, Acquires(s, h)
    PROVE  GateInv'
<1>1. /\ active \in [Hosts -> 0 .. MaxPerHost] /\ active[h] < MaxPerHost
      /\ active' = [active EXCEPT ![h] = @ + 1]
      /\ socket \in [Sockets -> {Unconnected} \cup Connections] /\ socket[s].at \in {"none", "gone"}
      /\ socket' = [socket EXCEPT ![s] = [host |-> h, at |-> "acquired"]]
  BY DEF GateInv, Acquires
<1>2. active' \in [Hosts -> 0 .. MaxPerHost]
  BY <1>1, AdmissionAssumption
<1>3. socket' \in [Sockets -> {Unconnected} \cup Connections]
  BY <1>1 DEF Connections
<1>4. ASSUME NEW c \in Hosts PROVE Cardinality(Living(c)') <= active'[c]
  <2>1. Cardinality(Living(c)) <= active[c] /\ active[c] \in Nat
    BY <1>1 DEF GateInv, LivingAreCounted
  <2>2. CASE c = h
    <3>1. Living(c)' = Living(c) \cup {s}
      BY <1>1, <2>2 DEF Living
    <3>2. Cardinality(Living(c) \cup {s}) <= Cardinality(Living(c)) + 1
      BY LivingAreFinite, FS_AddElement
    <3>3. active'[c] = active[c] + 1
      BY <1>1, <2>2
    <3>4. Cardinality(Living(c) \cup {s}) \in Nat
      BY LivingAreFinite, FS_AddElement, FS_CardinalityType
    <3> QED BY <2>1, <3>1, <3>2, <3>3, <3>4, LivingAreFinite
  <2>3. CASE c # h
    <3>1. Living(c)' = Living(c)
      BY <1>1, <2>3 DEF Living
    <3> QED BY <1>1, <2>1, <2>3, <3>1
  <2> QED BY <2>2, <2>3
<1> QED BY <1>2, <1>3, <1>4 DEF GateInv, LivingAreCounted

\* A socket that stays, or goes without the gate being told.
LEMMA StayingKeepsInv ==
    ASSUME GateInv, NEW s \in Sockets, NEW at \in {"accepted", "refused", "open", "gone"},
           socket[s].at \notin {"none", "gone"}, socket' = [socket EXCEPT ![s].at = at],
           UNCHANGED active
    PROVE  GateInv'
<1>1. socket[s] \in Connections
  BY DEF GateInv, Unconnected
<1>2. /\ socket' = [socket EXCEPT ![s] = [socket[s] EXCEPT !.at = at]]
      /\ [socket[s] EXCEPT !.at = at] \in Connections
      /\ [socket[s] EXCEPT !.at = at].host = socket[s].host
  BY <1>1 DEF Connections
<1>3. socket' \in [Sockets -> {Unconnected} \cup Connections]
  BY <1>2 DEF GateInv
<1>4. \A c \in Hosts : Living(c)' \subseteq Living(c)
  BY <1>2 DEF Living, GateInv
<1>5. ASSUME NEW c \in Hosts PROVE Cardinality(Living(c)') <= active'[c]
  <2>1. /\ Cardinality(Living(c)) <= active[c] /\ active[c] \in Nat
        /\ Cardinality(Living(c)') <= Cardinality(Living(c)) /\ Cardinality(Living(c)') \in Nat
    BY <1>4, LivingAreFinite, FS_Subset, FS_CardinalityType DEF GateInv, LivingAreCounted
  <2> QED BY <2>1, LivingAreFinite
<1> QED BY <1>3, <1>5 DEF GateInv, LivingAreCounted

LEMMA ClosingKeepsInv ==
    ASSUME GateInv, NEW s \in Sockets, socket[s].at \in {"refused", "open"},
           FreesSlot(socket[s].host), socket' = [socket EXCEPT ![s].at = "gone"]
    PROVE  GateInv'
<1> DEFINE h == socket[s].host
<1>1. socket[s] \in Connections /\ h \in Hosts
  BY DEF GateInv, Unconnected, Connections
<1>2. /\ socket' = [socket EXCEPT ![s] = [socket[s] EXCEPT !.at = "gone"]]
      /\ [socket[s] EXCEPT !.at = "gone"] \in Connections
      /\ [socket[s] EXCEPT !.at = "gone"].at = "gone"
  BY <1>1 DEF Connections
<1>3. socket' \in [Sockets -> {Unconnected} \cup Connections]
  BY <1>2 DEF GateInv
<1>4. /\ active \in [Hosts -> 0 .. MaxPerHost]
      /\ active' = [active EXCEPT ![h] = IF @ > 0 THEN @ - 1 ELSE 0]
  BY DEF GateInv, FreesSlot
<1>5. active' \in [Hosts -> 0 .. MaxPerHost]
  BY <1>1, <1>4, AdmissionAssumption
<1>6. ASSUME NEW c \in Hosts PROVE Cardinality(Living(c)') <= active'[c]
  <2>1. /\ Cardinality(Living(c)) <= active[c] /\ active[c] \in Nat
        /\ IsFiniteSet(Living(c)) /\ Cardinality(Living(c)) \in Nat
    BY <1>4, LivingAreFinite DEF GateInv, LivingAreCounted
  <2>2. CASE c = h
    <3>1. s \in Living(c) /\ Living(c)' = Living(c) \ {s}
      BY <1>2, <2>2 DEF Living, GateInv
    <3>2. Cardinality(Living(c)') = Cardinality(Living(c)) - 1
      BY <2>1, <3>1, FS_RemoveElement
    <3>3. Cardinality(Living(c)') \in Nat
      BY <2>1, <3>1, FS_RemoveElement, FS_CardinalityType
    <3>4. active'[c] = IF active[c] > 0 THEN active[c] - 1 ELSE 0
      BY <1>4, <2>2
    <3> QED BY <2>1, <3>2, <3>3, <3>4
  <2>3. CASE c # h
    <3>1. Living(c)' = Living(c) /\ active'[c] = active[c]
      BY <1>2, <1>4, <2>3 DEF Living, GateInv
    <3> QED BY <2>1, <3>1
  <2> QED BY <2>2, <2>3
<1> QED BY <1>3, <1>5, <1>6 DEF GateInv, LivingAreCounted

LEMMA GateStepsKeepInv == GateInv /\ [AdmissionNext]_admissionVars => GateInv'
<1> SUFFICES ASSUME GateInv, [AdmissionNext]_admissionVars PROVE GateInv'
  OBVIOUS
<1>1. ASSUME NEW s \in Sockets, NEW h \in Hosts, Acquires(s, h)
      PROVE  GateInv'
  BY <1>1, AcquiresKeepsInv
<1>2. ASSUME NEW s \in Sockets, Accepts(s) \/ BreaksEarly(s)
      PROVE  GateInv'
  <2>1. PICK at \in {"accepted", "refused", "open", "gone"} : socket' = [socket EXCEPT ![s].at = at]
    BY <1>2 DEF Accepts, BreaksEarly
  <2>2. UNCHANGED active /\ socket[s].at \notin {"none", "gone"}
    BY <1>2 DEF Accepts, BreaksEarly
  <2> QED BY <2>1, <2>2, StayingKeepsInv
<1>3. ASSUME NEW s \in Sockets, ClosesRefused(s) \/ Closes(s)
      PROVE  GateInv'
  BY <1>3, ClosingKeepsInv DEF ClosesRefused, Closes
<1>4. ASSUME UNCHANGED <<active, socket>>
      PROVE  GateInv'
  BY <1>4 DEF GateInv, LivingAreCounted, Living
<1>5. CASE Ticks \/ UNCHANGED admissionVars \/ \E h \in Hosts : Allows(h) \/ Refuses(h)
  BY <1>4, <1>5 DEF Ticks, admissionVars, Allows, Refuses
<1> QED BY <1>1, <1>2, <1>3, <1>5 DEF AdmissionNext

(* Every living socket is counted under its client's address, whichever of   *)
(* the three places tells the gate of its end (ConnectionGate, chat_ws).     *)
THEOREM GateInvariance == AdmissionSpec => []GateInv
BY GateInitInv, GateStepsKeepInv, PTL DEF AdmissionSpec

(* The state of the limiter and the gate keeps its type.                     *)
THEOREM AdmissionTypeCorrect == AdmissionSpec => []AdmissionTypeOK
<1> SUFFICES ASSUME LimiterInv, GateInv PROVE AdmissionTypeOK
  BY LimiterInvariance, GateInvariance, PTL
<1>1. ASSUME NEW h \in Hosts PROVE hits[h] \in Seq(0 .. now) /\ granted[h] \in Seq(0 .. now)
  <2>1. /\ hits[h] \in Seq(Nat) /\ granted[h] \in Seq(Nat) /\ now \in Nat
        /\ Len(hits[h]) \in Nat /\ Len(granted[h]) \in Nat /\ Len(hits[h]) <= Len(granted[h])
    BY LenProperties, AdmissionAssumption DEF LimiterInv, IsRemembered
  <2>2. \A i \in 1 .. Len(granted[h]) : granted[h][i] \in 0 .. now
    BY <2>1, ElementOfSeq DEF LimiterInv
  <2>3. \A i \in 1 .. Len(hits[h]) : hits[h][i] \in 0 .. now
    <3> TAKE i \in 1 .. Len(hits[h])
    <3>1. \A a, b \in Nat : a <= b => \A j \in 1 .. a : (b - a) + j \in 1 .. b
      OBVIOUS
    <3>2. Forgotten(h) + i \in 1 .. Len(granted[h])
      BY <2>1, <3>1 DEF Forgotten
    <3> QED BY <2>2, <3>2 DEF LimiterInv, IsRemembered
  <2> QED BY <2>1, <2>2, <2>3, SeqOfElements
<1> QED BY <1>1 DEF LimiterInv, GateInv, AdmissionTypeOK, Connections

-----------------------------------------------------------------------------
(***************************************************************************)
(* The sandbox pool, for any number of sessions, threads, containers and   *)
(* restarts of the backend.                                                *)
(*                                                                         *)
(* That no container is lost needs to know who holds it: the pool for its  *)
(* session, or one thread that starts or stops it, never two of them; and  *)
(* that a process which has not pruned yet holds none.                     *)
(***************************************************************************)

Live(b) == Exists(b) /\ ~boxes[b].stray
Works(t) == thread[t].pc \in {"starts", "stops"}

LockIsHeld == \A t \in Threads : poolLock = t <=> thread[t].pc = "starts"

Serves ==
    /\ serving <=> docker # "unchecked"
    /\ ~serving => (\A s \in Sessions : pool[s] = 0) /\ \A t \in Threads : thread[t] = Idle

PoolAgrees ==
    \A s \in Sessions : pool[s] # 0 =>
        /\ boxes[pool[s]].of = s /\ boxes[pool[s]].era = restarts
        /\ \A t \in Threads : Works(t) => thread[t].box # pool[s]

WorkAgrees ==
    \A t \in Threads :
        /\ thread[t].pc = "wants" => thread[t].of \in Sessions
        /\ Works(t) => /\ thread[t].box \in Boxes /\ boxes[thread[t].box].of = thread[t].of
                       /\ boxes[thread[t].box].era = restarts
        /\ thread[t].pc = "starts" =>
              /\ pool[thread[t].of] = 0
              /\ \A u \in Threads : thread[u].pc = "stops" => thread[u].box # thread[t].box

NoneLost == \A b \in Boxes : Live(b) /\ boxes[b].era = restarts => Held(b)

ErasAgree ==
    \A b \in Boxes :
        boxes[b].era <= restarts /\ (docker = "here" /\ Live(b) => boxes[b].era = restarts)

BoxInv ==
    /\ BoxTypeOK /\ LockIsHeld /\ Serves
    /\ PoolAgrees /\ WorkAgrees /\ NoneLost /\ ErasAgree

\* What the type says of the containers and of those who hold them.
LEMMA BoxTypes ==
    ASSUME BoxTypeOK
    PROVE  /\ Cardinality(Boxes) \in 0 .. MaxBoxes /\ Boxes = 1 .. Cardinality(Boxes)
           /\ boxes \in [Boxes -> Containers]
           /\ pool \in [Sessions -> {0} \cup Boxes] /\ 0 \notin Boxes
           /\ thread \in [Threads -> [pc : {"idle", "wants", "starts", "stops", "asks"},
                                      of : Sessions \cup {"none"}, box : {0} \cup Boxes]]
           /\ restarts \in Nat
<1>1. PICK n \in 0 .. MaxBoxes : boxes \in [1 .. n -> Containers]
  BY DEF BoxTypeOK
<1>2. Boxes = 1 .. n
  BY <1>1 DEF Boxes
<1>3. Cardinality(Boxes) = n
  BY <1>2, FS_Interval, BoxAssumption
<1> QED BY <1>1, <1>2, <1>3, BoxAssumption DEF BoxTypeOK

\* One thread that neither starts nor stops a container, before or after.
LEMMA StrollingKeepsInv ==
    ASSUME BoxInv, NEW t \in Threads, NEW where,
           where \in [pc : {"idle", "wants", "asks"}, of : Sessions \cup {"none"},
                      box : {0} \cup Boxes],
           where.pc = "wants" => where.of \in Sessions, where = Idle \/ serving,
           ~Works(t), Goes(t, where), reports' \in [Sessions -> 0 .. Uncached],
           UNCHANGED <<serving, docker, boxes, pool, poolLock, restarts>>
    PROVE  BoxInv'
<1>1. /\ thread' = [thread EXCEPT ![t] = where] /\ thread'[t] = where
      /\ thread \in [Threads -> [pc : {"idle", "wants", "starts", "stops", "asks"},
                                 of : Sessions \cup {"none"}, box : {0} \cup Boxes]]
  BY BoxTypes DEF BoxInv, Goes
<1>2. /\ Boxes' = Boxes /\ \A b \in Boxes : (Live(b)' <=> Live(b)) /\ Uncached' = Uncached
      /\ ~Works(t)' /\ \A u \in Threads : u # t => thread'[u] = thread[u]
  BY <1>1 DEF Boxes, Live, Exists, Works, Uncached
<1>3. BoxTypeOK'
  BY <1>1, <1>2 DEF BoxInv, BoxTypeOK
<1>4. LockIsHeld'
  BY <1>1, <1>2 DEF BoxInv, LockIsHeld, Works
<1>5. Serves'
  BY <1>1, <1>2 DEF BoxInv, Serves
<1>6. PoolAgrees'
  BY <1>1, <1>2 DEF BoxInv, PoolAgrees, Works
<1>7. WorkAgrees'
  BY <1>1, <1>2 DEF BoxInv, WorkAgrees, Works
<1>8. NoneLost'
  BY <1>1, <1>2 DEF BoxInv, NoneLost, Held, Works
<1>9. ErasAgree'
  BY <1>2 DEF BoxInv, ErasAgree
<1> QED BY <1>3, <1>4, <1>5, <1>6, <1>7, <1>8, <1>9 DEF BoxInv

\* Containers that only change how they are, or go: none of another session or
\* another process, and none comes back.
Weathers ==
    /\ boxes' \in [Boxes -> Containers]
    /\ \A b \in Boxes : /\ boxes'[b].of = boxes[b].of /\ boxes'[b].era = boxes[b].era
                        /\ Live(b)' => Live(b)

LEMMA WeatheringKeepsInv ==
    ASSUME BoxInv, Weathers, UNCHANGED <<serving, docker, pool, poolLock, thread, reports, restarts>>
    PROVE  BoxInv'
<1>1. PICK n \in 0 .. MaxBoxes : boxes \in [1 .. n -> Containers]
  BY DEF BoxInv, BoxTypeOK
<1>2. Boxes' = Boxes /\ Boxes = 1 .. n
  BY <1>1 DEF Weathers, Boxes
<1>3. BoxTypeOK'
  BY <1>2 DEF BoxInv, BoxTypeOK, Weathers, Uncached
<1>4. LockIsHeld' /\ Serves'
  BY DEF BoxInv, LockIsHeld, Serves
<1>5. PoolAgrees'
  <2> SUFFICES ASSUME NEW s \in Sessions, pool[s] # 0
               PROVE  /\ boxes'[pool[s]].of = s /\ boxes'[pool[s]].era = restarts
                      /\ \A t \in Threads : Works(t) => thread[t].box # pool[s]
    BY DEF PoolAgrees, Works
  <2>1. pool[s] \in Boxes
    BY BoxTypes DEF BoxInv
  <2>2. boxes'[pool[s]].of = boxes[pool[s]].of /\ boxes'[pool[s]].era = boxes[pool[s]].era
    BY <2>1 DEF Weathers
  <2> QED BY <2>2 DEF BoxInv, PoolAgrees
<1>6. WorkAgrees'
  <2>1. \A t \in Threads : Works(t)' <=> Works(t)
    BY DEF Works
  <2>2. \A b \in Boxes : boxes'[b].of = boxes[b].of /\ boxes'[b].era = boxes[b].era
    BY DEF Weathers
  <2> QED BY <1>2, <2>1, <2>2 DEF BoxInv, WorkAgrees
<1>7. NoneLost'
  <2>1. \A b \in Boxes : Held(b)' <=> Held(b)
    BY DEF Held
  <2>2. \A b \in Boxes : boxes'[b].era = boxes[b].era /\ (Live(b)' => Live(b))
    BY DEF Weathers
  <2> QED BY <1>2, <2>1, <2>2 DEF BoxInv, NoneLost
<1>8. ErasAgree'
  <2>1. \A b \in Boxes : boxes'[b].era = boxes[b].era /\ (Live(b)' => Live(b))
    BY DEF Weathers
  <2> QED BY <1>2, <2>1 DEF BoxInv, ErasAgree
<1> QED BY <1>3, <1>4, <1>5, <1>6, <1>7, <1>8 DEF BoxInv

\* Nothing happens to the containers.
LEMMA StayingWeathers ==
    ASSUME BoxInv, UNCHANGED boxes PROVE Weathers
BY BoxTypes DEF BoxInv, Weathers, Live, Exists

\* The daemon in a container dies or comes up.
LEMMA ChangingWeathers ==
    ASSUME BoxInv, NEW c \in Boxes, Changes(c) PROVE Weathers
<1>1. boxes \in [Boxes -> Containers]
  BY BoxTypes DEF BoxInv
<1>2. PICK state \in {"up", "mute"} :
        boxes' = [boxes EXCEPT ![c] = [boxes[c] EXCEPT !.state = state]]
  BY DEF Changes
<1>3. boxes[c].state # "gone"
  BY DEF Changes
<1>4. boxes[c] \in Containers
  BY <1>1
<1>5. [boxes[c] EXCEPT !.state = state] \in Containers
  BY <1>4 DEF Containers
<1>6. boxes' \in [Boxes -> Containers]
  BY <1>1, <1>2, <1>5
<1>7. ASSUME NEW b \in Boxes
      PROVE  boxes'[b].of = boxes[b].of /\ boxes'[b].era = boxes[b].era /\ (Live(b)' => Live(b))
  <2>1. CASE b = c
    BY <1>1, <1>2, <1>3, <1>4, <2>1 DEF Containers, Live, Exists
  <2>2. CASE b # c
    BY <1>1, <1>2, <2>2 DEF Live, Exists
  <2> QED BY <2>1, <2>2
<1> QED BY <1>6, <1>7 DEF Weathers

\* The next process holds nothing, and what there is was an earlier one's.
LEMMA NewProcessKeepsInv ==
    ASSUME BoxInv, NewProcess, Weathers PROVE BoxInv'
<1>1. PICK n \in 0 .. MaxBoxes : boxes \in [1 .. n -> Containers]
  BY DEF BoxInv, BoxTypeOK
<1>2. Boxes' = Boxes /\ Boxes = 1 .. n /\ Uncached' = Uncached
  BY <1>1 DEF Weathers, Boxes, Uncached
<1>3. restarts \in Nat /\ restarts' = restarts + 1 /\ restarts' \in 0 .. MaxRestarts
  BY BoxAssumption DEF BoxInv, BoxTypeOK, NewProcess
<1>4. /\ \A s \in Sessions : pool'[s] = 0
      /\ \A t \in Threads : thread'[t] = Idle /\ thread'[t].pc = "idle"
      /\ serving' = FALSE /\ docker' = "unchecked" /\ poolLock' = "none"
  BY DEF NewProcess, Idle
<1>5. BoxTypeOK'
  <2>1. /\ thread' \in [Threads -> [pc : {"idle", "wants", "starts", "stops", "asks"},
                                   of : Sessions \cup {"none"}, box : {0} \cup Boxes]]
        /\ pool' \in [Sessions -> {0} \cup Boxes]
    BY DEF NewProcess, Idle
  <2>2. reports' \in [Sessions -> 0 .. Uncached]
    BY BoxAssumption DEF NewProcess, Uncached
  <2>3. boxes' \in [1 .. n -> Containers]
    BY <1>2 DEF Weathers
  <2> QED BY <1>2, <1>3, <1>4, <2>1, <2>2, <2>3 DEF BoxTypeOK
<1>6. LockIsHeld' /\ Serves'
  BY <1>4, BoxAssumption DEF LockIsHeld, Serves
<1>7. PoolAgrees' /\ WorkAgrees'
  BY <1>4 DEF PoolAgrees, WorkAgrees, Works
<1>8. \A b \in Boxes : boxes'[b].era <= restarts /\ boxes'[b].era \in Nat
  <2> TAKE b \in Boxes
  <2>1. boxes'[b].era = boxes[b].era /\ boxes[b].era <= restarts
    BY DEF Weathers, BoxInv, ErasAgree
  <2>2. boxes[b] \in Containers
    BY <1>1, <1>2
  <2> QED BY <2>1, <2>2 DEF Containers
<1>9. NoneLost' /\ ErasAgree'
  BY <1>2, <1>3, <1>4, <1>8 DEF NoneLost, ErasAgree
<1> QED BY <1>5, <1>6, <1>7, <1>9 DEF BoxInv

\* All that a process's shutdown does to the containers.
LEMMA ShutdownWeathers ==
    ASSUME BoxInv, ShutsDown PROVE Weathers
<1>1. PICK left \in SUBSET {pool[s] : s \in Sessions} :
        boxes' = [b \in Boxes |->
                    IF \A s \in Sessions : pool[s] # b THEN boxes[b]
                    ELSE IF b \in left THEN [boxes[b] EXCEPT !.stray = TRUE]
                    ELSE [boxes[b] EXCEPT !.state = "gone"]]
  BY DEF ShutsDown
<1>2. boxes \in [Boxes -> Containers]
  BY BoxTypes DEF BoxInv
<1>3. ASSUME NEW b \in Boxes
      PROVE  /\ boxes'[b] \in Containers
             /\ boxes'[b].of = boxes[b].of /\ boxes'[b].era = boxes[b].era /\ (Live(b)' => Live(b))
  <2>1. boxes[b] \in Containers
    BY <1>2
  <2>2. \/ boxes'[b] = boxes[b]
        \/ boxes'[b] = [boxes[b] EXCEPT !.stray = TRUE]
        \/ boxes'[b] = [boxes[b] EXCEPT !.state = "gone"]
    BY <1>1
  <2> QED BY <2>1, <2>2 DEF Containers, Live, Exists
<1> QED BY <1>1, <1>3 DEF Weathers

\* A process that has not served yet removes what it finds, or must leave it.
LEMMA PruningKeepsInv ==
    ASSUME BoxInv, Prunes PROVE BoxInv'
<1>1. PICK left \in SUBSET {b \in Boxes : Exists(b)} :
        boxes' = [b \in Boxes |->
                    IF b \in left THEN [boxes[b] EXCEPT !.stray = TRUE]
                    ELSE [boxes[b] EXCEPT !.state = "gone"]]
  BY DEF Prunes
<1>2. PICK n \in 0 .. MaxBoxes : boxes \in [1 .. n -> Containers]
  BY DEF BoxInv, BoxTypeOK
<1>3. Boxes' = Boxes /\ Boxes = 1 .. n /\ Uncached' = Uncached
  BY <1>1, <1>2 DEF Boxes, Uncached
<1>4. ASSUME NEW b \in Boxes
      PROVE  boxes'[b] \in Containers /\ boxes'[b].era = boxes[b].era /\ ~Live(b)'
  <2>1. boxes[b] \in Containers
    BY <1>2, <1>3
  <2>2. \/ boxes'[b] = [boxes[b] EXCEPT !.stray = TRUE]
        \/ boxes'[b] = [boxes[b] EXCEPT !.state = "gone"]
    BY <1>1
  <2> QED BY <2>1, <2>2 DEF Containers, Live, Exists
<1>5. /\ UNCHANGED <<pool, poolLock, thread, reports, restarts>>
      /\ serving' /\ docker' = "here" /\ ~serving
  BY DEF Prunes
<1>6. BoxTypeOK'
  <2>1. boxes' \in [1 .. n -> Containers]
    BY <1>1, <1>3, <1>4
  <2> QED BY <1>3, <1>5, <2>1 DEF BoxTypeOK, BoxInv
<1>7. LockIsHeld'
  BY <1>5 DEF BoxInv, LockIsHeld
<1>8. Serves'
  BY <1>5 DEF Serves
<1>9. (\A s \in Sessions : pool'[s] = 0) /\ \A t \in Threads : thread'[t].pc = "idle"
  BY <1>5 DEF BoxInv, Serves, Idle
<1>10. PoolAgrees' /\ WorkAgrees'
  BY <1>9 DEF PoolAgrees, WorkAgrees, Works
<1>11. NoneLost' /\ ErasAgree'
  BY <1>3, <1>4, <1>5 DEF BoxInv, NoneLost, ErasAgree
<1> QED BY <1>6, <1>7, <1>8, <1>10, <1>11 DEF BoxInv

\* Docker does not answer: nothing is held, and nothing is asked of it again.
LEMMA ServingWithoutKeepsInv ==
    ASSUME BoxInv, ServesWithout PROVE BoxInv'
<1>1. /\ UNCHANGED <<boxes, pool, poolLock, thread, reports, restarts>>
      /\ serving' = TRUE /\ docker' = "absent"
  BY DEF ServesWithout
<1>2. BoxTypeOK'
  BY <1>1 DEF BoxInv, BoxTypeOK, Boxes, Uncached
<1>3. Boxes' = Boxes /\ (\A b \in Boxes : (Live(b)' <=> Live(b)) /\ (Held(b)' <=> Held(b)))
      /\ \A t \in Threads : Works(t)' <=> Works(t)
  BY <1>1 DEF Boxes, Live, Exists, Held, Works
<1>4. LockIsHeld' /\ Serves'
  BY <1>1 DEF BoxInv, LockIsHeld, Serves
<1>5. PoolAgrees' /\ WorkAgrees'
  BY <1>1, <1>3 DEF BoxInv, PoolAgrees, WorkAgrees
<1>6. NoneLost' /\ ErasAgree'
  BY <1>1, <1>3 DEF BoxInv, NoneLost, ErasAgree
<1> QED BY <1>2, <1>4, <1>5, <1>6 DEF BoxInv

\* A container more, of whoever asked and of this process.
LEMMA CreationAddsOne ==
    ASSUME BoxInv, NEW t \in Threads, thread[t].pc = "wants", NEW stray \in BOOLEAN,
           Created(t, stray), NEW new, new = Cardinality(Boxes) + 1
    PROVE  /\ new \in 1 .. MaxBoxes /\ new \notin Boxes /\ new # 0
           /\ Boxes' = Boxes \cup {new} /\ Boxes' = 1 .. new
           /\ boxes' \in [1 .. new -> Containers]
           /\ \A b \in Boxes : boxes'[b] = boxes[b]
           /\ boxes'[new] = [of |-> thread[t].of, state |-> "created", stray |-> stray,
                             era |-> restarts]
<1>1. PICK n \in 0 .. MaxBoxes : boxes \in [1 .. n -> Containers]
  BY DEF BoxInv, BoxTypeOK
<1>2. Boxes = 1 .. n /\ n = Cardinality(Boxes)
  <2>1. Boxes = 1 .. n
    BY <1>1 DEF Boxes
  <2> QED BY <2>1, FS_Interval, BoxAssumption
<1>3. n < MaxBoxes
  BY <1>2 DEF Created
<1>4. boxes' = [b \in 1 .. new |->
                  IF b \in Boxes THEN boxes[b]
                  ELSE [of |-> thread[t].of, state |-> "created", stray |-> stray,
                        era |-> restarts]]
  BY DEF Created
<1>5. new = n + 1 /\ new \in 1 .. MaxBoxes /\ new \notin Boxes /\ Boxes \cup {new} = 1 .. new
  BY <1>2, <1>3, BoxAssumption
<1>6. Boxes' = 1 .. new
  BY <1>4 DEF Boxes
<1>7. [of |-> thread[t].of, state |-> "created", stray |-> stray, era |-> restarts] \in Containers
  BY DEF BoxInv, BoxTypeOK, WorkAgrees, Containers
<1>8. boxes' \in [1 .. new -> Containers]
  BY <1>1, <1>2, <1>4, <1>7
<1>9. \A b \in Boxes : boxes'[b] = boxes[b]
  BY <1>4, <1>5
<1>10. boxes'[new] = [of |-> thread[t].of, state |-> "created", stray |-> stray, era |-> restarts]
  BY <1>4, <1>5
<1>11. new # 0 /\ Boxes' = Boxes \cup {new}
  BY <1>5, <1>6
<1> QED BY <1>5, <1>6, <1>8, <1>9, <1>10, <1>11

\* The run of a container succeeds: the thread that holds the lock has it.
LEMMA RunningKeepsInv ==
    ASSUME BoxInv, NEW t \in Threads, Runs(t) PROVE BoxInv'
<1>0. PICK new : new = Cardinality(Boxes) + 1
  OBVIOUS
<1>1. /\ thread[t].pc = "wants" /\ poolLock = "none" /\ pool[thread[t].of] = 0
      /\ poolLock' = t /\ thread[t].of \in Sessions
      /\ thread' = [thread EXCEPT ![t] = [thread[t] EXCEPT !.pc = "starts", !.box = new]]
      /\ UNCHANGED <<serving, docker, pool, reports, restarts>>
  BY <1>0 DEF Runs, Goes, BoxInv, WorkAgrees
<1>2. /\ new \in 1 .. MaxBoxes /\ new \notin Boxes /\ new # 0
      /\ Boxes' = Boxes \cup {new} /\ Boxes' = 1 .. new
      /\ boxes' \in [1 .. new -> Containers]
      /\ \A b \in Boxes : boxes'[b] = boxes[b]
      /\ boxes'[new] = [of |-> thread[t].of, state |-> "created", stray |-> FALSE,
                        era |-> restarts]
  BY <1>0, <1>1, CreationAddsOne DEF Runs
<1>3. /\ thread \in [Threads -> [pc : {"idle", "wants", "starts", "stops", "asks"},
                                 of : Sessions \cup {"none"}, box : {0} \cup Boxes]]
      /\ pool \in [Sessions -> {0} \cup Boxes] /\ 0 \notin Boxes /\ restarts \in Nat
  BY BoxTypes DEF BoxInv
<1>4. /\ thread'[t] = [pc |-> "starts", of |-> thread[t].of, box |-> new]
      /\ \A u \in Threads : u # t => thread'[u] = thread[u]
      /\ \A u \in Threads : thread[u].pc # "starts"
      /\ thread[t].pc # "idle" /\ serving
  <2>1. \A u \in Threads : thread[u].pc # "starts"
    BY <1>1, BoxAssumption DEF BoxInv, LockIsHeld
  <2>2. serving
    BY <1>1 DEF BoxInv, Serves, Idle
  <2> QED BY <1>1, <1>3, <2>1, <2>2
<1>5. BoxTypeOK'
  <2>1. thread'[t] \in [pc : {"idle", "wants", "starts", "stops", "asks"},
                        of : Sessions \cup {"none"}, box : {0} \cup Boxes']
    <3>1. new \in Boxes' /\ thread[t].of \in Sessions
      BY <1>1, <1>2
    <3> QED BY <1>4, <3>1
  <2>2. \A u \in Threads : thread'[u] \in [pc : {"idle", "wants", "starts", "stops", "asks"},
                                           of : Sessions \cup {"none"}, box : {0} \cup Boxes']
    BY <1>2, <1>3, <1>4, <2>1
  <2>3. thread' \in [Threads -> [pc : {"idle", "wants", "starts", "stops", "asks"},
                                 of : Sessions \cup {"none"}, box : {0} \cup Boxes']]
    BY <1>1, <1>3, <2>2
  <2>4. pool' \in [Sessions -> {0} \cup Boxes'] /\ new \in 0 .. MaxBoxes
    BY <1>1, <1>2, <1>3, BoxAssumption
  <2> QED BY <1>1, <1>2, <2>3, <2>4 DEF BoxInv, BoxTypeOK, Uncached
<1>6. LockIsHeld'
  BY <1>1, <1>4 DEF BoxInv, LockIsHeld
<1>7. Serves'
  BY <1>1, <1>4 DEF BoxInv, Serves
<1>8. \A u \in Threads : u # t => (Works(u)' <=> Works(u)) /\ (Works(u) => thread[u].box \in Boxes)
  BY <1>4 DEF Works, BoxInv, WorkAgrees
<1>9. PoolAgrees'
  <2> SUFFICES ASSUME NEW s \in Sessions, pool[s] # 0
               PROVE  /\ boxes'[pool[s]].of = s /\ boxes'[pool[s]].era = restarts
                      /\ \A u \in Threads : Works(u)' => thread'[u].box # pool[s]
    BY <1>1 DEF PoolAgrees
  <2>1. pool[s] \in Boxes
    BY <1>3
  <2> QED BY <1>2, <1>4, <1>8, <2>1 DEF BoxInv, PoolAgrees
<1>10. WorkAgrees'
  <2>1. ASSUME NEW u \in Threads, u # t
        PROVE  /\ thread'[u].pc = "wants" => thread'[u].of \in Sessions
               /\ Works(u)' => /\ thread'[u].box \in Boxes'
                               /\ boxes'[thread'[u].box].of = thread'[u].of
                               /\ boxes'[thread'[u].box].era = restarts
               /\ thread'[u].pc # "starts"
    BY <1>2, <1>4, <1>8, <2>1 DEF BoxInv, WorkAgrees
  <2>2. /\ thread'[t].box \in Boxes' /\ boxes'[thread'[t].box].of = thread'[t].of
        /\ boxes'[thread'[t].box].era = restarts /\ thread'[t].pc = "starts"
        /\ pool[thread'[t].of] = 0
        /\ \A u \in Threads : thread'[u].pc = "stops" => thread'[u].box # thread'[t].box
    BY <1>1, <1>2, <1>4, <1>8 DEF Works
  <2> QED BY <1>1, <2>1, <2>2 DEF WorkAgrees
<1>11. NoneLost'
  <2>1. Held(new)'
    BY <1>4 DEF Held
  <2>2. ASSUME NEW b \in Boxes, Live(b)', boxes'[b].era = restarts
        PROVE  Held(b)'
    <3>1. Live(b) /\ boxes[b].era = restarts
      BY <1>2, <2>2 DEF Live, Exists
    <3>2. Held(b)
      BY <3>1 DEF BoxInv, NoneLost
    <3> QED BY <1>1, <1>4, <3>2 DEF Held
  <2> QED BY <1>1, <1>2, <2>1, <2>2 DEF NoneLost
<1>12. ErasAgree'
  <2>1. ASSUME NEW b \in Boxes PROVE Live(b)' <=> Live(b)
    BY <1>2 DEF Live, Exists
  <2> QED BY <1>1, <1>2, <1>3, <2>1 DEF BoxInv, ErasAgree
<1> QED BY <1>5, <1>6, <1>7, <1>9, <1>10, <1>11, <1>12 DEF BoxInv

\* The run fails: nothing is left, or a container nobody has heard of.
LEMMA RunFailingKeepsInv ==
    ASSUME BoxInv, NEW t \in Threads, RunFails(t) PROVE BoxInv'
<1>0. PICK new : new = Cardinality(Boxes) + 1
  OBVIOUS
<1>1. /\ thread[t].pc = "wants" /\ serving
      /\ Goes(t, Idle) /\ thread' = [thread EXCEPT ![t] = Idle]
      /\ UNCHANGED <<serving, docker, pool, poolLock, reports, restarts>>
  BY DEF RunFails, Goes, BoxInv, Serves, Idle
<1>2. CASE UNCHANGED boxes
  BY <1>1, <1>2, StrollingKeepsInv DEF Works, Idle, BoxInv, BoxTypeOK
<1>3. CASE Created(t, TRUE)
  <2>1. /\ new \in 1 .. MaxBoxes /\ new \notin Boxes /\ new # 0
        /\ Boxes' = Boxes \cup {new} /\ Boxes' = 1 .. new
        /\ boxes' \in [1 .. new -> Containers]
        /\ \A b \in Boxes : boxes'[b] = boxes[b]
        /\ boxes'[new] = [of |-> thread[t].of, state |-> "created", stray |-> TRUE,
                          era |-> restarts]
    BY <1>0, <1>1, <1>3, CreationAddsOne
  <2>2. /\ thread \in [Threads -> [pc : {"idle", "wants", "starts", "stops", "asks"},
                                   of : Sessions \cup {"none"}, box : {0} \cup Boxes]]
        /\ pool \in [Sessions -> {0} \cup Boxes] /\ 0 \notin Boxes /\ restarts \in Nat
    BY BoxTypes DEF BoxInv
  <2>3. /\ thread'[t] = Idle /\ thread'[t].pc = "idle"
        /\ \A u \in Threads : u # t => thread'[u] = thread[u]
    BY <1>1, <2>2 DEF Idle
  <2>4. BoxTypeOK'
    <3>1. thread'[t] \in [pc : {"idle", "wants", "starts", "stops", "asks"},
                          of : Sessions \cup {"none"}, box : {0} \cup Boxes']
      BY <2>3 DEF Idle
    <3>2. \A u \in Threads : thread'[u] \in [pc : {"idle", "wants", "starts", "stops", "asks"},
                                             of : Sessions \cup {"none"}, box : {0} \cup Boxes']
      BY <2>1, <2>2, <2>3, <3>1
    <3>3. thread' \in [Threads -> [pc : {"idle", "wants", "starts", "stops", "asks"},
                                   of : Sessions \cup {"none"}, box : {0} \cup Boxes']]
      BY <1>1, <2>2, <3>2
    <3>4. pool' \in [Sessions -> {0} \cup Boxes'] /\ new \in 0 .. MaxBoxes
      BY <1>1, <2>1, <2>2, BoxAssumption
    <3> QED BY <1>1, <2>1, <3>3, <3>4 DEF BoxInv, BoxTypeOK, Uncached
  <2>5. \A u \in Threads : /\ (thread'[u].pc = "starts" <=> thread[u].pc = "starts")
                           /\ (Works(u)' <=> Works(u))
                           /\ (Works(u) => u # t)
    BY <1>1, <2>3 DEF Works
  <2>6. LockIsHeld' /\ Serves'
    BY <1>1, <2>5 DEF BoxInv, LockIsHeld, Serves
  <2>7. PoolAgrees'
    <3> SUFFICES ASSUME NEW s \in Sessions, pool[s] # 0
                 PROVE  /\ boxes'[pool[s]].of = s /\ boxes'[pool[s]].era = restarts
                        /\ \A u \in Threads : Works(u)' => thread'[u].box # pool[s]
      BY <1>1 DEF PoolAgrees
    <3>1. pool[s] \in Boxes
      BY <2>2
    <3> QED BY <2>1, <2>3, <2>5, <3>1 DEF BoxInv, PoolAgrees
  <2>8. WorkAgrees'
    <3>1. ASSUME NEW u \in Threads, u # t
          PROVE  /\ thread[u].pc = "wants" => thread[u].of \in Sessions
                 /\ Works(u) => /\ thread[u].box \in Boxes
                                /\ boxes'[thread[u].box].of = thread[u].of
                                /\ boxes'[thread[u].box].era = restarts
      BY <2>1 DEF BoxInv, WorkAgrees
    <3>2. ASSUME NEW u \in Threads, thread'[u].pc = "starts"
          PROVE  /\ pool[thread'[u].of] = 0
                 /\ \A v \in Threads : thread'[v].pc = "stops" => thread'[v].box # thread'[u].box
      <4>1. u # t
        BY <2>3, <3>2
      <4>2. \A v \in Threads : thread'[v].pc = "stops" => v # t
        BY <2>3
      <4> QED BY <2>3, <3>2, <4>1, <4>2 DEF BoxInv, WorkAgrees
    <3> QED BY <1>1, <2>1, <2>3, <2>5, <3>1, <3>2 DEF WorkAgrees
  <2>9. NoneLost' /\ ErasAgree'
    <3>1. ~Live(new)' /\ boxes'[new].era = restarts
      BY <2>1 DEF Live
    <3>2. \A b \in Boxes : Live(b)' <=> Live(b)
      BY <2>1 DEF Live, Exists
    <3>3. \A b \in Boxes : Held(b) => Held(b)'
      BY <1>1, <2>3 DEF Held
    <3>4. NoneLost'
      BY <1>1, <2>1, <3>1, <3>2, <3>3 DEF BoxInv, NoneLost
    <3>5. ASSUME NEW b \in Boxes'
          PROVE  boxes'[b].era <= restarts /\ (docker = "here" /\ Live(b)' => boxes'[b].era = restarts)
      <4>1. CASE b = new
        BY <2>2, <3>1, <4>1
      <4>2. CASE b \in Boxes
        BY <2>1, <3>2, <4>2 DEF BoxInv, ErasAgree
      <4> QED BY <2>1, <4>1, <4>2
    <3>6. ErasAgree'
      BY <1>1, <3>5 DEF ErasAgree
    <3> QED BY <3>4, <3>6
  <2> QED BY <2>4, <2>6, <2>7, <2>8, <2>9 DEF BoxInv
<1> QED BY <1>2, <1>3 DEF RunFails

\* A started container becomes its session's.
LEMMA RegisteringKeepsInv ==
    ASSUME BoxInv, NEW t \in Threads, Registers(t) PROVE BoxInv'
<1>0. PICK n \in 0 .. MaxBoxes : boxes \in [1 .. n -> Containers]
  BY DEF BoxInv, BoxTypeOK
<1>1. PICK c, s, state :
        /\ c = thread[t].box /\ s = thread[t].of /\ state \in {"up", "mute"}
        /\ thread[t].pc = "starts" /\ boxes' = [boxes EXCEPT ![c].state = state]
        /\ pool' = [pool EXCEPT ![s] = c] /\ poolLock' = "none"
        /\ thread' = [thread EXCEPT ![t] = Idle]
        /\ UNCHANGED <<serving, docker, reports, restarts>>
  <2>1. PICK state \in {"up", "mute"} : boxes' = [boxes EXCEPT ![thread[t].box].state = state]
    BY DEF Registers
  <2> QED BY <2>1 DEF Registers, Goes
<1>2. /\ thread \in [Threads -> [pc : {"idle", "wants", "starts", "stops", "asks"},
                                 of : Sessions \cup {"none"}, box : {0} \cup Boxes]]
      /\ pool \in [Sessions -> {0} \cup Boxes] /\ 0 \notin Boxes /\ restarts \in Nat
      /\ boxes \in [Boxes -> Containers] /\ Boxes = 1 .. n
  BY <1>0, BoxTypes DEF BoxInv, Boxes
<1>3. /\ c \in Boxes /\ boxes[c].of = s /\ boxes[c].era = restarts /\ s \in Sessions
      /\ pool[s] = 0 /\ \A u \in Threads : thread[u].pc = "stops" => thread[u].box # c
      /\ boxes[c] \in Containers /\ c # 0
  <2>1. /\ c \in Boxes /\ boxes[c].of = s /\ boxes[c].era = restarts /\ pool[s] = 0
        /\ \A u \in Threads : thread[u].pc = "stops" => thread[u].box # c
    BY <1>1 DEF BoxInv, WorkAgrees, Works
  <2> QED BY <1>2, <2>1 DEF Containers
<1>4. /\ Boxes' = Boxes /\ boxes' \in [Boxes -> Containers]
      /\ \A b \in Boxes : boxes'[b].of = boxes[b].of /\ boxes'[b].era = boxes[b].era
      /\ \A b \in Boxes : b # c => boxes'[b] = boxes[b]
      /\ Uncached' = Uncached
  <2>1. [boxes[c] EXCEPT !.state = state] \in Containers
    BY <1>1, <1>3 DEF Containers
  <2>2. boxes' = [boxes EXCEPT ![c] = [boxes[c] EXCEPT !.state = state]]
    BY <1>1
  <2>3. boxes' \in [Boxes -> Containers] /\ \A b \in Boxes : b # c => boxes'[b] = boxes[b]
    BY <1>2, <1>3, <2>1, <2>2
  <2>4. boxes'[c].of = boxes[c].of /\ boxes'[c].era = boxes[c].era
    BY <1>2, <1>3, <2>2 DEF Containers
  <2> QED BY <2>3, <2>4 DEF Boxes, Uncached
<1>5. /\ thread'[t].pc = "idle" /\ thread'[t] = Idle
      /\ \A u \in Threads : u # t => thread'[u] = thread[u] /\ thread[u].pc # "starts"
      /\ pool'[s] = c /\ \A r \in Sessions : r # s => pool'[r] = pool[r]
  BY <1>1, <1>2, <1>3 DEF Idle, BoxInv, LockIsHeld
<1>6. BoxTypeOK'
  <2>1. boxes' \in [1 .. n -> Containers]
    BY <1>2, <1>4
  <2>2. pool' \in [Sessions -> {0} \cup Boxes]
    BY <1>1, <1>2, <1>3
  <2>3. thread' \in [Threads -> [pc : {"idle", "wants", "starts", "stops", "asks"},
                                 of : Sessions \cup {"none"}, box : {0} \cup Boxes]]
    BY <1>1, <1>2 DEF Idle
  <2> QED BY <1>1, <1>4, <2>1, <2>2, <2>3 DEF BoxInv, BoxTypeOK
<1>7. serving
  BY <1>1 DEF BoxInv, Serves, Idle
<1>8. LockIsHeld' /\ Serves'
  BY <1>1, <1>5, <1>7, BoxAssumption DEF BoxInv, LockIsHeld, Serves
<1>9. \A u \in Threads : /\ Works(u)' <=> Works(u) /\ u # t
                         /\ Works(u)' => thread'[u] = thread[u] /\ thread[u].box # c
  BY <1>3, <1>5 DEF Works
<1>10. PoolAgrees'
  <2> SUFFICES ASSUME NEW r \in Sessions, pool'[r] # 0
               PROVE  /\ boxes'[pool'[r]].of = r /\ boxes'[pool'[r]].era = restarts
                      /\ \A u \in Threads : Works(u)' => thread'[u].box # pool'[r]
    BY <1>1 DEF PoolAgrees
  <2>1. CASE r = s
    BY <1>3, <1>4, <1>5, <1>9, <2>1
  <2>2. CASE r # s
    <3>1. pool'[r] = pool[r] /\ pool[r] \in Boxes
      BY <1>2, <1>5, <2>2
    <3> QED BY <1>4, <1>9, <3>1 DEF BoxInv, PoolAgrees
  <2> QED BY <2>1, <2>2
<1>11. WorkAgrees'
  <2>1. ASSUME NEW u \in Threads
        PROVE  /\ thread'[u].pc = "wants" => thread'[u].of \in Sessions
               /\ thread'[u].pc # "starts"
    BY <1>5 DEF BoxInv, WorkAgrees
  <2>2. ASSUME NEW u \in Threads, Works(u)'
        PROVE  /\ thread'[u].box \in Boxes /\ boxes'[thread'[u].box].of = thread'[u].of
               /\ boxes'[thread'[u].box].era = restarts
    BY <1>4, <1>9, <2>2 DEF BoxInv, WorkAgrees
  <2> QED BY <1>1, <1>4, <2>1, <2>2 DEF WorkAgrees
<1>12. NoneLost'
  <2> SUFFICES ASSUME NEW b \in Boxes, Live(b)', boxes'[b].era = restarts
               PROVE  Held(b)'
    BY <1>1, <1>4 DEF NoneLost
  <2>1. CASE b = c
    BY <1>3, <1>5, <2>1 DEF Held
  <2>2. CASE b # c
    <3>1. Live(b) /\ boxes[b].era = restarts
      BY <1>4, <2>2 DEF Live, Exists
    <3>2. Held(b)
      BY <3>1 DEF BoxInv, NoneLost
    <3>3. CASE \E r \in Sessions : pool[r] = b
      BY <1>2, <1>3, <1>5, <3>3 DEF Held
    <3>4. CASE \E u \in Threads : thread[u].pc \in {"starts", "stops"} /\ thread[u].box = b
      BY <1>1, <1>5, <2>2, <3>4 DEF Held
    <3> QED BY <3>2, <3>3, <3>4 DEF Held
  <2> QED BY <2>1, <2>2
<1>13. ErasAgree'
  <2> SUFFICES ASSUME NEW b \in Boxes
               PROVE  boxes'[b].era <= restarts /\ (docker = "here" /\ Live(b)' => boxes'[b].era = restarts)
    BY <1>1, <1>4 DEF ErasAgree
  <2>1. CASE b = c
    BY <1>2, <1>3, <1>4, <2>1
  <2>2. CASE b # c
    BY <1>4, <2>2 DEF BoxInv, ErasAgree, Live, Exists
  <2> QED BY <2>1, <2>2
<1> QED BY <1>6, <1>8, <1>10, <1>11, <1>12, <1>13 DEF BoxInv

\* A container that a thread has had is removed, or left behind unremoved.
LEMMA RemovingKeepsInv ==
    ASSUME BoxInv, NEW t \in Threads, Works(t), Removed(thread[t].box), Goes(t, Idle),
           reports' \in [Sessions -> 0 .. Uncached],
           poolLock' = IF thread[t].pc = "starts" THEN "none" ELSE poolLock,
           UNCHANGED <<serving, docker, pool, restarts>>
    PROVE  BoxInv'
<1>0. PICK n \in 0 .. MaxBoxes : boxes \in [1 .. n -> Containers]
  BY DEF BoxInv, BoxTypeOK
<1>1. PICK c : /\ c = thread[t].box /\ Removed(c) /\ thread' = [thread EXCEPT ![t] = Idle]
  BY DEF Goes
<1>2. /\ thread \in [Threads -> [pc : {"idle", "wants", "starts", "stops", "asks"},
                                 of : Sessions \cup {"none"}, box : {0} \cup Boxes]]
      /\ pool \in [Sessions -> {0} \cup Boxes] /\ 0 \notin Boxes /\ restarts \in Nat
      /\ boxes \in [Boxes -> Containers] /\ Boxes = 1 .. n
  BY <1>0, BoxTypes DEF BoxInv, Boxes
<1>3. c \in Boxes /\ boxes[c] \in Containers
  <2>1. c \in Boxes
    BY <1>1 DEF BoxInv, WorkAgrees
  <2> QED BY <1>2, <2>1
<1>4. /\ Boxes' = Boxes /\ boxes' \in [Boxes -> Containers]
      /\ \A b \in Boxes : boxes'[b].of = boxes[b].of /\ boxes'[b].era = boxes[b].era
      /\ \A b \in Boxes : b # c => boxes'[b] = boxes[b]
      /\ Uncached' = Uncached /\ ~Live(c)'
  <2>1. PICK gone : /\ gone \in {[boxes[c] EXCEPT !.state = "gone"], [boxes[c] EXCEPT !.stray = TRUE]}
                    /\ boxes' = [boxes EXCEPT ![c] = gone]
    BY <1>1 DEF Removed
  <2>2. /\ gone \in Containers /\ gone.of = boxes[c].of /\ gone.era = boxes[c].era
        /\ (gone.state = "gone" \/ gone.stray = TRUE)
    BY <1>3, <2>1 DEF Containers
  <2>3. /\ boxes' \in [Boxes -> Containers] /\ boxes'[c] = gone
        /\ \A b \in Boxes : b # c => boxes'[b] = boxes[b]
    BY <1>2, <1>3, <2>1, <2>2
  <2> QED BY <2>2, <2>3 DEF Boxes, Uncached, Live, Exists
<1>5. /\ thread'[t].pc = "idle" /\ thread'[t] = Idle
      /\ \A u \in Threads : u # t => thread'[u] = thread[u]
  BY <1>1, <1>2 DEF Idle
<1>6. BoxTypeOK'
  <2>1. boxes' \in [1 .. n -> Containers]
    BY <1>2, <1>4
  <2>2. thread' \in [Threads -> [pc : {"idle", "wants", "starts", "stops", "asks"},
                                 of : Sessions \cup {"none"}, box : {0} \cup Boxes]]
    BY <1>1, <1>2 DEF Idle
  <2>3. poolLock' \in {"none"} \cup Threads
    BY DEF BoxInv, BoxTypeOK
  <2> QED BY <1>1, <1>4, <2>1, <2>2, <2>3 DEF BoxInv, BoxTypeOK
<1>7. serving
  BY DEF BoxInv, Serves, Idle, Works
<1>8. LockIsHeld'
  BY <1>5, BoxAssumption DEF BoxInv, LockIsHeld, Works
<1>9. Serves'
  BY <1>7 DEF BoxInv, Serves
<1>10. \A u \in Threads : /\ Works(u)' <=> Works(u) /\ u # t
                          /\ Works(u)' => thread'[u] = thread[u]
  BY <1>5 DEF Works
<1>11. PoolAgrees'
  <2> SUFFICES ASSUME NEW s \in Sessions, pool[s] # 0
               PROVE  /\ boxes'[pool[s]].of = s /\ boxes'[pool[s]].era = restarts
                      /\ \A u \in Threads : Works(u)' => thread'[u].box # pool[s]
    BY DEF PoolAgrees
  <2>1. pool[s] \in Boxes
    BY <1>2
  <2> QED BY <1>4, <1>10, <2>1 DEF BoxInv, PoolAgrees
<1>12. WorkAgrees'
  <2>1. ASSUME NEW u \in Threads, thread'[u].pc = "wants"
        PROVE  thread'[u].of \in Sessions
    BY <1>5, <2>1 DEF BoxInv, WorkAgrees
  <2>2. ASSUME NEW u \in Threads, Works(u)'
        PROVE  /\ thread'[u].box \in Boxes /\ boxes'[thread'[u].box].of = thread'[u].of
               /\ boxes'[thread'[u].box].era = restarts
    BY <1>4, <1>10, <2>2 DEF BoxInv, WorkAgrees
  <2>3. ASSUME NEW u \in Threads, thread'[u].pc = "starts"
        PROVE  /\ pool[thread'[u].of] = 0
               /\ \A v \in Threads : thread'[v].pc = "stops" => thread'[v].box # thread'[u].box
    BY <1>5, <2>3 DEF BoxInv, WorkAgrees
  <2> QED BY <1>4, <2>1, <2>2, <2>3 DEF WorkAgrees
<1>13. NoneLost'
  <2> SUFFICES ASSUME NEW b \in Boxes, Live(b)', boxes'[b].era = restarts
               PROVE  Held(b)'
    BY <1>4 DEF NoneLost
  <2>1. b # c
    BY <1>4
  <2>2. Live(b) /\ boxes[b].era = restarts
    BY <1>4, <2>1 DEF Live, Exists
  <2>3. Held(b)
    BY <2>2 DEF BoxInv, NoneLost
  <2> QED BY <1>1, <1>5, <2>1, <2>3 DEF Held
<1>14. ErasAgree'
  <2> SUFFICES ASSUME NEW b \in Boxes
               PROVE  boxes'[b].era <= restarts /\ (docker = "here" /\ Live(b)' => boxes'[b].era = restarts)
    BY <1>4 DEF ErasAgree
  <2>1. CASE b = c
    BY <1>4, <2>1 DEF BoxInv, ErasAgree
  <2>2. CASE b # c
    BY <1>4, <2>2 DEF BoxInv, ErasAgree, Live, Exists
  <2> QED BY <2>1, <2>2
<1> QED BY <1>6, <1>8, <1>9, <1>11, <1>12, <1>13, <1>14 DEF BoxInv

\* A session's container leaves the pool: the thread that releases it has it.
LEMMA ReleasingKeepsInv ==
    ASSUME BoxInv, NEW t \in Threads, NEW s \in Sessions, Releases(t, s) PROVE BoxInv'
<1>1. PICK c : /\ c = pool[s] /\ c # 0 /\ serving
               /\ thread[t].pc = "idle" /\ poolLock = "none"
               /\ pool' = [pool EXCEPT ![s] = 0]
               /\ thread' = [thread EXCEPT ![t] = [pc |-> "stops", of |-> s, box |-> c]]
               /\ UNCHANGED <<serving, docker, boxes, poolLock, reports, restarts>>
  BY DEF Releases, Goes
<1>2. /\ thread \in [Threads -> [pc : {"idle", "wants", "starts", "stops", "asks"},
                                 of : Sessions \cup {"none"}, box : {0} \cup Boxes]]
      /\ pool \in [Sessions -> {0} \cup Boxes] /\ 0 \notin Boxes
  BY BoxTypes DEF BoxInv
<1>3. /\ c \in Boxes /\ boxes[c].of = s /\ boxes[c].era = restarts
      /\ \A u \in Threads : Works(u) => thread[u].box # c
      /\ \A r \in Sessions : r # s => pool[r] # c
  BY <1>1, <1>2 DEF BoxInv, PoolAgrees
<1>4. /\ Boxes' = Boxes /\ Uncached' = Uncached /\ \A b \in Boxes : Live(b)' <=> Live(b)
  BY <1>1 DEF Boxes, Uncached, Live, Exists
<1>5. /\ thread'[t] = [pc |-> "stops", of |-> s, box |-> c]
      /\ thread'[t].pc = "stops" /\ thread'[t].of = s /\ thread'[t].box = c
      /\ \A u \in Threads : u # t => thread'[u] = thread[u]
      /\ pool'[s] = 0 /\ \A r \in Sessions : r # s => pool'[r] = pool[r]
      /\ \A u \in Threads : thread[u].pc # "starts"
  BY <1>1, <1>2, BoxAssumption DEF BoxInv, LockIsHeld
<1>6. BoxTypeOK'
  <2>1. thread' \in [Threads -> [pc : {"idle", "wants", "starts", "stops", "asks"},
                                 of : Sessions \cup {"none"}, box : {0} \cup Boxes]]
    BY <1>1, <1>2, <1>3
  <2>2. pool' \in [Sessions -> {0} \cup Boxes]
    BY <1>1, <1>2
  <2> QED BY <1>1, <1>4, <2>1, <2>2 DEF BoxInv, BoxTypeOK
<1>7. LockIsHeld' /\ Serves'
  BY <1>1, <1>5 DEF BoxInv, LockIsHeld, Serves
<1>8. PoolAgrees'
  <2> SUFFICES ASSUME NEW r \in Sessions, pool'[r] # 0
               PROVE  /\ boxes[pool'[r]].of = r /\ boxes[pool'[r]].era = restarts
                      /\ \A u \in Threads : Works(u)' => thread'[u].box # pool'[r]
    BY <1>1 DEF PoolAgrees
  <2>1. r # s /\ pool'[r] = pool[r] /\ pool[r] # c
    BY <1>3, <1>5
  <2>2. ASSUME NEW u \in Threads, Works(u)' PROVE thread'[u].box # pool[r]
    BY <1>5, <2>1, <2>2 DEF BoxInv, PoolAgrees, Works
  <2> QED BY <2>1, <2>2 DEF BoxInv, PoolAgrees
<1>9. WorkAgrees'
  <2>1. ASSUME NEW u \in Threads, u # t
        PROVE  /\ thread'[u].pc = "wants" => thread'[u].of \in Sessions
               /\ Works(u)' => /\ thread'[u].box \in Boxes
                               /\ boxes[thread'[u].box].of = thread'[u].of
                               /\ boxes[thread'[u].box].era = restarts
               /\ thread'[u].pc # "starts"
    BY <1>5, <2>1 DEF BoxInv, WorkAgrees, Works
  <2> QED BY <1>1, <1>3, <1>4, <1>5, <2>1 DEF WorkAgrees
<1>10. NoneLost'
  <2>1. ASSUME NEW b \in Boxes, Held(b) PROVE Held(b)'
    BY <1>1, <1>5, <2>1 DEF Held
  <2> QED BY <1>1, <1>4, <2>1 DEF BoxInv, NoneLost
<1>11. ErasAgree'
  BY <1>1, <1>4 DEF BoxInv, ErasAgree
<1> QED BY <1>6, <1>7, <1>8, <1>9, <1>10, <1>11 DEF BoxInv

LEMMA BoxInitInv == ASSUME BoxInit PROVE BoxInv
<1>1. boxes = <<>> /\ Boxes = {} /\ Boxes = 1 .. 0 /\ boxes \in [1 .. 0 -> Containers]
  BY DEF BoxInit, Boxes
<1>2. /\ thread \in [Threads -> [pc : {"idle", "wants", "starts", "stops", "asks"},
                                 of : Sessions \cup {"none"}, box : {0} \cup Boxes]]
      /\ pool \in [Sessions -> {0} \cup Boxes] /\ reports \in [Sessions -> 0 .. Uncached]
  BY BoxAssumption DEF BoxInit, Idle, Uncached
<1>3. BoxTypeOK
  <2>1. 0 \in 0 .. MaxBoxes /\ 0 \in 0 .. MaxRestarts
    BY BoxAssumption
  <2>2. \E n \in 0 .. MaxBoxes : boxes \in [1 .. n -> Containers]
    BY <1>1, <2>1
  <2> QED BY <1>2, <2>1, <2>2 DEF BoxInit, BoxTypeOK
<1>4. \A t \in Threads : thread[t] = Idle /\ thread[t].pc = "idle"
  BY DEF BoxInit, Idle
<1>5. LockIsHeld /\ Serves
  BY <1>4, BoxAssumption DEF BoxInit, LockIsHeld, Serves
<1>6. PoolAgrees /\ WorkAgrees
  BY <1>4 DEF BoxInit, PoolAgrees, WorkAgrees, Works
<1>7. NoneLost /\ ErasAgree
  BY <1>1 DEF NoneLost, ErasAgree
<1> QED BY <1>3, <1>5, <1>6, <1>7 DEF BoxInv

LEMMA BoxStepsKeepInv ==
    ASSUME BoxInv, [BoxNext]_boxVars PROVE BoxInv'
<1>1. ASSUME NEW t \in Threads, NEW s \in Sessions, LooksForBox(t, s) PROVE BoxInv'
  <2>1. /\ [pc |-> "wants", of |-> s, box |-> 0]
             \in [pc : {"idle", "wants", "asks"}, of : Sessions \cup {"none"}, box : {0} \cup Boxes]
        /\ ~Works(t) /\ reports \in [Sessions -> 0 .. Uncached]
    BY <1>1 DEF LooksForBox, Works, BoxInv, BoxTypeOK
  <2> QED BY <1>1, <2>1, StrollingKeepsInv DEF LooksForBox
<1>2. ASSUME NEW t \in Threads, NEW s \in Sessions, AsksCapabilities(t, s) PROVE BoxInv'
  <2>1. /\ [pc |-> "asks", of |-> s, box |-> pool[s]]
             \in [pc : {"idle", "wants", "asks"}, of : Sessions \cup {"none"}, box : {0} \cup Boxes]
        /\ ~Works(t) /\ reports \in [Sessions -> 0 .. Uncached]
    BY <1>2 DEF AsksCapabilities, Works, BoxInv, BoxTypeOK
  <2> QED BY <1>2, <2>1, StrollingKeepsInv DEF AsksCapabilities
<1>3. ASSUME NEW t \in Threads, Finds(t) \/ KeepsCapabilities(t) PROVE BoxInv'
  <2>1. /\ Idle \in [pc : {"idle", "wants", "asks"}, of : Sessions \cup {"none"},
                     box : {0} \cup Boxes]
        /\ Idle.pc # "wants" /\ ~Works(t) /\ Goes(t, Idle)
        /\ UNCHANGED <<serving, docker, boxes, pool, poolLock, restarts>>
    BY <1>3 DEF Finds, KeepsCapabilities, Works, Idle
  <2>2. reports' \in [Sessions -> 0 .. Uncached]
    <3>1. CASE UNCHANGED reports
      BY <3>1 DEF BoxInv, BoxTypeOK
    <3>2. CASE KeepsCapabilities(t)
      <4>1. thread[t].box \in {0} \cup Boxes /\ Boxes = 1 .. Cardinality(Boxes)
            /\ Cardinality(Boxes) \in 0 .. MaxBoxes
        BY BoxTypes DEF BoxInv
      <4>2. thread[t].box \in 0 .. Uncached /\ 0 \in 0 .. Uncached
        BY <4>1, BoxAssumption DEF Uncached
      <4> QED BY <3>2, <4>2 DEF KeepsCapabilities, BoxInv, BoxTypeOK
    <3> QED BY <1>3, <3>1, <3>2 DEF Finds
  <2> QED BY <2>1, <2>2, StrollingKeepsInv
<1>4. ASSUME NEW t \in Threads, StartFails(t) PROVE BoxInv'
  BY <1>4, RemovingKeepsInv DEF StartFails, Works, BoxInv, BoxTypeOK
<1>5. ASSUME NEW t \in Threads, Stops(t) PROVE BoxInv'
  <2>1. reports' \in [Sessions -> 0 .. Uncached]
    <3>1. Uncached \in 0 .. Uncached
      BY BoxAssumption DEF Uncached
    <3> QED BY <1>5, <3>1 DEF Stops, BoxInv, BoxTypeOK
  <2> QED BY <1>5, <2>1, RemovingKeepsInv DEF Stops, Works
<1>6. ASSUME NEW b \in Boxes, Changes(b) PROVE BoxInv'
  BY <1>6, ChangingWeathers, WeatheringKeepsInv DEF Changes
<1>7. ASSUME Crashes \/ ShutsDown PROVE BoxInv'
  BY <1>7, StayingWeathers, ShutdownWeathers, NewProcessKeepsInv DEF Crashes, ShutsDown
<1>8. CASE UNCHANGED boxVars
  BY <1>8, StayingWeathers, WeatheringKeepsInv DEF boxVars
<1> QED BY <1>1, <1>2, <1>3, <1>4, <1>5, <1>6, <1>7, <1>8, RunningKeepsInv, RunFailingKeepsInv,
           RegisteringKeepsInv, ReleasingKeepsInv, PruningKeepsInv, ServingWithoutKeepsInv
        DEF BoxNext

(* The pool and its threads agree on who holds which container, through      *)
(* every failure of docker, crash and restart (SandboxPool).                 *)
THEOREM BoxInvariance == BoxSpec => []BoxInv
BY BoxInitInv, BoxStepsKeepInv, PTL DEF BoxSpec

\* No container is lost while docker answers.
LEMMA HoldersFollow == ASSUME BoxInv PROVE NoContainerIsLost
<1> SUFFICES ASSUME docker # "absent", NEW b \in Boxes, Exists(b), ~boxes[b].stray
             PROVE  Held(b) \/ (~serving /\ boxes[b].era < restarts)
  BY DEF NoContainerIsLost
<1>1. Live(b) /\ boxes[b].era <= restarts
  BY DEF Live, BoxInv, ErasAgree
<1>2. boxes[b].era \in Nat /\ restarts \in Nat
  BY BoxTypes DEF BoxInv, Containers
<1>3. CASE boxes[b].era = restarts
  BY <1>1, <1>3 DEF BoxInv, NoneLost
<1>4. CASE boxes[b].era < restarts
  <2>1. docker # "here"
    BY <1>1, <1>2, <1>4 DEF BoxInv, ErasAgree
  <2>2. ~serving
    BY <2>1 DEF BoxInv, BoxTypeOK, Serves
  <2> QED BY <1>4, <2>2
<1> QED BY <1>1, <1>2, <1>3, <1>4

\* No session has two containers that nobody removes.
LEMMA OneEachFollows == ASSUME BoxInv PROVE OneContainerEach
<1> SUFFICES ASSUME NEW s \in Sessions
             PROVE  Cardinality({b \in Boxes :
                        /\ boxes[b].of = s /\ Exists(b) /\ ~boxes[b].stray
                        /\ boxes[b].era = restarts
                        /\ \A t \in Threads : thread[t].pc = "stops" => thread[t].box # b}) <= 1
  BY DEF OneContainerEach
<1> DEFINE its == {b \in Boxes : /\ boxes[b].of = s /\ Exists(b) /\ ~boxes[b].stray
                                 /\ boxes[b].era = restarts
                                 /\ \A t \in Threads : thread[t].pc = "stops" => thread[t].box # b}
<1>1. ASSUME NEW b \in its
      PROVE  \/ pool[s] = b /\ b # 0
             \/ \E t \in Threads : poolLock = t /\ thread[t].box = b /\ thread[t].of = s
                                   /\ pool[s] = 0
  <2>1. b \in Boxes /\ b # 0 /\ boxes[b].of = s /\ Held(b)
    BY BoxTypes DEF BoxInv, NoneLost, Live
  <2>2. ASSUME NEW r \in Sessions, pool[r] = b PROVE pool[s] = b
    BY <2>1, <2>2 DEF BoxInv, PoolAgrees
  <2>3. ASSUME NEW t \in Threads, thread[t].pc \in {"starts", "stops"}, thread[t].box = b
        PROVE  poolLock = t /\ thread[t].of = s /\ pool[s] = 0
    <3>1. thread[t].pc = "starts"
      BY <2>3
    <3> QED BY <2>1, <2>3, <3>1 DEF BoxInv, LockIsHeld, WorkAgrees, Works
  <2> QED BY <2>1, <2>2, <2>3 DEF Held
<1>2. \A a, b \in its : a = b
  BY <1>1
<1> HIDE DEF its
<1>3. Cardinality(its) <= 1
  <2>1. CASE its = {}
    BY <2>1, FS_EmptySet
  <2>2. CASE its # {}
    <3>1. PICK b : b \in its
      BY <2>2
    <3>2. its = {b}
      BY <1>2, <3>1
    <3>3. Cardinality({b}) = 1
      BY FS_Singleton
    <3> QED BY <3>2, <3>3
  <2> QED BY <2>1, <2>2
<1> QED BY <1>3 DEF its

-----------------------------------------------------------------------------
(* The limiter's quota and table, the gate's count, the queue's workers and  *)
(* the pool's containers stay within what they promise, for every number of  *)
(* clients, sockets, jobs, sessions and restarts (Services).                 *)
THEOREM LimitsAreKept == AdmissionSpec /\ QueueSpec /\ BoxSpec => []LimitsHold
<1>1. ASSUME LimiterInv, GateInv, QueueInv, BoxInv PROVE LimitsHold
  <2>1. ASSUME NEW h \in Hosts
        PROVE  /\ DOMAIN granted[h] = 1 .. Len(granted[h]) /\ Len(granted[h]) \in Nat
               /\ Spaced(granted[h])
    BY <1>1, LenProperties DEF LimiterInv
  <2>2. QuotaHolds
    <3> SUFFICES ASSUME NEW h \in Hosts, NEW i \in DOMAIN granted[h],
                        i + MaxRequests \in DOMAIN granted[h]
                 PROVE  granted[h][i + MaxRequests] > granted[h][i] + Window
      BY DEF QuotaHolds
    <3>1. i \in 1 .. Len(granted[h]) /\ i + MaxRequests <= Len(granted[h])
      BY <2>1
    <3> QED BY <2>1, <3>1 DEF Spaced
  <2>3. TableIsBounded /\ LivingAreCounted /\ WorkersAreBounded
    BY <1>1 DEF LimiterInv, GateInv, QueueInv
  <2>4. NoContainerIsLost /\ OneContainerEach
    BY <1>1, HoldersFollow, OneEachFollows
  <2> QED BY <2>2, <2>3, <2>4 DEF LimitsHold
<1> QED BY <1>1, LimiterInvariance, GateInvariance, QueueInvariance, BoxInvariance, PTL

-----------------------------------------------------------------------------
(***************************************************************************)
(* Model downloads, for any number of names, downloads and lookups.        *)
(*                                                                         *)
(* A row may be swept or replaced once its download has ended, so that no  *)
(* thread pulls unseen needs that a download which has not ended keeps its *)
(* row, and that a status is written last (finish).                        *)
(***************************************************************************)

Recorded(x) ==
    /\ x.status \in Terminal <=> x.at = "over"
    /\ x.at \in {"flip", "over"} => x.stamp # "none"
    /\ x.at \in {"invalidate", "stamp", "flip"} => x.ends \in Terminal
    /\ x.at = "over" => x.ends = x.status
    /\ x.ends = "completed" => x.said = "success"
    /\ x.at = "returned" /\ ~x.cancel => x.said = "success"

DownloadsInv ==
    /\ DownloadsTypeOK
    /\ \A d \in Started : /\ Recorded(downloads[d])
                          /\ downloads[d].at # "over" => rows[downloads[d].name] = d
    /\ \A n \in Names : rows[n] # 0 => downloads[rows[n]].name = n
    /\ Cardinality(Active(rows)) <= MaxConcurrent

RestTyped ==
    /\ installed \subseteq Names /\ removing \subseteq Names
    /\ cached \in {{}} \cup {{list} : list \in SUBSET Names}
    /\ reader \in [Readers -> {NoLookup} \cup [at : {"looked", "fetched"}, list : SUBSET Names]]

\* What the type says of the downloads and their rows.
LEMMA DownloadTypes ==
    ASSUME DownloadsTypeOK
    PROVE  /\ Cardinality(Started) \in 0 .. MaxStarts /\ Started = 1 .. Cardinality(Started)
           /\ downloads \in [Started -> Downloads] /\ 0 \notin Started /\ IsFiniteSet(Started)
           /\ rows \in [Names -> {0} \cup Started] /\ RestTyped
           /\ provider \in {"ollama", "lmstudio"}
<1>1. PICK n \in 0 .. MaxStarts : downloads \in [1 .. n -> Downloads]
  BY DEF DownloadsTypeOK
<1>2. Started = 1 .. n
  BY <1>1 DEF Started
<1>3. Cardinality(Started) = n /\ IsFiniteSet(Started)
  BY <1>2, FS_Interval, DownloadsAssumption
<1>4. 0 \notin Started /\ downloads \in [Started -> Downloads]
  BY <1>1, <1>2
<1>5. /\ rows \in [Names -> {0} \cup Started] /\ RestTyped
      /\ provider \in {"ollama", "lmstudio"}
  BY DEF DownloadsTypeOK, RestTyped
<1> QED BY <1>2, <1>3, <1>4, <1>5

LEMMA ActiveAreStarted ==
    ASSUME DownloadsTypeOK PROVE Active(rows) \subseteq Started /\ IsFiniteSet(Active(rows))
<1>1. Active(rows) \subseteq Started
  BY DownloadTypes DEF Active, Shown, Range
<1> QED BY <1>1, DownloadTypes, FS_Subset

LEMMA DownloadsInitInv == ASSUME DownloadsInit PROVE DownloadsInv
<1>1. downloads = <<>> /\ Started = {} /\ downloads \in [1 .. 0 -> Downloads]
  BY DEF DownloadsInit, Started
<1>2. \E n \in 0 .. MaxStarts : downloads \in [1 .. n -> Downloads]
  BY <1>1, DownloadsAssumption
<1>3. DownloadsTypeOK
  BY <1>2 DEF DownloadsInit, DownloadsTypeOK
<1>4. Active(rows) = {}
  BY <1>1 DEF DownloadsInit, Active, Shown, Range
<1>5. Cardinality(Active(rows)) <= MaxConcurrent
  BY <1>4, FS_EmptySet, DownloadsAssumption
<1> QED BY <1>1, <1>3, <1>5 DEF DownloadsInit, DownloadsInv

\* A step of one download that has not ended, or that only ages.
LEMMA DownloadMovesKeepInv ==
    ASSUME DownloadsInv, NEW d \in Started, NEW new \in Downloads,
           downloads' = [downloads EXCEPT ![d] = new],
           new.name = downloads[d].name, Recorded(new),
           IsTerminal(d) => new.status \in Terminal,
           RestTyped', UNCHANGED <<provider, rows>>
    PROVE  DownloadsInv'
<1>1. PICK n \in 0 .. MaxStarts : downloads \in [1 .. n -> Downloads]
  BY DEF DownloadsInv, DownloadsTypeOK
<1>2. /\ Started' = Started /\ Started = 1 .. n
      /\ downloads' \in [1 .. n -> Downloads] /\ downloads'[d] = new
      /\ \A e \in Started : e # d => downloads'[e] = downloads[e]
      /\ \A e \in Started : downloads'[e].name = downloads[e].name
  BY <1>1 DEF Started
<1>3. rows \in [Names -> {0} \cup Started]
  BY DownloadTypes DEF DownloadsInv
<1>4. DownloadsTypeOK'
  BY <1>2, <1>3, DownloadTypes DEF DownloadsInv, DownloadsTypeOK, RestTyped
<1>5. \A e \in Started : downloads'[e].at # "over" => downloads[e].at # "over"
  <2> TAKE e \in Started
  <2>1. CASE e = d
    BY <1>2, <2>1 DEF Recorded, DownloadsInv, IsTerminal
  <2>2. CASE e # d
    BY <1>2, <2>2
  <2> QED BY <2>1, <2>2
<1>6. \A e \in Started' : /\ Recorded(downloads'[e])
                          /\ downloads'[e].at # "over" => rows'[downloads'[e].name] = e
  BY <1>2, <1>5 DEF DownloadsInv
<1>7. \A m \in Names : rows'[m] # 0 => downloads'[rows'[m]].name = m
  BY <1>2, <1>3 DEF DownloadsInv
<1>8. Active(rows)' \subseteq Active(rows)
  <2>1. \A e \in Started : ~IsTerminal(e)' => ~IsTerminal(e)
    BY <1>2 DEF IsTerminal
  <2>2. Active(rows)' = {e \in Shown(rows) : ~IsTerminal(e)'} /\ Shown(rows) \subseteq Started
    BY <1>3 DEF Active, Shown, Range
  <2> QED BY <2>1, <2>2 DEF Active
<1>9. Cardinality(Active(rows))' <= MaxConcurrent
  BY <1>8, ActiveAreStarted, FS_Subset, FS_CardinalityType, DownloadsAssumption DEF DownloadsInv
<1> QED BY <1>4, <1>6, <1>7, <1>9 DEF DownloadsInv

\* What a sweep leaves is shown, and every live download is.
LEMMA SweepsOnlyEnded ==
    ASSUME DownloadsInv
    PROVE  /\ Swept \in [Names -> {0} \cup Started]
           /\ \A n \in Names : Swept[n] \in {0, rows[n]}
           /\ \A n \in Names : rows[n] # 0 /\ Swept[n] = 0 =>
                 IsTerminal(rows[n]) /\ downloads[rows[n]].stamp = "old"
           /\ Active(Swept) \subseteq Active(rows)
<1>1. rows \in [Names -> {0} \cup Started] /\ downloads \in [Started -> Downloads]
  BY DownloadTypes DEF DownloadsInv
<1>2. Swept \in [Names -> {0} \cup Started] /\ \A n \in Names : Swept[n] \in {0, rows[n]}
  BY <1>1 DEF Swept
<1>3. ASSUME NEW n \in Names, rows[n] # 0, Swept[n] = 0
      PROVE  IsTerminal(rows[n]) /\ downloads[rows[n]].stamp = "old"
  <2>1. IsTerminal(rows[n]) /\ downloads[rows[n]].stamp \in {"none", "old"}
    BY <1>3 DEF Swept
  <2>2. Recorded(downloads[rows[n]])
    BY <1>1, <1>3 DEF DownloadsInv
  <2> QED BY <2>1, <2>2 DEF Recorded, IsTerminal
<1>4. Active(Swept) \subseteq Active(rows)
  BY <1>1, <1>2 DEF Active, Shown, Range
<1> QED BY <1>2, <1>3, <1>4

LEMMA ListingKeepsInv == ASSUME DownloadsInv, Lists PROVE DownloadsInv'
<1>1. rows' = Swept /\ UNCHANGED <<provider, downloads, installed, cached, reader, removing>>
  BY DEF Lists
<1>2. Started' = Started /\ \A d \in Started : IsTerminal(d)' <=> IsTerminal(d)
  BY <1>1 DEF Started, IsTerminal
<1>3. DownloadsTypeOK'
  BY <1>1, <1>2, SweepsOnlyEnded DEF DownloadsInv, DownloadsTypeOK
<1>4. ASSUME NEW d \in Started, downloads[d].at # "over"
      PROVE  rows'[downloads[d].name] = d
  <2>1. downloads[d].name \in Names /\ rows[downloads[d].name] = d /\ d # 0 /\ ~IsTerminal(d)
    BY <1>4, DownloadTypes DEF DownloadsInv, Downloads, Recorded, IsTerminal
  <2> QED BY <1>1, <2>1, SweepsOnlyEnded
<1>5. \A n \in Names : rows'[n] # 0 => downloads[rows'[n]].name = n
  BY <1>1, SweepsOnlyEnded DEF DownloadsInv
<1>6. Active(rows)' = Active(Swept)
  BY <1>1 DEF Active, Shown, IsTerminal
<1>7. Cardinality(Active(rows))' <= MaxConcurrent
  BY <1>6, SweepsOnlyEnded, ActiveAreStarted, FS_Subset, FS_CardinalityType, DownloadsAssumption
  DEF DownloadsInv
<1> QED BY <1>1, <1>2, <1>3, <1>4, <1>5, <1>7 DEF DownloadsInv

\* A download starts: its row is free or its last download has ended.
LEMMA StartingKeepsInv ==
    ASSUME DownloadsInv, NEW n \in Names, Starts(n) PROVE DownloadsInv'
<1>1. PICK d : /\ d = Cardinality(Started) + 1 /\ rows' = [Swept EXCEPT ![n] = d]
               /\ downloads' = [e \in 1 .. d |-> IF e < d THEN downloads[e] ELSE
                    [name |-> n, status |-> "queued", stamp |-> "none", cancel |-> FALSE,
                     said |-> "nothing", ends |-> "none", at |-> "queued"]]
  BY DEF Starts
<1>2. /\ Cardinality(Started) < MaxStarts /\ (Swept[n] # 0 => IsTerminal(Swept[n]))
      /\ Cardinality(Active(Swept)) < MaxConcurrent
      /\ UNCHANGED <<provider, installed, cached, reader, removing>>
  BY DEF Starts
<1>3. /\ Started = 1 .. Cardinality(Started) /\ Cardinality(Started) \in 0 .. MaxStarts
      /\ downloads \in [Started -> Downloads] /\ RestTyped /\ provider \in {"ollama", "lmstudio"}
  BY DownloadTypes DEF DownloadsInv
<1>4. /\ d \in 1 .. MaxStarts /\ d \notin Started /\ 1 .. d = Started \cup {d} /\ d # 0
      /\ \A e \in Started : e < d
  BY <1>1, <1>2, <1>3, DownloadsAssumption
<1>5. /\ Started' = Started \cup {d} /\ \A e \in Started : downloads'[e] = downloads[e]
      /\ downloads'[d] = [name |-> n, status |-> "queued", stamp |-> "none", cancel |-> FALSE,
                          said |-> "nothing", ends |-> "none", at |-> "queued"]
  BY <1>1, <1>4 DEF Started
<1>6. downloads'[d] \in Downloads /\ Recorded(downloads'[d]) /\ downloads'[d].name = n
  BY <1>5 DEF Downloads, Recorded, Terminal
<1>7. downloads' \in [1 .. d -> Downloads]
  BY <1>1, <1>3, <1>4, <1>5, <1>6
<1>8. /\ rows' \in [Names -> {0} \cup Started'] /\ rows'[n] = d
      /\ \A m \in Names : m # n => rows'[m] = Swept[m]
  BY <1>1, <1>5, SweepsOnlyEnded
<1>9. DownloadsTypeOK'
  <2>1. \E m \in 0 .. MaxStarts : downloads' \in [1 .. m -> Downloads]
    BY <1>4, <1>7
  <2> QED BY <1>2, <1>3, <1>8, <2>1 DEF DownloadsTypeOK, RestTyped
<1>10. ASSUME NEW e \in Started, downloads[e].at # "over"
       PROVE  rows'[downloads[e].name] = e
  <2>1. downloads[e].name \in Names /\ rows[downloads[e].name] = e /\ e # 0 /\ ~IsTerminal(e)
    BY <1>10, DownloadTypes DEF DownloadsInv, Downloads, Recorded, IsTerminal
  <2>2. Swept[downloads[e].name] = e
    BY <2>1, SweepsOnlyEnded
  <2>3. downloads[e].name # n
    BY <1>2, <2>1, <2>2
  <2> QED BY <1>8, <2>1, <2>2, <2>3
<1>11. ASSUME NEW m \in Names, rows'[m] # 0
       PROVE  downloads'[rows'[m]].name = m
  <2>1. CASE m = n
    BY <1>6, <1>8, <2>1
  <2>2. CASE m # n
    <3>1. rows'[m] = rows[m] /\ rows[m] # 0 /\ rows[m] \in Started
      BY <1>8, <1>11, <2>2, SweepsOnlyEnded
    <3> QED BY <1>5, <3>1 DEF DownloadsInv
  <2> QED BY <2>1, <2>2
<1>12. Active(rows)' \subseteq Active(Swept) \cup {d}
  <2>1. ASSUME NEW e \in Active(rows)', e # d PROVE e \in Active(Swept)
    <3>1. PICK m \in Names : rows'[m] = e /\ e # 0 /\ ~IsTerminal(e)'
      BY <1>8 DEF Active, Shown, Range
    <3>2. m # n /\ Swept[m] = e /\ e \in Started
      BY <1>8, <2>1, <3>1, SweepsOnlyEnded
    <3>3. ~IsTerminal(e)
      BY <1>5, <3>1, <3>2 DEF IsTerminal
    <3>4. e \in Shown(Swept)
      BY <3>1, <3>2, SweepsOnlyEnded DEF Shown, Range
    <3> QED BY <3>3, <3>4 DEF Active
  <2> QED BY <2>1
<1>13. Cardinality(Active(rows))' <= MaxConcurrent
  <2>1. IsFiniteSet(Active(Swept)) /\ d \notin Active(Swept)
    BY <1>4, SweepsOnlyEnded, ActiveAreStarted, FS_Subset DEF DownloadsInv
  <2>2. /\ IsFiniteSet(Active(Swept) \cup {d})
        /\ Cardinality(Active(Swept) \cup {d}) = Cardinality(Active(Swept)) + 1
    BY <2>1, FS_AddElement
  <2>3. Cardinality(Active(rows)') <= Cardinality(Active(Swept) \cup {d})
        /\ Cardinality(Active(rows)') \in Nat /\ Cardinality(Active(Swept)) \in Nat
    BY <1>12, <2>1, <2>2, FS_Subset, FS_CardinalityType
  <2> QED BY <1>2, <2>2, <2>3, DownloadsAssumption
<1>14. ASSUME NEW e \in Started'
       PROVE  Recorded(downloads'[e]) /\ (downloads'[e].at # "over" => rows'[downloads'[e].name] = e)
  <2>1. CASE e = d
    BY <1>6, <1>8, <2>1
  <2>2. CASE e \in Started
    BY <1>5, <1>10, <2>2 DEF DownloadsInv
  <2> QED BY <1>5, <2>1, <2>2
<1> QED BY <1>9, <1>11, <1>13, <1>14 DEF DownloadsInv

\* Every step of a download's thread, its provider or its user, as a step of its record.
LEMMA DownloadStepsMove ==
    ASSUME DownloadsInv, NEW d \in Started,
           \/ StartsPulling(d) \/ PullsOllama(d) \/ PullsLmStudio(d) \/ Decides(d)
           \/ Invalidates(d) \/ Finishes(d) \/ Ages(d)
           \/ \E last \in {"success", "error", "closed"} : ProviderSays(d, last)
           \/ \E n \in Names : rows[n] = d /\ Cancels(n)
    PROVE  /\ \E new \in Downloads :
                 /\ downloads' = [downloads EXCEPT ![d] = new]
                 /\ new.name = downloads[d].name /\ Recorded(new)
                 /\ IsTerminal(d) => new.status \in Terminal
           /\ RestTyped' /\ UNCHANGED <<provider, rows>>
<1> DEFINE x == downloads[d]
<1>1. x \in Downloads /\ Recorded(x) /\ RestTyped
  BY DownloadTypes DEF DownloadsInv
<1>2. CASE StartsPulling(d)
  <2> DEFINE new == [x EXCEPT !.at = "pulling", !.status = "downloading"]
  <2>1. /\ x.at = "queued" /\ downloads' = [downloads EXCEPT ![d] = new]
        /\ UNCHANGED <<provider, rows, installed, cached, reader, removing>>
    BY <1>2 DEF StartsPulling, At
  <2>2. new \in Downloads /\ new.name = x.name /\ Recorded(new) /\ ~IsTerminal(d)
    BY <1>1, <2>1 DEF Downloads, Recorded, Terminal, IsTerminal
  <2> QED BY <1>1, <2>1, <2>2 DEF RestTyped
<1>3. ASSUME PullsOllama(d) \/ PullsLmStudio(d)
      PROVE  /\ \E new \in Downloads :
                 /\ downloads' = [downloads EXCEPT ![d] = new]
                 /\ new.name = downloads[d].name /\ Recorded(new)
                 /\ IsTerminal(d) => new.status \in Terminal
             /\ RestTyped' /\ UNCHANGED <<provider, rows>>
  <2>1. PICK at \in {"returned", "raised"} :
          /\ downloads' = [downloads EXCEPT ![d] = [x EXCEPT !.at = at]]
          /\ at = "returned" => x.said = "success" \/ x.cancel
    BY <1>3 DEF PullsOllama, PullsLmStudio, LastWord, Moves
  <2>2. /\ x.at = "pulling"
        /\ UNCHANGED <<provider, rows, installed, cached, reader, removing>>
    BY <1>3 DEF PullsOllama, PullsLmStudio, At
  <2> DEFINE new == [x EXCEPT !.at = at]
  <2>3. new \in Downloads /\ new.name = x.name /\ Recorded(new) /\ ~IsTerminal(d)
    BY <1>1, <2>1, <2>2 DEF Downloads, Recorded, Terminal, IsTerminal
  <2> QED BY <1>1, <2>1, <2>2, <2>3 DEF RestTyped
<1>4. CASE Decides(d)
  <2>1. UNCHANGED <<provider, rows, installed, cached, reader, removing>>
    BY <1>4 DEF Decides
  <2>2. CASE /\ x.at = "raised"
             /\ downloads' = [downloads EXCEPT ![d] = [x EXCEPT !.at = "stamp", !.ends = "failed"]]
    <3> DEFINE new == [x EXCEPT !.at = "stamp", !.ends = "failed"]
    <3>1. new \in Downloads /\ new.name = x.name /\ Recorded(new) /\ ~IsTerminal(d)
      BY <1>1, <2>2 DEF Downloads, Recorded, Terminal, IsTerminal
    <3> QED BY <1>1, <2>1, <2>2, <3>1 DEF RestTyped
  <2>3. CASE /\ x.at = "returned" /\ x.cancel
             /\ downloads' = [downloads EXCEPT ![d] = [x EXCEPT !.at = "stamp", !.ends = "cancelled"]]
    <3> DEFINE new == [x EXCEPT !.at = "stamp", !.ends = "cancelled"]
    <3>1. new \in Downloads /\ new.name = x.name /\ Recorded(new) /\ ~IsTerminal(d)
      BY <1>1, <2>3 DEF Downloads, Recorded, Terminal, IsTerminal
    <3> QED BY <1>1, <2>1, <2>3, <3>1 DEF RestTyped
  <2>4. CASE /\ x.at = "returned" /\ ~x.cancel
             /\ downloads' = [downloads EXCEPT ![d] = [x EXCEPT !.at = "invalidate", !.ends = "completed"]]
    <3> DEFINE new == [x EXCEPT !.at = "invalidate", !.ends = "completed"]
    <3>1. new \in Downloads /\ new.name = x.name /\ Recorded(new) /\ ~IsTerminal(d)
      BY <1>1, <2>4 DEF Downloads, Recorded, Terminal, IsTerminal
    <3> QED BY <1>1, <2>1, <2>4, <3>1 DEF RestTyped
  <2> QED BY <1>4, <2>2, <2>3, <2>4 DEF Decides, At
<1>5. CASE Invalidates(d)
  <2> DEFINE new == [x EXCEPT !.at = "stamp"]
  <2>1. /\ x.at = "invalidate" /\ downloads' = [downloads EXCEPT ![d] = new] /\ cached' = {}
        /\ UNCHANGED <<provider, rows, installed, reader, removing>>
    BY <1>5 DEF Invalidates, At, Moves
  <2>2. new \in Downloads /\ new.name = x.name /\ Recorded(new) /\ ~IsTerminal(d)
    BY <1>1, <2>1 DEF Downloads, Recorded, Terminal, IsTerminal
  <2> QED BY <1>1, <2>1, <2>2 DEF RestTyped
<1>6. CASE Finishes(d)
  <2>1. UNCHANGED <<provider, rows, installed, cached, reader, removing>>
    BY <1>6 DEF Finishes
  <2>2. CASE /\ x.at = "stamp"
             /\ downloads' = [downloads EXCEPT ![d] = [x EXCEPT !.at = "flip", !.stamp = "fresh"]]
    <3> DEFINE new == [x EXCEPT !.at = "flip", !.stamp = "fresh"]
    <3>1. new \in Downloads /\ new.name = x.name /\ Recorded(new) /\ ~IsTerminal(d)
      BY <1>1, <2>2 DEF Downloads, Recorded, Terminal, IsTerminal
    <3> QED BY <1>1, <2>1, <2>2, <3>1 DEF RestTyped
  <2>3. CASE /\ x.at = "flip"
             /\ downloads' = [downloads EXCEPT ![d] = [x EXCEPT !.at = "over", !.status = x.ends]]
    <3> DEFINE new == [x EXCEPT !.at = "over", !.status = x.ends]
    <3>1. new \in Downloads /\ new.name = x.name /\ Recorded(new) /\ ~IsTerminal(d)
      BY <1>1, <2>3 DEF Downloads, Recorded, Terminal, IsTerminal
    <3> QED BY <1>1, <2>1, <2>3, <3>1 DEF RestTyped
  <2> QED BY <1>6, <2>2, <2>3 DEF Finishes, At
<1>7. CASE Ages(d)
  <2> DEFINE new == [x EXCEPT !.stamp = "old"]
  <2>1. /\ downloads' = [downloads EXCEPT ![d] = new]
        /\ UNCHANGED <<provider, rows, installed, cached, reader, removing>>
    BY <1>7 DEF Ages
  <2>2. new \in Downloads /\ new.name = x.name /\ Recorded(new) /\ new.status = x.status
    BY <1>1 DEF Downloads, Recorded
  <2> QED BY <1>1, <2>1, <2>2 DEF RestTyped, IsTerminal
<1>8. ASSUME NEW last \in {"success", "error", "closed"}, ProviderSays(d, last)
      PROVE  /\ \E new \in Downloads :
                 /\ downloads' = [downloads EXCEPT ![d] = new]
                 /\ new.name = downloads[d].name /\ Recorded(new)
                 /\ IsTerminal(d) => new.status \in Terminal
             /\ RestTyped' /\ UNCHANGED <<provider, rows>>
  <2> DEFINE new == [x EXCEPT !.said = last]
  <2>1. /\ x.at = "pulling" /\ x.said = "nothing" /\ downloads' = [downloads EXCEPT ![d] = new]
        /\ installed' \in {installed, installed \cup {x.name}}
        /\ UNCHANGED <<provider, rows, cached, reader, removing>>
    BY <1>8 DEF ProviderSays, At
  <2>2. /\ new \in Downloads /\ new.name = x.name /\ Recorded(new) /\ ~IsTerminal(d)
        /\ x.name \in Names
    BY <1>1, <2>1 DEF Downloads, Recorded, Terminal, IsTerminal
  <2> QED BY <1>1, <2>1, <2>2 DEF RestTyped
<1>9. ASSUME NEW n \in Names, rows[n] = d, Cancels(n)
      PROVE  /\ \E new \in Downloads :
                 /\ downloads' = [downloads EXCEPT ![d] = new]
                 /\ new.name = downloads[d].name /\ Recorded(new)
                 /\ IsTerminal(d) => new.status \in Terminal
             /\ RestTyped' /\ UNCHANGED <<provider, rows>>
  <2> DEFINE new == [x EXCEPT !.cancel = TRUE]
  <2>1. /\ downloads' = [downloads EXCEPT ![d] = new] /\ ~IsTerminal(d)
        /\ UNCHANGED <<provider, rows, installed, cached, reader, removing>>
    BY <1>9 DEF Cancels
  <2>2. new \in Downloads /\ new.name = x.name /\ Recorded(new)
    BY <1>1 DEF Downloads, Recorded
  <2> QED BY <1>1, <2>1, <2>2 DEF RestTyped
<1> QED BY <1>2, <1>3, <1>4, <1>5, <1>6, <1>7, <1>8, <1>9

\* The registry's list, lookups and removals leave the downloads alone.
LEMMA ListsKeepInv ==
    ASSUME DownloadsInv, RestTyped', UNCHANGED <<provider, downloads, rows>>
    PROVE  DownloadsInv'
<1>1. Started' = Started /\ Active(rows)' = Active(rows)
  BY DEF Started, Active, Shown, IsTerminal
<1>2. DownloadsTypeOK'
  BY <1>1 DEF DownloadsInv, DownloadsTypeOK, RestTyped
<1> QED BY <1>1, <1>2 DEF DownloadsInv

LEMMA LookupsAreTyped ==
    ASSUME RestTyped,
           \/ Expires
           \/ \E n \in Names : RemovesInstalled(n) \/ RemovalInvalidates(n)
           \/ \E r \in Readers : Fetches(r) \/ Stores(r) \/ \E force \in BOOLEAN : LooksUp(r, force)
    PROVE  RestTyped' /\ UNCHANGED <<provider, downloads, rows>>
<1>1. CASE Expires
  BY <1>1 DEF Expires, RestTyped
<1>2. ASSUME NEW n \in Names, RemovesInstalled(n) \/ RemovalInvalidates(n)
      PROVE  RestTyped' /\ UNCHANGED <<provider, downloads, rows>>
  BY <1>2 DEF RemovesInstalled, RemovalInvalidates, RestTyped
<1>3. ASSUME NEW r \in Readers, NEW force \in BOOLEAN, LooksUp(r, force)
      PROVE  RestTyped' /\ UNCHANGED <<provider, downloads, rows>>
  BY <1>3 DEF LooksUp, RestTyped
<1>4. ASSUME NEW r \in Readers, Fetches(r)
      PROVE  RestTyped' /\ UNCHANGED <<provider, downloads, rows>>
  <2>1. PICK list \in {{}, installed} :
          reader' = [reader EXCEPT ![r] = [reader[r] EXCEPT !.at = "fetched", !.list = list]]
    BY <1>4 DEF Fetches
  <2>2. reader[r] \in [at : {"looked", "fetched"}, list : SUBSET Names]
    BY <1>4 DEF Fetches, RestTyped, NoLookup
  <2>3. [reader[r] EXCEPT !.at = "fetched", !.list = list]
           \in [at : {"looked", "fetched"}, list : SUBSET Names]
    BY <2>2 DEF RestTyped
  <2> QED BY <1>4, <2>1, <2>3 DEF Fetches, RestTyped
<1>5. ASSUME NEW r \in Readers, Stores(r)
      PROVE  RestTyped' /\ UNCHANGED <<provider, downloads, rows>>
  <2>1. reader[r] \in [at : {"looked", "fetched"}, list : SUBSET Names]
    BY <1>5 DEF Stores, RestTyped, NoLookup
  <2>2. reader[r].list \in SUBSET Names
    BY <2>1
  <2> QED BY <1>5, <2>2 DEF Stores, RestTyped
<1> QED BY <1>1, <1>2, <1>3, <1>4, <1>5

LEMMA DownloadStepsKeepInv ==
    ASSUME DownloadsInv, [DownloadsNext]_downloadVars PROVE DownloadsInv'
<1>1. RestTyped
  BY DownloadTypes DEF DownloadsInv
<1>2. ASSUME NEW d \in Started,
             \/ StartsPulling(d) \/ PullsOllama(d) \/ PullsLmStudio(d) \/ Decides(d)
             \/ Invalidates(d) \/ Finishes(d) \/ Ages(d)
             \/ \E last \in {"success", "error", "closed"} : ProviderSays(d, last)
             \/ \E n \in Names : rows[n] = d /\ Cancels(n)
      PROVE  DownloadsInv'
  <2>1. PICK new \in Downloads :
          /\ downloads' = [downloads EXCEPT ![d] = new]
          /\ new.name = downloads[d].name /\ Recorded(new)
          /\ IsTerminal(d) => new.status \in Terminal
    BY <1>2, DownloadStepsMove
  <2>2. RestTyped' /\ UNCHANGED <<provider, rows>>
    BY <1>2, DownloadStepsMove
  <2> QED BY <2>1, <2>2, DownloadMovesKeepInv
<1>3. ASSUME NEW n \in Names, Cancels(n)
      PROVE  DownloadsInv'
  <2>1. rows[n] \in Started
    BY <1>3, DownloadTypes DEF Cancels, DownloadsInv
  <2> QED BY <1>2, <1>3, <2>1
<1>4. CASE \/ Expires
           \/ \E n \in Names : RemovesInstalled(n) \/ RemovalInvalidates(n)
           \/ \E r \in Readers : Fetches(r) \/ Stores(r) \/ \E force \in BOOLEAN : LooksUp(r, force)
  BY <1>1, <1>4, LookupsAreTyped, ListsKeepInv
<1>5. CASE UNCHANGED downloadVars
  BY <1>1, <1>5, ListsKeepInv DEF downloadVars, RestTyped
<1> QED BY <1>2, <1>3, <1>4, <1>5, ListingKeepsInv, StartingKeepsInv DEF DownloadsNext

(* A download that has not ended keeps its row, and nothing is shown as      *)
(* ended before its last write (ModelDownloader).                            *)
THEOREM DownloadsInvariance == DownloadsSpec => []DownloadsInv
BY DownloadsInitInv, DownloadStepsKeepInv, PTL DEF DownloadsSpec

\* A row empties only by a sweep.
LEMMA RowsEmptyWhenOld ==
    ASSUME DownloadsInv, DownloadsNext, NEW n \in Names, rows[n] # 0, rows'[n] = 0
    PROVE  downloads[rows[n]].stamp = "old"
<1>1. CASE Lists
  BY <1>1, SweepsOnlyEnded DEF Lists
<1>2. ASSUME NEW m \in Names, Starts(m) PROVE downloads[rows[n]].stamp = "old"
  <2>1. PICK d : rows' = [Swept EXCEPT ![m] = d] /\ d = Cardinality(Started) + 1
    BY <1>2 DEF Starts
  <2>2. d # 0
    BY <2>1, DownloadTypes, DownloadsAssumption DEF DownloadsInv
  <2>3. Swept[n] = 0
    BY <2>1, <2>2, SweepsOnlyEnded
  <2> QED BY <2>3, SweepsOnlyEnded
<1>3. CASE UNCHANGED rows
  BY <1>3
<1> QED BY <1>1, <1>2, <1>3 DEF DownloadsNext, Expires, Cancels, RemovesInstalled, RemovalInvalidates,
           StartsPulling, PullsOllama, PullsLmStudio, Decides, Invalidates, Finishes, Ages,
           ProviderSays, Fetches, Stores, LooksUp

(* The end of a download stays in the list for its time, wherever a poll's   *)
(* sweep falls between the writes of its thread (finish, _sweep_locked).     *)
THEOREM EndsStayShown == DownloadsSpec => EndsAreShown
<1>1. DownloadsInv /\ [DownloadsNext]_downloadVars =>
        [\A n \in Names : rows[n] # 0 /\ rows'[n] = 0 => downloads[rows[n]].stamp = "old"]_downloadVars
  BY RowsEmptyWhenOld
<1> QED BY <1>1, DownloadsInvariance, PTL DEF DownloadsSpec, EndsAreShown

-----------------------------------------------------------------------------
(***************************************************************************)
(* Where prompts go, for any providers, defaults and requests.             *)
(*                                                                         *)
(* A selection writes what it checked before it waited, and the cleaning   *)
(* thread what it read: both are as good as when they were made unless     *)
(* something has been changed since, which `crossed` and `stale` remember. *)
(***************************************************************************)

Assignment == [provider : Providers \cup {None}, model : Providers \cup {None}]

RequestFits(m, request) ==
    \A r \in RoleNumbers : request[r].provider \in Providers => ~Forbids(m, request[r].provider)

SelectionAgrees ==
    selecting # AtRest => /\ selecting.request \in Requests /\ selecting.at \in RoleNumbers
                          /\ Waits(selecting.request[selecting.at])
                          /\ ~crossed => RequestFits(mode, selecting.request)

CleaningAgrees ==
    cleaning # AtRest /\ ~cleaning.stale =>
        /\ cleaning.to = ProviderOf(Worker)
        /\ cleaning.real => ~ShouldRedact(cleaning.to)

RoutingInv ==
    /\ RoutingTypeOK /\ SelectionAgrees /\ AssignmentsFitTheMode
    /\ CleaningAgrees /\ RowsStayHome

\* Some waiting role comes first.
LEMMA FirstWaiting ==
    ASSUME NEW waiting \in SUBSET RoleNumbers, waiting # {}
    PROVE  \E w \in waiting : \A v \in waiting : v >= w
<1>1. waiting \subseteq 1 .. 3
  BY RoutingAssumption
<1>2. CASE 1 \in waiting
  BY <1>1, <1>2
<1>3. CASE 1 \notin waiting /\ 2 \in waiting
  BY <1>1, <1>3
<1>4. CASE 1 \notin waiting /\ 2 \notin waiting
  <2>1. \A v \in waiting : v = 3
    BY <1>1, <1>4
  <2> QED BY <2>1
<1> QED BY <1>2, <1>3, <1>4

\* What the models become when a request is taken from a role on.
LEMMA TakingAssigns ==
    ASSUME NEW first, NEW request \in Requests, NEW models \in [RoleNumbers -> Assignment],
           TakesFrom(first, request, models)
    PROVE  /\ routed' \in [RoleNumbers -> Assignment]
           /\ \A r \in RoleNumbers :
                \/ routed'[r].provider = models[r].provider
                \/ routed'[r].provider = request[r].provider
           /\ \/ selecting' = AtRest
              \/ /\ selecting' \in [at : RoleNumbers, request : Requests]
                 /\ selecting'.request = request /\ Waits(request[selecting'.at])
<1> DEFINE waiting == {r \in RoleNumbers : r >= first /\ Waits(request[r])}
           next == {r \in RoleNumbers : r >= first /\ \A w \in waiting : w >= r}
<1>1. request \in [RoleNumbers -> [provider : Providers \cup {"none", "unset"},
                                   model : Providers \cup {"unset"}]]
  BY RoutingAssumption
<1>2. routed' = [r \in RoleNumbers |->
                    IF r \in next THEN Given(request[r], models[r]) ELSE models[r]]
  BY DEF TakesFrom
<1>3. ASSUME NEW r \in RoleNumbers
      PROVE  /\ routed'[r] \in Assignment
             /\ \/ routed'[r].provider = models[r].provider
                \/ routed'[r].provider = request[r].provider
  <2>1. /\ request[r].provider \in Providers \cup {"none", "unset"}
        /\ request[r].model \in Providers \cup {"unset"}
        /\ models[r] \in Assignment
    BY <1>1
  <2>2. /\ Given(request[r], models[r]) \in Assignment
        /\ Given(request[r], models[r]).provider \in {models[r].provider, request[r].provider}
    BY <2>1 DEF Given, Assignment, None, Unset
  <2> QED BY <1>2, <2>1, <2>2
<1>4. CASE waiting = {}
  BY <1>2, <1>3, <1>4 DEF TakesFrom
<1>5. CASE waiting # {}
  <2>1. \E w \in waiting : w \in next
    <3>1. PICK w \in waiting : \A v \in waiting : v >= w
      BY <1>5, FirstWaiting
    <3> QED BY <3>1
  <2>2. selecting' = [at |-> CHOOSE w \in waiting : w \in next, request |-> request]
    BY <1>5 DEF TakesFrom
  <2>3. (CHOOSE w \in waiting : w \in next) \in waiting
    BY <2>1
  <2> QED BY <1>2, <1>3, <2>2, <2>3
<1> QED BY <1>4, <1>5

LEMMA RoutingInitInv == ASSUME RoutingInit PROVE RoutingInv
<1>1. routed \in [RoleNumbers -> [provider : Providers \cup {None}, model : Providers \cup {None}]]
  BY DEF RoutingInit
<1>2. RoutingTypeOK
  BY <1>1, RoutingAssumption DEF RoutingInit, RoutingTypeOK
<1>3. SelectionAgrees /\ CleaningAgrees /\ RowsStayHome
  BY DEF RoutingInit, SelectionAgrees, CleaningAgrees, RowsStayHome
<1>4. AssignmentsFitTheMode
  BY DEF RoutingInit, AssignmentsFitTheMode
<1> QED BY <1>2, <1>3, <1>4 DEF RoutingInv

\* A change of assignments, mode or policy outdates what the cleaning has read.
LEMMA OutdatingKeeps ==
    ASSUME RoutingTypeOK, cleaning' = Outdated
    PROVE  /\ CleaningAgrees'
           /\ \/ cleaning' = AtRest
              \/ cleaning' \in [at : {"looked", "built"}, to : Providers, real : BOOLEAN,
                                stale : BOOLEAN]
<1>1. CASE cleaning = AtRest
  BY <1>1 DEF Outdated, CleaningAgrees
<1>2. CASE cleaning # AtRest
  <2>1. cleaning \in [at : {"looked", "built"}, to : Providers, real : BOOLEAN, stale : BOOLEAN]
    BY <1>2 DEF RoutingTypeOK
  <2>2. cleaning' = [cleaning EXCEPT !.stale = TRUE]
    BY <1>2 DEF Outdated
  <2>3. cleaning'.stale = TRUE
    BY <2>1, <2>2
  <2> QED BY <2>1, <2>2, <2>3 DEF CleaningAgrees
<1> QED BY <1>1, <1>2

LEMMA SelectingKeepsInv ==
    ASSUME RoutingInv, NEW first, NEW request \in Requests, NEW models \in [RoleNumbers -> Assignment],
           \A r \in RoleNumbers : models[r].provider = routed[r].provider,
           ~crossed => RequestFits(mode, request),
           TakesFrom(first, request, models),
           cleaning' = Outdated, sent' = Nothing, UNCHANGED <<mode, hides, crossed, searching>>
    PROVE  RoutingInv'
<1>1. /\ routed' \in [RoleNumbers -> Assignment]
      /\ \A r \in RoleNumbers :
           \/ routed'[r].provider = models[r].provider
           \/ routed'[r].provider = request[r].provider
      /\ \/ selecting' = AtRest
         \/ /\ selecting' \in [at : RoleNumbers, request : Requests]
            /\ selecting'.request = request /\ Waits(request[selecting'.at])
  BY TakingAssigns
<1>2. RoutingTypeOK'
  BY <1>1, OutdatingKeeps DEF RoutingInv, RoutingTypeOK, Assignment
<1>3. SelectionAgrees'
  <2>1. CASE selecting' = AtRest
    BY <2>1 DEF SelectionAgrees
  <2>2. CASE /\ selecting' \in [at : RoleNumbers, request : Requests]
             /\ selecting'.request = request /\ Waits(request[selecting'.at])
    <3>1. ~crossed' => RequestFits(mode, request)'
      BY DEF RequestFits, Forbids
    <3> QED BY <2>2, <3>1 DEF SelectionAgrees, Waits, RequestFits, Forbids
  <2> QED BY <1>1, <2>1, <2>2
<1>4. AssignmentsFitTheMode'
  <2> SUFFICES ASSUME ~crossed, NEW r \in RoleNumbers, routed'[r].provider # None
               PROVE  ~Forbids(mode, routed'[r].provider)
    BY DEF AssignmentsFitTheMode, Forbids
  <2>1. CASE routed'[r].provider = routed[r].provider
    BY <2>1 DEF RoutingInv, AssignmentsFitTheMode
  <2>2. CASE routed'[r].provider = request[r].provider
    <3>1. routed'[r].provider \in Providers
      BY <1>1 DEF Assignment
    <3> QED BY <2>2, <3>1 DEF RequestFits
  <2> QED BY <1>1, <2>1, <2>2
<1>5. CleaningAgrees' /\ RowsStayHome'
  BY OutdatingKeeps DEF RoutingInv, RowsStayHome
<1> QED BY <1>2, <1>3, <1>4, <1>5 DEF RoutingInv

LEMMA SettingModeKeepsInv ==
    ASSUME RoutingInv, NEW m \in Modes, SetsMode(m) PROVE RoutingInv'
<1>1. /\ mode' = m /\ crossed' = (selecting # AtRest)
      /\ routed' = [r \in RoleNumbers |-> Fits(m, routed[r])]
      /\ cleaning' = Outdated /\ sent' = Nothing /\ UNCHANGED <<hides, selecting, searching>>
  BY DEF SetsMode
<1>2. ASSUME NEW r \in RoleNumbers
      PROVE  /\ routed'[r] \in Assignment
             /\ routed'[r].provider # None => ~Forbids(m, routed'[r].provider)
  <2>1. routed[r] \in Assignment /\ routed'[r] = Fits(m, routed[r])
    BY <1>1 DEF RoutingInv, RoutingTypeOK, Assignment
  <2>2. [provider |-> None, model |-> None] \in Assignment
    BY DEF Assignment
  <2>3. CASE routed[r].provider # None /\ Forbids(m, routed[r].provider)
    BY <2>1, <2>2, <2>3 DEF Fits
  <2>4. CASE ~(routed[r].provider # None /\ Forbids(m, routed[r].provider))
    BY <2>1, <2>4 DEF Fits
  <2> QED BY <2>3, <2>4
<1>3. RoutingTypeOK'
  <2>1. routed' \in [RoleNumbers -> Assignment]
    BY <1>1, <1>2
  <2> QED BY <1>1, <2>1, OutdatingKeeps DEF RoutingInv, RoutingTypeOK, Assignment
<1>4. SelectionAgrees'
  BY <1>1 DEF RoutingInv, SelectionAgrees, Waits
<1>5. AssignmentsFitTheMode'
  BY <1>1, <1>2 DEF AssignmentsFitTheMode, Forbids
<1>6. CleaningAgrees' /\ RowsStayHome'
  BY <1>1, OutdatingKeeps DEF RoutingInv, RowsStayHome
<1> QED BY <1>3, <1>4, <1>5, <1>6 DEF RoutingInv

LEMMA SettingPolicyKeepsInv ==
    ASSUME RoutingInv, SetsPolicy PROVE RoutingInv'
<1>1. /\ hides' = ~hides /\ cleaning' = Outdated /\ sent' = Nothing
      /\ UNCHANGED <<mode, routed, selecting, crossed, searching>>
  BY DEF SetsPolicy
<1>2. RoutingTypeOK'
  BY <1>1, OutdatingKeeps DEF RoutingInv, RoutingTypeOK
<1>3. SelectionAgrees' /\ AssignmentsFitTheMode'
  BY <1>1 DEF RoutingInv, SelectionAgrees, Waits, RequestFits, Forbids, AssignmentsFitTheMode
<1>4. CleaningAgrees' /\ RowsStayHome'
  BY <1>1, OutdatingKeeps DEF RoutingInv, RowsStayHome
<1> QED BY <1>2, <1>3, <1>4 DEF RoutingInv

\* What only reads, and sends nothing that carries rows it may not.
LEMMA SendingKeepsInv ==
    ASSUME RoutingInv, UNCHANGED <<mode, hides, routed, selecting, crossed>>,
           searching' \in BOOLEAN, sent' = Nothing \/ sent' \in Prompts, RowsStayHome',
           \/ UNCHANGED cleaning
           \/ CleaningAgrees' /\ \/ cleaning' = AtRest
                                 \/ cleaning' \in [at : {"looked", "built"}, to : Providers,
                                                   real : BOOLEAN, stale : BOOLEAN]
    PROVE  RoutingInv'
<1>1. RoutingTypeOK'
  BY DEF RoutingInv, RoutingTypeOK
<1>2. SelectionAgrees' /\ AssignmentsFitTheMode'
  BY DEF RoutingInv, SelectionAgrees, Waits, RequestFits, Forbids, AssignmentsFitTheMode
<1>3. CleaningAgrees'
  <2>1. CASE UNCHANGED cleaning
    BY <2>1 DEF RoutingInv, CleaningAgrees, ProviderOf, ShouldRedact
  <2> QED BY <2>1
<1> QED BY <1>1, <1>2, <1>3 DEF RoutingInv

LEMMA ProvidersAreResolved ==
    ASSUME RoutingTypeOK, NEW r \in RoleNumbers PROVE ProviderOf(r) \in Providers
BY RoutingAssumption DEF RoutingTypeOK, ProviderOf, Resolved, None

LEMMA CallsKeepInv ==
    ASSUME RoutingInv, NEW role \in RoleNumbers, NEW real \in BOOLEAN, Calls(role, real),
           real => ~RedactFor(role)
    PROVE  RoutingInv'
<1>1. /\ sent' = [to |-> ProviderOf(role), by |-> "turn", real |-> real, hides |-> hides,
                  mode |-> mode, stale |-> FALSE]
      /\ UNCHANGED <<mode, hides, routed, selecting, crossed, cleaning, searching>>
  BY DEF Calls, Sends
<1>2. ProviderOf(role) \in Providers /\ mode \in Modes /\ hides \in BOOLEAN /\ searching \in BOOLEAN
  BY ProvidersAreResolved DEF RoutingInv, RoutingTypeOK
<1>3. sent' \in Prompts
  BY <1>1, <1>2 DEF Prompts
<1>4. RowsStayHome'
  BY <1>1 DEF RowsStayHome, RedactFor, ShouldRedact
<1> QED BY <1>1, <1>2, <1>3, <1>4, SendingKeepsInv

LEMMA RoutingStepsKeepInv ==
    ASSUME RoutingInv, [RoutingNext]_routingVars PROVE RoutingInv'
<1>1. /\ mode \in Modes /\ hides \in BOOLEAN /\ searching \in BOOLEAN /\ RoutingTypeOK
      /\ Manager \in RoleNumbers /\ Worker \in RoleNumbers
  BY RoutingAssumption DEF RoutingInv, RoutingTypeOK, Manager, Worker
<1>2. ASSUME NEW request \in Requests, SelectsModels(request) PROVE RoutingInv'
  <2>1. routed \in [RoleNumbers -> Assignment] /\ RequestFits(mode, request)
    BY <1>2 DEF RoutingInv, RoutingTypeOK, Assignment, SelectsModels, RequestFits
  <2> QED BY <1>2, <2>1, SelectingKeepsInv DEF SelectsModels
<1>3. ASSUME SelectionResumes PROVE RoutingInv'
  <2> DEFINE asked == selecting.request[selecting.at].provider
  <2>1. PICK suggested \in {Resolved(asked), None} :
          TakesFrom(selecting.at + 1, selecting.request,
                    [routed EXCEPT ![selecting.at].model = suggested])
    BY <1>3 DEF SelectionResumes
  <2>2. /\ selecting # AtRest /\ cleaning' = Outdated /\ sent' = Nothing
        /\ UNCHANGED <<mode, hides, crossed, searching>>
    BY <1>3 DEF SelectionResumes
  <2>3. /\ selecting.request \in Requests /\ selecting.at \in RoleNumbers
        /\ asked # "unset" /\ (~crossed => RequestFits(mode, selecting.request))
    BY <2>2 DEF RoutingInv, SelectionAgrees, Waits, Unset
  <2>4. selecting.request \in [RoleNumbers -> [provider : Providers \cup {"none", "unset"},
                                               model : Providers \cup {"unset"}]]
    BY <2>3, RoutingAssumption
  <2>5. suggested \in Providers \cup {None}
    BY <2>3, <2>4, RoutingAssumption DEF Resolved, None
  <2> DEFINE models == [routed EXCEPT ![selecting.at].model = suggested]
  <2>6. routed \in [RoleNumbers -> Assignment]
    BY <1>1 DEF RoutingTypeOK, Assignment
  <2>7. /\ models \in [RoleNumbers -> Assignment]
        /\ \A r \in RoleNumbers : models[r].provider = routed[r].provider
    <3>1. models = [routed EXCEPT ![selecting.at] = [routed[selecting.at] EXCEPT !.model = suggested]]
      OBVIOUS
    <3>2. /\ [routed[selecting.at] EXCEPT !.model = suggested] \in Assignment
          /\ [routed[selecting.at] EXCEPT !.model = suggested].provider = routed[selecting.at].provider
      BY <2>3, <2>5, <2>6 DEF Assignment
    <3> QED BY <2>3, <2>6, <3>1, <3>2
  <2> HIDE DEF models
  <2>8. TakesFrom(selecting.at + 1, selecting.request, models)
    BY <2>1 DEF models
  <2> QED BY <2>2, <2>3, <2>7, <2>8, SelectingKeepsInv
<1>4. CASE AsksForPlan \/ Generates
  BY <1>1, <1>4, CallsKeepInv DEF AsksForPlan, Generates, RedactFor, ShouldRedact
<1>5. ASSUME NEW r \in RoleNumbers, CallsWithoutRows(r) PROVE RoutingInv'
  BY <1>5, CallsKeepInv DEF CallsWithoutRows
<1>6. CASE CouncilAsks
  <2>1. /\ sent' = [to |-> ProviderOf(Manager), by |-> "council", real |-> FALSE, hides |-> hides,
                    mode |-> mode, stale |-> FALSE]
        /\ UNCHANGED <<mode, hides, routed, selecting, crossed, cleaning, searching>>
    BY <1>6 DEF CouncilAsks, Sends
  <2>2. ProviderOf(Manager) \in Providers
    BY <1>1, ProvidersAreResolved
  <2>3. sent' \in Prompts /\ RowsStayHome'
    BY <1>1, <2>1, <2>2 DEF Prompts, RowsStayHome
  <2> QED BY <1>1, <2>1, <2>3, SendingKeepsInv
<1>7. CASE SearchPassesCheck
  BY <1>7, SendingKeepsInv DEF SearchPassesCheck, RowsStayHome
<1>8. CASE Searches
  <2>1. /\ sent' = [to |-> "web", by |-> "turn", real |-> FALSE, hides |-> hides, mode |-> mode,
                    stale |-> FALSE]
        /\ searching' = FALSE
        /\ UNCHANGED <<mode, hides, routed, selecting, crossed, cleaning>>
    BY <1>8 DEF Searches, Sends
  <2>2. sent' \in Prompts /\ RowsStayHome'
    BY <1>1, <2>1 DEF Prompts, RowsStayHome
  <2> QED BY <2>1, <2>2, SendingKeepsInv
<1>9. CASE CleanLooks
  <2>1. /\ cleaning' = [at |-> "looked", to |-> ProviderOf(Worker), real |-> FALSE, stale |-> FALSE]
        /\ sent' = Nothing /\ UNCHANGED <<mode, hides, routed, selecting, crossed, searching>>
    BY <1>9 DEF CleanLooks
  <2>2. /\ cleaning' \in [at : {"looked", "built"}, to : Providers, real : BOOLEAN, stale : BOOLEAN]
        /\ CleaningAgrees'
    BY <1>1, <2>1, ProvidersAreResolved DEF CleaningAgrees, ProviderOf
  <2> QED BY <1>1, <2>1, <2>2, SendingKeepsInv DEF RowsStayHome
<1>10. CASE CleanBuilds
  <2>1. /\ cleaning' = [cleaning EXCEPT !.at = "built", !.real = ~ShouldRedact(cleaning.to)]
        /\ cleaning.at = "looked"
        /\ sent' = Nothing /\ UNCHANGED <<mode, hides, routed, selecting, crossed, searching>>
    BY <1>10 DEF CleanBuilds
  <2>2. cleaning \in [at : {"looked", "built"}, to : Providers, real : BOOLEAN, stale : BOOLEAN]
    BY <1>1, <2>1 DEF RoutingTypeOK, AtRest
  <2>3. ShouldRedact(cleaning.to) \in BOOLEAN /\ cleaning # AtRest
    BY <2>1 DEF ShouldRedact, AtRest
  <2>4. /\ cleaning' \in [at : {"looked", "built"}, to : Providers, real : BOOLEAN, stale : BOOLEAN]
        /\ cleaning'.to = cleaning.to /\ cleaning'.stale = cleaning.stale
        /\ cleaning'.real = ~ShouldRedact(cleaning.to)
    BY <2>1, <2>2, <2>3
  <2>5. CleaningAgrees'
    BY <2>1, <2>3, <2>4 DEF RoutingInv, CleaningAgrees, ProviderOf, ShouldRedact
  <2> QED BY <1>1, <2>1, <2>4, <2>5, SendingKeepsInv DEF RowsStayHome
<1>11. CASE CleanSends
  <2>1. /\ cleaning.at = "built" /\ cleaning' = AtRest /\ CleaningAgrees'
        /\ UNCHANGED <<mode, hides, routed, selecting, crossed, searching>>
    BY <1>11 DEF CleanSends, CleaningAgrees
  <2>2. CASE sent' = Nothing
    BY <1>1, <2>1, <2>2, SendingKeepsInv DEF RowsStayHome
  <2>3. CASE sent' = [to |-> ProviderOf(Worker), by |-> "cleaning", real |-> cleaning.real,
                      hides |-> hides, mode |-> mode, stale |-> cleaning.stale]
    <3>1. /\ cleaning \in [at : {"looked", "built"}, to : Providers, real : BOOLEAN, stale : BOOLEAN]
          /\ cleaning # AtRest
      BY <1>1, <2>1 DEF RoutingTypeOK, AtRest
    <3>2. sent' \in Prompts
      BY <1>1, <2>3, <3>1, ProvidersAreResolved DEF Prompts
    <3>3. RowsStayHome'
      BY <1>1, <2>1, <2>3, <3>1 DEF RoutingInv, CleaningAgrees, RowsStayHome, ShouldRedact
    <3> QED BY <1>1, <2>1, <3>2, <3>3, SendingKeepsInv
  <2> QED BY <1>11, <2>2, <2>3 DEF CleanSends, Sends
<1>12. CASE UNCHANGED routingVars
  BY <1>1, <1>12, SendingKeepsInv DEF routingVars, RoutingInv, RoutingTypeOK, RowsStayHome
<1> QED BY <1>2, <1>3, <1>4, <1>5, <1>6, <1>7, <1>8, <1>9, <1>10, <1>11, <1>12,
           SettingModeKeepsInv, SettingPolicyKeepsInv DEF RoutingNext

(* A selection goes on with what it checked, and a cleaning prompt is made   *)
(* for the provider it goes to, unless something was changed between         *)
(* (select_models, set_data_mode, clean_dataset).                            *)
THEOREM RoutingInvariance == RoutingSpec => []RoutingInv
BY RoutingInitInv, RoutingStepsKeepInv, PTL DEF RoutingSpec

-----------------------------------------------------------------------------
(***************************************************************************)
(* The cached clients, for any models, callers, budget and bounds.         *)
(*                                                                         *)
(* Two callers share a client if they hold one of the same generation; of  *)
(* the latest, that is because what they hold is the cached one, and one   *)
(* caller at a time adds to the cache, where it has found none.            *)
(***************************************************************************)

OfCallers(f) == f = [c \in Callers |-> f[c]]

Holds(c) ==
    pc[c] = "calls" =>
        /\ CacheKey(client[c].spec) = CacheKey(spec[c])
        /\ client[c].since \in 0 .. cleared
        /\ client[c].since = cleared => client[c] \in clients

ClientsAgree ==
    /\ \A a \in clients : a.since = cleared
    /\ \A a, b \in clients : CacheKey(a.spec) = CacheKey(b.spec) => a = b

ResidencyInv ==
    /\ cleared \in Nat /\ OfCallers(pc) /\ OfCallers(spec) /\ OfCallers(client)
    /\ clientsLock \in Callers \cup {Nobody}
    /\ \A c \in Callers : /\ pc[c] = "builds" <=> clientsLock = c
                          /\ pc[c] = "builds" => Cached(spec[c]) = {}
    /\ ClientsAgree /\ \A c \in Callers : Holds(c)
    /\ OneClientPerKey

LEMMA ResidencyInitInv == ASSUME ResidencyInit PROVE ResidencyInv
<1>1. \A c \in Callers : pc[c] = "idle"
  BY DEF ResidencyInit
<1>2. OfCallers(pc) /\ OfCallers(spec) /\ OfCallers(client)
  BY DEF ResidencyInit, OfCallers
<1>3. ClientsAgree /\ OneClientPerKey /\ \A c \in Callers : Holds(c)
  BY <1>1 DEF ResidencyInit, ClientsAgree, OneClientPerKey, Holds
<1>4. cleared \in Nat /\ clientsLock \in Callers \cup {Nobody}
      /\ \A c \in Callers : /\ pc[c] = "builds" <=> clientsLock = c
                            /\ pc[c] = "builds" => Cached(spec[c]) = {}
  BY <1>1, ResidencyAssumption DEF ResidencyInit
<1> QED BY <1>2, <1>3, <1>4 DEF ResidencyInv

\* Only c may do anything, and the cache stays.
Alone(c) ==
    /\ OfCallers(pc') /\ OfCallers(spec') /\ OfCallers(client')
    /\ \A d \in Callers : d # c => pc'[d] = pc[d] /\ spec'[d] = spec[d] /\ client'[d] = client[d]
    /\ UNCHANGED <<clients, cleared>>

\* A caller that neither builds nor holds a client afterwards.
LEMMA LeavingKeepsInv ==
    ASSUME ResidencyInv, NEW c \in Callers, Alone(c), pc'[c] \notin {"builds", "calls"},
           clientsLock' = IF pc[c] = "builds" THEN Nobody ELSE clientsLock
    PROVE  ResidencyInv'
<1>1. \A d \in Callers : /\ pc'[d] = "builds" <=> clientsLock' = d
                         /\ pc'[d] = "builds" => Cached(spec[d])' = {}
  <2> TAKE d \in Callers
  <2>1. CASE d = c
    BY <2>1, ResidencyAssumption DEF ResidencyInv
  <2>2. CASE d # c
    BY <2>2, ResidencyAssumption DEF ResidencyInv, Alone, Cached
  <2> QED BY <2>1, <2>2
<1>2. ClientsAgree'
  BY DEF ResidencyInv, ClientsAgree, Alone
<1>3. \A d \in Callers : Holds(d)'
  BY DEF ResidencyInv, Holds, Alone
<1>4. OneClientPerKey'
  BY DEF ResidencyInv, OneClientPerKey, Alone
<1> QED BY <1>1, <1>2, <1>3, <1>4 DEF ResidencyInv, Alone

\* A caller takes a client that is cached for what it asks for.
LEMMA TakingKeepsInv ==
    ASSUME ResidencyInv, NEW c \in Callers, NEW made \in Cached(spec[c]), Alone(c),
           pc[c] # "builds", pc'[c] = "calls", client'[c] = made, spec'[c] = spec[c],
           UNCHANGED clientsLock
    PROVE  ResidencyInv'
<1>1. \A d \in Callers : /\ pc'[d] = "builds" <=> clientsLock' = d
                         /\ pc'[d] = "builds" => Cached(spec[d])' = {}
  <2> TAKE d \in Callers
  <2>1. CASE d = c
    BY <2>1 DEF ResidencyInv
  <2>2. CASE d # c
    BY <2>2 DEF ResidencyInv, Alone, Cached
  <2> QED BY <2>1, <2>2
<1>2. ClientsAgree'
  BY DEF ResidencyInv, ClientsAgree, Alone
<1>3. made \in clients /\ CacheKey(made.spec) = CacheKey(spec[c]) /\ made.since = cleared
  BY DEF Cached, ResidencyInv, ClientsAgree
<1>4. \A d \in Callers : Holds(d)'
  <2> TAKE d \in Callers
  <2>1. CASE d = c
    BY <1>3, <2>1 DEF ResidencyInv, Holds, Alone
  <2>2. CASE d # c
    BY <2>2 DEF ResidencyInv, Holds, Alone
  <2> QED BY <2>1, <2>2
<1>5. ASSUME NEW d \in Callers, d # c, pc'[d] = "calls", CacheKey(spec'[d]) = CacheKey(spec'[c]),
             client'[d].since = client'[c].since
      PROVE  client'[d] = client'[c]
  <2>1. client[d] \in clients /\ CacheKey(client[d].spec) = CacheKey(spec[c])
    BY <1>3, <1>5 DEF ResidencyInv, Holds, Alone
  <2> QED BY <1>3, <1>5, <2>1 DEF ResidencyInv, ClientsAgree, Alone
<1>6. OneClientPerKey'
  <2> SUFFICES ASSUME NEW a \in Callers, NEW b \in Callers, pc'[a] = "calls", pc'[b] = "calls",
                      CacheKey(spec'[a]) = CacheKey(spec'[b]), client'[a].since = client'[b].since
               PROVE  client'[a] = client'[b]
    BY DEF OneClientPerKey, CacheKey
  <2>1. CASE a # c /\ b # c
    BY <2>1 DEF ResidencyInv, OneClientPerKey, Alone
  <2>2. CASE a = c \/ b = c
    BY <1>5, <2>2
  <2> QED BY <2>1, <2>2
<1> QED BY <1>1, <1>2, <1>4, <1>6 DEF ResidencyInv, Alone

\* The holder of the lock adds the client that none had been cached for.
LEMMA BuildingKeepsInv ==
    ASSUME ResidencyInv, NEW c \in Callers, Builds(c) PROVE ResidencyInv'
<1>1. PICK made : /\ made = [spec |-> spec[c], by |-> c, since |-> cleared]
                  /\ clients' = (clients \ Cached(spec[c])) \cup {made}
                  /\ client' = [client EXCEPT ![c] = made] /\ pc' = [pc EXCEPT ![c] = "calls"]
                  /\ pc[c] = "builds" /\ clientsLock = c /\ clientsLock' = Nobody
                  /\ UNCHANGED <<cleared, spec>>
  BY DEF Builds, Takes, clientVars, planVars, settingVars, serverVars
<1>2. Cached(spec[c]) = {} /\ clients' = clients \cup {made}
      /\ made.spec = spec[c] /\ made.since = cleared /\ cleared \in Nat
  BY <1>1 DEF ResidencyInv
<1>3. /\ OfCallers(pc') /\ OfCallers(client') /\ OfCallers(spec')
      /\ pc'[c] = "calls" /\ client'[c] = made
      /\ \A d \in Callers : d # c => pc'[d] = pc[d] /\ client'[d] = client[d]
  BY <1>1 DEF ResidencyInv, OfCallers
<1>4. \A d \in Callers : pc'[d] # "builds" /\ clientsLock' # d
  BY <1>1, <1>3, ResidencyAssumption DEF ResidencyInv
<1>5. \A a \in clients : CacheKey(a.spec) # CacheKey(made.spec)
  BY <1>2 DEF Cached
<1>6. ClientsAgree'
  <2>1. \A a, b \in clients' : CacheKey(a.spec) = CacheKey(b.spec) => a = b
    BY <1>2, <1>5 DEF ResidencyInv, ClientsAgree
  <2>2. \A a \in clients' : a.since = cleared
    BY <1>2 DEF ResidencyInv, ClientsAgree
  <2> QED BY <1>1, <2>1, <2>2 DEF ClientsAgree, CacheKey
<1>7. \A d \in Callers : Holds(d)'
  <2> TAKE d \in Callers
  <2>1. CASE d = c
    BY <1>1, <1>2, <1>3, <2>1 DEF Holds
  <2>2. CASE d # c
    BY <1>1, <1>2, <1>3, <2>2 DEF ResidencyInv, Holds
  <2> QED BY <2>1, <2>2
<1>8. ASSUME NEW d \in Callers, d # c, pc'[d] = "calls", CacheKey(spec[d]) = CacheKey(spec[c])
      PROVE  client'[d].since # client'[c].since
  <2>1. client[d].since = cleared => client[d] \in clients
    BY <1>3, <1>8 DEF ResidencyInv, Holds
  <2>2. CacheKey(client[d].spec) = CacheKey(spec[c])
    BY <1>3, <1>8 DEF ResidencyInv, Holds
  <2> QED BY <1>2, <1>3, <1>5, <1>8, <2>1, <2>2
<1>9. OneClientPerKey'
  <2> SUFFICES ASSUME NEW a \in Callers, NEW b \in Callers, pc'[a] = "calls", pc'[b] = "calls",
                      CacheKey(spec[a]) = CacheKey(spec[b]), client'[a].since = client'[b].since
               PROVE  client'[a] = client'[b]
    BY <1>1 DEF OneClientPerKey, CacheKey
  <2>1. CASE a # c /\ b # c
    BY <1>3, <2>1 DEF ResidencyInv, OneClientPerKey
  <2>2. CASE a = c \/ b = c
    BY <1>8, <2>2
  <2> QED BY <2>1, <2>2
<1> QED BY <1>1, <1>2, <1>3, <1>4, <1>6, <1>7, <1>9 DEF ResidencyInv

LEMMA ClearingKeepsInv ==
    ASSUME ResidencyInv, ClearsCache PROVE ResidencyInv'
<1>1. /\ clients' = {} /\ cleared' = cleared + 1 /\ clientsLock = Nobody
      /\ UNCHANGED <<clientsLock, pc, spec, client>>
  BY DEF ClearsCache, callVars
<1>2. \A c \in Callers : pc[c] # "builds" /\ clientsLock # c
  BY <1>1, ResidencyAssumption DEF ResidencyInv
<1>3. ClientsAgree'
  BY <1>1 DEF ClientsAgree
<1>4. \A c \in Callers : Holds(c)'
  <2> TAKE c \in Callers
  <2>1. cleared \in Nat /\ Holds(c)
    BY DEF ResidencyInv
  <2> QED BY <1>1, <2>1 DEF Holds, CacheKey
<1>5. OneClientPerKey'
  BY <1>1 DEF ResidencyInv, OneClientPerKey, CacheKey
<1> QED BY <1>1, <1>2, <1>3, <1>4, <1>5 DEF ResidencyInv

\* Nobody takes, builds or clears a client.
LEMMA ElsewhereKeepsInv ==
    ASSUME ResidencyInv, UNCHANGED <<clients, cleared, clientsLock, pc, spec, client>>
    PROVE  ResidencyInv'
BY DEF ResidencyInv, OfCallers, Cached, CacheKey, ClientsAgree, Holds, OneClientPerKey

LEMMA ResolvingKeepsInv ==
    ASSUME ResidencyInv, NEW c \in Callers, NEW model, NEW listed, Resolves(c, model, listed)
    PROVE  ResidencyInv'
<1>1. PICK new : /\ spec' = [spec EXCEPT ![c] = new] /\ pc' = [pc EXCEPT ![c] = "resolved"]
                 /\ pc[c] = "idle" /\ UNCHANGED <<clients, cleared, clientsLock, client>>
  BY DEF Resolves, clientVars
<1>2. Alone(c) /\ pc'[c] = "resolved"
  BY <1>1 DEF Alone, OfCallers, ResidencyInv
<1> QED BY <1>1, <1>2, LeavingKeepsInv

LEMMA ResidencyStepsKeepInv ==
    ASSUME ResidencyInv, [ResidencyNext]_residencyVars PROVE ResidencyInv'
<1>1. ASSUME NEW c \in Callers, NEW role \in Roles, NEW listed \in BOOLEAN, Asks(c, role, listed)
      PROVE  ResidencyInv'
  BY <1>1, ResolvingKeepsInv DEF Asks
<1>2. ASSUME NEW model \in Models, NEW listed \in BOOLEAN, Pings(model, listed)
      PROVE  ResidencyInv'
  BY <1>2, ResolvingKeepsInv, ResidencyAssumption DEF Pings
<1>3. ASSUME NEW c \in Callers, NEW made \in Cached(spec[c]), pc[c] \in {"resolved", "missed"},
             Takes(c, made), UNCHANGED <<clients, cleared, clientsLock, spec>>
      PROVE  ResidencyInv'
  <2>1. Alone(c) /\ pc'[c] = "calls" /\ client'[c] = made /\ spec'[c] = spec[c]
    BY <1>3 DEF Takes, Alone, OfCallers, ResidencyInv
  <2> QED BY <1>3, <2>1, TakingKeepsInv
<1>4. ASSUME NEW c \in Callers, Looks(c) PROVE ResidencyInv'
  <2>1. pc[c] = "resolved" /\ UNCHANGED <<clients, cleared, clientsLock, spec>>
    BY <1>4 DEF Looks, clientVars
  <2>2. CASE \E made \in Cached(spec[c]) : Takes(c, made)
    BY <1>3, <2>1, <2>2
  <2>3. CASE pc' = [pc EXCEPT ![c] = "missed"] /\ UNCHANGED client
    <3>1. Alone(c) /\ pc'[c] = "missed"
      BY <2>1, <2>3 DEF Alone, OfCallers, ResidencyInv
    <3> QED BY <2>1, <3>1, LeavingKeepsInv
  <2> QED BY <1>4, <2>2, <2>3 DEF Looks
<1>5. ASSUME NEW c \in Callers, Enters(c) PROVE ResidencyInv'
  <2>1. pc[c] = "missed" /\ clientsLock = Nobody /\ UNCHANGED <<clients, cleared, spec>>
    BY <1>5 DEF Enters
  <2>2. CASE (\E made \in Cached(spec[c]) : Takes(c, made)) /\ UNCHANGED clientsLock
    BY <1>3, <2>1, <2>2
  <2>3. CASE /\ Cached(spec[c]) = {} /\ clientsLock' = c
             /\ pc' = [pc EXCEPT ![c] = "builds"] /\ UNCHANGED client
    <3>1. /\ OfCallers(pc') /\ OfCallers(spec') /\ OfCallers(client')
          /\ pc'[c] = "builds" /\ \A d \in Callers : d # c => pc'[d] = pc[d]
      BY <2>1, <2>3 DEF OfCallers, ResidencyInv
    <3>2. \A d \in Callers : /\ pc'[d] = "builds" <=> clientsLock' = d
                             /\ pc'[d] = "builds" => Cached(spec[d])' = {}
      <4> TAKE d \in Callers
      <4>1. Cached(spec[d])' = Cached(spec[d]) /\ pc[d] # "builds"
        BY <2>1, ResidencyAssumption DEF Cached, CacheKey, ResidencyInv
      <4> QED BY <2>3, <3>1, <4>1
    <3>3. ClientsAgree'
      BY <2>1 DEF ResidencyInv, ClientsAgree, CacheKey
    <3>4. \A d \in Callers : Holds(d)'
      BY <2>1, <2>3, <3>1 DEF ResidencyInv, Holds, CacheKey
    <3>5. OneClientPerKey'
      BY <2>1, <2>3, <3>1 DEF ResidencyInv, OneClientPerKey, CacheKey
    <3> QED BY <2>1, <2>3, <3>1, <3>2, <3>3, <3>4, <3>5 DEF ResidencyInv
  <2> QED BY <1>5, <2>2, <2>3 DEF Enters
<1>6. ASSUME NEW c \in Callers, BuildFails(c) \/ Returns(c) PROVE ResidencyInv'
  <2>1. Alone(c) /\ pc'[c] = "idle"
    BY <1>6 DEF BuildFails, Returns, Ends, clientVars, Alone, OfCallers, ResidencyInv
  <2>2. clientsLock' = IF pc[c] = "builds" THEN Nobody ELSE clientsLock
    BY <1>6 DEF BuildFails, Returns, clientVars
  <2> QED BY <2>1, <2>2, LeavingKeepsInv
<1>7. CASE \/ EncoderResolves \/ StoresKey \/ Warms \/ Warmed \/ UNCHANGED residencyVars
           \/ \E role \in Roles, model \in Models : Selects(role, model)
           \/ \E role \in Roles : ReleasesModel(role)
           \/ \E model \in Models : Posts(model)
  BY <1>7, ElsewhereKeepsInv DEF EncoderResolves, StoresKey, Warms, Warmed, Selects, ReleasesModel,
     Posts, residencyVars, clientVars, callVars
<1> QED BY <1>1, <1>2, <1>4, <1>5, <1>6, <1>7, BuildingKeepsInv, ClearingKeepsInv DEF ResidencyNext

(* Whoever holds a client of the latest generation holds the cached one, and *)
(* one caller at a time adds to the cache (get_client, clear_cache).         *)
THEOREM ResidencyInvariance == ResidencySpec => []ResidencyInv
BY ResidencyInitInv, ResidencyStepsKeepInv, PTL DEF ResidencySpec

-----------------------------------------------------------------------------
\* What the downloads' invariant is for.
LEMMA PullsFollow == ASSUME DownloadsInv PROVE OnePullPerProvider /\ CompletedIsInstalled
<1>1. ASSUME NEW d \in Started PROVE downloads[d].status = "completed" => downloads[d].said = "success"
  BY DEF DownloadsInv, Recorded, Terminal
<1>2. {d \in Started : downloads[d].at = "pulling"} \subseteq Active(rows)
  <2> SUFFICES ASSUME NEW d \in Started, downloads[d].at = "pulling" PROVE d \in Active(rows)
    OBVIOUS
  <2>1. /\ downloads[d].name \in Names /\ rows[downloads[d].name] = d /\ d # 0 /\ ~IsTerminal(d)
        /\ rows \in [Names -> {0} \cup Started]
    BY DownloadTypes DEF DownloadsInv, Downloads, Recorded, IsTerminal
  <2> QED BY <2>1 DEF Active, Shown, Range
<1>3. OnePullPerProvider
  BY <1>2, ActiveAreStarted, FS_Subset, FS_CardinalityType, DownloadsAssumption
  DEF DownloadsInv, OnePullPerProvider
<1> QED BY <1>1, <1>3 DEF CompletedIsInstalled

(* No provider pulls more than it may, what is shown as completed is there,  *)
(* assignments fit the mode, rows of a hidden table stay home and one client *)
(* serves a key, for every number of names, providers, callers and bounds    *)
(* (Services).                                                               *)
THEOREM ModelsStayInOrder ==
    DownloadsSpec /\ RoutingSpec /\ ResidencySpec => []ModelsAreInOrder
<1>1. ASSUME DownloadsInv, RoutingInv, ResidencyInv PROVE ModelsAreInOrder
  BY <1>1, PullsFollow DEF ModelsAreInOrder, RoutingInv, ResidencyInv
<1> QED BY <1>1, DownloadsInvariance, RoutingInvariance, ResidencyInvariance, PTL

-----------------------------------------------------------------------------
(***************************************************************************)
(* The skills on disk and the registry, for any number of requests and     *)
(* commits.                                                                *)
(*                                                                         *)
(* A scan may have begun before the last change of the files. It is right  *)
(* nevertheless, because the reload that ends the change waits for it: as  *)
(* long as nothing is pending, what a scan has seen so far is what the     *)
(* layers below say, and no file has changed since it began.               *)
(***************************************************************************)

SkillShown == [layer : {0} \cup Layers, content : Content, pin : Content]
Jobs ==
    [op : {"preview", "approve", "update", "write", "uninstall"}, sha : Content, text : Content,
     at : {"stage", "stamp", "read", "put", "record", "reload", "unstage", "forget"}]

SkillsTyped ==
    /\ upstream \in Commits
    /\ staged \in [text : Content, stamp : Content]
    /\ files \in [Layers -> Maybe(Content)] /\ index \in Content
    /\ cache \subseteq SkillShown
    /\ scan \in [at : 0 .. 4, seen : SkillShown]
    /\ unread \in BOOLEAN
    /\ job \in [Clients -> {NoJob} \cup Jobs]

\* No request stands between its write and its reload, and none has failed there.
Settles == ~unread /\ \A c \in Clients : job[c] # NoJob => job[c].at \notin {"record", "reload"}

\* The skill is the one the layers below n define.
Shows(skill, n) ==
    /\ skill.layer = 0 => skill.content = 0
    /\ skill.layer # 0 => skill.layer < n /\ files[skill.layer] = {skill.content}
    /\ \A layer \in Layers : skill.layer < layer /\ layer < n => files[layer] = {}

RegistryAgrees ==
    Settles => /\ scan.at # 0 => Shows(scan.seen, scan.at)
               /\ \A skill \in cache : Shows(skill, 4)

SkillsInv == SkillsTyped /\ RegistryAgrees

LEMMA SkillsInitInv == SkillsInit => SkillsInv
<1> SUFFICES ASSUME SkillsInit PROVE SkillsInv
  OBVIOUS
<1>1. 0 \in Content /\ 1 \in Commits /\ {0} \in Maybe(Content) /\ {} \in Maybe(Content)
  BY SkillsAssumption DEF Content, Commits, Maybe
<1>2. files \in [Layers -> Maybe(Content)]
  <2>1. files \in [Layers -> Maybe({0})] /\ Maybe({0}) \subseteq Maybe(Content)
    BY <1>1 DEF SkillsInit, Maybe
  <2> QED BY <2>1
<1>3. NoSkill \in SkillShown
  BY <1>1 DEF NoSkill, SkillShown
<1>4. NotStaged \in [text : Content, stamp : Content] /\ NoScan \in [at : 0 .. 4, seen : SkillShown]
  BY <1>1, <1>3 DEF NotStaged, NoScan
<1>5. job \in [Clients -> {NoJob} \cup Jobs]
  BY DEF SkillsInit
<1>6. SkillsTyped
  BY <1>1, <1>2, <1>4, <1>5 DEF SkillsInit, SkillsTyped
<1> QED BY <1>6 DEF SkillsInit, SkillsInv, RegistryAgrees, NoScan

\* What agrees with every layer is what is on disk.
LEMMA ShownIsOnDisk ==
    ASSUME SkillsTyped, NEW skill \in SkillShown, Shows(skill, 4)
    PROVE  <<skill.layer, {skill.content}>> = OnDisk
<1> DEFINE defining == {layer \in Layers : files[layer] # {}}
<1>1. CASE skill.layer = 0
  <2>1. skill.content = 0 /\ defining = {}
    BY <1>1 DEF Shows, Layers
  <2> QED BY <1>1, <2>1 DEF OnDisk
<1>2. CASE skill.layer # 0
  <2>1. /\ skill.layer \in Layers /\ files[skill.layer] = {skill.content}
        /\ \A layer \in Layers : skill.layer < layer => files[layer] = {}
    BY <1>2 DEF Shows, SkillShown, Layers
  <2>2. skill.layer \in defining /\ \A other \in defining : other <= skill.layer
    BY <2>1 DEF Layers
  <2>3. \A top \in defining : (\A other \in defining : other <= top) => top = skill.layer
    BY <2>2 DEF Layers
  <2>4. (CHOOSE top \in defining : \A other \in defining : other <= top) = skill.layer
    BY <2>2, <2>3
  <2> QED BY <2>1, <2>2, <2>4 DEF OnDisk
<1> QED BY <1>1, <1>2

LEMMA RegistryFollows == ASSUME SkillsInv PROVE RegistryIsCurrent
BY ShownIsOnDisk DEF SkillsInv, SkillsTyped, RegistryAgrees, Settles, RegistryIsCurrent

\* While the files, the scan and the cache stay as they are they agree.
LEMMA StayingAgrees ==
    ASSUME SkillsInv, UNCHANGED <<files, scan, cache>>, Settles' => Settles
    PROVE  RegistryAgrees'
BY DEF SkillsInv, RegistryAgrees, Shows

\* What a request is when it goes on or ends.
LEMMA JobGoesOn ==
    ASSUME SkillsTyped, NEW c \in Clients, NEW state \in {NoJob} \cup Jobs,
           job' = [job EXCEPT ![c] = state]
    PROVE  /\ job' \in [Clients -> {NoJob} \cup Jobs] /\ job'[c] = state
           /\ \A d \in Clients : d # c => job'[d] = job[d]
BY DEF SkillsTyped

\* What is known of a request that is somewhere.
LEMMA JobIsTyped ==
    ASSUME SkillsTyped, NEW c \in Clients, job[c] # NoJob
    PROVE  /\ job[c] \in Jobs /\ job[c].sha \in Content /\ job[c].text \in Content
           /\ \A at \in {"stage", "stamp", "read", "put", "record", "reload", "unstage", "forget"} :
                /\ [job[c] EXCEPT !.at = at] \in Jobs
                /\ [job[c] EXCEPT !.at = at].at = at
                /\ [job[c] EXCEPT !.at = at] # NoJob
<1>1. job[c] \in Jobs
  BY DEF SkillsTyped
<1>2. ASSUME NEW at \in {"stage", "stamp", "read", "put", "record", "reload", "unstage", "forget"}
      PROVE  /\ [job[c] EXCEPT !.at = at] \in Jobs
             /\ [job[c] EXCEPT !.at = at].at = at
             /\ [job[c] EXCEPT !.at = at].op # "idle"
  BY <1>1 DEF Jobs
<1>3. NoJob.op = "idle"
  BY DEF NoJob
<1> QED BY <1>1, <1>2, <1>3 DEF Jobs

\* A request goes on without a file, or fails, or leaves something pending.
LEMMA GoingOnKeepsInv ==
    ASSUME SkillsInv, NEW c \in Clients, NEW state \in {NoJob} \cup Jobs,
           job' = [job EXCEPT ![c] = state], UNCHANGED <<upstream, files, cache, scan>>,
           staged' \in [text : Content, stamp : Content], index' \in Content, unread' \in BOOLEAN,
           \/ state # NoJob /\ state.at \in {"record", "reload"}
           \/ unread' = TRUE
           \/ unread' = unread /\ (job[c] # NoJob => job[c].at \notin {"record", "reload"})
    PROVE  SkillsInv'
<1>1. /\ job' \in [Clients -> {NoJob} \cup Jobs] /\ job'[c] = state
      /\ \A d \in Clients : d # c => job'[d] = job[d]
  BY JobGoesOn DEF SkillsInv
<1>2. Settles' => Settles
  BY <1>1 DEF Settles
<1> QED BY <1>1, <1>2, StayingAgrees DEF SkillsInv, SkillsTyped

\* A request that writes a file has its reload before it.
LEMMA WritingKeepsInv ==
    ASSUME SkillsInv, NEW c \in Clients, NEW state \in Jobs,
           job' = [job EXCEPT ![c] = state], state.at \in {"record", "reload"},
           files' \in [Layers -> Maybe(Content)],
           UNCHANGED <<upstream, staged, index, cache, scan, unread>>
    PROVE  SkillsInv'
<1>1. /\ job' \in [Clients -> {NoJob} \cup Jobs] /\ job'[c] = state
  BY JobGoesOn DEF SkillsInv
<1>2. state # NoJob
  <2>1. NoJob.op = "idle" /\ state.op # "idle"
    BY DEF NoJob, Jobs
  <2> QED BY <2>1
<1>3. ~Settles'
  BY <1>1, <1>2 DEF Settles
<1> QED BY <1>1, <1>3 DEF SkillsInv, SkillsTyped, RegistryAgrees

\* A registry that is empty and not being filled shows nothing wrong.
LEMMA DroppingKeepsInv ==
    ASSUME SkillsInv, job' \in [Clients -> {NoJob} \cup Jobs], cache' = {}, scan' = NoScan,
           unread' = FALSE, UNCHANGED <<upstream, staged, files, index>>
    PROVE  SkillsInv'
<1>1. NoScan \in [at : 0 .. 4, seen : SkillShown] /\ NoScan.at = 0
  BY SkillsAssumption DEF NoScan, NoSkill, SkillShown, Content
<1> QED BY <1>1 DEF SkillsInv, SkillsTyped, RegistryAgrees

LEMMA ScanningKeepsInv ==
    ASSUME SkillsInv, Scans \/ ScansLayer \/ ScanEnds
    PROVE  SkillsInv'
<1> USE DEF SkillsInv
<1>1. CASE Scans
  <2>1. /\ scan' = [at |-> 1, seen |-> NoSkill]
        /\ UNCHANGED <<upstream, staged, files, index, cache, job, unread>>
    BY <1>1 DEF Scans, NoScan
  <2>2. NoSkill \in SkillShown /\ NoSkill.layer = 0 /\ NoSkill.content = 0
    BY SkillsAssumption DEF NoSkill, SkillShown, Content
  <2>3. Shows(NoSkill, 1)'
    BY <2>2 DEF Shows, Layers
  <2> QED BY <1>1, <2>1, <2>2, <2>3 DEF Scans, SkillsTyped, RegistryAgrees
<1>2. CASE ScansLayer
  <2> DEFINE at == scan.at
             seen == IF files[scan.at] = {} THEN scan.seen
                     ELSE [layer |-> scan.at, pin |-> 0,
                           content |-> CHOOSE content \in files[scan.at] : TRUE]
  <2>1. /\ at \in Layers /\ scan' = [at |-> at + 1, seen |-> seen]
        /\ UNCHANGED <<upstream, staged, files, index, cache, job, unread>>
    BY <1>2 DEF ScansLayer
  <2>2. files[at] # {} => \E content \in Content : files[at] = {content} /\ seen.content = content
    BY <2>1 DEF SkillsTyped, Maybe
  <2>3. seen \in SkillShown
    <3>1. CASE files[at] = {}
      BY <3>1 DEF SkillsTyped
    <3>2. CASE files[at] # {}
      <4>1. PICK content \in Content : files[at] = {content} /\ seen.content = content
        BY <2>2, <3>2
      <4>2. seen = [layer |-> at, pin |-> 0, content |-> content]
        BY <3>2, <4>1
      <4>3. 0 \in Content /\ at \in {0} \cup Layers
        BY SkillsAssumption, <2>1 DEF Content
      <4> HIDE DEF at, seen
      <4> QED BY <4>1, <4>2, <4>3 DEF SkillShown
    <3> QED BY <3>1, <3>2
  <2>4. ASSUME Shows(scan.seen, at) PROVE Shows(seen, at + 1)
    <3>1. CASE files[at] = {}
      <4>1. scan.seen.layer \in 0 .. 3
        BY DEF SkillsTyped, SkillShown, Layers
      <4> QED BY <2>1, <2>4, <3>1, <4>1 DEF Shows, Layers
    <3>2. CASE files[at] # {}
      <4>1. files[at] = {seen.content} /\ seen.layer = at
        BY <2>2, <3>2
      <4> HIDE DEF seen
      <4> QED BY <2>1, <4>1 DEF Shows, Layers
    <3> QED BY <3>1, <3>2
  <2> HIDE DEF seen
  <2>5. scan' \in [at : 0 .. 4, seen : SkillShown] /\ scan'.at = at + 1 /\ scan'.seen = seen
    BY <2>1, <2>3 DEF Layers
  <2>6. Settles' = Settles /\ scan.at # 0
    BY <2>1 DEF Settles, Layers
  <2>7. RegistryAgrees'
    BY <2>1, <2>4, <2>5, <2>6 DEF RegistryAgrees, Shows
  <2> QED BY <2>1, <2>5, <2>7 DEF SkillsTyped
<1>3. CASE ScanEnds
  <2> DEFINE skill == [scan.seen EXCEPT !.pin = IF scan.seen.layer = User THEN index ELSE 0]
  <2>1. /\ cache' = {skill} /\ scan' = NoScan /\ scan.at = 4
        /\ UNCHANGED <<upstream, staged, files, index, job, unread>>
    BY <1>3 DEF ScanEnds
  <2>2. /\ skill \in SkillShown
        /\ skill.layer = scan.seen.layer /\ skill.content = scan.seen.content
    BY SkillsAssumption DEF SkillsTyped, SkillShown, Content
  <2>3. NoScan \in [at : 0 .. 4, seen : SkillShown] /\ NoScan.at = 0
    BY SkillsAssumption DEF NoScan, NoSkill, SkillShown, Content
  <2>4. Shows(scan.seen, 4) => Shows(skill, 4)
    BY <2>2 DEF Shows
  <2> HIDE DEF skill
  <2>5. Settles' = Settles
    BY <2>1 DEF Settles
  <2>6. RegistryAgrees'
    BY <2>1, <2>3, <2>4, <2>5 DEF RegistryAgrees, Shows
  <2> QED BY <2>1, <2>2, <2>3, <2>6 DEF SkillsTyped
<1> QED BY <1>1, <1>2, <1>3

\* The files with one of them replaced or gone.
LEMMA FilesAreTyped ==
    ASSUME SkillsTyped, NEW layer, NEW file \in Maybe(Content)
    PROVE  [files EXCEPT ![layer] = file] \in [Layers -> Maybe(Content)]
BY DEF SkillsTyped

LEMMA RequestsKeepInv ==
    ASSUME SkillsInv, NEW c \in Clients,
           \/ Previews(c) \/ Stages(c) \/ Discards(c)
           \/ Approves(c) \/ ReadsStaged(c) \/ PutsApproved(c)
           \/ Updates(c) \/ PutsUpdate(c) \/ RecordsPin(c)
           \/ Writes(c) \/ Uninstalls(c) \/ Reloads(c)
           \/ Unstages(c) \/ ForgetsRecord(c) \/ Fails(c)
    PROVE  SkillsInv'
<1> USE DEF SkillsInv
<1>0. /\ SkillsTyped /\ 0 \in Content /\ {0} \in Maybe(Content) /\ {} \in Maybe(Content)
      /\ upstream \in Content /\ staged.text \in Content /\ staged.stamp \in Content
      /\ unread \in BOOLEAN /\ index \in Content
      /\ {staged, NotStaged} \subseteq [text : Content, stamp : Content]
      /\ \A text \in Content : {text} \in Maybe(Content)
  BY SkillsAssumption DEF SkillsTyped, Content, Commits, Maybe, NotStaged
<1>1. ASSUME NEW op \in {"preview", "approve", "update", "write", "uninstall"},
             NEW at \in {"stage", "read", "put", "reload", "forget"},
             NEW sha \in Content, NEW text \in Content
      PROVE  /\ [op |-> op, at |-> at, sha |-> sha, text |-> text] \in Jobs
             /\ [op |-> op, at |-> at, sha |-> sha, text |-> text] # NoJob
  <2>1. [op |-> op, at |-> at, sha |-> sha, text |-> text].op # NoJob.op
    BY DEF NoJob
  <2> QED BY <2>1 DEF Jobs
<1>2. CASE Previews(c) \/ Approves(c) \/ Updates(c)
  <2>1. UNCHANGED <<upstream, staged, files, index, cache, scan, unread>> /\ job[c] = NoJob
    BY <1>2 DEF Previews, Approves, Updates
  <2>2. ASSUME NEW op \in {"preview", "approve", "update"}, NEW at \in {"stage", "read", "put"},
               NEW sha \in Content, NEW text \in Content, Does(c, op, at, sha, text)
        PROVE  SkillsInv'
    <3> DEFINE state == [op |-> op, at |-> at, sha |-> sha, text |-> text]
    <3>1. state \in Jobs /\ state # NoJob
      BY <1>1
    <3>2. job' = [job EXCEPT ![c] = state]
      BY <2>2 DEF Does
    <3> HIDE DEF state
    <3> QED BY <1>0, <2>1, <3>1, <3>2, GoingOnKeepsInv
  <2>3. CASE Previews(c)
    BY <1>0, <2>2, <2>3 DEF Previews
  <2>4. CASE Approves(c)
    BY <1>0, <2>2, <2>4 DEF Approves
  <2>5. CASE Updates(c)
    BY <1>0, <2>2, <2>5 DEF Updates
  <2> QED BY <1>2, <2>3, <2>4, <2>5
<1>3. CASE Stages(c)
  <2>1. UNCHANGED <<upstream, files, index, cache, scan, unread>>
        /\ job[c] # NoJob /\ job[c].at \in {"stage", "stamp"}
    BY <1>3 DEF Stages, JobIsAt
  <2>2. staged' \in [text : Content, stamp : Content]
    BY <1>3, <2>1, JobIsTyped DEF Stages, SkillsTyped
  <2>3. \E state \in {NoJob} \cup Jobs : job' = [job EXCEPT ![c] = state]
    BY <1>3, <2>1, JobIsTyped DEF Stages, JobGoes, EndsJob
  <2> QED BY <1>0, <2>1, <2>2, <2>3, GoingOnKeepsInv
<1>4. CASE Discards(c)
  BY <1>0, <1>4, StayingAgrees DEF Discards, SkillsTyped, Settles
<1>5. CASE ReadsStaged(c)
  <2>1. UNCHANGED <<upstream, staged, files, index, cache, scan, unread>>
        /\ job[c] # NoJob /\ job[c].at = "read"
    BY <1>5 DEF ReadsStaged, JobIsAt
  <2> DEFINE state == [op |-> "approve", at |-> "put", sha |-> job[c].sha, text |-> staged.text]
  <2>2. job' = [job EXCEPT ![c] = state]
    BY <1>5 DEF ReadsStaged, Does
  <2>3. job[c].sha \in Content
    BY <1>0, <2>1, JobIsTyped
  <2>4. state \in Jobs
    BY <1>0, <1>1, <2>3
  <2> HIDE DEF state
  <2> QED BY <1>0, <2>1, <2>2, <2>4, GoingOnKeepsInv
<1>6. CASE PutsApproved(c) \/ PutsUpdate(c)
  <2>1. UNCHANGED <<upstream, staged, index, cache, scan, unread>> /\ job[c] # NoJob
    BY <1>6 DEF PutsApproved, PutsUpdate, JobIsAt
  <2>2. files' \in [Layers -> Maybe(Content)]
    <3>1. {job[c].text} \in Maybe(Content)
      BY <1>0, <2>1, JobIsTyped
    <3>2. PICK layer : files' = [files EXCEPT ![layer] = {job[c].text}]
      BY <1>6 DEF PutsApproved, PutsUpdate
    <3> QED BY <1>0, <3>1, <3>2, FilesAreTyped
  <2>3. \E state \in Jobs : job' = [job EXCEPT ![c] = state] /\ state.at = "record"
    BY <1>0, <1>6, <2>1, JobIsTyped DEF PutsApproved, PutsUpdate, JobGoes
  <2> QED BY <2>1, <2>2, <2>3, WritingKeepsInv
<1>7. CASE RecordsPin(c)
  <2>1. UNCHANGED <<upstream, staged, files, cache, scan, unread>> /\ job[c] # NoJob
    BY <1>7 DEF RecordsPin, JobIsAt
  <2>2. index' \in Content
    BY <1>0, <1>7, <2>1, JobIsTyped DEF RecordsPin
  <2>3. \E state \in Jobs : job' = [job EXCEPT ![c] = state] /\ state.at = "reload" /\ state # NoJob
    BY <1>0, <1>7, <2>1, JobIsTyped DEF RecordsPin, JobGoes
  <2> QED BY <1>0, <2>1, <2>2, <2>3, GoingOnKeepsInv DEF SkillsTyped
<1>8. CASE Writes(c)
  <2>1. UNCHANGED <<upstream, staged, index, cache, scan, unread>>
    BY <1>8 DEF Writes
  <2>2. files' \in [Layers -> Maybe(Content)]
    BY <1>0, <1>8, FilesAreTyped DEF Writes
  <2>3. job' = [job EXCEPT ![c] = [op |-> "write", at |-> "reload", sha |-> 0, text |-> 0]]
    BY <1>8 DEF Writes, Does
  <2>4. [op |-> "write", at |-> "reload", sha |-> 0, text |-> 0] \in Jobs
    BY <1>0, <1>1
  <2> QED BY <2>1, <2>2, <2>3, <2>4, WritingKeepsInv
<1>9. CASE Uninstalls(c)
  <2>1. UNCHANGED <<upstream, staged, index, cache, scan, unread>> /\ job[c] = NoJob
    BY <1>9 DEF Uninstalls
  <2>2. CASE /\ \E layer : files' = [files EXCEPT ![layer] = {}]
             /\ Does(c, "uninstall", "reload", 0, 0)
    <3>1. files' \in [Layers -> Maybe(Content)]
      BY <1>0, <2>2, FilesAreTyped
    <3>2. job' = [job EXCEPT ![c] = [op |-> "uninstall", at |-> "reload", sha |-> 0, text |-> 0]]
      BY <2>2 DEF Does
    <3>3. [op |-> "uninstall", at |-> "reload", sha |-> 0, text |-> 0] \in Jobs
      BY <1>0, <1>1
    <3> QED BY <2>1, <3>1, <3>2, <3>3, WritingKeepsInv
  <2>3. CASE Does(c, "uninstall", "forget", 0, 0) /\ UNCHANGED files
    <3> DEFINE state == [op |-> "uninstall", at |-> "forget", sha |-> 0, text |-> 0]
    <3>1. state \in Jobs
      BY <1>0, <1>1
    <3>2. job' = [job EXCEPT ![c] = state]
      BY <2>3 DEF Does
    <3> HIDE DEF state
    <3> QED BY <1>0, <2>1, <2>3, <3>1, <3>2, GoingOnKeepsInv
  <2> QED BY <1>9, <2>2, <2>3 DEF Uninstalls
<1>10. CASE Reloads(c)
  <2>1. job[c] # NoJob /\ Drops /\ UNCHANGED <<upstream, staged, files, index, scan>>
    BY <1>10 DEF Reloads, JobIsAt
  <2>2. \E state \in {NoJob} \cup Jobs : job' = [job EXCEPT ![c] = state]
    BY <1>10, <2>1, JobIsTyped DEF Reloads, JobGoes, EndsJob
  <2>3. job' \in [Clients -> {NoJob} \cup Jobs]
    BY <1>0, <2>2, JobGoesOn
  <2> QED BY <2>1, <2>3, DroppingKeepsInv DEF Drops
<1>11. CASE Unstages(c) \/ ForgetsRecord(c)
  <2>1. /\ UNCHANGED <<upstream, files, cache, scan, unread>> /\ job[c].at \in {"unstage", "forget"}
        /\ job' = [job EXCEPT ![c] = NoJob]
    BY <1>11 DEF Unstages, ForgetsRecord, JobIsAt, EndsJob
  <2>2. staged' \in [text : Content, stamp : Content] /\ index' \in Content
    BY <1>0, <1>11 DEF Unstages, ForgetsRecord, SkillsTyped
  <2> QED BY <1>0, <2>1, <2>2, GoingOnKeepsInv
<1>12. CASE Fails(c)
  <2>1. /\ UNCHANGED <<upstream, staged, files, index, cache, scan>>
        /\ job' = [job EXCEPT ![c] = NoJob] /\ job[c].at # "reload"
        /\ unread' = (unread \/ job[c].at = "record")
    BY <1>12 DEF Fails, EndsJob
  <2>2. unread' \in BOOLEAN /\ (unread' = TRUE \/ (unread' = unread /\ job[c].at # "record"))
    BY <1>0, <2>1
  <2> QED BY <1>0, <2>1, <2>2, GoingOnKeepsInv DEF SkillsTyped
<1> QED BY <1>2, <1>3, <1>4, <1>5, <1>6, <1>7, <1>8, <1>9, <1>10, <1>11, <1>12

LEMMA SkillsStepsKeepInv == ASSUME SkillsInv, [SkillsNext]_skillVars PROVE SkillsInv'
<1>1. CASE CommitsUpstream
  <2>1. upstream' \in Commits
    BY <1>1, SkillsAssumption DEF CommitsUpstream, SkillsInv, SkillsTyped, Commits
  <2>2. Settles' = Settles
    BY <1>1 DEF CommitsUpstream, Settles
  <2> QED BY <1>1, <2>1, <2>2, StayingAgrees DEF CommitsUpstream, SkillsInv, SkillsTyped
<1>2. CASE SkillsCrash
  BY <1>2, DroppingKeepsInv DEF SkillsCrash
<1>3. CASE UNCHANGED skillVars
  <2>1. Settles' = Settles
    BY <1>3 DEF skillVars, Settles
  <2> QED BY <1>3, <2>1, StayingAgrees DEF skillVars, SkillsInv, SkillsTyped
<1> QED BY <1>1, <1>2, <1>3, ScanningKeepsInv, RequestsKeepInv DEF SkillsNext

(* As long as nothing is pending, what a scan has seen and what the registry *)
(* keeps is what the files say (reload, _load).                              *)
THEOREM SkillsInvariance == SkillsSpec => []SkillsInv
BY SkillsInitInv, SkillsStepsKeepInv, PTL DEF SkillsSpec

-----------------------------------------------------------------------------
(***************************************************************************)
(* What is under review. A second approval may throw away what a preview   *)
(* stages meanwhile, so the promise is proved for a single client, who     *)
(* makes one request after another.                                        *)
(***************************************************************************)

OneClient == \A c, d \in Clients : c = d

\* An approval holds the copy that is staged, and what it has done so far is there.
Approving(request, copy, onDisk, pin) ==
    /\ request.at \in {"read", "put", "record", "reload", "unstage"}
    /\ request.sha = copy.stamp
    /\ request.at # "read" => request.text = copy.text
    /\ request.at \in {"record", "reload", "unstage"} => onDisk = {request.text}
    /\ request.at \in {"reload", "unstage"} => pin = request.sha

ReviewAgrees ==
    \A c \in Clients : job[c] # NoJob =>
        /\ job[c].op = "preview" => job[c].sha \in Commits
        /\ job[c].op = "approve" => Approving(job[c], staged, files[User], index)

\* Of a single client there is a single request.
LEMMA OnlyRequest ==
    ASSUME OneClient, SkillsTyped, NEW c \in Clients, NEW state \in {NoJob} \cup Jobs,
           job' = [job EXCEPT ![c] = state],
           state = NoJob \/ (/\ state.op = "preview" => state.sha \in Commits
                             /\ state.op = "approve" => Approving(state, staged', files'[User], index'))
    PROVE  ReviewAgrees'
<1>1. \A d \in Clients : job'[d] = state
  BY JobGoesOn DEF OneClient
<1> QED BY <1>1 DEF ReviewAgrees, Commits

\* A request goes on to another step.
LEMMA RequestGoesOn ==
    ASSUME OneClient, SkillsTyped, ReviewAgrees, NEW c \in Clients, job[c] # NoJob,
           NEW at \in {"stage", "stamp", "read", "put", "record", "reload", "unstage", "forget"},
           JobGoes(c, at),
           job[c].op = "approve" =>
               Approving([job[c] EXCEPT !.at = at], staged', files'[User], index')
    PROVE  ReviewAgrees'
<1> DEFINE state == [job[c] EXCEPT !.at = at]
<1>1. job[c] \in Jobs /\ state \in Jobs
  BY JobIsTyped
<1>2. state.op = job[c].op /\ state.sha = job[c].sha
  BY <1>1 DEF Jobs
<1>3. job' = [job EXCEPT ![c] = state]
  BY DEF JobGoes
<1>4. job[c].op = "preview" => job[c].sha \in Commits
  BY DEF ReviewAgrees
<1> HIDE DEF state
<1>5. job[c].op = "approve" => Approving(state, staged', files'[User], index')
  BY DEF state
<1> QED BY <1>1, <1>2, <1>3, <1>4, <1>5, OnlyRequest

\* A request begins, or is another than before.
LEMMA RequestBegins ==
    ASSUME OneClient, SkillsTyped, NEW c \in Clients,
           NEW op \in {"preview", "approve", "update", "write", "uninstall"},
           NEW at \in {"stage", "read", "put", "reload", "forget"},
           NEW sha \in Content, NEW text \in Content, Does(c, op, at, sha, text),
           op = "preview" => sha \in Commits,
           op = "approve" =>
               Approving([op |-> op, at |-> at, sha |-> sha, text |-> text],
                         staged', files'[User], index')
    PROVE  ReviewAgrees'
<1> DEFINE state == [op |-> op, at |-> at, sha |-> sha, text |-> text]
<1>1. /\ state \in Jobs /\ state.op = op /\ state.sha = sha
      /\ job' = [job EXCEPT ![c] = state]
  BY DEF Jobs, Does
<1>2. op = "approve" => Approving(state, staged', files'[User], index')
  OBVIOUS
<1> HIDE DEF state
<1> QED BY <1>1, <1>2, OnlyRequest

LEMMA ReviewsKeepAgreeing ==
    ASSUME OneClient, SkillsInv, ReviewAgrees, [SkillsNext]_skillVars
    PROVE  ReviewAgrees'
<1> USE DEF SkillsInv
<1>1. /\ SkillsTyped /\ 0 \in Content /\ upstream \in Commits /\ upstream \in Content
      /\ staged.text \in Content /\ staged.stamp \in Content
      /\ files \in [Layers -> Maybe(Content)] /\ User \in Layers
  BY SkillsAssumption DEF SkillsTyped, Content, Commits, User, Layers
<1>2. ASSUME UNCHANGED <<staged, files, index, job>> PROVE ReviewAgrees'
  BY <1>2 DEF ReviewAgrees, Commits
<1>3. CASE SkillsCrash
  BY <1>3 DEF SkillsCrash, ReviewAgrees
<1>4. ASSUME NEW c \in Clients, EndsJob(c) PROVE ReviewAgrees'
  BY <1>1, <1>4, OnlyRequest DEF EndsJob
<1>5. CASE Scans \/ ScansLayer \/ ScanEnds \/ CommitsUpstream \/ UNCHANGED skillVars
  BY <1>2, <1>5 DEF Scans, ScansLayer, ScanEnds, CommitsUpstream, skillVars
<1>6. ASSUME NEW c \in Clients, Previews(c) \/ Updates(c) \/ Writes(c) \/ Uninstalls(c)
      PROVE  ReviewAgrees'
  BY <1>1, <1>6, RequestBegins DEF Previews, Updates, Writes, Uninstalls
<1>7. ASSUME NEW c \in Clients, Stages(c) PROVE ReviewAgrees'
  <2>1. CASE EndsJob(c)
    BY <1>4, <2>1
  <2>2. CASE JobIsAt(c, "preview", "stage") /\ JobGoes(c, "stamp")
    BY <1>1, <2>2, RequestGoesOn DEF JobIsAt
  <2> QED BY <1>7, <2>1, <2>2 DEF Stages
<1>8. ASSUME NEW c \in Clients, Discards(c) PROVE ReviewAgrees'
  <2>1. \A d \in Clients : job'[d] = NoJob
    BY <1>8 DEF Discards, OneClient
  <2> QED BY <2>1 DEF ReviewAgrees
<1>9. ASSUME NEW c \in Clients, Approves(c) PROVE ReviewAgrees'
  <2>1. Approving([op |-> "approve", at |-> "read", sha |-> staged.stamp, text |-> 0],
                  staged', files'[User], index')
    BY <1>9 DEF Approves, Approving
  <2>2. Does(c, "approve", "read", staged.stamp, 0)
    BY <1>9 DEF Approves
  <2> QED BY <1>1, <2>1, <2>2, RequestBegins
<1>10. ASSUME NEW c \in Clients, ReadsStaged(c) PROVE ReviewAgrees'
  <2>1. job[c] # NoJob /\ Approving(job[c], staged, files[User], index) /\ job[c].sha \in Content
    BY <1>1, <1>10, JobIsTyped DEF ReadsStaged, JobIsAt, ReviewAgrees
  <2>2. Does(c, "approve", "put", job[c].sha, staged.text) /\ UNCHANGED <<staged, files, index>>
    BY <1>10 DEF ReadsStaged
  <2>3. Approving([op |-> "approve", at |-> "put", sha |-> job[c].sha, text |-> staged.text],
                  staged', files'[User], index')
    BY <2>1, <2>2 DEF Approving
  <2> QED BY <1>1, <2>1, <2>2, <2>3, RequestBegins
<1>11. ASSUME NEW c \in Clients, PutsApproved(c) PROVE ReviewAgrees'
  <2>1. /\ job[c] # NoJob /\ job[c].at = "put"
        /\ Approving(job[c], staged, files[User], index)
    BY <1>11 DEF PutsApproved, JobIsAt, ReviewAgrees
  <2>2. /\ JobGoes(c, "record") /\ UNCHANGED <<staged, index>>
        /\ files'[User] = {job[c].text}
    BY <1>1, <1>11 DEF PutsApproved
  <2>3. Approving([job[c] EXCEPT !.at = "record"], staged', files'[User], index')
    <3>1. job[c] \in Jobs
      BY <1>1, <2>1, JobIsTyped
    <3> QED BY <2>1, <2>2, <3>1 DEF Approving, Jobs
  <2> QED BY <1>1, <2>1, <2>2, <2>3, RequestGoesOn
<1>12. ASSUME NEW c \in Clients, PutsUpdate(c) PROVE ReviewAgrees'
  BY <1>1, <1>12, RequestGoesOn DEF PutsUpdate, JobIsAt
<1>13. ASSUME NEW c \in Clients, RecordsPin(c) PROVE ReviewAgrees'
  <2>1. /\ job[c] # NoJob /\ job[c].at = "record" /\ job[c] \in Jobs
        /\ job[c].op = "approve" => Approving(job[c], staged, files[User], index)
    BY <1>1, <1>13, JobIsTyped DEF RecordsPin, JobIsAt, ReviewAgrees
  <2>2. JobGoes(c, "reload") /\ UNCHANGED <<staged, files>> /\ index' = job[c].sha
    BY <1>13 DEF RecordsPin
  <2>3. job[c].op = "approve" =>
            Approving([job[c] EXCEPT !.at = "reload"], staged', files'[User], index')
    BY <2>1, <2>2 DEF Approving, Jobs
  <2> QED BY <1>1, <2>1, <2>2, <2>3, RequestGoesOn
<1>14. ASSUME NEW c \in Clients, Reloads(c) PROVE ReviewAgrees'
  <2>1. CASE EndsJob(c)
    BY <1>4, <2>1
  <2>2. CASE JobIsAt(c, "uninstall", "reload") /\ JobGoes(c, "forget")
    BY <1>1, <2>2, RequestGoesOn DEF JobIsAt
  <2>3. CASE JobIsAt(c, "approve", "reload") /\ JobGoes(c, "unstage")
    <3>1. /\ job[c] # NoJob /\ job[c].at = "reload" /\ job[c] \in Jobs
          /\ Approving(job[c], staged, files[User], index)
      BY <1>1, <2>3, JobIsTyped DEF JobIsAt, ReviewAgrees
    <3>2. UNCHANGED <<staged, files, index>>
      BY <1>14 DEF Reloads
    <3>3. Approving([job[c] EXCEPT !.at = "unstage"], staged', files'[User], index')
      BY <3>1, <3>2 DEF Approving, Jobs
    <3> QED BY <1>1, <2>3, <3>1, <3>3, RequestGoesOn
  <2> QED BY <1>14, <2>1, <2>2, <2>3 DEF Reloads
<1>15. ASSUME NEW c \in Clients, Unstages(c) \/ ForgetsRecord(c) \/ Fails(c) PROVE ReviewAgrees'
  BY <1>4, <1>15 DEF Unstages, ForgetsRecord, Fails
<1> QED BY <1>2, <1>3, <1>5, <1>6, <1>7, <1>8, <1>9, <1>10, <1>11, <1>12, <1>13, <1>14, <1>15
        DEF SkillsNext

\* What a step may do to the staged copy.
LEMMA ReviewEndsWell ==
    ASSUME OneClient, SkillsInv, ReviewAgrees, SkillsNext,
           staged # NotStaged, staged' = NotStaged
    PROVE  job' = job \/ (files[User] = {staged.text} /\ index = staged.stamp)
<1>1. PICK c \in Clients : Stages(c) \/ Discards(c) \/ Unstages(c)
  BY DEF SkillsNext, Scans, ScansLayer, ScanEnds, CommitsUpstream, SkillsCrash, Previews, Approves,
         ReadsStaged, PutsApproved, Updates, PutsUpdate, RecordsPin, Writes, Uninstalls, Reloads,
         ForgetsRecord, Fails
<1>2. CASE Stages(c)
  <2>1. job[c].sha # 0 /\ staged \in [text : Content, stamp : Content]
    BY <1>2 DEF Stages, JobIsAt, ReviewAgrees, Commits, SkillsInv, SkillsTyped
  <2>2. staged'.text = job[c].sha \/ staged'.stamp = job[c].sha
    BY <1>2, <2>1 DEF Stages
  <2> QED BY <2>1, <2>2 DEF NotStaged
<1>3. CASE Discards(c)
  BY <1>3 DEF Discards
<1>4. CASE Unstages(c)
  BY <1>4 DEF Unstages, JobIsAt, ReviewAgrees, Approving
<1> QED BY <1>1, <1>2, <1>3, <1>4

(* For a client who makes one request after another, however a write fails   *)
(* or the backend dies, the staged copy goes only when the user throws it    *)
(* away or when its text is onDisk and its commit recorded (approve).     *)
THEOREM ReviewsStand == ASSUME OneClient PROVE SkillsSpec => ReviewStands
<1>1. SkillsInit => ReviewAgrees
  BY DEF SkillsInit, ReviewAgrees
<1>2. ReviewAgrees /\ SkillsInv /\ [SkillsNext]_skillVars => ReviewAgrees'
  BY ReviewsKeepAgreeing
<1>3. /\ SkillsInv /\ ReviewAgrees /\ [SkillsNext]_skillVars
      => [staged # NotStaged /\ staged' = NotStaged =>
            \/ job' = job
            \/ files[User] = {staged.text} /\ index = staged.stamp]_skillVars
  BY ReviewEndsWell
<1> QED BY <1>1, <1>2, <1>3, SkillsInvariance, PTL DEF SkillsSpec, ReviewStands

-----------------------------------------------------------------------------
(***************************************************************************)
(* What comes out of a repository, for any repository and any pushes. The  *)
(* commit is chosen once and a push only adds commits behind it, so what a *)
(* later request is answered is still of the commit that was chosen.       *)
(***************************************************************************)

AtCommit == {"list", "nested", "children", "read", "stage", "done", "write"}
FetchRecords ==
    [op : {"preview", "check", "apply"}, at : AtCommit \cup {"default", "resolve"} \cup Endings,
     source : Source, branch : Refs, sha : Nat, here : Places,
     todo : SUBSET Places, found : SUBSET Places, again : BOOLEAN]
Copies == [source : Source, sha : Nat, text : Nat]

SkillsAmong(places, tree) == {p \in places : HoldsSkill(tree[p])}
VisibleAt(tree, path) ==
    {q \in Places \ (Hidden \cup {Root}) : Above[q] = path /\ tree[q] # "absent"}

\* A request is at a commit of the ref it was given.
IsAtItsRef(request, log) ==
    /\ gist => request.source.ref \notin Branches
    /\ request.at = "default" => request.source.ref \notin Branches
    /\ request.at = "resolve" /\ request.source.ref \in Branches =>
            request.branch = request.source.ref
    /\ request.at \in AtCommit =>
        /\ request.sha \in DOMAIN log
        /\ request.op = "preview" /\ request.source.ref \in Branches =>
                log[request.sha].on = request.source.ref

\* What a preview has found and what it has still to list are the skills of its commit.
FindsItsSkills(request, tree) ==
    LET path == request.source.path IN
    /\ request.at \in {"default", "resolve", "list"} /\ request.op = "preview" =>
            request.found = {} /\ request.todo = {}
    /\ request.at = "nested" =>
        /\ ~gist /\ request.found = {} /\ ~HoldsSkill(tree[path])
        /\ Nested # Root /\ Above[Nested] = path
        /\ request.todo = VisibleAt(tree, path)
    /\ request.at = "children" =>
        \/ gist /\ request.found = {} /\ request.todo = {}
        \/ request.found \cup SkillsAmong(request.todo, tree) = SkillsIn(tree, path)
    /\ request.at = "read" =>
        /\ tree[request.here] # "payload"
        /\ request.op = "preview" =>
                request.found \cup {request.here} \cup SkillsAmong(request.todo, tree)
                    = SkillsIn(tree, path)
    /\ request.at \in {"nested", "children", "stage", "done"} => request.op = "preview"
    /\ request.at \in {"stage", "done"} => request.found = SkillsIn(tree, path)

Right(request, log) ==
    IsAtItsRef(request, log) /\ FindsItsSkills(request, log[request.sha].tree)

\* A copy is of the commit it is pinned to, which is one of its ref.
StagedRight(copy, log) ==
    /\ copy.text = copy.sha
    /\ copy.source.ref \in Branches =>
        ~gist /\ copy.sha \in DOMAIN log /\ log[copy.sha].on = copy.source.ref
FollowedRight(copy) ==
    copy.text = copy.sha /\ (gist => copy.source.ref \notin Branches)

RestOfFetchTyped ==
    /\ gist \in BOOLEAN /\ default \in Branches
    /\ commits \in Seq([on : Branches, tree : Trees]) /\ Len(commits) # 0
CopiesAgree ==
    /\ copies \in [Places -> Copies] /\ \A p \in Places : StagedRight(copies[p], commits)
    /\ followed \in Copies /\ FollowedRight(followed)

FetchInv ==
    /\ RestOfFetchTyped /\ CopiesAgree
    /\ fetch \in FetchRecords /\ Right(fetch, commits)

\* What is true of a request that failed.
LEMMA FailedIsRight ==
    /\ NoFetch \in FetchRecords /\ [NoFetch EXCEPT !.at = "unstated"] \in FetchRecords
    /\ NoCopy \in Copies
    /\ \A log : Right(NoFetch, log) /\ Right([NoFetch EXCEPT !.at = "unstated"], log)
                /\ StagedRight(NoCopy, log)
    /\ FollowedRight(NoCopy)
<1>1. "nowhere" \notin Branches /\ Root \in Places /\ NoSource \in Source
  BY FetchAssumption DEF NoSource, Source, Refs, Nowhere
<1>2. /\ NoFetch \in FetchRecords /\ [NoFetch EXCEPT !.at = "unstated"] \in FetchRecords
      /\ NoCopy \in Copies
  BY <1>1 DEF NoFetch, FetchRecords, NoCopy, Copies, Endings, Refs, Nowhere
<1>3. ASSUME NEW request, request.at \in {"failed", "unstated"}, request.source.ref = "nowhere",
             NEW log
      PROVE  Right(request, log)
  BY <1>1, <1>3 DEF Right, IsAtItsRef, FindsItsSkills, AtCommit
<1>4. /\ NoFetch.at = "failed" /\ [NoFetch EXCEPT !.at = "unstated"].at = "unstated"
      /\ NoFetch.source.ref = "nowhere" /\ [NoFetch EXCEPT !.at = "unstated"].source.ref = "nowhere"
  BY DEF NoFetch, NoSource, Nowhere
<1>5. \A log : StagedRight(NoCopy, log) /\ FollowedRight(NoCopy)
  BY <1>1 DEF StagedRight, FollowedRight, NoCopy, NoSource, Nowhere
<1>6. ASSUME NEW log PROVE Right(NoFetch, log) /\ Right([NoFetch EXCEPT !.at = "unstated"], log)
  <2>1. Right(NoFetch, log)
    BY <1>3, <1>4
  <2> DEFINE request == [NoFetch EXCEPT !.at = "unstated"]
  <2>2. request.at = "unstated" /\ request.source.ref = "nowhere"
    BY <1>4
  <2> HIDE DEF request
  <2>3. Right(request, log)
    BY <1>3, <2>2
  <2> QED BY <2>1, <2>3 DEF request
<1> QED BY <1>2, <1>5, <1>6

LEMMA FetchInitInv == ASSUME FetchInit PROVE FetchInv
<1>1. PICK tree \in Trees : commits = <<[on |-> default, tree |-> tree]>>
  BY DEF FetchInit
<1>2. RestOfFetchTyped
  BY <1>1 DEF FetchInit, RestOfFetchTyped
<1> QED BY <1>2, FailedIsRight DEF FetchInit, FetchInv, CopiesAgree

\* A request goes on and nothing else changes.
LEMMA ProceedingKeepsInv ==
    ASSUME FetchInv, NEW next \in FetchRecords, Right(next, commits), fetch' = next,
           UNCHANGED <<gist, default, commits, copies, followed>>
    PROVE  FetchInv'
<1>1. Right(next, commits)'
  BY DEF Right, IsAtItsRef, FindsItsSkills, SkillsIn
<1>2. CopiesAgree' /\ RestOfFetchTyped'
  BY DEF FetchInv, CopiesAgree, RestOfFetchTyped, StagedRight, FollowedRight
<1> QED BY <1>1, <1>2 DEF FetchInv

\* The copies change and the commits do not.
LEMMA CopyingKeepsInv ==
    ASSUME FetchInv, UNCHANGED <<gist, default, commits>>,
           NEW next \in FetchRecords, Right(next, commits), fetch' = next,
           copies' \in [Places -> Copies], \A p \in Places : StagedRight(copies'[p], commits),
           followed' \in Copies, FollowedRight(followed')
    PROVE  FetchInv'
<1>1. Right(fetch, commits)'
  BY DEF Right, IsAtItsRef, FindsItsSkills, SkillsIn
<1>2. CopiesAgree' /\ RestOfFetchTyped'
  BY DEF FetchInv, CopiesAgree, RestOfFetchTyped, StagedRight, FollowedRight
<1> QED BY <1>1, <1>2 DEF FetchInv

-----------------------------------------------------------------------------
\* A skill below an absent directory would be absent.
LEMMA SkillsOfCommit ==
    ASSUME NEW tree \in Trees, NEW path \in Places, ~gist, ~HoldsSkill(tree[path])
    PROVE  LET nests == Nested # Root /\ Above[Nested] = path IN
           /\ nests => SkillsAmong(VisibleAt(tree, path) \cup VisibleAt(tree, Nested), tree)
                           = SkillsIn(tree, path)
           /\ ~(nests /\ tree[Nested] # "absent") =>
                  SkillsAmong(VisibleAt(tree, path), tree) = SkillsIn(tree, path)
<1>1. \A p \in Places : HoldsSkill(tree[p]) => tree[p] # "absent"
  BY DEF HoldsSkill
<1>2. \A p \in Places \ {Root} : Above[p] = Nested /\ tree[p] # "absent" => tree[Nested] # "absent"
  BY FetchAssumption
<1> QED BY <1>1, <1>2 DEF SkillsAmong, VisibleAt, SkillsIn

LEMMA FirstRequestsKeepInv ==
    ASSUME FetchInv, PreviewsSource \/ FollowsRef \/ GetsDefault \/ ResolvesRef
    PROVE  FetchInv'
<1>1. ASSUME NEW op \in {"preview", "check", "apply"}, NEW source \in Source, BeginsFetch(op, source),
             gist => source.ref \notin Branches
      PROVE  FetchInv'
  <2> DEFINE next == [op |-> op, source |-> source, branch |-> source.ref,
                      sha |-> IF op = "preview" THEN 0 ELSE followed.sha,
                      at |-> IF source.ref = NoRef /\ ~gist THEN "default" ELSE "resolve",
                      here |-> source.path, todo |-> {}, found |-> {}, again |-> FALSE]
  <2>1. next \in FetchRecords
    <3>1. (IF op = "preview" THEN 0 ELSE followed.sha) \in Nat
      BY DEF FetchInv, CopiesAgree, Copies
    <3>2. source.ref \in Refs /\ source.path \in Places
      BY DEF Source
    <3>3. (IF source.ref = NoRef /\ ~gist THEN "default" ELSE "resolve") \in {"default", "resolve"}
      OBVIOUS
    <3> QED BY <3>1, <3>2, <3>3 DEF FetchRecords
  <2>2. /\ next.at \in {"default", "resolve"} /\ next.source = source /\ next.branch = source.ref
        /\ next.todo = {} /\ next.found = {}
        /\ next.at = "default" => source.ref = NoRef
    OBVIOUS
  <2>3. NoRef \notin Branches
    BY FetchAssumption DEF NoRef
  <2> HIDE DEF next
  <2>4. Right(next, commits)
    BY <1>1, <2>2, <2>3 DEF Right, IsAtItsRef, FindsItsSkills, AtCommit
  <2>5. fetch' = next /\ UNCHANGED <<gist, default, commits, copies, followed>>
    BY <1>1 DEF BeginsFetch, next
  <2> QED BY <2>1, <2>4, <2>5, ProceedingKeepsInv
<1>2. CASE PreviewsSource
  <2>1. PICK source \in Sources : BeginsFetch("preview", source)
    BY <1>2 DEF PreviewsSource
  <2>2. source \in Source /\ (gist => source.ref \notin Branches)
    BY FetchAssumption
       DEF Sources, Reads, ParsesUrl, Source, Refs, NoRef, Nowhere
  <2> QED BY <1>1, <2>1, <2>2
<1>3. CASE FollowsRef
  <2>1. PICK op \in {"check", "apply"} : BeginsFetch(op, followed.source)
    BY <1>3 DEF FollowsRef
  <2>2. followed.source \in Source /\ (gist => followed.source.ref \notin Branches)
    BY DEF FetchInv, CopiesAgree, Copies, FollowedRight
  <2> QED BY <1>1, <2>1, <2>2
<1>4. CASE GetsDefault
  <2> DEFINE next == [fetch EXCEPT !.branch = default, !.at = "resolve"]
  <2>1. /\ next \in FetchRecords /\ next.at = "resolve" /\ fetch.at = "default"
        /\ next.source = fetch.source /\ next.op = fetch.op
        /\ next.todo = fetch.todo /\ next.found = fetch.found
    BY <1>4 DEF GetsDefault, FetchInv, RestOfFetchTyped, FetchRecords, Refs
  <2>2. fetch' = next /\ UNCHANGED <<gist, default, commits, copies, followed>>
    BY <1>4 DEF GetsDefault, Proceeds
  <2> HIDE DEF next
  <2>3. Right(next, commits)
    BY <2>1 DEF FetchInv, Right, IsAtItsRef, FindsItsSkills, AtCommit
  <2> QED BY <2>1, <2>2, <2>3, ProceedingKeepsInv
<1>5. CASE ResolvesRef
  <2>1. PICK sha \in ResolvedTo :
            Proceeds(IF sha = fetch.sha THEN NoFetch ELSE [fetch EXCEPT !.sha = sha, !.at = "list"])
    BY <1>5 DEF ResolvesRef
  <2>2. sha \in DOMAIN commits /\ (~gist => commits[sha].on = fetch.branch) /\ sha \in Nat
    BY <2>1 DEF ResolvedTo, HeadsOf, FetchInv, RestOfFetchTyped
  <2>3. CASE sha = fetch.sha
    BY <2>1, <2>3, FailedIsRight, ProceedingKeepsInv DEF Proceeds
  <2>4. CASE sha # fetch.sha
    <3> DEFINE next == [fetch EXCEPT !.sha = sha, !.at = "list"]
    <3>1. /\ next \in FetchRecords /\ next.at = "list" /\ fetch.at = "resolve" /\ next.sha = sha
          /\ next.source = fetch.source /\ next.op = fetch.op
          /\ next.todo = fetch.todo /\ next.found = fetch.found
      BY <1>5, <2>2 DEF ResolvesRef, FetchInv, FetchRecords, AtCommit
    <3>2. fetch' = next /\ UNCHANGED <<gist, default, commits, copies, followed>>
      BY <2>1, <2>4 DEF Proceeds
    <3> HIDE DEF next
    <3>3. Right(next, commits)
      BY <2>2, <3>1 DEF FetchInv, Right, IsAtItsRef, FindsItsSkills, AtCommit
    <3> QED BY <3>1, <3>2, <3>3, ProceedingKeepsInv
  <2> QED BY <2>3, <2>4
<1> QED BY <1>2, <1>3, <1>4, <1>5

-----------------------------------------------------------------------------
\* What is known of a request at its commit.
LEMMA AtItsCommit ==
    ASSUME FetchInv, fetch.at \in AtCommit
    PROVE  /\ fetch.sha \in DOMAIN commits /\ commits[fetch.sha].tree \in Trees
           /\ fetch.source.path \in Places
           /\ \A p : KindAt(p) = commits[fetch.sha].tree[p]
           /\ \A p : VisibleIn(p) = IF gist THEN {} ELSE VisibleAt(commits[fetch.sha].tree, p)
<1>1. fetch.sha \in DOMAIN commits
  BY DEF FetchInv, Right, IsAtItsRef
<1>2. commits[fetch.sha] \in [on : Branches, tree : Trees]
  <2> DEFINE S == [on : Branches, tree : Trees]
  <2>1. commits \in Seq(S)
    BY DEF FetchInv, RestOfFetchTyped
  <2> HIDE DEF S
  <2>2. fetch.sha \in 1 .. Len(commits)
    BY <1>1, <2>1
  <2>3. commits[fetch.sha] \in S
    BY <2>1, <2>2, ElementOfSeq
  <2> QED BY <2>3 DEF S
<1>3. fetch.source.path \in Places
  BY DEF FetchInv, FetchRecords, Source
<1>4. \A p : KindAt(p) = commits[fetch.sha].tree[p]
  BY DEF KindAt, Served
<1>5. \A p : VisibleIn(p) = IF gist THEN {} ELSE VisibleAt(commits[fetch.sha].tree, p)
  BY <1>4 DEF VisibleIn, Subdirs, VisibleAt
<1> QED BY <1>1, <1>2, <1>3, <1>4, <1>5

LEMMA ListingTopKeepsInv == ASSUME FetchInv, ListsTop PROVE FetchInv'
<1> DEFINE top == fetch.source.path
           tree == commits[fetch.sha].tree
<1>0. /\ fetch.at = "list" /\ fetch.at \in AtCommit /\ top \in Places /\ tree \in Trees
      /\ \A p : KindAt(p) = tree[p]
      /\ \A p : VisibleIn(p) = IF gist THEN {} ELSE VisibleAt(tree, p)
  BY AtItsCommit DEF ListsTop, AtCommit
<1>1. /\ IsAtItsRef(fetch, commits) /\ fetch \in FetchRecords
      /\ fetch.op = "preview" => fetch.found = {} /\ fetch.todo = {}
  BY <1>0 DEF FetchInv, Right, FindsItsSkills
<1>2. CASE HoldsSkill(KindAt(top)) /\ ~ShipsPrograms(top)
           /\ Proceeds([fetch EXCEPT !.at = "read", !.here = top])
  <2> DEFINE next == [fetch EXCEPT !.at = "read", !.here = top]
  <2>1. /\ next \in FetchRecords /\ next.at = "read" /\ next.here = top
        /\ next.sha = fetch.sha /\ next.branch = fetch.branch
        /\ next.source = fetch.source /\ next.op = fetch.op
        /\ next.todo = fetch.todo /\ next.found = fetch.found
    BY <1>0, <1>1 DEF FetchRecords, AtCommit
  <2>2. fetch' = next /\ UNCHANGED <<gist, default, commits, copies, followed>>
    BY <1>2 DEF Proceeds
  <2> HIDE DEF next
  <2>3. IsAtItsRef(next, commits)
    BY <1>0, <1>1, <2>1 DEF IsAtItsRef, AtCommit
  <2>4. HoldsSkill(tree[top]) /\ tree[top] # "payload"
    BY <1>0, <1>2 DEF ShipsPrograms
  <2>5. FindsItsSkills(next, tree)
    BY <1>1, <2>1, <2>4 DEF FindsItsSkills, SkillsIn, SkillsAmong
  <2> QED BY <2>1, <2>2, <2>3, <2>5, ProceedingKeepsInv DEF Right
<1>3. CASE /\ ~HoldsSkill(KindAt(top)) /\ fetch.op = "preview"
           /\ Proceeds([fetch EXCEPT !.at = IF Nested \in Subdirs(top) THEN "nested" ELSE "children",
                                     !.todo = VisibleIn(top)])
  <2> DEFINE at == IF Nested \in Subdirs(top) THEN "nested" ELSE "children"
             next == [fetch EXCEPT !.at = at, !.todo = VisibleIn(top)]
  <2>1. at \in AtCommit /\ VisibleIn(top) \subseteq Places
    BY <1>0 DEF AtCommit, VisibleAt
  <2>2. /\ next \in FetchRecords /\ next.at = at /\ next.todo = VisibleIn(top)
        /\ next.sha = fetch.sha /\ next.branch = fetch.branch
        /\ next.source = fetch.source /\ next.op = fetch.op /\ next.found = fetch.found
    BY <1>1, <2>1 DEF FetchRecords
  <2>3. fetch' = next /\ UNCHANGED <<gist, default, commits, copies, followed>>
    BY <1>3 DEF Proceeds
  <2>4. at \in {"nested", "children"}
    OBVIOUS
  <2>5. at = "nested" => ~gist /\ Nested # Root /\ Above[Nested] = top
    BY DEF Subdirs
  <2>6. at = "children" /\ ~gist => ~(Nested # Root /\ Above[Nested] = top /\ tree[Nested] # "absent")
    BY <1>0, FetchAssumption DEF Subdirs
  <2> HIDE DEF next, at
  <2>7. IsAtItsRef(next, commits)
    BY <1>0, <1>1, <2>2, <2>4 DEF IsAtItsRef, AtCommit
  <2>8. ~HoldsSkill(tree[top]) /\ fetch.found = {} /\ next.op = "preview"
    BY <1>0, <1>1, <1>3, <2>2
  <2>9. FindsItsSkills(next, tree)
    <3>1. CASE gist
      BY <1>0, <2>2, <2>4, <2>5, <2>8, <3>1 DEF FindsItsSkills
    <3>2. CASE ~gist
      <4>1. next.todo = VisibleAt(tree, top)
        BY <1>0, <2>2, <3>2
      <4>2. at = "children" => SkillsAmong(next.todo, tree) = SkillsIn(tree, top)
        BY <1>0, <2>6, <2>8, <3>2, <4>1, SkillsOfCommit
      <4> QED BY <2>2, <2>4, <2>5, <2>8, <3>2, <4>1, <4>2 DEF FindsItsSkills
    <3> QED BY <3>1, <3>2
  <2> QED BY <2>2, <2>3, <2>7, <2>9, ProceedingKeepsInv DEF Right
<1> QED BY <1>2, <1>3 DEF ListsTop

LEMMA ListingNestedKeepsInv == ASSUME FetchInv, ListsNested PROVE FetchInv'
<1> DEFINE top == fetch.source.path
           tree == commits[fetch.sha].tree
           next == [fetch EXCEPT !.at = "children", !.todo = @ \cup VisibleIn(Nested)]
<1>0. /\ fetch.at = "nested" /\ fetch.at \in AtCommit /\ top \in Places /\ tree \in Trees
      /\ VisibleIn(Nested) = IF gist THEN {} ELSE VisibleAt(tree, Nested)
  BY AtItsCommit DEF ListsNested, AtCommit
<1>1. /\ IsAtItsRef(fetch, commits) /\ fetch \in FetchRecords /\ fetch.op = "preview"
      /\ ~gist /\ fetch.found = {} /\ ~HoldsSkill(tree[top])
      /\ Nested # Root /\ Above[Nested] = top /\ fetch.todo = VisibleAt(tree, top)
  BY <1>0 DEF FetchInv, Right, FindsItsSkills
<1>2. /\ next \in FetchRecords /\ next.at = "children"
      /\ next.todo = VisibleAt(tree, top) \cup VisibleAt(tree, Nested)
      /\ next.sha = fetch.sha /\ next.branch = fetch.branch
      /\ next.source = fetch.source /\ next.op = fetch.op /\ next.found = fetch.found
  <2>1. VisibleIn(Nested) \subseteq Places
    BY <1>0 DEF VisibleAt
  <2> QED BY <1>0, <1>1, <2>1 DEF FetchRecords, AtCommit
<1>3. fetch' = next /\ UNCHANGED <<gist, default, commits, copies, followed>>
  BY DEF ListsNested, Proceeds
<1> HIDE DEF next
<1>4. IsAtItsRef(next, commits)
  BY <1>0, <1>1, <1>2 DEF IsAtItsRef, AtCommit
<1>5. SkillsAmong(next.todo, tree) = SkillsIn(tree, top)
  BY <1>0, <1>1, <1>2, SkillsOfCommit
<1>6. FindsItsSkills(next, tree)
  BY <1>1, <1>2, <1>5 DEF FindsItsSkills
<1> QED BY <1>2, <1>3, <1>4, <1>6, ProceedingKeepsInv DEF Right

LEMMA ListingChildKeepsInv == ASSUME FetchInv, NEW p \in Places, ListsChild(p) PROVE FetchInv'
<1> DEFINE top == fetch.source.path
           tree == commits[fetch.sha].tree
<1>0. /\ fetch.at = "children" /\ fetch.at \in AtCommit /\ p \in fetch.todo
      /\ KindAt(p) = tree[p]
  BY AtItsCommit DEF ListsChild, AtCommit
<1>1. /\ IsAtItsRef(fetch, commits) /\ fetch \in FetchRecords /\ fetch.op = "preview"
      /\ fetch.found \cup SkillsAmong(fetch.todo, tree) = SkillsIn(tree, top)
  BY <1>0 DEF FetchInv, Right, FindsItsSkills
<1>2. CASE ~HoldsSkill(KindAt(p)) /\ Proceeds([fetch EXCEPT !.todo = @ \ {p}])
  <2> DEFINE next == [fetch EXCEPT !.todo = @ \ {p}]
  <2>1. /\ next \in FetchRecords /\ next.at = "children" /\ next.todo = fetch.todo \ {p}
        /\ next.sha = fetch.sha /\ next.branch = fetch.branch
        /\ next.source = fetch.source /\ next.op = fetch.op /\ next.found = fetch.found
    BY <1>0, <1>1 DEF FetchRecords
  <2>2. fetch' = next /\ UNCHANGED <<gist, default, commits, copies, followed>>
    BY <1>2 DEF Proceeds
  <2> HIDE DEF next
  <2>3. IsAtItsRef(next, commits)
    BY <1>0, <1>1, <2>1 DEF IsAtItsRef, AtCommit
  <2>4. SkillsAmong(next.todo, tree) = SkillsAmong(fetch.todo, tree)
    BY <1>0, <1>2, <2>1 DEF SkillsAmong
  <2>5. FindsItsSkills(next, tree)
    BY <1>1, <2>1, <2>4 DEF FindsItsSkills
  <2> QED BY <2>1, <2>2, <2>3, <2>5, ProceedingKeepsInv DEF Right
<1>3. CASE HoldsSkill(KindAt(p)) /\ ~ShipsPrograms(p)
           /\ Proceeds([fetch EXCEPT !.at = "read", !.here = p])
  <2> DEFINE next == [fetch EXCEPT !.at = "read", !.here = p]
  <2>1. /\ next \in FetchRecords /\ next.at = "read" /\ next.here = p /\ next.todo = fetch.todo
        /\ next.sha = fetch.sha /\ next.branch = fetch.branch
        /\ next.source = fetch.source /\ next.op = fetch.op /\ next.found = fetch.found
    BY <1>0, <1>1 DEF FetchRecords, AtCommit
  <2>2. fetch' = next /\ UNCHANGED <<gist, default, commits, copies, followed>>
    BY <1>3 DEF Proceeds
  <2> HIDE DEF next
  <2>3. IsAtItsRef(next, commits)
    BY <1>0, <1>1, <2>1 DEF IsAtItsRef, AtCommit
  <2>4. HoldsSkill(tree[p]) /\ tree[p] # "payload" /\ p \in SkillsAmong(fetch.todo, tree)
    BY <1>0, <1>3 DEF ShipsPrograms, SkillsAmong
  <2>5. next.found \cup {next.here} \cup SkillsAmong(next.todo, tree) = SkillsIn(tree, top)
    BY <1>1, <2>1, <2>4
  <2>6. FindsItsSkills(next, tree)
    BY <1>1, <2>1, <2>4, <2>5 DEF FindsItsSkills
  <2> QED BY <2>1, <2>2, <2>3, <2>6, ProceedingKeepsInv DEF Right
<1> QED BY <1>2, <1>3 DEF ListsChild

LEMMA ReadingKeepsInv == ASSUME FetchInv, ReadsText PROVE FetchInv'
<1> DEFINE top == fetch.source.path
           tree == commits[fetch.sha].tree
<1>0. /\ fetch.at = "read" /\ fetch.at \in AtCommit /\ fetch.here \in Places
  BY DEF ReadsText, AtCommit, FetchInv, FetchRecords
<1>1. /\ IsAtItsRef(fetch, commits) /\ fetch \in FetchRecords
      /\ fetch.op = "preview" =>
            fetch.found \cup {fetch.here} \cup SkillsAmong(fetch.todo, tree) = SkillsIn(tree, top)
  BY <1>0 DEF FetchInv, Right, FindsItsSkills
<1>2. CASE /\ fetch.op = "preview"
           /\ Proceeds([fetch EXCEPT !.found = @ \cup {fetch.here}, !.todo = @ \ {fetch.here},
                                     !.at = "children"])
  <2> DEFINE next == [fetch EXCEPT !.found = @ \cup {fetch.here}, !.todo = @ \ {fetch.here},
                                   !.at = "children"]
  <2>1. /\ next \in FetchRecords /\ next.at = "children"
        /\ next.found = fetch.found \cup {fetch.here} /\ next.todo = fetch.todo \ {fetch.here}
        /\ next.sha = fetch.sha /\ next.branch = fetch.branch
        /\ next.source = fetch.source /\ next.op = fetch.op
    BY <1>0, <1>1 DEF FetchRecords, AtCommit
  <2>2. fetch' = next /\ UNCHANGED <<gist, default, commits, copies, followed>>
    BY <1>2 DEF Proceeds
  <2> HIDE DEF next
  <2>3. IsAtItsRef(next, commits)
    BY <1>0, <1>1, <2>1 DEF IsAtItsRef, AtCommit
  <2>4. next.found \cup SkillsAmong(next.todo, tree) = SkillsIn(tree, top)
    <3>1. next.found \cup SkillsAmong(next.todo, tree)
            = fetch.found \cup {fetch.here} \cup SkillsAmong(fetch.todo, tree)
      BY <2>1 DEF SkillsAmong
    <3> QED BY <1>1, <1>2, <3>1
  <2>5. FindsItsSkills(next, tree)
    BY <1>2, <2>1, <2>4 DEF FindsItsSkills
  <2> QED BY <2>1, <2>2, <2>3, <2>5, ProceedingKeepsInv DEF Right
<1>3. CASE Proceeds(NoFetch)
  BY <1>3, FailedIsRight, ProceedingKeepsInv DEF Proceeds
<1>4. CASE /\ fetch.op = "apply" /\ ~fetch.again /\ followed # NoCopy
           /\ Proceeds([fetch EXCEPT !.at = "list", !.again = TRUE, !.source = followed.source])
  <2> DEFINE next == [fetch EXCEPT !.at = "list", !.again = TRUE, !.source = followed.source]
  <2>1. followed.source \in Source /\ (gist => followed.source.ref \notin Branches)
    BY DEF FetchInv, CopiesAgree, Copies, FollowedRight
  <2>2. /\ next \in FetchRecords /\ next.at = "list" /\ next.source = followed.source
        /\ next.sha = fetch.sha /\ next.op = "apply"
    BY <1>1, <1>4, <2>1 DEF FetchRecords, AtCommit
  <2>3. fetch' = next /\ UNCHANGED <<gist, default, commits, copies, followed>>
    BY <1>4 DEF Proceeds
  <2> HIDE DEF next
  <2>4. Right(next, commits)
    BY <1>0, <1>1, <2>1, <2>2 DEF Right, IsAtItsRef, FindsItsSkills, AtCommit
  <2> QED BY <2>2, <2>3, <2>4, ProceedingKeepsInv
<1>5. CASE fetch.op = "apply" /\ fetch.again /\ Proceeds([fetch EXCEPT !.at = "write"])
  <2> DEFINE next == [fetch EXCEPT !.at = "write"]
  <2>1. /\ next \in FetchRecords /\ next.at = "write" /\ next.source = fetch.source
        /\ next.sha = fetch.sha /\ next.op = "apply"
    BY <1>1, <1>5 DEF FetchRecords, AtCommit
  <2>2. fetch' = next /\ UNCHANGED <<gist, default, commits, copies, followed>>
    BY <1>5 DEF Proceeds
  <2> HIDE DEF next
  <2>3. Right(next, commits)
    BY <1>0, <1>1, <2>1 DEF Right, IsAtItsRef, FindsItsSkills, AtCommit
  <2> QED BY <2>1, <2>2, <2>3, ProceedingKeepsInv
<1> QED BY <1>2, <1>3, <1>4, <1>5 DEF ReadsText

LEMMA StagingKeepsInv == ASSUME FetchInv, FoundAll \/ \E p \in Places : StagesFound(p) PROVE FetchInv'
<1> DEFINE tree == commits[fetch.sha].tree
<1>0. fetch \in FetchRecords /\ Right(fetch, commits)
  BY DEF FetchInv
<1>1. CASE FoundAll
  <2> DEFINE next == [fetch EXCEPT !.at = "stage", !.todo = fetch.found]
  <2>1. /\ next \in FetchRecords /\ next.at = "stage" /\ next.source = fetch.source
        /\ next.sha = fetch.sha /\ next.op = fetch.op /\ next.found = fetch.found
    BY <1>0, <1>1 DEF FetchRecords, AtCommit
  <2>2. /\ fetch' = next /\ UNCHANGED <<gist, default, commits, copies, followed>>
        /\ fetch.at = "children" /\ fetch.todo = {} /\ fetch.found # {}
    BY <1>1 DEF FoundAll, Proceeds
  <2> HIDE DEF next
  <2>3. SkillsAmong(fetch.todo, tree) = {}
    BY <2>2 DEF SkillsAmong
  <2>4. fetch.op = "preview" /\ fetch.found = SkillsIn(tree, fetch.source.path)
    BY <1>0, <2>2, <2>3 DEF Right, FindsItsSkills
  <2>5. Right(next, commits)
    BY <1>0, <2>1, <2>2, <2>4 DEF Right, IsAtItsRef, FindsItsSkills, AtCommit
  <2> QED BY <2>1, <2>2, <2>5, ProceedingKeepsInv
<1>2. ASSUME NEW p \in Places, StagesFound(p) PROVE FetchInv'
  <2> DEFINE at == IF fetch.todo = {p} THEN "done" ELSE "stage"
             next == [fetch EXCEPT !.todo = @ \ {p}, !.at = at]
             copy == Fetched([fetch.source EXCEPT !.path = p])
  <2>1. at \in {"done", "stage"} /\ at \in AtCommit
    BY DEF AtCommit
  <2>2. /\ next \in FetchRecords /\ next.at = at /\ next.source = fetch.source
        /\ next.sha = fetch.sha /\ next.op = fetch.op /\ next.found = fetch.found
    BY <1>0, <2>1 DEF FetchRecords
  <2>3. /\ fetch' = next /\ UNCHANGED <<gist, default, commits, followed>>
        /\ copies' = [copies EXCEPT ![p] = copy] /\ fetch.at = "stage"
    BY <1>2 DEF StagesFound
  <2>4. /\ [fetch.source EXCEPT !.path = p] \in Source
        /\ [fetch.source EXCEPT !.path = p].ref = fetch.source.ref
    BY <1>0 DEF FetchRecords, Source
  <2>5. /\ copy \in Copies /\ copy.text = fetch.sha /\ copy.sha = fetch.sha
        /\ copy.source.ref = fetch.source.ref
    BY <1>0, <2>4 DEF Fetched, Served, Copies, FetchRecords
  <2> HIDE DEF next, at, copy
  <2>6. fetch.op = "preview" /\ fetch.found = SkillsIn(tree, fetch.source.path)
    BY <1>0, <2>3 DEF Right, FindsItsSkills
  <2>7. Right(next, commits)
    BY <1>0, <2>1, <2>2, <2>3, <2>6 DEF Right, IsAtItsRef, FindsItsSkills, AtCommit
  <2>8. StagedRight(copy, commits)
    BY <1>0, <2>3, <2>5, <2>6 DEF StagedRight, Right, IsAtItsRef, AtCommit
  <2>9. copies' \in [Places -> Copies] /\ \A q \in Places : StagedRight(copies'[q], commits)
    BY <2>3, <2>5, <2>8 DEF FetchInv, CopiesAgree
  <2>10. followed' \in Copies /\ FollowedRight(followed')
    BY <2>3 DEF FetchInv, CopiesAgree
  <2> QED BY <2>2, <2>3, <2>7, <2>9, <2>10, CopyingKeepsInv
<1> QED BY <1>1, <1>2

LEMMA CopiesKeepInv ==
    ASSUME FetchInv,
           \/ WritesUpdate \/ UninstallsFollowed
           \/ \E p \in Places : ApprovesStaged(p) \/ DiscardsStaged(p)
    PROVE  FetchInv'
<1>0. /\ fetch \in FetchRecords /\ Right(fetch, commits)
      /\ copies \in [Places -> Copies] /\ \A p \in Places : StagedRight(copies[p], commits)
      /\ followed \in Copies /\ FollowedRight(followed)
      /\ NoCopy \in Copies /\ StagedRight(NoCopy, commits) /\ FollowedRight(NoCopy)
      /\ NoFetch \in FetchRecords /\ Right(NoFetch, commits)
  BY FailedIsRight DEF FetchInv, CopiesAgree
<1>1. CASE WritesUpdate
  <2>1. fetch.source \in Source /\ fetch.sha \in Nat /\ (gist => fetch.source.ref \notin Branches)
    BY <1>0 DEF FetchRecords, Right, IsAtItsRef
  <2>2. followed' = [source |-> fetch.source, sha |-> fetch.sha, text |-> fetch.sha]
    BY <1>1 DEF WritesUpdate, Fetched, Served
  <2>3. followed' \in Copies /\ FollowedRight(followed')
    BY <2>1, <2>2 DEF Copies, FollowedRight
  <2> QED BY <1>0, <1>1, <2>3, CopyingKeepsInv DEF WritesUpdate
<1>2. CASE UninstallsFollowed
  BY <1>0, <1>2, CopyingKeepsInv DEF UninstallsFollowed
<1>3. ASSUME NEW p \in Places, ApprovesStaged(p) \/ DiscardsStaged(p) PROVE FetchInv'
  <2>1. /\ copies' = [copies EXCEPT ![p] = NoCopy]
        /\ UNCHANGED <<gist, default, commits, fetch>> /\ followed' \in {followed, copies[p]}
    BY <1>3 DEF ApprovesStaged, DiscardsStaged
  <2>2. copies' \in [Places -> Copies] /\ \A q \in Places : StagedRight(copies'[q], commits)
    BY <1>0, <2>1
  <2>3. copies[p] \in Copies /\ FollowedRight(copies[p])
    BY <1>0 DEF StagedRight, FollowedRight
  <2> QED BY <1>0, <2>1, <2>2, <2>3, CopyingKeepsInv
<1> QED BY <1>1, <1>2, <1>3

\* A push adds a commit behind those that are there.
LEMMA PushingKeepsInv == ASSUME FetchInv, Pushes PROVE FetchInv'
<1>1. PICK branch \in Branches, tree \in Trees :
          commits' = Append(commits, [on |-> branch, tree |-> tree])
  BY DEF Pushes
<1>2. /\ commits' \in Seq([on : Branches, tree : Trees]) /\ Len(commits') # 0
      /\ \A sha \in DOMAIN commits : sha \in DOMAIN commits' /\ commits'[sha] = commits[sha]
  <2>1. [on |-> branch, tree |-> tree] \in [on : Branches, tree : Trees]
    OBVIOUS
  <2> QED BY <1>1, <2>1, AppendProperties DEF FetchInv, RestOfFetchTyped
<1>3. UNCHANGED <<gist, default, fetch, copies, followed>>
  BY DEF Pushes
<1>4. RestOfFetchTyped' /\ CopiesAgree'
  BY <1>2, <1>3 DEF FetchInv, RestOfFetchTyped, CopiesAgree, StagedRight, FollowedRight
<1>5. Right(fetch, commits)'
  <2>1. CASE fetch.at \in AtCommit
    <3>1. fetch.sha \in DOMAIN commits
      BY <2>1 DEF FetchInv, Right, IsAtItsRef
    <3>2. commits'[fetch.sha] = commits[fetch.sha] /\ fetch.sha \in DOMAIN commits'
      BY <1>2, <3>1
    <3>3. IsAtItsRef(fetch, commits)'
      BY <1>3, <2>1, <3>2 DEF FetchInv, Right, IsAtItsRef
    <3>4. FindsItsSkills(fetch, commits[fetch.sha].tree)'
      BY <1>3, <3>2 DEF FetchInv, Right, FindsItsSkills, SkillsIn
    <3> QED BY <3>3, <3>4 DEF Right
  <2>2. CASE fetch.at \notin AtCommit
    BY <1>3, <2>2 DEF FetchInv, Right, IsAtItsRef, FindsItsSkills, AtCommit
  <2> QED BY <2>1, <2>2
<1> QED BY <1>3, <1>4, <1>5 DEF FetchInv

LEMMA FetchStepsKeepInv == ASSUME FetchInv, [FetchNext]_fetchVars PROVE FetchInv'
<1>0. fetch \in FetchRecords /\ Right(fetch, commits)
  BY DEF FetchInv
<1>1. CASE RequestFails
  BY <1>1, FailedIsRight, ProceedingKeepsInv DEF RequestFails, Proceeds
<1>2. CASE \E p \in Places : MeetsOddName(p)
  BY <1>2, FailedIsRight, ProceedingKeepsInv DEF MeetsOddName, Proceeds
<1>3. CASE ChangesDefault
  <2>1. default' \in Branches /\ UNCHANGED <<gist, commits, fetch, copies, followed>>
    BY <1>3 DEF ChangesDefault
  <2>2. Right(fetch, commits)'
    BY <2>1, <1>0 DEF Right, IsAtItsRef, FindsItsSkills, SkillsIn
  <2>3. CopiesAgree'
    BY <2>1 DEF FetchInv, CopiesAgree, StagedRight, FollowedRight
  <2> QED BY <2>1, <2>2, <2>3 DEF FetchInv, RestOfFetchTyped
<1>4. CASE UNCHANGED fetchVars
  BY <1>0, <1>4, ProceedingKeepsInv DEF fetchVars
<1> QED BY <1>1, <1>2, <1>3, <1>4, FirstRequestsKeepInv, ListingTopKeepsInv, ListingNestedKeepsInv,
           ListingChildKeepsInv, ReadingKeepsInv, StagingKeepsInv, CopiesKeepInv, PushingKeepsInv
        DEF FetchNext

(* Whatever is pushed between its requests, a fetch stays at the commit it    *)
(* resolved, which is one of the ref it was given, and what it has found and  *)
(* has still to list are the skills of that commit (resolve, discover).       *)
THEOREM FetchInvariance == FetchSpec => []FetchInv
BY FetchInitInv, FetchStepsKeepInv, PTL DEF FetchSpec

LEMMA FetchedFollow ==
    ASSUME FetchInv
    PROVE  PinsHold /\ PreviewsAreOfOneCommit /\ NothingIsReadBesidePrograms
<1>1. PinsHold
  BY DEF FetchInv, CopiesAgree, StagedRight, FollowedRight, PinsHold
<1>2. PreviewsAreOfOneCommit
  BY DEF FetchInv, Right, FindsItsSkills, PreviewsAreOfOneCommit
<1>3. NothingIsReadBesidePrograms
  BY DEF FetchInv, Right, FindsItsSkills, NothingIsReadBesidePrograms
<1> QED BY <1>1, <1>2, <1>3

-----------------------------------------------------------------------------
(***************************************************************************)
(* Promotion, for any number of turns and any threshold.                   *)
(*                                                                         *)
(* That a candidate is offered once depends on its count, which is raised  *)
(* and read in one transaction: no two turns have read the same count, and *)
(* once somebody has offered a candidate its count is past the threshold   *)
(* for good.                                                               *)
(***************************************************************************)

CandidateRow == [occurrences : Nat, promoted : BOOLEAN, dismissed : BOOLEAN]
Matched == [at : {"matched"}, row : Nat, settled : BOOLEAN]
Counted == [at : {"counted"}, row : Nat, count : Nat]

PromotionTyped ==
    /\ candidates \in Seq(CandidateRow)
    /\ turn \in [Turns -> {[at |-> "answered"], [at |-> "over"]} \cup Matched \cup Counted]
    /\ shown \in [Turns -> Nat]
    /\ page \in {[at |-> "idle"]} \cup [at : {"write", "settle"}, row : Nat]

\* What a turn says is of a candidate that is there.
TurnsAreOfRows ==
    \A t \in Turns :
        /\ turn[t].at = "matched" => turn[t].row \in {NoRow} \cup Ids
        /\ turn[t].at = "counted" => /\ turn[t].row \in Ids
                                     /\ turn[t].count <= candidates[turn[t].row].occurrences

CountsDiffer ==
    \A t, u \in Turns :
        t # u /\ turn[t].at = "counted" /\ turn[u].at = "counted" /\ turn[t].row = turn[u].row =>
            turn[t].count # turn[u].count

ShownIsPast ==
    \A t \in Turns : shown[t] # NoRow =>
        /\ turn[t].at = "over" /\ shown[t] \in Ids
        /\ candidates[shown[t]].occurrences >= Threshold
        /\ \A u \in Turns : turn[u].at = "counted" /\ turn[u].row = shown[t] =>
              turn[u].count # Threshold

LateIsSettled ==
    \A t \in late : /\ turn[t].at \in {"matched", "over"}
                    /\ turn[t].at = "matched" => turn[t].settled /\ turn[t].row # NoRow

PromotionInv ==
    /\ PromotionTyped /\ late \subseteq Turns
    /\ TurnsAreOfRows /\ CountsDiffer /\ ShownIsPast /\ LateIsSettled
    /\ OfferedOnce /\ DeclinedIsNotOffered

LEMMA PromotionInitInv == PromotionInit => PromotionInv
BY DEF PromotionInit, PromotionInv, PromotionTyped, TurnsAreOfRows, CountsDiffer, ShownIsPast,
       LateIsSettled, OfferedOnce, DeclinedIsNotOffered, NoRow

\* The candidates stay, and no count of theirs goes back.
Kept ==
    /\ candidates' \in Seq(CandidateRow)
    /\ \A id \in Ids : id \in Ids' /\ candidates'[id].occurrences >= candidates[id].occurrences

\* A turn that has counted knows of what and how many.
LEMMA CountedTurns ==
    ASSUME PromotionTyped
    PROVE  \A t \in Turns : turn[t].at = "counted" => turn[t].count \in Nat /\ turn[t].row \in Nat
<1> SUFFICES ASSUME NEW t \in Turns, turn[t].at = "counted"
             PROVE  turn[t].count \in Nat /\ turn[t].row \in Nat
  OBVIOUS
<1>1. turn[t] \in Counted
  BY DEF PromotionTyped, Matched
<1> QED BY <1>1 DEF Counted

\* The candidates are numbered from one.
LEMMA IdsAreNumbers ==
    ASSUME PromotionTyped
    PROVE  /\ Len(candidates) \in Nat /\ Ids = 1 .. Len(candidates)
           /\ \A id \in Ids : id \in Nat /\ id # NoRow
           /\ \A id \in Ids : candidates[id] \in CandidateRow
<1>1. Len(candidates) \in Nat /\ Ids = 1 .. Len(candidates)
  BY LenProperties DEF PromotionTyped, Ids
<1>2. \A id \in Ids : candidates[id] \in CandidateRow
  BY <1>1, ElementOfSeq DEF PromotionTyped
<1> QED BY <1>1, <1>2 DEF NoRow

\* What the page does to a candidate.
LEMMA SettlingKeeps ==
    ASSUME PromotionTyped, NEW row \in Ids,
           \/ candidates' = [candidates EXCEPT ![row].promoted = TRUE]
           \/ candidates' = [candidates EXCEPT ![row].dismissed = TRUE]
    PROVE  Kept
<1>1. PICK c \in CandidateRow :
          /\ candidates' = [candidates EXCEPT ![row] = c]
          /\ c.occurrences = candidates[row].occurrences
  <2>1. candidates[row] \in CandidateRow
    BY IdsAreNumbers
  <2>2. CASE candidates' = [candidates EXCEPT ![row].promoted = TRUE]
    <3>1. [candidates[row] EXCEPT !.promoted = TRUE] \in CandidateRow
          /\ [candidates[row] EXCEPT !.promoted = TRUE].occurrences = candidates[row].occurrences
      BY <2>1 DEF CandidateRow
    <3> QED BY <2>2, <3>1
  <2>3. CASE candidates' = [candidates EXCEPT ![row].dismissed = TRUE]
    <3>1. [candidates[row] EXCEPT !.dismissed = TRUE] \in CandidateRow
          /\ [candidates[row] EXCEPT !.dismissed = TRUE].occurrences = candidates[row].occurrences
      BY <2>1 DEF CandidateRow
    <3> QED BY <2>3, <3>1
  <2> QED BY <2>2, <2>3
<1>2. row \in 1 .. Len(candidates) /\ candidates \in Seq(CandidateRow)
  BY IdsAreNumbers DEF PromotionTyped
<1>3. /\ candidates' \in Seq(CandidateRow)
      /\ Len(candidates') = Len(candidates)
      /\ \A i \in 1 .. Len(candidates) :
            candidates'[i] = IF i = row THEN c ELSE candidates[i]
  BY <1>1, <1>2, ExceptSeq
<1>4. Ids = 1 .. Len(candidates) /\ Ids' = 1 .. Len(candidates)
  BY <1>2, <1>3, LenProperties DEF Ids
<1>5. \A id \in Ids : candidates'[id].occurrences = candidates[id].occurrences
  BY <1>1, <1>3, <1>4
<1>6. \A id \in Ids : candidates[id].occurrences \in Nat
  BY IdsAreNumbers DEF CandidateRow
<1> QED BY <1>3, <1>4, <1>5, <1>6 DEF Kept

\* What the page does leaves the turns as they are.
LEMMA PageKeepsInv ==
    ASSUME PromotionInv, Kept, UNCHANGED <<turn, shown, late>>,
           page' \in {[at |-> "idle"]} \cup [at : {"write", "settle"}, row : Nat]
    PROVE  PromotionInv'
<1>1. \A id \in Ids : /\ id \in Ids'
                       /\ candidates[id].occurrences \in Nat /\ candidates'[id].occurrences \in Nat
                       /\ candidates'[id].occurrences >= candidates[id].occurrences
  <2>1. \A id \in Ids' : candidates'[id] \in CandidateRow
    BY LenProperties, ElementOfSeq DEF Kept, Ids
  <2> QED BY <2>1, IdsAreNumbers DEF Kept, PromotionInv, CandidateRow
<1>2. PromotionTyped' /\ (late \subseteq Turns)'
  BY DEF Kept, PromotionInv, PromotionTyped
<1>3. \A t \in Turns : turn[t].at = "counted" => turn[t].count \in Nat
  BY DEF PromotionInv, PromotionTyped, Matched, Counted
<1>4. TurnsAreOfRows'
  BY <1>1, <1>3 DEF PromotionInv, TurnsAreOfRows
<1>5. ShownIsPast'
  BY <1>1, PromotionAssumption DEF PromotionInv, ShownIsPast
<1> QED BY <1>2, <1>4, <1>5
        DEF PromotionInv, CountsDiffer, LateIsSettled, OfferedOnce, DeclinedIsNotOffered

\* A turn that has not shown anything goes on without a count.
LEMMA UncountedKeepsInv ==
    ASSUME PromotionInv, NEW t \in Turns, NEW state \in {[at |-> "over"]} \cup Matched,
           turn' = [turn EXCEPT ![t] = state], shown[t] = NoRow, Kept, UNCHANGED <<shown, page>>,
           state.at = "matched" => state.row \in {NoRow} \cup Ids,
           late' \in {late, late \cup {t}},
           t \in late' /\ state.at = "matched" => state.settled /\ state.row # NoRow
    PROVE  PromotionInv'
<1>1. \A id \in Ids : /\ id \in Ids'
                       /\ candidates[id].occurrences \in Nat /\ candidates'[id].occurrences \in Nat
                       /\ candidates'[id].occurrences >= candidates[id].occurrences
  <2>1. \A id \in Ids' : candidates'[id] \in CandidateRow
    BY LenProperties, ElementOfSeq DEF Kept, Ids
  <2> QED BY <2>1, IdsAreNumbers DEF Kept, PromotionInv, CandidateRow
<1>2. /\ turn'[t] = state /\ state.at \in {"matched", "over"}
      /\ \A u \in Turns : u # t => turn'[u] = turn[u]
  BY DEF PromotionInv, PromotionTyped, Matched
<1>3. PromotionTyped' /\ (late \subseteq Turns)'
  BY DEF Kept, PromotionInv, PromotionTyped
<1>4. \A u \in Turns : turn[u].at = "counted" => turn[u].count \in Nat
  BY DEF PromotionInv, PromotionTyped, Matched, Counted
<1>5. TurnsAreOfRows'
  BY <1>1, <1>2, <1>4 DEF PromotionInv, TurnsAreOfRows
<1>6. ShownIsPast' /\ OfferedOnce'
  BY <1>1, <1>2, PromotionAssumption DEF PromotionInv, ShownIsPast, OfferedOnce
<1>7. CountsDiffer'
  BY <1>2 DEF PromotionInv, CountsDiffer
<1>8. LateIsSettled' /\ DeclinedIsNotOffered'
  BY <1>2 DEF PromotionInv, LateIsSettled, DeclinedIsNotOffered
<1> QED BY <1>3, <1>5, <1>6, <1>7, <1>8 DEF PromotionInv

\* The count a turn reads is above what anybody has read of the candidate.
LEMMA CountingKeepsInv ==
    ASSUME PromotionInv, NEW t \in Turns, turn[t].at = "matched", t \notin late, Kept,
           NEW row \in Ids', NEW count \in Nat, candidates'[row].occurrences = count,
           row \in Ids => count = candidates[row].occurrences + 1,
           turn' = [turn EXCEPT ![t] = [at |-> "counted", row |-> row, count |-> count]],
           UNCHANGED <<shown, page, late>>
    PROVE  PromotionInv'
<1>1. \A id \in Ids : /\ id \in Ids' /\ id \in Nat
                       /\ candidates[id].occurrences \in Nat /\ candidates'[id].occurrences \in Nat
                       /\ candidates'[id].occurrences >= candidates[id].occurrences
  <2>1. \A id \in Ids' : candidates'[id] \in CandidateRow
    BY LenProperties, ElementOfSeq DEF Kept, Ids
  <2> QED BY <2>1, IdsAreNumbers DEF Kept, PromotionInv, CandidateRow
<1>2. row \in Nat
  BY LenProperties DEF Kept, Ids
<1>3. [at |-> "counted", row |-> row, count |-> count] \in Counted
  BY <1>2 DEF Counted
<1>4. /\ turn'[t].at = "counted" /\ turn'[t].row = row /\ turn'[t].count = count
      /\ \A u \in Turns : u # t => turn'[u] = turn[u]
  BY DEF PromotionInv, PromotionTyped
<1>5. PromotionTyped'
  BY <1>3 DEF Kept, PromotionInv, PromotionTyped
<1>6. \A u \in Turns : turn[u].at = "counted" =>
          /\ turn[u].count \in Nat /\ turn[u].row \in Ids
          /\ turn[u].count <= candidates[turn[u].row].occurrences
  BY CountedTurns DEF PromotionInv, TurnsAreOfRows
<1>7. \A u \in Turns : turn[u].at = "counted" /\ turn[u].row = row => turn[u].count < count
  BY <1>1, <1>6
<1>8. TurnsAreOfRows'
  BY <1>1, <1>4, <1>6 DEF PromotionInv, TurnsAreOfRows
<1>9. CountsDiffer'
  BY <1>4, <1>6, <1>7 DEF PromotionInv, CountsDiffer
<1>10. ShownIsPast'
  <2> SUFFICES ASSUME NEW u \in Turns, shown[u] # NoRow
               PROVE  /\ turn'[u].at = "over" /\ shown[u] \in Ids'
                      /\ candidates'[shown[u]].occurrences >= Threshold
                      /\ \A w \in Turns : turn'[w].at = "counted" /\ turn'[w].row = shown[u] =>
                            turn'[w].count # Threshold
    BY DEF ShownIsPast
  <2>1. /\ turn[u].at = "over" /\ shown[u] \in Ids
        /\ candidates[shown[u]].occurrences >= Threshold
        /\ \A w \in Turns : turn[w].at = "counted" /\ turn[w].row = shown[u] =>
              turn[w].count # Threshold
    BY DEF PromotionInv, ShownIsPast
  <2>2. shown[u] = row => count > Threshold
    BY <1>1, <2>1, PromotionAssumption
  <2>3. candidates'[shown[u]].occurrences >= Threshold
    BY <1>1, <2>1, PromotionAssumption
  <2> QED BY <1>1, <1>4, <2>1, <2>2, <2>3, PromotionAssumption
<1> QED BY <1>4, <1>5, <1>8, <1>9, <1>10
        DEF PromotionInv, LateIsSettled, OfferedOnce, DeclinedIsNotOffered

LEMMA PromotionStepsKeepInv ==
    ASSUME PromotionInv, [PromotionNext]_promotionVars
    PROVE  PromotionInv'
<1>0. /\ PromotionTyped /\ NoRow = 0
      /\ candidates' = candidates => Kept
      /\ \A t \in Turns : turn[t].at # "over" => shown[t] = NoRow
  <2>1. candidates' = candidates => Kept
    BY IdsAreNumbers DEF PromotionInv, PromotionTyped, Kept, Ids, CandidateRow
  <2> QED BY <2>1 DEF PromotionInv, ShownIsPast, NoRow
<1>1. ASSUME NEW t \in Turns, Matches(t) PROVE PromotionInv'
  <2>1. PICK row \in IF Ids = {} THEN {NoRow} ELSE Ids :
            turn' = [turn EXCEPT ![t] = [at |-> "matched", row |-> row,
                                         settled |-> row # NoRow /\ Settled(row)]]
    BY <1>1 DEF Matches
  <2> DEFINE settled == row # NoRow /\ Settled(row)
  <2>2. settled \in BOOLEAN /\ row \in Nat
    BY <1>0, <2>1, IdsAreNumbers DEF Settled, CandidateRow
  <2>3. late' \in {late, late \cup {t}} /\ (t \in late' => settled = TRUE /\ row # NoRow)
    <3>1. t \notin late
      BY <1>1 DEF Matches, PromotionInv, LateIsSettled
    <3>2. late' = late \/ (late' = late \cup {t} /\ Ids # {} /\ \A id \in Ids : Settled(id))
      BY <1>1 DEF Matches, AsksLate
    <3> QED BY <1>0, <2>1, <3>1, <3>2, IdsAreNumbers
  <2>4. [at |-> "matched", row |-> row, settled |-> settled] \in Matched
    BY <2>2 DEF Matched
  <2>5. UNCHANGED <<candidates, shown, page>> /\ shown[t] = NoRow
    BY <1>0, <1>1 DEF Matches
  <2> HIDE DEF settled
  <2>6. row \in {NoRow} \cup Ids
    BY <2>1
  <2>7. turn' = [turn EXCEPT ![t] = [at |-> "matched", row |-> row, settled |-> settled]]
    BY <2>1 DEF settled
  <2> QED BY <1>0, <2>3, <2>4, <2>5, <2>6, <2>7, UncountedKeepsInv
<1>2. ASSUME NEW t \in Turns, Counts(t) PROVE PromotionInv'
  <2>1. turn[t].at = "matched" /\ UNCHANGED <<shown, page, late>>
    BY <1>2 DEF Counts
  <2>2. CASE turn[t].row = NoRow
    <3> DEFINE new == [occurrences |-> 1, promoted |-> FALSE, dismissed |-> FALSE]
    <3>1. new \in CandidateRow /\ new.occurrences = 1
      BY DEF CandidateRow
    <3>2. candidates' = Append(candidates, new)
      BY <1>2, <2>2 DEF Counts
    <3> HIDE DEF new
    <3>3. /\ candidates' \in Seq(CandidateRow) /\ Len(candidates') = Len(candidates) + 1
          /\ \A i \in 1 .. Len(candidates) : candidates'[i] = candidates[i]
          /\ candidates'[Len(candidates) + 1] = new
      BY <1>0, <3>1, <3>2, AppendProperties DEF PromotionTyped
    <3>4. Len(candidates) \in Nat /\ Ids = 1 .. Len(candidates) /\ Ids' = 1 .. Len(candidates) + 1
      BY <1>0, <3>3, IdsAreNumbers, LenProperties DEF Ids
    <3>5. Kept
      BY <1>0, <3>3, <3>4, IdsAreNumbers DEF Kept, CandidateRow
    <3>6. turn' = [turn EXCEPT ![t] = [at |-> "counted", row |-> Len(candidates) + 1, count |-> 1]]
      BY <1>2, <2>2, <3>3 DEF Counts
    <3>7. t \notin late
      BY <2>1, <2>2 DEF PromotionInv, LateIsSettled
    <3> DEFINE row == Len(candidates) + 1
    <3>8. row \in Ids' /\ row \notin Ids /\ candidates'[row].occurrences = 1
      BY <3>1, <3>3, <3>4
    <3>9. turn' = [turn EXCEPT ![t] = [at |-> "counted", row |-> row, count |-> 1]]
      BY <3>6
    <3> HIDE DEF row
    <3> QED BY <2>1, <3>5, <3>7, <3>8, <3>9, CountingKeepsInv
  <2>3. CASE turn[t].row # NoRow
    <3> DEFINE row == turn[t].row
    <3>1. row \in Ids
      BY <2>1, <2>3 DEF PromotionInv, TurnsAreOfRows
    <3>2. candidates' = [candidates EXCEPT ![row].occurrences = @ + 1]
      BY <1>2, <2>3 DEF Counts
    <3>3. PICK c \in CandidateRow : /\ candidates' = [candidates EXCEPT ![row] = c]
                                    /\ c.occurrences = candidates[row].occurrences + 1
      <4>1. candidates[row] \in CandidateRow
        BY <1>0, <3>1, IdsAreNumbers
      <4>2. [candidates[row] EXCEPT !.occurrences = @ + 1] \in CandidateRow
            /\ [candidates[row] EXCEPT !.occurrences = @ + 1].occurrences
                 = candidates[row].occurrences + 1
        BY <4>1 DEF CandidateRow
      <4> QED BY <3>2, <4>2
    <3>4. /\ candidates' \in Seq(CandidateRow) /\ Len(candidates') = Len(candidates)
          /\ \A i \in 1 .. Len(candidates) : candidates'[i] = IF i = row THEN c ELSE candidates[i]
      BY <1>0, <3>1, <3>3, IdsAreNumbers, ExceptSeq DEF PromotionTyped
    <3>5. Ids' = Ids /\ candidates'[row] = c
      BY <1>0, <3>1, <3>4, IdsAreNumbers, LenProperties DEF Ids
    <3>6. Kept
      BY <1>0, <3>1, <3>3, <3>4, <3>5, IdsAreNumbers DEF Kept, CandidateRow
    <3>7. CASE turn[t].settled
      <4>1. turn' = [turn EXCEPT ![t] = [at |-> "over"]]
        BY <1>2, <2>3, <3>7 DEF Counts
      <4> QED BY <1>0, <2>1, <3>6, <4>1, UncountedKeepsInv
    <3>8. CASE ~turn[t].settled
      <4>1. turn' = [turn EXCEPT ![t] = [at |-> "counted", row |-> row, count |-> c.occurrences]]
        BY <1>2, <2>3, <3>5, <3>8 DEF Counts
      <4>2. t \notin late
        BY <2>1, <3>8 DEF PromotionInv, LateIsSettled
      <4>3. c.occurrences \in Nat
        BY DEF CandidateRow
      <4> HIDE DEF row
      <4> QED BY <2>1, <3>1, <3>3, <3>5, <3>6, <4>1, <4>2, <4>3, CountingKeepsInv
    <3> QED BY <3>7, <3>8
  <2> QED BY <2>2, <2>3
<1>3. ASSUME NEW t \in Turns, CountFails(t) PROVE PromotionInv'
  BY <1>0, <1>3, UncountedKeepsInv DEF CountFails
<1>4. ASSUME NEW t \in Turns, Offers(t) PROVE PromotionInv'
  <2>1. /\ turn[t].at = "counted" /\ UNCHANGED <<candidates, page, late>>
        /\ turn' = [turn EXCEPT ![t] = [at |-> "over"]]
        /\ shown' = [shown EXCEPT ![t] = IF turn[t].count = Threshold THEN turn[t].row ELSE NoRow]
    BY <1>4 DEF Offers
  <2>2. t \notin late
    BY <2>1 DEF PromotionInv, LateIsSettled
  <2>3. /\ turn[t].row \in Ids /\ turn[t].row \in Nat /\ turn[t].count \in Nat
        /\ candidates[turn[t].row].occurrences \in Nat
        /\ turn[t].count <= candidates[turn[t].row].occurrences
    <3>1. turn[t].row \in Ids /\ turn[t].count <= candidates[turn[t].row].occurrences
      BY <2>1 DEF PromotionInv, TurnsAreOfRows
    <3>2. candidates[turn[t].row] \in CandidateRow /\ turn[t].row \in Nat
      BY <1>0, <3>1, IdsAreNumbers
    <3> QED BY <1>0, <2>1, <3>1, <3>2, CountedTurns DEF CandidateRow
  <2>4. /\ turn'[t] = [at |-> "over"] /\ \A u \in Turns : u # t => turn'[u] = turn[u]
        /\ shown'[t] = IF turn[t].count = Threshold THEN turn[t].row ELSE NoRow
        /\ \A u \in Turns : u # t => shown'[u] = shown[u]
    BY <1>0, <2>1 DEF PromotionTyped
  <2>5. PromotionTyped'
    BY <1>0, <2>1, <2>3 DEF PromotionTyped
  <2>6. TurnsAreOfRows' /\ CountsDiffer'
    BY <2>1, <2>4 DEF PromotionInv, TurnsAreOfRows, CountsDiffer, Ids
  <2>7. ShownIsPast'
    <3>1. turn[t].count = Threshold =>
              /\ candidates[turn[t].row].occurrences >= Threshold
              /\ \A u \in Turns : u # t /\ turn[u].at = "counted" /\ turn[u].row = turn[t].row =>
                    turn[u].count # Threshold
      BY <2>1, <2>3, PromotionAssumption DEF PromotionInv, CountsDiffer
    <3> QED BY <1>0, <2>1, <2>3, <2>4, <3>1 DEF PromotionInv, ShownIsPast, Ids
  <2>8. OfferedOnce'
    BY <1>0, <2>1, <2>3, <2>4 DEF PromotionInv, ShownIsPast, OfferedOnce
  <2> QED BY <2>1, <2>2, <2>4, <2>5, <2>6, <2>7, <2>8
          DEF PromotionInv, LateIsSettled, DeclinedIsNotOffered
<1>5. ASSUME NEW row \in Ids, Saves(row) \/ Dismisses(row) PROVE PromotionInv'
  <2>1. row \in Nat
    BY <1>0, IdsAreNumbers
  <2>2. page' \in {page} \cup [at : {"write", "settle"}, row : Nat]
    BY <1>5, <2>1 DEF Saves, Dismisses
  <2>3. Kept
    BY <1>0, <1>5, SettlingKeeps DEF Saves, Dismisses
  <2>4. UNCHANGED <<turn, shown, late>>
    BY <1>5 DEF Saves, Dismisses
  <2> QED BY <1>0, <2>2, <2>3, <2>4, PageKeepsInv DEF PromotionTyped
<1>6. CASE Saves(NoRow) \/ WritesSkill
  <2>1. page' \in {[at |-> "idle"]} \cup [at : {"write", "settle"}, row : Nat]
    BY <1>0, <1>6 DEF Saves, WritesSkill, PromotionTyped
  <2>2. UNCHANGED <<candidates, turn, shown, late>>
    BY <1>6 DEF Saves, WritesSkill
  <2> QED BY <1>0, <2>1, <2>2, PageKeepsInv
<1>7. CASE SettlesPromoted
  <2>1. Kept
    <3>1. candidates' = candidates \/ candidates' = [candidates EXCEPT ![page.row].promoted = TRUE]
      BY <1>7 DEF SettlesPromoted
    <3>2. CASE page.row \in Ids
      BY <1>0, <3>1, <3>2, SettlingKeeps
    <3>3. CASE page.row \notin Ids
      <4>1. candidates' = candidates
        BY <1>0, <3>1, <3>3, LenProperties DEF PromotionTyped, Ids
      <4> QED BY <1>0, <4>1
    <3> QED BY <3>2, <3>3
  <2> QED BY <1>7, <2>1, PageKeepsInv DEF SettlesPromoted
<1>8. CASE UNCHANGED promotionVars
  BY <1>0, <1>8, PageKeepsInv DEF promotionVars, PromotionTyped
<1> QED BY <1>1, <1>2, <1>3, <1>4, <1>5, <1>6, <1>7, <1>8 DEF PromotionNext

(* No two turns have read one count of a candidate, and a candidate that was *)
(* offered is past the threshold (record).                                   *)
THEOREM PromotionInvariance == PromotionSpec => []PromotionInv
BY PromotionInitInv, PromotionStepsKeepInv, PTL DEF PromotionSpec

-----------------------------------------------------------------------------
(***************************************************************************)
(* The semantic cache, for any questions, schemas and likeness.            *)
(*                                                                         *)
(* That code is reused on its schema needs to know the same of what the    *)
(* hot layer keeps, under which key, and of a row that is ranked and not   *)
(* yet kept.                                                               *)
(***************************************************************************)

HotAgrees == \A key \in Keys : \A row \in hot[key] : row.schema = key[2]

RankedAgree ==
    \A t \in Askers : asker[t].at = "ranked" => asker[t].row.schema = asker[t].schema

CacheInv == CacheTypeOK /\ HotAgrees /\ RankedAgree /\ ReusedOnItsSchema

LEMMA CacheInitInv == CacheInit => CacheInv
BY DEF CacheInit, CacheInv, CacheTypeOK, HotAgrees, RankedAgree, ReusedOnItsSchema, AtMostOne, NotAsking

\* What an asker may be in.
AskerStates ==
    {NotAsking}
      \cup [at : {"asked", "missed"}, question : Questions, schema : Schemas]
      \cup [at : {"ranked", "reuses"}, question : Questions, schema : Schemas, row : Row]
      \cup [at : {"answered"}, question : Questions, code : Code]
      \cup [at : {"saved"}, question : Questions, row : Row]

\* A step of one asker that leaves the hot layer alone.
LEMMA AskerBecomes ==
    ASSUME CacheInv, NEW t \in Askers, NEW state \in AskerStates, Becomes(t, state),
           state.at \in {"ranked", "reuses"} => state.row.schema = state.schema
    PROVE  /\ asker' \in [Askers -> AskerStates]
           /\ RankedAgree' /\ ReusedOnItsSchema'
BY DEF Becomes, CacheInv, CacheTypeOK, AskerStates, RankedAgree, ReusedOnItsSchema

\* What each place of an asker says of it.
LEMMA AskerTypes ==
    ASSUME CacheInv, NEW t \in Askers
    PROVE  /\ asker[t].at \in {"asked", "missed", "ranked", "reuses"} =>
                 asker[t].question \in Questions /\ asker[t].schema \in Schemas
           /\ asker[t].at \in {"ranked", "reuses"} => asker[t].row \in Row
           /\ asker[t].at = "answered" => asker[t].question \in Questions /\ asker[t].code \in Code
           /\ asker[t].at = "saved" => asker[t].question \in Questions /\ asker[t].row \in Row
BY DEF CacheInv, CacheTypeOK, NotAsking

\* What the rows and the hot layer hold are rows.
LEMMA RowsAreRows ==
    ASSUME CacheInv
    PROVE  /\ \A q \in Questions : cacheRows[q] \subseteq Row
           /\ \A key \in Keys : hot[key] \subseteq Row
BY DEF CacheInv, CacheTypeOK, AtMostOne

\* A row put in the hot layer under its schema.
LEMMA KeptUnderItsSchema ==
    ASSUME CacheInv, NEW q \in Questions, NEW row \in Row,
           hot' = [hot EXCEPT ![ExactKey(q, row.schema)] = {row}]
    PROVE  hot' \in [Keys -> AtMostOne(Row)] /\ HotAgrees'
<1>1. ExactKey(q, row.schema) \in Keys /\ ExactKey(q, row.schema)[2] = row.schema
  BY DEF ExactKey, Keys, Row
<1>2. {row} \in AtMostOne(Row)
  BY DEF AtMostOne
<1> QED BY <1>1, <1>2 DEF CacheInv, CacheTypeOK, HotAgrees

LEMMA CacheStepsKeepInv == ASSUME CacheInv, [CacheNext]_cacheVars PROVE CacheInv'
<1> USE DEF CacheInv
<1>1. ASSUME NEW t \in Askers,
             \/ HitsExactly(t) \/ RanksRows(t) \/ Answers(t) \/ FailsToAnswer(t)
             \/ \E q \in Questions : AsksQuestion(t, q)
      PROVE  CacheInv'
  <2>1. UNCHANGED <<columns, cacheRows, hot>>
    BY <1>1 DEF HitsExactly, RanksRows, Answers, FailsToAnswer, AsksQuestion
  <2>2. PICK state \in AskerStates :
            /\ Becomes(t, state)
            /\ state.at \in {"ranked", "reuses"} => state.row.schema = state.schema
    <3>1. CASE \E q \in Questions : AsksQuestion(t, q)
      BY <3>1 DEF AsksQuestion, AskerStates, CacheTypeOK
    <3>2. CASE HitsExactly(t)
      <4>1. /\ asker[t].question \in Questions /\ asker[t].schema \in Schemas
            /\ ExactKey(asker[t].question, asker[t].schema) \in Keys
            /\ ExactKey(asker[t].question, asker[t].schema)[2] = asker[t].schema
        BY <3>2, AskerTypes DEF HitsExactly, ExactKey, Keys
      <4>2. PICK row \in hot[ExactKey(asker[t].question, asker[t].schema)] :
                Becomes(t, [at |-> "reuses", question |-> asker[t].question,
                            schema |-> asker[t].schema, row |-> row])
        BY <3>2 DEF HitsExactly
      <4>3. row \in Row /\ row.schema = asker[t].schema
        BY <4>1, RowsAreRows DEF HotAgrees
      <4> QED BY <4>1, <4>2, <4>3 DEF AskerStates
    <3>3. CASE RanksRows(t)
      <4>1. asker[t].question \in Questions /\ asker[t].schema \in Schemas /\ asker[t].at = "asked"
        BY <3>3, AskerTypes DEF RanksRows
      <4>2. \A row \in RowsLike(asker[t].question, asker[t].schema) :
                row \in Row /\ row.schema = asker[t].schema
        BY RowsAreRows DEF RowsLike
      <4>3. CASE Becomes(t, [asker[t] EXCEPT !.at = "missed"])
        <5>1. asker[t] \in [at : {"asked", "missed"}, question : Questions, schema : Schemas]
          BY <4>1 DEF CacheTypeOK, NotAsking
        <5>2. [asker[t] EXCEPT !.at = "missed"] \in AskerStates /\ [asker[t] EXCEPT !.at = "missed"].at = "missed"
          BY <5>1 DEF AskerStates
        <5> QED BY <4>3, <5>2
      <4>4. ASSUME NEW row \in RowsLike(asker[t].question, asker[t].schema),
                   Becomes(t, [at |-> "ranked", question |-> asker[t].question,
                               schema |-> asker[t].schema, row |-> row])
            PROVE  \E state \in AskerStates :
                       /\ Becomes(t, state)
                       /\ state.at \in {"ranked", "reuses"} => state.row.schema = state.schema
        BY <4>1, <4>2, <4>4 DEF AskerStates
      <4> QED BY <3>3, <4>3, <4>4 DEF RanksRows
    <3>4. CASE Answers(t)
      <4>1. asker[t].question \in Questions /\ columns \in Schemas
        BY <3>4, AskerTypes DEF Answers, CacheTypeOK
      <4>2. asker[t].at = "reuses" => asker[t].row.code \in Code
        BY AskerTypes DEF Row
      <4> QED BY <3>4, <4>1, <4>2 DEF Answers, AskerStates, Code
    <3>5. CASE FailsToAnswer(t)
      BY <3>5 DEF FailsToAnswer, AskerStates, NotAsking
    <3> QED BY <1>1, <3>1, <3>2, <3>3, <3>4, <3>5
  <2> QED BY <2>1, <2>2, AskerBecomes DEF CacheTypeOK, HotAgrees, AskerStates
<1>2. ASSUME NEW t \in Askers, KeepsHot(t) PROVE CacheInv'
  <2>1. asker[t].question \in Questions /\ asker[t].row \in Row
        /\ asker[t].row.schema = asker[t].schema
    BY <1>2, AskerTypes DEF KeepsHot, RankedAgree
  <2>2. hot' \in [Keys -> AtMostOne(Row)] /\ HotAgrees'
    BY <1>2, <2>1, KeptUnderItsSchema DEF KeepsHot
  <2>3. asker[t] \in [at : {"ranked", "reuses"}, question : Questions, schema : Schemas, row : Row]
    BY <1>2 DEF KeepsHot, CacheTypeOK, NotAsking
  <2>4. /\ [asker[t] EXCEPT !.at = "reuses"] \in AskerStates
        /\ [asker[t] EXCEPT !.at = "reuses"].row = asker[t].row
        /\ [asker[t] EXCEPT !.at = "reuses"].schema = asker[t].schema
    BY <2>3 DEF AskerStates
  <2>5. asker' \in [Askers -> AskerStates] /\ RankedAgree' /\ ReusedOnItsSchema'
    BY <1>2, <2>1, <2>4, AskerBecomes DEF KeepsHot
  <2> QED BY <1>2, <2>2, <2>5 DEF KeepsHot, CacheTypeOK, AskerStates
<1>3. ASSUME NEW t \in Askers, SavesRow(t) PROVE CacheInv'
  <2> DEFINE row == [code |-> asker[t].code, schema |-> columns]
  <2>1. asker[t].question \in Questions /\ row \in Row
    BY <1>3, AskerTypes DEF SavesRow, CacheTypeOK, Row
  <2> DEFINE state == [at |-> "saved", question |-> asker[t].question, row |-> row]
  <2>2. state \in AskerStates /\ state.at = "saved"
    BY <2>1 DEF AskerStates
  <2>3. asker' \in [Askers -> AskerStates] /\ RankedAgree' /\ ReusedOnItsSchema'
    <3>1. Becomes(t, state)
      BY <1>3 DEF SavesRow
    <3> HIDE DEF state
    <3> QED BY <2>2, <3>1, AskerBecomes
  <2>4. cacheRows' \in [Questions -> AtMostOne(Row)]
    <3>1. cacheRows' \in {cacheRows, [cacheRows EXCEPT ![asker[t].question] = {row}]}
      BY <1>3 DEF SavesRow
    <3> HIDE DEF row
    <3> QED BY <2>1, <3>1 DEF CacheTypeOK, AtMostOne
  <2> QED BY <1>3, <2>3, <2>4 DEF SavesRow, CacheTypeOK, AskerStates, HotAgrees
<1>4. ASSUME NEW t \in Askers, SavesHot(t) PROVE CacheInv'
  <2>1. asker[t].question \in Questions /\ asker[t].row \in Row
    BY <1>4, AskerTypes DEF SavesHot
  <2>2. hot' \in [Keys -> AtMostOne(Row)] /\ HotAgrees'
    BY <1>4, <2>1, KeptUnderItsSchema DEF SavesHot
  <2>3. NotAsking \in AskerStates /\ NotAsking.at = "idle"
    BY DEF AskerStates, NotAsking
  <2>4. asker' \in [Askers -> AskerStates] /\ RankedAgree' /\ ReusedOnItsSchema'
    BY <1>4, <2>3, AskerBecomes DEF SavesHot
  <2> QED BY <1>4, <2>2, <2>4 DEF SavesHot, CacheTypeOK, AskerStates
<1>5. ASSUME NEW key \in Keys, ForgetsHot(key) PROVE CacheInv'
  BY <1>5 DEF ForgetsHot, CacheTypeOK, AtMostOne, HotAgrees, RankedAgree, ReusedOnItsSchema
<1>6. CASE (\E s \in Schemas : LoadsFrame(s)) \/ UNCHANGED cacheVars
  BY <1>6 DEF LoadsFrame, cacheVars, CacheTypeOK, HotAgrees, RankedAgree, ReusedOnItsSchema
<1> QED BY <1>1, <1>2, <1>3, <1>4, <1>5, <1>6 DEF CacheNext

(* Whatever is reused, kept hot or about to be is of the schema it was       *)
(* stored for (lookup, add).                                                 *)
THEOREM CacheInvariance == CacheSpec => []CacheInv
BY CacheInitInv, CacheStepsKeepInv, PTL DEF CacheSpec

-----------------------------------------------------------------------------
(***************************************************************************)
(* The encoders, for any number of questions.                              *)
(*                                                                         *)
(* Nobody waits behind the warm-up because nobody goes where the lock is   *)
(* while it resolves an encoder: until it has one, a question is answered  *)
(* by the hashing encoder.                                                 *)
(***************************************************************************)

Resolving == {"remote", "lockRemote", "probe", "local", "lockLocal", "load"}

EncodersTyped ==
    /\ warmingUp \in BOOLEAN /\ remote \in BOOLEAN
    /\ encoding \in [EncoderThreads -> [at : Steps, query : {{}} \cup {{e} : e \in Encoders},
                                         stored : {{}} \cup {{e} : e \in Encoders}]]

WarmsUpAlone ==
    encoding["warm"].at \in Resolving =>
        /\ warmingUp = TRUE /\ remote = FALSE /\ local = "unloaded"
        /\ \A t \in Asking : encoding[t].at \in {"idle", "check", "over"}

EncodersInv ==
    /\ EncodersTyped /\ WarmsUpAlone
    /\ holder = {"warm"} => encoding["warm"].at \in {"probe", "load"}

LEMMA EncodersInitInv == EmbeddingsInit => EncodersInv
<1> SUFFICES ASSUME EmbeddingsInit PROVE EncodersInv
  OBVIOUS
<1>1. \A t \in Asking : t # "warm"
  BY EmbeddingsAssumption
<1>2. \A at \in Steps : [Resting EXCEPT !.at = at] \in
          [at : Steps, query : {{}} \cup {{e} : e \in Encoders},
           stored : {{}} \cup {{e} : e \in Encoders}]
  BY DEF Resting, Steps
<1>3. Resting = [Resting EXCEPT !.at = "idle"] /\ {"idle", "remote"} \subseteq Steps
  BY DEF Resting, Steps
<1>4. EncodersTyped
  BY <1>2, <1>3 DEF EmbeddingsInit, EncodersTyped
<1>5. \A t \in Asking : encoding[t].at = "idle"
  BY <1>1 DEF EmbeddingsInit, EncoderThreads, Resting
<1>6. WarmsUpAlone
  BY <1>5 DEF EmbeddingsInit, WarmsUpAlone
<1>7. holder # {"warm"}
  BY DEF EmbeddingsInit
<1> QED BY <1>4, <1>6, <1>7 DEF EncodersInv

\* Where a thread goes when it has been given an encoder's vector.
LEMMA EncodedGoesOn ==
    ASSUME EncodersTyped, NEW t \in EncoderThreads, NEW e \in Encoders, Encoded(t, e)
    PROVE  /\ encoding' \in [EncoderThreads ->
                               [at : Steps, query : {{}} \cup {{v} : v \in Encoders},
                                stored : {{}} \cup {{v} : v \in Encoders}]]
           /\ \A u \in EncoderThreads : u # t => encoding'[u] = encoding[u]
           /\ encoding'[t].at \in IF t = "warm" THEN {"settle"} ELSE {"over", "check"}
BY DEF Encoded, EncodersTyped, ThreadGoes, Steps

\* Where a thread is sent.
LEMMA ThreadMoves ==
    ASSUME EncodersTyped, NEW t \in EncoderThreads, NEW at \in Steps, ThreadGoes(t, at)
    PROVE  /\ encoding' \in [EncoderThreads ->
                               [at : Steps, query : {{}} \cup {{v} : v \in Encoders},
                                stored : {{}} \cup {{v} : v \in Encoders}]]
           /\ \A u \in EncoderThreads : u # t => encoding'[u] = encoding[u]
           /\ encoding'[t].at = at
BY DEF EncodersTyped, ThreadGoes

\* What a question may do while the warm-up resolves, and afterwards.
LEMMA QuestionsKeepInv ==
    ASSUME EncodersInv, NEW t \in Asking,
           encoding' \in [EncoderThreads ->
                            [at : Steps, query : {{}} \cup {{v} : v \in Encoders},
                             stored : {{}} \cup {{v} : v \in Encoders}]],
           \A u \in EncoderThreads : u # t => encoding'[u] = encoding[u],
           remote' \in BOOLEAN, UNCHANGED warmingUp,
           holder' \in {holder, {}, {t}},
           \/ encoding["warm"].at \notin Resolving
           \/ encoding'[t].at \in {"idle", "check", "over"} /\ UNCHANGED <<remote, local>>
    PROVE  EncodersInv'
<1>1. "warm" \in EncoderThreads /\ t # "warm" /\ Asking \subseteq EncoderThreads
  BY EmbeddingsAssumption DEF EncoderThreads
<1> QED BY <1>1 DEF EncodersInv, EncodersTyped, WarmsUpAlone, Resolving

\* What the warm-up may do: it goes on resolving as before, or is done with it.
LEMMA WarmUpKeepsInv ==
    ASSUME EncodersInv,
           encoding' \in [EncoderThreads ->
                            [at : Steps, query : {{}} \cup {{v} : v \in Encoders},
                             stored : {{}} \cup {{v} : v \in Encoders}]],
           \A u \in EncoderThreads : u # "warm" => encoding'[u] = encoding[u],
           remote' \in BOOLEAN, warmingUp' \in BOOLEAN,
           holder' = {"warm"} => encoding'["warm"].at \in {"probe", "load"},
           \/ encoding'["warm"].at \notin Resolving
           \/ encoding["warm"].at \in Resolving /\ UNCHANGED <<warmingUp, remote, local>>
    PROVE  EncodersInv'
<1>1. \A t \in Asking : t # "warm" /\ t \in EncoderThreads
  BY EmbeddingsAssumption DEF EncoderThreads
<1> QED BY <1>1 DEF EncodersInv, EncodersTyped, WarmsUpAlone, Resolving

LEMMA EncodersStepsKeepInv == ASSUME EncodersInv, [EmbeddingsNext]_embeddingVars PROVE EncodersInv'
<1> USE DEF EncodersInv
<1>0. /\ Asking \subseteq EncoderThreads /\ "warm" \in EncoderThreads
      /\ {"hashing", "remote", "local"} \subseteq Encoders
      /\ \A t \in EncoderThreads : t # "warm" => t \in Asking
      /\ Resolving \subseteq Steps /\ {"call", "encode", "failed", "settle", "over"} \subseteq Steps
  BY DEF EncoderThreads, Encoders, Resolving, Steps
<1>1. ASSUME NEW t \in Asking, RanksRow(t) \/ Checks(t) \/ DropsRemote(t) \/ Scores(t)
      PROVE  EncodersInv'
  <2>1. CASE RanksRow(t)
    <3>1. PICK stored \in {{}} \cup {{e} : e \in Encoders} :
              encoding' = [encoding EXCEPT ![t] = [at |-> "check", query |-> {}, stored |-> stored]]
      BY <2>1 DEF RanksRow
    <3>2. [at |-> "check", query |-> {}, stored |-> stored]
            \in [at : Steps, query : {{}} \cup {{v} : v \in Encoders},
                 stored : {{}} \cup {{v} : v \in Encoders}]
      BY DEF Steps
    <3>3. UNCHANGED <<warmingUp, remote, local, holder>>
      BY <2>1 DEF RanksRow
    <3> QED BY <1>0, <3>1, <3>2, <3>3, QuestionsKeepInv DEF EncodersTyped
  <2>2. CASE Checks(t)
    <3>1. UNCHANGED <<warmingUp, remote, local, holder>>
      BY <2>2 DEF Checks
    <3>2. CASE warmingUp /\ ~remote /\ local # "loaded"
      <4>1. Encoded(t, "hashing") /\ t # "warm"
        BY <2>2, <3>2, EmbeddingsAssumption DEF Checks
      <4> QED BY <1>0, <3>1, <4>1, EncodedGoesOn, QuestionsKeepInv DEF EncodersTyped
    <3>3. CASE ~(warmingUp /\ ~remote /\ local # "loaded")
      <4>1. encoding["warm"].at \notin Resolving
        BY <3>3 DEF WarmsUpAlone
      <4>2. ThreadGoes(t, "remote") /\ "remote" \in Steps
        BY <2>2, <3>3 DEF Checks, Steps
      <4> QED BY <1>0, <3>1, <4>1, <4>2, ThreadMoves, QuestionsKeepInv DEF EncodersTyped
    <3> QED BY <3>2, <3>3
  <2>3. CASE DropsRemote(t)
    <3>1. encoding["warm"].at \notin Resolving
      BY <2>3 DEF DropsRemote, WarmsUpAlone, ThreadIsAt
    <3>2. remote' = FALSE /\ UNCHANGED <<warmingUp, holder>> /\ ThreadGoes(t, "local") /\ "local" \in Steps
      BY <2>3 DEF DropsRemote, Steps
    <3> QED BY <1>0, <3>1, <3>2, ThreadMoves, QuestionsKeepInv
  <2>4. CASE Scores(t)
    <3>1. /\ encoding' = [encoding EXCEPT ![t] = Resting]
          /\ UNCHANGED <<warmingUp, remote, local, holder>>
      BY <2>4 DEF Scores
    <3>2. /\ Resting \in [at : Steps, query : {{}} \cup {{v} : v \in Encoders},
                          stored : {{}} \cup {{v} : v \in Encoders}]
          /\ Resting.at = "idle"
      BY DEF Resting, Steps
    <3> QED BY <1>0, <3>1, <3>2, QuestionsKeepInv DEF EncodersTyped
  <2> QED BY <1>1, <2>1, <2>2, <2>3, <2>4
<1>2. ASSUME NEW t \in Asking,
             \/ LooksForRemote(t) \/ LocksRemote(t) \/ Probes(t) \/ CallsRemote(t)
             \/ LooksForLocal(t) \/ LocksLocal(t) \/ Loads(t) \/ EncodesLocally(t)
      PROVE  EncodersInv'
  <2>1. encoding["warm"].at \notin Resolving
    BY <1>2 DEF LooksForRemote, LocksRemote, Probes, CallsRemote, LooksForLocal, LocksLocal, Loads,
                EncodesLocally, ThreadIsAt, WarmsUpAlone
  <2>2. UNCHANGED warmingUp /\ holder' \in {holder, {}, {t}} /\ remote' \in BOOLEAN
    BY <1>2 DEF LooksForRemote, LocksRemote, Probes, CallsRemote, LooksForLocal, LocksLocal, Loads,
                EncodesLocally, EncodersTyped
  <2>3. (\E at \in Steps : ThreadGoes(t, at)) \/ \E e \in Encoders : Encoded(t, e)
    <3>1. CASE LooksForRemote(t) \/ LocksRemote(t) \/ Probes(t)
      BY <1>0, <3>1 DEF LooksForRemote, LocksRemote, Probes, Resolving
    <3>2. CASE LooksForLocal(t) \/ LocksLocal(t) \/ Loads(t)
      BY <1>0, <3>2 DEF LooksForLocal, LocksLocal, Loads, Resolving
    <3>3. CASE CallsRemote(t) \/ EncodesLocally(t)
      BY <1>0, <3>3 DEF CallsRemote, EncodesLocally
    <3> QED BY <1>2, <3>1, <3>2, <3>3
  <2> QED BY <1>0, <2>1, <2>2, <2>3, ThreadMoves, EncodedGoesOn, QuestionsKeepInv
<1>3. CASE LooksForRemote("warm") \/ LocksRemote("warm") \/ LooksForLocal("warm") \/ LocksLocal("warm")
  <2>1. encoding["warm"].at \in Resolving /\ UNCHANGED <<warmingUp, remote, local>>
    BY <1>3 DEF LooksForRemote, LocksRemote, LooksForLocal, LocksLocal, ThreadIsAt, Resolving
  <2>2. remote = FALSE /\ local = "unloaded"
    BY <2>1 DEF WarmsUpAlone
  <2>3. PICK at \in Steps :
            /\ ThreadGoes("warm", at)
            /\ at \in {"probe", "load"} \/ holder' # {"warm"}
    BY <1>0, <1>3, <2>2
    DEF LooksForRemote, LocksRemote, LooksForLocal, LocksLocal, ThreadIsAt, Resolving
  <2> QED BY <1>0, <2>1, <2>3, ThreadMoves, WarmUpKeepsInv DEF EncodersTyped
<1>4. CASE Probes("warm") \/ Loads("warm")
  <2>1. encoding["warm"].at \in Resolving /\ UNCHANGED warmingUp /\ holder' = {}
    BY <1>4 DEF Probes, Loads, ThreadIsAt, Resolving
  <2>2. PICK at \in Steps :
            /\ ThreadGoes("warm", at) /\ remote' \in BOOLEAN
            /\ at \notin Resolving \/ UNCHANGED <<remote, local>>
    BY <1>0, <1>4 DEF Probes, Loads, Resolving, EncodersTyped
  <2> QED BY <1>0, <2>1, <2>2, ThreadMoves, WarmUpKeepsInv DEF EncodersTyped
<1>5. CASE CallsRemote("warm") \/ EncodesLocally("warm")
  <2>1. UNCHANGED <<warmingUp, remote, holder>> /\ encoding["warm"].at \in {"call", "encode"}
    BY <1>5 DEF CallsRemote, EncodesLocally, ThreadIsAt
  <2>2. ThreadGoes("warm", "settle")
    BY <1>5 DEF CallsRemote, EncodesLocally, Encoded
  <2> QED BY <1>0, <2>1, <2>2, ThreadMoves, WarmUpKeepsInv DEF EncodersTyped, Resolving
<1>6. CASE WarmUpEnds
  <2>1. /\ warmingUp' = FALSE /\ UNCHANGED <<remote, holder>>
        /\ encoding["warm"].at = "settle" /\ ThreadGoes("warm", "over")
    BY <1>6 DEF WarmUpEnds, ThreadIsAt
  <2> QED BY <1>0, <2>1, ThreadMoves, WarmUpKeepsInv DEF EncodersTyped, Resolving
<1>7. CASE Cools \/ UNCHANGED embeddingVars
  BY <1>7 DEF Cools, embeddingVars, EncodersTyped, WarmsUpAlone
<1> QED BY <1>0, <1>1, <1>2, <1>3, <1>4, <1>5, <1>6, <1>7 DEF EmbeddingsNext

(* While the warm-up resolves an encoder no question is anywhere near the    *)
(* lock (warm, encode_many).                                                 *)
THEOREM EncodersInvariance == EmbeddingsSpec => []EncodersInv
BY EncodersInitInv, EncodersStepsKeepInv, PTL DEF EmbeddingsSpec

LEMMA NobodyWaits == ASSUME EncodersInv PROVE NoQuestionWaitsForTheWarmUp
BY DEF EncodersInv, WarmsUpAlone, Resolving, NoQuestionWaitsForTheWarmUp

-----------------------------------------------------------------------------
(***************************************************************************)
(* The records of a session, for any number of sessions, turns, parallel   *)
(* actions and calls.                                                      *)
(*                                                                         *)
(* That the final frame's cost covers the turn is a fact of the moment it  *)
(* is sent: until then every call of the turn is on an account that its    *)
(* totals read, which is so because an account is only ever added to,      *)
(* and a branch runs only while its account is among the turn's.           *)
(***************************************************************************)

\* What the proof needs of the types; the memory is not read by the turns.
RecordsShape ==
    /\ ledger \in [ChatSessions -> [Accounts -> SUBSET (ChatTurns \X (1 .. MaxCalls))]]
    /\ chat \in Seq(ChatRows \cup {DeletedRow})
    /\ turns \in [ChatTurns -> TurnRecords]

\* A turn that has begun is of a session, and its running branches are its own.
Begun(t) ==
    /\ turns[t].pc = "idle" => turns[t].calls = 0
    /\ turns[t].pc # "idle" => Session(t) \in ChatSessions
    /\ BranchesOf(t) \subseteq turns[t].kids

CallsAreTotalled(t) == Spent(t) \subseteq Totals(t)

\* The row a turn names is one there is.
NamesARow(t) ==
    turns[t].id # 0 =>
        /\ turns[t].id \in 1 .. Len(chat)
        /\ chat[turns[t].id] \in {DeletedRow, [of |-> Session(t), turn |-> t, role |-> "assistant"]}

RecordsInv ==
    /\ RecordsShape
    /\ \A t \in ChatTurns :
         /\ Begun(t) /\ NamesARow(t)
         /\ turns[t].kept => CallsAreTotalled(t) /\ turns[t].covered

LEMMA RecordsInitInv == RecordsInit => RecordsInv
<1> SUFFICES ASSUME RecordsInit PROVE RecordsInv
  OBVIOUS
<1>1. Fresh \in TurnRecords /\ NothingSpent \in [Accounts -> SUBSET (ChatTurns \X (1 .. MaxCalls))]
  BY RecordsAssumption DEF Fresh, TurnRecords, NothingSpent
<1>2. RecordsShape
  BY <1>1 DEF RecordsInit, RecordsShape
<1>3. ASSUME NEW t \in ChatTurns
      PROVE  /\ Begun(t) /\ NamesARow(t)
             /\ turns[t].kept => CallsAreTotalled(t) /\ turns[t].covered
  <2>1. turns[t] = Fresh /\ 1 .. 0 = {}
    BY DEF RecordsInit
  <2> QED BY <2>1 DEF Fresh, Begun, NamesARow, BranchesOf, CallsAreTotalled, Spent
<1> QED BY <1>2, <1>3 DEF RecordsInv

\* The calls of a turn stay totalled while its accounts are only added to.
LEMMA TotalledStays ==
    ASSUME NEW t \in ChatTurns, CallsAreTotalled(t),
           turns'[t].calls = turns[t].calls, turns'[t].of = turns[t].of,
           turns[t].kids \subseteq turns'[t].kids, turns[t].kids \subseteq Accounts,
           \A a \in Accounts : ledger[Session(t)][a] \subseteq ledger'[Session(t)][a]
    PROVE  CallsAreTotalled(t)'
BY DEF CallsAreTotalled, Spent, Totals, Session, Accounts

\* Another turn's step leaves what the invariant says of this one.
LEMMA OthersKeep ==
    ASSUME RecordsInv, NEW t \in ChatTurns, turns'[t] = turns[t],
           chat' = chat \/ (\E row : chat' = Append(chat, row)),
           turns[t].pc # "idle" =>
               \A a \in Accounts : ledger[Session(t)][a] \subseteq ledger'[Session(t)][a]
    PROVE  /\ Begun(t)' /\ NamesARow(t)'
           /\ turns'[t].kept => CallsAreTotalled(t)' /\ turns'[t].covered
<1>1. Begun(t) /\ NamesARow(t) /\ (turns[t].kept => CallsAreTotalled(t) /\ turns[t].covered)
  BY DEF RecordsInv
<1>2. turns[t].kids \subseteq Accounts
  BY DEF RecordsInv, RecordsShape, TurnRecords, Accounts
<1>3. Begun(t)'
  BY <1>1 DEF Begun, Session, BranchesOf
<1>4. NamesARow(t)'
  <2>1. \A i \in 1 .. Len(chat) : i \in 1 .. Len(chat') /\ chat'[i] = chat[i]
    BY LenProperties DEF RecordsInv, RecordsShape
  <2> QED BY <1>1, <2>1 DEF NamesARow, Session
<1>5. ASSUME turns'[t].kept PROVE CallsAreTotalled(t)'
  <2>1. CASE turns[t].pc = "idle"
    <3>1. turns'[t].calls = 0 /\ 1 .. 0 = {}
      BY <1>1, <2>1 DEF Begun
    <3> QED BY <3>1 DEF CallsAreTotalled, Spent
  <2>2. CASE turns[t].pc # "idle"
    BY <1>1, <1>2, <1>5, <2>2, TotalledStays
  <2> QED BY <2>1, <2>2
<1> QED BY <1>1, <1>3, <1>4, <1>5

\* A call is booked to an account that the turn's totals read.
LEMMA BookingKeepsInv ==
    ASSUME RecordsInv, NEW t \in ChatTurns, CallsModel(t) \/ BranchCalls(t)
    PROVE  RecordsInv'
<1>1. PICK a \in {Own} \cup turns[t].kids : Books(t, a) /\ turns[t].pc # "idle"
  BY DEF RecordsInv, Begun, CallsModel, BranchCalls, BranchesOf
<1> DEFINE call == <<t, turns[t].calls + 1>>
<1>2. /\ turns[t] \in TurnRecords /\ Session(t) \in ChatSessions
      /\ turns[t].kids \subseteq Accounts /\ a \in Accounts
  BY <1>1 DEF RecordsInv, RecordsShape, TurnRecords, Begun, Accounts
<1>3. /\ turns[t].calls \in Nat /\ turns[t].calls + 1 \in 1 .. MaxCalls
  BY <1>1, <1>2, RecordsAssumption DEF TurnRecords, Books
<1>4. /\ turns' = [turns EXCEPT ![t] = [turns[t] EXCEPT !.calls = turns[t].calls + 1]]
      /\ ledger' = [ledger EXCEPT ![Session(t)] =
                       [ledger[Session(t)] EXCEPT ![a] = ledger[Session(t)][a] \cup {call}]]
      /\ UNCHANGED chat
  BY <1>1 DEF Books
<1>5. /\ turns' \in [ChatTurns -> TurnRecords]
      /\ \A u \in ChatTurns \ {t} : turns'[u] = turns[u]
      /\ turns'[t] = [turns[t] EXCEPT !.calls = turns[t].calls + 1]
  <2>1. \A n \in 0 .. MaxCalls : [turns[t] EXCEPT !.calls = n] \in TurnRecords
    BY <1>2 DEF TurnRecords
  <2>2. turns[t].calls + 1 \in 0 .. MaxCalls
    BY <1>3, RecordsAssumption
  <2> QED BY <1>4, <2>1, <2>2 DEF RecordsInv, RecordsShape
<1>6. /\ ledger' \in [ChatSessions -> [Accounts -> SUBSET (ChatTurns \X (1 .. MaxCalls))]]
      /\ \A s \in ChatSessions : \A b \in Accounts : ledger[s][b] \subseteq ledger'[s][b]
      /\ call \in ledger'[Session(t)][a]
  BY <1>2, <1>3, <1>4 DEF RecordsInv, RecordsShape
<1>7. RecordsShape'
  BY <1>4, <1>5, <1>6 DEF RecordsInv, RecordsShape
<1>8. ASSUME NEW u \in ChatTurns, u # t
      PROVE  /\ Begun(u)' /\ NamesARow(u)'
             /\ turns'[u].kept => CallsAreTotalled(u)' /\ turns'[u].covered
  <2>1. turns[u].pc # "idle" => Session(u) \in ChatSessions
    BY DEF RecordsInv, Begun
  <2> QED BY <1>4, <1>5, <1>6, <1>8, <2>1, OthersKeep
<1>9. Begun(t)' /\ NamesARow(t)'
  BY <1>1, <1>2, <1>4, <1>5 DEF RecordsInv, Begun, NamesARow, BranchesOf, Session, TurnRecords
<1>10. ASSUME turns'[t].kept PROVE CallsAreTotalled(t)' /\ turns'[t].covered
  <2>1. /\ turns'[t].calls = turns[t].calls + 1 /\ turns'[t].of = turns[t].of
        /\ turns'[t].kids = turns[t].kids /\ turns'[t].covered = turns[t].covered
        /\ CallsAreTotalled(t) /\ turns[t].covered
    BY <1>2, <1>5, <1>10 DEF RecordsInv, TurnRecords
  <2>2. ASSUME NEW c \in Spent(t)' PROVE c \in Totals(t)'
    <3>1. PICK n \in 1 .. turns[t].calls + 1 : c = <<t, n>>
      BY <2>1, <2>2 DEF Spent
    <3>2. CASE n = turns[t].calls + 1
      BY <1>6, <2>1, <3>1, <3>2 DEF Totals, Session
    <3>3. CASE n # turns[t].calls + 1
      <4>1. n \in 1 .. turns[t].calls
        BY <1>3, <3>1, <3>3
      <4>2. c \in Totals(t)
        BY <2>1, <3>1, <4>1 DEF CallsAreTotalled, Spent
      <4>3. PICK b \in {Own} \cup turns[t].kids : c \in ledger[Session(t)][b]
        BY <4>2 DEF Totals
      <4>4. b \in Accounts
        BY <1>2, <4>3 DEF Accounts
      <4> QED BY <1>2, <1>6, <2>1, <4>3, <4>4 DEF Totals, Session
    <3> QED BY <3>2, <3>3
  <2> QED BY <2>1, <2>2 DEF CallsAreTotalled
<1> QED BY <1>7, <1>8, <1>9, <1>10 DEF RecordsInv

\* Asking, fanning out, folding back and ending leave the accounts alone.
LEMMA TurnsKeepInv ==
    ASSUME RecordsInv, NEW t \in ChatTurns, UNCHANGED ledger, turns' \in [ChatTurns -> TurnRecords],
           \A u \in ChatTurns \ {t} : turns'[u] = turns[u],
           chat' = chat \/ (\E row \in ChatRows : chat' = Append(chat, row)),
           Begun(t)', NamesARow(t)', turns'[t].kept => CallsAreTotalled(t)' /\ turns'[t].covered
    PROVE  RecordsInv'
<1>1. chat' \in Seq(ChatRows \cup {DeletedRow})
  BY AppendProperties DEF RecordsInv, RecordsShape
<1>2. RecordsShape'
  BY <1>1 DEF RecordsInv, RecordsShape
<1>3. ASSUME NEW u \in ChatTurns, u # t
      PROVE  /\ Begun(u)' /\ NamesARow(u)'
             /\ turns'[u].kept => CallsAreTotalled(u)' /\ turns'[u].covered
  BY <1>3, OthersKeep
<1> QED BY <1>2, <1>3 DEF RecordsInv

LEMMA TurnStepsKeepInv ==
    ASSUME RecordsInv, NEW t \in ChatTurns,
           \/ \E s \in SessionsOf[t] : AsksIn(t, s)
           \/ FansOut(t) \/ FoldsBack(t) \/ Remembers(t) \/ StoresAnswer(t)
           \/ SendsFinal(t) \/ EndsEarly(t)
    PROVE  RecordsInv'
<1> DEFINE Others == \A u \in ChatTurns \ {t} : turns'[u] = turns[u]
<1>1. /\ turns \in [ChatTurns -> TurnRecords] /\ turns[t] \in TurnRecords
      /\ turns[t].kids \subseteq SubagentIds /\ turns[t].group \in 0 .. MaxGroups
      /\ turns[t].kids \subseteq Accounts
      /\ Begun(t) /\ NamesARow(t) /\ (turns[t].kept => CallsAreTotalled(t) /\ turns[t].covered)
      /\ chat \in Seq(ChatRows \cup {DeletedRow}) /\ Len(chat) \in Nat
  BY LenProperties DEF RecordsInv, RecordsShape, TurnRecords, Accounts
<1>2. CASE \E s \in SessionsOf[t] : AsksIn(t, s)
  <2>1. PICK s \in ChatSessions : AsksIn(t, s)
    BY <1>2, RecordsAssumption
  <2>2. /\ turns' = [turns EXCEPT ![t] = [Fresh EXCEPT !.pc = "runs", !.of = s]] /\ UNCHANGED ledger
        /\ [Fresh EXCEPT !.pc = "runs", !.of = s] \in TurnRecords
    <3>1. Fresh \in TurnRecords
      BY RecordsAssumption DEF Fresh, TurnRecords
    <3>2. [Fresh EXCEPT !.pc = "runs", !.of = s] \in TurnRecords
      BY <3>1 DEF TurnRecords
    <3> QED BY <2>1, <3>2 DEF AsksIn
  <2>3. turns' \in [ChatTurns -> TurnRecords] /\ Others
        /\ turns'[t] = [Fresh EXCEPT !.pc = "runs", !.of = s] /\ 1 .. 0 = {}
    BY <1>1, <2>2
  <2>4. \E row \in ChatRows : chat' = Append(chat, row)
    BY <2>1 DEF AsksIn, Appended, ChatRows
  <2>5. Begun(t)' /\ NamesARow(t)' /\ CallsAreTotalled(t)' /\ turns'[t].covered
    BY <2>3 DEF Fresh, Begun, BranchesOf, NamesARow, CallsAreTotalled, Spent, Session
  <2> QED BY <2>2, <2>3, <2>4, <2>5, TurnsKeepInv
<1>3. CASE FansOut(t)
  <2> DEFINE g == turns[t].group + 1
             kids == {g} \X BranchNumbers
             after == [turns[t] EXCEPT !.group = g, !.kids = turns[t].kids \cup kids, !.pc = "fans"]
  <2>1. g \in 1 .. MaxGroups /\ kids \subseteq SubagentIds
    BY <1>1, <1>3, RecordsAssumption DEF FansOut, SubagentIds
  <2>2. turns' = [turns EXCEPT ![t] = after] /\ UNCHANGED <<ledger, chat>> /\ turns[t].pc = "runs"
    BY <1>3 DEF FansOut
  <2>3. after \in TurnRecords
    <3>1. g \in 0 .. MaxGroups /\ turns[t].kids \cup kids \in SUBSET SubagentIds
      BY <1>1, <2>1, RecordsAssumption
    <3> HIDE DEF g, kids
    <3> QED BY <1>1, <3>1 DEF TurnRecords
  <2>4. turns' \in [ChatTurns -> TurnRecords] /\ Others /\ turns'[t] = after
    BY <1>1, <2>2, <2>3
  <2>5. /\ turns'[t].pc = "fans" /\ turns'[t].group = g /\ turns'[t].kids = turns[t].kids \cup kids
        /\ turns'[t].of = turns[t].of /\ turns'[t].calls = turns[t].calls
        /\ turns'[t].id = turns[t].id /\ turns'[t].kept = turns[t].kept
        /\ turns'[t].covered = turns[t].covered
    BY <1>1, <2>4 DEF TurnRecords
  <2>6. Begun(t)' /\ NamesARow(t)'
    BY <1>1, <2>2, <2>5 DEF Begun, NamesARow, BranchesOf, Session
  <2>7. CallsAreTotalled(t) => CallsAreTotalled(t)'
    BY <1>1, <2>2, <2>5, TotalledStays
  <2> QED BY <1>1, <2>2, <2>4, <2>5, <2>6, <2>7, TurnsKeepInv
<1>4. CASE FoldsBack(t) \/ Remembers(t) \/ EndsEarly(t)
  <2>1. PICK p \in {"runs", "remembered", "done"} : turns' = [turns EXCEPT ![t].pc = p]
    BY <1>4 DEF FoldsBack, Remembers, EndsEarly
  <2>2. UNCHANGED <<ledger, chat>> /\ turns[t].pc # "idle"
    BY <1>4 DEF FoldsBack, Remembers, EndsEarly
  <2>3. turns' \in [ChatTurns -> TurnRecords] /\ Others /\ turns'[t] = [turns[t] EXCEPT !.pc = p]
    BY <1>1, <2>1 DEF TurnRecords
  <2>4. Begun(t)' /\ NamesARow(t)'
    BY <1>1, <2>2, <2>3 DEF Begun, NamesARow, BranchesOf, Session, TurnRecords
  <2>5. turns'[t].kept => CallsAreTotalled(t)' /\ turns'[t].covered
    <3>1. /\ turns'[t].of = turns[t].of /\ turns'[t].calls = turns[t].calls
          /\ turns'[t].kids = turns[t].kids /\ turns'[t].kept = turns[t].kept
          /\ turns'[t].covered = turns[t].covered
      BY <1>1, <2>3 DEF TurnRecords
    <3> QED BY <1>1, <2>2, <3>1, TotalledStays
  <2> QED BY <2>2, <2>3, <2>4, <2>5, TurnsKeepInv
<1>5. CASE StoresAnswer(t)
  <2>1. UNCHANGED ledger /\ turns[t].pc = "remembered"
    BY <1>5 DEF StoresAnswer
  <2>2. PICK n \in Nat :
          /\ turns' = [turns EXCEPT ![t] = [turns[t] EXCEPT !.pc = "answered", !.id = n]]
          /\ \/ /\ chat' = Append(chat, [of |-> Session(t), turn |-> t, role |-> "assistant"])
                /\ n = Len(chat) + 1
             \/ chat' = chat /\ n = turns[t].id
    <3>1. CASE chat' = Appended([of |-> Session(t), turn |-> t, role |-> "assistant"])
               /\ turns' = [turns EXCEPT ![t].pc = "answered", ![t].id = Len(chat) + 1]
      BY <1>1, <3>1, Len(chat) + 1 \in Nat DEF Appended
    <3>2. CASE turns' = [turns EXCEPT ![t].pc = "answered"] /\ UNCHANGED chat
      <4>1. [turns[t] EXCEPT !.pc = "answered", !.id = turns[t].id] = [turns[t] EXCEPT !.pc = "answered"]
        BY <1>1 DEF TurnRecords
      <4>2. turns[t].id \in Nat
        BY <1>1 DEF TurnRecords
      <4> QED BY <3>2, <4>1, <4>2
    <3> QED BY <1>5, <3>1, <3>2 DEF StoresAnswer
  <2>3. /\ turns' \in [ChatTurns -> TurnRecords] /\ Others
        /\ turns'[t] = [turns[t] EXCEPT !.pc = "answered", !.id = n]
    BY <1>1, <2>2 DEF TurnRecords
  <2>4. [of |-> Session(t), turn |-> t, role |-> "assistant"] \in ChatRows
    BY <1>1, <2>1 DEF ChatRows, Begun
  <2>5. Begun(t)'
    BY <1>1, <2>1, <2>3 DEF Begun, BranchesOf, Session, TurnRecords
  <2>6. NamesARow(t)'
    <3>1. turns'[t].id = n /\ turns'[t].of = turns[t].of
      BY <1>1, <2>3 DEF TurnRecords
    <3>2. CASE chat' = Append(chat, [of |-> Session(t), turn |-> t, role |-> "assistant"])
               /\ n = Len(chat) + 1
      <4>1. Len(chat') = n /\ chat'[n] = [of |-> Session(t), turn |-> t, role |-> "assistant"]
        BY <1>1, <2>4, <3>2, AppendProperties
      <4>2. n \in 1 .. Len(chat')
        BY <1>1, <3>2, <4>1
      <4> QED BY <3>1, <4>1, <4>2 DEF NamesARow, Session
    <3>3. CASE chat' = chat /\ n = turns[t].id
      BY <1>1, <3>1, <3>3 DEF NamesARow, Session
    <3> QED BY <2>2, <3>2, <3>3
  <2>7. turns'[t].kept => CallsAreTotalled(t)' /\ turns'[t].covered
    <3>1. /\ turns'[t].of = turns[t].of /\ turns'[t].calls = turns[t].calls
          /\ turns'[t].kids = turns[t].kids /\ turns'[t].kept = turns[t].kept
          /\ turns'[t].covered = turns[t].covered
      BY <1>1, <2>3 DEF TurnRecords
    <3> QED BY <1>1, <2>1, <3>1, TotalledStays
  <2> QED BY <2>1, <2>2, <2>3, <2>4, <2>5, <2>6, <2>7, TurnsKeepInv
<1>6. CASE SendsFinal(t)
  <2> DEFINE covers == Spent(t) \subseteq Totals(t)
  <2>1. /\ turns' = [turns EXCEPT ![t] = [turns[t] EXCEPT !.pc = "done", !.covered = covers]]
        /\ UNCHANGED <<ledger, chat>> /\ turns[t].pc # "idle" /\ covers \in BOOLEAN
    BY <1>6 DEF SendsFinal
  <2> HIDE DEF covers
  <2>2. /\ turns' \in [ChatTurns -> TurnRecords] /\ Others
        /\ turns'[t] = [turns[t] EXCEPT !.pc = "done", !.covered = covers]
    BY <1>1, <2>1 DEF TurnRecords
  <2>3. Begun(t)' /\ NamesARow(t)'
    BY <1>1, <2>1, <2>2 DEF Begun, NamesARow, BranchesOf, Session, TurnRecords
  <2>4. turns'[t].kept => CallsAreTotalled(t)'
    BY <1>1, <2>1, <2>2, TotalledStays DEF TurnRecords
  <2>5. turns'[t].covered = covers /\ turns'[t].kept = turns[t].kept
    BY <1>1, <2>2 DEF TurnRecords
  <2>6. turns'[t].kept => turns'[t].covered
    BY <1>1, <2>5 DEF CallsAreTotalled, covers
  <2> QED BY <2>1, <2>2, <2>3, <2>4, <2>6, TurnsKeepInv
<1> QED BY <1>2, <1>3, <1>4, <1>5, <1>6

\* What dispose forgets is of a session whose turns are no longer promised anything.
LEMMA ForgettingKeepsInv ==
    ASSUME RecordsInv, NEW s \in ChatSessions, NEW accounts, Forgets(s, accounts), UNCHANGED chat
    PROVE  RecordsInv'
<1> DEFINE left == [a \in Accounts |-> IF a \in accounts THEN {} ELSE ledger[s][a]]
<1>1. /\ ledger \in [ChatSessions -> [Accounts -> SUBSET (ChatTurns \X (1 .. MaxCalls))]]
      /\ turns \in [ChatTurns -> TurnRecords]
  BY DEF RecordsInv, RecordsShape
<1>2. /\ ledger' = [ledger EXCEPT ![s] = left]
      /\ left \in [Accounts -> SUBSET (ChatTurns \X (1 .. MaxCalls))]
  BY <1>1 DEF Forgets
<1>3. /\ ledger' \in [ChatSessions -> [Accounts -> SUBSET (ChatTurns \X (1 .. MaxCalls))]]
      /\ \A z \in ChatSessions \ {s} : ledger'[z] = ledger[z]
  BY <1>1, <1>2
<1>4. turns' \in [ChatTurns -> TurnRecords]
  <2>1. \A t \in ChatTurns : turns[t] \in TurnRecords /\ [turns[t] EXCEPT !.kept = FALSE] \in TurnRecords
    BY <1>1 DEF TurnRecords
  <2> QED BY <2>1 DEF Forgets
<1>5. ASSUME NEW t \in ChatTurns
      PROVE  /\ Begun(t)' /\ NamesARow(t)'
             /\ turns'[t].kept => CallsAreTotalled(t)' /\ turns'[t].covered
  <2>1. CASE Session(t) = s
    <3>1. turns'[t] = [turns[t] EXCEPT !.kept = FALSE] /\ turns[t] \in TurnRecords
      BY <1>1, <2>1 DEF Forgets
    <3>2. /\ turns'[t].pc = turns[t].pc /\ turns'[t].of = turns[t].of /\ ~turns'[t].kept
          /\ turns'[t].group = turns[t].group /\ turns'[t].kids = turns[t].kids
          /\ turns'[t].calls = turns[t].calls /\ turns'[t].id = turns[t].id
      BY <3>1 DEF TurnRecords
    <3> QED BY <3>2 DEF RecordsInv, Begun, NamesARow, BranchesOf, Session
  <2>2. CASE Session(t) # s
    <3>1. turns'[t] = turns[t]
      BY <2>2 DEF Forgets
    <3>2. turns[t].pc # "idle" => Session(t) \in ChatSessions \ {s}
      BY <2>2 DEF RecordsInv, Begun
    <3> QED BY <1>3, <3>1, <3>2, OthersKeep
  <2> QED BY <2>1, <2>2
<1> QED BY <1>3, <1>4, <1>5 DEF RecordsInv, RecordsShape

\* A row that is deleted is no other turn's: an id is not given again.
LEMMA DeletingKeepsInv ==
    ASSUME RecordsInv, NEW s \in ChatSessions, DeletesRows(s)
    PROVE  RecordsInv'
<1>1. UNCHANGED <<ledger, turns>>
  BY DEF DeletesRows
<1>2. /\ chat \in Seq(ChatRows \cup {DeletedRow}) /\ Len(chat) \in Nat
      /\ DOMAIN chat = 1 .. Len(chat)
      /\ \A i \in 1 .. Len(chat) : chat[i] \in ChatRows \cup {DeletedRow}
  BY LenProperties, ElementOfSeq DEF RecordsInv, RecordsShape
<1>3. /\ chat' \in Seq(ChatRows \cup {DeletedRow}) /\ Len(chat') = Len(chat)
      /\ \A i \in 1 .. Len(chat) : chat'[i] \in {chat[i], DeletedRow}
  <2>1. CASE UNCHANGED chat
    BY <1>2, <2>1
  <2>2. CASE chat' = [i \in DOMAIN chat |-> IF chat[i].of = s THEN DeletedRow ELSE chat[i]]
    BY <1>2, <2>2
  <2> QED BY <2>1, <2>2 DEF DeletesRows
<1>4. ASSUME NEW t \in ChatTurns
      PROVE  /\ Begun(t)' /\ NamesARow(t)'
             /\ turns'[t].kept => CallsAreTotalled(t)' /\ turns'[t].covered
  BY <1>1, <1>3
  DEF RecordsInv, Begun, NamesARow, BranchesOf, Session, CallsAreTotalled, Spent, Totals
<1> QED BY <1>1, <1>3, <1>4 DEF RecordsInv, RecordsShape

LEMMA RecordsStepsKeepInv == ASSUME RecordsInv, [RecordsNext]_recordVars PROVE RecordsInv'
<1>1. ASSUME UNCHANGED <<ledger, chat, turns>> PROVE RecordsInv'
  BY <1>1 DEF RecordsInv, RecordsShape, Begun, NamesARow, BranchesOf, Session, CallsAreTotalled,
              Spent, Totals
<1>2. CASE UNCHANGED recordVars
  BY <1>1, <1>2 DEF recordVars
<1>3. ASSUME NEW t \in ChatTurns,
             \/ \E s \in SessionsOf[t] : AsksIn(t, s)
             \/ FansOut(t) \/ FoldsBack(t) \/ Remembers(t) \/ StoresAnswer(t)
             \/ SendsFinal(t) \/ EndsEarly(t)
      PROVE  RecordsInv'
  BY <1>3, TurnStepsKeepInv
<1>4. ASSUME NEW t \in ChatTurns, CallsModel(t) \/ BranchCalls(t) PROVE RecordsInv'
  BY <1>4, BookingKeepsInv
<1>5. ASSUME NEW s \in ChatSessions, Pops(s) PROVE RecordsInv'
  BY <1>1, <1>5 DEF Pops
<1>6. ASSUME NEW s \in ChatSessions, DisposesKids(s) \/ DisposesOwn(s) PROVE RecordsInv'
  BY <1>6, ForgettingKeepsInv DEF DisposesKids, DisposesOwn
<1>7. ASSUME NEW s \in ChatSessions, DeletesRows(s) PROVE RecordsInv'
  BY <1>7, DeletingKeepsInv
<1> QED BY <1>2, <1>3, <1>4, <1>5, <1>6, <1>7 DEF RecordsNext

(* Whatever turns are asked side by side in a session, fan out, are given up *)
(* or outlive it, what a final frame says a turn cost covers every call that *)
(* it and its branches have booked, and the row it names is its own answer   *)
(* or deleted (usage ledger, chat messages, _finalize, dispose).             *)
THEOREM RecordsInvariance == RecordsSpec => []RecordsInv
BY RecordsInitInv, RecordsStepsKeepInv, PTL DEF RecordsSpec

LEMMA RecordsFollow == ASSUME RecordsInv PROVE TotalsCoverTheTurn /\ FinalsNameTheirAnswer
BY DEF RecordsInv, NamesARow, TotalsCoverTheTurn, FinalsNameTheirAnswer

-----------------------------------------------------------------------------
(* The registry follows the disk, what is fetched is of its commit, a skill  *)
(* is offered once and not after it was declined, code is reused on its      *)
(* schema, no question waits for the warm-up and a turn's cost and answer    *)
(* are its own, for every number of requests, commits, turns, sessions,      *)
(* calls, questions and threads, every repository and every threshold        *)
(* (Services).                                                               *)
THEOREM MemoriesStayInOrder ==
    SkillsSpec /\ FetchSpec /\ PromotionSpec /\ CacheSpec /\ EmbeddingsSpec /\ RecordsSpec
        => []MemoriesAreInOrder
<1>1. ASSUME SkillsInv, FetchInv, PromotionInv, CacheInv, EncodersInv, RecordsInv
      PROVE  MemoriesAreInOrder
  BY <1>1, RegistryFollows, FetchedFollow, NobodyWaits, RecordsFollow
  DEF MemoriesAreInOrder, PromotionInv, CacheInv
<1> QED BY <1>1, SkillsInvariance, FetchInvariance, PromotionInvariance, CacheInvariance,
           EncodersInvariance, RecordsInvariance, PTL

(* A download that ended stays shown, the copy under a single client's       *)
(* review stays, and a poll never sees a job go back, for every number of    *)
(* names, commits and jobs (Services).                                       *)
THEOREM NothingIsTakenBack ==
    ASSUME OneClient
    PROVE  DownloadsSpec /\ SkillsSpec /\ QueueSpec => NothingGoesBack
BY EndsStayShown, ReviewsStand, PollsGoForward, PTL DEF NothingGoesBack
-----------------------------------------------------------------------------
(***************************************************************************)
(* The page, for any number of sockets, messages and frames on the way.    *)
(*                                                                         *)
(* No frame names its turn, so that each is filed under its own depends on *)
(* what is on the way in both directions: while the user has left no turn  *)
(* unfinished, an open socket is idle, or its only turn is that of the     *)
(* active message and is sent, served or ending, and its last frame is the *)
(* last on the way. A question is on its way, on the page or answered.     *)
(***************************************************************************)

ReadyStates == {"none", "connecting", "retired", "open", "closing", "closed"}
PageMessages ==
    [streaming : BOOLEAN, approval : {"none", "gate", "question"}, heard : SUBSET Nat]
UpKinds == {"message", "answer", "cancel"}
DownKinds == {"status", "delta", "branch"} \cup LastFrames \cup QuestionFrames
PageFrames == [kind : UpKinds \cup DownKinds, of : Nat]
ServedRuns ==
    [of : Nat, cancelled : BOOLEAN, asks : {"no"} \cup QuestionFrames,
     asked : BOOLEAN, said : BOOLEAN]

PageShape ==
    /\ ready \in [SocketIds -> ReadyStates] /\ current \in 0 .. MaxSockets
    /\ messages \in Seq(PageMessages) /\ activeId \in 0 .. Len(messages)
    /\ hidden \subseteq MessageIds
    /\ up \in [SocketIds -> Seq(PageFrames)] /\ down \in [SocketIds -> Seq(PageFrames)]
    /\ run \in [SocketIds -> ServedRuns]

\* A run that has said its last, or none.
IsQuiet(r) == r.of = 0 \/ r.said

\* What was on the way went with the socket; a run that has said its last asks nothing.
WiresAreOfOpenSockets ==
    \A s \in SocketIds :
        /\ ready[s] # "open" => up[s] = <<>> /\ down[s] = <<>> /\ run[s] = NoRun
        /\ IsQuiet(run[s]) => run[s].asks = "no"

LEMMA PageInitShape == StreamInit => PageShape /\ OneLiveSocket /\ WiresAreOfOpenSockets
<1> SUFFICES ASSUME StreamInit PROVE PageShape /\ OneLiveSocket /\ WiresAreOfOpenSockets
  OBVIOUS
<1>1. /\ <<>> \in Seq(PageMessages) /\ <<>> \in Seq(PageFrames) /\ Len(<<>>) = 0
      /\ NoRun \in ServedRuns /\ 1 \in SocketIds /\ SocketIds \subseteq Nat
  BY StreamAssumption DEF NoRun, ServedRuns, SocketIds
<1>2. PageShape
  BY <1>1, StreamAssumption DEF StreamInit, PageShape, ReadyStates, MessageIds
<1>3. OneLiveSocket
  BY DEF StreamInit, OneLiveSocket, Alive
<1>4. WiresAreOfOpenSockets
  BY <1>1 DEF StreamInit, WiresAreOfOpenSockets, NoRun
<1> QED BY <1>2, <1>3, <1>4

\* connect leaves the sockets that are open, and makes its own the current one.
LEMMA ConnectingKeeps ==
    ASSUME PageShape, OneLiveSocket, Connects(ready)
    PROVE  /\ ready' \in [SocketIds -> ReadyStates] /\ current' \in 0 .. MaxSockets
           /\ \A s \in SocketIds : Alive(s)' => s = current'
           /\ \A s \in SocketIds : ready[s] = "open" <=> ready'[s] = "open"
<1>1. CASE current # 0 /\ Alive(current)
  BY <1>1 DEF Connects, PageShape, OneLiveSocket, Alive
<1>2. CASE ~(current # 0 /\ Alive(current))
  <2>1. PICK s \in Unused : ready' = [ready EXCEPT ![s] = "connecting"] /\ current' = s
    BY <1>2 DEF Connects
  <2>2. s \in SocketIds /\ ready[s] = "none" /\ s \in 0 .. MaxSockets /\ 0 \notin SocketIds
    BY <2>1, StreamAssumption DEF Unused, SocketIds
  <2>3. \A t \in SocketIds : ~Alive(t)
    BY <1>2, <2>2 DEF OneLiveSocket
  <2> QED BY <2>1, <2>2, <2>3 DEF PageShape, ReadyStates, Alive
<1> QED BY <1>1, <1>2

\* A closed wire is empty.
LEMMA HangingUpKeeps ==
    ASSUME PageShape, WiresAreOfOpenSockets, NEW s \in SocketIds, HangsUp(s)
    PROVE  /\ up' \in [SocketIds -> Seq(PageFrames)] /\ down' \in [SocketIds -> Seq(PageFrames)]
           /\ run' \in [SocketIds -> ServedRuns]
           /\ up'[s] = <<>> /\ down'[s] = <<>> /\ run'[s] = NoRun
           /\ \A t \in SocketIds \ {s} : up'[t] = up[t] /\ down'[t] = down[t] /\ run'[t] = run[t]
<1>1. <<>> \in Seq(PageFrames) /\ NoRun \in ServedRuns
  BY DEF NoRun, ServedRuns
<1> QED BY <1>1 DEF HangsUp, PageShape

\* A message that is active is on the page.
ActiveIsShown == activeId \notin hidden

PageBase ==
    /\ PageShape /\ OneLiveSocket /\ WiresAreOfOpenSockets
    /\ RunningNamesAMessage /\ ActiveIsShown

\* A socket that opens, that starts to close or that closes.
LEMMA SocketsKeepBase ==
    ASSUME PageBase, NEW s \in SocketIds, Opens(s) \/ StartsClosing(s) \/ SocketCloses(s)
    PROVE  PageBase'
<1> USE DEF PageBase
<1>1. CASE Opens(s)
  <2>1. PageShape'
    BY <1>1 DEF Opens, PageShape, ReadyStates, pageVars, wires, MessageIds
  <2>2. OneLiveSocket' /\ WiresAreOfOpenSockets'
    BY <1>1 DEF Opens, PageShape, OneLiveSocket, Alive, WiresAreOfOpenSockets, wires
  <2>3. RunningNamesAMessage' /\ ActiveIsShown'
    BY <1>1 DEF Opens, pageVars, RunningNamesAMessage, ActiveIsShown
  <2> QED BY <2>1, <2>2, <2>3
<1>2. CASE StartsClosing(s)
  <2>1. /\ up' \in [SocketIds -> Seq(PageFrames)] /\ down' \in [SocketIds -> Seq(PageFrames)]
        /\ run' \in [SocketIds -> ServedRuns]
        /\ up'[s] = <<>> /\ down'[s] = <<>> /\ run'[s] = NoRun
        /\ \A t \in SocketIds \ {s} : up'[t] = up[t] /\ down'[t] = down[t] /\ run'[t] = run[t]
    BY <1>2, HangingUpKeeps DEF StartsClosing
  <2>2. PageShape'
    BY <1>2, <2>1 DEF StartsClosing, PageShape, ReadyStates, pageVars, MessageIds
  <2>3. OneLiveSocket'
    BY <1>2 DEF StartsClosing, PageShape, OneLiveSocket, Alive
  <2>5. \A t \in SocketIds \ {s} : ready'[t] = ready[t]
    BY <1>2 DEF StartsClosing, PageShape
  <2>6. WiresAreOfOpenSockets'
    <3> SUFFICES ASSUME NEW t \in SocketIds
                 PROVE  /\ ready'[t] # "open" => up'[t] = <<>> /\ down'[t] = <<>> /\ run'[t] = NoRun
                        /\ IsQuiet(run'[t]) => run'[t].asks = "no"
      BY DEF WiresAreOfOpenSockets
    <3>1. CASE t = s
      BY <2>1, <3>1 DEF NoRun
    <3>2. CASE t # s
      <4>1. /\ ready'[t] = ready[t] /\ up'[t] = up[t] /\ down'[t] = down[t] /\ run'[t] = run[t]
        BY <2>1, <2>5, <3>2
      <4> QED BY <4>1 DEF WiresAreOfOpenSockets
    <3> QED BY <3>1, <3>2
  <2>4. RunningNamesAMessage' /\ ActiveIsShown'
    BY <1>2 DEF StartsClosing, pageVars, RunningNamesAMessage, ActiveIsShown
  <2> QED BY <2>2, <2>3, <2>4, <2>6
<1>3. CASE SocketCloses(s)
  <2>1. /\ up' \in [SocketIds -> Seq(PageFrames)] /\ down' \in [SocketIds -> Seq(PageFrames)]
        /\ run' \in [SocketIds -> ServedRuns]
        /\ up'[s] = <<>> /\ down'[s] = <<>> /\ run'[s] = NoRun
        /\ \A t \in SocketIds \ {s} : up'[t] = up[t] /\ down'[t] = down[t] /\ run'[t] = run[t]
        /\ ready' = [ready EXCEPT ![s] = "closed"]
    BY <1>3, HangingUpKeeps DEF SocketCloses
  <2>2. /\ messages' \in Seq(PageMessages) /\ activeId' \in 0 .. Len(messages')
        /\ Len(messages') = Len(messages) /\ hidden' = hidden /\ current' \in {current, 0}
        /\ current' = 0 => current = s \/ current = 0
        /\ RunningNamesAMessage' /\ ActiveIsShown'
    <3>1. CASE current # s
      BY <1>3, <3>1 DEF SocketCloses, PageShape, pageVars, RunningNamesAMessage, ActiveIsShown
    <3>2. CASE current = s
      <4>1. StopsStreaming /\ current' = 0
        BY <1>3, <3>2 DEF SocketCloses
      <4>2. ASSUME activeId # 0
            PROVE  /\ activeId \in 1 .. Len(messages) /\ messages[activeId] \in PageMessages
                   /\ [messages[activeId] EXCEPT !.streaming = FALSE] \in PageMessages
        <5>1. activeId \in 1 .. Len(messages) /\ messages[activeId] \in PageMessages
          BY <4>2, LenProperties DEF PageShape
        <5> QED BY <5>1 DEF PageMessages
      <4>3. messages' \in Seq(PageMessages) /\ Len(messages') = Len(messages)
        BY <4>1, <4>2, ExceptSeq DEF StopsStreaming, PageShape
      <4>4. 0 \notin hidden
        BY DEF PageShape, MessageIds
      <4> QED BY <3>2, <4>1, <4>3, <4>4
          DEF StopsStreaming, PageShape, RunningNamesAMessage, ActiveIsShown
    <3> QED BY <3>1, <3>2
  <2>3. PageShape'
    BY <2>1, <2>2, StreamAssumption DEF PageShape, ReadyStates, MessageIds
  <2>4. OneLiveSocket' /\ WiresAreOfOpenSockets'
    BY <2>1, <2>2
    DEF PageShape, OneLiveSocket, Alive, WiresAreOfOpenSockets, NoRun
  <2> QED BY <2>2, <2>3, <2>4
<1> QED BY <1>1, <1>2, <1>3

\* The timer, and the hook's coming and going.
LEMMA HookKeepsBase ==
    ASSUME PageBase, TimerFires \/ Unmounts \/ Mounts PROVE PageBase'
<1> USE DEF PageBase
<1>1. RunningNamesAMessage' /\ ActiveIsShown' /\ UNCHANGED pageVars
  BY DEF TimerFires, Unmounts, Mounts, pageVars, RunningNamesAMessage, ActiveIsShown
<1>2. CASE Connects(ready) /\ UNCHANGED wires
  <2>1. PageShape'
    BY <1>1, <1>2, ConnectingKeeps DEF PageShape, pageVars, wires, MessageIds
  <2>2. OneLiveSocket' /\ WiresAreOfOpenSockets'
    BY <1>2, ConnectingKeeps DEF OneLiveSocket, WiresAreOfOpenSockets, wires
  <2> QED BY <1>1, <2>1, <2>2
<1>3. CASE Unmounts /\ current = 0
  BY <1>1, <1>3 DEF Unmounts, PageShape, OneLiveSocket, Alive, WiresAreOfOpenSockets,
     wires, pageVars, MessageIds
<1>4. CASE Unmounts /\ current # 0
  <2>0. current \in SocketIds /\ HangsUp(current) /\ current' = 0
    BY <1>4 DEF Unmounts, PageShape, SocketIds
  <2>1. /\ up' \in [SocketIds -> Seq(PageFrames)] /\ down' \in [SocketIds -> Seq(PageFrames)]
        /\ run' \in [SocketIds -> ServedRuns]
        /\ up'[current] = <<>> /\ down'[current] = <<>> /\ run'[current] = NoRun
        /\ \A t \in SocketIds \ {current} : up'[t] = up[t] /\ down'[t] = down[t] /\ run'[t] = run[t]
    BY <2>0, HangingUpKeeps
  <2>2. PICK r \in {"retired", "closed"} : ready' = [ready EXCEPT ![current] = r]
    BY <1>4 DEF Unmounts
  <2>3. PageShape'
    BY <1>1, <2>0, <2>1, <2>2, StreamAssumption DEF PageShape, ReadyStates, pageVars, MessageIds
  <2>4. OneLiveSocket' /\ WiresAreOfOpenSockets'
    BY <2>0, <2>1, <2>2
    DEF PageShape, OneLiveSocket, Alive, WiresAreOfOpenSockets, NoRun
  <2> QED BY <1>1, <2>3, <2>4
<1> QED BY <1>2, <1>3, <1>4 DEF TimerFires, Unmounts, Mounts

\* What a frame to the server changes, sent or not.
LEMMA SendingKeeps ==
    ASSUME PageBase, NEW frame \in PageFrames, NEW next \in Seq(PageMessages),
           Len(messages) <= Len(next), SendsFrame(frame, next), UNCHANGED <<down, run>>
    PROVE  /\ ready' \in [SocketIds -> ReadyStates] /\ current' \in 0 .. MaxSockets
           /\ messages' \in Seq(PageMessages) /\ Len(next) <= Len(messages')
           /\ \A i \in 1 .. Len(next) : messages'[i] = next[i]
           /\ \A i \in 1 .. Len(messages') \ 1 .. Len(next) : messages'[i] = Notice
           /\ up' \in [SocketIds -> Seq(PageFrames)]
           /\ OneLiveSocket' /\ WiresAreOfOpenSockets'
           /\ IsOpen => /\ messages' = next /\ ready' = ready /\ current' = current
                        /\ up' = [up EXCEPT ![current] = Append(@, frame)]
           /\ ~IsOpen => \A s \in SocketIds : ready'[s] # "open"
<1> USE DEF PageBase
<1>1. CASE IsOpen
  <2>1. /\ up' = [up EXCEPT ![current] = Append(@, frame)]
        /\ messages' = next /\ ready' = ready /\ current' = current
    BY <1>1 DEF SendsFrame
  <2>2. current \in SocketIds /\ Append(up[current], frame) \in Seq(PageFrames)
    BY <1>1, AppendProperties DEF IsOpen, PageShape, SocketIds
  <2>3. OneLiveSocket' /\ WiresAreOfOpenSockets'
    BY <1>1, <2>1, <2>2
    DEF IsOpen, PageShape, OneLiveSocket, Alive, WiresAreOfOpenSockets
  <2> QED BY <1>1, <2>1, <2>2, <2>3, LenProperties DEF PageShape
<1>2. CASE ~IsOpen
  <2>1. messages' = Append(next, Notice) /\ Connects(ready) /\ up' = up
    BY <1>2 DEF SendsFrame
  <2>2. Notice \in PageMessages
    BY DEF Notice, Blank, PageMessages
  <2>3. OneLiveSocket' /\ WiresAreOfOpenSockets'
    BY <2>1, ConnectingKeeps DEF OneLiveSocket, WiresAreOfOpenSockets
  <2>4. \A s \in SocketIds : ready'[s] # "open"
    BY <1>2, <2>1, ConnectingKeeps, StreamAssumption
    DEF OneLiveSocket, Alive, IsOpen, PageShape, SocketIds
  <2>5. /\ messages' \in Seq(PageMessages) /\ Len(messages') = Len(next) + 1
        /\ \A i \in 1 .. Len(next) : messages'[i] = next[i]
        /\ messages'[Len(next) + 1] = Notice
    BY <2>1, <2>2, AppendProperties
  <2>6. Len(next) \in Nat
    BY LenProperties
  <2> QED BY <1>2, <2>1, <2>3, <2>4, <2>5, <2>6, ConnectingKeeps DEF PageShape
<1> QED BY <1>1, <1>2

\* One field of a message.
LEMMA MessageBecomes ==
    ASSUME NEW m \in PageMessages
    PROVE  /\ \A h \in SUBSET Nat, b \in BOOLEAN, a \in {"none", "gate", "question"} :
                [m EXCEPT !.heard = h, !.streaming = b, !.approval = a] \in PageMessages
           /\ [m EXCEPT !.streaming = FALSE] \in PageMessages
           /\ [m EXCEPT !.approval = "none"] \in PageMessages
           /\ m.heard \in SUBSET Nat /\ m.streaming \in BOOLEAN
           /\ m.approval \in {"none", "gate", "question"}
BY DEF PageMessages

LEMMA MessagesAreMessages ==
    ASSUME PageShape
    PROVE  /\ Len(messages) \in Nat /\ Blank \in PageMessages /\ Notice \in PageMessages
           /\ \A m \in 1 .. Len(messages) :
                /\ messages[m] \in PageMessages
                /\ WithoutApproval(m) \in Seq(PageMessages)
                /\ Len(WithoutApproval(m)) = Len(messages)
                /\ \A i \in 1 .. Len(messages) :
                     WithoutApproval(m)[i] = IF i = m THEN [messages[m] EXCEPT !.approval = "none"]
                                                      ELSE messages[i]
<1>1. Len(messages) \in Nat /\ \A m \in 1 .. Len(messages) : messages[m] \in PageMessages
  BY LenProperties DEF PageShape
<1>2. Blank \in PageMessages /\ Notice \in PageMessages
  BY DEF Blank, Notice, PageMessages
<1>3. ASSUME NEW m \in 1 .. Len(messages)
      PROVE  /\ WithoutApproval(m) \in Seq(PageMessages)
             /\ Len(WithoutApproval(m)) = Len(messages)
             /\ \A i \in 1 .. Len(messages) :
                  WithoutApproval(m)[i] = IF i = m THEN [messages[m] EXCEPT !.approval = "none"]
                                                   ELSE messages[i]
  <2> DEFINE e == [messages[m] EXCEPT !.approval = "none"]
  <2>1. e \in PageMessages /\ WithoutApproval(m) = [messages EXCEPT ![m] = e]
    BY <1>1, MessageBecomes DEF WithoutApproval
  <2>2. messages \in Seq(PageMessages)
    BY DEF PageShape
  <2> QED BY <2>1, <2>2, ExceptSeq
<1> QED BY <1>1, <1>2, <1>3

\* What the user does, one action at a time.
LEMMA SendingAMessage ==
    ASSUME PageBase, NEW old \in Seq(PageMessages), Len(old) = Len(messages),
           SendsFrame([kind |-> "message", of |-> Len(messages) + 1], Append(old, Blank)),
           UNCHANGED <<down, run, hidden>>,
           activeId' \in {0, Len(messages) + 1}, isRunning' <=> activeId' # 0
    PROVE  PageBase'
<1> USE DEF PageBase
<1> DEFINE n == Len(messages) + 1
<1> DEFINE next == Append(old, Blank)
<1>1. Len(messages) \in Nat /\ Blank \in PageMessages
  BY MessagesAreMessages
<1>2. [kind |-> "message", of |-> n] \in PageFrames
  BY <1>1 DEF PageFrames, UpKinds
<1>3. next \in Seq(PageMessages) /\ Len(next) = n /\ Len(messages) <= n
  BY <1>1, AppendProperties
<1>4. /\ ready' \in [SocketIds -> ReadyStates] /\ current' \in 0 .. MaxSockets
      /\ messages' \in Seq(PageMessages) /\ n <= Len(messages')
      /\ up' \in [SocketIds -> Seq(PageFrames)]
      /\ OneLiveSocket' /\ WiresAreOfOpenSockets'
  <2> HIDE DEF next
  <2> QED BY <1>2, <1>3, SendingKeeps DEF next
<1>5. Len(messages') \in Nat
  BY <1>4, LenProperties
<1>6. PageShape'
  BY <1>1, <1>4, <1>5 DEF PageShape, MessageIds
<1>7. RunningNamesAMessage' /\ ActiveIsShown'
  BY <1>1 DEF RunningNamesAMessage, ActiveIsShown, PageShape, MessageIds
<1> QED BY <1>4, <1>6, <1>7

LEMMA SendingInTurn ==
    ASSUME PageBase, NEW frame \in PageFrames,
           NEW next \in Seq(PageMessages), Len(next) = Len(messages),
           SendsFrame(frame, next), UNCHANGED <<down, run, hidden>>,
           \/ UNCHANGED <<activeId, isRunning>>
           \/ activeId' = 0 /\ isRunning' = FALSE
    PROVE  PageBase'
<1> USE DEF PageBase
<1>1. Len(messages) \in Nat
  BY MessagesAreMessages
<1>2. /\ ready' \in [SocketIds -> ReadyStates] /\ current' \in 0 .. MaxSockets
      /\ messages' \in Seq(PageMessages) /\ Len(messages) <= Len(messages')
      /\ up' \in [SocketIds -> Seq(PageFrames)]
      /\ OneLiveSocket' /\ WiresAreOfOpenSockets'
  BY <1>1, SendingKeeps
<1>3. Len(messages') \in Nat
  BY <1>2, LenProperties
<1>4. PageShape'
  BY <1>1, <1>2, <1>3 DEF PageShape, MessageIds
<1>5. RunningNamesAMessage' /\ ActiveIsShown'
  BY DEF RunningNamesAMessage, ActiveIsShown, PageShape, MessageIds
<1> QED BY <1>2, <1>4, <1>5

LEMMA UserKeepsBase ==
    ASSUME PageBase,
           \/ SendsMessage \/ CancelsRun \/ Clears
           \/ \E m \in MessageIds : AnswersQuestion(m) \/ RejectsPlan(m) \/ ApprovesPlan(m)
    PROVE  PageBase'
<1>0. PageShape
  BY DEF PageBase
<1>1. CASE SendsMessage
  BY <1>0, <1>1, SendingAMessage DEF SendsMessage, PageShape
<1>2. CASE CancelsRun
  <2> DEFINE next == IF activeId = 0 THEN messages ELSE [messages EXCEPT ![activeId].streaming = FALSE]
  <2>1. [kind |-> "cancel", of |-> activeId] \in PageFrames
    BY <1>0, MessagesAreMessages DEF PageFrames, UpKinds, PageShape
  <2>2. next \in Seq(PageMessages) /\ Len(next) = Len(messages)
    <3>1. CASE activeId = 0
      BY <1>0, <3>1 DEF PageShape
    <3>2. CASE activeId # 0
      <4>1. activeId \in 1 .. Len(messages) /\ messages \in Seq(PageMessages)
        BY <1>0, <3>2, MessagesAreMessages DEF PageShape
      <4>2. /\ [messages[activeId] EXCEPT !.streaming = FALSE] \in PageMessages
            /\ next = [messages EXCEPT ![activeId] = [messages[activeId] EXCEPT !.streaming = FALSE]]
        BY <1>0, <3>2, <4>1, MessagesAreMessages, MessageBecomes
      <4> QED BY <4>1, <4>2, ExceptSeq
    <3> QED BY <3>1, <3>2
  <2> QED BY <1>2, <2>1, <2>2, SendingInTurn DEF CancelsRun
<1>3. CASE Clears
  BY <1>3 DEF Clears, PageBase, PageShape, OneLiveSocket, Alive, WiresAreOfOpenSockets,
     RunningNamesAMessage, ActiveIsShown, MessageIds, link, wires
<1>4. ASSUME NEW m \in MessageIds, AnswersQuestion(m) PROVE PageBase'
  <2>1. [kind |-> "answer", of |-> m] \in PageFrames
    BY <1>0 DEF PageFrames, UpKinds, MessageIds
  <2>2. WithoutApproval(m) \in Seq(PageMessages) /\ Len(WithoutApproval(m)) = Len(messages)
    BY <1>0, MessagesAreMessages DEF MessageIds
  <2> QED BY <1>4, <2>1, <2>2, SendingInTurn DEF AnswersQuestion
<1>5. ASSUME NEW m \in MessageIds, RejectsPlan(m) PROVE PageBase'
  <2>1. messages' \in Seq(PageMessages) /\ Len(messages') = Len(messages)
    BY <1>0, <1>5, MessagesAreMessages DEF MessageIds, RejectsPlan
  <2> QED BY <1>5, <2>1
      DEF RejectsPlan, PageBase, PageShape, OneLiveSocket, Alive, WiresAreOfOpenSockets,
          RunningNamesAMessage, ActiveIsShown, MessageIds, link, wires
<1>6. ASSUME NEW m \in MessageIds, ApprovesPlan(m) PROVE PageBase'
  <2>1. WithoutApproval(m) \in Seq(PageMessages) /\ Len(WithoutApproval(m)) = Len(messages)
    BY <1>0, MessagesAreMessages DEF MessageIds
  <2> QED BY <1>0, <1>6, <2>1, MessagesAreMessages, SendingAMessage DEF ApprovesPlan
<1> QED BY <1>1, <1>2, <1>3, <1>4, <1>5, <1>6

-----------------------------------------------------------------------------
\* What changes the wire of an open socket, and nothing of the page.
LEMMA WireKeepsBase ==
    ASSUME PageBase, NEW s \in SocketIds, ready[s] = "open",
           NEW u \in Seq(PageFrames), NEW d \in Seq(PageFrames), NEW r \in ServedRuns,
           up' = [up EXCEPT ![s] = u], down' = [down EXCEPT ![s] = d],
           run' = [run EXCEPT ![s] = r],
           IsQuiet(r) => r.asks = "no",
           UNCHANGED link
    PROVE  /\ OneLiveSocket' /\ WiresAreOfOpenSockets'
           /\ UNCHANGED pageVars => PageBase'
<1> USE DEF PageBase
<1>1. OneLiveSocket' /\ WiresAreOfOpenSockets'
  BY DEF PageShape, WiresAreOfOpenSockets, OneLiveSocket, Alive, link
<1>2. ASSUME UNCHANGED pageVars PROVE PageShape' /\ RunningNamesAMessage' /\ ActiveIsShown'
  BY <1>2 DEF PageShape, MessageIds, link, pageVars, RunningNamesAMessage, ActiveIsShown
<1> QED BY <1>1, <1>2

\* The server's end takes a frame, goes on, asks, and answers.
LEMMA ServerKeepsBase ==
    ASSUME PageBase, NEW s \in SocketIds,
           \/ ServesFrame(s) \/ QuestionExpires(s) \/ RunEnds(s)
           \/ \E kind \in {"delta", "branch"} \cup LastFrames : Emits(s, kind)
           \/ \E kind \in QuestionFrames : TurnAsks(s, kind)
    PROVE  PageBase'
<1> USE DEF PageBase
<1>1. /\ up \in [SocketIds -> Seq(PageFrames)] /\ down \in [SocketIds -> Seq(PageFrames)]
      /\ run \in [SocketIds -> ServedRuns]
      /\ up[s] \in Seq(PageFrames) /\ down[s] \in Seq(PageFrames) /\ run[s] \in ServedRuns
      /\ run[s].of \in Nat /\ run[s].cancelled \in BOOLEAN /\ run[s].asks \in {"no"} \cup QuestionFrames
      /\ run[s].asked \in BOOLEAN /\ run[s].said \in BOOLEAN
      /\ IsQuiet(run[s]) => run[s].asks = "no"
      /\ ready[s] # "open" => run[s] = NoRun
  BY DEF PageShape, ServedRuns, WiresAreOfOpenSockets
<1>2. ASSUME NEW kind \in DownKinds, NEW m \in Nat
      PROVE  Append(down[s], [kind |-> kind, of |-> m]) \in Seq(PageFrames)
  BY <1>1, <1>2, AppendProperties DEF PageFrames
<1>3. CASE ServesFrame(s)
  <2> DEFINE frame == Head(up[s])
  <2>1. /\ ready[s] = "open" /\ Tail(up[s]) \in Seq(PageFrames) /\ frame \in PageFrames
        /\ up' = [up EXCEPT ![s] = Tail(up[s])] /\ UNCHANGED <<link, pageVars>>
    BY <1>1, <1>3, HeadTailProperties DEF ServesFrame, HasRoom
  <2>2. frame.of \in Nat
    BY <2>1 DEF PageFrames
  <2>3. CASE frame.kind = "cancel"
    <3> DEFINE r == [run[s] EXCEPT !.cancelled = (run[s].of # 0), !.asks = "no"]
    <3>1. r \in ServedRuns /\ (IsQuiet(r) => r.asks = "no")
      BY <1>1 DEF IsQuiet, ServedRuns, NoRun
    <3>2. run' = [run EXCEPT ![s] = r] /\ Replies(s, "status", frame.of)
      BY <1>1, <1>3, <2>3 DEF ServesFrame
    <3> QED BY <1>1, <1>2, <2>1, <2>2, <3>1, <3>2, WireKeepsBase DEF Replies, DownKinds
  <2>4. CASE frame.kind = "answer"
    <3> DEFINE r == [run[s] EXCEPT !.asks = IF frame.of = run[s].of /\ @ = "question" THEN "no" ELSE @]
    <3>1. r \in ServedRuns /\ (IsQuiet(r) => r.asks = "no")
      BY <1>1 DEF IsQuiet, ServedRuns, NoRun
    <3>2. run' = [run EXCEPT ![s] = r] /\ down' = [down EXCEPT ![s] = down[s]]
      BY <1>1, <1>3, <2>4 DEF ServesFrame
    <3> QED BY <1>1, <2>1, <3>1, <3>2, WireKeepsBase
  <2>5. CASE frame.kind = "message" /\ run[s].of # 0
    <3>1. run' = [run EXCEPT ![s] = run[s]] /\ Replies(s, "error", frame.of)
      BY <1>1, <1>3, <2>5 DEF ServesFrame
    <3> QED BY <1>1, <1>2, <2>1, <2>2, <3>1, WireKeepsBase DEF Replies, DownKinds, LastFrames
  <2>6. CASE frame.kind = "message" /\ run[s].of = 0
    <3> DEFINE r == [NoRun EXCEPT !.of = frame.of]
    <3>1. r \in ServedRuns /\ (IsQuiet(r) => r.asks = "no")
      BY <2>2 DEF IsQuiet, ServedRuns, NoRun
    <3>2. run' = [run EXCEPT ![s] = r] /\ down' = [down EXCEPT ![s] = down[s]]
      BY <1>1, <1>3, <2>6 DEF ServesFrame
    <3> QED BY <1>1, <2>1, <3>1, <3>2, WireKeepsBase
  <2> QED BY <1>3, <2>3, <2>4, <2>5, <2>6 DEF ServesFrame
<1>4. CASE QuestionExpires(s)
  <2> DEFINE r == [run[s] EXCEPT !.asks = "no"]
  <2>1. r \in ServedRuns /\ (IsQuiet(r) => r.asks = "no")
    BY <1>1 DEF IsQuiet, ServedRuns, NoRun
  <2>2. /\ run' = [run EXCEPT ![s] = r] /\ up' = [up EXCEPT ![s] = up[s]]
        /\ down' = [down EXCEPT ![s] = down[s]] /\ ready[s] = "open" /\ UNCHANGED <<link, pageVars>>
    BY <1>1, <1>4 DEF QuestionExpires, NoRun
  <2> QED BY <1>1, <2>1, <2>2, WireKeepsBase
<1>5. CASE RunEnds(s)
  <2>1. /\ run' = [run EXCEPT ![s] = NoRun] /\ up' = [up EXCEPT ![s] = up[s]]
        /\ ready[s] = "open" /\ UNCHANGED <<link, pageVars>>
        /\ NoRun \in ServedRuns /\ NoRun.asks = "no"
    BY <1>1, <1>5 DEF RunEnds, HasRoom, NoRun, ServedRuns
  <2>2. \E d \in Seq(PageFrames) : down' = [down EXCEPT ![s] = d]
    BY <1>1, <1>2, <1>5 DEF RunEnds, Replies, DownKinds
  <2> QED BY <1>1, <2>1, <2>2, WireKeepsBase
<1>6. ASSUME NEW kind \in {"delta", "branch"} \cup LastFrames, Emits(s, kind) PROVE PageBase'
  <2>0. PICK b \in BOOLEAN : b = (kind \in LastFrames)
    <3>1. (kind \in LastFrames) \in BOOLEAN
      OBVIOUS
    <3> QED BY <3>1, Zenon
  <2> DEFINE r == [run[s] EXCEPT !.said = b]
  <2>1. r \in ServedRuns /\ (IsQuiet(r) => r.asks = "no")
    <3>1. run[s].of # 0 /\ (b => run[s].asks = "no")
      BY <1>6, <2>0 DEF Emits, RunGoes, LastFrames
    <3> QED BY <1>1, <3>1 DEF IsQuiet, ServedRuns
  <2>2. /\ run' = [run EXCEPT ![s] = r] /\ up' = [up EXCEPT ![s] = up[s]]
        /\ Replies(s, kind, run[s].of) /\ ready[s] = "open" /\ UNCHANGED <<link, pageVars>>
    BY <1>1, <1>6, <2>0 DEF Emits, RunGoes, HasRoom
  <2> QED BY <1>1, <1>2, <2>1, <2>2, WireKeepsBase DEF Replies, DownKinds
<1>7. ASSUME NEW kind \in QuestionFrames, TurnAsks(s, kind) PROVE PageBase'
  <2> DEFINE r == [run[s] EXCEPT !.asks = kind, !.asked = TRUE]
  <2>1. r \in ServedRuns /\ (IsQuiet(r) => r.asks = "no")
    BY <1>1, <1>7 DEF IsQuiet, ServedRuns, TurnAsks, RunGoes
  <2>2. /\ run' = [run EXCEPT ![s] = r] /\ up' = [up EXCEPT ![s] = up[s]]
        /\ Replies(s, kind, run[s].of) /\ ready[s] = "open" /\ UNCHANGED <<link, pageVars>>
    BY <1>1, <1>7 DEF TurnAsks, RunGoes, HasRoom
  <2> QED BY <1>1, <1>2, <2>1, <2>2, WireKeepsBase DEF Replies, DownKinds
<1> QED BY <1>3, <1>4, <1>5, <1>6, <1>7

\* What a frame does to the message that is active.
LEMMA PatchedIs ==
    ASSUME PageShape, NEW frame \in PageFrames, NEW streaming \in BOOLEAN,
           NEW approval \in {"none", "gate", "question"}
    PROVE  /\ Patched(frame, streaming, approval) \in Seq(PageMessages)
           /\ Len(Patched(frame, streaming, approval)) = Len(messages)
           /\ \A i \in 1 .. Len(messages) :
                /\ i # activeId => Patched(frame, streaming, approval)[i] = messages[i]
                /\ i = activeId =>
                     /\ Patched(frame, streaming, approval)[i].heard = messages[i].heard \cup {frame.of}
                     /\ Patched(frame, streaming, approval)[i].approval =
                          IF approval = "none" THEN messages[i].approval ELSE approval
<1> DEFINE patched == Patched(frame, streaming, approval)
<1>1. messages \in Seq(PageMessages) /\ Len(messages) \in Nat /\ frame.of \in Nat
  BY MessagesAreMessages DEF PageShape, PageFrames
<1>2. CASE activeId = 0
  BY <1>1, <1>2 DEF Patched
<1>3. CASE activeId # 0
  <2> DEFINE m == messages[activeId]
  <2>1. activeId \in 1 .. Len(messages) /\ m \in PageMessages
    BY <1>1, <1>3, MessagesAreMessages DEF PageShape
  <2>2. m.streaming \in BOOLEAN
    BY <2>1, MessageBecomes
  <2>3. PICK b \in BOOLEAN : b = (m.streaming /\ streaming)
    <3>1. (m.streaming /\ streaming) \in BOOLEAN
      BY <2>2, Zenon
    <3> QED BY <3>1, Zenon
  <2> DEFINE h == m.heard \cup {frame.of}
             a == IF approval = "none" THEN m.approval ELSE approval
             e == [m EXCEPT !.heard = h, !.streaming = b, !.approval = a]
  <2>4. e \in PageMessages /\ e.heard = h /\ e.approval = a
    <3>1. h \in SUBSET Nat /\ a \in {"none", "gate", "question"}
      BY <1>1, <2>1, MessageBecomes
    <3> HIDE DEF h, a, m
    <3>2. e \in PageMessages
      BY <2>1, <3>1, MessageBecomes
    <3> QED BY <2>1, <3>1, <3>2 DEF PageMessages
  <2>5. patched = [messages EXCEPT ![activeId] = e]
    BY <1>1, <1>3, <2>1, <2>3 DEF Patched, PageMessages
  <2> HIDE DEF e
  <2>6. /\ patched \in Seq(PageMessages) /\ Len(patched) = Len(messages)
        /\ \A i \in 1 .. Len(messages) : patched[i] = IF i = activeId THEN e ELSE messages[i]
    BY <1>1, <2>1, <2>4, <2>5, ExceptSeq
  <2> QED BY <2>4, <2>6
<1> QED BY <1>2, <1>3

\* A frame comes in: what is left of the page and of its wire.
LEMMA HearingKeepsBase ==
    ASSUME PageBase, NEW s \in SocketIds,
           \/ HearsBranch(s) \/ HearsStatus(s) \/ HearsPart(s) \/ HearsApproval(s)
           \/ HearsError(s) \/ HearsFinal(s)
    PROVE  PageBase'
<1> USE DEF PageBase
<1> DEFINE frame == Head(down[s])
<1>1. PICK kinds : Receives(s, kinds)
  BY DEF HearsBranch, HearsStatus, HearsPart, HearsApproval, HearsError, HearsFinal
<1>2. /\ up[s] \in Seq(PageFrames) /\ down[s] \in Seq(PageFrames) /\ run[s] \in ServedRuns
      /\ IsQuiet(run[s]) => run[s].asks = "no"
      /\ up' = [up EXCEPT ![s] = up[s]] /\ run' = [run EXCEPT ![s] = run[s]]
      /\ UNCHANGED <<link, hidden>> /\ ready[s] = "open" /\ down[s] # <<>>
  BY <1>1 DEF PageShape, WiresAreOfOpenSockets, Receives
<1>3. frame \in PageFrames /\ Tail(down[s]) \in Seq(PageFrames)
  BY <1>2, HeadTailProperties
<1>4. OneLiveSocket' /\ WiresAreOfOpenSockets'
  <2>1. down' = [down EXCEPT ![s] = Tail(down[s])]
    BY <1>1 DEF Receives
  <2> QED BY <1>2, <1>3, <2>1, WireKeepsBase
<1>5. UNCHANGED <<activeId, isRunning>> \/ (activeId' = 0 /\ isRunning' = FALSE)
  BY DEF HearsBranch, HearsStatus, HearsPart, HearsApproval, HearsError, HearsFinal
<1>6. /\ messages \in Seq(PageMessages) /\ Len(messages) \in Nat /\ PageShape
      /\ Notice \in PageMessages
  BY MessagesAreMessages DEF PageShape
<1>7. /\ messages' \in Seq(PageMessages)
      /\ Len(messages') \in {Len(messages), Len(messages) + 1}
  <2>1. ASSUME messages' = Append(messages, Notice)
        PROVE  messages' \in Seq(PageMessages) /\ Len(messages') = Len(messages) + 1
    BY <1>6, <2>1, AppendProperties
  <2>2. ASSUME NEW b \in BOOLEAN, NEW a \in {"none", "gate", "question"},
               messages' = Patched(frame, b, a)
        PROVE  messages' \in Seq(PageMessages) /\ Len(messages') = Len(messages)
    <3> HIDE DEF frame
    <3> QED BY <1>3, <1>6, <2>2, PatchedIs
  <2>3. \/ messages' = Append(messages, Notice)
        \/ messages' = Patched(frame, TRUE, "none")
        \/ messages' = Patched(frame, FALSE, "none")
        \/ frame.kind \in {"gate", "question"} /\ messages' = Patched(frame, FALSE, frame.kind)
    BY DEF HearsBranch, HearsStatus, HearsPart, HearsApproval, HearsError, HearsFinal, Receives
  <2> HIDE DEF frame
  <2> QED BY <2>1, <2>2, <2>3
<1>8. PageShape'
  <2>1. down' \in [SocketIds -> Seq(PageFrames)] /\ UNCHANGED <<up, run, ready, current>>
    BY <1>1, <1>3 DEF Receives, PageShape, link
  <2>2. activeId' \in 0 .. Len(messages') /\ hidden' \subseteq 1 .. Len(messages')
    BY <1>2, <1>5, <1>6, <1>7 DEF PageShape, MessageIds
  <2> QED BY <1>7, <2>1, <2>2 DEF PageShape, MessageIds
<1>9. RunningNamesAMessage' /\ ActiveIsShown'
  BY <1>2, <1>5 DEF RunningNamesAMessage, ActiveIsShown, PageShape, MessageIds
<1> QED BY <1>4, <1>8, <1>9

LEMMA PageStepsKeepBase == ASSUME PageBase, [StreamNext]_streamVars PROVE PageBase'
<1>1. CASE UNCHANGED streamVars
  BY <1>1 DEF streamVars, PageBase, PageShape, OneLiveSocket, Alive, WiresAreOfOpenSockets,
     RunningNamesAMessage, ActiveIsShown, MessageIds
<1> QED BY <1>1, SocketsKeepBase, HookKeepsBase, UserKeepsBase, ServerKeepsBase, HearingKeepsBase
    DEF StreamNext

-----------------------------------------------------------------------------
\* Where the turn of the active message is, by what is on a socket's wire.
HoldsNoMessage(u) == \A i \in 1 .. Len(u) : u[i].kind # "message"
MessageFrame(m) == [kind |-> "message", of |-> m]
AnswerFrame(m) == [kind |-> "answer", of |-> m]

IsSent(s) ==
    /\ activeId # 0 /\ IsQuiet(run[s]) /\ down[s] = <<>>
    /\ \E i \in 1 .. Len(up[s]) :
         /\ up[s][i] = MessageFrame(activeId)
         /\ \A j \in 1 .. Len(up[s]) : up[s][j].kind = "message" => j = i

IsServed(s) ==
    /\ activeId # 0 /\ HoldsNoMessage(up[s]) /\ run[s].of = activeId /\ ~run[s].said
    /\ \A i \in 1 .. Len(down[s]) :
         down[s][i].of = activeId /\ down[s][i].kind \notin LastFrames

IsEnding(s) ==
    /\ activeId # 0 /\ HoldsNoMessage(up[s]) /\ IsQuiet(run[s]) /\ down[s] # <<>>
    /\ \A i \in 1 .. Len(down[s]) :
         /\ down[s][i].of = activeId
         /\ down[s][i].kind \in LastFrames <=> i = Len(down[s])

IsIdle(s) == HoldsNoMessage(up[s]) /\ IsQuiet(run[s]) /\ down[s] = <<>>

NoneIsCancelled(s) ==
    /\ ~run[s].cancelled
    /\ \A i \in 1 .. Len(up[s]) : up[s][i].kind # "cancel"
    /\ \A i \in 1 .. Len(down[s]) : down[s][i].kind # "status"

\* The turn's own question is on its way, on the page or answered.
QuestionIsPut(s) ==
    run[s].asks = "question" =>
        \/ \E i \in 1 .. Len(down[s]) : down[s][i].kind = "question"
        \/ messages[activeId].approval = "question"
        \/ \E i \in 1 .. Len(up[s]) : up[s][i] = AnswerFrame(activeId)

Agrees(s) ==
    /\ NoneIsCancelled(s) /\ QuestionIsPut(s)
    /\ IsSent(s) \/ IsServed(s) \/ IsEnding(s) \/ IsIdle(s)

EndsAgree == givenUp = {} => \A s \in SocketIds : ready[s] = "open" => Agrees(s)

PageInv == PageBase /\ FramesReachTheirOwn /\ EndsAgree

\* A run that asks is neither quiet nor anybody's but the active message's.
LEMMA AskingIsServed ==
    ASSUME PageBase, NEW s \in SocketIds, Agrees(s), ~IsQuiet(run[s])
    PROVE  IsServed(s) /\ activeId \in MessageIds /\ activeId # 0
BY MessagesAreMessages DEF Agrees, IsSent, IsEnding, IsIdle, IsServed, PageBase, PageShape, MessageIds

\* The wire does not change, nor what matters of the page.
LEMMA AgreeingStays ==
    ASSUME PageBase, NEW s \in SocketIds, Agrees(s), UNCHANGED activeId,
           up'[s] = up[s], down'[s] = down[s], run'[s] = run[s],
           activeId # 0 /\ messages[activeId].approval = "question"
               => messages'[activeId].approval = "question"
    PROVE  Agrees(s)'
<1>1. run[s].asks = "question" => activeId # 0
  BY AskingIsServed DEF PageBase, WiresAreOfOpenSockets
<1>2. QuestionIsPut(s)'
  BY <1>1 DEF QuestionIsPut, Agrees, AnswerFrame
<1>3. NoneIsCancelled(s)'
  BY DEF NoneIsCancelled, Agrees
<1>4. IsSent(s)' \/ IsServed(s)' \/ IsEnding(s)' \/ IsIdle(s)'
  BY DEF Agrees, IsSent, IsServed, IsEnding, IsIdle, IsQuiet, HoldsNoMessage, MessageFrame
<1> QED BY <1>2, <1>3, <1>4 DEF Agrees

\* A socket that has only just opened is idle.
LEMMA EmptyWireAgrees ==
    ASSUME NEW s \in SocketIds, up'[s] = <<>>, down'[s] = <<>>, run'[s] = NoRun
    PROVE  Agrees(s)'
<1>1. Len(<<>>) = 0 /\ 1 .. 0 = {}
  BY EmptySeq
<1> QED BY <1>1 DEF Agrees, NoneIsCancelled, QuestionIsPut, IsIdle, HoldsNoMessage, IsQuiet, NoRun

LEMMA PageInitInv == StreamInit => PageInv
<1> SUFFICES ASSUME StreamInit PROVE PageInv
  OBVIOUS
<1>1. PageBase
  BY PageInitShape DEF StreamInit, PageBase, RunningNamesAMessage, ActiveIsShown
<1>2. MessageIds = {}
  BY DEF StreamInit, MessageIds
<1>3. \A s \in SocketIds : ready[s] # "open"
  BY DEF StreamInit
<1> QED BY <1>1, <1>2, <1>3 DEF PageInv, FramesReachTheirOwn, EndsAgree

\* The sockets, the timer and the hook: a wire stays or is empty.
LEMMA LinkKeepsAgreeing ==
    ASSUME PageInv, PageBase',
           \/ \E s \in SocketIds : Opens(s) \/ StartsClosing(s) \/ SocketCloses(s)
           \/ TimerFires \/ Unmounts \/ Mounts
    PROVE  FramesReachTheirOwn' /\ EndsAgree'
<1>0. PageBase /\ PageShape /\ OneLiveSocket /\ UNCHANGED givenUp /\ FramesReachTheirOwn
  BY DEF PageInv, PageBase, Opens, StartsClosing, SocketCloses, StopsStreaming, TimerFires, Unmounts,
         Mounts, pageVars
<1>1. /\ Len(messages') = Len(messages)
      /\ \A m \in 1 .. Len(messages) : /\ messages'[m].heard = messages[m].heard
                                       /\ messages'[m].approval = messages[m].approval
  <2>1. CASE UNCHANGED messages
    BY <2>1
  <2>2. CASE StopsStreaming /\ ~UNCHANGED messages
    <3>1. /\ messages \in Seq(PageMessages) /\ activeId \in 1 .. Len(messages)
          /\ messages[activeId] \in PageMessages
      BY <1>0, <2>2, MessagesAreMessages DEF StopsStreaming, PageShape
    <3> DEFINE e == [messages[activeId] EXCEPT !.streaming = FALSE]
    <3>2. e \in PageMessages /\ messages' = [messages EXCEPT ![activeId] = e]
      BY <2>2, <3>1, MessageBecomes DEF StopsStreaming
    <3>3. e.heard = messages[activeId].heard /\ e.approval = messages[activeId].approval
      BY <3>1 DEF PageMessages
    <3> HIDE DEF e
    <3> QED BY <3>1, <3>2, <3>3, ExceptSeq
  <2> QED BY <2>1, <2>2 DEF Opens, StartsClosing, SocketCloses, TimerFires, Unmounts, Mounts, pageVars
<1>2. FramesReachTheirOwn'
  BY <1>0, <1>1 DEF FramesReachTheirOwn, MessageIds
<1>3. ASSUME givenUp = {}, NEW s \in SocketIds, ready'[s] = "open"
      PROVE  Agrees(s)'
  <2>1. CASE ready[s] = "open"
    <3>1. Agrees(s) /\ s = current /\ s # 0
      BY <1>0, <1>3, <2>1, StreamAssumption
      DEF PageInv, EndsAgree, OneLiveSocket, Alive, SocketIds
    <3>2. /\ UNCHANGED activeId
          /\ up'[s] = up[s] /\ down'[s] = down[s] /\ run'[s] = run[s]
      BY <1>0, <1>3, <2>1, <3>1
      DEF Opens, StartsClosing, SocketCloses, TimerFires, Unmounts, Mounts, pageVars, wires, HangsUp,
          PageShape
    <3>3. activeId # 0 => activeId \in 1 .. Len(messages)
      BY <1>0, MessagesAreMessages DEF PageShape
    <3> QED BY <1>0, <1>1, <3>1, <3>2, <3>3, AgreeingStays
  <2>2. CASE ready[s] # "open"
    <3>1. PICK t \in SocketIds : Opens(t) /\ t = s
      <4>1. CASE Connects(ready)
        BY <1>0, <1>3, <2>2, <4>1, ConnectingKeeps
      <4> QED BY <1>0, <1>3, <2>2, <4>1 DEF Opens, StartsClosing, SocketCloses, TimerFires, Unmounts,
                                            Mounts, PageShape
    <3>2. up'[s] = <<>> /\ down'[s] = <<>> /\ run'[s] = NoRun
      BY <1>0, <2>2, <3>1 DEF Opens, wires, PageBase, WiresAreOfOpenSockets
    <3> QED BY <3>2, EmptyWireAgrees
  <2> QED BY <2>1, <2>2
<1> QED BY <1>0, <1>2, <1>3 DEF EndsAgree

\* A message is sent while none is active: it is all there is on the wire.
LEMMA SendingAgrees ==
    ASSUME PageInv, PageBase', NEW old \in Seq(PageMessages), Len(old) = Len(messages),
           \A m \in 1 .. Len(messages) : old[m].heard = messages[m].heard,
           SendsFrame(MessageFrame(Len(messages) + 1), Append(old, Blank)),
           UNCHANGED <<down, run>>,
           givenUp' = {} => /\ givenUp = {} /\ activeId = 0
                            /\ IsOpen => activeId' = Len(messages) + 1
    PROVE  FramesReachTheirOwn' /\ EndsAgree'
<1> DEFINE n == Len(messages) + 1
           next == Append(old, Blank)
<1>0. PageBase /\ PageShape /\ OneLiveSocket /\ FramesReachTheirOwn
  BY DEF PageInv, PageBase
<1>1. Len(messages) \in Nat /\ Blank \in PageMessages /\ Blank.heard = {} /\ Notice.heard = {}
  BY <1>0, MessagesAreMessages DEF Notice, Blank
<1>2. MessageFrame(n) \in PageFrames
  BY <1>1 DEF PageFrames, UpKinds, MessageFrame
<1>3. /\ next \in Seq(PageMessages) /\ Len(next) = n /\ Len(messages) <= n
      /\ \A m \in 1 .. Len(messages) : next[m] = old[m]
      /\ next[n] = Blank
  BY <1>1, AppendProperties
<1>4. /\ Len(next) <= Len(messages') /\ messages' \in Seq(PageMessages)
      /\ \A i \in 1 .. Len(next) : messages'[i] = next[i]
      /\ \A i \in 1 .. Len(messages') \ 1 .. Len(next) : messages'[i] = Notice
      /\ IsOpen => /\ ready' = ready /\ current' = current
                   /\ up' = [up EXCEPT ![current] = Append(@, MessageFrame(n))]
      /\ ~IsOpen => \A s \in SocketIds : ready'[s] # "open"
  <2> HIDE DEF next
  <2> QED BY <1>0, <1>2, <1>3, SendingKeeps DEF next
<1>5. FramesReachTheirOwn'
  <2> SUFFICES ASSUME givenUp' = {}, NEW m \in 1 .. Len(messages')
               PROVE  messages'[m].heard \subseteq {m}
    BY DEF FramesReachTheirOwn, MessageIds
  <2>0. Len(messages') \in Nat
    BY <1>4, LenProperties
  <2> HIDE DEF next
  <2>1. CASE m \in 1 .. Len(messages)
    <3>1. messages'[m] = old[m] /\ old[m].heard = messages[m].heard
      BY <1>1, <1>3, <1>4, <2>1
    <3> QED BY <1>0, <2>1, <3>1 DEF FramesReachTheirOwn, MessageIds
  <2>2. CASE m = n
    BY <1>1, <1>3, <1>4, <2>2
  <2>3. CASE m \notin 1 .. n
    BY <1>1, <1>3, <1>4, <2>3
  <2> QED BY <1>1, <2>0, <2>1, <2>2, <2>3
<1>6. ASSUME givenUp' = {}, NEW s \in SocketIds, ready'[s] = "open"
      PROVE  Agrees(s)'
  <2>1. IsOpen /\ ready[s] = "open" /\ s = current /\ s # 0 /\ givenUp = {}
    BY <1>0, <1>4, <1>6, StreamAssumption DEF OneLiveSocket, Alive, SocketIds
  <2>2. Agrees(s) /\ activeId = 0 /\ activeId' = n
    BY <1>6, <2>1 DEF PageInv, EndsAgree
  <2>3. NoneIsCancelled(s) /\ IsIdle(s)
    BY <2>2 DEF Agrees, IsSent, IsServed, IsEnding
  <2>4. up[s] \in Seq(PageFrames) /\ Len(up[s]) \in Nat
    BY <1>0, LenProperties DEF PageShape
  <2>5. /\ Len(up'[s]) = Len(up[s]) + 1 /\ up'[s][Len(up[s]) + 1] = MessageFrame(n)
        /\ \A i \in 1 .. Len(up[s]) : up'[s][i] = up[s][i]
    <3>1. up'[s] = Append(up[s], MessageFrame(n))
      BY <1>0, <1>4, <2>1 DEF PageShape
    <3> QED BY <1>2, <2>4, <3>1, AppendProperties
  <2>9. /\ Len(up[s]) + 1 \in 1 .. Len(up'[s])
        /\ \A j \in 1 .. Len(up'[s]) : j \in 1 .. Len(up[s]) \/ j = Len(up[s]) + 1
    BY <2>4, <2>5
  <2>6. IsSent(s)'
    <3>1. /\ Len(up[s]) + 1 \in 1 .. Len(up'[s])
          /\ \A j \in 1 .. Len(up'[s]) : up'[s][j].kind = "message" => j = Len(up[s]) + 1
      BY <2>3, <2>4, <2>5, <2>9 DEF IsIdle, HoldsNoMessage
    <3> QED BY <1>1, <2>2, <2>3, <2>5, <3>1 DEF IsSent, IsIdle
  <2>7. NoneIsCancelled(s)'
    <3>1. \A j \in 1 .. Len(up'[s]) : up'[s][j].kind # "cancel"
      BY <2>3, <2>5, <2>9 DEF NoneIsCancelled, MessageFrame
    <3> QED BY <2>3, <3>1 DEF NoneIsCancelled
  <2>8. QuestionIsPut(s)'
    BY <1>0, <2>3 DEF QuestionIsPut, IsIdle, PageBase, WiresAreOfOpenSockets
  <2> QED BY <2>6, <2>7, <2>8 DEF Agrees
<1> QED BY <1>5, <1>6 DEF EndsAgree

\* An answer is sent, whether or not anything still waits for it.
LEMMA AnsweringAgrees ==
    ASSUME PageInv, PageBase', NEW m \in MessageIds, AnswersQuestion(m)
    PROVE  FramesReachTheirOwn' /\ EndsAgree'
<1> DEFINE next == WithoutApproval(m)
<1>0. /\ PageBase /\ PageShape /\ OneLiveSocket /\ FramesReachTheirOwn
      /\ UNCHANGED <<activeId, givenUp, down, run>>
  BY DEF PageInv, PageBase, AnswersQuestion
<1>1. Len(messages) \in Nat /\ m \in 1 .. Len(messages) /\ m \in Nat /\ Notice.heard = {}
  BY <1>0, MessagesAreMessages DEF MessageIds, Notice, Blank
<1>2. AnswerFrame(m) \in PageFrames
  BY <1>1 DEF PageFrames, UpKinds, AnswerFrame
<1>3. /\ next \in Seq(PageMessages) /\ Len(next) = Len(messages)
      /\ \A i \in 1 .. Len(messages) :
           next[i] = IF i = m THEN [messages[m] EXCEPT !.approval = "none"] ELSE messages[i]
  BY <1>0, <1>1, MessagesAreMessages
<1>4. /\ Len(next) <= Len(messages') /\ messages' \in Seq(PageMessages)
      /\ \A i \in 1 .. Len(next) : messages'[i] = next[i]
      /\ \A i \in 1 .. Len(messages') \ 1 .. Len(next) : messages'[i] = Notice
      /\ IsOpen => /\ ready' = ready /\ current' = current
                   /\ up' = [up EXCEPT ![current] = Append(@, AnswerFrame(m))]
      /\ ~IsOpen => \A s \in SocketIds : ready'[s] # "open"
  <2>1. SendsFrame(AnswerFrame(m), next)
    BY DEF AnswersQuestion, AnswerFrame
  <2> HIDE DEF next
  <2> QED BY <1>0, <1>1, <1>2, <1>3, <2>1, SendingKeeps
<1>5. /\ messages[m] \in PageMessages
      /\ [messages[m] EXCEPT !.approval = "none"].heard = messages[m].heard
  BY <1>0, <1>1, MessagesAreMessages DEF PageMessages
<1>6. FramesReachTheirOwn'
  <2> SUFFICES ASSUME givenUp' = {}, NEW i \in 1 .. Len(messages')
               PROVE  messages'[i].heard \subseteq {i}
    BY DEF FramesReachTheirOwn, MessageIds
  <2> HIDE DEF next
  <2>1. CASE i \in 1 .. Len(messages)
    <3>1. messages'[i].heard = messages[i].heard
      BY <1>1, <1>3, <1>4, <1>5, <2>1
    <3> QED BY <1>0, <2>1, <3>1 DEF FramesReachTheirOwn, MessageIds
  <2>2. CASE i \notin 1 .. Len(messages)
    BY <1>1, <1>3, <1>4, <2>2
  <2> QED BY <2>1, <2>2
<1>7. ASSUME givenUp' = {}, NEW s \in SocketIds, ready'[s] = "open"
      PROVE  Agrees(s)'
  <2>1. IsOpen /\ ready[s] = "open" /\ s = current /\ s # 0 /\ givenUp = {}
    BY <1>0, <1>4, <1>7, StreamAssumption DEF OneLiveSocket, Alive, SocketIds
  <2>2. Agrees(s)
    BY <2>1 DEF PageInv, EndsAgree
  <2>4. up[s] \in Seq(PageFrames) /\ Len(up[s]) \in Nat
    BY <1>0, LenProperties DEF PageShape
  <2>5. /\ Len(up'[s]) = Len(up[s]) + 1 /\ up'[s][Len(up[s]) + 1] = AnswerFrame(m)
        /\ \A i \in 1 .. Len(up[s]) : up'[s][i] = up[s][i]
    <3>1. up'[s] = Append(up[s], AnswerFrame(m))
      BY <1>0, <1>4, <2>1 DEF PageShape
    <3> QED BY <1>2, <2>4, <3>1, AppendProperties
  <2>6. /\ HoldsNoMessage(up[s]) => HoldsNoMessage(up'[s])
        /\ NoneIsCancelled(s)'
    <3>1. \A j \in 1 .. Len(up'[s]) : j \in 1 .. Len(up[s]) \/ j = Len(up[s]) + 1
      BY <2>4, <2>5
    <3>2. AnswerFrame(m).kind \notin {"message", "cancel"}
      BY DEF AnswerFrame
    <3>3. HoldsNoMessage(up[s]) => HoldsNoMessage(up'[s])
      BY <2>5, <3>1, <3>2 DEF HoldsNoMessage
    <3>4. \A j \in 1 .. Len(up'[s]) : up'[s][j].kind # "cancel"
      BY <2>2, <2>5, <3>1, <3>2 DEF Agrees, NoneIsCancelled
    <3> QED BY <1>0, <2>2, <3>3, <3>4 DEF Agrees, NoneIsCancelled
  <2>7. IsSent(s)' \/ IsServed(s)' \/ IsEnding(s)' \/ IsIdle(s)'
    <3>1. CASE IsSent(s)
      <4>1. PICK i \in 1 .. Len(up[s]) :
              /\ up[s][i] = MessageFrame(activeId)
              /\ \A j \in 1 .. Len(up[s]) : up[s][j].kind = "message" => j = i
        BY <3>1 DEF IsSent
      <4>2. /\ i \in 1 .. Len(up'[s]) /\ up'[s][i] = MessageFrame(activeId')
            /\ \A j \in 1 .. Len(up'[s]) : up'[s][j].kind = "message" => j = i
        BY <1>0, <2>4, <2>5, <4>1 DEF AnswerFrame
      <4> QED BY <1>0, <3>1, <4>2 DEF IsSent
    <3>2. CASE IsServed(s) \/ IsEnding(s) \/ IsIdle(s)
      BY <1>0, <2>6, <3>2 DEF IsServed, IsEnding, IsIdle
    <3> QED BY <2>2, <3>1, <3>2 DEF Agrees
  <2>8. QuestionIsPut(s)'
    <3> SUFFICES ASSUME run[s].asks = "question" PROVE QuestionIsPut(s)'
      BY <1>0 DEF QuestionIsPut
    <3>1. activeId \in 1 .. Len(messages)
      BY <1>0, <2>2, AskingIsServed DEF PageBase, WiresAreOfOpenSockets, MessageIds
    <3>2. CASE m = activeId
      BY <1>0, <2>4, <2>5, <3>2 DEF QuestionIsPut
    <3>3. CASE m # activeId
      <4>1. messages'[activeId] = messages[activeId]
        <5> HIDE DEF next
        <5> QED BY <1>1, <1>3, <1>4, <3>1, <3>3
      <4>2. \A i \in 1 .. Len(up[s]) : i \in 1 .. Len(up'[s])
        BY <2>4, <2>5
      <4> QED BY <1>0, <2>2, <2>5, <4>1, <4>2 DEF QuestionIsPut, Agrees
    <3> QED BY <3>2, <3>3
  <2> QED BY <2>6, <2>7, <2>8 DEF Agrees
<1> QED BY <1>6, <1>7 DEF EndsAgree

LEMMA UserKeepsAgreeing ==
    ASSUME PageInv, PageBase',
           \/ SendsMessage \/ CancelsRun \/ Clears
           \/ \E m \in MessageIds : AnswersQuestion(m) \/ RejectsPlan(m) \/ ApprovesPlan(m)
    PROVE  FramesReachTheirOwn' /\ EndsAgree'
<1>0. /\ PageBase /\ PageShape /\ FramesReachTheirOwn /\ EndsAgree
      /\ isRunning <=> activeId # 0
  BY DEF PageInv, PageBase, RunningNamesAMessage
<1>1. CASE SendsMessage
  <2>1. messages \in Seq(PageMessages)
    BY <1>0 DEF PageShape
  <2>2. SendsFrame(MessageFrame(Len(messages) + 1), Append(messages, Blank))
    BY <1>1 DEF SendsMessage, MessageFrame
  <2>3. /\ UNCHANGED <<down, run, givenUp>> /\ activeId = 0
        /\ activeId' = IF IsOpen THEN Len(messages) + 1 ELSE 0
    BY <1>0, <1>1 DEF SendsMessage
  <2> QED BY <2>1, <2>2, <2>3, SendingAgrees
<1>2. CASE CancelsRun
  <2>1. givenUp' # {}
    BY <1>0, <1>2 DEF CancelsRun
  <2> QED BY <2>1 DEF FramesReachTheirOwn, EndsAgree
<1>3. ASSUME UNCHANGED <<ready, up, down, run>>, givenUp' = {} => UNCHANGED <<activeId, givenUp>>,
             Len(messages') = Len(messages),
             \A m \in 1 .. Len(messages) :
               /\ messages'[m].heard = messages[m].heard
               /\ messages[m].approval = "question" => messages'[m].approval = "question"
      PROVE  FramesReachTheirOwn' /\ EndsAgree'
  <2>1. FramesReachTheirOwn'
    BY <1>0, <1>3 DEF FramesReachTheirOwn, MessageIds
  <2>2. activeId # 0 => activeId \in 1 .. Len(messages)
    BY <1>0, MessagesAreMessages DEF PageShape
  <2>3. EndsAgree'
    BY <1>0, <1>3, <2>2, AgreeingStays DEF EndsAgree
  <2> QED BY <2>1, <2>3
<1>4. CASE Clears
  BY <1>3, <1>4 DEF Clears, link, wires
<1>5. ASSUME NEW m \in MessageIds, RejectsPlan(m) PROVE FramesReachTheirOwn' /\ EndsAgree'
  <2>1. /\ m \in 1 .. Len(messages) /\ messages' = WithoutApproval(m)
        /\ UNCHANGED <<ready, up, down, run, activeId, givenUp>>
        /\ messages[m].approval = "gate"
    BY <1>5 DEF RejectsPlan, MessageIds, link, wires
  <2>2. /\ Len(messages') = Len(messages) /\ messages[m] \in PageMessages
        /\ \A i \in 1 .. Len(messages) :
             messages'[i] = IF i = m THEN [messages[m] EXCEPT !.approval = "none"] ELSE messages[i]
    BY <1>0, <2>1, MessagesAreMessages
  <2>3. [messages[m] EXCEPT !.approval = "none"].heard = messages[m].heard
    BY <2>2 DEF PageMessages
  <2> QED BY <1>3, <2>1, <2>2, <2>3
<1>6. ASSUME NEW m \in MessageIds, ApprovesPlan(m) PROVE FramesReachTheirOwn' /\ EndsAgree'
  <2>1. m \in 1 .. Len(messages)
    BY DEF MessageIds
  <2>2. /\ WithoutApproval(m) \in Seq(PageMessages) /\ Len(WithoutApproval(m)) = Len(messages)
        /\ messages[m] \in PageMessages
        /\ \A i \in 1 .. Len(messages) :
             WithoutApproval(m)[i] = IF i = m THEN [messages[m] EXCEPT !.approval = "none"]
                                              ELSE messages[i]
    BY <1>0, <2>1, MessagesAreMessages
  <2>3. [messages[m] EXCEPT !.approval = "none"].heard = messages[m].heard
    BY <2>2 DEF PageMessages
  <2>4. \A i \in 1 .. Len(messages) : WithoutApproval(m)[i].heard = messages[i].heard
    BY <2>2, <2>3
  <2>5. SendsFrame(MessageFrame(Len(messages) + 1), Append(WithoutApproval(m), Blank))
    BY <1>6 DEF ApprovesPlan, MessageFrame
  <2>6. /\ UNCHANGED <<down, run>> /\ activeId' = Len(messages) + 1
        /\ givenUp' = {} => givenUp = {} /\ activeId = 0
    BY <1>6 DEF ApprovesPlan
  <2> QED BY <2>2, <2>4, <2>5, <2>6, SendingAgrees
<1> QED BY <1>1, <1>2, <1>4, <1>5, <1>6, AnsweringAgrees

-----------------------------------------------------------------------------
\* The server's end speaks of the active message only.
LEMMA ServingAgrees ==
    ASSUME PageInv, NEW s \in SocketIds, ServesFrame(s), Agrees(s)
    PROVE  Agrees(s)'
<1> DEFINE frame == Head(up[s])
<1>0. /\ PageBase /\ PageShape /\ up[s] \in Seq(PageFrames) /\ up[s] # <<>> /\ run[s] \in ServedRuns
      /\ down[s] \in Seq(PageFrames)
      /\ UNCHANGED <<activeId, messages>>
      /\ IsQuiet(run[s]) => run[s].asks = "no"
      /\ up'[s] = Tail(up[s])
  BY DEF PageInv, PageBase, PageShape, ServesFrame, pageVars, WiresAreOfOpenSockets
<1>1. /\ Len(up[s]) \in Nat \ {0} /\ Len(up'[s]) = Len(up[s]) - 1
      /\ \A i \in 1 .. Len(up'[s]) : up'[s][i] = up[s][i + 1] /\ i + 1 \in 1 .. Len(up[s])
      /\ frame = up[s][1] /\ 1 \in 1 .. Len(up[s]) /\ frame \in PageFrames /\ frame.of \in Nat
  <2>1. Len(up[s]) \in Nat \ {0}
    BY <1>0, LenProperties, EmptySeq
  <2>2. /\ Len(Tail(up[s])) = Len(up[s]) - 1
        /\ \A i \in 1 .. Len(Tail(up[s])) : Tail(up[s])[i] = up[s][i + 1]
        /\ frame \in PageFrames
    BY <1>0, HeadTailProperties
  <2>3. frame = up[s][1]
    BY <1>0
  <2> QED BY <1>0, <2>1, <2>2, <2>3 DEF PageFrames
<1>2. \A i \in 1 .. Len(up[s]) : i # 1 => i - 1 \in 1 .. Len(up'[s]) /\ up'[s][i - 1] = up[s][i]
  BY <1>1
<1> HIDE DEF frame
<1>3. /\ HoldsNoMessage(up[s]) => HoldsNoMessage(up'[s])
      /\ \A i \in 1 .. Len(up'[s]) : up'[s][i].kind # "cancel"
      /\ frame.kind # "cancel"
  BY <1>1 DEF Agrees, NoneIsCancelled, HoldsNoMessage
<1>4. CASE frame.kind = "answer"
  <2>1. /\ run' = [run EXCEPT ![s].asks =
                     IF frame.of = run[s].of /\ @ = "question" THEN "no" ELSE @]
        /\ down' = down
    BY <1>4 DEF ServesFrame, frame
  <2>2. /\ run'[s].of = run[s].of /\ run'[s].said = run[s].said
        /\ run'[s].cancelled = run[s].cancelled
        /\ run'[s].asks = "question" => run[s].asks = "question" /\ frame.of # run[s].of
    BY <1>0, <2>1 DEF PageShape, ServedRuns
  <2>3. NoneIsCancelled(s)'
    BY <1>3, <2>1, <2>2 DEF Agrees, NoneIsCancelled
  <2>4. QuestionIsPut(s)'
    <3> SUFFICES ASSUME run'[s].asks = "question" PROVE QuestionIsPut(s)'
      BY DEF QuestionIsPut
    <3>1. activeId = run[s].of
      BY <1>0, <2>2, AskingIsServed DEF IsServed
    <3>2. ASSUME NEW i \in 1 .. Len(up[s]), up[s][i] = AnswerFrame(activeId)
          PROVE  QuestionIsPut(s)'
      <4>1. i # 1
        BY <1>1, <2>2, <3>1, <3>2 DEF AnswerFrame
      <4> QED BY <1>0, <1>2, <3>2, <4>1 DEF QuestionIsPut
    <3> QED BY <1>0, <2>1, <2>2, <3>2 DEF QuestionIsPut, Agrees
  <2>5. IsSent(s)' \/ IsServed(s)' \/ IsEnding(s)' \/ IsIdle(s)'
    <3>1. CASE IsSent(s)
      <4>1. PICK i \in 1 .. Len(up[s]) :
              /\ up[s][i] = MessageFrame(activeId)
              /\ \A j \in 1 .. Len(up[s]) : up[s][j].kind = "message" => j = i
        BY <3>1 DEF IsSent
      <4>2. i # 1
        BY <1>1, <1>4, <4>1 DEF MessageFrame
      <4>3. ASSUME NEW j \in 1 .. Len(up'[s]), up'[s][j].kind = "message" PROVE j = i - 1
        <5>1. j + 1 \in 1 .. Len(up[s]) /\ up'[s][j] = up[s][j + 1]
          BY <1>1
        <5>2. j + 1 = i
          BY <4>1, <4>3, <5>1
        <5> QED BY <5>2
      <4> QED BY <1>0, <1>2, <2>1, <2>2, <3>1, <4>1, <4>2, <4>3 DEF IsSent, IsQuiet
    <3>2. CASE IsServed(s) \/ IsEnding(s) \/ IsIdle(s)
      BY <1>0, <1>3, <2>1, <2>2, <3>2 DEF IsServed, IsEnding, IsIdle, IsQuiet
    <3> QED BY <3>1, <3>2 DEF Agrees
  <2> QED BY <2>3, <2>4, <2>5 DEF Agrees
<1>5. CASE frame.kind = "message"
  <2>1. IsSent(s) /\ frame = MessageFrame(activeId)
    BY <1>1, <1>5 DEF Agrees, IsSent, IsServed, IsEnding, IsIdle, HoldsNoMessage
  <2>2. HoldsNoMessage(up'[s])
    <3>1. \A j \in 1 .. Len(up[s]) : up[s][j].kind = "message" => j = 1
      BY <1>1, <1>5, <2>1 DEF IsSent
    <3>2. ASSUME NEW j \in 1 .. Len(up'[s]) PROVE up'[s][j].kind # "message"
      <4>1. j + 1 \in 1 .. Len(up[s]) /\ up'[s][j] = up[s][j + 1] /\ j + 1 # 1
        BY <1>1
      <4> QED BY <3>1, <4>1
    <3> QED BY <3>2 DEF HoldsNoMessage
  <2>3. IsQuiet(run[s]) /\ down[s] = <<>> /\ activeId # 0 /\ run[s].asks = "no" /\ ~run[s].cancelled
    BY <1>0, <2>1 DEF IsSent, Agrees, NoneIsCancelled
  <2>4. CASE run[s].of # 0
    <3>1. run' = run /\ down'[s] = Append(<<>>, [kind |-> "error", of |-> activeId])
      BY <1>0, <1>5, <2>1, <2>3, <2>4 DEF ServesFrame, Replies, frame, MessageFrame, PageShape
    <3>2. down'[s] = <<[kind |-> "error", of |-> activeId]>>
      BY <3>1
    <3>3. Len(down'[s]) = 1 /\ down'[s][1] = [kind |-> "error", of |-> activeId] /\ 1 .. 1 = {1}
      BY <3>2
    <3>4. IsEnding(s)'
      BY <1>0, <2>2, <2>3, <3>1, <3>2, <3>3 DEF IsEnding, LastFrames
    <3>5. NoneIsCancelled(s)'
      BY <1>3, <2>3, <3>1, <3>3 DEF NoneIsCancelled
    <3> QED BY <2>3, <3>1, <3>4, <3>5 DEF Agrees, QuestionIsPut
  <2>5. CASE run[s].of = 0
    <3>1. run'[s] = [NoRun EXCEPT !.of = activeId] /\ down' = down
      BY <1>0, <1>5, <2>1, <2>5 DEF ServesFrame, frame, MessageFrame, PageShape
    <3>2. Len(down'[s]) = 0 /\ 1 .. 0 = {}
      BY <2>3, <3>1, EmptySeq
    <3>3. /\ run'[s].of = activeId /\ ~run'[s].said /\ ~run'[s].cancelled /\ run'[s].asks = "no"
      BY <3>1 DEF NoRun
    <3>4. IsServed(s)'
      BY <1>0, <2>2, <2>3, <3>2, <3>3 DEF IsServed
    <3>5. NoneIsCancelled(s)'
      BY <1>3, <3>2, <3>3 DEF NoneIsCancelled
    <3> QED BY <3>3, <3>4, <3>5 DEF Agrees, QuestionIsPut
  <2> QED BY <2>4, <2>5
<1> QED BY <1>3, <1>4, <1>5 DEF ServesFrame, frame

\* A turn that goes on, asks or ends: its frames come last.
LEMMA GoingOnAgrees ==
    ASSUME PageInv, NEW s \in SocketIds, Agrees(s),
           \/ \E kind \in {"delta", "branch"} \cup LastFrames : Emits(s, kind)
           \/ \E kind \in QuestionFrames : TurnAsks(s, kind)
    PROVE  Agrees(s)'
<1>0. /\ PageBase /\ PageShape /\ run[s] \in ServedRuns
      /\ down[s] \in Seq(PageFrames) /\ Len(down[s]) \in Nat
      /\ UNCHANGED <<activeId, messages, up>>
  BY LenProperties DEF PageInv, PageBase, PageShape, Emits, TurnAsks, pageVars
<1>1. run[s].of # 0 /\ ~run[s].said /\ ~run[s].cancelled
  BY DEF Emits, TurnAsks, RunGoes
<1>2. IsServed(s) /\ run[s].of = activeId
  BY <1>0, <1>1, AskingIsServed DEF IsQuiet, IsServed
<1>3. PICK kind \in {"delta", "branch"} \cup LastFrames \cup QuestionFrames :
        /\ Replies(s, kind, run[s].of)
        /\ \/ kind \notin QuestionFrames /\ Emits(s, kind)
           \/ kind \in QuestionFrames /\ TurnAsks(s, kind)
  BY DEF Emits, TurnAsks, LastFrames, QuestionFrames
<1> DEFINE frame == [kind |-> kind, of |-> activeId]
<1>4. /\ frame \in PageFrames /\ frame.kind = kind /\ frame.of = activeId /\ kind # "status"
  <2>1. activeId \in Nat
    BY <1>0, MessagesAreMessages DEF PageShape
  <2> QED BY <2>1 DEF PageFrames, DownKinds, LastFrames, QuestionFrames
<1>5. /\ Len(down'[s]) = Len(down[s]) + 1 /\ down'[s] # <<>>
      /\ down'[s][Len(down[s]) + 1] = frame
      /\ \A i \in 1 .. Len(down[s]) : down'[s][i] = down[s][i]
  <2>1. down'[s] = Append(down[s], frame)
    BY <1>0, <1>2, <1>3 DEF Replies, PageShape
  <2> HIDE DEF frame
  <2> QED BY <1>0, <1>4, <2>1, AppendProperties
<1>6. /\ Len(down[s]) + 1 \in 1 .. Len(down'[s])
      /\ \A i \in 1 .. Len(down'[s]) :
           (i \in 1 .. Len(down[s]) /\ i # Len(down'[s])) \/ i = Len(down[s]) + 1
      /\ \A i \in 1 .. Len(down[s]) : i \in 1 .. Len(down'[s])
  BY <1>0, <1>5
<1> HIDE DEF frame
<1>7. /\ ~run'[s].cancelled /\ run'[s].of = activeId
      /\ run'[s].said <=> kind \in LastFrames
      /\ run'[s].asks = "question" => kind = "question"
  <2>1. CASE kind \notin QuestionFrames /\ Emits(s, kind)
    BY <1>0, <1>1, <1>2, <2>1 DEF Emits, PageShape, ServedRuns, LastFrames
  <2>2. CASE kind \in QuestionFrames /\ TurnAsks(s, kind)
    BY <1>0, <1>1, <1>2, <2>2 DEF TurnAsks, PageShape, ServedRuns, LastFrames, QuestionFrames
  <2> QED BY <1>3, <2>1, <2>2
<1>8. NoneIsCancelled(s)'
  <2>1. \A i \in 1 .. Len(down'[s]) : down'[s][i].kind # "status"
    BY <1>4, <1>5, <1>6 DEF Agrees, NoneIsCancelled
  <2> QED BY <1>0, <1>7, <2>1 DEF Agrees, NoneIsCancelled
<1>9. QuestionIsPut(s)'
  BY <1>4, <1>5, <1>6, <1>7 DEF QuestionIsPut
<1>10. CASE kind \in LastFrames
  <2>1. \A i \in 1 .. Len(down'[s]) :
          /\ down'[s][i].of = activeId
          /\ down'[s][i].kind \in LastFrames <=> i = Len(down'[s])
    BY <1>0, <1>2, <1>4, <1>5, <1>6, <1>10 DEF IsServed
  <2>2. IsEnding(s)'
    BY <1>0, <1>2, <1>5, <1>7, <1>10, <2>1 DEF IsServed, IsEnding, IsQuiet
  <2> QED BY <1>8, <1>9, <2>2 DEF Agrees
<1>11. CASE kind \notin LastFrames
  <2>1. \A i \in 1 .. Len(down'[s]) :
          down'[s][i].of = activeId /\ down'[s][i].kind \notin LastFrames
    BY <1>2, <1>4, <1>5, <1>6, <1>11 DEF IsServed
  <2>2. IsServed(s)'
    BY <1>0, <1>2, <1>7, <1>11, <2>1 DEF IsServed
  <2> QED BY <1>8, <1>9, <2>2 DEF Agrees
<1> QED BY <1>10, <1>11

LEMMA EndingAgrees ==
    ASSUME PageInv, NEW s \in SocketIds, Agrees(s), QuestionExpires(s) \/ RunEnds(s)
    PROVE  Agrees(s)'
<1>0. /\ PageBase /\ PageShape /\ run[s] \in ServedRuns
      /\ UNCHANGED <<activeId, messages, up>> /\ ~run[s].cancelled
      /\ IsQuiet(run[s]) => run[s].asks = "no"
  BY DEF PageInv, PageBase, PageShape, WiresAreOfOpenSockets, QuestionExpires, RunEnds, pageVars,
         Agrees, NoneIsCancelled
<1>1. CASE QuestionExpires(s)
  <2>1. /\ run'[s].of = run[s].of /\ run'[s].said = run[s].said
        /\ run'[s].cancelled = run[s].cancelled /\ run'[s].asks = "no" /\ down' = down
        /\ ~IsQuiet(run[s])
    BY <1>0, <1>1 DEF QuestionExpires, PageShape, ServedRuns
  <2>2. IsServed(s)'
    BY <1>0, <2>1, AskingIsServed DEF IsServed
  <2> QED BY <1>0, <2>1, <2>2 DEF Agrees, NoneIsCancelled, QuestionIsPut
<1>2. CASE RunEnds(s)
  <2>1. run'[s] = NoRun /\ down' = down /\ run[s].said
    BY <1>0, <1>2 DEF RunEnds, PageShape
  <2>2. IsSent(s) \/ IsEnding(s) \/ IsIdle(s)
    BY <2>1 DEF Agrees, IsServed
  <2>3. IsSent(s)' \/ IsEnding(s)' \/ IsIdle(s)'
    BY <1>0, <2>1, <2>2 DEF IsSent, IsEnding, IsIdle, IsQuiet, NoRun
  <2>4. NoneIsCancelled(s)' /\ QuestionIsPut(s)'
    BY <1>0, <2>1 DEF Agrees, NoneIsCancelled, QuestionIsPut, NoRun
  <2> QED BY <2>3, <2>4 DEF Agrees
<1> QED BY <1>1, <1>2

LEMMA ServerKeepsAgreeing ==
    ASSUME PageInv, PageBase', NEW s \in SocketIds,
           \/ ServesFrame(s) \/ QuestionExpires(s) \/ RunEnds(s)
           \/ \E kind \in {"delta", "branch"} \cup LastFrames : Emits(s, kind)
           \/ \E kind \in QuestionFrames : TurnAsks(s, kind)
    PROVE  FramesReachTheirOwn' /\ EndsAgree'
<1>0. /\ PageBase /\ PageShape /\ OneLiveSocket /\ FramesReachTheirOwn
      /\ UNCHANGED <<ready, messages, givenUp, current>>
  BY DEF PageInv, PageBase, ServesFrame, QuestionExpires, RunEnds, Emits, TurnAsks, link, pageVars
<1>1. ready[s] = "open"
  <2>1. ready[s] # "open" => run[s].asks = "no"
    BY <1>0 DEF PageBase, WiresAreOfOpenSockets, NoRun
  <2> QED BY <2>1 DEF ServesFrame, QuestionExpires, RunEnds, Emits, TurnAsks, RunGoes, HasRoom
<1>2. FramesReachTheirOwn'
  BY <1>0, <1>1 DEF FramesReachTheirOwn, MessageIds
<1>3. \A t \in SocketIds : ready'[t] = "open" => t = s
  BY <1>0, <1>1 DEF OneLiveSocket, Alive
<1>4. ASSUME givenUp = {} PROVE Agrees(s)'
  BY <1>0, <1>1, <1>4, ServingAgrees, GoingOnAgrees, EndingAgrees DEF PageInv, EndsAgree
<1> QED BY <1>0, <1>1, <1>2, <1>3, <1>4 DEF EndsAgree

-----------------------------------------------------------------------------
\* A frame that comes in is the active message's, and the last one ends it.
LEMMA HearingKeepsAgreeing ==
    ASSUME PageInv, PageBase', NEW s \in SocketIds,
           \/ HearsBranch(s) \/ HearsStatus(s) \/ HearsPart(s) \/ HearsApproval(s)
           \/ HearsError(s) \/ HearsFinal(s)
    PROVE  FramesReachTheirOwn' /\ EndsAgree'
<1> SUFFICES ASSUME givenUp' = {} PROVE FramesReachTheirOwn' /\ EndsAgree'
  BY DEF FramesReachTheirOwn, EndsAgree
<1> DEFINE frame == Head(down[s])
<1>1. /\ PageBase /\ PageShape /\ OneLiveSocket /\ ready[s] = "open" /\ s = current
      /\ down[s] # <<>> /\ down'[s] = Tail(down[s]) /\ givenUp = {}
      /\ UNCHANGED <<ready, current, up, run>>
      /\ down[s] \in Seq(PageFrames) /\ up[s] \in Seq(PageFrames)
  BY DEF PageInv, PageBase, PageShape, HearsBranch, HearsStatus, HearsPart, HearsApproval, HearsError,
         HearsFinal, Receives, link
<1>2. Agrees(s) /\ (IsServed(s) \/ IsEnding(s))
  BY <1>1 DEF PageInv, EndsAgree, Agrees, IsSent, IsIdle
<1>3. /\ Len(down[s]) \in Nat \ {0} /\ Len(down'[s]) = Len(down[s]) - 1
      /\ \A i \in 1 .. Len(down'[s]) : down'[s][i] = down[s][i + 1] /\ i + 1 \in 1 .. Len(down[s])
      /\ frame = down[s][1] /\ 1 \in 1 .. Len(down[s]) /\ frame \in PageFrames
  <2>1. Len(down[s]) \in Nat \ {0}
    BY <1>1, LenProperties, EmptySeq
  <2>2. /\ Len(Tail(down[s])) = Len(down[s]) - 1
        /\ \A i \in 1 .. Len(Tail(down[s])) : Tail(down[s])[i] = down[s][i + 1]
        /\ frame \in PageFrames
    BY <1>1, HeadTailProperties
  <2>3. frame = down[s][1]
    BY <1>1
  <2> QED BY <1>1, <2>1, <2>2, <2>3
<1> HIDE DEF frame
<1>4. /\ frame.of = activeId /\ activeId \in 1 .. Len(messages) /\ activeId # 0
      /\ frame.kind # "status" /\ Len(messages) \in Nat
      /\ frame.kind \in LastFrames => IsEnding(s) /\ Len(down[s]) = 1
      /\ IsEnding(s) => (frame.kind \in LastFrames <=> Len(down[s]) = 1)
  BY <1>1, <1>2, <1>3, MessagesAreMessages
  DEF Agrees, NoneIsCancelled, IsServed, IsEnding, PageShape
<1>5. PICK b \in BOOLEAN, a \in {"none", "gate", "question"} :
        /\ messages' = Patched(frame, b, a)
        /\ frame.kind = "question" => a = "question"
        /\ a = "gate" => frame.kind \in LastFrames
        /\ \/ frame.kind \in LastFrames /\ activeId' = 0
           \/ frame.kind \notin LastFrames /\ UNCHANGED activeId
  <2>1. CASE HearsBranch(s) \/ HearsPart(s)
    <3>1. messages' = Patched(frame, TRUE, "none") /\ UNCHANGED activeId
      BY <2>1 DEF HearsBranch, HearsPart, frame
    <3>2. frame.kind \in {"branch", "branch question", "delta"}
      BY <2>1 DEF HearsBranch, HearsPart, Receives, frame
    <3> QED BY <3>1, <3>2 DEF LastFrames
  <2>2. CASE HearsStatus(s)
    BY <1>4, <2>2 DEF HearsStatus, Receives, frame
  <2>3. CASE HearsApproval(s)
    <3>1. messages' = Patched(frame, FALSE, frame.kind) /\ frame.kind \in {"gate", "question"}
      BY <2>3 DEF HearsApproval, Receives, frame
    <3>2. IF frame.kind = "gate" THEN activeId' = 0 ELSE UNCHANGED activeId
      BY <2>3 DEF HearsApproval, frame
    <3> QED BY <3>1, <3>2 DEF LastFrames
  <2>4. CASE HearsError(s) \/ HearsFinal(s)
    <3>1. messages' = Patched(frame, FALSE, "none") /\ activeId' = 0
      BY <1>4, <2>4 DEF HearsError, HearsFinal, frame
    <3>2. frame.kind \in {"error", "final"}
      BY <2>4 DEF HearsError, HearsFinal, Receives, frame
    <3> QED BY <3>1, <3>2 DEF LastFrames
  <2> QED BY <2>1, <2>2, <2>3, <2>4
<1>6. /\ Len(messages') = Len(messages)
      /\ \A i \in 1 .. Len(messages) :
           /\ i # activeId => messages'[i] = messages[i]
           /\ i = activeId => /\ messages'[i].heard = messages[i].heard \cup {frame.of}
                              /\ messages'[i].approval = IF a = "none" THEN messages[i].approval ELSE a
  BY <1>1, <1>3, <1>5, PatchedIs
<1>7. FramesReachTheirOwn'
  <2>1. \A i \in 1 .. Len(messages) : messages[i].heard \subseteq {i}
    BY <1>1 DEF PageInv, FramesReachTheirOwn, MessageIds
  <2> QED BY <1>4, <1>6, <2>1 DEF FramesReachTheirOwn, MessageIds
<1>8. NoneIsCancelled(s)'
  BY <1>1, <1>2, <1>3 DEF Agrees, NoneIsCancelled
<1>9. SUFFICES Agrees(s)'
  BY <1>1, <1>7 DEF EndsAgree, OneLiveSocket, Alive
<1>10. CASE frame.kind \in LastFrames
  <2>1. down'[s] = <<>>
    <3>1. down'[s] \in Seq(PageFrames) /\ Len(down'[s]) = 0
      BY <1>1, <1>3, <1>4, <1>10, HeadTailProperties
    <3> QED BY <3>1, EmptySeq
  <2>2. IsIdle(s)' /\ run[s].asks = "no"
    BY <1>1, <1>4, <1>10, <2>1 DEF IsEnding, IsIdle, PageBase, WiresAreOfOpenSockets
  <2> QED BY <1>1, <1>8, <2>2 DEF Agrees, QuestionIsPut
<1>11. CASE frame.kind \notin LastFrames
  <2>1. UNCHANGED activeId /\ a # "gate"
    BY <1>5, <1>11
  <2>2. ASSUME IsServed(s) PROVE IsServed(s)'
    BY <1>1, <1>3, <2>1, <2>2 DEF IsServed
  <2>3. ASSUME IsEnding(s) PROVE IsEnding(s)'
    <3>1. down'[s] # <<>>
      <4>1. Len(down[s]) # 1
        BY <1>4, <1>11, <2>3
      <4>2. Len(down[s]) \in Nat \ {0} /\ Len(down'[s]) = Len(down[s]) - 1
        BY <1>3
      <4>3. Len(down'[s]) # 0
        BY <4>1, <4>2
      <4>4. Len(<<>>) = 0
        BY EmptySeq
      <4> QED BY <4>3, <4>4
    <3>2. \A i \in 1 .. Len(down'[s]) :
            /\ down'[s][i].of = activeId
            /\ down'[s][i].kind \in LastFrames <=> i = Len(down'[s])
      BY <1>1, <1>3, <2>3 DEF IsEnding
    <3> QED BY <1>1, <2>1, <2>3, <3>1, <3>2 DEF IsEnding
  <2>4. QuestionIsPut(s)'
    <3>1. CASE a = "question"
      BY <1>4, <1>6, <2>1, <3>1 DEF QuestionIsPut
    <3>2. CASE a # "question"
      <4>1. messages'[activeId].approval = messages[activeId].approval
        BY <1>4, <1>6, <2>1, <3>2
      <4>2. ASSUME NEW i \in 1 .. Len(down[s]), down[s][i].kind = "question"
            PROVE  i - 1 \in 1 .. Len(down'[s]) /\ down'[s][i - 1].kind = "question"
        <5>1. i # 1
          BY <1>3, <1>5, <3>2, <4>2
        <5> QED BY <1>3, <4>2, <5>1
      <4> QED BY <1>1, <1>2, <2>1, <4>1, <4>2 DEF QuestionIsPut, Agrees
    <3> QED BY <3>1, <3>2
  <2> QED BY <1>2, <1>8, <2>2, <2>3, <2>4 DEF Agrees
<1> QED BY <1>10, <1>11

LEMMA PageStepsKeepInv == ASSUME PageInv, [StreamNext]_streamVars PROVE PageInv'
<1>1. PageBase'
  BY PageStepsKeepBase DEF PageInv
<1>2. CASE UNCHANGED streamVars
  <2>1. PageBase /\ FramesReachTheirOwn /\ EndsAgree /\ UNCHANGED <<messages, givenUp, ready>>
    BY <1>2 DEF PageInv, streamVars
  <2>2. FramesReachTheirOwn'
    BY <2>1 DEF FramesReachTheirOwn, MessageIds
  <2>3. EndsAgree'
    BY <1>2, <2>1, AgreeingStays DEF EndsAgree, streamVars
  <2> QED BY <1>1, <2>2, <2>3 DEF PageInv
<1> QED BY <1>1, <1>2, LinkKeepsAgreeing, UserKeepsAgreeing, ServerKeepsAgreeing,
           HearingKeepsAgreeing
    DEF StreamNext, PageInv

(* Whatever the sockets, the timers, the user and the turns do, the page     *)
(* has one socket, and while the user leaves no turn unfinished both ends    *)
(* speak of the same turn (use-chat-stream, the chat route's receive loop).  *)
THEOREM PageInvariance == StreamSpec => []PageInv
BY PageInitInv, PageStepsKeepInv, PTL DEF StreamSpec

LEMMA PageKeepsOrder == ASSUME PageInv PROVE PageIsInOrder
<1>1. PageBase /\ PageShape /\ OneLiveSocket /\ RunningNamesAMessage /\ FramesReachTheirOwn
  BY DEF PageInv, PageBase
<1>2. ASSUME NEW s \in SocketIds PROVE PutTo(s, {"question"})
  <2> SUFFICES ASSUME run[s].asks = "question", down[s] = <<>>, givenUp = {}
               PROVE  \/ \E m \in MessageIds \ hidden : messages[m].approval = "question"
                      \/ \E i \in DOMAIN up[s] : up[s][i].kind = "answer"
    BY DEF PutTo
  <2>1. ready[s] = "open" /\ ~IsQuiet(run[s])
    BY <1>1 DEF PageBase, WiresAreOfOpenSockets, NoRun
  <2>2. Agrees(s)
    BY <2>1 DEF PageInv, EndsAgree
  <2>3. activeId \in MessageIds \ hidden
    BY <1>1, <2>1, <2>2, AskingIsServed DEF PageBase, ActiveIsShown
  <2>4. up[s] \in Seq(PageFrames) /\ DOMAIN up[s] = 1 .. Len(up[s])
    BY <1>1, LenProperties DEF PageShape
  <2>5. Len(down[s]) = 0 /\ 1 .. 0 = {}
    BY EmptySeq
  <2> QED BY <2>2, <2>3, <2>4, <2>5 DEF Agrees, QuestionIsPut, AnswerFrame
<1> QED BY <1>1, <1>2 DEF PageIsInOrder, OwnQuestionsArePut

-----------------------------------------------------------------------------
(* The limiter, the gate, the queue and the pool keep their limits, and the  *)
(* page files what it hears under the turn it is of and puts that turn's     *)
(* questions, for every number of hosts, sockets, requests, jobs, threads,   *)
(* containers, messages and frames on the way (Services).                    *)
THEOREM TrafficStaysInOrder ==
    AdmissionSpec /\ QueueSpec /\ BoxSpec /\ StreamSpec => []TrafficIsInOrder
<1>1. LimitsHold /\ PageInv => TrafficIsInOrder
  BY PageKeepsOrder DEF TrafficIsInOrder
<1> QED BY <1>1, LimitsAreKept, PageInvariance, PTL
=============================================================================

------------------------------ MODULE TurnLoop ------------------------------
(***************************************************************************)
(* core/agent/orchestrator.py: the turns of one question over one schema,  *)
(* one after the other, and what they leave behind for the next: the entry *)
(* of the semantic cache and the failure-recovery trajectories.            *)
(*                                                                         *)
(* A turn orients itself (a cached solution, or a plan), loops over        *)
(* actions until it answers, and learns from what it did.  The models, the *)
(* user's permissions, the runtime and the clock are nondeterministic.  Of *)
(* the investigation only what the loop reads is kept: how the last step   *)
(* went and last_successful_code.                                          *)
(***************************************************************************)
EXTENDS Naturals

CONSTANTS
    Codes,      \* the programs a model may write
    Iterations, \* the iterations of a turn that is neither fast nor deep
    Deep,       \* and of a deep one
    MaxRetries, \* MAX_CORRECTION_RETRIES
    None

ASSUME LoopAssumption ==
    /\ Iterations \in Nat \ {0}
    /\ Deep \in Nat \ {0}
    /\ MaxRetries \in Nat
    /\ None \notin Codes

VARIABLES
    pc,           \* where the turn is
    budget,       \* the TierBudget of the turn
    late,         \* _out_of_time
    iteration,    \* state.iterations_used
    code,         \* state.code
    error,        \* whether state.error is set
    retry,        \* state.retry_count
    blocked,      \* state.blocked
    fromCache,    \* state.from_cache
    failed,       \* state.failed_code
    last,         \* the last step: none, useful (ok, with output), blank, failed
    best,         \* investigation.last_successful_code
    cache,        \* the semantic cache's code for this question
    trajectory,   \* the <<failed, corrected>> that save_trajectory stored last
    ended,        \* history: how the last code action ended
    fails,        \* history: the programs that failed in it
    recovered,    \* history: <<failed, ran after it>> of one code action
    ran           \* history: the programs of this turn that ran without an error

controlVars == <<pc, budget, late, iteration>>
runVars == <<code, error, retry, blocked, fromCache, failed>>
stepVars == <<last, best>>
learntVars == <<cache, trajectory>>
historyVars == <<ended, fails, recovered, ran>>
vars == <<controlVars, runVars, stepVars, learntVars, historyVars>>

Tiers == {"compact", "larger"}
Modes == {"auto", "fast", "deep"}

\* budget_for: what a turn may do, given its mode and the model behind it.
BudgetFor(tier, mode) ==
    [iterations |-> CASE mode = "fast" -> 1
                      [] mode = "deep" -> Deep
                      [] OTHER -> Iterations,
     decides    |-> tier # "compact" \/ mode = "deep",
     fansOut    |-> tier # "compact"]

Budgets == {BudgetFor(tier, mode) : tier \in Tiers, mode \in Modes}

Init ==
    /\ pc = "idle" /\ late = FALSE /\ iteration = 0
    /\ budget \in Budgets
    /\ code = None /\ error = FALSE /\ retry = 0 /\ blocked = FALSE
    /\ fromCache = FALSE /\ failed = None
    /\ last = "none" /\ best = None
    /\ cache = None /\ trajectory = <<None, None>>
    /\ ended = "none" /\ fails = {} /\ recovered = {} /\ ran = {}

(***************************************************************************)
(* run and _orient.                                                        *)
(***************************************************************************)

\* run begins with a fresh RunState; an approved plan or search skips _orient.
Starts(b, where) ==
    /\ pc = "idle"
    /\ pc' = where
    /\ budget' = b
    /\ late' = FALSE /\ iteration' = 0
    /\ code' = None /\ error' = FALSE /\ retry' = 0 /\ blocked' = FALSE
    /\ fromCache' = FALSE /\ failed' = None
    /\ last' = "none" /\ best' = None
    /\ ended' = "none" /\ fails' = {} /\ recovered' = {} /\ ran' = {}
    /\ UNCHANGED learntVars

\* The cache knows the question.
FindsCached ==
    /\ pc = "orient"
    /\ cache # None
    /\ code' = cache
    /\ fromCache' = TRUE
    /\ pc' = "loop"
    /\ UNCHANGED <<budget, late, iteration, error, retry, blocked, failed>>
    /\ UNCHANGED <<stepVars, learntVars, historyVars>>

\* It does not: the question is simple, or a plan is made; the turn may pause
\* for the approval of the plan or of a search, which ends it.
Plans(where) ==
    /\ pc = "orient"
    /\ cache = None
    /\ pc' = where
    /\ UNCHANGED <<budget, late, iteration, runVars, stepVars, learntVars, historyVars>>

\* AGENT_TURN_TIMEOUT has passed.
RunsLate ==
    /\ pc # "idle" /\ ~late
    /\ late' = TRUE
    /\ UNCHANGED <<pc, budget, iteration, runVars, stepVars, learntVars, historyVars>>

(***************************************************************************)
(* _investigate and _decide.                                               *)
(***************************************************************************)

\* The loop head lets another iteration begin.
MayIterate == iteration < budget.iterations /\ ~(iteration > 0 /\ late)

\* _decide_deterministically.
Deterministic == IF last = "useful" THEN "answer" ELSE "code"

\* What _decide may come to in the iteration that begins.  An unparseable
\* answer and an unavailable manager choose what a model may choose anyway.
Decisions ==
    IF iteration = 0 THEN {"code"}
    ELSE IF fromCache /\ ~error THEN {"answer"}
    ELSE IF ~budget.decides THEN {Deterministic}
    ELSE IF iteration + 1 = budget.iterations THEN {"answer"}
    ELSE {"code", "look", "answer"} \cup (IF budget.fansOut THEN {"parallel"} ELSE {})

\* The loop is over: no iteration left, no time left, or the decision to answer.
\* Whatever it produced is what the answer is built from.
StopsLooping ==
    /\ pc = "loop"
    /\ \/ ~MayIterate /\ UNCHANGED iteration
       \/ MayIterate /\ "answer" \in Decisions /\ iteration' = iteration + 1
    /\ code' = IF best # None THEN best ELSE code
    /\ pc' = "report"
    /\ UNCHANGED <<budget, late, error, retry, blocked, fromCache, failed>>
    /\ UNCHANGED <<stepVars, learntVars, historyVars>>

\* A step that runs no code.
Looks(outcomes) ==
    /\ pc = "loop" /\ MayIterate /\ "look" \in Decisions
    /\ iteration' = iteration + 1
    /\ last' \in outcomes
    /\ UNCHANGED <<pc, budget, late, runVars, best, learntVars, historyVars>>

\* The data's shape always has something to say.
Inspects == Looks({"useful"})

\* Neither a document nor a skill may match: a failed step.
Consults == Looks({"useful", "failed"})

\* No step at all when the manager is unavailable or has no other plan.
Reflects == Looks({"useful", last})

(***************************************************************************)
(* _act_parallel.                                                          *)
(***************************************************************************)

\* The branches are folded back: program c is that of the last branch that
\* succeeded, None if none did; the last branch recorded may have failed, and
\* when every branch timed out none is recorded.
FoldsBack(c) ==
    /\ pc = "loop" /\ MayIterate /\ "parallel" \in Decisions
    /\ iteration' = iteration + 1
    /\ last' \in IF c = None THEN {"failed", last} ELSE {"useful", "failed"}
    /\ best' = IF c = None THEN best ELSE c
    /\ ran' = ran \cup ({c} \ {None})
    /\ recovered' = recovered \cup
           (IF ended = "ok" THEN fails \X ({c} \ {None}) ELSE {})
    /\ UNCHANGED <<pc, budget, late, runVars, learntVars, ended, fails>>

(***************************************************************************)
(* _act_code.                                                              *)
(***************************************************************************)

\* Mutant of BeginsCode: the retries of the previous code action are kept.
BeginsCodeStale ==
    /\ pc = "loop" /\ MayIterate /\ Decisions \cap {"code", "parallel"} # {}
    /\ iteration' = iteration + 1
    /\ error' = FALSE
    /\ ended' = "none" /\ fails' = {}
    /\ pc' = "generate"
    /\ UNCHANGED <<budget, late, code, retry, blocked, fromCache, failed, stepVars, learntVars, recovered, ran>>

\* A code action begins; a fan-out without two subgoals is one too.
BeginsCode ==
    /\ pc = "loop" /\ MayIterate /\ Decisions \cap {"code", "parallel"} # {}
    /\ iteration' = iteration + 1
    /\ error' = FALSE /\ retry' = 0
    /\ ended' = "none" /\ fails' = {}
    /\ pc' = "generate"
    /\ UNCHANGED <<budget, late, code, blocked, fromCache, failed, stepVars, learntVars, recovered, ran>>

\* _generate: cached code is reused until it has failed.
Reuses == fromCache /\ code # None /\ ~error

Writes(c) ==
    /\ pc = "generate"
    /\ IF Reuses THEN c = code ELSE c \in Codes
    /\ code' = c
    /\ pc' = "install"
    /\ UNCHANGED <<budget, late, iteration, error, retry, blocked, fromCache, failed>>
    /\ UNCHANGED <<stepVars, learntVars, historyVars>>

\* The worker returned no code: a failed step.
WritesNothing ==
    /\ pc = "generate"
    /\ ~Reuses
    /\ code' = None /\ error' = TRUE
    /\ last' = "failed"
    /\ ended' = "failed"
    /\ pc' = "loop"
    /\ UNCHANGED <<budget, late, iteration, retry, blocked, fromCache, failed, best, learntVars, fails, recovered, ran>>

\* _permit_install: nothing is missing, or it may be installed.
InstallsPermitted ==
    /\ pc = "install"
    /\ pc' = "execute"
    /\ UNCHANGED <<budget, late, iteration, runVars, stepVars, learntVars, historyVars>>

\* It is declined: a failed step, but no error.
InstallsDeclined ==
    /\ pc = "install"
    /\ last' = "failed"
    /\ ended' = "declined"
    /\ pc' = "loop"
    /\ UNCHANGED <<budget, late, iteration, runVars, best, learntVars, fails, recovered, ran>>

\* _execute, after _permit_paths and again if that widened the roots: the
\* program runs, with or without output.
Succeeds ==
    /\ pc = "execute"
    /\ error' = FALSE
    /\ last' \in {"useful", "blank"}
    /\ best' = code
    /\ ended' = "ok"
    /\ ran' = ran \cup {code}
    /\ recovered' = recovered \cup (fails \X {code})
    /\ pc' = "loop"
    /\ UNCHANGED <<budget, late, iteration, code, retry, blocked, fromCache, failed, learntVars, fails>>

\* Mutant of GoesWrong: the attempts are not counted.
GoesWrongUncounted ==
    /\ pc = "execute"
    /\ failed' = code /\ error' = TRUE /\ fromCache' = FALSE
    /\ retry' = 1
    /\ fails' = fails \cup {code}
    /\ IF retry' > MaxRetries
       THEN pc' = "loop" /\ last' = "failed" /\ ended' = "failed"
       ELSE pc' = "generate" /\ UNCHANGED <<last, ended>>
    /\ UNCHANGED <<budget, late, iteration, code, blocked, best, learntVars, recovered, ran>>

\* It fails: another attempt, until the corrections are exhausted.
GoesWrong ==
    /\ pc = "execute"
    /\ failed' = code /\ error' = TRUE /\ fromCache' = FALSE
    /\ retry' = retry + 1
    /\ fails' = fails \cup {code}
    /\ IF retry' > MaxRetries
       THEN pc' = "loop" /\ last' = "failed" /\ ended' = "failed"
       ELSE pc' = "generate" /\ UNCHANGED <<last, ended>>
    /\ UNCHANGED <<budget, late, iteration, code, blocked, best, learntVars, recovered, ran>>

\* The guard blocks it: the turn is finalized as it stands.
IsBlocked ==
    /\ pc = "execute"
    /\ blocked' = TRUE
    /\ pc' = "finalize"
    /\ UNCHANGED <<budget, late, iteration, code, error, retry, fromCache, failed>>
    /\ UNCHANGED <<stepVars, learntVars, historyVars>>

(***************************************************************************)
(* The end of a turn.                                                      *)
(***************************************************************************)

\* One part of the report: it adds warnings or the answer's text, and leaves
\* everything the turn learns from alone.
Reports(part, next) ==
    /\ pc = part
    /\ pc' = next
    /\ UNCHANGED <<budget, late, iteration, runVars, stepVars, learntVars, historyVars>>

\* _verify: another program recomputes the result, if it may, runs and agrees or
\* not; whatever it shows becomes a warning only.
Verifies == Reports("report", "review")

\* _review: the council and the chart's description, given up after a time.
Reviews == Reports("review", "answer")

\* _answer, with _check_grounding.
Answers == Reports("answer", "finalize")

\* Mutant of Learnt: the error is not looked at.
LearntAnyway == code # None /\ ~blocked

\* Whether _finalize has something to store.
Learnt == code # None /\ ~error /\ ~blocked

\* _finalize.  A store that fails is logged and skipped.
Finalizes ==
    /\ pc = "finalize"
    /\ cache' \in {cache} \cup (IF Learnt THEN {code} ELSE {})
    /\ trajectory' \in {trajectory} \cup
           (IF Learnt /\ retry > 0 /\ failed # None THEN {<<failed, code>>} ELSE {})
    /\ pc' = "idle"
    /\ UNCHANGED <<budget, late, iteration, runVars, stepVars, historyVars>>

\* A model that is not available, a refusal of the data mode, any exception, or
\* the cancellation of the turn: it ends and nothing is stored.
Aborts ==
    /\ pc # "idle"
    /\ pc' = "idle"
    /\ UNCHANGED <<budget, late, iteration, runVars, stepVars, learntVars, historyVars>>

TurnNext ==
    \/ FindsCached
    \/ \E where \in {"loop", "idle"} : Plans(where)
    \/ StopsLooping
    \/ Inspects \/ Consults \/ Reflects
    \/ \E c \in Codes \cup {None} : FoldsBack(c)
    \/ BeginsCode
    \/ \E c \in Codes : Writes(c)
    \/ WritesNothing
    \/ InstallsPermitted
    \/ InstallsDeclined
    \/ Succeeds
    \/ GoesWrong
    \/ IsBlocked
    \/ Verifies \/ Reviews \/ Answers
    \/ Finalizes
    \/ Aborts

Next ==
    \/ \E b \in Budgets, where \in {"orient", "loop"} : Starts(b, where)
    \/ RunsLate
    \/ TurnNext

\* A turn goes on: model calls and cells have timeouts, and questions expire.
Spec == Init /\ [][Next]_vars /\ WF_vars(TurnNext)

(***************************************************************************)
(* Properties.                                                             *)
(***************************************************************************)

\* Type invariant of the turn, of what it learns and of the history.
TypeOK ==
    /\ pc \in {"idle", "orient", "loop", "generate", "install", "execute",
              "report", "review", "answer", "finalize"}
    /\ budget \in Budgets
    /\ late \in BOOLEAN
    /\ iteration \in 0..budget.iterations
    /\ code \in Codes \cup {None}
    /\ error \in BOOLEAN /\ blocked \in BOOLEAN /\ fromCache \in BOOLEAN
    /\ retry \in 0..(MaxRetries + 1)
    /\ failed \in Codes \cup {None}
    /\ last \in {"none", "useful", "blank", "failed"}
    /\ best \in Codes \cup {None}
    /\ cache \in Codes \cup {None}
    /\ trajectory \in Codes \X Codes \cup {<<None, None>>}
    /\ ended \in {"none", "ok", "declined", "failed"}
    /\ fails \subseteq Codes
    /\ recovered \subseteq Codes \X Codes
    /\ ran \subseteq Codes

\* A turn whose last code action failed, or that was blocked, teaches the system
\* nothing, whatever looks, fan-outs and declined installs came after it: the
\* error of a failed action is never lost before _finalize reads it.
FailureTeachesNothing ==
    [][cache' # cache \/ trajectory' # trajectory
       => /\ ~blocked
          /\ ended = "ok" \/ (ended = "declined" /\ fails = {})]_vars

\* A stored trajectory is a recovery: its first program failed in a code action
\* that then succeeded, and its second ran after that.  Stale retries or a
\* failure of an earlier action would teach a correction of something else.
TrajectoriesAreRecoveries ==
    [][trajectory' # trajectory => trajectory' \in recovered]_vars

\* Every turn comes to an end, however the models decide and the runs go.
EveryTurnEnds == pc # "idle" ~> pc = "idle"

\* orchestrator.py:662, "Exact/semantic cache: a verified solution for this
\* exact question": what enters the cache has run without an error.
CachedHasRun == [][cache' # cache => cache' \in ran]_vars
=============================================================================

----------------------------- MODULE TurnProofs -----------------------------
(***************************************************************************)
(* What is proved of a turn: of its loop (TurnLoop), and of the daemon its *)
(* cells run in and the client that calls it (ExecutionDaemon).            *)
(***************************************************************************)
EXTENDS TurnLoop, ExecutionDaemon, SequenceTheorems, TLAPS

-----------------------------------------------------------------------------
(***************************************************************************)
(* What a turn may learn, for every set of programs, every budget and      *)
(* every number of corrections.                                            *)
(*                                                                         *)
(* Inv relates state.error, state.retry_count and state.failed_code, which *)
(* _finalize reads, to what really happened in the last code action: while *)
(* it runs (Acting), and from its end until the turn is over (Acted).      *)
(***************************************************************************)

\* What the counters say of the failures of the current code action.
Counted ==
    /\ retry > 0 <=> fails # {}
    /\ fails # {} => failed \in fails

\* A code action is under way.
Acting ==
    pc \in {"generate", "install", "execute"} =>
        /\ iteration > 0
        /\ ended = "none"
        /\ error <=> fails # {}
        /\ retry <= MaxRetries
        /\ pc # "generate" => code \in Codes

\* No code action has begun yet.
Fresh ==
    pc = "orient" \/ (pc = "loop" /\ iteration = 0) =>
        iteration = 0 /\ ended = "none" /\ fails = {}

\* The last code action is over.
Acted ==
    (pc = "loop" /\ iteration > 0) \/ pc \in {"report", "review", "answer"} \/ (pc = "finalize" /\ ~blocked) =>
        /\ ended # "none"
        /\ ended = "failed" => error
        /\ ended = "declined" => (error <=> fails # {})
        /\ ended = "ok" => best # None /\ fails \X {best} \subseteq recovered
        /\ pc # "loop" /\ ended = "ok" => code = best

Inv == TypeOK /\ Counted /\ Acting /\ Fresh /\ Acted

\* Every budget has at least one iteration.
LEMMA BudgetType == Budgets \subseteq [iterations : Nat \ {0}, decides : BOOLEAN, fansOut : BOOLEAN]
<1> SUFFICES ASSUME NEW tier \in Tiers, NEW mode \in Modes
             PROVE  BudgetFor(tier, mode) \in [iterations : Nat \ {0}, decides : BOOLEAN, fansOut : BOOLEAN]
  BY DEF Budgets
<1>1. CASE mode = "fast"
  BY <1>1 DEF BudgetFor
<1>2. CASE mode = "deep"
  BY <1>2, LoopAssumption DEF BudgetFor
<1>3. CASE mode = "auto"
  BY <1>3, LoopAssumption DEF BudgetFor
<1> QED
  BY <1>1, <1>2, <1>3 DEF Modes

\* The initial states satisfy the inductive invariant.
LEMMA InitInv == Init => Inv
<1> SUFFICES ASSUME Init
             PROVE  Inv
  OBVIOUS
<1>1. budget.iterations \in Nat \ {0}
  BY BudgetType DEF Init
<1>2. TypeOK
  <2>1. retry \in 0..(MaxRetries + 1) /\ iteration \in 0..budget.iterations
    BY <1>1, LoopAssumption DEF Init
  <2> QED
    BY <2>1 DEF Init, TypeOK
<1>3. Counted /\ Acting /\ Fresh /\ Acted
  BY DEF Init, Counted, Acting, Fresh, Acted
<1> QED
  BY <1>2, <1>3 DEF Inv

\* Every step preserves it.
LEMMA NextInv == Inv /\ [Next]_vars => Inv'
<1> SUFFICES ASSUME Inv, [Next]_vars
             PROVE  Inv'
  OBVIOUS
<1> USE LoopAssumption DEF Inv, TypeOK, Counted, Acting, Fresh, Acted, controlVars, runVars,
        stepVars, learntVars, historyVars
<1>0. budget.iterations \in Nat \ {0}
  BY BudgetType
<1>1. ASSUME NEW b \in Budgets, NEW where \in {"orient", "loop"}, Starts(b, where)
      PROVE  Inv'
  <2>0. b.iterations \in Nat \ {0}
    BY BudgetType
  <2>1. TypeOK'
    <3>1. retry' \in 0..(MaxRetries + 1) /\ iteration' \in 0..budget'.iterations
      BY <2>0, <1>1 DEF Starts
    <3> QED
      BY <3>1, <1>1 DEF Starts
  <2>2. Counted'
    BY <2>0, <1>1 DEF Starts
  <2>3. Acting'
    BY <2>0, <1>1 DEF Starts
  <2>4. Fresh'
    BY <2>0, <1>1 DEF Starts
  <2>5. Acted'
    BY <2>0, <1>1 DEF Starts
  <2> QED
    BY <2>1, <2>2, <2>3, <2>4, <2>5
<1>2. CASE RunsLate
  BY <1>0, <1>2 DEF RunsLate
<1>3. CASE FindsCached
  BY <1>0, <1>3 DEF FindsCached
<1>4. ASSUME NEW where \in {"loop", "idle"}, Plans(where)
      PROVE  Inv'
  BY <1>0, <1>4 DEF Plans
<1>5. CASE StopsLooping
  <2>1. TypeOK'
    BY <1>0, <1>5 DEF StopsLooping, MayIterate, Decisions
  <2>2. Counted'
    BY <1>0, <1>5 DEF StopsLooping, MayIterate, Decisions
  <2>3. Acting'
    BY <1>0, <1>5 DEF StopsLooping, MayIterate, Decisions
  <2>4. Fresh'
    BY <1>0, <1>5 DEF StopsLooping, MayIterate, Decisions
  <2>5. Acted'
    BY <1>0, <1>5 DEF StopsLooping, MayIterate, Decisions
  <2> QED
    BY <2>1, <2>2, <2>3, <2>4, <2>5
<1>6. CASE Inspects \/ Consults \/ Reflects
  <2>1. PICK outcomes \in SUBSET {"none", "useful", "blank", "failed"} : Looks(outcomes)
    BY <1>0, <1>6 DEF Inspects, Consults, Reflects
  <2> QED
    BY <1>0, <2>1 DEF Looks, MayIterate, Decisions
<1>7. ASSUME NEW c \in Codes \cup {None}, FoldsBack(c)
      PROVE  Inv'
  BY <1>0, <1>7 DEF FoldsBack, MayIterate, Decisions
<1>8. CASE BeginsCode
  <2>1. TypeOK'
    <3>1. retry' \in 0..(MaxRetries + 1) /\ iteration' \in 0..budget'.iterations
      BY <1>0, <1>8 DEF BeginsCode, MayIterate
    <3> QED
      BY <3>1, <1>8 DEF BeginsCode
  <2>2. Counted'
    BY <1>0, <1>8 DEF BeginsCode, MayIterate
  <2>3. Acting'
    BY <1>0, <1>8 DEF BeginsCode, MayIterate
  <2>4. Fresh'
    BY <1>0, <1>8 DEF BeginsCode, MayIterate
  <2>5. Acted'
    BY <1>0, <1>8 DEF BeginsCode, MayIterate
  <2> QED
    BY <2>1, <2>2, <2>3, <2>4, <2>5
<1>9. ASSUME NEW c \in Codes, Writes(c)
      PROVE  Inv'
  BY <1>0, <1>9 DEF Writes
<1>10. CASE WritesNothing
  <2>1. TypeOK'
    BY <1>0, <1>10 DEF WritesNothing
  <2>2. Counted'
    BY <1>0, <1>10 DEF WritesNothing
  <2>3. Acting'
    BY <1>0, <1>10 DEF WritesNothing
  <2>4. Fresh'
    BY <1>0, <1>10 DEF WritesNothing
  <2>5. Acted'
    BY <1>0, <1>10 DEF WritesNothing
  <2> QED
    BY <2>1, <2>2, <2>3, <2>4, <2>5
<1>11. CASE InstallsPermitted
  BY <1>0, <1>11 DEF InstallsPermitted
<1>12. CASE InstallsDeclined
  BY <1>0, <1>12 DEF InstallsDeclined
<1>13. CASE Succeeds
  <2>1. TypeOK'
    BY <1>0, <1>13 DEF Succeeds
  <2>2. Counted'
    BY <1>0, <1>13 DEF Succeeds
  <2>3. Acting'
    BY <1>0, <1>13 DEF Succeeds
  <2>4. Fresh'
    BY <1>0, <1>13 DEF Succeeds
  <2>5. Acted'
    BY <1>0, <1>13 DEF Succeeds
  <2> QED
    BY <2>1, <2>2, <2>3, <2>4, <2>5
<1>14. CASE GoesWrong
  <2>1. TypeOK'
    <3>1. retry' \in 0..(MaxRetries + 1) /\ iteration' \in 0..budget'.iterations
      BY <1>0, <1>14 DEF GoesWrong
    <3> QED
      BY <3>1, <1>14 DEF GoesWrong
  <2>2. Counted'
    BY <1>0, <1>14 DEF GoesWrong
  <2>3. Acting'
    BY <1>0, <1>14 DEF GoesWrong
  <2>4. Fresh'
    BY <1>0, <1>14 DEF GoesWrong
  <2>5. Acted'
    BY <1>0, <1>14 DEF GoesWrong
  <2> QED
    BY <2>1, <2>2, <2>3, <2>4, <2>5
<1>15. CASE IsBlocked
  BY <1>0, <1>15 DEF IsBlocked
<1>16. CASE Verifies \/ Reviews \/ Answers
  <2>0. /\ pc \in {"report", "review", "answer"}
        /\ pc' \in {"review", "answer", "finalize"}
        /\ UNCHANGED <<budget, late, iteration, runVars, stepVars, learntVars, historyVars>>
    BY <1>16 DEF Verifies, Reviews, Answers, Reports
  <2>1. TypeOK'
    BY <1>0, <2>0
  <2>2. Counted'
    BY <1>0, <2>0
  <2>3. Acting'
    BY <1>0, <2>0
  <2>4. Fresh'
    BY <1>0, <2>0
  <2>5. Acted'
    BY <1>0, <2>0
  <2> QED
    BY <2>1, <2>2, <2>3, <2>4, <2>5
<1>17. CASE Finalizes
  BY <1>0, <1>17 DEF Finalizes, Learnt
<1>18. CASE Aborts
  BY <1>0, <1>18 DEF Aborts
<1>19. CASE UNCHANGED vars
  BY <1>0, <1>19 DEF vars
<1> QED
  BY <1>1, <1>2, <1>3, <1>4, <1>5, <1>6, <1>7, <1>8, <1>9, <1>10, <1>11, <1>12, <1>13,
     <1>14, <1>15, <1>16, <1>17, <1>18, <1>19 DEF Next, TurnNext

\* Inv holds throughout every behaviour.
THEOREM Invariance == Spec => []Inv
  BY InitInv, NextInv, PTL DEF Spec

\* The state of the turns stays well typed: no turn uses more iterations than
\* its budget or more attempts than MAX_CORRECTION_RETRIES allows.
THEOREM TypeCorrect == Spec => []TypeOK
  BY Invariance, PTL DEF Inv

\* Only _finalize stores anything.
LEMMA OnlyFinalizes == Next => Finalizes \/ UNCHANGED learntVars
  BY Zenon DEF Next, TurnNext, Starts, FindsCached, Plans, RunsLate, StopsLooping, Looks, Inspects, Consults, Reflects, FoldsBack,
         BeginsCode, Writes, WritesNothing, InstallsPermitted, InstallsDeclined, Succeeds,
         GoesWrong, IsBlocked, Reports, Verifies, Reviews, Answers, Aborts

\* What a code action that failed, or a turn that was blocked, left behind is
\* neither cached nor turned into a trajectory, however many models, budgets
\* and corrections there are.
THEOREM LearnsFromSuccess == Spec => FailureTeachesNothing
<1>1. ASSUME Inv, Next, UNCHANGED learntVars => FALSE
      PROVE  ~blocked /\ (ended = "ok" \/ (ended = "declined" /\ fails = {}))
  <2>1. Finalizes
    BY <1>1, OnlyFinalizes
  <2>2. Learnt
    BY <1>1, <2>1 DEF Finalizes, learntVars
  <2> QED
    BY <1>1, <2>1, <2>2 DEF Finalizes, Learnt, Inv, TypeOK, Acted
<1>2. Inv /\ [Next]_vars
      => [cache' # cache \/ trajectory' # trajectory
          => /\ ~blocked
             /\ ended = "ok" \/ (ended = "declined" /\ fails = {})]_vars
  BY <1>1 DEF learntVars
<1> QED
  BY Invariance, <1>2, PTL DEF Spec, FailureTeachesNothing

\* Whatever trajectory is stored is a recovery that took place.
THEOREM RecoveriesOnly == Spec => TrajectoriesAreRecoveries
<1>1. ASSUME Inv, Next, trajectory' # trajectory
      PROVE  trajectory' \in recovered
  <2>1. Finalizes
    BY <1>1, OnlyFinalizes DEF learntVars
  <2>2. Learnt /\ retry > 0 /\ trajectory' = <<failed, code>>
    BY <1>1, <2>1 DEF Finalizes
  <2>3. failed \in fails
    BY <1>1, <2>2 DEF Inv, Counted
  <2>4. ended = "ok" /\ code = best
    BY <1>1, <2>1, <2>2, <2>3 DEF Finalizes, Learnt, Inv, TypeOK, Acted
  <2>5. fails \X {best} \subseteq recovered
    BY <1>1, <2>1, <2>2, <2>4 DEF Finalizes, Learnt, Inv, Acted
  <2> QED
    BY <2>2, <2>3, <2>4, <2>5
<1>2. Inv /\ [Next]_vars => [trajectory' # trajectory => trajectory' \in recovered]_vars
  BY <1>1
<1> QED
  BY Invariance, <1>2, PTL DEF Spec, TrajectoriesAreRecoveries

-----------------------------------------------------------------------------
(***************************************************************************)
(* What ExecutionDaemon promises for every set of requests, however many   *)
(* of them never end, print or time out.                                   *)
(*                                                                         *)
(* Neither invariant is inductive.  That only timed-out requests linger    *)
(* needs to know that nothing else is in the line, and that the line dies  *)
(* with the process; that a reload is fresh needs to know that no version  *)
(* is loaded or wanted before the workspace has it, and what the daemon    *)
(* has loaded when it is about to reply.                                   *)
(***************************************************************************)

\* The daemon serves a request except when it is accepting or dead, and dies
\* with its connections.
LoopAgrees ==
    /\ up <=> daemon # "dead"
    /\ serving = Nobody <=> daemon \in {"accepting", "dead"}
    /\ daemon = "executing" => serving \in Cells
    /\ ~up => backlog = <<>>

\* Whatever is in the line was sent.
LineWasSent == \A n \in DOMAIN Line : call[Line[n]] \in {"sent", "timedout"}

\* Tables are wanted and loaded only once the workspace has them.
VersionsAgree ==
    /\ frames <= disk
    /\ \A c \in Reloads : wanted[c] <= disk
    /\ daemon = "replying" /\ serving \in Reloads => frames >= wanted[serving]

DaemonInv ==
    /\ DaemonTypeOK
    /\ LoopAgrees
    /\ LineWasSent
    /\ OnlyTimedOutLinger
    /\ VersionsAgree
    /\ ReloadIsFresh

\* The line is a sequence of requests; its length and its members.
LEMMA LineShape ==
    ASSUME DaemonTypeOK
    PROVE  /\ Line \in Seq(Calls)
           /\ serving = Nobody => Line = backlog
           /\ serving # Nobody => /\ Len(Line) = Len(backlog) + 1
                                  /\ Line[1] = serving
                                  /\ \A n \in 1 .. Len(backlog) : Line[n + 1] = backlog[n]
  BY DaemonAssumption DEF DaemonTypeOK, Line

\* The initial states satisfy the inductive invariant.
LEMMA DaemonInitInv == DaemonInit => DaemonInv
<1> SUFFICES ASSUME DaemonInit PROVE DaemonInv
  OBVIOUS
<1> USE DaemonAssumption DEF DaemonInit
<1>1. DaemonTypeOK /\ LoopAgrees
  BY EmptySeq DEF DaemonTypeOK, LoopAgrees, Calls
<1>2. VersionsAgree /\ ReloadIsFresh
  BY DEF VersionsAgree, ReloadIsFresh, Calls
<1>3. Line = <<>>
  BY DEF Line
<1> QED
  BY <1>1, <1>2, <1>3 DEF DaemonInv, LineWasSent, OnlyTimedOutLinger

\* Every step keeps the daemon's state well typed.
LEMMA NextType == DaemonTypeOK /\ LoopAgrees /\ [DaemonNext]_daemonVars => DaemonTypeOK'
<1> SUFFICES ASSUME DaemonTypeOK, LoopAgrees, [DaemonNext]_daemonVars
             PROVE  DaemonTypeOK'
  OBVIOUS
<1> USE DaemonAssumption DEF DaemonTypeOK, LoopAgrees, Calls, serverVars
<1>1. ASSUME NEW c \in Cells, CallsCell(c) PROVE DaemonTypeOK'
  BY <1>1 DEF CallsCell
<1>2. ASSUME NEW c \in Reloads, NEW changes \in BOOLEAN, CallsReload(c, changes)
      PROVE  DaemonTypeOK'
  BY <1>2 DEF CallsReload
<1>3. ASSUME NEW c \in Calls, Sends(c) PROVE DaemonTypeOK'
  BY <1>3 DEF Sends
<1>4. ASSUME NEW c \in Calls, Fails(c) PROVE DaemonTypeOK'
  BY <1>4 DEF Fails, Ends
<1>5. ASSUME NEW c \in Calls, TimesOut(c) PROVE DaemonTypeOK'
  BY <1>5 DEF TimesOut, Ends
<1>6. CASE Accepts
  BY <1>6 DEF Accepts
<1>7. CASE Executes \/ CellEnds \/ Loads
  BY <1>7 DEF Executes, CellEnds, Loads
<1>8. CASE Replies
  BY <1>8 DEF Replies, Ends
<1>9. CASE Cancels
  BY <1>9 DEF Cancels
<1>10. CASE Interrupts
  <2>1. CASE UNCHANGED serverVars
    BY <1>10, <2>1 DEF Interrupts
  <2>2. CASE daemon' = "replying" /\ UNCHANGED <<up, serving, backlog, frames>>
    BY <1>10, <2>2 DEF Interrupts
  <2>3. CASE ~up' /\ daemon' = "dead" /\ serving' = Nobody /\ backlog' = <<>> /\ frames' = frames
    BY <1>10, <2>3, EmptySeq DEF Interrupts
  <2> QED
    BY <1>10, <2>1, <2>2, <2>3 DEF Interrupts
<1>11. CASE UNCHANGED daemonVars
  BY <1>11 DEF daemonVars
<1> QED
  BY <1>1, <1>2, <1>3, <1>4, <1>5, <1>6, <1>7, <1>8, <1>9, <1>10, <1>11 DEF DaemonNext, Finished

\* Every step keeps the daemon's place in its loop and what it serves in agreement.
LEMMA NextLoop == DaemonTypeOK /\ LoopAgrees /\ [DaemonNext]_daemonVars => LoopAgrees'
<1> SUFFICES ASSUME DaemonTypeOK, LoopAgrees, [DaemonNext]_daemonVars
             PROVE  LoopAgrees'
  OBVIOUS
<1> USE DaemonAssumption DEF DaemonTypeOK, LoopAgrees, Calls, serverVars
<1>1. CASE \/ \E c \in Cells : CallsCell(c)
           \/ \E c \in Reloads, changes \in BOOLEAN : CallsReload(c, changes)
           \/ \E c \in Calls : Sends(c) \/ Fails(c) \/ TimesOut(c)
  BY <1>1 DEF CallsCell, CallsReload, Sends, Fails, TimesOut
<1>2. CASE Accepts \/ Executes \/ CellEnds \/ Loads \/ Replies
  BY <1>2 DEF Accepts, Executes, CellEnds, Loads, Replies
<1>3. CASE Cancels \/ Interrupts \/ UNCHANGED daemonVars
  BY <1>3 DEF Cancels, Interrupts, daemonVars
<1> QED
  BY <1>1, <1>2, <1>3 DEF DaemonNext, Finished

\* Versions only grow, and what answers a reload was loaded for it.
LEMMA NextVersions ==
    DaemonInv /\ [DaemonNext]_daemonVars => VersionsAgree' /\ ReloadIsFresh'
<1> SUFFICES ASSUME DaemonInv, [DaemonNext]_daemonVars
             PROVE  VersionsAgree' /\ ReloadIsFresh'
  OBVIOUS
<1> USE DaemonAssumption DEF DaemonInv, DaemonTypeOK, LoopAgrees, VersionsAgree, ReloadIsFresh,
                             Calls, serverVars
<1>1. ASSUME NEW c \in Cells, CallsCell(c) PROVE VersionsAgree' /\ ReloadIsFresh'
  BY <1>1 DEF CallsCell
<1>2. ASSUME NEW c \in Reloads, NEW changes \in BOOLEAN, CallsReload(c, changes)
      PROVE  VersionsAgree' /\ ReloadIsFresh'
  <2>1. serving # Nobody => call[serving] \in {"sent", "timedout"}
    <3>1. serving # Nobody => Line[1] = serving /\ 1 \in DOMAIN Line
      BY LineShape DEF DaemonInv
    <3> QED BY <3>1 DEF LineWasSent
  <2> QED BY <1>2, <2>1 DEF CallsReload
<1>3. ASSUME NEW c \in Calls, Sends(c) PROVE VersionsAgree' /\ ReloadIsFresh'
  BY <1>3 DEF Sends
<1>4. ASSUME NEW c \in Calls, Fails(c) \/ TimesOut(c) PROVE VersionsAgree' /\ ReloadIsFresh'
  BY <1>4 DEF Fails, TimesOut, Ends
<1>5. CASE Accepts \/ Executes \/ CellEnds
  BY <1>5 DEF Accepts, Executes, CellEnds
<1>6. CASE Loads
  BY <1>6 DEF Loads
<1>7. CASE Replies
  BY <1>7 DEF Replies, Ends
<1>8. CASE Cancels \/ Interrupts \/ UNCHANGED daemonVars
  BY <1>8 DEF Cancels, Interrupts, daemonVars
<1> QED
  BY <1>1, <1>2, <1>3, <1>4, <1>5, <1>6, <1>7, <1>8 DEF DaemonNext, Finished

\* What a step that leaves the line alone may do to the callers.
LineKept ==
    /\ Line' = Line
    /\ \A c \in Calls : \/ call'[c] = call[c]
                        \/ call[c] = "unused" /\ call'[c] = "waiting"
                        \/ call[c] = "sent" /\ call'[c] = "timedout"

\* Nothing new lingers in a line that is left alone.
LEMMA KeepsLine ==
    ASSUME DaemonInv, LineKept, up' = up
    PROVE  LineWasSent' /\ OnlyTimedOutLinger'
<1> USE DEF DaemonInv, LineKept
<1>1. \A n \in DOMAIN Line : Line[n] \in Calls
  BY LineShape
<1>2. LineWasSent'
  BY <1>1 DEF LineWasSent
<1>3. OnlyTimedOutLinger'
  BY <1>1 DEF OnlyTimedOutLinger, LineWasSent
<1> QED
  BY <1>2, <1>3

\* A line that is empty holds nothing of anyone.
LEMMA EmptyLine ==
    ASSUME Line' = <<>>, ~up'
    PROVE  LineWasSent' /\ OnlyTimedOutLinger'
  BY DEF LineWasSent, OnlyTimedOutLinger

\* Every step keeps what waits in the backlog to what callers have sent.
LEMMA NextLine ==
    DaemonInv /\ [DaemonNext]_daemonVars => LineWasSent' /\ OnlyTimedOutLinger'
<1> SUFFICES ASSUME DaemonInv, [DaemonNext]_daemonVars
             PROVE  LineWasSent' /\ OnlyTimedOutLinger'
  OBVIOUS
<1> USE DaemonAssumption
<1>1. ASSUME NEW c \in Cells, CallsCell(c) PROVE LineWasSent' /\ OnlyTimedOutLinger'
  <2>1. LineKept /\ up' = up
    BY <1>1 DEF CallsCell, LineKept, Line, serverVars, DaemonInv, DaemonTypeOK, Calls
  <2> QED BY <2>1, KeepsLine
<1>2. ASSUME NEW c \in Reloads, NEW changes \in BOOLEAN, CallsReload(c, changes)
      PROVE  LineWasSent' /\ OnlyTimedOutLinger'
  <2>1. LineKept /\ up' = up
    BY <1>2 DEF CallsReload, LineKept, Line, serverVars, DaemonInv, DaemonTypeOK, Calls
  <2> QED BY <2>1, KeepsLine
<1>3. ASSUME NEW c \in Calls, TimesOut(c) PROVE LineWasSent' /\ OnlyTimedOutLinger'
  <2>1. LineKept /\ up' = up
    BY <1>3 DEF TimesOut, Ends, LineKept, Line, serverVars, DaemonInv, DaemonTypeOK
  <2> QED BY <2>1, KeepsLine
<1>4. CASE Executes \/ CellEnds \/ Loads \/ Cancels \/ UNCHANGED daemonVars
  <2>1. LineKept /\ up' = up
    BY <1>4 DEF Executes, CellEnds, Loads, Cancels, daemonVars, LineKept, Line, serverVars
  <2> QED BY <2>1, KeepsLine
<1>5. ASSUME NEW c \in Calls, Fails(c) PROVE LineWasSent' /\ OnlyTimedOutLinger'
  <2>1. Line' = <<>> /\ ~up'
    BY <1>5 DEF Fails, Line, serverVars, DaemonInv, LoopAgrees
  <2> QED BY <2>1, EmptyLine
<1>6. CASE Interrupts
  <2>1. CASE ~up
    <3>1. Line' = <<>> /\ ~up'
      BY <1>6, <2>1 DEF Interrupts, Line, serverVars, DaemonInv, LoopAgrees
    <3> QED BY <3>1, EmptyLine
  <2>2. CASE up /\ daemon = "executing"
    <3>1. LineKept /\ up' = up
      BY <1>6, <2>2 DEF Interrupts, LineKept, Line, serverVars
    <3> QED BY <3>1, KeepsLine
  <2>3. CASE up /\ daemon # "executing"
    <3>1. Line' = <<>> /\ ~up'
      BY <1>6, <2>3 DEF Interrupts, Line
    <3> QED BY <3>1, EmptyLine
  <2> QED BY <2>1, <2>2, <2>3
<1>7. CASE Accepts
  <2>1. serving = Nobody /\ backlog \in Seq(Calls) /\ backlog # <<>>
    BY <1>7 DEF Accepts, DaemonInv, DaemonTypeOK, LoopAgrees
  <2>2. Head(backlog) # Nobody /\ backlog = <<Head(backlog)>> \o Tail(backlog)
    BY <2>1 DEF Calls
  <2>3. LineKept /\ up' = up
    BY <1>7, <2>1, <2>2 DEF Accepts, LineKept, Line
  <2> QED BY <2>3, KeepsLine
\* Nobody held the lock, so whoever is still in the line has been given up.
<1>8. ASSUME NEW c \in Calls, Sends(c) PROVE LineWasSent' /\ OnlyTimedOutLinger'
  <2> USE DEF DaemonInv, DaemonTypeOK
  <2>1. Line \in Seq(Calls) /\ Line' = Append(Line, c)
    BY <1>8, LineShape, ConcatProperties DEF Sends, Line, Calls
  <2>2. \A n \in DOMAIN Line : call[Line[n]] = "timedout" /\ Line[n] # c /\ Line[n] \in Calls
    BY <1>8, <2>1 DEF Sends, LineWasSent, Calls
  <2>3. \A d \in Calls : call'[d] = "sent" <=> d = c
    BY <1>8 DEF Sends, Calls
  <2>4. /\ Len(Line') = Len(Line) + 1 /\ Line'[Len(Line')] = c /\ Line' # <<>>
        /\ DOMAIN Line' = 1 .. Len(Line) + 1
        /\ \A n \in 1 .. Len(Line) : Line'[n] = Line[n]
    BY <2>1
  <2>5. \A d \in Calls : d # c => call'[d] = call[d]
    BY <1>8 DEF Sends
  <2>6. \A n \in 1 .. Len(Line) : call'[Line'[n]] = "timedout"
    BY <2>1, <2>2, <2>4, <2>5
  <2>7. LineWasSent'
    BY <2>1, <2>3, <2>4, <2>6 DEF LineWasSent
  <2>8. OnlyTimedOutLinger'
    BY <2>1, <2>3, <2>4, <2>6 DEF OnlyTimedOutLinger
  <2> QED BY <2>7, <2>8
<1>9. CASE Replies
  <2> USE DEF DaemonInv, DaemonTypeOK, LoopAgrees
  <2>1. /\ serving \in Calls /\ backlog \in Seq(Calls) /\ Line' = backlog
        /\ Line[1] = serving /\ Len(Line) = Len(backlog) + 1 /\ Line \in Seq(Calls)
        /\ \A n \in 1 .. Len(backlog) : Line[n + 1] = backlog[n]
    BY <1>9, LineShape DEF Replies, Line
  <2>2. \A d \in Calls : \/ call'[d] = call[d]
                         \/ d = serving /\ call[d] = "sent" /\ call'[d] = "done"
    BY <1>9 DEF Replies, Ends
  <2>3. CASE call[serving] = "sent"
    <3>1. Len(Line) = 1
      BY <2>1, <2>3 DEF OnlyTimedOutLinger
    <3>2. Line' = <<>> /\ \A d \in Calls : call'[d] # "sent"
      BY <1>9, <2>1, <2>3, <3>1 DEF Replies, Ends
    <3> QED BY <3>2 DEF LineWasSent, OnlyTimedOutLinger
  <2>4. CASE call[serving] # "sent"
    <3>1. call' = call /\ up' = up
      BY <1>9, <2>4 DEF Replies
    <3>2. /\ DOMAIN Line' = 1 .. Len(backlog) /\ Len(Line') = Len(backlog)
          /\ \A n \in DOMAIN Line' : n + 1 \in DOMAIN Line /\ Line'[n] = Line[n + 1]
      <4>1. Len(backlog) \in Nat /\ DOMAIN backlog = 1 .. Len(backlog)
        BY <2>1
      <4>2. DOMAIN Line = 1 .. Len(backlog) + 1
        BY <2>1
      <4>3. Line' = backlog
        BY <2>1
      <4>4. \A n \in 1 .. Len(backlog) : n + 1 \in 1 .. Len(backlog) + 1
        BY <4>1
      <4> QED BY <2>1, <4>1, <4>2, <4>3, <4>4
    <3>3. LineWasSent'
      BY <3>1, <3>2 DEF LineWasSent
    <3>4. \A n \in DOMAIN Line' : call'[Line'[n]] = "timedout" \/ n = Len(Line')
      BY <2>1, <3>1, <3>2 DEF OnlyTimedOutLinger
    <3>5. ASSUME NEW c \in Calls, call'[c] = "sent", up'
          PROVE  Line' # <<>> /\ Line'[Len(Line')] = c
      <4>1. Line[Len(Line)] = c
        BY <3>1, <3>5 DEF OnlyTimedOutLinger
      <4>2. Len(Line) # 1
        BY <2>1, <2>4, <3>1, <3>5, <4>1
      <4>3. Len(backlog) \in Nat /\ Len(backlog) # 0
        BY <2>1, <4>2
      <4>4. Len(Line') \in DOMAIN Line'
        BY <3>2, <4>3
      <4> QED BY <2>1, <3>2, <4>1, <4>3, <4>4
    <3>6. OnlyTimedOutLinger'
      BY <3>4, <3>5 DEF OnlyTimedOutLinger
    <3> QED BY <3>3, <3>6
  <2> QED BY <2>3, <2>4
<1> QED
  BY <1>1, <1>2, <1>3, <1>4, <1>5, <1>6, <1>7, <1>8, <1>9 DEF DaemonNext, Finished

\* The inductive invariant holds throughout every behaviour.
THEOREM DaemonInvariance == DaemonSpec => []DaemonInv
<1>1. DaemonInv /\ [DaemonNext]_daemonVars => DaemonInv'
  BY NextType, NextLoop, NextLine, NextVersions DEF DaemonInv
<1>2. DaemonSpec => DaemonInit /\ [][DaemonNext]_daemonVars
  BY DEF DaemonSpec
<1> QED
  BY <1>1, <1>2, DaemonInitInv, PTL

\* The daemon's and its callers' state stays well typed, the lock held by the
\* one request that is on its way.
THEOREM DaemonTypeCorrect == DaemonSpec => []DaemonTypeOK
  BY DaemonInvariance, PTL DEF DaemonInv

\* No caller's request is served behind one whose caller still waits.
THEOREM NobodyElseLingers == DaemonSpec => []OnlyTimedOutLinger
  BY DaemonInvariance, PTL DEF DaemonInv

\* A reload that answered has loaded what the workspace held when it was asked.
THEOREM ReloadsAreFresh == DaemonSpec => []ReloadIsFresh
  BY DaemonInvariance, PTL DEF DaemonInv
=============================================================================

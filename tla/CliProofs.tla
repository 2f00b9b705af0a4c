------------------------------ MODULE CliProofs ------------------------------
(***************************************************************************)
(* What is proved of the CLI: of wizard init and wizard update (Setup), of *)
(* the log of a child and its follower (DaemonLogs), and of the supervisor *)
(* between wizard start and wizard stop (Supervisor, WizardCLI).           *)
(***************************************************************************)
EXTENDS WizardCLI, DaemonLogs, Setup, TLAPS

-----------------------------------------------------------------------------
(***************************************************************************)
(* wizard init and wizard update, for every number of versions and every   *)
(* set of ports.                                                           *)
(*                                                                         *)
(* That a command which reports success is complete is not inductive: the  *)
(* invariant says what has been installed by the place a command has come  *)
(* to, whatever the commands before it left behind.                        *)
(***************************************************************************)

PlacesOfACommand == {"env", "manager", "worker", "venv", "pip", "ci", "build", "pull manager",
                     "pull worker", "end", "git", "compare", "restart"}
Commands ==
    [at : {"idle"} \cup PlacesOfACommand,
     name : {"none", "init", "update"}, pull : BOOLEAN, named : BOOLEAN, ok : BOOLEAN,
     restart : BOOLEAN]

\* Which command may be at which place.
CommandAgrees ==
    /\ cmd \in Commands /\ done \in Commands
    /\ cmd.at = "idle" <=> cmd = NoCmd
    /\ cmd # NoCmd => done = NoCmd
    /\ cmd # NoCmd => cmd.name \in {"init", "update"}
    /\ cmd.at \in {"env", "manager", "worker", "pull manager", "pull worker"} => cmd.name = "init"
    /\ cmd.at \in {"manager", "worker"} => Applied
    /\ cmd.at \in {"git", "compare", "restart"} => cmd.name = "update"
    /\ cmd.name = "init" => ~cmd.restart
    /\ cmd.at = "end" => ~cmd.restart

\* What a command that has come so far has installed.
ProgressAgrees ==
    LET Past(places) == cmd.at \in places \cup {"pull manager", "pull worker", "compare",
                                                "restart", "end"}
    IN  /\ Past({"ci", "build"}) => venv = "made" /\ deps = source
        /\ Past({"build"}) => modules = source
        /\ Past({}) => build = source
        /\ cmd.name = "init" /\ cmd.at # "env" => envFile.exists

SetupInv == SetupTypeOK /\ CommandAgrees /\ ProgressAgrees /\ DoneIsComplete

\* A command that has not begun, or has ended, leaves nothing to say of its progress.
LEMMA SetupInitInv == SetupInit => SetupInv
<1> SUFFICES ASSUME SetupInit PROVE SetupInv
  OBVIOUS
<1>1. SetupTypeOK
  BY SetupAssumption DEF SetupInit, SetupTypeOK, NotRunning, NoEnvFile, Small, Mine
<1>2. CommandAgrees /\ ProgressAgrees /\ DoneIsComplete
  BY DEF SetupInit, CommandAgrees, ProgressAgrees, DoneIsComplete, Commands, NoCmd
<1> QED BY <1>1, <1>2 DEF SetupInv

\* A command that goes on is the same command at another place.
LEMMA CommandMoves ==
    ASSUME CommandAgrees, cmd.at # "idle", NEW at \in PlacesOfACommand, NEW ok \in BOOLEAN,
           cmd' = [cmd EXCEPT !.at = at, !.ok = ok] \/ cmd' = [cmd EXCEPT !.at = at]
    PROVE  /\ cmd' \in Commands /\ cmd'.at = at /\ cmd'.name = cmd.name
           /\ cmd'.restart = cmd.restart /\ cmd'.named = cmd.named
           /\ cmd # NoCmd /\ cmd' # NoCmd /\ done = NoCmd
<1>1. /\ cmd' \in Commands /\ cmd'.at = at /\ cmd'.name = cmd.name
      /\ cmd'.restart = cmd.restart /\ cmd'.named = cmd.named
  BY DEF CommandAgrees, Commands, PlacesOfACommand
<1>2. cmd # NoCmd /\ done = NoCmd
  BY DEF CommandAgrees, NoCmd
<1>3. cmd' # NoCmd
  <2>1. NoCmd.at = "idle"
    BY DEF NoCmd
  <2>2. at # "idle"
    BY DEF PlacesOfACommand
  <2> QED BY <1>1, <2>1, <2>2
<1> QED BY <1>1, <1>2, <1>3

\* A command that is over, or has not begun, has nothing to answer for.
LEMMA CommandEnds ==
    ASSUME cmd' = NoCmd, done' = NoCmd
    PROVE  CommandAgrees' /\ ProgressAgrees' /\ DoneIsComplete'
  BY DEF CommandAgrees, ProgressAgrees, DoneIsComplete, Commands, PlacesOfACommand, NoCmd

\* A step of init or update, from one place to the next.
LEMMA SetupStepsKeepInv ==
    ASSUME SetupInv, SetupNext
    PROVE  SetupInv'
<1> USE SetupAssumption DEF SetupInv, Small, Mine
<1> DEFINE Says == /\ CommandAgrees' /\ ProgressAgrees' /\ DoneIsComplete'
<1>1. ASSUME NEW pull \in BOOLEAN, NEW named \in BOOLEAN, InitBegins(pull, named)
      PROVE  SetupInv'
  <2>1. /\ UNCHANGED <<installVars, aroundVars>> /\ done' = NoCmd /\ cmd = NoCmd
        /\ \/ cmd' = NoCmd
           \/ cmd' = [at |-> "env", name |-> "init", pull |-> pull, named |-> named,
                      ok |-> TRUE, restart |-> FALSE]
    BY <1>1 DEF InitBegins, Begins, NoCmd
  <2>2. SetupTypeOK'
    BY <2>1 DEF SetupTypeOK, installVars, aroundVars
  <2>3. CASE cmd' # NoCmd
    <3>1. cmd' = [at |-> "env", name |-> "init", pull |-> pull, named |-> named,
                  ok |-> TRUE, restart |-> FALSE]
      BY <2>1, <2>3
    <3>2. /\ cmd' \in Commands /\ cmd'.at = "env" /\ cmd'.name = "init" /\ ~cmd'.restart
      BY <3>1 DEF Commands, PlacesOfACommand
    <3> QED BY <2>1, <2>2, <2>3, <3>2 DEF CommandAgrees, ProgressAgrees, DoneIsComplete
  <2> QED BY <2>1, <2>2, <2>3, CommandEnds
<1>2. CASE KeepsEnv \/ CopiesEnv \/ \E role \in Roles : PinsModel(role)
  <2>1. SetupTypeOK'
    BY <1>2 DEF KeepsEnv, CopiesEnv, PinsModel, SetupTypeOK, CommandAgrees, Applied, Resolved,
                NoEnvFile, Roles, installVars, aroundVars
  <2>2. PICK at \in {"manager", "worker", "venv"} :
           /\ cmd' = [cmd EXCEPT !.at = at] /\ cmd.at \in {"env", "manager", "worker"}
           /\ at # "venv" => Applied
           /\ envFile'.exists /\ UNCHANGED <<done, ram>>
    <3>1. CASE KeepsEnv
      BY <3>1 DEF KeepsEnv, Proceeds, installVars, aroundVars
    <3>2. CASE CopiesEnv
      BY <3>2 DEF CopiesEnv, Proceeds, NoEnvFile, aroundVars
    <3>3. ASSUME NEW role \in Roles, PinsModel(role)
          PROVE  /\ role \in {"manager", "worker"} /\ cmd.at = role /\ Applied
                 /\ cmd' = [cmd EXCEPT !.at = IF role = "manager" THEN "worker" ELSE "venv"]
                 /\ envFile'.exists /\ UNCHANGED <<done, ram>>
      <4>1. /\ role \in {"manager", "worker"} /\ cmd.at = role
            /\ cmd' = [cmd EXCEPT !.at = IF role = "manager" THEN "worker" ELSE "venv"]
            /\ envFile' = [envFile EXCEPT ![role] = Resolved(role)] /\ UNCHANGED <<done, ram>>
        BY <3>3 DEF PinsModel, Proceeds, Roles, aroundVars
      <4>2. envFile.exists /\ Applied
        BY <4>1 DEF CommandAgrees, ProgressAgrees
      <4>3. envFile'.exists
        BY <4>1, <4>2 DEF SetupTypeOK
      <4> QED BY <4>1, <4>2, <4>3
    <3> QED BY <1>2, <3>1, <3>2, <3>3
  <2>3. /\ cmd' \in Commands /\ cmd'.at = at /\ cmd'.name = cmd.name
        /\ cmd'.restart = cmd.restart /\ cmd'.named = cmd.named
        /\ cmd # NoCmd /\ cmd' # NoCmd /\ done = NoCmd
    BY <2>2, CommandMoves DEF PlacesOfACommand
  <2> QED
    BY <2>1, <2>2, <2>3 DEF CommandAgrees, ProgressAgrees, DoneIsComplete, Applied
<1>3. CASE EnsuresVenv \/ Pips \/ InstallsModules \/ Builds
  <2>1. SetupTypeOK'
    BY <1>3 DEF EnsuresVenv, Pips, InstallsModules, Builds, SetupTypeOK, aroundVars
  <2>2. PICK at \in {"pip", "ci", "build", "compare", "pull manager", "end"} :
           /\ cmd' = [cmd EXCEPT !.at = at] /\ UNCHANGED <<done, source, envFile>>
           /\ cmd.at \in {"venv", "pip", "ci", "build"}
           /\ at = "compare" => cmd.name = "update"
           /\ at \in {"pull manager", "end"} => cmd.name # "update"
           /\ at # "pip" => venv' = "made" /\ deps' = source
           /\ at \notin {"pip", "ci"} => modules' = source
           /\ at \notin {"pip", "ci", "build"} => build' = source
    BY <1>3 DEF EnsuresVenv, Pips, InstallsModules, Builds, After, Proceeds, ProgressAgrees, aroundVars
  <2>3. /\ cmd' \in Commands /\ cmd'.at = at /\ cmd'.name = cmd.name
        /\ cmd'.restart = cmd.restart /\ cmd'.named = cmd.named
        /\ cmd # NoCmd /\ cmd' # NoCmd /\ done = NoCmd
    BY <2>2, CommandMoves DEF PlacesOfACommand
  <2> QED
    BY <2>1, <2>2, <2>3 DEF CommandAgrees, ProgressAgrees, DoneIsComplete
<1>4. CASE Fails \/ FailsCleanly
  <2>1. CASE Fails
    <3>1. /\ envFile' \in {envFile, [NoEnvFile EXCEPT !.exists = TRUE]} /\ venv' \in {venv, "bare"}
          /\ deps' \in {deps, 0} /\ modules' \in {modules, 0}
          /\ UNCHANGED <<build, pulled, aroundVars>>
      BY <2>1 DEF Fails
    <3>2. [NoEnvFile EXCEPT !.exists = TRUE] \in
             [exists : BOOLEAN, manager : {"unset", Small, Mine}, worker : {"unset", Small, Mine}]
      BY DEF NoEnvFile
    <3> QED BY <2>1, <3>1, <3>2, CommandEnds DEF SetupTypeOK, Fails, Concludes, aroundVars
  <2>2. CASE FailsCleanly
    BY <2>2, CommandEnds DEF FailsCleanly, Concludes, SetupTypeOK, installVars, aroundVars
  <2> QED BY <1>4, <2>1, <2>2
<1>5. ASSUME NEW role \in Roles, NEW succeeds \in BOOLEAN, PullsModel(role, succeeds)
      PROVE  SetupInv'
  <2>1. SetupTypeOK'
    BY <1>5 DEF PullsModel, Resolved, SetupTypeOK, Roles, DefaultModel, aroundVars
  <2>2. PICK at \in {"pull worker", "end"}, ok \in BOOLEAN :
           /\ cmd' = [cmd EXCEPT !.at = at, !.ok = ok] /\ UNCHANGED done
           /\ cmd.at \in {"pull manager", "pull worker"}
           /\ UNCHANGED <<envFile, venv, deps, modules, build, source>>
    <3>1. cmd.ok \in BOOLEAN
      BY DEF CommandAgrees, Commands
    <3> QED BY <1>5, <3>1 DEF PullsModel, Roles, aroundVars
  <2>3. /\ cmd' \in Commands /\ cmd'.at = at /\ cmd'.name = cmd.name
        /\ cmd'.restart = cmd.restart /\ cmd'.named = cmd.named
        /\ cmd # NoCmd /\ cmd' # NoCmd /\ done = NoCmd
    BY <2>2, CommandMoves DEF PlacesOfACommand
  <2> QED
    BY <2>1, <2>2, <2>3 DEF CommandAgrees, ProgressAgrees, DoneIsComplete
<1>6. CASE Finishes
  <2>1. SetupTypeOK'
    BY <1>6 DEF Finishes, SetupTypeOK, installVars, aroundVars
  <2>2. Says
    BY <1>6 DEF Finishes, Concludes, SetupTypeOK, CommandAgrees, ProgressAgrees, DoneIsComplete,
                Commands, NoCmd, installVars, aroundVars
  <2> QED BY <2>1, <2>2
<1>7. CASE UpdateBegins
  <2>1. SetupTypeOK'
    BY <1>7 DEF UpdateBegins, SetupTypeOK, NotRunning, installVars
  <2>2. PICK restart \in BOOLEAN :
          /\ done' = NoCmd /\ UNCHANGED <<installVars, ram, source>>
          /\ \/ cmd' = NoCmd
             \/ cmd' = [at |-> "git", name |-> "update", pull |-> FALSE, named |-> FALSE,
                        ok |-> TRUE, restart |-> restart]
    BY <1>7 DEF UpdateBegins, Begins, NoCmd
  <2>3. CASE cmd' # NoCmd
    <3>1. cmd' = [at |-> "git", name |-> "update", pull |-> FALSE, named |-> FALSE,
                  ok |-> TRUE, restart |-> restart]
      BY <2>2, <2>3
    <3>2. /\ cmd' \in Commands /\ cmd'.at = "git" /\ cmd'.name = "update"
      BY <3>1 DEF Commands, PlacesOfACommand
    <3> QED BY <2>1, <2>2, <2>3, <3>2 DEF CommandAgrees, ProgressAgrees, DoneIsComplete
  <2> QED BY <2>1, <2>2, <2>3, CommandEnds
<1>8. ASSUME NEW version \in 1 .. MaxVersion, GitPulls(version)
      PROVE  SetupInv'
  <2>1. SetupTypeOK'
    BY <1>8 DEF GitPulls, SetupTypeOK, installVars
  <2>2. /\ cmd.at = "git" /\ cmd' = [cmd EXCEPT !.at = "venv"]
        /\ UNCHANGED <<done, envFile>>
    BY <1>8 DEF GitPulls, Proceeds, installVars
  <2>3. /\ cmd' \in Commands /\ cmd'.at = "venv" /\ cmd'.name = cmd.name
        /\ cmd'.restart = cmd.restart /\ cmd'.named = cmd.named
        /\ cmd # NoCmd /\ cmd' # NoCmd /\ done = NoCmd
    BY <2>2, CommandMoves DEF PlacesOfACommand
  <2> QED
    BY <2>1, <2>2, <2>3 DEF CommandAgrees, ProgressAgrees, DoneIsComplete
<1>9. CASE Compares
  <2>1. SetupTypeOK'
    BY <1>9 DEF Compares, SetupTypeOK, installVars, aroundVars
  <2>2. PICK at \in {"restart", "end"} :
           /\ cmd.at = "compare" /\ cmd' = [cmd EXCEPT !.at = at] /\ UNCHANGED done
           /\ at = "end" => ~cmd.restart
           /\ UNCHANGED <<envFile, venv, deps, modules, build, source>>
    BY <1>9 DEF Compares, Proceeds, installVars, aroundVars
  <2>3. /\ cmd' \in Commands /\ cmd'.at = at /\ cmd'.name = cmd.name
        /\ cmd'.restart = cmd.restart /\ cmd'.named = cmd.named
        /\ cmd # NoCmd /\ cmd' # NoCmd /\ done = NoCmd
    BY <2>2, CommandMoves DEF PlacesOfACommand
  <2> QED
    BY <2>1, <2>2, <2>3 DEF CommandAgrees, ProgressAgrees, DoneIsComplete
<1>10. ASSUME NEW recorded \in BOOLEAN, RestartsDaemon(recorded)
       PROVE  SetupInv'
  <2>1. SetupTypeOK'
    BY <1>10 DEF RestartsDaemon, LaunchesDaemon, SetupTypeOK, installVars
  <2>2. Says
    BY <1>10 DEF RestartsDaemon, LaunchesDaemon, Concludes, SetupTypeOK, CommandAgrees,
                 ProgressAgrees, DoneIsComplete, Commands, NoCmd, installVars
  <2> QED BY <2>1, <2>2
<1>11. ASSUME NEW recorded \in BOOLEAN, NEW port \in Ports, StartsDaemon(port, recorded)
       PROVE  SetupInv'
  <2>1. SetupTypeOK'
    BY <1>11 DEF StartsDaemon, LaunchesDaemon, SetupTypeOK, installVars
  <2> QED BY <1>11, <2>1, CommandEnds DEF StartsDaemon
<1>12. CASE StopsDaemon \/ \E role \in Roles : Edits(role)
  <2>1. SetupTypeOK'
    BY <1>12 DEF StopsDaemon, Edits, SetupTypeOK, NotRunning, Roles, installVars, aroundVars
  <2> QED BY <1>12, <2>1, CommandEnds DEF StopsDaemon, Edits
<1> QED
  BY <1>1, <1>2, <1>3, <1>4, <1>5, <1>6, <1>7, <1>8, <1>9, <1>10, <1>11, <1>12 DEF SetupNext

(* Whatever commands are typed, and wherever they fail or are interrupted,   *)
(* the invariant above holds (RunInit, RunUpdate).                           *)
THEOREM SetupInvariance == SetupSpec => []SetupInv
<1>1. SetupInv /\ UNCHANGED setupVars => SetupInv'
  BY DEF setupVars, SetupInv, SetupTypeOK, CommandAgrees, ProgressAgrees, DoneIsComplete, Applied
<1>2. SetupInv /\ [SetupNext]_setupVars => SetupInv'
  BY <1>1, SetupStepsKeepInv
<1> QED BY <1>2, SetupInitInv, PTL DEF SetupSpec

(* A command that reports success leaves a whole installation of the version *)
(* that is checked out, and a daemon it restarts is of that version          *)
(* (installDependencies).                                                    *)
THEOREM SuccessIsComplete == SetupSpec => []DoneIsComplete
<1>1. SetupInv => DoneIsComplete
  BY DEF SetupInv
<1> QED BY <1>1, SetupInvariance, PTL

-----------------------------------------------------------------------------
(***************************************************************************)
(* The log of a child, for every number of backups, every size of a file   *)
(* and any amount of output.                                               *)
(*                                                                         *)
(* What a file holds is said by the Order of its chunks: within a file     *)
(* they follow one another, from file to file they grow (FilesInOrder).    *)
(* While no rotation has failed every place is known: the n-th chunk of    *)
(* file f is the ((f - 1) * MaxChunks + n)-th ever written (NothingLost).  *)
(* The follower has printed nothing of what is after its place             *)
(* (SeenAgrees).                                                           *)
(***************************************************************************)

Newest == Len(content)

\* The child prints its lines in their order.
WrittenInOrder ==
    /\ written \in Seq(Chunks) /\ copying \in BOOLEAN
    /\ \A k \in DOMAIN written : Order(written[k]) = k + 1

FilesInOrder ==
    /\ content \in Seq(Seq(Chunks)) /\ Newest \in 1 .. Len(written) + 1
    /\ \A f \in 1 .. Newest : \A m, n \in 1 .. Len(content[f]) :
          Order(content[f][n]) - Order(content[f][m]) = n - m
    /\ \A f \in 1 .. Newest : \A n \in 1 .. Len(content[f]) :
          Order(content[f][n]) <= Len(written) + 1
    /\ \A f, g \in 1 .. Newest : f < g =>
          \A m \in 1 .. Len(content[f]), n \in 1 .. Len(content[g]) :
             Order(content[f][m]) < Order(content[g][n])

PathsInOrder ==
    /\ paths \in [0 .. Backups -> 0 .. Newest] /\ paths[0] = Newest
    /\ \A older, newer \in Present : newer < older => paths[older] < paths[newer]

NothingLost ==
    copying =>
        /\ \A f \in 1 .. Newest : \A n \in 1 .. Len(content[f]) :
              Order(content[f][n]) = (f - 1) * MaxChunks + n + 1
        /\ \A f \in 1 .. Newest : f < Newest => Len(content[f]) = MaxChunks
        /\ Len(content[Newest]) <= MaxChunks
        /\ Len(written) = (Newest - 1) * MaxChunks + Len(content[Newest])
        /\ \A k \in DOMAIN written : \E f \in 1 .. Newest : \E n \in 1 .. Len(content[f]) :
              content[f][n] = written[k]
        /\ \A i \in 0 .. Backups : paths[i] = IF i < Newest THEN Newest - i ELSE NoFile

\* Where the follower has come to.
Unread(f, n) == f > seen.file \/ (f = seen.file /\ n > seen.offset)
SeenAgrees ==
    /\ seen \in [file : 0 .. Newest, offset : Nat]
    /\ seen.file # NoFile => seen.offset <= Len(content[seen.file])
    /\ seen.file = NoFile => seen.offset = 0
    /\ printed \in Seq(Chunks)
    /\ \A i \in DOMAIN printed : Order(printed[i]) <= Len(written) + 1
    /\ \A i \in DOMAIN printed, f \in 1 .. Newest : \A n \in 1 .. Len(content[f]) :
          Unread(f, n) => Order(printed[i]) < Order(content[f][n])

LogInv == WrittenInOrder /\ FilesInOrder /\ PathsInOrder /\ NothingLost /\ SeenAgrees /\ FollowedOnce

\* What the order of a chunk tells: which chunk it is, and that a line's head and tail are
\* next to one another.
LEMMA OrderOfChunks ==
    ASSUME NEW c \in Chunks, NEW d \in Chunks
    PROVE  /\ Order(c) \in 2 .. 2 * LastLine + 1
           /\ Order(c) = Order(d) => c = d
           /\ c[2] \in {"head", "tail"}
           /\ c[2] = "head" /\ Order(d) = Order(c) + 1 => d = <<c[1], "tail">>
<1> USE LogAssumption
<1>1. /\ c \in (1 .. LastLine) \X {"head", "tail"} /\ c = <<c[1], c[2]>>
      /\ d \in (1 .. LastLine) \X {"head", "tail"} /\ d = <<d[1], d[2]>>
      /\ c[1] \in 1 .. LastLine /\ d[1] \in 1 .. LastLine
      /\ c[2] \in {"head", "tail"} /\ d[2] \in {"head", "tail"}
  BY DEF Chunks
<1>2. Order(c) = 2 * c[1] + (IF c[2] = "tail" THEN 1 ELSE 0)
  BY DEF Order
<1>3. Order(d) = 2 * d[1] + (IF d[2] = "tail" THEN 1 ELSE 0)
  BY DEF Order
<1>4. Order(c) = Order(d) => c[1] = d[1] /\ c[2] = d[2]
  BY <1>1, <1>2, <1>3
<1>5. c[2] = "head" /\ Order(d) = Order(c) + 1 => d[1] = c[1] /\ d[2] = "tail"
  BY <1>1, <1>2, <1>3
<1>6. Order(c) \in 2 .. 2 * LastLine + 1
  BY <1>1, <1>2
<1> QED BY <1>1, <1>4, <1>5, <1>6

\* The child prints the next chunk of its output.
LEMMA OrderOfNext ==
    ASSUME WrittenInOrder, NextChunk[1] <= LastLine
    PROVE  NextChunk \in Chunks /\ Order(NextChunk) = Len(written) + 2
<1> USE LogAssumption DEF WrittenInOrder
<1>1. CASE written = <<>>
  BY <1>1 DEF NextChunk, Chunks, Order
<1>2. CASE written # <<>>
  <2> DEFINE c == written[Len(written)]
  <2>1. /\ c \in Chunks /\ Len(written) \in Nat /\ Order(c) = Len(written) + 1
    BY <1>2
  <2>2. /\ c[1] \in 1 .. LastLine /\ c[2] \in {"head", "tail"}
    BY <2>1 DEF Chunks
  <2>3. NextChunk = IF c[2] = "head" THEN <<c[1], "tail">> ELSE <<c[1] + 1, "head">>
    BY <1>2 DEF NextChunk
  <2>4. Order(c) = 2 * c[1] + (IF c[2] = "tail" THEN 1 ELSE 0)
    BY DEF Order
  <2> HIDE DEF c
  <2>5. CASE c[2] = "head"
    <3>1. NextChunk = <<c[1], "tail">> /\ c[1] \in 1 .. LastLine
      BY <2>2, <2>3, <2>5
    <3> QED BY <2>1, <2>4, <2>5, <3>1 DEF Chunks, Order
  <2>6. CASE c[2] # "head"
    <3>1. NextChunk = <<c[1] + 1, "head">> /\ c[1] + 1 \in 1 .. LastLine
      BY <2>2, <2>3, <2>6
    <3>2. Order(NextChunk) = 2 * (c[1] + 1) /\ NextChunk \in Chunks
      BY <3>1 DEF Chunks, Order
    <3> QED BY <2>1, <2>2, <2>4, <2>6, <3>2
  <2> QED BY <2>5, <2>6
<1> QED BY <1>1, <1>2

\* What holds wherever the child's output has come to.
LEMMA LogAmounts ==
    ASSUME WrittenInOrder, FilesInOrder
    PROVE  /\ Len(written) \in 0 .. 2 * LastLine
           /\ Newest \in Nat \ {0} /\ DOMAIN content = 1 .. Newest
           /\ \A f \in 1 .. Newest :
                 /\ content[f] \in Seq(Chunks) /\ Len(content[f]) \in 0 .. Len(written)
                 /\ DOMAIN content[f] = 1 .. Len(content[f])
                 /\ \A n \in 1 .. Len(content[f]) : content[f][n] \in Chunks
<1> USE LogAssumption
<1>1. Len(written) \in 0 .. 2 * LastLine
  <2>1. CASE Len(written) # 0
    <3>1. written[Len(written)] \in Chunks /\ Order(written[Len(written)]) = Len(written) + 1
      BY <2>1 DEF WrittenInOrder
    <3> QED BY <3>1, OrderOfChunks DEF WrittenInOrder
  <2> QED BY <2>1 DEF WrittenInOrder
<1>2. Newest \in Nat \ {0} /\ DOMAIN content = 1 .. Newest
  BY <1>1 DEF FilesInOrder, Newest
<1>3. ASSUME NEW f \in 1 .. Newest
      PROVE  /\ content[f] \in Seq(Chunks) /\ Len(content[f]) \in 0 .. Len(written)
             /\ DOMAIN content[f] = 1 .. Len(content[f])
             /\ \A n \in 1 .. Len(content[f]) : content[f][n] \in Chunks
  <2>1. content[f] \in Seq(Chunks)
    BY <1>2, <1>3 DEF FilesInOrder
  <2>2. CASE Len(content[f]) # 0
    <3> DEFINE l == Len(content[f])
    <3>1. l \in 1 .. Len(content[f]) /\ 1 \in 1 .. Len(content[f]) /\ l \in Nat
      BY <2>1, <2>2
    <3>2. content[f][1] \in Chunks /\ content[f][l] \in Chunks
      BY <2>1, <3>1
    <3>3. Order(content[f][1]) \in 2 .. 2 * LastLine + 1 /\ Order(content[f][l]) \in Nat
      BY <3>2, OrderOfChunks
    <3>4. Order(content[f][l]) - Order(content[f][1]) = l - 1
      BY <1>2, <3>1 DEF FilesInOrder
    <3>5. Order(content[f][l]) <= Len(written) + 1
      BY <1>2, <3>1 DEF FilesInOrder
    <3> HIDE DEF l
    <3>6. l <= Len(written)
      BY <1>1, <3>1, <3>3, <3>4, <3>5
    <3> QED BY <2>1, <3>6 DEF l
  <2> QED BY <1>1, <2>1, <2>2
<1> QED BY <1>1, <1>2, <1>3

LEMMA LogInitInv == LogInit => LogInv
<1> SUFFICES ASSUME LogInit PROVE LogInv
  OBVIOUS
<1> USE LogAssumption DEF LogInit, Newest
<1>1. content = << <<>> >> /\ Len(content) = 1 /\ content[1] = <<>> /\ DOMAIN content = {1}
      /\ content \in Seq(Seq(Chunks))
  OBVIOUS
<1>2. written = <<>> /\ Len(written) = 0 /\ DOMAIN written = {} /\ written \in Seq(Chunks)
  OBVIOUS
<1>3. WrittenInOrder /\ FilesInOrder
  BY <1>1, <1>2 DEF WrittenInOrder, FilesInOrder
<1>4. PathsInOrder
  BY <1>1, <1>2 DEF PathsInOrder, Present, NoFile
<1>5. NothingLost
  BY <1>1, <1>2 DEF NothingLost, NoFile
<1>6. SeenAgrees /\ FollowedOnce
  BY <1>1, <1>2 DEF SeenAgrees, FollowedOnce, NoFile, Ascending
<1> QED BY <1>3, <1>4, <1>5, <1>6 DEF LogInv

\* Where the follower stops: at the end of a line, or where it was.
LEMMA WholeLines ==
    ASSUME NEW chunks \in Seq(Chunks), NEW offset \in 0 .. Len(chunks),
           \A m, n \in DOMAIN chunks : Order(chunks[n]) - Order(chunks[m]) = n - m
    PROVE  /\ WholeUpTo(chunks, offset) \in offset .. Len(chunks)
           /\ \/ WholeUpTo(chunks, offset) = offset
              \/ chunks[WholeUpTo(chunks, offset)][2] = "tail"
<1> DEFINE l == Len(chunks)
           P(last) == /\ last = offset \/ chunks[last][2] = "tail"
                      /\ \A i \in last + 1 .. l : chunks[i][2] = "head"
<1>1. \E last \in offset .. l : P(last)
  <2>1. CASE l = offset \/ chunks[l][2] = "tail"
    <3>1. l \in offset .. l /\ P(l)
      BY <2>1
    <3> QED BY <3>1
  <2>2. CASE l # offset /\ chunks[l][2] # "tail"
    <3>1. l - 1 \in offset .. l /\ l \in DOMAIN chunks /\ chunks[l] \in Chunks
      BY <2>2
    <3>2. chunks[l][2] = "head"
      BY <2>2, <3>1, OrderOfChunks
    <3>3. l - 1 = offset \/ chunks[l - 1][2] = "tail"
      <4> SUFFICES ASSUME l - 1 # offset PROVE chunks[l - 1][2] = "tail"
        OBVIOUS
      <4> DEFINE c == chunks[l - 1]
      <4>1. l - 1 \in DOMAIN chunks /\ c \in Chunks
        BY <3>1
      <4>2. Order(chunks[l]) - Order(c) = 1
        BY <3>1, <4>1
      <4>3. Order(chunks[l]) \in Int /\ Order(c) \in Int /\ c[2] \in {"head", "tail"}
        BY <3>1, <4>1, OrderOfChunks, LogAssumption
      <4>4. Order(chunks[l]) = Order(c) + 1
        BY <4>2, <4>3
      <4>5. c[2] = "head" => chunks[l] = <<c[1], "tail">>
        BY <3>1, <4>1, <4>4, OrderOfChunks
      <4>6. <<c[1], "tail">>[2] # "head"
        OBVIOUS
      <4> QED BY <3>2, <4>3, <4>5, <4>6
    <3>4. P(l - 1)
      BY <3>1, <3>2, <3>3
    <3> QED BY <3>1, <3>4
  <2> QED BY <2>1, <2>2
<1>2. WholeUpTo(chunks, offset) = CHOOSE last \in offset .. l : P(last)
  BY DEF WholeUpTo
<1> HIDE DEF P
<1>3. WholeUpTo(chunks, offset) \in offset .. l /\ P(WholeUpTo(chunks, offset))
  BY <1>1, <1>2
<1> QED BY <1>3 DEF P

\* A rotation keeps the files in their order; where its first rename fails the active file
\* stays, and otherwise the place is free.
LEMMA RotationKeepsOrder ==
    ASSUME PathsInOrder, Newest \in Nat \ {0},
           NEW failed \in SUBSET {i \in 0 .. Backups - 1 : paths[i] # NoFile}
    PROVE  LET at == Rotated(failed)
           IN  /\ at \in [0 .. Backups -> 0 .. Newest]
               /\ at[0] = IF 0 \in failed THEN Newest ELSE NoFile
               /\ \A older, newer \in {i \in 0 .. Backups : at[i] # NoFile} :
                     newer < older => at[older] < at[newer]
<1> USE LogAssumption
<1> DEFINE at == Rotated(failed)
           moves == {i \in 0 .. Backups - 1 : i \notin failed /\ paths[i] # NoFile}
<1>1. /\ paths \in [0 .. Backups -> 0 .. Newest] /\ paths[0] = Newest
      /\ \A older, newer \in 0 .. Backups :
            paths[older] # NoFile /\ paths[newer] # NoFile /\ newer < older
               => paths[older] < paths[newer]
  BY DEF PathsInOrder, Present
<1>2. \A i \in 0 .. Backups :
         at[i] = IF i > 0 /\ i - 1 \in moves THEN paths[i - 1]
                 ELSE IF i \in moves \/ i = Backups THEN NoFile ELSE paths[i]
  BY DEF Rotated
<1>3. at \in [0 .. Backups -> 0 .. Newest]
  <2>1. \A i \in 0 .. Backups : at[i] \in 0 .. Newest
    BY <1>1, <1>2 DEF NoFile
  <2>2. at = [i \in 0 .. Backups |-> at[i]]
    BY DEF Rotated
  <2> HIDE DEF at
  <2> QED BY <2>1, <2>2
<1>4. at[0] = IF 0 \in failed THEN Newest ELSE NoFile
  BY <1>1, <1>2 DEF NoFile
<1>5. ASSUME NEW older \in 0 .. Backups, NEW newer \in 0 .. Backups,
             at[older] # NoFile, at[newer] # NoFile, newer < older
      PROVE  at[older] < at[newer]
  <2> HIDE DEF at
  <2>1. \/ at[older] = paths[older - 1] /\ older - 1 \in moves
        \/ at[older] = paths[older] /\ older - 1 \notin moves
    BY <1>2, <1>5
  <2>2. \/ newer > 0 /\ at[newer] = paths[newer - 1] /\ newer - 1 \in moves
        \/ at[newer] = paths[newer] /\ newer \notin moves
    BY <1>2, <1>5
  <2>3. CASE at[older] = paths[older]
    BY <1>1, <1>5, <2>2, <2>3
  <2>4. CASE at[older] = paths[older - 1] /\ older - 1 \in moves
    <3>1. CASE at[newer] = paths[newer - 1] /\ newer > 0
      BY <1>1, <1>5, <2>4, <3>1
    <3>2. CASE at[newer] = paths[newer] /\ newer \notin moves
      <4>1. newer < older - 1
        BY <1>5, <2>4, <3>2
      <4> QED BY <1>1, <1>5, <2>4, <3>2, <4>1
    <3> QED BY <2>2, <3>1, <3>2
  <2> QED BY <2>1, <2>3, <2>4
<1> QED BY <1>3, <1>4, <1>5

\* What every Write does to what the child has written, and to what was printed of it.
LEMMA WritesOneMore ==
    ASSUME WrittenInOrder, NextChunk[1] <= LastLine, written' = Append(written, NextChunk),
           copying' \in BOOLEAN
    PROVE  WrittenInOrder' /\ Len(written') = Len(written) + 1
<1>1. NextChunk \in Chunks /\ Order(NextChunk) = Len(written) + 2
  BY OrderOfNext
<1> DEFINE c == NextChunk
<1>2. c \in Chunks /\ Order(c) = Len(written) + 2 /\ written' = Append(written, c)
  BY <1>1
<1> HIDE DEF c
<1>3. /\ written' \in Seq(Chunks) /\ Len(written') = Len(written) + 1
      /\ \A k \in 1 .. Len(written) : written'[k] = written[k]
      /\ written'[Len(written) + 1] = c
  BY <1>2 DEF WrittenInOrder
<1>4. \A k \in DOMAIN written' : Order(written'[k]) = k + 1
  BY <1>2, <1>3 DEF WrittenInOrder
<1> QED BY <1>3, <1>4 DEF WrittenInOrder

\* A Write that fits the active file.
LEMMA WriteFits ==
    ASSUME LogInv, Writes, Len(Active) + 1 <= MaxChunks
    PROVE  LogInv'
<1> DEFINE c == NextChunk
           held == Len(content[Newest])
<1>1. /\ WrittenInOrder /\ FilesInOrder /\ PathsInOrder /\ NothingLost /\ SeenAgrees /\ FollowedOnce
      /\ copying
  BY DEF LogInv, Writes
<1>2. /\ Newest \in Nat \ {0} /\ DOMAIN content = 1 .. Newest
      /\ held \in Nat /\ Len(written) \in Nat /\ Len(content[Newest]) = held
      /\ \A f \in 1 .. Newest :
            /\ content[f] \in Seq(Chunks) /\ Len(content[f]) \in Nat
            /\ \A n \in 1 .. Len(content[f]) : content[f][n] \in Chunks
  BY <1>1, LogAmounts
<1>3. paths[0] = Newest /\ Active = content[Newest]
  BY <1>1 DEF PathsInOrder, Active
<1>4. /\ c \in Chunks /\ Order(c) = Len(written) + 2 /\ written' = Append(written, c)
      /\ content' = [content EXCEPT ![Newest] = Append(content[Newest], c)]
      /\ UNCHANGED <<seen, printed, paths, copying>>
  BY <1>1, <1>3, OrderOfNext DEF Writes
<1>5. WrittenInOrder' /\ Len(written') = Len(written) + 1
  BY <1>1, WritesOneMore DEF Writes, WrittenInOrder
<1>6. /\ DOMAIN content' = 1 .. Newest /\ Newest' = Newest /\ content' \in Seq(Seq(Chunks))
      /\ \A f \in 1 .. Newest : f # Newest => content'[f] = content[f]
      /\ content'[Newest] = Append(content[Newest], c)
  <2>1. Append(content[Newest], c) \in Seq(Chunks)
    BY <1>2, <1>4
  <2> HIDE DEF c
  <2>2. content \in Seq(Seq(Chunks)) /\ Len(content) = Newest
    BY <1>1 DEF FilesInOrder, Newest
  <2>3. content' \in Seq(Seq(Chunks)) /\ Len(content') = Len(content) /\ DOMAIN content' = 1 .. Newest
    BY <1>2, <1>4, <2>1, <2>2
  <2>4. Newest' = Newest
    BY <2>2, <2>3 DEF Newest
  <2>5. /\ \A f \in 1 .. Newest : f # Newest => content'[f] = content[f]
        /\ content'[Newest] = Append(content[Newest], c)
    BY <1>2, <1>4
  <2> QED BY <2>3, <2>4, <2>5
<1>7. /\ Len(content'[Newest]) = held + 1
      /\ content'[Newest][held + 1] = c
      /\ \A n \in 1 .. held : content'[Newest][n] = content[Newest][n]
  BY <1>2, <1>4, <1>6
<1>8. \A f \in 1 .. Newest : \A n \in 1 .. Len(content'[f]) :
         \/ n \in 1 .. Len(content[f]) /\ content'[f][n] = content[f][n]
         \/ f = Newest /\ n = held + 1 /\ content'[f][n] = c
  BY <1>2, <1>6, <1>7
<1>9. \A f \in 1 .. Newest : \A n \in 1 .. Len(content[f]) :
         n \in 1 .. Len(content'[f]) /\ content'[f][n] = content[f][n]
  <2>1. ASSUME NEW n \in 1 .. held PROVE n \in 1 .. Len(content'[Newest])
    BY <1>2, <1>7, <2>1
  <2> QED BY <1>2, <1>6, <1>7, <2>1
<1>10. \A f \in 1 .. Newest : \A n \in 1 .. Len(content[f]) :
          Order(content[f][n]) \in Nat /\ Order(content[f][n]) <= Len(written) + 1
  BY <1>1, <1>2, OrderOfChunks DEF FilesInOrder
<1>11. \A m \in 1 .. held : Order(content[Newest][m]) = Len(written) + 1 - (held - m)
  <2> DEFINE base == (Newest - 1) * MaxChunks
  <2>1. base \in Nat
    BY <1>2, LogAssumption
  <2>2. \A m \in 1 .. held : Order(content[Newest][m]) = base + m + 1
    BY <1>1, <1>2 DEF NothingLost
  <2>3. Len(written) = base + held
    BY <1>1 DEF NothingLost
  <2>4. held \in Nat
    BY <1>2
  <2> HIDE DEF base, held
  <2> QED BY <2>1, <2>2, <2>3, <2>4
<1> HIDE DEF c, held
<1>12. FilesInOrder'
  <2>1. ASSUME NEW f \in 1 .. Newest, NEW m \in 1 .. Len(content'[f]), NEW n \in 1 .. Len(content'[f])
        PROVE  Order(content'[f][n]) - Order(content'[f][m]) = n - m
    <3>1. CASE m \in 1 .. Len(content[f]) /\ n \in 1 .. Len(content[f])
      BY <1>1, <1>2, <1>9, <3>1 DEF FilesInOrder
    <3>2. CASE f = Newest /\ (m = held + 1 \/ n = held + 1)
      <4>1. f = Newest /\ m \in 1 .. held + 1 /\ n \in 1 .. held + 1
        BY <1>7, <3>2
      <4>2. \A k \in 1 .. held + 1 : Order(content'[Newest][k]) = Len(written) + 1 - (held - k)
        <5>1. Order(c) = Len(written) + 1 - (held - (held + 1))
          BY <1>2, <1>4
        <5>2. \A k \in 1 .. held + 1 : k \in 1 .. held \/ k = held + 1
          BY <1>2
        <5> QED BY <1>7, <1>11, <5>1, <5>2
      <4> QED BY <1>2, <4>1, <4>2
    <3> QED BY <1>8, <3>1, <3>2
  <2>2. ASSUME NEW f \in 1 .. Newest, NEW n \in 1 .. Len(content'[f])
        PROVE  Order(content'[f][n]) <= Len(written) + 2
    BY <1>2, <1>4, <1>8, <1>10
  <2>3. ASSUME NEW f \in 1 .. Newest, NEW g \in 1 .. Newest, f < g,
               NEW m \in 1 .. Len(content'[f]), NEW n \in 1 .. Len(content'[g])
        PROVE  Order(content'[f][m]) < Order(content'[g][n])
    <3>1. m \in 1 .. Len(content[f]) /\ content'[f][m] = content[f][m]
      <4>1. f # Newest
        BY <1>2, <2>3
      <4> QED BY <1>6, <2>3, <4>1
    <3>2. CASE n \in 1 .. Len(content[g]) /\ content'[g][n] = content[g][n]
      BY <1>1, <1>2, <2>3, <3>1, <3>2 DEF FilesInOrder
    <3>3. CASE content'[g][n] = c
      <4>1. Order(content'[f][m]) \in Nat /\ Order(content'[f][m]) <= Len(written) + 1
        BY <1>10, <3>1
      <4>2. Len(written) \in Nat /\ Order(content'[g][n]) = Len(written) + 2
        BY <1>2, <1>4, <3>3
      <4> QED BY <4>1, <4>2
    <3> QED BY <1>8, <3>2, <3>3
  <2>4. Newest \in 1 .. Len(written') + 1 /\ Len(written) + 2 = Len(written') + 1
    BY <1>1, <1>2, <1>5 DEF FilesInOrder
  <2> QED BY <1>6, <2>1, <2>2, <2>3, <2>4 DEF FilesInOrder
<1>13. PathsInOrder'
  BY <1>1, <1>4, <1>6 DEF PathsInOrder, Present
<1>14. NothingLost'
  <2> DEFINE base == (Newest - 1) * MaxChunks
  <2>1. /\ base \in Nat /\ Len(written) = base + held /\ held + 1 <= MaxChunks
    <3>1. base \in Nat
      BY <1>2, LogAssumption
    <3>2. Len(written) = base + held
      BY <1>1, <1>2 DEF NothingLost
    <3>3. held + 1 <= MaxChunks
      BY <1>2, <1>3
    <3> QED BY <3>1, <3>2, <3>3
  <2>2. ASSUME NEW f \in 1 .. Newest, NEW n \in 1 .. Len(content'[f])
        PROVE  Order(content'[f][n]) = (f - 1) * MaxChunks + n + 1
    <3>1. CASE n \in 1 .. Len(content[f]) /\ content'[f][n] = content[f][n]
      BY <1>1, <1>2, <3>1 DEF NothingLost
    <3>2. CASE f = Newest /\ n = held + 1 /\ content'[f][n] = c
      <4>1. Order(content'[f][n]) = base + n + 1
        <5> HIDE DEF base
        <5> QED BY <1>2, <1>4, <2>1, <3>2
      <4> QED BY <4>1, <3>2
    <3> QED BY <1>8, <3>1, <3>2
  <2>3. \A f \in 1 .. Newest : f < Newest => Len(content'[f]) = MaxChunks
    <3>1. \A f \in 1 .. Newest : f < Newest => f # Newest /\ Len(content[f]) = MaxChunks
      BY <1>1, <1>2 DEF NothingLost
    <3> QED BY <1>6, <3>1
  <2>4. Len(written') = (Newest - 1) * MaxChunks + Len(content'[Newest])
    <3> HIDE DEF base
    <3>1. Len(written') = base + Len(content'[Newest])
      BY <1>2, <1>5, <1>7, <2>1
    <3> QED BY <3>1 DEF base
  <2>5. ASSUME NEW k \in DOMAIN written'
        PROVE  \E f \in 1 .. Newest : \E n \in 1 .. Len(content'[f]) : content'[f][n] = written'[k]
    <3>1. CASE k = Len(written) + 1
      <4>1. written'[k] = c
        BY <1>1, <1>4, <3>1 DEF WrittenInOrder
      <4>2. held + 1 \in 1 .. Len(content'[Newest]) /\ Newest \in 1 .. Newest
        BY <1>2, <1>7
      <4> QED BY <1>7, <4>1, <4>2
    <3>2. CASE k # Len(written) + 1
      <4>1. k \in DOMAIN written /\ written'[k] = written[k]
        BY <1>1, <1>4, <1>5, <3>2 DEF WrittenInOrder
      <4>2. PICK f \in 1 .. Newest : \E n \in 1 .. Len(content[f]) : content[f][n] = written[k]
        BY <1>1, <1>2, <4>1 DEF NothingLost
      <4> QED BY <1>9, <4>1, <4>2
    <3> QED BY <3>1, <3>2
  <2>6. \A i \in 0 .. Backups : paths'[i] = IF i < Newest THEN Newest - i ELSE NoFile
    BY <1>1, <1>4 DEF NothingLost
  <2>7. Len(content'[Newest]) <= MaxChunks
    BY <1>7, <2>1
  <2> HIDE DEF base
  <2> QED BY <1>6, <2>2, <2>3, <2>4, <2>5, <2>6, <2>7 DEF NothingLost
<1>15. SeenAgrees'
  <2>1. \A f \in 1 .. Newest : Len(content[f]) <= Len(content'[f])
    <3>1. ASSUME NEW f \in 1 .. Newest, f # Newest PROVE Len(content[f]) <= Len(content'[f])
      BY <1>2, <1>6, <3>1
    <3>2. Len(content[Newest]) <= Len(content'[Newest])
      BY <1>2, <1>7
    <3> QED BY <3>1, <3>2
  <2>2. /\ seen' = seen /\ printed' = printed /\ printed \in Seq(Chunks)
        /\ seen \in [file : 0 .. Newest, offset : Nat]
    BY <1>1, <1>4 DEF SeenAgrees
  <2>3. seen.file # NoFile => seen.file \in 1 .. Newest /\ seen.offset <= Len(content'[seen.file])
    BY <1>1, <1>2, <1>6, <1>7, <2>1, <2>2 DEF SeenAgrees, NoFile
  <2>4. \A i \in DOMAIN printed : Order(printed[i]) \in Nat /\ Order(printed[i]) <= Len(written) + 1
    BY <1>1, OrderOfChunks DEF SeenAgrees
  <2>5. ASSUME NEW i \in DOMAIN printed, NEW f \in 1 .. Newest, NEW n \in 1 .. Len(content'[f]), Unread(f, n)
        PROVE  Order(printed[i]) < Order(content'[f][n])
    <3>1. CASE n \in 1 .. Len(content[f]) /\ content'[f][n] = content[f][n]
      BY <1>1, <2>5, <3>1 DEF SeenAgrees
    <3>2. CASE content'[f][n] = c
      BY <1>2, <1>4, <2>4, <3>2
    <3> QED BY <1>8, <3>1, <3>2
  <2>6. \A f, n : Unread(f, n)' = Unread(f, n)
    BY <2>2 DEF Unread
  <2>7. \A i \in DOMAIN printed : Order(printed[i]) <= Len(written') + 1
    BY <1>2, <1>5, <2>4
  <2>8. seen.file = NoFile => seen.offset = 0
    BY <1>1 DEF SeenAgrees
  <2> QED BY <1>6, <2>2, <2>3, <2>5, <2>6, <2>7, <2>8 DEF SeenAgrees
<1>16. FollowedOnce'
  BY <1>1, <1>4 DEF FollowedOnce, Ascending
<1> QED BY <1>5, <1>12, <1>13, <1>14, <1>15, <1>16 DEF LogInv

\* A rotation that opens a new file, with the chunk in it or with the chunk lost.
OpensFile(first) ==
    /\ NextChunk[1] <= LastLine
    /\ written' = Append(written, NextChunk)
    /\ first \in {<<>>, <<NextChunk>>}
    /\ content' = Append(content, first)
    /\ copying' \in BOOLEAN
    /\ UNCHANGED <<seen, printed>>

LEMMA NewFile ==
    ASSUME LogInv, NEW first, OpensFile(first)
    PROVE  /\ WrittenInOrder' /\ FilesInOrder' /\ SeenAgrees' /\ FollowedOnce'
           /\ Len(written') = Len(written) + 1 /\ Newest' = Newest + 1
           /\ \A f \in 1 .. Newest : content'[f] = content[f]
           /\ content'[Newest + 1] = first
<1> DEFINE c == NextChunk
<1>1. /\ WrittenInOrder /\ FilesInOrder /\ PathsInOrder /\ SeenAgrees /\ FollowedOnce
  BY DEF LogInv
<1>2. /\ Len(written) \in Nat /\ Newest \in Nat \ {0} /\ Newest <= Len(written) + 1
      /\ \A f \in 1 .. Newest :
            /\ content[f] \in Seq(Chunks) /\ Len(content[f]) \in Nat
            /\ \A n \in 1 .. Len(content[f]) : content[f][n] \in Chunks
  BY <1>1, LogAmounts DEF FilesInOrder
<1>3. c \in Chunks /\ Order(c) = Len(written) + 2 /\ first \in {<<>>, <<c>>}
  BY <1>1, OrderOfNext DEF OpensFile
<1> HIDE DEF c
<1>4. WrittenInOrder' /\ Len(written') = Len(written) + 1
  BY <1>1, WritesOneMore DEF OpensFile
<1>5. first \in Seq(Chunks) /\ Len(first) \in {0, 1} /\ \A n \in 1 .. Len(first) : n = 1 /\ first[n] = c
  <2>1. CASE first = <<>>
    BY <2>1
  <2>2. CASE first = <<c>>
    BY <1>3, <2>2
  <2> QED BY <1>3, <2>1, <2>2
<1>6. /\ content' \in Seq(Seq(Chunks)) /\ Newest' = Newest + 1
      /\ \A f \in 1 .. Newest : content'[f] = content[f]
      /\ content'[Newest + 1] = first
  <2>1. content \in Seq(Seq(Chunks)) /\ Len(content) = Newest
    BY <1>1 DEF FilesInOrder, Newest
  <2>2. /\ content' \in Seq(Seq(Chunks)) /\ Len(content') = Newest + 1
        /\ \A f \in 1 .. Newest : content'[f] = content[f]
        /\ content'[Newest + 1] = first
    BY <1>2, <1>5, <2>1 DEF OpensFile
  <2> QED BY <2>2 DEF Newest
<1>7. \A f \in 1 .. Newest : \A n \in 1 .. Len(content[f]) :
         Order(content[f][n]) \in Nat /\ Order(content[f][n]) <= Len(written) + 1
  <2> SUFFICES ASSUME NEW f \in 1 .. Newest, NEW n \in 1 .. Len(content[f])
               PROVE  Order(content[f][n]) \in Nat /\ Order(content[f][n]) <= Len(written) + 1
    OBVIOUS
  <2>1. content[f][n] \in Chunks
    BY <1>2
  <2>2. Order(content[f][n]) \in Nat
    BY <2>1, OrderOfChunks
  <2> QED BY <1>1, <2>2 DEF FilesInOrder
<1>8. \A f \in 1 .. Newest + 1 : f \in 1 .. Newest \/ f = Newest + 1
  BY <1>2
<1>9. FilesInOrder'
  <2>1. ASSUME NEW f \in 1 .. Newest + 1, NEW m \in 1 .. Len(content'[f]), NEW n \in 1 .. Len(content'[f])
        PROVE  Order(content'[f][n]) - Order(content'[f][m]) = n - m
    <3>1. CASE f \in 1 .. Newest
      <4>1. m \in 1 .. Len(content[f]) /\ n \in 1 .. Len(content[f]) /\ content'[f] = content[f]
        BY <1>6, <3>1
      <4> QED BY <1>1, <3>1, <4>1 DEF FilesInOrder
    <3>2. CASE f = Newest + 1
      BY <1>2, <1>3, <1>5, <1>6, <3>2
    <3> QED BY <1>8, <3>1, <3>2
  <2>2. ASSUME NEW f \in 1 .. Newest + 1, NEW n \in 1 .. Len(content'[f])
        PROVE  Order(content'[f][n]) <= Len(written') + 1
    <3>1. CASE f \in 1 .. Newest
      <4>1. content'[f] = content[f]
        BY <1>6, <3>1
      <4>2. Order(content'[f][n]) \in Nat /\ Order(content'[f][n]) <= Len(written) + 1
        BY <1>7, <3>1, <4>1
      <4> QED BY <1>2, <1>4, <4>2
    <3>2. CASE f = Newest + 1
      BY <1>2, <1>3, <1>4, <1>5, <1>6, <3>2
    <3> QED BY <1>8, <3>1, <3>2
  <2>3. ASSUME NEW f \in 1 .. Newest + 1, NEW g \in 1 .. Newest + 1, f < g,
               NEW m \in 1 .. Len(content'[f]), NEW n \in 1 .. Len(content'[g])
        PROVE  Order(content'[f][m]) < Order(content'[g][n])
    <3>1. f \in 1 .. Newest /\ content'[f] = content[f]
      BY <1>2, <1>6, <2>3
    <3>2. CASE g \in 1 .. Newest
      BY <1>1, <1>6, <2>3, <3>1, <3>2 DEF FilesInOrder
    <3>3. CASE g = Newest + 1
      <4>1. content'[g][n] = c
        BY <1>5, <1>6, <3>3
      <4>2. Order(content'[f][m]) \in Nat /\ Order(content'[f][m]) <= Len(written) + 1
        BY <1>7, <3>1
      <4> QED BY <1>2, <1>3, <4>1, <4>2
    <3> QED BY <1>8, <3>2, <3>3
  <2>4. Newest + 1 \in 1 .. Len(written') + 1
    BY <1>2, <1>4
  <2> QED BY <1>6, <2>1, <2>2, <2>3, <2>4 DEF FilesInOrder
<1>10. SeenAgrees'
  <2>1. /\ seen' = seen /\ printed' = printed /\ printed \in Seq(Chunks)
        /\ seen \in [file : 0 .. Newest, offset : Nat]
        /\ seen.file = NoFile => seen.offset = 0
    BY <1>1 DEF SeenAgrees, OpensFile
  <2>2. seen.file # NoFile => seen.file \in 1 .. Newest /\ seen.offset <= Len(content[seen.file])
    BY <1>1, <1>2, <2>1 DEF SeenAgrees, NoFile
  <2>3. \A i \in DOMAIN printed : Order(printed[i]) \in Nat /\ Order(printed[i]) <= Len(written) + 1
    BY <1>1, OrderOfChunks DEF SeenAgrees
  <2>4. ASSUME NEW i \in DOMAIN printed, NEW f \in 1 .. Newest + 1, NEW n \in 1 .. Len(content'[f]),
               Unread(f, n)
        PROVE  Order(printed[i]) < Order(content'[f][n])
    <3>1. CASE f \in 1 .. Newest
      BY <1>1, <1>6, <2>4, <3>1 DEF SeenAgrees
    <3>2. CASE f = Newest + 1
      <4>1. content'[f][n] = c
        BY <1>5, <1>6, <3>2
      <4> QED BY <1>2, <1>3, <2>3, <4>1
    <3> QED BY <1>8, <3>1, <3>2
  <2>5. \A f, n : Unread(f, n)' = Unread(f, n)
    BY <2>1 DEF Unread
  <2>6. \A i \in DOMAIN printed : Order(printed[i]) <= Len(written') + 1
    BY <1>2, <1>4, <2>3
  <2>7. seen \in [file : 0 .. Newest + 1, offset : Nat]
    BY <1>2, <2>1
  <2>8. seen.file # NoFile => seen.offset <= Len(content'[seen.file])
    BY <1>6, <2>2
  <2> QED BY <1>6, <2>1, <2>4, <2>5, <2>6, <2>7, <2>8 DEF SeenAgrees
<1>11. FollowedOnce'
  BY <1>1 DEF FollowedOnce, Ascending, OpensFile
<1> QED BY <1>4, <1>6, <1>9, <1>10, <1>11

\* A Write that lost its chunk, and whose error ended the copying.
Loses ==
    /\ NextChunk[1] <= LastLine
    /\ written' = Append(written, NextChunk)
    /\ copying' = FALSE
    /\ UNCHANGED <<content, seen, printed>>

LEMMA WriteLoses ==
    ASSUME LogInv, Loses
    PROVE  /\ WrittenInOrder' /\ FilesInOrder' /\ SeenAgrees' /\ FollowedOnce'
           /\ Newest' = Newest
<1>1. /\ WrittenInOrder /\ FilesInOrder /\ SeenAgrees /\ FollowedOnce
  BY DEF LogInv
<1>2. Newest' = Newest
  BY DEF Newest, Loses
<1>3. WrittenInOrder' /\ Len(written') = Len(written) + 1 /\ Len(written) \in Nat
  <2>1. Len(written) \in Nat
    BY <1>1 DEF WrittenInOrder
  <2>2. copying' \in BOOLEAN /\ written' = Append(written, NextChunk) /\ NextChunk[1] <= LastLine
    BY DEF Loses
  <2> QED BY <1>1, <2>1, <2>2, WritesOneMore
<1>4. FilesInOrder'
  <2>1. \A f \in 1 .. Newest : \A n \in 1 .. Len(content[f]) :
           Order(content[f][n]) \in Nat /\ Order(content[f][n]) <= Len(written) + 1
    BY <1>1, LogAmounts, OrderOfChunks DEF FilesInOrder
  <2>2. \A f \in 1 .. Newest : \A n \in 1 .. Len(content[f]) :
           Order(content[f][n]) <= Len(written') + 1
    BY <1>3, <2>1
  <2>3. Newest \in 1 .. Len(written') + 1
    BY <1>1, <1>3 DEF FilesInOrder
  <2>4. content' = content
    BY DEF Loses
  <2>5. FilesInOrder /\ content' = content /\ Newest' = Newest
    BY <1>1, <1>2, <2>4
  <2> QED BY <2>2, <2>3, <2>5 DEF FilesInOrder
<1>5. SeenAgrees'
  <2>1. \A i \in DOMAIN printed : Order(printed[i]) \in Nat /\ Order(printed[i]) <= Len(written) + 1
    BY <1>1, OrderOfChunks DEF SeenAgrees
  <2>2. \A i \in DOMAIN printed : Order(printed[i]) <= Len(written') + 1
    BY <1>3, <2>1
  <2>3. \A f, n : Unread(f, n)' = Unread(f, n)
    BY DEF Unread, Loses
  <2>4. UNCHANGED <<content, seen, printed>>
    BY DEF Loses
  <2> QED BY <1>1, <1>2, <2>2, <2>3, <2>4 DEF SeenAgrees
<1>6. FollowedOnce'
  BY <1>1 DEF FollowedOnce, Ascending, Loses
<1> QED BY <1>2, <1>3, <1>4, <1>5, <1>6

\* A Write, whatever it finds: room in the active file, a rotation that goes through, or one
\* in which some of the renames fail.
LEMMA WritesKeepInv ==
    ASSUME LogInv, Writes
    PROVE  LogInv'
<1> USE LogAssumption
<1> DEFINE held == Len(content[Newest])
<1>1. CASE Len(Active) + 1 <= MaxChunks
  BY <1>1, WriteFits
<1>2. CASE ~(Len(Active) + 1 <= MaxChunks)
  <2>1. PICK failed \in SUBSET {i \in 0 .. Backups - 1 : paths[i] # NoFile} :
          LET at == Rotated(failed)
              fresh == at[0] = NoFile
              first == IF failed = {} THEN <<NextChunk>> ELSE <<>>
          IN  /\ paths' = IF fresh THEN [at EXCEPT ![0] = Len(content) + 1] ELSE at
              /\ content' = IF fresh THEN Append(content, first) ELSE content
              /\ copying' = (failed = {})
    BY <1>2 DEF Writes
  <2> DEFINE at == Rotated(failed)
             first == IF failed = {} THEN <<NextChunk>> ELSE <<>>
  <2>2. /\ WrittenInOrder /\ FilesInOrder /\ PathsInOrder /\ NothingLost /\ copying
        /\ Newest \in Nat \ {0} /\ held \in Nat
    <3>1. WrittenInOrder /\ FilesInOrder /\ PathsInOrder /\ NothingLost /\ copying
      BY DEF LogInv, Writes
    <3> QED BY <3>1, LogAmounts
  <2>3. /\ at \in [0 .. Backups -> 0 .. Newest]
        /\ at[0] = IF 0 \in failed THEN Newest ELSE NoFile
        /\ \A older, newer \in {i \in 0 .. Backups : at[i] # NoFile} :
              newer < older => at[older] < at[newer]
    BY <2>2, RotationKeepsOrder
  <2>4. /\ paths' = IF at[0] = NoFile THEN [at EXCEPT ![0] = Newest + 1] ELSE at
        /\ content' = IF at[0] = NoFile THEN Append(content, first) ELSE content
        /\ copying' = (failed = {})
    BY <2>1 DEF Newest
  <2>5. /\ NextChunk[1] <= LastLine /\ written' = Append(written, NextChunk)
        /\ UNCHANGED <<seen, printed>>
    BY DEF Writes
  <2>6. at[0] = NoFile \/ (at[0] = Newest /\ failed # {} /\ copying' = FALSE)
    <3>1. 0 \notin failed => at[0] = NoFile
      BY <2>3
    <3>2. 0 \in failed => at[0] = Newest /\ failed # {}
      BY <2>3
    <3>3. failed # {} => copying' = FALSE
      <4>1. copying' = (failed = {})
        BY <2>4
      <4> HIDE DEF at, first
      <4> QED BY <4>1
    <3> HIDE DEF at, first
    <3>4. CASE 0 \in failed
      BY <3>2, <3>3, <3>4
    <3> QED BY <3>1, <3>4
  <2>7. copying' \in BOOLEAN /\ first \in {<<>>, <<NextChunk>>}
    BY <2>4
  <2>8. CASE at[0] # NoFile
    <3>1. Loses
      BY <2>4, <2>5, <2>6, <2>8 DEF Loses
    <3>2. /\ WrittenInOrder' /\ FilesInOrder' /\ SeenAgrees' /\ FollowedOnce' /\ Newest' = Newest
      BY <3>1, WriteLoses
    <3>3. PathsInOrder'
      <4>1. paths' = at /\ at[0] = Newest
        BY <2>4, <2>6, <2>8
      <4> HIDE DEF at
      <4> QED BY <2>3, <3>2, <4>1 DEF PathsInOrder, Present
    <3>4. NothingLost'
      BY <2>6, <2>8 DEF NothingLost
    <3> QED BY <3>2, <3>3, <3>4 DEF LogInv
  <2>9. CASE at[0] = NoFile
    <3>1. OpensFile(first)
      BY <2>4, <2>5, <2>7, <2>9 DEF OpensFile
    <3>2. /\ WrittenInOrder' /\ FilesInOrder' /\ SeenAgrees' /\ FollowedOnce'
          /\ Len(written') = Len(written) + 1 /\ Newest' = Newest + 1
          /\ \A f \in 1 .. Newest : content'[f] = content[f]
          /\ content'[Newest + 1] = first
      BY <3>1, NewFile
    <3>3. paths' = [at EXCEPT ![0] = Newest + 1]
      BY <2>4, <2>9
    <3>4. PathsInOrder'
      <4> HIDE DEF at
      <4>1. /\ paths' \in [0 .. Backups -> 0 .. Newest + 1] /\ paths'[0] = Newest + 1
            /\ \A i \in 0 .. Backups : i # 0 => paths'[i] = at[i]
        BY <2>2, <2>3, <3>3
      <4>2. ASSUME NEW older \in 0 .. Backups, NEW newer \in 0 .. Backups, newer < older,
                   paths'[older] # NoFile, paths'[newer] # NoFile
            PROVE  paths'[older] < paths'[newer]
        <5>1. older # 0 /\ paths'[older] = at[older] /\ at[older] \in 0 .. Newest
          BY <2>3, <4>1, <4>2
        <5>2. CASE newer = 0
          BY <2>2, <4>1, <5>1, <5>2
        <5>3. CASE newer # 0
          BY <2>3, <4>1, <4>2, <5>1, <5>3
        <5> QED BY <5>2, <5>3
      <4> QED BY <3>2, <4>1, <4>2 DEF PathsInOrder, Present
    <3>5. CASE failed # {}
      <4>1. NothingLost'
        BY <2>4, <3>5 DEF NothingLost
      <4> QED BY <3>2, <3>4, <4>1 DEF LogInv
    <3>6. CASE failed = {}
      <4> DEFINE base == (Newest - 1) * MaxChunks
      <4>1. /\ \A f \in 1 .. Newest : \A n \in 1 .. Len(content[f]) :
                  Order(content[f][n]) = (f - 1) * MaxChunks + n + 1
            /\ \A f \in 1 .. Newest : f < Newest => Len(content[f]) = MaxChunks
            /\ held <= MaxChunks /\ Len(written) = base + held
            /\ \A k \in DOMAIN written : \E f \in 1 .. Newest : \E n \in 1 .. Len(content[f]) :
                  content[f][n] = written[k]
            /\ \A i \in 0 .. Backups : paths[i] = IF i < Newest THEN Newest - i ELSE NoFile
        BY <2>2 DEF NothingLost
      <4>2. held = MaxChunks
        <5>1. Active = content[Newest]
          BY <2>2 DEF PathsInOrder, Active
        <5> QED BY <1>2, <2>2, <4>1, <5>1
      <4>3. /\ base \in Nat /\ Newest * MaxChunks = base + MaxChunks
        BY <2>2
      <4>4. Len(written) = Newest * MaxChunks /\ Order(NextChunk) = Newest * MaxChunks + 2
        BY <2>2, <2>5, <4>1, <4>2, <4>3, OrderOfNext
      <4>5. /\ content'[Newest + 1] = <<NextChunk>> /\ Len(content'[Newest + 1]) = 1
            /\ content'[Newest + 1][1] = NextChunk
        BY <3>2, <3>6
      <4>6. \A f \in 1 .. Newest + 1 : f \in 1 .. Newest \/ f = Newest + 1
        BY <2>2
      <4> HIDE DEF held, base
      <4>7. \A f \in 1 .. Newest + 1 : \A n \in 1 .. Len(content'[f]) :
               Order(content'[f][n]) = (f - 1) * MaxChunks + n + 1
        <5>1. ASSUME NEW n \in 1 .. Len(content'[Newest + 1])
              PROVE  Order(content'[Newest + 1][n]) = ((Newest + 1) - 1) * MaxChunks + n + 1
          <6>1. n = 1 /\ (Newest + 1) - 1 = Newest
            BY <2>2, <4>5, <5>1
          <6>2. Newest * MaxChunks \in Nat
            BY <2>2
          <6> DEFINE all == Newest * MaxChunks
          <6>3. Order(NextChunk) = all + 2 /\ content'[Newest + 1][n] = NextChunk /\ all \in Nat
            BY <4>4, <4>5, <6>1, <6>2
          <6> HIDE DEF all
          <6>4. Order(content'[Newest + 1][n]) = all + n + 1
            BY <6>1, <6>3
          <6> QED BY <6>1, <6>4 DEF all
        <5>2. ASSUME NEW f \in 1 .. Newest, NEW n \in 1 .. Len(content'[f])
              PROVE  Order(content'[f][n]) = (f - 1) * MaxChunks + n + 1
          <6>1. content'[f] = content[f]
            BY <3>2
          <6> QED BY <4>1, <6>1
        <5> QED BY <4>6, <5>1, <5>2
      <4>8. \A f \in 1 .. Newest + 1 : f < Newest + 1 => Len(content'[f]) = MaxChunks
        <5>1. \A f \in 1 .. Newest : Len(content[f]) = MaxChunks
          BY <2>2, <4>1, <4>2 DEF held
        <5> QED BY <2>2, <3>2, <4>6, <5>1
      <4>9. Len(written') = ((Newest + 1) - 1) * MaxChunks + Len(content'[Newest + 1])
        <5>1. (Newest + 1) - 1 = Newest
          BY <2>2
        <5> QED BY <3>2, <4>4, <4>5, <5>1
      <4>10. ASSUME NEW k \in DOMAIN written'
             PROVE  \E f \in 1 .. Newest + 1 : \E n \in 1 .. Len(content'[f]) :
                       content'[f][n] = written'[k]
        <5>1. CASE k = Len(written) + 1
          <6>1. written'[k] = NextChunk
            BY <2>2, <2>5, <5>1 DEF WrittenInOrder
          <6>2. Newest + 1 \in 1 .. Newest + 1 /\ 1 \in 1 .. Len(content'[Newest + 1])
            BY <2>2, <4>5
          <6> QED BY <4>5, <6>1, <6>2
        <5>2. CASE k # Len(written) + 1
          <6>1. k \in DOMAIN written /\ written'[k] = written[k]
            BY <2>2, <2>5, <3>2, <5>2 DEF WrittenInOrder
          <6>2. PICK f \in 1 .. Newest : \E n \in 1 .. Len(content[f]) : content[f][n] = written[k]
            BY <4>1, <6>1
          <6>3. f \in 1 .. Newest + 1
            BY <2>2
          <6> QED BY <3>2, <6>1, <6>2, <6>3
        <5> QED BY <5>1, <5>2
      <4>11. ASSUME NEW i \in 0 .. Backups
             PROVE  paths'[i] = IF i < Newest + 1 THEN (Newest + 1) - i ELSE NoFile
        <5>1. \A j \in 0 .. Backups - 1 : j \notin failed
          BY <3>6
        <5>2. i # 0 => paths'[i] = IF paths[i - 1] # NoFile THEN paths[i - 1]
                                   ELSE IF paths[i] # NoFile /\ i # Backups THEN NoFile
                                   ELSE IF i = Backups THEN NoFile ELSE paths[i]
          BY <2>2, <2>3, <3>3, <3>6 DEF Rotated
        <5>3. i = 0 => paths'[i] = Newest + 1
          BY <2>3, <3>3
        <5> QED BY <2>2, <4>1, <5>2, <5>3 DEF NoFile
      <4>12. NothingLost'
        BY <3>2, <4>5, <4>7, <4>8, <4>9, <4>10, <4>11 DEF NothingLost
      <4> QED BY <3>2, <3>4, <4>12 DEF LogInv
    <3> QED BY <3>5, <3>6
  <2> QED BY <2>8, <2>9
<1> QED BY <1>1, <1>2

\* A tick of the follower.
LEMMA PollsKeepInv ==
    ASSUME LogInv, Polls
    PROVE  LogInv'
<1> DEFINE file == paths[0]
           chunks == content[file]
           offset == IF file # seen.file \/ Len(content[file]) < seen.offset THEN 0
                                                                             ELSE seen.offset
           upto == WholeUpTo(chunks, offset)
           more == SubSeq(chunks, offset + 1, upto)
<1>1. /\ WrittenInOrder /\ FilesInOrder /\ PathsInOrder /\ NothingLost /\ SeenAgrees /\ FollowedOnce
  BY DEF LogInv
<1>2. /\ seen' = [file |-> file, offset |-> upto] /\ printed' = printed \o more
      /\ UNCHANGED <<paths, content, written, copying>>
  BY DEF Polls
<1>3. file = Newest /\ Newest \in Nat \ {0} /\ chunks \in Seq(Chunks) /\ Len(chunks) \in Nat
      /\ \A n \in 1 .. Len(chunks) : chunks[n] \in Chunks /\ Order(chunks[n]) \in Int
  <2>1. file = Newest /\ Newest \in Nat \ {0} /\ chunks \in Seq(Chunks) /\ Len(chunks) \in Nat
        /\ \A n \in 1 .. Len(chunks) : chunks[n] \in Chunks
    BY <1>1, LogAmounts DEF PathsInOrder
  <2> QED BY <2>1, OrderOfChunks, LogAssumption
<1>4. /\ seen \in [file : 0 .. Newest, offset : Nat] /\ printed \in Seq(Chunks)
      /\ seen.file = file => seen.offset <= Len(chunks)
  BY <1>1, <1>3 DEF SeenAgrees, NoFile
<1>5. /\ offset \in 0 .. Len(chunks)
      /\ offset = IF file = seen.file THEN seen.offset ELSE 0
  BY <1>3, <1>4
<1>6. \A m, n \in 1 .. Len(chunks) : Order(chunks[n]) - Order(chunks[m]) = n - m
  <2>1. \A f \in 1 .. Newest : \A m, n \in 1 .. Len(content[f]) :
           Order(content[f][n]) - Order(content[f][m]) = n - m
    BY <1>1 DEF FilesInOrder
  <2>2. Newest \in 1 .. Newest /\ chunks = content[Newest]
    BY <1>3
  <2> HIDE DEF chunks
  <2> QED BY <2>1, <2>2
<1>7. upto \in offset .. Len(chunks) /\ (upto = offset \/ chunks[upto][2] = "tail")
  <2>1. DOMAIN chunks = 1 .. Len(chunks)
    BY <1>3
  <2> HIDE DEF chunks, offset
  <2> QED BY <1>3, <1>5, <1>6, <2>1, WholeLines
<1> HIDE DEF file, chunks, offset, upto
<1>8. /\ more \in Seq(Chunks) /\ Len(more) = upto - offset
      /\ \A j \in 1 .. Len(more) : more[j] = chunks[offset + j] /\ offset + j \in 1 .. Len(chunks)
  <2>1. offset \in Nat /\ upto \in Nat /\ offset <= upto /\ upto <= Len(chunks) /\ Len(chunks) \in Nat
    BY <1>3, <1>5, <1>7
  <2>2. \A k \in offset + 1 .. upto : chunks[k] \in Chunks
    BY <1>3, <2>1
  <2>3. more = [j \in 1 .. upto - offset |-> chunks[offset + j]]
    BY <1>3, <2>1
  <2> HIDE DEF more
  <2>4. more \in Seq(Chunks) /\ Len(more) = upto - offset
    BY <2>1, <2>2, <2>3
  <2> QED BY <2>1, <2>3, <2>4
<1>9. \A n \in 1 .. Len(chunks) : n > offset => Unread(Newest, n)
  BY <1>3, <1>4, <1>5 DEF Unread
<1> HIDE DEF more
<1> DEFINE P == Len(printed)
<1>10. /\ printed' \in Seq(Chunks) /\ Len(printed') = P + Len(more) /\ P \in Nat /\ Len(more) \in Nat
       /\ \A i \in 1 .. P : printed'[i] = printed[i]
       /\ \A j \in 1 .. Len(more) : printed'[P + j] = more[j]
  BY <1>2, <1>4, <1>8
<1>11. \A i \in 1 .. P, n \in 1 .. Len(chunks) : n > offset => Order(printed[i]) < Order(chunks[n])
  <2>1. \A i \in 1 .. P, n \in 1 .. Len(chunks) :
           Unread(Newest, n) => Order(printed[i]) < Order(chunks[n])
    BY <1>1, <1>3, <1>4 DEF SeenAgrees, chunks
  <2> QED BY <1>9, <2>1
<1>12. /\ offset \in Nat /\ upto \in Nat /\ offset <= upto /\ upto <= Len(chunks)
  BY <1>3, <1>5, <1>7
<1>13. \A i \in 1 .. Len(printed') :
          \/ i \in 1 .. P /\ printed'[i] = printed[i]
          \/ /\ i > P /\ i - P \in 1 .. Len(more)
             /\ printed'[i] = chunks[offset + (i - P)] /\ offset + (i - P) \in offset + 1 .. upto
  <2> SUFFICES ASSUME NEW i \in 1 .. Len(printed'), i > P
               PROVE  /\ i - P \in 1 .. Len(more)
                      /\ printed'[i] = chunks[offset + (i - P)]
                      /\ offset + (i - P) \in offset + 1 .. upto
    BY <1>10
  <2>1. i - P \in 1 .. Len(more) /\ P + (i - P) = i
    BY <1>10
  <2>2. printed'[i] = more[i - P]
    BY <1>10, <2>1
  <2>3. printed'[i] = chunks[offset + (i - P)]
    BY <1>8, <2>1, <2>2
  <2>4. offset + (i - P) \in offset + 1 .. upto
    <3>1. Len(more) = upto - offset
      BY <1>8
    <3> HIDE DEF P
    <3> QED BY <1>12, <2>1, <3>1
  <2> QED BY <2>1, <2>3, <2>4
<1> HIDE DEF P
<1>14. P = Len(printed)
  BY DEF P
<1>15. Ascending(printed')
  <2> SUFFICES ASSUME NEW i \in 1 .. Len(printed') - 1
               PROVE  Order(printed'[i]) < Order(printed'[i + 1])
    BY DEF Ascending
  <2>1. i \in 1 .. Len(printed') /\ i + 1 \in 1 .. Len(printed')
    BY <1>10
  <2>2. CASE i + 1 \in 1 .. P
    <3>1. i \in 1 .. P - 1 /\ printed'[i] = printed[i] /\ printed'[i + 1] = printed[i + 1]
      BY <1>10, <2>1, <2>2
    <3> QED BY <1>1, <1>14, <3>1 DEF FollowedOnce, Ascending
  <2>3. CASE i + 1 \notin 1 .. P
    <3>1. /\ printed'[i + 1] = chunks[offset + ((i + 1) - P)]
          /\ offset + ((i + 1) - P) \in offset + 1 .. upto
      <4> DEFINE j == i + 1
      <4>1. j \in 1 .. Len(printed') /\ j \notin 1 .. P
        BY <2>1, <2>3
      <4> HIDE DEF j
      <4>2. printed'[j] = chunks[offset + (j - P)] /\ offset + (j - P) \in offset + 1 .. upto
        BY <1>13, <4>1
      <4> QED BY <4>2 DEF j
    <3>2. CASE i \in 1 .. P
      <4>1. printed'[i] = printed[i]
        BY <1>10, <3>2
      <4> QED BY <1>11, <1>12, <3>1, <3>2, <4>1
    <3>3. CASE i \notin 1 .. P
      <4>1. /\ printed'[i] = chunks[offset + (i - P)] /\ offset + (i - P) \in offset + 1 .. upto
        BY <1>13, <2>1, <3>3
      <4> DEFINE k == offset + (i - P)
      <4>2. offset + ((i + 1) - P) = k + 1 /\ k \in 1 .. Len(chunks) /\ k + 1 \in 1 .. Len(chunks)
        BY <1>3, <1>10, <1>12, <3>1, <4>1
      <4> HIDE DEF k
      <4>3. Order(chunks[k + 1]) - Order(chunks[k]) = (k + 1) - k
        BY <1>6, <4>2
      <4>4. Order(chunks[k + 1]) \in Int /\ Order(chunks[k]) \in Int /\ k \in Int
        BY <1>3, <4>2
      <4>5. Order(chunks[k]) < Order(chunks[k + 1])
        BY <4>3, <4>4
      <4> QED BY <3>1, <4>1, <4>2, <4>5 DEF k
    <3> QED BY <3>2, <3>3
  <2> QED BY <2>2, <2>3
<1>16. printed' # <<>> => printed'[Len(printed')][2] = "tail"
  <2>1. CASE Len(more) = 0
    <3>1. Len(printed') = P /\ (P # 0 => printed'[P] = printed[P])
      BY <1>10, <2>1
    <3>2. printed' # <<>> => P # 0 /\ printed # <<>>
      BY <1>4, <1>10, <1>14, <3>1
    <3> QED BY <1>1, <1>14, <3>1, <3>2 DEF FollowedOnce
  <2>2. CASE Len(more) # 0
    <3>1. Len(more) \in 1 .. Len(more) /\ offset + Len(more) = upto /\ upto # offset
      BY <1>8, <1>10, <1>12, <2>2
    <3>2. printed'[Len(printed')] = chunks[upto]
      BY <1>8, <1>10, <3>1
    <3> QED BY <1>7, <3>1, <3>2
  <2> QED BY <2>1, <2>2
<1>17. ASSUME NEW i \in 1 .. Len(printed') - 1, printed'[i][2] = "head"
       PROVE  printed'[i + 1] = <<printed'[i][1], "tail">>
  <2>1. i \in 1 .. Len(printed') /\ i + 1 \in 1 .. Len(printed')
    BY <1>10
  <2>2. CASE i + 1 \in 1 .. P
    <3>1. i \in 1 .. P - 1 /\ printed'[i] = printed[i] /\ printed'[i + 1] = printed[i + 1]
      BY <1>10, <2>1, <2>2
    <3> QED BY <1>1, <1>14, <1>17, <3>1 DEF FollowedOnce
  <2>3. CASE i + 1 \notin 1 .. P
    <3>1. i \notin 1 .. P
      <4> SUFFICES ASSUME i \in 1 .. P PROVE FALSE
        OBVIOUS
      <4>1. i = P /\ P # 0 /\ printed'[i] = printed[P] /\ printed # <<>>
        BY <1>4, <1>10, <1>14, <2>3
      <4>2. printed[P][2] = "tail"
        BY <1>1, <1>14, <4>1 DEF FollowedOnce
      <4> QED BY <1>17, <4>1, <4>2
    <3>2. /\ printed'[i + 1] = chunks[offset + ((i + 1) - P)]
          /\ offset + ((i + 1) - P) \in offset + 1 .. upto
      <4> DEFINE j == i + 1
      <4>1. j \in 1 .. Len(printed') /\ j \notin 1 .. P
        BY <2>1, <2>3
      <4> HIDE DEF j
      <4>2. printed'[j] = chunks[offset + (j - P)] /\ offset + (j - P) \in offset + 1 .. upto
        BY <1>13, <4>1
      <4> QED BY <4>2 DEF j
    <3>3. /\ printed'[i] = chunks[offset + (i - P)] /\ offset + (i - P) \in offset + 1 .. upto
      BY <1>13, <2>1, <3>1
    <3> DEFINE k == offset + (i - P)
    <3>4. offset + ((i + 1) - P) = k + 1 /\ k \in 1 .. Len(chunks) /\ k + 1 \in 1 .. Len(chunks)
      BY <1>3, <1>10, <1>12, <3>2, <3>3
    <3> HIDE DEF k
    <3>5. Order(chunks[k + 1]) - Order(chunks[k]) = (k + 1) - k
      BY <1>6, <3>4
    <3>6. Order(chunks[k + 1]) = Order(chunks[k]) + 1
      <4>1. Order(chunks[k + 1]) \in Int /\ Order(chunks[k]) \in Int /\ k \in Int
        BY <1>3, <3>4
      <4> QED BY <3>5, <4>1
    <3>7. chunks[k][2] = "head" => chunks[k + 1] = <<chunks[k][1], "tail">>
      BY <1>3, <3>4, <3>6, OrderOfChunks
    <3> QED BY <1>17, <3>2, <3>3, <3>4, <3>7 DEF k
  <2> QED BY <2>2, <2>3
<1>18. SeenAgrees'
  <2>1. seen' = [file |-> Newest, offset |-> upto]
    BY <1>2, <1>3
  <2>2. /\ content' = content /\ written' = written /\ Newest' = Newest
    BY <1>2 DEF Newest
  <2>3. ASSUME NEW i \in 1 .. Len(printed')
        PROVE  /\ Order(printed'[i]) <= Len(written) + 1
               /\ \A n \in 1 .. Len(chunks) : n > upto => Order(printed'[i]) < Order(chunks[n])
    <3>1. CASE i \in 1 .. P /\ printed'[i] = printed[i]
      <4>1. i \in DOMAIN printed
        BY <1>4, <1>14, <3>1
      <4> QED BY <1>1, <1>11, <1>12, <3>1, <4>1 DEF SeenAgrees
    <3>2. ASSUME NEW k \in offset + 1 .. upto, printed'[i] = chunks[k]
          PROVE  /\ Order(printed'[i]) <= Len(written) + 1
                 /\ \A n \in 1 .. Len(chunks) : n > upto => Order(printed'[i]) < Order(chunks[n])
      <4>1. k \in 1 .. Len(chunks) /\ k <= upto /\ k \in Int
        BY <1>3, <1>12
      <4>2. Order(chunks[k]) <= Len(written) + 1
        BY <1>1, <1>3, <4>1 DEF FilesInOrder, chunks
      <4>3. \A n \in 1 .. Len(chunks) : n > upto => Order(chunks[k]) < Order(chunks[n])
        <5> SUFFICES ASSUME NEW n \in 1 .. Len(chunks), n > upto
                     PROVE  Order(chunks[k]) < Order(chunks[n])
          OBVIOUS
        <5>1. Order(chunks[n]) - Order(chunks[k]) = n - k
          BY <1>6, <4>1
        <5>2. Order(chunks[n]) \in Int /\ Order(chunks[k]) \in Int
          BY <1>3, <4>1
        <5> QED BY <1>12, <4>1, <5>1, <5>2
      <4> QED BY <3>2, <4>2, <4>3
    <3> QED BY <1>13, <3>1, <3>2
  <2>4. ASSUME NEW i \in 1 .. Len(printed'), NEW f \in 1 .. Newest, NEW n \in 1 .. Len(content[f]),
               Unread(f, n)'
        PROVE  Order(printed'[i]) < Order(content[f][n])
    <3>1. f = Newest /\ n > upto
      BY <1>3, <2>1, <2>4 DEF Unread
    <3> QED BY <1>3, <2>3, <3>1 DEF chunks
  <2>5. DOMAIN printed' = 1 .. Len(printed')
    BY <1>10
  <2>6. /\ seen'.file = Newest /\ seen'.offset = upto /\ Newest # NoFile
        /\ seen' \in [file : 0 .. Newest, offset : Nat] /\ upto <= Len(content[Newest])
    BY <1>3, <1>12, <2>1 DEF NoFile, chunks
  <2> QED BY <1>10, <2>2, <2>3, <2>4, <2>5, <2>6 DEF SeenAgrees
<1>19. WrittenInOrder' /\ FilesInOrder' /\ PathsInOrder' /\ NothingLost'
  BY <1>1, <1>2 DEF WrittenInOrder, FilesInOrder, PathsInOrder, NothingLost, Newest, Present
<1> QED BY <1>15, <1>16, <1>17, <1>18, <1>19 DEF LogInv, FollowedOnce

(* However writes, failing renames and ticks interleave, the invariant above *)
(* holds (RotatingWriter.Write, rotate, followFile).                         *)
THEOREM LogInvariance == LogSpec => []LogInv
<1>1. LogInv /\ UNCHANGED logVars => LogInv'
  BY DEF logVars, LogInv, WrittenInOrder, FilesInOrder, PathsInOrder, NothingLost, SeenAgrees,
         FollowedOnce, Newest, Present, Unread, Ascending
<1>2. LogInv /\ [LogNext]_logVars => LogInv'
  BY <1>1, WritesKeepInv, PollsKeepInv DEF LogNext
<1> QED BY <1>2, LogInitInv, PTL DEF LogSpec

(* The variables of the log have their types, the file numbers and the       *)
(* follower's place their bounds.                                            *)
THEOREM LogTypeCorrect == LogSpec => []LogTypeOK
<1> SUFFICES ASSUME LogInv PROVE LogTypeOK
  BY LogInvariance, PTL
<1> USE LogAssumption
<1>1. /\ Len(written) \in 0 .. 2 * LastLine /\ Newest \in Nat \ {0} /\ Newest <= Len(written) + 1
      /\ DOMAIN content = 1 .. Newest
      /\ \A f \in 1 .. Newest : content[f] \in Seq(Chunks) /\ Len(content[f]) \in 0 .. Len(written)
  <2>1. WrittenInOrder /\ FilesInOrder
    BY DEF LogInv
  <2>2. Newest <= Len(written) + 1
    BY <2>1, LogAmounts DEF FilesInOrder
  <2> QED BY <2>1, <2>2, LogAmounts
<1>2. Newest \in Files /\ 0 .. Newest \subseteq Files \cup {NoFile}
  BY <1>1 DEF Files, NoFile
<1>3. paths \in [0 .. Backups -> Files \cup {NoFile}]
  BY <1>2 DEF LogInv, PathsInOrder
<1>4. seen \in [file : Files \cup {NoFile}, offset : 0 .. Len(written)]
  <2>1. /\ seen \in [file : 0 .. Newest, offset : Nat]
        /\ seen.file # NoFile => seen.offset <= Len(content[seen.file])
        /\ seen.file = NoFile => seen.offset = 0
    BY DEF LogInv, SeenAgrees
  <2>2. seen.file # NoFile => seen.file \in 1 .. Newest
    BY <1>1, <2>1 DEF NoFile
  <2>3. seen.offset \in 0 .. Len(written)
    BY <1>1, <2>1, <2>2
  <2> QED BY <1>2, <2>1, <2>3
<1> QED BY <1>1, <1>3, <1>4 DEF LogInv, LogTypeOK, WrittenInOrder, SeenAgrees

\* What the files hold, read from the oldest to the active one.
LEMMA FilesHoldTheOutput ==
    ASSUME LogInv
    PROVE  LogsStayInOrder
<1> USE LogAssumption
<1>1. /\ WrittenInOrder /\ FilesInOrder /\ PathsInOrder /\ NothingLost
  BY DEF LogInv
<1>2. /\ Newest \in Nat \ {0} /\ Len(written) \in Nat /\ DOMAIN written = 1 .. Len(written)
      /\ \A f \in 1 .. Newest :
            /\ Len(content[f]) \in Nat /\ DOMAIN content[f] = 1 .. Len(content[f])
            /\ \A n \in 1 .. Len(content[f]) : content[f][n] \in Chunks /\ Order(content[f][n]) \in Nat
  <2>1. /\ Newest \in Nat \ {0} /\ Len(written) \in Nat /\ DOMAIN written = 1 .. Len(written)
        /\ \A f \in 1 .. Newest :
              /\ Len(content[f]) \in Nat /\ DOMAIN content[f] = 1 .. Len(content[f])
              /\ \A n \in 1 .. Len(content[f]) : content[f][n] \in Chunks
    BY <1>1, LogAmounts DEF WrittenInOrder
  <2> QED BY <2>1, OrderOfChunks
<1>3. \A i \in Present : i \in 0 .. Backups /\ paths[i] \in 1 .. Newest
  BY <1>1, <1>2 DEF PathsInOrder, Present, NoFile
<1>4. ASSUME NEW i \in Present PROVE Ascending(content[paths[i]])
  <2> DEFINE f == paths[i]
  <2>1. f \in 1 .. Newest
    BY <1>3
  <2> HIDE DEF f
  <2>2. \A n \in 1 .. Len(content[f]) - 1 : Order(content[f][n]) < Order(content[f][n + 1])
    <3> SUFFICES ASSUME NEW n \in 1 .. Len(content[f]) - 1
                 PROVE  Order(content[f][n]) < Order(content[f][n + 1])
      OBVIOUS
    <3>1. n \in 1 .. Len(content[f]) /\ n + 1 \in 1 .. Len(content[f])
      BY <1>2, <2>1
    <3>2. Order(content[f][n + 1]) - Order(content[f][n]) = (n + 1) - n
      BY <1>1, <2>1, <3>1 DEF FilesInOrder
    <3>3. Order(content[f][n + 1]) \in Nat /\ Order(content[f][n]) \in Nat
      BY <1>2, <2>1, <3>1
    <3> QED BY <3>2, <3>3
  <2> QED BY <2>2 DEF Ascending, f
<1>5. ASSUME NEW older \in Present, NEW newer \in Present, newer < older,
             NEW m \in DOMAIN content[paths[older]], NEW n \in DOMAIN content[paths[newer]]
      PROVE  Order(content[paths[older]][m]) < Order(content[paths[newer]][n])
  <2>1. paths[older] < paths[newer]
    BY <1>1, <1>5 DEF PathsInOrder
  <2>2. paths[older] \in 1 .. Newest /\ paths[newer] \in 1 .. Newest
    BY <1>3
  <2> QED BY <1>1, <1>2, <2>1, <2>2 DEF FilesInOrder
<1>6. ASSUME copying, NEW c \in Chunks, Keeps(c)
      PROVE  \E k \in DOMAIN written : written[k] = c
  <2>1. PICK i \in Present : \E n \in DOMAIN content[paths[i]] : content[paths[i]][n] = c
    BY <1>6 DEF Keeps
  <2>2. PICK n \in DOMAIN content[paths[i]] : content[paths[i]][n] = c
    BY <2>1
  <2> DEFINE k == Order(c) - 1
  <2>3. Order(c) <= Len(written) + 1 /\ Order(c) \in Nat /\ Order(c) >= 2
    <3>1. Order(c) \in Nat /\ Order(c) >= 2
      BY OrderOfChunks
    <3>2. paths[i] \in 1 .. Newest
      BY <1>3
    <3> QED BY <1>1, <1>2, <2>2, <3>1, <3>2 DEF FilesInOrder
  <2>4. k \in DOMAIN written /\ k + 1 = Order(c)
    BY <1>2, <2>3
  <2>5. written[k] \in Chunks /\ Order(written[k]) = Order(c)
    BY <1>1, <2>4 DEF WrittenInOrder
  <2> QED BY <2>4, <2>5, OrderOfChunks
<1>7. ASSUME copying, NEW k \in DOMAIN written,
             k > Len(written) - Backups * MaxChunks \/ (k > 1 /\ Keeps(written[k - 1]))
      PROVE  Keeps(written[k])
  <2>1. PICK f \in 1 .. Newest : \E n \in 1 .. Len(content[f]) : content[f][n] = written[k]
    BY <1>1, <1>7 DEF NothingLost
  <2>2. PICK n \in 1 .. Len(content[f]) : content[f][n] = written[k]
    BY <2>1
  <2>3. /\ Order(written[k]) = k + 1 /\ k \in 1 .. Len(written)
        /\ k > 1 => k - 1 \in DOMAIN written /\ Order(written[k - 1]) = k
    <3>1. k \in 1 .. Len(written) /\ Order(written[k]) = k + 1
      BY <1>1, <1>2 DEF WrittenInOrder
    <3>2. ASSUME k > 1 PROVE k - 1 \in DOMAIN written /\ Order(written[k - 1]) = (k - 1) + 1
      BY <1>1, <1>2, <3>1, <3>2 DEF WrittenInOrder
    <3> QED BY <3>1, <3>2
  <2>4. f >= Newest - Backups
    <3> SUFFICES ASSUME f < Newest - Backups PROVE FALSE
      BY <1>2
    <3>1. CASE k > Len(written) - Backups * MaxChunks
      <4>1. Order(written[k]) = (f - 1) * MaxChunks + n + 1
        BY <1>1, <1>7, <2>2 DEF NothingLost
      <4>2. n <= MaxChunks /\ n \in Nat
        BY <1>1, <1>2, <1>7, <3>1 DEF NothingLost
      <4>3. Len(written) >= (Newest - 1) * MaxChunks
        <5>1. (Newest - 1) * MaxChunks \in Nat /\ Len(content[Newest]) \in Nat
          BY <1>2
        <5> QED BY <1>1, <1>7, <5>1 DEF NothingLost
      <4> DEFINE rest == Newest - 1 - Backups - f
      <4>4. rest \in Nat /\ f - 1 \in Nat /\ Newest - 1 = (f - 1) + 1 + Backups + rest
        BY <1>2
      <4> HIDE DEF rest
      <4>5. (Newest - 1) * MaxChunks
               = (f - 1) * MaxChunks + MaxChunks + Backups * MaxChunks + rest * MaxChunks
        BY <4>4
      <4>6. (f - 1) * MaxChunks \in Nat /\ Backups * MaxChunks \in Nat /\ rest * MaxChunks \in Nat
            /\ (Newest - 1) * MaxChunks \in Nat
        BY <1>2, <4>4
      <4> QED BY <1>2, <2>3, <3>1, <4>1, <4>2, <4>3, <4>5, <4>6
    <3>2. CASE k > 1 /\ Keeps(written[k - 1])
      <4>1. PICK i \in Present : \E m \in DOMAIN content[paths[i]] : content[paths[i]][m] = written[k - 1]
        BY <3>2 DEF Keeps
      <4>2. PICK m \in DOMAIN content[paths[i]] : content[paths[i]][m] = written[k - 1]
        BY <4>1
      <4>3. paths[i] = Newest - i /\ paths[i] \in 1 .. Newest /\ i \in 0 .. Backups
        BY <1>1, <1>2, <1>3, <1>7 DEF NothingLost, Present, NoFile
      <4>4. f < paths[i]
        BY <1>2, <4>3
      <4>5. m \in 1 .. Len(content[paths[i]])
        BY <1>2, <4>3
      <4>6. Order(content[f][n]) < Order(content[paths[i]][m])
        BY <1>1, <4>3, <4>4, <4>5 DEF FilesInOrder
      <4> QED BY <2>2, <2>3, <3>2, <4>2, <4>6
    <3> QED BY <1>7, <3>1, <3>2
  <2>5. Newest - f \in 0 .. Backups /\ Newest - f < Newest /\ Newest - (Newest - f) = f
    BY <1>2, <2>4
  <2>6. paths[Newest - f] = f
    BY <1>1, <1>7, <2>5 DEF NothingLost
  <2>7. Newest - f \in Present
    BY <2>5, <2>6 DEF Present, NoFile
  <2>8. n \in DOMAIN content[paths[Newest - f]] /\ content[paths[Newest - f]][n] = written[k]
    BY <1>2, <2>2, <2>6
  <2> QED BY <2>7, <2>8 DEF Keeps
<1> QED BY <1>4, <1>5, <1>6, <1>7 DEF LogsStayInOrder

(* wizard attach prints nothing twice or out of order and no half lines, and *)
(* the log's files, read from the oldest to the active one, are the child's  *)
(* most recent output in order and without a gap (followFile, rotate).       *)
THEOREM LogsKeepTheOrder == LogSpec => []LogsAreInOrder
<1>1. LogInv => LogsAreInOrder
  BY FilesHoldTheOutput DEF LogsAreInOrder, LogInv
<1> QED BY <1>1, LogInvariance, PTL

-----------------------------------------------------------------------------
(***************************************************************************)
(* The daemon between wizard start and wizard stop, for any number of      *)
(* supervisors and restarts, where commands are typed in one terminal at a *)
(* time. The hypothesis is needed: RunStart records the daemon's pid after *)
(* the fact, and no lock keeps a second command from starting another one  *)
(* in between.                                                             *)
(*                                                                         *)
(* That every process is accounted for is not inductive: it rests on which *)
(* children each place in daemon.Run allows (MayRun) and on what each      *)
(* place in a command knows of the supervisors (CommandsKnow).             *)
(***************************************************************************)

OneTerminal == \A t, u \in Terminals : t = u

Acting == {"boot", "boot2", "loop", "frontcheck", "backoff", "cleanup", "leave"}

\* A supervisor lives while it is somewhere in Run, and there is one at most.
OneSupervises ==
    /\ \A s \in Sups : Supervising(s) <=> sup[s].pc \in Acting
    /\ \A r, s \in Sups : Supervising(r) /\ Supervising(s) => r = s

FilesName ==
    /\ pidfile["daemon"] \in {<<s>> : s \in Sups} \cup {NoProcess}
    /\ \A l \in Labels : pidfile[l] \in Children \cup {NoProcess}

\* Where the supervisor may have a child with this label.
MayRun(s, l) ==
    \/ sup[s].pc \in {"loop", "frontcheck"}
    \/ sup[s].pc = "boot2" /\ l = "backend"
    \/ sup[s].pc = "backoff" /\ l # sup[s].which

\* A living child is the one its supervisor and its pid file know of, or an orphan.
ChildKnown(s, l, n) ==
    \/ sup[s].pc = "killed"
    \/ /\ Supervising(s)
       /\ n = sup[s].restarts[l]
       /\ pidfile[l] = <<s, l, n>>
       /\ MayRun(s, l)

ChildrenKnown ==
    \A s \in Sups, l \in Labels, n \in 0 .. MaxRestarts :
       <<s, l, n>> \in alive => ChildKnown(s, l, n)

CommandsKnow ==
    \A t \in Terminals :
       /\ cli[t].at = "spawned" =>
             cli[t].sup \in Sups /\ \A s \in Sups : Supervising(s) => s = cli[t].sup
       /\ cli[t].at # "spawned" => \A s \in Sups : Supervising(s) => pidfile["daemon"] = <<s>>
       /\ cli[t].at = "killed" => \A s \in Sups : ~Supervising(s)

CliInv ==
    /\ SupTypeOK /\ CliTypeOK
    /\ OneSupervises /\ FilesName /\ ChildrenKnown /\ CommandsKnow

\* The processes have names of their own.
LEMMA Names ==
    /\ \A s, r \in Sups : <<s>> = <<r>> => s = r
    /\ \A s \in Sups : <<s>> # NoProcess /\ <<s>> \notin Children /\ <<s>> \in Processes /\ <<s>>[1] = s
    /\ NoProcess \notin Processes
    /\ \A s \in Sups, l \in Labels, n \in 0 .. MaxRestarts :
          /\ <<s, l, n>> \in Children /\ <<s, l, n>> \in Processes
          /\ <<s, l, n>>[1] = s /\ <<s, l, n>>[2] = l
          /\ \A r \in Sups : <<r>> # <<s, l, n>>
          /\ \A r \in Sups, k \in Labels, m \in 0 .. MaxRestarts :
                <<s, l, n>> = <<r, k, m>> => s = r /\ l = k /\ n = m
    /\ \A p \in Children :
          \E s \in Sups, l \in Labels, n \in 0 .. MaxRestarts : p = <<s, l, n>>
<1>1. \A s, r \in Sups : <<s>> = <<r>> => s = r
  OBVIOUS
<1>2. \A s \in Sups : <<s>> \notin Children
  BY DEF Children
<1>3. \A s \in Sups : <<s>> # NoProcess /\ <<s>> \in Processes /\ <<s>>[1] = s
  BY DEF NoProcess, Processes
<1>4. NoProcess \notin Processes
  BY DEF NoProcess, Processes, Children
<1>5. \A p \in Children :
          \E s \in Sups, l \in Labels, n \in 0 .. MaxRestarts : p = <<s, l, n>>
  BY DEF Children
<1>6. ASSUME NEW s \in Sups, NEW l \in Labels, NEW n \in 0 .. MaxRestarts
      PROVE  /\ <<s, l, n>> \in Children /\ <<s, l, n>> \in Processes
             /\ <<s, l, n>>[1] = s /\ <<s, l, n>>[2] = l
             /\ \A r \in Sups : <<r>> # <<s, l, n>>
             /\ \A r \in Sups, k \in Labels, m \in 0 .. MaxRestarts :
                   <<s, l, n>> = <<r, k, m>> => s = r /\ l = k /\ n = m
  <2>1. <<s, l, n>> \in Children /\ <<s, l, n>> \in Processes
    BY DEF Children, Processes
  <2> QED BY <1>2, <2>1
<1> QED BY <1>1, <1>2, <1>3, <1>4, <1>5, <1>6

\* What the steps do to the state of a supervisor, to the pid files and to the processes.
States == [pc : Phases, which : Labels, then : {"loop", "frontcheck"},
           restarts : [Labels -> 0 .. MaxRestarts],
           streak : [Labels -> 0 .. FailuresToRestart - 1]]
PidFiles == [Labels \cup {"daemon"} -> Processes \cup {NoProcess}]

LEMMA Ending ==
    ASSUME SupTypeOK, NEW s \in Sups, NEW pc \in Phases, Ends(s, pc)
    PROVE  /\ sup' \in [Sups -> States] /\ sup'[s].pc = pc
           /\ \A r \in Sups : r # s => sup'[r] = sup[r]
<1> USE SupervisorAssumption
<1>1. Memory(pc) \in States /\ Memory(pc).pc = pc
  BY DEF Memory, States, Labels
<1>2. sup \in [Sups -> States]
  BY DEF SupTypeOK, States
<1> QED BY <1>1, <1>2 DEF Ends

LEMMA Going ==
    ASSUME SupTypeOK, NEW s \in Sups, NEW pc \in Phases, Goes(s, pc)
    PROVE  /\ sup' \in [Sups -> States] /\ sup'[s].pc = pc
           /\ sup'[s].restarts = sup[s].restarts /\ sup'[s].which = sup[s].which
           /\ \A r \in Sups : r # s => sup'[r] = sup[r]
<1>1. sup \in [Sups -> States]
  BY DEF SupTypeOK, States
<1>2. [sup[s] EXCEPT !.pc = pc] \in States
  BY <1>1 DEF States
<1> QED BY <1>1, <1>2 DEF Goes, States

LEMMA Removing ==
    ASSUME SupTypeOK, FilesName, NEW fs \in SUBSET (Labels \cup {"daemon"}), pidfile' = Removed(fs)
    PROVE  /\ pidfile' \in PidFiles /\ FilesName'
           /\ \A f \in Labels \cup {"daemon"} : pidfile'[f] = IF f \in fs THEN NoProcess ELSE pidfile[f]
<1>1. pidfile \in PidFiles
  BY DEF SupTypeOK, PidFiles
<1>2. /\ pidfile' \in PidFiles
      /\ \A f \in Labels \cup {"daemon"} : pidfile'[f] = IF f \in fs THEN NoProcess ELSE pidfile[f]
  BY <1>1 DEF Removed, PidFiles
<1> QED BY <1>2 DEF FilesName

LEMMA Launching ==
    ASSUME SupTypeOK, FilesName, NEW s \in Sups, NEW l \in Labels, Launches(s, l)
    PROVE  /\ pidfile' \in PidFiles /\ FilesName' /\ alive' \subseteq Processes
           /\ pidfile'[l] = Child(s, l) /\ alive' = alive \cup {Child(s, l)}
           /\ \A f \in Labels \cup {"daemon"} : f # l => pidfile'[f] = pidfile[f]
<1>1. Child(s, l) \in Children /\ Child(s, l) \in Processes
  BY Names DEF Child, SupTypeOK
<1>2. "daemon" \notin Labels
  BY DEF Labels
<1>3. pidfile \in PidFiles /\ alive \subseteq Processes
  BY DEF SupTypeOK, PidFiles
<1>4. /\ pidfile' \in PidFiles
      /\ pidfile'[l] = Child(s, l) /\ alive' = alive \cup {Child(s, l)}
      /\ \A f \in Labels \cup {"daemon"} : f # l => pidfile'[f] = pidfile[f]
  BY <1>1, <1>3 DEF Launches, Records, PidFiles
<1> QED BY <1>1, <1>2, <1>3, <1>4 DEF FilesName

LEMMA FailingToLaunch ==
    ASSUME SupTypeOK, FilesName, NEW l \in Labels, LaunchFails(l)
    PROVE  /\ pidfile' \in PidFiles /\ FilesName' /\ pidfile'["daemon"] = pidfile["daemon"]
           /\ \A k \in Labels : k # l => pidfile'[k] = pidfile[k]
<1>1. "daemon" \notin Labels
  BY DEF Labels
<1>2. CASE pidfile' = pidfile
  BY <1>2 DEF SupTypeOK, PidFiles, FilesName
<1>3. CASE pidfile' = Removed({l})
  BY <1>1, <1>3, Removing
<1> QED BY <1>2, <1>3 DEF LaunchFails

\* What a step of a supervisor has to respect: the other supervisors, and what is known of
\* its own children.
Respects(s) ==
    /\ Supervising(s)
    /\ cli' = cli
    /\ \A r \in Sups : r # s => sup'[r] = sup[r]
    /\ <<s>> \in alive' <=> sup'[s].pc \in Acting
    /\ <<s>> \in alive' => pidfile'["daemon"] = pidfile["daemon"]
    /\ \A r \in Sups : <<r>> \in alive' => <<r>> \in alive
    /\ \A r \in Sups, l \in Labels, n \in 0 .. MaxRestarts :
          r # s /\ <<r, l, n>> \in alive' => <<r, l, n>> \in alive
    /\ \A l \in Labels, n \in 0 .. MaxRestarts : <<s, l, n>> \in alive' => ChildKnown(s, l, n)'

LEMMA RespectingKeepsInv ==
    ASSUME CliInv, NEW s \in Sups, Respects(s), SupTypeOK', FilesName'
    PROVE  CliInv'
<1>1. \A r \in Sups : r # s => <<r>> \notin alive /\ <<r>> \notin alive' /\ sup[r].pc \notin Acting
  BY DEF CliInv, OneSupervises, Respects, Supervising
<1>2. OneSupervises'
  BY <1>1 DEF OneSupervises, Respects, Supervising
<1>3. ASSUME NEW r \in Sups, NEW l \in Labels, NEW n \in 0 .. MaxRestarts, <<r, l, n>> \in alive'
      PROVE  ChildKnown(r, l, n)'
  <2>1. CASE r = s
    BY <1>3, <2>1 DEF Respects
  <2>2. CASE r # s
    <3>1. ChildKnown(r, l, n) /\ ~Supervising(r) /\ sup'[r] = sup[r]
      BY <1>1, <1>3, <2>2 DEF CliInv, ChildrenKnown, Respects, Supervising
    <3> QED BY <3>1 DEF ChildKnown
  <2> QED BY <2>1, <2>2
<1>4. CommandsKnow'
  <2>1. \A r \in Sups : Supervising(r)' => Supervising(r) /\ pidfile'["daemon"] = pidfile["daemon"]
    BY <1>1 DEF Respects, Supervising
  <2>2. cli' = cli
    BY DEF Respects
  <2> QED BY <2>1, <2>2 DEF CliInv, CommandsKnow
<1>5. CliTypeOK'
  BY DEF CliInv, CliTypeOK, Respects
<1> QED BY <1>2, <1>3, <1>4, <1>5 DEF CliInv, ChildrenKnown

\* A supervisor that launches a child, at boot or after a backoff.
LEMMA LaunchingKeepsInv ==
    ASSUME CliInv, NEW s \in Sups, NEW l \in Labels, Supervising(s), Launches(s, l), cli' = cli,
           sup' \in [Sups -> States], \A r \in Sups : r # s => sup'[r] = sup[r],
           sup'[s].restarts = sup[s].restarts,
           \/ sup'[s].pc \in {"loop", "frontcheck"}
           \/ sup[s].pc = "boot" /\ sup'[s].pc = "boot2" /\ l = "backend",
           sentinel' \in BOOLEAN, crashed' \in BOOLEAN
    PROVE  CliInv'
<1>1. SupTypeOK /\ FilesName /\ ChildrenKnown /\ OneSupervises
  BY DEF CliInv
<1>2. /\ pidfile' \in PidFiles /\ FilesName' /\ alive' \subseteq Processes
      /\ pidfile'[l] = Child(s, l) /\ alive' = alive \cup {Child(s, l)}
      /\ \A f \in Labels \cup {"daemon"} : f # l => pidfile'[f] = pidfile[f]
  BY <1>1, Launching
<1>3. SupTypeOK'
  BY <1>2 DEF SupTypeOK, PidFiles, States
<1> DEFINE n == sup[s].restarts[l]
<1>4. n \in 0 .. MaxRestarts /\ Child(s, l) = <<s, l, n>>
  BY <1>1 DEF SupTypeOK, Child
<1> HIDE DEF n
<1>5. ASSUME NEW r \in Sups, NEW k \in Labels, NEW m \in 0 .. MaxRestarts, <<r, k, m>> \in alive'
      PROVE  <<r, k, m>> \in alive \/ (r = s /\ k = l /\ m = n)
  BY <1>2, <1>4, <1>5, Names
<1>6. \A r \in Sups : <<r>> \in alive' <=> <<r>> \in alive
  BY <1>2, <1>4, Names
<1>7. <<s>> \in alive' /\ sup'[s].pc \in Acting
  BY <1>6 DEF Supervising, Acting
<1>8. ASSUME NEW k \in Labels, NEW m \in 0 .. MaxRestarts, <<s, k, m>> \in alive'
      PROVE  ChildKnown(s, k, m)'
  <2>1. CASE k = l /\ m = n
    <3>1. MayRun(s, k)'
      BY <2>1 DEF MayRun
    <3>2. pidfile'[k] = <<s, k, m>> /\ m = sup'[s].restarts[k]
      BY <1>2, <1>4, <2>1 DEF n
    <3> QED BY <1>7, <3>1, <3>2 DEF ChildKnown, Supervising
  <2>2. CASE ~(k = l /\ m = n)
    <3>1. /\ sup[s].pc # "boot" /\ m = sup[s].restarts[k] /\ pidfile[k] = <<s, k, m>>
      <4>1. ChildKnown(s, k, m) /\ sup[s].pc \in Acting
        BY <1>1, <1>5, <1>8, <2>2 DEF ChildrenKnown, OneSupervises
      <4> QED BY <4>1 DEF ChildKnown, MayRun, Acting
    <3>2. k # l
      BY <2>2, <3>1 DEF n
    <3>3. MayRun(s, k)'
      BY <3>1 DEF MayRun
    <3> QED BY <1>2, <1>7, <3>1, <3>2, <3>3 DEF ChildKnown, Supervising
  <2> QED BY <2>1, <2>2
<1>9. pidfile'["daemon"] = pidfile["daemon"]
  BY <1>2 DEF Labels
<1>10. Respects(s)
  BY <1>5, <1>6, <1>7, <1>8, <1>9 DEF Respects, Supervising
<1> QED BY <1>2, <1>3, <1>10, RespectingKeepsInv

\* A supervisor that leaves its loop, or is killed, once none of its children is left or
\* because it no longer can do anything about them.
LEMMA EndingKeepsInv ==
    ASSUME CliInv, NEW s \in Sups, NEW pc \in {"gone", "cleanup", "killed"}, Ends(s, pc),
           Supervising(s), cli' = cli, alive' \subseteq alive,
           <<s>> \in alive' <=> pc = "cleanup",
           pc # "killed" => \A l \in Labels, n \in 0 .. MaxRestarts : <<s, l, n>> \notin alive',
           pidfile' \in PidFiles, FilesName',
           pc = "cleanup" => pidfile'["daemon"] = pidfile["daemon"],
           sentinel' \in BOOLEAN, crashed' \in BOOLEAN
    PROVE  CliInv'
<1>1. SupTypeOK /\ pc \in Phases
  BY DEF CliInv, Phases
<1>2. /\ sup' \in [Sups -> States] /\ sup'[s].pc = pc
      /\ \A r \in Sups : r # s => sup'[r] = sup[r]
  BY <1>1, Ending
<1>3. SupTypeOK'
  BY <1>1, <1>2 DEF SupTypeOK, PidFiles, States
<1>4. <<s>> \in alive' <=> sup'[s].pc \in Acting
  BY <1>2 DEF Acting
<1>5. \A l \in Labels, n \in 0 .. MaxRestarts : <<s, l, n>> \in alive' => ChildKnown(s, l, n)'
  BY <1>2 DEF ChildKnown
<1>6. Respects(s)
  BY <1>2, <1>4, <1>5 DEF Respects
<1> QED BY <1>3, <1>6, RespectingKeepsInv

\* A supervisor that goes on; children may have ended, and what it remembers of a child
\* changes only when that child is gone.
LEMMA GoingOnKeepsInv ==
    ASSUME CliInv, NEW s \in Sups, Supervising(s), cli' = cli, alive' \subseteq alive,
           <<s>> \in alive', sup' \in [Sups -> States], sup'[s].pc \in Acting,
           \A r \in Sups : r # s => sup'[r] = sup[r],
           pidfile' \in PidFiles, FilesName', pidfile'["daemon"] = pidfile["daemon"],
           \A l \in Labels, n \in 0 .. MaxRestarts : <<s, l, n>> \in alive' =>
              /\ sup'[s].restarts[l] = sup[s].restarts[l]
              /\ pidfile'[l] = pidfile[l]
              /\ MayRun(s, l)',
           sentinel' \in BOOLEAN, crashed' \in BOOLEAN
    PROVE  CliInv'
<1>1. SupTypeOK'
  BY DEF CliInv, SupTypeOK, PidFiles, States
<1>2. ASSUME NEW l \in Labels, NEW n \in 0 .. MaxRestarts, <<s, l, n>> \in alive'
      PROVE  ChildKnown(s, l, n)'
  <2>1. ChildKnown(s, l, n) /\ sup[s].pc # "killed"
    BY <1>2 DEF CliInv, ChildrenKnown, OneSupervises, Acting
  <2> QED BY <1>2, <2>1 DEF ChildKnown, Supervising
<1>3. Respects(s)
  BY <1>2 DEF Respects
<1> QED BY <1>1, <1>3, RespectingKeepsInv

\* What is known of the children of the supervisor that supervises.
LEMMA OwnChildren ==
    ASSUME CliInv, NEW s \in Sups, Supervising(s), NEW l \in Labels, NEW n \in 0 .. MaxRestarts,
           <<s, l, n>> \in alive
    PROVE  <<s, l, n>> = Child(s, l) /\ MayRun(s, l)
  BY DEF CliInv, ChildrenKnown, ChildKnown, OneSupervises, Acting, Child

\* What terminating a child leaves.
LEMMA Terminating ==
    ASSUME CliInv, NEW s \in Sups, NEW l \in Labels, NEW lives, lives \subseteq alive
    PROVE  /\ Terminate(lives, s, l) \subseteq lives /\ Child(s, l) \notin Terminate(lives, s, l)
           /\ \A r \in Sups : <<r>> \in lives => <<r>> \in Terminate(lives, s, l)
<1>1. Child(s, l) \in Children
  BY Names DEF Child, CliInv, SupTypeOK
<1> QED BY <1>1, Names DEF Terminate

\* The first launches: nothing runs at boot, and the backend alone after it.
LEMMA BootsKeepInv ==
    ASSUME CliInv, NEW s \in Sups, BootsBackend(s) \/ BootsFrontend(s), cli' = cli
    PROVE  CliInv'
<1>1. /\ SupTypeOK /\ FilesName /\ Supervising(s)
      /\ \A r, q \in Sups : <<r>> = <<q>> => r = q
  BY Names DEF CliInv, BootsBackend, BootsFrontend, At, Supervising
<1>2. /\ sentinel' \in BOOLEAN /\ crashed' \in BOOLEAN
  BY <1>1 DEF BootsBackend, BootsFrontend, SupTypeOK
<1>3. CASE BootsBackend(s)
  <2>1. CASE Launches(s, "backend") /\ Goes(s, "boot2")
    <3>1. "boot2" \in Phases /\ "backend" \in Labels /\ sup[s].pc = "boot"
      BY <1>3 DEF BootsBackend, At, Phases, Labels
    <3>2. /\ sup' \in [Sups -> States] /\ sup'[s].pc = "boot2" /\ sup'[s].restarts = sup[s].restarts
          /\ \A r \in Sups : r # s => sup'[r] = sup[r]
      BY <1>1, <2>1, <3>1, Going
    <3> QED BY <1>1, <1>2, <2>1, <3>1, <3>2, LaunchingKeepsInv
  <2>2. CASE LaunchFails("backend") /\ alive' = alive \ {<<s>>} /\ Ends(s, "gone")
    <3>1. pidfile' \in PidFiles /\ FilesName'
      BY <1>1, <2>2, FailingToLaunch DEF Labels
    <3>2. \A l \in Labels, n \in 0 .. MaxRestarts : <<s, l, n>> \notin alive'
      BY <1>1, <1>3, <2>2, OwnChildren DEF BootsBackend, At, MayRun
    <3> QED BY <1>1, <1>2, <2>2, <3>1, <3>2, EndingKeepsInv
  <2> QED BY <1>3, <2>1, <2>2 DEF BootsBackend
<1>4. CASE BootsFrontend(s)
  <2>1. CASE Launches(s, "frontend") /\ Goes(s, "loop")
    <3>1. "loop" \in Phases /\ "frontend" \in Labels
      BY DEF Phases, Labels
    <3>2. /\ sup' \in [Sups -> States] /\ sup'[s].pc = "loop" /\ sup'[s].restarts = sup[s].restarts
          /\ \A r \in Sups : r # s => sup'[r] = sup[r]
      BY <1>1, <2>1, <3>1, Going
    <3> QED BY <1>1, <1>2, <2>1, <3>1, <3>2, LaunchingKeepsInv
  <2>2. CASE /\ LaunchFails("frontend")
             /\ alive' = Terminate(alive, s, "backend") \ {<<s>>}
             /\ Ends(s, "gone")
    <3>1. pidfile' \in PidFiles /\ FilesName'
      BY <1>1, <2>2, FailingToLaunch DEF Labels
    <3>2. /\ Terminate(alive, s, "backend") \subseteq alive
          /\ Child(s, "backend") \notin Terminate(alive, s, "backend")
      BY Terminating DEF Labels
    <3>3. \A l \in Labels, n \in 0 .. MaxRestarts : <<s, l, n>> \notin alive'
      BY <1>1, <1>4, <2>2, <3>2, OwnChildren DEF BootsFrontend, At, MayRun
    <3> QED BY <1>1, <1>2, <2>2, <3>1, <3>2, <3>3, EndingKeepsInv
  <2> QED BY <1>4, <2>1, <2>2 DEF BootsFrontend
<1> QED BY <1>3, <1>4

\* A supervisor gives up once the child that failed is gone: it terminates the other.
LEMMA GivingUpKeepsInv ==
    ASSUME CliInv, NEW s \in Sups, Supervising(s), NEW l \in Labels, NEW lives, cli' = cli,
           lives \subseteq alive, <<s>> \in lives, Child(s, l) \notin lives, GivesUp(s, l, lives),
           pidfile' \in PidFiles, FilesName', pidfile'["daemon"] = pidfile["daemon"],
           sentinel' \in BOOLEAN
    PROVE  CliInv'
<1>1. Other(l) \in Labels /\ \A k \in Labels : k = l \/ k = Other(l)
  BY DEF Labels, Other
<1>2. /\ alive' \subseteq alive /\ <<s>> \in alive' /\ Child(s, Other(l)) \notin alive'
      /\ Child(s, l) \notin alive'
  BY <1>1, Terminating DEF GivesUp
<1>3. \A k \in Labels, n \in 0 .. MaxRestarts : <<s, k, n>> \notin alive'
  BY <1>1, <1>2, OwnChildren
<1> QED BY <1>2, <1>3, EndingKeepsInv DEF GivesUp

\* A child that has gone is restarted, or its supervisor gives up.
LEMMA RestartsKeepInv ==
    ASSUME CliInv, NEW s \in Sups, Supervising(s), NEW l \in Labels, NEW lives, cli' = cli,
           lives \subseteq alive, <<s>> \in lives, Child(s, l) \notin lives,
           NEW then \in {"loop", "frontcheck"}, NEW streak \in 0 .. FailuresToRestart - 1,
           sup[s].pc \in {"loop", "frontcheck"}, Restarts(s, l, lives, then, streak)
    PROVE  CliInv'
<1> USE SupervisorAssumption
<1>1. /\ sup \in [Sups -> States] /\ pidfile \in PidFiles /\ SupTypeOK /\ FilesName
      /\ sentinel \in BOOLEAN /\ crashed \in BOOLEAN
  BY DEF CliInv, SupTypeOK, States, PidFiles
<1>2. pidfile' = pidfile /\ sentinel' = sentinel /\ pidfile' \in PidFiles /\ FilesName'
  BY <1>1 DEF Restarts, FilesName
<1>3. CASE Exhausted(s, l)
  BY <1>1, <1>2, <1>3, GivingUpKeepsInv DEF Restarts
<1>4. CASE ~Exhausted(s, l)
  <2>1. /\ alive' = lives /\ crashed' = crashed
        /\ sup' = [sup EXCEPT ![s] = [@ EXCEPT !.pc = "backoff", !.which = l, !.then = then,
                                             !.restarts = OneMoreOf(s, l),
                                             !.streak = StreakOf(s, l, streak)]]
    BY <1>4 DEF Restarts
  <2>2. sup[s].restarts[l] + 1 \in 0 .. MaxRestarts
    BY <1>1, <1>4 DEF Exhausted, States
  <2>3. /\ sup' \in [Sups -> States] /\ sup'[s].pc = "backoff" /\ sup'[s].which = l
        /\ \A k \in Labels : k # l => sup'[s].restarts[k] = sup[s].restarts[k]
        /\ \A r \in Sups : r # s => sup'[r] = sup[r]
    <3> DEFINE old == sup[s]
               counts == OneMoreOf(s, l)
               fails == StreakOf(s, l, streak)
               new == [old EXCEPT !.pc = "backoff", !.which = l, !.then = then,
                                  !.restarts = counts, !.streak = fails]
    <3>1. /\ counts \in [Labels -> 0 .. MaxRestarts]
          /\ fails \in [Labels -> 0 .. FailuresToRestart - 1]
          /\ \A k \in Labels : k # l => counts[k] = old.restarts[k]
      BY <1>1, <2>2 DEF States, OneMoreOf, StreakOf
    <3>2. sup' = [sup EXCEPT ![s] = new]
      BY <2>1
    <3>3. old \in States
      BY <1>1
    <3> HIDE DEF old, counts, fails
    <3>4. /\ new \in States /\ new.pc = "backoff" /\ new.which = l /\ new.restarts = counts
      BY <3>1, <3>3 DEF States, Phases
    <3> HIDE DEF new
    <3> QED BY <1>1, <3>1, <3>2, <3>4 DEF old
  <2>4. \A k \in Labels, n \in 0 .. MaxRestarts : <<s, k, n>> \in alive' => k # l
    BY <2>1, OwnChildren
  <2>5. \A k \in Labels, n \in 0 .. MaxRestarts : <<s, k, n>> \in alive' =>
           /\ sup'[s].restarts[k] = sup[s].restarts[k]
           /\ pidfile'[k] = pidfile[k]
           /\ MayRun(s, k)'
    BY <1>2, <2>3, <2>4 DEF MayRun
  <2>6. sup'[s].pc \in Acting
    BY <2>3 DEF Acting
  <2> QED BY <1>1, <1>2, <2>1, <2>3, <2>5, <2>6, GoingOnKeepsInv
<1> QED BY <1>3, <1>4

\* The ticks of the loop: an exit seen, a health check, a backoff that ends.
LEMMA TicksKeepInv ==
    ASSUME CliInv, NEW s \in Sups, cli' = cli,
           \/ \E l \in Labels : SeesExit(s, l)
           \/ ChecksBackend(s) \/ ChecksFrontend(s) \/ Wakes(s)
    PROVE  CliInv'
<1> USE SupervisorAssumption
<1>1. /\ sup \in [Sups -> States] /\ pidfile \in PidFiles /\ SupTypeOK /\ FilesName
      /\ sentinel \in BOOLEAN /\ crashed \in BOOLEAN /\ alive \subseteq Processes
      /\ Supervising(s) /\ <<s>> \in alive
  BY DEF CliInv, SupTypeOK, States, PidFiles, SeesExit, ChecksBackend, ChecksFrontend, Wakes, At,
         Supervising
<1>2. \A l \in Labels : sup[s].streak[l] \in 0 .. FailuresToRestart - 1
  BY <1>1 DEF States
<1>3. ASSUME NEW l \in Labels, SeesExit(s, l) PROVE CliInv'
  BY <1>1, <1>2, <1>3, RestartsKeepInv DEF SeesExit, At
<1>4. ASSUME NEW l \in Labels, NEW then \in {"loop", "frontcheck"}, Checks(s, l, then),
             sup[s].pc \in {"loop", "frontcheck"}
      PROVE  CliInv'
  <2>1. ASSUME NEW streak \in 0 .. FailuresToRestart - 1,
               sup' = [sup EXCEPT ![s] = [@ EXCEPT !.pc = then, !.streak = StreakOf(s, l, streak)]],
               UNCHANGED <<pidfile, sentinel, crashed, alive>>
        PROVE  CliInv'
    <3>1. /\ sup' \in [Sups -> States] /\ sup'[s].pc = then /\ sup'[s].restarts = sup[s].restarts
          /\ \A r \in Sups : r # s => sup'[r] = sup[r]
      <4> DEFINE old == sup[s]
                 fails == StreakOf(s, l, streak)
                 new == [old EXCEPT !.pc = then, !.streak = fails]
      <4>1. fails \in [Labels -> 0 .. FailuresToRestart - 1] /\ old \in States
        BY <1>1 DEF States, StreakOf
      <4>2. sup' = [sup EXCEPT ![s] = new]
        BY <2>1
      <4> HIDE DEF old, fails
      <4>3. new \in States /\ new.pc = then /\ new.restarts = old.restarts
        BY <4>1 DEF States, Phases
      <4> HIDE DEF new
      <4> QED BY <1>1, <4>2, <4>3 DEF old
    <3>2. then \in Acting /\ \A k \in Labels : MayRun(s, k)'
      BY <3>1 DEF Acting, MayRun
    <3>3. FilesName'
      BY <1>1, <2>1 DEF FilesName
    <3> QED BY <1>1, <2>1, <3>1, <3>2, <3>3, GoingOnKeepsInv
  <2>2. CASE /\ sup' = [sup EXCEPT ![s] = [@ EXCEPT !.pc = then, !.streak = StreakOf(s, l, 0)]]
             /\ UNCHANGED <<pidfile, sentinel, crashed, alive>>
    <3> DEFINE streak == 0
    <3>1. streak \in 0 .. FailuresToRestart - 1
      OBVIOUS
    <3>2. sup' = [sup EXCEPT ![s] = [@ EXCEPT !.pc = then, !.streak = StreakOf(s, l, streak)]]
      BY <2>2
    <3> HIDE DEF streak
    <3> QED BY <2>1, <2>2, <3>1, <3>2
  <2>3. CASE /\ sup[s].streak[l] + 1 < FailuresToRestart
             /\ sup' = [sup EXCEPT ![s] = [@ EXCEPT !.pc = then,
                                                  !.streak = StreakOf(s, l, sup[s].streak[l] + 1)]]
             /\ UNCHANGED <<pidfile, sentinel, crashed, alive>>
    <3> DEFINE streak == sup[s].streak[l] + 1
    <3>1. streak \in 0 .. FailuresToRestart - 1
      BY <1>2, <2>3
    <3>2. sup' = [sup EXCEPT ![s] = [@ EXCEPT !.pc = then, !.streak = StreakOf(s, l, streak)]]
      BY <2>3
    <3> HIDE DEF streak
    <3> QED BY <2>1, <2>3, <3>1, <3>2
  <2>4. CASE Restarts(s, l, Terminate(alive, s, l), then, 0)
    <3>1. /\ Terminate(alive, s, l) \subseteq alive /\ Child(s, l) \notin Terminate(alive, s, l)
          /\ <<s>> \in Terminate(alive, s, l) /\ 0 \in 0 .. FailuresToRestart - 1
      BY <1>1, Terminating
    <3> QED BY <1>1, <1>4, <2>4, <3>1, RestartsKeepInv
  <2> QED BY <1>4, <2>2, <2>3, <2>4 DEF Checks
<1>5. CASE ChecksBackend(s) \/ ChecksFrontend(s)
  BY <1>4, <1>5 DEF ChecksBackend, ChecksFrontend, At, Labels
<1>6. CASE Wakes(s)
  <2> DEFINE l == sup[s].which
  <2>1. l \in Labels /\ sup[s].then \in {"loop", "frontcheck"} /\ sentinel' = sentinel
        /\ sup[s].pc = "backoff"
    BY <1>1, <1>6 DEF States, Wakes, At
  <2>2. CASE /\ Launches(s, l)
             /\ sup' = [sup EXCEPT ![s] = [@ EXCEPT !.pc = sup[s].then, !.which = "backend",
                                                  !.then = "loop"]]
             /\ UNCHANGED crashed
    <3>1. /\ sup' \in [Sups -> States] /\ sup'[s].pc = sup[s].then
          /\ sup'[s].restarts = sup[s].restarts
          /\ \A r \in Sups : r # s => sup'[r] = sup[r]
      <4> DEFINE new == [sup[s] EXCEPT !.pc = sup[s].then, !.which = "backend", !.then = "loop"]
      <4>1. new \in States /\ new.pc = sup[s].then /\ new.restarts = sup[s].restarts
        BY <1>1, <2>1 DEF States, Phases, Labels
      <4>2. sup' = [sup EXCEPT ![s] = new]
        BY <2>2
      <4> HIDE DEF new
      <4> QED BY <1>1, <4>1, <4>2
    <3> HIDE DEF l
    <3> QED BY <1>1, <2>1, <2>2, <3>1, LaunchingKeepsInv
  <2>3. CASE LaunchFails(l) /\ GivesUp(s, l, alive)
    <3>1. Child(s, l) \notin alive
      <4>1. Child(s, l) = <<s, l, sup[s].restarts[l]>> /\ sup[s].restarts[l] \in 0 .. MaxRestarts
        BY <1>1, <2>1 DEF Child, States
      <4> QED BY <1>1, <2>1, <4>1, OwnChildren DEF MayRun
    <3>2. pidfile' \in PidFiles /\ FilesName' /\ pidfile'["daemon"] = pidfile["daemon"]
      BY <1>1, <2>1, <2>3, FailingToLaunch
    <3> HIDE DEF l
    <3> QED BY <1>1, <2>1, <2>3, <3>1, <3>2, GivingUpKeepsInv
  <2> QED BY <1>6, <2>2, <2>3 DEF Wakes
<1> QED BY <1>3, <1>5, <1>6

\* The end of a run: a stop request seen, the files removed, the process gone.
LEMMA StoppingKeepsInv ==
    ASSUME CliInv, NEW s \in Sups, SeesSentinel(s) \/ CleansUp(s) \/ Leaves(s), cli' = cli
    PROVE  CliInv'
<1>1. /\ SupTypeOK /\ FilesName /\ Supervising(s) /\ pidfile \in PidFiles
      /\ sentinel \in BOOLEAN /\ crashed \in BOOLEAN
      /\ \A r, q \in Sups : <<r>> = <<q>> => r = q
  BY Names DEF CliInv, SeesSentinel, CleansUp, Leaves, At, Supervising, SupTypeOK, PidFiles
<1>2. CASE SeesSentinel(s)
  <2> DEFINE half == Terminate(alive, s, "backend")
  <2>1. alive' = Terminate(half, s, "frontend") /\ Ends(s, "cleanup")
        /\ UNCHANGED <<pidfile, sentinel, crashed>>
    BY <1>2 DEF SeesSentinel
  <2>2. half \subseteq alive /\ Child(s, "backend") \notin half /\ <<s>> \in half
    BY <1>1, Terminating DEF Labels, Supervising
  <2> HIDE DEF half
  <2>3. alive' \subseteq half /\ Child(s, "frontend") \notin alive' /\ <<s>> \in alive'
    BY <2>1, <2>2, Terminating DEF Labels
  <2>4. \A l \in Labels, n \in 0 .. MaxRestarts : <<s, l, n>> \notin alive'
    BY <1>1, <2>2, <2>3, OwnChildren DEF Labels
  <2>5. FilesName' /\ pidfile' \in PidFiles
    BY <1>1, <2>1 DEF FilesName
  <2> QED BY <1>1, <2>1, <2>2, <2>3, <2>4, <2>5, EndingKeepsInv
<1>3. \A l \in Labels, n \in 0 .. MaxRestarts :
         sup[s].pc \in {"cleanup", "leave"} => <<s, l, n>> \notin alive
  BY <1>1, OwnChildren DEF MayRun
<1>4. CASE CleansUp(s)
  <2>1. pidfile' \in PidFiles /\ FilesName' /\ pidfile'["daemon"] = pidfile["daemon"]
    <3>1. Labels \in SUBSET (Labels \cup {"daemon"}) /\ "daemon" \notin Labels
      BY DEF Labels
    <3> QED BY <1>1, <1>4, <3>1, Removing DEF CleansUp
  <2>2. "leave" \in Phases /\ Goes(s, "leave") /\ sup[s].pc = "cleanup"
        /\ alive' = alive /\ crashed' = crashed /\ sentinel' = FALSE
    BY <1>4 DEF CleansUp, At, Phases
  <2>3. /\ sup' \in [Sups -> States] /\ sup'[s].pc = "leave"
        /\ \A r \in Sups : r # s => sup'[r] = sup[r]
    BY <1>1, <2>2, Going
  <2>4. <<s>> \in alive' /\ sup'[s].pc \in Acting
    BY <1>1, <2>2, <2>3 DEF Supervising, Acting
  <2> QED BY <1>1, <1>3, <2>1, <2>2, <2>3, <2>4, GoingOnKeepsInv
<1>5. CASE Leaves(s)
  <2>1. pidfile' \in PidFiles /\ FilesName'
    <3>1. {"daemon"} \in SUBSET (Labels \cup {"daemon"})
      OBVIOUS
    <3> QED BY <1>1, <1>5, <3>1, Removing DEF Leaves
  <2> QED BY <1>1, <1>3, <1>5, <2>1, EndingKeepsInv DEF Leaves, At
<1> QED BY <1>2, <1>4, <1>5

\* What is the case between commands, whatever the commands know.
RunInv == SupTypeOK /\ OneSupervises /\ FilesName /\ ChildrenKnown

\* A supervisor that is killed leaves its children as orphans, and nobody supervises.
LEMMA KillingKeepsRun ==
    ASSUME RunInv, NEW s \in Sups, Supervising(s), KillsSupervisor(s),
           UNCHANGED <<pidfile, sentinel, crashed>>
    PROVE  RunInv' /\ \A r \in Sups : ~Supervising(r)'
<1>1. "killed" \in Phases /\ Ends(s, "killed") /\ alive' = alive \ {<<s>>}
  BY DEF Phases, KillsSupervisor
<1>2. /\ sup' \in [Sups -> States] /\ sup'[s].pc = "killed"
      /\ \A r \in Sups : r # s => sup'[r] = sup[r]
  BY <1>1, Ending DEF RunInv
<1>3. \A r \in Sups : ~Supervising(r)' /\ sup'[r].pc \notin Acting
  BY <1>1, <1>2 DEF RunInv, OneSupervises, Supervising, Acting
<1>4. SupTypeOK'
  BY <1>1, <1>2 DEF RunInv, SupTypeOK, States
<1>5. ChildrenKnown'
  <2> SUFFICES ASSUME NEW r \in Sups, NEW l \in Labels, NEW n \in 0 .. MaxRestarts,
                      <<r, l, n>> \in alive'
               PROVE  sup'[r].pc = "killed"
    BY DEF ChildrenKnown, ChildKnown
  <2>1. ChildKnown(r, l, n)
    BY <1>1 DEF RunInv, ChildrenKnown
  <2>2. r # s => ~Supervising(r)
    BY DEF RunInv, OneSupervises
  <2> QED BY <1>2, <2>1, <2>2 DEF ChildKnown
<1> QED BY <1>3, <1>4, <1>5 DEF RunInv, OneSupervises, FilesName

\* What the world outside does: a child ends, a supervisor is killed.
LEMMA EnvironmentKeepsInv ==
    ASSUME CliInv, SupEnvironment, cli' = cli
    PROVE  CliInv'
<1>1. RunInv /\ CommandsKnow /\ CliTypeOK
  BY DEF CliInv, RunInv
<1>2. CASE ChildDies
  <2>1. PICK p \in alive \cap Children : alive' = alive \ {p}
    BY <1>2 DEF ChildDies
  <2>2. UNCHANGED <<pidfile, sentinel, crashed, sup>>
    BY <1>2 DEF ChildDies
  <2>3. \A s \in Sups : Supervising(s)' <=> Supervising(s)
    <3>1. \A s \in Sups : <<s>> # p
      BY Names
    <3> QED BY <2>1, <3>1 DEF Supervising
  <2>4. SupTypeOK' /\ FilesName' /\ OneSupervises'
    BY <1>1, <2>1, <2>2, <2>3 DEF RunInv, SupTypeOK, FilesName, OneSupervises
  <2>5. ChildrenKnown'
    BY <1>1, <2>1, <2>2, <2>3 DEF RunInv, ChildrenKnown, ChildKnown, MayRun
  <2>6. CommandsKnow' /\ CliTypeOK'
    BY <1>1, <2>2, <2>3 DEF CommandsKnow, CliTypeOK
  <2> QED BY <2>4, <2>5, <2>6 DEF CliInv
<1>3. ASSUME NEW s \in Sups, SupervisorDies(s) PROVE CliInv'
  <2>1. RunInv' /\ \A r \in Sups : ~Supervising(r)'
    BY <1>1, <1>3, KillingKeepsRun DEF SupervisorDies, Supervising
  <2>2. CommandsKnow' /\ CliTypeOK'
    BY <1>1, <2>1 DEF CommandsKnow, CliTypeOK
  <2> QED BY <2>1, <2>2 DEF CliInv, RunInv
<1> QED BY <1>2, <1>3 DEF SupEnvironment

\* The step of a command from one place to another.
LEMMA Moving ==
    ASSUME OneTerminal, CliTypeOK, NEW t \in Terminals, NEW from \in Places, NEW to \in Places,
           Moves(t, from, to)
    PROVE  /\ CliTypeOK' /\ cli[t].at = from /\ cli'[t].at = to /\ cli'[t].sup = cli[t].sup
           /\ \A u \in Terminals : u = t
<1>1. \A u \in Terminals : u = t
  BY DEF OneTerminal
<1>2. /\ cli[t].at = from /\ cli' = [cli EXCEPT ![t].at = to]
  BY DEF Moves
<1> QED BY <1>1, <1>2 DEF CliTypeOK

\* A command that only waits, asks or gives up waiting.
LEMMA MovingKeepsInv ==
    ASSUME OneTerminal, CliInv, NEW t \in Terminals,
           NEW from \in Places \ {"spawned"}, NEW to \in Places \ {"spawned", "killed"},
           Moves(t, from, to), UNCHANGED <<pidfile, alive, sup, crashed>>, sentinel' \in BOOLEAN
    PROVE  CliInv'
<1>1. /\ CliTypeOK' /\ cli[t].at = from /\ cli'[t].at = to
      /\ \A u \in Terminals : u = t
  BY Moving DEF CliInv
<1>2. SupTypeOK' /\ FilesName' /\ OneSupervises' /\ ChildrenKnown'
  BY DEF CliInv, SupTypeOK, FilesName, OneSupervises, Supervising, ChildrenKnown, ChildKnown, MayRun
<1>3. CommandsKnow'
  BY <1>1 DEF CliInv, CommandsKnow, Supervising
<1> QED BY <1>1, <1>2, <1>3 DEF CliInv

\* wizard start.
LEMMA StartsKeepInv ==
    ASSUME OneTerminal, CliInv, NEW t \in Terminals,
           StartSpawns(t) \/ StartRecords(t) \/ StartCannotRecord(t)
    PROVE  CliInv'
<1>1. RunInv /\ CommandsKnow /\ CliTypeOK /\ SupTypeOK /\ FilesName
  BY DEF CliInv, RunInv
<1>2. \A u \in Terminals : u = t
  BY DEF OneTerminal
<1>3. "idle" \in Places /\ "spawned" \in Places /\ "waiting" \in Places
  BY DEF Places
<1>4. CASE StartSpawns(t)
  <2>1. PICK s \in Sups :
          /\ sup[s].pc = "unborn" /\ StartDetached(s) /\ cli[t].at = "idle"
          /\ cli' = [cli EXCEPT ![t] = [at |-> "spawned", sup |-> s]]
    BY <1>4 DEF StartSpawns
  <2>2. ~LiveAt("daemon") /\ UNCHANGED <<pidfile, sentinel, crashed>>
    BY <1>4 DEF StartSpawns
  <2>3. \A r \in Sups : ~Supervising(r)
    BY <1>1, <2>1, <2>2 DEF CommandsKnow, Supervising, LiveAt
  <2>4. "boot" \in Phases /\ Goes(s, "boot") /\ alive' = alive \cup {<<s>>}
    BY <2>1 DEF StartDetached, Phases
  <2>5. /\ sup' \in [Sups -> States] /\ sup'[s].pc = "boot"
        /\ \A r \in Sups : r # s => sup'[r] = sup[r]
    BY <1>1, <2>4, Going
  <2>6. SupTypeOK'
    BY <1>1, <2>2, <2>4, <2>5, Names DEF SupTypeOK, States
  <2>7. \A r \in Sups : Supervising(r)' <=> r = s
    BY <2>3, <2>4, Names DEF Supervising
  <2>8. OneSupervises'
    BY <1>1, <2>3, <2>5, <2>7 DEF OneSupervises, RunInv, Acting
  <2>9. FilesName'
    BY <1>1, <2>2 DEF FilesName
  <2>10. ChildrenKnown'
    <3> SUFFICES ASSUME NEW r \in Sups, NEW l \in Labels, NEW n \in 0 .. MaxRestarts,
                        <<r, l, n>> \in alive'
                 PROVE  sup'[r].pc = "killed"
      BY DEF ChildrenKnown, ChildKnown
    <3>1. <<r, l, n>> \in alive
      BY <2>4, Names
    <3>2. sup[r].pc = "killed"
      BY <1>1, <2>3, <3>1 DEF RunInv, ChildrenKnown, ChildKnown
    <3> QED BY <2>1, <2>5, <3>2
  <2>11. /\ CliTypeOK' /\ cli'[t].at = "spawned" /\ cli'[t].sup = s
    BY <1>1, <1>3, <2>1 DEF CliTypeOK
  <2>12. CommandsKnow'
    BY <1>2, <2>7, <2>11 DEF CommandsKnow
  <2> QED BY <2>6, <2>8, <2>9, <2>10, <2>11, <2>12 DEF CliInv
<1>5. CASE StartRecords(t)
  <2>1. /\ CliTypeOK' /\ cli[t].at = "spawned" /\ cli'[t].at = "waiting"
    BY <1>1, <1>3, <1>5, Moving DEF StartRecords
  <2> DEFINE s == cli[t].sup
  <2>2. s \in Sups /\ \A r \in Sups : Supervising(r) => r = s
    BY <1>1, <2>1 DEF CommandsKnow
  <2>3. /\ pidfile' = [pidfile EXCEPT !["daemon"] = <<s>>]
        /\ UNCHANGED <<sentinel, crashed, alive, sup>>
    BY <1>5 DEF StartRecords, Records
  <2> HIDE DEF s
  <2>4. /\ pidfile' \in PidFiles /\ pidfile'["daemon"] = <<s>>
        /\ \A l \in Labels : pidfile'[l] = pidfile[l]
    BY <1>1, <2>2, <2>3, Names DEF SupTypeOK, PidFiles, Labels
  <2>5. SupTypeOK' /\ FilesName' /\ OneSupervises' /\ ChildrenKnown'
    <3>1. SupTypeOK'
      BY <1>1, <2>3, <2>4 DEF SupTypeOK, PidFiles
    <3>2. FilesName'
      BY <1>1, <2>2, <2>4 DEF FilesName
    <3>3. OneSupervises'
      BY <1>1, <2>3 DEF RunInv, OneSupervises, Supervising
    <3>4. ChildrenKnown'
      BY <1>1, <2>3, <2>4 DEF RunInv, Supervising, ChildrenKnown, ChildKnown, MayRun
    <3> QED BY <3>1, <3>2, <3>3, <3>4
  <2>6. CommandsKnow'
    BY <1>2, <2>1, <2>2, <2>3, <2>4 DEF CommandsKnow, Supervising
  <2> QED BY <2>1, <2>5, <2>6 DEF CliInv
<1>6. CASE StartCannotRecord(t)
  <2>1. /\ CliTypeOK' /\ cli[t].at = "spawned" /\ cli'[t].at = "idle"
    BY <1>1, <1>3, <1>6, Moving DEF StartCannotRecord
  <2> DEFINE s == cli[t].sup
  <2>2. s \in Sups /\ \A r \in Sups : Supervising(r) => r = s
    BY <1>1, <2>1 DEF CommandsKnow
  <2>3. /\ IF <<s>> \in alive THEN KillsSupervisor(s) ELSE UNCHANGED <<alive, sup>>
        /\ UNCHANGED <<pidfile, sentinel, crashed>>
    BY <1>6 DEF StartCannotRecord
  <2> HIDE DEF s
  <2>4. RunInv' /\ \A r \in Sups : ~Supervising(r)'
    <3>1. CASE <<s>> \in alive
      BY <1>1, <2>2, <2>3, <3>1, KillingKeepsRun DEF Supervising
    <3>2. CASE <<s>> \notin alive
      BY <1>1, <2>2, <2>3, <3>2 DEF RunInv, SupTypeOK, FilesName, OneSupervises, Supervising,
                                    ChildrenKnown, ChildKnown, MayRun
    <3> QED BY <3>1, <3>2
  <2>5. CommandsKnow'
    BY <1>2, <2>1, <2>4 DEF CommandsKnow
  <2> QED BY <2>1, <2>4, <2>5 DEF CliInv, RunInv
<1> QED BY <1>4, <1>5, <1>6

\* wizard stop where it removes the files, and where it kills.
LEMMA StopsKeepInv ==
    ASSUME OneTerminal, CliInv, NEW t \in Terminals,
           \/ StopFindsNothing(t) \/ ForceKillsDaemon(t) \/ ForceCleans(t)
           \/ \E l \in Labels : ForceKillsChild(t, l)
    PROVE  CliInv'
<1>1. RunInv /\ CommandsKnow /\ CliTypeOK /\ SupTypeOK /\ FilesName
  BY DEF CliInv, RunInv
<1>2. \A u \in Terminals : u = t
  BY DEF OneTerminal
<1>3. {"idle", "killed", "kill_backend", "kill_frontend", "kill_daemon"} \subseteq Places
  BY DEF Places
<1>4. CASE StopFindsNothing(t) \/ ForceCleans(t)
  <2>1. /\ pidfile' = Removed(Labels \cup {"daemon"}) /\ sentinel' = FALSE
        /\ UNCHANGED <<crashed, alive, sup>>
    BY <1>1, <1>4 DEF StopFindsNothing, ForceCleans, SupTypeOK
  <2>2. \A s \in Sups : ~Supervising(s)
    BY <1>1, <1>4 DEF StopFindsNothing, ForceCleans, Moves, CommandsKnow, LiveAt, Supervising
  <2>3. CliTypeOK' /\ cli'[t].at = "idle"
    <3>1. CASE StopFindsNothing(t)
      BY <1>1, <3>1 DEF StopFindsNothing, CliTypeOK
    <3>2. CASE ForceCleans(t)
      BY <1>1, <1>3, <3>2, Moving DEF ForceCleans
    <3> QED BY <1>4, <3>1, <3>2
  <2>4. pidfile' \in PidFiles /\ FilesName'
    BY <1>1, <2>1, Removing
  <2>5. SupTypeOK' /\ OneSupervises' /\ ChildrenKnown'
    BY <1>1, <2>1, <2>2, <2>4 DEF RunInv, SupTypeOK, PidFiles, OneSupervises, Supervising,
                                  ChildrenKnown, ChildKnown, MayRun
  <2>6. CommandsKnow'
    BY <1>2, <2>1, <2>2, <2>3 DEF CommandsKnow, Supervising
  <2> QED BY <2>3, <2>4, <2>5, <2>6 DEF CliInv
<1>5. ASSUME NEW l \in Labels, ForceKillsChild(t, l) PROVE CliInv'
  <2>1. PICK from \in {"kill_backend", "kill_frontend"}, to \in {"kill_frontend", "kill_daemon"} :
           Moves(t, from, to)
    BY <1>5 DEF ForceKillsChild
  <2>2. CliTypeOK' /\ cli[t].at = from /\ cli'[t].at = to
    BY <1>1, <1>3, <2>1, Moving
  <2>3. /\ alive' \subseteq alive /\ \A p \in alive : p \in alive' \/ p = pidfile[l]
        /\ UNCHANGED <<pidfile, sentinel, crashed, sup>>
    BY <1>5 DEF ForceKillsChild
  <2>4. \A s \in Sups : Supervising(s)' <=> Supervising(s)
    <3>1. \A s \in Sups : <<s>> # pidfile[l]
      <4>1. pidfile[l] \in Children \/ pidfile[l] = NoProcess
        BY <1>1 DEF FilesName
      <4> QED BY <4>1, Names
    <3> QED BY <2>3, <3>1 DEF Supervising
  <2>5. SupTypeOK' /\ FilesName' /\ OneSupervises'
    BY <1>1, <2>3, <2>4 DEF RunInv, SupTypeOK, FilesName, OneSupervises
  <2>6. ChildrenKnown'
    BY <1>1, <2>3, <2>4 DEF RunInv, ChildrenKnown, ChildKnown, MayRun
  <2>7. CommandsKnow'
    BY <1>1, <1>2, <2>1, <2>2, <2>3, <2>4 DEF CommandsKnow
  <2> QED BY <2>2, <2>5, <2>6, <2>7 DEF CliInv
<1>6. CASE ForceKillsDaemon(t)
  <2>1. CliTypeOK' /\ cli[t].at = "kill_daemon" /\ cli'[t].at = "killed"
    BY <1>1, <1>3, <1>6, Moving DEF ForceKillsDaemon
  <2>2. \A s \in Sups : Supervising(s) => pidfile["daemon"] = <<s>>
    BY <1>1, <2>1 DEF CommandsKnow
  <2>3. RunInv' /\ \A r \in Sups : ~Supervising(r)'
    <3>1. CASE LiveAt("daemon")
      <4>1. pidfile["daemon"] \in alive /\ pidfile["daemon"] # NoProcess
        BY <1>1, <3>1, Names DEF LiveAt, SupTypeOK
      <4>2. PICK s \in Sups : pidfile["daemon"] = <<s>>
        BY <1>1, <4>1 DEF FilesName
      <4>3. Supervising(s) /\ KillsSupervisor(s) /\ UNCHANGED <<pidfile, sentinel, crashed>>
        BY <1>6, <3>1, <4>1, <4>2, Names DEF ForceKillsDaemon, Supervising
      <4> QED BY <1>1, <4>3, KillingKeepsRun
    <3>2. CASE ~LiveAt("daemon")
      <4>1. UNCHANGED <<alive, sup, pidfile, sentinel, crashed>>
        BY <1>6, <3>2 DEF ForceKillsDaemon
      <4>2. \A s \in Sups : ~Supervising(s)
        BY <2>2, <3>2 DEF LiveAt, Supervising
      <4> QED BY <1>1, <4>1, <4>2 DEF RunInv, SupTypeOK, FilesName, OneSupervises, Supervising,
                                      ChildrenKnown, ChildKnown, MayRun
    <3> QED BY <3>1, <3>2
  <2>4. CommandsKnow'
    BY <1>2, <2>1, <2>3 DEF CommandsKnow
  <2> QED BY <2>1, <2>3, <2>4 DEF CliInv, RunInv
<1> QED BY <1>4, <1>5, <1>6

LEMMA CliInitInv == CliInit => CliInv
<1> SUFFICES ASSUME CliInit PROVE CliInv
  OBVIOUS
<1> USE SupervisorAssumption DEF CliInit, SupInit
<1>1. Memory("unborn") \in States /\ Memory("unborn").pc = "unborn"
  BY DEF Memory, States, Phases, Labels
<1>2. SupTypeOK
  BY <1>1 DEF SupTypeOK, States
<1>3. OneSupervises /\ ChildrenKnown
  BY <1>1 DEF OneSupervises, ChildrenKnown, Supervising, Acting
<1>4. FilesName
  BY DEF FilesName
<1>5. CliTypeOK /\ CommandsKnow
  BY DEF CliTypeOK, CommandsKnow, Places, Supervising
<1> QED BY <1>2, <1>3, <1>4, <1>5 DEF CliInv

LEMMA CliStepsKeepInv ==
    ASSUME OneTerminal, CliInv, CliNext
    PROVE  CliInv'
<1>1. ASSUME NEW s \in Sups, SupStep(s), cli' = cli PROVE CliInv'
  BY <1>1, BootsKeepInv, TicksKeepInv, StoppingKeepsInv DEF SupStep
<1>2. CASE SupEnvironment /\ UNCHANGED cli
  BY <1>2, EnvironmentKeepsInv
<1>3. ASSUME NEW t \in Terminals, CliStep(t) \/ Waits(t) \/ CliUser(t) PROVE CliInv'
  <2>1. Places = {"idle", "spawned", "waiting", "asked", "stop", "stopping",
                  "kill_backend", "kill_frontend", "kill_daemon", "killed"}
        /\ sentinel \in BOOLEAN
    BY DEF Places, CliInv, SupTypeOK
  <2>2. CASE StartSpawns(t) \/ StartRecords(t) \/ StartCannotRecord(t)
    BY <2>2, StartsKeepInv
  <2>3. CASE \/ StopFindsNothing(t) \/ ForceKillsDaemon(t) \/ ForceCleans(t)
             \/ \E l \in Labels : ForceKillsChild(t, l)
    BY <2>3, StopsKeepInv
  <2>4. CASE StartIsHealthy(t) \/ RequestsStop(t) \/ RequestNoticed(t) \/ RequestExpires(t)
    <3>1. PICK from \in {"waiting", "asked"}, to \in {"idle", "asked"} :
             /\ Moves(t, from, to) /\ UNCHANGED <<pidfile, alive, sup, crashed>>
             /\ sentinel' \in BOOLEAN
      BY <2>1, <2>4 DEF StartIsHealthy, RequestsStop, RequestNoticed, RequestExpires, supVars
    <3>2. from \in Places \ {"spawned"} /\ to \in Places \ {"spawned", "killed"}
      BY <2>1
    <3> QED BY <3>1, <3>2, MovingKeepsInv
  <2>5. CASE StopFindsDaemon(t) \/ StopAsks(t) \/ StopCannotAsk(t) \/ StopNoticed(t) \/ StopForces(t)
    <3>1. PICK from \in {"idle", "stop", "stopping"}, to \in {"idle", "stop", "stopping", "kill_backend"} :
             /\ Moves(t, from, to) /\ UNCHANGED <<pidfile, alive, sup, crashed>>
             /\ sentinel' \in BOOLEAN
      BY <2>1, <2>5 DEF StopFindsDaemon, StopAsks, StopCannotAsk, StopNoticed, StopForces, supVars
    <3>2. from \in Places \ {"spawned"} /\ to \in Places \ {"spawned", "killed"}
      BY <2>1
    <3> QED BY <3>1, <3>2, MovingKeepsInv
  <2> QED BY <1>3, <2>2, <2>3, <2>4, <2>5 DEF CliStep, Waits, CliUser
<1> QED BY <1>1, <1>2, <1>3 DEF CliNext

(* Wherever supervisors and commands are when a child ends, a launch fails   *)
(* or a supervisor is killed, the invariant above holds (daemon.Run,         *)
(* RunStart, RunStop).                                                       *)
THEOREM CliInvariance ==
    ASSUME OneTerminal
    PROVE  CliSpec => []CliInv
<1>1. CliInv /\ UNCHANGED cliVars => CliInv'
  BY DEF cliVars, CliInv, SupTypeOK, CliTypeOK, OneSupervises, FilesName, ChildrenKnown, ChildKnown,
         MayRun, CommandsKnow, Supervising
<1>2. CliInv /\ [CliNext]_cliVars => CliInv'
  BY <1>1, CliStepsKeepInv
<1> QED BY <1>2, CliInitInv, PTL DEF CliSpec

(* One supervisor runs at most, the pid files name each of its living        *)
(* children, and only a supervisor that was killed leaves any behind         *)
(* (daemon.Run, managed.start, cleanupAll).                                  *)
THEOREM ProcessesAreAccountedFor ==
    ASSUME OneTerminal
    PROVE  CliSpec => []EveryProcessIsAccountedFor
<1> SUFFICES ASSUME CliInv PROVE EveryProcessIsAccountedFor
  BY CliInvariance, PTL
<1>1. \A r, s \in Sups : Supervising(r) /\ Supervising(s) => r = s
  BY DEF CliInv, OneSupervises
<1>2. ASSUME NEW s \in Sups, NEW l \in Labels, Supervising(s), Child(s, l) \in alive
      PROVE  pidfile[l] = Child(s, l)
  <2>1. Child(s, l) = <<s, l, sup[s].restarts[l]>> /\ sup[s].restarts[l] \in 0 .. MaxRestarts
    BY DEF Child, CliInv, SupTypeOK
  <2> QED BY <1>2, <2>1 DEF CliInv, ChildrenKnown, ChildKnown, OneSupervises, Acting
<1>3. ASSUME NEW p \in alive \cap Children
      PROVE  Supervising(p[1]) \/ sup[p[1]].pc = "killed"
  <2>1. PICK s \in Sups, l \in Labels, n \in 0 .. MaxRestarts : p = <<s, l, n>>
    BY Names
  <2> QED BY <2>1, Names DEF CliInv, ChildrenKnown, ChildKnown
<1> QED BY <1>1, <1>2, <1>3 DEF EveryProcessIsAccountedFor

(* When wizard stop returns, noticed or after it had to kill, nothing        *)
(* supervises any more (RunStop, forceKill).                                 *)
THEOREM StoppingStops ==
    ASSUME OneTerminal
    PROVE  CliSpec => StopStops
<1>1. ASSUME CliInv, [CliNext]_cliVars, NEW t \in Terminals,
             cli[t].at \in {"stopping", "killed"}, cli'[t].at = "idle", NEW s \in Sups
      PROVE  ~Supervising(s)'
  <2>1. CliTypeOK /\ CommandsKnow /\ \A u \in Terminals : u = t
    BY <1>1 DEF CliInv, OneTerminal
  <2>2. cli' # cli /\ CliNext
    BY <1>1 DEF cliVars
  <2>3. PICK u \in Terminals : CliStep(u) \/ Waits(u) \/ CliUser(u)
    BY <2>2 DEF CliNext
  <2>4. u = t
    BY <2>1
  <2>5. StopNoticed(t) \/ ForceCleans(t)
    <3>1. \A from \in Places, to \in Places : Moves(t, from, to) => cli[t].at = from /\ cli'[t].at = to
      BY <2>1, Moving DEF Moves, CliTypeOK
    <3> QED BY <1>1, <2>1, <2>3, <2>4, <3>1
           DEF CliStep, Waits, CliUser, StartSpawns, StopFindsNothing, StopFindsDaemon, StartRecords,
               StartCannotRecord, StartIsHealthy, RequestsStop, RequestNoticed, RequestExpires,
               StopAsks, StopCannotAsk, StopForces, ForceKillsChild, ForceKillsDaemon, Places
  <2>6. CASE StopNoticed(t)
    BY <1>1, <2>1, <2>6 DEF StopNoticed, Moves, supVars, CommandsKnow, LiveAt, Supervising
  <2>7. CASE ForceCleans(t)
    BY <1>1, <2>1, <2>7 DEF ForceCleans, Moves, CommandsKnow, Supervising
  <2> QED BY <2>5, <2>6, <2>7
<1>2. CliInv /\ [CliNext]_cliVars
         => [\A t \in Terminals :
                cli[t].at \in {"stopping", "killed"} /\ cli'[t].at = "idle"
                   => \A s \in Sups : ~Supervising(s)']_cliVars
  BY <1>1
<1> QED BY <1>2, CliInvariance, PTL DEF CliSpec, StopStops
=============================================================================

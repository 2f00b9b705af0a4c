-------------------------------- MODULE Setup --------------------------------
(***************************************************************************)
(* wizard init and wizard update: a sequence of steps of which each may    *)
(* fail or be interrupted, and which start from what the last attempt left *)
(* behind. Versions are those of the checkout, 0 is "none".                *)
(***************************************************************************)
EXTENDS Naturals

CONSTANTS
    MaxVersion,     \* bound: versions that can be pulled
    Ports           \* a port for the daemon, the default among them

ASSUME SetupAssumption == MaxVersion \in Nat \ {0} /\ "default" \in Ports

DefaultModel == [manager |-> "qwen3:8b", worker |-> "qwen2.5-coder:7b"]
Small == "qwen2.5:3b"   \* fallbackSingleModel
Mine == "named"         \* what the user names, in the file or by a flag
Roles == {"manager", "worker"}

VARIABLES
    ram,        \* whether the default pair fits: recommendModels
    envFile,    \* backend/.env: whether it exists, and the models it pins
    venv,       \* none, bare (an interpreter and no pip), made
    deps, modules, build,   \* versions: pip install, npm ci, npm run build
    pulled,     \* models Ollama has
    source,     \* the version of the checkout
    daemon,     \* what runs: the version it was started from, and its port
    ports,      \* ports.json
    cmd,        \* the command that runs
    done        \* the last command, if it reported success

setupVars == <<ram, envFile, venv, deps, modules, build, pulled, source, daemon, ports, cmd, done>>

NoCmd == [at |-> "idle", name |-> "none", pull |-> FALSE, named |-> FALSE, ok |-> TRUE,
          restart |-> FALSE]
NotRunning == [version |-> 0, port |-> "default"]
NoEnvFile == [exists |-> FALSE, manager |-> "unset", worker |-> "unset"]

SetupInit ==
    /\ ram \in {"fits", "short", "unknown"}
    /\ envFile = NoEnvFile /\ venv = "none"
    /\ deps = 0 /\ modules = 0 /\ build = 0 /\ pulled = {}
    /\ source = 1 /\ daemon = NotRunning /\ ports = "default"
    /\ cmd = NoCmd /\ done = NoCmd

SetupTypeOK ==
    /\ source \in 1 .. MaxVersion /\ daemon \in [version : 0 .. source, port : Ports]
    /\ deps \in 0 .. source /\ modules \in 0 .. source /\ build \in 0 .. source
    /\ venv \in {"none", "bare", "made"} /\ ports \in Ports
    /\ envFile \in [exists : BOOLEAN, manager : {"unset", Small, Mine}, worker : {"unset", Small, Mine}]
    /\ pulled \subseteq {DefaultModel[r] : r \in Roles} \cup {Small, Mine}

Proceeds(at) == cmd' = [cmd EXCEPT !.at = at] /\ UNCHANGED done
Concludes(ok) == cmd' = NoCmd /\ done' = IF ok THEN cmd ELSE NoCmd

installVars == <<envFile, venv, deps, modules, build, pulled>>
aroundVars == <<ram, source, daemon, ports>>

(* The prerequisites may be missing, at the start of a command.              *)
Begins(command, at) ==
    /\ cmd = NoCmd /\ done' = NoCmd
    /\ cmd' \in {NoCmd, [command EXCEPT !.at = at]}

-----------------------------------------------------------------------------
(* RunInit: the smaller model replaces a pair that does not fit, unless the  *)
(* user named one.                                                           *)
InitBegins(pull, named) ==
    /\ Begins([NoCmd EXCEPT !.name = "init", !.pull = pull, !.named = named], "env")
    /\ UNCHANGED <<installVars, aroundVars>>

Applied == ram = "short" /\ ~cmd.named
Resolved(role) ==
    IF cmd.named THEN Mine ELSE IF Applied THEN Small ELSE DefaultModel[role]

(* ensureEnvFile                                                             *)
KeepsEnv ==
    /\ cmd.at = "env" /\ envFile.exists
    /\ Proceeds("venv")
    /\ UNCHANGED <<installVars, aroundVars>>

CopiesEnv ==
    /\ cmd.at = "env" /\ ~envFile.exists
    /\ envFile' = [NoEnvFile EXCEPT !.exists = TRUE]
    /\ Proceeds(IF Applied THEN "manager" ELSE "venv")
    /\ UNCHANGED <<venv, deps, modules, build, pulled, aroundVars>>

PinsModel(role) ==
    /\ cmd.at = role
    /\ envFile' = [envFile EXCEPT ![role] = Resolved(role)]
    /\ Proceeds(IF role = "manager" THEN "worker" ELSE "venv")
    /\ UNCHANGED <<venv, deps, modules, build, pulled, aroundVars>>

-----------------------------------------------------------------------------
(* installDependencies                                                       *)
EnsuresVenv ==
    /\ cmd.at = "venv"
    /\ venv' = IF venv = "none" THEN "made" ELSE venv
    /\ Proceeds("pip")
    /\ UNCHANGED <<envFile, deps, modules, build, pulled, aroundVars>>

Pips ==
    /\ cmd.at = "pip" /\ venv = "made"
    /\ deps' = source
    /\ Proceeds("ci")
    /\ UNCHANGED <<envFile, venv, modules, build, pulled, aroundVars>>

InstallsModules ==
    /\ cmd.at = "ci"
    /\ modules' = source
    /\ Proceeds("build")
    /\ UNCHANGED <<envFile, venv, deps, build, pulled, aroundVars>>

After == IF cmd.name = "update" THEN "compare" ELSE IF cmd.pull THEN "pull manager" ELSE "end"

(* Mutant of Builds: a bundle that is there is not built again.              *)
BuildsOnce ==
    /\ cmd.at = "build"
    /\ build' = IF build = 0 THEN source ELSE build
    /\ Proceeds(After)
    /\ UNCHANGED <<envFile, venv, deps, modules, pulled, aroundVars>>

Builds ==
    /\ cmd.at = "build"
    /\ build' = source
    /\ Proceeds(After)
    /\ UNCHANGED <<envFile, venv, deps, modules, pulled, aroundVars>>

(* A step that fails, or is interrupted, leaves its work half done.          *)
Fails ==
    /\ cmd.at \notin {"idle", "end"}
    /\ Concludes(FALSE)
    /\ envFile' = IF cmd.at = "env" /\ ~envFile.exists
                THEN [NoEnvFile EXCEPT !.exists = TRUE] ELSE envFile
    /\ venv' = IF cmd.at = "venv" /\ venv = "none" THEN "bare" ELSE venv
    /\ deps' = IF cmd.at = "pip" THEN 0 ELSE deps
    /\ modules' = IF cmd.at = "ci" THEN 0 ELSE modules
    /\ UNCHANGED <<build, pulled, aroundVars>>

FailsCleanly ==
    /\ cmd.at \notin {"idle", "end"}
    /\ Concludes(FALSE)
    /\ UNCHANGED <<installVars, aroundVars>>

-----------------------------------------------------------------------------
(* pullDefaultModels: a role that has a model pinned is skipped, and a pull  *)
(* that fails does not stop the other.                                       *)
PullsModel(role, succeeds) ==
    /\ cmd.at = (IF role = "manager" THEN "pull manager" ELSE "pull worker")
    /\ LET wanted == envFile[role] = "unset"
       IN  /\ pulled' = IF wanted /\ succeeds THEN pulled \cup {Resolved(role)} ELSE pulled
           /\ cmd' = [cmd EXCEPT !.at = IF role = "manager" THEN "pull worker" ELSE "end",
                                 !.ok = cmd.ok /\ (wanted => succeeds)]
    /\ UNCHANGED <<envFile, venv, deps, modules, build, aroundVars, done>>

Finishes ==
    /\ cmd.at = "end"
    /\ Concludes(cmd.ok)
    /\ UNCHANGED <<installVars, aroundVars>>

-----------------------------------------------------------------------------
(* RunUpdate: the daemon is stopped first (RunStop is WizardCLI's).          *)
UpdateBegins ==
    /\ Begins([NoCmd EXCEPT !.name = "update", !.restart = daemon # NotRunning], "git")
    /\ daemon' = NotRunning
    /\ UNCHANGED <<installVars, ram, source, ports>>

GitPulls(version) ==
    /\ cmd.at = "git" /\ version \in source .. MaxVersion
    /\ source' = version
    /\ Proceeds("venv")
    /\ UNCHANGED <<installVars, ram, daemon, ports>>

Compares ==
    /\ cmd.at = "compare"
    /\ Proceeds(IF cmd.restart THEN "restart" ELSE "end")
    /\ UNCHANGED <<installVars, aroundVars>>

(* RunStart, as far as it looks at the installation.                         *)
LaunchesDaemon(port, recorded) ==
    /\ daemon = NotRunning /\ venv # "none" /\ build # 0
    /\ daemon' = [version |-> source, port |-> port]
    /\ ports' = IF recorded THEN port ELSE ports
    /\ UNCHANGED <<installVars, ram, source>>

RestartsDaemon(recorded) ==
    /\ cmd.at = "restart"
    /\ LaunchesDaemon(ports, recorded)
    /\ Concludes(TRUE)

StartsDaemon(port, recorded) ==
    /\ cmd = NoCmd
    /\ LaunchesDaemon(port, recorded)
    /\ cmd' = NoCmd /\ done' = NoCmd

StopsDaemon ==
    /\ cmd = NoCmd /\ daemon # NotRunning
    /\ daemon' = NotRunning /\ done' = NoCmd
    /\ UNCHANGED <<installVars, ram, source, ports, cmd>>

(* The user edits backend/.env.                                              *)
Edits(role) ==
    /\ cmd = NoCmd /\ envFile.exists /\ envFile[role] # Mine
    /\ envFile' = [envFile EXCEPT ![role] = Mine]
    /\ done' = NoCmd
    /\ UNCHANGED <<venv, deps, modules, build, pulled, aroundVars, cmd>>

SetupNext ==
    \/ \E pull, named \in BOOLEAN : InitBegins(pull, named)
    \/ KeepsEnv \/ CopiesEnv \/ EnsuresVenv \/ Pips \/ InstallsModules \/ Builds
    \/ Fails \/ FailsCleanly \/ Finishes \/ UpdateBegins \/ Compares \/ StopsDaemon
    \/ \E role \in Roles : PinsModel(role) \/ Edits(role)
    \/ \E role \in Roles, succeeds \in BOOLEAN : PullsModel(role, succeeds)
    \/ \E version \in 1 .. MaxVersion : GitPulls(version)
    \/ \E recorded \in BOOLEAN :
          RestartsDaemon(recorded) \/ \E port \in Ports : StartsDaemon(port, recorded)

SetupSpec == SetupInit /\ [][SetupNext]_setupVars

-----------------------------------------------------------------------------
(* A command that reports success leaves a whole installation of the version *)
(* that is checked out, whatever the commands before it left half done, and  *)
(* a daemon it restarts is of that version (installDependencies: "update     *)
(* cannot drift from what init actually does").                              *)
DoneIsComplete ==
    done # NoCmd =>
        /\ venv = "made" /\ deps = source /\ modules = source /\ build = source
        /\ done.name = "init" => envFile.exists
        /\ done.restart => daemon.version = source

(* "--pull-models also `ollama pull`s a default manager/worker pair"         *)
(* (cli/README.md:77), and a pull that was skipped "must not look like a     *)
(* completed one" (init.go:101): once it has reported success, Ollama has    *)
(* each model that init itself has pinned.                                   *)
PullModelsPulls ==
    done.pull => \A role \in Roles : envFile[role] \in pulled \cup {"unset", Mine}

(* An update brings the daemon back on the port it had ("Restarts the daemon *)
(* afterward if it was running before", cli/README.md:83).                   *)
UpdateRestoresThePort == daemon # NotRunning => ports = daemon.port
=============================================================================

------------------------------- MODULE Skills -------------------------------
(***************************************************************************)
(* Installing one skill from a repository: the staged review, the three    *)
(* layers of skill files, the index of what was installed, and the         *)
(* registry's cached scan, which is what the agent reads. A request is a   *)
(* thread of its own (asyncio.to_thread); each of its writes is a step, and *)
(* any of them may fail. A crash forgets what is in memory.                *)
(*                                                                         *)
(* Content 0 is written by hand; content c is the text at commit c.        *)
(***************************************************************************)
EXTENDS Naturals

CONSTANTS
    Clients,        \* requests being served at once
    MaxCommits      \* bound: commits the source ever has

ASSUME SkillsAssumption == MaxCommits \in Nat \ {0}

VARIABLES
    upstream,   \* the commit the source's ref names
    staged,     \* the pending directory: the commits of its text and of its stamp
    files,      \* the skill's file in each layer: {} or {content}
    index,      \* installed.json: the commit recorded for the skill, 0 for none
    cache,      \* the registry's scan: {} or {[layer, content, pin]}
    scan,       \* the scan holding the registry's lock, with the layers it has read
    job,        \* what each request is doing
    unread      \* ghost: a request failed between its write and its reload

skillVars == <<upstream, staged, files, index, cache, scan, job, unread>>

Layers == 1 .. 3     \* SkillLayer, ascending precedence
Builtin == 1
User == 2
Content == 0 .. MaxCommits
Commits == 1 .. MaxCommits
Maybe(S) == {{}} \cup {{x} : x \in S}
NoSkill == [layer |-> 0, content |-> 0, pin |-> 0]
NotStaged == [text |-> 0, stamp |-> 0]
NoJob == [op |-> "idle"]
NoScan == [at |-> 0, seen |-> NoSkill]

SkillsTypeOK ==
    /\ upstream \in Commits
    /\ staged \in [text : Content, stamp : Content]
    /\ files \in [Layers -> Maybe(Content)]
    /\ index \in Content
    /\ cache \in Maybe([layer : {0} \cup Layers, content : Content, pin : Content])
    /\ scan \in [at : 0 .. 4, seen : [layer : {0} \cup Layers, content : Content, pin : Content]]
    /\ unread \in BOOLEAN
    /\ \A c \in Clients : job[c] = NoJob \/ job[c] \in
         [op : {"preview", "approve", "update", "write", "uninstall"}, sha : Content,
          text : Content,
          at : {"stage", "stamp", "read", "put", "record", "reload", "unstage", "forget"}]

SkillsInit ==
    /\ upstream = 1
    /\ staged = NotStaged
    /\ files \in [Layers -> Maybe({0})] /\ files[User] = {}
    /\ index = 0
    /\ cache = {} /\ scan = NoScan
    /\ job = [c \in Clients |-> NoJob]
    /\ unread = FALSE

Does(c, op, at, sha, text) ==
    job' = [job EXCEPT ![c] = [op |-> op, at |-> at, sha |-> sha, text |-> text]]
JobGoes(c, at) == job' = [job EXCEPT ![c].at = at]
EndsJob(c) == job' = [job EXCEPT ![c] = NoJob]
JobIsAt(c, op, at) == job[c] # NoJob /\ job[c].op = op /\ job[c].at = at

-----------------------------------------------------------------------------
(* The registry: scanned once, layer by layer under its lock, a later layer  *)
(* hiding an earlier one. Only the user layer is given a provenance.         *)
Scans ==
    /\ cache = {} /\ scan = NoScan
    /\ scan' = [NoScan EXCEPT !.at = 1]
    /\ UNCHANGED <<upstream, staged, files, index, cache, job, unread>>

ScansLayer ==
    /\ scan.at \in Layers
    /\ scan' = [at |-> scan.at + 1,
                seen |-> IF files[scan.at] = {} THEN scan.seen
                         ELSE [layer |-> scan.at, pin |-> 0,
                               content |-> CHOOSE content \in files[scan.at] : TRUE]]
    /\ UNCHANGED <<upstream, staged, files, index, cache, job, unread>>

ScanEnds ==
    /\ scan.at = 4
    /\ cache' = {[scan.seen EXCEPT !.pin = IF scan.seen.layer = User THEN index ELSE 0]}
    /\ scan' = NoScan
    /\ UNCHANGED <<upstream, staged, files, index, job, unread>>

\* Mutant of Drops: without the lock a scan keeps.
DropsOutsideTheLock == cache' = {} /\ unread' = FALSE
Drops == scan = NoScan /\ cache' = {} /\ unread' = FALSE

FindsSkill(skill) == cache = {skill} /\ skill # NoSkill

-----------------------------------------------------------------------------
(* preview: the ref becomes a commit, and the text at that commit and then   *)
(* its stamp are written. A refused address, listing or skill writes         *)
(* nothing. A source that was staged before is staged under the same id.     *)
Previews(c) ==
    /\ job[c] = NoJob
    /\ Does(c, "preview", "stage", upstream, 0)
    /\ UNCHANGED <<upstream, staged, files, index, cache, scan, unread>>

Stages(c) ==
    /\ \/ JobIsAt(c, "preview", "stage")
          /\ staged' = [staged EXCEPT !.text = job[c].sha] /\ JobGoes(c, "stamp")
       \/ JobIsAt(c, "preview", "stamp")
          /\ staged' = [staged EXCEPT !.stamp = job[c].sha] /\ EndsJob(c)
    /\ UNCHANGED <<upstream, files, index, cache, scan, unread>>

Pending == staged.text # 0 /\ staged.stamp # 0

Discards(c) ==
    /\ job[c] = NoJob /\ Pending
    /\ staged' = NotStaged
    /\ UNCHANGED <<upstream, files, index, cache, scan, job, unread>>

(* approve takes the stamp, then reads the text a second time.               *)
Approves(c) ==
    /\ job[c] = NoJob /\ Pending
    /\ Does(c, "approve", "read", staged.stamp, 0)
    /\ UNCHANGED <<upstream, staged, files, index, cache, scan, unread>>

ReadsStaged(c) ==
    /\ JobIsAt(c, "approve", "read") /\ staged.text # 0
    /\ Does(c, "approve", "put", job[c].sha, staged.text)
    /\ UNCHANGED <<upstream, staged, files, index, cache, scan, unread>>

PutsApproved(c) ==
    /\ JobIsAt(c, "approve", "put")
    /\ files' = [files EXCEPT ![User] = {job[c].text}]
    /\ JobGoes(c, "record")
    /\ UNCHANGED <<upstream, staged, index, cache, scan, unread>>

-----------------------------------------------------------------------------
(* The stored ref is resolved again. The file that is replaced is the one    *)
(* the registry finds under the name, whatever its layer.                    *)
Updates(c) ==
    /\ job[c] = NoJob /\ index # 0
    /\ \E skill \in cache : FindsSkill(skill)
    /\ upstream # index
    /\ Does(c, "update", "put", upstream, upstream)
    /\ UNCHANGED <<upstream, staged, files, index, cache, scan, unread>>

PutsUpdate(c) ==
    /\ JobIsAt(c, "update", "put") /\ index # 0
    /\ \E skill \in cache :
        /\ FindsSkill(skill)
        /\ files' = [files EXCEPT ![skill.layer] = {job[c].text}]
    /\ JobGoes(c, "record")
    /\ UNCHANGED <<upstream, staged, index, cache, scan, unread>>

RecordsPin(c) ==
    /\ JobIsAt(c, "approve", "record") \/ JobIsAt(c, "update", "record")
    /\ index' = job[c].sha
    /\ JobGoes(c, "reload")
    /\ UNCHANGED <<upstream, staged, files, cache, scan, unread>>

(* Created in the user layer, or rewritten where it was found.               *)
Writes(c) ==
    /\ job[c] = NoJob
    /\ \E layer \in ({User} \cup {skill.layer : skill \in cache}) \ {0, Builtin} :
         files' = [files EXCEPT ![layer] = {0}]
    /\ Does(c, "write", "reload", 0, 0)
    /\ UNCHANGED <<upstream, staged, index, cache, scan, unread>>

(* A built-in skill is refused and its record kept; a skill that is not      *)
(* there only loses its record.                                              *)
Uninstalls(c) ==
    /\ job[c] = NoJob
    /\ \E skill \in cache :
        /\ skill.layer # Builtin
        /\ IF FindsSkill(skill)
           THEN files' = [files EXCEPT ![skill.layer] = {}] /\ Does(c, "uninstall", "reload", 0, 0)
           ELSE Does(c, "uninstall", "forget", 0, 0) /\ UNCHANGED files
    /\ UNCHANGED <<upstream, staged, index, cache, scan, unread>>

Reloads(c) ==
    /\ \/ JobIsAt(c, "approve", "reload") /\ JobGoes(c, "unstage")
       \/ JobIsAt(c, "update", "reload") /\ EndsJob(c)
       \/ JobIsAt(c, "write", "reload") /\ EndsJob(c)
       \/ JobIsAt(c, "uninstall", "reload") /\ JobGoes(c, "forget")
    /\ Drops
    /\ UNCHANGED <<upstream, staged, files, index, scan>>

Unstages(c) ==
    /\ JobIsAt(c, "approve", "unstage")
    /\ staged' = NotStaged
    /\ EndsJob(c)
    /\ UNCHANGED <<upstream, files, index, cache, scan, unread>>

(* A record that could not be written is not reported.                       *)
ForgetsRecord(c) ==
    /\ JobIsAt(c, "uninstall", "forget")
    /\ index' \in {0, index}
    /\ EndsJob(c)
    /\ UNCHANGED <<upstream, staged, files, cache, scan, unread>>

(* A step that fails ends its request where it stands: nothing is undone and *)
(* nothing after it is done.                                                 *)
Fails(c) ==
    /\ job[c] # NoJob /\ job[c].at \in {"stage", "stamp", "read", "put", "record"}
    /\ EndsJob(c)
    /\ unread' = (unread \/ job[c].at = "record")
    /\ UNCHANGED <<upstream, staged, files, index, cache, scan>>

-----------------------------------------------------------------------------
CommitsUpstream ==
    /\ upstream < MaxCommits
    /\ upstream' = upstream + 1
    /\ UNCHANGED <<staged, files, index, cache, scan, job, unread>>

SkillsCrash ==
    /\ cache' = {} /\ scan' = NoScan /\ unread' = FALSE
    /\ job' = [c \in Clients |-> NoJob]
    /\ UNCHANGED <<upstream, staged, files, index>>

SkillsNext ==
    \/ Scans \/ ScansLayer \/ ScanEnds \/ CommitsUpstream \/ SkillsCrash
    \/ \E c \in Clients :
         \/ Previews(c) \/ Stages(c) \/ Discards(c)
         \/ Approves(c) \/ ReadsStaged(c) \/ PutsApproved(c)
         \/ Updates(c) \/ PutsUpdate(c) \/ RecordsPin(c)
         \/ Writes(c) \/ Uninstalls(c) \/ Reloads(c)
         \/ Unstages(c) \/ ForgetsRecord(c) \/ Fails(c)

SkillsSpec == SkillsInit /\ [][SkillsNext]_skillVars

-----------------------------------------------------------------------------
(* A review is never lost half-way: however a write fails or the backend     *)
(* dies, the staged copy goes only when the user throws it away or when its  *)
(* text is installed and its commit recorded (approve).                      *)
ReviewStands ==
    [][staged # NotStaged /\ staged' = NotStaged =>
        \/ job' = job
        \/ files[User] = {staged.text} /\ index = staged.stamp]_skillVars

OnDisk ==
    LET defining == {layer \in Layers : files[layer] # {}} IN
    IF defining = {} THEN <<0, {0}>>
    ELSE LET top == CHOOSE layer \in defining : \A other \in defining : other <= layer IN
         <<top, files[top]>>

(* Once the requests that changed a skill have reloaded the registry, it     *)
(* answers with what is on disk, even when the agent's own scan was under    *)
(* way while the files changed (write, delete, reload, _load).               *)
RegistryIsCurrent ==
    ~unread /\ (\A c \in Clients : job[c] # NoJob => job[c].at \notin {"record", "reload"}) =>
        \A skill \in cache : <<skill.layer, {skill.content}>> = OnDisk

(* An update writes the user's layer, and what ships with Wizard stays as it *)
(* was shipped.                                                              *)
BuiltinIsUntouched == [][files'[Builtin] = files[Builtin]]_skillVars

(* What is recorded as installed was written (approve, apply_update).        *)
PinNamesTheText == index # 0 /\ files[User] # {} => files[User] \in {{index}, {0}}
=============================================================================

--------------------------- MODULE PermissionGate ---------------------------
(***************************************************************************)
(* core/permissions.py and its two gates: orchestrator._permit, which an   *)
(* agent's task passes before it acts, and authorize, which a click over   *)
(* HTTP passes.  All tasks of a session share one PermissionState, and the *)
(* user can change the profile while any of them is parked on a question.  *)
(*                                                                         *)
(* A task wants one <<category, subject>> pair at a time.  A question is   *)
(* put through ConsentBroker; here its answer is either heard as a yes or  *)
(* is anything else (a no, a timeout, an abandon).                         *)
(***************************************************************************)
EXTENDS Naturals, FiniteSets

CONSTANTS
    Agents,         \* the turns and subagents of the session
    Attended,       \* those whose transport can carry a question
    Clients,        \* HTTP requests of the user
    Categories,     \* the categories that are gated
    AlwaysAsk,      \* those with always_ask
    PathCategory,   \* "workspace_write"
    DefaultRuling,  \* the default column of CATEGORIES
    Subjects,       \* what an action may be about; the paths, for PathCategory
    DirOf,          \* the directory allow_root records for each path
    DefaultProfile, \* AGENT_PERMISSION_PROFILE
    NoWant

Profiles == {"auto-approve", "ask-always", "custom"}
Rulings == {"allow", "ask", "deny"}
Pairs == Categories \X Subjects
Tasks == Agents \cup Clients

ASSUME GateAssumption ==
    /\ Attended \subseteq Agents
    /\ AlwaysAsk \subseteq Categories
    /\ PathCategory \in Categories \ AlwaysAsk
    /\ DefaultRuling \in [Categories -> Rulings]
    /\ \A c \in AlwaysAsk : DefaultRuling[c] # "allow"
    /\ DefaultProfile \in Profiles
    /\ NoWant \notin Pairs

VARIABLES
    profile,  \* PermissionState.profile
    custom,   \* PermissionState.custom, "unset" where the dict has no entry
    grants,   \* PermissionState.grants
    roots,    \* PermissionState.extra_roots
    gate,     \* where each task is
    want,     \* the pair each task is about
    yes       \* history: pairs the user said yes to since auto-approve was left

vars == <<profile, custom, grants, roots, gate, want, yes>>
state == <<profile, custom, grants, roots>>

Init ==
    /\ profile = DefaultProfile
    /\ custom = [c \in Categories |-> "unset"]
    /\ grants = {} /\ roots = {} /\ yes = {}
    /\ gate = [t \in Tasks |-> "free"]
    /\ want = [t \in Tasks |-> NoWant]

\* Mutant of RulingFor: always_ask is not clamped.
RulingUnclamped(c) ==
    CASE profile = "auto-approve" -> "allow"
      [] profile = "ask-always" -> "ask"
      [] profile = "custom" -> IF custom[c] = "unset" THEN DefaultRuling[c] ELSE custom[c]

\* ruling_for: what the profile says before any grant is looked at.
RulingFor(c) ==
    LET ruling == CASE profile = "auto-approve" -> "allow"
                    [] profile = "ask-always" -> "ask"
                    [] profile = "custom" ->
                         IF custom[c] = "unset" THEN DefaultRuling[c] ELSE custom[c]
    IN  IF c \in AlwaysAsk /\ ruling = "allow" THEN "ask" ELSE ruling

(***************************************************************************)
(* POST /api/permissions                                                   *)
(***************************************************************************)

\* The rulings of a request that set_ruling accepts.  At most one category
\* a request, which bounds the model and loses nothing: requests can follow
\* each other at once.
Accepted == UNION {[S -> Rulings] : S \in {T \in SUBSET Categories : Cardinality(T) <= 1}}

Clamps(f) == \A c \in DOMAIN f : c \in AlwaysAsk => f[c] # "allow"

\* Mutant of SetPermissions: the clean-up looks at the new profile.
SetPermissionsNew(f, refused, p) ==
    /\ Clamps(f)
    /\ custom' = [c \in Categories |-> IF c \in DOMAIN f THEN f[c] ELSE custom[c]]
    /\ IF refused THEN UNCHANGED <<profile, grants, roots, yes>>
       ELSE /\ profile' = p
            /\ IF p # profile /\ p = "auto-approve"
               THEN grants' = {} /\ roots' = {}
               ELSE UNCHANGED <<grants, roots>>
            /\ IF p # profile /\ profile = "auto-approve"
               THEN yes' = {want[t] : t \in {u \in Tasks : gate[u] = "heard"}}
               ELSE UNCHANGED yes
    /\ UNCHANGED <<gate, want>>

\* The rulings f are recorded one by one; a later one that set_ruling refuses
\* ends the request with a 400 and leaves the profile alone.  Leaving
\* auto-approve forgets what was granted.  p = profile stands for a request
\* that names no profile.
SetPermissions(f, refused, p) ==
    /\ Clamps(f)
    /\ custom' = [c \in Categories |-> IF c \in DOMAIN f THEN f[c] ELSE custom[c]]
    /\ IF refused THEN UNCHANGED <<profile, grants, roots, yes>>
       ELSE /\ profile' = p
            /\ IF p # profile /\ profile = "auto-approve"
               THEN /\ grants' = {} /\ roots' = {}
                    /\ yes' = {want[t] : t \in {u \in Tasks : gate[u] = "heard"}}
               ELSE UNCHANGED <<grants, roots, yes>>
    /\ UNCHANGED <<gate, want>>

(***************************************************************************)
(* The agent's gate.                                                       *)
(***************************************************************************)

\* What a task does once the gate is open.  A path widens the guard's roots
\* and the code is scanned again; anything else is done at once.
Opens(a, p) ==
    IF p[1] = PathCategory
    THEN /\ roots' = roots \cup {DirOf[p[2]]}
         /\ gate' = [gate EXCEPT ![a] = "rescan"]
    ELSE /\ gate' = [gate EXCEPT ![a] = "acting"]
         /\ UNCHANGED roots

\* _permit, down to the await of the question.  A path is only asked about
\* when the guard has found it outside the roots.
Permit(a, p) ==
    /\ gate[a] = "free"
    /\ p[1] = PathCategory => DirOf[p[2]] \notin roots
    /\ want' = [want EXCEPT ![a] = p]
    /\ \/ /\ p \in grants \/ RulingFor(p[1]) = "allow"
          /\ Opens(a, p)
       \/ /\ p \notin grants /\ RulingFor(p[1]) = "ask" /\ a \in Attended
          /\ gate' = [gate EXCEPT ![a] = "asking"]
          /\ UNCHANGED roots
    /\ UNCHANGED <<profile, custom, grants, yes>>

\* _permit refuses at once: the ruling is deny, or nobody can be asked.  The
\* turn goes on without the step.
Refuse(a, p) ==
    /\ gate[a] = "free"
    /\ p \notin grants
    /\ RulingFor(p[1]) = "deny" \/ (RulingFor(p[1]) = "ask" /\ a \notin Attended)
    /\ UNCHANGED vars

\* The user says yes: the future has its result, the task has not run yet.
SayYes(a) ==
    /\ gate[a] = "asking"
    /\ gate' = [gate EXCEPT ![a] = "heard"]
    /\ yes' = yes \cup {want[a]}
    /\ UNCHANGED <<state, want>>

\* A task is done with what it wanted.
Frees(t) ==
    /\ gate' = [gate EXCEPT ![t] = "free"]
    /\ want' = [want EXCEPT ![t] = NoWant]

\* Any other end of the question.
Decline(a) ==
    /\ gate[a] = "asking"
    /\ Frees(a)
    /\ UNCHANGED <<state, yes>>

\* Mutant of Resume: the category is granted, whatever the subject.
ResumeCategory(a) ==
    /\ gate[a] = "heard"
    /\ grants' = grants \cup {p \in Pairs : p[1] = want[a][1]}
    /\ Opens(a, want[a])
    /\ UNCHANGED <<profile, custom, want, yes>>

\* _permit goes on after a yes: remembered for the rest of the session.
Resume(a) ==
    /\ gate[a] = "heard"
    /\ grants' = grants \cup {want[a]}
    /\ Opens(a, want[a])
    /\ UNCHANGED <<profile, custom, want, yes>>

\* The code guard lets code through whose path is inside the roots, the
\* first time (no gate at all) or when it is scanned again.
GuardPasses(a, s) ==
    /\ \/ gate[a] = "free"
       \/ gate[a] = "rescan" /\ want[a][2] = s
    /\ DirOf[s] \in roots
    /\ want' = [want EXCEPT ![a] = <<PathCategory, s>>]
    /\ gate' = [gate EXCEPT ![a] = "acting"]
    /\ UNCHANGED <<state, yes>>

\* The roots were forgotten in between: the guard blocks after all.
GuardBlocks(a) ==
    /\ gate[a] = "rescan"
    /\ DirOf[want[a][2]] \notin roots
    /\ Frees(a)
    /\ UNCHANGED <<state, yes>>

(***************************************************************************)
(* authorize: the click is the answer, unless the ruling is deny.          *)
(***************************************************************************)
Click(u, p) ==
    /\ gate[u] = "free"
    /\ p \in grants \/ RulingFor(p[1]) # "deny"
    /\ grants' = grants \cup {p}
    /\ gate' = [gate EXCEPT ![u] = "acting"]
    /\ want' = [want EXCEPT ![u] = p]
    /\ yes' = yes \cup {p}
    /\ UNCHANGED <<profile, custom, roots>>

\* The install, search, query or write is done.
Done(t) ==
    /\ gate[t] = "acting"
    /\ Frees(t)
    /\ UNCHANGED <<state, yes>>

Next ==
    \/ \E f \in Accepted, refused \in BOOLEAN, p \in Profiles : SetPermissions(f, refused, p)
    \/ \E a \in Agents :
          \/ \E p \in Pairs : Permit(a, p) \/ Refuse(a, p)
          \/ SayYes(a) \/ Decline(a) \/ Resume(a)
          \/ \E s \in Subjects : GuardPasses(a, s)
          \/ GuardBlocks(a)
    \/ \E u \in Clients, p \in Pairs : Click(u, p)
    \/ \E t \in Tasks : Done(t)

Spec == Init /\ [][Next]_vars

(***************************************************************************)
(* Properties.                                                             *)
(***************************************************************************)

\* Type invariant of the permission state and of the tasks.
TypeOK ==
    /\ profile \in Profiles
    /\ custom \in [Categories -> Rulings \cup {"unset"}]
    /\ grants \subseteq Pairs
    /\ roots \subseteq {DirOf[s] : s \in Subjects}
    /\ gate \in [Tasks -> {"free", "asking", "heard", "rescan", "acting"}]
    /\ want \in [Tasks -> Pairs \cup {NoWant}]
    /\ \A t \in Tasks : want[t] = NoWant <=> gate[t] = "free"
    /\ yes \subseteq Pairs

\* A task starts to act.
Starts(t) == gate[t] # "acting" /\ gate'[t] = "acting"

\* The user's own settings allow category c outright.
Allowed(c) ==
    \/ profile = "auto-approve"
    \/ /\ profile = "custom"
       /\ \/ custom[c] = "allow"
          \/ custom[c] = "unset" /\ DefaultRuling[c] = "allow"

\* "No blanket profile may cover it": whatever profile is set, however it was
\* reached and whatever was granted for other subjects, an always_ask action
\* is done only for a subject the user said yes to, and said so since
\* auto-approve was last left.
AlwaysAskIsAsked ==
    [][\A t \in Tasks : Starts(t) /\ want'[t][1] \in AlwaysAsk => want'[t] \in yes']_vars

\* Every other action has a yes or an allow behind it, and so does every
\* directory the guard is widened by, although profile, rulings and grants
\* may all change between the question and the step it was about.
NothingUnasked ==
    [][/\ \A t \in Tasks :
             Starts(t) /\ want'[t][1] # PathCategory
             => want'[t] \in yes' \/ Allowed(want'[t][1])
       /\ \A d \in roots' \ roots :
             \E s \in Subjects :
                /\ DirOf[s] = d
                /\ <<PathCategory, s>> \in yes' \/ Allowed(PathCategory)]_vars

\* Leaving auto-approve forgets: a grant in force is one the user gave since.
\* Answers already given to a question still being resumed count as since.
GrantsAreTheUsers ==
    /\ grants \subseteq yes
    /\ \A a \in Agents : gate[a] = "heard" => want[a] \in yes
=============================================================================

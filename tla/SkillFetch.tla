------------------------------ MODULE SkillFetch ------------------------------
(***************************************************************************)
(* How skills come out of a GitHub repository or a gist, request by        *)
(* request: an address is parsed, its ref becomes a commit, directories    *)
(* are listed and texts read at that commit, and what was found is staged. *)
(* An update follows the recorded ref the same way. People push meanwhile, *)
(* any request may fail. How the files are written one after the other is  *)
(* in Skills.                                                              *)
(*                                                                         *)
(* A skill is named by its directory, a text by the commit it was read at; *)
(* of the installed skills the last one is followed. A ref that is a SHA   *)
(* resolves to itself and is left out.                                     *)
(***************************************************************************)
EXTENDS Naturals, Sequences

CONSTANTS
    Places,         \* directories of the repository that may hold a skill
    Root, Nested,   \* its root, and the directory called skills
    Above,          \* the directory each is in
    Hidden,         \* those whose names begin with a dot
    Odd,            \* those whose names _check_path refuses
    Branches,
    Slashed,        \* branches with a slash in their names
    Trees,          \* what a commit may hold: [Places -> Kinds]
    MaxPushed       \* bound: commits ever pushed

ASSUME FetchAssumption ==
    /\ {Root, Nested} \subseteq Places /\ Branches \cap {"default", "nowhere"} = {}
    \* Only what is in a directory that is there is there.
    /\ \A tree \in Trees, p \in Places \ {Root} : tree[p] # "absent" => tree[Above[p]] # "absent"

VARIABLES
    gist,       \* whether the source is a gist
    default,    \* its default branch
    commits,    \* a sequence of [on: a branch, tree]
    fetch,      \* the request being served, or the last one
    copies,     \* the pending directories
    followed    \* the skill installed last, with its record

fetchVars == <<gist, default, commits, fetch, copies, followed>>

Kinds == {"absent", "plain", "skill", "payload", "large", "crowded", "broken"}
NoRef == "default"      \* no ref was given
Nowhere == "nowhere"    \* a ref that names nothing
Refs == Branches \cup {NoRef, Nowhere}
Pins == 0 .. MaxPushed

(* SkillSource, and a copy with its InstallRecord: the source, the commit   *)
(* it is pinned to, and the commit its text is of.                          *)
Source == [ref : Refs, path : Places]
Copy == [source : Source, sha : Pins, text : Pins]
NoSource == [ref |-> Nowhere, path |-> Root]
NoCopy == [source |-> NoSource, sha |-> 0, text |-> 0]

Endings == {"done", "failed", "unstated"}
NoFetch == [op |-> "preview", at |-> "failed", source |-> NoSource, branch |-> Nowhere,
            sha |-> 0, here |-> Root, todo |-> {}, found |-> {}, again |-> FALSE]

FetchTypeOK ==
    /\ gist \in BOOLEAN
    /\ default \in Branches
    /\ commits \in Seq([on : Branches, tree : Trees]) /\ Len(commits) <= MaxPushed
    /\ fetch \in [op : {"preview", "check", "apply"},
                  at : {"default", "resolve", "list", "nested", "children", "read", "stage",
                        "write"} \cup Endings,
                  source : Source, branch : Refs, sha : Pins, here : Places,
                  todo : SUBSET Places, found : SUBSET Places, again : BOOLEAN]
    /\ copies \in [Places -> Copy] /\ followed \in Copy

FetchInit ==
    /\ gist \in BOOLEAN
    /\ default \in Branches
    /\ \E tree \in Trees : commits = <<[on |-> default, tree |-> tree]>>
    /\ fetch = NoFetch
    /\ copies = [p \in Places |-> NoCopy]
    /\ followed = NoCopy

-----------------------------------------------------------------------------
(* What the addresses people paste are read as: nothing when refused.       *)
Usable(path) == path \notin Odd
Reads(ref, path) == {[ref |-> ref, path |-> p] : p \in {path} \ Odd}

(* A slash in a branch's name is where the name ends in a tree or blob URL, *)
(* and what remains names nothing; the shorthand keeps it.                  *)
ParsesUrl(branch, path) ==
    IF branch \in Slashed THEN Reads(Nowhere, Root) ELSE Reads(branch, path)

Sources ==
    Reads(NoRef, Root)
      \cup IF gist THEN {}
           ELSE UNION {Reads(branch, Root) \cup ParsesUrl(branch, path) :
                         branch \in Branches, path \in Places}

-----------------------------------------------------------------------------
(* What the server answers. The contents of a repository are asked for with *)
(* the commit as a parameter, a gist's with the revision in the path.       *)
Served(sha) == sha
HeadsOf(branch) ==
    LET on == {c \in DOMAIN commits : commits[c].on = branch} IN
    {c \in on : \A other \in on : other <= c}

KindAt(p) == commits[Served(fetch.sha)].tree[p]
ShipsPrograms(p) == KindAt(p) = "payload"
Parses(p) == KindAt(p) # "broken"
HoldsSkill(kind) == kind \in {"skill", "payload", "large", "broken"}
Subdirs(p) ==
    IF gist THEN {} ELSE {q \in Places : q # Root /\ Above[q] = p /\ KindAt(q) # "absent"}
VisibleIn(p) == Subdirs(p) \ Hidden
IsListed(p) == KindAt(p) # "absent" /\ (KindAt(p) = "crowded" => gist)

BeginsFetch(op, source) ==
    /\ fetch.at \in Endings
    /\ fetch' = [op |-> op, source |-> source, branch |-> source.ref,
                 sha |-> IF op = "preview" THEN 0 ELSE followed.sha,
                 at |-> IF source.ref = NoRef /\ ~gist THEN "default" ELSE "resolve",
                 here |-> source.path, todo |-> {}, found |-> {}, again |-> FALSE]
    /\ UNCHANGED <<gist, default, commits, copies, followed>>

PreviewsSource == \E source \in Sources : BeginsFetch("preview", source)

(* An update goes back to the ref recorded, not to one chosen now.          *)
FollowsRef ==
    /\ followed # NoCopy
    /\ \E op \in {"check", "apply"} : BeginsFetch(op, followed.source)

Proceeds(next) ==
    /\ fetch' = next
    /\ UNCHANGED <<gist, default, commits, copies, followed>>

GetsDefault ==
    /\ fetch.at = "default"
    /\ Proceeds([fetch EXCEPT !.branch = default, !.at = "resolve"])

(* Until it is resolved the commit is the one the update would replace.     *)
(* A gist reports its latest revision whatever was asked for.               *)
ResolvedTo == IF gist THEN {Len(commits)} ELSE HeadsOf(fetch.branch)

ResolvesRef ==
    /\ fetch.at = "resolve"
    /\ \E sha \in ResolvedTo :
         Proceeds(IF sha = fetch.sha THEN NoFetch ELSE [fetch EXCEPT !.sha = sha, !.at = "list"])

(* Only a preview looks further than the directory the source names.        *)
ListsTop ==
    /\ fetch.at = "list" /\ IsListed(fetch.source.path)
    /\ LET top == fetch.source.path IN
       \/ /\ HoldsSkill(KindAt(top)) /\ ~ShipsPrograms(top)
          /\ Proceeds([fetch EXCEPT !.at = "read", !.here = top])
       \/ /\ ~HoldsSkill(KindAt(top)) /\ fetch.op = "preview"
          /\ Proceeds([fetch EXCEPT !.at = IF Nested \in Subdirs(top) THEN "nested" ELSE "children",
                                    !.todo = VisibleIn(top)])

ListsNested ==
    /\ fetch.at = "nested" /\ IsListed(Nested)
    /\ Proceeds([fetch EXCEPT !.at = "children", !.todo = @ \cup VisibleIn(Nested)])

(* In the order of the listing, whatever that is.                           *)
ListsChild(p) ==
    /\ fetch.at = "children" /\ p \in fetch.todo /\ Usable(p) /\ IsListed(p)
    /\ \/ /\ ~HoldsSkill(KindAt(p))
          /\ Proceeds([fetch EXCEPT !.todo = @ \ {p}])
       \/ /\ HoldsSkill(KindAt(p)) /\ ~ShipsPrograms(p)
          /\ Proceeds([fetch EXCEPT !.at = "read", !.here = p])

(* with_path raises what neither preview nor its route catches.             *)
MeetsOddName(p) ==
    /\ fetch.at = "children" /\ p \in fetch.todo /\ ~Usable(p)
    /\ Proceeds([NoFetch EXCEPT !.at = "unstated"])

(* apply_update fetches twice, the second time from what is recorded then.  *)
ReadsText ==
    /\ fetch.at = "read" /\ KindAt(fetch.here) # "large"
    /\ \/ /\ fetch.op = "preview"
          /\ Proceeds([fetch EXCEPT !.found = @ \cup {fetch.here}, !.todo = @ \ {fetch.here},
                                    !.at = "children"])
       \/ fetch.op = "check" /\ Proceeds(NoFetch)
       \/ /\ fetch.op = "apply" /\ ~fetch.again /\ followed # NoCopy
          /\ Proceeds([fetch EXCEPT !.at = "list", !.again = TRUE, !.source = followed.source])
       \/ fetch.op = "apply" /\ fetch.again /\ Proceeds([fetch EXCEPT !.at = "write"])

FoundAll ==
    /\ fetch.at = "children" /\ fetch.todo = {} /\ fetch.found # {}
    /\ Proceeds([fetch EXCEPT !.at = "stage", !.todo = fetch.found])

Fetched(source) == [source |-> source, sha |-> fetch.sha, text |-> Served(fetch.sha)]

(* The id of a staged copy names the source without its ref: another commit *)
(* of the same directory replaces it.                                       *)
StagesFound(p) ==
    /\ fetch.at = "stage" /\ p \in fetch.todo /\ Parses(p)
    /\ copies' = [copies EXCEPT ![p] = Fetched([fetch.source EXCEPT !.path = p])]
    /\ fetch' = [fetch EXCEPT !.todo = @ \ {p}, !.at = IF fetch.todo = {p} THEN "done" ELSE "stage"]
    /\ UNCHANGED <<gist, default, commits, followed>>

(* Nobody parses the text an update brings.                                 *)
WritesUpdate ==
    /\ fetch.at = "write"
    /\ followed' = Fetched(fetch.source)
    /\ fetch' = NoFetch
    /\ UNCHANGED <<gist, default, commits, copies>>

(* Refusals, timeouts, spent limits, and everything above that has no step. *)
RequestFails ==
    /\ fetch.at \notin Endings
    /\ Proceeds(NoFetch)

-----------------------------------------------------------------------------
ApprovesStaged(p) ==
    /\ copies[p] # NoCopy
    /\ followed' = copies[p]
    /\ copies' = [copies EXCEPT ![p] = NoCopy]
    /\ UNCHANGED <<gist, default, commits, fetch>>

DiscardsStaged(p) ==
    /\ copies[p] # NoCopy
    /\ copies' = [copies EXCEPT ![p] = NoCopy]
    /\ UNCHANGED <<gist, default, commits, fetch, followed>>

UninstallsFollowed ==
    /\ followed # NoCopy /\ followed' = NoCopy
    /\ UNCHANGED <<gist, default, commits, fetch, copies>>

Pushes ==
    /\ Len(commits) < MaxPushed
    /\ \E branch \in Branches, tree \in Trees :
        /\ gist => branch = default
        /\ commits' = Append(commits, [on |-> branch, tree |-> tree])
    /\ UNCHANGED <<gist, default, fetch, copies, followed>>

ChangesDefault ==
    /\ ~gist
    /\ \E branch \in Branches \ {default} : HeadsOf(branch) # {} /\ default' = branch
    /\ UNCHANGED <<gist, commits, fetch, copies, followed>>

FetchNext ==
    \/ PreviewsSource \/ FollowsRef \/ GetsDefault \/ ResolvesRef \/ ListsTop \/ ListsNested
    \/ ReadsText \/ FoundAll \/ WritesUpdate \/ RequestFails
    \/ UninstallsFollowed \/ Pushes \/ ChangesDefault
    \/ \E p \in Places :
         \/ ListsChild(p) \/ MeetsOddName(p) \/ StagesFound(p)
         \/ ApprovesStaged(p) \/ DiscardsStaged(p)

FetchSpec == FetchInit /\ [][FetchNext]_fetchVars
-----------------------------------------------------------------------------
(* Pin, don't track: what is staged or installed is the text of the commit  *)
(* it says it is pinned to, and a staged copy's commit is one its ref named *)
(* (resolve, _gist_path, preview, apply_update).                            *)
PinsHold ==
    \A p \in Places : LET copy == copies[p] IN
        /\ copy.text = copy.sha /\ followed.text = followed.sha
        /\ copy.source.ref \in Branches => commits[copy.sha].on = copy.source.ref

(* However many pushes fall between its requests, a preview that succeeds   *)
(* has found the skills of one commit: the one at the address, or else      *)
(* those one level below it or below its skills directory (discover).       *)
SkillsIn(tree, path) ==
    IF HoldsSkill(tree[path]) \/ gist THEN {path} ELSE
    {p \in Places \ (Hidden \cup {Root}) :
        /\ HoldsSkill(tree[p])
        /\ Above[p] = path \/ (Above[p] = Nested /\ Nested # Root /\ Above[Nested] = path)}

PreviewsAreOfOneCommit ==
    fetch.op = "preview" /\ fetch.at = "done" =>
        fetch.found = SkillsIn(commits[fetch.sha].tree, fetch.source.path)

(* No text is requested from a directory that ships programs beside it, not *)
(* even by an update of a skill that shipped none before (_guard_listing).  *)
NothingIsReadBesidePrograms ==
    fetch.at = "read" => commits[fetch.sha].tree[fetch.here] # "payload"

(* Everything degrades into a stated failure (fetch.py).                    *)
FailuresAreStated == fetch.at # "unstated"

(* The ref recorded with an installed skill is the one its commit is of.    *)
InstalledFollowsItsRef ==
    followed.source.ref \in Branches => commits[followed.sha].on = followed.source.ref

(* A fetched text passes what a local skill passes (_parse_fetched).        *)
InstalledIsASkill ==
    followed # NoCopy => commits[followed.text].tree[followed.source.path] # "broken"
=============================================================================

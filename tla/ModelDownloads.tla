--------------------------- MODULE ModelDownloads ---------------------------
(***************************************************************************)
(* ModelDownloader, which installs models one at a time per provider, and  *)
(* ModelRegistry, which caches what each provider has installed. Every     *)
(* install runs on a thread of its own that writes the state object its    *)
(* row shows; polls, cancels, removals and lookups run on other threads.   *)
(*                                                                         *)
(* A download is numbered by its start: the number stands for the          *)
(* DownloadState object, its cancel event and its thread together. These   *)
(* are the rows and the list of one provider, which is fixed: providers    *)
(* share nothing but the lock.                                             *)
(***************************************************************************)
EXTENDS Naturals, FiniteSets, Functions

CONSTANTS
    Names,          \* model names
    Readers,        \* threads that look models up
    MaxConcurrent,  \* MAX_CONCURRENT_PER_PROVIDER
    MaxStarts       \* bound: downloads ever started

ASSUME DownloadsAssumption == MaxConcurrent \in Nat /\ MaxStarts \in Nat

VARIABLES
    provider,   \* "ollama" or "lmstudio"
    rows,       \* _states: the download shown for a name, 0 for none
    downloads,  \* the downloads started
    installed,  \* the names the provider really has
    cached,     \* the registry's list while it is valid: {} or {list}
    reader,     \* what each lookup is doing
    removing    \* the names whose removal the provider has done but not answered

downloadVars == <<provider, rows, downloads, installed, cached, reader, removing>>

Started == DOMAIN downloads
Terminal == {"completed", "failed", "cancelled"}
NoLookup == [at |-> "idle"]

Downloads ==
    [name : Names, status : {"queued", "downloading"} \cup Terminal,
     stamp : {"none", "fresh", "old"}, cancel : BOOLEAN,
     said : {"nothing", "success", "error", "closed"}, ends : {"none"} \cup Terminal,
     at : {"queued", "pulling", "raised", "returned", "invalidate", "stamp", "flip", "over"}]

DownloadsTypeOK ==
    /\ provider \in {"ollama", "lmstudio"}
    /\ \E n \in 0 .. MaxStarts : downloads \in [1 .. n -> Downloads]
    /\ rows \in [Names -> {0} \cup Started]
    /\ installed \subseteq Names /\ removing \subseteq Names
    /\ cached \in {{}} \cup {{list} : list \in SUBSET Names}
    /\ reader \in [Readers -> {NoLookup} \cup [at : {"looked", "fetched"}, list : SUBSET Names]]

DownloadsInit ==
    /\ provider \in {"ollama", "lmstudio"}
    /\ rows = [n \in Names |-> 0]
    /\ downloads = <<>>
    /\ installed = {} /\ removing = {}
    /\ cached = {}
    /\ reader = [r \in Readers |-> NoLookup]

IsTerminal(d) == downloads[d].status \in Terminal
Moves(d, at) == downloads' = [downloads EXCEPT ![d].at = at]
At(d, at) == d \in Started /\ downloads[d].at = at
Shown(table) == Range(table) \ {0}

-----------------------------------------------------------------------------
(* The table of downloads, under its lock. A missing finished_at counts as   *)
(* long ago.                                                                 *)
Swept ==
    [n \in Names |->
        IF rows[n] # 0 /\ IsTerminal(rows[n]) /\ downloads[rows[n]].stamp \in {"none", "old"}
        THEN 0 ELSE rows[n]]

Active(table) == {d \in Shown(table) : ~IsTerminal(d)}

Lists ==
    /\ rows' = Swept /\ rows' # rows
    /\ UNCHANGED <<provider, downloads, installed, cached, reader, removing>>

(* A live download of the name is answered as it is; another of its provider *)
(* refuses this one.                                                         *)
Starts(n) ==
    /\ Cardinality(Started) < MaxStarts
    /\ Swept[n] # 0 => IsTerminal(Swept[n])
    /\ Cardinality(Active(Swept)) < MaxConcurrent
    /\ LET d == Cardinality(Started) + 1 IN
        /\ rows' = [Swept EXCEPT ![n] = d]
        /\ downloads' = [e \in 1 .. d |-> IF e < d THEN downloads[e] ELSE
             [name |-> n, status |-> "queued", stamp |-> "none", cancel |-> FALSE,
              said |-> "nothing", ends |-> "none", at |-> "queued"]]
    /\ UNCHANGED <<provider, installed, cached, reader, removing>>

(* The event is set after the lock is left; one set for a download that is   *)
(* over in between is read by nobody.                                        *)
Cancels(n) ==
    /\ rows[n] # 0 /\ ~IsTerminal(rows[n])
    /\ downloads' = [downloads EXCEPT ![rows[n]].cancel = TRUE]
    /\ UNCHANGED <<provider, rows, installed, cached, reader, removing>>

-----------------------------------------------------------------------------
(* The thread of a download, and the provider at the other end of it.        *)
StartsPulling(d) ==
    /\ At(d, "queued")
    /\ downloads' = [downloads EXCEPT ![d].at = "pulling", ![d].status = "downloading"]
    /\ UNCHANGED <<provider, rows, installed, cached, reader, removing>>

ProviderSays(d, last) ==
    /\ At(d, "pulling") /\ downloads[d].said = "nothing"
    /\ downloads' = [downloads EXCEPT ![d].said = last]
    /\ installed' = IF last = "success" THEN installed \cup {downloads[d].name} ELSE installed
    /\ UNCHANGED <<provider, rows, cached, reader, removing>>

(* A cancel is seen when the next line comes, never while the provider is    *)
(* silent. A refusal may come before any line.                               *)
LastWord(d, cutShort) ==
    \/ downloads[d].said = "success" /\ Moves(d, "returned")
    \/ downloads[d].said = "error" /\ Moves(d, "raised")
    \/ downloads[d].said = "closed" /\ Moves(d, cutShort)

(* A stream that closes without "success" is a failure unless cancelled.     *)
PullsOllama(d) ==
    /\ At(d, "pulling") /\ provider = "ollama"
    /\ \/ downloads[d].cancel /\ downloads[d].said # "closed" /\ Moves(d, "returned")
       \/ LastWord(d, IF downloads[d].cancel THEN "returned" ELSE "raised")
    /\ UNCHANGED <<provider, rows, installed, cached, reader, removing>>

(* Here the last word is the exit code of the CLI, 0 or another.             *)
PullsLmStudio(d) ==
    /\ At(d, "pulling") /\ provider = "lmstudio"
    /\ \/ downloads[d].cancel /\ downloads[d].said = "nothing" /\ Moves(d, "returned")
       \/ LastWord(d, IF downloads[d].cancel THEN "returned" ELSE "raised")
    /\ UNCHANGED <<provider, rows, installed, cached, reader, removing>>

Decides(d) ==
    /\ \/ At(d, "raised") /\ downloads' = [downloads EXCEPT ![d].at = "stamp", ![d].ends = "failed"]
       \/ At(d, "returned") /\ downloads[d].cancel
           /\ downloads' = [downloads EXCEPT ![d].at = "stamp", ![d].ends = "cancelled"]
       \/ At(d, "returned") /\ ~downloads[d].cancel
           /\ downloads' = [downloads EXCEPT ![d].at = "invalidate", ![d].ends = "completed"]
    /\ UNCHANGED <<provider, rows, installed, cached, reader, removing>>

Invalidates(d) ==
    /\ At(d, "invalidate")
    /\ cached' = {}
    /\ Moves(d, "stamp")
    /\ UNCHANGED <<provider, rows, installed, reader, removing>>

\* Mutant of Finishes: the status before the time.
FinishesStatusFirst(d) ==
    /\ \/ At(d, "stamp") /\ downloads' = [downloads EXCEPT ![d].at = "flip", ![d].status = downloads[d].ends]
       \/ At(d, "flip") /\ downloads' = [downloads EXCEPT ![d].at = "over", ![d].stamp = "fresh"]
    /\ UNCHANGED <<provider, rows, installed, cached, reader, removing>>

(* finish: finished_at, then status.                                         *)
Finishes(d) ==
    /\ \/ At(d, "stamp") /\ downloads' = [downloads EXCEPT ![d].at = "flip", ![d].stamp = "fresh"]
       \/ At(d, "flip") /\ downloads' = [downloads EXCEPT ![d].at = "over", ![d].status = downloads[d].ends]
    /\ UNCHANGED <<provider, rows, installed, cached, reader, removing>>

(* COMPLETED_TTL_SECONDS pass for a download that is still shown.            *)
Ages(d) ==
    /\ d \in Shown(rows) /\ downloads[d].stamp = "fresh"
    /\ downloads' = [downloads EXCEPT ![d].stamp = "old"]
    /\ UNCHANGED <<provider, rows, installed, cached, reader, removing>>

-----------------------------------------------------------------------------
(* Only Ollama deletes. The answer may be lost, and then the cached list     *)
(* stays.                                                                    *)
RemovesInstalled(n) ==
    /\ provider = "ollama" /\ n \in installed /\ n \notin removing
    /\ installed' = installed \ {n}
    /\ removing' \in {removing, removing \cup {n}}
    /\ UNCHANGED <<provider, rows, downloads, cached, reader>>

RemovalInvalidates(n) ==
    /\ n \in removing
    /\ removing' = removing \ {n}
    /\ cached' = {}
    /\ UNCHANGED <<provider, rows, downloads, installed, reader>>

-----------------------------------------------------------------------------
(* list_models. A valid list is answered as it is; `force` asks anyway. What *)
(* could not be fetched is cached as an empty list.                          *)
LooksUp(r, force) ==
    /\ reader[r] = NoLookup
    /\ force \/ cached = {}
    /\ reader' = [reader EXCEPT ![r] = [at |-> "looked", list |-> {}]]
    /\ UNCHANGED <<provider, rows, downloads, installed, cached, removing>>

Fetches(r) ==
    /\ reader[r].at = "looked"
    /\ \E list \in {{}, installed} :
         reader' = [reader EXCEPT ![r].at = "fetched", ![r].list = list]
    /\ UNCHANGED <<provider, rows, downloads, installed, cached, removing>>

Stores(r) ==
    /\ reader[r].at = "fetched"
    /\ cached' = {reader[r].list}
    /\ reader' = [reader EXCEPT ![r] = NoLookup]
    /\ UNCHANGED <<provider, rows, downloads, installed, removing>>

(* CACHE_TTL_SECONDS, or FAILURE_TTL_SECONDS for an empty list, pass.        *)
Expires ==
    /\ cached # {}
    /\ cached' = {}
    /\ UNCHANGED <<provider, rows, downloads, installed, reader, removing>>

DownloadsNext ==
    \/ Lists \/ Expires
    \/ \E n \in Names : Starts(n) \/ Cancels(n) \/ RemovesInstalled(n) \/ RemovalInvalidates(n)
    \/ \E d \in Started :
         \/ StartsPulling(d) \/ PullsOllama(d) \/ PullsLmStudio(d) \/ Decides(d)
         \/ Invalidates(d) \/ Finishes(d) \/ Ages(d)
         \/ \E last \in {"success", "error", "closed"} : ProviderSays(d, last)
    \/ \E r \in Readers : Fetches(r) \/ Stores(r) \/ \E force \in BOOLEAN : LooksUp(r, force)

DownloadsSpec == DownloadsInit /\ [][DownloadsNext]_downloadVars

-----------------------------------------------------------------------------
(* No provider is ever asked for more downloads at once than it may, by the  *)
(* threads that pull and not by the rows that are shown: a cancelled         *)
(* download counts until its thread has let go (start, cancel, _run).        *)
OnePullPerProvider ==
    Cardinality({d \in Started : downloads[d].at = "pulling"}) <= MaxConcurrent

(* What is shown as completed was installed: a stream cut short, a refusal   *)
(* and a download the user cancelled are never shown so (_run,               *)
(* _pull_ollama, _pull_lmstudio).                                            *)
CompletedIsInstalled ==
    \A d \in Started : downloads[d].status = "completed" => downloads[d].said = "success"

(* The end of a download, above all the error that ended it, stays in the    *)
(* list for COMPLETED_TTL_SECONDS however the poll's sweep falls between the *)
(* thread's writes; only a new download of the same name replaces it sooner  *)
(* (finish, _sweep_locked).                                                  *)
EndsAreShown ==
    [][\A n \in Names : rows[n] # 0 /\ rows'[n] = 0 => downloads[rows[n]].stamp = "old"]_downloadVars

(* "so a poll that sees "completed" and immediately re-lists models gets the *)
(* new one rather than a cached list without it" (downloader.py:325).        *)
CompletedIsListed ==
    \A n \in installed : \A list \in cached \ {{}} :
        rows[n] # 0 /\ downloads[rows[n]].status = "completed" => n \in list
=============================================================================

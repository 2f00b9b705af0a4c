--------------------------- MODULE SessionManager ---------------------------
(***************************************************************************)
(* core/session.py: SessionManager and Session.dispose, with what a turn   *)
(* does to the things dispose takes away.                                  *)
(*                                                                         *)
(* create, drop and reap_expired run on several threads: get_session is a  *)
(* threadpool dependency, the maintenance loop reaps on a thread, sockets  *)
(* and the delete route run on the event loop.  A turn runs its cells on   *)
(* worker threads, which a cancellation does not stop.  A turn runs at     *)
(* most one cell of its own and one of a subagent, which bounds the model. *)
(***************************************************************************)
EXTENDS Naturals, FiniteSets

CONSTANTS
    Ids,       \* the session ids that may be minted
    Threads,   \* the threads that create, drop and reap
    Turns,     \* the turns that may be started
    MaxActive, \* SESSION_MAX_ACTIVE
    None

ASSUME ManagerAssumption ==
    /\ IsFiniteSet(Threads)
    /\ MaxActive \in Nat
    /\ None \notin Ids \cup Threads

\* A runtime, a workspace and a ledger row belong to a session or to the
\* composite id of its subagent.
Kinds == {"own", "child"}

VARIABLES
    live,    \* _sessions
    before,  \* <<i, j>> of those where i was last seen before j
    stale,   \* sessions not seen for SESSION_TTL_SECONDS
    minted,  \* session ids handed out so far
    lock,    \* the thread that holds _lock
    pc,      \* where each thread is
    victims, \* what it has chosen, or popped and not disposed of yet
    dying,   \* the one it is disposing of
    kids,    \* sessions with a subagent in _subagent_ids
    runtime, \* <<session, kind>> of every runtime in the pool
    rows,    \* sessions with rows in the database
    turn,    \* where each turn is
    on,      \* its session
    cell,    \* where its cells are
    overrun  \* history: sessions popped while a turn or a cell was on them

managerVars == <<live, before, stale, minted, lock, pc, victims, dying>>
heldVars == <<kids, runtime, rows>>
turnVars == <<turn, on, cell>>
sessionsVars == <<managerVars, heldVars, turnVars, overrun>>

InFlight(n) == \E k \in Kinds : cell[n][k] \in {"called", "running"}

\* A turn or a cell of session i has not finished.
InUse(i) ==
    \E n \in Turns :
        /\ on[n] = i
        /\ turn[n] \in {"resolved", "running", "parallel"} \/ InFlight(n)

SessionsInit ==
    /\ live = {} /\ before = {} /\ stale = {} /\ minted = {} /\ lock = None
    /\ pc = [t \in Threads |-> "idle"]
    /\ victims = [t \in Threads |-> {}]
    /\ dying = [t \in Threads |-> None]
    /\ kids = {} /\ runtime = {} /\ rows = {} /\ overrun = {}
    /\ turn = [n \in Turns |-> "unused"]
    /\ on = [n \in Turns |-> None]
    /\ cell = [n \in Turns |-> [k \in Kinds |-> "unused"]]

(***************************************************************************)
(* The manager.                                                            *)
(***************************************************************************)

\* create: the session is inserted, most recently seen.
Inserts(t, i) ==
    /\ pc[t] = "idle" /\ lock = None
    /\ i \notin minted
    /\ minted' = minted \cup {i}
    /\ live' = live \cup {i}
    /\ before' = before \cup (live \X {i})
    /\ pc' = [pc EXCEPT ![t] = "capping"]
    /\ UNCHANGED <<stale, lock, victims, dying, heldVars, turnVars, overrun>>

\* Mutant of Overflow: one session too many is let in.
OverflowLate ==
    IF Cardinality(live) > MaxActive + 1 THEN Cardinality(live) - MaxActive - 1 ELSE 0

\* How many sessions are over the cap.
Overflow == IF Cardinality(live) > MaxActive THEN Cardinality(live) - MaxActive ELSE 0

\* sorted by last_seen, up to the overflow: those seen before all that stay.
LeastRecent(chosen) ==
    /\ chosen \subseteq live /\ Cardinality(chosen) = Overflow
    /\ \A i \in chosen, j \in live \ chosen : <<i, j>> \in before

\* _enforce_capacity: within the cap there is nothing to do.
Fits(t) ==
    /\ pc[t] = "capping" /\ lock = None
    /\ Overflow = 0
    /\ pc' = [pc EXCEPT ![t] = "idle"]
    /\ UNCHANGED <<live, before, stale, minted, lock, victims, dying, heldVars, turnVars, overrun>>

\* _enforce_capacity: the least recently seen are chosen, under the lock.
Ranks(t) ==
    /\ pc[t] = "capping" /\ lock = None
    /\ Overflow > 0
    /\ lock' = t
    /\ \E chosen \in SUBSET live :
          LeastRecent(chosen) /\ victims' = [victims EXCEPT ![t] = chosen]
    /\ pc' = [pc EXCEPT ![t] = "evicting"]
    /\ UNCHANGED <<live, before, stale, minted, dying, heldVars, turnVars, overrun>>

\* reap_expired: the expired are chosen, under the lock.
FindsExpired(t) ==
    /\ pc[t] = "idle" /\ lock = None
    /\ live \cap stale # {}
    /\ lock' = t
    /\ victims' = [victims EXCEPT ![t] = live \cap stale]
    /\ pc' = [pc EXCEPT ![t] = "reaping"]
    /\ UNCHANGED <<live, before, stale, minted, dying, heldVars, turnVars, overrun>>

\* pop, of one or several.
Forgets(gone) ==
    /\ live' = live \ gone
    /\ before' = {p \in before : p[1] \notin gone /\ p[2] \notin gone}

\* What was chosen is popped, and the lock released.
Pops(t) ==
    /\ pc[t] \in {"evicting", "reaping"}
    /\ Forgets(victims[t])
    /\ lock' = None
    /\ pc' = [pc EXCEPT ![t] = "disposing"]
    /\ overrun' = overrun \cup {i \in victims[t] : InUse(i)}
    /\ UNCHANGED <<stale, minted, victims, dying, heldVars, turnVars>>

\* Mutant of Drops: the session is looked up, not popped.
DropsKeeping(t, i) ==
    /\ pc[t] = "idle" /\ lock = None
    /\ i \in live
    /\ victims' = [victims EXCEPT ![t] = {i}]
    /\ pc' = [pc EXCEPT ![t] = "disposing"]
    /\ overrun' = IF InUse(i) THEN overrun \cup {i} ELSE overrun
    /\ UNCHANGED <<live, before, stale, minted, lock, dying, heldVars, turnVars>>

\* drop, for DELETE /api/session.
Drops(t, i) ==
    /\ pc[t] = "idle" /\ lock = None
    /\ i \in live
    /\ Forgets({i})
    /\ victims' = [victims EXCEPT ![t] = {i}]
    /\ pc' = [pc EXCEPT ![t] = "disposing"]
    /\ overrun' = IF InUse(i) THEN overrun \cup {i} ELSE overrun
    /\ UNCHANGED <<stale, minted, lock, dying, heldVars, turnVars>>

(***************************************************************************)
(* Session.dispose, for what a thread has popped, one after the other.     *)
(***************************************************************************)

\* Mutant of DisposesKids: the subagents are not looked at.
DisposesKidsNot(t, i) ==
    /\ pc[t] = "disposing" /\ i \in victims[t]
    /\ dying' = [dying EXCEPT ![t] = i]
    /\ pc' = [pc EXCEPT ![t] = "releasing"]
    /\ UNCHANGED <<live, before, stale, minted, lock, victims, heldVars, turnVars, overrun>>

\* dispose_subagent of every one registered by now.
DisposesKids(t, i) ==
    /\ pc[t] = "disposing" /\ i \in victims[t]
    /\ dying' = [dying EXCEPT ![t] = i]
    /\ pc' = [pc EXCEPT ![t] = "releasing"]
    /\ kids' = kids \ {i}
    /\ runtime' = IF i \in kids THEN runtime \ {<<i, "child">>} ELSE runtime
    /\ UNCHANGED <<live, before, stale, minted, lock, victims, rows, turnVars, overrun>>

\* release_runtime of the session's own.
ReleasesOwn(t) ==
    /\ pc[t] = "releasing"
    /\ runtime' = runtime \ {<<dying[t], "own">>}
    /\ pc' = [pc EXCEPT ![t] = "deleting"]
    /\ UNCHANGED <<live, before, stale, minted, lock, victims, dying, kids, rows, turnVars, overrun>>

\* delete_session_data; the datasets are cleared; on to the next, or done.
DeletesRows(t) ==
    /\ pc[t] = "deleting"
    /\ rows' = rows \ {dying[t]}
    /\ victims' = [victims EXCEPT ![t] = @ \ {dying[t]}]
    /\ dying' = [dying EXCEPT ![t] = None]
    /\ pc' = [pc EXCEPT ![t] = IF victims'[t] = {} THEN "idle" ELSE "disposing"]
    /\ UNCHANGED <<live, before, stale, minted, lock, kids, runtime, turnVars, overrun>>

(***************************************************************************)
(* Sessions in use.  get() takes no lock.                                  *)
(***************************************************************************)

\* get: a request or a frame finds its session, which is touched.
Touched(i) ==
    /\ i \in live
    /\ before' = {p \in before : i \notin {p[1], p[2]}} \cup ((live \ {i}) \X {i})
    /\ live' = live
    /\ stale' = stale \ {i}

Touches(i) ==
    /\ Touched(i)
    /\ UNCHANGED <<minted, lock, pc, victims, dying, heldVars, turnVars, overrun>>

\* The session seen longest ago has not been seen for SESSION_TTL_SECONDS.
Ages ==
    /\ \E i \in live \ stale :
          /\ \A j \in live : <<j, i>> \in before => j \in stale
          /\ stale' = stale \cup {i}
    /\ UNCHANGED <<live, before, minted, lock, pc, victims, dying, heldVars, turnVars, overrun>>

\* A message resolves its session ...
Resolves(n, i) ==
    /\ turn[n] = "unused"
    /\ Touched(i)
    /\ turn' = [turn EXCEPT ![n] = "resolved"]
    /\ on' = [on EXCEPT ![n] = i]
    /\ UNCHANGED <<minted, lock, pc, victims, dying, heldVars, cell, overrun>>

\* ... is appended to the history, and its turn starts.
TurnStarts(n) ==
    /\ turn[n] = "resolved"
    /\ rows' = rows \cup {on[n]}
    /\ turn' = [turn EXCEPT ![n] = "running"]
    /\ UNCHANGED <<managerVars, kids, runtime, on, cell, overrun>>

\* _act_parallel: spawn_subagent_id.
FansOut(n) ==
    /\ turn[n] = "running" /\ ~InFlight(n)
    /\ cell[n]["child"] = "unused"
    /\ kids' = kids \cup {on[n]}
    /\ turn' = [turn EXCEPT ![n] = "parallel"]
    /\ UNCHANGED <<managerVars, runtime, rows, on, cell, overrun>>

\* The branches are folded back, or SUBAGENT_TIMEOUT has cancelled them, and
\* release_subagent_runtime is called.
FoldsBack(n) ==
    /\ turn[n] = "parallel"
    /\ runtime' = runtime \ {<<on[n], "child">>}
    /\ turn' = [turn EXCEPT ![n] = "running"]
    /\ UNCHANGED <<managerVars, kids, rows, on, cell, overrun>>

\* execute is handed to a worker thread.
CallsCell(n, k) ==
    /\ turn[n] = IF k = "own" THEN "running" ELSE "parallel"
    /\ cell[n][k] = "unused"
    /\ cell' = [cell EXCEPT ![n][k] = "called"]
    /\ UNCHANGED <<managerVars, heldVars, turn, on, overrun>>

\* get_runtime: the pool serves any id it is asked for.
GetsRuntime(n, k) ==
    /\ cell[n][k] = "called"
    /\ runtime' = runtime \cup {<<on[n], k>>}
    /\ cell' = [cell EXCEPT ![n][k] = "running"]
    /\ UNCHANGED <<managerVars, kids, rows, turn, on, overrun>>

CellEnds(n, k) ==
    /\ cell[n][k] = "running"
    /\ cell' = [cell EXCEPT ![n][k] = "done"]
    /\ UNCHANGED <<managerVars, heldVars, turn, on, overrun>>

\* _finalize: the answer is appended to the history.
Finalizes(n) ==
    /\ turn[n] = "running" /\ cell[n]["own"] \notin {"called", "running"}
    /\ rows' = rows \cup {on[n]}
    /\ turn' = [turn EXCEPT ![n] = "over"]
    /\ UNCHANGED <<managerVars, kids, runtime, on, cell, overrun>>

\* The turn is cancelled, or fails: the worker threads it awaited run on, and
\* the subagents stay registered.
Cancelled(n) ==
    /\ turn[n] \in {"running", "parallel"}
    /\ turn' = [turn EXCEPT ![n] = "over"]
    /\ UNCHANGED <<managerVars, heldVars, on, cell, overrun>>

SessionsNext ==
    \/ \E t \in Threads :
          \/ \E i \in Ids : Inserts(t, i) \/ Drops(t, i) \/ DisposesKids(t, i)
          \/ Fits(t) \/ Ranks(t) \/ FindsExpired(t) \/ Pops(t)
          \/ ReleasesOwn(t) \/ DeletesRows(t)
    \/ \E i \in Ids : Touches(i)
    \/ Ages
    \/ \E n \in Turns :
          \/ \E i \in Ids : Resolves(n, i)
          \/ TurnStarts(n) \/ FansOut(n) \/ FoldsBack(n) \/ Finalizes(n) \/ Cancelled(n)
          \/ \E k \in Kinds : CallsCell(n, k) \/ GetsRuntime(n, k) \/ CellEnds(n, k)

SessionsSpec == SessionsInit /\ [][SessionsNext]_sessionsVars

(***************************************************************************)
(* Properties.                                                             *)
(***************************************************************************)

\* Type invariant of the manager, of what sessions hold and of the turns.
SessionsTypeOK ==
    /\ live \subseteq minted /\ IsFiniteSet(live) /\ before \subseteq live \X live
    /\ stale \subseteq minted /\ minted \subseteq Ids
    /\ lock \in Threads \cup {None}
    /\ pc \in [Threads -> {"idle", "capping", "evicting", "reaping", "disposing",
                           "releasing", "deleting"}]
    /\ victims \in [Threads -> SUBSET Ids]
    /\ dying \in [Threads -> Ids \cup {None}]
    /\ kids \subseteq Ids /\ runtime \subseteq Ids \X Kinds /\ rows \subseteq Ids
    /\ turn \in [Turns -> {"unused", "resolved", "running", "parallel", "over"}]
    /\ on \in [Turns -> Ids \cup {None}]
    /\ cell \in [Turns -> [Kinds -> {"unused", "called", "running", "done"}]]
    /\ overrun \subseteq Ids

\* The cap holds up to the creations that have inserted and not yet evicted,
\* however creations, reaps and drops interleave between the two.
CapHolds ==
    Cardinality(live) <= MaxActive + Cardinality({t \in Threads : pc[t] \in {"capping", "evicting"}})

\* A session is disposed of by one thread, once, and not while it is live:
\* otherwise a session just resolved would lose its runtime and its data.
DisposedOnce ==
    \A t \in Threads :
        /\ pc[t] \in {"disposing", "releasing", "deleting"} => victims[t] \cap live = {}
        /\ \A u \in Threads \ {t} : victims[t] \cap victims[u] = {}

\* dispose is complete: of a session that no turn or cell was using when it
\* was popped, nothing is left once it has been disposed of: no runtime of its
\* own, none of a subagent that a cancelled turn left behind, no rows.
NothingLeft ==
    \A i \in minted \ overrun :
        (i \notin live /\ \A t \in Threads : i \notin victims[t])
        => i \notin rows \cup kids /\ \A k \in Kinds : <<i, k>> \notin runtime

\* Nothing is under way: no thread, turn or cell.
Quiet ==
    /\ \A t \in Threads : pc[t] = "idle"
    /\ \A n \in Turns : turn[n] \in {"unused", "over"} /\ ~InFlight(n)

\* session.py:16-17: sessions are reaped and evicted "so a public deployment
\* cannot be made to spawn unbounded containers".  A turn that outlives its
\* session gets it a new runtime, which nothing releases any more.
RuntimesAreOfLiveSessions == Quiet => \A r \in runtime : r[1] \in live
=============================================================================

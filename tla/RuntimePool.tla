----------------------------- MODULE RuntimePool -----------------------------
(***************************************************************************)
(* core/tools/host_runtime.py: HostRuntimePool, with rebind_roots of       *)
(* core/tools/runtime.py.                                                  *)
(*                                                                         *)
(* The pool's callers are worker threads: a turn's cell and its consent    *)
(* for a directory (Workers), and whatever disposes of a session           *)
(* (Reapers).  The pool's lock is a plain threading.Lock; get looks at the *)
(* table once before it takes it.  A process is an element of Procs, used  *)
(* at most once.                                                           *)
(***************************************************************************)
EXTENDS Naturals, FiniteSets

CONSTANTS
    Ids,      \* the sessions
    Procs,    \* the processes that may be spawned
    Workers, Reapers,
    Dirs,     \* directories the user may consent to
    MayExit,  \* whether a child may exit by itself
    None

Threads == Workers \cup Reapers

ASSUME PoolAssumption ==
    /\ MayExit \in BOOLEAN
    /\ None \notin Procs \cup Threads \cup Ids
    /\ Workers \cap Reapers = {}

VARIABLES
    table,    \* _sessions: the process registered for each session
    lock,     \* the holder of _lock
    child,    \* the state of each process
    owner,    \* HostSession.session_id
    roots,    \* HostSession.extra_roots, fixed when the child starts
    consent,  \* session.permissions.extra_roots
    promised, \* history: the directories consented to when rebind_roots last
              \* took a runtime of the session out
    pc,       \* where each thread is
    about,    \* the session its call is about
    holds     \* the processes it is starting or stopping

vars == <<table, lock, child, owner, roots, consent, promised, pc, about, holds>>

Init ==
    /\ table = [i \in Ids |-> None]
    /\ lock = None
    /\ child = [p \in Procs |-> "unborn"]
    /\ owner = [p \in Procs |-> None]
    /\ roots = [p \in Procs |-> {}]
    /\ consent = [i \in Ids |-> {}]
    /\ promised = [i \in Ids |-> {}]
    /\ pc = [t \in Threads |-> "idle"]
    /\ about = [t \in Threads |-> None]
    /\ holds = [t \in Threads |-> {}]

\* is_running of whatever is registered for session i.
Serves(i) == table[i] # None /\ child[table[i]] = "up"

Goes(t, where) == pc' = [pc EXCEPT ![t] = where]

\* The call of thread t is over.
Returns(t) ==
    /\ Goes(t, "idle")
    /\ about' = [about EXCEPT ![t] = None]
    /\ holds' = [holds EXCEPT ![t] = {}]

(***************************************************************************)
(* get                                                                     *)
(***************************************************************************)

\* The look at the table, without the lock, when it does not settle the call:
\* the child has exited, or there is none.
GetLooks(t, i) ==
    /\ pc[t] = "idle"
    /\ ~Serves(i)
    /\ Goes(t, IF table[i] = None THEN "create" ELSE "evict")
    /\ about' = [about EXCEPT ![t] = i]
    /\ UNCHANGED <<table, lock, child, owner, roots, consent, promised, holds>>

\* "Host runtime had exited; restarting": the entry is popped, whatever it is
\* by now.
GetEvicts(t) ==
    /\ pc[t] = "evict" /\ lock = None
    /\ table' = [table EXCEPT ![about[t]] = None]
    /\ Goes(t, "create")
    /\ UNCHANGED <<lock, child, owner, roots, consent, promised, about, holds>>

\* Under the lock somebody else's runtime is found.
GetFinds(t) ==
    /\ pc[t] = "create" /\ lock = None
    /\ Serves(about[t])
    /\ Returns(t)
    /\ UNCHANGED <<table, lock, child, owner, roots, consent, promised>>

\* Mutant of GetSpawns: the second look is missing.
GetSpawnsBlind(t, p) ==
    /\ pc[t] = "create" /\ lock = None
    /\ child[p] = "unborn"
    /\ lock' = t
    /\ child' = [child EXCEPT ![p] = "starting"]
    /\ owner' = [owner EXCEPT ![p] = about[t]]
    /\ roots' = [roots EXCEPT ![p] = consent[about[t]]]
    /\ holds' = [holds EXCEPT ![t] = {p}]
    /\ Goes(t, "starting")
    /\ UNCHANGED <<table, consent, promised, about>>

\* Mutant of GetSpawns: the consented roots are left out.
GetSpawnsNarrow(t, p) ==
    /\ pc[t] = "create" /\ lock = None
    /\ ~Serves(about[t])
    /\ child[p] = "unborn"
    /\ lock' = t
    /\ child' = [child EXCEPT ![p] = "starting"]
    /\ owner' = [owner EXCEPT ![p] = about[t]]
    /\ holds' = [holds EXCEPT ![t] = {p}]
    /\ Goes(t, "starting")
    /\ UNCHANGED <<table, roots, consent, promised, about>>

\* A child is spawned with the roots consented to by now, and the lock is
\* held until it listens.
GetSpawns(t, p) ==
    /\ pc[t] = "create" /\ lock = None
    /\ ~Serves(about[t])
    /\ child[p] = "unborn"
    /\ lock' = t
    /\ child' = [child EXCEPT ![p] = "starting"]
    /\ owner' = [owner EXCEPT ![p] = about[t]]
    /\ roots' = [roots EXCEPT ![p] = consent[about[t]]]
    /\ holds' = [holds EXCEPT ![t] = {p}]
    /\ Goes(t, "starting")
    /\ UNCHANGED <<table, consent, promised, about>>

\* It listens: it is registered and the lock released.
GetRegisters(t) ==
    /\ pc[t] = "starting"
    /\ \E p \in holds[t] :
          /\ child' = [child EXCEPT ![p] = "up"]
          /\ table' = [table EXCEPT ![about[t]] = p]
    /\ lock' = None
    /\ Returns(t)
    /\ UNCHANGED <<owner, roots, consent, promised>>

\* It did not start in time: it is stopped and the call falls back to the
\* in-process interpreter.
GetFails(t) ==
    /\ pc[t] = "starting"
    /\ child' = [p \in Procs |-> IF p \in holds[t] THEN "gone" ELSE child[p]]
    /\ lock' = None
    /\ Returns(t)
    /\ UNCHANGED <<table, owner, roots, consent, promised>>

\* No process left to spawn in this instance.  Popen failing looks the same.
GetGivesUp(t) ==
    /\ pc[t] = "create" /\ lock = None
    /\ ~Serves(about[t])
    /\ \A p \in Procs : child[p] # "unborn"
    /\ Returns(t)
    /\ UNCHANGED <<table, lock, child, owner, roots, consent, promised>>

(***************************************************************************)
(* release, shutdown and rebind_roots                                      *)
(***************************************************************************)

\* release is called for session i.
Release(t, i) ==
    /\ pc[t] = "idle"
    /\ Goes(t, "release")
    /\ about' = [about EXCEPT ![t] = i]
    /\ UNCHANGED <<table, lock, child, owner, roots, consent, promised, holds>>

\* The directories the runtimes from now on must have.
Vouches(t) ==
    promised' = IF pc[t] = "rebound"
                THEN [promised EXCEPT ![about[t]] = consent[about[t]]]
                ELSE promised

\* Mutant of Pops: the entry is looked up and left in the table.
PopsKeeping(t) ==
    /\ pc[t] \in {"release", "rebound"} /\ lock = None
    /\ holds' = [holds EXCEPT ![t] = {table[about[t]]} \ {None}]
    /\ Vouches(t)
    /\ Goes(t, "stopping")
    /\ UNCHANGED <<table, lock, child, owner, roots, consent, about>>

\* The entry is popped under the lock; what was popped is stopped after it.
Pops(t) ==
    /\ pc[t] \in {"release", "rebound"} /\ lock = None
    /\ table' = [table EXCEPT ![about[t]] = None]
    /\ holds' = [holds EXCEPT ![t] = {table[about[t]]} \ {None}]
    /\ Vouches(t)
    /\ Goes(t, "stopping")
    /\ UNCHANGED <<lock, child, owner, roots, consent, about>>

\* shutdown: the same for every entry at once.
Shutdown(t) ==
    /\ pc[t] = "idle" /\ lock = None
    /\ holds' = [holds EXCEPT ![t] = {table[i] : i \in Ids} \ {None}]
    /\ table' = [i \in Ids |-> None]
    /\ Goes(t, "stopping")
    /\ UNCHANGED <<lock, child, owner, roots, consent, promised, about>>

\* Mutant of Stopped: the popped runtimes are forgotten, not stopped.
StoppedLeaking(t) ==
    /\ pc[t] = "stopping"
    /\ Returns(t)
    /\ UNCHANGED <<table, lock, child, owner, roots, consent, promised>>

\* HostSession.stop has terminated those of the popped that still ran.
Stopped(t) ==
    /\ pc[t] = "stopping"
    /\ child' = [p \in Procs |->
                   IF p \in holds[t] /\ child[p] = "up" THEN "gone" ELSE child[p]]
    /\ Returns(t)
    /\ UNCHANGED <<table, lock, owner, roots, consent, promised>>

\* The user consents to directory d: allow_root on the event loop, and then
\* the turn's thread runs rebind_roots.
Consent(t, i, d) ==
    /\ pc[t] = "idle"
    /\ d \notin consent[i]
    /\ consent' = [consent EXCEPT ![i] = @ \cup {d}]
    /\ Goes(t, "rebind")
    /\ about' = [about EXCEPT ![t] = i]
    /\ UNCHANGED <<table, lock, child, owner, roots, promised, holds>>

\* Nothing is registered, as far as a look without the lock can tell.
RebindSkips(t) ==
    /\ pc[t] = "rebind"
    /\ table[about[t]] = None
    /\ Returns(t)
    /\ UNCHANGED <<table, lock, child, owner, roots, consent, promised>>

\* Something is: it is released.
RebindReleases(t) ==
    /\ pc[t] = "rebind"
    /\ table[about[t]] # None
    /\ Goes(t, "rebound")
    /\ UNCHANGED <<table, lock, child, owner, roots, consent, promised, about, holds>>

\* A child exits by itself: out of memory, a crash, a stray signal.
Exits(p) ==
    /\ MayExit
    /\ child[p] = "up"
    /\ child' = [child EXCEPT ![p] = "exited"]
    /\ UNCHANGED <<table, lock, owner, roots, consent, promised, pc, about, holds>>

Next ==
    \/ \E t \in Workers, i \in Ids : GetLooks(t, i) \/ \E d \in Dirs : Consent(t, i, d)
    \/ \E t \in Workers, p \in Procs : GetSpawns(t, p)
    \/ \E t \in Workers :
          \/ GetEvicts(t) \/ GetFinds(t) \/ GetRegisters(t) \/ GetFails(t) \/ GetGivesUp(t)
          \/ RebindSkips(t) \/ RebindReleases(t)
    \/ \E t \in Reapers, i \in Ids : Release(t, i)
    \/ \E t \in Reapers : Shutdown(t)
    \/ \E t \in Threads : Pops(t) \/ Stopped(t)
    \/ \E p \in Procs : Exits(p)

Spec == Init /\ [][Next]_vars

(***************************************************************************)
(* Properties.                                                             *)
(***************************************************************************)

\* Type invariant of the pool and of the calls in flight.
TypeOK ==
    /\ table \in [Ids -> Procs \cup {None}]
    /\ lock \in Workers \cup {None}
    /\ child \in [Procs -> {"unborn", "starting", "up", "exited", "gone"}]
    /\ owner \in [Procs -> Ids \cup {None}]
    /\ roots \in [Procs -> SUBSET Dirs]
    /\ consent \in [Ids -> SUBSET Dirs]
    /\ promised \in [Ids -> SUBSET Dirs]
    /\ pc \in [Threads -> {"idle", "evict", "create", "starting", "release", "stopping",
                           "rebind", "rebound"}]
    /\ about \in [Threads -> Ids \cup {None}]
    /\ holds \in [Threads -> SUBSET Procs]
    /\ \A t \in Threads : lock = t <=> pc[t] = "starting"

\* Process p runs and somebody answers for it: it is registered for its
\* session, or a thread is about to register or to stop it.
Placed(p) ==
    \/ owner[p] # None /\ table[owner[p]] = p
    \/ \E t \in Threads : p \in holds[t]

\* host_runtime.py:278, "Creates and reaps one HostSession per user session":
\* no process runs that the pool has lost.  A lost one runs until the server
\* exits, with the session's data in its memory.
NoneLost == \A p \in Procs : child[p] \in {"starting", "up"} => Placed(p)

\* Some process of session i has exited by itself.
Crashed(i) == \E p \in Procs : owner[p] = i /\ child[p] = "exited"

\* A process is lost only if another one of the same session has exited by
\* itself before: however gets, releases, rebinds and shutdowns interleave,
\* the second look under the lock is enough but for the "restarting" path.
LostOnlyAfterACrash ==
    \A p \in Procs : child[p] \in {"starting", "up"} => Placed(p) \/ Crashed(owner[p])

\* A process is in one place: registered at most once, never for another
\* session than its own, and not while a thread starts or stops it.
OnePlace ==
    \A p \in Procs :
        /\ \A i \in Ids : table[i] = p => owner[p] = i /\ \A t \in Threads : p \notin holds[t]
        /\ \A t, u \in Threads : p \in holds[t] \cap holds[u] => t = u

\* The processes that serve session i in the abstract directory: those that
\* run, unless a thread is stopping them.
Serving(i) ==
    {p \in Procs :
        /\ owner[p] = i /\ child[p] \in {"starting", "up"}
        /\ \A t \in Threads : p \in holds[t] => pc[t] = "starting"}

Directory == INSTANCE RuntimeDirectory WITH
    serving <- [i \in Ids |-> Serving(i)],
    crashed <- {i \in Ids : Crashed(i)},
    spent <- {p \in Procs : child[p] # "unborn" /\ \A i \in Ids : p \notin Serving(i)}

\* The pool implements the directory: whatever its callers' threads do, a
\* session none of whose processes has crashed is served by one at a time,
\* and no process serves twice.
ImplementsDirectory == Directory!Spec

\* Once rebind_roots has taken a session's runtime out of the pool, whatever
\* serves the session can reach every directory consented to by then: a child
\* started before that with narrower roots is never registered after it.
ConsentReachesTheRuntime ==
    \A i \in Ids : Serves(i) => promised[i] \subseteq roots[table[i]]
=============================================================================

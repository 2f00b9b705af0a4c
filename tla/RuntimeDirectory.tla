-------------------------- MODULE RuntimeDirectory --------------------------
(***************************************************************************)
(* What a runtime pool promises ("creates and reaps one HostSession per    *)
(* user session"): a session is served by one process at a time, unless    *)
(* one of its processes has exited by itself, and a process serves one     *)
(* session, once.                                                          *)
(***************************************************************************)
CONSTANTS Ids, Procs

VARIABLES
    serving,  \* the processes that serve each session
    crashed,  \* the sessions one of whose processes has exited by itself
    spent     \* the processes that have served

directoryVars == <<serving, crashed, spent>>

Init ==
    /\ serving = [i \in Ids |-> {}]
    /\ crashed = {}
    /\ spent = {}

\* A process that never served begins to serve a session nothing serves.
Begin(i, p) ==
    /\ serving[i] = {} \/ i \in crashed
    /\ p \notin spent
    /\ \A j \in Ids : p \notin serving[j]
    /\ serving' = [serving EXCEPT ![i] = @ \cup {p}]
    /\ UNCHANGED <<crashed, spent>>

\* One is stopped, or shutdown stops several at once.
End(S) ==
    /\ \A p \in S : \E i \in Ids : p \in serving[i]
    /\ spent' = spent \cup S
    /\ serving' = [i \in Ids |-> serving[i] \ S]
    /\ UNCHANGED crashed

\* One exits by itself.
Crash(i, p) ==
    /\ p \in serving[i]
    /\ crashed' = crashed \cup {i}
    /\ spent' = spent \cup {p}
    /\ serving' = [serving EXCEPT ![i] = @ \ {p}]

\* One that was being stopped exits by itself before it is.
CrashLate(i) ==
    /\ crashed' = crashed \cup {i}
    /\ UNCHANGED <<serving, spent>>

Next ==
    \/ \E i \in Ids, p \in Procs : Begin(i, p) \/ Crash(i, p)
    \/ \E S \in SUBSET Procs : End(S)
    \/ \E i \in Ids : CrashLate(i)

Spec == Init /\ [][Next]_directoryVars
=============================================================================

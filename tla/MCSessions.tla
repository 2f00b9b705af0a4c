------------------------------ MODULE MCSessions ------------------------------
(***************************************************************************)
(* Sessions for TLC: the permissions of one, with the rows of CATEGORIES   *)
(* that differ in kind, and the manager that creates and disposes of them. *)
(* The two share nothing here, so a behaviour is one of either and the     *)
(* state spaces add up instead of multiplying.                             *)
(***************************************************************************)
EXTENDS PermissionGate, SessionManager, TLC

CONSTANTS path, write, p1, p2, dir

MCDefaultRuling == path :> "deny" @@ write :> "ask"

\* Both paths lie in one directory.
MCDirOf == p1 :> dir @@ p2 :> dir

VARIABLE part
MCInit == Init /\ SessionsInit /\ part \in {"gate", "manager"}
MCNext ==
    /\ UNCHANGED part
    /\ \/ part = "gate" /\ Next /\ UNCHANGED sessionsVars
       \/ part = "manager" /\ SessionsNext /\ UNCHANGED vars
MCSpec == MCInit /\ [][MCNext]_<<vars, sessionsVars, part>>

Symmetry == Permutations(Subjects) \cup Permutations(Threads)
=============================================================================

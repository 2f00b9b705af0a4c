---------------------------- MODULE MCRuntimePool ----------------------------
(***************************************************************************)
(* The pool and the start of a runtime for TLC. RuntimePool takes a start  *)
(* for one step that may fail and HostSandbox has its inside: a behaviour  *)
(* is one of them, named by `part`, and the state spaces add up.           *)
(***************************************************************************)
EXTENDS RuntimePool, HostSandbox, TLC

VARIABLE part

\* A machine is chosen only where a runtime is started on it.
MCInit ==
    /\ Init /\ HostInit /\ part \in {"pool", "start", "selftest"}
    /\ part = "pool" => /\ machine = [platform |-> "linux", modern |-> TRUE, detected |-> TRUE]
                        /\ wants = [mode |-> "off", network |-> "deny", ceilings |-> {"memory"}]

\* The runtimes of a start run out; the pool's threads never do.
MCNext ==
    /\ UNCHANGED part
    /\ \/ part = "pool" /\ Next /\ UNCHANGED hostVars
       \/ part = "start" /\ RuntimeNext /\ UNCHANGED vars
       \/ part = "selftest" /\ SelfTestNext /\ UNCHANGED vars
       \/ part # "pool" /\ UNCHANGED <<vars, hostVars>>

MCSpec == MCInit /\ [][MCNext]_<<vars, hostVars, part>>

AllPlatforms == {"linux", "darwin", "win32", "other"}
MemoryOnly == {{"memory"}}

Symmetry == Permutations(Ids) \cup Permutations(Procs) \cup Permutations(Workers)
            \cup Permutations(Runtimes)
=============================================================================

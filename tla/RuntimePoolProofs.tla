-------------------------- MODULE RuntimePoolProofs --------------------------
(***************************************************************************)
(* What the runtime pool promises for every set of sessions, processes,    *)
(* threads and directories.                                                *)
(*                                                                         *)
(* Inv says what a thread knows at each point of its call.  From it: every *)
(* process is in one place, and a runtime has the directories consented to *)
(* before a rebind.  A process can be lost only after a crash: get takes   *)
(* its "restarting" path only when the entry in the table has exited, and  *)
(* while a child is starting nothing else is registered for its session,   *)
(* or what is registered has exited (Sound).                               *)
(***************************************************************************)
EXTENDS RuntimePool, HostSandbox, TLAPS

\* What each thread's place in its call implies.
PlaceAgrees ==
    \A t \in Threads :
        /\ pc[t] \notin {"idle", "stopping"} => about[t] \in Ids
        /\ pc[t] \notin {"starting", "stopping"} => holds[t] = {}
        /\ pc[t] = "stopping" => \A p \in holds[t] : child[p] \notin {"unborn", "starting"}
        /\ pc[t] = "starting" =>
              \E p \in Procs : holds[t] = {p} /\ child[p] = "starting" /\ owner[p] = about[t]

\* A process in the table is up or has exited, and a spawned one has an owner.
TableIsBorn ==
    /\ \A i \in Ids : table[i] # None => child[table[i]] \in {"up", "exited"}
    /\ \A p \in Procs : child[p] # "unborn" => owner[p] \in Ids

Inv == TypeOK /\ PlaceAgrees /\ TableIsBorn /\ OnePlace

\* The initial states satisfy the inductive invariant.
LEMMA InitInv == Init => Inv
  BY PoolAssumption DEF Init, Inv, TypeOK, PlaceAgrees, TableIsBorn, OnePlace, Threads

\* Every step preserves it.
LEMMA NextInv == Inv /\ [Next]_vars => Inv'
<1> SUFFICES ASSUME Inv, [Next]_vars
             PROVE  Inv'
  OBVIOUS
<1> USE PoolAssumption DEF Inv, TypeOK, PlaceAgrees, TableIsBorn, OnePlace, Threads,
        Goes, Returns, Serves
<1>1. ASSUME NEW t \in Workers, NEW i \in Ids, GetLooks(t, i)
      PROVE  Inv'
  BY <1>1 DEF GetLooks
<1>2. ASSUME NEW t \in Workers, NEW i \in Ids, NEW d \in Dirs, Consent(t, i, d)
      PROVE  Inv'
  BY <1>2 DEF Consent
<1>3. ASSUME NEW t \in Workers, NEW p \in Procs, GetSpawns(t, p)
      PROVE  Inv'
  BY <1>3 DEF GetSpawns
<1>4. ASSUME NEW t \in Workers, GetEvicts(t)
      PROVE  Inv'
  BY <1>4 DEF GetEvicts
<1>5. ASSUME NEW t \in Workers, GetFinds(t) \/ GetGivesUp(t)
      PROVE  Inv'
  BY <1>5 DEF GetFinds, GetGivesUp
<1>6. ASSUME NEW t \in Workers, GetRegisters(t)
      PROVE  Inv'
  BY <1>6 DEF GetRegisters
<1>7. ASSUME NEW t \in Workers, GetFails(t)
      PROVE  Inv'
  BY <1>7 DEF GetFails
<1>8. ASSUME NEW t \in Workers, RebindSkips(t) \/ RebindReleases(t)
      PROVE  Inv'
  BY <1>8 DEF RebindSkips, RebindReleases
<1>9. ASSUME NEW t \in Reapers, NEW i \in Ids, Release(t, i)
      PROVE  Inv'
  BY <1>9 DEF Release
<1>10. ASSUME NEW t \in Reapers, Shutdown(t)
       PROVE  Inv'
  BY <1>10 DEF Shutdown
<1>11. ASSUME NEW t \in Threads, Pops(t)
       PROVE  Inv'
  BY <1>11 DEF Pops, Vouches
<1>12. ASSUME NEW t \in Threads, Stopped(t)
       PROVE  Inv'
  BY <1>12 DEF Stopped
<1>13. ASSUME NEW p \in Procs, Exits(p)
       PROVE  Inv'
  BY <1>13 DEF Exits
<1>14. CASE UNCHANGED vars
  BY <1>14 DEF vars
<1> QED
  BY <1>1, <1>2, <1>3, <1>4, <1>5, <1>6, <1>7, <1>8, <1>9, <1>10, <1>11, <1>12,
     <1>13, <1>14 DEF Next

\* Inv holds throughout every behaviour.
THEOREM Invariance == Spec => []Inv
  BY InitInv, NextInv, PTL DEF Spec

\* The pool's state stays well typed, and its lock is held exactly while a
\* child is being started.
THEOREM TypeCorrect == Spec => []TypeOK
  BY Invariance, PTL DEF Inv

\* No process is registered for a session it was not started for, registered
\* while it is being stopped, or in the hands of two threads.
THEOREM OnePlaceAlways == Spec => []OnePlace
  BY Invariance, PTL DEF Inv

(***************************************************************************)
(* Consent.                                                                *)
(***************************************************************************)

\* What a rebind vouches for has been consented to, and is in the roots of
\* every process that is registered or about to be.
Vouched ==
    /\ \A i \in Ids : promised[i] \subseteq consent[i]
    /\ \A i \in Ids : table[i] # None => promised[i] \subseteq roots[table[i]]
    /\ \A t \in Threads : pc[t] = "starting" =>
          \A p \in holds[t] : promised[about[t]] \subseteq roots[p]

\* Initially nothing is vouched for.
LEMMA InitVouched == Init => Vouched
  BY PoolAssumption DEF Init, Vouched, Threads

\* Every step preserves Vouched.
LEMMA NextVouched == Inv /\ Inv' /\ Vouched /\ [Next]_vars => Vouched'
<1> SUFFICES ASSUME Inv, Inv', Vouched, [Next]_vars
             PROVE  Vouched'
  OBVIOUS
<1> USE PoolAssumption DEF Inv, TypeOK, PlaceAgrees, TableIsBorn, OnePlace, Threads,
        Goes, Returns, Serves, Vouched
<1>1. ASSUME NEW t \in Workers, NEW i \in Ids, GetLooks(t, i)
      PROVE  Vouched'
  BY <1>1 DEF GetLooks
<1>2. ASSUME NEW t \in Workers, NEW i \in Ids, NEW d \in Dirs, Consent(t, i, d)
      PROVE  Vouched'
  BY <1>2 DEF Consent
<1>3. ASSUME NEW t \in Workers, NEW p \in Procs, GetSpawns(t, p)
      PROVE  Vouched'
  BY <1>3 DEF GetSpawns
<1>4. ASSUME NEW t \in Workers, GetEvicts(t)
      PROVE  Vouched'
  BY <1>4 DEF GetEvicts
<1>5. ASSUME NEW t \in Workers, GetFinds(t) \/ GetGivesUp(t)
      PROVE  Vouched'
  BY <1>5 DEF GetFinds, GetGivesUp
<1>6. ASSUME NEW t \in Workers, GetRegisters(t)
      PROVE  Vouched'
  BY <1>6 DEF GetRegisters
<1>7. ASSUME NEW t \in Workers, GetFails(t)
      PROVE  Vouched'
  BY <1>7 DEF GetFails
<1>8. ASSUME NEW t \in Workers, RebindSkips(t) \/ RebindReleases(t)
      PROVE  Vouched'
  BY <1>8 DEF RebindSkips, RebindReleases
<1>9. ASSUME NEW t \in Reapers, NEW i \in Ids, Release(t, i)
      PROVE  Vouched'
  BY <1>9 DEF Release
<1>10. ASSUME NEW t \in Reapers, Shutdown(t)
       PROVE  Vouched'
  BY <1>10 DEF Shutdown
<1>11. ASSUME NEW t \in Threads, Pops(t)
       PROVE  Vouched'
  BY <1>11 DEF Pops, Vouches
<1>12. ASSUME NEW t \in Threads, Stopped(t)
       PROVE  Vouched'
  BY <1>12 DEF Stopped
<1>13. ASSUME NEW p \in Procs, Exits(p)
       PROVE  Vouched'
  BY <1>13 DEF Exits
<1>14. CASE UNCHANGED vars
  BY <1>14 DEF vars
<1> QED
  BY <1>1, <1>2, <1>3, <1>4, <1>5, <1>6, <1>7, <1>8, <1>9, <1>10, <1>11, <1>12,
     <1>13, <1>14 DEF Next

\* A runtime that serves a session after a rebind has every directory that was
\* consented to when the rebind took the old one out.
THEOREM ConsentReaches == Spec => []ConsentReachesTheRuntime
<1>1. Spec => [](Inv /\ Vouched)
  BY Invariance, InitVouched, NextVouched, PTL DEF Spec
<1>2. Inv /\ Vouched => ConsentReachesTheRuntime
  BY DEF Vouched, ConsentReachesTheRuntime, Serves
<1> QED
  BY <1>1, <1>2, PTL

(***************************************************************************)
(* Lost processes.                                                         *)
(***************************************************************************)

\* A thread that is about to evict does so because of a crash, and one that is
\* starting a child found nothing registered, or something that had crashed.
Sound ==
    /\ LostOnlyAfterACrash
    /\ \A t \in Threads :
          /\ pc[t] = "evict" => Crashed(about[t])
          /\ pc[t] = "starting" => table[about[t]] = None \/ Crashed(about[t])

\* Initially nothing runs.
LEMMA InitSound == Init => Sound
  BY PoolAssumption DEF Init, Sound, LostOnlyAfterACrash, Threads

\* A crash is never forgotten: no step revives a process or changes its owner.
LEMMA CrashStays ==
  ASSUME Inv, [Next]_vars, NEW i \in Ids, Crashed(i)
  PROVE  Crashed(i)'
<1> USE PoolAssumption DEF Inv, TypeOK, PlaceAgrees, TableIsBorn, OnePlace, Threads
<1>1. PICK p \in Procs : owner[p] = i /\ child[p] = "exited"
  BY DEF Crashed
<1>2. owner'[p] = i /\ child'[p] = "exited"
  BY <1>1 DEF Next, vars, GetLooks, Consent, GetSpawns, GetEvicts, GetFinds, GetGivesUp,
       GetRegisters, GetFails, RebindSkips, RebindReleases, Release, Shutdown, Pops,
       Stopped, Exits
<1> QED
  BY <1>2 DEF Crashed

\* Every step preserves Sound.
LEMMA NextSound == Inv /\ Inv' /\ Sound /\ [Next]_vars => Sound'
<1> SUFFICES ASSUME Inv, Inv', Sound, [Next]_vars
             PROVE  Sound'
  OBVIOUS
<1>0. \A i \in Ids : Crashed(i) => Crashed(i)'
  BY CrashStays
<1> USE PoolAssumption DEF Inv, TypeOK, PlaceAgrees, TableIsBorn, OnePlace, Threads,
        Goes, Returns, Serves, Sound, LostOnlyAfterACrash, Placed
<1>1. ASSUME NEW t \in Workers, NEW i \in Ids, GetLooks(t, i)
      PROVE  Sound'
  <2>1. table[i] # None => Crashed(i)
    BY <1>1 DEF GetLooks, Crashed
  <2> QED
    BY <1>0, <1>1, <2>1 DEF GetLooks
<1>2. ASSUME NEW t \in Workers, NEW i \in Ids, NEW d \in Dirs, Consent(t, i, d)
      PROVE  Sound'
  BY <1>0, <1>2 DEF Consent
<1>3. ASSUME NEW t \in Workers, NEW p \in Procs, GetSpawns(t, p)
      PROVE  Sound'
  <2>1. table[about[t]] # None => Crashed(about[t])
    BY <1>3 DEF GetSpawns, Crashed
  <2> QED
    BY <1>0, <1>3, <2>1 DEF GetSpawns
<1>4. ASSUME NEW t \in Workers, GetEvicts(t)
      PROVE  Sound'
  BY <1>0, <1>4 DEF GetEvicts
<1>5. ASSUME NEW t \in Workers, GetFinds(t) \/ GetGivesUp(t)
      PROVE  Sound'
  BY <1>0, <1>5 DEF GetFinds, GetGivesUp
<1>6. ASSUME NEW t \in Workers, GetRegisters(t)
      PROVE  Sound'
  BY <1>0, <1>6 DEF GetRegisters
<1>7. ASSUME NEW t \in Workers, GetFails(t)
      PROVE  Sound'
  BY <1>0, <1>7 DEF GetFails
<1>8. ASSUME NEW t \in Workers, RebindSkips(t) \/ RebindReleases(t)
      PROVE  Sound'
  BY <1>0, <1>8 DEF RebindSkips, RebindReleases
<1>9. ASSUME NEW t \in Reapers, NEW i \in Ids, Release(t, i)
      PROVE  Sound'
  BY <1>0, <1>9 DEF Release
<1>10. ASSUME NEW t \in Reapers, Shutdown(t)
       PROVE  Sound'
  BY <1>0, <1>10 DEF Shutdown
<1>11. ASSUME NEW t \in Threads, Pops(t)
       PROVE  Sound'
  BY <1>0, <1>11 DEF Pops
<1>12. ASSUME NEW t \in Threads, Stopped(t)
       PROVE  Sound'
  BY <1>0, <1>12 DEF Stopped
<1>13. ASSUME NEW p \in Procs, Exits(p)
       PROVE  Sound'
  BY <1>0, <1>13 DEF Exits
<1>14. CASE UNCHANGED vars
  BY <1>0, <1>14 DEF vars
<1> QED
  BY <1>1, <1>2, <1>3, <1>4, <1>5, <1>6, <1>7, <1>8, <1>9, <1>10, <1>11, <1>12,
     <1>13, <1>14 DEF Next

\* Inv and Sound hold throughout every behaviour.
THEOREM Soundness == Spec => [](Inv /\ Sound)
  BY Invariance, InitSound, NextSound, PTL DEF Spec

\* The pool loses a process only if another one of the same session has exited
\* by itself, however many threads call it.
THEOREM LostAfterACrash == Spec => []LostOnlyAfterACrash
  BY Soundness, PTL DEF Sound

\* If no child ever exits by itself, none is lost at all.
THEOREM NoneLostSteadily ==
  ASSUME ~MayExit
  PROVE  Spec => []NoneLost
<1> DEFINE Calm == \A p \in Procs : child[p] # "exited"
<1>1. Init => Calm
  BY DEF Init
<1>2. Inv /\ Calm /\ [Next]_vars => Calm'
  BY DEF Inv, TypeOK, Next, vars, GetLooks, Consent, GetSpawns, GetEvicts, GetFinds,
     GetGivesUp, GetRegisters, GetFails, RebindSkips, RebindReleases, Release, Shutdown,
     Pops, Stopped, Exits
<1>3. Sound /\ Calm => NoneLost
  BY DEF Sound, LostOnlyAfterACrash, NoneLost, Crashed
<1>4. Spec => []Calm
  BY <1>1, <1>2, Invariance, PTL DEF Spec
<1> QED
  BY <1>3, <1>4, Soundness, PTL

(***************************************************************************)
(* The pool implements the directory.                                      *)
(***************************************************************************)

\* A session nothing crashed for, for which get found nothing that serves, is
\* served by nothing in the directory.
LEMMA NothingServes ==
  ASSUME Inv, Sound, lock = None, NEW i \in Ids, ~Serves(i), ~Crashed(i)
  PROVE  Serving(i) = {}
  BY PoolAssumption DEF Inv, TypeOK, PlaceAgrees, TableIsBorn, OnePlace, Threads, Serves, Sound,
     LostOnlyAfterACrash, Placed, Serving

\* A step that changes no process, and puts into or takes out of threads' hands
\* only what is not served, is a stuttering step of the directory.
LEMMA StutterMaps ==
  ASSUME \A i \in Ids : Serving(i)' = Serving(i) /\ Crashed(i)' = Crashed(i),
         \A p \in Procs : child[p] = "unborn" <=> child'[p] = "unborn"
  PROVE  UNCHANGED Directory!directoryVars
  BY DEF Directory!directoryVars

\* The initial states map to initial states.
LEMMA InitMaps == Init => Directory!Init
  BY PoolAssumption DEF Init, Directory!Init, Serving, Crashed, Threads

\* A spawn is the directory's Begin.
LEMMA SpawnMaps ==
  ASSUME Inv, Sound, NEW t \in Workers, NEW p \in Procs, GetSpawns(t, p)
  PROVE  Directory!Next
<1> DEFINE i == about[t]
<1>0. i \in Ids /\ t \in Threads
  BY DEF Inv, PlaceAgrees, GetSpawns, Threads
<1>1. Serving(i) = {} \/ Crashed(i)
  BY <1>0, NothingServes DEF GetSpawns
<1>2. \A j \in Ids : p \notin Serving(j)
  BY DEF GetSpawns, Serving
<1>3. \A j \in Ids : Serving(j)' = IF j = i THEN Serving(j) \cup {p} ELSE Serving(j)
  BY <1>0 DEF GetSpawns, Serving, Inv, TypeOK, PlaceAgrees, Goes, Threads
<1>4. \A j \in Ids : Crashed(j)' = Crashed(j)
  BY <1>0 DEF GetSpawns, Crashed, Inv, TypeOK
<1>5. \A q \in Procs : child'[q] # "unborn" <=> child[q] # "unborn" \/ q = p
  BY DEF GetSpawns, Inv, TypeOK
<1>6. child[p] = "unborn"
  BY DEF GetSpawns
<1>7. Directory!Begin(i, p)
  BY <1>0, <1>1, <1>2, <1>3, <1>4, <1>5, <1>6 DEF Directory!Begin
<1> QED
  BY <1>0, <1>7 DEF Directory!Next

\* A step that takes the processes of S out of service and changes nothing else
\* is the directory's End.
LEMMA EndMaps ==
  ASSUME NEW S \in SUBSET Procs,
         \A p \in S : \E i \in Ids : p \in Serving(i),
         \A i \in Ids : Serving(i)' = Serving(i) \ S /\ Crashed(i)' = Crashed(i),
         \A p \in Procs : child[p] = "unborn" <=> child'[p] = "unborn"
  PROVE  Directory!Next
<1>1. S \subseteq {p \in Procs : child[p] # "unborn"}
  BY DEF Serving
<1>2. Directory!End(S)
  BY <1>1 DEF Directory!End
<1> QED
  BY <1>2 DEF Directory!Next

\* A child that does not come up is one End.
LEMMA FailMaps ==
  ASSUME Inv, NEW t \in Workers, GetFails(t)
  PROVE  Directory!Next
<1> USE PoolAssumption DEF Inv, TypeOK, PlaceAgrees, Threads, GetFails, Goes, Returns
<1>1. PICK p \in Procs : holds[t] = {p} /\ child[p] = "starting" /\ owner[p] = about[t]
  OBVIOUS
<1>2. about[t] \in Ids /\ p \in Serving(about[t])
  BY <1>1 DEF Serving, OnePlace
<1>3. \A i \in Ids : Serving(i)' = Serving(i) \ {p}
  BY <1>1 DEF Serving
<1>4. \A i \in Ids : Crashed(i)' = Crashed(i)
  BY <1>1 DEF Crashed
<1>5. \A q \in Procs : child[q] = "unborn" <=> child'[q] = "unborn"
  BY <1>1
<1>6. {p} \in SUBSET Procs /\ \A q \in {p} : \E i \in Ids : q \in Serving(i)
  BY ONLY <1>2
<1> QED
  BY ONLY <1>3, <1>4, <1>5, <1>6, EndMaps

\* What a thread takes out of the table to stop it is one End.
LEMMA PopMaps ==
  ASSUME Inv, NEW t \in Threads, Pops(t)
  PROVE  Directory!Next
<1> DEFINE S == {p \in Procs : p \in holds'[t] /\ child[p] = "up"}
<1> USE PoolAssumption DEF Inv, TypeOK, PlaceAgrees, TableIsBorn, Threads, Pops, Goes, Vouches
<1>1. \A p \in S : \E i \in Ids : p \in Serving(i)
  BY DEF Serving, OnePlace
<1>2. \A i \in Ids : Serving(i)' = Serving(i) \ S
  BY DEF Serving
<1>3. \A i \in Ids : Crashed(i)' = Crashed(i)
  BY DEF Crashed
<1> QED
  BY <1>1, <1>2, <1>3, EndMaps

\* So is what shutdown takes out.
LEMMA ShutdownMaps ==
  ASSUME Inv, NEW t \in Reapers, Shutdown(t)
  PROVE  Directory!Next
<1> DEFINE S == {p \in Procs : p \in holds'[t] /\ child[p] = "up"}
<1> USE PoolAssumption DEF Inv, TypeOK, PlaceAgrees, TableIsBorn, Threads, Shutdown, Goes
<1>1. \A p \in S : \E i \in Ids : p \in Serving(i)
  BY DEF Serving, OnePlace
<1>2. \A i \in Ids : Serving(i)' = Serving(i) \ S
  BY DEF Serving
<1>3. \A i \in Ids : Crashed(i)' = Crashed(i)
  BY DEF Crashed
<1> QED
  BY <1>1, <1>2, <1>3, EndMaps

\* A process exits while it serves: the directory's Crash.
LEMMA CrashMaps ==
  ASSUME NEW i \in Ids, NEW p \in Serving(i),
         \A j \in Ids : Serving(j)' = IF j = i THEN Serving(j) \ {p} ELSE Serving(j),
         \A j \in Ids : Crashed(j)' <=> Crashed(j) \/ j = i,
         \A q \in Procs : child[q] = "unborn" <=> child'[q] = "unborn"
  PROVE  Directory!Next
<1>1. p \in Procs /\ child[p] # "unborn"
  BY DEF Serving
<1>2. \A j \in Ids \ {i} : p \notin Serving(j)
  BY DEF Serving
<1>3. Directory!Crash(i, p)
  BY <1>1, <1>2 DEF Directory!Crash
<1> QED
  BY ONLY <1>1, <1>3, i \in Ids DEF Directory!Next

\* A process exits while it is being stopped: the directory's CrashLate.
LEMMA CrashLateMaps ==
  ASSUME NEW i \in Ids,
         \A j \in Ids : Serving(j)' = Serving(j),
         \A j \in Ids : Crashed(j)' <=> Crashed(j) \/ j = i,
         \A q \in Procs : child[q] = "unborn" <=> child'[q] = "unborn"
  PROVE  Directory!Next
<1>1. Directory!CrashLate(i)
  BY DEF Directory!CrashLate
<1> QED
  BY ONLY <1>1, i \in Ids DEF Directory!Next

\* So an exit is one or the other.
LEMMA ExitMaps ==
  ASSUME Inv, NEW p \in Procs, Exits(p)
  PROVE  Directory!Next
<1> USE DEF Inv, TypeOK, TableIsBorn, Exits
<1>0. PICK i \in Ids : owner[p] = i
  OBVIOUS
<1>1. \A j \in Ids : Serving(j)' = IF j = i THEN Serving(j) \ {p} ELSE Serving(j)
  BY <1>0 DEF Serving
<1>2. \A j \in Ids : Crashed(j)' <=> Crashed(j) \/ j = i
  BY <1>0 DEF Crashed
<1>3. \A q \in Procs : child[q] = "unborn" <=> child'[q] = "unborn"
  OBVIOUS
<1>4. CASE p \in Serving(i)
  BY ONLY <1>1, <1>2, <1>3, <1>4, i \in Ids, CrashMaps
<1>5. CASE p \notin Serving(i)
  <2>1. \A j \in Ids : Serving(j)' = Serving(j)
    BY ONLY <1>1, <1>5, i \in Ids
  <2> QED
    BY ONLY <1>2, <1>3, <2>1, i \in Ids, CrashLateMaps
<1> QED
  BY <1>4, <1>5

\* The steps that leave every process as it is.
LEMMA QuietMaps ==
  ASSUME Inv,
         \/ \E t \in Workers, i \in Ids : GetLooks(t, i) \/ \E d \in Dirs : Consent(t, i, d)
         \/ \E t \in Workers :
               GetEvicts(t) \/ GetFinds(t) \/ GetGivesUp(t) \/ RebindSkips(t) \/ RebindReleases(t)
         \/ \E t \in Reapers, i \in Ids : Release(t, i)
         \/ UNCHANGED vars
  PROVE  UNCHANGED Directory!directoryVars
<1> USE PoolAssumption DEF Inv, TypeOK, PlaceAgrees, Threads, Goes, Returns
<1>1. UNCHANGED <<child, owner>>
  BY DEF GetLooks, Consent, GetEvicts, GetFinds, GetGivesUp, RebindSkips, RebindReleases,
     Release, vars
<1>2. \A t \in Threads, p \in Procs :
          /\ p \in holds'[t] <=> p \in holds[t]
          /\ p \in holds[t] => (pc'[t] = "starting" <=> pc[t] = "starting")
  BY DEF GetLooks, Consent, GetEvicts, GetFinds, GetGivesUp, RebindSkips, RebindReleases,
     Release, vars
<1>3. \A i \in Ids : Serving(i)' = Serving(i) /\ Crashed(i)' = Crashed(i)
  BY <1>1, <1>2 DEF Serving, Crashed
<1> QED
  BY <1>1, <1>3, StutterMaps

\* A child that comes up goes on serving, and one that has been stopped had
\* stopped serving before.
LEMMA SettledMaps ==
  ASSUME Inv, NEW t \in Threads, GetRegisters(t) \/ Stopped(t)
  PROVE  UNCHANGED Directory!directoryVars
<1> USE PoolAssumption DEF Inv, TypeOK, PlaceAgrees, OnePlace, Threads, Goes, Returns
<1>1. \A i \in Ids : Serving(i)' = Serving(i)
  BY DEF Serving, GetRegisters, Stopped
<1>2. \A i \in Ids : Crashed(i)' = Crashed(i)
  BY DEF Crashed, GetRegisters, Stopped
<1>3. \A p \in Procs : child[p] = "unborn" <=> child'[p] = "unborn"
  BY DEF GetRegisters, Stopped
<1> QED
  BY <1>1, <1>2, <1>3, StutterMaps

\* Every step maps to a step of the directory or to a stutter.
LEMMA StepMaps ==
  Inv /\ Sound /\ [Next]_vars => [Directory!Next]_(Directory!directoryVars)
  BY SpawnMaps, FailMaps, PopMaps, ShutdownMaps, ExitMaps, QuietMaps, SettledMaps
  DEF Next, Threads

\* The pool implements the directory for every set of sessions, processes and
\* threads: one process at a time serves a session that has had no crash.
THEOREM PoolImplementsDirectory == Spec => ImplementsDirectory
  BY InitMaps, StepMaps, Soundness, PTL DEF Spec, ImplementsDirectory, Directory!Spec

-----------------------------------------------------------------------------
(***************************************************************************)
(* The start of one runtime, on every platform and with any settings.      *)
(* HostInv says, for each place in a start, what the plan has settled      *)
(* (PlanAgrees) and how far the child has come in restricting itself       *)
(* (ChildAgrees): the parent's half of a containment is in force or        *)
(* refused before the child begins, the child's half before it serves.     *)
(* A step writes one runtime's record; it takes a child further (Onward),  *)
(* ends it (Ending) or begins a start (Beginning).                         *)
(***************************************************************************)
\* A child that runs, and a start that has one.
Alive == {"booting", "restricted", "listening", "serving"}
Started == {"spawned", "waiting", "ready", "releasing"}

\* What the plan settled, and what the parent still owes.
PlanAgrees(r) ==
    /\ rt[r].at \in {"new", "begun"} => rt[r].job = "none"
    /\ rt[r].at \in {"new", "begun", "planned"} =>
          rt[r].child = "none" /\ rt[r].inForce = {} /\ rt[r].report = {}
    /\ rt[r].at \in {"planned"} \cup Started =>
          /\ Required => rt[r].plan # "none"
          /\ rt[r].plan = "wrapped" => On("darwin")
          /\ rt[r].plan = "job+low" => On("win32") /\ Dir(r) \in labelled
          /\ Enabled /\ On("darwin") => \/ rt[r].plan = "wrapped"
                                        \/ /\ rt[r].plan = "none"
                                           /\ {"filesystem"} \cup Denied \subseteq rt[r].refused
          /\ Enabled /\ On("win32") /\ Supported # {} =>
                rt[r].plan = "job+low" \/ "filesystem" \in rt[r].refused
    /\ r \in Runtimes /\ rt[r].at \in {"waiting", "ready", "releasing"} /\ On("win32") =>
          wants.ceilings \subseteq rt[r].inForce \cup rt[r].refused

\* How far a child has come in restricting itself.
ChildAgrees(r) ==
    /\ rt[r].child \in Alive =>
          /\ rt[r].at \in Started
          /\ rt[r].plan = "wrapped" => machine.modern /\ Wraps(r) \subseteq rt[r].inForce
    /\ Enabled /\ rt[r].child \in {"restricted", "listening", "serving"} =>
          Tries(r) \subseteq rt[r].inForce \cup rt[r].refused
    /\ Enabled /\ On("linux") /\ rt[r].child = "serving" =>
          Denied \subseteq rt[r].inForce \cup rt[r].refused

Earned(r) == rt[r].report \subseteq rt[r].inForce \/ (On("darwin") /\ rt[r].plan = "none")

StartAgrees(r) ==
    /\ PlanAgrees(r) /\ ChildAgrees(r) /\ Earned(r)
    /\ Lowered(r) => Dir(r) \in labelled
    /\ r \in Runtimes /\ rt[r].job = "open" => rt[r].at \notin {"new", "stopped"}

HostInv ==
    /\ HostTypeOK
    /\ \A r \in Everyone : StartAgrees(r)
    /\ pooled # NoRuntime => rt[pooled].at = "ready"
    /\ verdict = "red" => rt[Probe].at = "stopped"
    /\ RedIsAGap

\* The settings and the machine do not change under a start.
LEMMA ConstantDefs ==
    ASSUME Constant
    PROVE  /\ Enabled' = Enabled /\ Required' = Required /\ Denied' = Denied
           /\ Supported' = Supported /\ Presumes' = Presumes /\ MayNotPrepare' = MayNotPrepare
           /\ \A p : On(p)' = On(p)
  BY DEF Constant, Enabled, Required, Denied, Supported, Presumes, MayNotPrepare, On

\* A runtime a step leaves alone.
LEMMA KeepsStart ==
    ASSUME Constant, NEW r \in Everyone, rt'[r] = rt[r], labelled \subseteq labelled',
           StartAgrees(r)
    PROVE  StartAgrees(r)'
<1>1. Tries(r)' = Tries(r) /\ Wraps(r)' = Wraps(r)
  BY DEF Constant, Tries, Wraps, ToldToLower, On, Denied
<1>2. PlanAgrees(r)' /\ ChildAgrees(r)'
  BY <1>1, ConstantDefs DEF StartAgrees, PlanAgrees, ChildAgrees, Constant, Dir
<1>3. (Lowered(r) => Dir(r) \in labelled)'
  BY ConstantDefs DEF StartAgrees, Lowered, Dir
<1> QED
  BY <1>2, <1>3, ConstantDefs DEF StartAgrees, Earned

\* A step of one runtime writes its record.
LEMMA SetsOne ==
    ASSUME HostTypeOK, NEW r \in Everyone, NEW n \in Starts, Sets(r, n)
    PROVE  /\ rt' \in [Everyone -> Starts] /\ rt'[r] = n
           /\ \A q \in Everyone \ {r} : rt'[q] = rt[q]
  BY DEF HostTypeOK, Sets

\* The initial states satisfy the inductive invariant.
LEMMA HostInitInv == HostInit => HostInv
<1> SUFFICES ASSUME HostInit PROVE HostInv
  OBVIOUS
<1>1. Unstarted \in Starts
  BY DEF Unstarted, Starts
<1>2. HostTypeOK
  BY <1>1, HostSandboxAssumption DEF HostInit, HostTypeOK, Everyone
<1>3. ASSUME NEW r \in Everyone PROVE StartAgrees(r)
  BY <1>3 DEF HostInit, Unstarted, Everyone, StartAgrees, PlanAgrees, ChildAgrees, Earned,
              Lowered, Alive, Started
<1> QED
  BY <1>2, <1>3 DEF HostInv, HostInit, RedIsAGap

\* A plan is what the policy and the platform allow.
LEMMA PlansAgree ==
    ASSUME HostInv, NEW r \in Everyone, Plans(r)
    PROVE  StartAgrees(r)' /\ rt' \in [Everyone -> Starts]
           /\ \A q \in Everyone \ {r} : rt'[q] = rt[q]
<1> DEFINE s == rt[r]
<1>1. /\ HostTypeOK /\ StartAgrees(r) /\ s \in Starts /\ s.at = "begun" /\ Constant
      /\ PlansNone(r) \/ PlansNative(r) \/ PlansWrapped(r) \/ PlansJob(r) \/ Refuses(r)
  BY DEF HostInv, Plans, HostTypeOK
<1>2. /\ s.job = "none" /\ s.child = "none" /\ s.inForce = {} /\ s.report = {}
      /\ Denied \subseteq {"network"}
  BY <1>1 DEF StartAgrees, PlanAgrees, Denied
<1>3. PICK t \in Starts :
        /\ Sets(r, t)
        /\ t.child = "none" /\ t.inForce = {} /\ t.report = {}
        /\ t.at = "failed" \/
              /\ t.at = "planned"
              /\ Required => t.plan # "none"
              /\ t.plan = "wrapped" => On("darwin")
              /\ t.plan = "job+low" => On("win32") /\ Dir(r) \in labelled'
              /\ Enabled /\ On("darwin") =>
                    \/ t.plan = "wrapped" 
                    \/ t.plan = "none" /\ {"filesystem"} \cup Denied \subseteq t.refused
              /\ Enabled /\ On("win32") /\ Supported # {} =>
                    t.plan = "job+low" \/ "filesystem" \in t.refused
  <2>1. CASE PlansNone(r)
    <3> DEFINE refused == IF Enabled /\ On("darwin") THEN {"filesystem"} \cup Denied ELSE {}
               t == [s EXCEPT !.at = "planned", !.plan = "none", !.refused = refused]
    <3>1. Sets(r, t)
      BY <2>1 DEF PlansNone, Planned
    <3>2. /\ t \in Starts /\ t.child = s.child /\ t.inForce = s.inForce /\ t.report = s.report
          /\ t.at = "planned" /\ t.plan = "none" /\ t.refused = refused
      BY <1>1, <1>2 DEF Starts, Features
    <3>3. Enabled => ~Required /\ (On("win32") => Supported = {})
      BY <2>1 DEF PlansNone, MayNotPrepare, On
    <3>4. Required => Enabled
      BY DEF Required, Enabled
    <3> HIDE DEF t
    <3> QED
      BY <1>2, <3>1, <3>2, <3>3, <3>4
  <2>2. CASE PlansNative(r)
    <3> DEFINE t == [s EXCEPT !.at = "planned", !.plan = "native", !.refused = {}]
    <3>1. Sets(r, t)
      BY <2>2 DEF PlansNative, Planned
    <3>2. /\ t \in Starts /\ t.child = s.child /\ t.inForce = s.inForce /\ t.report = s.report
          /\ t.at = "planned" /\ t.plan = "native"
      BY <1>1, <1>2 DEF Starts
    <3> HIDE DEF t
    <3> QED
      BY <1>2, <2>2, <3>1, <3>2 DEF PlansNative
  <2>3. CASE PlansWrapped(r)
    <3> DEFINE t == [s EXCEPT !.at = "planned", !.plan = "wrapped", !.refused = {}]
    <3>1. Sets(r, t)
      BY <2>3 DEF PlansWrapped, Planned
    <3>2. /\ t \in Starts /\ t.child = s.child /\ t.inForce = s.inForce /\ t.report = s.report
          /\ t.at = "planned" /\ t.plan = "wrapped"
      BY <1>1, <1>2 DEF Starts
    <3>3. On("darwin") /\ ~On("win32")
      BY <2>3 DEF PlansWrapped, On
    <3> HIDE DEF t
    <3> QED
      BY <1>2, <3>1, <3>2, <3>3
  <2>4. CASE PlansJob(r)
    <3>1. PICK low \in BOOLEAN, job \in {"open", "none"} :
            /\ Sets(r, [s EXCEPT !.at = "planned", !.job = job,
                          !.plan = IF low THEN "job+low" ELSE "job",
                          !.refused = IF low THEN {} ELSE {"filesystem"}])
            /\ labelled' = IF low THEN labelled \cup {Dir(r)} ELSE labelled
      BY <2>4 DEF PlansJob
    <3> DEFINE t == [s EXCEPT !.at = "planned", !.job = job,
                       !.plan = IF low THEN "job+low" ELSE "job",
                       !.refused = IF low THEN {} ELSE {"filesystem"}]
    <3>2. /\ t \in Starts /\ t.child = s.child /\ t.inForce = s.inForce /\ t.report = s.report
          /\ t.at = "planned" /\ t.plan = IF low THEN "job+low" ELSE "job"
          /\ t.refused = IF low THEN {} ELSE {"filesystem"}
      BY <1>1, <1>2, <3>1 DEF Starts, Features
    <3>3. On("win32") /\ ~On("darwin")
      BY <2>4 DEF PlansJob, On
    <3>4. Sets(r, t)
      BY <3>1
    <3> HIDE DEF t
    <3> QED
      BY <1>2, <3>1, <3>2, <3>3, <3>4
  <2>5. CASE Refuses(r)
    <3> DEFINE t == [s EXCEPT !.at = "failed"]
    <3>1. Sets(r, t)
      BY <2>5 DEF Refuses
    <3>2. /\ t \in Starts /\ t.child = s.child /\ t.inForce = s.inForce /\ t.report = s.report
          /\ t.at = "failed"
      BY <1>1, <1>2 DEF Starts
    <3> HIDE DEF t
    <3> QED
      BY <1>2, <3>1, <3>2
  <2> QED
    BY <1>1, <2>1, <2>2, <2>3, <2>4, <2>5
<1>5. rt' \in [Everyone -> Starts] /\ rt'[r] = t /\ \A q \in Everyone \ {r} : rt'[q] = rt[q]
  BY <1>1, <1>3, SetsOne
<1>7. PlanAgrees(r)'
  BY <1>1, <1>3, <1>5, ConstantDefs DEF PlanAgrees, Started, Dir
<1>8. ChildAgrees(r)' /\ Earned(r)' /\ ~Lowered(r)'
  BY <1>3, <1>5 DEF ChildAgrees, Earned, Lowered, Alive
<1>9. (r \in Runtimes /\ rt[r].job = "open" => rt[r].at \notin {"new", "stopped"})'
  BY <1>3, <1>5
<1> QED
  BY <1>5, <1>7, <1>8, <1>9 DEF StartAgrees

\* The record t takes the child of r further, and loses nothing.
Onward(r, t) ==
    /\ rt[r].at \in {"planned"} \cup Started /\ t.at \in Started
    /\ t.plan = rt[r].plan /\ t.job = rt[r].job
    /\ rt[r].inForce \subseteq t.inForce /\ rt[r].refused \subseteq t.refused
    /\ r \in Runtimes /\ On("win32") /\ t.at # "spawned" =>
          wants.ceilings \subseteq t.inForce \cup t.refused
    /\ t.report \subseteq t.inForce \/ (On("darwin") /\ t.plan = "none")
    /\ On("win32") /\ "filesystem" \in t.inForce =>
          "filesystem" \in rt[r].inForce \/ t.plan = "job+low"
    /\ t.child \in Alive /\ t.plan = "wrapped" => machine.modern /\ Wraps(r) \subseteq t.inForce
    /\ Enabled /\ t.child \in {"restricted", "listening", "serving"} =>
          Tries(r) \subseteq t.inForce \cup t.refused
    /\ Enabled /\ On("linux") /\ t.child = "serving" => Denied \subseteq t.inForce \cup t.refused

\* The record t ends the child of r.
Ending(r, t) ==
    /\ t.child \in {"none", "dead"}
    /\ t.plan = rt[r].plan /\ rt[r].inForce \subseteq t.inForce
    /\ t.report \subseteq t.inForce \/ (On("darwin") /\ t.plan = "none")
    /\ On("win32") /\ "filesystem" \in t.inForce => "filesystem" \in rt[r].inForce
    /\ t.at \in {"failed", "stopped", "forgotten"}
       \/ (t.at = rt[r].at /\ t.at \in Started /\ t.refused = rt[r].refused)
    /\ r \in Runtimes /\ t.job = "open" => t.at # "stopped"

\* The record t is of a runtime that begins, or cannot begin, to start.
Beginning(r, t) ==
    /\ rt[r].at = "new" /\ t.at \in {"begun", "failed", "stopped"}
    /\ t.plan = rt[r].plan /\ t.job = rt[r].job /\ t.child = rt[r].child
    /\ t.inForce = rt[r].inForce /\ t.report = rt[r].report

Moving(r, t) == Onward(r, t) \/ Ending(r, t) \/ Beginning(r, t)

\* Each keeps what the invariant says of r.
LEMMA StepAgrees ==
    ASSUME HostInv, NEW r \in Everyone, Constant, UNCHANGED labelled,
           NEW t \in Starts, rt'[r] = t, Moving(r, t)
    PROVE  StartAgrees(r)'
<1>1. StartAgrees(r) /\ Dir(r)' = Dir(r) /\ labelled' = labelled
  BY DEF HostInv, Dir
<1>2. machine' = machine /\ wants' = wants
  BY DEF Constant
<1>3. CASE Onward(r, t)
  <2>1. t.plan = rt[r].plan /\ t.at \in Started
    BY <1>3 DEF Onward
  <2>2. Tries(r)' = Tries(r) /\ Wraps(r)' = Wraps(r)
    BY <1>2, <2>1, ConstantDefs DEF Tries, Wraps, ToldToLower
  <2>3. PlanAgrees(r)'
    BY <1>1, <1>2, <1>3, ConstantDefs DEF Onward, StartAgrees, PlanAgrees, Started
  <2>4. ChildAgrees(r)'
    BY <1>2, <1>3, <2>1, <2>2, ConstantDefs DEF Onward, ChildAgrees, Alive
  <2>5. Earned(r)'
    BY <1>3, ConstantDefs DEF Onward, Earned
  <2>6. (Lowered(r) => Dir(r) \in labelled)'
    BY <1>1, <1>3, ConstantDefs DEF Onward, StartAgrees, PlanAgrees, Lowered
  <2> QED
    BY <1>3, <2>1, <2>3, <2>4, <2>5, <2>6 DEF StartAgrees, Started
<1>4. CASE Ending(r, t)
  <2>1. PlanAgrees(r)'
    BY <1>1, <1>2, <1>4, ConstantDefs DEF Ending, StartAgrees, PlanAgrees, Started
  <2>2. ChildAgrees(r)'
    BY <1>4 DEF Ending, ChildAgrees, Alive
  <2>3. Earned(r)' /\ (Lowered(r) => Dir(r) \in labelled)'
    BY <1>1, <1>4, ConstantDefs DEF Ending, StartAgrees, Earned, Lowered
  <2> QED
    BY <1>4, <2>1, <2>2, <2>3 DEF Ending, StartAgrees, Started
<1>5. CASE Beginning(r, t)
  <2>1. PlanAgrees(r)'
    BY <1>1, <1>5 DEF Beginning, StartAgrees, PlanAgrees, Started
  <2>2. ChildAgrees(r)'
    BY <1>1, <1>5 DEF Beginning, StartAgrees, PlanAgrees, ChildAgrees, Alive
  <2>3. Earned(r)' /\ (Lowered(r) => Dir(r) \in labelled)'
    BY <1>1, <1>5, ConstantDefs DEF Beginning, StartAgrees, Earned, Lowered
  <2> QED
    BY <1>1, <1>5, <2>1, <2>2, <2>3 DEF Beginning, StartAgrees, PlanAgrees
<1> QED
  BY <1>3, <1>4, <1>5 DEF Moving

\* A step of one runtime keeps it for all.
LEMMA MovesAgree ==
    ASSUME HostInv, Constant, UNCHANGED labelled,
           NEW r \in Everyone, NEW t \in Starts, Sets(r, t), Moving(r, t)
    PROVE  /\ rt' \in [Everyone -> Starts] /\ rt'[r] = t
           /\ \A q \in Everyone \ {r} : rt'[q] = rt[q]
           /\ \A q \in Everyone : StartAgrees(q)'
<1>1. /\ rt' \in [Everyone -> Starts] /\ rt'[r] = t
      /\ \A q \in Everyone \ {r} : rt'[q] = rt[q]
  BY SetsOne DEF HostInv
<1>2. StartAgrees(r)'
  BY <1>1, StepAgrees
<1>3. ASSUME NEW q \in Everyone \ {r} PROVE StartAgrees(q)'
  BY <1>1, KeepsStart DEF HostInv
<1> QED
  BY <1>1, <1>2, <1>3

\* Sealing the network adds to what is in force or to what was refused.
LEMMA SealingsAgree ==
    ASSUME HostInv, NEW r \in Everyone, rt[r].child \in Alive, NEW t \in Sealings(r)
    PROVE  /\ t \in Starts
           /\ t.at = rt[r].at /\ t.plan = rt[r].plan /\ t.job = rt[r].job /\ t.child = rt[r].child
           /\ rt[r].inForce \subseteq t.inForce /\ rt[r].refused \subseteq t.refused
           /\ t.report \subseteq t.inForce \/ (On("darwin") /\ t.plan = "none")
           /\ "filesystem" \in t.inForce => "filesystem" \in rt[r].inForce
           /\ Enabled /\ On("linux") => Denied \subseteq t.inForce \cup t.refused
<1> DEFINE s == rt[r]
<1>1. s \in Starts /\ StartAgrees(r)
  BY DEF HostInv, HostTypeOK
<1>2. Earned(r) /\ (Enabled /\ On("darwin") => s.plan = "none" \/ Denied \subseteq s.inForce)
  BY <1>1 DEF StartAgrees, PlanAgrees, ChildAgrees, Wraps
<1>3. CASE ~Enabled \/ Denied = {}
  BY <1>1, <1>2, <1>3 DEF Sealings, Earned
<1>4. CASE Enabled /\ Denied # {} /\ On("linux")
  <2>1. Denied = {"network"}
    BY <1>4 DEF Denied
  <2>2. CASE t = [s EXCEPT !.inForce = @ \cup {"network"}, !.report = @ \cup {"network"}]
    <3>1. /\ t \in Starts
          /\ t.at = s.at /\ t.plan = s.plan /\ t.job = s.job /\ t.child = s.child
          /\ t.refused = s.refused
          /\ t.inForce = s.inForce \cup {"network"} /\ t.report = s.report \cup {"network"}
      BY <1>1, <2>2 DEF Starts, Features
    <3> QED
      BY <1>2, <1>4, <2>1, <3>1 DEF Earned
  <2>3. CASE t = [s EXCEPT !.refused = @ \cup {"network"}]
    <3>1. /\ t \in Starts
          /\ t.at = s.at /\ t.plan = s.plan /\ t.job = s.job /\ t.child = s.child
          /\ t.refused = s.refused \cup {"network"}
          /\ t.inForce = s.inForce /\ t.report = s.report
      BY <1>1, <2>3 DEF Starts, Features
    <3> QED
      BY <1>2, <1>4, <2>1, <3>1 DEF Earned
  <2>4. ~(~Enabled \/ Denied = {})
    BY <1>4
  <2> QED
    BY <1>4, <2>2, <2>3, <2>4 DEF Sealings, On
<1>5. CASE Enabled /\ Denied # {} /\ On("darwin")
  <2>1. t = [s EXCEPT !.report = @ \cup {"network"}] /\ Denied = {"network"} /\ ~On("linux")
    BY <1>5 DEF Sealings, Denied, On
  <2>2. /\ t \in Starts
        /\ t.at = s.at /\ t.plan = s.plan /\ t.job = s.job /\ t.child = s.child
        /\ t.refused = s.refused /\ t.inForce = s.inForce /\ t.report = s.report \cup {"network"}
    BY <1>1, <2>1 DEF Starts, Features
  <2> QED
    BY <1>2, <1>5, <2>1, <2>2 DEF Earned
<1>6. CASE Enabled /\ Denied # {} /\ ~On("linux") /\ ~On("darwin")
  BY <1>1, <1>2, <1>6 DEF Sealings, Earned
<1> QED
  BY <1>3, <1>4, <1>5, <1>6

\* The parent's steps, and the child's, take it further.
LEMMA OnwardSteps ==
    ASSUME HostInv, NEW r \in Everyone,
           \/ Spawns(r) \/ Adopts(r) \/ Ready(r) \/ Restricts(r) \/ Listens(r) \/ Seals(r)
           \/ Releases /\ r = pooled
    PROVE  \E t \in Starts : /\ Sets(r, t) /\ Onward(r, t)
                             /\ pooled' = r => t.at = "ready"
<1> DEFINE s == rt[r]
<1>1. s \in Starts /\ StartAgrees(r) /\ wants.ceilings \subseteq Features
  BY HostSandboxAssumption DEF HostInv, HostTypeOK, Features
<1>2. PlanAgrees(r) /\ ChildAgrees(r) /\ Earned(r)
  BY <1>1 DEF StartAgrees
<1>0. r # NoRuntime /\ (pooled = r => s.at = "ready")
  BY HostSandboxAssumption DEF HostInv, Everyone
<1>3. CASE Spawns(r)
  <2> DEFINE dead == s.plan = "wrapped" /\ ~machine.modern
             t == [s EXCEPT !.at = "spawned", !.inForce = Wraps(r),
                      !.child = IF dead THEN "dead" ELSE "booting"]
  <2>1. Sets(r, t) /\ s.at = "planned"
    BY <1>3 DEF Spawns
  <2>2. /\ t \in Starts /\ t.at = "spawned" /\ t.inForce = Wraps(r)
        /\ t.child = (IF dead THEN "dead" ELSE "booting")
        /\ t.plan = s.plan /\ t.job = s.job /\ t.refused = s.refused /\ t.report = s.report
    BY <1>1 DEF Starts, Wraps, Features, Denied
  <2>3. s.inForce = {} /\ s.report = {} /\ (s.plan = "wrapped" => On("darwin"))
    BY <1>2, <2>1 DEF PlanAgrees
  <2> HIDE DEF t
  <2>4. Onward(r, t)
    BY <2>1, <2>2, <2>3 DEF Onward, Started, Alive, Wraps, On
  <2> QED
    BY <1>3, <2>1, <2>2, <2>4, <1>0 DEF Spawns, Unpooled
<1>4. CASE Adopts(r)
  <2>1. PICK taken \in BOOLEAN :
          Sets(r, [s EXCEPT !.at = "waiting",
                     !.inForce = @ \cup (IF taken THEN wants.ceilings ELSE {}),
                     !.refused = @ \cup (IF On("win32") /\ ~taken THEN wants.ceilings ELSE {})])
    BY <1>4 DEF Adopts
  <2> DEFINE more == IF taken THEN wants.ceilings ELSE {}
             less == IF On("win32") /\ ~taken THEN wants.ceilings ELSE {}
             t == [s EXCEPT !.at = "waiting", !.inForce = @ \cup more, !.refused = @ \cup less]
  <2>2. Sets(r, t) /\ s.at = "spawned"
    BY <1>4, <2>1 DEF Adopts
  <2>3. /\ t \in Starts /\ t.at = "waiting" /\ t.child = s.child
        /\ t.inForce = s.inForce \cup more /\ t.refused = s.refused \cup less
        /\ t.plan = s.plan /\ t.job = s.job /\ t.report = s.report
    BY <1>1 DEF Starts
  <2>4. "filesystem" \notin wants.ceilings
    BY HostSandboxAssumption DEF HostInv, HostTypeOK
  <2> HIDE DEF t
  <2>5. Onward(r, t)
    BY <1>2, <2>2, <2>3, <2>4 DEF Onward, PlanAgrees, ChildAgrees, Earned, Started, Alive
  <2> QED
    BY <1>4, <2>2, <2>3, <2>5, <1>0 DEF Adopts, Unpooled
<1>5. CASE Ready(r)
  <2> DEFINE t == [s EXCEPT !.at = "ready"]
  <2>1. Sets(r, t) /\ s.at = "waiting"
    BY <1>5 DEF Ready
  <2>2. /\ t \in Starts /\ t.at = "ready" /\ t.child = s.child /\ t.inForce = s.inForce
        /\ t.plan = s.plan /\ t.job = s.job /\ t.refused = s.refused /\ t.report = s.report
    BY <1>1 DEF Starts
  <2> HIDE DEF t
  <2>3. Onward(r, t)
    BY <1>2, <2>1, <2>2 DEF Onward, PlanAgrees, ChildAgrees, Earned, Started, Alive
  <2> QED
    BY <2>1, <2>2, <2>3, <1>0, <1>5 DEF Ready, Unpooled
<1>6. CASE Restricts(r)
  <2>1. s.child = "booting" /\ s.at \in Started
    BY <1>2, <1>6 DEF Restricts, ChildAgrees, Alive
  <2>2. Tries(r) \subseteq Features /\ Presumes \subseteq Features
    BY <1>1, HostSandboxAssumption DEF Tries, Presumes, Features
  <2>3. CASE Enabled
    <3>1. PICK stuck \in SUBSET Tries(r) :
            Sets(r, [s EXCEPT !.child = "restricted", !.inForce = @ \cup stuck,
                       !.refused = @ \cup (Tries(r) \ stuck), !.report = stuck \cup Presumes])
      BY <1>6, <2>3 DEF Restricts
    <3> DEFINE t == [s EXCEPT !.child = "restricted", !.inForce = @ \cup stuck,
                       !.refused = @ \cup (Tries(r) \ stuck), !.report = stuck \cup Presumes]
    <3>2. Sets(r, t)
      BY <3>1
    <3>3. /\ t \in Starts /\ t.at = s.at /\ t.child = "restricted"
          /\ t.inForce = s.inForce \cup stuck /\ t.refused = s.refused \cup (Tries(r) \ stuck)
          /\ t.report = stuck \cup Presumes /\ t.plan = s.plan /\ t.job = s.job
      BY <1>1, <2>2 DEF Starts
    <3> HIDE DEF t
    <3>4. t.report \subseteq t.inForce \/ (On("darwin") /\ t.plan = "none")
      BY <1>2, <2>1, <2>3, <3>3 DEF Presumes, PlanAgrees, ChildAgrees, Wraps, Alive
    <3>5. On("win32") /\ "filesystem" \in t.inForce =>
            "filesystem" \in s.inForce \/ t.plan = "job+low"
      BY <3>3 DEF Tries, ToldToLower, On
    <3>6. Onward(r, t)
      BY <1>2, <2>1, <3>3, <3>4, <3>5 DEF Onward, PlanAgrees, ChildAgrees, Started, Alive
    <3> QED
      BY <2>1, <3>2, <3>3, <3>6, <1>0, <1>6 DEF Restricts, Unpooled
  <2>4. CASE ~Enabled
    <3> DEFINE t == [s EXCEPT !.child = "restricted"]
    <3>1. Sets(r, t)
      BY <1>6, <2>4 DEF Restricts
    <3>2. /\ t \in Starts /\ t.at = s.at /\ t.child = "restricted" /\ t.inForce = s.inForce
          /\ t.plan = s.plan /\ t.job = s.job /\ t.refused = s.refused /\ t.report = s.report
      BY <1>1 DEF Starts
    <3> HIDE DEF t
    <3>3. Onward(r, t)
      BY <1>2, <2>1, <2>4, <3>2 DEF Onward, PlanAgrees, ChildAgrees, Earned, Started, Alive
    <3> QED
      BY <2>1, <3>1, <3>2, <3>3, <1>0, <1>6 DEF Restricts, Unpooled
  <2> QED
    BY <2>3, <2>4
<1>7. CASE Listens(r)
  <2>1. PICK capped \in SUBSET ({"memory"} \cap wants.ceilings) :
          /\ Sets(r, [s EXCEPT !.child = "listening", !.inForce = @ \cup capped])
          /\ s.child = "restricted"
    BY <1>7 DEF Listens
  <2> DEFINE t == [s EXCEPT !.child = "listening", !.inForce = @ \cup capped]
  <2>2. Sets(r, t)
    BY <2>1
  <2>3. /\ t \in Starts /\ t.at = s.at /\ t.child = "listening"
        /\ t.inForce = s.inForce \cup capped
        /\ t.plan = s.plan /\ t.job = s.job /\ t.refused = s.refused /\ t.report = s.report
    BY <1>1 DEF Starts
  <2> HIDE DEF t
  <2>4. Onward(r, t)
    BY <1>2, <2>1, <2>3 DEF Onward, PlanAgrees, ChildAgrees, Earned, Started, Alive
  <2> QED
    BY <2>1, <2>2, <2>3, <2>4, <1>0, <1>7 DEF Listens, Unpooled
<1>8. CASE Seals(r)
  <2>1. PICK sealed \in Sealings(r) : Sets(r, [sealed EXCEPT !.child = "serving"])
    BY <1>8 DEF Seals
  <2>2. s.child = "listening"
    BY <1>8 DEF Seals
  <2> DEFINE t == [sealed EXCEPT !.child = "serving"]
  <2>3. Sets(r, t)
    BY <2>1
  <2>4. sealed \in Starts
    BY <2>2, SealingsAgree DEF Alive
  <2>5. /\ t \in Starts /\ t.at = sealed.at /\ t.child = "serving" /\ t.inForce = sealed.inForce
        /\ t.plan = sealed.plan /\ t.job = sealed.job /\ t.refused = sealed.refused
        /\ t.report = sealed.report
    BY <2>4 DEF Starts
  <2> HIDE DEF t
  <2>6. Onward(r, t)
    BY <1>2, <2>2, <2>5, SealingsAgree DEF Onward, PlanAgrees, ChildAgrees, Started, Alive
  <2> QED
    BY <2>2, <2>3, <2>5, <2>6, SealingsAgree, <1>0, <1>8 DEF Alive, Seals, Unpooled
<1>9. CASE Releases /\ r = pooled
  <2> DEFINE t == [s EXCEPT !.at = "releasing"]
  <2>1. Sets(r, t) /\ s.at = "ready"
    BY <1>9 DEF Releases, HostInv
  <2>2. /\ t \in Starts /\ t.at = "releasing" /\ t.child = s.child /\ t.inForce = s.inForce
        /\ t.plan = s.plan /\ t.job = s.job /\ t.refused = s.refused /\ t.report = s.report
    BY <1>1 DEF Starts
  <2> HIDE DEF t
  <2>3. Onward(r, t)
    BY <1>2, <2>1, <2>2 DEF Onward, PlanAgrees, ChildAgrees, Earned, Started, Alive
  <2> QED
    BY <1>9, <2>1, <2>2, <2>3, <1>0 DEF Releases, Unpooled
<1> QED
  BY <1>3, <1>4, <1>5, <1>6, <1>7, <1>8, <1>9

\* A runtime that fails, exits or is stopped keeps what was in force.
LEMMA EndingSteps ==
    ASSUME HostInv, NEW r \in Everyone,
           SpawnFails(r) \/ NotReady(r) \/ ChildExits(r) \/ Stops(r)
    PROVE  \E t \in Starts : /\ Sets(r, t) /\ Ending(r, t)
                             /\ pooled' = r => t.at = "ready"
                             /\ r = Probe => rt[r].at # "stopped"
<1> DEFINE s == rt[r]
<1>1. s \in Starts /\ StartAgrees(r)
  BY DEF HostInv, HostTypeOK
<1>2. PlanAgrees(r) /\ ChildAgrees(r) /\ Earned(r)
  BY <1>1 DEF StartAgrees
<1>0. r # NoRuntime /\ (pooled = r => s.at = "ready")
  BY HostSandboxAssumption DEF HostInv, Everyone
<1>3. CASE SpawnFails(r)
  <2> DEFINE t == [s EXCEPT !.at = "failed"]
  <2>1. Sets(r, t) /\ s.at = "planned"
    BY <1>3 DEF SpawnFails
  <2>2. /\ t \in Starts /\ t.at = "failed" /\ t.child = s.child /\ t.inForce = s.inForce
        /\ t.plan = s.plan /\ t.job = s.job /\ t.refused = s.refused /\ t.report = s.report
    BY <1>1 DEF Starts
  <2> HIDE DEF t
  <2> QED
    BY <1>2, <2>1, <2>2, <1>0, <1>3 DEF Ending, PlanAgrees, Earned, SpawnFails, Unpooled
<1>4. CASE NotReady(r)
  <2> DEFINE t == [s EXCEPT !.at = "failed", !.child = "dead"]
  <2>1. Sets(r, t)
    BY <1>4 DEF NotReady
  <2>2. /\ t \in Starts /\ t.at = "failed" /\ t.child = "dead" /\ t.inForce = s.inForce
        /\ t.plan = s.plan /\ t.job = s.job /\ t.refused = s.refused /\ t.report = s.report
    BY <1>1 DEF Starts
  <2> HIDE DEF t
  <2> QED
    BY <1>2, <1>4, <2>1, <2>2, <1>0 DEF NotReady, Ending, Earned, Unpooled
<1>5. CASE ChildExits(r)
  <2> DEFINE t == [s EXCEPT !.child = "dead"]
  <2>1. Sets(r, t) /\ s.child \in Alive
    BY <1>5 DEF ChildExits, Alive
  <2>2. /\ t \in Starts /\ t.at = s.at /\ t.child = "dead" /\ t.inForce = s.inForce
        /\ t.plan = s.plan /\ t.job = s.job /\ t.refused = s.refused /\ t.report = s.report
    BY <1>1 DEF Starts
  <2> HIDE DEF t
  <2> QED
    BY <1>2, <2>1, <2>2, <1>0, <1>5 DEF Ending, ChildAgrees, Earned, Started, ChildExits, Unpooled
<1>6. CASE Stops(r)
  <2> DEFINE t == [s EXCEPT !.at = "stopped", !.child = "dead", !.job = Closed(@)]
  <2>1. Sets(r, t)
    BY <1>6 DEF Stops
  <2>2. /\ t \in Starts /\ t.at = "stopped" /\ t.child = "dead" /\ t.inForce = s.inForce
        /\ t.plan = s.plan /\ t.job = Closed(s.job) /\ t.refused = s.refused
        /\ t.report = s.report
    BY <1>1 DEF Starts, Closed
  <2> HIDE DEF t
  <2> QED
    BY <1>2, <1>6, <2>1, <2>2, <1>0 DEF Stops, Ending, Earned, Closed, Unpooled
<1> QED
  BY <1>3, <1>4, <1>5, <1>6

\* The self-test begins and fails like a runtime.
LEMMA ProbeSteps ==
    ASSUME HostInv, ProbeBegins \/ ProbeFails
    PROVE  \E t \in Starts : /\ Sets(Probe, t) /\ Moving(Probe, t)
                             /\ ProbeFails => t.at = "stopped"
<1> DEFINE s == rt[Probe]
<1>1. s \in Starts /\ StartAgrees(Probe) /\ Probe \notin Runtimes
  BY HostSandboxAssumption DEF HostInv, HostTypeOK, Everyone
<1>2. PlanAgrees(Probe) /\ ChildAgrees(Probe) /\ Earned(Probe)
  BY <1>1 DEF StartAgrees
<1>3. CASE ProbeBegins
  <2>1. PICK place \in {"begun", "failed"} : Sets(Probe, [s EXCEPT !.at = place])
    BY <1>3 DEF ProbeBegins
  <2> DEFINE t == [s EXCEPT !.at = place]
  <2>2. Sets(Probe, t) /\ s.at = "new" /\ ~ProbeFails
    BY <1>3, <2>1 DEF ProbeBegins, ProbeFails
  <2>3. /\ t \in Starts /\ t.at = place /\ t.child = s.child /\ t.inForce = s.inForce
        /\ t.plan = s.plan /\ t.job = s.job /\ t.report = s.report
    BY <1>1 DEF Starts
  <2> HIDE DEF t
  <2> QED
    BY <2>2, <2>3 DEF Moving, Beginning
<1>4. CASE ProbeFails /\ Sets(Probe, [s EXCEPT !.at = "stopped", !.child = "dead",
                                        !.job = Closed(@)])
  <2> DEFINE t == [s EXCEPT !.at = "stopped", !.child = "dead", !.job = Closed(@)]
  <2>1. Sets(Probe, t)
    BY <1>4
  <2>2. /\ t \in Starts /\ t.at = "stopped" /\ t.child = "dead" /\ t.inForce = s.inForce
        /\ t.plan = s.plan /\ t.report = s.report
    BY <1>1 DEF Starts, Closed
  <2> HIDE DEF t
  <2> QED
    BY <1>1, <1>2, <2>1, <2>2 DEF Moving, Ending, Earned
<1>5. CASE ProbeFails /\ s.at = "failed" /\ Sets(Probe, [s EXCEPT !.at = "stopped"])
  <2> DEFINE t == [s EXCEPT !.at = "stopped"]
  <2>1. Sets(Probe, t)
    BY <1>5
  <2>2. /\ t \in Starts /\ t.at = "stopped" /\ t.child = s.child /\ t.inForce = s.inForce
        /\ t.plan = s.plan /\ t.report = s.report
    BY <1>1 DEF Starts
  <2>3. s.child \in {"none", "dead"}
    BY <1>1, <1>2, <1>5 DEF ChildAgrees, Alive, Started, Starts
  <2> HIDE DEF t
  <2> QED
    BY <1>1, <1>2, <2>1, <2>2, <2>3 DEF Moving, Ending, Earned
<1> QED
  BY <1>3, <1>4, <1>5 DEF ProbeFails

\* get forgets the entry it finds dead.
LEMMA GetsSteps ==
    ASSUME HostInv, NEW r \in Runtimes, NEW place \in {"begun", "stopped"}, GetsTo(r, place)
    PROVE  /\ rt' \in [Everyone -> Starts] /\ rt'[Probe] = rt[Probe]
           /\ \A q \in Everyone : StartAgrees(q)'
<1> DEFINE t == [rt[r] EXCEPT !.at = place]
<1>1. /\ HostTypeOK /\ rt[r] \in Starts /\ rt[r].at = "new" /\ r \in Everyone
      /\ Probe \in Everyone /\ Probe # r /\ Constant /\ labelled' = labelled
  BY HostSandboxAssumption DEF HostInv, HostTypeOK, Everyone, GetsTo
<1>2. /\ t \in Starts /\ t.at = place /\ t.child = rt[r].child /\ t.inForce = rt[r].inForce
      /\ t.plan = rt[r].plan /\ t.job = rt[r].job /\ t.report = rt[r].report
  BY <1>1 DEF Starts
<1>3. Moving(r, t)
  BY <1>1, <1>2 DEF Moving, Beginning
<1>4. CASE pooled = NoRuntime /\ Sets(r, t)
  <2> HIDE DEF t
  <2> QED
    BY <1>1, <1>2, <1>3, <1>4, MovesAgree
<1>5. CASE pooled # NoRuntime
  <2>0. PICK p \in Runtimes : p = pooled
    BY <1>1, <1>5 DEF HostTypeOK
  <2> DEFINE u == [rt[p] EXCEPT !.at = "forgotten"]
  <2>1. /\ p \in Everyone /\ p # Probe /\ p # r
        /\ rt[p].child = "dead" /\ rt[p] \in Starts /\ StartAgrees(p)
        /\ rt' = [rt EXCEPT ![r].at = place, ![p].at = "forgotten"]
    BY <1>1, <1>5, <2>0, HostSandboxAssumption DEF HostInv, HostTypeOK, Everyone, GetsTo
  <2>2. /\ u \in Starts /\ u.at = "forgotten" /\ u.child = "dead"
        /\ u.inForce = rt[p].inForce /\ u.plan = rt[p].plan
        /\ u.report = rt[p].report
    BY <2>1 DEF Starts
  <2>3. Ending(p, u)
    BY <2>1, <2>2 DEF Ending, StartAgrees, Earned
  <2>4. /\ rt' \in [Everyone -> Starts] /\ rt'[r] = t /\ rt'[p] = u
        /\ \A q \in Everyone \ {r, p} : rt'[q] = rt[q]
    <3> HIDE DEF t, u
    <3>1. rt' = [rt EXCEPT ![r] = t, ![p] = u]
      BY <2>1 DEF t, u
    <3> QED
      BY <1>1, <1>2, <2>1, <2>2, <3>1 DEF HostTypeOK
  <2> HIDE DEF t, u
  <2>5. StartAgrees(r)'
    BY <1>1, <1>2, <1>3, <2>4, StepAgrees
  <2>7. StartAgrees(p)'
    BY <1>1, <2>1, <2>2, <2>3, <2>4, StepAgrees DEF Moving
  <2>6. ASSUME NEW q \in Everyone \ {r, p} PROVE StartAgrees(q)'
    BY <1>1, <2>4, KeepsStart DEF HostInv
  <2> QED
    BY <1>1, <2>1, <2>4, <2>5, <2>6, <2>7
<1> QED
  BY <1>4, <1>5 DEF GetsTo

\* The self-test is red only for a gap.
LEMMA ReportAgrees ==
    ASSUME HostInv, ProbeReports
    PROVE  /\ \E t \in Starts : Sets(Probe, t) /\ Ending(Probe, t) /\ t.at = "stopped"
           /\ RedIsAGap'
<1> DEFINE s == rt[Probe]
<1>1. s \in Starts /\ StartAgrees(Probe) /\ Probe \in Everyone /\ s.child = "restricted" /\ Constant
  BY DEF HostInv, HostTypeOK, Everyone, ProbeReports
<1>2. PICK sealed \in Sealings(Probe) :
        /\ Sets(Probe, [sealed EXCEPT !.at = "stopped", !.child = "dead", !.job = Closed(@)])
        /\ Verdict(sealed, Writes(Probe))
  BY DEF ProbeReports
<1> DEFINE t == [sealed EXCEPT !.at = "stopped", !.child = "dead", !.job = Closed(@)]
<1>3. Sets(Probe, t)
  BY <1>2
<1>4. /\ sealed \in Starts /\ sealed.plan = s.plan /\ s.inForce \subseteq sealed.inForce
      /\ sealed.report \subseteq sealed.inForce \/ (On("darwin") /\ sealed.plan = "none")
      /\ "filesystem" \in sealed.inForce => "filesystem" \in s.inForce
  BY <1>1, SealingsAgree DEF Alive
<1>5. /\ t \in Starts /\ t.at = "stopped" /\ t.child = "dead" /\ t.inForce = sealed.inForce
      /\ t.plan = s.plan /\ t.report = sealed.report
  BY <1>4 DEF Starts, Closed
<1> HIDE DEF t
<1>6. Ending(Probe, t)
  BY <1>4, <1>5, HostSandboxAssumption DEF Ending
<1>7. rt'[Probe] = t
  BY <1>1, <1>3, <1>5, SetsOne DEF HostInv
<1>8. Writes(Probe)
  BY <1>1 DEF StartAgrees, Writes
<1>9. Supported' = Supported
  BY <1>1, ConstantDefs
<1>10. RedIsAGap'
  BY <1>2, <1>5, <1>7, <1>8, <1>9 DEF Verdict, RedIsAGap
<1> QED
  BY <1>3, <1>5, <1>6, <1>10

\* What each step keeps of the runtimes, the table and the verdict.
Kept ==
    /\ rt' \in [Everyone -> Starts]
    /\ \A q \in Everyone : StartAgrees(q)'
    /\ pooled' # NoRuntime => rt'[pooled'].at = "ready"
    /\ verdict' = "red" => verdict = "red" /\ rt'[Probe] = rt[Probe]

\* Every step of one start, and a release, keeps what the invariant says of the rest.
LEMMA PlainStepsKeep ==
    ASSUME HostInv, NEW r \in Everyone,
           \/ Plans(r) \/ Spawns(r) \/ SpawnFails(r) \/ Adopts(r) \/ Ready(r) \/ NotReady(r)
           \/ Restricts(r) \/ Listens(r) \/ Seals(r) \/ ChildExits(r) \/ Stops(r)
           \/ Releases /\ r = pooled
    PROVE  Kept
<1>1. CASE Plans(r)
  <2>1. rt[r].at = "begun" /\ UNCHANGED <<pooled, verdict>>
    BY <1>1 DEF Plans, Unpooled
  <2>2. /\ rt' \in [Everyone -> Starts] /\ StartAgrees(r)'
        /\ \A q \in Everyone \ {r} : rt'[q] = rt[q]
    BY <1>1, PlansAgree
  <2>3. Constant /\ labelled \subseteq labelled'
    BY <1>1 DEF Plans, PlansNone, PlansNative, PlansWrapped, PlansJob, Refuses
  <2>4. ASSUME NEW q \in Everyone \ {r} PROVE StartAgrees(q)'
    BY <2>2, <2>3, KeepsStart DEF HostInv
  <2> QED
    BY <2>1, <2>2, <2>4 DEF HostInv, HostTypeOK, Kept, Everyone
<1>2. CASE \/ Spawns(r) \/ Adopts(r) \/ Ready(r) \/ Restricts(r) \/ Listens(r) \/ Seals(r)
           \/ Releases /\ r = pooled
  <2>1. PICK t \in Starts : /\ Sets(r, t) /\ Onward(r, t)
                            /\ pooled' = r => t.at = "ready"
    BY <1>2, OnwardSteps
  <2>2. Constant /\ UNCHANGED <<labelled, verdict>>
    BY <1>2 DEF Spawns, Adopts, Ready, Restricts, Listens, Seals, Releases
  <2>3. pooled' \in {pooled, r, NoRuntime}
    BY <1>2 DEF Spawns, Adopts, Restricts, Listens, Seals, Releases, Ready, Unpooled
  <2>5. /\ rt' \in [Everyone -> Starts] /\ rt'[r] = t
        /\ \A q \in Everyone \ {r} : rt'[q] = rt[q]
        /\ \A q \in Everyone : StartAgrees(q)'
    BY <2>1, <2>2, MovesAgree DEF Moving
  <2>6. rt[r].at # "stopped"
    BY <2>1 DEF Onward, Started
  <2> QED
    BY <2>1, <2>2, <2>3, <2>5, <2>6 DEF HostInv, HostTypeOK, Kept, Everyone
<1>3. CASE SpawnFails(r) \/ NotReady(r) \/ ChildExits(r) \/ Stops(r)
  <2>1. PICK t \in Starts : /\ Sets(r, t) /\ Ending(r, t)
                            /\ pooled' = r => t.at = "ready"
                            /\ r = Probe => rt[r].at # "stopped"
    BY <1>3, EndingSteps
  <2>2. Constant /\ UNCHANGED <<labelled, verdict, pooled>>
    BY <1>3 DEF SpawnFails, NotReady, ChildExits, Stops, Unpooled
  <2>3. /\ rt' \in [Everyone -> Starts] /\ rt'[r] = t
        /\ \A q \in Everyone \ {r} : rt'[q] = rt[q]
        /\ \A q \in Everyone : StartAgrees(q)'
    BY <2>1, <2>2, MovesAgree DEF Moving
  <2> QED
    BY <2>1, <2>2, <2>3 DEF HostInv, HostTypeOK, Kept, Everyone
<1> QED
  BY <1>1, <1>2, <1>3

\* The settings stand, and the rest of the state keeps its type.
LEMMA StepsKeepTypes ==
    ASSUME HostTypeOK, HostNext
    PROVE  /\ Constant /\ pooled' \in Runtimes \cup {NoRuntime}
           /\ starting' \in Runtimes \cup {NoRuntime} /\ files' \subseteq {"daemon", "bootstrap"}
           /\ labelled' \subseteq {"workspace", "temp"}
           /\ verdict' \in {"none", "green", "red", "unrun"}
<1> USE DEF HostTypeOK, Unpooled
<1>1. ASSUME NEW r \in Everyone, Plans(r)
      PROVE  UNCHANGED <<files, verdict, pooled, starting>> /\ Constant
             /\ labelled' \subseteq {"workspace", "temp"}
  BY <1>1 DEF Plans, PlansNone, PlansNative, PlansWrapped, PlansJob, Refuses, Dir
<1>2. ASSUME NEW r \in Everyone, \/ Spawns(r) \/ SpawnFails(r) \/ Restricts(r) \/ ChildExits(r)
                                 \/ Adopts(r) \/ NotReady(r) \/ Listens(r) \/ Seals(r)
      PROVE  UNCHANGED <<labelled, verdict, pooled, starting>> /\ Constant
             /\ files' \subseteq {"daemon", "bootstrap"}
  BY <1>2 DEF Spawns, SpawnFails, Restricts, ChildExits, Adopts, NotReady, Listens, Seals
<1>3. ASSUME NEW r \in Runtimes, Begins(r) \/ BeginFails(r) \/ Ready(r) \/ Stops(r)
      PROVE  /\ Constant /\ pooled' \in Runtimes \cup {NoRuntime}
             /\ starting' \in Runtimes \cup {NoRuntime} /\ files' \subseteq {"daemon", "bootstrap"}
             /\ UNCHANGED <<labelled, verdict>>
  BY <1>3 DEF Begins, BeginFails, GetsTo, Ready, Stops
<1>4. CASE Releases
  BY <1>4 DEF Releases
<1>5. CASE ProbeBegins \/ ProbeReports \/ ProbeFails
  BY <1>5 DEF ProbeBegins, ProbeReports, ProbeFails, Verdict
<1>6. Runtimes \subseteq Everyone /\ Probe \in Everyone
  BY DEF Everyone
<1>7. \/ \E r \in Everyone : Plans(r)
      \/ \E r \in Everyone : \/ Spawns(r) \/ SpawnFails(r) \/ Restricts(r) \/ ChildExits(r)
                             \/ Adopts(r) \/ NotReady(r) \/ Listens(r) \/ Seals(r)
      \/ \E r \in Runtimes : Begins(r) \/ BeginFails(r) \/ Ready(r) \/ Stops(r)
      \/ Releases \/ ProbeBegins \/ ProbeReports \/ ProbeFails
  BY <1>6 DEF HostNext, RuntimeNext, SelfTestNext
<1>8. CASE \E r \in Everyone : Plans(r)
  BY <1>1, <1>8
<1>9. CASE \E r \in Everyone : \/ Spawns(r) \/ SpawnFails(r) \/ Restricts(r) \/ ChildExits(r)
                               \/ Adopts(r) \/ NotReady(r) \/ Listens(r) \/ Seals(r)
  BY <1>2, <1>9
<1>10. CASE \E r \in Runtimes : Begins(r) \/ BeginFails(r) \/ Ready(r) \/ Stops(r)
  BY <1>3, <1>10
<1> QED
  BY <1>4, <1>5, <1>7, <1>8, <1>9, <1>10

\* Every step preserves the inductive invariant.
LEMMA HostNextInv == HostInv /\ [HostNext]_hostVars => HostInv'
<1> SUFFICES ASSUME HostInv, [HostNext]_hostVars
             PROVE  HostInv'
  OBVIOUS
<1>1. CASE UNCHANGED hostVars
  <2>1. Constant /\ rt' = rt /\ labelled' = labelled
    BY <1>1 DEF hostVars, Constant
  <2>2. \A r \in Everyone : StartAgrees(r)'
    BY <2>1, KeepsStart DEF HostInv
  <2>3. HostTypeOK' /\ RedIsAGap'
    BY <1>1, <2>1, ConstantDefs DEF HostInv, HostTypeOK, RedIsAGap, hostVars
  <2> QED
    BY <1>1, <2>2, <2>3 DEF HostInv, hostVars
<1>2. ASSUME HostNext, Kept PROVE HostInv'
  <2>1. HostTypeOK' /\ Constant
    BY <1>2, StepsKeepTypes DEF HostInv, HostTypeOK, Kept, Constant
  <2>2. RedIsAGap'
    BY <1>2, <2>1, ConstantDefs DEF Kept, HostInv, RedIsAGap
  <2> QED
    BY <1>2, <2>1, <2>2 DEF Kept, HostInv
<1>3. ASSUME NEW r \in Runtimes, Begins(r) \/ BeginFails(r) PROVE Kept
  <2>1. PICK place \in {"begun", "stopped"} : GetsTo(r, place)
    BY <1>3 DEF Begins, BeginFails
  <2>2. pooled' = NoRuntime /\ verdict' = verdict
    BY <2>1 DEF GetsTo
  <2> QED
    BY <2>1, <2>2, GetsSteps DEF Kept
<1>4. ASSUME ProbeBegins \/ ProbeFails PROVE Kept
  <2>1. PICK t \in Starts : /\ Sets(Probe, t) /\ Moving(Probe, t)
                            /\ ProbeFails => t.at = "stopped"
    BY <1>4, ProbeSteps
  <2>2. /\ Constant /\ UNCHANGED <<labelled, pooled>> /\ Probe \in Everyone
        /\ verdict' = verdict \/ verdict' = "unrun"
        /\ rt[Probe].at \in {"new", "failed", "spawned"}
    BY <1>4 DEF ProbeBegins, ProbeFails, Unpooled, Everyone
  <2>3. /\ rt' \in [Everyone -> Starts]
        /\ \A q \in Everyone \ {Probe} : rt'[q] = rt[q]
        /\ \A q \in Everyone : StartAgrees(q)'
    BY <2>1, <2>2, MovesAgree
  <2>4. (pooled # NoRuntime => rt[pooled].at = "ready")'
    BY <2>2, <2>3, HostSandboxAssumption DEF HostInv, HostTypeOK, Everyone
  <2>6. rt[Probe].at # "stopped"
    BY <2>2
  <2>5. verdict' # "red"
    BY <2>2, <2>6 DEF HostInv
  <2> QED
    BY <2>3, <2>4, <2>5 DEF Kept
<1>5. CASE ProbeReports
  <2>1. PICK t \in Starts : Sets(Probe, t) /\ Ending(Probe, t) /\ t.at = "stopped"
    BY <1>5, ReportAgrees
  <2>2. Constant /\ UNCHANGED <<labelled, pooled>> /\ Probe \in Everyone
    BY <1>5 DEF ProbeReports, Unpooled, Everyone
  <2>3. /\ rt' \in [Everyone -> Starts] /\ rt'[Probe] = t
        /\ \A q \in Everyone \ {Probe} : rt'[q] = rt[q]
        /\ \A q \in Everyone : StartAgrees(q)'
    BY <2>1, <2>2, MovesAgree DEF Moving
  <2>4. HostTypeOK'
    BY <1>5, <2>2, <2>3, StepsKeepTypes DEF HostInv, HostTypeOK, HostNext, SelfTestNext, Constant
  <2>5. (pooled # NoRuntime => rt[pooled].at = "ready")'
    BY <2>2, <2>3, HostSandboxAssumption DEF HostInv, HostTypeOK, Everyone
  <2> QED
    BY <1>5, <2>1, <2>3, <2>4, <2>5, ReportAgrees DEF HostInv
<1>6. ASSUME NEW r \in Everyone,
             \/ Plans(r) \/ Spawns(r) \/ SpawnFails(r) \/ Adopts(r) \/ Ready(r) \/ NotReady(r)
             \/ Restricts(r) \/ Listens(r) \/ Seals(r) \/ ChildExits(r) \/ Stops(r)
      PROVE  Kept
  BY <1>6, PlainStepsKeep
<1>7. CASE Releases
  <2>1. pooled \in Everyone
    BY <1>7 DEF Releases, HostInv, HostTypeOK, Everyone
  <2> QED
    BY <1>2, <1>7, <2>1, PlainStepsKeep DEF HostNext, RuntimeNext
<1>8. CASE HostNext
  <2>1. \/ \E r \in Runtimes : Begins(r) \/ BeginFails(r)
        \/ \E r \in Everyone :
             \/ Plans(r) \/ Spawns(r) \/ SpawnFails(r) \/ Adopts(r) \/ Ready(r) \/ NotReady(r)
             \/ Restricts(r) \/ Listens(r) \/ Seals(r) \/ ChildExits(r) \/ Stops(r)
        \/ Releases \/ ProbeBegins \/ ProbeReports \/ ProbeFails
    BY <1>8 DEF HostNext, RuntimeNext, SelfTestNext, Everyone
  <2> QED
    BY <1>2, <1>3, <1>4, <1>5, <1>6, <1>7, <1>8, <2>1
<1> QED
  BY <1>1, <1>8

\* For any number of runtimes, on every platform, with any settings: a cell runs contained as
\* far as the system allowed, a report is true, a child that lowered itself can work, and a
\* self-test is red only for a gap (host_runtime.py, spawn.py, child.py, selftest.py).
THEOREM StartsContained == HostSpec => []StartsAreContained
<1>1. HostInv => StartsAreContained
  <2> SUFFICES ASSUME HostInv PROVE StartsAreContained
    OBVIOUS
  <2>1. CellsAreContained
    <3> SUFFICES ASSUME NEW r \in Runtimes, RunsCells(r)
                 PROVE  /\ Asked \subseteq rt[r].inForce \cup rt[r].refused
                        /\ Required => rt[r].plan # "none"
      BY DEF CellsAreContained
    <3>1. PlanAgrees(r) /\ ChildAgrees(r) /\ rt[r].at \in Started /\ r \in Everyone
          /\ rt[r].at \in {"ready", "releasing"} /\ rt[r].child = "serving"
      BY DEF RunsCells, HostInv, StartAgrees, Everyone, Started
    <3>2. Required => rt[r].plan # "none"
      BY <3>1 DEF PlanAgrees
    <3>3. CASE ~Enabled
      BY <3>2, <3>3 DEF Asked
    <3>4. CASE Enabled /\ On("linux")
      <4>1. Tries(r) = wants.ceilings \cup (IF machine.modern THEN {"filesystem"} ELSE {})
        BY <3>4 DEF Tries, On
      <4>2. Supported \subseteq {"network", "memory", "processes"}
                               \cup (IF machine.modern THEN {"filesystem"} ELSE {})
        BY <3>4 DEF Supported, On
      <4> QED
        BY <3>1, <3>2, <3>4, <4>1, <4>2 DEF ChildAgrees, Asked
    <3>5. CASE Enabled /\ On("darwin")
      <4>1. Tries(r) = wants.ceilings
        BY <3>5 DEF Tries, On
      <4>2. {"filesystem"} \cup Denied \subseteq rt[r].inForce \cup rt[r].refused
        BY <3>1, <3>5 DEF PlanAgrees, ChildAgrees, Wraps, Alive
      <4> QED
        BY <3>1, <3>2, <3>5, <4>1, <4>2 DEF ChildAgrees, Asked
    <3>6. CASE Enabled /\ On("win32")
      <4>1. rt[r].plan = "job+low" => Tries(r) = {"filesystem"}
        BY <3>6 DEF Tries, ToldToLower, On
      <4>2. Supported \subseteq {"filesystem", "memory", "processes"}
        BY <3>6 DEF Supported, On
      <4>3. Supported # {} => "filesystem" \in rt[r].inForce \cup rt[r].refused
        BY <3>1, <3>6, <4>1 DEF PlanAgrees, ChildAgrees
      <4>4. wants.ceilings \subseteq rt[r].inForce \cup rt[r].refused
        BY <3>1, <3>6 DEF PlanAgrees
      <4> QED
        BY <3>2, <4>2, <4>3, <4>4 DEF Asked, Denied
    <3>7. CASE ~On("linux") /\ ~On("darwin") /\ ~On("win32")
      BY <3>2, <3>7 DEF Asked, Supported
    <3> QED
      BY <3>3, <3>4, <3>5, <3>6, <3>7
  <2>2. ReportsAreEarned /\ LoweredCanWrite /\ JobsAreClosed /\ RedIsAGap
    BY DEF HostInv, StartAgrees, Earned, ReportsAreEarned, LoweredCanWrite, JobsAreClosed, Everyone
  <2> QED
    BY <2>1, <2>2 DEF StartsAreContained
<1> QED
  BY <1>1, HostInitInv, HostNextInv, PTL DEF HostSpec
=============================================================================

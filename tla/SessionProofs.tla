---------------------------- MODULE SessionProofs ----------------------------
(***************************************************************************)
(* What is proved of a session: of the permissions its acts pass           *)
(* (PermissionGate), and of the manager that creates and disposes of       *)
(* sessions (SessionManager).                                              *)
(***************************************************************************)
EXTENDS PermissionGate, SessionManager, FiniteSetTheorems, TLAPS

-----------------------------------------------------------------------------
(***************************************************************************)
(* What the permission gate promises for every set of tasks, categories    *)
(* and subjects, and every table of categories.                            *)
(*                                                                         *)
(* GrantsAreTheUsers is inductive together with the type invariant: its    *)
(* second part, about answers heard and not yet acted upon, is what makes  *)
(* Resume record a consented grant.  The two action properties follow from *)
(* it step by step.                                                        *)
(***************************************************************************)

Inv == TypeOK /\ GrantsAreTheUsers

\* No gate opens by the profile alone for a category with always_ask.
LEMMA RulingIsClamped ==
  ASSUME NEW c \in AlwaysAsk
  PROVE  RulingFor(c) # "allow"
  BY DEF RulingFor

\* Where the gate opens by the profile, the user's settings say allow.
LEMMA AllowIsTheUsers ==
  ASSUME TypeOK, NEW c \in Categories, RulingFor(c) = "allow"
  PROVE  Allowed(c)
  BY DEF RulingFor, Allowed, TypeOK, Profiles

\* The initial states satisfy the inductive invariant.
LEMMA InitInv == Init => Inv
  BY GateAssumption DEF Init, Inv, TypeOK, GrantsAreTheUsers, Tasks

\* A request to set the permissions preserves it: what it forgets, it
\* forgets in both the grants and the history.
LEMMA SetPermissionsInv ==
  ASSUME Inv, NEW f \in Accepted, NEW refused \in BOOLEAN, NEW p \in Profiles,
         SetPermissions(f, refused, p)
  PROVE  Inv'
<1>1. f \in UNION {[S -> Rulings] : S \in SUBSET Categories}
  BY DEF Accepted
<1>2. custom' \in [Categories -> Rulings \cup {"unset"}]
  BY <1>1 DEF SetPermissions, Inv, TypeOK
<1>3. \A t \in Tasks : gate[t] = "heard" => want[t] \in Pairs
  BY DEF Inv, TypeOK
<1>4. TypeOK'
  <2>1. CASE refused \/ ~(p # profile /\ profile = "auto-approve")
    BY <1>2, <2>1 DEF SetPermissions, Inv, TypeOK
  <2>2. CASE ~refused /\ p # profile /\ profile = "auto-approve"
    BY <1>2, <1>3, <2>2 DEF SetPermissions, Inv, TypeOK
  <2> QED
    BY <2>1, <2>2
<1>5. GrantsAreTheUsers'
  BY DEF SetPermissions, Inv, GrantsAreTheUsers, Tasks
<1> QED
  BY <1>4, <1>5 DEF Inv

\* Every step of the session preserves it.
LEMMA NextInv == Inv /\ [Next]_vars => Inv'
<1> SUFFICES ASSUME Inv, [Next]_vars
             PROVE  Inv'
  OBVIOUS
<1> USE GateAssumption DEF Inv, TypeOK, GrantsAreTheUsers, Tasks, state
<1>1. ASSUME NEW f \in Accepted, NEW refused \in BOOLEAN, NEW p \in Profiles,
             SetPermissions(f, refused, p)
      PROVE  Inv'
  BY <1>1, SetPermissionsInv
<1>2. ASSUME NEW a \in Agents, NEW p \in Pairs, Permit(a, p)
      PROVE  Inv'
  BY <1>2 DEF Permit, Opens, Pairs
<1>3. ASSUME NEW a \in Agents, NEW p \in Pairs, Refuse(a, p)
      PROVE  Inv'
  BY <1>3 DEF Refuse, vars
<1>4. ASSUME NEW a \in Agents, SayYes(a)
      PROVE  Inv'
  BY <1>4 DEF SayYes
<1>5. ASSUME NEW a \in Agents, Decline(a) \/ GuardBlocks(a)
      PROVE  Inv'
  BY <1>5 DEF Decline, GuardBlocks, Frees
<1>6. ASSUME NEW a \in Agents, Resume(a)
      PROVE  Inv'
  BY <1>6 DEF Resume, Opens, Pairs
<1>7. ASSUME NEW a \in Agents, NEW s \in Subjects, GuardPasses(a, s)
      PROVE  Inv'
  BY <1>7 DEF GuardPasses, Pairs
<1>8. ASSUME NEW u \in Clients, NEW p \in Pairs, Click(u, p)
      PROVE  Inv'
  BY <1>8 DEF Click, Pairs
<1>9. ASSUME NEW t \in Tasks, Done(t)
      PROVE  Inv'
  BY <1>9 DEF Done, Frees
<1>10. CASE UNCHANGED vars
  BY <1>10 DEF vars
<1> QED
  BY <1>1, <1>2, <1>3, <1>4, <1>5, <1>6, <1>7, <1>8, <1>9, <1>10 DEF Next

\* Inv holds throughout every behaviour.
THEOREM Invariance == Spec => []Inv
  BY InitInv, NextInv, PTL DEF Spec

\* The permission state and the tasks stay well typed.
THEOREM TypeCorrect == Spec => []TypeOK
  BY Invariance, PTL DEF Inv

\* Every grant in force is one the user gave since auto-approve was left.
THEOREM GrantsConsented == Spec => []GrantsAreTheUsers
  BY Invariance, PTL DEF Inv

\* An always_ask action is never done for a subject the user did not approve.
THEOREM AlwaysAsked == Spec => AlwaysAskIsAsked
<1> DEFINE Asked ==
      \A t \in Tasks : Starts(t) /\ want'[t][1] \in AlwaysAsk => want'[t] \in yes'
<1>1. ASSUME Inv, Next
      PROVE  Asked
  <2> SUFFICES ASSUME NEW t \in Tasks, Starts(t), want'[t][1] \in AlwaysAsk
               PROVE  want'[t] \in yes'
    OBVIOUS
  <2> USE <1>1, GateAssumption
      DEF Inv, TypeOK, GrantsAreTheUsers, Starts, Tasks, state
  <2>1. ASSUME NEW f \in Accepted, NEW refused \in BOOLEAN, NEW p \in Profiles,
               SetPermissions(f, refused, p)
        PROVE  want'[t] \in yes'
    BY <2>1 DEF SetPermissions
  <2>2. ASSUME NEW a \in Agents, NEW p \in Pairs, Permit(a, p)
        PROVE  want'[t] \in yes'
    BY <2>2, RulingIsClamped DEF Permit, Opens, Pairs
  <2>3. ASSUME NEW a \in Agents, NEW p \in Pairs, Refuse(a, p)
        PROVE  want'[t] \in yes'
    BY <2>3 DEF Refuse, vars
  <2>4. ASSUME NEW a \in Agents, SayYes(a) \/ Decline(a) \/ GuardBlocks(a)
        PROVE  want'[t] \in yes'
    BY <2>4 DEF SayYes, Decline, GuardBlocks, Frees
  <2>5. ASSUME NEW a \in Agents, Resume(a)
        PROVE  want'[t] \in yes'
    BY <2>5 DEF Resume, Opens, Pairs
  <2>6. ASSUME NEW a \in Agents, NEW s \in Subjects, GuardPasses(a, s)
        PROVE  want'[t] \in yes'
    BY <2>6 DEF GuardPasses, Pairs
  <2>7. ASSUME NEW u \in Clients, NEW p \in Pairs, Click(u, p)
        PROVE  want'[t] \in yes'
    BY <2>7 DEF Click, Pairs
  <2>8. ASSUME NEW d \in Tasks, Done(d)
        PROVE  want'[t] \in yes'
    BY <2>8 DEF Done, Frees
  <2> QED
    BY <1>1, <2>1, <2>2, <2>3, <2>4, <2>5, <2>6, <2>7, <2>8 DEF Next
<1>2. UNCHANGED vars => Asked
  BY DEF vars, Starts
<1>3. Inv /\ [Next]_vars => [Asked]_vars
  BY <1>1, <1>2
<1> QED
  BY <1>3, Invariance, PTL DEF Spec, AlwaysAskIsAsked

\* Only three steps open a gate or widen the roots.
LEMMA OnlyOpens ==
  ASSUME TypeOK, Next, ~(UNCHANGED roots) \/ \E t \in Tasks : Starts(t) /\ want'[t][1] # PathCategory
  PROVE  \/ \E a \in Agents, p \in Pairs : Permit(a, p)
         \/ \E a \in Agents : Resume(a)
         \/ \E u \in Clients, p \in Pairs : Click(u, p)
         \/ roots' = {} /\ UNCHANGED gate
<1> USE DEF Starts, state, TypeOK, Tasks
<1>1. ASSUME NEW f \in Accepted, NEW refused \in BOOLEAN, NEW p \in Profiles,
             SetPermissions(f, refused, p)
      PROVE  UNCHANGED <<gate, want>> /\ (UNCHANGED roots \/ roots' = {})
  BY <1>1 DEF SetPermissions
<1>2. ASSUME NEW a \in Agents, NEW p \in Pairs, Refuse(a, p)
      PROVE  UNCHANGED <<roots, gate>>
  BY <1>2 DEF Refuse, vars
<1>3. ASSUME NEW a \in Agents, SayYes(a) \/ Decline(a) \/ GuardBlocks(a), NEW t \in Tasks
      PROVE  UNCHANGED roots /\ ~Starts(t)
  BY <1>3 DEF SayYes, Decline, GuardBlocks, Frees
<1>4. ASSUME NEW a \in Agents, NEW s \in Subjects, GuardPasses(a, s), NEW t \in Tasks
      PROVE  UNCHANGED roots /\ (Starts(t) => want'[t][1] = PathCategory)
  BY <1>4 DEF GuardPasses
<1>5. ASSUME NEW d \in Tasks, Done(d), NEW t \in Tasks
      PROVE  UNCHANGED roots /\ ~Starts(t)
  BY <1>5 DEF Done, Frees
<1> QED
  BY <1>1, <1>2, <1>3, <1>4, <1>5 DEF Next

\* Whatever is done, and whatever directory the guard is widened by, has a yes
\* of the user or an allow of the user's own settings behind it.
THEOREM NothingIsUnasked == Spec => NothingUnasked
<1> DEFINE Behind(p) == p \in yes' \/ Allowed(p[1])
           Asked ==
             /\ \A t \in Tasks :
                   Starts(t) /\ want'[t][1] # PathCategory => Behind(want'[t])
             /\ \A d \in roots' \ roots :
                   \E s \in Subjects :
                      /\ DirOf[s] = d
                      /\ <<PathCategory, s>> \in yes' \/ Allowed(PathCategory)
<1>1. ASSUME Inv, NEW t \in Tasks, NEW p \in Pairs, Behind(p),
             want'[t] = p, \A u \in Tasks \ {t} : gate'[u] = gate[u],
             roots' = roots \/ (p[1] = PathCategory /\ roots' = roots \cup {DirOf[p[2]]})
      PROVE  Asked
  BY <1>1 DEF Starts, Pairs
<1>2. ASSUME Inv, Next
      PROVE  Asked
  <2> USE GateAssumption DEF Inv, TypeOK, GrantsAreTheUsers, Tasks
  <2>1. ASSUME NEW a \in Agents, NEW p \in Pairs, Permit(a, p)
        PROVE  Asked
    <3>1. CASE p \in grants \/ RulingFor(p[1]) = "allow"
      <4>1. Behind(p)
        BY <1>2, <2>1, <3>1, AllowIsTheUsers DEF Permit, Pairs
      <4> QED
        BY <1>1, <1>2, <2>1, <4>1 DEF Permit, Opens
    <3>2. CASE ~(p \in grants \/ RulingFor(p[1]) = "allow")
      BY <1>2, <2>1, <3>2 DEF Permit, Starts
    <3> QED
      BY <3>1, <3>2
  <2>2. ASSUME NEW a \in Agents, Resume(a)
        PROVE  Asked
    <3>1. want[a] \in Pairs /\ want[a] \in yes'
      BY <1>2, <2>2 DEF Resume
    <3>2. Behind(want[a]) /\ want'[a] = want[a] /\ \A u \in Tasks \ {a} : gate'[u] = gate[u]
      BY <1>2, <2>2, <3>1 DEF Resume, Opens
    <3>3. \/ UNCHANGED roots
          \/ want[a][1] = PathCategory /\ roots' = roots \cup {DirOf[want[a][2]]}
      BY <2>2 DEF Resume, Opens
    <3> QED
      BY <1>1, <1>2, <3>1, <3>2, <3>3
  <2>3. ASSUME NEW u \in Clients, NEW p \in Pairs, Click(u, p)
        PROVE  Asked
    BY <1>1, <1>2, <2>3 DEF Click
  <2>4. CASE roots' = {} /\ UNCHANGED gate
    BY <2>4 DEF Starts
  <2>5. CASE UNCHANGED roots /\ \A t \in Tasks : Starts(t) => want'[t][1] = PathCategory
    BY <2>5
  <2> QED
    BY ONLY <1>2, <2>1, <2>2, <2>3, <2>4, <2>5, OnlyOpens
<1>3. UNCHANGED vars => Asked
  BY DEF vars, Starts
<1>4. Inv /\ [Next]_vars => [Asked]_vars
  BY <1>2, <1>3
<1> QED
  BY <1>4, Invariance, PTL DEF Spec, NothingUnasked

-----------------------------------------------------------------------------
(***************************************************************************)
(* What SessionManager promises for every number of sessions, threads and  *)
(* turns, and every cap.                                                   *)
(*                                                                         *)
(* None of the three invariants is inductive.  The cap needs to know that  *)
(* what is left when the chosen are popped fits; that a session is         *)
(* disposed of once, which thread may have chosen or popped what; and that *)
(* dispose is complete, how far each disposal has come and that nobody     *)
(* uses a session any more that nobody used when it was popped.            *)
(***************************************************************************)

\* The lock is held from the choice to the pop, of sessions that are live.
LockAgrees ==
    \A t \in Threads :
        /\ pc[t] \in {"evicting", "reaping"} <=> lock = t
        /\ pc[t] \in {"evicting", "reaping"} => victims[t] \subseteq live
        /\ pc[t] = "evicting" => Cardinality(live \ victims[t]) <= MaxActive
        /\ pc[t] \in {"idle", "capping"} => victims[t] = {}
        /\ victims[t] \subseteq minted

\* The threads whose creation has inserted a session and not yet evicted one.
Creating == {t \in Threads : pc[t] \in {"capping", "evicting"}}

\* How far the disposal of a session nobody was using has come.
DisposalAgrees ==
    \A t \in Threads :
        pc[t] \in {"releasing", "deleting"} =>
            /\ dying[t] \in victims[t]
            /\ dying[t] \notin overrun =>
                  /\ dying[t] \notin kids
                  /\ <<dying[t], "child">> \notin runtime
                  /\ pc[t] = "deleting" => <<dying[t], "own">> \notin runtime

\* A session that is gone is in use only if it was when it was popped.
GoneAreIdle == \A i \in minted \ overrun : i \notin live => ~InUse(i)

\* Turns are of sessions that were minted, and their subagents registered.
TurnsAgree ==
    /\ \A n \in Turns :
          /\ turn[n] = "unused" <=> on[n] = None
          /\ turn[n] # "unused" => on[n] \in minted
          /\ turn[n] \in {"unused", "resolved"} => ~InFlight(n)
          /\ (turn[n] = "parallel" \/ cell[n]["child"] \in {"called", "running"})
                => on[n] \in kids \cup overrun
    /\ kids \subseteq minted /\ rows \subseteq minted
    /\ \A i \in Ids, k \in Kinds : <<i, k>> \in runtime => i \in minted
    /\ \A i \in Ids : <<i, "child">> \in runtime => i \in kids \cup overrun

SessionsInv ==
    /\ SessionsTypeOK
    /\ LockAgrees
    /\ DisposalAgrees
    /\ GoneAreIdle
    /\ TurnsAgree
    /\ CapHolds
    /\ DisposedOnce
    /\ NothingLeft

-----------------------------------------------------------------------------
\* The initial states satisfy the inductive invariant.
LEMMA SessionsInitInv == SessionsInit => SessionsInv
<1> SUFFICES ASSUME SessionsInit PROVE SessionsInv
  OBVIOUS
<1> USE ManagerAssumption DEF SessionsInit
<1>1. SessionsTypeOK
  BY FS_EmptySet DEF SessionsTypeOK, Kinds
<1>2. LockAgrees /\ DisposedOnce /\ DisposalAgrees
  BY DEF LockAgrees, DisposedOnce, DisposalAgrees
<1>3. GoneAreIdle /\ NothingLeft
  BY DEF GoneAreIdle, NothingLeft
<1>4. TurnsAgree
  BY DEF TurnsAgree, InFlight, Kinds
<1>5. CapHolds
  <2>1. {t \in Threads : pc[t] \in {"capping", "evicting"}} = {}
    OBVIOUS
  <2> QED BY <2>1, FS_EmptySet DEF CapHolds
<1> QED
  BY <1>1, <1>2, <1>3, <1>4, <1>5 DEF SessionsInv

-----------------------------------------------------------------------------
\* Popping leaves an order of what stays.
LEMMA PopEffect ==
    ASSUME SessionsTypeOK, NEW gone, Forgets(gone)
    PROVE  /\ live' = live \ gone /\ IsFiniteSet(live')
           /\ before' \subseteq live' \X live'
  BY FS_Subset DEF SessionsTypeOK, Forgets

\* Every step keeps the type invariant.
LEMMA NextType == SessionsInv /\ [SessionsNext]_sessionsVars => SessionsTypeOK'
<1> SUFFICES ASSUME SessionsInv, [SessionsNext]_sessionsVars
             PROVE  SessionsTypeOK'
  OBVIOUS
<1> USE DEF SessionsInv, SessionsTypeOK, managerVars, heldVars, turnVars
<1>1. ASSUME NEW t \in Threads, NEW i \in Ids, Inserts(t, i) PROVE SessionsTypeOK'
  BY <1>1, FS_AddElement DEF Inserts
<1>2. ASSUME NEW t \in Threads, Fits(t) \/ FindsExpired(t) PROVE SessionsTypeOK'
  BY <1>2 DEF Fits, FindsExpired
<1>3. ASSUME NEW t \in Threads, Ranks(t) PROVE SessionsTypeOK'
  BY <1>3 DEF Ranks, LeastRecent
<1>4. ASSUME NEW t \in Threads, Pops(t) PROVE SessionsTypeOK'
  BY <1>4, PopEffect DEF Pops
<1>5. ASSUME NEW t \in Threads, NEW i \in Ids, Drops(t, i) PROVE SessionsTypeOK'
  BY <1>5, PopEffect DEF Drops
<1>6. ASSUME NEW t \in Threads, NEW i \in Ids, DisposesKids(t, i) PROVE SessionsTypeOK'
  BY <1>6 DEF DisposesKids
<1>7. ASSUME NEW t \in Threads, ReleasesOwn(t) \/ DeletesRows(t) PROVE SessionsTypeOK'
  BY <1>7 DEF ReleasesOwn, DeletesRows
<1>8. ASSUME NEW i \in Ids, Touches(i) PROVE SessionsTypeOK'
  BY <1>8 DEF Touches, Touched
<1>9. CASE Ages
  BY <1>9 DEF Ages
<1>10. ASSUME NEW n \in Turns, NEW i \in Ids, Resolves(n, i) PROVE SessionsTypeOK'
  BY <1>10 DEF Resolves, Touched
<1>11. ASSUME NEW n \in Turns,
              TurnStarts(n) \/ FansOut(n) \/ FoldsBack(n) \/ Finalizes(n) \/ Cancelled(n)
       PROVE  SessionsTypeOK'
  <2>1. turn[n] # "unused"
    BY <1>11 DEF TurnStarts, FansOut, FoldsBack, Finalizes, Cancelled
  <2>2. on[n] \in Ids
    BY <2>1 DEF TurnsAgree
  <2> QED BY <1>11, <2>2 DEF TurnStarts, FansOut, FoldsBack, Finalizes, Cancelled
<1>12. ASSUME NEW n \in Turns, NEW k \in Kinds,
              CallsCell(n, k) \/ GetsRuntime(n, k) \/ CellEnds(n, k)
       PROVE  SessionsTypeOK'
  <2>1. GetsRuntime(n, k) => InFlight(n)
    BY DEF GetsRuntime, InFlight
  <2>2. InFlight(n) => on[n] \in Ids
    BY DEF TurnsAgree
  <2>3. CASE GetsRuntime(n, k)
    <3>1. runtime' \subseteq Ids \X Kinds
      BY <2>1, <2>2, <2>3 DEF GetsRuntime
    <3> QED BY <2>3, <3>1 DEF GetsRuntime
  <2>4. CASE CallsCell(n, k)
    BY <2>4 DEF CallsCell
  <2>5. CASE CellEnds(n, k)
    BY <2>5 DEF CellEnds
  <2> QED BY <1>12, <2>3, <2>4, <2>5
<1>13. CASE UNCHANGED sessionsVars
  BY <1>13 DEF sessionsVars
<1> QED
  BY <1>1, <1>2, <1>3, <1>4, <1>5, <1>6, <1>7, <1>8, <1>9, <1>10, <1>11, <1>12, <1>13
     DEF SessionsNext

-----------------------------------------------------------------------------
\* What happens in the manager while nobody creates, drops, reaps or evicts.
LEMMA KeepsManager ==
    ASSUME SessionsInv, UNCHANGED <<live, minted, lock, pc, victims>>
    PROVE  LockAgrees' /\ DisposedOnce' /\ CapHolds'
  BY DEF SessionsInv, LockAgrees, DisposedOnce, CapHolds

\* The steps of the manager's threads that neither choose nor pop a session.
LEMMA OthersKeepManager ==
    ASSUME SessionsInv,
           \/ \E i \in Ids : Touches(i)
           \/ Ages
           \/ \E n \in Turns :
                 \/ \E i \in Ids : Resolves(n, i)
                 \/ TurnStarts(n) \/ FansOut(n) \/ FoldsBack(n) \/ Finalizes(n) \/ Cancelled(n)
                 \/ \E k \in Kinds : CallsCell(n, k) \/ GetsRuntime(n, k) \/ CellEnds(n, k)
           \/ UNCHANGED sessionsVars
    PROVE  UNCHANGED <<live, minted, lock, pc, victims, dying>>
  BY DEF Touches, Ages, Resolves, Touched, TurnStarts, FansOut, FoldsBack, Finalizes, Cancelled,
         CallsCell, GetsRuntime, CellEnds, sessionsVars, managerVars

\* The step of one thread: the sessions it inserts are new, the ones it comes
\* to have chosen were live and chosen under the lock, and while another holds
\* the lock no session is popped.
LEMMA ThreadStep ==
    ASSUME SessionsTypeOK, LockAgrees, DisposedOnce, NEW t \in Threads,
           \A u \in Threads \ {t} : pc'[u] = pc[u] /\ victims'[u] = victims[u],
           minted \subseteq minted', live' \cap minted \subseteq live,
           lock' = lock \/ (lock = None /\ lock' = t) \/ (lock = t /\ lock' = None),
           lock \in Threads \ {t} => live' = live,
           pc'[t] \in {"evicting", "reaping"} <=> lock' = t,
           pc'[t] \in {"evicting", "reaping"} => victims'[t] \subseteq live',
           pc'[t] = "evicting" => Cardinality(live' \ victims'[t]) <= MaxActive,
           pc'[t] \in {"idle", "capping"} => victims'[t] = {},
           victims'[t] \subseteq minted',
           pc'[t] \in {"disposing", "releasing", "deleting"} => victims'[t] \cap live' = {},
           victims'[t] \subseteq victims[t] \/ (lock = None /\ victims'[t] \subseteq live)
    PROVE  LockAgrees' /\ DisposedOnce'
<1> USE ManagerAssumption
<1>1. LockAgrees'
  <2>1. ASSUME NEW u \in Threads \ {t}, pc[u] \in {"evicting", "reaping"}
        PROVE  lock' = u /\ live' = live
    BY <2>1 DEF LockAgrees
  <2>2. ASSUME NEW u \in Threads \ {t}, lock' = u
        PROVE  pc[u] \in {"evicting", "reaping"}
    BY <2>2 DEF LockAgrees
  <2> QED BY <2>1, <2>2 DEF LockAgrees
<1>2. ASSUME NEW u \in Threads \ {t} PROVE victims[t] \cap victims[u] = {}
  BY DEF DisposedOnce
<1>3. ASSUME NEW u \in Threads \ {t}, lock = None
      PROVE  victims[u] \cap live = {}
  <2>1. pc[u] \notin {"evicting", "reaping"}
    BY <1>3 DEF LockAgrees, SessionsTypeOK
  <2>2. pc[u] \in {"idle", "capping"} \/ pc[u] \in {"disposing", "releasing", "deleting"}
    BY <2>1 DEF SessionsTypeOK
  <2> QED BY <2>2 DEF LockAgrees, DisposedOnce
<1>4. ASSUME NEW u \in Threads \ {t} PROVE victims'[t] \cap victims'[u] = {}
  BY <1>2, <1>3
<1>5. ASSUME NEW u \in Threads \ {t}, pc[u] \in {"disposing", "releasing", "deleting"}
      PROVE  victims[u] \cap live' = {}
  <2>1. victims[u] \subseteq minted /\ victims[u] \cap live = {}
    BY <1>5 DEF LockAgrees, DisposedOnce
  <2> QED BY <2>1
<1>6. ASSUME NEW u \in Threads, NEW v \in Threads \ {u}
      PROVE  victims'[u] \cap victims'[v] = {}
  <2>1. CASE u = t
    BY <1>4, <2>1
  <2>2. CASE v = t
    BY <1>4, <2>2
  <2>3. CASE u # t /\ v # t
    BY <2>3 DEF DisposedOnce
  <2> QED BY <2>1, <2>2, <2>3
<1>7. ASSUME NEW u \in Threads,
             pc'[u] \in {"disposing", "releasing", "deleting"}
      PROVE  victims'[u] \cap live' = {}
  BY <1>5, <1>7
<1> QED
  BY <1>1, <1>6, <1>7 DEF DisposedOnce

\* Every step keeps what the lock's holder has chosen, and a session disposed of once.
LEMMA NextLock == SessionsInv /\ [SessionsNext]_sessionsVars => LockAgrees' /\ DisposedOnce'
<1> SUFFICES ASSUME SessionsInv, [SessionsNext]_sessionsVars
             PROVE  LockAgrees' /\ DisposedOnce'
  OBVIOUS
<1>0. SessionsTypeOK /\ LockAgrees /\ DisposedOnce
  BY DEF SessionsInv
<1>a. \A t \in Threads : pc[t] \in {"evicting", "reaping"} <=> lock = t
  BY <1>0 DEF LockAgrees
<1>b. \A t \in Threads : /\ victims[t] \subseteq minted
                         /\ pc[t] \in {"idle", "capping"} => victims[t] = {}
                         /\ pc[t] \in {"disposing", "releasing", "deleting"}
                               => victims[t] \cap live = {}
  BY <1>0 DEF LockAgrees, DisposedOnce
<1>c. /\ pc \in [Threads -> {"idle", "capping", "evicting", "reaping", "disposing",
                           "releasing", "deleting"}]
      /\ victims \in [Threads -> SUBSET Ids] /\ live \subseteq minted
  BY <1>0 DEF SessionsTypeOK
<1> USE ManagerAssumption
<1>1. ASSUME NEW t \in Threads, NEW i \in Ids, Inserts(t, i) PROVE LockAgrees' /\ DisposedOnce'
  BY <1>1, <1>0, <1>a, <1>b, <1>c, ThreadStep DEF Inserts
<1>2. ASSUME NEW t \in Threads, Fits(t) PROVE LockAgrees' /\ DisposedOnce'
  BY <1>2, <1>0, <1>a, <1>b, <1>c, ThreadStep DEF Fits
<1>3. ASSUME NEW t \in Threads, Ranks(t) PROVE LockAgrees' /\ DisposedOnce'
  <2>1. PICK chosen \in SUBSET live :
             LeastRecent(chosen) /\ victims' = [victims EXCEPT ![t] = chosen]
    BY <1>3 DEF Ranks
  <2>2. Cardinality(live \ chosen) <= MaxActive
    <3>1. IsFiniteSet(live) /\ live \cap chosen = chosen
      BY <1>0 DEF SessionsTypeOK
    <3>2. Cardinality(live \ chosen) = Cardinality(live) - Cardinality(chosen)
      BY <3>1, FS_Difference
    <3>3. Cardinality(live) \in Nat
      BY <3>1, FS_CardinalityType
    <3> QED BY <1>3, <2>1, <3>2, <3>3 DEF Ranks, LeastRecent, Overflow
  <2> QED BY <1>3, <2>1, <2>2, <1>0, <1>a, <1>b, <1>c, ThreadStep DEF Ranks
<1>4. ASSUME NEW t \in Threads, FindsExpired(t) PROVE LockAgrees' /\ DisposedOnce'
  BY <1>4, <1>0, <1>a, <1>b, <1>c, ThreadStep DEF FindsExpired
<1>5. ASSUME NEW t \in Threads, Pops(t) PROVE LockAgrees' /\ DisposedOnce'
  BY <1>5, <1>0, <1>a, <1>b, <1>c, ThreadStep DEF Pops, Forgets
<1>6. ASSUME NEW t \in Threads, NEW i \in Ids, Drops(t, i) PROVE LockAgrees' /\ DisposedOnce'
  BY <1>6, <1>0, <1>a, <1>b, <1>c, ThreadStep DEF Drops, Forgets
<1>7. ASSUME NEW t \in Threads, NEW i \in Ids, DisposesKids(t, i)
      PROVE  LockAgrees' /\ DisposedOnce'
  BY <1>7, <1>0, <1>a, <1>b, <1>c, ThreadStep DEF DisposesKids
<1>8. ASSUME NEW t \in Threads, ReleasesOwn(t) PROVE LockAgrees' /\ DisposedOnce'
  BY <1>8, <1>0, <1>a, <1>b, <1>c, ThreadStep DEF ReleasesOwn
<1>9. ASSUME NEW t \in Threads, DeletesRows(t) PROVE LockAgrees' /\ DisposedOnce'
  BY <1>9, <1>0, <1>a, <1>b, <1>c, ThreadStep DEF DeletesRows
<1> QED
  BY <1>1, <1>2, <1>3, <1>4, <1>5, <1>6, <1>7, <1>8, <1>9, OthersKeepManager, KeepsManager
     DEF SessionsNext

-----------------------------------------------------------------------------
\* While nothing is inserted, and no creation ends, the cap is held.
LEMMA CapIsKept ==
    ASSUME SessionsTypeOK, CapHolds, live' \subseteq live, Creating \subseteq Creating',
           IsFiniteSet(Creating')
    PROVE  CapHolds'
<1>1. Cardinality(live') <= Cardinality(live) /\ Cardinality(live') \in Nat
  BY FS_Subset, FS_CardinalityType DEF SessionsTypeOK
<1>2. /\ Cardinality(Creating) <= Cardinality(Creating')
      /\ Cardinality(Creating) \in Nat /\ Cardinality(Creating') \in Nat
  BY FS_Subset, FS_CardinalityType
<1>3. Cardinality(live) \in Nat
  BY FS_CardinalityType DEF SessionsTypeOK
<1>4. CapHolds <=> Cardinality(live) <= MaxActive + Cardinality(Creating)
  BY DEF CapHolds, Creating
<1>5. CapHolds' <=> Cardinality(live') <= MaxActive + Cardinality(Creating')
  BY DEF CapHolds, Creating
<1> QED BY <1>1, <1>2, <1>3, <1>4, <1>5, ManagerAssumption

\* Every step keeps the cap.
LEMMA NextCap == SessionsInv /\ [SessionsNext]_sessionsVars => CapHolds'
<1> SUFFICES ASSUME SessionsInv, [SessionsNext]_sessionsVars
             PROVE  CapHolds'
  OBVIOUS
<1>0. SessionsTypeOK /\ LockAgrees /\ CapHolds
  BY DEF SessionsInv
<1> USE ManagerAssumption
<1>a. IsFiniteSet(Creating) /\ IsFiniteSet(Creating')
  BY FS_Subset DEF Creating
<1>b. /\ CapHolds <=> Cardinality(live) <= MaxActive + Cardinality(Creating)
      /\ CapHolds' <=> Cardinality(live') <= MaxActive + Cardinality(Creating')
  BY DEF CapHolds, Creating
<1>c. /\ Cardinality(Creating) \in Nat /\ Cardinality(Creating') \in Nat
      /\ IsFiniteSet(live) /\ Cardinality(live) \in Nat
  BY <1>0, <1>a, FS_CardinalityType DEF SessionsTypeOK
<1>d. pc \in [Threads -> {"idle", "capping", "evicting", "reaping", "disposing",
                         "releasing", "deleting"}]
  BY <1>0 DEF SessionsTypeOK
<1>1. ASSUME NEW t \in Threads, NEW i \in Ids, Inserts(t, i) PROVE CapHolds'
  <2>1. Creating' = Creating \cup {t} /\ t \notin Creating
    BY <1>1, <1>d DEF Inserts, Creating
  <2>2. Cardinality(Creating') = Cardinality(Creating) + 1
    BY <2>1, <1>a, FS_AddElement
  <2>3. live' = live \cup {i} /\ i \notin live
    BY <1>1, <1>0 DEF Inserts, SessionsTypeOK
  <2>4. Cardinality(live') = Cardinality(live) + 1
    BY <2>3, <1>c, FS_AddElement
  <2> QED BY <2>2, <2>4, <1>0, <1>b, <1>c
<1>2. ASSUME NEW t \in Threads, Fits(t) PROVE CapHolds'
  BY <1>2, <1>b, <1>c DEF Fits, Overflow
<1>3. ASSUME NEW t \in Threads, Ranks(t) PROVE CapHolds'
  <2>1. Creating \subseteq Creating' /\ live' = live
    BY <1>3, <1>d DEF Ranks, Creating
  <2> QED BY <2>1, <1>0, <1>a, CapIsKept
<1>4. ASSUME NEW t \in Threads, Pops(t) PROVE CapHolds'
  <2>1. CASE pc[t] = "evicting"
    <3>1. live' = live \ victims[t] /\ Cardinality(live \ victims[t]) <= MaxActive
      BY <1>4, <2>1, <1>0 DEF Pops, Forgets, LockAgrees
    <3>2. Cardinality(live \ victims[t]) \in Nat
      BY <1>c, FS_Subset, FS_CardinalityType
    <3> QED BY <3>1, <3>2, <1>b, <1>c
  <2>2. CASE pc[t] # "evicting"
    <3>1. Creating \subseteq Creating' /\ live' \subseteq live
      BY <1>4, <2>2, <1>d DEF Pops, Forgets, Creating
    <3> QED BY <3>1, <1>0, <1>a, CapIsKept
  <2> QED BY <2>1, <2>2
<1>5. ASSUME NEW t \in Threads, NEW i \in Ids,
             Drops(t, i) \/ DisposesKids(t, i)
      PROVE  CapHolds'
  <2>1. Creating \subseteq Creating' /\ live' \subseteq live
    BY <1>5, <1>d DEF Drops, Forgets, DisposesKids, Creating
  <2> QED BY <2>1, <1>0, <1>a, CapIsKept
<1>6. ASSUME NEW t \in Threads, ReleasesOwn(t) \/ DeletesRows(t) \/ FindsExpired(t)
      PROVE  CapHolds'
  <2>1. Creating \subseteq Creating' /\ live' \subseteq live
    BY <1>6, <1>d DEF FindsExpired, ReleasesOwn, DeletesRows, Creating
  <2> QED BY <2>1, <1>0, <1>a, CapIsKept
<1> QED
  BY <1>1, <1>2, <1>3, <1>4, <1>5, <1>6, OthersKeepManager, KeepsManager DEF SessionsNext

-----------------------------------------------------------------------------
\* A turn stays with its session, and so do its cells.
LEMMA NextTurns == SessionsInv /\ [SessionsNext]_sessionsVars => TurnsAgree'
<1> SUFFICES ASSUME SessionsInv, [SessionsNext]_sessionsVars
             PROVE  TurnsAgree'
  OBVIOUS
<1>0. /\ SessionsTypeOK /\ LockAgrees /\ DisposedOnce /\ GoneAreIdle /\ TurnsAgree
      /\ DisposalAgrees
  BY DEF SessionsInv
<1> USE ManagerAssumption, <1>0
<1>1. ASSUME NEW t \in Threads, NEW i \in Ids, Inserts(t, i) PROVE TurnsAgree'
  BY <1>1 DEF Inserts, TurnsAgree, InFlight, turnVars, heldVars
<1>2. ASSUME NEW t \in Threads, Fits(t) \/ Ranks(t) \/ FindsExpired(t) PROVE TurnsAgree'
  BY <1>2 DEF Fits, Ranks, FindsExpired, TurnsAgree, InFlight, turnVars, heldVars
<1>3. ASSUME NEW t \in Threads, Pops(t) PROVE TurnsAgree'
  BY <1>3 DEF Pops, TurnsAgree, InFlight, turnVars, heldVars
<1>4. ASSUME NEW t \in Threads, NEW i \in Ids, Drops(t, i) PROVE TurnsAgree'
  BY <1>4 DEF Drops, TurnsAgree, InFlight, turnVars, heldVars
<1>5. ASSUME NEW t \in Threads, NEW i \in Ids, DisposesKids(t, i) PROVE TurnsAgree'
  <2>1. i \notin live /\ i \in minted
    BY <1>5 DEF DisposesKids, DisposedOnce, LockAgrees
  <2>2. i \in overrun \/ ~InUse(i)
    BY <2>1 DEF GoneAreIdle
  <2>3. \A n \in Turns : (turn[n] = "parallel" \/ cell[n]["child"] \in {"called", "running"})
                          => on[n] # i \/ i \in overrun
    BY <2>2 DEF InUse, InFlight, Kinds
  <2>4. i \notin kids => kids' = kids /\ runtime' = runtime
    BY <1>5 DEF DisposesKids
  <2>5. i \in kids => kids' = kids \ {i} /\ runtime' = runtime \ {<<i, "child">>}
    BY <1>5 DEF DisposesKids
  <2>6. UNCHANGED <<turn, on, cell, minted, rows, overrun>>
    BY <1>5 DEF DisposesKids, turnVars
  <2> QED BY <2>3, <2>4, <2>5, <2>6 DEF TurnsAgree, InFlight
<1>6. ASSUME NEW t \in Threads, ReleasesOwn(t) \/ DeletesRows(t) PROVE TurnsAgree'
  BY <1>6 DEF ReleasesOwn, DeletesRows, TurnsAgree, InFlight, turnVars
<1>7. ASSUME NEW i \in Ids, Touches(i) PROVE TurnsAgree'
  BY <1>7 DEF Touches, TurnsAgree, InFlight, turnVars, heldVars
<1>8. CASE Ages
  BY <1>8 DEF Ages, TurnsAgree, InFlight, turnVars, heldVars
<1>9. ASSUME NEW n \in Turns, NEW i \in Ids, Resolves(n, i) PROVE TurnsAgree'
  BY <1>9 DEF Resolves, Touched, TurnsAgree, InFlight, heldVars, SessionsTypeOK, Kinds
<1>10. ASSUME NEW n \in Turns, TurnStarts(n) PROVE TurnsAgree'
  BY <1>10 DEF TurnStarts, TurnsAgree, InFlight, managerVars, SessionsTypeOK
<1>11. ASSUME NEW n \in Turns, FansOut(n) PROVE TurnsAgree'
  BY <1>11 DEF FansOut, TurnsAgree, InFlight, managerVars, SessionsTypeOK
<1>12. ASSUME NEW n \in Turns, FoldsBack(n) PROVE TurnsAgree'
  BY <1>12 DEF FoldsBack, TurnsAgree, InFlight, managerVars, SessionsTypeOK
<1>13. ASSUME NEW n \in Turns, Finalizes(n) \/ Cancelled(n) PROVE TurnsAgree'
  BY <1>13 DEF Finalizes, Cancelled, TurnsAgree, InFlight, managerVars, heldVars, SessionsTypeOK
<1>14. ASSUME NEW n \in Turns, NEW k \in Kinds, CallsCell(n, k) PROVE TurnsAgree'
  BY <1>14 DEF CallsCell, TurnsAgree, InFlight, managerVars, heldVars, SessionsTypeOK, Kinds
<1>15. ASSUME NEW n \in Turns, NEW k \in Kinds, GetsRuntime(n, k) PROVE TurnsAgree'
  BY <1>15 DEF GetsRuntime, TurnsAgree, InFlight, managerVars, SessionsTypeOK, Kinds
<1>16. ASSUME NEW n \in Turns, NEW k \in Kinds, CellEnds(n, k) PROVE TurnsAgree'
  BY <1>16 DEF CellEnds, TurnsAgree, InFlight, managerVars, heldVars, SessionsTypeOK, Kinds
<1>17. CASE UNCHANGED sessionsVars
  BY <1>17 DEF sessionsVars, TurnsAgree, InFlight, managerVars, turnVars, heldVars
<1> QED
  BY <1>1, <1>2, <1>3, <1>4, <1>5, <1>6, <1>7, <1>8, <1>9, <1>10, <1>11, <1>12, <1>13, <1>14,
     <1>15, <1>16, <1>17 DEF SessionsNext

-----------------------------------------------------------------------------
\* A turn that is under way, or has a cell that is, has a session that is live
\* or was popped under it.
LEMMA UsersAreKnown ==
    ASSUME SessionsTypeOK, TurnsAgree, GoneAreIdle, NEW n \in Turns,
           turn[n] \in {"resolved", "running", "parallel"} \/ InFlight(n)
    PROVE  on[n] \in Ids /\ on[n] \in live \cup overrun
<1>1. on[n] \in minted /\ InUse(on[n])
  BY DEF TurnsAgree, InUse, SessionsTypeOK
<1> QED BY <1>1 DEF GoneAreIdle, SessionsTypeOK

\* What sessions hold is added to for such sessions only; nothing that was
\* popped comes back.
Added ==
    /\ kids' \ kids \subseteq live \cup overrun
    /\ rows' \ rows \subseteq live \cup overrun
    /\ \A r \in runtime' \ runtime : r[1] \in live \cup overrun
    /\ overrun \subseteq overrun' /\ minted \subseteq minted'
    /\ live' \cap minted \subseteq live /\ minted' \ minted \subseteq live'

\* Every step adds to what sessions hold only as Added allows.
LEMMA OnlyUsersAdd == SessionsInv /\ [SessionsNext]_sessionsVars => Added
<1> SUFFICES ASSUME SessionsInv, [SessionsNext]_sessionsVars
             PROVE  Added
  OBVIOUS
<1>0. SessionsTypeOK /\ TurnsAgree /\ GoneAreIdle
  BY DEF SessionsInv
<1>t. live \subseteq minted
  BY <1>0 DEF SessionsTypeOK
<1> USE DEF managerVars, heldVars, turnVars, Added
<1>1. ASSUME NEW t \in Threads, NEW i \in Ids, Inserts(t, i) \/ Drops(t, i) \/ DisposesKids(t, i)
      PROVE  Added
  BY <1>1, <1>t DEF Inserts, Drops, DisposesKids, Forgets
<1>2. ASSUME NEW t \in Threads,
             \/ Fits(t) \/ Ranks(t) \/ FindsExpired(t) \/ Pops(t)
             \/ ReleasesOwn(t) \/ DeletesRows(t)
      PROVE  Added
  BY <1>2, <1>t DEF Fits, Ranks, FindsExpired, Pops, ReleasesOwn, DeletesRows, Forgets
<1>3. ASSUME NEW i \in Ids, Touches(i) PROVE Added
  BY <1>3, <1>t DEF Touches, Touched
<1>4. CASE Ages
  BY <1>4, <1>t DEF Ages
<1>5. ASSUME NEW n \in Turns, NEW i \in Ids, Resolves(n, i) PROVE Added
  BY <1>5, <1>t DEF Resolves, Touched
<1>6. ASSUME NEW n \in Turns,
             TurnStarts(n) \/ FansOut(n) \/ FoldsBack(n) \/ Finalizes(n) \/ Cancelled(n)
      PROVE  Added
  <2>1. turn[n] \in {"resolved", "running", "parallel"}
    BY <1>6 DEF TurnStarts, FansOut, FoldsBack, Finalizes, Cancelled
  <2>2. on[n] \in live \cup overrun
    BY <2>1, <1>0, UsersAreKnown
  <2> QED BY <1>6, <1>t, <2>2 DEF TurnStarts, FansOut, FoldsBack, Finalizes, Cancelled
<1>7. ASSUME NEW n \in Turns, NEW k \in Kinds, GetsRuntime(n, k) PROVE Added
  <2>1. on[n] \in live \cup overrun
    BY <1>7, <1>0, UsersAreKnown DEF GetsRuntime, InFlight
  <2> QED BY <1>7, <1>t, <2>1 DEF GetsRuntime
<1>8. ASSUME NEW n \in Turns, NEW k \in Kinds, CallsCell(n, k) \/ CellEnds(n, k) PROVE Added
  BY <1>8, <1>t DEF CallsCell, CellEnds
<1>9. CASE UNCHANGED sessionsVars
  BY <1>9, <1>t DEF sessionsVars
<1> QED
  BY <1>1, <1>2, <1>3, <1>4, <1>5, <1>6, <1>7, <1>8, <1>9 DEF SessionsNext

-----------------------------------------------------------------------------
\* Nobody comes to use a session that is gone.
LEMMA NextIdle == SessionsInv /\ [SessionsNext]_sessionsVars => GoneAreIdle'
<1> SUFFICES ASSUME SessionsInv, [SessionsNext]_sessionsVars
             PROVE  GoneAreIdle'
  OBVIOUS
<1>0. SessionsTypeOK /\ GoneAreIdle /\ Added
  BY OnlyUsersAdd DEF SessionsInv
<1>t. /\ turn \in [Turns -> {"unused", "resolved", "running", "parallel", "over"}]
      /\ on \in [Turns -> Ids \cup {None}]
      /\ cell \in [Turns -> [Kinds -> {"unused", "called", "running", "done"}]]
  BY <1>0 DEF SessionsTypeOK
<1>a. ASSUME NEW i \in Ids, i \in live \/ ~InUse(i)' \/ InUse(i), i \in minted' \ overrun',
             i \notin live', i \in live => ~InUse(i)'
      PROVE  ~InUse(i)'
  BY <1>a, <1>0 DEF GoneAreIdle, Added
<1>b. ASSUME NEW i \in Ids, UNCHANGED turnVars PROVE InUse(i)' <=> InUse(i)
  BY <1>b DEF InUse, InFlight, turnVars
<1>c. ASSUME UNCHANGED turnVars, live \subseteq live' \cup overrun' \cup {i \in Ids : ~InUse(i)}
      PROVE  GoneAreIdle'
  BY <1>a, <1>b, <1>c, <1>0, NextType DEF GoneAreIdle, SessionsInv, SessionsTypeOK
<1>d. ASSUME live' = live, \A i \in Ids : InUse(i)' => InUse(i) \/ i \in live'
      PROVE  GoneAreIdle'
  BY <1>a, <1>d, <1>0, NextType DEF GoneAreIdle, SessionsTypeOK
<1>1. ASSUME NEW t \in Threads, NEW i \in Ids, Inserts(t, i) \/ DisposesKids(t, i)
      PROVE  GoneAreIdle'
  BY <1>1, <1>c DEF Inserts, DisposesKids
<1>2. ASSUME NEW t \in Threads, NEW i \in Ids, Drops(t, i) PROVE GoneAreIdle'
  <2>1. live' = live \ {i} /\ (i \in overrun' \/ ~InUse(i)) /\ UNCHANGED turnVars
    BY <1>2 DEF Drops, Forgets
  <2> QED BY <2>1, <1>c
<1>3. ASSUME NEW t \in Threads, Pops(t) PROVE GoneAreIdle'
  <2>1. /\ live' = live \ victims[t] /\ UNCHANGED turnVars
        /\ overrun' = overrun \cup {i \in victims[t] : InUse(i)}
        /\ live \subseteq Ids
    BY <1>3, <1>0 DEF Pops, Forgets, SessionsTypeOK
  <2> QED BY <2>1, <1>c
<1>4. ASSUME NEW t \in Threads,
             Fits(t) \/ Ranks(t) \/ FindsExpired(t) \/ ReleasesOwn(t) \/ DeletesRows(t)
      PROVE  GoneAreIdle'
  BY <1>4, <1>c DEF Fits, Ranks, FindsExpired, ReleasesOwn, DeletesRows
<1>5. ASSUME NEW i \in Ids, Touches(i) PROVE GoneAreIdle'
  BY <1>5, <1>c DEF Touches, Touched
<1>6. CASE Ages
  BY <1>6, <1>c DEF Ages
<1>7. ASSUME NEW n \in Turns, NEW i \in Ids, Resolves(n, i) PROVE GoneAreIdle'
  <2>1. \A j \in Ids : InUse(j)' => InUse(j) \/ j = i
    BY <1>7, <1>t DEF Resolves, InUse, InFlight
  <2>2. live' = live /\ i \in live
    BY <1>7 DEF Resolves, Touched
  <2> QED BY <2>1, <2>2, <1>d
<1>8. ASSUME NEW n \in Turns,
             TurnStarts(n) \/ FansOut(n) \/ FoldsBack(n) \/ Finalizes(n) \/ Cancelled(n)
      PROVE  GoneAreIdle'
  <2>1. \A j \in Ids : InUse(j)' => InUse(j)
    BY <1>8, <1>t
       DEF TurnStarts, FansOut, FoldsBack, Finalizes, Cancelled, InUse, InFlight
  <2>2. live' = live
    BY <1>8 DEF TurnStarts, FansOut, FoldsBack, Finalizes, Cancelled, managerVars
  <2> QED BY <2>1, <2>2, <1>d
<1>9. ASSUME NEW n \in Turns, NEW k \in Kinds,
             CallsCell(n, k) \/ GetsRuntime(n, k) \/ CellEnds(n, k)
      PROVE  GoneAreIdle'
  <2>1. \A j \in Ids : InUse(j)' => InUse(j)
    <3>1. turn[n] \in {"running", "parallel"} \/ InFlight(n)
      BY <1>9 DEF CallsCell, GetsRuntime, CellEnds, InFlight
    <3>2. \A m \in Turns \ {n} : InFlight(m)' <=> InFlight(m)
      BY <1>9, <1>t DEF CallsCell, GetsRuntime, CellEnds, InFlight
    <3>3. turn' = turn /\ on' = on
      BY <1>9 DEF CallsCell, GetsRuntime, CellEnds
    <3> QED BY <3>1, <3>2, <3>3 DEF InUse
  <2>2. live' = live
    BY <1>9 DEF CallsCell, GetsRuntime, CellEnds, managerVars
  <2> QED BY <2>1, <2>2, <1>d
<1>10. CASE UNCHANGED sessionsVars
  BY <1>10, <1>c DEF sessionsVars, managerVars
<1> QED
  BY <1>1, <1>2, <1>3, <1>4, <1>5, <1>6, <1>7, <1>8, <1>9, <1>10 DEF SessionsNext

-----------------------------------------------------------------------------
\* What one thread disposes of, no other step gives anything to.
LEMMA NextDisposal == SessionsInv /\ [SessionsNext]_sessionsVars => DisposalAgrees'
<1> SUFFICES ASSUME SessionsInv, [SessionsNext]_sessionsVars
             PROVE  DisposalAgrees'
  OBVIOUS
<1>0. SessionsTypeOK /\ LockAgrees /\ DisposedOnce /\ DisposalAgrees /\ Added
  BY OnlyUsersAdd DEF SessionsInv
<1>t. /\ pc \in [Threads -> {"idle", "capping", "evicting", "reaping", "disposing",
                           "releasing", "deleting"}]
      /\ dying \in [Threads -> Ids \cup {None}] /\ victims \in [Threads -> SUBSET Ids]
  BY <1>0 DEF SessionsTypeOK
<1>a. ASSUME NEW u \in Threads, pc[u] \in {"releasing", "deleting"},
             dying[u] \notin overrun'
      PROVE  /\ dying[u] \in victims[u] /\ dying[u] \notin live \cup overrun
             /\ dying[u] \notin kids' /\ <<dying[u], "child">> \notin runtime'
             /\ pc[u] = "deleting" => <<dying[u], "own">> \notin runtime'
  BY <1>a, <1>0 DEF DisposalAgrees, DisposedOnce, Added
<1>b. ASSUME NEW t \in Threads,
             \A u \in Threads \ {t} : /\ pc'[u] = pc[u] /\ dying'[u] = dying[u]
                                      /\ victims'[u] = victims[u],
             pc'[t] \notin {"releasing", "deleting"}
      PROVE  DisposalAgrees'
  BY <1>a, <1>b, <1>0 DEF DisposalAgrees
<1>c. ASSUME UNCHANGED <<pc, victims, dying>> PROVE DisposalAgrees'
  BY <1>a, <1>c, <1>0 DEF DisposalAgrees
<1>1. ASSUME NEW t \in Threads, NEW i \in Ids, Inserts(t, i) \/ Drops(t, i)
      PROVE  DisposalAgrees'
  BY <1>1, <1>t, <1>b DEF Inserts, Drops
<1>2. ASSUME NEW t \in Threads,
             Fits(t) \/ Ranks(t) \/ FindsExpired(t) \/ Pops(t) \/ DeletesRows(t)
      PROVE  DisposalAgrees'
  BY <1>2, <1>t, <1>b DEF Fits, Ranks, FindsExpired, Pops, DeletesRows
<1>3. ASSUME NEW t \in Threads, NEW i \in Ids, DisposesKids(t, i) PROVE DisposalAgrees'
  <2>1. /\ \A u \in Threads \ {t} : /\ pc'[u] = pc[u] /\ dying'[u] = dying[u]
                                     /\ victims'[u] = victims[u]
        /\ pc'[t] = "releasing" /\ dying'[t] = i /\ victims'[t] = victims[t]
    BY <1>3, <1>t DEF DisposesKids
  <2>2. i \in victims[t] /\ i \notin kids'
    BY <1>3 DEF DisposesKids
  <2>3. i \notin overrun' => <<i, "child">> \notin runtime'
    BY <1>3 DEF DisposesKids, SessionsInv, TurnsAgree
  <2> QED BY <2>1, <2>2, <2>3, <1>a, <1>0 DEF DisposalAgrees
<1>4. ASSUME NEW t \in Threads, ReleasesOwn(t) PROVE DisposalAgrees'
  <2>1. /\ \A u \in Threads \ {t} : /\ pc'[u] = pc[u] /\ dying'[u] = dying[u]
                                     /\ victims'[u] = victims[u]
        /\ pc[t] = "releasing" /\ dying'[t] = dying[t] /\ victims'[t] = victims[t]
    BY <1>4, <1>t DEF ReleasesOwn
  <2>2. <<dying[t], "own">> \notin runtime'
    BY <1>4 DEF ReleasesOwn
  <2> QED BY <2>1, <2>2, <1>a, <1>0 DEF DisposalAgrees
<1> QED
  BY <1>1, <1>2, <1>3, <1>4, <1>c, OthersKeepManager DEF SessionsNext

-----------------------------------------------------------------------------
\* What leaves a thread's hands has been disposed of.
LEMMA NextNothing == SessionsInv /\ [SessionsNext]_sessionsVars => NothingLeft'
<1> SUFFICES ASSUME SessionsInv, [SessionsNext]_sessionsVars
             PROVE  NothingLeft'
  OBVIOUS
<1>0. /\ SessionsTypeOK /\ LockAgrees /\ DisposedOnce /\ DisposalAgrees /\ NothingLeft
      /\ Added
  BY OnlyUsersAdd DEF SessionsInv
<1>t. /\ pc \in [Threads -> {"idle", "capping", "evicting", "reaping", "disposing",
                           "releasing", "deleting"}]
      /\ victims \in [Threads -> SUBSET Ids]
  BY <1>0 DEF SessionsTypeOK
<1> SUFFICES ASSUME NEW i \in minted' \ overrun', i \notin live',
                    \A t \in Threads : i \notin victims'[t]
             PROVE  i \notin rows' \cup kids' /\ \A k \in Kinds : <<i, k>> \notin runtime'
  BY DEF NothingLeft
<1>1. i \in minted \ overrun
  BY <1>0 DEF Added
<1>2. CASE i \notin live /\ \A t \in Threads : i \notin victims[t]
  BY <1>1, <1>2, <1>0 DEF NothingLeft, Added
<1>3. CASE i \in live
  <2>1. ASSUME NEW t \in Threads, NEW j \in Ids, Drops(t, j) PROVE FALSE
    BY <2>1, <1>3, <1>t DEF Drops, Forgets
  <2>2. ASSUME NEW t \in Threads, Pops(t) PROVE FALSE
    BY <2>2, <1>3, <1>t DEF Pops, Forgets
  <2>3. ASSUME NEW t \in Threads,
               \/ \E j \in Ids : Inserts(t, j) \/ DisposesKids(t, j)
               \/ Fits(t) \/ Ranks(t) \/ FindsExpired(t) \/ ReleasesOwn(t) \/ DeletesRows(t)
        PROVE  FALSE
    BY <2>3, <1>3 DEF Inserts, DisposesKids, Fits, Ranks, FindsExpired, ReleasesOwn, DeletesRows
  <2> QED BY <2>1, <2>2, <2>3, <1>3, OthersKeepManager DEF SessionsNext
<1>4. ASSUME NEW u \in Threads, i \in victims[u]
      PROVE  i \notin rows' \cup kids' /\ \A k \in Kinds : <<i, k>> \notin runtime'
  <2>1. ASSUME NEW t \in Threads, NEW j \in Ids, Inserts(t, j) \/ Drops(t, j) \/ DisposesKids(t, j)
        PROVE  FALSE
    BY <2>1, <1>4, <1>t, <1>0 DEF Inserts, Drops, DisposesKids, LockAgrees
  <2>2. ASSUME NEW t \in Threads,
               \/ Fits(t) \/ Ranks(t) \/ FindsExpired(t) \/ Pops(t) \/ ReleasesOwn(t)
        PROVE  FALSE
    BY <2>2, <1>4, <1>t, <1>0 DEF Fits, Ranks, FindsExpired, Pops, ReleasesOwn, LockAgrees
  <2>3. ASSUME NEW t \in Threads, DeletesRows(t)
        PROVE  i \notin rows' \cup kids' /\ \A k \in Kinds : <<i, k>> \notin runtime'
    <3>1. i = dying[t] /\ pc[t] = "deleting"
      BY <2>3, <1>4, <1>t DEF DeletesRows
    <3> QED BY <3>1, <2>3, <1>1, <1>0 DEF DeletesRows, DisposalAgrees, Kinds
  <2> QED BY <2>1, <2>2, <2>3, <1>4, OthersKeepManager DEF SessionsNext
<1> QED BY <1>2, <1>3, <1>4

-----------------------------------------------------------------------------
\* The inductive invariant holds for ever.
THEOREM SessionsInvariance == SessionsSpec => []SessionsInv
<1>1. SessionsInv /\ [SessionsNext]_sessionsVars => SessionsInv'
  BY NextType, NextLock, NextDisposal, NextIdle, NextTurns, NextCap, NextNothing DEF SessionsInv
<1> QED BY SessionsInitInv, <1>1, PTL DEF SessionsSpec

\* The manager, what sessions hold and the turns are well typed
\* (core/session.py, Session and SessionManager).
THEOREM SessionsTypeCorrect == SessionsSpec => []SessionsTypeOK
<1>1. SessionsInv => SessionsTypeOK
  BY DEF SessionsInv
<1> QED BY SessionsInvariance, <1>1, PTL

\* However creations, reaps and drops interleave, the cap is exceeded by no
\* more sessions than there are creations that have not evicted yet (create,
\* _enforce_capacity).
THEOREM TheCapHolds == SessionsSpec => []CapHolds
<1>1. SessionsInv => CapHolds
  BY DEF SessionsInv
<1> QED BY SessionsInvariance, <1>1, PTL

\* No two threads dispose of the same session, and none of one that is live
\* (_enforce_capacity, reap_expired, drop).
THEOREM NobodyDisposesTwice == SessionsSpec => []DisposedOnce
<1>1. SessionsInv => DisposedOnce
  BY DEF SessionsInv
<1> QED BY SessionsInvariance, <1>1, PTL

\* Of a session nobody was using when it was popped nothing is left
\* (Session.dispose).
THEOREM DisposalIsComplete == SessionsSpec => []NothingLeft
<1>1. SessionsInv => NothingLeft
  BY DEF SessionsInv
<1> QED BY SessionsInvariance, <1>1, PTL
=============================================================================

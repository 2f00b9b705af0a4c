------------------------ MODULE ConsentBrokerProofs ------------------------
(***************************************************************************)
(* What ConsentBroker promises for every set of keys and requests.         *)
(*                                                                         *)
(* The safety invariants are not inductive.  ApprovalIsTheUsers needs to   *)
(* know that a future set to "yes" was set by the user, and the finality   *)
(* of the verdict needs to know what a call that has not begun, or is      *)
(* still in flight, cannot have yet.  Inv adds those facts.                *)
(***************************************************************************)
EXTENDS ConsentBroker, TLAPS

\* A future holds "yes" only because the user said so.
YesIsTheUsers == \A r \in Requests : future[r] = "yes" => "yes" \in said[r]

\* What each stage of ask() implies of the rest of its state.
StageAgrees ==
    \A r \in Requests :
        /\ stage[r] = "unused" => future[r] = "none" /\ decision[r] = "none"
        /\ stage[r] \in Asking => keyOf[r] \in Keys /\ decision[r] = "none"
        /\ stage[r] = "expiring" => future[r] = "cancelled"
        /\ future[r] = "open" => stage[r] \in Asking

Inv ==
    /\ TypeOK
    /\ ApprovalIsTheUsers
    /\ NothingLeftRegistered
    /\ OpenQuestionIsReachable
    /\ YesIsTheUsers
    /\ StageAgrees

\* The initial states satisfy the inductive invariant.
LEMMA InitInv == Init => Inv
  BY DEF Init, Inv, TypeOK, ApprovalIsTheUsers, NothingLeftRegistered,
         OpenQuestionIsReachable, YesIsTheUsers, StageAgrees, Asking, Stages,
         Decisions, Futures, Answers

\* Every step of the broker preserves it.
LEMMA NextInv == Inv /\ [Next]_brokerVars => Inv'
<1> SUFFICES ASSUME Inv, [Next]_brokerVars
             PROVE  Inv'
  OBVIOUS
<1> USE DEF Inv, TypeOK, ApprovalIsTheUsers, NothingLeftRegistered,
            OpenQuestionIsReachable, YesIsTheUsers, StageAgrees, Asking, Stages,
            Decisions, Futures, Answers
<1>1. ASSUME NEW k \in Keys, NEW r \in Requests, Ask(k, r)
      PROVE  Inv'
  BY <1>1 DEF Ask
<1>2. ASSUME NEW r \in Requests, Emitted(r)
      PROVE  Inv'
  BY <1>2 DEF Emitted
<1>3. ASSUME NEW r \in Requests, Expire(r)
      PROVE  Inv'
  BY <1>3 DEF Expire
<1>4. ASSUME NEW r \in Requests, Return(r)
      PROVE  Inv'
  BY <1>4 DEF Return, Discard
<1>5. ASSUME NEW r \in Requests, GiveUp(r)
      PROVE  Inv'
  BY <1>5 DEF GiveUp
<1>6. ASSUME NEW r \in Requests, TimeOut(r)
      PROVE  Inv'
  BY <1>6 DEF TimeOut, Discard
<1>7. ASSUME NEW r \in Requests, Raise(r)
      PROVE  Inv'
  BY <1>7 DEF Raise, Discard
<1>8. ASSUME NEW r \in Requests, NEW k \in Keys, NEW a \in Answers,
             Resolve(k, r, a)
      PROVE  Inv'
  BY <1>8 DEF Resolve, Resolvable
<1>9. ASSUME NEW k \in Keys, Abandon(k)
      PROVE  Inv'
  BY <1>9 DEF Abandon, Resolvable
<1>10. CASE UNCHANGED brokerVars
  BY <1>10 DEF brokerVars
<1> QED
  BY <1>1, <1>2, <1>3, <1>4, <1>5, <1>6, <1>7, <1>8, <1>9, <1>10 DEF Next

\* Inv holds throughout every behaviour.
THEOREM Invariance == Spec => []Inv
<1>1. Spec => Init /\ [][Next]_brokerVars
  BY DEF Spec
<1> QED
  BY <1>1, InitInv, NextInv, PTL

\* The broker's state stays well typed, for every set of keys and requests.
THEOREM TypeCorrect == Spec => []TypeOK
  BY Invariance, PTL DEF Inv

\* ask() returns an approval only for a request the user said yes to.
THEOREM ApprovalSafe == Spec => []ApprovalIsTheUsers
  BY Invariance, PTL DEF Inv

\* No future of a finished or cancelled ask() stays filed under any key.
THEOREM NoStaleRegistration == Spec => []NothingLeftRegistered
  BY Invariance, PTL DEF Inv

\* An open question of an ask() in flight is never hidden from its key.
THEOREM Reachable == Spec => []OpenQuestionIsReachable
  BY Invariance, PTL DEF Inv

\* A future that has a result, and a decision once returned, never change.
THEOREM Finality == Spec => VerdictIsFinal
<1> DEFINE Final ==
      \A r \in Requests :
          /\ future[r] \in {"yes", "no", "cancelled"} => future'[r] = future[r]
          /\ decision[r] # "none" => decision'[r] = decision[r]
<1>1. ASSUME Inv, Next
      PROVE  Final
  <2> USE Inv DEF Inv, TypeOK, StageAgrees, NothingLeftRegistered, Asking, Answers
  <2>1. ASSUME NEW k \in Keys, NEW r \in Requests, Ask(k, r)
        PROVE  Final
    BY <2>1 DEF Ask
  <2>2. ASSUME NEW r \in Requests, Emitted(r) \/ Expire(r)
        PROVE  Final
    BY <2>2 DEF Emitted, Expire
  <2>3. ASSUME NEW r \in Requests, Return(r) \/ TimeOut(r)
        PROVE  Final
    BY <2>3 DEF Return, TimeOut
  <2>4. ASSUME NEW r \in Requests, GiveUp(r) \/ Raise(r)
        PROVE  Final
    BY <2>4 DEF GiveUp, Raise
  <2>5. ASSUME NEW r \in Requests, NEW k \in Keys, NEW a \in Answers,
               Resolve(k, r, a)
        PROVE  Final
    BY <2>5 DEF Resolve, Resolvable
  <2>6. ASSUME NEW k \in Keys, Abandon(k)
        PROVE  Final
    BY <2>6 DEF Abandon, Resolvable
  <2> QED
    BY <1>1, <2>1, <2>2, <2>3, <2>4, <2>5, <2>6 DEF Next
<1>2. UNCHANGED brokerVars => Final
  BY DEF brokerVars
<1>3. Inv /\ [Next]_brokerVars => [Final]_brokerVars
  BY <1>1, <1>2
<1>4. Spec => [][Next]_brokerVars
  BY DEF Spec
<1> QED
  BY <1>3, <1>4, Invariance, PTL DEF VerdictIsFinal
=============================================================================

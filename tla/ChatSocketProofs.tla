-------------------------- MODULE ChatSocketProofs --------------------------
(***************************************************************************)
(* What ChatSocket promises for every set of sockets, sessions, turns and  *)
(* questions: the handler and the turns implement ConsentBroker, so that   *)
(* what ConsentBrokerProofs proves of the broker holds of every question a *)
(* turn asks; questions match the turns that asked them; and the answer to *)
(* the open question of a live session is heard.                           *)
(*                                                                         *)
(* Inv adds to the two invariants which turn a question, and which session *)
(* and socket a turn, belongs to; that ids are minted once, so a session   *)
(* that is live is still the one its socket is bound to; and the broker's  *)
(* own inductive invariant.                                                *)
(***************************************************************************)
EXTENDS ChatSocket, TLAPS

B == INSTANCE ConsentBrokerProofs

\* Who asked, and where a turn came from.
Belongings ==
    /\ \A r \in Requests : stage[r] = "unused" <=> askedBy[r] = NoTurn
    /\ \A r \in Requests : askedBy[r] # NoTurn => turn[askedBy[r]] # "unused"
    /\ \A r \in Requests : askedBy[r] # NoTurn =>
          keyOf[r] \in {OwnKey(tsess[askedBy[r]]), ChildKey(tsess[askedBy[r]])}
    /\ \A t \in Turns : turn[t] # "unused" => tsess[t] \in minted /\ tsock[t] \in Sockets
    /\ \A k \in Sockets : sock[k] # "new" => bound[k] \in minted
    /\ \A t \in Turns : turn[t] # "unused" => sock[tsock[t]] # "new"

\* Eviction moves a socket to a new session only when its old one is gone for
\* good.
BoundWhileLive ==
    \A t \in Turns : turn[t] # "unused" /\ tsess[t] \in live => bound[tsock[t]] = tsess[t]

Inv ==
    /\ TypeOK
    /\ B!Inv
    /\ Belongings
    /\ QuestionsMatchTurns
    /\ BoundWhileLive

-----------------------------------------------------------------------------
\* The two instances of the broker are one.
LEMMA SameBroker == (Broker!Init <=> B!Init) /\ (Broker!Next <=> B!Next)
  BY DEF Broker!Init, B!Init, Broker!Next, B!Next, Broker!Ask, B!Ask, Broker!Emitted,
         B!Emitted, Broker!Expire, B!Expire, Broker!Return, B!Return, Broker!Discard, B!Discard,
         Broker!GiveUp, B!GiveUp, Broker!TimeOut, B!TimeOut, Broker!Raise, B!Raise,
         Broker!Resolve, B!Resolve, Broker!Resolvable, B!Resolvable, Broker!Abandon, B!Abandon,
         Broker!Answers, B!Answers

\* What ConsentBrokerProofs shows of a step of the broker.
LEMMA BrokerKeepsInv == B!Inv /\ [Broker!Next]_brokerVars => B!Inv'
  BY SameBroker, B!NextInv, SentinelAssumption DEF brokerVars, B!brokerVars, Keys

\* The broker's type invariant, instantiated in ChatSocket and in these proofs.
LEMMA SameTypes == (Broker!TypeOK <=> B!TypeOK) /\ (Broker!TypeOK' <=> B!TypeOK')
  BY DEF Broker!TypeOK, B!TypeOK, Broker!Stages, B!Stages, Broker!Asking, B!Asking,
         Broker!Futures, B!Futures, Broker!Decisions, B!Decisions, Broker!Answers, B!Answers

-----------------------------------------------------------------------------
\* Where the keys the handler uses come from.
LEMMA KeyTypes ==
    /\ \A s \in Sessions : OwnKey(s) \in Keys /\ ChildKey(s) \in Keys
    /\ \A s, u \in Sessions : OwnKey(s) = OwnKey(u) => s = u
    /\ \A s, u \in Sessions : OwnKey(s) # ChildKey(u)
  BY DEF OwnKey, ChildKey, Keys

\* A session is created under an id of its own.
LEMMA CreateEffect ==
    ASSUME TypeOK, NEW s \in Sessions, Create(s)
    PROVE  /\ s \notin minted /\ s \in live'
           /\ live' \subseteq minted' /\ loaded' \subseteq live'
           /\ minted' = minted \cup {s}
           /\ \A x \in live' : x \in live \/ x = s
  BY DEF TypeOK, Create

\* Resolving a frame's session binds its socket to a live session, and never
\* away from one.
LEMMA ResolvedEffect ==
    ASSUME TypeOK, Belongings,
           NEW k \in Sockets, NEW s \in Sessions, sock[k] # "new", Resolved(k, s)
    PROVE  /\ live' \subseteq minted' /\ loaded' \subseteq live'
           /\ minted' \subseteq Sessions /\ minted \subseteq minted'
           /\ s \in live' /\ bound' = [bound EXCEPT ![k] = s]
           /\ \A x \in live' : x \in live \/ x \notin minted
           /\ s # bound[k] => bound[k] \notin live'
<1>1. CASE bound[k] \in live /\ s = bound[k] /\ UNCHANGED <<sessionVars, bound>>
  BY <1>1 DEF TypeOK, sessionVars
<1>2. CASE bound[k] \notin live /\ Create(s) /\ bound' = [bound EXCEPT ![k] = s]
  <2>1. bound[k] \in minted
    BY DEF Belongings
  <2> QED BY <1>2, <2>1, CreateEffect DEF TypeOK
<1> QED
  BY <1>1, <1>2 DEF Resolved

-----------------------------------------------------------------------------
\* Every step is a step of the broker, or leaves it alone.
LEMMA StepIsTheBrokers == Inv /\ [Next]_vars => [Broker!Next]_brokerVars
<1> SUFFICES ASSUME Inv, [Next]_vars
             PROVE  [Broker!Next]_brokerVars
  OBVIOUS
<1> USE DEF Inv
<1>1. ASSUME NEW s \in Sessions, Upload(s) \/ Expel(s) PROVE [Broker!Next]_brokerVars
  BY <1>1 DEF Upload, Expel
<1>2. ASSUME NEW k \in Sockets,
             \/ \E s \in Sessions : Connect(k, s)
             \/ PingFrame(k) \/ CancelDone(k)
             \/ \E t \in Turns : MessageFrame(k, t)
      PROVE  [Broker!Next]_brokerVars
  BY <1>2 DEF Connect, PingFrame, CancelDone, MessageFrame
<1>3. ASSUME NEW k \in Sockets, CancelFrame(k) PROVE [Broker!Next]_brokerVars
  BY <1>3, KeyTypes DEF CancelFrame, Broker!Next
<1>4. ASSUME NEW k \in Sockets, Close(k) PROVE [Broker!Next]_brokerVars
  <2>1. bound[k] \in Sessions
    BY <1>4 DEF Close, Belongings, TypeOK
  <2> QED BY <1>4, <2>1, KeyTypes DEF Close, Broker!Next
<1>5. ASSUME NEW k \in Sockets, NEW r \in Requests, NEW a \in Broker!Answers,
             AnswerFrame(k, r, a)
      PROVE  [Broker!Next]_brokerVars
  BY <1>5, KeyTypes DEF AnswerFrame, Belongings, Broker!Next
<1>6. ASSUME NEW t \in Turns, NEW r \in Requests, AskOwn(t, r) \/ AskChild(t, r)
      PROVE  [Broker!Next]_brokerVars
  <2>1. tsess[t] \in Sessions
    BY <1>6 DEF AskOwn, AskChild, Belongings, TypeOK
  <2> QED BY <1>6, <2>1, KeyTypes DEF AskOwn, AskChild, Broker!Next
<1>7. ASSUME NEW t \in Turns, FanOut(t) \/ Join(t) PROVE [Broker!Next]_brokerVars
  BY <1>7 DEF FanOut, Join
<1>8. ASSUME NEW t \in Turns, TurnCancelled(t) \/ TurnEnds(t) PROVE [Broker!Next]_brokerVars
  <2>1. tsess[t] \in Sessions
    BY <1>8 DEF TurnCancelled, TurnEnds, Belongings, TypeOK
  <2> QED BY <1>8, <2>1, KeyTypes DEF TurnCancelled, TurnEnds, Broker!Next
<1>9. ASSUME NEW r \in Requests,
             \/ CutBranch(r) \/ AskEmitted(r) \/ AskExpires(r) \/ AskGivesUp(r)
             \/ AskReturns(r) \/ AskTimesOut(r) \/ AskRaises(r)
      PROVE  [Broker!Next]_brokerVars
  BY <1>9 DEF CutBranch, AskEmitted, AskExpires, AskGivesUp, AskReturns, AskTimesOut, AskRaises,
              Broker!Next
<1>10. CASE UNCHANGED vars
  BY <1>10 DEF vars
<1> QED
  BY <1>1, <1>2, <1>3, <1>4, <1>5, <1>6, <1>7, <1>8, <1>9, <1>10
     DEF Next, SessionNext, SocketNext, TurnNext, AskNext

-----------------------------------------------------------------------------
\* Every step keeps the type invariant.
LEMMA NextType == Inv /\ [Next]_vars => TypeOK'
<1> SUFFICES ASSUME Inv, [Next]_vars
             PROVE  TypeOK'
  OBVIOUS
<1>1. B!Inv'
  BY StepIsTheBrokers, BrokerKeepsInv DEF Inv
<1>2. Broker!TypeOK'
  BY <1>1, SameTypes DEF B!Inv
<1> USE <1>2 DEF Inv, TypeOK, Active
<1>3. ASSUME NEW s \in Sessions, Upload(s) \/ Expel(s) PROVE TypeOK'
  BY <1>3 DEF Upload, Expel, socketVars, turnVars
<1>4. ASSUME NEW k \in Sockets, NEW s \in Sessions, Connect(k, s) PROVE TypeOK'
  BY <1>4, CreateEffect DEF Connect, turnVars, sessionVars
<1>5. ASSUME NEW k \in Sockets, PingFrame(k) \/ CancelFrame(k) PROVE TypeOK'
  <2>1. PICK s \in Sessions : Resolved(k, s)
    BY <1>5 DEF PingFrame, CancelFrame
  <2>2. /\ live' \subseteq minted' /\ loaded' \subseteq live' /\ minted' \subseteq Sessions
        /\ bound' \in [Sockets -> Sessions \cup {NoSession}]
    BY <1>5, <2>1, ResolvedEffect DEF PingFrame, CancelFrame
  <2> QED BY <1>5, <2>2 DEF PingFrame, CancelFrame, turnVars, Busy
<1>6. ASSUME NEW k \in Sockets, CancelDone(k) \/ Close(k) PROVE TypeOK'
  BY <1>6 DEF CancelDone, Close, sessionVars, turnVars, Busy
<1>7. ASSUME NEW k \in Sockets, NEW r \in Requests, NEW a \in Broker!Answers,
             AnswerFrame(k, r, a)
      PROVE  TypeOK'
  <2>1. PICK s \in Sessions : Resolved(k, s)
    BY <1>7 DEF AnswerFrame
  <2>2. /\ live' \subseteq minted' /\ loaded' \subseteq live' /\ minted' \subseteq Sessions
        /\ bound' \in [Sockets -> Sessions \cup {NoSession}]
    BY <1>7, <2>1, ResolvedEffect DEF AnswerFrame
  <2> QED BY <1>7, <2>2 DEF AnswerFrame, turnVars
<1>8. ASSUME NEW k \in Sockets, NEW t \in Turns, MessageFrame(k, t) PROVE TypeOK'
  <2>1. PICK s \in Sessions :
             /\ Resolved(k, s)
             /\ IF Busy(k) \/ s \notin loaded'
                THEN UNCHANGED <<run, turnVars>>
                ELSE /\ run' = [run EXCEPT ![k] = t]
                     /\ turn' = [turn EXCEPT ![t] = "running"]
                     /\ tsess' = [tsess EXCEPT ![t] = s]
                     /\ tsock' = [tsock EXCEPT ![t] = k]
                     /\ UNCHANGED <<interrupted, fanned, askedBy>>
    BY <1>8 DEF MessageFrame
  <2>2. /\ live' \subseteq minted' /\ loaded' \subseteq live' /\ minted' \subseteq Sessions
        /\ bound' \in [Sockets -> Sessions \cup {NoSession}]
    BY <1>8, <2>1, ResolvedEffect DEF MessageFrame
  <2> QED BY <1>8, <2>1, <2>2 DEF MessageFrame, turnVars
<1>9. ASSUME NEW t \in Turns,
             \/ \E r \in Requests : AskOwn(t, r) \/ AskChild(t, r)
             \/ FanOut(t) \/ Join(t) \/ TurnCancelled(t) \/ TurnEnds(t)
      PROVE  TypeOK'
  BY <1>9 DEF AskOwn, AskChild, FanOut, Join, TurnCancelled, TurnEnds, sessionVars, socketVars
<1>10. ASSUME NEW r \in Requests,
              \/ CutBranch(r) \/ AskEmitted(r) \/ AskExpires(r) \/ AskGivesUp(r)
       PROVE  TypeOK'
  BY <1>10 DEF CutBranch, AskEmitted, AskExpires, AskGivesUp, sessionVars, socketVars, turnVars
<1>11. ASSUME NEW r \in Requests, AskReturns(r) \/ AskTimesOut(r) \/ AskRaises(r)
       PROVE  TypeOK'
  BY <1>11 DEF AskReturns, AskTimesOut, AskRaises, Unpark, sessionVars, socketVars
<1>12. CASE UNCHANGED vars
  BY <1>12 DEF vars, sessionVars, socketVars, turnVars
<1> QED
  BY <1>3, <1>4, <1>5, <1>6, <1>7, <1>8, <1>9, <1>10, <1>11, <1>12
     DEF Next, SessionNext, SocketNext, TurnNext, AskNext

-----------------------------------------------------------------------------
\* What the steps of a question do to it: it stays filed under its key and,
\* once it is over, stays over.
LEMMA AskEffect ==
    ASSUME Inv, NEW r \in Requests,
           \/ Broker!Return(r) \/ Broker!TimeOut(r) \/ Broker!Raise(r)
    PROVE  /\ stage[r] \in Broker!Asking /\ stage'[r] \in {"returned", "raised"}
           /\ keyOf' = keyOf
           /\ \A q \in Requests \ {r} : stage'[q] = stage[q]
  BY DEF Inv, TypeOK, Broker!TypeOK, Broker!Return, Broker!TimeOut, Broker!Raise, Broker!Asking,
         Broker!Answers

\* A step that opens and asks nothing and keeps who belongs to whom.
LEMMA KeepsBelongings ==
    ASSUME Inv, minted \subseteq minted', keyOf' = keyOf, askedBy' = askedBy,
           UNCHANGED <<tsess, tsock>>,
           \A r \in Requests : stage'[r] = "unused" <=> stage[r] = "unused",
           \A t \in Turns : turn'[t] = "unused" <=> turn[t] = "unused",
           \A k \in Sockets : sock[k] # "new" => sock'[k] # "new",
           \A k \in Sockets : sock'[k] # "new" => bound'[k] \in minted'
    PROVE  Belongings'
  BY DEF Inv, Belongings, TypeOK, OwnKey, ChildKey

\* Every step keeps what belongs to whom: run_turn, cancel, close and the broker's steps.
LEMMA NextBelongings == Inv /\ [Next]_vars => Belongings'
<1> SUFFICES ASSUME Inv, [Next]_vars
             PROVE  Belongings'
  OBVIOUS
<1> USE DEF Inv
<1>a. /\ \A k \in Sockets : sock[k] # "new" => bound[k] \in minted
      /\ Broker!TypeOK
  BY DEF Belongings, TypeOK
<1>1. ASSUME NEW s \in Sessions, Upload(s) \/ Expel(s) PROVE Belongings'
  BY <1>1, <1>a, KeepsBelongings DEF Upload, Expel, brokerVars, socketVars, turnVars
<1>2. ASSUME NEW k \in Sockets, NEW s \in Sessions, Connect(k, s) PROVE Belongings'
  <2>1. minted \subseteq minted' /\ s \in minted'
    BY <1>2, CreateEffect DEF Connect, TypeOK, sessionVars
  <2>2. \A j \in Sockets : /\ sock[j] # "new" => sock'[j] # "new"
                           /\ sock'[j] # "new" => bound'[j] \in minted'
    BY <1>2, <2>1, <1>a DEF Connect, TypeOK
  <2> QED BY <1>2, <2>1, <2>2, KeepsBelongings DEF Connect, brokerVars, turnVars
<1>3. ASSUME NEW k \in Sockets, NEW s \in Sessions, sock[k] = "reading", Resolved(k, s),
             \A j \in Sockets : sock'[j] = sock[j] \/ (j = k /\ sock'[j] # "new")
      PROVE  /\ minted \subseteq minted'
             /\ \A j \in Sockets : /\ sock[j] # "new" => sock'[j] # "new"
                                   /\ sock'[j] # "new" => bound'[j] \in minted'
             /\ s \in minted'
  BY <1>3, <1>a, ResolvedEffect DEF TypeOK
<1>4. ASSUME NEW k \in Sockets, PingFrame(k) PROVE Belongings'
  <2>1. PICK s \in Sessions : Resolved(k, s)
    BY <1>4 DEF PingFrame
  <2> QED BY <1>3, <1>4, <2>1, KeepsBelongings DEF PingFrame, brokerVars, turnVars
<1>5. ASSUME NEW k \in Sockets, CancelFrame(k) PROVE Belongings'
  <2>1. PICK s \in Sessions : Resolved(k, s) /\ Broker!Abandon(OwnKey(s))
    BY <1>5 DEF CancelFrame
  <2>2. \A j \in Sockets : sock'[j] = sock[j] \/ (j = k /\ sock'[j] # "new")
    BY <1>5 DEF CancelFrame, TypeOK
  <2>3. UNCHANGED <<stage, keyOf>>
    BY <2>1 DEF Broker!Abandon
  <2> QED BY <1>3, <1>5, <2>1, <2>2, <2>3, KeepsBelongings DEF CancelFrame
<1>6. ASSUME NEW k \in Sockets, CancelDone(k) PROVE Belongings'
  BY <1>6, <1>a, KeepsBelongings DEF CancelDone, brokerVars, sessionVars, turnVars, TypeOK
<1>7. ASSUME NEW k \in Sockets, Close(k) PROVE Belongings'
  BY <1>7, <1>a, KeepsBelongings DEF Close, Broker!Abandon, sessionVars, TypeOK
<1>8. ASSUME NEW k \in Sockets, NEW r \in Requests, NEW a \in Broker!Answers,
             AnswerFrame(k, r, a)
      PROVE  Belongings'
  <2>1. PICK s \in Sessions : Resolved(k, s) /\ Broker!Resolve(OwnKey(s), r, a)
    BY <1>8 DEF AnswerFrame
  <2>2. UNCHANGED <<stage, keyOf>>
    BY <2>1 DEF Broker!Resolve
  <2> QED BY <1>3, <1>8, <2>1, <2>2, KeepsBelongings DEF AnswerFrame, turnVars
<1>9. ASSUME NEW k \in Sockets, NEW t \in Turns, MessageFrame(k, t) PROVE Belongings'
  <2>1. PICK s \in Sessions :
             /\ Resolved(k, s)
             /\ IF Busy(k) \/ s \notin loaded'
                THEN UNCHANGED <<run, turnVars>>
                ELSE /\ run' = [run EXCEPT ![k] = t]
                     /\ turn' = [turn EXCEPT ![t] = "running"]
                     /\ tsess' = [tsess EXCEPT ![t] = s]
                     /\ tsock' = [tsock EXCEPT ![t] = k]
                     /\ UNCHANGED <<interrupted, fanned, askedBy>>
    BY <1>9 DEF MessageFrame
  <2>2. /\ minted \subseteq minted' /\ s \in minted'
        /\ \A j \in Sockets : sock'[j] # "new" => bound'[j] \in minted'
    BY <1>3, <1>9, <2>1 DEF MessageFrame
  <2>3. CASE UNCHANGED turnVars
    BY <1>9, <2>2, <2>3, KeepsBelongings DEF MessageFrame, brokerVars, turnVars
  <2>4. CASE /\ turn' = [turn EXCEPT ![t] = "running"]
             /\ tsess' = [tsess EXCEPT ![t] = s]
             /\ tsock' = [tsock EXCEPT ![t] = k]
             /\ UNCHANGED askedBy
    <3>1. \A r \in Requests : askedBy[r] # t
      BY <1>9, SentinelAssumption DEF MessageFrame, Belongings
    <3>2. UNCHANGED <<stage, keyOf, sock>>
      BY <1>9 DEF MessageFrame, brokerVars
    <3> QED BY <1>9, <2>2, <2>4, <3>1, <3>2 DEF Belongings, TypeOK, MessageFrame, OwnKey, ChildKey
  <2> QED BY <2>1, <2>3, <2>4
<1>10. ASSUME NEW t \in Turns, NEW r \in Requests, AskOwn(t, r) \/ AskChild(t, r)
       PROVE  Belongings'
  <2>1. PICK key \in {OwnKey(tsess[t]), ChildKey(tsess[t])} : Broker!Ask(key, r)
    BY <1>10 DEF AskOwn, AskChild
  <2>2. /\ stage' = [stage EXCEPT ![r] = "emitting"] /\ keyOf' = [keyOf EXCEPT ![r] = key]
        /\ askedBy' = [askedBy EXCEPT ![r] = t]
        /\ \A u \in Turns : turn'[u] = "unused" <=> turn[u] = "unused"
        /\ turn[t] # "unused"
        /\ UNCHANGED <<minted, sock, bound, tsess, tsock>>
    BY <1>10, <2>1 DEF AskOwn, AskChild, Broker!Ask, TypeOK, sessionVars, socketVars
  <2>3. \A q \in Requests : stage'[q] = "unused" <=> askedBy'[q] = NoTurn
    BY <2>2, <1>a, SentinelAssumption DEF Broker!TypeOK, Belongings, TypeOK
  <2>4. \A q \in Requests : askedBy'[q] # NoTurn => turn'[askedBy'[q]] # "unused"
    BY <2>2, <1>a DEF Belongings, TypeOK
  <2>5. \A q \in Requests : askedBy'[q] # NoTurn =>
           keyOf'[q] \in {OwnKey(tsess[askedBy'[q]]), ChildKey(tsess[askedBy'[q]])}
    BY <2>2, <1>a DEF Belongings, TypeOK, Broker!TypeOK
  <2> QED BY <2>2, <2>3, <2>4, <2>5 DEF Belongings, OwnKey, ChildKey
<1>11. ASSUME NEW t \in Turns, FanOut(t) \/ Join(t) PROVE Belongings'
  BY <1>11, <1>a, KeepsBelongings DEF FanOut, Join, brokerVars, sessionVars, socketVars, TypeOK
<1>12. ASSUME NEW t \in Turns, TurnCancelled(t) \/ TurnEnds(t) PROVE Belongings'
  BY <1>12, <1>a, KeepsBelongings
     DEF TurnCancelled, TurnEnds, Broker!Abandon, sessionVars, socketVars, TypeOK
<1>13. ASSUME NEW r \in Requests, AskEmitted(r) \/ AskExpires(r) \/ AskGivesUp(r)
       PROVE  Belongings'
  BY <1>13, <1>a, KeepsBelongings
     DEF AskEmitted, AskExpires, AskGivesUp, Broker!Emitted, Broker!Expire, Broker!GiveUp,
         Broker!TypeOK, sessionVars, socketVars, turnVars
<1>14. ASSUME NEW r \in Requests,
              CutBranch(r) \/ AskReturns(r) \/ AskTimesOut(r) \/ AskRaises(r)
       PROVE  Belongings'
  <2>1. /\ stage[r] # "unused" /\ stage'[r] # "unused" /\ keyOf' = keyOf
        /\ \A q \in Requests \ {r} : stage'[q] = stage[q]
    BY <1>14, AskEffect DEF CutBranch, AskReturns, AskTimesOut, AskRaises, Broker!Asking
  <2>2. \A t \in Turns : turn'[t] = "unused" <=> turn[t] = "unused"
    BY <1>14 DEF CutBranch, AskReturns, AskTimesOut, AskRaises, Unpark, turnVars, TypeOK
  <2> QED BY <1>14, <1>a, <2>1, <2>2, KeepsBelongings
             DEF CutBranch, AskReturns, AskTimesOut, AskRaises, sessionVars, socketVars, turnVars
<1>15. CASE UNCHANGED vars
  BY <1>15, <1>a, KeepsBelongings DEF vars, brokerVars, sessionVars, socketVars, turnVars
<1> QED
  BY <1>1, <1>2, <1>4, <1>5, <1>6, <1>7, <1>8, <1>9, <1>10, <1>11, <1>12, <1>13, <1>14, <1>15
     DEF Next, SessionNext, SocketNext, TurnNext, AskNext

-----------------------------------------------------------------------------
\* A step that begins no question, and leaves a turn that has one waiting.
LEMMA KeepsQuestions ==
    ASSUME Inv, keyOf' = keyOf, askedBy' = askedBy,
           \A t \in Turns : turn[t] # "unused" => tsess'[t] = tsess[t],
           \A r \in Requests : (stage'[r] \in Broker!Asking) <=> (stage[r] \in Broker!Asking),
           \A t \in Turns : turn[t] = "fanout" /\ InFlight(t) # {} => turn'[t] = "fanout",
           \A t \in Turns : turn'[t] = "asking" <=> turn[t] = "asking"
    PROVE  QuestionsMatchTurns'
<1> USE DEF Inv, TypeOK, Broker!TypeOK, Belongings
<1>1. \A t : InFlight(t)' = InFlight(t)
  BY DEF InFlight, Broker!Asking
<1>2. ASSUME NEW r \in Requests, stage'[r] \in Broker!Asking
      PROVE  turn'[askedBy'[r]] \in {"asking", "fanout"}
  <2>1. /\ stage[r] \in Broker!Asking /\ askedBy[r] \in Turns
        /\ turn[askedBy[r]] \in {"asking", "fanout"} /\ r \in InFlight(askedBy[r])
    BY <1>2 DEF QuestionsMatchTurns, InFlight, Broker!Asking
  <2> QED BY <2>1
<1>3. ASSUME NEW t \in Turns, turn'[t] = "asking"
      PROVE  \E r \in Requests : InFlight(t)' = {r} /\ keyOf'[r] = OwnKey(tsess'[t])
  BY <1>1, <1>3 DEF QuestionsMatchTurns
<1> QED
  BY <1>2, <1>3 DEF QuestionsMatchTurns, Broker!Asking, OwnKey

\* A step that ends question r, and wakes its turn if that was parked on it.
LEMMA EndsQuestion ==
    ASSUME Inv, NEW r \in Requests, stage[r] \in Broker!Asking,
           stage'[r] \in {"returned", "raised"},
           \A q \in Requests \ {r} : stage'[q] = stage[q],
           keyOf' = keyOf, askedBy' = askedBy, tsess' = tsess,
           turn' = [turn EXCEPT ![askedBy[r]] = IF @ = "asking" THEN "running" ELSE @]
    PROVE  QuestionsMatchTurns'
<1> USE DEF Inv, TypeOK, Broker!TypeOK, Belongings
<1>1. askedBy[r] \in Turns /\ stage'[r] \notin Broker!Asking
  BY DEF Broker!Asking
<1>2. \A t : InFlight(t)' = InFlight(t) \ {r}
  BY <1>1 DEF InFlight, Broker!Asking
<1>3. turn[askedBy[r]] = "asking" => InFlight(askedBy[r]) = {r}
  BY <1>1 DEF QuestionsMatchTurns, InFlight
<1>4. ASSUME NEW q \in Requests, stage'[q] \in Broker!Asking
      PROVE  turn'[askedBy'[q]] \in {"asking", "fanout"}
  <2>1. q # r /\ stage[q] \in Broker!Asking /\ askedBy[q] \in Turns
    BY <1>1, <1>4 DEF Broker!Asking
  <2>2. turn[askedBy[q]] \in {"asking", "fanout"} /\ q \in InFlight(askedBy[q])
    BY <2>1 DEF QuestionsMatchTurns, InFlight
  <2> QED BY <1>1, <1>3, <2>1, <2>2
<1>5. ASSUME NEW t \in Turns, turn'[t] = "asking"
      PROVE  \E q \in Requests : InFlight(t)' = {q} /\ keyOf'[q] = OwnKey(tsess'[t])
  <2>1. t # askedBy[r] /\ turn[t] = "asking"
    BY <1>1, <1>5
  <2>2. InFlight(t)' = InFlight(t)
    BY <1>2, <2>1 DEF InFlight
  <2> QED BY <2>1, <2>2 DEF QuestionsMatchTurns
<1> QED
  BY <1>4, <1>5 DEF QuestionsMatchTurns, Broker!Asking, OwnKey

\* A running turn has no question in flight.
LEMMA RunningAsksNothing ==
    ASSUME Inv, NEW t \in Turns, turn[t] \notin {"asking", "fanout"}
    PROVE  InFlight(t) = {}
  BY DEF Inv, QuestionsMatchTurns, InFlight

\* Every step keeps questions with the turns that asked them.
LEMMA NextQuestions == Inv /\ [Next]_vars => QuestionsMatchTurns'
<1> SUFFICES ASSUME Inv, [Next]_vars
             PROVE  QuestionsMatchTurns'
  OBVIOUS
<1>a. TypeOK /\ Broker!TypeOK
  BY DEF Inv, TypeOK
<1>1. CASE SessionNext \/ UNCHANGED vars
  <2>1. UNCHANGED <<brokerVars, turnVars>>
    BY <1>1 DEF SessionNext, Upload, Expel, vars
  <2> QED BY <2>1, KeepsQuestions DEF brokerVars, turnVars
<1>2. ASSUME NEW k \in Sockets,
             \/ \E s \in Sessions : Connect(k, s)
             \/ PingFrame(k) \/ CancelDone(k)
      PROVE  QuestionsMatchTurns'
  <2>1. UNCHANGED <<brokerVars, turnVars>>
    BY <1>2 DEF Connect, PingFrame, CancelDone
  <2> QED BY <2>1, KeepsQuestions DEF brokerVars, turnVars
<1>3. ASSUME NEW k \in Sockets, CancelFrame(k) \/ Close(k) PROVE QuestionsMatchTurns'
  BY <1>3, KeepsQuestions DEF CancelFrame, Close, Broker!Abandon
<1>4. ASSUME NEW k \in Sockets, NEW r \in Requests, NEW a \in Broker!Answers,
             AnswerFrame(k, r, a)
      PROVE  QuestionsMatchTurns'
  BY <1>4, KeepsQuestions DEF AnswerFrame, Broker!Resolve, turnVars
<1>5. ASSUME NEW k \in Sockets, NEW t \in Turns, MessageFrame(k, t) PROVE QuestionsMatchTurns'
  <2>1. /\ turn[t] = "unused" /\ UNCHANGED <<brokerVars, askedBy>>
        /\ turn' \in {turn, [turn EXCEPT ![t] = "running"]}
        /\ \A u \in Turns \ {t} : tsess'[u] = tsess[u]
    BY <1>5, <1>a DEF MessageFrame, TypeOK, turnVars
  <2>2. \A u \in Turns : turn[u] # "unused" => u # t /\ turn'[u] = turn[u] /\ tsess'[u] = tsess[u]
    BY <2>1, <1>a DEF TypeOK
  <2>3. \A u \in Turns : turn[u] = "unused" => turn'[u] # "asking"
    BY <2>1, <1>a DEF TypeOK
  <2> QED BY <2>1, <2>2, <2>3, KeepsQuestions DEF brokerVars
<1>6. ASSUME NEW t \in Turns, NEW r \in Requests, AskOwn(t, r) PROVE QuestionsMatchTurns'
  <2>1. /\ stage[r] = "unused" /\ stage' = [stage EXCEPT ![r] = "emitting"]
        /\ keyOf' = [keyOf EXCEPT ![r] = OwnKey(tsess[t])]
        /\ askedBy' = [askedBy EXCEPT ![r] = t]
        /\ turn[t] = "running" /\ turn' = [turn EXCEPT ![t] = "asking"] /\ tsess' = tsess
    BY <1>6 DEF AskOwn, Broker!Ask
  <2>2. InFlight(t) = {} /\ InFlight(t)' = {r}
    BY <2>1, <1>a, RunningAsksNothing
       DEF InFlight, Broker!Asking, TypeOK, Broker!TypeOK
  <2>3. \A u \in Turns \ {t} : InFlight(u)' = InFlight(u) /\ turn'[u] = turn[u]
    BY <2>1, <1>a DEF InFlight, Broker!Asking, TypeOK, Broker!TypeOK
  <2>4. \A q \in Requests : stage'[q] \in Broker!Asking =>
                               turn'[askedBy'[q]] \in {"asking", "fanout"}
    BY <2>1, <1>a DEF Inv, QuestionsMatchTurns, Belongings, TypeOK, Broker!TypeOK, Broker!Asking
  <2>5. \A u \in Turns \ {t} : turn'[u] = "asking" =>
           \E q \in Requests : InFlight(u)' = {q} /\ keyOf'[q] = OwnKey(tsess'[u])
    <3> SUFFICES ASSUME NEW u \in Turns \ {t}, turn'[u] = "asking"
                 PROVE  \E q \in Requests : InFlight(u)' = {q} /\ keyOf'[q] = OwnKey(tsess'[u])
      OBVIOUS
    <3>1. PICK q \in Requests : InFlight(u) = {q} /\ keyOf[q] = OwnKey(tsess[u])
      BY <2>3 DEF Inv, QuestionsMatchTurns
    <3>2. q # r
      BY <2>1, <3>1 DEF InFlight, Broker!Asking
    <3> QED BY <2>1, <2>3, <3>1, <3>2, <1>a DEF Broker!TypeOK
  <2>6. turn'[t] = "asking" /\ keyOf'[r] = OwnKey(tsess'[t])
    BY <2>1, <1>a DEF TypeOK, Broker!TypeOK
  <2> QED BY <2>2, <2>4, <2>5, <2>6 DEF QuestionsMatchTurns, Broker!Asking, OwnKey
<1>7. ASSUME NEW t \in Turns, NEW r \in Requests, AskChild(t, r) PROVE QuestionsMatchTurns'
  <2>1. /\ stage[r] = "unused" /\ stage' = [stage EXCEPT ![r] = "emitting"]
        /\ keyOf' = [keyOf EXCEPT ![r] = ChildKey(tsess[t])]
        /\ askedBy' = [askedBy EXCEPT ![r] = t]
        /\ turn[t] = "fanout" /\ turn' = turn /\ tsess' = tsess
    BY <1>7 DEF AskChild, Broker!Ask
  <2>2. \A u \in Turns \ {t} : InFlight(u)' = InFlight(u)
    BY <2>1, <1>a DEF InFlight, Broker!Asking, TypeOK, Broker!TypeOK
  <2>3. \A q \in Requests : stage'[q] \in Broker!Asking =>
                               turn'[askedBy'[q]] \in {"asking", "fanout"}
    BY <2>1, <1>a DEF Inv, QuestionsMatchTurns, Belongings, TypeOK, Broker!TypeOK, Broker!Asking
  <2>4. \A u \in Turns : turn'[u] = "asking" =>
           \E q \in Requests : InFlight(u)' = {q} /\ keyOf'[q] = OwnKey(tsess'[u])
    <3> SUFFICES ASSUME NEW u \in Turns, turn'[u] = "asking"
                 PROVE  \E q \in Requests : InFlight(u)' = {q} /\ keyOf'[q] = OwnKey(tsess'[u])
      OBVIOUS
    <3>1. PICK q \in Requests : InFlight(u) = {q} /\ keyOf[q] = OwnKey(tsess[u])
      BY <2>1 DEF Inv, QuestionsMatchTurns
    <3>2. q # r /\ u # t
      BY <2>1, <3>1 DEF InFlight, Broker!Asking
    <3> QED BY <2>1, <2>2, <3>1, <3>2, <1>a DEF Broker!TypeOK
  <2> QED BY <2>3, <2>4 DEF QuestionsMatchTurns, Broker!Asking, OwnKey
<1>8. ASSUME NEW t \in Turns, FanOut(t) \/ Join(t) PROVE QuestionsMatchTurns'
  BY <1>8, <1>a, KeepsQuestions DEF FanOut, Join, brokerVars, TypeOK
<1>9. ASSUME NEW t \in Turns, TurnCancelled(t) \/ TurnEnds(t) PROVE QuestionsMatchTurns'
  BY <1>9, <1>a, KeepsQuestions DEF TurnCancelled, TurnEnds, Broker!Abandon, TypeOK
<1>10. ASSUME NEW r \in Requests, AskEmitted(r) \/ AskExpires(r) \/ AskGivesUp(r)
       PROVE  QuestionsMatchTurns'
  <2>1. /\ keyOf' = keyOf /\ UNCHANGED turnVars
        /\ \A q \in Requests : (stage'[q] \in Broker!Asking) <=> (stage[q] \in Broker!Asking)
    BY <1>10, <1>a DEF AskEmitted, AskExpires, AskGivesUp, Broker!Emitted, Broker!Expire,
                       Broker!GiveUp, Broker!Asking, Broker!TypeOK
  <2> QED BY <2>1, KeepsQuestions DEF turnVars
<1>11. ASSUME NEW r \in Requests,
              CutBranch(r) \/ AskReturns(r) \/ AskTimesOut(r) \/ AskRaises(r)
       PROVE  QuestionsMatchTurns'
  <2>1. Broker!Return(r) \/ Broker!TimeOut(r) \/ Broker!Raise(r)
    BY <1>11 DEF CutBranch, AskReturns, AskTimesOut, AskRaises
  <2>2. /\ askedBy' = askedBy /\ tsess' = tsess
        /\ turn' = [turn EXCEPT ![askedBy[r]] = IF @ = "asking" THEN "running" ELSE @]
    BY <1>11, <1>a DEF CutBranch, AskReturns, AskTimesOut, AskRaises, Unpark, turnVars, TypeOK
  <2> QED BY <2>1, <2>2, AskEffect, EndsQuestion
<1> QED
  BY <1>1, <1>2, <1>3, <1>4, <1>5, <1>6, <1>7, <1>8, <1>9, <1>10, <1>11
     DEF Next, SocketNext, TurnNext, AskNext

-----------------------------------------------------------------------------
\* A step that starts no turn and moves no socket away from a live session.
LEMMA KeepsBound ==
    ASSUME Inv, UNCHANGED <<tsess, tsock>>,
           \A t \in Turns : turn'[t] # "unused" => turn[t] # "unused",
           \A x \in live' : x \in live \/ x \notin minted,
           \A k \in Sockets : sock[k] # "new" => bound'[k] = bound[k] \/ bound[k] \notin live'
    PROVE  BoundWhileLive'
  BY DEF Inv, Belongings, BoundWhileLive, TypeOK

\* Every step keeps a live session the one its socket is bound to.
LEMMA NextBound == Inv /\ [Next]_vars => BoundWhileLive'
<1> SUFFICES ASSUME Inv, [Next]_vars
             PROVE  BoundWhileLive'
  OBVIOUS
<1>a. TypeOK /\ Belongings
  BY DEF Inv
<1>1. ASSUME NEW s \in Sessions, Upload(s) \/ Expel(s) PROVE BoundWhileLive'
  BY <1>1, KeepsBound DEF Upload, Expel, socketVars, turnVars
<1>2. ASSUME NEW k \in Sockets, NEW s \in Sessions, Connect(k, s) PROVE BoundWhileLive'
  <2>1. \A x \in live' : x \in live \/ x \notin minted
    BY <1>2, <1>a, CreateEffect DEF Connect, sessionVars
  <2> QED BY <1>2, <1>a, <2>1, KeepsBound DEF Connect, turnVars, TypeOK
<1>3. ASSUME NEW k \in Sockets, NEW s \in Sessions, sock[k] = "reading", Resolved(k, s)
      PROVE  /\ \A x \in live' : x \in live \/ x \notin minted
             /\ \A j \in Sockets : bound'[j] = bound[j] \/ bound[j] \notin live'
  BY <1>3, <1>a, ResolvedEffect DEF TypeOK
<1>4. ASSUME NEW k \in Sockets,
             \/ PingFrame(k) \/ CancelFrame(k)
             \/ \E r \in Requests, a \in Broker!Answers : AnswerFrame(k, r, a)
      PROVE  BoundWhileLive'
  <2>1. PICK s \in Sessions : Resolved(k, s)
    BY <1>4 DEF PingFrame, CancelFrame, AnswerFrame
  <2> QED BY <1>3, <1>4, <2>1, KeepsBound DEF PingFrame, CancelFrame, AnswerFrame, turnVars
<1>5. ASSUME NEW k \in Sockets, CancelDone(k) \/ Close(k) PROVE BoundWhileLive'
  BY <1>5, KeepsBound DEF CancelDone, Close, sessionVars, turnVars
<1>6. ASSUME NEW k \in Sockets, NEW t \in Turns, MessageFrame(k, t) PROVE BoundWhileLive'
  <2>1. PICK s \in Sessions :
             /\ Resolved(k, s)
             /\ IF Busy(k) \/ s \notin loaded'
                THEN UNCHANGED <<run, turnVars>>
                ELSE /\ run' = [run EXCEPT ![k] = t]
                     /\ turn' = [turn EXCEPT ![t] = "running"]
                     /\ tsess' = [tsess EXCEPT ![t] = s]
                     /\ tsock' = [tsock EXCEPT ![t] = k]
                     /\ UNCHANGED <<interrupted, fanned, askedBy>>
    BY <1>6 DEF MessageFrame
  <2>2. CASE UNCHANGED turnVars
    BY <1>3, <1>6, <2>1, <2>2, KeepsBound DEF MessageFrame, turnVars
  <2>3. CASE /\ turn' = [turn EXCEPT ![t] = "running"]
             /\ tsess' = [tsess EXCEPT ![t] = s]
             /\ tsock' = [tsock EXCEPT ![t] = k]
    <3>1. bound'[k] = s
      BY <1>6, <2>1, <1>a, ResolvedEffect DEF MessageFrame, TypeOK
    <3>2. \A u \in Turns \ {t} : turn'[u] = turn[u] /\ tsess'[u] = tsess[u] /\ tsock'[u] = tsock[u]
      BY <2>3, <1>a DEF TypeOK
    <3>3. tsess'[t] = s /\ tsock'[t] = k
      BY <2>3, <1>a DEF TypeOK
    <3>4. \A u \in Turns \ {t} : turn[u] # "unused" /\ tsess[u] \in live' =>
             bound'[tsock[u]] = tsess[u]
      BY <1>3, <1>6, <2>1, <1>a DEF MessageFrame, Inv, BoundWhileLive, Belongings
    <3> QED BY <3>1, <3>2, <3>3, <3>4 DEF BoundWhileLive
  <2> QED BY <2>1, <2>2, <2>3
<1>7. ASSUME NEW t \in Turns,
             \/ \E r \in Requests : AskOwn(t, r) \/ AskChild(t, r)
             \/ FanOut(t) \/ Join(t) \/ TurnCancelled(t) \/ TurnEnds(t)
      PROVE  BoundWhileLive'
  BY <1>7, <1>a, KeepsBound
     DEF AskOwn, AskChild, FanOut, Join, TurnCancelled, TurnEnds, sessionVars, socketVars, TypeOK
<1>8. ASSUME NEW r \in Requests,
             \/ CutBranch(r) \/ AskEmitted(r) \/ AskExpires(r) \/ AskGivesUp(r)
             \/ AskReturns(r) \/ AskTimesOut(r) \/ AskRaises(r)
      PROVE  BoundWhileLive'
  BY <1>8, <1>a, KeepsBound
     DEF CutBranch, AskEmitted, AskExpires, AskGivesUp, AskReturns, AskTimesOut, AskRaises, Unpark,
         sessionVars, socketVars, turnVars, TypeOK
<1>9. CASE UNCHANGED vars
  BY <1>9, KeepsBound DEF vars, sessionVars, socketVars, turnVars
<1> QED
  BY <1>1, <1>2, <1>4, <1>5, <1>6, <1>7, <1>8, <1>9
     DEF Next, SessionNext, SocketNext, TurnNext, AskNext

-----------------------------------------------------------------------------
\* The initial states satisfy the inductive invariant.
LEMMA InitInv == Init => Inv
<1> SUFFICES ASSUME Init PROVE Inv
  OBVIOUS
<1>1. B!Inv
  BY SameBroker, B!InitInv, SentinelAssumption DEF Init, Keys
<1>2. Broker!TypeOK
  BY <1>1, SameTypes DEF B!Inv
<1>3. TypeOK
  BY <1>2 DEF Init, TypeOK
<1>4. Belongings /\ QuestionsMatchTurns /\ BoundWhileLive
  BY DEF Init, Broker!Init, Belongings, QuestionsMatchTurns, BoundWhileLive, Broker!Asking
<1> QED
  BY <1>1, <1>3, <1>4 DEF Inv

\* Every step keeps the inductive invariant.
LEMMA NextInv == Inv /\ [Next]_vars => Inv'
<1> SUFFICES ASSUME Inv, [Next]_vars PROVE Inv'
  OBVIOUS
<1>1. B!Inv'
  BY StepIsTheBrokers, BrokerKeepsInv DEF Inv
<1> QED
  BY <1>1, NextType, NextBelongings, NextQuestions, NextBound DEF Inv

\* The specification without its fairness.
LEMMA Steps == Spec => Init /\ [][Next]_vars
  BY DEF Spec

\* The inductive invariant holds throughout every behaviour.
THEOREM Invariance == Spec => []Inv
  BY InitInv, NextInv, Steps, PTL

\* The state of sockets, sessions and turns stays well typed.
THEOREM TypeCorrect == Spec => []TypeOK
  BY Invariance, PTL DEF Inv

\* No question outlives the turn that asked it, and a parked turn is parked on
\* the one question it asked.
THEOREM QuestionsMatch == Spec => []QuestionsMatchTurns
  BY Invariance, PTL DEF Inv

\* Every behaviour of the handler and its turns is one of the broker.
THEOREM SocketImplementsBroker == Spec => ImplementsBroker
<1>1. Init => Broker!Init
  BY DEF Init
<1> QED
  BY <1>1, StepIsTheBrokers, Invariance, Steps, PTL DEF ImplementsBroker

\* A turn goes ahead with what it asked only if the user said yes to it.
THEOREM TurnsAreConsented == Spec => []Broker!ApprovalIsTheUsers
<1>1. Inv => Broker!ApprovalIsTheUsers
  BY DEF Inv, B!Inv, B!ApprovalIsTheUsers, Broker!ApprovalIsTheUsers
<1> QED
  BY <1>1, Invariance, PTL

\* The answer to the open question of a turn whose session is live settles it.
THEOREM OwnAnswersAreHeard == Spec => OwnAnswerIsHeard
<1> DEFINE Heard ==
      \A r \in Requests :
          /\ said'[r] # said[r]
          /\ future[r] = "open"
          /\ \E s \in live : keyOf[r] = OwnKey(s)
          => future'[r] \in Broker!Answers
<1>1. ASSUME Inv, [Next]_vars PROVE Heard
  <2> SUFFICES ASSUME NEW r \in Requests, NEW s0 \in live,
                      said'[r] # said[r], future[r] = "open", keyOf[r] = OwnKey(s0)
               PROVE  future'[r] \in Broker!Answers
    OBVIOUS
  <2>1. /\ stage[r] \in Broker!Asking
        /\ r \in pending[keyOf[r]]
        /\ keyOf[r] \in Keys
    BY <1>1 DEF Inv, B!Inv, B!StageAgrees, B!OpenQuestionIsReachable, B!Asking, Broker!Asking
  \* The question is of a turn whose session is s0, and whose socket is bound to it.
  <2>2. /\ askedBy[r] \in Turns /\ tsess[askedBy[r]] = s0
        /\ bound[tsock[askedBy[r]]] = s0
    <3>1. askedBy[r] \in Turns /\ turn[askedBy[r]] # "unused"
      BY <1>1, <2>1 DEF Inv, Belongings, TypeOK, Broker!Asking
    <3>2. tsess[askedBy[r]] \in Sessions /\ s0 \in Sessions
      BY <1>1, <3>1 DEF Inv, Belongings, TypeOK
    <3>3. tsess[askedBy[r]] = s0
      BY <1>1, <3>1, <3>2, KeyTypes, SentinelAssumption DEF Inv, Belongings
    <3> QED BY <1>1, <3>1, <3>3 DEF Inv, BoundWhileLive
  <2>3. PICK k \in Sockets, q \in Requests, a \in Broker!Answers : AnswerFrame(k, q, a)
    <3>1. said' # said
      OBVIOUS
    <3> QED BY <1>1, <3>1
       DEF Next, SessionNext, SocketNext, TurnNext, AskNext, Upload, Expel, Connect, PingFrame,
           CancelFrame, CancelDone, MessageFrame, Close, AskOwn, AskChild, FanOut, Join,
           TurnCancelled, TurnEnds, CutBranch, AskEmitted, AskExpires, AskGivesUp, AskReturns,
           AskTimesOut, AskRaises, Broker!Abandon, Broker!Ask, Broker!Emitted, Broker!Expire,
           Broker!GiveUp, Broker!Return, Broker!TimeOut, Broker!Raise, brokerVars, vars
  <2>4. PICK s \in Sessions : Resolved(k, s) /\ Broker!Resolve(OwnKey(s), q, a)
    BY <2>3 DEF AnswerFrame
  <2>5. q = r
    BY <1>1, <2>4 DEF Broker!Resolve, Inv, TypeOK, Broker!TypeOK
  <2>6. s = s0
    BY <2>2, <2>3, <2>4, <2>5 DEF AnswerFrame, Resolved
  <2> QED BY <1>1, <2>1, <2>4, <2>5, <2>6
            DEF Broker!Resolve, Broker!Resolvable, Inv, TypeOK, Broker!TypeOK
<1>2. Inv /\ [Next]_vars => [Heard]_vars
  BY <1>1
<1> QED
  BY <1>2, Invariance, Steps, PTL DEF OwnAnswerIsHeard
=============================================================================

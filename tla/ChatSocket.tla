----------------------------- MODULE ChatSocket -----------------------------
(***************************************************************************)
(* api/routes/chat.py: the WebSocket handler, the turns it starts, and the *)
(* consent questions those turns put to the user through ConsentBroker.    *)
(*                                                                         *)
(* A socket is one /ws/chat connection.  Its receive loop reads one frame  *)
(* at a time and never awaits the turn it started, so frames and turns     *)
(* interleave at every await.  A frame first re-resolves the socket's      *)
(* session: if SessionManager evicted or reaped it the socket moves to a   *)
(* new one, while the turn it started stays with the old one.              *)
(*                                                                         *)
(* A turn is orchestrator.run reduced to what the socket can notice: it    *)
(* runs, it may park on a consent question of its own (_permit), it may    *)
(* fan out into subagents that park on theirs, and it ends or is           *)
(* cancelled.  The REST endpoint runs turns too, but they cannot ask.      *)
(***************************************************************************)
EXTENDS Naturals, FiniteSets

CONSTANTS
    Sockets,   \* the WebSocket connections, each opened once
    Sessions,  \* the session ids that may be minted
    Turns,     \* the turns that may be started
    Requests,  \* the consent questions that may be asked
    MaxLive,   \* SESSION_MAX_ACTIVE
    NoKey, NoTurn, NoSocket, NoSession

ASSUME SentinelAssumption ==
    /\ NoTurn \notin Turns
    /\ NoSocket \notin Sockets
    /\ NoSession \notin Sessions
    /\ NoKey \notin Sessions \X {"own", "child"}

ASSUME MaxLiveAssumption == MaxLive \in Nat \ {0}

VARIABLES
    pending, stage, keyOf, future, expired, decision, said, \* the broker
    live,        \* SessionManager._sessions
    loaded,      \* sessions that have a dataset
    minted,      \* session ids handed out so far
    sock,        \* where each receive loop is
    bound,       \* the `session` variable of each socket
    run,         \* the `current_run` variable of each socket
    turn,        \* where each turn is
    tsess,       \* run_session: the session a turn was started on
    tsock,       \* the socket whose emitter a turn writes to
    interrupted, \* turns with a task.cancel() not yet delivered
    fanned,      \* turns that have used their fan-out
    askedBy      \* the turn whose _permit asked a request

brokerVars == <<pending, stage, keyOf, future, expired, decision, said>>
sessionVars == <<live, loaded, minted>>
socketVars == <<sock, bound, run>>
turnVars == <<turn, tsess, tsock, interrupted, fanned, askedBy>>
vars == <<brokerVars, sessionVars, socketVars, turnVars>>

\* A question is filed under the session's own id, or under the composite id
\* of a subagent of that session.
OwnKey(s) == <<s, "own">>
ChildKey(s) == <<s, "child">>
Keys == Sessions \X {"own", "child"}

Broker == INSTANCE ConsentBroker

Active == {"running", "asking", "fanout"}

\* current_run and not current_run.done()
Busy(k) == run[k] # NoTurn /\ turn[run[k]] \in Active

\* The questions of turn t whose ask() is still in flight.
InFlight(t) == {r \in Requests : askedBy[r] = t /\ stage[r] \in Broker!Asking}

Init ==
    /\ Broker!Init
    /\ live = {} /\ loaded = {} /\ minted = {}
    /\ sock = [k \in Sockets |-> "new"]
    /\ bound = [k \in Sockets |-> NoSession]
    /\ run = [k \in Sockets |-> NoTurn]
    /\ turn = [t \in Turns |-> "unused"]
    /\ tsess = [t \in Turns |-> NoSession]
    /\ tsock = [t \in Turns |-> NoSocket]
    /\ interrupted = {} /\ fanned = {}
    /\ askedBy = [r \in Requests |-> NoTurn]

(***************************************************************************)
(* Sessions, as far as the sockets see them.                               *)
(***************************************************************************)

\* How many sessions create() must evict to make room for one more.
Overflow == IF Cardinality(live) < MaxLive THEN 0
            ELSE Cardinality(live) + 1 - MaxLive

\* SessionManager.create: mint an id, insert, evict down to the cap, dispose
\* of the evicted (which clears their datasets).  Which session is the least
\* recently seen is not modelled here: any but the new one may be it.
Create(s) ==
    /\ s \notin minted
    /\ minted' = minted \cup {s}
    /\ \E evicted \in {e \in SUBSET live : Cardinality(e) = Overflow} :
          /\ live' = (live \ evicted) \cup {s}
          /\ loaded' = loaded \ evicted

\* The session a frame on socket k is about, after resolve_session.
Resolved(k, s) ==
    \/ bound[k] \in live /\ s = bound[k] /\ UNCHANGED <<sessionVars, bound>>
    \/ /\ bound[k] \notin live
       /\ Create(s)
       /\ bound' = [bound EXCEPT ![k] = s]

\* POST /api/datasets on a live session.
Upload(s) ==
    /\ s \in live \ loaded
    /\ loaded' = loaded \cup {s}
    /\ UNCHANGED <<brokerVars, live, minted, socketVars, turnVars>>

\* The session goes: reaped, evicted for another client, or deleted.
Expel(s) ==
    /\ s \in live
    /\ live' = live \ {s}
    /\ loaded' = loaded \ {s}
    /\ UNCHANGED <<brokerVars, minted, socketVars, turnVars>>

(***************************************************************************)
(* The receive loop of websocket_chat.                                     *)
(***************************************************************************)

\* Connect: get_or_create on the id the client presents.
Connect(k, s) ==
    /\ sock[k] = "new"
    /\ \/ s \in live /\ UNCHANGED sessionVars
       \/ Create(s)
    /\ sock' = [sock EXCEPT ![k] = "reading"]
    /\ bound' = [bound EXCEPT ![k] = s]
    /\ UNCHANGED <<brokerVars, run, turnVars>>

\* A ping, or a blank frame: nothing but the session is re-resolved.
PingFrame(k) ==
    /\ sock[k] = "reading"
    /\ \E s \in Sessions : Resolved(k, s)
    /\ UNCHANGED <<brokerVars, sock, run, turnVars>>

\* cancel, down to the await of the interrupt: release the questions of the
\* socket's session, then cancel the socket's turn.
CancelFrame(k) ==
    /\ sock[k] = "reading"
    /\ \E s \in Sessions : Resolved(k, s) /\ Broker!Abandon(OwnKey(s))
    /\ interrupted' = interrupted \cup (IF Busy(k) THEN {run[k]} ELSE {})
    /\ sock' = [sock EXCEPT ![k] = "interrupting"]
    /\ UNCHANGED <<run, turn, tsess, tsock, fanned, askedBy>>

\* executor.interrupt has returned and "Cancelled" is sent.
CancelDone(k) ==
    /\ sock[k] = "interrupting"
    /\ sock' = [sock EXCEPT ![k] = "reading"]
    /\ UNCHANGED <<brokerVars, sessionVars, bound, run, turnVars>>

\* Mutant of AnswerFrame: handled after the busy check instead of before it.
AnswerWhenIdle(k, r, a) ==
    /\ sock[k] = "reading"
    /\ askedBy[r] # NoTurn
    /\ tsock[askedBy[r]] = k
    /\ \E s \in Sessions :
          /\ Resolved(k, s)
          /\ IF Busy(k)
             THEN /\ said' = [said EXCEPT ![r] = @ \cup {a}]
                  /\ UNCHANGED <<pending, stage, keyOf, future, expired, decision>>
             ELSE Broker!Resolve(OwnKey(s), r, a)
    /\ UNCHANGED <<sock, run, turnVars>>

\* An approval frame with an id: it goes to the broker and starts nothing.
\* The id was shown to this client only, in the APPROVAL_REQUIRED frame.
AnswerFrame(k, r, a) ==
    /\ sock[k] = "reading"
    /\ askedBy[r] # NoTurn
    /\ tsock[askedBy[r]] = k
    /\ \E s \in Sessions : Resolved(k, s) /\ Broker!Resolve(OwnKey(s), r, a)
    /\ UNCHANGED <<sock, run, turnVars>>

\* A message (or an approved plan): rejected while this socket's turn runs,
\* rejected without a dataset, otherwise it starts turn t.
MessageFrame(k, t) ==
    /\ sock[k] = "reading"
    /\ turn[t] = "unused"
    /\ \E s \in Sessions :
          /\ Resolved(k, s)
          /\ IF Busy(k) \/ s \notin loaded'
             THEN UNCHANGED <<run, turnVars>>
             ELSE /\ run' = [run EXCEPT ![k] = t]
                  /\ turn' = [turn EXCEPT ![t] = "running"]
                  /\ tsess' = [tsess EXCEPT ![t] = s]
                  /\ tsock' = [tsock EXCEPT ![t] = k]
                  /\ UNCHANGED <<interrupted, fanned, askedBy>>
    /\ UNCHANGED <<brokerVars, sock>>

\* The client is gone, or the handler failed: the finally of the handler. It
\* uses the session as it last resolved it.
Close(k) ==
    /\ sock[k] = "reading"
    /\ Broker!Abandon(OwnKey(bound[k]))
    /\ interrupted' = interrupted \cup (IF Busy(k) THEN {run[k]} ELSE {})
    /\ sock' = [sock EXCEPT ![k] = "closed"]
    /\ UNCHANGED <<sessionVars, bound, run, turn, tsess, tsock, fanned, askedBy>>

(***************************************************************************)
(* The turns.  A turn with a cancellation to deliver takes no other step:  *)
(* task.cancel() makes its next resumption raise, except where asyncio's   *)
(* wait_for swallows it (AskReturns).                                      *)
(***************************************************************************)
Resumes(t) == t \notin interrupted

\* _permit on the turn's own session: the turn parks.
AskOwn(t, r) ==
    /\ turn[t] = "running" /\ Resumes(t)
    /\ Broker!Ask(OwnKey(tsess[t]), r)
    /\ askedBy' = [askedBy EXCEPT ![r] = t]
    /\ turn' = [turn EXCEPT ![t] = "asking"]
    /\ UNCHANGED <<sessionVars, socketVars, tsess, tsock, interrupted, fanned>>

\* _act_parallel: at most once a turn here, which bounds the model.
FanOut(t) ==
    /\ turn[t] = "running" /\ Resumes(t)
    /\ t \notin fanned
    /\ fanned' = fanned \cup {t}
    /\ turn' = [turn EXCEPT ![t] = "fanout"]
    /\ UNCHANGED <<brokerVars, sessionVars, socketVars, tsess, tsock, interrupted, askedBy>>

\* _permit inside a subagent, whose session.id is the composite id.
AskChild(t, r) ==
    /\ turn[t] = "fanout" /\ Resumes(t)
    /\ Broker!Ask(ChildKey(tsess[t]), r)
    /\ askedBy' = [askedBy EXCEPT ![r] = t]
    /\ UNCHANGED <<sessionVars, socketVars, turn, tsess, tsock, interrupted, fanned>>

\* Every subagent has folded back.
Join(t) ==
    /\ turn[t] = "fanout" /\ Resumes(t)
    /\ InFlight(t) = {}
    /\ turn' = [turn EXCEPT ![t] = "running"]
    /\ UNCHANGED <<brokerVars, sessionVars, socketVars, tsess, tsock, interrupted, fanned, askedBy>>

\* SUBAGENT_TIMEOUT passes: wait_for cancels the branches still asking.
CutBranch(r) ==
    /\ askedBy[r] # NoTurn
    /\ turn[askedBy[r]] = "fanout" /\ Resumes(askedBy[r])
    /\ Broker!Raise(r)
    /\ UNCHANGED <<sessionVars, socketVars, turnVars>>

\* The frame of request r is out.
AskEmitted(r) ==
    /\ Resumes(askedBy[r])
    /\ Broker!Emitted(r)
    /\ UNCHANGED <<sessionVars, socketVars, turnVars>>

\* Mutant of AskExpires: ask awaits the bare future.
AskNeverExpires(r) == FALSE /\ UNCHANGED vars

\* AGENT_CONSENT_TIMEOUT passes for request r.
AskExpires(r) ==
    /\ Broker!Expire(r)
    /\ UNCHANGED <<sessionVars, socketVars, turnVars>>

\* The task notices that its timer fired, unless it has to raise instead.
AskGivesUp(r) ==
    /\ Resumes(askedBy[r])
    /\ Broker!GiveUp(r)
    /\ UNCHANGED <<sessionVars, socketVars, turnVars>>

\* The asking task of r runs on with the decision.  A turn that was parked
\* has its pending cancellation swallowed by wait_for.
Unpark(r) ==
    LET t == askedBy[r] IN
    IF turn[t] = "asking"
    THEN /\ turn' = [turn EXCEPT ![t] = "running"]
         /\ interrupted' = interrupted \ {t}
    ELSE UNCHANGED <<turn, interrupted>>

\* ask() returns what the future holds.
AskReturns(r) ==
    /\ Broker!Return(r)
    /\ Unpark(r)
    /\ UNCHANGED <<sessionVars, socketVars, tsess, tsock, fanned, askedBy>>

\* ask() returns the denial of the timeout.
AskTimesOut(r) ==
    /\ Resumes(askedBy[r])
    /\ Broker!TimeOut(r)
    /\ Unpark(r)
    /\ UNCHANGED <<sessionVars, socketVars, tsess, tsock, fanned, askedBy>>

\* Mutant of AskRaises: the question is not discarded on a cancellation.
AskRaisesUndiscarded(r) ==
    /\ askedBy[r] \in interrupted
    /\ stage[r] = "waiting" /\ future[r] = "open"
    /\ stage' = [stage EXCEPT ![r] = "raised"]
    /\ turn' = [turn EXCEPT ![askedBy[r]] =
                  IF @ = "asking" THEN "running" ELSE @]
    /\ UNCHANGED <<pending, keyOf, future, expired, decision, said>>
    /\ UNCHANGED <<sessionVars, socketVars, tsess, tsock, interrupted, fanned, askedBy>>

\* The cancellation of the turn reaches a task that is asking.
AskRaises(r) ==
    /\ askedBy[r] \in interrupted
    /\ Broker!Raise(r)
    /\ turn' = [turn EXCEPT ![askedBy[r]] =
                  IF @ = "asking" THEN "running" ELSE @]
    /\ UNCHANGED <<sessionVars, socketVars, tsess, tsock, interrupted, fanned, askedBy>>

\* Mutant of TurnCancelled: the fan-out is left without awaiting its branches.
TurnCancelledEarly(t) ==
    /\ turn[t] \in {"running", "fanout"}
    /\ t \in interrupted
    /\ turn' = [turn EXCEPT ![t] = "cancelled"]
    /\ interrupted' = interrupted \ {t}
    /\ Broker!Abandon(OwnKey(tsess[t]))
    /\ UNCHANGED <<sessionVars, socketVars, tsess, tsock, fanned, askedBy>>

\* run_turn: CancelledError, "Run cancelled", and the finally.
TurnCancelled(t) ==
    /\ turn[t] \in {"running", "fanout"}
    /\ t \in interrupted
    /\ InFlight(t) = {}
    /\ turn' = [turn EXCEPT ![t] = "cancelled"]
    /\ interrupted' = interrupted \ {t}
    /\ Broker!Abandon(OwnKey(tsess[t]))
    /\ UNCHANGED <<sessionVars, socketVars, tsess, tsock, fanned, askedBy>>

\* run_turn: orchestrator.run returned or failed, and the finally.
TurnEnds(t) ==
    /\ turn[t] = "running" /\ Resumes(t)
    /\ turn' = [turn EXCEPT ![t] = "ended"]
    /\ Broker!Abandon(OwnKey(tsess[t]))
    /\ UNCHANGED <<sessionVars, socketVars, tsess, tsock, interrupted, fanned, askedBy>>

SessionNext == \E s \in Sessions : Upload(s) \/ Expel(s)

SocketNext ==
    \E k \in Sockets :
        \/ \E s \in Sessions : Connect(k, s)
        \/ PingFrame(k)
        \/ CancelFrame(k)
        \/ CancelDone(k)
        \/ \E r \in Requests, a \in Broker!Answers : AnswerFrame(k, r, a)
        \/ \E t \in Turns : MessageFrame(k, t)
        \/ Close(k)

TurnNext ==
    \E t \in Turns :
        \/ \E r \in Requests : AskOwn(t, r) \/ AskChild(t, r)
        \/ FanOut(t)
        \/ Join(t)
        \/ TurnCancelled(t)
        \/ TurnEnds(t)

AskNext ==
    \E r \in Requests :
        \/ CutBranch(r)
        \/ AskEmitted(r)
        \/ AskExpires(r)
        \/ AskGivesUp(r)
        \/ AskReturns(r)
        \/ AskTimesOut(r)
        \/ AskRaises(r)

Next == SessionNext \/ SocketNext \/ TurnNext \/ AskNext

\* The event loop runs every task that can run, the timers fire, an interrupt
\* returns, and a turn left alone comes to its end (its iterations and its
\* model calls are bounded).  Clients owe nothing: no frame is ever assumed.
Fairness ==
    /\ \A k \in Sockets : WF_vars(CancelDone(k))
    /\ \A t \in Turns :
          WF_vars(Join(t)) /\ WF_vars(TurnCancelled(t)) /\ WF_vars(TurnEnds(t))
    /\ \A r \in Requests :
          /\ WF_vars(AskEmitted(r)) /\ WF_vars(AskExpires(r))
          /\ WF_vars(AskGivesUp(r)) /\ WF_vars(AskReturns(r))
          /\ WF_vars(AskTimesOut(r)) /\ WF_vars(AskRaises(r))

Spec == Init /\ [][Next]_vars /\ Fairness

(***************************************************************************)
(* Properties.                                                             *)
(***************************************************************************)

\* Type invariant.
TypeOK ==
    /\ Broker!TypeOK
    /\ live \subseteq minted /\ loaded \subseteq live /\ minted \subseteq Sessions
    /\ sock \in [Sockets -> {"new", "reading", "interrupting", "closed"}]
    /\ bound \in [Sockets -> Sessions \cup {NoSession}]
    /\ run \in [Sockets -> Turns \cup {NoTurn}]
    /\ turn \in [Turns -> Active \cup {"unused", "cancelled", "ended"}]
    /\ tsess \in [Turns -> Sessions \cup {NoSession}]
    /\ tsock \in [Turns -> Sockets \cup {NoSocket}]
    /\ interrupted \subseteq Turns /\ fanned \subseteq Turns
    /\ askedBy \in [Requests -> Turns \cup {NoTurn}]

\* The handler and the turns use the broker only as ConsentBroker allows, so
\* what is proved of the broker holds of every question a turn asks.
ImplementsBroker == Broker!Init /\ [][Broker!Next]_brokerVars

\* No question outlives the turn that asked it, and a parked turn is parked on
\* exactly one question, filed under its own session: otherwise the next
\* answer would be swallowed by a dead run, or the turn would never wake.
QuestionsMatchTurns ==
    /\ \A r \in Requests :
          stage[r] \in Broker!Asking => turn[askedBy[r]] \in {"asking", "fanout"}
    /\ \A t \in Turns :
          turn[t] = "asking" =>
              \E r \in Requests : InFlight(t) = {r} /\ keyOf[r] = OwnKey(tsess[t])

\* The answer to an open question settles it, if a turn asked it for itself
\* and its session is still live: no eviction of other sessions, second tab,
\* reconnection or cancelled run makes the frame miss its question.
OwnAnswerIsHeard ==
    [][\A r \in Requests :
          /\ said'[r] # said[r]
          /\ future[r] = "open"
          /\ \E s \in live : keyOf[r] = OwnKey(s)
          => future'[r] \in Broker!Answers]_vars

\* Every turn comes to an end, whatever the clients do or fail to do: nothing
\* a turn asks can park it for ever.
EveryTurnSettles ==
    \A t \in Turns : turn[t] \in Active ~> turn[t] \in {"cancelled", "ended"}

\* chat.py:110: "An approval frame carrying id answers a running turn that
\* paused on a permission gate."  The code files a subagent's question under
\* an id no frame is ever resolved against.
AnswerIsHeard ==
    [][\A r \in Requests :
          said'[r] # said[r] /\ future[r] = "open"
          => future'[r] \in Broker!Answers]_vars
=============================================================================

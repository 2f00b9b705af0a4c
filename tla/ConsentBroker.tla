--------------------------- MODULE ConsentBroker ---------------------------
(***************************************************************************)
(* core/agent/consent.py: the broker that lets a running turn ask the user *)
(* a question and wait for the answer.                                     *)
(*                                                                         *)
(* One element of Requests is one call of ConsentBroker.ask; its id is a   *)
(* fresh uuid, so a request is asked at most once.  An element of Keys is  *)
(* the string the question is filed under (a session id, or the composite  *)
(* id of a subagent).                                                      *)
(*                                                                         *)
(* Everything runs on one event loop: a step of this module is the code    *)
(* between two awaits.  The wait is asyncio.wait_for of Python 3.11, the   *)
(* version the Dockerfile and the CI pin.  It parks the task on a private  *)
(* waiter that three things release: the future being set, the timer and   *)
(* a cancellation.  Whichever it was, wait_for looks at the future when    *)
(* the task runs again, and returns its result if there is one.            *)
(***************************************************************************)
EXTENDS Naturals, FiniteSets

CONSTANTS
    Keys,      \* what a question may be filed under
    Requests,  \* the questions, each asked at most once
    NoKey      \* the key of a question not asked yet

ASSUME NoKeyAssumption == NoKey \notin Keys

VARIABLES
    pending,   \* _pending: the requests filed under each key
    stage,     \* where each ask() call has got to
    keyOf,     \* the session_id argument of each ask() call
    future,    \* the asyncio.Future of each request
    expired,   \* requests whose wait_for timer has fired
    decision,  \* the ConsentDecision each ask() returned
    said       \* history: the answers the user gave to each request

brokerVars == <<pending, stage, keyOf, future, expired, decision, said>>

Answers == {"yes", "no"}

\* An ask() call that still has its entry in _pending to clean up.
Asking == {"emitting", "waiting", "expiring"}

Stages == Asking \cup {"unused", "returned", "raised"}

\* "declined" is approved=False with an empty reason, "timeout" is
\* approved=False with the "No answer within ..." reason.
Decisions == {"none", "approved", "declined", "timeout"}

Futures == {"none", "open", "yes", "no", "cancelled"}

Init ==
    /\ pending = [k \in Keys |-> {}]
    /\ stage = [r \in Requests |-> "unused"]
    /\ keyOf = [r \in Requests |-> NoKey]
    /\ future = [r \in Requests |-> "none"]
    /\ expired = {}
    /\ decision = [r \in Requests |-> "none"]
    /\ said = [r \in Requests |-> {}]

(***************************************************************************)
(* The operations.  Each leaves the rest of the broker's state alone and   *)
(* says nothing about the state of its callers.                            *)
(***************************************************************************)

\* Mutant of Discard: the whole key goes with the first question settled.
DiscardKey(r) == pending' = [pending EXCEPT ![keyOf[r]] = {}]

\* _discard: forget one request; what else is filed under the key stays.
Discard(r) == pending' = [pending EXCEPT ![keyOf[r]] = @ \ {r}]

\* ask, down to the await of emit: the request is filed before it is sent.
Ask(k, r) ==
    /\ stage[r] = "unused"
    /\ pending' = [pending EXCEPT ![k] = @ \cup {r}]
    /\ stage' = [stage EXCEPT ![r] = "emitting"]
    /\ keyOf' = [keyOf EXCEPT ![r] = k]
    /\ future' = [future EXCEPT ![r] = "open"]
    /\ UNCHANGED <<expired, decision, said>>

\* The APPROVAL_REQUIRED frame is out and the task parks in wait_for.
Emitted(r) ==
    /\ stage[r] = "emitting"
    /\ stage' = [stage EXCEPT ![r] = "waiting"]
    /\ UNCHANGED <<pending, keyOf, future, expired, decision, said>>

\* Mutant of Expire: the wait has no timeout.
ExpireNever(r) == FALSE /\ UNCHANGED brokerVars

\* The timer of wait_for fires.  The task has not run yet.
Expire(r) ==
    /\ stage[r] = "waiting"
    /\ r \notin expired
    /\ expired' = expired \cup {r}
    /\ UNCHANGED <<pending, stage, keyOf, future, decision, said>>

\* wait_for finds a result: ask returns it, whether or not the timer fired
\* and whether or not the task was cancelled in the meantime.
Return(r) ==
    /\ stage[r] = "waiting"
    /\ future[r] \in Answers
    /\ stage' = [stage EXCEPT ![r] = "returned"]
    /\ decision' = [decision EXCEPT ![r] =
                      IF future[r] = "yes" THEN "approved" ELSE "declined"]
    /\ Discard(r)
    /\ UNCHANGED <<keyOf, future, expired, said>>

\* wait_for finds no result after the timer: it cancels the future and waits
\* one turn of the loop for the cancellation to be seen.
GiveUp(r) ==
    /\ stage[r] = "waiting"
    /\ r \in expired
    /\ future[r] = "open"
    /\ stage' = [stage EXCEPT ![r] = "expiring"]
    /\ future' = [future EXCEPT ![r] = "cancelled"]
    /\ UNCHANGED <<pending, keyOf, expired, decision, said>>

\* ... and raises TimeoutError, which ask turns into a denial with a reason.
TimeOut(r) ==
    /\ stage[r] = "expiring"
    /\ stage' = [stage EXCEPT ![r] = "returned"]
    /\ decision' = [decision EXCEPT ![r] = "timeout"]
    /\ Discard(r)
    /\ UNCHANGED <<keyOf, future, expired, said>>

\* Mutant of Raise: the clean-up is not in a finally.
RaiseWithoutDiscard(r) ==
    /\ \/ stage[r] \in {"emitting", "expiring"}
       \/ stage[r] = "waiting" /\ future[r] \notin Answers
    /\ stage' = [stage EXCEPT ![r] = "raised"]
    /\ future' = [future EXCEPT ![r] = IF @ = "open" THEN "cancelled" ELSE @]
    /\ UNCHANGED <<pending, keyOf, expired, decision, said>>

\* A cancellation of the asking task that ask lets through: in the emit, or
\* in wait_for when the future has no result.
Raise(r) ==
    /\ \/ stage[r] \in {"emitting", "expiring"}
       \/ stage[r] = "waiting" /\ future[r] \notin Answers
    /\ stage' = [stage EXCEPT ![r] = "raised"]
    /\ future' = [future EXCEPT ![r] = IF @ = "open" THEN "cancelled" ELSE @]
    /\ Discard(r)
    /\ UNCHANGED <<keyOf, expired, decision, said>>

\* Whether resolve(k, r, _) finds something waiting.
Resolvable(k, r) == r \in pending[k] /\ future[r] = "open"

\* Mutant of Resolve: the answer goes to everything open under the key.
ResolveKey(k, r, a) ==
    /\ said' = [said EXCEPT ![r] = @ \cup {a}]
    /\ future' = [q \in Requests |-> IF Resolvable(k, q) THEN a ELSE future[q]]
    /\ UNCHANGED <<pending, stage, keyOf, expired, decision>>

\* resolve: the user's answer a to request r arrives under key k.
Resolve(k, r, a) ==
    /\ said' = [said EXCEPT ![r] = @ \cup {a}]
    /\ future' = IF Resolvable(k, r) THEN [future EXCEPT ![r] = a] ELSE future
    /\ UNCHANGED <<pending, stage, keyOf, expired, decision>>

\* abandon: deny everything outstanding under k, and forget the key.
Abandon(k) ==
    /\ pending' = [pending EXCEPT ![k] = {}]
    /\ future' = [r \in Requests |->
                    IF Resolvable(k, r) THEN "no" ELSE future[r]]
    /\ UNCHANGED <<stage, keyOf, expired, decision, said>>

(***************************************************************************)
(* The broker on its own: its callers may ask, answer, abandon and cancel  *)
(* at any moment.  An answer names a question that was asked, since its id *)
(* is a uuid only the APPROVAL_REQUIRED frame carries.                     *)
(***************************************************************************)
Next ==
    \/ \E r \in Requests :
          \/ \E k \in Keys : Ask(k, r)
          \/ Emitted(r)
          \/ Expire(r)
          \/ Return(r)
          \/ GiveUp(r)
          \/ TimeOut(r)
          \/ Raise(r)
          \/ /\ stage[r] # "unused"
             /\ \E k \in Keys, a \in Answers : Resolve(k, r, a)
    \/ \E k \in Keys : Abandon(k)

\* The event loop runs what is ready and timers fire; nobody has to answer,
\* abandon or cancel.
Fairness ==
    \A r \in Requests :
        /\ WF_brokerVars(Emitted(r))
        /\ WF_brokerVars(Expire(r))
        /\ WF_brokerVars(Return(r))
        /\ WF_brokerVars(GiveUp(r))
        /\ WF_brokerVars(TimeOut(r))

Spec == Init /\ [][Next]_brokerVars /\ Fairness

(***************************************************************************)
(* Properties.                                                             *)
(***************************************************************************)

\* Type invariant of the broker's state.
TypeOK ==
    /\ pending \in [Keys -> SUBSET Requests]
    /\ stage \in [Requests -> Stages]
    /\ keyOf \in [Requests -> Keys \cup {NoKey}]
    /\ future \in [Requests -> Futures]
    /\ expired \subseteq Requests
    /\ decision \in [Requests -> Decisions]
    /\ said \in [Requests -> SUBSET Answers]

\* Consent is never invented: ask returns an approval only for a request the
\* user said yes to, however abandon, timers, cancellations and late answers
\* interleave with it.
ApprovalIsTheUsers ==
    \A r \in Requests : decision[r] = "approved" => "yes" \in said[r]

\* "a future belonging to a dead run would swallow the next answer": whatever
\* is filed under a key belongs to an ask() under that key still in flight.
NothingLeftRegistered ==
    \A k \in Keys : \A r \in pending[k] : keyOf[r] = k /\ stage[r] \in Asking

\* The other direction: an open question can always be reached, by an answer
\* and by abandon, until its ask() is over; no other operation hides it.
OpenQuestionIsReachable ==
    \A r \in Requests :
        stage[r] \in Asking /\ future[r] = "open" => r \in pending[keyOf[r]]

\* One verdict: a future that has a result keeps it (a duplicated or late
\* answer, an abandon after an answer or a timer cannot change the verdict),
\* and so does the decision ask() returned.
VerdictIsFinal ==
    [][\A r \in Requests :
          /\ future[r] \in {"yes", "no", "cancelled"} => future'[r] = future[r]
          /\ decision[r] # "none" => decision'[r] = decision[r]]_brokerVars

\* "nothing here waits indefinitely": every question is settled, although
\* nobody needs to answer it.
EveryAskSettles ==
    \A r \in Requests :
        stage[r] = "emitting" ~> stage[r] \in {"returned", "raised"}
=============================================================================

----------------------------- MODULE ChatStream -----------------------------
(***************************************************************************)
(* ChatStream: the browser's end of the chat socket.  The hook holds one   *)
(* socket, reopens it from a timer when it closes, and folds the frames it *)
(* receives into the message that is active: no frame names the turn it    *)
(* belongs to, and those of a subagent name their branch only.  The        *)
(* server's end is the receive loop of the chat route, one turn at a time  *)
(* on each socket; bound: a turn and its branches ask one question.        *)
(***************************************************************************)
EXTENDS Naturals, Sequences

CONSTANTS
    MaxSockets,     \* bound: sockets the hook ever constructs
    MaxMessages,    \* bound: assistant messages ever created
    MaxFrames       \* bound: frames on the way in either direction

ASSUME StreamAssumption == MaxSockets \in Nat \ {0} /\ MaxMessages \in Nat /\ MaxFrames \in Nat

VARIABLES
    ready,          \* readyState of each socket, "none" before it exists
    current,        \* socketRef, 0 for null
    mounted,        \* shouldReconnectRef
    latest,         \* the timer reconnectRef names is pending
    older,          \* pending timers that reconnectRef no longer names
    messages,       \* the assistant messages, in order
    hidden,         \* those that clear() has taken off the page
    activeId,       \* activeIdRef, 0 for null
    isRunning,
    up,             \* frames on the way to the server, by socket
    down,           \* frames on the way to the hook, by socket
    run,            \* the server's current_run, by socket
    givenUp         \* history: turns the user left while they were active

streamVars == <<ready, current, mounted, latest, older, messages, hidden, activeId, isRunning,
                up, down, run, givenUp>>
wires == <<up, down, run>>
pageVars == <<messages, hidden, activeId, isRunning, givenUp>>
link == <<ready, current, mounted, latest, older>>

SocketIds == 1 .. MaxSockets
MessageIds == 1 .. Len(messages)
NoRun == [of |-> 0, cancelled |-> FALSE, asks |-> "no", asked |-> FALSE, said |-> FALSE]
LastFrames == {"final", "error", "gate"}
QuestionFrames == {"question", "branch question"}

StreamTypeOK ==
    /\ ready \in [SocketIds -> {"none", "connecting", "retired", "open", "closing", "closed"}]
    /\ current \in 0 .. MaxSockets /\ activeId \in 0 .. Len(messages)
    /\ {mounted, latest, isRunning} \subseteq BOOLEAN /\ older \in Nat
    /\ \A m \in MessageIds :
         messages[m] \in [streaming : BOOLEAN, approval : {"none", "gate", "question"},
                       heard : SUBSET (1 .. MaxMessages)]
    /\ hidden \subseteq MessageIds /\ givenUp \subseteq MessageIds
    /\ \A s \in SocketIds : Len(up[s]) <= MaxFrames /\ Len(down[s]) <= MaxFrames

StreamInit ==
    /\ ready = [s \in SocketIds |-> IF s = 1 THEN "connecting" ELSE "none"]
    /\ current = 1 /\ mounted = TRUE
    /\ latest = FALSE /\ older = 0
    /\ messages = <<>> /\ hidden = {} /\ givenUp = {}
    /\ activeId = 0 /\ isRunning = FALSE
    /\ up = [s \in SocketIds |-> <<>>] /\ down = [s \in SocketIds |-> <<>>]
    /\ run = [s \in SocketIds |-> NoRun]

-----------------------------------------------------------------------------
(* The socket.                                                              *)

IsOpen == current # 0 /\ ready[current] = "open"
Unused == {s \in SocketIds : ready[s] = "none"}
Alive(s) == ready[s] \in {"connecting", "open"}

\* connect, when only an OPEN socket counted as connected.
\* connect: an OPEN or a CONNECTING socket is enough; a CLOSING one is replaced.
Connects(states) ==
    IF current # 0 /\ Alive(current) THEN ready' = states /\ UNCHANGED current
    ELSE \E s \in Unused :
           /\ \A t \in Unused : s <= t
           /\ ready' = [states EXCEPT ![s] = "connecting"]
           /\ current' = s

\* onopen; one that is not current, or was retired while connecting, is closed.
Opens(s) ==
    /\ ready[s] \in {"connecting", "retired"}
    /\ ready' = [ready EXCEPT ![s] = IF @ = "connecting" /\ current = s THEN "open" ELSE "closed"]
    /\ UNCHANGED <<current, mounted, latest, older, pageVars, wires>>

HangsUp(s) ==
    /\ up' = [up EXCEPT ![s] = <<>>] /\ down' = [down EXCEPT ![s] = <<>>]
    /\ run' = [run EXCEPT ![s] = NoRun]

\* The server's close frame has been read, the close event has not fired yet.
StartsClosing(s) ==
    /\ ready[s] = "open"
    /\ ready' = [ready EXCEPT ![s] = "closing"]
    /\ HangsUp(s)
    /\ UNCHANGED <<current, mounted, latest, older, pageVars>>

\* What onclose does to the message that was being streamed.
StopsStreaming ==
    /\ messages' = IF activeId = 0 THEN messages ELSE [messages EXCEPT ![activeId].streaming = FALSE]
    /\ activeId' = 0 /\ isRunning' = (IF activeId = 0 THEN isRunning ELSE FALSE)
    /\ UNCHANGED <<hidden, givenUp>>

\* onclose, of a handshake that failed or of an open or closing socket.
SocketCloses(s) ==
    /\ ready[s] \in {"connecting", "retired", "open", "closing"}
    /\ ready' = [ready EXCEPT ![s] = "closed"]
    /\ HangsUp(s)
    /\ IF current # s THEN UNCHANGED <<current, latest, older, pageVars>>
       ELSE /\ current' = 0
            /\ latest' = mounted
            /\ older' = IF mounted /\ latest THEN older + 1 ELSE older
            /\ StopsStreaming
    /\ UNCHANGED mounted

\* A reconnect timer fires; whether the hook is still mounted is not asked.
TimerFires ==
    /\ \/ latest /\ latest' = FALSE /\ UNCHANGED older
       \/ older > 0 /\ older' = older - 1 /\ UNCHANGED latest
    /\ Connects(ready)
    /\ UNCHANGED <<mounted, pageVars, wires>>

\* The effect's cleanup, with retireSocket: only the timer last set is cleared.
Unmounts ==
    /\ mounted
    /\ mounted' = FALSE /\ latest' = FALSE /\ current' = 0
    /\ IF current = 0 THEN UNCHANGED <<ready, wires>>
       ELSE /\ ready' = [ready EXCEPT ![current] = IF @ = "connecting" THEN "retired" ELSE "closed"]
            /\ HangsUp(current)
    /\ UNCHANGED <<older, pageVars>>

\* Development remounts the effect once, before anything is on the page.
Mounts ==
    /\ ~mounted /\ messages = <<>> /\ mounted' = TRUE
    /\ Connects(ready)
    /\ UNCHANGED <<latest, older, pageVars, wires>>

-----------------------------------------------------------------------------
(* What the user does.                                                      *)

Blank == [streaming |-> TRUE, approval |-> "none", heard |-> {}]
Notice == [Blank EXCEPT !.streaming = FALSE]
CanAdd(n) == mounted /\ Len(messages) + n <= MaxMessages

\* send: without an OPEN socket a notice is appended and connect is called.
SendsFrame(frame, next) ==
    IF IsOpen
    THEN /\ Len(up[current]) < MaxFrames
         /\ up' = [up EXCEPT ![current] = Append(@, frame)]
         /\ messages' = next
         /\ UNCHANGED <<ready, current>>
    ELSE /\ messages' = Append(next, Notice)
         /\ Connects(ready)
         /\ UNCHANGED up

\* Mutant of SendsMessage: isRunning is not tested.
SendsOverARun ==
    /\ CanAdd(2)
    /\ LET m == Len(messages) + 1
       IN  /\ SendsFrame([kind |-> "message", of |-> m], Append(messages, Blank))
           /\ activeId' = IF IsOpen THEN m ELSE 0
           /\ isRunning' = IsOpen
    /\ UNCHANGED <<mounted, latest, older, hidden, givenUp, down, run>>

\* sendMessage: an unsent question's blank answer keeps its streaming mark.
SendsMessage ==
    /\ CanAdd(2) /\ ~isRunning
    /\ LET m == Len(messages) + 1
       IN  /\ SendsFrame([kind |-> "message", of |-> m], Append(messages, Blank))
           /\ activeId' = IF IsOpen THEN m ELSE 0
           /\ isRunning' = IsOpen
    /\ UNCHANGED <<mounted, latest, older, hidden, givenUp, down, run>>

WithoutApproval(m) == [messages EXCEPT ![m].approval = "none"]

\* respondToApproval on a permission question: the reply, sent or not.
AnswersQuestion(m) ==
    /\ CanAdd(1) /\ m \notin hidden /\ messages[m].approval = "question"
    /\ SendsFrame([kind |-> "answer", of |-> m], WithoutApproval(m))
    /\ UNCHANGED <<mounted, latest, older, hidden, activeId, isRunning, givenUp, down, run>>

RejectsPlan(m) ==
    /\ mounted /\ m \notin hidden /\ messages[m].approval = "gate"
    /\ messages' = WithoutApproval(m)
    /\ UNCHANGED <<link, hidden, activeId, isRunning, givenUp, wires>>

\* respondToApproval on a plan: a new turn, whatever is running or connected.
ApprovesPlan(m) ==
    /\ CanAdd(2) /\ m \notin hidden /\ messages[m].approval = "gate"
    /\ LET n == Len(messages) + 1
       IN  /\ SendsFrame([kind |-> "message", of |-> n], Append(WithoutApproval(m), Blank))
           /\ activeId' = n
    /\ isRunning' = TRUE
    /\ givenUp' = givenUp \cup ({activeId} \ {0})
    /\ UNCHANGED <<mounted, latest, older, hidden, down, run>>

CancelsRun ==
    /\ CanAdd(1) /\ isRunning
    /\ SendsFrame([kind |-> "cancel", of |-> activeId],
             IF activeId = 0 THEN messages ELSE [messages EXCEPT ![activeId].streaming = FALSE])
    /\ activeId' = 0 /\ isRunning' = FALSE
    /\ givenUp' = givenUp \cup ({activeId} \ {0})
    /\ UNCHANGED <<mounted, latest, older, hidden, down, run>>

Clears ==
    /\ mounted /\ MessageIds # hidden
    /\ hidden' = MessageIds
    /\ activeId' = 0 /\ isRunning' = FALSE
    /\ givenUp' = givenUp \cup ({activeId} \ {0})
    /\ UNCHANGED <<link, messages, wires>>

-----------------------------------------------------------------------------
(* The server's end.                                                        *)

Replies(s, kind, m) == down' = [down EXCEPT ![s] = Append(@, [kind |-> kind, of |-> m])]
HasRoom(s) == ready[s] = "open" /\ Len(down[s]) < MaxFrames

\* The receive loop takes the next frame.
ServesFrame(s) ==
    /\ HasRoom(s) /\ up[s] # <<>>
    /\ up' = [up EXCEPT ![s] = Tail(@)]
    /\ LET frame == Head(up[s])
       IN  \/ /\ frame.kind = "cancel"
              /\ run' = [run EXCEPT ![s].cancelled = (run[s].of # 0), ![s].asks = "no"]
              /\ Replies(s, "status", frame.of)
           \/ /\ frame.kind = "answer"
              /\ run' = [run EXCEPT ![s].asks =
                            IF frame.of = run[s].of /\ @ = "question" THEN "no" ELSE @]
              /\ UNCHANGED down
           \/ /\ frame.kind = "message" /\ run[s].of # 0
              /\ Replies(s, "error", frame.of)
              /\ UNCHANGED run
           \/ /\ frame.kind = "message" /\ run[s].of = 0
              /\ run' = [run EXCEPT ![s] = [NoRun EXCEPT !.of = frame.of]]
              /\ UNCHANGED down
    /\ UNCHANGED <<link, pageVars>>

\* A turn that is neither cancelled nor at its end.
RunGoes(s) == HasRoom(s) /\ run[s].of # 0 /\ ~run[s].said /\ ~run[s].cancelled

\* A part of its answer, a frame of one of its branches (while another of them
\* may be paused), or its end.
Emits(s, kind) ==
    /\ RunGoes(s)
    /\ run[s].asks = "no" \/ (run[s].asks = "branch question" /\ kind = "branch")
    /\ Replies(s, kind, run[s].of)
    /\ run' = [run EXCEPT ![s].said = (kind \in LastFrames)]
    /\ UNCHANGED <<link, pageVars, up>>

\* A question it is paused on, its own or that of a branch.
TurnAsks(s, kind) ==
    /\ RunGoes(s) /\ ~run[s].asked
    /\ Replies(s, kind, run[s].of)
    /\ run' = [run EXCEPT ![s].asks = kind, ![s].asked = TRUE]
    /\ UNCHANGED <<link, pageVars, up>>

\* Nobody has answered in time.
QuestionExpires(s) ==
    /\ run[s].asks # "no"
    /\ run' = [run EXCEPT ![s].asks = "no"]
    /\ UNCHANGED <<link, pageVars, up, down>>

\* The task is done: after its last frame, or with "Run cancelled".
RunEnds(s) ==
    /\ HasRoom(s) /\ run[s].of # 0 /\ (run[s].said \/ run[s].cancelled)
    /\ run' = [run EXCEPT ![s] = NoRun]
    /\ IF run[s].cancelled THEN Replies(s, "status", run[s].of) ELSE UNCHANGED down
    /\ UNCHANGED <<link, pageVars, up>>

-----------------------------------------------------------------------------
(* handleEvent.                                                             *)

\* patchActive: no active message, nothing to patch.
Patched(frame, streaming, approval) ==
    IF activeId = 0 THEN messages
    ELSE [messages EXCEPT ![activeId].heard = @ \cup {frame.of},
                       ![activeId].streaming = @ /\ streaming,
                       ![activeId].approval = IF approval = "none" THEN @ ELSE approval]

Receives(s, kinds) ==
    /\ ready[s] = "open" /\ current = s /\ down[s] # <<>>
    /\ Head(down[s]).kind \in kinds
    /\ down' = [down EXCEPT ![s] = Tail(@)]
    /\ UNCHANGED <<link, hidden, givenUp, up, run>>

\* applyBranchEvent: whatever its type, a branch's frame touches its branch only.
HearsBranch(s) ==
    /\ Receives(s, {"branch", "branch question"})
    /\ messages' = Patched(Head(down[s]), TRUE, "none")
    /\ UNCHANGED <<activeId, isRunning>>

HearsStatus(s) ==
    /\ Receives(s, {"status"})
    /\ messages' = Patched(Head(down[s]), TRUE, "none")
    /\ UNCHANGED <<activeId, isRunning>>

\* A part of the answer, its code, its trail or its findings.
HearsPart(s) ==
    /\ Receives(s, {"delta"})
    /\ messages' = Patched(Head(down[s]), TRUE, "none")
    /\ UNCHANGED <<activeId, isRunning>>

\* approval_required without an id ends the run, with one it is paused.
HearsApproval(s) ==
    /\ Receives(s, {"gate", "question"})
    /\ LET kind == Head(down[s]).kind
       IN  /\ messages' = Patched(Head(down[s]), FALSE, kind)
           /\ IF kind = "gate" THEN activeId' = 0 /\ isRunning' = FALSE
              ELSE UNCHANGED <<activeId, isRunning>>

HearsError(s) ==
    /\ Receives(s, {"error"})
    /\ IF activeId = 0 THEN CanAdd(1) /\ messages' = Append(messages, Notice)
       ELSE messages' = Patched(Head(down[s]), FALSE, "none")
    /\ activeId' = 0 /\ isRunning' = FALSE

HearsFinal(s) ==
    /\ Receives(s, {"final"})
    /\ messages' = Patched(Head(down[s]), FALSE, "none")
    /\ activeId' = 0 /\ isRunning' = FALSE

StreamNext ==
    \/ \E s \in SocketIds : Opens(s) \/ StartsClosing(s) \/ SocketCloses(s)
    \/ TimerFires \/ Unmounts \/ Mounts
    \/ SendsMessage \/ CancelsRun \/ Clears
    \/ \E m \in MessageIds : AnswersQuestion(m) \/ RejectsPlan(m) \/ ApprovesPlan(m)
    \/ \E s \in SocketIds :
         \/ ServesFrame(s) \/ QuestionExpires(s) \/ RunEnds(s)
         \/ \E kind \in {"delta", "branch"} \cup LastFrames : Emits(s, kind)
         \/ \E kind \in QuestionFrames : TurnAsks(s, kind)
         \/ HearsBranch(s) \/ HearsStatus(s) \/ HearsPart(s) \/ HearsApproval(s)
         \/ HearsError(s) \/ HearsFinal(s)

StreamSpec == StreamInit /\ [][StreamNext]_streamVars

-----------------------------------------------------------------------------
(* A socket that connects or is open, unless retired, is the one the hook   *)
(* holds, whichever of the timer, a remount and a failed send called        *)
(* connect: a tab never costs the server two connections.                   *)
OneLiveSocket == \A s \in SocketIds : Alive(s) => s = current

(* The page shows a turn as running exactly while a message is being        *)
(* streamed into, through closes, failed sends and answers.                 *)
RunningNamesAMessage == isRunning <=> activeId # 0

(* Frames carry no turn: the hook trusts that the one it is in is the one   *)
(* the server speaks of.  While the user has left no turn unfinished (by    *)
(* cancelling, clearing, or approving a plan over it) that trust holds,     *)
(* through reconnects, refusals and unsent questions: every frame is folded *)
(* into the message of its own turn.                                        *)
FramesReachTheirOwn ==
    givenUp = {} => \A m \in MessageIds : messages[m].heard \subseteq {m}

(* While the server waits for an answer, and its question has come through, *)
(* the page puts it to the user, or has the answer on its way.              *)
PutTo(s, kinds) ==
    run[s].asks \in kinds /\ down[s] = <<>> /\ givenUp = {} =>
        \/ \E m \in MessageIds \ hidden : messages[m].approval = "question"
        \/ \E i \in DOMAIN up[s] : up[s][i].kind = "answer"

(* A turn never waits on a question of its own that nobody can see, through *)
(* refusals, expiries and reconnects: the frame finds its message active,   *)
(* and nothing else takes the question off the page but its answer.         *)
OwnQuestionsArePut == mounted => \A s \in SocketIds : PutTo(s, {"question"})

(* Nor on any other: "a paused turn the user cannot see is worse than an    *)
(* action that did not happen" (consent.py:16-17).                          *)
EveryQuestionIsPut == mounted => \A s \in SocketIds : PutTo(s, QuestionFrames)

(* use-chat-stream.ts:665: "A close mid-run would otherwise leave the UI    *)
(* spinning forever": a run is shown only while something can still end it. *)
SpinsForATurn ==
    mounted /\ isRunning =>
                 /\ current # 0 /\ ready[current] # "closed"
                 /\ \/ ready[current] = "closing" \/ run[current].of # 0
                    \/ \E i \in DOMAIN up[current] : up[current][i].kind = "message"
                    \/ \E i \in DOMAIN down[current] : down[current][i].kind \in LastFrames

(* The cleanup of the effect leaves no socket: none is current once the     *)
(* hook is unmounted.                                                       *)
UnmountedHoldsNone == ~mounted => current = 0
=============================================================================

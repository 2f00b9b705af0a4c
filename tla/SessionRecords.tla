--------------------------- MODULE SessionRecords ---------------------------
(***************************************************************************)
(* What is kept of a session while turns run in it: its chat messages and  *)
(* its working memory, in the database, and its accounts in the usage      *)
(* ledger, one for the session and one for every subagent: an account is   *)
(* the set of the calls booked to it, of which what it cost is the sum.    *)
(* The turns' steps are the event loop's; a session is disposed of by a    *)
(* thread, in the middle of any of them.                                   *)
(***************************************************************************)
EXTENDS Naturals, FiniteSets, Sequences

CONSTANTS
    ChatSessions,
    ChatTurns,
    SessionsOf, \* the sessions each turn may be asked in
    MaxGroups,  \* bound: parallel actions of one turn
    MaxParted,  \* bound: sessions ever disposed of
    MaxCalls,   \* bound: calls of the model, of one turn and its branches
    Recalled    \* get_memories' limit: 200 in retrieve_memories

ASSUME RecordsAssumption ==
    /\ SessionsOf \in [ChatTurns -> SUBSET ChatSessions]
    /\ MaxGroups \in Nat /\ MaxCalls \in Nat /\ Recalled \in Nat

Own == <<0, 0>>                             \* the session's own account
BranchNumbers == {1, 2}
SubagentIds == (1 .. MaxGroups) \X BranchNumbers   \* "parallel-<iteration>-sub<n>"
Accounts == {Own} \cup SubagentIds

VARIABLES
    live,       \* SessionManager._sessions
    parting,    \* how far dispose has come with each session
    registered, \* Session._subagent_ids
    ledger,     \* the calls booked, by session and account
    chat,       \* chat_messages: the row of each id, and what was deleted
    memory,     \* working_memory, oldest first
    turns       \* the turns, with how many calls each has booked

recordVars == <<live, parting, registered, ledger, chat, memory, turns>>

DeletedRow == [of |-> "none", turn |-> "none", role |-> "none"]
NothingSpent == [a \in Accounts |-> {}]
Fresh == [pc |-> "idle", of |-> "none", group |-> 0, kids |-> {},
          calls |-> 0,      \* booked by it and its branches
          id |-> 0,         \* message_id, 0 when there is none
          kept |-> TRUE,    \* its accounts have not been forgotten by dispose
          covered |-> TRUE] \* history: what the final frame said it cost covers it

RecordsInit ==
    /\ live = ChatSessions /\ parting = [s \in ChatSessions |-> "no"]
    /\ registered = [s \in ChatSessions |-> {}]
    /\ ledger = [s \in ChatSessions |-> NothingSpent]
    /\ chat = <<>> /\ memory = <<>>
    /\ turns = [t \in ChatTurns |-> Fresh]

ChatRows == [of : ChatSessions, turn : ChatTurns, role : {"user", "assistant"}]
TurnRecords ==
    [pc : {"idle", "runs", "fans", "remembered", "answered", "done"},
     of : ChatSessions \cup {"none"}, group : 0 .. MaxGroups, kids : SUBSET SubagentIds,
     calls : 0 .. MaxCalls, id : Nat, kept : BOOLEAN, covered : BOOLEAN]

RecordsTypeOK ==
    /\ live \subseteq ChatSessions
    /\ parting \in [ChatSessions -> {"no", "popped", "kids", "own", "done"}]
    /\ registered \in [ChatSessions -> SUBSET SubagentIds]
    /\ ledger \in [ChatSessions -> [Accounts -> SUBSET (ChatTurns \X (1 .. MaxCalls))]]
    /\ chat \in Seq(ChatRows \cup {DeletedRow})
    /\ memory \in Seq([of : ChatSessions, turn : ChatTurns])
    /\ turns \in [ChatTurns -> TurnRecords]

Session(t) == turns[t].of
Spent(t) == {t} \X (1 .. turns[t].calls)

-----------------------------------------------------------------------------
(* AUTOINCREMENT: an id is never given twice, whatever has been deleted.     *)
Appended(row) == Append(chat, row)

(* A row that cannot be written is logged and the turn goes on: that choice  *)
(* is made in StoresAnswer, where the row's id is used.                      *)
AsksIn(t, s) ==
    /\ turns[t].pc = "idle" /\ s \in live
    /\ chat' = Appended([of |-> s, turn |-> t, role |-> "user"])
    /\ turns' = [turns EXCEPT ![t] = [Fresh EXCEPT !.pc = "runs", !.of = s]]
    /\ UNCHANGED <<live, parting, registered, ledger, memory>>

(* usage_ledger.record: an account is opened when it is first booked to.     *)
Books(t, a) ==
    /\ turns[t].calls < MaxCalls
    /\ ledger' = [ledger EXCEPT ![Session(t)][a] = @ \cup {<<t, turns[t].calls + 1>>}]
    /\ turns' = [turns EXCEPT ![t].calls = @ + 1]
    /\ UNCHANGED <<live, parting, registered, chat, memory>>

CallsModel(t) == turns[t].pc = "runs" /\ Books(t, Own)

BranchesOf(t) == IF turns[t].pc = "fans" THEN {turns[t].group} \X BranchNumbers ELSE {}

(* A branch's call, booked when it comes back: a branch that is cut off in   *)
(* the middle of one never books it.                                         *)
BranchCalls(t) == \E a \in BranchesOf(t) : Books(t, a)

(* A parallel action: an id for every branch, registered with the session.   *)
FansOut(t) ==
    /\ turns[t].pc = "runs" /\ turns[t].group < MaxGroups
    /\ LET g == turns[t].group + 1
           kids == {g} \X BranchNumbers
       IN  /\ turns' = [turns EXCEPT ![t].group = g, ![t].kids = @ \cup kids, ![t].pc = "fans"]
           /\ registered' = [registered EXCEPT ![Session(t)] = @ \cup kids]
    /\ UNCHANGED <<live, parting, ledger, chat, memory>>

\* Mutant of FoldsBack: the branches' accounts go with their runtimes.
FoldsBackForgetting(t) ==
    /\ turns[t].pc = "fans"
    /\ turns' = [turns EXCEPT ![t].pc = "runs"]
    /\ ledger' = [ledger EXCEPT ![Session(t)] =
                     [a \in Accounts |-> IF a \in BranchesOf(t) THEN {} ELSE @[a]]]
    /\ UNCHANGED <<live, parting, registered, chat, memory>>

(* The branches have ended or their time is up: what each has cost is read   *)
(* and its runtime released; its account stays.                              *)
FoldsBack(t) ==
    /\ turns[t].pc = "fans"
    /\ turns' = [turns EXCEPT ![t].pc = "runs"]
    /\ UNCHANGED <<live, parting, registered, ledger, chat, memory>>

-----------------------------------------------------------------------------
(* _finalize.  An answer that cannot be written has no id.                   *)
Remembers(t) ==
    /\ turns[t].pc = "runs"
    /\ memory' = Append(memory, [of |-> Session(t), turn |-> t])
    /\ turns' = [turns EXCEPT ![t].pc = "remembered"]
    /\ UNCHANGED <<live, parting, registered, ledger, chat>>

StoresAnswer(t) ==
    /\ turns[t].pc = "remembered"
    /\ \/ /\ chat' = Appended([of |-> Session(t), turn |-> t, role |-> "assistant"])
          /\ turns' = [turns EXCEPT ![t].pc = "answered", ![t].id = Len(chat) + 1]
       \/ /\ turns' = [turns EXCEPT ![t].pc = "answered"]
          /\ UNCHANGED chat
    /\ UNCHANGED <<live, parting, registered, ledger, memory>>

(* totals_many, and the final frame.                                         *)
Totals(t) == UNION {ledger[Session(t)][a] : a \in {Own} \cup turns[t].kids}

SendsFinal(t) ==
    /\ turns[t].pc = "answered"
    /\ turns' = [turns EXCEPT ![t].pc = "done", ![t].covered = (Spent(t) \subseteq Totals(t))]
    /\ UNCHANGED <<live, parting, registered, ledger, chat, memory>>

(* Cancelled, failed or paused for the plan: nothing of it is recorded.      *)
EndsEarly(t) ==
    /\ turns[t].pc \in {"runs", "fans"}
    /\ turns' = [turns EXCEPT ![t].pc = "done"]
    /\ UNCHANGED <<live, parting, registered, ledger, chat, memory>>

-----------------------------------------------------------------------------
(* drop, reap_expired, _enforce_capacity; then dispose, on a thread.         *)
Pops(s) ==
    /\ s \in live /\ Cardinality(ChatSessions \ live) < MaxParted
    /\ live' = live \ {s}
    /\ parting' = [parting EXCEPT ![s] = "popped"]
    /\ UNCHANGED <<registered, ledger, chat, memory, turns>>

Forgets(s, accounts) ==
    /\ ledger' = [ledger EXCEPT ![s] = [a \in Accounts |-> IF a \in accounts THEN {} ELSE @[a]]]
    /\ turns' = [t \in ChatTurns |->
                    IF Session(t) = s THEN [turns[t] EXCEPT !.kept = FALSE] ELSE turns[t]]

DisposesKids(s) ==
    /\ parting[s] = "popped"
    /\ Forgets(s, registered[s])
    /\ registered' = [registered EXCEPT ![s] = {}]
    /\ parting' = [parting EXCEPT ![s] = "kids"]
    /\ UNCHANGED <<live, chat, memory>>

DisposesOwn(s) ==
    /\ parting[s] = "kids"
    /\ Forgets(s, {Own})
    /\ parting' = [parting EXCEPT ![s] = "own"]
    /\ UNCHANGED <<live, registered, chat, memory>>

(* delete_session_data: one transaction, of all of the rows or of none.      *)
DeletesRows(s) ==
    /\ parting[s] = "own"
    /\ \/ /\ chat' = [i \in DOMAIN chat |-> IF chat[i].of = s THEN DeletedRow ELSE chat[i]]
          /\ memory' = SelectSeq(memory, LAMBDA row : row.of # s)
       \/ UNCHANGED <<chat, memory>>
    /\ parting' = [parting EXCEPT ![s] = "done"]
    /\ UNCHANGED <<live, registered, ledger, turns>>

RecordsNext ==
    \/ \E t \in ChatTurns : \E s \in SessionsOf[t] : AsksIn(t, s)
    \/ \E t \in ChatTurns :
         \/ CallsModel(t) \/ BranchCalls(t) \/ FansOut(t) \/ FoldsBack(t)
         \/ Remembers(t) \/ StoresAnswer(t) \/ SendsFinal(t) \/ EndsEarly(t)
    \/ \E s \in ChatSessions : Pops(s) \/ DisposesKids(s) \/ DisposesOwn(s) \/ DeletesRows(s)

RecordsSpec == RecordsInit /\ [][RecordsNext]_recordVars
-----------------------------------------------------------------------------
(* What a later turn is reminded of: get_memories, oldest first, cut off.    *)
Recalls(s) ==
    LET mine == SelectSeq(memory, LAMBDA row : row.of = s)
    IN  SubSeq(mine, 1, IF Len(mine) < Recalled THEN Len(mine) ELSE Recalled)

(* The cost a turn is said to have is no less than what it and its branches  *)
(* have booked, the ones that were given up included, unless its session     *)
(* was disposed of meanwhile (release_subagent_runtime keeps the account for *)
(* this).                                                                    *)
TotalsCoverTheTurn == \A t \in ChatTurns : turns[t].kept => turns[t].covered

(* The message a final frame names is that turn's answer in that session, or *)
(* deleted: never, later on, a message of another turn (get_chat_message).   *)
FinalsNameTheirAnswer ==
    \A t \in ChatTurns : turns[t].id # 0 =>
        chat[turns[t].id] \in {DeletedRow, [of |-> Session(t), turn |-> t, role |-> "assistant"]}

(* A branch is said to have cost what it has spent: its account is its own   *)
(* (_act_parallel qualifies the id so that it does not collide).             *)
BranchCostIsItsOwn ==
    \A t \in ChatTurns : \A a \in BranchesOf(t) : \A c \in ledger[Session(t)][a] : c[1] = t

(* A session's newest memory is among what it recalls.                       *)
RecallReachesTheLatest ==
    \A s \in ChatSessions : \A i \in DOMAIN memory :
        /\ memory[i].of = s
        /\ \A j \in DOMAIN memory : j > i => memory[j].of # s
        => \E k \in DOMAIN Recalls(s) : Recalls(s)[k] = memory[i]
=============================================================================

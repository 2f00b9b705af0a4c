------------------------------- MODULE Services -------------------------------
(***************************************************************************)
(* The services around a turn of which something is proved, and what each  *)
(* group of them promises. They share nothing in these modules: each keeps *)
(* to its own variables.                                                   *)
(***************************************************************************)
EXTENDS Admission, JobQueue, Sandboxes, ModelDownloads, ModelRouting, ModelResidency,
        Skills, SkillFetch, Promotion, SemanticCache, Embeddings, ChatStream,
        SessionRecords

(* The limiter's quota and table, the gate's count, the queue's workers and  *)
(* the pool's containers stay within what they promise.                      *)
LimitsHold ==
    /\ QuotaHolds /\ TableIsBounded /\ LivingAreCounted
    /\ WorkersAreBounded
    /\ NoContainerIsLost /\ OneContainerEach

(* The page has one socket, files what it hears under the turn it is of and  *)
(* puts that turn's questions (use-chat-stream).                             *)
PageIsInOrder ==
    /\ OneLiveSocket /\ RunningNamesAMessage
    /\ FramesReachTheirOwn /\ OwnQuestionsArePut

(* Requests, connections, jobs and containers keep within their limits, and  *)
(* what is answered over a connection reaches the message of its turn.       *)
TrafficIsInOrder == LimitsHold /\ PageIsInOrder

(* No provider pulls more than it may, what is shown as completed is there,  *)
(* a session's assignments fit its data mode and rows of a hidden table stay *)
(* home, and one client serves a key (downloader, models routes, provider).  *)
ModelsAreInOrder ==
    /\ OnePullPerProvider /\ CompletedIsInstalled
    /\ AssignmentsFitTheMode /\ RowsStayHome
    /\ OneClientPerKey

(* The registry shows the skills on disk; what is fetched is the text of the *)
(* commit it is pinned to, a preview is of one commit, and nothing is read   *)
(* beside programs; a skill is offered once and not after it was declined;   *)
(* cached code is reused on the columns it was written for; no question      *)
(* waits for the encoder's warm-up; what a final frame says a turn cost      *)
(* covers every call of it and the row it names is of its own answer         *)
(* (skills, fetch, promotion, semantic cache, embeddings, usage ledger and   *)
(* chat messages).                                                           *)
MemoriesAreInOrder ==
    /\ RegistryIsCurrent
    /\ PinsHold /\ PreviewsAreOfOneCommit /\ NothingIsReadBesidePrograms
    /\ OfferedOnce /\ DeclinedIsNotOffered
    /\ ReusedOnItsSchema
    /\ NoQuestionWaitsForTheWarmUp
    /\ TotalsCoverTheTurn /\ FinalsNameTheirAnswer

(* A download that ended is shown so until it is cleared, a skill put under  *)
(* review stays what the user reviews, and a poll never sees a job go back   *)
(* (downloader, skills, queue).                                              *)
NothingGoesBack ==
    EndsAreShown /\ ReviewStands /\ PollsMoveForward
=============================================================================

------------------------------ MODULE Embeddings ------------------------------
(***************************************************************************)
(* EmbeddingService: which encoder serves a call. A warm-up thread started *)
(* with the backend and any number of questions resolve it together, under *)
(* one lock: a model on the provider if there is one and it answers a      *)
(* probe, a local model if that loads, or else the hashing encoder. A      *)
(* question ranks one stored row: it encodes its own text, and the row's   *)
(* again when the widths differ.                                           *)
(***************************************************************************)
EXTENDS Naturals

CONSTANTS
    Asking,         \* threads of questions
    MaxFailures     \* bound: failures of the provider that are told apart

ASSUME EmbeddingsAssumption == "warm" \notin Asking

VARIABLES
    warmingUp,  \* _warming
    remote,     \* _remote is set
    cooling,    \* _remote_checked, and the retry window is not over
    failures,   \* _remote_failures
    local,      \* _model and _load_failed: "unloaded", "loaded" or "failed"
    holder,     \* the thread that holds _lock: {} or {thread}
    encoding    \* what each thread is doing

embeddingVars == <<warmingUp, remote, cooling, failures, local, holder, encoding>>

EncoderThreads == {"warm"} \cup Asking
Encoders == {"hashing", "remote", "local"}
Width(encoder) == IF encoder = "remote" THEN 768 ELSE 384
Steps == {"idle", "check", "remote", "lockRemote", "probe", "call", "failed", "local",
          "lockLocal", "load", "encode", "settle", "over"}
Resting == [at |-> "idle", query |-> {}, stored |-> {}]

EmbeddingsTypeOK ==
    /\ {warmingUp, remote, cooling} \subseteq BOOLEAN
    /\ failures \in 0 .. MaxFailures
    /\ local \in {"unloaded", "loaded", "failed"}
    /\ holder \in {{}} \cup {{t} : t \in EncoderThreads}
    /\ encoding \in [EncoderThreads -> [at : Steps, query : {{}} \cup {{e} : e \in Encoders},
                                         stored : {{}} \cup {{e} : e \in Encoders}]]

EmbeddingsInit ==
    /\ warmingUp = TRUE     \* warm() has been called before a request is served
    /\ remote = FALSE /\ cooling = FALSE /\ failures = 0
    /\ local = "unloaded"
    /\ holder = {}
    /\ encoding = [t \in EncoderThreads |->
                    IF t = "warm" THEN [Resting EXCEPT !.at = "remote"] ELSE Resting]

ThreadGoes(t, at) == encoding' = [encoding EXCEPT ![t].at = at]
ThreadIsAt(t, at) == encoding[t].at = at
Failed == failures' = (IF failures < MaxFailures THEN failures + 1 ELSE failures) /\ cooling' = TRUE

-----------------------------------------------------------------------------
(* rank, for a row stored without a vector or by some encoder of an earlier  *)
(* run.                                                                      *)
RanksRow(t) ==
    /\ ThreadIsAt(t, "idle")
    /\ \E stored \in {{}} \cup {{e} : e \in Encoders} :
         encoding' = [encoding EXCEPT ![t] = [at |-> "check", query |-> {}, stored |-> stored]]
    /\ UNCHANGED <<warmingUp, remote, cooling, failures, local, holder>>

(* Encoded with e: the query first, and then the row if it has no vector of  *)
(* the query's width.                                                        *)
Encoded(t, e) ==
    IF t = "warm" THEN ThreadGoes(t, "settle")
    ELSE IF encoding[t].query # {}
         THEN encoding' = [encoding EXCEPT ![t].at = "over", ![t].stored = {e}]
    ELSE encoding' = [encoding EXCEPT ![t].query = {e},
            ![t].at = IF \E s \in encoding[t].stored : Width(s) = Width(e) THEN "over" ELSE "check"]

(* While the warm-up resolves, the hashing encoder answers.                  *)
Checks(t) ==
    /\ ThreadIsAt(t, "check")
    /\ IF warmingUp /\ ~remote /\ local # "loaded" THEN Encoded(t, "hashing")
       ELSE ThreadGoes(t, "remote")
    /\ UNCHANGED <<warmingUp, remote, cooling, failures, local, holder>>

(* _get_remote: the retry window is looked at before the lock only.          *)
LooksForRemote(t) ==
    /\ ThreadIsAt(t, "remote")
    /\ ThreadGoes(t, IF remote THEN "call" ELSE IF cooling THEN "local" ELSE "lockRemote")
    /\ UNCHANGED <<warmingUp, remote, cooling, failures, local, holder>>

LocksRemote(t) ==
    /\ ThreadIsAt(t, "lockRemote") /\ holder = {}
    /\ IF remote THEN ThreadGoes(t, "call") /\ UNCHANGED holder
       ELSE ThreadGoes(t, "probe") /\ holder' = {t}
    /\ UNCHANGED <<warmingUp, remote, cooling, failures, local>>

(* A data mode that forbids the provider, no embedding model on it and a     *)
(* probe without an answer are one failure.                                  *)
Probes(t) ==
    /\ ThreadIsAt(t, "probe")
    /\ holder' = {}
    /\ \/ remote' = TRUE /\ failures' = 0 /\ ThreadGoes(t, "call") /\ UNCHANGED cooling
       \/ Failed /\ ThreadGoes(t, "local") /\ UNCHANGED remote
    /\ UNCHANGED <<warmingUp, local>>

CallsRemote(t) ==
    /\ ThreadIsAt(t, "call")
    /\ IF t = "warm" THEN ThreadGoes(t, "settle")
       ELSE Encoded(t, "remote") \/ ThreadGoes(t, "failed")
    /\ UNCHANGED <<warmingUp, remote, cooling, failures, local, holder>>

DropsRemote(t) ==
    /\ ThreadIsAt(t, "failed")
    /\ remote' = FALSE /\ Failed
    /\ ThreadGoes(t, "local")
    /\ UNCHANGED <<warmingUp, local, holder>>

(* _get_model.                                                               *)
LooksForLocal(t) ==
    /\ ThreadIsAt(t, "local")
    /\ ThreadGoes(t, IF local = "unloaded" THEN "lockLocal" ELSE "encode")
    /\ UNCHANGED <<warmingUp, remote, cooling, failures, local, holder>>

LocksLocal(t) ==
    /\ ThreadIsAt(t, "lockLocal") /\ holder = {}
    /\ IF local = "unloaded" THEN ThreadGoes(t, "load") /\ holder' = {t}
       ELSE ThreadGoes(t, "encode") /\ UNCHANGED holder
    /\ UNCHANGED <<warmingUp, remote, cooling, failures, local>>

Loads(t) ==
    /\ ThreadIsAt(t, "load")
    /\ local' \in {"loaded", "failed"}
    /\ holder' = {}
    /\ ThreadGoes(t, "encode")
    /\ UNCHANGED <<warmingUp, remote, cooling, failures>>

(* A local model that cannot encode is given up.                             *)
EncodesLocally(t) ==
    /\ ThreadIsAt(t, "encode")
    /\ \/ local = "loaded" /\ Encoded(t, "local") /\ UNCHANGED local
       \/ local = "loaded" /\ t # "warm" /\ local' = "failed" /\ Encoded(t, "hashing")
       \/ local # "loaded" /\ Encoded(t, "hashing") /\ UNCHANGED local
    /\ UNCHANGED <<warmingUp, remote, cooling, failures, holder>>

WarmUpEnds ==
    /\ ThreadIsAt("warm", "settle")
    /\ warmingUp' = FALSE
    /\ ThreadGoes("warm", "over")
    /\ UNCHANGED <<remote, cooling, failures, local, holder>>

Scores(t) ==
    /\ ThreadIsAt(t, "over")
    /\ encoding' = [encoding EXCEPT ![t] = Resting]
    /\ UNCHANGED <<warmingUp, remote, cooling, failures, local, holder>>

(* The window, doubled by each failure up to a limit, passes.                *)
Cools ==
    /\ cooling
    /\ cooling' = FALSE
    /\ UNCHANGED <<warmingUp, remote, failures, local, holder, encoding>>

EmbeddingsNext ==
    \/ \E t \in EncoderThreads :
         \/ LooksForRemote(t) \/ LocksRemote(t) \/ Probes(t) \/ CallsRemote(t)
         \/ LooksForLocal(t) \/ LocksLocal(t) \/ Loads(t) \/ EncodesLocally(t)
    \/ \E t \in Asking : RanksRow(t) \/ Checks(t) \/ DropsRemote(t) \/ Scores(t)
    \/ WarmUpEnds \/ Cools

EmbeddingsSpec == EmbeddingsInit /\ [][EmbeddingsNext]_embeddingVars

-----------------------------------------------------------------------------
(* "A question must never wait on retrieval infrastructure": none queues     *)
(* behind the warm-up, which may take minutes to load a model (encode_many,  *)
(* warm).                                                                    *)
NoQuestionWaitsForTheWarmUp ==
    \A t \in Asking : holder = {"warm"} => encoding[t].at \notin {"lockRemote", "lockLocal"}

(* "`rank` re-encodes any vector stored at the wrong width later": what is   *)
(* compared came from one encoder.                                           *)
ComparesLikeWithLike ==
    \A t \in Asking : ThreadIsAt(t, "over") => encoding[t].query = encoding[t].stored

(* "the negative result is remembered and only retried occasionally".        *)
ProbesOncePerWindow ==
    [][\A t \in EncoderThreads :
          ThreadIsAt(t, "lockRemote") /\ encoding'[t].at = "probe" => ~cooling]_embeddingVars
=============================================================================

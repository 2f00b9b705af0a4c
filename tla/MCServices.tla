------------------------------ MODULE MCServices ------------------------------
(***************************************************************************)
(* The services around a turn for TLC: models, memories, limits, records,  *)
(* sandboxes and the page. In these modules they share nothing, so a       *)
(* behaviour is one of them, named by `part`, and their state spaces add   *)
(* up instead of multiplying.                                              *)
(***************************************************************************)
EXTENDS Services, TLC

VARIABLE part

\* Users ask for no change, for a provider with or without its model, for the default.
MCRequests ==
    [{1, 2} -> {[provider |-> p, model |-> "unset"] : p \in {"unset", "none", "openai"}}
                 \cup {[provider |-> "openai", model |-> "openai"]}]
MCDefault == [manager |-> "m1", worker |-> "m2", vision |-> "m1"]

\* One directory at the root and one in skills/; a name that is no path segment.
MCPlaces == {"root", "skills", "a", "b", "odd name"}
MCAbove == [p \in MCPlaces |-> IF p = "b" THEN "skills" ELSE "root"]
Tree(root, skills, a, b, odd) ==
    "root" :> root @@ "skills" :> skills @@ "a" :> a @@ "b" :> b @@ "odd name" :> odd
MCTrees ==
    {Tree("plain", "plain", "skill", "skill", "absent"),
     Tree("plain", "absent", "broken", "absent", "skill"),
     Tree("skill", "absent", "crowded", "absent", "absent"),
     Tree("plain", "skill", "payload", "large", "absent")}
MCAlike == {<<1, 1>>}

\* One turn is always asked in the session that another may be asked in too.
MCSessionsOf == "t1" :> {"s1"} @@ "t2" :> {"s1", "s2"}

VARIABLES pieces, rest, reading, pending, inside, thought, visible, answer
thoughtVars == <<pieces, rest, reading, pending, inside, thought, visible, answer>>
Thoughts == INSTANCE ThoughtStream WITH
    pc <- reading,
    MaxPieces <- 4, MaxTagChars <- 6

Parts == {"downloads", "routing", "residency", "skills", "fetch", "promotion", "cache",
          "embeddings", "admission", "queue", "page", "records", "sandboxes", "thoughts"}
modelVars == <<downloadVars, routingVars, residencyVars>>
memoryVars == <<skillVars, fetchVars, promotionVars, cacheVars, embeddingVars>>
limitVars == <<admissionVars, queueVars, boxVars>>
chatVars == <<streamVars, recordVars, thoughtVars>>
vars == <<part, modelVars, memoryVars, limitVars, chatVars>>

\* What may begin in several ways does so only where it is the part that runs.
MCInit ==
    /\ part \in Parts
    /\ DownloadsInit /\ (part = "downloads" \/ provider = "ollama")
    /\ RoutingInit /\ ResidencyInit
    /\ SkillsInit /\ (part = "skills" \/ files = [l \in Layers |-> {}])
    /\ FetchInit
    /\ part = "fetch" \/ (~gist /\ default = "main" /\ commits[1].tree["root"] = "skill")
    /\ PromotionInit
    /\ CacheInit /\ (part = "cache" \/ columns = "s1")
    /\ EmbeddingsInit
    /\ AdmissionInit /\ QueueInit
    /\ StreamInit /\ RecordsInit /\ BoxInit
    /\ Thoughts!ThoughtInit /\ (part = "thoughts" \/ pieces = <<>>)

ModelsNext ==
    \/ /\ part = "downloads" /\ DownloadsNext
       /\ UNCHANGED <<routingVars, residencyVars>>
    \/ /\ part = "routing" /\ RoutingNext
       /\ UNCHANGED <<downloadVars, residencyVars>>
    \/ /\ part = "residency" /\ ResidencyNext
       /\ UNCHANGED <<downloadVars, routingVars>>

MemoriesNext ==
    \/ /\ part = "skills" /\ SkillsNext
       /\ UNCHANGED <<fetchVars, promotionVars, cacheVars, embeddingVars>>
    \/ /\ part = "fetch" /\ FetchNext
       /\ UNCHANGED <<skillVars, promotionVars, cacheVars, embeddingVars>>
    \/ /\ part = "promotion" /\ PromotionNext
       /\ UNCHANGED <<skillVars, fetchVars, cacheVars, embeddingVars>>
    \/ /\ part = "cache" /\ CacheNext
       /\ UNCHANGED <<skillVars, fetchVars, promotionVars, embeddingVars>>
    \/ /\ part = "embeddings" /\ EmbeddingsNext
       /\ UNCHANGED <<skillVars, fetchVars, promotionVars, cacheVars>>

LimitsNext ==
    \/ part = "admission" /\ AdmissionNext /\ UNCHANGED <<queueVars, boxVars>>
    \/ part = "queue" /\ QueueNext /\ UNCHANGED <<admissionVars, boxVars>>
    \/ part = "sandboxes" /\ BoxNext /\ UNCHANGED <<admissionVars, queueVars>>

ChatNext ==
    \/ part = "page" /\ StreamNext /\ UNCHANGED <<recordVars, thoughtVars>>
    \/ part = "records" /\ RecordsNext /\ UNCHANGED <<streamVars, thoughtVars>>
    \/ part = "thoughts" /\ Thoughts!ThoughtNext /\ UNCHANGED <<streamVars, recordVars>>

MCNext ==
    /\ UNCHANGED part
    /\ \/ ModelsNext /\ UNCHANGED <<memoryVars, limitVars, chatVars>>
       \/ MemoriesNext /\ UNCHANGED <<modelVars, limitVars, chatVars>>
       \/ LimitsNext /\ UNCHANGED <<modelVars, memoryVars, chatVars>>
       \/ ChatNext /\ UNCHANGED <<modelVars, memoryVars, limitVars>>

MCSpec == MCInit /\ [][MCNext]_vars
-----------------------------------------------------------------------------
(* The reasoning stream sends the pieces a whole reply would be split into   *)
(* however it is cut, and swallows none of it (reasoning, orchestrator).     *)
ThoughtsAreShown == Thoughts!StreamFollowsSplit /\ Thoughts!NothingIsSwallowed
=============================================================================

---------------------------- MODULE ModelResidency ----------------------------
(***************************************************************************)
(* core/llm/provider.py and core/llm/resources.py: how long the model      *)
(* server is told to hold a model, worked out once for the set of models   *)
(* that compete for its memory, and the clients that are cached per        *)
(* specification. Calls come from the event loop and from other threads.   *)
(* The local provider is Ollama; the models of a gateway need a key.       *)
(***************************************************************************)
EXTENDS Naturals, FiniteSets

CONSTANTS
    Local, Remote,  \* models of Ollama and of a gateway
    Embedder,       \* the encoder, when Ollama serves it
    Default,        \* default_model_for, per role
    Callers,        \* threads that call a model, among them Warmer
    Warmer,         \* the thread of warm
    Budget,         \* how many models fit in the memory
    MaxEvents,      \* bound: changes of the gateway's key and of a session's models, and
                    \* plans made while the list of models cannot be had
    MaxReleases     \* bound: releases on their way at once

Models == Local \cup Remote
Nobody == "nobody"

ASSUME ResidencyAssumption == Warmer \in Callers /\ Nobody \notin Callers

Roles == {"manager", "worker", "vision"}

VARIABLES
    plans,      \* _plans: a set of models -> keep_alive
    embedding,  \* embedding_service.resolved_remote() is not None
    outages,
    assigned,   \* session.models
    selections,
    apiKey,     \* the stored credential, by its number
    clearing,   \* a change has been stored and clear_cache is still to come
    clients,    \* _clients
    cleared,    \* how often clear_cache has run
    clientsLock, \* _lock
    pc, spec, client,   \* of each caller
    warming,    \* not yet warmed, warming, warmed
    toWarm,     \* models the warm-up has still to ping
    releases    \* models whose release is on its way, on a thread of its own

residencyVars == <<plans, embedding, outages, assigned, selections, apiKey, clearing, clients,
                   cleared, clientsLock, pc, spec, client, warming, toWarm, releases>>
planVars == <<plans, embedding, outages>>
settingVars == <<assigned, selections, apiKey, clearing>>
clientVars == <<clients, cleared, clientsLock>>
callVars == <<pc, spec, client>>
serverVars == <<warming, toWarm, releases>>

KeepAlives == {"", "long", "short"}
Specs == [model : Models, keepAlive : KeepAlives, apiKey : 0 .. MaxEvents]
NoSpec == [model |-> Nobody]
NoClient == [by |-> Nobody]

ResidencyInit ==
    /\ plans = <<>> /\ embedding = FALSE /\ outages = 0
    /\ assigned = Default /\ selections = 0 /\ apiKey = 0 /\ clearing = FALSE
    /\ clients = {} /\ cleared = 0 /\ clientsLock = Nobody
    /\ pc = [c \in Callers |-> "idle"]
    /\ spec = [c \in Callers |-> NoSpec] /\ client = [c \in Callers |-> NoClient]
    /\ warming = "no" /\ toWarm = {} /\ releases = {}

ResidencyTypeOK ==
    /\ DOMAIN plans \subseteq SUBSET (Local \cup {Embedder})
    /\ assigned \in [Roles -> Models]
    /\ pc \in [Callers -> {"idle", "resolved", "missed", "builds", "calls"}]
    /\ \A c \in Callers : pc[c] # "idle" => spec[c] \in Specs
    /\ clientsLock \in Callers \cup {Nobody}
    /\ toWarm \cup releases \subseteq Models

-----------------------------------------------------------------------------
(* resident_plan: the default models, and the encoder once it is known.      *)
Planned ==
    {Default[role] : role \in Roles} \cup (IF embedding THEN {Embedder} ELSE {})

(* plan_for_models and plan_resident_set: a model that is not listed is not  *)
(* counted.                                                                  *)
PlanFor(names, listed) ==
    IF listed /\ Cardinality(names) > Budget /\ Cardinality(names) > 1 THEN "short" ELSE "long"

KeepAliveFor(model, listed) ==
    IF model \in Remote THEN ""
    ELSE IF Planned \in DOMAIN plans THEN plans[Planned] ELSE PlanFor(Planned, listed)

(* resident_plan for a call, for the encoder or for the diagnostics.         *)
Plans(listed) ==
    IF Planned \in DOMAIN plans THEN UNCHANGED <<plans, outages>>
    ELSE /\ listed \/ outages + apiKey + selections < MaxEvents
         /\ outages' = IF listed THEN outages ELSE outages + 1
         /\ plans' = [names \in DOMAIN plans \cup {Planned} |->
                        IF names = Planned THEN PlanFor(names, listed) ELSE plans[names]]

EncoderResolves ==
    /\ ~embedding /\ embedding' = TRUE
    /\ UNCHANGED <<plans, outages, settingVars, clientVars, callVars, serverVars>>

-----------------------------------------------------------------------------
CacheKey(s) == <<s.model, s.keepAlive>>
Cached(s) == {made \in clients : CacheKey(made.spec) = CacheKey(s)}

(* resolve                                                                   *)
Resolves(c, model, listed) ==
    /\ pc[c] = "idle"
    /\ IF model \in Local THEN Plans(listed) ELSE UNCHANGED <<plans, outages>>
    /\ spec' = [spec EXCEPT ![c] = [model |-> model, keepAlive |-> KeepAliveFor(model, listed),
                                    apiKey |-> IF model \in Remote THEN apiKey ELSE 0]]
    /\ pc' = [pc EXCEPT ![c] = "resolved"]
    /\ UNCHANGED <<embedding, settingVars, clientVars, client>>

Asks(c, role, listed) ==
    /\ c # Warmer
    /\ Resolves(c, assigned[role], listed)
    /\ UNCHANGED serverVars

Takes(c, made) ==
    /\ client' = [client EXCEPT ![c] = made]
    /\ pc' = [pc EXCEPT ![c] = "calls"]

(* get_client, before the lock                                               *)
Looks(c) ==
    /\ pc[c] = "resolved"
    /\ IF Cached(spec[c]) # {} THEN \E made \in Cached(spec[c]) : Takes(c, made)
       ELSE pc' = [pc EXCEPT ![c] = "missed"] /\ UNCHANGED client
    /\ UNCHANGED <<planVars, settingVars, clientVars, spec, serverVars>>

(* Mutant of Enters: the cache is not looked at again.                       *)
EntersBlind(c) ==
    /\ pc[c] = "missed" /\ clientsLock = Nobody
    /\ clientsLock' = c /\ pc' = [pc EXCEPT ![c] = "builds"]
    /\ UNCHANGED <<planVars, settingVars, clients, cleared, spec, client, serverVars>>

(* get_client, under the lock: the cache is looked at again.                 *)
Enters(c) ==
    /\ pc[c] = "missed" /\ clientsLock = Nobody
    /\ IF Cached(spec[c]) # {}
       THEN (\E made \in Cached(spec[c]) : Takes(c, made)) /\ UNCHANGED clientsLock
       ELSE clientsLock' = c /\ pc' = [pc EXCEPT ![c] = "builds"] /\ UNCHANGED client
    /\ UNCHANGED <<planVars, settingVars, clients, cleared, spec, serverVars>>

Builds(c) ==
    /\ pc[c] = "builds" /\ clientsLock = c
    /\ LET made == [spec |-> spec[c], by |-> c, since |-> cleared]
       IN  /\ clients' = (clients \ Cached(spec[c])) \cup {made}
           /\ Takes(c, made)
    /\ clientsLock' = Nobody
    /\ UNCHANGED <<planVars, settingVars, cleared, spec, serverVars>>

Ends(c) == pc' = [pc EXCEPT ![c] = "idle"] /\ spec' = [spec EXCEPT ![c] = NoSpec]

(* No model, no package or an error: nothing is cached and the call fails.   *)
BuildFails(c) ==
    /\ pc[c] = "builds" /\ clientsLock = c
    /\ clientsLock' = Nobody /\ Ends(c) /\ UNCHANGED client
    /\ UNCHANGED <<planVars, settingVars, clients, cleared, serverVars>>

Returns(c) ==
    /\ pc[c] = "calls"
    /\ Ends(c) /\ client' = [client EXCEPT ![c] = NoClient]
    /\ UNCHANGED <<planVars, settingVars, clientVars, serverVars>>

-----------------------------------------------------------------------------
(* set_provider_credential, delete_provider_credential                       *)
StoresKey ==
    /\ outages + apiKey + selections < MaxEvents /\ ~clearing
    /\ apiKey' = apiKey + 1 /\ clearing' = TRUE
    /\ UNCHANGED <<planVars, assigned, selections, clientVars, callVars, serverVars>>

(* set_models; the checks of the data mode are ModelRouting's.               *)
Selects(role, model) ==
    /\ outages + apiKey + selections < MaxEvents /\ ~clearing /\ assigned[role] # model
    /\ assigned' = [assigned EXCEPT ![role] = model]
    /\ selections' = selections + 1 /\ clearing' = TRUE
    /\ UNCHANGED <<planVars, apiKey, clientVars, callVars, serverVars>>

ClearsCache ==
    /\ clearing /\ clientsLock = Nobody
    /\ clients' = {} /\ cleared' = cleared + 1 /\ clearing' = FALSE
    /\ UNCHANGED <<planVars, assigned, selections, apiKey, clientsLock, callVars, serverVars>>

-----------------------------------------------------------------------------
(* warm, at startup, and its thread: each model is pinged once.              *)
Warms ==
    /\ warming = "no"
    /\ warming' = "warming" /\ toWarm' = {Default["manager"], Default["worker"]}
    /\ UNCHANGED <<planVars, settingVars, clientVars, callVars, releases>>

Pings(model, listed) ==
    /\ model \in toWarm
    /\ Resolves(Warmer, model, listed)
    /\ toWarm' = toWarm \ {model}
    /\ UNCHANGED <<warming, releases>>

Warmed ==
    /\ warming = "warming" /\ toWarm = {} /\ pc[Warmer] = "idle"
    /\ warming' = "warmed"
    /\ UNCHANGED <<planVars, settingVars, clientVars, callVars, toWarm, releases>>

(* run, of the orchestrator: the manager is released for a turn that will    *)
(* not need it, and the model of vision before the answer.                   *)
Spared(role) == IF role = "manager" THEN "worker" ELSE "manager"

ReleasesModel(role) ==
    /\ role \in {"manager", "vision"} /\ Cardinality(releases) < MaxReleases
    /\ assigned[role] \in Local /\ assigned[role] # assigned[Spared(role)]
    /\ releases' = releases \cup {assigned[role]}
    /\ UNCHANGED <<planVars, settingVars, clientVars, callVars, warming, toWarm>>

Posts(model) ==
    /\ model \in releases /\ releases' = releases \ {model}
    /\ UNCHANGED <<planVars, settingVars, clientVars, callVars, warming, toWarm>>

ResidencyNext ==
    \/ EncoderResolves \/ StoresKey \/ ClearsCache \/ Warms \/ Warmed
    \/ \E c \in Callers, role \in Roles, listed \in BOOLEAN : Asks(c, role, listed)
    \/ \E model \in Models, listed \in BOOLEAN : Pings(model, listed)
    \/ \E c \in Callers : Looks(c) \/ Enters(c) \/ Builds(c) \/ BuildFails(c) \/ Returns(c)
    \/ \E role \in Roles, model \in Models : Selects(role, model)
    \/ \E role \in Roles : ReleasesModel(role)
    \/ \E model \in Models : Posts(model)

ResidencySpec == ResidencyInit /\ [][ResidencyNext]_residencyVars

-----------------------------------------------------------------------------
(* Callers that race for a client no one has built yet are given the same    *)
(* one, and a client outlives a clear_cache only in the hands that hold it:  *)
(* the second look under the lock (get_client).                              *)
OneClientPerKey ==
    \A c, d \in Callers :
        /\ pc[c] = "calls" /\ pc[d] = "calls"
        /\ CacheKey(spec[c]) = CacheKey(spec[d]) /\ client[c].since = client[d].since
        => client[c] = client[d]

(* "A key changes what a client can reach" (meta.py:383): once the clients   *)
(* have been cleared none is cached that was built with an older key.        *)
ClientsUseTheKey ==
    ~clearing => \A made \in clients : made.spec.model \in Remote => made.spec.apiKey = apiKey

(* Models are told to stay only where they fit together (resources.py).      *)
PlansFit == \A names \in DOMAIN plans : plans[names] = "long" => Cardinality(names) <= Budget

(* "Whether the models actually in play can be resident at once"             *)
(* (provider.py:176): a call of a local model is planned for.                *)
PlansCoverTheCalls ==
    \A c \in Callers : pc[c] = "calls" /\ spec[c].model \in Local => spec[c].model \in Planned

(* A release "would also evict the model the other role needs on its very    *)
(* next call" (provider.py:333): none is under way for the worker's model.   *)
ReleasesSpareTheWorker == assigned["worker"] \notin releases
=============================================================================

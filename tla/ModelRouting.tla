---------------------------- MODULE ModelRouting ----------------------------
(***************************************************************************)
(* Where a session's prompts go: the model and the provider each role is   *)
(* assigned, the data mode, the policy of the table in use. The routes    *)
(* that change them run on the event loop, where select_models lets others *)
(* in each time it asks a provider for a default model; the cleaning of an *)
(* upload runs on a thread beside them.                                    *)
(*                                                                         *)
(* A model is told by the provider that has it. What a step sends is in    *)
(* `sent` until the next step.                                             *)
(***************************************************************************)
EXTENDS Naturals, FiniteSets

CONSTANTS
    LocalProviders, CloudProviders, \* LOCAL_PROVIDERS and CLOUD_PROVIDERS
    DefaultProvider,    \* settings.API_PROVIDER
    DefaultMode,        \* settings.data_mode
    Requests,           \* what users ask select_models for
    RoleNumbers         \* in the order of select_models: 1 the manager, 2 the worker, 3 vision

Modes == {"local-only", "cloud-only", "hybrid"}
Providers == LocalProviders \cup CloudProviders

ASSUME RoutingAssumption ==
    /\ "none" \notin Providers /\ "unset" \notin Providers
    /\ DefaultProvider \in Providers /\ DefaultMode \in Modes
    /\ {1, 2} \subseteq RoleNumbers /\ RoleNumbers \subseteq 1 .. 3
    /\ Requests \subseteq [RoleNumbers -> [provider : Providers \cup {"none", "unset"},
                                          model : Providers \cup {"unset"}]]

VARIABLES
    mode,       \* Session.data_mode
    hides,      \* schema_only_for the active table
    routed,     \* Session.models
    selecting,  \* the select_models request that waits for a default model
    crossed,    \* whether the mode was last changed while one waited
    cleaning,   \* what the cleaning thread does
    searching,  \* whether a search has passed its check
    sent        \* what this step sent

routingVars == <<mode, hides, routed, selecting, crossed, cleaning, searching, sent>>

None == "none"
Unset == "unset"
AtRest == [at |-> "idle"]
Nothing == [to |-> None]
Manager == 1
Worker == 2
Prompts == [to : Providers \cup {"web"}, by : {"turn", "council", "cleaning"}, real : BOOLEAN,
            hides : BOOLEAN, mode : Modes, stale : BOOLEAN]

RoutingTypeOK ==
    /\ mode \in Modes /\ hides \in BOOLEAN /\ crossed \in BOOLEAN
    /\ routed \in [RoleNumbers -> [provider : Providers \cup {None}, model : Providers \cup {None}]]
    /\ \/ selecting = AtRest
       \/ selecting \in [at : RoleNumbers, request : Requests]
    /\ \/ cleaning = AtRest
       \/ cleaning \in [at : {"looked", "built"}, to : Providers, real : BOOLEAN, stale : BOOLEAN]
    /\ searching \in BOOLEAN
    /\ sent = Nothing \/ sent \in Prompts

RoutingInit ==
    /\ mode = DefaultMode /\ hides = TRUE
    /\ routed = [r \in RoleNumbers |-> [provider |-> None, model |-> None]]
    /\ selecting = AtRest /\ crossed = FALSE /\ cleaning = AtRest /\ searching = FALSE
    /\ sent = Nothing

Resolved(p) == IF p = None THEN DefaultProvider ELSE p
Forbids(m, p) ==
    \/ m = "local-only" /\ p \in CloudProviders
    \/ m = "cloud-only" /\ p \in LocalProviders
ProviderOf(role) == Resolved(routed[role].provider)
ShouldRedact(p) == p \in CloudProviders /\ (mode = "local-only" \/ hides)
RedactFor(role) == ShouldRedact(ProviderOf(role))
(* Reads that came before a change, on the cleaning thread. *)
Outdated == IF cleaning = AtRest THEN AtRest ELSE [cleaning EXCEPT !.stale = TRUE]

-----------------------------------------------------------------------------
(* set_data_mode and the routes of the policy. *)
Fits(m, a) ==
    IF a.provider # None /\ Forbids(m, a.provider) THEN [provider |-> None, model |-> None] ELSE a

SetsMode(m) ==
    /\ m # mode
    /\ mode' = m
    /\ routed' = [r \in RoleNumbers |-> Fits(m, routed[r])]
    /\ crossed' = (selecting # AtRest)
    /\ cleaning' = Outdated /\ sent' = Nothing
    /\ UNCHANGED <<hides, selecting, searching>>

SetsPolicy ==
    /\ hides' = ~hides
    /\ cleaning' = Outdated /\ sent' = Nothing
    /\ UNCHANGED <<mode, routed, selecting, crossed, searching>>

-----------------------------------------------------------------------------
(* select_models. A provider without a model has the request wait for the    *)
(* default model of that provider; what the roles before it asked for is in  *)
(* force by then, and its own provider too.                                  *)
Waits(asked) == asked.provider # Unset /\ asked.model = Unset
Given(asked, a) == [provider |-> IF asked.provider = Unset THEN a.provider ELSE asked.provider,
                    model |-> IF asked.model = Unset THEN a.model ELSE asked.model]

TakesFrom(first, request, models) ==
    LET waiting == {r \in RoleNumbers : r >= first /\ Waits(request[r])}
        next == {r \in RoleNumbers : r >= first /\ \A w \in waiting : w >= r} IN
    /\ routed' = [r \in RoleNumbers |->
                      IF r \in next THEN Given(request[r], models[r]) ELSE models[r]]
    /\ IF waiting = {}
       THEN selecting' = AtRest
       ELSE selecting' = [at |-> CHOOSE w \in waiting : w \in next, request |-> request]

SelectsModels(request) ==
    /\ selecting = AtRest
    /\ \A r \in RoleNumbers : request[r].provider \in Providers => ~Forbids(mode, request[r].provider)
    /\ TakesFrom(Manager, request, routed)
    /\ cleaning' = Outdated /\ sent' = Nothing
    /\ UNCHANGED <<mode, hides, crossed, searching>>

SelectionResumes ==
    /\ selecting # AtRest
    /\ LET asked == selecting.request[selecting.at].provider IN
        \E suggested \in {Resolved(asked), None} :
            TakesFrom(selecting.at + 1, selecting.request,
                      [routed EXCEPT ![selecting.at].model = suggested])
    /\ cleaning' = Outdated /\ sent' = Nothing
    /\ UNCHANGED <<mode, hides, crossed, searching>>

-----------------------------------------------------------------------------
(* The calls of a turn. A prompt is made and its provider resolved without a *)
(* pause; the session's mode is asked in resolve.                            *)
Sends(p, by, real, stale) ==
    sent' = [to |-> p, by |-> by, real |-> real, hides |-> hides, mode |-> mode, stale |-> stale]

Calls(role, real) ==
    /\ ~Forbids(mode, ProviderOf(role))
    /\ Sends(ProviderOf(role), "turn", real, FALSE)
    /\ UNCHANGED <<mode, hides, routed, selecting, crossed, cleaning, searching>>

AsksForPlan == Calls(Manager, ~RedactFor(Manager))
Generates == Calls(Worker, ~RedactFor(Worker))

(* Decisions, reflections, verifications, answers and captions carry no rows. *)
CallsWithoutRows(role) == Calls(role, FALSE)

(* A specialist names neither the session nor its mode. *)
CouncilAsks ==
    /\ ~Forbids(DefaultMode, ProviderOf(Manager))
    /\ Sends(ProviderOf(Manager), "council", FALSE, FALSE)
    /\ UNCHANGED <<mode, hides, routed, selecting, crossed, cleaning, searching>>

(* The mode is asked again before the search, and then the client is told.   *)
SearchPassesCheck ==
    /\ mode # "local-only" /\ ~searching
    /\ searching' = TRUE /\ sent' = Nothing
    /\ UNCHANGED <<mode, hides, routed, selecting, crossed, cleaning>>

Searches ==
    /\ searching
    /\ searching' = FALSE
    /\ Sends("web", "turn", FALSE, FALSE)
    /\ UNCHANGED <<mode, hides, routed, selecting, crossed, cleaning>>

-----------------------------------------------------------------------------
(* clean_dataset, on a thread: the provider, the prompt with the redaction   *)
(* for that provider, then the provider, the model and the mode once more.   *)
CleanLooks ==
    /\ cleaning = AtRest
    /\ cleaning' = [at |-> "looked", to |-> ProviderOf(Worker), real |-> FALSE,
                    stale |-> FALSE]
    /\ sent' = Nothing
    /\ UNCHANGED <<mode, hides, routed, selecting, crossed, searching>>

CleanBuilds ==
    /\ cleaning.at = "looked"
    /\ cleaning' = [cleaning EXCEPT !.at = "built", !.real = ~ShouldRedact(cleaning.to)]
    /\ sent' = Nothing
    /\ UNCHANGED <<mode, hides, routed, selecting, crossed, searching>>

CleanSends ==
    /\ cleaning.at = "built"
    /\ IF Forbids(mode, ProviderOf(Worker)) THEN sent' = Nothing
       ELSE Sends(ProviderOf(Worker), "cleaning", cleaning.real, cleaning.stale)
    /\ cleaning' = AtRest
    /\ UNCHANGED <<mode, hides, routed, selecting, crossed, searching>>

RoutingNext ==
    \/ \E m \in Modes : SetsMode(m)
    \/ SetsPolicy
    \/ \E request \in Requests : SelectsModels(request)
    \/ SelectionResumes
    \/ AsksForPlan \/ Generates \/ CouncilAsks
    \/ \E r \in RoleNumbers : CallsWithoutRows(r)
    \/ SearchPassesCheck \/ Searches
    \/ CleanLooks \/ CleanBuilds \/ CleanSends

RoutingSpec == RoutingInit /\ [][RoutingNext]_routingVars

-----------------------------------------------------------------------------
(* No role is left on a provider the mode forbids, whatever was assigned     *)
(* before the mode was chosen, unless the mode was last changed while a      *)
(* selection waited for a default model: that one goes on as it began        *)
(* (set_data_mode, select_models).                                           *)
AssignmentsFitTheMode ==
    ~crossed => \A r \in RoleNumbers : routed[r].provider # None => ~Forbids(mode, routed[r].provider)

(* The rows of a table whose policy is schema-only reach no cloud provider:  *)
(* each prompt is stripped for the provider of the role it goes to. Exempt   *)
(* is a cleaning prompt during whose making the assignments, the mode or the *)
(* policy were changed (_redact_for, should_redact, clean_dataset).          *)
RowsStayHome ==
    sent # Nothing /\ sent.real /\ sent.to \in CloudProviders => ~sent.hides \/ sent.stale

(* "Enforced in one place - LLMProvider.resolve, which every call already    *)
(* passes through, so a session that sets its own manager_provider cannot    *)
(* route around it" (data_mode.py:7): no model is called on a provider the   *)
(* session's mode forbids.                                                   *)
ModelCallsKeepTheMode ==
    sent # Nothing /\ sent.to \in Providers => ~Forbids(sent.mode, sent.to)
=============================================================================

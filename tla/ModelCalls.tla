----------------------------- MODULE ModelCalls -----------------------------
(***************************************************************************)
(* The model calls of a turn.  Every call passes the budget gate, which    *)
(* counts per call site and kind in the scope bound to the turn; a task    *)
(* outside a turn gets a scope of its own on its first call and keeps it.  *)
(* An accepted generation retrieves context, takes an inference lease,     *)
(* probes the model and calls the provider, with an await before each.     *)
(***************************************************************************)
EXTENDS LlmReadiness, TLC

CONSTANTS
    Tasks,           \* tasks that serve turns
    LooseTasks,      \* tasks that call models outside any turn
    BudgetTables,    \* [model_call_budget] tables of the configuration file
    LocalCalls,      \* call sites and kinds of the local model wrappers
    MaxAsks          \* bound: gate checks of one task in one scope

ModelCallKind == {"large_llm", "small_classifier", "embedding", "reranker", "background_llm"}

ModelCallSite ==
    {"user_response_hot_path", "event_reaction", "proactive", "memory_extraction",
     "reflection", "relationship_update", "interaction_policy_candidate",
     "runtime_learning_hook"}

CascadeFallbackBehavior ==
    {"no_op", "deterministic_baseline", "defer", "enqueue_background", "reject"}

-----------------------------------------------------------------------------
\* The configuration: percentages for probabilities.

FeatureBudget ==
    [large_llm |-> 0, small_classifier |-> 0, embedding |-> 0, reranker |-> 0,
     background_llm |-> 0, confidence_threshold |-> 65,
     low_confidence_fallback |-> "no_op", high_risk_escalation_allowed |-> FALSE,
     uncertain_escalation_allowed |-> FALSE, enqueue_only |-> FALSE]

DefaultBudgets ==
    [site \in ModelCallSite |->
        CASE site = "user_response_hot_path" ->
               [FeatureBudget EXCEPT
                   !.large_llm = 1, !.small_classifier = 1, !.embedding = 1, !.reranker = 1,
                   !.low_confidence_fallback = "deterministic_baseline",
                   !.high_risk_escalation_allowed = TRUE,
                   !.uncertain_escalation_allowed = TRUE]
          [] site = "event_reaction" ->
               [FeatureBudget EXCEPT
                   !.large_llm = 1, !.low_confidence_fallback = "deterministic_baseline"]
          [] site = "proactive" ->
               [FeatureBudget EXCEPT
                   !.large_llm = 1, !.small_classifier = 1, !.embedding = 1,
                   !.background_llm = 1, !.low_confidence_fallback = "defer",
                   !.high_risk_escalation_allowed = TRUE,
                   !.uncertain_escalation_allowed = TRUE]
          [] site = "memory_extraction" ->
               [FeatureBudget EXCEPT
                   !.small_classifier = 1, !.embedding = 1, !.background_llm = 1,
                   !.low_confidence_fallback = "enqueue_background"]
          [] site = "reflection" ->
               [FeatureBudget EXCEPT
                   !.embedding = 1, !.background_llm = 1, !.low_confidence_fallback = "defer"]
          [] site = "relationship_update" ->
               [FeatureBudget EXCEPT
                   !.small_classifier = 1, !.embedding = 1, !.background_llm = 1]
          [] site = "interaction_policy_candidate" ->
               [FeatureBudget EXCEPT
                   !.small_classifier = 1, !.embedding = 1, !.reranker = 1,
                   !.background_llm = 1, !.low_confidence_fallback = "reject"]
          [] site = "runtime_learning_hook" ->
               [FeatureBudget EXCEPT
                   !.background_llm = 1, !.enqueue_only = TRUE,
                   !.low_confidence_fallback = "enqueue_background"]]

\* A key of the site's table replaces the default.
ApplyFeatureBudgetToml(budget, table) == table @@ budget

SiteInvariants(budget, site) ==
    /\ site = "user_response_hot_path" => budget.large_llm <= 1
    /\ site = "runtime_learning_hook" => budget.enqueue_only /\ budget.large_llm <= 0

ValidFeatureBudget(budget, site) ==
    /\ \A kind \in ModelCallKind : budget[kind] >= 0
    /\ budget.confidence_threshold \in 0..100
    /\ budget.low_confidence_fallback \in CascadeFallbackBehavior
    /\ SiteInvariants(budget, site)

\* The budget of a site that a table makes of the default.
FeatureBudgetForSite(table, site) ==
    IF site \in DOMAIN table.sites
    THEN ApplyFeatureBudgetToml(DefaultBudgets[site], table.sites[site])
    ELSE DefaultBudgets[site]

\* An invalid table is a ConfigError: the server does not start with it.
ValidBudgetConfig(table) ==
    \A site \in ModelCallSite : ValidFeatureBudget(FeatureBudgetForSite(table, site), site)

-----------------------------------------------------------------------------
VARIABLES
    config,    \* the configured table of model call budgets
    task       \* what each task is doing, its scope and its bound call site

modelCallVars == <<config, task>>

Key(d) == <<d.site, d.kind>>

Counted(counter, key) == IF key \in DOMAIN counter THEN counter[key] ELSE 0

Incremented(counter, key) == (key :> Counted(counter, key) + 1) @@ counter

\* The wrappers leave confidence and the risk flags at their defaults.
Descriptor(kind, site) ==
    [kind |-> kind, site |-> site, confidence |-> 100,
     high_risk |-> FALSE, uncertain |-> FALSE]

Cascade(decision, fallback) == [decision |-> decision, fallback |-> fallback]

LimitForKind(budget, kind) == IF budget[kind] <= 0 THEN None ELSE budget[kind]

EscalationAllowed(d, budget) ==
    \/ d.high_risk /\ budget.high_risk_escalation_allowed
    \/ d.uncertain /\ budget.uncertain_escalation_allowed

LowConfidenceResult(d, budget) ==
    IF EscalationAllowed(d, budget) THEN Cascade("escalate", None)
    ELSE Cascade("fallback", budget.low_confidence_fallback)

\* The decision that does not depend on the calls made so far, if there is one.
PreBudgetDecision(d, budget) ==
    CASE ~config.enabled -> Cascade("accept", None)
      [] config.enabled /\ budget.enqueue_only /\ d.kind = "large_llm" ->
           Cascade("deny", budget.low_confidence_fallback)
      [] OTHER ->
           IF d.confidence < budget.confidence_threshold THEN LowConfidenceResult(d, budget)
           ELSE IF LimitForKind(budget, d.kind) = None
                THEN Cascade("fallback", budget.low_confidence_fallback)
                ELSE None

\* Mutant: one call more than the limit.
DecisionOffByOne(d, budget, used) ==
    LET early == PreBudgetDecision(d, budget) IN
    IF early # None THEN early
    ELSE IF used <= LimitForKind(budget, d.kind) THEN Cascade("accept", None)
    ELSE Cascade("fallback", budget.low_confidence_fallback)

DecisionForBudget(d, budget, used) ==
    LET early == PreBudgetDecision(d, budget) IN
    IF early # None THEN early
    ELSE IF used < LimitForKind(budget, d.kind) THEN Cascade("accept", None)
    ELSE Cascade("fallback", budget.low_confidence_fallback)

\* check_and_record: the verdict of the gate on a call of task t.
Verdict(t, d) ==
    DecisionForBudget(d, FeatureBudgetForSite(config, d.site), Counted(task[t].scope, Key(d)))

\* An accepted call is counted before it is made.
Recorded(t, d) ==
    IF Verdict(t, d).decision = "accept" THEN Incremented(task[t].scope, Key(d))
    ELSE task[t].scope

-----------------------------------------------------------------------------
\* The response generator.

\* The site bound to the context wins over the generator's own.
CurrentSite(state, default) == OrElse(state.site, default)

Response(text, cascade) == [text |-> text, cascade |-> cascade]

\* A refusal of the gate becomes text, or a decision that the caller acts on.
FallbackResponse(cascade) ==
    CASE cascade.decision = "escalate" -> Response("none", Cascade("defer", "defer"))
      [] cascade.fallback = "deterministic_baseline" -> Response("baseline", cascade)
      [] cascade.fallback \in {"defer", "enqueue_background"} ->
           Response("none", Cascade("defer", cascade.fallback))
      [] cascade.fallback = "reject" -> Response("none", Cascade("deny", "reject"))
      [] OTHER -> Response("none", cascade)

LeaseDecisions == {"acquired", "defer", "denied", "cancel", "no_send"}

InferenceCascade(decision) ==
    CASE decision = "defer" -> Cascade("defer", "defer")
      [] decision = "denied" -> Cascade("fallback", "deterministic_baseline")
      [] decision = "cancel" -> Cascade("deny", "reject")
      [] decision = "no_send" -> Cascade("deny", "no_op")

SchedulerFallbackResponse(decision) ==
    Response(IF decision = "denied" THEN "baseline" ELSE "none", InferenceCascade(decision))

\* What an SDK exception of OpenAI is translated to; a server error is in none
\* of the buckets and leaves the client as it is.
OpenAiError(error) == IF error = "server" THEN "untyped" ELSE "typed"

\* The Ollama client types every HTTP failure and every answer without text; an
\* answer that is no JSON object is not foreseen.
OllamaError(error) == IF error = "not_an_object" THEN "untyped" ELSE "typed"

ProviderErrors(provider) ==
    CASE provider = "openai" ->
           {OpenAiError(e) : e \in {"timeout", "connection", "authentication", "permission",
                                    "rate_limit", "not_found", "bad_request", "server"}}
      [] provider = "ollama" ->
           {OllamaError(e) : e \in {"timeout", "refused", "transport", "status",
                                    "malformed", "no_content", "not_an_object"}}
      [] OTHER -> {}

\* An empty answer is an error of Ollama only.
ProviderTexts(provider) == IF provider = "ollama" THEN {"model"} ELSE {"model", "blank"}

-----------------------------------------------------------------------------
\* What the callers of the generator make of its response or its exception.

CascadeBlocksResponse(r) ==
    CASE r.cascade.decision = "accept" -> FALSE
      [] r.cascade.decision = "fallback" -> r.text = "none"
      [] OTHER -> TRUE

ChatOutcome(r) ==
    IF CascadeBlocksResponse(r) \/ r.text \in {"none", "blank"} THEN "silent" ELSE r.text

ReactionOutcome(r) ==
    CASE r.cascade.decision \in {"defer", "deny"} -> "silent"
      [] r.cascade.decision = "accept" /\ r.text = "model" -> "model"
      [] OTHER -> "template"

ProactiveOutcome(r) ==
    IF r.cascade.decision = "accept" /\ r.text = "model" THEN "model" ELSE "silent"

Outcome(site, r) ==
    CASE site = "event_reaction" -> ReactionOutcome(r)
      [] site = "proactive" -> ProactiveOutcome(r)
      [] OTHER -> ChatOutcome(r)

\* Reactions and proactive talk catch RuntimeError and its like, so a typed
\* provider error; the chat step catches nothing.
OutcomeOfError(site, error) ==
    CASE site = "event_reaction" /\ error = "typed" -> "template"
      [] site = "proactive" /\ error = "typed" -> "silent"
      [] OTHER -> "raised"

-----------------------------------------------------------------------------
\* A task with nothing bound and nothing under way; made is history: the
\* provider calls of the scope, by call site and kind.
Idle ==
    [at |-> "off", back |-> "off", scope |-> <<>>, made |-> <<>>, asks |-> 0,
     site |-> None, generator |-> "user_response_hot_path", lease |-> FALSE,
     loaded |-> None, shown |-> "silent"]

Change(t, new) ==
    /\ task' = [task EXCEPT ![t] = new]
    /\ UNCHANGED config /\ UNCHANGED readinessVars

\* The call of t is over: its lease, if it has one, is released, and what the
\* caller makes of it ends the turn or lets it go on.
Settled(t, outcome) ==
    IF outcome = "raised" THEN Idle
    ELSE [task[t] EXCEPT !.at = task[t].back, !.lease = FALSE, !.loaded = None, !.shown = outcome]

\* The client is called.
Called(state) ==
    [state EXCEPT !.at = "calling",
                  !.made = Incremented(@, <<CurrentSite(state, state.generator), "large_llm">>)]

BeginTurn(t) ==
    /\ life \in {"serving", "stopping"} /\ task[t].at = "off"
    /\ Change(t, [Idle EXCEPT !.at = "planning"])

\* BudgetedResponseGenerator.generate_response, for the generator of a site.
GenerateResponse(t, site) ==
    LET asking == [task[t] EXCEPT !.generator = site, !.back = task[t].at, !.asks = @ + 1]
        d == Descriptor("large_llm", CurrentSite(task[t], site))
        verdict == Verdict(t, d)
    IN  /\ task[t].at \in {"planning", "hook"} /\ task[t].asks < MaxAsks
        /\ Change(t, IF verdict.decision = "accept"
                     THEN [asking EXCEPT !.at = "retrieving", !.scope = Recorded(t, d)]
                     ELSE [asking EXCEPT !.shown = Outcome(site, FallbackResponse(verdict))])

\* The prompt is assembled with what was retrieved, or without it if that failed.
RetrieveContext(t) ==
    /\ task[t].at = "retrieving"
    /\ Change(t, [task[t] EXCEPT !.at = "leasing"])

ChatProvider == SlotProviders[1]

AcquireInferenceLease(t, decision) ==
    /\ task[t].at = "leasing"
    /\ Change(t,
          CASE decision # "acquired" ->
                 Settled(t, Outcome(task[t].generator, SchedulerFallbackResponse(decision)))
            [] ChatProvider = "ollama" -> [task[t] EXCEPT !.at = "ps", !.lease = TRUE]
            [] OTHER -> Called([task[t] EXCEPT !.lease = TRUE]))

\* ObservableLLMClient: the model is not called when the probe finds it gone.
AfterSnapshot(t, load) ==
    IF load = "unavailable" THEN Settled(t, OutcomeOfError(task[t].generator, "typed"))
    ELSE Called([task[t] EXCEPT !.loaded = None])

ProbeLoaded(t, end) ==
    LET loaded == NamesFromResponse(end, daemon.loaded) IN
    /\ task[t].at = "ps"
    /\ Change(t, IF AsksInstalled(loaded)
                 THEN [task[t] EXCEPT !.at = "tags", !.loaded = loaded]
                 ELSE AfterSnapshot(t, SnapshotDecision(loaded, loaded)))

ProbeInstalled(t, end) ==
    /\ task[t].at = "tags"
    /\ Change(t, AfterSnapshot(t,
          SnapshotDecision(task[t].loaded, NamesFromResponse(end, daemon.installed))))

ProviderAnswers(t, text) ==
    /\ task[t].at = "calling"
    /\ Change(t, Settled(t, Outcome(task[t].generator, Response(text, Cascade("accept", None)))))

ProviderRaises(t, error) ==
    /\ task[t].at = "calling"
    /\ Change(t, Settled(t, OutcomeOfError(task[t].generator, error)))

\* A local model: the call or its stand-in, within one step.
CallLocalModel(t, c) ==
    LET d == Descriptor(c.kind, c.site)
        accepted == Verdict(t, d).decision = "accept"
    IN  /\ task[t].at = "planning" \/ t \in LooseTasks
        /\ life \in {"serving", "stopping"} /\ task[t].asks < MaxAsks
        /\ Change(t, [task[t] EXCEPT
              !.asks = @ + 1,
              !.scope = Recorded(t, d),
              !.made = IF accepted THEN Incremented(@, Key(d)) ELSE @])

\* The learning hooks run last, with their own call site.
RunLearningHooks(t) ==
    /\ task[t].at = "planning"
    /\ Change(t, [task[t] EXCEPT !.at = "hook", !.site = "runtime_learning_hook"])

EndTurn(t) ==
    /\ task[t].at \in {"planning", "hook"}
    /\ Change(t, Idle)

\* The server has stopped and its grace is over: the call is cancelled, and the
\* lease released on the way out.
CancelTurn(t) ==
    /\ life = "stopped" /\ task[t].at # "off"
    /\ Change(t, Idle)

\* The checks of a start are LlmReadiness's own; here they are turned off.
ModelCallsInit ==
    /\ ReadinessInit /\ mode = "off" /\ ~warm
    /\ config \in {table \in BudgetTables : ValidBudgetConfig(table)}
    /\ task = [t \in Tasks \cup LooseTasks |-> Idle]

GeneratorSites == {"user_response_hot_path", "event_reaction", "proactive"}

TurnStep(t) ==
    \/ BeginTurn(t) \/ RetrieveContext(t) \/ RunLearningHooks(t) \/ EndTurn(t)
    \/ CancelTurn(t)
    \/ \E site \in GeneratorSites : GenerateResponse(t, site)
    \/ \E decision \in LeaseDecisions : AcquireInferenceLease(t, decision)
    \/ \E end \in Ends : ProbeLoaded(t, end) \/ ProbeInstalled(t, end)
    \/ \E text \in ProviderTexts(ChatProvider) : ProviderAnswers(t, text)
    \/ \E error \in ProviderErrors(ChatProvider) : ProviderRaises(t, error)

\* A process that serves again has new tasks.
ProcessStep ==
    \/ ServeAgain /\ task' = [t \in DOMAIN task |-> Idle] /\ UNCHANGED config
    \/ ReadinessNext /\ life \notin {"stopped", "refused"} /\ UNCHANGED modelCallVars

ModelCallsNext ==
    \/ ProcessStep
    \/ \E t \in Tasks : TurnStep(t)
    \/ \E t \in Tasks \cup LooseTasks, c \in LocalCalls : CallLocalModel(t, c)

ModelCallsSpec ==
    ModelCallsInit /\ [][ModelCallsNext]_<<readinessVars, modelCallVars>> /\ ReadinessFairness

-----------------------------------------------------------------------------
\* Whatever valid tables configure, and however calls, refusals, failures and
\* other tasks interleave: in one turn no call site exceeds its budget of any
\* kind, the answer to the user costs at most one large-model call, and the
\* learning hooks cost none.
CallsWithinBudget ==
    config.enabled => \A t \in DOMAIN task :
        /\ \A site \in ModelCallSite, kind \in ModelCallKind :
              Counted(task[t].made, <<site, kind>>)
                  <= FeatureBudgetForSite(config, site)[kind]
        /\ Counted(task[t].made, <<"user_response_hot_path", "large_llm">>) <= 1
        /\ Counted(task[t].made, <<"runtime_learning_hook", "large_llm">>) = 0
=============================================================================

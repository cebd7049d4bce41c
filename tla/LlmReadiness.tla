---------------------------- MODULE LlmReadiness ----------------------------
(***************************************************************************)
(* Start-up and stop of the server around the readiness checks of its      *)
(* model slots.  A check is a series of HTTP requests to a provider that   *)
(* changes between them: the local daemon comes and goes, its model is     *)
(* pulled, loaded and unloaded.  In strict mode a failed check refuses the *)
(* start; a check that takes too long is cut off and counts as failed.     *)
(***************************************************************************)
EXTENDS Integers, Sequences, SequencesExt, FiniteSets, Optional

CONSTANTS
    SlotProviders,   \* provider of each model slot, in the order of the slots
    OpenAiUsable,    \* whether the SDK is installed and a key is set
    Loops            \* the loops the configuration turns on, of LoopNames

LoopNames == <<"scheduler", "background_jobs">>

ASSUME LlmReadinessAssumption ==
    /\ SlotProviders \in Seq({"fake", "ollama", "openai"})
    /\ OpenAiUsable \in BOOLEAN
    /\ Loops \subseteq ToSet(LoopNames)

VARIABLES
    mode,       \* diagnostics.mode
    warm,       \* diagnostics.warmup_models
    daemon,     \* the Ollama daemon: up, model installed, model loaded
    check,      \* the check under way
    outcomes,   \* outcome of each slot checked so far
    life,       \* where serve() is
    running,    \* loop tasks that have not ended
    sawModel    \* history: slots whose readiness check saw the model installed
                \* or could not read the list

readinessVars == <<mode, warm, daemon, check, outcomes, life, running, sawModel>>

DiagnosticsMode == {"off", "warn", "strict"}

ReadinessStatus == {"ok", "warn", "fail", "skipped"}

ModelLoadState == {"unknown", "unloaded", "warming", "warm", "cold_start", "unavailable"}

-----------------------------------------------------------------------------
\* Answers of the daemon, and what the client makes of them.

\* How a request can end: an HTTP error status, no connection, no answer in
\* time, another transport error, or a body that is not a model list.
HttpEnd == {"ok", "status", "refused", "timeout", "transport", "malformed"}

Ends == IF daemon.up THEN HttpEnd \ {"refused"} ELSE {"refused", "timeout"}

\* OllamaDiagnostics reads every failure as "no list".
ListModelNames(end, present) == IF end = "ok" THEN present ELSE None

\* The lifecycle probe tells an unreachable daemon from an unreadable answer.
EndpointStatus(end) ==
    CASE end = "ok" -> "ok"
      [] end \in {"refused", "timeout"} -> "unavailable"
      [] OTHER -> "unknown"

NamesFromResponse(end, present) ==
    [status |-> EndpointStatus(end), named |-> end = "ok" /\ present]

StateForInstalledModel(loaded) ==
    IF loaded.status = "unknown" THEN "unknown" ELSE "unloaded"

SnapshotDecision(loaded, installed) ==
    CASE loaded.status = "unavailable" -> "unavailable"
      [] loaded.named -> "warm"
      [] installed.status = "unavailable" -> "unavailable"
      [] installed.status = "unknown" -> "unknown"
      [] installed.named -> StateForInstalledModel(loaded)
      [] OTHER -> "unavailable"

\* The model is asked for in /api/tags only when /api/ps does not settle it.
AsksInstalled(loaded) == loaded.status # "unavailable" /\ ~loaded.named

-----------------------------------------------------------------------------
\* Issues of a check, their severity and the result they add up to.

Severity(issue) ==
    CASE issue \in {"daemon_unreachable", "model_not_installed", "warmup_failed",
                    "diagnostics_build_failed", "readiness_timeout", "warmup_timeout",
                    "model_not_available", "openai_list_invalid", "rate_limited",
                    "authentication_failed", "quota_exceeded",
                    "openai_request_failed"} -> "fail"
      [] issue \in {"warmup_skipped_model_missing"} -> "skipped"
      [] OTHER -> "warn"

AggregateIssueSeverity(issues) ==
    LET severities == {Severity(i) : i \in issues} IN
    CASE issues = {} -> "ok"
      [] "fail" \in severities -> "fail"
      [] "warn" \in severities -> "warn"
      [] OTHER -> "skipped"

UnavailableIssueCodes ==
    {"daemon_unreachable", "model_not_installed", "warmup_failed",
     "warmup_skipped_model_missing"}

UnknownLoadStateIssueCodes ==
    {"ps_endpoint_unavailable", "ps_probe_failed_after_warmup",
     "tags_endpoint_unavailable"}

LoadState(issues, installed, loaded) ==
    CASE issues \cap UnavailableIssueCodes # {} -> "unavailable"
      [] loaded -> "warm"
      [] issues \cap UnknownLoadStateIssueCodes # {} -> "unknown"
      [] installed = TRUE -> "unloaded"
      [] OTHER -> "unknown"

OllamaResult(issues, installed, loaded) ==
    [status |-> AggregateIssueSeverity(issues),
     load |-> LoadState(issues, installed, loaded)]

\* OpenAI does not say whether a model is loaded.
OpenAiResult(issues) ==
    [status |-> AggregateIssueSeverity(issues), load |-> "unknown"]

\* A check cut off by its timeout, and a check that could not be built.
FailedResult == [status |-> "fail", load |-> "unavailable"]

\* Ends of a request for the OpenAI model list: the list, with the model or
\* without it, an answer that is no list, or an API error.
OpenAiEnd == {"listed", "absent", "malformed", "key", "rate", "quota", "api"}

TranslateListError(end) ==
    CASE end = "key" -> "authentication_failed"
      [] end = "rate" -> "rate_limited"
      [] end = "quota" -> "quota_exceeded"
      [] OTHER -> "openai_request_failed"

OpenAiIssues(end) ==
    CASE end = "listed" -> {}
      [] end = "absent" -> {"model_not_available"}
      [] end = "malformed" -> {"openai_list_invalid"}
      [] OTHER -> {TranslateListError(end)}

\* What a failed warm-up request says; a 404 means that the model is not there.
WarmupIssue(end) ==
    IF end = "missing" THEN "warmup_skipped_model_missing" ELSE "warmup_failed"

-----------------------------------------------------------------------------
\* The checks of one slot.

Provider == SlotProviders[check.slot]

\* Nothing is checked: the next slot is looked at.
NoCheck(slot) ==
    [slot |-> slot, at |-> "next", issues |-> {}, installed |-> None, loaded |-> FALSE,
     readiness |-> None]

\* A slot is done: its outcome joins the report.
Report(readiness, warmup) ==
    /\ outcomes' = Append(outcomes, [readiness |-> readiness, warmup |-> warmup])
    /\ check' = NoCheck(check.slot + 1)

\* A stage ends with a result.  Warm-up follows the readiness check of a
\* provider that supports it, whatever that check said.
EndStage(result) ==
    IF check.readiness # None THEN Report(check.readiness, result)
    ELSE IF warm /\ Provider = "ollama"
    THEN /\ check' = [NoCheck(check.slot) EXCEPT !.at = "warm_tags", !.readiness = result]
         /\ UNCHANGED outcomes
    ELSE Report(result, None)

\* The next request of the stage, with what is known by then.
Continue(at, issues, installed) ==
    /\ check' = [check EXCEPT !.at = at, !.issues = @ \cup issues, !.installed = installed]
    /\ UNCHANGED outcomes

ProbeSlot ==
    /\ life = "checking" /\ check.at = "next" /\ check.slot <= Len(SlotProviders)
    /\ CASE Provider = "fake" ->
              check' = NoCheck(check.slot + 1) /\ UNCHANGED outcomes
         [] Provider = "openai" /\ ~OpenAiUsable -> Report(FailedResult, None)
         [] Provider = "openai" -> Continue("models", {}, None)
         [] Provider = "ollama" -> Continue("root", {}, FALSE)
    /\ UNCHANGED <<mode, warm, daemon, life, running, sawModel>>

ProbeDaemon(end) ==
    /\ check.at = "root"
    /\ IF end \in {"ok", "malformed"} THEN Continue("tags", {}, FALSE)
       ELSE EndStage(OllamaResult({"daemon_unreachable"}, FALSE, FALSE))
    /\ UNCHANGED <<mode, warm, daemon, life, running, sawModel>>

CheckInstalled(end) ==
    LET listed == ListModelNames(end, daemon.installed) IN
    /\ check.at = "tags"
    /\ CASE listed = None -> Continue("ps", {"tags_endpoint_unavailable"}, FALSE)
         [] listed = FALSE -> Continue("ps", {"model_not_installed"}, FALSE)
         [] listed = TRUE -> Continue("show", {}, TRUE)
    /\ sawModel' = IF listed = FALSE THEN sawModel ELSE sawModel \cup {check.slot}
    /\ UNCHANGED <<mode, warm, daemon, life, running>>

ProbeModelMetadata(end) ==
    /\ check.at = "show"
    /\ Continue("ps", IF end \in {"ok", "malformed"} THEN {}
                      ELSE {"model_metadata_unavailable"}, TRUE)
    /\ UNCHANGED <<mode, warm, daemon, life, running, sawModel>>

CheckLoaded(end) ==
    LET listed == ListModelNames(end, daemon.loaded)
        issue == CASE listed = None -> {"ps_endpoint_unavailable"}
                   [] listed = FALSE /\ check.installed -> {"model_not_loaded"}
                   [] OTHER -> {}
    IN  /\ check.at = "ps"
        /\ EndStage(OllamaResult(check.issues \cup issue, check.installed, listed = TRUE))
        /\ UNCHANGED <<mode, warm, daemon, life, running, sawModel>>

CheckListed(end) ==
    /\ check.at = "models"
    /\ EndStage(OpenAiResult(OpenAiIssues(end)))
    /\ UNCHANGED <<mode, warm, daemon, life, running, sawModel>>

WarmupTags(end) ==
    LET listed == ListModelNames(end, daemon.installed) IN
    /\ check.at = "warm_tags"
    /\ IF listed = FALSE
       THEN EndStage(OllamaResult({WarmupIssue("missing")}, FALSE, FALSE))
       ELSE Continue("warm_chat", {}, listed)
    /\ UNCHANGED <<mode, warm, daemon, life, running, sawModel>>

\* A chat request makes the daemon load the model; the answer is not parsed.
IssueWarmupChat(end) ==
    /\ check.at = "warm_chat"
    /\ end \in {"ok", "malformed"} => daemon.installed
    /\ end = "missing" => daemon.up /\ ~daemon.installed
    /\ IF end \in {"ok", "malformed"}
       THEN /\ Continue("warm_ps", {}, check.installed)
            /\ daemon' = [daemon EXCEPT !.loaded = TRUE]
       ELSE /\ EndStage(OllamaResult({WarmupIssue(end)}, check.installed, FALSE))
            /\ UNCHANGED daemon
    /\ UNCHANGED <<mode, warm, life, running, sawModel>>

FinalizeWarmupState(end) ==
    LET listed == ListModelNames(end, daemon.loaded)
        issue == CASE listed = None -> {"ps_probe_failed_after_warmup"}
                   [] listed = FALSE -> {"model_still_not_loaded"}
                   [] OTHER -> {}
    IN  /\ check.at = "warm_ps"
        /\ EndStage(OllamaResult(issue, check.installed, listed = TRUE))
        /\ UNCHANGED <<mode, warm, daemon, life, running, sawModel>>

\* Mutant: only the readiness check has a timeout.
TimeoutReadinessOnly ==
    /\ check.at # "next" /\ check.readiness = None
    /\ EndStage(FailedResult)
    /\ UNCHANGED <<mode, warm, daemon, life, running, sawModel>>

\* The stage exceeds its timeout, in the middle of a request.
StageTimeout ==
    /\ check.at # "next"
    /\ EndStage(FailedResult)
    /\ UNCHANGED <<mode, warm, daemon, life, running, sawModel>>

-----------------------------------------------------------------------------
\* serve(): diagnostics, components, the server and its loops, the stop.

\* Mutant: a warm-up result stands for the whole slot.
LastStageFailed(outcome) ==
    IF outcome.warmup # None THEN outcome.warmup.status = "fail"
    ELSE outcome.readiness.status = "fail"

OutcomeHasFailure(outcome) ==
    \/ outcome.readiness.status = "fail"
    \/ outcome.warmup # None /\ outcome.warmup.status = "fail"

HasFailures == \E k \in DOMAIN outcomes : OutcomeHasFailure(outcomes[k])

RunStartupDiagnostics ==
    /\ life = "starting"
    /\ life' = IF mode = "off" THEN "building" ELSE "checking"
    /\ UNCHANGED <<mode, warm, daemon, check, outcomes, running, sawModel>>

\* Every slot has been looked at: strict mode refuses a start with failures.
RaiseIfStrictFailure ==
    /\ life = "checking" /\ check.at = "next" /\ check.slot > Len(SlotProviders)
    /\ life' = IF HasFailures /\ mode = "strict" THEN "refused" ELSE "building"
    /\ UNCHANGED <<mode, warm, daemon, check, outcomes, running, sawModel>>

\* The report of the checks has been logged and is dropped.
RunRuntimeServer ==
    /\ life = "building"
    /\ life' = "serving"
    /\ running' = Loops
    /\ check' = NoCheck(1) /\ outcomes' = <<>>
    /\ UNCHANGED <<mode, warm, daemon, sawModel>>

\* The wait ends, or the task that waits is cancelled.
ShutdownRequested ==
    /\ life = "serving"
    /\ life' = "stopping"
    /\ UNCHANGED <<mode, warm, daemon, check, outcomes, running, sawModel>>

\* The loops are cancelled and awaited one after the other.
StopLoop ==
    /\ life = "stopping" /\ running # {}
    /\ running' = running \ {SelectSeq(LoopNames, LAMBDA l : l \in running)[1]}
    /\ UNCHANGED <<mode, warm, daemon, check, outcomes, life, sawModel>>

\* Only then does the server stop taking calls.
StopServer ==
    /\ life = "stopping" /\ running = {}
    /\ life' = "stopped"
    /\ UNCHANGED <<mode, warm, daemon, check, outcomes, running, sawModel>>

ServeAgain ==
    /\ life \in {"stopped", "refused"}
    /\ life' = "starting" /\ check' = NoCheck(1) /\ outcomes' = <<>> /\ sawModel' = {}
    /\ UNCHANGED <<mode, warm, daemon, running>>

\* The daemon starts and stops, and its model is pulled, removed, loaded and
\* unloaded, without Iris knowing.
DaemonChanges ==
    /\ daemon' \in {d \in [up: BOOLEAN, installed: BOOLEAN, loaded: BOOLEAN] :
                        d.loaded => d.up /\ d.installed}
    /\ UNCHANGED <<mode, warm, check, outcomes, life, running, sawModel>>

ReadinessInit ==
    /\ mode \in DiagnosticsMode /\ warm \in BOOLEAN
    /\ daemon = [up |-> TRUE, installed |-> TRUE, loaded |-> FALSE]
    /\ check = NoCheck(1) /\ outcomes = <<>>
    /\ life = "starting" /\ running = {} /\ sawModel = {}

ProviderRequest ==
    \/ \E end \in Ends :
          \/ ProbeDaemon(end) \/ CheckInstalled(end) \/ ProbeModelMetadata(end)
          \/ CheckLoaded(end) \/ WarmupTags(end) \/ FinalizeWarmupState(end)
    \/ \E end \in Ends \cup {"missing"} : IssueWarmupChat(end)
    \/ \E end \in OpenAiEnd : CheckListed(end)

DiagnosticsStep == RunStartupDiagnostics \/ ProbeSlot \/ RaiseIfStrictFailure

ServerStep == RunRuntimeServer \/ StopLoop \/ StopServer

ReadinessNext ==
    \/ DiagnosticsStep \/ ServerStep
    \/ ProviderRequest \/ StageTimeout
    \/ ShutdownRequested \/ ServeAgain \/ DaemonChanges

ReadinessSpec == ReadinessInit /\ [][ReadinessNext]_readinessVars

\* asyncio.timeout ends a stage whatever the provider does; the code between
\* two requests runs on.  No request is assumed to be answered.
ReadinessFairness ==
    WF_readinessVars(DiagnosticsStep) /\ WF_readinessVars(StageTimeout)
    /\ WF_readinessVars(ServerStep)

FairReadinessSpec == ReadinessSpec /\ ReadinessFairness

-----------------------------------------------------------------------------
\* A server that serves in strict mode has seen, for every slot of the local
\* daemon, the model in the list of installed models, or the list could not be
\* read: no later stage of the slot makes up for a failed one.  (A model that is
\* first found missing by the warm-up does not stop the start.)
StrictStartSawModel ==
    mode = "strict" /\ life \in {"building", "serving", "stopping"} =>
        \A slot \in DOMAIN SlotProviders :
            SlotProviders[slot] = "ollama" => slot \in sawModel

\* A provider that never answers cannot keep the server from deciding whether
\* to start: every start ends in a server or in a refusal.
StartIsDecided == life = "starting" ~> life \in {"serving", "refused"}
=============================================================================

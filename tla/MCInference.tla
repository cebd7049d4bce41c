----------------------------- MODULE MCInference -----------------------------
(***************************************************************************)
(* What stands between a turn and the model, one scene each: the slots of  *)
(* the scheduler, the checks of a start, the budgeted calls of turns, and  *)
(* the assembly of prompts.  A behaviour stays in the scene it starts in.  *)
(***************************************************************************)
EXTENDS MCInferenceScheduler, ModelCalls, PromptBudget

VARIABLE scene

inferenceVars == <<scene, schedulerVars, readinessVars, modelCallVars, promptVars>>

\* One slot of the local daemon, one of OpenAI, one of the fake client.
MCSlotProviders == <<"ollama", "openai", "fake">>

MCLoops == {"scheduler", "background_jobs"}

\* The defaults, a table that fails the validation, one that forbids a model
\* and one that is switched off.
MCBudgetTables ==
    {[enabled |-> TRUE, sites |-> <<>>],
     [enabled |-> TRUE, sites |-> [user_response_hot_path |-> [large_llm |-> 2]]],
     [enabled |-> TRUE, sites |-> [event_reaction |-> [large_llm |-> 0]]],
     [enabled |-> FALSE, sites |-> <<>>]}

MCLocalCalls == {[kind |-> "embedding", site |-> "user_response_hot_path"]}

\* The defaults, a short chat profile with ties and requirements moved, an
\* invalid file, and the budget switched off.
BudgetFile(enabled, profiles) ==
    [enabled |-> enabled, chat |-> "local_low", proactive |-> "proactive_short",
     profiles |-> profiles]

MCBudgetFiles ==
    {BudgetFile(TRUE, <<>>),
     BudgetFile(TRUE, [local_low |-> [total |-> 3200, task_context |-> [priority |-> 45],
                                      safety_constraints |-> [overflow |-> "required"],
                                      user_input |-> [max_chars |-> 1000]]]),
     BudgetFile(TRUE, [local_low |-> [persona |-> [overflow |-> "required"]]]),
     BudgetFile(FALSE, <<>>)}

Said(role, chars) == [role |-> role, chars |-> chars]

\* The fixed texts have the lengths the code gives them; the project context
\* has no writer and stays empty, and no step of the cycle sets goals.
Prompt(proactive, persona, history, summary, memories, text) ==
    [proactive |-> proactive, system |-> IF proactive THEN 190 ELSE 111, persona |-> persona,
     history |-> history, summary |-> summary,
     durable |-> IF proactive THEN <<>> ELSE memories, project |-> <<>>,
     transcript |-> <<200>>, memories |-> memories, affect |-> 36, relationship |-> 57,
     constraints |-> <<14, 22>>, goals |-> <<>>, actor_text |-> text]

MCPrompts ==
    {Prompt(FALSE, persona, history, summary, memories, text) :
        persona \in {None, 330},
        history \in {<<>>, <<Said("user", 900), Said("assistant", 400),
                             Said("user", 300), Said("assistant", 700)>>},
        summary \in {None, 1600}, memories \in {<<>>, <<400, 300>>}, text \in {1, 1500}}
    \cup {Prompt(TRUE, persona, <<>>, None, memories, text) :
        persona \in {None, 330}, memories \in {<<>>, <<240, 240, 120>>}, text \in {120, 900}}

NoServer ==
    /\ mode = "off" /\ warm = FALSE
    /\ daemon = [up |-> FALSE, installed |-> FALSE, loaded |-> FALSE]
    /\ check = NoCheck(1) /\ outcomes = <<>>
    /\ life = "stopped" /\ running = {} /\ sawModel = {}

NoCalls == config = [enabled |-> FALSE, sites |-> <<>>] /\ task = <<>>

NoPrompt ==
    prompt = None /\ profile = None /\ sections = <<>> /\ effective = 0
    /\ attempts = 0 /\ result = None

MCInit ==
    /\ SchedulerInit
    /\ \/ scene = "slots" /\ NoServer /\ NoCalls /\ NoPrompt
       \/ scene = "start" /\ ReadinessInit /\ NoCalls /\ NoPrompt
       \/ scene = "calls" /\ ModelCallsInit /\ NoPrompt
       \/ scene = "prompt" /\ NoServer /\ NoCalls /\ PromptInit

MCNext ==
    \/ /\ scene = "slots" /\ SchedulerNext
       /\ UNCHANGED <<scene, readinessVars, modelCallVars, promptVars>>
    \/ /\ scene = "start" /\ ReadinessNext
       /\ UNCHANGED <<scene, schedulerVars, modelCallVars, promptVars>>
    \/ /\ scene = "calls" /\ ModelCallsNext
       /\ UNCHANGED <<scene, schedulerVars, promptVars>>
    \/ /\ scene = "prompt" /\ PromptNext
       /\ UNCHANGED <<scene, schedulerVars, readinessVars, modelCallVars>>

\* The fairness of the two modules, each in its scenes.
MCFairness ==
    /\ SchedulerFairness
    /\ WF_readinessVars(scene \in {"start", "calls"} /\ DiagnosticsStep)
    /\ WF_readinessVars(scene \in {"start", "calls"} /\ StageTimeout)
    /\ WF_readinessVars(scene \in {"start", "calls"} /\ ServerStep)

MCSpec == MCInit /\ [][MCNext]_inferenceVars /\ MCFairness
=============================================================================

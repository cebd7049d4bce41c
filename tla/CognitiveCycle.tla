--------------------------- MODULE CognitiveCycle ---------------------------
(***************************************************************************)
(* The cognitive cycle of one observation: perception, affect baseline,    *)
(* appraisal, persistence of the affect, relationship, safety context,     *)
(* policy, deterministic safety response, then the steps of the features   *)
(* (diagnostic echo, proactive talk, chat), the choice of one plan and its *)
(* way through presentation and the output gate.                           *)
(*                                                                         *)
(* The baseline is one record for the whole runtime and a relationship one *)
(* per actor.  Both are read in one transaction and written in another     *)
(* with SQLite, so concurrent turns may overwrite each other; a dictionary *)
(* does not suspend between the two.  Actors have a display name.          *)
(***************************************************************************)
EXTENDS Integers, Sequences, FiniteSets, Companion

CONSTANTS
    Inputs,             \* observations: [n, kind, actor, scope, text, idle]
    Answers,            \* what a generator returns: the traits of a text, or None when refused
    MaxCycles,          \* bound: cycles in progress at once
    MaxRuns             \* bound: cycles started

ASSUME InputShape ==
    \A i \in Inputs : DOMAIN i = {"n", "kind", "actor", "scope", "text", "idle"}

VARIABLES
    setup,          \* configuration: [durable, development, proactive, generator, semantic, outputGate]
    cycles,         \* cycles between two steps
    runs,           \* cycles started so far
    baseline,       \* the global affect baseline, or None
    relationships,  \* relationship of each actor, or None
    presented,      \* history: [input, plan, output] of the cycles that ended
    related         \* history: how often each actor's message passed the relationship step

cycleVars == <<setup, cycles, runs, baseline, relationships, presented, related>>

CycleActors == {i.actor : i \in Inputs} \ {None}

-----------------------------------------------------------------------------
\* The word tables of the safety classifier.
SelfHarm == {"self-harm"}
SelfHarmMethod == {"method", "how to"}
Abuse == {"abuse"}
Dangerous == {"weapon"}
Instruction == {"how to", "build"}
Credential == {"password"}
Misuse == {"steal"}

\* SimplePerceptionStep: what is not a message is read as the name of its kind.
Perceived(input) == IF input.kind = "actor_message" THEN input.text ELSE {{input.kind}}

Blank(text) == Words(text) = {}

\* safety_severity_precedence.
SeverityPrecedence(severity) == CASE severity = "high" -> 3 [] severity = "medium" -> 2 [] OTHER -> 1

Context(category, severity, confidence, directive) ==
    {[category |-> category, severity |-> severity, confidence |-> confidence, directive |-> directive]}

\* _self_harm_context.
SelfHarmContext(text) ==
    Context("self_harm", "high", 90, IF Mentions(text, SelfHarmMethod) THEN "safe_redirect" ELSE "allow_support")

AbuseContext == Context("abuse", "medium", 78, "allow_support")

DangerousInstructionContext == Context("illegal_or_dangerous", "high", 86, "refuse")

PersonalDataContext == Context("personal_data", "high", 82, "refuse")

\* _classify_text.
SafetyContexts(text) ==
    (IF Mentions(text, SelfHarm) THEN SelfHarmContext(text) ELSE {})
    \cup (IF Mentions(text, Abuse) THEN AbuseContext ELSE {})
    \cup (IF Mentions(text, Dangerous) /\ Mentions(text, Instruction) THEN DangerousInstructionContext ELSE {})
    \cup (IF Mentions(text, Credential) /\ Mentions(text, Misuse) THEN PersonalDataContext ELSE {})

Constraint(name, blocks) == [name |-> name, blocks |-> blocks]

\* _constraint_for_safety_context.
ConstraintFor(context) ==
    CASE context.directive = "allow_support" -> Constraint("sensitive_safety_context", FALSE)
      [] context.directive = "safe_redirect" -> Constraint("high_risk_safe_redirect_required", TRUE)
      [] context.directive = "refuse" -> Constraint("high_risk_refusal_required", TRUE)
      [] OTHER -> Constraint("high_risk_block_required", TRUE)

\* PolicyInhibitionStep.run.  No plan exists yet when it runs, and the words its
\* fallback looks for are words of the classifier.
Inhibition(frame) ==
    (IF frame.affect.arousal >= Percent(75) /\ frame.affect.valence <= -Percent(55)
     THEN {Constraint("calm_response", FALSE)} ELSE {})
    \cup (IF frame.relationship # None /\ frame.relationship.familiarity < Percent(20)
          THEN {Constraint("low_familiarity", FALSE)} ELSE {})
    \cup (IF frame.contexts # {} THEN {ConstraintFor(c) : c \in frame.contexts}
          ELSE IF Mentions(frame.text, SelfHarm \cup Abuse)
          THEN {Constraint("sensitive_safety_context", FALSE)} ELSE {})

Blocks(constraints) == \E c \in constraints : c.blocks

Plan(intent, text, responds, priority) ==
    [intent |-> intent, text |-> text, responds |-> responds, priority |-> priority]

NoAction == Plan("no_action", None, FALSE, -1)

DirectivePrecedence(directive) ==
    CASE directive = "refuse" -> 3 [] directive = "safe_redirect" -> 2 [] OTHER -> 0

\* _strictest_response_context: by directive, then severity, then confidence.
Strictest(contexts) ==
    LET rank(c) == (10 * DirectivePrecedence(c.directive) + SeverityPrecedence(c.severity)) * 1000 + c.confidence
    IN  CHOOSE c \in contexts : \A d \in contexts : rank(c) >= rank(d)

\* SafetyResponsePolicyStep.run.
SafetyPlans(contexts) ==
    LET answered == {c \in contexts : c.directive \in {"safe_redirect", "refuse"}}
    IN  IF answered = {} THEN <<>>
        ELSE <<Plan(IF Strictest(answered).directive = "safe_redirect" THEN "safe_redirect" ELSE "safety_refusal",
                    {"fixed"}, TRUE, 1000)>>

\* DiagnosticEchoActionSelectionStep.run, which asks no constraint.
EchoPlans(frame) == <<Plan("respond", {"echo"}, TRUE, 0)>>

\* _first_blocking_constraint and build_response_prompt: whether chat calls its model.
Chats(frame) == ~Blocks(frame.constraints) /\ frame.input.kind = "actor_message"

\* _generated_response_result.
ChatPlans(answer) ==
    IF answer \in {None, {}} THEN <<>> ELSE <<Plan("respond", answer, TRUE, 10)>>

-----------------------------------------------------------------------------
\* proactive_policy_constraints.
ProactiveConstraints(frame) ==
    IF frame.input.kind # "idle_tick" THEN {}
    ELSE (IF Blocks(frame.constraints) THEN {Constraint("proactive_no_action", TRUE)} ELSE {})
         \cup (IF frame.relationship # None /\ frame.relationship.familiarity < Percent(20)
               THEN {Constraint("proactive_low_familiarity", FALSE)} ELSE {})
         \cup (IF frame.affect.arousal > Percent(75) /\ frame.affect.valence < -Percent(55)
               THEN {Constraint("proactive_calm_response", FALSE)} ELSE {})

\* _idle_score, _apply_relationship_score and _apply_affect_score, in hundredths.
SalienceScore(frame, memories) ==
    LET idle == (70 * Clamp(frame.input.idle, 0, 600)) \div 600
        known == frame.relationship # None
        relationship == IF known /\ frame.relationship.familiarity < Percent(20) THEN -15
                        ELSE IF known /\ frame.relationship.familiarity > Percent(60) THEN 5 ELSE 0
        affect == IF frame.affect.arousal > Percent(75) /\ frame.affect.valence < -Percent(55) THEN -25
                  ELSE IF frame.affect.valence > Percent(30) THEN 5 ELSE 0
    IN  Clamp(idle + (IF memories THEN 15 ELSE 0) + relationship + affect, 0, 100)

\* SalienceScorer.score and GoalProposer.propose: the priority of the goal to
\* speak, or -1.
ProactivePriority(frame, memories) ==
    IF frame.input.kind # "idle_tick" \/ Blocks(frame.constraints) \/ SalienceScore(frame, memories) < 50
    THEN -1 ELSE SalienceScore(frame, memories)

\* ProactiveActionSelectionStep.run: without a generator the goal has no text.
ProactivePlans(priority, answer) ==
    IF ~setup.generator
    THEN <<IF priority < 0 THEN Plan("no_action", None, FALSE, 0)
           ELSE Plan("proactive_talk", None, TRUE, priority)>>
    ELSE IF priority < 0 \/ answer \in {None, {}} THEN <<NoAction>>
    ELSE <<Plan("proactive_talk", answer, TRUE, priority)>>

-----------------------------------------------------------------------------
\* Mutant: the plan of the feature that ran last.
SelectLast(plans) == IF plans = <<>> THEN NoAction ELSE plans[Len(plans)]

\* CognitiveCycle._select_action_plan: the first plan of the highest priority.
SelectPlan(plans) ==
    IF plans = <<>> THEN NoAction
    ELSE plans[CHOOSE i \in DOMAIN plans :
                 /\ \A j \in DOMAIN plans : plans[j].priority <= plans[i].priority
                 /\ \A j \in 1 .. i - 1 : plans[j].priority < plans[i].priority]

\* BasicOutputSafetyGate.check_output.  The names of the key variables are looked
\* for in capitals in a text folded to small letters and are never found.
OutputBlocked(text) ==
    setup.outputGate /\ text \cap {"too_long", "secret_token", "control_character", "high_risk"} # {}

\* IrisApp.process_observation and RuntimeOutputPipeline.present_action_plan.
PresentPlan(plan) ==
    IF plan = NoAction \/ plan.text = None \/ ~plan.responds THEN None
    ELSE IF OutputBlocked(plan.text) THEN None ELSE plan.text

-----------------------------------------------------------------------------
Setups ==
    {s \in [durable : BOOLEAN, development : BOOLEAN, proactive : BOOLEAN, generator : BOOLEAN,
            semantic : BOOLEAN, outputGate : BOOLEAN] :
        /\ s.outputGate = ~s.development
        /\ s.proactive => s.development
        /\ s.generator => s.proactive}

CycleInit ==
    /\ setup \in Setups
    /\ cycles = {}
    /\ runs = 0
    /\ baseline = None
    /\ relationships = [a \in CycleActors |-> None]
    /\ presented = {}
    /\ related = [a \in CycleActors |-> 0]

\* A cycle waits for others at a model, and with SQLite at every store call.
MayRun(c) ==
    setup.durable \/ \A d \in cycles \ {c} : d.pc \in {"start", "generate", "present"}

\* get_global and upsert_global of the affect stores.
GetGlobal == baseline

UpsertGlobal(value) == baseline' = value

\* get and upsert of the relationship stores.
GetRelationship(actor) == relationships[actor]

UpsertRelationship(actor, value) == relationships' = [relationships EXCEPT ![actor] = value]

Advance(c, next) == cycles' = (cycles \ {c}) \cup {next}

\* CognitiveCycle.run begins: FrameBuilder.build_initial and the perception.
StartCycle(input) ==
    /\ runs < MaxRuns
    /\ Cardinality(cycles) < MaxCycles
    /\ runs' = runs + 1
    /\ cycles' = cycles \cup
           {[run |-> runs, input |-> input, pc |-> "start", text |-> Perceived(input), affect |-> NeutralAffect,
             relationship |-> None, contexts |-> {}, constraints |-> {}, plans |-> <<>>, read |-> None]}
    /\ UNCHANGED <<setup, baseline, relationships, presented, related>>

\* AffectBaselineLoadStep and AppraisalStep.
LoadAndAppraise(c) ==
    /\ c.pc = "start"
    /\ MayRun(c)
    /\ LET mood == UpdateMood(OrElse(GetGlobal, NeutralAffect), Appraise(c.text))
       IN  Advance(c, [c EXCEPT !.affect = IF Blank(c.text) THEN NeutralAffect ELSE mood,
                                !.pc = IF ~Blank(c.text) /\ IsMeaningful(mood) THEN "readBaseline" ELSE "readRelation"])
    /\ UNCHANGED <<setup, runs, baseline, relationships, presented, related>>

\* AffectPersistenceStep.run up to its read.
ReadBaseline(c) ==
    /\ c.pc = "readBaseline"
    /\ MayRun(c)
    /\ Advance(c, [c EXCEPT !.read = GetGlobal, !.pc = "writeBaseline"])
    /\ UNCHANGED <<setup, runs, baseline, relationships, presented, related>>

\* The rest of it: what was read may be old by now.
WriteBaseline(c) ==
    /\ c.pc = "writeBaseline"
    /\ MayRun(c)
    /\ UpsertGlobal(UpdateBaseline(c.read, c.affect))
    /\ Advance(c, [c EXCEPT !.read = None, !.pc = "readRelation"])
    /\ UNCHANGED <<setup, runs, relationships, presented, related>>

\* Mutant: a tick of the runtime counts as a message of its actor.
RelatesEveryone(input, text) == input.actor # None

\* The early returns of RelationshipStep.run.
Relates(input, text) == input.kind = "actor_message" /\ input.actor # None /\ ~Blank(text)

\* RelationshipStep.run up to its read, or the whole of it when it is skipped.
ReadRelation(c) ==
    /\ c.pc = "readRelation"
    /\ MayRun(c)
    /\ IF Relates(c.input, c.text)
       THEN Advance(c, [c EXCEPT !.read = GetRelationship(c.input.actor), !.pc = "writeRelation"])
       ELSE Advance(c, [c EXCEPT !.pc = "decide"])
    /\ UNCHANGED <<setup, runs, baseline, relationships, presented, related>>

WriteRelation(c) ==
    /\ c.pc = "writeRelation"
    /\ MayRun(c)
    /\ LET updated == UpdateRelationship(OrElse(c.read, NewRelationship), c.affect, setup.semantic)
       IN  /\ UpsertRelationship(c.input.actor, updated)
           /\ Advance(c, [c EXCEPT !.relationship = updated, !.read = None, !.pc = "decide"])
    /\ related' = [related EXCEPT ![c.input.actor] = @ + (IF c.input.kind = "actor_message" THEN 1 ELSE 0)]
    /\ UNCHANGED <<setup, runs, baseline, presented>>

\* SafetyContextClassificationStep, PolicyInhibitionStep, SafetyResponsePolicyStep,
\* and the feature steps up to the first model call: the echo in development, the
\* policy of proactive talk.
Decide(c) ==
    /\ c.pc = "decide"
    /\ MayRun(c)
    /\ LET contexts == SafetyContexts(c.text)
           safe == [c EXCEPT !.contexts = contexts]
           held == [safe EXCEPT !.constraints = Inhibition(safe)]
           all == IF setup.proactive THEN held.constraints \cup ProactiveConstraints(held) ELSE held.constraints
           echo == IF setup.development THEN EchoPlans(held) ELSE <<>>
       IN  Advance(c, [held EXCEPT !.constraints = all, !.plans = SafetyPlans(contexts) \o echo, !.pc = "generate"])
    /\ UNCHANGED <<setup, runs, baseline, relationships, presented, related>>

\* ProactiveActionSelectionStep and ResponseGenerationStep, each with its model.
Generate(c, memories, answer) ==
    /\ c.pc = "generate"
    /\ LET proactive == IF setup.proactive THEN ProactivePlans(ProactivePriority(c, memories), answer) ELSE <<>>
           chat == IF Chats(c) THEN ChatPlans(answer) ELSE <<>>
       IN  Advance(c, [c EXCEPT !.plans = @ \o proactive \o chat, !.pc = "present"])
    /\ UNCHANGED <<setup, runs, baseline, relationships, presented, related>>

\* The selected plan is presented.
Finish(c) ==
    /\ c.pc = "present"
    /\ LET plan == SelectPlan(c.plans)
       IN  presented' = presented \cup {[input |-> c.input, plan |-> plan, output |-> PresentPlan(plan)]}
    /\ cycles' = cycles \ {c}
    /\ UNCHANGED <<setup, runs, baseline, relationships, related>>

\* A store or a model raises: the observation fails, what was written stays.
FailCycle(c) ==
    /\ c.pc \in {"generate"} \/ (setup.durable /\ c.pc \notin {"decide", "present"})
    /\ cycles' = cycles \ {c}
    /\ UNCHANGED <<setup, runs, baseline, relationships, presented, related>>

CycleNext ==
    \/ \E input \in Inputs : StartCycle(input)
    \/ \E c \in cycles :
        \/ LoadAndAppraise(c)
        \/ ReadBaseline(c)
        \/ WriteBaseline(c)
        \/ ReadRelation(c)
        \/ WriteRelation(c)
        \/ Decide(c)
        \/ \E memories \in BOOLEAN, answer \in Answers : Generate(c, memories, answer)
        \/ Finish(c)
        \/ FailCycle(c)

CycleSpec == CycleInit /\ [][CycleNext]_cycleVars

-----------------------------------------------------------------------------
\* A message the safety classifier refuses or redirects is answered with the fixed
\* safety text, whatever the features of the runtime propose beside it, the echo
\* that asks no constraint included; no model is asked for that answer.
HighRiskAnsweredSafely ==
    \A p \in presented :
        LET strict == {c \in SafetyContexts(Perceived(p.input)) : c.directive \in {"refuse", "safe_redirect"}}
        IN  strict # {} => p.output = {"fixed"}

\* Only messages make an actor familiar: with dictionaries exactly one step for
\* each, and with SQLite, where concurrent turns may lose one, never more.  The
\* ticks the runtime sends itself do not count (RelationshipStep.run).
FamiliarityEarned ==
    \A a \in CycleActors :
        LET earned == Clamp(related[a] * FamiliarityStep, 0, Unit)
            shown == IF relationships[a] = None THEN 0 ELSE relationships[a].familiarity
        IN  shown <= earned /\ (~setup.durable => shown = earned)
=============================================================================

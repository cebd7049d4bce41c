----------------------------- MODULE Companion ------------------------------
(***************************************************************************)
(* What Iris makes of the tone of a message: the appraisal of its words,   *)
(* the mood, the affect baseline, the relationship with the actor, and the *)
(* candidates for a reviewed change of the relationship.                   *)
(*                                                                         *)
(* A text is a set of segments (the parts between full stops), a segment a *)
(* set of words.  A word table of the code is represented by some of its   *)
(* words, chosen so that every overlap of two tables occurs.  A float is a *)
(* number of millionths, and a division that is not exact rounds down.     *)
(***************************************************************************)
EXTENDS Integers, FiniteSets, Sequences, FiniteSetsExt, Optional

Unit == 1000000

\* _GRATITUDE_KEYWORDS ... _USER_EMOTION_NEGATIVE_KEYWORDS.
Positive == {"thanks", "great", "happy", "love"}
Negative == {"sad", "hate", "afraid", "useless"}
Arousal == {"urgent", "asap", "hurry"}
LowDominance == {"unsure", "confused", "helpless"}
Gratitude == {"thanks"}
IrisReference == {"iris"}
TopicReference == {"bug", "game"}
UserEmotion == {"sad", "afraid", "happy", "confused"}
CareIntent == {"take care"}
DependencyRisk == {"you decide everything"}
AttitudePositive == {"thanks", "love", "great"}
AttitudeNegative == {"hate", "useless"}
DirectComplaint == {"useless"}
TopicPositive == {"great", "love"}
TopicNegative == {"hate"}
UserEmotionPositive == {"happy"}
UserEmotionNegative == {"sad", "afraid", "confused"}

Words(text) == UNION text

\* _count_matches: how many words of the table occur.
Count(words, table) == Cardinality(words \cap table)

Mentions(text, table) == Count(Words(text), table) > 0

\* _count_contextual_matches: only the segments that mention the context count.
ContextCount(text, context, table) ==
    FoldSet(LAMBDA segment, sum : sum + Count(segment, table), 0,
            {segment \in text : Count(segment, context) > 0})

Clamp(value, lower, upper) == IF value < lower THEN lower ELSE IF value > upper THEN upper ELSE value

Absolute(value) == IF value < 0 THEN -value ELSE value

-----------------------------------------------------------------------------
Affect(label, v, a, d) == [label |-> label, valence |-> v, arousal |-> a, dominance |-> d]

NeutralAffect == Affect(None, 0, 0, 0)

\* label_for_vad.
LabelFor(v, a, d) ==
    LET threshold == Unit \div 5
    IN  IF v >= threshold THEN "positive"
        ELSE IF v <= -threshold THEN IF a >= threshold THEN "distressed" ELSE "negative"
        ELSE IF d <= -threshold THEN "uncertain"
        ELSE IF a >= threshold THEN "alert" ELSE None

\* classify_appraisal.
Appraise(text) ==
    LET positive == Count(Words(text), Positive)
        negative == Count(Words(text), Negative)
        toned == IF positive + negative < 2 THEN positive + negative ELSE 2
        v == Clamp((positive - negative) * (Unit \div 4), -Unit, Unit)
        a == Clamp(Count(Words(text), Arousal) * (Unit \div 5) + toned * (Unit \div 20), -Unit, Unit)
        d == Clamp(-(Count(Words(text), LowDominance) * (Unit \div 4)), -Unit, Unit)
    IN  Affect(LabelFor(v, a, d), v, a, d)

\* update_mood with the elapsed time the runtime wires, none: nothing decays.
UpdateMood(current, appraisal) ==
    LET move(old, new) == Clamp(old + (new * 35) \div 100, -Unit, Unit)
        v == move(current.valence, appraisal.valence)
        a == move(current.arousal, appraisal.arousal)
        d == move(current.dominance, appraisal.dominance)
    IN  Affect(IF appraisal.label # None THEN appraisal.label ELSE LabelFor(v, a, d), v, a, d)

\* _has_meaningful_affect.
IsMeaningful(affect) == affect # NeutralAffect

\* _update_baseline with _smooth.
UpdateBaseline(current, affect) ==
    LET smooth(old, new) == Clamp((9 * old + new) \div 10, -Unit, Unit)
    IN  IF current = None THEN affect
        ELSE Affect(IF affect.label # None THEN affect.label ELSE current.label,
                    smooth(current.valence, affect.valence),
                    smooth(current.arousal, affect.arousal),
                    smooth(current.dominance, affect.dominance))

-----------------------------------------------------------------------------
\* default_relationship_snapshot.
NewRelationship == [affinity |-> 0, trust |-> Unit \div 2, familiarity |-> 0]

FamiliarityStep == Unit \div 20

\* _apply_relationship_delta.
ApplyRelationshipDelta(current, affinityDelta, trustDelta) ==
    [affinity |-> Clamp(current.affinity + affinityDelta, -Unit, Unit),
     trust |-> Clamp(current.trust + trustDelta, 0, Unit),
     familiarity |-> Clamp(current.familiarity + FamiliarityStep, 0, Unit)]

\* update_relationship, and update_relationship_semantic_boundary when the
\* appraisal signals are enabled.
UpdateRelationship(current, affect, semantic) ==
    IF semantic THEN ApplyRelationshipDelta(current, 0, 0)
    ELSE ApplyRelationshipDelta(
            current, affect.valence \div 20,
            IF affect.valence > Unit \div 10 THEN Unit \div 50
            ELSE IF affect.valence < -(Unit \div 10) THEN -(Unit \div 50) ELSE 0)

-----------------------------------------------------------------------------
Signal(kind, polarity, confidence) == [kind |-> kind, polarity |-> polarity, confidence |-> confidence]

Percent(n) == n * (Unit \div 100)

\* _semantic_polarity.
Polarity(positive, negative) ==
    LET total == IF positive + negative > 1 THEN positive + negative ELSE 1
    IN  ((positive - negative) * Unit) \div total

ImplicitComplaint(text) == Mentions(text, DirectComplaint) /\ ~Mentions(text, TopicReference)

\* _attitude_candidate.
AttitudeSignals(text) ==
    LET gratitude == Mentions(text, Gratitude)
        addressed == Mentions(text, IrisReference) \/ gratitude
        atLeastOne(n, known) == IF known /\ n = 0 THEN 1 ELSE n
        positive == atLeastOne(ContextCount(text, IrisReference \cup Gratitude, AttitudePositive), gratitude)
        negative == atLeastOne(ContextCount(text, IrisReference \cup DirectComplaint, AttitudeNegative),
                               ImplicitComplaint(text))
    IN  IF (addressed \/ ImplicitComplaint(text)) /\ positive + negative > 0
        THEN {Signal("attitude_toward_iris", Polarity(positive, negative), Percent(IF addressed THEN 90 ELSE 72))}
        ELSE {}

\* _topic_sentiment_candidate.
TopicSignals(text) ==
    LET positive == ContextCount(text, TopicReference, TopicPositive)
        negative == ContextCount(text, TopicReference, TopicNegative)
    IN  IF positive + negative > 0
        THEN {Signal("topic_sentiment", Polarity(positive, negative), Percent(78))} ELSE {}

\* _user_emotion_candidate and _uncertain_emotion_candidate, whose conditions
\* may hold together.
EmotionSignals(text) ==
    LET positive == Count(Words(text), UserEmotionPositive)
        negative == Count(Words(text), UserEmotionNegative)
        uncertain == /\ ~Mentions(text, Positive \cup Negative)
                     /\ Mentions(text, UserEmotion \cup LowDominance)
                     /\ ~Mentions(text, CareIntent)
    IN  (IF positive + negative > 0 THEN {Signal("user_emotion", Polarity(positive, negative), Percent(78))} ELSE {})
            \cup IF uncertain THEN {Signal("user_emotion", 0, Percent(70))} ELSE {}

\* classify_appraisal_signals.
AppraisalSignals(text, dependencyHint) ==
    (IF dependencyHint /\ Mentions(text, DependencyRisk)
     THEN {Signal("dependency_risk_hint", -Unit, Percent(85))} ELSE {})
        \cup (IF Mentions(text, CareIntent) THEN {Signal("care_intent", Percent(70), Percent(82))} ELSE {})
        \cup AttitudeSignals(text) \cup TopicSignals(text) \cup EmotionSignals(text)

-----------------------------------------------------------------------------
\* RelationshipUpdatePolicyConfig.bounds_for_scope.
DeltaBounds(scope) ==
    IF scope = "direct_message" THEN [affinity |-> Percent(3), trust |-> Percent(1)]
    ELSE [affinity |-> Percent(3) \div 2, trust |-> Percent(1) \div 2]

\* _bounded_attitude_delta.
AttitudeDelta(signal, bounds) ==
    LET thousandth == Unit \div 1000
        scale(value, factor) == (value * (factor \div thousandth)) \div 1000
        weighted(bound) == scale(scale(bound, signal.polarity), signal.confidence)
    IN  [affinity |-> Clamp(weighted(bounds.affinity), -bounds.affinity, bounds.affinity),
         trust |-> Clamp(weighted(bounds.trust) \div 3, -bounds.trust, bounds.trust)]

MaxComponent(delta) == Max({Absolute(delta.affinity), Absolute(delta.trust)})

\* _attitude_decision_kind.
AttitudeDecision(signal, delta) ==
    IF MaxComponent(delta) = 0 THEN "suppressed"
    ELSE IF signal.confidence < Percent(75) \/ MaxComponent(delta) >= Percent(5) \div 2
    THEN "review_required" ELSE "automatic_bounded"

NoDelta == [affinity |-> 0, trust |-> 0]

\* _candidate_for_signal: only the attitude toward Iris may move the relationship.
RelationshipCandidate(signal, scope) ==
    LET delta == AttitudeDelta(signal, DeltaBounds(scope))
    IN  IF signal.kind # "attitude_toward_iris"
        THEN [decision |-> "suppressed", delta |-> NoDelta, signal |-> signal, scope |-> scope]
        ELSE [decision |-> AttitudeDecision(signal, delta), delta |-> delta, signal |-> signal, scope |-> scope]

\* The validators of RelationshipUpdateCandidate.
ValidRelationshipCandidate(c) ==
    /\ Absolute(c.delta.affinity) <= DeltaBounds(c.scope).affinity
    /\ Absolute(c.delta.trust) <= DeltaBounds(c.scope).trust
    /\ (c.decision = "suppressed") = (MaxComponent(c.delta) = 0)

\* compute_relationship_update_policy.
RelationshipCandidates(signals, scope) == {RelationshipCandidate(s, scope) : s \in signals}
=============================================================================

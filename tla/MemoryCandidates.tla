-------------------------- MODULE MemoryCandidates --------------------------
(***************************************************************************)
(* What of a text may be remembered: the rules that propose memories from  *)
(* what a user says outright, the policy for writing them at once, the     *)
(* rules for implicit candidates and their admission to review, and the    *)
(* consolidation of candidates.                                            *)
(*                                                                         *)
(* A text is a sequence of words.  A pattern of the code is a phrase that  *)
(* is one word here: a pattern anchored at the start of the text must be   *)
(* the first word, any other may occur anywhere, and it captures the words *)
(* that follow.  "." is punctuation.  Confidences are percentages.         *)
(***************************************************************************)
EXTENDS Integers, FiniteSets, Sequences, FiniteSetsExt, SequencesExt, Optional

CONSTANTS
    MaxMemoryText,      \* MemoryWritePolicy.max_text_length
    MaxCandidateText,   \* ImplicitCandidateAdmissionPolicy.max_text_length
    StaleAfter          \* MemoryConsolidationPolicy.stale_after_seconds

ASSUME ConsolidationBounds == StaleAfter \in Nat \ {0}

Remember == {"remember:", "remember that"}
NameIs == {"my name is"}
SelfIdentification == {"i am"}
PreferredName == {"call me"}
StablePreference == {"i like", "i hate"}
ResponseStyle == {"briefly from now on"}
LanguageSubject == {"write in japanese"}
LanguagePreference == {"answer in japanese"}
Skip == {"don't save"}
PositiveFeedback == {"that helped"}
NegativeFeedback == {"wrong"}
CredentialLike == {"password"}
SensitiveProfile == {"depressed"}
UnsafeName == {"this variable"}

Matches(text, table) == \E i \in DOMAIN text : text[i] \in table

\* _clean_memory_value: the punctuation at both ends goes.
Clean(value) ==
    LET kept == {i \in DOMAIN value : value[i] # "."}
    IN  IF kept = {} THEN <<>> ELSE SubSeq(value, Min(kept), Max(kept))

\* _first_capture of anchored patterns: what follows the phrase, None if nothing.
Capture(text, table) ==
    IF text # <<>> /\ text[1] \in table /\ Clean(Tail(text)) # <<>> THEN Clean(Tail(text)) ELSE None

\* What follows a phrase that may stand anywhere in the text.
SearchCapture(text, phrase) ==
    IF ~Matches(text, {phrase}) THEN <<>>
    ELSE Clean(SubSeq(text, SelectInSeq(text, LAMBDA w : w = phrase) + 1, Len(text)))

\* MemoryCandidate.
Candidate(text, kind, confidence, source, retention, sensitivity) ==
    [text |-> text, kind |-> kind, confidence |-> confidence, source |-> source,
     retention |-> retention, sensitivity |-> sensitivity, review |-> retention = "review_required"]

-----------------------------------------------------------------------------
\* is_safe_preferred_name; the 40 characters are MaxName words.
MaxName == 2
SafeName(name) == Len(name) <= MaxName /\ ~Matches(name, UnsafeName)

\* is_unsafe_preferred_name_memory_text.
UnsafeNameMemory(text) == Len(text) > 1 /\ text[1] = "preferred name" /\ text[2] \in UnsafeName

\* _extract_remember: one candidate for each pattern found.
RememberCandidates(text) ==
    {Candidate(SearchCapture(text, p), "note", 90, "user_request", "durable", "normal") :
        p \in {q \in Remember : SearchCapture(text, q) # <<>>}}

\* _extract_profile_statements: a name, else what the user says they are.
ProfileCandidates(text) ==
    LET name == Capture(text, NameIs)
        self == Capture(text, SelfIdentification)
    IN  IF name # None
        THEN {Candidate(<<"name">> \o name, "fact", 95, "profile_statement", "until_changed", "personal")}
        ELSE IF self = None THEN {}
        ELSE IF Matches(self, SensitiveProfile)
        THEN {Candidate(<<"self">> \o self, "fact", 80, "profile_statement", "review_required", "sensitive")}
        ELSE {Candidate(<<"self">> \o self, "fact", 80, "profile_statement", "until_changed", "personal")}

\* _extract_preferred_names.
NameCandidates(text) ==
    LET name == Capture(text, PreferredName)
    IN  IF name = None THEN {}
        ELSE IF ~SafeName(name) THEN {}
        ELSE {Candidate(<<"preferred name">> \o name, "preference", 95, "profile_statement", "until_changed", "personal")}

\* _extract_stable_preferences with _ja_preference_text and _en_preference_text.
PreferenceCandidates(text) ==
    LET preference == Capture(text, StablePreference)
    IN  IF preference = None THEN {}
        ELSE {Candidate(<<text[1]>> \o preference, "preference", 88, "preference_statement", "long_term", "normal")}

\* _extract_response_style: the text is a fixed sentence.
StyleCandidates(text) ==
    IF ~Matches(text, ResponseStyle) THEN {}
    ELSE {Candidate(<<"short answers">>, "preference", 90, "user_instruction", "until_changed", "normal")}

\* _extract_language_preferences.
LanguageCandidates(text) ==
    LET subject == Capture(text, LanguageSubject)
        instruction(content) ==
            {Candidate(content, "preference", 90, "user_instruction", "until_changed", "normal")}
    IN  IF subject # None THEN instruction(<<"in japanese">> \o subject)
        ELSE IF Matches(text, LanguagePreference) THEN instruction(<<"japanese answers">>) ELSE {}

\* RuleBasedMemoryCandidateExtractor.extract.
ExtractMemories(text) ==
    IF Matches(text, Skip) THEN {}
    ELSE UNION {RememberCandidates(text), ProfileCandidates(text), NameCandidates(text),
                PreferenceCandidates(text), StyleCandidates(text), LanguageCandidates(text)}

\* _EXPLICIT_SOURCES, _ACCEPTED_RETENTION_POLICIES and _ACCEPTED_SENSITIVITY.
ExplicitSources == {"user_request", "profile_statement", "preference_statement", "user_instruction"}
AcceptedRetention == {"durable", "long_term", "until_changed"}
AcceptedSensitivity == {"normal", "personal"}

\* MemoryWritePolicy.accept.
WriteAccepts(c) ==
    /\ c.text # <<>> /\ Len(c.text) <= MaxMemoryText /\ c.confidence >= 60
    /\ c.source \in ExplicitSources /\ c.retention \in AcceptedRetention
    /\ c.sensitivity \in AcceptedSensitivity /\ ~c.review
    /\ ~Matches(c.text, CredentialLike) /\ ~Matches(c.text, SensitiveProfile)
    /\ ~UnsafeNameMemory(c.text)

-----------------------------------------------------------------------------
\* _sensitivity_for_text.
SensitivityOf(text) ==
    IF Matches(text, CredentialLike) THEN "secret_like"
    ELSE IF Matches(text, SensitiveProfile) THEN "sensitive" ELSE "normal"

\* _feedback_kind_has_signal.
SignalFeedback == {"positive", "negative", "style_preference", "correction"}

\* _feedback_text_has_marker.
HasMarker(text) == Matches(text, PositiveFeedback \cup NegativeFeedback)

\* _candidate: every implicit candidate asks for a review.
Implicit(prefix, text, kind, confidence) ==
    Candidate(<<prefix>> \o text, kind, confidence, "implicit_conversation", "review_required", SensitivityOf(text))

\* _feedback_confidence.
FeedbackConfidence(feedback, text) ==
    IF feedback \in {"style_preference", "correction"} THEN 60
    ELSE IF feedback \in {"positive", "negative"} THEN 45
    ELSE IF HasMarker(text) THEN 40 ELSE 30

\* _feedback_candidates with _feedback_text and _feedback_memory_kind.
FeedbackCandidates(feedback, text) ==
    IF text = <<>> THEN {}
    ELSE {Implicit(IF feedback = "style_preference" THEN "on style"
                   ELSE IF feedback = "correction" THEN "corrected" ELSE "feedback", text,
                   IF feedback = "style_preference" THEN "preference"
                   ELSE IF feedback \in {"positive", "negative"} THEN "relationship_event" ELSE "note",
                   FeedbackConfidence(feedback, text))}

\* _actor_message_candidates.
MessageCandidates(text) ==
    (IF Matches(text, ResponseStyle) THEN {Implicit("style wish", text, "preference", 55)} ELSE {})
        \cup IF Matches(text, LanguagePreference) THEN {Implicit("language wish", text, "preference", 55)} ELSE {}

\* ConservativeImplicitMemoryCandidateExtractor.extract.
ImplicitCandidates(payload) ==
    IF payload.kind = "feedback" THEN FeedbackCandidates(payload.feedback, payload.text)
    ELSE MessageCandidates(payload.text)

\* has_implicit_candidate_signal.
HasImplicitSignal(payload) ==
    /\ payload.text # <<>>
    /\ IF payload.kind = "feedback" THEN payload.feedback \in SignalFeedback \/ HasMarker(payload.text)
       ELSE Matches(payload.text, ResponseStyle \cup LanguagePreference)

\* candidate_content_is_valid and implicit_review_provenance_is_valid.
ContentValid(c) == c.text # <<>> /\ Len(c.text) <= MaxCandidateText /\ c.confidence >= 35
ReviewProvenance(c) ==
    c.source \in {"implicit_conversation", "consolidation"} /\ c.retention = "review_required" /\ c.review

\* Mutant: the sensitivity the candidate declares is believed.
AdmitDeclared(c) == ContentValid(c) /\ ReviewProvenance(c) /\ c.sensitivity \in {"normal", "personal", "sensitive"}

\* ImplicitCandidateAdmissionPolicy.accept, as wired: no sensitive candidates.
Admit(c) ==
    /\ ContentValid(c) /\ ReviewProvenance(c)
    /\ ~Matches(c.text, CredentialLike) /\ ~Matches(c.text, SensitiveProfile)
    /\ c.sensitivity \in {"normal", "personal", "sensitive"}

-----------------------------------------------------------------------------
\* A source candidate is a Candidate with an id, an owner (account, actor and
\* space) and its creation time.

\* MemoryConsolidationPolicy.accept.
SourceAccepted(s) ==
    /\ s.text # <<>> /\ s.sensitivity # "secret_like"
    /\ ~Matches(s.text, CredentialLike) /\ ~Matches(s.text, SensitiveProfile) /\ ~UnsafeNameMemory(s.text)

\* _normalize_text: letter case and punctuation do not tell texts apart.
Normalized(text) ==
    LET fold(w) == IF w = "Tea" THEN "tea" ELSE w
        words == SelectSeq(text, LAMBDA w : w # ".")
    IN  [i \in DOMAIN words |-> fold(words[i])]

\* _quality_key and _newest_quality_key: the source of the largest key.
Best(group) ==
    CHOOSE s \in group : \A t \in group :
        s.confidence > t.confidence \/ (s.confidence = t.confidence /\ s.id >= t.id)
Newest(group) ==
    CHOOSE s \in group : \A t \in group :
        \/ s.at > t.at
        \/ s.at = t.at /\ s.confidence > t.confidence
        \/ s.at = t.at /\ s.confidence = t.confidence /\ s.id >= t.id

\* MemoryConsolidationCandidate; _result_id is the decision with the sources.
Consolidated(decision, group, proposed, confidence) ==
    [id |-> <<decision, {s.id : s \in group}>>, decision |-> decision, proposed |-> proposed,
     sources |-> {s.id : s \in group},
     supersedes |-> IF decision = "conflict" THEN {s.id : s \in group} \ {proposed.id} ELSE {},
     confidence |-> confidence]

\* _build_group_result: sources that say the same are duplicates, others conflict.
GroupResult(group) ==
    IF Cardinality({Normalized(s.text) : s \in group}) = 1
    THEN Consolidated(IF Cardinality(group) > 1 THEN "duplicate" ELSE "retained",
                      group, Best(group), Max({s.confidence : s \in group}))
    ELSE Consolidated("conflict", group, Newest(group), Min({s.confidence : s \in group}))

\* consolidate_memory_candidates: the stale one by one, the fresh by owner and kind.
Consolidate(sources, now) ==
    LET accepted == {s \in sources : SourceAccepted(s)}
        stale == {s \in accepted : s.at < now - StaleAfter}
        groups == {{t \in accepted \ stale : t.owner = s.owner /\ t.kind = s.kind} : s \in accepted \ stale}
    IN  {Consolidated("stale", {s}, s, s.confidence) : s \in stale} \cup {GroupResult(g) : g \in groups}
=============================================================================

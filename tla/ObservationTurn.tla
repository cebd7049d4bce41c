-------------------------- MODULE ObservationTurn ---------------------------
(***************************************************************************)
(* One turn of the runtime: SubmitObservation hands an observation to      *)
(* RuntimeObservationProcessor, which routes it.  A message loads the      *)
(* recent conversation, thinks, passes the answer through the safety gates *)
(* and the presentation, records it in the conversation history and in the *)
(* confirmed transcript, tells the learning hooks and answers the client.  *)
(* An activity event may get a reaction, which is presented the same way   *)
(* and recorded nowhere.  A message delivered by an app (the delivery hook)*)
(* joins the history of its target.                                        *)
(*                                                                         *)
(* Turns interleave wherever one waits: for a model, for a gate, for the   *)
(* thread that writes the transcript, for a hook.  A client may drop its   *)
(* call at each of these points and may send the observation again.        *)
(***************************************************************************)
EXTENDS Naturals, Sequences, FiniteSets, FiniteSetsExt, Transcript

CONSTANTS
    Observations,       \* records as in ObservationFields
    Delivered,          \* reports of delivered messages: [n, key, actor, at, ok, len]
    MaxRecords,         \* InMemoryConversationHistoryStore(max_records)
    MaxWindowRecords,   \* ConversationHistoryPolicy
    MaxHistoryChars,
    SummaryMinRecords,
    Retention,          \* TranscriptWritePolicy(retention_days), 0 for none
    MaxSubmits,         \* bound: observations sent, repetitions included
    MaxTurns            \* bound: turns in progress at once

ObservationFields == {"n", "kind", "key", "actor", "at", "len", "trusted", "activity"}

\* An observation id is that of one observation.  The texts of answers are pairs of
\* an observation and an attempt, counted from one; no other text is one of them.
ASSUME ObservationShape ==
    /\ \A o \in Observations :
         DOMAIN o = ObservationFields /\ o.n \in Nat /\ o.at \in Nat /\ o.len \in Nat
    /\ \A o, p \in Observations : o.n = p.n => o = p
    /\ \A d \in Delivered : d.n \in Nat /\ d.at \in Nat /\ d.len \in Nat
    /\ \A row \in HeldRows : row.text \notin Nat \X (Nat \ {0})
    /\ None \notin Nat \X Nat
    /\ {MaxRecords, MaxWindowRecords, SummaryMinRecords} \subseteq Nat

VARIABLES
    turns,      \* turns in progress
    submits,    \* how often each observation was sent
    history,    \* InMemoryConversationHistoryStore, by conversation
    reported,   \* deliveries whose report reached the hook
    window,     \* the window loaded last
    barred      \* history: texts a gate blocked, and of attempts an error ended

turnVars == <<transcriptVars, turns, submits, history, reported, window, barred>>

ConversationKeys == {o.key : o \in Observations} \cup {d.key : d \in Delivered}

-----------------------------------------------------------------------------
SuffixOf(s, n) == SubSeq(s, Len(s) - n + 1, Len(s))

Latest(s, n) == IF n < Len(s) THEN SuffixOf(s, n) ELSE s

Chars(records) == SumFunction([i \in DOMAIN records |-> records[i].len])

\* The loop of _select_recent: newest first, until one does not fit.
TakeWhileFits(candidates) ==
    LET fits(n) == Chars(SuffixOf(candidates, n)) <= MaxHistoryChars
    IN  SuffixOf(candidates, Max({n \in 0 .. Len(candidates) : \A m \in 1 .. n : fits(m)}))

SelectRecent(records) ==
    IF MaxWindowRecords = 0 \/ MaxHistoryChars = 0 THEN <<>>
    ELSE TakeWhileFits(Latest(records, MaxWindowRecords))

\* build_window of the records load_context asks for.
BuildWindow(records) ==
    LET loaded == Latest(records, IF 2 * SummaryMinRecords > MaxWindowRecords
                                  THEN 2 * SummaryMinRecords ELSE MaxWindowRecords)
        recent == SelectRecent(loaded)
        older == SubSeq(loaded, 1, Len(loaded) - Len(recent))
    IN  [records |-> recent,
         summary |-> IF Len(loaded) >= SummaryMinRecords /\ older # <<>> THEN older ELSE <<>>]

\* store.append: one call for all records of a turn.
AppendHistory(key, records) ==
    history' = [history EXCEPT ![key] = Latest(@ \o records, MaxRecords)]

\* _transcript_id: a digest of the source, the role and the observation or action.
TranscriptIdOf(n, source, role) ==
    4 * n + (IF source = "delivered_action" THEN 2 ELSE IF role = "user" THEN 0 ELSE 1)

RetentionUntil == IF Retention = 0 THEN None ELSE transcriptTime + Retention

\* _transcript_record: nothing in the runtime sets a hold.
TranscriptRow(subject, source, role, at, text) ==
    [id |-> TranscriptIdOf(subject.n, source, role), key |-> subject.key, actor |-> subject.actor,
     at |-> at, role |-> role, text |-> text, retention |-> RetentionUntil, hold |-> None]

\* _inline_transcripts.
InlineRows(o, text, at) ==
    <<TranscriptRow(o, "inline_response", "user", o.at, None),
      TranscriptRow(o, "inline_response", "assistant", at, text)>>

-----------------------------------------------------------------------------
TurnInit ==
    /\ TranscriptInit
    /\ turns = {}
    /\ submits = [o \in Observations |-> 0]
    /\ history = [k \in ConversationKeys |-> <<>>]
    /\ reported = {}
    /\ window = BuildWindow(<<>>)
    /\ barred = {}

Turn(o, attempt, pc, text, at) ==
    [obs |-> o, attempt |-> attempt, pc |-> pc, text |-> text, at |-> at]

Step(t, next) == turns' = (turns \ {t}) \cup {next}

\* The text an attempt proposes; its length is the number of the attempt.
TextOf(t) == <<t.obs.n, t.attempt>>

Fail(t) ==
    /\ turns' = turns \ {t}
    /\ barred' = barred \cup {TextOf(t)}

\* SubmitObservation of an authorised and well-formed request.  There is no lookup
\* of the observation id: a repeated request is a turn like any other.
Submit(o) ==
    /\ MapThenSumSet(LAMBDA p : submits[p], Observations) < MaxSubmits
    /\ Cardinality(turns) < MaxTurns
    /\ submits' = [submits EXCEPT ![o] = @ + 1]
    /\ turns' = turns \cup {Turn(o, submits[o] + 1, "integrate", None, None)}
    /\ UNCHANGED <<transcriptVars, history, reported, window, barred>>

\* route_observation.
Route(o) ==
    CASE o.kind = "activity_event" -> "react"
      [] o.kind = "presence_signal" -> "respond"
      [] o.kind = "user_feedback" -> "learn"
      [] OTHER -> "think"

\* The integrators and the context assembler (RuntimeState), of which a store may
\* raise; the route; and for a message load_context.  A presence signal is done.
IntegrateAndRoute(t) ==
    /\ t.pc = "integrate"
    /\ \/ /\ turns' = (turns \ {t}) \cup
                 (IF Route(t.obs) = "respond" THEN {} ELSE {[t EXCEPT !.pc = Route(t.obs)]})
          /\ window' = IF Route(t.obs) = "think" THEN BuildWindow(history[t.obs.key]) ELSE window
          /\ UNCHANGED barred
       \/ Fail(t) /\ UNCHANGED window
    /\ UNCHANGED <<transcriptVars, submits, history, reported>>

\* IrisApp.process_observation up to the plan: an answer, no action, or an error
\* of the model.
Think(t) ==
    /\ t.pc = "think"
    /\ \/ Step(t, [t EXCEPT !.pc = "present"]) /\ UNCHANGED barred
       \/ Step(t, [t EXCEPT !.pc = "learn"]) /\ UNCHANGED barred
       \/ Fail(t)
    /\ UNCHANGED <<transcriptVars, submits, history, reported, window>>

\* default_event_reaction_policy: when an activity may be answered.
ReactionPolicy(activity) ==
    CASE activity = "voice_joined" -> {"available", "interruptible", "passive"}
      [] activity = "app_opened" -> {"available", "interruptible"}
      [] OTHER -> {}

\* EventReactionPlanner.plan; the activities the policy names have a template.
Plans(o, status) == o.actor # None /\ status \in ReactionPolicy(o.activity)

\* What a call of the response generator comes to: it raises, the cascade refuses
\* it, or it accepts a text that may be blank or too long.
GeneratorCalls == {"raised", "defer", "deny", "other_refusal", "unusable", "text"}

\* EventReactionResponseGenerator.generate.
GenerationOutcome(call) ==
    CASE call = "defer" -> "deferred"
      [] call = "deny" -> "no_send"
      [] call = "text" -> "generated"
      [] OTHER -> "deterministic_fallback"

\* _resolve_candidate: without a generator the template stays.
Resolved(call) == GenerationOutcome(call) \notin {"no_send", "deferred"}

\* EventReactionDecisionPipeline.decide, with the availability of the context.
Decides(o, status, call) == Plans(o, status) /\ (call = None \/ Resolved(call))

AvailabilityStatuses == {"unknown", "available", "interruptible", "passive", "busy", "unavailable"}

\* ActivityEventReactionHandler.handle: an untrusted event gets no reaction, nor
\* does one without a context, whatever the planners would say.
React(t) ==
    /\ t.pc = "react"
    /\ \/ /\ t.obs.trusted
          /\ \E status \in AvailabilityStatuses, call \in GeneratorCalls \cup {None} :
               Decides(t.obs, status, call)
          /\ Step(t, [t EXCEPT !.pc = "present"])
       \/ Step(t, [t EXCEPT !.pc = "learn"])
    /\ UNCHANGED <<transcriptVars, submits, history, reported, window, barred>>

\* Mutant: an output the gate blocks keeps its text.
BlockedKeepsText(t, decision) == TextOf(t)

\* RuntimeOutputPipeline: either gate blocks the plan or the presented output.
PresentedText(t, decision) ==
    IF decision = "allow" THEN TextOf(t) ELSE None

\* The presentation of the plan or of the reaction, and record_response: both
\* records of a message's turn join the history in one call, and a thread begins
\* to write the transcript.
Present(t) ==
    /\ t.pc = "present"
    /\ \E decision \in {"block_action", "block_output", "allow"} :
         LET text == PresentedText(t, decision)
             records == <<[role |-> "user", obs |-> t.obs.n, len |-> t.obs.len, text |-> None],
                          [role |-> "assistant", obs |-> t.obs.n, len |-> t.attempt, text |-> text]>>
         IN  /\ barred' = IF decision = "allow" THEN barred ELSE barred \cup {TextOf(t)}
             /\ IF text # None /\ t.obs.kind = "actor_message"
                THEN /\ AppendHistory(t.obs.key, records)
                     /\ Step(t, Turn(t.obs, t.attempt, "transcript", text, transcriptTime))
                ELSE /\ Step(t, [t EXCEPT !.pc = "learn", !.text = text])
                     /\ UNCHANGED history
    /\ UNCHANGED <<transcriptVars, submits, reported, window>>

\* _append_transcripts_best_effort: a failure is logged.
RecordTranscript(t) ==
    /\ t.pc = "transcript"
    /\ \/ AppendTranscript(InlineRows(t.obs, t.text, t.at))
       \/ UNCHANGED transcriptVars
    /\ Step(t, [t EXCEPT !.pc = "learn"])
    /\ UNCHANGED <<submits, history, reported, window, barred>>

\* _run_runtime_learning_event, whose hooks keep their failures to themselves
\* (hooks.py), _complete_observation and the response.
LearnAndRespond(t) ==
    /\ t.pc = "learn"
    /\ turns' = turns \ {t}
    /\ UNCHANGED <<transcriptVars, submits, history, reported, window, barred>>

\* The client drops its call while the turn waits.  A transcript append that a
\* thread has begun ends all the same.
Cancel(t) ==
    /\ t.pc \in {"integrate", "think", "react", "present", "transcript", "learn"}
    /\ turns' = turns \ {t}
    /\ \/ t.pc = "transcript" /\ AppendTranscript(InlineRows(t.obs, t.text, t.at))
       \/ UNCHANGED transcriptVars
    /\ UNCHANGED <<submits, history, reported, window, barred>>

\* DeliveryConversationHistoryHook: a message an app delivered joins the history,
\* then the transcript, best effort.  Other results leave no record.
AfterActionResult(d) ==
    /\ d \notin reported
    /\ reported' = reported \cup {d}
    /\ IF d.ok
       THEN /\ AppendHistory(d.key, <<[role |-> "assistant", obs |-> d.n, len |-> d.len, text |-> <<d.n, 0>>]>>)
            /\ \/ AppendTranscript(<<TranscriptRow(d, "delivered_action", "assistant", d.at, <<d.n, 0>>)>>)
               \/ UNCHANGED transcriptVars
       ELSE UNCHANGED <<history, transcriptVars>>
    /\ UNCHANGED <<turns, submits, window, barred>>

TurnNext ==
    \/ \E o \in Observations : Submit(o)
    \/ \E t \in turns :
         \/ IntegrateAndRoute(t)
         \/ Think(t)
         \/ React(t)
         \/ Present(t)
         \/ RecordTranscript(t)
         \/ LearnAndRespond(t)
         \/ Cancel(t)
    \/ \E d \in Delivered : AfterActionResult(d)
    \/ TranscriptTick /\ UNCHANGED <<turns, submits, history, reported, window, barred>>

TurnSpec == TurnInit /\ [][TurnNext]_turnVars

-----------------------------------------------------------------------------
\* What is remembered was really said: no text of the history, the transcript or
\* the window a turn thinks with comes from an attempt a gate blocked or an error
\* ended, however the attempts of one observation overlap; and one observation has
\* one question and one answer in the transcript, however often it is sent.
RememberedWasSaid ==
    /\ \A k \in ConversationKeys : \A i \in DOMAIN history[k] : history[k][i].text \notin barred
    /\ \A r \in Range(window.records) \cup Range(window.summary) : r.text \notin barred
    /\ \A row \in rows : row.text \notin barred
    /\ \A r, s \in rows : r.id = s.id => r = s
=============================================================================

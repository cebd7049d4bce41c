------------------------- MODULE LearningCandidates -------------------------
(***************************************************************************)
(* From what happened in a turn to candidates somebody must review: the    *)
(* hooks that enqueue jobs for a learning event, the workers that turn the *)
(* jobs into candidates, and the review and promotion of interaction       *)
(* policies.  Text the user asks to remember is written in the turn.       *)
(*                                                                         *)
(* The queue is modelled in BackgroundJobQueue; here a job may be run      *)
(* again until its worker returns, and a run may be cut short by a crash   *)
(* between two of its writes.                                              *)
(***************************************************************************)
EXTENDS Integers, Companion, MemoryCandidates

CONSTANTS
    LearningEvents,   \* [n, kind, feedback, account, actor, space, text, scope, signals]
    ConsolidationJobs,\* sets of source candidates, as [key, sources]
    MaxSignalHistory, \* max_signal_history
    MaxPendingJobs,   \* max_pending of each job kind
    MaxLearningEvents, MaxLearningRuns, MaxLearningTime, MaxLearningRestarts   \* bounds of the model

VARIABLES
    durableQueue,     \* the queue and the memory candidates are in SQLite
    learningTime,
    learningEvents,   \* how many events were delivered
    policyHistory,    \* InteractionPolicyCandidateEnqueueHook._history
    jobs,             \* enqueued jobs, [kind, key, payload, at]
    learningRuns,     \* how many runs of jobs were started
    finishedJobs,     \* keys of jobs whose worker returned
    keptMemories,     \* memories the turn wrote, [text, event]
    memoryReviews,    \* memory candidates under review
    relationReviews,  \* relationship update candidates
    policyReviews,    \* interaction policy candidates, with their status
    promotedPolicies, \* history: the policies the promoter returned
    approvals,        \* history: ids a reviewer approved
    learningRestarts

learningVars == <<durableQueue, learningTime, learningEvents, policyHistory, jobs, learningRuns, finishedJobs,
                  keptMemories, memoryReviews, relationReviews, policyReviews, promotedPolicies, approvals,
                  learningRestarts>>

LearningInit ==
    /\ durableQueue \in BOOLEAN
    /\ learningTime = 0 /\ learningEvents = 0 /\ learningRestarts = 0
    /\ policyHistory = <<>> /\ jobs = {} /\ learningRuns = 0 /\ finishedJobs = {}
    /\ keptMemories = {} /\ memoryReviews = {} /\ relationReviews = {} /\ policyReviews = {}
    /\ promotedPolicies = {} /\ approvals = {}

-----------------------------------------------------------------------------
\* _policy_from_text: the first policy whose marker occurs.
PolicyFromText(text) ==
    IF Matches(text, {"briefly from now on"}) THEN <<"verbosity", "concise">>
    ELSE IF Matches(text, {"thorough"}) THEN <<"verbosity", "detailed">>
    ELSE IF Matches(text, {"proactive"}) THEN <<"initiative", "high">>
    ELSE IF Matches(text, {"low initiative"}) THEN <<"initiative", "low">>
    ELSE IF Matches(text, {"casual"}) THEN <<"tone", "friendly">>
    ELSE IF Matches(text, {"formal"}) THEN <<"tone", "formal">>
    ELSE None

\* _signal_from_event: feedback speaks only about style, a message always.
PolicySignal(event) ==
    IF event.kind = "feedback" /\ event.feedback # "style_preference" THEN None
    ELSE IF PolicyFromText(event.text) = None THEN None
    ELSE [policy |-> PolicyFromText(event.text), event |-> event.n,
          confidence |-> IF event.kind = "feedback" THEN 90 ELSE 85, at |-> learningTime,
          risky |-> \E s \in event.signals : s.kind = "dependency_risk_hint"]

\* The jobs of the implicit candidate hook: the payload is the event's text.
ImplicitJobs(event) ==
    LET payload == [n |-> event.n, kind |-> event.kind, feedback |-> event.feedback, text |-> event.text,
                    owner |-> <<event.account, event.actor, event.space>>]
    IN  IF ~HasImplicitSignal(payload) THEN {}
        ELSE {[kind |-> "memory_extraction", key |-> <<"memory_extraction", payload>>, payload |-> payload, at |-> learningTime]}

\* RelationshipUpdateCandidateEnqueueHook.after_runtime_event.
RelationshipJobs(event) ==
    LET payload == [n |-> event.n, signals |-> event.signals, scope |-> event.scope, actor |-> event.actor]
    IN  IF event.signals = {} \/ event.scope = None \/ event.actor = None THEN {}
        ELSE {[kind |-> "relationship_update", key |-> <<"relationship_update", payload>>, payload |-> payload, at |-> learningTime]}

\* InteractionPolicyCandidateEnqueueHook.after_runtime_event: the history of
\* this account, space and policy with the new signal, its last entries only.
HistoryKey(event) == <<event.account, event.space, PolicyFromText(event.text)>>

HistoryWith(event) ==
    LET key == HistoryKey(event)
        old == IF key \in DOMAIN policyHistory THEN policyHistory[key] ELSE <<>>
        new == Append(old, PolicySignal(event))
    IN  IF Len(new) > MaxSignalHistory THEN Tail(new) ELSE new

PolicyJobs(event) ==
    LET payload == [n |-> event.n, history |-> HistoryWith(event), account |-> event.account]
    IN  IF event.account = None \/ PolicySignal(event) = None THEN {}
        ELSE {[kind |-> "interaction_policy", key |-> <<"interaction_policy", payload>>, payload |-> payload, at |-> learningTime]}

\* enqueue_with_policy in reject mode: a key that is known is not enqueued
\* again, and a kind with its maximum of pending jobs takes no more.
Enqueue(new) ==
    jobs \cup {j \in new : /\ \A k \in jobs : k.key # j.key
                          /\ Cardinality({k \in jobs : k.kind = j.kind /\ k.key \notin finishedJobs})
                                < MaxPendingJobs}

-----------------------------------------------------------------------------
\* A turn's memory step writes the memories the policy accepts; its learning
\* hooks run one after the other.  A client may send the same event again.
DeliverEvent(event) ==
    /\ learningEvents < MaxLearningEvents
    /\ learningEvents' = learningEvents + 1
    /\ keptMemories' = IF event.kind # "message" THEN keptMemories
                       ELSE keptMemories \cup {[text |-> c.text, event |-> event] :
                                                c \in {d \in ExtractMemories(event.text) : WriteAccepts(d)}}
    /\ jobs' = Enqueue(ImplicitJobs(event) \cup RelationshipJobs(event) \cup PolicyJobs(event))
    /\ policyHistory' = IF PolicyJobs(event) = {} THEN policyHistory
                        ELSE (HistoryKey(event) :> HistoryWith(event)) @@ policyHistory
    /\ UNCHANGED <<durableQueue, learningTime, learningRuns, finishedJobs, memoryReviews, relationReviews,
                   policyReviews, promotedPolicies, approvals, learningRestarts>>

\* A caller of the queue asks for a consolidation.
RequestConsolidation(request) ==
    LET job == [kind |-> "memory_consolidation", key |-> <<"memory_consolidation", request.key>>,
                payload |-> request.sources, at |-> learningTime]
    IN  jobs' = Enqueue({job}) /\ jobs' # jobs
    /\ UNCHANGED <<durableQueue, learningTime, learningEvents, policyHistory, learningRuns, finishedJobs, keptMemories,
                   memoryReviews, relationReviews, policyReviews, promotedPolicies, approvals, learningRestarts>>

\* A review record: its id, its idempotency key, what it was made from and what
\* the reviewer sees.
Record(id, key, sources, content) == [id |-> id, key |-> key, sources |-> sources, content |-> content]

\* add_nowait of the review stores: an id or key that is known adds nothing.
AddRecords(store, new) == store \cup {r \in new : \A s \in store : s.id # r.id /\ s.key # r.key}

\* AccountAwareImplicitMemoryCandidateWorker.run with _review_record.
ImplicitRecords(job) ==
    {Record(<<"candidate", job.key, c.text>>, <<job.key, c.text>>, {job.payload.n}, c) :
        c \in {d \in ImplicitCandidates(job.payload) : Admit(d)}}

\* Mutant: the record of a consolidation is named after the attempt.
RecordsPerRun(job) ==
    {Record(<<r.id, learningRuns>>, <<job.key, learningRuns>>, r.sources,
            Candidate(r.proposed.text, r.proposed.kind, r.confidence, "consolidation", "review_required",
                      r.proposed.sensitivity)) : r \in Consolidate(job.payload, learningTime)}

\* DeterministicMemoryConsolidationWorker.run.
ConsolidationRecords(job) ==
    {Record(r.id, <<job.key, r.id>>, r.sources,
            Candidate(r.proposed.text, r.proposed.kind, r.confidence, "consolidation", "review_required",
                      r.proposed.sensitivity)) : r \in Consolidate(job.payload, learningTime)}

\* RelationshipUpdateCandidateWorker.run: one candidate for each signal.
RelationshipRecords(job) ==
    {Record(<<job.key, c.signal>>, <<job.key, c.signal>>, {job.payload.n}, c) :
        c \in RelationshipCandidates(job.payload.signals, job.payload.scope)}

\* compute_interaction_policy_candidates on one history: the signals of one
\* policy, each event once, the latest signal of it.  Every signal the hook
\* makes is explicit feedback, so the thresholds for implicit ones do not apply.
PolicyCandidate(job) ==
    LET history == job.payload.history
        last(n) == CHOOSE i \in DOMAIN history : history[i].event = n /\
                       \A j \in DOMAIN history : history[j].event = n => j <= i
        ids == {history[i].event : i \in DOMAIN history}
        risky == \E n \in ids : history[last(n)].risky
    IN  [policy |-> history[1].policy, account |-> job.payload.account, events |-> ids,
         evidence |-> Cardinality(ids), risky |-> risky,
         decision |-> IF risky THEN "suppressed" ELSE "review_required"]

\* InteractionPolicyCandidateWorker.run.
PolicyRecords(job) ==
    {Record(<<job.key, PolicyCandidate(job).policy>>, <<job.key, PolicyCandidate(job).policy>>,
            PolicyCandidate(job).events, PolicyCandidate(job))}

\* One run of a job's worker.  It stops after some of its writes when the
\* process is killed; then the job stays and is run again.
RunLearningJob(job) ==
    LET records == CASE job.kind = "memory_extraction" -> ImplicitRecords(job)
                     [] job.kind = "memory_consolidation" -> ConsolidationRecords(job)
                     [] job.kind = "relationship_update" -> RelationshipRecords(job)
                     [] job.kind = "interaction_policy" -> PolicyRecords(job)
        add(store, kinds, done) == IF job.kind \in kinds THEN AddRecords(store, done) ELSE store
        open(store) == {[id |-> r.id, key |-> r.key, sources |-> r.sources, content |-> r.content,
                         status |-> "pending"] : r \in store}
    IN  /\ job.key \notin finishedJobs /\ learningRuns < MaxLearningRuns
        /\ learningRuns' = learningRuns + 1
        /\ \E written \in SUBSET records, returned \in BOOLEAN :
            /\ returned => written = records
            /\ finishedJobs' = IF returned THEN finishedJobs \cup {job.key} ELSE finishedJobs
            /\ memoryReviews' = add(memoryReviews, {"memory_extraction", "memory_consolidation"}, written)
            /\ relationReviews' = add(relationReviews, {"relationship_update"}, written)
            /\ policyReviews' = add(policyReviews, {"interaction_policy"}, open(written))
        /\ UNCHANGED <<durableQueue, learningTime, learningEvents, policyHistory, jobs, keptMemories,
                       promotedPolicies, approvals, learningRestarts>>

\* InteractionPolicyCandidateReviewService._apply: the store answers without
\* suspending, so nothing comes between reading the record and updating it.
ReviewPolicy(record, status) ==
    /\ record.status = "pending"
    /\ policyReviews' = (policyReviews \ {record}) \cup {[record EXCEPT !.status = status]}
    /\ approvals' = IF status = "approved" THEN approvals \cup {record.id} ELSE approvals
    /\ UNCHANGED <<durableQueue, learningTime, learningEvents, policyHistory, jobs, learningRuns, finishedJobs,
                   keptMemories, memoryReviews, relationReviews, promotedPolicies, learningRestarts>>

\* ApprovedInteractionPolicyPromoter.promote: a policy only for an approved
\* candidate that is not suppressed.
PromotePolicy(record) ==
    /\ record.status = "approved" /\ record.content.decision # "suppressed"
    /\ promotedPolicies' = promotedPolicies \cup {[id |-> record.id, content |-> record.content]}
    /\ UNCHANGED <<durableQueue, learningTime, learningEvents, policyHistory, jobs, learningRuns, finishedJobs,
                   keptMemories, memoryReviews, relationReviews, policyReviews, approvals, learningRestarts>>

LearningTick ==
    /\ learningTime < MaxLearningTime
    /\ learningTime' = learningTime + 1
    /\ UNCHANGED <<durableQueue, learningEvents, policyHistory, jobs, learningRuns, finishedJobs, keptMemories,
                   memoryReviews, relationReviews, policyReviews, promotedPolicies, approvals, learningRestarts>>

\* The signal history, the relationship and the policy candidates live in the
\* process whatever the backend; the queue and the memory candidates with it.
LearningRestart ==
    /\ learningRestarts < MaxLearningRestarts
    /\ learningRestarts' = learningRestarts + 1
    /\ policyHistory' = <<>> /\ relationReviews' = {} /\ policyReviews' = {}
    /\ jobs' = IF durableQueue THEN jobs ELSE {}
    /\ finishedJobs' = IF durableQueue THEN finishedJobs ELSE {}
    /\ memoryReviews' = IF durableQueue THEN memoryReviews ELSE {}
    /\ keptMemories' = IF durableQueue THEN keptMemories ELSE {}
    /\ UNCHANGED <<durableQueue, learningTime, learningEvents, learningRuns, promotedPolicies, approvals>>

LearningNext ==
    \/ \E event \in LearningEvents : DeliverEvent(event)
    \/ \E request \in ConsolidationJobs : RequestConsolidation(request)
    \/ \E job \in jobs : RunLearningJob(job)
    \/ \E record \in policyReviews, status \in {"approved", "rejected", "discarded"} : ReviewPolicy(record, status)
    \/ \E record \in policyReviews : PromotePolicy(record)
    \/ LearningTick \/ LearningRestart

LearningSpec == LearningInit /\ [][LearningNext]_learningVars

-----------------------------------------------------------------------------
\* What is remembered is what may be: no memory of a turn and no candidate for
\* review carries a credential or a sensitive trait, whichever rule, model or
\* consolidation proposed it and whatever sensitivity it was declared with, and
\* nothing is kept of a message that asks not to save it.
NothingPrivateKept ==
    /\ \A m \in keptMemories : /\ ~Matches(m.text, CredentialLike \cup SensitiveProfile)
                               /\ ~Matches(m.event.text, Skip)
    /\ \A r \in memoryReviews : ~Matches(r.content.text, CredentialLike \cup SensitiveProfile)

\* A promoted interaction policy was approved by a reviewer, counts every
\* supporting event once even when it was delivered twice, and rests on no
\* signal of a dependency risk: a risky candidate may be approved, but the
\* promoter still returns no policy for it.
PromotedPolicyIsSound ==
    \A p \in promotedPolicies :
        /\ p.id \in approvals
        /\ p.content.evidence = Cardinality(p.content.events)
        /\ \A e \in LearningEvents :
              e.n \in p.content.events => ~\E s \in e.signals : s.kind = "dependency_risk_hint"

\* What the relationship worker proposes stays within the contract of the
\* candidate: the change is bounded for the kind of place, and a change of
\* which the signal is not sure always waits for a reviewer.
CandidatesWithinContract ==
    \A r \in relationReviews :
        /\ ValidRelationshipCandidate(r.content)
        /\ r.content.decision = "automatic_bounded" => r.content.signal.confidence >= Percent(75)

\* Of what was said, learning keeps only what it may, whichever worker, retry,
\* reviewer or restart came between: nothing private (the extractors, the admission
\* and write policies), no policy that rests on a dependency risk or on no approval
\* (the policy worker and promoter), no change of a relationship beyond the
\* contract (the relationship worker).
LearnsOnlyWhatItMay ==
    NothingPrivateKept /\ PromotedPolicyIsSound /\ CandidatesWithinContract

\* A consolidation that is run again after a crash proposes each source once:
\* the records are named by the decision and its sources, so that a second run
\* adds only what the first did not write.  This holds as long as no source of
\* the job is stale; a source that becomes stale between two runs is reported
\* by itself beside the group the first run proposed it in.
RetryProposesOnce ==
    \A job \in {j \in jobs : j.kind = "memory_consolidation"} :
        (\A s \in job.payload : s.at >= learningTime - StaleAfter) =>
            \A r, s \in memoryReviews :
                r.key[1] = job.key /\ s.key[1] = job.key /\ r # s => r.sources \cap s.sources = {}
=============================================================================

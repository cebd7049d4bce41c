------------------------- MODULE InferenceScheduler -------------------------
(***************************************************************************)
(* The local inference resource scheduler (runtime/inference/scheduler.py) *)
(* and the calls that go through it.                                       *)
(*                                                                         *)
(* A caller asks for a lease and is answered at once, calls its provider   *)
(* when it got one, and releases the lease when the call is over.  A high- *)
(* priority caller may take the large slots over from low-priority ones,   *)
(* but only from those that acknowledged that they stopped: until then it  *)
(* sets their cancellation flags and is turned away.                       *)
(*                                                                         *)
(* Each scheduler operation holds one asyncio lock and awaits nothing, so  *)
(* it is one step.  A lease id is the caller itself: ids are fresh uuids   *)
(* and a caller holds one lease at a time.  Of busy_since only whether it  *)
(* is set is kept.                                                         *)
(***************************************************************************)
EXTENDS Naturals, FiniteSets

CONSTANTS
    Caller,            \* concurrent users of the scheduler
    Requests,          \* the requests each caller may make
    Limit,             \* concurrency limit of each slot group
    WhenBusy,          \* busy decision for each low priority
    WhenWarming,       \* decision for low priorities while warming
    WhenUnavailable    \* unavailable decision for each priority

LargeSlotKinds == {"large_llm", "background_llm"}

SlotKind == LargeSlotKinds \cup {"small_classifier", "embedding", "reranker"}

\* Large and background LLM calls share the large slots.
Group(kind) == IF kind \in LargeSlotKinds THEN "large" ELSE kind

HighPriorities == {"user_facing_response", "safety_critical"}

LowPriorities == {"background", "proactive"}

Decision == {"acquired", "defer", "cancel", "no_send", "denied"}

Request == [kind: SlotKind, priority: HighPriorities \cup LowPriorities,
            preemptible: BOOLEAN]

ASSUME InferenceAssumption ==
    /\ IsFiniteSet(Caller)
    /\ Requests \in [Caller -> SUBSET Request]
    /\ Limit \in [{Group(k) : k \in SlotKind} -> Nat \ {0}]
    /\ WhenBusy \in [LowPriorities -> Decision \ {"acquired"}]
    /\ WhenWarming \in Decision \ {"acquired"}
    /\ WhenUnavailable \in [HighPriorities \cup LowPriorities -> Decision \ {"acquired"}]

VARIABLES
    override,          \* state set from outside, or "none"
    busySince,         \* whether busy_since is set
    active,            \* callers whose lease is in _active_leases
    call,              \* what each caller is doing and for which request
    cancelRequested,   \* callers whose token has the cancellation flag set
    stopped            \* callers whose token is acknowledged

schedulerVars == <<override, busySince, active, call, cancelRequested, stopped>>

-----------------------------------------------------------------------------
ResourceState == IF override # "none" THEN override
                 ELSE IF active # {} THEN "busy" ELSE "idle"

KindOf(c) == call[c].request.kind

PriorityOf(c) == call[c].request.priority

ActiveIn(group) == {c \in active : Group(KindOf(c)) = group}

BusyDecisionFor(r) ==
    IF r.priority \in HighPriorities THEN "defer" ELSE WhenBusy[r.priority]

StateRejection(r) ==
    \/ ResourceState = "unavailable"
    \/ ResourceState = "warming" /\ r.priority \in LowPriorities
    \/ override = "busy" /\ r.kind \in LargeSlotKinds

StateDecision(r) ==
    IF ResourceState = "unavailable" THEN WhenUnavailable[r.priority]
    ELSE IF ResourceState = "warming" THEN WhenWarming
    ELSE BusyDecisionFor(r)

CapacityReached(r) ==
    Cardinality(ActiveIn(Group(r.kind))) >= Limit[Group(r.kind)]

CanPreemptFor(r) == r.priority \in HighPriorities /\ r.kind \in LargeSlotKinds

PreemptTargets ==
    {c \in active : KindOf(c) \in LargeSlotKinds /\ PriorityOf(c) \in LowPriorities}

Preemptible ==
    /\ PreemptTargets # {}
    /\ \A c \in PreemptTargets : call[c].request.preemptible

\* Mutant: a target that was asked to stop is taken to have stopped.
StopAssumed == TRUE

StopConfirmed == PreemptTargets \subseteq stopped

\* The decision acquire returns.
DecisionFor(r) ==
    IF StateRejection(r) THEN StateDecision(r)
    ELSE IF \/ ~CapacityReached(r)
            \/ CanPreemptFor(r) /\ Preemptible /\ StopConfirmed
    THEN "acquired"
    ELSE BusyDecisionFor(r)

\* The leases that go to make room, and the tokens that are asked to stop.
Preempts(r) ==
    /\ ~StateRejection(r)
    /\ CapacityReached(r)
    /\ CanPreemptFor(r)
    /\ Preemptible

Asked(r) == IF Preempts(r) THEN PreemptTargets ELSE {}

Evicted(r) == IF Preempts(r) /\ StopConfirmed THEN PreemptTargets ELSE {}

Acquired(c, r) ==
    /\ DecisionFor(r) = "acquired"
    /\ call' = [call EXCEPT ![c] = [pc |-> "calling", request |-> r]]
    /\ active' = (active \ Evicted(r)) \cup {c}
    /\ cancelRequested' = (cancelRequested \cup Asked(r)) \ {c}
    /\ stopped' = stopped \ {c}
    /\ busySince' = TRUE
    /\ UNCHANGED override

Rejected(c, r) ==
    /\ DecisionFor(r) # "acquired"
    /\ cancelRequested' = cancelRequested \cup Asked(r)
    /\ UNCHANGED <<override, busySince, active, call, stopped>>

Acquire(c, r) ==
    /\ call[c].pc = "idle"
    /\ Acquired(c, r) \/ Rejected(c, r)

\* The provider call is over, by itself or with an exception.
CallReturns(c) ==
    /\ call[c].pc = "calling"
    /\ call' = [call EXCEPT ![c].pc = "returned"]
    /\ UNCHANGED <<override, busySince, active, cancelRequested, stopped>>

\* A cancellable worker finds its flag set before, between or after provider
\* calls, acknowledges and returns.
AcknowledgeStopped(c) ==
    /\ call[c].pc = "calling"
    /\ call[c].request.preemptible
    /\ c \in cancelRequested
    /\ stopped' = stopped \cup {c}
    /\ call' = [call EXCEPT ![c].pc = "returned"]
    /\ UNCHANGED <<override, busySince, active, cancelRequested>>

\* Mutant: a cancelled caller leaves its lease to be evicted.
ReleaseUnlessCancelled(c) ==
    /\ call[c].pc = "returned"
    /\ call' = [call EXCEPT ![c].pc = "idle"]
    /\ active' = IF c \in cancelRequested THEN active ELSE active \ {c}
    /\ UNCHANGED <<override, busySince, cancelRequested, stopped>>

Release(c) ==
    /\ call[c].pc = "returned"
    /\ call' = [call EXCEPT ![c].pc = "idle"]
    /\ active' = active \ {c}
    /\ busySince' = (busySince /\ ~(c \in active /\ active = {c} /\ override = "none"))
    /\ UNCHANGED <<override, cancelRequested, stopped>>

SetState(s) ==
    /\ override' = IF s = "idle" THEN "none" ELSE s
    /\ busySince' = IF s = "busy" THEN TRUE
                    ELSE busySince /\ ~(s = "idle" /\ active = {})
    /\ UNCHANGED <<active, call, cancelRequested, stopped>>

NoRequest == [kind |-> "large_llm", priority |-> "background", preemptible |-> FALSE]

SchedulerInit ==
    /\ override = "none"
    /\ busySince = FALSE
    /\ active = {}
    /\ call = [c \in Caller |-> [pc |-> "idle", request |-> NoRequest]]
    /\ cancelRequested = {}
    /\ stopped = {}

\* The scheduler and its callers live in one process.
SchedulerRestart ==
    /\ override' = "none"
    /\ busySince' = FALSE
    /\ active' = {}
    /\ call' = [c \in Caller |-> [pc |-> "idle", request |-> NoRequest]]
    /\ cancelRequested' = {}
    /\ stopped' = {}

SchedulerNext ==
    \/ \E c \in Caller : \/ \E r \in Requests[c] : Acquire(c, r)
                         \/ CallReturns(c)
                         \/ AcknowledgeStopped(c)
                         \/ Release(c)
    \/ \E s \in {"idle", "busy", "warming", "unavailable"} : SetState(s)

SchedulerSpec == SchedulerInit /\ [][SchedulerNext]_schedulerVars

-----------------------------------------------------------------------------
(***************************************************************************)
(* Properties.                                                             *)
(***************************************************************************)

\* Types of the scheduler state.
SchedulerTypeOK ==
    /\ override \in {"none", "busy", "warming", "unavailable"}
    /\ busySince \in BOOLEAN
    /\ active \subseteq Caller
    /\ call \in [Caller -> [pc: {"idle", "calling", "returned"}, request: Request]]
    /\ cancelRequested \subseteq Caller
    /\ stopped \subseteq Caller

\* ADR 0019: a lease whose stop is not acknowledged stays, so that a user-facing
\* provider call never runs beside it.  What is bounded is not only the leases on
\* the books but the provider calls under way, preempted ones included.
ProviderCallsBounded ==
    \A g \in DOMAIN Limit :
        Cardinality({c \in Caller : call[c].pc = "calling" /\ Group(KindOf(c)) = g}) <= Limit[g]

\* The leases on the books never exceed the limit of their slot group.
SlotsBounded == \A g \in DOMAIN Limit : Cardinality(ActiveIn(g)) <= Limit[g]

\* snapshot() reports a busy_since whenever it reports BUSY, and none is left over
\* once the resource is IDLE, whatever states were set in between.
BusySinceMatchesState ==
    /\ ResourceState = "busy" => busySince
    /\ ResourceState = "idle" => ~busySince

\* Nobody but its own caller takes a high-priority lease, or one whose request is
\* not preemptible, off the books.
OnlyLowPriorityEvicted ==
    [][\A c \in active : c \notin active' /\ call'[c].pc = call[c].pc =>
          /\ PriorityOf(c) \in LowPriorities
          /\ call[c].request.preemptible
          /\ c \in stopped]_schedulerVars

\* Callers do not hang: provider calls end, and the lease is released in finally
\* or right after the worker.
SchedulerFairness ==
    \A c \in Caller : WF_schedulerVars(CallReturns(c)) /\ WF_schedulerVars(Release(c))

FairSchedulerSpec == SchedulerSpec /\ SchedulerFairness

\* No lease is held for ever: neither an evicted caller's late release nor a state
\* override leaves a slot taken.
EveryLeaseEnds == \A c \in Caller : c \in active ~> c \notin active

=============================================================================

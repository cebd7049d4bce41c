------------------------- MODULE BackgroundJobRunner -------------------------
(***************************************************************************)
(* The background job runner (runtime/learning/runner.py) over the durable *)
(* job queue and the inference scheduler it shares with user-facing calls. *)
(*                                                                         *)
(* One loop calls run_once again and again: it looks whether the resource  *)
(* is idle, leases a batch, and takes the jobs of the batch one by one.  A *)
(* job that uses an LLM needs an inference lease first.  The worker runs   *)
(* in a thread while the event loop serves others; every await is a point  *)
(* between two actions.                                                    *)
(*                                                                         *)
(* A crash loses the runner and the scheduler but not the queue.  Faults   *)
(* (crashes and failing queue writes) are bounded by MaxFaults.            *)
(***************************************************************************)
EXTENDS BackgroundJobQueue, InferenceScheduler

CONSTANTS
    Runner,            \* the caller the runner is to the scheduler
    UsesLlm,           \* jobs that need an inference lease
    Workers,           \* kinds with a registered worker
    Cancellable,       \* kinds whose worker takes a cancellation token
    ResourceStates,    \* states the readiness side may set
    MaxFaults

ASSUME RunnerAssumption ==
    /\ Runner \in Caller
    /\ UsesLlm \subseteq Job
    /\ Cancellable \subseteq Workers
    /\ ResourceStates \subseteq {"idle", "busy", "warming", "unavailable"}
    /\ MaxFaults \in Nat

VARIABLES
    stage,             \* where run_once is
    batch,             \* the jobs it still has to deal with
    idleSeen,          \* idle_available as it was read
    verdict,           \* what becomes of the current job
    completed,         \* jobs whose worker once did all of its work (history)
    faults

runnerVars == <<stage, batch, idleSeen, verdict>>

vars == <<queueVars, schedulerVars, runnerVars, completed, faults>>

-----------------------------------------------------------------------------
\* The jobs of a batch are taken in the order they were leased in.
job == CHOOSE j \in batch : \A i \in batch \ {j} : Earlier(j, i)

IsLlm(j) == j \in UsesLlm

\* An LLM worker that takes no cancellation token.
Unfit(j) == IsLlm(j) /\ JobKind[j] \notin Cancellable

InferenceRequest ==
    [kind |-> "background_llm", priority |-> "background",
     preemptible |-> JobKind[job] \in Cancellable]

\* Mutant: only the idle hook is asked, which knows of no idleness.
ReadIdleHook ==
    /\ stage = "sleeping"
    /\ stage' = "leasing"
    /\ idleSeen' = FALSE
    /\ UNCHANGED <<queueVars, schedulerVars, batch, verdict, completed, faults>>

ReadIdle ==
    /\ stage = "sleeping"
    /\ stage' = "leasing"
    /\ idleSeen' = (ResourceState = "idle")
    /\ UNCHANGED <<queueVars, schedulerVars, batch, verdict, completed, faults>>

LeaseBatch ==
    /\ stage = "leasing"
    /\ LeaseDue(idleSeen)
    /\ batch' = LeasedBatch(idleSeen)
    /\ stage' = IF batch' = {} THEN "sleeping" ELSE "starting"
    /\ idleSeen' = FALSE
    /\ UNCHANGED <<schedulerVars, verdict, completed, faults>>

Conclude(v) == stage' = "marking" /\ verdict' = v

FailWithoutWorker ==
    /\ stage = "starting"
    /\ JobKind[job] \notin Workers
    /\ Conclude("permanent")
    /\ UNCHANGED <<queueVars, schedulerVars, batch, idleSeen, completed, faults>>

StartPlain ==
    /\ stage = "starting"
    /\ JobKind[job] \in Workers
    /\ ~IsLlm(job)
    /\ stage' = "working"
    /\ UNCHANGED <<queueVars, schedulerVars, batch, idleSeen, verdict, completed, faults>>

\* Mutant: a job that was turned away runs all the same.
StartLlmAnyway ==
    /\ stage = "starting"
    /\ JobKind[job] \in Workers
    /\ IsLlm(job)
    /\ Acquire(Runner, InferenceRequest)
    /\ stage' = "working"
    /\ UNCHANGED <<queueVars, batch, idleSeen, verdict, completed, faults>>

StartLlm ==
    /\ stage = "starting"
    /\ JobKind[job] \in Workers
    /\ IsLlm(job)
    /\ Acquire(Runner, InferenceRequest)
    /\ LET decision == DecisionFor(InferenceRequest)
       IN IF decision = "acquired" THEN stage' = "working" /\ UNCHANGED verdict
          ELSE Conclude(IF decision = "defer" THEN "defer" ELSE "cancelled")
    /\ UNCHANGED <<queueVars, batch, idleSeen, completed, faults>>

\* The lease is given back at once, for a worker that could not be stopped.
SkipUnfit ==
    /\ stage = "working"
    /\ Unfit(job)
    /\ CallReturns(Runner)
    /\ stage' = "returned"
    /\ verdict' = "defer"
    /\ UNCHANGED <<queueVars, batch, idleSeen, completed, faults>>

\* The worker did its work, or raised.
WorkerReturns(v) ==
    /\ stage = "working"
    /\ ~Unfit(job)
    /\ v \in {"succeeded", "retry"}
    /\ IF IsLlm(job) THEN CallReturns(Runner) ELSE UNCHANGED schedulerVars
    /\ stage' = "returned"
    /\ verdict' = v
    /\ completed' = IF v = "succeeded" THEN completed \cup {job} ELSE completed
    /\ UNCHANGED <<queueVars, batch, idleSeen, faults>>

\* The worker saw its token and returned normally, with its work undone.
WorkerStops ==
    /\ stage = "working"
    /\ IsLlm(job) /\ ~Unfit(job)
    /\ AcknowledgeStopped(Runner)
    /\ stage' = "returned"
    /\ verdict' = "succeeded"
    /\ UNCHANGED <<queueVars, batch, idleSeen, completed, faults>>

\* Mutant: only a lease that is gone tells that the job was preempted.
LeaseGone == Runner \notin active

LostLease == Runner \in cancelRequested \/ Runner \notin active

FinishJob ==
    /\ stage = "returned"
    /\ IF IsLlm(job) THEN Release(Runner) ELSE UNCHANGED schedulerVars
    /\ Conclude(IF IsLlm(job) /\ verdict = "succeeded" /\ LostLease THEN "defer" ELSE verdict)
    /\ UNCHANGED <<queueVars, batch, idleSeen, completed, faults>>

NextJob ==
    /\ batch' = batch \ {job}
    /\ stage' = IF batch' = {} THEN "sleeping" ELSE "starting"
    /\ verdict' = "none"

Record ==
    CASE verdict \in {"succeeded", "cancelled"} -> UpdateTerminal(job, verdict)
      [] verdict = "permanent" -> UpdateTerminal(job, "failed_permanent")
      [] verdict = "retry" -> MarkRetryableFailure(job)
      [] verdict = "defer" -> DeferLeased(job)

MarkJob ==
    /\ stage = "marking"
    /\ Record
    /\ NextJob
    /\ UNCHANGED <<schedulerVars, idleSeen, completed, faults>>

Abort == stage' = "sleeping" /\ batch' = {} /\ verdict' = "none" /\ idleSeen' = FALSE

\* The queue write raises: the loop logs it and the rest of the batch stays leased.
MarkFails ==
    /\ stage = "marking"
    /\ faults < MaxFaults
    /\ faults' = faults + 1
    /\ Abort
    /\ UNCHANGED <<queueVars, schedulerVars, completed>>

Crash ==
    /\ faults < MaxFaults
    /\ faults' = faults + 1
    /\ Abort
    /\ SchedulerRestart
    /\ UNCHANGED <<queueVars, completed>>

-----------------------------------------------------------------------------
(***************************************************************************)
(* The rest of the process: hooks that enqueue, user-facing calls, the     *)
(* readiness side, the clock.                                              *)
(***************************************************************************)
EnqueueJob(j) ==
    /\ Enqueue(j) \/ EnqueueWithPolicy(j)
    /\ UNCHANGED <<schedulerVars, runnerVars, completed, faults>>

OtherCaller(c) ==
    /\ \/ \E r \in Requests[c] : Acquire(c, r)
       \/ CallReturns(c)
       \/ Release(c)
    /\ UNCHANGED <<queueVars, runnerVars, completed, faults>>

ChangeState(s) ==
    /\ SetState(s)
    /\ UNCHANGED <<queueVars, runnerVars, completed, faults>>

Tick ==
    /\ PassTime
    /\ UNCHANGED <<schedulerVars, runnerVars, completed, faults>>

RunnerInit ==
    /\ QueueInit
    /\ SchedulerInit
    /\ stage = "sleeping"
    /\ batch = {}
    /\ idleSeen = FALSE
    /\ verdict = "none"
    /\ completed = {}
    /\ faults = 0

RunnerStep ==
    \/ ReadIdle \/ LeaseBatch
    \/ FailWithoutWorker \/ StartPlain \/ StartLlm \/ SkipUnfit
    \/ WorkerStops \/ \E v \in {"succeeded", "retry"} : WorkerReturns(v)
    \/ FinishJob \/ MarkJob

RunnerNext ==
    \/ RunnerStep
    \/ MarkFails
    \/ Crash
    \/ \E j \in Job : EnqueueJob(j)
    \/ \E c \in Caller \ {Runner} : OtherCaller(c)
    \/ \E s \in ResourceStates : ChangeState(s)
    \/ Tick

RunnerSpec == RunnerInit /\ [][RunnerNext]_vars

-----------------------------------------------------------------------------
(***************************************************************************)
(* Properties.                                                             *)
(***************************************************************************)

\* Types of the queue's, the scheduler's and the runner's state.
RunnerTypeOK ==
    /\ jobs \in [Job -> [status: BackgroundJobStatus \cup {"absent"}, attempts: 0..MaxAttempts,
                         waitLeft: Nat, leaseLeft: 0..LeaseSeconds]]
    /\ order \subseteq Job \X Job
    /\ SchedulerTypeOK
    /\ stage \in {"sleeping", "leasing", "starting", "working", "returned", "marking"}
    /\ batch \subseteq Job
    /\ idleSeen \in BOOLEAN
    /\ verdict \in {"none", "succeeded", "retry", "defer", "cancelled", "permanent"}
    /\ completed \subseteq Job
    /\ faults \in 0..MaxFaults

\* lease_due takes the jobs by not_before: the relation is a strict order of just
\* the unfinished jobs, any two of them, that agrees with the time left.
QueueOrdered ==
    /\ order \subseteq Unfinished \X Unfinished
    /\ \A i, j \in Unfinished : i # j => (Earlier(i, j) <=> ~Earlier(j, i))
    /\ \A i, j \in Unfinished : Earlier(i, j) => i # j /\ jobs[i].waitLeft <= jobs[j].waitLeft
    /\ \A i, j, k \in Unfinished : Earlier(i, j) /\ Earlier(j, k) => Earlier(i, k)

\* No mark_* or defer_leased checks what it overwrites.  They are safe because what
\* the runner still holds is leased in the queue, even when its leases ran out while
\* the batch was being worked on: nobody else finished or requeued it.
BatchIsLeased == \A j \in batch : jobs[j].status = "leased"

\* concurrency_limit: the unexpired leases of a kind never exceed its limit,
\* leases left behind by a crashed process included.
LeasesWithinLimit ==
    \A k \in Kinds : Cardinality(LeasedOf(k)) <= Policy[k].limit

\* A preempted worker returns without an exception.  Still no job counts as
\* succeeded unless some run of its worker got to the end.
SucceededJobsCompleted ==
    \A j \in Job : jobs[j].status = "succeeded" => j \in completed

\* An unfinished job has an attempt left, and only a job that used all of them, or
\* has no worker, fails for good: preemption, crashes and expired leases cost none.
AttemptsSpent ==
    \A j \in Job :
        /\ jobs[j].status \in UnfinishedStatuses => jobs[j].attempts < MaxAttempts
        /\ jobs[j].status = "failed_permanent" =>
              jobs[j].attempts = MaxAttempts \/ JobKind[j] \notin Workers

\* An LLM worker runs only while its inference lease is on the books (so that the
\* large-slot limit keeps user-facing calls out) and only if it can be told to stop.
LlmWorkUnderLease ==
    stage = "working" /\ IsLlm(job) => Runner \in active /\ call[Runner].pc = "calling"

\* What the queue, the runner and the inference scheduler keep true together
\* between any two of their steps (lease_due, run_once, acquire and release).
RunnerInvariant ==
    /\ RunnerTypeOK
    /\ QueueOrdered
    /\ BatchIsLeased
    /\ LeasesWithinLimit
    /\ AttemptsSpent
    /\ LlmWorkUnderLease

\* A finished job is never touched again: not by a late mark, a re-lease, or an
\* event that enqueues it a second time.
FinishedStaysFinished ==
    [][\A j \in Job : jobs[j].status \in TerminalStatuses =>
          /\ jobs'[j].status = jobs[j].status
          /\ jobs'[j].attempts = jobs[j].attempts]_vars

\* The loop keeps running and so does the clock; workers and provider calls end.
\* Nothing is assumed of enqueues, acquires, state changes or faults.
RunnerFairness ==
    /\ WF_vars(RunnerStep)
    /\ WF_vars(Tick)
    /\ \A c \in Caller \ {Runner} :
          /\ WF_vars(CallReturns(c) /\ OtherCaller(c))
          /\ WF_vars(Release(c) /\ OtherCaller(c))

FairRunnerSpec == RunnerSpec /\ RunnerFairness

Settles(j) == jobs[j].status # "absent" ~> jobs[j].status \in TerminalStatuses

\* A job that needs neither the LLM nor idleness is settled, however often its
\* worker raises, LLM jobs are deferred around it, or the process restarts.
PlainJobsSettle == \A j \in Job \ (UsesLlm \cup IdleOnly) : Settles(j)

\* The other jobs are settled too once the resource is left to them: no other lease,
\* no state set, and no caller that is turned away but asks the worker to stop.
LlmJobsSettle ==
    <>[](active \subseteq {Runner} /\ override = "none" /\ Runner \notin cancelRequested)
        => \A j \in Job : (j \in UsesLlm => JobKind[j] \in Cancellable) => Settles(j)
=============================================================================

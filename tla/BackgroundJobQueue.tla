------------------------- MODULE BackgroundJobQueue -------------------------
(***************************************************************************)
(* The background job queue: runtime/learning/queue.py and its SQLite twin *)
(* adapters/persistence/sqlite/stores/background_jobs.py.  Every operation *)
(* is one critical section or one immediate transaction, so one step.      *)
(*                                                                         *)
(* A job's id and idempotency key are derived from the same digest, so a   *)
(* job is its own key.  Dates are kept as the time left until them; the    *)
(* order of not_before among the jobs that are due, which the countdown    *)
(* forgets, is kept as a relation between the unfinished jobs.             *)
(***************************************************************************)
EXTENDS Naturals, FiniteSets, FiniteSetsExt

CONSTANTS
    Job,
    JobKind,           \* kind of each job
    IdleOnly,          \* jobs that are idle_only, by profile or by kind policy
    Policy,            \* BackgroundJobKindPolicy of each kind
    MaxAttempts,
    LeaseSeconds,
    MaxJobsPerRun

Kinds == {JobKind[j] : j \in Job}

ASSUME JobQueueAssumption ==
    /\ IsFiniteSet(Job)
    /\ JobKind \in [Job -> Kinds]
    /\ IdleOnly \subseteq Job
    /\ Policy \in [Kinds -> [limit: Nat \ {0}, maxPending: Nat \ {0},
                             mode: {"accept", "defer", "reject"}, deferSeconds: Nat \ {0},
                             backoffBase: Nat \ {0}, backoffMax: Nat \ {0}]]
    /\ MaxAttempts \in Nat \ {0}
    /\ LeaseSeconds \in Nat \ {0}
    /\ MaxJobsPerRun \in Nat \ {0}

VARIABLES
    jobs,              \* the record of each job, "absent" before its enqueue
    order              \* pairs of unfinished jobs, the one with the earlier not_before first

queueVars == <<jobs, order>>

-----------------------------------------------------------------------------
TerminalStatuses == {"succeeded", "failed_permanent", "cancelled"}

QueueDepthStatuses == {"pending", "failed_retryable"}

UnfinishedStatuses == QueueDepthStatuses \cup {"leased"}

BackgroundJobStatus == UnfinishedStatuses \cup TerminalStatuses

Unfinished == {j \in Job : jobs[j].status \in UnfinishedStatuses}

PolicyOf(j) == Policy[JobKind[j]]

IsLeaseable(j) ==
    /\ \/ jobs[j].status \in QueueDepthStatuses
       \/ jobs[j].status = "leased" /\ jobs[j].leaseLeft = 0
    /\ jobs[j].waitLeft = 0

\* Mutant: an expired lease still counts.
HeldLease(j) == jobs[j].status = "leased"

ActiveLease(j) == jobs[j].status = "leased" /\ jobs[j].leaseLeft > 0

LeasedOf(kind) == {j \in Job : JobKind[j] = kind /\ ActiveLease(j)}

BacklogOf(kind) ==
    {j \in Job : JobKind[j] = kind /\ (IsLeaseable(j) \/ jobs[j].status = "failed_retryable")}

\* evaluate_enqueue_backpressure: no caller of enqueue_with_policy claims idleness.
Saturated(j) ==
    \/ j \in IdleOnly
    \/ Cardinality(BacklogOf(JobKind[j])) >= PolicyOf(j).maxPending
    \/ Cardinality(LeasedOf(JobKind[j])) >= PolicyOf(j).limit

OrderWithout(j) == {p \in order : j \notin {p[1], p[2]}}

\* The order once not_before of j is d from now: behind whatever is due by then.
Reordered(j, d) ==
    LET others == Unfinished \ {j}
    IN OrderWithout(j)
          \cup {i \in others : jobs[i].waitLeft <= d} \X {j}
          \cup {j} \X {i \in others : jobs[i].waitLeft > d}

\* A job's record while nobody has it leased.
Unleased(status, attempts, d) ==
    [status |-> status, attempts |-> attempts, waitLeft |-> d, leaseLeft |-> 0]

NewJob(d) == Unleased("pending", 0, d)

StoreJob(j, d) ==
    /\ jobs' = [jobs EXCEPT ![j] = NewJob(d)]
    /\ order' = Reordered(j, d)

\* Mutant: a finished job does not count as existing.
EnqueueUnlessQueued(j) ==
    IF jobs[j].status \in {"absent"} \cup TerminalStatuses THEN StoreJob(j, 0)
    ELSE UNCHANGED queueVars

Enqueue(j) ==
    IF jobs[j].status = "absent" THEN StoreJob(j, 0) ELSE UNCHANGED queueVars

EnqueueWithPolicy(j) ==
    IF jobs[j].status # "absent" THEN UNCHANGED queueVars
    ELSE IF ~Saturated(j) \/ PolicyOf(j).mode = "accept" THEN StoreJob(j, 0)
    ELSE IF PolicyOf(j).mode = "reject" THEN UNCHANGED queueVars
    ELSE StoreJob(j, PolicyOf(j).deferSeconds)

-----------------------------------------------------------------------------
(***************************************************************************)
(* lease_due goes once through the due jobs in order, skips those that     *)
(* need idleness or whose kind has all its leases, and stops when the      *)
(* batch is full.                                                          *)
(***************************************************************************)
Earlier(i, j) == <<i, j>> \in order

Due(j, idle) == IsLeaseable(j) /\ (j \in IdleOnly => idle)

\* Mutant: the leases handed out by this very call are not counted.
WithinSnapshotLimit(j, idle) ==
    Due(j, idle) /\ Cardinality(LeasedOf(JobKind[j])) < PolicyOf(j).limit

WithinKindLimit(j, idle) ==
    /\ Due(j, idle)
    /\ Cardinality(LeasedOf(JobKind[j]))
         + Cardinality({i \in Job : JobKind[i] = JobKind[j] /\ Earlier(i, j) /\ Due(i, idle)})
       < PolicyOf(j).limit

Leased(j, idle) ==
    /\ WithinKindLimit(j, idle)
    /\ Cardinality({i \in Job : Earlier(i, j) /\ WithinKindLimit(i, idle)}) < MaxJobsPerRun

LeasedBatch(idle) == {j \in Job : Leased(j, idle)}

LeaseDue(idle) ==
    /\ jobs' = [j \in Job |-> IF j \in LeasedBatch(idle)
                              THEN [jobs[j] EXCEPT !.status = "leased", !.leaseLeft = LeaseSeconds]
                              ELSE jobs[j]]
    /\ UNCHANGED order

UpdateTerminal(j, status) ==
    /\ jobs' = [jobs EXCEPT ![j] = Unleased(status, @.attempts, @.waitLeft)]
    /\ order' = OrderWithout(j)

DeferLeased(j) ==
    /\ jobs' = [jobs EXCEPT ![j] = Unleased("pending", @.attempts, PolicyOf(j).deferSeconds)]
    /\ order' = Reordered(j, PolicyOf(j).deferSeconds)

PowerOfTwo[n \in Nat] == IF n = 0 THEN 1 ELSE 2 * PowerOfTwo[n - 1]

RetryDelaySeconds(j) ==
    Min({PolicyOf(j).backoffBase * PowerOfTwo[jobs[j].attempts], PolicyOf(j).backoffMax})

RetryFailureStatus(attempts) ==
    IF attempts >= MaxAttempts THEN "failed_permanent" ELSE "failed_retryable"

MarkRetryableFailure(j) ==
    LET status == RetryFailureStatus(jobs[j].attempts + 1)
    IN /\ jobs' = [jobs EXCEPT ![j] = Unleased(status, @.attempts + 1, RetryDelaySeconds(j))]
       /\ order' = IF status = "failed_permanent" THEN OrderWithout(j)
                   ELSE Reordered(j, RetryDelaySeconds(j))

PassTime ==
    /\ jobs' = [j \in Job |-> [jobs[j] EXCEPT !.waitLeft = IF @ = 0 THEN 0 ELSE @ - 1,
                                              !.leaseLeft = IF @ = 0 THEN 0 ELSE @ - 1]]
    /\ UNCHANGED order

QueueInit ==
    /\ jobs = [j \in Job |-> Unleased("absent", 0, 0)]
    /\ order = {}

=============================================================================

------------------------ MODULE BackgroundJobProofs ------------------------
(***************************************************************************)
(* The job queue and its runner, for any number of jobs, kinds, callers    *)
(* and faults.                                                             *)
(***************************************************************************)
EXTENDS BackgroundJobRunner, InferenceSchedulerProofs, SetInduction

\* retry_delay_seconds doubles its base a whole number of times.
LEMMA PowersOfTwo == PowerOfTwo \in [Nat -> Nat]
  <1> DEFINE def(f) == [n \in Nat |-> IF n = 0 THEN 1 ELSE 2 * f[n - 1]]
  <1>1. \E f : f = def(f)
    <2> DEFINE step == [n \in Nat |-> [m \in Nat |-> 2 * m]]
    <2>1. step \in [Nat -> [Nat -> Nat]]
      OBVIOUS
    <2>2. PICK f : Steps(f, Nat, 1, step)
      <3> HIDE DEF step
      <3> QED
        BY Zenon, <2>1, NatRecursion
    <2>3. f \in [Nat -> Nat] /\ f[0] = 1 /\ \A n \in Nat : f[n + 1] = 2 * f[n]
      BY Zenon, <2>2 DEF Steps
    <2>4. \A n \in Nat : f[n] = IF n = 0 THEN 1 ELSE 2 * f[n - 1]
      <3> SUFFICES ASSUME NEW n \in Nat, n # 0 PROVE f[n] = 2 * f[n - 1]
        BY <2>3
      <3>1. n - 1 \in Nat /\ (n - 1) + 1 = n
        OBVIOUS
      <3> QED
        BY <2>3, <3>1
    <2>5. f = def(f)
      BY <2>3, <2>4
    <2> QED
      BY <2>5
  <1>2. PowerOfTwo = def(PowerOfTwo)
    <2>1. PowerOfTwo = CHOOSE f : f = def(f)
      BY DEF PowerOfTwo
    <2> HIDE DEF def
    <2> QED
      BY <1>1, <2>1
  <1> DEFINE S == {n \in Nat : PowerOfTwo[n] \in Nat}
  <1>3. 0 \in S
    BY <1>2
  <1>4. \A n \in Nat : n \in S => n + 1 \in S
    <2> SUFFICES ASSUME NEW n \in Nat, n \in S PROVE PowerOfTwo[n + 1] \in Nat
      OBVIOUS
    <2>1. PowerOfTwo[n + 1] = 2 * PowerOfTwo[n]
      BY <1>2
    <2> QED
      BY <2>1
  <1>5. \A n \in Nat : n \in S
    <2> HIDE DEF S
    <2> QED
      BY <1>3, <1>4, NatInducts
  <1> QED
    BY SMTT(30), <1>2, <1>5

\* ... so the delay is a number of seconds.
LEMMA RetryDelayNat ==
    ASSUME NEW j \in Job, jobs[j].attempts \in Nat
    PROVE  RetryDelaySeconds(j) \in Nat
  <1> DEFINE a == PolicyOf(j).backoffBase * PowerOfTwo[jobs[j].attempts]
             b == PolicyOf(j).backoffMax
  <1>1. PolicyOf(j).backoffBase \in Nat /\ b \in Nat
    BY JobQueueAssumption DEF PolicyOf, Kinds
  <1>2. a \in Nat
    BY <1>1, PowersOfTwo
  <1> HIDE DEF a, b
  <1>3. Min({a, b}) \in Nat
    BY <1>1, <1>2 DEF Min
  <1> QED
    BY <1>3 DEF RetryDelaySeconds, a, b

-----------------------------------------------------------------------------
(***************************************************************************)
(* What the queue keeps true by itself.  The limit on the leases of a kind *)
(* depends on the order: lease_due counts the earlier due jobs of the kind *)
(* against the limit, and the last one it leases has all the others before *)
(* it.                                                                     *)
(***************************************************************************)
JobRecord == [status: BackgroundJobStatus \cup {"absent"}, attempts: 0..MaxAttempts,
              waitLeft: Nat, leaseLeft: 0..LeaseSeconds]

QueueInv ==
    /\ jobs \in [Job -> JobRecord]
    /\ QueueOrdered
    /\ LeasesWithinLimit
    /\ AttemptsSpent

\* _job_order: a job that is put (back) into the queue goes where its date belongs.
LEMMA RequeuedOrdered ==
    ASSUME QueueInv, NEW j \in Job, NEW d \in Nat,
           jobs' \in [Job -> JobRecord],
           jobs'[j].status \in UnfinishedStatuses, jobs'[j].waitLeft = d,
           \A i \in Job \ {j} : jobs'[i] = jobs[i],
           order' = Reordered(j, d)
    PROVE  QueueOrdered'
  <1> DEFINE others == Unfinished \ {j}
  <1>1. Unfinished' = others \cup {j}
    BY DEF Unfinished
  <1>2. \A a \in others : a \in Job /\ jobs'[a] = jobs[a] /\ jobs[a].waitLeft \in Nat
    BY DEF Unfinished, QueueInv, JobRecord
  <1>3. order \subseteq Unfinished \X Unfinished
    BY DEF QueueInv, QueueOrdered
  <1>4. \A a, b \in others : Earlier(a, b)' <=> Earlier(a, b)
    BY DEF Earlier, Reordered, OrderWithout
  <1>5. \A a \in others : Earlier(a, j)' <=> jobs[a].waitLeft <= d
    BY DEF Reordered, OrderWithout, Earlier
  <1>6. \A a \in others : Earlier(j, a)' <=> jobs[a].waitLeft > d
    BY DEF Reordered, OrderWithout, Earlier
  <1>7. ~Earlier(j, j)'
    BY DEF Reordered, OrderWithout, Earlier
  <1>8. order' \subseteq Unfinished' \X Unfinished'
    BY <1>1, <1>3 DEF Reordered, OrderWithout
  <1>9. /\ \A a, b \in others : a # b => (Earlier(a, b) <=> ~Earlier(b, a))
        /\ \A a, b \in others : Earlier(a, b) => a # b /\ jobs[a].waitLeft <= jobs[b].waitLeft
        /\ \A a, b, c \in others : Earlier(a, b) /\ Earlier(b, c) => Earlier(a, c)
    BY DEF QueueInv, QueueOrdered
  <1> HIDE DEF others
  <1>10. \A a \in others : a # j
    BY DEF others
  <1>11. \A a, b \in Unfinished' : a # b => (Earlier(a, b)' <=> ~Earlier(b, a)')
    BY <1>1, <1>2, <1>4, <1>5, <1>6, <1>9
  <1>12. \A a, b \in Unfinished' :
            Earlier(a, b)' => a # b /\ jobs'[a].waitLeft <= jobs'[b].waitLeft
    <2> SUFFICES ASSUME NEW a \in Unfinished', NEW b \in Unfinished', Earlier(a, b)'
                 PROVE  a # b /\ jobs'[a].waitLeft <= jobs'[b].waitLeft
      OBVIOUS
    <2>1. CASE a \in others /\ b \in others
      BY <1>2, <1>4, <1>9, <2>1
    <2>2. CASE a \in others /\ b = j
      BY <1>2, <1>5, <1>10, <2>2
    <2>3. CASE a = j /\ b \in others
      BY <1>2, <1>6, <1>10, <2>3
    <2> QED
      BY <1>1, <1>7, <2>1, <2>2, <2>3
  <1>13. \A a, b, c \in Unfinished' : Earlier(a, b)' /\ Earlier(b, c)' => Earlier(a, c)'
    <2> SUFFICES ASSUME NEW a \in Unfinished', NEW b \in Unfinished', NEW c \in Unfinished',
                        Earlier(a, b)', Earlier(b, c)'
                 PROVE  Earlier(a, c)'
      OBVIOUS
    <2>1. CASE a \in others /\ b \in others /\ c \in others
      BY <1>4, <1>9, <2>1
    <2>2. CASE a = j /\ b \in others /\ c \in others
      BY <1>2, <1>4, <1>6, <1>9, <2>2
    <2>3. CASE a \in others /\ b = j /\ c \in others
      <3>1. jobs[a].waitLeft < jobs[c].waitLeft
        BY <1>2, <1>5, <1>6, <2>3
      <3>2. ~Earlier(c, a) /\ a # c
        BY <1>2, <1>9, <2>3, <3>1
      <3> QED
        BY <1>4, <1>9, <2>3, <3>2
    <2>4. CASE a \in others /\ b \in others /\ c = j
      BY <1>2, <1>4, <1>5, <1>9, <2>4
    <2>5. CASE a = j /\ b \in others /\ c = j
      BY <1>2, <1>5, <1>6, <2>5
    <2> QED
      BY <1>1, <1>7, <2>1, <2>2, <2>3, <2>4, <2>5
  <1> QED
    BY <1>8, <1>11, <1>12, <1>13 DEF QueueOrdered

\* A job that is finished leaves the order of the others alone.
LEMMA RemovedOrdered ==
    ASSUME QueueInv, NEW j \in Job,
           jobs'[j].status \notin UnfinishedStatuses,
           \A i \in Job \ {j} : jobs'[i] = jobs[i],
           order' = OrderWithout(j)
    PROVE  QueueOrdered'
  <1>1. Unfinished' = Unfinished \ {j}
    BY DEF Unfinished
  <1>2. \A a \in Unfinished' : jobs'[a] = jobs[a]
    BY <1>1 DEF Unfinished
  <1>3. \A a, b \in Unfinished' : Earlier(a, b)' <=> Earlier(a, b)
    BY <1>1 DEF Earlier, OrderWithout
  <1>4. order' \subseteq Unfinished' \X Unfinished'
    BY <1>1 DEF OrderWithout, QueueInv, QueueOrdered
  <1> QED
    BY <1>1, <1>2, <1>3, <1>4 DEF QueueInv, QueueOrdered

\* Dates that move together do not change the order.
LEMMA SameOrdered ==
    ASSUME QueueInv, Unfinished' = Unfinished, order' = order,
           \A i, j \in Unfinished : jobs[i].waitLeft <= jobs[j].waitLeft =>
                                    jobs'[i].waitLeft <= jobs'[j].waitLeft
    PROVE  QueueOrdered'
  BY DEF QueueInv, QueueOrdered, Earlier

\* concurrency_limit is kept by whatever adds no unexpired lease.
LEMMA FewerJobLeases ==
    ASSUME QueueInv, \A k \in Kinds : LeasedOf(k)' \subseteq LeasedOf(k)
    PROVE  LeasesWithinLimit'
  <1> SUFFICES ASSUME NEW k \in Kinds
               PROVE  Cardinality(LeasedOf(k)') <= Policy[k].limit
    BY DEF LeasesWithinLimit
  <1>1. IsFiniteSet(LeasedOf(k))
    BY FS_Subset, JobQueueAssumption DEF LeasedOf
  <1>2. /\ Cardinality(LeasedOf(k)) \in Nat /\ Cardinality(LeasedOf(k)') \in Nat
        /\ Cardinality(LeasedOf(k)') <= Cardinality(LeasedOf(k))
    BY <1>1, FS_Subset, FS_CardinalityType
  <1>3. Cardinality(LeasedOf(k)) <= Policy[k].limit
    BY DEF QueueInv, LeasesWithinLimit
  <1>4. Policy[k].limit \in Nat
    BY JobQueueAssumption
  <1> QED
    BY <1>2, <1>3, <1>4

LEMMA UnleasedRecord ==
    ASSUME NEW status \in BackgroundJobStatus \cup {"absent"}, NEW a \in 0..MaxAttempts,
           NEW d \in Nat
    PROVE  Unleased(status, a, d) \in JobRecord
  <1>1. 0 \in 0..LeaseSeconds
    BY JobQueueAssumption
  <1> QED
    BY <1>1 DEF Unleased, JobRecord

\* enqueue and enqueue_with_policy store a job the queue does not know.
LEMMA StoreJobInv ==
    ASSUME QueueInv, NEW j \in Job, NEW d \in Nat, jobs[j].status = "absent", StoreJob(j, d)
    PROVE  QueueInv'
  <1>1. jobs' = [jobs EXCEPT ![j] = NewJob(d)] /\ order' = Reordered(j, d)
    BY DEF StoreJob
  <1>2. NewJob(d) \in JobRecord
    BY JobQueueAssumption, UnleasedRecord
       DEF NewJob, BackgroundJobStatus, UnfinishedStatuses, QueueDepthStatuses
  <1>3. /\ jobs' \in [Job -> JobRecord]
        /\ jobs'[j] = NewJob(d)
        /\ \A i \in Job \ {j} : jobs'[i] = jobs[i]
    BY <1>1, <1>2 DEF QueueInv
  <1>4. /\ jobs'[j].status = "pending" /\ jobs'[j].waitLeft = d /\ jobs'[j].leaseLeft = 0
        /\ jobs'[j].attempts = 0
    BY <1>3 DEF NewJob, Unleased
  <1>5. QueueOrdered'
    BY <1>1, <1>3, <1>4, RequeuedOrdered DEF UnfinishedStatuses, QueueDepthStatuses
  <1>6. LeasesWithinLimit'
    BY <1>3, <1>4, FewerJobLeases DEF LeasedOf, ActiveLease
  <1>7. AttemptsSpent'
    BY <1>3, <1>4, JobQueueAssumption DEF AttemptsSpent, QueueInv
  <1> QED
    BY <1>3, <1>5, <1>6, <1>7 DEF QueueInv

\* A mark that gives up the lease of a job keeps the limits.
LEMMA UnleasedLimit ==
    ASSUME QueueInv, NEW j \in Job, jobs'[j].leaseLeft = 0,
           \A i \in Job \ {j} : jobs'[i] = jobs[i]
    PROVE  LeasesWithinLimit'
  BY FewerJobLeases DEF LeasedOf, ActiveLease

\* What a mark of the runner does to the jobs.
LEMMA MarkedJobs ==
    ASSUME QueueInv, NEW j \in Job,
           NEW status \in BackgroundJobStatus, NEW a \in 0..MaxAttempts, NEW d \in Nat,
           jobs' = [jobs EXCEPT ![j] = Unleased(status, a, d)]
    PROVE  /\ jobs' \in [Job -> JobRecord]
           /\ \A i \in Job \ {j} : jobs'[i] = jobs[i]
           /\ jobs'[j].status = status /\ jobs'[j].attempts = a /\ jobs'[j].waitLeft = d
           /\ LeasesWithinLimit'
  <1>1. Unleased(status, a, d) \in JobRecord
    BY UnleasedRecord
  <1>2. /\ jobs' \in [Job -> JobRecord]
        /\ jobs'[j] = Unleased(status, a, d)
        /\ \A i \in Job \ {j} : jobs'[i] = jobs[i]
    BY <1>1 DEF QueueInv
  <1>3. /\ jobs'[j].status = status /\ jobs'[j].attempts = a /\ jobs'[j].waitLeft = d
        /\ jobs'[j].leaseLeft = 0
    BY <1>2 DEF Unleased
  <1> QED
    BY <1>2, <1>3, UnleasedLimit

\* mark_succeeded, mark_cancelled and mark_permanent_failure.
LEMMA UpdateTerminalInv ==
    ASSUME QueueInv, NEW j \in Job, NEW status \in TerminalStatuses, UpdateTerminal(j, status),
           status = "failed_permanent" => JobKind[j] \notin Workers
    PROVE  QueueInv'
  <1>1. /\ jobs' = [jobs EXCEPT ![j] = Unleased(status, jobs[j].attempts, jobs[j].waitLeft)]
        /\ order' = OrderWithout(j)
    BY DEF UpdateTerminal
  <1>2. jobs[j].attempts \in 0..MaxAttempts /\ jobs[j].waitLeft \in Nat
    BY DEF QueueInv, JobRecord
  <1>3. /\ jobs' \in [Job -> JobRecord]
        /\ \A i \in Job \ {j} : jobs'[i] = jobs[i]
        /\ jobs'[j].status = status
        /\ LeasesWithinLimit'
    <2>1. PICK a \in 0..MaxAttempts, d \in Nat : a = jobs[j].attempts /\ d = jobs[j].waitLeft
      BY <1>2
    <2>2. jobs' = [jobs EXCEPT ![j] = Unleased(status, a, d)]
      BY <1>1, <2>1
    <2>3. status \in BackgroundJobStatus
      BY DEF BackgroundJobStatus
    <2> QED
      BY Zenon, <2>2, <2>3, MarkedJobs
  <1>4. QueueOrdered'
    BY <1>1, <1>3, RemovedOrdered DEF TerminalStatuses, UnfinishedStatuses, QueueDepthStatuses
  <1>5. AttemptsSpent'
    BY <1>3 DEF AttemptsSpent, QueueInv, TerminalStatuses, UnfinishedStatuses,
       QueueDepthStatuses
  <1> QED
    BY <1>3, <1>4, <1>5 DEF QueueInv

LEMMA DeferLeasedInv ==
    ASSUME QueueInv, NEW j \in Job, jobs[j].status = "leased", DeferLeased(j)
    PROVE  QueueInv'
  <1> DEFINE d == PolicyOf(j).deferSeconds
  <1>1. d \in Nat
    BY JobQueueAssumption DEF PolicyOf, Kinds
  <1>2. /\ jobs' = [jobs EXCEPT ![j] = Unleased("pending", jobs[j].attempts, d)]
        /\ order' = Reordered(j, d)
    BY DEF DeferLeased
  <1> HIDE DEF d
  <1>3. jobs[j].attempts \in 0..MaxAttempts /\ "pending" \in BackgroundJobStatus
    BY DEF QueueInv, JobRecord, BackgroundJobStatus, UnfinishedStatuses, QueueDepthStatuses
  <1>4. /\ jobs' \in [Job -> JobRecord]
        /\ \A i \in Job \ {j} : jobs'[i] = jobs[i]
        /\ jobs'[j].status = "pending" /\ jobs'[j].waitLeft = d
        /\ jobs'[j].attempts = jobs[j].attempts
        /\ LeasesWithinLimit'
    <2>1. PICK a \in 0..MaxAttempts, s \in BackgroundJobStatus :
                 a = jobs[j].attempts /\ s = "pending"
      BY <1>3
    <2>2. jobs' = [jobs EXCEPT ![j] = Unleased(s, a, d)]
      BY <1>2, <2>1
    <2>3. /\ jobs' \in [Job -> JobRecord]
          /\ \A i \in Job \ {j} : jobs'[i] = jobs[i]
          /\ jobs'[j].status = s /\ jobs'[j].waitLeft = d
          /\ jobs'[j].attempts = a
          /\ LeasesWithinLimit'
      BY Zenon, <1>1, <2>2, MarkedJobs
    <2> QED
      BY <2>1, <2>3
  <1>5. QueueOrdered'
    BY <1>1, <1>2, <1>4, RequeuedOrdered DEF UnfinishedStatuses, QueueDepthStatuses
  <1>6. AttemptsSpent'
    BY <1>4 DEF AttemptsSpent, QueueInv, UnfinishedStatuses
  <1> QED
    BY <1>4, <1>5, <1>6 DEF QueueInv

LEMMA MarkRetryableFailureInv ==
    ASSUME QueueInv, NEW j \in Job, jobs[j].status = "leased", MarkRetryableFailure(j)
    PROVE  QueueInv'
  <1> DEFINE d == RetryDelaySeconds(j)
             s == RetryFailureStatus(jobs[j].attempts + 1)
  <1>1. /\ jobs[j].attempts \in Nat /\ jobs[j].attempts < MaxAttempts
        /\ MaxAttempts \in Nat
    BY JobQueueAssumption DEF QueueInv, JobRecord, AttemptsSpent, UnfinishedStatuses
  <1>2. d \in Nat
    BY <1>1, RetryDelayNat
  <1>3. /\ s \in {"failed_permanent", "failed_retryable"}
        /\ s = "failed_permanent" <=> jobs[j].attempts + 1 = MaxAttempts
    BY <1>1 DEF RetryFailureStatus
  <1>4. /\ jobs' = [jobs EXCEPT ![j] = Unleased(s, jobs[j].attempts + 1, d)]
        /\ order' = IF s = "failed_permanent" THEN OrderWithout(j) ELSE Reordered(j, d)
    BY DEF MarkRetryableFailure
  <1> HIDE DEF d, s
  <1>5. jobs[j].attempts + 1 \in 0..MaxAttempts
    BY <1>1
  <1>6. /\ jobs' \in [Job -> JobRecord]
        /\ \A i \in Job \ {j} : jobs'[i] = jobs[i]
        /\ jobs'[j].status = s /\ jobs'[j].waitLeft = d
        /\ jobs'[j].attempts = jobs[j].attempts + 1
        /\ LeasesWithinLimit'
    <2>1. PICK a \in 0..MaxAttempts : a = jobs[j].attempts + 1
      BY <1>5
    <2>2. jobs' = [jobs EXCEPT ![j] = Unleased(s, a, d)]
      BY <1>4, <2>1
    <2>3. s \in BackgroundJobStatus
      BY <1>3 DEF BackgroundJobStatus, UnfinishedStatuses, QueueDepthStatuses, TerminalStatuses
    <2> QED
      BY Zenon, <1>2, <2>1, <2>2, <2>3, MarkedJobs
  <1>7. QueueOrdered'
    <2>1. CASE s = "failed_permanent"
      BY <1>4, <1>6, <2>1, RemovedOrdered DEF UnfinishedStatuses, QueueDepthStatuses
    <2>2. CASE s = "failed_retryable"
      BY <1>2, <1>4, <1>6, <2>2, RequeuedOrdered DEF UnfinishedStatuses, QueueDepthStatuses
    <2> QED
      BY <1>3, <2>1, <2>2
  <1>8. AttemptsSpent'
    <2> SUFFICES ASSUME NEW i \in Job
                 PROVE  /\ jobs'[i].status \in UnfinishedStatuses => jobs'[i].attempts < MaxAttempts
                        /\ jobs'[i].status = "failed_permanent" =>
                              jobs'[i].attempts = MaxAttempts \/ JobKind[i] \notin Workers
      BY DEF AttemptsSpent
    <2>1. CASE i = j
      BY <1>1, <1>3, <1>6, <2>1 DEF UnfinishedStatuses, QueueDepthStatuses
    <2>2. CASE i # j
      BY <1>6, <2>2 DEF QueueInv, AttemptsSpent
    <2> QED
      BY <2>1, <2>2
  <1> QED
    BY <1>6, <1>7, <1>8 DEF QueueInv

LEMMA LeaseDueInv ==
    ASSUME QueueInv, NEW idle, LeaseDue(idle)
    PROVE  /\ QueueInv'
           /\ \A j \in Job : j \in LeasedBatch(idle) => jobs'[j].status = "leased"
           /\ \A j \in Job : j \notin LeasedBatch(idle) => jobs'[j] = jobs[j]
           /\ \A j \in LeasedBatch(idle) : jobs[j].status \in UnfinishedStatuses
  <1>1. /\ jobs' = [j \in Job |->
                       IF j \in LeasedBatch(idle)
                       THEN [jobs[j] EXCEPT !.status = "leased", !.leaseLeft = LeaseSeconds]
                       ELSE jobs[j]]
        /\ order' = order
    BY Zenon DEF LeaseDue
  <1>2. \A j \in Job : Due(j, idle) => j \in Unfinished
    BY DEF Due, IsLeaseable, Unfinished, UnfinishedStatuses
  <1>3. \A j \in LeasedBatch(idle) : j \in Job /\ Due(j, idle) /\ WithinKindLimit(j, idle)
    BY SMTT(30) DEF LeasedBatch, Leased, WithinKindLimit
  <1>4. \A j \in Job : j \notin LeasedBatch(idle) => jobs'[j] = jobs[j]
    BY Zenon, <1>1
  <1>5. ASSUME NEW j \in LeasedBatch(idle)
        PROVE  /\ jobs'[j] \in JobRecord
               /\ jobs'[j].status = "leased" /\ jobs'[j].waitLeft = jobs[j].waitLeft
               /\ jobs'[j].attempts = jobs[j].attempts
    <2>1. j \in Job /\ jobs[j] \in JobRecord
      BY <1>3 DEF QueueInv
    <2>2. jobs'[j] = [jobs[j] EXCEPT !.status = "leased", !.leaseLeft = LeaseSeconds]
      BY Zenon, <1>1, <2>1
    <2>3. LeaseSeconds \in 0..LeaseSeconds /\ "leased" \in BackgroundJobStatus
      BY SMTT(30), JobQueueAssumption DEF BackgroundJobStatus, UnfinishedStatuses
    <2> QED
      BY Zenon, <2>1, <2>2, <2>3 DEF JobRecord
  <1>6. jobs' \in [Job -> JobRecord]
    BY Zenon, <1>1, <1>4, <1>5 DEF QueueInv
  <1>7. \A j \in Job : jobs'[j].waitLeft = jobs[j].waitLeft /\ jobs'[j].attempts = jobs[j].attempts
    BY SMTT(30), <1>4, <1>5
  <1>8. Unfinished' = Unfinished
    BY SMTT(30), <1>2, <1>3, <1>4, <1>5 DEF Unfinished, UnfinishedStatuses
  <1>9. QueueOrdered'
    BY Zenon, <1>1, <1>7, <1>8, SameOrdered DEF Unfinished
  <1>10. AttemptsSpent'
    <2>1. \A j \in LeasedBatch(idle) : jobs[j].attempts < MaxAttempts
      BY SMTT(30), <1>2, <1>3 DEF QueueInv, AttemptsSpent, Unfinished
    <2> QED
      BY SMTT(30), <1>4, <1>5, <1>7, <2>1 DEF QueueInv, AttemptsSpent
  <1>11. LeasesWithinLimit'
    <2> SUFFICES ASSUME NEW k \in Kinds
                 PROVE  Cardinality(LeasedOf(k)') <= Policy[k].limit
      BY DEF LeasesWithinLimit
    <2> DEFINE N == {j \in LeasedBatch(idle) : JobKind[j] = k}
               L == LeasedOf(k)
    <2>1. LeasedOf(k)' \subseteq L \cup N
      BY SMTT(30), <1>4 DEF LeasedOf, ActiveLease
    <2>2. IsFiniteSet(L) /\ IsFiniteSet(N) /\ Cardinality(L) \in Nat /\ Cardinality(N) \in Nat
      BY SMTT(30), <1>3, FS_Subset, FS_CardinalityType, JobQueueAssumption DEF LeasedOf
    <2>3. Cardinality(L) <= Policy[k].limit /\ Policy[k].limit \in Nat
      BY JobQueueAssumption DEF QueueInv, LeasesWithinLimit
    <2>4. /\ IsFiniteSet(L \cup N)
          /\ Cardinality(L \cup N) = Cardinality(L) + Cardinality(N) - Cardinality(L \cap N)
      BY <2>2, FS_Union, Zenon
    <2>5. Cardinality(L \cap N) \in Nat /\ Cardinality(L \cup N) \in Nat
      BY Zenon, <2>2, <2>4, FS_Intersection, FS_CardinalityType
    <2>6. /\ Cardinality(LeasedOf(k)') <= Cardinality(L \cup N)
          /\ Cardinality(LeasedOf(k)') \in Nat
      BY <2>1, <2>4, FS_Subset, FS_CardinalityType
    <2>7. Cardinality(L) + Cardinality(N) <= Policy[k].limit
      <3>1. CASE N = {}
        BY SMTT(30), <2>2, <2>3, <3>1, FS_EmptySet
      <3>2. CASE N # {}
        <4>1. N \subseteq Unfinished
          BY <1>2, <1>3
        <4>2. /\ \A x, y \in N : x # y => <<x, y>> \in order \/ <<y, x>> \in order
              /\ \A x, y, z \in N : <<x, y>> \in order /\ <<y, z>> \in order => <<x, z>> \in order
          BY <4>1 DEF QueueInv, QueueOrdered, Earlier
        <4>3. PICK g \in N : \A y \in N \ {g} : <<y, g>> \in order
          <5> HIDE DEF N
          <5> QED
            BY SMTT(30), <2>2, <3>2, <4>2, LastExists
        <4> DEFINE E == {i \in Job : JobKind[i] = JobKind[g] /\ Earlier(i, g) /\ Due(i, idle)}
        <4>4. N \ {g} \subseteq E
          BY SMTT(30), <1>3, <4>3 DEF Earlier
        <4>5. IsFiniteSet(E) /\ Cardinality(E) \in Nat
          BY SMTT(30), FS_Subset, FS_CardinalityType, JobQueueAssumption
        <4>6. Cardinality(L) + Cardinality(E) < Policy[k].limit
          BY <1>3, <4>3 DEF WithinKindLimit, PolicyOf
        <4>7. Cardinality(N \ {g}) <= Cardinality(E)
          BY <4>4, <4>5, FS_Subset
        <4>8. Cardinality(N \ {g}) = Cardinality(N) - 1
          BY <2>2, FS_RemoveElement, Zenon
        <4> HIDE DEF N, L, E
        <4> QED
          BY SMTT(30), <2>2, <2>3, <4>5, <4>6, <4>7, <4>8
      <3> QED
        BY <3>1, <3>2
    <2> HIDE DEF N, L
    <2> QED
      BY SMTT(30), <2>2, <2>3, <2>4, <2>5, <2>6, <2>7
  <1> QED
    BY SMTT(30), <1>2, <1>3, <1>4, <1>5, <1>6, <1>9, <1>10, <1>11 DEF QueueInv, Unfinished

LEMMA PassTimeInv ==
    ASSUME QueueInv, PassTime
    PROVE  /\ QueueInv'
           /\ \A j \in Job : jobs'[j].status = jobs[j].status /\ jobs'[j].attempts = jobs[j].attempts
  <1> DEFINE less(n) == IF n = 0 THEN 0 ELSE n - 1
  <1>1. ASSUME NEW j \in Job
        PROVE  /\ jobs'[j] \in JobRecord
               /\ jobs'[j].status = jobs[j].status /\ jobs'[j].attempts = jobs[j].attempts
               /\ jobs'[j].waitLeft = less(jobs[j].waitLeft)
               /\ jobs'[j].leaseLeft = less(jobs[j].leaseLeft)
               /\ jobs[j].waitLeft \in Nat /\ jobs[j].leaseLeft \in Nat
    <2>1. jobs[j] \in JobRecord /\ LeaseSeconds \in Nat
      BY JobQueueAssumption DEF QueueInv
    <2>2. jobs'[j] = [jobs[j] EXCEPT !.waitLeft = less(jobs[j].waitLeft),
                                     !.leaseLeft = less(jobs[j].leaseLeft)]
      <3>1. jobs'[j] = [jobs[j] EXCEPT !.waitLeft = IF @ = 0 THEN 0 ELSE @ - 1,
                                       !.leaseLeft = IF @ = 0 THEN 0 ELSE @ - 1]
        BY Zenon DEF PassTime
      <3> QED
        BY <2>1, <3>1 DEF JobRecord
    <2>3. /\ less(jobs[j].waitLeft) \in Nat /\ less(jobs[j].leaseLeft) \in 0..LeaseSeconds
          /\ jobs[j].waitLeft \in Nat /\ jobs[j].leaseLeft \in Nat
      BY SMTT(30), <2>1 DEF JobRecord
    <2> HIDE DEF less
    <2> QED
      BY Zenon, <2>1, <2>2, <2>3 DEF JobRecord
  <1>2. jobs' \in [Job -> JobRecord] /\ order' = order
    BY Zenon, <1>1 DEF PassTime
  <1>3. QueueOrdered'
    BY <1>1, <1>2, SameOrdered DEF Unfinished
  <1>4. LeasesWithinLimit'
    <2>1. \A k \in Kinds : LeasedOf(k)' \subseteq LeasedOf(k)
      BY SMTT(30), <1>1 DEF LeasedOf, ActiveLease
    <2> QED
      BY SMTT(30), <2>1, FewerJobLeases
  <1>5. AttemptsSpent'
    BY <1>1 DEF QueueInv, AttemptsSpent
  <1> QED
    BY SMTT(30), <1>1, <1>2, <1>3, <1>4, <1>5 DEF QueueInv

-----------------------------------------------------------------------------
(***************************************************************************)
(* RunnerInvariant and SucceededJobsCompleted are not inductive: what a    *)
(* mark does depends on how the verdict came about.  A verdict stands only *)
(* with a current job.  Success, once the lease was looked at, means that  *)
(* the worker got to its end, and before that, that it did or was asked to *)
(* stop.  "permanent" is given only for want of a worker.  The inference   *)
(* lease of a working LLM job is what SchedulerInv says of a caller that   *)
(* is calling.                                                             *)
(***************************************************************************)
RunnerStateOK ==
    /\ stage \in {"sleeping", "leasing", "starting", "working", "returned", "marking"}
    /\ batch \subseteq Job
    /\ idleSeen \in BOOLEAN
    /\ verdict \in {"none", "succeeded", "retry", "defer", "cancelled", "permanent"}
    /\ completed \subseteq Job
    /\ faults \in 0..MaxFaults

StageInv ==
    /\ stage \in {"sleeping", "leasing"} <=> batch = {}
    /\ stage = "working" /\ IsLlm(job) => call[Runner].pc = "calling"
    /\ stage = "returned" => verdict \in {"succeeded", "retry", "defer"}
    /\ stage = "returned" /\ verdict = "succeeded" =>
          job \in completed \/ (IsLlm(job) /\ Runner \in cancelRequested)
    /\ stage = "marking" => verdict # "none"
    /\ stage = "marking" /\ verdict = "succeeded" => job \in completed
    /\ stage = "marking" /\ verdict = "permanent" => JobKind[job] \notin Workers

RunnerInv ==
    /\ QueueInv
    /\ SchedulerInv
    /\ RunnerStateOK
    /\ BatchIsLeased
    /\ StageInv
    /\ SucceededJobsCompleted

\* The job run_once is at is the first of what is left of its batch.
LEMMA JobFirst ==
    ASSUME RunnerInv, batch # {}
    PROVE  job \in batch /\ \A i \in batch \ {job} : Earlier(job, i)
  <1>1. batch \subseteq Unfinished /\ IsFiniteSet(batch)
    BY FS_Subset, JobQueueAssumption
       DEF RunnerInv, BatchIsLeased, Unfinished, UnfinishedStatuses, RunnerStateOK
  <1>2. /\ \A x, y \in batch : x # y => <<x, y>> \in order \/ <<y, x>> \in order
        /\ \A x, y, z \in batch : <<x, y>> \in order /\ <<y, z>> \in order => <<x, z>> \in order
    BY <1>1 DEF RunnerInv, QueueInv, QueueOrdered, Earlier
  <1>3. \E x \in batch : \A y \in batch \ {x} : <<x, y>> \in order
    BY <1>1, <1>2, FirstExists
  <1> QED
    BY <1>3 DEF job, Earlier

\* It stays the same while the order within the batch does.
LEMMA JobSame ==
    ASSUME RunnerInv, batch # {}, batch' = batch,
           \A i, k \in batch : <<i, k>> \in order' <=> <<i, k>> \in order
    PROVE  job' = job
  <1>1. \A i, k \in batch : i # k => (<<i, k>> \in order <=> <<k, i>> \notin order)
    BY Zenon DEF RunnerInv, QueueInv, QueueOrdered, BatchIsLeased, Unfinished, UnfinishedStatuses,
           RunnerStateOK, Earlier
  <1>2. job \in batch /\ \A i \in batch \ {job} : <<job, i>> \in order
    BY JobFirst DEF Earlier
  <1>3. job' = CHOOSE j \in batch : \A i \in batch \ {j} : <<j, i>> \in order'
    BY DEF job, Earlier
  <1>4. \A i \in batch \ {job} : <<job, i>> \in order'
    BY <1>2
  <1>5. job' \in batch /\ \A i \in batch \ {job'} : <<job', i>> \in order'
    BY <1>2, <1>3, <1>4
  <1>6. \A i \in batch \ {job'} : <<job', i>> \in order
    BY Zenon, <1>5
  <1> QED
    BY Zenon, <1>1, <1>2, <1>5, <1>6

LEMMA QueueSame ==
    ASSUME QueueInv, UNCHANGED queueVars
    PROVE  QueueInv'
  BY DEF queueVars, QueueInv, QueueOrdered, Unfinished, Earlier, LeasesWithinLimit, LeasedOf,
         ActiveLease, AttemptsSpent

\* A step that leaves the queue and the batch alone.
LEMMA QueueStutter ==
    ASSUME RunnerInv, UNCHANGED queueVars, batch' = batch, completed \subseteq completed'
    PROVE  /\ QueueInv' /\ BatchIsLeased' /\ SucceededJobsCompleted'
           /\ batch # {} => job' = job
  <1>1. jobs' = jobs /\ order' = order
    BY DEF queueVars
  <1>2. QueueInv'
    BY QueueSame DEF RunnerInv
  <1>3. batch # {} => job' = job
    BY SMTT(30), <1>1, JobSame
  <1> QED
    BY <1>1, <1>2, <1>3 DEF RunnerInv, BatchIsLeased, SucceededJobsCompleted

LEMMA RunnerInitInv == RunnerInit => RunnerInv
  <1> SUFFICES ASSUME RunnerInit PROVE RunnerInv
    OBVIOUS
  <1>1. jobs = [j \in Job |-> Unleased("absent", 0, 0)] /\ order = {}
    BY DEF RunnerInit, QueueInit
  <1>2. Unleased("absent", 0, 0) \in JobRecord
    <2>1. PICK s \in BackgroundJobStatus \cup {"absent"} : s = "absent"
      OBVIOUS
    <2>2. 0 \in 0..MaxAttempts /\ 0 \in Nat
      BY JobQueueAssumption
    <2> QED
      BY SMTT(30), <2>1, <2>2, UnleasedRecord
  <1>3. /\ jobs \in [Job -> JobRecord]
        /\ \A j \in Job : jobs[j].status = "absent"
    BY <1>1, <1>2 DEF Unleased
  <1>4. Unfinished = {}
    BY <1>3 DEF Unfinished, UnfinishedStatuses, QueueDepthStatuses
  <1>5. LeasesWithinLimit
    <2>1. \A k \in Kinds : LeasedOf(k) = {}
      BY <1>3 DEF LeasedOf, ActiveLease
    <2>2. Cardinality({}) = 0
      BY FS_EmptySet
    <2>3. \A k \in Kinds : Policy[k].limit \in Nat /\ Policy[k].limit >= 0
      BY JobQueueAssumption
    <2> QED
      BY SMTT(30), <2>1, <2>2, <2>3 DEF LeasesWithinLimit
  <1>6. AttemptsSpent
    BY <1>3 DEF AttemptsSpent, UnfinishedStatuses, QueueDepthStatuses
  <1>7. QueueInv
    BY SMTT(30), <1>1, <1>3, <1>4, <1>5, <1>6 DEF QueueInv, QueueOrdered
  <1>8. SchedulerInv
    BY SchedulerInitInv DEF RunnerInit
  <1>9. RunnerStateOK
    <2>1. idleSeen \in BOOLEAN
      BY Zenon DEF RunnerInit
    <2>2. faults \in 0..MaxFaults
      BY SMTT(30), RunnerAssumption DEF RunnerInit
    <2> QED
      BY <2>1, <2>2 DEF RunnerInit, RunnerStateOK
  <1> QED
    BY <1>3, <1>7, <1>8, <1>9
       DEF RunnerInv, RunnerInit, BatchIsLeased, StageInv, SucceededJobsCompleted

\* The marks of run_once that change the queue.
LEMMA RecordInv ==
    ASSUME RunnerInv, stage = "marking", Record
    PROVE  /\ job \in batch /\ job \in Job
           /\ QueueInv'
           /\ \A i \in Job \ {job} : jobs'[i] = jobs[i]
           /\ jobs'[job].status = "succeeded" => job \in completed
           /\ \A i, k \in batch \ {job} : <<i, k>> \in order' <=> <<i, k>> \in order
  <1>1. /\ job \in batch /\ job \in Job /\ jobs[job].status = "leased"
        /\ jobs[job].attempts \in 0..MaxAttempts /\ jobs[job].waitLeft \in Nat
    BY SMTT(30), JobFirst DEF RunnerInv, StageInv, BatchIsLeased, RunnerStateOK, QueueInv, JobRecord
  <1>2. verdict \in {"succeeded", "retry", "defer", "cancelled", "permanent"}
    BY DEF RunnerInv, StageInv, RunnerStateOK
  <1>3. QueueInv
    BY DEF RunnerInv
  <1> DEFINE j == job
             Kept == /\ \A i \in Job \ {j} : jobs'[i] = jobs[i]
                     /\ jobs'[j].status = "succeeded" => j \in completed
                     /\ \A i, k \in batch \ {j} : <<i, k>> \in order' <=> <<i, k>> \in order
  <1>4. \A d : order' = Reordered(j, d) \/ order' = OrderWithout(j) =>
           \A i, k \in batch \ {j} : <<i, k>> \in order' <=> <<i, k>> \in order
    BY SMTT(30) DEF Reordered, OrderWithout
  <1>5. ASSUME NEW status, NEW a, NEW d, jobs' = [jobs EXCEPT ![j] = Unleased(status, a, d)]
        PROVE  (\A i \in Job \ {j} : jobs'[i] = jobs[i]) /\ jobs'[j].status = status
    BY SMTT(30), <1>1, <1>3, <1>5 DEF QueueInv, Unleased
  <1> HIDE DEF j
  <1>j. j \in Job /\ jobs[j].status = "leased"
    BY SMTT(30), <1>1 DEF j
  <1>6. CASE verdict \in {"succeeded", "cancelled"}
    <2>1. UpdateTerminal(j, verdict)
      BY Zenon, <1>6 DEF Record, j
    <2>2. QueueInv'
      BY <1>j, <1>3, <1>6, <2>1, UpdateTerminalInv DEF TerminalStatuses
    <2>3. verdict = "succeeded" => j \in completed
      BY SMTT(30) DEF RunnerInv, StageInv, j
    <2>4. Kept
      BY Zenon, <1>4, <1>5, <2>1, <2>3 DEF UpdateTerminal
    <2> QED
      BY <1>1, <2>2, <2>4 DEF j
  <1>7. CASE verdict = "permanent"
    <2>1. UpdateTerminal(j, "failed_permanent")
      BY <1>7 DEF Record, j
    <2>2. JobKind[j] \notin Workers
      BY <1>7 DEF RunnerInv, StageInv, j
    <2>3. QueueInv'
      BY SMTT(30), <1>j, <1>3, <2>1, <2>2, UpdateTerminalInv DEF TerminalStatuses
    <2>4. Kept
      <3>1. /\ jobs' = [jobs EXCEPT ![j] = Unleased("failed_permanent", jobs[j].attempts,
                                                    jobs[j].waitLeft)]
            /\ order' = OrderWithout(j)
        BY <2>1 DEF UpdateTerminal
      <3>2. (\A i \in Job \ {j} : jobs'[i] = jobs[i]) /\ jobs'[j].status = "failed_permanent"
        BY Zenon, <1>5, <3>1
      <3> QED
        BY <1>4, <3>1, <3>2
    <2> QED
      BY <1>1, <2>3, <2>4 DEF j
  <1>8. CASE verdict = "retry"
    <2>1. MarkRetryableFailure(j)
      BY <1>8 DEF Record, j
    <2>2. QueueInv'
      BY <1>j, <1>3, <2>1, MarkRetryableFailureInv
    <2>3. Kept
      <3>1. RetryFailureStatus(jobs[j].attempts + 1) # "succeeded"
        BY DEF RetryFailureStatus
      <3> QED
        BY Zenon, <1>4, <1>5, <2>1, <3>1 DEF MarkRetryableFailure
    <2> QED
      BY <1>1, <2>2, <2>3 DEF j
  <1>9. CASE verdict = "defer"
    <2>1. DeferLeased(j)
      BY SMTT(30), <1>9 DEF Record, j
    <2>2. QueueInv'
      BY SMTT(30), <1>j, <1>3, <2>1, DeferLeasedInv
    <2>3. Kept
      <3>1. PICK d : /\ jobs' = [jobs EXCEPT ![j] = Unleased("pending", jobs[j].attempts, d)]
                     /\ order' = Reordered(j, d)
        BY Zenon, <2>1 DEF DeferLeased
      <3>2. (\A i \in Job \ {j} : jobs'[i] = jobs[i]) /\ jobs'[j].status = "pending"
        BY Zenon, <1>5, <3>1
      <3> QED
        BY <1>4, <3>1, <3>2
    <2> QED
      BY <1>1, <2>2, <2>3 DEF j
  <1> QED
    BY SMTT(30), <1>2, <1>6, <1>7, <1>8, <1>9

LEMMA MarkJobInv ==
    ASSUME RunnerInv, MarkJob
    PROVE  RunnerInv'
  <1>1. /\ job \in batch /\ job \in Job
        /\ QueueInv'
        /\ \A i \in Job \ {job} : jobs'[i] = jobs[i]
        /\ jobs'[job].status = "succeeded" => job \in completed
    BY SMTT(30), RecordInv DEF MarkJob
  <1>2. SchedulerInv'
    BY SchedulerStutterInv DEF MarkJob, RunnerInv
  <1>3. /\ batch' = batch \ {job} /\ batch' \subseteq Job
        /\ stage' = IF batch' = {} THEN "sleeping" ELSE "starting"
        /\ verdict' = "none" /\ completed' = completed /\ idleSeen' = idleSeen
        /\ faults' = faults
    BY DEF MarkJob, NextJob, RunnerInv, RunnerStateOK
  <1>4. RunnerStateOK'
    BY SMTT(30), <1>3 DEF RunnerInv, RunnerStateOK
  <1>5. BatchIsLeased'
    BY SMTT(30), <1>1, <1>3 DEF RunnerInv, BatchIsLeased
  <1>6. StageInv'
    BY SMTT(30), <1>3 DEF StageInv
  <1>7. SucceededJobsCompleted'
    BY SMTT(30), <1>1, <1>3 DEF RunnerInv, SucceededJobsCompleted
  <1> QED
    BY <1>1, <1>2, <1>4, <1>5, <1>6, <1>7 DEF RunnerInv

LEMMA LeaseBatchInv ==
    ASSUME RunnerInv, LeaseBatch
    PROVE  RunnerInv'
  <1>1. /\ stage = "leasing" /\ LeaseDue(idleSeen) /\ batch' = LeasedBatch(idleSeen)
        /\ stage' = IF batch' = {} THEN "sleeping" ELSE "starting"
        /\ idleSeen' = FALSE
        /\ UNCHANGED schedulerVars
        /\ verdict' = verdict /\ completed' = completed /\ faults' = faults
    BY SMTT(30) DEF LeaseBatch
  <1>2. /\ QueueInv'
        /\ \A j \in Job : j \in batch' => jobs'[j].status = "leased"
        /\ \A j \in Job : j \notin batch' => jobs'[j] = jobs[j]
    BY SMTT(30), <1>1, LeaseDueInv DEF RunnerInv
  <1>3. batch' \subseteq Job
    BY SMTT(30), <1>1 DEF LeasedBatch
  <1>4. SchedulerInv'
    BY SMTT(30), <1>1, SchedulerStutterInv DEF RunnerInv
  <1>5. RunnerStateOK'
    <2>1. idleSeen' \in BOOLEAN
      BY <1>1, Zenon
    <2> QED
      BY SMTT(30), <1>1, <1>3, <2>1 DEF RunnerInv, RunnerStateOK
  <1>6. BatchIsLeased'
    BY SMTT(30), <1>2, <1>3 DEF BatchIsLeased
  <1>7. StageInv'
    BY SMTT(30), <1>1 DEF StageInv
  <1>8. SucceededJobsCompleted'
    BY <1>1, <1>2 DEF RunnerInv, SucceededJobsCompleted
  <1> QED
    BY SMTT(30), <1>2, <1>4, <1>5, <1>6, <1>7, <1>8 DEF RunnerInv

\* enqueue by a hook, while the runner is somewhere in its batch.
LEMMA EnqueueJobInv ==
    ASSUME RunnerInv, NEW j \in Job, EnqueueJob(j)
    PROVE  RunnerInv'
  <1>1. /\ UNCHANGED schedulerVars
        /\ stage' = stage /\ batch' = batch /\ idleSeen' = idleSeen /\ verdict' = verdict
        /\ completed' = completed /\ faults' = faults
    BY DEF EnqueueJob, runnerVars
  <1>2. SchedulerInv'
    BY SMTT(30), <1>1, SchedulerStutterInv DEF RunnerInv
  <1>3. RunnerStateOK'
    BY SMTT(30), <1>1 DEF RunnerInv, RunnerStateOK
  <1>4. QueueInv' /\ BatchIsLeased' /\ SucceededJobsCompleted' /\ (batch # {} => job' = job)
    <2>1. CASE UNCHANGED queueVars
      BY <1>1, <2>1, QueueStutter
    <2>2. CASE jobs[j].status = "absent" /\ \E d \in Nat : StoreJob(j, d)
      <3>1. PICK d \in Nat : StoreJob(j, d)
        BY <2>2
      <3>2. QueueInv'
        BY SMTT(30), <2>2, <3>1, StoreJobInv DEF RunnerInv
      <3>3. j \notin batch /\ \A i, k \in batch : <<i, k>> \in order' <=> <<i, k>> \in order
        <4>1. j \notin batch
          BY <2>2 DEF RunnerInv, BatchIsLeased
        <4> QED
          BY <3>1, <4>1 DEF StoreJob, Reordered, OrderWithout
      <3>4. /\ \A i \in Job \ {j} : jobs'[i] = jobs[i]
            /\ jobs'[j].status = "pending"
        BY SMTT(30), <3>1 DEF StoreJob, NewJob, Unleased, RunnerInv, QueueInv
      <3>5. BatchIsLeased'
        BY SMTT(30), <1>1, <3>3, <3>4 DEF RunnerInv, BatchIsLeased, RunnerStateOK
      <3>6. SucceededJobsCompleted'
        BY <1>1, <3>4 DEF RunnerInv, SucceededJobsCompleted
      <3> QED
        BY SMTT(30), <1>1, <3>2, <3>3, <3>5, <3>6, JobSame
    <2>3. PolicyOf(j).deferSeconds \in Nat
      BY SMTT(30), JobQueueAssumption DEF PolicyOf, Kinds
    <2> QED
      BY Zenon, <2>1, <2>2, <2>3 DEF EnqueueJob, Enqueue, EnqueueWithPolicy
  <1>5. StageInv'
    BY Zenon, <1>1, <1>4 DEF RunnerInv, StageInv, schedulerVars, IsLlm
  <1> QED
    BY <1>2, <1>3, <1>4, <1>5 DEF RunnerInv

LEMMA TickInv ==
    ASSUME RunnerInv, Tick
    PROVE  RunnerInv'
  <1>1. /\ UNCHANGED schedulerVars /\ PassTime /\ order' = order
        /\ stage' = stage /\ batch' = batch /\ idleSeen' = idleSeen /\ verdict' = verdict
        /\ completed' = completed /\ faults' = faults
    BY Zenon DEF Tick, PassTime, runnerVars
  <1>2. /\ QueueInv'
        /\ \A j \in Job : jobs'[j].status = jobs[j].status
    BY <1>1, PassTimeInv DEF RunnerInv
  <1>3. batch # {} => job' = job
    BY <1>1, JobSame
  <1>4. SchedulerInv'
    BY SMTT(30), <1>1, SchedulerStutterInv DEF RunnerInv
  <1>5. RunnerStateOK' /\ BatchIsLeased' /\ SucceededJobsCompleted'
    BY SMTT(30), <1>1, <1>2 DEF RunnerInv, RunnerStateOK, BatchIsLeased, SucceededJobsCompleted
  <1>6. StageInv'
    BY <1>1, <1>3 DEF RunnerInv, StageInv, schedulerVars, IsLlm
  <1> QED
    BY SMTT(30), <1>2, <1>4, <1>5, <1>6 DEF RunnerInv

\* Steps of run_once that touch neither the queue nor the batch.
LEMMA WorkInv ==
    ASSUME RunnerInv, UNCHANGED queueVars, batch' = batch, faults' = faults,
           completed \subseteq completed',
           RunnerStateOK', SchedulerInv', batch # {} => (job' = job => StageInv'),
           batch = {} => StageInv'
    PROVE  RunnerInv'
  BY QueueStutter DEF RunnerInv

LEMMA StartInv ==
    ASSUME RunnerInv, ReadIdle \/ FailWithoutWorker \/ StartPlain
    PROVE  RunnerInv'
  <1>1. /\ UNCHANGED <<queueVars, schedulerVars>> /\ batch' = batch /\ completed' = completed
        /\ faults' = faults
    BY DEF ReadIdle, FailWithoutWorker, StartPlain
  <1>2. SchedulerInv'
    BY <1>1, SchedulerStutterInv DEF RunnerInv
  <1>3. idleSeen' \in BOOLEAN
    <2>1. CASE ReadIdle
      BY <2>1, Zenon DEF ReadIdle
    <2>2. CASE idleSeen' = idleSeen
      BY SMTT(30), <2>2 DEF RunnerInv, RunnerStateOK
    <2> QED
      BY <2>1, <2>2 DEF FailWithoutWorker, StartPlain
  <1>4. RunnerStateOK'
    BY <1>1, <1>3 DEF RunnerInv, RunnerStateOK, ReadIdle, FailWithoutWorker, StartPlain, Conclude
  <1>5. CASE ReadIdle
    <2>1. batch = {}
      BY <1>5 DEF ReadIdle, RunnerInv, StageInv
    <2>2. StageInv'
      BY <1>1, <1>5, <2>1 DEF ReadIdle, StageInv
    <2> QED
      BY SMTT(30), <1>1, <1>2, <1>4, <2>1, <2>2, WorkInv
  <1>6. CASE FailWithoutWorker \/ StartPlain
    <2>1. batch # {}
      BY SMTT(30), <1>6 DEF FailWithoutWorker, StartPlain, RunnerInv, StageInv
    <2>2. job' = job => StageInv'
      BY <1>1, <1>6, <2>1 DEF FailWithoutWorker, StartPlain, StageInv, Conclude, IsLlm
    <2> QED
      BY SMTT(30), <1>1, <1>2, <1>4, <2>1, <2>2, WorkInv
  <1> QED
    BY <1>5, <1>6

LEMMA StartLlmInv ==
    ASSUME RunnerInv, StartLlm
    PROVE  RunnerInv'
  <1>1. /\ stage = "starting" /\ UNCHANGED queueVars /\ batch' = batch
        /\ completed' = completed /\ faults' = faults /\ idleSeen' = idleSeen
        /\ Acquire(Runner, InferenceRequest)
    BY SMTT(30) DEF StartLlm
  <1>2. InferenceRequest \in Request
    BY DEF InferenceRequest, Request, SlotKind, LargeSlotKinds, LowPriorities
  <1>3. SchedulerInv'
    BY SMTT(30), <1>1, <1>2, AcquireInv, RunnerAssumption DEF RunnerInv
  <1>4. batch # {}
    BY <1>1 DEF RunnerInv, StageInv
  <1>5. CASE DecisionFor(InferenceRequest) = "acquired"
    <2>1. stage' = "working" /\ verdict' = verdict
      BY SMTT(30), <1>5 DEF StartLlm
    <2>2. call' = [call EXCEPT ![Runner] = [pc |-> "calling", request |-> InferenceRequest]]
      BY SMTT(30), <1>1, <1>5 DEF Acquire, Acquired, Rejected
    <2>3. call'[Runner].pc = "calling"
      BY SMTT(30), <2>2, RunnerAssumption DEF RunnerInv, SchedulerInv, SchedulerTypeOK
    <2>4. RunnerStateOK' /\ StageInv'
      BY SMTT(30), <1>1, <1>4, <2>1, <2>3 DEF RunnerInv, RunnerStateOK, StageInv
    <2> QED
      BY <1>1, <1>3, <2>4, WorkInv
  <1>6. CASE DecisionFor(InferenceRequest) # "acquired"
    <2>1. stage' = "marking" /\ verdict' \in {"defer", "cancelled"}
      BY SMTT(30), <1>6 DEF StartLlm, Conclude
    <2>2. RunnerStateOK' /\ StageInv'
      BY <1>1, <1>4, <2>1 DEF RunnerInv, RunnerStateOK, StageInv
    <2> QED
      BY SMTT(30), <1>1, <1>3, <2>2, WorkInv
  <1> QED
    BY <1>5, <1>6

\* The worker is skipped, returns, raises, or stops because it was asked to.
LEMMA WorkerInv ==
    ASSUME RunnerInv,
           \/ SkipUnfit
           \/ WorkerStops
           \/ \E v \in {"succeeded", "retry"} : WorkerReturns(v)
    PROVE  RunnerInv'
  <1>1. /\ stage = "working" /\ UNCHANGED queueVars /\ batch' = batch
        /\ faults' = faults /\ idleSeen' = idleSeen /\ stage' = "returned"
        /\ verdict' \in {"succeeded", "retry", "defer"}
        /\ completed' \in {completed, completed \cup {job}}
        /\ verdict' = "succeeded" => job \in completed' \/ WorkerStops
    BY DEF SkipUnfit, WorkerStops, WorkerReturns
  <1>2. SchedulerInv'
    <2>1. CASE CallReturns(Runner) \/ AcknowledgeStopped(Runner)
      BY <2>1, CallEndsInv, RunnerAssumption DEF RunnerInv
    <2>2. CASE UNCHANGED schedulerVars
      BY SMTT(30), <2>2, SchedulerStutterInv DEF RunnerInv
    <2> QED
      BY <2>1, <2>2 DEF SkipUnfit, WorkerStops, WorkerReturns
  <1>3. batch # {} /\ job \in Job
    BY <1>1, JobFirst DEF RunnerInv, StageInv, RunnerStateOK
  <1>4. RunnerStateOK'
    BY <1>1, <1>3 DEF RunnerInv, RunnerStateOK
  <1>5. WorkerStops => IsLlm(job) /\ Runner \in cancelRequested'
    BY SMTT(30) DEF WorkerStops, AcknowledgeStopped
  <1>6. job' = job => StageInv'
    BY SMTT(30), <1>1, <1>3, <1>5 DEF StageInv, IsLlm
  <1> QED
    BY SMTT(30), <1>1, <1>2, <1>3, <1>4, <1>6, WorkInv

LEMMA FinishJobInv ==
    ASSUME RunnerInv, FinishJob
    PROVE  RunnerInv'
  <1>1. /\ stage = "returned" /\ UNCHANGED queueVars /\ batch' = batch
        /\ faults' = faults /\ idleSeen' = idleSeen /\ completed' = completed
        /\ stage' = "marking"
        /\ verdict' = IF IsLlm(job) /\ verdict = "succeeded" /\ LostLease THEN "defer" ELSE verdict
    BY DEF FinishJob, Conclude
  <1>2. SchedulerInv'
    <2>1. CASE Release(Runner)
      BY <2>1, ReleaseInv, RunnerAssumption DEF RunnerInv
    <2>2. CASE UNCHANGED schedulerVars
      BY SMTT(30), <2>2, SchedulerStutterInv DEF RunnerInv
    <2> QED
      BY <2>1, <2>2 DEF FinishJob
  <1>3. batch # {}
    BY SMTT(30), <1>1 DEF RunnerInv, StageInv
  <1>4. verdict' \in {"succeeded", "retry", "defer"} /\ (verdict' = "succeeded" => job \in completed)
    BY <1>1 DEF RunnerInv, StageInv, LostLease
  <1>5. RunnerStateOK'
    BY SMTT(30), <1>1, <1>4 DEF RunnerInv, RunnerStateOK
  <1>6. job' = job => StageInv'
    BY <1>1, <1>3, <1>4 DEF StageInv
  <1> QED
    BY SMTT(30), <1>1, <1>2, <1>3, <1>5, <1>6, WorkInv

\* A queue write that raises, and a crash, end the run; the queue keeps what it has.
LEMMA FaultInv ==
    ASSUME RunnerInv, MarkFails \/ Crash
    PROVE  RunnerInv'
  <1>1. /\ UNCHANGED queueVars /\ completed' = completed
        /\ stage' = "sleeping" /\ batch' = {} /\ verdict' = "none" /\ idleSeen' = FALSE
        /\ faults < MaxFaults /\ faults' = faults + 1
    BY DEF MarkFails, Crash, Abort
  <1>2. SchedulerInv'
    <2>1. CASE UNCHANGED schedulerVars
      BY <2>1, SchedulerStutterInv DEF RunnerInv
    <2>2. CASE SchedulerRestart
      <3>1. SchedulerInit'
        BY <2>2 DEF SchedulerRestart, SchedulerInit
      <3>2. SchedulerInit' => SchedulerInv'
        BY SchedulerInitInv, PTL
      <3> QED
        BY <3>1, <3>2
    <2> QED
      BY <2>1, <2>2 DEF MarkFails, Crash
  <1>3. RunnerStateOK'
    <2>1. idleSeen' \in BOOLEAN
      BY <1>1, Zenon
    <2>2. faults' \in 0..MaxFaults
      BY SMTT(30), <1>1, RunnerAssumption DEF RunnerInv, RunnerStateOK
    <2> QED
      BY <1>1, <2>1, <2>2 DEF RunnerInv, RunnerStateOK
  <1>4. QueueInv' /\ BatchIsLeased' /\ SucceededJobsCompleted' /\ StageInv'
    BY SMTT(30), <1>1, QueueSame DEF RunnerInv, BatchIsLeased, SucceededJobsCompleted, StageInv, queueVars
  <1> QED
    BY <1>2, <1>3, <1>4 DEF RunnerInv

\* Other callers may ask the runner's worker to stop but neither end its call nor
\* take the request back.
LEMMA OthersInv ==
    ASSUME RunnerInv,
           \/ \E c \in Caller \ {Runner} : OtherCaller(c)
           \/ \E s \in ResourceStates : ChangeState(s)
    PROVE  RunnerInv'
  <1>1. /\ UNCHANGED queueVars /\ batch' = batch /\ stage' = stage /\ verdict' = verdict
        /\ idleSeen' = idleSeen /\ completed' = completed /\ faults' = faults
    BY DEF OtherCaller, ChangeState, runnerVars
  <1>2. /\ SchedulerInv'
        /\ call'[Runner] = call[Runner]
        /\ Runner \in cancelRequested => Runner \in cancelRequested'
    <2>1. CASE \E s \in ResourceStates : ChangeState(s)
      <3>1. PICK s \in ResourceStates : SetState(s)
        BY <2>1 DEF ChangeState
      <3>2. SchedulerInv'
        BY SMTT(30), <3>1, SetStateInv, RunnerAssumption DEF RunnerInv
      <3> QED
        BY <3>1, <3>2 DEF SetState
    <2>2. CASE \E c \in Caller \ {Runner} : OtherCaller(c)
      <3>1. PICK c \in Caller \ {Runner} :
               (\E r \in Requests[c] : Acquire(c, r)) \/ CallReturns(c) \/ Release(c)
        BY <2>2 DEF OtherCaller
      <3>2. call \in [Caller -> [pc: {"idle", "calling", "returned"}, request: Request]]
        BY SMTT(30) DEF RunnerInv, SchedulerInv, SchedulerTypeOK
      <3>3. CASE \E r \in Requests[c] : Acquire(c, r)
        <4>1. PICK r \in Requests[c] : Acquire(c, r)
          BY <3>3
        <4>2. r \in Request
          BY SMTT(30), InferenceAssumption
        <4>3. SchedulerInv'
          BY <4>1, <4>2, AcquireInv DEF RunnerInv
        <4> QED
          BY SMTT(30), <3>2, <4>1, <4>3, RunnerAssumption DEF Acquire, Acquired, Rejected
      <3>4. CASE CallReturns(c)
        <4>1. SchedulerInv'
          BY <3>4, CallEndsInv DEF RunnerInv
        <4> QED
          BY SMTT(30), <3>2, <3>4, <4>1, RunnerAssumption DEF CallReturns
      <3>5. CASE Release(c)
        <4>1. SchedulerInv'
          BY <3>5, ReleaseInv DEF RunnerInv
        <4> QED
          BY SMTT(30), <3>2, <3>5, <4>1, RunnerAssumption DEF Release
      <3> QED
        BY SMTT(30), <3>1, <3>3, <3>4, <3>5
    <2> QED
      BY <2>1, <2>2
  <1>3. RunnerStateOK'
    BY SMTT(30), <1>1 DEF RunnerInv, RunnerStateOK
  <1>4. batch # {} => (job' = job => StageInv')
    BY SMTT(30), <1>1, <1>2 DEF RunnerInv, StageInv, IsLlm
  <1>5. batch = {} => StageInv'
    BY SMTT(30), <1>1 DEF RunnerInv, StageInv
  <1> QED
    BY SMTT(30), <1>1, <1>2, <1>3, <1>4, <1>5, WorkInv

LEMMA RunnerNextInv == RunnerInv /\ [RunnerNext]_vars => RunnerInv'
  <1> SUFFICES ASSUME RunnerInv, [RunnerNext]_vars PROVE RunnerInv'
    OBVIOUS
  <1>1. CASE ReadIdle \/ FailWithoutWorker \/ StartPlain
    BY <1>1, StartInv
  <1>2. CASE LeaseBatch
    BY <1>2, LeaseBatchInv
  <1>3. CASE StartLlm
    BY <1>3, StartLlmInv
  <1>4. CASE SkipUnfit \/ WorkerStops \/ \E v \in {"succeeded", "retry"} : WorkerReturns(v)
    BY <1>4, WorkerInv
  <1>5. CASE FinishJob
    BY <1>5, FinishJobInv
  <1>6. CASE MarkJob
    BY <1>6, MarkJobInv
  <1>7. CASE MarkFails \/ Crash
    BY <1>7, FaultInv
  <1>8. CASE \E j \in Job : EnqueueJob(j)
    BY <1>8, EnqueueJobInv
  <1>9. CASE (\E c \in Caller \ {Runner} : OtherCaller(c)) \/ \E s \in ResourceStates : ChangeState(s)
    BY <1>9, OthersInv
  <1>10. CASE Tick
    BY SMTT(30), <1>10, TickInv
  <1>11. CASE UNCHANGED vars
    <2>1. /\ UNCHANGED queueVars /\ UNCHANGED schedulerVars
          /\ batch' = batch /\ stage' = stage /\ verdict' = verdict
          /\ idleSeen' = idleSeen /\ completed' = completed /\ faults' = faults
      BY <1>11 DEF vars, runnerVars
    <2>2. SchedulerInv'
      BY SMTT(30), <2>1, SchedulerStutterInv DEF RunnerInv
    <2>3. RunnerStateOK' /\ (batch = {} => StageInv')
      BY SMTT(30), <2>1 DEF RunnerInv, RunnerStateOK, StageInv
    <2>4. batch # {} => (job' = job => StageInv')
      BY <2>1 DEF RunnerInv, StageInv, IsLlm, schedulerVars
    <2> QED
      BY SMTT(30), <2>1, <2>2, <2>3, <2>4, WorkInv
  <1> QED
    BY SMTT(30), <1>1, <1>2, <1>3, <1>4, <1>5, <1>6, <1>7, <1>8, <1>9, <1>10, <1>11
       DEF RunnerNext, RunnerStep

LEMMA RunnerInvAlways == RunnerSpec => []RunnerInv
  BY RunnerInitInv, RunnerNextInv, PTL DEF RunnerSpec

-----------------------------------------------------------------------------
\* lease_due, the marks, the inference leases and the crashes between them keep
\* the queue in order, its leases within the limits of their kinds, the attempts
\* accounted for, the batch leased, and every LLM worker under an inference lease.
THEOREM RunnerIsCorrect == RunnerSpec => []RunnerInvariant
  <1>1. RunnerInv => RunnerInvariant
    <2> SUFFICES ASSUME RunnerInv PROVE RunnerInvariant
      BY SMTT(30)
    <2>1. RunnerTypeOK
      <3>1. order \subseteq Job \X Job
        BY DEF RunnerInv, QueueInv, QueueOrdered, Unfinished
      <3> QED
        BY SMTT(30), <3>1 DEF RunnerInv, RunnerTypeOK, QueueInv, JobRecord, SchedulerInv, RunnerStateOK
    <2>2. LlmWorkUnderLease
      BY RunnerAssumption DEF RunnerInv, StageInv, SchedulerInv, LlmWorkUnderLease
    <2> QED
      BY <2>1, <2>2 DEF RunnerInv, RunnerInvariant, QueueInv
  <1> QED
    BY <1>1, RunnerInvAlways, PTL

\* _defer_lost: a job whose worker was preempted is never marked succeeded.
THEOREM SuccessIsEarned == RunnerSpec => []SucceededJobsCompleted
  <1>1. RunnerInv => SucceededJobsCompleted
    BY DEF RunnerInv
  <1> QED
    BY <1>1, RunnerInvAlways, PTL

\* The step FinishedStaysFinished allows.
FinishedKept ==
    \A j \in Job : jobs[j].status \in TerminalStatuses =>
        /\ jobs'[j].status = jobs[j].status
        /\ jobs'[j].attempts = jobs[j].attempts

\* The marks check nothing, yet no finished job is marked, leased or enqueued again.
THEOREM FinishedForGood == RunnerSpec => FinishedStaysFinished
  <1>1. RunnerInv /\ [RunnerNext]_vars => [FinishedKept]_vars
    <2> SUFFICES ASSUME RunnerInv, RunnerNext PROVE FinishedKept
      OBVIOUS
    <2>1. CASE UNCHANGED queueVars
      BY SMTT(30), <2>1 DEF FinishedKept, queueVars
    <2>2. CASE LeaseBatch
      <3>1. LeaseDue(idleSeen) /\ QueueInv
        BY SMTT(30), <2>2 DEF LeaseBatch, RunnerInv
      <3>2. /\ \A j \in Job : j \notin LeasedBatch(idleSeen) => jobs'[j] = jobs[j]
            /\ \A j \in LeasedBatch(idleSeen) : jobs[j].status \in UnfinishedStatuses
        BY SMTT(30), <3>1, LeaseDueInv
      <3> QED
        BY <3>2 DEF FinishedKept, TerminalStatuses, UnfinishedStatuses, QueueDepthStatuses
    <2>3. CASE MarkJob
      <3>1. job \in batch /\ \A i \in Job \ {job} : jobs'[i] = jobs[i]
        BY <2>3, RecordInv DEF MarkJob
      <3>2. jobs[job].status = "leased"
        BY SMTT(30), <3>1 DEF RunnerInv, BatchIsLeased
      <3> QED
        BY SMTT(30), <3>1, <3>2 DEF FinishedKept, TerminalStatuses
    <2>4. CASE \E j \in Job : EnqueueJob(j)
      <3>1. PICK j \in Job : Enqueue(j) \/ EnqueueWithPolicy(j)
        BY SMTT(30), <2>4 DEF EnqueueJob
      <3>2. CASE jobs[j].status = "absent" /\ \E d : StoreJob(j, d)
        <4>1. \A i \in Job \ {j} : jobs'[i] = jobs[i]
          BY SMTT(30), <3>2 DEF StoreJob, RunnerInv, QueueInv
        <4> QED
          BY <3>2, <4>1 DEF FinishedKept, TerminalStatuses
      <3> QED
        BY <2>1, <3>1, <3>2 DEF Enqueue, EnqueueWithPolicy
    <2>5. CASE Tick
      BY <2>5, PassTimeInv DEF Tick, RunnerInv, FinishedKept
    <2> QED
      BY Zenon, <2>1, <2>2, <2>3, <2>4, <2>5
         DEF RunnerNext, RunnerStep, ReadIdle, FailWithoutWorker, StartPlain, StartLlm,
             SkipUnfit, WorkerStops, WorkerReturns, FinishJob, MarkFails, Crash, OtherCaller,
             ChangeState
  <1> QED
    BY <1>1, RunnerInvAlways, PTL DEF RunnerSpec, FinishedStaysFinished, FinishedKept
=============================================================================

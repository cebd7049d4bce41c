--------------------------- MODULE DeliveryOutbox ---------------------------
(***************************************************************************)
(* The delivery outbox of the Iris runtime: envelopes waiting for an       *)
(* external client to pull, perform and report them.                       *)
(*                                                                         *)
(* Two backends implement it, runtime/delivery/in_memory.py and            *)
(* adapters/persistence/sqlite/stores/delivery_outbox.py, over the same    *)
(* transition functions (contracts/delivery_transitions.py).  Durable      *)
(* selects the backend: TRUE is SQLite, FALSE is the process-local one.    *)
(* Every operation is one step: the SQLite backend runs it in one          *)
(* BEGIN IMMEDIATE transaction, the other one has no await inside.         *)
(*                                                                         *)
(* Time is kept as what is left until each deadline: is_delivery_due only  *)
(* compares lease_expires_at and not_before with now, so a deadline that   *)
(* has passed is 0 and stays 0.                                            *)
(***************************************************************************)
EXTENDS Naturals, FiniteSets

CONSTANTS
    Delivery,      \* delivery ids, numbered in the order (created_at, delivery_id)
    Key,           \* idempotency keys
    KeyOf,         \* the idempotency key of each envelope
    Provider,      \* providers whose clients poll
    ProviderOf,    \* the target provider of each envelope
    MaxAttempts,   \* max_attempts of an envelope
    MaxDepth,      \* max_depth_per_provider
    LeaseSeconds,  \* lease_seconds of the broker
    Backoff,       \* retry_backoff_seconds of the broker
    PollSizes,     \* max_items of a poll
    Durable        \* TRUE: the SQLite backend, FALSE: the in-memory one

ASSUME OutboxAssumption ==
    /\ Delivery \subseteq Nat \ {0}
    /\ IsFiniteSet(Delivery)
    /\ KeyOf \in [Delivery -> Key]
    /\ ProviderOf \in [Delivery -> Provider]
    /\ MaxAttempts \in Nat \ {0}
    /\ MaxDepth \in Nat \ {0}
    /\ LeaseSeconds \in Nat \ {0}
    /\ Backoff \in Nat
    /\ PollSizes \subseteq Nat \ {0}
    /\ Durable \in BOOLEAN

VARIABLES
    items,         \* the stored envelope of each delivery
    reports,       \* recorded report fingerprints
    leaseCounter,  \* lease ids given out by the in-memory backend
    granted        \* every lease handed to a client since the store was created

outboxVars == <<items, reports, leaseCounter, granted>>

-----------------------------------------------------------------------------
TerminalStatus == {"SUCCEEDED", "FAILED_PERMANENT", "CANCELLED", "BLOCKED"}

DeliveryStatus == {"PENDING", "LEASED"} \cup TerminalStatus

ActionStatus == {"SUCCEEDED", "FAILED", "CANCELLED", "BLOCKED"}

\* "lease-N" of the in-memory backend is <<0, N>>; "d:lease:N" of SQLite is <<d, N>>.
LeaseId == Nat \X Nat

NoLease == <<0, 0>>

Item == [status: DeliveryStatus \cup {"ABSENT", "LOST"}, attempts: 0 .. MaxAttempts,
         lease: LeaseId, leaseLeft: 0 .. LeaseSeconds, waitLeft: 0 .. Backoff]

Unstored(status) == [status |-> status, attempts |-> 0, lease |-> NoLease,
                     leaseLeft |-> 0, waitLeft |-> 0]

Absent == Unstored("ABSENT")   \* not enqueued yet

Lost == Unstored("LOST")       \* went with the process that held it

\* What distinguishes two reports: which lease they are for and what they say.
Report == [delivery: Delivery, lease: LeaseId, status: ActionStatus]

Stored == {d \in Delivery : items[d].status \in DeliveryStatus}

Terminal(d) == items[d].status \in TerminalStatus

Active(p) == {d \in Stored : ProviderOf[d] = p /\ ~Terminal(d)}

\* Mutant: an expired lease is never due again.
NeverReclaimed(d) == items[d].waitLeft = 0 /\ items[d].status = "PENDING"

IsDeliveryDue(d) ==
    /\ items[d].waitLeft = 0
    /\ \/ items[d].status = "PENDING"
       \/ items[d].status = "LEASED" /\ items[d].leaseLeft = 0

-----------------------------------------------------------------------------
DepthExceeded(p) == Cardinality(Active(p)) >= MaxDepth

\* A repeated key returns the stored envelope and a full provider is refused;
\* neither changes the store.
Enqueue(d) ==
    /\ items[d].status = "ABSENT"
    /\ \A e \in Stored : KeyOf[e] # KeyOf[d]
    /\ ~DepthExceeded(ProviderOf[d])
    /\ items' = [items EXCEPT ![d] = Unstored("PENDING")]
    /\ UNCHANGED <<reports, leaseCounter, granted>>

-----------------------------------------------------------------------------
Exhausted(d) == items[d].attempts >= MaxAttempts

Due(p) == {d \in Stored : ProviderOf[d] = p /\ IsDeliveryDue(d)}

\* The items leased before the scan, in (created_at, delivery_id) order, gets to d.
LeasedBefore(p, d) == {e \in Due(p) : e < d /\ ~Exhausted(e)}

\* The scan stops once max_items are leased; an exhausted item does not count.
Scanned(p, maxItems) ==
    {d \in Due(p) : Cardinality(LeasedBefore(p, d)) < maxItems}

LeaseItemId(p, d) ==
    IF Durable THEN <<d, items[d].attempts + 1>>
    ELSE <<0, leaseCounter + Cardinality(LeasedBefore(p, d)) + 1>>

FailExhaustedDelivery(item) ==
    [item EXCEPT !.status = "FAILED_PERMANENT", !.lease = NoLease, !.leaseLeft = 0]

\* Mutant: taking an expired lease over costs no attempt.
FreeTakeover(item, lease) ==
    [item EXCEPT !.status = "LEASED", !.lease = lease, !.leaseLeft = LeaseSeconds,
                 !.attempts = IF item.status = "LEASED" THEN @ ELSE @ + 1]

LeaseDelivery(item, lease) ==
    [item EXCEPT !.status = "LEASED", !.attempts = @ + 1, !.lease = lease,
                 !.leaseLeft = LeaseSeconds]

LeaseItem(p, d) ==
    IF Exhausted(d) THEN FailExhaustedDelivery(items[d])
    ELSE LeaseDelivery(items[d], LeaseItemId(p, d))

LeaseDue(p, maxItems) ==
    LET scanned == Scanned(p, maxItems)
        leased  == {d \in scanned : ~Exhausted(d)}
    IN  /\ scanned # {}
        /\ items' = [d \in Delivery |->
                        IF d \in scanned THEN LeaseItem(p, d) ELSE items[d]]
        /\ granted' = granted \cup {<<d, LeaseItemId(p, d)>> : d \in leased}
        /\ leaseCounter' = IF Durable THEN leaseCounter
                           ELSE leaseCounter + Cardinality(leased)
        /\ UNCHANGED reports

-----------------------------------------------------------------------------
Idempotent(r) == r \in reports

Conflict(r) ==
    \E q \in reports : q.delivery = r.delivery /\ q.lease = r.lease /\ q # r

\* Mutant: any lease of a stored delivery is good enough.
AnyLeaseReportable(r) == items[r.delivery].status \in DeliveryStatus

\* Only the status and the lease are checked: a late report on a lease that has
\* expired but was not given out again is accepted.
ReportableLease(r) ==
    /\ items[r.delivery].status = "LEASED"
    /\ items[r.delivery].lease = r.lease

Cleared(item, status, wait) ==
    [item EXCEPT !.status = status, !.lease = NoLease, !.leaseLeft = 0,
                 !.waitLeft = wait]

CompleteDelivery(item, status) == Cleared(item, status, item.waitLeft)

ReleaseDelivery(item) ==
    IF item.attempts >= MaxAttempts
    THEN Cleared(item, "FAILED_PERMANENT", item.waitLeft)
    ELSE Cleared(item, "PENDING", Backoff)

Record(r, item) ==
    /\ ~Idempotent(r)
    /\ ~Conflict(r)
    /\ ReportableLease(r)
    /\ items' = [items EXCEPT ![r.delivery] = item]
    /\ reports' = reports \cup {r}
    /\ UNCHANGED <<leaseCounter, granted>>

Complete(r) ==
    /\ r.status # "FAILED"
    /\ Record(r, CompleteDelivery(items[r.delivery], r.status))

Release(r) ==
    /\ r.status = "FAILED"
    /\ Record(r, ReleaseDelivery(items[r.delivery]))

-----------------------------------------------------------------------------
Countdown(n) == IF n = 0 THEN 0 ELSE n - 1

Ticking == {d \in Stored : items[d].leaseLeft > 0 \/ items[d].waitLeft > 0}

Tick ==
    /\ Ticking # {}
    /\ items' = [d \in Delivery |->
                    [items[d] EXCEPT !.leaseLeft = Countdown(@),
                                     !.waitLeft = Countdown(@)]]
    /\ UNCHANGED <<reports, leaseCounter, granted>>

\* A process that starts again opens the SQLite file, or has an empty store.  An
\* id carries the time of the scheduler run that made it, so a lost one is never
\* used again, and reports of its leases are refused (delivery_not_found).
Restart ==
    IF Durable THEN UNCHANGED outboxVars
    ELSE /\ items' = [d \in Delivery |-> IF d \in Stored THEN Lost ELSE items[d]]
         /\ reports' = {}
         /\ leaseCounter' = 0
         /\ granted' = {}

OutboxInit ==
    /\ items = [d \in Delivery |-> Absent]
    /\ reports = {}
    /\ leaseCounter = 0
    /\ granted = {}

\* A client reports only leases it was handed, in any order and any number of times.
Reportable == {[delivery |-> g[1], lease |-> g[2], status |-> s] :
                  g \in granted, s \in ActionStatus}

OutboxNext ==
    \/ \E d \in Delivery : Enqueue(d)
    \/ \E p \in Provider, n \in PollSizes : LeaseDue(p, n)
    \/ \E r \in Reportable : Complete(r) \/ Release(r)
    \/ Tick
    \/ Restart

OutboxSpec == OutboxInit /\ [][OutboxNext]_outboxVars

-----------------------------------------------------------------------------
(***************************************************************************)
(* Properties.                                                             *)
(***************************************************************************)

\* Types of the outbox state; a lease is set exactly while the item is LEASED.
OutboxTypeOK ==
    /\ items \in [Delivery -> Item]
    /\ reports \subseteq Report
    /\ leaseCounter \in Nat
    /\ granted \subseteq Delivery \X LeaseId
    /\ \A d \in Delivery : items[d].status = "LEASED" <=> items[d].lease # NoLease

\* enqueue is idempotent: two stored deliveries never share an idempotency key,
\* whatever became of the first one before the key came again.
OneDeliveryPerKey ==
    \A d, e \in Stored : KeyOf[d] = KeyOf[e] => d = e

\* max_depth_per_provider bounds the unfinished deliveries of a provider at all
\* times: no lease, retry or expiry brings a delivery back over the limit.
DepthBounded ==
    \A p \in Provider : Cardinality(Active(p)) <= MaxDepth

GrantsOf(d) == {g \in granted : g[1] = d}

\* Every time a client is told to perform a delivery costs one attempt, crashed
\* clients and lost poll responses included: an external send happens at most
\* max_attempts times per delivery.
EveryHandoutCounted ==
    \A d \in Stored : /\ Cardinality(GrantsOf(d)) = items[d].attempts
                      /\ Cardinality(GrantsOf(d)) <= MaxAttempts

\* The lease a client holds now has no report on record, so the client's result
\* is neither swallowed as a repetition nor refused as a conflict.
CurrentLeaseUnreported ==
    \A d \in Stored, r \in reports :
        items[d].status = "LEASED" /\ r.delivery = d => r.lease # items[d].lease

\* A delivery has at most one recorded report per lease, and at most one of all
\* its reports says anything but FAILED: late and repeated reports of old leases
\* never add a second outcome.
OneOutcomePerDelivery ==
    \A q, r \in reports :
        q.delivery = r.delivery /\ q # r =>
            /\ q.lease # r.lease
            /\ q.status = "FAILED" \/ r.status = "FAILED"

\* A delivery ends as a client reported it, and fails permanently only after
\* max_attempts handouts none of which was reported as performed.
OutcomeIsReported ==
    \A d \in Stored :
        /\ items[d].status \in ActionStatus =>
              \E r \in reports : r.delivery = d /\ r.status = items[d].status
        /\ \A r \in reports :
              r.delivery = d /\ r.status # "FAILED" => items[d].status = r.status
        /\ items[d].status = "FAILED_PERMANENT" => items[d].attempts = MaxAttempts

\* A delivery waiting to be handed out again has attempts left: none is parked
\* as PENDING with its attempts used up.
PendingCanBeHandedOut ==
    \A d \in Stored : items[d].status = "PENDING" => items[d].attempts < MaxAttempts

\* What enqueue, lease_due, complete and release keep true together, however
\* crashed clients, late and conflicting reports, expiries and repeated keys
\* fall: one delivery per key, a bounded depth, every handout counted, a current
\* lease that can be reported, and one outcome, which a client reported.
OutboxSound ==
    /\ OneDeliveryPerKey
    /\ DepthBounded
    /\ EveryHandoutCounted
    /\ CurrentLeaseUnreported
    /\ OneOutcomePerDelivery
    /\ OutcomeIsReported

\* Where the lease ids of a delivery come from: SQLite numbers them by attempt, the
\* in-memory backend by a process-wide counter.  Every lease in circulation, on
\* record or current, was handed out under a number already used up.
LeaseIdsUsedUp ==
    /\ \A g \in granted :
          /\ g[1] \in Stored
          /\ IF Durable THEN g[2] \in {<<g[1], n>> : n \in 1 .. items[g[1]].attempts}
             ELSE g[2] \in {<<0, n>> : n \in 1 .. leaseCounter}
    /\ \A r \in reports : <<r.delivery, r.lease>> \in granted
    /\ \A d \in Delivery : items[d].status = "LEASED" => <<d, items[d].lease>> \in granted

Contract == INSTANCE DeliveryContract
                WITH state <- [d \in Delivery |-> items[d].status],
                     sends <- [d \in Delivery |-> items[d].attempts]

\* Both backends implement the delivery state machine: terminal states are never
\* left, and only a LEASED delivery is settled.
ImplementsContract == Contract!ContractSpec

\* A provider's clients keep polling, and time passes.
OutboxFairness ==
    /\ \A p \in Provider : WF_outboxVars(\E n \in PollSizes : LeaseDue(p, n))
    /\ WF_outboxVars(Tick)

FairOutboxSpec == OutboxSpec /\ OutboxFairness

\* Every delivery that is enqueued settles (or goes with the process), even when
\* no client ever reports: expired leases use up the attempts.
EveryDeliverySettles ==
    \A d \in Delivery :
        items[d].status = "PENDING" ~> items[d].status \in TerminalStatus \cup {"LOST"}
=============================================================================

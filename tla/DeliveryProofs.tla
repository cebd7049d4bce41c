--------------------------- MODULE DeliveryProofs ---------------------------
(***************************************************************************)
(* The outbox is correct for any set of deliveries, providers, limits and  *)
(* either backend, and the broker for any number of report handlers.       *)
(***************************************************************************)
EXTENDS DeliveryBroker, FiniteSetTheorems, TLAPS

USE OutboxAssumption

-----------------------------------------------------------------------------
(***************************************************************************)
(* Type correctness.                                                       *)
(***************************************************************************)
LEMMA StatusesDiffer ==
    /\ TerminalStatus \subseteq DeliveryStatus
    /\ "PENDING" \notin TerminalStatus
    /\ "LEASED" \notin TerminalStatus
    /\ NoLease \in LeaseId
  BY DEF TerminalStatus, DeliveryStatus, NoLease, LeaseId

LEMMA LeaseItemIdType ==
    ASSUME OutboxTypeOK, NEW p, NEW d \in Delivery
    PROVE  /\ LeaseItemId(p, d) \in LeaseId
           /\ LeaseItemId(p, d) # NoLease
  <1>1. IsFiniteSet(LeasedBefore(p, d))
    BY FS_Subset DEF LeasedBefore, Due, Stored
  <1>2. Cardinality(LeasedBefore(p, d)) \in Nat
    BY <1>1, FS_CardinalityType
  <1>3. items[d].attempts \in Nat
    BY DEF OutboxTypeOK, Item
  <1> QED
    BY <1>2, <1>3 DEF LeaseItemId, LeaseId, NoLease, OutboxTypeOK

LEMMA InitTypeOK == OutboxInit => OutboxTypeOK
  BY DEF OutboxInit, OutboxTypeOK, Absent, Unstored, Item, LeaseId, NoLease

LEMMA EnqueueTypeOK ==
    ASSUME OutboxTypeOK, NEW d \in Delivery, Enqueue(d)
    PROVE  OutboxTypeOK'
  <1>1. Unstored("PENDING") \in Item
    BY DEF Unstored, Item, DeliveryStatus, NoLease, LeaseId
  <1>2. items' = [items EXCEPT ![d] = Unstored("PENDING")]
    BY DEF Enqueue
  <1>3. Unstored("PENDING").status = "PENDING" /\ Unstored("PENDING").lease = NoLease
    BY DEF Unstored
  <1> QED
    BY <1>1, <1>2, <1>3 DEF Enqueue, OutboxTypeOK

\* The transition functions return envelopes, with a lease exactly when LEASED.
LEMMA FailExhaustedType ==
    ASSUME NEW i \in Item
    PROVE  LET j == FailExhaustedDelivery(i)
           IN  /\ j \in Item
               /\ j.status = "FAILED_PERMANENT" /\ j.lease = NoLease
               /\ j.attempts = i.attempts
  <1>1. 0 \in 0 .. LeaseSeconds /\ "FAILED_PERMANENT" \in DeliveryStatus
    BY DEF DeliveryStatus, TerminalStatus
  <1> QED
    BY Zenon, <1>1, StatusesDiffer DEF FailExhaustedDelivery, Item

LEMMA LeaseDeliveryType ==
    ASSUME NEW i \in Item, NEW l \in LeaseId, i.attempts < MaxAttempts
    PROVE  LET j == LeaseDelivery(i, l)
           IN  /\ j \in Item
               /\ j.status = "LEASED" /\ j.lease = l
               /\ j.attempts = i.attempts + 1
  <1>1. i.attempts + 1 \in 0 .. MaxAttempts /\ LeaseSeconds \in 0 .. LeaseSeconds
    BY DEF Item
  <1>2. "LEASED" \in DeliveryStatus
    BY DEF DeliveryStatus
  <1> QED
    BY Zenon, <1>1, <1>2 DEF LeaseDelivery, Item

LEMMA ClearedType ==
    ASSUME NEW i \in Item, NEW s \in DeliveryStatus, NEW w \in 0 .. Backoff
    PROVE  LET j == Cleared(i, s, w)
           IN  /\ j \in Item
               /\ j.status = s /\ j.lease = NoLease
               /\ j.attempts = i.attempts
  <1>1. 0 \in 0 .. LeaseSeconds
    OBVIOUS
  <1> QED
    BY Zenon, <1>1, StatusesDiffer DEF Cleared, Item

LEMMA CompleteDeliveryType ==
    ASSUME NEW i \in Item, NEW s \in ActionStatus \ {"FAILED"}
    PROVE  LET j == CompleteDelivery(i, s)
           IN  /\ j \in Item
               /\ j.status = s /\ j.lease = NoLease
               /\ j.attempts = i.attempts
  <1>1. s \in DeliveryStatus /\ i.waitLeft \in 0 .. Backoff
    BY DEF ActionStatus, DeliveryStatus, TerminalStatus, Item
  <1> QED
    BY <1>1, ClearedType DEF CompleteDelivery

LEMMA ReleaseDeliveryType ==
    ASSUME NEW i \in Item
    PROVE  LET j == ReleaseDelivery(i)
           IN  /\ j \in Item
               /\ j.status = IF i.attempts >= MaxAttempts THEN "FAILED_PERMANENT" ELSE "PENDING"
               /\ j.lease = NoLease
               /\ j.attempts = i.attempts
  <1>1. "FAILED_PERMANENT" \in DeliveryStatus /\ "PENDING" \in DeliveryStatus
    BY DEF DeliveryStatus, TerminalStatus
  <1>2. i.waitLeft \in 0 .. Backoff /\ Backoff \in 0 .. Backoff
    BY DEF Item
  <1>3. CASE i.attempts >= MaxAttempts
    BY SMTT(30), <1>1, <1>2, <1>3, ClearedType DEF ReleaseDelivery
  <1>4. CASE ~(i.attempts >= MaxAttempts)
    <2> DEFINE j == Cleared(i, "PENDING", Backoff)
    <2>1. j \in Item /\ j.status = "PENDING" /\ j.lease = NoLease /\ j.attempts = i.attempts
      BY <1>1, <1>2, ClearedType
    <2>2. ReleaseDelivery(i) = j
      BY <1>4 DEF ReleaseDelivery
    <2> HIDE DEF j
    <2> QED
      BY <1>4, <2>1, <2>2
  <1> QED
    BY <1>3, <1>4

LEMMA LeaseDueTypeOK ==
    ASSUME OutboxTypeOK, NEW p \in Provider, NEW n \in PollSizes, LeaseDue(p, n)
    PROVE  OutboxTypeOK'
  <1> DEFINE leased == {d \in Scanned(p, n) : ~Exhausted(d)}
  <1>1. Scanned(p, n) \subseteq Delivery /\ IsFiniteSet(leased)
    BY FS_Subset DEF Scanned, Due, Stored
  <1>2. leaseCounter' \in Nat
    BY <1>1, FS_CardinalityType DEF LeaseDue, OutboxTypeOK
  <1>3. granted' \subseteq Delivery \X LeaseId
    <2>1. \A d \in leased : <<d, LeaseItemId(p, d)>> \in Delivery \X LeaseId
      BY Zenon, <1>1, LeaseItemIdType
    <2>2. granted' = granted \cup {<<d, LeaseItemId(p, d)>> : d \in leased}
      BY DEF LeaseDue
    <2>3. granted \subseteq Delivery \X LeaseId
      BY DEF OutboxTypeOK
    <2> QED
      BY <2>1, <2>2, <2>3
  <1>4. ASSUME NEW d \in Delivery, d \in Scanned(p, n)
        PROVE  /\ LeaseItem(p, d) \in Item
               /\ LeaseItem(p, d).status = "LEASED" <=> LeaseItem(p, d).lease # NoLease
    <2>1. items[d] \in Item
      BY DEF OutboxTypeOK
    <2>2. CASE Exhausted(d)
      BY <2>1, <2>2, FailExhaustedType DEF LeaseItem
    <2>3. CASE ~Exhausted(d)
      <3>1. items[d].attempts < MaxAttempts
        BY <2>1, <2>3 DEF Exhausted, Item
      <3> QED
        BY <2>1, <2>3, <3>1, LeaseItemIdType, LeaseDeliveryType DEF LeaseItem
    <2> QED
      BY <2>2, <2>3
  <1>5. items' = [d \in Delivery |-> IF d \in Scanned(p, n) THEN LeaseItem(p, d) ELSE items[d]]
    BY DEF LeaseDue
  <1> QED
    BY <1>2, <1>3, <1>4, <1>5 DEF LeaseDue, OutboxTypeOK

LEMMA ReportableType ==
    ASSUME OutboxTypeOK, NEW r \in Reportable
    PROVE  /\ r \in Report
           /\ <<r.delivery, r.lease>> \in granted
  BY DEF Reportable, Report, OutboxTypeOK, ActionStatus

LEMMA RecordTypeOK ==
    ASSUME OutboxTypeOK, NEW r \in Reportable, Complete(r) \/ Release(r)
    PROVE  OutboxTypeOK'
  <1>1. r \in Report
    BY Zenon, ReportableType
  <1>2. items[r.delivery] \in Item /\ r.delivery \in Delivery /\ r.status \in ActionStatus
    BY Zenon, <1>1 DEF Report, OutboxTypeOK
  <1>3. PICK i \in Item : Record(r, i) /\ i.status # "LEASED" /\ i.lease = NoLease
    <2>1. CASE Complete(r)
      BY SMTT(30), <1>2, <2>1, CompleteDeliveryType DEF Complete, ActionStatus
    <2>2. CASE Release(r)
      BY <1>2, <2>2, ReleaseDeliveryType DEF Release
    <2> QED
      BY <2>1, <2>2
  <1> QED
    BY <1>1, <1>2, <1>3 DEF Record, OutboxTypeOK

LEMMA TickKeeps ==
    ASSUME OutboxTypeOK, Tick, NEW d \in Delivery
    PROVE  /\ items'[d] \in Item
           /\ items'[d].status = items[d].status
           /\ items'[d].lease = items[d].lease
           /\ items'[d].attempts = items[d].attempts
  <1>1. items[d] \in Item
    BY DEF OutboxTypeOK
  <1>2. items'[d] = [items[d] EXCEPT !.leaseLeft = Countdown(@), !.waitLeft = Countdown(@)]
    BY Zenon DEF Tick
  <1>3. /\ Countdown(items[d].leaseLeft) \in 0 .. LeaseSeconds
        /\ Countdown(items[d].waitLeft) \in 0 .. Backoff
    BY <1>1 DEF Item, Countdown
  <1> QED
    BY Zenon, <1>1, <1>2, <1>3 DEF Item

LEMMA TickTypeOK ==
    ASSUME OutboxTypeOK, Tick
    PROVE  OutboxTypeOK'
  <1>1. items' = [d \in Delivery |-> items'[d]] /\ UNCHANGED <<reports, leaseCounter, granted>>
    BY Zenon DEF Tick
  <1> QED
    BY SMTT(30), <1>1, TickKeeps DEF OutboxTypeOK

LEMMA RestartTypeOK ==
    ASSUME OutboxTypeOK, Restart
    PROVE  OutboxTypeOK'
  BY DEF Restart, outboxVars, OutboxTypeOK, Lost, Unstored, Item, LeaseId, NoLease

LEMMA NextTypeOK ==
    ASSUME OutboxTypeOK, [OutboxNext]_outboxVars
    PROVE  OutboxTypeOK'
  <1>1. CASE OutboxNext
    BY <1>1, EnqueueTypeOK, LeaseDueTypeOK, RecordTypeOK, TickTypeOK, RestartTypeOK
       DEF OutboxNext
  <1>2. CASE UNCHANGED outboxVars
    BY <1>2 DEF outboxVars, OutboxTypeOK
  <1> QED
    BY <1>1, <1>2

\* The outbox state keeps its type: attempts never pass max_attempts, and an item
\* carries a lease exactly while it is LEASED.
THEOREM TypeCorrect == OutboxSpec => []OutboxTypeOK
  <1>1. OutboxInit => OutboxTypeOK
    BY InitTypeOK
  <1>2. OutboxTypeOK /\ [OutboxNext]_outboxVars => OutboxTypeOK'
    BY NextTypeOK
  <1> QED
    BY <1>1, <1>2, PTL DEF OutboxSpec

-----------------------------------------------------------------------------
(***************************************************************************)
(* Reports and outcomes.  That the current lease has no report on record   *)
(* rests on lease ids never coming twice, which rests on where the         *)
(* backends take them from: attempts, or the process-wide counter.         *)
(***************************************************************************)
OutboxInv ==
    /\ OutboxTypeOK
    /\ LeaseIdsUsedUp
    /\ CurrentLeaseUnreported
    /\ OneOutcomePerDelivery
    /\ OutcomeIsReported
    /\ PendingCanBeHandedOut

LEMMA InitInv == OutboxInit => OutboxInv
  <1> SUFFICES ASSUME OutboxInit PROVE OutboxInv
    OBVIOUS
  <1>1. Stored = {}
    BY DEF OutboxInit, Stored, Absent, Unstored, DeliveryStatus, TerminalStatus
  <1>2. \A d \in Delivery : items[d].status # "LEASED"
    BY DEF OutboxInit, Absent, Unstored
  <1> QED
    BY <1>1, <1>2, InitTypeOK
       DEF OutboxInit, OutboxInv, LeaseIdsUsedUp, CurrentLeaseUnreported,
           OneOutcomePerDelivery, OutcomeIsReported, PendingCanBeHandedOut

LEMMA StoredLeased ==
    ASSUME NEW d \in Delivery, items[d].status \in {"PENDING", "LEASED"}
    PROVE  d \in Stored
  BY DEF Stored, DeliveryStatus

LEMMA EnqueueInv ==
    ASSUME OutboxInv, NEW d \in Delivery, Enqueue(d)
    PROVE  OutboxInv'
  <1>1. OutboxTypeOK /\ OutboxTypeOK'
    BY EnqueueTypeOK DEF OutboxInv
  <1>2. d \notin Stored
    BY DEF Enqueue, Stored, DeliveryStatus, TerminalStatus
  <1>3. /\ items'[d].status = "PENDING" /\ items'[d].attempts = 0
        /\ \A e \in Delivery \ {d} : items'[e] = items[e]
        /\ UNCHANGED <<reports, leaseCounter, granted>>
    BY <1>1 DEF Enqueue, Unstored, OutboxTypeOK
  <1>4. Stored' = Stored \cup {d}
    BY Zenon, <1>3 DEF Stored, DeliveryStatus
  <1>5. \A r \in reports : r.delivery \in Stored
    BY Zenon, <1>1 DEF OutboxInv, LeaseIdsUsedUp, OutboxTypeOK, Report
  <1>6. LeaseIdsUsedUp'
    BY Zenon, <1>1, <1>2, <1>3, <1>4 DEF OutboxInv, LeaseIdsUsedUp, Stored
  <1>7. CurrentLeaseUnreported' /\ OneOutcomePerDelivery'
    BY <1>2, <1>3, <1>4, <1>5 DEF OutboxInv, CurrentLeaseUnreported, OneOutcomePerDelivery, Stored
  <1>8. OutcomeIsReported'
    BY <1>2, <1>3, <1>4, <1>5 DEF OutboxInv, OutcomeIsReported, ActionStatus, Stored
  <1>9. PendingCanBeHandedOut'
    <2>1. items'[d].attempts < MaxAttempts
      BY <1>3
    <2> QED
      BY Zenon, <1>3, <1>4, <2>1 DEF OutboxInv, PendingCanBeHandedOut, Stored
  <1> QED
    BY <1>1, <1>6, <1>7, <1>8, <1>9 DEF OutboxInv

\* A lease the outbox is about to hand out was never handed out before.
LEMMA FreshLease ==
    ASSUME OutboxInv, NEW p, NEW d \in Delivery
    PROVE  <<d, LeaseItemId(p, d)>> \notin granted
  <1> SUFFICES ASSUME <<d, LeaseItemId(p, d)>> \in granted
               PROVE  FALSE
    OBVIOUS
  <1>1. items[d].attempts \in Nat /\ leaseCounter \in Nat
    BY DEF OutboxInv, OutboxTypeOK, Item
  <1>2. CASE Durable
    <2>1. PICK n \in 1 .. items[d].attempts : LeaseItemId(p, d) = <<d, n>>
      BY <1>2 DEF OutboxInv, LeaseIdsUsedUp
    <2> QED
      BY <1>1, <1>2, <2>1 DEF LeaseItemId
  <1>3. CASE ~Durable
    <2>1. PICK n \in 1 .. leaseCounter : LeaseItemId(p, d) = <<0, n>>
      BY <1>3 DEF OutboxInv, LeaseIdsUsedUp
    <2>2. Cardinality(LeasedBefore(p, d)) \in Nat
      BY FS_Subset, FS_CardinalityType DEF LeasedBefore, Due, Stored
    <2> QED
      BY <1>1, <1>3, <2>1, <2>2 DEF LeaseItemId
  <1> QED
    BY <1>2, <1>3

\* The scan numbers its leases within the range the counter then covers.
LEMMA ScanNumbers ==
    ASSUME NEW p, NEW n \in Nat, NEW d \in Scanned(p, n), ~Exhausted(d)
    PROVE  LET leased == {e \in Scanned(p, n) : ~Exhausted(e)}
           IN  /\ Cardinality(LeasedBefore(p, d)) \in Nat
               /\ Cardinality(leased) \in Nat
               /\ Cardinality(LeasedBefore(p, d)) + 1 <= Cardinality(leased)
  <1> DEFINE leased == {e \in Scanned(p, n) : ~Exhausted(e)}
             before == LeasedBefore(p, d)
  <1>0. Delivery \subseteq Nat
    OBVIOUS
  <1>1. Due(p) \subseteq Delivery /\ d \in Due(p)
    BY DEF Due, Stored, Scanned
  <1>2. IsFiniteSet(before) /\ IsFiniteSet(leased)
    BY Zenon, <1>1, FS_Subset DEF LeasedBefore, Scanned
  <1>3. before \subseteq leased
    <2> SUFFICES ASSUME NEW e \in before PROVE e \in leased
      OBVIOUS
    <2>1. e \in Due(p) /\ e < d /\ ~Exhausted(e)
      BY DEF LeasedBefore
    <2>2. LeasedBefore(p, e) \subseteq before
      <3>1. d \in Nat /\ e \in Nat /\ \A f \in Due(p) : f \in Nat
        BY Zenon, <1>0, <1>1, <2>1
      <3>2. \A f \in Due(p) : f < e => f < d
        BY <2>1, <3>1
      <3> QED
        BY <3>2 DEF LeasedBefore
    <2>3. /\ Cardinality(LeasedBefore(p, e)) <= Cardinality(before)
          /\ Cardinality(LeasedBefore(p, e)) \in Nat
          /\ Cardinality(before) \in Nat
      BY <1>2, <2>2, FS_Subset, FS_CardinalityType
    <2>4. Cardinality(before) < n
      BY DEF Scanned
    <2> QED
      BY <2>1, <2>3, <2>4 DEF Scanned
  <1>4. d \notin before /\ d \in leased
    <2>0. d \in Nat
      BY Zenon, <1>0, <1>1
    <2>1. ~(d < d)
      BY <2>0
    <2> QED
      BY <2>1 DEF LeasedBefore
  <1>5. Cardinality(before \cup {d}) = Cardinality(before) + 1
    BY Zenon, <1>2, <1>4, FS_AddElement
  <1>6. Cardinality(before \cup {d}) <= Cardinality(leased)
    BY <1>2, <1>3, <1>4, FS_Subset
  <1>7. Cardinality(before) \in Nat /\ Cardinality(leased) \in Nat
    BY <1>2, FS_CardinalityType
  <1> QED
    BY <1>5, <1>6, <1>7

LEMMA LeaseDueInv ==
    ASSUME OutboxInv, NEW p \in Provider, NEW n \in PollSizes, LeaseDue(p, n)
    PROVE  OutboxInv'
  <1> DEFINE scanned == Scanned(p, n)
             leased == {d \in scanned : ~Exhausted(d)}
  <1>0. n \in Nat
    OBVIOUS
  <1>1. OutboxTypeOK /\ OutboxTypeOK'
    BY LeaseDueTypeOK DEF OutboxInv
  <1>2. scanned \subseteq Stored
    BY DEF Scanned, Due
  <1>3. /\ \A d \in Delivery \ scanned : items'[d] = items[d]
        /\ \A d \in scanned \ leased :
               /\ items'[d].status = "FAILED_PERMANENT"
               /\ items'[d].attempts = items[d].attempts
        /\ \A d \in leased :
               /\ items'[d].status = "LEASED"
               /\ items'[d].lease = LeaseItemId(p, d)
               /\ items'[d].attempts = items[d].attempts + 1
    <2>1. items' = [d \in Delivery |-> IF d \in scanned THEN LeaseItem(p, d) ELSE items[d]]
      BY DEF LeaseDue
    <2>2. ASSUME NEW d \in scanned \ leased
          PROVE  /\ LeaseItem(p, d).status = "FAILED_PERMANENT"
                 /\ LeaseItem(p, d).attempts = items[d].attempts
      BY Zenon, <1>1, <1>2, FailExhaustedType DEF LeaseItem, OutboxTypeOK, Stored
    <2>3. ASSUME NEW d \in leased
          PROVE  /\ LeaseItem(p, d).status = "LEASED"
                 /\ LeaseItem(p, d).lease = LeaseItemId(p, d)
                 /\ LeaseItem(p, d).attempts = items[d].attempts + 1
      <3>1. d \in Delivery /\ items[d] \in Item
        BY Zenon, <1>1, <1>2 DEF OutboxTypeOK, Stored
      <3>2. items[d].attempts < MaxAttempts
        BY <3>1 DEF Exhausted, Item
      <3>3. LeaseItemId(p, d) \in LeaseId
        BY <1>1, <3>1, LeaseItemIdType
      <3> QED
        BY <3>1, <3>2, <3>3, LeaseDeliveryType DEF LeaseItem
    <2> QED
      BY <1>2, <2>1, <2>2, <2>3 DEF Stored
  <1>4. /\ granted' = granted \cup {<<d, LeaseItemId(p, d)>> : d \in leased}
        /\ reports' = reports
        /\ leaseCounter' = IF Durable THEN leaseCounter
                           ELSE leaseCounter + Cardinality(leased)
    BY DEF LeaseDue
  <1>5. Stored' = Stored
    BY Zenon, <1>2, <1>3 DEF Stored, DeliveryStatus, TerminalStatus
  <1>6. \A d \in Delivery : items[d].attempts \in Nat /\ items'[d].attempts \in Nat
    BY <1>1 DEF OutboxTypeOK, Item
  <1>7. \A d \in scanned : items[d].status \in {"PENDING", "LEASED"}
    BY DEF Scanned, Due, IsDeliveryDue
  <1>8. \A d \in Delivery : items[d].attempts <= items'[d].attempts
    BY <1>2, <1>3, <1>6
  <1> HIDE DEF scanned, leased
  <1>9. LeaseIdsUsedUp'
    <2>1. ASSUME NEW g \in granted
          PROVE  /\ g[1] \in Stored'
                 /\ IF Durable THEN g[2] \in {<<g[1], k>> : k \in 1 .. items'[g[1]].attempts}
                    ELSE g[2] \in {<<0, k>> : k \in 1 .. leaseCounter'}
      <3>1. g[1] \in Stored /\ g[1] \in Delivery
        BY DEF OutboxInv, LeaseIdsUsedUp, Stored
      <3>2. CASE Durable
        <4>1. PICK k \in 1 .. items[g[1]].attempts : g[2] = <<g[1], k>>
          BY <3>2 DEF OutboxInv, LeaseIdsUsedUp
        <4>2. k \in 1 .. items'[g[1]].attempts
          <5>1. /\ items[g[1]].attempts \in Nat /\ items'[g[1]].attempts \in Nat
                /\ items[g[1]].attempts <= items'[g[1]].attempts
            BY Zenon, <1>6, <1>8, <3>1
          <5> QED
            BY <5>1
        <4> QED
          BY <1>5, <3>1, <3>2, <4>1, <4>2
      <3>3. CASE ~Durable
        <4>1. PICK k \in 1 .. leaseCounter : g[2] = <<0, k>>
          BY <3>3 DEF OutboxInv, LeaseIdsUsedUp
        <4>2. Cardinality(leased) \in Nat
          BY Zenon, <1>2, FS_Subset, FS_CardinalityType DEF leased, Stored
        <4>3. k \in 1 .. leaseCounter'
          BY <1>1, <1>4, <3>3, <4>2 DEF OutboxTypeOK
        <4> QED
          BY <1>5, <3>1, <3>3, <4>1, <4>3
      <3> QED
        BY <3>2, <3>3
    <2>2. ASSUME NEW d \in leased
          PROVE  /\ d \in Stored'
                 /\ IF Durable
                    THEN LeaseItemId(p, d) \in {<<d, k>> : k \in 1 .. items'[d].attempts}
                    ELSE LeaseItemId(p, d) \in {<<0, k>> : k \in 1 .. leaseCounter'}
      <3>1. d \in Stored /\ d \in Delivery
        BY <1>2 DEF leased, Stored
      <3>2. CASE Durable
        <4>1. LeaseItemId(p, d) = <<d, items'[d].attempts>>
          BY <1>3, <3>2 DEF LeaseItemId
        <4>2. items'[d].attempts \in 1 .. items'[d].attempts
          <5>1. items[d].attempts \in Nat /\ items'[d].attempts = items[d].attempts + 1
            BY Zenon, <1>3, <1>6, <3>1
          <5> QED
            BY <5>1
        <4> QED
          BY <1>5, <3>1, <3>2, <4>1, <4>2
      <3>3. CASE ~Durable
        <4> DEFINE k == leaseCounter + Cardinality(LeasedBefore(p, d)) + 1
        <4>1. LeaseItemId(p, d) = <<0, k>>
          BY <3>3 DEF LeaseItemId
        <4>2. k \in 1 .. leaseCounter'
          BY <1>0, <1>1, <1>4, <3>3, ScanNumbers DEF OutboxTypeOK, leased, scanned
        <4> QED
          BY <1>5, <3>1, <3>3, <4>1, <4>2
      <3> QED
        BY <3>2, <3>3
    <2>3. \A d \in Delivery : items'[d].status = "LEASED" => <<d, items'[d].lease>> \in granted'
      BY <1>3, <1>4 DEF OutboxInv, LeaseIdsUsedUp
    <2>4. \A r \in reports' : <<r.delivery, r.lease>> \in granted'
      BY Zenon, <1>4 DEF OutboxInv, LeaseIdsUsedUp
    <2>5. ASSUME NEW g \in granted'
          PROVE  /\ g[1] \in Stored'
                 /\ IF Durable THEN g[2] \in {<<g[1], k>> : k \in 1 .. items'[g[1]].attempts}
                    ELSE g[2] \in {<<0, k>> : k \in 1 .. leaseCounter'}
      <3>1. CASE g \in granted
        BY <2>1, <3>1
      <3>2. CASE g \notin granted
        <4>1. PICK d \in leased : g = <<d, LeaseItemId(p, d)>>
          BY <1>4, <3>2
        <4> QED
          BY <2>2, <4>1
      <3> QED
        BY <3>1, <3>2
    <2> QED
      BY <2>3, <2>4, <2>5 DEF LeaseIdsUsedUp
  <1>10. CurrentLeaseUnreported'
    <2> SUFFICES ASSUME NEW d \in Stored, NEW r \in reports,
                        items'[d].status = "LEASED", r.delivery = d
                 PROVE  r.lease # items'[d].lease
      BY <1>4, <1>5 DEF CurrentLeaseUnreported
    <2>1. <<d, r.lease>> \in granted
      BY DEF OutboxInv, LeaseIdsUsedUp
    <2>2. CASE d \in leased
      BY <1>2, <1>3, <2>1, <2>2, FreshLease DEF leased, Stored
    <2>3. CASE d \notin leased
      <3>1. d \in Delivery \ scanned
        BY <1>3, <2>3 DEF Stored
      <3> QED
        BY <1>3, <3>1 DEF OutboxInv, CurrentLeaseUnreported
    <2> QED
      BY <2>2, <2>3
  <1>11. OneOutcomePerDelivery'
    BY <1>4 DEF OutboxInv, OneOutcomePerDelivery
  <1>12. OutcomeIsReported'
    <2> SUFFICES ASSUME NEW d \in Stored
                 PROVE  /\ items'[d].status \in ActionStatus =>
                             \E r \in reports : r.delivery = d /\ r.status = items'[d].status
                        /\ \A r \in reports :
                              r.delivery = d /\ r.status # "FAILED" => items'[d].status = r.status
                        /\ items'[d].status = "FAILED_PERMANENT" =>
                              items'[d].attempts = MaxAttempts
      BY <1>4, <1>5 DEF OutcomeIsReported
    <2>1. CASE d \notin scanned
      BY <1>3, <2>1 DEF OutboxInv, OutcomeIsReported, Stored
    <2>2. CASE d \in scanned
      <3>1. items'[d].status \notin ActionStatus
        BY <1>3, <2>2 DEF ActionStatus
      <3>2. \A r \in reports : r.delivery = d => r.status = "FAILED"
        BY <1>1, <1>7, <2>2 DEF OutboxInv, OutcomeIsReported, OutboxTypeOK, Report, ActionStatus
      <3>3. items'[d].status = "FAILED_PERMANENT" => items'[d].attempts = MaxAttempts
        <4>1. d \in leased \/ Exhausted(d)
          BY <2>2 DEF leased
        <4>2. Exhausted(d) => items[d].attempts = MaxAttempts
          BY <1>1 DEF Exhausted, OutboxTypeOK, Item, Stored
        <4> QED
          BY <1>3, <2>2, <4>1, <4>2
      <3> QED
        BY <3>1, <3>2, <3>3
    <2> QED
      BY <2>1, <2>2
  <1>13. PendingCanBeHandedOut'
    BY Zenon, <1>3, <1>5 DEF OutboxInv, PendingCanBeHandedOut, Stored
  <1> QED
    BY <1>1, <1>9, <1>10, <1>11, <1>12, <1>13 DEF OutboxInv

LEMMA RecordInv ==
    ASSUME OutboxInv, NEW r \in Reportable, Complete(r) \/ Release(r)
    PROVE  OutboxInv'
  <1>1. OutboxTypeOK /\ OutboxTypeOK'
    BY RecordTypeOK DEF OutboxInv
  <1>2. /\ r \in Report /\ r.delivery \in Delivery /\ r.status \in ActionStatus
        /\ <<r.delivery, r.lease>> \in granted
        /\ items[r.delivery] \in Item
    BY <1>1, ReportableType DEF Report, OutboxTypeOK
  <1> DEFINE d == r.delivery
  <1>3. PICK i \in Item :
           /\ Record(r, i)
           /\ i.attempts = items[d].attempts
           /\ i.status = IF r.status # "FAILED" THEN r.status
                         ELSE IF items[d].attempts >= MaxAttempts THEN "FAILED_PERMANENT"
                         ELSE "PENDING"
    <2>1. CASE Complete(r)
      <3>1. r.status \in ActionStatus \ {"FAILED"}
        BY <1>2, <2>1 DEF Complete
      <3> QED
        BY <1>2, <2>1, <3>1, CompleteDeliveryType DEF Complete
    <2>2. CASE Release(r)
      BY <1>2, <2>2, ReleaseDeliveryType DEF Release
    <2> QED
      BY <2>1, <2>2
  <1>4. items[d].status = "LEASED" /\ items[d].lease = r.lease /\ d \in Stored
    BY Zenon, <1>2, <1>3, StoredLeased DEF Record, ReportableLease
  <1>5. /\ items'[d] = i
        /\ \A e \in Delivery \ {d} : items'[e] = items[e]
        /\ reports' = reports \cup {r}
        /\ UNCHANGED <<leaseCounter, granted>>
    BY <1>1, <1>2, <1>3 DEF Record, OutboxTypeOK
  <1>6. Stored' = Stored
    BY <1>2, <1>3, <1>4, <1>5 DEF Stored, DeliveryStatus, TerminalStatus, ActionStatus
  <1>7. i.status # "LEASED"
    BY <1>2, <1>3 DEF ActionStatus
  <1>8. \A e \in Delivery : items'[e].attempts = items[e].attempts
    BY <1>3, <1>5
  <1>9. ASSUME NEW q \in reports, q.delivery = d
        PROVE  q.status = "FAILED" /\ q.lease # r.lease
    <2>1. q.status = "FAILED"
      BY <1>1, <1>4, <1>9 DEF OutboxInv, OutcomeIsReported, OutboxTypeOK, Report, ActionStatus
    <2>2. q.lease # r.lease
      BY <1>4, <1>9 DEF OutboxInv, CurrentLeaseUnreported
    <2> QED
      BY <2>1, <2>2
  <1> HIDE DEF d
  <1>10. LeaseIdsUsedUp'
    <2>1. \A g \in granted : g[1] \in Delivery
      BY DEF OutboxInv, LeaseIdsUsedUp, Stored
    <2>2. ASSUME NEW g \in granted
          PROVE  /\ g[1] \in Stored'
                 /\ IF Durable THEN g[2] \in {<<g[1], k>> : k \in 1 .. items'[g[1]].attempts}
                    ELSE g[2] \in {<<0, k>> : k \in 1 .. leaseCounter'}
      BY Zenon, <1>5, <1>6, <1>8, <2>1 DEF OutboxInv, LeaseIdsUsedUp
    <2>3. \A e \in Delivery : items'[e].status = "LEASED" => <<e, items'[e].lease>> \in granted'
      BY <1>5, <1>7 DEF OutboxInv, LeaseIdsUsedUp
    <2>4. \A q \in reports' : <<q.delivery, q.lease>> \in granted'
      BY Zenon, <1>2, <1>5 DEF OutboxInv, LeaseIdsUsedUp
    <2> QED
      BY <1>5, <2>2, <2>3, <2>4 DEF LeaseIdsUsedUp
  <1>11. CurrentLeaseUnreported'
    BY Zenon, <1>5, <1>6, <1>7 DEF OutboxInv, CurrentLeaseUnreported, Stored, d
  <1>12. OneOutcomePerDelivery'
    BY <1>5, <1>9 DEF OutboxInv, OneOutcomePerDelivery, d
  <1>13. OutcomeIsReported'
    <2> SUFFICES ASSUME NEW e \in Stored
                 PROVE  /\ items'[e].status \in ActionStatus =>
                             \E q \in reports' : q.delivery = e /\ q.status = items'[e].status
                        /\ \A q \in reports' :
                              q.delivery = e /\ q.status # "FAILED" => items'[e].status = q.status
                        /\ items'[e].status = "FAILED_PERMANENT" =>
                              items'[e].attempts = MaxAttempts
      BY <1>6 DEF OutcomeIsReported
    <2>1. CASE e # d
      BY <1>5, <2>1 DEF OutboxInv, OutcomeIsReported, Stored, d
    <2>2. CASE e = d
      <3>1. items'[e].status \in ActionStatus =>
               \E q \in reports' : q.delivery = e /\ q.status = items'[e].status
        BY <1>3, <1>5, <2>2 DEF ActionStatus, d
      <3>2. \A q \in reports' :
               q.delivery = e /\ q.status # "FAILED" => items'[e].status = q.status
        BY <1>3, <1>5, <1>9, <2>2 DEF d
      <3>3. items'[e].status = "FAILED_PERMANENT" => items'[e].attempts = MaxAttempts
        BY <1>2, <1>3, <1>5, <2>2 DEF ActionStatus, Item, d
      <3> QED
        BY <3>1, <3>2, <3>3
    <2> QED
      BY <2>1, <2>2
  <1>14. PendingCanBeHandedOut'
    <2> SUFFICES ASSUME NEW e \in Stored, items'[e].status = "PENDING"
                 PROVE  items'[e].attempts < MaxAttempts
      BY <1>6 DEF PendingCanBeHandedOut
    <2>1. CASE e # d
      BY <1>5, <2>1 DEF OutboxInv, PendingCanBeHandedOut, Stored
    <2>2. CASE e = d
      BY <1>2, <1>3, <1>5, <2>2 DEF ActionStatus, Item, d
    <2> QED
      BY <2>1, <2>2
  <1> QED
    BY <1>1, <1>10, <1>11, <1>12, <1>13, <1>14 DEF OutboxInv

LEMMA TickInv ==
    ASSUME OutboxInv, Tick
    PROVE  OutboxInv'
  <1>1. OutboxTypeOK /\ OutboxTypeOK'
    BY Zenon, TickTypeOK DEF OutboxInv
  <1>2. /\ \A d \in Delivery : /\ items'[d].status = items[d].status
                              /\ items'[d].lease = items[d].lease
                              /\ items'[d].attempts = items[d].attempts
        /\ UNCHANGED <<reports, leaseCounter, granted>>
    BY Zenon, <1>1, TickKeeps DEF Tick
  <1>3. Stored' = Stored
    BY <1>2 DEF Stored
  <1>4. LeaseIdsUsedUp'
    BY Zenon, <1>2, <1>3 DEF OutboxInv, LeaseIdsUsedUp, Stored
  <1>5. CurrentLeaseUnreported' /\ OneOutcomePerDelivery' /\ PendingCanBeHandedOut'
    BY <1>2, <1>3 DEF OutboxInv, CurrentLeaseUnreported, OneOutcomePerDelivery,
                      PendingCanBeHandedOut, Stored
  <1>6. OutcomeIsReported'
    <2> SUFFICES ASSUME NEW d \in Stored
                 PROVE  /\ items'[d].status \in ActionStatus =>
                              \E r \in reports' : r.delivery = d /\ r.status = items'[d].status
                        /\ \A r \in reports' :
                              r.delivery = d /\ r.status # "FAILED" => items'[d].status = r.status
                        /\ items'[d].status = "FAILED_PERMANENT" => items'[d].attempts = MaxAttempts
      BY <1>3 DEF OutcomeIsReported
    <2>1. /\ items'[d].status = items[d].status
          /\ items'[d].attempts = items[d].attempts
          /\ reports' = reports
      BY <1>2 DEF Stored
    <2>2. /\ items[d].status \in ActionStatus =>
               \E r \in reports : r.delivery = d /\ r.status = items[d].status
          /\ \A r \in reports :
               r.delivery = d /\ r.status # "FAILED" => items[d].status = r.status
          /\ items[d].status = "FAILED_PERMANENT" => items[d].attempts = MaxAttempts
      BY DEF OutboxInv, OutcomeIsReported
    <2> QED
      BY <2>1, <2>2
  <1> QED
    BY <1>1, <1>4, <1>5, <1>6 DEF OutboxInv

\* A restart of the in-memory backend leaves nothing stored.
LEMMA RestartEmpties ==
    ASSUME Restart, ~Durable
    PROVE  /\ Stored' = {}
           /\ \A d \in Delivery : items'[d].status # "LEASED"
           /\ reports' = {} /\ granted' = {}
  <1>1. /\ items' = [d \in Delivery |-> IF d \in Stored THEN Lost ELSE items[d]]
        /\ reports' = {} /\ granted' = {}
    BY DEF Restart
  <1>2. \A d \in Delivery : items'[d].status \notin DeliveryStatus
    BY <1>1 DEF Stored, Lost, Unstored, DeliveryStatus, TerminalStatus
  <1> QED
    BY Zenon, <1>1, <1>2 DEF Stored, DeliveryStatus

LEMMA RestartInv ==
    ASSUME OutboxInv, Restart
    PROVE  OutboxInv'
  <1>1. OutboxTypeOK /\ OutboxTypeOK'
    BY RestartTypeOK DEF OutboxInv
  <1>2. CASE Durable
    <2>1. UNCHANGED outboxVars
      BY <1>2 DEF Restart
    <2> QED
      BY <1>1, <2>1 DEF outboxVars, OutboxInv, LeaseIdsUsedUp, CurrentLeaseUnreported,
                        OneOutcomePerDelivery, OutcomeIsReported, PendingCanBeHandedOut, Stored
  <1>3. CASE ~Durable
    <2> QED
      BY <1>1, <1>3, RestartEmpties DEF OutboxInv, LeaseIdsUsedUp, CurrentLeaseUnreported,
                        OneOutcomePerDelivery, OutcomeIsReported, PendingCanBeHandedOut
  <1> QED
    BY <1>2, <1>3

LEMMA NextInv ==
    ASSUME OutboxInv, [OutboxNext]_outboxVars
    PROVE  OutboxInv'
  <1>1. CASE OutboxNext
    BY Zenon, <1>1, EnqueueInv, LeaseDueInv, RecordInv, TickInv, RestartInv DEF OutboxNext
  <1>2. CASE UNCHANGED outboxVars
    BY <1>2, NextTypeOK
       DEF outboxVars, OutboxInv, LeaseIdsUsedUp, CurrentLeaseUnreported,
           OneOutcomePerDelivery, OutcomeIsReported, PendingCanBeHandedOut, Stored
  <1> QED
    BY <1>1, <1>2

\* The whole inductive invariant.
THEOREM OutboxInvariant == OutboxSpec => []OutboxInv
  <1>1. OutboxInit => OutboxInv
    BY InitInv
  <1>2. OutboxInv /\ [OutboxNext]_outboxVars => OutboxInv'
    BY NextInv
  <1> QED
    BY <1>1, <1>2, PTL DEF OutboxSpec

\* The lease a client holds never has a report on record: its result is neither
\* swallowed as a repetition nor refused as a conflict.
THEOREM LeaseAcceptsItsReport == OutboxSpec => []CurrentLeaseUnreported
  BY OutboxInvariant, PTL DEF OutboxInv

\* No order of late, repeated and conflicting reports gives a delivery two outcomes.
THEOREM SingleOutcome == OutboxSpec => []OneOutcomePerDelivery
  BY OutboxInvariant, PTL DEF OutboxInv

\* A delivery ends as a client reported it, or after max_attempts unperformed handouts.
THEOREM ReportedOutcome == OutboxSpec => []OutcomeIsReported
  BY OutboxInvariant, PTL DEF OutboxInv

\* No delivery waits for a handout it can no longer get.
THEOREM PendingHasAttempts == OutboxSpec => []PendingCanBeHandedOut
  BY OutboxInvariant, PTL DEF OutboxInv

-----------------------------------------------------------------------------
(***************************************************************************)
(* How an operation changes the items, for the results that follow: only   *)
(* enqueue adds a delivery to the store, and no operation revives one that *)
(* has settled.                                                            *)
(***************************************************************************)
LEMMA ItemSteps ==
    ASSUME OutboxInv, [OutboxNext]_outboxVars
    PROVE  \/ \E d \in Delivery : Enqueue(d)
           \/ /\ Stored' \subseteq Stored
              /\ \A p : Active(p)' \subseteq Active(p)
  <1>1. ASSUME NEW p \in Provider, NEW n \in PollSizes, LeaseDue(p, n)
        PROVE  Stored' \subseteq Stored /\ \A q : Active(q)' \subseteq Active(q)
    <2>1. \A d \in Delivery \ Scanned(p, n) : items'[d] = items[d]
      BY <1>1 DEF LeaseDue
    <2>2. \A d \in Scanned(p, n) : d \in Stored /\ ~Terminal(d)
      BY StatusesDiffer DEF Scanned, Due, IsDeliveryDue, Terminal
    <2> QED
      BY Zenon, <2>1, <2>2 DEF Stored, Active, Terminal
  <1>2. ASSUME NEW r \in Reportable, Complete(r) \/ Release(r)
        PROVE  Stored' \subseteq Stored /\ \A q : Active(q)' \subseteq Active(q)
    <2>1. OutboxTypeOK /\ r.delivery \in Delivery /\ items[r.delivery].status = "LEASED"
      BY Zenon, <1>2, ReportableType
         DEF OutboxInv, Complete, Release, Record, ReportableLease, Report
    <2>2. \A d \in Delivery \ {r.delivery} : items'[d] = items[d]
      BY <1>2, <2>1 DEF Complete, Release, Record, OutboxTypeOK
    <2>3. r.delivery \in Stored /\ ~Terminal(r.delivery)
      BY Zenon, <2>1, StoredLeased, StatusesDiffer DEF Terminal
    <2> QED
      BY Zenon, <2>2, <2>3 DEF Stored, Active, Terminal
  <1>3. ASSUME Tick
        PROVE  Stored' \subseteq Stored /\ \A q : Active(q)' \subseteq Active(q)
    BY Zenon, <1>3, TickKeeps DEF OutboxInv, Stored, Active, Terminal
  <1>4. ASSUME Restart
        PROVE  Stored' \subseteq Stored /\ \A q : Active(q)' \subseteq Active(q)
    <2>1. CASE Durable
      BY <1>4, <2>1 DEF Restart, outboxVars, Stored, Active, Terminal
    <2>2. CASE ~Durable
      <3>1. Stored' = {}
        BY <1>4, <2>2, RestartEmpties
      <3> QED
        BY <3>1 DEF Active
    <2> QED
      BY <2>1, <2>2
  <1>5. ASSUME UNCHANGED outboxVars
        PROVE  Stored' \subseteq Stored /\ \A q : Active(q)' \subseteq Active(q)
    BY <1>5 DEF outboxVars, Stored, Active, Terminal
  <1> QED
    BY <1>1, <1>2, <1>3, <1>4, <1>5 DEF OutboxNext

\* enqueue keeps idempotency keys unique among the stored deliveries for ever.
THEOREM KeysUnique == OutboxSpec => []OneDeliveryPerKey
  <1>1. OutboxInit => OneDeliveryPerKey
    BY DEF OutboxInit, OneDeliveryPerKey, Stored, Absent, Unstored, DeliveryStatus, TerminalStatus
  <1>2. OutboxInv /\ OneDeliveryPerKey /\ [OutboxNext]_outboxVars => OneDeliveryPerKey'
    <2> SUFFICES ASSUME OutboxInv, OneDeliveryPerKey, [OutboxNext]_outboxVars
                 PROVE  OneDeliveryPerKey'
      OBVIOUS
    <2>1. CASE Stored' \subseteq Stored
      BY <2>1 DEF OneDeliveryPerKey
    <2>2. ASSUME NEW d \in Delivery, Enqueue(d)
          PROVE  OneDeliveryPerKey'
      <3>1. Stored' \subseteq Stored \cup {d} /\ \A e \in Stored : KeyOf[e] # KeyOf[d]
        BY <2>2 DEF Enqueue, Stored, OutboxInv, OutboxTypeOK
      <3> QED
        BY <3>1 DEF OneDeliveryPerKey
    <2> QED
      BY <2>1, <2>2, ItemSteps
  <1> QED
    BY <1>1, <1>2, OutboxInvariant, PTL DEF OutboxSpec

\* No provider ever has more unfinished deliveries than max_depth_per_provider.
THEOREM DepthStaysBounded == OutboxSpec => []DepthBounded
  <1>0. \A p : IsFiniteSet(Active(p)) /\ Cardinality(Active(p)) \in Nat
    BY FS_Subset, FS_CardinalityType DEF Active, Stored
  <1>1. OutboxInit => DepthBounded
    <2> SUFFICES ASSUME OutboxInit, NEW p \in Provider
                 PROVE  Cardinality(Active(p)) <= MaxDepth
      BY DEF DepthBounded
    <2>1. Active(p) = {}
      BY DEF OutboxInit, Active, Stored, Absent, Unstored, DeliveryStatus, TerminalStatus
    <2> QED
      BY <2>1, FS_EmptySet
  <1>2. OutboxInv /\ DepthBounded /\ [OutboxNext]_outboxVars => DepthBounded'
    <2> SUFFICES ASSUME OutboxInv, DepthBounded, [OutboxNext]_outboxVars, NEW p \in Provider
                 PROVE  Cardinality(Active(p)') <= MaxDepth
      BY DEF DepthBounded
    <2>1. IsFiniteSet(Active(p)) /\ Cardinality(Active(p)) \in Nat /\ Cardinality(Active(p)) <= MaxDepth
      BY <1>0 DEF DepthBounded
    <2>2. CASE Active(p)' \subseteq Active(p)
      <3>1. Cardinality(Active(p)') <= Cardinality(Active(p)) /\ Cardinality(Active(p)') \in Nat
        BY <2>1, <2>2, FS_Subset, FS_CardinalityType
      <3> QED
        BY <2>1, <3>1
    <2>3. ASSUME NEW d \in Delivery, Enqueue(d)
          PROVE  Cardinality(Active(p)') <= MaxDepth
      <3>1. \A e \in Delivery \ {d} : items'[e] = items[e]
        BY <2>3 DEF Enqueue, OutboxInv, OutboxTypeOK
      <3>2. CASE ProviderOf[d] # p
        <4>1. Active(p)' \subseteq Active(p)
          BY Zenon, <3>1, <3>2 DEF Active, Stored, Terminal
        <4> QED
          BY <2>2, <4>1
      <3>3. CASE ProviderOf[d] = p
        <4>1. Active(p)' \subseteq Active(p) \cup {d}
          BY Zenon, <3>1 DEF Active, Stored, Terminal
        <4>2. d \notin Active(p) /\ Cardinality(Active(p)) < MaxDepth
          BY <2>1, <2>3, <3>3 DEF Enqueue, DepthExceeded, Active, Stored, DeliveryStatus, TerminalStatus
        <4>3. /\ IsFiniteSet(Active(p) \cup {d})
              /\ Cardinality(Active(p) \cup {d}) = Cardinality(Active(p)) + 1
          BY <2>1, <4>2, FS_AddElement
        <4>4. Cardinality(Active(p)') <= Cardinality(Active(p) \cup {d})
          BY <4>1, <4>3, FS_Subset
        <4>5. Cardinality(Active(p)') \in Nat
          BY <4>1, <4>3, FS_Subset, FS_CardinalityType
        <4> QED
          BY <2>1, <4>2, <4>3, <4>4, <4>5
      <3> QED
        BY <3>2, <3>3
    <2> QED
      BY <2>2, <2>3, ItemSteps
  <1> QED
    BY <1>1, <1>2, OutboxInvariant, PTL DEF OutboxSpec

-----------------------------------------------------------------------------
(***************************************************************************)
(* Handouts are counted.                                                   *)
(***************************************************************************)
HandoutInv ==
    \A d \in Stored : /\ IsFiniteSet(GrantsOf(d))
                      /\ Cardinality(GrantsOf(d)) = items[d].attempts

LEMMA HandoutStep ==
    ASSUME OutboxInv, HandoutInv, [OutboxNext]_outboxVars
    PROVE  HandoutInv'
  <1>0. OutboxTypeOK
    BY DEF OutboxInv
  <1> DEFINE Kept(d) == granted' = granted /\ items'[d].attempts = items[d].attempts
  <1>1. ASSUME NEW d \in Stored, Kept(d)
        PROVE  IsFiniteSet(GrantsOf(d)') /\ Cardinality(GrantsOf(d)') = items'[d].attempts
    BY <1>1 DEF HandoutInv, GrantsOf
  <1>2. ASSUME NEW d \in Delivery, Enqueue(d)
        PROVE  HandoutInv'
    <2>1. /\ granted' = granted
          /\ items'[d].attempts = 0
          /\ \A e \in Delivery \ {d} : items'[e] = items[e]
          /\ d \notin Stored
      BY <1>0, <1>2 DEF Enqueue, Unstored, OutboxTypeOK, Stored, DeliveryStatus, TerminalStatus
    <2>2. GrantsOf(d)' = {}
      BY <2>1 DEF GrantsOf, OutboxInv, LeaseIdsUsedUp
    <2>3. \A e \in Stored' : e = d \/ (e \in Stored /\ Kept(e))
      BY <2>1 DEF Stored
    <2> QED
      BY Zenon, <1>1, <2>1, <2>2, <2>3, FS_EmptySet DEF HandoutInv
  <1>3. ASSUME NEW p \in Provider, NEW n \in PollSizes, LeaseDue(p, n)
        PROVE  HandoutInv'
    <2> DEFINE leased == {d \in Scanned(p, n) : ~Exhausted(d)}
    <2>1. /\ granted' = granted \cup {<<d, LeaseItemId(p, d)>> : d \in leased}
          /\ items' = [d \in Delivery |->
                          IF d \in Scanned(p, n) THEN LeaseItem(p, d) ELSE items[d]]
      BY Zenon, <1>3 DEF LeaseDue
    <2>2. Stored' \subseteq Stored
      BY Zenon, <1>3, ItemSteps DEF OutboxNext, LeaseDue, Enqueue, Scanned, Due, Stored,
                                    DeliveryStatus, TerminalStatus
    <2>3. ASSUME NEW d \in Stored
          PROVE  IsFiniteSet(GrantsOf(d)') /\ Cardinality(GrantsOf(d)') = items'[d].attempts
      <3>1. d \in Delivery /\ items[d] \in Item
        BY <1>0 DEF Stored, OutboxTypeOK
      <3>2. CASE d \in leased
        <4> DEFINE g == <<d, LeaseItemId(p, d)>>
        <4>1. GrantsOf(d)' = GrantsOf(d) \cup {g}
          BY <2>1, <3>2 DEF GrantsOf
        <4>2. g \notin GrantsOf(d)
          BY <3>1, FreshLease DEF GrantsOf
        <4>3. items'[d].attempts = items[d].attempts + 1
          <5>1. items[d].attempts < MaxAttempts
            BY <3>1, <3>2 DEF Exhausted, Item
          <5> QED
            BY <1>0, <2>1, <3>1, <3>2, <5>1, LeaseItemIdType, LeaseDeliveryType DEF LeaseItem
        <4>4. IsFiniteSet(GrantsOf(d)) /\ Cardinality(GrantsOf(d)) = items[d].attempts
          BY DEF HandoutInv
        <4> HIDE DEF g
        <4>5. /\ IsFiniteSet(GrantsOf(d) \cup {g})
              /\ Cardinality(GrantsOf(d) \cup {g}) = Cardinality(GrantsOf(d)) + 1
          BY <4>2, <4>4, FS_AddElement
        <4> QED
          BY <4>1, <4>3, <4>4, <4>5
      <3>3. CASE d \notin leased
        <4>1. GrantsOf(d)' = GrantsOf(d)
          BY <2>1, <3>3 DEF GrantsOf
        <4>2. items'[d].attempts = items[d].attempts
          BY <2>1, <3>1, <3>3, FailExhaustedType DEF LeaseItem
        <4> QED
          BY <4>1, <4>2 DEF HandoutInv
      <3> QED
        BY <3>2, <3>3
    <2> QED
      BY <2>2, <2>3 DEF HandoutInv
  <1>4. ASSUME NEW r \in Reportable, Complete(r) \/ Release(r)
        PROVE  HandoutInv'
    <2>1. r.delivery \in Delivery /\ r.status \in ActionStatus /\ items[r.delivery] \in Item
      BY Zenon, <1>0, ReportableType DEF Report, OutboxTypeOK
    <2>2. granted' = granted
      BY <1>4 DEF Complete, Release, Record
    <2>3. PICK i \in Item : Record(r, i) /\ i.attempts = items[r.delivery].attempts
      <3>1. CASE Complete(r)
        <4>1. r.status \in ActionStatus \ {"FAILED"}
          BY <2>1, <3>1 DEF Complete
        <4> QED
          BY <2>1, <3>1, <4>1, CompleteDeliveryType DEF Complete
      <3>2. CASE Release(r)
        BY <2>1, <3>2, ReleaseDeliveryType DEF Release
      <3> QED
        BY <1>4, <3>1, <3>2
    <2>4. \A d \in Delivery : items'[d].attempts = items[d].attempts
      BY <1>0, <2>1, <2>3 DEF Record, OutboxTypeOK
    <2>5. Stored' \subseteq Stored
      <3>1. items[r.delivery].status = "LEASED"
        BY <2>3 DEF Record, ReportableLease
      <3> QED
        BY <1>0, <2>1, <2>3, <3>1 DEF Record, Stored, DeliveryStatus, OutboxTypeOK
    <2> QED
      BY <1>1, <2>2, <2>4, <2>5 DEF HandoutInv, Stored
  <1>5. ASSUME Tick
        PROVE  HandoutInv'
    <2>1. Stored' = Stored /\ \A d \in Stored : Kept(d)
      BY Zenon, <1>0, <1>5, TickKeeps DEF Stored, Tick
    <2> QED
      BY SMTT(30), <1>1, <2>1 DEF HandoutInv
  <1>6. ASSUME Restart
        PROVE  HandoutInv'
    <2>1. CASE Durable
      BY Zenon, <1>6, <2>1 DEF Restart, outboxVars, HandoutInv, Stored, GrantsOf
    <2>2. CASE ~Durable
      BY <1>6, <2>2, RestartEmpties DEF HandoutInv
    <2> QED
      BY <2>1, <2>2
  <1>7. ASSUME UNCHANGED outboxVars
        PROVE  HandoutInv'
    BY Zenon, <1>7 DEF outboxVars, HandoutInv, Stored, GrantsOf
  <1> QED
    BY <1>2, <1>3, <1>4, <1>5, <1>6, <1>7 DEF OutboxNext

\* Every handout to a client costs one attempt, so a delivery is handed out at
\* most max_attempts times.
THEOREM HandoutsCounted == OutboxSpec => []EveryHandoutCounted
  <1>1. OutboxInit => HandoutInv
    BY DEF OutboxInit, HandoutInv, Stored, Absent, Unstored, DeliveryStatus, TerminalStatus
  <1>2. OutboxInv /\ HandoutInv /\ [OutboxNext]_outboxVars => HandoutInv'
    BY HandoutStep
  <1>3. OutboxInv /\ HandoutInv => EveryHandoutCounted
    BY DEF OutboxInv, OutboxTypeOK, HandoutInv, EveryHandoutCounted, Stored, Item
  <1> QED
    BY <1>1, <1>2, <1>3, OutboxInvariant, PTL DEF OutboxSpec

-----------------------------------------------------------------------------
(***************************************************************************)
(* Both backends implement the delivery contract.                          *)
(***************************************************************************)
LEMMA ContractStep ==
    ASSUME OutboxInv, OutboxInv', OutboxNext, NEW d \in Delivery
    PROVE  Contract!Legal(items[d].status, items[d].attempts,
                          items'[d].status, items'[d].attempts)
  <1>0. OutboxTypeOK /\ items[d] \in Item /\ items[d].attempts \in 0 .. MaxAttempts
    BY DEF OutboxInv, OutboxTypeOK, Item
  <1>1. ASSUME items'[d].status = items[d].status, items'[d].attempts = items[d].attempts
        PROVE  Contract!Legal(items[d].status, items[d].attempts,
                              items'[d].status, items'[d].attempts)
    BY SMTT(30), <1>1 DEF Contract!Legal
  <1>2. ASSUME NEW e \in Delivery, Enqueue(e)
        PROVE  Contract!Legal(items[d].status, items[d].attempts,
                              items'[d].status, items'[d].attempts)
    BY <1>0, <1>1, <1>2 DEF Enqueue, Unstored, OutboxTypeOK, Contract!Legal
  <1>3. ASSUME NEW p \in Provider, NEW n \in PollSizes, LeaseDue(p, n)
        PROVE  Contract!Legal(items[d].status, items[d].attempts,
                              items'[d].status, items'[d].attempts)
    <2>1. items' = [e \in Delivery |->
                       IF e \in Scanned(p, n) THEN LeaseItem(p, e) ELSE items[e]]
      BY <1>3 DEF LeaseDue
    <2>2. CASE d \notin Scanned(p, n)
      BY <1>1, <2>1, <2>2
    <2>3. CASE d \in Scanned(p, n) /\ Exhausted(d)
      <3>1. items'[d].status = "FAILED_PERMANENT" /\ items'[d].attempts = items[d].attempts
        BY <1>0, <2>1, <2>3, FailExhaustedType DEF LeaseItem
      <3>2. items[d].attempts = MaxAttempts
        BY <1>0, <2>3 DEF Exhausted
      <3>3. items[d].status = "LEASED"
        <4>1. d \in Stored /\ items[d].status \in {"PENDING", "LEASED"}
          BY <2>3 DEF Scanned, Due, IsDeliveryDue
        <4> QED
          BY <3>2, <4>1 DEF OutboxInv, PendingCanBeHandedOut
      <3> QED
        BY <3>1, <3>2, <3>3 DEF Contract!Legal
    <2>4. CASE d \in Scanned(p, n) /\ ~Exhausted(d)
      <3>1. items[d].attempts < MaxAttempts
        BY <1>0, <2>4 DEF Exhausted
      <3>2. items'[d].status = "LEASED" /\ items'[d].attempts = items[d].attempts + 1
        BY ZenonT(40), <1>0, <2>1, <2>4, <3>1, LeaseItemIdType, LeaseDeliveryType DEF LeaseItem
      <3>3. items[d].status \in {"PENDING", "LEASED"}
        BY <2>4 DEF Scanned, Due, IsDeliveryDue
      <3> QED
        BY <3>1, <3>2, <3>3 DEF Contract!Legal
    <2> QED
      BY <2>2, <2>3, <2>4
  <1>4. ASSUME NEW r \in Reportable, Complete(r) \/ Release(r)
        PROVE  Contract!Legal(items[d].status, items[d].attempts,
                              items'[d].status, items'[d].attempts)
    <2>1. r.delivery \in Delivery /\ r.status \in ActionStatus
      BY Zenon, <1>0, ReportableType DEF Report
    <2>2. CASE d # r.delivery
      BY <1>0, <1>1, <1>4, <2>1, <2>2 DEF Complete, Release, Record, OutboxTypeOK
    <2>3. CASE d = r.delivery /\ Complete(r)
      <3>1. r.status \in ActionStatus \ {"FAILED"} /\ items[d].status = "LEASED"
        BY <2>1, <2>3 DEF Complete, Record, ReportableLease
      <3>2. items'[d] = CompleteDelivery(items[d], r.status)
        BY <1>0, <2>3 DEF Complete, Record, OutboxTypeOK
      <3>3. items'[d].status = r.status /\ items'[d].attempts = items[d].attempts
        BY <1>0, <3>1, <3>2, CompleteDeliveryType
      <3> QED
        BY <3>1, <3>3 DEF Contract!Legal, Contract!Settled, ActionStatus
    <2>4. CASE d = r.delivery /\ Release(r)
      <3>1. items[d].status = "LEASED"
        BY <2>4 DEF Release, Record, ReportableLease
      <3>2. items'[d] = ReleaseDelivery(items[d])
        BY <1>0, <2>4 DEF Release, Record, OutboxTypeOK
      <3>3. /\ items'[d].status = IF items[d].attempts >= MaxAttempts THEN "FAILED_PERMANENT"
                                  ELSE "PENDING"
            /\ items'[d].attempts = items[d].attempts
        BY <1>0, <3>2, ReleaseDeliveryType
      <3> QED
        BY SMTT(30), <1>0, <3>1, <3>3 DEF Contract!Legal
    <2> QED
      BY <1>4, <2>2, <2>3, <2>4
  <1>5. ASSUME Tick
        PROVE  Contract!Legal(items[d].status, items[d].attempts,
                              items'[d].status, items'[d].attempts)
    BY <1>0, <1>1, <1>5, TickKeeps
  <1>6. ASSUME Restart
        PROVE  Contract!Legal(items[d].status, items[d].attempts,
                              items'[d].status, items'[d].attempts)
    <2>1. CASE Durable \/ d \notin Stored
      BY <1>1, <1>6, <2>1 DEF Restart, outboxVars
    <2>2. CASE ~Durable /\ d \in Stored
      <3>1. items'[d] = Lost
        BY <1>6, <2>2 DEF Restart
      <3>2. items[d].status # "ABSENT"
        BY <2>2 DEF Stored, DeliveryStatus, TerminalStatus
      <3>3. Lost.status = "LOST" /\ Lost.attempts = 0
        BY DEF Lost, Unstored
      <3> QED
        BY <2>2, <3>1, <3>2, <3>3 DEF Contract!Legal
    <2> QED
      BY <2>1, <2>2
  <1> QED
    BY <1>2, <1>3, <1>4, <1>5, <1>6 DEF OutboxNext

\* The promises of enqueue, lease_due, complete and release hold together, over
\* either backend, for any number of deliveries, providers and leases.
THEOREM OutboxIsSound == OutboxSpec => []OutboxSound
  BY KeysUnique, DepthStaysBounded, HandoutsCounted, LeaseAcceptsItsReport, SingleOutcome,
     ReportedOutcome, PTL DEF OutboxSound

\* Whatever the backend and the order of polls and reports, each delivery moves
\* only along the transitions of the delivery contract.
THEOREM BackendsImplementContract == OutboxSpec => ImplementsContract
  <1>1. OutboxInit => Contract!ContractInit
    BY DEF OutboxInit, Absent, Unstored, Contract!ContractInit
  <1>2. OutboxInv /\ OutboxInv' /\ [OutboxNext]_outboxVars
           => [Contract!ContractNext]_(Contract!contractVars)
    <2> SUFFICES ASSUME OutboxInv, OutboxInv', [OutboxNext]_outboxVars
                 PROVE  [Contract!ContractNext]_(Contract!contractVars)
      OBVIOUS
    <2>1. CASE UNCHANGED outboxVars
      BY <2>1 DEF outboxVars, Contract!contractVars
    <2>2. CASE OutboxNext
      <3>1. \A d \in Delivery :
               /\ items'[d].status \in DeliveryStatus \cup {"ABSENT", "LOST"}
               /\ items'[d].attempts \in 0 .. MaxAttempts
        BY DEF OutboxInv, OutboxTypeOK, Item
      <3> QED
        BY <2>2, <3>1, ContractStep
           DEF Contract!ContractNext, Contract!Settled, DeliveryStatus, TerminalStatus
    <2> QED
      BY <2>1, <2>2
  <1> QED
    BY <1>1, <1>2, OutboxInvariant, PTL DEF OutboxSpec, ImplementsContract, Contract!ContractSpec

-----------------------------------------------------------------------------

(***************************************************************************)
(* A handler about to run the hooks holds the mark of its report alone:    *)
(* marked covers what ran and what is about to run, and a second handler   *)
(* of the report finds it there.                                           *)
(***************************************************************************)
DispatchInv ==
    /\ handler \in [Handler -> [pc: {"idle", "accepted", "marked"},
                                report: Report \cup {NoReport}]]
    /\ ran \subseteq marked
    /\ \A h \in Handler : handler[h].pc = "marked" => handler[h].report \in marked
    /\ HooksOncePerProcess

LEMMA SlotType ==
    ASSUME NEW pc \in {"idle", "accepted", "marked"}, NEW r \in Report \cup {NoReport}
    PROVE  /\ At(pc, r) \in [pc: {"idle", "accepted", "marked"}, report: Report \cup {NoReport}]
           /\ At(pc, r).pc = pc /\ At(pc, r).report = r
           /\ Idle \in [pc: {"idle", "accepted", "marked"}, report: Report \cup {NoReport}]
           /\ Idle.pc = "idle"
  BY DEF At, Idle

\* A step that sets one slot to a value that is not about to run the hooks.
LEMMA SlotStep ==
    ASSUME DispatchInv, NEW h \in Handler,
           NEW v \in [pc: {"idle", "accepted", "marked"}, report: Report \cup {NoReport}],
           v.pc # "marked",
           handler' = [handler EXCEPT ![h] = v],
           UNCHANGED <<marked, ran>>
    PROVE  DispatchInv'
  BY DEF DispatchInv, HooksOncePerProcess

LEMMA DispatchNext ==
    ASSUME DispatchInv, OutboxTypeOK, [Next]_vars
    PROVE  DispatchInv'
  <1>1. ASSUME NEW h \in Handler, NEW r \in Reportable, ReportActionResult(h, r)
        PROVE  DispatchInv'
    <2>1. r \in Report
      BY Zenon, ReportableType
    <2> QED
      BY Zenon, <1>1, <2>1, SlotType, SlotStep DEF ReportActionResult
  <1>2. ASSUME NEW h \in Handler, MarkIfAbsent(h)
        PROVE  DispatchInv'
    <2> DEFINE r == handler[h].report
    <2>1. r \in Report \cup {NoReport}
      BY DEF DispatchInv
    <2>2. CASE r \in marked
      <3>1. handler' = [handler EXCEPT ![h] = Idle] /\ UNCHANGED <<marked, ran>>
        BY <1>2, <2>2 DEF MarkIfAbsent
      <3> QED
        BY Zenon, <2>1, <3>1, SlotType, SlotStep
    <2>3. CASE r \notin marked
      <3>1. /\ handler' = [handler EXCEPT ![h] = At("marked", r)]
            /\ marked' = marked \cup {r} /\ ran' = ran
        BY <1>2, <2>3 DEF MarkIfAbsent
      <3>2. /\ handler'[h].pc = "marked" /\ handler'[h].report = r
            /\ \A k \in Handler \ {h} : handler'[k] = handler[k]
            /\ handler' \in [Handler -> [pc: {"idle", "accepted", "marked"},
                                         report: Report \cup {NoReport}]]
        BY <2>1, <3>1, SlotType DEF DispatchInv
      <3>3. r \notin ran /\ \A k \in Handler \ {h} : handler[k].pc = "marked" => handler[k].report # r
        BY <2>3 DEF DispatchInv
      <3>4. HooksOncePerProcess'
        BY <3>1, <3>2, <3>3 DEF DispatchInv, HooksOncePerProcess
      <3> QED
        BY <3>1, <3>2, <3>4 DEF DispatchInv
    <2> QED
      BY <2>2, <2>3
  <1>3. ASSUME NEW h \in Handler, RunHooks(h)
        PROVE  DispatchInv'
    <2>1. /\ handler[h].pc = "marked" /\ ran' = ran \cup {handler[h].report}
          /\ handler' = [handler EXCEPT ![h] = Idle] /\ marked' = marked
      BY <1>3 DEF RunHooks
    <2>2. /\ handler'[h].pc = "idle"
          /\ \A k \in Handler \ {h} : handler'[k] = handler[k]
          /\ handler' \in [Handler -> [pc: {"idle", "accepted", "marked"},
                                       report: Report \cup {NoReport}]]
      BY <2>1, SlotType DEF DispatchInv
    <2>3. HooksOncePerProcess'
      BY <2>1, <2>2 DEF DispatchInv, HooksOncePerProcess
    <2> QED
      BY <2>1, <2>2, <2>3 DEF DispatchInv
  <1>4. ASSUME NEW h \in Handler, CancelHandler(h)
        PROVE  DispatchInv'
    BY Zenon, <1>4, SlotType, SlotStep DEF CancelHandler
  <1>5. ASSUME RestartProcess
        PROVE  DispatchInv'
    <2>1. \A h \in Handler : handler'[h] = Idle
      BY <1>5 DEF RestartProcess
    <2> QED
      BY Zenon, <1>5, <2>1, SlotType DEF RestartProcess, DispatchInv, HooksOncePerProcess
  <1>6. ASSUME Deliver \/ UNCHANGED vars
        PROVE  DispatchInv'
    BY <1>6 DEF Deliver, vars, brokerVars, DispatchInv, HooksOncePerProcess
  <1> QED
    BY <1>1, <1>2, <1>3, <1>4, <1>5, <1>6 DEF Next

-----------------------------------------------------------------------------
\* The broker only uses the operations the outbox offers, so everything proved of
\* the outbox holds of the broker.
THEOREM BrokerImplementsOutbox == Spec => BrokerUsesOutbox
  <1>1. Init => OutboxInit
    BY DEF Init
  <1>2. [Next]_vars => [OutboxNext]_outboxVars
    BY DEF Next, vars, Deliver, ReportActionResult, MarkIfAbsent, RunHooks, CancelHandler,
           RestartProcess, OutboxNext
  <1> QED
    BY <1>1, <1>2, PTL DEF Spec, BrokerUsesOutbox, OutboxSpec

\* Within one process no interleaving of repeated reports runs the hooks twice.
THEOREM HooksOnce == Spec => []HooksOncePerProcess
  <1>1. Init => DispatchInv
    BY SlotType DEF Init, DispatchInv, HooksOncePerProcess
  <1>2. DispatchInv /\ OutboxTypeOK /\ [Next]_vars => DispatchInv'
    BY DispatchNext
  <1>3. Spec => []OutboxTypeOK
    BY BrokerImplementsOutbox, TypeCorrect, PTL DEF BrokerUsesOutbox
  <1>4. DispatchInv => HooksOncePerProcess
    BY Zenon DEF DispatchInv
  <1> QED
    BY <1>1, <1>2, <1>3, <1>4, PTL DEF Spec

-----------------------------------------------------------------------------
(***************************************************************************)
(* The outbox forgets a report only in a restart, which ends the handlers, *)
(* and a handler past the outbox call has its report there.                *)
(***************************************************************************)
RecordedInv ==
    /\ \A h \in Handler : handler[h].pc # "idle" => handler[h].report \in reports
    /\ ran \subseteq reports

LEMMA RecordedNext ==
    ASSUME RecordedInv, DispatchInv, [Next]_vars
    PROVE  RecordedInv'
  <1>0. /\ handler \in [Handler -> [pc: {"idle", "accepted", "marked"},
                                   report: Report \cup {NoReport}]]
        /\ \A h \in Handler : handler[h].pc # "idle" => handler[h].report \in reports
        /\ ran \subseteq reports
        /\ Idle.pc = "idle"
    BY DEF RecordedInv, DispatchInv, Idle
  <1>1. ASSUME NEW h \in Handler, NEW r \in Reportable, ReportActionResult(h, r)
        PROVE  RecordedInv'
    <2>1. r \in reports' /\ reports \subseteq reports'
      BY <1>1 DEF ReportActionResult, Complete, Release, Record, Idempotent, outboxVars
    <2>2. handler' = [handler EXCEPT ![h] = At("accepted", r)] /\ ran' = ran
      BY <1>1 DEF ReportActionResult
    <2> QED
      BY <1>0, <2>1, <2>2 DEF At, RecordedInv
  <1>2. ASSUME NEW h \in Handler, MarkIfAbsent(h)
        PROVE  RecordedInv'
    <2>1. /\ handler[h].report \in reports
          /\ handler' = [handler EXCEPT ![h] = IF handler[h].report \in marked THEN Idle
                                               ELSE At("marked", handler[h].report)]
          /\ ran' = ran /\ reports' = reports
      BY <1>0, <1>2 DEF MarkIfAbsent, outboxVars
    <2> QED
      BY <1>0, <2>1 DEF At, RecordedInv
  <1>3. ASSUME NEW h \in Handler, RunHooks(h) \/ CancelHandler(h)
        PROVE  RecordedInv'
    <2>1. /\ handler' = [handler EXCEPT ![h] = Idle]
          /\ ran' \subseteq ran \cup {handler[h].report}
          /\ handler[h].report \in reports
          /\ reports' = reports
      BY <1>0, <1>3 DEF RunHooks, CancelHandler, outboxVars
    <2> QED
      BY <1>0, <2>1 DEF RecordedInv
  <1>4. ASSUME RestartProcess
        PROVE  RecordedInv'
    BY <1>0, <1>4 DEF RestartProcess, RecordedInv
  <1>5. ASSUME Deliver \/ UNCHANGED vars
        PROVE  RecordedInv'
    <2>1. reports' = reports /\ UNCHANGED brokerVars
      BY Zenon, <1>5 DEF Deliver, vars, Enqueue, LeaseDue, Tick, outboxVars
    <2> QED
      BY <1>0, <2>1 DEF brokerVars, RecordedInv
  <1> QED
    BY <1>1, <1>2, <1>3, <1>4, <1>5 DEF Next

\* The learning hooks only ever see results the outbox has on record.
THEOREM HooksSeeRecordedReports == Spec => []HooksOnlyForRecordedReports
  <1>1. Init => DispatchInv /\ RecordedInv
    BY SlotType DEF Init, DispatchInv, HooksOncePerProcess, RecordedInv
  <1>2. DispatchInv /\ OutboxTypeOK /\ [Next]_vars => DispatchInv'
    BY DispatchNext
  <1>3. DispatchInv /\ RecordedInv /\ [Next]_vars => RecordedInv'
    BY RecordedNext
  <1>4. Spec => []OutboxTypeOK
    BY BrokerImplementsOutbox, TypeCorrect, PTL DEF BrokerUsesOutbox
  <1>5. RecordedInv => HooksOnlyForRecordedReports
    BY DEF RecordedInv, HooksOnlyForRecordedReports
  <1> QED
    BY <1>1, <1>2, <1>3, <1>4, <1>5, PTL DEF Spec
=============================================================================

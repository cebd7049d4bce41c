---------------------- MODULE InferenceSchedulerProofs ----------------------
(***************************************************************************)
(* The slot limits hold for any number of callers, any mix of requests and *)
(* any limits.                                                             *)
(***************************************************************************)
EXTENDS InferenceScheduler, FiniteSetTheorems, TLAPS

USE InferenceAssumption

(***************************************************************************)
(* The provider calls under way are bounded because each of them still has *)
(* its lease on the books: a lease is taken away only from a caller that   *)
(* acknowledged, and that caller is no longer calling.  busy_since has to  *)
(* be set with every lease, since a WARMING override hides the leases from *)
(* the state and IDLE uncovers them again.                                 *)
(***************************************************************************)
SchedulerInv ==
    /\ SchedulerTypeOK
    /\ \A c \in active : call[c].pc # "idle"
    /\ \A c \in Caller : call[c].pc = "calling" => c \in active /\ c \notin stopped
    /\ SlotsBounded
    /\ BusySinceMatchesState
    /\ active # {} => busySince

LEMMA ActiveFinite ==
    ASSUME active \subseteq Caller, NEW g
    PROVE  IsFiniteSet(ActiveIn(g)) /\ Cardinality(ActiveIn(g)) \in Nat
  BY FS_Subset, FS_CardinalityType DEF ActiveIn

LEMMA GroupDomain ==
    ASSUME NEW r \in Request
    PROVE  Group(r.kind) \in DOMAIN Limit /\ Limit[Group(r.kind)] \in Nat
  BY DEF Request

LEMMA SchedulerInitInv == SchedulerInit => SchedulerInv
  <1> SUFFICES ASSUME SchedulerInit PROVE SchedulerInv
    OBVIOUS
  <1>1. SchedulerTypeOK
    BY Zenon DEF SchedulerInit, SchedulerTypeOK, NoRequest, Request, SlotKind, LargeSlotKinds,
           LowPriorities
  <1>2. SlotsBounded
    <2>1. \A g : ActiveIn(g) = {}
      BY DEF SchedulerInit, ActiveIn
    <2>2. \A g \in DOMAIN Limit : Limit[g] \in Nat /\ Limit[g] >= 0
      OBVIOUS
    <2>3. Cardinality({}) = 0
      BY FS_EmptySet
    <2>4. \A g \in DOMAIN Limit : Cardinality(ActiveIn(g)) = 0
      BY <2>1, <2>3, Zenon
    <2> QED
      BY <2>2, <2>4 DEF SlotsBounded
  <1> QED
    BY <1>1, <1>2 DEF SchedulerInit, SchedulerInv, BusySinceMatchesState, ResourceState

\* Fewer leases of unchanged requests stay within the limits.
LEMMA FewerLeases ==
    ASSUME SchedulerInv, active' \subseteq active,
           \A c \in active' : call'[c].request = call[c].request
    PROVE  SlotsBounded'
  <1> SUFFICES ASSUME NEW g \in DOMAIN Limit
               PROVE  Cardinality(ActiveIn(g)') <= Limit[g]
    BY DEF SlotsBounded
  <1>1. ActiveIn(g)' \subseteq ActiveIn(g)
    BY DEF ActiveIn, KindOf
  <1>2. IsFiniteSet(ActiveIn(g)) /\ Cardinality(ActiveIn(g)) \in Nat /\ Limit[g] \in Nat
    BY ActiveFinite DEF SchedulerInv, SchedulerTypeOK
  <1>3. Cardinality(ActiveIn(g)') <= Cardinality(ActiveIn(g)) /\ Cardinality(ActiveIn(g)') \in Nat
    BY <1>1, <1>2, FS_Subset, FS_CardinalityType
  <1>4. Cardinality(ActiveIn(g)) <= Limit[g]
    BY DEF SchedulerInv, SlotsBounded
  <1> QED
    BY <1>2, <1>3, <1>4

LEMMA AcquiredInv ==
    ASSUME SchedulerInv, NEW c \in Caller, NEW r \in Request, call[c].pc = "idle",
           Acquired(c, r)
    PROVE  SchedulerInv'
  <1> DEFINE kept == active \ Evicted(r)
  <1>0. SchedulerTypeOK /\ c \notin active /\ kept \subseteq active
    BY DEF SchedulerInv
  <1>1. /\ active' = kept \cup {c}
        /\ call' = [call EXCEPT ![c] = [pc |-> "calling", request |-> r]]
        /\ stopped' = stopped \ {c} /\ busySince' = TRUE /\ override' = override
        /\ cancelRequested' = (cancelRequested \cup Asked(r)) \ {c}
    BY DEF Acquired
  <1>2. /\ call'[c].pc = "calling" /\ call'[c].request = r
        /\ \A d \in Caller \ {c} : call'[d] = call[d]
        /\ call' \in [Caller -> [pc: {"idle", "calling", "returned"}, request: Request]]
    BY <1>0, <1>1 DEF SchedulerTypeOK
  <1>3. Asked(r) \subseteq Caller /\ Evicted(r) \subseteq stopped
    BY <1>0 DEF Asked, Evicted, PreemptTargets, StopConfirmed, SchedulerTypeOK
  <1>4. SchedulerTypeOK'
    BY <1>0, <1>1, <1>2, <1>3 DEF SchedulerTypeOK
  <1>5. \A d \in active' : call'[d].pc # "idle"
    BY <1>0, <1>1, <1>2 DEF SchedulerInv, SchedulerTypeOK
  <1>6. \A d \in Caller : call'[d].pc = "calling" => d \in active' /\ d \notin stopped'
    BY <1>1, <1>2, <1>3 DEF SchedulerInv
  <1>7. SlotsBounded'
    <2> SUFFICES ASSUME NEW g \in DOMAIN Limit
                 PROVE  Cardinality(ActiveIn(g)') <= Limit[g]
      BY DEF SlotsBounded
    <2> DEFINE rest == {d \in kept : Group(KindOf(d)) = g}
    <2>1. rest \subseteq ActiveIn(g) /\ c \notin rest
      BY <1>0 DEF ActiveIn
    <2>2. IsFiniteSet(ActiveIn(g)) /\ Cardinality(ActiveIn(g)) \in Nat /\ Limit[g] \in Nat
      BY <1>0, ActiveFinite DEF SchedulerTypeOK
    <2>3. /\ IsFiniteSet(rest) /\ Cardinality(rest) \in Nat
          /\ Cardinality(rest) <= Cardinality(ActiveIn(g))
      BY <2>1, <2>2, FS_Subset, FS_CardinalityType
    <2>4. Cardinality(ActiveIn(g)) <= Limit[g]
      BY DEF SchedulerInv, SlotsBounded
    <2>5. CASE Group(r.kind) # g
      <3>1. ActiveIn(g)' = rest
        BY <1>0, <1>1, <1>2, <2>5 DEF ActiveIn, KindOf, SchedulerTypeOK
      <3> QED
        BY <2>2, <2>3, <2>4, <3>1
    <2>6. CASE Group(r.kind) = g
      <3>1. ActiveIn(g)' = rest \cup {c}
        BY <1>0, <1>1, <1>2, <2>6 DEF ActiveIn, KindOf, SchedulerTypeOK
      <3>2. Cardinality(rest \cup {c}) = Cardinality(rest) + 1
        BY Zenon, <2>1, <2>3, FS_AddElement
      <3>3. Cardinality(rest) < Limit[g]
        <4>1. CASE ~CapacityReached(r)
          BY <2>2, <2>3, <2>6, <4>1 DEF CapacityReached
        <4>2. CASE CapacityReached(r)
          <5>1. ~StateRejection(r) /\ CanPreemptFor(r) /\ Preemptible /\ StopConfirmed
            <6>1. DecisionFor(r) = "acquired"
              BY DEF Acquired
            <6>2. /\ StateDecision(r) # "acquired"
                  /\ BusyDecisionFor(r) # "acquired"
              BY DEF StateDecision, BusyDecisionFor, Request, Decision
            <6> QED
              BY <4>2, <6>1, <6>2 DEF DecisionFor
          <5>2. Evicted(r) = PreemptTargets
            BY <4>2, <5>1 DEF Evicted, Preempts
          <5>3. PICK d \in PreemptTargets : TRUE
            BY <5>1 DEF Preemptible
          <5>4. d \in ActiveIn(g) /\ d \notin rest
            BY <2>6, <5>1, <5>2, <5>3 DEF PreemptTargets, ActiveIn, CanPreemptFor, Group
          <5>5. Cardinality(rest \cup {d}) = Cardinality(rest) + 1
            BY Zenon, <2>3, <5>4, FS_AddElement
          <5>6. Cardinality(rest \cup {d}) <= Cardinality(ActiveIn(g))
            BY <2>1, <2>2, <5>4, FS_Subset
          <5> QED
            BY <2>2, <2>3, <2>4, <5>5, <5>6
        <4> QED
          BY <4>1, <4>2
      <3> QED
        BY <2>2, <2>3, <3>1, <3>2, <3>3
    <2> QED
      BY <2>5, <2>6
  <1>8. BusySinceMatchesState'
    BY <1>1, <1>4 DEF BusySinceMatchesState, ResourceState, SchedulerTypeOK
  <1> QED
    BY <1>1, <1>4, <1>5, <1>6, <1>7, <1>8 DEF SchedulerInv

\* A request is granted or turned away.
LEMMA AcquireInv ==
    ASSUME SchedulerInv, NEW c \in Caller, NEW r \in Request, Acquire(c, r)
    PROVE  SchedulerInv'
  <1>0. SchedulerTypeOK
    BY DEF SchedulerInv
  <1>1. CASE Acquired(c, r)
    BY <1>1, AcquiredInv DEF Acquire
  <1>2. CASE Rejected(c, r)
    <2>1. /\ UNCHANGED <<override, busySince, active, call, stopped>>
          /\ cancelRequested' \subseteq Caller
      BY <1>0, <1>2 DEF Rejected, Asked, PreemptTargets, SchedulerTypeOK
    <2>2. SlotsBounded'
      BY <2>1, FewerLeases
    <2> QED
      BY <1>0, <2>1, <2>2 DEF SchedulerInv, SchedulerTypeOK, BusySinceMatchesState, ResourceState
  <1> QED
    BY <1>1, <1>2 DEF Acquire

\* A provider call ends.
LEMMA CallEndsInv ==
    ASSUME SchedulerInv, NEW c \in Caller, CallReturns(c) \/ AcknowledgeStopped(c)
    PROVE  SchedulerInv'
  <1>0. SchedulerTypeOK
    BY DEF SchedulerInv
  <1>1. /\ call' = [call EXCEPT ![c].pc = "returned"]
        /\ stopped' \subseteq stopped \cup {c}
        /\ UNCHANGED <<override, busySince, active, cancelRequested>>
    BY DEF CallReturns, AcknowledgeStopped
  <1>2. /\ call'[c].pc = "returned" /\ call'[c].request = call[c].request
        /\ \A d \in Caller \ {c} : call'[d] = call[d]
        /\ call' \in [Caller -> [pc: {"idle", "calling", "returned"}, request: Request]]
    BY <1>0, <1>1 DEF SchedulerTypeOK
  <1>3. SlotsBounded'
    BY <1>0, <1>1, <1>2, FewerLeases DEF SchedulerTypeOK
  <1> QED
    BY <1>0, <1>1, <1>2, <1>3 DEF SchedulerInv, SchedulerTypeOK, BusySinceMatchesState, ResourceState

\* A lease is given back.
LEMMA ReleaseInv ==
    ASSUME SchedulerInv, NEW c \in Caller, Release(c)
    PROVE  SchedulerInv'
  <1>0. SchedulerTypeOK
    BY DEF SchedulerInv
  <1>1. /\ call' = [call EXCEPT ![c].pc = "idle"]
        /\ active' = active \ {c}
        /\ busySince' = (busySince /\ ~(c \in active /\ active = {c} /\ override = "none"))
        /\ UNCHANGED <<override, cancelRequested, stopped>>
        /\ call[c].pc = "returned"
    BY DEF Release
  <1>2. /\ call'[c].pc = "idle" /\ call'[c].request = call[c].request
        /\ \A d \in Caller \ {c} : call'[d] = call[d]
        /\ call' \in [Caller -> [pc: {"idle", "calling", "returned"}, request: Request]]
    BY <1>0, <1>1 DEF SchedulerTypeOK
  <1>3. SlotsBounded'
    BY <1>0, <1>1, <1>2, FewerLeases DEF SchedulerTypeOK
  <1>4. BusySinceMatchesState'
    <2>1. busySince \in BOOLEAN /\ override \in {"none", "busy", "warming", "unavailable"}
      BY <1>0 DEF SchedulerTypeOK
    <2>2. CASE active' = {}
      <3>1. active \subseteq {c}
        BY <1>1, <2>2
      <3>2. override = "none" => ~busySince'
        BY Zenon, <1>1, <3>1 DEF SchedulerInv, BusySinceMatchesState, ResourceState
      <3>3. override = "busy" => busySince'
        BY Zenon, <1>1 DEF SchedulerInv, BusySinceMatchesState, ResourceState
      <3> QED
        BY <1>1, <2>1, <2>2, <3>2, <3>3 DEF BusySinceMatchesState, ResourceState
    <2>3. CASE active' # {}
      <3>1. busySince' = busySince /\ active # {}
        BY <1>1, <2>1, <2>3
      <3> QED
        BY <1>1, <2>1, <2>3, <3>1 DEF SchedulerInv, BusySinceMatchesState, ResourceState
    <2> QED
      BY <2>2, <2>3
  <1>5. SchedulerTypeOK'
    BY <1>0, <1>1, <1>2 DEF SchedulerTypeOK
  <1>6. active' # {} => busySince'
    <2> SUFFICES ASSUME active' # {} PROVE busySince'
      OBVIOUS
    <2>1. active # {} /\ active # {c} /\ busySince
      BY <1>1 DEF SchedulerInv
    <2> QED
      BY Zenon, <1>1, <2>1
  <1> QED
    BY <1>0, <1>1, <1>2, <1>3, <1>4, <1>5, <1>6 DEF SchedulerInv, SchedulerTypeOK

\* A state is set from outside.
LEMMA SetStateInv ==
    ASSUME SchedulerInv, NEW s \in {"idle", "busy", "warming", "unavailable"}, SetState(s)
    PROVE  SchedulerInv'
  <1>0. SchedulerTypeOK
    BY DEF SchedulerInv
  <1>1. SlotsBounded'
    BY FewerLeases DEF SetState
  <1>2. BusySinceMatchesState'
    <2>1. busySince \in BOOLEAN /\ override \in {"none", "busy", "warming", "unavailable"}
      BY <1>0 DEF SchedulerTypeOK
    <2>2. CASE s = "idle"
      <3>1. override' = "none" /\ active' = active /\ (active = {} => ~busySince')
        BY Zenon, <2>2 DEF SetState
      <3>2. active # {} => busySince'
        <4> SUFFICES ASSUME active # {} PROVE busySince'
          OBVIOUS
        <4>1. busySince' = busySince
          BY <2>1, <2>2 DEF SetState
        <4>2. busySince
          BY DEF SchedulerInv
        <4> QED
          BY <4>1, <4>2
      <3> QED
        BY <3>1, <3>2 DEF BusySinceMatchesState, ResourceState
    <2>3. CASE s # "idle"
      <3>1. override' = s /\ (s = "busy" => busySince')
        BY <2>3 DEF SetState
      <3> QED
        BY <2>3, <3>1 DEF BusySinceMatchesState, ResourceState
    <2> QED
      BY <2>2, <2>3
  <1>3. SchedulerTypeOK'
    BY Zenon, <1>0 DEF SetState, SchedulerTypeOK
  <1> QED
    BY Zenon, <1>1, <1>2, <1>3 DEF SetState, SchedulerInv

\* Nothing happens to the scheduler.
LEMMA SchedulerStutterInv ==
    ASSUME SchedulerInv, UNCHANGED schedulerVars
    PROVE  SchedulerInv'
  <1>1. SlotsBounded'
    BY FewerLeases DEF schedulerVars
  <1> QED
    BY <1>1 DEF schedulerVars, SchedulerInv, SchedulerTypeOK, BusySinceMatchesState, ResourceState

LEMMA SchedulerNextInv ==
    ASSUME SchedulerInv, [SchedulerNext]_schedulerVars
    PROVE  SchedulerInv'
  <1>1. ASSUME NEW c \in Caller, NEW r \in Requests[c], Acquire(c, r)
        PROVE  SchedulerInv'
    <2>1. r \in Request
      OBVIOUS
    <2> QED
      BY <1>1, <2>1, AcquireInv
  <1> QED
    BY <1>1, CallEndsInv, ReleaseInv, SetStateInv, SchedulerStutterInv DEF SchedulerNext

LEMMA InvBoundsCalls == SchedulerInv => ProviderCallsBounded
  <1> SUFFICES ASSUME SchedulerInv, NEW g \in DOMAIN Limit
               PROVE  Cardinality({c \in Caller : call[c].pc = "calling" /\ Group(KindOf(c)) = g})
                         <= Limit[g]
    BY DEF ProviderCallsBounded
  <1> DEFINE calling == {c \in Caller : call[c].pc = "calling" /\ Group(KindOf(c)) = g}
  <1>1. calling \subseteq ActiveIn(g)
    BY DEF SchedulerInv, ActiveIn
  <1>2. IsFiniteSet(ActiveIn(g)) /\ Cardinality(ActiveIn(g)) \in Nat /\ Limit[g] \in Nat
    BY ActiveFinite DEF SchedulerInv, SchedulerTypeOK
  <1>3. Cardinality(calling) <= Cardinality(ActiveIn(g)) /\ Cardinality(calling) \in Nat
    BY <1>1, <1>2, FS_Subset, FS_CardinalityType
  <1>4. Cardinality(ActiveIn(g)) <= Limit[g]
    BY DEF SchedulerInv, SlotsBounded
  <1> QED
    BY <1>2, <1>3, <1>4

\* The whole inductive invariant.
THEOREM SchedulerInvariant == SchedulerSpec => []SchedulerInv
  <1>1. SchedulerInv /\ [SchedulerNext]_schedulerVars => SchedulerInv'
    BY SchedulerNextInv
  <1> QED
    BY <1>1, SchedulerInitInv, PTL DEF SchedulerSpec

\* However callers acquire, stop, return and release, and whatever states are set,
\* no more provider calls run at once than their slot group allows.
THEOREM CallsBounded == SchedulerSpec => []ProviderCallsBounded
  BY SchedulerInvariant, InvBoundsCalls, PTL

\* The leases on the books never exceed the limits.
THEOREM LeasesBounded == SchedulerSpec => []SlotsBounded
  <1>1. SchedulerInv => SlotsBounded
    BY DEF SchedulerInv
  <1> QED
    BY <1>1, SchedulerInvariant, PTL

\* busy_since is set while BUSY and unset while IDLE.
THEOREM BusySinceCorrect == SchedulerSpec => []BusySinceMatchesState
  <1>1. SchedulerInv => BusySinceMatchesState
    BY DEF SchedulerInv
  <1> QED
    BY <1>1, SchedulerInvariant, PTL

\* A lease leaves the books without its caller only in an acquire that evicts it.
LEMMA EvictionStep ==
    ASSUME SchedulerInv, [SchedulerNext]_schedulerVars, NEW c \in active,
           c \notin active', call'[c].pc = call[c].pc
    PROVE  /\ PriorityOf(c) \in LowPriorities
           /\ call[c].request.preemptible
           /\ c \in stopped
  <1>0. SchedulerTypeOK /\ c \in Caller
    BY DEF SchedulerInv, SchedulerTypeOK
  <1>1. ASSUME NEW d \in Caller, NEW r \in Requests[d], Acquire(d, r)
        PROVE  Preempts(r) /\ StopConfirmed /\ c \in PreemptTargets
    BY <1>1 DEF Acquire, Acquired, Rejected, Evicted
  <1>2. ASSUME NEW d \in Caller, Release(d)
        PROVE  FALSE
    BY <1>0, <1>2 DEF Release, SchedulerTypeOK
  <1>3. \E d \in Caller : \E r \in Requests[d] : Acquire(d, r)
    BY <1>2 DEF SchedulerNext, schedulerVars, CallReturns, AcknowledgeStopped, SetState
  <1> QED
    BY <1>1, <1>3 DEF Preempts, Preemptible, StopConfirmed, PreemptTargets

\* Whoever asks, and whatever states are set: nobody but its own caller takes a
\* lease off the books unless it is of low priority, can be preempted and its
\* caller has acknowledged that it stopped (_preempt_active_leases of acquire).
THEOREM EvictionsAreSafe == SchedulerSpec => OnlyLowPriorityEvicted
  <1>1. SchedulerInv /\ [SchedulerNext]_schedulerVars =>
           [\A c \in active : c \notin active' /\ call'[c].pc = call[c].pc =>
              /\ PriorityOf(c) \in LowPriorities
              /\ call[c].request.preemptible
              /\ c \in stopped]_schedulerVars
    BY EvictionStep
  <1> QED
    BY <1>1, SchedulerInvariant, PTL DEF SchedulerSpec, OnlyLowPriorityEvicted
=============================================================================

---------------------------- MODULE RuntimeState ----------------------------
(***************************************************************************)
(* What the runtime knows of the people it talks to.                       *)
(*                                                                         *)
(* Adapters send activity events and presence signals.  An observation     *)
(* passes the integrators in a fixed order (activity, presence, occupancy, *)
(* delivery target: runtime/wiring/runtime.py) and the context of its turn *)
(* is then assembled from the stores they keep.  The journal of activity   *)
(* events is a SQLite table or a bounded dictionary; every other store is  *)
(* a dictionary of the process.  A call of a dictionary does not suspend   *)
(* its caller, a call of SQLite does, so the turns interleave around the   *)
(* append to a durable journal and around the registration of the target.  *)
(*                                                                         *)
(* Adapters redeliver events, deliver them late and out of order, and die  *)
(* between a start and its stop.                                           *)
(***************************************************************************)
EXTENDS Integers, Sequences, FiniteSets, Optional

CONSTANTS
    Signals,        \* the signals of the adapters, records as in SignalFields
    MaxEvents,      \* InMemoryActivityJournal(max_events)
    MaxTtl,         \* interaction_max_ttl_seconds
    RecentWindow,   \* recent_activity_window_seconds
    MaxDeliveries,  \* bound: how often an adapter delivers one signal
    MaxReceived,    \* bound: different signals delivered
    MaxInFlight,    \* bound: observations in the pipeline at once
    MaxTime,        \* bound: the clock
    MaxRestarts     \* bound: restarts of the process

ASSUME StateBounds ==
    /\ MaxEvents \in Nat \ {0}
    /\ {MaxTtl, RecentWindow, MaxDeliveries, MaxReceived, MaxInFlight, MaxTime, MaxRestarts} \subseteq Nat

SignalFields ==
    {"id", "kind", "actor", "space", "event", "seq", "at", "status", "expires", "caps"}

\* InteractionActivitySnapshot, without its key.
Snapshots ==
    [active : BOOLEAN, seq : Int \cup {None}, at : Int, received : Int, expires : Int]

ASSUME SignalShape ==
    /\ None \notin Int \cup Snapshots
    /\ \A s \in Signals :
         DOMAIN s = SignalFields /\ {s.seq, s.expires} \subseteq Int \cup {None} /\ s.at \in Int

VARIABLES
    durableJournal,     \* the journal is the SQLite table
    time,               \* the clock of the runtime
    deliveries,         \* how often each signal was delivered
    restarts,           \* restarts so far
    journal,            \* accepted activity events, oldest first
    inFlight,           \* observations between two steps of the pipeline
    latestActivity,     \* InMemoryActivityProjectionStore
    presence,           \* InMemoryPresenceStore
    occupants,          \* InMemorySpaceOccupancyStore
    snapshots,          \* interaction snapshots a reader may see
    latestSnapshots,    \* interaction snapshots the order is decided by
    context,            \* availability in the context assembled last
    offered,            \* history: interaction snapshots applied by this process
    updates,            \* history: how often an event reached the projections
    forgotten           \* history: how often the journal dropped an event

stateVars ==
    <<durableJournal, time, deliveries, restarts, journal, inFlight, latestActivity,
      presence, occupants, snapshots, latestSnapshots, context, offered, updates, forgotten>>

-----------------------------------------------------------------------------
Activities == {s \in Signals : s.kind # "presence"}

Actors == {s.actor : s \in Signals} \ {None}

Spaces == {s.space : s \in Signals} \ {None}

\* What the journal tells events apart by: the provider's id, or the observation.
EventOf(s) == IF s.event = None THEN s.id ELSE s.event

Events == {EventOf(s) : s \in Activities}

\* ObservationTrustPolicy: a capability counts for an authenticated adapter only,
\* and an ingress that is not authenticated has no capability.
Trusted(s, capability) == capability \in s.caps

\* _transition: the channel an event is about, and whether it starts or stops.
Transition(kind) ==
    CASE kind = "actor_input_started" -> [channel |-> "actor_input", active |-> TRUE]
      [] kind = "actor_input_stopped" -> [channel |-> "actor_input", active |-> FALSE]
      [] kind = "app_output_started" -> [channel |-> "app_output", active |-> TRUE]
      [] kind = "app_output_stopped" -> [channel |-> "app_output", active |-> FALSE]
      [] OTHER -> [channel |-> None, active |-> FALSE]

IsTransition(kind) == Transition(kind).channel # None

Keys == {<<s.actor, s.space, Transition(s.kind).channel>> : s \in {a \in Activities : IsTransition(a.kind)}}

SnapshotKey(s) == <<s.actor, s.space, Transition(s.kind).channel>>

Least(a, b) == IF a <= b THEN a ELSE b

\* _bounded_expiry: the adapter advises, the runtime bounds.
BoundedExpiry(s, now) ==
    IF s.expires = None THEN now + MaxTtl
    ELSE IF s.expires <= now THEN now ELSE Least(s.expires, now + MaxTtl)

\* interaction_snapshot_from_event: a stop expires when it is received.
SnapshotOf(s, now) ==
    [active |-> Transition(s.kind).active,
     seq |-> s.seq,
     at |-> s.at,
     received |-> now,
     expires |-> IF Transition(s.kind).active THEN BoundedExpiry(s, now) ELSE now]

LexLess(a, b) ==
    \E i \in DOMAIN a : a[i] < b[i] /\ \A j \in 1 .. i - 1 : a[j] = b[j]

\* Two snapshots are compared by sequence only if both have one.
OrderKey(snap, other) ==
    IF snap.seq # None /\ other.seq # None
    THEN <<snap.seq, snap.at, snap.received>>
    ELSE <<snap.at, snap.received>>

\* _is_older_snapshot.
IsOlder(snap, other) == LexLess(OrderKey(snap, other), OrderKey(other, snap))

\* _same_snapshot_order.
SameOrder(snap, other) == OrderKey(snap, other) = OrderKey(other, snap)

\* _same_snapshot_content: everything but the expiry.
SameContent(snap, other) ==
    /\ snap.active = other.active
    /\ snap.seq = other.seq
    /\ snap.at = other.at
    /\ snap.received = other.received

Decision(snap, latest) ==
    IF latest = None THEN "accept"
    ELSE IF SameContent(snap, latest) THEN "ignore_duplicate"
    ELSE IF IsOlder(snap, latest) THEN "ignore_stale"
    ELSE IF SameOrder(snap, latest) THEN "reject_conflict"
    ELSE "accept"

-----------------------------------------------------------------------------
StateInit ==
    /\ durableJournal \in BOOLEAN
    /\ time = 0
    /\ deliveries = [s \in Signals |-> 0]
    /\ restarts = 0
    /\ journal = <<>>
    /\ inFlight = {}
    /\ latestActivity = [a \in Actors |-> None]
    /\ presence = [a \in Actors |-> None]
    /\ occupants = [p \in Spaces |-> {}]
    /\ snapshots = [k \in Keys |-> None]
    /\ latestSnapshots = [k \in Keys |-> None]
    /\ context = None
    /\ offered = [k \in Keys |-> {}]
    /\ updates = [e \in Events |-> 0]
    /\ forgotten = [e \in Events |-> 0]

\* The bounds allow one more delivery of s.
Admitted(s) ==
    /\ deliveries[s] < MaxDeliveries
    /\ Cardinality({x \in Signals : deliveries[x] > 0} \cup {s}) <= MaxReceived
    /\ Cardinality(inFlight) < MaxInFlight

Journaled(s) == \E i \in DOMAIN journal : journal[i].id = s.id \/ EventOf(journal[i]) = EventOf(s)

\* Mutant: the provider's event id is not looked up.
AppendById(s) ==
    IF \E i \in DOMAIN journal : journal[i].id = s.id THEN journal ELSE Append(journal, s)

\* append of both journals: a known observation or provider event is refused.
AppendEvent(s) == IF Journaled(s) THEN journal ELSE Append(journal, s)

\* InMemoryActivityJournal._evict_overflow: the oldest events go, with their keys.
Evict(events) ==
    IF durableJournal \/ Len(events) <= MaxEvents THEN events ELSE Tail(events)

\* Mutant: the order is decided against what readers may still see, which an
\* expiry removes.
ApplyToVisible(snap, k) ==
    /\ snapshots' = IF Decision(snap, snapshots[k]) = "accept"
                    THEN [snapshots EXCEPT ![k] = snap] ELSE snapshots
    /\ latestSnapshots' = snapshots'

\* InMemoryInteractionActivityProjectionStore.apply.
ApplySnapshot(snap, k) ==
    IF Decision(snap, latestSnapshots[k]) = "accept"
    THEN /\ latestSnapshots' = [latestSnapshots EXCEPT ![k] = snap]
         /\ snapshots' = [snapshots EXCEPT ![k] = snap]
    ELSE UNCHANGED <<latestSnapshots, snapshots>>

\* The journal is left with next and drops what overflows; the observation goes on
\* and knows whether it was taken in.
TakeIn(s, next) ==
    /\ journal' = Evict(next)
    /\ forgotten' = [e \in Events |->
           forgotten[e] + Cardinality({i \in DOMAIN next : EventOf(next[i]) = e})
                        - Cardinality({i \in DOMAIN Evict(next) : EventOf(Evict(next)[i]) = e})]
    /\ inFlight' = inFlight \cup
           {[signal |-> s, received |-> time, accepted |-> next # journal,
             pc |-> "project", n |-> deliveries[s]]}

\* ActivityIntegrator up to the append.  The time of receipt is read first; the
\* appends to a durable journal run one at a time in the order they were called.
ReceiveActivity(s) ==
    /\ s \in Activities
    /\ Admitted(s)
    /\ deliveries' = [deliveries EXCEPT ![s] = @ + 1]
    /\ \E reachable \in IF durableJournal THEN BOOLEAN ELSE {TRUE} :
         TakeIn(s, IF Trusted(s, "integrate_activity") /\ reachable THEN AppendEvent(s) ELSE journal)
    /\ UNCHANGED <<durableJournal, time, restarts, latestActivity, presence, occupants,
                   snapshots, latestSnapshots, context, offered, updates>>

\* InMemoryActivityProjectionStore.update_latest: the event that came last.
UpdateLatest(s) ==
    latestActivity' = IF s.actor = None THEN latestActivity
                      ELSE [latestActivity EXCEPT ![s.actor] = s.at]

\* The rest of ActivityIntegrator, for an event the journal accepted: the latest
\* activity of the actor, then the interaction snapshot.
ProjectActivity(f) ==
    LET s == f.signal
        snap == SnapshotOf(s, f.received)
    IN  IF ~f.accepted THEN UNCHANGED <<latestActivity, snapshots, latestSnapshots, offered, updates>>
        ELSE /\ updates' = [updates EXCEPT ![EventOf(s)] = @ + 1]
             /\ UpdateLatest(s)
             /\ IF IsTransition(s.kind)
                THEN /\ ApplySnapshot(snap, SnapshotKey(s))
                     /\ offered' = [offered EXCEPT ![SnapshotKey(s)] = @ \cup {snap}]
                ELSE UNCHANGED <<snapshots, latestSnapshots, offered>>

\* actor_joined and actor_left of InMemorySpaceOccupancyStore.
ActorJoined(s) == [occupants EXCEPT ![s.space] = @ \cup {s.actor}]
ActorLeft(s) == [occupants EXCEPT ![s.space] = @ \ {s.actor}]

\* SpaceOccupancyIntegrator: it asks the ingress, not the journal, so an event the
\* journal refused still counts, and an occupant stays until it leaves.
UpdateOccupancy(s) ==
    occupants' =
        IF ~Trusted(s, "update_space_occupancy") \/ s.actor = None \/ s.space = None THEN occupants
        ELSE CASE s.kind = "voice_left" -> ActorLeft(s)
               [] s.kind = "voice_joined" -> ActorJoined(s)
               [] OTHER -> occupants

Project(f) ==
    /\ f \in inFlight
    /\ f.pc = "project"
    /\ ProjectActivity(f)
    /\ UpdateOccupancy(f.signal)
    /\ inFlight' = (inFlight \ {f}) \cup {[f EXCEPT !.pc = "assemble"]}
    /\ UNCHANGED <<durableJournal, time, deliveries, restarts, journal, presence, context, forgotten>>

\* InMemoryPresenceStore.update_presence.
UpdatePresence(s) == [presence EXCEPT ![s.actor] = [status |-> s.status, expires |-> s.expires]]

\* PresenceIntegrator: the signal that arrives last wins.
ReceivePresence(s) ==
    /\ s \in Signals \ Activities
    /\ Admitted(s)
    /\ deliveries' = [deliveries EXCEPT ![s] = @ + 1]
    /\ presence' = IF Trusted(s, "integrate_presence") /\ s.actor # None
                   THEN UpdatePresence(s)
                   ELSE presence
    /\ inFlight' = inFlight \cup
           {[signal |-> s, received |-> time, accepted |-> FALSE, pc |-> "assemble", n |-> deliveries[s]]}
    /\ UNCHANGED <<durableJournal, time, restarts, journal, latestActivity, occupants,
                   snapshots, latestSnapshots, context, offered, updates, forgotten>>

\* get_presence_for_actor.
PresenceOf(a) ==
    IF presence[a] # None /\ presence[a].expires # None /\ presence[a].expires <= time
    THEN None ELSE presence[a]

\* _is_recent_activity: an event of the future is recent too.
IsRecent(a) == latestActivity[a] # None /\ time <= latestActivity[a] + RecentWindow

\* _derive_from_presence.
DeriveFromPresence(status, recent) ==
    CASE status = "offline" -> "unavailable"
      [] status = "do_not_disturb" -> "busy"
      [] status \in {"away", "idle"} -> "passive"
      [] status = "online" -> IF recent THEN "available" ELSE "interruptible"
      [] OTHER -> "unknown"

\* AvailabilityResolver.derive, with WorkspaceContextAssembler.assemble's reads.
Availability(a) ==
    IF PresenceOf(a) # None THEN DeriveFromPresence(PresenceOf(a).status, IsRecent(a))
    ELSE IF IsRecent(a) THEN "interruptible" ELSE "unknown"

\* WorkspaceContextAssembler.assemble, the last step before the turn is routed.
Assemble(f) ==
    /\ f \in inFlight
    /\ f.pc = "assemble"
    /\ context' = IF f.signal.actor = None THEN "unknown" ELSE Availability(f.signal.actor)
    /\ inFlight' = inFlight \ {f}
    /\ UNCHANGED <<durableJournal, time, deliveries, restarts, journal, latestActivity, presence,
                   occupants, snapshots, latestSnapshots, offered, updates, forgotten>>

Expired(k) == snapshots[k] # None /\ snapshots[k].expires <= time

\* active_for_target, which drops the expired snapshots before it answers.
ReadInteractions ==
    /\ \E k \in Keys : Expired(k)
    /\ snapshots' = [k \in Keys |-> IF Expired(k) THEN None ELSE snapshots[k]]
    /\ UNCHANGED <<durableJournal, time, deliveries, restarts, journal, inFlight, latestActivity,
                   presence, occupants, latestSnapshots, context, offered, updates, forgotten>>

StateTick ==
    /\ time < MaxTime
    /\ time' = time + 1
    /\ UNCHANGED <<durableJournal, deliveries, restarts, journal, inFlight, latestActivity, presence,
                   occupants, snapshots, latestSnapshots, context, offered, updates, forgotten>>

\* The process ends and another one starts: what is not in SQLite is gone.
StateRestart ==
    /\ restarts < MaxRestarts
    /\ restarts' = restarts + 1
    /\ journal' = IF durableJournal THEN journal ELSE <<>>
    /\ forgotten' = [e \in Events |->
           forgotten[e] + IF durableJournal THEN 0
                          ELSE Cardinality({i \in DOMAIN journal : EventOf(journal[i]) = e})]
    /\ inFlight' = {}
    /\ latestActivity' = [a \in Actors |-> None]
    /\ presence' = [a \in Actors |-> None]
    /\ occupants' = [p \in Spaces |-> {}]
    /\ snapshots' = [k \in Keys |-> None]
    /\ latestSnapshots' = [k \in Keys |-> None]
    /\ offered' = [k \in Keys |-> {}]
    /\ context' = None
    /\ UNCHANGED <<durableJournal, time, deliveries, updates>>

StateNext ==
    \/ \E s \in Signals : ReceiveActivity(s) \/ ReceivePresence(s)
    \/ \E f \in inFlight : Project(f) \/ Assemble(f)
    \/ ReadInteractions
    \/ StateTick
    \/ StateRestart

StateSpec == StateInit /\ [][StateNext]_stateVars

-----------------------------------------------------------------------------
\* Late, repeated and reordered interaction events never roll a projection back,
\* not even after the reader pruned what expired: what the order is decided by is
\* at least as new as every snapshot the process applied.  It needs a source that
\* numbers all of its events or none: the comparison of a numbered snapshot with
\* one that is not is not transitive.
NewestInteractionWins ==
    \A k \in Keys :
        \/ offered[k] = {}
        \/ \E x, y \in offered[k] : x.seq = None /\ y.seq # None
        \/ \A x \in offered[k] : ~IsOlder(latestSnapshots[k], x)

\* An activity event changes the projections once for every time the journal took
\* it in: redelivered under another observation id, or after a restart, it is
\* refused as long as the journal holds it (append, IntegrityError, eviction).
EventsApplyOnce == \A e \in Events : updates[e] <= 1 + forgotten[e]
=============================================================================

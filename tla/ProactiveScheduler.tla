------------------------- MODULE ProactiveScheduler -------------------------
(***************************************************************************)
(* How Iris speaks of its own accord: the idle tick source and its target  *)
(* store, the scheduler runner, the delivery safety gate and the audit     *)
(* journal the gate's repeated-block rule reads.                           *)
(*                                                                         *)
(* An ingress observation registers a target.  The loop starts a run every *)
(* RunPeriod; a run lists the targets that were idle long enough, has the  *)
(* runtime answer an idle tick for each of them in key order, asks the     *)
(* gate, writes the audit record, enqueues the delivery and only then      *)
(* marks the target as attempted.  All of a run uses the time the run was  *)
(* started at.                                                             *)
(*                                                                         *)
(* A date is kept as its age, capped at AgeCap: an age that reached the    *)
(* cap is older than every threshold, and "never" is the cap.              *)
(***************************************************************************)
EXTENDS Naturals, Sequences, FiniteSets, FiniteSetsExt

CONSTANTS
    Target,            \* target keys, 1..n in the store's sort order
    RouteOf,           \* provider, subject and space of a target, without session
    SurfaceOf,         \* the delivery surface the ingress gave a target
    Durable,           \* whether the stores are the SQLite ones
    Mode,              \* safety.mode: "basic", "strict" or "production"
    DeliveryEnabled,   \* delivery.enabled
    DeniedSurfaces,    \* delivery.surface_policy.denied_surfaces
    Outputs,           \* what the runtime may answer: sets of output flags
    Conditions,        \* route conditions the environment may switch on and off
    IdleThreshold, MinInterval, MaxDuePerRun,
    StaleAfter,        \* age at which a target is stale
    BlockWindow,       \* delivery.rate_limit_window_seconds
    BlockThreshold,    \* repeated_block_threshold
    RunPeriod,         \* scheduler interval
    ObservationAges,   \* how old an observation may be when it is integrated
    AgeCap,            \* bound: ages are capped here
    MaxRunTicks,       \* bound: how long a run may take
    MaxFaults          \* bound: failing handlers, failing stores and restarts

RouteConditions ==
    {"availability_busy", "availability_unavailable", "user_opted_out", "user_muted",
     "user_blocked", "interruptions_not_allowed", "verifier_not_available"}

OutputFlags == {"not_sendable", "high_risk", "sensitive", "interruptible"}

ASSUME ProactiveAssumption ==
    /\ Target \subseteq Nat \ {0} /\ IsFiniteSet(Target)
    /\ Durable \in BOOLEAN /\ DeliveryEnabled \in BOOLEAN
    /\ Mode \in {"basic", "strict", "production"}
    /\ Outputs \subseteq SUBSET OutputFlags
    /\ Conditions \subseteq RouteConditions \cup {"quiet_hours"}
    /\ {IdleThreshold, MinInterval, MaxDuePerRun, StaleAfter, BlockWindow, BlockThreshold,
        RunPeriod, AgeCap, MaxRunTicks, MaxFaults} \subseteq Nat
    /\ MaxDuePerRun > 0 /\ BlockThreshold > 0 /\ RunPeriod > 0
    /\ RouteOf \in [Target -> {RouteOf[t] : t \in Target}]
    /\ \A limit \in {IdleThreshold, MinInterval, BlockWindow} : limit + MaxRunTicks < AgeCap
    /\ StaleAfter > AgeCap \/ StaleAfter + MaxRunTicks < AgeCap
    /\ ObservationAges \subseteq 0 .. AgeCap

Route == {RouteOf[t] : t \in Target}

Age == 0 .. AgeCap

VARIABLES
    targets,     \* the target store: known, age of last_observed_at, age of the last attempt
    blocks,      \* the audit journal: blocked deliveries of each route by age
    holding,     \* conditions that hold for each route now
    quiet,       \* whether it is quiet hours now
    sinceRun,    \* age of the last run's start, while the loop sleeps
    run,         \* the run in progress
    faults,
    delivered,   \* history: age of created_at of each target's last delivery
    markLost,    \* history: targets whose last delivery was never marked
    standing     \* history: conditions that held all the time the current target was handled

storeVars == <<targets, blocks>>
environmentVars == <<holding, quiet>>
historyVars == <<delivered, markLost, standing>>
proactiveVars == <<targets, blocks, holding, quiet, sinceRun, run, faults, delivered, markLost, standing>>

-----------------------------------------------------------------------------
NoRun == [pc |-> "sleep", current |-> 0, batch |-> {}, age |-> 0, quiet |-> FALSE,
          output |-> {}, seen |-> {}, reason |-> "allowed", sent |-> FALSE]

Unknown == [known |-> FALSE, idle |-> AgeCap, since |-> AgeCap]

\* list_targets: the targets that are not stale at a time of the given age.
Listed(t, age) == targets[t].known /\ targets[t].idle < StaleAfter + age

IsDue(t, age) ==
    /\ targets[t].idle >= IdleThreshold + age
    /\ targets[t].since >= MinInterval + age

Due == {t \in Target : Listed(t, 0) /\ IsDue(t, 0)}

\* due_observations: the first max_due_per_run due targets in key order.
DueObservations ==
    {t \in Due : Cardinality({u \in Due : u < t}) < MaxDuePerRun}

Current == run.current

CurrentRoute == RouteOf[Current]


\* recent_block_count with since = now - window.
RecentBlockCount(r) ==
    MapThenSumSet(LAMBDA a : blocks[r][a], {a \in Age : a <= BlockWindow + run.age})

\* The SQLite target store has no column for the surface: what it reads back
\* is always UNKNOWN.
StoredSurface(t) == IF Durable THEN "unknown" ELSE SurfaceOf[t]

-----------------------------------------------------------------------------
\* The first of an ordered list of checks that holds, or "allowed".
FirstReason(order, holds) ==
    LET failing == SelectSeq(order, LAMBDA reason : reason \in holds)
    IN  IF failing = <<>> THEN "allowed" ELSE Head(failing)

BasicChecks == <<"availability_busy", "availability_unavailable", "quiet_hours">>

\* Mutant: quiet hours are left out of the strict policy.
NoisyStrictChecks == <<"high_risk", "sensitive", "availability_busy",
                       "availability_unavailable", "repeated_recent_blocks">>

StrictChecks ==
    <<"high_risk", "sensitive", "availability_busy", "availability_unavailable",
      "quiet_hours", "repeated_recent_blocks">>

ProductionChecks ==
    <<"unknown_delivery_surface", "surface_denied", "user_opted_out", "user_muted",
      "user_blocked", "interruptions_disabled", "verifier_not_available">>

\* What the production gate finds when it looks at surface, user control and verifier.
ProductionHolds ==
    (IF StoredSurface(Current) = "unknown" THEN {"unknown_delivery_surface"} ELSE {})
    \cup (IF StoredSurface(Current) \in DeniedSurfaces THEN {"surface_denied"} ELSE {})
    \cup (IF "interruptible" \in run.output
             /\ "interruptions_not_allowed" \in holding[CurrentRoute]
          THEN {"interruptions_disabled"} ELSE {})
    \cup holding[CurrentRoute]

\* What was read before the gate was asked, with quiet hours judged at the run's time.
PolicyHolds ==
    run.seen \cup run.output \cup (IF run.quiet THEN {"quiet_hours"} ELSE {})

GateReason ==
    CASE Mode = "basic" -> FirstReason(BasicChecks, PolicyHolds)
      [] Mode = "strict" -> FirstReason(StrictChecks, PolicyHolds)
      [] OTHER ->
           LET production == FirstReason(ProductionChecks, ProductionHolds)
           IN  IF production # "allowed" THEN production
               ELSE FirstReason(StrictChecks, PolicyHolds)

-----------------------------------------------------------------------------
ProactiveInit ==
    /\ targets = [t \in Target |-> Unknown]
    /\ blocks = [r \in Route |-> [a \in Age |-> 0]]
    /\ holding = [r \in Route |-> {}]
    /\ quiet = FALSE
    /\ sinceRun = 0
    /\ run = NoRun
    /\ faults = 0
    /\ delivered = [t \in Target |-> AgeCap]
    /\ markLost = {}
    /\ standing = {}

\* Mutant: registering a target again forgets its last attempt.
ObserveAnew(t, age) ==
    /\ targets' = [targets EXCEPT ![t] = [known |-> TRUE, idle |-> age, since |-> AgeCap]]
    /\ UNCHANGED <<blocks, environmentVars, sinceRun, run, faults, historyVars>>

\* An authenticated ingress with a route upserts its target.  The observation
\* may be older than one seen before: last_observed_at is overwritten anyway.
Observe(t, age) ==
    /\ targets' = [targets EXCEPT ![t] = [known |-> TRUE, idle |-> age, since |-> @.since]]
    /\ UNCHANGED <<blocks, environmentVars, sinceRun, run, faults, historyVars>>

\* Presence, user control or the verifier's state change.
Switch(r, c) ==
    /\ c # "quiet_hours"
    /\ holding' = [holding EXCEPT ![r] = IF c \in @ THEN @ \ {c} ELSE @ \cup {c}]
    /\ standing' = IF run.pc # "sleep" /\ r = CurrentRoute THEN standing \ {c} ELSE standing
    /\ UNCHANGED <<storeVars, quiet, sinceRun, run, faults, delivered, markLost>>

SwitchQuietHours ==
    /\ "quiet_hours" \in Conditions
    /\ quiet' = ~quiet
    /\ UNCHANGED <<storeVars, holding, sinceRun, run, faults, historyVars>>

-----------------------------------------------------------------------------
\* The loop of run_once: the first of the targets that are left is next.
Proceed(left, age, atQuiet) ==
    \/ /\ left = {}
       /\ run' = NoRun
       /\ standing' = {}
    \/ \E t \in left :
         /\ \A u \in left : t <= u
         /\ run' = [NoRun EXCEPT !.pc = "handle", !.current = t, !.batch = left \ {t},
                                !.age = age, !.quiet = atQuiet]
         /\ standing' = holding[RouteOf[t]]

NextTarget == Proceed(run.batch, run.age, run.quiet)

StartRun ==
    /\ run.pc = "sleep"
    /\ sinceRun' = 0
    /\ Proceed(DueObservations, 0, quiet)
    /\ UNCHANGED <<storeVars, environmentVars, faults, delivered, markLost>>

\* handle_observation returned: not sendable or delivery disabled goes straight
\* to the mark, everything else to the gate.
HandleObservation(output) ==
    /\ run.pc = "handle"
    /\ run' = [run EXCEPT !.output = output,
                          !.pc = IF "not_sendable" \in output \/ ~DeliveryEnabled
                                 THEN "mark" ELSE "read"]
    /\ UNCHANGED <<storeVars, environmentVars, sinceRun, faults, historyVars>>

\* handle_observation raised: mark_failed records it in the process only, so
\* the target stays due.
MarkFailed ==
    /\ run.pc = "handle"
    /\ faults < MaxFaults
    /\ faults' = faults + 1
    /\ NextTarget
    /\ UNCHANGED <<storeVars, environmentVars, sinceRun, delivered, markLost>>

\* Availability and the recent blocks of the route are read.  Only this runner
\* writes delivery blocks, so the two reads are one step.
ReadConditions ==
    /\ run.pc = "read"
    /\ run' = [run EXCEPT
         !.pc = "check",
         !.seen = (holding[CurrentRoute] \cap {"availability_busy", "availability_unavailable"})
                  \cup (IF RecentBlockCount(CurrentRoute) >= BlockThreshold
                        THEN {"repeated_recent_blocks"} ELSE {})]
    /\ UNCHANGED <<storeVars, environmentVars, sinceRun, faults, historyVars>>

CheckGate ==
    /\ run.pc = "check"
    /\ run' = [run EXCEPT !.pc = "audit", !.reason = GateReason, !.seen = {}, !.output = {}]
    /\ UNCHANGED <<storeVars, environmentVars, sinceRun, faults, historyVars>>

\* The audit record is written before anything is enqueued or marked.
Audit ==
    /\ run.pc = "audit"
    /\ IF run.reason = "allowed"
       THEN /\ run' = [run EXCEPT !.pc = "enqueue"]
            /\ UNCHANGED blocks
       ELSE /\ run' = [run EXCEPT !.pc = "mark"]
            /\ blocks' = [blocks EXCEPT ![CurrentRoute][run.age] =
                            IF @ < BlockThreshold THEN @ + 1 ELSE @]
    /\ UNCHANGED <<targets, environmentVars, sinceRun, faults, historyVars>>

Enqueue ==
    /\ run.pc = "enqueue"
    /\ run' = [run EXCEPT !.pc = "mark", !.sent = TRUE]
    /\ delivered' = [delivered EXCEPT ![Current] = run.age]
    /\ markLost' = markLost \ {Current}
    /\ UNCHANGED <<storeVars, environmentVars, sinceRun, faults, standing>>


\* mark_dispatched looks the target up among those listed at the run's time.
MarkDispatched ==
    /\ run.pc = "mark"
    /\ IF Listed(Current, run.age)
       THEN /\ targets' = [targets EXCEPT ![Current].since = run.age]
            /\ UNCHANGED markLost
       ELSE /\ UNCHANGED targets
            /\ markLost' = IF run.sent THEN markLost \cup {Current} ELSE markLost
    /\ NextTarget
    /\ UNCHANGED <<blocks, environmentVars, sinceRun, faults, delivered>>

\* A store, the outbox or the runtime raises an error run_once does not catch:
\* the loop logs it and the rest of the batch is dropped.
AbortRun ==
    /\ run.pc # "sleep"
    /\ faults < MaxFaults
    /\ faults' = faults + 1
    /\ run' = NoRun
    /\ markLost' = IF run.sent THEN markLost \cup {Current} ELSE markLost
    /\ standing' = {}
    /\ UNCHANGED <<storeVars, environmentVars, sinceRun, delivered>>

\* The process stops and starts again, with or without the stores' contents.
Restart ==
    /\ faults < MaxFaults
    /\ faults' = faults + 1
    /\ run' = NoRun
    /\ sinceRun' = 0
    /\ standing' = {}
    /\ IF Durable
       THEN /\ markLost' = IF run.sent THEN markLost \cup {Current} ELSE markLost
            /\ UNCHANGED <<targets, blocks>>
       ELSE /\ markLost' = Target
            /\ targets' = [t \in Target |-> Unknown]
            /\ blocks' = [r \in Route |-> [a \in Age |-> 0]]
    /\ UNCHANGED <<environmentVars, delivered>>

Older(age) == IF age < AgeCap THEN age + 1 ELSE AgeCap

\* Time passes, but the loop never sleeps for longer than its period.
Tick ==
    /\ IF run.pc = "sleep"
       THEN sinceRun < RunPeriod /\ UNCHANGED run
       ELSE run.age < MaxRunTicks /\ run' = [run EXCEPT !.age = @ + 1]
    /\ sinceRun' = IF sinceRun < RunPeriod THEN sinceRun + 1 ELSE RunPeriod
    /\ targets' = [t \in Target |->
                     [targets[t] EXCEPT !.idle = Older(@), !.since = Older(@)]]
    /\ blocks' = [r \in Route |->
                    [a \in Age |-> IF a = 0 \/ a = AgeCap THEN 0 ELSE blocks[r][a - 1]]]
    /\ delivered' = [t \in Target |-> Older(delivered[t])]
    /\ UNCHANGED <<environmentVars, faults, markLost, standing>>

RunnerStep ==
    \/ \E output \in Outputs : HandleObservation(output)
    \/ ReadConditions
    \/ CheckGate
    \/ Audit
    \/ Enqueue
    \/ MarkDispatched

ProactiveNext ==
    \/ \E t \in Target, age \in ObservationAges : Observe(t, age)
    \/ \E r \in Route, c \in Conditions : Switch(r, c)
    \/ SwitchQuietHours
    \/ StartRun
    \/ RunnerStep
    \/ MarkFailed
    \/ AbortRun
    \/ Restart
    \/ Tick

\* The loop always comes round, its run always goes on and time passes; users,
\* conditions and faults owe nothing.
ProactiveSpec ==
    /\ ProactiveInit /\ [][ProactiveNext]_proactiveVars
    /\ WF_proactiveVars(StartRun) /\ WF_proactiveVars(RunnerStep) /\ WF_proactiveVars(Tick)

-----------------------------------------------------------------------------
RunPc == {"sleep", "handle", "read", "check", "audit", "enqueue", "mark"}

\* What keeps deliveries apart: an attempt that was recorded is no older than
\* the delivery it goes with, and the targets of a run were due at its time.
AttemptsCoverDeliveries ==
    /\ \A t \in Target \ markLost :
          ~(run.sent /\ run.current = t) => targets[t].since <= delivered[t]
    /\ run.sent => run.age <= delivered[run.current]
    /\ run.pc # "sleep" => targets[run.current].since >= MinInterval + run.age
    /\ \A t \in run.batch : targets[t].since >= MinInterval + run.age

\* A target receives two proactive deliveries closer together than
\* min_interval_per_target_seconds only if the attempt that goes with the first
\* was never recorded.
SpacedUnlessMarkLost ==
    [][\A t \in Target :
         Enqueue /\ Current = t =>
             delivered[t] >= MinInterval + run.age \/ t \in markLost]_proactiveVars

\* The conditions the configured gate refuses a delivery for.
Refused ==
    CASE Mode = "production" -> RouteConditions \ {"interruptions_not_allowed"}
      [] OTHER -> {"availability_busy", "availability_unavailable"}

\* Nothing is enqueued against a refusal that stood all the time the target was
\* handled, or in a run that started in quiet hours: what the gate read before
\* an await may be out of date by then, but not older than that.
NothingSentAgainstRefusal ==
    [][Enqueue => /\ standing \cap Refused = {}
                  /\ ~run.quiet]_proactiveVars


ClearRoute(t) ==
    /\ targets[t].known /\ targets[t].idle >= IdleThreshold + MaxRunTicks
    /\ holding[RouteOf[t]] = {} /\ ~quiet
    /\ run.output \subseteq {"interruptible"}


\* A surface the ingress recognised is the surface the gate judges.
KnownSurfaceNotUnknown ==
    run.reason = "unknown_delivery_surface" => SurfaceOf[Current] = "unknown"
=============================================================================

-------------------------- MODULE InitiativeProofs --------------------------
(***************************************************************************)
(* What the runtime does that nobody asked for: it speaks to targets that  *)
(* have been idle, and it keeps what it has learned once a reviewer has    *)
(* approved it.                                                            *)
(***************************************************************************)
EXTENDS ProactiveScheduler, CandidateReview, FiniteSetTheorems, TLAPS

-----------------------------------------------------------------------------
(***************************************************************************)
(* Proactive deliveries of one target are MinInterval apart unless the     *)
(* mark of the earlier one was lost, for any number of targets, any        *)
(* thresholds and any number of faults.                                    *)
(***************************************************************************)
\* The part of the state the argument is about.
SpacingTypeOK ==
    /\ targets \in [Target -> [known: BOOLEAN, idle: Age, since: Age]]
    /\ DOMAIN run = DOMAIN NoRun
    /\ run.pc \in RunPc
    /\ run.current \in IF run.pc = "sleep" THEN {0} ELSE Target
    /\ run.batch \subseteq Target \ {run.current}
    /\ run.age \in 0 .. MaxRunTicks
    /\ run.sent \in BOOLEAN
    /\ run.sent => run.pc = "mark"
    /\ delivered \in [Target -> Age]
    /\ markLost \subseteq Target

SpacingInv == SpacingTypeOK /\ AttemptsCoverDeliveries

\* What the proofs need of the constants.
LEMMA ProactiveConstants ==
    /\ Target \subseteq Nat \ {0}
    /\ AgeCap \in Nat /\ MinInterval \in Nat /\ MaxRunTicks \in Nat
    /\ MinInterval + MaxRunTicks < AgeCap
    /\ Age = 0 .. AgeCap
    /\ ObservationAges \subseteq Age
  BY ProactiveAssumption DEF ProactiveAssumption, Age

\* Growing older keeps ages in range and in order.
LEMMA OlderAge ==
    ASSUME NEW a \in Age
    PROVE  /\ Older(a) \in Age
           /\ \A b \in Age : b <= a => Older(b) <= Older(a)
           /\ \A n \in 0 .. MaxRunTicks - 1 : a >= MinInterval + n => Older(a) >= MinInterval + n + 1
           /\ \A n \in 0 .. MaxRunTicks - 1 : a >= n => Older(a) >= n + 1
  BY ProactiveConstants, SMTT(30) DEF Older

\* Every state of the loop of run_once is a state of the invariant when the
\* targets that are left are due and the current one is settled.
LEMMA ProceedInv ==
    ASSUME NEW left \in SUBSET Target, NEW age \in 0 .. MaxRunTicks, NEW atQuiet,
           Proceed(left, age, atQuiet),
           targets' \in [Target -> [known: BOOLEAN, idle: Age, since: Age]],
           delivered' \in [Target -> Age],
           markLost' \subseteq Target,
           \A t \in left : targets'[t].since >= MinInterval + age,
           \A t \in Target \ markLost' : targets'[t].since <= delivered'[t]
    PROVE  SpacingInv'
<1>1. CASE left = {} /\ run' = NoRun
  BY <1>1, ProactiveConstants
     DEF SpacingInv, SpacingTypeOK, AttemptsCoverDeliveries, NoRun, RunPc
<1>2. CASE \E t \in left :
             run' = [NoRun EXCEPT !.pc = "handle", !.current = t, !.batch = left \ {t},
                                  !.age = age, !.quiet = atQuiet]
  <2>1. PICK t \in left :
             run' = [NoRun EXCEPT !.pc = "handle", !.current = t, !.batch = left \ {t},
                                  !.age = age, !.quiet = atQuiet]
    BY Zenon, <1>2
  <2>2. /\ DOMAIN run' = DOMAIN NoRun
        /\ run'.pc = "handle" /\ run'.current = t /\ run'.batch = left \ {t}
        /\ run'.age = age /\ run'.sent = FALSE
    BY <2>1 DEF NoRun
  <2>3. SpacingTypeOK'
    BY Zenon, <2>2 DEF SpacingTypeOK, RunPc
  <2>4. AttemptsCoverDeliveries'
    BY <2>2 DEF AttemptsCoverDeliveries
  <2> QED
    BY <2>3, <2>4 DEF SpacingInv
<1> QED
  BY Zenon, <1>1, <1>2 DEF Proceed

\* Initially nothing is known and nothing was sent.
LEMMA ProactiveInitInv == ProactiveInit => SpacingInv
  BY ProactiveConstants
     DEF ProactiveInit, SpacingInv, SpacingTypeOK, AttemptsCoverDeliveries, NoRun, RunPc, Unknown

\* A run that ends by an error or a restart leaves its unmarked delivery behind
\* as a lost mark.
LEMMA DroppedRunInv ==
    ASSUME SpacingInv,
           run' = NoRun,
           markLost' = IF run.sent THEN markLost \cup {Current} ELSE markLost,
           UNCHANGED <<targets, delivered>>
    PROVE  SpacingInv'
<1>1. markLost' \subseteq Target
  BY DEF SpacingInv, SpacingTypeOK, Current
<1>2. \A t \in Target \ markLost' : targets[t].since <= delivered[t]
  BY DEF SpacingInv, SpacingTypeOK, AttemptsCoverDeliveries, Current
<1> QED
  BY <1>1, <1>2, ProactiveConstants
     DEF SpacingInv, SpacingTypeOK, AttemptsCoverDeliveries, NoRun, RunPc

\* Every step of the system keeps attempts in step with deliveries.
LEMMA ProactiveNextInv == SpacingInv /\ [ProactiveNext]_proactiveVars => SpacingInv'
<1> SUFFICES ASSUME SpacingInv, [ProactiveNext]_proactiveVars PROVE SpacingInv'
  OBVIOUS
<1> USE ProactiveConstants
<1>a. SpacingTypeOK /\ AttemptsCoverDeliveries
  BY DEF SpacingInv
<1>1. ASSUME NEW t \in Target, NEW age \in ObservationAges, Observe(t, age) PROVE SpacingInv'
  <2>1. /\ targets' \in [Target -> [known: BOOLEAN, idle: Age, since: Age]]
        /\ \A u \in Target : targets'[u].since = targets[u].since
    <3>1. age \in Age /\ targets[t].since \in Age
      BY <1>1, <1>a DEF SpacingTypeOK
    <3>2. targets' = [targets EXCEPT ![t] = [known |-> TRUE, idle |-> age, since |-> targets[t].since]]
      BY <1>1 DEF Observe
    <3> QED
      BY <3>1, <3>2, <1>a DEF SpacingTypeOK
  <2>2. UNCHANGED <<run, delivered, markLost>>
    BY <1>1 DEF Observe, historyVars
  <2> QED
    BY Zenon, <1>a, <2>1, <2>2 DEF SpacingInv, SpacingTypeOK, AttemptsCoverDeliveries
<1>2. ASSUME NEW r \in Route, NEW c \in Conditions, Switch(r, c) PROVE SpacingInv'
  BY <1>2, <1>a DEF Switch, SpacingInv, SpacingTypeOK, AttemptsCoverDeliveries, storeVars
<1>3. CASE SwitchQuietHours
  BY <1>3, <1>a
     DEF SwitchQuietHours, SpacingInv, SpacingTypeOK, AttemptsCoverDeliveries, storeVars, historyVars
<1>4. CASE StartRun
  <2>1. DueObservations \in SUBSET Target
    BY DEF DueObservations, Due
  <2>2. \A t \in DueObservations : targets[t].since >= MinInterval + 0
    BY <1>a DEF DueObservations, Due, IsDue, SpacingTypeOK
  <2>3. \A t \in Target \ markLost : targets[t].since <= delivered[t]
    BY <1>4, <1>a DEF StartRun, SpacingTypeOK, AttemptsCoverDeliveries
  <2>4. UNCHANGED <<targets, delivered, markLost>> /\ Proceed(DueObservations, 0, quiet)
    BY <1>4 DEF StartRun, storeVars
  <2>5. 0 \in 0 .. MaxRunTicks
    OBVIOUS
  <2>6. /\ targets' \in [Target -> [known: BOOLEAN, idle: Age, since: Age]]
        /\ delivered' \in [Target -> Age]
        /\ markLost' \subseteq Target
    BY <1>a, <2>4 DEF SpacingTypeOK
  <2>7. /\ \A t \in DueObservations : targets'[t].since >= MinInterval + 0
        /\ \A t \in Target \ markLost' : targets'[t].since <= delivered'[t]
    BY Zenon, <2>2, <2>3, <2>4
  <2> HIDE DEF DueObservations
  <2> QED
    BY <2>1, <2>4, <2>5, <2>6, <2>7, ProceedInv, Zenon
<1>5. ASSUME NEW output \in Outputs, HandleObservation(output) PROVE SpacingInv'
  BY <1>5, <1>a
     DEF HandleObservation, SpacingInv, SpacingTypeOK, AttemptsCoverDeliveries, storeVars,
         historyVars, RunPc, NoRun
<1>6. CASE ReadConditions
  BY <1>6, <1>a
     DEF ReadConditions, SpacingInv, SpacingTypeOK, AttemptsCoverDeliveries, storeVars,
         historyVars, RunPc, NoRun
<1>7. CASE CheckGate
  BY <1>7, <1>a
     DEF CheckGate, SpacingInv, SpacingTypeOK, AttemptsCoverDeliveries, storeVars,
         historyVars, RunPc, NoRun
<1>8. CASE Audit
  <2>1. UNCHANGED <<targets, delivered, markLost>> /\ run.pc = "audit"
    BY <1>8 DEF Audit, historyVars
  <2>2. \E pc \in {"enqueue", "mark"} : run' = [run EXCEPT !.pc = pc]
    BY <1>8 DEF Audit
  <2>3. /\ DOMAIN run' = DOMAIN run /\ run'.pc \in {"enqueue", "mark"} /\ run'.sent = run.sent
        /\ run'.current = run.current /\ run'.batch = run.batch /\ run'.age = run.age
    BY <2>2, <1>a DEF SpacingTypeOK, NoRun
  <2> QED
    BY <2>1, <2>3, <1>a DEF SpacingInv, SpacingTypeOK, AttemptsCoverDeliveries, RunPc
<1>9. CASE Enqueue
  <2>1. /\ run.current \in Target
        /\ run' = [run EXCEPT !.pc = "mark", !.sent = TRUE]
        /\ delivered' = [delivered EXCEPT ![run.current] = run.age]
        /\ markLost' = markLost \ {run.current}
        /\ UNCHANGED targets
    BY <1>9, <1>a DEF Enqueue, Current, SpacingTypeOK, storeVars
  <2>2. /\ DOMAIN run' = DOMAIN run /\ run'.pc = "mark" /\ run'.sent = TRUE
        /\ run'.current = run.current /\ run'.batch = run.batch /\ run'.age = run.age
    BY <2>1, <1>a DEF SpacingTypeOK, NoRun
  <2>3. run.age \in Age
    BY <1>a DEF SpacingTypeOK
  <2>4. SpacingTypeOK'
    BY <1>a, <2>1, <2>2, <2>3 DEF SpacingTypeOK, RunPc
  <2>5. AttemptsCoverDeliveries'
    BY SMTT(30), <1>a, <1>9, <2>1, <2>2, <2>3 DEF SpacingTypeOK, AttemptsCoverDeliveries, Enqueue
  <2> QED
    BY <2>4, <2>5 DEF SpacingInv
<1>10. CASE MarkDispatched
  <2>1. /\ run.pc = "mark" /\ run.current \in Target /\ run.batch \subseteq Target \ {run.current}
        /\ run.age \in Age
    BY SMTT(30), <1>10, <1>a DEF MarkDispatched, SpacingTypeOK
  <2>2. /\ targets' \in [Target -> [known: BOOLEAN, idle: Age, since: Age]]
        /\ \A t \in Target \ {run.current} : targets'[t].since = targets[t].since
        /\ Listed(run.current, run.age) => targets'[run.current].since = run.age
        /\ ~Listed(run.current, run.age) => targets' = targets
    <3>1. CASE Listed(run.current, run.age)
      <4>1. targets' = [targets EXCEPT ![run.current] = [targets[run.current] EXCEPT !.since = run.age]]
        BY <1>10, <3>1 DEF MarkDispatched, Current
      <4>2. /\ [targets[run.current] EXCEPT !.since = run.age] \in [known: BOOLEAN, idle: Age, since: Age]
            /\ [targets[run.current] EXCEPT !.since = run.age].since = run.age
        BY ZenonT(40), <1>a, <2>1 DEF SpacingTypeOK
      <4> QED
        BY SMTT(30), <1>a, <2>1, <3>1, <4>1, <4>2 DEF SpacingTypeOK
    <3>2. CASE ~Listed(run.current, run.age)
      BY <1>10, <1>a, <2>1, <3>2 DEF MarkDispatched, Current, SpacingTypeOK
    <3> QED
      BY <3>1, <3>2
  <2>3. /\ delivered' = delivered
        /\ markLost' = IF run.sent /\ ~Listed(run.current, run.age)
                       THEN markLost \cup {run.current} ELSE markLost
        /\ Proceed(run.batch, run.age, run.quiet)
    BY <1>10 DEF MarkDispatched, Current, NextTarget
  <2>4. \A t \in run.batch : targets'[t].since >= MinInterval + run.age
    BY Zenon, <1>a, <2>1, <2>2 DEF AttemptsCoverDeliveries
  <2>5. \A t \in Target \ markLost' : targets'[t].since <= delivered'[t]
    <3> SUFFICES ASSUME NEW t \in Target \ markLost' PROVE targets'[t].since <= delivered'[t]
      OBVIOUS
    <3>1. t \in Target /\ t \notin markLost
      BY <2>3
    <3>2. CASE t # run.current
      BY SMTT(30), <1>a, <2>2, <2>3, <3>1, <3>2 DEF AttemptsCoverDeliveries
    <3>3. CASE t = run.current /\ run.sent
      BY <1>a, <2>2, <2>3, <3>1, <3>3 DEF AttemptsCoverDeliveries
    <3>4. CASE t = run.current /\ ~run.sent /\ ~Listed(t, run.age)
      BY Zenon, <1>a, <2>2, <2>3, <3>1, <3>4 DEF AttemptsCoverDeliveries
    <3>5. CASE t = run.current /\ ~run.sent /\ Listed(t, run.age)
      <4>1. targets[t].since <= delivered[t] /\ targets[t].since >= MinInterval + run.age
        BY Zenon, <1>a, <2>1, <3>1, <3>5 DEF AttemptsCoverDeliveries
      <4>2. targets[t].since \in Nat /\ delivered[t] \in Nat /\ run.age \in Nat
        BY <1>a, <2>1, <3>1 DEF SpacingTypeOK
      <4>3. run.age <= delivered[t]
        BY <4>1, <4>2
      <4> QED
        BY <2>2, <2>3, <3>5, <4>3
    <3> QED
      BY <1>a, <3>2, <3>3, <3>4, <3>5 DEF SpacingTypeOK
  <2> QED
    BY SMTT(30), <1>a, <2>1, <2>2, <2>3, <2>4, <2>5, ProceedInv DEF SpacingTypeOK
<1>11. CASE MarkFailed
  <2>1. /\ run.batch \in SUBSET Target /\ run.age \in 0 .. MaxRunTicks
        /\ Proceed(run.batch, run.age, run.quiet)
        /\ UNCHANGED <<targets, delivered, markLost>>
    BY <1>11, <1>a DEF MarkFailed, NextTarget, SpacingTypeOK, storeVars
  <2>2. \A t \in Target \ markLost : targets[t].since <= delivered[t]
    BY <1>11, <1>a DEF MarkFailed, SpacingTypeOK, AttemptsCoverDeliveries
  <2>3. \A t \in run.batch : targets[t].since >= MinInterval + run.age
    BY <1>a DEF AttemptsCoverDeliveries
  <2> QED
    BY <1>a, <2>1, <2>2, <2>3, ProceedInv, SMTT(30) DEF SpacingTypeOK
<1>12. CASE AbortRun
  BY <1>12, DroppedRunInv DEF AbortRun, storeVars
<1>13. CASE Restart
  <2>1. CASE Durable
    BY <1>13, <2>1, DroppedRunInv DEF Restart
  <2>2. CASE ~Durable
    <3>1. /\ markLost' = Target /\ run' = NoRun /\ delivered' = delivered
          /\ targets' = [t \in Target |-> Unknown]
      BY <1>13, <2>2 DEF Restart
    <3>2. Unknown \in [known: BOOLEAN, idle: Age, since: Age]
      BY DEF Unknown
    <3>3. SpacingTypeOK'
      BY <1>a, <3>1, <3>2 DEF SpacingTypeOK, NoRun, RunPc
    <3>4. AttemptsCoverDeliveries'
      BY <3>1 DEF AttemptsCoverDeliveries, NoRun
    <3> QED
      BY <3>3, <3>4 DEF SpacingInv
  <2> QED
    BY <2>1, <2>2
<1>14. CASE Tick
  <2>1. /\ targets' \in [Target -> [known: BOOLEAN, idle: Age, since: Age]]
        /\ \A t \in Target : targets'[t].since = Older(targets[t].since)
    <3>1. \A t \in Target : /\ targets[t] \in [known: BOOLEAN, idle: Age, since: Age]
                            /\ Older(targets[t].idle) \in Age /\ Older(targets[t].since) \in Age
      BY ZenonT(40), <1>a, OlderAge DEF SpacingTypeOK
    <3> QED
      BY Zenon, <1>14, <3>1 DEF Tick
  <2>2. delivered' \in [Target -> Age] /\ \A t \in Target : delivered'[t] = Older(delivered[t])
    BY Zenon, <1>14, <1>a, OlderAge DEF Tick, SpacingTypeOK
  <2>3. markLost' = markLost
    BY Zenon, <1>14 DEF Tick
  <2>4. \A t \in Target : targets[t].since \in Age /\ delivered[t] \in Age
    BY <1>a DEF SpacingTypeOK
  <2>5. CASE run.pc = "sleep"
    <3>1. run' = run /\ ~run.sent /\ run.age \in 0 .. MaxRunTicks
      BY Zenon, <1>14, <1>a, <2>5 DEF Tick, SpacingTypeOK
    <3>2. SpacingTypeOK'
      BY SMTT(30), <1>a, <2>1, <2>2, <2>3, <3>1 DEF SpacingTypeOK
    <3>3. \A t \in Target \ markLost' : targets'[t].since <= delivered'[t]
      BY SMTT(30), <1>a, <2>1, <2>2, <2>3, <2>4, <3>1, OlderAge DEF AttemptsCoverDeliveries
    <3>4. \A t \in run.batch : targets'[t].since >= MinInterval + run.age
      <4> SUFFICES ASSUME NEW t \in run.batch PROVE targets'[t].since >= MinInterval + run.age
        OBVIOUS
      <4>1. t \in Target /\ targets[t].since >= MinInterval + run.age
        BY <1>a DEF SpacingTypeOK, AttemptsCoverDeliveries
      <4>2. Older(targets[t].since) >= targets[t].since
        <5>1. PICK s \in Age : s = targets[t].since
          BY <2>4, <4>1
        <5>2. Older(s) >= s
          BY ProactiveConstants DEF Older
        <5> QED
          BY <5>1, <5>2
      <4>3. targets[t].since \in Age /\ run.age \in Nat
        BY <2>4, <3>1, <4>1
      <4>4. Older(targets[t].since) \in Age
        BY <4>3, OlderAge
      <4>5. Older(targets[t].since) >= MinInterval + run.age
        BY <4>1, <4>2, <4>3, <4>4
      <4> QED
        BY <2>1, <4>1, <4>5
    <3>5. AttemptsCoverDeliveries'
      BY <2>5, <3>1, <3>3, <3>4 DEF AttemptsCoverDeliveries
    <3> QED
      BY Zenon, <3>2, <3>5 DEF SpacingInv
  <2>6. CASE run.pc # "sleep"
    <3>1. run.age \in 0 .. MaxRunTicks - 1 /\ run' = [run EXCEPT !.age = @ + 1]
      <4>1. run.age < MaxRunTicks /\ run' = [run EXCEPT !.age = run.age + 1]
        BY Zenon, <1>14, <2>6 DEF Tick
      <4>2. run.age \in 0 .. MaxRunTicks
        BY <1>a DEF SpacingTypeOK
      <4>3. run.age \in 0 .. MaxRunTicks - 1
        BY <4>1, <4>2
      <4> QED
        BY Zenon, <4>1, <4>3
    <3>2. /\ DOMAIN run' = DOMAIN run /\ run'.pc = run.pc /\ run'.sent = run.sent
          /\ run'.current = run.current /\ run'.batch = run.batch /\ run'.age = run.age + 1
      BY <3>1, <1>a DEF SpacingTypeOK, NoRun
    <3>3. SpacingTypeOK'
      <4>1. run'.age \in 0 .. MaxRunTicks
        BY <3>1, <3>2
      <4> QED
        BY <1>a, <2>1, <2>2, <2>3, <3>2, <4>1 DEF SpacingTypeOK
    <3>4. run.current \in Target /\ run.batch \subseteq Target
      BY <1>a, <2>6 DEF SpacingTypeOK
    <3>5. AttemptsCoverDeliveries'
      <4>1. \A t \in Target \ markLost :
               ~(run.sent /\ run.current = t) => Older(targets[t].since) <= Older(delivered[t])
        BY Zenon, <1>a, <2>4, OlderAge DEF AttemptsCoverDeliveries
      <4>2. run.sent => run.age + 1 <= Older(delivered[run.current])
        BY <1>a, <2>4, <3>1, <3>4, OlderAge DEF AttemptsCoverDeliveries
      <4>3. ASSUME NEW t \in Target, targets[t].since >= MinInterval + run.age
            PROVE  targets'[t].since >= MinInterval + (run.age + 1)
        BY <2>1, <2>4, <3>1, <4>3, OlderAge, SMTT(30)
      <4> QED
        BY Zenon, <1>a, <2>1, <2>2, <2>3, <2>6, <3>2, <3>4, <4>1, <4>2, <4>3 DEF AttemptsCoverDeliveries
    <3> QED
      BY <3>3, <3>5 DEF SpacingInv
  <2> QED
    BY Zenon, <2>5, <2>6
<1>15. CASE UNCHANGED proactiveVars
  BY <1>15, <1>a DEF proactiveVars, SpacingInv, SpacingTypeOK, AttemptsCoverDeliveries
<1> QED
  BY <1>1, <1>2, <1>3, <1>4, <1>5, <1>6, <1>7, <1>8, <1>9, <1>10, <1>11, <1>12, <1>13, <1>14, <1>15
     DEF ProactiveNext, RunnerStep

\* An attempt that was recorded is no older than the delivery it goes with, in
\* every reachable state.
THEOREM AttemptsCoverDeliveriesHolds == ProactiveSpec => []AttemptsCoverDeliveries
<1>1. SpacingInv => AttemptsCoverDeliveries
  BY DEF SpacingInv
<1> QED
  BY <1>1, ProactiveInitInv, ProactiveNextInv, PTL DEF ProactiveSpec

\* IdleTickSource keeps proactive deliveries of a target MinInterval apart,
\* unless the mark of the earlier one was lost.
THEOREM SpacingHolds == ProactiveSpec => SpacedUnlessMarkLost
<1>1. SpacingInv /\ [ProactiveNext]_proactiveVars =>
        [\A t \in Target :
           Enqueue /\ Current = t =>
             delivered[t] >= MinInterval + run.age \/ t \in markLost]_proactiveVars
  <2> SUFFICES ASSUME SpacingInv, NEW t \in Target, Enqueue, Current = t, t \notin markLost
               PROVE  delivered[t] >= MinInterval + run.age
    OBVIOUS
  <2>1. run.pc = "enqueue" /\ run.current = t /\ ~run.sent
    BY DEF Enqueue, Current, SpacingInv, SpacingTypeOK
  <2>2. targets[t].since <= delivered[t] /\ targets[t].since >= MinInterval + run.age
    BY <2>1 DEF SpacingInv, AttemptsCoverDeliveries
  <2>3. targets[t].since \in Nat /\ delivered[t] \in Nat /\ run.age \in Nat /\ MinInterval \in Nat
    BY ProactiveConstants DEF SpacingInv, SpacingTypeOK
  <2> QED
    BY <2>2, <2>3
<1> QED
  BY <1>1, ProactiveInitInv, ProactiveNextInv, PTL DEF ProactiveSpec, SpacedUnlessMarkLost

-----------------------------------------------------------------------------
(***************************************************************************)
(* The review of candidates, for any candidates, reviewers, promoters and  *)
(* attributes.                                                             *)
(***************************************************************************)
\* What holds over either store: an approved status was written by a reviewer,
\* a promotion under way is one of an approved and promotable candidate, and
\* it marks the candidate only after the memory record is there.
ApprovalInv ==
    /\ ReviewTypeOK
    /\ \A c \in Cands : review[c].status = "approved" => "approved" \in decided[c]
    /\ \A p \in Promoters :
          promo[p].pc # "idle" => /\ "approved" \in decided[promo[p].cand]
                                  /\ Promotable(promo[p].cand)
    /\ \A p \in Promoters : promo[p].pc = "mark" => memory[promo[p].cand].kept
    /\ RememberedWasApproved
    /\ PromotedIdResolves

\* What the process-local store adds: no decision is ever half done, so a
\* candidate under promotion is approved now, and what its reviewers were told
\* is its status.
LocalInv ==
    /\ \A r \in Reviewers : call[r] = IdleCall
    /\ \A p \in Promoters :
          promo[p].pc # "idle" => review[promo[p].cand].status = "approved"
    /\ \A c \in Cands :
          decided[c] = IF review[c].status \in Decisions THEN {review[c].status} ELSE {}
    /\ \A c \in Cands : memory[c].kept => review[c].status = "approved"

\* The backend is chosen when the process is configured.
LocalIfLocal == ~durable => LocalInv

LEMMA ApprovalInit == Init => ApprovalInv
<1> SUFFICES ASSUME Init PROVE ApprovalInv
    OBVIOUS
<1>1. ReviewTypeOK
    BY DEF Init, ReviewTypeOK, Memories, Forgotten
<1>2. /\ \A c \in Cands : review[c].status = "absent" /\ ~review[c].promoted
      /\ \A c \in Cands : ~memory[c].kept
      /\ \A p \in Promoters : promo[p].pc = "idle"
    BY SMTT(30) DEF Init, Absent, Forgotten, IdlePromo
<1> QED BY <1>1, <1>2 DEF ApprovalInv, RememberedWasApproved, PromotedIdResolves

LEMMA TypeStep == ReviewTypeOK /\ [Next]_vars => ReviewTypeOK'
<1> SUFFICES ASSUME ReviewTypeOK, [Next]_vars PROVE ReviewTypeOK'
    OBVIOUS
<1> USE DEF ReviewTypeOK
<1>b. durable' \in BOOLEAN
    BY DEF Next, vars
<1> USE <1>b
<1>0. ASSUME NEW c \in Cands
      PROVE  /\ review[c].by \in Reviewers \cup {NoOne}
             /\ review[c].promoted \in BOOLEAN
    <2>1. review[c] \in Records \/ review[c] = Absent
        OBVIOUS
    <2>2. CASE review[c] \in Records
        BY <2>2 DEF Records
    <2>3. CASE review[c] = Absent
        BY <2>3 DEF Absent
    <2> QED BY <2>1, <2>2, <2>3
<1>1. ASSUME NEW c \in Cands, NEW st \in {"pending_review"} \cup Decisions,
             NEW by \in Reviewers \cup {NoOne}, NEW pr \in BOOLEAN,
             UpdateReview(c, st, by, pr)
      PROVE  review' \in [Cands -> Records \cup {Absent}]
    <2> DEFINE rec == [status |-> st,
                       by |-> IF by = NoOne THEN review[c].by ELSE by,
                       promoted |-> review[c].promoted \/ pr]
    <2>1. rec \in Records
        BY <1>0 DEF Records
    <2>2. review' = [review EXCEPT ![c] = rec]
        BY <1>1 DEF UpdateReview
    <2> HIDE DEF rec
    <2> QED BY SMTT(30), <2>1, <2>2
<1>2. ASSUME NEW c \in Cands, WorkerStores(c) PROVE ReviewTypeOK'
    <2>1. [Absent EXCEPT !.status = "pending_review"] \in Records
        BY Zenon DEF Absent, Records
    <2> QED BY <1>2, <2>1 DEF WorkerStores, AddNowait
<1>3. ASSUME NEW r \in Reviewers, NEW c \in Cands, NEW t \in Decisions, ApplyAtOnce(r, c, t)
      PROVE ReviewTypeOK'
    <2>1. review' \in [Cands -> Records \cup {Absent}]
        BY Zenon, <1>1, <1>3 DEF ApplyAtOnce
    <2> QED BY Zenon, <1>3, <2>1 DEF ApplyAtOnce
<1>4. ASSUME NEW r \in Reviewers, NEW c \in Cands, NEW t \in Decisions, ApplyRead(r, c, t)
      PROVE ReviewTypeOK'
    BY <1>4 DEF ApplyRead
<1>5. ASSUME NEW r \in Reviewers, ApplyWrite(r) PROVE ReviewTypeOK'
    <2>1. call[r].cand \in Cands /\ call[r].target \in Decisions
        BY <1>5 DEF ApplyWrite, IdleCall
    <2>2. review' \in [Cands -> Records \cup {Absent}]
        BY Zenon, <1>1, <1>5, <2>1 DEF ApplyWrite
    <2> QED BY Zenon, <1>5, <2>1, <2>2 DEF ApplyWrite
<1>6. ASSUME NEW p \in Promoters, NEW c \in Cands, PromoteRead(p, c) PROVE ReviewTypeOK'
    BY <1>0, <1>6 DEF PromoteRead
<1>7. ASSUME NEW p \in Promoters, promo[p].pc # "idle"
      PROVE  promo[p].cand \in Cands /\ promo[p].by \in Reviewers \cup {NoOne}
    BY <1>7 DEF IdlePromo
<1>8. ASSUME NEW p \in Promoters, PromoteMemory(p) PROVE ReviewTypeOK'
    <2>1. promo[p].cand \in Cands /\ promo[p].by \in Reviewers \cup {NoOne}
        BY SMTT(30), <1>7, <1>8 DEF PromoteMemory
    <2> QED BY Zenon, <1>8, <2>1 DEF PromoteMemory, Memories
<1>9. ASSUME NEW p \in Promoters, PromoteMark(p) PROVE ReviewTypeOK'
    <2>1. promo[p].cand \in Cands
        BY <1>7, <1>9 DEF PromoteMark
    <2>2. review' \in [Cands -> Records \cup {Absent}]
        BY Zenon, <1>1, <1>9, <2>1 DEF PromoteMark, Decisions
    <2> QED BY <1>9, <2>2 DEF PromoteMark
<1>10. ASSUME NEW p \in Promoters, PromoteFails(p) PROVE ReviewTypeOK'
    BY <1>10 DEF PromoteFails
<1>11. ASSUME ReviewRestart PROVE ReviewTypeOK'
    <2>1. Forgotten \in Memories
        BY DEF Forgotten, Memories
    <2>2. CASE durable
        BY <1>11, <2>2 DEF ReviewRestart
    <2>3. CASE ~durable
        BY <1>11, <2>1, <2>3 DEF ReviewRestart
    <2> QED BY <2>2, <2>3
<1>12. CASE UNCHANGED vars
    BY <1>12 DEF vars
<1> QED BY SMTT(30), <1>2, <1>3, <1>4, <1>5, <1>6, <1>8, <1>9, <1>10, <1>11, <1>12 DEF Next, Step

\* What update_review does to the fields the invariants read.
LEMMA UpdateEffect ==
    ASSUME ReviewTypeOK, NEW c \in Cands, NEW st, NEW by, NEW pr \in BOOLEAN,
           UpdateReview(c, st, by, pr)
    PROVE  /\ review'[c].status = st
           /\ review'[c].promoted = (review[c].promoted \/ pr)
           /\ \A d \in Cands \ {c} : review'[d] = review[d]
BY SMTT(30) DEF UpdateReview, ReviewTypeOK

LEMMA ApprovalStep == ApprovalInv /\ [Next]_vars => ApprovalInv'
<1> SUFFICES ASSUME ApprovalInv, [Next]_vars PROVE ApprovalInv'
    OBVIOUS
<1>0. ReviewTypeOK /\ ReviewTypeOK'
    BY SMTT(30), TypeStep DEF ApprovalInv
<1> DEFINE Rest ==
        /\ \A c \in Cands : review[c].status = "approved" => "approved" \in decided[c]
        /\ \A p \in Promoters :
              promo[p].pc # "idle" => /\ "approved" \in decided[promo[p].cand]
                                      /\ Promotable(promo[p].cand)
        /\ \A p \in Promoters : promo[p].pc = "mark" => memory[promo[p].cand].kept
        /\ \A c \in Cands : memory[c].kept => "approved" \in decided[c] /\ Promotable(c)
        /\ \A c \in Cands : review[c].promoted => memory[c].kept
<1>a. Rest
    BY SMTT(30) DEF ApprovalInv, RememberedWasApproved, PromotedIdResolves
<1> SUFFICES Rest'
    BY SMTT(30), <1>0 DEF ApprovalInv, RememberedWasApproved, PromotedIdResolves
<1>p. ASSUME NEW p \in Promoters, promo[p].pc # "idle"
      PROVE  promo[p].cand \in Cands
    BY SMTT(30), <1>p, <1>0 DEF ReviewTypeOK, IdlePromo
<1>1. ASSUME NEW c \in Cands, WorkerStores(c) PROVE Rest'
    <2>1. \A d \in Cands :
            review'[d] = review[d] \/ (review'[d].status # "approved" /\ ~review'[d].promoted)
        BY <1>0, <1>1 DEF WorkerStores, AddNowait, Absent, ReviewTypeOK
    <2>2. UNCHANGED <<memory, call, promo, decided>>
        BY SMTT(30), <1>1 DEF WorkerStores
    <2> QED BY <1>a, <2>1, <2>2
<1>2. ASSUME NEW c \in Cands, NEW t \in Decisions,
             decided' = [decided EXCEPT ![c] = @ \cup {t}],
             /\ review'[c].status = t
             /\ review'[c].promoted = (review[c].promoted \/ FALSE)
             /\ \A d \in Cands \ {c} : review'[d] = review[d],
             UNCHANGED <<memory, promo>>
      PROVE  Rest'
    <2>1. \A d \in Cands : decided[d] \subseteq decided'[d]
        BY <1>0, <1>2 DEF ReviewTypeOK
    <2>2. t \in decided'[c]
        BY SMTT(30), <1>0, <1>2 DEF ReviewTypeOK
    <2>3. \A d \in Cands : review'[d].status = "approved" => "approved" \in decided'[d]
        BY <1>a, <1>2, <2>1, <2>2
    <2>4. \A d \in Cands : review'[d].promoted => memory'[d].kept
        BY Zenon, <1>a, <1>2
    <2> QED BY SMTT(30), <1>a, <1>p, <1>2, <2>1, <2>3, <2>4
<1>3. ASSUME NEW r \in Reviewers, NEW c \in Cands, NEW t \in Decisions, ApplyAtOnce(r, c, t)
      PROVE Rest'
    <2>1. UpdateReview(c, t, r, FALSE)
        BY Zenon, <1>3 DEF ApplyAtOnce
    <2>2. /\ review'[c].status = t
          /\ review'[c].promoted = (review[c].promoted \/ FALSE)
          /\ \A d \in Cands \ {c} : review'[d] = review[d]
        BY Zenon, <1>0, <2>1, UpdateEffect
    <2> QED BY Zenon, <1>2, <1>3, <2>2 DEF ApplyAtOnce
<1>4. ASSUME NEW r \in Reviewers, NEW c \in Cands, NEW t \in Decisions, ApplyRead(r, c, t)
      PROVE Rest'
    BY <1>a, <1>4 DEF ApplyRead
<1>5. ASSUME NEW r \in Reviewers, ApplyWrite(r) PROVE Rest'
    <2>1. call[r].cand \in Cands /\ call[r].target \in Decisions
        BY <1>0, <1>5 DEF ApplyWrite, IdleCall, ReviewTypeOK
    <2>2. UpdateReview(call[r].cand, call[r].target, r, FALSE)
        BY Zenon, <1>5 DEF ApplyWrite
    <2>3. /\ review'[call[r].cand].status = call[r].target
          /\ review'[call[r].cand].promoted = (review[call[r].cand].promoted \/ FALSE)
          /\ \A d \in Cands \ {call[r].cand} : review'[d] = review[d]
        BY Zenon, <1>0, <2>1, <2>2, UpdateEffect
    <2> QED BY Zenon, <1>2, <1>5, <2>1, <2>3 DEF ApplyWrite
<1>6. ASSUME NEW p \in Promoters, NEW c \in Cands, PromoteRead(p, c) PROVE Rest'
    <2>1. /\ promo'[p].pc = "memory" /\ promo'[p].cand = c
          /\ \A q \in Promoters \ {p} : promo'[q] = promo[q]
          /\ UNCHANGED <<review, memory, decided>>
          /\ review[c].status = "approved" /\ Promotable(c)
        BY SMTT(30), <1>0, <1>6 DEF PromoteRead, ReviewTypeOK
    <2> QED BY SMTT(30), <1>a, <2>1
<1>7. ASSUME NEW p \in Promoters, PromoteMemory(p) PROVE Rest'
    <2>1. promo[p].cand \in Cands
        BY SMTT(30), <1>p, <1>7 DEF PromoteMemory
    <2>2. /\ promo'[p].pc = "mark" /\ promo'[p].cand = promo[p].cand
          /\ \A q \in Promoters \ {p} : promo'[q] = promo[q]
          /\ UNCHANGED <<review, decided>>
          /\ promo[p].pc # "idle"
        BY SMTT(30), <1>0, <1>7 DEF PromoteMemory, ReviewTypeOK
    <2>3. /\ memory'[promo[p].cand].kept
          /\ \A d \in Cands \ {promo[p].cand} : memory'[d] = memory[d]
        BY SMTT(30), <1>0, <1>7, <2>1 DEF PromoteMemory, ReviewTypeOK
    <2>4. \A q \in Promoters : promo'[q].pc = "mark" => memory'[promo'[q].cand].kept
        BY SMTT(30), <1>a, <1>p, <2>1, <2>2, <2>3
    <2> QED BY SMTT(30), <1>a, <2>1, <2>2, <2>3, <2>4
<1>8. ASSUME NEW p \in Promoters, PromoteMark(p) PROVE Rest'
    <2>1. promo[p].cand \in Cands
        BY <1>p, <1>8 DEF PromoteMark
    <2>2. UpdateReview(promo[p].cand, "approved", NoOne, TRUE)
        BY Zenon, <1>8 DEF PromoteMark
    <2>3. /\ review'[promo[p].cand].status = "approved"
          /\ \A d \in Cands \ {promo[p].cand} : review'[d] = review[d]
        BY Zenon, <1>0, <2>1, <2>2, UpdateEffect
    <2>4. /\ promo'[p].pc = "idle"
          /\ \A q \in Promoters \ {p} : promo'[q] = promo[q]
          /\ UNCHANGED <<memory, decided>>
          /\ promo[p].pc = "mark"
        BY SMTT(30), <1>0, <1>8 DEF PromoteMark, ReviewTypeOK, IdlePromo
    <2> QED BY <1>a, <2>1, <2>3, <2>4
<1>9. ASSUME NEW p \in Promoters, PromoteFails(p) PROVE Rest'
    <2>1. /\ promo'[p].pc = "idle"
          /\ \A q \in Promoters \ {p} : promo'[q] = promo[q]
          /\ UNCHANGED <<review, memory, decided>>
        BY SMTT(30), <1>0, <1>9 DEF PromoteFails, ReviewTypeOK, IdlePromo
    <2> QED BY SMTT(30), <1>a, <2>1
<1>10. ASSUME ReviewRestart PROVE Rest'
    <2>1. \A p \in Promoters : promo'[p].pc = "idle"
        BY SMTT(30), <1>10 DEF ReviewRestart, IdlePromo
    <2>2. CASE durable
        BY SMTT(30), <1>a, <1>10, <2>1, <2>2 DEF ReviewRestart
    <2>3. CASE ~durable
        <3>1. \A c \in Cands : /\ review'[c].status = "absent" /\ ~review'[c].promoted
                               /\ ~memory'[c].kept
            BY SMTT(30), <1>10, <2>3 DEF ReviewRestart, Absent, Forgotten
        <3> QED BY SMTT(30), <2>1, <3>1
    <2> QED BY <2>2, <2>3
<1>11. CASE UNCHANGED vars
    BY <1>a, <1>11 DEF vars
<1> QED BY Zenon, <1>1, <1>3, <1>4, <1>5, <1>6, <1>7, <1>8, <1>9, <1>10, <1>11 DEF Next, Step

\* A memory record exists only for a candidate whose approval a reviewer wrote
\* and that the promotion rules accept (review_promotion.py promote).
THEOREM OnlyApprovedRemembered == Spec => []RememberedWasApproved
<1>1. ApprovalInv => RememberedWasApproved
    BY DEF ApprovalInv
<1> QED BY <1>1, ApprovalInit, ApprovalStep, PTL DEF Spec

\* A promoted_memory_id never dangles, however promotions overlap, fail or are
\* cut off by a restart (review_promotion.py _promote_approved_candidate).
THEOREM PromotedIdsResolve == Spec => []PromotedIdResolves
<1>1. ApprovalInv => PromotedIdResolves
    BY DEF ApprovalInv
<1> QED BY <1>1, ApprovalInit, ApprovalStep, PTL DEF Spec

-----------------------------------------------------------------------------
(* The process-local store.                                                 *)

LEMMA LocalInit == Init => LocalInv
<1> SUFFICES ASSUME Init PROVE LocalInv
    BY SMTT(30)
<1>1. /\ \A c \in Cands : review[c].status = "absent" /\ decided[c] = {}
      /\ \A c \in Cands : ~memory[c].kept
      /\ \A p \in Promoters : promo[p].pc = "idle"
      /\ \A r \in Reviewers : call[r] = IdleCall
    BY DEF Init, Absent, Forgotten, IdlePromo
<1> QED BY Zenon, <1>1 DEF LocalInv, Decisions

LEMMA LocalStep ==
    ASSUME ~durable, ApprovalInv, LocalInv, [Next]_vars
    PROVE  /\ LocalInv'
           /\ \A c \in Cands : KeepsDecision(c)
<1>0. ReviewTypeOK
    BY SMTT(30) DEF ApprovalInv
<1> DEFINE Final == \A c \in Cands : KeepsDecision(c)
<1>p. ASSUME NEW p \in Promoters, promo[p].pc # "idle"
      PROVE  promo[p].cand \in Cands /\ review[promo[p].cand].status = "approved"
    BY <1>p, <1>0 DEF LocalInv, ReviewTypeOK, IdlePromo
<1> USE DEF LocalInv, KeepsDecision
<1>1. ASSUME NEW c \in Cands, WorkerStores(c) PROVE LocalInv' /\ Final
    <2>1. UNCHANGED <<memory, call, promo, decided>>
        BY <1>1 DEF WorkerStores
    <2>2. \A d \in Cands : \/ review'[d] = review[d]
                           \/ /\ review[d].status = "absent"
                              /\ review'[d].status = "pending_review"
        BY SMTT(30), <1>0, <1>1 DEF WorkerStores, AddNowait, Absent, ReviewTypeOK
    <2>3. \A d \in Cands : review[d].status \in Decisions => review'[d] = review[d]
        BY SMTT(30), <2>2 DEF Decisions
    <2>4. \A d \in Cands : (review'[d].status \in Decisions) <=> (review[d].status \in Decisions)
        BY SMTT(30), <2>2 DEF Decisions
    <2>5. \A p \in Promoters :
            promo'[p].pc # "idle" => review'[promo'[p].cand].status = "approved"
        BY SMTT(30), <1>p, <2>1, <2>3 DEF Decisions
    <2>6. \A d \in Cands : memory'[d].kept => review'[d].status = "approved"
        BY <2>1, <2>3 DEF Decisions
    <2>7. \A d \in Cands :
            decided'[d] = IF review'[d].status \in Decisions THEN {review'[d].status} ELSE {}
        BY Zenon, <2>1, <2>3, <2>4
    <2> QED BY Zenon, <2>1, <2>3, <2>5, <2>6, <2>7
<1>2. ASSUME NEW r \in Reviewers, NEW c \in Cands, NEW t \in Decisions, ApplyAtOnce(r, c, t)
      PROVE LocalInv' /\ Final
    <2>1. UpdateReview(c, t, r, FALSE)
        BY Zenon, <1>2 DEF ApplyAtOnce
    <2>2. /\ review'[c].status = t
          /\ \A d \in Cands \ {c} : review'[d] = review[d]
        BY Zenon, <1>0, <2>1, UpdateEffect
    <2>3. /\ review[c].status = "pending_review"
          /\ UNCHANGED <<memory, call, promo>>
        BY <1>2 DEF ApplyAtOnce, CanApply
    <2>4. decided[c] = {} /\ ~memory[c].kept
        BY Zenon, <2>3 DEF Decisions
    <2>5. decided'[c] = {t} /\ \A d \in Cands \ {c} : decided'[d] = decided[d]
        BY SMTT(30), <1>0, <1>2, <2>4 DEF ApplyAtOnce, ReviewTypeOK
    <2>6. \A p \in Promoters : promo[p].pc # "idle" => promo[p].cand \in Cands \ {c}
        BY SMTT(30), <1>p, <2>3
    <2>7. Final
        BY <2>2, <2>3 DEF Decisions
    <2>8. \A d \in Cands :
            decided'[d] = IF review'[d].status \in Decisions THEN {review'[d].status} ELSE {}
        BY Zenon, <2>2, <2>5
    <2>9. \A d \in Cands : memory'[d].kept => review'[d].status = "approved"
        BY SMTT(30), <2>2, <2>3, <2>4
    <2>10. \A p \in Promoters :
             promo'[p].pc # "idle" => review'[promo'[p].cand].status = "approved"
        BY SMTT(30), <1>p, <2>2, <2>3, <2>6
    <2> QED BY Zenon, <2>3, <2>7, <2>8, <2>9, <2>10
<1>3. ASSUME NEW r \in Reviewers, NEW c \in Cands, NEW t \in Decisions, ApplyRead(r, c, t)
      PROVE LocalInv' /\ Final
    BY SMTT(30), <1>3 DEF ApplyRead
<1>4. ASSUME NEW r \in Reviewers, ApplyWrite(r) PROVE LocalInv' /\ Final
    BY SMTT(30), <1>4 DEF ApplyWrite, IdleCall
<1>5. ASSUME NEW p \in Promoters, NEW c \in Cands, PromoteRead(p, c) PROVE LocalInv' /\ Final
    <2>1. /\ promo'[p].pc = "memory" /\ promo'[p].cand = c
          /\ \A q \in Promoters \ {p} : promo'[q] = promo[q]
          /\ UNCHANGED <<review, memory, call, decided>>
          /\ review[c].status = "approved"
        BY <1>0, <1>5 DEF PromoteRead, ReviewTypeOK
    <2> QED BY SMTT(30), <2>1
<1>6. ASSUME NEW p \in Promoters, PromoteMemory(p) PROVE LocalInv' /\ Final
    <2>1. promo[p].cand \in Cands /\ review[promo[p].cand].status = "approved"
        BY SMTT(30), <1>p, <1>6 DEF PromoteMemory
    <2>2. /\ promo'[p].cand = promo[p].cand
          /\ \A q \in Promoters \ {p} : promo'[q] = promo[q]
          /\ UNCHANGED <<review, call, decided>>
          /\ \A d \in Cands \ {promo[p].cand} : memory'[d] = memory[d]
        BY <1>0, <1>6 DEF PromoteMemory, ReviewTypeOK
    <2> QED BY Zenon, <2>1, <2>2
<1>7. ASSUME NEW p \in Promoters, PromoteMark(p) PROVE LocalInv' /\ Final
    <2>1. promo[p].cand \in Cands /\ review[promo[p].cand].status = "approved"
        BY <1>p, <1>7 DEF PromoteMark
    <2>2. UpdateReview(promo[p].cand, "approved", NoOne, TRUE)
        BY Zenon, <1>7 DEF PromoteMark
    <2>3. /\ review'[promo[p].cand].status = "approved"
          /\ \A d \in Cands \ {promo[p].cand} : review'[d] = review[d]
        BY Zenon, <1>0, <2>1, <2>2, UpdateEffect
    <2>4. \A d \in Cands : review'[d].status = review[d].status
        BY SMTT(30), <2>1, <2>3
    <2>5. /\ promo'[p].pc = "idle"
          /\ \A q \in Promoters \ {p} : promo'[q] = promo[q]
          /\ UNCHANGED <<memory, call, decided>>
        BY <1>0, <1>7 DEF PromoteMark, ReviewTypeOK, IdlePromo
    <2> QED BY ZenonT(40), <1>p, <2>4, <2>5
<1>8. ASSUME NEW p \in Promoters, PromoteFails(p) PROVE LocalInv' /\ Final
    <2>1. /\ promo'[p].pc = "idle"
          /\ \A q \in Promoters \ {p} : promo'[q] = promo[q]
          /\ UNCHANGED <<review, memory, call, decided>>
        BY <1>0, <1>8 DEF PromoteFails, ReviewTypeOK, IdlePromo
    <2> QED BY Zenon, <2>1
<1>9. ASSUME ReviewRestart PROVE LocalInv' /\ Final
    <2>1. /\ \A c \in Cands : review'[c] = Absent /\ decided'[c] = {} /\ ~memory'[c].kept
          /\ \A p \in Promoters : promo'[p].pc = "idle"
          /\ \A r \in Reviewers : call'[r] = IdleCall
        BY SMTT(30), <1>9 DEF ReviewRestart, Forgotten, IdlePromo
    <2>2. Absent.status \notin Decisions
        BY SMTT(30) DEF Absent, Decisions
    <2> QED BY Zenon, <2>1, <2>2
<1>10. CASE UNCHANGED vars
    BY <1>10 DEF vars
<1> QED BY Zenon, <1>1, <1>2, <1>3, <1>4, <1>5, <1>6, <1>7, <1>8, <1>9, <1>10 DEF Next, Step

LEMMA LocalIfLocalStep == ApprovalInv /\ LocalIfLocal /\ [Next]_vars => LocalIfLocal'
<1> SUFFICES ASSUME ApprovalInv, LocalIfLocal, [Next]_vars, ~durable' PROVE LocalInv'
    BY DEF LocalIfLocal
<1>1. ~durable
    BY DEF Next, vars
<1> QED BY <1>1, LocalStep DEF LocalIfLocal

\* Over the process-local store a terminal state is final, as the review
\* documentation says of the service in general (review_service.py _apply).
THEOREM DecisionsStand == Spec => LocalTerminalIsFinal
<1>1. ApprovalInv /\ LocalIfLocal /\ [Next]_vars
        => [~durable => \A c \in Cands : KeepsDecision(c)]_vars
    BY LocalStep DEF LocalIfLocal
<1>2. Init => LocalIfLocal
    BY LocalInit DEF LocalIfLocal
<1> QED BY <1>1, <1>2, ApprovalInit, ApprovalStep, LocalIfLocalStep, PTL
        DEF Spec, LocalTerminalIsFinal

\* Over the process-local store, what is remembered is approved now.
THEOREM ApprovalsStand == Spec => []RememberedIsApproved
<1>1. LocalIfLocal => RememberedIsApproved
    BY DEF LocalIfLocal, LocalInv, RememberedIsApproved
<1>2. Init => LocalIfLocal
    BY LocalInit DEF LocalIfLocal
<1> QED BY <1>1, <1>2, ApprovalInit, ApprovalStep, LocalIfLocalStep, PTL DEF Spec

\* Over the process-local store, the callers of a candidate are told of at most
\* one decision.
THEOREM OneDecision == Spec => []OneDecisionAcknowledged
<1>1. LocalIfLocal => OneDecisionAcknowledged
    <2> SUFFICES ASSUME LocalInv, NEW c \in Cands PROVE Cardinality(decided[c]) <= 1
        BY DEF OneDecisionAcknowledged, LocalIfLocal
    <2>1. CASE review[c].status \in Decisions
        <3>1. decided[c] = {review[c].status}
            BY Zenon, <2>1 DEF LocalInv
        <3>2. Cardinality(decided[c]) = 1
            BY <3>1, FS_Singleton, Zenon
        <3> QED BY <3>2
    <2>2. CASE review[c].status \notin Decisions
        <3>1. decided[c] = {}
            BY Zenon, <2>2 DEF LocalInv
        <3>2. Cardinality(decided[c]) = 0
            BY <3>1, FS_EmptySet, Zenon
        <3> QED BY <3>2
    <2> QED BY <2>1, <2>2
<1>2. Init => LocalIfLocal
    BY LocalInit DEF LocalIfLocal
<1> QED BY <1>1, <1>2, ApprovalInit, ApprovalStep, LocalIfLocalStep, PTL DEF Spec
=============================================================================

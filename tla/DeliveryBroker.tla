--------------------------- MODULE DeliveryBroker ---------------------------
(***************************************************************************)
(* RuntimeAppActionBroker (runtime/delivery/broker.py) over the outbox:    *)
(* clients poll leases, perform the action and report the result; the      *)
(* broker then hands the accepted report to the learning hooks.            *)
(*                                                                         *)
(* A report handler has three steps with an await between them: the outbox *)
(* transaction, mark_if_absent on the dispatch store, and the hooks.  A    *)
(* client that retries has several handlers of one report in flight.  A    *)
(* handler is cancelled at an await when its gRPC call is cancelled, and   *)
(* the whole process can stop; the dispatch store is process-local.        *)
(***************************************************************************)
EXTENDS DeliveryOutbox

CONSTANTS
    Handler,       \* slots for concurrent ReportActionResult calls
    NoReport       \* the report of a free slot

ASSUME BrokerAssumption == NoReport \notin Report

VARIABLES
    handler,       \* what each handler has done so far, and for which report
    marked,        \* keys in the process-local LearningDispatchStore
    ran            \* history: reports whose hooks ran in this process

brokerVars == <<handler, marked, ran>>

vars == <<outboxVars, brokerVars>>

-----------------------------------------------------------------------------
Idle == [pc |-> "idle", report |-> NoReport]

At(pc, r) == [pc |-> pc, report |-> r]

\* SUCCEEDED, CANCELLED and BLOCKED complete the delivery, FAILED releases it; a
\* repeated report changes nothing and goes on to the dispatch all the same.
ReportActionResult(h, r) ==
    /\ handler[h].pc = "idle"
    /\ \/ Complete(r)
       \/ Release(r)
       \/ Idempotent(r) /\ UNCHANGED outboxVars
    /\ handler' = [handler EXCEPT ![h] = At("accepted", r)]
    /\ UNCHANGED <<marked, ran>>

\* Mutant: the key is looked up and not yet stored.
LookUpMark(h) ==
    /\ handler[h].pc = "accepted"
    /\ handler' = [handler EXCEPT ![h] = IF handler[h].report \in marked THEN Idle
                                         ELSE At("marked", handler[h].report)]
    /\ UNCHANGED <<outboxVars, marked, ran>>

MarkIfAbsent(h) ==
    LET r == handler[h].report
    IN  /\ handler[h].pc = "accepted"
        /\ marked' = marked \cup {r}
        /\ handler' = [handler EXCEPT ![h] =
                          IF r \in marked THEN Idle ELSE At("marked", r)]
        /\ UNCHANGED <<outboxVars, ran>>

\* A failing hook is logged and the next one runs: the run as a whole happens.
RunHooks(h) ==
    /\ handler[h].pc = "marked"
    /\ ran' = ran \cup {handler[h].report}
    /\ handler' = [handler EXCEPT ![h] = Idle]
    /\ UNCHANGED <<outboxVars, marked>>

\* Mutant: a cancelled call takes its report off the record.
CancelUndoingReport(h) ==
    /\ handler[h].pc # "idle"
    /\ handler' = [handler EXCEPT ![h] = Idle]
    /\ reports' = reports \ {handler[h].report}
    /\ UNCHANGED <<items, leaseCounter, granted, marked, ran>>

CancelHandler(h) ==
    /\ handler[h].pc # "idle"
    /\ handler' = [handler EXCEPT ![h] = Idle]
    /\ UNCHANGED <<outboxVars, marked, ran>>

RestartProcess ==
    /\ Restart
    /\ handler' = [h \in Handler |-> Idle]
    /\ marked' = {}
    /\ ran' = {}

\* The outbox steps that do not belong to a report.
Deliver ==
    /\ \/ \E d \in Delivery : Enqueue(d)
       \/ \E p \in Provider, n \in PollSizes : LeaseDue(p, n)
       \/ Tick
    /\ UNCHANGED brokerVars

Init ==
    /\ OutboxInit
    /\ handler = [h \in Handler |-> Idle]
    /\ marked = {}
    /\ ran = {}

Next ==
    \/ Deliver
    \/ \E h \in Handler : \/ \E r \in Reportable : ReportActionResult(h, r)
                          \/ MarkIfAbsent(h)
                          \/ RunHooks(h)
                          \/ CancelHandler(h)
    \/ RestartProcess

Spec == Init /\ [][Next]_vars

-----------------------------------------------------------------------------
(***************************************************************************)
(* Properties.                                                             *)
(***************************************************************************)

\* Types of the broker state.
BrokerTypeOK ==
    /\ handler \in [Handler -> {Idle} \cup
                        {At(pc, r) : pc \in {"accepted", "marked"}, r \in Reportable}]
    /\ marked \subseteq Report
    /\ ran \subseteq Report

\* Within one process the hooks run at most once per report, however many calls
\* repeat it and however their steps interleave: a handler about to run them is
\* the only one, and they have not run yet.
HooksOncePerProcess ==
    \A h \in Handler : handler[h].pc = "marked" =>
        /\ handler[h].report \notin ran
        /\ \A k \in Handler \ {h} :
               handler[k].pc = "marked" => handler[k].report # handler[h].report

\* Only a result the outbox has on record reaches the learning hooks: never one
\* that was refused as a conflict, as late or as unknown, and never one of a
\* delivery the process no longer knows.
HooksOnlyForRecordedReports == ran \subseteq reports

\* The broker does nothing to the outbox but what the outbox offers.
BrokerUsesOutbox == OutboxSpec
=============================================================================

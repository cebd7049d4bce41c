----------------------- MODULE MCBackgroundJobRunner -----------------------
(***************************************************************************)
(* Small batches of jobs on one large slot, alone or with a user-facing one.*)
(***************************************************************************)
EXTENDS BackgroundJobRunner

MCCaller == {"user", "runner"}

RunnerAlone == {"runner"}

MCRequests ==
    [c \in Caller |->
        IF c = "user"
        THEN {[kind |-> "large_llm", priority |-> "user_facing_response", preemptible |-> FALSE]}
        ELSE {[kind |-> "background_llm", priority |-> "background", preemptible |-> p] : p \in BOOLEAN}]

MCLimit == [g \in {"large", "small_classifier", "embedding", "reranker"} |-> 1]

MCWhenBusy == [p \in LowPriorities |-> IF p = "background" THEN "defer" ELSE "no_send"]

MCWhenUnavailable ==
    [p \in HighPriorities \cup LowPriorities |->
        IF p = "background" THEN "cancel" ELSE IF p = "proactive" THEN "no_send" ELSE "denied"]

KindPolicy(limit, maxPending, mode) ==
    [limit |-> limit, maxPending |-> maxPending, mode |-> mode, deferSeconds |-> 1,
     backoffBase |-> 1, backoffMax |-> 2]

\* Preemption: an idle-only LLM job with a caller in its way, in one batch with a
\* job that has no worker.
LlmJobKind == [j \in 1..2 |-> IF j = 1 THEN "patch" ELSE "extraction"]

LlmPolicy == [k \in {"patch", "extraction"} |-> KindPolicy(1, 1, "reject")]

\* Leasing: two jobs of a kind that has one lease, beside an LLM job whose worker
\* cannot be stopped.
PlainJobKind == [j \in 1..3 |-> IF j <= 2 THEN "memory" ELSE "reflection"]

PlainPolicy == [k \in {"memory", "reflection"} |-> KindPolicy(1, 1, "defer")]
=============================================================================

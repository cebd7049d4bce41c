------------------------ MODULE MCInferenceScheduler ------------------------
(***************************************************************************)
(* A user-facing caller, a cancellable and a proactive low-priority one    *)
(* compete for one large slot; a classifier has slots of its own.          *)
(***************************************************************************)
EXTENDS InferenceScheduler

Req(kind, priority, preemptible) ==
    [kind |-> kind, priority |-> priority, preemptible |-> preemptible]

MCRequests(c) ==
    CASE c = "user" -> {Req("large_llm", "user_facing_response", FALSE)}
      [] c = "job" -> {Req("background_llm", "background", TRUE)}
      [] c = "talk" -> {Req("large_llm", "proactive", FALSE),
                        Req("small_classifier", "proactive", FALSE)}
      [] c = "job2" -> {Req("background_llm", "background", TRUE),
                        Req("small_classifier", "background", FALSE)}

MCCaller == {"user", "job", "talk", "job2"}

MCRequestsOf == [c \in MCCaller |-> MCRequests(c)]

MCLimit == [g \in {"large", "small_classifier", "embedding", "reranker"} |-> 1]

MCWhenBusy == [p \in LowPriorities |-> IF p = "background" THEN "defer" ELSE "no_send"]

MCWhenUnavailable ==
    [p \in HighPriorities \cup LowPriorities |->
        IF p = "background" THEN "cancel" ELSE IF p = "proactive" THEN "no_send" ELSE "denied"]
=============================================================================

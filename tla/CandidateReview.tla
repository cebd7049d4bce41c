-------------------------- MODULE CandidateReview --------------------------
(***************************************************************************)
(* Review and promotion of learned memory candidates.                      *)
(*                                                                         *)
(* Background workers store candidates (runtime/learning/                  *)
(* implicit_candidates.py, memory_worker.py), reviewers approve, reject or *)
(* discard them (review_service.py) and a promoter copies approved ones    *)
(* into the canonical memory store (review_promotion.py).                  *)
(*                                                                         *)
(* The review store is the process-local one (state/memory_candidates.py)  *)
(* or the SQLite one (stores/memory_candidate_reviews.py).  The first      *)
(* never suspends its caller, so a decision is one step; the second runs   *)
(* every call in a thread, so a decision is a read and, later, a write.    *)
(***************************************************************************)
EXTENDS Naturals, FiniteSets

CONSTANTS
    Cands,       \* candidate ids
    Attr,        \* what a candidate says of itself, see Attributes
    Reviewers,   \* concurrent calls of the review service
    Promoters,   \* concurrent calls of the promoter
    NoOne        \* no reviewer

Sensitivities == {"normal", "personal", "sensitive", "secret_like"}

Decisions == {"approved", "rejected", "discarded"}

\* A candidate: where it comes from, the verdict of the consolidation it is the
\* result of, its declared sensitivity, whether its length and confidence are
\* within bounds, and what the pattern matchers find in its text.
Attributes ==
    [source : {"implicit", "consolidation"},
     decision : {"retained", "duplicate", "stale", "conflict"},
     sensitivity : Sensitivities,
     inBounds : BOOLEAN,
     finds : SUBSET {"credential", "profile", "unsafe_name"}]

ASSUME AttrAssumption == Attr \in [Cands -> Attributes]
ASSUME NoOneAssumption == NoOne \notin Reviewers

VARIABLES
    durable,   \* the configured backend: SQLite, or the process-local stores
    review,    \* the review store
    memory,    \* per candidate: absent, or the reviewer the memory record names
    call,      \* decisions in flight
    promo,     \* promotions in flight
    decided    \* history: the decisions each candidate's callers saw take effect

vars == <<durable, review, memory, call, promo, decided>>

-----------------------------------------------------------------------------
Absent == [status |-> "absent", by |-> NoOne, promoted |-> FALSE]

Records ==
    [status : {"pending_review"} \cup Decisions,
     by : Reviewers \cup {NoOne},
     promoted : BOOLEAN]

Memories == {[kept |-> FALSE, by |-> NoOne]}
            \cup [kept : {TRUE}, by : Reviewers \cup {NoOne}]

Forgotten == [kept |-> FALSE, by |-> NoOne]

IdleCall == [pc |-> "idle"]

IdlePromo == [pc |-> "idle"]

ReviewTypeOK ==
    /\ durable \in BOOLEAN
    /\ review \in [Cands -> Records \cup {Absent}]
    /\ memory \in [Cands -> Memories]
    /\ call \in [Reviewers ->
                   {IdleCall} \cup [pc : {"write"}, cand : Cands, target : Decisions]]
    /\ promo \in [Promoters ->
                   {IdlePromo} \cup [pc : {"memory", "mark"}, cand : Cands,
                                     by : Reviewers \cup {NoOne}]]
    /\ decided \in [Cands -> SUBSET Decisions]

Init ==
    /\ durable \in BOOLEAN
    /\ review = [c \in Cands |-> Absent]
    /\ memory = [c \in Cands |-> Forgotten]
    /\ call = [r \in Reviewers |-> IdleCall]
    /\ promo = [p \in Promoters |-> IdlePromo]
    /\ decided = [c \in Cands |-> {}]

-----------------------------------------------------------------------------
(* Who is let in, and who is promoted.                                      *)

\* ImplicitCandidateAdmissionPolicy.accept, with its default of no sensitive
\* candidates.  The implicit extractors always mark candidates for review.
ImplicitAccepts(a) ==
    /\ a.inBounds
    /\ a.finds \cap {"credential", "profile"} = {}
    /\ a.sensitivity # "secret_like"

\* MemoryConsolidationPolicy.accept: it looks at the text, not at its length.
ConsolidationAccepts(a) ==
    /\ a.finds = {}
    /\ a.sensitivity # "secret_like"

Admitted(c) ==
    IF Attr[c].source = "implicit" THEN ImplicitAccepts(Attr[c])
                                   ELSE ConsolidationAccepts(Attr[c])

\* _consolidation_can_promote: an unresolved conflict, duplicate or stale
\* verdict is not promoted.
ConsolidationCanPromote(a) ==
    a.source = "consolidation" => a.decision = "retained"

\* ApprovedImplicitMemoryPromotionPolicy.accept, no sensitive candidates.
PromotionAccepts(a) ==
    /\ a.inBounds
    /\ a.finds = {}
    /\ a.sensitivity \in {"normal", "personal"}

Promotable(c) == ConsolidationCanPromote(Attr[c]) /\ PromotionAccepts(Attr[c])

-----------------------------------------------------------------------------
(* The review store.                                                        *)

\* MUTANT of AddNowait: the existing record is overwritten.
AddAgain(c) ==
    review' = [review EXCEPT ![c] = [Absent EXCEPT !.status = "pending_review"]]

\* add_nowait: a candidate already stored, whatever became of it, is kept.
AddNowait(c) ==
    IF review[c] = Absent
    THEN review' = [review EXCEPT ![c] = [Absent EXCEPT !.status = "pending_review"]]
    ELSE UNCHANGED review

\* update_review: the status is set, fields the patch does not name are kept.
UpdateReview(c, status, by, promoted) ==
    review' = [review EXCEPT ![c] =
                 [status |-> status,
                  by |-> IF by = NoOne THEN @.by ELSE by,
                  promoted |-> @.promoted \/ promoted]]

-----------------------------------------------------------------------------
(* Workers.                                                                 *)

\* AccountAwareImplicitMemoryCandidateWorker.run and
\* DeterministicMemoryConsolidationWorker.run store one admitted candidate.
\* A job that is retried, or run twice after its lease expired, does it again.
WorkerStores(c) ==
    /\ Admitted(c)
    /\ AddNowait(c)
    /\ UNCHANGED <<memory, call, promo, decided>>

-----------------------------------------------------------------------------
(* MemoryCandidateReviewService._apply.  A call for a candidate that is     *)
(* missing, already in the target state or in another terminal state raises *)
(* or answers changed=False, and touches nothing.                           *)

CanApply(c) == review[c].status = "pending_review"

ApplyAtOnce(r, c, target) ==
    /\ ~durable
    /\ CanApply(c)
    /\ UpdateReview(c, target, r, FALSE)
    /\ decided' = [decided EXCEPT ![c] = @ \cup {target}]
    /\ UNCHANGED <<memory, call, promo>>

ApplyRead(r, c, target) ==
    /\ durable
    /\ call[r] = IdleCall
    /\ CanApply(c)
    /\ call' = [call EXCEPT ![r] = [pc |-> "write", cand |-> c, target |-> target]]
    /\ UNCHANGED <<review, memory, promo, decided>>

ApplyWrite(r) ==
    /\ call[r].pc = "write"
    /\ LET c == call[r].cand IN
         /\ UpdateReview(c, call[r].target, r, FALSE)
         /\ decided' = [decided EXCEPT ![c] = @ \cup {call[r].target}]
    /\ call' = [call EXCEPT ![r] = IdleCall]
    /\ UNCHANGED <<memory, promo>>

-----------------------------------------------------------------------------
(* ApprovedMemoryCandidatePromoter.promote.                                 *)

\* MUTANT of PromoteRead: the status is not looked at.
PromoteAny(p, c) ==
    /\ promo[p] = IdlePromo
    /\ review[c] # Absent
    /\ ~review[c].promoted
    /\ Promotable(c)
    /\ promo' = [promo EXCEPT ![p] = [pc |-> "memory", cand |-> c, by |-> review[c].by]]
    /\ UNCHANGED <<review, memory, call, decided>>

\* The record is read and judged; every refusal leaves the stores alone.
PromoteRead(p, c) ==
    /\ promo[p] = IdlePromo
    /\ review[c].status = "approved"
    /\ ~review[c].promoted
    /\ Promotable(c)
    /\ promo' = [promo EXCEPT ![p] = [pc |-> "memory", cand |-> c, by |-> review[c].by]]
    /\ UNCHANGED <<review, memory, call, decided>>

\* MUTANT of PromoteMemory: the write is started and not awaited.
PromoteMemoryLater(p) ==
    /\ promo[p].pc = "memory"
    /\ promo' = [promo EXCEPT ![p].pc = "mark"]
    /\ UNCHANGED <<review, memory, call, decided>>

\* The record is upserted, under an id derived from the candidate, in a thread.
PromoteMemory(p) ==
    /\ promo[p].pc = "memory"
    /\ memory' = [memory EXCEPT ![promo[p].cand] = [kept |-> TRUE, by |-> promo[p].by]]
    /\ promo' = [promo EXCEPT ![p] = [pc |-> "mark", cand |-> @.cand, by |-> @.by]]
    /\ UNCHANGED <<review, call, decided>>

\* The review record gets promoted_memory_id, and status APPROVED once more.
PromoteMark(p) ==
    /\ promo[p].pc = "mark"
    /\ UpdateReview(promo[p].cand, "approved", NoOne, TRUE)
    /\ promo' = [promo EXCEPT ![p] = IdlePromo]
    /\ UNCHANGED <<memory, call, decided>>

\* A store call raises, or the caller is cancelled, and the rest does not run.
PromoteFails(p) ==
    /\ promo[p] # IdlePromo
    /\ promo' = [promo EXCEPT ![p] = IdlePromo]
    /\ UNCHANGED <<review, memory, call, decided>>

-----------------------------------------------------------------------------
\* The process stops and starts again: calls in flight are gone, and so is
\* everything kept in memory unless the backend is SQLite (wiring/state.py).
ReviewRestart ==
    /\ call' = [r \in Reviewers |-> IdleCall]
    /\ promo' = [p \in Promoters |-> IdlePromo]
    /\ IF durable
       THEN UNCHANGED <<review, memory, decided>>
       ELSE /\ review' = [c \in Cands |-> Absent]
            /\ memory' = [c \in Cands |-> Forgotten]
            /\ decided' = [c \in Cands |-> {}]

Step ==
    \/ \E c \in Cands : WorkerStores(c)
    \/ \E r \in Reviewers, c \in Cands, t \in Decisions :
         ApplyAtOnce(r, c, t) \/ ApplyRead(r, c, t)
    \/ \E r \in Reviewers : ApplyWrite(r)
    \/ \E p \in Promoters, c \in Cands : PromoteRead(p, c)
    \/ \E p \in Promoters : PromoteMemory(p) \/ PromoteMark(p) \/ PromoteFails(p)
    \/ ReviewRestart

Next == Step /\ UNCHANGED durable

Spec == Init /\ [][Next]_vars

-----------------------------------------------------------------------------
(* Properties.                                                              *)

\* A memory record exists only for a candidate that a reviewer's approval was
\* written for and that both the consolidation rule and the promotion policy
\* accept, whatever the interleaving of workers, reviewers and promoters
\* (review_promotion.py promote; "approved candidate だけ").
RememberedWasApproved ==
    \A c \in Cands :
        memory[c].kept => "approved" \in decided[c] /\ Promotable(c)

\* The memory record is written before the review record points at it, so a
\* promoted_memory_id never dangles, also when promotions of one candidate
\* overlap, fail half way or are cut off by a restart (_promote_approved_candidate).
PromotedIdResolves ==
    \A c \in Cands : review[c].promoted => memory[c].kept

\* With the process-local store, what is remembered is what reviewers approved:
\* an approval is never overtaken by another decision while a promotion of the
\* candidate is under way (review_service.py _apply has no suspension point).
RememberedIsApproved ==
    ~durable => \A c \in Cands : memory[c].kept => review[c].status = "approved"

KeepsDecision(c) ==
    review[c].status \in Decisions /\ review'[c] # Absent
        => review'[c].status = review[c].status

\* "同一 terminal state への再実行は冪等だが、別 terminal state への遷移は許可しない":
\* while the process runs, a candidate in a terminal state never goes to another
\* state (docs/learning-candidate-review.md:38; review_service.py _apply).
TerminalIsFinal == [][\A c \in Cands : KeepsDecision(c)]_vars

\* The same where _apply is not interrupted between its read and its write.
LocalTerminalIsFinal == [][~durable => \A c \in Cands : KeepsDecision(c)]_vars

\* With the process-local store a reviewer is told changed=True only when the
\* decision is the one that counts: no two different decisions of one candidate
\* are both acknowledged.
OneDecisionAcknowledged ==
    ~durable => \A c \in Cands : Cardinality(decided[c]) <= 1
=============================================================================

------------------------- MODULE MCCandidateReview -------------------------
(***************************************************************************)
(* Instances of CandidateReview.  One candidate is promotable, one is an   *)
(* unresolved consolidation conflict, one passes admission but not the     *)
(* promotion policy, and one is not admitted at all.                       *)
(***************************************************************************)
EXTENDS CandidateReview, TLC

CONSTANTS fine, clash, oddName, secret, r1, r2, p1, p2

MCCands == {fine, clash, oddName, secret}

MCPair == {fine, clash}

Plain == [source |-> "implicit", decision |-> "retained", sensitivity |-> "normal",
          inBounds |-> TRUE, finds |-> {}]

MCAttr ==
    [c \in Cands |->
        CASE c = fine    -> Plain
          [] c = clash   -> [Plain EXCEPT !.source = "consolidation", !.decision = "conflict"]
          [] c = oddName -> [Plain EXCEPT !.finds = {"unsafe_name"}]
          [] c = secret  -> [Plain EXCEPT !.sensitivity = "secret_like"]]

MCReviewers == {r1, r2}

MCPromoters == {p1, p2}

MCSymmetry == Permutations(MCReviewers) \cup Permutations(MCPromoters)
=============================================================================

----------------------------- MODULE MCLearning -----------------------------
(***************************************************************************)
(* What a turn decides and what is learned from it, one scene each: the    *)
(* review and promotion of memory candidates, the workers that propose     *)
(* candidates, and the cognitive cycle.  A behaviour stays in its scene.   *)
(***************************************************************************)
EXTENDS MCCandidateReview, LearningCandidates, CognitiveCycle

VARIABLE scene

mcVars == <<scene, vars, learningVars, cycleVars>>

-----------------------------------------------------------------------------
Event(n, kind, feedback, text, scope, signals) ==
    [n |-> n, kind |-> kind, feedback |-> feedback, account |-> "a", actor |-> "ann",
     space |-> "s", text |-> text, scope |-> scope, signals |-> signals]

\* A secret to remember, a message that is both risky and sensitive, feedback with
\* a secret in it, a name to keep out of memory, a plain wish.
MCLearningEvents ==
    {Event(1, "message", None, <<"remember:", "my", "password">>, None, {}),
     Event(2, "message", None, <<"i am", "depressed", "briefly from now on">>, "direct_message",
           AppraisalSignals({{"you decide everything", "iris", "thanks"}}, TRUE)),
     Event(3, "feedback", "style_preference", <<"briefly from now on", "password">>, None, {}),
     Event(4, "message", None, <<"call me", "Tea", ".", "don't save", "casual">>, None, {}),
     Event(5, "message", None, <<"briefly from now on">>, None, {})}

Source(id, text, confidence, at) ==
    [id |-> id, text |-> text, kind |-> "note", confidence |-> confidence,
     at |-> at, sensitivity |-> "normal", owner |-> "a"]

\* Two sources that say the same, one of them soon stale, and one with a secret.
MCConsolidationJobs ==
    {[key |-> "c1", sources |-> {Source(1, <<"Tea", ".">>, 60, -1), Source(2, <<"tea">>, 70, 0),
                                 Source(3, <<"password">>, 90, 0)}]}

-----------------------------------------------------------------------------
Message(n, actor, text) ==
    [n |-> n, kind |-> "actor_message", actor |-> actor, scope |-> "direct_message",
     text |-> text, idle |-> 0]

MCInputs ==
    {Message(1, "ann", {{"self-harm", "how to"}, {"bug", "great"}}),
     [Message(2, "ann", {{"iris", "useless", "urgent"}, {"game", "hate"}})
         EXCEPT !.scope = "group_space"],
     Message(3, None, {{"weapon", "build", "password", "steal"}}),
     [Message(4, "ann", {{"idle"}}) EXCEPT !.kind = "idle_tick", !.idle = 600]}

MCAnswers == {None, {"plain"}, {"secret_token"}}

-----------------------------------------------------------------------------
ReviewAtRest == Init /\ ~durable

LearningAtRest == LearningInit /\ ~durableQueue

CycleAtRest == CycleInit /\ setup = CHOOSE s \in Setups : TRUE

MCInit ==
    \/ scene = "review" /\ Init /\ LearningAtRest /\ CycleAtRest
    \/ scene = "learning" /\ ReviewAtRest /\ LearningInit /\ CycleAtRest
    \/ scene = "cycle" /\ ReviewAtRest /\ LearningAtRest /\ CycleInit

\* The bounds of a scene are met: nothing more happens.
Rest == scene \in {"learning", "cycle"} /\ UNCHANGED mcVars

MCNext ==
    \/ scene = "review" /\ Next /\ UNCHANGED <<scene, learningVars, cycleVars>>
    \/ scene = "learning" /\ LearningNext /\ UNCHANGED <<scene, vars, cycleVars>>
    \/ scene = "cycle" /\ CycleNext /\ UNCHANGED <<scene, vars, learningVars>>
    \/ Rest

MCSpec == MCInit /\ [][MCNext]_mcVars
=============================================================================

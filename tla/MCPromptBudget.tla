--------------------------- MODULE MCPromptBudget ---------------------------
(***************************************************************************)
(* The small chat profile as it is, and a turn late in a conversation with *)
(* a long last answer, whose user text grows by a character at a time.     *)
(***************************************************************************)
EXTENDS PromptBudget

MCBudgetFiles ==
    {[enabled |-> TRUE, chat |-> "local_low", proactive |-> "proactive_short",
      profiles |-> [p \in {} |-> None]]}

Grown(chars) ==
    [proactive |-> FALSE, system |-> 111, persona |-> 330,
     history |-> <<[role |-> "user", chars |-> 600], [role |-> "assistant", chars |-> 2500]>>,
     summary |-> 1600, durable |-> <<250, 250, 250>>, project |-> <<>>, transcript |-> <<>>,
     memories |-> <<250, 250, 250>>, affect |-> 36, relationship |-> 57,
     constraints |-> <<14, 22>>, goals |-> <<>>, actor_text |-> chars]

MCPrompts == {Grown(chars) : chars \in 1200 .. 1300}
=============================================================================

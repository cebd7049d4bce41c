---------------------------- MODULE PromptBudget ----------------------------
(***************************************************************************)
(* How a prompt is cut to size before it is sent to a model.               *)
(*                                                                         *)
(* The assembler (runtime/prompting/assembler.py) turns a response prompt  *)
(* into sections, the budget policy (runtime/prompting/budget.py) cuts     *)
(* each section to its own budget and all of them to the total of the      *)
(* profile (runtime/config/prompt_budget.py), and the sections become the  *)
(* messages of the request.  The messages carry labels and separators that *)
(* no section counts, so the assembler lowers the total and tries again    *)
(* while they are too long.                                                *)
(*                                                                         *)
(* A text is its number of characters: nothing here depends on more.  An   *)
(* item of a section is the length of its role prefix, which only an item  *)
(* of the conversation has, and of the rest.  The user's text is not blank *)
(* (interpreted_input_text) and does not begin with the section's title.   *)
(***************************************************************************)
EXTENDS Integers, Sequences, FiniteSets, FiniteSetsExt, TLC, Optional

CONSTANTS
    Prompts,        \* response prompts: see Sections
    BudgetFiles     \* [prompt_budget] tables of configuration files: see Configured

VARIABLES
    prompt,         \* the response prompt
    profile,        \* the budget of the profile the call site uses
    sections,       \* the sections of the prompt, each cut to its own budget
    effective,      \* effective_budget.total_max_chars
    attempts,       \* iterations of the loop so far
    result          \* the applications of the last iteration; None before it

promptVars == <<prompt, profile, sections, effective, attempts, result>>

-----------------------------------------------------------------------------
PromptSectionKind ==
    {"system", "persona", "safety_constraints", "recent_conversation",
     "user_memory", "project_memory", "relationship_signal", "internal_state",
     "interaction_policy", "task_context", "user_input"}

PromptProfileName == {"local_low", "local_balanced", "local_quality", "proactive_short"}

\* The sections a profile may require.
RequiredKinds == {"system", "safety_constraints", "user_input"}

SectionBudget(maxChars, maxItems, priority, overflow) ==
    [max_chars |-> maxChars, max_items |-> maxItems,
     priority |-> priority, overflow |-> overflow]

LocalLow ==
    [total |-> 6000,
     sections |->
       [system |-> SectionBudget(1100, 1, 100, "required"),
        persona |-> SectionBudget(500, 1, 95, "truncate"),
        safety_constraints |-> SectionBudget(900, 8, 98, "truncate_items"),
        recent_conversation |-> SectionBudget(1800, 6, 70, "summary_then_truncate"),
        user_memory |-> SectionBudget(800, 3, 55, "truncate_items"),
        project_memory |-> SectionBudget(500, 2, 45, "truncate_items"),
        relationship_signal |-> SectionBudget(450, 2, 65, "truncate_items"),
        internal_state |-> SectionBudget(550, 4, 60, "truncate_items"),
        interaction_policy |-> SectionBudget(500, 4, 75, "truncate_items"),
        task_context |-> SectionBudget(800, 4, 50, "truncate_items"),
        user_input |-> SectionBudget(1600, 1, 100, "required")]]

LocalBalanced ==
    [total |-> 10000,
     sections |->
       [system |-> SectionBudget(1400, 1, 100, "required"),
        persona |-> SectionBudget(900, 1, 95, "truncate"),
        safety_constraints |-> SectionBudget(1200, 10, 98, "truncate_items"),
        recent_conversation |-> SectionBudget(3600, 12, 70, "summary_then_truncate"),
        user_memory |-> SectionBudget(1400, 5, 55, "truncate_items"),
        project_memory |-> SectionBudget(1000, 4, 45, "truncate_items"),
        relationship_signal |-> SectionBudget(700, 3, 65, "truncate_items"),
        internal_state |-> SectionBudget(800, 5, 60, "truncate_items"),
        interaction_policy |-> SectionBudget(700, 5, 75, "truncate_items"),
        task_context |-> SectionBudget(1200, 6, 50, "truncate_items"),
        user_input |-> SectionBudget(2400, 1, 100, "required")]]

LocalQuality ==
    [total |-> 16000,
     sections |->
       [system |-> SectionBudget(1800, 1, 100, "required"),
        persona |-> SectionBudget(1400, 1, 95, "truncate"),
        safety_constraints |-> SectionBudget(1600, 12, 98, "truncate_items"),
        recent_conversation |-> SectionBudget(6400, 20, 70, "summary_then_truncate"),
        user_memory |-> SectionBudget(2400, 8, 55, "truncate_items"),
        project_memory |-> SectionBudget(1800, 6, 45, "truncate_items"),
        relationship_signal |-> SectionBudget(1000, 4, 65, "truncate_items"),
        internal_state |-> SectionBudget(1200, 6, 60, "truncate_items"),
        interaction_policy |-> SectionBudget(1000, 6, 75, "truncate_items"),
        task_context |-> SectionBudget(2000, 8, 50, "truncate_items"),
        user_input |-> SectionBudget(3200, 1, 100, "required")]]

ProactiveShort ==
    [total |-> 3000,
     sections |->
       [system |-> SectionBudget(900, 1, 100, "required"),
        persona |-> SectionBudget(350, 1, 95, "truncate"),
        safety_constraints |-> SectionBudget(700, 6, 98, "truncate_items"),
        recent_conversation |-> SectionBudget(500, 3, 45, "truncate_items"),
        user_memory |-> SectionBudget(300, 1, 35, "omit"),
        project_memory |-> SectionBudget(0, 0, 20, "omit"),
        relationship_signal |-> SectionBudget(450, 2, 70, "truncate_items"),
        internal_state |-> SectionBudget(350, 3, 55, "truncate_items"),
        interaction_policy |-> SectionBudget(400, 3, 80, "truncate_items"),
        task_context |-> SectionBudget(450, 3, 50, "truncate_items"),
        user_input |-> SectionBudget(700, 1, 100, "required")]]

\* _disabled_budget: what an assembler with the budget switched off applies.
DisabledBudget ==
    [total |-> 1000000,
     sections |-> [k \in PromptSectionKind |-> SectionBudget(1000000, 10000, 100, "truncate")]]

DefaultProfiles ==
    [local_low |-> LocalLow, local_balanced |-> LocalBalanced,
     local_quality |-> LocalQuality, proactive_short |-> ProactiveShort]

\* A file names the fields it changes: a table per profile with its total and,
\* per section, some of the four fields.
SectionToml(budget, table) == table @@ budget

ProfileToml(budget, table) ==
    [total |-> IF "total" \in DOMAIN table THEN table.total ELSE budget.total,
     sections |-> [k \in PromptSectionKind |->
        IF k \in DOMAIN table THEN SectionToml(budget.sections[k], table[k])
        ELSE budget.sections[k]]]

Configured(file) ==
    [enabled |-> file.enabled, chat |-> file.chat, proactive |-> file.proactive,
     profiles |-> [p \in PromptProfileName |->
        IF p \in DOMAIN file.profiles THEN ProfileToml(DefaultProfiles[p], file.profiles[p])
        ELSE DefaultProfiles[p]]]

ValidSection(budget, kind) ==
    /\ budget.max_chars >= 0 /\ budget.max_items >= 0 /\ budget.priority >= 0
    /\ budget.overflow = "required" =>
           kind \in RequiredKinds /\ budget.max_chars > 0 /\ budget.max_items > 0

\* What joins the required parts of the system message.
TrustedRequiredSeparatorChars(n) == IF n <= 1 THEN 0 ELSE (n - 1) * 2

ValidProfile(p) ==
    LET required == {k \in PromptSectionKind : p.sections[k].overflow = "required"}
    IN  /\ p.total > 0
        /\ \A k \in PromptSectionKind : ValidSection(p.sections[k], k)
        /\ MapThenSumSet(LAMBDA k : p.sections[k].max_chars, required)
             + TrustedRequiredSeparatorChars(
                   Cardinality(required \cap {"system", "safety_constraints"}))
           <= p.total

ValidConfig(config) ==
    /\ \A p \in PromptProfileName : ValidProfile(config.profiles[p])
    /\ config.proactive # "proactive_short" =>
           config.profiles[config.proactive].total <= config.profiles[config.chat].total
    /\ config.profiles["proactive_short"].total < config.profiles["local_balanced"].total

-----------------------------------------------------------------------------
\* PromptSectionInput: a text or a sequence of items under a title.
Text(kind, title, boundary, chars) ==
    [kind |-> kind, title |-> title, boundary |-> boundary, items |-> <<>>, content |-> chars]

List(kind, title, boundary, items) ==
    [kind |-> kind, title |-> title, boundary |-> boundary, items |-> items, content |-> 0]

Item(chars) == [head |-> 0, body |-> chars]

Items(lengths) == [i \in DOMAIN lengths |-> Item(lengths[i])]

\* Role and ": ".
RoleChars(role) == IF role = "user" THEN 6 ELSE 11

SystemSection(p) == Text("system", 18, "trusted", p.system)

PersonaSections(p) ==
    IF p.persona = None THEN <<>> ELSE <<Text("persona", 19, "trusted", p.persona)>>

SafetySection == List("safety_constraints", 27, "trusted", <<Item(303), Item(204)>>)

ConversationSections(p) ==
    (IF p.history = <<>> THEN <<>>
     ELSE <<List("recent_conversation", 19, "user",
                 [i \in DOMAIN p.history |->
                     [head |-> RoleChars(p.history[i].role), body |-> p.history[i].chars]])>>)
    \o (IF p.summary = None THEN <<>>
        ELSE <<Text("task_context", 20, "internal", p.summary)>>)

\* One section per source that returned something, in the order of
\* RetrievalSourceKind.
RetrievedSections(p) ==
    (IF p.durable = <<>> THEN <<>>
     ELSE <<List("user_memory", 17, "external", Items(p.durable))>>)
    \o (IF p.project = <<>> THEN <<>>
        ELSE <<List("project_memory", 24, "external", Items(p.project))>>)
    \o (IF p.transcript = <<>> THEN <<>>
        ELSE <<List("task_context", 27, "external", Items(p.transcript))>>)

MemorySections(p) ==
    IF p.memories = <<>> \/ p.durable # <<>> THEN <<>>
    ELSE <<List("user_memory", 17, "external", Items(p.memories))>>

InternalStateSections(p) ==
    (IF p.affect = None THEN <<>>
     ELSE <<List("internal_state", 14, "internal", <<Item(16 + p.affect)>>)>>)
    \o (IF p.relationship = None THEN <<>>
        ELSE <<List("relationship_signal", 19, "internal", <<Item(22 + p.relationship)>>)>>)

PolicySections(p) ==
    IF p.constraints = <<>> THEN <<>>
    ELSE <<List("interaction_policy", 18, "internal", Items(p.constraints))>>

GoalSections(p) ==
    IF p.goals = <<>> THEN <<>> ELSE <<List("task_context", 5, "internal", Items(p.goals))>>

UserInputSection(p) == Text("user_input", 19, "user", p.actor_text)

Sections(p) ==
    <<SystemSection(p)>> \o PersonaSections(p) \o <<SafetySection>>
    \o ConversationSections(p) \o RetrievedSections(p) \o MemorySections(p)
    \o InternalStateSections(p) \o PolicySections(p) \o GoalSections(p)
    \o <<UserInputSection(p)>>

-----------------------------------------------------------------------------
ItemChars(item) == item.head + item.body

\* _render_items: the title, a colon and a line break, and the items as a list.
RenderItems(title, items) ==
    title + 2 + MapThenSumSet(LAMBDA i : 2 + ItemChars(items[i]), DOMAIN items)
    + (IF items = <<>> THEN 0 ELSE Len(items) - 1)

RenderSection(s) ==
    IF s.items # <<>> THEN RenderItems(s.title, s.items)
    ELSE IF s.content = 0 \/ s.kind = "user_input" THEN s.content
    ELSE s.title + 2 + s.content

\* _truncate_text: the mark of the cut takes the place of the last character.
TruncateText(chars, max) == IF max <= 0 THEN 0 ELSE Min({chars, max})

\* The conversation keeps its newest items, every other section its first.
KeepItems(kind, items, n) ==
    IF kind = "recent_conversation" THEN SubSeq(items, Len(items) - n + 1, Len(items))
    ELSE SubSeq(items, 1, n)

ItemsAfterItemBudget(s, max) ==
    IF Len(s.items) > max /\ max > 0 THEN KeepItems(s.kind, s.items, max) ELSE s.items

\* _truncate_item_to_fit, alone under the title; nothing if no room is left.
TruncatedItem(title, item, max) ==
    LET available == max - RenderItems(title, <<[item EXCEPT !.body = 0]>>)
    IN  IF available <= 0 THEN <<>>
        ELSE <<[item EXCEPT !.body = TruncateText(item.body, available)]>>

\* As many whole items as fit; if not even one does, that one is cut.
ItemsWithinCharBudget(kind, title, items, max) ==
    LET fitting == {n \in 1 .. Len(items) :
                       RenderItems(title, KeepItems(kind, items, n)) <= max}
    IN  IF max <= 0 \/ items = <<>> THEN <<>>
        ELSE IF fitting # {} THEN KeepItems(kind, items, Max(fitting))
        ELSE TruncatedItem(title, KeepItems(kind, items, 1)[1], max)

\* _SectionBudgetApplication: a section that is omitted has no content.
Applied(s, items, chars) == [section |-> s, items |-> items, chars |-> chars, omitted |-> FALSE]

Omitted(s) == [section |-> s, items |-> <<>>, chars |-> 0, omitted |-> TRUE]

OmittedByZeroBudget(s, b) == b.max_chars = 0 \/ (s.items # <<>> /\ b.max_items = 0)

ApplyItems(s, b) ==
    LET kept == ItemsAfterItemBudget(s, b.max_items)
        fits == RenderItems(s.title, kept) <= b.max_chars
        cut == IF fits THEN kept
               ELSE ItemsWithinCharBudget(s.kind, s.title, kept, b.max_chars)
    IN  IF (~fits /\ b.overflow = "omit") \/ cut = <<>> THEN Omitted(s)
        ELSE Applied(s, cut, RenderItems(s.title, cut))

ApplyText(s, b) ==
    LET chars == RenderSection(s)
    IN  IF chars > b.max_chars /\ b.overflow = "omit" THEN Omitted(s)
        ELSE Applied(s, <<>>, TruncateText(chars, b.max_chars))

ApplySection(budget, s) ==
    LET b == budget.sections[s.kind]
    IN  IF OmittedByZeroBudget(s, b) THEN Omitted(s)
        ELSE IF s.items # <<>> THEN ApplyItems(s, b)
        ELSE ApplyText(s, b)

TruncateExisting(a, max) ==
    LET items == ItemsWithinCharBudget(a.section.kind, a.section.title, a.items, max)
    IN  IF a.items = <<>> THEN [a EXCEPT !.chars = TruncateText(@, max)]
        ELSE IF items = <<>> THEN Omitted(a.section)
        ELSE Applied(a.section, items, RenderItems(a.section.title, items))

TotalChars(applied) == MapThenSumSet(LAMBDA i : applied[i].chars, DOMAIN applied)

\* The sections the total budget may cut.
Cuttable(budget, applied) ==
    {i \in DOMAIN applied :
        ~applied[i].omitted /\ budget.sections[applied[i].section.kind].overflow # "required"}

SectionPriority(budget, applied, i) == budget.sections[applied[i].section.kind].priority

\* Mutant: the sections are cut in the order of the prompt.
CutInPromptOrder(budget, applied, i, j) == i < j

\* _overflow_sort_key: section i is cut before section j.
CutBefore(budget, applied, i, j) ==
    LET p == SectionPriority(budget, applied, i)
        q == SectionPriority(budget, applied, j)
    IN  p < q \/ (p = q /\ i < j)

\* _apply_total_budget: what a section has to give is what is left of the
\* overflow when the sections before it have given all they have.
ApplyTotal(budget, total, applied) ==
    LET overflow == TotalChars(applied) - total
        cuttable == Cuttable(budget, applied)
        Remaining(i) ==
            overflow - MapThenSumSet(LAMBDA j : applied[j].chars,
                           {j \in cuttable : CutBefore(budget, applied, j, i)})
    IN  [i \in DOMAIN applied |->
            IF i \notin cuttable \/ Remaining(i) <= 0 THEN applied[i]
            ELSE IF Remaining(i) >= applied[i].chars THEN Omitted(applied[i].section)
            ELSE TruncateExisting(applied[i], applied[i].chars - Remaining(i))]

\* The first half of PromptBudgetPolicy.apply, the same in every iteration.
ApplySections(budget, inputs) == [i \in DOMAIN inputs |-> ApplySection(budget, inputs[i])]

-----------------------------------------------------------------------------
\* The sections of a boundary, joined by blank lines under a label.
Grouped(applied, boundary) ==
    {i \in DOMAIN applied :
        /\ ~applied[i].omitted
        /\ applied[i].section.boundary = boundary
        /\ applied[i].section.kind \notin {"recent_conversation", "user_input"}}

Joined(applied, parts) ==
    MapThenSumSet(LAMBDA i : applied[i].chars, parts)
    + (IF parts = {} THEN 0 ELSE 2 * (Cardinality(parts) - 1))

SystemContent(applied) ==
    Joined(applied, {i \in Grouped(applied, "trusted") : applied[i].chars > 0})

\* The two labels are 57 and 79 characters long.
ContextMessages(applied) ==
    LET Labelled(boundary, label) ==
            IF Grouped(applied, boundary) = {} THEN 0
            ELSE label + Joined(applied, Grouped(applied, boundary))
    IN  Labelled("internal", 57) + Labelled("external", 79)

\* The role of an item becomes the role of a message.
ConversationMessages(applied) ==
    MapThenSumSet(LAMBDA i : MapThenSumSet(LAMBDA j : applied[i].items[j].body,
                                           DOMAIN applied[i].items),
                  {i \in DOMAIN applied : applied[i].section.kind = "recent_conversation"})

UserContent(applied) ==
    MapThenSumSet(LAMBDA i : applied[i].chars,
                  {i \in DOMAIN applied : applied[i].section.kind = "user_input"})

\* _message_content_chars of _messages_from_sections.
MessageChars(applied) ==
    SystemContent(applied) + ContextMessages(applied)
    + ConversationMessages(applied) + UserContent(applied)

-----------------------------------------------------------------------------
\* The profile of the call site; with the budget off, one that cuts nothing.
ProfileForCallSite(config, proactive) ==
    IF ~config.enabled THEN DisabledBudget
    ELSE config.profiles[IF proactive THEN config.proactive ELSE config.chat]

\* A file that does not pass the validation stops the start.
PromptInit ==
    /\ prompt \in Prompts
    /\ \E file \in BudgetFiles :
           /\ ValidConfig(Configured(file))
           /\ profile = ProfileForCallSite(Configured(file), prompt.proactive)
    /\ sections = ApplySections(profile, Sections(prompt))
    /\ effective = profile.total
    /\ attempts = 0
    /\ result = None

MaxAttempts == Len(sections) + 3

Fits(applied) == MessageChars(applied) <= profile.total

\* The loop is over when the messages fit or its attempts are spent.
Assembled == result # None /\ (Fits(result) \/ attempts > MaxAttempts)

\* Lower by the overflow, or by one if that changes nothing, but not below one.
NextTotalMax(total, overflow) ==
    LET lowered == Max({1, total - overflow})
    IN  IF lowered >= total THEN Max({1, total - 1}) ELSE lowered

\* One iteration; the last one is the result whatever its length.
Attempt ==
    /\ ~Assembled
    /\ result' = ApplyTotal(profile, effective, sections)
    /\ effective' = IF Fits(result') THEN effective
                    ELSE NextTotalMax(effective, MessageChars(result') - profile.total)
    /\ attempts' = attempts + 1
    /\ UNCHANGED <<prompt, profile, sections>>

\* The request is sent, and a later turn of the call site assembles another.
NextPrompt ==
    /\ Assembled
    /\ prompt' \in Prompts
    /\ prompt'.proactive = prompt.proactive
    /\ sections' = ApplySections(profile, Sections(prompt'))
    /\ effective' = profile.total
    /\ attempts' = 0
    /\ result' = None
    /\ UNCHANGED profile

PromptNext == Attempt \/ NextPrompt

PromptSpec == PromptInit /\ [][PromptNext]_promptVars

-----------------------------------------------------------------------------
\* Section i lost something to the total budget.
CutByTotal(i) == result[i].chars < sections[i].chars

\* What is cut to fit the total is cut in the order of the priorities, over all
\* the iterations: a section the profile requires loses nothing beyond its own
\* budget, and another one loses a character only when every section of lower
\* priority is gone (PromptBudgetPolicy._apply_total_budget,
\* _assemble_with_final_prompt_cap).
CutsFollowPriority ==
    result # None =>
        \A i \in DOMAIN result : CutByTotal(i) =>
            /\ profile.sections[result[i].section.kind].overflow # "required"
            /\ \A j \in DOMAIN result :
                  SectionPriority(profile, result, j) < SectionPriority(profile, result, i) =>
                      result[j].omitted \/ profile.sections[result[j].section.kind].overflow = "required"

\* The messages of an assembled prompt are no longer than the total of the
\* profile: "最終 LLM messages の実文字数が profile total cap を超えないよう
\* 組み立てる" (runtime/prompting/assembler.py:109).
PromptWithinCap == result # None /\ Assembled => Fits(result)
=============================================================================

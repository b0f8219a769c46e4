---------------------------- MODULE PromptAssembly ----------------------------
(***************************************************************************)
(* How the prompt of a generation is put together: which stored messages   *)
(* it quotes after the boundary of the summary, and which of its sections  *)
(* survive the budget.  Text is reduced to its size in tokens; a title and *)
(* the separators of a section cost nothing here.                          *)
(***************************************************************************)
EXTENDS Integers, Sequences, SequencesExt

CONSTANTS
    TailLimit,      \* PROMPT_RECENT_TAIL_LIMIT (8 in the source)
    AnchorLimit,    \* PROMPT_RECENT_ANCHOR_LIMIT (2 in the source)
    RecentBudget    \* budget of the section of recent messages (1800 in the source)

ASSUME PromptAssumption ==
    /\ TailLimit \in Nat \ {0}
    /\ AnchorLimit \in Nat
    /\ RecentBudget \in Nat \ {0}

Message == [by : {"user", "system", "character"}, size : Nat]
\* A section: the priority SECTION_ROUTE_PRIORITY gives its key, whether it is required, the
\* size of its content and its own budget.
Section == [priority : Nat, required : BOOLEAN, size : Nat, budget : Nat]

\* A boundary is the place of a message, 0 for NULL, -1 for a message that is gone.

\* ContextCoverageError
CoverageGap(boundary, mode) == boundary = -1 /\ mode = "automatic"

\* messages_after_scene_summary_boundary, where it raises no error
RawHistory(history, boundary) ==
    IF boundary = -1 THEN history ELSE SubSeq(history, boundary + 1, Len(history))

SumOf(numbers) ==
    LET sum[i \in 0..Len(numbers)] == IF i = 0 THEN 0 ELSE sum[i - 1] + numbers[i]
    IN  sum[Len(numbers)]
SizeOf(messages) == SumOf([i \in DOMAIN messages |-> messages[i].size])

\* select_prompt_recent_messages: beside the tail, the latest words of user and system.
Selected(raw, mode) ==
    LET n == Len(raw)
        older == {i \in 1..n - TailLimit : raw[i].by \in {"user", "system"}}
        anchors == {i \in older : Cardinality({k \in older : k > i}) < AnchorLimit}
    IN  IF mode = "automatic" \/ n <= TailLimit + AnchorLimit THEN DOMAIN raw
        ELSE anchors \union (n - TailLimit + 1)..n
QuotedSize(raw, mode) ==
    SumOf([i \in DOMAIN raw |-> IF i \in Selected(raw, mode) THEN raw[i].size ELSE 0])

\* Faulty variant of BudgetForRecent: automatic mode keeps the fixed budget.
BudgetForRecentFixed(size, mode) == RecentBudget
BudgetForRecent(size, mode) ==
    IF mode = "automatic" /\ size >= RecentBudget THEN size + 1 ELSE RecentBudget

RecentSection(raw, mode) ==
    LET size == QuotedSize(raw, mode)
    IN  [priority |-> 45, required |-> TRUE, size |-> size, budget |-> BudgetForRecent(size, mode)]

\* route_sections: by their priority, then by their place in the list of the caller.
Routable(section) == section.required \/ section.size > 0
Routed(sections) == {s \in DOMAIN sections : Routable(sections[s])}
RoutedBefore(sections, s, t) ==
    \/ sections[s].priority < sections[t].priority
    \/ sections[s].priority = sections[t].priority /\ s < t
Place(sections, s) ==
    Cardinality({t \in Routed(sections) : t = s \/ RoutedBefore(sections, t, s)})
RouteSections(sections) ==
    [n \in 1..Cardinality(Routed(sections)) |->
        CHOOSE s \in Routed(sections) : Place(sections, s) = n]

\* _clamp_to_budget
Clamped(section) ==
    IF section.budget > 0 /\ section.size > section.budget THEN section.budget ELSE section.size

Included(section, left) == Clamped(section) > 0 /\ (section.required \/ Clamped(section) <= left)

\* compile_prompt_harness: what is left of the budget after so many sections, and what each of
\* them has taken of it.
Left(sections, budget) ==
    LET order == RouteSections(sections)
        left[n \in 0..Len(order)] ==
            IF n = 0 THEN budget
            ELSE LET section == sections[order[n]]
                 IN  IF Included(section, left[n - 1])
                     THEN Max({0, left[n - 1] - Clamped(section)}) ELSE left[n - 1]
    IN  left
Compile(sections, budget) ==
    LET left == Left(sections, budget)
    IN  [s \in Routed(sections) |->
            IF Included(sections[s], left[Place(sections, s) - 1]) THEN Clamped(sections[s]) ELSE 0]
=============================================================================

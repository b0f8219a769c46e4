------------------------------ MODULE ContextPlan ------------------------------
(***************************************************************************)
(* The pure part of context management: how the messages after the summary *)
(* boundary are grouped into turns, which groups are kept verbatim, which  *)
(* are folded into the summary next, and what a model can be sent.  A      *)
(* history is a sequence of messages in the order of (created_at, id).     *)
(*                                                                         *)
(* A message carries the id of the generation job (or of the synchronous   *)
(* attempt) that wrote it.  What the code can find out about that id is    *)
(* kept with it: "job" is a row of message_generation_jobs, "sync" an id   *)
(* that names its source, "legacy" an id the code knows nothing about; of  *)
(* is the message it answers, first the first message it wrote (part of a  *)
(* synchronous id).  Ratios are percentages.                               *)
(***************************************************************************)
EXTENDS Integers, Sequences, FiniteSets, SequencesExt

Job == [kind : {"none", "job", "sync", "legacy"}, of : Nat, first : Nat]
NoJob == [kind |-> "none", of |-> 0, first |-> 0]
Message == [id : Nat, job : Job, tokens : Nat]

Present(history, id) == \E i \in DOMAIN history : history[i].id = id
IndexOf(history, id) == CHOOSE i \in DOMAIN history : history[i].id = id

-----------------------------------------------------------------------------
(* group_complete_turns.                                                   *)

\* The mapping of jobs to sources knows the jobs, and the synchronous attempts whose
\* source is at hand.
Authoritative(history, job) ==
    job.kind = "job" \/ (job.kind = "sync" /\ Present(history, job.of))

\* A reply ties everything between its source and itself together ...
Interval(i, k) == [from |-> Min({i, k}), to |-> Max({i, k})]
OwnedIntervals(history) ==
    {Interval(IndexOf(history, history[i].job.of), i) :
        i \in {k \in DOMAIN history : Authoritative(history, history[k].job)
                                      /\ Present(history, history[k].job.of)}}

\* ... and a run of bubbles of an unknown job is tied to the message before it, if that
\* message was not generated.
RunStarts(history) ==
    {i \in DOMAIN history : /\ history[i].job # NoJob
                            /\ ~Authoritative(history, history[i].job)
                            /\ i > 1 => history[i - 1].job # history[i].job}
RunEnd(history, i) ==
    Max({k \in i..Len(history) : \A p \in i..k : history[p].job = history[i].job})
HasSourceBefore(history, i) == i > 1 /\ history[i - 1].job = NoJob

\* interval_end_by_start: how far message i reaches.  The entry of a run that has no
\* source before it replaces what the first pass found for its first bubble.
IntervalEnd(history, i) ==
    IF i \in RunStarts(history) /\ ~HasSourceBefore(history, i) /\ RunEnd(history, i) > i
    THEN RunEnd(history, i)
    ELSE Max({i} \union {v.to : v \in {w \in OwnedIntervals(history) : w.from = i}}
                 \union {RunEnd(history, k) :
                            k \in {r \in RunStarts(history) : HasSourceBefore(history, r) /\ r = i + 1}})

\* Faulty variant of Reach: overlapping intervals are not merged transitively.
ReachOfFirst(history) ==
    LET reach[i \in 0..Len(history)] ==
            IF i = 0 THEN 0
            ELSE IF i <= reach[i - 1] THEN reach[i - 1] ELSE IntervalEnd(history, i)
    IN  reach
\* How far the group that is open after i messages extends at least.
Reach(history) ==
    [i \in 0..Len(history) |-> Max({0} \union {IntervalEnd(history, k) : k \in 1..i})]

\* Where a group starts; it ends before the next one.
GroupStarts(history) ==
    LET reach == Reach(history) IN {i \in DOMAIN history : i > reach[i - 1]}

-----------------------------------------------------------------------------
(* select_raw_tail_groups, estimate_context_pressure and the batch.        *)

\* The estimate of a message is one token at least, but a generation counts the message it
\* answers with the prompt beside the history, and with no token in it.
Uncounted(history, id) ==
    [i \in DOMAIN history |-> IF history[i].id = id THEN [history[i] EXCEPT !.tokens = 0] ELSE history[i]]

Tokens(history) ==
    LET sum[i \in 0..Len(history)] == IF i = 0 THEN 0 ELSE sum[i - 1] + history[i].tokens
    IN  sum[Len(history)]

\* The groups with which a raw tail in the budget may start: the newest one in any case.
TailStarts(history, budget) ==
    LET starts == GroupStarts(history)
    IN  {s \in starts : s = Max(starts) \/ Tokens(SubSeq(history, s, Len(history))) <= budget}

HighWatermark == 82
LowWatermark == 65

Pressure(history, mandatory, working) ==
    LET projected == mandatory + Tokens(history)
    IN  IF projected > working THEN "hard"
        ELSE IF 100 * projected >= HighWatermark * working THEN "high"
        ELSE "low"

\* Faulty variant of RawTailBudget: everything that fits is kept.
RawTailBudgetFull(mandatory, working) == Max({0, working - mandatory})
RawTailBudget(mandatory, working) == Max({0, (LowWatermark * working) \div 100 - mandatory})

\* The starts of groups before which a fold may end: none beyond that of the raw tail.
Cuts(history, budget) ==
    LET tails == TailStarts(history, budget)
    IN  {c \in GroupStarts(history) : c > 1 /\ \A s \in tails : c <= s}

\* Faulty variant of BatchEnd: the first group is subject to the limit too.
BatchEndStrict(cuts, limit) == Max({0} \union {c - 1 : c \in {d \in cuts : d - 1 <= limit}})
\* The last message of one batch, 0 for none: the first group is indivisible.
BatchEnd(cuts, limit) ==
    Max({0} \union {c - 1 : c \in {d \in cuts : d = Min(cuts) \/ d - 1 <= limit}})

\* The messages of the next fold under a token budget (build_automatic_context_plan, and
\* select_incremental_compression_batch when it carries the plan out).
FoldByTokens(history, budget, limit) ==
    SubSeq(history, 1, BatchEnd(Cuts(history, budget), limit))

-----------------------------------------------------------------------------
(* The count mode of select_incremental_compression_batch.                 *)

\* compression_raw_tail_start: the messages before the protected tail.
RawTailStart(history, tailLimit) ==
    LET start == Len(history) - tailLimit
        job == history[start + 1].job
        runStart == Min({s \in 0..start : \A p \in (s + 1)..start : history[p].job = job})
    IN  IF start <= 0 THEN 0
        ELSE IF job = NoJob THEN start
        ELSE IF runStart > 0 /\ history[runStart].job = NoJob THEN runStart - 1
        ELSE runStart

FoldByCount(history, tailLimit, limit) ==
    LET foldable == RawTailStart(history, tailLimit)
        take == Min({foldable, limit})
        job == history[take].job
        runEnd == Max({e \in take..foldable : \A p \in (take + 1)..e : history[p].job = job})
    IN  IF foldable = 0 THEN <<>>
        ELSE SubSeq(history, 1, IF job = NoJob THEN take ELSE runEnd)

-----------------------------------------------------------------------------
(* resolve_model_context_capacity.  An option is the metadata of a model,  *)
(* 0 where it is unknown.                                                  *)

Capacity(option, default, reserve, roomBudget) ==
    LET window == IF option.window > 0 THEN option.window ELSE default.window
        output == IF option.output > 0 THEN option.output ELSE default.output
        completion == Min({output, Max({1, window - 1})})
        available == Max({1, window - completion - reserve})
    IN  [window |-> window, completion |-> completion, available |-> available,
         working |-> IF roomBudget <= 0 THEN available ELSE Min({available, roomBudget})]

\* Faulty variant of SafeWorking: only the first route counts.
SafeWorkingOfPrimary(routes, default, reserve, roomBudget) ==
    Capacity(routes[1], default, reserve, roomBudget).working
\* resolve_safe_model_context_capacity: the narrowest of the reachable routes.
SafeWorking(routes, default, reserve, roomBudget) ==
    Min({Capacity(routes[r], default, reserve, roomBudget).working : r \in DOMAIN routes})
=============================================================================

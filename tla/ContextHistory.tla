---------------------------- MODULE ContextHistory ----------------------------
(***************************************************************************)
(* The growing history of one room as context management sees it, one step *)
(* at a time: incoming messages, batches of replies that arrive while      *)
(* later messages are already there, folds of the automatic policy, before *)
(* a generation or by a task that an earlier one has queued, and of the    *)
(* compress-now request.  Nothing is deleted and nothing is concurrent     *)
(* here (see SceneCompression); the module exists to ask of every history  *)
(* the room can have whether the operators of ContextPlan keep their       *)
(* promises.                                                               *)
(***************************************************************************)
EXTENDS ContextPlan

CONSTANTS
    Routes,         \* pairs of a model and its fallback that the room may use
    Bounds,         \* what is explored for each pair: the number of messages, their sizes,
                    \* the kinds of job ids replies carry, whether the user compresses,
                    \* the mandatory tokens of the prompts after which a task may be queued,
                    \* whether a generation leaves the message it answers out of the count
    MaxMandatory,   \* bound on the tokens of the prompt beside the history
    BatchLimit,     \* COMPRESSION_BATCH_MESSAGE_LIMIT (48 in the source)
    TailLimit,      \* COMPRESSION_RECENT_MESSAGE_LIMIT (12 in the source)
    DefaultOption,  \* window and output of an unknown model (16384, 2048 in the source)
    Reserve,        \* DEFAULT_MANDATORY_RESERVE_TOKENS (1024 in the source)
    RoomBudget      \* the product prompt budget of the room, 0 for none

ASSUME HistoryAssumption ==
    /\ Routes \subseteq [1..2 -> [window : Nat, output : Nat]]
    /\ Bounds \in [Routes -> [messages : Nat, sizes : SUBSET (Nat \ {0}),
                               kinds : SUBSET {"job", "sync", "again", "legacy"}, compressNow : BOOLEAN,
                               tasks : SUBSET Nat, answers : BOOLEAN]]
    /\ MaxMandatory \in Nat
    /\ BatchLimit \in Nat \ {0}
    /\ TailLimit \in Nat \ {0}
    /\ DefaultOption \in [window : Nat \ {0}, output : Nat \ {0}]
    /\ Reserve \in Nat
    /\ RoomBudget \in Nat

VARIABLES
    history,    \* the messages of the room, the id of each is its position
    folded,     \* scene_states.last_compression_source_message_id, 0 for NULL
    routes,     \* the model the room uses and, second, its fallback
    tasks       \* queued compression tasks: the mandatory tokens in their payload, and the
                \* boundary when they were queued

historyVars == <<history, folded, routes, tasks>>

HistoryInit ==
    /\ history = <<>>
    /\ folded = 0
    /\ routes \in Routes
    /\ tasks = {}

Bound == Bounds[routes]

\* messages_after_compression_boundary
Suffix == SubSeq(history, folded + 1, Len(history))
Working == SafeWorking(routes, DefaultOption, Reserve, RoomBudget)
Mandatories == 0..MaxMandatory

\* The history as it is counted: by a task, or by a generation that answers one of its messages.
Answered == IF Bound.answers THEN {Suffix[i].id : i \in DOMAIN Suffix} ELSE {}
Counts == {Suffix} \union {Uncounted(Suffix, id) : id \in Answered}

\* An incoming message is stored.
StoreIncoming(size) ==
    /\ Len(history) < Bound.messages
    /\ history' = Append(history, [id |-> Len(history) + 1, job |-> NoJob, tokens |-> size])
    /\ UNCHANGED <<folded, routes, tasks>>

\* should_update_scene_orchestration_summary, in automatic mode.
NeedsFold(suffix, mandatory) ==
    /\ Pressure(suffix, mandatory, Working) # "low"
    /\ FoldByTokens(suffix, RawTailBudget(mandatory, Working), BatchLimit) # <<>>

\* A task is queued with the replies of a generation whose prompt had these tokens beside the
\* history, if the history they become part of is to be folded.  (Followed for some prompts only.)
QueueTask ==
    \/ tasks' = tasks
    \/ \E mandatory \in Bound.tasks :
          /\ NeedsFold(SubSeq(history', folded + 1, Len(history')), mandatory)
          /\ tasks' = tasks \union {[mandatory |-> mandatory, boundary |-> folded]}

\* The replies of a generation are stored, one or two of them (a bound).
Store(kind, source, count, size) ==
    LET job == [kind |-> kind, of |-> source, first |-> Len(history) + 1]
    IN  /\ Len(history) + count <= Bound.messages
        /\ history' = history \o [n \in 1..count |->
               [id |-> Len(history) + n, job |-> job, tokens |-> size]]
        /\ UNCHANGED <<folded, routes>>

\* A durable job answers its incoming message; the jobs of a room run in their order.
ReplyByJob(source, count, size) ==
    /\ "job" \in Bound.kinds
    /\ history[source].job = NoJob
    /\ \A i \in DOMAIN history : history[i].job.kind = "job" => history[i].job.of < source
    /\ Store("job", source, count, size) /\ QueueTask

\* post_message answers in the request; regenerate_after_message answers any stored
\* message once more.
ReplyInRequest(source, count, size) ==
    /\ (IF history[source].job = NoJob THEN "sync" ELSE "again") \in Bound.kinds
    /\ Store("sync", source, count, size) /\ QueueTask

\* Replies an earlier version of the program has left, under ids this one cannot resolve.
ReplyOfUnknownJob(count, size) ==
    /\ "legacy" \in Bound.kinds
    /\ Store("legacy", 0, count, size) /\ UNCHANGED tasks

\* A fold of the automatic policy.
FoldAutomatically(suffix, mandatory) ==
    /\ NeedsFold(suffix, mandatory)
    /\ folded' = Last(FoldByTokens(suffix, RawTailBudget(mandatory, Working), BatchLimit)).id

\* Before a generation.
FoldFirst(suffix, mandatory) ==
    FoldAutomatically(suffix, mandatory) /\ UNCHANGED <<history, routes, tasks>>

\* _run_scene_compression_in_session plans anew, from the mandatory tokens in the payload.
RunTask(task) ==
    /\ \/ FoldAutomatically(Suffix, task.mandatory)
       \/ ~NeedsFold(Suffix, task.mandatory) /\ UNCHANGED folded
    /\ tasks' = tasks \ {task}
    /\ UNCHANGED <<history, routes>>

\* compress_conversation_now carries no token budget: the count mode selects.
CompressNow ==
    /\ Bound.compressNow
    /\ LET fold == FoldByCount(Suffix, TailLimit, BatchLimit)
       IN  /\ fold # <<>>
           /\ folded' = Last(fold).id
    /\ UNCHANGED <<history, routes, tasks>>

HistoryNext ==
    \/ \E size \in Bound.sizes : StoreIncoming(size)
    \/ \E count \in 1..2, size \in Bound.sizes :
          \/ \E source \in DOMAIN history :
                ReplyByJob(source, count, size) \/ ReplyInRequest(source, count, size)
          \/ ReplyOfUnknownJob(count, size)
    \/ \E suffix \in Counts, mandatory \in Mandatories : FoldFirst(suffix, mandatory)
    \/ \E task \in tasks : RunTask(task)
    \/ CompressNow

HistorySpec == HistoryInit /\ [][HistoryNext]_historyVars

-----------------------------------------------------------------------------
(* Properties.                                                             *)

\* A cut before message i separates a reply from its source, the bubbles of one job, or
\* the bubbles of an unknown job from the incoming message before them.
Separates(h, i) ==
    \/ \E k \in DOMAIN h : /\ Authoritative(h, h[k].job)
                           /\ Present(h, h[k].job.of)
                           /\ (k < i) # (IndexOf(h, h[k].job.of) < i)
    \/ /\ i > 1
       /\ h[i].job # NoJob
       /\ ~Authoritative(h, h[i].job)
       /\ h[i - 1].job \in {NoJob, h[i].job}

\* The entry of a run without a source before it replaces one that reached further: the
\* first bubble of the run was itself regenerated, and its own source is folded away.
Forgotten(h) ==
    \E i \in RunStarts(h), v \in OwnedIntervals(h) :
        ~HasSourceBefore(h, i) /\ v.from = i /\ RunEnd(h, i) \in (i + 1)..(v.to - 1)

\* group_complete_turns cuts a history exactly where no cut can separate what belongs
\* together: no turn is split, and nothing is kept together without need, however the
\* replies of queued, repeated and unknown turns interleave ("contiguous dependency-closed
\* turn ranges").
\* The one exception is a history in which the reach of a regenerated bubble is forgotten.
GroupsAreFinestTurns ==
    Forgotten(Suffix) \/ GroupStarts(Suffix) = {i \in DOMAIN Suffix : ~Separates(Suffix, i)}

\* Pressure without a way out is reported for a single indivisible turn only: with two
\* groups or more a history that is not "low" leaves something to fold, whichever message
\* is left out of the count.
PressureLeavesWork ==
    \A suffix \in Counts : Cardinality(GroupStarts(suffix)) > 1 =>
        \A mandatory \in Mandatories :
            Pressure(suffix, mandatory, Working) # "low" => NeedsFold(suffix, mandatory)

\* A task that was queued for a fold finds something to fold whatever has been said since,
\* unless another fold came before it or later replies have tied all there is into one turn.
TasksHaveWork ==
    \A task \in tasks :
        \/ folded > task.boundary
        \/ NeedsFold(Suffix, task.mandatory)
        \/ Cardinality(GroupStarts(Suffix)) = 1

\* Pressure is worked off: whoever looks for work under pressure finds it, now or later.
PressureIsWorkedOff == PressureLeavesWork /\ TasksHaveWork

\* A fold that was not cut short by the batch limit leaves room for the next turns: the
\* rest is under the high watermark, or is the newest turn alone (or one that falls apart
\* because the reach of a regenerated bubble is forgotten).
FoldCreatesHeadroom ==
    \A suffix \in Counts :
        \A mandatory \in {m \in Mandatories : Pressure(suffix, m, Working) # "low"} :
            LET budget == RawTailBudget(mandatory, Working)
                fold == FoldByTokens(suffix, budget, BatchLimit)
                rest == SubSeq(suffix, Len(fold) + 1, Len(suffix))
            IN  (\A c \in Cuts(suffix, budget) : c <= Len(fold) + 1)
                => \/ Pressure(rest, mandatory, Working) = "low"
                   \/ Cardinality(GroupStarts(rest)) <= 1
                   \/ Forgotten(rest)

\* A prompt whose pressure is not "hard" fits, with its completion, into the window of the
\* model and of its fallback, unless the reserves alone exceed that window.
PromptFitsEveryRoute ==
    \A suffix \in Counts, mandatory \in Mandatories :
        Pressure(suffix, mandatory, Working) # "hard" =>
            \A r \in DOMAIN routes :
                LET capacity == Capacity(routes[r], DefaultOption, Reserve, RoomBudget)
                IN  capacity.completion + Reserve < capacity.window
                    => mandatory + Tokens(suffix) + capacity.completion + Reserve <= capacity.window

\* "source + generated bubbles are never split at the protected-tail or 48-message
\* boundary": a fold leaves every turn whose two ends were after the old boundary on one
\* side of the new one (with the same exception).
KeepsTurns ==
    \A i \in DOMAIN history :
        history[i].job.of > folded => (i <= folded') = (history[i].job.of <= folded')
FoldKeepsTurns ==
    [][\/ KeepsTurns \/ Forgotten(Suffix)
       \/ ~ \E suffix \in Counts, mandatory \in Mandatories : FoldAutomatically(suffix, mandatory)]_historyVars
=============================================================================

------------------------------ MODULE ModelCalls ------------------------------
(***************************************************************************)
(* The calls a turn and a compression task make to language models, and    *)
(* the circuit breaker all threads of the process share.  A turn brings    *)
(* its context below the limit first (folds of its own), then asks for     *)
(* replies, then lets each active command rewrite them.  Every chat is     *)
(* refused while the circuit of its client is open, repeats a request      *)
(* after a transport error, and is recorded as a row of usage.             *)
(*                                                                         *)
(* What a model says is open: an answer is usable or not.  A sick provider *)
(* answers with an error or with a body the client cannot read: one that   *)
(* is no JSON ("garbled"), or JSON without choices ("shapeless").          *)
(***************************************************************************)
EXTENDS Integers, Sequences, FiniteSets

CONSTANTS
    Clients,        \* a provider account with a model: what a circuit belongs to
    Turns, Tasks,   \* who calls: generations of replies, and compression tasks
    Routes,         \* the client and, second, the fallback of each part of each caller
    Stages,         \* compression calls per attempt: 1 for "fast", 3 for "quality"
    Commands,       \* how many active commands each turn has
    Threshold,      \* circuit_failure_threshold (2 in the source)
    CoolDown,       \* circuit_cooldown_seconds, in ticks of the model
    Tries,          \* transport_retry_attempts (2 in the source)
    MaxCatchUp      \* AUTOMATIC_PREGENERATION_MAX_COMPRESSION_BATCHES (3 in the source)

Callers == Turns \union Tasks
Parts == {"fold", "reply", "command"}
ParseAttempts == 2  \* for attempt in range(2)

ASSUME CallsAssumption ==
    /\ Turns \intersect Tasks = {}
    /\ \A c \in Callers, p \in Parts : Routes[c][p] \in Seq(Clients) /\ Len(Routes[c][p]) \in 1..2
    /\ \A c \in Callers : Len(Routes[c]["command"]) = 1
    /\ Stages \in [Callers -> {1, 3}]
    /\ Commands \in [Turns -> Nat]
    /\ Threshold \in Nat \ {0} /\ CoolDown \in Nat \ {0} /\ Tries \in Nat \ {0}
    /\ MaxCatchUp \in Nat

VARIABLES
    circuit,    \* _CIRCUIT_STATES
    up,         \* whether the provider behind each client is well
    job,        \* where each caller is
    rows,       \* status of the usage rows of the reply calls of its last operation
    lost,       \* the clients its current part has found unavailable
    end         \* how its last operation ended, "none" before

vars == <<circuit, up, job, rows, lost, end>>

Closed == [failures |-> 0, open |-> FALSE, left |-> 0]
Circuit == [failures : 0..Threshold, open : BOOLEAN, left : 0..CoolDown]
RowStatus == {"transport_success", "validated", "parse_failed"}
TurnEnd == {"answered", "unavailable", "unusable", "refused", "broken", "maintenance"}
TaskEnd == {"folded", "kept"}

Idle == [pc |-> "rest", part |-> "fold", route |-> 1, attempt |-> 1, stage |-> 1, tries |-> 1,
         folds |-> 0, commands |-> 0, chats |-> 0, row |-> 0]

\* The most chats one operation can take.
MostChats(c) ==
    IF c \in Tasks THEN Len(Routes[c]["fold"]) * Stages[c]
    ELSE MaxCatchUp * Len(Routes[c]["fold"]) * Stages[c]
         + ParseAttempts + Len(Routes[c]["reply"]) - 1 + Commands[c]

TypeOK ==
    /\ circuit \in [Clients -> Circuit]
    /\ up \in [Clients -> BOOLEAN]
    /\ \A c \in Callers :
          /\ job[c].pc \in {"rest", "evaluate", "ask", "wait", "judge"}
          /\ job[c].part \in IF c \in Turns THEN Parts ELSE {"fold"}
          /\ job[c].route \in DOMAIN Routes[c][job[c].part]
          /\ job[c].attempt \in 1..ParseAttempts
          /\ job[c].stage \in 1..Stages[c]
          /\ job[c].tries \in 1..Tries
          /\ job[c].folds \in 0..MaxCatchUp
          /\ job[c].chats \in 0..MostChats(c) + 1
          /\ job[c].row \in 0..Len(rows[c])
          /\ rows[c] \in Seq(RowStatus)
          /\ lost[c] \subseteq Clients
          /\ end[c] \in {"none"} \union (IF c \in Turns THEN TurnEnd ELSE TaskEnd)

Init ==
    /\ circuit = [k \in Clients |-> Closed]
    /\ up = [k \in Clients |-> TRUE]
    /\ job = [c \in Callers |-> Idle]
    /\ rows = [c \in Callers |-> <<>>]
    /\ lost = [c \in Callers |-> {}]
    /\ end = [c \in Callers |-> "none"]

At(c, pc) == job[c].pc = pc
Doing(c, part) == job[c].part = part
Client(c) == Routes[c][job[c].part][job[c].route]
HasFallback(c) == job[c].route < Len(Routes[c][job[c].part])
Ahead(k) == circuit[k].open /\ circuit[k].left > 0

-----------------------------------------------------------------------------
(* Course of an operation.                                                 *)

Goto(c, j) == job' = [job EXCEPT ![c] = j] /\ UNCHANGED end
Asking(c, part) ==
    [job[c] EXCEPT !.pc = "ask", !.part = part, !.route = 1, !.attempt = 1, !.stage = 1]
Finish(c, how) == job' = [job EXCEPT ![c] = Idle] /\ end' = [end EXCEPT ![c] = how]

StartTask(c) ==
    /\ At(c, "rest") /\ c \in Tasks
    /\ job' = [job EXCEPT ![c].pc = "ask"]
    /\ end' = [end EXCEPT ![c] = "none"]
    /\ UNCHANGED <<circuit, up, rows, lost>>

StartTurn(c) ==
    /\ At(c, "rest") /\ c \in Turns
    /\ job' = [job EXCEPT ![c].pc = "evaluate", ![c].commands = Commands[c]]
    /\ end' = [end EXCEPT ![c] = "none"]
    /\ lost' = [lost EXCEPT ![c] = {}]
    /\ rows' = [rows EXCEPT ![c] = <<>>]
    /\ UNCHANGED <<circuit, up>>

\* _ensure_automatic_generation_context: once started, catch-up continues below high.
Evaluate(c) ==
    /\ At(c, "evaluate")
    /\ \E pressure \in {"low", "high", "hard"}, foldable \in BOOLEAN :
          LET needed == pressure = "hard" \/ (job[c].folds > 0 /\ pressure = "high")
              possible == foldable /\ job[c].folds < MaxCatchUp
          IN  \/ /\ needed /\ possible
                 /\ Goto(c, [Asking(c, "fold") EXCEPT !.folds = @ + 1])
              \/ /\ pressure = "hard" /\ ~possible
                 /\ Finish(c, "maintenance")
              \/ /\ pressure # "hard" /\ ~(needed /\ possible)
                 /\ Goto(c, Asking(c, "reply"))
    /\ UNCHANGED <<circuit, up, rows, lost>>

\* A boundary that no longer exists (ContextCoverageError).
CoverageGap(c) ==
    /\ At(c, "evaluate")
    /\ Finish(c, "maintenance")
    /\ UNCHANGED <<circuit, up, rows, lost>>

\* The commands in turn; one that finds no bubble to rewrite makes no call, and one that
\* fails marks the bubbles and the turn goes on.
AfterReplies(c) ==
    \/ \E n \in 1..job[c].commands : Goto(c, [Asking(c, "command") EXCEPT !.commands = n - 1])
    \/ Finish(c, "answered")

\* A fold of a turn counts if the summary has moved; another fold may have been faster.
FoldSucceeds(c) ==
    IF c \in Tasks THEN Finish(c, "folded")
    ELSE Goto(c, [job[c] EXCEPT !.pc = "evaluate"]) \/ Finish(c, "maintenance")
\* Any exception of an attempt leads to the fallback, from the first stage on.
FoldAttemptFails(c) ==
    IF HasFallback(c)
    THEN Goto(c, [Asking(c, "fold") EXCEPT !.route = job[c].route + 1])
    ELSE Finish(c, IF c \in Tasks THEN "kept" ELSE "maintenance")

\* Faulty variant of SwitchOrGiveUp: the fallback gets parse attempts of its own.
SwitchAfresh(c) ==
    IF HasFallback(c)
    THEN Goto(c, [job[c] EXCEPT !.pc = "ask", !.route = 2, !.attempt = 1])
    ELSE Finish(c, "unavailable")
\* Faulty variant of SwitchOrGiveUp: only the first attempt looks for the fallback.
SwitchAtFirst(c) ==
    IF HasFallback(c) /\ job[c].attempt = 1
    THEN Goto(c, [job[c] EXCEPT !.pc = "ask", !.route = 2])
    ELSE Finish(c, "unavailable")
\* The switch to the fallback is for the rest of the turn.
SwitchOrGiveUp(c) ==
    IF HasFallback(c)
    THEN Goto(c, [job[c] EXCEPT !.pc = "ask", !.route = 2])
    ELSE Finish(c, "unavailable")

\* LLMUnavailableError, as each part takes it.
Unavailable(c) ==
    \/ Doing(c, "reply") /\ SwitchOrGiveUp(c) /\ lost' = [lost EXCEPT ![c] = @ \union {Client(c)}]
    \/ Doing(c, "fold") /\ FoldAttemptFails(c) /\ UNCHANGED lost
    \/ Doing(c, "command") /\ AfterReplies(c) /\ UNCHANGED lost

-----------------------------------------------------------------------------
(* One chat.                                                               *)

\* Faulty variant of Refuse: the refusal counts as one more failure.
RefuseAsFailure(c) ==
    /\ At(c, "ask")
    /\ Ahead(Client(c))
    /\ circuit' = [circuit EXCEPT ![Client(c)].left = CoolDown]
    /\ Unavailable(c)
    /\ UNCHANGED <<up, rows>>
Refuse(c) ==
    /\ At(c, "ask")
    /\ Ahead(Client(c))
    /\ Unavailable(c)
    /\ UNCHANGED <<circuit, up, rows>>

\* The chats of an operation, counted until they are too many.
Counted(c) == IF job[c].chats > MostChats(c) THEN job[c].chats ELSE job[c].chats + 1
Send(c) ==
    /\ At(c, "ask")
    /\ ~Ahead(Client(c))
    /\ circuit' = IF circuit[Client(c)].open THEN [circuit EXCEPT ![Client(c)] = Closed] ELSE circuit
    /\ Goto(c, [job[c] EXCEPT !.pc = "wait", !.tries = 1, !.chats = Counted(c)])
    /\ UNCHANGED <<up, rows, lost>>

\* A status or an exception worth repeating; the circuit is not looked at again.
Retry(c) ==
    /\ At(c, "wait") /\ ~up[Client(c)]
    /\ job[c].tries < Tries
    /\ Goto(c, [job[c] EXCEPT !.tries = @ + 1])
    /\ UNCHANGED <<circuit, up, rows, lost>>

\* Failures beyond the threshold are as good as the threshold.
RecordFailure(k) ==
    LET failures == IF circuit[k].failures < Threshold THEN circuit[k].failures + 1 ELSE Threshold
    IN  circuit' = [circuit EXCEPT ![k] =
            IF failures = Threshold THEN [failures |-> failures, open |-> TRUE, left |-> CoolDown]
            ELSE [@ EXCEPT !.failures = failures]]

\* The last try, or an error not worth repeating.
TransportFails(c) ==
    /\ At(c, "wait") /\ ~up[Client(c)]
    /\ RecordFailure(Client(c))
    /\ Unavailable(c)
    /\ UNCHANGED <<up, rows>>

\* Faulty variant of RowOfAnswer: the first answer of the turn keeps the place.
RowOfFirst(c, written) == IF job[c].row = 0 /\ written THEN Len(rows[c]) + 1 ELSE job[c].row
\* The row outcomes are recorded on: that of the last answer, 0 if it has none.
RowOfAnswer(c, written) == IF written THEN Len(rows[c]) + 1 ELSE 0
\* _record_usage swallows its own errors: then the answer has no row.
Answer(c) ==
    /\ At(c, "wait") /\ up[Client(c)]
    /\ circuit' = [circuit EXCEPT ![Client(c)] = Closed]
    /\ \E written \in BOOLEAN :
          IF Doing(c, "reply")
          THEN /\ rows' = IF written THEN [rows EXCEPT ![c] = Append(@, "transport_success")] ELSE rows
               /\ Goto(c, [job[c] EXCEPT !.pc = "judge", !.row = RowOfAnswer(c, written)])
          ELSE Goto(c, [job[c] EXCEPT !.pc = "judge"]) /\ UNCHANGED rows
    /\ UNCHANGED <<up, lost>>

\* record_response_outcome, on the row of the last answer; it swallows its own errors too.
Mark(c, status) ==
    \/ UNCHANGED rows
    \/ job[c].row # 0 /\ rows' = [rows EXCEPT ![c][job[c].row] = status]

\* Unusable replies are asked for once more, of the client in use.
ParseFails(c) ==
    /\ Mark(c, "parse_failed")
    /\ IF job[c].attempt < ParseAttempts
       THEN Goto(c, [job[c] EXCEPT !.pc = "ask", !.attempt = @ + 1])
       ELSE Finish(c, "unusable")

\* A body that is no JSON is an unusable reply, and the row it is marked on that of the
\* answer before; the breaker learns nothing of it.
Garbled(c) ==
    /\ At(c, "wait") /\ ~up[Client(c)]
    /\ \/ Doing(c, "reply") /\ ParseFails(c)
       \/ Doing(c, "fold") /\ FoldAttemptFails(c) /\ UNCHANGED rows
       \/ Doing(c, "command") /\ AfterReplies(c) /\ UNCHANGED rows
    /\ UNCHANGED <<circuit, up, lost>>

\* A body without choices is a KeyError, which no retry and no fallback expects.
Shapeless(c) ==
    /\ At(c, "wait") /\ ~up[Client(c)]
    /\ \/ Doing(c, "reply") /\ Finish(c, "broken")
       \/ Doing(c, "fold") /\ FoldAttemptFails(c)
       \/ Doing(c, "command") /\ AfterReplies(c)
    /\ UNCHANGED <<circuit, up, rows, lost>>

\* The room may refuse replies that are valid in themselves (see TurnReplies).
JudgeReply(c) ==
    /\ At(c, "judge") /\ Doing(c, "reply")
    /\ \/ Mark(c, "validated") /\ (AfterReplies(c) \/ Finish(c, "refused"))
       \/ ParseFails(c)
    /\ UNCHANGED <<circuit, up, lost>>

JudgeFold(c) ==
    /\ At(c, "judge") /\ Doing(c, "fold")
    /\ \/ job[c].stage < Stages[c]
          /\ Goto(c, [job[c] EXCEPT !.pc = "ask", !.stage = @ + 1])
       \/ job[c].stage = Stages[c] /\ FoldSucceeds(c)
       \/ FoldAttemptFails(c)
    /\ UNCHANGED <<circuit, up, rows, lost>>

\* Whatever a command makes of the replies, the turn goes on.
JudgeCommand(c) ==
    /\ At(c, "judge") /\ Doing(c, "command")
    /\ AfterReplies(c)
    /\ UNCHANGED <<circuit, up, rows, lost>>

-----------------------------------------------------------------------------
(* Time and providers.                                                     *)

Tick(k) ==
    /\ Ahead(k)
    /\ circuit' = [circuit EXCEPT ![k].left = @ - 1]
    /\ UNCHANGED <<up, job, rows, lost, end>>

ChangeHealth(k) ==
    /\ up' = [up EXCEPT ![k] = ~@]
    /\ UNCHANGED <<circuit, job, rows, lost, end>>

Start(c) == StartTask(c) \/ StartTurn(c)
Step(c) ==
    \/ Evaluate(c) \/ CoverageGap(c)
    \/ Refuse(c) \/ Send(c) \/ Retry(c) \/ TransportFails(c) \/ Answer(c)
    \/ Garbled(c) \/ Shapeless(c)
    \/ JudgeReply(c) \/ JudgeFold(c) \/ JudgeCommand(c)

Next ==
    \/ \E c \in Callers : Start(c) \/ Step(c)
    \/ \E k \in Clients : Tick(k) \/ ChangeHealth(k)

Spec == Init /\ [][Next]_vars
\* Requests end by answer, error or timeout, and time passes.
FairSpec ==
    /\ Spec
    /\ \A c \in Callers : WF_vars(Step(c))
    /\ \A k \in Clients : WF_vars(Tick(k))

-----------------------------------------------------------------------------
(* Properties.                                                             *)

\* Catch-up folds, their fallbacks and stages, the second parse attempt, the switch to the
\* fallback and the commands multiply to a bound and no more: the switch is not undone and
\* no retry starts another's retries over; every counter on the way stays in its bound.
BoundedSpending == TypeOK /\ \A c \in Callers : job[c].chats <= MostChats(c)

\* A turn fails as unavailable only after every client of its room has been found
\* unavailable in it, in whatever order bad answers and outages come.
NoEarlySurrender ==
    \A c \in Turns : end[c] = "unavailable" =>
        \A i \in DOMAIN Routes[c]["reply"] : Routes[c]["reply"][i] \in lost[c]

\* The usage rows tell what became of each answer, even where an outcome is recorded on the
\* row of the answer before: once an answer counts as validated no other is asked for, and
\* the answer that was used does not count as failed.
RowsTellTheTruth ==
    \A c \in Turns : LET n == Len(rows[c]) IN
        /\ \A i \in 1..n : rows[c][i] = "validated" =>
              /\ i = n
              /\ ~At(c, "rest") => Doing(c, "command")
              /\ end[c] \in {"none", "answered", "refused"}
        /\ end[c] = "answered" /\ n = ParseAttempts => rows[c][n] # "parse_failed"

\* A provider that is well again is asked again: refusals do not renew each other.
ServedAgain ==
    \A k \in Clients :
        <>[]up[k] => <>[][~\E c \in Callers : Client(c) = k /\ Refuse(c)]_vars
=============================================================================

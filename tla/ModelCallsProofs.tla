--------------------------- MODULE ModelCallsProofs ---------------------------
(***************************************************************************)
(* What is proved of the calls of turns and compression tasks: every       *)
(* operation stays within its chats, a turn gives up only after all of its *)
(* clients, and its usage rows tell what became of the answers.            *)
(*                                                                         *)
(* The invariant is one of each caller on its own, a relation of its job,  *)
(* its rows, the clients it has lost and its end.  What the callers share, *)
(* circuits and providers, decides which step is next and is otherwise     *)
(* unconstrained, so that nothing is claimed about their order.            *)
(***************************************************************************)
EXTENDS ModelCalls, SequenceTheorems, TLAPS

\* How many clients a part of a caller has.
Ways(c, part) == Len(Routes[c][part])
\* Chats of one fold, all routes taken, and of n folds.
Round(c) == Ways(c, "fold") * Stages[c]
Rounds(c, n) == n * Round(c)
\* Chats of a fold that were made on the routes before this one.
Before(c, route) == IF route = 1 THEN 0 ELSE Stages[c]

\* What a caller can have spent where it is.
Budget(c, j) ==
    LET sent == IF j.pc = "ask" THEN 0 ELSE 1
        replies == Rounds(c, MaxCatchUp) + (j.attempt - 1) + (j.route - 1)
        commands == Rounds(c, MaxCatchUp) + ParseAttempts + Ways(c, "reply") - 1
                    + (Commands[c] - j.commands - 1)
        folds == (IF c \in Tasks THEN 0 ELSE Rounds(c, j.folds - 1)) + Before(c, j.route) + (j.stage - 1)
    IN  CASE j.pc = "rest" -> 0
          [] j.pc = "evaluate" -> Rounds(c, j.folds)
          [] j.pc \notin {"rest", "evaluate"} /\ j.part = "fold" -> folds + sent
          [] j.pc \notin {"rest", "evaluate"} /\ j.part = "reply" -> replies + sent
          [] j.pc \notin {"rest", "evaluate"} /\ j.part = "command" -> commands + sent

JobShape(j) ==
    j = [pc |-> j.pc, part |-> j.part, route |-> j.route, attempt |-> j.attempt, stage |-> j.stage,
         tries |-> j.tries, folds |-> j.folds, commands |-> j.commands, chats |-> j.chats, row |-> j.row]

\* A caller that folds, asks for replies or for a command.
Working(j) == j.pc \in {"ask", "wait", "judge"}

JobOK(c, j) ==
    /\ JobShape(j)
    /\ j.pc \in {"rest", "evaluate", "ask", "wait", "judge"}
    /\ j.part \in Parts /\ (c \in Tasks => j.part = "fold")
    /\ j.route \in 1..Ways(c, j.part)
    /\ j.attempt \in 1..ParseAttempts /\ j.stage \in 1..Stages[c] /\ j.tries \in 1..Tries
    /\ j.folds \in 0..MaxCatchUp
    /\ c \in Turns => j.commands \in 0..Commands[c]
    /\ c \in Tasks => j.commands = 0
    /\ j.pc = "rest" => j = Idle
    /\ j.pc = "evaluate" => c \in Turns /\ j.part = "fold"
    /\ c \in Turns /\ Working(j) /\ j.part = "fold" => j.folds >= 1
    /\ j.part = "command" => j.commands < Commands[c]
    /\ j.chats \in Nat /\ j.chats <= Budget(c, j)

\* The rows of a turn: only its replies write them, an attempt writes one at most, and an
\* answer that is judged has the last row or none.
RowsOK(c, j, r, e) ==
    /\ r \in Seq(RowStatus) /\ j.row \in 0..Len(r)
    /\ c \in Turns =>
          /\ j.pc # "rest" => e = "none"
          /\ j.pc # "rest" /\ j.part = "fold" => r = <<>>
          /\ j.pc # "rest" /\ j.part = "reply" =>
                /\ \A i \in 1..Len(r) : r[i] # "validated"
                /\ j.row \in {0, Len(r)}
                /\ IF j.pc = "judge" /\ j.row # 0
                   THEN Len(r) <= j.attempt /\ r[Len(r)] = "transport_success"
                   ELSE Len(r) <= j.attempt - 1
          /\ \A i \in 1..Len(r) : r[i] = "validated" => i = Len(r) /\ e \in {"none", "answered", "refused"}
          /\ (e = "answered" \/ (j.pc # "rest" /\ j.part = "command")) /\ Len(r) = ParseAttempts
                => r[Len(r)] # "parse_failed"

\* The clients a turn has lost: it is on its fallback only without the first one.
LostOK(c, j, l, e) ==
    /\ l \subseteq Clients
    /\ e \in {"none"} \union (IF c \in Turns THEN TurnEnd ELSE TaskEnd)
    /\ c \in Turns =>
          /\ j.part = "reply" /\ j.route = 2 => Routes[c]["reply"][1] \in l
          /\ e = "unavailable" => \A i \in DOMAIN Routes[c]["reply"] : Routes[c]["reply"][i] \in l

CallerOK(c, j, r, l, e) == JobOK(c, j) /\ RowsOK(c, j, r, e) /\ LostOK(c, j, l, e)

WorldOK == circuit \in [Clients -> Circuit] /\ up \in [Clients -> BOOLEAN]

CallsInv ==
    /\ WorldOK
    /\ job = [c \in Callers |-> job[c]] /\ rows = [c \in Callers |-> rows[c]]
    /\ lost = [c \in Callers |-> lost[c]] /\ end = [c \in Callers |-> end[c]]
    /\ \A c \in Callers : CallerOK(c, job[c], rows[c], lost[c], end[c])

-----------------------------------------------------------------------------
(* Arithmetic of the budgets.                                              *)

LEMMA RoutesTyped ==
  ASSUME NEW c \in Callers, NEW p \in Parts
  PROVE  /\ Routes[c][p] \in Seq(Clients) /\ Len(Routes[c][p]) \in 1..2
         /\ DOMAIN Routes[c][p] = 1..Len(Routes[c][p])
         /\ \A i \in 1..Len(Routes[c][p]) : Routes[c][p][i] \in Clients
         /\ Ways(c, p) = Len(Routes[c][p])
         /\ Ways(c, "command") = 1 /\ Ways(c, "fold") \in 1..2 /\ Ways(c, "reply") \in 1..2
<1>1. Routes[c][p] \in Seq(Clients) /\ Len(Routes[c][p]) \in 1..2
  BY CallsAssumption
<1>2. \A q \in Parts : Len(Routes[c][q]) \in 1..2
  BY CallsAssumption
<1>3. QED
  BY <1>1, <1>2, ElementOfSeq, LenProperties, CallsAssumption DEF Parts, Ways

LEMMA RoundTyped ==
  ASSUME NEW c \in Callers
  PROVE  /\ Stages[c] \in {1, 3} /\ Round(c) \in Nat /\ Stages[c] <= Round(c)
         /\ Ways(c, "fold") = 2 => Round(c) = Stages[c] + Stages[c]
         /\ Ways(c, "fold") = 1 => Round(c) = Stages[c]
<1>1. Stages[c] \in {1, 3} /\ Ways(c, "fold") \in 1..2
  BY RoutesTyped, CallsAssumption DEF Parts
<1>2. CASE Ways(c, "fold") = 1
  BY <1>1, <1>2 DEF Round
<1>3. CASE Ways(c, "fold") = 2
  BY <1>1, <1>3 DEF Round
<1>4. QED
  BY <1>1, <1>2, <1>3

LEMMA SpentOnRoutes ==
  ASSUME NEW c \in Callers, NEW route \in 1..Ways(c, "fold"), NEW stage \in 1..Stages[c], NEW sent \in {0, 1}
  PROVE  /\ Before(c, route) + (stage - 1) + sent \in Nat
         /\ Before(c, route) + (stage - 1) + sent <= Round(c)
<1>1. Stages[c] \in Nat /\ Ways(c, "fold") \in 1..2
  BY RoundTyped, RoutesTyped DEF Parts
<1>2. CASE route = 1
  BY <1>1, <1>2, RoundTyped DEF Before
<1>3. CASE route # 1
  <2>1. PICK n \in 1..2 : n = Ways(c, "fold")
    BY <1>1
  <2>2. route = 2 /\ n = 2
    BY <1>3, <2>1
  <2>3. QED
    BY <1>1, <2>1, <2>2, RoundTyped DEF Before
<1>4. QED
  BY <1>2, <1>3

LEMMA RoundsAdd ==
  ASSUME NEW c \in Callers, NEW n \in Nat
  PROVE  /\ Rounds(c, n) \in Nat /\ Rounds(c, 0) = 0
         /\ Rounds(c, n + 1) = Rounds(c, n) + Round(c)
<1>1. Round(c) \in Nat
  BY RoundTyped
<1>2. QED
  BY <1>1 DEF Rounds

LEMMA RoundsGrow ==
  ASSUME NEW c \in Callers, NEW n \in 0..MaxCatchUp
  PROVE  Rounds(c, n) \in Nat /\ Rounds(c, MaxCatchUp) \in Nat /\ Rounds(c, n) <= Rounds(c, MaxCatchUp)
<1>1. Round(c) \in Nat /\ MaxCatchUp \in Nat
  BY RoundTyped, CallsAssumption
<1>2. Rounds(c, n) \in Nat /\ Rounds(c, MaxCatchUp) \in Nat
  BY <1>1, RoundsAdd
<1>3. MaxCatchUp * Round(c) = n * Round(c) + (MaxCatchUp - n) * Round(c)
  BY <1>1
<1>4. (MaxCatchUp - n) * Round(c) >= 0
  BY <1>1
<1>5. QED
  BY <1>1, <1>2, <1>3, <1>4 DEF Rounds

\* Sums of the three kinds of calls.
LEMMA FoldSum ==
  ASSUME NEW earlier \in Nat, NEW round \in Nat, NEW all \in Nat, NEW more \in 1..2, NEW commands \in Nat,
         earlier + round <= all, NEW inFold \in Nat, inFold <= round
  PROVE  earlier + inFold <= all + 2 + more - 1 + commands
  OBVIOUS

LEMMA ReplySum ==
  ASSUME NEW all \in Nat, NEW attempt \in 1..2, NEW more \in 1..2, NEW route \in 1..more,
         NEW sent \in {0, 1}, NEW commands \in Nat
  PROVE  /\ all + (attempt - 1) + (route - 1) + sent \in Nat /\ all + 2 + more - 1 + commands \in Nat
         /\ all + (attempt - 1) + (route - 1) + sent <= all + 2 + more - 1 + commands
  OBVIOUS

LEMMA CommandSum ==
  ASSUME NEW all \in Nat, NEW more \in 1..2, NEW commands \in Nat, NEW ahead \in 0..commands,
         ahead < commands, NEW sent \in {0, 1}
  PROVE  /\ all + 2 + more - 1 + (commands - ahead - 1) + sent \in Nat /\ all + 2 + more - 1 + commands \in Nat
         /\ all + 2 + more - 1 + (commands - ahead - 1) + sent <= all + 2 + more - 1 + commands
  OBVIOUS

\* The budget, place by place.
LEMMA BudgetAt ==
  ASSUME NEW c \in Callers, NEW j
  PROVE  /\ j.pc = "rest" => Budget(c, j) = 0
         /\ j.pc = "evaluate" => Budget(c, j) = Rounds(c, j.folds)
         /\ \A sent \in {0, 1} : (j.pc = "ask" /\ sent = 0) \/ (j.pc \in {"wait", "judge"} /\ sent = 1) =>
               /\ j.part = "fold" =>
                     Budget(c, j) = (IF c \in Tasks THEN 0 ELSE Rounds(c, j.folds - 1))
                                    + Before(c, j.route) + (j.stage - 1) + sent
               /\ j.part = "reply" =>
                     Budget(c, j) = Rounds(c, MaxCatchUp) + (j.attempt - 1) + (j.route - 1) + sent
               /\ j.part = "command" =>
                     Budget(c, j) = Rounds(c, MaxCatchUp) + ParseAttempts + Ways(c, "reply") - 1
                                    + (Commands[c] - j.commands - 1) + sent
  BY DEF Budget

LEMMA WithinBudget ==
  ASSUME NEW c \in Callers, NEW j, JobOK(c, j)
  PROVE  Budget(c, j) \in Int /\ MostChats(c) \in Nat /\ Budget(c, j) <= MostChats(c)
<1>1. /\ j.pc \in {"rest", "evaluate", "ask", "wait", "judge"} /\ j.part \in Parts
      /\ j.route \in 1..Ways(c, j.part) /\ j.attempt \in 1..2 /\ j.stage \in 1..Stages[c]
      /\ j.folds \in 0..MaxCatchUp
  BY DEF JobOK, ParseAttempts
<1>2. /\ Ways(c, "fold") \in 1..2 /\ Ways(c, "reply") \in 1..2
      /\ Ways(c, "command") = 1
  BY RoutesTyped DEF Parts
<1>3. /\ Stages[c] \in {1, 3} /\ Round(c) \in Nat
      /\ Ways(c, "fold") = 2 => Round(c) = Stages[c] + Stages[c]
      /\ Ways(c, "fold") = 1 => Round(c) = Stages[c]
  BY RoundTyped
<1>4. MaxCatchUp \in Nat /\ 0 \in 0..MaxCatchUp
  BY CallsAssumption
<1>5. CASE c \in Tasks
  <2>1. MostChats(c) = Round(c)
    BY <1>5 DEF MostChats, Round, Ways
  <2>2. j.part = "fold" /\ j.pc # "evaluate"
    BY <1>5, CallsAssumption DEF JobOK
  <2>3. CASE j.pc = "rest"
    BY <1>3, <2>1, <2>3, BudgetAt
  <2>4. CASE j.pc # "rest"
    <3>1. PICK sent \in {0, 1} : (j.pc = "ask" /\ sent = 0) \/ (j.pc \in {"wait", "judge"} /\ sent = 1)
      BY <1>1, <2>2, <2>4
    <3>2. Budget(c, j) = Before(c, j.route) + (j.stage - 1) + sent
      BY <1>1, <1>3, <1>5, <2>2, <3>1, BudgetAt DEF Before
    <3>3. j.route \in 1..Ways(c, "fold")
      BY <1>1, <2>2
    <3>4. QED
      BY <1>1, <1>3, <2>1, <3>1, <3>2, <3>3, SpentOnRoutes
  <2>5. QED
    BY <2>3, <2>4
<1>6. CASE c \notin Tasks
  <2>1. c \in Turns /\ Commands[c] \in Nat
    BY <1>6, CallsAssumption DEF Callers
  <2>2. MaxCatchUp * Len(Routes[c]["fold"]) * Stages[c] = Rounds(c, MaxCatchUp)
    BY <1>2, <1>3, <1>4, SMTT(40) DEF Rounds, Round, Ways
  <2>3. MostChats(c) = Rounds(c, MaxCatchUp) + 2 + Ways(c, "reply") - 1 + Commands[c]
    BY <1>6, <2>2 DEF MostChats, ParseAttempts, Ways
  <2>4. Rounds(c, MaxCatchUp) \in Nat /\ Rounds(c, j.folds) \in Nat /\ Rounds(c, j.folds) <= Rounds(c, MaxCatchUp)
    BY <1>1, RoundsGrow
  <2>5. CASE j.pc \in {"rest", "evaluate"}
    BY <1>2, <2>1, <2>3, <2>4, <2>5, BudgetAt
  <2>6. CASE j.pc \notin {"rest", "evaluate"}
    <3>1. PICK sent \in {0, 1} : (j.pc = "ask" /\ sent = 0) \/ (j.pc \in {"wait", "judge"} /\ sent = 1)
      BY <1>1, <2>6
    <3>2. CASE j.part = "fold"
      <4>1. j.folds >= 1 /\ j.folds - 1 \in Nat /\ j.folds = (j.folds - 1) + 1
        BY <1>1, <2>1, <2>6, <3>2 DEF JobOK, Working
      <4>2. Rounds(c, j.folds) = Rounds(c, j.folds - 1) + Round(c) /\ Rounds(c, j.folds - 1) \in Nat
        BY <4>1, RoundsAdd
      <4>3. Budget(c, j) = Rounds(c, j.folds - 1) + Before(c, j.route) + (j.stage - 1) + sent
        BY <1>6, <3>1, <3>2, BudgetAt
      <4>4. Before(c, j.route) + (j.stage - 1) + sent \in Nat /\ Before(c, j.route) + (j.stage - 1) + sent <= Round(c)
        BY <1>1, <3>1, <3>2, SpentOnRoutes
      <4>5. Before(c, j.route) \in Nat
        BY <1>3 DEF Before
      <4>6. Budget(c, j) = Rounds(c, j.folds - 1) + (Before(c, j.route) + (j.stage - 1) + sent)
        BY <1>1, <1>3, <3>1, <4>2, <4>3, <4>5
      <4>7. MostChats(c) \in Nat
        BY <1>2, <2>1, <2>3, <2>4
      <4>8. Budget(c, j) \in Int
        BY <4>2, <4>4, <4>6
      <4>9. QED
        BY <1>2, <1>3, <2>1, <2>3, <2>4, <4>2, <4>4, <4>6, <4>7, <4>8, FoldSum
    <3>3. CASE j.part = "reply"
      <4>1. Budget(c, j) = Rounds(c, MaxCatchUp) + (j.attempt - 1) + (j.route - 1) + sent
        BY <3>1, <3>3, BudgetAt
      <4>2. j.route \in 1..Ways(c, "reply")
        BY <1>1, <3>3
      <4>3. QED
        BY <1>1, <1>2, <2>1, <2>3, <2>4, <4>1, <4>2, ReplySum
    <3>4. CASE j.part = "command"
      <4>1. j.commands \in 0..Commands[c] /\ j.commands < Commands[c]
        BY <2>1, <3>4 DEF JobOK
      <4>2. Budget(c, j) = Rounds(c, MaxCatchUp) + 2 + Ways(c, "reply") - 1
                           + (Commands[c] - j.commands - 1) + sent
        BY <3>1, <3>4, BudgetAt DEF ParseAttempts
      <4>3. QED
        BY <1>2, <2>1, <2>3, <2>4, <4>1, <4>2, CommandSum
    <3>5. QED
      BY <1>1, <3>2, <3>3, <3>4 DEF Parts
  <2>7. QED
    BY <2>5, <2>6
<1>7. QED
  BY <1>5, <1>6

-----------------------------------------------------------------------------
(* What becomes of a job, one lemma for each way it goes on.               *)

LEMMA IdleOK ==
  ASSUME NEW c \in Callers
  PROVE  JobOK(c, Idle)
<1>1. /\ Ways(c, "fold") \in 1..2 /\ Stages[c] \in {1, 3}
      /\ MaxCatchUp \in Nat /\ Tries \in Nat \ {0} /\ (c \in Turns => Commands[c] \in Nat)
  BY RoutesTyped, RoundTyped, CallsAssumption DEF Parts
<1>2. PICK j : j = Idle
  OBVIOUS
<1>3. /\ JobShape(j) /\ j.pc = "rest" /\ j.part = "fold" /\ j.route = 1 /\ j.attempt = 1 /\ j.stage = 1
      /\ j.tries = 1 /\ j.folds = 0 /\ j.commands = 0 /\ j.chats = 0 /\ j.row = 0
  BY <1>2 DEF Idle, JobShape
<1>4. Budget(c, j) = 0
  BY <1>3, BudgetAt
<1>5. JobOK(c, j)
  BY <1>1, <1>2, <1>3, <1>4 DEF JobOK, Parts, ParseAttempts, Working
<1>6. QED
  BY <1>2, <1>5

LEMMA TaskBegins ==
  ASSUME NEW c \in Tasks, NEW j, JobShape(j), j = [Idle EXCEPT !.pc = "ask"]
  PROVE  JobOK(c, j) /\ j.row = 0
<1>1. c \in Callers /\ c \notin Turns
  BY CallsAssumption DEF Callers
<1>2. /\ Ways(c, "fold") \in 1..2 /\ Stages[c] \in {1, 3}
      /\ MaxCatchUp \in Nat /\ Tries \in Nat \ {0}
  BY <1>1, RoutesTyped, RoundTyped, CallsAssumption DEF Parts
<1>3. /\ j.pc = "ask" /\ j.part = "fold" /\ j.route = 1 /\ j.attempt = 1 /\ j.stage = 1
      /\ j.tries = 1 /\ j.folds = 0 /\ j.commands = 0 /\ j.chats = 0 /\ j.row = 0
  BY DEF Idle
<1>4. Before(c, j.route) = 0
  BY <1>3 DEF Before
<1>5. PICK sent \in {0, 1} : sent = 0
  OBVIOUS
<1>6. Budget(c, j) = 0 + Before(c, j.route) + (j.stage - 1) + sent
  BY <1>1, <1>3, <1>5, BudgetAt, ZenonT(60)
<1>7. Budget(c, j) = 0
  BY <1>3, <1>4, <1>5, <1>6
<1>8. QED
  BY <1>1, <1>2, <1>3, <1>7 DEF JobOK, Parts, ParseAttempts, Working

LEMMA TurnBegins ==
  ASSUME NEW c \in Turns, NEW j, JobShape(j), j = [Idle EXCEPT !.pc = "evaluate", !.commands = Commands[c]]
  PROVE  JobOK(c, j) /\ j.row = 0
<1>1. c \in Callers /\ c \notin Tasks
  BY CallsAssumption DEF Callers
<1>2. /\ Ways(c, "fold") \in 1..2 /\ Stages[c] \in {1, 3} /\ Commands[c] \in Nat
      /\ MaxCatchUp \in Nat /\ Tries \in Nat \ {0}
  BY <1>1, RoutesTyped, RoundTyped, CallsAssumption DEF Parts
<1>3. /\ j.pc = "evaluate" /\ j.part = "fold" /\ j.route = 1 /\ j.attempt = 1 /\ j.stage = 1
      /\ j.tries = 1 /\ j.folds = 0 /\ j.commands = Commands[c] /\ j.chats = 0 /\ j.row = 0
  BY DEF Idle
<1>4. Budget(c, j) = 0
  BY <1>1, <1>3, BudgetAt, RoundsAdd, ZenonT(60)
<1>5. QED
  BY <1>1, <1>2, <1>3, <1>4 DEF JobOK, Parts, ParseAttempts, Working

\* Facts of a job every one of the following lemmas begins with.
LEMMA JobFacts ==
  ASSUME NEW c \in Callers, NEW i, JobOK(c, i)
  PROVE  /\ i.pc \in {"rest", "evaluate", "ask", "wait", "judge"} /\ i.part \in {"fold", "reply", "command"}
         /\ i.route \in 1..Ways(c, i.part) /\ Ways(c, i.part) \in 1..2 /\ i.route \in 1..2
         /\ i.attempt \in 1..2 /\ i.stage \in 1..Stages[c] /\ i.tries \in 1..Tries /\ i.folds \in 0..MaxCatchUp
         /\ i.chats \in Nat /\ i.chats <= Budget(c, i)
         /\ c \in Turns => i.commands \in 0..Commands[c] /\ Commands[c] \in Nat /\ c \notin Tasks
         /\ c \in Tasks => i.commands = 0 /\ i.part = "fold" /\ c \notin Turns
         /\ c \in Tasks \/ c \in Turns
         /\ Stages[c] \in {1, 3} /\ MaxCatchUp \in Nat /\ Tries \in Nat \ {0}
         /\ Ways(c, "command") = 1 /\ Ways(c, "fold") \in 1..2 /\ Ways(c, "reply") \in 1..2
<1>1. /\ i.pc \in {"rest", "evaluate", "ask", "wait", "judge"} /\ i.part \in {"fold", "reply", "command"}
      /\ i.route \in 1..Ways(c, i.part) /\ i.attempt \in 1..2
      /\ i.stage \in 1..Stages[c] /\ i.tries \in 1..Tries /\ i.folds \in 0..MaxCatchUp
      /\ i.chats \in Nat /\ i.chats <= Budget(c, i)
      /\ c \in Turns => i.commands \in 0..Commands[c]
      /\ c \in Tasks => i.commands = 0 /\ i.part = "fold"
  BY DEF JobOK, Parts, ParseAttempts
<1>2. /\ Stages[c] \in {1, 3} /\ MaxCatchUp \in Nat /\ Tries \in Nat \ {0}
      /\ c \in Tasks \/ c \in Turns
      /\ c \in Turns => Commands[c] \in Nat /\ c \notin Tasks
      /\ c \in Tasks => c \notin Turns
  BY RoundTyped, CallsAssumption DEF Callers
<1>3. Ways(c, "command") = 1 /\ Ways(c, "fold") \in 1..2 /\ Ways(c, "reply") \in 1..2
  BY RoutesTyped DEF Parts
<1>4. Ways(c, i.part) \in 1..2
  BY <1>1, <1>3
<1>5. i.route \in 1..2
  BY <1>1, <1>4
<1>6. QED
  BY <1>1, <1>2, <1>3, <1>4, <1>5

LEMMA FoldBegins ==
  ASSUME NEW c \in Turns, NEW i, JobOK(c, i), i.pc = "evaluate", i.folds < MaxCatchUp,
         NEW j, JobShape(j), j.pc = "ask", j.part = "fold", j.route = 1, j.attempt = 1, j.stage = 1,
         j.tries = i.tries, j.folds = i.folds + 1, j.commands = i.commands, j.chats = i.chats, j.row = i.row
  PROVE  JobOK(c, j)
<1>1. c \in Callers
  BY DEF Callers
<1>2. Budget(c, i) = Rounds(c, i.folds)
  BY <1>1, BudgetAt
<1>3. i.folds + 1 - 1 = i.folds /\ Rounds(c, i.folds) \in Nat
  BY <1>1, JobFacts, RoundsAdd
<1>4. Budget(c, j) = Rounds(c, i.folds)
  BY <1>1, <1>3, JobFacts, BudgetAt DEF Before
<1>5. QED
  BY <1>1, <1>2, <1>3, <1>4, JobFacts DEF JobOK, Working, Parts, ParseAttempts

LEMMA RepliesBegin ==
  ASSUME NEW c \in Turns, NEW i, JobOK(c, i), i.pc = "evaluate",
         NEW j, JobShape(j), j.pc = "ask", j.part = "reply", j.route = 1, j.attempt = 1, j.stage = 1,
         j.tries = i.tries, j.folds = i.folds, j.commands = i.commands, j.chats = i.chats, j.row = i.row
  PROVE  JobOK(c, j)
<1>1. c \in Callers
  BY DEF Callers
<1>2. Budget(c, i) = Rounds(c, i.folds)
  BY <1>1, BudgetAt
<1>3. Rounds(c, i.folds) \in Nat /\ Rounds(c, MaxCatchUp) \in Nat /\ Rounds(c, i.folds) <= Rounds(c, MaxCatchUp)
  BY <1>1, JobFacts, RoundsGrow
<1>4. Budget(c, j) = Rounds(c, MaxCatchUp)
  BY <1>1, <1>3, BudgetAt
<1>5. QED
  BY <1>1, <1>2, <1>3, <1>4, JobFacts DEF JobOK, Working, Parts, ParseAttempts

\* A fold goes on: on the next route, in the next stage, and after it is done.
LEMMA NextRoute ==
  ASSUME NEW c \in Callers, NEW i, JobOK(c, i), Working(i), i.part = "fold", i.route < Ways(c, "fold"),
         NEW j, JobShape(j), j.pc = "ask", j.part = "fold", j.route = i.route + 1, j.attempt = 1, j.stage = 1,
         j.tries = i.tries, j.folds = i.folds, j.commands = i.commands, j.chats = i.chats, j.row = i.row
  PROVE  JobOK(c, j)
<1>1. PICK sent \in {0, 1} : (i.pc = "ask" /\ sent = 0) \/ (i.pc \in {"wait", "judge"} /\ sent = 1)
  BY DEF Working
<1>2. PICK none \in {0, 1} : none = 0
  OBVIOUS
<1>3. i.route = 1 /\ j.route = 2
  BY JobFacts
<1>4. Before(c, i.route) = 0 /\ Before(c, j.route) = Stages[c]
  BY <1>3 DEF Before
<1>5. PICK folded : folded = IF c \in Tasks THEN 0 ELSE Rounds(c, i.folds - 1)
  OBVIOUS
<1>6. /\ Budget(c, i) = folded + Before(c, i.route) + (i.stage - 1) + sent
      /\ Budget(c, j) = folded + Before(c, j.route) + (j.stage - 1) + none
  BY <1>1, <1>2, <1>5, BudgetAt
<1>7. folded \in Int
  <2>1. CASE c \in Tasks
    BY <1>5, <2>1
  <2>2. CASE c \notin Tasks
    BY <1>5, <2>2, JobFacts, RoundTyped DEF Rounds
  <2>3. QED
    BY <2>1, <2>2
<1>8. Budget(c, i) <= Budget(c, j)
  BY <1>1, <1>2, <1>4, <1>6, <1>7, JobFacts
<1>9. Budget(c, i) \in Int /\ Budget(c, j) \in Int
  BY <1>1, <1>2, <1>4, <1>6, <1>7, JobFacts
<1>10. QED
  BY <1>3, <1>8, <1>9, JobFacts DEF JobOK, Working, Parts, ParseAttempts

LEMMA EarlierTyped ==
  ASSUME NEW c \in Callers, NEW i, JobOK(c, i)
  PROVE  (IF c \in Tasks THEN 0 ELSE Rounds(c, i.folds - 1)) + Before(c, i.route) \in Int
<1>1. Before(c, i.route) \in Int
  BY JobFacts DEF Before
<1>2. Rounds(c, i.folds - 1) \in Int
  BY JobFacts, RoundTyped DEF Rounds
<1>3. QED
  BY <1>1, <1>2

LEMMA NextStage ==
  ASSUME NEW c \in Callers, NEW i, JobOK(c, i), i.pc = "judge", i.part = "fold", i.stage < Stages[c],
         NEW j, JobShape(j), j.pc = "ask", j.part = "fold", j.route = i.route, j.attempt = i.attempt,
         j.stage = i.stage + 1,
         j.tries = i.tries, j.folds = i.folds, j.commands = i.commands, j.chats = i.chats, j.row = i.row
  PROVE  JobOK(c, j)
<1>1. PICK sent \in {0, 1} : sent = 1
  OBVIOUS
<1>2. PICK none \in {0, 1} : none = 0
  OBVIOUS
<1>3. PICK earlier : earlier = (IF c \in Tasks THEN 0 ELSE Rounds(c, i.folds - 1)) + Before(c, i.route)
  OBVIOUS
<1>4. /\ Budget(c, i) = earlier + (i.stage - 1) + sent
      /\ Budget(c, j) = earlier + (j.stage - 1) + none
  BY <1>1, <1>2, <1>3, BudgetAt
<1>5. earlier \in Int
  BY <1>3, EarlierTyped
<1>6. Budget(c, i) = Budget(c, j)
  BY <1>1, <1>2, <1>4, <1>5, JobFacts
<1>7. QED
  BY <1>6, JobFacts DEF JobOK, Working, Parts, ParseAttempts

LEMMA FoldCounts ==
  ASSUME NEW c \in Turns, NEW i, JobOK(c, i), Working(i), i.part = "fold",
         NEW j, JobShape(j), j.pc = "evaluate", j.part = "fold", j.route = i.route, j.attempt = i.attempt,
         j.stage = i.stage, j.tries = i.tries, j.folds = i.folds, j.commands = i.commands,
         j.chats = i.chats, j.row = i.row
  PROVE  JobOK(c, j)
<1>1. c \in Callers /\ c \notin Tasks
  BY CallsAssumption DEF Callers
<1>2. PICK sent \in {0, 1} : (i.pc = "ask" /\ sent = 0) \/ (i.pc \in {"wait", "judge"} /\ sent = 1)
  BY DEF Working
<1>3. PICK n \in Nat : n = i.folds - 1 /\ i.folds = n + 1
  BY <1>1, JobFacts DEF JobOK
<1>4. Budget(c, i) = Rounds(c, n) + Before(c, i.route) + (i.stage - 1) + sent
  BY <1>1, <1>2, <1>3, BudgetAt
<1>5. Budget(c, j) = Rounds(c, n) + Round(c) /\ Rounds(c, n) \in Nat /\ Round(c) \in Nat
  BY <1>1, <1>3, BudgetAt, RoundsAdd, RoundTyped
<1>6. /\ Before(c, i.route) + (i.stage - 1) + sent \in Nat
      /\ Before(c, i.route) + (i.stage - 1) + sent <= Round(c)
  BY <1>1, <1>2, JobFacts, SpentOnRoutes
<1>7. Before(c, i.route) \in Int
  BY <1>1, JobFacts DEF Before
<1>8. Budget(c, i) = Rounds(c, n) + (Before(c, i.route) + (i.stage - 1) + sent)
  BY <1>1, <1>4, <1>5, <1>7, JobFacts
<1>9. Budget(c, i) <= Budget(c, j) /\ Budget(c, i) \in Int /\ Budget(c, j) \in Int
  BY <1>5, <1>6, <1>8
<1>10. QED
  BY <1>1, <1>9, JobFacts DEF JobOK, Working, Parts, ParseAttempts

LEMMA FallbackTaken ==
  ASSUME NEW c \in Callers, NEW i, JobOK(c, i), Working(i), i.part = "reply", i.route < Ways(c, "reply"),
         NEW j, JobShape(j), j.pc = "ask", j.part = "reply", j.route = 2, j.attempt = i.attempt,
         j.stage = i.stage, j.tries = i.tries, j.folds = i.folds, j.commands = i.commands,
         j.chats = i.chats, j.row = i.row
  PROVE  JobOK(c, j) /\ i.route = 1
<1>1. PICK sent \in {0, 1} : (i.pc = "ask" /\ sent = 0) \/ (i.pc \in {"wait", "judge"} /\ sent = 1)
  BY DEF Working
<1>2. PICK none \in {0, 1} : none = 0
  OBVIOUS
<1>3. PICK all \in Nat : all = Rounds(c, MaxCatchUp)
  BY RoundsAdd, CallsAssumption
<1>4. /\ Budget(c, i) = all + (i.attempt - 1) + (i.route - 1) + sent
      /\ Budget(c, j) = all + (j.attempt - 1) + (j.route - 1) + none
  BY <1>1, <1>2, <1>3, BudgetAt
<1>5. i.route = 1
  BY JobFacts
<1>6. Budget(c, i) <= Budget(c, j) /\ Budget(c, i) \in Int /\ Budget(c, j) \in Int
  BY <1>1, <1>2, <1>4, <1>5, JobFacts
<1>7. QED
  BY <1>5, <1>6, JobFacts DEF JobOK, Working, Parts, ParseAttempts

LEMMA AskAgain ==
  ASSUME NEW c \in Callers, NEW i, JobOK(c, i), i.pc \in {"wait", "judge"}, i.part = "reply", i.attempt < ParseAttempts,
         NEW j, JobShape(j), j.pc = "ask", j.part = "reply", j.route = i.route, j.attempt = i.attempt + 1,
         j.stage = i.stage, j.tries = i.tries, j.folds = i.folds, j.commands = i.commands,
         j.chats = i.chats, j.row = i.row
  PROVE  JobOK(c, j)
<1>1. PICK sent \in {0, 1} : sent = 1
  OBVIOUS
<1>2. PICK none \in {0, 1} : none = 0
  OBVIOUS
<1>3. PICK all \in Nat : all = Rounds(c, MaxCatchUp)
  BY RoundsAdd, CallsAssumption
<1>4. /\ Budget(c, i) = all + (i.attempt - 1) + (i.route - 1) + sent
      /\ Budget(c, j) = all + (j.attempt - 1) + (j.route - 1) + none
  BY <1>1, <1>2, <1>3, BudgetAt
<1>5. Budget(c, i) = Budget(c, j)
  BY <1>1, <1>2, <1>4, JobFacts
<1>6. QED
  BY <1>5, JobFacts DEF JobOK, Working, Parts, ParseAttempts

LEMMA CommandBegins ==
  ASSUME NEW c \in Turns, NEW i, JobOK(c, i), Working(i), i.part \in {"reply", "command"},
         NEW n \in 1..i.commands,
         NEW j, JobShape(j), j.pc = "ask", j.part = "command", j.route = 1, j.attempt = 1, j.stage = 1,
         j.tries = i.tries, j.folds = i.folds, j.commands = n - 1, j.chats = i.chats, j.row = i.row
  PROVE  JobOK(c, j)
<1>1. c \in Callers /\ c \notin Tasks
  BY CallsAssumption DEF Callers
<1>2. PICK sent \in {0, 1} : (i.pc = "ask" /\ sent = 0) \/ (i.pc \in {"wait", "judge"} /\ sent = 1)
  BY DEF Working
<1>3. PICK none \in {0, 1} : none = 0
  OBVIOUS
<1>4. PICK all \in Nat : all = Rounds(c, MaxCatchUp)
  BY <1>1, RoundsAdd, CallsAssumption
<1>5. PICK ways \in 1..2 : ways = Ways(c, "reply") /\ Len(Routes[c]["reply"]) = ways
  BY <1>1, RoutesTyped DEF Ways, Parts
<1>6. Budget(c, j) = all + 2 + ways - 1 + (Commands[c] - j.commands - 1) + none
  BY <1>1, <1>3, <1>4, <1>5, BudgetAt DEF ParseAttempts
<1>7. i.commands \in 0..Commands[c] /\ Commands[c] \in Nat /\ n \in Nat /\ n >= 1 /\ n <= i.commands
  BY <1>1, JobFacts
<1>8. Budget(c, j) = all + 2 + ways - 1 + (Commands[c] - n)
  BY <1>3, <1>6, <1>7
<1>9. CASE i.part = "reply"
  <2>1. Budget(c, i) = all + (i.attempt - 1) + (i.route - 1) + sent
    BY <1>1, <1>2, <1>4, <1>9, BudgetAt
  <2>2. i.attempt \in 1..2 /\ i.route \in 1..ways
    BY <1>1, <1>5, <1>9, JobFacts
  <2>3. PICK spare \in Nat : spare = Commands[c] - n
    BY <1>7
  <2>4. Budget(c, i) <= Budget(c, j) /\ Budget(c, i) \in Int /\ Budget(c, j) \in Int
    BY <1>2, <1>8, <2>1, <2>2, <2>3, ReplySum
  <2>5. QED
    BY <1>1, <1>7, <2>4, JobFacts DEF JobOK, Working, Parts, ParseAttempts
<1>10. CASE i.part = "command"
  <2>1. Budget(c, i) = all + 2 + ways - 1 + (Commands[c] - i.commands - 1) + sent
    BY <1>1, <1>2, <1>4, <1>5, <1>10, BudgetAt DEF ParseAttempts
  <2>2. Budget(c, i) <= Budget(c, j) /\ Budget(c, i) \in Int /\ Budget(c, j) \in Int
    BY <1>2, <1>7, <1>8, <2>1
  <2>3. QED
    BY <1>1, <1>7, <2>2, JobFacts DEF JobOK, Working, Parts, ParseAttempts
<1>11. QED
  BY <1>9, <1>10

\* A chat is sent: the budget of the place grows by the one it is counted as.
LEMMA ChatSent ==
  ASSUME NEW c \in Callers, NEW i, JobOK(c, i), i.pc = "ask",
         NEW j, JobShape(j), j.pc = "wait", j.part = i.part, j.route = i.route, j.attempt = i.attempt,
         j.stage = i.stage, j.tries = 1, j.folds = i.folds, j.commands = i.commands,
         j.chats = i.chats + 1, j.row = i.row
  PROVE  JobOK(c, j)
<1>1. PICK none \in {0, 1} : none = 0
  OBVIOUS
<1>2. PICK sent \in {0, 1} : sent = 1
  OBVIOUS
<1>3. Budget(c, j) = Budget(c, i) + 1 /\ Budget(c, i) \in Int
  <2>1. CASE i.part = "fold"
    <3>1. PICK earlier : earlier = (IF c \in Tasks THEN 0 ELSE Rounds(c, i.folds - 1)) + Before(c, i.route)
      OBVIOUS
    <3>2. earlier \in Int
      BY <3>1, EarlierTyped
    <3>3. Budget(c, i) = earlier + (i.stage - 1) + none /\ Budget(c, j) = earlier + (i.stage - 1) + sent
      BY <1>1, <1>2, <2>1, <3>1, BudgetAt
    <3>4. QED
      BY <1>1, <1>2, <3>2, <3>3, JobFacts
  <2>2. CASE i.part = "reply"
    <3>1. PICK all \in Nat : all = Rounds(c, MaxCatchUp)
      BY RoundsAdd, CallsAssumption
    <3>2. /\ Budget(c, i) = all + (i.attempt - 1) + (i.route - 1) + none
          /\ Budget(c, j) = all + (i.attempt - 1) + (i.route - 1) + sent
      BY <1>1, <1>2, <2>2, <3>1, BudgetAt
    <3>3. QED
      BY <1>1, <1>2, <3>2, JobFacts
  <2>3. CASE i.part = "command"
    <3>1. PICK all \in Nat : all = Rounds(c, MaxCatchUp)
      BY RoundsAdd, CallsAssumption
    <3>2. PICK ways \in 1..2 : ways = Ways(c, "reply") /\ Len(Routes[c]["reply"]) = ways
      BY RoutesTyped DEF Ways, Parts
    <3>3. c \in Turns /\ i.commands \in 0..Commands[c] /\ Commands[c] \in Nat
      BY <2>3, JobFacts
    <3>4. /\ Budget(c, i) = all + 2 + ways - 1 + (Commands[c] - i.commands - 1) + none
          /\ Budget(c, j) = all + 2 + ways - 1 + (Commands[c] - i.commands - 1) + sent
      BY <1>1, <1>2, <2>3, <3>1, <3>2, BudgetAt DEF ParseAttempts
    <3>5. QED
      BY <1>1, <1>2, <3>3, <3>4
  <2>4. QED
    BY <2>1, <2>2, <2>3, JobFacts
<1>4. j.chats \in Nat /\ j.chats <= Budget(c, j)
  BY <1>3, JobFacts
<1>5. QED
  BY <1>4, JobFacts DEF JobOK, Working, Parts, ParseAttempts

LEMMA SamePlace ==
  ASSUME NEW c \in Callers, NEW i, JobOK(c, i), i.pc = "wait",
         NEW j, JobShape(j), j.pc \in {"wait", "judge"}, j.part = i.part, j.route = i.route, j.attempt = i.attempt,
         j.stage = i.stage, j.tries \in 1..Tries, j.folds = i.folds, j.commands = i.commands,
         j.chats = i.chats
  PROVE  JobOK(c, j)
<1>1. PICK sent \in {0, 1} : sent = 1
  OBVIOUS
<1>2. Budget(c, j) = Budget(c, i)
  <2>1. CASE i.part = "fold"
    BY <1>1, <2>1, BudgetAt
  <2>2. CASE i.part = "reply"
    BY <1>1, <2>2, BudgetAt
  <2>3. CASE i.part = "command"
    BY <1>1, <2>3, BudgetAt
  <2>4. QED
    BY <2>1, <2>2, <2>3, JobFacts
<1>3. QED
  BY <1>2, JobFacts DEF JobOK, Working, Parts, ParseAttempts

-----------------------------------------------------------------------------
(* A step of one caller.                                                   *)

LEMMA Advance ==
  ASSUME CallsInv, NEW c \in Callers, NEW j, NEW r, NEW l, NEW e,
         job' = [job EXCEPT ![c] = j], rows' = [rows EXCEPT ![c] = r],
         lost' = [lost EXCEPT ![c] = l], end' = [end EXCEPT ![c] = e],
         WorldOK', CallerOK(c, j, r, l, e)
  PROVE  CallsInv'
<1>1. /\ job' = [d \in Callers |-> job'[d]] /\ job'[c] = j /\ \A d \in Callers : d # c => job'[d] = job[d]
      /\ rows' = [d \in Callers |-> rows'[d]] /\ rows'[c] = r /\ \A d \in Callers : d # c => rows'[d] = rows[d]
      /\ lost' = [d \in Callers |-> lost'[d]] /\ lost'[c] = l /\ \A d \in Callers : d # c => lost'[d] = lost[d]
      /\ end' = [d \in Callers |-> end'[d]] /\ end'[c] = e /\ \A d \in Callers : d # c => end'[d] = end[d]
  BY DEF CallsInv
<1>2. ASSUME NEW d \in Callers
      PROVE  CallerOK(d, job'[d], rows'[d], lost'[d], end'[d])
  <2>1. CASE d = c
    BY <1>1, <2>1
  <2>2. CASE d # c
    BY <1>1, <2>2 DEF CallsInv
  <2>3. QED
    BY <2>1, <2>2
<1>3. QED
  BY <1>1, <1>2 DEF CallsInv

\* What is left alone is set to what it is.
LEMMA Kept ==
  ASSUME CallsInv, NEW c \in Callers
  PROVE  /\ rows = [rows EXCEPT ![c] = rows[c]] /\ lost = [lost EXCEPT ![c] = lost[c]]
         /\ end = [end EXCEPT ![c] = end[c]]
  BY DEF CallsInv

LEMMA Ends ==
  ASSUME CallsInv, NEW c \in Callers, NEW r, NEW l, NEW how,
         Finish(c, how), rows' = [rows EXCEPT ![c] = r], lost' = [lost EXCEPT ![c] = l],
         WorldOK', RowsOK(c, Idle, r, how), LostOK(c, Idle, l, how)
  PROVE  CallsInv'
<1>1. job' = [job EXCEPT ![c] = Idle] /\ end' = [end EXCEPT ![c] = how]
  BY DEF Finish
<1>2. CallerOK(c, Idle, r, l, how)
  BY IdleOK DEF CallerOK
<1>3. QED
  BY <1>1, <1>2, Advance

LEMMA GoesOn ==
  ASSUME CallsInv, NEW c \in Callers, NEW j, NEW r, NEW l,
         Goto(c, j), rows' = [rows EXCEPT ![c] = r], lost' = [lost EXCEPT ![c] = l],
         WorldOK', JobOK(c, j), RowsOK(c, j, r, end[c]), LostOK(c, j, l, end[c])
  PROVE  CallsInv'
<1>1. job' = [job EXCEPT ![c] = j] /\ end' = [end EXCEPT ![c] = end[c]]
  BY Kept DEF Goto
<1>2. CallerOK(c, j, r, l, end[c])
  BY DEF CallerOK
<1>3. QED
  BY <1>1, <1>2, Advance

\* While a turn folds it has no rows.
LEMMA RowsOfFold ==
  ASSUME NEW c \in Callers, NEW i, NEW r, NEW e, RowsOK(c, i, r, e), i.pc # "rest", i.part = "fold",
         NEW j, j.pc # "rest", j.row = i.row,
         j.part = "fold" \/ (c \in Turns /\ j.part = "reply" /\ j.pc = "ask" /\ j.attempt = 1)
  PROVE  RowsOK(c, j, r, e)
<1>1. CASE c \in Turns
  <2>1. r = <<>> /\ Len(r) = 0
    BY <1>1, EmptySeq DEF RowsOK
  <2>2. j.row = 0
    BY <1>1, <2>1 DEF RowsOK
  <2>3. QED
    BY <2>1, <2>2 DEF RowsOK, ParseAttempts
<1>2. CASE c \notin Turns
  BY <1>2 DEF RowsOK
<1>3. QED
  BY <1>1, <1>2

LEMMA RowsAfterFold ==
  ASSUME NEW c \in Callers, NEW i, NEW r, NEW e, RowsOK(c, i, r, e), i.pc # "rest", i.part = "fold", NEW how
  PROVE  RowsOK(c, Idle, r, how)
<1>1. Len(r) \in Nat
  BY LenProperties DEF RowsOK
<1>2. PICK j : j = Idle
  OBVIOUS
<1>3. j.pc = "rest" /\ j.row = 0 /\ j.part = "fold"
  BY <1>2 DEF Idle
<1>4. CASE c \in Turns
  <2>1. r = <<>> /\ Len(r) = 0
    BY <1>4, EmptySeq DEF RowsOK
  <2>2. RowsOK(c, j, r, how)
    BY <1>3, <2>1 DEF RowsOK, ParseAttempts
  <2>3. QED
    BY <1>2, <2>2
<1>5. CASE c \notin Turns
  <2>1. RowsOK(c, j, r, how)
    BY <1>1, <1>3, <1>5 DEF RowsOK
  <2>2. QED
    BY <1>2, <2>1
<1>6. QED
  BY <1>4, <1>5

\* What a turn has lost is lost on its further way, and tells nothing of another end.
LEMMA LostOnTheWay ==
  ASSUME NEW c \in Callers, NEW i, NEW l, NEW e, LostOK(c, i, l, e),
         NEW j, j.part = "reply" /\ j.route = 2 => i.part = "reply" /\ i.route = 2
  PROVE  LostOK(c, j, l, e)
  BY DEF LostOK

LEMMA LostAtTheEnd ==
  ASSUME NEW c \in Callers, NEW i, NEW l, NEW e, LostOK(c, i, l, e),
         NEW how \in (IF c \in Turns THEN TurnEnd ELSE TaskEnd) \ {"unavailable"}
  PROVE  LostOK(c, Idle, l, how)
<1>1. PICK j : j = Idle
  OBVIOUS
<1>2. j.part = "fold"
  BY <1>1 DEF Idle
<1>3. LostOK(c, j, l, how)
  BY <1>2 DEF LostOK
<1>4. QED
  BY <1>1, <1>3

LEMMA CallerFacts ==
  ASSUME CallsInv, NEW c \in Callers
  PROVE  /\ JobOK(c, job[c]) /\ RowsOK(c, job[c], rows[c], end[c]) /\ LostOK(c, job[c], lost[c], end[c])
         /\ JobShape(job[c])
  BY DEF CallsInv, CallerOK, JobOK

LEMMA ClientTyped ==
  ASSUME CallsInv, NEW c \in Callers
  PROVE  /\ Client(c) \in Clients /\ Client(c) = Routes[c][job[c].part][job[c].route]
         /\ HasFallback(c) <=> job[c].route < Ways(c, job[c].part)
<1>1. job[c].part \in Parts /\ job[c].route \in 1..Ways(c, job[c].part)
  BY CallerFacts DEF JobOK
<1>2. QED
  BY <1>1, RoutesTyped DEF Client, HasFallback, Ways

-----------------------------------------------------------------------------
(* The operations begin, and a turn brings its context below the limit.    *)

LEMMA StartOK ==
  ASSUME CallsInv, NEW c \in Callers, Start(c)
  PROVE  CallsInv'
<1>1. JobOK(c, job[c]) /\ job[c].pc = "rest" /\ job[c] = Idle
  BY CallerFacts DEF JobOK, Start, StartTask, StartTurn, At
<1>2. WorldOK'
  BY DEF CallsInv, WorldOK, Start, StartTask, StartTurn
<1>3. CASE StartTask(c)
  <2>1. PICK j : j = [Idle EXCEPT !.pc = "ask"] /\ job' = [job EXCEPT ![c] = j]
    BY <1>1, <1>3 DEF StartTask
  <2>2. JobShape(j) /\ j.pc = "ask" /\ j.part = "fold"
    BY <2>1 DEF Idle, JobShape
  <2>3. c \in Tasks /\ c \notin Turns
    BY <1>3, CallsAssumption DEF StartTask
  <2>4. JobOK(c, j) /\ j.row = 0
    BY <2>1, <2>2, <2>3, TaskBegins
  <2>5. RowsOK(c, j, rows[c], "none") /\ LostOK(c, j, lost[c], "none")
    BY <2>3, <2>4, CallerFacts, LenProperties DEF RowsOK, LostOK
  <2>6. rows' = [rows EXCEPT ![c] = rows[c]] /\ lost' = [lost EXCEPT ![c] = lost[c]]
        /\ end' = [end EXCEPT ![c] = "none"]
    BY <1>3, Kept DEF StartTask
  <2>7. CallerOK(c, j, rows[c], lost[c], "none")
    BY <2>4, <2>5 DEF CallerOK
  <2>8. QED
    BY <1>2, <2>1, <2>6, <2>7, Advance
<1>4. CASE StartTurn(c)
  <2>1. PICK j : j = [Idle EXCEPT !.pc = "evaluate", !.commands = Commands[c]] /\ job' = [job EXCEPT ![c] = j]
    BY <1>1, <1>4 DEF StartTurn, CallsInv
  <2>2. JobShape(j) /\ j.pc = "evaluate" /\ j.part = "fold"
    BY <2>1 DEF Idle, JobShape
  <2>3. c \in Turns
    BY <1>4 DEF StartTurn
  <2>4. JobOK(c, j) /\ j.row = 0
    BY <2>1, <2>2, <2>3, TurnBegins
  <2>5. Len(<<>>) = 0 /\ <<>> \in Seq(RowStatus)
    BY EmptySeq
  <2>6. RowsOK(c, j, <<>>, "none") /\ LostOK(c, j, {}, "none")
    BY <2>2, <2>3, <2>4, <2>5 DEF RowsOK, LostOK, ParseAttempts
  <2>7. rows' = [rows EXCEPT ![c] = <<>>] /\ lost' = [lost EXCEPT ![c] = {}] /\ end' = [end EXCEPT ![c] = "none"]
    BY <1>4 DEF StartTurn
  <2>8. CallerOK(c, j, <<>>, {}, "none")
    BY <2>4, <2>6 DEF CallerOK
  <2>9. QED
    BY <1>2, <2>1, <2>7, <2>8, Advance
<1>5. QED
  BY <1>3, <1>4 DEF Start

\* A turn that folds goes on folding, or with its replies, or ends; so does a task.
LEMMA FoldGoesOn ==
  ASSUME CallsInv, NEW c \in Callers, job[c].pc # "rest", job[c].part = "fold",
         NEW j, Goto(c, j), UNCHANGED <<rows, lost>>, WorldOK', JobOK(c, j), j.pc # "rest", j.row = job[c].row,
         j.part = "fold" \/ (c \in Turns /\ j.part = "reply" /\ j.pc = "ask" /\ j.attempt = 1 /\ j.route = 1)
  PROVE  CallsInv'
<1>1. RowsOK(c, j, rows[c], end[c])
  BY CallerFacts, RowsOfFold
<1>2. LostOK(c, j, lost[c], end[c])
  BY CallerFacts, LostOnTheWay
<1>3. rows' = [rows EXCEPT ![c] = rows[c]] /\ lost' = [lost EXCEPT ![c] = lost[c]]
  BY Kept
<1>4. QED
  BY <1>1, <1>2, <1>3, GoesOn

LEMMA FoldEnds ==
  ASSUME CallsInv, NEW c \in Callers, job[c].pc # "rest", job[c].part = "fold",
         NEW how, Finish(c, how), UNCHANGED <<rows, lost>>, WorldOK',
         (c \in Turns /\ how = "maintenance") \/ (c \in Tasks /\ how \in TaskEnd)
  PROVE  CallsInv'
<1>1. RowsOK(c, Idle, rows[c], how)
  BY CallerFacts, RowsAfterFold
<1>2. how \in (IF c \in Turns THEN TurnEnd ELSE TaskEnd) \ {"unavailable"}
  BY CallsAssumption DEF TurnEnd, TaskEnd
<1>3. LostOK(c, Idle, lost[c], how)
  BY <1>2, CallerFacts, LostAtTheEnd
<1>4. rows' = [rows EXCEPT ![c] = rows[c]] /\ lost' = [lost EXCEPT ![c] = lost[c]]
  BY Kept
<1>5. QED
  BY <1>1, <1>3, <1>4, Ends

LEMMA EvaluateOK ==
  ASSUME CallsInv, NEW c \in Callers, Evaluate(c) \/ CoverageGap(c)
  PROVE  CallsInv'
<1>1. /\ job[c].pc = "evaluate" /\ c \in Turns /\ job[c].part = "fold" /\ JobShape(job[c])
      /\ JobOK(c, job[c])
  BY CallerFacts DEF JobOK, Evaluate, CoverageGap, At
<1>2. WorldOK' /\ UNCHANGED <<rows, lost>>
  BY DEF CallsInv, WorldOK, Evaluate, CoverageGap
<1>3. CASE Finish(c, "maintenance")
  BY <1>1, <1>2, <1>3, FoldEnds
<1>4. CASE job[c].folds < MaxCatchUp /\ Goto(c, [Asking(c, "fold") EXCEPT !.folds = @ + 1])
  <2>1. PICK j : j = [Asking(c, "fold") EXCEPT !.folds = @ + 1] /\ Goto(c, j)
    BY <1>4
  <2>2. /\ JobShape(j) /\ j.pc = "ask" /\ j.part = "fold" /\ j.route = 1 /\ j.attempt = 1 /\ j.stage = 1
        /\ j.tries = job[c].tries /\ j.folds = job[c].folds + 1 /\ j.commands = job[c].commands
        /\ j.chats = job[c].chats /\ j.row = job[c].row
    BY <1>1, <2>1 DEF Asking, JobShape
  <2>3. JobOK(c, j)
    BY <1>1, <1>4, <2>2, FoldBegins
  <2>4. QED
    BY <1>1, <1>2, <2>1, <2>2, <2>3, FoldGoesOn
<1>5. CASE Goto(c, Asking(c, "reply"))
  <2>1. PICK j : j = Asking(c, "reply") /\ Goto(c, j)
    BY <1>5
  <2>2. /\ JobShape(j) /\ j.pc = "ask" /\ j.part = "reply" /\ j.route = 1 /\ j.attempt = 1 /\ j.stage = 1
        /\ j.tries = job[c].tries /\ j.folds = job[c].folds /\ j.commands = job[c].commands
        /\ j.chats = job[c].chats /\ j.row = job[c].row
    BY <1>1, <2>1 DEF Asking, JobShape
  <2>3. JobOK(c, j)
    BY <1>1, <2>2, RepliesBegin
  <2>4. QED
    BY <1>1, <1>2, <2>1, <2>2, <2>3, FoldGoesOn
<1>6. QED
  BY <1>3, <1>4, <1>5 DEF Evaluate, CoverageGap

LEMMA FoldAttemptFailsOK ==
  ASSUME CallsInv, NEW c \in Callers, Working(job[c]), job[c].part = "fold",
         FoldAttemptFails(c), UNCHANGED <<rows, lost>>, WorldOK'
  PROVE  CallsInv'
<1>1. JobShape(job[c]) /\ JobOK(c, job[c]) /\ job[c].pc # "rest"
  BY CallerFacts DEF Working
<1>2. CASE HasFallback(c)
  <2>1. PICK j : j = [Asking(c, "fold") EXCEPT !.route = job[c].route + 1] /\ Goto(c, j)
    BY <1>2 DEF FoldAttemptFails
  <2>2. /\ JobShape(j) /\ j.pc = "ask" /\ j.part = "fold" /\ j.route = job[c].route + 1 /\ j.attempt = 1 /\ j.stage = 1
        /\ j.tries = job[c].tries /\ j.folds = job[c].folds /\ j.commands = job[c].commands
        /\ j.chats = job[c].chats /\ j.row = job[c].row
    BY <1>1, <2>1 DEF Asking, JobShape
  <2>3. job[c].route < Ways(c, "fold")
    BY <1>2, ClientTyped
  <2>4. JobOK(c, j)
    BY <1>1, <2>2, <2>3, NextRoute
  <2>5. QED
    BY <1>1, <2>1, <2>2, <2>4, FoldGoesOn
<1>3. CASE ~HasFallback(c)
  <2>1. PICK how : how = (IF c \in Tasks THEN "kept" ELSE "maintenance") /\ Finish(c, how)
    BY <1>3 DEF FoldAttemptFails
  <2>2. (c \in Turns /\ how = "maintenance") \/ (c \in Tasks /\ how \in TaskEnd)
    BY <2>1 DEF Callers, TaskEnd
  <2>3. QED
    BY <1>1, <2>1, <2>2, FoldEnds
<1>4. QED
  BY <1>2, <1>3

LEMMA JudgeFoldOK ==
  ASSUME CallsInv, NEW c \in Callers, JudgeFold(c)
  PROVE  CallsInv'
<1>1. /\ job[c].pc = "judge" /\ job[c].part = "fold" /\ JobShape(job[c]) /\ JobOK(c, job[c])
      /\ Working(job[c])
  BY CallerFacts DEF JudgeFold, At, Doing, Working
<1>2. WorldOK' /\ UNCHANGED <<rows, lost>>
  BY DEF CallsInv, WorldOK, JudgeFold
<1>3. CASE job[c].stage < Stages[c] /\ Goto(c, [job[c] EXCEPT !.pc = "ask", !.stage = @ + 1])
  <2>1. PICK j : j = [job[c] EXCEPT !.pc = "ask", !.stage = @ + 1] /\ Goto(c, j)
    BY <1>3
  <2>2. /\ JobShape(j) /\ j.pc = "ask" /\ j.part = "fold" /\ j.route = job[c].route /\ j.attempt = job[c].attempt
        /\ j.stage = job[c].stage + 1
        /\ j.tries = job[c].tries /\ j.folds = job[c].folds /\ j.commands = job[c].commands
        /\ j.chats = job[c].chats /\ j.row = job[c].row
    BY <1>1, <2>1 DEF JobShape
  <2>3. JobOK(c, j)
    BY <1>1, <1>3, <2>2, NextStage
  <2>4. QED
    BY <1>1, <1>2, <2>1, <2>2, <2>3, FoldGoesOn
<1>4. CASE FoldSucceeds(c)
  <2>1. CASE c \in Tasks
    BY <1>1, <1>2, <1>4, <2>1, FoldEnds DEF FoldSucceeds, TaskEnd
  <2>2. CASE c \notin Tasks /\ Finish(c, "maintenance")
    BY <1>1, <1>2, <2>2, FoldEnds DEF Callers
  <2>3. CASE c \notin Tasks /\ Goto(c, [job[c] EXCEPT !.pc = "evaluate"])
    <3>1. PICK j : j = [job[c] EXCEPT !.pc = "evaluate"] /\ Goto(c, j)
      BY <2>3
    <3>2. /\ JobShape(j) /\ j.pc = "evaluate" /\ j.part = "fold" /\ j.route = job[c].route
          /\ j.attempt = job[c].attempt /\ j.stage = job[c].stage
          /\ j.tries = job[c].tries /\ j.folds = job[c].folds /\ j.commands = job[c].commands
          /\ j.chats = job[c].chats /\ j.row = job[c].row
      BY <1>1, <3>1 DEF JobShape
    <3>3. JobOK(c, j)
      BY <1>1, <2>3, <3>2, FoldCounts DEF Callers
    <3>4. QED
      BY <1>1, <1>2, <3>1, <3>2, <3>3, FoldGoesOn
  <2>4. QED
    BY <1>4, <2>1, <2>2, <2>3 DEF FoldSucceeds
<1>5. CASE FoldAttemptFails(c)
  BY <1>1, <1>2, <1>5, FoldAttemptFailsOK
<1>6. QED
  BY <1>3, <1>4, <1>5 DEF JudgeFold

-----------------------------------------------------------------------------
(* Replies and commands.                                                   *)

\* Rows a turn can go on with once its replies are there.
Settled(r) ==
    /\ r \in Seq(RowStatus)
    /\ \A i \in 1..Len(r) : r[i] = "validated" => i = Len(r)
    /\ Len(r) = ParseAttempts => r[Len(r)] # "parse_failed"

LEMMA AfterRepliesOK ==
  ASSUME CallsInv, NEW c \in Callers, Working(job[c]), job[c].part \in {"reply", "command"},
         NEW r, rows' = [rows EXCEPT ![c] = r], Settled(r), Len(r) = Len(rows[c]),
         AfterReplies(c), UNCHANGED lost, WorldOK'
  PROVE  CallsInv'
<1>1. /\ JobShape(job[c]) /\ JobOK(c, job[c]) /\ job[c].pc # "rest"
      /\ c \in Turns /\ job[c].commands \in 0..Commands[c] /\ Commands[c] \in Nat
  BY CallerFacts, JobFacts DEF Working
<1>2. /\ end[c] = "none" /\ LostOK(c, job[c], lost[c], "none") /\ job[c].row \in 0..Len(r)
  BY <1>1, CallerFacts DEF RowsOK
<1>3. lost' = [lost EXCEPT ![c] = lost[c]]
  BY Kept
<1>4. Len(r) \in Nat
  BY LenProperties DEF Settled
<1>5. CASE Finish(c, "answered")
  <2>1. PICK j : j = Idle
    OBVIOUS
  <2>2. j.pc = "rest" /\ j.row = 0
    BY <2>1 DEF Idle
  <2>3. RowsOK(c, j, r, "answered")
    BY <1>4, <2>2 DEF RowsOK, Settled
  <2>4. LostOK(c, Idle, lost[c], "answered")
    BY <1>1, <1>2, LostAtTheEnd DEF TurnEnd
  <2>5. QED
    BY <1>3, <1>5, <2>1, <2>3, <2>4, Ends
<1>6. ASSUME NEW n \in 1..job[c].commands, Goto(c, [Asking(c, "command") EXCEPT !.commands = n - 1])
      PROVE  CallsInv'
  <2>1. PICK j : j = [Asking(c, "command") EXCEPT !.commands = n - 1] /\ Goto(c, j)
    BY <1>6
  <2>2. /\ JobShape(j) /\ j.pc = "ask" /\ j.part = "command" /\ j.route = 1 /\ j.attempt = 1 /\ j.stage = 1
        /\ j.tries = job[c].tries /\ j.folds = job[c].folds /\ j.commands = n - 1
        /\ j.chats = job[c].chats /\ j.row = job[c].row
    BY <1>1, <2>1 DEF Asking, JobShape
  <2>3. JobOK(c, j)
    BY <1>1, <2>2, CommandBegins
  <2>4. RowsOK(c, j, r, end[c])
    BY <1>2, <1>4, <2>2 DEF RowsOK, Settled
  <2>5. LostOK(c, j, lost[c], end[c])
    BY <1>2, <2>2, LostOnTheWay
  <2>6. QED
    BY <1>3, <2>1, <2>3, <2>4, <2>5, GoesOn
<1>7. QED
  BY <1>5, <1>6 DEF AfterReplies

\* A command that is asked for and not answered yet.
LEMMA CommandRows ==
  ASSUME CallsInv, NEW c \in Callers, job[c].pc # "rest", job[c].part = "command"
  PROVE  Settled(rows[c]) /\ rows = [rows EXCEPT ![c] = rows[c]] /\ c \in Turns /\ end[c] = "none"
<1>1. c \in Turns
  BY CallerFacts, JobFacts
<1>2. QED
  BY <1>1, CallerFacts, Kept DEF RowsOK, Settled

LEMMA CommandGoesOn ==
  ASSUME CallsInv, NEW c \in Callers, job[c].pc # "rest", job[c].part = "command",
         NEW j, Goto(c, j), UNCHANGED <<rows, lost>>, WorldOK', JobOK(c, j), j.pc # "rest", j.row = job[c].row,
         j.part = "command"
  PROVE  CallsInv'
<1>1. RowsOK(c, j, rows[c], end[c])
  BY CallerFacts DEF RowsOK
<1>2. LostOK(c, j, lost[c], end[c])
  BY CallerFacts, LostOnTheWay
<1>3. rows' = [rows EXCEPT ![c] = rows[c]] /\ lost' = [lost EXCEPT ![c] = lost[c]]
  BY Kept
<1>4. QED
  BY <1>1, <1>2, <1>3, GoesOn

LEMMA ReplyFacts ==
  ASSUME CallsInv, NEW c \in Callers, job[c].pc # "rest", job[c].part = "reply"
  PROVE  /\ c \in Turns /\ end[c] = "none" /\ rows[c] \in Seq(RowStatus) /\ Len(rows[c]) \in Nat
         /\ JobShape(job[c]) /\ JobOK(c, job[c]) /\ LostOK(c, job[c], lost[c], "none")
         /\ \A i \in 1..Len(rows[c]) : rows[c][i] # "validated"
         /\ job[c].row \in {0, Len(rows[c])} /\ job[c].attempt \in 1..2
         /\ IF job[c].pc = "judge" /\ job[c].row # 0
            THEN Len(rows[c]) <= job[c].attempt /\ rows[c][Len(rows[c])] = "transport_success"
            ELSE Len(rows[c]) <= job[c].attempt - 1
<1>1. c \in Turns /\ job[c].attempt \in 1..2
  BY CallerFacts, JobFacts
<1>2. RowsOK(c, job[c], rows[c], end[c]) /\ JobShape(job[c]) /\ JobOK(c, job[c])
  BY CallerFacts
<1>3. rows[c] \in Seq(RowStatus) /\ end[c] = "none"
  BY <1>1, <1>2 DEF RowsOK
<1>4. Len(rows[c]) \in Nat
  BY <1>3, LenProperties
<1>5. LostOK(c, job[c], lost[c], "none")
  BY <1>3, CallerFacts
<1>6. QED
  BY <1>1, <1>2, <1>3, <1>4, <1>5 DEF RowsOK

\* An outcome is recorded on the last row or nowhere.
LEMMA Marked ==
  ASSUME CallsInv, NEW c \in Callers, job[c].pc # "rest", job[c].part = "reply",
         NEW status \in RowStatus, Mark(c, status)
  PROVE  \E r \in Seq(RowStatus) :
            /\ rows' = [rows EXCEPT ![c] = r] /\ Len(r) = Len(rows[c])
            /\ \A i \in 1..Len(r) : r[i] # rows[c][i] => i = Len(r) /\ r[i] = status
<1>1. rows[c] \in Seq(RowStatus) /\ job[c].row \in {0, Len(rows[c])} /\ Len(rows[c]) \in Nat
  BY ReplyFacts
<1>2. CASE UNCHANGED rows
  BY <1>1, <1>2, Kept
<1>3. CASE job[c].row # 0 /\ rows' = [rows EXCEPT ![c][job[c].row] = status]
  <2>1. PICK r : r = [rows[c] EXCEPT ![job[c].row] = status] /\ rows' = [rows EXCEPT ![c] = r]
    BY <1>3
  <2>2. job[c].row = Len(rows[c]) /\ job[c].row \in 1..Len(rows[c])
    BY <1>1, <1>3
  <2>3. /\ r \in Seq(RowStatus) /\ Len(r) = Len(rows[c])
        /\ \A i \in 1..Len(rows[c]) : r[i] = IF i = Len(rows[c]) THEN status ELSE rows[c][i]
    BY <1>1, <2>1, <2>2, ExceptSeq
  <2>4. QED
    BY <2>1, <2>3, ZenonT(60)
<1>4. QED
  BY <1>2, <1>3 DEF Mark

LEMMA ParseFailsOK ==
  ASSUME CallsInv, NEW c \in Callers, job[c].pc \in {"wait", "judge"}, job[c].part = "reply",
         ParseFails(c), UNCHANGED lost, WorldOK'
  PROVE  CallsInv'
<1>1. PICK r \in Seq(RowStatus) :
            /\ rows' = [rows EXCEPT ![c] = r] /\ Len(r) = Len(rows[c])
            /\ \A i \in 1..Len(r) : r[i] # rows[c][i] => i = Len(r) /\ r[i] = "parse_failed"
  BY Marked DEF ParseFails, RowStatus
<1>2. \A i \in 1..Len(r) : r[i] # "validated"
  BY <1>1, ReplyFacts
<1>3. lost' = [lost EXCEPT ![c] = lost[c]]
  BY Kept
<1>4. CASE job[c].attempt < ParseAttempts
  <2>1. PICK j : j = [job[c] EXCEPT !.pc = "ask", !.attempt = @ + 1] /\ Goto(c, j)
    BY <1>4 DEF ParseFails
  <2>2. /\ JobShape(j) /\ j.pc = "ask" /\ j.part = "reply" /\ j.route = job[c].route
        /\ j.attempt = job[c].attempt + 1 /\ j.stage = job[c].stage
        /\ j.tries = job[c].tries /\ j.folds = job[c].folds /\ j.commands = job[c].commands
        /\ j.chats = job[c].chats /\ j.row = job[c].row
    <3>1. JobShape(job[c]) /\ job[c].part = "reply"
      BY CallerFacts
    <3>2. QED
      BY <2>1, <3>1 DEF JobShape
  <2>3. JobOK(c, j)
    BY <1>4, <2>2, ReplyFacts, AskAgain
  <2>4. Len(r) <= job[c].attempt /\ job[c].attempt \in 1..2 /\ Len(r) \in Nat /\ job[c].row \in {0, Len(r)}
    BY <1>1, ReplyFacts
  <2>5. RowsOK(c, j, r, end[c])
    BY <1>2, <2>2, <2>4, ReplyFacts DEF RowsOK, ParseAttempts
  <2>6. LostOK(c, j, lost[c], end[c])
    BY <2>2, CallerFacts, LostOnTheWay
  <2>7. QED
    BY <1>1, <1>3, <2>1, <2>3, <2>5, <2>6, GoesOn
<1>5. CASE ~(job[c].attempt < ParseAttempts)
  <2>1. Finish(c, "unusable")
    BY <1>5 DEF ParseFails
  <2>2. PICK j : j = Idle
    OBVIOUS
  <2>3. j.pc = "rest" /\ j.row = 0
    BY <2>2 DEF Idle
  <2>4. Len(r) \in Nat
    BY <1>1, ReplyFacts
  <2>5. RowsOK(c, j, r, "unusable")
    BY <1>2, <2>3, <2>4 DEF RowsOK
  <2>6. LostOK(c, Idle, lost[c], "unusable")
    BY ReplyFacts, LostAtTheEnd DEF TurnEnd
  <2>7. QED
    BY <1>1, <1>3, <2>1, <2>2, <2>5, <2>6, Ends
<1>6. QED
  BY <1>4, <1>5

LEMMA JudgeReplyOK ==
  ASSUME CallsInv, NEW c \in Callers, JudgeReply(c)
  PROVE  CallsInv'
<1>1. job[c].pc = "judge" /\ job[c].part = "reply" /\ Working(job[c])
  BY DEF JudgeReply, At, Doing, Working
<1>2. WorldOK' /\ UNCHANGED lost
  BY DEF CallsInv, WorldOK, JudgeReply
<1>3. CASE ParseFails(c)
  BY <1>1, <1>2, <1>3, ParseFailsOK
<1>4. CASE Mark(c, "validated") /\ (AfterReplies(c) \/ Finish(c, "refused"))
  <2>1. PICK r \in Seq(RowStatus) :
            /\ rows' = [rows EXCEPT ![c] = r] /\ Len(r) = Len(rows[c])
            /\ \A i \in 1..Len(r) : r[i] # rows[c][i] => i = Len(r) /\ r[i] = "validated"
    BY <1>1, <1>4, Marked DEF RowStatus
  <2>2. Settled(r)
    <3>1. \A i \in 1..Len(r) : r[i] = "validated" => i = Len(r)
      BY <1>1, <2>1, ReplyFacts
    <3>2. ASSUME Len(r) = ParseAttempts
          PROVE  r[Len(r)] # "parse_failed"
      <4>1. Len(rows[c]) = 2 /\ Len(r) = 2 /\ 2 \in 1..Len(r)
        BY <2>1, <3>2 DEF ParseAttempts
      <4>2. rows[c][2] = "transport_success"
        BY <1>1, <4>1, ReplyFacts
      <4>3. QED
        BY <2>1, <4>1, <4>2
    <3>3. QED
      BY <3>1, <3>2 DEF Settled
  <2>3. CASE AfterReplies(c)
    BY <1>1, <1>2, <2>1, <2>2, <2>3, AfterRepliesOK
  <2>4. CASE Finish(c, "refused")
    <3>1. PICK j : j = Idle
      OBVIOUS
    <3>2. j.pc = "rest" /\ j.row = 0
      BY <3>1 DEF Idle
    <3>3. Len(r) \in Nat
      BY <1>1, <2>1, ReplyFacts
    <3>4. RowsOK(c, j, r, "refused")
      BY <2>2, <3>2, <3>3 DEF RowsOK, Settled
    <3>5. LostOK(c, Idle, lost[c], "refused")
      BY <1>1, ReplyFacts, LostAtTheEnd DEF TurnEnd
    <3>6. lost' = [lost EXCEPT ![c] = lost[c]]
      BY <1>2, Kept
    <3>7. QED
      BY <1>2, <2>1, <2>4, <3>1, <3>4, <3>5, <3>6, Ends
  <2>5. QED
    BY <1>4, <2>3, <2>4
<1>5. QED
  BY <1>3, <1>4 DEF JudgeReply

LEMMA JudgeCommandOK ==
  ASSUME CallsInv, NEW c \in Callers, JudgeCommand(c)
  PROVE  CallsInv'
<1>1. job[c].pc = "judge" /\ job[c].part = "command" /\ Working(job[c])
  BY DEF JudgeCommand, At, Doing, Working
<1>2. WorldOK' /\ UNCHANGED <<rows, lost>> /\ AfterReplies(c)
  BY DEF CallsInv, WorldOK, JudgeCommand
<1>3. Settled(rows[c]) /\ rows' = [rows EXCEPT ![c] = rows[c]]
  BY <1>1, <1>2, CommandRows
<1>4. QED
  BY <1>1, <1>2, <1>3, AfterRepliesOK

-----------------------------------------------------------------------------
(* Clients that are unavailable.                                           *)

LEMMA SwitchOrGiveUpOK ==
  ASSUME CallsInv, NEW c \in Callers, job[c].pc \in {"ask", "wait"}, job[c].part = "reply",
         SwitchOrGiveUp(c), lost' = [lost EXCEPT ![c] = @ \union {Client(c)}], UNCHANGED rows, WorldOK'
  PROVE  CallsInv'
<1>1. PICK l : l = lost[c] \union {Client(c)} /\ lost' = [lost EXCEPT ![c] = l]
  OBVIOUS
<1>2. l \subseteq Clients
  BY <1>1, ClientTyped, CallerFacts DEF LostOK
<1>3. rows' = [rows EXCEPT ![c] = rows[c]]
  BY Kept
<1>4. /\ Client(c) = Routes[c]["reply"][job[c].route] /\ job[c].route \in 1..Ways(c, "reply")
      /\ Ways(c, "reply") \in 1..2 /\ DOMAIN Routes[c]["reply"] = 1..Ways(c, "reply")
  BY ReplyFacts, JobFacts, RoutesTyped, ClientTyped DEF Ways, Parts
<1>5. job[c].route = 2 => Routes[c]["reply"][1] \in lost[c]
  BY ReplyFacts DEF LostOK
<1>6. CASE HasFallback(c)
  <2>1. PICK j : j = [job[c] EXCEPT !.pc = "ask", !.route = 2] /\ Goto(c, j)
    BY <1>6 DEF SwitchOrGiveUp
  <2>2. /\ JobShape(j) /\ j.pc = "ask" /\ j.part = "reply" /\ j.route = 2
        /\ j.attempt = job[c].attempt /\ j.stage = job[c].stage
        /\ j.tries = job[c].tries /\ j.folds = job[c].folds /\ j.commands = job[c].commands
        /\ j.chats = job[c].chats /\ j.row = job[c].row
    <3>1. JobShape(job[c]) /\ job[c].part = "reply"
      BY CallerFacts
    <3>2. QED
      BY <2>1, <3>1 DEF JobShape
  <2>3. job[c].route < Ways(c, "reply")
    BY <1>6, ClientTyped
  <2>4. JobOK(c, j) /\ job[c].route = 1
    BY <2>2, <2>3, ReplyFacts, FallbackTaken DEF Working
  <2>5. RowsOK(c, j, rows[c], end[c])
    BY <2>2, ReplyFacts DEF RowsOK, ParseAttempts
  <2>6. LostOK(c, j, l, end[c])
    BY <1>1, <1>2, <1>4, <2>2, <2>4, ReplyFacts DEF LostOK
  <2>7. QED
    BY <1>1, <1>3, <2>1, <2>4, <2>5, <2>6, GoesOn
<1>7. CASE ~HasFallback(c)
  <2>1. Finish(c, "unavailable") /\ ~(job[c].route < Ways(c, "reply"))
    BY <1>7, ClientTyped DEF SwitchOrGiveUp
  <2>2. \A i \in DOMAIN Routes[c]["reply"] : Routes[c]["reply"][i] \in l
    BY <1>1, <1>4, <1>5, <2>1
  <2>3. PICK j : j = Idle
    OBVIOUS
  <2>4. j.pc = "rest" /\ j.row = 0 /\ j.part = "fold"
    BY <2>3 DEF Idle
  <2>5. RowsOK(c, j, rows[c], "unavailable")
    BY <2>4, ReplyFacts DEF RowsOK
  <2>6. LostOK(c, j, l, "unavailable")
    BY <1>2, <2>2, <2>4, ReplyFacts DEF LostOK, TurnEnd
  <2>7. QED
    BY <1>1, <1>3, <2>1, <2>3, <2>5, <2>6, Ends
<1>8. QED
  BY <1>6, <1>7

LEMMA UnavailableOK ==
  ASSUME CallsInv, NEW c \in Callers, job[c].pc \in {"ask", "wait"}, Unavailable(c), UNCHANGED rows, WorldOK'
  PROVE  CallsInv'
<1>1. Working(job[c])
  BY DEF Working
<1>2. CASE Doing(c, "reply") /\ SwitchOrGiveUp(c) /\ lost' = [lost EXCEPT ![c] = @ \union {Client(c)}]
  BY <1>2, SwitchOrGiveUpOK DEF Doing
<1>3. CASE Doing(c, "fold") /\ FoldAttemptFails(c) /\ UNCHANGED lost
  BY <1>1, <1>3, FoldAttemptFailsOK DEF Doing
<1>4. CASE Doing(c, "command") /\ AfterReplies(c) /\ UNCHANGED lost
  <2>1. Settled(rows[c]) /\ rows' = [rows EXCEPT ![c] = rows[c]]
    BY <1>1, <1>4, CommandRows DEF Doing, Working
  <2>2. QED
    BY <1>1, <1>4, <2>1, AfterRepliesOK DEF Doing
<1>5. QED
  BY <1>2, <1>3, <1>4 DEF Unavailable

LEMMA BrokenOK ==
  ASSUME CallsInv, NEW c \in Callers, job[c].pc # "rest", job[c].part = "reply",
         Finish(c, "broken"), UNCHANGED <<rows, lost>>, WorldOK'
  PROVE  CallsInv'
<1>1. PICK j : j = Idle
  OBVIOUS
<1>2. j.pc = "rest" /\ j.row = 0
  BY <1>1 DEF Idle
<1>3. RowsOK(c, j, rows[c], "broken")
  BY <1>2, ReplyFacts DEF RowsOK
<1>4. LostOK(c, Idle, lost[c], "broken")
  BY ReplyFacts, LostAtTheEnd DEF TurnEnd
<1>5. rows' = [rows EXCEPT ![c] = rows[c]] /\ lost' = [lost EXCEPT ![c] = lost[c]]
  BY Kept
<1>6. QED
  BY <1>1, <1>3, <1>4, <1>5, Ends

-----------------------------------------------------------------------------
(* Circuits and providers.                                                 *)

LEMMA CircuitShape ==
  ASSUME NEW failures \in 0..Threshold, NEW open \in BOOLEAN, NEW rest \in 0..CoolDown
  PROVE  [failures |-> failures, open |-> open, left |-> rest] \in Circuit
  BY DEF Circuit

LEMMA ClosedTyped == Closed \in Circuit
  BY CallsAssumption DEF Closed, Circuit

LEMMA FailureRecorded ==
  ASSUME WorldOK, NEW k \in Clients, RecordFailure(k)
  PROVE  circuit' \in [Clients -> Circuit]
<1>1. circuit \in [Clients -> Circuit] /\ circuit[k] \in Circuit
  BY DEF WorldOK
<1>2. PICK n \in 0..Threshold : n = IF circuit[k].failures < Threshold THEN circuit[k].failures + 1 ELSE Threshold
  BY <1>1, CallsAssumption DEF Circuit
<1>3. CASE n = Threshold
  <2>1. circuit' = [circuit EXCEPT ![k] = [failures |-> n, open |-> TRUE, left |-> CoolDown]]
    BY <1>2, <1>3 DEF RecordFailure
  <2>2. [failures |-> n, open |-> TRUE, left |-> CoolDown] \in Circuit
    <3>1. CoolDown \in 0..CoolDown
      BY CallsAssumption
    <3>2. QED
      BY <3>1, CircuitShape
  <2>3. QED
    BY <1>1, <2>1, <2>2
<1>4. CASE n # Threshold
  <2>1. circuit' = [circuit EXCEPT ![k] = [circuit[k] EXCEPT !.failures = n]]
    BY <1>2, <1>4 DEF RecordFailure
  <2>2. [circuit[k] EXCEPT !.failures = n] \in Circuit
    BY <1>1, <1>2 DEF Circuit
  <2>3. QED
    BY <1>1, <2>1, <2>2
<1>5. QED
  BY <1>3, <1>4

\* Nothing of a caller changes.
LEMMA WorldMoves ==
  ASSUME CallsInv, WorldOK', UNCHANGED <<job, rows, lost, end>>
  PROVE  CallsInv'
  BY DEF CallsInv

LEMMA TickOK ==
  ASSUME CallsInv, NEW k \in Clients, Tick(k)
  PROVE  CallsInv'
<1>1. circuit \in [Clients -> Circuit] /\ circuit[k] \in Circuit /\ circuit[k].left > 0
  BY DEF CallsInv, WorldOK, Tick, Ahead
<1>2. PICK q : q = [circuit[k] EXCEPT !.left = @ - 1] /\ circuit' = [circuit EXCEPT ![k] = q]
  BY DEF Tick
<1>3. q \in Circuit
  <2>1. /\ circuit[k].failures \in 0..Threshold /\ circuit[k].open \in BOOLEAN /\ circuit[k].left \in 0..CoolDown
        /\ circuit[k] = [failures |-> circuit[k].failures, open |-> circuit[k].open, left |-> circuit[k].left]
    BY <1>1 DEF Circuit
  <2>2. q = [failures |-> circuit[k].failures, open |-> circuit[k].open, left |-> circuit[k].left - 1]
    BY <1>2, <2>1
  <2>3. circuit[k].left - 1 \in 0..CoolDown
    BY <1>1, <2>1, CallsAssumption
  <2>4. QED
    BY <2>1, <2>2, <2>3, CircuitShape
<1>4. WorldOK'
  BY <1>1, <1>2, <1>3 DEF CallsInv, WorldOK, Tick
<1>5. QED
  BY <1>4, WorldMoves DEF Tick

LEMMA ChangeHealthOK ==
  ASSUME CallsInv, NEW k \in Clients, ChangeHealth(k)
  PROVE  CallsInv'
<1>1. WorldOK'
  BY DEF CallsInv, WorldOK, ChangeHealth
<1>2. QED
  BY <1>1, WorldMoves DEF ChangeHealth

-----------------------------------------------------------------------------
(* Chats.                                                                  *)

LEMMA RefuseOK ==
  ASSUME CallsInv, NEW c \in Callers, Refuse(c)
  PROVE  CallsInv'
<1>1. WorldOK'
  BY DEF CallsInv, WorldOK, Refuse
<1>2. QED
  BY <1>1, UnavailableOK DEF Refuse, At

LEMMA TransportFailsOK ==
  ASSUME CallsInv, NEW c \in Callers, TransportFails(c)
  PROVE  CallsInv'
<1>1. circuit' \in [Clients -> Circuit]
  BY ClientTyped, FailureRecorded DEF CallsInv, TransportFails
<1>2. WorldOK'
  BY <1>1 DEF CallsInv, WorldOK, TransportFails
<1>3. QED
  BY <1>2, UnavailableOK DEF TransportFails, At

\* A chat goes on in its place, and the rows of its caller are as they were.
LEMMA ChatGoesOn ==
  ASSUME CallsInv, NEW c \in Callers, job[c].pc \in {"ask", "wait"},
         NEW j, Goto(c, j), UNCHANGED <<rows, lost>>, WorldOK', JobOK(c, j), j.pc \in {"wait", "judge"},
         j.part = job[c].part, j.route = job[c].route, j.attempt = job[c].attempt, j.row = job[c].row,
         j.part = "reply" => j.pc = "wait"
  PROVE  CallsInv'
<1>1. CASE job[c].part = "fold"
  BY <1>1, FoldGoesOn
<1>2. CASE job[c].part = "command"
  BY <1>2, CommandGoesOn
<1>3. CASE job[c].part = "reply"
  <2>1. RowsOK(c, j, rows[c], end[c])
    BY <1>3, ReplyFacts DEF RowsOK, ParseAttempts
  <2>2. LostOK(c, j, lost[c], end[c])
    BY CallerFacts, LostOnTheWay
  <2>3. rows' = [rows EXCEPT ![c] = rows[c]] /\ lost' = [lost EXCEPT ![c] = lost[c]]
    BY Kept
  <2>4. QED
    BY <2>1, <2>2, <2>3, GoesOn
<1>4. QED
  BY <1>1, <1>2, <1>3, CallerFacts, JobFacts

LEMMA SendOK ==
  ASSUME CallsInv, NEW c \in Callers, Send(c)
  PROVE  CallsInv'
<1>1. job[c].pc = "ask" /\ JobOK(c, job[c]) /\ JobShape(job[c])
  BY CallerFacts DEF Send, At
<1>2. Counted(c) = job[c].chats + 1
  BY <1>1, WithinBudget, JobFacts DEF Counted
<1>3. circuit \in [Clients -> Circuit] /\ circuit' \in [Clients -> Circuit]
  BY ClosedTyped, ClientTyped DEF CallsInv, WorldOK, Send
<1>4. WorldOK'
  BY <1>3 DEF CallsInv, WorldOK, Send
<1>5. PICK j : j = [job[c] EXCEPT !.pc = "wait", !.tries = 1, !.chats = Counted(c)] /\ Goto(c, j)
  BY DEF Send
<1>6. /\ JobShape(j) /\ j.pc = "wait" /\ j.part = job[c].part /\ j.route = job[c].route
      /\ j.attempt = job[c].attempt /\ j.stage = job[c].stage
      /\ j.tries = 1 /\ j.folds = job[c].folds /\ j.commands = job[c].commands
      /\ j.chats = job[c].chats + 1 /\ j.row = job[c].row
  BY <1>1, <1>2, <1>5 DEF JobShape
<1>7. JobOK(c, j)
  BY <1>1, <1>6, ChatSent
<1>8. QED
  BY <1>1, <1>4, <1>5, <1>6, <1>7, ChatGoesOn DEF Send

LEMMA RetryOK ==
  ASSUME CallsInv, NEW c \in Callers, Retry(c)
  PROVE  CallsInv'
<1>1. job[c].pc = "wait" /\ JobOK(c, job[c]) /\ JobShape(job[c]) /\ job[c].tries < Tries
  BY CallerFacts DEF Retry, At
<1>2. WorldOK'
  BY DEF CallsInv, WorldOK, Retry
<1>3. PICK j : j = [job[c] EXCEPT !.tries = @ + 1] /\ Goto(c, j)
  BY DEF Retry
<1>4. /\ JobShape(j) /\ j.pc = "wait" /\ j.part = job[c].part /\ j.route = job[c].route
      /\ j.attempt = job[c].attempt /\ j.stage = job[c].stage
      /\ j.tries = job[c].tries + 1 /\ j.folds = job[c].folds /\ j.commands = job[c].commands
      /\ j.chats = job[c].chats /\ j.row = job[c].row
  BY <1>1, <1>3 DEF JobShape
<1>5. j.tries \in 1..Tries
  BY <1>1, <1>4, JobFacts
<1>6. JobOK(c, j)
  BY <1>1, <1>4, <1>5, SamePlace
<1>7. QED
  BY <1>1, <1>2, <1>3, <1>4, <1>6, ChatGoesOn DEF Retry

LEMMA AnswerOK ==
  ASSUME CallsInv, NEW c \in Callers, Answer(c)
  PROVE  CallsInv'
<1>1. job[c].pc = "wait" /\ JobOK(c, job[c]) /\ JobShape(job[c])
  BY CallerFacts DEF Answer, At
<1>2. circuit' \in [Clients -> Circuit]
  BY ClosedTyped, ClientTyped DEF CallsInv, WorldOK, Answer
<1>3. WorldOK' /\ UNCHANGED lost
  BY <1>2 DEF CallsInv, WorldOK, Answer
<1>4. CASE ~Doing(c, "reply")
  <2>1. PICK j : j = [job[c] EXCEPT !.pc = "judge"] /\ Goto(c, j)
    BY <1>4 DEF Answer
  <2>2. /\ JobShape(j) /\ j.pc = "judge" /\ j.part = job[c].part /\ j.route = job[c].route
        /\ j.attempt = job[c].attempt /\ j.stage = job[c].stage
        /\ j.tries = job[c].tries /\ j.folds = job[c].folds /\ j.commands = job[c].commands
        /\ j.chats = job[c].chats /\ j.row = job[c].row
    BY <1>1, <2>1 DEF JobShape
  <2>3. JobOK(c, j)
    BY <1>1, <2>2, JobFacts, SamePlace
  <2>4. UNCHANGED rows /\ j.part # "reply"
    BY <1>4, <2>2 DEF Answer, Doing
  <2>5. QED
    BY <1>1, <1>3, <2>1, <2>2, <2>3, <2>4, ChatGoesOn
<1>5. CASE Doing(c, "reply")
  <2>1. PICK written \in BOOLEAN :
            /\ rows' = IF written THEN [rows EXCEPT ![c] = Append(@, "transport_success")] ELSE rows
            /\ Goto(c, [job[c] EXCEPT !.pc = "judge", !.row = RowOfAnswer(c, written)])
    BY <1>5 DEF Answer
  <2>2. PICK j : j = [job[c] EXCEPT !.pc = "judge", !.row = RowOfAnswer(c, written)] /\ Goto(c, j)
    BY <2>1
  <2>3. /\ JobShape(j) /\ j.pc = "judge" /\ j.part = job[c].part /\ j.route = job[c].route
        /\ j.attempt = job[c].attempt /\ j.stage = job[c].stage
        /\ j.tries = job[c].tries /\ j.folds = job[c].folds /\ j.commands = job[c].commands
        /\ j.chats = job[c].chats /\ j.row = RowOfAnswer(c, written)
    BY <1>1, <2>2 DEF JobShape
  <2>4. JobOK(c, j)
    BY <1>1, <2>3, JobFacts, SamePlace
  <2>5. LostOK(c, j, lost[c], end[c])
    BY <2>3, CallerFacts, LostOnTheWay
  <2>6. job[c].part = "reply" /\ job[c].pc # "rest" /\ Len(rows[c]) <= job[c].attempt - 1
    BY <1>1, <1>5, ReplyFacts DEF Doing
  <2>7. lost' = [lost EXCEPT ![c] = lost[c]]
    BY <1>3, Kept
  <2>8. CASE written
    <3>1. PICK r : r = Append(rows[c], "transport_success") /\ rows' = [rows EXCEPT ![c] = r]
      BY <2>1, <2>8
    <3>2. /\ r \in Seq(RowStatus) /\ Len(r) = Len(rows[c]) + 1
          /\ \A i \in 1..Len(rows[c]) : r[i] = rows[c][i]
          /\ r[Len(rows[c]) + 1] = "transport_success"
      BY <2>6, <3>1, ReplyFacts, AppendProperties DEF RowStatus
    <3>3. j.row = Len(r) /\ Len(rows[c]) \in Nat
      BY <2>3, <2>6, <2>8, <3>2, ReplyFacts DEF RowOfAnswer
    <3>4. \A i \in 1..Len(r) : r[i] # "validated"
      BY <2>6, <3>2, <3>3, ReplyFacts
    <3>5. RowsOK(c, j, r, end[c])
      BY <2>3, <2>6, <3>2, <3>3, <3>4, ReplyFacts DEF RowsOK, ParseAttempts
    <3>6. QED
      BY <1>3, <2>2, <2>4, <2>5, <2>7, <3>1, <3>5, GoesOn
  <2>9. CASE ~written
    <3>1. j.row = 0 /\ rows' = [rows EXCEPT ![c] = rows[c]]
      BY <2>1, <2>3, <2>9, Kept DEF RowOfAnswer
    <3>2. RowsOK(c, j, rows[c], end[c])
      BY <2>3, <2>6, <3>1, ReplyFacts DEF RowsOK, ParseAttempts
    <3>3. QED
      BY <1>3, <2>2, <2>4, <2>5, <2>7, <3>1, <3>2, GoesOn
  <2>10. QED
    BY <2>8, <2>9
<1>6. QED
  BY <1>4, <1>5

LEMMA BadBodyOK ==
  ASSUME CallsInv, NEW c \in Callers, Garbled(c) \/ Shapeless(c)
  PROVE  CallsInv'
<1>1. job[c].pc = "wait" /\ Working(job[c])
  BY DEF Garbled, Shapeless, At, Working
<1>2. WorldOK' /\ UNCHANGED lost
  BY DEF CallsInv, WorldOK, Garbled, Shapeless
<1>3. CASE job[c].part = "reply" /\ ParseFails(c)
  BY <1>1, <1>2, <1>3, ParseFailsOK
<1>4. CASE job[c].part = "reply" /\ Finish(c, "broken") /\ UNCHANGED rows
  BY <1>1, <1>2, <1>4, BrokenOK
<1>5. CASE job[c].part = "fold" /\ FoldAttemptFails(c) /\ UNCHANGED rows
  BY <1>1, <1>2, <1>5, FoldAttemptFailsOK
<1>6. CASE job[c].part = "command" /\ AfterReplies(c) /\ UNCHANGED rows
  <2>1. Settled(rows[c]) /\ rows' = [rows EXCEPT ![c] = rows[c]]
    BY <1>1, <1>6, CommandRows
  <2>2. QED
    BY <1>1, <1>2, <1>6, <2>1, AfterRepliesOK
<1>7. QED
  BY <1>3, <1>4, <1>5, <1>6 DEF Garbled, Shapeless, Doing

-----------------------------------------------------------------------------
(* The invariant.                                                          *)

LEMMA CallsInit == Init => CallsInv
<1> SUFFICES ASSUME Init PROVE CallsInv
  OBVIOUS
<1>1. circuit \in [Clients -> Circuit]
  BY ClosedTyped DEF Init
<1>2. WorldOK
  BY <1>1 DEF Init, WorldOK
<1>3. /\ job = [c \in Callers |-> job[c]] /\ rows = [c \in Callers |-> rows[c]]
      /\ lost = [c \in Callers |-> lost[c]] /\ end = [c \in Callers |-> end[c]]
  BY DEF Init
<1>4. ASSUME NEW c \in Callers
      PROVE  CallerOK(c, job[c], rows[c], lost[c], end[c])
  <2>1. job[c] = Idle /\ rows[c] = <<>> /\ lost[c] = {} /\ end[c] = "none"
    BY DEF Init
  <2>2. PICK j : j = Idle
    OBVIOUS
  <2>3. j.pc = "rest" /\ j.row = 0 /\ j.part = "fold"
    BY <2>2 DEF Idle
  <2>4. Len(<<>>) = 0 /\ <<>> \in Seq(RowStatus)
    BY EmptySeq
  <2>5. RowsOK(c, j, <<>>, "none")
    BY <2>3, <2>4 DEF RowsOK, ParseAttempts
  <2>6. LostOK(c, j, {}, "none")
    BY <2>3 DEF LostOK
  <2>7. QED
    BY <2>1, <2>2, <2>5, <2>6, IdleOK DEF CallerOK
<1>5. QED
  BY <1>2, <1>3, <1>4 DEF CallsInv

LEMMA CallsStep == CallsInv /\ [Next]_vars => CallsInv'
<1> SUFFICES ASSUME CallsInv, [Next]_vars PROVE CallsInv'
  OBVIOUS
<1>1. ASSUME NEW c \in Callers, Start(c)
      PROVE  CallsInv'
  BY <1>1, StartOK
<1>2. ASSUME NEW c \in Callers, Step(c)
      PROVE  CallsInv'
  BY <1>2, EvaluateOK, RefuseOK, SendOK, RetryOK, TransportFailsOK, AnswerOK, BadBodyOK,
     JudgeReplyOK, JudgeFoldOK, JudgeCommandOK DEF Step
<1>3. ASSUME NEW k \in Clients, Tick(k) \/ ChangeHealth(k)
      PROVE  CallsInv'
  BY <1>3, TickOK, ChangeHealthOK
<1>4. CASE UNCHANGED vars
  <2>1. WorldOK' /\ UNCHANGED <<job, rows, lost, end>>
    BY <1>4 DEF vars, CallsInv, WorldOK
  <2>2. QED
    BY <2>1, WorldMoves
<1>5. QED
  BY <1>1, <1>2, <1>3, <1>4 DEF Next

LEMMA CallsInductive == Spec => []CallsInv
  BY CallsInit, CallsStep, PTL DEF Spec

\* No operation takes more chats than its folds, replies and commands multiply to, whoever
\* else opens a circuit or loses a provider meanwhile, and all its counters keep their
\* bounds: the retries, fallbacks and stages of ModelCalls.BoundedSpending.
THEOREM SpendingIsBounded == Spec => []BoundedSpending
<1>1. ASSUME CallsInv
      PROVE  BoundedSpending
  <2>1. circuit \in [Clients -> Circuit] /\ up \in [Clients -> BOOLEAN]
    BY <1>1 DEF CallsInv, WorldOK
  <2>2. ASSUME NEW c \in Callers
        PROVE  /\ job[c].pc \in {"rest", "evaluate", "ask", "wait", "judge"}
               /\ job[c].part \in IF c \in Turns THEN Parts ELSE {"fold"}
               /\ job[c].route \in DOMAIN Routes[c][job[c].part]
               /\ job[c].attempt \in 1..ParseAttempts
               /\ job[c].stage \in 1..Stages[c]
               /\ job[c].tries \in 1..Tries
               /\ job[c].folds \in 0..MaxCatchUp
               /\ job[c].chats \in 0..MostChats(c) + 1
               /\ job[c].chats <= MostChats(c)
               /\ job[c].row \in 0..Len(rows[c])
               /\ rows[c] \in Seq(RowStatus)
               /\ lost[c] \subseteq Clients
               /\ end[c] \in {"none"} \union (IF c \in Turns THEN TurnEnd ELSE TaskEnd)
    <3>1. JobOK(c, job[c]) /\ RowsOK(c, job[c], rows[c], end[c]) /\ LostOK(c, job[c], lost[c], end[c])
      BY <1>1, CallerFacts
    <3>2. job[c].chats \in Nat /\ MostChats(c) \in Nat /\ job[c].chats <= MostChats(c)
      BY <3>1, WithinBudget, JobFacts
    <3>3. job[c].part \in Parts /\ job[c].route \in DOMAIN Routes[c][job[c].part]
      BY <3>1, RoutesTyped DEF JobOK, Ways
    <3>4. job[c].part \in IF c \in Turns THEN Parts ELSE {"fold"}
      BY <3>1 DEF JobOK, Callers
    <3>5. job[c].row \in 0..Len(rows[c]) /\ rows[c] \in Seq(RowStatus)
      BY <3>1 DEF RowsOK
    <3>6. /\ lost[c] \subseteq Clients
          /\ end[c] \in {"none"} \union (IF c \in Turns THEN TurnEnd ELSE TaskEnd)
      BY <3>1 DEF LostOK
    <3>7. /\ job[c].pc \in {"rest", "evaluate", "ask", "wait", "judge"}
          /\ job[c].attempt \in 1..ParseAttempts
          /\ job[c].stage \in 1..Stages[c]
          /\ job[c].tries \in 1..Tries
          /\ job[c].folds \in 0..MaxCatchUp
      BY <3>1 DEF JobOK
    <3>8. job[c].chats \in 0..MostChats(c) + 1
      BY <3>2
    <3>9. QED
      BY <3>2, <3>3, <3>4, <3>5, <3>6, <3>7, <3>8
  <2>3. QED
    BY <2>1, <2>2 DEF BoundedSpending, TypeOK
<1>2. QED
  BY <1>1, CallsInductive, PTL

\* A turn is unavailable only after each client of its replies has been: the switch of
\* SwitchOrGiveUp is not skipped by an outage that comes with a bad answer.
THEOREM NoTurnSurrendersEarly == Spec => []NoEarlySurrender
<1>1. ASSUME CallsInv
      PROVE  NoEarlySurrender
  <2>1. \A c \in Turns : c \in Callers
    BY DEF Callers
  <2>2. \A c \in Turns : LostOK(c, job[c], lost[c], end[c])
    BY <1>1, <2>1, CallerFacts
  <2>3. QED
    BY <2>2 DEF LostOK, NoEarlySurrender
<1>2. QED
  BY <1>1, CallsInductive, PTL

\* An answer that counts as validated is the last one a turn asked for, and one that was
\* used does not count as failed, however many outcomes were lost on the way to their row.
THEOREM RowsAreTrue == Spec => []RowsTellTheTruth
<1>1. ASSUME CallsInv, NEW c \in Turns
      PROVE  LET n == Len(rows[c]) IN
             /\ \A i \in 1..n : rows[c][i] = "validated" =>
                   /\ i = n
                   /\ ~At(c, "rest") => Doing(c, "command")
                   /\ end[c] \in {"none", "answered", "refused"}
             /\ end[c] = "answered" /\ n = ParseAttempts => rows[c][n] # "parse_failed"
  <2>1. c \in Callers
    BY DEF Callers
  <2>2. JobOK(c, job[c]) /\ RowsOK(c, job[c], rows[c], end[c])
    BY <1>1, <2>1, CallerFacts
  <2>3. ASSUME NEW i \in 1..Len(rows[c]), rows[c][i] = "validated", job[c].pc # "rest"
        PROVE  job[c].part = "command"
    <3>1. job[c].part # "reply"
      BY <2>2, <2>3 DEF RowsOK
    <3>2. job[c].part # "fold"
      <4>1. SUFFICES ASSUME job[c].part = "fold" PROVE FALSE
        OBVIOUS
      <4>2. rows[c] = <<>> /\ Len(rows[c]) = 0
        BY <2>2, <2>3, <4>1, EmptySeq DEF RowsOK
      <4>3. QED
        BY <2>3, <4>2
    <3>3. QED
      BY <2>1, <2>2, <3>1, <3>2, JobFacts
  <2>4. QED
    BY <2>2, <2>3 DEF RowsOK, At, Doing
<1>2. CallsInv => RowsTellTheTruth
  BY <1>1 DEF RowsTellTheTruth
<1>3. QED
  BY <1>2, CallsInductive, PTL
=============================================================================

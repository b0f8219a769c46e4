------------------------- MODULE PostCommitQueueProofs -------------------------
(***************************************************************************)
(* For any number of tasks, turns, workers and incarnations: the effect of *)
(* a task is committed exactly when the task is completed and no two       *)
(* workers are at it, unless recovery took it from a worker that was left  *)
(* behind; and a task in processing has its worker or a dead process.      *)
(***************************************************************************)
EXTENDS PostCommitQueue, TLAPS

USE TasksAssumption DEF Incarnations

Labels == {"idle", "claimed", "working", "compressed", "completing", "thrown", "failing", "settling"}

\* Only compression has a completion of its own.
CompletesApart ==
    \A w \in Workers, t \in Task : pc[w][t] \in {"compressed", "completing"} => Kind[t] = "compression"

\* A worker that is not through with a task holds its lease, unless the task was taken from it.
HolderOwns ==
    \A t \in Task \ usurped, w \in Workers : pc[w][t] \notin {"idle", "settling"} => Owns(w, t)

\* A worker that is through with a task does not hold its lease any more.
SettlingDone == \A w \in Workers, t \in Task : pc[w][t] = "settling" => ~Owns(w, t)

\* A task in processing belongs to a worker.
OwnerIsWorker == \A t \in Task : status[t] = "processing" => owner[t] \in Workers

\* A task that is given up has had its attempts.
GivenUpLate == \A t \in Task : status[t] = "failed" => attempts[t] >= MaxAttempts

Inv == /\ TypeOK /\ CompletesApart /\ HolderOwns /\ SettlingDone /\ OwnerIsWorker
       /\ GivenUpLate /\ EffectWithCompletion /\ ProcessingHasWorker

-----------------------------------------------------------------------------
LEMMA InitInv == Init => Inv
  BY DEF Init, Inv, TypeOK, CompletesApart, HolderOwns, SettlingDone, OwnerIsWorker, GivenUpLate,
         EffectWithCompletion, ProcessingHasWorker, Owns

LEMMA WorkersAre == \A o \in Incarnations : <<o, "pool">> \in Workers /\ <<o, "inline">> \in Workers
  BY DEF Workers, Pools

LEMMA WorkerOf == \A w \in Workers : w[1] \in Incarnations
  BY DEF Workers, Pools

\* What moving one worker to a label leaves of the table.
LEMMA GotoMoves ==
  ASSUME pc \in [Workers -> [Task -> Labels]],
         NEW w \in Workers, NEW t \in Task, NEW label \in Labels, Goto(w, t, label)
  PROVE  /\ pc' \in [Workers -> [Task -> Labels]]
         /\ pc'[w][t] = label
         /\ \A v \in Workers, u \in Task : v # w \/ u # t => pc'[v][u] = pc[v][u]
  BY DEF Goto

\* A crash ends the workers of the process and no other.
LEMMA CrashIdles ==
  ASSUME pc \in [Workers -> [Task -> Labels]], NEW o \in Incarnations, Crash(o)
  PROVE  /\ pc' \in [Workers -> [Task -> Labels]]
         /\ \A v \in Workers, u \in Task : pc'[v][u] = IF v[1] = o THEN "idle" ELSE pc[v][u]
<1> DEFINE idle == [t \in Task |-> "idle"]
<1>1. idle \in [Task -> Labels] /\ \A u \in Task : idle[u] = "idle"
  BY DEF Labels
<1>2. pc' = [v \in Workers |-> IF v[1] = o THEN idle ELSE pc[v]]
  BY DEF Crash
<1> HIDE DEF idle
<1>3. QED
  BY <1>1, <1>2

\* The steps of a worker, each from one label to another, as far as the rows go.
LEMMA WorkMoves ==
  ASSUME TypeOK, NEW w \in Workers, NEW t \in Task, Work(w, t)
  PROVE  \E label \in Labels :
            /\ Goto(w, t, label)
            /\ pc[w][t] # "idle"
  BY DEF Work, Begin, CommitEffect, Compress, CompletionRead, CompletionCommit, Raise, AfterThrow,
         MarkFailed, Settle, Labels

-----------------------------------------------------------------------------
\* The process and the clock move no worker, or end those of one process.
LEMMA ProcessStep ==
  ASSUME Inv,
         \/ \E o \in Incarnations : Start(o) \/ RecoverRead(o) \/ RecoverCommit(o) \/ Stop(o) \/ Crash(o)
         \/ \E o \in Incarnations, turn \in Turn : FinalizeTurn(o, turn)
         \/ \E t \in Task : LeaseExpires(t) \/ BackoffEnds(t)
         \/ UNCHANGED vars
  PROVE  Inv'
<1> USE DEF Inv, TypeOK, CompletesApart, HolderOwns, SettlingDone, OwnerIsWorker, GivenUpLate,
            EffectWithCompletion, ProcessingHasWorker, Owns, Busy, rowVars
<1>1. ASSUME NEW o \in Incarnations, Start(o) PROVE Inv'
  BY <1>1 DEF Start
<1>2. ASSUME NEW o \in Incarnations, RecoverRead(o) PROVE Inv'
  BY <1>2 DEF RecoverRead
<1>3. ASSUME NEW o \in Incarnations, RecoverCommit(o) PROVE Inv'
  <2>1. TypeOK' /\ CompletesApart' /\ OwnerIsWorker' /\ GivenUpLate'
    BY <1>3 DEF RecoverCommit
  <2>2. HolderOwns' /\ SettlingDone'
    BY <1>3 DEF RecoverCommit
  <2>3. EffectWithCompletion'
    BY <1>3 DEF RecoverCommit
  <2>4. ProcessingHasWorker'
    BY <1>3 DEF RecoverCommit
  <2>5. QED
    BY <2>1, <2>2, <2>3, <2>4
<1>4. ASSUME NEW o \in Incarnations, Stop(o) PROVE Inv'
  BY <1>4 DEF Stop, Up
<1>5. ASSUME NEW o \in Incarnations, Crash(o) PROVE Inv'
  <2>1. /\ pc' \in [Workers -> [Task -> Labels]]
        /\ \A v \in Workers, u \in Task : pc'[v][u] = IF v[1] = o THEN "idle" ELSE pc[v][u]
    <3>1. pc \in [Workers -> [Task -> Labels]]
      BY DEF Labels
    <3>2. QED
      BY <1>5, <3>1, CrashIdles
  <2>2. /\ phase' = [phase EXCEPT ![o] = "dead"] /\ UNCHANGED <<rowVars, effects, usurped>>
        /\ recovering' \subseteq recovering /\ todo' \subseteq todo
    BY <1>5 DEF Crash
  <2>3. TypeOK'
    BY <2>1, <2>2 DEF Labels
  <2>4. CompletesApart' /\ HolderOwns' /\ SettlingDone'
    <3> HIDE DEF Inv, TypeOK, CompletesApart, HolderOwns, SettlingDone, OwnerIsWorker, GivenUpLate,
                 EffectWithCompletion, ProcessingHasWorker
    <3>1. status' = status /\ owner' = owner /\ usurped' = usurped
      BY <2>2
    <3>2. CompletesApart'
      BY <2>1 DEF Inv, CompletesApart
    <3>3. HolderOwns'
      BY <2>1, <3>1 DEF Inv, HolderOwns
    <3>4. SettlingDone'
      BY <2>1, <3>1 DEF Inv, SettlingDone
    <3>5. QED
      BY <3>2, <3>3, <3>4
  <2>5. OwnerIsWorker' /\ GivenUpLate' /\ EffectWithCompletion'
    BY <2>2
  <2>6. ProcessingHasWorker'
    BY <2>1, <2>2, WorkerOf
  <2>7. QED
    BY <2>3, <2>4, <2>5, <2>6
<1>6. ASSUME NEW o \in Incarnations, NEW turn \in Turn, FinalizeTurn(o, turn) PROVE Inv'
  BY <1>6 DEF FinalizeTurn
<1>7. ASSUME NEW t \in Task, LeaseExpires(t) \/ BackoffEnds(t) PROVE Inv'
  <2>1. /\ leaseLive' \in [Task -> BOOLEAN] /\ available' \in [Task -> BOOLEAN]
        /\ UNCHANGED <<status, owner, attempts, effects, phase, recovering, todo, pc, usurped>>
    <3>1. CASE LeaseExpires(t)
      BY <3>1 DEF LeaseExpires
    <3>2. CASE BackoffEnds(t)
      BY <3>2 DEF BackoffEnds
    <3>3. QED
      BY <1>7, <3>1, <3>2
  <2>2. QED
    BY <2>1
<1>8. CASE UNCHANGED vars
  BY <1>8 DEF vars
<1>9. QED
  BY <1>1, <1>2, <1>3, <1>4, <1>5, <1>6, <1>7, <1>8

\* A claim takes a task that no worker holds.
LEMMA TakeStep ==
  ASSUME Inv, NEW w \in Workers, NEW t \in Task, Claimable(t), TakeRow(w, t),
         todo' \in SUBSET (Incarnations \X Task),
         UNCHANGED <<available, effects, phase, recovering, usurped>>
  PROVE  Inv'
<1> USE DEF Inv, TypeOK
<1>1. /\ pc' \in [Workers -> [Task -> Labels]]
      /\ pc'[w][t] = "claimed"
      /\ \A v \in Workers, u \in Task : v # w \/ u # t => pc'[v][u] = pc[v][u]
  BY GotoMoves DEF TakeRow, Labels
<1>2. /\ status[t] = "queued"
      /\ status' = [status EXCEPT ![t] = "processing"] /\ owner' = [owner EXCEPT ![t] = w]
      /\ leaseLive' = [leaseLive EXCEPT ![t] = TRUE] /\ attempts' = [attempts EXCEPT ![t] = @ + 1]
  BY DEF TakeRow, Claimable
<1>3. TypeOK'
  BY <1>1, <1>2 DEF Labels
<1>4. CompletesApart'
  BY <1>1 DEF CompletesApart
<1>5. HolderOwns'
  BY <1>1, <1>2 DEF HolderOwns, Owns
<1>6. SettlingDone'
  BY <1>1, <1>2 DEF SettlingDone, Owns
<1>7. OwnerIsWorker' /\ GivenUpLate'
  BY <1>2 DEF OwnerIsWorker, GivenUpLate
<1>8. EffectWithCompletion'
  BY <1>2 DEF EffectWithCompletion
<1>9. ProcessingHasWorker'
  BY <1>1, <1>2 DEF ProcessingHasWorker, Busy, OwnerIsWorker
<1>10. QED
  BY <1>3, <1>4, <1>5, <1>6, <1>7, <1>8, <1>9

\* The other claims and the heartbeat.
LEMMA ClaimStep ==
  ASSUME Inv, NEW o \in Incarnations, NEW t \in Task, Claim(o, t) \/ ClaimInline(o, t) \/ Heartbeat(o, t)
  PROVE  Inv'
<1>1. CASE Claim(o, t)
  BY <1>1, TakeStep, WorkersAre DEF Claim, Inv, TypeOK
<1>2. CASE ClaimInline(o, t)
  <2>1. CASE Claimable(t)
    BY <1>2, <2>1, TakeStep, WorkersAre DEF ClaimInline, Inv, TypeOK
  <2>2. CASE ~Claimable(t)
    BY <1>2, <2>2 DEF ClaimInline, Inv, TypeOK, CompletesApart, HolderOwns, SettlingDone, OwnerIsWorker,
                      GivenUpLate, EffectWithCompletion, ProcessingHasWorker, Owns, Busy
  <2>3. QED
    BY <2>1, <2>2
<1>3. CASE Heartbeat(o, t)
  <2>1. /\ leaseLive' \in [Task -> BOOLEAN]
        /\ UNCHANGED <<status, owner, attempts, available, effects, phase, recovering, todo, pc, usurped>>
    BY <1>3 DEF Heartbeat, Inv, TypeOK
  <2>2. QED
    BY <2>1 DEF Inv, TypeOK, CompletesApart, HolderOwns, SettlingDone, OwnerIsWorker,
                GivenUpLate, EffectWithCompletion, ProcessingHasWorker, Owns, Busy
<1>4. QED
  BY <1>1, <1>2, <1>3

-----------------------------------------------------------------------------
\* A worker's steps that leave the row of its task as it is.
LEMMA QuietStep ==
  ASSUME Inv, NEW w \in Workers, NEW t \in Task,
         \/ Begin(w, t) \/ CompletionRead(w, t) \/ Raise(w, t) \/ AfterThrow(w, t) \/ Settle(w, t)
         \/ Compress(w, t)
  PROVE  Inv'
<1> USE DEF Inv, TypeOK
<1>1. PICK label \in Labels : /\ Goto(w, t, label)
                              /\ label = "settling" => ~Owns(w, t)
                              /\ label \in {"compressed", "completing"} => Kind[t] = "compression"
                              /\ label # "idle" \/ (pc[w][t] = "settling" /\ label = "idle")
                              /\ t \notin usurped /\ label \notin {"idle", "settling"} => Owns(w, t)
  BY DEF Begin, CompletionRead, Raise, AfterThrow, Settle, Compress, Labels, HolderOwns, CompletesApart, SettlingDone
<1>2. /\ pc' \in [Workers -> [Task -> Labels]]
      /\ pc'[w][t] = label
      /\ \A v \in Workers, u \in Task : v # w \/ u # t => pc'[v][u] = pc[v][u]
  BY <1>1, GotoMoves DEF Labels
<1>3. UNCHANGED <<status, owner, leaseLive, attempts, available, phase, recovering, todo, usurped>>
  BY DEF Begin, CompletionRead, Raise, AfterThrow, Settle, Compress, rowVars
<1>4. /\ effects' \in [Task -> Nat]
      /\ \A u \in Task : Kind[u] # "compression" => effects'[u] = effects[u]
  BY DEF Begin, CompletionRead, Raise, AfterThrow, Settle, Compress, rowVars
<1>5. TypeOK'
  BY <1>2, <1>3, <1>4 DEF Labels
<1>6. CompletesApart'
  BY <1>1, <1>2 DEF CompletesApart
<1>7. HolderOwns'
  <2> HIDE DEF Inv, TypeOK
  <2>1. HolderOwns
    BY DEF Inv
  <2>2. ASSUME NEW u \in Task \ usurped, NEW v \in Workers, pc'[v][u] \notin {"idle", "settling"}
        PROVE  Owns(v, u)
    <3>1. CASE v = w /\ u = t
      BY <1>1, <1>2, <2>2, <3>1
    <3>2. CASE v # w \/ u # t
      BY <1>2, <2>1, <2>2, <3>2 DEF HolderOwns
    <3>3. QED
      BY <3>1, <3>2
  <2>3. QED
    BY <1>3, <2>2 DEF HolderOwns, Owns
<1>8. SettlingDone'
  BY <1>1, <1>2, <1>3 DEF SettlingDone, Owns
<1>9. OwnerIsWorker' /\ GivenUpLate'
  BY <1>3 DEF OwnerIsWorker, GivenUpLate
<1>10. EffectWithCompletion'
  BY <1>3, <1>4 DEF EffectWithCompletion
<1>11. ProcessingHasWorker'
  BY <1>1, <1>2, <1>3 DEF ProcessingHasWorker, Busy, OwnerIsWorker, SettlingDone, Owns
<1>12. QED
  BY <1>5, <1>6, <1>7, <1>8, <1>9, <1>10, <1>11

\* A worker's steps that close or requeue the row of its task: it was processing under its lease,
\* or has been taken from it.
LEMMA ClosingStep ==
  ASSUME Inv, NEW w \in Workers, NEW t \in Task,
         CommitEffect(w, t) \/ CompletionCommit(w, t) \/ MarkFailed(w, t)
  PROVE  Inv'
<1> USE DEF Inv, TypeOK
<1>1. Goto(w, t, "settling")
  BY DEF CommitEffect, CompletionCommit, MarkFailed
<1>2. /\ pc' \in [Workers -> [Task -> Labels]]
      /\ pc'[w][t] = "settling"
      /\ \A v \in Workers, u \in Task : v # w \/ u # t => pc'[v][u] = pc[v][u]
  BY <1>1, GotoMoves DEF Labels
<1>3. /\ owner' = [owner EXCEPT ![t] = NoOwner] /\ leaseLive' = [leaseLive EXCEPT ![t] = FALSE]
      /\ UNCHANGED <<attempts, phase, recovering, todo, usurped>>
  BY DEF CommitEffect, CompletionCommit, MarkFailed, Complete
<1>4. /\ available' \in [Task -> BOOLEAN]
      /\ effects' \in [Task -> Nat]
  <2>1. CASE CommitEffect(w, t) \/ CompletionCommit(w, t)
    BY <2>1 DEF CommitEffect, CompletionCommit
  <2>2. CASE MarkFailed(w, t)
    <3>1. (attempts[t] >= MaxAttempts) \in BOOLEAN
      OBVIOUS
    <3>2. available' = [available EXCEPT ![t] = attempts[t] >= MaxAttempts] /\ effects' = effects
      BY <2>2 DEF MarkFailed
    <3>3. QED
      BY <3>1, <3>2
  <2>3. QED
    BY <2>1, <2>2
<1>5. PICK s \in {"queued", "completed", "failed"} :
         /\ status' = [status EXCEPT ![t] = s]
         /\ s = "failed" => attempts[t] >= MaxAttempts
         /\ Kind[t] # "compression" => effects' = IF s = "completed" THEN [effects EXCEPT ![t] = @ + 1] ELSE effects
         /\ Kind[t] = "compression" => effects' = effects
  BY DEF CommitEffect, CompletionCommit, MarkFailed, Complete, CompletesApart
<1>6. t \notin usurped => Owns(w, t)
  BY DEF CommitEffect, CompletionCommit, MarkFailed, HolderOwns
<1>7. TypeOK'
  BY <1>2, <1>3, <1>4, <1>5 DEF Labels
<1>8. CompletesApart'
  BY <1>2 DEF CompletesApart
<1>9. HolderOwns'
  BY <1>2, <1>3, <1>5, <1>6 DEF HolderOwns, Owns
<1>10. SettlingDone'
  BY <1>2, <1>3, <1>5 DEF SettlingDone, Owns
<1>11. OwnerIsWorker' /\ GivenUpLate'
  BY <1>3, <1>5 DEF OwnerIsWorker, GivenUpLate
<1>12. EffectWithCompletion'
  BY <1>3, <1>5, <1>6 DEF EffectWithCompletion, Owns
<1>13. ProcessingHasWorker'
  BY <1>2, <1>3, <1>5 DEF ProcessingHasWorker, Busy, OwnerIsWorker
<1>14. QED
  BY <1>7, <1>8, <1>9, <1>10, <1>11, <1>12, <1>13

LEMMA InvStep == Inv /\ [Next]_vars => Inv'
<1> SUFFICES ASSUME Inv, [Next]_vars PROVE Inv'
  OBVIOUS
<1>1. ASSUME NEW o \in Incarnations, NEW t \in Task, Claim(o, t) \/ ClaimInline(o, t) \/ Heartbeat(o, t) PROVE Inv'
  BY <1>1, ClaimStep
<1>2. ASSUME NEW w \in Workers, NEW t \in Task, Work(w, t) PROVE Inv'
  BY <1>2, QuietStep, ClosingStep DEF Work
<1>3. QED
  BY <1>1, <1>2, ProcessStep DEF Next

LEMMA InvHolds == Spec => []Inv
  BY InitInv, InvStep, PTL DEF Spec

-----------------------------------------------------------------------------
\* The rows, the processes and the workers stay in their types.
THEOREM TypeCorrect == Spec => []TypeOK
  BY InvHolds, PTL DEF Inv

\* The effect of an asset link or of speech is stored exactly once, with the completion of its task,
\* whoever races for the task and however often it is retried, unless recovery took it from a worker
\* that a stopped process had left behind.
THEOREM EffectOnce == Spec => []EffectWithCompletion
  BY InvHolds, PTL DEF Inv

\* With the same exception, no two workers are at one task (claim, lease check, completion).
THEOREM OneWorker == Spec => []OneWorkerPerTask
<1>1. Inv => OneWorkerPerTask
  BY DEF Inv, HolderOwns, OneWorkerPerTask, Owns, Busy
<1>2. QED
  BY <1>1, InvHolds, PTL

\* A task in processing has a worker that is busy with it, or its process is dead.
THEOREM ProcessingIsWorked == Spec => []ProcessingHasWorker
  BY InvHolds, PTL DEF Inv

\* A task is given up only when all its attempts have been made (mark_post_commit_task_failed).
THEOREM GivenUpWhenSpent == Spec => []AttemptsSpent
<1>1. Inv => AttemptsSpent
  BY DEF Inv, GivenUpLate, AttemptsSpent
<1>2. QED
  BY <1>1, InvHolds, PTL
=============================================================================

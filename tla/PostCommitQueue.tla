--------------------------- MODULE PostCommitQueue ---------------------------
(***************************************************************************)
(* The durable tasks that follow a generated turn: asset links, speech and *)
(* scene compression, rows of post_commit_tasks.  They are queued by the   *)
(* transaction that stores the replies, claimed by compare-and-set either  *)
(* by the post-commit dispatcher or, for asset links, by the generation    *)
(* worker itself right after its commit, retried with a backoff and given  *)
(* up after max_attempts.  Processes come and go as in GenerationQueue.    *)
(***************************************************************************)
EXTENDS Naturals, FiniteSets

CONSTANTS
    Task,             \* tasks, identified by their unique_key
    Kind,             \* task_type of each task
    Turn,             \* generated turns
    TurnOf,           \* the turn whose transaction queues a task
    NumIncarnations,  \* bound on the number of times the backend is started
    MaxWorkers,       \* PostCommitDispatcher.max_workers
    MaxAttempts,      \* max_attempts of mark_post_commit_task_failed (5 in the source)
    Stoppable         \* bound: the incarnations that may be stopped in an orderly way, which
                      \* leaves their worker threads behind

Incarnations == 1..NumIncarnations
Pools == {"pool", "inline"}
Workers == Incarnations \X Pools   \* lease_owner: a dispatcher, or a generation worker
NoOwner == <<0, "none">>

ASSUME TasksAssumption ==
    /\ Kind \in [Task -> {"asset", "tts", "compression"}]
    /\ TurnOf \in [Task -> Turn]
    /\ NumIncarnations \in Nat
    /\ MaxWorkers \in Nat \ {0}
    /\ MaxAttempts \in Nat \ {0}
    /\ Stoppable \subseteq Incarnations

VARIABLES
    status,      \* task row: status, "absent" before the turn is committed
    owner,       \* task row: lease_owner
    leaseLive,   \* task row: lease_expires_at is in the future
    attempts,    \* task row: attempt_count
    available,   \* task row: available_at has come
    effects,     \* how many transactions have committed the effect of the task
    phase,       \* what each incarnation of the process is doing
    recovering,  \* tasks the startup hook has read as expired and not yet requeued
    todo,        \* asset tasks a generation worker of an incarnation is about to try inline
    pc,          \* what each worker does for a task
    usurped      \* history: tasks requeued although a worker of a stopped process had them in
                 \* hand when recovery read their expired lease

rowVars == <<status, owner, leaseLive, attempts, available>>
vars == <<status, owner, leaseLive, attempts, available, effects, phase, recovering, todo, pc, usurped>>

Terminal == {"completed", "failed"}
Holds(o) == phase[o] \in {"starting", "recovering", "up"}
Up(o) == phase[o] = "up"
Alive(o) == phase[o] \in {"up", "draining"}
Serving == \E o \in Incarnations : Up(o)
Busy(w, t) == pc[w][t] # "idle"

TypeOK ==
    /\ status \in [Task -> {"absent", "queued", "processing", "completed", "failed"}]
    /\ owner \in [Task -> Workers \union {NoOwner}]
    /\ leaseLive \in [Task -> BOOLEAN]
    /\ attempts \in [Task -> Nat]
    /\ available \in [Task -> BOOLEAN]
    /\ effects \in [Task -> Nat]
    /\ phase \in [Incarnations -> {"off", "starting", "recovering", "up", "draining", "dead"}]
    /\ recovering \in SUBSET Task
    /\ todo \in SUBSET (Incarnations \X Task)
    /\ pc \in [Workers -> [Task -> {"idle", "claimed", "working", "compressed", "completing",
                                    "thrown", "failing", "settling"}]]
    /\ usurped \in SUBSET Task

Init ==
    /\ status = [t \in Task |-> "absent"]
    /\ owner = [t \in Task |-> NoOwner]
    /\ leaseLive = [t \in Task |-> FALSE]
    /\ attempts = [t \in Task |-> 0]
    /\ available = [t \in Task |-> TRUE]
    /\ effects = [t \in Task |-> 0]
    /\ phase = [o \in Incarnations |-> "off"]
    /\ recovering = {}
    /\ todo = {}
    /\ pc = [w \in Workers |-> [t \in Task |-> "idle"]]
    /\ usurped = {}

Goto(w, t, label) == pc' = [pc EXCEPT ![w][t] = label]

-----------------------------------------------------------------------------
(* The process, as in GenerationQueue.                                     *)

Start(o) ==
    /\ phase[o] = "off"
    /\ \A p \in Incarnations : ~Holds(p) /\ (p < o => phase[p] # "off")
    /\ phase' = [phase EXCEPT ![o] = "starting"]
    /\ UNCHANGED <<rowVars, effects, recovering, todo, pc, usurped>>

\* requeue_expired_post_commit_tasks: the read ...
RecoverRead(o) ==
    /\ phase[o] = "starting"
    /\ phase' = [phase EXCEPT ![o] = "recovering"]
    /\ recovering' = {t \in Task : status[t] = "processing" /\ ~leaseLive[t]}
    /\ UNCHANGED <<rowVars, effects, todo, pc, usurped>>

\* ... and the commit, after which the dispatcher runs and requests are served.
RecoverCommit(o) ==
    /\ phase[o] = "recovering"
    /\ phase' = [phase EXCEPT ![o] = "up"]
    /\ status' = [t \in Task |-> IF t \in recovering THEN "queued" ELSE status[t]]
    /\ owner' = [t \in Task |-> IF t \in recovering THEN NoOwner ELSE owner[t]]
    /\ leaseLive' = [t \in Task |-> leaseLive[t] /\ t \notin recovering]
    /\ available' = [t \in Task |-> available[t] \/ t \in recovering]
    /\ recovering' = {}
    /\ usurped' = usurped \union {t \in recovering :
          status[t] # "processing" \/ \E w \in Workers : Busy(w, t)}
    /\ UNCHANGED <<attempts, effects, todo, pc>>

Stop(o) ==
    /\ o \in Stoppable
    /\ Up(o)
    /\ phase' = [phase EXCEPT ![o] = "draining"]
    /\ UNCHANGED <<rowVars, effects, recovering, todo, pc, usurped>>

\* Only the database survives: the inline work list of the process is gone too.
Crash(o) ==
    /\ phase[o] \notin {"off", "dead"}
    /\ phase' = [phase EXCEPT ![o] = "dead"]
    /\ pc' = [w \in Workers |-> IF w[1] = o THEN [t \in Task |-> "idle"] ELSE pc[w]]
    /\ recovering' = IF Holds(o) THEN {} ELSE recovering
    /\ todo' = {work \in todo : work[1] # o}
    /\ UNCHANGED <<rowVars, effects, usurped>>

LeaseExpires(t) ==
    /\ status[t] = "processing"
    /\ leaseLive[t]
    /\ leaseLive' = [leaseLive EXCEPT ![t] = FALSE]
    /\ UNCHANGED <<status, owner, attempts, available, effects, phase, recovering, todo, pc, usurped>>

\* available_at = now + min(300, 2 ** attempt_count) s comes.
BackoffEnds(t) ==
    /\ ~available[t]
    /\ available' = [available EXCEPT ![t] = TRUE]
    /\ UNCHANGED <<status, owner, leaseLive, attempts, effects, phase, recovering, todo, pc, usurped>>

-----------------------------------------------------------------------------
(* Queueing and claiming.                                                  *)

\* enqueue_post_commit_task, for all tasks of a turn in the transaction that stores its
\* replies; the worker, of an incarnation that may be draining, then goes through the
\* asset tasks inline.
FinalizeTurn(o, turn) ==
    LET new == {t \in Task : TurnOf[t] = turn /\ status[t] = "absent"}
    IN  /\ Alive(o)
        /\ new # {}
        /\ status' = [t \in Task |-> IF t \in new THEN "queued" ELSE status[t]]
        /\ todo' = todo \union {<<o, t>> : t \in {u \in new : Kind[u] = "asset"}}
        /\ UNCHANGED <<owner, leaseLive, attempts, available, effects, phase, recovering, pc, usurped>>

\* Faulty variant of Claimable: a task in processing may be taken over.
ClaimableIfOpen(t) == status[t] \in {"queued", "processing"} /\ available[t]

\* The UPDATE of both claims, conditional on the row.
Claimable(t) == status[t] = "queued" /\ available[t]

\* Faulty variant of TakeRow: the attempt is not counted.
TakeRowUncounted(w, t) ==
    /\ status' = [status EXCEPT ![t] = "processing"]
    /\ owner' = [owner EXCEPT ![t] = w]
    /\ leaseLive' = [leaseLive EXCEPT ![t] = TRUE]
    /\ Goto(w, t, "claimed")
    /\ UNCHANGED attempts
TakeRow(w, t) ==
    /\ status' = [status EXCEPT ![t] = "processing"]
    /\ owner' = [owner EXCEPT ![t] = w]
    /\ leaseLive' = [leaseLive EXCEPT ![t] = TRUE]
    /\ attempts' = [attempts EXCEPT ![t] = @ + 1]
    /\ Goto(w, t, "claimed")

\* claim_next_post_commit_task with a free slot.  Candidates come in the order of
\* available_at; as every one of them is taken in time, any order is allowed here.
Claim(o, t) ==
    /\ Up(o)
    /\ Claimable(t)
    /\ Cardinality({u \in Task : Busy(<<o, "pool">>, u)}) < MaxWorkers
    /\ TakeRow(<<o, "pool">>, t)
    /\ UNCHANGED <<available, effects, phase, recovering, todo, usurped>>

\* claim_post_commit_task_by_unique_key, by the generation worker; it skips a task that
\* the dispatcher was quicker to take.
ClaimInline(o, t) ==
    /\ Alive(o)
    /\ <<o, t>> \in todo
    /\ todo' = todo \ {<<o, t>>}
    /\ IF Claimable(t) THEN TakeRow(<<o, "inline">>, t)
       ELSE UNCHANGED <<status, owner, leaseLive, attempts, pc>>
    /\ UNCHANGED <<available, effects, phase, recovering, usurped>>

\* heartbeat_post_commit_task: the dispatcher renews its leases, an inline claim has none.
Heartbeat(o, t) ==
    /\ Busy(<<o, "pool">>, t)
    /\ status[t] = "processing"
    /\ owner[t] = <<o, "pool">>
    /\ ~leaseLive[t]
    /\ leaseLive' = [leaseLive EXCEPT ![t] = TRUE]
    /\ UNCHANGED <<status, owner, attempts, available, effects, phase, recovering, todo, pc, usurped>>

-----------------------------------------------------------------------------
(* Execution: _execute_claimed_post_commit_task and the handlers around it. *)

Owns(w, t) == status[t] = "processing" /\ owner[t] = w

\* The worker loads the row and checks its lease.
Begin(w, t) ==
    /\ pc[w][t] = "claimed"
    /\ Goto(w, t, IF Owns(w, t) THEN "working" ELSE "thrown")
    /\ UNCHANGED <<rowVars, effects, phase, recovering, todo, usurped>>

\* mark_post_commit_task_completed, the update of the row.
Complete(t) ==
    /\ status' = [status EXCEPT ![t] = "completed"]
    /\ owner' = [owner EXCEPT ![t] = NoOwner]
    /\ leaseLive' = [leaseLive EXCEPT ![t] = FALSE]

\* Asset and speech: the effect and the completion are one transaction.  The lease is
\* checked on the row as Begin loaded it; the message may be gone, and nothing to do.
CommitEffect(w, t) ==
    /\ pc[w][t] = "working"
    /\ Kind[t] \in {"asset", "tts"}
    /\ Complete(t)
    /\ effects' = [effects EXCEPT ![t] = @ + 1]
    /\ Goto(w, t, "settling")
    /\ UNCHANGED <<attempts, available, phase, recovering, todo, usurped>>

\* Compression commits its own result, or finds nothing to fold; the completion of the
\* task is a transaction of its own.
Compress(w, t) ==
    /\ pc[w][t] = "working"
    /\ Kind[t] = "compression"
    /\ effects' \in {effects, [effects EXCEPT ![t] = @ + 1]}
    /\ Goto(w, t, "compressed")
    /\ UNCHANGED <<rowVars, phase, recovering, todo, usurped>>

\* It reads the row again before it completes it.
CompletionRead(w, t) ==
    /\ pc[w][t] = "compressed"
    /\ Goto(w, t, IF Owns(w, t) THEN "completing" ELSE "thrown")
    /\ UNCHANGED <<rowVars, effects, phase, recovering, todo, usurped>>

CompletionCommit(w, t) ==
    /\ pc[w][t] = "completing"
    /\ Complete(t)
    /\ Goto(w, t, "settling")
    /\ UNCHANGED <<attempts, available, effects, phase, recovering, todo, usurped>>

\* The handler raises, or its commit fails; the session is rolled back.
Raise(w, t) ==
    /\ pc[w][t] \in {"working", "compressed", "completing"}
    /\ Goto(w, t, "thrown")
    /\ UNCHANGED <<rowVars, effects, phase, recovering, todo, usurped>>

\* Faulty variant of AfterThrow: only the dispatcher cleans up after an error.
AfterThrowInPoolOnly(w, t) ==
    /\ pc[w][t] = "thrown"
    /\ Goto(w, t, IF w[2] = "pool" /\ Owns(w, t) THEN "failing" ELSE "settling")
    /\ UNCHANGED <<rowVars, effects, phase, recovering, todo, usurped>>

\* The except branches: a task still under this lease is about to be marked failed.
AfterThrow(w, t) ==
    /\ pc[w][t] = "thrown"
    /\ Goto(w, t, IF Owns(w, t) THEN "failing" ELSE "settling")
    /\ UNCHANGED <<rowVars, effects, phase, recovering, todo, usurped>>

\* mark_post_commit_task_failed: back to the queue with a backoff, or given up.
MarkFailed(w, t) ==
    /\ pc[w][t] = "failing"
    /\ status' = [status EXCEPT ![t] = IF attempts[t] >= MaxAttempts THEN "failed" ELSE "queued"]
    /\ available' = [available EXCEPT ![t] = attempts[t] >= MaxAttempts]
    /\ owner' = [owner EXCEPT ![t] = NoOwner]
    /\ leaseLive' = [leaseLive EXCEPT ![t] = FALSE]
    /\ Goto(w, t, "settling")
    /\ UNCHANGED <<attempts, effects, phase, recovering, todo, usurped>>

\* The finally block of the dispatcher's worker; inline there is none, and nothing is left.
Settle(w, t) ==
    /\ pc[w][t] = "settling"
    /\ Goto(w, t, IF w[2] = "pool" /\ Owns(w, t) THEN "failing" ELSE "idle")
    /\ UNCHANGED <<rowVars, effects, phase, recovering, todo, usurped>>

Work(w, t) ==
    \/ Begin(w, t) \/ CommitEffect(w, t) \/ Compress(w, t) \/ CompletionRead(w, t)
    \/ CompletionCommit(w, t) \/ Raise(w, t) \/ AfterThrow(w, t) \/ MarkFailed(w, t)
    \/ Settle(w, t)

-----------------------------------------------------------------------------
Next ==
    \/ \E o \in Incarnations :
          Start(o) \/ RecoverRead(o) \/ RecoverCommit(o) \/ Stop(o) \/ Crash(o)
    \/ \E o \in Incarnations, turn \in Turn : FinalizeTurn(o, turn)
    \/ \E t \in Task : LeaseExpires(t) \/ BackoffEnds(t)
    \/ \E o \in Incarnations, t \in Task : Claim(o, t) \/ ClaimInline(o, t) \/ Heartbeat(o, t)
    \/ \E w \in Workers, t \in Task : Work(w, t)

Spec == Init /\ [][Next]_vars

\* As in GenerationQueue: the process is restarted, its threads get on with their work,
\* a backoff ends.
Fairness ==
    /\ \A o \in Incarnations :
          WF_vars(Start(o)) /\ WF_vars(RecoverRead(o)) /\ WF_vars(RecoverCommit(o))
    /\ \A t \in Task : WF_vars(BackoffEnds(t))
    /\ \A o \in Incarnations, t \in Task : WF_vars(Claim(o, t)) /\ WF_vars(ClaimInline(o, t))
    /\ \A w \in Workers, t \in Task : WF_vars(Work(w, t))

FairSpec == Spec /\ Fairness

-----------------------------------------------------------------------------
(* Properties.                                                             *)

\* Unless recovery took a task from a worker that was left behind, the dispatcher and the
\* inline worker that race for an asset link, and every retry after an error or a crash,
\* commit the effect of an asset or speech task exactly when they complete it, once.
EffectWithCompletion ==
    \A t \in Task \ usurped : Kind[t] # "compression" =>
        effects[t] = IF status[t] = "completed" THEN 1 ELSE 0

\* Under the same condition no two workers are busy with one task at a time.
OneWorkerPerTask ==
    \A t \in Task \ usurped, v, w \in Workers :
        pc[v][t] \in {"working", "compressed", "completing"} /\ Busy(w, t)
        /\ pc[w][t] # "settling" => v = w

\* A task is given up only after all its attempts, whichever worker of which process made
\* them (mark_post_commit_task_failed compares the count of the row it has loaded).
AttemptsSpent == \A t \in Task : status[t] = "failed" => attempts[t] >= MaxAttempts

\* A task in processing has a worker that is busy with it, or its process is dead.
ProcessingHasWorker ==
    \A t \in Task : status[t] = "processing" =>
        Busy(owner[t], t) \/ phase[owner[t][1]] = "dead"

\* If the server is eventually up for good, a queued task is completed or given up, unless
\* a process has died over it while its lease was live (it then stays in processing).
Orphaned(t) == status[t] = "processing" /\ ~Busy(owner[t], t)
QueuedTaskSettles ==
    <>[]Serving =>
        \A t \in Task : status[t] = "queued" ~> status[t] \in Terminal \/ Orphaned(t)
=============================================================================

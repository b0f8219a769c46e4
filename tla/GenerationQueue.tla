---------------------------- MODULE GenerationQueue ----------------------------
(***************************************************************************)
(* The durable generation queue of apps/api: rows of                       *)
(* message_generation_jobs, the dispatcher thread that claims them, the    *)
(* worker threads that answer them, the HTTP handlers that create and      *)
(* cancel them, and the process incarnations that come and go.             *)
(*                                                                         *)
(* A handler reads rows outside a transaction (pysqlite opens one at the   *)
(* first write only) and commits later, so every handler is a reading step *)
(* and a writing step, and other actors may commit between the two.  The   *)
(* claim and the heartbeat are compare-and-set UPDATEs.                    *)
(*                                                                         *)
(* An incarnation is one run of the backend process; its number stands for *)
(* the lease_owner string, fresh for each process.  0 stands for NULL.     *)
(***************************************************************************)
EXTENDS Naturals, FiniteSets

CONSTANTS
    NumJobs,          \* jobs are 1..NumJobs; the number is the (created_at, id) key
    Conversation,     \* the chat rooms
    ConvOf,           \* the room of each job
    NumIncarnations,  \* bound on the number of times the backend is started
    MaxWorkers,       \* GenerationDispatcher.max_workers
    CandidateLimit,   \* rows examined by one claim (100 in the source)
    Draining,         \* TRUE: an orderly stop, which leaves worker threads behind, may happen
    Cancellable,      \* bound: the jobs whose cancellation a user may ask for
    Deletable         \* bound: the jobs whose incoming message a user may delete

Jobs == 1..NumJobs
Incarnations == 1..NumIncarnations

ASSUME QueueAssumption ==
    /\ NumJobs \in Nat
    /\ NumIncarnations \in Nat
    /\ ConvOf \in [Jobs -> Conversation]
    /\ MaxWorkers \in Nat \ {0}
    /\ CandidateLimit \in Nat \ {0}
    /\ Draining \in BOOLEAN
    /\ Cancellable \subseteq Jobs
    /\ Deletable \subseteq Jobs

VARIABLES
    status,      \* job row: status; "absent" before the row is committed
    owner,       \* job row: lease_owner
    leaseLive,   \* job row: lease_expires_at is in the future
    cancelReq,   \* job row: cancel_requested_at is set
    source,      \* the incoming user message of the job exists
    replies,     \* the incarnation whose attempt inserted the reply bubbles
    phase,       \* what each incarnation of the process is doing
    recovering,  \* jobs the startup hook has read as expired and not yet requeued
    pick,        \* job the dispatcher is about to claim
    canceller,   \* status a cancel request has read and not yet acted on
    pc,          \* the worker thread of an incarnation for a job
    ahead        \* history: jobs of the room that were waiting when a job was accepted

jobVars == <<status, owner, leaseLive, cancelReq>>
vars == <<status, owner, leaseLive, cancelReq, source, replies, phase,
          recovering, pick, canceller, pc, ahead>>

Terminal == {"completed", "failed", "cancelled"}
Status == {"absent", "queued", "running"} \union Terminal
Phase == {"off", "starting", "recovering", "up", "draining", "dead"}
WorkerPc == {"idle", "claimed", "refusing", "generating", "finalizing", "adopting",
             "cancelling", "returned", "completing", "raised", "failing", "thrown",
             "settling", "closeFailed", "closeCancelled"}

\* The incarnations that hold the runtime lock file, and the one that serves requests.
Holds(o) == phase[o] \in {"starting", "recovering", "up"}
Up(o) == phase[o] = "up"
Serving == \E o \in Incarnations : Up(o)

SameRoom(j, k) == ConvOf[j] = ConvOf[k]
Working(o, j) == pc[o][j] # "idle"

TypeOK ==
    /\ status \in [Jobs -> Status]
    /\ owner \in [Jobs -> 0..NumIncarnations]
    /\ leaseLive \in [Jobs -> BOOLEAN]
    /\ cancelReq \in [Jobs -> BOOLEAN]
    /\ source \in [Jobs -> BOOLEAN]
    /\ replies \in [Jobs -> 0..NumIncarnations]
    /\ phase \in [Incarnations -> Phase]
    /\ recovering \in SUBSET Jobs
    /\ pick \in 0..NumJobs
    /\ canceller \in [Jobs -> {"none", "queued", "running"}]
    /\ pc \in [Incarnations -> [Jobs -> WorkerPc]]
    /\ ahead \in [Jobs -> SUBSET Jobs]

Init ==
    /\ status = [j \in Jobs |-> "absent"]
    /\ owner = [j \in Jobs |-> 0]
    /\ leaseLive = [j \in Jobs |-> FALSE]
    /\ cancelReq = [j \in Jobs |-> FALSE]
    /\ source = [j \in Jobs |-> FALSE]
    /\ replies = [j \in Jobs |-> 0]
    /\ phase = [o \in Incarnations |-> "off"]
    /\ recovering = {}
    /\ pick = 0
    /\ canceller = [j \in Jobs |-> "none"]
    /\ pc = [o \in Incarnations |-> [j \in Jobs |-> "idle"]]
    /\ ahead = [j \in Jobs |-> {}]

-----------------------------------------------------------------------------
(* Row updates shared by the handlers.  A terminal write clears the lease  *)
(* its handler has read; a lease taken in between may survive in a closed  *)
(* row, where nobody reads it: here it is cleared with the others.         *)

SetTerminal(j, s) ==
    /\ status' = [status EXCEPT ![j] = s]
    /\ owner' = [owner EXCEPT ![j] = 0]
    /\ leaseLive' = [leaseLive EXCEPT ![j] = FALSE]

Goto(o, j, label) == pc' = [pc EXCEPT ![o][j] = label]

-----------------------------------------------------------------------------
(* The process: start, startup recovery, orderly stop, crash.              *)

\* lifespan: the runtime lock admits one holder; a stopped or dead process has let go of it.
Start(o) ==
    /\ phase[o] = "off"
    /\ \A p \in Incarnations : ~Holds(p) /\ (p < o => phase[p] # "off")
    /\ phase' = [phase EXCEPT ![o] = "starting"]
    /\ UNCHANGED <<jobVars, source, replies, recovering, pick, canceller, pc, ahead>>

\* requeue_expired_message_generation_jobs, the SELECT and the filter on the lease.
\* lifespan and GenerationDispatcher.start call it back to back, before any request
\* is served: one read and one write stand for both calls.
RecoverRead(o) ==
    /\ phase[o] = "starting"
    /\ phase' = [phase EXCEPT ![o] = "recovering"]
    /\ recovering' = {j \in Jobs : status[j] = "running" /\ ~leaseLive[j]}
    /\ UNCHANGED <<jobVars, source, replies, pick, canceller, pc, ahead>>

\* ... and its commit: an UPDATE by primary key, with no condition on the row.
\* The dispatcher thread and the HTTP server then start.
RecoverCommit(o) ==
    /\ phase[o] = "recovering"
    /\ phase' = [phase EXCEPT ![o] = "up"]
    /\ status' = [j \in Jobs |-> IF j \in recovering THEN "queued" ELSE status[j]]
    /\ owner' = [j \in Jobs |-> IF j \in recovering THEN 0 ELSE owner[j]]
    /\ leaseLive' = [j \in Jobs |-> leaseLive[j] /\ j \notin recovering]
    /\ recovering' = {}
    /\ UNCHANGED <<cancelReq, source, replies, pick, canceller, pc, ahead>>

\* GenerationDispatcher.stop at shutdown: requests in flight have ended and the
\* dispatcher thread has been joined; shutdown(wait=False) leaves the workers running.
Stop(o) ==
    /\ Draining
    /\ Up(o)
    /\ pick = 0
    /\ \A j \in Jobs : canceller[j] = "none"
    /\ phase' = [phase EXCEPT ![o] = "draining"]
    /\ UNCHANGED <<jobVars, source, replies, recovering, pick, canceller, pc, ahead>>

\* The process disappears with its threads; only the database stays.
Crash(o) ==
    /\ phase[o] \notin {"off", "dead"}
    /\ phase' = [phase EXCEPT ![o] = "dead"]
    /\ pc' = [pc EXCEPT ![o] = [j \in Jobs |-> "idle"]]
    /\ IF Holds(o)
       THEN /\ recovering' = {}
            /\ pick' = 0
            /\ canceller' = [j \in Jobs |-> "none"]
       ELSE UNCHANGED <<recovering, pick, canceller>>
    /\ UNCHANGED <<jobVars, source, replies, ahead>>

\* 180 s pass without a renewal: the owner is gone, suspended, or its heartbeat
\* thread died of a database error.
LeaseExpires(j) ==
    /\ status[j] = "running"
    /\ leaseLive[j]
    /\ leaseLive' = [leaseLive EXCEPT ![j] = FALSE]
    /\ UNCHANGED <<status, owner, cancelReq, source, replies, phase, recovering,
                   pick, canceller, pc, ahead>>

-----------------------------------------------------------------------------
(* HTTP handlers.                                                          *)

\* create_message_generation_job.  created_at is taken before the commit, so rows
\* of concurrent requests may appear in any order of their keys.
Enqueue(j) ==
    /\ Serving
    /\ status[j] = "absent"
    /\ status' = [status EXCEPT ![j] = "queued"]
    /\ source' = [source EXCEPT ![j] = TRUE]
    /\ ahead' = [ahead EXCEPT ![j] =
                   {k \in 1..(j - 1) : SameRoom(j, k) /\ status[k] \in {"queued", "running"}}]
    /\ UNCHANGED <<owner, leaseLive, cancelReq, replies, phase, recovering, pick,
                   canceller, pc>>

\* delete_message of the message a job answers.
DeleteSource(j) ==
    /\ j \in Deletable
    /\ Serving
    /\ source[j]
    /\ source' = [source EXCEPT ![j] = FALSE]
    /\ UNCHANGED <<jobVars, replies, phase, recovering, pick, canceller, pc, ahead>>

\* cancel_message_generation_job loads the row; a terminal job is returned as it is.
CancelRead(j) ==
    /\ j \in Cancellable
    /\ Serving
    /\ status[j] \in {"queued", "running"}
    /\ canceller[j] = "none"
    /\ canceller' = [canceller EXCEPT ![j] = status[j]]
    /\ UNCHANGED <<jobVars, source, replies, phase, recovering, pick, pc, ahead>>

\* Faulty variant of CancelCommit: any job is closed at once and no request is left for its
\* worker.
CancelCommitSilent(j) ==
    /\ canceller[j] # "none"
    /\ canceller' = [canceller EXCEPT ![j] = "none"]
    /\ SetTerminal(j, "cancelled")
    /\ UNCHANGED <<cancelReq, source, replies, phase, recovering, pick, pc, ahead>>

\* request_message_generation_job_cancel commits what it decided from that row.
CancelCommit(j) ==
    /\ canceller[j] # "none"
    /\ canceller' = [canceller EXCEPT ![j] = "none"]
    /\ cancelReq' = [cancelReq EXCEPT ![j] = TRUE]
    /\ IF canceller[j] = "queued"
       THEN SetTerminal(j, "cancelled")
       ELSE UNCHANGED <<status, owner, leaseLive>>
    /\ UNCHANGED <<source, replies, phase, recovering, pick, pc, ahead>>

-----------------------------------------------------------------------------
(* The dispatcher thread: claim_next_message_generation_job.               *)

Claimable == {j \in Jobs : status[j] = "queued" /\ ~cancelReq[j]}
Candidates ==
    {j \in Claimable : Cardinality({k \in Claimable : k < j}) < CandidateLimit}

\* Faulty variants of Blocked: running jobs are overlooked, the order of the keys is
\* overlooked, every unfinished job of the room counts whatever its key.
BlockedByQueuedOnly(j) == \E k \in Jobs : SameRoom(j, k) /\ status[k] = "queued" /\ k < j
BlockedByRunningOnly(j) == \E k \in Jobs : k # j /\ SameRoom(j, k) /\ status[k] = "running"
BlockedByAny(j) ==
    \E k \in Jobs : k # j /\ SameRoom(j, k) /\ status[k] \in {"queued", "running"}

\* Another job of the room is running, or is queued with a smaller key.
Blocked(j) ==
    \E k \in Jobs : /\ k # j
                    /\ SameRoom(j, k)
                    /\ \/ status[k] = "running"
                       \/ status[k] = "queued" /\ k < j

Eligible == {j \in Candidates : ~Blocked(j)}
SlotFree(o) == Cardinality({j \in Jobs : Working(o, j)}) < MaxWorkers

\* _dispatch_loop with a free slot: the SELECTs settle on the first unblocked candidate.
Scan(o) ==
    /\ Up(o)
    /\ pick = 0
    /\ SlotFree(o)
    /\ \E j \in Eligible :
          /\ \A k \in Eligible : j <= k
          /\ pick' = j
    /\ UNCHANGED <<jobVars, source, replies, phase, recovering, canceller, pc, ahead>>

\* Faulty variant of Claim: the dispatcher has no executor any more and drops the job.
ClaimWithoutWorker(o) ==
    /\ Up(o)
    /\ pick # 0
    /\ pick \in Claimable
    /\ status' = [status EXCEPT ![pick] = "running"]
    /\ owner' = [owner EXCEPT ![pick] = o]
    /\ leaseLive' = [leaseLive EXCEPT ![pick] = TRUE]
    /\ pick' = 0
    /\ UNCHANGED <<cancelReq, source, replies, phase, recovering, canceller, pc, ahead>>

\* The compare-and-set UPDATE hits its row; the job goes to a worker thread.
Claim(o) ==
    /\ Up(o)
    /\ pick # 0
    /\ pick \in Claimable
    /\ status' = [status EXCEPT ![pick] = "running"]
    /\ owner' = [owner EXCEPT ![pick] = o]
    /\ leaseLive' = [leaseLive EXCEPT ![pick] = TRUE]
    /\ Goto(o, pick, "claimed")
    /\ pick' = 0
    /\ UNCHANGED <<cancelReq, source, replies, phase, recovering, canceller, ahead>>

\* It misses: rollback; the next scan looks again.
ClaimLost(o) ==
    /\ Up(o)
    /\ pick # 0
    /\ pick \notin Claimable
    /\ pick' = 0
    /\ UNCHANGED <<jobVars, source, replies, phase, recovering, canceller, pc, ahead>>

-----------------------------------------------------------------------------
(* A worker thread: _run_claimed_job around _run_message_generation_job.   *)

\* heartbeat_message_generation_job, on a thread of its own beside the worker.
Heartbeat(o, j) ==
    /\ Working(o, j)
    /\ status[j] = "running"
    /\ owner[j] = o
    /\ ~leaseLive[j]
    /\ leaseLive' = [leaseLive EXCEPT ![j] = TRUE]
    /\ UNCHANGED <<status, owner, cancelReq, source, replies, phase, recovering,
                   pick, canceller, pc, ahead>>

\* The runner's first look at the job, with its early returns.
Begin(o, j) ==
    /\ pc[o][j] = "claimed"
    /\ Goto(o, j, IF status[j] # "running" \/ owner[j] # o THEN "settling"
                  ELSE IF cancelReq[j] THEN "refusing"
                  ELSE IF ~source[j] THEN "failing"
                  ELSE "generating")
    /\ UNCHANGED <<jobVars, source, replies, phase, recovering, pick, canceller, ahead>>

\* generate_replies_from_message ends: it raises (model, context maintenance,
\* database), or the room has no character and there is nothing to say.
GenerationEnds(o, j) ==
    /\ pc[o][j] = "generating"
    /\ \/ Goto(o, j, "raised")
       \/ Goto(o, j, "returned")
    /\ UNCHANGED <<jobVars, source, replies, phase, recovering, pick, canceller, ahead>>

\* Faulty variant of FinalizeRead: the cancellation is not looked at again.
FinalizeReadIgnoringCancel(o, j) ==
    /\ pc[o][j] = "generating"
    /\ Goto(o, j, IF replies[j] # 0 THEN "adopting"
                  ELSE IF ~source[j] THEN "raised" ELSE "finalizing")
    /\ UNCHANGED <<jobVars, source, replies, phase, recovering, pick, canceller, ahead>>

\* The bubbles are ready: the finalization session reads the job, the replies that
\* are already stored for it, and the source message.
FinalizeRead(o, j) ==
    /\ pc[o][j] = "generating"
    /\ Goto(o, j, IF cancelReq[j] THEN "cancelling"
                  ELSE IF replies[j] # 0
                       THEN IF status[j] = "completed" THEN "returned" ELSE "adopting"
                  ELSE IF ~source[j] THEN "raised"
                  ELSE "finalizing")
    /\ UNCHANGED <<jobVars, source, replies, phase, recovering, pick, canceller, ahead>>

\* finalize_message_generation_turn commits bubbles, tasks and status together,
\* with no condition on the status or the owner of the job.  What follows the commit
\* (refreshing the rows, the inline tasks of the turn) may still raise.
FinalizeCommit(o, j) ==
    /\ pc[o][j] = "finalizing"
    /\ replies[j] = 0
    /\ replies' = [replies EXCEPT ![j] = o]
    /\ SetTerminal(j, "completed")
    /\ \/ Goto(o, j, "returned")
       \/ Goto(o, j, "raised")
    /\ UNCHANGED <<cancelReq, source, phase, recovering, pick, canceller, ahead>>

\* The transaction is rolled back: uq_messages_generation_reply refuses a second set
\* of bubbles, the source row to update is gone, or the commit fails.
FinalizeRollback(o, j) ==
    /\ pc[o][j] = "finalizing"
    /\ Goto(o, j, "raised")
    /\ UNCHANGED <<jobVars, source, replies, phase, recovering, pick, canceller, ahead>>

\* The success path looks again and completes a job that is still running.
AfterReturn(o, j) ==
    /\ pc[o][j] = "returned"
    /\ Goto(o, j, IF status[j] = "running" THEN "completing" ELSE "settling")
    /\ UNCHANGED <<jobVars, source, replies, phase, recovering, pick, canceller, ahead>>

\* Faulty variant of AfterRaise: any error fails the job.
AfterRaiseAlwaysFailing(o, j) ==
    /\ pc[o][j] = "raised"
    /\ Goto(o, j, "failing")
    /\ UNCHANGED <<jobVars, source, replies, phase, recovering, pick, canceller, ahead>>

\* The except branch: a completed job is left alone, a running one is failed.
AfterRaise(o, j) ==
    /\ pc[o][j] = "raised"
    /\ Goto(o, j, IF status[j] = "running" THEN "failing" ELSE "settling")
    /\ UNCHANGED <<jobVars, source, replies, phase, recovering, pick, canceller, ahead>>

\* mark_message_generation_job_completed / _failed / _cancelled: commits by primary
\* key of a decision taken at the previous read, in the runner or in the dispatcher.
Mark(o, j) ==
    /\ \/ pc[o][j] = "completing" /\ SetTerminal(j, "completed") /\ Goto(o, j, "settling")
       \/ pc[o][j] = "adopting" /\ SetTerminal(j, "completed") /\ Goto(o, j, "returned")
       \/ pc[o][j] = "cancelling" /\ SetTerminal(j, "cancelled") /\ Goto(o, j, "returned")
       \/ pc[o][j] = "refusing" /\ SetTerminal(j, "cancelled") /\ Goto(o, j, "settling")
       \/ pc[o][j] = "failing" /\ SetTerminal(j, "failed") /\ Goto(o, j, "settling")
       \/ pc[o][j] = "closeFailed" /\ SetTerminal(j, "failed") /\ Goto(o, j, "settling")
       \/ pc[o][j] = "closeCancelled" /\ SetTerminal(j, "cancelled") /\ Goto(o, j, "settling")
    /\ UNCHANGED <<cancelReq, source, replies, phase, recovering, pick, canceller, ahead>>

\* Such a commit of the runner fails (the database stays locked): inside its try block
\* the except branch follows, outside it the error reaches the dispatcher.
MarkFails(o, j) ==
    /\ \/ pc[o][j] \in {"completing", "adopting", "cancelling"} /\ Goto(o, j, "raised")
       \/ pc[o][j] \in {"refusing", "failing"} /\ Goto(o, j, "thrown")
    /\ UNCHANGED <<jobVars, source, replies, phase, recovering, pick, canceller, ahead>>

\* The except branch of _run_claimed_job.
AfterThrow(o, j) ==
    /\ pc[o][j] = "thrown"
    /\ Goto(o, j, IF status[j] = "running" /\ owner[j] = o THEN "closeFailed" ELSE "settling")
    /\ UNCHANGED <<jobVars, source, replies, phase, recovering, pick, canceller, ahead>>

\* The finally block of _run_claimed_job: a job still running under this owner is closed.
Settle(o, j) ==
    /\ pc[o][j] = "settling"
    /\ Goto(o, j, IF status[j] = "running" /\ owner[j] = o
                  THEN IF cancelReq[j] THEN "closeCancelled" ELSE "closeFailed"
                  ELSE "idle")
    /\ UNCHANGED <<jobVars, source, replies, phase, recovering, pick, canceller, ahead>>

Work(o, j) ==
    \/ Begin(o, j) \/ GenerationEnds(o, j)
    \/ FinalizeRead(o, j) \/ FinalizeCommit(o, j) \/ FinalizeRollback(o, j)
    \/ AfterReturn(o, j) \/ AfterRaise(o, j) \/ Mark(o, j)
    \/ MarkFails(o, j) \/ AfterThrow(o, j) \/ Settle(o, j)

-----------------------------------------------------------------------------
Next ==
    \/ \E o \in Incarnations :
          \/ Start(o) \/ RecoverRead(o) \/ RecoverCommit(o) \/ Stop(o) \/ Crash(o)
          \/ Scan(o) \/ Claim(o) \/ ClaimLost(o)
    \/ \E j \in Jobs :
          \/ LeaseExpires(j) \/ Enqueue(j) \/ DeleteSource(j)
          \/ CancelRead(j) \/ CancelCommit(j)
    \/ \E o \in Incarnations, j \in Jobs : Heartbeat(o, j) \/ Work(o, j)

Spec == Init /\ [][Next]_vars

(***************************************************************************)
(* Fairness.  The process manager restarts a dead backend (docker-compose  *)
(* restart: unless-stopped); startup, the polling dispatcher, a handler    *)
(* that has read its row and a worker thread (every model call has a       *)
(* timeout) get on with their next step; an unrenewed lease runs out.      *)
(* Nothing is assumed of users, crashes or orderly stops.                  *)
(***************************************************************************)
Fairness ==
    /\ \A o \in Incarnations :
          /\ WF_vars(Start(o))
          /\ WF_vars(RecoverRead(o))
          /\ WF_vars(RecoverCommit(o))
          /\ WF_vars(Scan(o))
          /\ WF_vars(Claim(o) \/ ClaimLost(o))
    /\ \A j \in Jobs : WF_vars(CancelCommit(j)) /\ WF_vars(LeaseExpires(j))
    /\ \A o \in Incarnations, j \in Jobs : WF_vars(Work(o, j))

FairSpec == Spec /\ Fairness

-----------------------------------------------------------------------------
(* Safety.                                                                 *)

\* At any time at most one job of a room is running, whatever the dispatcher, the
\* users, a recovering process and the workers a former process left behind do
\* (the scan of claim_next_message_generation_job and its UPDATE are two steps).
OneRunningPerRoom ==
    \A j, k \in Jobs :
        j # k /\ SameRoom(j, k) /\ status[j] = "running" => status[k] # "running"

\* A turn is not started while a turn that was accepted before it in the same room is
\* unfinished; crashes, recovery and leases that run out do not let it overtake.
TurnOrder ==
    \A j \in Jobs : status[j] = "running" => \A k \in ahead[j] : status[k] \in Terminal

\* The turns of a room run one at a time and in the order in which they were accepted.
RoomsInTurn == OneRunningPerRoom /\ TurnOrder

\* Two worker threads of one process are never busy with two turns of one room, unless
\* one of them works for a turn its user has cancelled.
SerialTurns ==
    \A o \in Incarnations, j, k \in Jobs :
        /\ j # k /\ SameRoom(j, k)
        /\ pc[o][j] \in {"generating", "finalizing"}
        /\ pc[o][k] \in {"generating", "finalizing"}
        => cancelReq[j] \/ cancelReq[k]

\* While no process is replaced before its workers have ended (Draining is FALSE): a
\* turn reported as failed has no replies in the room, so the user may send it again.
FailedTurnHasNoReplies ==
    \A j \in Jobs : status[j] = "failed" => replies[j] = 0

\* Every running job has a worker thread that will close it, or the process that owned it
\* is dead; this holds for the workers an orderly stop leaves behind as well.
RunningJobHasWorker ==
    \A j \in Jobs :
        status[j] = "running" => \/ Working(owner[j], j)
                                 \/ phase[owner[j]] = "dead"

-----------------------------------------------------------------------------
(* Histories.                                                              *)

\* A cancellation that is on record before the finalization session of a worker has
\* read the job is final: neither that worker nor a later attempt, after a requeue or a
\* restart, answers the turn.
CancelIsFinal ==
    \A j \in Jobs :
        []((cancelReq[j] /\ replies[j] = 0 /\ \A o \in Incarnations : pc[o][j] # "finalizing")
             => [](replies[j] = 0))

-----------------------------------------------------------------------------
(* The queue keeps the promise of TurnLedger.                              *)

Turn == [j \in Jobs |->
           CASE replies[j] # 0 -> "answered"
             [] replies[j] = 0 /\ status[j] = "absent" -> "none"
             [] replies[j] = 0 /\ status[j] \in {"queued", "running"} -> "open"
             [] OTHER -> "abandoned"]

Ledger == INSTANCE TurnLedger WITH
    Turns <- Jobs, Room <- Conversation, RoomOf <- ConvOf, turn <- Turn, before <- ahead

\* Every step of the queue opens, answers, gives up or reopens a turn as TurnLedger
\* allows, or is invisible to the room.
KeepsLedger == Ledger!LedgerSpec

-----------------------------------------------------------------------------
(* Liveness.                                                               *)

Settled(j) == status[j] \in Terminal

\* The two states nothing but a restart or the user gets a room out of: a job that
\* runs under an owner which has no worker for it (its lease was still live when the
\* present process started), and a queued job whose cancellation is on record.
Orphaned(j) == status[j] = "running" /\ ~Working(owner[j], j)
Unclaimable(j) == status[j] = "queued" /\ cancelReq[j]
Wedged(room) == \E j \in Jobs : ConvOf[j] = room /\ (Orphaned(j) \/ Unclaimable(j))

\* If the server is eventually up for good, a queued job is answered, failed or
\* cancelled, or its room is wedged.
QueuedJobSettles ==
    <>[]Serving =>
        \A j \in Jobs : status[j] = "queued" ~> Settled(j) \/ Wedged(ConvOf[j])

\* The comment of mark_stale_message_generation_jobs_failed: "unfinished running jobs
\* are now recovered".  A job that runs is terminal in the end, once the server stays up.
RunningJobRecovered ==
    <>[]Serving => \A j \in Jobs : status[j] = "running" ~> Settled(j) \/ status[j] = "queued"
=============================================================================

------------------------ MODULE GenerationQueueProofs ------------------------
(***************************************************************************)
(* What is proved of the generation queue, for any number of jobs, rooms,  *)
(* workers and incarnations of the backend: at most one job of a room runs, *)
(* and not before the turns that were waiting ahead of it are over; the    *)
(* queue implements TurnLedger; a cancellation on record is final; a       *)
(* running job has a worker; and, where no process is replaced before its  *)
(* workers have ended, a failed turn has said nothing and the turns of a   *)
(* room do not overlap.                                                    *)
(***************************************************************************)
EXTENDS GenerationQueue, TLAPS

USE QueueAssumption DEF Jobs, Incarnations

\* The lock file: one incarnation holds it.
OneHolder == \A o, p \in Incarnations : Holds(o) /\ Holds(p) => o = p

\* A pick belongs to the serving incarnation; a snapshot of expired jobs belongs to a
\* starting one.
PickServed == pick # 0 => Serving
SnapshotOwned == recovering # {} => \E o \in Incarnations : phase[o] = "recovering"

\* The turns ahead of a job are earlier turns of its room that were accepted.
AheadAccepted ==
    \A j \in Jobs : \A k \in ahead[j] : SameRoom(j, k) /\ k < j /\ status[k] # "absent"

\* What the scan has seen of the picked job's room is still so when the claim commits.
PickAlone ==
    pick # 0 => /\ status[pick] # "absent"
                /\ \A k \in Jobs : k # pick /\ SameRoom(pick, k) => status[k] # "running"
                /\ \A k \in ahead[pick] : status[k] \in Terminal

\* A job about to be requeued is the only one of its room that may be running.
SnapshotAlone ==
    \A k \in recovering : \A j \in Jobs :
        j # k /\ SameRoom(j, k) => status[j] # "running"

Inv == /\ TypeOK /\ OneHolder /\ PickServed /\ SnapshotOwned /\ AheadAccepted
       /\ PickAlone /\ SnapshotAlone /\ OneRunningPerRoom /\ TurnOrder

-----------------------------------------------------------------------------
LEMMA InitInv == Init => Inv
  BY DEF Init, Inv, TypeOK, OneHolder, PickServed, SnapshotOwned, AheadAccepted, PickAlone,
         SnapshotAlone, OneRunningPerRoom, TurnOrder, Holds, Status, Terminal, Phase, WorkerPc

\* Moving one thread to a label, or ending all threads of a process, keeps pc a table of labels.
LEMMA GotoType ==
  ASSUME pc \in [Incarnations -> [Jobs -> WorkerPc]],
         NEW o \in Incarnations, NEW j \in Jobs, NEW label \in WorkerPc, Goto(o, j, label)
  PROVE  pc' \in [Incarnations -> [Jobs -> WorkerPc]]
  BY DEF Goto

LEMMA EndThreadsType ==
  ASSUME pc \in [Incarnations -> [Jobs -> WorkerPc]], NEW o \in Incarnations, Crash(o)
  PROVE  pc' \in [Incarnations -> [Jobs -> WorkerPc]]
<1> DEFINE idle == [j \in Jobs |-> "idle"]
<1>1. idle \in [Jobs -> WorkerPc]
  BY DEF WorkerPc
<1>2. pc' = [pc EXCEPT ![o] = idle]
  BY DEF Crash
<1> HIDE DEF idle
<1>3. QED
  BY <1>1, <1>2

\* Every step keeps the variables in their types.
LEMMA TypeStep == TypeOK /\ [Next]_vars => TypeOK'
<1> SUFFICES ASSUME TypeOK, [Next]_vars PROVE TypeOK'
  OBVIOUS
<1> USE DEF TypeOK, Status, Terminal, Phase, jobVars
<1>1. ASSUME NEW o \in Incarnations, Start(o) PROVE TypeOK'
  BY <1>1 DEF Start
<1>2. ASSUME NEW o \in Incarnations, RecoverRead(o) PROVE TypeOK'
  BY <1>2 DEF RecoverRead
<1>3. ASSUME NEW o \in Incarnations, RecoverCommit(o) PROVE TypeOK'
  BY <1>3 DEF RecoverCommit
<1>4. ASSUME NEW o \in Incarnations, Stop(o) PROVE TypeOK'
  BY <1>4 DEF Stop
<1>5. ASSUME NEW o \in Incarnations, Crash(o) PROVE TypeOK'
  <2>1. pc' \in [Incarnations -> [Jobs -> WorkerPc]]
    BY <1>5, EndThreadsType
  <2>2. canceller' \in [Jobs -> {"none", "queued", "running"}] /\ pick' \in 0..NumJobs
    BY <1>5 DEF Crash
  <2>3. QED
    BY <1>5, <2>1, <2>2 DEF Crash
<1>6. ASSUME NEW o \in Incarnations, Scan(o) PROVE TypeOK'
  <2>1. pick' \in Jobs
    BY <1>6 DEF Scan, Eligible, Candidates, Claimable
  <2>2. QED
    BY <1>6, <2>1 DEF Scan
<1>7. ASSUME NEW o \in Incarnations, Claim(o) PROVE TypeOK'
  <2>1. pick \in Jobs /\ Goto(o, pick, "claimed") /\ "claimed" \in WorkerPc
    BY <1>7 DEF Claim, Claimable, WorkerPc
  <2>2. pc' \in [Incarnations -> [Jobs -> WorkerPc]]
    BY <2>1, GotoType
  <2>3. QED
    BY <1>7, <2>1, <2>2 DEF Claim
<1>8. ASSUME NEW o \in Incarnations, ClaimLost(o) PROVE TypeOK'
  BY <1>8 DEF ClaimLost
<1>9. ASSUME NEW j \in Jobs, LeaseExpires(j) PROVE TypeOK'
  BY <1>9 DEF LeaseExpires
<1>10. ASSUME NEW j \in Jobs, Enqueue(j) PROVE TypeOK'
  BY <1>10 DEF Enqueue
<1>11. ASSUME NEW j \in Jobs, DeleteSource(j) PROVE TypeOK'
  BY <1>11 DEF DeleteSource
<1>12. ASSUME NEW j \in Jobs, CancelRead(j) PROVE TypeOK'
  BY <1>12 DEF CancelRead
<1>13. ASSUME NEW j \in Jobs, CancelCommit(j) PROVE TypeOK'
  <2>1. /\ status' \in [Jobs -> Status] /\ owner' \in [Jobs -> 0..NumIncarnations]
        /\ leaseLive' \in [Jobs -> BOOLEAN]
    <3>1. CASE canceller[j] = "queued"
      <4>1. SetTerminal(j, "cancelled")
        BY <1>13, <3>1 DEF CancelCommit
      <4>2. QED
        BY <4>1 DEF SetTerminal
    <3>2. CASE canceller[j] # "queued"
      BY <1>13, <3>2 DEF CancelCommit
    <3>3. QED
      BY <3>1, <3>2
  <2>2. QED
    BY <1>13, <2>1 DEF CancelCommit
<1>14. ASSUME NEW o \in Incarnations, NEW j \in Jobs, Heartbeat(o, j) PROVE TypeOK'
  BY <1>14 DEF Heartbeat
<1>15. ASSUME NEW o \in Incarnations, NEW j \in Jobs, Work(o, j) PROVE TypeOK'
  <2>1. CASE Begin(o, j)
    BY <2>1, GotoType DEF Begin, WorkerPc
  <2>2. CASE GenerationEnds(o, j)
    BY <2>2, GotoType DEF GenerationEnds, WorkerPc
  <2>3. CASE FinalizeRead(o, j)
    BY <2>3, GotoType DEF FinalizeRead, WorkerPc
  <2>4. CASE FinalizeCommit(o, j)
    <3>1. pc' \in [Incarnations -> [Jobs -> WorkerPc]]
      BY <2>4, GotoType DEF FinalizeCommit, WorkerPc
    <3>2. QED
      BY <2>4, <3>1 DEF FinalizeCommit, SetTerminal
  <2>5. CASE FinalizeRollback(o, j)
    BY <2>5, GotoType DEF FinalizeRollback, WorkerPc
  <2>6. CASE AfterReturn(o, j)
    BY <2>6, GotoType DEF AfterReturn, WorkerPc
  <2>7. CASE AfterRaise(o, j)
    BY <2>7, GotoType DEF AfterRaise, WorkerPc
  <2>8. CASE Mark(o, j)
    <3>1. /\ UNCHANGED <<cancelReq, source, replies, phase, recovering, pick, canceller, ahead>>
          /\ \E s \in Terminal, label \in WorkerPc : SetTerminal(j, s) /\ Goto(o, j, label)
      BY <2>8 DEF Mark, WorkerPc
    <3>2. PICK s \in Terminal, label \in WorkerPc : SetTerminal(j, s) /\ Goto(o, j, label)
      BY <3>1
    <3>3. pc' \in [Incarnations -> [Jobs -> WorkerPc]]
      BY <3>2, GotoType
    <3>4. QED
      BY <3>1, <3>2, <3>3 DEF SetTerminal
  <2>9. CASE Settle(o, j)
    BY <2>9, GotoType DEF Settle, WorkerPc
  <2>10. CASE MarkFails(o, j)
    BY <2>10, GotoType DEF MarkFails, WorkerPc
  <2>11. CASE AfterThrow(o, j)
    BY <2>11, GotoType DEF AfterThrow, WorkerPc
  <2>12. QED
    BY <1>15, <2>1, <2>2, <2>3, <2>4, <2>5, <2>6, <2>7, <2>8, <2>9, <2>10, <2>11 DEF Work
<1>16. CASE UNCHANGED vars
  BY <1>16 DEF vars
<1>17. QED
  BY <1>1, <1>2, <1>3, <1>4, <1>5, <1>6, <1>7, <1>8, <1>9, <1>10, <1>11, <1>12, <1>13,
     <1>14, <1>15, <1>16 DEF Next

-----------------------------------------------------------------------------
\* A step that leaves statuses, processes, the snapshot, the pick and the acceptance
\* order alone keeps the invariant.
LEMMA QuietStep ==
  ASSUME Inv, TypeOK', UNCHANGED <<status, phase, recovering, pick, ahead>>
  PROVE  Inv'
  BY DEF Inv, OneHolder, PickServed, SnapshotOwned, AheadAccepted, PickAlone, SnapshotAlone,
         OneRunningPerRoom, TurnOrder, Holds, Serving, Up

\* Closing a job, whoever does it and whatever the row says, keeps the invariant.
LEMMA ClosingStep ==
  ASSUME Inv, TypeOK', NEW j \in Jobs, NEW s \in Terminal, SetTerminal(j, s),
         UNCHANGED <<phase, recovering, pick, ahead>>
  PROVE  Inv'
<1>1. \A k \in Jobs : status'[k] = IF k = j THEN s ELSE status[k]
  BY DEF SetTerminal, Inv, TypeOK
<1>2. s # "running" /\ s # "absent"
  BY DEF Terminal
<1>3. OneHolder' /\ PickServed' /\ SnapshotOwned'
  BY DEF Inv, OneHolder, PickServed, SnapshotOwned, Holds, Serving, Up
<1>4. AheadAccepted'
  BY <1>1, <1>2 DEF Inv, AheadAccepted, TypeOK
<1>5. PickAlone'
  <2>1. SUFFICES ASSUME pick # 0 PROVE PickAlone'
    BY DEF PickAlone
  <2>2. pick \in Jobs /\ pick' = pick /\ ahead' = ahead /\ ahead[pick] \subseteq Jobs
    BY <2>1 DEF Inv, TypeOK
  <2>3. QED
    BY <1>1, <1>2, <2>1, <2>2 DEF Inv, PickAlone, SameRoom
<1>6. SnapshotAlone' /\ OneRunningPerRoom'
  BY <1>1, <1>2 DEF Inv, SnapshotAlone, OneRunningPerRoom, TypeOK
<1>7. TurnOrder'
  BY <1>1, <1>2 DEF Inv, TurnOrder, TypeOK
<1>8. QED
  BY <1>3, <1>4, <1>5, <1>6, <1>7 DEF Inv

\* Opening a job: a new row is in no acceptance set, and waits.
LEMMA EnqueueStep ==
  ASSUME Inv, TypeOK', NEW j \in Jobs, Enqueue(j)
  PROVE  Inv'
<1>1. /\ status[j] = "absent"
      /\ \A k \in Jobs : status'[k] = IF k = j THEN "queued" ELSE status[k]
      /\ \A k \in Jobs \ {j} : ahead'[k] = ahead[k]
      /\ \A k \in ahead'[j] : k \in Jobs /\ k < j /\ SameRoom(j, k) /\ status[k] # "absent"
      /\ UNCHANGED <<phase, recovering, pick>>
  BY DEF Enqueue, Inv, TypeOK
<1>2. OneHolder' /\ PickServed' /\ SnapshotOwned'
  BY <1>1 DEF Inv, OneHolder, PickServed, SnapshotOwned, Holds, Serving, Up
<1>3. AheadAccepted'
  BY <1>1 DEF Inv, AheadAccepted, TypeOK, SameRoom
<1>4. PickAlone'
  <2>1. SUFFICES ASSUME pick # 0 PROVE PickAlone'
    BY <1>1 DEF PickAlone
  <2>2. /\ pick \in Jobs /\ pick' = pick /\ status[pick] # "absent" /\ pick # j
        /\ ahead'[pick] = ahead[pick]
    BY <1>1, <2>1 DEF Inv, TypeOK, PickAlone
  <2>3. \A k \in ahead[pick] : k \in Jobs /\ k # j /\ status[k] \in Terminal
    BY <1>1, <2>1, <2>2 DEF Inv, TypeOK, PickAlone, AheadAccepted
  <2>4. QED
    BY <1>1, <2>1, <2>2, <2>3 DEF Inv, PickAlone, SameRoom
<1>5. SnapshotAlone' /\ OneRunningPerRoom'
  BY <1>1 DEF Inv, SnapshotAlone, OneRunningPerRoom, TypeOK, SameRoom
<1>6. TurnOrder'
  BY <1>1 DEF Inv, TurnOrder, TypeOK, AheadAccepted, Terminal
<1>7. QED
  BY <1>2, <1>3, <1>4, <1>5, <1>6 DEF Inv

\* The scan finds a job that no other job of its room holds up.
LEMMA ScanStep ==
  ASSUME Inv, TypeOK', NEW o \in Incarnations, Scan(o)
  PROVE  Inv'
<1>1. /\ pick' \in Jobs /\ status[pick'] = "queued" /\ ~Blocked(pick')
      /\ Up(o)
      /\ UNCHANGED <<status, phase, recovering, ahead>>
  BY DEF Scan, Eligible, Candidates, Claimable, jobVars
<1>2. OneHolder' /\ PickServed' /\ SnapshotOwned' /\ AheadAccepted'
  BY <1>1 DEF Inv, OneHolder, PickServed, SnapshotOwned, AheadAccepted, Holds, Serving, Up
<1>3. SnapshotAlone' /\ OneRunningPerRoom' /\ TurnOrder'
  BY <1>1 DEF Inv, SnapshotAlone, OneRunningPerRoom, TurnOrder
<1>4. PickAlone'
  <2>1. \A k \in Jobs : k # pick' /\ SameRoom(pick', k) => status[k] # "running"
    BY <1>1 DEF Blocked
  <2>2. ASSUME NEW k \in ahead[pick'] PROVE status[k] \in Terminal
    <3>1. k \in Jobs /\ k < pick' /\ SameRoom(pick', k) /\ status[k] # "absent"
      BY <1>1, <2>2 DEF Inv, AheadAccepted, TypeOK
    <3>2. status[k] # "running" /\ status[k] # "queued"
      BY <1>1, <3>1, <2>1 DEF Blocked
    <3>3. QED
      BY <3>1, <3>2 DEF Inv, TypeOK, Status
  <2>3. QED
    BY <1>1, <2>1, <2>2 DEF PickAlone
<1>5. QED
  BY <1>2, <1>3, <1>4 DEF Inv

\* The claim starts a job whose room is at rest and whose turn has come.
LEMMA ClaimStep ==
  ASSUME Inv, TypeOK', NEW o \in Incarnations, Claim(o)
  PROVE  Inv'
<1>1. /\ pick \in Jobs /\ status[pick] = "queued" /\ Up(o)
      /\ \A k \in Jobs : status'[k] = IF k = pick THEN "running" ELSE status[k]
      /\ pick' = 0
      /\ UNCHANGED <<phase, recovering, ahead>>
  BY DEF Claim, Claimable, Inv, TypeOK
<1>2. recovering = {}
  BY <1>1 DEF Inv, SnapshotOwned, OneHolder, Holds, Up
<1>3. OneHolder' /\ PickServed' /\ SnapshotOwned' /\ PickAlone' /\ SnapshotAlone'
  BY <1>1, <1>2 DEF Inv, OneHolder, PickServed, SnapshotOwned, PickAlone, SnapshotAlone, Holds
<1>4. AheadAccepted'
  BY <1>1 DEF Inv, AheadAccepted, TypeOK
<1>5. \A k \in Jobs : k # pick /\ SameRoom(pick, k) => status[k] # "running"
  BY <1>1 DEF Inv, PickAlone
<1>6. OneRunningPerRoom'
  BY <1>1, <1>5 DEF Inv, OneRunningPerRoom, SameRoom
<1>7. TurnOrder'
  <2>1. SUFFICES ASSUME NEW j \in Jobs, status'[j] = "running", NEW k \in ahead[j]
                 PROVE  status'[k] \in Terminal
    BY <1>1 DEF TurnOrder
  <2>2. k \in Jobs /\ k # j
    BY DEF Inv, AheadAccepted, TypeOK
  <2>3. status[k] \in Terminal
    BY <1>1, <2>1, <2>2 DEF Inv, PickAlone, TurnOrder
  <2>4. k # pick
    BY <1>1, <2>3 DEF Terminal
  <2>5. QED
    BY <1>1, <2>2, <2>3, <2>4
<1>8. QED
  BY <1>3, <1>4, <1>6, <1>7 DEF Inv

\* The startup hook's read: of each room it sees at most one running job.
LEMMA RecoverReadStep ==
  ASSUME Inv, TypeOK', NEW o \in Incarnations, RecoverRead(o)
  PROVE  Inv'
<1>1. /\ phase[o] = "starting" /\ phase' = [phase EXCEPT ![o] = "recovering"]
      /\ recovering' \subseteq {j \in Jobs : status[j] = "running"}
      /\ UNCHANGED <<status, pick, ahead>>
  BY DEF RecoverRead, jobVars
<1>2. \A p \in Incarnations : phase'[p] = IF p = o THEN "recovering" ELSE phase[p]
  BY <1>1 DEF Inv, TypeOK
<1>3. OneHolder' /\ PickServed' /\ SnapshotOwned'
  BY <1>1, <1>2 DEF Inv, OneHolder, PickServed, SnapshotOwned, Holds, Serving, Up
<1>4. AheadAccepted' /\ PickAlone' /\ OneRunningPerRoom' /\ TurnOrder'
  BY <1>1 DEF Inv, AheadAccepted, PickAlone, OneRunningPerRoom, TurnOrder
<1>5. SnapshotAlone'
  BY <1>1 DEF Inv, OneRunningPerRoom, SnapshotAlone
<1>6. QED
  BY <1>3, <1>4, <1>5 DEF Inv

\* The startup hook's commit, long after its read: it may reopen a job that a worker of
\* the former process has closed meanwhile, but no job of that room is running.
LEMMA RecoverCommitStep ==
  ASSUME Inv, TypeOK', NEW o \in Incarnations, RecoverCommit(o)
  PROVE  Inv'
<1>1. /\ phase[o] = "recovering" /\ phase' = [phase EXCEPT ![o] = "up"]
      /\ \A j \in Jobs : status'[j] = IF j \in recovering THEN "queued" ELSE status[j]
      /\ recovering' = {}
      /\ UNCHANGED <<pick, ahead>>
  BY DEF RecoverCommit
<1>2. \A p \in Incarnations : phase'[p] = IF p = o THEN "up" ELSE phase[p]
  BY <1>1 DEF Inv, TypeOK
<1>3. pick = 0
  BY <1>1 DEF Inv, PickServed, OneHolder, Holds, Serving, Up
<1>4. OneHolder' /\ PickServed' /\ SnapshotOwned' /\ PickAlone' /\ SnapshotAlone'
  BY <1>1, <1>2, <1>3 DEF Inv, OneHolder, PickServed, SnapshotOwned, PickAlone,
     SnapshotAlone, Holds
<1>5. AheadAccepted'
  BY <1>1 DEF Inv, AheadAccepted, TypeOK
<1>6. OneRunningPerRoom'
  BY <1>1 DEF Inv, OneRunningPerRoom
<1>7. TurnOrder'
  <2>1. SUFFICES ASSUME NEW j \in Jobs, status'[j] = "running", NEW k \in ahead[j]
                 PROVE  status'[k] \in Terminal
    BY <1>1 DEF TurnOrder
  <2>2. k \in Jobs /\ k # j /\ SameRoom(j, k)
    BY DEF Inv, AheadAccepted, TypeOK
  <2>3. status[j] = "running"
    BY <1>1, <2>1
  <2>4. k \notin recovering
    BY <2>2, <2>3 DEF Inv, SnapshotAlone
  <2>5. QED
    BY <1>1, <2>2, <2>3, <2>4 DEF Inv, TurnOrder
<1>8. QED
  BY <1>4, <1>5, <1>6, <1>7 DEF Inv

\* Processes that come and go touch no row: the lock file keeps them apart.
LEMMA ProcessStep ==
  ASSUME Inv, TypeOK', NEW o \in Incarnations, Start(o) \/ Stop(o) \/ Crash(o)
  PROVE  Inv'
<1>1. UNCHANGED <<status, ahead>>
  BY DEF Start, Stop, Crash, jobVars
<1>2. AheadAccepted' /\ OneRunningPerRoom' /\ TurnOrder'
  BY <1>1 DEF Inv, AheadAccepted, OneRunningPerRoom, TurnOrder
<1>3. \A s \in Phase : phase' = [phase EXCEPT ![o] = s] =>
         \A p \in Incarnations : phase'[p] = IF p = o THEN s ELSE phase[p]
  BY DEF Inv, TypeOK
<1>4. (pick' = pick \/ pick' = 0) /\ (recovering' = recovering \/ recovering' = {})
  BY DEF Start, Stop, Crash
<1>5. PickAlone' /\ SnapshotAlone'
  BY <1>1, <1>4 DEF Inv, PickAlone, SnapshotAlone
<1>6. OneHolder' /\ PickServed' /\ SnapshotOwned'
  <2>1. CASE Start(o)
    <3>1. /\ phase[o] = "off" /\ \A p \in Incarnations : ~Holds(p)
          /\ \A p \in Incarnations : phase'[p] = IF p = o THEN "starting" ELSE phase[p]
          /\ UNCHANGED <<pick, recovering>>
      BY <1>3, <2>1 DEF Start, Phase
    <3>2. pick = 0 /\ recovering = {}
      BY <3>1 DEF Inv, PickServed, SnapshotOwned, Holds, Serving, Up
    <3>3. QED
      BY <3>1, <3>2 DEF OneHolder, PickServed, SnapshotOwned, Holds
  <2>2. CASE Stop(o)
    BY <1>3, <2>2 DEF Stop, Phase, Inv, OneHolder, PickServed, SnapshotOwned, Holds, Serving, Up
  <2>3. CASE Crash(o)
    <3>1. \A p \in Incarnations : phase'[p] = IF p = o THEN "dead" ELSE phase[p]
      BY <1>3, <2>3 DEF Crash, Phase
    <3>2. CASE Holds(o)
      BY <2>3, <3>1, <3>2 DEF Crash, Inv, OneHolder, PickServed, SnapshotOwned, Holds
    <3>3. CASE ~Holds(o)
      BY <2>3, <3>1, <3>3 DEF Crash, Inv, OneHolder, PickServed, SnapshotOwned, Holds, Serving, Up
    <3>4. QED
      BY <3>2, <3>3
  <2>4. QED
    BY <2>1, <2>2, <2>3
<1>7. QED
  BY <1>2, <1>5, <1>6 DEF Inv

\* The invariant is inductive.
LEMMA InvStep == Inv /\ [Next]_vars => Inv'
<1> SUFFICES ASSUME Inv, [Next]_vars PROVE Inv'
  OBVIOUS
<1>1. TypeOK'
  BY TypeStep DEF Inv
<1>2. ASSUME NEW o \in Incarnations,
             \/ Start(o) \/ RecoverRead(o) \/ RecoverCommit(o) \/ Stop(o) \/ Crash(o)
             \/ Scan(o) \/ Claim(o) \/ ClaimLost(o)
      PROVE  Inv'
  <2>1. CASE ClaimLost(o)
    BY <1>1, <2>1 DEF ClaimLost, jobVars, Inv, OneHolder, PickServed, SnapshotOwned,
       AheadAccepted, PickAlone, SnapshotAlone, OneRunningPerRoom, TurnOrder, Holds
  <2>2. QED
    BY <1>1, <1>2, <2>1, ProcessStep, RecoverReadStep, RecoverCommitStep, ScanStep, ClaimStep
<1>3. ASSUME NEW j \in Jobs,
             \/ LeaseExpires(j) \/ Enqueue(j) \/ DeleteSource(j)
             \/ CancelRead(j) \/ CancelCommit(j)
      PROVE  Inv'
  <2>1. CASE LeaseExpires(j) \/ DeleteSource(j) \/ CancelRead(j)
    BY <1>1, <2>1, QuietStep DEF LeaseExpires, DeleteSource, CancelRead, jobVars
  <2>2. CASE Enqueue(j)
    BY <1>1, <2>2, EnqueueStep
  <2>3. CASE CancelCommit(j)
    <3>1. CASE canceller[j] = "queued"
      <4>1. SetTerminal(j, "cancelled") /\ UNCHANGED <<phase, recovering, pick, ahead>>
        BY <2>3, <3>1 DEF CancelCommit
      <4>2. QED
        BY <1>1, <4>1, ClosingStep DEF Terminal
    <3>2. CASE canceller[j] # "queued"
      BY <1>1, <2>3, <3>2, QuietStep DEF CancelCommit
    <3>3. QED
      BY <3>1, <3>2
  <2>4. QED
    BY <1>3, <2>1, <2>2, <2>3
<1>4. ASSUME NEW o \in Incarnations, NEW j \in Jobs, Heartbeat(o, j) \/ Work(o, j)
      PROVE  Inv'
  <2>1. CASE Heartbeat(o, j)
    BY <1>1, <2>1, QuietStep DEF Heartbeat
  <2>2. CASE FinalizeCommit(o, j)
    <3>1. SetTerminal(j, "completed") /\ UNCHANGED <<phase, recovering, pick, ahead>>
      BY <2>2 DEF FinalizeCommit
    <3>2. QED
      BY <1>1, <3>1, ClosingStep DEF Terminal
  <2>3. CASE Mark(o, j)
    <3>1. /\ \E s \in Terminal : SetTerminal(j, s)
          /\ UNCHANGED <<phase, recovering, pick, ahead>>
      BY <2>3 DEF Mark, Terminal
    <3>2. QED
      BY <1>1, <3>1, ClosingStep
  <2>4. CASE \/ Begin(o, j) \/ GenerationEnds(o, j) \/ FinalizeRead(o, j)
             \/ FinalizeRollback(o, j) \/ AfterReturn(o, j) \/ AfterRaise(o, j)
             \/ MarkFails(o, j) \/ AfterThrow(o, j) \/ Settle(o, j)
    <3>1. UNCHANGED <<status, phase, recovering, pick, ahead>>
      BY <2>4 DEF Begin, GenerationEnds, FinalizeRead, FinalizeRollback, AfterReturn,
         AfterRaise, MarkFails, AfterThrow, Settle, jobVars
    <3>2. QED
      BY <1>1, <3>1, QuietStep
  <2>5. QED
    BY <1>4, <2>1, <2>2, <2>3, <2>4 DEF Work
<1>5. CASE UNCHANGED vars
  BY <1>1, <1>5, QuietStep DEF vars
<1>6. QED
  BY <1>2, <1>3, <1>4, <1>5 DEF Next

LEMMA InvAlways == Spec => []Inv
  BY InitInv, InvStep, PTL DEF Spec

\* In every behaviour of the queue the rows, the threads and the processes stay
\* well-typed: no handler writes a status, an owner or a label out of its range.
THEOREM TypeCorrect == Spec => []TypeOK
<1>1. Init => TypeOK
  BY InitInv DEF Inv
<1>2. QED
  BY <1>1, TypeStep, PTL DEF Spec

\* However the dispatcher's two-step claim, the users' requests, crashes, restarts and the
\* workers of a former process interleave, at most one job of a room is running.
THEOREM RoomsRunOneJob == Spec => []OneRunningPerRoom
<1>1. Inv => OneRunningPerRoom
  BY DEF Inv
<1>2. QED
  BY <1>1, InvAlways, PTL

\* A running turn has seen every turn accepted before it in its room come to an end.
THEOREM TurnsRunInOrder == Spec => []TurnOrder
<1>1. Inv => TurnOrder
  BY DEF Inv
<1>2. QED
  BY <1>1, InvAlways, PTL

\* Both together: the turns of a room run one at a time and in the order of acceptance.
THEOREM RoomsRunInTurn == Spec => []RoomsInTurn
  BY RoomsRunOneJob, TurnsRunInOrder, PTL DEF RoomsInTurn

-----------------------------------------------------------------------------
(* What becomes of a turn: the ledger, cancellations and workers.          *)

HIDE QueueAssumption DEF Jobs, Incarnations

\* A step of a worker touches its own job and its own entry of the table of threads; the row
\* of the job stays or is closed.
LEMMA WorkerFootprint ==
  ASSUME TypeOK, NEW o \in Incarnations, NEW j \in Jobs, Work(o, j)
  PROVE  /\ Working(o, j)
         /\ \A p \in Incarnations, k \in Jobs : p # o \/ k # j => pc'[p][k] = pc[p][k]
         /\ \A k \in Jobs : k # j => status'[k] = status[k] /\ replies'[k] = replies[k]
                                     /\ owner'[k] = owner[k]
         /\ status'[j] \in Terminal \/ (status'[j] = status[j] /\ owner'[j] = owner[j])
         /\ pc[o][j] # "finalizing" => replies' = replies
         /\ UNCHANGED <<cancelReq, phase, recovering, pick, canceller, ahead>>
<1>1. /\ status \in [Jobs -> Status] /\ owner \in [Jobs -> 0..NumIncarnations]
      /\ replies \in [Jobs -> 0..NumIncarnations] /\ pc \in [Incarnations -> [Jobs -> WorkerPc]]
  BY DEF TypeOK
<1>2. ASSUME NEW label, Goto(o, j, label)
      PROVE  \A p \in Incarnations, k \in Jobs : p # o \/ k # j => pc'[p][k] = pc[p][k]
  BY <1>1, <1>2 DEF Goto
<1>3. ASSUME NEW s \in Terminal, SetTerminal(j, s)
      PROVE  status'[j] \in Terminal
             /\ \A k \in Jobs : k # j => status'[k] = status[k] /\ owner'[k] = owner[k]
  BY <1>1, <1>3 DEF SetTerminal
<1>4. CASE \/ Begin(o, j) \/ GenerationEnds(o, j) \/ FinalizeRead(o, j) \/ FinalizeRollback(o, j)
           \/ AfterReturn(o, j) \/ AfterRaise(o, j) \/ MarkFails(o, j) \/ AfterThrow(o, j)
           \/ Settle(o, j)
  <2>1. UNCHANGED <<jobVars, replies, phase, recovering, pick, canceller, ahead>>
    BY <1>4 DEF Begin, GenerationEnds, FinalizeRead, FinalizeRollback, AfterReturn, AfterRaise,
       MarkFails, AfterThrow, Settle
  <2>2. pc[o][j] # "idle" /\ \E label : Goto(o, j, label)
    BY <1>4 DEF Begin, GenerationEnds, FinalizeRead, FinalizeRollback, AfterReturn, AfterRaise,
       MarkFails, AfterThrow, Settle
  <2>3. QED
    BY <1>2, <2>1, <2>2 DEF Working, jobVars
<1>5. CASE FinalizeCommit(o, j)
  <2>1. /\ pc[o][j] = "finalizing" /\ SetTerminal(j, "completed")
        /\ replies' = [replies EXCEPT ![j] = o]
        /\ UNCHANGED <<cancelReq, phase, recovering, pick, canceller, ahead>>
    BY <1>5 DEF FinalizeCommit
  <2>2. \E label : Goto(o, j, label)
    BY <1>5 DEF FinalizeCommit
  <2>3. QED
    BY <1>1, <1>2, <1>3, <2>1, <2>2 DEF Working, Terminal
<1>6. CASE Mark(o, j)
  <2>1. UNCHANGED <<cancelReq, source, replies, phase, recovering, pick, canceller, ahead>>
    BY <1>6 DEF Mark
  <2>2. pc[o][j] # "idle" /\ (\E s \in Terminal : SetTerminal(j, s)) /\ \E label : Goto(o, j, label)
    BY <1>6 DEF Mark, Terminal
  <2>3. QED
    BY <1>2, <1>3, <2>1, <2>2 DEF Working
<1>7. QED
  BY <1>4, <1>5, <1>6 DEF Work

\* The labels a worker moves to, and what it has read when it does.
LEMMA WorkerLabels ==
  ASSUME TypeOK, NEW o \in Incarnations, NEW j \in Jobs, Work(o, j)
  PROVE  /\ pc'[o][j] = "idle" => ~(status[j] = "running" /\ owner[j] = o)
         /\ pc'[o][j] \in {"failing", "closeFailed", "generating"}
               => status[j] = "running" /\ status' = status
         /\ pc'[o][j] = "finalizing"
               => pc[o][j] = "generating" /\ ~cancelReq[j] /\ status' = status
         /\ pc'[o][j] # "claimed"
<1>1. \A label : Goto(o, j, label) => pc'[o][j] = label
  BY DEF TypeOK, Goto
<1>2. CASE Begin(o, j) \/ GenerationEnds(o, j) \/ FinalizeRead(o, j)
  BY <1>1, <1>2 DEF Begin, GenerationEnds, FinalizeRead, jobVars
<1>3. CASE FinalizeCommit(o, j) \/ FinalizeRollback(o, j) \/ MarkFails(o, j)
  BY <1>1, <1>3 DEF FinalizeCommit, FinalizeRollback, MarkFails
<1>4. CASE AfterReturn(o, j) \/ AfterRaise(o, j) \/ AfterThrow(o, j) \/ Settle(o, j)
  BY <1>1, <1>4 DEF AfterReturn, AfterRaise, AfterThrow, Settle, jobVars
<1>5. CASE Mark(o, j)
  BY <1>1, <1>5 DEF Mark
<1>6. QED
  BY <1>2, <1>3, <1>4, <1>5 DEF Work

\* The statuses a worker writes: nobody fails a job but from the labels "failing" and
\* "closeFailed", and whoever stores replies completes the job.
LEMMA WorkerWrites ==
  ASSUME TypeOK, NEW o \in Incarnations, NEW j \in Jobs, Work(o, j)
  PROVE  /\ status'[j] = "failed"
               => status[j] = "failed" \/ pc[o][j] \in {"failing", "closeFailed"}
         /\ replies'[j] # replies[j] => status'[j] = "completed" /\ replies[j] = 0
         /\ pc[o][j] \in {"claimed", "generating"} => status' = status
<1>1. status \in [Jobs -> Status] /\ replies \in [Jobs -> 0..NumIncarnations]
  BY DEF TypeOK
<1>2. \A s \in Terminal : SetTerminal(j, s) => status'[j] = s
  BY <1>1 DEF SetTerminal
<1>3. CASE FinalizeCommit(o, j)
  BY <1>1, <1>2, <1>3 DEF FinalizeCommit, Terminal
<1>4. CASE Mark(o, j)
  BY <1>2, <1>4 DEF Mark, Terminal
<1>5. CASE \/ Begin(o, j) \/ GenerationEnds(o, j) \/ FinalizeRead(o, j) \/ FinalizeRollback(o, j)
           \/ AfterReturn(o, j) \/ AfterRaise(o, j) \/ MarkFails(o, j) \/ AfterThrow(o, j)
           \/ Settle(o, j)
  BY <1>5 DEF Begin, GenerationEnds, FinalizeRead, FinalizeRollback, AfterReturn, AfterRaise,
     MarkFails, AfterThrow, Settle, jobVars
<1>6. QED
  BY <1>3, <1>4, <1>5 DEF Work

-----------------------------------------------------------------------------
(* The other steps, row by row.                                            *)

LEMMA ClaimEffect ==
  ASSUME TypeOK, NEW o \in Incarnations, Claim(o)
  PROVE  /\ Up(o) /\ pick \in Jobs /\ status[pick] = "queued" /\ ~cancelReq[pick]
         /\ \A j \in Jobs : /\ status'[j] = IF j = pick THEN "running" ELSE status[j]
                            /\ owner'[j] = IF j = pick THEN o ELSE owner[j]
         /\ \A p \in Incarnations, j \in Jobs :
               pc'[p][j] = IF p = o /\ j = pick THEN "claimed" ELSE pc[p][j]
         /\ UNCHANGED <<cancelReq, replies, phase, recovering, canceller, ahead>>
<1>1. pick \in Jobs /\ Goto(o, pick, "claimed")
  BY DEF Claim, Claimable
<1>2. \A p \in Incarnations, j \in Jobs :
         pc'[p][j] = IF p = o /\ j = pick THEN "claimed" ELSE pc[p][j]
  BY <1>1 DEF TypeOK, Goto
<1>3. QED
  BY <1>1, <1>2 DEF Claim, Claimable, TypeOK

LEMMA CrashEffect ==
  ASSUME TypeOK, NEW o \in Incarnations, Crash(o)
  PROVE  /\ \A p \in Incarnations : phase'[p] = IF p = o THEN "dead" ELSE phase[p]
         /\ \A p \in Incarnations, j \in Jobs :
               pc'[p][j] = IF p = o THEN "idle" ELSE pc[p][j]
         /\ recovering' \subseteq recovering
         /\ \A j \in Jobs : canceller'[j] = canceller[j] \/ canceller'[j] = "none"
         /\ UNCHANGED <<status, owner, cancelReq, replies, ahead>>
<1> DEFINE idle == [j \in Jobs |-> "idle"]
<1>1. pc' = [pc EXCEPT ![o] = idle] /\ \A j \in Jobs : idle[j] = "idle"
  BY DEF Crash
<1> HIDE DEF idle
<1>2. \A p \in Incarnations, j \in Jobs : pc'[p][j] = IF p = o THEN "idle" ELSE pc[p][j]
  BY <1>1 DEF TypeOK
<1>3. QED
  BY <1>2 DEF Crash, TypeOK, jobVars

LEMMA RecoverCommitEffect ==
  ASSUME TypeOK, NEW o \in Incarnations, RecoverCommit(o)
  PROVE  /\ phase[o] = "recovering"
         /\ \A p \in Incarnations : phase'[p] = IF p = o THEN "up" ELSE phase[p]
         /\ \A j \in Jobs : /\ status'[j] = IF j \in recovering THEN "queued" ELSE status[j]
                            /\ j \notin recovering => owner'[j] = owner[j]
         /\ recovering' = {}
         /\ UNCHANGED <<cancelReq, replies, canceller, pc, ahead>>
  BY DEF RecoverCommit, TypeOK

LEMMA CancelCommitEffect ==
  ASSUME TypeOK, NEW j \in Jobs, CancelCommit(j)
  PROVE  /\ canceller[j] # "none"
         /\ \A k \in Jobs : /\ cancelReq'[k] = (k = j \/ cancelReq[k])
                            /\ canceller'[k] = IF k = j THEN "none" ELSE canceller[k]
         /\ \A k \in Jobs : k # j => status'[k] = status[k] /\ owner'[k] = owner[k]
         /\ status'[j] = "cancelled" \/ (status'[j] = status[j] /\ owner'[j] = owner[j])
         /\ UNCHANGED <<replies, phase, recovering, pc, ahead>>
<1>1. /\ canceller[j] # "none" /\ UNCHANGED <<replies, phase, recovering, pc, ahead>>
      /\ canceller' = [canceller EXCEPT ![j] = "none"]
      /\ cancelReq' = [cancelReq EXCEPT ![j] = TRUE]
  BY DEF CancelCommit
<1>2. SetTerminal(j, "cancelled") \/ UNCHANGED <<status, owner>>
  BY DEF CancelCommit
<1>3. \A k \in Jobs : /\ cancelReq'[k] = (k = j \/ cancelReq[k])
                      /\ canceller'[k] = IF k = j THEN "none" ELSE canceller[k]
  BY <1>1 DEF TypeOK
<1>4. /\ \A k \in Jobs : k # j => status'[k] = status[k] /\ owner'[k] = owner[k]
      /\ status'[j] = "cancelled" \/ (status'[j] = status[j] /\ owner'[j] = owner[j])
  BY <1>2 DEF SetTerminal, TypeOK
<1>5. QED
  BY <1>1, <1>3, <1>4

LEMMA EnqueueEffect ==
  ASSUME TypeOK, NEW j \in Jobs, Enqueue(j)
  PROVE  /\ status[j] = "absent"
         /\ \A k \in Jobs : status'[k] = IF k = j THEN "queued" ELSE status[k]
         /\ \A k \in Jobs \ {j} : ahead'[k] = ahead[k]
         /\ ahead' = [ahead EXCEPT ![j] = ahead'[j]]
         /\ ahead'[j] = {k \in 1..(j - 1) : SameRoom(j, k) /\ status[k] \in {"queued", "running"}}
         /\ UNCHANGED <<owner, cancelReq, replies, phase, recovering, canceller, pc>>
  BY QueueAssumption DEF Enqueue, TypeOK, Jobs

\* All other steps leave what this module speaks of alone.
quietVars == <<status, owner, cancelReq, replies, phase, recovering, canceller, pc, ahead>>

LEMMA StepKinds ==
  ASSUME [Next]_vars
  PROVE  \/ \E o \in Incarnations, j \in Jobs : Work(o, j)
         \/ \E o \in Incarnations : \/ Start(o) \/ Stop(o) \/ Crash(o)
                                    \/ RecoverRead(o) \/ RecoverCommit(o) \/ Claim(o)
         \/ \E j \in Jobs : Enqueue(j) \/ CancelRead(j) \/ CancelCommit(j)
         \/ UNCHANGED quietVars
<1>1. ASSUME NEW o \in Incarnations, Scan(o) \/ ClaimLost(o) PROVE UNCHANGED quietVars
  BY <1>1 DEF Scan, ClaimLost, quietVars, jobVars
<1>2. ASSUME NEW j \in Jobs, LeaseExpires(j) \/ DeleteSource(j) PROVE UNCHANGED quietVars
  BY <1>2 DEF LeaseExpires, DeleteSource, quietVars, jobVars
<1>3. ASSUME NEW o \in Incarnations, NEW j \in Jobs, Heartbeat(o, j) PROVE UNCHANGED quietVars
  BY <1>3 DEF Heartbeat, quietVars
<1>4. CASE UNCHANGED vars
  BY <1>4 DEF vars, quietVars
<1>5. QED
  BY <1>1, <1>2, <1>3, <1>4 DEF Next

-----------------------------------------------------------------------------
(* A cancellation on record.                                               *)

\* The worker cannot answer any more: the cancellation is there, and nobody is between the
\* last look at it and the commit.
TooLate(j) ==
    cancelReq[j] /\ replies[j] = 0 /\ \A o \in Incarnations : pc[o][j] # "finalizing"

\* It stays so, whatever happens next.
LEMMA TooLateStep ==
  ASSUME TypeOK, NEW j \in Jobs, TooLate(j), [Next]_vars
  PROVE  TooLate(j)'
<1>1. ASSUME NEW o \in Incarnations, NEW k \in Jobs, Work(o, k) PROVE TooLate(j)'
  <2>1. CASE k # j
    BY <1>1, <2>1, WorkerFootprint DEF TooLate
  <2>2. CASE k = j
    BY <1>1, <2>2, WorkerFootprint, WorkerLabels DEF TooLate
  <2>3. QED
    BY <2>1, <2>2
<1>2. ASSUME NEW o \in Incarnations, Claim(o) PROVE TooLate(j)'
  BY <1>2, ClaimEffect DEF TooLate
<1>3. ASSUME NEW o \in Incarnations, Crash(o) PROVE TooLate(j)'
  BY <1>3, CrashEffect DEF TooLate
<1>4. ASSUME NEW o \in Incarnations, RecoverCommit(o) PROVE TooLate(j)'
  BY <1>4, RecoverCommitEffect DEF TooLate
<1>5. ASSUME NEW k \in Jobs, CancelCommit(k) PROVE TooLate(j)'
  BY <1>5, CancelCommitEffect DEF TooLate
<1>6. ASSUME NEW k \in Jobs, Enqueue(k) PROVE TooLate(j)'
  BY <1>6, EnqueueEffect DEF TooLate
<1>7. CASE UNCHANGED <<cancelReq, replies, pc>>
  BY <1>7 DEF TooLate
<1>8. ASSUME NEW o \in Incarnations, Start(o) \/ Stop(o) \/ RecoverRead(o)
      PROVE  UNCHANGED <<cancelReq, replies, pc>>
  BY <1>8 DEF Start, Stop, RecoverRead, jobVars
<1>9. ASSUME NEW k \in Jobs, CancelRead(k) PROVE UNCHANGED <<cancelReq, replies, pc>>
  BY <1>9 DEF CancelRead, jobVars
<1>10. UNCHANGED quietVars => UNCHANGED <<cancelReq, replies, pc>>
  BY DEF quietVars
<1>11. QED
  BY <1>1, <1>2, <1>3, <1>4, <1>5, <1>6, <1>7, <1>8, <1>9, <1>10, StepKinds

\* A cancellation that is on record before the worker's finalization has read the job is
\* final, whatever crashes, restarts, requeues and other workers follow.
THEOREM CancellationIsFinal == Spec => CancelIsFinal
<1>1. ASSUME NEW j \in Jobs PROVE Spec => [](TooLate(j) => [](replies[j] = 0))
  <2>1. TypeOK /\ TooLate(j) /\ [Next]_vars => TooLate(j)'
    BY TooLateStep
  <2>2. TooLate(j) => replies[j] = 0
    BY DEF TooLate
  <2>3. Spec => [][Next]_vars
    BY DEF Spec
  <2>4. QED
    BY <2>1, <2>2, <2>3, TypeCorrect, PTL
<1>2. QED
  BY <1>1 DEF CancelIsFinal, TooLate

-----------------------------------------------------------------------------
(* A running job and its worker.                                           *)

\* A running job has an owner, with a worker for it unless its process is dead.
Attended ==
    \A j \in Jobs : status[j] = "running" =>
        owner[j] \in Incarnations /\ (Working(owner[j], j) \/ phase[owner[j]] = "dead")

LEMMA AttendedStep ==
  ASSUME TypeOK, Attended, [Next]_vars
  PROVE  Attended'
<1>1. /\ phase \in [Incarnations -> Phase]
      /\ \A o \in Incarnations, j \in Jobs : Working(o, j) <=> pc[o][j] # "idle"
  BY DEF TypeOK, Working
<1>2. ASSUME NEW o \in Incarnations, NEW j \in Jobs, Work(o, j) PROVE Attended'
  <2>1. ASSUME NEW k \in Jobs, status'[k] = "running"
        PROVE  /\ status[k] = "running" /\ owner'[k] = owner[k] /\ owner[k] \in Incarnations
               /\ Working(owner[k], k)' \/ phase'[owner[k]] = "dead"
    <3>1. CASE k # j
      BY <1>1, <1>2, <2>1, <3>1, WorkerFootprint DEF Attended, Working
    <3>2. CASE k = j
      <4>1. status[j] = "running" /\ owner'[j] = owner[j] /\ phase' = phase
        BY <1>2, <2>1, <3>2, WorkerFootprint DEF Terminal
      <4>2. CASE owner[j] = o
        BY <1>1, <1>2, <3>2, <4>1, <4>2, WorkerLabels DEF Working
      <4>3. CASE owner[j] # o
        BY <1>1, <1>2, <3>2, <4>1, <4>3, WorkerFootprint DEF Attended, Working
      <4>4. QED
        BY <4>2, <4>3
    <3>3. QED
      BY <3>1, <3>2
  <2>2. QED
    BY <2>1 DEF Attended
<1>3. ASSUME NEW o \in Incarnations, Claim(o) PROVE Attended'
  BY <1>1, <1>3, ClaimEffect DEF Attended, Working
<1>4. ASSUME NEW o \in Incarnations, Crash(o) PROVE Attended'
  BY <1>1, <1>4, CrashEffect DEF Attended, Working
<1>5. ASSUME NEW o \in Incarnations, RecoverCommit(o) PROVE Attended'
  BY <1>1, <1>5, RecoverCommitEffect DEF Attended, Working
<1>6. ASSUME NEW j \in Jobs, CancelCommit(j) PROVE Attended'
  BY <1>1, <1>6, CancelCommitEffect DEF Attended, Working
<1>7. ASSUME NEW j \in Jobs, Enqueue(j) PROVE Attended'
  BY <1>1, <1>7, EnqueueEffect DEF Attended, Working
<1>8. CASE /\ UNCHANGED <<status, owner, pc>>
           /\ \A p \in Incarnations : phase[p] = "dead" => phase'[p] = "dead"
  BY <1>1, <1>8 DEF Attended, Working
<1>9. ASSUME NEW o \in Incarnations, Start(o) \/ Stop(o) \/ RecoverRead(o)
      PROVE  /\ UNCHANGED <<status, owner, pc>>
             /\ \A p \in Incarnations : phase[p] = "dead" => phase'[p] = "dead"
  BY <1>1, <1>9 DEF Start, Stop, Up, RecoverRead, jobVars
<1>10. ASSUME NEW j \in Jobs, CancelRead(j) PROVE UNCHANGED <<status, owner, pc, phase>>
  BY <1>10 DEF CancelRead, jobVars
<1>11. UNCHANGED quietVars => UNCHANGED <<status, owner, pc, phase>>
  BY DEF quietVars
<1>12. QED
  BY <1>2, <1>3, <1>4, <1>5, <1>6, <1>7, <1>8, <1>9, <1>10, <1>11, StepKinds

\* Whoever closes, requeues, loses or renews it, and however many workers a stopped process
\* has left behind, a running job has a worker that will close it, or its process is dead.
THEOREM NoAbandonedRunningJob == Spec => []RunningJobHasWorker
<1>1. Init => Attended
  BY DEF Init, Attended
<1>2. TypeOK /\ Attended /\ [Next]_vars => Attended'
  BY AttendedStep
<1>3. Attended => RunningJobHasWorker
  BY DEF Attended, RunningJobHasWorker
<1>4. QED
  BY <1>1, <1>2, <1>3, TypeCorrect, PTL DEF Spec

-----------------------------------------------------------------------------
(* Where no process is replaced before its workers have ended.             *)

\* Workers live in the process that serves.
WorkersServe ==
    /\ \A o \in Incarnations : phase[o] # "draining"
    /\ \A o \in Incarnations, j \in Jobs : Working(o, j) => Up(o)

\* A job with replies is completed, or was cancelled by a request that had read it as queued,
\* and no recovery will reopen it; a worker that is about to fail its job has not answered it.
AnsweredIsOver ==
    /\ \A j \in Jobs :
          replies[j] # 0 => status[j] \in {"completed", "cancelled"} /\ j \notin recovering
    /\ \A o \in Incarnations, j \in Jobs :
          pc[o][j] \in {"failing", "closeFailed"} => replies[j] = 0

\* Until its answer is stored, the job of a worker runs unless its user has cancelled it.
AnsweringRuns ==
    \A o \in Incarnations, j \in Jobs :
        pc[o][j] \in {"claimed", "generating", "finalizing"} /\ ~cancelReq[j]
            => status[j] = "running"

OneProcess == Inv /\ WorkersServe /\ AnsweredIsOver /\ AnsweringRuns

LEMMA OneProcessWork ==
  ASSUME OneProcess, NEW o \in Incarnations, NEW j \in Jobs, Work(o, j)
  PROVE  WorkersServe' /\ AnsweredIsOver' /\ AnsweringRuns'
<1>1. TypeOK /\ OneHolder /\ SnapshotOwned /\ Working(o, j) /\ Up(o)
  BY WorkerFootprint DEF OneProcess, Inv, WorkersServe
<1>2. /\ phase' = phase /\ recovering' = recovering /\ cancelReq' = cancelReq /\ recovering = {}
      /\ \A p \in Incarnations, k \in Jobs : Working(p, k) => p = o
  <2>1. \A p \in Incarnations : Holds(p) => p = o
    BY <1>1 DEF OneHolder, Holds, Up
  <2>2. recovering = {}
    BY <1>1, <2>1 DEF SnapshotOwned, Holds, Up
  <2>3. QED
    BY <1>1, <2>1, <2>2, WorkerFootprint DEF OneProcess, WorkersServe, Holds, Up
<1>3. \A p \in Incarnations, k \in Jobs : pc'[p][k] = pc[p][k] \/ (p = o /\ k = j)
  BY <1>1, WorkerFootprint
<1>4. \A k \in Jobs : k # j => status'[k] = status[k] /\ replies'[k] = replies[k]
  BY <1>1, WorkerFootprint
<1>5. WorkersServe'
  BY <1>1, <1>2, <1>3 DEF OneProcess, WorkersServe, Working, Up
<1>6. \A k \in Jobs : replies'[k] # 0 => status'[k] \in {"completed", "cancelled"}
  <2>1. SUFFICES ASSUME replies'[j] # 0 PROVE status'[j] \in {"completed", "cancelled"}
    BY <1>4 DEF OneProcess, AnsweredIsOver
  <2>2. CASE replies'[j] # replies[j]
    BY <1>1, <2>2, WorkerWrites
  <2>3. CASE replies'[j] = replies[j]
    <3>1. status[j] \in {"completed", "cancelled"} /\ pc[o][j] \notin {"failing", "closeFailed"}
      BY <2>1, <2>3 DEF OneProcess, AnsweredIsOver
    <3>2. status'[j] \in Terminal /\ status'[j] # "failed"
      BY <1>1, <3>1, WorkerFootprint, WorkerWrites DEF Terminal
    <3>3. QED
      BY <3>2 DEF Terminal
  <2>4. QED
    BY <2>2, <2>3
<1>7. ASSUME NEW p \in Incarnations, NEW k \in Jobs, pc'[p][k] \in {"failing", "closeFailed"}
      PROVE  replies'[k] = 0
  <2>1. CASE p = o /\ k = j
    <3>1. status[j] = "running" /\ status' = status
      BY <1>1, <1>7, <2>1, WorkerLabels
    <3>2. replies[j] = 0
      BY <3>1 DEF OneProcess, AnsweredIsOver
    <3>3. QED
      BY <1>1, <2>1, <3>1, <3>2, WorkerWrites
  <2>2. CASE ~(p = o /\ k = j)
    <3>1. pc[p][k] = pc'[p][k] /\ replies[k] = 0
      BY <1>3, <1>7, <2>2 DEF OneProcess, AnsweredIsOver
    <3>2. p = o /\ k # j
      BY <1>2, <1>7, <2>2, <3>1 DEF Working
    <3>3. QED
      BY <1>4, <3>1, <3>2
  <2>3. QED
    BY <2>1, <2>2
<1>8. ASSUME NEW p \in Incarnations, NEW k \in Jobs,
             pc'[p][k] \in {"claimed", "generating", "finalizing"}, ~cancelReq'[k]
      PROVE  status'[k] = "running"
  <2>1. CASE p = o /\ k = j
    <3>1. CASE pc'[o][j] = "generating"
      BY <1>1, <2>1, <3>1, WorkerLabels
    <3>2. CASE pc'[o][j] = "finalizing"
      BY <1>1, <2>1, <3>2, WorkerLabels DEF OneProcess, AnsweringRuns
    <3>3. QED
      BY <1>1, <1>8, <2>1, <3>1, <3>2, WorkerLabels
  <2>2. CASE ~(p = o /\ k = j)
    <3>1. pc[p][k] = pc'[p][k] /\ p = o /\ k # j
      BY <1>2, <1>3, <1>8, <2>2 DEF Working
    <3>2. QED
      BY <1>2, <1>4, <1>8, <3>1 DEF OneProcess, AnsweringRuns
  <2>3. QED
    BY <2>1, <2>2
<1>9. QED
  BY <1>2, <1>5, <1>6, <1>7, <1>8 DEF AnsweredIsOver, AnsweringRuns

LEMMA OneProcessStep ==
  ASSUME ~Draining, OneProcess, [Next]_vars
  PROVE  OneProcess'
<1>1. /\ Inv' /\ TypeOK /\ OneHolder /\ SnapshotOwned
      /\ phase \in [Incarnations -> Phase] /\ pc \in [Incarnations -> [Jobs -> WorkerPc]]
      /\ \A o \in Incarnations, j \in Jobs : Working(o, j) <=> pc[o][j] # "idle"
  BY InvStep DEF OneProcess, Inv, TypeOK, Working
<1> DEFINE Kept == WorkersServe' /\ AnsweredIsOver' /\ AnsweringRuns'
<1>2. ASSUME NEW o \in Incarnations, NEW j \in Jobs, Work(o, j) PROVE Kept
  BY <1>2, OneProcessWork
<1>3. ASSUME NEW o \in Incarnations, Claim(o) PROVE Kept
  <2>1. replies[pick] = 0
    BY <1>1, <1>3, ClaimEffect DEF OneProcess, AnsweredIsOver
  <2>2. WorkersServe'
    BY <1>1, <1>3, ClaimEffect DEF OneProcess, WorkersServe, Working, Up
  <2>3. AnsweredIsOver'
    BY <1>1, <1>3, <2>1, ClaimEffect DEF OneProcess, AnsweredIsOver
  <2>4. AnsweringRuns'
    BY <1>1, <1>3, ClaimEffect DEF OneProcess, AnsweringRuns
  <2>5. QED
    BY <2>2, <2>3, <2>4
<1>4. ASSUME NEW o \in Incarnations, Crash(o) PROVE Kept
  <2>1. WorkersServe'
    BY <1>1, <1>4, CrashEffect DEF OneProcess, WorkersServe, Working, Up
  <2>2. AnsweredIsOver' /\ AnsweringRuns'
    BY <1>1, <1>4, CrashEffect DEF OneProcess, AnsweredIsOver, AnsweringRuns
  <2>3. QED
    BY <2>1, <2>2
<1>5. ASSUME NEW o \in Incarnations, RecoverCommit(o) PROVE Kept
  <2>1. \A p \in Incarnations, j \in Jobs : pc[p][j] = "idle"
    BY <1>1, <1>5, RecoverCommitEffect DEF OneProcess, WorkersServe, OneHolder, Holds, Up
  <2>2. QED
    BY <1>1, <1>5, <2>1, RecoverCommitEffect
    DEF OneProcess, WorkersServe, AnsweredIsOver, AnsweringRuns, Working
<1>6. ASSUME NEW o \in Incarnations, RecoverRead(o) PROVE Kept
  <2>1. /\ phase[o] = "starting" /\ phase' = [phase EXCEPT ![o] = "recovering"]
        /\ recovering' \subseteq {j \in Jobs : status[j] = "running"}
        /\ UNCHANGED <<status, replies, cancelReq, pc>>
    BY <1>6 DEF RecoverRead, jobVars
  <2>2. QED
    BY <1>1, <2>1 DEF OneProcess, WorkersServe, AnsweredIsOver, AnsweringRuns, Working, Up
<1>7. ASSUME NEW j \in Jobs, CancelCommit(j) PROVE Kept
  <2>1. WorkersServe'
    BY <1>1, <1>7, CancelCommitEffect DEF OneProcess, WorkersServe, Working, Up
  <2>2. AnsweredIsOver' /\ AnsweringRuns'
    BY <1>1, <1>7, CancelCommitEffect DEF OneProcess, AnsweredIsOver, AnsweringRuns
  <2>3. QED
    BY <2>1, <2>2
<1>8. ASSUME NEW j \in Jobs, Enqueue(j) PROVE Kept
  <2>1. WorkersServe'
    BY <1>1, <1>8, EnqueueEffect DEF OneProcess, WorkersServe, Working, Up
  <2>2. AnsweredIsOver' /\ AnsweringRuns'
    BY <1>1, <1>8, EnqueueEffect DEF OneProcess, AnsweredIsOver, AnsweringRuns
  <2>3. QED
    BY <2>1, <2>2
<1>9. ASSUME NEW o \in Incarnations, Start(o) \/ Stop(o) PROVE Kept
  <2>1. Start(o)
    BY <1>9 DEF Stop
  <2>2. /\ phase[o] = "off" /\ phase' = [phase EXCEPT ![o] = "starting"]
        /\ UNCHANGED <<status, replies, cancelReq, recovering, pc>>
    BY <2>1 DEF Start, jobVars
  <2>3. QED
    BY <1>1, <2>2 DEF OneProcess, WorkersServe, AnsweredIsOver, AnsweringRuns, Working, Up
<1>10. ASSUME UNCHANGED <<status, replies, cancelReq, recovering, pc, phase>> PROVE Kept
  <2>1. WorkersServe'
    BY <1>10 DEF OneProcess, WorkersServe, Working, Up
  <2>2. AnsweredIsOver' /\ AnsweringRuns'
    BY <1>10 DEF OneProcess, AnsweredIsOver, AnsweringRuns
  <2>3. QED
    BY <2>1, <2>2
<1>11. ASSUME NEW j \in Jobs, CancelRead(j)
       PROVE  UNCHANGED <<status, replies, cancelReq, recovering, pc, phase>>
  BY <1>11 DEF CancelRead, jobVars
<1>12. UNCHANGED quietVars => UNCHANGED <<status, replies, cancelReq, recovering, pc, phase>>
  BY DEF quietVars
<1> HIDE DEF Kept
<1>13. Kept
  BY <1>2, <1>3, <1>4, <1>5, <1>6, <1>7, <1>8, <1>9, <1>10, <1>11, <1>12, StepKinds
<1>14. QED
  BY <1>1, <1>13 DEF OneProcess, Kept

LEMMA OneProcessAlways == ASSUME ~Draining PROVE Spec => []OneProcess
<1>1. Init => OneProcess
  BY InitInv DEF Init, OneProcess, WorkersServe, AnsweredIsOver, AnsweringRuns, Working
<1>2. OneProcess /\ [Next]_vars => OneProcess'
  BY OneProcessStep
<1>3. QED
  BY <1>1, <1>2, PTL DEF Spec

\* Where a process is not replaced before its workers have ended, a turn that is reported as
\* failed has no replies in its room, wherever the failure, the crash or the requeue fell.
THEOREM FailureIsSilent == ASSUME ~Draining PROVE Spec => []FailedTurnHasNoReplies
<1>1. OneProcess => FailedTurnHasNoReplies
  BY DEF OneProcess, AnsweredIsOver, FailedTurnHasNoReplies
<1>2. QED
  BY <1>1, OneProcessAlways, PTL

\* There, two workers are never busy with two turns of one room, unless the user has
\* cancelled one of them.
THEOREM TurnsDoNotOverlap == ASSUME ~Draining PROVE Spec => []SerialTurns
<1>1. OneProcess => SerialTurns
  BY DEF OneProcess, Inv, AnsweringRuns, OneRunningPerRoom, SerialTurns
<1>2. QED
  BY <1>1, OneProcessAlways, PTL

-----------------------------------------------------------------------------
(* The queue keeps the promise of TurnLedger.                              *)

\* A job that is not there yet has no worker, no reply, no user who cancels it, and no
\* recovery that could bring it back.
NothingBeforeTheRow ==
    \A j \in Jobs : status[j] = "absent" =>
        /\ replies[j] = 0 /\ canceller[j] = "none" /\ j \notin recovering
        /\ \A o \in Incarnations : pc[o][j] = "idle"

\* The turns ahead of one that has a worker are over for good: nobody has read them as
\* running, so nobody will requeue them.
AheadIsOver ==
    \A o \in Incarnations, j \in Jobs : Working(o, j) =>
        \A k \in ahead[j] : status[k] \in Terminal /\ k \notin recovering

TurnInv == Inv /\ NothingBeforeTheRow /\ AheadIsOver

LEMMA TurnInvWork ==
  ASSUME TurnInv, NEW o \in Incarnations, NEW j \in Jobs, Work(o, j)
  PROVE  NothingBeforeTheRow' /\ AheadIsOver'
<1>1. /\ TypeOK /\ Working(o, j) /\ status[j] # "absent" /\ status'[j] # "absent"
      /\ UNCHANGED <<canceller, recovering, ahead>>
  BY WorkerFootprint DEF TurnInv, Inv, NothingBeforeTheRow, Working, Terminal
<1>2. \A k \in Jobs : k # j => /\ status'[k] = status[k] /\ replies'[k] = replies[k]
                              /\ \A p \in Incarnations : pc'[p][k] = pc[p][k]
  BY <1>1, WorkerFootprint
<1>3. NothingBeforeTheRow'
  BY <1>1, <1>2 DEF TurnInv, NothingBeforeTheRow
<1>4. \A p \in Incarnations, k \in Jobs : Working(p, k)' => Working(p, k)
  BY <1>1, WorkerFootprint DEF Working
<1>5. \A k \in Jobs : status[k] \in Terminal => status'[k] \in Terminal
  BY <1>1, WorkerFootprint
<1>6. AheadIsOver'
  BY <1>1, <1>4, <1>5 DEF TurnInv, AheadIsOver, TypeOK
<1>7. QED
  BY <1>3, <1>6

LEMMA TurnInvStep ==
  ASSUME TurnInv, [Next]_vars
  PROVE  TurnInv'
<1>1. /\ Inv' /\ TypeOK /\ PickAlone /\ AheadAccepted /\ OneHolder /\ SnapshotOwned
      /\ ahead \in [Jobs -> SUBSET Jobs]
      /\ \A o \in Incarnations, j \in Jobs : Working(o, j) <=> pc[o][j] # "idle"
  BY InvStep DEF TurnInv, Inv, TypeOK, Working
<1> DEFINE Kept == NothingBeforeTheRow' /\ AheadIsOver'
<1>2. ASSUME NEW o \in Incarnations, NEW j \in Jobs, Work(o, j) PROVE Kept
  BY <1>2, TurnInvWork
<1>3. ASSUME NEW o \in Incarnations, Claim(o) PROVE Kept
  <2>1. recovering = {}
    BY <1>1, <1>3, ClaimEffect DEF OneHolder, SnapshotOwned, Holds, Up
  <2>2. \A k \in ahead[pick] : status[k] \in Terminal
    BY <1>1, <1>3, ClaimEffect, QueueAssumption DEF PickAlone, Jobs
  <2>3. NothingBeforeTheRow'
    BY <1>1, <1>3, ClaimEffect DEF TurnInv, NothingBeforeTheRow
  <2>4. AheadIsOver'
    <3>1. \A k \in Jobs : status[k] \in Terminal => status'[k] \in Terminal
      BY <1>1, <1>3, ClaimEffect DEF Terminal
    <3>2. \A p \in Incarnations, j \in Jobs : Working(p, j)' => j = pick \/ Working(p, j)
      BY <1>1, <1>3, ClaimEffect DEF Working
    <3>3. ahead' = ahead /\ recovering' = recovering
      BY <1>1, <1>3, ClaimEffect
    <3>4. QED
      BY <1>1, <2>1, <2>2, <3>1, <3>2, <3>3 DEF TurnInv, AheadIsOver
  <2>5. QED
    BY <2>3, <2>4
<1>4. ASSUME NEW o \in Incarnations, Crash(o) PROVE Kept
  <2>1. NothingBeforeTheRow'
    BY <1>1, <1>4, CrashEffect DEF TurnInv, NothingBeforeTheRow
  <2>2. AheadIsOver'
    BY <1>1, <1>4, CrashEffect DEF TurnInv, AheadIsOver, Working
  <2>3. QED
    BY <2>1, <2>2
<1>5. ASSUME NEW o \in Incarnations, RecoverCommit(o) PROVE Kept
  <2>1. NothingBeforeTheRow'
    BY <1>1, <1>5, RecoverCommitEffect DEF TurnInv, NothingBeforeTheRow
  <2>2. AheadIsOver'
    BY <1>1, <1>5, RecoverCommitEffect DEF TurnInv, AheadIsOver, Working
  <2>3. QED
    BY <2>1, <2>2
<1>6. ASSUME NEW o \in Incarnations, RecoverRead(o) PROVE Kept
  <2>1. /\ recovering' \subseteq {j \in Jobs : status[j] = "running"}
        /\ UNCHANGED <<status, replies, canceller, pc, ahead>>
    BY <1>6 DEF RecoverRead, jobVars
  <2>2. NothingBeforeTheRow'
    BY <2>1 DEF TurnInv, NothingBeforeTheRow
  <2>3. AheadIsOver'
    BY <1>1, <2>1 DEF TurnInv, AheadIsOver, Working, Terminal
  <2>4. QED
    BY <2>2, <2>3
<1>7. ASSUME NEW j \in Jobs, CancelCommit(j) PROVE Kept
  <2>1. status[j] # "absent"
    BY <1>1, <1>7, CancelCommitEffect DEF TurnInv, NothingBeforeTheRow
  <2>2. NothingBeforeTheRow'
    BY <1>1, <1>7, <2>1, CancelCommitEffect DEF TurnInv, NothingBeforeTheRow
  <2>3. AheadIsOver'
    <3>1. \A k \in Jobs : status[k] \in Terminal => status'[k] \in Terminal
      BY <1>1, <1>7, CancelCommitEffect DEF Terminal
    <3>2. UNCHANGED <<pc, ahead, recovering>>
      BY <1>1, <1>7, CancelCommitEffect
    <3>3. QED
      BY <1>1, <3>1, <3>2 DEF TurnInv, AheadIsOver, Working
  <2>4. QED
    BY <2>2, <2>3
<1>8. ASSUME NEW j \in Jobs, CancelRead(j) PROVE Kept
  <2>1. /\ status[j] # "absent" /\ canceller' = [canceller EXCEPT ![j] = status[j]]
        /\ UNCHANGED <<status, replies, recovering, pc, ahead>>
    BY <1>8 DEF CancelRead, jobVars
  <2>2. NothingBeforeTheRow'
    BY <1>1, <2>1 DEF TurnInv, NothingBeforeTheRow, TypeOK
  <2>3. AheadIsOver'
    BY <2>1 DEF TurnInv, AheadIsOver, Working
  <2>4. QED
    BY <2>2, <2>3
<1>9. ASSUME NEW j \in Jobs, Enqueue(j) PROVE Kept
  <2>1. /\ \A k \in Jobs : status[k] # "absent" => k # j
        /\ \A o \in Incarnations : ~Working(o, j)
    BY <1>1, <1>9, EnqueueEffect DEF TurnInv, NothingBeforeTheRow
  <2>2. NothingBeforeTheRow'
    BY <1>1, <1>9, EnqueueEffect DEF TurnInv, NothingBeforeTheRow
  <2>3. AheadIsOver'
    BY <1>1, <1>9, <2>1, EnqueueEffect DEF TurnInv, AheadIsOver, AheadAccepted, Working
  <2>4. QED
    BY <2>2, <2>3
<1>10. ASSUME UNCHANGED <<status, replies, canceller, recovering, pc, ahead>> PROVE Kept
  <2>1. NothingBeforeTheRow'
    BY <1>10 DEF TurnInv, NothingBeforeTheRow
  <2>2. AheadIsOver'
    BY <1>10 DEF TurnInv, AheadIsOver, Working
  <2>3. QED
    BY <2>1, <2>2
<1>11. ASSUME NEW o \in Incarnations, Start(o) \/ Stop(o)
       PROVE  UNCHANGED <<status, replies, canceller, recovering, pc, ahead>>
  BY <1>11 DEF Start, Stop, jobVars
<1>12. UNCHANGED quietVars => UNCHANGED <<status, replies, canceller, recovering, pc, ahead>>
  BY DEF quietVars
<1> HIDE DEF Kept
<1>13. Kept
  BY <1>2, <1>3, <1>4, <1>5, <1>6, <1>7, <1>8, <1>9, <1>10, <1>11, <1>12, StepKinds
<1>14. QED
  BY <1>1, <1>13 DEF TurnInv, Kept

LEMMA TurnInvAlways == Spec => []TurnInv
<1>1. Init => TurnInv
  BY InitInv DEF Init, TurnInv, NothingBeforeTheRow, AheadIsOver, Working
<1>2. TurnInv /\ [Next]_vars => TurnInv'
  BY TurnInvStep
<1>3. QED
  BY <1>1, <1>2, PTL DEF Spec

-----------------------------------------------------------------------------
\* What the room sees of a row, before and after a step.
Seen(r, s) == IF r # 0 THEN "answered"
              ELSE IF s = "absent" THEN "none"
              ELSE IF s \in {"queued", "running"} THEN "open" ELSE "abandoned"

LEMMA TurnSeen ==
  /\ Turn = [j \in Jobs |-> Seen(replies[j], status[j])]
  /\ Turn' = [j \in Jobs |-> Seen(replies'[j], status'[j])]
  BY DEF Turn, Seen

\* A step after which the room sees the same is a stutter.
LEMMA SameView ==
  ASSUME UNCHANGED ahead,
         \A j \in Jobs : Seen(replies'[j], status'[j]) = Seen(replies[j], status[j])
  PROVE  UNCHANGED <<Turn, ahead>>
  BY TurnSeen

LEMMA OneTurnChanges ==
  ASSUME NEW j \in Jobs,
         \A k \in Jobs : k # j => Seen(replies'[k], status'[k]) = Seen(replies[k], status[k])
  PROVE  Turn' = [Turn EXCEPT ![j] = Seen(replies'[j], status'[j])]
<1> DEFINE old == [k \in Jobs |-> Seen(replies[k], status[k])]
           new == [k \in Jobs |-> Seen(replies'[k], status'[k])]
<1>1. \A k \in Jobs : new[k] = IF k = j THEN Seen(replies'[j], status'[j]) ELSE old[k]
  OBVIOUS
<1>2. new = [old EXCEPT ![j] = Seen(replies'[j], status'[j])]
  BY <1>1
<1>3. QED
  BY <1>2, TurnSeen

\* Closing a job, whoever does it, gives its turn up or is a stutter.
LEMMA ClosingIsSeen ==
  ASSUME NEW j \in Jobs, status[j] # "absent", status'[j] \in Terminal, UNCHANGED <<replies, ahead>>,
         \A k \in Jobs : k # j => status'[k] = status[k]
  PROVE  Ledger!Abandon(j) \/ UNCHANGED <<Turn, ahead>>
<1>1. CASE Seen(replies[j], status[j]) = "open"
  <2>1. replies[j] = 0
    BY <1>1 DEF Seen
  <2>2. Seen(replies'[j], status'[j]) = "abandoned"
    BY <2>1 DEF Seen, Terminal
  <2>3. Turn[j] = "open" /\ Turn' = [Turn EXCEPT ![j] = "abandoned"]
    BY <1>1, <2>2, OneTurnChanges, TurnSeen
  <2>4. QED
    BY <2>3 DEF Ledger!Abandon
<1>2. CASE Seen(replies[j], status[j]) # "open"
  <2>1. Seen(replies'[j], status'[j]) = Seen(replies[j], status[j])
    BY <1>2 DEF Seen, Terminal
  <2>2. QED
    BY <2>1, SameView
<1>3. QED
  BY <1>1, <1>2

\* A worker answers a turn, gives it up, or does what the room does not see.
LEMMA WorkIsSeen ==
  ASSUME TurnInv, NEW o \in Incarnations, NEW j \in Jobs, Work(o, j)
  PROVE  Ledger!LedgerNext \/ UNCHANGED <<Turn, ahead>>
<1>1. /\ TypeOK /\ Working(o, j) /\ status[j] # "absent" /\ UNCHANGED ahead
      /\ \A k \in Jobs : k # j => status'[k] = status[k] /\ replies'[k] = replies[k]
  BY WorkerFootprint DEF TurnInv, Inv, NothingBeforeTheRow, Working
<1>2. CASE replies'[j] # replies[j]
  <2>1. replies[j] = 0 /\ replies'[j] # 0
    BY <1>1, <1>2, WorkerWrites
  <2>2. Turn' = [Turn EXCEPT ![j] = "answered"]
    BY <1>1, <2>1, OneTurnChanges DEF Seen
  <2>3. \A k \in ahead[j] : k \in Jobs /\ status[k] \in Terminal
    BY <1>1 DEF TurnInv, AheadIsOver, TypeOK
  <2>4. \A k \in ahead[j] : Turn[k] \in {"answered", "abandoned"}
    BY <2>3, TurnSeen DEF Seen, Terminal
  <2>5. Turn[j] \in {"open", "abandoned"}
    BY <1>1, <2>1, TurnSeen DEF Seen
  <2>6. Ledger!Answer(j) \/ Ledger!AnswerLate(j)
    BY <1>1, <2>2, <2>4, <2>5 DEF Ledger!Answer, Ledger!AnswerLate
  <2>7. QED
    BY <2>6 DEF Ledger!LedgerNext
<1>3. CASE replies'[j] = replies[j]
  <2>1. replies' = replies
    BY <1>1, <1>3, TypeStep DEF TypeOK, Next
  <2>2. CASE status'[j] \in Terminal
    BY <1>1, <2>1, <2>2, ClosingIsSeen DEF Ledger!LedgerNext
  <2>3. CASE status'[j] = status[j]
    BY <1>1, <2>1, <2>3, SameView
  <2>4. QED
    BY <1>1, <2>2, <2>3, WorkerFootprint
<1>4. QED
  BY <1>2, <1>3

\* Recovery reopens what workers of the former process have given up meanwhile.
LEMMA RequeueIsSeen ==
  ASSUME TurnInv, NEW o \in Incarnations, RecoverCommit(o)
  PROVE  Ledger!LedgerNext \/ UNCHANGED <<Turn, ahead>>
<1> DEFINE S == {j \in recovering : Seen(replies[j], status[j]) = "abandoned"}
<1>1. /\ TypeOK /\ recovering \subseteq Jobs /\ UNCHANGED <<replies, ahead>>
      /\ \A j \in Jobs : status'[j] = IF j \in recovering THEN "queued" ELSE status[j]
      /\ \A j \in recovering : status[j] # "absent"
  BY RecoverCommitEffect DEF TurnInv, Inv, TypeOK, NothingBeforeTheRow
<1>2. \A j \in Jobs : Seen(replies'[j], status'[j]) =
                        IF j \in S THEN "open" ELSE Seen(replies[j], status[j])
  BY <1>1 DEF Seen
<1>3. CASE S = {}
  BY <1>1, <1>2, <1>3, SameView
<1>4. CASE S # {}
  <2>1. Turn' = [j \in Jobs |-> IF j \in S THEN "open" ELSE Turn[j]]
    BY <1>2, TurnSeen
  <2>2. S \in SUBSET Jobs /\ \A j \in S : Turn[j] = "abandoned"
    BY <1>1, TurnSeen
  <2>3. Ledger!Reopen(S)
    BY <1>1, <1>4, <2>1, <2>2 DEF Ledger!Reopen
  <2>4. QED
    BY <2>2, <2>3 DEF Ledger!LedgerNext
<1>5. QED
  BY <1>3, <1>4

LEMMA EnqueueIsSeen ==
  ASSUME TurnInv, NEW j \in Jobs, Enqueue(j)
  PROVE  Ledger!Open(j)
<1>1. /\ TypeOK /\ status[j] = "absent" /\ replies[j] = 0 /\ UNCHANGED replies
      /\ \A k \in Jobs : status'[k] = IF k = j THEN "queued" ELSE status[k]
      /\ ahead' = [ahead EXCEPT ![j] = ahead'[j]]
      /\ ahead'[j] = {k \in 1..(j - 1) : SameRoom(j, k) /\ status[k] \in {"queued", "running"}}
  BY EnqueueEffect DEF TurnInv, Inv, NothingBeforeTheRow
<1>2. Turn[j] = "none" /\ Turn' = [Turn EXCEPT ![j] = "open"]
  BY <1>1, OneTurnChanges, TurnSeen DEF Seen
<1>3. ahead'[j] \in SUBSET {k \in Jobs : k < j /\ ConvOf[k] = ConvOf[j]}
  BY <1>1, QueueAssumption DEF Jobs, SameRoom
<1>4. \A k \in ahead'[j] : Turn[k] # "none"
  BY <1>1, <1>3, TurnSeen DEF Seen
<1>5. \A k \in Jobs : k < j /\ ConvOf[k] = ConvOf[j] /\ Turn[k] = "open" => k \in ahead'[j]
  <2>1. \A k \in Jobs : k < j => k \in 1..(j - 1)
    BY QueueAssumption DEF Jobs
  <2>2. \A k \in Jobs : Turn[k] = "open" => status[k] \in {"queued", "running"}
    BY TurnSeen DEF Seen
  <2>3. QED
    BY <1>1, <2>1, <2>2 DEF SameRoom
<1>6. QED
  BY <1>1, <1>2, <1>3, <1>4, <1>5 DEF Ledger!Open

LEMMA LedgerStep ==
  ASSUME TurnInv, [Next]_vars
  PROVE  [Ledger!LedgerNext]_<<Turn, ahead>>
<1>1. TypeOK
  BY DEF TurnInv, Inv
<1>2. ASSUME NEW o \in Incarnations, Claim(o) PROVE UNCHANGED <<Turn, ahead>>
  <2>1. \A j \in Jobs : Seen(replies'[j], status'[j]) = Seen(replies[j], status[j])
    BY <1>1, <1>2, ClaimEffect DEF Seen
  <2>2. QED
    BY <1>1, <1>2, <2>1, ClaimEffect, SameView
<1>3. ASSUME NEW j \in Jobs, CancelCommit(j)
      PROVE  Ledger!LedgerNext \/ UNCHANGED <<Turn, ahead>>
  <2>1. /\ status[j] # "absent" /\ UNCHANGED <<replies, ahead>>
        /\ \A k \in Jobs : k # j => status'[k] = status[k]
        /\ status'[j] = "cancelled" \/ status'[j] = status[j]
    BY <1>1, <1>3, CancelCommitEffect DEF TurnInv, NothingBeforeTheRow
  <2>2. CASE status'[j] = "cancelled"
    BY <2>1, <2>2, ClosingIsSeen DEF Ledger!LedgerNext, Terminal
  <2>3. CASE status'[j] = status[j]
    BY <2>1, <2>3, SameView
  <2>4. QED
    BY <2>1, <2>2, <2>3
<1>4. ASSUME UNCHANGED <<status, replies, ahead>> PROVE UNCHANGED <<Turn, ahead>>
  BY <1>4, SameView
<1>5. ASSUME NEW o \in Incarnations, Start(o) \/ Stop(o) \/ Crash(o) \/ RecoverRead(o)
      PROVE  UNCHANGED <<status, replies, ahead>>
  BY <1>5 DEF Start, Stop, Crash, RecoverRead, jobVars
<1>6. ASSUME NEW j \in Jobs, CancelRead(j) PROVE UNCHANGED <<status, replies, ahead>>
  BY <1>6 DEF CancelRead, jobVars
<1>7. UNCHANGED quietVars => UNCHANGED <<status, replies, ahead>>
  BY DEF quietVars
<1>8. ASSUME NEW j \in Jobs, Enqueue(j) PROVE Ledger!LedgerNext
  BY <1>8, EnqueueIsSeen DEF Ledger!LedgerNext
<1>9. QED
  BY <1>2, <1>3, <1>4, <1>5, <1>6, <1>7, <1>8, WorkIsSeen, RequeueIsSeen, StepKinds

\* The queue implements the ledger of turns, for any number of jobs, rooms, workers and
\* restarts: a turn is answered by one step, once, after the turns that waited before it.
THEOREM QueueKeepsLedger == Spec => KeepsLedger
<1>1. Init => Ledger!LedgerInit
  <2>1. SUFFICES ASSUME Init PROVE Ledger!LedgerInit
    OBVIOUS
  <2>2. \A j \in Jobs : Seen(replies[j], status[j]) = "none"
    BY <2>1 DEF Init, Seen
  <2>3. Turn = [j \in Jobs |-> "none"] /\ ahead = [j \in Jobs |-> {}]
    BY <2>1, <2>2, TurnSeen DEF Init
  <2>4. QED
    BY <2>3 DEF Ledger!LedgerInit
<1>2. TurnInv /\ [Next]_vars => [Ledger!LedgerNext]_<<Turn, ahead>>
  BY LedgerStep
<1>3. QED
  BY <1>1, <1>2, TurnInvAlways, PTL DEF Spec, KeepsLedger, Ledger!LedgerSpec
=============================================================================

--------------------------- MODULE RoomClientProofs ---------------------------
(***************************************************************************)
(* For any requests, commands, characters and bounds: a message that is    *)
(* taken in has its turn, and is taken in once; a command that has been    *)
(* cleared stays out; the ledger tells what its matches say, and results   *)
(* stand; the browser that follows the turn receives the events of its job *)
(* once and in order, never waits for nothing, and shows as answered only  *)
(* what has been completed.                                                *)
(***************************************************************************)
EXTENDS RoomClient, FiniteSetTheorems, WellFoundedInduction, TLAPS

\* The steps of intake that a room takes: those of the handlers, and a request of the browser.
Takes(r) == Spend("browse") /\ Take(r)
IntakeMoves == Next \/ \E r \in Requests : Takes(r)

Fates == {"none", "job", "awaited", "answered", "failed", "cut"}
AtMessage == {"control", "scene", "turn"}

\* The log is a sequence of entries, and the handler at work is at the end of it.
Entry == [req : Requests, live : BOOLEAN, fate : Fates]
LogTypeOK == log \in Seq(Entry)
LeftTypeOK == left \in [Kinds -> Nat]
DeskShape ==
    \/ desk = Idle
    \/ /\ "at" \in DOMAIN desk
       /\ desk.at \in {"prepare", "store"} \union AtMessage
       /\ desk.req \in Requests
       /\ desk.at \in AtMessage => desk.msg = Len(log) /\ Len(log) > 0 /\ log[desk.msg].fate = "none"
                                   /\ log[desk.msg].req = desk.req


\* What has no turn yet is the message at the desk.
PendingAtDesk == \A i \in DOMAIN log : IsLive(i) /\ log[i].fate = "none" => desk.at \in AtMessage /\ desk.msg = i

IntakeInv == LogTypeOK /\ LeftTypeOK /\ DeskShape /\ PendingAtDesk


\* The jobs are those of the log, and the events tell which have ended.
JobStatus == Terminal \union {"queued", "running"}
JobsTypeOK == job \in [JobsOf(log) -> JobStatus]
EventsTypeOK == events \in Seq([msg : Nat, status : JobStatus])
EventsTell ==
    /\ \A k \in DOMAIN events : /\ events[k].msg \in DOMAIN job
                                /\ events[k].status \in Terminal => job[events[k].msg] \in Terminal
    /\ \A i \in DOMAIN job :
          job[i] \in Terminal => \E k \in DOMAIN events : events[k].msg = i /\ events[k].status \in Terminal

\* What the browser knows of the job that it follows
Following == {"watching", "asking", "polling", "loading", "pending", "answered"}
Browsers ==
    [at : Following \union {"off", "ready", "posting", "failed"}, req : Requests \union {None}, msg : Nat,
     link : {"none", "connecting", "open", "dead"}, errors : Nat, timer : BOOLEAN, seen : Seq(Nat),
     polls : Nat, shown : BOOLEAN, done : SUBSET (Requests \union {None})]
BrowserTypeOK == browser \in Browsers
BrowserFollows ==
    /\ browser.at = "posting" => desk # Idle /\ desk.req \in Sends
    /\ browser.at \in Following => browser.msg \in DOMAIN job
    /\ browser.at = "asking" => job[browser.msg] \in Terminal
    /\ browser.at \in {"loading", "answered"} => job[browser.msg] = "completed" /\ browser.shown

\* The stream's connection: the timer runs until it has been open once.
LinkOK ==
    /\ browser.link # "none" <=> browser.at = "watching"
    /\ browser.timer => browser.at = "watching"
    /\ browser.link = "open" => browser.errors = 0
    /\ MaxErrors <= 2 => /\ browser.link = "connecting" /\ ~browser.timer => browser.errors >= 1
                         /\ browser.link = "dead" => browser.timer
SeenKnown == browser.at = "watching" => Cursor <= Len(events)

ClientInv == /\ JobsTypeOK /\ EventsTypeOK /\ EventsTell /\ BrowserTypeOK /\ BrowserFollows /\ LinkOK
             /\ SeenKnown /\ EventsOnceInOrder
RoomInv == IntakeInv /\ ClientInv

-----------------------------------------------------------------------------
\* A set of numbers from an interval has a least and a greatest element.
LEMMA LeastExists ==
  ASSUME NEW n \in Nat, NEW S, S \subseteq 1..n, S # {}
  PROVE  \E m \in S : \A x \in S : m <= x
<1> DEFINE Upto(k) == {x \in S : x <= k}
           T == {Upto(k) : k \in S}
<1>1. IsFiniteSet(S)
  <2>1. IsFiniteSet(1..n)
    BY FS_Interval
  <2>2. QED
    BY <2>1, FS_Subset
<1>2. IsWellFoundedOn(StrictSubsetOrdering(S), SUBSET S)
  BY <1>1, FS_StrictSubsetOrderingWellFounded, FS_FiniteSubsetsOfFinite
<1>3. T \subseteq SUBSET S /\ T # {}
  OBVIOUS
<1>4. PICK X \in T : \A Y \in T : ~ (<<Y, X>> \in StrictSubsetOrdering(S))
  BY <1>2, <1>3, WFMin
<1>5. PICK m \in S : X = Upto(m)
  BY <1>4
<1>6. ASSUME NEW k \in S, k < m PROVE FALSE
  <2>1. Upto(k) \in T /\ Upto(k) \subseteq X /\ m \in X /\ m \notin Upto(k)
    <3>1. m \in Int /\ k \in Int /\ \A x \in S : x \in Int
      OBVIOUS
    <3>2. m \in Upto(m) /\ m \notin Upto(k) /\ Upto(k) \subseteq Upto(m)
      <4>1. (m <= m) /\ ~(m <= k) /\ \A x \in S : x <= k => x <= m
        BY <1>6, <3>1
      <4>2. QED
        BY <4>1, Zenon
    <3>3. QED
      BY <1>5, <3>2
  <2>2. <<Upto(k), X>> \in StrictSubsetOrdering(S)
    BY <2>1, <1>3, <1>4 DEF StrictSubsetOrdering
  <2>3. QED
    BY <1>4, <2>1, <2>2
<1>7. QED
  BY <1>6

LEMMA GreatestExists ==
  ASSUME NEW n \in Nat, NEW S, S \subseteq 1..n, S # {}
  PROVE  \E m \in S : \A x \in S : x <= m
<1> DEFINE R == {n + 1 - x : x \in S}
<1>1. R \subseteq 1..n /\ R # {}
  <2>1. \A x \in S : n + 1 - x \in 1..n
    OBVIOUS
  <2>2. QED
    BY <2>1, Zenon
<1>2. PICK least \in R : \A y \in R : least <= y
  BY <1>1, LeastExists
<1>3. PICK m \in S : least = n + 1 - m
  BY <1>2
<1>4. \A x \in S : x <= m
  BY <1>2, <1>3
<1>5. QED
  BY <1>4

-----------------------------------------------------------------------------
(* Messages have their turn.                                               *)

LEMMA IntakeInit == Init => IntakeInv
<1> SUFFICES ASSUME Init PROVE IntakeInv
  OBVIOUS
<1>1. log = <<>> /\ desk = Idle /\ left \in Mixes
  BY DEF Init
<1>2. LogTypeOK /\ PendingAtDesk
  BY <1>1 DEF LogTypeOK, PendingAtDesk
<1>3. LeftTypeOK /\ DeskShape
  BY <1>1, IntakeAssumption DEF LeftTypeOK, DeskShape
<1>4. QED
  BY <1>2, <1>3 DEF IntakeInv

\* What a step does to the log: it appends an entry, or changes one and leaves the others.
LEMMA LogAppends ==
  ASSUME LogTypeOK, NEW e \in Entry, log' = Append(log, e)
  PROVE  /\ LogTypeOK'
         /\ Len(log') = Len(log) + 1 /\ log'[Len(log) + 1] = e /\ DOMAIN log' = 1..Len(log) + 1
         /\ DOMAIN log = 1..Len(log) /\ Len(log) \in Nat
         /\ \A k \in DOMAIN log : log'[k] = log[k]
  BY DEF LogTypeOK

LEMMA LogChanges ==
  ASSUME LogTypeOK, NEW i \in DOMAIN log, NEW e \in Entry, log' = [log EXCEPT ![i] = e]
  PROVE  /\ LogTypeOK'
         /\ Len(log') = Len(log) /\ log'[i] = e /\ DOMAIN log' = DOMAIN log
         /\ DOMAIN log = 1..Len(log) /\ Len(log) \in Nat
         /\ \A k \in DOMAIN log : k # i => log'[k] = log[k]
  BY DEF LogTypeOK

\* An entry with another fate, or no longer in the room, is an entry.
LEMMA EntryChanged ==
  ASSUME NEW e \in Entry, NEW f \in Fates
  PROVE  /\ [e EXCEPT !.fate = f] \in Entry
         /\ [e EXCEPT !.fate = f].fate = f /\ [e EXCEPT !.fate = f].live = e.live /\ [e EXCEPT !.fate = f].req = e.req
         /\ [e EXCEPT !.live = FALSE] \in Entry
         /\ [e EXCEPT !.live = FALSE].fate = e.fate /\ ~[e EXCEPT !.live = FALSE].live
         /\ [e EXCEPT !.live = FALSE].req = e.req
  BY DEF Entry

LEMMA LogIs ==
  ASSUME LogTypeOK
  PROVE  /\ Len(log) \in Nat /\ DOMAIN log = 1..Len(log)
         /\ \A i \in DOMAIN log : log[i] \in Entry
  BY DEF LogTypeOK

\* The variables of intake other than the battle's and the room's columns
LEMMA IntakeStepInv ==
  ASSUME IntakeInv, IntakeMoves
  PROVE  IntakeInv'
<1> USE DEF IntakeInv
<1>a. LogTypeOK /\ LeftTypeOK /\ DeskShape /\ PendingAtDesk
  OBVIOUS
<1>0. ASSUME UNCHANGED log, LeftTypeOK', DeskShape',
             desk.at \in AtMessage => desk'.at \in AtMessage /\ desk'.msg = desk.msg
      PROVE  IntakeInv'
  BY <1>a, <1>0 DEF LogTypeOK, PendingAtDesk, IsLive
<1>1. ASSUME NEW r \in Requests, Receive(r) \/ Takes(r) PROVE IntakeInv'
  <2>1. /\ desk = Idle /\ UNCHANGED log /\ LeftTypeOK'
        /\ desk' = [at |-> "prepare", req |-> r, was |-> room]
    BY <1>1, <1>a DEF Receive, Takes, Take, Spend, LeftTypeOK, Kinds
  <2>2. QED
    BY <2>1, <1>0 DEF DeskShape, Idle, AtMessage
<1>2. CASE Prepare
  BY <1>2, <1>0, <1>a DEF Prepare, DeskShape, AtMessage, Idle, LeftTypeOK
<1>3. CASE Store
  <2>0. desk.at = "store" /\ desk.req \in Requests /\ LeftTypeOK'
    BY <1>3, <1>a DEF Store, DeskShape, Idle, LeftTypeOK
  <2>1. CASE IsRepeat(desk.req)
    BY <1>3, <2>0, <2>1, <1>0 DEF Store, DeskShape, Idle, AtMessage
  <2>2. CASE ~IsRepeat(desk.req)
    <3> DEFINE e == [req |-> desk.req, live |-> TRUE, fate |-> "none"]
    <3>1. e \in Entry
      BY <2>0 DEF Entry, Fates
    <3>2. /\ log' = Append(log, e)
          /\ desk' = [at |-> AfterStore(desk.req), req |-> desk.req, msg |-> Len(log) + 1]
          /\ AfterStore(desk.req) \in {"control", "scene"}
      BY <1>3, <2>2 DEF Store, AfterStore
    <3>3. /\ LogTypeOK'
          /\ Len(log') = Len(log) + 1 /\ log'[Len(log) + 1] = e /\ DOMAIN log' = 1..Len(log) + 1
          /\ DOMAIN log = 1..Len(log) /\ Len(log) \in Nat
          /\ \A k \in DOMAIN log : log'[k] = log[k]
      BY <3>1, <3>2, <1>a, LogAppends
    <3>4. DeskShape'
      BY <3>2, <3>3, <2>0 DEF DeskShape, AtMessage
    <3>5. PendingAtDesk'
      <4>1. ASSUME NEW i \in DOMAIN log', i # Len(log) + 1 PROVE ~(log'[i].live /\ log'[i].fate = "none")
        <5>1. i \in DOMAIN log /\ log'[i] = log[i]
          BY <3>3, <4>1
        <5>2. QED
          BY <5>1, <2>0, <1>a DEF PendingAtDesk, IsLive, AtMessage
      <4>2. desk'.at \in AtMessage /\ desk'.msg = Len(log) + 1
        BY <3>2 DEF AtMessage
      <4>3. QED
        BY <4>1, <4>2 DEF PendingAtDesk, IsLive
    <3>6. QED
      BY <3>3, <3>4, <3>5, <2>0
  <2>3. QED
    BY <2>1, <2>2
<1>4. CASE ApplyControl
  <2>0. desk.at = "control" /\ desk.req \in Requests /\ LeftTypeOK' /\ desk.msg = Len(log) /\ Len(log) \in Nat
        /\ Len(log) > 0 /\ log[desk.msg].fate = "none" /\ log[desk.msg].req = desk.req
    BY <1>4, <1>a, LogIs DEF ApplyControl, DeskShape, Idle, LeftTypeOK, AtMessage
  <2>1. CASE Legal(matches, Payload[desk.req].control)
    BY <1>4, <2>0, <2>1, <1>0 DEF ApplyControl, DeskShape, Idle, AtMessage
  <2>2. CASE ~Legal(matches, Payload[desk.req].control)
    <3>0. desk.msg \in DOMAIN log /\ log[desk.msg] \in Entry
      BY <2>0, <1>a, LogIs
    <3> DEFINE e == [log[desk.msg] EXCEPT !.live = FALSE]
    <3>1. e \in Entry /\ ~ e.live
      <4>1. "none" \in Fates
        BY DEF Fates
      <4>2. QED
        BY <3>0, <4>1, EntryChanged
    <3>2. desk' = Idle /\ log' = [log EXCEPT ![desk.msg] = e]
      BY <1>4, <2>2 DEF ApplyControl, Refused
    <3> HIDE DEF e
    <3>3. /\ LogTypeOK'
          /\ Len(log') = Len(log) /\ log'[desk.msg] = e /\ DOMAIN log' = DOMAIN log
          /\ \A k \in DOMAIN log : k # desk.msg => log'[k] = log[k]
      BY <3>0, <3>1, <3>2, <1>a, LogChanges
    <3>4. DeskShape'
      BY <3>2 DEF DeskShape
    <3>5. PendingAtDesk'
      BY <3>1, <3>3, <2>0, <1>a DEF PendingAtDesk, IsLive, AtMessage
    <3>6. QED
      BY <3>3, <3>4, <3>5, <2>0
  <2>3. QED
    BY <2>1, <2>2
<1>6. CASE RecordScene
  BY <1>6, <1>0, <1>a DEF RecordScene, DeskShape, AtMessage, Idle, LeftTypeOK
<1>7. CASE BeginTurn
  <2>0. desk.at = "turn" /\ LeftTypeOK' /\ desk.msg = Len(log) /\ desk.msg \in DOMAIN log /\ log[desk.msg] \in Entry
    BY <1>7, <1>a, LogIs DEF BeginTurn, DeskShape, Idle, LeftTypeOK, AtMessage
  <2>1. PICK f \in {"job", "awaited"} : log' = [log EXCEPT ![desk.msg].fate = f] /\ desk' = Idle
    BY <1>7 DEF BeginTurn
  <2> DEFINE e == [log[desk.msg] EXCEPT !.fate = f]
  <2>2. e \in Entry /\ e.fate = f /\ log' = [log EXCEPT ![desk.msg] = e]
    <3>1. f \in Fates
      BY DEF Fates
    <3>2. e \in Entry /\ e.fate = f
      BY <2>0, <3>1, EntryChanged
    <3>3. QED
      BY <2>1, <3>2
  <2> HIDE DEF e
  <2>3. /\ LogTypeOK'
        /\ Len(log') = Len(log) /\ log'[desk.msg] = e /\ DOMAIN log' = DOMAIN log
        /\ \A k \in DOMAIN log : k # desk.msg => log'[k] = log[k]
    BY <2>0, <2>2, <1>a, LogChanges
  <2>4. DeskShape'
    BY <2>1 DEF DeskShape
  <2>5. PendingAtDesk'
    BY <2>1, <2>2, <2>3, <2>0, <1>a DEF PendingAtDesk, IsLive, AtMessage
  <2>6. QED
    BY <2>0, <2>3, <2>4, <2>5
<1>8. ASSUME NEW i \in DOMAIN log, EndAwaited(i) \/ Delete(i) PROVE IntakeInv'
  <2>0. /\ LeftTypeOK' /\ desk' = desk
        /\ log[i] \in Entry /\ Len(log) \in Nat /\ DOMAIN log = 1..Len(log)
    BY <1>8, <1>a, LogIs DEF EndAwaited, Delete, Spend, LeftTypeOK, Kinds
  <2>1. PICK e \in Entry : /\ log' = [log EXCEPT ![i] = e]
                           /\ e.fate = "none" => log[i].fate = "none"
                           /\ log[i].fate = "none" => e.fate = "none"
                           /\ e.live => log[i].live
                           /\ e.req = log[i].req
    <3>1. ASSUME NEW f \in {"answered", "failed", "cut"}, log' = [log EXCEPT ![i].fate = f], log[i].fate = "awaited"
          PROVE  \E e \in Entry : /\ log' = [log EXCEPT ![i] = e]
                                  /\ (e.fate = "none") = (log[i].fate = "none")
                                  /\ e.live => log[i].live
                                  /\ e.req = log[i].req
      <4> DEFINE e == [log[i] EXCEPT !.fate = f]
      <4>0. f \in Fates /\ f # "none"
        BY DEF Fates
      <4>1. e \in Entry /\ e.fate = f /\ e.live = log[i].live /\ e.req = log[i].req
        BY <2>0, <4>0, EntryChanged
      <4>2. log' = [log EXCEPT ![i] = e]
        BY <3>1
      <4> HIDE DEF e
      <4>3. (e.fate = "none") = (log[i].fate = "none") /\ (e.live => log[i].live)
        BY <3>1, <4>0, <4>1
      <4>4. QED
        BY <4>1, <4>2, <4>3
    <3>2. ASSUME log' = [log EXCEPT ![i].live = FALSE]
          PROVE  \E e \in Entry : /\ log' = [log EXCEPT ![i] = e]
                                  /\ (e.fate = "none") = (log[i].fate = "none")
                                  /\ e.live => log[i].live
                                  /\ e.req = log[i].req
      <4>1. [log[i] EXCEPT !.live = FALSE] \in Entry
        BY <2>0 DEF Entry
      <4>2. QED
        BY <4>1, <3>2, <2>0 DEF Entry
    <3>3. QED
      BY <1>8, <3>1, <3>2 DEF EndAwaited, Delete
  <2>2. /\ LogTypeOK'
        /\ Len(log') = Len(log) /\ log'[i] = e /\ DOMAIN log' = DOMAIN log
        /\ \A k \in DOMAIN log : k # i => log'[k] = log[k]
    BY <2>1, <1>a, LogChanges
  <2>3. DeskShape'
    BY <2>0, <2>1, <2>2, <1>a DEF DeskShape, AtMessage
  <2>4. PendingAtDesk'
    BY <2>0, <2>1, <2>2, <1>a DEF PendingAtDesk, IsLive, AtMessage
  <2>5. QED
    BY <2>0, <2>2, <2>3, <2>4
<1>9. CASE Crash
  <2>0. /\ LeftTypeOK' /\ desk' = Idle
        /\ Len(log) \in Nat /\ DOMAIN log = 1..Len(log)
    BY <1>9, <1>a, LogIs DEF Crash, Spend, LeftTypeOK, Kinds
  <2> DEFINE cut(i) == \/ log[i].fate = "awaited"
                       \/ log[i].fate = "none" /\ desk # Idle /\ desk.at # "prepare" /\ desk.at # "store" /\ desk.msg = i
  <2>1. log' = [i \in DOMAIN log |-> IF cut(i) THEN [log[i] EXCEPT !.fate = "cut"] ELSE log[i]]
    BY <1>9 DEF Crash
  <2>2. /\ DOMAIN log' = DOMAIN log
        /\ \A i \in DOMAIN log : /\ log'[i] \in Entry
                                 /\ cut(i) => log'[i].fate = "cut"
                                 /\ ~cut(i) => log'[i] = log[i]
    BY <2>1, <1>a, LogIs, EntryChanged DEF Fates
  <2>3. LogTypeOK'
    BY <2>0, <2>1, <2>2 DEF LogTypeOK
  <2>4. DeskShape'
    BY <2>0 DEF DeskShape
  <2>5. PendingAtDesk'
    <3>1. ASSUME NEW i \in DOMAIN log, log'[i].live, log'[i].fate = "none" PROVE FALSE
      <4>1. ~cut(i) /\ log[i].live /\ log[i].fate = "none"
        BY <2>2, <3>1
      <4>2. desk.at \in AtMessage /\ desk.msg = i
        BY <4>1, <1>a DEF PendingAtDesk, IsLive
      <4>3. QED
        BY <4>1, <4>2 DEF AtMessage, Idle
    <3>2. QED
      BY <2>2, <3>1 DEF PendingAtDesk, IsLive, AtMessage
  <2>6. QED
    BY <2>0, <2>3, <2>4, <2>5
<1>10. ASSUME UNCHANGED <<log, desk>>, left' \in [Kinds -> Nat] PROVE IntakeInv'
  BY <1>10, <1>a DEF LogTypeOK, LeftTypeOK, DeskShape, PendingAtDesk, IsLive, AtMessage
<1>11. QED
  <2>1. ASSUME NEW what, StartClear(what) PROVE IntakeInv'
    BY <2>1, <1>10, <1>a DEF StartClear, Spend, LeftTypeOK, Kinds
  <2>2. ASSUME NEW c, CommitClear(c) PROVE IntakeInv'
    BY <2>2, <1>10, <1>a DEF CommitClear, LeftTypeOK
  <2>3. ASSUME NEW c, Switch(c) PROVE IntakeInv'
    BY <2>3, <1>10, <1>a DEF Switch, Spend, LeftTypeOK, Kinds
  <2>4. QED
    BY <1>1, <1>2, <1>3, <1>4, <1>6, <1>7, <1>8, <1>9, <2>1, <2>2, <2>3 DEF IntakeMoves, Next

-----------------------------------------------------------------------------
(* Jobs and the answer of the handlers.                                    *)

\* No step of intake takes a job away from its message.
LEMMA JobsStay ==
  ASSUME IntakeInv, IntakeMoves, NEW i \in JobsOf(log)
  PROVE  i \in JobsOf(log')
<1>0. LogTypeOK /\ DeskShape /\ i \in DOMAIN log /\ log[i].fate = "job"
  BY DEF IntakeInv, JobsOf
<1>1. CASE UNCHANGED log
  BY <1>0, <1>1 DEF JobsOf
<1>2. CASE Store
  BY <1>0, <1>2 DEF Store, JobsOf, LogTypeOK
<1>3. CASE ApplyControl
  <2>1. desk.msg # i
    BY <1>0, <1>3 DEF ApplyControl, DeskShape, AtMessage, Idle
  <2>2. log' = log \/ log' = [log EXCEPT ![desk.msg] = Refused(log[desk.msg])]
    BY <1>3 DEF ApplyControl
  <2>3. QED
    BY <1>0, <2>1, <2>2 DEF JobsOf
<1>4. CASE BeginTurn
  <2>1. desk.msg # i
    BY <1>0, <1>4 DEF BeginTurn, DeskShape, AtMessage, Idle
  <2>2. QED
    BY <1>0, <1>4, <2>1 DEF BeginTurn, JobsOf
<1>5. ASSUME NEW k \in DOMAIN log, EndAwaited(k) PROVE i \in JobsOf(log')
  <2>1. k # i
    BY <1>0, <1>5 DEF EndAwaited
  <2>2. QED
    BY <1>0, <1>5, <2>1 DEF EndAwaited, JobsOf
<1>6. ASSUME NEW k \in DOMAIN log, Delete(k) PROVE i \in JobsOf(log')
  BY <1>0, <1>6 DEF Delete, JobsOf, LogTypeOK, Entry
<1>7. CASE Crash
  BY <1>0, <1>7 DEF Crash, JobsOf
<1>8. QED
  BY <1>1, <1>2, <1>3, <1>4, <1>5, <1>6, <1>7
     DEF IntakeMoves, Next, Receive, Takes, Take, Prepare, RecordScene, StartClear, CommitClear, Switch

\* The message that the browser is told has a job.
LEMMA SaidHasJob ==
  ASSUME IntakeInv, Next, desk # Idle, desk.req \in Sends, desk' = Idle, Said # 0
  PROVE  Said \in JobsOf(log') /\ Said \in Nat
<1>0. LogTypeOK /\ DeskShape /\ LeftTypeOK /\ ~(left'["crash"] < left["crash"])
  BY DEF IntakeInv, Said
<1>1. ~Crash
  BY <1>0 DEF Crash, Spend, LeftTypeOK, Kinds
<1>2. CASE desk.at = "turn"
  <2>1. BeginTurn
    BY <1>1, <1>2, <1>0 DEF Next, Receive, Take, Prepare, Store, ApplyControl, RecordScene, EndAwaited,
          Delete, StartClear, CommitClear, Switch
  <2>2. Payload[desk.req].via = "jobs"
    BY ClientAssumption
  <2>3. desk.msg \in DOMAIN log /\ desk.msg \in Nat
    BY <1>0, <1>2, LogIs DEF DeskShape, AtMessage, Idle
  <2>4. Said = desk.msg
    BY <1>0, <1>2 DEF Said
  <2>5. QED
    BY <2>1, <2>2, <2>3, <2>4, <1>0 DEF BeginTurn, JobsOf, LogTypeOK, Entry
<1>3. CASE desk.at = "store"
  <2>1. Store
    BY <1>1, <1>3, <1>0 DEF Next, Receive, Take, Prepare, BeginTurn, ApplyControl, RecordScene, EndAwaited,
          Delete, StartClear, CommitClear, Switch
  <2>2. IsRepeat(desk.req) /\ log' = log
    BY <2>1 DEF Store, Idle, AfterStore
  <2>3. Said = Earlier(desk.req)
    BY <1>0, <1>3 DEF Said
  <2> DEFINE same == {i \in Recent : log[i].req = desk.req}
  <2>4. same # {}
    BY <2>2 DEF IsRepeat, Earlier
  <2>5. same \subseteq 1..Len(log) /\ Len(log) \in Nat
    BY <1>0, LogIs DEF Recent, UserMessages
  <2>6. Earlier(desk.req) \in same
    <3>1. \E m \in same : \A x \in same : x <= m
      BY <2>4, <2>5, GreatestExists
    <3>2. QED
      BY <2>4, <3>1 DEF Earlier
  <2>7. QED
    BY <2>2, <2>3, <2>5, <2>6, <1>0, LogIs DEF IsRepeat, JobsOf
<1>4. QED
  BY <1>0, <1>2, <1>3 DEF Said

-----------------------------------------------------------------------------
(* The browser.                                                            *)

LEMMA ReadyIs ==
  /\ Ready \in Browsers /\ [Ready EXCEPT !.at = "off"] \in Browsers
  /\ \A r \in Requests, d \in SUBSET (Requests \union {None}) :
        [Ready EXCEPT !.at = "posting", !.req = r, !.done = d] \in Browsers
<1>1. <<>> \in Seq(Nat) /\ {} \in SUBSET (Requests \union {None})
  OBVIOUS
<1>2. QED
  BY <1>1 DEF Ready, Browsers

LEMMA ClientInit == RoomInit => RoomInv
<1> SUFFICES ASSUME RoomInit PROVE RoomInv
  OBVIOUS
<1>1. Init /\ job = <<>> /\ events = <<>> /\ browser \in {Ready, [Ready EXCEPT !.at = "off"]} /\ log = <<>>
  BY DEF RoomInit, Init
<1>2. IntakeInv
  BY <1>1, IntakeInit
<1>3. JobsTypeOK /\ EventsTypeOK /\ EventsTell
  <2>1. JobsOf(log) = {}
    BY <1>1 DEF JobsOf
  <2>2. QED
    BY <1>1, <2>1 DEF JobsTypeOK, EventsTypeOK, EventsTell
<1>4. BrowserTypeOK /\ BrowserFollows /\ LinkOK
  <2>1. BrowserTypeOK
    BY <1>1, ReadyIs DEF BrowserTypeOK
  <2>2. browser.at \in {"off", "ready"} /\ browser.link = "none" /\ ~browser.timer
    BY <1>1 DEF Ready
  <2>3. QED
    BY <2>1, <2>2 DEF BrowserFollows, LinkOK, Following
<1>5. SeenKnown /\ EventsOnceInOrder
  BY <1>1 DEF SeenKnown, EventsOnceInOrder, Ready
<1>6. QED
  BY <1>2, <1>3, <1>4, <1>5 DEF RoomInv, ClientInv

\* More events change nothing of what has been seen.
LEMMA EventsGrow ==
  ASSUME ClientInv, UNCHANGED browser,
         events' = events \/ \E e \in [msg : Nat, status : JobStatus] : events' = Append(events, e)
  PROVE  EventsTypeOK' /\ SeenKnown' /\ EventsOnceInOrder'
<1>1. EventsTypeOK /\ BrowserTypeOK /\ SeenKnown /\ EventsOnceInOrder
  BY DEF ClientInv
<1>2. /\ EventsTypeOK'
      /\ Len(events) \in Nat /\ Len(events') \in Nat /\ Len(events') >= Len(events)
      /\ \A k \in 1..Len(events) : events'[k] = events[k]
  <2>1. CASE events' = events
    BY <1>1, <2>1 DEF EventsTypeOK
  <2>2. ASSUME NEW e \in [msg : Nat, status : JobStatus], events' = Append(events, e)
        PROVE  /\ events' \in Seq([msg : Nat, status : JobStatus])
               /\ Len(events) \in Nat /\ Len(events') \in Nat /\ Len(events') >= Len(events)
               /\ \A k \in 1..Len(events) : events'[k] = events[k]
    BY <1>1, <2>2 DEF EventsTypeOK
  <2>3. QED
    BY <2>1, <2>2 DEF EventsTypeOK
<1>3. Cursor' = Cursor /\ Cursor \in Nat
  BY <1>1 DEF Cursor, BrowserTypeOK, Browsers
<1>4. SeenKnown'
  BY <1>1, <1>2, <1>3 DEF SeenKnown
<1>5. EventsOnceInOrder'
  <2> SUFFICES ASSUME browser.at = "watching" PROVE EventsOnceInOrder'
    BY DEF EventsOnceInOrder
  <2>1. Cursor <= Len(events)
    BY <1>1 DEF SeenKnown
  <2>2. {k \in 1..Cursor' : events'[k].msg = browser.msg} = {k \in 1..Cursor : events[k].msg = browser.msg}
    BY <1>2, <1>3, <2>1
  <2>3. \A n \in DOMAIN browser.seen : browser.seen[n] \in 1..Len(events)
    BY <1>1, <1>2, <1>3, <2>1 DEF EventsOnceInOrder
  <2>4. QED
    BY <1>1, <1>2, <2>2, <2>3 DEF EventsOnceInOrder
<1>6. QED
  BY <1>2, <1>4, <1>5

\* A step of the queue
LEMMA WorkStep ==
  ASSUME RoomInv, NEW i \in DOMAIN job, Work(i)
  PROVE  RoomInv'
<1>1. JobsTypeOK /\ EventsTypeOK /\ EventsTell /\ BrowserTypeOK /\ BrowserFollows /\ LinkOK /\ IntakeInv /\ ClientInv
  BY DEF RoomInv, ClientInv
<1>2. PICK status \in Evolves(job[i]) : /\ job' = [job EXCEPT ![i] = status]
                                        /\ events' = Append(events, [msg |-> i, status |-> status])
  BY DEF Work
<1>3. UNCHANGED <<vars, browser>>
  BY DEF Work
<1>4. /\ status \in JobStatus /\ (job[i] \in Terminal => status \in Terminal)
      /\ job[i] # "completed"
  BY <1>1, <1>2 DEF Evolves, JobStatus, Terminal, JobsTypeOK
<1>5. i \in Nat /\ i \in JobsOf(log) /\ JobsOf(log') = JobsOf(log) /\ IntakeInv'
  <2>1. log' = log /\ desk' = desk /\ left' = left
    BY <1>3 DEF vars, intake
  <2>2. i \in JobsOf(log)
    BY <1>1 DEF JobsTypeOK
  <2>3. i \in Nat
    BY <1>1, <2>2, LogIs DEF JobsOf, IntakeInv
  <2>4. JobsOf(log') = JobsOf(log)
    BY <2>1 DEF JobsOf
  <2>5. IntakeInv'
    BY <1>1, <2>1 DEF IntakeInv, LogTypeOK, LeftTypeOK, DeskShape, PendingAtDesk, IsLive, AtMessage
  <2>6. QED
    BY <2>2, <2>3, <2>4, <2>5
<1>6. JobsTypeOK'
  BY <1>1, <1>2, <1>4, <1>5 DEF JobsTypeOK
<1>7. EventsTypeOK' /\ SeenKnown' /\ EventsOnceInOrder'
  <2>1. [msg |-> i, status |-> status] \in [msg : Nat, status : JobStatus]
    BY <1>4, <1>5
  <2>2. QED
    BY <1>1, <1>2, <1>3, <2>1, EventsGrow
<1>8. EventsTell'
  <2>1. /\ Len(events) \in Nat /\ DOMAIN events = 1..Len(events) /\ DOMAIN events' = 1..Len(events) + 1
        /\ \A k \in DOMAIN events : events'[k] = events[k]
        /\ events'[Len(events) + 1] = [msg |-> i, status |-> status]
    BY <1>1, <1>2 DEF EventsTypeOK
  <2>2. DOMAIN job' = DOMAIN job /\ job'[i] = status /\ \A j \in DOMAIN job : j # i => job'[j] = job[j]
    BY <1>1, <1>2 DEF JobsTypeOK
  <2>3. ASSUME NEW k \in DOMAIN events'
        PROVE  events'[k].msg \in DOMAIN job' /\ (events'[k].status \in Terminal => job'[events'[k].msg] \in Terminal)
    <3>1. CASE k = Len(events) + 1
      BY <2>1, <2>2, <3>1
    <3>2. CASE k # Len(events) + 1
      <4>1. k \in DOMAIN events
        BY <2>1, <3>2
      <4>2. QED
        BY <4>1, <2>1, <2>2, <1>1, <1>4 DEF EventsTell
    <3>3. QED
      BY <3>1, <3>2
  <2>4. ASSUME NEW j \in DOMAIN job', job'[j] \in Terminal
        PROVE  \E k \in DOMAIN events' : events'[k].msg = j /\ events'[k].status \in Terminal
    <3>1. CASE j = i
      <4>1. Len(events) + 1 \in DOMAIN events'
        BY <2>1
      <4>2. QED
        BY <4>1, <2>1, <2>2, <2>4, <3>1
    <3>2. CASE j # i
      BY <2>1, <2>2, <2>4, <3>2, <1>1 DEF EventsTell
    <3>3. QED
      BY <3>1, <3>2
  <2>5. QED
    BY <2>3, <2>4 DEF EventsTell
<1>9. BrowserTypeOK' /\ LinkOK'
  BY <1>1, <1>3 DEF BrowserTypeOK, Browsers, LinkOK
<1>10. BrowserFollows'
  <2>1. desk' = desk
    BY <1>3 DEF vars, intake
  <2>2. DOMAIN job' = DOMAIN job /\ job'[i] = status /\ \A j \in DOMAIN job : j # i => job'[j] = job[j]
    BY <1>1, <1>2 DEF JobsTypeOK
  <2>3. QED
    BY <2>1, <2>2, <1>1, <1>3, <1>4 DEF BrowserFollows, Following
<1>11. QED
  BY <1>5, <1>6, <1>7, <1>8, <1>9, <1>10 DEF RoomInv, ClientInv

\* What does not concern the queue or the browser's job keeps the rest.
LEMMA QueueUnchanged ==
  ASSUME RoomInv, UNCHANGED <<vars, job, events>>
  PROVE  IntakeInv' /\ JobsTypeOK' /\ EventsTypeOK' /\ EventsTell'
<1>1. log' = log /\ desk' = desk /\ left' = left /\ job' = job /\ events' = events
  BY DEF vars, intake
<1>2. QED
  BY <1>1 DEF RoomInv, ClientInv, IntakeInv, LogTypeOK, LeftTypeOK, DeskShape, PendingAtDesk, IsLive, AtMessage,
              JobsTypeOK, JobsOf, EventsTypeOK, EventsTell

\* A browser that has closed its stream waits for no event.
LEMMA BrowserCloses ==
  ASSUME RoomInv, UNCHANGED <<vars, job, events>>, NEW at \in {"polling", "pending", "failed", "loading", "answered"},
         NEW shown \in BOOLEAN,
         browser' = [Closed(at) EXCEPT !.shown = shown],
         at \in Following => browser.msg \in DOMAIN job,
         at \in {"loading", "answered"} => job[browser.msg] = "completed" /\ shown
  PROVE  RoomInv'
<1>1. BrowserTypeOK
  BY DEF RoomInv, ClientInv
<1>2. /\ BrowserTypeOK'
      /\ browser'.at = at /\ browser'.link = "none" /\ browser'.msg = browser.msg /\ browser'.shown = shown
      /\ ~browser'.timer
  BY <1>1 DEF BrowserTypeOK, Browsers, Closed, Following
<1>3. BrowserFollows' /\ LinkOK' /\ SeenKnown' /\ EventsOnceInOrder'
  BY <1>2 DEF BrowserFollows, LinkOK, SeenKnown, EventsOnceInOrder, Following
<1>4. QED
  BY <1>2, <1>3, QueueUnchanged DEF RoomInv, ClientInv

\* A browser begins to follow a job.
LEMMA BrowserWatches ==
  ASSUME BrowserTypeOK, EventsTypeOK', NEW msg \in Nat, msg \in DOMAIN job', browser' = Watching(msg)
  PROVE  BrowserTypeOK' /\ BrowserFollows' /\ LinkOK' /\ SeenKnown' /\ EventsOnceInOrder'
<1>1. /\ BrowserTypeOK'
      /\ browser'.at = "watching" /\ browser'.link = "connecting" /\ browser'.timer /\ browser'.msg = msg
      /\ browser'.seen = <<>>
  <2>1. <<>> \in Seq(Nat) /\ "watching" \in Following
    BY DEF Following
  <2>2. QED
    BY <2>1 DEF BrowserTypeOK, Browsers, Watching
<1>2. BrowserFollows' /\ LinkOK'
  BY <1>1 DEF BrowserFollows, LinkOK, Following
<1>3. Cursor' = 0 /\ Len(events') \in Nat
  BY <1>1 DEF Cursor, EventsTypeOK
<1>4. SeenKnown' /\ EventsOnceInOrder'
  BY <1>1, <1>3 DEF SeenKnown, EventsOnceInOrder
<1>5. QED
  BY <1>1, <1>2, <1>4

LEMMA PostStep ==
  ASSUME RoomInv, NEW r \in Sends, Post(r)
  PROVE  RoomInv'
<1>0. BrowserTypeOK /\ JobsTypeOK /\ EventsTypeOK /\ EventsTell /\ r \in Requests /\ log' = log
  BY ClientAssumption DEF RoomInv, ClientInv, Post, Take
<1>1. IntakeInv'
  BY <1>0, IntakeStepInv DEF RoomInv, Post, IntakeMoves, Takes
<1>2. /\ BrowserTypeOK'
      /\ browser'.at = "posting" /\ browser'.link = "none" /\ ~browser'.timer
  <2>1. browser.done \in SUBSET (Requests \union {None})
    BY <1>0 DEF BrowserTypeOK, Browsers
  <2>2. browser' = [Ready EXCEPT !.at = "posting", !.req = r, !.done = browser.done]
    BY DEF Post
  <2>3. QED
    BY <1>0, <2>1, <2>2, ReadyIs DEF BrowserTypeOK, Ready
<1>3. desk' # Idle /\ desk'.req = r
  BY DEF Post, Take, Idle
<1>4. BrowserFollows' /\ LinkOK' /\ SeenKnown' /\ EventsOnceInOrder'
  BY <1>2, <1>3 DEF BrowserFollows, LinkOK, SeenKnown, EventsOnceInOrder, Following
<1>5. JobsTypeOK' /\ EventsTypeOK' /\ EventsTell'
  BY <1>0 DEF Post, JobsTypeOK, JobsOf, EventsTypeOK, EventsTell
<1>6. QED
  BY <1>1, <1>2, <1>4, <1>5 DEF RoomInv, ClientInv

LEMMA OpensStep ==
  ASSUME RoomInv, Opens
  PROVE  RoomInv'
<1>0. BrowserTypeOK /\ BrowserFollows /\ LinkOK /\ SeenKnown /\ EventsOnceInOrder
  BY DEF RoomInv, ClientInv
<1>1. UNCHANGED <<vars, job, events>> /\ browser.at = "watching"
  BY <1>0 DEF Opens, LinkOK
<1>2. /\ BrowserTypeOK'
      /\ browser'.at = "watching" /\ browser'.link = "open" /\ browser'.errors = 0
      /\ browser'.msg = browser.msg /\ browser'.seen = browser.seen
  BY <1>0, <1>1 DEF Opens, BrowserTypeOK, Browsers
<1>3. BrowserFollows' /\ LinkOK'
  BY <1>0, <1>1, <1>2 DEF BrowserFollows, LinkOK, Following
<1>4. SeenKnown' /\ EventsOnceInOrder'
  BY <1>0, <1>1, <1>2 DEF SeenKnown, EventsOnceInOrder, Cursor
<1>5. QED
  BY <1>1, <1>2, <1>3, <1>4, QueueUnchanged DEF RoomInv, ClientInv

LEMMA LinkFailsStep ==
  ASSUME RoomInv, LinkFails
  PROVE  RoomInv'
<1>0. BrowserTypeOK /\ BrowserFollows /\ LinkOK /\ SeenKnown /\ EventsOnceInOrder
  BY DEF RoomInv, ClientInv
<1>1. UNCHANGED <<vars, job, events>> /\ browser.at = "watching"
  BY <1>0 DEF LinkFails, LinkOK
<1>2. CASE GivesUp(browser.errors + 1)
  <2>1. browser' = [Closed("polling") EXCEPT !.shown = browser.shown]
    BY <1>0, <1>2 DEF LinkFails, Closed, BrowserTypeOK, Browsers
  <2>2. browser.msg \in DOMAIN job /\ browser.shown \in BOOLEAN
    BY <1>0, <1>1 DEF BrowserFollows, Following, BrowserTypeOK, Browsers
  <2>3. QED
    BY <1>1, <2>1, <2>2, BrowserCloses
<1>3. CASE ~GivesUp(browser.errors + 1)
  <2>1. PICK link \in IF browser.link = "open" THEN {"connecting"} ELSE {"connecting", "dead"} :
           browser' = [browser EXCEPT !.link = link, !.errors = browser.errors + 1]
    BY <1>3 DEF LinkFails
  <2>2. /\ BrowserTypeOK'
        /\ browser'.at = "watching" /\ browser'.link = link /\ browser'.errors = browser.errors + 1
        /\ browser'.msg = browser.msg /\ browser'.seen = browser.seen /\ browser'.timer = browser.timer
    <3>1. link \in {"connecting", "dead"} /\ browser.errors + 1 \in Nat
      BY <1>0, <2>1 DEF BrowserTypeOK, Browsers
    <3>2. QED
      BY <1>0, <1>1, <2>1, <3>1 DEF BrowserTypeOK, Browsers
  <2>3. BrowserFollows'
    BY <1>0, <1>1, <2>2 DEF BrowserFollows, Following
  <2>4. LinkOK'
    <3>1. browser.errors \in Nat /\ MaxErrors \in Nat /\ browser.errors + 1 < MaxErrors
      BY <1>0, <1>3, ClientAssumption DEF BrowserTypeOK, Browsers, GivesUp
    <3>2. browser.link \in {"open", "connecting"}
      BY DEF LinkFails
    <3>3. QED
      BY <1>0, <2>1, <2>2, <3>1, <3>2 DEF LinkOK
  <2>5. SeenKnown' /\ EventsOnceInOrder'
    BY <1>0, <1>1, <2>2 DEF SeenKnown, EventsOnceInOrder, Cursor
  <2>6. QED
    BY <1>1, <2>2, <2>3, <2>4, <2>5, QueueUnchanged DEF RoomInv, ClientInv
<1>4. QED
  BY <1>2, <1>3

\* The steps by which the browser stops to follow the stream, or is done with asking
LEMMA ClosingSteps ==
  ASSUME RoomInv, OpenTimeout \/ Leave \/ Ask \/ Poll \/ Load \/ Visible
  PROVE  RoomInv'
<1>0. BrowserTypeOK /\ BrowserFollows /\ LinkOK /\ JobsTypeOK /\ browser.shown \in BOOLEAN
  BY DEF RoomInv, ClientInv, BrowserTypeOK, Browsers
<1>1. UNCHANGED <<vars, job, events>>
  BY DEF OpenTimeout, Leave, Ask, Poll, Load, Visible
<1>2. browser.at \in Following /\ browser.msg \in DOMAIN job
  BY <1>0 DEF BrowserFollows, Following, OpenTimeout, Leave, Ask, Poll, Load, Visible, LinkOK, BrowserTypeOK, Browsers
<1>3. ASSUME NEW at \in {"polling", "pending", "failed", "loading", "answered"}, browser' = Closed(at),
             at \in {"loading", "answered"} => job[browser.msg] = "completed" /\ browser.shown
      PROVE  RoomInv'
  <2>1. browser' = [Closed(at) EXCEPT !.shown = browser.shown]
    BY <1>0, <1>3 DEF Closed, BrowserTypeOK, Browsers
  <2>2. QED
    BY <1>0, <1>1, <1>2, <1>3, <2>1, BrowserCloses
<1>4. ASSUME job[browser.msg] \in Terminal, browser' = Judged(job[browser.msg]) PROVE RoomInv'
  <2>1. CASE job[browser.msg] \in {"failed", "cancelled"}
    BY <1>3, <1>4, <2>1 DEF Judged
  <2>2. CASE job[browser.msg] = "completed"
    <3>1. browser' = [Closed("loading") EXCEPT !.shown = TRUE]
      BY <1>4, <2>2 DEF Judged
    <3>2. QED
      BY <1>1, <1>2, <2>2, <3>1, BrowserCloses
  <2>3. QED
    BY <1>4, <2>1, <2>2 DEF Terminal
<1>5. CASE OpenTimeout \/ Leave
  BY <1>3, <1>5 DEF OpenTimeout, Leave
<1>6. CASE Ask
  <2>1. job[browser.msg] \in Terminal
    BY <1>0, <1>6 DEF Ask, BrowserFollows
  <2>2. QED
    BY <1>3, <1>4, <1>6, <2>1 DEF Ask
<1>7. CASE Poll
  <2>1. CASE HasEnded(job[browser.msg]) /\ browser' = Judged(job[browser.msg])
    BY <1>4, <2>1 DEF HasEnded
  <2>2. CASE browser' = Closed("pending") \/ browser' = Closed("failed")
    BY <1>3, <2>2
  <2>3. CASE browser' = [browser EXCEPT !.polls = @ + 1]
    <3>1. browser.polls + 1 \in Nat /\ browser' = [browser EXCEPT !.polls = browser.polls + 1]
      BY <1>0, <2>3 DEF BrowserTypeOK, Browsers
    <3>2. /\ BrowserTypeOK' /\ browser'.at = browser.at /\ browser'.link = browser.link
          /\ browser'.msg = browser.msg /\ browser'.timer = browser.timer
      BY <1>0, <3>1 DEF BrowserTypeOK, Browsers
    <3>3. BrowserFollows' /\ LinkOK' /\ SeenKnown' /\ EventsOnceInOrder'
      BY <1>0, <1>1, <1>2, <1>7, <3>2 DEF Poll, BrowserFollows, LinkOK, SeenKnown, EventsOnceInOrder, Following
    <3>4. QED
      BY <1>1, <3>2, <3>3, QueueUnchanged DEF RoomInv, ClientInv
  <2>4. QED
    BY <1>7, <2>1, <2>2, <2>3 DEF Poll
<1>8. CASE Load
  BY <1>0, <1>3, <1>8 DEF Load, BrowserFollows
<1>9. CASE Visible
  <2>1. CASE job[browser.msg] = "completed"
    <3>1. browser' = [Closed("answered") EXCEPT !.shown = TRUE]
      BY <1>9, <2>1 DEF Visible
    <3>2. QED
      BY <1>1, <1>2, <2>1, <3>1, BrowserCloses
  <2>2. CASE job[browser.msg] # "completed"
    BY <1>3, <1>9, <2>2 DEF Visible
  <2>3. QED
    BY <2>1, <2>2
<1>10. QED
  BY <1>5, <1>6, <1>7, <1>8, <1>9

\* The next event is the least that has not been seen.
LEMMA DeliverStep ==
  ASSUME RoomInv, Deliver
  PROVE  RoomInv'
<1>0. /\ BrowserTypeOK /\ BrowserFollows /\ LinkOK /\ SeenKnown /\ EventsOnceInOrder
      /\ EventsTypeOK /\ EventsTell /\ browser.at = "watching" /\ browser.link = "open"
  BY DEF RoomInv, ClientInv, Deliver, LinkOK
<1>1. UNCHANGED <<vars, job, events>>
  BY DEF Deliver
<1> DEFINE seen == browser.seen
           k == CHOOSE n \in Unseen(Cursor) : \A x \in Unseen(Cursor) : n <= x
           received == [browser EXCEPT !.seen = Append(@, k)]
<1>2. k \in Unseen(Cursor) /\ \A x \in Unseen(Cursor) : k <= x
  <2>1. Unseen(Cursor) \subseteq 1..Len(events) /\ Len(events) \in Nat /\ Unseen(Cursor) # {}
    BY <1>0 DEF Unseen, EventsTypeOK, Deliver
  <2>2. \E m \in Unseen(Cursor) : \A x \in Unseen(Cursor) : m <= x
    BY <2>1, LeastExists
  <2>3. QED
    BY <2>2
<1>3. browser' = IF events[k].status \in Terminal
                 THEN [received EXCEPT !.at = "asking", !.link = "none", !.timer = FALSE] ELSE received
  BY DEF Deliver
<1> HIDE DEF k
<1>4. /\ k \in 1..Len(events) /\ Len(events) \in Nat /\ DOMAIN events = 1..Len(events)
      /\ events[k].msg = browser.msg /\ k > Cursor
      /\ Cursor \in Nat /\ Cursor <= Len(events)
  BY <1>0, <1>2 DEF Unseen, EventsTypeOK, SeenKnown, Cursor, BrowserTypeOK, Browsers
<1>5. /\ Append(seen, k) \in Seq(Nat) /\ Len(seen) \in Nat /\ DOMAIN seen = 1..Len(seen)
      /\ DOMAIN Append(seen, k) = 1..Len(seen) + 1 /\ Len(Append(seen, k)) = Len(seen) + 1
      /\ Append(seen, k)[Len(seen) + 1] = k
      /\ \A n \in DOMAIN seen : Append(seen, k)[n] = seen[n]
  BY <1>0, <1>4 DEF BrowserTypeOK, Browsers
<1>6. CASE events[k].status \in Terminal
  <2>1. browser' = [browser EXCEPT !.seen = Append(seen, k), !.at = "asking", !.link = "none", !.timer = FALSE]
    BY <1>0, <1>3, <1>6 DEF BrowserTypeOK, Browsers
  <2>2. /\ BrowserTypeOK' /\ browser'.at = "asking" /\ browser'.link = "none" /\ browser'.msg = browser.msg
        /\ ~browser'.timer
    BY <1>0, <1>5, <2>1 DEF BrowserTypeOK, Browsers, Following
  <2>3. browser.msg \in DOMAIN job /\ job[browser.msg] \in Terminal
    BY <1>0, <1>4, <1>6 DEF EventsTell
  <2>4. BrowserFollows' /\ LinkOK' /\ SeenKnown' /\ EventsOnceInOrder'
    BY <1>1, <2>2, <2>3 DEF BrowserFollows, LinkOK, SeenKnown, EventsOnceInOrder, Following
  <2>5. QED
    BY <1>1, <2>2, <2>4, QueueUnchanged DEF RoomInv, ClientInv
<1>7. CASE events[k].status \notin Terminal
  <2>1. browser' = [browser EXCEPT !.seen = Append(seen, k)]
    BY <1>3, <1>7
  <2>2. /\ BrowserTypeOK' /\ browser'.at = "watching" /\ browser'.link = "open" /\ browser'.msg = browser.msg
        /\ browser'.errors = browser.errors /\ browser'.timer = browser.timer
        /\ browser'.seen = Append(seen, k)
    BY <1>0, <1>5, <2>1 DEF BrowserTypeOK, Browsers
  <2>3. BrowserFollows' /\ LinkOK'
    BY <1>0, <1>1, <2>2 DEF BrowserFollows, LinkOK, Following
  <2>4. Cursor' = k
    <3>1. Append(seen, k) # <<>>
      BY <1>5
    <3>2. QED
      BY <1>5, <2>2, <3>1 DEF Cursor
  <2>5. SeenKnown'
    BY <1>1, <1>4, <2>4 DEF SeenKnown
  <2>6. EventsOnceInOrder'
    <3>1. {seen[n] : n \in DOMAIN seen} = {x \in 1..Cursor : events[x].msg = browser.msg}
      BY <1>0 DEF EventsOnceInOrder
    <3>2. {x \in 1..k : events[x].msg = browser.msg} = {x \in 1..Cursor : events[x].msg = browser.msg} \union {k}
      <4>1. ASSUME NEW x \in 1..k, events[x].msg = browser.msg, x # k PROVE x \in 1..Cursor
        <5>1. x \in Unseen(Cursor) \/ x <= Cursor
          BY <1>4, <4>1 DEF Unseen
        <5>2. QED
          BY <1>2, <1>4, <4>1, <5>1
      <4>2. k \in 1..k /\ \A x \in 1..Cursor : x \in 1..k
        BY <1>4
      <4>3. QED
        BY <1>4, <4>1, <4>2, Zenon
    <3>3. {Append(seen, k)[n] : n \in DOMAIN Append(seen, k)} = {seen[n] : n \in DOMAIN seen} \union {k}
      BY <1>5
    <3>4. \A n \in DOMAIN seen : seen[n] < k
      <4>1. \A n \in DOMAIN seen : seen[n] \in 1..Cursor
        BY <3>1
      <4>2. QED
        BY <1>4, <4>1
    <3>5. ASSUME NEW n \in DOMAIN Append(seen, k), NEW o \in DOMAIN Append(seen, k), n < o
          PROVE  Append(seen, k)[n] < Append(seen, k)[o]
      <4>1. n \in DOMAIN seen
        BY <1>5, <3>5
      <4>2. CASE o = Len(seen) + 1
        BY <1>5, <3>4, <4>1, <4>2
      <4>3. CASE o # Len(seen) + 1
        <5>1. o \in DOMAIN seen
          BY <1>5, <4>3
        <5>2. QED
          BY <1>0, <1>5, <3>5, <4>1, <5>1 DEF EventsOnceInOrder
      <4>4. QED
        BY <4>2, <4>3
    <3>6. \A n \in DOMAIN Append(seen, k) : events[Append(seen, k)[n]].status \notin Terminal
      BY <1>0, <1>5, <1>7 DEF EventsOnceInOrder
    <3>7. QED
      BY <1>1, <2>2, <2>4, <3>1, <3>2, <3>3, <3>5, <3>6 DEF EventsOnceInOrder
  <2>7. QED
    BY <1>1, <2>2, <2>3, <2>5, <2>6, QueueUnchanged DEF RoomInv, ClientInv
<1>8. QED
  BY <1>6, <1>7

\* A step of the handlers, with the answer to the browser where it ends
LEMMA IntakeRoomStep ==
  ASSUME RoomInv, IntakeStep
  PROVE  RoomInv'
<1>0. /\ IntakeInv /\ BrowserTypeOK /\ BrowserFollows /\ LinkOK /\ JobsTypeOK /\ EventsTypeOK /\ EventsTell /\ ClientInv
      /\ IntakeMoves /\ Next
  BY DEF RoomInv, ClientInv, IntakeStep, IntakeMoves
<1>1. IntakeInv'
  BY <1>0, IntakeStepInv
<1>2. JobsOf(log) \subseteq JobsOf(log')
  BY <1>0, JobsStay
<1>3. job' = [i \in JobsOf(log') |-> IF i \in DOMAIN job THEN job[i] ELSE "queued"]
  BY DEF IntakeStep
<1>4. /\ JobsTypeOK'
      /\ DOMAIN job = JobsOf(log) /\ DOMAIN job' = JobsOf(log') /\ DOMAIN job \subseteq DOMAIN job'
      /\ \A i \in DOMAIN job : job'[i] = job[i]
      /\ \A i \in DOMAIN job' \ DOMAIN job : job'[i] = "queued"
  BY <1>0, <1>2, <1>3 DEF JobsTypeOK, JobStatus
<1>5. \/ events' = events
      \/ \E i \in DOMAIN job' \ DOMAIN job : events' = Append(events, [msg |-> i, status |-> "queued"])
  BY <1>4 DEF IntakeStep
<1>6. JobsOf(log') \subseteq Nat
  BY <1>1, LogIs DEF JobsOf, IntakeInv, LogTypeOK
<1>7. events' = events \/ \E e \in [msg : Nat, status : JobStatus] : events' = Append(events, e)
  <2>1. ASSUME NEW i \in DOMAIN job' \ DOMAIN job
        PROVE  [msg |-> i, status |-> "queued"] \in [msg : Nat, status : JobStatus]
    BY <1>4, <1>6 DEF JobStatus
  <2>2. QED
    BY <1>5, <2>1
<1>8. EventsTypeOK' /\ EventsTell'
  <2>1. CASE events' = events
    BY <1>0, <1>4, <2>1 DEF EventsTypeOK, EventsTell, Terminal
  <2>2. ASSUME NEW i \in DOMAIN job' \ DOMAIN job, events' = Append(events, [msg |-> i, status |-> "queued"])
        PROVE  EventsTypeOK' /\ EventsTell'
    <3>1. [msg |-> i, status |-> "queued"] \in [msg : Nat, status : JobStatus]
      BY <1>4, <1>6 DEF JobStatus
    <3>2. /\ EventsTypeOK' /\ DOMAIN events = 1..Len(events) /\ DOMAIN events' = 1..Len(events) + 1 /\ Len(events) \in Nat
          /\ \A k \in DOMAIN events : events'[k] = events[k]
          /\ events'[Len(events) + 1] = [msg |-> i, status |-> "queued"]
      BY <1>0, <2>2, <3>1 DEF EventsTypeOK
    <3>3. ASSUME NEW k \in DOMAIN events'
          PROVE  events'[k].msg \in DOMAIN job' /\ (events'[k].status \in Terminal => job'[events'[k].msg] \in Terminal)
      <4>1. CASE k = Len(events) + 1
        BY <3>2, <4>1 DEF Terminal
      <4>2. CASE k # Len(events) + 1
        <5>1. k \in DOMAIN events
          BY <3>2, <4>2
        <5>2. QED
          BY <1>0, <1>4, <3>2, <5>1 DEF EventsTell
      <4>3. QED
        BY <4>1, <4>2
    <3>4. ASSUME NEW j \in DOMAIN job', job'[j] \in Terminal
          PROVE  \E k \in DOMAIN events' : events'[k].msg = j /\ events'[k].status \in Terminal
      <4>1. j \in DOMAIN job /\ job[j] \in Terminal
        BY <1>4, <3>4 DEF Terminal
      <4>2. PICK k \in DOMAIN events : events[k].msg = j /\ events[k].status \in Terminal
        BY <1>0, <4>1 DEF EventsTell
      <4>3. QED
        BY <3>2, <4>2
    <3>5. QED
      BY <3>2, <3>3, <3>4 DEF EventsTell
  <2>3. QED
    BY <1>5, <2>1, <2>2
<1>9. CASE UNCHANGED browser /\ ~(browser.at = "posting" /\ desk' = Idle)
  <2>1. BrowserTypeOK' /\ LinkOK'
    BY <1>0, <1>9 DEF BrowserTypeOK, LinkOK
  <2>2. SeenKnown' /\ EventsOnceInOrder'
    BY <1>0, <1>7, <1>9, EventsGrow
  <2>3. BrowserFollows'
    <3>1. ASSUME browser.at = "posting" PROVE desk' # Idle /\ desk'.req \in Sends
      <4>1. desk # Idle /\ desk.req \in Sends /\ desk' # Idle
        BY <1>0, <1>9, <3>1 DEF BrowserFollows
      <4>2. desk'.req = desk.req
        <5>1. CASE RecordScene
          BY <5>1 DEF RecordScene
        <5>2. CASE Prepare \/ Store \/ ApplyControl \/ BeginTurn \/ Crash
          BY <4>1, <5>2 DEF Prepare, Store, ApplyControl, BeginTurn, Crash
        <5>3. CASE desk' = desk
          BY <5>3
        <5>4. QED
          BY <1>0, <4>1, <5>1, <5>2, <5>3
             DEF Next, Receive, Take, EndAwaited, Delete, StartClear, CommitClear, Switch
      <4>3. QED
        BY <4>1, <4>2
    <3>2. QED
      BY <1>0, <1>4, <1>9, <3>1 DEF BrowserFollows, Following
  <2>4. QED
    BY <1>1, <1>4, <1>8, <2>1, <2>2, <2>3 DEF RoomInv, ClientInv
<1>10. CASE browser.at = "posting" /\ desk' = Idle
  <2>1. Answered /\ desk # Idle /\ desk.req \in Sends
    BY <1>0, <1>10 DEF IntakeStep, BrowserFollows
  <2>2. CASE browser' = Closed("failed")
    <3>1. BrowserTypeOK' /\ browser'.at = "failed" /\ browser'.link = "none" /\ ~browser'.timer
      BY <1>0, <2>2 DEF Closed, BrowserTypeOK, Browsers
    <3>2. BrowserFollows' /\ LinkOK' /\ SeenKnown' /\ EventsOnceInOrder'
      BY <3>1 DEF BrowserFollows, LinkOK, SeenKnown, EventsOnceInOrder, Following
    <3>3. QED
      BY <1>1, <1>4, <1>8, <3>1, <3>2 DEF RoomInv, ClientInv
  <2>3. CASE Said # 0 /\ browser' = Watching(Said)
    <3>1. Said \in DOMAIN job' /\ Said \in Nat
      BY <1>0, <1>4, <1>10, <2>1, <2>3, SaidHasJob
    <3>2. BrowserTypeOK' /\ BrowserFollows' /\ LinkOK' /\ SeenKnown' /\ EventsOnceInOrder'
      BY <1>0, <1>8, <2>3, <3>1, BrowserWatches
    <3>3. QED
      BY <1>1, <1>4, <1>8, <3>2 DEF RoomInv, ClientInv
  <2>4. QED
    BY <2>1, <2>2, <2>3 DEF Answered
<1>11. QED
  BY <1>9, <1>10 DEF IntakeStep

LEMMA RoomStep == RoomInv /\ [RoomNext]_roomVars => RoomInv'
<1> SUFFICES ASSUME RoomInv, [RoomNext]_roomVars PROVE RoomInv'
  OBVIOUS
<1>1. CASE UNCHANGED roomVars
  <2>1. UNCHANGED <<vars, job, events, browser>>
    BY <1>1 DEF roomVars, client
  <2>2. QED
    BY <2>1, QueueUnchanged DEF RoomInv, ClientInv, BrowserTypeOK, BrowserFollows, LinkOK, SeenKnown, EventsOnceInOrder, Cursor,
                               vars, intake
<1>2. CASE RoomNext
  BY <1>2, IntakeRoomStep, PostStep, WorkStep, OpensStep, DeliverStep, LinkFailsStep, ClosingSteps DEF RoomNext
<1>3. QED
  BY <1>1, <1>2

LEMMA RoomInvHolds == RoomSpec => []RoomInv
  BY ClientInit, RoomStep, PTL DEF RoomSpec

-----------------------------------------------------------------------------
\* A message of the user that is in the room has a job, an answer that is awaited, a mark of failure,
\* or the handler that is taking it in at this moment, and only a crash can take that from it: the
\* commits of create_message_generation_job leave nothing behind that they refuse.
THEOREM EveryMessageHasItsTurn == RoomSpec => []MessageHasItsTurn
<1>1. RoomInv => MessageHasItsTurn
  BY DEF RoomInv, IntakeInv, PendingAtDesk, MessageHasItsTurn, AtMessage, Idle
<1>2. QED
  BY <1>1, RoomInvHolds, PTL

\* However often the connection is cut, the browser has received each event of its job up to the last
\* one it knows, once and in order, and none that ends it while it still listens.
THEOREM ReplayIsExact == RoomSpec => []EventsOnceInOrder
  BY RoomInvHolds, PTL DEF RoomInv, ClientInv

\* With at most two errors in a row (maxConsecutiveErrors is 2), a browser that listens has a connection
\* or the timer of the first one to wait for, and an event to come if its job has ended.
THEOREM NeverWaitsForNothing ==
  ASSUME MaxErrors <= 2
  PROVE  RoomSpec => []WaitsForSomething
<1>1. RoomInv => WaitsForSomething
  <2> SUFFICES ASSUME RoomInv, browser.at = "watching"
               PROVE  /\ browser.link = "dead" => browser.timer
                      /\ job[browser.msg] \in Terminal => \E k \in Unseen(Cursor) : events[k].status \in Terminal
    BY DEF WaitsForSomething
  <2>1. BrowserFollows /\ LinkOK /\ EventsTell /\ EventsOnceInOrder /\ EventsTypeOK /\ BrowserTypeOK
    BY DEF RoomInv, ClientInv
  <2>2. ASSUME job[browser.msg] \in Terminal PROVE \E k \in Unseen(Cursor) : events[k].status \in Terminal
    <3>1. browser.msg \in DOMAIN job
      BY <2>1 DEF BrowserFollows, Following
    <3>2. PICK k \in DOMAIN events : events[k].msg = browser.msg /\ events[k].status \in Terminal
      BY <2>1, <2>2, <3>1 DEF EventsTell
    <3>3. k \in Nat /\ k >= 1 /\ Cursor \in Nat
      BY <2>1 DEF EventsTypeOK, Cursor, BrowserTypeOK, Browsers
    <3>4. ~(k <= Cursor)
      <4>1. SUFFICES ASSUME k <= Cursor PROVE FALSE
        OBVIOUS
      <4>2. k \in {browser.seen[n] : n \in DOMAIN browser.seen}
        BY <2>1, <3>2, <3>3, <4>1 DEF EventsOnceInOrder
      <4>3. QED
        BY <2>1, <3>2, <4>2 DEF EventsOnceInOrder
    <3>5. QED
      BY <3>2, <3>3, <3>4 DEF Unseen
  <2>3. QED
    BY <2>1, <2>2 DEF LinkOK
<1>2. QED
  BY <1>1, RoomInvHolds, PTL

\* What the browser shows as answered has been completed, and its replies are those it shows.
THEOREM ShownIsCompleted == RoomSpec => []AnsweredIsStored
<1>1. RoomInv => AnsweredIsStored
  BY DEF RoomInv, ClientInv, BrowserFollows, AnsweredIsStored
<1>2. QED
  BY <1>1, RoomInvHolds, PTL

\* With the source's bound of two errors, all that a browser is promised holds together: it is in a
\* well-formed state, has each event once and in order, waits for something and shows what is stored.
THEOREM TurnIsFollowed ==
  ASSUME MaxErrors <= 2
  PROVE  RoomSpec => []FollowsItsTurn
<1>1. RoomInv => ClientTypeOK
  <2> SUFFICES ASSUME RoomInv PROVE ClientTypeOK
    OBVIOUS
  <2>1. JobsTypeOK /\ EventsTell /\ BrowserTypeOK /\ BrowserFollows /\ LinkOK
    BY DEF RoomInv, ClientInv
  <2>2. DOMAIN job = JobsOf(log) /\ \A i \in DOMAIN job : job[i] \in Terminal \union {"queued", "running"}
    BY <2>1 DEF JobsTypeOK, JobStatus
  <2>3. \A k \in DOMAIN events : events[k].msg \in DOMAIN job
    BY <2>1 DEF EventsTell
  <2>4. /\ browser.at \in Following \union {"off", "ready", "posting", "failed"}
        /\ browser.link \in {"none", "connecting", "open", "dead"}
        /\ browser.errors \in Nat /\ browser.polls \in Nat
    BY <2>1 DEF BrowserTypeOK, Browsers
  <2>5. /\ browser.at \in Following => browser.msg \in DOMAIN job
        /\ browser.at # "watching" => browser.link = "none"
    BY <2>1 DEF BrowserFollows, LinkOK
  <2>6. QED
    BY <2>2, <2>3, <2>4, <2>5 DEF ClientTypeOK, Following
<1>2. QED
  BY <1>1, RoomInvHolds, ReplayIsExact, NeverWaitsForNothing, ShownIsCompleted, PTL DEF FollowsItsTurn

-----------------------------------------------------------------------------
(* Requests are taken in once.                                             *)

\* Apart from a message that is stored, the log only wears: requests stay, messages that are gone stay
\* gone, and only the last message comes by a job.
LEMMA LogWears ==
  ASSUME IntakeInv, IntakeMoves, ~(Store /\ ~IsRepeat(desk.req))
  PROVE  /\ DOMAIN log' = DOMAIN log
         /\ \A k \in DOMAIN log : /\ log'[k].req = log[k].req
                                  /\ log'[k].live => log[k].live
                                  /\ log'[k].fate = "job" => log[k].fate = "job" \/ k = Len(log)
<1>0. LogTypeOK /\ DeskShape /\ \A k \in DOMAIN log : log[k] \in Entry
  BY LogIs DEF IntakeInv
<1>1. CASE UNCHANGED log
  BY <1>1
<1>2. CASE Store
  BY <1>2, <1>1 DEF Store
<1>3. CASE ApplyControl
  <2>1. /\ desk.msg \in DOMAIN log
        /\ log' = log \/ log' = [log EXCEPT ![desk.msg] = Refused(log[desk.msg])]
    BY <1>0, <1>3, LogIs DEF ApplyControl, DeskShape, AtMessage, Idle
  <2>2. PICK e : e = [log[desk.msg] EXCEPT !.live = FALSE] /\ (log' = log \/ log' = [log EXCEPT ![desk.msg] = e])
    BY <2>1 DEF Refused
  <2>3. ~e.live /\ e.fate = log[desk.msg].fate /\ e.req = log[desk.msg].req
    BY <1>0, <2>1, <2>2, EntryChanged DEF Fates
  <2>4. QED
    BY <1>1, <2>1, <2>2, <2>3
<1>4. CASE BeginTurn
  <2>1. desk.msg = Len(log) /\ desk.msg \in DOMAIN log
    BY <1>0, <1>4, LogIs DEF BeginTurn, DeskShape, AtMessage, Idle
  <2>2. PICK f \in {"job", "awaited"} : log' = [log EXCEPT ![desk.msg].fate = f]
    BY <1>4 DEF BeginTurn
  <2>3. PICK e : e = [log[desk.msg] EXCEPT !.fate = f] /\ log' = [log EXCEPT ![desk.msg] = e]
    BY <2>2
  <2>4. e.live = log[desk.msg].live /\ e.req = log[desk.msg].req
    BY <1>0, <2>1, <2>3, EntryChanged DEF Fates
  <2>5. QED
    BY <2>1, <2>3, <2>4
<1>5. ASSUME NEW i \in DOMAIN log, NEW f \in {"answered", "failed", "cut"}, log' = [log EXCEPT ![i].fate = f]
      PROVE  /\ DOMAIN log' = DOMAIN log
             /\ \A k \in DOMAIN log : /\ log'[k].req = log[k].req
                                      /\ log'[k].live => log[k].live
                                      /\ log'[k].fate = "job" => log[k].fate = "job" \/ k = Len(log)
  <2>1. PICK e : e = [log[i] EXCEPT !.fate = f] /\ log' = [log EXCEPT ![i] = e]
    BY <1>5
  <2>2. e.live = log[i].live /\ e.req = log[i].req /\ e.fate = f /\ f # "job"
    BY <1>0, <1>5, <2>1, EntryChanged DEF Fates
  <2>3. QED
    BY <2>1, <2>2
<1>6. ASSUME NEW i \in DOMAIN log, Delete(i)
      PROVE  /\ DOMAIN log' = DOMAIN log
             /\ \A k \in DOMAIN log : /\ log'[k].req = log[k].req
                                      /\ log'[k].live => log[k].live
                                      /\ log'[k].fate = "job" => log[k].fate = "job" \/ k = Len(log)
  <2>1. PICK e : e = [log[i] EXCEPT !.live = FALSE] /\ log' = [log EXCEPT ![i] = e]
    BY <1>6 DEF Delete
  <2>2. ~e.live /\ e.fate = log[i].fate /\ e.req = log[i].req
    BY <1>0, <2>1, EntryChanged DEF Fates
  <2>3. QED
    BY <2>1, <2>2
<1>7. CASE Crash
  <2>1. DOMAIN log' = DOMAIN log /\ \A k \in DOMAIN log : log'[k] \in {log[k], [log[k] EXCEPT !.fate = "cut"]}
    BY <1>7 DEF Crash
  <2>2. \A k \in DOMAIN log : /\ [log[k] EXCEPT !.fate = "cut"].fate = "cut"
                              /\ [log[k] EXCEPT !.fate = "cut"].live = log[k].live
                              /\ [log[k] EXCEPT !.fate = "cut"].req = log[k].req
    BY <1>0, EntryChanged DEF Fates
  <2>3. QED
    BY <2>1, <2>2
<1>8. QED
  BY <1>1, <1>2, <1>3, <1>4, <1>5, <1>6, <1>7
     DEF IntakeMoves, Next, Receive, Takes, Take, Prepare, RecordScene, StartClear, CommitClear, Switch,
         EndAwaited

\* The newest of the messages a request is looked up among.
LEMMA EarlierIsNewest ==
  ASSUME LogTypeOK, NEW r, NEW i \in Recent, log[i].req = r
  PROVE  Earlier(r) \in Recent /\ log[Earlier(r)].req = r /\ i <= Earlier(r)
<1> DEFINE same == {k \in Recent : log[k].req = r}
<1>1. same \subseteq 1..Len(log) /\ Len(log) \in Nat /\ i \in same
  BY LogIs DEF Recent, UserMessages
<1>2. \E k \in same : \A x \in same : x <= k
  BY <1>1, GreatestExists
<1>3. Earlier(r) = CHOOSE k \in same : \A x \in same : x <= k
  BY <1>1 DEF Earlier
<1>4. Earlier(r) \in same /\ \A x \in same : x <= Earlier(r)
  BY <1>2, <1>3
<1>5. QED
  BY <1>1, <1>4

FromUsers(lo, hi) == {n \in lo..hi : Payload[log[n].req].speaker = "user"}

LEMMA MoreOfUsers ==
  ASSUME NEW lo \in Int, NEW hi \in Int, NEW S, S \subseteq FromUsers(lo, hi), Cardinality(S) >= Lookback
  PROVE  Cardinality(FromUsers(lo, hi)) >= Lookback
<1>1. IsFiniteSet(lo..hi) /\ FromUsers(lo, hi) \subseteq lo..hi
  BY FS_Interval DEF FromUsers
<1>2. IsFiniteSet(FromUsers(lo, hi))
  BY <1>1, FS_Subset
<1>3. /\ Cardinality(S) <= Cardinality(FromUsers(lo, hi)) /\ Cardinality(S) \in Nat
      /\ Cardinality(FromUsers(lo, hi)) \in Nat
  BY <1>2, FS_Subset, FS_CardinalityType
<1>4. QED
  BY <1>3, IntakeAssumption

LEMMA OnceStep ==
  ASSUME IntakeInv, TakenInOnce, IntakeMoves
  PROVE  TakenInOnce'
<1>0. LogTypeOK /\ Len(log) \in Nat /\ DOMAIN log = 1..Len(log)
  BY LogIs DEF IntakeInv
<1>1. ASSUME DOMAIN log' = DOMAIN log,
             \A k \in DOMAIN log : /\ log'[k].req = log[k].req
                                   /\ log'[k].live => log[k].live
                                   /\ log'[k].fate = "job" => log[k].fate = "job" \/ k = Len(log)
      PROVE  TakenInOnce'
  <2>1. ASSUME NEW i \in DOMAIN log', NEW k \in DOMAIN log', i < k, log'[i].req = log'[k].req,
               Payload[log'[i].req].via = "jobs", Payload[log'[i].req].speaker = "user",
               log'[i].live, log'[i].fate = "job"
        PROVE  Cardinality({n \in i + 1 .. k - 1 : Payload[log'[n].req].speaker = "user"}) >= Lookback
    <3>1. log[i].fate = "job" /\ log[i].live
      BY <1>0, <1>1, <2>1
    <3>2. Cardinality({n \in i + 1 .. k - 1 : Payload[log[n].req].speaker = "user"}) >= Lookback
      BY <1>1, <2>1, <3>1 DEF TakenInOnce, IsLive
    <3>3. \A n \in i + 1 .. k - 1 : log'[n].req = log[n].req
      BY <1>0, <1>1, <2>1
    <3>4. {n \in i + 1 .. k - 1 : Payload[log'[n].req].speaker = "user"}
              = {n \in i + 1 .. k - 1 : Payload[log[n].req].speaker = "user"}
      BY <3>3
    <3>5. QED
      BY <3>2, <3>4
  <2>2. QED
    BY <2>1 DEF TakenInOnce, IsLive
<1>2. CASE ~(Store /\ ~IsRepeat(desk.req))
  BY <1>1, <1>2, LogWears
<1>3. CASE Store /\ ~IsRepeat(desk.req)
  <2>1. desk.req \in Requests
    BY <1>3 DEF Store, IntakeInv, DeskShape, Idle
  <2>2. PICK r \in Requests : r = desk.req
    BY <2>1
  <2>3. PICK e \in Entry : log' = Append(log, e) /\ e.req = r
    <3>1. [req |-> r, live |-> TRUE, fate |-> "none"] \in Entry
      BY DEF Entry, Fates
    <3>2. QED
      BY <1>3, <2>2, <3>1 DEF Store
  <2>4. /\ DOMAIN log' = 1..Len(log) + 1 /\ log'[Len(log) + 1].req = r
        /\ \A k \in DOMAIN log : log'[k] = log[k]
    BY <1>0, <2>3, LogAppends
  <2>5. ASSUME NEW i \in DOMAIN log, log[i].req = r, Payload[r].via = "jobs", Payload[r].speaker = "user",
               log[i].live, log[i].fate = "job"
        PROVE  Cardinality(FromUsers(i + 1, Len(log))) >= Lookback
    <3>1. i \in UserMessages
      BY <2>5 DEF UserMessages, IsLive
    <3>2. CASE i \notin Recent
      <4> DEFINE S == {k \in UserMessages : k > i}
      <4>1. S \subseteq FromUsers(i + 1, Len(log))
        BY <1>0, <2>5 DEF UserMessages, FromUsers
      <4>2. IsFiniteSet(FromUsers(i + 1, Len(log)))
        <5>1. i + 1 \in Int /\ Len(log) \in Int
          BY <1>0, <2>5
        <5>2. IsFiniteSet(i + 1 .. Len(log))
          BY <5>1, FS_Interval
        <5>3. FromUsers(i + 1, Len(log)) \subseteq i + 1 .. Len(log)
          BY DEF FromUsers
        <5>4. QED
          BY <5>2, <5>3, FS_Subset
      <4>3. Cardinality(S) \in Nat
        BY <4>1, <4>2, FS_Subset, FS_CardinalityType
      <4>4. ~(Cardinality(S) < Lookback)
        BY <3>1, <3>2 DEF Recent
      <4>5. Cardinality(S) >= Lookback
        BY <4>3, <4>4, IntakeAssumption
      <4> HIDE DEF S
      <4>6. QED
        BY <1>0, <4>1, <4>5, MoreOfUsers
    <3>3. CASE i \in Recent
      <4>1. PICK k : k = Earlier(r)
        OBVIOUS
      <4>2. k \in Recent /\ log[k].req = r /\ i <= k /\ k \in DOMAIN log
        BY <1>0, <2>5, <3>3, <4>1, EarlierIsNewest DEF Recent, UserMessages
      <4>3. log[k].fate # "job"
        BY <1>0, <1>3, <2>2, <2>5, <4>1, <4>2 DEF IsRepeat
      <4>4. i < k
        BY <1>0, <2>5, <4>2, <4>3
      <4>5. Cardinality(FromUsers(i + 1, k - 1)) >= Lookback
        BY <2>5, <4>2, <4>4 DEF TakenInOnce, IsLive, FromUsers
      <4>6. FromUsers(i + 1, k - 1) \subseteq FromUsers(i + 1, Len(log))
        BY <1>0, <4>2 DEF FromUsers
      <4>7. QED
        BY <1>0, <4>5, <4>6, MoreOfUsers
    <3>4. QED
      BY <3>2, <3>3
  <2>6. ASSUME NEW i \in DOMAIN log', NEW k \in DOMAIN log', i < k, log'[i].req = log'[k].req,
               Payload[log'[i].req].via = "jobs", Payload[log'[i].req].speaker = "user",
               log'[i].live, log'[i].fate = "job"
        PROVE  Cardinality({n \in i + 1 .. k - 1 : Payload[log'[n].req].speaker = "user"}) >= Lookback
    <3>1. i \in DOMAIN log /\ log'[i] = log[i]
      BY <1>0, <2>4, <2>6
    <3>2. \A n \in i + 1 .. k - 1 : n \in DOMAIN log /\ log'[n] = log[n]
      BY <1>0, <2>4, <2>6
    <3>3. {n \in i + 1 .. k - 1 : Payload[log'[n].req].speaker = "user"} = FromUsers(i + 1, k - 1)
      BY <3>2 DEF FromUsers
    <3>4. CASE k = Len(log) + 1
      <4>1. k - 1 = Len(log) /\ log[i].req = r
        BY <1>0, <2>4, <2>6, <3>1, <3>4
      <4>2. QED
        BY <2>5, <2>6, <3>1, <3>3, <4>1
    <3>5. CASE k # Len(log) + 1
      <4>1. k \in DOMAIN log /\ log'[k] = log[k]
        BY <1>0, <2>4, <2>6, <3>5
      <4>2. Cardinality(FromUsers(i + 1, k - 1)) >= Lookback
        BY <2>6, <3>1, <4>1 DEF TakenInOnce, IsLive, FromUsers
      <4>3. QED
        BY <3>3, <4>2
    <3>6. QED
      BY <3>4, <3>5
  <2>7. QED
    BY <2>6 DEF TakenInOnce, IsLive
<1>4. QED
  BY <1>2, <1>3

\* What the room's steps are to intake: one of its own, or none.
LEMMA RoomMoves ==
  ASSUME [RoomNext]_roomVars
  PROVE  IntakeMoves \/ UNCHANGED vars
<1>1. CASE IntakeStep
  BY <1>1 DEF IntakeStep, IntakeMoves
<1>2. ASSUME NEW r \in Sends, Post(r) PROVE IntakeMoves
  <2>1. r \in Requests /\ Take(r)
    BY <1>2, ClientAssumption DEF Post
  <2>2. Takes(r)
    BY <1>2, <2>1 DEF Post, Takes
  <2>3. QED
    BY <2>1, <2>2 DEF IntakeMoves
<1>3. ASSUME NEW i \in DOMAIN job, Work(i) PROVE UNCHANGED vars
  BY <1>3 DEF Work
<1>4. CASE Opens \/ Deliver \/ LinkFails \/ OpenTimeout \/ Leave
  BY <1>4 DEF Opens, Deliver, LinkFails, OpenTimeout, Leave
<1>5. CASE Ask \/ Poll \/ Load \/ Visible
  BY <1>5 DEF Ask, Poll, Load, Visible
<1>6. CASE UNCHANGED roomVars
  BY <1>6 DEF roomVars
<1>7. QED
  BY <1>1, <1>2, <1>3, <1>4, <1>5, <1>6 DEF RoomNext

\* A request of the user is taken in once while its first message has its job, unless the user has sent
\* Lookback messages since: what find_incoming_message_by_client_request_id promises a retry.
THEOREM RequestsOnce == RoomSpec => []TakenInOnce
<1>1. RoomInit => TakenInOnce
  BY DEF RoomInit, Init, TakenInOnce
<1>2. RoomInv /\ TakenInOnce /\ [RoomNext]_roomVars => TakenInOnce'
  <2> SUFFICES ASSUME RoomInv, TakenInOnce, [RoomNext]_roomVars PROVE TakenInOnce'
    OBVIOUS
  <2>1. CASE IntakeMoves
    BY <2>1, OnceStep DEF RoomInv
  <2>2. CASE UNCHANGED vars
    BY <2>2 DEF vars, intake, TakenInOnce, IsLive
  <2>3. QED
    BY <2>1, <2>2, RoomMoves
<1>3. QED
  BY <1>1, <1>2, RoomInvHolds, PTL DEF RoomSpec

-----------------------------------------------------------------------------
(* The battle.                                                             *)

\* Rows of matches, the table, and what the messages and the ledger say of each other
Match == [a : Characters, b : Characters, status : Statuses,
          winner : Characters \union {Nobody}, loser : Characters \union {Nobody},
          order : 1 .. Unordered, first : Nat, last : Nat]
MatchesOK == matches \in Seq(Match)
TableOK(table) ==
    /\ DOMAIN table \subseteq Characters /\ IsFiniteSet(DOMAIN table)
    /\ \A c \in DOMAIN table : table[c].wins \in Nat /\ table[c].losses \in Nat
                               /\ table[c].rank \in 1 .. Cardinality(DOMAIN table)
AtControl == desk.at = "control" => Payload[desk.req].control # None
AllTold == \A i \in DOMAIN log : Applied(i) /\ ControlOf(i) # None => Told(ControlOf(i), i)
AllSourced == \A m \in DOMAIN matches : Sourced(matches[m])

BattleInv == MatchesOK /\ TableOK(standings) /\ AtControl /\ StandingsTally /\ OneMatchAtATime
             /\ AllTold /\ AllSourced

\* The columns of active commands, as they are and as they have been loaded.
CommandColumns == [ids : Seq(Commands), legacy : Commands \union {None}]
ColumnsOK ==
    /\ room \in CommandColumns
    /\ \A c \in clearing : c.was \in CommandColumns /\ c.what \in Commands \union {None}
    /\ desk.at = "prepare" => desk.was \in CommandColumns
    /\ enabled \subseteq Commands /\ withdrawn \subseteq Commands /\ overtaken \in BOOLEAN
    /\ direction \in 0 .. Len(log)

\* Where, of every two elements, one is before the other and so is all that is before it, the numbers
\* of the elements up to each are all the numbers up to the size of the set, and no two are the same.
LEMMA RanksAreAll ==
  ASSUME NEW S, IsFiniteSet(S), NEW upto \in [S -> SUBSET S],
         \A c \in S : c \in upto[c],
         \A c, d \in S : c # d => (upto[c] \subseteq upto[d] /\ d \notin upto[c])
                                  \/ (upto[d] \subseteq upto[c] /\ c \notin upto[d])
  PROVE  /\ {Cardinality(upto[c]) : c \in S} = 1 .. Cardinality(S)
         /\ \A c, d \in S : Cardinality(upto[c]) = Cardinality(upto[d]) => c = d
         /\ \A c \in S : Cardinality(upto[c]) \in 1 .. Cardinality(S)
<1>0. PICK n \in Nat : n = Cardinality(S)
  BY FS_CardinalityType
<1> DEFINE rank == [c \in S |-> Cardinality(upto[c])]
<1>1. \A c \in S : IsFiniteSet(upto[c]) /\ rank[c] \in 1 .. n
  <2> SUFFICES ASSUME NEW c \in S PROVE IsFiniteSet(upto[c]) /\ rank[c] \in 1 .. n
    OBVIOUS
  <2>1. IsFiniteSet(upto[c]) /\ Cardinality(upto[c]) <= n
    BY <1>0, FS_Subset
  <2>2. Cardinality(upto[c]) \in Nat /\ Cardinality(upto[c]) # 0
    BY <2>1, FS_CardinalityType, FS_EmptySet
  <2>3. QED
    BY <2>1, <2>2
<1>2. ASSUME NEW c \in S, NEW d \in S, upto[c] \subseteq upto[d], d \notin upto[c]
      PROVE  rank[c] # rank[d]
  <2>1. upto[c] # upto[d]
    BY <1>2
  <2>2. QED
    BY <1>1, <1>2, <2>1, FS_Subset
<1>3. \A c, d \in S : rank[c] = rank[d] => c = d
  BY <1>2
<1>4. IsFiniteSet(1 .. n) /\ Cardinality(1 .. n) = n
  BY FS_Interval
<1> HIDE DEF rank
<1>5. DOMAIN rank = S
  BY DEF rank
<1>6. rank \in Injection(S, 1 .. n)
  BY <1>1, <1>3, <1>5 DEF Injection, IsInjective, rank
<1>7. rank \in Surjection(S, 1 .. n)
  BY <1>0, <1>4, <1>6, FS_Injection
<1>8. {rank[c] : c \in S} = 1 .. n
  BY <1>1, <1>7 DEF Surjection
<1>9. QED
  BY <1>0, <1>1, <1>3, <1>8 DEF rank

\* What is left of a list: its elements that are in the set, each where it was the n-th of them.
LEMMA OnlyIs ==
  ASSUME NEW T, NEW ids \in Seq(T), NEW set
  PROVE  /\ Only(ids, set) \in Seq(T)
         /\ {Only(ids, set)[n] : n \in DOMAIN Only(ids, set)} = {ids[i] : i \in DOMAIN ids} \intersect set
<1> DEFINE places == Places(ids, set)
<1>1. Len(ids) \in Nat /\ DOMAIN ids = 1 .. Len(ids) /\ places \subseteq 1 .. Len(ids)
  BY DEF Places
<1>2. IsFiniteSet(places)
  <2>1. IsFiniteSet(1 .. Len(ids))
    BY <1>1, FS_Interval
  <2>2. QED
    BY <1>1, <2>1, FS_Subset
<1> DEFINE upto == [i \in places |-> {k \in places : k <= i}]
<1>3. /\ {Cardinality(upto[c]) : c \in places} = 1 .. Cardinality(places)
      /\ \A c, d \in places : Cardinality(upto[c]) = Cardinality(upto[d]) => c = d
      /\ \A c \in places : Cardinality(upto[c]) \in 1 .. Cardinality(places)
  <2>1. upto \in [places -> SUBSET places] /\ \A c \in places : c \in upto[c]
    BY <1>1
  <2>2. \A c, d \in places : c # d => (upto[c] \subseteq upto[d] /\ d \notin upto[c])
                                      \/ (upto[d] \subseteq upto[c] /\ c \notin upto[d])
    BY <1>1
  <2> HIDE DEF places, upto
  <2>3. QED
    BY <1>2, <2>1, <2>2, RanksAreAll
<1>4. \A i \in places : Cardinality(upto[i]) = PlaceNo(places, i)
  BY DEF PlaceNo
<1> DEFINE at(n) == CHOOSE i \in places : PlaceNo(places, i) = n
<1>5. \A n \in 1 .. Cardinality(places) : at(n) \in places /\ PlaceNo(places, at(n)) = n
  <2> HIDE DEF upto, places
  <2> SUFFICES ASSUME NEW n \in 1 .. Cardinality(places) PROVE at(n) \in places /\ PlaceNo(places, at(n)) = n
    OBVIOUS
  <2>1. \E i \in places : PlaceNo(places, i) = n
    BY <1>3, <1>4
  <2>2. QED
    BY <2>1
<1>6. \A i \in places : PlaceNo(places, i) \in 1 .. Cardinality(places) /\ at(PlaceNo(places, i)) = i
  <2> HIDE DEF upto, places, at
  <2>1. \A i \in places : PlaceNo(places, i) \in 1 .. Cardinality(places)
    BY <1>3, <1>4
  <2>2. QED
    BY <1>3, <1>4, <1>5, <2>1
<1>7. Only(ids, set) = [n \in 1 .. Cardinality(places) |-> ids[at(n)]]
  BY DEF Only
<1> HIDE DEF upto, at
<1>8. \A i \in places : i \in DOMAIN ids /\ ids[i] \in set
  BY DEF Places
<1>9. \A i \in DOMAIN ids : ids[i] \in T
  BY <1>1
<1>10. Cardinality(places) \in Nat
  BY <1>2, FS_CardinalityType
<1>11. Only(ids, set) \in Seq(T)
  BY <1>5, <1>7, <1>8, <1>9, <1>10
<1>12. ASSUME NEW x, x \in {ids[i] : i \in DOMAIN ids}, x \in set
       PROVE  x \in {Only(ids, set)[n] : n \in DOMAIN Only(ids, set)}
  <2>1. PICK i \in DOMAIN ids : x = ids[i]
    BY <1>12
  <2>2. i \in places
    BY <1>12, <2>1 DEF Places
  <2> HIDE DEF places
  <2>3. PICK n \in 1 .. Cardinality(places) : at(n) = i
    BY <1>6, <2>2
  <2>4. n \in DOMAIN Only(ids, set) /\ Only(ids, set)[n] = x
    BY <1>7, <2>1, <2>3
  <2>5. QED
    BY <2>4
<1>13. ASSUME NEW n \in DOMAIN Only(ids, set)
       PROVE  Only(ids, set)[n] \in {ids[i] : i \in DOMAIN ids} \intersect set
  BY <1>5, <1>7, <1>8, <1>13
<1>14. QED
  BY <1>11, <1>12, <1>13

LEMMA ActiveIs ==
  ASSUME NEW c \in CommandColumns
  PROVE  Active(c) \in Seq(Commands)
<1>1. c.ids \in Seq(Commands) /\ c.legacy \in Commands \union {None}
  BY DEF CommandColumns
<1>2. CASE c.legacy # None
  <2>1. <<c.legacy>> \in Seq(Commands)
    BY <1>1, <1>2
  <2>2. <<c.legacy>> \o c.ids \in Seq(Commands)
    BY <1>1, <2>1
  <2>3. QED
    BY <1>1, <2>2 DEF Active
<1>3. CASE c.legacy = None
  BY <1>1, <1>3 DEF Active
<1>4. QED
  BY <1>2, <1>3

\* Both columns, written together, name the same commands.
LEMMA ColumnsAre ==
  ASSUME NEW ids \in Seq(Commands)
  PROVE  Columns(ids) \in CommandColumns /\ ActiveSet(Columns(ids)) = {ids[i] : i \in DOMAIN ids}
<1>1. Columns(ids).ids = ids /\ Columns(ids).legacy = IF ids = <<>> THEN None ELSE Head(ids)
  BY DEF Columns
<1>2. ids # <<>> => 1 \in DOMAIN ids /\ Head(ids) = ids[1] /\ ids[1] \in Commands
  OBVIOUS
<1>3. Active(Columns(ids)) = ids
  BY <1>1, <1>2 DEF Active
<1>4. Columns(ids) \in CommandColumns
  BY <1>2 DEF Columns, CommandColumns
<1>5. QED
  BY <1>3, <1>4 DEF ActiveSet

LEMMA WithCommandIs ==
  ASSUME NEW ids \in Seq(Commands), NEW c \in Commands
  PROVE  /\ WithCommand(ids, c) \in Seq(Commands)
         /\ {WithCommand(ids, c)[i] : i \in DOMAIN WithCommand(ids, c)} \subseteq {ids[i] : i \in DOMAIN ids} \union {c}
<1>1. Append(ids, c) \in Seq(Commands)
  OBVIOUS
<1>2. ASSUME NEW i \in DOMAIN Append(ids, c), ~(i \in DOMAIN ids /\ Append(ids, c)[i] = ids[i])
      PROVE  Append(ids, c)[i] = c
  BY <1>2
<1>3. QED
  BY <1>1, <1>2 DEF WithCommand

LEMMA FlushedColumns ==
  ASSUME NEW now \in CommandColumns, NEW was \in CommandColumns, NEW new \in CommandColumns
  PROVE  Flushed(now, was, new) \in CommandColumns /\ (now = was => Flushed(now, was, new) = new)
<1>1. /\ now = [ids |-> now.ids, legacy |-> now.legacy]
      /\ new = [ids |-> new.ids, legacy |-> new.legacy]
      /\ DOMAIN now = {"ids", "legacy"}
      /\ now.ids \in Seq(Commands) /\ new.ids \in Seq(Commands)
      /\ now.legacy \in Commands \union {None} /\ new.legacy \in Commands \union {None}
  BY DEF CommandColumns
<1>2. Flushed(now, was, new) = [ids |-> IF new.ids # was.ids THEN new.ids ELSE now.ids,
                                legacy |-> IF new.legacy # was.legacy THEN new.legacy ELSE now.legacy]
  BY <1>1 DEF Flushed
<1>3. QED
  BY <1>1, <1>2 DEF CommandColumns

LEMMA SetActiveIs ==
  ASSUME ColumnsOK, NEW was \in CommandColumns, NEW ids \in Seq(Commands), SetActive(was, ids)
  PROVE  /\ (room \in CommandColumns /\ overtaken \in BOOLEAN)'
         /\ ~overtaken' => ~overtaken /\ was = room /\ ActiveSet(room') = {ids[i] : i \in DOMAIN ids}
<1>1. room \in CommandColumns /\ overtaken \in BOOLEAN
  BY DEF ColumnsOK
<1>2. Columns(ids) \in CommandColumns /\ ActiveSet(Columns(ids)) = {ids[i] : i \in DOMAIN ids}
  BY ColumnsAre
<1>3. room' = Flushed(room, was, Columns(ids)) /\ overtaken' = (overtaken \/ was # room)
  BY DEF SetActive
<1>4. room' \in CommandColumns /\ (room = was => room' = Columns(ids))
  BY <1>1, <1>2, <1>3, FlushedColumns
<1>5. overtaken' \in BOOLEAN
  BY <1>3
<1>6. ~overtaken' => ~overtaken /\ was = room
  BY <1>3
<1>7. ~overtaken' => room' = Columns(ids)
  BY <1>4, <1>6
<1>8. QED
  BY <1>2, <1>4, <1>5, <1>6, <1>7

\* A step writes the columns with what follows from those that have been loaded, or leaves them.
LEMMA ColumnsStep ==
  ASSUME IntakeInv, ColumnsOK, ClearedStaysOut, IntakeMoves
  PROVE  ColumnsOK' /\ ClearedStaysOut'
<1>0. /\ room \in CommandColumns /\ enabled \subseteq Commands /\ withdrawn \subseteq Commands /\ overtaken \in BOOLEAN
      /\ \A c \in clearing : c.was \in CommandColumns /\ c.what \in Commands \union {None}
      /\ desk.at = "prepare" => desk.was \in CommandColumns
      /\ direction \in 0 .. Len(log)
  BY DEF ColumnsOK
<1>a. Len(log) \in Nat /\ (desk.at # "idle" => desk.req \in Requests)
  BY LogIs DEF IntakeInv, DeskShape, Idle
<1>b. Len(log') \in Nat /\ Len(log') >= Len(log)
  <2>1. LogTypeOK'
    BY IntakeStepInv DEF IntakeInv
  <2>2. CASE ~(Store /\ ~IsRepeat(desk.req))
    <3>1. DOMAIN log' = DOMAIN log
      BY <2>2, LogWears
    <3>2. DOMAIN log = 1 .. Len(log) /\ DOMAIN log' = 1 .. Len(log') /\ Len(log') \in Nat
      BY <2>1 DEF LogTypeOK, IntakeInv
    <3>3. QED
      BY <1>a, <3>1, <3>2
  <2>3. CASE Store /\ ~IsRepeat(desk.req)
    <3>1. PICK e : log' = Append(log, e)
      BY <2>3 DEF Store
    <3>2. Len(log') = Len(log) + 1
      BY <3>1 DEF LogTypeOK, IntakeInv
    <3>3. QED
      BY <1>a, <3>2
  <2>4. QED
    BY <2>2, <2>3
<1>1. ASSUME UNCHANGED <<room, withdrawn, overtaken>>, enabled' \subseteq Commands,
             \A c \in clearing' : c.was \in CommandColumns /\ c.what \in Commands \union {None},
             desk'.at = "prepare" => desk'.was \in CommandColumns,
             direction' \in 0 .. Len(log')
      PROVE  ColumnsOK' /\ ClearedStaysOut'
  BY <1>0, <1>1 DEF ColumnsOK, ClearedStaysOut
<1>2. ASSUME NEW r \in Requests, Receive(r) \/ Takes(r) PROVE ColumnsOK' /\ ClearedStaysOut'
  BY <1>0, <1>1, <1>2 DEF Receive, Takes, Take
<1>3. CASE Prepare
  <2> DEFINE command == Payload[desk.req].command
             ids == Active(desk.was)
             kept == Only(ids, enabled)
  <2>1. desk.at = "prepare" /\ command \in Commands \union {None} /\ desk.was \in CommandColumns
    BY <1>0, <1>3, <1>a, IntakeAssumption DEF Prepare
  <2>2. ids \in Seq(Commands)
    BY <2>1, ActiveIs
  <2>3. /\ UNCHANGED <<enabled, log, direction, clearing>>
        /\ withdrawn' = withdrawn \ {command}
        /\ desk'.at # "prepare"
    BY <1>3, <2>1 DEF Prepare, Idle
  <2>4. ASSUME NEW new \in Seq(Commands), SetActive(desk.was, new),
               {new[i] : i \in DOMAIN new} \subseteq {ids[i] : i \in DOMAIN ids} \union {command}
        PROVE  ColumnsOK' /\ ClearedStaysOut'
    <3>1. /\ (room \in CommandColumns /\ overtaken \in BOOLEAN)'
          /\ ~overtaken' => ~overtaken /\ desk.was = room /\ ActiveSet(room') = {new[i] : i \in DOMAIN new}
      BY <2>1, <2>4, SetActiveIs
    <3>2. ~overtaken' => ActiveSet(room) = {ids[i] : i \in DOMAIN ids} /\ ActiveSet(room) \intersect withdrawn = {}
      BY <3>1 DEF ActiveSet, ClearedStaysOut
    <3> HIDE DEF command, ids
    <3>3. ~overtaken' => ActiveSet(room') \intersect withdrawn' = {}
      BY <2>3, <2>4, <3>1, <3>2
    <3>4. ColumnsOK'
      BY <1>0, <1>b, <2>3, <3>1 DEF ColumnsOK
    <3>5. QED
      BY <3>3, <3>4 DEF ClearedStaysOut
  <2>5. CASE command # None
    <3> DEFINE new == WithCommand(ids, command)
    <3>1. SetActive(desk.was, new)
      BY <1>3, <2>5 DEF Prepare
    <3>2. command \in Commands
      BY <2>1, <2>5
    <3>3. new \in Seq(Commands) /\ {new[i] : i \in DOMAIN new} \subseteq {ids[i] : i \in DOMAIN ids} \union {command}
      BY <2>2, <3>2, WithCommandIs, ZenonT(60)
    <3>4. QED
      BY <2>4, <3>1, <3>3
  <2>6. CASE command = None /\ kept # ids
    <3>1. SetActive(desk.was, kept)
      BY <1>3, <2>6 DEF Prepare
    <3>2. kept \in Seq(Commands) /\ {kept[i] : i \in DOMAIN kept} \subseteq {ids[i] : i \in DOMAIN ids}
      BY <2>2, OnlyIs
    <3>3. QED
      BY <2>4, <3>1, <3>2
  <2>7. CASE command = None /\ kept = ids
    <3>1. UNCHANGED <<room, overtaken>>
      BY <1>3, <2>7 DEF Prepare
    <3>2. ColumnsOK'
      BY <1>0, <1>b, <2>3, <3>1 DEF ColumnsOK
    <3>3. ClearedStaysOut'
      BY <2>3, <3>1 DEF ClearedStaysOut
    <3>4. QED
      BY <3>2, <3>3
  <2>8. QED
    BY <2>5, <2>6, <2>7
<1>4. CASE Store
  BY <1>0, <1>1, <1>4, <1>b DEF Store, Idle, AfterStore
<1>5. CASE ApplyControl \/ BeginTurn
  BY <1>0, <1>1, <1>5, <1>b DEF ApplyControl, BeginTurn, Idle
<1>6. CASE RecordScene
  <2>1. desk.msg = Len(log) /\ desk.at = "scene"
    BY <1>6 DEF RecordScene, IntakeInv, DeskShape, AtMessage, Idle
  <2>2. direction' \in 0 .. Len(log') /\ desk'.at # "prepare" /\ UNCHANGED <<room, enabled, clearing, withdrawn, overtaken>>
    <3>1. direction' = desk.msg \/ direction' = direction
      BY <1>6 DEF RecordScene
    <3>2. desk'.at = "turn"
      BY <1>6, <2>1 DEF RecordScene, IntakeInv, DeskShape, AtMessage, Idle
    <3>3. QED
      BY <1>0, <1>6, <1>a, <1>b, <2>1, <3>1, <3>2 DEF RecordScene
  <2>3. QED
    BY <1>0, <1>1, <2>2
<1>7. ASSUME NEW i \in DOMAIN log, EndAwaited(i) \/ Delete(i) PROVE ColumnsOK' /\ ClearedStaysOut'
  BY <1>0, <1>1, <1>7, <1>b DEF EndAwaited, Delete
<1>8. ASSUME NEW what \in Commands \union {None}, StartClear(what) PROVE ColumnsOK' /\ ClearedStaysOut'
  <2>1. clearing' = clearing \union {[what |-> what, was |-> room]}
    BY <1>8 DEF StartClear
  <2>2. QED
    BY <1>0, <1>1, <1>8, <1>b, <2>1 DEF StartClear
<1>9. ASSUME NEW c \in clearing, CommitClear(c) PROVE ColumnsOK' /\ ClearedStaysOut'
  <2> DEFINE ids == Active(c.was)
             new == IF c.what = None THEN <<>> ELSE Without(ids, c.what)
             gone == IF c.what = None THEN Commands ELSE {c.what}
  <2>1. c.was \in CommandColumns /\ c.what \in Commands \union {None} /\ ids \in Seq(Commands)
    BY <1>0, ActiveIs
  <2>2. /\ SetActive(c.was, new) /\ withdrawn' = withdrawn \union gone
        /\ UNCHANGED <<enabled, log, direction, desk>> /\ clearing' \subseteq clearing
    BY <1>9 DEF CommitClear
  <2>3. new \in Seq(Commands) /\ {new[i] : i \in DOMAIN new} \subseteq {ids[i] : i \in DOMAIN ids}
        /\ {new[i] : i \in DOMAIN new} \intersect gone = {}
    <3>1. CASE c.what = None
      BY <3>1
    <3>2. CASE c.what # None
      <4> DEFINE set == {ids[i] : i \in DOMAIN ids} \ {c.what}
      <4>1. new = Only(ids, set)
        BY <3>2 DEF Without
      <4>2. new \in Seq(Commands) /\ {new[i] : i \in DOMAIN new} = {ids[i] : i \in DOMAIN ids} \intersect set
        <5> HIDE DEF ids, set, new
        <5>1. QED
          BY <2>1, <4>1, OnlyIs
      <4>3. gone = {c.what}
        BY <3>2
      <4> HIDE DEF new, ids, gone
      <4>4. QED
        BY <4>2, <4>3
    <3>3. QED
      BY <3>1, <3>2
  <2>4. gone \subseteq Commands
    BY <2>1
  <2>5. /\ (room \in CommandColumns /\ overtaken \in BOOLEAN)'
        /\ ~overtaken' => ~overtaken /\ c.was = room /\ ActiveSet(room') = {new[i] : i \in DOMAIN new}
    <3> HIDE DEF new
    <3>1. QED
      BY <2>1, <2>2, <2>3, SetActiveIs
  <2>6. ~overtaken' => ActiveSet(room) = {ids[i] : i \in DOMAIN ids} /\ ActiveSet(room) \intersect withdrawn = {}
    BY <2>5 DEF ActiveSet, ClearedStaysOut
  <2> HIDE DEF ids, new, gone
  <2>7. ~overtaken' => ActiveSet(room') \intersect withdrawn' = {}
    BY <2>2, <2>3, <2>5, <2>6
  <2>8. ColumnsOK'
    BY <1>0, <1>b, <2>2, <2>4, <2>5 DEF ColumnsOK
  <2>9. QED
    BY <2>7, <2>8 DEF ClearedStaysOut
<1>10. ASSUME NEW c \in Commands, Switch(c) PROVE ColumnsOK' /\ ClearedStaysOut'
  BY <1>0, <1>1, <1>10, <1>b DEF Switch
<1>13. CASE Crash
  BY <1>0, <1>1, <1>13, <1>b DEF Crash, Idle
<1>14. QED
  BY <1>2, <1>3, <1>4, <1>5, <1>6, <1>7, <1>8, <1>9, <1>10, <1>13 DEF IntakeMoves, Next

-----------------------------------------------------------------------------
(* The rows of the ledger.                                                 *)

LEMMA RowIs ==
  ASSUME NEW ms \in Seq(Match), NEW i \in DOMAIN ms
  PROVE  /\ ms[i].a \in Characters /\ ms[i].b \in Characters /\ ms[i].status \in Statuses
         /\ ms[i].order \in 1 .. Unordered
<1>1. ms[i] \in Match
  OBVIOUS
<1>2. QED
  BY <1>1 DEF Match

\* What a control makes of a row that it has found in progress
LEMMA ControlledMatch ==
  ASSUME NEW was \in Match, NEW control, NEW message \in Nat, NEW to, to = Controlled(was, control, message),
         control.action \in {"progress", "end", "cancel"},
         control.action = "end" => control.who \in {was.a, was.b}
  PROVE  /\ to \in Match /\ to.a = was.a /\ to.b = was.b /\ to.first = was.first /\ to.last = message
         /\ control.action = "progress" => to.status = was.status
         /\ control.action = "end" => to.status = "completed" /\ to.winner = control.who
                                      /\ {to.winner, to.loser} = {to.a, to.b}
         /\ control.action = "cancel" => to.status = "cancelled"
         /\ control.action # "end" => to.winner = was.winner /\ to.loser = was.loser
<1>1. CASE control.action = "progress"
  BY <1>1 DEF Controlled, Match
<1>2. CASE control.action = "cancel"
  BY <1>2 DEF Controlled, Match, Statuses
<1>3. CASE control.action = "end"
  <2>1. was.a \in Characters /\ was.b \in Characters /\ control.who \in Characters
    BY <1>3 DEF Match
  <2>2. PICK loser \in Characters : loser = IF control.who = was.a THEN was.b ELSE was.a
    BY <2>1
  <2>3. {control.who, loser} = {was.a, was.b}
    BY <1>3, <2>2
  <2>4. to = [was EXCEPT !.status = "completed", !.winner = control.who, !.last = message, !.loser = loser]
    BY <1>3, <2>2 DEF Controlled, Ended
  <2>5. to \in Match /\ to.a = was.a /\ to.b = was.b /\ to.first = was.first /\ to.last = message
        /\ to.status = "completed" /\ to.winner = control.who /\ to.loser = loser
    BY <2>1, <2>4 DEF Match, Statuses
  <2>6. QED
    BY <1>3, <2>3, <2>5
<1>4. QED
  BY <1>1, <1>2, <1>3

\* The match that is in progress is found where there is one.
LEMMA ActiveFound ==
  ASSUME NEW ms \in Seq(Match)
  PROVE  LET open == {i \in DOMAIN ms : ms[i].status = "in_progress"}
         IN  IF open = {} THEN ActiveMatch(ms) = 0 ELSE ActiveMatch(ms) \in open
<1> DEFINE open == {i \in DOMAIN ms : ms[i].status = "in_progress"}
           orders == {ms[i].order : i \in open}
<1>0. PICK top \in Nat : top = Unordered
  BY DEF Unordered
<1>1. Len(ms) \in Nat /\ DOMAIN ms = 1 .. Len(ms)
  OBVIOUS
<1>2. \A i \in DOMAIN ms : ms[i].order \in 1 .. top
  BY <1>0, RowIs
<1>3. CASE open = {}
  BY <1>3 DEF ActiveMatch
<1>4. CASE open # {}
  <2>1. orders # {} /\ orders \subseteq 1 .. top
    BY <1>2, <1>4
  <2>2. PICK most \in orders : \A n \in orders : n <= most
    <3> HIDE DEF orders
    <3>1. QED
      BY <2>1, GreatestExists
  <2> DEFINE last == {i \in open : ms[i].order = most}
  <2>3. last # {} /\ last \subseteq 1 .. Len(ms)
    BY <1>1, <2>2
  <2>4. PICK i \in last : \A k \in last : k <= i
    <3> HIDE DEF last
    <3>1. QED
      BY <1>1, <2>3, GreatestExists
  <2>5. \A k \in open : ms[k].order < ms[i].order \/ (ms[k].order = ms[i].order /\ k <= i)
    <3> SUFFICES ASSUME NEW k \in open
                 PROVE  ms[k].order < ms[i].order \/ (ms[k].order = ms[i].order /\ k <= i)
      OBVIOUS
    <3>1. ms[k].order \in Int /\ most \in Int /\ ms[k].order <= most /\ ms[i].order = most
      BY <1>2, <2>1, <2>2
    <3>2. ms[k].order = most => k <= i
      BY <2>4
    <3>3. QED
      BY <3>1, <3>2
  <2>6. i \in open
    OBVIOUS
  <2> HIDE DEF open
  <2>7. ActiveMatch(ms) = CHOOSE x \in open : \A k \in open : ms[k].order < ms[x].order \/ (ms[k].order = ms[x].order /\ k <= x)
    BY <1>4 DEF ActiveMatch, open
  <2>8. QED
    BY <1>4, <2>5, <2>6, <2>7 DEF open
<1>5. QED
  BY <1>3, <1>4

\* The order of the next match is one that a row can have.
LEMMA NextOrderIs ==
  ASSUME NEW ms \in Seq(Match)
  PROVE  NextOrder(ms) \in 1 .. Unordered
<1> DEFINE orders == {ms[i].order : i \in DOMAIN ms} \ {Unordered}
<1>0. PICK top \in Nat : top = Unordered - 1
  BY DEF Unordered
<1>1. \A i \in DOMAIN ms : ms[i].order \in 1 .. Unordered
  BY RowIs
<1>2. orders \subseteq 1 .. top
  <2>1. \A n \in 1 .. Unordered : n # Unordered => n \in 1 .. top
    BY <1>0 DEF Unordered
  <2>2. QED
    BY <1>1, <2>1
<1>3. NextOrder(ms) = 1 + (IF orders = {} THEN 0 ELSE CHOOSE n \in orders : \A k \in orders : k <= n)
  BY DEF NextOrder
<1> HIDE DEF orders
<1>4. CASE orders = {}
  BY <1>3, <1>4 DEF Unordered
<1>5. CASE orders # {}
  <2>1. PICK n \in orders : \A k \in orders : k <= n
    BY <1>2, <1>5, GreatestExists
  <2>2. PICK most \in orders : most = CHOOSE x \in orders : \A k \in orders : k <= x
    BY <2>1
  <2>3. NextOrder(ms) = 1 + most
    BY <1>3, <1>5, <2>2
  <2>4. most \in 1 .. top
    BY <1>2
  <2>5. QED
    BY <1>0, <2>3, <2>4 DEF Unordered
<1>6. QED
  BY <1>4, <1>5

-----------------------------------------------------------------------------
(* The table of standings.                                                 *)

LEMMA ImageIsFinite ==
  ASSUME NEW S, IsFiniteSet(S), NEW f, DOMAIN f = S
  PROVE  IsFiniteSet({f[x] : x \in S})
<1> DEFINE T == {f[x] : x \in S}
           g == [x \in S |-> f[x]]
<1>1. g \in Surjection(S, T)
  BY DEF Surjection
<1>2. QED
  BY <1>1, FS_Surjection

LEMMA FightersAre ==
  ASSUME NEW ms \in Seq(Match)
  PROVE  /\ Fighters(ms) \subseteq Characters /\ IsFiniteSet(Fighters(ms))
         /\ \A c : Tally(ms, c) \in [wins : Nat, losses : Nat]
<1>1. /\ Len(ms) \in Nat /\ DOMAIN ms = 1 .. Len(ms)
      /\ \A i \in DOMAIN ms : ms[i].a \in Characters /\ ms[i].b \in Characters
  BY RowIs
<1>2. Completed(ms) \subseteq DOMAIN ms
  BY DEF Completed
<1>3. IsFiniteSet(DOMAIN ms)
  BY <1>1, FS_Interval
<1>4. IsFiniteSet(Completed(ms))
  BY <1>2, <1>3, FS_Subset
<1> DEFINE as == [i \in DOMAIN ms |-> ms[i].a]
           bs == [i \in DOMAIN ms |-> ms[i].b]
<1>5. IsFiniteSet({as[i] : i \in DOMAIN ms}) /\ IsFiniteSet({bs[i] : i \in DOMAIN ms})
  <2>1. DOMAIN as = DOMAIN ms /\ DOMAIN bs = DOMAIN ms
    OBVIOUS
  <2> HIDE DEF as, bs
  <2>2. QED
    BY <1>3, <2>1, ImageIsFinite
<1>6. IsFiniteSet({as[i] : i \in DOMAIN ms} \union {bs[i] : i \in DOMAIN ms})
  BY <1>5, FS_Union
<1>7. Fighters(ms) \subseteq {as[i] : i \in DOMAIN ms} \union {bs[i] : i \in DOMAIN ms}
  BY <1>2 DEF Fighters
<1>8. IsFiniteSet(Fighters(ms))
  <2> HIDE DEF as, bs
  <2>1. QED
    BY <1>6, <1>7, FS_Subset
<1>9. Fighters(ms) \subseteq Characters
  BY <1>1, <1>2 DEF Fighters
<1>10. ASSUME NEW c PROVE Tally(ms, c) \in [wins : Nat, losses : Nat]
  <2>1. \A S : S \subseteq Completed(ms) => Cardinality(S) \in Nat
    BY <1>4, FS_Subset, FS_CardinalityType
  <2>2. {i \in Completed(ms) : ms[i].winner = c} \subseteq Completed(ms)
        /\ {i \in Completed(ms) : ms[i].loser = c} \subseteq Completed(ms)
    OBVIOUS
  <2>3. Cardinality({i \in Completed(ms) : ms[i].winner = c}) \in Nat
        /\ Cardinality({i \in Completed(ms) : ms[i].loser = c}) \in Nat
    BY <2>1, <2>2
  <2>4. QED
    BY <2>3 DEF Tally
<1>11. QED
  BY <1>8, <1>9, <1>10

\* The order of the table puts every two characters one ahead of the other, so it ranks each once.
LEMMA TableIsRanked ==
  ASSUME NEW rows, rows \subseteq Characters, IsFiniteSet(rows),
         NEW score \in [rows -> [wins : Nat, losses : Nat]]
  PROVE  LET rank(c) == 1 + Cardinality({d \in rows : Ahead(score[d], d, score[c], c)})
         IN  {rank(c) : c \in rows} = 1 .. Cardinality(rows) /\ \A c \in rows : rank(c) \in 1 .. Cardinality(rows)
<1> DEFINE ahead(c) == {d \in rows : Ahead(score[d], d, score[c], c)}
           rank(c) == 1 + Cardinality(ahead(c))
           upto == [c \in rows |-> ahead(c) \union {c}]
<1>1. \A c \in rows : c \in Nat /\ score[c].wins \in Nat /\ score[c].losses \in Nat
  BY LedgerAssumption
<1>2. \A c, d \in rows : c # d => (d \in ahead(c) \/ c \in ahead(d)) /\ ~(d \in ahead(c) /\ c \in ahead(d))
  BY <1>1 DEF Ahead
<1>3. \A c \in rows : c \notin ahead(c)
  BY <1>1 DEF Ahead
<1>4. \A c, d, x \in rows : x \in ahead(c) /\ c \in ahead(d) => x \in ahead(d)
  BY <1>1 DEF Ahead
<1>5. \A c \in rows : ahead(c) \subseteq rows
  OBVIOUS
<1> HIDE DEF ahead
<1>6. upto \in [rows -> SUBSET rows] /\ \A c \in rows : c \in upto[c]
  BY <1>5
<1>7. \A c, d \in rows : c # d => (upto[c] \subseteq upto[d] /\ d \notin upto[c])
                                  \/ (upto[d] \subseteq upto[c] /\ c \notin upto[d])
  BY <1>2, <1>4, <1>5
<1>8. \A c \in rows : Cardinality(upto[c]) = rank(c)
  <2> SUFFICES ASSUME NEW c \in rows PROVE Cardinality(upto[c]) = rank(c)
    OBVIOUS
  <2>1. IsFiniteSet(ahead(c))
    BY <1>5, FS_Subset
  <2>2. Cardinality(ahead(c) \union {c}) = Cardinality(ahead(c)) + 1 /\ Cardinality(ahead(c)) \in Nat
    BY <1>3, <2>1, FS_AddElement, FS_CardinalityType
  <2>3. QED
    BY <2>2
<1> HIDE DEF upto
<1>9. /\ {Cardinality(upto[c]) : c \in rows} = 1 .. Cardinality(rows)
      /\ \A c \in rows : Cardinality(upto[c]) \in 1 .. Cardinality(rows)
  BY <1>6, <1>7, RanksAreAll
<1> HIDE DEF rank
<1>10. {rank(c) : c \in rows} = {Cardinality(upto[c]) : c \in rows}
  BY <1>8
<1>11. {rank(c) : c \in rows} = 1 .. Cardinality(rows) /\ \A c \in rows : rank(c) \in 1 .. Cardinality(rows)
  BY <1>8, <1>9, <1>10
<1>12. QED
  BY <1>11 DEF rank, ahead

\* What a rebuild makes of a table, whatever it was
LEMMA RebuiltIs ==
  ASSUME NEW ms \in Seq(Match), NEW table, TableOK(table)
  PROVE  /\ TableOK(Rebuilt(ms, table))
         /\ {Rebuilt(ms, table)[c].rank : c \in DOMAIN Rebuilt(ms, table)} = 1 .. Cardinality(DOMAIN Rebuilt(ms, table))
         /\ \A c \in Fighters(ms) :
               /\ c \in DOMAIN Rebuilt(ms, table)
               /\ [wins |-> Rebuilt(ms, table)[c].wins, losses |-> Rebuilt(ms, table)[c].losses] = Tally(ms, c)
<1> DEFINE rows == DOMAIN table \union Fighters(ms)
           score == [c \in rows |-> IF c \in Fighters(ms) THEN Tally(ms, c)
                                    ELSE [wins |-> table[c].wins, losses |-> table[c].losses]]
           rank(c) == 1 + Cardinality({d \in rows : Ahead(score[d], d, score[c], c)})
           t == Rebuilt(ms, table)
<1>1. t = [c \in rows |-> [wins |-> score[c].wins, losses |-> score[c].losses, rank |-> rank(c)]]
  BY DEF Rebuilt
<1>2. rows \subseteq Characters /\ IsFiniteSet(rows)
  BY FightersAre, FS_Union DEF TableOK
<1>3. score \in [rows -> [wins : Nat, losses : Nat]]
  <2>1. \A c \in Fighters(ms) : Tally(ms, c) \in [wins : Nat, losses : Nat]
    BY FightersAre
  <2>2. \A c \in DOMAIN table : [wins |-> table[c].wins, losses |-> table[c].losses] \in [wins : Nat, losses : Nat]
    BY DEF TableOK
  <2>3. QED
    BY <2>1, <2>2
<1>4. \A c \in Fighters(ms) : c \in rows /\ score[c] = Tally(ms, c)
  OBVIOUS
<1>5. \A c \in rows : score[c] = [wins |-> score[c].wins, losses |-> score[c].losses]
                      /\ score[c].wins \in Nat /\ score[c].losses \in Nat
  <2> HIDE DEF rows, score
  <2>1. QED
    BY <1>3
<1> HIDE DEF score, rows
<1>6. {rank(c) : c \in rows} = 1 .. Cardinality(rows) /\ \A c \in rows : rank(c) \in 1 .. Cardinality(rows)
  BY <1>2, <1>3, TableIsRanked
<1> HIDE DEF rank, t
<1>7. DOMAIN t = rows /\ \A c \in rows : t[c].wins = score[c].wins /\ t[c].losses = score[c].losses /\ t[c].rank = rank(c)
  BY <1>1
<1>8. {t[c].rank : c \in DOMAIN t} = 1 .. Cardinality(DOMAIN t)
  BY <1>6, <1>7
<1>9. TableOK(t)
  BY <1>2, <1>5, <1>6, <1>7 DEF TableOK
<1>10. \A c \in Fighters(ms) : c \in DOMAIN t /\ [wins |-> t[c].wins, losses |-> t[c].losses] = Tally(ms, c)
  BY <1>4, <1>5, <1>7
<1>11. QED
  BY <1>8, <1>9, <1>10 DEF t

\* The table depends on the completed matches alone.
LEMMA SameResults ==
  ASSUME NEW ms, NEW ns, Completed(ms) = Completed(ns),
         \A i \in Completed(ms) : ms[i].a = ns[i].a /\ ms[i].b = ns[i].b
                                  /\ ms[i].winner = ns[i].winner /\ ms[i].loser = ns[i].loser
  PROVE  Fighters(ms) = Fighters(ns) /\ \A c : Tally(ms, c) = Tally(ns, c)
<1>1. Fighters(ms) = Fighters(ns)
  BY DEF Fighters
<1>2. ASSUME NEW c PROVE Tally(ms, c) = Tally(ns, c)
  <2>1. {i \in Completed(ms) : ms[i].winner = c} = {i \in Completed(ns) : ns[i].winner = c}
        /\ {i \in Completed(ms) : ms[i].loser = c} = {i \in Completed(ns) : ns[i].loser = c}
    OBVIOUS
  <2>2. QED
    BY <2>1 DEF Tally
<1>3. QED
  BY <1>1, <1>2

-----------------------------------------------------------------------------
(* What a control does.                                                    *)

LEMMA RowAppended ==
  ASSUME NEW ms \in Seq(Match), NEW e \in Match, NEW ns, ns = Append(ms, e)
  PROVE  /\ ns \in Seq(Match) /\ Len(ms) \in Nat /\ Len(ns) = Len(ms) + 1
         /\ DOMAIN ms = 1 .. Len(ms) /\ DOMAIN ns = 1 .. Len(ms) + 1
         /\ ns[Len(ms) + 1] = e /\ \A i \in DOMAIN ms : ns[i] = ms[i]
  OBVIOUS

LEMMA RowReplaced ==
  ASSUME NEW ms \in Seq(Match), NEW r \in DOMAIN ms, NEW e \in Match, NEW ns, ns = [ms EXCEPT ![r] = e]
  PROVE  /\ ns \in Seq(Match) /\ Len(ms) \in Nat /\ Len(ns) = Len(ms)
         /\ DOMAIN ms = 1 .. Len(ms) /\ DOMAIN ns = DOMAIN ms
         /\ ns[r] = e /\ \A i \in DOMAIN ms : i # r => ns[i] = ms[i]
  OBVIOUS

\* A message whose control is at the desk, and the match that it may be about
LEMMA AtTheDesk ==
  ASSUME IntakeInv, BattleInv, ApplyControl
  PROVE  /\ desk.msg = Len(log) /\ desk.msg \in DOMAIN log /\ desk.msg \in Nat /\ Unapplied(desk.msg)
         /\ Payload[desk.req].control # None /\ ControlOf(desk.msg) = Payload[desk.req].control
         /\ Payload[desk.req].control.action \in {"start", "progress", "end", "cancel"}
         /\ \A m \in DOMAIN matches : matches[m].first < desk.msg /\ matches[m].last < desk.msg
<1>1. desk.at = "control" /\ desk # Idle
  BY DEF ApplyControl, Idle
<1>2. desk.req \in Requests /\ desk.msg = Len(log) /\ Len(log) > 0 /\ log[desk.msg].fate = "none"
      /\ log[desk.msg].req = desk.req
  BY <1>1 DEF IntakeInv, DeskShape, AtMessage
<1>3. Len(log) \in Nat /\ DOMAIN log = 1 .. Len(log)
  BY LogIs DEF IntakeInv
<1>4. Unapplied(desk.msg)
  BY <1>1, <1>2 DEF Unapplied, PastControl
<1>5. ASSUME NEW m \in DOMAIN matches PROVE matches[m].first < desk.msg /\ matches[m].last < desk.msg
  <2>1. Sourced(matches[m])
    BY DEF BattleInv, AllSourced
  <2>2. matches[m].first \in DOMAIN log /\ matches[m].last \in DOMAIN log
        /\ matches[m].first # desk.msg /\ matches[m].last # desk.msg
    BY <1>4, <2>1 DEF Sourced
  <2>3. QED
    BY <1>2, <1>3, <2>2
<1>6. Payload[desk.req].control # None
  BY <1>1 DEF BattleInv, AtControl
<1>7. QED
  BY <1>2, <1>3, <1>4, <1>5, <1>6, IntakeAssumption DEF ControlOf

\* Whose control has been committed, and whose has not, changes with the message at the desk alone.
LEMMA FatesMove ==
  ASSUME IntakeInv, IntakeMoves, ~(Store /\ ~IsRepeat(desk.req)), NEW k \in DOMAIN log
  PROVE  /\ Applied(k)' => Applied(k) \/ (ApplyControl /\ Legal(matches, Payload[desk.req].control) /\ k = desk.msg)
         /\ Unapplied(k)' => Unapplied(k)
<1>0. LogTypeOK /\ DeskShape /\ log[k] \in Entry
  BY LogIs DEF IntakeInv
<1>1. CASE UNCHANGED log /\ (UNCHANGED desk \/ (desk.at \notin {"scene", "turn"} /\ desk'.at \notin {"scene", "turn"}))
  BY <1>1 DEF Applied, Unapplied, PastControl
<1>2. ASSUME NEW r \in Requests, Receive(r) \/ Takes(r)
      PROVE  UNCHANGED log /\ desk.at \notin {"scene", "turn"} /\ desk'.at \notin {"scene", "turn"}
  BY <1>2 DEF Receive, Takes, Take, Idle
<1>3. CASE Prepare
  BY <1>1, <1>3 DEF Prepare, Idle
<1>4. CASE Store
  BY <1>1, <1>4 DEF Store, Idle
<1>5. CASE ApplyControl
  <2>1. /\ desk.msg \in DOMAIN log /\ desk.at = "control"
        /\ log' = log \/ log' = [log EXCEPT ![desk.msg] = Refused(log[desk.msg])]
    BY <1>0, <1>5, LogIs DEF ApplyControl, DeskShape, AtMessage, Idle
  <2>2. PICK e : e = [log[desk.msg] EXCEPT !.live = FALSE] /\ (log' = log \/ log' = [log EXCEPT ![desk.msg] = e])
    BY <2>1 DEF Refused
  <2>3. log[desk.msg] \in Entry
    BY <1>0, <2>1, LogIs
  <2>4. e.fate = log[desk.msg].fate
    BY <2>2, <2>3, EntryChanged DEF Fates
  <2>5. log'[k].fate = log[k].fate
    BY <2>1, <2>2, <2>4
  <2>6. ~PastControl(k)
    BY <2>1 DEF PastControl
  <2>7. PastControl(k)' => Legal(matches, Payload[desk.req].control) /\ k = desk.msg
    BY <1>5 DEF ApplyControl, PastControl, Idle
  <2>8. QED
    BY <1>5, <2>5, <2>6, <2>7 DEF Applied, Unapplied
<1>6. CASE RecordScene
  <2>1. desk.at = "scene" /\ desk' = [desk EXCEPT !.at = "turn"] /\ UNCHANGED log /\ "at" \in DOMAIN desk
    BY <1>0, <1>6 DEF RecordScene, DeskShape, Idle
  <2>2. desk'.at = "turn" /\ desk'.msg = desk.msg
    BY <2>1
  <2>3. PastControl(k)' = PastControl(k)
    BY <2>1, <2>2 DEF PastControl
  <2>4. QED
    BY <2>1, <2>3 DEF Applied, Unapplied
<1>7. CASE BeginTurn
  <2>1. desk.at = "turn" /\ desk' = Idle /\ desk.msg \in DOMAIN log
    BY <1>0, <1>7, LogIs DEF BeginTurn, DeskShape, AtMessage, Idle
  <2>2. PICK f \in {"job", "awaited"} : log' = [log EXCEPT ![desk.msg].fate = f]
    BY <1>7 DEF BeginTurn
  <2>3. ~PastControl(k)'
    BY <2>1 DEF PastControl, Idle
  <2>4. CASE k = desk.msg
    <3>1. log'[k].fate = f
      BY <1>0, <2>1, <2>2, <2>4 DEF Entry
    <3>2. QED
      BY <2>1, <2>4, <3>1 DEF Applied, Unapplied, PastControl
  <2>5. CASE k # desk.msg
    BY <2>2, <2>3, <2>5 DEF Applied, Unapplied, PastControl
  <2>6. QED
    BY <2>4, <2>5
<1>8. ASSUME NEW i \in DOMAIN log, EndAwaited(i)
      PROVE  (Applied(k)' => Applied(k)) /\ (Unapplied(k)' => Unapplied(k))
  <2>1. log[i].fate = "awaited" /\ desk' = desk /\ \E f \in {"answered", "failed", "cut"} : log' = [log EXCEPT ![i].fate = f]
    BY <1>8 DEF EndAwaited
  <2>2. PICK f \in {"answered", "failed", "cut"} : log' = [log EXCEPT ![i].fate = f]
    BY <2>1
  <2>3. CASE k = i
    <3>1. log'[k].fate = f
      BY <1>0, <2>2, <2>3 DEF Entry
    <3>2. QED
      BY <2>1, <2>3, <3>1 DEF Applied, Unapplied
  <2>4. CASE k # i
    BY <2>1, <2>2, <2>4 DEF Applied, Unapplied, PastControl
  <2>5. QED
    BY <2>3, <2>4
<1>9. ASSUME NEW i \in DOMAIN log, Delete(i)
      PROVE  (Applied(k)' => Applied(k)) /\ (Unapplied(k)' => Unapplied(k))
  <2>1. log' = [log EXCEPT ![i].live = FALSE] /\ desk' = desk
    BY <1>9 DEF Delete
  <2>2. log'[k].fate = log[k].fate
    BY <1>0, <2>1 DEF Entry
  <2>3. QED
    BY <2>1, <2>2 DEF Applied, Unapplied, PastControl
<1>10. CASE Crash
  <2>1. desk' = Idle
    BY <1>10 DEF Crash
  <2>2. ~PastControl(k)'
    BY <2>1 DEF PastControl, Idle
  <2>3. /\ log'[k] \in {log[k], [log[k] EXCEPT !.fate = "cut"]}
        /\ log[k].fate = "none" /\ PastControl(k) => log'[k] = [log[k] EXCEPT !.fate = "cut"]
    BY <1>10 DEF Crash, PastControl, Idle
  <2>4. [log[k] EXCEPT !.fate = "cut"].fate = "cut"
    BY <1>0, EntryChanged DEF Fates
  <2>5. QED
    BY <2>2, <2>3, <2>4 DEF Applied, Unapplied
<1>11. QED
  BY <1>1, <1>2, <1>3, <1>4, <1>5, <1>6, <1>7, <1>8, <1>9, <1>10
     DEF IntakeMoves, Next, StartClear, CommitClear, Switch

\* Where no match changes, messages and matches go on to say the same of each other.
LEMMA TellingStays ==
  ASSUME AllTold, AllSourced, UNCHANGED matches, DOMAIN log \subseteq DOMAIN log',
         \A k \in DOMAIN log : /\ log'[k].req = log[k].req
                               /\ Applied(k)' => Applied(k)
                               /\ Unapplied(k)' => Unapplied(k),
         \A k \in DOMAIN log' : k \notin DOMAIN log /\ Applied(k)' => ControlOf(k)' = None
  PROVE  AllTold' /\ AllSourced'
<1>1. \A k \in DOMAIN log : ControlOf(k)' = ControlOf(k)
  BY DEF ControlOf
<1>2. \A control, i : Told(control, i)' = Told(control, i)
  BY DEF Told
<1>3. AllTold'
  <2> SUFFICES ASSUME NEW k \in DOMAIN log', Applied(k)', ControlOf(k)' # None PROVE Told(ControlOf(k), k)'
    BY DEF AllTold
  <2>1. k \in DOMAIN log /\ Applied(k) /\ ControlOf(k)' = ControlOf(k)
    BY <1>1
  <2>2. Told(ControlOf(k), k)
    BY <2>1 DEF AllTold
  <2>3. PICK control : control = ControlOf(k)
    OBVIOUS
  <2>4. Told(control, k)'
    BY <1>2, <2>2, <2>3
  <2>5. QED
    BY <2>1, <2>3, <2>4 DEF Told
<1>4. AllSourced'
  <2> SUFFICES ASSUME NEW m \in DOMAIN matches PROVE Sourced(matches[m])'
    BY DEF AllSourced
  <2>1. PICK row : row = matches[m]
    OBVIOUS
  <2>2. Sourced(row)
    BY <2>1 DEF AllSourced
  <2>3. row.first \in DOMAIN log /\ row.last \in DOMAIN log
    BY <2>2 DEF Sourced
  <2>4. Sourced(row)'
    BY <1>1, <2>2, <2>3 DEF Sourced
  <2>5. QED
    BY <2>1, <2>4 DEF Sourced
<1>5. QED
  BY <1>3, <1>4

\* A control starts a match where none is in progress.
LEMMA StartStep ==
  ASSUME IntakeInv, BattleInv, ApplyControl, NEW control, control = Payload[desk.req].control,
         control.action = "start", Legal(matches, control)
  PROVE  BattleInv' /\ \A i \in DOMAIN matches : i \in DOMAIN matches' /\ matches'[i] = matches[i]
<1> DEFINE n == Len(matches)
           message == desk.msg
<1>1. /\ message \in DOMAIN log /\ message \in Nat /\ ControlOf(message) = control /\ control # None
      /\ \A m \in DOMAIN matches : matches[m].first < message /\ matches[m].last < message
  BY AtTheDesk
<1>2. matches \in Seq(Match)
  BY DEF BattleInv, MatchesOK
<1>3. ActiveMatch(matches) = 0 /\ control.a \in Characters /\ control.b \in Characters
  BY DEF Legal, MayStart
<1>4. \A m \in DOMAIN matches : matches[m].status # "in_progress"
  <2>1. {i \in DOMAIN matches : matches[i].status = "in_progress"} = {}
    BY <1>2, <1>3, ActiveFound
  <2>2. QED
    BY <2>1
<1>5. PICK order \in 1 .. Unordered : order = NextOrder(matches)
  BY <1>2, NextOrderIs
<1>6. PICK new : new = NewMatch(control, order, message)
  OBVIOUS
<1>7. /\ new \in Match /\ new.status = "in_progress" /\ new.first = message /\ new.last = message
      /\ new.a = control.a /\ new.b = control.b
  BY <1>1, <1>3, <1>6 DEF NewMatch, Match, Statuses, Nobody
<1>8. /\ matches' = Append(matches, new) /\ standings' = standings
      /\ log' = log /\ desk' = [at |-> "scene", req |-> desk.req, msg |-> message]
  BY <1>5, <1>6 DEF ApplyControl, CommitControl
<1>9. /\ matches' \in Seq(Match) /\ n \in Nat /\ Len(matches') = n + 1
      /\ DOMAIN matches = 1 .. n /\ DOMAIN matches' = 1 .. n + 1
      /\ matches'[n + 1] = new /\ \A i \in DOMAIN matches : matches'[i] = matches[i]
  BY <1>2, <1>7, <1>8, RowAppended
<1>10. PICK last \in Nat : last = n + 1 /\ DOMAIN matches' = DOMAIN matches \union {last} /\ last \notin DOMAIN matches
                           /\ \A m \in DOMAIN matches : m < last
  BY <1>9
<1>11. PICK said : said = message
  OBVIOUS
<1> HIDE DEF n, message
<1>12. MatchesOK' /\ TableOK(standings)' /\ AtControl'
  BY <1>8, <1>9 DEF BattleInv, MatchesOK, TableOK, AtControl
<1>13. OneMatchAtATime'
  <2>1. ASSUME NEW p \in DOMAIN matches', NEW q \in DOMAIN matches', p < q
        PROVE  matches'[p].status # "in_progress" /\ matches'[p].last < matches'[q].first
    <3>1. p \in DOMAIN matches
      BY <1>9, <1>10, <2>1
    <3>2. CASE q = last
      BY <1>1, <1>4, <1>7, <1>9, <1>10, <3>1, <3>2
    <3>3. CASE q # last
      <4>1. q \in DOMAIN matches
        BY <1>10, <3>3
      <4>2. QED
        BY <1>9, <2>1, <3>1, <4>1 DEF BattleInv, OneMatchAtATime
    <3>4. QED
      BY <3>2, <3>3
  <2>2. QED
    BY <2>1 DEF OneMatchAtATime
<1>14. StandingsTally'
  <2>1. Completed(matches') = Completed(matches)
    BY <1>7, <1>9, <1>10 DEF Completed
  <2>2. Completed(matches) \subseteq DOMAIN matches
    BY DEF Completed
  <2>3. Fighters(matches') = Fighters(matches) /\ \A c : Tally(matches', c) = Tally(matches, c)
    BY <1>9, <2>1, <2>2, SameResults
  <2>4. QED
    BY <1>8, <2>3 DEF BattleInv, StandingsTally
<1>15. \A i \in DOMAIN log : ControlOf(i)' = ControlOf(i)
  BY <1>8 DEF ControlOf
<1>16. ASSUME NEW i \in DOMAIN log PROVE (Applied(i)' => Applied(i) \/ i = said) /\ (Unapplied(i)' => Unapplied(i) /\ i # said)
  <2>1. ~(Store /\ ~IsRepeat(desk.req)) /\ IntakeMoves
    BY DEF Store, ApplyControl, IntakeMoves, Next
  <2>2. (Applied(i)' => Applied(i) \/ i = desk.msg) /\ (Unapplied(i)' => Unapplied(i))
    BY <2>1, FatesMove
  <2>3. PastControl(said)'
    BY <1>8, <1>11 DEF PastControl
  <2>4. ~Unapplied(said)'
    BY <2>3 DEF Unapplied
  <2>5. QED
    BY <1>11, <2>2, <2>4 DEF message
<1>17. AllTold'
  <2>1. ASSUME NEW i \in DOMAIN log, Applied(i), NEW c, c = ControlOf(i), c # None PROVE Told(c, i)'
    <3>1. Told(c, i)
      BY <2>1 DEF BattleInv, AllTold
    <3>2. QED
      BY <1>9, <1>10, <3>1 DEF Told
  <2>2. Told(control, said)'
    <3>1. last \in DOMAIN matches' /\ matches'[last] = new
      BY <1>9, <1>10
    <3>2. QED
      BY <1>7, <1>11, <3>1 DEF Told
  <2>3. ASSUME NEW i \in DOMAIN log', Applied(i)', ControlOf(i)' # None PROVE Told(ControlOf(i), i)'
    <3>1. i \in DOMAIN log /\ (Applied(i) \/ i = said)
      BY <1>8, <1>16, <2>3
    <3>2. PICK c : c = ControlOf(i) /\ c = ControlOf(i)'
      BY <1>15, <3>1
    <3>3. Told(c, i)'
      BY <1>1, <1>11, <2>1, <2>2, <2>3, <3>1, <3>2
    <3>4. QED
      BY <3>2, <3>3 DEF Told
  <2>4. QED
    BY <2>3 DEF AllTold
<1>18. AllSourced'
  <2>1. ASSUME NEW row, Sourced(row) PROVE Sourced(row)'
    BY <1>8, <1>15, <1>16, <2>1 DEF Sourced
  <2>2. Sourced(new)'
    <3>1. said \in DOMAIN log' /\ said <= said /\ ControlOf(said)' = control /\ ~Unapplied(said)'
      BY <1>1, <1>8, <1>11, <1>15, <1>16
    <3>2. new.first = said /\ new.last = said /\ "start" \in Tells(new.status) /\ new.status # "completed"
      BY <1>7, <1>11 DEF Tells
    <3>3. QED
      BY <1>1, <3>1, <3>2 DEF Sourced
  <2>3. ASSUME NEW m \in DOMAIN matches' PROVE Sourced(matches[m])'
    <3>1. PICK row : row = matches'[m]
      OBVIOUS
    <3>2. Sourced(row)'
      <4>1. CASE m = last
        BY <1>9, <1>10, <2>2, <3>1, <4>1
      <4>2. CASE m # last
        <5>1. m \in DOMAIN matches /\ row = matches[m]
          BY <1>9, <1>10, <3>1, <4>2
        <5>2. Sourced(row)
          BY <5>1 DEF BattleInv, AllSourced
        <5>3. QED
          BY <2>1, <5>2
      <4>3. QED
        BY <4>1, <4>2
    <3>3. QED
      BY <3>1, <3>2 DEF Sourced
  <2>4. QED
    BY <2>3 DEF AllSourced
<1>19. QED
  BY <1>9, <1>10, <1>12, <1>13, <1>14, <1>17, <1>18 DEF BattleInv

\* A control changes the match in progress, which is the last; it rebuilds the table when it ends it.
LEMMA ChangeStep ==
  ASSUME IntakeInv, BattleInv, ApplyControl, NEW control, control = Payload[desk.req].control,
         control.action # "start", Legal(matches, control)
  PROVE  BattleInv' /\ \A i \in DOMAIN matches :
                          matches[i].status # "in_progress" => i \in DOMAIN matches' /\ matches'[i] = matches[i]
<1> DEFINE message == desk.msg
<1>1. /\ message \in DOMAIN log /\ message \in Nat /\ ControlOf(message) = control /\ control # None
      /\ control.action \in {"progress", "end", "cancel"}
      /\ \A m \in DOMAIN matches : matches[m].first < message /\ matches[m].last < message
  BY AtTheDesk
<1>2. matches \in Seq(Match)
  BY DEF BattleInv, MatchesOK
<1>3. PICK r : r = Named(matches, control)
  OBVIOUS
<1>4. InProgress(matches, r) /\ (control.action = "end" => IsFighter(matches, r, control.who))
  BY <1>1, <1>3 DEF Legal
<1>5. r \in DOMAIN matches /\ matches[r].status = "in_progress"
  <2>1. r # 0 /\ matches[r].status = "in_progress"
    BY <1>4 DEF InProgress
  <2>2. QED
    BY <1>2, <1>3, <2>1, ActiveFound DEF Named
<1>6. PICK was \in Match : was = matches[r]
  BY <1>2, <1>5
<1>7. PICK to : to = Controlled(was, control, message)
  OBVIOUS
<1>8. /\ to \in Match /\ to.a = was.a /\ to.b = was.b /\ to.first = was.first /\ to.last = message
      /\ control.action = "progress" => to.status = was.status
      /\ control.action = "end" => to.status = "completed" /\ to.winner = control.who
                                   /\ {to.winner, to.loser} = {to.a, to.b}
      /\ control.action = "cancel" => to.status = "cancelled"
      /\ control.action # "end" => to.winner = was.winner /\ to.loser = was.loser
  BY <1>1, <1>4, <1>6, <1>7, ControlledMatch DEF IsFighter
<1>9. /\ matches' = [matches EXCEPT ![r] = to]
      /\ standings' = IF control.action = "end" THEN Rebuilt(matches', standings) ELSE standings
      /\ log' = log /\ desk' = [at |-> "scene", req |-> desk.req, msg |-> message]
  BY <1>3, <1>6, <1>7 DEF ApplyControl, CommitControl
<1>10. /\ matches' \in Seq(Match) /\ DOMAIN matches' = DOMAIN matches
       /\ matches'[r] = to /\ \A i \in DOMAIN matches : i # r => matches'[i] = matches[i]
       /\ DOMAIN matches \subseteq Nat
  BY <1>2, <1>5, <1>8, <1>9, RowReplaced
<1>11. PICK said : said = message
  OBVIOUS
<1> HIDE DEF message
<1>12. MatchesOK' /\ AtControl'
  BY <1>9, <1>10 DEF MatchesOK, AtControl
<1>13. \A m \in DOMAIN matches : m # r => m < r
  BY <1>5, <1>10 DEF BattleInv, OneMatchAtATime
<1>14. OneMatchAtATime'
  <2>1. ASSUME NEW p \in DOMAIN matches', NEW q \in DOMAIN matches', p < q
        PROVE  matches'[p].status # "in_progress" /\ matches'[p].last < matches'[q].first
    <3>1. matches[p].status # "in_progress" /\ matches[p].last < matches[q].first
      BY <1>10, <2>1 DEF BattleInv, OneMatchAtATime
    <3>2. p # r
      BY <1>5, <3>1
    <3>3. matches'[p] = matches[p] /\ matches'[q].first = matches[q].first
      BY <1>6, <1>8, <1>10, <3>2
    <3>4. QED
      BY <3>1, <3>3
  <2>2. QED
    BY <2>1 DEF OneMatchAtATime
<1>15. TableOK(standings)' /\ StandingsTally'
  <2>1. CASE control.action = "end"
    <3>1. PICK t : t = standings'
      OBVIOUS
    <3>2. t = Rebuilt(matches', standings) /\ TableOK(standings)
      BY <1>9, <2>1, <3>1 DEF BattleInv
    <3>3. /\ TableOK(t) /\ {t[c].rank : c \in DOMAIN t} = 1 .. Cardinality(DOMAIN t)
          /\ \A c \in Fighters(matches') :
                c \in DOMAIN t /\ [wins |-> t[c].wins, losses |-> t[c].losses] = Tally(matches', c)
      BY <1>10, <3>2, RebuiltIs
    <3>4. QED
      BY <3>1, <3>3 DEF StandingsTally
  <2>2. CASE control.action # "end"
    <3>1. standings' = standings
      BY <1>9, <2>2
    <3>2. TableOK(standings)'
      BY <3>1 DEF BattleInv
    <3>3. to.status # "completed" /\ matches[r].status # "completed"
      BY <1>1, <1>5, <1>6, <1>8, <2>2
    <3>4. Completed(matches') = Completed(matches)
      BY <1>10, <3>3 DEF Completed
    <3>5. \A i \in Completed(matches') : matches'[i] = matches[i]
      BY <1>10, <3>3 DEF Completed
    <3>6. Fighters(matches') = Fighters(matches) /\ \A c : Tally(matches', c) = Tally(matches, c)
      BY <3>4, <3>5, SameResults
    <3>7. StandingsTally'
      BY <3>1, <3>6 DEF BattleInv, StandingsTally
    <3>8. QED
      BY <3>2, <3>7
  <2>3. QED
    BY <2>1, <2>2
<1>16. \A i \in DOMAIN log : ControlOf(i)' = ControlOf(i)
  BY <1>9 DEF ControlOf
<1>17. ASSUME NEW i \in DOMAIN log PROVE (Applied(i)' => Applied(i) \/ i = said) /\ (Unapplied(i)' => Unapplied(i) /\ i # said)
  <2>1. ~(Store /\ ~IsRepeat(desk.req)) /\ IntakeMoves
    BY DEF Store, ApplyControl, IntakeMoves, Next
  <2>2. (Applied(i)' => Applied(i) \/ i = desk.msg) /\ (Unapplied(i)' => Unapplied(i))
    BY <2>1, FatesMove
  <2>3. PastControl(said)'
    BY <1>9, <1>11 DEF PastControl
  <2>4. ~Unapplied(said)'
    BY <2>3 DEF Unapplied
  <2>5. QED
    BY <1>11, <2>2, <2>4 DEF message
<1>18. Sourced(was) /\ was.first < said /\ was.last < said /\ was.status = "in_progress"
       /\ was.first \in Nat /\ was.last \in Nat
  BY <1>1, <1>5, <1>6, <1>11 DEF BattleInv, AllSourced, Match
<1>19. AllTold'
  <2>1. ASSUME NEW i \in DOMAIN log, Applied(i), NEW c, c = ControlOf(i), c # None PROVE Told(c, i)'
    <3>1. Told(c, i)
      BY <2>1 DEF BattleInv, AllTold
    <3>2. c.action \in {"start", "progress", "end", "cancel"}
      <4>1. log[i].req \in Requests
        BY LogIs DEF IntakeInv, Entry
      <4>2. QED
        BY <2>1, <4>1, IntakeAssumption DEF ControlOf
    <3>3. i \in Nat
      BY LogIs DEF IntakeInv
    <3>4. CASE c.action = "start"
      <4>1. PICK m \in DOMAIN matches : matches[m].first = i /\ matches[m].a = c.a /\ matches[m].b = c.b
        BY <3>1, <3>4 DEF Told
      <4>2. m \in DOMAIN matches' /\ matches'[m].first = i /\ matches'[m].a = c.a /\ matches'[m].b = c.b
        BY <1>6, <1>8, <1>10, <4>1
      <4>3. QED
        BY <3>4, <4>2 DEF Told
    <3>5. CASE c.action = "progress"
      <4>1. PICK m \in DOMAIN matches : matches[m].first < i /\ i <= matches[m].last
        BY <3>1, <3>5 DEF Told
      <4>2. m \in DOMAIN matches' /\ matches'[m].first < i /\ i <= matches'[m].last
        BY <1>1, <1>6, <1>8, <1>10, <1>11, <1>18, <3>3, <4>1
      <4>3. QED
        BY <3>5, <4>2 DEF Told
    <3>6. CASE c.action = "end"
      <4>1. PICK m \in DOMAIN matches : matches[m].status = "completed" /\ matches[m].last = i /\ matches[m].winner = c.who
        BY <3>1, <3>6 DEF Told
      <4>2. m \in DOMAIN matches' /\ matches'[m] = matches[m]
        BY <1>5, <1>10, <4>1
      <4>3. QED
        BY <3>6, <4>1, <4>2 DEF Told
    <3>7. CASE c.action = "cancel"
      <4>1. PICK m \in DOMAIN matches : matches[m].status = "cancelled" /\ matches[m].last = i
        BY <3>1, <3>7 DEF Told
      <4>2. m \in DOMAIN matches' /\ matches'[m] = matches[m]
        BY <1>5, <1>10, <4>1
      <4>3. QED
        BY <3>7, <4>1, <4>2 DEF Told
    <3>8. QED
      BY <3>2, <3>4, <3>5, <3>6, <3>7
  <2>2. Told(control, said)'
    <3>1. r \in DOMAIN matches' /\ matches'[r] = to
      BY <1>5, <1>10
    <3>2. to.last = said /\ to.first < said /\ said <= said
      BY <1>1, <1>8, <1>11, <1>18
    <3>3. CASE control.action = "progress"
      BY <3>1, <3>2, <3>3 DEF Told
    <3>4. CASE control.action = "end"
      BY <1>8, <3>1, <3>2, <3>4 DEF Told
    <3>5. CASE control.action = "cancel"
      BY <1>8, <3>1, <3>2, <3>5 DEF Told
    <3>6. QED
      BY <1>1, <3>3, <3>4, <3>5
  <2>3. ASSUME NEW i \in DOMAIN log', Applied(i)', ControlOf(i)' # None PROVE Told(ControlOf(i), i)'
    <3>1. i \in DOMAIN log /\ (Applied(i) \/ i = said)
      BY <1>9, <1>17, <2>3
    <3>2. PICK c : c = ControlOf(i) /\ c = ControlOf(i)'
      BY <1>16, <3>1
    <3>3. Told(c, i)'
      BY <1>1, <1>11, <2>1, <2>2, <2>3, <3>1, <3>2
    <3>4. QED
      BY <3>2, <3>3 DEF Told
  <2>4. QED
    BY <2>3 DEF AllTold
<1>20. AllSourced'
  <2>1. ASSUME NEW row, Sourced(row) PROVE Sourced(row)'
    BY <1>9, <1>16, <1>17, <2>1 DEF Sourced
  <2>2. Sourced(to)'
    <3>1. said \in DOMAIN log' /\ ControlOf(said)' = control /\ ~Unapplied(said)'
      BY <1>1, <1>9, <1>11, <1>16, <1>17
    <3>2. /\ was.first \in DOMAIN log' /\ ControlOf(was.first)' # None /\ ~Unapplied(was.first)'
          /\ ControlOf(was.first)'.action = "start"
      BY <1>9, <1>16, <1>17, <1>18 DEF Sourced
    <3>3. to.first = was.first /\ to.last = said /\ to.first <= said
      BY <1>1, <1>8, <1>11, <1>18
    <3>4. control.action \in Tells(to.status)
      BY <1>1, <1>8, <1>18 DEF Tells
    <3>5. to.status = "completed" => to.winner = control.who /\ {to.winner, to.loser} = {to.a, to.b}
      BY <1>1, <1>8, <1>18
    <3>6. QED
      BY <1>1, <3>1, <3>2, <3>3, <3>4, <3>5 DEF Sourced
  <2>3. ASSUME NEW m \in DOMAIN matches' PROVE Sourced(matches[m])'
    <3>1. PICK row : row = matches'[m]
      OBVIOUS
    <3>2. Sourced(row)'
      <4>1. CASE m = r
        BY <1>10, <2>2, <3>1, <4>1
      <4>2. CASE m # r
        <5>1. m \in DOMAIN matches /\ row = matches[m]
          BY <1>10, <3>1, <4>2
        <5>2. Sourced(row)
          BY <5>1 DEF BattleInv, AllSourced
        <5>3. QED
          BY <2>1, <5>2
      <4>3. QED
        BY <4>1, <4>2
    <3>3. QED
      BY <3>1, <3>2 DEF Sourced
  <2>4. QED
    BY <2>3 DEF AllSourced
<1>21. QED
  BY <1>5, <1>10, <1>12, <1>14, <1>15, <1>19, <1>20 DEF BattleInv

LEMMA BattleStep ==
  ASSUME IntakeInv, BattleInv, IntakeMoves
  PROVE  /\ BattleInv'
         /\ \A i \in DOMAIN matches :
               matches[i].status # "in_progress" => i \in DOMAIN matches' /\ matches'[i] = matches[i]
<1>0. LogTypeOK /\ DeskShape /\ AtControl /\ AllTold /\ AllSourced
  BY DEF BattleInv, IntakeInv
<1>1. ASSUME UNCHANGED ledger, AtControl', AllTold', AllSourced'
      PROVE  BattleInv' /\ \A i \in DOMAIN matches : i \in DOMAIN matches' /\ matches'[i] = matches[i]
  BY <1>1 DEF ledger, BattleInv, MatchesOK, TableOK, OneMatchAtATime, StandingsTally
<1>2. CASE Store /\ ~IsRepeat(desk.req)
  <2>1. /\ desk.at = "store" /\ desk' = [at |-> AfterStore(desk.req), req |-> desk.req, msg |-> Len(log) + 1]
        /\ log' = Append(log, [req |-> desk.req, live |-> TRUE, fate |-> "none"]) /\ UNCHANGED ledger
    BY <1>2 DEF Store
  <2>2. /\ Len(log) \in Nat /\ DOMAIN log = 1 .. Len(log) /\ DOMAIN log' = 1 .. Len(log) + 1
        /\ \A k \in DOMAIN log : log'[k] = log[k]
        /\ log'[Len(log) + 1] = [req |-> desk.req, live |-> TRUE, fate |-> "none"]
    BY <1>0, <2>1, LogIs DEF LogTypeOK
  <2>3. AtControl'
    BY <2>1 DEF AtControl, AfterStore
  <2>4. ASSUME NEW k \in DOMAIN log
        PROVE  log'[k].req = log[k].req /\ (Applied(k)' => Applied(k)) /\ (Unapplied(k)' => Unapplied(k))
    <3>1. k # Len(log) + 1 /\ log'[k] = log[k]
      BY <2>2
    <3>2. ~PastControl(k) /\ ~PastControl(k)'
      BY <2>1, <3>1 DEF PastControl
    <3>3. QED
      BY <3>1, <3>2 DEF Applied, Unapplied
  <2>5. ASSUME NEW k \in DOMAIN log', k \notin DOMAIN log, Applied(k)' PROVE ControlOf(k)' = None
    <3>1. k = Len(log) + 1
      BY <2>2, <2>5
    <3>2. log'[k].fate = "none" /\ log'[k].req = desk.req
      BY <2>2, <3>1
    <3>3. desk'.at \in {"scene", "turn"}
      BY <2>5, <3>2 DEF Applied, PastControl
    <3>4. AfterStore(desk.req) # "control"
      BY <2>1, <3>3
    <3>5. QED
      BY <3>2, <3>4 DEF AfterStore, ControlOf
  <2>6. DOMAIN log \subseteq DOMAIN log'
    BY <2>2
  <2>7. AllTold' /\ AllSourced'
    BY <1>0, <2>1, <2>4, <2>5, <2>6, TellingStays DEF ledger
  <2>8. QED
    BY <1>1, <2>1, <2>3, <2>7
<1>3. CASE ApplyControl /\ Legal(matches, Payload[desk.req].control)
  <2>1. PICK control : control = Payload[desk.req].control
    OBVIOUS
  <2>2. CASE control.action = "start"
    BY <1>3, <2>1, <2>2, StartStep
  <2>3. CASE control.action # "start"
    BY <1>3, <2>1, <2>3, ChangeStep
  <2>4. QED
    BY <2>2, <2>3
<1>4. CASE ~(Store /\ ~IsRepeat(desk.req)) /\ ~(ApplyControl /\ Legal(matches, Payload[desk.req].control))
  <2>1. UNCHANGED ledger
    BY <1>4 DEF IntakeMoves, Next, Receive, Takes, Take, Prepare, Store, ApplyControl, RecordScene, BeginTurn, EndAwaited,
                Delete, StartClear, CommitClear, Switch, Crash
  <2>2. DOMAIN log' = DOMAIN log /\ \A k \in DOMAIN log : log'[k].req = log[k].req
    BY <1>4, LogWears
  <2>3. \A k \in DOMAIN log : (Applied(k)' => Applied(k)) /\ (Unapplied(k)' => Unapplied(k))
    BY <1>4, FatesMove
  <2>4. AllTold' /\ AllSourced'
    BY <1>0, <2>1, <2>2, <2>3, TellingStays DEF ledger
  <2>5. AtControl'
    <3>1. CASE UNCHANGED desk
      BY <1>0, <3>1 DEF AtControl
    <3>2. CASE desk'.at # "control"
      BY <3>2 DEF AtControl
    <3>3. ASSUME NEW r \in Requests, Receive(r) \/ Takes(r) PROVE desk'.at # "control"
      BY <3>3 DEF Receive, Takes, Take
    <3>4. CASE RecordScene
      BY <1>0, <3>2, <3>4 DEF RecordScene, DeskShape, AtMessage, Idle
    <3>5. CASE Prepare \/ Store \/ ApplyControl \/ BeginTurn \/ Crash
      BY <1>4, <3>2, <3>5 DEF Prepare, Store, ApplyControl, BeginTurn, Crash, Idle
    <3>6. QED
      BY <3>1, <3>2, <3>3, <3>4, <3>5 DEF IntakeMoves, Next, EndAwaited, Delete, StartClear, CommitClear, Switch
  <2>6. QED
    BY <1>1, <2>1, <2>4, <2>5
<1>5. QED
  BY <1>2, <1>3, <1>4

-----------------------------------------------------------------------------
LEMMA BattleInit == Init => BattleInv /\ ColumnsOK
<1> SUFFICES ASSUME Init PROVE BattleInv /\ ColumnsOK
  OBVIOUS
<1>1. /\ matches = <<>> /\ standings = <<>>
      /\ room = Columns(<<>>) /\ enabled = Commands /\ clearing = {} /\ withdrawn = {} /\ overtaken = FALSE
      /\ log = <<>> /\ direction = 0 /\ desk = Idle
  BY DEF Init, LedgerInit
<1>a. \A S : <<>> \in Seq(S)
  OBVIOUS
<1>b. MatchesOK
  BY <1>1, <1>a DEF MatchesOK
<1>2. OneMatchAtATime /\ AtControl /\ AllTold /\ AllSourced
  BY <1>1 DEF OneMatchAtATime, AtControl, AllTold, AllSourced, Idle
<1>3. DOMAIN standings = {} /\ Cardinality(DOMAIN standings) = 0 /\ IsFiniteSet(DOMAIN standings)
  BY <1>1, FS_EmptySet
<1>4. TableOK(standings)
  BY <1>3 DEF TableOK
<1>5. Fighters(matches) = {}
  BY <1>1 DEF Fighters, Completed
<1>6. {standings[c].rank : c \in DOMAIN standings} = 1 .. Cardinality(DOMAIN standings)
  BY <1>3
<1>7. StandingsTally
  BY <1>5, <1>6 DEF StandingsTally
<1>8. room \in CommandColumns
  <2>1. <<>> \in Seq(Commands)
    BY <1>a
  <2>2. Columns(<<>>) \in CommandColumns
    BY <2>1, ColumnsAre
  <2>3. QED
    BY <1>1, <2>2
<1>9. ColumnsOK
  <2>1. direction \in 0 .. Len(log) /\ desk.at # "prepare"
    BY <1>1 DEF Idle
  <2>2. QED
    BY <1>1, <1>8, <2>1 DEF ColumnsOK
<1>10. QED
  BY <1>b, <1>2, <1>4, <1>7, <1>9 DEF BattleInv

LEMMA BattleInvHolds == RoomSpec => [](RoomInv /\ BattleInv)
<1>1. RoomInit => BattleInv
  BY BattleInit DEF RoomInit
<1>2. RoomInv /\ BattleInv /\ [RoomNext]_roomVars => BattleInv'
  <2> SUFFICES ASSUME RoomInv, BattleInv, [RoomNext]_roomVars PROVE BattleInv'
    OBVIOUS
  <2>1. CASE IntakeMoves
    BY <2>1, BattleStep DEF RoomInv
  <2>2. CASE UNCHANGED vars
    <3>1. UNCHANGED <<matches, standings, desk, log>>
      BY <2>2 DEF vars, intake, ledger
    <3>2. AllTold' /\ AllSourced'
      BY <3>1, TellingStays DEF BattleInv, Applied, Unapplied, PastControl
    <3>3. QED
      BY <3>1, <3>2 DEF BattleInv, MatchesOK, TableOK, OneMatchAtATime, AtControl, StandingsTally
  <2>3. QED
    BY <2>1, <2>2, RoomMoves
<1>3. QED
  BY <1>1, <1>2, RoomInvHolds, PTL DEF RoomSpec

\* Once a match is completed or cancelled, no control changes it, whichever match the control names and
\* however often it is sent: apply_battle_control refuses a match that is not in progress.
THEOREM ResultsStand == RoomSpec => ResultStands
<1> DEFINE Stays == \A i \in DOMAIN matches :
                       matches[i].status # "in_progress" => i \in DOMAIN matches' /\ matches'[i] = matches[i]
<1>1. RoomInv /\ BattleInv /\ [RoomNext]_roomVars => [Stays]_ledger
  <2> SUFFICES ASSUME RoomInv, BattleInv, [RoomNext]_roomVars PROVE Stays \/ UNCHANGED ledger
    OBVIOUS
  <2>1. CASE IntakeMoves
    BY <2>1, BattleStep DEF RoomInv
  <2>2. CASE UNCHANGED vars
    BY <2>2 DEF vars
  <2>3. QED
    BY <2>1, <2>2, RoomMoves
<1>2. QED
  BY <1>1, BattleInvHolds, PTL DEF RoomSpec, ResultStands

\* A command that has been cleared stays out of both columns until a message names it, unless two
\* writes of the columns have overlapped (set_active_command_ids writes whole values).
THEOREM CommandsStayCleared == RoomSpec => [](ColumnsOK /\ ClearedStaysOut)
<1>1. RoomInit => ColumnsOK /\ ClearedStaysOut
  BY BattleInit DEF RoomInit, Init, ClearedStaysOut
<1>2. RoomInv /\ ColumnsOK /\ ClearedStaysOut /\ [RoomNext]_roomVars => ColumnsOK' /\ ClearedStaysOut'
  <2> SUFFICES ASSUME RoomInv, ColumnsOK, ClearedStaysOut, [RoomNext]_roomVars PROVE ColumnsOK' /\ ClearedStaysOut'
    OBVIOUS
  <2>1. CASE IntakeMoves
    BY <2>1, ColumnsStep DEF RoomInv
  <2>2. CASE UNCHANGED vars
    <3>1. UNCHANGED <<room, clearing, desk, enabled, withdrawn, overtaken, direction, log>>
      BY <2>2 DEF vars, intake
    <3>2. QED
      BY <3>1 DEF ColumnsOK, ClearedStaysOut
  <2>3. QED
    BY <2>1, <2>2, RoomMoves
<1>3. QED
  BY <1>1, <1>2, RoomInvHolds, PTL DEF RoomSpec

\* The ledger tells what the controls of the room's messages have said and no more, its table counts
\* exactly the completed matches and ranks everyone in it once, and matches come one after the other,
\* beside everything else that happens in the room: deletions, repeated deliveries, crashes between
\* the commits of a message, of its control and of its job.
THEOREM LedgerIsTrue == RoomSpec => []LedgerTells
<1>1. RoomInv /\ BattleInv /\ ColumnsOK => LedgerTells
  <2> SUFFICES ASSUME RoomInv, BattleInv, ColumnsOK PROVE LedgerTells
    OBVIOUS
  <2>1. room \in [ids : Seq(Commands), legacy : Commands \union {None}] /\ enabled \subseteq Commands
        /\ withdrawn \subseteq Commands /\ direction \in 0 .. Len(log) /\ overtaken \in BOOLEAN
    BY DEF ColumnsOK, CommandColumns
  <2>2. log \in Seq([req : Requests, live : BOOLEAN,
                     fate : {"none", "job", "awaited", "answered", "failed", "cut"}]) /\ left \in [Kinds -> Nat]
    BY DEF RoomInv, IntakeInv, LogTypeOK, LeftTypeOK, Entry, Fates
  <2>3. /\ desk.at \in {"idle", "prepare", "store", "control", "scene", "turn"}
        /\ desk.at \in {"control", "scene", "turn"} => desk.msg = Len(log)
    BY DEF RoomInv, IntakeInv, DeskShape, AtMessage, Idle
  <2>4. LedgerTypeOK
    BY DEF BattleInv, MatchesOK, TableOK, LedgerTypeOK, Match
  <2>6. IntakeTypeOK
    BY <2>1, <2>2, <2>3, <2>4 DEF IntakeTypeOK
  <2>7. QED
    BY <2>6 DEF LedgerTells, BattleInv, AllTold, AllSourced
<1>2. QED
  BY <1>1, BattleInvHolds, CommandsStayCleared, PTL
=============================================================================

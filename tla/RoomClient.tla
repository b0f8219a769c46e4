------------------------------ MODULE RoomClient ------------------------------
(***************************************************************************)
(* The browser's side of a turn: it posts a message, is told the job, and  *)
(* follows the events of the job over a stream which the browser connects  *)
(* again when it is cut; when that does not work it asks for the job at    *)
(* intervals, and in the end it loads the replies.  A message that has     *)
(* failed in its eyes is posted again, with the same request id.           *)
(*                                                                         *)
(* The queue is seen from outside, as rows that change and events that are *)
(* stored in the same commit (GenerationQueue has its inside).             *)
(***************************************************************************)
EXTENDS MessageIntake

CONSTANTS
    Sends,      \* the requests of the browser
    MaxErrors,  \* errors in a row after which the stream is given up
    MaxPolls,   \* how often the job is asked for without it
    MaxLosses,  \* bound on answers and connections that are lost
    MaxEvents   \* bound on the events

ASSUME ClientAssumption ==
    /\ Sends \subseteq {r \in Requests : Payload[r].via = "jobs"}
    /\ {MaxErrors, MaxPolls, MaxLosses, MaxEvents} \subseteq Nat \ {0}

VARIABLES
    job,      \* status of the job of a message
    events,   \* GenerationJobEvent rows, in the order of their ids: [msg, status]
    browser,  \* what it is doing, for which request, message and job
    losses    \* what has been lost

client == <<job, events, browser, losses>>
roomVars == <<vars, client>>

Terminal == {"completed", "failed", "cancelled"}
Lose == losses < MaxLosses /\ losses' = losses + 1

\* msg: the message whose job it follows; link, errors, timer: the EventSource, its errors in a row,
\* and whether the timer for its first opening runs; seen: the ids it has received; polls: how often
\* it has asked; shown: whether the job it has read named replies
Ready == [at |-> "ready", req |-> None, msg |-> 0, link |-> "none", errors |-> 0, timer |-> FALSE,
          seen |-> <<>>, polls |-> 0, shown |-> FALSE, done |-> {}]
Watching(msg) == [browser EXCEPT !.at = "watching", !.msg = msg, !.link = "connecting", !.errors = 0,
                                 !.timer = TRUE, !.seen = <<>>]
Closed(at) == [browser EXCEPT !.at = at, !.link = "none", !.timer = FALSE, !.polls = 0,
                              !.done = IF at = "answered" THEN @ \union {browser.req} ELSE @]

-----------------------------------------------------------------------------
\* sendConversationMessage, for a new message, and retryMessage, for one that has failed, as it was.
\* While a job is the active one of the room, nothing is sent.
Post(r) ==
    /\ browser.at \in {"ready", "answered", "failed"} /\ r \notin browser.done
    /\ Spend("browse") /\ Take(r)
    /\ browser' = [Ready EXCEPT !.at = "posting", !.req = r, !.done = browser.done]
    /\ UNCHANGED <<job, events, losses>>

\* What the handler says when it is done: the message whose job it is, or that there is none.
Said ==
    IF left'["crash"] < left["crash"] THEN 0
    ELSE IF desk.at = "turn" THEN desk.msg
    ELSE IF desk.at = "store" THEN Earlier(desk.req)
    ELSE 0

Answered ==
    \/ Said # 0 /\ browser' = Watching(Said) /\ UNCHANGED losses
    \/ Said = 0 /\ browser' = Closed("failed") /\ UNCHANGED losses
    \/ Said # 0 /\ browser' = Closed("failed") /\ Lose

JobsOf(entries) == {i \in DOMAIN entries : entries[i].fate = "job"}

\* A step of the handlers, with create_message_generation_job and the answer where it ends
IntakeStep ==
    /\ Next
    /\ job' = [i \in JobsOf(log') |-> IF i \in DOMAIN job THEN job[i] ELSE "queued"]
    /\ events' = IF DOMAIN job' = DOMAIN job THEN events
                 ELSE Append(events, [msg |-> CHOOSE i \in DOMAIN job' \ DOMAIN job : TRUE, status |-> "queued"])
    /\ IF browser.at = "posting" /\ desk' = Idle THEN Answered ELSE UNCHANGED <<browser, losses>>

\* What the queue does with a row.  A worker left behind may complete what has been failed.
Evolves(from) ==
    CASE from = "queued" -> {"running", "cancelled"}
      [] from = "running" -> {"queued", "completed", "failed", "cancelled"}
      [] from = "failed" -> {"completed"}
      [] OTHER -> {}

Work(i) ==
    /\ browser.at # "off" /\ Len(events) < MaxEvents
    /\ \E status \in Evolves(job[i]) :
          /\ job' = [job EXCEPT ![i] = status]
          /\ events' = Append(events, [msg |-> i, status |-> status])
    /\ UNCHANGED <<vars, browser, losses>>

-----------------------------------------------------------------------------
\* The stream: subscribeGenerationJobLifecycle and stream_message_generation_job_events

\* Last-Event-ID
Cursor == IF browser.seen = <<>> THEN 0 ELSE browser.seen[Len(browser.seen)]
Unseen(cursor) == {k \in DOMAIN events : events[k].msg = browser.msg /\ k > cursor}

\* A variant: only when there have been more errors than that.
GivesUpLater(errors) == errors > MaxErrors
GivesUp(errors) == errors >= MaxErrors

Opens ==
    /\ browser.link = "connecting"
    /\ browser' = [browser EXCEPT !.link = "open", !.errors = 0, !.timer = FALSE]
    /\ UNCHANGED <<vars, job, events, losses>>

Deliver ==
    /\ browser.link = "open"
    /\ Unseen(Cursor) # {}
    /\ LET k == CHOOSE n \in Unseen(Cursor) : \A x \in Unseen(Cursor) : n <= x
           received == [browser EXCEPT !.seen = Append(@, k)]
       IN  browser' = IF events[k].status \in Terminal
                      THEN [received EXCEPT !.at = "asking", !.link = "none", !.timer = FALSE] ELSE received
    /\ UNCHANGED <<vars, job, events, losses>>

\* onerror: a connection that is cut or not made is made again by the browser, one that was answered
\* with an error is not.
LinkFails ==
    /\ browser.link \in {"open", "connecting"}
    /\ Lose
    /\ IF GivesUp(browser.errors + 1) THEN browser' = Closed("polling")
       ELSE \E link \in IF browser.link = "open" THEN {"connecting"} ELSE {"connecting", "dead"} :
                browser' = [browser EXCEPT !.link = link, !.errors = @ + 1]
    /\ UNCHANGED <<vars, job, events>>

OpenTimeout ==
    /\ browser.timer
    /\ browser' = Closed("polling")
    /\ UNCHANGED <<vars, job, events, losses>>

\* The page is left: the subscription is closed, the job stays the active one.  Asking goes on.
Leave ==
    /\ browser.at = "watching"
    /\ browser' = Closed("pending")
    /\ UNCHANGED <<vars, job, events, losses>>

-----------------------------------------------------------------------------
\* Reading the job and its replies

\* What submitConversationPayload makes of a row: what has not failed has its replies.
Judged(status) ==
    IF status \in {"failed", "cancelled"} THEN Closed("failed")
    ELSE [Closed("loading") EXCEPT !.shown = status = "completed"]

\* after the last event; an error leads to polling
Ask ==
    /\ browser.at = "asking"
    /\ \/ browser' = Judged(job[browser.msg]) /\ UNCHANGED losses
       \/ Lose /\ browser' = Closed("polling")
    /\ UNCHANGED <<vars, job, events>>

HasEnded(status) == status \in Terminal

\* pollGenerationJob; an error is final
Poll ==
    /\ browser.at = "polling"
    /\ \/ /\ browser' = IF HasEnded(job[browser.msg]) THEN Judged(job[browser.msg])
                        ELSE IF browser.polls + 1 = MaxPolls THEN Closed("pending")
                        ELSE [browser EXCEPT !.polls = @ + 1]
          /\ UNCHANGED losses
       \/ Lose /\ browser' = Closed("failed")
    /\ UNCHANGED <<vars, job, events>>

\* loadGeneratedJobMessages
Load ==
    /\ browser.at = "loading"
    /\ \/ browser' = Closed("answered") /\ UNCHANGED losses
       \/ Lose /\ browser' = Closed("failed")
    /\ UNCHANGED <<vars, job, events>>

\* visibilitychange, in the room of the active job
Visible ==
    /\ browser.at = "pending"
    /\ HasEnded(job[browser.msg])
    /\ browser' = IF job[browser.msg] = "completed" THEN [Closed("answered") EXCEPT !.shown = TRUE] ELSE Closed("failed")
    /\ UNCHANGED <<vars, job, events, losses>>

-----------------------------------------------------------------------------
RoomInit ==
    /\ Init
    /\ job = <<>> /\ events = <<>> /\ losses = 0
    /\ browser = IF left["browse"] > 0 THEN Ready ELSE [Ready EXCEPT !.at = "off"]

RoomNext ==
    \/ IntakeStep
    \/ \E r \in Sends : Post(r)
    \/ \E i \in DOMAIN job : Work(i)
    \/ Opens \/ Deliver \/ LinkFails \/ OpenTimeout \/ Leave
    \/ Ask \/ Poll \/ Load \/ Visible

RoomSpec == RoomInit /\ [][RoomNext]_roomVars
-----------------------------------------------------------------------------
ClientTypeOK ==
    /\ DOMAIN job = JobsOf(log) /\ \A i \in DOMAIN job : job[i] \in Terminal \union {"queued", "running"}
    /\ \A k \in DOMAIN events : events[k].msg \in DOMAIN job
    /\ browser.at \in {"off", "ready", "posting", "watching", "asking", "polling", "loading", "pending",
                       "answered", "failed"}
    /\ browser.at \in {"watching", "asking", "polling", "loading", "pending", "answered"} => browser.msg \in DOMAIN job
    /\ browser.link \in {"none", "connecting", "open", "dead"} /\ (browser.at # "watching" => browser.link = "none")
    /\ browser.errors \in Nat /\ browser.polls \in Nat

\* Across all the connections of a subscription the browser receives every event of its job, once and
\* in the order of their ids, and none after the first that ends it (Last-Event-ID, `id > cursor`).
EventsOnceInOrder ==
    browser.at = "watching" =>
        /\ {browser.seen[n] : n \in DOMAIN browser.seen} = {k \in 1 .. Cursor : events[k].msg = browser.msg}
        /\ \A n, o \in DOMAIN browser.seen : n < o => browser.seen[n] < browser.seen[o]
        /\ \A n \in DOMAIN browser.seen : events[browser.seen[n]].status \notin Terminal

\* A browser that waits on the stream waits for something: a connection that is being made or stands,
\* or the timer of the first one; and when its job has ended, an event it has not yet received says so.
\* A connection that the browser will not make again has been counted as the last error it takes.
WaitsForSomething ==
    browser.at = "watching" =>
        /\ browser.link = "dead" => browser.timer
        /\ job[browser.msg] \in Terminal => \E k \in Unseen(Cursor) : events[k].status \in Terminal

\* A turn that is shown as answered has been completed, and the replies it has stored are those that
\* are shown, whether the browser has learned of the end from the stream, by asking, or when it came
\* back to the page.
AnsweredIsStored == browser.at = "answered" => job[browser.msg] = "completed" /\ browser.shown

\* A browser that has sent a message follows its turn to the end, through lost answers, connections
\* that fail and a process that is started again.
FollowsItsTurn == ClientTypeOK /\ EventsOnceInOrder /\ WaitsForSomething /\ AnsweredIsStored
=============================================================================

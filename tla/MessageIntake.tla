---------------------------- MODULE MessageIntake ----------------------------
(***************************************************************************)
(* How a room takes in a message: the command at its beginning, the lookup *)
(* of a request that has been here before, the message, the battle control *)
(* and the scene direction that come with it, and its job.  These are      *)
(* commits of their own, and a crash may come between any two.             *)
(*                                                                         *)
(* The handlers that take messages in await nothing before the message is  *)
(* stored and its job queued (or its generation begun), so the event loop  *)
(* runs one at a time; the handlers that clear commands and delete         *)
(* messages are threads beside it.                                         *)
(***************************************************************************)
EXTENDS BattleLedger

CONSTANTS
    Requests,   \* client request ids
    Payload,    \* [Requests -> [via, speaker, command, text, control]]
    Commands,   \* ids of chat commands
    None,       \* no command, no control, no request
    Lookback,   \* how many user messages the lookup goes through
    Mixes       \* bounds on what happens beside the handlers, by kind

Kinds == {"deliver", "browse", "clear", "switch", "delete", "crash"}

ASSUME IntakeAssumption ==
    /\ Lookback \in Nat \ {0}
    /\ Mixes \subseteq [Kinds -> Nat]
    /\ \A r \in Requests : /\ Payload[r].via \in {"jobs", "messages"}
                           /\ Payload[r].speaker \in {"user", "system"}
                           /\ Payload[r].command \in Commands \union {None}
                           /\ Payload[r].text \in BOOLEAN
                           /\ Payload[r].control # None =>
                                  /\ DOMAIN Payload[r].control = {"action", "match", "a", "b", "who"}
                                  /\ Payload[r].control.action \in {"start", "progress", "end", "cancel"}

VARIABLES
    room,       \* the conversation's two columns: active_command_ids, active_command_id
    enabled,    \* the commands that are enabled
    log,        \* messages ever stored: [req, live, fate]
    direction,  \* the message whose text is the scene's last event
    desk,       \* the handler at work on the event loop, or Idle
    clearing,   \* requests that clear commands: [what, was]
    left,       \* what may still happen, by kind
    withdrawn,  \* commands cleared since a message last named them
    overtaken   \* has a write of the active commands been based on columns that had changed?

intake == <<room, enabled, log, direction, desk, clearing, left, withdrawn, overtaken>>
vars == <<intake, ledger>>

Idle == [at |-> "idle", req |-> None]
IsLive(i) == log[i].live
Spend(kind) == left[kind] > 0 /\ left' = [left EXCEPT ![kind] = @ - 1]

\* What a commit leaves in a row: the columns the session has changed, over the row as it is now.
Flushed(now, was, new) == [f \in DOMAIN now |-> IF new[f] # was[f] THEN new[f] ELSE now[f]]

-----------------------------------------------------------------------------
\* Active commands of the room

\* active_command_ids_for_conversation: the old single column comes first if the list lacks it.
Active(columns) ==
    IF columns.legacy # None /\ ~ \E i \in DOMAIN columns.ids : columns.ids[i] = columns.legacy
    THEN <<columns.legacy>> \o columns.ids ELSE columns.ids
ActiveSet(columns) == {Active(columns)[i] : i \in DOMAIN Active(columns)}

Columns(ids) == [ids |-> ids, legacy |-> IF ids = <<>> THEN None ELSE Head(ids)]

\* A variant: the old single column is written only when there is something to put there.
SetActiveFirst(was, ids) ==
    /\ room' = [room EXCEPT !.ids = ids, !.legacy = IF ids = <<>> THEN @ ELSE Head(ids)]
    /\ overtaken' = (overtaken \/ was # room)
\* set_active_command_ids, on columns loaded earlier
SetActive(was, ids) ==
    /\ room' = Flushed(room, was, Columns(ids))
    /\ overtaken' = (overtaken \/ was # room)

\* add_active_command: the ids that are already in the list keep their places.
WithCommand(ids, c) == IF \E i \in DOMAIN ids : ids[i] = c THEN ids ELSE Append(ids, c)
\* The ids that are left of a list, in their order: the n-th of their places has n of them up to itself.
Places(ids, set) == {i \in DOMAIN ids : ids[i] \in set}
PlaceNo(places, i) == Cardinality({k \in places : k <= i})
Only(ids, set) ==
    [n \in 1 .. Cardinality(Places(ids, set)) |->
        ids[CHOOSE i \in Places(ids, set) : PlaceNo(Places(ids, set), i) = n]]
Without(ids, c) == Only(ids, {ids[i] : i \in DOMAIN ids} \ {c})

\* clear_active_command and clear_one_active_command, as threads: read, then write.
StartClear(what) ==
    /\ Spend("clear")
    /\ clearing' = clearing \union {[what |-> what, was |-> room]}
    /\ UNCHANGED <<room, enabled, log, direction, desk, withdrawn, overtaken, ledger>>

CommitClear(c) ==
    /\ SetActive(c.was, IF c.what = None THEN <<>> ELSE Without(Active(c.was), c.what))
    /\ clearing' = clearing \ {c}
    /\ withdrawn' = withdrawn \union (IF c.what = None THEN Commands ELSE {c.what})
    /\ UNCHANGED <<enabled, log, direction, desk, left, ledger>>

\* update_chat_command and delete_chat_command as far as rooms notice: enabled or not.
Switch(c) ==
    /\ Spend("switch")
    /\ enabled' = IF c \in enabled THEN enabled \ {c} ELSE enabled \union {c}
    /\ UNCHANGED <<room, log, direction, desk, clearing, withdrawn, overtaken, ledger>>

-----------------------------------------------------------------------------
\* The handlers of POST .../messages/jobs and POST .../messages

Take(r) ==
    /\ desk = Idle
    \* a command that is not there, or not enabled, is refused before anything is stored
    /\ Payload[r].command # None => Payload[r].command \in enabled
    /\ desk' = [at |-> "prepare", req |-> r, was |-> room]
    /\ UNCHANGED <<room, enabled, log, direction, clearing, withdrawn, overtaken, ledger>>

Receive(r) == Spend("deliver") /\ Take(r)

\* _prepare_message_payload_for_post: activates the command, or drops the disabled ones.  A message
\* without text is refused after that.
Prepare ==
    LET command == Payload[desk.req].command
        ids == Active(desk.was)
        kept == Only(ids, enabled)
    IN  /\ desk.at = "prepare"
        /\ IF command # None THEN SetActive(desk.was, WithCommand(ids, command))
           ELSE IF kept # ids THEN SetActive(desk.was, kept)
           ELSE UNCHANGED <<room, overtaken>>
        /\ withdrawn' = withdrawn \ {command}
        /\ desk' = IF Payload[desk.req].text THEN [at |-> "store", req |-> desk.req] ELSE Idle
        /\ UNCHANGED <<enabled, log, direction, clearing, left, ledger>>

\* find_incoming_message_by_client_request_id: the newest of the latest messages of the user.
UserMessages == {i \in DOMAIN log : IsLive(i) /\ Payload[log[i].req].speaker = "user"}
Recent == {i \in UserMessages : Cardinality({k \in UserMessages : k > i}) < Lookback}
\* A variant: the oldest of them.
EarlierOldest(r) ==
    LET same == {i \in Recent : log[i].req = r}
    IN  IF same = {} THEN 0 ELSE CHOOSE i \in same : \A k \in same : k >= i
Earlier(r) ==
    LET same == {i \in Recent : log[i].req = r}
    IN  IF same = {} THEN 0 ELSE CHOOSE i \in same : \A k \in same : k <= i

\* Only the handler that creates jobs looks the request up; a message without a job does not count.
IsRepeat(r) == Payload[r].via = "jobs" /\ Earlier(r) # 0 /\ log[Earlier(r)].fate = "job"

AfterStore(r) == IF Payload[r].control # None THEN "control" ELSE "scene"

Store ==
    /\ desk.at = "store"
    /\ IF IsRepeat(desk.req)
       THEN desk' = Idle /\ UNCHANGED log
       ELSE /\ log' = Append(log, [req |-> desk.req, live |-> TRUE, fate |-> "none"])
            /\ desk' = [at |-> AfterStore(desk.req), req |-> desk.req, msg |-> Len(log) + 1]
    /\ UNCHANGED <<room, enabled, direction, clearing, left, withdrawn, overtaken, ledger>>

\* A variant: the message stays.
RefusedKept(entry) == entry
\* A control that is refused takes its message with it.
Refused(entry) == [entry EXCEPT !.live = FALSE]

\* apply_battle_control, and what the handler does when it raises
ApplyControl ==
    LET control == Payload[desk.req].control
    IN  /\ desk.at = "control"
        /\ IF Legal(matches, control)
           THEN /\ CommitControl(control, desk.msg)
                /\ desk' = [at |-> "scene", req |-> desk.req, msg |-> desk.msg]
                /\ UNCHANGED log
           ELSE /\ log' = [log EXCEPT ![desk.msg] = Refused(@)]
                /\ desk' = Idle
                /\ UNCHANGED ledger
        /\ UNCHANGED <<room, enabled, direction, clearing, left, withdrawn, overtaken>>

\* record_system_scene_direction
RecordScene ==
    /\ desk.at = "scene"
    /\ direction' = IF Payload[desk.req].speaker = "system" THEN desk.msg ELSE direction
    /\ desk' = [desk EXCEPT !.at = "turn"]
    /\ UNCHANGED <<room, enabled, log, clearing, left, withdrawn, overtaken, ledger>>

\* create_message_generation_job, or the beginning of the generation that post_message awaits
BeginTurn ==
    /\ desk.at = "turn"
    /\ log' = [log EXCEPT ![desk.msg].fate = IF Payload[desk.req].via = "jobs" THEN "job" ELSE "awaited"]
    /\ desk' = Idle
    /\ UNCHANGED <<room, enabled, direction, clearing, left, withdrawn, overtaken, ledger>>

\* The awaited generation ends: replies, or mark_message_generation_failed on a message that is there.
EndAwaited(i) ==
    /\ log[i].fate = "awaited"
    /\ \/ log' = [log EXCEPT ![i].fate = "answered"]
       \/ IsLive(i) /\ log' = [log EXCEPT ![i].fate = "failed"]
       \/ ~ IsLive(i) /\ log' = [log EXCEPT ![i].fate = "cut"]
    /\ UNCHANGED <<room, enabled, direction, desk, clearing, left, withdrawn, overtaken, ledger>>

\* delete_message and bulk_delete_messages, from the user
Delete(i) ==
    /\ IsLive(i)
    /\ Spend("delete")
    /\ log' = [log EXCEPT ![i].live = FALSE]
    /\ UNCHANGED <<room, enabled, direction, desk, clearing, withdrawn, overtaken, ledger>>

\* The backend dies and comes back.
Crash ==
    /\ Spend("crash")
    /\ desk' = Idle
    /\ clearing' = {}
    /\ log' = [i \in DOMAIN log |->
                IF log[i].fate = "awaited" \/ (log[i].fate = "none" /\ desk # Idle /\ desk.at # "prepare"
                                               /\ desk.at # "store" /\ desk.msg = i)
                THEN [log[i] EXCEPT !.fate = "cut"] ELSE log[i]]
    /\ UNCHANGED <<room, enabled, direction, withdrawn, overtaken, ledger>>

-----------------------------------------------------------------------------
Init ==
    /\ room = Columns(<<>>) /\ enabled = Commands
    /\ log = <<>> /\ direction = 0 /\ desk = Idle /\ clearing = {}
    /\ left \in Mixes
    /\ withdrawn = {} /\ overtaken = FALSE
    /\ LedgerInit

Next ==
    \/ \E r \in Requests : Receive(r)
    \/ Prepare \/ Store \/ ApplyControl \/ RecordScene \/ BeginTurn
    \/ \E i \in DOMAIN log : EndAwaited(i) \/ Delete(i)
    \/ \E what \in Commands \union {None} : StartClear(what)
    \/ \E c \in clearing : CommitClear(c)
    \/ \E c \in Commands : Switch(c)
    \/ Crash

Spec == Init /\ [][Next]_vars
-----------------------------------------------------------------------------
IntakeTypeOK ==
    /\ room \in [ids : Seq(Commands), legacy : Commands \union {None}]
    /\ enabled \subseteq Commands /\ withdrawn \subseteq Commands
    /\ log \in Seq([req : Requests, live : BOOLEAN,
                    fate : {"none", "job", "awaited", "answered", "failed", "cut"}])
    /\ direction \in 0 .. Len(log)
    /\ desk.at \in {"idle", "prepare", "store", "control", "scene", "turn"}
    /\ desk.at \in {"control", "scene", "turn"} => desk.msg = Len(log)
    /\ left \in [Kinds -> Nat] /\ overtaken \in BOOLEAN
    /\ LedgerTypeOK

\* Messages whose control has certainly been committed, and those whose control has not: it waits for
\* its turn at the desk, or has been refused.  What a crash has cut off may be either.
ControlOf(i) == Payload[log[i].req].control
PastControl(i) == desk.at \in {"scene", "turn"} /\ desk.msg = i
Applied(i) == log[i].fate \in {"job", "awaited", "answered", "failed"} \/ PastControl(i)
Unapplied(i) == log[i].fate = "none" /\ ~ PastControl(i)

\* What the ledger says of a control that was applied with message i
Told(control, i) ==
    \E m \in DOMAIN matches :
        LET row == matches[m]
        IN  CASE control.action = "start" -> row.first = i /\ row.a = control.a /\ row.b = control.b
              [] control.action = "progress" -> row.first < i /\ i <= row.last
              [] control.action = "end" -> row.status = "completed" /\ row.last = i /\ row.winner = control.who
              [] control.action = "cancel" -> row.status = "cancelled" /\ row.last = i

\* What the messages say that a match names as its first and its last
Tells(status) ==
    CASE status = "in_progress" -> {"start", "progress"} [] status = "completed" -> {"end"}
      [] status = "cancelled" -> {"cancel"}
Sourced(row) ==
    /\ {row.first, row.last} \subseteq DOMAIN log /\ row.first <= row.last
    /\ \A i \in {row.first, row.last} : ControlOf(i) # None /\ ~ Unapplied(i)
    /\ ControlOf(row.first).action = "start"
    /\ ControlOf(row.last).action \in Tells(row.status)
    /\ row.status = "completed" => /\ row.winner = ControlOf(row.last).who
                                   /\ {row.winner, row.loser} = {row.a, row.b}

\* The ledger tells what the controls of the room's messages have said, and no more, although message,
\* control and job are committed one after the other and a crash, a deletion or a second delivery may
\* come between any two: a message that has its turn has had the effect of its control; a match names
\* the messages that have started and last changed it; and no match names a message whose control was
\* refused.  The standings count the same matches, and matches come one after the other.
LedgerTells ==
    /\ IntakeTypeOK
    /\ \A i \in DOMAIN log : Applied(i) /\ ControlOf(i) # None => Told(ControlOf(i), i)
    /\ \A m \in DOMAIN matches : Sourced(matches[m])
    /\ StandingsTally /\ OneMatchAtATime

\* A message of the user that is in the room has its turn: a job, an answer that is awaited, or a
\* mark of failure.  One that waits for none of them is being taken in at this moment or was cut off
\* by a crash; a message whose battle control is refused is not kept.
MessageHasItsTurn ==
    \A i \in DOMAIN log : IsLive(i) /\ log[i].fate = "none" => desk # Idle /\ desk.at # "prepare" /\ desk.msg = i

\* A request of the user that is delivered again is not taken in again (client_request_id): there is
\* no second message while the first one is in the room with its job, unless so many messages of the
\* user have come since that the lookup does not reach it.  Directions of the system are not looked
\* up, nor are requests to POST .../messages.
TakenInOnce ==
    \A i, k \in DOMAIN log :
        /\ i < k /\ log[i].req = log[k].req
        /\ Payload[log[i].req].via = "jobs" /\ Payload[log[i].req].speaker = "user"
        /\ IsLive(i) /\ log[i].fate = "job"
        => Cardinality({n \in i + 1 .. k - 1 : Payload[log[n].req].speaker = "user"}) >= Lookback

\* A command that the user has cleared stays out of the room until a message names it again, although
\* its id is kept in two columns and both are written by whole values (set_active_command_ids).  Where
\* two such writes overlap, the later one may bring it back.
ClearedStaysOut == overtaken \/ ActiveSet(room) \intersect withdrawn = {}
=============================================================================

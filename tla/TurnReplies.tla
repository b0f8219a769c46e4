----------------------------- MODULE TurnReplies -----------------------------
(***************************************************************************)
(* One generation from its prompt to the bubbles that are stored: what the *)
(* model may answer, what validate_replies lets pass and under whose name, *)
(* what the room takes, what the active commands make of it, and the order *)
(* in which readers will see it.                                           *)
(*                                                                         *)
(* Text is reduced to what the guards tell apart.  The bubbles of an       *)
(* answer are built microseconds apart, an overlay a millisecond before or *)
(* after its anchor; readers sort by (created_at, id), and ids are random. *)
(***************************************************************************)
EXTENDS PromptAssembly, FiniteSets

CONSTANTS
    Characters,     \* bound: the characters, numbered in the order of the room
    Rooms,          \* the rooms explored, see Room
    WholeRoom,      \* a room of so many answers as a whole (4 in the source)
    CastMax,        \* the largest cast of a larger room (6 in the source)
    RawReplies,     \* bound: the replies a model may give
    MaxRaw,         \* bound on the replies of one answer
    Histories,      \* bound: the stored messages of a room
    OtherSections,  \* bound: sequences of the other sections of a prompt
    Budgets         \* bound: total budgets of a prompt

\* Marks of text: a command literal beside speech, a literal alone, nothing, a token of
\* the prompt machinery, a loop; a thought that is too long; fields of internal events.
Texts == {"speech", "tagged", "literal", "empty", "token", "loop", "long_thought", "fields"}
Targets == {"first_bubble", "last_bubble", "all_bubbles"}

\* Identities beside the characters; 0 is none.
Stranger == -1      \* somebody who is not in the room
Mock == -2          \* "mock_character"
Storyteller == -3
CommandOverlay == -4

\* A room: its members and those of them that are silent, the range of bubbles, the commands
\* that are active; the character that has sent the message (0 for a user), the characters of
\* the last 24 messages and the battle control of the message: the two of the match that it
\* was applied to or names, and the two that it gives itself.
Room == [members : SUBSET Characters, silent : SUBSET Characters, min : Nat \ {0}, max : Nat,
         commands : Seq(Targets), sender : Characters \union {0}, recent : SUBSET Characters,
         control : [action : {"none", "start", "progress", "end", "cancel"},
                    match : SUBSET Characters, given : SUBSET Characters]]

Millisecond == 1000     \* in the distances between the bubbles of one answer

ASSUME RepliesAssumption ==
    /\ Characters \subseteq Nat \ {0}
    /\ Rooms \subseteq Room
    /\ \A room \in Rooms :
          /\ IsFiniteSet(room.members) /\ room.members # {} /\ room.min <= room.max
          \* the source allows at most 8 bubbles; their overlays stand a millisecond apart
          /\ room.max <= Millisecond
          \* a character is answered in a room of several only
          /\ room.sender # 0 => Cardinality(room.members) > 1
    /\ WholeRoom \in Nat \ {0} /\ CastMax \in Nat \ {0, 1}
    /\ \A raw \in RawReplies :
          /\ raw.type \in {"character", "storytelling", "event"}
          /\ raw.id \in Characters \union {0, Stranger, Mock}
          /\ raw.name \in Characters \union {0, Stranger}
          /\ raw.text \in Texts
    /\ MaxRaw \in Nat
    /\ Histories \subseteq Seq(Message) /\ OtherSections \subseteq Seq(Section)
    /\ Budgets \subseteq Nat \ {0}  \* 0 stands for a budget of its own

-----------------------------------------------------------------------------
(* The cast.                                                               *)

\* build_battle_control_runtime_context: the match of the record, else that of a start.
ActivePair(r) ==
    IF r.control.action = "none" THEN {}
    ELSE IF r.control.match # {} THEN r.control.match
    ELSE IF r.control.action = "start" /\ Cardinality(r.control.given) = 2 THEN r.control.given
    ELSE {}

Active(r) == r.members \intersect (ActivePair(r) \union {r.sender} \union r.recent)
Foremost(set, n) == {c \in set : Cardinality({d \in set : d <= c}) <= n}

\* Faulty variant of Cast: one active character is a cast.
CastOfOne(r) ==
    IF Cardinality(r.members) > WholeRoom /\ Active(r) # {} THEN Foremost(Active(r), CastMax) ELSE r.members
\* select_runtime_room_characters
Cast(r) ==
    IF Cardinality(r.members) > WholeRoom /\ Cardinality(Active(r)) >= 2
    THEN Foremost(Active(r), CastMax) ELSE r.members

-----------------------------------------------------------------------------
VARIABLES
    room,       \* the room, and the characters on the stage, both fixed
    cast,
    pc,         \* "prompt", "send", "ask", "judge", "take", "command", "stored" or "failed"
    attempt,
    prompt,     \* what it was made of and its ledger, while it is being sent
    answer,     \* the replies of the model and the finish reason
    bubbles,    \* the bubbles so far, in the order of the list
    done        \* number of commands done

vars == <<room, cast, pc, attempt, prompt, answer, bubbles, done>>

NoPrompt == [history |-> <<>>, boundary |-> 0, mode |-> "legacy", budget |-> 0, sections |-> <<>>, ledger |-> <<>>]
NoAnswer == [replies |-> <<>>, finish |-> "STOP"]

Speakers == Characters \union {Storyteller, CommandOverlay}
\* A bubble: its speaker, the reply it comes from (0 for an overlay), its text (0 for that
\* of the reply, else the number of the command), the text kept as pre_command_content (-1
\* for none) and its time.
Bubble == [speaker : Speakers, reply : Nat, text : Nat, before : Nat \union {-1}, at : Int]

TypeOK ==
    /\ room \in Rooms
    /\ pc \in {"prompt", "send", "ask", "judge", "take", "command", "stored", "failed"}
    /\ attempt \in 1..2
    /\ answer.replies \in Seq(RawReplies)
    /\ bubbles \in Seq(Bubble)
    /\ done \in 0..Len(room.commands)

Init ==
    /\ room \in Rooms /\ cast = Cast(room)
    /\ pc = "prompt"
    /\ attempt = 1
    /\ prompt = NoPrompt /\ answer = NoAnswer /\ bubbles = <<>> /\ done = 0

-----------------------------------------------------------------------------
(* The prompt.                                                             *)

Assemble(history, boundary, mode, sections, budget) ==
    /\ pc = "prompt"
    /\ LET raw == RawHistory(history, boundary)
           all == Append(sections, RecentSection(raw, mode))
       IN  IF CoverageGap(boundary, mode) THEN pc' = "failed" /\ UNCHANGED prompt
           ELSE /\ pc' = "send"
                /\ prompt' = [history |-> history, boundary |-> boundary, mode |-> mode,
                              budget |-> budget, sections |-> all, ledger |-> Compile(all, budget)]
    /\ UNCHANGED <<room, cast, attempt, answer, bubbles, done>>

\* The prompt is the same for both attempts, but for an instruction to repair the answer.
Send ==
    /\ pc = "send"
    /\ pc' = "ask" /\ prompt' = NoPrompt
    /\ UNCHANGED <<room, cast, attempt, answer, bubbles, done>>

-----------------------------------------------------------------------------
(* Validation of an answer.                                                *)

Speaking == IF cast \subseteq room.silent THEN cast ELSE cast \ room.silent
Default == CHOOSE c \in Speaking : \A d \in Speaking : c <= d
\* multi_character_strict
Strict == Cardinality(Speaking) > 1

\* resolve_character_id_from_alias: only the names of those who may speak resolve.
Resolved(name) == IF name \in Speaking THEN name ELSE 0
\* raw_reply_identity
Identified(raw) == raw.id # 0 \/ Resolved(raw.name) # 0
\* normalize_reply_data: a name is stronger than an id.
Named(raw) ==
    IF Resolved(raw.name) # 0 THEN Resolved(raw.name)
    ELSE IF raw.id = 0 /\ ~Strict THEN Default
    ELSE raw.id

\* Faulty variant of SpeakerOf: strangers speak as the default everywhere.
SpeakerOfLenient(raw) ==
    IF raw.type = "storytelling" THEN Storyteller
    ELSE IF Named(raw) \in Speaking THEN Named(raw) ELSE Default
\* The speaker validate_replies settles on, 0 to refuse.
SpeakerOf(raw) ==
    IF raw.type = "storytelling" THEN Storyteller
    ELSE IF Named(raw) \in Speaking THEN Named(raw)
    ELSE IF raw.id = Mock \/ ~Strict THEN Default
    ELSE 0

\* What has to be true of one reply by itself; command literals are cut out of its text.
Visible(raw) == raw.type # "event" /\ raw.text \in {"speech", "tagged"}

Acceptable(raw) ==
    /\ Visible(raw)
    /\ raw.type # "storytelling" /\ Strict => Identified(raw)
    /\ SpeakerOf(raw) # 0

\* parse_and_validate
Valid(replies, finish) ==
    /\ Len(replies) \in room.min..room.max
    /\ \A i \in DOMAIN replies : Acceptable(replies[i])
    /\ \E i \in DOMAIN replies : replies[i].type # "storytelling"
    /\ finish = "STOP"

\* The model answers; an answer without structure yields no replies. "STOP" stands for every
\* finish reason of success, for none at all and for MAX_TOKENS, which is only reported.
Answer(replies, finish) ==
    /\ pc = "ask"
    /\ answer' = [replies |-> replies, finish |-> finish]
    /\ pc' = "judge"
    /\ UNCHANGED <<room, cast, attempt, prompt, bubbles, done>>

Accept ==
    /\ pc = "judge" /\ Valid(answer.replies, answer.finish)
    /\ pc' = "take"
    /\ UNCHANGED <<room, cast, attempt, prompt, answer, bubbles, done>>

Reject ==
    /\ pc = "judge" /\ ~Valid(answer.replies, answer.finish)
    /\ IF attempt = 1 THEN attempt' = 2 /\ pc' = "ask" ELSE attempt' = attempt /\ pc' = "failed"
    /\ answer' = NoAnswer
    /\ UNCHANGED <<room, cast, prompt, bubbles, done>>

-----------------------------------------------------------------------------
(* The room and its commands.                                              *)

Persistable(raw) == SpeakerOf(raw) = Storyteller \/ SpeakerOf(raw) \in cast \ room.silent

\* persist_generated_reply_messages
Take ==
    /\ pc = "take"
    /\ IF \A i \in DOMAIN answer.replies : Persistable(answer.replies[i])
       THEN /\ pc' = "command"
            /\ bubbles' = [i \in DOMAIN answer.replies |->
                   [speaker |-> SpeakerOf(answer.replies[i]), reply |-> i, text |-> 0,
                    before |-> -1, at |-> i]]
       ELSE pc' = "failed" /\ UNCHANGED bubbles
    /\ UNCHANGED <<room, cast, attempt, prompt, answer, done>>

ByCharacter(i) == bubbles[i].speaker \in Characters
Overlay(at) == [speaker |-> CommandOverlay, reply |-> 0, text |-> done + 1, before |-> -1, at |-> at]
Command == room.commands[done + 1]
Commanding == pc = "command" /\ done < Len(room.commands)

\* Faulty variant of OverlayTime: an overlay is as old as its anchor.
OverlayTimeOfAnchor(anchor, offset) == anchor.at
OverlayTime(anchor, offset) == anchor.at + offset

\* An overlay before the first bubble of a character.
OverlayFirst ==
    /\ Commanding /\ Command = "first_bubble"
    /\ \E i \in DOMAIN bubbles :
          /\ ByCharacter(i) /\ \A k \in 1..i - 1 : ~ByCharacter(k)
          /\ bubbles' = <<Overlay(OverlayTime(bubbles[i], -Millisecond))>> \o bubbles
    /\ done' = done + 1
    /\ UNCHANGED <<room, cast, pc, attempt, prompt, answer>>

\* An overlay after the last bubble.
OverlayLast ==
    /\ Commanding /\ Command = "last_bubble"
    /\ bubbles' = Append(bubbles, Overlay(OverlayTime(Last(bubbles), Millisecond)))
    /\ done' = done + 1
    /\ UNCHANGED <<room, cast, pc, attempt, prompt, answer>>

\* Faulty variant of KeptText: each command keeps the text it finds.
KeptTextOfLast(bubble) == bubble.text
\* The first command to rewrite a bubble keeps its text; the others leave it.
KeptText(bubble) == IF bubble.before = -1 THEN bubble.text ELSE bubble.before

\* The bubbles of characters that their probability has drawn are rewritten.
Rewrite(targets) ==
    /\ Commanding /\ Command = "all_bubbles"
    /\ \A i \in targets : ByCharacter(i)
    /\ bubbles' = [i \in DOMAIN bubbles |->
           IF i \in targets THEN [bubbles[i] EXCEPT !.text = done + 1, !.before = KeptText(bubbles[i])]
           ELSE bubbles[i]]
    /\ done' = done + 1
    /\ UNCHANGED <<room, cast, pc, attempt, prompt, answer>>

\* No valid answer, or no bubble drawn: nothing is rewritten, at most marked as failed.
CommandFails ==
    /\ Commanding
    /\ done' = done + 1
    /\ UNCHANGED <<room, cast, pc, attempt, prompt, answer, bubbles>>

\* reply_index is the place in the list.
Store ==
    /\ pc = "command" /\ done = Len(room.commands)
    /\ pc' = "stored"
    /\ UNCHANGED <<room, cast, attempt, prompt, answer, bubbles, done>>

Generate ==
    \/ /\ pc = "prompt"
       /\ \E history \in Histories, mode \in {"automatic", "legacy"},
             sections \in OtherSections, budget \in Budgets :
             \E boundary \in -1..Len(history) : Assemble(history, boundary, mode, sections, budget)
    \/ /\ pc = "ask"
       /\ \E replies \in SeqOf(RawReplies, MaxRaw), finish \in {"STOP", "SAFETY"} :
             Answer(replies, finish)
    \/ Send \/ Accept \/ Reject \/ Take
    \/ OverlayFirst \/ OverlayLast \/ CommandFails
    \/ \E targets \in SUBSET (DOMAIN bubbles) : targets # {} /\ Rewrite(targets)
    \/ Store

-----------------------------------------------------------------------------
(* Properties.                                                             *)

Sent == pc = "send"
\* What a section has taken of the budget; one that is not routed has no entry.
Used(s) == IF s \in DOMAIN prompt.ledger THEN prompt.ledger[s] ELSE 0
\* The recent messages are the last section here (their place decides nothing, no other has their rank).
Recent == Len(prompt.sections)

\* Automatic mode promises that summary and quoted messages together leave nothing out: the
\* prompt quotes everything after the boundary, uncut, or there is no prompt.
HistoryIsWhole ==
    Sent /\ prompt.mode = "automatic" =>
        Used(Recent) = SizeOf(SubSeq(prompt.history, prompt.boundary + 1, Len(prompt.history)))

\* What the sections that come before this one have taken.
TakenBefore(s) ==
    SumOf([i \in DOMAIN prompt.sections |->
              IF RoutedBefore(prompt.sections, i, s) THEN Used(i) ELSE 0])

\* No section that is required is dropped, and an optional one only because what comes
\* before it by rank has left too little: nothing of lower rank takes its place.
DroppedForCause ==
    Sent => \A s \in DOMAIN prompt.sections :
        LET section == prompt.sections[s]
        IN  Clamped(section) > 0 /\ Used(s) = 0 =>
               ~section.required /\ TakenBefore(s) + Clamped(section) > prompt.budget

\* What is sent to the model has lost nothing it needs.
PromptIsWhole == HistoryIsWhole /\ DroppedForCause

Shown == IF pc \in {"command", "stored"} THEN DOMAIN bubbles ELSE {}
Reply(i) == answer.replies[bubbles[i].reply]

\* Nobody speaks who is silent in this room, not even where all of them are.
SilentStaySilent == \A i \in Shown : bubbles[i].speaker \notin room.silent

\* Where several characters may speak, a bubble is shown under the name its reply gave.
SpeakerAsNamed ==
    Strict => \A i \in Shown : ByCharacter(i) =>
        \/ Reply(i).id = Mock
        \/ bubbles[i].speaker = (IF Reply(i).name \in Speaking THEN Reply(i).name ELSE Reply(i).id)

\* A turn shows as many replies as the room wants, one of a character at least, and none
\* that has no text left or is not meant to be seen.
RepliesWorthShowing ==
    Shown # {} =>
        LET replies == {i \in Shown : bubbles[i].reply # 0} IN
        /\ Cardinality(replies) \in room.min..room.max
        /\ \E i \in replies : ByCharacter(i)
        /\ \A i \in replies : Reply(i).text \in {"speech", "tagged"}

\* In a room too large to answer as a whole nobody is left alone on the stage, the two of the
\* match at hand and the character that has just spoken are on it, unless too many are active
\* for all of them, and a character that is not on it is not shown, whatever the model says.
StageIsSet ==
    /\ Cardinality(room.members) > 1 => Cardinality(cast) > 1
    /\ Cardinality(Active(room)) <= CastMax =>
          room.members \intersect (ActivePair(room) \union {room.sender}) \subseteq cast
    /\ \A i \in Shown : ByCharacter(i) => bubbles[i].speaker \in cast

\* What is shown comes from those who may speak, under their names, and is worth showing,
\* whatever the model has answered.
AnswerIsSound == TypeOK /\ StageIsSet /\ SilentStaySilent /\ SpeakerAsNamed /\ RepliesWorthShowing

\* However many commands rewrite a bubble, the text of the reply is still there.
OriginalKept ==
    \A i \in Shown : bubbles[i].reply # 0 => bubbles[i].text = 0 \/ bubbles[i].before = 0

\* Readers see the bubbles in the order of reply_index, whatever their ids, except that
\* overlays of two first_bubble commands have one time and come in any order.
ReadInOrder ==
    \A i, k \in Shown : i < k =>
        \/ bubbles[i].at < bubbles[k].at
        \/ bubbles[i].at = bubbles[k].at /\ bubbles[i].reply = 0 /\ bubbles[k].reply = 0

\* Nothing of what the model has said is lost or read out of its order.
BubblesStand == OriginalKept /\ ReadInOrder
=============================================================================

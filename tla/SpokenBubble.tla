----------------------------- MODULE SpokenBubble -----------------------------
(***************************************************************************)
(* What happens to a bubble of a character once it is stored: it is edited *)
(* and it is spoken.  Both are threads that load the row, and commit what  *)
(* they make of it: an edit at once, speech after the seconds a synthesis  *)
(* takes, and after a file has been written under a name made of the text  *)
(* and the voice.  Columns that are as they were loaded are not written,   *)
(* the metadata is written as a whole.                                     *)
(***************************************************************************)
EXTENDS TurnReplies

CONSTANTS
    Contents,   \* what the dialogue of a bubble may be edited to, "" for none
    Actions,    \* and its action, which sets the tone of the speech
    Voices,     \* voices a character may be given
    FirstVoice, \* the one it has
    Followed,   \* bound: the rooms and the replies whose bubble is followed further
    Dealings    \* bounds on what happens to it, by kind

None == [content |-> "none", action |-> "none"]    \* no render parts, no speech

ASSUME BubbleAssumption ==
    /\ "said" \in Contents /\ "calm" \in Actions /\ "none" \notin Contents
    /\ FirstVoice \in Voices
    /\ Followed \subseteq Rooms \X RawReplies
    /\ Dealings \in [{"edit", "speak", "voice", "crash"} -> Nat]

VARIABLES
    row,        \* the columns content and action; in the metadata: parts, audio
    voice,      \* the voice of the character
    edits,      \* edits under way: [field, value, was]
    speakers,   \* syntheses under way: [at, was, spoken]
    files,      \* the recordings on disk: "partial" or "whole", by what they should say
    cut,        \* recordings whose writing was cut off
    crossed,    \* the row was written by somebody who had loaded it before another did
    left        \* how much more of each kind may happen

bubble == <<row, voice, edits, speakers, files, cut, crossed, left>>
lifeVars == <<vars, bubble>>

Words(r) == [content |-> r.content, action |-> r.action]
NoFile == [words |-> None, voice |-> FirstVoice]

LifeInit ==
    /\ Init
    /\ row = [content |-> "said", action |-> "calm", parts |-> None, audio |-> NoFile]
    /\ voice = FirstVoice
    /\ edits = {} /\ speakers = {} /\ cut = {} /\ crossed = FALSE
    /\ files = [f \in {} |-> "whole"]
    /\ left = Dealings

Stored == pc = "stored" /\ <<room, answer.replies[1]>> \in Followed /\ UNCHANGED vars
Spend(kind) == left[kind] > 0 /\ left' = [left EXCEPT ![kind] = @ - 1]

-----------------------------------------------------------------------------
(* Editing.                                                                *)

StartEdit(field, value) ==
    /\ Stored /\ Spend("edit")
    \* A bubble keeps a dialogue or an action.
    /\ [Words(row) EXCEPT ![field] = value] # [content |-> "", action |-> ""]
    /\ edits' = edits \union {[field |-> field, value |-> value, was |-> row]}
    /\ UNCHANGED <<row, voice, speakers, files, cut, crossed>>

\* Faulty variant of Edited: the recording of the old words stays.
EditedKeepingAudio(e) ==
    LET words == [Words(e.was) EXCEPT ![e.field] = e.value] IN
    [row EXCEPT ![e.field] = IF e.value = e.was[e.field] THEN @ ELSE e.value,
                !.parts = words, !.audio = e.was.audio]
\* update_message_bubble: the parts are made of the words it has loaded.
Edited(e) ==
    LET words == [Words(e.was) EXCEPT ![e.field] = e.value] IN
    [row EXCEPT ![e.field] = IF e.value = e.was[e.field] THEN @ ELSE e.value,
                !.parts = words, !.audio = NoFile]

CommitEdit(e) ==
    /\ Stored
    /\ row' = Edited(e)
    /\ edits' = edits \ {e}
    /\ crossed' = (Words(row) # Words(e.was))
    /\ UNCHANGED <<voice, speakers, files, cut, left>>

-----------------------------------------------------------------------------
(* Speaking: the request of a listener, or the task of the turn.           *)

\* The character is given another voice; what has been recorded stays.
GiveVoice(v) ==
    /\ Stored /\ Spend("voice") /\ v # voice
    /\ voice' = v
    /\ UNCHANGED <<row, edits, speakers, files, cut, crossed>>

\* ensure_message_tts, from the load to the look for a file.  Nothing to say, or said already
\* in this voice: nothing is done.
StartSpeaking ==
    LET spoken == [words |-> Words(row), voice |-> voice] IN
    /\ Stored /\ Spend("speak")
    /\ row.content # ""
    /\ row.audio = NoFile \/ row.audio.voice # voice
    /\ speakers' = speakers \union
           {[at |-> IF spoken \in DOMAIN files THEN "storing" ELSE "synthesizing", was |-> row, spoken |-> spoken]}
    /\ UNCHANGED <<row, voice, edits, files, cut, crossed>>

\* The recording is written into the file of its name, from the beginning.
Write(s, at, state) ==
    /\ Stored
    /\ speakers' = (speakers \ {s}) \union {[s EXCEPT !.at = at]}
    /\ files' = [f \in DOMAIN files \union {s.spoken} |-> IF f = s.spoken THEN state ELSE files[f]]
    /\ UNCHANGED <<row, voice, edits, crossed, left>>
OpenFile(s) == s.at = "synthesizing" /\ Write(s, "writing", "partial") /\ UNCHANGED cut
CloseFile(s) == s.at = "writing" /\ Write(s, "storing", "whole") /\ cut' = cut \ {s.spoken}

\* The metadata as it was loaded, with the recording.
StoreSpeech(s) ==
    /\ Stored /\ s.at = "storing"
    /\ row' = [row EXCEPT !.parts = s.was.parts, !.audio = s.spoken]
    /\ speakers' = speakers \ {s}
    /\ crossed' = (crossed \/ Words(row) # Words(s.was) \/ row.parts # s.was.parts)
    /\ UNCHANGED <<voice, edits, files, cut, left>>

\* The synthesis fails, or its writing; the endpoint says so, the task is tried again.
SpeakingFails(s) ==
    /\ Stored
    /\ speakers' = speakers \ {s}
    /\ cut' = cut \union (IF s.at = "writing" THEN {s.spoken} ELSE {})
    /\ UNCHANGED <<row, voice, edits, files, crossed, left>>

\* The process ends and is started again: only rows and files are left.
CrashLater ==
    /\ Stored /\ Spend("crash")
    /\ edits' = {} /\ speakers' = {}
    /\ cut' = cut \union {s.spoken : s \in {w \in speakers : w.at = "writing"}}
    /\ UNCHANGED <<row, voice, files, crossed>>

Live ==
    \/ \E value \in Contents : StartEdit("content", value)
    \/ \E value \in Actions : StartEdit("action", value)
    \/ \E e \in edits : CommitEdit(e)
    \/ \E v \in Voices : GiveVoice(v)
    \/ StartSpeaking
    \/ \E s \in speakers : OpenFile(s) \/ CloseFile(s) \/ StoreSpeech(s) \/ SpeakingFails(s)
    \/ CrashLater

Spec == LifeInit /\ [][(Generate /\ UNCHANGED bubble) \/ Live]_lifeVars

-----------------------------------------------------------------------------
(* Properties.                                                             *)

\* The parts a bubble is drawn from and its recording are those of its columns.  An exception
\* is a bubble that somebody has written who had loaded it before an edit was committed: until
\* it is edited once more it may show the old words, and speak them.
SpeaksItsWords ==
    crossed \/ /\ row.parts \in {None, Words(row)}
               /\ row.audio # NoFile => row.audio.words = Words(row)

\* A recording that a bubble names is whole, or is just being written, unless its writing was
\* cut off; it then stays as it is, as nobody writes a file that is there.
RecordingIsWhole ==
    row.audio = NoFile \/ row.audio \in cut
    \/ (row.audio \in DOMAIN files /\ (files[row.audio] = "whole"
            \/ \E s \in speakers : s.at = "writing" /\ s.spoken = row.audio))

\* What a bubble says aloud is what is written in it.
SpeechIsTrue == SpeaksItsWords /\ RecordingIsWhole
=============================================================================

--------------------------- MODULE SceneCompression ---------------------------
(***************************************************************************)
(* The summary of one room and everybody who writes it: folders (the       *)
(* check before a generation, compression tasks, the compress-now request) *)
(* and the editor of the summary, while messages are stored, deleted and   *)
(* still on their way.  A folder holds no lock: it reads the scene and the *)
(* messages, asks a model for as long as that takes, reads both again and  *)
(* updates the scene if its revision and its boundary are as they were.    *)
(*                                                                         *)
(* Messages are numbered in the order of (created_at, id), in which every  *)
(* reader sees them.  A reply gets its time when it is built and is stored *)
(* when its generation is finalized, so that it may turn up before         *)
(* messages that are there already.  What the summary tells is a sequence  *)
(* of chapters: the set of messages of each fold, {} for an edit.  How     *)
(* many messages a fold takes is up to ContextPlan and open here, but the  *)
(* newest message a folder has seen is never folded.                       *)
(***************************************************************************)
EXTENDS Integers, Sequences, SequencesExt

CONSTANTS
    Messages,   \* bound: the numbers of the messages, an interval from 1
    Folders,
    Editors,
    MaxEdits    \* bound on saved edits

ASSUME SceneAssumption ==
    /\ Messages \subseteq Nat \ {0}
    /\ MaxEdits \in Nat

VARIABLES
    place,      \* where each message is: "unborn", "built", "stored" or "gone"
    boundary,   \* scene_states.last_compression_source_message_id, 0 for NULL
    revision,   \* scene_states.compression_revision
    story,      \* what scene_states.summary tells
    error,      \* scene_states.last_compression_error is set
    pc,         \* "reading", "asking" or "claimed" for each folder
    read,       \* what each folder has read so far, of "messages" and "scene"
    seen,       \* the messages it has read
    view,       \* the boundary and the revision it has read
    batch,      \* the messages it is folding
    basis,      \* the story the model was given
    draft,      \* the revision and the story each editor has open
    edits,      \* number of saved edits
    raced       \* history: messages stored or deleted too late for a fold to notice

scene == <<boundary, revision, story, error>>
folder == <<pc, read, seen, view, batch, basis>>
vars == <<place, scene, folder, draft, edits, raced>>

View == [boundary : Messages \union {0}, revision : Nat]
NoView == [boundary |-> 0, revision |-> 0]
Story == Seq(SUBSET Messages)
NoDraft == [open |-> FALSE, revision |-> 0, story |-> <<>>]

TypeOK ==
    /\ place \in [Messages -> {"unborn", "built", "stored", "gone"}]
    /\ boundary \in Messages \union {0}
    /\ revision \in Nat
    /\ story \in Story
    /\ error \in BOOLEAN
    /\ pc \in [Folders -> {"reading", "asking", "claimed"}]
    /\ read \in [Folders -> SUBSET {"messages", "scene"}]
    /\ seen \in [Folders -> SUBSET Messages]
    /\ view \in [Folders -> View]
    /\ batch \in [Folders -> SUBSET Messages]
    /\ basis \in [Folders -> Story]
    /\ draft \in [Editors -> [open : BOOLEAN, revision : Nat, story : Story]]
    /\ edits \in 0..MaxEdits
    /\ raced \subseteq Messages

Init ==
    /\ place = [m \in Messages |-> "unborn"]
    /\ boundary = 0 /\ revision = 0 /\ story = <<>> /\ error = FALSE
    /\ pc = [f \in Folders |-> "reading"]
    /\ read = [f \in Folders |-> {}]
    /\ seen = [f \in Folders |-> {}]
    /\ view = [f \in Folders |-> NoView]
    /\ batch = [f \in Folders |-> {}]
    /\ basis = [f \in Folders |-> <<>>]
    /\ draft = [e \in Editors |-> NoDraft]
    /\ edits = 0
    /\ raced = {}

Stored == {m \in Messages : place[m] = "stored"}
\* Faulty variant of After: the boundary message counts as raw once more.
AfterInclusive(b, messages) == {m \in messages : m >= b}
\* messages_after_compression_boundary, for a boundary that is there
After(b, messages) == {m \in messages : m > b}
Dangling(b, messages) == b # 0 /\ b \notin messages

-----------------------------------------------------------------------------
(* The messages of the room.                                               *)

Newborn(m) == place[m] = "unborn" /\ \A k \in Messages : k < m => place[k] # "unborn"
\* A fold has got past the point where it would notice a change before or at m.
Overtaken(m) ==
    boundary >= m \/ \E f \in Folders : pc[f] = "claimed" /\ \E k \in batch[f] : k >= m

\* An incoming message is stored as it comes.
Say(m) ==
    /\ Newborn(m)
    /\ place' = [place EXCEPT ![m] = "stored"]
    /\ UNCHANGED <<scene, folder, draft, edits, raced>>

\* A generation builds a reply; post-processing commands may take their time with it.
BuildReply(m) ==
    /\ Newborn(m)
    /\ place' = [place EXCEPT ![m] = "built"]
    /\ UNCHANGED <<scene, folder, draft, edits, raced>>

StoreReply(m) ==
    /\ place[m] = "built"
    /\ place' = [place EXCEPT ![m] = "stored"]
    /\ raced' = IF Overtaken(m) THEN raced \union {m} ELSE raced
    /\ UNCHANGED <<scene, folder, draft, edits>>

\* The generation fails or is cancelled after the reply was built.
DropReply(m) ==
    /\ place[m] = "built"
    /\ place' = [place EXCEPT ![m] = "gone"]
    /\ UNCHANGED <<scene, folder, draft, edits, raced>>

\* delete_message and delete_messages leave the scene alone.
DeleteMessage(m) ==
    /\ place[m] = "stored"
    /\ place' = [place EXCEPT ![m] = "gone"]
    /\ raced' = IF Overtaken(m) THEN raced \union {m} ELSE raced
    /\ UNCHANGED <<scene, folder, draft, edits>>

-----------------------------------------------------------------------------
(* Folders.                                                                *)

Rest(f) ==
    /\ pc' = [pc EXCEPT ![f] = "reading"]
    /\ read' = [read EXCEPT ![f] = {}]
    /\ seen' = [seen EXCEPT ![f] = {}]
    /\ view' = [view EXCEPT ![f] = NoView]
    /\ batch' = [batch EXCEPT ![f] = {}]
    /\ basis' = [basis EXCEPT ![f] = <<>>]

\* The callers read the scene and the messages in one order or the other.
ReadMessages(f) ==
    /\ pc[f] = "reading" /\ "messages" \notin read[f]
    /\ read' = [read EXCEPT ![f] = @ \union {"messages"}]
    /\ seen' = [seen EXCEPT ![f] = Stored]
    /\ UNCHANGED <<place, scene, pc, view, batch, basis, draft, edits, raced>>

ReadScene(f) ==
    /\ pc[f] = "reading" /\ "scene" \notin read[f]
    /\ read' = [read EXCEPT ![f] = @ \union {"scene"}]
    /\ view' = [view EXCEPT ![f] = [boundary |-> boundary, revision |-> revision]]
    /\ UNCHANGED <<place, scene, pc, seen, batch, basis, draft, edits, raced>>

Ready(f) == pc[f] = "reading" /\ read[f] = {"messages", "scene"}

\* "compression boundary message is missing"
RefuseBoundary(f) ==
    /\ Ready(f)
    /\ Dangling(view[f].boundary, seen[f])
    /\ error' = TRUE
    /\ Rest(f)
    /\ UNCHANGED <<place, boundary, revision, story, draft, edits, raced>>

\* Nothing is foldable.
LeaveRaw(f) ==
    /\ Ready(f)
    /\ ~Dangling(view[f].boundary, seen[f])
    /\ error' = FALSE
    /\ Rest(f)
    /\ UNCHANGED <<place, boundary, revision, story, draft, edits, raced>>

\* Select a batch, note the attempt, refresh the scene and ask the model.
Ask(f) ==
    /\ Ready(f)
    /\ ~Dangling(view[f].boundary, seen[f])
    /\ \E last, newer \in After(view[f].boundary, seen[f]) :
          /\ last < newer
          /\ batch' = [batch EXCEPT ![f] = {m \in After(view[f].boundary, seen[f]) : m <= last}]
    /\ pc' = [pc EXCEPT ![f] = "asking"]
    /\ basis' = [basis EXCEPT ![f] = story]
    /\ UNCHANGED <<place, scene, read, seen, view, draft, edits, raced>>

\* Neither the model nor its fallback gives a valid summary; the old one is kept.
AnswerBad(f) ==
    /\ pc[f] = "asking"
    /\ error' = TRUE
    /\ Rest(f)
    /\ UNCHANGED <<place, boundary, revision, story, draft, edits, raced>>

\* Faulty variant of SceneAsRead: only folds move the boundary, edits go unnoticed.
BoundaryAsRead(f) == view[f].boundary = boundary
SceneAsRead(f) == view[f] = [boundary |-> boundary, revision |-> revision]
\* Faulty variant of PrefixAsRead: it is enough that the last message of the batch is there.
SourceStored(f) == Max(batch[f]) \in Stored
\* The first messages after the boundary are still those of the batch.
PrefixAsRead(f) ==
    /\ ~Dangling(boundary, Stored)
    /\ \E last \in batch[f] : {m \in After(boundary, Stored) : m <= last} = batch[f]

\* _claim_compression_result
Claim(f) ==
    /\ pc[f] = "asking"
    /\ SceneAsRead(f) /\ PrefixAsRead(f)
    /\ pc' = [pc EXCEPT ![f] = "claimed"]
    /\ UNCHANGED <<place, scene, read, seen, view, batch, basis, draft, edits, raced>>

Refuse(f) ==
    /\ pc[f] = "asking"
    /\ ~(SceneAsRead(f) /\ PrefixAsRead(f))
    /\ Rest(f)
    /\ UNCHANGED <<place, scene, draft, edits, raced>>

\* The conditional UPDATE, and the commit.
Fold(f) ==
    /\ pc[f] = "claimed"
    /\ SceneAsRead(f)
    /\ story' = Append(basis[f], batch[f])
    /\ boundary' = Max(batch[f])
    /\ revision' = revision + 1
    /\ error' = FALSE
    /\ Rest(f)
    /\ UNCHANGED <<place, draft, edits, raced>>

LoseRace(f) ==
    /\ pc[f] = "claimed"
    /\ ~SceneAsRead(f)
    /\ Rest(f)
    /\ UNCHANGED <<place, scene, draft, edits, raced>>

\* The process ends or the request is abandoned.
Interrupt(f) ==
    /\ pc[f] # "reading" \/ read[f] # {}
    /\ Rest(f)
    /\ UNCHANGED <<place, scene, draft, edits, raced>>

-----------------------------------------------------------------------------
(* Editors of the summary.                                                 *)

OpenDraft(e) ==
    /\ draft' = [draft EXCEPT ![e] = [open |-> TRUE, revision |-> revision, story |-> story]]
    /\ UNCHANGED <<place, scene, folder, edits, raced>>

\* update_scene_summary_manually; a conflict is reported and changes nothing.
SaveDraft(e) ==
    /\ draft[e].open /\ edits < MaxEdits
    /\ draft[e].revision = revision
    /\ story' = Append(draft[e].story, {})
    /\ revision' = revision + 1
    /\ error' = FALSE
    /\ draft' = [draft EXCEPT ![e] = NoDraft]
    /\ edits' = edits + 1
    /\ UNCHANGED <<place, boundary, folder, raced>>

FolderStep(f) ==
    \/ ReadMessages(f) \/ ReadScene(f)
    \/ RefuseBoundary(f) \/ LeaveRaw(f) \/ Ask(f)
    \/ AnswerBad(f) \/ Claim(f) \/ Refuse(f)
    \/ Fold(f) \/ LoseRace(f)

Next ==
    \/ \E m \in Messages :
          Say(m) \/ BuildReply(m) \/ StoreReply(m) \/ DropReply(m) \/ DeleteMessage(m)
    \/ \E f \in Folders : FolderStep(f) \/ Interrupt(f)
    \/ \E e \in Editors : OpenDraft(e) \/ SaveDraft(e)

Spec == Init /\ [][Next]_vars
FairSpec == Spec /\ \A f \in Folders : WF_vars(FolderStep(f))

-----------------------------------------------------------------------------
(* Properties.                                                             *)

\* Whoever writes the summary has read what it replaces: nothing that a fold or an edit
\* has put into it is lost, however folds, edits and slow models overlap.
StoryKept == [][IsPrefix(story, story')]_vars

\* The folds of the summary follow each other in the order of the history, and no message
\* is told twice.
StoryInOrder ==
    \A i, j \in DOMAIN story : i < j => \A m \in story[i], k \in story[j] : m < k

Told == UNION {story[i] : i \in DOMAIN story}

\* What precedes the boundary is left out of every prompt, so it has to be in the summary:
\* all stored messages up to the boundary are told but those that were stored after a fold
\* had made its last check of them.
CoveredByStory ==
    \A m \in Stored : m <= boundary => m \in Told \union raced

\* A deleted message enters the summary only if it was deleted after that last check.
DeletedStaysOut ==
    [][story' # story => \A m \in Last(story') : place[m] = "stored" \/ m \in raced]_vars

\* ContextMaintenanceRequired is a "recoverable fail-closed generation error": a room whose
\* boundary message is gone (no generation starts there) gets out of that state.
MaintenanceRecovers == Dangling(boundary, Stored) ~> ~Dangling(boundary, Stored)
=============================================================================

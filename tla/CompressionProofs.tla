--------------------------- MODULE CompressionProofs ---------------------------
(***************************************************************************)
(* Theorems about SceneCompression, for any messages, folders and editors, *)
(* and about ContextHistory, for histories of any length, any models,      *)
(* limits and prompts.                                                     *)
(*                                                                         *)
(* The summary: the revision only grows, and grows whenever the summary    *)
(* changes, so whoever finds it unchanged has read the present summary.    *)
(* What a folder knows after its last check stays true as long as the      *)
(* scene is as it has read it, but for messages stored or deleted since.   *)
(*                                                                         *)
(* The history: what is within the reach of an earlier message is tied to  *)
(* something from that message on, and what is tied across a cut is within *)
(* a reach; so groups are turns.  The tokens of a history are as many as   *)
(* its messages at least and grow with it, so a history over the watermark *)
(* exceeds what the raw tail may keep.                                     *)
(***************************************************************************)
EXTENDS SceneCompression, ContextHistory, FiniteSetTheorems, WellFoundedInduction, TLAPS


-----------------------------------------------------------------------------
(* Types.  The boundary is the last message of a batch: it has to have one. *)

HasLast(f) == \E last \in batch[f] : \A m \in batch[f] : m <= last
TypeInv == TypeOK /\ \A f \in Folders : pc[f] = "claimed" => HasLast(f)

\* The maximum of a set of messages that has a last one is that one.
LEMMA MaxOfBatch ==
    ASSUME NEW S, S \subseteq Messages, NEW last \in S, \A m \in S : m <= last
    PROVE  Max(S) = last
  <1>1. \A m \in S : last >= m
    BY SceneAssumption
  <1>2. Max(S) \in S /\ \A m \in S : Max(S) >= m
    BY <1>1 DEF Max
  <1>3. Max(S) \in Nat /\ last \in Nat
    BY <1>2, SceneAssumption
  <1>4. Max(S) <= last /\ Max(S) >= last
    BY <1>2
  <1> QED
    BY <1>3, <1>4

\* A folder at rest keeps the types of the variables of folders.
LEMMA RestTypes ==
    ASSUME TypeInv, NEW f \in Folders, Rest(f)
    PROVE  /\ pc' \in [Folders -> {"reading", "asking", "claimed"}]
           /\ read' \in [Folders -> SUBSET {"messages", "scene"}]
           /\ seen' \in [Folders -> SUBSET Messages]
           /\ view' \in [Folders -> View]
           /\ batch' \in [Folders -> SUBSET Messages]
           /\ basis' \in [Folders -> Story]
           /\ \A g \in Folders : pc'[g] = "claimed" => HasLast(g)'
  <1> USE DEF TypeInv, TypeOK, Rest
  <1>1. NoView \in View
    BY DEF NoView, View
  <1>2. <<>> \in Story
    BY DEF Story
  <1>3. \A g \in Folders : pc'[g] = "claimed" => HasLast(g)'
    BY DEF HasLast
  <1> QED
    BY <1>1, <1>2, <1>3

LEMMA TypeInit == Init => TypeInv
  <1> SUFFICES ASSUME Init
               PROVE  TypeInv
    OBVIOUS
  <1>1. <<>> \in Story /\ NoView \in View
        /\ NoDraft \in [open : BOOLEAN, revision : Nat, story : Story]
    BY DEF Story, NoView, View, NoDraft
  <1>2. error \in BOOLEAN
    BY DEF Init
  <1>3. revision \in Nat /\ edits \in 0..MaxEdits /\ boundary \in Messages \union {0}
    BY SceneAssumption DEF Init
  <1>4. TypeOK
    BY <1>1, <1>2, <1>3 DEF Init, TypeOK
  <1> QED
    BY <1>4 DEF Init, TypeInv

LEMMA TypeStep == TypeInv /\ [Next]_vars => TypeInv'
  <1> SUFFICES ASSUME TypeInv, [Next]_vars
               PROVE  TypeInv'
    OBVIOUS
  <1> USE SceneAssumption DEF TypeInv, TypeOK
  <1>1. ASSUME NEW m \in Messages,
               Say(m) \/ BuildReply(m) \/ StoreReply(m) \/ DropReply(m) \/ DeleteMessage(m)
        PROVE  TypeInv'
    <2>1. place' \in [Messages -> {"unborn", "built", "stored", "gone"}] /\ raced' \subseteq Messages
      BY <1>1 DEF Say, BuildReply, StoreReply, DropReply, DeleteMessage
    <2>2. UNCHANGED <<scene, folder, draft, edits>>
      BY <1>1, Zenon DEF Say, BuildReply, StoreReply, DropReply, DeleteMessage
    <2>3. \A f \in Folders : pc'[f] = "claimed" => HasLast(f)'
      BY <2>2 DEF folder, HasLast
    <2> QED
      BY <2>1, <2>2, <2>3 DEF scene, folder
  <1>2. ASSUME NEW f \in Folders, ReadMessages(f) \/ ReadScene(f)
        PROVE  TypeInv'
    <2>1. [boundary |-> boundary, revision |-> revision] \in View
      BY DEF View
    <2>2. read[f] \union {"messages"} \in SUBSET {"messages", "scene"}
          /\ read[f] \union {"scene"} \in SUBSET {"messages", "scene"}
      OBVIOUS
    <2>3. Stored \in SUBSET Messages
      BY DEF Stored
    <2>4. CASE ReadMessages(f)
      BY <2>2, <2>3, <2>4 DEF ReadMessages, scene, HasLast
    <2>5. CASE ReadScene(f)
      BY <2>1, <2>2, <2>5 DEF ReadScene, scene, HasLast
    <2> QED
      BY <1>2, <2>4, <2>5
  <1>3. ASSUME NEW f \in Folders, RefuseBoundary(f) \/ LeaveRaw(f) \/ AnswerBad(f)
        PROVE  TypeInv'
    BY <1>3, RestTypes DEF RefuseBoundary, LeaveRaw, AnswerBad
  <1>4. ASSUME NEW f \in Folders, Ask(f)
        PROVE  TypeInv'
    BY <1>4 DEF Ask, After, scene, HasLast
  <1>5. ASSUME NEW f \in Folders, Claim(f)
        PROVE  TypeInv'
    <2>1. HasLast(f)
      BY <1>5 DEF Claim, PrefixAsRead, After, HasLast
    <2> QED
      BY <1>5, <2>1 DEF Claim, scene, HasLast
  <1>6. ASSUME NEW f \in Folders, Refuse(f) \/ LoseRace(f) \/ Interrupt(f)
        PROVE  TypeInv'
    BY <1>6, RestTypes DEF Refuse, LoseRace, Interrupt, scene
  <1>7. ASSUME NEW f \in Folders, Fold(f)
        PROVE  TypeInv'
    <2>1. boundary' \in Messages
      <3>1. pc[f] = "claimed" /\ boundary' = Max(batch[f]) /\ batch[f] \subseteq Messages
        BY <1>7 DEF Fold
      <3>2. PICK last \in batch[f] : \A m \in batch[f] : m <= last
        BY <3>1 DEF HasLast
      <3>3. Max(batch[f]) = last
        BY <3>1, <3>2, MaxOfBatch
      <3> QED
        BY <3>1, <3>3
    <2>2. story' \in Story
      BY <1>7 DEF Fold, Story
    <2>3. revision' \in Nat
      BY <1>7 DEF Fold
    <2>4. error' \in BOOLEAN
      BY <1>7, Zenon DEF Fold
    <2>5. Rest(f) /\ UNCHANGED <<place, draft, edits, raced>>
      BY <1>7, Zenon DEF Fold
    <2> QED
      BY <2>1, <2>2, <2>3, <2>4, <2>5, RestTypes
  <1>8. ASSUME NEW e \in Editors, OpenDraft(e)
        PROVE  TypeInv'
    BY <1>8 DEF OpenDraft, scene, folder, HasLast
  <1>9. ASSUME NEW e \in Editors, SaveDraft(e)
        PROVE  TypeInv'
    <2>1. story' \in Story
      BY <1>9 DEF SaveDraft, Story
    <2>2. NoDraft \in [open : BOOLEAN, revision : Nat, story : Story]
      BY DEF NoDraft, Story
    <2>3. draft' \in [Editors -> [open : BOOLEAN, revision : Nat, story : Story]]
      BY <1>9, <2>2 DEF SaveDraft
    <2>4. revision' \in Nat /\ edits' \in 0..MaxEdits
      BY <1>9 DEF SaveDraft
    <2>7. error' \in BOOLEAN
      BY <1>9, Zenon DEF SaveDraft
    <2>5. UNCHANGED <<place, boundary, folder, raced>>
      BY <1>9 DEF SaveDraft
    <2>6. TypeOK'
      BY <2>1, <2>3, <2>4, <2>5, <2>7 DEF folder
    <2> QED
      BY <2>5, <2>6 DEF folder, HasLast
  <1>10. CASE UNCHANGED vars
    BY <1>10 DEF vars, scene, folder, HasLast
  <1> QED
    BY <1>1, <1>2, <1>3, <1>4, <1>5, <1>6, <1>7, <1>8, <1>9, <1>10 DEF Next, FolderStep

\* Every variable of the specification keeps its type, in rooms of any size.
THEOREM TypeCorrect == Spec => []TypeOK
  <1>1. Spec => []TypeInv
    BY TypeInit, TypeStep, PTL DEF Spec
  <1>2. TypeInv => TypeOK
    BY DEF TypeInv
  <1> QED
    BY <1>1, <1>2, PTL

-----------------------------------------------------------------------------
(* Nothing is lost from the summary.                                       *)

\* What a reader has read is the present summary if the revision has not moved.
FoldersRead ==
    \A f \in Folders :
        /\ view[f].revision <= revision
        /\ pc[f] # "reading" /\ view[f].revision = revision => basis[f] = story
DraftsRead ==
    \A e \in Editors :
        /\ draft[e].revision <= revision
        /\ draft[e].open /\ draft[e].revision = revision => draft[e].story = story
ReadersInv == FoldersRead /\ DraftsRead

LEMMA ReadersInit == Init => ReadersInv
  BY DEF Init, ReadersInv, FoldersRead, DraftsRead, NoView, NoDraft

\* A folder that gives up leaves every reader with what it has read.
LEMMA RestReaders ==
    ASSUME TypeInv, ReadersInv, NEW f \in Folders, Rest(f),
           UNCHANGED <<revision, story, draft>>
    PROVE  ReadersInv'
  BY DEF TypeInv, TypeOK, ReadersInv, FoldersRead, DraftsRead, Rest, NoView

LEMMA ReadersStep == TypeInv /\ ReadersInv /\ [Next]_vars => ReadersInv'
  <1> SUFFICES ASSUME TypeInv, ReadersInv, [Next]_vars
               PROVE  ReadersInv'
    OBVIOUS
  <1>1. ASSUME NEW m \in Messages,
               Say(m) \/ BuildReply(m) \/ StoreReply(m) \/ DropReply(m) \/ DeleteMessage(m)
        PROVE  ReadersInv'
    BY <1>1 DEF Say, BuildReply, StoreReply, DropReply, DeleteMessage, scene, folder,
                ReadersInv, FoldersRead, DraftsRead
  <1>2. ASSUME NEW f \in Folders, ReadMessages(f)
        PROVE  ReadersInv'
    BY <1>2 DEF ReadMessages, scene, ReadersInv, FoldersRead, DraftsRead
  <1>3. ASSUME NEW f \in Folders, ReadScene(f)
        PROVE  ReadersInv'
    BY <1>3 DEF TypeInv, TypeOK, ReadScene, scene, ReadersInv, FoldersRead, DraftsRead
  <1>4. ASSUME NEW f \in Folders, Ask(f)
        PROVE  ReadersInv'
    BY <1>4 DEF TypeInv, TypeOK, Ask, scene, ReadersInv, FoldersRead, DraftsRead
  <1>5. ASSUME NEW f \in Folders, Claim(f)
        PROVE  ReadersInv'
    BY <1>5 DEF TypeInv, TypeOK, Claim, scene, ReadersInv, FoldersRead, DraftsRead
  <1>6. ASSUME NEW f \in Folders,
               \/ RefuseBoundary(f) \/ LeaveRaw(f) \/ AnswerBad(f)
               \/ Refuse(f) \/ LoseRace(f) \/ Interrupt(f)
        PROVE  ReadersInv'
    BY <1>6, RestReaders DEF RefuseBoundary, LeaveRaw, AnswerBad, Refuse, LoseRace, Interrupt, scene
  <1>7. ASSUME NEW f \in Folders, Fold(f)
        PROVE  ReadersInv'
    <2>1. \A g \in Folders : view[g].revision \in Nat /\ (g # f => view'[g] = view[g])
      BY <1>7 DEF TypeInv, TypeOK, View, Fold, Rest
    <2>2. view'[f].revision = 0
      BY <1>7 DEF TypeInv, TypeOK, Fold, Rest, NoView
    <2>3. \A e \in Editors : draft'[e] = draft[e] /\ draft[e].revision \in Nat
      BY <1>7 DEF TypeInv, TypeOK, Fold
    <2>4. revision \in Nat /\ revision' = revision + 1
      BY <1>7 DEF TypeInv, TypeOK, Fold
    <2>5. \A g \in Folders : view'[g].revision < revision'
      BY <2>1, <2>2, <2>4 DEF ReadersInv, FoldersRead
    <2>6. \A e \in Editors : draft'[e].revision < revision'
      BY <2>3, <2>4 DEF ReadersInv, DraftsRead
    <2>7. \A g \in Folders : view'[g].revision \in Nat
      BY <2>1, <2>2
    <2> QED
      BY <2>3, <2>4, <2>5, <2>6, <2>7 DEF ReadersInv, FoldersRead, DraftsRead
  <1>8. ASSUME NEW e \in Editors, OpenDraft(e)
        PROVE  ReadersInv'
    BY <1>8 DEF TypeInv, TypeOK, OpenDraft, scene, folder, ReadersInv, FoldersRead, DraftsRead
  <1>9. ASSUME NEW e \in Editors, SaveDraft(e)
        PROVE  ReadersInv'
    <2>1. \A g \in Folders : view'[g] = view[g] /\ view[g].revision \in Nat
      BY <1>9 DEF TypeInv, TypeOK, View, SaveDraft, folder
    <2>2. \A d \in Editors : draft[d].revision \in Nat /\ (d # e => draft'[d] = draft[d])
      BY <1>9 DEF TypeInv, TypeOK, SaveDraft
    <2>3. draft'[e].revision = 0
      BY <1>9 DEF TypeInv, TypeOK, SaveDraft, NoDraft
    <2>4. revision \in Nat /\ revision' = revision + 1
      BY <1>9 DEF TypeInv, TypeOK, SaveDraft
    <2>5. \A g \in Folders : view'[g].revision < revision'
      BY <2>1, <2>4 DEF ReadersInv, FoldersRead
    <2>6. \A d \in Editors : draft'[d].revision < revision' /\ draft'[d].revision \in Nat
      BY <2>2, <2>3, <2>4 DEF ReadersInv, DraftsRead
    <2> QED
      BY <2>1, <2>4, <2>5, <2>6 DEF ReadersInv, FoldersRead, DraftsRead
  <1>10. CASE UNCHANGED vars
    BY <1>10 DEF vars, scene, folder, ReadersInv, FoldersRead, DraftsRead
  <1> QED
    BY <1>1, <1>2, <1>3, <1>4, <1>5, <1>6, <1>7, <1>8, <1>9, <1>10 DEF Next, FolderStep

LEMMA AppendExtends ==
    ASSUME NEW s \in Story, NEW chapter
    PROVE  IsPrefix(s, s) /\ IsPrefix(s, Append(s, chapter))
  BY DEF IsPrefix, Story

\* The step that changes the summary appends to the summary that is there.
LEMMA WritersAppend ==
    ASSUME TypeInv, ReadersInv, [Next]_vars
    PROVE  story' = story \/ \E chapter \in SUBSET Messages : story' = Append(story, chapter)
  <1>1. ASSUME NEW f \in Folders, Fold(f)
        PROVE  story' = Append(story, batch[f]) /\ batch[f] \in SUBSET Messages
    <2>1. story' = Append(basis[f], batch[f])
          /\ pc[f] = "claimed"
          /\ view[f] = [boundary |-> boundary, revision |-> revision]
      BY <1>1, Zenon DEF Fold, SceneAsRead
    <2>2. basis[f] = story
      BY <2>1 DEF ReadersInv, FoldersRead
    <2>3. batch[f] \in SUBSET Messages
      BY DEF TypeInv, TypeOK
    <2> QED
      BY <2>1, <2>2, <2>3
  <1>2. ASSUME NEW e \in Editors, SaveDraft(e)
        PROVE  story' = Append(story, {})
    BY <1>2 DEF SaveDraft, ReadersInv, DraftsRead
  <1>3. ASSUME NEW f \in Folders, FolderStep(f) \/ Interrupt(f), ~Fold(f)
        PROVE  story' = story
    BY <1>3 DEF FolderStep, ReadMessages, ReadScene, RefuseBoundary, LeaveRaw, Ask, AnswerBad,
                Claim, Refuse, LoseRace, Interrupt, scene
  <1>4. ASSUME \/ UNCHANGED vars
               \/ \E e \in Editors : OpenDraft(e)
               \/ \E m \in Messages : Say(m) \/ BuildReply(m) \/ StoreReply(m) \/ DropReply(m)
                                      \/ DeleteMessage(m)
        PROVE  story' = story
    BY <1>4 DEF vars, scene, OpenDraft, Say, BuildReply, StoreReply, DropReply, DeleteMessage
  <1> QED
    BY <1>1, <1>2, <1>3, <1>4 DEF Next

\* No fold and no edit ever drops what another one has put into the summary, for any number
\* of folders and editors and any delay between what they read and what they write.
THEOREM NothingIsLost == Spec => StoryKept
  <1>1. Spec => [](TypeInv /\ ReadersInv)
    BY TypeInit, TypeStep, ReadersInit, ReadersStep, PTL DEF Spec
  <1>2. TypeInv /\ ReadersInv /\ [Next]_vars => [IsPrefix(story, story')]_vars
    <2> SUFFICES ASSUME TypeInv, ReadersInv, [Next]_vars
                 PROVE  IsPrefix(story, story')
      OBVIOUS
    <2>1. story \in Story
      BY DEF TypeInv, TypeOK
    <2> QED
      BY <2>1, WritersAppend, AppendExtends
  <1> QED
    BY <1>1, <1>2, PTL DEF Spec, StoryKept

-----------------------------------------------------------------------------
(* Nothing is skipped, told twice or told after its deletion.              *)

Born == {m \in Messages : place[m] # "unborn"}

\* Messages are born in their order; nobody has read one that is not.
BornInOrder ==
    /\ \A m \in Born : \A k \in Messages : k < m => k \in Born
    /\ boundary # 0 => boundary \in Born
    /\ \A f \in Folders : seen[f] \subseteq Born /\ batch[f] \subseteq Born

\* A batch follows the boundary its folder has read.
BatchFollows ==
    \A f \in Folders : pc[f] # "reading" => \A m \in batch[f] : m > view[f].boundary

\* A claimed batch held, at the check, every stored message from the boundary to its last.
BatchWhole(f) ==
    \A m \in Stored : (\E k \in batch[f] : m <= k) => m \in Told \union batch[f] \union raced
ClaimedBatch ==
    \A f \in Folders : pc[f] = "claimed" =>
        /\ batch[f] \subseteq Stored \union raced
        /\ SceneAsRead(f) => BatchWhole(f)

StoryBounded == \A i \in DOMAIN story : \A m \in story[i] : m <= boundary

SummaryInv == StoryBounded /\ StoryInOrder /\ CoveredByStory /\ ClaimedBatch
Inv == TypeInv /\ ReadersInv /\ BornInOrder /\ BatchFollows

LEMMA BornInit == Init => BornInOrder /\ BatchFollows
  BY DEF Init, BornInOrder, BatchFollows, Born

LEMMA BornStep == TypeInv /\ BornInOrder /\ [Next]_vars => BornInOrder'
  <1> SUFFICES ASSUME TypeInv, BornInOrder, [Next]_vars
               PROVE  BornInOrder'
    OBVIOUS
  <1>1. ASSUME NEW m \in Messages, Say(m) \/ BuildReply(m)
        PROVE  BornInOrder'
    <2>1. Born' = Born \union {m} /\ \A k \in Messages : k < m => k \in Born
      BY <1>1 DEF TypeInv, TypeOK, Say, BuildReply, Newborn, Born
    <2>2. UNCHANGED <<boundary, seen, batch>>
      BY <1>1 DEF Say, BuildReply, scene, folder
    <2> QED
      BY <2>1, <2>2 DEF BornInOrder
  <1>2. ASSUME NEW m \in Messages, StoreReply(m) \/ DropReply(m) \/ DeleteMessage(m)
        PROVE  BornInOrder'
    <2>1. Born' = Born
      BY <1>2 DEF TypeInv, TypeOK, StoreReply, DropReply, DeleteMessage, Born
    <2>2. UNCHANGED <<boundary, seen, batch>>
      BY <1>2 DEF StoreReply, DropReply, DeleteMessage, scene, folder
    <2> QED
      BY <2>1, <2>2 DEF BornInOrder
  <1>3. ASSUME NEW f \in Folders, ReadMessages(f) \/ ReadScene(f) \/ Ask(f) \/ Claim(f)
        PROVE  BornInOrder'
    <2>1. Stored \subseteq Born
      BY DEF Stored, Born
    <2>2. \A g \in Folders : seen'[g] \subseteq Born /\ batch'[g] \subseteq Born
      BY <1>3, <2>1 DEF TypeInv, TypeOK, BornInOrder, ReadMessages, ReadScene, Ask, Claim, After
    <2>3. Born' = Born /\ boundary' = boundary
      BY <1>3 DEF ReadMessages, ReadScene, Ask, Claim, scene, Born
    <2> QED
      BY <2>2, <2>3 DEF BornInOrder
  <1>4. ASSUME NEW f \in Folders, Rest(f), place' = place, boundary' \in Born \union {0, boundary}
        PROVE  BornInOrder'
    <2>1. \A g \in Folders : seen'[g] \subseteq Born /\ batch'[g] \subseteq Born
      BY <1>4 DEF TypeInv, TypeOK, BornInOrder, Rest
    <2>2. Born' = Born
      BY <1>4 DEF Born
    <2> QED
      BY <1>4, <2>1, <2>2 DEF BornInOrder
  <1>5. ASSUME NEW f \in Folders,
               \/ RefuseBoundary(f) \/ LeaveRaw(f) \/ AnswerBad(f)
               \/ Refuse(f) \/ LoseRace(f) \/ Interrupt(f)
        PROVE  BornInOrder'
    BY <1>4, <1>5 DEF RefuseBoundary, LeaveRaw, AnswerBad, Refuse, LoseRace, Interrupt, scene
  <1>6. ASSUME NEW f \in Folders, Fold(f)
        PROVE  BornInOrder'
    <2>1. boundary' \in batch[f]
      BY <1>6, MaxOfBatch DEF TypeInv, TypeOK, HasLast, Fold
    <2>2. boundary' \in Born
      BY <2>1 DEF BornInOrder
    <2> QED
      BY <1>4, <1>6, <2>2 DEF Fold
  <1>7. ASSUME NEW e \in Editors, OpenDraft(e) \/ SaveDraft(e)
        PROVE  BornInOrder'
    BY <1>7 DEF OpenDraft, SaveDraft, scene, folder, BornInOrder, Born
  <1>8. CASE UNCHANGED vars
    BY <1>8 DEF vars, scene, folder, BornInOrder, Born
  <1> QED
    BY <1>1, <1>2, <1>3, <1>5, <1>6, <1>7, <1>8 DEF Next, FolderStep

LEMMA FollowsStep == TypeInv /\ BatchFollows /\ [Next]_vars => BatchFollows'
  <1> SUFFICES ASSUME TypeInv, BatchFollows, [Next]_vars
               PROVE  BatchFollows'
    OBVIOUS
  <1>1. ASSUME NEW f \in Folders, Rest(f)
        PROVE  BatchFollows'
    BY <1>1 DEF TypeInv, TypeOK, Rest, BatchFollows
  <1>2. ASSUME NEW f \in Folders, ReadMessages(f) \/ ReadScene(f)
        PROVE  BatchFollows'
    BY <1>2 DEF TypeInv, TypeOK, ReadMessages, ReadScene, BatchFollows
  <1>3. ASSUME NEW f \in Folders, Ask(f)
        PROVE  BatchFollows'
    BY <1>3 DEF TypeInv, TypeOK, Ask, After, BatchFollows
  <1>4. ASSUME NEW f \in Folders, Claim(f)
        PROVE  BatchFollows'
    BY <1>4 DEF TypeInv, TypeOK, Claim, BatchFollows
  <1>5. CASE UNCHANGED folder
    BY <1>5 DEF folder, BatchFollows
  <1>6. \/ UNCHANGED folder
        \/ \E f \in Folders : Rest(f) \/ ReadMessages(f) \/ ReadScene(f) \/ Ask(f) \/ Claim(f)
    BY DEF Next, FolderStep, vars, Say, BuildReply, StoreReply, DropReply, DeleteMessage,
           RefuseBoundary, LeaveRaw, AnswerBad, Refuse, Fold, LoseRace, Interrupt, OpenDraft, SaveDraft
  <1> QED
    BY <1>1, <1>2, <1>3, <1>4, <1>5, <1>6

LEMMA MessagesAreNumbers ==
    /\ Messages \subseteq Nat
    /\ TypeOK => boundary \in Nat
  <1>1. Messages \subseteq Nat
    BY SceneAssumption
  <1>2. ASSUME TypeOK
        PROVE  boundary \in Nat
    <2>1. CASE boundary \in Messages
      BY <1>1, <2>1
    <2>2. CASE boundary = 0
      BY <2>2
    <2> QED
      BY <1>2, <2>1, <2>2 DEF TypeOK
  <1> QED
    BY <1>1, <1>2

\* Steps that leave the summary, the messages and every claimed folder alone.
LEMMA QuietStep ==
    ASSUME SummaryInv, UNCHANGED <<place, boundary, revision, story, raced>>,
           \A g \in Folders : pc'[g] = "claimed" =>
               pc[g] = "claimed" /\ batch'[g] = batch[g] /\ view'[g] = view[g]
    PROVE  SummaryInv'
  <1>1. Stored' = Stored /\ Told' = Told
    BY DEF Stored, Told
  <1>2. \A g \in Folders : pc'[g] = "claimed" =>
            (SceneAsRead(g)' <=> SceneAsRead(g)) /\ (BatchWhole(g)' <=> BatchWhole(g))
    BY <1>1 DEF SceneAsRead, BatchWhole
  <1>3. ClaimedBatch'
    BY <1>1, <1>2 DEF SummaryInv, ClaimedBatch
  <1> QED
    BY <1>1, <1>3 DEF SummaryInv, StoryBounded, StoryInOrder, CoveredByStory

\* Steps of messages: one that was not stored comes before nothing that is read or folded,
\* or is raced; one that is deleted under a claimed batch is raced.
LEMMA MessageStep ==
    ASSUME SummaryInv, UNCHANGED <<scene, folder>>, raced \subseteq raced',
           \A m \in Stored' : m \notin Stored /\ m <= boundary => m \in raced',
           \A g \in Folders : pc[g] = "claimed" =>
               /\ \A m \in Stored' : \A k \in batch[g] : m \notin Stored /\ m <= k => m \in raced'
               /\ batch[g] \subseteq Stored' \union raced'
    PROVE  SummaryInv'
  <1>1. Told' = Told /\ boundary' = boundary /\ story' = story /\ batch' = batch /\ pc' = pc
    BY DEF Told, scene, folder
  <1>2. CoveredByStory'
    BY <1>1 DEF SummaryInv, CoveredByStory
  <1>3. \A g \in Folders : SceneAsRead(g)' <=> SceneAsRead(g)
    BY DEF SceneAsRead, scene, folder
  <1>4. \A g \in Folders : pc[g] = "claimed" /\ BatchWhole(g) => BatchWhole(g)'
    BY <1>1 DEF BatchWhole
  <1>5. ClaimedBatch'
    BY <1>1, <1>3, <1>4 DEF SummaryInv, ClaimedBatch
  <1> QED
    BY <1>1, <1>2, <1>5 DEF SummaryInv, StoryBounded, StoryInOrder

LEMMA ToldAppend ==
    ASSUME story \in Story, NEW chapter \in SUBSET Messages, story' = Append(story, chapter)
    PROVE  /\ Told' = Told \union chapter
           /\ DOMAIN story' = 1..(Len(story) + 1)
           /\ \A i \in DOMAIN story : i \in 1..Len(story) /\ story'[i] = story[i]
           /\ story'[Len(story) + 1] = chapter
  <1>1. /\ DOMAIN story' = 1..(Len(story) + 1)
        /\ DOMAIN story = 1..Len(story) /\ Len(story) \in Nat
        /\ \A i \in 1..Len(story) : story'[i] = story[i]
        /\ story'[Len(story) + 1] = chapter
    BY DEF Story
  <1>2. Told' = Told \union chapter
    <2>1. ASSUME NEW x \in Told'
          PROVE  x \in Told \union chapter
      <3>1. PICK i \in 1..(Len(story) + 1) : x \in story'[i]
        BY <1>1, <2>1 DEF Told
      <3>2. i \in 1..Len(story) \/ i = Len(story) + 1
        BY <1>1
      <3> QED
        BY <1>1, <3>1, <3>2 DEF Told
    <2>2. ASSUME NEW x \in Told \union chapter
          PROVE  x \in Told'
      <3>1. CASE x \in chapter
        <4>1. Len(story) + 1 \in DOMAIN story'
          BY <1>1
        <4> QED
          BY <1>1, <3>1, <4>1 DEF Told
      <3>2. CASE x \in Told
        <4>1. PICK i \in 1..Len(story) : x \in story[i]
          BY <1>1, <3>2 DEF Told
        <4>2. i \in DOMAIN story' /\ story'[i] = story[i]
          BY <1>1
        <4> QED
          BY <4>1, <4>2 DEF Told
      <3> QED
        BY <2>2, <3>1, <3>2
    <2> QED
      BY <2>1, <2>2
  <1> QED
    BY <1>1, <1>2

LEMMA SummaryInit == Init => SummaryInv
  BY DEF Init, SummaryInv, StoryBounded, StoryInOrder, CoveredByStory, ClaimedBatch, Stored

\* A write of the summary appends a chapter that follows all others and holds what is
\* stored up to the new boundary; folders that have claimed a batch lose the race.
LEMMA WriteStep ==
    ASSUME Inv, SummaryInv, NEW chapter \in SUBSET Messages,
           UNCHANGED <<place, raced>>, story' = Append(story, chapter), revision' = revision + 1,
           boundary' \in Nat, boundary <= boundary',
           \A m \in chapter : boundary < m /\ m <= boundary',
           \A m \in Stored : m <= boundary' => m \in Told \union chapter \union raced,
           \A g \in Folders : pc'[g] = "claimed" =>
               pc[g] = "claimed" /\ batch'[g] = batch[g] /\ view'[g] = view[g]
    PROVE  SummaryInv'
  <1>1. /\ Told' = Told \union chapter
        /\ DOMAIN story' = 1..(Len(story) + 1)
        /\ \A i \in DOMAIN story : i \in 1..Len(story) /\ story'[i] = story[i]
        /\ story'[Len(story) + 1] = chapter
    BY ToldAppend DEF Inv, TypeInv, TypeOK
  <1>2. DOMAIN story = 1..Len(story) /\ Len(story) \in Nat
    BY DEF Inv, TypeInv, TypeOK, Story
  <1>3. boundary \in Nat /\ \A i \in DOMAIN story : story[i] \subseteq Nat
    <2>1. TypeOK /\ story \in Seq(SUBSET Messages)
      BY DEF Inv, TypeInv, TypeOK, Story
    <2>2. \A i \in DOMAIN story : story[i] \in SUBSET Messages
      BY <2>1
    <2>3. \A i \in DOMAIN story : story[i] \subseteq Nat
      BY <2>2, MessagesAreNumbers
    <2> QED
      BY <2>1, <2>3, MessagesAreNumbers
  <1>4. chapter \subseteq Nat
    BY SceneAssumption
  <1>5. \A i \in DOMAIN story' : i \in DOMAIN story \/ i = Len(story) + 1
    BY <1>1, <1>2
  <1>6. StoryBounded'
    <2> SUFFICES ASSUME NEW i \in DOMAIN story', NEW m \in story'[i]
                 PROVE  m <= boundary'
      BY DEF StoryBounded
    <2>1. CASE i \in DOMAIN story
      BY <1>1, <1>3, <2>1 DEF SummaryInv, StoryBounded
    <2>2. CASE i = Len(story) + 1
      BY <1>1, <2>2
    <2> QED
      BY <1>5, <2>1, <2>2
  <1>7. StoryInOrder'
    <2> SUFFICES ASSUME NEW i \in DOMAIN story', NEW j \in DOMAIN story', i < j,
                        NEW m \in story'[i], NEW k \in story'[j]
                 PROVE  m < k
      BY DEF StoryInOrder
    <2>1. i \in DOMAIN story
      BY <1>1, <1>2, <1>5
    <2>2. CASE j \in DOMAIN story
      BY <1>1, <2>1, <2>2 DEF SummaryInv, StoryInOrder
    <2>3. CASE j = Len(story) + 1
      <3>1. m \in story[i] /\ k \in chapter
        BY <1>1, <2>1, <2>3
      <3>2. m <= boundary /\ boundary < k
        BY <2>1, <3>1 DEF SummaryInv, StoryBounded
      <3>3. m \in Nat /\ k \in Nat /\ boundary \in Nat
        BY <1>3, <1>4, <2>1, <3>1
      <3> QED
        BY <3>2, <3>3
    <2> QED
      BY <1>5, <2>2, <2>3
  <1>8. CoveredByStory'
    BY <1>1 DEF CoveredByStory, Stored
  <1>9. ClaimedBatch'
    <2>1. \A g \in Folders : pc'[g] = "claimed" => ~SceneAsRead(g)'
      <3> SUFFICES ASSUME NEW g \in Folders, pc'[g] = "claimed", SceneAsRead(g)'
                   PROVE  FALSE
        OBVIOUS
      <3>1. view[g].revision = revision + 1
        BY DEF SceneAsRead
      <3>2. view[g].revision <= revision /\ revision \in Nat
        BY DEF Inv, TypeInv, TypeOK, ReadersInv, FoldersRead
      <3> QED
        BY <3>1, <3>2
    <2>2. \A g \in Folders : pc'[g] = "claimed" => batch'[g] \subseteq (Stored \union raced)'
      BY DEF SummaryInv, ClaimedBatch, Stored
    <2> QED
      BY <2>1, <2>2 DEF ClaimedBatch
  <1> QED
    BY <1>6, <1>7, <1>8, <1>9 DEF SummaryInv

LEMMA SummaryStep == Inv /\ SummaryInv /\ [Next]_vars => SummaryInv'
  <1> SUFFICES ASSUME Inv, SummaryInv, [Next]_vars
               PROVE  SummaryInv'
    OBVIOUS
  <1> USE DEF Inv
  <1>0. Messages \subseteq Nat /\ boundary \in Nat /\ \A g \in Folders : batch[g] \in SUBSET Messages
    <2>1. TypeOK /\ \A g \in Folders : batch[g] \in SUBSET Messages
      BY DEF TypeInv, TypeOK
    <2> QED
      BY <2>1, MessagesAreNumbers
  <1>1. ASSUME NEW m \in Messages, Say(m) \/ BuildReply(m)
        PROVE  SummaryInv'
    <2>1. m \notin Born /\ \A k \in Born : k < m
      <3>1. m \notin Born
        BY <1>1 DEF Say, BuildReply, Newborn, Born
      <3> QED
        BY <1>0, <3>1 DEF BornInOrder, Born
    <2>2. Stored' \subseteq Stored \union {m} /\ Stored \subseteq Stored'
      BY <1>1, <2>1 DEF TypeInv, TypeOK, Say, BuildReply, Stored, Born
    <2>3. UNCHANGED <<scene, folder, raced>>
      BY <1>1 DEF Say, BuildReply
    <2>4. ~(m <= boundary) /\ \A g \in Folders : \A k \in batch[g] : ~(m <= k)
      <3>1. boundary \in Born \/ boundary = 0
        BY DEF BornInOrder
      <3>2. m > 0
        BY SceneAssumption
      <3>3. \A g \in Folders : \A k \in batch[g] : k \in Born /\ k \in Nat
        BY <1>0 DEF BornInOrder
      <3> QED
        BY <1>0, <2>1, <3>1, <3>2, <3>3
    <2>5. \A g \in Folders : pc[g] = "claimed" => batch[g] \subseteq Stored' \union raced'
      BY <2>2, <2>3 DEF SummaryInv, ClaimedBatch
    <2> QED
      BY <2>2, <2>3, <2>4, <2>5, MessageStep
  <1>2. ASSUME NEW m \in Messages, StoreReply(m)
        PROVE  SummaryInv'
    <2>1. Stored' \subseteq Stored \union {m} /\ Stored \subseteq Stored'
      BY <1>2 DEF TypeInv, TypeOK, StoreReply, Stored
    <2>2. UNCHANGED <<scene, folder>> /\ raced \subseteq raced' /\ (Overtaken(m) => m \in raced')
      BY <1>2 DEF StoreReply
    <2>3. m <= boundary => m \in raced'
      BY <1>0, <2>2 DEF Overtaken
    <2>4. \A g \in Folders : pc[g] = "claimed" => \A k \in batch[g] : m <= k => m \in raced'
      BY <1>0, <2>2 DEF Overtaken
    <2>5. \A g \in Folders : pc[g] = "claimed" => batch[g] \subseteq Stored' \union raced'
      BY <2>1, <2>2 DEF SummaryInv, ClaimedBatch
    <2> QED
      BY <2>1, <2>2, <2>3, <2>4, <2>5, MessageStep
  <1>3. ASSUME NEW m \in Messages, DropReply(m)
        PROVE  SummaryInv'
    <2>1. Stored' = Stored
      BY <1>3 DEF TypeInv, TypeOK, DropReply, Stored
    <2>2. UNCHANGED <<scene, folder, raced>>
      BY <1>3 DEF DropReply
    <2>3. \A g \in Folders : pc[g] = "claimed" => batch[g] \subseteq Stored' \union raced'
      BY <2>1, <2>2 DEF SummaryInv, ClaimedBatch
    <2> QED
      BY <2>1, <2>2, <2>3, MessageStep
  <1>4. ASSUME NEW m \in Messages, DeleteMessage(m)
        PROVE  SummaryInv'
    <2>1. Stored' = Stored \ {m}
      BY <1>4 DEF TypeInv, TypeOK, DeleteMessage, Stored
    <2>2. UNCHANGED <<scene, folder>> /\ raced \subseteq raced' /\ (Overtaken(m) => m \in raced')
      BY <1>4 DEF DeleteMessage
    <2>3. \A g \in Folders : pc[g] = "claimed" /\ m \in batch[g] => m \in raced'
      BY <1>0, <2>2 DEF Overtaken
    <2>4. \A g \in Folders : pc[g] = "claimed" => batch[g] \subseteq Stored' \union raced'
      BY <2>1, <2>2, <2>3 DEF SummaryInv, ClaimedBatch
    <2> QED
      BY <2>1, <2>2, <2>4, MessageStep
  <1>5. ASSUME NEW f \in Folders, ReadMessages(f) \/ ReadScene(f) \/ Ask(f)
        PROVE  SummaryInv'
    <2>1. UNCHANGED <<place, boundary, revision, story, raced>>
      BY <1>5 DEF ReadMessages, ReadScene, Ask, scene
    <2>2. \A g \in Folders : pc'[g] = "claimed" =>
              pc[g] = "claimed" /\ batch'[g] = batch[g] /\ view'[g] = view[g]
      BY <1>5 DEF TypeInv, TypeOK, ReadMessages, ReadScene, Ask
    <2> QED
      BY <2>1, <2>2, QuietStep
  <1>6. ASSUME NEW f \in Folders, Rest(f)
        PROVE  \A g \in Folders : pc'[g] = "claimed" =>
                  pc[g] = "claimed" /\ batch'[g] = batch[g] /\ view'[g] = view[g]
    BY <1>6 DEF TypeInv, TypeOK, Rest
  <1>7. ASSUME NEW f \in Folders,
               \/ RefuseBoundary(f) \/ LeaveRaw(f) \/ AnswerBad(f)
               \/ Refuse(f) \/ LoseRace(f) \/ Interrupt(f)
        PROVE  SummaryInv'
    <2>1. Rest(f) /\ UNCHANGED <<place, boundary, revision, story, raced>>
      BY <1>7 DEF RefuseBoundary, LeaveRaw, AnswerBad, Refuse, LoseRace, Interrupt, scene
    <2> QED
      BY <1>6, <2>1, QuietStep
  <1>8. ASSUME NEW f \in Folders, Claim(f)
        PROVE  SummaryInv'
    <2>1. PICK last \in batch[f] : {m \in After(boundary, Stored) : m <= last} = batch[f]
      BY <1>8 DEF Claim, PrefixAsRead
    <2>2. batch[f] \subseteq Stored /\ \A m \in batch[f] : m <= last
      BY <2>1 DEF After
    <2>3. \A m \in Stored : (\E k \in batch[f] : m <= k) => m \in Told \union batch[f] \union raced
      <3> SUFFICES ASSUME NEW m \in Stored, NEW k \in batch[f], m <= k
                   PROVE  m \in Told \union batch[f] \union raced
        OBVIOUS
      <3>1. m \in Nat /\ k \in Nat /\ last \in Nat
        BY <1>0 DEF Stored
      <3>2. m <= last
        BY <2>2, <3>1
      <3>3. CASE m <= boundary
        BY <3>3 DEF SummaryInv, CoveredByStory
      <3>4. CASE m > boundary
        BY <2>1, <3>2, <3>4 DEF After
      <3> QED
        BY <1>0, <3>1, <3>3, <3>4
    <2>4. UNCHANGED <<place, boundary, revision, story, raced, batch, view>>
      BY <1>8 DEF Claim, scene
    <2>5. \A g \in Folders : pc'[g] = "claimed" => pc[g] = "claimed" \/ g = f
      BY <1>8 DEF TypeInv, TypeOK, Claim
    <2>6. \A g \in Folders : (SceneAsRead(g)' <=> SceneAsRead(g)) /\ (BatchWhole(g)' <=> BatchWhole(g))
      BY <2>4 DEF SceneAsRead, BatchWhole, Stored, Told
    <2>7. BatchWhole(f)
      BY <2>3 DEF BatchWhole
    <2>8. ClaimedBatch'
      BY <2>2, <2>4, <2>5, <2>6, <2>7 DEF SummaryInv, ClaimedBatch, Stored
    <2> QED
      BY <2>4, <2>8 DEF SummaryInv, StoryBounded, StoryInOrder, CoveredByStory, Stored, Told
  <1>9. ASSUME NEW f \in Folders, Fold(f)
        PROVE  SummaryInv'
    <2>1. /\ pc[f] = "claimed" /\ SceneAsRead(f) /\ Rest(f)
          /\ story' = Append(basis[f], batch[f])
          /\ boundary' = Max(batch[f])
          /\ UNCHANGED <<place, raced>>
      BY <1>9, Zenon DEF Fold
    <2>2. revision' = revision + 1
      BY <1>9, Zenon DEF Fold
    <2>3. view[f].revision = revision /\ view[f].boundary = boundary
      BY <2>1 DEF SceneAsRead
    <2>4. basis[f] = story
      BY <2>1, <2>3 DEF ReadersInv, FoldersRead
    <2>5. boundary' \in batch[f] /\ \A m \in batch[f] : m <= boundary'
      BY <1>0, <2>1, MaxOfBatch DEF TypeInv, HasLast
    <2>6. \A m \in batch[f] : boundary < m
      BY <2>1, <2>3, <1>0 DEF BatchFollows
    <2>9. boundary' \in Nat /\ boundary < boundary'
      BY <1>0, <2>5, <2>6
    <2>7. boundary <= boundary'
      BY <1>0, <2>9
    <2>8. \A m \in Stored : m <= boundary' => m \in Told \union batch[f] \union raced
      BY <2>1, <2>5 DEF SummaryInv, ClaimedBatch, BatchWhole
    <2> QED
      BY <1>0, <1>6, <2>1, <2>2, <2>4, <2>5, <2>6, <2>7, <2>8, <2>9, WriteStep
  <1>10. ASSUME NEW e \in Editors, OpenDraft(e)
         PROVE  SummaryInv'
    BY <1>10, QuietStep DEF OpenDraft, scene, folder
  <1>11. ASSUME NEW e \in Editors, SaveDraft(e)
         PROVE  SummaryInv'
    <2>1. draft[e].open /\ draft[e].revision = revision /\ story' = Append(draft[e].story, {})
          /\ UNCHANGED <<place, boundary, folder, raced>>
      BY <1>11, Zenon DEF SaveDraft
    <2>2. revision' = revision + 1
      BY <1>11, Zenon DEF SaveDraft
    <2>3. story' = Append(story, {})
      BY <2>1 DEF ReadersInv, DraftsRead
    <2>4. \A m \in Stored : m <= boundary => m \in Told \union raced
      BY DEF SummaryInv, CoveredByStory
    <2>5. boundary' = boundary /\ boundary <= boundary
          /\ UNCHANGED <<place, raced, pc, batch, view>>
      BY <1>0, <2>1 DEF folder
    <2>6. \A m \in Stored : m <= boundary => m \in Told \union {} \union raced
      BY <2>4
    <2>7. {} \in SUBSET Messages
          /\ \A m \in {} : boundary < m /\ m <= boundary'
      OBVIOUS
    <2>8. boundary' \in Nat /\ boundary <= boundary'
      BY <1>0, <2>5
    <2>9. \A m \in Stored : m <= boundary' => m \in Told \union {} \union raced
      BY <2>5, <2>6
    <2>10. \A g \in Folders : pc'[g] = "claimed" =>
              pc[g] = "claimed" /\ batch'[g] = batch[g] /\ view'[g] = view[g]
      BY <2>5
    <2> QED
      BY <2>2, <2>3, <2>5, <2>7, <2>8, <2>9, <2>10, WriteStep
  <1>12. CASE UNCHANGED vars
    BY <1>12, QuietStep DEF vars, scene, folder
  <1> QED
    BY <1>1, <1>2, <1>3, <1>4, <1>5, <1>7, <1>8, <1>9, <1>10, <1>11, <1>12 DEF Next, FolderStep

LEMMA Invariance == Spec => [](Inv /\ SummaryInv)
  <1>1. Init => Inv /\ SummaryInv
    BY TypeInit, ReadersInit, BornInit, SummaryInit DEF Inv
  <1>2. Inv /\ SummaryInv /\ [Next]_vars => (Inv /\ SummaryInv)'
    BY TypeStep, ReadersStep, BornStep, FollowsStep, SummaryStep DEF Inv
  <1> QED
    BY <1>1, <1>2, PTL DEF Spec

\* The folds of a summary follow the order of the history and tell no message twice, however
\* many folders work on batches they have read at different times.
THEOREM ToldInOrder == Spec => []StoryInOrder
  <1>1. Inv /\ SummaryInv => StoryInOrder
    BY DEF SummaryInv
  <1> QED
    BY <1>1, Invariance, PTL

\* A message before the boundary that is not in the summary was stored after a fold had made
\* its last check: this gap is the only one.
THEOREM NothingElseIsSkipped == Spec => []CoveredByStory
  <1>1. Inv /\ SummaryInv => CoveredByStory
    BY DEF SummaryInv
  <1> QED
    BY <1>1, Invariance, PTL

\* A message that was deleted before the last check of a fold is not told by it.
THEOREM DeletedIsNotTold == Spec => DeletedStaysOut
  <1>1. ASSUME Inv, SummaryInv, [Next]_vars, story' # story, NEW m \in Last(story')
        PROVE  place[m] = "stored" \/ m \in raced
    <2>1. story \in Story
      BY <1>1 DEF Inv, TypeInv, TypeOK
    <2>2. \A chapter : story' = Append(story, chapter) => Last(story') = chapter
      BY <2>1 DEF Story, Last
    <2>3. ASSUME NEW f \in Folders, Fold(f)
          PROVE  m \in batch[f] /\ pc[f] = "claimed"
      <3>1. story' = Append(basis[f], batch[f]) /\ pc[f] = "claimed"
            /\ view[f] = [boundary |-> boundary, revision |-> revision]
        BY <2>3, Zenon DEF Fold, SceneAsRead
      <3>2. basis[f] = story
        BY <1>1, <3>1 DEF Inv, ReadersInv, FoldersRead
      <3> QED
        BY <1>1, <2>2, <3>1, <3>2
    <2>4. ASSUME NEW e \in Editors, SaveDraft(e)
          PROVE  FALSE
      <3>1. story' = Append(story, {})
        BY <1>1, <2>4 DEF SaveDraft, Inv, ReadersInv, DraftsRead
      <3> QED
        BY <1>1, <2>2, <3>1
    <2>5. (\E f \in Folders : Fold(f)) \/ (\E e \in Editors : SaveDraft(e))
      BY <1>1 DEF Next, FolderStep, vars, scene, Say, BuildReply, StoreReply, DropReply,
                  DeleteMessage, ReadMessages, ReadScene, RefuseBoundary, LeaveRaw, Ask,
                  AnswerBad, Claim, Refuse, LoseRace, Interrupt, OpenDraft
    <2>6. PICK f \in Folders : m \in batch[f] /\ pc[f] = "claimed"
      BY <2>3, <2>4, <2>5
    <2> QED
      BY <1>1, <2>6 DEF SummaryInv, ClaimedBatch, Stored
  <1>2. Inv /\ SummaryInv /\ [Next]_vars
          => [story' # story => \A m \in Last(story') : place[m] = "stored" \/ m \in raced]_vars
    BY <1>1
  <1> QED
    BY <1>2, Invariance, PTL DEF Spec, DeletedStaysOut

-----------------------------------------------------------------------------
(* Extremes of sets of numbers.                                            *)

LEMMA LeastNumber ==
    ASSUME NEW S \in SUBSET Nat, S # {}
    PROVE  \E a \in S : \A b \in S : a <= b
  <1>1. PICK a \in S : \A b \in S : ~ (<<b, a>> \in OpToRel(<, Nat))
    BY NatLessThanWellFounded, WFMin
  <1>2. ASSUME NEW b \in S PROVE a <= b
    <2>1. a \in Nat /\ b \in Nat
      OBVIOUS
    <2>2. ~ (b < a)
      BY <1>1, <2>1 DEF OpToRel
    <2> QED
      BY <2>1, <2>2
  <1> QED
    BY <1>2

LEMMA GreatestNumber ==
    ASSUME NEW S \in SUBSET Nat, S # {}, NEW n \in Nat, \A x \in S : x <= n
    PROVE  \E a \in S : \A b \in S : b <= a
  <1> DEFINE T == {n - x : x \in S}
  <1>1. T \in SUBSET Nat /\ T # {}
    <2>1. \A x \in S : n - x \in Nat
      OBVIOUS
    <2> QED
      BY <2>1
  <1>2. PICK d \in T : \A e \in T : d <= e
    BY <1>1, LeastNumber
  <1>3. PICK a \in S : d = n - a
    OBVIOUS
  <1>4. ASSUME NEW b \in S PROVE b <= a
    <2>1. n - b \in T
      OBVIOUS
    <2>2. n - a <= n - b /\ a \in Nat /\ b \in Nat
      BY <1>2, <1>3, <2>1
    <2> QED
      BY <2>2
  <1> QED
    BY <1>4

LEMMA MinOfNumbers ==
    ASSUME NEW S \in SUBSET Nat, S # {}
    PROVE  Min(S) \in S /\ \A x \in S : Min(S) <= x
  <1>1. \E a \in S : \A b \in S : a <= b
    BY LeastNumber
  <1> QED
    BY <1>1 DEF Min

LEMMA MaxOfNumbers ==
    ASSUME NEW S \in SUBSET Nat, S # {}, NEW n \in Nat, \A x \in S : x <= n
    PROVE  Max(S) \in S /\ \A x \in S : x <= Max(S)
  <1>1. PICK a \in S : \A b \in S : b <= a
    BY GreatestNumber
  <1>2. \A b \in S : a >= b
    BY <1>1
  <1>3. Max(S) \in S /\ \A x \in S : Max(S) >= x
    BY <1>2 DEF Max
  <1> QED
    BY <1>3

LEMMA OfTwoNumbers ==
    ASSUME NEW a \in Nat, NEW b \in Nat
    PROVE  /\ Min({a, b}) = IF a <= b THEN a ELSE b
           /\ Max({a, b}) = IF a <= b THEN b ELSE a
  <1>1. {a, b} \in SUBSET Nat /\ {a, b} # {} /\ a + b \in Nat /\ \A x \in {a, b} : x <= a + b
    OBVIOUS
  <1>2. Min({a, b}) \in {a, b} /\ Min({a, b}) <= a /\ Min({a, b}) <= b
    BY <1>1, MinOfNumbers
  <1>3. Max({a, b}) \in {a, b} /\ a <= Max({a, b}) /\ b <= Max({a, b})
    BY <1>1, MaxOfNumbers
  <1> QED
    BY <1>2, <1>3

-----------------------------------------------------------------------------
(* Grouping.  These lemmas hold of any history.                            *)

LEMMA HistoryShape ==
    ASSUME NEW h \in Seq(Message), NEW i \in DOMAIN h
    PROVE  /\ DOMAIN h = 1..Len(h) /\ Len(h) \in Nat /\ i \in 1..Len(h) /\ i \in Nat
           /\ h[i] \in Message /\ h[i].job \in Job /\ h[i].tokens \in Nat
           /\ h[i].id \in Nat
  <1>1. h[i] \in Message /\ i \in 1..Len(h)
    OBVIOUS
  <1> QED
    BY <1>1 DEF Message

LEMMA IndexKnown ==
    ASSUME NEW h \in Seq(Message), NEW id, Present(h, id)
    PROVE  IndexOf(h, id) \in DOMAIN h /\ h[IndexOf(h, id)].id = id
  BY DEF Present, IndexOf

\* A run reaches as far as its job goes on.
LEMMA RunReaches ==
    ASSUME NEW h \in Seq(Message), NEW i \in DOMAIN h
    PROVE  /\ RunEnd(h, i) \in i..Len(h)
           /\ \A p \in i..RunEnd(h, i) : h[p].job = h[i].job
           /\ \A k \in i..Len(h) : (\A p \in i..k : h[p].job = h[i].job) => k <= RunEnd(h, i)
  <1> DEFINE S == {k \in i..Len(h) : \A p \in i..k : h[p].job = h[i].job}
  <1>1. i \in 1..Len(h) /\ Len(h) \in Nat
    BY HistoryShape
  <1>2. i \in S
    BY <1>1
  <1>3. S \in SUBSET Nat /\ \A x \in S : x <= Len(h)
    BY <1>1
  <1>4. Max(S) \in S /\ \A x \in S : x <= Max(S)
    BY <1>1, <1>2, <1>3, MaxOfNumbers
  <1>5. RunEnd(h, i) = Max(S)
    BY DEF RunEnd
  <1> HIDE DEF S
  <1>6. Max(S) \in i..Len(h) /\ \A p \in i..Max(S) : h[p].job = h[i].job
    BY <1>4 DEF S
  <1>7. ASSUME NEW k \in i..Len(h), \A p \in i..k : h[p].job = h[i].job
        PROVE  k <= Max(S)
    <2>1. k \in S
      BY <1>7 DEF S
    <2> QED
      BY <1>4, <2>1
  <1> QED
    BY <1>5, <1>6, <1>7

\* The intervals of replies, by their two ends.
Tied(h, q) == Authoritative(h, h[q].job) /\ Present(h, h[q].job.of)
SourceOf(h, q) == IndexOf(h, h[q].job.of)

LEMMA IntervalsTie ==
    ASSUME NEW h \in Seq(Message)
    PROVE  /\ \A v \in OwnedIntervals(h) : \E q \in DOMAIN h :
                 /\ Tied(h, q) /\ SourceOf(h, q) \in DOMAIN h
                 /\ v.from \in DOMAIN h /\ v.to \in DOMAIN h /\ v.from <= v.to
                 /\ (v.from = q /\ v.to = SourceOf(h, q)) \/ (v.from = SourceOf(h, q) /\ v.to = q)
           /\ \A q \in DOMAIN h : Tied(h, q) => \E v \in OwnedIntervals(h) :
                 /\ SourceOf(h, q) \in DOMAIN h
                 /\ v.from \in DOMAIN h /\ v.to \in DOMAIN h /\ v.from <= v.to
                 /\ (v.from = q /\ v.to = SourceOf(h, q)) \/ (v.from = SourceOf(h, q) /\ v.to = q)
  <1>1. OwnedIntervals(h) = {Interval(SourceOf(h, q), q) : q \in {k \in DOMAIN h : Tied(h, k)}}
    BY DEF OwnedIntervals, Tied, SourceOf
  <1>2. ASSUME NEW q \in DOMAIN h, Tied(h, q)
        PROVE  /\ SourceOf(h, q) \in DOMAIN h
               /\ Interval(SourceOf(h, q), q).from \in DOMAIN h
               /\ Interval(SourceOf(h, q), q).to \in DOMAIN h
               /\ Interval(SourceOf(h, q), q).from <= Interval(SourceOf(h, q), q).to
               /\ \/ /\ Interval(SourceOf(h, q), q).from = q
                     /\ Interval(SourceOf(h, q), q).to = SourceOf(h, q)
                  \/ /\ Interval(SourceOf(h, q), q).from = SourceOf(h, q)
                     /\ Interval(SourceOf(h, q), q).to = q
    <2>1. SourceOf(h, q) \in DOMAIN h
      BY <1>2, IndexKnown DEF Tied, SourceOf
    <2>2. PICK s \in DOMAIN h : s = SourceOf(h, q)
      BY <2>1
    <2>3. s \in Nat /\ q \in Nat
      BY HistoryShape
    <2>4. /\ Min({s, q}) = IF s <= q THEN s ELSE q
          /\ Max({s, q}) = IF s <= q THEN q ELSE s
      BY <2>3, OfTwoNumbers
    <2>5. Interval(s, q).from = Min({s, q}) /\ Interval(s, q).to = Max({s, q})
      BY DEF Interval
    <2>6. /\ Min({s, q}) \in DOMAIN h /\ Max({s, q}) \in DOMAIN h /\ Min({s, q}) <= Max({s, q})
          /\ (Min({s, q}) = q /\ Max({s, q}) = s) \/ (Min({s, q}) = s /\ Max({s, q}) = q)
      <3>1. CASE s <= q
        BY <2>3, <2>4, <3>1
      <3>2. CASE ~ (s <= q)
        BY <2>3, <2>4, <3>2
      <3> QED
        BY <3>1, <3>2
    <2> QED
      BY <2>2, <2>5, <2>6
  <1>3. ASSUME NEW v \in OwnedIntervals(h)
        PROVE  \E q \in DOMAIN h :
                 /\ Tied(h, q) /\ SourceOf(h, q) \in DOMAIN h
                 /\ v.from \in DOMAIN h /\ v.to \in DOMAIN h /\ v.from <= v.to
                 /\ (v.from = q /\ v.to = SourceOf(h, q)) \/ (v.from = SourceOf(h, q) /\ v.to = q)
    <2>1. PICK q \in {k \in DOMAIN h : Tied(h, k)} : v = Interval(SourceOf(h, q), q)
      BY <1>1
    <2> QED
      BY <1>2, <2>1
  <1>4. ASSUME NEW q \in DOMAIN h, Tied(h, q)
        PROVE  \E v \in OwnedIntervals(h) :
                 /\ SourceOf(h, q) \in DOMAIN h
                 /\ v.from \in DOMAIN h /\ v.to \in DOMAIN h /\ v.from <= v.to
                 /\ (v.from = q /\ v.to = SourceOf(h, q)) \/ (v.from = SourceOf(h, q) /\ v.to = q)
    <2>1. Interval(SourceOf(h, q), q) \in OwnedIntervals(h)
      BY <1>1, <1>4
    <2> QED
      BY <1>2, <1>4, <2>1
  <1> QED
    BY <1>3, <1>4

\* The first case of IntervalEnd: the entry of a run replaces what was found before.
Replaced(h, i) == i \in RunStarts(h) /\ ~HasSourceBefore(h, i) /\ RunEnd(h, i) > i
Reached(h, i) ==
    {i} \union {v.to : v \in {w \in OwnedIntervals(h) : w.from = i}}
        \union {RunEnd(h, k) : k \in {r \in RunStarts(h) : HasSourceBefore(h, r) /\ r = i + 1}}

LEMMA IntervalEndIs ==
    ASSUME NEW h \in Seq(Message), NEW i \in DOMAIN h
    PROVE  /\ IntervalEnd(h, i) \in i..Len(h)
           /\ Replaced(h, i) => IntervalEnd(h, i) = RunEnd(h, i)
           /\ ~Replaced(h, i) => /\ IntervalEnd(h, i) \in Reached(h, i)
                                 /\ \A x \in Reached(h, i) : x <= IntervalEnd(h, i)
  <1>1. i \in 1..Len(h) /\ Len(h) \in Nat /\ DOMAIN h = 1..Len(h)
    BY HistoryShape
  <1>2. Reached(h, i) \in SUBSET (i..Len(h))
    <2>1. ASSUME NEW v \in OwnedIntervals(h), v.from = i PROVE v.to \in i..Len(h)
      <3>1. v.from <= v.to /\ v.to \in DOMAIN h
        BY IntervalsTie
      <3> QED
        BY <1>1, <2>1, <3>1
    <2>2. ASSUME NEW k \in RunStarts(h), k = i + 1 PROVE RunEnd(h, k) \in i..Len(h)
      <3>1. k \in DOMAIN h
        BY DEF RunStarts
      <3>2. RunEnd(h, k) \in k..Len(h)
        BY <3>1, RunReaches
      <3> QED
        BY <1>1, <2>2, <3>2
    <2> QED
      BY <1>1, <2>1, <2>2 DEF Reached
  <1>3. Max(Reached(h, i)) \in Reached(h, i) /\ \A x \in Reached(h, i) : x <= Max(Reached(h, i))
    <2>1. Reached(h, i) \in SUBSET Nat /\ Reached(h, i) # {} /\ \A x \in Reached(h, i) : x <= Len(h)
      <3>1. i \in Reached(h, i)
        BY DEF Reached
      <3> QED
        BY <1>1, <1>2, <3>1
    <2> QED
      BY <1>1, <2>1, MaxOfNumbers
  <1>4. IntervalEnd(h, i) = IF Replaced(h, i) THEN RunEnd(h, i) ELSE Max(Reached(h, i))
    BY DEF IntervalEnd, Replaced, Reached
  <1>5. RunEnd(h, i) \in i..Len(h)
    BY RunReaches
  <1> QED
    BY <1>2, <1>3, <1>4, <1>5

LEMMA StartsAre ==
    ASSUME NEW h \in Seq(Message)
    PROVE  /\ GroupStarts(h) \subseteq DOMAIN h
           /\ \A i \in DOMAIN h :
                 i \in GroupStarts(h) <=> \A k \in 1..(i - 1) : IntervalEnd(h, k) < i
           /\ Len(h) > 0 => 1 \in GroupStarts(h)
  <1>1. GroupStarts(h) = {i \in DOMAIN h : i > Reach(h)[i - 1]}
    BY DEF GroupStarts
  <1>2. ASSUME NEW i \in DOMAIN h
        PROVE  i \in GroupStarts(h) <=> \A k \in 1..(i - 1) : IntervalEnd(h, k) < i
    <2> DEFINE S == {0} \union {IntervalEnd(h, k) : k \in 1..(i - 1)}
    <2>1. i \in 1..Len(h) /\ Len(h) \in Nat /\ DOMAIN h = 1..Len(h)
      BY HistoryShape
    <2>2. Reach(h)[i - 1] = Max(S)
      BY <2>1 DEF Reach
    <2>3. \A k \in 1..(i - 1) : IntervalEnd(h, k) \in Nat /\ IntervalEnd(h, k) <= Len(h)
      <3> TAKE k \in 1..(i - 1)
      <3>1. k \in DOMAIN h
        BY <2>1
      <3>2. IntervalEnd(h, k) \in k..Len(h)
        BY <3>1, IntervalEndIs
      <3> QED
        BY <2>1, <3>1, <3>2
    <2>4. S \in SUBSET Nat /\ S # {} /\ \A x \in S : x <= Len(h)
      BY <2>1, <2>3
    <2>5. Max(S) \in S /\ \A x \in S : x <= Max(S)
      <3> HIDE DEF S
      <3> QED
        BY <2>1, <2>4, MaxOfNumbers
    <2>6. i \in GroupStarts(h) <=> i > Max(S)
      BY <1>1, <2>2
    <2>7. ASSUME i > Max(S), NEW k \in 1..(i - 1) PROVE IntervalEnd(h, k) < i
      <3>1. IntervalEnd(h, k) \in S
        OBVIOUS
      <3>2. IntervalEnd(h, k) <= Max(S) /\ Max(S) \in Nat
        BY <2>4, <2>5, <3>1
      <3> QED
        BY <2>1, <2>3, <2>7, <3>2
    <2>8. ASSUME \A k \in 1..(i - 1) : IntervalEnd(h, k) < i PROVE i > Max(S)
      <3>1. \A x \in S : x < i
        BY <2>1, <2>8
      <3> QED
        BY <2>1, <2>4, <2>5, <3>1
    <2> QED
      BY <2>6, <2>7, <2>8
  <1>3. ASSUME Len(h) > 0 PROVE 1 \in GroupStarts(h)
    <2>1. 1 \in DOMAIN h
      BY <1>3
    <2>2. \A k \in 1..(1 - 1) : IntervalEnd(h, k) < 1
      OBVIOUS
    <2> QED
      BY <1>2, <2>1, <2>2
  <1> QED
    BY <1>1, <1>2, <1>3

\* What keeps a cut before i from being harmless, and lies from k on.
TiedFrom(h, k, i) ==
    \/ \E q \in DOMAIN h : /\ Tied(h, q)
                           /\ q >= k /\ SourceOf(h, q) >= k
                           /\ (q < i) # (SourceOf(h, q) < i)
    \/ /\ i > k
       /\ h[i].job # NoJob
       /\ ~Authoritative(h, h[i].job)
       /\ h[i - 1].job \in {NoJob, h[i].job}

LEMMA RunsTie ==
    ASSUME NEW h \in Seq(Message), NEW k \in DOMAIN h, NEW r \in RunStarts(h), k <= r,
           NEW i \in DOMAIN h, k < i, i <= RunEnd(h, r),
           r < i \/ (r = i /\ HasSourceBefore(h, r))
    PROVE  TiedFrom(h, k, i)
  <1>1. r \in DOMAIN h /\ h[r].job # NoJob /\ ~Authoritative(h, h[r].job)
    BY DEF RunStarts
  <1>2. r \in Nat /\ i \in Nat /\ k \in Nat /\ r >= 1 /\ k >= 1
    BY <1>1, HistoryShape
  <1>3. CASE r < i
    <2>1. RunEnd(h, r) \in Nat
      BY <1>1, <1>2, RunReaches
    <2>2. i \in r..RunEnd(h, r) /\ i - 1 \in r..RunEnd(h, r)
      BY <1>2, <1>3, <2>1
    <2>3. h[i].job = h[r].job /\ h[i - 1].job = h[r].job
      BY <1>1, <2>2, RunReaches
    <2> QED
      BY <1>1, <2>3 DEF TiedFrom
  <1>4. CASE r = i /\ HasSourceBefore(h, r)
    BY <1>1, <1>4 DEF TiedFrom, HasSourceBefore
  <1> QED
    BY <1>3, <1>4

\* What is behind the reach of k is tied to something from k on ...
LEMMA ReachTies ==
    ASSUME NEW h \in Seq(Message), NEW k \in DOMAIN h, NEW i \in DOMAIN h,
           k < i, i <= IntervalEnd(h, k)
    PROVE  TiedFrom(h, k, i)
  <1>1. i \in Nat /\ k \in Nat /\ i \in 1..Len(h) /\ k \in 1..Len(h) /\ Len(h) \in Nat
    BY HistoryShape
  <1>2. CASE Replaced(h, k)
    <2>1. k \in RunStarts(h) /\ i <= RunEnd(h, k)
      BY <1>2, IntervalEndIs DEF Replaced
    <2> QED
      BY <1>1, <2>1, RunsTie
  <1>3. CASE ~Replaced(h, k)
    <2>1. IntervalEnd(h, k) \in Reached(h, k)
      BY <1>3, IntervalEndIs
    <2>2. CASE IntervalEnd(h, k) = k
      BY <1>1, <2>2
    <2>3. ASSUME NEW v \in OwnedIntervals(h), v.from = k, IntervalEnd(h, k) = v.to
          PROVE  TiedFrom(h, k, i)
      <3>1. PICK q \in DOMAIN h :
               /\ Tied(h, q) /\ SourceOf(h, q) \in DOMAIN h
               /\ v.from \in DOMAIN h /\ v.to \in DOMAIN h /\ v.from <= v.to
               /\ (v.from = q /\ v.to = SourceOf(h, q)) \/ (v.from = SourceOf(h, q) /\ v.to = q)
        BY IntervalsTie
      <3>2. q \in Nat /\ SourceOf(h, q) \in Nat
        BY <3>1, HistoryShape
      <3>3. /\ q >= k /\ SourceOf(h, q) >= k
            /\ (q < i) # (SourceOf(h, q) < i)
        <4>1. CASE q = k /\ v.to = SourceOf(h, q)
          BY <1>1, <2>3, <3>2, <4>1
        <4>2. CASE SourceOf(h, q) = k /\ v.to = q
          BY <1>1, <2>3, <3>2, <4>2
        <4> QED
          BY <2>3, <3>1, <4>1, <4>2
      <3> QED
        BY <3>1, <3>3 DEF TiedFrom
    <2>4. ASSUME NEW r \in RunStarts(h), HasSourceBefore(h, r), r = k + 1,
                 IntervalEnd(h, k) = RunEnd(h, r)
          PROVE  TiedFrom(h, k, i)
      <3>1. k <= r /\ i <= RunEnd(h, r) /\ (r < i \/ (r = i /\ HasSourceBefore(h, r)))
        BY <1>1, <2>4
      <3> QED
        BY <1>1, <3>1, RunsTie
    <2> QED
      BY <2>1, <2>2, <2>3, <2>4 DEF Reached
  <1> QED
    BY <1>2, <1>3

\* ... and what a cut before i separates is within the reach of something before i, unless
\* that reach is forgotten.
LEMMA SeparatedIsReached ==
    ASSUME NEW h \in Seq(Message), NEW i \in DOMAIN h, Separates(h, i), ~Forgotten(h)
    PROVE  \E k \in 1..(i - 1) : IntervalEnd(h, k) >= i
  <1>1. /\ i \in 1..Len(h) /\ i \in Nat /\ Len(h) \in Nat /\ DOMAIN h = 1..Len(h)
        /\ \A x \in DOMAIN h : x \in Nat
    BY HistoryShape
  <1>2. ASSUME NEW q \in DOMAIN h, Tied(h, q), (q < i) # (SourceOf(h, q) < i)
        PROVE  \E k \in 1..(i - 1) : IntervalEnd(h, k) >= i
    <2>1. PICK v \in OwnedIntervals(h) :
             /\ SourceOf(h, q) \in DOMAIN h
             /\ v.from \in DOMAIN h /\ v.to \in DOMAIN h /\ v.from <= v.to
             /\ (v.from = q /\ v.to = SourceOf(h, q)) \/ (v.from = SourceOf(h, q) /\ v.to = q)
      BY <1>2, IntervalsTie
    <2>2. v.from < i /\ i <= v.to /\ v.from \in 1..(i - 1) /\ v.to \in Nat
      <3>1. q \in Nat /\ SourceOf(h, q) \in Nat /\ v.from \in Nat /\ v.to \in Nat /\ v.from >= 1
        BY <1>1, <2>1
      <3>2. v.from < i /\ i <= v.to
        <4>1. CASE v.from = q /\ v.to = SourceOf(h, q)
          BY <1>1, <1>2, <2>1, <3>1, <4>1
        <4>2. CASE v.from = SourceOf(h, q) /\ v.to = q
          BY <1>1, <1>2, <2>1, <3>1, <4>2
        <4> QED
          BY <2>1, <4>1, <4>2
      <3> QED
        BY <1>1, <3>1, <3>2
    <2>3. CASE Replaced(h, v.from)
      <3>1. IntervalEnd(h, v.from) = RunEnd(h, v.from)
        BY <2>1, <2>3, IntervalEndIs
      <3>2. RunEnd(h, v.from) \in Nat /\ RunEnd(h, v.from) > v.from
        <4>1. RunEnd(h, v.from) \in (v.from)..Len(h)
          BY <2>1, RunReaches
        <4> QED
          BY <1>1, <2>1, <2>3, <4>1 DEF Replaced
      <3>3. ~ (RunEnd(h, v.from) \in (v.from + 1)..(v.to - 1))
        BY <2>3 DEF Forgotten, Replaced
      <3>4. RunEnd(h, v.from) >= v.to
        BY <1>1, <2>1, <3>2, <3>3
      <3> QED
        BY <1>1, <2>2, <3>1, <3>2, <3>4
    <2>4. CASE ~Replaced(h, v.from)
      <3>1. v.to \in Reached(h, v.from)
        BY DEF Reached
      <3>2. v.to <= IntervalEnd(h, v.from) /\ IntervalEnd(h, v.from) \in (v.from)..Len(h)
        BY <2>1, <2>4, <3>1, IntervalEndIs
      <3> QED
        BY <1>1, <2>2, <3>2
    <2> QED
      BY <2>3, <2>4
  <1>3. ASSUME i > 1, h[i].job # NoJob, ~Authoritative(h, h[i].job),
               h[i - 1].job \in {NoJob, h[i].job}
        PROVE  \E k \in 1..(i - 1) : IntervalEnd(h, k) >= i
    <2> DEFINE Run == {k \in 1..i : \A p \in k..i : h[p].job = h[i].job}
    <2>1. i \in Run
      BY <1>1
    <2>2. Run \in SUBSET Nat /\ Run # {}
      BY <1>1, <2>1
    <2>3. PICK r \in Run : \A b \in Run : r <= b
      <3> HIDE DEF Run
      <3> QED
        BY <2>2, LeastNumber
    <2>4. r \in 1..i /\ r \in DOMAIN h /\ r \in Nat
      BY <1>1
    <2>5. \A p \in r..i : h[p].job = h[i].job
      OBVIOUS
    <2>6. h[r].job = h[i].job
      BY <1>1, <2>4, <2>5
    <2>7. r > 1 => h[r - 1].job # h[i].job
      <3> SUFFICES ASSUME r > 1, h[r - 1].job = h[i].job
                   PROVE  FALSE
        OBVIOUS
      <3>1. \A p \in (r - 1)..i : h[p].job = h[i].job
        BY <1>1, <2>4, <2>5
      <3>2. r - 1 \in Run
        BY <1>1, <2>4, <3>1
      <3>3. r <= r - 1
        BY <2>3, <3>2
      <3> QED
        BY <2>4, <3>3
    <2>8. r \in RunStarts(h)
      BY <1>3, <2>4, <2>6, <2>7 DEF RunStarts
    <2>9. i <= RunEnd(h, r) /\ RunEnd(h, r) \in r..Len(h)
      <3>1. i \in r..Len(h)
        BY <1>1, <2>4
      <3>2. \A p \in r..i : h[p].job = h[r].job
        BY <2>5, <2>6
      <3> QED
        BY <2>4, <3>1, <3>2, RunReaches
    <2>10. CASE HasSourceBefore(h, r)
      <3>1. r > 1 /\ h[r - 1].job = NoJob
        BY <2>10 DEF HasSourceBefore
      <3>2. r - 1 \in 1..(i - 1) /\ r - 1 \in DOMAIN h
        BY <1>1, <2>4, <3>1
      <3>3. ~Replaced(h, r - 1)
        BY <3>1 DEF Replaced, RunStarts
      <3>4. RunEnd(h, r) \in Reached(h, r - 1)
        <4>1. r = (r - 1) + 1
          BY <2>4
        <4> QED
          BY <2>8, <2>10, <4>1 DEF Reached
      <3>5. RunEnd(h, r) <= IntervalEnd(h, r - 1) /\ IntervalEnd(h, r - 1) \in (r - 1)..Len(h)
        BY <3>2, <3>3, <3>4, IntervalEndIs
      <3>6. IntervalEnd(h, r - 1) >= i
        BY <1>1, <2>4, <2>9, <3>5
      <3> QED
        BY <3>2, <3>6
    <2>11. CASE ~HasSourceBefore(h, r)
      <3>1. r < i
        BY <1>1, <1>3, <2>4, <2>7, <2>11 DEF HasSourceBefore
      <3>2. Replaced(h, r)
        BY <1>1, <2>4, <2>8, <2>9, <2>11, <3>1 DEF Replaced
      <3>3. IntervalEnd(h, r) = RunEnd(h, r)
        BY <2>4, <3>2, IntervalEndIs
      <3>4. r \in 1..(i - 1) /\ IntervalEnd(h, r) >= i
        BY <1>1, <2>4, <2>9, <3>1, <3>3
      <3> QED
        BY <3>4
    <2> QED
      BY <2>10, <2>11
  <1> QED
    BY <1>2, <1>3 DEF Separates, Tied, SourceOf

\* The groups of a history are the finest turns, unless a reach is forgotten; where no group
\* starts something is tied together in any case.
LEMMA StartsSeparate ==
    ASSUME NEW h \in Seq(Message)
    PROVE  /\ \A i \in DOMAIN h : i \notin GroupStarts(h) => Separates(h, i)
           /\ ~Forgotten(h) => GroupStarts(h) = {i \in DOMAIN h : ~Separates(h, i)}
  <1>1. ASSUME NEW i \in DOMAIN h, i \notin GroupStarts(h) PROVE Separates(h, i)
    <2>1. i \in 1..Len(h) /\ Len(h) \in Nat /\ DOMAIN h = 1..Len(h)
      BY HistoryShape
    <2>2. PICK k \in 1..(i - 1) : ~ (IntervalEnd(h, k) < i)
      BY <1>1, StartsAre
    <2>3. k \in DOMAIN h /\ k < i /\ k \in Nat /\ k >= 1
      BY <2>1
    <2>4. IntervalEnd(h, k) \in k..Len(h)
      BY <2>3, IntervalEndIs
    <2>5. i <= IntervalEnd(h, k)
      BY <2>1, <2>2, <2>3, <2>4
    <2>6. TiedFrom(h, k, i)
      BY <2>3, <2>5, ReachTies
    <2>7. i > k => i > 1
      BY <2>1, <2>3
    <2> QED
      BY <2>6, <2>7 DEF TiedFrom, Separates, Tied, SourceOf
  <1>2. ASSUME NEW i \in DOMAIN h, i \in GroupStarts(h), ~Forgotten(h) PROVE ~Separates(h, i)
    <2> SUFFICES ASSUME Separates(h, i) PROVE FALSE
      OBVIOUS
    <2>1. i \in 1..Len(h) /\ Len(h) \in Nat /\ DOMAIN h = 1..Len(h)
      BY HistoryShape
    <2>2. PICK k \in 1..(i - 1) : IntervalEnd(h, k) >= i
      BY <1>2, SeparatedIsReached
    <2>3. k \in DOMAIN h /\ IntervalEnd(h, k) < i
      BY <1>2, <2>1, StartsAre
    <2>4. IntervalEnd(h, k) \in k..Len(h)
      BY <2>3, IntervalEndIs
    <2> QED
      BY <2>1, <2>2, <2>3, <2>4
  <1>3. GroupStarts(h) \subseteq DOMAIN h
    BY StartsAre
  <1> QED
    BY <1>1, <1>2, <1>3

-----------------------------------------------------------------------------
(* Tokens.                                                                 *)

Sums(h) == CHOOSE f : f = [i \in 0..Len(h) |-> IF i = 0 THEN 0 ELSE f[i - 1] + h[i].tokens]

LEMMA TokensAreSums == ASSUME NEW h PROVE Tokens(h) = Sums(h)[Len(h)]
  BY DEF Tokens, Sums

\* The sums exist: of the shortest beginning of a history without them, all but the last
\* message have them.
LEMMA SumsExist ==
    ASSUME NEW h \in Seq(Message)
    PROVE  Sums(h) = [i \in 0..Len(h) |-> IF i = 0 THEN 0 ELSE Sums(h)[i - 1] + h[i].tokens]
  <1> DEFINE Summed(n) ==
                \E f : f = [i \in 0..n |-> IF i = 0 THEN 0 ELSE f[i - 1] + h[i].tokens]
             Bad == {n \in 0..Len(h) : ~Summed(n)}
  <1>1. Len(h) \in Nat
    OBVIOUS
  <1>2. ASSUME Bad # {} PROVE FALSE
    <2>1. PICK n \in Bad : \A m \in Bad : n <= m
      <3>1. Bad \in SUBSET Nat
        BY <1>1
      <3> HIDE DEF Bad
      <3> QED
        BY <1>2, <3>1, LeastNumber
    <2>2. n \in Nat /\ n <= Len(h) /\ ~Summed(n)
      BY <1>1
    <2>3. CASE n = 0
      <3> DEFINE f == [i \in 0..0 |-> 0]
      <3>1. f = [i \in 0..0 |-> IF i = 0 THEN 0 ELSE f[i - 1] + h[i].tokens]
        OBVIOUS
      <3>2. Summed(0)
        BY <3>1
      <3> QED
        BY <2>2, <2>3, <3>2
    <2>4. CASE n > 0
      <3>1. Summed(n - 1)
        <4>1. n - 1 \in 0..Len(h) /\ ~ (n <= n - 1)
          BY <1>1, <2>2, <2>4
        <4> QED
          BY <2>1, <4>1
      <3>2. PICK f : f = [i \in 0..(n - 1) |-> IF i = 0 THEN 0 ELSE f[i - 1] + h[i].tokens]
        BY <3>1
      <3> DEFINE g == [i \in 0..n |-> IF i = n THEN f[n - 1] + h[n].tokens ELSE f[i]]
      <3>3. \A i \in 0..n : g[i] = IF i = 0 THEN 0 ELSE g[i - 1] + h[i].tokens
        <4> TAKE i \in 0..n
        <4>1. CASE i = 0
          BY <2>2, <2>4, <3>2, <4>1
        <4>2. CASE i > 0 /\ i < n
          <5>1. i \in 0..(n - 1) /\ i - 1 \in 0..n /\ i - 1 # n /\ i # n /\ i # 0
            BY <2>2, <4>2
          <5>2. f[i] = f[i - 1] + h[i].tokens
            BY <3>2, <5>1
          <5> QED
            BY <5>1, <5>2
        <4>3. CASE i = n
          BY <2>2, <2>4, <4>3
        <4> QED
          BY <2>2, <4>1, <4>2, <4>3
      <3>4. g = [i \in 0..n |-> g[i]]
        OBVIOUS
      <3>5. g = [i \in 0..n |-> IF i = 0 THEN 0 ELSE g[i - 1] + h[i].tokens]
        <4> HIDE DEF g
        <4> QED
          BY <3>3, <3>4
      <3> QED
        BY <2>2, <3>5
    <2> QED
      BY <2>2, <2>3, <2>4
  <1>3. Summed(Len(h))
    <2>1. Len(h) \in 0..Len(h) /\ Len(h) \notin Bad
      BY <1>1, <1>2
    <2> QED
      BY <2>1
  <1> QED
    BY <1>3, Zenon DEF Sums

LEMMA SumsGrow ==
    ASSUME NEW h \in Seq(Message)
    PROVE  /\ Sums(h)[0] = 0
           /\ \A i \in 1..Len(h) : Sums(h)[i] = Sums(h)[i - 1] + h[i].tokens
           /\ \A i \in 0..Len(h) : /\ Sums(h)[i] \in Nat
                                   /\ i >= 2 => Sums(h)[i] >= h[1].tokens + h[2].tokens
  <1>1. Len(h) \in Nat /\ \A i \in 1..Len(h) : h[i].tokens \in Nat
    BY HistoryShape
  <1>2. Sums(h) = [i \in 0..Len(h) |-> IF i = 0 THEN 0 ELSE Sums(h)[i - 1] + h[i].tokens]
    BY SumsExist
  <1>3. \A i \in 0..Len(h) : Sums(h)[i] = IF i = 0 THEN 0 ELSE Sums(h)[i - 1] + h[i].tokens
    <2> DEFINE F(i) == IF i = 0 THEN 0 ELSE Sums(h)[i - 1] + h[i].tokens
    <2>1. Sums(h) = [i \in 0..Len(h) |-> F(i)]
      BY <1>2
    <2> HIDE DEF F
    <2>2. \A i \in 0..Len(h) : Sums(h)[i] = F(i)
      BY <2>1
    <2> QED
      BY <2>2 DEF F
  <1> DEFINE Good(i) == Sums(h)[i] \in Nat /\ (i >= 2 => Sums(h)[i] >= h[1].tokens + h[2].tokens)
             Bad == {i \in 0..Len(h) : ~ Good(i)}
  <1>4. ASSUME Bad # {} PROVE FALSE
    <2>1. PICK n \in Bad : \A m \in Bad : n <= m
      <3>1. Bad \in SUBSET Nat
        BY <1>1
      <3> HIDE DEF Bad
      <3> QED
        BY <1>4, <3>1, LeastNumber
    <2>2. n \in 0..Len(h) /\ n \in Nat /\ ~ Good(n)
      BY <1>1
    <2>3. n # 0
      BY <1>1, <1>3, <2>2
    <2>4. n - 1 \in 0..Len(h) /\ n - 1 \notin Bad
      BY <1>1, <2>1, <2>2, <2>3
    <2>5. Good(n - 1)
      BY <2>4
    <2>6. Sums(h)[n] = Sums(h)[n - 1] + h[n].tokens /\ h[n].tokens \in Nat
      BY <1>1, <1>3, <2>2, <2>3
    <2>7. Sums(h)[n] \in Nat
      BY <2>5, <2>6
    <2>8. CASE n >= 3
      <3>1. 1 \in 1..Len(h) /\ 2 \in 1..Len(h) /\ n - 1 >= 2
        BY <1>1, <2>2, <2>8
      <3>2. h[1].tokens \in Nat /\ h[2].tokens \in Nat
        BY <1>1, <3>1
      <3>3. Sums(h)[n - 1] \in Nat /\ Sums(h)[n - 1] >= h[1].tokens + h[2].tokens
        BY <2>5, <3>1
      <3>4. Sums(h)[n] >= h[1].tokens + h[2].tokens
        <4> HIDE DEF Good, Bad
        <4> QED
          BY <2>6, <3>2, <3>3
      <3> QED
        BY <2>2, <2>7, <3>4
    <2>9. CASE n = 2
      <3>1. 1 \in 1..Len(h) /\ 0 \in 0..Len(h)
        BY <1>1, <2>2, <2>9
      <3>2. Sums(h)[0] = 0 /\ Sums(h)[1] = Sums(h)[0] + h[1].tokens /\ h[1].tokens \in Nat
        BY <1>1, <1>3, <3>1
      <3> QED
        BY <2>2, <2>6, <2>7, <2>9, <3>2
    <2> QED
      BY <2>2, <2>3, <2>7, <2>8, <2>9
  <1>5. 0 \in 0..Len(h) /\ \A i \in 1..Len(h) : i \in 0..Len(h) /\ i # 0
    BY <1>1
  <1> QED
    BY <1>3, <1>4, <1>5

\* Of the messages one at most is left out of the count.
AlmostCounted(h) == \A i, j \in DOMAIN h : i # j => h[i].tokens >= 1 \/ h[j].tokens >= 1

\* Two messages count one token at least, and a history ...
LEMMA TokensType ==
    ASSUME NEW h \in Seq(Message)
    PROVE  /\ Tokens(h) \in Nat
           /\ AlmostCounted(h) /\ Len(h) >= 2 => Tokens(h) >= 1
  <1>1. Len(h) \in Nat /\ Len(h) \in 0..Len(h)
    OBVIOUS
  <1>2. Tokens(h) \in Nat /\ (Len(h) >= 2 => Tokens(h) >= h[1].tokens + h[2].tokens)
    BY <1>1, SumsGrow, TokensAreSums
  <1>3. ASSUME AlmostCounted(h), Len(h) >= 2
        PROVE  Tokens(h) >= 1
    <2>1. 1 \in DOMAIN h /\ 2 \in DOMAIN h
      BY <1>1, <1>3
    <2>2. h[1].tokens \in Nat /\ h[2].tokens \in Nat
      BY <2>1, HistoryShape
    <2>3. h[1].tokens >= 1 \/ h[2].tokens >= 1
      BY <1>3, <2>1 DEF AlmostCounted
    <2> QED
      BY <1>2, <1>3, <2>2, <2>3
  <1> QED
    BY <1>2, <1>3

\* ... no fewer than a beginning of it.
LEMMA TokensGrow ==
    ASSUME NEW h \in Seq(Message), NEW e \in Seq(Message),
           Len(h) <= Len(e), \A i \in DOMAIN h : e[i] = h[i]
    PROVE  Tokens(h) <= Tokens(e)
  <1>1. Len(h) \in Nat /\ Len(e) \in Nat /\ DOMAIN h = 1..Len(h)
        /\ \A i \in 1..Len(e) : e[i].tokens \in Nat
    BY HistoryShape
  <1> DEFINE Bad == {i \in 0..Len(h) : Sums(e)[i] # Sums(h)[i]}
  <1>2. ASSUME Bad # {} PROVE FALSE
    <2>1. PICK n \in Bad : \A m \in Bad : n <= m
      <3>1. Bad \in SUBSET Nat
        BY <1>1
      <3> HIDE DEF Bad
      <3> QED
        BY <1>2, <3>1, LeastNumber
    <2>2. n \in 0..Len(h) /\ n \in Nat /\ Sums(e)[n] # Sums(h)[n]
      BY <1>1
    <2>3. n # 0
      BY <2>2, SumsGrow
    <2>4. n - 1 \in 0..Len(h) /\ n - 1 \notin Bad /\ n \in 1..Len(h) /\ n \in 1..Len(e)
      BY <1>1, <2>1, <2>2, <2>3
    <2>5. Sums(e)[n - 1] = Sums(h)[n - 1]
      BY <2>4
    <2>6. Sums(e)[n] = Sums(e)[n - 1] + e[n].tokens /\ Sums(h)[n] = Sums(h)[n - 1] + h[n].tokens
      BY <2>4, SumsGrow
    <2> QED
      BY <1>1, <2>2, <2>4, <2>5, <2>6
  <1> DEFINE Less == {i \in Len(h)..Len(e) : ~ (Sums(e)[i] >= Sums(e)[Len(h)])}
  <1>3. ASSUME Less # {} PROVE FALSE
    <2>1. PICK n \in Less : \A m \in Less : n <= m
      <3>1. Less \in SUBSET Nat
        BY <1>1
      <3> HIDE DEF Less
      <3> QED
        BY <1>3, <3>1, LeastNumber
    <2>2. n \in Len(h)..Len(e) /\ n \in Nat /\ ~ (Sums(e)[n] >= Sums(e)[Len(h)])
      BY <1>1
    <2> HIDE DEF Less
    <2>3. \A i \in 0..Len(e) : Sums(e)[i] \in Nat
      BY SumsGrow
    <2>4. n # Len(h)
      <3>1. Sums(e)[Len(h)] \in Nat
        BY <1>1, <2>3
      <3>2. Sums(e)[Len(h)] >= Sums(e)[Len(h)]
        BY <3>1
      <3> QED
        BY <2>2, <3>2
    <2>5. n - 1 \in Len(h)..Len(e) /\ n - 1 \notin Less /\ n \in 1..Len(e)
      <3>1. n > Len(h)
        <4>1. n \in Len(h)..Len(e) /\ Len(h) \in Nat /\ Len(e) \in Nat
          BY <1>1, <2>2
        <4> QED
          BY <2>4, <4>1
      <3>2. n - 1 \in Len(h)..Len(e) /\ n \in 1..Len(e) /\ ~ (n <= n - 1)
        BY <1>1, <2>2, <3>1
      <3> QED
        BY <2>1, <3>2
    <2>6. Sums(e)[n - 1] >= Sums(e)[Len(h)]
      BY <2>5 DEF Less
    <2>7. Sums(e)[n] = Sums(e)[n - 1] + e[n].tokens
      BY <2>5, SumsGrow
    <2>8. Sums(e)[n - 1] \in Nat /\ Sums(e)[Len(h)] \in Nat /\ e[n].tokens \in Nat
      BY <1>1, <2>2, <2>3, <2>5
    <2> QED
      BY <2>2, <2>6, <2>7, <2>8
  <1>4. Sums(e)[Len(h)] = Sums(h)[Len(h)]
    BY <1>1, <1>2
  <1>5. Sums(e)[Len(e)] >= Sums(e)[Len(h)]
    BY <1>1, <1>3
  <1>6. Sums(e)[Len(e)] \in Nat /\ Sums(h)[Len(h)] \in Nat
    BY <1>1, SumsGrow
  <1> QED
    BY <1>4, <1>5, <1>6, TokensAreSums

-----------------------------------------------------------------------------
(* Folds.                                                                  *)

\* Parts of a history are histories.
LEMMA PartsOfHistory ==
    ASSUME NEW h \in Seq(Message), NEW n \in 1..(Len(h) + 1), NEW m \in 0..Len(h), n <= m + 1
    PROVE  /\ SubSeq(h, n, m) \in Seq(Message)
           /\ Len(SubSeq(h, n, m)) = m - n + 1
           /\ DOMAIN SubSeq(h, n, m) = 1..(m - n + 1)
           /\ \A i \in 1..(m - n + 1) : n + i - 1 \in DOMAIN h /\ SubSeq(h, n, m)[i] = h[n + i - 1]
           /\ n = 1 /\ m = Len(h) => SubSeq(h, n, m) = h
  <1>1. Len(h) \in Nat /\ n \in Nat /\ m \in Nat /\ n >= 1 /\ m <= Len(h) /\ DOMAIN h = 1..Len(h)
    OBVIOUS
  <1>2. \A i \in n..m : h[i] \in Message
    BY <1>1
  <1>3. SubSeq(h, n, m) \in Seq(Message)
    BY <1>1, <1>2
  <1>4. Len(SubSeq(h, n, m)) = m - n + 1 /\ DOMAIN SubSeq(h, n, m) = 1..(m - n + 1)
    BY <1>1, <1>3
  <1>5. \A i \in 1..(m - n + 1) : n + i - 1 \in DOMAIN h /\ SubSeq(h, n, m)[i] = h[n + i - 1]
    BY <1>1, <1>3, <1>4
  <1>6. n = 1 /\ m = Len(h) => SubSeq(h, n, m) = h
    BY <1>1
  <1> QED
    BY <1>3, <1>4, <1>5, <1>6

\* The newest group may always start the raw tail, and is the last that may.
LEMMA NewestStart ==
    ASSUME NEW h \in Seq(Message), Len(h) > 0, NEW budget
    PROVE  /\ Max(GroupStarts(h)) \in TailStarts(h, budget)
           /\ Max(GroupStarts(h)) \in GroupStarts(h)
           /\ \A s \in GroupStarts(h) : s <= Max(GroupStarts(h))
  <1>1. GroupStarts(h) \subseteq 1..Len(h) /\ Len(h) \in Nat /\ 1 \in GroupStarts(h)
    BY StartsAre
  <1>2. GroupStarts(h) \in SUBSET Nat /\ GroupStarts(h) # {} /\ \A s \in GroupStarts(h) : s <= Len(h)
    BY <1>1
  <1>3. Max(GroupStarts(h)) \in GroupStarts(h) /\ \A s \in GroupStarts(h) : s <= Max(GroupStarts(h))
    BY <1>1, <1>2, MaxOfNumbers
  <1> QED
    BY <1>3 DEF TailStarts

LEMMA ManyStarts ==
    ASSUME NEW h \in Seq(Message)
    PROVE  /\ Cardinality(GroupStarts(h)) \in Nat
           /\ Cardinality(GroupStarts(h)) > 1 => \E c \in GroupStarts(h) : c > 1
           /\ (\A c \in GroupStarts(h) : c = 1) => Cardinality(GroupStarts(h)) <= 1
           /\ Len(h) > 0 => Cardinality(GroupStarts(h)) >= 1
  <1>1. GroupStarts(h) \subseteq 1..Len(h) /\ Len(h) \in Nat /\ (Len(h) > 0 => 1 \in GroupStarts(h))
    BY StartsAre
  <1>2. IsFiniteSet(GroupStarts(h))
    <2>1. IsFiniteSet(1..Len(h))
      BY <1>1, FS_Interval
    <2> QED
      BY <1>1, <2>1, FS_Subset
  <1>3. Cardinality(GroupStarts(h)) \in Nat
    BY <1>2, FS_CardinalityType
  <1>4. ASSUME \A c \in GroupStarts(h) : c = 1
        PROVE  Cardinality(GroupStarts(h)) <= 1
    <2>1. IsFiniteSet({1}) /\ Cardinality({1}) = 1
      BY FS_Singleton
    <2>2. GroupStarts(h) \in SUBSET {1}
      BY <1>4
    <2> QED
      BY <2>1, <2>2, FS_Subset
  <1>5. Cardinality(GroupStarts(h)) > 1 => \E c \in GroupStarts(h) : c > 1
    <2> SUFFICES ASSUME ~ \E c \in GroupStarts(h) : c > 1
                 PROVE  Cardinality(GroupStarts(h)) <= 1
      BY <1>3
    <2>1. \A c \in GroupStarts(h) : c \in Nat /\ c >= 1
      BY <1>1
    <2>2. \A c \in GroupStarts(h) : c = 1
      BY <2>1
    <2> QED
      BY <1>4, <2>2
  <1>6. Len(h) > 0 => Cardinality(GroupStarts(h)) >= 1
    BY <1>1, <1>2, <1>3, FS_EmptySet
  <1> QED
    BY <1>3, <1>4, <1>5, <1>6

\* If all there is exceeds the budget of the raw tail, a history of two groups can be cut.
LEMMA CutsExist ==
    ASSUME NEW h \in Seq(Message), NEW budget \in Nat, Tokens(h) > budget,
           NEW c \in GroupStarts(h), c > 1
    PROVE  Cuts(h, budget) # {}
  <1>1. GroupStarts(h) \subseteq 1..Len(h) /\ Len(h) \in Nat /\ c \in 1..Len(h) /\ Len(h) > 0
    BY StartsAre
  <1>2. Max(GroupStarts(h)) \in TailStarts(h, budget) /\ c <= Max(GroupStarts(h))
        /\ Max(GroupStarts(h)) \in Nat
    <2>1. /\ Max(GroupStarts(h)) \in TailStarts(h, budget)
          /\ Max(GroupStarts(h)) \in GroupStarts(h)
          /\ \A s \in GroupStarts(h) : s <= Max(GroupStarts(h))
      BY <1>1, NewestStart
    <2> QED
      BY <1>1, <2>1
  <1>3. 1 \notin TailStarts(h, budget)
    <2>1. SubSeq(h, 1, Len(h)) = h
      BY <1>1
    <2>2. 1 # Max(GroupStarts(h))
      BY <1>1, <1>2
    <2>3. ~ (Tokens(SubSeq(h, 1, Len(h))) <= budget)
      <3>1. Tokens(h) \in Nat
        BY TokensType
      <3>2. ~ (Tokens(h) <= budget)
        BY <3>1
      <3> QED
        BY <2>1, <3>2
    <2> QED
      BY <2>2, <2>3 DEF TailStarts
  <1>4. TailStarts(h, budget) \subseteq GroupStarts(h)
    BY DEF TailStarts
  <1>5. TailStarts(h, budget) \in SUBSET Nat /\ TailStarts(h, budget) # {}
    BY <1>1, <1>2, <1>4
  <1>6. PICK d \in TailStarts(h, budget) : \A s \in TailStarts(h, budget) : d <= s
    BY <1>5, LeastNumber
  <1>7. d \in GroupStarts(h) /\ d > 1
    BY <1>1, <1>3, <1>4
  <1> QED
    BY <1>6, <1>7 DEF Cuts

LEMMA CutsAre ==
    ASSUME NEW h \in Seq(Message), NEW budget
    PROVE  /\ Cuts(h, budget) \subseteq GroupStarts(h)
           /\ \A c \in Cuts(h, budget) : c \in 2..Len(h)
  <1>1. GroupStarts(h) \subseteq 1..Len(h) /\ Len(h) \in Nat
    BY StartsAre
  <1> QED
    BY <1>1 DEF Cuts

\* A fold under a token budget ends before one of the cuts, and is empty if there are none.
LEMMA FoldIsCut ==
    ASSUME NEW h \in Seq(Message), NEW budget, NEW limit \in Nat
    PROVE  /\ Cuts(h, budget) = {} => FoldByTokens(h, budget, limit) = <<>>
           /\ Cuts(h, budget) # {} => \E c \in Cuts(h, budget) :
                 /\ FoldByTokens(h, budget, limit) = SubSeq(h, 1, c - 1)
                 /\ Len(FoldByTokens(h, budget, limit)) = c - 1
                 /\ FoldByTokens(h, budget, limit) # <<>>
                 /\ Last(FoldByTokens(h, budget, limit)) = h[c - 1]
                 /\ c - 1 \in DOMAIN h
  <1> DEFINE cuts == Cuts(h, budget)
             Ends == {d \in cuts : d = Min(cuts) \/ d - 1 <= limit}
             S == {0} \union {c - 1 : c \in Ends}
  <1>1. Len(h) \in Nat /\ \A c \in cuts : c \in 2..Len(h)
    BY CutsAre
  <1>2. S \in SUBSET Nat /\ S # {} /\ \A x \in S : x <= Len(h)
    BY <1>1
  <1>3. Max(S) \in S /\ \A x \in S : x <= Max(S)
    <2> HIDE DEF S
    <2> QED
      BY <1>1, <1>2, MaxOfNumbers
  <1>4. FoldByTokens(h, budget, limit) = SubSeq(h, 1, Max(S))
    BY DEF FoldByTokens, BatchEnd
  <1>5. ASSUME cuts = {} PROVE FoldByTokens(h, budget, limit) = <<>>
    <2>1. Max(S) = 0
      BY <1>3, <1>5
    <2>2. SubSeq(h, 1, 0) = <<>>
      BY <1>1
    <2> QED
      BY <1>4, <2>1, <2>2
  <1>6. ASSUME cuts # {}
        PROVE  \E c \in cuts :
                 /\ FoldByTokens(h, budget, limit) = SubSeq(h, 1, c - 1)
                 /\ Len(FoldByTokens(h, budget, limit)) = c - 1
                 /\ FoldByTokens(h, budget, limit) # <<>>
                 /\ Last(FoldByTokens(h, budget, limit)) = h[c - 1]
                 /\ c - 1 \in DOMAIN h
    <2>1. Min(cuts) \in cuts
      <3>1. cuts \in SUBSET Nat
        BY <1>1
      <3> HIDE DEF cuts
      <3> QED
        BY <1>6, <3>1, MinOfNumbers
    <2>2. Min(cuts) - 1 \in S /\ Min(cuts) - 1 >= 1 /\ Min(cuts) \in Nat
      BY <1>1, <2>1
    <2>3. Max(S) # 0
      BY <1>2, <1>3, <2>2
    <2>4. PICK c \in cuts : Max(S) = c - 1
      BY <1>3, <2>3
    <2>5. c \in 2..Len(h)
      BY <1>1
    <2> HIDE DEF S, cuts
    <2>6. /\ Len(SubSeq(h, 1, c - 1)) = c - 1
          /\ SubSeq(h, 1, c - 1)[c - 1] = h[c - 1]
          /\ c - 1 \in DOMAIN h
      <3>1. 1 \in 1..(Len(h) + 1) /\ c - 1 \in 0..Len(h) /\ 1 <= (c - 1) + 1 /\ c - 1 \in Nat
        BY <1>1, <2>5
      <3>2. /\ Len(SubSeq(h, 1, c - 1)) = (c - 1) - 1 + 1
            /\ \A i \in 1..((c - 1) - 1 + 1) :
                  1 + i - 1 \in DOMAIN h /\ SubSeq(h, 1, c - 1)[i] = h[1 + i - 1]
        BY <3>1, PartsOfHistory
      <3>3. (c - 1) - 1 + 1 = c - 1 /\ 1 + (c - 1) - 1 = c - 1 /\ c - 1 \in 1..((c - 1) - 1 + 1)
        BY <2>5
      <3> QED
        BY <3>2, <3>3
    <2>7. SubSeq(h, 1, c - 1) # <<>>
      BY <2>5, <2>6
    <2> QED
      BY <1>4, <2>4, <2>6, <2>7 DEF Last
  <1> QED
    BY <1>5, <1>6

\* A fold of the count mode is a beginning of the history.
LEMMA FoldByCountIs ==
    ASSUME NEW h \in Seq(Message), NEW tail \in Nat \ {0}, NEW limit \in Nat \ {0},
           FoldByCount(h, tail, limit) # <<>>
    PROVE  \E n \in DOMAIN h : Last(FoldByCount(h, tail, limit)) = h[n]
  <1> DEFINE start == Len(h) - tail
             job == h[start + 1].job
             Runs == {s \in 0..start : \A p \in (s + 1)..start : h[p].job = job}
             foldable == RawTailStart(h, tail)
  <1>1. Len(h) \in Nat /\ DOMAIN h = 1..Len(h)
    OBVIOUS
  <1>2. foldable \in 0..Len(h)
    <2>1. CASE start <= 0
      BY <1>1, <2>1 DEF RawTailStart
    <2>2. CASE start > 0
      <3>1. start \in Runs
        BY <1>1, <2>2
      <3>2. Min(Runs) \in 0..start
        <4>1. Runs \in SUBSET Nat /\ Runs # {}
          <5>1. \A s \in Runs : s \in 0..start
            OBVIOUS
          <5> HIDE DEF Runs
          <5> QED
            BY <3>1, <5>1
        <4>2. Min(Runs) \in Runs
          <5> HIDE DEF Runs
          <5> QED
            BY <4>1, MinOfNumbers
        <4> QED
          BY <4>2
      <3>3. foldable = IF job = NoJob THEN start
                       ELSE IF Min(Runs) > 0 /\ h[Min(Runs)].job = NoJob THEN Min(Runs) - 1
                       ELSE Min(Runs)
        BY <1>1, <2>2 DEF RawTailStart
      <3> HIDE DEF foldable, Runs, job
      <3>4. start \in 0..Len(h) /\ start \in Nat
        BY <1>1, <2>2
      <3>5. Min(Runs) \in 0..Len(h) /\ (Min(Runs) > 0 => Min(Runs) - 1 \in 0..Len(h))
        BY <1>1, <3>2, <3>4
      <3> QED
        BY <3>3, <3>4, <3>5
    <2> QED
      BY <1>1, <2>1, <2>2
  <1> DEFINE take == Min({foldable, limit})
             Ends == {e \in take..foldable : \A p \in (take + 1)..e : h[p].job = h[take].job}
  <1>3. foldable # 0
    BY DEF FoldByCount
  <1> HIDE DEF foldable
  <1>4. take \in 1..foldable
    <2>1. take = IF foldable <= limit THEN foldable ELSE limit
      BY <1>1, <1>2, OfTwoNumbers
    <2> QED
      BY <1>1, <1>2, <1>3, <2>1
  <1> HIDE DEF take
  <1>5. Max(Ends) \in take..foldable
    <2>1. take \in Ends
      BY <1>1, <1>2, <1>4
    <2>2. Ends \in SUBSET Nat /\ Ends # {} /\ foldable \in Nat /\ \A e \in Ends : e <= foldable
      <3>1. foldable \in Nat /\ take \in Nat
        BY <1>1, <1>2, <1>4
      <3>2. \A e \in Ends : e \in take..foldable
        OBVIOUS
      <3> HIDE DEF Ends
      <3> QED
        BY <2>1, <3>1, <3>2
    <2>3. Max(Ends) \in Ends
      <3> HIDE DEF Ends
      <3> QED
        BY <2>2, MaxOfNumbers
    <2> QED
      BY <2>3
  <1>6. FoldByCount(h, tail, limit)
            = SubSeq(h, 1, IF h[take].job = NoJob THEN take ELSE Max(Ends))
    BY <1>3 DEF FoldByCount, foldable, take
  <1> HIDE DEF Ends
  <1>7. PICK n \in 1..Len(h) : FoldByCount(h, tail, limit) = SubSeq(h, 1, n)
    <2>1. take \in 1..Len(h) /\ Max(Ends) \in 1..Len(h)
      BY <1>1, <1>2, <1>4, <1>5
    <2> QED
      BY <1>6, <2>1
  <1>8. Len(SubSeq(h, 1, n)) = n /\ SubSeq(h, 1, n)[n] = h[n]
    BY <1>1
  <1> QED
    BY <1>1, <1>7, <1>8 DEF Last

-----------------------------------------------------------------------------
(* Pressure.                                                               *)

LEMMA BudgetIs ==
    ASSUME NEW mandatory \in Nat, NEW working \in Nat
    PROVE  /\ RawTailBudget(mandatory, working) \in Nat
           /\ RawTailBudget(mandatory, working) # 0
                 => RawTailBudget(mandatory, working) = (65 * working) \div 100 - mandatory
  <1> DEFINE b == (65 * working) \div 100 - mandatory
             S == {0, b}
  <1>1. b \in Int
    OBVIOUS
  <1>2. RawTailBudget(mandatory, working) = Max({0, b})
    BY DEF RawTailBudget, LowWatermark
  <1> HIDE DEF b
  <1>3. CASE b >= 0
    <2>1. b \in Nat
      BY <1>1, <1>3
    <2>2. Max({0, b}) = b
      BY <2>1, OfTwoNumbers
    <2> QED
      BY <1>2, <2>1, <2>2 DEF b
  <1>4. CASE b < 0
    <2>1. \E x \in {0, b} : \A y \in {0, b} : x >= y
      BY <1>1, <1>4
    <2>2. Max({0, b}) \in {0, b} /\ \A y \in {0, b} : Max({0, b}) >= y
      BY <2>1 DEF Max
    <2>3. Max({0, b}) = 0
      BY <1>1, <1>4, <2>2
    <2> QED
      BY <1>2, <2>3
  <1> QED
    BY <1>1, <1>3, <1>4

\* A history within the budget of the raw tail is under the watermarks.
LEMMA WithinBudget ==
    ASSUME NEW h \in Seq(Message), Tokens(h) >= 1, NEW mandatory \in Nat, NEW working \in Nat,
           Tokens(h) <= RawTailBudget(mandatory, working)
    PROVE  Pressure(h, mandatory, working) = "low"
  <1> DEFINE b == RawTailBudget(mandatory, working)
             t == Tokens(h)
  <1>1. t \in Nat /\ t >= 1
    BY TokensType
  <1>2. b \in Nat /\ (b # 0 => b = (65 * working) \div 100 - mandatory) /\ t <= b
    BY BudgetIs
  <1> HIDE DEF b
  <1>3. mandatory + t <= (65 * working) \div 100
    BY <1>1, <1>2
  <1>4. 100 * ((65 * working) \div 100) <= 65 * working
    OBVIOUS
  <1>5. 100 * (mandatory + t) <= 65 * working
    BY <1>1, <1>3, <1>4
  <1>6. ~ (mandatory + t > working) /\ ~ (100 * (mandatory + t) >= 82 * working)
    BY <1>1, <1>5
  <1> QED
    BY <1>6 DEF Pressure, HighWatermark

\* Pressure does not fall when a history grows.
LEMMA PressureGrows ==
    ASSUME NEW h \in Seq(Message), NEW e \in Seq(Message),
           Len(h) <= Len(e), \A i \in DOMAIN h : e[i] = h[i],
           NEW mandatory \in Nat, NEW working \in Nat,
           Pressure(h, mandatory, working) # "low"
    PROVE  Pressure(e, mandatory, working) # "low"
  <1>1. Tokens(h) \in Nat /\ Tokens(e) \in Nat /\ Tokens(h) <= Tokens(e)
    BY TokensType, TokensGrow
  <1>2. \/ mandatory + Tokens(h) > working
        \/ 100 * (mandatory + Tokens(h)) >= 82 * working
    BY DEF Pressure, HighWatermark
  <1>3. \/ mandatory + Tokens(e) > working
        \/ 100 * (mandatory + Tokens(e)) >= 82 * working
    BY <1>1, <1>2
  <1> QED
    BY <1>3 DEF Pressure, HighWatermark

\* Under pressure a history of two groups or more leaves something to fold.
LEMMA PressureCuts ==
    ASSUME NEW h \in Seq(Message), AlmostCounted(h), NEW mandatory \in Nat, NEW working \in Nat,
           Pressure(h, mandatory, working) # "low", Cardinality(GroupStarts(h)) > 1
    PROVE  Cuts(h, RawTailBudget(mandatory, working)) # {}
  <1>1. PICK c \in GroupStarts(h) : c > 1
    BY ManyStarts
  <1>2. Len(h) >= 2
    <2>1. c \in 1..Len(h) /\ Len(h) \in Nat
      BY StartsAre
    <2> QED
      BY <1>1, <2>1
  <1>3. RawTailBudget(mandatory, working) \in Nat /\ Tokens(h) \in Nat /\ Tokens(h) >= 1
    BY <1>2, BudgetIs, TokensType
  <1>4. Tokens(h) > RawTailBudget(mandatory, working)
    BY <1>2, <1>3, WithinBudget
  <1> QED
    BY <1>1, <1>3, <1>4, CutsExist

IdsUnique(h) == \A i, j \in DOMAIN h : h[i].id = h[j].id => i = j

\* The newest group of a history is one group by itself: what ties its messages together is
\* in it, even where a reach in the history before it is forgotten.
LEMMA NewestTurnAlone ==
    ASSUME NEW h \in Seq(Message), IdsUnique(h),
           NEW n \in GroupStarts(h), \A s \in GroupStarts(h) : s <= n,
           ~Forgotten(SubSeq(h, n, Len(h)))
    PROVE  Cardinality(GroupStarts(SubSeq(h, n, Len(h)))) <= 1
  <1> DEFINE rest == SubSeq(h, n, Len(h))
  <1>1. Len(h) \in Nat /\ n \in 1..Len(h) /\ DOMAIN h = 1..Len(h)
    BY StartsAre
  <1>2. /\ rest \in Seq(Message) /\ DOMAIN rest = 1..(Len(h) - n + 1)
        /\ \A i \in 1..(Len(h) - n + 1) : n + i - 1 \in DOMAIN h /\ rest[i] = h[n + i - 1]
    <2>1. n \in 1..(Len(h) + 1) /\ Len(h) \in 0..Len(h) /\ n <= Len(h) + 1
      BY <1>1
    <2> QED
      BY <2>1, PartsOfHistory
  <1> HIDE DEF rest
  <1>3. \A id : Present(rest, id) => Present(h, id)
    BY <1>2 DEF Present
  <1>4. ASSUME NEW q \in DOMAIN h, q >= n, Tied(h, q), SourceOf(h, q) >= n
        PROVE  /\ q - n + 1 \in DOMAIN rest /\ Tied(rest, q - n + 1)
               /\ SourceOf(rest, q - n + 1) = SourceOf(h, q) - n + 1
    <2>1. SourceOf(h, q) \in DOMAIN h /\ h[SourceOf(h, q)].id = h[q].job.of
      BY <1>4, IndexKnown DEF Tied, SourceOf
    <2>2. PICK s \in DOMAIN h : s = SourceOf(h, q)
      BY <2>1
    <2>3. s \in Nat /\ s >= n /\ s <= Len(h) /\ q \in Nat /\ q <= Len(h)
      BY <1>1, <1>4, <2>2
    <2>4. /\ q - n + 1 \in DOMAIN rest /\ s - n + 1 \in DOMAIN rest
          /\ n + (q - n + 1) - 1 = q /\ n + (s - n + 1) - 1 = s
      BY <1>1, <1>2, <1>4, <2>3
    <2>5. rest[q - n + 1] = h[q] /\ rest[s - n + 1] = h[s]
      BY <1>2, <2>4
    <2>6. Present(rest, h[q].job.of)
      BY <2>1, <2>2, <2>4, <2>5 DEF Present
    <2>7. Tied(rest, q - n + 1)
      BY <1>4, <2>5, <2>6 DEF Tied, Authoritative
    <2>8. PICK i \in DOMAIN rest : i = IndexOf(rest, h[q].job.of) /\ rest[i].id = h[q].job.of
      BY <1>2, <2>6, IndexKnown
    <2>9. n + i - 1 \in DOMAIN h /\ h[n + i - 1].id = h[s].id
      BY <1>2, <2>1, <2>2, <2>8
    <2>10. n + i - 1 = s
      BY <2>9 DEF IdsUnique
    <2>11. i = s - n + 1
      BY <1>1, <1>2, <2>3, <2>8, <2>10
    <2> QED
      BY <2>2, <2>4, <2>5, <2>7, <2>8, <2>11 DEF SourceOf
  <1>5. ASSUME NEW i \in GroupStarts(rest), i # 1 PROVE FALSE
    <2>1. i \in DOMAIN rest /\ i \in Nat /\ i > 1 /\ n + i - 1 \in DOMAIN h /\ n + i - 1 > n
      <3>1. i \in DOMAIN rest
        BY <1>2, StartsAre
      <3> QED
        BY <1>1, <1>2, <1>5, <3>1
    <2>2. PICK x \in DOMAIN h : x = n + i - 1
      BY <2>1
    <2>3. x \in Nat /\ x > n /\ x <= Len(h) /\ x \notin GroupStarts(h)
      BY <1>1, <2>1, <2>2
    <2>4. PICK k \in 1..(x - 1) : ~ (IntervalEnd(h, k) < x)
      BY <2>3, StartsAre
    <2>5. k \in DOMAIN h /\ k < x /\ k \in Nat
      BY <1>1, <2>3
    <2>6. IntervalEnd(h, k) \in k..Len(h) /\ x <= IntervalEnd(h, k)
      <3>1. IntervalEnd(h, k) \in k..Len(h)
        BY <2>5, IntervalEndIs
      <3> QED
        BY <1>1, <2>3, <2>4, <2>5, <3>1
    <2>7. k >= n
      <3> SUFFICES ASSUME k < n PROVE FALSE
        BY <1>1, <2>5
      <3>1. k \in 1..(n - 1) /\ n \in DOMAIN h
        BY <1>1, <2>5
      <3>2. IntervalEnd(h, k) < n
        BY <3>1, StartsAre
      <3> QED
        BY <1>1, <2>3, <2>5, <2>6, <3>2
    <2>8. TiedFrom(h, k, x)
      BY <2>5, <2>6, ReachTies
    <2>9. ASSUME NEW q \in DOMAIN h, Tied(h, q), q >= k, SourceOf(h, q) >= k,
                 (q < x) # (SourceOf(h, q) < x)
          PROVE  Separates(rest, i)
      <3>1. PICK s \in DOMAIN h : s = SourceOf(h, q)
        BY <2>9, IndexKnown DEF Tied, SourceOf
      <3>2. q \in Nat /\ s \in Nat /\ q >= n /\ s >= n
        BY <1>1, <2>5, <2>7, <2>9, <3>1
      <3>3. /\ q - n + 1 \in DOMAIN rest /\ Tied(rest, q - n + 1)
            /\ SourceOf(rest, q - n + 1) = s - n + 1
        BY <1>4, <2>9, <3>1, <3>2
      <3>4. ((q - n + 1) < i) # ((s - n + 1) < i)
        <4>1. ((q - n + 1) < i <=> q < x) /\ ((s - n + 1) < i <=> s < x)
          BY <1>1, <2>1, <2>2, <3>2
        <4> QED
          BY <2>9, <3>1, <4>1
      <3> QED
        BY <3>3, <3>4 DEF Separates, Tied, SourceOf
    <2>10. ASSUME x > k, h[x].job # NoJob, ~Authoritative(h, h[x].job),
                  h[x - 1].job \in {NoJob, h[x].job}
           PROVE  Separates(rest, i)
      <3>1. rest[i] = h[x]
        BY <1>2, <2>1, <2>2
      <3>2. rest[i - 1] = h[x - 1]
        <4>1. i - 1 \in 1..(Len(h) - n + 1) /\ n + (i - 1) - 1 = x - 1
          BY <1>1, <1>2, <2>1, <2>2
        <4> QED
          BY <1>2, <4>1
      <3>3. ~Authoritative(rest, h[x].job)
        BY <1>3, <2>10 DEF Authoritative
      <3> QED
        BY <2>1, <2>10, <3>1, <3>2, <3>3 DEF Separates
    <2>11. Separates(rest, i)
      BY <2>8, <2>9, <2>10 DEF TiedFrom
    <2>12. i \notin GroupStarts(rest)
      <3>1. ~Forgotten(rest)
        BY DEF rest
      <3> QED
        BY <1>2, <2>1, <2>11, <3>1, StartsSeparate
    <2> QED
      BY <1>5, <2>12
  <1>6. Cardinality(GroupStarts(rest)) <= 1
    BY <1>2, <1>5, ManyStarts
  <1> QED
    BY <1>6 DEF rest

\* What comes from one message on counts as much of it ...
LEMMA RestCounted ==
    ASSUME NEW h \in Seq(Message), AlmostCounted(h), NEW n \in Nat, n \in 1..Len(h)
    PROVE  SubSeq(h, n, Len(h)) \in Seq(Message) /\ AlmostCounted(SubSeq(h, n, Len(h)))
  <1> DEFINE rest == SubSeq(h, n, Len(h))
  <1>1. Len(h) \in Nat
    OBVIOUS
  <1>2. n \in 1..(Len(h) + 1) /\ Len(h) \in 0..Len(h) /\ n <= Len(h) + 1
    BY <1>1
  <1>3. /\ rest \in Seq(Message) /\ DOMAIN rest = 1..(Len(h) - n + 1)
        /\ \A i \in 1..(Len(h) - n + 1) : n + i - 1 \in DOMAIN h /\ rest[i] = h[n + i - 1]
    BY <1>2, PartsOfHistory
  <1> HIDE DEF rest
  <1>4. ASSUME NEW i \in DOMAIN rest, NEW j \in DOMAIN rest, i # j
        PROVE  rest[i].tokens >= 1 \/ rest[j].tokens >= 1
    <2>1. n + i - 1 # n + j - 1
      BY <1>1, <1>3, <1>4
    <2>2. n + i - 1 \in DOMAIN h /\ n + j - 1 \in DOMAIN h
      BY <1>3
    <2>3. rest[i] = h[n + i - 1] /\ rest[j] = h[n + j - 1]
      BY <1>3
    <2> QED
      BY <2>1, <2>2, <2>3 DEF AlmostCounted
  <1>5. AlmostCounted(rest)
    BY <1>4 DEF AlmostCounted
  <1> QED
    BY <1>3, <1>5 DEF rest

\* ... and is one turn when it counts nothing.
LEMMA NothingIsOneTurn ==
    ASSUME NEW h \in Seq(Message), AlmostCounted(h), ~(Tokens(h) >= 1)
    PROVE  Cardinality(GroupStarts(h)) <= 1
  <1>1. Len(h) \in Nat /\ DOMAIN h = 1..Len(h)
    OBVIOUS
  <1>2. Len(h) <= 1
    BY <1>1, TokensType
  <1>3. \A s \in GroupStarts(h) : s = 1
    BY <1>1, <1>2, StartsAre
  <1> QED
    BY <1>3, ManyStarts

\* What a fold leaves that was not cut short.
LEMMA FoldLeavesRoom ==
    ASSUME NEW h \in Seq(Message), IdsUnique(h), AlmostCounted(h),
           NEW mandatory \in Nat, NEW working \in Nat, NEW limit \in Nat,
           NEW fold, fold = FoldByTokens(h, RawTailBudget(mandatory, working), limit),
           \A c \in Cuts(h, RawTailBudget(mandatory, working)) : c <= Len(fold) + 1,
           NEW rest, rest = SubSeq(h, Len(fold) + 1, Len(h))
    PROVE  \/ Pressure(rest, mandatory, working) = "low"
           \/ Cardinality(GroupStarts(rest)) <= 1
           \/ Forgotten(rest)
  <1> DEFINE budget == RawTailBudget(mandatory, working)
             cuts == Cuts(h, budget)
             tails == TailStarts(h, budget)
  <1>1. Len(h) \in Nat /\ budget \in Nat
    BY BudgetIs
  <1>2. CASE cuts = {}
    <2>1. fold = <<>>
      BY <1>2, FoldIsCut
    <2>2. rest = h
      BY <1>1, <2>1
    <2>3. CASE Cardinality(GroupStarts(h)) > 1
      BY <1>2, <2>2, <2>3, PressureCuts
    <2>4. CASE ~ (Cardinality(GroupStarts(h)) > 1)
      <3>1. Cardinality(GroupStarts(h)) \in Nat
        BY ManyStarts
      <3>2. Cardinality(GroupStarts(h)) <= 1
        BY <2>4, <3>1
      <3> QED
        BY <2>2, <3>2
    <2> QED
      BY <2>3, <2>4
  <1>3. CASE cuts # {}
    <2>1. PICK c \in cuts : Len(fold) = c - 1
      BY <1>3, FoldIsCut
    <2>2. c \in 2..Len(h) /\ \A d \in cuts : d \in 2..Len(h)
      BY CutsAre
    <2>3. Len(fold) + 1 = c /\ rest = SubSeq(h, c, Len(h))
      BY <2>1, <2>2
    <2>4. c \in GroupStarts(h) /\ \A s \in tails : c <= s
      BY DEF Cuts
    <2>5. Max(GroupStarts(h)) \in tails /\ \A s \in GroupStarts(h) : s <= Max(GroupStarts(h))
      <3>1. Len(h) > 0
        BY <1>1, <2>2
      <3> QED
        BY <3>1, NewestStart
    <2>6. tails \in SUBSET Nat /\ tails # {} /\ tails \subseteq GroupStarts(h)
      <3>1. GroupStarts(h) \subseteq 1..Len(h)
        BY StartsAre
      <3>2. tails \subseteq GroupStarts(h)
        BY DEF TailStarts
      <3> QED
        BY <1>1, <2>5, <3>1, <3>2
    <2>7. PICK d \in tails : \A s \in tails : d <= s
      <3> HIDE DEF tails
      <3> QED
        BY <2>6, LeastNumber
    <2>8. d \in Nat /\ c <= d /\ d \in GroupStarts(h)
      BY <2>4, <2>6
    <2>9. d \in cuts
      <3>1. d > 1
        BY <2>2, <2>8
      <3> QED
        BY <2>7, <2>8, <3>1 DEF Cuts
    <2>10. d = c
      BY <2>2, <2>3, <2>8, <2>9
    <2>11. c = Max(GroupStarts(h)) \/ Tokens(rest) <= budget
      BY <2>3, <2>10 DEF TailStarts
    <2>12. CASE c = Max(GroupStarts(h))
      <3>1. \A s \in GroupStarts(h) : s <= c
        BY <2>5, <2>12
      <3> QED
        BY <2>3, <2>4, <3>1, NewestTurnAlone
    <2>13. CASE Tokens(rest) <= budget
      <3>1. rest \in Seq(Message) /\ AlmostCounted(rest)
        <4>1. c \in Nat /\ c \in 1..Len(h)
          BY <1>1, <2>2
        <4>2. SubSeq(h, c, Len(h)) \in Seq(Message) /\ AlmostCounted(SubSeq(h, c, Len(h)))
          BY <4>1, RestCounted
        <4> QED
          BY <2>3, <4>2
      <3>2. CASE Tokens(rest) >= 1
        BY <2>13, <3>1, <3>2, WithinBudget
      <3>3. CASE ~(Tokens(rest) >= 1)
        BY <3>1, <3>3, NothingIsOneTurn
      <3> QED
        BY <3>2, <3>3
    <2> QED
      BY <2>11, <2>12, <2>13
  <1> QED
    BY <1>2, <1>3

-----------------------------------------------------------------------------
(* Capacities.                                                             *)

LEMMA CapacityIs ==
    ASSUME NEW option \in [window : Nat, output : Nat]
    PROVE  LET capacity == Capacity(option, DefaultOption, Reserve, RoomBudget)
           IN  /\ capacity.window \in Nat \ {0} /\ capacity.completion \in Nat
               /\ capacity.available \in Nat /\ capacity.working \in Nat
               /\ capacity.working <= capacity.available
               /\ capacity.completion + Reserve < capacity.window
                     => capacity.available = capacity.window - capacity.completion - Reserve
  <1> DEFINE window == IF option.window > 0 THEN option.window ELSE DefaultOption.window
             output == IF option.output > 0 THEN option.output ELSE DefaultOption.output
             completion == Min({output, Max({1, window - 1})})
             left == window - completion - Reserve
             available == Max({1, left})
             working == IF RoomBudget <= 0 THEN available ELSE Min({available, RoomBudget})
  <1>1. window \in Nat \ {0} /\ output \in Nat \ {0} /\ Reserve \in Nat /\ RoomBudget \in Nat
    BY HistoryAssumption
  <1>2. Capacity(option, DefaultOption, Reserve, RoomBudget)
           = [window |-> window, completion |-> completion, available |-> available,
              working |-> working]
    BY DEF Capacity
  <1> HIDE DEF window, output
  <1>3. completion \in Nat
    <2>1. window - 1 \in Nat
      BY <1>1
    <2>2. Max({1, window - 1}) = IF 1 <= window - 1 THEN window - 1 ELSE 1
      BY <2>1, OfTwoNumbers
    <2>3. Max({1, window - 1}) \in Nat
      BY <2>1, <2>2
    <2> QED
      BY <1>1, <2>3, OfTwoNumbers
  <1> HIDE DEF completion
  <1>4. left \in Int
    BY <1>1, <1>3
  <1> HIDE DEF left
  <1>5. available \in Nat /\ (left >= 1 => available = left)
    <2>1. CASE left >= 1
      <3>1. left \in Nat
        BY <1>4, <2>1
      <3>2. Max({1, left}) = left
        BY <2>1, <3>1, OfTwoNumbers
      <3> QED
        BY <3>1, <3>2
    <2>2. CASE left < 1
      <3>1. \E x \in {1, left} : \A y \in {1, left} : x >= y
        BY <1>4, <2>2
      <3>2. Max({1, left}) \in {1, left} /\ \A y \in {1, left} : Max({1, left}) >= y
        BY <3>1 DEF Max
      <3>3. Max({1, left}) = 1
        BY <1>4, <2>2, <3>2
      <3> QED
        BY <1>4, <2>2, <3>3
    <2> QED
      BY <1>4, <2>1, <2>2
  <1> HIDE DEF available
  <1>6. working \in Nat /\ working <= available
    <2>1. Min({available, RoomBudget}) = IF available <= RoomBudget THEN available ELSE RoomBudget
      BY <1>1, <1>5, OfTwoNumbers
    <2> QED
      BY <1>1, <1>5, <2>1
  <1> HIDE DEF working
  <1>7. completion + Reserve < window => left = window - completion - Reserve /\ left >= 1
    BY <1>1, <1>3 DEF left
  <1> QED
    BY <1>1, <1>2, <1>3, <1>5, <1>6, <1>7

LEMMA WorkingIs ==
    ASSUME NEW pair \in Routes
    PROVE  /\ SafeWorking(pair, DefaultOption, Reserve, RoomBudget) \in Nat
           /\ DOMAIN pair = 1..2
           /\ \A r \in 1..2 :
                 SafeWorking(pair, DefaultOption, Reserve, RoomBudget)
                    <= Capacity(pair[r], DefaultOption, Reserve, RoomBudget).working
  <1> DEFINE W(r) == Capacity(pair[r], DefaultOption, Reserve, RoomBudget).working
  <1>1. pair \in [1..2 -> [window : Nat, output : Nat]]
    BY HistoryAssumption
  <1>2. \A r \in 1..2 : W(r) \in Nat
    BY <1>1, CapacityIs
  <1> HIDE DEF W
  <1>3. {W(r) : r \in 1..2} \in SUBSET Nat /\ {W(r) : r \in 1..2} # {}
    BY <1>2
  <1>4. Min({W(r) : r \in 1..2}) \in {W(r) : r \in 1..2}
        /\ \A x \in {W(r) : r \in 1..2} : Min({W(r) : r \in 1..2}) <= x
    BY <1>3, MinOfNumbers
  <1>5. SafeWorking(pair, DefaultOption, Reserve, RoomBudget) = Min({W(r) : r \in 1..2})
    BY <1>1 DEF SafeWorking, W
  <1>6. Min({W(r) : r \in 1..2}) \in Nat /\ \A n \in 1..2 : Min({W(r) : r \in 1..2}) <= W(n)
    BY <1>3, <1>4
  <1> QED
    BY <1>1, <1>5, <1>6 DEF W

-----------------------------------------------------------------------------
(* The growing room.                                                       *)

\* Ids are positions, a reply follows what it answers, and the boundary is a message.
HistoryTypeOK ==
    /\ history \in Seq(Message)
    /\ \A i \in DOMAIN history :
          /\ history[i].id = i /\ history[i].tokens >= 1
          /\ history[i].job.of < i
          /\ history[i].job.of > 0 => history[i].job.kind \in {"job", "sync"}
    /\ folded \in 0..Len(history)
    /\ routes \in Routes
    /\ tasks \subseteq [mandatory : Nat, boundary : Nat]

\* The pressure a task was queued under lasts until something is folded.
TaskPressure ==
    \A task \in tasks :
        /\ task.boundary <= folded
        /\ task.boundary = folded =>
              /\ Suffix # <<>>
              /\ Pressure(Suffix, task.mandatory, Working) # "low"

HistoryInv == HistoryTypeOK /\ TaskPressure

LEMMA SuffixIs ==
    ASSUME HistoryTypeOK
    PROVE  /\ Suffix \in Seq(Message) /\ Len(Suffix) = Len(history) - folded
           /\ DOMAIN Suffix = 1..(Len(history) - folded)
           /\ \A i \in DOMAIN Suffix : folded + i \in DOMAIN history /\ Suffix[i] = history[folded + i]
           /\ IdsUnique(Suffix)
           /\ Working \in Nat
  <1>1. /\ history \in Seq(Message) /\ Len(history) \in Nat /\ folded \in 0..Len(history)
        /\ routes \in Routes /\ \A i \in DOMAIN history : history[i].id = i
    BY DEF HistoryTypeOK
  <1>2. folded + 1 \in 1..(Len(history) + 1) /\ Len(history) \in 0..Len(history)
        /\ folded + 1 <= Len(history) + 1
    BY <1>1
  <1>3. /\ Suffix \in Seq(Message) /\ Len(Suffix) = Len(history) - (folded + 1) + 1
        /\ DOMAIN Suffix = 1..(Len(history) - (folded + 1) + 1)
        /\ \A i \in 1..(Len(history) - (folded + 1) + 1) :
              (folded + 1) + i - 1 \in DOMAIN history /\ Suffix[i] = history[(folded + 1) + i - 1]
    BY <1>1, <1>2, PartsOfHistory DEF Suffix
  <1>4. Len(history) - (folded + 1) + 1 = Len(history) - folded
    BY <1>1
  <1>5. \A i \in 1..(Len(history) - folded) : (folded + 1) + i - 1 = folded + i
    BY <1>1
  <1>6. \A i \in DOMAIN Suffix : folded + i \in DOMAIN history /\ Suffix[i] = history[folded + i]
    BY <1>3, <1>4, <1>5
  <1>7. IdsUnique(Suffix)
    <2>1. \A i \in DOMAIN Suffix : Suffix[i].id = folded + i /\ i \in Nat
      BY <1>1, <1>3, <1>4, <1>6
    <2>2. folded \in Nat
      BY <1>1
    <2> QED
      BY <2>1, <2>2 DEF IdsUnique
  <1>8. Working \in Nat
    BY <1>1, WorkingIs DEF Working
  <1> QED
    BY <1>3, <1>4, <1>6, <1>7, <1>8

\* A history counts as long as its messages are those of another, apart from their tokens.
LEMMA SameTurns ==
    ASSUME NEW h \in Seq(Message), NEW e \in Seq(Message), DOMAIN h = DOMAIN e, Len(h) = Len(e),
           \A i \in DOMAIN h : e[i].id = h[i].id /\ e[i].job = h[i].job,
           IdsUnique(h), Forgotten(e)
    PROVE  Forgotten(h)
  <1>1. \A id : Present(h, id) <=> Present(e, id)
    BY DEF Present
  <1>2. \A job : Authoritative(h, job) <=> Authoritative(e, job)
    BY <1>1 DEF Authoritative
  <1>3. PICK i \in RunStarts(e), v \in OwnedIntervals(e) :
           ~HasSourceBefore(e, i) /\ v.from = i /\ RunEnd(e, i) \in (i + 1)..(v.to - 1)
    BY DEF Forgotten
  <1>4. i \in DOMAIN h /\ DOMAIN h = 1..Len(h) /\ Len(h) \in Nat
    BY <1>3 DEF RunStarts
  <1>5. i > 1 => i - 1 \in DOMAIN h
    BY <1>4
  <1>6. i \in RunStarts(h) /\ ~HasSourceBefore(h, i)
    BY <1>2, <1>3, <1>4, <1>5 DEF RunStarts, HasSourceBefore
  <1>7. RunEnd(h, i) = RunEnd(e, i)
    <2>1. /\ RunEnd(h, i) \in i..Len(h) /\ \A p \in i..RunEnd(h, i) : h[p].job = h[i].job
          /\ \A k \in i..Len(h) : (\A p \in i..k : h[p].job = h[i].job) => k <= RunEnd(h, i)
      BY <1>4, RunReaches
    <2>2. /\ RunEnd(e, i) \in i..Len(e) /\ \A p \in i..RunEnd(e, i) : e[p].job = e[i].job
          /\ \A k \in i..Len(e) : (\A p \in i..k : e[p].job = e[i].job) => k <= RunEnd(e, i)
      BY <1>4, RunReaches
    <2>3. \A k \in i..Len(h), p \in i..Len(h) : p \in i..k => p \in DOMAIN h
      BY <1>4
    <2>4. \A p \in i..RunEnd(h, i) : e[p].job = e[i].job
      <3>1. \A p \in i..RunEnd(h, i) : p \in DOMAIN h
        BY <1>4, <2>1
      <3> QED
        BY <1>4, <2>1, <3>1
    <2>5. \A p \in i..RunEnd(e, i) : h[p].job = h[i].job
      <3>1. \A p \in i..RunEnd(e, i) : p \in DOMAIN h
        BY <1>4, <2>2
      <3> QED
        BY <1>4, <2>2, <3>1
    <2>6. RunEnd(h, i) <= RunEnd(e, i) /\ RunEnd(e, i) <= RunEnd(h, i)
      BY <2>1, <2>2, <2>4, <2>5
    <2> QED
      BY <1>4, <2>1, <2>2, <2>6
  <1>8. PICK q \in DOMAIN e :
           /\ Tied(e, q) /\ SourceOf(e, q) \in DOMAIN e
           /\ v.from \in DOMAIN e /\ v.to \in DOMAIN e /\ v.from <= v.to
           /\ (v.from = q /\ v.to = SourceOf(e, q)) \/ (v.from = SourceOf(e, q) /\ v.to = q)
    BY <1>3, IntervalsTie
  <1>9. Tied(h, q)
    BY <1>1, <1>2, <1>8 DEF Tied
  <1>10. SourceOf(h, q) = SourceOf(e, q)
    <2>1. /\ SourceOf(h, q) \in DOMAIN h /\ h[SourceOf(h, q)].id = h[q].job.of
          /\ SourceOf(e, q) \in DOMAIN e /\ e[SourceOf(e, q)].id = e[q].job.of
      BY <1>8, <1>9, IndexKnown DEF Tied, SourceOf
    <2> QED
      BY <1>8, <2>1 DEF IdsUnique
  <1>11. PICK u \in OwnedIntervals(h) :
           /\ u.from \in DOMAIN h /\ u.to \in DOMAIN h /\ u.from <= u.to
           /\ (u.from = q /\ u.to = SourceOf(h, q)) \/ (u.from = SourceOf(h, q) /\ u.to = q)
    BY <1>8, <1>9, IntervalsTie
  <1>12. u.from = v.from /\ u.to = v.to
    <2>1. u.from \in Nat /\ u.to \in Nat /\ v.from \in Nat /\ v.to \in Nat
      BY <1>4, <1>8, <1>11
    <2> QED
      BY <1>8, <1>10, <1>11, <2>1
  <1> QED
    BY <1>3, <1>6, <1>7, <1>11, <1>12 DEF Forgotten

\* The histories a fold may be planned for are that of the room, one message of which may not
\* be counted.
LEMMA CountsAre ==
    ASSUME HistoryTypeOK, NEW h \in Counts
    PROVE  /\ h \in Seq(Message) /\ Len(h) = Len(Suffix) /\ DOMAIN h = DOMAIN Suffix
           /\ \A i \in DOMAIN Suffix : h[i].id = Suffix[i].id /\ h[i].job = Suffix[i].job
           /\ IdsUnique(h) /\ AlmostCounted(h)
  <1>1. /\ Suffix \in Seq(Message) /\ IdsUnique(Suffix)
        /\ \A i \in DOMAIN Suffix : Suffix[i].tokens >= 1
    BY SuffixIs DEF HistoryTypeOK
  <1>2. \A i \in DOMAIN Suffix : Suffix[i] \in Message
    BY <1>1
  <1>3. CASE h = Suffix
    BY <1>1, <1>3 DEF AlmostCounted
  <1>4. ASSUME NEW id, h = Uncounted(Suffix, id)
        PROVE  /\ h \in Seq(Message) /\ Len(h) = Len(Suffix) /\ DOMAIN h = DOMAIN Suffix
               /\ \A i \in DOMAIN Suffix : h[i].id = Suffix[i].id /\ h[i].job = Suffix[i].job
               /\ \A i \in DOMAIN Suffix : Suffix[i].id # id => h[i] = Suffix[i]
    <2> DEFINE New(i) == IF Suffix[i].id = id THEN [Suffix[i] EXCEPT !.tokens = 0] ELSE Suffix[i]
    <2>1. h = [i \in DOMAIN Suffix |-> New(i)]
      BY <1>4 DEF Uncounted
    <2>2. \A i \in DOMAIN Suffix : /\ New(i) \in Message /\ New(i).id = Suffix[i].id
                                   /\ New(i).job = Suffix[i].job
                                   /\ Suffix[i].id # id => New(i) = Suffix[i]
      BY <1>2 DEF Message
    <2>3. DOMAIN Suffix = 1..Len(Suffix) /\ Len(Suffix) \in Nat
      BY <1>1
    <2> HIDE DEF New
    <2>4. h \in Seq(Message) /\ Len(h) = Len(Suffix) /\ DOMAIN h = DOMAIN Suffix
      BY <2>1, <2>2, <2>3
    <2>5. \A i \in DOMAIN Suffix : h[i] = New(i)
      BY <2>1
    <2> QED
      BY <2>2, <2>4, <2>5
  <1>5. CASE h # Suffix
    <2>1. PICK id : h = Uncounted(Suffix, id)
      BY <1>5 DEF Counts
    <2>2. IdsUnique(h)
      BY <1>1, <1>4, <2>1 DEF IdsUnique
    <2>3. AlmostCounted(h)
      BY <1>1, <1>4, <2>1 DEF IdsUnique, AlmostCounted
    <2> QED
      BY <1>4, <2>1, <2>2, <2>3
  <1> QED
    BY <1>3, <1>5

LEMMA NeedsFoldIs ==
    ASSUME NEW h \in Seq(Message), AlmostCounted(h), NEW mandatory \in Nat, Working \in Nat,
           Pressure(h, mandatory, Working) # "low", Cardinality(GroupStarts(h)) > 1
    PROVE  NeedsFold(h, mandatory)
  <1>1. BatchLimit \in Nat
    BY HistoryAssumption
  <1>2. Cuts(h, RawTailBudget(mandatory, Working)) # {}
    BY PressureCuts
  <1>3. FoldByTokens(h, RawTailBudget(mandatory, Working), BatchLimit) # <<>>
    BY <1>1, <1>2, FoldIsCut
  <1> QED
    BY <1>3 DEF NeedsFold

LEMMA HistoryStarts == HistoryInit => HistoryInv
  <1> SUFFICES ASSUME HistoryInit
               PROVE  HistoryInv
    OBVIOUS
  <1>1. history \in Seq(Message) /\ Len(history) = 0 /\ DOMAIN history = {}
    BY DEF HistoryInit
  <1>2. folded = 0 /\ tasks = {} /\ routes \in Routes
    BY DEF HistoryInit
  <1> QED
    BY <1>1, <1>2 DEF HistoryInv, HistoryTypeOK, TaskPressure

\* Messages are added.
LEMMA HistoryGrows ==
    ASSUME HistoryInv, NEW new \in Seq(Message), history' = history \o new,
           \A n \in DOMAIN new :
              /\ new[n].id = Len(history) + n /\ new[n].tokens >= 1
              /\ new[n].job.of < Len(history) + n
              /\ new[n].job.of > 0 => new[n].job.kind \in {"job", "sync"},
           UNCHANGED <<folded, routes>>,
           QueueTask
    PROVE  HistoryInv'
  <1>1. /\ HistoryTypeOK /\ history \in Seq(Message) /\ Len(history) \in Nat
        /\ folded \in 0..Len(history) /\ routes \in Routes
        /\ tasks \subseteq [mandatory : Nat, boundary : Nat]
    BY DEF HistoryInv, HistoryTypeOK
  <1>2. PICK h : h = history'
    OBVIOUS
  <1>3. /\ h \in Seq(Message) /\ Len(h) = Len(history) + Len(new)
        /\ \A i \in 1..Len(history) : h[i] = history[i]
        /\ \A n \in 1..Len(new) : h[Len(history) + n] = new[n]
    BY <1>1, <1>2
  <1>4. Len(new) \in Nat /\ Len(h) \in Nat
    OBVIOUS
  <1>5. \A i \in DOMAIN h :
          /\ h[i].id = i /\ h[i].tokens >= 1
          /\ h[i].job.of < i
          /\ h[i].job.of > 0 => h[i].job.kind \in {"job", "sync"}
    <2> TAKE i \in DOMAIN h
    <2>1. i \in 1..Len(h)
      BY <1>3
    <2>2. CASE i <= Len(history)
      <3>1. i \in DOMAIN history /\ h[i] = history[i]
        BY <1>1, <1>3, <2>1, <2>2
      <3> QED
        BY <1>1, <3>1 DEF HistoryTypeOK
    <2>3. CASE i > Len(history)
      <3>1. PICK n \in 1..Len(new) : i = Len(history) + n
        <4>1. i - Len(history) \in 1..Len(new) /\ i = Len(history) + (i - Len(history))
          BY <1>1, <1>3, <1>4, <2>1, <2>3
        <4> QED
          BY <4>1
      <3>2. n \in DOMAIN new /\ h[i] = new[n]
        BY <1>3, <3>1
      <3> QED
        BY <3>1, <3>2
    <2> QED
      BY <1>1, <2>1, <2>2, <2>3
  <1> DEFINE old == Suffix
             grown == SubSeq(h, folded + 1, Len(h))
  <1>6. /\ old \in Seq(Message) /\ Len(old) = Len(history) - folded
        /\ DOMAIN old = 1..(Len(history) - folded)
        /\ \A i \in DOMAIN old : folded + i \in DOMAIN history /\ old[i] = history[folded + i]
        /\ Working \in Nat
    BY <1>1, SuffixIs
  <1>7. /\ grown \in Seq(Message) /\ Len(grown) = Len(h) - folded
        /\ \A i \in 1..(Len(h) - folded) : grown[i] = h[folded + i]
    <2>1. folded + 1 \in 1..(Len(h) + 1) /\ Len(h) \in 0..Len(h) /\ folded + 1 <= Len(h) + 1
      BY <1>1, <1>3, <1>4
    <2>2. /\ grown \in Seq(Message) /\ Len(grown) = Len(h) - (folded + 1) + 1
          /\ \A i \in 1..(Len(h) - (folded + 1) + 1) : grown[i] = h[(folded + 1) + i - 1]
      BY <1>3, <2>1, PartsOfHistory
    <2>3. Len(h) - (folded + 1) + 1 = Len(h) - folded
          /\ \A i \in 1..(Len(h) - folded) : (folded + 1) + i - 1 = folded + i
      BY <1>1, <1>4
    <2> QED
      BY <2>2, <2>3
  <1>8. grown = Suffix' /\ Working' = Working
    BY <1>2 DEF Suffix, Working
  <1> HIDE DEF old, grown
  <1>9. Len(old) <= Len(grown) /\ \A i \in DOMAIN old : grown[i] = old[i]
    <2>1. Len(old) <= Len(grown)
      BY <1>1, <1>3, <1>4, <1>6, <1>7
    <2>2. ASSUME NEW i \in DOMAIN old PROVE grown[i] = old[i]
      <3>1. i \in 1..(Len(h) - folded) /\ folded + i \in 1..Len(history)
        BY <1>1, <1>3, <1>4, <1>6
      <3> QED
        BY <1>3, <1>6, <1>7, <3>1
    <2> QED
      BY <2>1, <2>2
  <1>10. \A task \in tasks :
           /\ task.boundary <= folded
           /\ task.boundary = folded => grown # <<>> /\ Pressure(grown, task.mandatory, Working) # "low"
    <2> TAKE task \in tasks
    <2>1. task.mandatory \in Nat
      BY <1>1
    <2>2. task.boundary <= folded
      BY DEF HistoryInv, TaskPressure
    <2>3. ASSUME task.boundary = folded
          PROVE  grown # <<>> /\ Pressure(grown, task.mandatory, Working) # "low"
      <3>1. old # <<>> /\ Pressure(old, task.mandatory, Working) # "low"
        BY <2>3 DEF HistoryInv, TaskPressure, old
      <3>2. Len(old) \in Nat /\ Len(old) # 0 /\ Len(grown) \in Nat
        BY <1>6, <1>7, <3>1
      <3>3. grown # <<>>
        BY <1>9, <3>2
      <3> QED
        BY <1>6, <1>7, <1>9, <2>1, <3>1, <3>3, PressureGrows
    <2> QED
      BY <2>2, <2>3
  <1>11. CASE tasks' = tasks
    <2>1. TaskPressure'
      BY <1>8, <1>10, <1>11 DEF TaskPressure
    <2>2. HistoryTypeOK'
      BY <1>1, <1>2, <1>3, <1>4, <1>5, <1>11 DEF HistoryTypeOK
    <2> QED
      BY <2>1, <2>2 DEF HistoryInv
  <1>12. ASSUME NEW mandatory \in Bound.tasks, NeedsFold(grown, mandatory),
                tasks' = tasks \union {[mandatory |-> mandatory, boundary |-> folded]}
         PROVE  HistoryInv'
    <2>1. mandatory \in Nat
      BY <1>1, HistoryAssumption DEF Bound
    <2>2. folded \in Nat
      BY <1>1
    <2>3. grown # <<>> /\ Pressure(grown, mandatory, Working) # "low"
      <3>1. FoldByTokens(grown, RawTailBudget(mandatory, Working), BatchLimit) # <<>>
            /\ Pressure(grown, mandatory, Working) # "low"
        BY <1>12 DEF NeedsFold
      <3>2. Cuts(grown, RawTailBudget(mandatory, Working)) # {}
        BY <1>7, <3>1, FoldIsCut, HistoryAssumption
      <3>3. Len(grown) \in Nat /\ \E c \in 2..Len(grown) : TRUE
        BY <1>7, <3>2, CutsAre
      <3>4. Len(grown) >= 2
        BY <3>3
      <3> QED
        BY <3>1, <3>4
    <2>4. TaskPressure'
      <3>1. \A task \in tasks' : task \in tasks
                                 \/ (task.mandatory = mandatory /\ task.boundary = folded)
        BY <1>12
      <3> QED
        BY <1>8, <1>10, <2>2, <2>3, <3>1 DEF TaskPressure
    <2>5. tasks' \subseteq [mandatory : Nat, boundary : Nat]
      BY <1>1, <1>12, <2>1, <2>2
    <2>6. HistoryTypeOK'
      BY <1>1, <1>2, <1>3, <1>4, <1>5, <2>5 DEF HistoryTypeOK
    <2> QED
      BY <2>4, <2>6 DEF HistoryInv
  <1> QED
    BY <1>2, <1>11, <1>12 DEF QueueTask, grown

LEMMA IncomingGrows ==
    ASSUME HistoryInv, NEW size \in Bound.sizes, StoreIncoming(size)
    PROVE  HistoryInv'
  <1> DEFINE m == [id |-> Len(history) + 1, job |-> NoJob, tokens |-> size]
  <1>1. history \in Seq(Message) /\ Len(history) \in Nat /\ routes \in Routes
    BY DEF HistoryInv, HistoryTypeOK
  <1>2. size \in Nat \ {0}
    BY <1>1, HistoryAssumption DEF Bound
  <1>3. NoJob \in Job /\ NoJob.of = 0
    BY DEF NoJob, Job
  <1>4. m \in Message
    BY <1>1, <1>2, <1>3 DEF Message
  <1>5. m.id = Len(history) + 1 /\ m.job.of = 0 /\ m.tokens >= 1
    BY <1>2, <1>3
  <1>6. history' = Append(history, m) /\ UNCHANGED <<folded, routes, tasks>>
    BY DEF StoreIncoming
  <1> HIDE DEF m
  <1>7. <<m>> \in Seq(Message) /\ history' = history \o <<m>>
        /\ \A n \in DOMAIN <<m>> : n = 1 /\ <<m>>[n] = m
    BY <1>1, <1>4, <1>6
  <1>8. QueueTask
    BY <1>6 DEF QueueTask
  <1>9. \A n \in DOMAIN <<m>> :
              /\ <<m>>[n].id = Len(history) + n /\ <<m>>[n].tokens >= 1
              /\ <<m>>[n].job.of < Len(history) + n
              /\ <<m>>[n].job.of > 0 => <<m>>[n].job.kind \in {"job", "sync"}
    BY <1>1, <1>5, <1>7
  <1> QED
    BY <1>6, <1>7, <1>8, <1>9, HistoryGrows

LEMMA RepliesGrow ==
    ASSUME HistoryInv, NEW kind \in {"job", "sync", "legacy"},
           NEW source \in Nat, source <= Len(history), source > 0 => kind # "legacy",
           NEW count \in 1..2, NEW size \in Bound.sizes,
           Store(kind, source, count, size), QueueTask
    PROVE  HistoryInv'
  <1> DEFINE job == [kind |-> kind, of |-> source, first |-> Len(history) + 1]
             New(n) == [id |-> Len(history) + n, job |-> job, tokens |-> size]
             new == [n \in 1..count |-> New(n)]
  <1>1. history \in Seq(Message) /\ Len(history) \in Nat /\ routes \in Routes
    BY DEF HistoryInv, HistoryTypeOK
  <1>2. size \in Nat \ {0}
    BY <1>1, HistoryAssumption DEF Bound
  <1>3. job \in Job /\ job.of = source /\ job.kind = kind
    BY <1>1 DEF Job
  <1>4. history' = history \o new /\ UNCHANGED <<folded, routes>>
    BY DEF Store
  <1> HIDE DEF job
  <1>5. \A n \in 1..count : /\ New(n) \in Message /\ New(n).id = Len(history) + n
                            /\ New(n).job = job /\ New(n).tokens >= 1
    BY <1>1, <1>2, <1>3 DEF Message
  <1> HIDE DEF New
  <1>6. new \in Seq(Message) /\ DOMAIN new = 1..count /\ \A n \in 1..count : new[n] = New(n)
    BY <1>5
  <1> HIDE DEF new
  <1>7. \A n \in DOMAIN new :
              /\ new[n].id = Len(history) + n /\ new[n].tokens >= 1
              /\ new[n].job.of < Len(history) + n
              /\ new[n].job.of > 0 => new[n].job.kind \in {"job", "sync"}
    BY <1>1, <1>3, <1>5, <1>6
  <1> QED
    BY <1>4, <1>6, <1>7, HistoryGrows

\* A fold of the automatic policy moves the boundary to the end of a group.
LEMMA FoldMoves ==
    ASSUME HistoryTypeOK, NEW h \in Counts, NEW mandatory \in Nat, FoldAutomatically(h, mandatory)
    PROVE  \E c \in GroupStarts(h) :
              /\ c \in 2..Len(Suffix)
              /\ folded' = folded + c - 1
  <1> DEFINE budget == RawTailBudget(mandatory, Working)
             fold == FoldByTokens(h, budget, BatchLimit)
  <1>1. /\ Suffix \in Seq(Message) /\ Len(Suffix) = Len(history) - folded
        /\ \A i \in DOMAIN Suffix : folded + i \in DOMAIN history /\ Suffix[i] = history[folded + i]
    BY SuffixIs
  <1>0. /\ h \in Seq(Message) /\ Len(h) = Len(Suffix) /\ DOMAIN h = DOMAIN Suffix
        /\ \A i \in DOMAIN Suffix : h[i].id = Suffix[i].id
    BY CountsAre
  <1>2. fold # <<>> /\ folded' = Last(fold).id
    BY DEF FoldAutomatically, NeedsFold
  <1>3. BatchLimit \in Nat
    BY HistoryAssumption
  <1>4. PICK c \in Cuts(h, budget) : Last(fold) = h[c - 1] /\ c - 1 \in DOMAIN h
    <2>1. Cuts(h, budget) # {}
      BY <1>0, <1>2, <1>3, FoldIsCut
    <2> QED
      BY <1>0, <1>3, <2>1, FoldIsCut
  <1>5. c \in GroupStarts(h) /\ c \in 2..Len(Suffix)
    BY <1>0, CutsAre
  <1>6. h[c - 1].id = folded + (c - 1)
    BY <1>0, <1>1, <1>4 DEF HistoryTypeOK
  <1>7. folded + (c - 1) = folded + c - 1
    BY <1>1, <1>5 DEF HistoryTypeOK
  <1> QED
    BY <1>2, <1>4, <1>5, <1>6, <1>7

\* The boundary moves forward.
LEMMA BoundaryMoves ==
    ASSUME HistoryInv, folded' \in 0..Len(history), folded' > folded,
           UNCHANGED <<history, routes>>, tasks' \subseteq tasks
    PROVE  HistoryInv'
  <1>1. HistoryTypeOK'
    BY DEF HistoryInv, HistoryTypeOK
  <1>2. folded \in Nat /\ folded' \in Nat /\ \A task \in tasks : task.boundary \in Nat
    BY DEF HistoryInv, HistoryTypeOK
  <1>3. \A task \in tasks' : task.boundary <= folded' /\ task.boundary # folded'
    BY <1>2 DEF HistoryInv, TaskPressure
  <1> QED
    BY <1>1, <1>3 DEF HistoryInv, TaskPressure

LEMMA FoldsMove ==
    ASSUME HistoryInv, NEW h \in Counts, NEW mandatory \in Nat, FoldAutomatically(h, mandatory)
    PROVE  folded' \in 0..Len(history) /\ folded' > folded
  <1>1. HistoryTypeOK /\ Len(history) \in Nat /\ folded \in 0..Len(history)
        /\ Len(Suffix) = Len(history) - folded
    BY SuffixIs DEF HistoryInv, HistoryTypeOK
  <1>2. PICK c \in 2..Len(Suffix) : folded' = folded + c - 1
    BY <1>1, FoldMoves
  <1> QED
    BY <1>1, <1>2

LEMMA HistoryStep == HistoryInv /\ [HistoryNext]_historyVars => HistoryInv'
  <1> SUFFICES ASSUME HistoryInv, [HistoryNext]_historyVars
               PROVE  HistoryInv'
    OBVIOUS
  <1>1. /\ HistoryTypeOK /\ history \in Seq(Message) /\ Len(history) \in Nat /\ folded \in 0..Len(history)
        /\ DOMAIN history = 1..Len(history) /\ tasks \subseteq [mandatory : Nat, boundary : Nat]
    BY DEF HistoryInv, HistoryTypeOK
  <1>2. ASSUME NEW size \in Bound.sizes, StoreIncoming(size)
        PROVE  HistoryInv'
    BY <1>2, IncomingGrows
  <1>3. ASSUME NEW count \in 1..2, NEW size \in Bound.sizes, NEW source \in DOMAIN history,
               ReplyByJob(source, count, size)
        PROVE  HistoryInv'
    <2>1. Store("job", source, count, size) /\ QueueTask
      BY <1>3 DEF ReplyByJob
    <2>2. source \in Nat /\ source <= Len(history)
      BY <1>1
    <2> QED
      BY <2>1, <2>2, RepliesGrow
  <1>4. ASSUME NEW count \in 1..2, NEW size \in Bound.sizes, NEW source \in DOMAIN history,
               ReplyInRequest(source, count, size)
        PROVE  HistoryInv'
    <2>1. Store("sync", source, count, size) /\ QueueTask
      BY <1>4 DEF ReplyInRequest
    <2>2. source \in Nat /\ source <= Len(history)
      BY <1>1
    <2> QED
      BY <2>1, <2>2, RepliesGrow
  <1>5. ASSUME NEW count \in 1..2, NEW size \in Bound.sizes, ReplyOfUnknownJob(count, size)
        PROVE  HistoryInv'
    <2>1. Store("legacy", 0, count, size) /\ QueueTask
      BY <1>5 DEF ReplyOfUnknownJob, QueueTask
    <2>2. 0 \in Nat /\ 0 <= Len(history) /\ ~ (0 > 0)
      BY <1>1
    <2> QED
      BY <2>1, <2>2, RepliesGrow
  <1>6. ASSUME NEW suffix \in Counts, NEW mandatory \in Mandatories, FoldFirst(suffix, mandatory)
        PROVE  HistoryInv'
    <2>1. mandatory \in Nat
      BY HistoryAssumption DEF Mandatories
    <2>2. FoldAutomatically(suffix, mandatory) /\ UNCHANGED <<history, routes>> /\ tasks' \subseteq tasks
      BY <1>6 DEF FoldFirst
    <2> QED
      BY <2>1, <2>2, FoldsMove, BoundaryMoves
  <1>7. ASSUME NEW task \in tasks, RunTask(task)
        PROVE  HistoryInv'
    <2>1. task.mandatory \in Nat /\ UNCHANGED <<history, routes>> /\ tasks' \subseteq tasks
      BY <1>1, <1>7 DEF RunTask
    <2>2. CASE FoldAutomatically(Suffix, task.mandatory)
      <3>1. Suffix \in Counts
        BY DEF Counts
      <3> QED
        BY <2>1, <2>2, <3>1, FoldsMove, BoundaryMoves
    <2>3. CASE UNCHANGED folded
      <3>1. Suffix' = Suffix /\ Working' = Working
        BY <2>1, <2>3 DEF Suffix, Working
      <3>2. TaskPressure'
        BY <2>1, <2>3, <3>1 DEF HistoryInv, TaskPressure
      <3>3. HistoryTypeOK'
        BY <1>1, <2>1, <2>3 DEF HistoryTypeOK
      <3> QED
        BY <3>2, <3>3 DEF HistoryInv
    <2> QED
      BY <1>7, <2>2, <2>3 DEF RunTask
  <1>8. ASSUME CompressNow
        PROVE  HistoryInv'
    <2> DEFINE fold == FoldByCount(Suffix, TailLimit, BatchLimit)
    <2>1. fold # <<>> /\ folded' = Last(fold).id /\ UNCHANGED <<history, routes, tasks>>
      BY <1>8 DEF CompressNow
    <2>2. /\ Suffix \in Seq(Message) /\ DOMAIN Suffix = 1..(Len(history) - folded)
          /\ \A i \in DOMAIN Suffix : folded + i \in DOMAIN history /\ Suffix[i] = history[folded + i]
      BY <1>1, SuffixIs
    <2>3. PICK n \in DOMAIN Suffix : Last(fold) = Suffix[n]
      BY <2>1, <2>2, FoldByCountIs, HistoryAssumption
    <2>4. folded' = folded + n
      BY <1>1, <2>1, <2>2, <2>3 DEF HistoryTypeOK
    <2>5. n \in 1..(Len(history) - folded)
      BY <2>2
    <2>6. folded' \in 0..Len(history) /\ folded' > folded
      BY <1>1, <2>4, <2>5
    <2> QED
      BY <2>1, <2>6, BoundaryMoves
  <1>9. CASE UNCHANGED historyVars
    <2>1. UNCHANGED <<history, folded, routes, tasks>>
      BY <1>9 DEF historyVars
    <2>2. Suffix' = Suffix /\ Working' = Working
      BY <2>1 DEF Suffix, Working
    <2>3. TaskPressure'
      BY <2>1, <2>2 DEF HistoryInv, TaskPressure
    <2>4. HistoryTypeOK'
      BY <1>1, <2>1 DEF HistoryTypeOK
    <2> QED
      BY <2>3, <2>4 DEF HistoryInv
  <1> QED
    BY <1>2, <1>3, <1>4, <1>5, <1>6, <1>7, <1>8, <1>9 DEF HistoryNext

LEMMA HistoryInvHolds == HistorySpec => []HistoryInv
  <1> QED
    BY HistoryStarts, HistoryStep, PTL DEF HistorySpec

\* The properties that are left are about one state or one step.
LEMMA GroupsFine == HistoryInv => GroupsAreFinestTurns
  <1> SUFFICES ASSUME HistoryInv
               PROVE  GroupsAreFinestTurns
    OBVIOUS
  <1>1. Suffix \in Seq(Message)
    BY SuffixIs DEF HistoryInv
  <1> QED
    BY <1>1, StartsSeparate DEF GroupsAreFinestTurns

LEMMA PressureWorkedOff == HistoryInv => PressureIsWorkedOff
  <1> SUFFICES ASSUME HistoryInv
               PROVE  PressureIsWorkedOff
    OBVIOUS
  <1>1. Suffix \in Seq(Message) /\ Working \in Nat
    BY SuffixIs DEF HistoryInv
  <1>2. PressureLeavesWork
    <2> SUFFICES ASSUME NEW h \in Counts, NEW mandatory \in Mandatories,
                        Pressure(h, mandatory, Working) # "low",
                        Cardinality(GroupStarts(h)) > 1
                 PROVE  NeedsFold(h, mandatory)
      BY DEF PressureLeavesWork
    <2>1. mandatory \in Nat /\ h \in Seq(Message) /\ AlmostCounted(h)
      BY HistoryAssumption, CountsAre DEF Mandatories, HistoryInv
    <2> QED
      BY <1>1, <2>1, NeedsFoldIs
  <1>3. TasksHaveWork
    <2> SUFFICES ASSUME NEW task \in tasks, ~ (folded > task.boundary),
                        Cardinality(GroupStarts(Suffix)) # 1
                 PROVE  NeedsFold(Suffix, task.mandatory)
      BY DEF TasksHaveWork
    <2>1. task.mandatory \in Nat /\ task.boundary \in Nat /\ folded \in Nat /\ task.boundary <= folded
      BY DEF HistoryInv, HistoryTypeOK, TaskPressure
    <2>2. task.boundary = folded
      BY <2>1
    <2>3. Suffix # <<>> /\ Pressure(Suffix, task.mandatory, Working) # "low"
      BY <2>2 DEF HistoryInv, TaskPressure
    <2>4. Len(Suffix) > 0
      BY <1>1, <2>3
    <2>5. Cardinality(GroupStarts(Suffix)) > 1
      BY <1>1, <2>4, ManyStarts
    <2>6. AlmostCounted(Suffix)
      BY CountsAre DEF Counts, HistoryInv
    <2> QED
      BY <1>1, <2>1, <2>3, <2>5, <2>6, NeedsFoldIs
  <1> QED
    BY <1>2, <1>3 DEF PressureIsWorkedOff

LEMMA HeadroomCreated == HistoryInv => FoldCreatesHeadroom
  <1> SUFFICES ASSUME HistoryInv
               PROVE  FoldCreatesHeadroom
    OBVIOUS
  <1> SUFFICES ASSUME NEW h \in Counts, NEW mandatory \in Mandatories,
                      NEW fold, fold = FoldByTokens(h, RawTailBudget(mandatory, Working), BatchLimit),
                      NEW rest, rest = SubSeq(h, Len(fold) + 1, Len(h)),
                      \A c \in Cuts(h, RawTailBudget(mandatory, Working)) : c <= Len(fold) + 1
               PROVE  \/ Pressure(rest, mandatory, Working) = "low"
                      \/ Cardinality(GroupStarts(rest)) <= 1
                      \/ Forgotten(rest)
    BY DEF FoldCreatesHeadroom
  <1>1. h \in Seq(Message) /\ Working \in Nat /\ IdsUnique(h) /\ AlmostCounted(h) /\ BatchLimit \in Nat
    BY CountsAre, SuffixIs, HistoryAssumption DEF HistoryInv
  <1>2. mandatory \in Nat
    BY HistoryAssumption DEF Mandatories
  <1> QED
    BY <1>1, <1>2, FoldLeavesRoom

LEMMA PromptsFit == HistoryInv => PromptFitsEveryRoute
  <1> SUFFICES ASSUME HistoryInv
               PROVE  PromptFitsEveryRoute
    OBVIOUS
  <1> SUFFICES ASSUME NEW h \in Counts, NEW mandatory \in Mandatories, NEW r \in DOMAIN routes,
                      NEW capacity, capacity = Capacity(routes[r], DefaultOption, Reserve, RoomBudget),
                      Pressure(h, mandatory, Working) # "hard",
                      capacity.completion + Reserve < capacity.window
               PROVE  mandatory + Tokens(h) + capacity.completion + Reserve <= capacity.window
    BY DEF PromptFitsEveryRoute
  <1>1. h \in Seq(Message) /\ Working \in Nat /\ routes \in Routes
    BY CountsAre, SuffixIs DEF HistoryInv, HistoryTypeOK
  <1>2. Tokens(h) \in Nat
    BY <1>1, TokensType
  <1>3. mandatory \in Nat /\ Reserve \in Nat
    BY HistoryAssumption DEF Mandatories
  <1>4. r \in 1..2 /\ Working <= capacity.working
    BY <1>1, WorkingIs DEF Working
  <1>5. routes[r] \in [window : Nat, output : Nat]
    BY <1>1, <1>4, HistoryAssumption
  <1>6. /\ capacity.window \in Nat /\ capacity.completion \in Nat
        /\ capacity.available \in Nat /\ capacity.working \in Nat
        /\ capacity.working <= capacity.available
        /\ capacity.available = capacity.window - capacity.completion - Reserve
    BY <1>5, CapacityIs
  <1>7. mandatory + Tokens(h) <= Working
    BY <1>1, <1>2, <1>3 DEF Pressure
  <1> QED
    BY <1>1, <1>2, <1>3, <1>4, <1>6, <1>7

LEMMA FoldsKeepTurns ==
    ASSUME HistoryInv, ~Forgotten(Suffix), NEW h \in Counts, NEW mandatory \in Mandatories,
           FoldAutomatically(h, mandatory),
           NEW i \in DOMAIN history, history[i].job.of > folded
    PROVE  (i <= folded') = (history[i].job.of <= folded')
  <1> DEFINE of == history[i].job.of
  <1>1. /\ HistoryTypeOK /\ history \in Seq(Message) /\ Len(history) \in Nat /\ folded \in 0..Len(history)
        /\ DOMAIN history = 1..Len(history) /\ i \in Nat /\ folded \in Nat /\ i <= Len(history)
    BY DEF HistoryInv, HistoryTypeOK
  <1>2. history[i].job \in Job /\ of \in Nat
    <2>1. history[i].job \in Job
      BY <1>1, HistoryShape
    <2> QED
      BY <2>1 DEF Job
  <1>3. of < i /\ of > 0 /\ history[i].job.kind \in {"job", "sync"}
    BY <1>1, <1>2 DEF HistoryTypeOK
  <1> HIDE DEF of
  <1>4. /\ Suffix \in Seq(Message) /\ DOMAIN Suffix = 1..(Len(history) - folded)
        /\ \A k \in DOMAIN Suffix : folded + k \in DOMAIN history /\ Suffix[k] = history[folded + k]
        /\ IdsUnique(Suffix)
    BY <1>1, SuffixIs
  <1>5. mandatory \in Nat
    BY HistoryAssumption DEF Mandatories
  <1>0. /\ h \in Seq(Message) /\ Len(h) = Len(Suffix) /\ DOMAIN h = DOMAIN Suffix
        /\ \A k \in DOMAIN Suffix : h[k].id = Suffix[k].id /\ h[k].job = Suffix[k].job
        /\ IdsUnique(h)
    BY <1>1, CountsAre
  <1>6. PICK c \in GroupStarts(h) : c \in 2..Len(Suffix) /\ folded' = folded + c - 1
    BY <1>1, <1>5, FoldMoves
  <1>7. c \in DOMAIN Suffix /\ c \in Nat /\ ~Separates(h, c)
    <2>1. GroupStarts(h) = {k \in DOMAIN h : ~Separates(h, k)}
      <3>1. ~Forgotten(h)
        BY <1>4, <1>0, SameTurns
      <3> QED
        BY <1>0, <3>1, StartsSeparate
    <2>2. c \in DOMAIN h /\ ~Separates(h, c)
      BY <2>1
    <2>3. c \in DOMAIN Suffix
      BY <1>0, <2>2
    <2> QED
      BY <1>1, <1>4, <2>2, <2>3
  <1> DEFINE q == i - folded
             s == of - folded
  <1>8. /\ q \in DOMAIN Suffix /\ s \in DOMAIN Suffix /\ q \in Nat /\ s \in Nat
        /\ folded + q = i /\ folded + s = of
    BY <1>1, <1>2, <1>3, <1>4 DEF of
  <1>9. Suffix[q] = history[i] /\ Suffix[s] = history[of] /\ of \in DOMAIN history
    BY <1>4, <1>8
  <1>10. Suffix[s].id = of
    BY <1>1, <1>9 DEF HistoryTypeOK
  <1>11. Present(h, of) /\ h[q].job = history[i].job /\ h[s].id = of
    BY <1>0, <1>8, <1>9, <1>10 DEF Present
  <1>12. Authoritative(h, h[q].job)
    BY <1>3, <1>11 DEF Authoritative, of
  <1>13. IndexOf(h, of) = s
    <2>1. IndexOf(h, of) \in DOMAIN h /\ h[IndexOf(h, of)].id = of
      BY <1>0, <1>11, IndexKnown
    <2> QED
      BY <1>0, <1>8, <1>11, <2>1 DEF IdsUnique
  <1> HIDE DEF q, s
  <1>14. (q < c) = (s < c)
    <2>1. Present(h, h[q].job.of) /\ IndexOf(h, h[q].job.of) = s
      BY <1>11, <1>13 DEF of
    <2>2. ~ ((q < c) # (s < c))
      BY <1>0, <1>7, <1>8, <1>12, <2>1 DEF Separates
    <2> QED
      BY <2>2
  <1>15. (i <= folded' <=> q < c) /\ (of <= folded' <=> s < c)
    <2>1. i = folded + q /\ of = folded + s /\ folded' = folded + c - 1
      BY <1>6, <1>8
    <2>2. folded \in Nat /\ q \in Nat /\ s \in Nat /\ c \in Nat
      BY <1>1, <1>7, <1>8
    <2>3. (folded + q <= folded + c - 1 <=> q < c) /\ (folded + s <= folded + c - 1 <=> s < c)
      BY <2>2
    <2> QED
      BY <2>1, <2>3
  <1> QED
    BY <1>14, <1>15 DEF of

-----------------------------------------------------------------------------
(* Theorems about the history of a room of any length, for any models,     *)
(* limits and prompts.                                                     *)

\* However the replies of queued, repeated and unknown turns interleave, the groups of the raw
\* history are cut exactly where no cut separates what belongs together, but for the reach of a
\* regenerated bubble that is forgotten (group_complete_turns).
THEOREM TurnsAreFinest == HistorySpec => []GroupsAreFinestTurns
  <1> QED
    BY HistoryInvHolds, GroupsFine, PTL

\* A history under pressure that is more than one turn has something to fold, and a compression
\* task queued for a fold finds it unless another fold came first
\* (should_update_scene_orchestration_summary, build_automatic_context_plan).
THEOREM PressureHasAWayOut == HistorySpec => []PressureIsWorkedOff
  <1> QED
    BY HistoryInvHolds, PressureWorkedOff, PTL

\* A fold the batch limit did not cut short leaves the history under the high watermark, or its
\* newest turn alone ("a successful fold creates useful headroom").
THEOREM FoldsCreateHeadroom == HistorySpec => []FoldCreatesHeadroom
  <1> QED
    BY HistoryInvHolds, HeadroomCreated, PTL

\* A prompt that is not under hard pressure fits, with its completion and the reserve, into the
\* window of the model and of its fallback (resolve_safe_model_context_capacity).
THEOREM AcceptedPromptsFit == HistorySpec => []PromptFitsEveryRoute
  <1> QED
    BY HistoryInvHolds, PromptsFit, PTL

\* A fold of the automatic policy leaves a reply and the message it answers on one side of the
\* new boundary, whatever came between them.
THEOREM TurnsStayWhole == HistorySpec => FoldKeepsTurns
  <1>1. HistoryInv =>
          \/ KeepsTurns \/ Forgotten(Suffix)
          \/ ~ \E suffix \in Counts, mandatory \in Mandatories : FoldAutomatically(suffix, mandatory)
    BY FoldsKeepTurns DEF KeepsTurns
  <1> QED
    BY <1>1, HistoryInvHolds, PTL DEF FoldKeepsTurns
================================================================================

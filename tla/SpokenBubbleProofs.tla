-------------------------- MODULE SpokenBubbleProofs --------------------------
(***************************************************************************)
(* For every room, every answer a model may give, every list of commands   *)
(* and any number of edits, syntheses and crashes: the prompt loses        *)
(* nothing it needs, what a turn shows comes from those who may speak,     *)
(* nothing of it is lost or read out of order, and a stored bubble says    *)
(* aloud what is written in it.                                            *)
(***************************************************************************)
EXTENDS SpokenBubble, FiniteSetTheorems, WellFoundedInduction, TLAPS

LifeNext == (Generate /\ UNCHANGED bubble) \/ Live

-----------------------------------------------------------------------------
(* Speech.                                                                 *)

Pairs == [content : Contents \union {"none"}, action : Actions \union {"none"}]
Recordings == [words : Pairs, voice : Voices]
Rows == [content : Contents, action : Actions, parts : Pairs, audio : Recordings]
Edits == [field : {"content"}, value : Contents, was : Rows] \union
         [field : {"action"}, value : Actions, was : Rows]
Speeches == [at : {"synthesizing", "writing", "storing"}, was : Rows, spoken : Recordings]

BubbleTypeOK ==
    /\ row \in Rows /\ voice \in Voices
    /\ edits \subseteq Edits /\ speakers \subseteq Speeches
    /\ crossed \in BOOLEAN
    /\ files \in [DOMAIN files -> {"partial", "whole"}]

\* What is being said is what the speaker has loaded; a recording is there before its name is stored.
SpokenAsLoaded == \A s \in speakers : s.spoken.words = Words(s.was)
RecordingsExist ==
    /\ \A s \in speakers : s.at = "storing" => s.spoken \in DOMAIN files
    /\ row.audio = NoFile \/ row.audio \in DOMAIN files
\* A file that is not whole is being written, or its writing was cut off.
FilesAttended ==
    \A f \in DOMAIN files :
        files[f] = "whole" \/ f \in cut \/ \E s \in speakers : s.at = "writing" /\ s.spoken = f

SpeechInv == BubbleTypeOK /\ SpokenAsLoaded /\ RecordingsExist /\ FilesAttended /\ SpeaksItsWords

LEMMA NamesAreTyped ==
  /\ None \in Pairs /\ NoFile \in Recordings
  /\ \A r \in Rows : Words(r) \in Pairs
BY BubbleAssumption DEF None, NoFile, Pairs, Recordings, Rows, Words

LEMMA SpeechStarts == LifeInit => SpeechInv
<1> SUFFICES ASSUME LifeInit PROVE SpeechInv
  OBVIOUS
<1>1. row \in Rows /\ row.audio = NoFile /\ row.parts = None
  BY NamesAreTyped, BubbleAssumption DEF LifeInit, Rows
<1>2. BubbleTypeOK
  BY <1>1, BubbleAssumption DEF LifeInit, BubbleTypeOK
<1>3. QED
  BY <1>1, <1>2 DEF LifeInit, SpeechInv, SpokenAsLoaded, RecordingsExist, FilesAttended, SpeaksItsWords

\* The words of a row that an edit has written are those the edit has made, if nobody has
\* changed the words it had loaded.
LEMMA EditMakes ==
  ASSUME NEW r \in Rows, NEW e \in Edits, row = r
  PROVE  /\ Edited(e) \in Rows
         /\ Edited(e).audio = NoFile
         /\ Words(r) = Words(e.was) => Edited(e).parts = Words(Edited(e))
<1>1. PICK new : new = Edited(e)
  OBVIOUS
<1>2. PICK words : words = [Words(e.was) EXCEPT ![e.field] = e.value]
  OBVIOUS
<1>3. e.was \in Rows
  BY DEF Edits
<1>4. CASE e.field = "content"
  <2>1. words = [content |-> e.value, action |-> e.was.action] /\ words \in Pairs
    BY <1>2, <1>3, <1>4 DEF Words, Edits, Rows, Pairs
  <2>2. PICK told \in Contents : told = IF e.value = e.was.content THEN r.content ELSE e.value
    BY <1>4 DEF Edits, Rows
  <2>3. new = [r EXCEPT !.content = told, !.parts = words, !.audio = NoFile]
    BY <1>1, <1>2, <1>4, <2>2 DEF Edited
  <2>4. new = [content |-> told, action |-> r.action, parts |-> words, audio |-> NoFile]
    BY <2>3 DEF Rows
  <2>5. QED
    BY <1>1, <2>1, <2>2, <2>4, NamesAreTyped DEF Rows, Words
<1>5. CASE e.field = "action"
  <2>1. words = [content |-> e.was.content, action |-> e.value] /\ words \in Pairs
    BY <1>2, <1>3, <1>5 DEF Words, Edits, Rows, Pairs
  <2>2. PICK told \in Actions : told = IF e.value = e.was.action THEN r.action ELSE e.value
    BY <1>5 DEF Edits, Rows
  <2>3. new = [r EXCEPT !.action = told, !.parts = words, !.audio = NoFile]
    BY <1>1, <1>2, <1>5, <2>2 DEF Edited
  <2>4. new = [content |-> r.content, action |-> told, parts |-> words, audio |-> NoFile]
    BY <2>3 DEF Rows
  <2>5. QED
    BY <1>1, <2>1, <2>2, <2>4, NamesAreTyped DEF Rows, Words
<1>6. QED
  BY <1>4, <1>5 DEF Edits

LEMMA SpeechKeepsFile ==
  ASSUME SpeechInv, UNCHANGED <<files, cut>>,
         \A s \in speakers : s.at = "writing" => s \in speakers'
  PROVE  FilesAttended'
BY DEF SpeechInv, FilesAttended

LEMMA EditKeeps ==
  ASSUME SpeechInv, NEW e \in edits, CommitEdit(e)
  PROVE  SpeechInv'
<1>1. /\ row' = Edited(e) /\ edits' \subseteq edits /\ crossed' = (Words(row) # Words(e.was))
      /\ UNCHANGED <<voice, speakers, files, cut>>
  BY DEF CommitEdit
<1>2. PICK r \in Rows : r = row
  BY DEF SpeechInv, BubbleTypeOK
<1>3. e \in Edits
  BY DEF SpeechInv, BubbleTypeOK
<1>4. /\ Edited(e) \in Rows /\ Edited(e).audio = NoFile
      /\ Words(r) = Words(e.was) => Edited(e).parts = Words(Edited(e))
  BY <1>2, <1>3, EditMakes
<1>5. crossed' \in BOOLEAN
  BY <1>1
<1>6. BubbleTypeOK'
  BY <1>1, <1>4, <1>5 DEF SpeechInv, BubbleTypeOK
<1>7. SpokenAsLoaded' /\ RecordingsExist' /\ FilesAttended'
  BY <1>1, <1>4 DEF SpeechInv, SpokenAsLoaded, RecordingsExist, FilesAttended
<1>8. SpeaksItsWords'
  <2>1. ASSUME ~crossed' PROVE row'.parts = Words(row')
    BY <1>1, <1>2, <1>4, <2>1
  <2>2. row'.audio = NoFile
    BY <1>1, <1>4
  <2>3. QED
    BY <2>1, <2>2 DEF SpeaksItsWords
<1>9. QED
  BY <1>6, <1>7, <1>8 DEF SpeechInv

LEMMA SpeakerStarts ==
  ASSUME SpeechInv, StartSpeaking
  PROVE  SpeechInv'
<1> DEFINE spoken == [words |-> Words(row), voice |-> voice]
           at == IF spoken \in DOMAIN files THEN "storing" ELSE "synthesizing"
           new == [at |-> at, was |-> row, spoken |-> spoken]
<1>1. speakers' = speakers \union {new} /\ UNCHANGED <<row, voice, edits, files, cut, crossed>>
  BY DEF StartSpeaking
<1>2. new \in Speeches
  BY NamesAreTyped DEF SpeechInv, BubbleTypeOK, Speeches, Recordings
<1>3. new.spoken.words = Words(new.was) /\ (new.at = "storing" => new.spoken \in DOMAIN files)
  OBVIOUS
<1> HIDE DEF new
<1>4. BubbleTypeOK'
  BY <1>1, <1>2 DEF SpeechInv, BubbleTypeOK
<1>5. SpokenAsLoaded' /\ RecordingsExist'
  BY <1>1, <1>3 DEF SpeechInv, SpokenAsLoaded, RecordingsExist
<1>6. FilesAttended'
  BY <1>1, SpeechKeepsFile
<1>7. SpeaksItsWords'
  BY <1>1 DEF SpeechInv, SpeaksItsWords, Words
<1>8. QED
  BY <1>4, <1>5, <1>6, <1>7 DEF SpeechInv

\* What the two steps of writing a file have in common.
LEMMA WriteKeeps ==
  ASSUME SpeechInv, NEW s \in speakers, NEW at \in {"writing", "storing"}, NEW state \in {"partial", "whole"},
         Write(s, at, state), cut' \subseteq cut
  PROVE  /\ BubbleTypeOK' /\ SpokenAsLoaded' /\ RecordingsExist' /\ SpeaksItsWords'
         /\ DOMAIN files' = DOMAIN files \union {s.spoken}
         /\ \A f \in DOMAIN files' : files'[f] = IF f = s.spoken THEN state ELSE files[f]
         /\ \A w \in speakers : w # s => w \in speakers'
         /\ \E w \in speakers' : w.at = at /\ w.spoken = s.spoken
<1>1. s \in Speeches
  BY DEF SpeechInv, BubbleTypeOK
<1>2. PICK w : w = [s EXCEPT !.at = at]
  OBVIOUS
<1>3. w = [at |-> at, was |-> s.was, spoken |-> s.spoken] /\ w \in Speeches
  BY <1>1, <1>2 DEF Speeches
<1>4. /\ speakers' = (speakers \ {s}) \union {w}
      /\ files' = [f \in DOMAIN files \union {s.spoken} |-> IF f = s.spoken THEN state ELSE files[f]]
      /\ UNCHANGED <<row, voice, edits, crossed>>
  BY <1>2 DEF Write
<1>5. /\ DOMAIN files' = DOMAIN files \union {s.spoken}
      /\ \A f \in DOMAIN files' : files'[f] = IF f = s.spoken THEN state ELSE files[f]
  BY <1>4
<1>6. files' \in [DOMAIN files' -> {"partial", "whole"}]
  BY <1>4, <1>5 DEF SpeechInv, BubbleTypeOK
<1>7. BubbleTypeOK'
  BY <1>3, <1>4, <1>6 DEF SpeechInv, BubbleTypeOK
<1>8. SpokenAsLoaded' /\ RecordingsExist'
  BY <1>3, <1>4, <1>5 DEF SpeechInv, SpokenAsLoaded, RecordingsExist
<1>9. SpeaksItsWords'
  BY <1>4 DEF SpeechInv, SpeaksItsWords, Words
<1>10. QED
  BY <1>3, <1>4, <1>5, <1>7, <1>8, <1>9

LEMMA FileOpens ==
  ASSUME SpeechInv, NEW s \in speakers, OpenFile(s)
  PROVE  SpeechInv'
<1>1. /\ BubbleTypeOK' /\ SpokenAsLoaded' /\ RecordingsExist' /\ SpeaksItsWords'
      /\ DOMAIN files' = DOMAIN files \union {s.spoken}
      /\ \A f \in DOMAIN files' : files'[f] = IF f = s.spoken THEN "partial" ELSE files[f]
      /\ \A w \in speakers : w # s => w \in speakers'
      /\ \E w \in speakers' : w.at = "writing" /\ w.spoken = s.spoken
  BY WriteKeeps DEF OpenFile
<1>2. FilesAttended'
  <2> SUFFICES ASSUME NEW f \in DOMAIN files', files'[f] # "whole", f \notin cut'
               PROVE  \E w \in speakers' : w.at = "writing" /\ w.spoken = f
    BY DEF FilesAttended
  <2>1. CASE f = s.spoken
    BY <1>1, <2>1
  <2>2. CASE f # s.spoken
    <3>1. f \in DOMAIN files /\ files[f] # "whole" /\ f \notin cut
      BY <1>1, <2>2 DEF OpenFile
    <3>2. PICK w \in speakers : w.at = "writing" /\ w.spoken = f
      BY <3>1 DEF SpeechInv, FilesAttended
    <3>3. QED
      BY <1>1, <2>2, <3>2
  <2>3. QED
    BY <2>1, <2>2
<1>3. QED
  BY <1>1, <1>2 DEF SpeechInv

LEMMA FileCloses ==
  ASSUME SpeechInv, NEW s \in speakers, CloseFile(s)
  PROVE  SpeechInv'
<1>1. /\ BubbleTypeOK' /\ SpokenAsLoaded' /\ RecordingsExist' /\ SpeaksItsWords'
      /\ DOMAIN files' = DOMAIN files \union {s.spoken}
      /\ \A f \in DOMAIN files' : files'[f] = IF f = s.spoken THEN "whole" ELSE files[f]
      /\ \A w \in speakers : w # s => w \in speakers'
  BY WriteKeeps DEF CloseFile
<1>2. FilesAttended'
  <2> SUFFICES ASSUME NEW f \in DOMAIN files', files'[f] # "whole", f \notin cut'
               PROVE  \E w \in speakers' : w.at = "writing" /\ w.spoken = f
    BY DEF FilesAttended
  <2>1. f # s.spoken
    BY <1>1
  <2>2. f \in DOMAIN files /\ files[f] # "whole" /\ f \notin cut
    BY <1>1, <2>1 DEF CloseFile
  <2>3. PICK w \in speakers : w.at = "writing" /\ w.spoken = f
    BY <2>2 DEF SpeechInv, FilesAttended
  <2>4. QED
    BY <1>1, <2>1, <2>3
<1>3. QED
  BY <1>1, <1>2 DEF SpeechInv

LEMMA SpeechIsStored ==
  ASSUME SpeechInv, NEW s \in speakers, StoreSpeech(s)
  PROVE  SpeechInv'
<1>1. /\ s.at = "storing" /\ row' = [row EXCEPT !.parts = s.was.parts, !.audio = s.spoken]
      /\ speakers' = speakers \ {s}
      /\ crossed' = (crossed \/ Words(row) # Words(s.was) \/ row.parts # s.was.parts)
      /\ UNCHANGED <<voice, edits, files, cut>>
  BY DEF StoreSpeech
<1>2. PICK r \in Rows : r = row
  BY DEF SpeechInv, BubbleTypeOK
<1>3. s \in Speeches /\ s.spoken.words = Words(s.was) /\ s.spoken \in DOMAIN files
  BY <1>1 DEF SpeechInv, BubbleTypeOK, SpokenAsLoaded, RecordingsExist
<1>4. row' = [content |-> r.content, action |-> r.action, parts |-> s.was.parts, audio |-> s.spoken]
  BY <1>1, <1>2 DEF Rows
<1>5. row' \in Rows /\ Words(row') = Words(r) /\ row'.parts = s.was.parts /\ row'.audio = s.spoken
  BY <1>3, <1>4 DEF Rows, Speeches, Words
<1>6. crossed' \in BOOLEAN
  BY <1>1 DEF SpeechInv, BubbleTypeOK
<1>7. BubbleTypeOK'
  BY <1>1, <1>5, <1>6 DEF SpeechInv, BubbleTypeOK
<1>8. SpokenAsLoaded' /\ RecordingsExist'
  BY <1>1, <1>3, <1>5 DEF SpeechInv, SpokenAsLoaded, RecordingsExist
<1>9. FilesAttended'
  BY <1>1, SpeechKeepsFile
<1>10. SpeaksItsWords'
  <2>1. ASSUME ~crossed' PROVE row'.parts \in {None, Words(row')} /\ row'.audio.words = Words(row')
    <3>1. ~crossed /\ Words(row) = Words(s.was) /\ row.parts = s.was.parts
      BY <1>1, <2>1
    <3>2. row.parts \in {None, Words(row)}
      BY <3>1 DEF SpeechInv, SpeaksItsWords
    <3>3. QED
      BY <1>2, <1>3, <1>5, <3>1, <3>2
  <2>2. QED
    BY <2>1 DEF SpeaksItsWords
<1>11. QED
  BY <1>7, <1>8, <1>9, <1>10 DEF SpeechInv

LEMMA SpeechEnds ==
  ASSUME SpeechInv, (\E s \in speakers : SpeakingFails(s)) \/ CrashLater
  PROVE  SpeechInv'
<1>1. /\ UNCHANGED <<row, voice, files, crossed>> /\ edits' \subseteq edits /\ speakers' \subseteq speakers
      /\ \A f \in cut : f \in cut'
      /\ \A w \in speakers : w.at = "writing" => w \in speakers' \/ w.spoken \in cut'
  BY DEF SpeakingFails, CrashLater
<1>2. BubbleTypeOK'
  BY <1>1 DEF SpeechInv, BubbleTypeOK
<1>3. SpokenAsLoaded' /\ RecordingsExist'
  BY <1>1 DEF SpeechInv, SpokenAsLoaded, RecordingsExist
<1>4. FilesAttended'
  BY <1>1 DEF SpeechInv, FilesAttended
<1>5. SpeaksItsWords'
  BY <1>1 DEF SpeechInv, SpeaksItsWords, Words
<1>6. QED
  BY <1>2, <1>3, <1>4, <1>5 DEF SpeechInv

LEMMA EditStarts ==
  ASSUME SpeechInv, NEW field \in {"content", "action"},
         NEW value \in (IF field = "content" THEN Contents ELSE Actions), StartEdit(field, value)
  PROVE  SpeechInv'
<1>1. PICK e : e = [field |-> field, value |-> value, was |-> row]
  OBVIOUS
<1>2. edits' = edits \union {e} /\ UNCHANGED <<row, voice, speakers, files, cut, crossed>>
  BY <1>1 DEF StartEdit
<1>3. e \in Edits
  BY <1>1 DEF SpeechInv, BubbleTypeOK, Edits
<1>4. BubbleTypeOK'
  BY <1>2, <1>3 DEF SpeechInv, BubbleTypeOK
<1>5. QED
  BY <1>2, <1>4 DEF SpeechInv, SpokenAsLoaded, RecordingsExist, FilesAttended, SpeaksItsWords, Words

LEMMA SpeechStep ==
  ASSUME SpeechInv, [LifeNext]_lifeVars
  PROVE  SpeechInv'
<1>1. CASE UNCHANGED bubble
  BY <1>1 DEF bubble, SpeechInv, BubbleTypeOK, SpokenAsLoaded, RecordingsExist, FilesAttended, SpeaksItsWords, Words
<1>2. ASSUME NEW v \in Voices, GiveVoice(v) PROVE SpeechInv'
  <2>1. voice' = v /\ UNCHANGED <<row, edits, speakers, files, cut, crossed>>
    BY <1>2 DEF GiveVoice
  <2>2. BubbleTypeOK'
    BY <2>1 DEF SpeechInv, BubbleTypeOK
  <2>3. QED
    BY <2>1, <2>2 DEF SpeechInv, SpokenAsLoaded, RecordingsExist, FilesAttended, SpeaksItsWords, Words
<1>3. ASSUME NEW value \in Contents, StartEdit("content", value) PROVE SpeechInv'
  BY <1>3, EditStarts
<1>4. ASSUME NEW value \in Actions, StartEdit("action", value) PROVE SpeechInv'
  BY <1>4, EditStarts
<1>5. QED
  BY <1>1, <1>2, <1>3, <1>4, EditKeeps, SpeakerStarts, FileOpens, FileCloses, SpeechIsStored, SpeechEnds
     DEF LifeNext, Live, lifeVars

\* What a bubble says aloud is what is written in it, and the recording it names is whole or being
\* written, for any number of edits, syntheses, changes of voice and crashes at any point of them;
\* but for bubbles written by somebody who had loaded them before an edit, and recordings cut off.
THEOREM SpeechTrue == Spec => []SpeechIsTrue
<1>1. SpeechInv => SpeechIsTrue
  BY DEF SpeechInv, RecordingsExist, FilesAttended, SpeechIsTrue, RecordingIsWhole
<1>2. LifeInit => SpeechInv
  BY SpeechStarts
<1>3. SpeechInv /\ [LifeNext]_lifeVars => SpeechInv'
  BY SpeechStep
<1>4. QED
  BY <1>1, <1>2, <1>3, PTL DEF Spec, LifeNext

-----------------------------------------------------------------------------
(* The stage.                                                              *)

\* A set of numbers has a least element.
LEMMA LeastOf ==
  ASSUME NEW S \in SUBSET Nat, S # {}
  PROVE  \E a \in S : \A b \in S : a <= b
<1>1. PICK a \in S : \A b \in S : ~ (<<b, a>> \in OpToRel(<, Nat))
  BY NatLessThanWellFounded, WFMin
<1>2. ASSUME NEW b \in S PROVE a <= b
  <2>1. a \in Nat /\ b \in Nat
    OBVIOUS
  <2>2. ~ (b < a)
    BY <1>1, <2>1 DEF OpToRel
  <2>3. QED
    BY <2>1, <2>2
<1>3. QED
  BY <1>2

\* Who is foremost: all of a set that is small enough, two at least of one that has two.
LEMMA ForemostOfFew ==
  ASSUME NEW S, IsFiniteSet(S), NEW n \in Nat, Cardinality(S) <= n
  PROVE  Foremost(S, n) = S
<1>1. ASSUME NEW c \in S PROVE Cardinality({d \in S : d <= c}) <= n
  <2> DEFINE upto == {d \in S : d <= c}
  <2>1. upto \in SUBSET S
    OBVIOUS
  <2> HIDE DEF upto
  <2>2. IsFiniteSet(upto) /\ Cardinality(upto) <= Cardinality(S)
    BY <2>1, FS_Subset
  <2>3. Cardinality(upto) \in Nat /\ Cardinality(S) \in Nat
    BY <2>2, FS_CardinalityType
  <2>4. QED
    BY <2>2, <2>3 DEF upto
<1>2. QED
  BY <1>1 DEF Foremost

LEMMA PairSize ==
  ASSUME NEW a, NEW b, a # b
  PROVE  IsFiniteSet({a, b}) /\ Cardinality({a, b}) = 2
<1>1. IsFiniteSet({a}) /\ Cardinality({a}) = 1
  BY FS_Singleton
<1>2. IsFiniteSet({a} \union {b}) /\ Cardinality({a} \union {b}) = 2
  BY <1>1, FS_AddElement
<1>3. {a} \union {b} = {a, b}
  OBVIOUS
<1>4. QED
  BY <1>2, <1>3

LEMMA ForemostAreTwo ==
  ASSUME NEW S \in SUBSET Nat, IsFiniteSet(S), Cardinality(S) >= 2, NEW n \in Nat, n >= 2
  PROVE  Cardinality(Foremost(S, n)) >= 2
<1>1. S # {} /\ Cardinality(S) \in Nat
  BY FS_EmptySet, FS_CardinalityType
<1>2. PICK a \in S : \A c \in S : a <= c
  BY <1>1, LeastOf
<1> DEFINE T == S \ {a}
<1>3. IsFiniteSet(T) /\ Cardinality(T) = Cardinality(S) - 1
  BY FS_RemoveElement
<1>4. T # {} /\ T \in SUBSET Nat
  BY <1>1, <1>3, FS_EmptySet
<1>5. PICK b \in T : \A c \in T : b <= c
  BY <1>4, LeastOf
<1>6. a \in Nat /\ b \in Nat /\ a # b /\ b \in S
  BY <1>4
<1>7. {d \in S : d <= a} = {a}
  <2>1. ASSUME NEW d \in S, d <= a PROVE d = a
    <3>1. d \in Nat /\ a <= d
      BY <1>2
    <3>2. QED
      BY <1>6, <2>1, <3>1
  <2>2. a <= a
    BY <1>6
  <2>3. QED
    BY <2>1, <2>2, Zenon
<1>8. {d \in S : d <= b} = {a, b}
  <2>1. ASSUME NEW d \in S, d <= b, d # a PROVE d = b
    <3>1. d \in Nat /\ b <= d
      BY <1>5, <2>1
    <3>2. QED
      BY <1>6, <2>1, <3>1
  <2>2. a <= b /\ b <= b
    BY <1>2, <1>6
  <2>3. b \in S
    BY <1>6
  <2>4. QED
    BY <2>1, <2>2, <2>3, Zenon
<1>9. a \in Foremost(S, n) /\ b \in Foremost(S, n)
  <2>1. Cardinality({a}) = 1 /\ Cardinality({a, b}) = 2
    BY <1>6, PairSize, FS_Singleton
  <2>2. Cardinality({d \in S : d <= a}) <= n /\ Cardinality({d \in S : d <= b}) <= n
    BY <1>7, <1>8, <2>1
  <2>3. QED
    BY <1>6, <2>2 DEF Foremost
<1>10. IsFiniteSet(Foremost(S, n))
  <2>1. Foremost(S, n) \in SUBSET S
    BY DEF Foremost
  <2>2. QED
    BY <2>1, FS_Subset
<1>11. Cardinality({a, b}) <= Cardinality(Foremost(S, n)) /\ Cardinality({a, b}) = 2
  <2>1. {a, b} \in SUBSET Foremost(S, n)
    BY <1>9
  <2>2. QED
    BY <1>6, <1>10, <2>1, PairSize, FS_Subset
<1>12. Cardinality(Foremost(S, n)) \in Nat
  BY <1>10, FS_CardinalityType
<1>13. QED
  BY <1>11, <1>12

LEMMA RoomsAre ==
  ASSUME NEW r \in Rooms
  PROVE  /\ r \in Room
         /\ r.members \in SUBSET Characters /\ IsFiniteSet(r.members) /\ r.members # {}
         /\ r.silent \subseteq Characters
         /\ r.min \in Nat \ {0} /\ r.max \in Nat /\ r.min <= r.max /\ r.max <= Millisecond
         /\ r.commands \in Seq(Targets)
<1>1. r \in Room
  BY RepliesAssumption
<1>2. QED
  BY <1>1, RepliesAssumption DEF Room

\* The cast of a room: its members in part, all of those who are active where they are few,
\* two at least where the room has two.
LEMMA CastIsSet ==
  ASSUME NEW r \in Rooms
  PROVE  /\ Cast(r) \subseteq r.members /\ Cast(r) # {} /\ IsFiniteSet(Cast(r))
         /\ Cardinality(r.members) > 1 => Cardinality(Cast(r)) > 1
         /\ Cardinality(Active(r)) <= CastMax =>
               r.members \intersect (ActivePair(r) \union {r.sender}) \subseteq Cast(r)
<1>1. /\ r.members \in SUBSET Nat /\ IsFiniteSet(r.members) /\ r.members # {}
      /\ CastMax \in Nat /\ CastMax >= 2
  <2>1. r.members \in SUBSET Characters /\ IsFiniteSet(r.members) /\ r.members # {}
    BY RoomsAre
  <2>2. Characters \subseteq Nat /\ CastMax \in Nat \ {0, 1}
    BY RepliesAssumption
  <2>3. CastMax >= 2
    BY <2>2
  <2>4. QED
    BY <2>1, <2>2, <2>3
<1>2. Active(r) \in SUBSET r.members
  BY DEF Active
<1>3. IsFiniteSet(Active(r)) /\ Cardinality(Active(r)) \in Nat
  <2>1. IsFiniteSet(Active(r))
    BY <1>1, <1>2, FS_Subset
  <2>2. QED
    BY <2>1, FS_CardinalityType
<1>4. CASE Cardinality(r.members) > WholeRoom /\ Cardinality(Active(r)) >= 2
  <2>1. Cast(r) = Foremost(Active(r), CastMax)
    BY <1>4 DEF Cast
  <2>2. Cardinality(Cast(r)) >= 2
    BY <1>1, <1>2, <1>3, <1>4, <2>1, ForemostAreTwo
  <2>3. Cast(r) \in SUBSET r.members
    BY <1>2, <2>1 DEF Foremost
  <2>4. IsFiniteSet(Cast(r))
    BY <1>1, <2>3, FS_Subset
  <2>5. Cast(r) # {}
    BY <2>2, FS_EmptySet
  <2>6. Cardinality(Cast(r)) \in Nat
    BY <2>4, FS_CardinalityType
  <2>7. ASSUME Cardinality(Active(r)) <= CastMax
        PROVE  r.members \intersect (ActivePair(r) \union {r.sender}) \subseteq Cast(r)
    <3>1. Cast(r) = Active(r)
      BY <1>1, <1>3, <2>1, <2>7, ForemostOfFew
    <3>2. QED
      BY <3>1 DEF Active
  <2>8. QED
    BY <2>2, <2>3, <2>4, <2>5, <2>6, <2>7
<1>5. CASE ~(Cardinality(r.members) > WholeRoom /\ Cardinality(Active(r)) >= 2)
  <2>1. Cast(r) = r.members
    BY <1>5 DEF Cast
  <2>2. QED
    BY <1>1, <2>1
<1>6. QED
  BY <1>4, <1>5

-----------------------------------------------------------------------------
(* Who speaks.                                                             *)

Staged == room \in Rooms /\ cast = Cast(room)

LEMMA SpeakingIs ==
  ASSUME Staged
  PROVE  /\ Speaking # {} /\ Speaking \subseteq cast /\ cast \subseteq Characters
         /\ Characters \subseteq Nat \ {0}
         /\ Default \in Speaking
<1>1. cast # {} /\ cast \subseteq Characters /\ Characters \subseteq Nat \ {0}
  <2>1. cast # {} /\ cast \subseteq room.members
    BY CastIsSet DEF Staged
  <2>2. room.members \in SUBSET Characters
    BY RoomsAre DEF Staged
  <2>3. QED
    BY <2>1, <2>2, RepliesAssumption
<1>2. Speaking # {} /\ Speaking \subseteq cast
  BY <1>1 DEF Speaking
<1>3. Speaking \in SUBSET Nat
  BY <1>1, <1>2
<1>4. PICK a \in Speaking : \A b \in Speaking : a <= b
  BY <1>2, <1>3, LeastOf
<1>5. Default \in Speaking
  BY <1>4 DEF Default
<1>6. QED
  BY <1>1, <1>2, <1>5

LEMMA SpeakerIs ==
  ASSUME Staged, NEW raw \in RawReplies
  PROVE  /\ raw.type = "storytelling" => SpeakerOf(raw) = Storyteller
         /\ raw.type # "storytelling" => SpeakerOf(raw) \in Speaking \union {0}
BY SpeakingIs DEF SpeakerOf

\* Where several may speak, a reply that is accepted is given to whom it names.
LEMMA NamedSpeaks ==
  ASSUME Staged, Strict, NEW raw \in RawReplies, SpeakerOf(raw) \in Characters
  PROVE  raw.id = Mock \/ SpeakerOf(raw) = (IF raw.name \in Speaking THEN raw.name ELSE raw.id)
<1>1. 0 \notin Characters /\ Storyteller \notin Characters /\ Speaking \subseteq Characters
  BY SpeakingIs DEF Storyteller
<1>2. CASE raw.name \in Speaking
  <2>1. Resolved(raw.name) = raw.name /\ raw.name # 0
    BY <1>1, <1>2 DEF Resolved
  <2>2. Named(raw) = raw.name
    BY <2>1 DEF Named
  <2>3. QED
    BY <1>1, <1>2, <2>2 DEF SpeakerOf
<1>3. CASE raw.name \notin Speaking
  <2>1. Resolved(raw.name) = 0
    BY <1>3 DEF Resolved
  <2>2. Named(raw) = raw.id
    BY <2>1 DEF Named
  <2>3. QED
    BY <1>1, <1>3, <2>2 DEF SpeakerOf
<1>4. QED
  BY <1>2, <1>3

\* Whom the room takes in.
LEMMA TakenSpeaker ==
  ASSUME Staged, NEW raw \in RawReplies, Persistable(raw)
  PROVE  /\ SpeakerOf(raw) \in Characters \union {Storyteller}
         /\ SpeakerOf(raw) \in Characters => SpeakerOf(raw) \in cast
         /\ SpeakerOf(raw) \notin room.silent
         /\ raw.type # "storytelling" => SpeakerOf(raw) \in Characters
<1>1. cast \subseteq Characters /\ Storyteller \notin Characters /\ Speaking \subseteq Characters /\ 0 # Storyteller
  BY SpeakingIs DEF Storyteller
<1>2. room.silent \subseteq Characters
  BY RoomsAre DEF Staged
<1>3. SpeakerOf(raw) = Storyteller \/ SpeakerOf(raw) \in cast \ room.silent
  BY DEF Persistable
<1>4. QED
  BY <1>1, <1>2, <1>3, SpeakerIs

-----------------------------------------------------------------------------
(* The bubbles of a turn, as a sequence, and who tells each reply.         *)

ByWhom == [k \in DOMAIN answer.replies |-> SpeakerOf(answer.replies[k])]

FromReplies(bs, who) ==
    \A i \in DOMAIN bs :
        \/ bs[i].reply = 0 /\ bs[i].speaker = CommandOverlay
        \/ /\ bs[i].reply \in DOMAIN who /\ bs[i].speaker = who[bs[i].reply]
           /\ bs[i].at = bs[i].reply
           /\ bs[i].before = 0 \/ (bs[i].before = -1 /\ bs[i].text = 0)
AllTold(bs, who) == \A k \in DOMAIN who : \E i \in DOMAIN bs : bs[i].reply = k
Precedes(a, b) == a.at < b.at \/ (a.at = b.at /\ a.reply = 0 /\ b.reply = 0)
InOrder(bs) == \A i, k \in DOMAIN bs : i < k => Precedes(bs[i], bs[k])
\* Before the first bubble of a character there is room for an overlay.
IsFirst(bs, i) == bs[i].speaker \in Characters /\ \A k \in 1..i - 1 : bs[k].speaker \notin Characters
RoomAhead(bs) ==
    \A i \in DOMAIN bs : IsFirst(bs, i) =>
        \A k \in DOMAIN bs :
            bs[k].at > bs[i].at - Millisecond \/ (bs[k].at = bs[i].at - Millisecond /\ bs[k].reply = 0)

Told(bs, who) == FromReplies(bs, who) /\ AllTold(bs, who) /\ InOrder(bs) /\ RoomAhead(bs)

LEMMA BubbleParts ==
  ASSUME NEW b \in Bubble
  PROVE  /\ b.speaker \in Speakers /\ b.reply \in Nat /\ b.text \in Nat
         /\ b.before \in Nat \union {-1} /\ b.at \in Int
BY DEF Bubble

LEMMA OverlaysAreNobody ==
  CommandOverlay \notin Characters /\ Storyteller \notin Characters /\ CommandOverlay # Storyteller
BY RepliesAssumption DEF CommandOverlay, Storyteller

\* The replies as they are taken, microseconds apart.
LEMMA TakenAreTold ==
  ASSUME NEW n \in Nat, n <= Millisecond, NEW who \in [1..n -> Characters \union {Storyteller}],
         NEW bs, bs = [i \in 1..n |-> [speaker |-> who[i], reply |-> i, text |-> 0, before |-> -1, at |-> i]]
  PROVE  bs \in Seq(Bubble) /\ Told(bs, who)
<1>1. \A i \in 1..n : bs[i] = [speaker |-> who[i], reply |-> i, text |-> 0, before |-> -1, at |-> i]
  OBVIOUS
<1>2. DOMAIN bs = 1..n /\ DOMAIN who = 1..n
  OBVIOUS
<1>3. \A i \in 1..n : bs[i] \in Bubble
  BY <1>1 DEF Bubble, Speakers
<1>4. \A i \in 1..n : /\ bs[i].speaker = who[i] /\ bs[i].reply = i /\ bs[i].text = 0
                      /\ bs[i].before = -1 /\ bs[i].at = i
  BY <1>1
<1>5. bs \in Seq(Bubble)
  <2>1. bs \in [1..n -> Bubble]
    BY <1>2, <1>3
  <2>2. QED
    BY <2>1
<1>6. FromReplies(bs, who)
  BY <1>2, <1>4 DEF FromReplies
<1>7. AllTold(bs, who)
  BY <1>2, <1>4 DEF AllTold
<1>8. InOrder(bs)
  BY <1>2, <1>4 DEF InOrder, Precedes
<1>9. RoomAhead(bs)
  <2> SUFFICES ASSUME NEW i \in 1..n, NEW k \in 1..n PROVE bs[k].at > bs[i].at - Millisecond
    BY <1>2 DEF RoomAhead
  <2>1. bs[k].at = k /\ bs[i].at = i
    BY <1>4
  <2>2. QED
    BY <2>1 DEF Millisecond
<1>10. QED
  BY <1>5, <1>6, <1>7, <1>8, <1>9 DEF Told

\* An overlay before the first bubble of a character.
LEMMA FirstOverlayTold ==
  ASSUME NEW bs \in Seq(Bubble), NEW who, Told(bs, who),
         NEW f \in DOMAIN bs, IsFirst(bs, f),
         NEW b \in Bubble, b.speaker = CommandOverlay, b.reply = 0, b.at = bs[f].at - Millisecond,
         NEW new, new = <<b>> \o bs
  PROVE  new \in Seq(Bubble) /\ Told(new, who)
<1>1. new \in Seq(Bubble) /\ Len(new) = Len(bs) + 1 /\ Len(bs) \in Nat
  BY DEF Bubble
<1>2. new[1] = b /\ \A i \in 1..Len(bs) : new[i + 1] = bs[i]
  OBVIOUS
<1>3. DOMAIN bs = 1..Len(bs) /\ DOMAIN new = 1..Len(bs) + 1
  BY <1>1
<1>4. \A i \in DOMAIN new : i = 1 \/ \E j \in DOMAIN bs : i = j + 1 /\ new[i] = bs[j]
  <2> SUFFICES ASSUME NEW i \in DOMAIN new, i # 1 PROVE i - 1 \in DOMAIN bs /\ i = (i - 1) + 1
    BY <1>2, <1>3
  <2>1. QED
    BY <1>1, <1>3
<1>5. \A j \in DOMAIN bs : j \in Nat /\ j + 1 \in DOMAIN new /\ new[j + 1] = bs[j]
  BY <1>1, <1>2, <1>3
<1>6. 1 \in DOMAIN new /\ new[1] = b
  BY <1>1, <1>2, <1>3
<1>7. FromReplies(new, who)
  <2>1. FromReplies(bs, who)
    BY DEF Told
  <2>2. QED
    BY <1>4, <1>6, <2>1 DEF FromReplies
<1>8. AllTold(new, who)
  <2>1. AllTold(bs, who)
    BY DEF Told
  <2>2. QED
    BY <1>5, <2>1 DEF AllTold
<1>9. \A j \in DOMAIN bs : bs[j].at > b.at \/ (bs[j].at = b.at /\ bs[j].reply = 0)
  BY DEF Told, RoomAhead
<1>10. \A j \in DOMAIN bs : bs[j].at \in Int
  BY BubbleParts
<1>11. b.at \in Int
  BY BubbleParts
<1>12. InOrder(new)
  <2> SUFFICES ASSUME NEW i \in DOMAIN new, NEW k \in DOMAIN new, i < k PROVE Precedes(new[i], new[k])
    BY DEF InOrder
  <2>1. i \in Nat /\ k \in Nat /\ i >= 1
    BY <1>1, <1>3
  <2>2. PICK j \in DOMAIN bs : k = j + 1 /\ new[k] = bs[j]
    BY <1>4, <2>1
  <2>3. CASE i = 1
    BY <1>6, <1>9, <1>10, <1>11, <2>2, <2>3 DEF Precedes
  <2>4. CASE i # 1
    <3>1. PICK h \in DOMAIN bs : i = h + 1 /\ new[i] = bs[h]
      BY <1>4, <2>4
    <3>2. h < j
      BY <1>5, <2>2, <3>1
    <3>3. Precedes(bs[h], bs[j])
      BY <3>2 DEF Told, InOrder
    <3>4. QED
      BY <2>2, <3>1, <3>3
  <2>5. QED
    BY <2>3, <2>4
<1>13. \A i \in DOMAIN new : IsFirst(new, i) => i = f + 1
  <2> SUFFICES ASSUME NEW i \in DOMAIN new, IsFirst(new, i) PROVE i = f + 1
    OBVIOUS
  <2>1. i # 1
    BY <1>6, OverlaysAreNobody DEF IsFirst
  <2>2. PICK j \in DOMAIN bs : i = j + 1 /\ new[i] = bs[j]
    BY <1>4, <2>1
  <2>3. bs[j].speaker \in Characters /\ bs[f].speaker \in Characters
    BY <2>2 DEF IsFirst
  <2>4. j \in Nat /\ j >= 1 /\ f \in Nat /\ f >= 1
    BY <1>1, <1>3
  <2>5. ~ (j < f)
    BY <2>3, <2>4 DEF IsFirst
  <2>6. ~ (f < j)
    <3>1. ASSUME f < j PROVE f + 1 \in 1..i - 1
      BY <2>2, <2>4, <3>1
    <3>2. new[f + 1] = bs[f]
      BY <1>5
    <3>3. QED
      BY <2>3, <3>1, <3>2 DEF IsFirst
  <2>7. QED
    BY <2>2, <2>4, <2>5, <2>6
<1>14. RoomAhead(new)
  <2> SUFFICES ASSUME NEW i \in DOMAIN new, IsFirst(new, i), NEW k \in DOMAIN new
               PROVE  \/ new[k].at > new[i].at - Millisecond
                      \/ new[k].at = new[i].at - Millisecond /\ new[k].reply = 0
    BY DEF RoomAhead
  <2>1. new[i] = bs[f]
    BY <1>5, <1>13
  <2>2. CASE k = 1
    BY <1>6, <2>1, <2>2
  <2>3. CASE k # 1
    <3>1. PICK j \in DOMAIN bs : new[k] = bs[j]
      BY <1>4, <2>3
    <3>2. QED
      BY <1>9, <2>1, <3>1
  <2>4. QED
    BY <2>2, <2>3
<1>15. QED
  BY <1>1, <1>7, <1>8, <1>12, <1>14 DEF Told

\* An overlay after the last bubble.
LEMMA LastOverlayTold ==
  ASSUME NEW bs \in Seq(Bubble), NEW who, Told(bs, who), bs # <<>>,
         NEW b \in Bubble, b.speaker = CommandOverlay, b.reply = 0, b.at = bs[Len(bs)].at + Millisecond,
         NEW new, new = Append(bs, b)
  PROVE  new \in Seq(Bubble) /\ Told(new, who)
<1> DEFINE n == Len(bs)
<1>1. new \in Seq(Bubble) /\ Len(new) = n + 1 /\ n \in Nat /\ n >= 1
  OBVIOUS
<1>2. new[n + 1] = b /\ \A i \in 1..n : new[i] = bs[i]
  OBVIOUS
<1>3. DOMAIN bs = 1..n /\ DOMAIN new = 1..n + 1
  BY <1>1
<1> HIDE DEF n
<1>4. \A i \in DOMAIN new : (i = n + 1 /\ new[i] = b) \/ (i \in DOMAIN bs /\ i <= n /\ new[i] = bs[i])
  BY <1>1, <1>2, <1>3
<1>5. \A i \in DOMAIN bs : i \in DOMAIN new /\ new[i] = bs[i]
  BY <1>1, <1>2, <1>3
<1>6. FromReplies(new, who)
  <2>1. FromReplies(bs, who)
    BY DEF Told
  <2>2. QED
    BY <1>4, <2>1 DEF FromReplies
<1>7. AllTold(new, who)
  <2>1. AllTold(bs, who)
    BY DEF Told
  <2>2. QED
    BY <1>5, <2>1 DEF AllTold
<1>8. n \in DOMAIN bs /\ \A j \in DOMAIN bs : bs[j].at \in Int
  BY <1>1, <1>3, BubbleParts
<1>9. b.at = bs[n].at + Millisecond /\ Millisecond = 1000
  BY DEF n, Millisecond
<1>10. \A j \in DOMAIN bs : bs[j].at < b.at
  <2> SUFFICES ASSUME NEW j \in DOMAIN bs PROVE bs[j].at < b.at
    OBVIOUS
  <2>1. j = n \/ j < n
    BY <1>1, <1>3
  <2>2. bs[j].at <= bs[n].at
    <3>1. CASE j = n
      BY <1>8, <3>1
    <3>2. CASE j < n
      <4>1. Precedes(bs[j], bs[n])
        BY <1>8, <3>2 DEF Told, InOrder
      <4>2. QED
        BY <1>8, <4>1 DEF Precedes
    <3>3. QED
      BY <2>1, <3>1, <3>2
  <2>3. QED
    BY <1>8, <1>9, <2>2
<1>11. InOrder(new)
  <2> SUFFICES ASSUME NEW i \in DOMAIN new, NEW k \in DOMAIN new, i < k PROVE Precedes(new[i], new[k])
    BY DEF InOrder
  <2>1. i \in DOMAIN bs /\ new[i] = bs[i]
    BY <1>1, <1>3, <1>4
  <2>2. CASE k = n + 1
    BY <1>2, <1>10, <2>1, <2>2 DEF Precedes
  <2>3. CASE k # n + 1
    <3>1. k \in DOMAIN bs /\ new[k] = bs[k]
      BY <1>4, <2>3
    <3>2. Precedes(bs[i], bs[k])
      BY <2>1, <3>1 DEF Told, InOrder
    <3>3. QED
      BY <2>1, <3>1, <3>2
  <2>4. QED
    BY <2>2, <2>3
<1>12. RoomAhead(new)
  <2> SUFFICES ASSUME NEW i \in DOMAIN new, IsFirst(new, i), NEW k \in DOMAIN new
               PROVE  \/ new[k].at > new[i].at - Millisecond
                      \/ new[k].at = new[i].at - Millisecond /\ new[k].reply = 0
    BY DEF RoomAhead
  <2>1. new[i].speaker \in Characters
    BY DEF IsFirst
  <2>2. i \in DOMAIN bs /\ i <= n /\ new[i] = bs[i]
    BY <1>4, <2>1, OverlaysAreNobody
  <2>3. IsFirst(bs, i)
    <3>1. \A h \in 1..i - 1 : h \in DOMAIN bs
      BY <1>1, <1>3, <2>2
    <3>2. QED
      BY <1>5, <2>2, <3>1 DEF IsFirst
  <2>4. CASE k = n + 1
    <3>1. new[k] = b /\ b.at > bs[i].at /\ b.at \in Int /\ bs[i].at \in Int
      BY <1>2, <1>8, <1>10, <2>2, <2>4, BubbleParts
    <3>2. QED
      BY <1>9, <2>2, <3>1
  <2>5. CASE k # n + 1
    <3>1. k \in DOMAIN bs /\ new[k] = bs[k]
      BY <1>4, <2>5
    <3>2. QED
      BY <2>2, <2>3, <3>1 DEF Told, RoomAhead
  <2>6. QED
    BY <2>4, <2>5
<1>13. QED
  BY <1>1, <1>6, <1>7, <1>11, <1>12 DEF Told

\* A bubble that a command has rewritten.
Rewritten(b, text) == [b EXCEPT !.text = text, !.before = KeptText(b)]
Original(b) == b.before = 0 \/ (b.before = -1 /\ b.text = 0)

LEMMA OneRewritten ==
  ASSUME NEW b \in Bubble, NEW text \in Nat
  PROVE  /\ Rewritten(b, text) \in Bubble
         /\ Rewritten(b, text).speaker = b.speaker
         /\ Rewritten(b, text).reply = b.reply /\ Rewritten(b, text).at = b.at
         /\ Original(b) => Original(Rewritten(b, text))
<1>1. KeptText(b) \in Nat \union {-1} /\ (Original(b) => KeptText(b) = 0)
  BY BubbleParts DEF KeptText, Original
<1>2. PICK kept \in Nat \union {-1} : kept = KeptText(b)
  BY <1>1
<1>3. PICK new : new = Rewritten(b, text)
  OBVIOUS
<1>4. new = [b EXCEPT !.text = text, !.before = kept]
  BY <1>2, <1>3 DEF Rewritten
<1>5. /\ new \in Bubble
      /\ new.speaker = b.speaker /\ new.reply = b.reply /\ new.at = b.at /\ new.before = kept
  BY <1>4 DEF Bubble
<1>6. QED
  BY <1>1, <1>2, <1>3, <1>5 DEF Original

\* Bubbles that are rewritten keep their places, their times and their speakers.
LEMMA RewrittenAreTold ==
  ASSUME NEW bs \in Seq(Bubble), NEW who, Told(bs, who), NEW text \in Nat,
         NEW new, new = [i \in DOMAIN bs |-> new[i]],
         \A i \in DOMAIN bs : new[i] = bs[i] \/ new[i] = Rewritten(bs[i], text)
  PROVE  new \in Seq(Bubble) /\ Told(new, who)
<1>1. ASSUME NEW i \in DOMAIN bs
      PROVE  /\ new[i] \in Bubble
             /\ new[i].speaker = bs[i].speaker /\ new[i].reply = bs[i].reply /\ new[i].at = bs[i].at
             /\ Original(bs[i]) => Original(new[i])
  BY OneRewritten
<1>2. DOMAIN bs = 1..Len(bs) /\ Len(bs) \in Nat
  OBVIOUS
<1>3. new \in Seq(Bubble)
  <2>1. new \in [1..Len(bs) -> Bubble]
    BY <1>1, <1>2
  <2>2. QED
    BY <1>2, <2>1
<1>4. FromReplies(new, who)
  <2>1. FromReplies(bs, who)
    BY DEF Told
  <2>2. QED
    BY <1>1, <2>1 DEF FromReplies, Original
<1>5. AllTold(new, who) /\ InOrder(new)
  BY <1>1 DEF Told, AllTold, InOrder, Precedes
<1>6. RoomAhead(new)
  <2>1. ASSUME NEW i \in DOMAIN new, IsFirst(new, i) PROVE IsFirst(bs, i)
    <3>1. \A k \in 1..i - 1 : k \in DOMAIN bs
      BY <1>2
    <3>2. QED
      BY <1>1, <2>1, <3>1 DEF IsFirst
  <2>2. QED
    BY <1>1, <2>1 DEF Told, RoomAhead
<1>7. QED
  BY <1>3, <1>4, <1>5, <1>6 DEF Told

-----------------------------------------------------------------------------
(* The turn.                                                               *)

TurnInv ==
    /\ TypeOK /\ Staged
    /\ pc \in {"take", "command", "stored"} => Valid(answer.replies, answer.finish)
    /\ pc \in {"command", "stored"} =>
          /\ \A k \in DOMAIN answer.replies : Persistable(answer.replies[k])
          /\ Told(bubbles, ByWhom)

\* An answer that was judged valid.
LEMMA ValidAnswer ==
  ASSUME TypeOK, Staged, Valid(answer.replies, answer.finish)
  PROVE  /\ DOMAIN answer.replies = 1..Len(answer.replies) /\ Len(answer.replies) \in Nat
         /\ Len(answer.replies) \in room.min..room.max /\ room.min \in Nat \ {0}
         /\ Len(answer.replies) <= Millisecond /\ Len(answer.replies) >= 1
         /\ \A k \in DOMAIN answer.replies :
               /\ answer.replies[k] \in RawReplies
               /\ Acceptable(answer.replies[k])
         /\ \E k \in DOMAIN answer.replies : answer.replies[k].type # "storytelling"
<1>1. answer.replies \in Seq(RawReplies)
  BY DEF TypeOK
<1>2. DOMAIN answer.replies = 1..Len(answer.replies) /\ Len(answer.replies) \in Nat
      /\ \A k \in DOMAIN answer.replies : answer.replies[k] \in RawReplies
  BY <1>1
<1>3. room.min \in Nat \ {0} /\ room.max \in Nat /\ room.max <= Millisecond
  BY RoomsAre DEF Staged
<1>4. /\ Len(answer.replies) \in room.min..room.max
      /\ \A k \in DOMAIN answer.replies : Acceptable(answer.replies[k])
      /\ \E k \in DOMAIN answer.replies : answer.replies[k].type # "storytelling"
  BY DEF Valid
<1>5. Len(answer.replies) <= Millisecond /\ Len(answer.replies) >= 1
  BY <1>2, <1>3, <1>4 DEF Millisecond
<1>6. QED
  BY <1>2, <1>3, <1>4, <1>5

LEMMA TurnStarts == Init => TurnInv
<1> SUFFICES ASSUME Init PROVE TurnInv
  OBVIOUS
<1>1. Staged /\ pc = "prompt" /\ attempt = 1 /\ answer = NoAnswer /\ bubbles = <<>> /\ done = 0
  BY DEF Init, Staged
<1>2. answer.replies = <<>>
  BY <1>1 DEF NoAnswer
<1>3. <<>> \in Seq(RawReplies) /\ <<>> \in Seq(Bubble)
  OBVIOUS
<1>4. room.commands \in Seq(Targets)
  BY <1>1, RoomsAre DEF Staged
<1>5. done \in 0..Len(room.commands)
  BY <1>1, <1>4
<1>6. TypeOK
  BY <1>1, <1>2, <1>3, <1>5 DEF TypeOK, Staged
<1>7. QED
  BY <1>1, <1>6 DEF TurnInv

\* Who tells a reply depends on the room, its stage and the answer, which commands leave alone.
LEMMA SameSpeakers ==
  ASSUME UNCHANGED <<room, cast, answer>>
  PROVE  /\ ByWhom' = ByWhom
         /\ \A raw : Persistable(raw)' <=> Persistable(raw)
         /\ Valid(answer.replies, answer.finish)' <=> Valid(answer.replies, answer.finish)
<1>1. Speaking' = Speaking
  BY DEF Speaking
<1>2. Default' = Default /\ Strict' = Strict
  BY <1>1 DEF Default, Strict
<1>3. \A name : Resolved(name)' = Resolved(name)
  BY <1>1 DEF Resolved
<1>4. \A raw : Named(raw)' = Named(raw)
  BY <1>2, <1>3 DEF Named
<1>5. \A raw : SpeakerOf(raw)' = SpeakerOf(raw)
  BY <1>1, <1>2, <1>4 DEF SpeakerOf
<1>6. ByWhom' = ByWhom
  BY <1>5 DEF ByWhom
<1>7. \A raw : Persistable(raw)' <=> Persistable(raw)
  BY <1>5 DEF Persistable
<1>8. \A raw : Acceptable(raw)' <=> Acceptable(raw)
  BY <1>2, <1>3, <1>5 DEF Acceptable, Identified, Visible
<1>9. Valid(answer.replies, answer.finish)' <=> Valid(answer.replies, answer.finish)
  BY <1>8 DEF Valid
<1>10. QED
  BY <1>6, <1>7, <1>9

\* A step before the room takes the answer in.
LEMMA BeforeTaking ==
  ASSUME TurnInv, UNCHANGED <<room, cast, bubbles, done>>,
         answer'.replies \in Seq(RawReplies), attempt' \in 1..2,
         pc' \in {"prompt", "send", "ask", "judge", "failed"}
  PROVE  TurnInv'
BY DEF TurnInv, TypeOK, Staged

LEMMA AnswerStep ==
  ASSUME TurnInv, NEW replies \in SeqOf(RawReplies, MaxRaw), NEW finish, Answer(replies, finish)
  PROVE  TurnInv'
<1>1. replies \in Seq(RawReplies)
  <2>1. PICK m \in 0..MaxRaw : replies \in [1..m -> RawReplies]
    BY DEF SeqOf
  <2>2. m \in Nat
    BY <2>1, RepliesAssumption
  <2>3. QED
    BY <2>1, <2>2
<1>2. answer' = [replies |-> replies, finish |-> finish] /\ pc' = "judge"
      /\ UNCHANGED <<room, cast, attempt, prompt, bubbles, done>>
  BY DEF Answer
<1>3. answer'.replies = replies
  BY <1>2
<1>4. attempt' \in 1..2
  BY <1>2 DEF TurnInv, TypeOK
<1>5. QED
  BY <1>1, <1>2, <1>3, <1>4, BeforeTaking

LEMMA RejectStep ==
  ASSUME TurnInv, Reject
  PROVE  TurnInv'
<1>1. answer' = NoAnswer /\ UNCHANGED <<room, cast, prompt, bubbles, done>>
      /\ pc' \in {"ask", "failed"} /\ (attempt' = 2 \/ attempt' = attempt)
  BY DEF Reject
<1>2. answer'.replies = <<>> /\ <<>> \in Seq(RawReplies)
  BY <1>1 DEF NoAnswer
<1>3. attempt' \in 1..2
  BY <1>1 DEF TurnInv, TypeOK
<1>4. QED
  BY <1>1, <1>2, <1>3, BeforeTaking

LEMMA PromptStep ==
  ASSUME TurnInv, UNCHANGED <<room, cast, attempt, answer, bubbles, done>>, pc' \in {"send", "ask", "failed"}
  PROVE  TurnInv'
<1>1. answer'.replies \in Seq(RawReplies) /\ attempt' \in 1..2
  BY DEF TurnInv, TypeOK
<1>2. QED
  BY <1>1, BeforeTaking

LEMMA AcceptStep ==
  ASSUME TurnInv, Accept
  PROVE  TurnInv'
<1>1. /\ Valid(answer.replies, answer.finish) /\ pc' = "take"
      /\ UNCHANGED <<room, cast, attempt, prompt, answer, bubbles, done>>
  BY DEF Accept
<1>2. Valid(answer.replies, answer.finish)'
  BY <1>1, SameSpeakers
<1>3. TypeOK' /\ Staged'
  BY <1>1 DEF TurnInv, TypeOK, Staged
<1>4. QED
  BY <1>1, <1>2, <1>3 DEF TurnInv

LEMMA TakeStep ==
  ASSUME TurnInv, Take
  PROVE  TurnInv'
<1>1. pc = "take" /\ UNCHANGED <<room, cast, attempt, prompt, answer, done>>
  BY DEF Take
<1>2. Valid(answer.replies, answer.finish) /\ TypeOK /\ Staged
  BY <1>1 DEF TurnInv
<1>3. CASE \A i \in DOMAIN answer.replies : Persistable(answer.replies[i])
  <2>1. /\ pc' = "command"
        /\ bubbles' = [i \in DOMAIN answer.replies |->
               [speaker |-> SpeakerOf(answer.replies[i]), reply |-> i, text |-> 0, before |-> -1, at |-> i]]
    BY <1>3 DEF Take
  <2>2. PICK n \in Nat : n = Len(answer.replies) /\ n <= Millisecond /\ DOMAIN answer.replies = 1..n
    BY <1>2, ValidAnswer
  <2>3. PICK who : who = ByWhom
    OBVIOUS
  <2>4. DOMAIN who = 1..n /\ \A i \in 1..n : who[i] = SpeakerOf(answer.replies[i])
    BY <2>2, <2>3 DEF ByWhom
  <2>5. who \in [1..n -> Characters \union {Storyteller}]
    <3>1. \A i \in 1..n : who[i] \in Characters \union {Storyteller}
      BY <1>2, <1>3, <2>2, <2>4, ValidAnswer, TakenSpeaker
    <3>2. who = [i \in 1..n |-> who[i]]
      BY <2>2, <2>3 DEF ByWhom
    <3>3. QED
      BY <3>1, <3>2
  <2>6. PICK bs : bs = bubbles'
    OBVIOUS
  <2>7. bs = [i \in 1..n |-> [speaker |-> who[i], reply |-> i, text |-> 0, before |-> -1, at |-> i]]
    BY <2>1, <2>2, <2>4, <2>6
  <2>8. bs \in Seq(Bubble) /\ Told(bs, who)
    BY <2>2, <2>5, <2>7, TakenAreTold
  <2>9. TypeOK' /\ Staged'
    BY <1>1, <1>2, <2>1, <2>6, <2>8 DEF TypeOK, Staged
  <2>10. /\ ByWhom' = who /\ Valid(answer.replies, answer.finish)'
         /\ \A k \in DOMAIN answer.replies : Persistable(answer.replies[k])'
    BY <1>1, <1>2, <1>3, <2>3, SameSpeakers
  <2>11. Told(bubbles, ByWhom)'
    BY <2>6, <2>8, <2>10 DEF Told, FromReplies, AllTold, InOrder, RoomAhead, IsFirst, Precedes
  <2>12. (\A k \in DOMAIN answer.replies : Persistable(answer.replies[k]))'
    BY <1>1, <2>10
  <2>13. QED
    BY <2>9, <2>10, <2>11, <2>12 DEF TurnInv
<1>4. CASE ~ \A i \in DOMAIN answer.replies : Persistable(answer.replies[i])
  <2>1. pc' = "failed" /\ UNCHANGED bubbles
    BY <1>4 DEF Take
  <2>2. answer'.replies \in Seq(RawReplies) /\ attempt' \in 1..2
    BY <1>1, <1>2 DEF TypeOK
  <2>3. QED
    BY <1>1, <2>1, <2>2, BeforeTaking
<1>5. QED
  BY <1>3, <1>4

\* A step of the commands: another sequence that tells the same.
LEMMA CommandStep ==
  ASSUME TurnInv, pc \in {"command", "stored"}, pc' \in {"command", "stored"},
         UNCHANGED <<room, cast, attempt, answer>>, done' \in 0..Len(room.commands),
         NEW bs, bs = bubbles', bs \in Seq(Bubble), Told(bs, ByWhom)
  PROVE  TurnInv'
<1>1. Valid(answer.replies, answer.finish) /\ TypeOK /\ Staged
      /\ \A k \in DOMAIN answer.replies : Persistable(answer.replies[k])
  BY DEF TurnInv
<1>2. PICK who : who = ByWhom
  OBVIOUS
<1>3. /\ ByWhom' = who /\ Valid(answer.replies, answer.finish)'
      /\ (\A k \in DOMAIN answer.replies : Persistable(answer.replies[k]))'
  BY <1>1, <1>2, SameSpeakers
<1>4. Told(bubbles, ByWhom)'
  BY <1>2, <1>3 DEF Told, FromReplies, AllTold, InOrder, RoomAhead, IsFirst, Precedes
<1>5. TypeOK' /\ Staged'
  BY <1>1 DEF TypeOK, Staged
<1>6. QED
  BY <1>3, <1>4, <1>5 DEF TurnInv

LEMMA WhileCommanding ==
  ASSUME TurnInv, Commanding
  PROVE  /\ pc = "command" /\ bubbles \in Seq(Bubble) /\ bubbles # <<>> /\ Told(bubbles, ByWhom)
         /\ done \in Nat /\ done + 1 \in 0..Len(room.commands)
<1>1. pc = "command" /\ done < Len(room.commands) /\ TypeOK /\ Staged
      /\ Valid(answer.replies, answer.finish) /\ Told(bubbles, ByWhom)
  BY DEF Commanding, TurnInv
<1>2. Len(room.commands) \in Nat
  BY <1>1, RoomsAre DEF Staged
<1>3. bubbles \in Seq(Bubble) /\ done \in 0..Len(room.commands)
  BY <1>1 DEF TypeOK
<1>4. done \in Nat /\ done + 1 \in 0..Len(room.commands)
  BY <1>1, <1>2, <1>3
<1>5. 1 \in DOMAIN answer.replies
  BY <1>1, ValidAnswer
<1>6. 1 \in DOMAIN ByWhom
  BY <1>5 DEF ByWhom
<1>7. \E i \in DOMAIN bubbles : bubbles[i].reply = 1
  BY <1>1, <1>6 DEF Told, AllTold
<1>8. bubbles # <<>>
  BY <1>7
<1>9. QED
  BY <1>1, <1>3, <1>4, <1>8

LEMMA OverlayIs ==
  ASSUME done \in Nat, NEW at \in Int
  PROVE  Overlay(at) \in Bubble /\ Overlay(at).speaker = CommandOverlay
         /\ Overlay(at).reply = 0 /\ Overlay(at).at = at
BY DEF Overlay, Bubble, Speakers

LEMMA OverlayFirstStep ==
  ASSUME TurnInv, OverlayFirst
  PROVE  TurnInv'
<1>1. Commanding /\ done' = done + 1 /\ UNCHANGED <<room, cast, pc, attempt, prompt, answer>>
  BY DEF OverlayFirst
<1>2. /\ pc = "command" /\ bubbles \in Seq(Bubble) /\ Told(bubbles, ByWhom)
      /\ done \in Nat /\ done' \in 0..Len(room.commands)
  BY <1>1, WhileCommanding
<1>3. PICK old \in Seq(Bubble) : old = bubbles
  BY <1>2
<1>0. PICK who : who = ByWhom
  OBVIOUS
<1>4. PICK f \in DOMAIN old :
         /\ IsFirst(old, f)
         /\ bubbles' = <<Overlay(old[f].at + (-Millisecond))>> \o old
  BY <1>0, <1>3 DEF OverlayFirst, ByCharacter, IsFirst, OverlayTime
<1>5. old[f].at \in Int
  BY BubbleParts
<1>6. PICK at \in Int : at = old[f].at + (-Millisecond) /\ at = old[f].at - Millisecond
  BY <1>5 DEF Millisecond
<1>7. PICK b \in Bubble : /\ b = Overlay(at) /\ b.speaker = CommandOverlay /\ b.reply = 0 /\ b.at = at
  BY <1>2, OverlayIs
<1>8. PICK new : new = bubbles'
  OBVIOUS
<1>9. new = <<b>> \o old
  BY <1>4, <1>6, <1>7, <1>8
<1>10. new \in Seq(Bubble) /\ Told(new, who)
  BY <1>0, <1>2, <1>3, <1>4, <1>6, <1>7, <1>9, FirstOverlayTold
<1>11. QED
  BY <1>0, <1>1, <1>2, <1>3, <1>8, <1>10, CommandStep

LEMMA OverlayLastStep ==
  ASSUME TurnInv, OverlayLast
  PROVE  TurnInv'
<1>1. Commanding /\ done' = done + 1 /\ UNCHANGED <<room, cast, pc, attempt, prompt, answer>>
  BY DEF OverlayLast
<1>2. /\ pc = "command" /\ bubbles \in Seq(Bubble) /\ Told(bubbles, ByWhom) /\ bubbles # <<>>
      /\ done \in Nat /\ done' \in 0..Len(room.commands)
  BY <1>1, WhileCommanding
<1>3. PICK old \in Seq(Bubble) : old = bubbles
  BY <1>2
<1>0. PICK who : who = ByWhom
  OBVIOUS
<1>4. old[Len(old)].at \in Int
  <2>1. Len(old) \in DOMAIN old
    BY <1>0, <1>2, <1>3
  <2>2. QED
    BY <2>1, BubbleParts
<1>5. PICK at \in Int : at = old[Len(old)].at + Millisecond
  BY <1>4 DEF Millisecond
<1>6. PICK b \in Bubble : /\ b = Overlay(at) /\ b.speaker = CommandOverlay /\ b.reply = 0 /\ b.at = at
  BY <1>2, OverlayIs
<1>7. PICK new : new = bubbles'
  OBVIOUS
<1>8. new = Append(old, b)
  BY <1>0, <1>3, <1>5, <1>6, <1>7 DEF OverlayLast, OverlayTime, Last
<1>9. new \in Seq(Bubble) /\ Told(new, who)
  BY <1>0, <1>2, <1>3, <1>5, <1>6, <1>8, LastOverlayTold
<1>10. QED
  BY <1>0, <1>1, <1>2, <1>3, <1>7, <1>9, CommandStep

LEMMA RewriteStep ==
  ASSUME TurnInv, NEW targets \in SUBSET (DOMAIN bubbles), Rewrite(targets)
  PROVE  TurnInv'
<1>1. Commanding /\ done' = done + 1 /\ UNCHANGED <<room, cast, pc, attempt, prompt, answer>>
  BY DEF Rewrite
<1>2. /\ pc = "command" /\ bubbles \in Seq(Bubble) /\ Told(bubbles, ByWhom)
      /\ done \in Nat /\ done' \in 0..Len(room.commands)
  BY <1>1, WhileCommanding
<1>3. PICK old \in Seq(Bubble) : old = bubbles
  BY <1>2
<1>0. PICK who : who = ByWhom
  OBVIOUS
<1>4. PICK text \in Nat : text = done + 1
  BY <1>2
<1>5. PICK new : new = bubbles'
  OBVIOUS
<1>6. new = [i \in DOMAIN old |-> IF i \in targets THEN Rewritten(old[i], text) ELSE old[i]]
  BY <1>0, <1>3, <1>4, <1>5, Zenon DEF Rewrite, Rewritten
<1>7. new = [i \in DOMAIN old |-> new[i]] /\ \A i \in DOMAIN old : new[i] = old[i] \/ new[i] = Rewritten(old[i], text)
  BY <1>6
<1>8. new \in Seq(Bubble) /\ Told(new, who)
  BY <1>0, <1>2, <1>3, <1>7, RewrittenAreTold
<1>9. QED
  BY <1>0, <1>1, <1>2, <1>3, <1>5, <1>8, CommandStep

LEMMA RestStep ==
  ASSUME TurnInv, CommandFails \/ Store
  PROVE  TurnInv'
<1>1. PICK old : old = bubbles
  OBVIOUS
<1>2. CASE CommandFails
  <2>1. Commanding /\ done' = done + 1 /\ UNCHANGED <<room, cast, pc, attempt, prompt, answer, bubbles>>
    BY <1>2 DEF CommandFails
  <2>2. /\ pc = "command" /\ bubbles \in Seq(Bubble) /\ Told(bubbles, ByWhom)
        /\ done' \in 0..Len(room.commands)
    BY <2>1, WhileCommanding
  <2>3. QED
    BY <1>1, <2>1, <2>2, CommandStep
<1>3. CASE Store
  <2>1. pc = "command" /\ pc' = "stored" /\ UNCHANGED <<room, cast, attempt, prompt, answer, bubbles, done>>
    BY <1>3 DEF Store
  <2>2. bubbles \in Seq(Bubble) /\ Told(bubbles, ByWhom) /\ done' \in 0..Len(room.commands)
    BY <2>1 DEF TurnInv, TypeOK
  <2>3. QED
    BY <1>1, <2>1, <2>2, CommandStep
<1>4. QED
  BY <1>2, <1>3

LEMMA TurnStep ==
  ASSUME TurnInv, [LifeNext]_lifeVars
  PROVE  TurnInv'
<1>1. CASE UNCHANGED vars
  <2>1. UNCHANGED <<room, cast, answer>>
    BY <1>1 DEF vars
  <2>2. PICK who : who = ByWhom
    OBVIOUS
  <2>3. ByWhom' = who /\ \A raw : Persistable(raw)' <=> Persistable(raw)
    BY <2>1, <2>2, SameSpeakers
  <2>4. Valid(answer.replies, answer.finish)' <=> Valid(answer.replies, answer.finish)
    BY <2>1, SameSpeakers
  <2>5. TypeOK' /\ Staged'
    BY <1>1 DEF TurnInv, TypeOK, Staged, vars
  <2>6. Told(bubbles, ByWhom)' <=> Told(bubbles, who)
    BY <1>1, <2>3 DEF vars, Told, FromReplies, AllTold, InOrder, RoomAhead, IsFirst, Precedes
  <2>7. (\A k \in DOMAIN answer.replies : Persistable(answer.replies[k]))'
           <=> \A k \in DOMAIN answer.replies : Persistable(answer.replies[k])
    BY <2>1, <2>3
  <2>8. pc' = pc
    BY <1>1 DEF vars
  <2>9. QED
    BY <2>2, <2>4, <2>5, <2>6, <2>7, <2>8 DEF TurnInv
<1>2. CASE Live
  <2>1. UNCHANGED vars
    BY <1>2 DEF Live, StartEdit, CommitEdit, GiveVoice, StartSpeaking, OpenFile, CloseFile, Write,
                StoreSpeech, SpeakingFails, CrashLater, Stored
  <2>2. QED
    BY <1>1, <2>1
<1>3. CASE Generate
  <2>1. ASSUME NEW history, NEW boundary, NEW mode, NEW sections, NEW budget,
               Assemble(history, boundary, mode, sections, budget)
        PROVE  TurnInv'
    <3>1. UNCHANGED <<room, cast, attempt, answer, bubbles, done>> /\ pc' \in {"send", "failed"}
      BY <2>1 DEF Assemble
    <3>2. QED
      BY <3>1, PromptStep
  <2>2. CASE Send
    <3>1. UNCHANGED <<room, cast, attempt, answer, bubbles, done>> /\ pc' = "ask"
      BY <2>2 DEF Send
    <3>2. QED
      BY <3>1, PromptStep
  <2>3. ASSUME NEW targets \in SUBSET (DOMAIN bubbles), Rewrite(targets) PROVE TurnInv'
    BY <2>3, RewriteStep
  <2>4. ASSUME NEW replies \in SeqOf(RawReplies, MaxRaw), NEW finish, Answer(replies, finish) PROVE TurnInv'
    BY <2>4, AnswerStep
  <2>5. QED
    BY <1>3, <2>1, <2>2, <2>3, <2>4, AcceptStep, RejectStep, TakeStep, OverlayFirstStep, OverlayLastStep, RestStep
       DEF Generate
<1>4. QED
  BY <1>1, <1>2, <1>3 DEF LifeNext, lifeVars

\* What the invariant says of the bubbles that are shown.
LEMMA ShownAreTold ==
  ASSUME TurnInv, Shown # {}
  PROVE  /\ Shown = DOMAIN bubbles /\ TypeOK /\ Staged /\ Valid(answer.replies, answer.finish)
         /\ \A k \in DOMAIN answer.replies : Persistable(answer.replies[k])
         /\ Told(bubbles, ByWhom) /\ bubbles \in Seq(Bubble)
         /\ \A k \in DOMAIN ByWhom : k \in DOMAIN answer.replies /\ ByWhom[k] = SpeakerOf(answer.replies[k])
         /\ DOMAIN ByWhom = DOMAIN answer.replies
<1>1. pc \in {"command", "stored"} /\ Shown = DOMAIN bubbles
  BY DEF Shown
<1>2. QED
  BY <1>1 DEF TurnInv, TypeOK, ByWhom

\* A bubble that is shown is an overlay or one reply of the answer.
LEMMA ShownBubble ==
  ASSUME TurnInv, NEW i \in Shown
  PROVE  /\ i \in DOMAIN bubbles
         /\ \/ bubbles[i].reply = 0 /\ bubbles[i].speaker = CommandOverlay
            \/ /\ bubbles[i].reply # 0 /\ bubbles[i].reply \in DOMAIN answer.replies
               /\ Reply(i) \in RawReplies /\ Acceptable(Reply(i)) /\ Persistable(Reply(i))
               /\ bubbles[i].speaker = SpeakerOf(Reply(i))
               /\ bubbles[i].at = bubbles[i].reply
               /\ bubbles[i].text = 0 \/ bubbles[i].before = 0
<1>1. /\ Shown = DOMAIN bubbles /\ TypeOK /\ Staged /\ Valid(answer.replies, answer.finish)
      /\ \A k \in DOMAIN answer.replies : Persistable(answer.replies[k])
      /\ FromReplies(bubbles, ByWhom)
      /\ \A k \in DOMAIN ByWhom : k \in DOMAIN answer.replies /\ ByWhom[k] = SpeakerOf(answer.replies[k])
  BY ShownAreTold DEF Told
<1>2. CASE bubbles[i].reply = 0 /\ bubbles[i].speaker = CommandOverlay
  BY <1>1, <1>2
<1>3. CASE ~(bubbles[i].reply = 0 /\ bubbles[i].speaker = CommandOverlay)
  <2>1. PICK k \in DOMAIN answer.replies : /\ k = bubbles[i].reply /\ bubbles[i].speaker = SpeakerOf(answer.replies[k])
                                           /\ bubbles[i].at = k
                                           /\ bubbles[i].text = 0 \/ bubbles[i].before = 0
    BY <1>1, <1>3 DEF FromReplies
  <2>2. k # 0 /\ answer.replies[k] \in RawReplies /\ Acceptable(answer.replies[k]) /\ Persistable(answer.replies[k])
    BY <1>1, ValidAnswer
  <2>3. Reply(i) = answer.replies[k]
    BY <2>1 DEF Reply
  <2>4. QED
    BY <1>1, <2>1, <2>2, <2>3
<1>4. QED
  BY <1>2, <1>3

\* A bubble of a character is a reply, and on the stage.
LEMMA CharacterBubble ==
  ASSUME TurnInv, NEW i \in Shown
  PROVE  /\ bubbles[i].speaker \notin room.silent
         /\ ByCharacter(i) => /\ bubbles[i].speaker \in cast /\ bubbles[i].reply # 0
                              /\ Reply(i) \in RawReplies /\ bubbles[i].speaker = SpeakerOf(Reply(i))
<1>1. Staged
  BY DEF TurnInv
<1>2. room.silent \subseteq Characters
  BY <1>1, RoomsAre DEF Staged
<1>3. CASE bubbles[i].reply = 0 /\ bubbles[i].speaker = CommandOverlay
  BY <1>2, <1>3, OverlaysAreNobody DEF ByCharacter
<1>4. CASE ~(bubbles[i].reply = 0 /\ bubbles[i].speaker = CommandOverlay)
  <2>1. /\ bubbles[i].reply # 0 /\ Reply(i) \in RawReplies /\ Persistable(Reply(i))
        /\ bubbles[i].speaker = SpeakerOf(Reply(i))
    BY <1>4, ShownBubble
  <2>2. SpeakerOf(Reply(i)) \notin room.silent /\ (SpeakerOf(Reply(i)) \in Characters => SpeakerOf(Reply(i)) \in cast)
    BY <1>1, <2>1, TakenSpeaker
  <2>3. QED
    BY <2>1, <2>2 DEF ByCharacter
<1>5. QED
  BY <1>3, <1>4

\* As many bubbles as replies.
LEMMA AsManyAsReplies ==
  ASSUME TurnInv, Shown # {}
  PROVE  Cardinality({i \in Shown : bubbles[i].reply # 0}) = Len(answer.replies)
<1> DEFINE S == {i \in Shown : bubbles[i].reply # 0}
           n == Len(answer.replies)
<1>1. /\ Shown = DOMAIN bubbles /\ TypeOK /\ Staged /\ Valid(answer.replies, answer.finish)
      /\ Told(bubbles, ByWhom) /\ bubbles \in Seq(Bubble) /\ DOMAIN ByWhom = DOMAIN answer.replies
  BY ShownAreTold
<1>2. DOMAIN answer.replies = 1..n /\ n \in Nat
  BY <1>1, ValidAnswer
<1> HIDE DEF n
<1>3. DOMAIN bubbles = 1..Len(bubbles) /\ Len(bubbles) \in Nat
  BY <1>1
<1>4. \A i \in S : bubbles[i].reply \in 1..n /\ bubbles[i].at = bubbles[i].reply
  BY <1>2, ShownBubble
<1>5. \A k \in 1..n : \E i \in S : bubbles[i].reply = k
  <2>1. ASSUME NEW k \in 1..n PROVE \E i \in DOMAIN bubbles : bubbles[i].reply = k /\ k # 0
    <3>1. k # 0 /\ k \in DOMAIN ByWhom
      BY <1>1, <1>2
    <3>2. AllTold(bubbles, ByWhom)
      BY <1>1 DEF Told
    <3>3. QED
      BY <3>1, <3>2 DEF AllTold
  <2>2. QED
    BY <1>1, <2>1
<1>6. \A i, j \in S : bubbles[i].reply = bubbles[j].reply => i = j
  <2> SUFFICES ASSUME NEW i \in S, NEW j \in S, bubbles[i].reply = bubbles[j].reply, i # j PROVE FALSE
    OBVIOUS
  <2>1. i \in DOMAIN bubbles /\ j \in DOMAIN bubbles /\ bubbles[i].reply # 0 /\ bubbles[j].reply # 0
    BY <1>1
  <2>2. bubbles[i].at = bubbles[j].at /\ bubbles[i].at \in Int
    BY <1>2, <1>4
  <2>3. i < j \/ j < i
    BY <1>3, <2>1
  <2>4. Precedes(bubbles[i], bubbles[j]) \/ Precedes(bubbles[j], bubbles[i])
    BY <1>1, <2>1, <2>3 DEF Told, InOrder
  <2>5. QED
    BY <2>1, <2>2, <2>4 DEF Precedes
<1> HIDE DEF S
<1>7. ExistsBijection(1..n, S)
  <2> DEFINE g == [k \in 1..n |-> CHOOSE i \in S : bubbles[i].reply = k]
  <2>1. \A k \in 1..n : g[k] \in S /\ bubbles[g[k]].reply = k
    BY <1>5
  <2>2. \A i \in S : g[bubbles[i].reply] = i
    BY <1>4, <1>6, <2>1
  <2>3. g \in [1..n -> S]
    BY <2>1
  <2> HIDE DEF g
  <2>4. g \in Injection(1..n, S)
    BY <2>1, <2>3 DEF Injection, IsInjective
  <2>5. g \in Surjection(1..n, S)
    BY <1>4, <2>2, <2>3 DEF Surjection
  <2>6. QED
    BY <2>4, <2>5 DEF ExistsBijection, Bijection
<1>8. Cardinality(S) = n
  BY <1>2, <1>7, FS_CountingElements
<1>9. QED
  BY <1>8 DEF S, n

\* What is shown comes from those who may speak, under the names their replies give, and as many
\* replies as the room wants are worth showing, whatever the model answers, in any room and under
\* any commands; the stage has two characters at least where the room has two.
THEOREM AnswersSound == Spec => []AnswerIsSound
<1>1. TurnInv => AnswerIsSound
  <2> SUFFICES ASSUME TurnInv PROVE AnswerIsSound
    OBVIOUS
  <2>1. TypeOK /\ Staged
    BY DEF TurnInv
  <2>2. StageIsSet
    <3>1. /\ Cardinality(room.members) > 1 => Cardinality(cast) > 1
          /\ Cardinality(Active(room)) <= CastMax =>
                room.members \intersect (ActivePair(room) \union {room.sender}) \subseteq cast
      BY <2>1, CastIsSet DEF Staged
    <3>2. \A i \in Shown : ByCharacter(i) => bubbles[i].speaker \in cast
      BY CharacterBubble
    <3>3. QED
      BY <3>1, <3>2 DEF StageIsSet
  <2>3. SilentStaySilent
    BY CharacterBubble DEF SilentStaySilent
  <2>4. SpeakerAsNamed
    <3> SUFFICES ASSUME Strict, NEW i \in Shown, ByCharacter(i)
                 PROVE  \/ Reply(i).id = Mock
                        \/ bubbles[i].speaker = (IF Reply(i).name \in Speaking THEN Reply(i).name ELSE Reply(i).id)
      BY DEF SpeakerAsNamed
    <3>1. PICK raw \in RawReplies : raw = Reply(i) /\ bubbles[i].speaker = SpeakerOf(raw) /\ SpeakerOf(raw) \in Characters
      BY CharacterBubble DEF ByCharacter
    <3>2. raw.id = Mock \/ SpeakerOf(raw) = (IF raw.name \in Speaking THEN raw.name ELSE raw.id)
      BY <2>1, <3>1, NamedSpeaks
    <3>3. QED
      BY <3>1, <3>2
  <2>5. RepliesWorthShowing
    <3> SUFFICES ASSUME Shown # {}
                 PROVE  LET replies == {i \in Shown : bubbles[i].reply # 0} IN
                        /\ Cardinality(replies) \in room.min..room.max
                        /\ \E i \in replies : ByCharacter(i)
                        /\ \A i \in replies : Reply(i).text \in {"speech", "tagged"}
      BY DEF RepliesWorthShowing
    <3>1. /\ Shown = DOMAIN bubbles /\ Valid(answer.replies, answer.finish) /\ AllTold(bubbles, ByWhom)
          /\ DOMAIN ByWhom = DOMAIN answer.replies
      BY ShownAreTold DEF Told
    <3>2. Cardinality({i \in Shown : bubbles[i].reply # 0}) \in room.min..room.max
      BY <2>1, <3>1, AsManyAsReplies, ValidAnswer
    <3>3. \E i \in Shown : bubbles[i].reply # 0 /\ ByCharacter(i)
      <4>1. PICK k \in DOMAIN answer.replies : answer.replies[k].type # "storytelling" /\ k # 0
        BY <2>1, <3>1, ValidAnswer
      <4>2. PICK i \in Shown : bubbles[i].reply = k
        BY <3>1, <4>1 DEF AllTold
      <4>3. /\ Reply(i) = answer.replies[k] /\ Reply(i) \in RawReplies /\ Persistable(Reply(i))
            /\ bubbles[i].speaker = SpeakerOf(Reply(i))
        BY <4>1, <4>2, ShownBubble DEF Reply
      <4>4. SpeakerOf(Reply(i)) \in Characters
        BY <2>1, <4>1, <4>3, TakenSpeaker
      <4>5. QED
        BY <4>1, <4>2, <4>3, <4>4 DEF ByCharacter
    <3>4. \A i \in Shown : bubbles[i].reply # 0 => Reply(i).text \in {"speech", "tagged"}
      BY ShownBubble DEF Acceptable, Visible
    <3>5. QED
      BY <3>2, <3>3, <3>4
  <2>6. QED
    BY <2>1, <2>2, <2>3, <2>4, <2>5 DEF AnswerIsSound
<1>2. LifeInit => TurnInv
  BY TurnStarts DEF LifeInit
<1>3. TurnInv /\ [LifeNext]_lifeVars => TurnInv'
  BY TurnStep
<1>4. QED
  BY <1>1, <1>2, <1>3, PTL DEF Spec, LifeNext

\* Nothing of what the model has said is lost or read out of its order: the text of a reply is
\* still there after any list of commands, and readers, who sort by time, see the bubbles in the
\* order of reply_index, but for overlays of two first_bubble commands.
THEOREM BubblesAreKept == Spec => []BubblesStand
<1>1. TurnInv => BubblesStand
  <2> SUFFICES ASSUME TurnInv PROVE BubblesStand
    OBVIOUS
  <2>1. OriginalKept
    BY ShownBubble DEF OriginalKept
  <2>2. ReadInOrder
    <3> SUFFICES ASSUME NEW i \in Shown, NEW k \in Shown, i < k
                 PROVE  \/ bubbles[i].at < bubbles[k].at
                        \/ bubbles[i].at = bubbles[k].at /\ bubbles[i].reply = 0 /\ bubbles[k].reply = 0
      BY DEF ReadInOrder
    <3>1. Shown = DOMAIN bubbles /\ InOrder(bubbles)
      BY ShownAreTold DEF Told
    <3>2. QED
      BY <3>1 DEF InOrder, Precedes
  <2>3. QED
    BY <2>1, <2>2 DEF BubblesStand
<1>2. LifeInit => TurnInv
  BY TurnStarts DEF LifeInit
<1>3. TurnInv /\ [LifeNext]_lifeVars => TurnInv'
  BY TurnStep
<1>4. QED
  BY <1>1, <1>2, <1>3, PTL DEF Spec, LifeNext

-----------------------------------------------------------------------------
(* The prompt.                                                             *)

\* What holds of 0 and passes from each number to the next holds up to n.
LEMMA UpTo ==
  ASSUME NEW n \in Nat, NEW T, 0 \in T, \A i \in 1..n : i - 1 \in T => i \in T
  PROVE  \A i \in 0..n : i \in T
<1> DEFINE Bad == {i \in 0..n : i \notin T}
<1>1. ASSUME Bad # {} PROVE FALSE
  <2>1. Bad \in SUBSET Nat
    OBVIOUS
  <2>2. PICK a \in Bad : \A b \in Bad : a <= b
    <3> HIDE DEF Bad
    <3>1. QED
      BY <1>1, <2>1, LeastOf
  <2>3. a \in 1..n /\ a \notin T /\ a \in Nat
    OBVIOUS
  <2>4. a - 1 \in 0..n /\ ~ (a <= a - 1)
    BY <2>3
  <2>5. a - 1 \in T
    BY <2>2, <2>4
  <2>6. QED
    BY <2>3, <2>5
<1>2. QED
  BY <1>1

\* A value that is made of the one before can be followed for n steps.
Run(f, n, S, b, G) == f \in [0..n -> S] /\ f[0] = b /\ \A i \in 1..n : f[i] = G[<<i, f[i - 1]>>]

LEMMA Iterates ==
  ASSUME NEW n \in Nat, NEW S, NEW b \in S, NEW G \in [(1..n) \X S -> S]
  PROVE  \E f : Run(f, n, S, b, G)
<1> DEFINE Runs(m) == \E f \in [0..m -> S] : f[0] = b /\ \A i \in 1..m : f[i] = G[<<i, f[i - 1]>>]
           T == {m \in 0..n : Runs(m)}
<1>1. 0 \in T
  <2> DEFINE f == [i \in 0..0 |-> b]
  <2>1. f \in [0..0 -> S] /\ f[0] = b
    OBVIOUS
  <2>2. \A i \in 1..0 : FALSE
    OBVIOUS
  <2> HIDE DEF f
  <2>3. Runs(0)
    BY <2>1, <2>2
  <2>4. QED
    BY <2>3
<1>2. ASSUME NEW m \in 1..n, m - 1 \in T PROVE m \in T
  <2>1. PICK f \in [0..(m - 1) -> S] : f[0] = b /\ \A i \in 1..(m - 1) : f[i] = G[<<i, f[i - 1]>>]
    BY <1>2
  <2>2. m \in Nat /\ m - 1 \in 0..(m - 1) /\ f[m - 1] \in S
    BY <2>1
  <2>3. <<m, f[m - 1]>> \in (1..n) \X S
    BY <2>2
  <2>4. PICK x \in S : x = G[<<m, f[m - 1]>>]
    BY <2>3
  <2> DEFINE g == [i \in 0..m |-> IF i = m THEN x ELSE f[i]]
  <2>5. \A i \in 0..m : i # m => i \in 0..(m - 1) /\ g[i] = f[i]
    BY <2>2
  <2>6. g \in [0..m -> S]
    BY <2>1, <2>4, <2>5
  <2>7. g[0] = b
    BY <2>1, <2>2, <2>5
  <2>8. ASSUME NEW i \in 1..m PROVE g[i] = G[<<i, g[i - 1]>>]
    <3>1. i - 1 \in 0..m /\ i - 1 # m /\ g[i - 1] = f[i - 1]
      BY <2>2, <2>5
    <3>2. CASE i = m
      <4>1. g[i] = x
        BY <2>2, <3>2
      <4>2. QED
        BY <2>4, <3>1, <3>2, <4>1
    <3>3. CASE i # m
      <4>1. i \in 1..(m - 1) /\ g[i] = f[i]
        BY <2>2, <2>5, <3>3
      <4>2. QED
        BY <2>1, <3>1, <4>1
    <3>4. QED
      BY <3>2, <3>3
  <2> HIDE DEF g
  <2>9. Runs(m)
    BY <2>6, <2>7, <2>8
  <2>10. QED
    BY <2>9
<1> HIDE DEF T
<1>3. \A i \in 0..n : i \in T
  BY <1>1, <1>2, UpTo
<1>4. n \in T
  BY <1>3
<1>5. QED
  BY <1>4 DEF T, Run

\* The sums of a sequence of numbers.
Sums(s) == CHOOSE f : f = [i \in 0..Len(s) |-> IF i = 0 THEN 0 ELSE f[i - 1] + s[i]]

LEMMA SumsAre ==
  ASSUME NEW s \in Seq(Nat)
  PROVE  /\ SumOf(s) = Sums(s)[Len(s)]
         /\ Sums(s)[0] = 0
         /\ \A i \in 1..Len(s) : Sums(s)[i] = Sums(s)[i - 1] + s[i]
         /\ \A i \in 0..Len(s) : Sums(s)[i] \in Nat
<1>1. Len(s) \in Nat /\ \A i \in 1..Len(s) : s[i] \in Nat
  OBVIOUS
<1> DEFINE Is(f) == f = [i \in 0..Len(s) |-> IF i = 0 THEN 0 ELSE f[i - 1] + s[i]]
<1>2. \E f : Is(f)
  <2> DEFINE G == [p \in (1..Len(s)) \X Nat |-> p[2] + s[p[1]]]
  <2>1. G \in [(1..Len(s)) \X Nat -> Nat]
    BY <1>1
  <2>2. \A i \in 1..Len(s), x \in Nat : G[<<i, x>>] = x + s[i]
    OBVIOUS
  <2> HIDE DEF G
  <2>3. PICK f : Run(f, Len(s), Nat, 0, G)
    <3>1. 0 \in Nat /\ Len(s) \in Nat
      BY <1>1
    <3>2. QED
      BY <2>1, <3>1, Iterates
  <2>4. f \in [0..Len(s) -> Nat] /\ f[0] = 0 /\ \A i \in 1..Len(s) : f[i] = G[<<i, f[i - 1]>>]
    BY <2>3 DEF Run
  <2>5. \A i \in 0..Len(s) : f[i] = IF i = 0 THEN 0 ELSE f[i - 1] + s[i]
    <3> TAKE i \in 0..Len(s)
    <3>1. CASE i = 0
      BY <2>4, <3>1
    <3>2. CASE i # 0
      <4>1. i \in 1..Len(s) /\ i - 1 \in 0..Len(s)
        BY <1>1, <3>2
      <4>2. f[i - 1] \in Nat
        BY <2>4, <4>1
      <4>3. QED
        BY <2>2, <2>4, <3>2, <4>1, <4>2
    <3>3. QED
      BY <3>1, <3>2
  <2>6. f = [i \in 0..Len(s) |-> f[i]]
    BY <2>4
  <2>7. Is(f)
    BY <2>5, <2>6
  <2>8. QED
    BY <2>7
<1>3. Is(Sums(s))
  BY <1>2, Zenon DEF Sums
<1>4. \A i \in 0..Len(s) : Sums(s)[i] = IF i = 0 THEN 0 ELSE Sums(s)[i - 1] + s[i]
  <2> DEFINE F(i) == IF i = 0 THEN 0 ELSE Sums(s)[i - 1] + s[i]
  <2>1. Sums(s) = [i \in 0..Len(s) |-> F(i)]
    BY <1>3
  <2> HIDE DEF F
  <2>2. \A i \in 0..Len(s) : Sums(s)[i] = F(i)
    BY <2>1
  <2>3. QED
    BY <2>2 DEF F
<1>5. 0 \in 0..Len(s) /\ \A i \in 1..Len(s) : i \in 0..Len(s) /\ i # 0 /\ i - 1 \in 0..Len(s)
  BY <1>1
<1>6. Sums(s)[0] = 0 /\ \A i \in 1..Len(s) : Sums(s)[i] = Sums(s)[i - 1] + s[i]
  BY <1>4, <1>5
<1> DEFINE T == {i \in 0..Len(s) : Sums(s)[i] \in Nat}
<1>7. 0 \in T
  BY <1>5, <1>6
<1>8. ASSUME NEW i \in 1..Len(s), i - 1 \in T PROVE i \in T
  <2>1. Sums(s)[i - 1] \in Nat /\ s[i] \in Nat
    BY <1>1, <1>8
  <2>2. Sums(s)[i] \in Nat
    BY <1>6, <2>1
  <2>3. QED
    BY <1>5, <2>2
<1> HIDE DEF T
<1>9. \A i \in 0..Len(s) : i \in T
  BY <1>1, <1>7, <1>8, UpTo
<1>10. SumOf(s) = Sums(s)[Len(s)]
  BY DEF SumOf, Sums
<1>11. QED
  BY <1>6, <1>9, <1>10 DEF T

LEMMA SumType ==
  ASSUME NEW s \in Seq(Nat)
  PROVE  SumOf(s) \in Nat
<1>1. Len(s) \in 0..Len(s)
  OBVIOUS
<1>2. QED
  BY <1>1, SumsAre

\* One number more.
LEMMA SumAdds ==
  ASSUME NEW s \in Seq(Nat), NEW e \in Seq(Nat), Len(s) = Len(e), NEW p \in 1..Len(s), s[p] = 0,
         \A i \in 1..Len(s) : i # p => e[i] = s[i]
  PROVE  SumOf(e) = SumOf(s) + e[p]
<1>1. Len(s) \in Nat /\ \A i \in 1..Len(s) : s[i] \in Nat /\ e[i] \in Nat
  OBVIOUS
<1> DEFINE T == {i \in 0..Len(s) : Sums(e)[i] = Sums(s)[i] + (IF p <= i THEN e[p] ELSE 0)}
<1>2. 0 \in T
  <2>1. Sums(e)[0] = 0 /\ Sums(s)[0] = 0 /\ ~ (p <= 0) /\ 0 \in 0..Len(s)
    BY <1>1, SumsAre
  <2>2. QED
    BY <2>1
<1>3. ASSUME NEW i \in 1..Len(s), i - 1 \in T PROVE i \in T
  <2>1. Sums(e)[i - 1] = Sums(s)[i - 1] + (IF p <= i - 1 THEN e[p] ELSE 0)
    BY <1>3
  <2>2. Sums(e)[i] = Sums(e)[i - 1] + e[i] /\ Sums(s)[i] = Sums(s)[i - 1] + s[i]
    <3>1. \A k \in 1..Len(e) : Sums(e)[k] = Sums(e)[k - 1] + e[k]
      BY SumsAre
    <3>2. \A k \in 1..Len(s) : Sums(s)[k] = Sums(s)[k - 1] + s[k]
      BY SumsAre
    <3>3. QED
      BY <3>1, <3>2
  <2>3. i - 1 \in 0..Len(s) /\ i \in 0..Len(s) /\ i \in Nat /\ p \in Nat
    BY <1>1
  <2>4. Sums(s)[i - 1] \in Nat /\ Sums(e)[i - 1] \in Nat /\ e[i] \in Nat /\ s[i] \in Nat /\ e[p] \in Nat
    <3>1. \A k \in 0..Len(s) : Sums(s)[k] \in Nat
      BY SumsAre
    <3>2. \A k \in 0..Len(e) : Sums(e)[k] \in Nat
      BY SumsAre
    <3>3. QED
      BY <1>1, <2>3, <3>1, <3>2
  <2>5. Sums(e)[i] = Sums(s)[i] + (IF p <= i THEN e[p] ELSE 0)
    <3>1. PICK a \in Nat, b \in Nat : a = Sums(s)[i - 1] /\ b = Sums(e)[i - 1]
      BY <2>4
    <3>2. CASE p < i
      <4>1. p <= i - 1 /\ p <= i /\ e[i] = s[i]
        BY <2>3, <3>2
      <4>2. b = a + e[p]
        BY <2>1, <3>1, <4>1
      <4>3. Sums(e)[i] = b + s[i] /\ Sums(s)[i] = a + s[i]
        BY <2>2, <3>1, <4>1
      <4>4. Sums(e)[i] = Sums(s)[i] + e[p]
        BY <2>4, <4>2, <4>3
      <4>5. QED
        BY <4>1, <4>4
    <3>3. CASE p = i
      <4>1. ~ (p <= i - 1) /\ p <= i /\ s[i] = 0
        BY <2>3, <3>3
      <4>2. b = a + 0 /\ Sums(e)[i] = b + e[p] /\ Sums(s)[i] = a + 0
        BY <2>1, <2>2, <3>1, <3>3, <4>1
      <4>3. QED
        BY <2>4, <4>1, <4>2
    <3>4. CASE p > i
      <4>1. ~ (p <= i - 1) /\ ~ (p <= i) /\ e[i] = s[i]
        BY <2>3, <3>4
      <4>2. b = a + 0 /\ Sums(e)[i] = b + s[i] /\ Sums(s)[i] = a + s[i]
        BY <2>1, <2>2, <3>1, <4>1
      <4>3. QED
        BY <2>4, <4>1, <4>2
    <3>5. QED
      BY <2>3, <3>2, <3>3, <3>4
  <2>6. QED
    BY <2>3, <2>5
<1> HIDE DEF T
<1>4. \A i \in 0..Len(s) : i \in T
  BY <1>1, <1>2, <1>3, UpTo
<1>5. Len(s) \in T
  BY <1>1, <1>4
<1>6. Sums(e)[Len(s)] = Sums(s)[Len(s)] + (IF p <= Len(s) THEN e[p] ELSE 0)
  BY <1>5 DEF T
<1>7. p <= Len(s)
  BY <1>1
<1>8. QED
  BY <1>6, <1>7, SumsAre

\* The sections of a prompt, and those that are routed.
LEMMA SectionsAre ==
  ASSUME NEW q \in Seq(Section)
  PROVE  /\ DOMAIN q = 1..Len(q) /\ Len(q) \in Nat
         /\ \A s \in DOMAIN q : /\ q[s] \in Section /\ q[s].priority \in Nat
                                /\ Clamped(q[s]) \in Nat
         /\ Routed(q) \subseteq DOMAIN q /\ IsFiniteSet(Routed(q)) /\ Cardinality(Routed(q)) \in Nat
<1>1. DOMAIN q = 1..Len(q) /\ Len(q) \in Nat /\ \A s \in DOMAIN q : q[s] \in Section
  OBVIOUS
<1>2. ASSUME NEW s \in DOMAIN q PROVE q[s].priority \in Nat /\ Clamped(q[s]) \in Nat
  <2>1. q[s].priority \in Nat /\ q[s].size \in Nat /\ q[s].budget \in Nat
    BY <1>1 DEF Section
  <2>2. QED
    BY <2>1 DEF Clamped
<1>3. Routed(q) \in SUBSET (1..Len(q))
  BY <1>1 DEF Routed
<1>4. IsFiniteSet(1..Len(q))
  BY <1>1, FS_Interval
<1>5. IsFiniteSet(Routed(q))
  BY <1>3, <1>4, FS_Subset
<1>6. Cardinality(Routed(q)) \in Nat
  BY <1>5, FS_CardinalityType
<1>7. QED
  BY <1>1, <1>2, <1>3, <1>5, <1>6

\* The places are the numbers of the routed sections in their order.
LEMMA PlacesAre ==
  ASSUME NEW q \in Seq(Section)
  PROVE  /\ \A s \in Routed(q) : Place(q, s) \in 1..Cardinality(Routed(q))
         /\ \A s, t \in Routed(q) : Place(q, s) < Place(q, t) <=> RoutedBefore(q, s, t)
         /\ \A s, t \in Routed(q) : Place(q, s) = Place(q, t) => s = t
<1> DEFINE UpToThis(s) == {t \in Routed(q) : t = s \/ RoutedBefore(q, t, s)}
<1>1. \A s \in Routed(q) : s \in Nat /\ q[s].priority \in Nat
  BY SectionsAre
<1>2. ASSUME NEW s \in Routed(q), NEW t \in Routed(q), s # t
      PROVE  RoutedBefore(q, s, t) <=> ~RoutedBefore(q, t, s)
  BY <1>1, <1>2 DEF RoutedBefore
<1>3. ASSUME NEW s \in Routed(q), NEW t \in Routed(q), NEW u \in Routed(q),
             RoutedBefore(q, s, t), RoutedBefore(q, t, u)
      PROVE  RoutedBefore(q, s, u)
  BY <1>1, <1>3 DEF RoutedBefore
<1>4. \A s \in Routed(q) : ~RoutedBefore(q, s, s)
  BY <1>1 DEF RoutedBefore
<1>5. \A s \in Routed(q) : Place(q, s) = Cardinality(UpToThis(s)) /\ UpToThis(s) \in SUBSET Routed(q)
  BY DEF Place
<1>6. IsFiniteSet(Routed(q)) /\ Cardinality(Routed(q)) \in Nat
  BY SectionsAre
<1>7. ASSUME NEW s \in Routed(q)
      PROVE  /\ IsFiniteSet(UpToThis(s)) /\ Cardinality(UpToThis(s)) \in Nat
             /\ Cardinality(UpToThis(s)) \in 1..Cardinality(Routed(q))
  <2>1. UpToThis(s) \in SUBSET Routed(q) /\ s \in UpToThis(s)
    OBVIOUS
  <2> HIDE DEF UpToThis
  <2>2. IsFiniteSet(UpToThis(s)) /\ Cardinality(UpToThis(s)) <= Cardinality(Routed(q))
    BY <1>6, <2>1, FS_Subset
  <2>3. Cardinality(UpToThis(s)) \in Nat /\ Cardinality(UpToThis(s)) # 0
    BY <2>1, <2>2, FS_CardinalityType, FS_EmptySet
  <2>4. QED
    BY <1>6, <2>2, <2>3
<1>8. ASSUME NEW s \in Routed(q), NEW t \in Routed(q), RoutedBefore(q, s, t)
      PROVE  Cardinality(UpToThis(s)) < Cardinality(UpToThis(t))
  <2>1. UpToThis(s) \in SUBSET UpToThis(t)
    BY <1>3, <1>8
  <2>2. t \in UpToThis(t) /\ t \notin UpToThis(s)
    BY <1>2, <1>4, <1>8
  <2>3. IsFiniteSet(UpToThis(t)) /\ Cardinality(UpToThis(t)) \in Nat /\ Cardinality(UpToThis(s)) \in Nat
    BY <1>7
  <2> HIDE DEF UpToThis
  <2>4. Cardinality(UpToThis(s)) <= Cardinality(UpToThis(t))
        /\ (Cardinality(UpToThis(s)) = Cardinality(UpToThis(t)) => UpToThis(s) = UpToThis(t))
    BY <2>1, <2>3, FS_Subset
  <2>5. QED
    BY <2>2, <2>3, <2>4
<1> HIDE DEF UpToThis
<1>9. ASSUME NEW s \in Routed(q), NEW t \in Routed(q)
      PROVE  /\ Place(q, s) < Place(q, t) <=> RoutedBefore(q, s, t)
             /\ Place(q, s) = Place(q, t) => s = t
  <2>1. Place(q, s) \in Nat /\ Place(q, t) \in Nat
    BY <1>5, <1>7
  <2>2. RoutedBefore(q, s, t) => Place(q, s) < Place(q, t)
    BY <1>5, <1>8
  <2>3. RoutedBefore(q, t, s) => Place(q, t) < Place(q, s)
    BY <1>5, <1>8
  <2>4. s = t \/ RoutedBefore(q, s, t) \/ RoutedBefore(q, t, s)
    BY <1>2
  <2>5. QED
    BY <2>1, <2>2, <2>3, <2>4
<1>10. QED
  BY <1>5, <1>7, <1>9

\* Every place is taken, so the order is one of the routed sections.
LEMMA OrderIs ==
  ASSUME NEW q \in Seq(Section)
  PROVE  /\ \A n \in 1..Cardinality(Routed(q)) :
               RouteSections(q)[n] \in Routed(q) /\ Place(q, RouteSections(q)[n]) = n
         /\ Len(RouteSections(q)) = Cardinality(Routed(q))
<1> DEFINE N == Cardinality(Routed(q))
           R == Routed(q)
           place == [s \in R |-> Place(q, s)]
<1>1. N \in Nat /\ IsFiniteSet(R)
  BY SectionsAre
<1>2. IsFiniteSet(1..N) /\ Cardinality(1..N) = N
  <2>1. 1 \in Int /\ N \in Int
    BY <1>1
  <2>2. QED
    BY <1>1, <2>1, FS_Interval
<1>3. place \in [R -> 1..N] /\ \A s, t \in R : place[s] = place[t] => s = t
  BY PlacesAre
<1>4. \A s \in R : place[s] = Place(q, s)
  OBVIOUS
<1> HIDE DEF place
<1>5. place \in Injection(R, 1..N)
  BY <1>3 DEF Injection, IsInjective
<1>6. place \in Surjection(R, 1..N)
  BY <1>2, <1>5, FS_Injection
<1>7. \A n \in 1..N : \E s \in R : Place(q, s) = n
  BY <1>4, <1>6 DEF Surjection
<1>8. RouteSections(q) = [n \in 1..N |-> CHOOSE s \in R : Place(q, s) = n]
  BY DEF RouteSections
<1>9. Len(RouteSections(q)) = N
  <2> DEFINE At(n) == CHOOSE s \in R : Place(q, s) = n
  <2>1. RouteSections(q) = [n \in 1..N |-> At(n)]
    BY <1>8
  <2> HIDE DEF At, N
  <2>2. QED
    BY <1>1, <2>1
<1> HIDE DEF N, R
<1>10. \A n \in 1..N : RouteSections(q)[n] \in R /\ Place(q, RouteSections(q)[n]) = n
  <2> TAKE n \in 1..N
  <2>1. RouteSections(q)[n] = CHOOSE s \in R : Place(q, s) = n
    BY <1>8
  <2>2. \E s \in R : Place(q, s) = n
    BY <1>7
  <2>3. QED
    BY <2>1, <2>2
<1>11. QED
  BY <1>9, <1>10 DEF N, R

\* What is left is never less than nothing.
LEMMA MaxOfTwo ==
  ASSUME NEW x \in Int
  PROVE  Max({0, x}) \in Nat /\ Max({0, x}) >= x
<1>1. \E m \in {0, x} : \A k \in {0, x} : m >= k
  OBVIOUS
<1>2. Max({0, x}) \in {0, x} /\ \A k \in {0, x} : Max({0, x}) >= k
  BY <1>1 DEF Max
<1>3. QED
  BY <1>2

\* What is left of the budget, from one place to the next.
LEMMA LeftIs ==
  ASSUME NEW q \in Seq(Section), NEW budget \in Nat
  PROVE  /\ Left(q, budget)[0] = budget
         /\ \A n \in 0..Cardinality(Routed(q)) : Left(q, budget)[n] \in Nat
         /\ \A n \in 1..Cardinality(Routed(q)) :
               LET section == q[RouteSections(q)[n]]
               IN  Left(q, budget)[n] =
                      IF Included(section, Left(q, budget)[n - 1])
                      THEN Max({0, Left(q, budget)[n - 1] - Clamped(section)})
                      ELSE Left(q, budget)[n - 1]
<1> DEFINE N == Cardinality(Routed(q))
           order == RouteSections(q)
           After(n, x) == IF Included(q[order[n]], x) THEN Max({0, x - Clamped(q[order[n]])}) ELSE x
           Is(f) == f = [n \in 0..N |-> IF n = 0 THEN budget ELSE After(n, f[n - 1])]
           rest == CHOOSE f : Is(f)
<1>1. N \in Nat /\ Len(order) = N
  BY SectionsAre, OrderIs
<1>2. Left(q, budget) = rest
  BY <1>1 DEF Left
<1>3. \A n \in 1..N : Clamped(q[order[n]]) \in Nat
  BY SectionsAre, OrderIs
<1>4. ASSUME NEW n \in 1..N, NEW x \in Nat PROVE After(n, x) \in Nat
  <2>1. ASSUME NEW c \in Nat PROVE Max({0, x - c}) \in Nat
    <3>1. x - c \in Int
      OBVIOUS
    <3>2. QED
      BY <3>1, MaxOfTwo
  <2>2. QED
    BY <1>3, <2>1
<1> HIDE DEF N, After
<1>5. \E f : Is(f)
  <2> DEFINE G == [p \in (1..N) \X Nat |-> After(p[1], p[2])]
  <2>1. G \in [(1..N) \X Nat -> Nat]
    BY <1>4
  <2>2. \A n \in 1..N, x \in Nat : G[<<n, x>>] = After(n, x)
    OBVIOUS
  <2> HIDE DEF G
  <2>3. PICK f : Run(f, N, Nat, budget, G)
    BY <1>1, <2>1, Iterates
  <2>4. f \in [0..N -> Nat] /\ f[0] = budget /\ \A i \in 1..N : f[i] = G[<<i, f[i - 1]>>]
    BY <2>3 DEF Run
  <2>5. \A n \in 0..N : f[n] = IF n = 0 THEN budget ELSE After(n, f[n - 1])
    <3> TAKE n \in 0..N
    <3>1. CASE n = 0
      BY <2>4, <3>1
    <3>2. CASE n # 0
      <4>1. n \in 1..N /\ n - 1 \in 0..N
        BY <1>1, <3>2
      <4>2. f[n - 1] \in Nat
        BY <2>4, <4>1
      <4>3. QED
        BY <2>2, <2>4, <3>2, <4>1, <4>2
    <3>3. QED
      BY <3>1, <3>2
  <2>6. f = [n \in 0..N |-> f[n]]
    BY <2>4
  <2>7. Is(f)
    BY <2>5, <2>6
  <2>8. QED
    BY <2>7
<1>6. Is(rest)
  BY <1>5, Zenon
<1> HIDE DEF rest
<1>7. \A n \in 0..N : rest[n] = IF n = 0 THEN budget ELSE After(n, rest[n - 1])
  <2> DEFINE F(n) == IF n = 0 THEN budget ELSE After(n, rest[n - 1])
  <2>1. rest = [n \in 0..N |-> F(n)]
    BY <1>6
  <2> HIDE DEF F
  <2>2. \A n \in 0..N : rest[n] = F(n)
    BY <2>1
  <2>3. QED
    BY <2>2 DEF F
<1>8. 0 \in 0..N /\ \A n \in 1..N : n \in 0..N /\ n # 0 /\ n - 1 \in 0..N
  BY <1>1
<1>9. rest[0] = budget /\ \A n \in 1..N : rest[n] = After(n, rest[n - 1])
  BY <1>7, <1>8
<1> DEFINE T == {n \in 0..N : rest[n] \in Nat}
<1>10. 0 \in T
  BY <1>8, <1>9
<1>11. ASSUME NEW n \in 1..N, n - 1 \in T PROVE n \in T
  <2>1. rest[n] \in Nat
    BY <1>4, <1>9, <1>11
  <2>2. QED
    BY <1>8, <2>1
<1> HIDE DEF T
<1>12. \A n \in 0..N : n \in T
  BY <1>1, <1>10, <1>11, UpTo
<1>13. \A n \in 0..N : rest[n] \in Nat
  BY <1>12 DEF T
<1>14. QED
  BY <1>2, <1>9, <1>13 DEF N, After

\* The routed sections up to a place have taken at least what is no longer left.
Ledgered(q, budget, s) == IF s \in DOMAIN Compile(q, budget) THEN Compile(q, budget)[s] ELSE 0
TakenUpTo(q, budget, n) ==
    [i \in DOMAIN q |-> IF i \in Routed(q) /\ Place(q, i) <= n THEN Ledgered(q, budget, i) ELSE 0]

LEMMA LedgerIs ==
  ASSUME NEW q \in Seq(Section), NEW budget \in Nat
  PROVE  /\ \A s \in Routed(q) :
               /\ Place(q, s) - 1 \in 0..Cardinality(Routed(q))
               /\ Ledgered(q, budget, s) =
                     IF Included(q[s], Left(q, budget)[Place(q, s) - 1]) THEN Clamped(q[s]) ELSE 0
         /\ \A s \in DOMAIN q : Ledgered(q, budget, s) \in Nat /\ (s \notin Routed(q) => Ledgered(q, budget, s) = 0)
<1>1. Compile(q, budget) = [s \in Routed(q) |->
         IF Included(q[s], Left(q, budget)[Place(q, s) - 1]) THEN Clamped(q[s]) ELSE 0]
  BY DEF Compile
<1>2. DOMAIN Compile(q, budget) = Routed(q)
  BY <1>1
<1>3. ASSUME NEW s \in Routed(q)
      PROVE  /\ Place(q, s) - 1 \in 0..Cardinality(Routed(q))
             /\ Ledgered(q, budget, s) =
                   IF Included(q[s], Left(q, budget)[Place(q, s) - 1]) THEN Clamped(q[s]) ELSE 0
  <2>1. Place(q, s) \in 1..Cardinality(Routed(q)) /\ Cardinality(Routed(q)) \in Nat
    BY PlacesAre, SectionsAre
  <2>2. QED
    BY <1>1, <1>2, <2>1 DEF Ledgered
<1>4. ASSUME NEW s \in DOMAIN q
      PROVE  Ledgered(q, budget, s) \in Nat /\ (s \notin Routed(q) => Ledgered(q, budget, s) = 0)
  <2>1. Clamped(q[s]) \in Nat
    BY SectionsAre
  <2>2. QED
    BY <1>2, <1>3, <2>1 DEF Ledgered
<1>5. QED
  BY <1>3, <1>4

LEMMA BudgetIsSpent ==
  ASSUME NEW q \in Seq(Section), NEW budget \in Nat, NEW m \in 0..Cardinality(Routed(q))
  PROVE  budget <= Left(q, budget)[m] + SumOf(TakenUpTo(q, budget, m))
<1> DEFINE N == Cardinality(Routed(q))
           Spent(n) == TakenUpTo(q, budget, n)
           T == {n \in 0..N : budget <= Left(q, budget)[n] + SumOf(Spent(n))}
<1>1. N \in Nat /\ DOMAIN q = 1..Len(q) /\ Len(q) \in Nat
  BY SectionsAre
<1>2. \A n : /\ Spent(n) \in Seq(Nat) /\ Len(Spent(n)) = Len(q)
             /\ \A i \in 1..Len(q) :
                   Spent(n)[i] = IF i \in Routed(q) /\ Place(q, i) <= n THEN Ledgered(q, budget, i) ELSE 0
  <2> TAKE n
  <2>1. \A i \in 1..Len(q) : (IF i \in Routed(q) /\ Place(q, i) <= n THEN Ledgered(q, budget, i) ELSE 0) \in Nat
    BY <1>1, LedgerIs
  <2>2. Spent(n) = [i \in 1..Len(q) |-> IF i \in Routed(q) /\ Place(q, i) <= n THEN Ledgered(q, budget, i) ELSE 0]
    BY <1>1 DEF TakenUpTo
  <2>3. Spent(n) \in [1..Len(q) -> Nat]
    BY <2>1, <2>2
  <2>4. Spent(n) \in Seq(Nat) /\ Len(Spent(n)) = Len(q)
    BY <1>1, <2>3
  <2>5. QED
    BY <2>2, <2>4
<1> HIDE DEF Spent
<1>3. \A n : SumOf(Spent(n)) \in Nat
  BY <1>2, SumType
<1>4. 0 \in T
  <2>1. Left(q, budget)[0] = budget /\ SumOf(Spent(0)) \in Nat /\ 0 \in 0..N
    BY <1>1, <1>3, LeftIs
  <2>2. QED
    BY <2>1
<1>5. ASSUME NEW n \in 1..N, n - 1 \in T PROVE n \in T
  <2> DEFINE s == RouteSections(q)[n]
             before == Left(q, budget)[n - 1]
  <2>1. s \in Routed(q) /\ Place(q, s) = n /\ s \in 1..Len(q)
    BY <1>1, OrderIs, SectionsAre
  <2>2. n - 1 \in 0..N /\ n \in 0..N /\ n \in Nat
    BY <1>1
  <2>3. before \in Nat /\ Left(q, budget)[n] \in Nat /\ Clamped(q[s]) \in Nat
    BY <1>1, <2>1, <2>2, LeftIs, SectionsAre
  <2>4. Ledgered(q, budget, s) = IF Included(q[s], before) THEN Clamped(q[s]) ELSE 0
    BY <2>1, LedgerIs
  <2>5. Left(q, budget)[n] = IF Included(q[s], before) THEN Max({0, before - Clamped(q[s])}) ELSE before
    BY LeftIs
  <2> HIDE DEF s, before
  <2>6. Left(q, budget)[n] + Ledgered(q, budget, s) >= before
    <3>1. Max({0, before - Clamped(q[s])}) >= before - Clamped(q[s]) /\ Max({0, before - Clamped(q[s])}) \in Nat
      <4>1. before - Clamped(q[s]) \in Int
        BY <2>3
      <4>2. QED
        BY <4>1, MaxOfTwo
    <3>2. QED
      BY <2>3, <2>4, <2>5, <3>1
  <2>7. SumOf(Spent(n)) = SumOf(Spent(n - 1)) + Spent(n)[s]
    <3>1. Spent(n - 1)[s] = 0
      BY <1>2, <2>1, <2>2
    <3>2. ASSUME NEW i \in 1..Len(q), s # i PROVE Spent(n)[i] = Spent(n - 1)[i]
      <4>1. CASE i \in Routed(q)
        <5>1. Place(q, i) # n /\ Place(q, i) \in Nat
          BY <1>1, <2>1, <3>2, <4>1, PlacesAre
        <5>2. Place(q, i) <= n <=> Place(q, i) <= n - 1
          BY <2>2, <5>1
        <5>3. QED
          BY <1>2, <5>2
      <4>2. CASE i \notin Routed(q)
        BY <1>2, <4>2
      <4>3. QED
        BY <4>1, <4>2
    <3>3. QED
      BY <1>2, <2>1, <3>1, <3>2, SumAdds
  <2>8. Spent(n)[s] = Ledgered(q, budget, s) /\ Ledgered(q, budget, s) \in Nat
    <3>1. n <= n /\ s \in DOMAIN q
      BY <1>1, <2>1, <2>2
    <3>2. Spent(n)[s] = Ledgered(q, budget, s)
      BY <1>2, <2>1, <3>1
    <3>3. QED
      BY <3>1, <3>2, LedgerIs
  <2>9. budget <= before + SumOf(Spent(n - 1))
    BY <1>5 DEF before
  <2>10. budget <= Left(q, budget)[n] + SumOf(Spent(n))
    <3>1. SumOf(Spent(n)) \in Nat /\ SumOf(Spent(n - 1)) \in Nat
      BY <1>3
    <3>2. QED
      BY <2>3, <2>6, <2>7, <2>8, <2>9, <3>1
  <2>11. QED
    BY <2>2, <2>10
<1> HIDE DEF T
<1>6. \A n \in 0..N : n \in T
  BY <1>1, <1>4, <1>5, UpTo
<1>7. QED
  BY <1>6 DEF T, Spent

\* What a prompt that is being sent was made of.
PromptInv ==
    pc = "send" =>
        \E history \in Histories, mode \in {"automatic", "legacy"}, sections \in OtherSections, budget \in Budgets :
            \E boundary \in -1..Len(history) :
                LET all == Append(sections, RecentSection(RawHistory(history, boundary), mode))
                IN  /\ ~CoverageGap(boundary, mode)
                    /\ prompt = [history |-> history, boundary |-> boundary, mode |-> mode, budget |-> budget,
                                 sections |-> all, ledger |-> Compile(all, budget)]

LEMMA PromptStays ==
  ASSUME PromptInv, [LifeNext]_lifeVars
  PROVE  PromptInv'
<1>1. CASE pc' # "send"
  BY <1>1 DEF PromptInv
<1>2. CASE pc' = pc /\ prompt' = prompt
  BY <1>2 DEF PromptInv
<1>3. CASE UNCHANGED vars
  BY <1>2, <1>3 DEF vars
<1>4. CASE Live
  <2>1. UNCHANGED vars
    BY <1>4 DEF Live, StartEdit, CommitEdit, GiveVoice, StartSpeaking, OpenFile, CloseFile, Write,
                StoreSpeech, SpeakingFails, CrashLater, Stored
  <2>2. QED
    BY <1>3, <2>1
<1>5. CASE Generate
  <2>1. ASSUME NEW history \in Histories, NEW mode \in {"automatic", "legacy"}, NEW sections \in OtherSections,
               NEW budget \in Budgets, NEW boundary \in -1..Len(history),
               Assemble(history, boundary, mode, sections, budget)
        PROVE  PromptInv'
    <3>1. CASE CoverageGap(boundary, mode)
      <4>1. pc' = "failed"
        BY <2>1, <3>1 DEF Assemble
      <4>2. QED
        BY <1>1, <4>1
    <3>2. CASE ~CoverageGap(boundary, mode)
      <4> DEFINE all == Append(sections, RecentSection(RawHistory(history, boundary), mode))
      <4>1. prompt' = [history |-> history, boundary |-> boundary, mode |-> mode, budget |-> budget,
                       sections |-> all, ledger |-> Compile(all, budget)]
        BY <2>1, <3>2 DEF Assemble
      <4>2. QED
        BY <3>2, <4>1 DEF PromptInv
    <3>3. QED
      BY <3>1, <3>2
  <2>2. CASE Send \/ Accept \/ Reject \/ Take \/ Store \/ \E replies, finish : Answer(replies, finish)
    <3>1. pc' # "send"
      BY <2>2 DEF Send, Accept, Reject, Take, Store, Answer
    <3>2. QED
      BY <1>1, <3>1
  <2>3. CASE OverlayFirst \/ OverlayLast \/ CommandFails \/ \E targets : Rewrite(targets)
    <3>1. pc' = pc /\ prompt' = prompt
      BY <2>3 DEF OverlayFirst, OverlayLast, CommandFails, Rewrite
    <3>2. QED
      BY <1>2, <3>1
  <2>4. QED
    BY <1>5, <2>1, <2>2, <2>3 DEF Generate
<1>6. QED
  BY <1>3, <1>4, <1>5 DEF LifeNext, lifeVars

\* The messages after a boundary, and what is quoted of them.
LEMMA RawIs ==
  ASSUME NEW history \in Seq(Message), NEW boundary \in -1..Len(history)
  PROVE  /\ RawHistory(history, boundary) \in Seq(Message)
         /\ boundary # -1 =>
               RawHistory(history, boundary) = SubSeq(history, boundary + 1, Len(history))
<1>1. CASE boundary = -1
  BY <1>1 DEF RawHistory
<1>2. CASE boundary # -1
  <2>1. RawHistory(history, boundary) = SubSeq(history, boundary + 1, Len(history))
    BY <1>2 DEF RawHistory
  <2>2. Len(history) \in Nat /\ boundary + 1 \in 1..(Len(history) + 1)
    BY <1>2
  <2>3. SubSeq(history, boundary + 1, Len(history)) \in Seq(Message)
    BY <2>2
  <2>4. QED
    BY <2>1, <2>3
<1>3. QED
  BY <1>1, <1>2

LEMMA QuotedIs ==
  ASSUME NEW raw \in Seq(Message), NEW mode
  PROVE  /\ QuotedSize(raw, mode) \in Nat
         /\ mode = "automatic" => QuotedSize(raw, mode) = SizeOf(raw)
<1>1. DOMAIN raw = 1..Len(raw) /\ Len(raw) \in Nat /\ \A i \in DOMAIN raw : raw[i].size \in Nat
  <2>1. DOMAIN raw = 1..Len(raw) /\ Len(raw) \in Nat /\ \A i \in DOMAIN raw : raw[i] \in Message
    OBVIOUS
  <2>2. \A said \in Message : said.size \in Nat
    BY DEF Message
  <2>3. QED
    BY <2>1, <2>2
<1> DEFINE numbers == [i \in DOMAIN raw |-> IF i \in Selected(raw, mode) THEN raw[i].size ELSE 0]
<1>2. numbers \in [1..Len(raw) -> Nat]
  BY <1>1
<1>3. numbers \in Seq(Nat)
  BY <1>1, <1>2
<1>4. QuotedSize(raw, mode) \in Nat
  BY <1>3, SumType DEF QuotedSize
<1>5. ASSUME mode = "automatic" PROVE QuotedSize(raw, mode) = SizeOf(raw)
  <2>1. Selected(raw, mode) = DOMAIN raw
    BY <1>5 DEF Selected
  <2>2. numbers = [i \in DOMAIN raw |-> raw[i].size]
    BY <2>1
  <2>3. QED
    BY <2>2 DEF QuotedSize, SizeOf
<1>6. QED
  BY <1>4, <1>5

\* A section that is dropped.
LEMMA DroppedIs ==
  ASSUME NEW q \in Seq(Section), NEW budget \in Nat, NEW s \in DOMAIN q,
         Clamped(q[s]) > 0, Ledgered(q, budget, s) = 0
  PROVE  /\ ~q[s].required
         /\ SumOf([i \in DOMAIN q |-> IF RoutedBefore(q, i, s) THEN Ledgered(q, budget, i) ELSE 0])
               + Clamped(q[s]) > budget
<1>1. s \in Routed(q)
  <2>1. q[s].size \in Nat /\ q[s].budget \in Nat
    BY SectionsAre DEF Section
  <2>2. q[s].size > 0
    BY <2>1 DEF Clamped
  <2>3. QED
    BY <2>2 DEF Routed, Routable
<1> DEFINE m == Place(q, s) - 1
<1>2. m \in 0..Cardinality(Routed(q)) /\ ~Included(q[s], Left(q, budget)[m])
  <2>1. Clamped(q[s]) # 0
    BY SectionsAre
  <2>2. QED
    BY <1>1, <2>1, LedgerIs
<1>3. Left(q, budget)[m] \in Nat /\ Clamped(q[s]) \in Nat
  BY <1>2, LeftIs, SectionsAre
<1>4. ~q[s].required /\ Clamped(q[s]) > Left(q, budget)[m]
  BY <1>2, <1>3 DEF Included
<1>5. TakenUpTo(q, budget, m) = [i \in DOMAIN q |-> IF RoutedBefore(q, i, s) THEN Ledgered(q, budget, i) ELSE 0]
  <2>1. ASSUME NEW i \in DOMAIN q
        PROVE  (IF i \in Routed(q) /\ Place(q, i) <= m THEN Ledgered(q, budget, i) ELSE 0)
               = IF RoutedBefore(q, i, s) THEN Ledgered(q, budget, i) ELSE 0
    <3>1. CASE i \in Routed(q)
      <4>1. Place(q, i) \in Nat /\ Place(q, s) \in Nat
        BY <1>1, <3>1, PlacesAre, SectionsAre
      <4>2. Place(q, i) <= m <=> Place(q, i) < Place(q, s)
        BY <4>1
      <4>3. Place(q, i) < Place(q, s) <=> RoutedBefore(q, i, s)
        BY <1>1, <3>1, PlacesAre
      <4>4. QED
        BY <3>1, <4>2, <4>3
    <3>2. CASE i \notin Routed(q)
      BY <3>2, LedgerIs
    <3>3. QED
      BY <3>1, <3>2
  <2> HIDE DEF m
  <2>2. QED
    BY <2>1 DEF TakenUpTo
<1>6. budget <= Left(q, budget)[m] + SumOf(TakenUpTo(q, budget, m))
  BY <1>2, BudgetIsSpent
<1>7. SumOf(TakenUpTo(q, budget, m)) \in Nat
  <2>1. \A i \in DOMAIN q : (IF i \in Routed(q) /\ Place(q, i) <= m THEN Ledgered(q, budget, i) ELSE 0) \in Nat
    BY LedgerIs
  <2>2. TakenUpTo(q, budget, m) \in [1..Len(q) -> Nat] /\ Len(q) \in Nat
    BY <2>1, SectionsAre DEF TakenUpTo
  <2>3. TakenUpTo(q, budget, m) \in Seq(Nat)
    BY <2>2
  <2>4. QED
    BY <2>3, SumType
<1> HIDE DEF m
<1>8. SumOf(TakenUpTo(q, budget, m)) + Clamped(q[s]) > budget
  BY <1>3, <1>4, <1>6, <1>7
<1>9. QED
  BY <1>4, <1>5, <1>8

\* The prompt, while it is sent.
LEMMA SentPrompt ==
  ASSUME PromptInv, Sent
  PROVE  \E history \in Seq(Message), mode \in {"automatic", "legacy"} :
           \E boundary \in -1..Len(history) :
             /\ prompt.history = history /\ prompt.boundary = boundary /\ prompt.mode = mode
             /\ ~CoverageGap(boundary, mode)
             /\ prompt.sections \in Seq(Section) /\ prompt.budget \in Nat
             /\ Recent \in DOMAIN prompt.sections
             /\ prompt.sections[Recent] = RecentSection(RawHistory(history, boundary), mode)
             /\ prompt.ledger = Compile(prompt.sections, prompt.budget)
<1>1. PICK history \in Histories, mode \in {"automatic", "legacy"}, sections \in OtherSections, budget \in Budgets :
        \E boundary \in -1..Len(history) :
            LET all == Append(sections, RecentSection(RawHistory(history, boundary), mode))
            IN  /\ ~CoverageGap(boundary, mode)
                /\ prompt = [history |-> history, boundary |-> boundary, mode |-> mode, budget |-> budget,
                             sections |-> all, ledger |-> Compile(all, budget)]
  BY DEF PromptInv, Sent
<1>2. PICK boundary \in -1..Len(history) :
        LET all == Append(sections, RecentSection(RawHistory(history, boundary), mode))
        IN  /\ ~CoverageGap(boundary, mode)
            /\ prompt = [history |-> history, boundary |-> boundary, mode |-> mode, budget |-> budget,
                         sections |-> all, ledger |-> Compile(all, budget)]
  BY <1>1
<1> DEFINE recent == RecentSection(RawHistory(history, boundary), mode)
           all == Append(sections, recent)
<1>3. history \in Seq(Message) /\ sections \in Seq(Section) /\ budget \in Nat
  BY RepliesAssumption
<1>4. recent \in Section
  <2>1. RawHistory(history, boundary) \in Seq(Message)
    BY <1>3, RawIs
  <2>2. QuotedSize(RawHistory(history, boundary), mode) \in Nat
    BY <2>1, QuotedIs
  <2>3. \A n \in Nat : BudgetForRecent(n, mode) \in Nat
    BY PromptAssumption DEF BudgetForRecent
  <2>4. PICK size \in Nat, allowed \in Nat :
          recent = [priority |-> 45, required |-> TRUE, size |-> size, budget |-> allowed]
    BY <2>2, <2>3 DEF RecentSection
  <2> HIDE DEF recent
  <2>5. QED
    BY <2>4 DEF Section
<1> HIDE DEF recent
<1>5. all \in Seq(Section) /\ Len(all) \in DOMAIN all /\ all[Len(all)] = recent
  BY <1>3, <1>4
<1>6. /\ prompt.history = history /\ prompt.boundary = boundary /\ prompt.mode = mode
      /\ prompt.budget = budget /\ prompt.sections = all /\ prompt.ledger = Compile(all, budget)
      /\ ~CoverageGap(boundary, mode)
  BY <1>2 DEF recent
<1> HIDE DEF all
<1>7. Recent = Len(all)
  BY <1>6 DEF Recent
<1>8. QED
  BY <1>3, <1>5, <1>6, <1>7 DEF recent

\* What is sent to the model has lost nothing it needs: in automatic mode it quotes everything after
\* the boundary of the summary, and no section is dropped that is required or would still have fitted
\* after those before it, for any sections, priorities and budgets.
THEOREM PromptsAreWhole == Spec => []PromptIsWhole
<1>1. PromptInv => PromptIsWhole
  <2> SUFFICES ASSUME PromptInv, Sent PROVE PromptIsWhole
    BY DEF PromptIsWhole, HistoryIsWhole, DroppedForCause
  <2>1. PICK history \in Seq(Message), mode \in {"automatic", "legacy"} :
          \E boundary \in -1..Len(history) :
             /\ prompt.history = history /\ prompt.boundary = boundary /\ prompt.mode = mode
             /\ ~CoverageGap(boundary, mode)
             /\ prompt.sections \in Seq(Section) /\ prompt.budget \in Nat
             /\ Recent \in DOMAIN prompt.sections
             /\ prompt.sections[Recent] = RecentSection(RawHistory(history, boundary), mode)
             /\ prompt.ledger = Compile(prompt.sections, prompt.budget)
    BY SentPrompt
  <2>2. PICK boundary \in -1..Len(history) :
             /\ prompt.history = history /\ prompt.boundary = boundary /\ prompt.mode = mode
             /\ ~CoverageGap(boundary, mode)
             /\ prompt.sections \in Seq(Section) /\ prompt.budget \in Nat
             /\ Recent \in DOMAIN prompt.sections
             /\ prompt.sections[Recent] = RecentSection(RawHistory(history, boundary), mode)
             /\ prompt.ledger = Compile(prompt.sections, prompt.budget)
    BY <2>1
  <2>3. PICK q \in Seq(Section), budget \in Nat :
          q = prompt.sections /\ budget = prompt.budget /\ prompt.ledger = Compile(q, budget)
    BY <2>2
  <2>4. \A s : Used(s) = Ledgered(q, budget, s)
    BY <2>3 DEF Used, Ledgered
  <2>5. DroppedForCause
    <3> SUFFICES ASSUME NEW s \in DOMAIN q, Clamped(q[s]) > 0, Used(s) = 0
                 PROVE  ~q[s].required /\ TakenBefore(s) + Clamped(q[s]) > budget
      BY <2>3 DEF DroppedForCause
    <3>1. TakenBefore(s) = SumOf([i \in DOMAIN q |-> IF RoutedBefore(q, i, s) THEN Ledgered(q, budget, i) ELSE 0])
      <4>1. \A i \in DOMAIN q : (IF RoutedBefore(q, i, s) THEN Used(i) ELSE 0)
                                = IF RoutedBefore(q, i, s) THEN Ledgered(q, budget, i) ELSE 0
        BY <2>4
      <4>2. [i \in DOMAIN q |-> IF RoutedBefore(q, i, s) THEN Used(i) ELSE 0]
            = [i \in DOMAIN q |-> IF RoutedBefore(q, i, s) THEN Ledgered(q, budget, i) ELSE 0]
        BY <4>1
      <4>3. QED
        BY <2>3, <4>2 DEF TakenBefore
    <3>2. Ledgered(q, budget, s) = 0
      BY <2>4
    <3>3. QED
      BY <3>1, <3>2, DroppedIs
  <2>6. HistoryIsWhole
    <3> SUFFICES ASSUME mode = "automatic"
                 PROVE  Used(Recent) = SizeOf(SubSeq(history, boundary + 1, Len(history)))
      BY <2>2 DEF HistoryIsWhole
    <3> DEFINE raw == RawHistory(history, boundary)
               size == SizeOf(raw)
    <3>1. boundary # -1
      BY <2>2 DEF CoverageGap
    <3>2. raw \in Seq(Message) /\ raw = SubSeq(history, boundary + 1, Len(history))
      BY <3>1, RawIs
    <3>3. QuotedSize(raw, mode) = size /\ size \in Nat
      BY <3>2, QuotedIs
    <3> HIDE DEF raw, size
    <3>4. q[Recent].size = size /\ q[Recent].required
          /\ q[Recent].budget = IF size >= RecentBudget THEN size + 1 ELSE RecentBudget
      BY <2>2, <2>3, <3>3 DEF raw, RecentSection, BudgetForRecent
    <3>5. Clamped(q[Recent]) = size
      BY <3>3, <3>4, PromptAssumption DEF Clamped
    <3>6. Ledgered(q, budget, Recent) = size
      <4>1. Recent \in Routed(q)
        BY <2>2, <2>3, <3>4 DEF Routed, Routable
      <4>2. Ledgered(q, budget, Recent) =
               IF Included(q[Recent], Left(q, budget)[Place(q, Recent) - 1]) THEN Clamped(q[Recent]) ELSE 0
        BY <4>1, LedgerIs
      <4>3. size > 0 => Included(q[Recent], Left(q, budget)[Place(q, Recent) - 1])
        BY <3>4, <3>5 DEF Included
      <4>4. QED
        BY <3>3, <3>5, <4>2, <4>3
    <3>7. QED
      BY <2>4, <3>2, <3>6 DEF size
  <2>7. QED
    BY <2>5, <2>6 DEF PromptIsWhole
<1>2. LifeInit => PromptInv
  BY DEF LifeInit, Init, PromptInv
<1>3. PromptInv /\ [LifeNext]_lifeVars => PromptInv'
  BY PromptStays
<1>4. QED
  BY <1>1, <1>2, <1>3, PTL DEF Spec, LifeNext
=============================================================================

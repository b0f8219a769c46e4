--------------------------- MODULE MigrationProofs ---------------------------
(***************************************************************************)
(* For any characters, rooms, messages and bounds: a bundle that has been  *)
(* written speaks of nothing it does not hold, an application may be cut   *)
(* off anywhere and repeated, and what a verification has passed is there. *)
(*                                                                         *)
(* The tool is one thread, so the invariant says what each of its places   *)
(* has established: of the bundle while it is written, of the tavern while *)
(* the bundle is applied, and of both where it rests.                      *)
(***************************************************************************)
EXTENDS Migration, TLAPS

Exporting == {"rooms", "messages", "participants", "assets", "cards", "chats", "manifest"}
Applying == {"fetch", "copy", "import", "post", "save"}

\* The fields of the tool's memory.
FieldsOK ==
    /\ tool.at \in {"idle"} \union Exporting \union Applying
    /\ tool.at = "idle" => tool = Idle
    /\ tool.at = "rooms" => DOMAIN tool = {"at", "characters"}
    /\ tool.at = "messages" => DOMAIN tool = {"at", "characters", "rooms"}
    /\ tool.at = "participants" => DOMAIN tool = {"at", "characters", "rooms", "messages"}
    /\ tool.at = "assets" => DOMAIN tool = {"at", "characters", "rooms", "messages", "cast"}
    /\ tool.at = "cards" => DOMAIN tool = {"at", "characters", "rooms", "messages", "cast", "assets"}
    /\ tool.at \in {"chats", "manifest"} =>
          DOMAIN tool = {"at", "todo", "characters", "rooms", "messages", "cast", "assets"}
    /\ tool.at \in {"fetch", "copy", "import", "post"} => DOMAIN tool = {"at", "todo"}
    /\ tool.at = "save" => DOMAIN tool = {"at", "todo", "grouped", "groups"}

\* What has been read of the tables: each as it was in its own moment.
MemoryOK ==
    /\ tool.at \in Exporting => tool.characters \subseteq Characters
    /\ tool.at \in Exporting \ {"rooms"} => tool.rooms \subseteq Rooms
    /\ tool.at \in Exporting \ {"rooms", "messages"} =>
          tool.messages \subseteq {m \in Messages : RoomOf[m] \in tool.rooms}
    /\ tool.at \in {"assets", "cards", "chats", "manifest"} => tool.cast \in [Rooms -> SUBSET Characters]
    /\ tool.at \in {"cards", "chats", "manifest"} => tool.assets \subseteq Characters

Of(messages, r) == {m \in messages : RoomOf[m] = r}

\* What has been written of the bundle.
WritingOK ==
    tool.at \in {"chats", "manifest"} =>
        /\ mixed /\ tool.characters \subseteq cards
        /\ tool.todo \subseteq Rooms /\ (tool.at = "manifest" => tool.todo = {})
        /\ \A r \in tool.rooms \ tool.todo : r \in lore /\ chats[r] = Of(tool.messages, r)

\* A room and a picture as the application leaves them.
RoomKept(r) == kept[r][OwnerOf(r)] = chats[r] /\ (OwnerOf(r) = Group => r \in Elements(groups))
Pictured(a) == files[a] = "none" \/ images[a] = files[a]

\* What has been done of the application.
ApplyingOK ==
    /\ tool.at \in Applying => manifest # NoFile /\ index # NoFile
    /\ tool.at = "copy" => /\ \A a \in index : a \in tool.todo \/ Pictured(a)
                           /\ \A a \in tool.todo : files[a] # "none"
    /\ tool.at \in {"import", "post", "save"} => \A a \in index : Pictured(a)
    /\ tool.at = "import" => manifest.characters \subseteq avatars \union tool.todo
    /\ tool.at = "post" => /\ manifest.characters \subseteq avatars
                           /\ tool.todo \subseteq manifest.rooms /\ manifest.rooms \subseteq books \union tool.todo
    /\ tool.at = "save" =>
          /\ manifest.characters \subseteq avatars /\ manifest.rooms \subseteq books
          /\ tool.todo \subseteq manifest.rooms
          /\ tool.groups \subseteq Elements(groups) /\ tool.grouped \subseteq Elements(groups)
          /\ Elements(groups) \subseteq tool.groups \union tool.grouped
          /\ \A r \in manifest.rooms \ tool.todo : RoomKept(r)

ToolOK == FieldsOK /\ MemoryOK /\ WritingOK /\ ApplyingOK

\* A bundle that is not a mixture holds what its export has read.
Closed ==
    manifest # NoFile /\ ~mixed =>
        /\ manifest.characters \subseteq cards /\ manifest.rooms \subseteq lore
        /\ \A r \in manifest.rooms : chats[r] = Of(exported, r) /\ manifest.cast[r] \subseteq manifest.characters
        /\ exported \subseteq {m \in Messages : RoomOf[m] \in manifest.rooms}
        /\ manifest.total = Cardinality(exported)

\* A picture in the tavern came from the bundle.
PicturesCome == \A a \in Characters : images[a] # "none" => files[a] # "none"

\* Nothing is held of a bundle that is being written or applied; what has been applied is there,
\* and what has been verified still is.
Silent == tool.at \in {"chats", "manifest"} \union Applying => ~applied /\ report = "none"
Done ==
    applied => /\ manifest.characters \subseteq avatars /\ manifest.rooms \subseteq books
               /\ \A r \in manifest.rooms : RoomKept(r)
               /\ \A a \in index : Pictured(a)
Reported == report = "ok" => Verifies /\ Readable

TypeInv == MigrationTypeOK /\ groups \in Seq(Rooms)

Rest == Closed /\ GroupOnce /\ PicturesCome /\ Silent /\ Done /\ Reported
Inv == TypeInv /\ ToolOK /\ Rest

-----------------------------------------------------------------------------
(* Steps that leave the bundle and the tavern alone.                       *)

LEMMA Frame ==
  ASSUME Rest, UNCHANGED <<bundle, tavern>>
  PROVE  /\ Closed' /\ GroupOnce' /\ PicturesCome'
         /\ UNCHANGED applied => Done'
         /\ UNCHANGED report => Reported'
<1>1. UNCHANGED <<cards, lore, chats, index, files, manifest, mixed, exported, avatars, books, groups, kept, images>>
  BY DEF bundle, tavern
<1>2. Closed' /\ GroupOnce' /\ PicturesCome'
  BY <1>1 DEF Rest, Closed, GroupOnce, PicturesCome
<1>3. UNCHANGED applied => Done'
  BY <1>1 DEF Rest, Done, RoomKept, OwnerOf, Pictured
<1>4. UNCHANGED report => Reported'
  BY <1>1 DEF Rest, Reported, Verifies, Readable, ChatMatches, OwnerOf, SizesMatch
<1>5. QED
  BY <1>2, <1>3, <1>4

LEMMA TypeFrame ==
  ASSUME TypeInv, UNCHANGED <<source, bundle, tavern>>, applied' \in BOOLEAN, report' \in {"none", "ok", "failed"}
  PROVE  TypeInv'
<1>1. UNCHANGED <<cards, lore, chats, index, files, manifest, mixed, exported, avatars, books, groups, kept, images>>
  BY DEF bundle, tavern
<1>2. UNCHANGED <<known, pictures, rooms, cast, said>>
  BY DEF source
<1>3. QED
  BY <1>1, <1>2 DEF TypeInv, MigrationTypeOK

LEMMA EditStep ==
  ASSUME Inv, Edit
  PROVE  Inv'
<1>1. UNCHANGED <<bundle, tavern, tool, applied, report>>
  BY DEF Edit
<1>2. UNCHANGED <<cards, lore, chats, index, files, manifest, mixed, exported, avatars, books, groups, kept, images>>
  BY <1>1 DEF bundle, tavern
<1>3. /\ known \subseteq Characters /\ pictures \subseteq Characters /\ rooms \subseteq Rooms
      /\ cast \in [Rooms -> SUBSET Characters] /\ said \subseteq Messages
  BY DEF Inv, TypeInv, MigrationTypeOK
<1> DEFINE Edited == /\ known' \subseteq Characters /\ pictures' \subseteq Characters /\ rooms' \subseteq Rooms
                     /\ cast' \in [Rooms -> SUBSET Characters] /\ said' \subseteq Messages
<1>4. Edited
  <2>1. ASSUME NEW c \in Characters, Create(c) \/ Portray(c) \/ Withdraw(c) \/ Remove(c) PROVE Edited
    BY <1>3, <2>1 DEF Create, Portray, Withdraw, Remove
  <2>2. ASSUME NEW r \in Rooms, Open(r) \/ Close(r) PROVE Edited
    BY <1>3, <2>2 DEF Open, Close
  <2>3. ASSUME NEW r \in Rooms, NEW c \in Characters, Join(r, c) \/ Leave(r, c) PROVE Edited
    BY <1>3, <2>3 DEF Join, Leave
  <2>4. ASSUME NEW m \in Messages, Say(m) \/ Unsay(m) PROVE Edited
    BY <1>3, <2>4 DEF Say, Unsay
  <2>5. \/ \E c \in Characters : Create(c) \/ Portray(c) \/ Withdraw(c) \/ Remove(c)
        \/ \E r \in Rooms : Open(r) \/ Close(r) \/ \E c \in Characters : Join(r, c) \/ Leave(r, c)
        \/ \E m \in Messages : Say(m) \/ Unsay(m)
    BY DEF Edit
  <2> HIDE DEF Edited
  <2>6. QED
    BY <2>1, <2>2, <2>3, <2>4, <2>5
<1>5. TypeInv'
  BY <1>1, <1>2, <1>4 DEF Inv, TypeInv, MigrationTypeOK
<1>6. ToolOK'
  BY <1>1, <1>2, <1>4 DEF Inv, ToolOK, FieldsOK, MemoryOK, WritingOK, ApplyingOK, Pictured, RoomKept, OwnerOf
<1>7. Rest'
  BY <1>1, Frame DEF Inv, Rest, Silent
<1>8. QED
  BY <1>5, <1>6, <1>7 DEF Inv

LEMMA ReadStep ==
  ASSUME Inv, ReadCharacters \/ ReadConversations \/ ReadMessages \/ ReadParticipants \/ ReadAssets
  PROVE  Inv'
<1>1. UNCHANGED <<source, bundle, tavern, applied, report>>
  BY DEF ReadCharacters, ReadConversations, ReadMessages, ReadParticipants, ReadAssets, Reading
<1>2. UNCHANGED <<known, pictures, rooms, cast, said>>
  BY <1>1 DEF source
<1>3. TypeInv'
  BY <1>1, TypeFrame DEF Inv, TypeInv, MigrationTypeOK
<1>4. /\ FieldsOK /\ MemoryOK /\ known \subseteq Characters /\ cast \in [Rooms -> SUBSET Characters]
      /\ said \subseteq Messages /\ rooms \subseteq Rooms /\ pictures \subseteq Characters
  BY DEF Inv, TypeInv, MigrationTypeOK, ToolOK
<1>5. FieldsOK' /\ MemoryOK' /\ tool'.at \in {"rooms", "messages", "participants", "assets", "cards"}
  <2>1. CASE ReadCharacters
    BY <1>2, <1>4, <2>1 DEF ReadCharacters, FieldsOK, MemoryOK, Exporting, Applying
  <2>2. CASE ReadConversations
    BY <1>2, <1>4, <2>2 DEF ReadConversations, Reading, FieldsOK, MemoryOK, Exporting, Applying
  <2>3. CASE ReadMessages
    BY <1>2, <1>4, <2>3 DEF ReadMessages, Reading, FieldsOK, MemoryOK, Exporting, Applying
  <2>4. CASE ReadParticipants
    BY <1>2, <1>4, <2>4 DEF ReadParticipants, Reading, FieldsOK, MemoryOK, Exporting, Applying
  <2>5. CASE ReadAssets
    BY <1>2, <1>4, <2>5 DEF ReadAssets, Reading, FieldsOK, MemoryOK, Exporting, Applying
  <2>6. QED
    BY <2>1, <2>2, <2>3, <2>4, <2>5
<1>6. ToolOK'
  BY <1>5 DEF ToolOK, WritingOK, ApplyingOK, Applying
<1>7. Rest'
  BY <1>1, <1>5, Frame DEF Inv, Rest, Silent, Applying
<1>8. QED
  BY <1>3, <1>6, <1>7 DEF Inv

-----------------------------------------------------------------------------
(* The bundle is written.                                                  *)

\* A step that takes something off the list of what is still to be done.
LEMMA TodoTaken ==
  ASSUME NEW t, NEW u, NEW rest, u = [t EXCEPT !.todo = rest],
         DOMAIN t \in {{"at", "todo"}, {"at", "todo", "grouped", "groups"},
                       {"at", "todo", "characters", "rooms", "messages", "cast", "assets"}}
  PROVE  /\ DOMAIN u = DOMAIN t /\ u.at = t.at /\ u.todo = rest
         /\ "rooms" \in DOMAIN t => /\ u.characters = t.characters /\ u.rooms = t.rooms /\ u.messages = t.messages
                                    /\ u.cast = t.cast /\ u.assets = t.assets
         /\ "groups" \in DOMAIN t => u.grouped = t.grouped /\ u.groups = t.groups
OBVIOUS

\* While the bundle is a mixture, and nothing is held of it, only what is in the tavern matters.
LEMMA WhileMixed ==
  ASSUME Rest, UNCHANGED tavern, files' = files, mixed', ~applied', report' = "none"
  PROVE  Rest'
<1>1. UNCHANGED <<groups, images>>
  BY DEF tavern
<1>2. QED
  BY <1>1 DEF Rest, Closed, GroupOnce, PicturesCome, Silent, Done, Reported

LEMMA WriteCardsStep ==
  ASSUME Inv, WriteCards
  PROVE  Inv'
<1>1. /\ tool.at = "cards" /\ cards' = cards \union tool.characters /\ mixed' = TRUE
      /\ tool' = [at |-> "chats", todo |-> tool.rooms, characters |-> tool.characters, rooms |-> tool.rooms,
                  messages |-> tool.messages, cast |-> tool.cast, assets |-> tool.assets]
      /\ applied' = FALSE /\ report' = "none"
      /\ UNCHANGED <<source, lore, chats, index, files, manifest, exported, tavern>>
  BY DEF WriteCards, Overwrites
<1>2. UNCHANGED <<known, pictures, rooms, cast, said, avatars, books, groups, kept, images>>
  BY <1>1 DEF source, tavern
<1>3. tool.characters \subseteq Characters
  BY <1>1 DEF Inv, ToolOK, MemoryOK, Exporting
<1>4. TypeInv'
  BY <1>1, <1>2, <1>3 DEF Inv, TypeInv, MigrationTypeOK
<1>5. /\ tool'.at = "chats" /\ tool'.todo = tool.rooms /\ tool'.characters = tool.characters
      /\ tool'.rooms = tool.rooms /\ tool'.messages = tool.messages /\ tool'.cast = tool.cast
      /\ tool'.assets = tool.assets
      /\ DOMAIN tool' = {"at", "todo", "characters", "rooms", "messages", "cast", "assets"}
  BY <1>1
<1>6. FieldsOK' /\ MemoryOK'
  BY <1>1, <1>2, <1>5 DEF Inv, ToolOK, FieldsOK, MemoryOK, Exporting, Applying
<1>7. WritingOK' /\ ApplyingOK'
  <2>1. tool.rooms \subseteq Rooms
    BY <1>1 DEF Inv, ToolOK, MemoryOK, Exporting
  <2>2. QED
    BY <1>1, <1>5, <2>1 DEF WritingOK, ApplyingOK, Applying
<1>8. Rest'
  BY <1>1, WhileMixed DEF Inv
<1>9. QED
  BY <1>4, <1>6, <1>7, <1>8 DEF Inv, ToolOK

LEMMA WriteRoomStep ==
  ASSUME Inv, NEW r \in Rooms, WriteRoom(r)
  PROVE  Inv'
<1>1. /\ tool.at = "chats" /\ r \in tool.todo
      /\ lore' = lore \union {r} /\ chats' = [chats EXCEPT ![r] = Of(tool.messages, r)]
      /\ tool' = [tool EXCEPT !.todo = @ \ {r}]
      /\ UNCHANGED <<source, cards, index, files, manifest, mixed, exported, tavern, applied, report>>
  BY DEF WriteRoom, Of
<1>2. UNCHANGED <<known, pictures, rooms, cast, said, avatars, books, groups, kept, images>>
  BY <1>1 DEF source, tavern
<1>3. /\ FieldsOK /\ MemoryOK /\ WritingOK /\ Silent
      /\ DOMAIN tool = {"at", "todo", "characters", "rooms", "messages", "cast", "assets"}
      /\ chats \in [Rooms -> Contents]
  BY <1>1 DEF Inv, ToolOK, FieldsOK, Rest, TypeInv, MigrationTypeOK
<1>4. /\ tool'.at = "chats" /\ tool'.todo = tool.todo \ {r} /\ tool'.characters = tool.characters
      /\ tool'.rooms = tool.rooms /\ tool'.messages = tool.messages /\ tool'.cast = tool.cast
      /\ tool'.assets = tool.assets /\ DOMAIN tool' = DOMAIN tool
  BY <1>1, <1>3, TodoTaken
<1>5. /\ tool.messages \subseteq Messages
      /\ chats' \in [Rooms -> Contents]
      /\ chats'[r] = Of(tool.messages, r) /\ \A q \in Rooms : q # r => chats'[q] = chats[q]
  <2>1. tool.messages \subseteq Messages
    BY <1>1, <1>3 DEF MemoryOK, Exporting
  <2>2. Of(tool.messages, r) \in SUBSET Messages
    BY <2>1 DEF Of
  <2>3. QED
    BY <1>1, <1>3, <2>1, <2>2 DEF Contents
<1>6. TypeInv'
  BY <1>1, <1>2, <1>5 DEF Inv, TypeInv, MigrationTypeOK
<1>7. FieldsOK' /\ MemoryOK'
  BY <1>1, <1>2, <1>3, <1>4 DEF FieldsOK, MemoryOK, Exporting, Applying
<1>8. WritingOK' /\ ApplyingOK'
  <2>1. mixed' /\ tool'.characters \subseteq cards' /\ tool'.todo \subseteq Rooms
    BY <1>1, <1>3, <1>4 DEF WritingOK
  <2>2. tool.rooms \subseteq Rooms
    BY <1>1, <1>3 DEF MemoryOK, Exporting, Inv, TypeInv, MigrationTypeOK
  <2>3. ASSUME NEW q \in tool'.rooms \ tool'.todo PROVE q \in lore' /\ chats'[q] = Of(tool'.messages, q)
    BY <1>1, <1>3, <1>4, <1>5, <2>2, <2>3 DEF WritingOK
  <2>4. QED
    BY <1>4, <2>1, <2>3 DEF WritingOK, ApplyingOK, Applying
<1>9. Rest'
  <2>1. mixed' /\ ~applied' /\ report' = "none"
    BY <1>1, <1>3 DEF WritingOK, Silent
  <2>2. QED
    BY <1>1, <2>1, WhileMixed DEF Inv
<1>10. QED
  BY <1>6, <1>7, <1>8, <1>9 DEF Inv, ToolOK

LEMMA WriteIndexStep ==
  ASSUME Inv, WriteIndex
  PROVE  Inv'
<1>1. /\ tool.at = "chats" /\ tool.todo = {} /\ index' = tool.assets
      /\ tool' = [tool EXCEPT !.at = "manifest"]
      /\ UNCHANGED <<source, cards, lore, chats, files, manifest, mixed, exported, tavern, applied, report>>
  BY DEF WriteIndex
<1>2. UNCHANGED <<known, pictures, rooms, cast, said, avatars, books, groups, kept, images>>
  BY <1>1 DEF source, tavern
<1>3. /\ FieldsOK /\ MemoryOK /\ WritingOK /\ Silent
      /\ DOMAIN tool = {"at", "todo", "characters", "rooms", "messages", "cast", "assets"}
  BY <1>1 DEF Inv, ToolOK, FieldsOK, Rest
<1>4. /\ tool'.at = "manifest" /\ tool'.todo = {} /\ tool'.characters = tool.characters
      /\ tool'.rooms = tool.rooms /\ tool'.messages = tool.messages /\ tool'.cast = tool.cast
      /\ tool'.assets = tool.assets /\ DOMAIN tool' = DOMAIN tool
  BY <1>1, <1>3
<1>5. index' \subseteq Characters
  BY <1>1, <1>2, <1>3 DEF MemoryOK
<1>6. TypeInv'
  BY <1>1, <1>2, <1>5 DEF Inv, TypeInv, MigrationTypeOK
<1>7. FieldsOK' /\ MemoryOK'
  BY <1>1, <1>2, <1>3, <1>4 DEF FieldsOK, MemoryOK, Exporting, Applying
<1>8. WritingOK' /\ ApplyingOK'
  BY <1>1, <1>3, <1>4 DEF WritingOK, ApplyingOK, Applying
<1>9. Rest'
  <2>1. mixed' /\ ~applied' /\ report' = "none"
    BY <1>1, <1>3 DEF WritingOK, Silent
  <2>2. QED
    BY <1>1, <2>1, WhileMixed DEF Inv
<1>10. QED
  BY <1>6, <1>7, <1>8, <1>9 DEF Inv, ToolOK

LEMMA WriteManifestStep ==
  ASSUME Inv, WriteManifest
  PROVE  Inv'
<1>1. /\ tool.at = "manifest"
      /\ manifest' = [characters |-> tool.characters, rooms |-> tool.rooms, total |-> Cardinality(tool.messages),
                      cast |-> [r \in tool.rooms |-> CharacterIds(tool, r)]]
      /\ mixed' = FALSE /\ exported' = tool.messages /\ tool' = Idle
      /\ UNCHANGED <<source, cards, lore, chats, index, files, tavern, applied, report>>
  BY DEF WriteManifest
<1>2. UNCHANGED <<known, pictures, rooms, cast, said, avatars, books, groups, kept, images>>
  BY <1>1 DEF source, tavern
<1>3. FieldsOK /\ MemoryOK /\ WritingOK /\ Silent
  BY <1>1 DEF Inv, ToolOK, Rest
<1>4. /\ manifest'.characters = tool.characters /\ manifest'.rooms = tool.rooms
      /\ manifest'.total = Cardinality(tool.messages)
      /\ manifest'.cast = [r \in tool.rooms |-> tool.cast[r] \intersect tool.characters]
  BY <1>1 DEF CharacterIds
<1>5. /\ tool.characters \subseteq Characters /\ tool.rooms \subseteq Rooms
      /\ tool.messages \subseteq {m \in Messages : RoomOf[m] \in tool.rooms}
      /\ tool.cast \in [Rooms -> SUBSET Characters]
  BY <1>1, <1>3 DEF MemoryOK, Exporting, Inv, TypeInv, MigrationTypeOK
<1>6. /\ manifest'.rooms \subseteq Rooms /\ manifest'.cast \in [manifest'.rooms -> SUBSET Characters]
      /\ \A r \in manifest'.rooms : manifest'.cast[r] \subseteq manifest'.characters
  BY <1>2, <1>4, <1>5
<1>7. TypeInv'
  BY <1>1, <1>2, <1>6 DEF Inv, TypeInv, MigrationTypeOK
<1>8. ToolOK'
  BY <1>1 DEF ToolOK, FieldsOK, MemoryOK, WritingOK, ApplyingOK, Idle, Exporting, Applying
<1>9. Closed'
  <2>1. tool.characters \subseteq cards /\ \A r \in tool.rooms : r \in lore /\ chats[r] = Of(tool.messages, r)
    BY <1>1, <1>3 DEF WritingOK
  <2>2. QED
    BY <1>1, <1>4, <1>5, <1>6, <2>1 DEF Closed
<1>10. ~applied' /\ report' = "none"
  BY <1>1, <1>3 DEF Silent
<1>11. Rest'
  BY <1>1, <1>2, <1>9, <1>10 DEF Inv, Rest, GroupOnce, PicturesCome, Silent, Done, Reported
<1>12. QED
  BY <1>7, <1>8, <1>11 DEF Inv

-----------------------------------------------------------------------------
(* The bundle is applied.                                                  *)

\* While a bundle is applied and nothing is held of it, the bundle, the pictures and the groups matter.
LEMMA WhileApplying ==
  ASSUME Rest, UNCHANGED <<cards, lore, chats, manifest, mixed, exported>>, ~applied', report' = "none",
         GroupOnce', PicturesCome'
  PROVE  Rest'
BY DEF Rest, Closed, Silent, Done, Reported

LEMMA StartApplyStep ==
  ASSUME Inv, StartApply
  PROVE  Inv'
<1>1. /\ manifest # NoFile /\ index # NoFile /\ tool' = [at |-> "fetch", todo |-> index]
      /\ applied' = FALSE /\ report' = "none"
      /\ UNCHANGED <<source, bundle, tavern>>
  BY DEF StartApply, Overwrites
<1>2. TypeInv'
  BY <1>1, TypeFrame DEF Inv
<1>3. UNCHANGED <<cards, lore, chats, index, manifest, mixed, exported>>
  BY <1>1 DEF bundle
<1>4. ToolOK'
  BY <1>1, <1>3 DEF ToolOK, FieldsOK, MemoryOK, WritingOK, ApplyingOK, Exporting, Applying
<1>5. Rest'
  BY <1>1, <1>3, Frame, WhileApplying DEF Inv
<1>6. QED
  BY <1>2, <1>4, <1>5 DEF Inv

LEMMA FetchStep ==
  ASSUME Inv, NEW a \in Characters, Fetch(a)
  PROVE  Inv'
<1>1. /\ tool.at = "fetch" /\ tool' = [tool EXCEPT !.todo = @ \ {a}]
      /\ UNCHANGED <<source, cards, lore, chats, index, manifest, mixed, exported, tavern, applied, report>>
  BY DEF Fetch
<1>2. UNCHANGED <<known, pictures, rooms, cast, said, avatars, books, groups, kept, images>>
  BY <1>1 DEF source, tavern
<1>3. files' = files \/ \E rest \in {"empty", "part", "whole"} : files' = [files EXCEPT ![a] = rest]
  BY DEF Fetch
<1>4. files \in [Characters -> {"none", "empty", "part", "whole"}]
  BY DEF Inv, TypeInv, MigrationTypeOK
<1>5. /\ files' \in [Characters -> {"none", "empty", "part", "whole"}]
      /\ \A b \in Characters : files[b] # "none" => files'[b] # "none"
  BY <1>3, <1>4
<1>6. TypeInv'
  BY <1>1, <1>2, <1>5 DEF Inv, TypeInv, MigrationTypeOK
<1>7. DOMAIN tool = {"at", "todo"} /\ manifest # NoFile /\ index # NoFile /\ ~applied /\ report = "none"
  BY <1>1 DEF Inv, ToolOK, FieldsOK, ApplyingOK, Applying, Rest, Silent
<1>8. tool'.at = "fetch" /\ DOMAIN tool' = {"at", "todo"}
  BY <1>1, <1>7
<1>9. ToolOK'
  BY <1>1, <1>7, <1>8 DEF ToolOK, FieldsOK, MemoryOK, WritingOK, ApplyingOK, Exporting, Applying
<1>10. GroupOnce' /\ PicturesCome'
  BY <1>2, <1>5 DEF Inv, Rest, GroupOnce, PicturesCome
<1>11. Rest'
  BY <1>1, <1>7, <1>10, WhileApplying DEF Inv
<1>12. QED
  BY <1>6, <1>9, <1>11 DEF Inv

LEMMA RewriteIndexStep ==
  ASSUME Inv, RewriteIndex
  PROVE  Inv'
<1>1. /\ tool.at = "fetch" /\ tool' = [at |-> "copy", todo |-> {a \in index : files[a] # "none"}]
      /\ UNCHANGED <<source, bundle, tavern, applied, report>>
  BY DEF RewriteIndex
<1>2. UNCHANGED <<cards, lore, chats, index, files, manifest, mixed, exported>>
  BY <1>1 DEF bundle
<1>3. TypeInv'
  BY <1>1, TypeFrame DEF Inv, TypeInv, MigrationTypeOK
<1>4. manifest # NoFile /\ index # NoFile /\ ~applied /\ report = "none"
  BY <1>1 DEF Inv, ToolOK, ApplyingOK, Applying, Rest, Silent
<1>5. tool'.at = "copy" /\ DOMAIN tool' = {"at", "todo"} /\ tool'.todo = {a \in index : files[a] # "none"}
  BY <1>1
<1>6. ToolOK'
  BY <1>2, <1>4, <1>5 DEF ToolOK, FieldsOK, MemoryOK, WritingOK, ApplyingOK, Pictured, Exporting, Applying
<1>7. Rest'
  BY <1>1, <1>2, <1>4, Frame, WhileApplying DEF Inv
<1>8. QED
  BY <1>3, <1>6, <1>7 DEF Inv

LEMMA CopyStep ==
  ASSUME Inv, NEW a \in Characters, Copy(a)
  PROVE  Inv'
<1>1. /\ tool.at = "copy" /\ a \in tool.todo /\ images' = [images EXCEPT ![a] = files[a]]
      /\ tool' = [tool EXCEPT !.todo = @ \ {a}]
      /\ UNCHANGED <<source, bundle, avatars, books, groups, kept, applied, report>>
  BY DEF Copy
<1>2. UNCHANGED <<known, pictures, rooms, cast, said, cards, lore, chats, index, files, manifest, mixed, exported>>
  BY <1>1 DEF source, bundle
<1>3. /\ files \in [Characters -> {"none", "empty", "part", "whole"}]
      /\ images \in [Characters -> {"none", "empty", "part", "whole"}]
      /\ index = NoFile \/ index \subseteq Characters
  BY DEF Inv, TypeInv, MigrationTypeOK
<1>4. /\ images' \in [Characters -> {"none", "empty", "part", "whole"}]
      /\ images'[a] = files[a] /\ \A b \in Characters : b # a => images'[b] = images[b]
  BY <1>1, <1>3
<1>5. TypeInv'
  BY <1>1, <1>2, <1>4 DEF Inv, TypeInv, MigrationTypeOK
<1>6. /\ DOMAIN tool = {"at", "todo"} /\ manifest # NoFile /\ index # NoFile /\ ~applied /\ report = "none"
      /\ \A b \in index : b \in tool.todo \/ Pictured(b)
      /\ \A b \in tool.todo : files[b] # "none"
  BY <1>1 DEF Inv, ToolOK, FieldsOK, ApplyingOK, Applying, Rest, Silent
<1>7. tool'.at = "copy" /\ DOMAIN tool' = {"at", "todo"} /\ tool'.todo = tool.todo \ {a}
  BY <1>1, <1>6
<1>8. \A b \in index : b \in tool'.todo \/ Pictured(b)'
  BY <1>2, <1>3, <1>4, <1>6, <1>7 DEF Pictured
<1>9. ToolOK'
  BY <1>2, <1>6, <1>7, <1>8 DEF ToolOK, FieldsOK, MemoryOK, WritingOK, ApplyingOK, Exporting, Applying
<1>10. GroupOnce' /\ PicturesCome'
  BY <1>1, <1>2, <1>4, <1>6 DEF Inv, Rest, GroupOnce, PicturesCome
<1>11. Rest'
  BY <1>1, <1>2, <1>6, <1>10, WhileApplying DEF Inv
<1>12. QED
  BY <1>5, <1>9, <1>11 DEF Inv

LEMMA StartImportStep ==
  ASSUME Inv, StartImport
  PROVE  Inv'
<1>1. /\ tool.at = "copy" /\ tool.todo = {} /\ tool' = [at |-> "import", todo |-> manifest.characters]
      /\ UNCHANGED <<source, bundle, tavern, applied, report>>
  BY DEF StartImport
<1>2. UNCHANGED <<cards, lore, chats, index, files, manifest, mixed, exported, avatars, books, groups, kept, images>>
  BY <1>1 DEF bundle, tavern
<1>3. TypeInv'
  BY <1>1, TypeFrame DEF Inv, TypeInv, MigrationTypeOK
<1>4. /\ manifest # NoFile /\ index # NoFile /\ ~applied /\ report = "none"
      /\ \A a \in index : Pictured(a)
  BY <1>1 DEF Inv, ToolOK, ApplyingOK, Applying, Rest, Silent
<1>5. tool'.at = "import" /\ DOMAIN tool' = {"at", "todo"} /\ tool'.todo = manifest.characters
  BY <1>1
<1>6. ToolOK'
  BY <1>2, <1>4, <1>5 DEF ToolOK, FieldsOK, MemoryOK, WritingOK, ApplyingOK, Pictured, Exporting, Applying
<1>7. Rest'
  BY <1>1, <1>2, <1>4, Frame, WhileApplying DEF Inv
<1>8. QED
  BY <1>3, <1>6, <1>7 DEF Inv

LEMMA ImportStep ==
  ASSUME Inv, NEW c \in Characters, ImportCharacter(c)
  PROVE  Inv'
<1>1. /\ tool.at = "import" /\ avatars' = avatars \union {c} /\ tool' = [tool EXCEPT !.todo = @ \ {c}]
      /\ UNCHANGED <<source, bundle, books, groups, kept, images, applied, report>>
  BY DEF ImportCharacter
<1>2. UNCHANGED <<known, pictures, rooms, cast, said, cards, lore, chats, index, files, manifest, mixed, exported>>
  BY <1>1 DEF source, bundle
<1>3. TypeInv'
  BY <1>1, <1>2 DEF Inv, TypeInv, MigrationTypeOK
<1>4. /\ DOMAIN tool = {"at", "todo"} /\ manifest # NoFile /\ index # NoFile /\ ~applied /\ report = "none"
      /\ \A a \in index : Pictured(a)
      /\ manifest.characters \subseteq avatars \union tool.todo
  BY <1>1 DEF Inv, ToolOK, FieldsOK, ApplyingOK, Applying, Rest, Silent
<1>5. tool'.at = "import" /\ DOMAIN tool' = {"at", "todo"} /\ tool'.todo = tool.todo \ {c}
  BY <1>1, <1>4
<1>6. ToolOK'
  BY <1>1, <1>2, <1>4, <1>5 DEF ToolOK, FieldsOK, MemoryOK, WritingOK, ApplyingOK, Pictured, Exporting, Applying
<1>7. GroupOnce' /\ PicturesCome'
  BY <1>1, <1>2 DEF Inv, Rest, GroupOnce, PicturesCome
<1>8. Rest'
  BY <1>1, <1>2, <1>4, <1>7, WhileApplying DEF Inv
<1>9. QED
  BY <1>3, <1>6, <1>8 DEF Inv

LEMMA StartPostingStep ==
  ASSUME Inv, StartPosting
  PROVE  Inv'
<1>1. /\ tool.at = "import" /\ tool.todo = {} /\ tool' = [at |-> "post", todo |-> manifest.rooms]
      /\ UNCHANGED <<source, bundle, tavern, applied, report>>
  BY DEF StartPosting
<1>2. UNCHANGED <<cards, lore, chats, index, files, manifest, mixed, exported, avatars, books, groups, kept, images>>
  BY <1>1 DEF bundle, tavern
<1>3. TypeInv'
  BY <1>1, TypeFrame DEF Inv, TypeInv, MigrationTypeOK
<1>4. /\ manifest # NoFile /\ index # NoFile /\ ~applied /\ report = "none"
      /\ \A a \in index : Pictured(a)
      /\ manifest.characters \subseteq avatars
  BY <1>1 DEF Inv, ToolOK, ApplyingOK, Applying, Rest, Silent
<1>5. tool'.at = "post" /\ DOMAIN tool' = {"at", "todo"} /\ tool'.todo = manifest.rooms
  BY <1>1
<1>6. ToolOK'
  BY <1>2, <1>4, <1>5 DEF ToolOK, FieldsOK, MemoryOK, WritingOK, ApplyingOK, Pictured, Exporting, Applying
<1>7. Rest'
  BY <1>1, <1>2, <1>4, Frame, WhileApplying DEF Inv
<1>8. QED
  BY <1>3, <1>6, <1>7 DEF Inv

LEMMA PostLorebookStep ==
  ASSUME Inv, NEW r \in Rooms, PostLorebook(r)
  PROVE  Inv'
<1>1. /\ tool.at = "post" /\ books' = books \union {r} /\ tool' = [tool EXCEPT !.todo = @ \ {r}]
      /\ UNCHANGED <<source, bundle, avatars, groups, kept, images, applied, report>>
  BY DEF PostLorebook
<1>2. UNCHANGED <<known, pictures, rooms, cast, said, cards, lore, chats, index, files, manifest, mixed, exported>>
  BY <1>1 DEF source, bundle
<1>3. TypeInv'
  BY <1>1, <1>2 DEF Inv, TypeInv, MigrationTypeOK, Elements
<1>4. /\ DOMAIN tool = {"at", "todo"} /\ manifest # NoFile /\ index # NoFile /\ ~applied /\ report = "none"
      /\ \A a \in index : Pictured(a)
      /\ manifest.characters \subseteq avatars
      /\ tool.todo \subseteq manifest.rooms /\ manifest.rooms \subseteq books \union tool.todo
  BY <1>1 DEF Inv, ToolOK, FieldsOK, ApplyingOK, Applying, Rest, Silent
<1>5. tool'.at = "post" /\ DOMAIN tool' = {"at", "todo"} /\ tool'.todo = tool.todo \ {r}
  BY <1>1, <1>4
<1>6. ToolOK'
  BY <1>1, <1>2, <1>4, <1>5 DEF ToolOK, FieldsOK, MemoryOK, WritingOK, ApplyingOK, Pictured, Exporting, Applying
<1>7. GroupOnce' /\ PicturesCome'
  BY <1>1, <1>2 DEF Inv, Rest, GroupOnce, PicturesCome
<1>8. Rest'
  BY <1>1, <1>2, <1>4, <1>7, WhileApplying DEF Inv
<1>9. QED
  BY <1>3, <1>6, <1>8 DEF Inv

LEMMA ListGroupsStep ==
  ASSUME Inv, ListGroups
  PROVE  Inv'
<1>1. /\ tool.at = "post" /\ tool.todo = {}
      /\ tool' = [at |-> "save", todo |-> manifest.rooms, grouped |-> {}, groups |-> Elements(groups)]
      /\ UNCHANGED <<source, bundle, tavern, applied, report>>
  BY DEF ListGroups
<1>2. UNCHANGED <<cards, lore, chats, index, files, manifest, mixed, exported, avatars, books, groups, kept, images>>
  BY <1>1 DEF bundle, tavern
<1>3. /\ manifest # NoFile /\ index # NoFile /\ ~applied /\ report = "none"
      /\ \A a \in index : Pictured(a)
      /\ manifest.characters \subseteq avatars /\ manifest.rooms \subseteq books
  BY <1>1 DEF Inv, ToolOK, ApplyingOK, Applying, Rest, Silent
<1>4. TypeInv'
  BY <1>1, TypeFrame DEF Inv, TypeInv, MigrationTypeOK
<1>5. /\ tool'.at = "save" /\ DOMAIN tool' = {"at", "todo", "grouped", "groups"}
      /\ tool'.todo = manifest.rooms /\ tool'.grouped = {} /\ tool'.groups = Elements(groups)
  BY <1>1
<1>6. Elements(groups)' = Elements(groups)
  BY <1>2 DEF Elements
<1>7. ToolOK'
  BY <1>2, <1>3, <1>5, <1>6 DEF ToolOK, FieldsOK, MemoryOK, WritingOK, ApplyingOK, Pictured, Exporting, Applying
<1>8. Rest'
  BY <1>1, <1>2, <1>3, Frame, WhileApplying DEF Inv
<1>9. QED
  BY <1>4, <1>7, <1>8 DEF Inv

\* A room that is appended to a list is on it, beside what was on it before.
LEMMA ElementsAppend ==
  ASSUME NEW S, NEW s \in Seq(S), NEW x \in S
  PROVE  /\ Append(s, x) \in Seq(S) /\ Elements(Append(s, x)) = Elements(s) \union {x}
         /\ (\A i, k \in DOMAIN s : s[i] = s[k] => i = k) /\ x \notin Elements(s)
                => \A i, k \in DOMAIN Append(s, x) : Append(s, x)[i] = Append(s, x)[k] => i = k
<1>1. /\ Len(s) \in Nat /\ DOMAIN s = 1..Len(s)
      /\ Append(s, x) \in Seq(S) /\ DOMAIN Append(s, x) = 1..(Len(s) + 1)
      /\ Append(s, x)[Len(s) + 1] = x /\ \A i \in 1..Len(s) : Append(s, x)[i] = s[i]
  OBVIOUS
<1> DEFINE t == Append(s, x)
<1> HIDE DEF t
<1>2. DOMAIN t = DOMAIN s \union {Len(s) + 1} /\ Len(s) + 1 \notin DOMAIN s
  BY <1>1 DEF t
<1>3. t[Len(s) + 1] = x /\ \A i \in DOMAIN s : t[i] = s[i]
  BY <1>1 DEF t
<1>4. Elements(t) = Elements(s) \union {x}
  BY <1>2, <1>3 DEF Elements
<1>5. (\A i, k \in DOMAIN s : s[i] = s[k] => i = k) /\ x \notin Elements(s)
          => \A i, k \in DOMAIN t : t[i] = t[k] => i = k
  BY <1>2, <1>3 DEF Elements
<1>6. QED
  BY <1>1, <1>4, <1>5 DEF t

LEMMA SaveGroupStep ==
  ASSUME Inv, NEW r \in Rooms, SaveGroup(r)
  PROVE  Inv'
<1>1. /\ tool.at = "save" /\ r \in tool.todo \ tool.grouped
      /\ groups' = IF r \in tool.groups THEN groups ELSE Append(groups, r)
      /\ tool' = [tool EXCEPT !.grouped = @ \union {r}]
      /\ UNCHANGED <<source, bundle, avatars, books, kept, images, applied, report>>
  BY DEF SaveGroup, Existing
<1>2. UNCHANGED <<known, pictures, rooms, cast, said, cards, lore, chats, index, files, manifest, mixed, exported>>
  BY <1>1 DEF source, bundle
<1>3. /\ DOMAIN tool = {"at", "todo", "grouped", "groups"}
      /\ manifest # NoFile /\ index # NoFile /\ ~applied /\ report = "none"
      /\ \A a \in index : Pictured(a)
      /\ manifest.characters \subseteq avatars /\ manifest.rooms \subseteq books
      /\ tool.todo \subseteq manifest.rooms
      /\ tool.groups \subseteq Elements(groups) /\ tool.grouped \subseteq Elements(groups)
      /\ Elements(groups) \subseteq tool.groups \union tool.grouped
      /\ \A q \in manifest.rooms \ tool.todo : RoomKept(q)
  BY <1>1 DEF Inv, ToolOK, FieldsOK, ApplyingOK, Applying, Rest, Silent
<1>4. /\ tool'.at = "save" /\ DOMAIN tool' = {"at", "todo", "grouped", "groups"}
      /\ tool'.todo = tool.todo /\ tool'.grouped = tool.grouped \union {r} /\ tool'.groups = tool.groups
  BY <1>1, <1>3
<1>5. groups \in Seq(Rooms) /\ GroupOnce
  BY DEF Inv, TypeInv, Rest
<1>6. groups' \in Seq(Rooms) /\ Elements(groups') = Elements(groups) \union {r} /\ GroupOnce'
  <2>1. CASE r \in tool.groups
    BY <1>1, <1>3, <1>5, <2>1 DEF GroupOnce
  <2>2. CASE r \notin tool.groups
    <3>1. r \notin Elements(groups)
      BY <1>1, <1>3, <2>2
    <3>2. QED
      BY <1>1, <1>5, <2>2, <3>1, ElementsAppend DEF GroupOnce
  <2>3. QED
    BY <2>1, <2>2
<1>7. Elements(groups)' = Elements(groups) \union {r}
  BY <1>6 DEF Elements
<1>8. r \in Rooms
  BY <1>1, <1>3 DEF Inv, TypeInv, MigrationTypeOK
<1>9. TypeInv'
  BY <1>1, <1>2, <1>6, <1>7, <1>8 DEF Inv, TypeInv, MigrationTypeOK
<1>10. \A q \in manifest'.rooms \ tool'.todo : RoomKept(q)'
  BY <1>1, <1>2, <1>3, <1>4, <1>7 DEF RoomKept, OwnerOf
<1>11. ToolOK'
  BY <1>1, <1>2, <1>3, <1>4, <1>7, <1>10
     DEF ToolOK, FieldsOK, MemoryOK, WritingOK, ApplyingOK, Pictured, Exporting, Applying
<1>12. PicturesCome'
  BY <1>1, <1>2 DEF Inv, Rest, PicturesCome
<1>13. Rest'
  BY <1>1, <1>2, <1>3, <1>6, <1>12, WhileApplying DEF Inv
<1>14. QED
  BY <1>9, <1>11, <1>13 DEF Inv

LEMMA SaveChatStep ==
  ASSUME Inv, NEW r \in Rooms, SaveChat(r)
  PROVE  Inv'
<1>1. /\ tool.at = "save" /\ r \in tool.todo /\ (OwnerOf(r) = Group => r \in tool.grouped)
      /\ kept' = [kept EXCEPT ![r][OwnerOf(r)] = chats[r]]
      /\ tool' = [tool EXCEPT !.todo = @ \ {r}]
      /\ UNCHANGED <<source, bundle, avatars, books, groups, images, applied, report>>
  BY DEF SaveChat, Saved
<1>2. UNCHANGED <<known, pictures, rooms, cast, said, cards, lore, chats, index, files, manifest, mixed, exported>>
  BY <1>1 DEF source, bundle
<1>3. /\ DOMAIN tool = {"at", "todo", "grouped", "groups"}
      /\ manifest # NoFile /\ index # NoFile /\ ~applied /\ report = "none"
      /\ \A a \in index : Pictured(a)
      /\ manifest.characters \subseteq avatars /\ manifest.rooms \subseteq books
      /\ tool.todo \subseteq manifest.rooms
      /\ tool.groups \subseteq Elements(groups) /\ tool.grouped \subseteq Elements(groups)
      /\ Elements(groups) \subseteq tool.groups \union tool.grouped
      /\ \A q \in manifest.rooms \ tool.todo : RoomKept(q)
  BY <1>1 DEF Inv, ToolOK, FieldsOK, ApplyingOK, Applying, Rest, Silent
<1>4. /\ tool'.at = "save" /\ DOMAIN tool' = {"at", "todo", "grouped", "groups"}
      /\ tool'.todo = tool.todo \ {r} /\ tool'.grouped = tool.grouped /\ tool'.groups = tool.groups
  BY <1>1, <1>3
<1>5. /\ kept \in [Rooms -> [Characters \union {Group} -> Contents]]
      /\ chats \in [Rooms -> Contents]
      /\ manifest.rooms \subseteq Rooms /\ manifest.cast \in [manifest.rooms -> SUBSET Characters]
  BY <1>3 DEF Inv, TypeInv, MigrationTypeOK
<1>6. OwnerOf(r) \in Characters \union {Group}
  BY <1>1, <1>3, <1>5 DEF OwnerOf
<1>7. /\ kept' \in [Rooms -> [Characters \union {Group} -> Contents]]
      /\ kept'[r][OwnerOf(r)] = chats[r] /\ \A q \in Rooms : q # r => kept'[q] = kept[q]
  BY <1>1, <1>5, <1>6
<1>8. TypeInv'
  BY <1>1, <1>2, <1>7 DEF Inv, TypeInv, MigrationTypeOK
<1>9. Elements(groups)' = Elements(groups) /\ \A q \in Rooms : OwnerOf(q)' = OwnerOf(q)
  BY <1>1, <1>2 DEF Elements, OwnerOf
<1>10. RoomKept(r)'
  BY <1>1, <1>2, <1>3, <1>7, <1>9 DEF RoomKept
<1>11. ASSUME NEW q \in manifest'.rooms \ tool'.todo PROVE RoomKept(q)'
  <2>1. q \in Rooms
    BY <1>2, <1>5
  <2>2. CASE q = r
    BY <1>10, <2>2
  <2>3. CASE q # r
    BY <1>2, <1>3, <1>4, <1>7, <1>9, <2>1, <2>3 DEF RoomKept
  <2>4. QED
    BY <2>2, <2>3
<1>12. ToolOK'
  BY <1>1, <1>2, <1>3, <1>4, <1>9, <1>11
     DEF ToolOK, FieldsOK, MemoryOK, WritingOK, ApplyingOK, Pictured, Exporting, Applying
<1>13. GroupOnce' /\ PicturesCome'
  BY <1>1, <1>2 DEF Inv, Rest, GroupOnce, PicturesCome
<1>14. Rest'
  BY <1>1, <1>2, <1>3, <1>13, WhileApplying DEF Inv
<1>15. QED
  BY <1>8, <1>12, <1>14 DEF Inv

LEMMA EndApplyStep ==
  ASSUME Inv, EndApply
  PROVE  Inv'
<1>1. /\ tool.at = "save" /\ tool.todo = {} /\ applied' = TRUE /\ tool' = Idle
      /\ UNCHANGED <<source, bundle, tavern, report>>
  BY DEF EndApply
<1>2. UNCHANGED <<cards, lore, chats, index, files, manifest, mixed, exported, avatars, books, groups, kept, images>>
  BY <1>1 DEF bundle, tavern
<1>3. /\ \A a \in index : Pictured(a)
      /\ manifest.characters \subseteq avatars /\ manifest.rooms \subseteq books
      /\ \A r \in manifest.rooms : RoomKept(r)
  BY <1>1 DEF Inv, ToolOK, ApplyingOK, Applying
<1>4. TypeInv'
  BY <1>1, TypeFrame DEF Inv, TypeInv, MigrationTypeOK
<1>5. ToolOK'
  BY <1>1 DEF ToolOK, FieldsOK, MemoryOK, WritingOK, ApplyingOK, Idle, Exporting, Applying
<1>6. Done'
  BY <1>2, <1>3 DEF Done, RoomKept, OwnerOf, Pictured
<1>7. Rest'
  BY <1>1, <1>6, Frame DEF Inv, Rest, Silent, Idle, Applying
<1>8. QED
  BY <1>4, <1>5, <1>7 DEF Inv

-----------------------------------------------------------------------------
(* The tool ends, in order or not.                                         *)

LEMMA AtRest ==
  ASSUME Inv, UNCHANGED <<source, bundle, tavern, applied, report>>, tool' = Idle
  PROVE  Inv'
<1>1. TypeInv'
  BY TypeFrame DEF Inv, TypeInv, MigrationTypeOK
<1>2. ToolOK'
  BY DEF ToolOK, FieldsOK, MemoryOK, WritingOK, ApplyingOK, Idle, Exporting, Applying
<1>3. Rest'
  BY Frame DEF Inv, Rest, Silent, Idle, Applying
<1>4. QED
  BY <1>1, <1>2, <1>3 DEF Inv

\* The tool is cut off while it writes a file of the bundle.
LEMMA TornStep ==
  ASSUME Inv, Torn, Overwrites, mixed' = (mixed \/ tool.at = "cards"), tool' = Idle,
         UNCHANGED <<source, exported, tavern>>
  PROVE  Inv'
<1>1. UNCHANGED <<known, pictures, rooms, cast, said, avatars, books, groups, kept, images>>
  BY DEF source, tavern
<1>2. applied' = FALSE /\ report' = "none"
  BY DEF Overwrites
<1>3. /\ cards \subseteq Characters /\ chats \in [Rooms -> Contents]
      /\ files \in [Characters -> {"none", "empty", "part", "whole"}]
      /\ index = NoFile \/ index \subseteq Characters
      /\ lore \subseteq Rooms /\ mixed \in BOOLEAN
  BY DEF Inv, TypeInv, MigrationTypeOK
<1> DEFINE Whole == /\ cards' \subseteq Characters /\ lore' \subseteq Rooms /\ chats' \in [Rooms -> Contents]
                    /\ files' \in [Characters -> {"none", "empty", "part", "whole"}]
                    /\ index' = NoFile \/ index' = index
                    /\ manifest' = NoFile \/ manifest' = manifest
                    /\ \A a \in Characters : files[a] # "none" => files'[a] # "none"
                    /\ mixed' \/ UNCHANGED <<cards, lore, chats, manifest, mixed>>
<1>4. Whole
  <2>1. tool.at \in {"chats", "manifest"} => mixed
    BY DEF Inv, ToolOK, WritingOK
  <2>2. CASE tool.at = "cards"
    BY <1>3, <2>2 DEF Torn
  <2>3. CASE tool.at = "chats"
    <3>1. CASE tool.todo = {}
      BY <1>3, <2>1, <2>3, <3>1 DEF Torn
    <3>2. CASE tool.todo # {}
      <4>1. PICK r \in tool.todo : TornRoom(r) /\ UNCHANGED <<cards, index, files, manifest>>
        BY <2>3, <3>2 DEF Torn
      <4>2. r \in Rooms /\ tool.messages \subseteq Messages
        BY <2>3, <4>1 DEF Inv, ToolOK, WritingOK, MemoryOK, Exporting
      <4>3. lore' \subseteq Rooms
        BY <1>3, <4>1, <4>2 DEF TornRoom
      <4>4. chats' \in [Rooms -> Contents]
        <5>1. CASE UNCHANGED chats
          BY <1>3, <5>1
        <5>2. ASSUME NEW rest \in {NoFile, Blank} \union SUBSET {m \in tool.messages : RoomOf[m] = r},
                     chats' = [chats EXCEPT ![r] = rest]
              PROVE  chats' \in [Rooms -> Contents]
          <6>1. rest \in Contents
            BY <4>2 DEF Contents
          <6>2. QED
            BY <1>3, <5>2, <6>1
        <5>3. QED
          BY <4>1, <5>1, <5>2 DEF TornRoom
      <4>5. QED
        BY <1>3, <2>1, <2>3, <4>1, <4>3, <4>4
    <3>3. QED
      BY <3>1, <3>2
  <2>4. CASE tool.at = "manifest"
    BY <1>3, <2>1, <2>4 DEF Torn
  <2>5. CASE tool.at = "fetch"
    BY <1>3, <2>5 DEF Torn
  <2>6. tool.at \in {"cards", "chats", "manifest", "fetch"}
    BY DEF Torn
  <2>7. QED
    BY <2>2, <2>3, <2>4, <2>5, <2>6
<1> HIDE DEF Whole
<1>5. TypeInv'
  BY <1>1, <1>2, <1>3, <1>4 DEF Whole, Inv, TypeInv, MigrationTypeOK
<1>6. ToolOK'
  BY DEF ToolOK, FieldsOK, MemoryOK, WritingOK, ApplyingOK, Idle, Exporting, Applying
<1>7. Closed'
  BY <1>4 DEF Whole, Inv, Rest, Closed
<1>8. GroupOnce' /\ PicturesCome'
  BY <1>1, <1>4 DEF Whole, Inv, Rest, GroupOnce, PicturesCome
<1>9. Rest'
  BY <1>2, <1>7, <1>8 DEF Rest, Silent, Done, Reported
<1>10. QED
  BY <1>5, <1>6, <1>9 DEF Inv

\* The tool is cut off while it copies a picture.
LEMMA CopyCutOff ==
  ASSUME Inv, tool.at = "copy", NEW a \in tool.todo, images' = [images EXCEPT ![a] = "part"], tool' = Idle,
         UNCHANGED <<source, bundle, avatars, books, groups, kept, applied, report>>
  PROVE  Inv'
<1>1. UNCHANGED <<known, pictures, rooms, cast, said, cards, lore, chats, index, files, manifest, mixed, exported>>
  BY DEF source, bundle
<1>2. files[a] # "none" /\ ~applied /\ report = "none"
  BY DEF Inv, ToolOK, ApplyingOK, Rest, Silent, Applying
<1>3. images \in [Characters -> {"none", "empty", "part", "whole"}]
  BY DEF Inv, TypeInv, MigrationTypeOK
<1>4. /\ images' \in [Characters -> {"none", "empty", "part", "whole"}]
      /\ \A b \in Characters : b # a => images'[b] = images[b]
  BY <1>3
<1>5. TypeInv'
  BY <1>1, <1>4 DEF Inv, TypeInv, MigrationTypeOK
<1>6. ToolOK'
  BY DEF ToolOK, FieldsOK, MemoryOK, WritingOK, ApplyingOK, Idle, Exporting, Applying
<1>7. GroupOnce' /\ PicturesCome'
  BY <1>1, <1>2, <1>4 DEF Inv, Rest, GroupOnce, PicturesCome
<1>8. Rest'
  BY <1>1, <1>2, <1>7, WhileApplying DEF Inv
<1>9. QED
  BY <1>5, <1>6, <1>8 DEF Inv

LEMMA BreakStep ==
  ASSUME Inv, Break
  PROVE  Inv'
<1>1. tool' = Idle /\ UNCHANGED <<source, exported, avatars, books, groups, kept>>
  BY DEF Break
<1>2. CASE UNCHANGED <<cards, lore, chats, index, files, manifest, mixed, images, applied, report>>
  BY <1>1, <1>2, AtRest DEF bundle, tavern
<1>3. CASE Torn /\ Overwrites /\ mixed' = (mixed \/ tool.at = "cards") /\ UNCHANGED images
  BY <1>1, <1>3, TornStep DEF tavern
<1>4. CASE /\ tool.at = "copy" /\ \E a \in tool.todo : images' = [images EXCEPT ![a] = "part"]
           /\ UNCHANGED <<cards, lore, chats, index, files, manifest, mixed, applied, report>>
  BY <1>1, <1>4, CopyCutOff DEF bundle
<1>5. QED
  BY <1>2, <1>3, <1>4 DEF Break

LEMMA VerifyStep ==
  ASSUME Inv, Verify
  PROVE  Inv'
<1>1. /\ tool = Idle /\ Readable /\ report' = IF Verifies THEN "ok" ELSE "failed"
      /\ UNCHANGED <<source, bundle, tavern, tool, applied>>
  BY DEF Verify
<1>2. UNCHANGED <<cards, lore, chats, index, files, manifest, mixed, exported, avatars, books, groups, kept, images>>
  BY <1>1 DEF bundle, tavern
<1>3. TypeInv'
  BY <1>1, TypeFrame DEF Inv, TypeInv, MigrationTypeOK
<1>4. ToolOK'
  BY <1>1 DEF ToolOK, FieldsOK, MemoryOK, WritingOK, ApplyingOK, Idle, Exporting, Applying
<1>5. Verifies' = Verifies /\ Readable' = Readable
  BY <1>2 DEF Verifies, Readable, ChatMatches, OwnerOf, SizesMatch, Elements
<1>6. Reported'
  BY <1>1, <1>5 DEF Reported
<1>7. Rest'
  BY <1>1, <1>6, Frame DEF Inv, Rest, Silent, Idle, Applying
<1>8. QED
  BY <1>3, <1>4, <1>7 DEF Inv

LEMMA Starts == Init => Inv
<1> SUFFICES ASSUME Init PROVE Inv
  OBVIOUS
<1>1. /\ tool = Idle /\ manifest = NoFile /\ index = NoFile /\ groups = <<>> /\ applied = FALSE /\ report = "none"
      /\ images = [a \in Characters |-> "none"]
  BY DEF Init
<1>2. /\ rooms \subseteq Rooms /\ known \subseteq Characters /\ pictures \subseteq Characters
      /\ cast \in [Rooms -> SUBSET Characters] /\ said \subseteq Messages
  BY MigrationAssumption DEF Init
<1>3. groups \in Seq(Rooms) /\ Elements(groups) = {}
  BY <1>1 DEF Elements
<1>4. TypeInv
  <2>1. /\ cards = {} /\ lore = {} /\ chats = [r \in Rooms |-> NoFile] /\ files = [a \in Characters |-> "none"]
        /\ avatars = {} /\ books = {} /\ mixed = FALSE
        /\ kept = [r \in Rooms |-> [owner \in Characters \union {Group} |-> NoFile]]
    BY DEF Init
  <2>2. NoFile \in Contents
    BY DEF Contents
  <2>3. /\ chats \in [Rooms -> Contents]
        /\ kept \in [Rooms -> [Characters \union {Group} -> Contents]]
    BY <2>1, <2>2
  <2>4. QED
    BY <1>1, <1>2, <1>3, <2>1, <2>3 DEF TypeInv, MigrationTypeOK
<1>5. ToolOK
  BY <1>1 DEF ToolOK, FieldsOK, MemoryOK, WritingOK, ApplyingOK, Idle, Exporting, Applying
<1>6. GroupOnce
  BY <1>1 DEF GroupOnce
<1>7. Rest
  BY <1>1, <1>6 DEF Rest, Closed, PicturesCome, Silent, Done, Reported
<1>8. QED
  BY <1>4, <1>5, <1>7 DEF Inv

LEMMA Steps == Inv /\ [Next]_vars => Inv'
<1> SUFFICES ASSUME Inv, [Next]_vars PROVE Inv'
  OBVIOUS
<1>1. CASE Edit
  BY <1>1, EditStep
<1>2. CASE ReadCharacters \/ ReadConversations \/ ReadMessages \/ ReadParticipants \/ ReadAssets
  BY <1>2, ReadStep
<1>3. CASE WriteCards \/ (\E r \in Rooms : WriteRoom(r)) \/ WriteIndex \/ WriteManifest
  BY <1>3, WriteCardsStep, WriteRoomStep, WriteIndexStep, WriteManifestStep
<1>4. CASE StartApply \/ (\E a \in Characters : Fetch(a) \/ Copy(a)) \/ RewriteIndex
  BY <1>4, StartApplyStep, FetchStep, CopyStep, RewriteIndexStep
<1>5. CASE StartImport \/ (\E c \in Characters : ImportCharacter(c))
         \/ StartPosting \/ (\E r \in Rooms : PostLorebook(r)) \/ ListGroups
  BY <1>5, StartImportStep, ImportStep, StartPostingStep, PostLorebookStep, ListGroupsStep
<1>6. CASE (\E r \in Rooms : SaveGroup(r) \/ SaveChat(r)) \/ EndApply
  BY <1>6, SaveGroupStep, SaveChatStep, EndApplyStep
<1>7. CASE Raise
  BY <1>7, AtRest DEF Raise
<1>8. CASE Break \/ Verify
  BY <1>8, BreakStep, VerifyStep
<1>9. CASE UNCHANGED vars
  <2>1. UNCHANGED <<source, bundle, tavern, tool, applied, report>>
    BY <1>9 DEF vars
  <2>2. UNCHANGED <<known, pictures, rooms, cast, said, cards, lore, chats, index, files, manifest, mixed, exported,
                    avatars, books, groups, kept, images>>
    BY <2>1 DEF source, bundle, tavern
  <2>3. TypeInv'
    BY <2>1, TypeFrame DEF Inv, TypeInv, MigrationTypeOK
  <2>4. ToolOK'
    BY <2>1, <2>2 DEF Inv, ToolOK, FieldsOK, MemoryOK, WritingOK, ApplyingOK, Pictured, RoomKept,
                      OwnerOf, Elements
  <2>5. Rest'
    BY <2>1, Frame DEF Inv, Rest, Silent
  <2>6. QED
    BY <2>3, <2>4, <2>5 DEF Inv
<1>10. QED
  BY <1>1, <1>2, <1>3, <1>4, <1>5, <1>6, <1>7, <1>8, <1>9 DEF Next

LEMMA Inductive == Spec => []Inv
BY Starts, Steps, PTL DEF Spec

\* What the bundle and the tavern hold is well-formed throughout.
LEMMA WellFormed == Spec => []MigrationTypeOK
<1>1. Inv => MigrationTypeOK
  BY DEF Inv, TypeInv
<1>2. QED
  BY <1>1, Inductive, PTL

-----------------------------------------------------------------------------
\* A finished bundle names no character without a card and no room without a lorebook and a whole
\* chat, whatever was created, removed, said or unsaid between the SELECTs of export_bundle, and wherever any export or
\* application before or after it was cut off.
THEOREM BundlesAreClosed == Spec => []BundleIsClosed
<1>1. Inv => BundleIsClosed
  <2> SUFFICES ASSUME Inv, manifest # NoFile, ~mixed
               PROVE  /\ manifest.characters \subseteq cards /\ manifest.rooms \subseteq lore
                      /\ \A r \in manifest.rooms :
                            chats[r] \notin {NoFile, Blank} /\ manifest.cast[r] \subseteq manifest.characters
    BY DEF BundleIsClosed
  <2>1. /\ manifest.characters \subseteq cards /\ manifest.rooms \subseteq lore
        /\ \A r \in manifest.rooms : chats[r] = Of(exported, r) /\ manifest.cast[r] \subseteq manifest.characters
        /\ exported \subseteq Messages
    BY DEF Inv, Rest, Closed
  <2>2. \A r \in manifest.rooms : Of(exported, r) \in SUBSET Messages
    BY <2>1 DEF Of
  <2>3. QED
    BY <2>1, <2>2, MigrationAssumption
<1>2. QED
  BY <1>1, Inductive, PTL

\* However often applications are cut off, with or without their last request having been served,
\* and begun again: every room has one group, and the application that comes to its end leaves what
\* a verification passes.
THEOREM ApplyingAgainIsSafe == Spec => []RepeatsSafely
<1>1. Inv => AppliedVerifies
  <2> SUFFICES ASSUME Inv, applied, ~mixed, Readable, \A a \in index : files[a] # "none"
               PROVE  Verifies
    BY DEF AppliedVerifies
  <2>1. /\ manifest.characters \subseteq avatars /\ manifest.rooms \subseteq books
        /\ \A r \in manifest.rooms : RoomKept(r)
        /\ \A a \in index : Pictured(a)
    BY DEF Inv, Rest, Done
  <2>2. /\ \A r \in manifest.rooms : chats[r] = Of(exported, r)
        /\ exported \subseteq {m \in Messages : RoomOf[m] \in manifest.rooms}
        /\ manifest.total = Cardinality(exported)
    BY DEF Inv, Rest, Closed, Readable
  <2>3. UNION {chats[r] : r \in manifest.rooms} = exported
    BY <2>2 DEF Of
  <2>4. \A a \in index : images[a] # "none" /\ SizesMatch(a)
    BY <2>1 DEF Pictured, SizesMatch
  <2>5. \A r \in manifest.rooms : ChatMatches(r)
    <3>1. exported \subseteq Messages
      BY <2>2
    <3>2. \A r \in manifest.rooms : chats[r] \in SUBSET Messages
      BY <2>2, <3>1 DEF Of
    <3>3. QED
      BY <2>1, <3>2, MigrationAssumption DEF ChatMatches, RoomKept
  <2>6. QED
    BY <2>1, <2>2, <2>3, <2>4, <2>5 DEF Verifies, RoomKept
<1>2. Inv => RepeatsSafely
  BY <1>1 DEF RepeatsSafely, Inv, TypeInv, Rest
<1>3. QED
  BY <1>2, Inductive, PTL

\* What a verification has passed is there until the tool is used again: the chats of a bundle that
\* is no mixture are those one export has read in one moment, and every picture is whole that was
\* not taken from a file whose writing was cut off.
THEOREM VerifiedStands == Spec => []VerifiedIsWhole
<1>1. Inv => VerifiedIsWhole
  <2> SUFFICES ASSUME Inv, report = "ok"
               PROVE  /\ ~mixed => \A r \in manifest.rooms : kept[r][OwnerOf(r)] = {m \in exported : RoomOf[m] = r}
                      /\ \A a \in index : images[a] = "whole" \/ files[a] \in {"empty", "part"}
    BY DEF VerifiedIsWhole
  <2>1. Verifies /\ Readable
    BY DEF Inv, Rest, Reported
  <2>2. ~mixed => \A r \in manifest.rooms : chats[r] = Of(exported, r)
    BY <2>1 DEF Inv, Rest, Closed, Readable
  <2>3. \A r \in manifest.rooms : kept[r][OwnerOf(r)] = chats[r]
    BY <2>1 DEF Verifies, ChatMatches
  <2>4. \A a \in index : images[a] # "none" /\ (files[a] = "none" \/ files[a] = images[a])
    BY <2>1 DEF Verifies, SizesMatch
  <2>5. index \subseteq Characters
    BY <2>1 DEF Inv, TypeInv, MigrationTypeOK, Readable
  <2>6. \A a \in index : /\ images[a] \in {"empty", "part", "whole"} /\ files[a] = images[a]
    BY <2>4, <2>5 DEF Inv, TypeInv, MigrationTypeOK, Rest, PicturesCome
  <2>7. QED
    BY <2>2, <2>3, <2>6 DEF Of
<1>2. QED
  BY <1>1, Inductive, PTL
=============================================================================

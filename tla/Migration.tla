------------------------------ MODULE Migration ------------------------------
(***************************************************************************)
(* The one-way migration to SillyTavern (interop/sillytavern_migration):   *)
(* an export reads the database table by table and writes a bundle of      *)
(* files, an application fetches the pictures, copies them and repeats the *)
(* bundle over HTTP, and a verification reads everything back.             *)
(*                                                                         *)
(* The backend goes on serving while the export reads, and sqlite shows    *)
(* every SELECT the state of its own moment.  The tool may be cut off at   *)
(* any point and is run again by hand; a request whose answer is lost is   *)
(* one whose effect is there when the tool breaks off.                     *)
(*                                                                         *)
(* A file that is cut off while it is written does not parse: it is as if  *)
(* it was not there.  Two kinds are taken as they are: a picture, and a    *)
(* chat that was cut off at the end of a line, or before its first.        *)
(***************************************************************************)
EXTENDS Naturals, FiniteSets, Sequences

CONSTANTS
    Characters,  \* characters; each may have one picture, its avatar
    Rooms,
    Messages,
    RoomOf,      \* [Messages -> Rooms]
    Born,        \* characters that are there at first, with a picture
    Furnished,   \* rooms that are there at first, with the casts of Born
    Group,       \* the owner of a chat that is not a character's own
    NoFile,      \* a file that is missing or does not parse
    Blank,       \* a chat that has not even the line which says whose it is
    Budget       \* bounds: [edit, export, apply, break -> Nat]

ASSUME MigrationAssumption ==
    /\ RoomOf \in [Messages -> Rooms]
    /\ Born \subseteq Characters /\ Furnished \in [Rooms -> SUBSET Born]
    /\ Group \notin Characters /\ NoFile # Blank
    /\ \A content \in SUBSET Messages : content \notin {NoFile, Blank}
    /\ Budget \in [{"edit", "export", "apply", "break"} -> Nat]

VARIABLES
    known, pictures, rooms, cast, said,      \* rows: characters, assets, conversations, participants, messages
    cards, lore, chats, index, files, manifest,  \* the bundle: lore are the rooms' lorebooks, files the pictures
    avatars, books, groups, kept, images,    \* SillyTavern: cards, lorebooks, groups, chats, pictures
    tool,       \* what the tool is doing, with what it has in memory
    spent,      \* what has been used up of Budget
    mixed,      \* has an export begun to write and not come to its end?
    exported,   \* the messages of the last export that came to its end
    applied,    \* has the bundle been applied, as it is now?
    report      \* of the last verification, if nothing has changed since

source == <<known, pictures, rooms, cast, said>>
bundle == <<cards, lore, chats, index, files, manifest, mixed, exported>>
tavern == <<avatars, books, groups, kept, images>>
vars == <<source, bundle, tavern, tool, spent, applied, report>>

Idle == [at |-> "idle"]
Elements(s) == {s[i] : i \in DOMAIN s}
Spend(kind) == spent[kind] < Budget[kind] /\ spent' = [spent EXCEPT ![kind] = @ + 1]
Overwrites == applied' = FALSE /\ report' = "none"

-----------------------------------------------------------------------------
\* What the backend goes on doing

\* No id is given twice; that a name may come back here only adds to what can happen.
Create(c) == c \notin known /\ known' = known \union {c} /\ UNCHANGED <<pictures, rooms, cast, said>>
Portray(c) == c \in known \ pictures /\ pictures' = pictures \union {c} /\ UNCHANGED <<known, rooms, cast, said>>
\* delete_asset
Withdraw(c) == c \in pictures /\ pictures' = pictures \ {c} /\ UNCHANGED <<known, rooms, cast, said>>
\* delete_character leaves the pictures and the places in rooms
Remove(c) == c \in known /\ known' = known \ {c} /\ UNCHANGED <<pictures, rooms, cast, said>>
Open(r) ==
    /\ r \notin rooms /\ rooms' = rooms \union {r}
    /\ \E first \in {{}} \union {{c} : c \in known} : cast' = [cast EXCEPT ![r] = first]
    /\ UNCHANGED <<known, pictures, said>>
\* delete_conversation: with its messages and participants
Close(r) ==
    /\ r \in rooms /\ rooms' = rooms \ {r}
    /\ said' = {m \in said : RoomOf[m] # r} /\ cast' = [cast EXCEPT ![r] = {}]
    /\ UNCHANGED <<known, pictures>>
Join(r, c) ==
    /\ r \in rooms /\ c \in known \ cast[r]
    /\ cast' = [cast EXCEPT ![r] = @ \union {c}]
    /\ UNCHANGED <<known, pictures, rooms, said>>
Leave(r, c) ==
    /\ c \in cast[r] /\ cast' = [cast EXCEPT ![r] = @ \ {c}]
    /\ UNCHANGED <<known, pictures, rooms, said>>
Say(m) == RoomOf[m] \in rooms /\ m \notin said /\ said' = said \union {m} /\ UNCHANGED <<known, pictures, rooms, cast>>
Unsay(m) == m \in said /\ said' = said \ {m} /\ UNCHANGED <<known, pictures, rooms, cast>>

Edit ==
    \* what happens while the tool does not read could as well happen after it has ended
    /\ tool.at \in {"rooms", "messages", "participants", "assets", "idle"}
    /\ Spend("edit")
    /\ \/ \E c \in Characters : Create(c) \/ Portray(c) \/ Withdraw(c) \/ Remove(c)
       \/ \E r \in Rooms : Open(r) \/ Close(r) \/ \E c \in Characters : Join(r, c) \/ Leave(r, c)
       \/ \E m \in Messages : Say(m) \/ Unsay(m)
    /\ UNCHANGED <<bundle, tavern, tool, applied, report>>

-----------------------------------------------------------------------------
\* export_bundle: five of its SELECTs, in their order

ReadCharacters ==
    /\ tool = Idle /\ Spend("export")
    /\ tool' = [at |-> "rooms", characters |-> known]
    /\ UNCHANGED <<source, bundle, tavern, applied, report>>

Reading(at, next, field, value) ==
    /\ tool.at = at
    /\ tool' = [f \in DOMAIN tool \union {field} |-> IF f = "at" THEN next ELSE IF f = field THEN value ELSE tool[f]]
    /\ UNCHANGED <<source, bundle, tavern, spent, applied, report>>

ReadConversations == Reading("rooms", "messages", "rooms", rooms)
ReadMessages == Reading("messages", "participants", "messages", {m \in said : RoomOf[m] \in tool.rooms})
ReadParticipants == Reading("participants", "assets", "cast", cast)
ReadAssets == Reading("assets", "cards", "assets", pictures)

\* A variant: every participant is kept, of whom no card was written.
CharacterIdsAll(t, r) == t.cast[r]
\* char_ids: participants whose character was read; nothing depends on their order
CharacterIds(t, r) == t.cast[r] \intersect t.characters

WriteCards ==
    /\ tool.at = "cards"
    /\ cards' = cards \union tool.characters
    /\ mixed' = TRUE
    /\ tool' = [at |-> "chats", todo |-> tool.rooms, characters |-> tool.characters, rooms |-> tool.rooms,
                messages |-> tool.messages, cast |-> tool.cast, assets |-> tool.assets]
    /\ Overwrites
    /\ UNCHANGED <<source, lore, chats, index, files, manifest, exported, tavern, spent>>

\* the lorebook, the sidecar and the chat of a room
WriteRoom(r) ==
    /\ tool.at = "chats" /\ r \in tool.todo
    /\ lore' = lore \union {r} /\ chats' = [chats EXCEPT ![r] = {m \in tool.messages : RoomOf[m] = r}]
    /\ tool' = [tool EXCEPT !.todo = @ \ {r}]
    /\ UNCHANGED <<source, cards, index, files, manifest, mixed, exported, tavern, spent, applied, report>>

WriteIndex ==
    /\ tool.at = "chats" /\ tool.todo = {}
    /\ index' = tool.assets
    /\ tool' = [tool EXCEPT !.at = "manifest"]
    /\ UNCHANGED <<source, cards, lore, chats, files, manifest, mixed, exported, tavern, spent, applied, report>>

WriteManifest ==
    /\ tool.at = "manifest"
    /\ manifest' = [characters |-> tool.characters, rooms |-> tool.rooms, total |-> Cardinality(tool.messages),
                    cast |-> [r \in tool.rooms |-> CharacterIds(tool, r)]]
    /\ mixed' = FALSE /\ exported' = tool.messages
    /\ tool' = Idle
    /\ UNCHANGED <<source, cards, lore, chats, index, files, tavern, spent, applied, report>>

-----------------------------------------------------------------------------
\* materialize_assets

\* target.exists() and not empty
Reusable(picture) == picture \notin {"none", "empty"}

StartApply ==
    /\ tool = Idle /\ Spend("apply")
    /\ manifest # NoFile /\ index # NoFile
    /\ tool' = [at |-> "fetch", todo |-> index]
    /\ Overwrites
    /\ UNCHANGED <<source, bundle, tavern>>

\* A picture is there already, comes, or does not: a download that fails leaves nothing, or, where the
\* writing fails, the beginning of the file; it is counted, and the next one follows.
Fetch(a) ==
    /\ tool.at = "fetch" /\ a \in tool.todo
    /\ IF Reusable(files[a]) THEN UNCHANGED <<files, spent>>
       ELSE \/ files' = [files EXCEPT ![a] = "whole"] /\ UNCHANGED spent
            \/ Spend("break") /\ UNCHANGED files
            \/ Spend("break") /\ \E rest \in {"empty", "part"} : files' = [files EXCEPT ![a] = rest]
    /\ tool' = [tool EXCEPT !.todo = @ \ {a}]
    /\ UNCHANGED <<source, cards, lore, chats, index, manifest, mixed, exported, tavern, applied, report>>

\* apply_bundle

\* the index is written back, and what was fetched is copied
RewriteIndex ==
    /\ tool.at = "fetch" /\ tool.todo = {}
    /\ tool' = [at |-> "copy", todo |-> {a \in index : files[a] # "none"}]
    /\ UNCHANGED <<source, bundle, tavern, spent, applied, report>>

Copy(a) ==
    /\ tool.at = "copy" /\ a \in tool.todo
    /\ images' = [images EXCEPT ![a] = files[a]]
    /\ tool' = [tool EXCEPT !.todo = @ \ {a}]
    /\ UNCHANGED <<source, bundle, avatars, books, groups, kept, spent, applied, report>>

StartImport ==
    /\ tool.at = "copy" /\ tool.todo = {}
    /\ tool' = [at |-> "import", todo |-> manifest.characters]
    /\ UNCHANGED <<source, bundle, tavern, spent, applied, report>>

ImportCharacter(c) ==
    /\ tool.at = "import" /\ c \in tool.todo /\ c \in cards
    /\ avatars' = avatars \union {c}
    /\ tool' = [tool EXCEPT !.todo = @ \ {c}]
    /\ UNCHANGED <<source, bundle, books, groups, kept, images, spent, applied, report>>

StartPosting ==
    /\ tool.at = "import" /\ tool.todo = {}
    /\ tool' = [at |-> "post", todo |-> manifest.rooms]
    /\ UNCHANGED <<source, bundle, tavern, spent, applied, report>>

\* worldinfo/edit
PostLorebook(r) ==
    /\ tool.at = "post" /\ r \in tool.todo /\ r \in lore
    /\ books' = books \union {r}
    /\ tool' = [tool EXCEPT !.todo = @ \ {r}]
    /\ UNCHANGED <<source, bundle, avatars, groups, kept, images, spent, applied, report>>

ListGroups ==
    /\ tool.at = "post" /\ tool.todo = {}
    /\ tool' = [at |-> "save", todo |-> manifest.rooms, grouped |-> {}, groups |-> Elements(groups)]
    /\ UNCHANGED <<source, bundle, tavern, spent, applied, report>>

\* A room with one character is a chat of that character; with none or several it is a group.
OwnerOf(r) == IF \E c \in manifest.cast[r] : manifest.cast[r] = {c} THEN CHOOSE c \in manifest.cast[r] : TRUE
              ELSE Group

\* existing: a group with the chat id of the room was on the list
Existing(r) == r \in tool.groups

SaveGroup(r) ==
    /\ tool.at = "save" /\ r \in tool.todo \ tool.grouped /\ chats[r] # NoFile /\ OwnerOf(r) = Group
    /\ groups' = IF Existing(r) THEN groups ELSE Append(groups, r)
    /\ tool' = [tool EXCEPT !.grouped = @ \union {r}]
    /\ UNCHANGED <<source, bundle, avatars, books, kept, images, spent, applied, report>>

\* A variant: the chat of a group that exists is left to its members.
SavedNewOnly(r) == IF OwnerOf(r) = Group /\ kept[r][Group] # NoFile THEN kept[r][Group] ELSE chats[r]
\* what chats/save and chats/group/save are given, to be forced over what is there
Saved(r) == chats[r]

SaveChat(r) ==
    /\ tool.at = "save" /\ r \in tool.todo /\ chats[r] # NoFile /\ (OwnerOf(r) = Group => r \in tool.grouped)
    /\ OwnerOf(r) \in manifest.characters \union {Group}
    /\ kept' = [kept EXCEPT ![r][OwnerOf(r)] = Saved(r)]
    /\ tool' = [tool EXCEPT !.todo = @ \ {r}]
    /\ UNCHANGED <<source, bundle, avatars, books, groups, images, spent, applied, report>>

EndApply ==
    /\ tool.at = "save" /\ tool.todo = {}
    /\ applied' = TRUE /\ tool' = Idle
    /\ UNCHANGED <<source, bundle, tavern, spent, report>>

\* A card, a lorebook or a chat that cannot be read, or a chat of a character without a card, is an error.
Raise ==
    /\ \/ tool.at = "import" /\ \E c \in tool.todo : c \notin cards
       \/ tool.at = "post" /\ \E r \in tool.todo : r \notin lore
       \/ tool.at = "save" /\ \E r \in tool.todo :
              chats[r] = NoFile \/ OwnerOf(r) \notin manifest.characters \union {Group}
    /\ tool' = Idle
    /\ UNCHANGED <<source, bundle, tavern, spent, applied, report>>

-----------------------------------------------------------------------------
\* The tool is cut off: between two writes or requests, or while it writes a file.  The beginning of
\* a chat may hold any of its messages: their order is left out.
TornRoom(r) ==
    \/ lore' = lore \ {r} /\ UNCHANGED chats
    \/ lore' = lore \union {r} /\ UNCHANGED chats
    \/ /\ lore' = lore \union {r}
       /\ \E rest \in {NoFile, Blank} \union SUBSET {m \in tool.messages : RoomOf[m] = r} :
             chats' = [chats EXCEPT ![r] = rest]

Torn ==
    CASE tool.at = "cards" ->
             \E c \in tool.characters : cards' = cards \ {c} /\ UNCHANGED <<lore, chats, index, files, manifest>>
      [] tool.at = "chats" /\ tool.todo # {} ->
             \E r \in tool.todo : TornRoom(r) /\ UNCHANGED <<cards, index, files, manifest>>
      [] tool.at = "chats" /\ tool.todo = {} -> index' = NoFile /\ UNCHANGED <<cards, lore, chats, files, manifest>>
      [] tool.at = "manifest" -> manifest' = NoFile /\ UNCHANGED <<cards, lore, chats, index, files>>
      [] tool.at = "fetch" /\ tool.todo # {} ->
             \E a \in tool.todo : /\ ~ Reusable(files[a])
                                  /\ \E rest \in {"empty", "part"} : files' = [files EXCEPT ![a] = rest]
                                  /\ UNCHANGED <<cards, lore, chats, index, manifest>>
      [] tool.at = "fetch" /\ tool.todo = {} -> index' = NoFile /\ UNCHANGED <<cards, lore, chats, files, manifest>>
      [] OTHER -> FALSE

Break ==
    /\ tool # Idle
    /\ Spend("break")
    /\ \/ UNCHANGED <<cards, lore, chats, index, files, manifest, mixed, images, applied, report>>
       \/ Torn /\ Overwrites /\ mixed' = (mixed \/ tool.at = "cards") /\ UNCHANGED images
       \/ /\ tool.at = "copy" /\ \E a \in tool.todo : images' = [images EXCEPT ![a] = "part"]
          /\ UNCHANGED <<cards, lore, chats, index, files, manifest, mixed, applied, report>>
    /\ tool' = Idle
    /\ UNCHANGED <<source, exported, avatars, books, groups, kept>>

-----------------------------------------------------------------------------
\* verify_bundle

\* A variant: chats are compared by their lengths.
ChatMatchesLength(r) ==
    /\ kept[r][OwnerOf(r)] \notin {NoFile, Blank} /\ chats[r] # Blank
    /\ Cardinality(kept[r][OwnerOf(r)]) = Cardinality(chats[r])
\* and no chat matches that does not say whose it is
ChatMatches(r) == chats[r] # Blank /\ kept[r][OwnerOf(r)] = chats[r]

SizesMatch(a) == files[a] = "none" \/ files[a] = images[a]

Verifies ==
    /\ manifest.characters \subseteq avatars
    /\ manifest.rooms \subseteq books
    /\ \A r \in manifest.rooms : ChatMatches(r) /\ (OwnerOf(r) = Group => r \in Elements(groups))
    /\ \A a \in index : images[a] # "none" /\ SizesMatch(a)
    /\ manifest.total = Cardinality(UNION {chats[r] : r \in manifest.rooms})

Readable == manifest # NoFile /\ index # NoFile /\ \A r \in manifest.rooms : chats[r] # NoFile

Verify ==
    /\ tool = Idle /\ Readable
    /\ report = "none"
    /\ report' = IF Verifies THEN "ok" ELSE "failed"
    /\ UNCHANGED <<source, bundle, tavern, tool, spent, applied>>

-----------------------------------------------------------------------------
Init ==
    /\ known \in {k \in SUBSET Characters : Born \subseteq k} /\ pictures = Born /\ cast = Furnished
    /\ rooms = {r \in Rooms : Furnished[r] # {}}
    /\ said \in {{m} : m \in {n \in Messages : RoomOf[n] \in rooms}}
    /\ cards = {} /\ lore = {} /\ chats = [r \in Rooms |-> NoFile] /\ index = NoFile /\ manifest = NoFile
    /\ files = [a \in Characters |-> "none"]
    /\ avatars = {} /\ books = {} /\ groups = <<>> /\ images = [a \in Characters |-> "none"]
    /\ kept = [r \in Rooms |-> [owner \in Characters \union {Group} |-> NoFile]]
    /\ tool = Idle /\ spent = [kind \in DOMAIN Budget |-> 0]
    /\ mixed = FALSE /\ exported = {} /\ applied = FALSE /\ report = "none"

Next ==
    \/ Edit
    \/ ReadCharacters \/ ReadConversations \/ ReadMessages \/ ReadParticipants \/ ReadAssets
    \/ WriteCards \/ (\E r \in Rooms : WriteRoom(r)) \/ WriteIndex \/ WriteManifest
    \/ StartApply \/ (\E a \in Characters : Fetch(a) \/ Copy(a)) \/ RewriteIndex
    \/ StartImport \/ (\E c \in Characters : ImportCharacter(c))
    \/ StartPosting \/ (\E r \in Rooms : PostLorebook(r)) \/ ListGroups
    \/ (\E r \in Rooms : SaveGroup(r) \/ SaveChat(r)) \/ EndApply
    \/ Raise \/ Break
    \/ Verify

Spec == Init /\ [][Next]_vars
-----------------------------------------------------------------------------
Contents == (SUBSET Messages) \union {NoFile, Blank}

MigrationTypeOK ==
    /\ pictures \subseteq Characters /\ known \subseteq Characters /\ rooms \subseteq Rooms
    /\ cast \in [Rooms -> SUBSET Characters] /\ said \subseteq Messages
    /\ cards \subseteq Characters /\ lore \subseteq Rooms /\ chats \in [Rooms -> Contents]
    /\ index = NoFile \/ index \subseteq Characters
    /\ files \in [Characters -> {"none", "empty", "part", "whole"}]
    /\ manifest = NoFile \/ (manifest.rooms \subseteq Rooms /\ manifest.cast \in [manifest.rooms -> SUBSET Characters])
    /\ avatars \subseteq Characters /\ books \subseteq Rooms /\ Elements(groups) \subseteq Rooms
    /\ kept \in [Rooms -> [Characters \union {Group} -> Contents]]
    /\ images \in [Characters -> {"none", "empty", "part", "whole"}]
    /\ mixed \in BOOLEAN /\ applied \in BOOLEAN /\ report \in {"none", "ok", "failed"}

\* A bundle that an export has finished speaks of nothing it does not hold, although its tables were
\* read one after another while characters, rooms and messages came and went: there is a card for
\* every character a room names, and a lorebook and a whole chat for every room (char_ids).  An
\* application finds all it reads.
BundleIsClosed ==
    manifest # NoFile /\ ~ mixed =>
        /\ manifest.characters \subseteq cards
        /\ manifest.rooms \subseteq lore
        /\ \A r \in manifest.rooms : chats[r] \notin {NoFile, Blank} /\ manifest.cast[r] \subseteq manifest.characters

\* However often an application is cut off, with or without its last request having been served, and
\* however often it is repeated, a room has one group (groups_by_chat_id).
GroupOnce == \A i, k \in DOMAIN groups : groups[i] = groups[k] => i = k

\* An application that comes to its end makes good for all that were cut off before it, and for an
\* earlier bundle: it is verified, unless a picture could not be fetched or the bundle is a mixture
\* of two exports.
AppliedVerifies ==
    applied /\ ~ mixed /\ Readable /\ (\A a \in index : files[a] # "none") => Verifies

\* An application may be repeated at any time, over what any other has left: it doubles nothing and
\* leaves nothing out.
RepeatsSafely == GroupOnce /\ AppliedVerifies

\* What is verified is there: every chat is what one export has read in one moment, and every picture
\* is whole.  A picture whose writing was cut off is the exception: what there is of it is copied, a
\* later run reuses it unless it is empty, and only sizes are compared (materialize_assets).
VerifiedIsWhole ==
    report = "ok" =>
        /\ ~ mixed => \A r \in manifest.rooms : kept[r][OwnerOf(r)] = {m \in exported : RoomOf[m] = r}
        /\ \A a \in index : images[a] = "whole" \/ files[a] \in {"empty", "part"}
=============================================================================

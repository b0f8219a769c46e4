---------------------------- MODULE MCTurnReplies ----------------------------
\* Instances of TurnReplies and SpokenBubble for TLC.
EXTENDS SpokenBubble

User(n) == [by |-> "user", size |-> n]
Character(n) == [by |-> "character", size |-> n]

MCHistories == {<<>>, <<User(1), Character(2)>>,
                <<User(1), User(2), Character(1), Character(3)>>}
Part(priority, required, size, budget) ==
    [priority |-> priority, required |-> required, size |-> size, budget |-> budget]
\* In the order of the caller: the rules, the memory of the room, and a directive that outranks it.
MCSections ==
    {<<Part(10, TRUE, 2, 3), Part(60, FALSE, n, 3), Part(40, FALSE, d, 2)>> :
        n \in {0, 2, 4}, d \in {0, 1, 3}}
CommandLists == SeqOf(Targets, 2) \union
    {<<"first_bubble", "all_bubbles", "last_bubble">>, <<"all_bubbles", "all_bubbles", "all_bubbles">>}
NoControl == [action |-> "none", match |-> {}, given |-> {}]
Quiet(silent, min, max, commands) ==
    [members |-> {1, 2}, silent |-> silent, min |-> min, max |-> max, commands |-> commands,
     sender |-> 0, recent |-> {}, control |-> NoControl]
\* A room of three, one more than is answered as a whole.
Larger(silent, sender, recent, control) ==
    [members |-> {1, 2, 3}, silent |-> silent, min |-> 1, max |-> 1, commands |-> <<>>,
     sender |-> sender, recent |-> recent, control |-> control]
Controls == {NoControl, [action |-> "progress", match |-> {2, 3}, given |-> {}],
             [action |-> "start", match |-> {}, given |-> {1, 3}]}
MCRooms ==
    {Quiet(silent, 1, max, <<>>) : silent \in SUBSET {1, 2}, max \in {1, 2}} \union
    {Quiet({}, 2, 2, <<>>)} \union
    {Quiet({}, 1, 2, commands) : commands \in CommandLists} \union
    {Larger(silent, sender, recent, NoControl) :
        silent \in {{}, {1}}, sender \in {0, 3}, recent \in {{}, {1}, {1, 2}}} \union
    {Larger({}, 0, recent, control) : recent \in {{}, {1}, {1, 2}}, control \in Controls}

\* Every identity with plain text, every text with a plain identity; in a room of two the third
\* character is a stranger.
Said(id, name, text) == [type |-> "character", id |-> id, name |-> name, text |-> text]
MCReplies ==
    {Said(id, name, "speech") : id \in {0, 1, 2, Stranger, Mock}, name \in {0, 1, 2, Stranger}} \union
    {Said(3, 0, "speech"), Said(0, 3, "speech")} \union
    {Said(1, 1, text) : text \in Texts} \union
    [type : {"storytelling"}, id : {0}, name : {0}, text : {"speech", "token"}] \union
    [type : {"event"}, id : {1}, name : {1}, text : {"speech"}]

MCFollowed == {<<Quiet({}, 1, 1, <<>>), Said(1, 1, "speech")>>}
MCDealings == "edit" :> 2 @@ "speak" :> 3 @@ "voice" :> 1 @@ "crash" :> 1
=============================================================================

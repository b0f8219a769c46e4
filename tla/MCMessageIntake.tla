--------------------------- MODULE MCMessageIntake ---------------------------
\* Instances of MessageIntake, with the browser of RoomClient, for TLC.
EXTENDS RoomClient, TLC

CONSTANTS talk, shout, start, rival, finish, call, stage, c1, c2

Control(action, match, a, b, who) == [action |-> action, match |-> match, a |-> a, b |-> b, who |-> who]
Text(via, speaker, command, text) ==
    [via |-> via, speaker |-> speaker, command |-> command, text |-> text, control |-> None]
Battle(via, speaker, control) ==
    [via |-> via, speaker |-> speaker, command |-> None, text |-> TRUE, control |-> control]

MCPayload ==
    talk   :> Text("jobs", "user", c1, TRUE) @@
    shout  :> Text("messages", "user", c2, FALSE) @@
    start  :> Battle("jobs", "user", Control("start", 0, 1, 2, Nobody)) @@
    rival  :> Battle("jobs", "user", Control("start", 0, 1, 3, Nobody)) @@
    finish :> Battle("messages", "user", Control("end", 0, 0, 0, 1)) @@
    call   :> Battle("messages", "system", Control("cancel", 1, 0, 0, Nobody)) @@
    stage  :> Battle("messages", "user", Control("progress", 0, 0, 0, 2))

Mix(deliver, browse, clear, switch, delete, crash) ==
    "deliver" :> deliver @@ "browse" :> browse @@ "clear" :> clear @@ "switch" :> switch @@
    "delete" :> delete @@ "crash" :> crash
MCMixes == {Mix(5, 0, 0, 0, 0, 0), Mix(4, 0, 0, 0, 1, 1), Mix(3, 0, 2, 1, 0, 0), Mix(0, 3, 0, 0, 1, 1)}
=============================================================================

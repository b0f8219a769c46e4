----------------------------- MODULE MCMigration -----------------------------
\* Instances of Migration for TLC: two rooms, the second with messages of its own.
EXTENDS Migration, TLC

CONSTANTS room1, room2, m1, m2, m3

MCRoomOf == m1 :> room1 @@ m2 :> room1 @@ m3 :> room2
MCFurnished == room1 :> {1} @@ room2 :> {}
MCBudget == "edit" :> 2 @@ "export" :> 2 @@ "apply" :> 2 @@ "break" :> 2
=============================================================================

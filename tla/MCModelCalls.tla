----------------------------- MODULE MCModelCalls -----------------------------
\* Instances of ModelCalls for TLC.
EXTENDS ModelCalls, TLC

CONSTANTS turn, task, main, spare

\* One turn and one task share both clients; the task folds in three stages, and the
\* client that is the fallback of the turn is its only one.
MCRoutes ==
    turn :> [fold |-> <<main>>, reply |-> <<main, spare>>, command |-> <<main>>] @@
    task :> [fold |-> <<spare>>, reply |-> <<main>>, command |-> <<main>>]
MCStages == turn :> 1 @@ task :> 3
MCCommands == turn :> 1
=============================================================================

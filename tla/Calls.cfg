SPECIFICATION FairSpec
CONSTANTS
    turn = turn
    task = task
    main = main
    spare = spare
    Clients = {main, spare}
    Turns = {turn}
    Tasks = {task}
    Routes <- MCRoutes
    Stages <- MCStages
    Commands <- MCCommands
    Threshold = 2
    CoolDown = 2
    Tries = 2
    MaxCatchUp = 1
INVARIANTS
    BoundedSpending
    NoEarlySurrender
    RowsTellTheTruth
PROPERTIES
    ServedAgain

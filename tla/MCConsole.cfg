SPECIFICATION ConsoleSpec
CONSTANTS
    Esc = Esc
    Quit = Quit
    Plain = {Other}
    BatchSize = 3
    MaxTyped = 5
CHECK_DEADLOCK FALSE
INVARIANTS
    BatchingInvisible
PROPERTIES
    QuitLeaves

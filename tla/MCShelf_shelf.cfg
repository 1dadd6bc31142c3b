SPECIFICATION ShelfSpec
CONSTANTS
    main = main
    side = side
    ask = ask
    other = other
    Blank = Blank
    NoTask = NoTask
    Tasks <- TwoTasks
    Texts <- SomeTexts
    Faults = {"probe", "write", "read", "refuse", "late", "restart"}
    MaxFaults = 3
INVARIANTS
    TextKept
    SentAsWritten
PROPERTIES
    ClearedOnlyWhenQueued

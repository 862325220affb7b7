SPECIFICATION Spec
CONSTANTS
    factory = factory
    updateA = updateA
    updateB = updateB
    tooLong = tooLong
    Images <- MCImages
    For <- MCFor
    Length <- MCLength
    Factory = factory
    BankSize = 2
    Entries <- MCEntries
    Repeats = FALSE
    Faults = {"bank erase", "bank write", "table erase"}
    TornTable = FALSE
    NoImage = NoImage
    Erased = Erased
    MaxSessions = 3
INVARIANTS
    TypeOK
    FinishedIsActive
    NotLeftWaiting

    

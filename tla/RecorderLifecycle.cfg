SPECIFICATION FairSpec
CONSTANTS
    Call = {c1, c2}
    Feedback = {c2}
    SameKey = {c1, c2}
    CanEnd = {c2}
    Flusher = {f1}
    Closer = {d1}
    CanExpire = {f1}
    MayLeak = TRUE
    Handful = 2
INVARIANTS
    NothingRetained
    CleanCloseDrains
    LossesCounted
    TakenOnce
PROPERTIES
    ImplementsReservations
    DrainReturns
    NothingLingers

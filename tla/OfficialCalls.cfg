SPECIFICATION FairSpec
CONSTANTS
    Call = {c1, c2}
    Attempt = {a1, a2}
    Flusher = {}
    Closer = {d1}
    CanExpire = {d1}
    Straggler = {c2}
    SeedPanics = {c2}
INVARIANTS
    SettledOnReturn
    AcknowledgedIsDelivered
PROPERTIES
    ImplementsReservations
    DrainReturns

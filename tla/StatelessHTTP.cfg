SPECIFICATION Spec
CHECK_DEADLOCK FALSE
CONSTANTS
    c1 = c1  i1 = i1  i2 = i2  k1 = k1  n1 = n1  d1 = d1  d2 = d2
    Conversation = {c1}
    Handshake = {i1, i2}
    ToolCall = {k1}
    Of <- Owners
    Client <- Clients
    SeedHeader = {d1, d2}
    UUIDSeeds = {d1}
    Hinted = {i2}
    Deployments = {"repair", "context", "resolve", "again"}
    Forged = Forged
    None = None
INVARIANTS
    HandshakeNamesItsSession
    CallsJoinTheirHandshake
    SeedKeepsOneSession

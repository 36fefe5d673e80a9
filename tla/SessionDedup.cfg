SPECIFICATION FairSpec
CONSTANTS
    h1 = h1  h2 = h2  q1 = q1  d1 = d1
    s1 = s1  k1 = k1  k2 = k2  a1 = a1  a2 = a2
    NoKey = NoKey
    NoActor = NoActor
    Queued = {h1, h2, q1}
    Direct = {d1}
    Inits = {h1, h2}
    ConnOf <- Conns
    KeyOf <- Keys
    ActorOf <- Actors
    MaxKeys = 1
    MaxActors = 1
    Capacity = 2
    Handful = 2
    Panics = TRUE
    Lossy = TRUE
INVARIANTS
    KeysAgree
    DedupExact
PROPERTY EachCallIntroduced

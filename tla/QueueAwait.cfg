SPECIFICATION FairSpec
CONSTANTS
    Item = {i1, i2, i3}
    Flusher = {}
    Closer = {c1}
    Worker = {w1, w2}
    Cancellable = {i1}
    Capacity = 1
    BatchSize = 1
    AwaitDelivery = TRUE
INVARIANT
    AwaitedIsHandled
PROPERTIES
    CallsReturn

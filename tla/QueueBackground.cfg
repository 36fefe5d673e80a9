SPECIFICATION Spec
CONSTANTS
    Item = {i1, i2, i3, i4}
    Flusher = {f1}
    Closer = {c1}
    Worker = {w1, w2}
    Cancellable = {f1}
    Capacity = 2
    BatchSize = 2
    AwaitDelivery = FALSE
SYMMETRY Symmetry
INVARIANTS
    SingleWorker
    NothingStranded
    DrainCoversEarlier
    DropsCounted
PROPERTIES
    QuietAfterClose
    ImplementsPipe

SPECIFICATION Spec
CONSTANTS
    Call = {c1, c2}
    Feedback = {c2}
    SameKey = {}
    CanEnd = {c2}
    Flusher = {}
    Closer = {d1}
    CanExpire = {}
    MayLeak = FALSE
    Handful = 2
INVARIANT AcknowledgedIsDelivered

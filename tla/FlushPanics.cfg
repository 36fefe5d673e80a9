SPECIFICATION Spec
CONSTANTS
    Call = {c1, c2}
    Feedback = {c1, c2}
    SameKey = {}
    CanEnd = {}
    Flusher = {f1}
    Closer = {d1}
    CanExpire = {}
    MayLeak = FALSE
    Handful = 2
INVARIANT FlushReturnsNormally

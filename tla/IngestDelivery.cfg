SPECIFICATION Spec
CONSTANTS
    MaxAttempts = 2
    Timeout = 2
    RetryDelay = 1
    OwnDeadlines = {0, 1, 3, 9}
    EventCounts = {0, 2}
INVARIANTS
    BudgetCoversRetry
    ReturnsInTime
    ReportIsTrue

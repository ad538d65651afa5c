SPECIFICATION Spec
CONSTANTS
    r1 = r1
    r2 = r2
    p1 = p1
    Receipts = {r1, r2}
    Parts = {p1}
    ImageBytes = 2
    StorageLimit = 4
    DailyLimit = 1
    MaxDay = 2
    CommitAnswers = {"committed"}
    CleanDuringCompletion = FALSE
SYMMETRY Symmetry
INVARIANT DailyLimitHolds
CHECK_DEADLOCK FALSE

SPECIFICATION Spec
CONSTANTS
    r1 = r1
    r2 = r2
    p1 = p1
    Receipts = {r1}
    Parts = {p1}
    ImageBytes = 2
    StorageLimit = 3
    DailyLimit = 1
    MaxDay = 1
    CommitAnswers = {"committed"}
    CleanDuringCompletion = TRUE
INVARIANT ImageDurable
CHECK_DEADLOCK FALSE

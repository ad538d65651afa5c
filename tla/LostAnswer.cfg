SPECIFICATION SyncFairSpec
CONSTANTS
    r1 = r1
    p1 = p1
    p2 = p2
    w1 = w1
    w2 = w2
    Receipts = {r1}
    Parts = {p1, p2}
    Workers = {w1}
    ImageBytes = 1
    StorageLimit = 2
    DailyLimit = 1
    MaxDay = 1
    CommitAnswers = {"committed"}
    CleanDuringCompletion = FALSE
PROPERTY UploadResumes
CHECK_DEADLOCK FALSE

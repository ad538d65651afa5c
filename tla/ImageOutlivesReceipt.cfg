SPECIFICATION PlaneSpec
CONSTANTS
    u1 = u1  u2 = u2  d1 = d1  d2 = d2  c1 = c1  c2 = c2
    a = a  b = b  r1 = r1  r2 = r2  j1 = j1  j2 = j2  n1 = n1  n2 = n2
    h1 = h1  h2 = h2  h3 = h3  l1 = l1  l2 = l2  l3 = l3
    o1 = o1  o2 = o2  edge = edge  console = console
    Users <- MCUsers
    Founder = u1
    Devices <- MCDevices
    Codes <- MCCodes
    DeviceLimits <- MCDeviceLimits
    Reviewers <- MCReviewers
    Receipts <- MCReceipts
    Jobs <- MCJobs
    Nonces <- MCNonces
    Handlers <- MCHandlers
    RequestIds <- MCRequestIds
    Logins <- MCLogins
    RecoveryCodes <- MCRecoveryCodes
    Operators <- MCOperators
    Edge = edge
    TestConsole = console
    Workloads <- RetentionWorkload
    MaxClock = 5
    MaxVersion = 3
    RequestLimit = 1
    MaxMinute = 12
    MaxFailed = 2
    MaxPeriod = 2
    MaxRotations = 2
INVARIANTS
    UndeletedImageKeepsReceipt
CHECK_DEADLOCK FALSE

SPECIFICATION FairSpec
CONSTANTS
    r1 = r1
    None = None
    m1 = m1
    m2 = m2
    w1 = w1
    w2 = w2
    Receipts = {r1}
    Workers = {w1}
    Deployments <- LocalPilot
    Slots = {m1}
    MaxReceives = 2
    MaxDeliveries = 2
    MaxStageAttempts = 2
    MaxVersion = 3
PROPERTY EnrichmentEnds

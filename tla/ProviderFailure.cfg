SPECIFICATION Spec
CONSTANTS
    r1 = r1
    None = None
    m1 = m1
    m2 = m2
    w1 = w1
    w2 = w2
    Receipts = {r1}
    Workers = {w1}
    Deployments <- Production
    Slots = {m1}
    MaxReceives = 5
    MaxDeliveries = 1
    MaxStageAttempts = 5
    MaxVersion = 3
INVARIANT ProviderFailureReviewed

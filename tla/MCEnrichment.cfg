SPECIFICATION Spec
CONSTANTS
    r1 = r1
    None = None
    m1 = m1
    m2 = m2
    w1 = w1
    w2 = w2
    Receipts = {r1}
    Workers = {w1, w2}
    Deployments <- AllDeployments
    Slots = {m1, m2}
    MaxReceives = 2
    MaxDeliveries = 1
    MaxStageAttempts = 2
    MaxVersion = 3
SYMMETRY Symmetry
INVARIANTS
    TypeOK
    FinalResultPublished
    NoSilentLoss
    OneProviderRun
PROPERTIES
    CompletedStagesKept
    ImplementsEnrichmentLog

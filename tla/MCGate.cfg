SPECIFICATION FairSpec
CONSTANTS
    t1 = t1
    t2 = t2
    t3 = t3
    m1 = m1
    m2 = m2
    m3 = m3
    i1 = i1
    i2 = i2
    w1 = w1
    w2 = w2
    Task = {t1, t2, t3}
    Model = {m1, m2, m3}
    Instance = {}
    Kind <- KindGate
    ModelOf <- ModelGate
    LeaseTicks = 2
    RetryTicks = 0
    MaxAttempts = 1
    AttemptCap = 1
    FailureCap = 1
    Notes = {"other", "fixed"}
    Worker = {w1}
    Nobody = Nobody
    IdleTicks = 1
    Tries = 1
    Disturbances = 1
PROPERTIES
    OneByOne
    ConfirmedReleased

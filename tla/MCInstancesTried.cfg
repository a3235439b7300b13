SPECIFICATION WorkersSpec
CONSTANTS
    t1 = t1
    t2 = t2
    t3 = t3
    m1 = m1
    m2 = m2
    m3 = m3
    i1 = i1
    i2 = i2
    w1 = w1
    w2 = w2
    Task = {t1, t2}
    Model = {m1, m2}
    Instance = {i1, i2}
    Kind <- KindMerge
    ModelOf <- ModelStages
    LeaseTicks = 2
    RetryTicks = 0
    MaxAttempts = 2
    AttemptCap = 2
    FailureCap = 1
    Notes = {"other", "fixed"}
    Worker = {w1, w2}
    Nobody = Nobody
    IdleTicks = 1
    Tries = 2
    Disturbances = 1
PROPERTIES
    InstancesTried

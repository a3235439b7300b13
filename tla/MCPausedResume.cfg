SPECIFICATION Spec
CONSTANTS
    t1 = t1
    t2 = t2
    t3 = t3
    m1 = m1
    m2 = m2
    i1 = i1
    i2 = i2
    Task = {t1, t2, t3}
    Model = {m1, m2}
    Instance = {}
    Kind <- KindRetry
    ModelOf <- ModelRetry
    LeaseTicks = 1
    RetryTicks = 0
    MaxAttempts = 2
    AttemptCap = 2
    FailureCap = 1
    Notes = {"other", "fixed", "daily"}
INVARIANTS
    PausedCanResume

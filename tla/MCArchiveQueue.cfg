SPECIFICATION Spec
CONSTANTS
    t1 = t1
    t2 = t2
    t3 = t3
    m1 = m1
    m2 = m2
    i1 = i1
    i2 = i2
    Task = {t1, t2, t3}
    Model = {m1, m2}
    Instance = {i1}
    Kind <- KindRetry
    ModelOf <- ModelRetry
    LeaseTicks = 1
    RetryTicks = 0
    MaxAttempts = 1
    AttemptCap = 1
    FailureCap = 1
    Notes = {"other", "daily"}
INVARIANTS
    TypeOK
    NoDuplicateWork
SYMMETRY Symmetry
PROPERTIES
    QueueKeeps

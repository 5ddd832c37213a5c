SPECIFICATION Spec
CONSTANTS
    t1 = t1  o1 = o1  o2 = o2  w1 = w1  w2 = w2
    Op = {o1, o2}
    Worker = {w1, w2}
    Tenant = {t1}
    TenantOf <- AllOfT1
    ConcurrencyLimit <- LimitOne
    ExecutionMode <- AllCloud
    MaxAttempts <- SameBudget
    HasDeadline = {}
    Budget = 1
    MaxRedrives = 0
    MaxFaults = 0
    NoWorker = NoWorker
PROPERTY
    RefusedIsRetried
CHECK_DEADLOCK FALSE

SPECIFICATION MCSpec
CONSTANTS
    t1 = t1  o1 = o1  o2 = o2  w1 = w1  w2 = w2
    Op = {o1, o2}
    Worker = {w1, w2}
    Tenant = {t1}
    TenantOf <- AllOfT1
    ConcurrencyLimit <- LimitOne
    ExecutionMode <- O2Private
    MaxAttempts <- SameBudget
    HasDeadline = {o1}
    Budget = 2
    MaxRedrives = 0
    MaxFaults = 1
    NoWorker = NoWorker
INVARIANTS
    TypeOK
    LeaseIffRunning
    SuccessChargedOnce
    NeverAckedAway
PROPERTIES
    SettledOrAbandoned
    LifecycleSteps
CHECK_DEADLOCK FALSE

SPECIFICATION Spec
CONSTANTS
    t1 = t1  t2 = t2  o1 = o1  o2 = o2  w1 = w1  w2 = w2
    Op = {o1, o2}
    Worker = {w1}
    Tenant = {t1, t2}
    TenantOf <- O2OfT2
    ConcurrencyLimit <- LimitOne
    ExecutionMode <- AllPrivate
    MaxAttempts <- SameBudget
    WorkerTenant <- WorkersOfT1
    Budget = 1
    MaxRedrives = 1
    MaxFaults = 1
    BatchSize = 2
    NoWorker = NoWorker
    NoOp = NoOp
INVARIANTS
    TypeOK
    LeaseIffRunning
    EventsFollowOutcome
PROPERTIES
    LifecycleSpec

SPECIFICATION Spec
CONSTANTS
    o1 = o1  o2 = o2  o3 = o3  o4 = o4
    t1 = t1  t2 = t2
    Op <- MCOp
    Tenant <- MCTenant
    TenantOf <- MCTenantOf
    ConcurrencyLimit <- MCLimit
    Claimer = {x1, x2}
    NoOp = NoOp
INVARIANTS
    TypeOK
    RunningWithinLimit
    CountNotBelow
    TargetStaysClaimable
PROPERTIES
    ClaimEnds
    LifecycleSpec
CHECK_DEADLOCK FALSE

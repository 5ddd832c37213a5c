SPECIFICATION MCSpec
CONSTANTS
    adm = adm
    dem = dem
    t1 = t1
    admMail = admMail
    demMail = demMail
    Tenant = {adm, dem, t1}
    Email = {admMail, demMail}
    Key = {dk, k1}
    AdminTenant = adm
    AdminEmail = admMail
    DemoTenant = dem
    DemoEmail = demMail
    DemoKey = dk
    NoTenant = NoTenant
    Request = {q1, q2, q3}
    Offered <- MCOffered
    Window = 2
    TTL = 3
    MaxDelay = 1
    Limit = 1
    AdminLimit = 2
    MaxTime = 3
    MaxRestarts = 1
SYMMETRY Symmetry
INVARIANTS TypeOK WindowLimit ForwardedAsGranted TenantHasUser GrantsAreKept

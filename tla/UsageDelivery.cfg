SPECIFICATION Spec
CONSTANTS
    Event = {e1, e2}
    WorkerEvent = {e2}
    Endpoint = {h1}
    Replica = {u1, u2}
    Subscriber = {s1}
    Request = {r1, r2}
    NoRequest = NoRequest
    Nowhere = Nowhere
    MaxDeliveries = 2
    Capacity = 1
    MaxFaults = 1
INVARIANTS
    TypeOK
    KnownIsCharged
    SentAsCounted
PROPERTIES
    LedgerSpec
    EventuallyCharged
    WebhookSettles

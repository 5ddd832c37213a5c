--------------------------- MODULE UsageDelivery ---------------------------
(***************************************************************************)
(* The way of one tenant's events after their operations are settled: the  *)
(* dispatcher of operations.event_outbox (cmd/operations/main.go) sends    *)
(* them to the Usage service (cmd/usage/main.go), which charges them in    *)
(* its ledger, writes a row for each webhook endpoint in the same          *)
(* transaction, publishes them to live subscribers, and sends the rows to  *)
(* the endpoints.  Cloud workers (cmd/worker/main.go) post events of their *)
(* own, under keys of their own.  The Usage service may run several        *)
(* replicas.                                                               *)
(***************************************************************************)
EXTENDS Naturals, Sequences, FiniteSets

CONSTANTS Event, Endpoint, Replica, Subscriber,
          WorkerEvent,     \* bound: the events a worker may post itself
          Request,         \* requests to POST /internal/events, a bound
          NoRequest,
          Nowhere,         \* no replica
          MaxDeliveries,   \* attempts of one webhook row, 8 in deliver
          Capacity,        \* of a subscriber's channel, 16 in events
          MaxFaults        \* bound: failures of the environment

ASSUME Outside == NoRequest \notin Request /\ Nowhere \notin Replica
ASSUME WorkerEventType == WorkerEvent \subseteq Event
ASSUME NumbersType == MaxDeliveries \in Nat \ {0} /\ Capacity \in Nat /\ MaxFaults \in Nat

VARIABLES outbox,         \* the status column of operations.event_outbox
          emitted,        \* events that cloud workers have posted themselves
          batch,          \* events the dispatcher has selected, not sent yet
          current,        \* the request the dispatcher is waiting for
          request,        \* each request: how far recordEvent is with it
          ledger,         \* the event keys of usage.ledger
          endpoint,       \* the rows of usage.webhook_endpoints
          webhook_outbox, \* the rows of usage.webhook_outbox
          inhand,         \* the rows each replica's dispatcher has picked
          subscriber,     \* live connections: the replica and what is queued
          faults          \* how many failures have happened

outboxVars == <<outbox, emitted, batch, current>>
hookVars == <<webhook_outbox, inhand>>
vars == <<outboxVars, request, ledger, endpoint, hookVars, subscriber, faults>>

\* "inserted" and "fanned" are inside the transaction that wrote the ledger.
Free == [pc |-> "free"]
Requests == {Free} \cup
    [pc : {"received", "inserted", "duplicate", "fanned", "committed", "ok", "error"},
     event : Event, at : Replica, hooks : SUBSET Endpoint]

\* A row is named by its event, its endpoint and a number that tells two rows
\* of both apart.  sent: how many requests its endpoint got (not a column).
RowId == Event \X Endpoint \X Nat
HookRow == [status : {"PENDING", "IN_FLIGHT", "DELIVERED", "DEAD_LETTERED"},
            attempt : 0..MaxDeliveries, sent : Nat]

TypeOK ==
    /\ outbox \in [Event -> {"NONE", "PENDING", "DELIVERED"}]
    /\ emitted \subseteq {e \in Event : outbox[e] = "NONE"}
    /\ batch \subseteq Event
    /\ current \in Request \cup {NoRequest}
    /\ request \in [Request -> Requests]
    /\ ledger \subseteq Event
    /\ endpoint \in [Endpoint -> {"none", "enabled", "deleted"}]
    /\ DOMAIN webhook_outbox \subseteq RowId
    /\ \A id \in DOMAIN webhook_outbox : webhook_outbox[id] \in HookRow
    /\ inhand \in [Replica -> SUBSET (RowId \X Nat)]
    /\ \A s \in Subscriber : /\ subscriber[s].at \in Replica \cup {Nowhere}
                             /\ subscriber[s].queue \in Seq(Event)
                             /\ Len(subscriber[s].queue) <= Capacity
    /\ faults \in 0..MaxFaults

Init ==
    /\ outbox = [e \in Event |-> "NONE"]
    /\ emitted = {}
    /\ batch = {}
    /\ current = NoRequest
    /\ request = [r \in Request |-> Free]
    /\ ledger = {}
    /\ endpoint = [h \in Endpoint |-> "none"]
    /\ webhook_outbox = [id \in {} |-> {}]
    /\ inhand = [u \in Replica |-> {}]
    /\ subscriber = [s \in Subscriber |-> [at |-> Nowhere, queue |-> << >>]]
    /\ faults = 0

Fault == faults < MaxFaults /\ faults' = faults + 1

-----------------------------------------------------------------------------
(* Operations: insertEvent and dispatchEventBatch                          *)

InsertEvent(e) ==
    /\ outbox[e] = "NONE" /\ e \notin emitted
    /\ outbox' = [outbox EXCEPT ![e] = "PENDING"]
    /\ UNCHANGED <<emitted, batch, current, request, ledger, endpoint, hookVars, subscriber, faults>>

\* Pending events, without those whose next_attempt_at lies ahead.
SelectBatch ==
    /\ batch = {} /\ current = NoRequest
    /\ batch' \in SUBSET {e \in Event : outbox[e] = "PENDING"}
    /\ batch' # {}
    /\ UNCHANGED <<outbox, emitted, current, request, ledger, endpoint, hookVars, subscriber, faults>>

\* Requests are alike: a new one takes this place.
NextFree(r) == request[r] = Free /\ r = CHOOSE q \in Request : request[q] = Free

\* A request that a replica has received
Posted(e, u) == [pc |-> "received", event |-> e, at |-> u, hooks |-> {}]

Send(e, r, u) ==
    /\ e \in batch /\ current = NoRequest
    /\ NextFree(r)
    /\ batch' = batch \ {e}
    /\ current' = r
    /\ request' = [request EXCEPT ![r] = Posted(e, u)]
    /\ UNCHANGED <<outbox, emitted, ledger, endpoint, hookVars, subscriber, faults>>

\* 2xx: UPDATE ... status='DELIVERED'; its error is ignored.
Delivered(r) ==
    /\ current = r
    /\ request[r].pc = "ok"
    /\ \/ outbox' = [outbox EXCEPT ![request[r].event] = "DELIVERED"] /\ UNCHANGED faults
       \/ Fault /\ UNCHANGED outbox
    /\ current' = NoRequest
    /\ request' = [request EXCEPT ![r] = Free]
    /\ UNCHANGED <<emitted, batch, ledger, endpoint, hookVars, subscriber>>

\* The event stays PENDING and is due again after a backoff.
Postponed(r) ==
    /\ current = r
    /\ request[r].pc = "error"
    /\ current' = NoRequest
    /\ request' = [request EXCEPT ![r] = Free]
    /\ UNCHANGED <<outbox, emitted, batch, ledger, endpoint, hookVars, subscriber, faults>>

\* The client's ten seconds are over, or the answer is lost: postponed as
\* well, while the Usage service may still be at the request.
TimesOut(r) ==
    /\ current = r
    /\ Fault
    /\ current' = NoRequest
    /\ request' = [request EXCEPT ![r] = IF @.pc \in {"ok", "error"} THEN Free ELSE @]
    /\ UNCHANGED <<outbox, emitted, batch, ledger, endpoint, hookVars, subscriber>>

OperationsCrash ==
    /\ Fault
    /\ batch' = {}
    /\ current' = NoRequest
    /\ request' = [r \in Request |-> IF request[r].pc \in {"ok", "error"} THEN Free
                                                                       ELSE request[r]]
    /\ UNCHANGED <<outbox, emitted, ledger, endpoint, hookVars, subscriber>>

\* Cloud workers: emit posts an event once, with a key that no row of
\* event_outbox has, and does not look at the answer.
Emit(e, r, u) ==
    /\ e \in WorkerEvent /\ outbox[e] = "NONE" /\ e \notin emitted
    /\ NextFree(r)
    /\ emitted' = emitted \cup {e}
    /\ request' = [request EXCEPT ![r] = Posted(e, u)]
    /\ UNCHANGED <<outbox, batch, current, ledger, endpoint, hookVars, subscriber, faults>>

-----------------------------------------------------------------------------
(* Usage: recordEvent and publish                                          *)

\* Mutant: an error is answered with 202.
AnswerOk(r, pc) ==
    request' = [request EXCEPT ![r] = IF current = r THEN [@ EXCEPT !.pc = "ok"] ELSE Free]

\* The handler answers; nobody may be waiting any more.
Answer(r, pc) ==
    request' = [request EXCEPT ![r] = IF current = r THEN [@ EXCEPT !.pc = pc] ELSE Free]

\* Another transaction has inserted the event's key and not ended.
KeyLocked(e) == \E q \in Request : request[q].pc \in {"inserted", "fanned"}
                                   /\ request[q].event = e

\* Mutant: the fan-out does not depend on RowsAffected.
InsertUnchecked(r) ==
    /\ request[r].pc = "received"
    /\ ~KeyLocked(request[r].event)
    /\ request' = [request EXCEPT ![r].pc = "inserted"]
    /\ UNCHANGED <<outboxVars, ledger, endpoint, hookVars, subscriber, faults>>

\* Mutant: there is no ON CONFLICT, the INSERT of a charged event fails.
InsertStrictly(r) ==
    /\ request[r].pc = "received"
    /\ ~KeyLocked(request[r].event)
    /\ IF request[r].event \in ledger THEN Answer(r, "error")
       ELSE request' = [request EXCEPT ![r].pc = "inserted"]
    /\ UNCHANGED <<outboxVars, ledger, endpoint, hookVars, subscriber, faults>>

\* INSERT INTO usage.ledger ... ON CONFLICT(event_key) DO NOTHING
InsertLedger(r) ==
    /\ request[r].pc = "received"
    /\ ~KeyLocked(request[r].event)
    /\ request' = [request EXCEPT ![r].pc =
                     IF request[r].event \in ledger THEN "duplicate" ELSE "inserted"]
    /\ UNCHANGED <<outboxVars, ledger, endpoint, hookVars, subscriber, faults>>

\* INSERT INTO usage.webhook_outbox ... SELECT ... WHERE enabled=true
FanOut(r) ==
    /\ request[r].pc = "inserted"
    /\ request' = [request EXCEPT ![r].pc = "fanned", ![r].hooks =
                     {h \in Endpoint : endpoint[h] = "enabled"}]
    /\ UNCHANGED <<outboxVars, ledger, endpoint, hookVars, subscriber, faults>>

NewRows(r) == {<<request[r].event, h, 1 + Cardinality({id \in DOMAIN webhook_outbox :
                                     id[1] = request[r].event /\ id[2] = h})>> :
               h \in request[r].hooks}

Commit(r) ==
    /\ request[r].pc \in {"fanned", "duplicate"}
    /\ request' = [request EXCEPT ![r].pc = "committed"]
    /\ ledger' = ledger \cup {request[r].event}
    /\ webhook_outbox' = [id \in DOMAIN webhook_outbox \cup NewRows(r) |->
                            IF id \in DOMAIN webhook_outbox THEN webhook_outbox[id]
                            ELSE [status |-> "PENDING", attempt |-> 0, sent |-> 0]]
    /\ UNCHANGED <<outboxVars, endpoint, inhand, subscriber, faults>>

\* Mutant: a channel is taken to be unbounded.
QueuedAlways(s, e) == [subscriber[s] EXCEPT !.queue = Append(@, e)]

\* A full channel loses the event.
Queued(s, e) == IF Len(subscriber[s].queue) < Capacity
                THEN [subscriber[s] EXCEPT !.queue = Append(@, e)] ELSE subscriber[s]

\* publish, to the connections of this replica; a duplicate as well.
Publish(r) ==
    /\ request[r].pc = "committed"
    /\ subscriber' = [s \in Subscriber |-> IF subscriber[s].at = request[r].at
                                           THEN Queued(s, request[r].event)
                                           ELSE subscriber[s]]
    /\ Answer(r, "ok")
    /\ UNCHANGED <<outboxVars, ledger, endpoint, hookVars, faults>>

\* A statement or the commit fails, or the request is cancelled because its
\* client is gone: the transaction is rolled back.  A worker's event is lost.
RecordFails(r) ==
    /\ request[r].pc \in {"received", "inserted", "duplicate", "fanned"}
    /\ \/ current = r /\ Fault
       \/ current # r /\ UNCHANGED faults
    /\ Answer(r, "error")
    /\ UNCHANGED <<outboxVars, ledger, endpoint, hookVars, subscriber>>

\* events: a connection opens, sends what is queued, and closes.
Subscribe(s, u) ==
    /\ subscriber[s].at = Nowhere
    /\ subscriber' = [subscriber EXCEPT ![s].at = u]
    /\ UNCHANGED <<outboxVars, request, ledger, endpoint, hookVars, faults>>

SendLive(s) ==
    /\ subscriber[s].queue # << >>
    /\ subscriber' = [subscriber EXCEPT ![s].queue = Tail(@)]
    /\ UNCHANGED <<outboxVars, request, ledger, endpoint, hookVars, faults>>

Unsubscribe(s) ==
    /\ subscriber[s].at # Nowhere
    /\ subscriber' = [subscriber EXCEPT ![s] = [at |-> Nowhere, queue |-> << >>]]
    /\ UNCHANGED <<outboxVars, request, ledger, endpoint, hookVars, faults>>

-----------------------------------------------------------------------------
(* Usage: webhook endpoints and the dispatcher of every replica            *)

CreateWebhook(h) ==
    /\ endpoint[h] = "none"
    /\ endpoint' = [endpoint EXCEPT ![h] = "enabled"]
    /\ UNCHANGED <<outboxVars, request, ledger, hookVars, subscriber, faults>>

\* The rows of usage.webhook_outbox reference their endpoint and stay: the
\* DELETE fails once there is one, and waits for an uncommitted one.
DeleteWebhook(h) ==
    /\ endpoint[h] = "enabled"
    /\ \A id \in DOMAIN webhook_outbox : id[2] # h
    /\ \A r \in Request : request[r].pc = "fanned" => h \notin request[r].hooks
    /\ endpoint' = [endpoint EXCEPT ![h] = "deleted"]
    /\ UNCHANGED <<outboxVars, request, ledger, hookVars, subscriber, faults>>

\* Mutant: a row with a next_attempt_at of its own is not due again.
DueUntried == {id \in DOMAIN webhook_outbox : webhook_outbox[id].status = "PENDING"
                                              /\ webhook_outbox[id].attempt = 0}

Due == {id \in DOMAIN webhook_outbox : webhook_outbox[id].status = "PENDING"}

\* Mutant: the picked rows keep their status.
PickedUnmarked == "PENDING"

\* The status a picked row is committed with
Picked == "IN_FLIGHT"

\* dispatchBatch: some rows that are due and that no other replica is picking,
\* marked IN_FLIGHT and committed.
PickRows(u) ==
    /\ inhand[u] = {}
    /\ \E R \in SUBSET Due \ {{}} :
         /\ inhand' = [inhand EXCEPT ![u] = {<<id, webhook_outbox[id].attempt>> : id \in R}]
         /\ webhook_outbox' = [id \in DOMAIN webhook_outbox |->
                                 IF id \in R
                                 THEN [webhook_outbox[id] EXCEPT !.status = Picked]
                                 ELSE webhook_outbox[id]]
    /\ UNCHANGED <<outboxVars, request, ledger, endpoint, subscriber, faults>>

\* The row after the endpoint has got it once more and, if the UPDATE finds it
\* IN_FLIGHT, with its new status and attempt.
Sent(id, status, attempt) ==
    [webhook_outbox EXCEPT ![id] =
       [status |-> IF @.status = "IN_FLIGHT" THEN status ELSE @.status,
        attempt |-> IF @.status = "IN_FLIGHT" THEN attempt ELSE @.attempt,
        sent |-> @.sent + 1]]

\* deliver: the endpoint accepts the row, or the row waits for its backoff, or
\* it is given up.
Deliver(u, id, a) ==
    /\ <<id, a>> \in inhand[u]
    /\ inhand' = [inhand EXCEPT ![u] = @ \ {<<id, a>>}]
    /\ \/ webhook_outbox' = Sent(id, "DELIVERED", webhook_outbox[id].attempt + 1)
       \/ /\ a + 1 >= MaxDeliveries
          /\ webhook_outbox' = Sent(id, "DEAD_LETTERED", a + 1)
       \/ /\ a + 1 < MaxDeliveries
          /\ webhook_outbox' = Sent(id, "PENDING", a + 1)
    /\ UNCHANGED <<outboxVars, request, ledger, endpoint, subscriber, faults>>

\* The UPDATE after the request fails; its error is ignored.
DeliverLost(u, id, a) ==
    /\ <<id, a>> \in inhand[u]
    /\ Fault
    /\ inhand' = [inhand EXCEPT ![u] = @ \ {<<id, a>>}]
    /\ webhook_outbox' = [webhook_outbox EXCEPT ![id].sent = @ + 1]
    /\ UNCHANGED <<outboxVars, request, ledger, endpoint, subscriber>>

\* A replica crashes: its transactions are rolled back, its connections are
\* gone, and nobody has the rows it had picked.
UsageCrash(u) ==
    /\ Fault
    /\ request' = [r \in Request |->
                     IF request[r].pc \in {"free", "ok", "error"} \/ request[r].at # u
                     THEN request[r]
                     ELSE IF current = r THEN [request[r] EXCEPT !.pc = "error"] ELSE Free]
    /\ inhand' = [inhand EXCEPT ![u] = {}]
    /\ subscriber' = [s \in Subscriber |->
                        IF subscriber[s].at = u THEN [at |-> Nowhere, queue |-> << >>]
                                                ELSE subscriber[s]]
    /\ UNCHANGED <<outboxVars, ledger, endpoint, webhook_outbox>>

-----------------------------------------------------------------------------
Dispatch ==
    \/ SelectBatch
    \/ \E e \in batch, r \in Request, u \in Replica : Send(e, r, u)
    \/ \E r \in Request : Delivered(r) \/ Postponed(r)

RecordEvent(r) == InsertLedger(r) \/ FanOut(r) \/ Commit(r) \/ Publish(r)

DispatchWebhooks(u) == PickRows(u) \/ \E p \in inhand[u] : Deliver(u, p[1], p[2])

Next ==
    \/ \E e \in Event : InsertEvent(e) \/ \E r \in Request, u \in Replica : Emit(e, r, u)
    \/ Dispatch
    \/ \E r \in Request : RecordEvent(r) \/ RecordFails(r) \/ TimesOut(r)
    \/ \E s \in Subscriber : SendLive(s) \/ Unsubscribe(s) \/ \E u \in Replica : Subscribe(s, u)
    \/ \E h \in Endpoint : CreateWebhook(h) \/ DeleteWebhook(h)
    \/ \E u \in Replica : \/ DispatchWebhooks(u)
                          \/ \E p \in inhand[u] : DeliverLost(u, p[1], p[2])
                          \/ UsageCrash(u)
    \/ OperationsCrash

\* The tickers of both dispatchers and the handlers run, and a request to an
\* endpoint ends within its ten seconds.  Nobody has to read its connection.
Fairness ==
    /\ WF_vars(Dispatch)
    /\ \A r \in Request : WF_vars(RecordEvent(r))
    /\ \A u \in Replica : WF_vars(DispatchWebhooks(u))

Spec == Init /\ [][Next]_vars /\ Fairness

-----------------------------------------------------------------------------
(* Properties                                                              *)

\* recordEvent and the dispatchers: however requests overlap, time out and are
\* sent again, an event is charged once with one row per endpoint, and a
\* settled row stays settled.
Ledger == INSTANCE UsageLedger
            WITH webhook <- [id \in DOMAIN webhook_outbox |-> webhook_outbox[id].status]
LedgerSpec == Ledger!Spec

\* recordEvent answers and publishes after its commit: what Operations takes
\* for delivered, a subscriber is shown, or a webhook row is about, is charged.
KnownIsCharged ==
    /\ \A e \in Event : outbox[e] = "DELIVERED" => e \in ledger
    /\ \A s \in Subscriber : \A i \in 1..Len(subscriber[s].queue) :
          subscriber[s].queue[i] \in ledger
    /\ \A id \in DOMAIN webhook_outbox : id[1] \in ledger

Holders(id) == {u \in Replica : \E p \in inhand[u] : p[1] = id}

\* A row is IN_FLIGHT and no dispatcher has it.
Stranded(id) == webhook_outbox[id].status = "IN_FLIGHT" /\ Holders(id) = {}

\* dispatchBatch and deliver: no two replicas have the same row, an endpoint
\* gets it once per counted attempt, at most once more if the count was lost,
\* and only a failure strands a row.
SentAsCounted ==
    \A id \in DOMAIN webhook_outbox :
        /\ Cardinality(Holders(id)) <= 1
        /\ \/ webhook_outbox[id].sent = webhook_outbox[id].attempt
           \/ webhook_outbox[id].sent = webhook_outbox[id].attempt + 1 /\ Stranded(id)
        /\ Stranded(id) => faults > 0

\* Every event of event_outbox is charged and confirmed in the end: lost answers,
\* lost updates, crashes and full subscribers only delay it.
EventuallyCharged ==
    \A e \in Event : outbox[e] = "PENDING" ~> outbox[e] = "DELIVERED" /\ e \in ledger

Has(id, status) == id \in DOMAIN webhook_outbox /\ webhook_outbox[id].status = status

\* Every webhook row is delivered or given up, or a failure has stranded it.
WebhookSettles ==
    \A id \in Event \X Endpoint \X {1} :
        Has(id, "PENDING") ~> \/ Has(id, "DELIVERED")
                              \/ Has(id, "DEAD_LETTERED")
                              \/ Has(id, "IN_FLIGHT") /\ Holders(id) = {}
=============================================================================

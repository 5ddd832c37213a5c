-------------------------- MODULE UsageDeliveryProofs --------------------------
(***************************************************************************)
(* Safety of the delivery of events to the Usage service and its webhooks, *)
(* for any number of events, endpoints, requests, replicas and failures.   *)
(***************************************************************************)
EXTENDS UsageDelivery, FiniteSetTheorems, TLAPS

Recording(r) == request[r].pc \in {"inserted", "fanned"}

\* An event of event_outbox or of a worker
Known(e) == outbox[e] # "NONE" \/ e \in emitted

\* A request is about a known event.  An event is charged, or about to be
\* charged by one request.
RequestOK ==
    /\ \A r \in Request : request[r].pc # "free" =>
          /\ request[r].event \in Event /\ Known(request[r].event)
          /\ request[r].pc \in {"duplicate", "committed", "ok"} => request[r].event \in ledger
          /\ request[r].pc \in {"received", "duplicate"} => request[r].hooks = {}
    /\ \A r \in Request : Recording(r) =>
          /\ request[r].event \notin ledger
          /\ \A q \in Request : Recording(q) /\ request[q].event = request[r].event => q = r

\* The dispatcher of Operations waits for a request about an event of its own.
CurrentOK ==
    \A r \in Request : current = r =>
        request[r].pc # "free" /\ outbox[request[r].event] # "NONE"

RequestTypeOK ==
    /\ outbox \in [Event -> {"NONE", "PENDING", "DELIVERED"}]
    /\ emitted \subseteq {e \in Event : outbox[e] = "NONE"}
    /\ batch \subseteq {e \in Event : outbox[e] # "NONE"}
    /\ current \in Request \cup {NoRequest}
    /\ request \in [Request -> Requests]
    /\ ledger \subseteq {e \in Event : Known(e)}
    /\ endpoint \in [Endpoint -> {"none", "enabled", "deleted"}]
    /\ \A e \in Event : outbox[e] = "DELIVERED" => e \in ledger

RequestInv == RequestTypeOK /\ RequestOK /\ CurrentOK

\* The rows of webhook_outbox are of charged events.
RowsCharged == \A id \in DOMAIN webhook_outbox : id[1] \in ledger

Held(id) == \E u \in Replica : \E p \in inhand[u] : p[1] = id

HookTypeOK ==
    /\ DOMAIN webhook_outbox \subseteq RowId
    /\ webhook_outbox \in [DOMAIN webhook_outbox -> HookRow]
    /\ inhand \in [Replica -> SUBSET (RowId \X Nat)]
    /\ faults \in 0..MaxFaults

\* A row was sent as often as its attempts say, or once more while it is left
\* IN_FLIGHT to nobody.  Only a failure leaves one so.
RowOK(id) ==
    /\ \/ webhook_outbox[id].sent = webhook_outbox[id].attempt
       \/ /\ webhook_outbox[id].sent = webhook_outbox[id].attempt + 1
          /\ webhook_outbox[id].status = "IN_FLIGHT" /\ ~Held(id)
    /\ webhook_outbox[id].status \in {"PENDING", "IN_FLIGHT"} =>
          webhook_outbox[id].attempt < MaxDeliveries
    /\ webhook_outbox[id].status = "IN_FLIGHT" => Held(id) \/ faults > 0

\* A row in hand is IN_FLIGHT, with the attempt it was picked with, and in no
\* other hand.
HandOK(u, p) ==
    /\ p[1] \in DOMAIN webhook_outbox
    /\ webhook_outbox[p[1]].status = "IN_FLIGHT"
    /\ webhook_outbox[p[1]].attempt = p[2]
    /\ \A v \in Replica : \A q \in inhand[v] : p[1] = q[1] => u = v

\* The webhook dispatchers
HookInv ==
    /\ HookTypeOK
    /\ \A id \in DOMAIN webhook_outbox : RowOK(id)
    /\ \A u \in Replica : \A p \in inhand[u] : HandOK(u, p)

\* What is queued for a subscriber is charged.
SubscriberInv ==
    /\ subscriber \in [Subscriber -> [at : Replica \cup {Nowhere}, queue : Seq(Event)]]
    /\ \A s \in Subscriber :
          /\ Len(subscriber[s].queue) <= Capacity
          /\ \A i \in 1..Len(subscriber[s].queue) : subscriber[s].queue[i] \in ledger

IInv == RequestInv /\ RowsCharged /\ HookInv /\ SubscriberInv

-----------------------------------------------------------------------------
(* Requests                                                                *)

\* One request changes.
LEMMA RequestMoved ==
    ASSUME RequestInv, NEW r \in Request, NEW a \in Requests,
           request' = [request EXCEPT ![r] = a], UNCHANGED <<outbox, ledger>>,
           emitted \subseteq emitted',
           \A q \in Request \ {r} : current' = q => current = q,
           current' = r => a.pc # "free" /\ outbox[a.event] # "NONE",
           a.pc # "free" =>
              /\ a.event \in Event /\ (outbox[a.event] # "NONE" \/ a.event \in emitted')
              /\ a.pc \in {"duplicate", "committed", "ok"} => a.event \in ledger
              /\ a.pc \in {"received", "duplicate"} => a.hooks = {},
           a.pc \in {"inserted", "fanned"} =>
              /\ a.event \notin ledger
              /\ \A q \in Request \ {r} : Recording(q) => request[q].event # a.event
    PROVE  request' \in [Request -> Requests] /\ RequestOK' /\ CurrentOK'
  <1>. USE DEF RequestInv, RequestTypeOK
  <1>1. request'[r] = a /\ \A q \in Request \ {r} : request'[q] = request[q]
    OBVIOUS
  <1>2. request' \in [Request -> Requests]
    OBVIOUS
  <1>3. RequestOK'
    BY <1>1 DEF RequestOK, Recording, Known
  <1>4. CurrentOK'
    BY <1>1 DEF CurrentOK
  <1>. QED
    BY <1>2, <1>3, <1>4

\* A request ends, or its waiting client gets an answer.
LEMMA RequestAnswered ==
    ASSUME RequestInv, NEW r \in Request, request[r].pc # "free",
           NEW pc \in {"ok", "error"}, pc = "ok" => request[r].event \in ledger,
           UNCHANGED <<outbox, emitted, ledger>>,
           \/ request' = [request EXCEPT ![r] = Free] /\ current' # r
           \/ request' = [request EXCEPT ![r] = [request[r] EXCEPT !.pc = pc]],
           \A q \in Request : current' = q => current = q
    PROVE  request' \in [Request -> Requests] /\ RequestOK' /\ CurrentOK'
  <1>1. request[r] \in Requests \ {Free}
    BY DEF RequestInv, RequestTypeOK, Free
  <1>2. CASE request' = [request EXCEPT ![r] = Free] /\ current' # r
    <2>1. Free \in Requests /\ Free.pc = "free"
      BY DEF Free, Requests
    <2>. QED
      BY <1>2, <2>1, RequestMoved
  <1>3. CASE request' = [request EXCEPT ![r] = [request[r] EXCEPT !.pc = pc]]
    <2>. DEFINE a == [request[r] EXCEPT !.pc = pc]
    <2>1. a \in Requests /\ a.pc = pc /\ a.event = request[r].event
      BY <1>1 DEF Requests
    <2>2. /\ a.event \in Event /\ (outbox[a.event] # "NONE" \/ a.event \in emitted')
          /\ current' = r => outbox[a.event] # "NONE"
      BY <2>1 DEF RequestInv, RequestOK, CurrentOK, Known
    <2>3. request' = [request EXCEPT ![r] = a]
      BY <1>3
    <2>. HIDE DEF a
    <2>. QED
      BY <2>1, <2>2, <2>3, RequestMoved
  <1>. QED
    BY <1>2, <1>3

\* The dispatcher of Operations, and the workers' own events
LEMMA DispatchInv ==
    ASSUME RequestInv,
           \/ \E e \in Event : InsertEvent(e)
           \/ Dispatch
           \/ \E r \in Request : TimesOut(r)
           \/ \E e \in Event, r \in Request, u \in Replica : Emit(e, r, u)
    PROVE  RequestInv'
  <1>. USE DEF RequestInv, RequestTypeOK
  <1>1. ASSUME NEW e \in Event, InsertEvent(e)
        PROVE  RequestInv'
    <2>1. outbox'[e] = "PENDING" /\ \A d \in Event \ {e} : outbox'[d] = outbox[d]
      BY <1>1 DEF InsertEvent
    <2>2. RequestTypeOK'
      BY <1>1, <2>1 DEF InsertEvent, Known
    <2>3. RequestOK'
      BY <1>1, <2>1 DEF InsertEvent, RequestOK, Recording, Known
    <2>4. CurrentOK'
      BY <1>1, <2>1 DEF InsertEvent, CurrentOK, RequestOK
    <2>. QED
      BY <2>2, <2>3, <2>4
  <1>2. CASE SelectBatch
    BY <1>2 DEF SelectBatch, RequestOK, Recording, Known, CurrentOK
  <1>3. ASSUME NEW e \in batch, NEW r \in Request, NEW u \in Replica, Send(e, r, u)
        PROVE  RequestInv'
    <2>. DEFINE a == Posted(e, u)
    <2>1. a \in Requests /\ a.pc = "received" /\ a.event = e /\ a.hooks = {}
      BY DEF Requests, Posted
    <2>2. /\ request' = [request EXCEPT ![r] = a]
          /\ UNCHANGED <<outbox, emitted, ledger, endpoint>> /\ current' = r
      BY <1>3 DEF Send
    <2>3. e \in Event /\ outbox[e] # "NONE"
      OBVIOUS
    <2>. HIDE DEF a
    <2>4. request' \in [Request -> Requests] /\ RequestOK' /\ CurrentOK'
      BY <2>1, <2>2, <2>3, RequestMoved
    <2>5. RequestTypeOK'
      BY <1>3, <2>2, <2>4 DEF Send, Known
    <2>. QED
      BY <2>4, <2>5
  <1>4. ASSUME NEW r \in Request, Postponed(r)
        PROVE  RequestInv'
    <2>1. /\ UNCHANGED <<outbox, emitted, ledger, endpoint, batch>>
          /\ current' = NoRequest /\ \A q \in Request : current' # q
      BY <1>4, Outside DEF Postponed
    <2>2. request' \in [Request -> Requests] /\ RequestOK' /\ CurrentOK'
      BY <1>4, <2>1, RequestAnswered DEF Postponed
    <2>3. RequestTypeOK'
      BY <2>1, <2>2 DEF Known
    <2>. QED
      BY <2>2, <2>3
  <1>5. ASSUME NEW r \in Request, TimesOut(r)
        PROVE  RequestInv'
    <2>1. /\ UNCHANGED <<outbox, emitted, ledger, endpoint, batch>>
          /\ current' = NoRequest /\ \A q \in Request : current' # q
      BY <1>5, Outside DEF TimesOut
    <2>2. CASE request[r].pc \in {"ok", "error"}
      <3>1. request' = [request EXCEPT ![r] = Free]
        BY <1>5, <2>2 DEF TimesOut
      <3>2. request' \in [Request -> Requests] /\ RequestOK' /\ CurrentOK'
        BY <2>1, <2>2, <3>1, RequestAnswered
      <3>. QED
        BY <2>1, <3>2 DEF Known
    <2>3. CASE request[r].pc \notin {"ok", "error"}
      <3>1. UNCHANGED request
        BY <1>5, <2>3 DEF TimesOut
      <3>. QED
        BY <2>1, <3>1 DEF RequestOK, Recording, Known, CurrentOK
    <2>. QED
      BY <2>2, <2>3
  <1>6. ASSUME NEW r \in Request, Delivered(r)
        PROVE  RequestInv'
    <2>. DEFINE e == request[r].event
    <2>1. e \in Event /\ e \in ledger /\ outbox[e] # "NONE"
      BY <1>6 DEF Delivered, RequestOK, CurrentOK
    <2>2. /\ outbox' \in [Event -> {"NONE", "PENDING", "DELIVERED"}]
          /\ \A d \in Event : \/ outbox'[d] = outbox[d]
                              \/ d = e /\ outbox'[d] = "DELIVERED"
      BY <1>6, <2>1 DEF Delivered
    <2>3. /\ UNCHANGED <<emitted, ledger, endpoint, batch>>
          /\ current' = NoRequest /\ \A q \in Request : current' # q
      BY <1>6, Outside DEF Delivered
    <2>. HIDE DEF e
    <2>4. /\ request'[r] = Free /\ request' \in [Request -> Requests]
          /\ \A q \in Request \ {r} : request'[q] = request[q]
      BY <1>6 DEF Delivered, Requests
    <2>5. RequestTypeOK'
      BY <2>1, <2>2, <2>3, <2>4 DEF Known
    <2>6. RequestOK' /\ CurrentOK'
      BY <2>2, <2>3, <2>4 DEF RequestOK, Recording, Free, Known, CurrentOK
    <2>. QED
      BY <2>5, <2>6
  <1>7. ASSUME NEW e \in Event, NEW r \in Request, NEW u \in Replica, Emit(e, r, u)
        PROVE  RequestInv'
    <2>. DEFINE a == Posted(e, u)
    <2>1. a \in Requests /\ a.pc = "received" /\ a.event = e /\ a.hooks = {}
      BY DEF Requests, Posted
    <2>2. /\ request' = [request EXCEPT ![r] = a] /\ outbox[e] = "NONE"
          /\ emitted' = emitted \cup {e}
          /\ UNCHANGED <<outbox, batch, current, ledger, endpoint>>
      BY <1>7 DEF Emit
    <2>3. e \in emitted' /\ current # r
      BY <1>7, <2>2 DEF Emit, NextFree, CurrentOK, Free
    <2>. HIDE DEF a
    <2>4. request' \in [Request -> Requests] /\ RequestOK' /\ CurrentOK'
      BY <2>1, <2>2, <2>3, RequestMoved
    <2>5. RequestTypeOK'
      BY <2>2, <2>4 DEF Known
    <2>. QED
      BY <2>4, <2>5
  <1>. QED
    BY <1>1, <1>2, <1>3, <1>4, <1>5, <1>6, <1>7 DEF Dispatch

\* Where recordEvent stands, its request has an event, a replica and hooks.
LEMMA RequestFields ==
    ASSUME RequestInv, NEW r \in Request, request[r].pc # "free"
    PROVE  /\ request[r] \in Requests /\ request[r] # Free
           /\ request[r].event \in Event /\ request[r].at \in Replica
           /\ request[r].hooks \subseteq Endpoint
  BY DEF RequestInv, RequestTypeOK, Requests, Free

\* recordEvent goes on to its next statement within the transaction.
LEMMA StatementInv ==
    ASSUME RequestInv, NEW r \in Request, InsertLedger(r) \/ FanOut(r)
    PROVE  RequestInv'
  <1>1. UNCHANGED <<outbox, emitted, batch, current, ledger, endpoint>>
    BY DEF InsertLedger, FanOut, outboxVars
  <1>2. /\ request[r] \in Requests /\ request[r] # Free /\ request[r].event \in Event
        /\ outbox[request[r].event] # "NONE" \/ request[r].event \in emitted'
        /\ current' = r => outbox[request[r].event] # "NONE"
    BY <1>1, RequestFields DEF InsertLedger, FanOut, RequestInv, RequestOK, CurrentOK, Known
  <1>3. CASE InsertLedger(r)
    <2>. DEFINE a == [request[r] EXCEPT !.pc =
                        IF request[r].event \in ledger THEN "duplicate" ELSE "inserted"]
    <2>1. /\ a \in Requests /\ a.event = request[r].event /\ a.hooks = request[r].hooks
          /\ a.pc = IF request[r].event \in ledger THEN "duplicate" ELSE "inserted"
      BY <1>2 DEF Requests
    <2>2. request' = [request EXCEPT ![r] = a]
      BY <1>3 DEF InsertLedger
    <2>3. request[r].hooks = {}
      BY <1>3 DEF InsertLedger, RequestInv, RequestOK
    <2>4. \A q \in Request : Recording(q) => request[q].event # request[r].event
      BY <1>3 DEF InsertLedger, KeyLocked, Recording
    <2>. HIDE DEF a
    <2>5. request' \in [Request -> Requests] /\ RequestOK' /\ CurrentOK'
      BY <1>1, <1>2, <2>1, <2>2, <2>3, <2>4, RequestMoved
    <2>. QED
      BY <1>1, <2>5 DEF RequestInv, RequestTypeOK, Known
  <1>4. CASE FanOut(r)
    <2>. DEFINE H == {h \in Endpoint : endpoint[h] = "enabled"}
                a == [request[r] EXCEPT !.pc = "fanned", !.hooks = H]
    <2>1. a \in Requests /\ a.event = request[r].event /\ a.pc = "fanned"
      BY <1>2 DEF Requests
    <2>2. request' = [request EXCEPT ![r] = a]
      BY <1>4 DEF FanOut, RequestInv, RequestTypeOK
    <2>3. /\ request[r].event \notin ledger
          /\ \A q \in Request \ {r} : Recording(q) => request[q].event # request[r].event
      BY <1>4 DEF FanOut, Recording, RequestInv, RequestOK
    <2>. HIDE DEF a
    <2>4. request' \in [Request -> Requests] /\ RequestOK' /\ CurrentOK'
      BY <1>1, <1>2, <2>1, <2>2, <2>3, RequestMoved
    <2>. QED
      BY <1>1, <2>4 DEF RequestInv, RequestTypeOK, Known
  <1>. QED
    BY <1>3, <1>4

\* The transaction of recordEvent commits.
LEMMA CommitInv ==
    ASSUME RequestInv, NEW r \in Request, Commit(r)
    PROVE  RequestInv'
  <1>1. /\ request[r] \in Requests /\ request[r] # Free /\ request[r].event \in Event
        /\ Known(request[r].event)
        /\ current = r => outbox[request[r].event] # "NONE"
    BY RequestFields DEF Commit, RequestInv, RequestOK, CurrentOK
  <1>. DEFINE a == [request[r] EXCEPT !.pc = "committed"]
  <1>2. a \in Requests /\ a.event = request[r].event /\ a.pc = "committed"
    BY <1>1 DEF Requests
  <1>3. /\ request' = [request EXCEPT ![r] = a]
        /\ ledger' = ledger \cup {request[r].event}
        /\ UNCHANGED <<outbox, emitted, batch, current, endpoint>>
    BY DEF Commit, outboxVars
  <1>. HIDE DEF a
  <1>4. /\ request' \in [Request -> Requests] /\ request'[r] = a
        /\ \A q \in Request \ {r} : request'[q] = request[q]
    BY <1>2, <1>3 DEF RequestInv, RequestTypeOK
  <1>5. \A q \in Request \ {r} : Recording(q) => request[q].event # request[r].event
    BY DEF Commit, Recording, RequestInv, RequestOK
  <1>6. RequestTypeOK'
    BY <1>1, <1>3, <1>4 DEF RequestInv, RequestTypeOK, Known
  <1>7. RequestOK'
    BY <1>1, <1>2, <1>3, <1>4, <1>5 DEF RequestInv, RequestOK, Recording, Known
  <1>8. CurrentOK'
    BY <1>1, <1>2, <1>3, <1>4 DEF RequestInv, CurrentOK
  <1>. QED
    BY <1>6, <1>7, <1>8 DEF RequestInv

\* recordEvent answers, after its commit or because it has failed.
LEMMA AnsweredInv ==
    ASSUME RequestInv, NEW r \in Request, Publish(r) \/ RecordFails(r)
    PROVE  RequestInv'
  <1>1. UNCHANGED <<outbox, emitted, batch, current, ledger, endpoint>>
    BY DEF Publish, RecordFails, outboxVars
  <1>2. PICK pc \in {"ok", "error"} :
          /\ Answer(r, pc)
          /\ request[r].pc # "free"
          /\ pc = "ok" => request[r].event \in ledger
    BY DEF Publish, RecordFails, RequestInv, RequestOK
  <1>3. request' \in [Request -> Requests] /\ RequestOK' /\ CurrentOK'
    <2>1. CASE current = r
      BY <1>1, <1>2, <2>1, RequestAnswered DEF Answer
    <2>2. CASE current # r
      BY <1>1, <1>2, <2>2, RequestAnswered DEF Answer
    <2>. QED
      BY <2>1, <2>2
  <1>. QED
    BY <1>1, <1>3 DEF RequestInv, RequestTypeOK, Known

\* Requests are dropped, or answered with an error.
LEMMA RequestsDropped ==
    ASSUME RequestInv, UNCHANGED <<outbox, emitted, ledger, endpoint>>,
           batch' \subseteq batch, current' \in {current, NoRequest},
           request' = [r \in Request |-> request'[r]],
           \A r \in Request :
              \/ request'[r] = request[r]
              \/ request'[r] = Free /\ current' # r
              \/ request[r].pc # "free" /\ request'[r] = [request[r] EXCEPT !.pc = "error"]
    PROVE  RequestInv'
  <1>. USE DEF RequestInv
  <1>1. ASSUME NEW r \in Request
        PROVE  /\ request'[r] \in Requests
               /\ \/ request'[r] = request[r]
                  \/ request'[r].pc = "free" /\ current' # r
                  \/ /\ request[r].pc # "free" /\ request'[r].pc = "error"
                     /\ request'[r].event = request[r].event
    <2>1. CASE request'[r] = request[r]
      BY <2>1 DEF RequestTypeOK
    <2>2. CASE request'[r] = Free /\ current' # r
      BY <2>2 DEF Requests, Free
    <2>3. CASE request[r].pc # "free" /\ request'[r] = [request[r] EXCEPT !.pc = "error"]
      <3>1. request[r] \in Requests /\ request[r] # Free
        BY <2>3, RequestFields
      <3>. QED
        BY <2>3, <3>1 DEF Requests
    <2>. QED
      BY <2>1, <2>2, <2>3
  <1>2. request' \in [Request -> Requests]
    BY <1>1
  <1>3. RequestTypeOK'
    BY <1>2 DEF RequestTypeOK, Known
  <1>4. RequestOK'
    BY <1>1 DEF RequestOK, Recording, Known
  <1>5. CurrentOK'
    BY <1>1, Outside DEF CurrentOK
  <1>. QED
    BY <1>3, <1>4, <1>5

\* Operations or a replica of Usage crashes.
LEMMA CrashInv ==
    ASSUME RequestInv, OperationsCrash \/ \E u \in Replica : UsageCrash(u)
    PROVE  RequestInv'
  <1>1. CASE OperationsCrash
    BY <1>1, RequestsDropped, Outside DEF OperationsCrash, RequestInv, RequestTypeOK
  <1>2. ASSUME NEW u \in Replica, UsageCrash(u)
        PROVE  RequestInv'
    <2>1. UNCHANGED <<outbox, emitted, batch, current, ledger, endpoint>>
      BY <1>2 DEF UsageCrash, outboxVars
    <2>2. /\ request' = [r \in Request |-> request'[r]]
          /\ \A r \in Request :
              \/ request'[r] = request[r]
              \/ request'[r] = Free /\ current # r
              \/ request[r].pc # "free" /\ request'[r] = [request[r] EXCEPT !.pc = "error"]
      BY <1>2 DEF UsageCrash
    <2>. QED
      BY <2>1, <2>2, RequestsDropped
  <1>. QED
    BY <1>1, <1>2

\* The steps of subscribers, endpoints and webhook dispatchers change no
\* request, and CreateWebhook and DeleteWebhook only an endpoint.
LEMMA NextRequestInv == RequestInv /\ [Next]_vars => RequestInv'
  <1>. SUFFICES ASSUME RequestInv, [Next]_vars PROVE RequestInv'
    OBVIOUS
  <1>1. ASSUME UNCHANGED <<outbox, emitted, batch, current, request, ledger>>,
               endpoint' \in [Endpoint -> {"none", "enabled", "deleted"}]
        PROVE  RequestInv'
    BY <1>1 DEF RequestInv, RequestTypeOK, RequestOK, Recording, Known, CurrentOK
  <1>2. endpoint \in [Endpoint -> {"none", "enabled", "deleted"}]
    BY DEF RequestInv, RequestTypeOK
  <1>3. CASE UNCHANGED vars
    BY <1>1, <1>2, <1>3 DEF vars, outboxVars
  <1>4. ASSUME NEW s \in Subscriber,
               SendLive(s) \/ Unsubscribe(s) \/ \E u \in Replica : Subscribe(s, u)
        PROVE  RequestInv'
    BY <1>1, <1>2, <1>4 DEF SendLive, Unsubscribe, Subscribe, outboxVars
  <1>5. ASSUME NEW h \in Endpoint, CreateWebhook(h) \/ DeleteWebhook(h)
        PROVE  RequestInv'
    BY <1>1, <1>2, <1>5 DEF CreateWebhook, DeleteWebhook, outboxVars
  <1>6. ASSUME NEW u \in Replica,
               DispatchWebhooks(u) \/ \E p \in inhand[u] : DeliverLost(u, p[1], p[2])
        PROVE  RequestInv'
    BY <1>1, <1>2, <1>6 DEF DispatchWebhooks, PickRows, Deliver, DeliverLost, outboxVars
  <1>. QED
    BY <1>3, <1>4, <1>5, <1>6, DispatchInv, StatementInv, CommitInv, AnsweredInv, CrashInv
       DEF Next, RecordEvent

-----------------------------------------------------------------------------
(* Webhook rows                                                            *)

\* The rows a commit adds: those of a first charge, which has none yet.
LEMMA NewRowsOfCharge ==
    ASSUME RequestInv, RowsCharged, NEW r \in Request, Commit(r)
    PROVE  /\ NewRows(r) = {request[r].event} \X request[r].hooks \X {1}
           /\ request[r].event \in Event /\ request[r].hooks \subseteq Endpoint
           /\ request[r].pc = "fanned" => request[r].event \notin ledger
           /\ request[r].pc # "fanned" =>
                 request[r].hooks = {} /\ request[r].event \in ledger
  <1>. DEFINE e == request[r].event
              Before(h) == {id \in DOMAIN webhook_outbox : id[1] = e /\ id[2] = h}
  <1>1. e \in Event /\ request[r].hooks \subseteq Endpoint
    BY RequestFields DEF Commit
  <1>2. CASE request[r].pc = "fanned"
    <2>1. e \notin ledger
      BY <1>2 DEF RequestInv, RequestOK, Recording
    <2>2. \A h : 1 + Cardinality(Before(h)) = 1
      <3>1. \A h : Before(h) = {}
        BY <2>1 DEF RowsCharged
      <3>. HIDE DEF Before
      <3>. QED
        BY <3>1, FS_EmptySet
    <2>3. NewRows(r) = {<<e, h, 1 + Cardinality(Before(h))>> : h \in request[r].hooks}
      BY DEF NewRows
    <2>. HIDE DEF Before
    <2>4. NewRows(r) = {<<e, h, 1>> : h \in request[r].hooks}
      BY <2>2, <2>3
    <2>. QED
      BY <1>1, <1>2, <2>1, <2>4
  <1>3. CASE request[r].pc # "fanned"
    BY <1>1, <1>3 DEF Commit, RequestInv, RequestOK, NewRows
  <1>. QED
    BY <1>2, <1>3

\* New rows are PENDING and untried; a row that is there stays as it is.
LEMMA CommitRows ==
    ASSUME RequestInv, RowsCharged, HookInv, NEW r \in Request, Commit(r)
    PROVE  RowsCharged' /\ HookInv'
  <1>. DEFINE new == [status |-> "PENDING", attempt |-> 0, sent |-> 0]
  <1>1. /\ NewRows(r) \subseteq RowId
        /\ \A id \in NewRows(r) : id[1] = request[r].event
    BY NewRowsOfCharge DEF RowId
  <1>2. /\ webhook_outbox' = [id \in DOMAIN webhook_outbox \cup NewRows(r) |->
                                IF id \in DOMAIN webhook_outbox THEN webhook_outbox[id]
                                                                ELSE new]
        /\ ledger' = ledger \cup {request[r].event}
        /\ UNCHANGED <<inhand, faults>>
    BY DEF Commit
  <1>3. /\ new \in HookRow /\ new.status = "PENDING" /\ new.attempt = 0 /\ new.sent = 0
        /\ 0 < MaxDeliveries
    BY NumbersType DEF HookRow
  <1>4. RowsCharged'
    BY <1>1, <1>2 DEF RowsCharged
  <1>. HIDE DEF new
  <1>5. \A id \in DOMAIN webhook_outbox' :
            \/ id \in DOMAIN webhook_outbox /\ webhook_outbox'[id] = webhook_outbox[id]
            \/ id \in RowId /\ id \notin DOMAIN webhook_outbox /\ webhook_outbox'[id] = new
    BY <1>1, <1>2
  <1>6. DOMAIN webhook_outbox \subseteq DOMAIN webhook_outbox'
    BY <1>2
  <1>7. \A id : Held(id)' = Held(id)
    BY <1>2 DEF Held
  <1>8. HookTypeOK'
    <2>1. webhook_outbox' = [id \in DOMAIN webhook_outbox' |-> webhook_outbox'[id]]
      BY <1>2
    <2>2. webhook_outbox' \in [DOMAIN webhook_outbox' -> HookRow]
      BY <1>3, <1>5, <2>1 DEF HookInv, HookTypeOK
    <2>. QED
      BY <1>2, <1>5, <2>2 DEF HookInv, HookTypeOK
  <1>9. UNCHANGED <<inhand, faults>>
    BY <1>2
  <1>10. ASSUME NEW id \in DOMAIN webhook_outbox'
         PROVE  RowOK(id)'
    <2>1. CASE id \in DOMAIN webhook_outbox /\ webhook_outbox'[id] = webhook_outbox[id]
      BY <1>7, <1>9, <2>1 DEF HookInv, RowOK
    <2>2. CASE webhook_outbox'[id] = new
      BY <1>3, <2>2 DEF RowOK
    <2>. QED
      BY <1>5, <2>1, <2>2
  <1>11. ASSUME NEW u \in Replica, NEW p \in inhand'[u]
         PROVE  HandOK(u, p)'
    <2>1. HandOK(u, p) /\ p[1] \in DOMAIN webhook_outbox
      BY <1>9 DEF HookInv, HandOK
    <2>2. webhook_outbox'[p[1]] = webhook_outbox[p[1]]
      BY <1>5, <1>6, <2>1
    <2>. QED
      BY <1>6, <1>9, <2>1, <2>2 DEF HandOK
  <1>. QED
    BY <1>4, <1>8, <1>10, <1>11 DEF HookInv

\* A failure is counted.
LEMMA FaultCounted ==
    ASSUME HookTypeOK, Fault
    PROVE  faults' \in 0..MaxFaults /\ faults' > 0
  BY NumbersType DEF HookTypeOK, Fault

\* A row in hand is named by its replica and its attempt.
LEMMA HandUnique ==
    ASSUME HookInv, NEW u \in Replica, NEW id, NEW a, <<id, a>> \in inhand[u],
           NEW v \in Replica, NEW q \in inhand[v], q[1] = id
    PROVE  v = u /\ q = <<id, a>>
  <1>1. HandOK(u, <<id, a>>) /\ HandOK(v, q)
    BY DEF HookInv
  <1>2. v = u /\ q[2] = a
    BY <1>1 DEF HandOK
  <1>3. q \in RowId \X Nat
    BY DEF HookInv, HookTypeOK
  <1>. QED
    BY <1>2, <1>3

\* No row changes hands; a failure may be counted, and hands may be emptied by
\* it.
LEMMA HandsEmptied ==
    ASSUME HookInv, UNCHANGED webhook_outbox, Fault \/ UNCHANGED faults,
           inhand' \in [Replica -> SUBSET (RowId \X Nat)],
           \A u \in Replica : inhand'[u] \subseteq inhand[u],
           UNCHANGED inhand \/ Fault
    PROVE  HookInv'
  <1>. USE DEF HookInv
  <1>1. HookTypeOK' /\ (faults > 0 => faults' > 0) /\ (Fault => faults' > 0)
    BY FaultCounted DEF HookTypeOK
  <1>2. \A id : /\ Held(id)' => Held(id)
                /\ UNCHANGED inhand => Held(id)' = Held(id)
    BY DEF Held
  <1>3. ASSUME NEW id \in DOMAIN webhook_outbox'
        PROVE  RowOK(id)'
    BY <1>1, <1>2 DEF RowOK
  <1>4. ASSUME NEW u \in Replica, NEW p \in inhand'[u]
        PROVE  HandOK(u, p)'
    BY DEF HandOK
  <1>. QED
    BY <1>1, <1>3, <1>4

\* A replica picks rows that are PENDING, and so in nobody's hand.
LEMMA PickInv ==
    ASSUME HookInv, NEW u \in Replica, PickRows(u)
    PROVE  HookInv' /\ DOMAIN webhook_outbox' = DOMAIN webhook_outbox
  <1>. USE DEF HookInv
  <1>1. PICK R \in SUBSET Due :
          /\ inhand' = [inhand EXCEPT ![u] = {<<id, webhook_outbox[id].attempt>> : id \in R}]
          /\ webhook_outbox' = [id \in DOMAIN webhook_outbox |->
                                  IF id \in R
                                  THEN [webhook_outbox[id] EXCEPT !.status = "IN_FLIGHT"]
                                  ELSE webhook_outbox[id]]
    BY DEF PickRows, Picked
  <1>2. inhand[u] = {} /\ UNCHANGED faults
    BY DEF PickRows
  <1>3. \A id \in R : /\ id \in DOMAIN webhook_outbox /\ webhook_outbox[id].status = "PENDING"
                      /\ webhook_outbox[id] \in HookRow /\ id \in RowId
    BY DEF Due, HookTypeOK
  <1>4. \A id \in DOMAIN webhook_outbox :
          /\ id \in R => /\ webhook_outbox'[id] \in HookRow
                         /\ webhook_outbox'[id].status = "IN_FLIGHT"
                         /\ webhook_outbox'[id].attempt = webhook_outbox[id].attempt
                         /\ webhook_outbox'[id].sent = webhook_outbox[id].sent
          /\ id \notin R => webhook_outbox'[id] = webhook_outbox[id]
    BY <1>1, <1>3 DEF HookRow
  <1>5. /\ DOMAIN webhook_outbox' = DOMAIN webhook_outbox
        /\ webhook_outbox' \in [DOMAIN webhook_outbox' -> HookRow]
    BY <1>1, <1>4 DEF HookTypeOK
  <1>6. /\ \A v \in Replica \ {u} : inhand'[v] = inhand[v]
        /\ inhand'[u] = {<<id, webhook_outbox[id].attempt>> : id \in R}
        /\ inhand' \in [Replica -> SUBSET (RowId \X Nat)]
    <2>1. {<<id, webhook_outbox[id].attempt>> : id \in R} \subseteq RowId \X Nat
      BY <1>3 DEF HookRow
    <2>. QED
      BY <1>1, <2>1 DEF HookTypeOK
  <1>7. HookTypeOK'
    BY <1>2, <1>5, <1>6 DEF HookTypeOK
  <1>8. ASSUME NEW id
        PROVE  Held(id)' <=> id \in R \/ Held(id)
    <2>1. id \in R <=> \E p \in inhand'[u] : p[1] = id
      <3>1. \A p \in inhand'[u] : \E i \in R : p = <<i, webhook_outbox[i].attempt>> /\ p[1] = i
        BY <1>6
      <3>2. \A i \in R : <<i, webhook_outbox[i].attempt>> \in inhand'[u]
        BY <1>6
      <3>. QED
        BY <3>1, <3>2
    <2>2. ~ \E p \in inhand[u] : p[1] = id
      BY <1>2
    <2>. QED
      BY <1>6, <2>1, <2>2 DEF Held
  <1>9. \A id \in R : ~Held(id)
    BY <1>3 DEF Held, HandOK
  <1>10. ASSUME NEW id \in DOMAIN webhook_outbox'
         PROVE  RowOK(id)'
    <2>1. RowOK(id)
      BY <1>5
    <2>2. CASE id \in R
      BY <1>3, <1>4, <1>8, <2>1, <2>2 DEF RowOK
    <2>3. CASE id \notin R
      BY <1>2, <1>4, <1>5, <1>8, <2>1, <2>3 DEF RowOK
    <2>. QED
      BY <2>2, <2>3
  <1>11. ASSUME NEW v \in Replica, NEW p \in inhand'[v]
         PROVE  HandOK(v, p)'
    <2>1. CASE v = u
      <3>1. PICK id \in R : p = <<id, webhook_outbox[id].attempt>>
        BY <1>6, <2>1
      <3>2. /\ id \in DOMAIN webhook_outbox' /\ webhook_outbox'[id].status = "IN_FLIGHT"
            /\ webhook_outbox'[id].attempt = p[2] /\ p[1] = id
        BY <1>3, <1>4, <1>5, <3>1
      <3>3. \A x \in Replica : \A q \in inhand'[x] : q[1] = id => x = u
        BY <1>6, <1>9 DEF Held
      <3>. QED
        BY <2>1, <3>2, <3>3 DEF HandOK
    <2>2. CASE v # u
      <3>1. p \in inhand[v] /\ HandOK(v, p)
        BY <1>6, <2>2
      <3>2. p[1] \notin R /\ p[1] \in DOMAIN webhook_outbox
        BY <1>9, <3>1 DEF Held, HandOK
      <3>3. \A q \in inhand'[u] : q[1] \in R
        BY <1>6
      <3>. QED
        BY <1>4, <1>5, <1>6, <3>1, <3>2, <3>3 DEF HandOK
    <2>. QED
      BY <2>1, <2>2
  <1>. QED
    BY <1>5, <1>7, <1>10, <1>11

\* A row leaves a replica's hand with a new content.
LEMMA RowReleased ==
    ASSUME HookInv, NEW u \in Replica, NEW id, NEW a, <<id, a>> \in inhand[u],
           NEW w \in HookRow, webhook_outbox' = [webhook_outbox EXCEPT ![id] = w],
           inhand' = [inhand EXCEPT ![u] = @ \ {<<id, a>>}],
           faults' \in 0..MaxFaults, faults <= faults',
           \/ w.sent = w.attempt
           \/ w.sent = w.attempt + 1 /\ w.status = "IN_FLIGHT",
           w.status \in {"PENDING", "IN_FLIGHT"} => w.attempt < MaxDeliveries,
           w.status = "IN_FLIGHT" => faults' > 0
    PROVE  HookInv' /\ DOMAIN webhook_outbox' = DOMAIN webhook_outbox
  <1>. USE DEF HookInv
  <1>1. id \in DOMAIN webhook_outbox
    <2>1. HandOK(u, <<id, a>>)
      OBVIOUS
    <2>. QED
      BY <2>1 DEF HandOK
  <1>2. /\ DOMAIN webhook_outbox' = DOMAIN webhook_outbox
        /\ webhook_outbox'[id] = w
        /\ \A i \in DOMAIN webhook_outbox \ {id} : webhook_outbox'[i] = webhook_outbox[i]
    BY <1>1
  <1>3. /\ inhand' \in [Replica -> SUBSET (RowId \X Nat)]
        /\ \A v \in Replica : \A q : q \in inhand'[v] <=> q \in inhand[v] /\ q[1] # id
    <2>1. \A v \in Replica : \A q \in inhand[v] : q[1] = id => v = u /\ q = <<id, a>>
      BY HandUnique
    <2>2. <<id, a>>[1] = id
      OBVIOUS
    <2>3. inhand \in [Replica -> SUBSET (RowId \X Nat)]
      BY DEF HookTypeOK
    <2>. QED
      BY <2>1, <2>2, <2>3
  <1>4. HookTypeOK'
    <2>1. webhook_outbox' \in [DOMAIN webhook_outbox' -> HookRow]
      BY <1>1, <1>2 DEF HookTypeOK
    <2>. QED
      BY <1>2, <1>3, <2>1 DEF HookTypeOK
  <1>5. ~Held(id)' /\ \A i : i # id => Held(i)' = Held(i)
    BY <1>3 DEF Held
  <1>6. ASSUME NEW i \in DOMAIN webhook_outbox'
        PROVE  RowOK(i)'
    <2>1. CASE i = id
      BY <1>2, <1>5, <2>1 DEF RowOK
    <2>2. CASE i # id
      <3>1. RowOK(i) /\ faults \in Nat /\ faults' \in Nat
        BY <1>2, NumbersType DEF HookTypeOK
      <3>. QED
        BY <1>2, <1>5, <2>2, <3>1 DEF RowOK
    <2>. QED
      BY <2>1, <2>2
  <1>7. ASSUME NEW v \in Replica, NEW p \in inhand'[v]
        PROVE  HandOK(v, p)'
    <2>1. p \in inhand[v] /\ p[1] # id /\ HandOK(v, p)
      BY <1>3
    <2>. QED
      BY <1>2, <1>3, <2>1 DEF HandOK
  <1>. QED
    BY <1>2, <1>4, <1>6, <1>7

\* deliver: the row is IN_FLIGHT in this replica's hand, and gets one attempt
\* more, or loses it with its UPDATE.
LEMMA DeliverInv ==
    ASSUME HookInv, NEW u \in Replica, NEW id, NEW a, <<id, a>> \in inhand[u],
           Deliver(u, id, a) \/ DeliverLost(u, id, a)
    PROVE  HookInv' /\ DOMAIN webhook_outbox' = DOMAIN webhook_outbox
  <1>1. /\ id \in DOMAIN webhook_outbox /\ webhook_outbox[id] \in HookRow
        /\ webhook_outbox[id].status = "IN_FLIGHT" /\ webhook_outbox[id].attempt = a
    <2>1. HandOK(u, <<id, a>>)
      BY DEF HookInv
    <2>. QED
      BY <2>1 DEF HandOK, HookInv, HookTypeOK
  <1>2. Held(id)
    BY DEF Held
  <1>3. webhook_outbox[id].sent = a /\ a < MaxDeliveries /\ a \in Nat
    BY <1>1, <1>2 DEF HookInv, RowOK, HookRow
  <1>4. inhand' = [inhand EXCEPT ![u] = @ \ {<<id, a>>}]
    BY DEF Deliver, DeliverLost
  <1>5. faults \in 0..MaxFaults /\ faults \in Nat
    BY NumbersType DEF HookInv, HookTypeOK
  <1>6. CASE DeliverLost(u, id, a)
    <2>. DEFINE w == [webhook_outbox[id] EXCEPT !.sent = @ + 1]
    <2>1. /\ w \in HookRow /\ w.status = "IN_FLIGHT" /\ w.attempt = a
          /\ w.sent = w.attempt + 1
      BY <1>1, <1>3 DEF HookRow
    <2>2. webhook_outbox' = [webhook_outbox EXCEPT ![id] = w]
      BY <1>6 DEF DeliverLost
    <2>3. faults' \in 0..MaxFaults /\ faults <= faults' /\ faults' > 0
      BY <1>5, <1>6, NumbersType DEF DeliverLost, Fault
    <2>. HIDE DEF w
    <2>. QED
      BY <1>3, <1>4, <2>1, <2>2, <2>3, RowReleased
  <1>7. CASE Deliver(u, id, a)
    <2>1. UNCHANGED faults
      BY <1>7 DEF Deliver
    <2>2. PICK s \in {"PENDING", "DELIVERED", "DEAD_LETTERED"} :
             /\ webhook_outbox' = Sent(id, s, a + 1)
             /\ s = "PENDING" => a + 1 < MaxDeliveries
      BY <1>1, <1>7 DEF Deliver
    <2>. DEFINE w == [status |-> s, attempt |-> a + 1, sent |-> a + 1]
    <2>3. w \in HookRow /\ w.status = s /\ w.attempt = a + 1 /\ w.sent = w.attempt
      BY <1>3, NumbersType DEF HookRow
    <2>4. webhook_outbox' = [webhook_outbox EXCEPT ![id] = w]
      BY <1>1, <1>3, <2>2 DEF Sent
    <2>5. /\ w.status \in {"PENDING", "IN_FLIGHT"} => w.attempt < MaxDeliveries
          /\ w.status # "IN_FLIGHT"
      BY <2>2, <2>3
    <2>. HIDE DEF w
    <2>6. faults' \in 0..MaxFaults /\ faults <= faults'
      BY <1>5, <2>1
    <2>. QED
      BY <1>4, <2>3, <2>4, <2>5, <2>6, RowReleased
  <1>. QED
    BY <1>6, <1>7

\* The steps that write no webhook row.
LEMMA OtherHooks ==
    ASSUME HookInv, UNCHANGED webhook_outbox, Fault \/ UNCHANGED faults,
           \/ UNCHANGED inhand
           \/ \E u \in Replica : Fault /\ inhand' = [inhand EXCEPT ![u] = {}]
    PROVE  HookInv'
  <1>1. inhand \in [Replica -> SUBSET (RowId \X Nat)]
    BY DEF HookInv, HookTypeOK
  <1>2. CASE UNCHANGED inhand
    BY <1>1, <1>2, HandsEmptied
  <1>3. ASSUME NEW u \in Replica, Fault, inhand' = [inhand EXCEPT ![u] = {}]
        PROVE  HookInv'
    <2>1. /\ inhand' \in [Replica -> SUBSET (RowId \X Nat)]
          /\ \A v \in Replica : inhand'[v] \subseteq inhand[v]
      BY <1>1, <1>3
    <2>. QED
      BY <1>3, <2>1, HandsEmptied
  <1>. QED
    BY <1>2, <1>3

\* The ledger only grows, and a row comes with its charge.
LEMMA NextHookInv ==
    ASSUME RequestInv, RowsCharged, HookInv, [Next]_vars
    PROVE  RowsCharged' /\ HookInv' /\ ledger \subseteq ledger'
  <1>1. ASSUME NEW r \in Request, Commit(r)
        PROVE  RowsCharged' /\ HookInv' /\ ledger \subseteq ledger'
    <2>1. ledger \subseteq ledger'
      BY <1>1 DEF Commit
    <2>. QED
      BY <1>1, <2>1, CommitRows
  <1>2. ASSUME HookInv', DOMAIN webhook_outbox' = DOMAIN webhook_outbox, UNCHANGED ledger
        PROVE  RowsCharged' /\ HookInv' /\ ledger \subseteq ledger'
    BY <1>2 DEF RowsCharged
  <1>3. ASSUME NEW u \in Replica, PickRows(u)
        PROVE  RowsCharged' /\ HookInv' /\ ledger \subseteq ledger'
    <2>1. UNCHANGED ledger
      BY <1>3 DEF PickRows
    <2>. QED
      BY <1>2, <1>3, <2>1, PickInv
  <1>4. ASSUME NEW u \in Replica, NEW p \in inhand[u],
               Deliver(u, p[1], p[2]) \/ DeliverLost(u, p[1], p[2])
        PROVE  RowsCharged' /\ HookInv' /\ ledger \subseteq ledger'
    <2>1. UNCHANGED ledger
      BY <1>4 DEF Deliver, DeliverLost
    <2>2. p = <<p[1], p[2]>>
      BY DEF HookInv, HookTypeOK
    <2>. QED
      BY <1>2, <1>4, <2>1, <2>2, DeliverInv
  <1>5. ASSUME UNCHANGED <<webhook_outbox, ledger>>, Fault \/ UNCHANGED faults,
               \/ UNCHANGED inhand
               \/ \E u \in Replica : Fault /\ inhand' = [inhand EXCEPT ![u] = {}]
        PROVE  RowsCharged' /\ HookInv' /\ ledger \subseteq ledger'
    BY <1>2, <1>5, OtherHooks
  <1>6. ASSUME NEW u \in Replica, UsageCrash(u)
        PROVE  RowsCharged' /\ HookInv' /\ ledger \subseteq ledger'
    BY <1>5, <1>6 DEF UsageCrash
  <1>7. CASE OperationsCrash
    BY <1>5, <1>7 DEF OperationsCrash, hookVars
  <1>8. ASSUME NEW e \in Event,
               InsertEvent(e) \/ \E r \in Request, u \in Replica : Emit(e, r, u)
        PROVE  RowsCharged' /\ HookInv' /\ ledger \subseteq ledger'
    BY <1>5, <1>8 DEF InsertEvent, Emit, hookVars
  <1>9. CASE Dispatch
    BY <1>5, <1>9 DEF Dispatch, SelectBatch, Send, Delivered, Postponed, hookVars
  <1>10. ASSUME NEW r \in Request,
                \/ InsertLedger(r) \/ FanOut(r) \/ Publish(r)
                \/ RecordFails(r) \/ TimesOut(r)
         PROVE  RowsCharged' /\ HookInv' /\ ledger \subseteq ledger'
    BY <1>5, <1>10 DEF InsertLedger, FanOut, Publish, RecordFails, TimesOut, hookVars
  <1>11. ASSUME NEW s \in Subscriber,
                SendLive(s) \/ Unsubscribe(s) \/ \E u \in Replica : Subscribe(s, u)
         PROVE  RowsCharged' /\ HookInv' /\ ledger \subseteq ledger'
    BY <1>5, <1>11 DEF SendLive, Unsubscribe, Subscribe, hookVars
  <1>12. ASSUME NEW h \in Endpoint, CreateWebhook(h) \/ DeleteWebhook(h)
         PROVE  RowsCharged' /\ HookInv' /\ ledger \subseteq ledger'
    BY <1>5, <1>12 DEF CreateWebhook, DeleteWebhook, hookVars
  <1>13. CASE UNCHANGED vars
    BY <1>5, <1>13 DEF vars, hookVars
  <1>. QED
    BY <1>1, <1>3, <1>4, <1>6, <1>7, <1>8, <1>9, <1>10, <1>11, <1>12, <1>13
       DEF Next, RecordEvent, DispatchWebhooks

-----------------------------------------------------------------------------
(* Subscribers                                                             *)

Connections == [at : Replica \cup {Nowhere}, queue : Seq(Event)]

\* What is queued for a connection is charged, and fits its channel.
QueueOK(c) == Len(c.queue) <= Capacity /\ \A i \in 1..Len(c.queue) : c.queue[i] \in ledger

\* A charged event is queued, or lost to a full channel.
LEMMA QueuedOK ==
    ASSUME SubscriberInv, NEW s \in Subscriber, NEW e \in Event, e \in ledger
    PROVE  Queued(s, e) \in Connections /\ QueueOK(Queued(s, e))
  <1>. DEFINE q == subscriber[s].queue
  <1>1. subscriber[s] \in Connections /\ QueueOK(subscriber[s])
    BY DEF SubscriberInv, Connections, QueueOK
  <1>2. CASE Len(q) < Capacity
    <2>1. /\ Append(q, e) \in Seq(Event) /\ Len(Append(q, e)) = Len(q) + 1
          /\ \A i \in 1..Len(q) + 1 : Append(q, e)[i] = IF i = Len(q) + 1 THEN e ELSE q[i]
      BY <1>1 DEF Connections
    <2>2. Len(q) \in Nat
      BY <1>1 DEF Connections
    <2>3. Len(Append(q, e)) <= Capacity
      BY <1>2, <2>1, <2>2, NumbersType
    <2>4. \A i \in 1..Len(q) + 1 : Append(q, e)[i] \in ledger
      BY <1>1, <2>1, <2>2 DEF QueueOK
    <2>5. /\ Queued(s, e) = [subscriber[s] EXCEPT !.queue = Append(q, e)]
          /\ Queued(s, e) \in Connections /\ Queued(s, e).queue = Append(q, e)
      BY <1>1, <1>2, <2>1 DEF Queued, Connections
    <2>. QED
      BY <2>1, <2>3, <2>4, <2>5 DEF QueueOK
  <1>3. CASE ~(Len(q) < Capacity)
    BY <1>1, <1>3 DEF Queued
  <1>. QED
    BY <1>2, <1>3

\* A connection that sent the head of its queue
LEMMA SentOK ==
    ASSUME NEW c \in Connections, QueueOK(c), c.queue # << >>
    PROVE  /\ [c EXCEPT !.queue = Tail(c.queue)] \in Connections
           /\ QueueOK([c EXCEPT !.queue = Tail(c.queue)])
  <1>. DEFINE q == c.queue
  <1>1. /\ q \in Seq(Event) /\ q # << >>
    BY DEF Connections
  <1>2. /\ Tail(q) \in Seq(Event) /\ Len(Tail(q)) = Len(q) - 1 /\ Len(q) \in Nat
        /\ \A i \in 1..Len(Tail(q)) : Tail(q)[i] = q[i + 1] /\ i + 1 \in 1..Len(q)
    BY <1>1
  <1>3. Len(Tail(q)) <= Capacity /\ \A i \in 1..Len(Tail(q)) : Tail(q)[i] \in ledger
    BY <1>2, NumbersType DEF QueueOK
  <1>. QED
    BY <1>2, <1>3 DEF QueueOK, Connections

\* A new connection has nothing queued.
LEMMA EmptyOK ==
    ASSUME NEW u \in Replica \cup {Nowhere}
    PROVE  [at |-> u, queue |-> << >>] \in Connections /\ QueueOK([at |-> u, queue |-> << >>])
  BY NumbersType DEF Connections, QueueOK

\* publish follows the commit, and an event once charged stays charged.
LEMMA NextSubscriberInv ==
    ASSUME RequestInv, SubscriberInv, ledger \subseteq ledger', [Next]_vars
    PROVE  SubscriberInv'
  <1>1. subscriber \in [Subscriber -> Connections] /\ \A s \in Subscriber : QueueOK(subscriber[s])
    BY DEF SubscriberInv, Connections, QueueOK
  <1>2. SUFFICES subscriber' \in [Subscriber -> Connections]
                    /\ \A s \in Subscriber : QueueOK(subscriber'[s])
    <2>1. ASSUME NEW c, QueueOK(c)
          PROVE  /\ Len(c.queue) <= Capacity
                 /\ \A i \in 1..Len(c.queue) : c.queue[i] \in ledger'
      BY <2>1 DEF QueueOK
    <2>. QED
      BY <2>1 DEF SubscriberInv, Connections
  <1>3. CASE UNCHANGED subscriber
    BY <1>1, <1>3
  <1>4. ASSUME NEW r \in Request, Publish(r)
        PROVE  subscriber' \in [Subscriber -> Connections]
                  /\ \A s \in Subscriber : QueueOK(subscriber'[s])
    <2>1. request[r].event \in Event /\ request[r].event \in ledger
      BY <1>4 DEF Publish, RequestInv, RequestOK
    <2>2. \A s \in Subscriber : Queued(s, request[r].event) \in Connections
                                /\ QueueOK(Queued(s, request[r].event))
      BY <2>1, QueuedOK
    <2>. QED
      BY <1>1, <1>4, <2>2 DEF Publish
  <1>5. ASSUME NEW s \in Subscriber, NEW c \in Connections, QueueOK(c),
               subscriber' = [subscriber EXCEPT ![s] = c]
        PROVE  subscriber' \in [Subscriber -> Connections]
                  /\ \A t \in Subscriber : QueueOK(subscriber'[t])
    BY <1>1, <1>5
  <1>6. ASSUME NEW s \in Subscriber, NEW u \in Replica, Subscribe(s, u)
        PROVE  subscriber' \in [Subscriber -> Connections]
                  /\ \A t \in Subscriber : QueueOK(subscriber'[t])
    <2>. DEFINE c == [subscriber[s] EXCEPT !.at = u]
    <2>1. subscriber[s] \in Connections /\ QueueOK(subscriber[s])
      BY <1>1
    <2>2. c \in Connections /\ QueueOK(c)
      BY <2>1 DEF Connections, QueueOK
    <2>3. subscriber' = [subscriber EXCEPT ![s] = c]
      BY <1>6 DEF Subscribe
    <2>. HIDE DEF c
    <2>. QED
      BY <1>5, <2>2, <2>3
  <1>7. ASSUME NEW s \in Subscriber, SendLive(s)
        PROVE  subscriber' \in [Subscriber -> Connections]
                  /\ \A t \in Subscriber : QueueOK(subscriber'[t])
    <2>. DEFINE c == [subscriber[s] EXCEPT !.queue = Tail(subscriber[s].queue)]
    <2>1. subscriber[s] \in Connections /\ QueueOK(subscriber[s])
      BY <1>1
    <2>2. c \in Connections /\ QueueOK(c)
      BY <1>7, <2>1, SentOK DEF SendLive
    <2>3. subscriber' = [subscriber EXCEPT ![s] = c]
      BY <1>7 DEF SendLive
    <2>. HIDE DEF c
    <2>. QED
      BY <1>5, <2>2, <2>3
  <1>8. ASSUME NEW s \in Subscriber, Unsubscribe(s)
        PROVE  subscriber' \in [Subscriber -> Connections]
                  /\ \A t \in Subscriber : QueueOK(subscriber'[t])
    BY <1>5, <1>8, EmptyOK DEF Unsubscribe
  <1>9. ASSUME NEW u \in Replica, UsageCrash(u)
        PROVE  subscriber' \in [Subscriber -> Connections]
                  /\ \A t \in Subscriber : QueueOK(subscriber'[t])
    BY <1>1, <1>9, EmptyOK DEF UsageCrash
  <1>. QED
    BY <1>3, <1>4, <1>6, <1>7, <1>8, <1>9
       DEF Next, vars, InsertEvent, Emit, Dispatch, SelectBatch, Send, Delivered, Postponed,
           RecordEvent, InsertLedger, FanOut, Commit, RecordFails, TimesOut,
           CreateWebhook, DeleteWebhook, DispatchWebhooks, PickRows, Deliver,
           DeliverLost, OperationsCrash

-----------------------------------------------------------------------------
(* The invariant and what follows from it                                  *)

LEMMA InitIInv == Init => IInv
  <1>. SUFFICES ASSUME Init PROVE IInv
    OBVIOUS
  <1>1. RequestInv
    BY Outside DEF Init, RequestInv, RequestTypeOK, RequestOK, Recording, Requests, Free,
                   Known, CurrentOK
  <1>2. DOMAIN webhook_outbox = {}
    BY DEF Init
  <1>3. HookInv /\ RowsCharged
    <2>1. HookTypeOK
      BY <1>2, NumbersType DEF Init, HookTypeOK
    <2>. QED
      BY <1>2, <2>1 DEF Init, HookInv, RowsCharged
  <1>4. SubscriberInv
    BY NumbersType DEF Init, SubscriberInv
  <1>. QED
    BY <1>1, <1>3, <1>4 DEF IInv

LEMMA NextIInv == IInv /\ [Next]_vars => IInv'
  <1>. SUFFICES ASSUME IInv, [Next]_vars PROVE IInv'
    OBVIOUS
  <1>1. RequestInv'
    BY NextRequestInv DEF IInv
  <1>2. RowsCharged' /\ HookInv' /\ ledger \subseteq ledger'
    BY NextHookInv DEF IInv
  <1>3. SubscriberInv'
    BY <1>2, NextSubscriberInv DEF IInv
  <1>. QED
    BY <1>1, <1>2, <1>3 DEF IInv

\* The delivery of events keeps its invariant.
THEOREM UsageInvariant == Spec => []IInv
  BY InitIInv, NextIInv, PTL DEF Spec

\* The tables, the requests under way and the connections stay of their types,
\* and no channel holds more than it has room for.
THEOREM DeliveryTyped == Spec => []TypeOK
  <1>1. IInv => TypeOK
    <2>. SUFFICES ASSUME IInv PROVE TypeOK
      OBVIOUS
    <2>1. /\ outbox \in [Event -> {"NONE", "PENDING", "DELIVERED"}]
          /\ emitted \subseteq {e \in Event : outbox[e] = "NONE"}
          /\ batch \subseteq Event
          /\ current \in Request \cup {NoRequest}
          /\ request \in [Request -> Requests]
          /\ ledger \subseteq Event
          /\ endpoint \in [Endpoint -> {"none", "enabled", "deleted"}]
      BY DEF IInv, RequestInv, RequestTypeOK
    <2>2. /\ DOMAIN webhook_outbox \subseteq RowId
          /\ \A id \in DOMAIN webhook_outbox : webhook_outbox[id] \in HookRow
          /\ inhand \in [Replica -> SUBSET (RowId \X Nat)]
          /\ faults \in 0..MaxFaults
      BY DEF IInv, HookInv, HookTypeOK
    <2>3. \A s \in Subscriber : /\ subscriber[s].at \in Replica \cup {Nowhere}
                                /\ subscriber[s].queue \in Seq(Event)
                                /\ Len(subscriber[s].queue) <= Capacity
      BY DEF IInv, SubscriberInv
    <2>. QED
      BY <2>1, <2>2, <2>3 DEF TypeOK
  <1>. QED
    BY <1>1, UsageInvariant, PTL

\* recordEvent answers and publishes after its commit: what Operations takes
\* for delivered, what a subscriber is shown and what a webhook row is about is
\* charged, whatever requests overlap, time out or are rolled back.
THEOREM ChargedBeforeKnown == Spec => []KnownIsCharged
  <1>1. IInv => KnownIsCharged
    BY DEF IInv, RequestInv, RequestTypeOK, SubscriberInv, RowsCharged, KnownIsCharged
  <1>. QED
    BY <1>1, UsageInvariant, PTL

\* dispatchBatch and deliver: SKIP LOCKED and IN_FLIGHT keep a row in one hand,
\* an endpoint gets a row once per counted attempt, and only a failure strands
\* a row.
THEOREM RowsSentAsCounted == Spec => []SentAsCounted
  <1>1. IInv => SentAsCounted
    <2>. SUFFICES ASSUME IInv, NEW id \in DOMAIN webhook_outbox
                  PROVE  /\ Cardinality(Holders(id)) <= 1
                         /\ \/ webhook_outbox[id].sent = webhook_outbox[id].attempt
                            \/ /\ webhook_outbox[id].sent = webhook_outbox[id].attempt + 1
                               /\ Stranded(id)
                         /\ Stranded(id) => faults > 0
      BY DEF SentAsCounted
    <2>1. RowOK(id)
      BY DEF IInv, HookInv
    <2>2. Held(id) <=> Holders(id) # {}
      BY DEF Held, Holders
    <2>3. Cardinality(Holders(id)) <= 1
      <3>1. CASE Holders(id) = {}
        BY <3>1, FS_EmptySet
      <3>2. ASSUME NEW u \in Holders(id)
            PROVE  Cardinality(Holders(id)) <= 1
        <4>1. \A v \in Holders(id) : v = u
          BY <3>2 DEF Holders, IInv, HookInv, HandOK
        <4>. DEFINE S == Holders(id)
        <4>2. S = {u}
          BY <3>2, <4>1
        <4>3. Cardinality({u}) = 1
          BY FS_Singleton, Zenon
        <4>. HIDE DEF S
        <4>4. Cardinality(S) = 1
          BY <4>2, <4>3
        <4>. QED
          BY <4>4 DEF S
      <3>. QED
        BY <3>1, <3>2
    <2>. QED
      BY <2>1, <2>2, <2>3 DEF RowOK, Stranded
  <1>. QED
    BY <1>1, UsageInvariant, PTL

-----------------------------------------------------------------------------
(* The ledger is implemented                                               *)

Hooks == [id \in DOMAIN webhook_outbox |-> webhook_outbox[id].status]

LEMMA InitLedger == Init => Ledger!Init
  <1>. SUFFICES ASSUME Init PROVE Ledger!Init
    OBVIOUS
  <1>1. DOMAIN webhook_outbox = {}
    BY DEF Init
  <1>. QED
    BY <1>1 DEF Init, Ledger!Init

\* The commit of a new event charges it with its rows; that of a duplicate
\* writes nothing.
LEMMA CommitCharges ==
    ASSUME IInv, NEW r \in Request, Commit(r), NEW e \in Event, e = request[r].event
    PROVE  Ledger!Charge(e) \/ UNCHANGED <<outbox, emitted, ledger, Hooks>>
  <1>. DEFINE H == request[r].hooks
  <1>1. /\ NewRows(r) = {e} \X H \X {1}
        /\ H \subseteq Endpoint
        /\ request[r].pc = "fanned" => e \notin ledger
        /\ request[r].pc # "fanned" => H = {} /\ e \in ledger
    BY NewRowsOfCharge DEF IInv
  <1>2. /\ webhook_outbox' = [id \in DOMAIN webhook_outbox \cup NewRows(r) |->
                                IF id \in DOMAIN webhook_outbox THEN webhook_outbox[id]
                                ELSE [status |-> "PENDING", attempt |-> 0, sent |-> 0]]
        /\ ledger' = ledger \cup {e}
        /\ UNCHANGED <<outbox, emitted>>
    BY DEF Commit, outboxVars
  <1>3. Hooks' = [id \in DOMAIN Hooks \cup ({e} \X H \X {1}) |->
                    IF id \in DOMAIN Hooks THEN Hooks[id] ELSE "PENDING"]
    BY <1>1, <1>2 DEF Hooks
  <1>4. outbox[e] # "NONE" \/ e \in emitted
    BY DEF Commit, IInv, RequestInv, RequestOK, Known
  <1>5. CASE request[r].pc = "fanned"
    BY <1>1, <1>2, <1>3, <1>4, <1>5 DEF Ledger!Charge, Hooks
  <1>6. CASE request[r].pc # "fanned"
    <2>1. {e} \X H \X {1} = {}
      BY <1>1, <1>6
    <2>2. Hooks' = [id \in DOMAIN Hooks |-> Hooks[id]]
      BY <1>3, <2>1
    <2>. QED
      BY <1>1, <1>2, <1>6, <2>2 DEF Hooks
  <1>. QED
    BY <1>5, <1>6

\* A replica picks rows that are PENDING.
LEMMA PickTakes ==
    ASSUME NEW u \in Replica, PickRows(u)
    PROVE  \E R \in SUBSET DOMAIN Hooks : Ledger!Take(R)
  <1>1. PICK R \in SUBSET Due :
          webhook_outbox' = [id \in DOMAIN webhook_outbox |->
                               IF id \in R
                               THEN [webhook_outbox[id] EXCEPT !.status = "IN_FLIGHT"]
                               ELSE webhook_outbox[id]]
    BY DEF PickRows, Picked
  <1>2. R \subseteq DOMAIN webhook_outbox
        /\ \A id \in R : webhook_outbox[id].status = "PENDING"
    BY DEF Due
  <1>3. R \in SUBSET DOMAIN Hooks /\ \A id \in R : Hooks[id] = "PENDING"
    BY <1>2 DEF Hooks
  <1>4. Hooks' = [id \in DOMAIN Hooks |-> IF id \in R THEN "IN_FLIGHT" ELSE Hooks[id]]
    <2>1. DOMAIN webhook_outbox' = DOMAIN webhook_outbox
      BY <1>1
    <2>2. ASSUME NEW id \in DOMAIN webhook_outbox
          PROVE  webhook_outbox'[id].status = IF id \in R THEN "IN_FLIGHT"
                                              ELSE webhook_outbox[id].status
      <3>1. id \in R => webhook_outbox[id].status = "PENDING"
        BY <1>2
      <3>. QED
        BY <1>1, <3>1
    <2>. QED
      BY <2>1, <2>2 DEF Hooks
  <1>5. UNCHANGED <<outbox, emitted, ledger>>
    BY DEF PickRows, outboxVars
  <1>. QED
    BY <1>3, <1>4, <1>5 DEF Ledger!Take, Hooks

\* A row in hand is settled, or its UPDATE is lost.
LEMMA DeliverSettles ==
    ASSUME IInv, NEW u \in Replica, NEW id, NEW a, <<id, a>> \in inhand[u],
           Deliver(u, id, a) \/ DeliverLost(u, id, a)
    PROVE  \/ id \in DOMAIN Hooks /\ Ledger!Settle(id)
           \/ UNCHANGED <<outbox, emitted, ledger, Hooks>>
  <1>1. /\ id \in DOMAIN webhook_outbox /\ webhook_outbox[id].status = "IN_FLIGHT"
        /\ webhook_outbox[id] \in HookRow
    <2>1. HandOK(u, <<id, a>>)
      BY DEF IInv, HookInv
    <2>. QED
      BY <2>1 DEF HandOK, IInv, HookInv, HookTypeOK
  <1>2. UNCHANGED <<outbox, emitted, ledger>>
    BY DEF Deliver, DeliverLost, outboxVars
  <1>3. ASSUME NEW w, webhook_outbox' = [webhook_outbox EXCEPT ![id] = w]
        PROVE  Hooks' = [Hooks EXCEPT ![id] = w.status]
    BY <1>1, <1>3 DEF Hooks
  <1>4. CASE DeliverLost(u, id, a)
    <2>. DEFINE w == [webhook_outbox[id] EXCEPT !.sent = @ + 1]
    <2>1. webhook_outbox' = [webhook_outbox EXCEPT ![id] = w] /\ w.status = "IN_FLIGHT"
      BY <1>1, <1>4 DEF DeliverLost, HookRow
    <2>2. Hooks' = [Hooks EXCEPT ![id] = "IN_FLIGHT"]
      BY <1>3, <2>1
    <2>3. Hooks' = Hooks
      BY <1>1, <2>2 DEF Hooks
    <2>. QED
      BY <1>2, <2>3
  <1>5. CASE Deliver(u, id, a)
    <2>1. PICK s \in {"PENDING", "DELIVERED", "DEAD_LETTERED"}, n \in Nat :
             webhook_outbox' = Sent(id, s, n)
      <3>1. webhook_outbox[id].attempt + 1 \in Nat /\ a + 1 \in Nat
        BY <1>1, NumbersType DEF HookRow, IInv, HookInv, HookTypeOK
      <3>. QED
        BY <1>5, <3>1 DEF Deliver
    <2>. DEFINE w == [status |-> s, attempt |-> n, sent |-> webhook_outbox[id].sent + 1]
    <2>2. webhook_outbox' = [webhook_outbox EXCEPT ![id] = w] /\ w.status = s
      BY <1>1, <2>1 DEF Sent
    <2>. HIDE DEF w
    <2>3. Hooks' = [Hooks EXCEPT ![id] = s]
      BY <1>3, <2>2
    <2>. QED
      BY <1>1, <1>2, <2>3 DEF Ledger!Settle, Hooks
  <1>. QED
    BY <1>4, <1>5

\* An event is confirmed when its request was answered, after the commit.
LEMMA DeliveredConfirms ==
    ASSUME IInv, NEW r \in Request, Delivered(r)
    PROVE  \/ \E e \in Event : Ledger!Confirm(e)
           \/ UNCHANGED <<outbox, emitted, ledger, Hooks>>
  <1>1. /\ request[r].event \in Event /\ request[r].event \in ledger
        /\ outbox[request[r].event] # "NONE"
    BY DEF Delivered, IInv, RequestInv, RequestOK, CurrentOK
  <1>2. UNCHANGED <<emitted, ledger, Hooks>>
    BY DEF Delivered, hookVars, Hooks
  <1>. QED
    BY <1>1, <1>2 DEF Delivered, Ledger!Confirm, Hooks

\* Every step is one of the ledger or changes nothing of it.
LEMMA NextLedger == IInv /\ [Next]_vars => [Ledger!Next]_<<outbox, emitted, ledger, Hooks>>
  <1>. SUFFICES ASSUME IInv, [Next]_vars
                PROVE  Ledger!Next \/ UNCHANGED <<outbox, emitted, ledger, Hooks>>
    OBVIOUS
  <1>0. /\ \A e \in Event : \/ Ledger!Record(e) \/ Ledger!Emit(e)
                            \/ Ledger!Charge(e) \/ Ledger!Confirm(e)
                            => Ledger!Next
        /\ \A R \in SUBSET DOMAIN Hooks : Ledger!Take(R) => Ledger!Next
        /\ \A id \in DOMAIN Hooks : Ledger!Settle(id) => Ledger!Next
    BY DEF Ledger!Next, Hooks
  <1>1. ASSUME UNCHANGED <<outbox, emitted, ledger, webhook_outbox>>
        PROVE  UNCHANGED <<outbox, emitted, ledger, Hooks>>
    BY <1>1 DEF Hooks
  <1>2. ASSUME NEW e \in Event, InsertEvent(e)
        PROVE  Ledger!Next
    <2>1. Ledger!Record(e)
      BY <1>2 DEF InsertEvent, Ledger!Record, hookVars, Hooks
    <2>. QED
      BY <1>0, <2>1
  <1>9. ASSUME NEW e \in Event, NEW r \in Request, NEW u \in Replica, Emit(e, r, u)
        PROVE  Ledger!Next
    <2>1. Ledger!Emit(e)
      BY <1>9 DEF Emit, Ledger!Emit, hookVars, Hooks
    <2>. QED
      BY <1>0, <2>1
  <1>3. ASSUME NEW r \in Request, Delivered(r)
        PROVE  Ledger!Next \/ UNCHANGED <<outbox, emitted, ledger, Hooks>>
    BY <1>0, <1>3, DeliveredConfirms
  <1>4. ASSUME NEW r \in Request, Commit(r)
        PROVE  Ledger!Next \/ UNCHANGED <<outbox, emitted, ledger, Hooks>>
    <2>1. PICK e \in Event : e = request[r].event
      BY <1>4 DEF Commit, IInv, RequestInv, RequestOK
    <2>2. Ledger!Charge(e) \/ UNCHANGED <<outbox, emitted, ledger, Hooks>>
      BY <1>4, <2>1, CommitCharges
    <2>3. Ledger!Charge(e) => Ledger!Next
      BY <1>0
    <2>. QED
      BY <2>2, <2>3
  <1>5. ASSUME NEW u \in Replica, PickRows(u)
        PROVE  Ledger!Next
    BY <1>0, <1>5, PickTakes
  <1>6. ASSUME NEW u \in Replica, NEW p \in inhand[u],
               Deliver(u, p[1], p[2]) \/ DeliverLost(u, p[1], p[2])
        PROVE  Ledger!Next \/ UNCHANGED <<outbox, emitted, ledger, Hooks>>
    <2>1. p = <<p[1], p[2]>>
      BY DEF IInv, HookInv, HookTypeOK
    <2>. QED
      BY <1>0, <1>6, <2>1, DeliverSettles
  <1>7. ASSUME \/ UNCHANGED vars
               \/ SelectBatch \/ OperationsCrash
               \/ \E e \in batch, r \in Request, u \in Replica : Send(e, r, u)
               \/ \E r \in Request : \/ Postponed(r) \/ InsertLedger(r) \/ FanOut(r)
                                     \/ Publish(r) \/ RecordFails(r) \/ TimesOut(r)
        PROVE  UNCHANGED <<outbox, emitted, ledger, Hooks>>
    BY <1>1, <1>7 DEF vars, hookVars, outboxVars, SelectBatch, OperationsCrash, Send, Postponed,
                      InsertLedger, FanOut, Publish, RecordFails, TimesOut
  <1>8. ASSUME \/ \E s \in Subscriber : SendLive(s) \/ Unsubscribe(s)
                                        \/ \E u \in Replica : Subscribe(s, u)
               \/ \E h \in Endpoint : CreateWebhook(h) \/ DeleteWebhook(h)
               \/ \E u \in Replica : UsageCrash(u)
        PROVE  UNCHANGED <<outbox, emitted, ledger, Hooks>>
    BY <1>1, <1>8 DEF hookVars, outboxVars, SendLive, Unsubscribe, Subscribe, CreateWebhook,
                      DeleteWebhook, UsageCrash
  <1>. QED
    BY <1>2, <1>3, <1>4, <1>5, <1>6, <1>7, <1>8, <1>9
       DEF Next, Dispatch, RecordEvent, DispatchWebhooks

\* However requests overlap, time out, are lost and sent again, an event is
\* charged at most once, together with one row for each of its endpoints;
\* Operations takes only a charged event for delivered; a settled row stays.
THEOREM DeliveryKeepsLedger == Spec => LedgerSpec
  <1>. USE DEF Hooks
  <1>1. Init => Ledger!Init
    BY InitLedger
  <1>2. IInv /\ [Next]_vars
           => [Ledger!Next]_<<outbox, emitted, ledger,
                              [id \in DOMAIN webhook_outbox |-> webhook_outbox[id].status]>>
    BY NextLedger
  <1>. QED
    BY <1>1, <1>2, UsageInvariant, PTL DEF Spec, LedgerSpec, Ledger!Spec
=============================================================================

---------------------------- MODULE UsageLedger ----------------------------
(***************************************************************************)
(* What the way of an event from the Operations service through the Usage  *)
(* service to the customers' webhooks promises: an event is charged at     *)
(* most once, together with one webhook row for each endpoint it goes to;  *)
(* Operations takes only a charged event for delivered; and a webhook row  *)
(* that was delivered or given up is never sent again.                     *)
(***************************************************************************)
CONSTANTS Event, Endpoint

VARIABLES outbox,   \* an event's status in operations.event_outbox
          emitted,  \* the events that workers have posted
          ledger,   \* the charged events
          webhook   \* the status of every webhook row

Init ==
    /\ outbox = [e \in Event |-> "NONE"]
    /\ emitted = {}
    /\ ledger = {}
    /\ webhook = [r \in {} |-> "PENDING"]

Record(e) ==
    /\ outbox[e] = "NONE" /\ e \notin emitted
    /\ outbox' = [outbox EXCEPT ![e] = "PENDING"]
    /\ UNCHANGED <<emitted, ledger, webhook>>

Emit(e) ==
    /\ outbox[e] = "NONE" /\ e \notin emitted
    /\ emitted' = emitted \cup {e}
    /\ UNCHANGED <<outbox, ledger, webhook>>

Charge(e) ==
    /\ outbox[e] # "NONE" \/ e \in emitted
    /\ e \notin ledger
    /\ ledger' = ledger \cup {e}
    /\ \E H \in SUBSET Endpoint :
         webhook' = [r \in DOMAIN webhook \cup ({e} \X H \X {1}) |->
                       IF r \in DOMAIN webhook THEN webhook[r] ELSE "PENDING"]
    /\ UNCHANGED <<outbox, emitted>>

Confirm(e) ==
    /\ outbox[e] # "NONE" /\ e \in ledger
    /\ outbox' = [outbox EXCEPT ![e] = "DELIVERED"]
    /\ UNCHANGED <<emitted, ledger, webhook>>

\* One dispatcher takes rows to send them.
Take(R) ==
    /\ \A r \in R : webhook[r] = "PENDING"
    /\ webhook' = [r \in DOMAIN webhook |-> IF r \in R THEN "IN_FLIGHT" ELSE webhook[r]]
    /\ UNCHANGED <<outbox, emitted, ledger>>

Settle(r) ==
    /\ webhook[r] = "IN_FLIGHT"
    /\ \E s \in {"PENDING", "DELIVERED", "DEAD_LETTERED"} :
         webhook' = [webhook EXCEPT ![r] = s]
    /\ UNCHANGED <<outbox, emitted, ledger>>

Next ==
    \/ \E e \in Event : Record(e) \/ Emit(e) \/ Charge(e) \/ Confirm(e)
    \/ \E R \in SUBSET DOMAIN webhook : Take(R)
    \/ \E r \in DOMAIN webhook : Settle(r)

Spec == Init /\ [][Next]_<<outbox, emitted, ledger, webhook>>
=============================================================================

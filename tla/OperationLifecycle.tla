------------------------- MODULE OperationLifecycle -------------------------
(***************************************************************************)
(* What the Operations service promises about one table of operations,     *)
(* whatever its handlers, workflows, reaper and workers do: a row is       *)
(* created PENDING, it moves only along the domain map, it is claimed only *)
(* while its tenant is below its concurrency limit, and the one way out of *)
(* a terminal status is the redrive of a dead letter.                      *)
(***************************************************************************)
EXTENDS OperationStatus, FiniteSets

CONSTANTS Op,               \* operations: a (tenant_id, idempotency_key) pair each
          Tenant,
          TenantOf,         \* the tenant of an operation
          ConcurrencyLimit  \* access.tenants.concurrency_limit

VARIABLE status

RunningOf(t) == {o \in Op : TenantOf[o] = t /\ status[o] = "RUNNING"}

Init == status = [o \in Op |-> NoRow]

Submit(o) ==
    /\ status[o] = NoRow
    /\ status' = [status EXCEPT ![o] = "PENDING"]

Claim(o) ==
    /\ CanTransition(status[o], "RUNNING")
    /\ Cardinality(RunningOf(TenantOf[o])) < ConcurrencyLimit[TenantOf[o]]
    /\ status' = [status EXCEPT ![o] = "RUNNING"]

Move(o, s) ==
    /\ s # "RUNNING"
    /\ CanTransition(status[o], s)
    /\ status' = [status EXCEPT ![o] = s]

Redrive(o) ==
    /\ status[o] = "DEAD_LETTERED"
    /\ status' = [status EXCEPT ![o] = "RETRYING"]

Next == \E o \in Op : \/ Submit(o)
                      \/ Claim(o)
                      \/ \E s \in Statuses : Move(o, s)
                      \/ Redrive(o)

Spec == Init /\ [][Next]_status
=============================================================================

----------------------------- MODULE Operations -----------------------------
(***************************************************************************)
(* The Operations service (cmd/operations/main.go) without the workers     *)
(* that call it: submission, the DBOS workflow that queues an operation on *)
(* the Redis stream, cancellation, redrive and the reaper of expired       *)
(* leases.  The claim is one step here; ClaimTransaction shows that its    *)
(* SQL statements implement one.  The modules of the workers extend this   *)
(* one with the handlers the workers call.                                 *)
(*                                                                         *)
(* An operation is a (tenant_id, idempotency_key) pair: a second create    *)
(* with the key finds the row and returns it, and changes nothing.         *)
(***************************************************************************)
EXTENDS OperationStatus, FiniteSets, Sequences

CONSTANTS Op, Tenant, TenantOf, ConcurrencyLimit,
          MaxAttempts,      \* operations.max_attempts of an operation
          ExecutionMode,    \* "PRIVATE" or "CLOUD"
          Worker, NoWorker, \* lease owners; NoWorker is a NULL lease_owner
          MaxRedrives,      \* bound: redrives of one operation
          MaxFaults         \* bound: failures of the environment

ASSUME OpFinite == IsFiniteSet(Op)
ASSUME TenantOfType == TenantOf \in [Op -> Tenant]
ASSUME LimitType == ConcurrencyLimit \in [Tenant -> Nat \ {0}]
ASSUME BudgetType == MaxAttempts \in [Op -> 1..10]
ASSUME ModeType == ExecutionMode \in [Op -> {"PRIVATE", "CLOUD"}]
ASSUME NoWorkerOutside == NoWorker \notin Worker
ASSUME BoundsType == MaxRedrives \in Nat /\ MaxFaults \in Nat

VARIABLES row,           \* operations.operations
          event_outbox,  \* the keys of operations.event_outbox
          workflow,      \* DBOS: the stage of every workflow ever started
          stream,        \* the Redis stream, never trimmed
          admitted,      \* create requests between the checks and the INSERT
          starting,      \* workflows committed to, RunWorkflow not called yet
          reaping,       \* rows of the reaper's last scan, not handled yet
          redrives,      \* how often an operation was redriven
          faults         \* how many failures have happened

serviceVars == <<row, event_outbox, workflow, stream, admitted, starting,
                 reaping, redrives, faults>>

\* lease_expires_at is kept as whether it lies in the past; a row without a
\* lease has none in the past.
Row == [status : Statuses \cup {NoRow}, attempt : Nat,
        owner : Worker \cup {NoWorker}, expired : BOOLEAN]

\* A workflow is named after its cause.  The number is the attempt that
\* failed or expired, 0 for the first one, or stands for a redrive's UUID.
WorkflowId == {"operation", "retry", "lease-recovery", "redrive"} \X Op \X Nat

\* "sleep": NotBefore is ahead, or the step has not begun.  The step is then
\* at its SELECT, at its XADD, or over and about to be checkpointed.
Stage == {"sleep", "select", "publish", "returning", "done", "error"}

EventType == {"operation.succeeded", "operation.failed", "operation.dead_lettered"}

ServiceTypeOK ==
    /\ row \in [Op -> Row]
    /\ event_outbox \subseteq Op \X EventType \X Nat
    /\ DOMAIN workflow \subseteq WorkflowId
    /\ \A id \in DOMAIN workflow : workflow[id] \in Stage
    /\ stream \in Seq([op : Op, attempt : Nat])
    /\ admitted \subseteq Op
    /\ starting \subseteq WorkflowId
    /\ reaping \subseteq Op \X Nat
    /\ redrives \in [Op -> 0..MaxRedrives]
    /\ faults \in 0..MaxFaults

RunningOf(t) == {o \in Op : TenantOf[o] = t /\ row[o].status = "RUNNING"}

BelowLimit(t) == Cardinality(RunningOf(t)) < ConcurrencyLimit[t]

ServiceInit ==
    /\ row = [o \in Op |-> [status |-> NoRow, attempt |-> 0,
                            owner |-> NoWorker, expired |-> FALSE]]
    /\ event_outbox = {}
    /\ workflow = [id \in {} |-> "sleep"]
    /\ stream = << >>
    /\ admitted = {}
    /\ starting = {}
    /\ reaping = {}
    /\ redrives = [o \in Op |-> 0]
    /\ faults = 0

Fault == faults < MaxFaults /\ faults' = faults + 1

\* Mutant: the lease owner is emptied instead of set to NULL.
LeaseEmptied(o, s) ==
    [row EXCEPT ![o].status = s, ![o].owner = "", ![o].expired = FALSE]

\* UPDATE ... SET status=s, lease_owner=NULL, lease_expires_at=NULL
WithoutLease(o, s) ==
    [row EXCEPT ![o].status = s, ![o].owner = NoWorker, ![o].expired = FALSE]

-----------------------------------------------------------------------------
(* create                                                                  *)

\* The reads before the INSERT.  Whether the quota allows the request is left
\* open; a request it refuses changes nothing.
Admit(o) ==
    /\ row[o].status = NoRow
    /\ o \notin admitted
    /\ BelowLimit(TenantOf[o])
    /\ admitted' = admitted \cup {o}
    /\ UNCHANGED <<row, event_outbox, workflow, stream, starting, reaping,
                   redrives, faults>>

\* INSERT ... 'PENDING'; the workflow "operation:<id>" is started after it.
Insert(o) ==
    /\ o \in admitted
    /\ admitted' = admitted \ {o}
    /\ row' = [row EXCEPT ![o].status = "PENDING"]
    /\ starting' = starting \cup {<<"operation", o, 0>>}
    /\ UNCHANGED <<event_outbox, workflow, stream, reaping, redrives, faults>>

-----------------------------------------------------------------------------
(* DBOS: RunWorkflow and the queueOperationWorkflow it runs                *)

\* RunWorkflow: a workflow ID that is already known is not started again.
StartWorkflow(id) ==
    /\ id \in starting
    /\ starting' = starting \ {id}
    /\ workflow' = [i \in DOMAIN workflow \cup {id} |->
                      IF i \in DOMAIN workflow THEN workflow[i] ELSE "sleep"]
    /\ UNCHANGED <<row, event_outbox, stream, admitted, reaping, redrives, faults>>

\* RunWorkflow returns an error; its caller does not undo the row's change.
StartFails(id) ==
    /\ id \in starting
    /\ Fault
    /\ starting' = starting \ {id}
    /\ UNCHANGED <<row, event_outbox, workflow, stream, admitted, reaping, redrives>>

\* UPDATE ... SET status='QUEUED' ... status IN ('PENDING','RETRYING')
EnqueueUpdate(id) ==
    /\ workflow[id] = "sleep"
    /\ \/ /\ row[id[2]].status \in {"PENDING", "RETRYING"}
          /\ row' = [row EXCEPT ![id[2]].status = "QUEUED"]
          /\ workflow' = [workflow EXCEPT ![id] = "publish"]
       \/ /\ row[id[2]].status \notin {"PENDING", "RETRYING"}
          /\ workflow' = [workflow EXCEPT ![id] = "select"]
          /\ UNCHANGED row
    /\ UNCHANGED <<event_outbox, stream, admitted, starting, reaping, redrives,
                   faults>>

\* No row was updated: publish only if the operation is QUEUED already.
EnqueueSelect(id) ==
    /\ workflow[id] = "select"
    /\ workflow' = [workflow EXCEPT ![id] =
                      IF row[id[2]].status = "QUEUED" THEN "publish" ELSE "returning"]
    /\ UNCHANGED <<row, event_outbox, stream, admitted, starting, reaping,
                   redrives, faults>>

\* The attempt the envelope carries
EnvelopeAttempt(id) == IF id[1] \in {"retry", "lease-recovery"} THEN id[3] ELSE 0

\* XADD
EnqueuePublish(id) ==
    /\ workflow[id] = "publish"
    /\ stream' = Append(stream, [op |-> id[2], attempt |-> EnvelopeAttempt(id)])
    /\ workflow' = [workflow EXCEPT ![id] = "returning"]
    /\ UNCHANGED <<row, event_outbox, admitted, starting, reaping, redrives, faults>>

\* DBOS records the step's result and the workflow is over.
EnqueueCheckpoint(id) ==
    /\ workflow[id] = "returning"
    /\ workflow' = [workflow EXCEPT ![id] = "done"]
    /\ UNCHANGED <<row, event_outbox, stream, admitted, starting, reaping,
                   redrives, faults>>

\* A statement of the step fails.  The step is registered without retries,
\* so the workflow ends in an error.
EnqueueFails(id) ==
    /\ workflow[id] \in {"sleep", "select", "publish"}
    /\ Fault
    /\ workflow' = [workflow EXCEPT ![id] = "error"]
    /\ UNCHANGED <<row, event_outbox, stream, admitted, starting, reaping, redrives>>

-----------------------------------------------------------------------------
(* cancel and redrive                                                      *)

\* Mutant: the cancelled row keeps its lease.
CancelKeepingLease(o) ==
    /\ row[o].status \in Cancellable
    /\ row' = [row EXCEPT ![o].status = "CANCELLED"]
    /\ UNCHANGED <<event_outbox, workflow, stream, admitted, starting, reaping,
                   redrives, faults>>

Cancel(o) ==
    /\ row[o].status \in Cancellable
    /\ row' = WithoutLease(o, "CANCELLED")
    /\ UNCHANGED <<event_outbox, workflow, stream, admitted, starting, reaping,
                   redrives, faults>>

\* The row restarts at attempt 0 under a workflow ID with a fresh UUID.
Redrive(o) ==
    /\ row[o].status \in Redrivable
    /\ redrives[o] < MaxRedrives
    /\ redrives' = [redrives EXCEPT ![o] = @ + 1]
    /\ row' = [row EXCEPT ![o].status = "RETRYING", ![o].attempt = 0]
    /\ starting' = starting \cup {<<"redrive", o, redrives[o] + 1>>}
    /\ UNCHANGED <<event_outbox, workflow, stream, admitted, reaping, faults>>

-----------------------------------------------------------------------------
(* Claims and leases                                                       *)

\* claimOperation, as one step.
ClaimOperation(o, w) ==
    /\ row[o].status \in Claimable
    /\ BelowLimit(TenantOf[o])
    /\ row' = [row EXCEPT ![o].status = "RUNNING", ![o].attempt = @ + 1,
                          ![o].owner = w, ![o].expired = FALSE]

\* Mutant: the reporting statements ask neither for the owner nor the status.
AnyoneOwns(o, w) == row[o].status # NoRow

\* The condition of every statement a lease owner reports with.
OwnsLease(o, w) == row[o].status = "RUNNING" /\ row[o].owner = w

\* Time passes lease_expires_at.
LeaseExpires(o) ==
    /\ row[o].status = "RUNNING"
    /\ ~row[o].expired
    /\ row' = [row EXCEPT ![o].expired = TRUE]
    /\ UNCHANGED <<event_outbox, workflow, stream, admitted, starting, reaping,
                   redrives, faults>>

-----------------------------------------------------------------------------
(* The reaper: one goroutine scans, then handles the rows it saw in turn   *)

Expired(o) == row[o].status = "RUNNING" /\ row[o].expired

\* The previous row is done with, its RunWorkflow call included.
ReaperFree == \A id \in starting : id[1] # "lease-recovery"

ReaperScan ==
    /\ reaping = {} /\ ReaperFree
    /\ reaping' = {<<o, row[o].attempt>> : o \in {p \in Op : Expired(p)}}
    /\ reaping' # {}
    /\ UNCHANGED <<row, event_outbox, workflow, stream, admitted, starting,
                   redrives, faults>>

\* Mutant: the row is marked RETRYING and no recovery workflow is started.
ReapWithoutRecovery(o, a) ==
    /\ <<o, a>> \in reaping /\ ReaperFree
    /\ reaping' = reaping \ {<<o, a>>}
    /\ row' = IF Expired(o) THEN WithoutLease(o, "RETRYING") ELSE row
    /\ UNCHANGED <<event_outbox, starting, workflow, stream, admitted, redrives, faults>>

\* Mutant: the reaper's UPDATE does not ask again whether the lease is expired.
ReapUnchecked(o, a) ==
    /\ <<o, a>> \in reaping /\ ReaperFree
    /\ reaping' = reaping \ {<<o, a>>}
    /\ row' = WithoutLease(o, IF a >= MaxAttempts[o] THEN "DEAD_LETTERED" ELSE "RETRYING")
    /\ event_outbox' = IF a >= MaxAttempts[o]
                       THEN event_outbox \cup {<<o, "operation.dead_lettered", a>>}
                       ELSE event_outbox
    /\ starting' = IF a < MaxAttempts[o]
                   THEN starting \cup {<<"lease-recovery", o, a>>} ELSE starting
    /\ UNCHANGED <<workflow, stream, admitted, redrives, faults>>

\* One scanned row.  The branch is chosen by the attempt the scan saw; the
\* UPDATE asks again whether the lease is expired.
Reap(o, a) ==
    /\ <<o, a>> \in reaping /\ ReaperFree
    /\ reaping' = reaping \ {<<o, a>>}
    /\ \/ /\ ~Expired(o)
          /\ UNCHANGED <<row, event_outbox, starting>>
       \/ /\ Expired(o)
          /\ a >= MaxAttempts[o]
          /\ row' = WithoutLease(o, "DEAD_LETTERED")
          /\ event_outbox' = event_outbox \cup {<<o, "operation.dead_lettered", a>>}
          /\ UNCHANGED starting
       \/ /\ Expired(o)
          /\ a < MaxAttempts[o]
          /\ row' = WithoutLease(o, "RETRYING")
          /\ starting' = starting \cup {<<"lease-recovery", o, a>>}
          /\ UNCHANGED event_outbox
    /\ UNCHANGED <<workflow, stream, admitted, redrives, faults>>

\* The statement or the transaction fails; the next scan finds the row again.
ReapFails(o, a) ==
    /\ <<o, a>> \in reaping /\ ReaperFree
    /\ Fault
    /\ reaping' = reaping \ {<<o, a>>}
    /\ UNCHANGED <<row, event_outbox, workflow, stream, admitted, starting, redrives>>

-----------------------------------------------------------------------------
(* A crash of the service loses what its goroutines hold.  DBOS runs an    *)
(* unfinished workflow again from its last checkpoint, the durable sleep.  *)

ServiceCrash ==
    /\ Fault
    /\ admitted' = {}
    /\ starting' = {}
    /\ reaping' = {}
    /\ workflow' = [id \in DOMAIN workflow |->
                      IF workflow[id] \in {"done", "error"} THEN workflow[id]
                                                            ELSE "sleep"]
    /\ UNCHANGED <<row, event_outbox, stream, redrives>>

EnqueueStep(id) ==
    \/ EnqueueUpdate(id)
    \/ EnqueueSelect(id)
    \/ EnqueuePublish(id)
    \/ EnqueueCheckpoint(id)

\* Everything the service does without a worker, crashes apart.
ServiceStep ==
    \/ \E o \in Op : Admit(o) \/ Insert(o) \/ Cancel(o) \/ Redrive(o) \/ LeaseExpires(o)
    \/ \E id \in starting : StartWorkflow(id) \/ StartFails(id)
    \/ \E id \in DOMAIN workflow : EnqueueStep(id) \/ EnqueueFails(id)
    \/ ReaperScan
    \/ \E r \in reaping : Reap(r[1], r[2]) \/ ReapFails(r[1], r[2])

-----------------------------------------------------------------------------
(* Properties of the service's own state, checked with the workers in       *)
(* place.  EventsFollowOutcome is about enterprise workers' operations.   *)

\* A lease exists exactly while its operation is RUNNING: each of the
\* handlers that take an operation out of RUNNING clears it, and no other
\* path in or out of RUNNING forgets it.
LeaseIffRunning ==
    \A o \in Op : /\ row[o].owner # NoWorker <=> row[o].status = "RUNNING"
                  /\ row[o].expired => row[o].status = "RUNNING"

\* reapExpiredLeaseBatch decides by the attempt of its scan.  However stale the
\* scan, where nothing fails an operation starts at most one attempt beyond its
\* budget.
OverrunByOne == faults = 0 => \A o \in Op : row[o].attempt <= MaxAttempts[o] + 1

Events(o, type) == {e \in event_outbox : e[1] = o /\ e[2] = type}

\* workerComplete, workerFail, reapExpiredLeaseBatch and insertEvent, against
\* cancel, redrive and stale scans: exactly the operations that have succeeded
\* have a success event, one, of the attempt that succeeded, so that nothing
\* else is charged; a dead letter that was never redriven has its event; and no
\* operation has more dead-letter events than it was dead-lettered.  The dead
\* letter that follows a redrive may have none of its own: DeadLetterRecorded.
EventsFollowOutcome ==
    \A o \in Op :
        /\ Events(o, "operation.succeeded") =
              IF row[o].status = "SUCCEEDED"
              THEN {<<o, "operation.succeeded", row[o].attempt>>} ELSE {}
        /\ row[o].status = "DEAD_LETTERED" /\ redrives[o] = 0 =>
              Events(o, "operation.dead_lettered") # {}
        /\ Cardinality(Events(o, "operation.dead_lettered")) <=
              redrives[o] + (IF row[o].status = "DEAD_LETTERED" THEN 1 ELSE 0)

\* The row and its handlers implement the lifecycle, whatever fails.
Lifecycle == INSTANCE OperationLifecycle
               WITH status <- [o \in Op |-> row[o].status]
LifecycleSpec == Lifecycle!Spec
=============================================================================

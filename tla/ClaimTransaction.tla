-------------------------- MODULE ClaimTransaction --------------------------
(***************************************************************************)
(* The claim of an operation (claimOperation, cmd/operations/main.go) one  *)
(* SQL statement at a time, under PostgreSQL's READ COMMITTED isolation    *)
(* and row locks, against every other statement that writes the status of  *)
(* an operation.  Any number of claims run at once: one for each request   *)
(* of Claimer.                                                             *)
(*                                                                         *)
(* A row lock is held from the statement that takes it until the           *)
(* transaction ends, so the locks are read off the program counters: a     *)
(* transaction past "begin" holds the row of its target, one past "row"    *)
(* holds the row of the target's tenant too.                               *)
(***************************************************************************)
EXTENDS OperationStatus, FiniteSets

CONSTANTS Op, Tenant, TenantOf, ConcurrencyLimit,
          Claimer,          \* claim requests being served at one time
          NoOp              \* the target of a claim that has locked nothing

ASSUME OpFinite == IsFiniteSet(Op)
ASSUME NoOpOutside == NoOp \notin Op
ASSUME TenantOfType == TenantOf \in [Op -> Tenant]
ASSUME LimitType == ConcurrencyLimit \in [Tenant -> Nat \ {0}]

VARIABLES status,   \* operations.operations.status, NoRow before the INSERT
          pc,       \* the next statement of each claim transaction
          target,   \* the operation it claims
          running   \* its result of SELECT count(*) ... status='RUNNING'

vars == <<status, pc, target, running>>

TypeOK ==
    /\ status \in [Op -> Statuses \cup {NoRow}]
    /\ pc \in [Claimer -> {"begin", "row", "tenant", "counted"}]
    /\ target \in [Claimer -> Op \cup {NoOp}]
    /\ running \in [Claimer -> Nat]
    /\ \A x \in Claimer : pc[x] # "begin" <=> target[x] \in Op

RunningOf(t) == {o \in Op : TenantOf[o] = t /\ status[o] = "RUNNING"}

\* Mutant: the SELECT of the operation lacks FOR UPDATE.
RowNeverLocked(o) == FALSE

RowLocked(o) == \E x \in Claimer : target[x] = o

\* Mutant: the SELECT of the limit lacks FOR UPDATE.
TenantNeverLocked(t) == FALSE

TenantLocked(t) ==
    \E x \in Claimer : pc[x] \in {"tenant", "counted"} /\ TenantOf[target[x]] = t

Init ==
    /\ status = [o \in Op |-> NoRow]
    /\ pc = [x \in Claimer |-> "begin"]
    /\ target = [x \in Claimer |-> NoOp]
    /\ running = [x \in Claimer |-> 0]

-----------------------------------------------------------------------------
(* The claim transaction                                                   *)

\* SELECT tenant_id ... status IN ('QUEUED','RETRYING') FOR UPDATE.  It waits
\* for the row's lock and then tests the status the row has by then.  A row
\* that is not claimable ends the request, which leaves no trace.
LockOperation(x, o) ==
    /\ pc[x] = "begin"
    /\ ~RowLocked(o)
    /\ status[o] \in Claimable
    /\ pc' = [pc EXCEPT ![x] = "row"]
    /\ target' = [target EXCEPT ![x] = o]
    /\ UNCHANGED <<status, running>>

\* SELECT concurrency_limit ... FOR UPDATE
LockTenant(x) ==
    /\ pc[x] = "row"
    /\ ~TenantLocked(TenantOf[target[x]])
    /\ pc' = [pc EXCEPT ![x] = "tenant"]
    /\ UNCHANGED <<status, target, running>>

\* SELECT count(*) ... status='RUNNING', a snapshot taken now
CountRunning(x) ==
    /\ pc[x] = "tenant"
    /\ pc' = [pc EXCEPT ![x] = "counted"]
    /\ running' = [running EXCEPT
                     ![x] = Cardinality(RunningOf(TenantOf[target[x]]))]
    /\ UNCHANGED <<status, target>>

\* Mutant: the end of a transaction forgets to release the operation's row.
EndKeepingRow(x) ==
    /\ pc' = [pc EXCEPT ![x] = "begin"]
    /\ running' = [running EXCEPT ![x] = 0]
    /\ UNCHANGED target

\* The transaction is over: its locks are released.
End(x) ==
    /\ pc' = [pc EXCEPT ![x] = "begin"]
    /\ target' = [target EXCEPT ![x] = NoOp]
    /\ running' = [running EXCEPT ![x] = 0]

\* Mutant: the handler returns without the deferred rollback.
RejectWithoutRollback(x) ==
    /\ pc[x] = "counted"
    /\ running[x] >= ConcurrencyLimit[TenantOf[target[x]]]
    /\ UNCHANGED vars

\* running >= limit: roll back, not claimed
RejectAtLimit(x) ==
    /\ pc[x] = "counted"
    /\ running[x] >= ConcurrencyLimit[TenantOf[target[x]]]
    /\ End(x)
    /\ UNCHANGED status

\* Mutant: running > limit where the code has running >= limit.
CommitOneTooMany(x) ==
    /\ pc[x] = "counted"
    /\ running[x] <= ConcurrencyLimit[TenantOf[target[x]]]
    /\ status[target[x]] \in Claimable
    /\ status' = [status EXCEPT ![target[x]] = "RUNNING"]
    /\ End(x)

\* UPDATE ... SET status='RUNNING' ... status IN ('QUEUED','RETRYING'), COMMIT
CommitClaim(x) ==
    /\ pc[x] = "counted"
    /\ running[x] < ConcurrencyLimit[TenantOf[target[x]]]
    /\ status[target[x]] \in Claimable
    /\ status' = [status EXCEPT ![target[x]] = "RUNNING"]
    /\ End(x)

\* A statement or the commit fails, or the UPDATE meets no row: roll back.
Rollback(x) ==
    /\ pc[x] # "begin"
    /\ End(x)
    /\ UNCHANGED status

-----------------------------------------------------------------------------
(* The other statements that write an operation's status.  Each waits for  *)
(* the lock of the row it updates and takes effect at its commit.          *)

WriteStatus(o, from, s) ==
    /\ ~RowLocked(o)
    /\ status[o] \in from
    /\ status' = [status EXCEPT ![o] = s]
    /\ UNCHANGED <<pc, target, running>>

\* The foreign key of the new row takes a share lock on the tenant's row,
\* which a claim's FOR UPDATE excludes.
Insert(o) == ~TenantLocked(TenantOf[o]) /\ WriteStatus(o, {NoRow}, "PENDING")

Enqueue(o) == WriteStatus(o, {"PENDING", "RETRYING"}, "QUEUED")

Finish(o) == \E s \in {"SUCCEEDED", "RETRYING", "DEAD_LETTERED"} :
                WriteStatus(o, {"RUNNING"}, s)

\* Mutant: the cancel statement lost its status condition.
CancelAnything(o) == WriteStatus(o, Statuses, "CANCELLED")

Cancel(o) == WriteStatus(o, Cancellable, "CANCELLED")

Redrive(o) == WriteStatus(o, Redrivable, "RETRYING")

-----------------------------------------------------------------------------
ClaimStep(x) ==
    \/ \E o \in Op : LockOperation(x, o)
    \/ LockTenant(x)
    \/ CountRunning(x)
    \/ RejectAtLimit(x)
    \/ CommitClaim(x)
    \/ Rollback(x)

Write(o) == Insert(o) \/ Enqueue(o) \/ Finish(o) \/ Cancel(o) \/ Redrive(o)

Next == (\E x \in Claimer : ClaimStep(x)) \/ (\E o \in Op : Write(o))

\* A transaction's next statement is executed, and a waiter whose lock is
\* released again and again is granted it.  Nothing obliges a statement to
\* fail, so Rollback has no fairness.
Fairness ==
    \A x \in Claimer :
        /\ SF_vars(LockTenant(x))
        /\ WF_vars(CountRunning(x))
        /\ WF_vars(RejectAtLimit(x) \/ CommitClaim(x))

Spec == Init /\ [][Next]_vars /\ Fairness

-----------------------------------------------------------------------------
(* Properties                                                              *)

\* claimOperation: however many claims of one tenant run at once, and
\* whatever statements commit between its count and its commit, the tenant
\* never has more RUNNING operations than its concurrency limit.
RunningWithinLimit ==
    \A t \in Tenant : Cardinality(RunningOf(t)) <= ConcurrencyLimit[t]

\* The count a claim acts on is never too low: the tenant's lock keeps every
\* other claim of the tenant from committing between the count and the
\* commit, and the other writers only take operations out of RUNNING.
CountNotBelow ==
    \A x \in Claimer :
        pc[x] = "counted" =>
            Cardinality(RunningOf(TenantOf[target[x]])) <= running[x]

\* The final UPDATE of a claim always meets its row: what FOR UPDATE saw
\* claimable stays claimable until the transaction ends.
TargetStaysClaimable ==
    \A x \in Claimer : pc[x] # "begin" => status[target[x]] \in Claimable

\* The lock order (operation, then tenant) never deadlocks: every claim that
\* has locked its operation ends its transaction.
ClaimEnds == \A x \in Claimer : pc[x] # "begin" ~> pc[x] = "begin"

\* Statement by statement, the claim and the other writers implement the
\* lifecycle in which a claim is one atomic step.
Lifecycle == INSTANCE OperationLifecycle
LifecycleSpec == Lifecycle!Spec
=============================================================================

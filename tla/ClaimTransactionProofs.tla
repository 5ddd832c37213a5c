----------------------- MODULE ClaimTransactionProofs -----------------------
(***************************************************************************)
(* Proofs about the claim transaction, for any number of operations,       *)
(* tenants, limits and concurrent claims.                                  *)
(***************************************************************************)
EXTENDS ClaimTransaction, FiniteSetTheorems, TLAPS

\* What the guards of LockOperation and LockTenant establish, a fact about the
\* locks that the proofs rest on: no two claims hold one row.
LocksExclusive ==
    \A x, y \in Claimer :
        x # y =>
          /\ target[x] = target[y] => target[x] = NoOp
          /\ pc[x] \in {"tenant", "counted"} /\ pc[y] \in {"tenant", "counted"}
                => TenantOf[target[x]] # TenantOf[target[y]]

\* The inductive invariant.  The limit rests on the count, the count on the
\* exclusion of the tenant's lock, and the domain map on the row's lock.
IInv ==
    /\ TypeOK
    /\ LocksExclusive
    /\ TargetStaysClaimable
    /\ CountNotBelow
    /\ RunningWithinLimit

\* The running operations of a tenant are finitely many.
LEMMA RunningFinite ==
    ASSUME NEW t
    PROVE  IsFiniteSet(RunningOf(t)) /\ Cardinality(RunningOf(t)) \in Nat
  <1>1. RunningOf(t) \subseteq Op
    BY DEF RunningOf
  <1>2. IsFiniteSet(RunningOf(t))
    BY <1>1, FS_Subset, OpFinite
  <1>. QED
    BY <1>2, FS_CardinalityType

\* A step that puts no operation into RUNNING lowers no tenant's headroom.
LEMMA RunningShrinks ==
    ASSUME NEW t, \A o \in Op : status'[o] = "RUNNING" => status[o] = "RUNNING"
    PROVE  Cardinality(RunningOf(t)') <= Cardinality(RunningOf(t))
  <1>1. RunningOf(t)' \subseteq RunningOf(t)
    BY DEF RunningOf
  <1>. QED
    BY <1>1, RunningFinite, FS_Subset

\* Committing a claim adds one running operation to its own tenant and
\* leaves the other tenants' alone.
LEMMA RunningGrowsByOne ==
    ASSUME TypeOK, NEW o \in Op, status[o] # "RUNNING",
           status' = [status EXCEPT ![o] = "RUNNING"], NEW t
    PROVE  Cardinality(RunningOf(t)') =
             IF TenantOf[o] = t THEN Cardinality(RunningOf(t)) + 1
                                ELSE Cardinality(RunningOf(t))
  <1>1. CASE TenantOf[o] = t
    <2>1. RunningOf(t)' = RunningOf(t) \cup {o}
      BY <1>1 DEF RunningOf, TypeOK
    <2>2. o \notin RunningOf(t)
      BY DEF RunningOf
    <2>. QED
      BY <1>1, <2>1, <2>2, RunningFinite, FS_AddElement
  <1>2. CASE TenantOf[o] # t
    <2>1. RunningOf(t)' = RunningOf(t)
      BY <1>2 DEF RunningOf, TypeOK
    <2>. QED
      BY <1>2, <2>1
  <1>. QED
    BY <1>1, <1>2

\* An empty table without open transactions satisfies the invariant.
LEMMA InitIInv == Init => IInv
  <1>. SUFFICES ASSUME Init PROVE IInv
    OBVIOUS
  <1>1. TypeOK
    BY NoOpOutside DEF Init, TypeOK
  <1>2. LocksExclusive /\ TargetStaysClaimable /\ CountNotBelow
    BY DEF Init, LocksExclusive, TargetStaysClaimable, CountNotBelow
  <1>3. RunningWithinLimit
    <2>. SUFFICES ASSUME NEW t \in Tenant
                  PROVE Cardinality(RunningOf(t)) <= ConcurrencyLimit[t]
      BY DEF RunningWithinLimit
    <2>1. RunningOf(t) = {}
      BY DEF RunningOf, Init, NoRow
    <2>. QED
      BY <2>1, FS_EmptySet, LimitType
  <1>. QED
    BY <1>1, <1>2, <1>3 DEF IInv

-----------------------------------------------------------------------------
\* Every step of the claim and every other writer preserves the invariant.
LEMMA NextIInv == IInv /\ [Next]_vars => IInv'
  <1>. SUFFICES ASSUME IInv, [Next]_vars PROVE IInv'
    OBVIOUS
  <1>. USE DEF IInv
  <1>1. ASSUME NEW x \in Claimer, NEW o \in Op, LockOperation(x, o)
        PROVE  IInv'
    <2>. USE <1>1 DEF LockOperation
    <2>1. TypeOK'
      BY NoOpOutside DEF TypeOK
    <2>2. LocksExclusive'
      BY NoOpOutside DEF TypeOK, LocksExclusive, RowLocked
    <2>3. TargetStaysClaimable'
      BY DEF TypeOK, TargetStaysClaimable
    <2>4. CountNotBelow' /\ RunningWithinLimit'
      BY DEF TypeOK, CountNotBelow, RunningWithinLimit, RunningOf
    <2>. QED
      BY <2>1, <2>2, <2>3, <2>4
  <1>2. ASSUME NEW x \in Claimer, LockTenant(x)
        PROVE  IInv'
    <2>. USE <1>2 DEF LockTenant
    <2>1. TypeOK'
      BY DEF TypeOK
    <2>2. LocksExclusive'
      BY DEF TypeOK, LocksExclusive, TenantLocked
    <2>3. TargetStaysClaimable'
      BY DEF TypeOK, TargetStaysClaimable
    <2>4. CountNotBelow' /\ RunningWithinLimit'
      BY DEF TypeOK, CountNotBelow, RunningWithinLimit, RunningOf
    <2>. QED
      BY <2>1, <2>2, <2>3, <2>4
  <1>3. ASSUME NEW x \in Claimer, CountRunning(x)
        PROVE  IInv'
    <2>. USE <1>3 DEF CountRunning
    <2>1. TypeOK'
      BY RunningFinite DEF TypeOK
    <2>2. LocksExclusive'
      BY DEF TypeOK, LocksExclusive
    <2>3. TargetStaysClaimable'
      BY DEF TypeOK, TargetStaysClaimable
    <2>4. RunningWithinLimit' /\ \A t : RunningOf(t)' = RunningOf(t)
      BY DEF RunningWithinLimit, RunningOf
    <2>5. CountNotBelow'
      <3>. SUFFICES ASSUME NEW y \in Claimer, pc'[y] = "counted"
                    PROVE (Cardinality(RunningOf(TenantOf[target[y]])) <= running[y])'
        BY DEF CountNotBelow
      <3>1. RunningOf(TenantOf[target[y]])' = RunningOf(TenantOf[target[y]])
        BY DEF RunningOf
      <3>2. CASE y = x
        BY <3>1, <3>2, RunningFinite DEF TypeOK
      <3>3. CASE y # x
        BY <3>1, <3>3 DEF TypeOK, CountNotBelow
      <3>. QED
        BY <3>2, <3>3
    <2>. QED
      BY <2>1, <2>2, <2>3, <2>4, <2>5
  <1>4. ASSUME NEW x \in Claimer, End(x), UNCHANGED status
        PROVE  IInv'
    <2>. USE <1>4 DEF End
    <2>1. TypeOK'
      BY NoOpOutside DEF TypeOK
    <2>2. LocksExclusive'
      BY DEF TypeOK, LocksExclusive
    <2>3. TargetStaysClaimable'
      BY DEF TypeOK, TargetStaysClaimable
    <2>4. CountNotBelow' /\ RunningWithinLimit'
      BY DEF TypeOK, CountNotBelow, RunningWithinLimit, RunningOf
    <2>. QED
      BY <2>1, <2>2, <2>3, <2>4
  <1>5. ASSUME NEW x \in Claimer, CommitClaim(x)
        PROVE  IInv'
    <2>. USE <1>5 DEF CommitClaim, End
    <2>. DEFINE o == target[x]
    <2>1. /\ o \in Op /\ TenantOf[o] \in Tenant
          /\ status[o] # "RUNNING"
          /\ ConcurrencyLimit[TenantOf[o]] \in Nat
      BY TenantOfType, LimitType DEF TypeOK, Claimable
    <2>2. TypeOK'
      BY NoOpOutside DEF TypeOK, Statuses
    <2>3. LocksExclusive'
      BY DEF TypeOK, LocksExclusive
    <2>4. TargetStaysClaimable'
      <3>. SUFFICES ASSUME NEW y \in Claimer, pc'[y] # "begin"
                    PROVE status'[target'[y]] \in Claimable
        BY DEF TargetStaysClaimable
      <3>1. y # x /\ pc[y] # "begin" /\ target'[y] = target[y]
        BY DEF TypeOK
      <3>2. target[y] # o /\ target[y] \in Op
        BY <3>1, <2>1, NoOpOutside DEF TypeOK, LocksExclusive
      <3>. QED
        BY <3>1, <3>2 DEF TypeOK, TargetStaysClaimable
    <2>5. \A t : Cardinality(RunningOf(t)') =
                   IF TenantOf[o] = t THEN Cardinality(RunningOf(t)) + 1
                                      ELSE Cardinality(RunningOf(t))
      BY <2>1, RunningGrowsByOne
    <2>6. CountNotBelow'
      <3>. SUFFICES ASSUME NEW y \in Claimer, pc'[y] = "counted"
                    PROVE (Cardinality(RunningOf(TenantOf[target[y]])) <= running[y])'
        BY DEF CountNotBelow
      <3>1. y # x /\ pc[y] = "counted" /\ target'[y] = target[y]
               /\ running'[y] = running[y]
        BY DEF TypeOK
      <3>2. PICK t : t = TenantOf[target[y]]
        OBVIOUS
      <3>3. TenantOf[o] # t
        BY <3>1, <3>2 DEF LocksExclusive
      <3>4. RunningOf(TenantOf[target[y]])' = RunningOf(t)'
        BY <3>1, <3>2 DEF RunningOf
      <3>. QED
        BY <3>1, <3>2, <3>3, <3>4, <2>5 DEF CountNotBelow
    <2>7. RunningWithinLimit'
      <3>. SUFFICES ASSUME NEW t \in Tenant
                    PROVE Cardinality(RunningOf(t)') <= ConcurrencyLimit[t]
        BY DEF RunningWithinLimit
      <3>1. CASE t = TenantOf[o]
        <4>1. Cardinality(RunningOf(t)) <= running[x]
          BY <3>1 DEF CountNotBelow
        <4>2. running[x] \in Nat /\ Cardinality(RunningOf(t)) \in Nat
          BY RunningFinite DEF TypeOK
        <4>. QED
          BY <4>1, <4>2, <3>1, <2>1, <2>5
      <3>2. CASE t # TenantOf[o]
        BY <3>2, <2>5 DEF RunningWithinLimit
      <3>. QED
        BY <3>1, <3>2
    <2>. QED
      BY <2>2, <2>3, <2>4, <2>6, <2>7
  <1>6. ASSUME NEW o \in Op, NEW from, NEW s \in Statuses \ {"RUNNING"},
               WriteStatus(o, from, s)
        PROVE  IInv'
    <2>. USE <1>6 DEF WriteStatus
    <2>1. TypeOK' /\ LocksExclusive'
      BY DEF TypeOK, LocksExclusive
    <2>2. TargetStaysClaimable'
      BY DEF TypeOK, TargetStaysClaimable, RowLocked
    <2>3. \A t : Cardinality(RunningOf(t)') <= Cardinality(RunningOf(t))
      BY RunningShrinks DEF TypeOK
    <2>4. \A t : Cardinality(RunningOf(t)) \in Nat /\ Cardinality(RunningOf(t)') \in Nat
      <3>1. \A t : RunningOf(t)' \in SUBSET Op
        BY DEF RunningOf
      <3>. QED
        BY <3>1, RunningFinite, OpFinite, FS_Subset, FS_CardinalityType
    <2>5. CountNotBelow'
      BY <2>3, <2>4 DEF CountNotBelow, TypeOK
    <2>6. RunningWithinLimit'
      <3>. SUFFICES ASSUME NEW t \in Tenant
                    PROVE Cardinality(RunningOf(t)') <= ConcurrencyLimit[t]
        BY DEF RunningWithinLimit
      <3>1. ConcurrencyLimit[t] \in Nat
        BY LimitType
      <3>. QED
        BY <3>1, <2>3, <2>4 DEF RunningWithinLimit
    <2>. QED
      BY <2>1, <2>2, <2>5, <2>6
  <1>7. ASSUME UNCHANGED vars
        PROVE  IInv'
    BY <1>7 DEF vars, TypeOK, LocksExclusive, TargetStaysClaimable,
                CountNotBelow, RunningWithinLimit, RunningOf
  <1>8. ASSUME NEW x \in Claimer, ClaimStep(x)
        PROVE  IInv'
    BY <1>8, <1>1, <1>2, <1>3, <1>4, <1>5 DEF ClaimStep, RejectAtLimit, Rollback
  <1>9. ASSUME NEW o \in Op, Write(o)
        PROVE  IInv'
    BY <1>9, <1>6 DEF Write, Insert, Enqueue, Finish, Cancel, Redrive, Statuses
  <1>. QED
    BY <1>7, <1>8, <1>9 DEF Next

\* claimOperation: the inductive invariant (types, locks, fresh counts, the
\* limit) holds in every reachable state.
THEOREM ClaimInvariant == Spec => []IInv
  BY InitIInv, NextIInv, PTL DEF Spec

\* claimOperation: every reachable state is well typed, whatever the numbers
\* of operations, tenants and concurrent claims.
THEOREM ClaimTyped == Spec => []TypeOK
  <1>1. IInv => TypeOK
    BY DEF IInv
  <1>. QED
    BY <1>1, ClaimInvariant, PTL

\* claimOperation: no interleaving of claims and other writers ever gives a
\* tenant more RUNNING operations than its concurrency limit.
THEOREM LimitHolds == Spec => []RunningWithinLimit
  <1>1. IInv => RunningWithinLimit
    BY DEF IInv
  <1>. QED
    BY <1>1, ClaimInvariant, PTL

\* claimOperation: the count a claim has read is at no time below the number of
\* the tenant's running operations, although READ COMMITTED lets other writers
\* commit after it was read.
THEOREM CountStaysSafe == Spec => []CountNotBelow
  <1>1. IInv => CountNotBelow
    BY DEF IInv
  <1>. QED
    BY <1>1, ClaimInvariant, PTL

\* claimOperation: an operation that was found claimable stays so until its
\* claim commits or rolls back.
THEOREM TargetHeld == Spec => []TargetStaysClaimable
  <1>1. IInv => TargetStaysClaimable
    BY DEF IInv
  <1>. QED
    BY <1>1, ClaimInvariant, PTL

-----------------------------------------------------------------------------
\* The instance of the lifecycle has its own copies of the library's and the
\* domain's definitions; they are the same ones.
LEMMA SameCardinality ==
    ASSUME NEW S
    PROVE  Lifecycle!Cardinality(S) = Cardinality(S)
  BY DEF Lifecycle!Cardinality, Cardinality

\* Likewise the domain map of internal/domain/state.go.
LEMMA SameDomain ==
    /\ Lifecycle!Statuses = Statuses
    /\ Lifecycle!NoRow = NoRow
    /\ \A s, u : Lifecycle!CanTransition(s, u) <=> CanTransition(s, u)
  BY DEF Lifecycle!Statuses, Statuses, Lifecycle!NoRow, NoRow,
         Lifecycle!CanTransition, CanTransition, Lifecycle!transitions, transitions

\* The writers outside the claim move a row along the domain map, insert it,
\* or redrive a dead letter.
LEMMA WriteMoves ==
    ASSUME TypeOK, NEW o \in Op, Write(o)
    PROVE  Lifecycle!Next
  <1>. USE SameDomain DEF Write, Insert, Enqueue, Finish, Cancel, Redrive, WriteStatus
  <1>1. CASE Insert(o)
    BY <1>1 DEF Lifecycle!Next, Lifecycle!Submit
  <1>2. CASE Enqueue(o)
    <2>1. CanTransition(status[o], "QUEUED") /\ "QUEUED" \in Statuses
      BY <1>2 DEF CanTransition, transitions, Statuses
    <2>2. Lifecycle!Move(o, "QUEUED")
      BY <1>2, <2>1 DEF Lifecycle!Move
    <2>. QED
      BY <2>1, <2>2 DEF Lifecycle!Next
  <1>3. CASE Finish(o)
    <2>1. PICK s \in {"SUCCEEDED", "RETRYING", "DEAD_LETTERED"} :
                 WriteStatus(o, {"RUNNING"}, s)
      BY <1>3
    <2>2. CanTransition(status[o], s) /\ s \in Statuses
      BY <2>1 DEF CanTransition, transitions, Statuses
    <2>3. Lifecycle!Move(o, s)
      BY <2>1, <2>2 DEF Lifecycle!Move
    <2>. QED
      BY <2>2, <2>3 DEF Lifecycle!Next
  <1>4. CASE Cancel(o)
    <2>1. CanTransition(status[o], "CANCELLED") /\ "CANCELLED" \in Statuses
      BY <1>4 DEF CanTransition, transitions, Statuses, Cancellable
    <2>2. Lifecycle!Move(o, "CANCELLED")
      BY <1>4, <2>1 DEF Lifecycle!Move
    <2>. QED
      BY <2>1, <2>2 DEF Lifecycle!Next
  <1>5. CASE Redrive(o)
    <2>1. CASE status[o] = "DEAD_LETTERED"
      BY <1>5, <2>1 DEF Lifecycle!Next, Lifecycle!Redrive
    <2>2. CASE status[o] = "FAILED"
      <3>1. CanTransition(status[o], "RETRYING") /\ "RETRYING" \in Statuses
        BY <2>2 DEF CanTransition, transitions, Statuses
      <3>2. Lifecycle!Move(o, "RETRYING")
        BY <1>5, <3>1 DEF Lifecycle!Move
      <3>. QED
        BY <3>1, <3>2 DEF Lifecycle!Next
    <2>. QED
      BY <1>5, <2>1, <2>2 DEF Redrivable
  <1>. QED
    BY <1>1, <1>2, <1>3, <1>4, <1>5

\* The commit of a claim is the lifecycle's atomic claim: its stale count
\* bounds the true one, and its row is still claimable.
LEMMA CommitMoves ==
    ASSUME IInv, NEW x \in Claimer, CommitClaim(x)
    PROVE  Lifecycle!Next
  <1>. DEFINE o == target[x]
  <1>1. o \in Op
    BY DEF IInv, TypeOK, CommitClaim
  <1>2. CanTransition(status[o], "RUNNING")
    BY DEF CommitClaim, Claimable, CanTransition, transitions
  <1>3. Cardinality(RunningOf(TenantOf[o])) < ConcurrencyLimit[TenantOf[o]]
    <2>1. Cardinality(RunningOf(TenantOf[o])) <= running[x]
      BY DEF IInv, CountNotBelow, CommitClaim
    <2>2. /\ running[x] \in Nat
          /\ Cardinality(RunningOf(TenantOf[o])) \in Nat
          /\ ConcurrencyLimit[TenantOf[o]] \in Nat
      BY <1>1, RunningFinite, TenantOfType, LimitType DEF IInv, TypeOK
    <2>. QED
      BY <2>1, <2>2 DEF CommitClaim
  <1>4. Lifecycle!Claim(o)
    BY <1>2, <1>3, SameDomain, SameCardinality DEF Lifecycle!Claim, Lifecycle!RunningOf, RunningOf, CommitClaim
  <1>. QED
    BY <1>1, <1>4 DEF Lifecycle!Next

\* claimOperation and the statements it races with implement the lifecycle:
\* seen through the status column, a claim is one atomic step taken below
\* the limit, and every other step follows the domain map.
THEOREM ClaimRefinesLifecycle == Spec => LifecycleSpec
  <1>1. Init => Lifecycle!Init
    BY SameDomain DEF Init, Lifecycle!Init
  <1>2. IInv /\ [Next]_vars => [Lifecycle!Next]_status
    <2>. SUFFICES ASSUME IInv, [Next]_vars
                  PROVE  Lifecycle!Next \/ UNCHANGED status
      OBVIOUS
    <2>1. CASE \E x \in Claimer : ClaimStep(x)
      BY <2>1, CommitMoves
         DEF ClaimStep, LockOperation, LockTenant, CountRunning, RejectAtLimit, Rollback
    <2>2. CASE \E o \in Op : Write(o)
      BY <2>2, WriteMoves DEF IInv
    <2>. QED
      BY <2>1, <2>2 DEF Next, vars
  <1>. QED
    BY <1>1, <1>2, ClaimInvariant, PTL DEF Spec, LifecycleSpec, Lifecycle!Spec
=============================================================================

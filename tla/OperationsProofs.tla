-------------------------- MODULE OperationsProofs --------------------------
(***************************************************************************)
(* What every step of the Operations service preserves, whichever workers  *)
(* call it.  The proofs of the worker modules build on these lemmas.       *)
(***************************************************************************)
EXTENDS Operations, FiniteSetTheorems, TLAPS

\* A create between its checks and its INSERT has no row yet.
AdmittedNew == \A o \in admitted : row[o].status = NoRow

ServiceInv ==
    /\ ServiceTypeOK
    /\ LeaseIffRunning
    /\ AdmittedNew

\* What a claim does to the row it claims and to the others.
LEMMA ClaimRow ==
    ASSUME ServiceTypeOK, NEW o \in Op, NEW w \in Worker, ClaimOperation(o, w)
    PROVE  /\ row' \in [Op -> Row]
           /\ row[o].attempt \in Nat
           /\ row'[o].status = "RUNNING" /\ row'[o].owner = w /\ row'[o].expired = FALSE
           /\ row'[o].attempt = row[o].attempt + 1
           /\ \A p \in Op \ {o} : row'[p] = row[p]
  <1>1. row[o] \in Row /\ row[o].attempt + 1 \in Nat
    BY DEF ServiceTypeOK, Row
  <1>. DEFINE r == [row[o] EXCEPT !.status = "RUNNING", !.attempt = @ + 1,
                                  !.owner = w, !.expired = FALSE]
  <1>2. r \in Row /\ r.status = "RUNNING" /\ r.owner = w /\ r.expired = FALSE
          /\ r.attempt = row[o].attempt + 1
    BY <1>1 DEF Row, Statuses
  <1>3. row' = [row EXCEPT ![o] = r]
    BY DEF ClaimOperation, ServiceTypeOK, Row
  <1>. HIDE DEF r
  <1>. QED
    BY <1>1, <1>2, <1>3 DEF ServiceTypeOK, Row

\* A failure that the bound admits leaves the counter in its type.
LEMMA FaultCounted ==
    ASSUME faults \in 0..MaxFaults, Fault
    PROVE  faults' \in 0..MaxFaults
  BY BoundsType DEF Fault

\* Taking an operation out of RUNNING, or keeping it out, with its lease
\* cleared: what cancel, the reports and the reaper do to the row.
LEMMA LeaseCleared ==
    ASSUME ServiceInv, NEW o \in Op, row[o].status # NoRow,
           NEW s \in Statuses \ {"RUNNING"}, row' = WithoutLease(o, s),
           admitted' \subseteq admitted
    PROVE  row' \in [Op -> Row] /\ LeaseIffRunning' /\ AdmittedNew'
  <1>. USE DEF ServiceInv, WithoutLease
  <1>1. row' \in [Op -> Row]
    <2>1. row \in [Op -> Row] /\ row[o] \in Row
      BY DEF ServiceTypeOK
    <2>2. [row[o] EXCEPT !.status = s, !.owner = NoWorker, !.expired = FALSE] \in Row
      BY <2>1 DEF Row
    <2>3. row' = [row EXCEPT ![o] =
                    [row[o] EXCEPT !.status = s, !.owner = NoWorker, !.expired = FALSE]]
      OBVIOUS
    <2>. QED
      BY <2>1, <2>2, <2>3
  <1>2. /\ row'[o].status = s /\ row'[o].owner = NoWorker /\ row'[o].expired = FALSE
        /\ \A p \in Op \ {o} : row'[p] = row[p]
    BY DEF ServiceTypeOK, Row
  <1>3. LeaseIffRunning'
    BY <1>2 DEF LeaseIffRunning
  <1>4. AdmittedNew'
    BY <1>2 DEF AdmittedNew, ServiceTypeOK
  <1>. QED
    BY <1>1, <1>3, <1>4

\* The empty tables, stream and workflow store satisfy the invariant.
LEMMA ServiceInitInv == ServiceInit => ServiceInv
  <1>. SUFFICES ASSUME ServiceInit PROVE ServiceInv
    OBVIOUS
  <1>1. ServiceTypeOK
    BY BoundsType DEF ServiceInit, ServiceTypeOK, Row, NoRow
  <1>2. LeaseIffRunning /\ AdmittedNew
    BY DEF ServiceInit, LeaseIffRunning, AdmittedNew, NoRow
  <1>. QED
    BY <1>1, <1>2 DEF ServiceInv

-----------------------------------------------------------------------------
\* create, cancel, redrive and the passing of time preserve the invariant.
LEMMA RowStepInv ==
    ASSUME ServiceInv, NEW o \in Op,
           Admit(o) \/ Insert(o) \/ Cancel(o) \/ Redrive(o) \/ LeaseExpires(o)
    PROVE  ServiceInv'
  <1>. USE DEF ServiceInv
  <1>1. CASE Admit(o)
    <2>1. ServiceTypeOK' /\ LeaseIffRunning' /\ AdmittedNew'
      BY <1>1 DEF Admit, ServiceTypeOK, LeaseIffRunning, AdmittedNew
    <2>. QED
      BY <2>1
  <1>2. CASE Insert(o)
    <2>1. row[o].status = NoRow
      BY <1>2 DEF Insert, AdmittedNew
    <2>2. ServiceTypeOK'
      <3>1. row' \in [Op -> Row]
        BY <1>2 DEF Insert, ServiceTypeOK, Row, Statuses
      <3>2. starting' \subseteq WorkflowId
        BY <1>2 DEF Insert, ServiceTypeOK, WorkflowId
      <3>. QED
        BY <1>2, <3>1, <3>2 DEF Insert, ServiceTypeOK
    <2>3. LeaseIffRunning' /\ AdmittedNew'
      BY <1>2, <2>1 DEF Insert, ServiceTypeOK, Row, LeaseIffRunning, AdmittedNew, NoRow
    <2>. QED
      BY <2>2, <2>3
  <1>3. CASE Cancel(o)
    <2>1. row[o].status # NoRow /\ "CANCELLED" \in Statuses \ {"RUNNING"}
      BY <1>3 DEF Cancel, Cancellable, NoRow, Statuses
    <2>2. row' \in [Op -> Row] /\ LeaseIffRunning' /\ AdmittedNew'
      BY <1>3, <2>1, LeaseCleared DEF Cancel
    <2>3. ServiceTypeOK'
      BY <1>3, <2>2 DEF Cancel, ServiceTypeOK
    <2>. QED
      BY <2>2, <2>3
  <1>4. CASE Redrive(o)
    <2>. USE <1>4 DEF Redrive
    <2>1. ServiceTypeOK'
      <3>1. row' \in [Op -> Row]
        BY DEF ServiceTypeOK, Row, Statuses
      <3>2. redrives[o] \in Nat /\ redrives' \in [Op -> 0..MaxRedrives]
        BY BoundsType DEF ServiceTypeOK
      <3>3. starting' \subseteq WorkflowId
        BY <3>2 DEF ServiceTypeOK, WorkflowId
      <3>. QED
        BY <3>1, <3>2, <3>3 DEF ServiceTypeOK
    <2>2. LeaseIffRunning' /\ AdmittedNew'
      BY DEF ServiceTypeOK, Row, LeaseIffRunning, AdmittedNew, Redrivable, NoRow
    <2>. QED
      BY <2>1, <2>2
  <1>5. CASE LeaseExpires(o)
    <2>. USE <1>5 DEF LeaseExpires
    <2>1. ServiceTypeOK'
      BY DEF ServiceTypeOK, Row
    <2>2. LeaseIffRunning' /\ AdmittedNew'
      BY DEF ServiceTypeOK, Row, LeaseIffRunning, AdmittedNew, NoRow
    <2>. QED
      BY <2>1, <2>2
  <1>. QED
    BY <1>1, <1>2, <1>3, <1>4, <1>5

\* RunWorkflow and the steps of the workflow preserve the invariant.
LEMMA WorkflowStepInv ==
    ASSUME ServiceInv, NEW id,
           \/ StartWorkflow(id) \/ StartFails(id)
           \/ id \in DOMAIN workflow /\ (EnqueueStep(id) \/ EnqueueFails(id))
    PROVE  ServiceInv'
  <1>. USE DEF ServiceInv
  <1>1. CASE StartWorkflow(id) \/ StartFails(id)
    <2>1. ServiceTypeOK'
      <3>1. CASE StartWorkflow(id)
        BY <3>1 DEF StartWorkflow, ServiceTypeOK, Stage
      <3>2. CASE StartFails(id)
        BY <3>2, FaultCounted DEF StartFails, ServiceTypeOK
      <3>. QED
        BY <1>1, <3>1, <3>2
    <2>2. LeaseIffRunning' /\ AdmittedNew'
      BY <1>1 DEF StartWorkflow, StartFails, LeaseIffRunning, AdmittedNew
    <2>. QED
      BY <2>1, <2>2
  <1>2. ASSUME id \in DOMAIN workflow, EnqueueUpdate(id)
        PROVE  ServiceInv'
    <2>. USE <1>2 DEF EnqueueUpdate
    <2>1. id[2] \in Op
      BY DEF ServiceTypeOK, WorkflowId
    <2>2. ServiceTypeOK'
      <3>0. [row EXCEPT ![id[2]].status = "QUEUED"] \in [Op -> Row]
        <4>. HIDE <1>2
        <4>. QED
          BY <2>1 DEF ServiceTypeOK, Row, Statuses
      <3>1. row' \in [Op -> Row]
        BY <3>0 DEF ServiceTypeOK
      <3>2. DOMAIN workflow' \subseteq WorkflowId
               /\ \A i \in DOMAIN workflow' : workflow'[i] \in Stage
        BY DEF ServiceTypeOK, Stage
      <3>. QED
        BY <3>1, <3>2 DEF ServiceTypeOK
    <2>3. LeaseIffRunning' /\ AdmittedNew'
      <3>1. CASE UNCHANGED row
        BY <3>1 DEF LeaseIffRunning, AdmittedNew
      <3>2. CASE /\ row[id[2]].status \in {"PENDING", "RETRYING"}
                 /\ row' = [row EXCEPT ![id[2]].status = "QUEUED"]
        BY <2>1, <3>2 DEF ServiceTypeOK, Row, LeaseIffRunning, AdmittedNew, NoRow
      <3>. QED
        BY <3>1, <3>2
    <2>. QED
      BY <2>2, <2>3
  <1>3. ASSUME id \in DOMAIN workflow,
               EnqueueSelect(id) \/ EnqueueCheckpoint(id) \/ EnqueueFails(id)
        PROVE  ServiceInv'
    <2>. USE <1>3 DEF EnqueueSelect, EnqueueCheckpoint, EnqueueFails
    <2>1. faults' \in 0..MaxFaults
      BY FaultCounted DEF ServiceTypeOK
    <2>2. DOMAIN workflow' \subseteq WorkflowId
             /\ \A i \in DOMAIN workflow' : workflow'[i] \in Stage
      BY DEF ServiceTypeOK, Stage
    <2>3. ServiceTypeOK'
      BY <2>1, <2>2 DEF ServiceTypeOK
    <2>4. LeaseIffRunning' /\ AdmittedNew'
      BY DEF LeaseIffRunning, AdmittedNew
    <2>. QED
      BY <2>3, <2>4
  <1>4. ASSUME id \in DOMAIN workflow, EnqueuePublish(id)
        PROVE  ServiceInv'
    <2>. USE <1>4 DEF EnqueuePublish
    <2>1. [op |-> id[2], attempt |-> EnvelopeAttempt(id)] \in [op : Op, attempt : Nat]
      BY DEF ServiceTypeOK, WorkflowId, EnvelopeAttempt
    <2>2. stream' \in Seq([op : Op, attempt : Nat])
      BY <2>1 DEF ServiceTypeOK
    <2>3. ServiceTypeOK'
      BY <2>2 DEF ServiceTypeOK, Stage
    <2>4. LeaseIffRunning' /\ AdmittedNew'
      BY DEF LeaseIffRunning, AdmittedNew
    <2>. QED
      BY <2>3, <2>4
  <1>. QED
    BY <1>1, <1>2, <1>3, <1>4 DEF EnqueueStep

\* The reaper preserves the invariant.
LEMMA ReaperStepInv ==
    ASSUME ServiceInv,
           \/ ReaperScan
           \/ \E r \in reaping : Reap(r[1], r[2]) \/ ReapFails(r[1], r[2])
    PROVE  ServiceInv'
  <1>. USE DEF ServiceInv
  <1>1. CASE ReaperScan
    <2>1. ServiceTypeOK'
      BY <1>1 DEF ReaperScan, ServiceTypeOK, Row
    <2>2. LeaseIffRunning' /\ AdmittedNew'
      BY <1>1 DEF ReaperScan, LeaseIffRunning, AdmittedNew
    <2>. QED
      BY <2>1, <2>2
  <1>2. ASSUME NEW o \in Op, NEW a \in Nat, Reap(o, a)
        PROVE  ServiceInv'
    <2>1. reaping' \subseteq Op \X Nat
      BY <1>2 DEF Reap, ServiceTypeOK
    <2>2. CASE UNCHANGED <<row, event_outbox, starting>>
      <3>1. ServiceTypeOK' /\ LeaseIffRunning' /\ AdmittedNew'
        BY <1>2, <2>1, <2>2 DEF Reap, ServiceTypeOK, LeaseIffRunning, AdmittedNew
      <3>. QED
        BY <3>1
    <2>3. CASE Expired(o) /\ row' = WithoutLease(o, "DEAD_LETTERED")
                 /\ event_outbox' = event_outbox
                                      \cup {<<o, "operation.dead_lettered", a>>}
                 /\ UNCHANGED starting
      <3>1. row[o].status # NoRow /\ "DEAD_LETTERED" \in Statuses \ {"RUNNING"}
        BY <2>3 DEF Expired, NoRow, Statuses
      <3>2. row' \in [Op -> Row] /\ LeaseIffRunning' /\ AdmittedNew'
        BY <1>2, <2>3, <3>1, LeaseCleared DEF Reap
      <3>3. event_outbox' \subseteq Op \X EventType \X Nat
        BY <2>3 DEF ServiceTypeOK, EventType
      <3>4. ServiceTypeOK'
        BY <1>2, <2>1, <2>3, <3>2, <3>3 DEF Reap, ServiceTypeOK
      <3>. QED
        BY <3>2, <3>4
    <2>4. CASE Expired(o) /\ row' = WithoutLease(o, "RETRYING")
                 /\ starting' = starting \cup {<<"lease-recovery", o, a>>}
                 /\ UNCHANGED event_outbox
      <3>1. row[o].status # NoRow /\ "RETRYING" \in Statuses \ {"RUNNING"}
        BY <2>4 DEF Expired, NoRow, Statuses
      <3>2. row' \in [Op -> Row] /\ LeaseIffRunning' /\ AdmittedNew'
        BY <1>2, <2>4, <3>1, LeaseCleared DEF Reap
      <3>3. starting' \subseteq WorkflowId
        BY <2>4 DEF ServiceTypeOK, WorkflowId
      <3>4. ServiceTypeOK'
        BY <1>2, <2>1, <2>4, <3>2, <3>3 DEF Reap, ServiceTypeOK
      <3>. QED
        BY <3>2, <3>4
    <2>. QED
      BY <1>2, <2>2, <2>3, <2>4 DEF Reap
  <1>3. ASSUME NEW o, NEW a, ReapFails(o, a)
        PROVE  ServiceInv'
    <2>1. ServiceTypeOK'
      BY <1>3, FaultCounted DEF ReapFails, ServiceTypeOK
    <2>2. LeaseIffRunning' /\ AdmittedNew'
      BY <1>3 DEF ReapFails, LeaseIffRunning, AdmittedNew
    <2>. QED
      BY <2>1, <2>2
  <1>4. \A r \in reaping : r[1] \in Op /\ r[2] \in Nat
    BY DEF ServiceTypeOK
  <1>. QED
    BY <1>1, <1>2, <1>3, <1>4

\* Every step the service takes without a worker preserves the invariant.
LEMMA ServiceStepInv == ServiceInv /\ ServiceStep => ServiceInv'
  BY RowStepInv, WorkflowStepInv, ReaperStepInv DEF ServiceStep

\* A crash of the service preserves the invariant.
LEMMA CrashInv == ServiceInv /\ ServiceCrash => ServiceInv'
  <1>. SUFFICES ASSUME ServiceInv, ServiceCrash PROVE ServiceInv'
    OBVIOUS
  <1>. USE DEF ServiceInv, ServiceCrash
  <1>1. ServiceTypeOK'
    BY FaultCounted DEF ServiceTypeOK, Stage
  <1>2. LeaseIffRunning' /\ AdmittedNew'
    BY DEF LeaseIffRunning, AdmittedNew
  <1>. QED
    BY <1>1, <1>2

\* A step that leaves the service's state alone preserves its invariant.
LEMMA ServiceUnchanged == ServiceInv /\ UNCHANGED serviceVars => ServiceInv'
  <1>. SUFFICES ASSUME ServiceInv, UNCHANGED serviceVars PROVE ServiceInv'
    OBVIOUS
  <1>. USE DEF ServiceInv, serviceVars
  <1>1. ServiceTypeOK'
    BY DEF ServiceTypeOK
  <1>2. LeaseIffRunning' /\ AdmittedNew'
    BY DEF LeaseIffRunning, AdmittedNew
  <1>. QED
    BY <1>1, <1>2

\* So does one that only counts a failure.
LEMMA ServiceFault ==
    ASSUME ServiceInv, Fault \/ UNCHANGED faults,
           UNCHANGED <<row, event_outbox, workflow, stream, admitted, starting,
                       reaping, redrives>>
    PROVE  ServiceInv'
  <1>. USE DEF ServiceInv
  <1>1. ServiceTypeOK'
    BY FaultCounted DEF ServiceTypeOK
  <1>2. LeaseIffRunning' /\ AdmittedNew'
    BY DEF LeaseIffRunning, AdmittedNew
  <1>. QED
    BY <1>1, <1>2

\* The service only ever appends to the stream.
LEMMA StreamGrows ==
    ASSUME ServiceInv, ServiceStep \/ ServiceCrash
    PROVE  /\ Len(stream) \in Nat /\ Len(stream') \in Nat /\ Len(stream) <= Len(stream')
           /\ \A i \in 1..Len(stream) : stream'[i] = stream[i]
  <1>1. Len(stream) \in Nat
    BY DEF ServiceInv, ServiceTypeOK
  <1>2. ASSUME NEW id \in DOMAIN workflow, EnqueuePublish(id)
        PROVE  /\ Len(stream') = Len(stream) + 1
               /\ \A i \in 1..Len(stream) : stream'[i] = stream[i]
    <2>1. [op |-> id[2], attempt |-> EnvelopeAttempt(id)] \in [op : Op, attempt : Nat]
      BY DEF ServiceInv, ServiceTypeOK, WorkflowId, EnvelopeAttempt
    <2>. QED
      BY <1>2, <2>1 DEF EnqueuePublish, ServiceInv, ServiceTypeOK
  <1>3. CASE UNCHANGED stream
    BY <1>1, <1>3
  <1>4. UNCHANGED stream \/ \E id \in DOMAIN workflow : EnqueuePublish(id)
    BY DEF ServiceStep, ServiceCrash, Admit, Insert, Cancel, Redrive, LeaseExpires,
           StartWorkflow, StartFails, EnqueueStep, EnqueueUpdate, EnqueueSelect,
           EnqueueCheckpoint, EnqueueFails, ReaperScan, Reap, ReapFails
  <1>. QED
    BY <1>1, <1>2, <1>3, <1>4

-----------------------------------------------------------------------------
(* The lifecycle.  Its instance has its own copies of the definitions of    *)
(* OperationStatus and FiniteSets; they are the same ones.                  *)

LEMMA SameCardinality ==
    ASSUME NEW S
    PROVE  Lifecycle!Cardinality(S) = Cardinality(S)
  BY DEF Lifecycle!Cardinality, Cardinality

\* Likewise the domain map of internal/domain/state.go.
LEMMA SameDomain ==
    /\ Lifecycle!Statuses = Statuses
    /\ Lifecycle!NoRow = NoRow
    /\ \A s, u : Lifecycle!CanTransition(s, u) <=> CanTransition(s, u)
  BY DEF Lifecycle!Statuses, Statuses, Lifecycle!NoRow, NoRow,
         Lifecycle!CanTransition, CanTransition, Lifecycle!transitions, transitions

\* The column the lifecycle is about
StatusOf == [o \in Op |-> row[o].status]

\* One row takes a new status.
RowTakes(o, s) ==
    /\ row'[o].status = s
    /\ \A p \in Op \ {o} : row'[p].status = row[p].status

\* A row that takes a status along the domain map moves the lifecycle.
LEMMA MoveAllowed ==
    ASSUME NEW o \in Op, NEW s \in Statuses \ {"RUNNING"}, RowTakes(o, s),
           CanTransition(row[o].status, s)
    PROVE  Lifecycle!Next
  <1>1. StatusOf' = [StatusOf EXCEPT ![o] = s]
    BY DEF StatusOf, RowTakes
  <1>2. Lifecycle!Move(o, s)
    BY <1>1, SameDomain DEF Lifecycle!Move, StatusOf
  <1>. QED
    BY <1>2, SameDomain DEF Lifecycle!Next

\* A claim is the lifecycle's.
LEMMA ClaimMoves ==
    ASSUME ServiceTypeOK, NEW o \in Op, NEW w \in Worker, ClaimOperation(o, w)
    PROVE  Lifecycle!Next
  <1>1. RowTakes(o, "RUNNING")
    BY ClaimRow DEF RowTakes
  <1>2. StatusOf' = [StatusOf EXCEPT ![o] = "RUNNING"]
    BY <1>1 DEF StatusOf, RowTakes
  <1>3. CanTransition(row[o].status, "RUNNING")
    BY DEF ClaimOperation, Claimable, CanTransition, transitions
  <1>4. Lifecycle!RunningOf(TenantOf[o]) = RunningOf(TenantOf[o])
    BY DEF Lifecycle!RunningOf, RunningOf
  <1>5. Cardinality(RunningOf(TenantOf[o])) < ConcurrencyLimit[TenantOf[o]]
    BY DEF ClaimOperation, BelowLimit
  <1>6. Lifecycle!Claim(o)
    BY <1>2, <1>3, <1>4, <1>5, SameDomain, SameCardinality DEF Lifecycle!Claim, StatusOf
  <1>. QED
    BY <1>6 DEF Lifecycle!Next

\* A report of the lease's owner, or the reaper, ends a RUNNING operation.
LEMMA ReportMoves ==
    ASSUME ServiceTypeOK, NEW o \in Op, row[o].status = "RUNNING",
           NEW s \in {"SUCCEEDED", "RETRYING", "DEAD_LETTERED"}, row' = WithoutLease(o, s)
    PROVE  Lifecycle!Next
  <1>1. RowTakes(o, s)
    BY DEF RowTakes, WithoutLease, ServiceTypeOK, Row
  <1>2. s \in Statuses \ {"RUNNING"} /\ CanTransition("RUNNING", s)
    BY DEF Statuses, CanTransition, transitions
  <1>. QED
    BY <1>1, <1>2, MoveAllowed

\* Every step the service takes without a worker is one of the lifecycle, or
\* leaves every status alone.
LEMMA ServiceMoves ==
    ASSUME ServiceInv, ServiceStep
    PROVE  Lifecycle!Next \/ UNCHANGED StatusOf
  <1>. USE DEF ServiceInv
  <1>1. ASSUME NEW o \in Op, Insert(o)
        PROVE  Lifecycle!Next
    <2>1. row[o].status = NoRow /\ RowTakes(o, "PENDING")
      BY <1>1 DEF Insert, AdmittedNew, RowTakes, ServiceTypeOK, Row
    <2>2. StatusOf' = [StatusOf EXCEPT ![o] = "PENDING"]
      BY <2>1 DEF StatusOf, RowTakes
    <2>3. Lifecycle!Submit(o)
      BY <2>1, <2>2, SameDomain DEF Lifecycle!Submit, StatusOf
    <2>. QED
      BY <2>3 DEF Lifecycle!Next
  <1>2. ASSUME NEW o \in Op, Cancel(o)
        PROVE  Lifecycle!Next
    <2>1. RowTakes(o, "CANCELLED")
      BY <1>2 DEF Cancel, RowTakes, WithoutLease, ServiceTypeOK, Row
    <2>2. CanTransition(row[o].status, "CANCELLED") /\ "CANCELLED" \in Statuses \ {"RUNNING"}
      BY <1>2 DEF Cancel, Cancellable, CanTransition, transitions, Statuses
    <2>. QED
      BY <2>1, <2>2, MoveAllowed
  <1>3. ASSUME NEW o \in Op, Redrive(o)
        PROVE  Lifecycle!Next
    <2>1. RowTakes(o, "RETRYING")
      BY <1>3 DEF Redrive, RowTakes, ServiceTypeOK, Row
    <2>2. CASE row[o].status = "FAILED"
      <3>1. CanTransition(row[o].status, "RETRYING") /\ "RETRYING" \in Statuses \ {"RUNNING"}
        BY <2>2 DEF CanTransition, transitions, Statuses
      <3>. QED
        BY <2>1, <3>1, MoveAllowed
    <2>3. CASE row[o].status = "DEAD_LETTERED"
      <3>1. StatusOf' = [StatusOf EXCEPT ![o] = "RETRYING"]
        BY <2>1 DEF StatusOf, RowTakes
      <3>2. Lifecycle!Redrive(o)
        BY <2>3, <3>1 DEF Lifecycle!Redrive, StatusOf
      <3>. QED
        BY <3>2 DEF Lifecycle!Next
    <2>. QED
      BY <1>3, <2>2, <2>3 DEF Redrive, Redrivable
  <1>4. ASSUME NEW o \in Op, LeaseExpires(o)
        PROVE  UNCHANGED StatusOf
    BY <1>4 DEF LeaseExpires, StatusOf, ServiceTypeOK, Row
  <1>5. ASSUME NEW id \in DOMAIN workflow, EnqueueUpdate(id)
        PROVE  Lifecycle!Next \/ UNCHANGED StatusOf
    <2>1. id[2] \in Op
      BY DEF ServiceTypeOK, WorkflowId
    <2>2. CASE /\ row[id[2]].status \in {"PENDING", "RETRYING"}
               /\ row' = [row EXCEPT ![id[2]].status = "QUEUED"]
      <3>1. RowTakes(id[2], "QUEUED")
        BY <2>1, <2>2 DEF RowTakes, ServiceTypeOK, Row
      <3>2. CanTransition(row[id[2]].status, "QUEUED") /\ "QUEUED" \in Statuses \ {"RUNNING"}
        BY <2>2 DEF CanTransition, transitions, Statuses
      <3>. QED
        BY <2>1, <3>1, <3>2, MoveAllowed
    <2>3. CASE UNCHANGED row
      BY <2>3 DEF StatusOf
    <2>. QED
      BY <1>5, <2>2, <2>3 DEF EnqueueUpdate
  <1>6. ASSUME NEW r \in reaping, Reap(r[1], r[2])
        PROVE  Lifecycle!Next \/ UNCHANGED StatusOf
    <2>1. r[1] \in Op
      BY DEF ServiceTypeOK
    <2>2. CASE UNCHANGED row
      BY <2>2 DEF StatusOf
    <2>3. CASE Expired(r[1])
      <3>1. PICK s \in {"RETRYING", "DEAD_LETTERED"} : row' = WithoutLease(r[1], s)
        BY <1>6, <2>3 DEF Reap
      <3>. QED
        BY <2>1, <2>3, <3>1, ReportMoves DEF Expired
    <2>. QED
      BY <1>6, <2>2, <2>3 DEF Reap
  <1>7. \/ UNCHANGED row
        \/ \E o \in Op : Insert(o) \/ Cancel(o) \/ Redrive(o) \/ LeaseExpires(o)
        \/ \E id \in DOMAIN workflow : EnqueueUpdate(id)
        \/ \E r \in reaping : Reap(r[1], r[2])
    BY DEF ServiceStep, Admit, StartWorkflow, StartFails, EnqueueStep, EnqueueSelect,
           EnqueuePublish, EnqueueCheckpoint, EnqueueFails, ReaperScan, ReapFails
  <1>8. UNCHANGED row => UNCHANGED StatusOf
    BY DEF StatusOf
  <1>. QED
    BY <1>1, <1>2, <1>3, <1>4, <1>5, <1>6, <1>7, <1>8

\* In the lifecycle a success is final.
LEMMA SucceededStays ==
    ASSUME Lifecycle!Next \/ UNCHANGED StatusOf, NEW o \in Op, row[o].status = "SUCCEEDED"
    PROVE  row'[o].status = "SUCCEEDED"
  <1>1. CASE UNCHANGED StatusOf
    BY <1>1 DEF StatusOf
  <1>2. CASE Lifecycle!Next
    <2>1. PICK p \in Op : \/ Lifecycle!Submit(p) \/ Lifecycle!Claim(p)
                          \/ \E s \in Lifecycle!Statuses : Lifecycle!Move(p, s)
                          \/ Lifecycle!Redrive(p)
      BY <1>2 DEF Lifecycle!Next
    <2>2. row[p].status # "SUCCEEDED" /\ \E s : StatusOf' = [StatusOf EXCEPT ![p] = s]
      BY <2>1, SameDomain DEF Lifecycle!Submit, Lifecycle!Claim, Lifecycle!Move,
                   Lifecycle!Redrive, StatusOf, NoRow, CanTransition, transitions
    <2>3. StatusOf'[o] = StatusOf[o]
      BY <2>2 DEF StatusOf
    <2>. QED
      BY <2>3 DEF StatusOf
  <1>. QED
    BY <1>1, <1>2

-----------------------------------------------------------------------------
(* What a step does to the rows.                                           *)

Waiting == {"PENDING", "QUEUED", "RETRYING"}

\* The reaper has each operation in its hands once.
SeenOnce == \A r, s \in reaping : r[1] = s[1] => r = s

\* The reaper decides, by an attempt below the budget, to retry the operation.
Reaped(o) ==
    \E r \in reaping : r[1] = o /\ r[2] < MaxAttempts[o] /\ reaping' = reaping \ {r}

\* What a step other than a claim may do to a row: it gives no lease and counts
\* no attempt; and the operation waits afterwards only if it did before, if it
\* is redriven, or if its attempt was found to be within the budget.
RowStep(o) ==
    /\ row'[o].status = "RUNNING" =>
          row[o].status = "RUNNING" /\ row'[o].owner = row[o].owner
    /\ \/ /\ row'[o].attempt = 0 /\ row'[o].status = "RETRYING"
          /\ redrives'[o] > 0
       \/ /\ row'[o].attempt = row[o].attempt
          /\ \/ row'[o].status = row[o].status
             \/ row'[o].status \notin Waiting \cup {NoRow}
             \/ row[o].status \in Waiting \cup {NoRow} /\ row'[o].status \in Waiting
             \/ /\ row'[o].status = "RETRYING"
                /\ row[o].attempt < MaxAttempts[o] \/ Reaped(o)

\* A lease is kept by its owner, for the same attempt, or ends.
KeepsLease(o) ==
    row'[o].status = "RUNNING" =>
        /\ row[o].status = "RUNNING" /\ row'[o].owner = row[o].owner
        /\ row'[o].attempt = row[o].attempt

LEMMA RowKeepsLease ==
    ASSUME NEW o \in Op, RowStep(o)
    PROVE  KeepsLease(o)
  BY DEF RowStep, KeepsLease

\* A row that no statement touches
LEMMA RowSame ==
    ASSUME NEW o \in Op, row'[o] = row[o]
    PROVE  RowStep(o)
  BY DEF RowStep

\* The statements that clear a lease
LEMMA RowCleared ==
    ASSUME ServiceTypeOK, NEW o \in Op, NEW s \in Statuses \ {"RUNNING"},
           row' = WithoutLease(o, s),
           s \in Waiting => s = "RETRYING" /\ (row[o].attempt < MaxAttempts[o] \/ Reaped(o))
    PROVE  \A p \in Op : RowStep(p)
  <1>1. /\ row'[o].status = s /\ row'[o].attempt = row[o].attempt
        /\ \A p \in Op \ {o} : row'[p] = row[p]
    BY DEF ServiceTypeOK, WithoutLease, Row
  <1>2. s # NoRow
    BY DEF Statuses, NoRow
  <1>3. RowStep(o)
    BY <1>1, <1>2 DEF RowStep
  <1>. QED
    BY <1>1, <1>3, RowSame

\* The service by itself gives no lease, counts no attempt, and lets an
\* operation wait again only as RowStep says.
LEMMA ServiceRows ==
    ASSUME ServiceInv, ServiceStep
    PROVE  \A p \in Op : RowStep(p)
  <1>. USE DEF ServiceInv
  <1>1. CASE UNCHANGED row
    BY <1>1, RowSame
  <1>2. ASSUME NEW o \in Op, Insert(o)
        PROVE  \A p \in Op : RowStep(p)
    <2>1. /\ row[o].status = NoRow /\ row'[o].status = "PENDING"
          /\ row'[o].attempt = row[o].attempt /\ \A p \in Op \ {o} : row'[p] = row[p]
      BY <1>2 DEF Insert, AdmittedNew, ServiceTypeOK, Row
    <2>2. RowStep(o)
      BY <2>1 DEF RowStep, Waiting
    <2>. QED
      BY <2>1, <2>2, RowSame
  <1>3. ASSUME NEW o \in Op, Cancel(o)
        PROVE  \A p \in Op : RowStep(p)
    BY <1>3, RowCleared DEF Cancel, Statuses, Waiting
  <1>4. ASSUME NEW o \in Op, Redrive(o)
        PROVE  \A p \in Op : RowStep(p)
    <2>1. /\ row'[o].status = "RETRYING" /\ row'[o].attempt = 0 /\ redrives'[o] > 0
          /\ \A p \in Op \ {o} : row'[p] = row[p]
      BY <1>4 DEF Redrive, ServiceTypeOK, Row
    <2>2. RowStep(o)
      BY <2>1 DEF RowStep
    <2>. QED
      BY <2>1, <2>2, RowSame
  <1>5. ASSUME NEW o \in Op, LeaseExpires(o)
        PROVE  \A p \in Op : RowStep(p)
    <2>1. /\ row'[o].status = row[o].status /\ row'[o].owner = row[o].owner
          /\ row'[o].attempt = row[o].attempt /\ \A p \in Op \ {o} : row'[p] = row[p]
      BY <1>5 DEF LeaseExpires, ServiceTypeOK, Row
    <2>2. RowStep(o)
      BY <2>1 DEF RowStep
    <2>. QED
      BY <2>1, <2>2, RowSame
  <1>6. ASSUME NEW id \in DOMAIN workflow, EnqueueUpdate(id)
        PROVE  \A p \in Op : RowStep(p)
    <2>1. id[2] \in Op
      BY DEF ServiceTypeOK, WorkflowId
    <2>2. CASE /\ row[id[2]].status \in {"PENDING", "RETRYING"}
               /\ row' = [row EXCEPT ![id[2]].status = "QUEUED"]
      <3>1. /\ row'[id[2]].status = "QUEUED"
            /\ row'[id[2]].attempt = row[id[2]].attempt
            /\ \A p \in Op \ {id[2]} : row'[p] = row[p]
        BY <2>1, <2>2 DEF ServiceTypeOK, Row
      <3>2. RowStep(id[2])
        BY <2>2, <3>1 DEF RowStep, Waiting
      <3>. QED
        BY <3>1, <3>2, RowSame
    <2>. QED
      BY <1>1, <1>6, <2>2 DEF EnqueueUpdate
  <1>7. ASSUME NEW r \in reaping, Reap(r[1], r[2])
        PROVE  \A p \in Op : RowStep(p)
    <2>1. r = <<r[1], r[2]>> /\ r[1] \in Op
      BY DEF ServiceTypeOK
    <2>2. \/ UNCHANGED row
          \/ row' = WithoutLease(r[1], "DEAD_LETTERED")
          \/ row' = WithoutLease(r[1], "RETRYING") /\ Reaped(r[1])
      BY <1>7, <2>1 DEF Reap, Reaped
    <2>. QED
      BY <1>1, <2>1, <2>2, RowCleared DEF Statuses, Waiting
  <1>. QED
    BY <1>1, <1>2, <1>3, <1>4, <1>5, <1>6, <1>7
       DEF ServiceStep, Admit, StartWorkflow, StartFails, EnqueueStep, EnqueueSelect,
           EnqueuePublish, EnqueueCheckpoint, EnqueueFails, ReaperScan, ReapFails

-----------------------------------------------------------------------------
(* Budgets                                                                 *)

\* An operation waits only for an attempt within its budget.  Where the reaper
\* is about to retry it, the attempt beyond has not begun.
BudgetOK(o) ==
    /\ row[o].attempt <= MaxAttempts[o] + 1
    /\ row[o].status = NoRow => row[o].attempt = 0
    /\ row[o].status \in Waiting => row[o].attempt <= MaxAttempts[o]
    /\ \A r \in reaping : r[1] = o /\ r[2] < MaxAttempts[o] =>
          /\ row[o].attempt <= MaxAttempts[o]
          /\ row[o].status \in Waiting => row[o].attempt # MaxAttempts[o]

\* A step that is neither a claim nor a scan keeps an operation within its
\* budget.
LEMMA BudgetStays ==
    ASSUME ServiceInv, SeenOnce, NEW o \in Op, BudgetOK(o), RowStep(o),
           reaping' \subseteq reaping, row' \in [Op -> Row]
    PROVE  BudgetOK(o)'
  <1>1. /\ MaxAttempts[o] \in 1..10
        /\ row[o].attempt \in Nat /\ row'[o].attempt \in Nat
        /\ \A r \in reaping : r[2] \in Nat
    BY BudgetType DEF ServiceInv, ServiceTypeOK, Row
  <1>2. "RETRYING" \in Waiting /\ "RETRYING" # NoRow /\ NoRow \notin Waiting
    BY DEF Waiting, NoRow
  <1>3. CASE row'[o].attempt = 0 /\ row'[o].status = "RETRYING"
    BY <1>1, <1>2, <1>3 DEF BudgetOK
  <1>4. CASE row'[o].attempt = row[o].attempt /\ row'[o].status = row[o].status
    BY <1>1, <1>4 DEF BudgetOK
  <1>5. CASE row'[o].attempt = row[o].attempt /\ row'[o].status \notin Waiting \cup {NoRow}
    BY <1>1, <1>5 DEF BudgetOK
  <1>6. CASE /\ row'[o].attempt = row[o].attempt
             /\ row[o].status \in Waiting \cup {NoRow} /\ row'[o].status \in Waiting
    BY <1>1, <1>2, <1>6 DEF BudgetOK
  <1>7. CASE /\ row'[o].attempt = row[o].attempt /\ row'[o].status = "RETRYING"
             /\ row[o].attempt < MaxAttempts[o]
    BY <1>1, <1>2, <1>7 DEF BudgetOK
  <1>8. CASE /\ row'[o].attempt = row[o].attempt /\ row'[o].status = "RETRYING"
             /\ Reaped(o)
    <2>1. row[o].attempt <= MaxAttempts[o] /\ \A r \in reaping' : r[1] # o
      BY <1>8 DEF Reaped, SeenOnce, BudgetOK
    <2>. QED
      BY <1>1, <1>2, <1>8, <2>1 DEF BudgetOK
  <1>. QED
    BY <1>3, <1>4, <1>5, <1>6, <1>7, <1>8 DEF RowStep

\* A scan sees only running operations, at the attempt they are at.
LEMMA BudgetScanned ==
    ASSUME ServiceInv, NEW o \in Op, BudgetOK(o), ReaperScan
    PROVE  BudgetOK(o)'
  <1>1. UNCHANGED row /\ \A r \in reaping' : r[1] = o =>
                            r[2] = row[o].attempt /\ row[o].status = "RUNNING"
    BY DEF ReaperScan, Expired
  <1>2. MaxAttempts[o] \in 1..10 /\ row[o].attempt \in Nat /\ "RUNNING" \notin Waiting
    BY BudgetType DEF ServiceInv, ServiceTypeOK, Row, Waiting
  <1>. QED
    BY <1>1, <1>2 DEF BudgetOK

\* A claim takes an operation that waits, one attempt further.
LEMMA BudgetClaimed ==
    ASSUME ServiceInv, NEW o \in Op, BudgetOK(o), NEW p \in Op, NEW w \in Worker,
           ClaimOperation(p, w), UNCHANGED reaping
    PROVE  BudgetOK(o)'
  <1>1. /\ row'[p].status = "RUNNING" /\ row'[p].attempt = row[p].attempt + 1
        /\ \A q \in Op \ {p} : row'[q] = row[q]
    BY ClaimRow DEF ServiceInv
  <1>2. CASE o = p
    <2>1. /\ MaxAttempts[o] \in 1..10 /\ row[o].attempt \in Nat
          /\ "RUNNING" \notin Waiting /\ "RUNNING" # NoRow
          /\ row[o].status \in Waiting
      BY <1>2, BudgetType
         DEF ServiceInv, ServiceTypeOK, Row, Waiting, NoRow, ClaimOperation, Claimable
    <2>. QED
      BY <1>1, <1>2, <2>1 DEF BudgetOK
  <1>3. CASE o # p
    <2>1. row'[o] = row[o]
      BY <1>1, <1>3
    <2>. QED
      BY <2>1 DEF BudgetOK
  <1>. QED
    BY <1>2, <1>3

\* An empty table is within every budget.
LEMMA BudgetInit ==
    ASSUME ServiceInit, NEW o \in Op
    PROVE  BudgetOK(o)
  BY BudgetType DEF ServiceInit, BudgetOK, Waiting, NoRow

-----------------------------------------------------------------------------
(* Names of workflows, and what brings an operation to a worker.           *)

\* The names that DBOS knows or will be given
Used == starting \cup DOMAIN workflow

\* A workflow of the operation is about to run.
Bringing(o) ==
    \/ \E id \in starting : id[2] = o /\ id \notin DOMAIN workflow
    \/ \E id \in DOMAIN workflow : id[2] = o /\ workflow[id] = "sleep"

Publishing(o) == \E id \in DOMAIN workflow : id[2] = o /\ workflow[id] = "publish"

\* A name in use is about an attempt that is over; one of the reaper is about
\* an attempt before those the reaper has in its hands.
NameOK(id) ==
    /\ id[1] = "operation" => row[id[2]].status # NoRow
    /\ id[1] \in {"retry", "lease-recovery"} =>
          /\ id[3] <= row[id[2]].attempt
          /\ row[id[2]].status = "RUNNING" => id[3] < row[id[2]].attempt
    /\ id[1] = "lease-recovery" => \A r \in reaping : r[1] = id[2] => id[3] < r[2]

NamesOK(o) ==
    /\ \A id \in Used : id[2] = o => NameOK(id)
    /\ \A r \in reaping : r[1] = o => r[2] <= row[o].attempt

\* An operation that waits to be queued has a workflow that will queue it.
CarryOK(o) ==
    /\ NamesOK(o)
    /\ row[o].status \in {"PENDING", "RETRYING"} => Bringing(o)

\* Attempts only grow while an operation is not redriven, so names stay about
\* what is over.
LEMMA NamesKept ==
    ASSUME ServiceTypeOK, NEW o \in Op, NamesOK(o), row'[o].attempt \in Nat,
           \A id \in Used' : id[2] = o => id \in Used \/ NameOK(id)',
           \A r \in reaping' : r[1] = o =>
              r \in reaping \/ (row[o].status = "RUNNING" /\ r[2] = row[o].attempt),
           row[o].status # NoRow => row'[o].status # NoRow,
           \/ /\ row'[o].attempt = row[o].attempt
              /\ row'[o].status = "RUNNING" => row[o].status = "RUNNING"
           \/ row'[o].attempt = row[o].attempt + 1
    PROVE  NamesOK(o)'
  <1>1. /\ row[o].attempt \in Nat /\ \A id \in Used : id[3] \in Nat
        /\ \A r \in reaping : r[2] \in Nat
    BY DEF ServiceTypeOK, Row, Used, WorkflowId
  <1>2. ASSUME NEW r \in reaping', r[1] = o
        PROVE  r[2] \in Nat /\ r[2] <= row[o].attempt /\ r[2] <= row'[o].attempt
    BY <1>1, <1>2 DEF NamesOK
  <1>3. ASSUME NEW id \in Used, id[2] = o
        PROVE  NameOK(id)'
    <2>1. NameOK(id) /\ id[3] \in Nat
      BY <1>1, <1>3 DEF NamesOK
    <2>2. id[1] = "lease-recovery" => \A r \in reaping' : r[1] = o => id[3] < r[2]
      BY <1>1, <1>3, <2>1 DEF NameOK
    <2>. QED
      BY <1>1, <1>3, <2>1, <2>2 DEF NameOK
  <1>. QED
    BY <1>2, <1>3 DEF NamesOK

\* A fresh name is one of a workflow that will run.
LEMMA NameStarted ==
    ASSUME NEW o, NEW id, id[2] = o, id \in starting', id \notin Used, UNCHANGED workflow
    PROVE  Bringing(o)'
  BY DEF Bringing, Used

\* A workflow that will run stays until it runs.
LEMMA BringingKept ==
    ASSUME ServiceInv, NEW o \in Op, Bringing(o), ServiceStep, ~Fault,
           row'[o].status \in {"PENDING", "RETRYING"}
    PROVE  Bringing(o)'
  <1>. USE DEF ServiceInv, ServiceTypeOK
  <1>1. CASE starting \subseteq starting' /\ UNCHANGED workflow
    BY <1>1 DEF Bringing
  <1>2. ASSUME NEW id \in starting, StartWorkflow(id)
        PROVE  Bringing(o)'
    <2>1. /\ DOMAIN workflow' = DOMAIN workflow \cup {id}
          /\ \A i \in DOMAIN workflow : workflow'[i] = workflow[i]
          /\ id \notin DOMAIN workflow => workflow'[id] = "sleep"
          /\ starting' = starting \ {id}
      BY <1>2 DEF StartWorkflow
    <2>2. ASSUME NEW i \in starting, i[2] = o, i \notin DOMAIN workflow
          PROVE  Bringing(o)'
      BY <2>1, <2>2 DEF Bringing
    <2>3. ASSUME NEW i \in DOMAIN workflow, i[2] = o, workflow[i] = "sleep"
          PROVE  Bringing(o)'
      BY <2>1, <2>3 DEF Bringing
    <2>. QED
      BY <2>2, <2>3 DEF Bringing
  <1>3. ASSUME NEW id \in DOMAIN workflow, EnqueueStep(id)
        PROVE  Bringing(o)'
    <2>1. PICK s : workflow' = [workflow EXCEPT ![id] = s] /\ UNCHANGED starting
      BY <1>3 DEF EnqueueStep, EnqueueUpdate, EnqueueSelect, EnqueuePublish, EnqueueCheckpoint
    <2>2. id[2] # o \/ workflow[id] # "sleep"
      <3>1. SUFFICES ASSUME id[2] = o, EnqueueUpdate(id) PROVE FALSE
        BY <1>3 DEF EnqueueStep, EnqueueUpdate, EnqueueSelect, EnqueuePublish,
                    EnqueueCheckpoint
      <3>2. CASE row[o].status \in {"PENDING", "RETRYING"}
        BY <3>1, <3>2 DEF EnqueueUpdate, Row
      <3>3. CASE row[o].status \notin {"PENDING", "RETRYING"}
        BY <3>1, <3>3 DEF EnqueueUpdate
      <3>. QED
        BY <3>2, <3>3
    <2>3. /\ DOMAIN workflow' = DOMAIN workflow
          /\ \A i \in DOMAIN workflow \ {id} : workflow'[i] = workflow[i]
      BY <2>1
    <2>. QED
      BY <2>1, <2>2, <2>3 DEF Bringing
  <1>. QED
    BY <1>1, <1>2, <1>3 DEF ServiceStep, Admit, Insert, Cancel, Redrive, LeaseExpires,
       StartFails, EnqueueFails, ReaperScan, Reap, ReapFails

\* The service has an operation wait to be queued only with a workflow of its
\* own, whose name is fresh.
LEMMA ServiceNewName ==
    ASSUME ServiceInv, SeenOnce, ServiceStep, NEW o \in Op, NamesOK(o), redrives'[o] = 0,
           row[o].status \notin {"PENDING", "RETRYING"},
           row'[o].status \in {"PENDING", "RETRYING"}
    PROVE  \E id \in Used' : id[2] = o /\ id \notin Used
  <1>. USE DEF ServiceInv, ServiceTypeOK
  <1>1. row'[o].status # row[o].status
    OBVIOUS
  <1>2. ASSUME NEW p \in Op, Insert(p)
        PROVE  \E id \in Used' : id[2] = o /\ id \notin Used
    <2>1. p = o /\ row[o].status = NoRow
      BY <1>1, <1>2 DEF Insert, AdmittedNew, Row
    <2>2. PICK id : id = <<"operation", o, 0>>
      OBVIOUS
    <2>3. id \in Used'
      BY <1>2, <2>1, <2>2 DEF Insert, Used
    <2>4. id \notin Used
      BY <2>1, <2>2 DEF NamesOK, NameOK
    <2>. QED
      BY <2>2, <2>3, <2>4
  <1>3. ASSUME NEW p \in Op, Cancel(p)
        PROVE  FALSE
    BY <1>1, <1>3 DEF Cancel, WithoutLease, Row
  <1>4. ASSUME NEW p \in Op, Redrive(p)
        PROVE  FALSE
    <2>1. p = o
      BY <1>1, <1>4 DEF Redrive, Row
    <2>2. redrives'[o] = redrives[o] + 1 /\ redrives[o] \in Nat
      BY <1>4, <2>1, BoundsType DEF Redrive
    <2>. QED
      BY <2>2
  <1>5. ASSUME NEW p \in Op, LeaseExpires(p)
        PROVE  FALSE
    BY <1>1, <1>5 DEF LeaseExpires, Row
  <1>6. ASSUME NEW id \in DOMAIN workflow, EnqueueUpdate(id)
        PROVE  FALSE
    BY <1>1, <1>6 DEF EnqueueUpdate, Row
  <1>7. ASSUME NEW r \in reaping, Reap(r[1], r[2])
        PROVE  \E id \in Used' : id[2] = o /\ id \notin Used
    <2>1. r = <<r[1], r[2]>> /\ r[1] \in Op /\ r[2] \in Nat
      OBVIOUS
    <2>2. r[1] = o
      BY <1>1, <1>7, <2>1 DEF Reap, WithoutLease, Row
    <2>3. starting' = starting \cup {<<"lease-recovery", o, r[2]>>} /\ UNCHANGED workflow
      <3>1. row' # WithoutLease(o, "DEAD_LETTERED")
        BY DEF WithoutLease, Row
      <3>. QED
        BY <1>1, <1>7, <2>1, <2>2, <3>1 DEF Reap
    <2>4. PICK id : id = <<"lease-recovery", o, r[2]>>
      OBVIOUS
    <2>5. id \in Used'
      BY <2>3, <2>4 DEF Used
    <2>6. id \notin Used
      <3>. SUFFICES ASSUME id \in Used PROVE FALSE
        OBVIOUS
      <3>1. NameOK(id)
        BY <2>4 DEF NamesOK
      <3>2. r[2] < r[2]
        BY <2>1, <2>2, <2>4, <3>1 DEF NameOK
      <3>. QED
        BY <2>1, <3>2
    <2>. QED
      BY <2>4, <2>5, <2>6
  <1>. QED
    BY <1>1, <1>2, <1>3, <1>4, <1>5, <1>6, <1>7
       DEF ServiceStep, Admit, StartWorkflow, StartFails, EnqueueStep, EnqueueSelect,
           EnqueuePublish, EnqueueCheckpoint, EnqueueFails, ReaperScan, ReapFails

\* The service names a workflow after an operation with no row yet, or after an
\* expired attempt the reaper is done with.
LEMMA ServiceNames ==
    ASSUME ServiceInv, SeenOnce, ServiceStep, ~Fault, NEW o \in Op, NamesOK(o),
           redrives'[o] = 0, row'[o].attempt = row[o].attempt, NEW id \in Used', id[2] = o,
           id \notin Used
    PROVE  NameOK(id)' /\ UNCHANGED workflow /\ id \in starting'
  <1>. USE DEF ServiceInv, ServiceTypeOK
  <1>1. CASE Used' \subseteq Used
    BY <1>1
  <1>2. ASSUME NEW p \in Op, Insert(p)
        PROVE  NameOK(id)' /\ UNCHANGED workflow /\ id \in starting'
    <2>1. id = <<"operation", p, 0>> /\ p = o /\ UNCHANGED workflow /\ id \in starting'
      BY <1>2 DEF Insert, Used
    <2>2. row'[o].status # NoRow
      BY <1>2, <2>1 DEF Insert, Row, NoRow
    <2>. QED
      BY <2>1, <2>2 DEF NameOK
  <1>3. ASSUME NEW p \in Op, Redrive(p)
        PROVE  FALSE
    <2>1. p = o
      BY <1>3 DEF Redrive, Used
    <2>2. redrives'[o] = redrives[o] + 1 /\ redrives[o] \in Nat
      BY <1>3, <2>1, BoundsType DEF Redrive
    <2>. QED
      BY <2>2
  <1>4. ASSUME NEW r \in reaping, Reap(r[1], r[2])
        PROVE  NameOK(id)' /\ UNCHANGED workflow /\ id \in starting'
    <2>1. r = <<r[1], r[2]>> /\ r[1] \in Op /\ r[2] \in Nat
      OBVIOUS
    <2>2. /\ id = <<"lease-recovery", r[1], r[2]>> /\ r[1] = o /\ Expired(o)
          /\ row' = WithoutLease(o, "RETRYING") /\ reaping' = reaping \ {r}
          /\ UNCHANGED workflow /\ id \in starting'
      BY <1>4, <2>1 DEF Reap, Used
    <2>3. row'[o].status = "RETRYING"
      BY <2>2 DEF WithoutLease
    <2>4. r[2] <= row[o].attempt /\ \A s \in reaping' : s[1] # o
      BY <2>2 DEF NamesOK, SeenOnce
    <2>. QED
      BY <2>2, <2>3, <2>4 DEF NameOK, NoRow
  <1>5. ASSUME NEW i \in DOMAIN workflow, EnqueueStep(i)
        PROVE  Used' \subseteq Used
    <2>1. UNCHANGED starting /\ \E s : workflow' = [workflow EXCEPT ![i] = s]
      BY <1>5 DEF EnqueueStep, EnqueueUpdate, EnqueueSelect, EnqueuePublish, EnqueueCheckpoint
    <2>. QED
      BY <2>1 DEF Used
  <1>6. ASSUME NEW i \in starting, StartWorkflow(i)
        PROVE  Used' \subseteq Used
    BY <1>6 DEF StartWorkflow, Used
  <1>7. CASE UNCHANGED <<starting, workflow>>
    BY <1>7 DEF Used
  <1>. QED
    BY <1>1, <1>2, <1>3, <1>4, <1>5, <1>6, <1>7
       DEF ServiceStep, Admit, Cancel, LeaseExpires, StartFails, EnqueueFails, ReaperScan,
           ReapFails

\* Redrives are counted.
LEMMA RedrivesGrow ==
    ASSUME ServiceInv, ServiceStep, NEW o \in Op, redrives'[o] = 0
    PROVE  redrives[o] = 0
  <1>1. ASSUME NEW p \in Op, Redrive(p)
        PROVE  p # o
    <2>1. redrives[o] \in Nat /\ (p = o => redrives'[o] = redrives[o] + 1)
      BY <1>1, BoundsType DEF Redrive, ServiceInv, ServiceTypeOK
    <2>. QED
      BY <2>1
  <1>2. ASSUME NEW p \in Op, Redrive(p)
        PROVE  redrives'[o] = redrives[o]
    BY <1>1, <1>2 DEF Redrive, ServiceInv, ServiceTypeOK
  <1>. QED
    BY <1>2 DEF ServiceStep, Admit, Insert, Cancel, LeaseExpires, StartWorkflow,
       StartFails, EnqueueStep, EnqueueUpdate, EnqueueSelect, EnqueuePublish,
       EnqueueCheckpoint, EnqueueFails, ReaperScan, Reap, ReapFails

\* Where nothing fails, the service loses no operation that was not redriven.
LEMMA ServiceCarries ==
    ASSUME ServiceInv, ServiceInv', SeenOnce, ServiceStep, ~Fault, NEW o \in Op, CarryOK(o),
           redrives'[o] = 0
    PROVE  CarryOK(o)'
  <1>1. RowStep(o)
    BY ServiceRows
  <1>2. /\ row'[o].attempt = row[o].attempt
        /\ row'[o].status = "RUNNING" => row[o].status = "RUNNING"
        /\ row[o].status # NoRow => row'[o].status # NoRow
    BY <1>1 DEF RowStep, Waiting, NoRow
  <1>3. ASSUME NEW r \in reaping', r[1] = o
        PROVE  r \in reaping \/ (row[o].status = "RUNNING" /\ r[2] = row[o].attempt)
    <2>1. reaping' \subseteq reaping \/ ReaperScan
      BY DEF ServiceStep, Admit, Insert, Cancel, Redrive, LeaseExpires, StartWorkflow,
             StartFails, EnqueueStep, EnqueueUpdate, EnqueueSelect, EnqueuePublish,
             EnqueueCheckpoint, EnqueueFails, Reap, ReapFails
    <2>2. CASE ReaperScan
      BY <1>3, <2>2 DEF ReaperScan, Expired
    <2>. QED
      BY <1>3, <2>1, <2>2
  <1>4. ASSUME NEW id \in Used', id[2] = o, id \notin Used
        PROVE  NameOK(id)' /\ Bringing(o)'
    <2>1. NameOK(id)' /\ UNCHANGED workflow /\ id \in starting'
      BY <1>2, <1>4, ServiceNames DEF CarryOK
    <2>. QED
      BY <1>4, <2>1, NameStarted
  <1>5. NamesOK(o)'
    <2>1. row'[o].attempt \in Nat
      BY DEF ServiceInv, ServiceTypeOK, Row
    <2>2. \A id \in Used' : id[2] = o => id \in Used \/ NameOK(id)'
      BY <1>4
    <2>3. ServiceTypeOK /\ NamesOK(o)
      BY DEF ServiceInv, CarryOK
    <2>. QED
      BY <1>2, <1>3, <2>1, <2>2, <2>3, NamesKept
  <1>6. ASSUME row'[o].status \in {"PENDING", "RETRYING"}
        PROVE  Bringing(o)'
    <2>1. CASE row[o].status \in {"PENDING", "RETRYING"}
      BY <1>6, <2>1, BringingKept DEF CarryOK
    <2>2. CASE row[o].status \notin {"PENDING", "RETRYING"}
      <3>1. \E id \in Used' : id[2] = o /\ id \notin Used
        BY <1>6, <2>2, ServiceNewName DEF CarryOK
      <3>. QED
        BY <1>4, <3>1
    <2>. QED
      BY <2>1, <2>2
  <1>. QED
    BY <1>5, <1>6 DEF CarryOK

\* A claim begins an attempt past every name in use.
LEMMA ClaimCarries ==
    ASSUME ServiceInv, NEW o \in Op, NEW w \in Worker, ClaimOperation(o, w),
           UNCHANGED <<workflow, starting, reaping>>, NEW p \in Op, CarryOK(p)
    PROVE  CarryOK(p)'
  <1>1. /\ row[o].attempt \in Nat /\ row'[o].status = "RUNNING"
        /\ row'[o].attempt = row[o].attempt + 1
        /\ \A q \in Op \ {o} : row'[q] = row[q]
    BY ClaimRow DEF ServiceInv
  <1>2. CASE p # o
    <2>1. row'[p] = row[p]
      BY <1>1, <1>2
    <2>. QED
      BY <2>1 DEF CarryOK, NamesOK, NameOK, Used, Bringing
  <1>3. CASE p = o
    <2>1. /\ ServiceTypeOK /\ NamesOK(o) /\ row'[o].attempt \in Nat
          /\ row'[o].status \notin {NoRow, "PENDING", "RETRYING"}
      BY <1>1, <1>3 DEF ServiceInv, CarryOK, NoRow
    <2>2. NamesOK(o)'
      BY <1>1, <2>1, NamesKept DEF Used
    <2>. QED
      BY <1>3, <2>1, <2>2 DEF CarryOK
  <1>. QED
    BY <1>2, <1>3

\* A report of the owner ends the attempt the row is at.  If it is retried, the
\* retry is named after that attempt.
LEMMA ReportCarries ==
    ASSUME ServiceInv, NEW o \in Op, row[o].status = "RUNNING",
           NEW s \in {"SUCCEEDED", "RETRYING", "DEAD_LETTERED"}, row' = WithoutLease(o, s),
           UNCHANGED <<workflow, reaping>>,
           starting' = IF s = "RETRYING"
                       THEN starting \cup {<<"retry", o, row[o].attempt>>} ELSE starting,
           NEW p \in Op, CarryOK(p)
    PROVE  CarryOK(p)'
  <1>. USE DEF ServiceInv, ServiceTypeOK
  <1>1. /\ row[o].attempt \in Nat /\ row'[o].status = s
        /\ row'[o].attempt = row[o].attempt
        /\ \A q \in Op \ {o} : row'[q] = row[q]
    BY DEF WithoutLease, Row
  <1>2. CASE p # o
    <2>1. row'[p] = row[p]
      BY <1>1, <1>2
    <2>2. \A id \in starting' : id[2] = p => id \in starting
      BY <1>2
    <2>3. starting \subseteq starting'
      OBVIOUS
    <2>4. NamesOK(p)'
      BY <2>1, <2>2 DEF CarryOK, NamesOK, NameOK, Used
    <2>5. Bringing(p) => Bringing(p)'
      BY <2>3 DEF Bringing
    <2>. QED
      BY <2>1, <2>4, <2>5 DEF CarryOK
  <1>3. CASE p = o
    <2>0. PICK new : new = <<"retry", o, row[o].attempt>>
      OBVIOUS
    <2>1. ASSUME s = "RETRYING"
          PROVE  NameOK(new)' /\ Bringing(o)'
      <3>1. NameOK(new)'
        BY <1>1, <2>0, <2>1 DEF NameOK
      <3>2. new \notin Used
        <4>. SUFFICES ASSUME new \in Used PROVE FALSE
          OBVIOUS
        <4>1. NameOK(new)
          BY <1>3, <2>0 DEF CarryOK, NamesOK
        <4>2. row[o].attempt < row[o].attempt
          BY <2>0, <4>1 DEF NameOK
        <4>. QED
          BY <1>1, <4>2
      <3>3. new \in starting' /\ new[2] = o
        BY <2>0, <2>1
      <3>. QED
        BY <3>1, <3>2, <3>3, NameStarted
    <2>2. /\ NamesOK(o) /\ row'[o].attempt \in Nat
          /\ row'[o].status \notin {NoRow, "RUNNING", "PENDING"}
      BY <1>1, <1>3 DEF CarryOK, NoRow
    <2>3. ASSUME NEW id \in Used', id \notin Used
          PROVE  NameOK(id)'
      <3>1. s = "RETRYING" /\ id = new
        BY <2>0, <2>3 DEF Used
      <3>. QED
        BY <2>1, <3>1
    <2>4. NamesOK(o)'
      BY <1>1, <2>2, <2>3, NamesKept
    <2>. QED
      BY <1>1, <1>3, <2>1, <2>2, <2>4 DEF CarryOK
  <1>. QED
    BY <1>2, <1>3

\* A step that moves no row, name or scanned row loses nothing.
LEMMA CarryUnchanged ==
    ASSUME UNCHANGED <<workflow, starting, reaping>>, NEW p \in Op, CarryOK(p),
           row'[p].status = row[p].status, row'[p].attempt = row[p].attempt
    PROVE  CarryOK(p)'
  BY DEF CarryOK, NamesOK, NameOK, Used, Bringing

\* Where nothing fails, an operation is QUEUED only with its message about to
\* be published or just published, or as it was.
LEMMA ServiceQueues ==
    ASSUME ServiceInv, ServiceStep, ~Fault, NEW o \in Op, row'[o].status = "QUEUED"
    PROVE  \/ Publishing(o)'
           \/ /\ Len(stream') = Len(stream) + 1
              /\ stream'[Len(stream) + 1].op = o
           \/ row[o].status = "QUEUED" /\ ~Publishing(o)
  <1>. USE DEF ServiceInv, ServiceTypeOK
  <1>. SUFFICES ASSUME row[o].status # "QUEUED" \/ Publishing(o)
                PROVE  \/ Publishing(o)'
                       \/ /\ Len(stream') = Len(stream) + 1
                          /\ stream'[Len(stream) + 1].op = o
    OBVIOUS
  <1>1. ASSUME UNCHANGED workflow, row[o].status = "QUEUED"
        PROVE  Publishing(o)'
    BY <1>1 DEF Publishing
  <1>2. ASSUME NEW id \in DOMAIN workflow, EnqueueUpdate(id)
        PROVE  Publishing(o)'
    <2>1. CASE row[o].status = "QUEUED"
      <3>1. PICK i \in DOMAIN workflow : i[2] = o /\ workflow[i] = "publish"
        BY <2>1 DEF Publishing
      <3>2. i # id /\ \E s : workflow' = [workflow EXCEPT ![id] = s]
        BY <1>2, <3>1 DEF EnqueueUpdate
      <3>. QED
        BY <3>1, <3>2 DEF Publishing
    <2>2. CASE row[o].status # "QUEUED"
      <3>1. id[2] = o /\ workflow' = [workflow EXCEPT ![id] = "publish"]
        BY <1>2, <2>2 DEF EnqueueUpdate, Row
      <3>. QED
        BY <3>1 DEF Publishing
    <2>. QED
      BY <2>1, <2>2
  <1>3. ASSUME NEW id \in DOMAIN workflow, EnqueueSelect(id) \/ EnqueueCheckpoint(id)
        PROVE  Publishing(o)'
    <2>1. PICK i \in DOMAIN workflow : i[2] = o /\ workflow[i] = "publish"
      BY <1>3 DEF Publishing, EnqueueSelect, EnqueueCheckpoint
    <2>2. i # id /\ \E s : workflow' = [workflow EXCEPT ![id] = s]
      BY <1>3, <2>1 DEF EnqueueSelect, EnqueueCheckpoint
    <2>. QED
      BY <2>1, <2>2 DEF Publishing
  <1>4. ASSUME NEW id \in DOMAIN workflow, EnqueuePublish(id)
        PROVE  \/ Publishing(o)'
               \/ Len(stream') = Len(stream) + 1 /\ stream'[Len(stream) + 1].op = o
    <2>1. PICK i \in DOMAIN workflow : i[2] = o /\ workflow[i] = "publish"
      BY <1>4 DEF Publishing, EnqueuePublish
    <2>2. CASE i # id
      BY <1>4, <2>1, <2>2 DEF Publishing, EnqueuePublish
    <2>3. CASE i = id
      <3>1. PICK m \in [op : Op, attempt : Nat] : m.op = o /\ stream' = Append(stream, m)
        <4>1. [op |-> id[2], attempt |-> EnvelopeAttempt(id)] \in [op : Op, attempt : Nat]
          BY DEF WorkflowId, EnvelopeAttempt
        <4>. QED
          BY <1>4, <2>1, <2>3, <4>1 DEF EnqueuePublish
      <3>. QED
        BY <3>1
    <2>. QED
      BY <2>2, <2>3
  <1>5. ASSUME NEW id \in starting, StartWorkflow(id)
        PROVE  Publishing(o)'
    BY <1>5 DEF Publishing, StartWorkflow
  <1>6. ASSUME UNCHANGED row
        PROVE  row[o].status = "QUEUED"
    BY <1>6
  <1>7. ASSUME NEW p \in Op,
               Admit(p) \/ Insert(p) \/ Cancel(p) \/ Redrive(p) \/ LeaseExpires(p)
        PROVE  UNCHANGED workflow /\ row[o].status = "QUEUED"
    <2>1. UNCHANGED workflow
      BY <1>7 DEF Admit, Insert, Cancel, Redrive, LeaseExpires
    <2>2. CASE Admit(p)
      BY <2>1, <2>2 DEF Admit
    <2>3. ASSUME NEW s \in {"PENDING", "CANCELLED", "RETRYING"}, row'[p].status = s,
                 \A q \in Op \ {p} : row'[q] = row[q]
          PROVE  row[o].status = "QUEUED"
      BY <2>3
    <2>4. CASE Insert(p) \/ Cancel(p) \/ Redrive(p)
      <3>1. /\ row'[p].status \in {"PENDING", "CANCELLED", "RETRYING"}
            /\ \A q \in Op \ {p} : row'[q] = row[q]
        BY <2>4 DEF Insert, Cancel, Redrive, WithoutLease, Row
      <3>. QED
        BY <2>1, <2>3, <3>1
    <2>5. CASE LeaseExpires(p)
      <3>1. \A q \in Op : row'[q].status = row[q].status
        BY <2>5 DEF LeaseExpires, Row
      <3>. QED
        BY <2>1, <3>1
    <2>. QED
      BY <1>7, <2>2, <2>4, <2>5
  <1>8. ASSUME NEW r \in reaping, Reap(r[1], r[2])
        PROVE  UNCHANGED workflow /\ row[o].status = "QUEUED"
    <2>1. r[1] \in Op
      OBVIOUS
    <2>2. UNCHANGED workflow
      BY <1>8 DEF Reap
    <2>3. CASE UNCHANGED row
      BY <2>2, <2>3
    <2>4. ASSUME NEW s \in {"RETRYING", "DEAD_LETTERED"}, row' = WithoutLease(r[1], s)
          PROVE  row[o].status = "QUEUED"
      BY <2>1, <2>4 DEF WithoutLease, Row
    <2>. QED
      BY <1>8, <2>2, <2>3, <2>4 DEF Reap
  <1>9. CASE ReaperScan
    BY <1>1, <1>6, <1>9 DEF ReaperScan
  <1>. QED
    BY <1>1, <1>2, <1>3, <1>4, <1>5, <1>7, <1>8, <1>9
       DEF ServiceStep, StartFails, EnqueueStep, EnqueueFails, ReapFails
=============================================================================

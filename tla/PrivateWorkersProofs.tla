------------------------ MODULE PrivateWorkersProofs ------------------------
(***************************************************************************)
(* Safety of the Operations service with its enterprise workers, for any   *)
(* number of operations, tenants, workers, failures and redrives.          *)
(***************************************************************************)
EXTENDS PrivateWorkers, OperationsProofs

WorkerTypeOK ==
    /\ cursor \in [Tenant -> Nat]
    /\ agent \in [Worker -> Agent]
    /\ calls \subseteq Call

\* A poll never looks past the stream, and a worker past its claim has an
\* operation in hand.
AgentOK ==
    \A w \in Worker :
        /\ agent[w].last <= Len(stream)
        /\ agent[w].pc \in {"claimed", "executing", "reporting"} => agent[w].op \in Op

IInv == ServiceInv /\ WorkerTypeOK /\ AgentOK

\* Idle workers and an empty service satisfy the invariant.
LEMMA InitIInv == Init => IInv
  <1>. SUFFICES ASSUME Init PROVE IInv
    OBVIOUS
  <1>1. ServiceInv
    BY ServiceInitInv DEF Init
  <1>2. WorkerTypeOK
    BY DEF Init, WorkerTypeOK, Idle, Agent
  <1>3. AgentOK
    BY DEF Init, AgentOK, Idle, ServiceInit
  <1>. QED
    BY <1>1, <1>2, <1>3 DEF IInv

\* The message of a poll that has one left is about an operation.
LEMMA MessageType ==
    ASSUME IInv, NEW w \in Worker, AtMessage(w)
    PROVE  Message(w).op \in Op /\ agent[w].at + 1 \in 1..Len(stream)
  <1>1. agent[w].at \in Nat /\ agent[w].last \in Nat /\ agent[w].last <= Len(stream)
    BY DEF IInv, WorkerTypeOK, Agent, AgentOK
  <1>2. stream \in Seq([op : Op, attempt : Nat]) /\ Len(stream) \in Nat
    BY DEF IInv, ServiceInv, ServiceTypeOK
  <1>3. agent[w].at + 1 \in 1..Len(stream)
    BY <1>1, <1>2 DEF AtMessage
  <1>4. stream[agent[w].at + 1] \in [op : Op, attempt : Nat]
    <2>1. \A S : stream \in Seq(S) => \A i \in 1..Len(stream) : stream[i] \in S
      OBVIOUS
    <2>. QED
      BY <1>2, <1>3, <2>1
  <1>. QED
    BY <1>3, <1>4 DEF Message

-----------------------------------------------------------------------------
\* A step of a poll that writes neither the table nor the stream.
LEMMA PollStepInv ==
    ASSUME IInv, NEW w \in Worker,
           \/ PollCursor(w) \/ PollRead(w) \/ PollForeign(w) \/ PollRefused(w)
           \/ PollStatus(w) \/ PollEmpty(w) \/ ReportReturns(w)
    PROVE  IInv'
  <1>. USE DEF IInv
  <1>1. UNCHANGED <<serviceVars, cursor, calls>>
    BY DEF PollCursor, PollRead, PollForeign, PollRefused, PollStatus, PollEmpty,
           ReportReturns
  <1>2. ServiceInv'
    BY <1>1, ServiceUnchanged
  <1>3. stream' = stream /\ Len(stream) \in Nat
    BY <1>1 DEF serviceVars, ServiceInv, ServiceTypeOK
  <1>4. agent[w] \in Agent /\ cursor[WorkerTenant[w]] \in Nat
    BY WorkerTenantType DEF WorkerTypeOK
  <1>5. PICK a \in Agent : /\ agent' = [agent EXCEPT ![w] = a]
                           /\ a.last <= Len(stream)
                           /\ a.pc \notin {"claimed", "executing", "reporting"}
    <2>1. Idle \in Agent /\ Idle.last <= Len(stream) /\ Idle.pc = "idle"
      BY <1>3 DEF Idle, Agent
    <2>2. CASE PollCursor(w)
      <3>. DEFINE a == [agent[w] EXCEPT !.pc = "cursor", !.at = cursor[WorkerTenant[w]]]
      <3>1. a \in Agent /\ a.last = agent[w].last /\ a.pc = "cursor"
        BY <1>4 DEF Agent
      <3>2. agent' = [agent EXCEPT ![w] = a]
        BY <2>2 DEF PollCursor, WorkerTypeOK, Agent
      <3>. QED
        BY <3>1, <3>2 DEF AgentOK
    <2>3. CASE PollRead(w)
      <3>1. CASE Len(stream) <= agent[w].at
        <4>1. agent' = [agent EXCEPT ![w] = Idle]
          BY <1>3, <1>4, <2>3, <3>1 DEF PollRead, Agent
        <4>. QED
          BY <2>1, <4>1
      <3>2. CASE Len(stream) > agent[w].at
        <4>1. PICK n \in 1..Len(stream) :
                 agent' = [agent EXCEPT ![w].pc = "scan", ![w].last = n]
          BY <1>3, <1>4, <2>3, <3>2 DEF PollRead, Agent
        <4>. DEFINE a == [agent[w] EXCEPT !.pc = "scan", !.last = n]
        <4>2. a \in Agent /\ a.last <= Len(stream) /\ a.pc = "scan"
          <5>1. n \in Nat /\ n <= Len(stream)
            BY <1>3
          <5>. QED
            BY <1>4, <5>1 DEF Agent
        <4>3. agent' = [agent EXCEPT ![w] = a]
          BY <4>1 DEF WorkerTypeOK, Agent
        <4>. QED
          BY <4>2, <4>3
      <3>. QED
        BY <1>3, <1>4, <3>1, <3>2 DEF Agent
    <2>4. CASE PollForeign(w) \/ PollRefused(w)
      <3>1. PICK s \in {"skip", "refused"} : agent' = [agent EXCEPT ![w].pc = s]
        BY <2>4 DEF PollForeign, PollRefused
      <3>. DEFINE a == [agent[w] EXCEPT !.pc = s]
      <3>2. a \in Agent /\ a.last = agent[w].last /\ a.pc = s
        BY <1>4 DEF Agent
      <3>3. agent' = [agent EXCEPT ![w] = a]
        BY <3>1 DEF WorkerTypeOK, Agent
      <3>. QED
        BY <3>2, <3>3 DEF AgentOK
    <2>5. CASE PollStatus(w)
      <3>. DEFINE a == [agent[w] EXCEPT !.pc = "skip"]
      <3>1. a \in Agent /\ a.last = agent[w].last /\ a.pc = "skip"
        BY <1>4 DEF Agent
      <3>2. agent' = [agent EXCEPT ![w] = Idle] \/ agent' = [agent EXCEPT ![w] = a]
        BY <2>5 DEF PollStatus
      <3>. QED
        BY <2>1, <3>1, <3>2 DEF AgentOK
    <2>6. CASE PollEmpty(w) \/ ReportReturns(w)
      BY <2>1, <2>6 DEF PollEmpty, ReportReturns
    <2>. QED
      BY <2>2, <2>3, <2>4, <2>5, <2>6
  <1>6. WorkerTypeOK'
    BY <1>1, <1>5 DEF WorkerTypeOK
  <1>7. AgentOK'
    BY <1>3, <1>5 DEF AgentOK, WorkerTypeOK
  <1>. QED
    BY <1>2, <1>6, <1>7

\* One worker's record changes to a well-formed one.
LEMMA AgentMoved ==
    ASSUME IInv, NEW w \in Worker, NEW a \in Agent, UNCHANGED stream,
           agent' = [agent EXCEPT ![w] = a], a.last <= Len(stream),
           a.pc \in {"claimed", "executing", "reporting"} => a.op \in Op
    PROVE  agent' \in [Worker -> Agent] /\ AgentOK'
  BY DEF IInv, WorkerTypeOK, AgentOK

\* The table and the events change, the workers do not.
LEMMA AgentsUnchanged ==
    ASSUME IInv, UNCHANGED <<agent, stream>>
    PROVE  agent' \in [Worker -> Agent] /\ AgentOK'
  BY DEF IInv, WorkerTypeOK, AgentOK

\* A poll's claim (workerPoll calling claimOperation).
LEMMA PollClaimInv ==
    ASSUME IInv, NEW w \in Worker, PollClaim(w)
    PROVE  IInv'
  <1>. DEFINE o == Message(w).op
  <1>. USE DEF IInv, PollClaim
  <1>1. o \in Op
    BY MessageType
  <1>2. ClaimOperation(o, w)
    OBVIOUS
  <1>3. /\ row' \in [Op -> Row]
        /\ row[o].attempt \in Nat
        /\ row'[o].status = "RUNNING" /\ row'[o].owner = w /\ row'[o].expired = FALSE
        /\ \A p \in Op \ {o} : row'[p] = row[p]
    <2>. HIDE DEF PollClaim, o
    <2>. QED
      BY <1>1, <1>2, ClaimRow DEF ServiceInv
  <1>4. ServiceTypeOK'
    BY <1>3 DEF ServiceInv, ServiceTypeOK
  <1>5. LeaseIffRunning'
    BY <1>3, NoWorkerOutside DEF ServiceInv, LeaseIffRunning
  <1>6. AdmittedNew'
    <2>1. UNCHANGED admitted
      OBVIOUS
    <2>2. row[o].status # NoRow
      BY <1>2 DEF ClaimOperation, Claimable, NoRow
    <2>. HIDE DEF PollClaim, o
    <2>3. o \notin admitted
      BY <1>1, <2>2 DEF ServiceInv, AdmittedNew
    <2>. QED
      BY <1>3, <2>1, <2>3 DEF ServiceInv, AdmittedNew, ServiceTypeOK
  <1>8. agent' \in [Worker -> Agent] /\ AgentOK'
    <2>. DEFINE a == [agent[w] EXCEPT !.pc = "claimed", !.op = o,
                                      !.attempt = row[o].attempt + 1]
    <2>1. agent[w] \in Agent /\ agent[w].last <= Len(stream)
      BY DEF WorkerTypeOK, AgentOK
    <2>2. a \in Agent /\ a.last = agent[w].last /\ a.op = o
      <3>1. row[o].attempt + 1 \in Nat
        BY <1>3
      <3>. HIDE DEF PollClaim, o
      <3>. QED
        BY <1>1, <2>1, <3>1 DEF Agent
    <2>3. agent' = [agent EXCEPT ![w] = a]
      BY DEF WorkerTypeOK, Agent
    <2>. HIDE DEF a, o
    <2>. QED
      BY <1>1, <2>1, <2>2, <2>3, AgentMoved
  <1>9. WorkerTypeOK'
    BY <1>8 DEF WorkerTypeOK
  <1>. QED
    BY <1>4, <1>5, <1>6, <1>8, <1>9 DEF ServiceInv

\* The end of a poll, with the cursor written or not.
LEMMA PollEndInv ==
    ASSUME IInv, NEW w \in Worker,
           PollSkip(w) \/ PollReturn(w) \/ PollReturnLost(w) \/ PollStatusFails(w)
           \/ PollFails(w)
    PROVE  IInv'
  <1>. USE DEF IInv
  <1>1. /\ UNCHANGED <<row, event_outbox, workflow, stream, admitted, starting,
                       reaping, redrives, calls>>
        /\ Fault \/ UNCHANGED faults
    BY DEF PollSkip, PollReturn, PollReturnLost, PollStatusFails, PollFails, SetCursor
  <1>2. ServiceInv'
    BY <1>1, ServiceFault
  <1>3. agent[w] \in Agent /\ agent[w].last <= Len(stream) /\ Len(stream) \in Nat
    BY DEF WorkerTypeOK, AgentOK, ServiceInv, ServiceTypeOK
  <1>4. cursor' \in [Tenant -> Nat]
    <2>1. agent[w].at + 1 \in Nat
      BY <1>3 DEF Agent
    <2>. QED
      BY <2>1 DEF PollSkip, PollReturn, PollReturnLost, PollStatusFails, PollFails,
                  SetCursor, WorkerTypeOK
  <1>5. agent' \in [Worker -> Agent] /\ AgentOK'
    <2>1. CASE PollSkip(w)
      <3>. DEFINE a == [agent[w] EXCEPT !.pc = "scan", !.at = @ + 1]
      <3>1. a \in Agent /\ a.last = agent[w].last /\ a.pc = "scan"
        <4>1. agent[w].at + 1 \in Nat
          BY <1>3 DEF Agent
        <4>. QED
          BY <1>3, <4>1 DEF Agent
      <3>2. agent' = [agent EXCEPT ![w] = a]
        BY <2>1 DEF PollSkip, WorkerTypeOK, Agent
      <3>. HIDE DEF a
      <3>. QED
        BY <1>1, <1>3, <3>1, <3>2, AgentMoved
    <2>2. CASE PollReturn(w)
      <3>. DEFINE a == [agent[w] EXCEPT !.pc = "executing", !.at = 0, !.last = 0]
      <3>1. a \in Agent /\ a.last <= Len(stream) /\ a.op = agent[w].op
        <4>1. a \in Agent /\ a.last = 0 /\ a.op = agent[w].op
          BY <1>3 DEF Agent
        <4>. HIDE DEF a
        <4>. QED
          BY <1>3, <4>1
      <3>2. agent' = [agent EXCEPT ![w] = a]
        BY <2>2 DEF PollReturn, WorkerTypeOK, Agent
      <3>3. agent[w].op \in Op
        BY <2>2 DEF PollReturn, AgentOK
      <3>. HIDE DEF a
      <3>. QED
        BY <1>1, <1>3, <3>1, <3>2, <3>3, AgentMoved
    <2>3. CASE PollStatusFails(w)
      <3>. DEFINE a == [agent[w] EXCEPT !.pc = "skip"]
      <3>1. a \in Agent /\ a.last = agent[w].last /\ a.pc = "skip"
        BY <1>3 DEF Agent
      <3>2. agent' = [agent EXCEPT ![w] = a]
        BY <2>3 DEF PollStatusFails, WorkerTypeOK, Agent
      <3>. HIDE DEF a
      <3>. QED
        BY <1>1, <1>3, <3>1, <3>2, AgentMoved
    <2>4. CASE PollReturnLost(w) \/ PollFails(w)
      <3>1. Idle \in Agent /\ Idle.last <= Len(stream) /\ Idle.pc = "idle"
        BY <1>3 DEF Idle, Agent
      <3>2. agent' = [agent EXCEPT ![w] = Idle]
        BY <2>4 DEF PollReturnLost, PollFails
      <3>. QED
        BY <1>1, <1>3, <3>1, <3>2, AgentMoved
    <2>. QED
      BY <2>1, <2>2, <2>3, <2>4
  <1>6. WorkerTypeOK'
    BY <1>1, <1>4, <1>5 DEF WorkerTypeOK
  <1>. QED
    BY <1>2, <1>5, <1>6

\* A heartbeat renews a lease, a report is sent, times out or is lost.
LEMMA ReportInv ==
    ASSUME IInv, NEW w \in Worker,
           \/ Heartbeat(w)
           \/ \E kind \in {"complete", "retryable", "fatal"} : Report(w, kind)
    PROVE  IInv'
  <1>. USE DEF IInv
  <1>1. CASE Heartbeat(w)
    <2>. DEFINE o == agent[w].op
    <2>1. o \in Op
      BY <1>1 DEF Heartbeat, AgentOK
    <2>2. row' = [row EXCEPT ![o].expired = FALSE] /\ row[o].status = "RUNNING"
      BY <1>1 DEF Heartbeat, OwnsLease
    <2>. HIDE DEF o
    <2>3. ServiceTypeOK'
      <3>1. row' \in [Op -> Row]
        BY <2>1, <2>2 DEF ServiceInv, ServiceTypeOK, Row
      <3>. QED
        BY <1>1, <3>1 DEF Heartbeat, ServiceInv, ServiceTypeOK
    <2>4. LeaseIffRunning' /\ AdmittedNew'
      BY <1>1, <2>1, <2>2 DEF Heartbeat, ServiceInv, ServiceTypeOK, Row,
                              LeaseIffRunning, AdmittedNew, NoRow
    <2>6. WorkerTypeOK' /\ AgentOK'
      BY <1>1, AgentsUnchanged DEF Heartbeat, WorkerTypeOK
    <2>. QED
      BY <2>3, <2>4, <2>6 DEF ServiceInv
  <1>2. ASSUME NEW kind \in {"complete", "retryable", "fatal"}, Report(w, kind)
        PROVE  IInv'
    <2>1. ServiceInv'
      BY <1>2, ServiceUnchanged DEF Report
    <2>2. /\ agent[w] \in Agent /\ agent[w].last <= Len(stream)
          /\ agent[w].op \in Op /\ agent[w].attempt \in Nat
      BY <1>2 DEF Report, WorkerTypeOK, AgentOK, Agent
    <2>3. calls' \subseteq Call
      <3>1. [worker |-> w, op |-> agent[w].op, attempt |-> agent[w].attempt,
             kind |-> kind, read |-> 0, late |-> FALSE] \in Call
        BY <2>2 DEF Call
      <3>. QED
        BY <1>2, <3>1 DEF Report, WorkerTypeOK
    <2>. DEFINE a == [agent[w] EXCEPT !.pc = "reporting"]
    <2>4. a \in Agent /\ a.last = agent[w].last /\ a.op = agent[w].op
      BY <2>2 DEF Agent
    <2>5. agent' = [agent EXCEPT ![w] = a] /\ UNCHANGED stream
      BY <1>2 DEF Report, WorkerTypeOK, Agent, serviceVars
    <2>. HIDE DEF a
    <2>6. agent' \in [Worker -> Agent] /\ AgentOK'
      BY <2>2, <2>4, <2>5, AgentMoved
    <2>7. WorkerTypeOK'
      BY <1>2, <2>3, <2>6 DEF Report, WorkerTypeOK
    <2>. QED
      BY <2>1, <2>6, <2>7
  <1>. QED
    BY <1>1, <1>2

\* A report that times out or is lost on its way.
LEMMA CallInv ==
    ASSUME IInv, NEW c \in calls, CallTimesOut(c) \/ CallLost(c)
    PROVE  IInv'
  <1>. USE DEF IInv
  <1>1. c \in Call /\ c.worker \in Worker /\ [c EXCEPT !.late = TRUE] \in Call
    BY DEF WorkerTypeOK, Call
  <1>2. ServiceInv' /\ UNCHANGED stream
    BY ServiceFault DEF CallTimesOut, CallLost
  <1>3. calls' \subseteq Call
    BY <1>1 DEF CallTimesOut, CallLost, WorkerTypeOK
  <1>4. agent' \in [Worker -> Agent] /\ AgentOK'
    <2>1. CASE CallTimesOut(c)
      <3>1. Len(stream) \in Nat
        BY DEF ServiceInv, ServiceTypeOK
      <3>2. Idle \in Agent /\ Idle.last <= Len(stream) /\ Idle.pc = "idle"
        BY <3>1 DEF Idle, Agent
      <3>3. agent' = [agent EXCEPT ![c.worker] = Idle]
        BY <2>1 DEF CallTimesOut
      <3>. QED
        BY <1>1, <1>2, <3>2, <3>3, AgentMoved
    <2>2. CASE CallLost(c)
      BY <1>2, <2>2, AgentsUnchanged DEF CallLost
    <2>. QED
      BY <2>1, <2>2
  <1>5. WorkerTypeOK'
    BY <1>3, <1>4 DEF CallTimesOut, CallLost, WorkerTypeOK
  <1>. QED
    BY <1>2, <1>4, <1>5

\* workerComplete and workerFail.
LEMMA ServeInv ==
    ASSUME IInv, NEW c \in calls, Serve(c)
    PROVE  IInv'
  <1>. USE DEF IInv
  <1>1. c \in Call /\ c.op \in Op /\ c.read \in Nat
    BY DEF WorkerTypeOK, Call
  <1>2. row[c.op].attempt \in Nat
    BY <1>1 DEF ServiceInv, ServiceTypeOK, Row
  <1>3. [c EXCEPT !.read = row[c.op].attempt] \in Call
    BY <1>1, <1>2 DEF Call
  <1>4. UNCHANGED <<workflow, stream, admitted, reaping, redrives, faults, cursor, agent>>
    BY DEF Serve, WorkerComplete, WorkerFailRead, WorkerFailCommit, serviceVars
  <1>5. calls' \subseteq Call
    BY <1>3 DEF Serve, WorkerComplete, WorkerFailRead, WorkerFailCommit, WorkerTypeOK
  <1>6. WorkerTypeOK' /\ AgentOK'
    BY <1>4, <1>5, AgentsUnchanged DEF WorkerTypeOK
  <1>7. CASE UNCHANGED <<row, event_outbox, starting>>
    <2>1. ServiceInv'
      BY <1>4, <1>7, ServiceUnchanged DEF serviceVars
    <2>. QED
      BY <1>6, <2>1
  <1>8. ASSUME NEW s \in {"SUCCEEDED", "RETRYING", "DEAD_LETTERED"},
               OwnsLease(c.op, c.worker), row' = WithoutLease(c.op, s),
               event_outbox' \subseteq Op \X EventType \X Nat,
               starting' \subseteq WorkflowId
        PROVE  ServiceInv'
    <2>1. row[c.op].status # NoRow /\ s \in Statuses \ {"RUNNING"}
      BY <1>8 DEF OwnsLease, NoRow, Statuses
    <2>2. row' \in [Op -> Row] /\ LeaseIffRunning' /\ AdmittedNew'
      BY <1>1, <1>4, <1>8, <2>1, LeaseCleared
    <2>3. ServiceTypeOK'
      BY <1>4, <1>8, <2>2 DEF ServiceInv, ServiceTypeOK
    <2>. QED
      BY <2>2, <2>3 DEF ServiceInv
  <1>9. /\ event_outbox' \subseteq Op \X EventType \X Nat
        /\ starting' \subseteq WorkflowId
    BY <1>1, <1>2 DEF Serve, WorkerComplete, WorkerFailRead, WorkerFailCommit,
                      serviceVars, ServiceInv, ServiceTypeOK, EventType, WorkflowId
  <1>10. \/ UNCHANGED <<row, event_outbox, starting>>
         \/ \E s \in {"SUCCEEDED", "RETRYING", "DEAD_LETTERED"} :
              OwnsLease(c.op, c.worker) /\ row' = WithoutLease(c.op, s)
    BY DEF Serve, WorkerComplete, WorkerFailRead, WorkerFailCommit, serviceVars
  <1>. QED
    BY <1>6, <1>7, <1>8, <1>9, <1>10

\* Every step of the service and its workers preserves the invariant.
LEMMA NextIInv == IInv /\ [Next]_vars => IInv'
  <1>. SUFFICES ASSUME IInv, [Next]_vars PROVE IInv'
    OBVIOUS
  <1>1. CASE UNCHANGED vars
    <2>1. ServiceInv'
      BY <1>1, ServiceUnchanged DEF vars, IInv
    <2>2. WorkerTypeOK' /\ AgentOK'
      BY <1>1, AgentsUnchanged DEF vars, serviceVars, IInv, WorkerTypeOK
    <2>. QED
      BY <2>1, <2>2 DEF IInv
  <1>2. CASE ServiceStep /\ UNCHANGED <<cursor, agent, calls>>
    <2>1. ServiceInv'
      BY <1>2, ServiceStepInv DEF IInv
    <2>2. WorkerTypeOK'
      BY <1>2 DEF IInv, WorkerTypeOK
    <2>3. AgentOK'
      <3>1. \A w \in Worker : agent[w].last \in Nat
        BY DEF IInv, WorkerTypeOK, Agent
      <3>. QED
        BY <1>2, <3>1, StreamGrows DEF IInv, AgentOK
    <2>. QED
      BY <2>1, <2>2, <2>3 DEF IInv
  <1>3. CASE Crash
    <2>1. ServiceInv'
      BY <1>3, CrashInv DEF IInv, Crash
    <2>2. UNCHANGED stream /\ Len(stream) \in Nat
      BY <1>3 DEF IInv, Crash, ServiceCrash, ServiceInv, ServiceTypeOK
    <2>3. Idle \in Agent /\ Idle.last <= Len(stream) /\ Idle.pc = "idle"
      BY <2>2 DEF Idle, Agent
    <2>4. WorkerTypeOK'
      BY <1>3, <2>3 DEF IInv, Crash, WorkerTypeOK
    <2>5. AgentOK'
      BY <1>3, <2>2, <2>3 DEF IInv, Crash, AgentOK
    <2>. QED
      BY <2>1, <2>4, <2>5 DEF IInv
  <1>4. ASSUME NEW w \in Worker,
               Work(w) \/ Heartbeat(w) \/ PollReturnLost(w)
               \/ PollStatusFails(w) \/ PollFails(w)
        PROVE  IInv'
    BY <1>4, PollStepInv, PollClaimInv, PollEndInv, ReportInv DEF Work, Poll
  <1>5. ASSUME NEW c \in calls, Serve(c) \/ CallTimesOut(c) \/ CallLost(c)
        PROVE  IInv'
    BY <1>5, ServeInv, CallInv
  <1>. QED
    BY <1>1, <1>2, <1>3, <1>4, <1>5 DEF Next

\* The service with its workers: the inductive invariant (types, leases, what
\* each worker has in hand) holds in every reachable state.
THEOREM PrivateInvariant == Spec => []IInv
  BY InitIInv, NextIInv, PTL DEF Spec

\* The service with its enterprise workers: every reachable state is well
\* typed, whatever fails and however often.
THEOREM PrivateTyped == Spec => []TypeOK
  <1>1. IInv => TypeOK
    BY DEF IInv, ServiceInv, WorkerTypeOK, TypeOK
  <1>. QED
    BY <1>1, PrivateInvariant, PTL

\* A row carries a lease exactly while it is RUNNING, whichever handler, reaper
\* or crash moved it.
THEOREM LeaseFollowsStatus == Spec => []LeaseIffRunning
  <1>1. IInv => LeaseIffRunning
    BY DEF IInv, ServiceInv
  <1>. QED
    BY <1>1, PrivateInvariant, PTL

-----------------------------------------------------------------------------
(* Outcomes and their events                                               *)

Success == "operation.succeeded"
DeadLetter == "operation.dead_lettered"

\* What EventsFollowOutcome says of one operation
OutcomeOf(o) ==
    /\ Events(o, Success) = IF row[o].status = "SUCCEEDED"
                            THEN {<<o, Success, row[o].attempt>>} ELSE {}
    /\ row[o].status = "DEAD_LETTERED" /\ redrives[o] = 0 => Events(o, DeadLetter) # {}
    /\ Cardinality(Events(o, DeadLetter)) <=
          redrives[o] + (IF row[o].status = "DEAD_LETTERED" THEN 1 ELSE 0)

\* Counting events needs finitely many of them.
OutcomeInv == IsFiniteSet(event_outbox) /\ \A o \in Op : OutcomeOf(o)

\* Among finitely many events, an operation's are finitely many.
LEMMA EventsFinite ==
    ASSUME IsFiniteSet(event_outbox), NEW o, NEW type
    PROVE  IsFiniteSet(Events(o, type)) /\ Cardinality(Events(o, type)) \in Nat
  <1>1. Events(o, type) \subseteq event_outbox
    BY DEF Events
  <1>. QED
    BY <1>1, FS_Subset, FS_CardinalityType

\* A step keeps the events of an operation in order if it adds neither a
\* success nor a dead letter of it, leaves a success alone, makes none, and
\* enters or leaves DEAD_LETTERED only by a redrive, which it counts.
LEMMA OutcomeKept ==
    ASSUME NEW o \in Op, OutcomeInv, redrives[o] \in Nat,
           Events(o, Success)' = Events(o, Success),
           Events(o, DeadLetter)' = Events(o, DeadLetter),
           row[o].status = "SUCCEEDED" => row'[o] = row[o],
           row'[o].status = "SUCCEEDED" => row[o].status = "SUCCEEDED",
           \/ /\ redrives'[o] = redrives[o]
              /\ row'[o].status = "DEAD_LETTERED" <=> row[o].status = "DEAD_LETTERED"
           \/ redrives'[o] = redrives[o] + 1 /\ row'[o].status # "DEAD_LETTERED"
    PROVE  OutcomeOf(o)'
  <1>. DEFINE n == Cardinality(Events(o, DeadLetter))
              b == IF row[o].status = "DEAD_LETTERED" THEN 1 ELSE 0
  <1>1. /\ Events(o, Success)' = IF row'[o].status = "SUCCEEDED"
                                 THEN {<<o, Success, row'[o].attempt>>} ELSE {}
    BY DEF OutcomeInv, OutcomeOf
  <1>2. row'[o].status = "DEAD_LETTERED" /\ redrives'[o] = 0
          => Events(o, DeadLetter)' # {}
    BY DEF OutcomeInv, OutcomeOf
  <1>3. n \in Nat /\ n <= redrives[o] + b
    BY EventsFinite DEF OutcomeInv, OutcomeOf
  <1>4. n <= redrives'[o] + (IF row'[o].status = "DEAD_LETTERED" THEN 1 ELSE 0)
    BY <1>3
  <1>. HIDE DEF n
  <1>5. Cardinality(Events(o, DeadLetter))' = n
    BY DEF n
  <1>. QED
    BY <1>1, <1>2, <1>4, <1>5 DEF OutcomeOf

\* A step about one operation: the events of the others stay in order.
LEMMA OutcomeStep ==
    ASSUME NEW o \in Op, OutcomeInv, redrives \in [Op -> Nat], OutcomeOf(o)',
           NEW type, NEW a,
           \/ UNCHANGED event_outbox
           \/ event_outbox' = event_outbox \cup {<<o, type, a>>},
           \A p \in Op \ {o} : row'[p] = row[p] /\ redrives'[p] = redrives[p]
    PROVE  OutcomeInv'
  <1>1. IsFiniteSet(event_outbox)'
    <2>1. IsFiniteSet(event_outbox)
      BY DEF OutcomeInv
    <2>2. IsFiniteSet(event_outbox \cup {<<o, type, a>>})
      BY <2>1, FS_AddElement
    <2>. QED
      BY <2>1, <2>2
  <1>2. ASSUME NEW p \in Op \ {o}
        PROVE  OutcomeOf(p)'
    <2>1. \A t : Events(p, t)' = Events(p, t)
      BY DEF Events
    <2>. QED
      BY <2>1, OutcomeKept
  <1>. QED
    BY <1>1, <1>2 DEF OutcomeInv

\* A step about one operation that records nothing.
LEMMA OutcomeQuiet ==
    ASSUME NEW o \in Op, OutcomeInv, redrives \in [Op -> Nat], UNCHANGED event_outbox,
           row[o].status # "SUCCEEDED",
           row'[o].status \notin {"SUCCEEDED", "DEAD_LETTERED"},
           \/ redrives'[o] = redrives[o] /\ row[o].status # "DEAD_LETTERED"
           \/ redrives'[o] = redrives[o] + 1,
           \A p \in Op \ {o} : row'[p] = row[p] /\ redrives'[p] = redrives[p]
    PROVE  OutcomeInv'
  <1>1. \A t : Events(o, t)' = Events(o, t)
    BY DEF Events
  <1>2. OutcomeOf(o)'
    BY <1>1, OutcomeKept
  <1>. QED
    BY <1>2, OutcomeStep

\* Dead-lettering a running operation together with its event, whether or not
\* the event is there already.
LEMMA DeadLetterKept ==
    ASSUME OutcomeInv, redrives \in [Op -> Nat], NEW o \in Op, NEW a,
           row[o].status = "RUNNING", row'[o].status = "DEAD_LETTERED",
           \A p \in Op \ {o} : row'[p] = row[p], UNCHANGED redrives,
           event_outbox' = event_outbox \cup {<<o, DeadLetter, a>>}
    PROVE  OutcomeInv'
  <1>. DEFINE d == <<o, DeadLetter, a>>
  <1>1. /\ Events(o, DeadLetter)' = Events(o, DeadLetter) \cup {d}
        /\ Events(o, Success)' = Events(o, Success)
    BY DEF Events, Success, DeadLetter
  <1>2. /\ Cardinality(Events(o, DeadLetter)) \in Nat
        /\ IsFiniteSet(Events(o, DeadLetter))
        /\ Cardinality(Events(o, DeadLetter)) <= redrives[o]
    BY EventsFinite DEF OutcomeInv, OutcomeOf
  <1>. HIDE DEF d
  <1>3. Cardinality(Events(o, DeadLetter) \cup {d}) <= redrives[o] + 1
    <2>. DEFINE S == Events(o, DeadLetter)
    <2>. HIDE DEF S
    <2>1. IsFiniteSet(S) => \/ Cardinality(S \cup {d}) = Cardinality(S)
                            \/ Cardinality(S \cup {d}) = Cardinality(S) + 1
      BY FS_AddElement, Zenon
    <2>2. IsFiniteSet(S) /\ Cardinality(S) \in Nat /\ Cardinality(S) <= redrives[o]
      BY <1>2 DEF S
    <2>3. redrives[o] \in Nat
      OBVIOUS
    <2>4. Cardinality(S \cup {d}) <= redrives[o] + 1
      BY <2>1, <2>2, <2>3
    <2>. QED
      BY <2>4 DEF S
  <1>4. Cardinality(Events(o, DeadLetter)') <= redrives'[o] + 1
    BY <1>1, <1>3
  <1>5. Events(o, Success) = {}
    BY DEF OutcomeInv, OutcomeOf
  <1>6. OutcomeOf(o)'
    BY <1>1, <1>4, <1>5 DEF OutcomeOf
  <1>. QED
    BY <1>6, OutcomeStep

\* A success and the event that charges it.
LEMMA SuccessKept ==
    ASSUME OutcomeInv, redrives \in [Op -> Nat], NEW o \in Op,
           row[o].status = "RUNNING", row'[o].status = "SUCCEEDED",
           row'[o].attempt = row[o].attempt,
           \A p \in Op \ {o} : row'[p] = row[p], UNCHANGED redrives,
           event_outbox' = event_outbox \cup {<<o, Success, row[o].attempt>>}
    PROVE  OutcomeInv'
  <1>1. /\ Events(o, DeadLetter)' = Events(o, DeadLetter)
        /\ Events(o, Success)' = Events(o, Success) \cup {<<o, Success, row[o].attempt>>}
    BY DEF Events, Success, DeadLetter
  <1>2. Cardinality(Events(o, DeadLetter)) <= redrives[o] + 0 /\ Events(o, Success) = {}
    BY DEF OutcomeInv, OutcomeOf
  <1>3. Cardinality(Events(o, DeadLetter)') <= redrives'[o] + 0
    BY <1>1, <1>2
  <1>4. OutcomeOf(o)'
    BY <1>1, <1>2, <1>3 DEF OutcomeOf
  <1>. QED
    BY <1>4, OutcomeStep

\* Where rows, events and redrives stay, so does the invariant.
LEMMA OutcomeUnchanged ==
    OutcomeInv /\ UNCHANGED <<row, event_outbox, redrives>> => OutcomeInv'
  BY DEF OutcomeInv, OutcomeOf, Events

\* A step of the service.
LEMMA ServiceOutcome ==
    ASSUME IInv, OutcomeInv, ServiceStep
    PROVE  OutcomeInv'
  <1>. USE DEF IInv, ServiceInv
  <1>0. redrives \in [Op -> Nat]
    BY BoundsType DEF ServiceTypeOK
  <1>1. ASSUME NEW o \in Op, Insert(o) \/ Cancel(o) \/ LeaseExpires(o)
        PROVE  OutcomeInv'
    <2>1. row[o].status \notin {"SUCCEEDED", "DEAD_LETTERED"}
      BY <1>1 DEF Insert, Cancel, LeaseExpires, Cancellable, AdmittedNew, NoRow
    <2>2. /\ row'[o].status \notin {"SUCCEEDED", "DEAD_LETTERED"}
          /\ \A p \in Op \ {o} : row'[p] = row[p]
      <3>1. row \in [Op -> Row]
        BY DEF ServiceTypeOK
      <3>2. CASE Insert(o)
        BY <3>1, <3>2 DEF Insert
      <3>3. CASE Cancel(o)
        BY <3>1, <3>3 DEF Cancel, WithoutLease, Row
      <3>4. CASE LeaseExpires(o)
        BY <2>1, <3>1, <3>4 DEF LeaseExpires, Row
      <3>. QED
        BY <1>1, <3>2, <3>3, <3>4
    <2>3. UNCHANGED <<event_outbox, redrives>>
      BY <1>1 DEF Insert, Cancel, LeaseExpires
    <2>. QED
      BY <1>0, <2>1, <2>2, <2>3, OutcomeQuiet
  <1>2. ASSUME NEW o \in Op, Redrive(o)
        PROVE  OutcomeInv'
    <2>1. /\ row[o].status # "SUCCEEDED" /\ row'[o].status = "RETRYING"
          /\ \A p \in Op \ {o} : row'[p] = row[p]
      BY <1>2 DEF Redrive, Redrivable, ServiceTypeOK, Row
    <2>2. /\ redrives'[o] = redrives[o] + 1
          /\ \A p \in Op \ {o} : redrives'[p] = redrives[p]
      BY <1>0, <1>2 DEF Redrive
    <2>. QED
      BY <1>0, <1>2, <2>1, <2>2, OutcomeQuiet DEF Redrive
  <1>3. ASSUME NEW id \in DOMAIN workflow, EnqueueUpdate(id)
        PROVE  OutcomeInv'
    <2>1. id[2] \in Op
      BY DEF ServiceTypeOK, WorkflowId
    <2>2. CASE /\ row[id[2]].status \in {"PENDING", "RETRYING"}
               /\ row' = [row EXCEPT ![id[2]].status = "QUEUED"]
      <3>1. /\ row'[id[2]].status = "QUEUED"
            /\ \A p \in Op \ {id[2]} : row'[p] = row[p]
        BY <2>1, <2>2 DEF ServiceTypeOK, Row
      <3>2. UNCHANGED <<event_outbox, redrives>>
        BY <1>3 DEF EnqueueUpdate
      <3>. QED
        BY <1>0, <2>1, <2>2, <3>1, <3>2, OutcomeQuiet
    <2>3. CASE UNCHANGED row
      BY <1>3, <2>3, OutcomeUnchanged DEF EnqueueUpdate
    <2>. QED
      BY <1>3, <2>2, <2>3 DEF EnqueueUpdate
  <1>4. ASSUME NEW o \in Op, NEW a \in Nat, Reap(o, a)
        PROVE  OutcomeInv'
    <2>0. UNCHANGED redrives
      BY <1>4 DEF Reap
    <2>1. CASE ~Expired(o)
      BY <1>4, <2>0, <2>1, OutcomeUnchanged DEF Reap
    <2>2. CASE Expired(o)
      <3>1. row[o].status = "RUNNING"
        BY <2>2 DEF Expired
      <3>2. PICK s \in {"RETRYING", "DEAD_LETTERED"} :
              /\ row' = WithoutLease(o, s)
              /\ s = "RETRYING" => UNCHANGED event_outbox
              /\ s = "DEAD_LETTERED" =>
                   event_outbox' = event_outbox \cup {<<o, DeadLetter, a>>}
        BY <1>4, <2>2 DEF Reap, DeadLetter
      <3>3. row'[o].status = s /\ \A p \in Op \ {o} : row'[p] = row[p]
        BY <3>2 DEF WithoutLease, ServiceTypeOK, Row
      <3>4. CASE s = "RETRYING"
        BY <1>0, <2>0, <3>1, <3>2, <3>3, <3>4, OutcomeQuiet
      <3>5. CASE s = "DEAD_LETTERED"
        BY <1>0, <2>0, <3>1, <3>2, <3>3, <3>5, DeadLetterKept
      <3>. QED
        BY <3>2, <3>4, <3>5
    <2>. QED
      BY <2>1, <2>2
  <1>5. \A r \in reaping : r[1] \in Op /\ r[2] \in Nat
    BY DEF ServiceTypeOK
  <1>6. \/ UNCHANGED <<row, event_outbox, redrives>>
        \/ \E o \in Op : Insert(o) \/ Cancel(o) \/ Redrive(o) \/ LeaseExpires(o)
        \/ \E id \in DOMAIN workflow : EnqueueUpdate(id)
        \/ \E r \in reaping : Reap(r[1], r[2])
    BY DEF ServiceStep, Admit, StartWorkflow, StartFails, EnqueueStep, EnqueueSelect,
           EnqueuePublish, EnqueueCheckpoint, EnqueueFails, ReaperScan, ReapFails
  <1>. QED
    BY <1>1, <1>2, <1>3, <1>4, <1>5, <1>6, OutcomeUnchanged

\* A report: a success is recorded with the attempt of its row, a dead letter
\* with the attempt that was read.
LEMMA ServeOutcome ==
    ASSUME IInv, OutcomeInv, NEW c \in calls, Serve(c)
    PROVE  OutcomeInv'
  <1>. USE DEF IInv, ServiceInv
  <1>0. c.op \in Op /\ redrives \in [Op -> Nat]
    BY BoundsType DEF WorkerTypeOK, Call, ServiceTypeOK
  <1>1. UNCHANGED redrives
    BY DEF Serve, WorkerComplete, WorkerFailRead, WorkerFailCommit, serviceVars
  <1>2. CASE UNCHANGED <<row, event_outbox>>
    BY <1>1, <1>2, OutcomeUnchanged
  <1>3. ASSUME NEW s, OwnsLease(c.op, c.worker), row' = WithoutLease(c.op, s)
        PROVE  /\ row[c.op].status = "RUNNING" /\ row'[c.op].status = s
               /\ row'[c.op].attempt = row[c.op].attempt
               /\ \A p \in Op \ {c.op} : row'[p] = row[p]
    BY <1>0, <1>3 DEF OwnsLease, WithoutLease, ServiceTypeOK, Row
  <1>4. CASE /\ OwnsLease(c.op, c.worker) /\ row' = WithoutLease(c.op, "SUCCEEDED")
             /\ event_outbox' = event_outbox \cup {<<c.op, Success, row[c.op].attempt>>}
    BY <1>0, <1>1, <1>3, <1>4, SuccessKept
  <1>5. CASE /\ OwnsLease(c.op, c.worker) /\ row' = WithoutLease(c.op, "RETRYING")
             /\ event_outbox' = event_outbox \cup {<<c.op, "operation.failed", c.read>>}
    <2>1. /\ Events(c.op, Success)' = Events(c.op, Success)
          /\ Events(c.op, DeadLetter)' = Events(c.op, DeadLetter)
      BY <1>5 DEF Events, Success, DeadLetter
    <2>2. OutcomeOf(c.op)'
      BY <1>0, <1>1, <1>3, <1>5, <2>1, OutcomeKept
    <2>. QED
      BY <1>0, <1>1, <1>3, <1>5, <2>2, OutcomeStep
  <1>6. CASE /\ OwnsLease(c.op, c.worker) /\ row' = WithoutLease(c.op, "DEAD_LETTERED")
             /\ event_outbox' = event_outbox \cup {<<c.op, DeadLetter, c.read>>}
    <2>1. /\ row[c.op].status = "RUNNING" /\ row'[c.op].status = "DEAD_LETTERED"
          /\ \A p \in Op \ {c.op} : row'[p] = row[p]
      BY <1>3, <1>6
    <2>. QED
      BY <1>0, <1>1, <1>6, <2>1, DeadLetterKept
  <1>. QED
    BY <1>2, <1>4, <1>5, <1>6 DEF Serve, WorkerComplete, WorkerFailRead,
                                  WorkerFailCommit, serviceVars, Success, DeadLetter

\* Every step keeps events and outcomes in order.
LEMMA NextOutcome == IInv /\ OutcomeInv /\ [Next]_vars => OutcomeInv'
  <1>. SUFFICES ASSUME IInv, OutcomeInv, [Next]_vars PROVE OutcomeInv'
    OBVIOUS
  <1>0. redrives \in [Op -> Nat]
    BY BoundsType DEF IInv, ServiceInv, ServiceTypeOK
  <1>1. ASSUME NEW w \in Worker, PollClaim(w)
        PROVE  OutcomeInv'
    <2>. DEFINE o == Message(w).op
    <2>1. o \in Op /\ ClaimOperation(o, w)
      BY <1>1, MessageType DEF PollClaim
    <2>. HIDE DEF o
    <2>2. /\ row[o].status \notin {"SUCCEEDED", "DEAD_LETTERED"}
          /\ row'[o].status = "RUNNING" /\ \A p \in Op \ {o} : row'[p] = row[p]
      BY <2>1, ClaimRow DEF IInv, ServiceInv, ClaimOperation, Claimable
    <2>3. UNCHANGED <<event_outbox, redrives>>
      BY <1>1 DEF PollClaim
    <2>. QED
      BY <1>0, <2>1, <2>2, <2>3, OutcomeQuiet
  <1>2. ASSUME NEW w \in Worker, Heartbeat(w)
        PROVE  OutcomeInv'
    <2>. DEFINE o == agent[w].op
    <2>1. o \in Op /\ row[o].status = "RUNNING"
            /\ row' = [row EXCEPT ![o].expired = FALSE]
      BY <1>2 DEF Heartbeat, OwnsLease, IInv, AgentOK
    <2>. HIDE DEF o
    <2>2. row'[o].status = "RUNNING" /\ \A p \in Op \ {o} : row'[p] = row[p]
      BY <2>1 DEF IInv, ServiceInv, ServiceTypeOK, Row
    <2>3. UNCHANGED <<event_outbox, redrives>>
      BY <1>2 DEF Heartbeat
    <2>. QED
      BY <1>0, <2>1, <2>2, <2>3, OutcomeQuiet
  <1>3. \/ UNCHANGED <<row, event_outbox, redrives>>
        \/ ServiceStep
        \/ \E w \in Worker : PollClaim(w) \/ Heartbeat(w)
        \/ \E c \in calls : Serve(c)
    <2>1. ASSUME NEW w \in Worker, Work(w)
          PROVE  UNCHANGED <<row, event_outbox, redrives>> \/ PollClaim(w)
      BY <2>1 DEF serviceVars, Work, Poll, PollCursor, PollRead, PollForeign, PollRefused,
                  PollStatus, PollSkip, PollEmpty, PollReturn, Report, ReportReturns
    <2>. QED
      BY <2>1 DEF Next, vars, serviceVars, PollReturnLost, PollStatusFails, PollFails,
                  CallTimesOut, CallLost, Crash, ServiceCrash
  <1>. QED
    BY <1>1, <1>2, <1>3, OutcomeUnchanged, ServiceOutcome, ServeOutcome

\* workerComplete, workerFail, the reaper and redrive: in every reachable state
\* an operation has a success event exactly if it has succeeded, the one of its
\* attempt; a dead letter that was never redriven has an event; and dead-letter
\* events are no more than the dead letters there were.  Of an operation that
\* was redriven it does not follow that its last dead letter has one.
THEOREM OutcomesHaveEvents == Spec => []EventsFollowOutcome
  <1>1. Init => OutcomeInv
    <2>. SUFFICES ASSUME Init PROVE OutcomeInv
      OBVIOUS
    <2>1. \A o \in Op : Events(o, Success) = {} /\ Events(o, DeadLetter) = {}
      BY DEF Init, ServiceInit, Events
    <2>2. \A o \in Op : row[o].status = NoRow /\ redrives[o] = 0
      BY DEF Init, ServiceInit
    <2>3. ASSUME NEW o \in Op
          PROVE  OutcomeOf(o)
      <3>1. Cardinality(Events(o, DeadLetter)) = 0
        BY <2>1, FS_EmptySet
      <3>. QED
        BY <2>1, <2>2, <3>1 DEF OutcomeOf, NoRow
    <2>4. IsFiniteSet(event_outbox)
      BY FS_EmptySet DEF Init, ServiceInit
    <2>. QED
      BY <2>3, <2>4 DEF OutcomeInv
  <1>2. OutcomeInv => EventsFollowOutcome
    BY DEF OutcomeInv, OutcomeOf, EventsFollowOutcome, Success, DeadLetter
  <1>. QED
    BY <1>1, <1>2, NextOutcome, PrivateInvariant, PTL DEF Spec

-----------------------------------------------------------------------------
\* The lifecycle

\* Every step of the service and its workers is one of the lifecycle, or
\* leaves every status alone.
LEMMA NextMoves ==
    ASSUME IInv, [Next]_vars
    PROVE  Lifecycle!Next \/ UNCHANGED StatusOf
  <1>. USE DEF IInv, ServiceInv
  <1>1. CASE UNCHANGED row
    BY <1>1 DEF StatusOf
  <1>2. CASE ServiceStep
    BY <1>2, ServiceMoves
  <1>3. ASSUME NEW w \in Worker, PollClaim(w)
        PROVE  Lifecycle!Next
    <2>1. Message(w).op \in Op /\ ClaimOperation(Message(w).op, w)
      BY <1>3, MessageType DEF PollClaim
    <2>. QED
      BY <2>1, ClaimMoves
  <1>4. ASSUME NEW w \in Worker, Heartbeat(w)
        PROVE  UNCHANGED StatusOf
    BY <1>4 DEF Heartbeat, StatusOf, ServiceTypeOK, Row
  <1>5. ASSUME NEW c \in calls, Serve(c)
        PROVE  Lifecycle!Next \/ UNCHANGED StatusOf
    <2>1. c.op \in Op
      BY DEF WorkerTypeOK, Call
    <2>2. \/ UNCHANGED row
          \/ \E s \in {"SUCCEEDED", "RETRYING", "DEAD_LETTERED"} :
               row[c.op].status = "RUNNING" /\ row' = WithoutLease(c.op, s)
      BY <1>5 DEF Serve, WorkerComplete, WorkerFailRead, WorkerFailCommit, serviceVars,
                  OwnsLease
    <2>. QED
      BY <1>1, <2>1, <2>2, ReportMoves
  <1>6. \/ UNCHANGED row
        \/ ServiceStep
        \/ \E w \in Worker : PollClaim(w) \/ Heartbeat(w)
        \/ \E c \in calls : Serve(c)
    BY DEF Next, vars, serviceVars, Work, Poll, PollCursor, PollRead, PollForeign,
           PollRefused, PollStatus, PollSkip, PollEmpty, PollReturn, PollReturnLost,
           PollStatusFails, PollFails, Report, ReportReturns, CallTimesOut, CallLost,
           Crash, ServiceCrash
  <1>. QED
    BY <1>1, <1>2, <1>3, <1>4, <1>5, <1>6

\* The service with its enterprise workers implements the lifecycle: whatever
\* fails, an operation moves only along the domain map, is claimed below the
\* limit, and leaves a terminal status only by the redrive of a dead letter.
THEOREM PrivateRefinesLifecycle == Spec => LifecycleSpec
  <1>1. Init => Lifecycle!Init
    BY SameDomain DEF Init, ServiceInit, Lifecycle!Init
  <1>2. IInv /\ [Next]_vars => [Lifecycle!Next]_StatusOf
    BY NextMoves
  <1>3. IInv /\ [Next]_vars => [Lifecycle!Next]_([o \in Op |-> row[o].status])
    BY <1>2 DEF StatusOf
  <1>. QED
    BY <1>1, <1>3, PrivateInvariant, PTL DEF Spec, LifecycleSpec, Lifecycle!Spec

-----------------------------------------------------------------------------
(* Reports and budgets                                                     *)

Busy == {"claimed", "executing", "reporting"}

\* While a worker owns the lease of what it has in hand, the row is at the
\* attempt it has claimed.
HandOK(w) ==
    agent[w].pc \in Busy /\ OwnsLease(agent[w].op, w) =>
        row[agent[w].op].attempt = agent[w].attempt

\* The calls a worker may be waiting for
Unlate == {c \in calls : ~c.late}

\* A worker waits for at most one report, which is about what it has in hand.
\* It gives a report up only when something fails.
CallOK(c) ==
    IF c.late THEN faults > 0
    ELSE /\ agent[c.worker].pc = "reporting"
         /\ agent[c.worker].op = c.op /\ agent[c.worker].attempt = c.attempt
         /\ c.read \in {0, c.attempt}
         /\ \A d \in Unlate : d.worker = c.worker => d = c

ReportsOK == (\A w \in Worker : HandOK(w)) /\ (\A c \in calls : CallOK(c))

\* Only a scan puts rows in the reaper's hands, each of them once.
LEMMA ReaperRows ==
    ASSUME IInv, SeenOnce, [Next]_vars
    PROVE  /\ SeenOnce'
           /\ reaping' \subseteq reaping \/ ReaperScan
  <1>1. reaping' \subseteq reaping \/ ReaperScan
    BY DEF Next, vars, serviceVars, Work, Poll, PollCursor, PollRead, PollForeign,
           PollClaim, PollRefused, PollStatus, PollSkip, PollEmpty, PollReturn,
           PollReturnLost, PollStatusFails, PollFails, Heartbeat, Report,
           ReportReturns, CallTimesOut, CallLost, Crash, ServiceCrash, Serve,
           WorkerComplete, WorkerFailRead, WorkerFailCommit, ServiceStep, Admit,
           Insert, Cancel, Redrive, LeaseExpires, StartWorkflow, StartFails,
           EnqueueStep, EnqueueUpdate, EnqueueSelect, EnqueuePublish,
           EnqueueCheckpoint, EnqueueFails, Reap, ReapFails
  <1>2. CASE ReaperScan
    BY <1>2 DEF ReaperScan, SeenOnce
  <1>. QED
    BY <1>1, <1>2 DEF SeenOnce

\* Failures are counted, and a state before which nothing failed is one after
\* a step that did not fail.
LEMMA FaultsGrow ==
    ASSUME IInv, [Next]_vars
    PROVE  /\ faults \in Nat /\ faults' \in Nat /\ faults <= faults'
           /\ faults' = 0 => faults = 0 /\ ~Fault
  <1>1. faults \in Nat
    BY BoundsType DEF IInv, ServiceInv, ServiceTypeOK
  <1>2. faults' = faults \/ Fault
    BY DEF Next, vars, serviceVars, Work, Poll, PollCursor, PollRead, PollForeign,
           PollClaim, PollRefused, PollStatus, PollSkip, PollEmpty, PollReturn,
           SetCursor, PollReturnLost, PollStatusFails, PollFails, Heartbeat, Report,
           ReportReturns, CallTimesOut, CallLost, Crash, ServiceCrash, Serve,
           WorkerComplete, WorkerFailRead, WorkerFailCommit, ServiceStep, Admit,
           Insert, Cancel, Redrive, LeaseExpires, StartWorkflow, StartFails,
           EnqueueStep, EnqueueUpdate, EnqueueSelect, EnqueuePublish,
           EnqueueCheckpoint, EnqueueFails, ReaperScan, Reap, ReapFails
  <1>. QED
    BY <1>1, <1>2 DEF Fault

\* A handler gives no lease, and ends or keeps the others.
LEMMA ServeLeases ==
    ASSUME IInv, NEW c \in calls, Serve(c)
    PROVE  \A p \in Op : KeepsLease(p)
  <1>1. c.op \in Op
    BY DEF IInv, WorkerTypeOK, Call
  <1>2. CASE UNCHANGED row
    BY <1>2 DEF KeepsLease
  <1>3. ASSUME NEW s, s # "RUNNING", row' = WithoutLease(c.op, s)
        PROVE  \A p \in Op : KeepsLease(p)
    <2>1. row'[c.op].status = s /\ \A p \in Op \ {c.op} : row'[p] = row[p]
      BY <1>1, <1>3 DEF WithoutLease, IInv, ServiceInv, ServiceTypeOK, Row
    <2>. QED
      BY <1>3, <2>1 DEF KeepsLease
  <1>. QED
    BY <1>2, <1>3 DEF Serve, WorkerComplete, WorkerFailRead, WorkerFailCommit, serviceVars

\* A report its worker waits for writes the row only for the attempt it has
\* read.
LEMMA ServeRows ==
    ASSUME IInv, ReportsOK, NEW c \in calls, Serve(c), ~c.late
    PROVE  \A p \in Op : RowStep(p)
  <1>1. c.op \in Op /\ c.worker \in Worker
    BY DEF IInv, WorkerTypeOK, Call
  <1>2. OwnsLease(c.op, c.worker) /\ c.read > 0 => row[c.op].attempt = c.read
    <2>1. CallOK(c) /\ HandOK(c.worker)
      BY <1>1 DEF ReportsOK
    <2>2. c.read > 0 => c.read = c.attempt
      BY <2>1 DEF CallOK
    <2>. QED
      BY <2>1, <2>2 DEF CallOK, HandOK, Busy
  <1>3. \/ UNCHANGED row
        \/ \E s \in {"SUCCEEDED", "DEAD_LETTERED"} : row' = WithoutLease(c.op, s)
        \/ row' = WithoutLease(c.op, "RETRYING") /\ row[c.op].attempt < MaxAttempts[c.op]
    BY <1>2 DEF Serve, WorkerComplete, WorkerFailRead, WorkerFailCommit, serviceVars, Retry
  <1>4. ServiceTypeOK
    BY DEF IInv, ServiceInv
  <1>. QED
    BY <1>1, <1>3, <1>4, RowSame, RowCleared DEF Statuses, Waiting

\* Leases stay, and each worker keeps what it has in hand or lets go of it.
LEMMA HandKept ==
    ASSUME IInv, ReportsOK, \A p \in Op : KeepsLease(p), NEW w \in Worker,
           \/ agent'[w].pc \notin Busy
           \/ /\ agent[w].pc \in Busy
              /\ agent'[w].op = agent[w].op /\ agent'[w].attempt = agent[w].attempt
    PROVE  HandOK(w)'
  <1>. SUFFICES ASSUME agent'[w].pc \in Busy, OwnsLease(agent[w].op, w)'
                PROVE  row'[agent'[w].op].attempt = agent'[w].attempt
    BY DEF HandOK, OwnsLease
  <1>. DEFINE o == agent[w].op
  <1>1. /\ agent[w].pc \in Busy /\ o \in Op
        /\ agent'[w].op = o /\ agent'[w].attempt = agent[w].attempt
    BY DEF IInv, AgentOK, Busy
  <1>2. row'[o].status = "RUNNING" /\ row'[o].owner = w
    BY <1>1 DEF OwnsLease
  <1>3. OwnsLease(o, w) /\ HandOK(w) /\ row'[o].attempt = row[o].attempt
    BY <1>1, <1>2 DEF KeepsLease, OwnsLease, ReportsOK
  <1>. QED
    BY <1>1, <1>3 DEF HandOK

\* Calls are served or lost, and a worker whose call is under way stands still.
LEMMA CallsKept ==
    ASSUME IInv, ReportsOK, [Next]_vars, NEW w \in Worker, calls' \subseteq calls,
           \A v \in Worker \ {w} : agent'[v] = agent[v],
           agent'[w] = agent[w] \/ \A c \in calls' : c.late \/ c.worker # w
    PROVE  \A c \in calls' : CallOK(c)'
  <1>. SUFFICES ASSUME NEW c \in calls' PROVE CallOK(c)'
    OBVIOUS
  <1>1. CallOK(c) /\ c.worker \in Worker
    BY DEF ReportsOK, IInv, WorkerTypeOK, Call
  <1>2. CASE c.late
    BY <1>1, <1>2, FaultsGrow DEF CallOK
  <1>3. CASE ~c.late
    <2>1. agent'[c.worker] = agent[c.worker]
      BY <1>1, <1>3
    <2>. QED
      BY <1>1, <1>3, <2>1 DEF CallOK, Unlate
  <1>. QED
    BY <1>2, <1>3

\* A worker that does not report waits for no call.
LEMMA Uncalled ==
    ASSUME ReportsOK, NEW w \in Worker, agent[w].pc # "reporting"
    PROVE  \A c \in calls : c.late \/ c.worker # w
  BY DEF ReportsOK, CallOK

\* A poll's claim: the attempt in hand is the one the row gets.
LEMMA ClaimReports ==
    ASSUME IInv, ReportsOK, [Next]_vars, NEW w \in Worker, PollClaim(w)
    PROVE  ReportsOK'
  <1>. DEFINE o == Message(w).op
  <1>1. o \in Op /\ ClaimOperation(o, w) /\ agent[w].pc = "scan"
    BY MessageType DEF PollClaim, AtMessage
  <1>2. /\ agent' = [agent EXCEPT ![w].pc = "claimed", ![w].op = o,
                                  ![w].attempt = row[o].attempt + 1]
        /\ UNCHANGED calls
    BY DEF PollClaim
  <1>. HIDE DEF o
  <1>3. /\ row'[o].owner = w /\ row'[o].attempt = row[o].attempt + 1
        /\ \A p \in Op \ {o} : row'[p] = row[p]
    BY <1>1, ClaimRow DEF IInv, ServiceInv
  <1>4. /\ agent'[w].op = o /\ agent'[w].attempt = row[o].attempt + 1
        /\ \A v \in Worker \ {w} : agent'[v] = agent[v]
    BY <1>2 DEF IInv, WorkerTypeOK, Agent
  <1>5. ASSUME NEW v \in Worker \ {w}
        PROVE  HandOK(v)'
    <2>1. agent'[v] = agent[v] /\ (agent[v].pc \in Busy => agent[v].op \in Op)
      BY <1>4 DEF IInv, AgentOK, Busy
    <2>. QED
      BY <1>3, <2>1 DEF ReportsOK, HandOK, OwnsLease
  <1>6. HandOK(w)'
    BY <1>3, <1>4 DEF HandOK
  <1>7. \A c \in calls' : CallOK(c)'
    BY <1>1, <1>2, <1>4, Uncalled, CallsKept
  <1>. QED
    BY <1>5, <1>6, <1>7 DEF ReportsOK

\* Polling, executing and waiting
LEMMA WorkReports ==
    ASSUME IInv, ReportsOK, [Next]_vars, NEW w \in Worker, ~PollClaim(w),
           \/ Work(w) \/ Heartbeat(w) \/ PollReturnLost(w)
           \/ PollStatusFails(w) \/ PollFails(w)
    PROVE  ReportsOK' /\ (\A p \in Op : RowStep(p))
  <1>1. agent[w] \in Agent
    BY DEF IInv, WorkerTypeOK
  <1>2. \A p \in Op : RowStep(p)
    <2>1. CASE UNCHANGED row
      BY <2>1, RowSame
    <2>2. CASE Heartbeat(w)
      <3>1. agent[w].op \in Op
        BY <2>2 DEF Heartbeat, IInv, AgentOK
      <3>2. \A p \in Op : /\ row'[p].status = row[p].status
                          /\ row'[p].owner = row[p].owner
                          /\ row'[p].attempt = row[p].attempt
        BY <2>2, <3>1 DEF Heartbeat, IInv, ServiceInv, ServiceTypeOK, Row
      <3>. QED
        BY <3>2 DEF RowStep
    <2>. QED
      BY <2>1, <2>2 DEF Work, Poll, PollCursor, PollRead, PollForeign, PollRefused,
                        PollStatus, PollSkip, PollEmpty, PollReturn, PollReturnLost,
                        PollStatusFails, PollFails, Report, ReportReturns,
                        serviceVars
  <1>3. ASSUME \A v \in Worker \ {w} : agent'[v] = agent[v],
               \/ agent'[w].pc \notin Busy
               \/ /\ agent[w].pc \in Busy
                  /\ agent'[w].op = agent[w].op /\ agent'[w].attempt = agent[w].attempt
        PROVE  \A v \in Worker : HandOK(v)'
    <2>1. ASSUME NEW v \in Worker
          PROVE  \/ agent'[v].pc \notin Busy
                 \/ /\ agent[v].pc \in Busy
                    /\ agent'[v].op = agent[v].op /\ agent'[v].attempt = agent[v].attempt
      BY <1>3
    <2>. QED
      BY <1>2, <2>1, HandKept, RowKeepsLease
  <1>4. ASSUME NEW kind \in {"complete", "retryable", "fatal"}, Report(w, kind)
        PROVE  ReportsOK'
    <2>1. PICK new : new = [worker |-> w, op |-> agent[w].op, attempt |-> agent[w].attempt,
                            kind |-> kind, read |-> 0, late |-> FALSE]
      OBVIOUS
    <2>2. /\ agent[w].pc = "executing" /\ calls' = calls \cup {new}
          /\ \A v \in Worker \ {w} : agent'[v] = agent[v]
          /\ agent'[w].pc = "reporting" /\ agent'[w].op = agent[w].op
          /\ agent'[w].attempt = agent[w].attempt /\ UNCHANGED faults
      BY <1>1, <1>4, <2>1 DEF Report, Agent, IInv, WorkerTypeOK, serviceVars
    <2>3. \A v \in Worker : HandOK(v)'
      BY <1>3, <2>2 DEF Busy
    <2>4. \A c \in calls : c.late \/ c.worker \in Worker \ {w}
      BY <2>2, Uncalled DEF IInv, WorkerTypeOK, Call
    <2>5. CallOK(new)'
      BY <2>1, <2>2, <2>4 DEF CallOK, Unlate
    <2>6. ASSUME NEW c \in calls
          PROVE  CallOK(c)'
      <3>1. CallOK(c)
        BY DEF ReportsOK
      <3>2. CASE c.late
        BY <2>2, <3>1, <3>2 DEF CallOK
      <3>3. CASE ~c.late
        BY <2>1, <2>2, <2>4, <3>1, <3>3 DEF CallOK, Unlate
      <3>. QED
        BY <3>2, <3>3
    <2>. QED
      BY <2>2, <2>3, <2>5, <2>6 DEF ReportsOK
  <1>5. CASE ReportReturns(w)
    <2>1. /\ UNCHANGED calls /\ agent' = [agent EXCEPT ![w] = Idle]
          /\ \A c \in calls : c.late \/ c.worker # w
      BY <1>5 DEF ReportReturns, Awaited
    <2>2. agent'[w].pc \notin Busy /\ \A v \in Worker \ {w} : agent'[v] = agent[v]
      BY <2>1 DEF Idle, Busy, IInv, WorkerTypeOK
    <2>3. \A v \in Worker : HandOK(v)'
      BY <1>3, <2>1, <2>2
    <2>4. \A c \in calls' : CallOK(c)'
      BY <2>1, <2>2, CallsKept
    <2>. QED
      BY <1>2, <2>3, <2>4 DEF ReportsOK
  <1>6. CASE Heartbeat(w)
    <2>1. UNCHANGED <<agent, calls>>
      BY <1>6 DEF Heartbeat
    <2>2. agent[w].pc \in Busy
      BY <1>6 DEF Heartbeat, Busy
    <2>3. \A v \in Worker : HandOK(v)'
      BY <1>3, <2>1, <2>2
    <2>4. \A c \in calls' : CallOK(c)'
      BY <2>1, <2>2, CallsKept
    <2>. QED
      BY <1>2, <2>3, <2>4 DEF ReportsOK
  <1>7. CASE Poll(w) \/ PollReturnLost(w) \/ PollStatusFails(w) \/ PollFails(w)
    <2>1. UNCHANGED calls /\ agent[w].pc # "reporting"
      BY <1>7 DEF Poll, PollCursor, PollRead, PollForeign, PollClaim, PollRefused,
                  PollStatus, PollSkip, PollEmpty, PollReturn, PollReturnLost,
                  PollStatusFails, PollFails, AtMessage
    <2>2. /\ \A v \in Worker \ {w} : agent'[v] = agent[v]
          /\ \/ agent'[w].pc \notin Busy
             \/ /\ agent[w].pc \in Busy
                /\ agent'[w].op = agent[w].op /\ agent'[w].attempt = agent[w].attempt
      BY <1>1, <1>7 DEF Poll, PollCursor, PollRead, PollForeign, PollRefused,
                        PollStatus, PollSkip, PollEmpty, PollReturn, PollReturnLost,
                        PollStatusFails, PollFails, Agent, Idle, Busy, IInv,
                        WorkerTypeOK
    <2>3. \A v \in Worker : HandOK(v)'
      BY <1>3, <2>1, <2>2
    <2>4. \A c \in calls' : CallOK(c)'
      BY <2>1, <2>2, Uncalled, CallsKept
    <2>. QED
      BY <1>2, <2>3, <2>4 DEF ReportsOK
  <1>. QED
    BY <1>2, <1>4, <1>5, <1>6, <1>7 DEF Work

\* A handler ends its call, or notes the attempt it has read.
LEMMA ServeReports ==
    ASSUME IInv, ReportsOK, [Next]_vars, NEW c \in calls, Serve(c)
    PROVE  ReportsOK'
  <1>1. c \in Call /\ c.worker \in Worker /\ CallOK(c) /\ HandOK(c.worker)
    BY DEF ReportsOK, IInv, WorkerTypeOK, Call
  <1>2. UNCHANGED <<agent, faults>>
    BY DEF Serve, WorkerComplete, WorkerFailRead, WorkerFailCommit, serviceVars
  <1>3. \A v \in Worker : HandOK(v)'
    <2>1. \A v \in Worker : agent'[v].pc \notin Busy \/ agent[v].pc \in Busy
      BY <1>2
    <2>. QED
      BY <1>2, <2>1, ServeLeases, HandKept
  <1>4. CASE calls' \subseteq calls
    BY <1>1, <1>2, <1>3, <1>4, CallsKept DEF ReportsOK
  <1>5. CASE /\ OwnsLease(c.op, c.worker)
             /\ calls' = (calls \ {c}) \cup {[c EXCEPT !.read = row[c.op].attempt]}
    <2>1. PICK new : new = [c EXCEPT !.read = row[c.op].attempt]
      OBVIOUS
    <2>2. /\ new.worker = c.worker /\ new.op = c.op /\ new.attempt = c.attempt
          /\ new.late = c.late /\ new.read = row[c.op].attempt
          /\ calls' = (calls \ {c}) \cup {new}
      BY <1>1, <1>5, <2>1 DEF Call
    <2>3. \A d \in Unlate' : d = new \/ (d \in Unlate /\ d # c)
      BY <2>2 DEF Unlate
    <2>4. CallOK(new)'
      <3>1. CASE c.late
        BY <1>1, <1>2, <2>2, <3>1 DEF CallOK
      <3>2. CASE ~c.late
        <4>1. new.read = c.attempt
          BY <1>1, <1>5, <2>2, <3>2 DEF CallOK, HandOK, Busy
        <4>. QED
          BY <1>1, <1>2, <2>2, <2>3, <3>2, <4>1 DEF CallOK
      <3>. QED
        BY <3>1, <3>2
    <2>5. ASSUME NEW d \in calls, d # c
          PROVE  CallOK(d)'
      <3>1. CallOK(d)
        BY DEF ReportsOK
      <3>2. CASE d.late
        BY <1>2, <3>1, <3>2 DEF CallOK
      <3>3. CASE ~d.late
        <4>1. c.late \/ c.worker # d.worker
          BY <2>5, <3>1, <3>3 DEF CallOK, Unlate
        <4>2. \A e \in Unlate' : e.worker = d.worker => e = d
          <5>1. ASSUME NEW e \in Unlate', e.worker = d.worker
                PROVE  e \in Unlate
            BY <2>2, <4>1, <5>1 DEF Unlate
          <5>. QED
            BY <3>1, <3>3, <5>1 DEF CallOK
        <4>. QED
          BY <1>2, <3>1, <3>3, <4>2 DEF CallOK
      <3>. QED
        BY <3>2, <3>3
    <2>. QED
      BY <1>3, <2>2, <2>4, <2>5 DEF ReportsOK
  <1>. QED
    BY <1>4, <1>5 DEF Serve, WorkerComplete, WorkerFailRead, WorkerFailCommit

\* A report is given up or lost: nobody waits for it any more.
LEMMA CallFailsReports ==
    ASSUME IInv, ReportsOK, [Next]_vars, NEW c \in calls, CallTimesOut(c) \/ CallLost(c)
    PROVE  ReportsOK'
  <1>1. c \in Call /\ c.worker \in Worker /\ UNCHANGED row
    BY DEF IInv, WorkerTypeOK, Call, CallTimesOut, CallLost
  <1>2. \A p \in Op : KeepsLease(p)
    BY <1>1 DEF KeepsLease
  <1>3. \A v \in Worker \ {c.worker} : agent'[v] = agent[v]
    BY <1>1 DEF CallTimesOut, CallLost, IInv, WorkerTypeOK
  <1>4. /\ agent'[c.worker].pc \notin Busy \/ agent'[c.worker] = agent[c.worker]
        /\ CallTimesOut(c) => agent'[c.worker].pc = "idle"
    BY <1>1 DEF CallTimesOut, CallLost, IInv, WorkerTypeOK, Idle, Busy
  <1>5. ASSUME NEW v \in Worker
        PROVE  HandOK(v)'
    <2>1. \/ agent'[v].pc \notin Busy
          \/ agent[v].pc \in Busy /\ agent'[v] = agent[v]
      BY <1>3, <1>4
    <2>. QED
      BY <1>2, <2>1, HandKept
  <1>6. CASE CallLost(c)
    <2>1. calls' \subseteq calls /\ agent' = agent
      BY <1>6 DEF CallLost
    <2>2. \A d \in calls' : CallOK(d)'
      BY <1>1, <2>1, CallsKept
    <2>. QED
      BY <1>5, <2>2 DEF ReportsOK
  <1>7. CASE CallTimesOut(c)
    <2>1. PICK new : new = [c EXCEPT !.late = TRUE]
      OBVIOUS
    <2>2. /\ new.late = TRUE /\ calls' = (calls \ {c}) \cup {new}
          /\ c \in Unlate /\ faults' > 0
      <3>1. faults \in Nat
        BY BoundsType DEF IInv, ServiceInv, ServiceTypeOK
      <3>. QED
        BY <1>1, <1>7, <2>1, <3>1 DEF CallTimesOut, Call, Awaited, Unlate, Fault
    <2>3. Unlate' \subseteq Unlate \ {c}
      BY <2>2 DEF Unlate
    <2>4. ASSUME NEW d \in calls'
          PROVE  CallOK(d)'
      <3>1. CASE d.late
        BY <2>2, <3>1 DEF CallOK
      <3>2. CASE ~d.late
        <4>1. d \in Unlate /\ d # c
          BY <2>3, <2>4, <3>2 DEF Unlate
        <4>2. CallOK(d) /\ CallOK(c) /\ d.worker \in Worker
          BY <2>2, <4>1 DEF ReportsOK, Unlate, IInv, WorkerTypeOK, Call
        <4>3. d.worker # c.worker
          BY <2>2, <4>1, <4>2 DEF CallOK, Unlate
        <4>4. agent'[d.worker] = agent[d.worker]
          BY <1>3, <4>2, <4>3
        <4>. QED
          BY <2>3, <3>2, <4>2, <4>4 DEF CallOK
      <3>. QED
        BY <3>1, <3>2
    <2>. QED
      BY <1>5, <2>4 DEF ReportsOK
  <1>. QED
    BY <1>6, <1>7

\* A step of the service alone, or none
LEMMA ServiceReports ==
    ASSUME IInv, ReportsOK, [Next]_vars, UNCHANGED <<agent, calls>>,
           \A p \in Op : RowStep(p)
    PROVE  ReportsOK'
  <1>1. ASSUME NEW v \in Worker
        PROVE  HandOK(v)'
    <2>1. agent'[v].pc \notin Busy \/ agent[v].pc \in Busy
      OBVIOUS
    <2>. QED
      BY <2>1, RowKeepsLease, HandKept
  <1>2. ASSUME NEW c \in calls
        PROVE  CallOK(c)'
    <2>1. CallOK(c) /\ c.worker \in Worker
      BY DEF ReportsOK, IInv, WorkerTypeOK, Call
    <2>. QED
      BY <2>1, CallsKept
  <1>. QED
    BY <1>1, <1>2 DEF ReportsOK

\* Every step keeps reports about what the workers have in hand, whatever fails.
LEMMA NextReports ==
    ASSUME IInv, ReportsOK, [Next]_vars
    PROVE  ReportsOK'
  <1>1. CASE UNCHANGED vars
    BY <1>1, RowSame, ServiceReports DEF vars, serviceVars
  <1>2. CASE ServiceStep /\ UNCHANGED <<cursor, agent, calls>>
    BY <1>2, ServiceRows, ServiceReports DEF IInv
  <1>3. ASSUME NEW w \in Worker,
               \/ Work(w) \/ Heartbeat(w) \/ PollReturnLost(w)
               \/ PollStatusFails(w) \/ PollFails(w)
        PROVE  ReportsOK'
    BY <1>3, ClaimReports, WorkReports
  <1>4. ASSUME NEW c \in calls, Serve(c) \/ CallTimesOut(c) \/ CallLost(c)
        PROVE  ReportsOK'
    BY <1>4, ServeReports, CallFailsReports
  <1>5. CASE Crash
    <2>1. /\ UNCHANGED row /\ calls' = {}
          /\ \A v \in Worker : agent'[v] = agent[v] \/ agent'[v].pc = "idle"
      BY <1>5 DEF Crash, ServiceCrash, Idle
    <2>2. \A p \in Op : KeepsLease(p)
      BY <2>1 DEF KeepsLease
    <2>3. ASSUME NEW v \in Worker
          PROVE  HandOK(v)'
      <3>1. \/ agent'[v].pc \notin Busy
            \/ agent[v].pc \in Busy /\ agent'[v] = agent[v]
        BY <2>1 DEF Busy
      <3>. QED
        BY <2>2, <3>1, HandKept
    <2>. QED
      BY <2>1, <2>3 DEF ReportsOK
  <1>. QED
    BY <1>1, <1>2, <1>3, <1>4, <1>5 DEF Next

\* Where nothing fails, a step claims an operation or is a RowStep.
LEMMA NextRows ==
    ASSUME IInv, ReportsOK, [Next]_vars, faults = 0, ~Fault
    PROVE  (\A p \in Op : RowStep(p)) \/ \E w \in Worker : PollClaim(w)
  <1>1. CASE UNCHANGED row
    BY <1>1, RowSame
  <1>2. CASE ServiceStep
    BY <1>2, ServiceRows DEF IInv
  <1>3. ASSUME NEW w \in Worker,
               \/ Work(w) \/ Heartbeat(w) \/ PollReturnLost(w)
               \/ PollStatusFails(w) \/ PollFails(w)
        PROVE  (\A p \in Op : RowStep(p)) \/ PollClaim(w)
    BY <1>3, WorkReports
  <1>4. ASSUME NEW c \in calls, Serve(c)
        PROVE  \A p \in Op : RowStep(p)
    <2>1. ~c.late
      BY DEF ReportsOK, CallOK
    <2>. QED
      BY <1>4, <2>1, ServeRows
  <1>. QED
    BY <1>1, <1>2, <1>3, <1>4 DEF Next, CallTimesOut, CallLost, Crash, ServiceCrash, vars,
                                  serviceVars

\* Reports and budgets, with what they rest on
AttemptInv ==
    /\ IInv /\ ReportsOK /\ SeenOnce
    /\ faults = 0 => \A o \in Op : BudgetOK(o)

\* Every step keeps reports, and budgets until something fails.
LEMMA NextAttempts == AttemptInv /\ [Next]_vars => AttemptInv'
  <1>. SUFFICES ASSUME AttemptInv, [Next]_vars PROVE AttemptInv'
    OBVIOUS
  <1>. USE DEF AttemptInv
  <1>1. IInv' /\ row' \in [Op -> Row]
    BY NextIInv DEF IInv, ServiceInv, ServiceTypeOK
  <1>2. SeenOnce' /\ (reaping' \subseteq reaping \/ ReaperScan)
    BY ReaperRows
  <1>3. ReportsOK'
    BY NextReports
  <1>4. ASSUME faults' = 0, NEW o \in Op
        PROVE  BudgetOK(o)'
    <2>1. faults = 0 /\ ~Fault
      BY <1>4, FaultsGrow
    <2>2. (\A p \in Op : RowStep(p)) \/ \E w \in Worker : PollClaim(w)
      BY <2>1, NextRows
    <2>3. BudgetOK(o)
      BY <2>1
    <2>4. CASE ReaperScan
      BY <2>3, <2>4, BudgetScanned DEF IInv
    <2>5. ASSUME NEW w \in Worker, PollClaim(w)
          PROVE  BudgetOK(o)'
      <3>1. PICK p \in Op : ClaimOperation(p, w) /\ UNCHANGED reaping
        BY <2>5, MessageType DEF PollClaim
      <3>. QED
        BY <2>3, <3>1, BudgetClaimed DEF IInv
    <2>6. CASE RowStep(o) /\ reaping' \subseteq reaping
      BY <1>1, <2>3, <2>6, BudgetStays DEF IInv
    <2>. QED
      BY <1>2, <2>2, <2>4, <2>5, <2>6
  <1>. QED
    BY <1>1, <1>2, <1>3, <1>4

LEMMA InitAttempts == Init => AttemptInv
  <1>. SUFFICES ASSUME Init PROVE AttemptInv
    OBVIOUS
  <1>1. IInv
    BY InitIInv
  <1>2. ReportsOK /\ SeenOnce
    BY DEF Init, ServiceInit, Idle, Busy, ReportsOK, HandOK, SeenOnce
  <1>3. \A o \in Op : BudgetOK(o)
    BY BudgetInit DEF Init
  <1>. QED
    BY <1>1, <1>2, <1>3 DEF AttemptInv

\* Every reachable state has reports about the lease their worker was given,
\* and until something fails operations within their budgets.
THEOREM AttemptInvariant == Spec => []AttemptInv
  BY InitAttempts, NextAttempts, PTL DEF Spec

\* workerComplete and workerFail ask only for the lease's owner.  For a worker
\* that waits for the answer that is enough, whatever else fails: who owns the
\* lease holds the attempt it reports.
THEOREM OwnersReportTheirAttempt == Spec => []ReportsMatchLease
  <1>1. AttemptInv => ReportsMatchLease
    <2>. SUFFICES ASSUME AttemptInv, NEW c \in calls, ~c.late, OwnsLease(c.op, c.worker)
                  PROVE  row[c.op].attempt = c.attempt /\ c.read \in {0, c.attempt}
      BY DEF ReportsMatchLease
    <2>1. c.worker \in Worker
      BY DEF AttemptInv, IInv, WorkerTypeOK, Call
    <2>. QED
      BY <2>1 DEF AttemptInv, ReportsOK, CallOK, HandOK, Busy
  <1>. QED
    BY <1>1, AttemptInvariant, PTL

\* reapExpiredLeaseBatch: until something fails, a scan that is stale when its
\* rows are handled costs an operation one attempt beyond its budget, never two.
THEOREM StaleScanCostsOne == Spec => []OverrunByOne
  <1>1. AttemptInv => OverrunByOne
    BY DEF AttemptInv, BudgetOK, OverrunByOne
  <1>. QED
    BY <1>1, AttemptInvariant, PTL

\* A report its worker waits for overwrites no newer attempt.
AwaitedAreCurrent ==
    [][\A c \in calls : Serve(c) /\ ~c.late /\ row' # row =>
                          c.attempt = row[c.op].attempt]_vars

\* Whatever fails, only a late report can overwrite a newer attempt of the same
\* worker: a handler that changes a row for a worker still waiting does so for
\* the attempt the row is at.
THEOREM AwaitedReportsAreCurrent == Spec => AwaitedAreCurrent
  <1>1. AttemptInv /\ [Next]_vars =>
          [\A c \in calls : Serve(c) /\ ~c.late /\ row' # row =>
                               c.attempt = row[c.op].attempt]_vars
    <2>. SUFFICES ASSUME AttemptInv, NEW c \in calls, Serve(c), ~c.late, row' # row
                  PROVE  c.attempt = row[c.op].attempt
      OBVIOUS
    <2>1. OwnsLease(c.op, c.worker)
      BY DEF Serve, WorkerComplete, WorkerFailRead, WorkerFailCommit, serviceVars
    <2>2. c.worker \in Worker
      BY DEF AttemptInv, IInv, WorkerTypeOK, Call
    <2>. QED
      BY <2>1, <2>2 DEF AttemptInv, ReportsOK, CallOK, HandOK, Busy
  <1>. QED
    BY <1>1, AttemptInvariant, PTL DEF Spec, AwaitedAreCurrent

\* Where nothing fails no report is late, and none overwrites a newer attempt.
THEOREM ReportsAreCurrent ==
    ASSUME MaxFaults = 0
    PROVE  Spec => NoStaleOverwrite
  <1>1. AttemptInv => \A c \in calls : ~c.late
    BY DEF AttemptInv, IInv, ServiceInv, ServiceTypeOK, ReportsOK, CallOK
  <1>2. AttemptInv /\ [\A c \in calls : Serve(c) /\ ~c.late /\ row' # row =>
                                          c.attempt = row[c.op].attempt]_vars
          => [\A c \in calls : Serve(c) /\ row' # row =>
                                 c.attempt = row[c.op].attempt]_vars
    BY <1>1
  <1>. QED
    BY <1>2, AttemptInvariant, AwaitedReportsAreCurrent, PTL
       DEF NoStaleOverwrite, AwaitedAreCurrent

-----------------------------------------------------------------------------
(* Operations that wait for a worker                                       *)

\* The cursors and the polls stay within the stream.
AheadOK ==
    /\ \A t \in Tenant : cursor[t] <= Len(stream)
    /\ \A w \in Worker :
          /\ agent[w].pc \in {"cursor", "scan"} => agent[w].at <= Len(stream)
          /\ agent[w].pc \in {"refused", "skip", "claimed"} => agent[w].at < Len(stream)

\* The last message a poll has decided to leave behind
Passed(w) ==
    IF agent[w].pc \in {"skip", "claimed"} THEN agent[w].at + 1
    ELSE IF agent[w].pc \in {"cursor", "scan", "refused"} THEN agent[w].at ELSE 0

\* Neither the cursor nor a poll of the tenant is past the message.
Ahead(t, i) ==
    /\ cursor[t] < i
    /\ \A w \in Worker : WorkerTenant[w] = t => Passed(w) < i

\* A QUEUED operation is about to be published, or has a message ahead of all
\* polls of its tenant.
QueuedOK(o) ==
    row[o].status = "QUEUED" =>
        \/ Publishing(o)
        \/ \E i \in 1..Len(stream) : stream[i].op = o /\ Ahead(TenantOf[o], i)

\* A step of a worker leaves messages behind one at a time: the one its poll is
\* at, and the cursor is set to what its poll has left behind.
LEMMA PollPasses ==
    ASSUME IInv, NEW w \in Worker,
           \/ Work(w) \/ Heartbeat(w) \/ PollReturnLost(w)
           \/ PollStatusFails(w) \/ PollFails(w)
    PROVE  /\ UNCHANGED <<workflow, stream>>
           /\ \A v \in Worker \ {w} : agent'[v] = agent[v]
           /\ \A t \in Tenant : \/ cursor'[t] = cursor[t]
                                \/ t = WorkerTenant[w] /\ cursor'[t] = Passed(w)
           /\ \/ Passed(w)' \in {0, Passed(w), cursor[WorkerTenant[w]]}
              \/ /\ Passed(w)' = agent[w].at + 1 /\ agent[w].at = Passed(w)
                 /\ \/ PollForeign(w) \/ PollClaim(w) \/ PollStatusFails(w)
                    \/ PollStatus(w) /\ ~CanTransition(row[Message(w).op].status, "RUNNING")
  <1>. USE DEF IInv, WorkerTypeOK
  <1>1. agent[w] \in Agent /\ WorkerTenant[w] \in Tenant
    BY WorkerTenantType
  <1>2. UNCHANGED <<workflow, stream>> /\ \A v \in Worker \ {w} : agent'[v] = agent[v]
    BY DEF Work, Poll, PollCursor, PollRead, PollForeign, PollClaim, PollRefused,
           PollStatus, PollSkip, PollEmpty, PollReturn, PollReturnLost,
           PollStatusFails, PollFails, Heartbeat, Report, ReportReturns, serviceVars
  <1>3. ASSUME NEW t \in Tenant
        PROVE  cursor'[t] = cursor[t] \/ (t = WorkerTenant[w] /\ cursor'[t] = Passed(w))
    <2>1. CASE UNCHANGED cursor
      BY <2>1
    <2>2. CASE PollSkip(w) \/ PollReturn(w) \/ PollReturnLost(w)
      <3>1. Passed(w) = agent[w].at + 1
        BY <2>2 DEF PollSkip, PollReturn, PollReturnLost, Passed
      <3>2. \/ UNCHANGED cursor
            \/ cursor' = [cursor EXCEPT ![WorkerTenant[w]] = agent[w].at + 1]
        BY <2>2 DEF PollSkip, PollReturn, PollReturnLost, SetCursor
      <3>. QED
        BY <1>1, <3>1, <3>2
    <2>. QED
      BY <2>1, <2>2 DEF Work, Poll, PollCursor, PollRead, PollForeign, PollClaim,
                        PollRefused, PollStatus, PollEmpty, PollStatusFails,
                        PollFails, Heartbeat, Report, ReportReturns
  <1>4. \/ Passed(w)' \in {0, Passed(w), cursor[WorkerTenant[w]]}
        \/ /\ Passed(w)' = agent[w].at + 1 /\ agent[w].at = Passed(w)
           /\ \/ PollForeign(w) \/ PollClaim(w) \/ PollStatusFails(w)
              \/ PollStatus(w) /\ ~CanTransition(row[Message(w).op].status, "RUNNING")
    <2>1. ASSUME agent'[w] = Idle \/ agent'[w].pc \in {"executing", "reporting"}
          PROVE  Passed(w)' = 0
      BY <2>1 DEF Passed, Idle
    <2>2. CASE PollCursor(w)
      <3>1. agent'[w].pc = "cursor" /\ agent'[w].at = cursor[WorkerTenant[w]]
        BY <1>1, <2>2 DEF PollCursor, Agent
      <3>. QED
        BY <3>1 DEF Passed
    <2>3. CASE PollRead(w) \/ PollRefused(w)
      <3>1. \/ agent'[w] = Idle
            \/ /\ agent[w].pc \in {"cursor", "scan"} /\ agent'[w].pc \in {"scan", "refused"}
               /\ agent'[w].at = agent[w].at
        BY <1>1, <2>3 DEF PollRead, PollRefused, AtMessage, Agent
      <3>. QED
        BY <2>1, <3>1 DEF Passed
    <2>4. CASE PollForeign(w) \/ PollClaim(w)
      <3>1. /\ agent[w].pc = "scan" /\ agent'[w].pc \in {"skip", "claimed"}
            /\ agent'[w].at = agent[w].at
        BY <1>1, <2>4 DEF PollForeign, PollClaim, AtMessage, Agent
      <3>. QED
        BY <2>4, <3>1 DEF Passed
    <2>5. CASE PollStatus(w)
      <3>1. CASE CanTransition(row[Message(w).op].status, "RUNNING")
        BY <2>1, <2>5, <3>1 DEF PollStatus
      <3>2. CASE ~CanTransition(row[Message(w).op].status, "RUNNING")
        <4>1. /\ agent[w].pc = "refused" /\ agent'[w].pc = "skip"
              /\ agent'[w].at = agent[w].at
          BY <1>1, <2>5, <3>2 DEF PollStatus, Agent
        <4>. QED
          BY <2>5, <3>2, <4>1 DEF Passed
      <3>. QED
        BY <3>1, <3>2
    <2>6. CASE PollSkip(w)
      <3>1. /\ agent[w].pc = "skip" /\ agent'[w].pc = "scan"
            /\ agent'[w].at = agent[w].at + 1
        BY <1>1, <2>6 DEF PollSkip, Agent
      <3>. QED
        BY <3>1 DEF Passed
    <2>7. CASE UNCHANGED agent
      BY <2>7 DEF Passed
    <2>8. CASE \/ PollEmpty(w) \/ PollReturn(w) \/ PollReturnLost(w)
               \/ PollFails(w) \/ ReportReturns(w)
               \/ \E kind \in {"complete", "retryable", "fatal"} : Report(w, kind)
      <3>1. agent'[w] = Idle \/ agent'[w].pc \in {"executing", "reporting"}
        BY <1>1, <2>8 DEF PollEmpty, PollReturn, PollReturnLost, PollFails,
                          ReportReturns, Report, Agent
      <3>. QED
        BY <2>1, <3>1
    <2>9. CASE PollStatusFails(w)
      <3>1. /\ agent[w].pc = "refused" /\ agent'[w].pc = "skip"
            /\ agent'[w].at = agent[w].at
        BY <1>1, <2>9 DEF PollStatusFails, Agent
      <3>. QED
        BY <2>9, <3>1 DEF Passed
    <2>. QED
      BY <2>2, <2>3, <2>4, <2>5, <2>6, <2>7, <2>8, <2>9 DEF Work, Poll, Heartbeat
  <1>. QED
    BY <1>2, <1>3, <1>4

\* No step takes a cursor or a poll past the end of the stream.
LEMMA NextAhead ==
    ASSUME IInv, AheadOK, [Next]_vars
    PROVE  AheadOK'
  <1>. USE DEF IInv, WorkerTypeOK
  <1>1. Len(stream) \in Nat /\ \A t \in Tenant : cursor[t] \in Nat
    BY DEF ServiceInv, ServiceTypeOK
  <1>2. ASSUME Len(stream') \in Nat, Len(stream) <= Len(stream'), UNCHANGED cursor,
               \A w \in Worker : agent'[w] = agent[w] \/ agent'[w].pc \in {"idle", "executing"}
        PROVE  AheadOK'
    BY <1>1, <1>2 DEF AheadOK, Agent
  <1>3. CASE UNCHANGED vars
    BY <1>1, <1>2, <1>3 DEF vars, serviceVars
  <1>4. CASE ServiceStep /\ UNCHANGED <<cursor, agent, calls>>
    BY <1>2, <1>4, StreamGrows
  <1>5. ASSUME NEW w \in Worker,
               \/ Work(w) \/ Heartbeat(w) \/ PollReturnLost(w)
               \/ PollStatusFails(w) \/ PollFails(w)
        PROVE  AheadOK'
    <2>1. agent[w] \in Agent /\ agent[w].at \in Nat /\ WorkerTenant[w] \in Tenant
      BY WorkerTenantType DEF Agent
    <2>2. /\ UNCHANGED stream /\ \A v \in Worker \ {w} : agent'[v] = agent[v]
          /\ \A t \in Tenant : cursor'[t] = cursor[t] \/ cursor'[t] = Passed(w)
      BY <1>5, PollPasses
    <2>3. Passed(w) \in Nat /\ Passed(w) <= Len(stream)
      BY <1>1, <2>1 DEF AheadOK, Passed
    <2>4. AtMessage(w) => agent[w].at < Len(stream)
      BY <1>1, <2>1, MessageType
    <2>5. /\ agent'[w].pc \in {"cursor", "scan"} => agent'[w].at <= Len(stream)
          /\ agent'[w].pc \in {"refused", "skip", "claimed"} => agent'[w].at < Len(stream)
      <3>1. CASE agent'[w] = agent[w] \/ agent'[w] = Idle
                   \/ agent'[w].pc \in {"executing", "reporting"}
        BY <3>1 DEF AheadOK, Idle
      <3>2. CASE PollCursor(w)
        BY <1>1, <2>1, <3>2 DEF PollCursor, Agent, AheadOK
      <3>3. CASE PollRead(w)
        <4>1. \/ agent'[w] = Idle
              \/ /\ Len(stream) > agent[w].at /\ agent'[w].pc = "scan"
                 /\ agent'[w].at = agent[w].at
          BY <2>1, <3>3 DEF PollRead, Agent
        <4>2. Len(stream) > agent[w].at => agent[w].at <= Len(stream)
          BY <1>1, <2>1
        <4>. QED
          BY <3>1, <4>1, <4>2
      <3>4. CASE PollForeign(w) \/ PollClaim(w) \/ PollRefused(w)
        <4>1. agent'[w].at = agent[w].at /\ AtMessage(w)
              /\ agent'[w].pc \in {"refused", "skip", "claimed"}
          BY <2>1, <3>4 DEF PollForeign, PollClaim, PollRefused, Agent
        <4>. QED
          BY <2>4, <4>1
      <3>5. CASE PollStatus(w) \/ PollStatusFails(w)
        <4>1. \/ agent'[w] = Idle
              \/ agent'[w].pc = "skip" /\ agent'[w].at = agent[w].at /\ agent[w].pc = "refused"
          BY <2>1, <3>5 DEF PollStatus, PollStatusFails, Agent
        <4>. QED
          BY <3>1, <4>1 DEF AheadOK
      <3>6. CASE PollSkip(w)
        <4>1. /\ agent[w].pc = "skip" /\ agent'[w].pc = "scan"
              /\ agent'[w].at = agent[w].at + 1
          BY <2>1, <3>6 DEF PollSkip, Agent
        <4>. QED
          BY <1>1, <2>1, <4>1 DEF AheadOK
      <3>7. CASE \/ PollEmpty(w) \/ PollReturn(w) \/ PollReturnLost(w)
                 \/ PollFails(w) \/ ReportReturns(w) \/ Heartbeat(w)
                 \/ \E kind \in {"complete", "retryable", "fatal"} : Report(w, kind)
        <4>1. agent'[w] = agent[w] \/ agent'[w] = Idle
                \/ agent'[w].pc \in {"executing", "reporting"}
          BY <2>1, <3>7 DEF PollEmpty, PollReturn, PollReturnLost, PollFails,
                            ReportReturns, Report, Heartbeat, Agent
        <4>. QED
          BY <3>1, <4>1
      <3>. QED
        BY <1>5, <3>2, <3>3, <3>4, <3>5, <3>6, <3>7 DEF Work, Poll
    <2>. QED
      BY <1>1, <2>2, <2>3, <2>5 DEF AheadOK
  <1>6. ASSUME NEW c \in calls, Serve(c) \/ CallTimesOut(c) \/ CallLost(c)
        PROVE  AheadOK'
    <2>1. UNCHANGED <<stream, cursor>>
      BY <1>6 DEF Serve, WorkerComplete, WorkerFailRead, WorkerFailCommit, CallTimesOut,
                  CallLost, serviceVars
    <2>2. agent' = agent \/ agent' = [agent EXCEPT ![c.worker] = Idle]
      BY <1>6 DEF Serve, WorkerComplete, WorkerFailRead, WorkerFailCommit, CallTimesOut,
                  CallLost
    <2>3. \A w \in Worker : agent'[w] = agent[w] \/ agent'[w].pc \in {"idle", "executing"}
      BY <2>2 DEF Idle
    <2>. QED
      BY <1>1, <1>2, <2>1, <2>3
  <1>7. CASE Crash
    <2>1. UNCHANGED <<stream, cursor>>
      BY <1>7 DEF Crash, ServiceCrash
    <2>2. \A w \in Worker : agent'[w] = agent[w] \/ agent'[w].pc \in {"idle", "executing"}
      BY <1>7 DEF Crash, Idle
    <2>. QED
      BY <1>1, <1>2, <2>1, <2>2
  <1>. QED
    BY <1>3, <1>4, <1>5, <1>6, <1>7 DEF Next

\* Unless a failing SELECT skips it, a worker's step leaves no message of a
\* private operation behind that stays QUEUED.
LEMMA MessageStaysAhead ==
    ASSUME IInv, NEW w \in Worker, NEW o \in Op, NEW i \in 1..Len(stream),
           \/ Work(w) \/ Heartbeat(w) \/ PollReturnLost(w)
           \/ PollStatusFails(w) \/ PollFails(w),
           ~Fault, ExecutionMode[o] = "PRIVATE", stream[i].op = o,
           row[o].status = "QUEUED", row'[o].status = "QUEUED", Ahead(TenantOf[o], i)
    PROVE  Ahead(TenantOf[o], i)'
  <1>. DEFINE t == TenantOf[o]
  <1>1. /\ agent[w].at \in Nat /\ t \in Tenant /\ i \in Nat /\ 0 < i
        /\ cursor[t] \in Nat
    <2>1. agent[w].at \in Nat
      BY DEF IInv, WorkerTypeOK, Agent
    <2>2. t \in Tenant /\ cursor[t] \in Nat
      BY TenantOfType DEF IInv, WorkerTypeOK
    <2>3. i \in Nat /\ 0 < i
      OBVIOUS
    <2>. QED
      BY <2>1, <2>2, <2>3
  <1>2. cursor'[t] < i
    BY <1>1, PollPasses DEF Ahead
  <1>3. ASSUME NEW v \in Worker, WorkerTenant[v] = t
        PROVE  Passed(v)' < i
    <2>1. CASE v # w
      <3>1. agent'[v] = agent[v]
        BY <2>1, PollPasses
      <3>. QED
        BY <1>3, <3>1 DEF Ahead, Passed
    <2>2. CASE v = w
      <3>1. CASE Passed(w)' \in {0, Passed(w), cursor[WorkerTenant[w]]}
        BY <1>1, <1>3, <2>2, <3>1 DEF Ahead
      <3>2. CASE /\ Passed(w)' = agent[w].at + 1 /\ agent[w].at = Passed(w)
                 /\ \/ PollForeign(w) \/ PollClaim(w) \/ PollStatusFails(w)
                    \/ /\ PollStatus(w)
                       /\ ~CanTransition(row[Message(w).op].status, "RUNNING")
        <4>1. agent[w].at < i
          BY <1>3, <2>2, <3>2 DEF Ahead
        <4>2. Message(w).op # o
          <5>. SUFFICES ASSUME Message(w).op = o PROVE FALSE
            OBVIOUS
          <5>1. CASE PollForeign(w)
            BY <1>3, <2>2, <5>1 DEF PollForeign, Mine
          <5>2. CASE PollClaim(w)
            <6>1. ClaimOperation(o, w)
              BY <5>2 DEF PollClaim
            <6>. QED
              BY <6>1, ClaimRow DEF IInv, ServiceInv
          <5>3. CanTransition("QUEUED", "RUNNING")
            BY DEF CanTransition, transitions
          <5>4. ~PollStatusFails(w)
            BY DEF PollStatusFails
          <5>. QED
            BY <3>2, <5>1, <5>2, <5>3, <5>4
        <4>3. agent[w].at + 1 # i
          BY <4>2 DEF Message
        <4>. QED
          BY <1>1, <2>2, <3>2, <4>1, <4>3
      <3>. QED
        BY <3>1, <3>2, PollPasses
    <2>. QED
      BY <2>1, <2>2
  <1>. QED
    BY <1>2, <1>3 DEF Ahead

\* Only the service has an operation QUEUED.
LEMMA QueuedBefore ==
    ASSUME IInv, NEW o \in Op, row'[o].status = "QUEUED",
           \/ \E w \in Worker : \/ Work(w) \/ Heartbeat(w) \/ PollReturnLost(w)
                                \/ PollStatusFails(w) \/ PollFails(w)
           \/ \E c \in calls : Serve(c)
    PROVE  row[o].status = "QUEUED"
  <1>. USE DEF IInv, ServiceInv, ServiceTypeOK
  <1>1. CASE UNCHANGED row
    BY <1>1
  <1>2. ASSUME NEW w \in Worker, PollClaim(w)
        PROVE  row[o].status = "QUEUED"
    <2>1. /\ AtMessage(w) /\ ClaimOperation(Message(w).op, w)
      BY <1>2 DEF PollClaim
    <2>2. Message(w).op \in Op
      BY <2>1, MessageType
    <2>. QED
      BY <2>1, <2>2, ClaimRow
  <1>3. ASSUME NEW w \in Worker, Heartbeat(w)
        PROVE  row[o].status = "QUEUED"
    BY <1>3 DEF Heartbeat, AgentOK, Row
  <1>4. ASSUME NEW c \in calls, Serve(c)
        PROVE  row[o].status = "QUEUED"
    <2>1. c.op \in Op
      BY DEF WorkerTypeOK, Call
    <2>2. ASSUME NEW s \in {"SUCCEEDED", "RETRYING", "DEAD_LETTERED"},
                 row' = WithoutLease(c.op, s)
          PROVE  row[o].status = "QUEUED"
      BY <2>1, <2>2 DEF WithoutLease, Row
    <2>. QED
      BY <1>1, <1>4, <2>2
         DEF Serve, WorkerComplete, WorkerFailRead, WorkerFailCommit, serviceVars
  <1>. QED
    BY <1>1, <1>2, <1>3, <1>4
       DEF Work, Poll, PollCursor, PollRead, PollForeign, PollRefused, PollStatus,
           PollSkip, PollEmpty, PollReturn, PollReturnLost, PollStatusFails,
           PollFails, Report, ReportReturns, serviceVars

\* Until something fails, a private operation stays QUEUED with its message.
LEMMA NextQueued ==
    ASSUME IInv, AheadOK, [Next]_vars, ~Fault, NEW o \in Op, ExecutionMode[o] = "PRIVATE",
           QueuedOK(o)
    PROVE  QueuedOK(o)'
  <1>. SUFFICES ASSUME row'[o].status = "QUEUED"
                PROVE  \/ Publishing(o)'
                       \/ \E i \in 1..Len(stream') :
                             stream'[i].op = o /\ Ahead(TenantOf[o], i)'
    BY DEF QueuedOK
  <1>1. Len(stream) \in Nat /\ TenantOf[o] \in Tenant
    BY TenantOfType DEF IInv, ServiceInv, ServiceTypeOK
  <1>2. ASSUME UNCHANGED <<workflow, cursor, agent>>, row[o].status = "QUEUED",
               Len(stream') \in Nat, Len(stream) <= Len(stream'),
               \A i \in 1..Len(stream) : stream'[i] = stream[i]
        PROVE  \/ Publishing(o)'
               \/ \E i \in 1..Len(stream') : stream'[i].op = o /\ Ahead(TenantOf[o], i)'
    <2>1. CASE Publishing(o)
      BY <1>2, <2>1 DEF Publishing
    <2>2. ASSUME NEW i \in 1..Len(stream), stream[i].op = o, Ahead(TenantOf[o], i)
          PROVE  \E j \in 1..Len(stream') : stream'[j].op = o /\ Ahead(TenantOf[o], j)'
      <3>1. i \in 1..Len(stream') /\ stream'[i].op = o
        BY <1>1, <1>2, <2>2
      <3>2. Ahead(TenantOf[o], i)'
        BY <1>2, <2>2 DEF Ahead, Passed
      <3>. QED
        BY <3>1, <3>2
    <2>. QED
      BY <1>2, <2>1, <2>2 DEF QueuedOK
  <1>3. CASE UNCHANGED vars
    BY <1>1, <1>2, <1>3 DEF vars, serviceVars
  <1>4. CASE ServiceStep /\ UNCHANGED <<cursor, agent, calls>>
    <2>1. CASE Publishing(o)'
      BY <2>1
    <2>2. CASE Len(stream') = Len(stream) + 1 /\ stream'[Len(stream) + 1].op = o
      <3>0. PICK i : i = Len(stream) + 1
        OBVIOUS
      <3>1. i \in 1..Len(stream') /\ stream'[i].op = o
        BY <1>1, <2>2, <3>0
      <3>2. Ahead(TenantOf[o], i)'
        <4>1. cursor[TenantOf[o]] \in Nat /\ cursor[TenantOf[o]] < i
          BY <1>1, <3>0 DEF AheadOK, IInv, WorkerTypeOK
        <4>2. ASSUME NEW w \in Worker
              PROVE  Passed(w) < i
          BY <1>1, <3>0 DEF AheadOK, Passed, IInv, WorkerTypeOK, Agent
        <4>. QED
          BY <1>4, <4>1, <4>2 DEF Ahead, Passed
      <3>. QED
        BY <3>1, <3>2
    <2>3. CASE row[o].status = "QUEUED" /\ ~Publishing(o)
      <3>1. PICK i \in 1..Len(stream) : stream[i].op = o /\ Ahead(TenantOf[o], i)
        BY <2>3 DEF QueuedOK
      <3>2. i \in 1..Len(stream') /\ stream'[i].op = o
        BY <1>4, <3>1, StreamGrows DEF IInv
      <3>3. Ahead(TenantOf[o], i)'
        BY <1>4, <3>1 DEF Ahead, Passed
      <3>. QED
        BY <3>2, <3>3
    <2>. QED
      BY <1>4, <2>1, <2>2, <2>3, ServiceQueues DEF IInv
  <1>5. ASSUME NEW w \in Worker,
               \/ Work(w) \/ Heartbeat(w) \/ PollReturnLost(w)
               \/ PollStatusFails(w) \/ PollFails(w)
        PROVE  \/ Publishing(o)'
               \/ \E i \in 1..Len(stream') : stream'[i].op = o /\ Ahead(TenantOf[o], i)'
    <2>1. row[o].status = "QUEUED"
      BY <1>5, QueuedBefore
    <2>2. UNCHANGED <<workflow, stream>>
      BY <1>5, PollPasses
    <2>3. CASE Publishing(o)
      BY <2>2, <2>3 DEF Publishing
    <2>4. ASSUME NEW i \in 1..Len(stream), stream[i].op = o, Ahead(TenantOf[o], i)
          PROVE  Ahead(TenantOf[o], i)'
      BY <1>5, <2>1, <2>4, MessageStaysAhead
    <2>. QED
      BY <2>1, <2>2, <2>3, <2>4 DEF QueuedOK
  <1>6. ASSUME NEW c \in calls, Serve(c)
        PROVE  \/ Publishing(o)'
               \/ \E i \in 1..Len(stream') : stream'[i].op = o /\ Ahead(TenantOf[o], i)'
    <2>1. row[o].status = "QUEUED"
      BY <1>6, QueuedBefore
    <2>2. UNCHANGED <<workflow, stream, cursor, agent>>
      BY <1>6 DEF Serve, WorkerComplete, WorkerFailRead, WorkerFailCommit, serviceVars
    <2>. QED
      BY <1>1, <1>2, <2>1, <2>2
  <1>. QED
    BY <1>3, <1>4, <1>5, <1>6 DEF Next, CallTimesOut, CallLost, Crash, ServiceCrash

\* Until something fails, no operation that was not redriven loses the workflow
\* that brings it to a worker.
LEMMA NextCarries ==
    ASSUME AttemptInv, [Next]_vars, faults = 0, ~Fault, NEW o \in Op, redrives'[o] = 0,
           CarryOK(o)
    PROVE  CarryOK(o)'
  <1>. USE DEF AttemptInv, IInv
  <1>1. CASE UNCHANGED <<row, workflow, starting, reaping>>
    BY <1>1, CarryUnchanged
  <1>2. CASE ServiceStep
    <2>1. ServiceInv'
      BY NextIInv
    <2>. QED
      BY <1>2, <2>1, ServiceCarries
  <1>3. ASSUME NEW w \in Worker, PollClaim(w)
        PROVE  CarryOK(o)'
    <2>1. PICK p \in Op : /\ ClaimOperation(p, w)
                          /\ UNCHANGED <<workflow, starting, reaping>>
      BY <1>3, MessageType DEF PollClaim
    <2>. QED
      BY <2>1, ClaimCarries
  <1>4. ASSUME NEW w \in Worker, Heartbeat(w)
        PROVE  CarryOK(o)'
    <2>1. /\ row'[o].status = row[o].status /\ row'[o].attempt = row[o].attempt
          /\ UNCHANGED <<workflow, starting, reaping>>
      BY <1>4 DEF Heartbeat, AgentOK, ServiceInv, ServiceTypeOK, Row
    <2>. QED
      BY <2>1, CarryUnchanged
  <1>5. ASSUME NEW c \in calls, Serve(c)
        PROVE  CarryOK(o)'
    <2>1. c.op \in Op /\ c.worker \in Worker /\ UNCHANGED <<workflow, reaping>>
      BY <1>5 DEF WorkerTypeOK, Call, Serve, WorkerComplete, WorkerFailRead,
                  WorkerFailCommit, serviceVars
    <2>2. CASE UNCHANGED <<row, starting>>
      BY <1>1, <2>1, <2>2
    <2>3. CASE OwnsLease(c.op, c.worker)
      <3>1. row[c.op].status = "RUNNING"
        BY <2>3 DEF OwnsLease
      <3>2. c.read > 0 => c.read = row[c.op].attempt
        <4>1. CallOK(c) /\ HandOK(c.worker) /\ ~c.late
          BY <2>1 DEF ReportsOK, CallOK
        <4>2. c.read > 0 => c.read = c.attempt
          BY <4>1 DEF CallOK
        <4>. QED
          BY <2>3, <4>1, <4>2 DEF CallOK, HandOK, Busy
      <3>3. PICK s \in {"SUCCEEDED", "RETRYING", "DEAD_LETTERED"} :
               \/ UNCHANGED <<row, starting>>
               \/ /\ row' = WithoutLease(c.op, s)
                  /\ starting' = IF s = "RETRYING"
                                 THEN starting \cup {<<"retry", c.op, row[c.op].attempt>>}
                                 ELSE starting
        BY <1>5, <2>3, <3>2 DEF Serve, WorkerComplete, WorkerFailRead, WorkerFailCommit,
                                serviceVars
      <3>. QED
        BY <2>1, <2>2, <3>1, <3>3, ReportCarries
    <2>. QED
      BY <1>5, <2>2, <2>3 DEF Serve, WorkerComplete, WorkerFailRead, WorkerFailCommit,
                              serviceVars
  <1>. QED
    BY <1>1, <1>2, <1>3, <1>4, <1>5
       DEF Next, vars, serviceVars, Work, Poll, PollCursor, PollRead, PollForeign,
           PollRefused, PollStatus, PollSkip, PollEmpty, PollReturn, PollReturnLost,
           PollStatusFails, PollFails, Report, ReportReturns, CallTimesOut, CallLost,
           Crash, ServiceCrash

\* What keeps operations carried until something fails
CarriedInv ==
    /\ AttemptInv /\ AheadOK
    /\ faults = 0 => \A o \in Op :
          /\ redrives[o] = 0 => CarryOK(o)
          /\ ExecutionMode[o] = "PRIVATE" => QueuedOK(o)

\* No step loses an operation until something fails.
LEMMA NextCarried == CarriedInv /\ [Next]_vars => CarriedInv'
  <1>. SUFFICES ASSUME CarriedInv, [Next]_vars PROVE CarriedInv'
    OBVIOUS
  <1>1. AttemptInv /\ AttemptInv' /\ IInv /\ AheadOK
    BY NextAttempts DEF CarriedInv, AttemptInv
  <1>2. AheadOK'
    BY <1>1, NextAhead
  <1>3. ASSUME faults' = 0, NEW o \in Op
        PROVE  /\ redrives'[o] = 0 => CarryOK(o)'
               /\ ExecutionMode[o] = "PRIVATE" => QueuedOK(o)'
    <2>1. faults = 0 /\ ~Fault
      BY <1>1, <1>3, FaultsGrow
    <2>2. redrives'[o] = 0 => redrives[o] = 0
      <3>1. UNCHANGED redrives \/ ServiceStep
        BY DEF Next, vars, serviceVars, Work, Poll, PollCursor, PollRead,
               PollForeign, PollClaim, PollRefused, PollStatus, PollSkip, PollEmpty,
               PollReturn, PollReturnLost, PollStatusFails, PollFails, Heartbeat,
               Report, ReportReturns, CallTimesOut, CallLost, Crash, ServiceCrash,
               Serve, WorkerComplete, WorkerFailRead, WorkerFailCommit
      <3>. QED
        BY <1>1, <3>1, RedrivesGrow DEF IInv
    <2>3. redrives'[o] = 0 => CarryOK(o)'
      BY <1>1, <2>1, <2>2, NextCarries DEF CarriedInv
    <2>4. ExecutionMode[o] = "PRIVATE" => QueuedOK(o)'
      BY <1>1, <2>1, NextQueued DEF CarriedInv
    <2>. QED
      BY <2>3, <2>4
  <1>. QED
    BY <1>1, <1>2, <1>3 DEF CarriedInv

LEMMA InitCarried == Init => CarriedInv
  <1>. SUFFICES ASSUME Init PROVE CarriedInv
    OBVIOUS
  <1>1. AttemptInv
    BY InitAttempts
  <1>2. AheadOK
    BY DEF Init, ServiceInit, Idle, AheadOK
  <1>3. ASSUME NEW o \in Op
        PROVE  CarryOK(o) /\ QueuedOK(o)
    BY <1>3 DEF Init, ServiceInit, CarryOK, NamesOK, Used, QueuedOK, NoRow
  <1>. QED
    BY <1>1, <1>2, <1>3 DEF CarriedInv

\* Until something fails, every QUEUED private operation has a message ahead of
\* its tenant's polls, and every other one that waits a workflow of its own.
THEOREM CarriedInvariant == Spec => []CarriedInv
  BY InitCarried, NextCarried, PTL DEF Spec

\* workerPoll, queueOperationWorkflow and reapExpiredLeaseBatch together: while
\* nothing fails, no private operation that was not redriven waits without
\* anything that brings it to a worker, whatever the races on the cursor.
THEOREM NothingStranded == Spec => []NeverStranded
  <1>1. CarriedInv => NeverStranded
    <2>. SUFFICES ASSUME CarriedInv, NEW o \in Op,
                         row[o].status \in {"PENDING", "QUEUED", "RETRYING"},
                         ExecutionMode[o] = "PRIVATE", faults = 0, redrives[o] = 0
                  PROVE  Carried(o)
      BY DEF NeverStranded
    <2>1. CASE row[o].status \in {"PENDING", "RETRYING"}
      BY <2>1 DEF CarriedInv, CarryOK, Bringing, Carried
    <2>2. CASE row[o].status = "QUEUED"
      BY <2>2 DEF CarriedInv, QueuedOK, Publishing, Ahead, Carried
    <2>. QED
      BY <2>1, <2>2
  <1>. QED
    BY <1>1, CarriedInvariant, PTL
=============================================================================

-------------------------- MODULE CloudWorkersProofs --------------------------
(***************************************************************************)
(* Safety of the Operations service with its cloud workers, for any number *)
(* of operations, tenants, workers, failures and redrives.                 *)
(***************************************************************************)
EXTENDS CloudWorkers, OperationsProofs

CloudTypeOK ==
    /\ group \in 0..Len(stream)
    /\ pending \subseteq 1..group
    /\ agent \in [Worker -> Agent]
    /\ calls \subseteq Call
    /\ emitted \subseteq Op \X EventType \X Nat
    /\ late \subseteq HasDeadline

\* A worker that processes something has a message of the stream in hand.
MessageOK ==
    \A w \in Worker :
        agent[w].pc \notin {"idle", "dead"} => agent[w].msg \in 1..Len(stream)

TypeInv == ServiceInv /\ CloudTypeOK /\ MessageOK

\* A worker has succeeded only when its completion was sent.
OutcomeOK ==
    \A w \in Worker : agent[w].outcome = "success" =>
                        agent[w].pc \in {"calling", "emitting", "acking"}

\* The calls a worker waits for
Awaited == {c \in calls : ~c.late}

\* A worker waits for at most one call, the one about its message.  It waits
\* for a completion exactly after a success.
CallOK ==
    /\ \A c \in Awaited :
          /\ agent[c.worker].pc = "calling"
          /\ c.op = Envelope(c.worker).op
          /\ c.kind = "complete" <=> agent[c.worker].outcome = "success"
    /\ \A c, d \in Awaited : c.worker = d.worker => c = d
    /\ \A w \in Worker : agent[w].pc = "calling" => \E c \in Awaited : c.worker = w

WorkInv == TypeInv /\ OutcomeOK /\ CallOK

Charging(w) == agent[w].pc = "emitting" /\ agent[w].outcome = "success"

\* The success a worker is about to emit is the operation's only one.
ChargeOK ==
    \A w \in Worker : Charging(w) =>
        /\ row[Envelope(w).op].status = "SUCCEEDED"
        /\ \A k \in emitted : k[1] = Envelope(w).op => k[2] # "operation.succeeded"
        /\ \A v \in Worker : Charging(v) /\ Envelope(v).op = Envelope(w).op => v = w

IInv == WorkInv /\ ChargeOK /\ SuccessChargedOnce

-----------------------------------------------------------------------------
(* Types and messages                                                      *)

\* A message in hand is about an operation.
LEMMA EnvelopeType ==
    ASSUME TypeInv, NEW w \in Worker, agent[w].pc \notin {"idle", "dead"}
    PROVE  /\ agent[w] \in Agent /\ agent[w].msg \in 1..Len(stream)
           /\ Envelope(w).op \in Op /\ Envelope(w).attempt \in Nat
  <1>1. agent[w] \in Agent /\ agent[w].msg \in 1..Len(stream)
    BY DEF TypeInv, CloudTypeOK, MessageOK
  <1>2. stream \in Seq([op : Op, attempt : Nat])
    BY DEF TypeInv, ServiceInv, ServiceTypeOK
  <1>3. stream[agent[w].msg] \in [op : Op, attempt : Nat]
    <2>1. \A S : stream \in Seq(S) => \A i \in 1..Len(stream) : stream[i] \in S
      OBVIOUS
    <2>. QED
      BY <1>1, <1>2, <2>1
  <1>. QED
    BY <1>1, <1>3 DEF Envelope

\* Idle and dead workers are well-formed.
LEMMA RestType ==
    /\ Idle \in Agent /\ Idle.pc = "idle" /\ Idle.outcome = "none"
    /\ Dead \in Agent /\ Dead.pc = "dead" /\ Dead.outcome = "none"
  BY DEF Idle, Dead, Agent

\* After an answer a worker rests, or goes on with the message it had.  It
\* goes on from a completion only if that was accepted.
LEMMA AfterCallType ==
    ASSUME NEW a \in Agent, NEW kind, NEW ok \in BOOLEAN
    PROVE  LET b == AfterCall(a, kind, ok) IN
           \/ b = Idle
           \/ /\ b \in Agent /\ b.msg = a.msg /\ b.outcome = a.outcome
              /\ \/ b.pc = "executing" /\ kind = "claim"
                 \/ b.pc = "acking" /\ kind = "deadline"
                 \/ /\ b.pc = "emitting" /\ kind \notin {"claim", "deadline"}
                    /\ kind = "complete" => ok
  <1>1. CASE kind \in {"claim", "complete"} /\ ~ok
    BY <1>1 DEF AfterCall
  <1>2. CASE kind = "claim" /\ ok
    BY <1>2 DEF AfterCall, Agent
  <1>3. CASE kind = "deadline"
    BY <1>3 DEF AfterCall, Agent
  <1>4. CASE /\ ~(kind \in {"claim", "complete"} /\ ~ok)
             /\ ~(kind = "claim" /\ ok) /\ kind # "deadline"
    <2>1. AfterCall(a, kind, ok) = [a EXCEPT !.pc = "emitting"]
      BY <1>4 DEF AfterCall
    <2>. QED
      BY <1>4, <2>1 DEF Agent
  <1>. QED
    BY <1>1, <1>2, <1>3, <1>4

\* One worker's record changes to a well-formed one.
LEMMA AgentMoved ==
    ASSUME TypeInv, NEW w \in Worker, NEW a \in Agent, UNCHANGED stream,
           agent' = [agent EXCEPT ![w] = a],
           a.pc \notin {"idle", "dead"} => a.msg \in 1..Len(stream)
    PROVE  agent' \in [Worker -> Agent] /\ MessageOK'
  BY DEF TypeInv, CloudTypeOK, MessageOK

\* No worker's record changes, and the stream loses nothing.
LEMMA AgentsUnchanged ==
    ASSUME TypeInv, UNCHANGED agent, Len(stream) \in Nat, Len(stream') \in Nat,
           Len(stream) <= Len(stream')
    PROVE  agent' \in [Worker -> Agent] /\ MessageOK'
  BY DEF TypeInv, CloudTypeOK, MessageOK, Agent

-----------------------------------------------------------------------------
(* Calls and the workers that wait for them                                *)

\* A worker that sends a request waits for that one.
LEMMA NowCalling ==
    ASSUME WorkInv, NEW w \in Worker, agent[w].pc \in {"received", "executing"},
           NEW outcome, NEW c \in Call,
           agent' = [agent EXCEPT ![w] = [agent[w] EXCEPT !.pc = "calling",
                                                          !.outcome = outcome]],
           outcome \in {"none", "success", "retryable", "fatal"},
           calls' = calls \cup {c}, c.worker = w, c.late = FALSE,
           c.op = Envelope(w).op, c.kind = "complete" <=> outcome = "success",
           UNCHANGED stream
    PROVE  calls' \subseteq Call /\ agent' \in [Worker -> Agent] /\ MessageOK'
             /\ OutcomeOK' /\ CallOK'
  <1>. DEFINE a == [agent[w] EXCEPT !.pc = "calling", !.outcome = outcome]
  <1>. USE DEF WorkInv
  <1>1. /\ a \in Agent /\ a.msg = agent[w].msg /\ a.pc = "calling" /\ a.outcome = outcome
        /\ a.msg \in 1..Len(stream)
    BY EnvelopeType DEF Agent
  <1>2. agent' = [agent EXCEPT ![w] = a] /\ agent \in [Worker -> Agent]
    BY DEF TypeInv, CloudTypeOK
  <1>. HIDE DEF a
  <1>3. calls' \subseteq Call /\ agent' \in [Worker -> Agent] /\ MessageOK'
    BY <1>1, <1>2, AgentMoved DEF TypeInv, CloudTypeOK
  <1>4. OutcomeOK'
    BY <1>1, <1>2 DEF OutcomeOK
  <1>5. Awaited' = Awaited \cup {c}
    BY DEF Awaited
  <1>6. \A d \in Awaited : d.worker # w /\ d.worker \in Worker
    BY DEF CallOK, TypeInv, CloudTypeOK, Call, Awaited
  <1>7. CallOK'
    <2>1. agent'[w] = a /\ \A v \in Worker \ {w} : agent'[v] = agent[v]
      BY <1>2
    <2>2. Envelope(w)' = Envelope(w) /\ \A v \in Worker \ {w} : Envelope(v)' = Envelope(v)
      BY <1>1, <2>1 DEF Envelope
    <2>. QED
      BY <1>1, <1>5, <1>6, <2>1, <2>2 DEF CallOK
  <1>. QED
    BY <1>3, <1>4, <1>7

\* A worker that does not wait any more waits for no call.
LEMMA NotCalling ==
    ASSUME WorkInv, NEW w \in Worker, NEW a \in Agent,
           agent' = [agent EXCEPT ![w] = a], UNCHANGED stream,
           a.pc \notin {"idle", "dead"} => a.msg \in 1..Len(stream),
           a.pc # "calling", a.outcome = "success" => a.pc \in {"emitting", "acking"},
           Awaited' = {c \in Awaited : c.worker # w}
    PROVE  agent' \in [Worker -> Agent] /\ MessageOK' /\ OutcomeOK' /\ CallOK'
  <1>. USE DEF WorkInv
  <1>1. agent' \in [Worker -> Agent] /\ MessageOK'
    BY AgentMoved
  <1>2. agent'[w] = a /\ \A v \in Worker \ {w} : agent'[v] = agent[v]
    BY DEF TypeInv, CloudTypeOK
  <1>3. OutcomeOK'
    BY <1>2 DEF OutcomeOK
  <1>4. \A c \in Awaited' : c \in Awaited /\ c.worker \in Worker \ {w}
    BY DEF Awaited, TypeInv, CloudTypeOK, Call
  <1>5. \A v \in Worker \ {w} : Envelope(v)' = Envelope(v)
    BY <1>2 DEF Envelope
  <1>6. \A v \in Worker : agent'[v].pc = "calling" => \E c \in Awaited' : c.worker = v
    BY <1>2 DEF CallOK
  <1>7. CallOK'
    BY <1>2, <1>4, <1>5, <1>6 DEF CallOK
  <1>. QED
    BY <1>1, <1>3, <1>7

\* A worker that does not wait moves on without a request.
LEMMA WorkerMoved ==
    ASSUME WorkInv, NEW w \in Worker, NEW a \in Agent, agent[w].pc # "calling",
           agent' = [agent EXCEPT ![w] = a], UNCHANGED <<stream, calls>>,
           a.pc \notin {"idle", "dead"} => a.msg \in 1..Len(stream),
           a.pc # "calling", a.outcome = "success" => a.pc \in {"emitting", "acking"}
    PROVE  agent' \in [Worker -> Agent] /\ MessageOK' /\ OutcomeOK' /\ CallOK'
  <1>1. Awaited' = {c \in Awaited : c.worker # w}
    BY DEF WorkInv, CallOK, Awaited
  <1>. QED
    BY <1>1, NotCalling

\* An answer, or the end of the wait for it, moves the worker that waits on.
LEMMA WaitOver ==
    ASSUME WorkInv, NEW c \in calls, c.late = FALSE, NEW ok \in BOOLEAN, UNCHANGED stream,
           agent' = [agent EXCEPT ![c.worker] = AfterCall(@, c.kind, ok)],
           Awaited' = Awaited \ {c}
    PROVE  agent' \in [Worker -> Agent] /\ MessageOK' /\ OutcomeOK' /\ CallOK'
  <1>. DEFINE w == c.worker
              a == AfterCall(agent[w], c.kind, ok)
  <1>1. w \in Worker /\ c \in Awaited
    BY DEF WorkInv, TypeInv, CloudTypeOK, Call, Awaited
  <1>2. /\ agent[w].pc = "calling"
        /\ c.kind = "complete" <=> agent[w].outcome = "success"
    BY <1>1 DEF WorkInv, CallOK
  <1>3. agent[w] \in Agent /\ agent[w].msg \in 1..Len(stream)
    BY <1>1, <1>2, EnvelopeType DEF WorkInv
  <1>4. /\ a \in Agent /\ a.pc # "calling"
        /\ a.pc \notin {"idle", "dead"} => a.msg \in 1..Len(stream)
        /\ a.outcome = "success" => a.pc \in {"emitting", "acking"}
    BY <1>2, <1>3, AfterCallType, RestType
  <1>5. Awaited' = {d \in Awaited : d.worker # w}
    BY <1>1 DEF WorkInv, CallOK
  <1>6. agent' = [agent EXCEPT ![w] = a]
    OBVIOUS
  <1>. HIDE DEF a, w
  <1>. QED
    BY <1>1, <1>4, <1>5, <1>6, NotCalling

\* A handler's answer.
LEMMA Answered ==
    ASSUME WorkInv, NEW c \in calls, NEW ok \in BOOLEAN, Answer(c, ok), UNCHANGED stream
    PROVE  calls' \subseteq Call /\ agent' \in [Worker -> Agent] /\ MessageOK'
             /\ OutcomeOK' /\ CallOK'
  <1>. USE DEF WorkInv
  <1>1. calls' \subseteq Call /\ c.late \in BOOLEAN
    BY DEF Answer, TypeInv, CloudTypeOK, Call
  <1>2. CASE c.late
    <2>1. UNCHANGED <<agent, stream>> /\ Awaited' = Awaited
      BY <1>2 DEF Answer, Awaited
    <2>. QED
      BY <1>1, <2>1 DEF TypeInv, CloudTypeOK, MessageOK, OutcomeOK, CallOK, Envelope
  <1>3. CASE ~c.late
    <2>1. /\ agent' = [agent EXCEPT ![c.worker] = AfterCall(@, c.kind, ok)]
          /\ Awaited' = Awaited \ {c}
      BY <1>3 DEF Answer, Awaited
    <2>2. c.late = FALSE
      BY <1>1, <1>3
    <2>. QED
      BY <1>1, <2>1, <2>2, WaitOver
  <1>. QED
    BY <1>2, <1>3

\* A handler proceeds with a call it still serves.
LEMMA CallReplaced ==
    ASSUME WorkInv, NEW c \in calls, NEW d \in Call,
           calls' = (calls \ {c}) \cup {d}, UNCHANGED <<agent, stream>>,
           d.worker = c.worker, d.op = c.op, d.late = c.late,
           d.kind = "complete" <=> c.kind = "complete"
    PROVE  calls' \subseteq Call /\ agent' \in [Worker -> Agent] /\ MessageOK'
             /\ OutcomeOK' /\ CallOK'
  <1>. USE DEF WorkInv
  <1>1. calls' \subseteq Call /\ agent' \in [Worker -> Agent] /\ MessageOK' /\ OutcomeOK'
    BY DEF TypeInv, CloudTypeOK, MessageOK, OutcomeOK
  <1>2. \A e \in Awaited' : \/ e \in Awaited \ {c}
                            \/ e = d /\ c \in Awaited
    BY DEF Awaited
  <1>3. \A e \in Awaited : \E f \in Awaited' : f.worker = e.worker
    BY DEF Awaited
  <1>4. \A w : Envelope(w)' = Envelope(w)
    BY DEF Envelope
  <1>5. CallOK'
    BY <1>2, <1>3, <1>4 DEF CallOK
  <1>. QED
    BY <1>1, <1>5

\* The service appends to the stream, and no worker or call changes.
LEMMA WorkersUnchanged ==
    ASSUME WorkInv, UNCHANGED <<agent, calls>>,
           Len(stream) \in Nat, Len(stream') \in Nat, Len(stream) <= Len(stream'),
           \A i \in 1..Len(stream) : stream'[i] = stream[i]
    PROVE  agent' \in [Worker -> Agent] /\ MessageOK' /\ OutcomeOK' /\ CallOK'
  <1>. USE DEF WorkInv
  <1>1. agent' \in [Worker -> Agent] /\ MessageOK'
    BY AgentsUnchanged
  <1>2. OutcomeOK' /\ Awaited' = Awaited
    BY DEF OutcomeOK, Awaited
  <1>3. \A w \in Worker : agent[w].pc = "calling" => Envelope(w)' = Envelope(w)
    BY DEF Envelope, TypeInv, MessageOK
  <1>4. \A c \in Awaited : c.worker \in Worker
    BY DEF Awaited, TypeInv, CloudTypeOK, Call
  <1>5. CallOK'
    BY <1>2, <1>3, <1>4 DEF CallOK
  <1>. QED
    BY <1>1, <1>2, <1>5

-----------------------------------------------------------------------------
(* The steps                                                               *)

\* Idle workers, an empty service and an empty stream satisfy the invariant.
LEMMA InitIInv == Init => IInv
  <1>. SUFFICES ASSUME Init PROVE IInv
    OBVIOUS
  <1>1. ServiceInv
    BY ServiceInitInv DEF Init
  <1>2. CloudTypeOK /\ MessageOK
    BY RestType DEF Init, ServiceInit, CloudTypeOK, MessageOK
  <1>3. OutcomeOK /\ CallOK
    BY RestType DEF Init, OutcomeOK, CallOK, Awaited
  <1>4. ChargeOK /\ SuccessChargedOnce
    BY RestType DEF Init, ChargeOK, Charging, SuccessChargedOnce
  <1>. QED
    BY <1>1, <1>2, <1>3, <1>4 DEF IInv, WorkInv, TypeInv

\* A worker receives a message, skips a private one, emits, or acknowledges.
LEMMA AloneInv ==
    ASSUME WorkInv, NEW w \in Worker, Receive(w) \/ IgnorePrivate(w) \/ Emit(w) \/ Ack(w)
    PROVE  WorkInv'
  <1>. USE DEF WorkInv, TypeInv
  <1>1. /\ UNCHANGED <<Elsewhere, calls, late>>
        /\ Fault \/ UNCHANGED faults
    BY DEF Receive, IgnorePrivate, Emit, Ack
  <1>2. ServiceInv'
    BY <1>1, ServiceFault DEF Elsewhere
  <1>3. UNCHANGED stream /\ agent[w] \in Agent /\ Len(stream) \in Nat
    BY <1>1 DEF Elsewhere, CloudTypeOK, ServiceInv, ServiceTypeOK
  <1>4. PICK a \in Agent : /\ agent' = [agent EXCEPT ![w] = a] /\ a.pc # "calling"
                           /\ a.pc \notin {"idle", "dead"} => a.msg \in 1..Len(stream)
                           /\ a.outcome = "success" => a.pc = "acking"
    <2>1. CASE Receive(w)
      <3>. DEFINE a == [agent[w] EXCEPT !.pc = "received", !.msg = group + 1]
      <3>1. group + 1 \in Nat /\ group + 1 \in 1..Len(stream)
        BY <1>3, <2>1 DEF Receive, CloudTypeOK
      <3>2. /\ a \in Agent /\ a.pc = "received" /\ a.msg = group + 1
            /\ a.outcome = agent[w].outcome
        BY <1>3, <3>1 DEF Agent
      <3>3. a.outcome # "success"
        BY <2>1, <3>2 DEF Receive, OutcomeOK
      <3>4. agent' = [agent EXCEPT ![w] = a]
        BY <2>1 DEF Receive, CloudTypeOK, Agent
      <3>. QED
        BY <3>1, <3>2, <3>3, <3>4
    <2>2. CASE IgnorePrivate(w) \/ Emit(w)
      <3>. DEFINE a == [agent[w] EXCEPT !.pc = "acking"]
      <3>1. agent[w].msg \in 1..Len(stream)
        BY <2>2, EnvelopeType DEF IgnorePrivate, Emit
      <3>2. a \in Agent /\ a.pc = "acking" /\ a.msg = agent[w].msg
        BY <1>3 DEF Agent
      <3>3. agent' = [agent EXCEPT ![w] = a]
        BY <2>2 DEF IgnorePrivate, Emit
      <3>. QED
        BY <3>1, <3>2, <3>3
    <2>3. CASE Ack(w)
      BY <2>3, RestType DEF Ack
    <2>. QED
      BY <2>1, <2>2, <2>3
  <1>5. agent[w].pc # "calling"
    BY DEF Receive, IgnorePrivate, Emit, Ack
  <1>6. agent' \in [Worker -> Agent] /\ MessageOK' /\ OutcomeOK' /\ CallOK'
    BY <1>1, <1>3, <1>4, <1>5, WorkerMoved
  <1>7. group' \in 0..Len(stream') /\ pending' \subseteq 1..group'
    BY <1>3 DEF Receive, IgnorePrivate, Emit, Ack, CloudTypeOK
  <1>8. emitted' \subseteq Op \X EventType \X Nat
    <2>1. CASE UNCHANGED emitted
      BY <2>1 DEF CloudTypeOK
    <2>2. CASE Emit(w)
      <3>1. Envelope(w).op \in Op /\ Envelope(w).attempt \in Nat
        BY <2>2, EnvelopeType DEF Emit
      <3>2. EmittedType(w) \in EventType
        BY DEF EmittedType, EventType
      <3>. QED
        BY <2>2, <3>1, <3>2 DEF Emit, CloudTypeOK
    <2>. QED
      BY <2>1, <2>2 DEF Receive, IgnorePrivate, Ack
  <1>9. CloudTypeOK'
    BY <1>1, <1>6, <1>7, <1>8 DEF CloudTypeOK
  <1>. QED
    BY <1>2, <1>6, <1>9

\* A worker claims, rejects or reports.
LEMMA AskInv ==
    ASSUME WorkInv, NEW w \in Worker,
           \/ RejectExpired(w) \/ AskClaim(w)
           \/ \E outcome \in {"success", "retryable", "fatal"} : Report(w, outcome)
    PROVE  WorkInv'
  <1>. USE DEF WorkInv, TypeInv
  <1>1. UNCHANGED <<Elsewhere, faults, group, pending, emitted, late>>
    BY DEF RejectExpired, AskClaim, Report
  <1>2. ServiceInv' /\ UNCHANGED stream
    BY <1>1, ServiceFault DEF Elsewhere
  <1>3. agent[w].pc \in {"received", "executing"}
    BY DEF RejectExpired, AskClaim, Report
  <1>4. agent[w] \in Agent /\ Envelope(w).op \in Op
    BY <1>3, EnvelopeType
  <1>5. PICK outcome \in {"none", "success", "retryable", "fatal"},
             kind \in {"claim", "complete", "retryable", "fatal", "deadline"} :
          /\ kind = "complete" <=> outcome = "success"
          /\ calls' = calls \cup {[worker |-> w, op |-> Envelope(w).op, kind |-> kind,
                                   read |-> 0, late |-> FALSE]}
          /\ agent' = [agent EXCEPT ![w] = [agent[w] EXCEPT !.pc = "calling",
                                                            !.outcome = outcome]]
    <2>1. ASSUME NEW kind \in {"claim", "deadline"}, Post(w, kind)
          PROVE  /\ calls' = calls \cup {[worker |-> w, op |-> Envelope(w).op,
                                          kind |-> kind, read |-> 0, late |-> FALSE]}
                 /\ agent' = [agent EXCEPT ![w] =
                       [agent[w] EXCEPT !.pc = "calling", !.outcome = agent[w].outcome]]
      BY <1>4, <2>1 DEF Post, Agent
    <2>2. CASE RejectExpired(w) \/ AskClaim(w)
      <3>1. PICK kind \in {"claim", "deadline"} : Post(w, kind)
        BY <2>2 DEF RejectExpired, AskClaim
      <3>2. agent[w].outcome \in {"none", "retryable", "fatal"}
        BY <1>4, <2>2 DEF OutcomeOK, Agent, RejectExpired, AskClaim
      <3>. QED
        BY <2>1, <3>1, <3>2
    <2>3. ASSUME NEW outcome \in {"success", "retryable", "fatal"}, Report(w, outcome)
          PROVE  agent' = [agent EXCEPT ![w] =
                       [agent[w] EXCEPT !.pc = "calling", !.outcome = outcome]]
      BY <1>4, <2>3 DEF Report, CloudTypeOK, Agent
    <2>4. ASSUME NEW outcome \in {"success", "retryable", "fatal"}, Report(w, outcome)
          PROVE  calls' = calls \cup {[worker |-> w, op |-> Envelope(w).op,
                       kind |-> IF outcome = "success" THEN "complete" ELSE outcome,
                       read |-> 0, late |-> FALSE]}
      BY <2>4 DEF Report
    <2>. QED
      BY <2>2, <2>3, <2>4
  <1>. DEFINE c == [worker |-> w, op |-> Envelope(w).op, kind |-> kind,
                    read |-> 0, late |-> FALSE]
  <1>6. c \in Call
    BY <1>4 DEF Call
  <1>7. c.worker = w /\ c.op = Envelope(w).op /\ c.kind = kind /\ c.late = FALSE
    OBVIOUS
  <1>8. calls' = calls \cup {c}
    BY <1>5
  <1>. HIDE DEF c
  <1>9. calls' \subseteq Call /\ agent' \in [Worker -> Agent] /\ MessageOK'
          /\ OutcomeOK' /\ CallOK'
    BY <1>2, <1>3, <1>5, <1>6, <1>7, <1>8, NowCalling
  <1>10. CloudTypeOK'
    BY <1>1, <1>2, <1>9 DEF CloudTypeOK
  <1>. QED
    BY <1>2, <1>9, <1>10

\* A heartbeat renews the lease.
LEMMA HeartbeatInv ==
    ASSUME WorkInv, NEW w \in Worker, Heartbeat(w)
    PROVE  /\ WorkInv'
           /\ \A o \in Op : row'[o].status = row[o].status
  <1>. DEFINE o == Envelope(w).op
  <1>. USE DEF WorkInv, TypeInv
  <1>1. o \in Op
    BY EnvelopeType DEF Heartbeat
  <1>2. row' = [row EXCEPT ![o].expired = FALSE] /\ row[o].status = "RUNNING"
    BY DEF Heartbeat, OwnsLease
  <1>. HIDE DEF o
  <1>3. row' \in [Op -> Row] /\ \A p \in Op : row'[p].status = row[p].status
    BY <1>1, <1>2 DEF ServiceInv, ServiceTypeOK, Row
  <1>4. ServiceTypeOK'
    BY <1>3 DEF Heartbeat, ServiceInv, ServiceTypeOK
  <1>5. LeaseIffRunning' /\ AdmittedNew'
    BY <1>1, <1>2 DEF Heartbeat, ServiceInv, ServiceTypeOK, Row,
                      LeaseIffRunning, AdmittedNew, NoRow
  <1>7. UNCHANGED <<agent, calls, stream, group, pending, emitted, late>>
    BY DEF Heartbeat, cloudVars
  <1>8. CloudTypeOK' /\ MessageOK' /\ OutcomeOK' /\ CallOK'
    <2>1. Len(stream) \in Nat
      BY DEF ServiceInv, ServiceTypeOK
    <2>2. agent' \in [Worker -> Agent] /\ MessageOK' /\ OutcomeOK' /\ CallOK'
      BY <1>7, <2>1, WorkersUnchanged
    <2>. QED
      BY <1>7, <2>2 DEF CloudTypeOK
  <1>. QED
    BY <1>3, <1>4, <1>5, <1>8 DEF ServiceInv

\* claim, complete and fail.
LEMMA ServeInv ==
    ASSUME WorkInv, NEW c \in calls, Serve(c)
    PROVE  WorkInv'
  <1>. USE DEF WorkInv, TypeInv
  <1>1. c \in Call /\ c.op \in Op /\ c.worker \in Worker /\ c.read \in Nat
    BY DEF CloudTypeOK, Call
  <1>2. UNCHANGED <<event_outbox, workflow, stream, admitted, reaping, redrives,
                    faults, group, pending, emitted, late>>
    BY DEF Serve, Claim, Complete, FailRead, FailUpdate, FailReturn, Elsewhere
  <1>3. row[c.op].attempt \in Nat
    BY <1>1 DEF ServiceInv, ServiceTypeOK, Row
  <1>4. calls' \subseteq Call /\ agent' \in [Worker -> Agent] /\ MessageOK'
          /\ OutcomeOK' /\ CallOK'
    <2>1. CASE \E ok \in BOOLEAN : Answer(c, ok)
      BY <1>2, <2>1, Answered
    <2>2. CASE /\ c.kind \in {"retryable", "fatal", "deadline"} /\ UNCHANGED agent
               /\ calls' = (calls \ {c}) \cup {[c EXCEPT !.read = row[c.op].attempt]}
      <3>. DEFINE d == [c EXCEPT !.read = row[c.op].attempt]
      <3>1. /\ d \in Call /\ d.worker = c.worker /\ d.op = c.op /\ d.late = c.late
            /\ d.kind = c.kind
        BY <1>1, <1>3 DEF Call
      <3>2. calls' = (calls \ {c}) \cup {d} /\ UNCHANGED <<agent, stream>>
        BY <1>2, <2>2
      <3>. HIDE DEF d
      <3>. QED
        BY <3>1, <3>2, CallReplaced
    <2>3. CASE /\ c.kind = "retryable" /\ UNCHANGED agent
               /\ calls' = (calls \ {c}) \cup {[c EXCEPT !.kind = "retrying"]}
      <3>. DEFINE d == [c EXCEPT !.kind = "retrying"]
      <3>1. /\ d \in Call /\ d.worker = c.worker /\ d.op = c.op /\ d.late = c.late
            /\ d.kind = "retrying"
        BY <1>1 DEF Call
      <3>2. calls' = (calls \ {c}) \cup {d} /\ UNCHANGED <<agent, stream>>
        BY <1>2, <2>3
      <3>. HIDE DEF d
      <3>. QED
        BY <2>3, <3>1, <3>2, CallReplaced
    <2>4. OwnsLease(c.op, c.worker) \in BOOLEAN
      BY DEF OwnsLease
    <2>. QED
      BY <2>1, <2>2, <2>3, <2>4
         DEF Serve, Claim, Complete, FailRead, FailUpdate, FailReturn
  <1>5. CloudTypeOK'
    BY <1>2, <1>4 DEF CloudTypeOK
  <1>6. CASE UNCHANGED <<row, starting>>
    <2>1. ServiceInv'
      BY <1>2, <1>6, ServiceUnchanged DEF serviceVars
    <2>. QED
      BY <1>4, <1>5, <2>1
  <1>7. CASE ClaimOperation(c.op, c.worker) /\ UNCHANGED starting
    <2>1. /\ row' \in [Op -> Row] /\ row'[c.op].status = "RUNNING"
          /\ row'[c.op].owner = c.worker /\ row'[c.op].expired = FALSE
          /\ \A p \in Op \ {c.op} : row'[p] = row[p]
      BY <1>1, <1>7, ClaimRow DEF ServiceInv
    <2>2. ServiceTypeOK'
      BY <1>2, <1>7, <2>1 DEF ServiceInv, ServiceTypeOK
    <2>3. LeaseIffRunning'
      BY <1>1, <2>1, NoWorkerOutside DEF ServiceInv, LeaseIffRunning
    <2>4. AdmittedNew'
      BY <1>2, <1>7, <2>1 DEF ServiceInv, AdmittedNew, ServiceTypeOK, ClaimOperation,
                              Claimable, NoRow
    <2>. QED
      BY <1>4, <1>5, <2>2, <2>3, <2>4 DEF ServiceInv
  <1>8. ASSUME NEW s \in {"SUCCEEDED", "RETRYING", "DEAD_LETTERED"},
               OwnsLease(c.op, c.worker), row' = WithoutLease(c.op, s),
               starting' \subseteq WorkflowId
        PROVE  ServiceInv'
    <2>1. row[c.op].status # NoRow /\ s \in Statuses \ {"RUNNING"}
      BY <1>8 DEF OwnsLease, NoRow, Statuses
    <2>2. row' \in [Op -> Row] /\ LeaseIffRunning' /\ AdmittedNew'
      BY <1>1, <1>2, <1>8, <2>1, LeaseCleared
    <2>3. ServiceTypeOK'
      BY <1>2, <1>8, <2>2 DEF ServiceInv, ServiceTypeOK
    <2>. QED
      BY <2>2, <2>3 DEF ServiceInv
  <1>9. starting' \subseteq WorkflowId
    <2>1. <<"retry", c.op, c.read>> \in WorkflowId
      BY <1>1 DEF WorkflowId
    <2>. QED
      BY <2>1 DEF Serve, Claim, Complete, FailRead, FailUpdate, FailReturn, Elsewhere,
                  ServiceInv, ServiceTypeOK
  <1>10. \/ UNCHANGED <<row, starting>>
         \/ ClaimOperation(c.op, c.worker) /\ UNCHANGED starting
         \/ \E s \in {"SUCCEEDED", "RETRYING", "DEAD_LETTERED"} :
              OwnsLease(c.op, c.worker) /\ row' = WithoutLease(c.op, s)
    BY DEF Serve, Claim, Complete, FailRead, FailUpdate, FailReturn, Elsewhere
  <1>. QED
    BY <1>4, <1>5, <1>6, <1>7, <1>8, <1>9, <1>10

\* A request fails or is dropped, a worker dies, the service crashes.
LEMMA FailureInv ==
    ASSUME WorkInv,
           \/ \E c \in calls : CallFails(c) \/ CallDropped(c)
           \/ \E w \in Worker : WorkerDies(w)
           \/ Crash
    PROVE  WorkInv'
  <1>. USE DEF WorkInv, TypeInv
  <1>1. UNCHANGED <<stream, group, pending, emitted, late>>
    BY DEF CallFails, CallDropped, WorkerDies, Crash, ServiceCrash, Elsewhere
  <1>2. ServiceInv'
    BY ServiceFault, CrashInv DEF CallFails, CallDropped, WorkerDies, Crash, Elsewhere
  <1>3. \A c \in calls : c.late \in BOOLEAN /\ c.worker \in Worker
                           /\ [c EXCEPT !.late = TRUE] \in Call
                           /\ [c EXCEPT !.late = TRUE].late = TRUE
    BY DEF CloudTypeOK, Call
  <1>4. calls' \subseteq Call
    <2>1. ASSUME NEW c \in calls, CallFails(c) \/ CallDropped(c)
          PROVE  calls' \subseteq Call
      <3>. DEFINE d == [c EXCEPT !.late = TRUE]
      <3>1. calls' \subseteq calls \cup {d}
        BY <2>1 DEF CallFails, CallDropped
      <3>2. d \in Call
        BY <1>3
      <3>. HIDE DEF d
      <3>. QED
        BY <3>1, <3>2 DEF CloudTypeOK
    <2>2. ASSUME NEW w \in Worker, WorkerDies(w)
          PROVE  calls' \subseteq Call
      <3>1. \A e \in calls' : \E c \in calls : e = c \/ e = [c EXCEPT !.late = TRUE]
        BY <2>2 DEF WorkerDies
      <3>. QED
        BY <1>3, <3>1 DEF CloudTypeOK
    <2>3. CASE Crash
      BY <2>3 DEF Crash
    <2>. QED
      BY <2>1, <2>2, <2>3
  <1>5. agent' \in [Worker -> Agent] /\ MessageOK' /\ OutcomeOK' /\ CallOK'
    <2>1. ASSUME NEW c \in calls, CallFails(c)
          PROVE  agent' \in [Worker -> Agent] /\ MessageOK' /\ OutcomeOK' /\ CallOK'
      <3>1. c.late = FALSE
        BY <1>3, <2>1 DEF CallFails
      <3>2. Awaited' = Awaited \ {c}
        BY <1>3, <2>1 DEF CallFails, Awaited
      <3>3. agent' = [agent EXCEPT ![c.worker] = AfterCall(@, c.kind, FALSE)]
        BY <2>1 DEF CallFails
      <3>. QED
        BY <1>1, <3>1, <3>2, <3>3, WaitOver
    <2>2. ASSUME NEW c \in calls, CallDropped(c)
          PROVE  agent' \in [Worker -> Agent] /\ MessageOK' /\ OutcomeOK' /\ CallOK'
      <3>1. Awaited' = Awaited /\ UNCHANGED agent
        BY <2>2 DEF CallDropped, Awaited
      <3>. QED
        BY <1>1, <3>1 DEF CloudTypeOK, MessageOK, OutcomeOK, CallOK, Envelope
    <2>3. ASSUME NEW w \in Worker, WorkerDies(w)
          PROVE  agent' \in [Worker -> Agent] /\ MessageOK' /\ OutcomeOK' /\ CallOK'
      <3>1. Awaited' = {c \in Awaited : c.worker # w}
        <4>1. ASSUME NEW e \in Awaited'
              PROVE  e \in Awaited /\ e.worker # w
          <5>1. e \in calls' /\ ~e.late
            BY DEF Awaited
          <5>2. PICK c \in calls :
                      e = IF c.worker = w THEN [c EXCEPT !.late = TRUE] ELSE c
            BY <2>3, <5>1 DEF WorkerDies
          <5>3. c.worker # w /\ e = c
            BY <1>3, <5>1, <5>2
          <5>. QED
            BY <5>1, <5>3 DEF Awaited
        <4>2. \A e \in Awaited : e.worker # w => e \in Awaited'
          BY <2>3 DEF WorkerDies, Awaited
        <4>. QED
          BY <4>1, <4>2
      <3>2. agent' = [agent EXCEPT ![w] = Dead]
        BY <2>3 DEF WorkerDies
      <3>. QED
        BY <1>1, <3>1, <3>2, RestType, NotCalling
    <2>4. CASE Crash
      <3>1. Awaited' = {}
        BY <2>4 DEF Crash, Awaited
      <3>2. ASSUME NEW w \in Worker
            PROVE  /\ agent'[w] \in Agent /\ agent'[w].pc # "calling"
                   /\ agent'[w].pc \notin {"idle", "dead"} =>
                        agent'[w].msg \in 1..Len(stream)
                   /\ agent'[w].outcome = "success" => agent'[w].pc \in {"emitting", "acking"}
        <4>1. CASE agent[w].pc # "calling"
          <5>1. agent'[w] = agent[w]
            BY <2>4, <4>1 DEF Crash
          <5>. QED
            BY <4>1, <5>1 DEF CloudTypeOK, MessageOK, OutcomeOK
        <4>2. CASE agent[w].pc = "calling"
          <5>1. PICK c \in Awaited, ok \in BOOLEAN :
                      c.worker = w /\ agent'[w] = AfterCall(agent[w], c.kind, ok)
            <6>. DEFINE d == CHOOSE x \in calls : x.worker = w /\ ~x.late
            <6>1. d \in Awaited /\ d.worker = w
              BY <4>2 DEF CallOK, Awaited
            <6>2. agent'[w] = AfterCall(agent[w], d.kind, FALSE)
              BY <2>4, <4>2 DEF Crash
            <6>. QED
              BY <6>1, <6>2
          <5>2. c.kind = "complete" <=> agent[w].outcome = "success"
            BY <5>1 DEF CallOK
          <5>3. agent[w] \in Agent /\ agent[w].msg \in 1..Len(stream)
            BY <4>2, EnvelopeType
          <5>. DEFINE b == AfterCall(agent[w], c.kind, ok)
          <5>4. \/ b = Idle
                \/ /\ b \in Agent /\ b.msg = agent[w].msg /\ b.outcome = agent[w].outcome
                   /\ b.pc \in {"executing", "acking", "emitting"}
                   /\ b.pc = "executing" => c.kind = "claim"
            BY <5>3, AfterCallType
          <5>5. agent'[w] = b
            BY <5>1
          <5>. HIDE DEF b
          <5>. QED
            BY <5>2, <5>3, <5>4, <5>5, RestType
        <4>. QED
          BY <4>1, <4>2
      <3>3. agent' \in [Worker -> Agent]
        <4>1. agent' = [w \in Worker |-> agent'[w]]
          BY <2>4 DEF Crash
        <4>. QED
          BY <3>2, <4>1
      <3>. QED
        BY <1>1, <3>1, <3>2, <3>3 DEF MessageOK, OutcomeOK, CallOK
    <2>. QED
      BY <2>1, <2>2, <2>3, <2>4
  <1>6. CloudTypeOK'
    BY <1>1, <1>4, <1>5 DEF CloudTypeOK
  <1>. QED
    BY <1>2, <1>5, <1>6

\* Every step keeps types, messages, and the calls that are waited for.
LEMMA NextWorkInv == WorkInv /\ [Next]_vars => WorkInv'
  <1>. SUFFICES ASSUME WorkInv, [Next]_vars PROVE WorkInv'
    OBVIOUS
  <1>1. ASSUME ServiceInv', UNCHANGED <<agent, calls, group, pending, emitted>>,
               late' \subseteq HasDeadline,
               Len(stream) \in Nat, Len(stream') \in Nat, Len(stream) <= Len(stream'),
               \A i \in 1..Len(stream) : stream'[i] = stream[i]
        PROVE  WorkInv'
    <2>1. agent' \in [Worker -> Agent] /\ MessageOK' /\ OutcomeOK' /\ CallOK'
      BY <1>1, WorkersUnchanged
    <2>2. CloudTypeOK'
      BY <1>1, <2>1 DEF WorkInv, TypeInv, CloudTypeOK
    <2>. QED
      BY <1>1, <2>1, <2>2 DEF WorkInv, TypeInv
  <1>2. /\ ServiceInv /\ Len(stream) \in Nat /\ late \subseteq HasDeadline
    BY DEF WorkInv, TypeInv, CloudTypeOK, ServiceInv, ServiceTypeOK
  <1>3. CASE UNCHANGED vars
    BY <1>1, <1>2, <1>3, ServiceUnchanged DEF vars, serviceVars, cloudVars
  <1>4. CASE ServiceStep /\ UNCHANGED cloudVars
    BY <1>1, <1>2, <1>4, ServiceStepInv, StreamGrows DEF cloudVars
  <1>5. ASSUME NEW o \in Op, DeadlinePasses(o)
        PROVE  WorkInv'
    BY <1>1, <1>2, <1>5, ServiceUnchanged DEF DeadlinePasses, serviceVars
  <1>6. ASSUME NEW w \in Worker, Work(w) \/ Heartbeat(w) \/ WorkerDies(w)
        PROVE  WorkInv'
    BY <1>6, AloneInv, AskInv, HeartbeatInv, FailureInv DEF Work
  <1>7. ASSUME NEW c \in calls, Serve(c) \/ CallFails(c) \/ CallDropped(c)
        PROVE  WorkInv'
    BY <1>7, ServeInv, FailureInv
  <1>8. CASE Crash
    BY <1>8, FailureInv
  <1>. QED
    BY <1>3, <1>4, <1>5, <1>6, <1>7, <1>8 DEF Next

\* Every step is one of the lifecycle, or leaves every status alone.
LEMMA NextMoves ==
    ASSUME WorkInv, [Next]_vars
    PROVE  Lifecycle!Next \/ UNCHANGED StatusOf
  <1>. USE DEF WorkInv, TypeInv, ServiceInv
  <1>1. CASE UNCHANGED row
    BY <1>1 DEF StatusOf
  <1>2. CASE ServiceStep
    BY <1>2, ServiceMoves
  <1>3. ASSUME NEW w \in Worker, Heartbeat(w)
        PROVE  UNCHANGED StatusOf
    BY <1>3, HeartbeatInv DEF StatusOf
  <1>4. ASSUME NEW c \in calls, Serve(c)
        PROVE  Lifecycle!Next \/ UNCHANGED StatusOf
    <2>1. c.op \in Op /\ c.worker \in Worker
      BY DEF CloudTypeOK, Call
    <2>2. \/ UNCHANGED row
          \/ ClaimOperation(c.op, c.worker)
          \/ \E s \in {"SUCCEEDED", "RETRYING", "DEAD_LETTERED"} :
               row[c.op].status = "RUNNING" /\ row' = WithoutLease(c.op, s)
      BY <1>4 DEF Serve, Claim, Complete, FailRead, FailUpdate, FailReturn, Elsewhere,
                  OwnsLease
    <2>. QED
      BY <1>1, <2>1, <2>2, ClaimMoves, ReportMoves
  <1>5. \/ UNCHANGED row
        \/ ServiceStep
        \/ \E w \in Worker : Heartbeat(w)
        \/ \E c \in calls : Serve(c)
    BY DEF Next, vars, serviceVars, Work, Receive, RejectExpired, IgnorePrivate, AskClaim,
           Report, Emit, Ack, CallFails, CallDropped, WorkerDies, DeadlinePasses, Crash,
           ServiceCrash, Elsewhere
  <1>. QED
    BY <1>1, <1>2, <1>3, <1>4, <1>5

-----------------------------------------------------------------------------
(* Charges                                                                 *)

\* A worker that waits no longer is about to emit a success only if it waited
\* for a completion, and that was accepted.
LEMMA AnswerCharges ==
    ASSUME WorkInv, NEW c \in Awaited, NEW ok \in BOOLEAN, UNCHANGED stream,
           agent'[c.worker] = AfterCall(agent[c.worker], c.kind, ok),
           Charging(c.worker)'
    PROVE  Envelope(c.worker)' = Envelope(c.worker) /\ c.kind = "complete" /\ ok
  <1>. DEFINE w == c.worker
              b == AfterCall(agent[w], c.kind, ok)
  <1>1. /\ w \in Worker /\ agent[w].pc = "calling"
        /\ c.kind = "complete" <=> agent[w].outcome = "success"
    BY DEF WorkInv, TypeInv, CloudTypeOK, Call, Awaited, CallOK
  <1>2. agent[w] \in Agent
    BY <1>1 DEF WorkInv, TypeInv, CloudTypeOK
  <1>3. \/ b = Idle
        \/ /\ b \in Agent /\ b.msg = agent[w].msg /\ b.outcome = agent[w].outcome
           /\ \/ b.pc = "executing" /\ c.kind = "claim"
              \/ b.pc = "acking" /\ c.kind = "deadline"
              \/ /\ b.pc = "emitting" /\ c.kind \notin {"claim", "deadline"}
                 /\ c.kind = "complete" => ok
    BY <1>2, AfterCallType
  <1>4. agent'[w] = b /\ b.pc = "emitting" /\ b.outcome = "success"
    BY DEF Charging
  <1>. HIDE DEF b
  <1>5. b.msg = agent[w].msg /\ c.kind = "complete" /\ ok
    BY <1>1, <1>3, <1>4, RestType
  <1>6. Envelope(w)' = Envelope(w)
    BY <1>4, <1>5 DEF Envelope
  <1>. QED
    BY <1>5, <1>6

\* Where the success comes from that a worker is about to emit.
LEMMA ChargeSource ==
    ASSUME WorkInv, [Next]_vars, NEW w \in Worker, Charging(w)'
    PROVE  /\ Envelope(w)' = Envelope(w)
           /\ \/ Charging(w)
              \/ \E c \in Awaited : c.worker = w /\ Complete(c) /\ OwnsLease(c.op, w)
  <1>. USE DEF WorkInv, TypeInv
  <1>1. ASSUME agent'[w] = agent[w], \/ UNCHANGED stream
                                     \/ ServiceStep
        PROVE  Charging(w) /\ Envelope(w)' = Envelope(w)
    <2>1. Charging(w)
      BY <1>1 DEF Charging
    <2>2. agent[w].msg \in 1..Len(stream)
      BY <2>1 DEF Charging, MessageOK
    <2>3. CASE UNCHANGED stream
      BY <1>1, <2>1, <2>3 DEF Envelope
    <2>4. CASE ServiceStep
      BY <1>1, <2>1, <2>2, <2>4, StreamGrows DEF Envelope
    <2>. QED
      BY <1>1, <2>3, <2>4
  <1>2. ASSUME NEW v \in Worker, Work(v) \/ WorkerDies(v)
        PROVE  Charging(w) /\ Envelope(w)' = Envelope(w)
    <2>1. UNCHANGED stream
      BY <1>2 DEF Work, Receive, RejectExpired, IgnorePrivate, AskClaim, Report, Emit, Ack,
                  WorkerDies, Elsewhere
    <2>2. agent'[v].pc # "emitting" /\ \A u \in Worker \ {v} : agent'[u] = agent[u]
      BY <1>2, RestType
         DEF Work, Receive, RejectExpired, IgnorePrivate, AskClaim, Report, Emit, Ack,
             WorkerDies, Post, CloudTypeOK, Agent
    <2>3. agent'[w] = agent[w]
      BY <2>2 DEF Charging
    <2>. QED
      BY <1>1, <2>1, <2>3
  <1>3. ASSUME NEW c \in calls, NEW ok \in BOOLEAN, Answer(c, ok), UNCHANGED stream,
               c.kind = "complete" => Complete(c) /\ ok = OwnsLease(c.op, c.worker)
        PROVE  /\ Envelope(w)' = Envelope(w)
               /\ \/ Charging(w)
                  \/ \E d \in Awaited : d.worker = w /\ Complete(d) /\ OwnsLease(d.op, w)
    <2>1. CASE agent'[w] = agent[w]
      BY <1>1, <1>3, <2>1
    <2>2. CASE agent'[w] # agent[w]
      <3>1. /\ c \in Awaited /\ c.worker = w
            /\ agent'[w] = AfterCall(agent[w], c.kind, ok)
        BY <1>3, <2>2 DEF Answer, CloudTypeOK, Awaited
      <3>2. Envelope(w)' = Envelope(w) /\ c.kind = "complete" /\ ok
        BY <1>3, <3>1, AnswerCharges
      <3>. QED
        BY <1>3, <3>1, <3>2
    <2>. QED
      BY <2>1, <2>2
  <1>4. ASSUME NEW c \in calls, Serve(c)
        PROVE  /\ Envelope(w)' = Envelope(w)
               /\ \/ Charging(w)
                  \/ \E d \in Awaited : d.worker = w /\ Complete(d) /\ OwnsLease(d.op, w)
    <2>1. UNCHANGED stream
      BY <1>4 DEF Serve, Claim, Complete, FailRead, FailUpdate, FailReturn, Elsewhere
    <2>2. CASE UNCHANGED agent
      BY <1>1, <2>1, <2>2
    <2>3. CASE Complete(c)
      <3>1. OwnsLease(c.op, c.worker) \in BOOLEAN
        BY DEF OwnsLease
      <3>. QED
        BY <1>3, <2>1, <2>3, <3>1 DEF Complete
    <2>4. CASE c.kind # "complete" /\ \E ok \in BOOLEAN : Answer(c, ok)
      BY <1>3, <2>1, <2>4
    <2>. QED
      <3>1. Claim(c) \/ FailRead(c) \/ FailUpdate(c) \/ FailReturn(c) =>
              \/ UNCHANGED agent
              \/ c.kind # "complete" /\ (Answer(c, TRUE) \/ Answer(c, FALSE))
        BY DEF Claim, FailRead, FailUpdate, FailReturn
      <3>. QED
        BY <1>4, <2>2, <2>3, <2>4, <3>1 DEF Serve
  <1>5. ASSUME NEW c \in calls, CallFails(c)
        PROVE  Charging(w) /\ Envelope(w)' = Envelope(w)
    <2>1. UNCHANGED stream /\ c \in Awaited
      BY <1>5 DEF CallFails, Elsewhere, Awaited
    <2>2. CASE agent'[w] = agent[w]
      BY <1>1, <2>1, <2>2
    <2>3. CASE agent'[w] # agent[w]
      <3>1. c.worker = w /\ \E ok \in BOOLEAN : /\ ~ok
                                                /\ agent'[w] = AfterCall(agent[w], c.kind, ok)
        BY <1>5, <2>3 DEF CallFails, CloudTypeOK
      <3>. QED
        BY <2>1, <3>1, AnswerCharges
    <2>. QED
      BY <2>2, <2>3
  <1>6. CASE Crash
    <2>1. UNCHANGED stream
      BY <1>6 DEF Crash, ServiceCrash
    <2>2. CASE agent[w].pc # "calling"
      <3>1. agent'[w] = agent[w]
        BY <1>6, <2>2 DEF Crash
      <3>. QED
        BY <1>1, <2>1, <3>1
    <2>3. CASE agent[w].pc = "calling"
      <3>1. PICK c \in Awaited, ok \in BOOLEAN :
                  c.worker = w /\ ~ok /\ agent'[w] = AfterCall(agent[w], c.kind, ok)
        <4>. DEFINE d == CHOOSE x \in calls : x.worker = w /\ ~x.late
        <4>1. d \in Awaited /\ d.worker = w
          BY <2>3 DEF CallOK, Awaited
        <4>2. agent'[w] = AfterCall(agent[w], d.kind, FALSE)
          BY <1>6, <2>3 DEF Crash
        <4>. QED
          BY <4>1, <4>2
      <3>. QED
        BY <2>1, <3>1, AnswerCharges
    <2>. QED
      BY <2>2, <2>3
  <1>7. \/ UNCHANGED agent /\ (UNCHANGED stream \/ ServiceStep)
        \/ \E v \in Worker : Work(v) \/ WorkerDies(v)
        \/ \E c \in calls : Serve(c) \/ CallFails(c)
        \/ Crash
    BY DEF Next, vars, serviceVars, cloudVars, Heartbeat, DeadlinePasses, CallDropped,
           Elsewhere
  <1>. QED
    BY <1>1, <1>2, <1>4, <1>5, <1>6, <1>7

\* A step that emits nothing and brings no worker to a new success.
LEMMA ChargeKept ==
    ASSUME IInv, UNCHANGED emitted,
           \A o \in Op : row[o].status = "SUCCEEDED" => row'[o].status = "SUCCEEDED",
           \A w \in Worker : Charging(w)' => Charging(w) /\ Envelope(w)' = Envelope(w)
    PROVE  ChargeOK' /\ SuccessChargedOnce'
  <1>. USE DEF IInv, WorkInv
  <1>1. \A w \in Worker : Charging(w) => Envelope(w).op \in Op
    BY EnvelopeType DEF Charging
  <1>2. \A k \in emitted : k[1] \in Op
    BY DEF TypeInv, CloudTypeOK
  <1>3. ChargeOK'
    BY <1>1 DEF ChargeOK
  <1>4. SuccessChargedOnce'
    BY <1>2 DEF SuccessChargedOnce
  <1>. QED
    BY <1>3, <1>4

\* A completion is accepted: its worker is the only one to charge for it.
LEMMA CompletionCharged ==
    ASSUME IInv, [Next]_vars, NEW c \in Awaited, Complete(c), OwnsLease(c.op, c.worker)
    PROVE  ChargeOK' /\ SuccessChargedOnce'
  <1>. DEFINE w == c.worker
              o == c.op
  <1>. USE DEF IInv, WorkInv
  <1>1. w \in Worker /\ o \in Op /\ o = Envelope(w).op
    BY DEF TypeInv, CloudTypeOK, Call, Awaited, CallOK
  <1>2. row[o].status = "RUNNING"
    BY DEF OwnsLease
  <1>3. /\ row'[o].status = "SUCCEEDED"
        /\ \A p \in Op : row[p].status = "SUCCEEDED" => row'[p].status = "SUCCEEDED"
    <2>1. row' = WithoutLease(o, "SUCCEEDED") /\ row \in [Op -> Row]
      BY DEF Complete, TypeInv, ServiceInv, ServiceTypeOK
    <2>. QED
      BY <1>1, <2>1 DEF WithoutLease, Row
  <1>4. UNCHANGED emitted
    BY DEF Complete
  <1>5. \A k \in emitted : k[1] \in Op /\ (k[1] = o => k[2] # "operation.succeeded")
    BY <1>2 DEF SuccessChargedOnce, TypeInv, CloudTypeOK
  <1>6. \A v \in Worker : Charging(v) => Envelope(v).op \in Op /\ Envelope(v).op # o
    BY <1>2, EnvelopeType DEF Charging, ChargeOK
  <1>7. ASSUME NEW v \in Worker, Charging(v)'
        PROVE  Envelope(v)' = Envelope(v) /\ (v = w \/ Charging(v))
    <2>1. \/ Charging(v)
          \/ \E d \in Awaited : d.worker = v /\ Complete(d) /\ OwnsLease(d.op, v)
      BY <1>7, ChargeSource
    <2>2. Envelope(v)' = Envelope(v)
      BY <1>7, ChargeSource
    <2>3. agent'[v] = agent[v] \/ v = w
      BY DEF Complete, Answer, TypeInv, CloudTypeOK
    <2>. QED
      BY <1>7, <2>2, <2>3 DEF Charging
  <1>. HIDE DEF w, o
  <1>8. ChargeOK'
    BY <1>1, <1>3, <1>4, <1>5, <1>6, <1>7 DEF ChargeOK
  <1>9. SuccessChargedOnce'
    BY <1>3, <1>4, <1>5 DEF SuccessChargedOnce
  <1>. QED
    BY <1>8, <1>9

\* A worker emits its outcome.
LEMMA EmitCharged ==
    ASSUME IInv, NEW w \in Worker, Emit(w)
    PROVE  ChargeOK' /\ SuccessChargedOnce'
  <1>. USE DEF IInv, WorkInv
  <1>1. UNCHANGED <<row, stream>>
    BY DEF Emit, Elsewhere
  <1>2. /\ ~Charging(w)'
        /\ \A v \in Worker \ {w} : agent'[v] = agent[v]
    BY DEF Emit, Charging, TypeInv, CloudTypeOK, Agent
  <1>3. \A v \in Worker : Charging(v)' =>
            v # w /\ Charging(v) /\ Envelope(v)' = Envelope(v)
    BY <1>1, <1>2 DEF Charging, Envelope
  <1>4. CASE UNCHANGED emitted
    BY <1>1, <1>3, <1>4, ChargeKept
  <1>. DEFINE k == <<Envelope(w).op, EmittedType(w), Envelope(w).attempt>>
  <1>5. CASE emitted' = emitted \cup {k}
    <2>1. k[1] = Envelope(w).op /\ k[2] = EmittedType(w)
      OBVIOUS
    <2>2. ASSUME k[2] = "operation.succeeded"
          PROVE  Charging(w)
      BY <2>1, <2>2 DEF EmittedType, Emit, Charging
    <2>. HIDE DEF k
    <2>3. k[2] = "operation.succeeded" =>
            /\ row[k[1]].status = "SUCCEEDED"
            /\ \A l \in emitted : l[1] = k[1] => l[2] # k[2]
            /\ \A v \in Worker : Charging(v) /\ Envelope(v).op = k[1] => v = w
      BY <2>1, <2>2 DEF ChargeOK
    <2>4. SuccessChargedOnce'
      BY <1>1, <1>5, <2>3 DEF SuccessChargedOnce
    <2>5. ChargeOK'
      BY <1>1, <1>3, <1>5, <2>3 DEF ChargeOK
    <2>. QED
      BY <2>4, <2>5
  <1>. QED
    BY <1>4, <1>5 DEF Emit

\* Every step of the service and its workers preserves the invariant.
LEMMA NextIInv == IInv /\ [Next]_vars => IInv'
  <1>. SUFFICES ASSUME IInv, [Next]_vars PROVE IInv'
    OBVIOUS
  <1>1. WorkInv'
    BY NextWorkInv DEF IInv
  <1>2. \A o \in Op : row[o].status = "SUCCEEDED" => row'[o].status = "SUCCEEDED"
    BY NextMoves, SucceededStays DEF IInv
  <1>3. CASE \E w \in Worker : Emit(w)
    BY <1>1, <1>3, EmitCharged DEF IInv
  <1>4. CASE \E c \in Awaited : Complete(c) /\ OwnsLease(c.op, c.worker)
    BY <1>1, <1>4, CompletionCharged DEF IInv
  <1>5. CASE /\ ~\E w \in Worker : Emit(w)
             /\ ~\E c \in Awaited : Complete(c) /\ OwnsLease(c.op, c.worker)
    <2>1. UNCHANGED emitted
      BY <1>5 DEF Next, vars, cloudVars, Work, Receive, RejectExpired, IgnorePrivate,
            AskClaim, Report, Ack, Heartbeat, WorkerDies, Serve, Claim, Complete, FailRead,
            FailUpdate, FailReturn, CallFails, CallDropped, DeadlinePasses, Crash
    <2>2. \A w \in Worker : Charging(w)' => Charging(w) /\ Envelope(w)' = Envelope(w)
      BY <1>5, ChargeSource DEF IInv
    <2>. QED
      BY <1>1, <1>2, <2>1, <2>2, ChargeKept DEF IInv
  <1>. QED
    BY <1>3, <1>4, <1>5

-----------------------------------------------------------------------------
(* Theorems                                                                *)

\* The service with its cloud workers: the inductive invariant (the service's
\* own, the calls each worker waits for, and who is about to charge for what)
\* holds in every reachable state.
THEOREM CloudInvariant == Spec => []IInv
  BY InitIInv, NextIInv, PTL DEF Spec

\* The service with its cloud workers: every reachable state is well typed,
\* whatever fails and however often.
THEOREM CloudTyped == Spec => []TypeOK
  <1>1. IInv => TypeOK
    BY DEF IInv, WorkInv, TypeInv, ServiceInv, CloudTypeOK, TypeOK
  <1>. QED
    BY <1>1, CloudInvariant, PTL

\* claim, complete, fail and the reaper: a row carries a lease exactly while it
\* is RUNNING.
THEOREM CloudLeaseFollowsStatus == Spec => []LeaseIffRunning
  <1>1. IInv => LeaseIffRunning
    BY DEF IInv, WorkInv, TypeInv, ServiceInv
  <1>. QED
    BY <1>1, CloudInvariant, PTL

\* process and emit: whatever attempts overlap, answers are lost, or workers
\* and the service crash, only an accepted completion is charged, and no
\* operation for two successes.
THEOREM CloudChargesOnce == Spec => []SuccessChargedOnce
  <1>1. IInv => SuccessChargedOnce
    BY DEF IInv
  <1>. QED
    BY <1>1, CloudInvariant, PTL

\* The handlers the cloud workers call move a row only along the lifecycle,
\* with the rest of the service and from any reachable state.
THEOREM CloudKeepsLifecycle == Spec => LifecycleSteps
  <1>1. IInv /\ [Next]_vars => [Lifecycle!Next]_([o \in Op |-> row[o].status])
    BY NextMoves DEF IInv, StatusOf
  <1>. QED
    BY <1>1, CloudInvariant, PTL DEF Spec, LifecycleSteps

\* The service with its cloud workers implements the lifecycle: it starts with
\* no operation and each of its steps is one of the lifecycle's or leaves every
\* status as it is.
THEOREM CloudRefinesLifecycle == Spec => LifecycleSpec
  <1>1. Init => Lifecycle!Init
    BY SameDomain DEF Init, ServiceInit, Lifecycle!Init
  <1>. QED
    BY <1>1, CloudKeepsLifecycle, PTL DEF Spec, LifecycleSpec, LifecycleSteps, Lifecycle!Spec

-----------------------------------------------------------------------------
(* Operations that wait for a worker                                       *)

\* A worker gives a request up only when something fails, and processes only
\* what the group was delivered.
LateOK == \A c \in calls : c.late => faults > 0

DeliveredOK == \A w \in Worker : agent[w].pc \notin {"idle", "dead"} => agent[w].msg <= group

\* A failure report whose worker still owns the lease has read the attempt the
\* row is at.
ReadOK ==
    \A c \in calls : c.read > 0 =>
        /\ c.kind \notin {"claim", "complete"}
        /\ OwnsLease(c.op, c.worker) => row[c.op].attempt = c.read

\* The message is yet to be delivered, or pending; then a worker that processes
\* it has not been granted the claim.
Ahead(i) ==
    \/ i > group
    \/ /\ i \in pending
       /\ \A w \in Worker : agent[w].msg = i /\ agent[w].pc \notin {"idle", "dead"} =>
             \/ agent[w].pc = "received"
             \/ /\ agent[w].pc = "calling"
                /\ \A c \in Awaited : c.worker = w => c.kind = "claim"

\* A QUEUED operation is about to be published, or has such a message.
QueuedOK(o) ==
    row[o].status = "QUEUED" =>
        Publishing(o) \/ \E i \in 1..Len(stream) : stream[i].op = o /\ Ahead(i)

\* Failures are counted, and a state before which nothing failed is one after
\* a step that did not fail.
LEMMA FaultsGrow ==
    ASSUME TypeInv, [Next]_vars
    PROVE  /\ faults \in Nat /\ faults' \in Nat /\ faults <= faults'
           /\ faults' = 0 => faults = 0 /\ ~Fault
  <1>1. faults \in Nat
    BY BoundsType DEF TypeInv, ServiceInv, ServiceTypeOK
  <1>2. faults' = faults \/ Fault
    BY DEF Next, vars, serviceVars, cloudVars, Elsewhere, Work, Receive, RejectExpired,
           IgnorePrivate, AskClaim, Post, Report, Emit, Ack, Heartbeat, WorkerDies, Serve,
           Claim, Complete, FailRead, FailUpdate, FailReturn, CallFails, CallDropped,
           DeadlinePasses, Crash, ServiceCrash, ServiceStep, Admit, Insert, Cancel, Redrive,
           LeaseExpires, StartWorkflow, StartFails, EnqueueStep, EnqueueUpdate,
           EnqueueSelect, EnqueuePublish, EnqueueCheckpoint, EnqueueFails, ReaperScan, Reap,
           ReapFails
  <1>. QED
    BY <1>1, <1>2 DEF Fault

\* A late request is one whose worker saw something fail.
LEMMA NextLate ==
    ASSUME TypeInv, LateOK, [Next]_vars
    PROVE  LateOK'
  <1>1. /\ faults \in Nat /\ faults <= faults' /\ faults' \in Nat
        /\ Fault => faults' > 0
    BY FaultsGrow DEF Fault
  <1>2. ASSUME NEW c \in calls', c.late
        PROVE  Fault \/ \E d \in calls : d.late
    <2>1. CASE calls' \subseteq calls
      BY <1>2, <2>1
    <2>2. ASSUME NEW w \in Worker, Work(w)
          PROVE  \E d \in calls : d.late
      BY <1>2, <2>2 DEF Work, Receive, RejectExpired, IgnorePrivate, AskClaim, Post, Report,
                        Emit, Ack
    <2>3. ASSUME NEW d \in calls, NEW e, e.late = d.late, calls' = (calls \ {d}) \cup {e}
          PROVE  \E f \in calls : f.late
      BY <1>2, <2>3
    <2>4. ASSUME NEW d \in calls, FailRead(d) \/ FailUpdate(d)
          PROVE  \E f \in calls : f.late
      <3>1. d \in Call
        BY DEF TypeInv, CloudTypeOK
      <3>2. /\ [d EXCEPT !.read = row[d.op].attempt].late = d.late
            /\ [d EXCEPT !.kind = "retrying"].late = d.late
        BY <3>1 DEF Call
      <3>. QED
        BY <2>1, <2>3, <2>4, <3>2, <1>2 DEF FailRead, FailUpdate, Answer
    <2>5. ASSUME NEW d \in calls, Claim(d) \/ Complete(d) \/ FailReturn(d) \/ CallDropped(d)
          PROVE  calls' \subseteq calls
      BY <2>5 DEF Claim, Complete, FailReturn, CallDropped, Answer
    <2>. QED
      BY <2>1, <2>2, <2>4, <2>5 DEF Next, vars, cloudVars, Heartbeat, WorkerDies, Serve,
         CallFails, DeadlinePasses, Crash, ServiceCrash
  <1>. QED
    BY <1>1, <1>2 DEF LateOK

\* A worker goes on with the message it has, rests, or receives the next one.
LEMMA AgentSteps ==
    ASSUME WorkInv, [Next]_vars, NEW v \in Worker
    PROVE  \/ agent'[v].pc \in {"idle", "dead"}
           \/ agent'[v].msg = group + 1 /\ group' = group + 1
           \/ agent[v].pc \notin {"idle", "dead"} /\ agent'[v].msg = agent[v].msg
  <1>. USE DEF WorkInv, TypeInv, CloudTypeOK
  <1>1. agent[v] \in Agent
    OBVIOUS
  <1>2. CASE agent'[v] = agent[v]
    BY <1>2
  <1>3. ASSUME NEW w \in Worker, Work(w) \/ WorkerDies(w), v = w
        PROVE  \/ agent'[v].pc \in {"idle", "dead"}
               \/ agent'[v].msg = group + 1 /\ group' = group + 1
               \/ agent[v].pc \notin {"idle", "dead"} /\ agent'[v].msg = agent[v].msg
    BY <1>1, <1>3, RestType DEF Work, Receive, RejectExpired, IgnorePrivate, AskClaim, Post,
                                Report, Emit, Ack, WorkerDies, Agent
  <1>4. ASSUME NEW c, NEW ok \in BOOLEAN, agent[v].pc = "calling",
               agent'[v] = AfterCall(agent[v], c.kind, ok)
        PROVE  \/ agent'[v].pc = "idle"
               \/ agent[v].pc \notin {"idle", "dead"} /\ agent'[v].msg = agent[v].msg
    BY <1>1, <1>4, AfterCallType, RestType
  <1>5. ASSUME NEW c \in calls, Serve(c) \/ CallFails(c), agent'[v] # agent[v]
        PROVE  /\ agent[v].pc = "calling"
               /\ \E ok \in BOOLEAN : agent'[v] = AfterCall(agent[v], c.kind, ok)
    <2>1. /\ c.late = FALSE
          /\ \E ok \in BOOLEAN : agent' = [agent EXCEPT ![c.worker] = AfterCall(@, c.kind, ok)]
      <3>1. c.late \in BOOLEAN
        BY DEF Call
      <3>2. CASE CallFails(c)
        BY <3>1, <3>2 DEF CallFails
      <3>3. ASSUME NEW ok \in BOOLEAN, Answer(c, ok)
            PROVE  /\ c.late = FALSE
                   /\ agent' = [agent EXCEPT ![c.worker] = AfterCall(@, c.kind, ok)]
        BY <1>5, <3>1, <3>3 DEF Answer
      <3>4. CASE Serve(c)
        <4>1. \E ok \in BOOLEAN : Answer(c, ok)
          <5>1. OwnsLease(c.op, c.worker) \in BOOLEAN
            BY DEF OwnsLease
          <5>. QED
            BY <1>5, <3>4, <5>1 DEF Serve, Claim, Complete, FailRead, FailUpdate, FailReturn
        <4>. QED
          BY <3>3, <4>1
      <3>. QED
        BY <1>5, <3>2, <3>4
    <2>2. v = c.worker
      BY <1>5, <2>1
    <2>3. agent[v].pc = "calling"
      BY <2>1, <2>2 DEF CallOK, Awaited
    <2>. QED
      BY <2>1, <2>2, <2>3
  <1>6. CASE Crash
    BY <1>2, <1>4, <1>6 DEF Crash
  <1>7. ASSUME NEW w \in Worker, Work(w) \/ WorkerDies(w), v # w
        PROVE  agent'[v] = agent[v]
    BY <1>7 DEF Work, Receive, RejectExpired, IgnorePrivate, AskClaim, Post, Report, Emit,
                Ack, WorkerDies
  <1>8. UNCHANGED agent \/ Crash \/ (\E w \in Worker : Work(w) \/ WorkerDies(w))
          \/ (\E c \in calls : Serve(c) \/ CallFails(c))
    BY DEF Next, vars, cloudVars, Heartbeat, CallDropped, DeadlinePasses
  <1>. QED
    BY <1>2, <1>3, <1>4, <1>5, <1>6, <1>7, <1>8

\* A worker processes a message the group was delivered.
LEMMA NextDelivered ==
    ASSUME WorkInv, DeliveredOK, [Next]_vars
    PROVE  DeliveredOK'
  <1>1. group \in Nat /\ \A w \in Worker : agent[w].msg \in Nat
    BY DEF WorkInv, TypeInv, CloudTypeOK, ServiceInv, ServiceTypeOK, Agent
  <1>2. group' = group \/ group' = group + 1
    BY DEF Next, vars, cloudVars, Work, Receive, RejectExpired, IgnorePrivate, AskClaim,
           Post, Report, Emit, Ack, Heartbeat, WorkerDies, Serve, Claim, Complete, FailRead,
           FailUpdate, FailReturn, CallFails, CallDropped, DeadlinePasses, Crash
  <1>. QED
    BY <1>1, <1>2, AgentSteps DEF DeliveredOK

\* Only a granted claim gives a lease.
LEMMA NextLeases ==
    ASSUME TypeInv, [Next]_vars
    PROVE  \/ \A p \in Op : KeepsLease(p)
           \/ \E c \in calls : Claim(c) /\ ClaimOperation(c.op, c.worker)
  <1>. USE DEF TypeInv, CloudTypeOK
  <1>1. CASE UNCHANGED row
    BY <1>1 DEF KeepsLease
  <1>2. CASE ServiceStep
    BY <1>2, ServiceRows, RowKeepsLease
  <1>3. ASSUME NEW w \in Worker, Heartbeat(w)
        PROVE  \A p \in Op : KeepsLease(p)
    <2>1. Envelope(w).op \in Op
      BY <1>3, EnvelopeType DEF Heartbeat
    <2>2. \A p \in Op : row'[p].owner = row[p].owner /\ row'[p].attempt = row[p].attempt
                          /\ row'[p].status = row[p].status
      BY <1>3, <2>1 DEF Heartbeat, ServiceInv, ServiceTypeOK, Row
    <2>. QED
      BY <2>2 DEF KeepsLease
  <1>4. ASSUME NEW c \in calls, NEW s, s # "RUNNING", row' = WithoutLease(c.op, s)
        PROVE  \A p \in Op : KeepsLease(p)
    <2>1. c.op \in Op
      BY DEF Call
    <2>2. row'[c.op].status = s /\ \A p \in Op \ {c.op} : row'[p] = row[p]
      BY <1>4, <2>1 DEF WithoutLease, ServiceInv, ServiceTypeOK, Row
    <2>. QED
      BY <1>4, <2>2 DEF KeepsLease
  <1>5. ASSUME NEW c \in calls, Serve(c)
        PROVE  \/ UNCHANGED row
               \/ Claim(c) /\ ClaimOperation(c.op, c.worker)
               \/ \E s : s # "RUNNING" /\ row' = WithoutLease(c.op, s)
    BY <1>5 DEF Serve, Claim, Complete, FailRead, FailUpdate, FailReturn, Elsewhere
  <1>6. \/ UNCHANGED row
        \/ ServiceStep
        \/ \E w \in Worker : Heartbeat(w)
        \/ \E c \in calls : Serve(c)
    BY DEF Next, vars, serviceVars, Work, Receive, RejectExpired, IgnorePrivate, AskClaim,
           Report, Emit, Ack, CallFails, CallDropped, WorkerDies, DeadlinePasses, Crash,
           ServiceCrash, Elsewhere
  <1>. QED
    BY <1>1, <1>2, <1>3, <1>4, <1>5, <1>6

\* Until something fails, the calls are those of before, new ones that have
\* read nothing, and failure reports that proceed.
LEMMA CallSteps ==
    ASSUME WorkInv, [Next]_vars, ~Fault, NEW d \in calls'
    PROVE  \/ d \in calls
           \/ d.read = 0 /\ ~d.late
           \/ \E c \in calls : /\ FailRead(c) \/ FailUpdate(c)
                               /\ OwnsLease(c.op, c.worker)
                               /\ d.op = c.op /\ d.worker = c.worker /\ d.late = c.late
                               /\ d.kind \notin {"claim", "complete"}
                               /\ d.read = row[c.op].attempt \/ d.read = c.read
                               /\ calls' = (calls \ {c}) \cup {d}
                               /\ UNCHANGED agent
  <1>1. CASE calls' \subseteq calls
    BY <1>1
  <1>2. ASSUME NEW w \in Worker, Work(w)
        PROVE  d \in calls \/ (d.read = 0 /\ ~d.late)
    BY <1>2 DEF Work, Receive, RejectExpired, IgnorePrivate, AskClaim, Post, Report, Emit,
                Ack
  <1>3. ASSUME NEW c \in calls, FailRead(c) \/ FailUpdate(c), ~(calls' \subseteq calls),
               d \notin calls
        PROVE  /\ OwnsLease(c.op, c.worker)
               /\ d.op = c.op /\ d.worker = c.worker /\ d.late = c.late
               /\ d.kind \notin {"claim", "complete"}
               /\ d.read = row[c.op].attempt \/ d.read = c.read
               /\ calls' = (calls \ {c}) \cup {d} /\ UNCHANGED agent
    <2>1. c \in Call
      BY DEF WorkInv, TypeInv, CloudTypeOK
    <2>2. CASE FailRead(c)
      <3>1. /\ OwnsLease(c.op, c.worker) /\ UNCHANGED agent
            /\ calls' = (calls \ {c}) \cup {[c EXCEPT !.read = row[c.op].attempt]}
            /\ c.kind \notin {"claim", "complete"}
        BY <1>3, <2>2 DEF FailRead, Answer
      <3>2. d = [c EXCEPT !.read = row[c.op].attempt]
        BY <1>3, <3>1
      <3>. QED
        BY <2>1, <3>1, <3>2 DEF Call
    <2>3. CASE FailUpdate(c)
      <3>1. /\ OwnsLease(c.op, c.worker) /\ UNCHANGED agent
            /\ calls' = (calls \ {c}) \cup {[c EXCEPT !.kind = "retrying"]}
        BY <1>3, <2>3 DEF FailUpdate, Answer
      <3>2. d = [c EXCEPT !.kind = "retrying"]
        BY <1>3, <3>1
      <3>. QED
        BY <2>1, <3>1, <3>2 DEF Call
    <2>. QED
      BY <1>3, <2>2, <2>3
  <1>4. ASSUME NEW c \in calls, Claim(c) \/ Complete(c) \/ FailReturn(c) \/ CallDropped(c)
        PROVE  calls' \subseteq calls
    BY <1>4 DEF Claim, Complete, FailReturn, CallDropped, Answer
  <1>. QED
    BY <1>1, <1>2, <1>3, <1>4 DEF Next, vars, cloudVars, Heartbeat, WorkerDies, Serve,
       CallFails, DeadlinePasses, Crash, ServiceCrash

\* Until something fails, what a failure report has read stays true while its
\* worker owns the lease.
LEMMA NextRead ==
    ASSUME WorkInv, LateOK, ReadOK, [Next]_vars, faults = 0, ~Fault
    PROVE  ReadOK'
  <1>. SUFFICES ASSUME NEW d \in calls', d.read > 0
                PROVE  /\ d.kind \notin {"claim", "complete"}
                       /\ OwnsLease(d.op, d.worker)' => row'[d.op].attempt = d.read
    BY DEF ReadOK, OwnsLease
  <1>1. calls \subseteq Call /\ Awaited = calls
    BY DEF WorkInv, TypeInv, CloudTypeOK, LateOK, Awaited
  <1>2. CASE d \in calls
    <2>1. d.op \in Op /\ d.worker \in Worker /\ d.kind \notin {"claim", "complete"}
      BY <1>1, <1>2 DEF Call, ReadOK
    <2>2. CASE KeepsLease(d.op)
      BY <1>2, <2>1, <2>2 DEF KeepsLease, OwnsLease, ReadOK
    <2>3. ASSUME NEW c \in calls, Claim(c), ClaimOperation(c.op, c.worker)
          PROVE  OwnsLease(d.op, d.worker)' => row'[d.op].attempt = d.read
      <3>1. c.op \in Op /\ c.worker \in Worker /\ c # d
        BY <1>1, <2>1, <2>3 DEF Call, Claim
      <3>2. c.worker # d.worker
        BY <1>1, <1>2, <3>1 DEF WorkInv, CallOK
      <3>3. /\ row'[c.op].owner = c.worker
            /\ \A p \in Op \ {c.op} : row'[p] = row[p]
        BY <2>3, <3>1, ClaimRow DEF WorkInv, TypeInv, ServiceInv
      <3>. QED
        BY <1>2, <2>1, <3>2, <3>3 DEF OwnsLease, ReadOK
    <2>. QED
      BY <2>1, <2>2, <2>3, NextLeases DEF WorkInv
  <1>3. ASSUME NEW c \in calls, FailRead(c) \/ FailUpdate(c), OwnsLease(c.op, c.worker),
               d.op = c.op, d.worker = c.worker, d.kind \notin {"claim", "complete"},
               d.read = row[c.op].attempt \/ d.read = c.read
        PROVE  OwnsLease(d.op, d.worker)' => row'[d.op].attempt = d.read
    <2>1. d.read = row[d.op].attempt /\ d.op \in Op
      BY <1>1, <1>3 DEF ReadOK, Call
    <2>2. KeepsLease(d.op) \/ row'[d.op].status # "RUNNING"
      <3>1. CASE UNCHANGED row
        BY <3>1 DEF KeepsLease
      <3>2. ASSUME NEW s \in {"RETRYING", "DEAD_LETTERED"}, row' = WithoutLease(d.op, s)
            PROVE  row'[d.op].status # "RUNNING"
        BY <2>1, <3>2 DEF WithoutLease, WorkInv, TypeInv, ServiceInv, ServiceTypeOK, Row
      <3>. QED
        BY <1>3, <3>1, <3>2 DEF FailRead, FailUpdate, Elsewhere
    <2>. QED
      BY <2>1, <2>2 DEF KeepsLease, OwnsLease
  <1>. QED
    BY <1>2, <1>3, CallSteps

\* Only a scan puts rows in the reaper's hands, each of them once.
LEMMA NextSeen ==
    ASSUME SeenOnce, [Next]_vars
    PROVE  SeenOnce' /\ (reaping' \subseteq reaping \/ ReaperScan)
  <1>1. reaping' \subseteq reaping \/ ReaperScan
    BY DEF Next, vars, serviceVars, Elsewhere, Work, Receive, RejectExpired,
           IgnorePrivate, AskClaim, Report, Emit, Ack, Heartbeat, WorkerDies, Serve,
           Claim, Complete, FailRead, FailUpdate, FailReturn, CallFails, CallDropped,
           DeadlinePasses, Crash, ServiceCrash, ServiceStep, Admit, Insert, Cancel, Redrive,
           LeaseExpires, StartWorkflow, StartFails, EnqueueStep, EnqueueUpdate,
           EnqueueSelect, EnqueuePublish, EnqueueCheckpoint, EnqueueFails, Reap, ReapFails
  <1>2. CASE ReaperScan
    BY <1>2 DEF ReaperScan, SeenOnce
  <1>. QED
    BY <1>1, <1>2 DEF SeenOnce

\* Until something fails, a step grants a claim or is a RowStep.
LEMMA NextRows ==
    ASSUME TypeInv, ReadOK, [Next]_vars, ~Fault
    PROVE  \/ \A p \in Op : RowStep(p)
           \/ \E c \in calls : /\ ClaimOperation(c.op, c.worker) /\ UNCHANGED reaping
                               /\ c.op \in Op /\ c.worker \in Worker
  <1>. USE DEF TypeInv, CloudTypeOK
  <1>1. CASE UNCHANGED row
    BY <1>1, RowSame
  <1>2. CASE ServiceStep
    BY <1>2, ServiceRows
  <1>3. ASSUME NEW w \in Worker, Heartbeat(w)
        PROVE  \A p \in Op : RowStep(p)
    <2>1. Envelope(w).op \in Op
      BY <1>3, EnvelopeType DEF Heartbeat
    <2>2. \A p \in Op : /\ row'[p].owner = row[p].owner /\ row'[p].attempt = row[p].attempt
                        /\ row'[p].status = row[p].status
      BY <1>3, <2>1 DEF Heartbeat, ServiceInv, ServiceTypeOK, Row
    <2>. QED
      BY <2>2 DEF RowStep
  <1>4. ASSUME NEW c \in calls, Serve(c)
        PROVE  \/ \A p \in Op : RowStep(p)
               \/ ClaimOperation(c.op, c.worker) /\ UNCHANGED reaping
    <2>1. c.op \in Op /\ (c.read > 0 /\ OwnsLease(c.op, c.worker) => row[c.op].attempt = c.read)
      BY DEF Call, ReadOK
    <2>2. \/ UNCHANGED row
          \/ ClaimOperation(c.op, c.worker) /\ UNCHANGED reaping
          \/ \E s \in {"SUCCEEDED", "DEAD_LETTERED"} : row' = WithoutLease(c.op, s)
          \/ row' = WithoutLease(c.op, "RETRYING") /\ row[c.op].attempt < MaxAttempts[c.op]
      BY <1>4, <2>1 DEF Serve, Claim, Complete, FailRead, FailUpdate, FailReturn, Elsewhere
    <2>3. ASSUME NEW s \in {"SUCCEEDED", "DEAD_LETTERED"}, row' = WithoutLease(c.op, s)
          PROVE  \A p \in Op : RowStep(p)
      BY <2>1, <2>3, RowCleared DEF ServiceInv, Statuses, Waiting
    <2>4. CASE row' = WithoutLease(c.op, "RETRYING") /\ row[c.op].attempt < MaxAttempts[c.op]
      BY <2>1, <2>4, RowCleared DEF ServiceInv, Statuses, Waiting
    <2>5. CASE UNCHANGED row
      BY <2>5, RowSame
    <2>. QED
      BY <2>2, <2>3, <2>4, <2>5
  <1>5. ASSUME NEW w \in Worker, Work(w)
        PROVE  UNCHANGED row
    BY <1>5 DEF Work, Receive, RejectExpired, IgnorePrivate, AskClaim, Report, Emit, Ack,
                Elsewhere
  <1>6. \A c \in calls : c.op \in Op /\ c.worker \in Worker
    BY DEF Call
  <1>. QED
    BY <1>1, <1>2, <1>3, <1>4, <1>5, <1>6
       DEF Next, vars, serviceVars, CallFails, CallDropped, WorkerDies, DeadlinePasses,
           Crash, ServiceCrash, Elsewhere

\* Until something fails, operations stay within their budgets.
LEMMA NextBudget ==
    ASSUME TypeInv, TypeInv', ReadOK, SeenOnce, [Next]_vars, ~Fault, NEW o \in Op,
           BudgetOK(o)
    PROVE  BudgetOK(o)'
  <1>1. ServiceInv /\ row' \in [Op -> Row]
    BY DEF TypeInv, ServiceInv, ServiceTypeOK
  <1>2. CASE ReaperScan
    BY <1>1, <1>2, BudgetScanned
  <1>3. ASSUME NEW p \in Op, NEW w \in Worker, ClaimOperation(p, w), UNCHANGED reaping
        PROVE  BudgetOK(o)'
    BY <1>1, <1>3, BudgetClaimed
  <1>4. CASE RowStep(o) /\ reaping' \subseteq reaping
    BY <1>1, <1>4, BudgetStays
  <1>. QED
    BY <1>2, <1>3, <1>4, NextRows, NextSeen

\* Until something fails, no operation that was not redriven loses the workflow
\* that brings it to a worker.
LEMMA NextCarries ==
    ASSUME WorkInv, WorkInv', ReadOK, SeenOnce, [Next]_vars, ~Fault, NEW o \in Op,
           redrives'[o] = 0, CarryOK(o)
    PROVE  CarryOK(o)'
  <1>. USE DEF WorkInv, TypeInv, CloudTypeOK
  <1>1. CASE UNCHANGED <<row, workflow, starting, reaping>>
    BY <1>1, CarryUnchanged
  <1>2. CASE ServiceStep
    BY <1>2, ServiceCarries
  <1>3. ASSUME NEW w \in Worker, Heartbeat(w)
        PROVE  CarryOK(o)'
    <2>1. Envelope(w).op \in Op
      BY <1>3, EnvelopeType DEF Heartbeat
    <2>2. /\ row'[o].status = row[o].status /\ row'[o].attempt = row[o].attempt
          /\ UNCHANGED <<workflow, starting, reaping>>
      BY <1>3, <2>1 DEF Heartbeat, ServiceInv, ServiceTypeOK, Row
    <2>. QED
      BY <2>2, CarryUnchanged
  <1>4. ASSUME NEW c \in calls, Serve(c)
        PROVE  CarryOK(o)'
    <2>1. c.op \in Op /\ c.worker \in Worker /\ UNCHANGED <<workflow, reaping>>
      BY <1>4 DEF Call, Serve, Claim, Complete, FailRead, FailUpdate, FailReturn, Elsewhere
    <2>2. CASE UNCHANGED <<row, starting>>
      BY <1>1, <2>1, <2>2
    <2>3. CASE Claim(c) /\ ClaimOperation(c.op, c.worker)
      <3>1. UNCHANGED starting
        BY <2>3 DEF Claim
      <3>. QED
        BY <2>1, <2>3, <3>1, ClaimCarries
    <2>4. CASE OwnsLease(c.op, c.worker) /\ (Complete(c) \/ FailUpdate(c))
      <3>1. /\ row[c.op].status = "RUNNING"
            /\ c.read > 0 => c.read = row[c.op].attempt
        BY <2>4 DEF OwnsLease, ReadOK
      <3>2. PICK s \in {"SUCCEEDED", "RETRYING", "DEAD_LETTERED"} :
               /\ row' = WithoutLease(c.op, s)
               /\ starting' = IF s = "RETRYING"
                              THEN starting \cup {<<"retry", c.op, row[c.op].attempt>>}
                              ELSE starting
        BY <2>4, <3>1 DEF Complete, FailUpdate
      <3>. QED
        BY <2>1, <3>1, <3>2, ReportCarries
    <2>. QED
      BY <1>4, <2>2, <2>3, <2>4 DEF Serve, Claim, Complete, FailRead, FailUpdate, FailReturn,
                                    Elsewhere
  <1>. QED
    BY <1>1, <1>2, <1>3, <1>4
       DEF Next, vars, serviceVars, Elsewhere, Work, Receive, RejectExpired, IgnorePrivate,
           AskClaim, Report, Emit, Ack, WorkerDies, CallFails, CallDropped, DeadlinePasses,
           Crash, ServiceCrash

\* A worker leaves the message of a QUEUED operation ahead while it rejects it,
\* asks for it or works on another one.
LEMMA WorkStaysAhead ==
    ASSUME WorkInv, DeliveredOK, ~Fault, NEW w \in Worker, Work(w), NEW i \in 1..Len(stream),
           ExecutionMode[stream[i].op] = "CLOUD", stream[i].op \notin late, Ahead(i)
    PROVE  Ahead(i)'
  <1>1. /\ group \in Nat /\ i \in Nat /\ agent \in [Worker -> Agent]
        /\ \A v \in Worker : agent[v] \in Agent /\ agent[v].msg \in Nat
    BY DEF WorkInv, TypeInv, CloudTypeOK, ServiceInv, ServiceTypeOK, Agent
  <1>2. CASE Receive(w)
    <2>1. /\ agent'[w].pc = "received" /\ agent'[w].msg = group + 1
          /\ \A v \in Worker \ {w} : agent'[v] = agent[v]
          /\ group' = group + 1 /\ pending' = pending \cup {group + 1} /\ UNCHANGED calls
      BY <1>1, <1>2 DEF Receive, Agent
    <2>2. CASE i > group + 1
      BY <2>1, <2>2 DEF Ahead
    <2>3. CASE i = group + 1
      <3>1. \A v \in Worker \ {w} : agent[v].pc \notin {"idle", "dead"} => agent[v].msg # i
        BY <1>1, <2>3 DEF DeliveredOK
      <3>. QED
        BY <2>1, <2>3, <3>1 DEF Ahead
    <2>4. CASE ~(i > group)
      <3>1. i \in pending' /\ agent'[w].msg # i /\ Awaited' = Awaited
        BY <1>1, <2>1, <2>4 DEF Ahead, Awaited
      <3>. QED
        BY <2>1, <2>4, <3>1 DEF Ahead
    <2>. QED
      BY <1>1, <2>2, <2>3, <2>4
  <1>3. CASE ~Receive(w) /\ i > group
    <2>1. UNCHANGED group
      BY <1>3 DEF Work, RejectExpired, IgnorePrivate, AskClaim, Report, Emit, Ack
    <2>. QED
      BY <1>3, <2>1 DEF Ahead
  <1>4. CASE ~Receive(w) /\ ~(i > group)
    <2>1. /\ i \in pending
          /\ agent[w].msg = i =>
                agent[w].pc \in {"idle", "dead", "received", "calling"}
      BY <1>4 DEF Ahead
    <2>2. agent[w].pc = "received" /\ agent[w].msg = i => AskClaim(w)
      BY <1>4 DEF Work, RejectExpired, IgnorePrivate, Report, Emit, Ack, Envelope
    <2>3. i \in pending'
      BY <1>4, <2>1 DEF Work, RejectExpired, IgnorePrivate, AskClaim, Report, Emit, Ack
    <2>4. \A v \in Worker \ {w} : agent'[v] = agent[v]
      BY <1>1, <1>4 DEF Work, RejectExpired, IgnorePrivate, AskClaim, Post, Report, Emit, Ack
    <2>5. \A c \in Awaited' : c \in Awaited \/ c.worker = w
      BY <1>4 DEF Work, RejectExpired, IgnorePrivate, AskClaim, Post, Report, Emit, Ack,
                  Awaited
    <2>6. CASE AskClaim(w)
      <3>1. agent'[w].pc = "calling" /\ \A c \in Awaited : c.worker # w
        BY <1>1, <2>6 DEF AskClaim, Post, WorkInv, CallOK
      <3>2. \A c \in Awaited' : c \in Awaited \/ c.kind = "claim"
        BY <2>6 DEF AskClaim, Post, Awaited
      <3>. QED
        BY <1>4, <2>1, <2>3, <2>4, <2>5, <3>1, <3>2 DEF Ahead
    <2>7. CASE ~AskClaim(w)
      <3>1. agent'[w].pc = "idle" \/ agent'[w].msg # i
        <4>1. agent[w].pc \in {"received", "executing", "emitting", "acking"}
          BY <1>4 DEF Work, RejectExpired, IgnorePrivate, AskClaim, Report, Emit, Ack
        <4>2. agent[w].msg # i
          BY <2>1, <2>2, <2>7, <4>1
        <4>. QED
          BY <1>1, <1>4, <2>7, <4>2, RestType
             DEF Work, RejectExpired, IgnorePrivate, Post, Report, Emit, Ack, Agent
      <3>. QED
        BY <1>4, <2>3, <2>4, <2>5, <3>1 DEF Ahead
    <2>. QED
      BY <2>6, <2>7
  <1>. QED
    BY <1>2, <1>3, <1>4

\* So does the service while it answers: until something fails, the answer that
\* a claim of a still QUEUED operation gets is a refusal.
LEMMA ServeStaysAhead ==
    ASSUME WorkInv, LateOK, faults = 0, NEW c \in calls, Serve(c), NEW i \in 1..Len(stream),
           row'[stream[i].op].status = "QUEUED", Ahead(i)
    PROVE  Ahead(i)'
  <1>1. /\ c \in Awaited /\ c.worker \in Worker /\ c.op \in Op /\ c.late = FALSE
        /\ agent \in [Worker -> Agent]
    BY DEF WorkInv, TypeInv, CloudTypeOK, LateOK, Awaited, Call
  <1>2. /\ agent[c.worker].pc = "calling" /\ c.op = Envelope(c.worker).op
        /\ agent[c.worker] \in Agent
    BY <1>1 DEF WorkInv, CallOK
  <1>3. UNCHANGED <<group, pending>>
    BY DEF Serve, Claim, Complete, FailRead, FailUpdate, FailReturn
  <1>4. CASE i > group
    BY <1>3, <1>4 DEF Ahead
  <1>5. CASE ~(i > group) /\ agent[c.worker].msg # i
    <2>1. /\ \A v \in Worker \ {c.worker} : agent'[v] = agent[v]
          /\ agent'[c.worker].pc = "idle" \/ agent'[c.worker].msg # i
      <3>1. \A ok \in BOOLEAN : LET b == AfterCall(agent[c.worker], c.kind, ok) IN
                                   b.pc = "idle" \/ b.msg # i
        BY <1>2, <1>5, AfterCallType, RestType
      <3>2. \/ UNCHANGED agent
            \/ \E ok \in BOOLEAN : agent' = [agent EXCEPT ![c.worker] = AfterCall(@, c.kind, ok)]
        <4>1. OwnsLease(c.op, c.worker) \in BOOLEAN
          BY DEF OwnsLease
        <4>. QED
          BY <1>1, <4>1 DEF Serve, Claim, Complete, FailRead, FailUpdate, FailReturn, Answer
      <3>. QED
        BY <1>1, <1>5, <3>1, <3>2
    <2>2. \A d \in Awaited' : d \in Awaited \/ d.worker = c.worker
      <3>1. c \in Call
        BY DEF WorkInv, TypeInv, CloudTypeOK
      <3>2. /\ [c EXCEPT !.read = row[c.op].attempt].worker = c.worker
            /\ [c EXCEPT !.kind = "retrying"].worker = c.worker
        BY <3>1 DEF Call
      <3>. QED
        BY <3>2 DEF Serve, Claim, Complete, FailRead, FailUpdate, FailReturn, Answer, Awaited
    <2>. QED
      BY <1>3, <1>5, <2>1, <2>2 DEF Ahead
  <1>6. CASE ~(i > group) /\ agent[c.worker].msg = i
    <2>1. c.kind = "claim" /\ c.op = stream[i].op /\ i \in pending
      BY <1>1, <1>2, <1>6 DEF Ahead, Envelope
    <2>2. Claim(c) /\ ~ClaimOperation(c.op, c.worker)
      <3>1. Claim(c)
        BY <2>1 DEF Serve, Complete, FailRead, FailUpdate, FailReturn
      <3>2. ASSUME ClaimOperation(c.op, c.worker)
            PROVE  FALSE
        BY <1>1, <2>1, <3>2, ClaimRow DEF WorkInv, TypeInv, ServiceInv
      <3>. QED
        BY <3>1, <3>2
    <2>3. Answer(c, FALSE)
      BY <2>2 DEF Claim
    <2>4. /\ agent'[c.worker] = Idle /\ Awaited' \subseteq Awaited
          /\ \A v \in Worker \ {c.worker} : agent'[v] = agent[v]
      BY <1>1, <2>1, <2>3 DEF Answer, AfterCall, Awaited
    <2>. QED
      BY <1>3, <1>6, <2>1, <2>4, RestType DEF Ahead
  <1>. QED
    BY <1>4, <1>5, <1>6

\* Only the service queues an operation.
LEMMA QueuedBefore ==
    ASSUME TypeInv, [Next]_vars, ~(ServiceStep /\ UNCHANGED cloudVars),
           NEW o \in Op, row'[o].status = "QUEUED"
    PROVE  row[o].status = "QUEUED"
  <1>. USE DEF TypeInv, CloudTypeOK, ServiceInv, ServiceTypeOK
  <1>1. CASE UNCHANGED row
    BY <1>1
  <1>2. ASSUME NEW w \in Worker, Heartbeat(w)
        PROVE  row[o].status = "QUEUED"
    <2>1. Envelope(w).op \in Op
      BY <1>2, EnvelopeType DEF Heartbeat
    <2>2. row'[o].status = row[o].status
      BY <1>2, <2>1 DEF Heartbeat, Row
    <2>. QED
      BY <2>2
  <1>3. ASSUME NEW c \in calls, Serve(c)
        PROVE  row[o].status = "QUEUED"
    <2>1. c.op \in Op /\ c.worker \in Worker
      BY DEF Call
    <2>2. CASE ClaimOperation(c.op, c.worker)
      <3>1. row'[c.op].status = "RUNNING" /\ \A p \in Op \ {c.op} : row'[p] = row[p]
        BY <2>1, <2>2, ClaimRow
      <3>. QED
        BY <3>1
    <2>3. ASSUME NEW s \in {"SUCCEEDED", "RETRYING", "DEAD_LETTERED"},
                 row' = WithoutLease(c.op, s)
          PROVE  row[o].status = "QUEUED"
      BY <2>1, <2>3 DEF WithoutLease, Row
    <2>4. \/ UNCHANGED row
          \/ ClaimOperation(c.op, c.worker)
          \/ \E s \in {"SUCCEEDED", "RETRYING", "DEAD_LETTERED"} : row' = WithoutLease(c.op, s)
      BY <1>3 DEF Serve, Claim, Complete, FailRead, FailUpdate, FailReturn, Elsewhere
    <2>. QED
      BY <1>1, <2>2, <2>3, <2>4
  <1>4. \/ UNCHANGED row
        \/ \E w \in Worker : Heartbeat(w)
        \/ \E c \in calls : Serve(c)
    <2>1. ASSUME NEW w \in Worker, Work(w)
          PROVE  UNCHANGED row
      BY <2>1 DEF Work, Receive, RejectExpired, IgnorePrivate, AskClaim, Report, Emit, Ack,
                  Elsewhere
    <2>. QED
      BY <2>1 DEF Next, vars, serviceVars, CallFails, CallDropped, WorkerDies,
                  DeadlinePasses, Crash, ServiceCrash, Elsewhere
  <1>. QED
    BY <1>1, <1>2, <1>3, <1>4

\* Nothing but what fails and what the other lemmas are about disturbs a message.
LEMMA MessageStaysAhead ==
    ASSUME WorkInv, LateOK, DeliveredOK, faults = 0, ~Fault, [Next]_vars,
           ~(ServiceStep /\ UNCHANGED cloudVars),
           NEW i \in 1..Len(stream), ExecutionMode[stream[i].op] = "CLOUD",
           stream[i].op \notin late, row'[stream[i].op].status = "QUEUED", Ahead(i)
    PROVE  UNCHANGED <<workflow, stream>> /\ Ahead(i)'
  <1>1. ASSUME UNCHANGED <<group, pending, agent>>, calls' \subseteq calls
        PROVE  Ahead(i)'
    BY <1>1 DEF Ahead, Awaited
  <1>2. CASE UNCHANGED vars
    BY <1>1, <1>2 DEF vars, serviceVars, cloudVars
  <1>3. ASSUME NEW w \in Worker, Work(w)
        PROVE  UNCHANGED <<workflow, stream>> /\ Ahead(i)'
    <2>1. UNCHANGED <<workflow, stream>>
      BY <1>3 DEF Work, Receive, RejectExpired, IgnorePrivate, AskClaim, Report, Emit, Ack,
                  Elsewhere
    <2>. QED
      BY <1>3, <2>1, WorkStaysAhead
  <1>4. ASSUME NEW c \in calls, Serve(c)
        PROVE  UNCHANGED <<workflow, stream>> /\ Ahead(i)'
    <2>1. UNCHANGED <<workflow, stream>>
      BY <1>4 DEF Serve, Claim, Complete, FailRead, FailUpdate, FailReturn, Elsewhere
    <2>. QED
      BY <1>4, <2>1, ServeStaysAhead
  <1>5. ASSUME NEW w \in Worker, Heartbeat(w)
        PROVE  UNCHANGED <<workflow, stream>> /\ Ahead(i)'
    BY <1>1, <1>5 DEF Heartbeat, cloudVars
  <1>6. ASSUME NEW c \in calls, CallDropped(c)
        PROVE  UNCHANGED <<workflow, stream>> /\ Ahead(i)'
    BY <1>1, <1>6 DEF CallDropped, Elsewhere
  <1>7. ASSUME NEW o \in Op, DeadlinePasses(o)
        PROVE  UNCHANGED <<workflow, stream>> /\ Ahead(i)'
    BY <1>1, <1>7 DEF DeadlinePasses, serviceVars
  <1>. QED
    BY <1>2, <1>3, <1>4, <1>5, <1>6, <1>7 DEF Next, WorkerDies, CallFails, Crash, ServiceCrash

\* Until something fails or its deadline passes, a cloud operation stays QUEUED
\* with its message.
LEMMA NextQueued ==
    ASSUME WorkInv, LateOK, DeliveredOK, faults = 0, ~Fault, [Next]_vars, NEW o \in Op,
           ExecutionMode[o] = "CLOUD", o \notin late, QueuedOK(o)
    PROVE  QueuedOK(o)'
  <1>. SUFFICES ASSUME row'[o].status = "QUEUED"
                PROVE  \/ Publishing(o)'
                       \/ \E i \in 1..Len(stream') : stream'[i].op = o /\ Ahead(i)'
    BY DEF QueuedOK
  <1>. USE DEF WorkInv, TypeInv
  <1>1. Len(stream) \in Nat /\ group \in Nat /\ group <= Len(stream)
    BY DEF CloudTypeOK, ServiceInv, ServiceTypeOK
  <1>2. CASE ServiceStep /\ UNCHANGED cloudVars
    <2>1. CASE Publishing(o)'
      BY <2>1
    <2>2. CASE Len(stream') = Len(stream) + 1 /\ stream'[Len(stream) + 1].op = o
      <3>0. PICK i : i = Len(stream) + 1
        OBVIOUS
      <3>1. i \in 1..Len(stream') /\ stream'[i].op = o
        BY <1>1, <2>2, <3>0
      <3>2. Ahead(i)'
        BY <1>1, <1>2, <3>0 DEF Ahead, cloudVars
      <3>. QED
        BY <3>1, <3>2
    <2>3. CASE row[o].status = "QUEUED" /\ ~Publishing(o)
      <3>1. PICK i \in 1..Len(stream) : stream[i].op = o /\ Ahead(i)
        BY <2>3 DEF QueuedOK
      <3>2. i \in 1..Len(stream') /\ stream'[i].op = o
        BY <1>2, <3>1, StreamGrows
      <3>3. Ahead(i)'
        BY <1>2, <3>1 DEF Ahead, Awaited, cloudVars
      <3>. QED
        BY <3>2, <3>3
    <2>. QED
      BY <1>2, <2>1, <2>2, <2>3, ServiceQueues
  <1>3. CASE ~(ServiceStep /\ UNCHANGED cloudVars)
    <2>1. row[o].status = "QUEUED"
      BY <1>3, QueuedBefore
    <2>2. CASE Publishing(o)
      <3>1. UNCHANGED workflow
        <4>1. ASSUME NEW w \in Worker, Work(w)
              PROVE  UNCHANGED workflow
          BY <4>1 DEF Work, Receive, RejectExpired, IgnorePrivate, AskClaim, Report, Emit,
                      Ack, Elsewhere
        <4>. QED
          BY <1>3, <4>1 DEF Next, vars, serviceVars, Elsewhere, Heartbeat, WorkerDies, Serve,
             Claim, Complete, FailRead, FailUpdate, FailReturn, CallFails, CallDropped,
             DeadlinePasses, Crash, ServiceCrash
      <3>. QED
        BY <2>2, <3>1 DEF Publishing
    <2>3. ASSUME NEW i \in 1..Len(stream), stream[i].op = o, Ahead(i)
          PROVE  \E j \in 1..Len(stream') : stream'[j].op = o /\ Ahead(j)'
      <3>1. UNCHANGED <<workflow, stream>> /\ Ahead(i)'
        BY <1>3, <2>3, MessageStaysAhead
      <3>. QED
        BY <2>3, <3>1
    <2>. QED
      BY <2>1, <2>2, <2>3 DEF QueuedOK
  <1>. QED
    BY <1>2, <1>3 DEF Next, vars, cloudVars

\* What keeps operations carried and within their budgets until something fails
CarriedInv ==
    /\ WorkInv /\ LateOK /\ DeliveredOK /\ SeenOnce
    /\ faults = 0 =>
          /\ ReadOK
          /\ \A o \in Op :
                /\ BudgetOK(o)
                /\ redrives[o] = 0 => CarryOK(o)
                /\ ExecutionMode[o] = "CLOUD" /\ o \notin late => QueuedOK(o)

\* No step loses an operation until something fails.
LEMMA NextCarried == CarriedInv /\ [Next]_vars => CarriedInv'
  <1>. SUFFICES ASSUME CarriedInv, [Next]_vars PROVE CarriedInv'
    OBVIOUS
  <1>1. WorkInv /\ WorkInv' /\ TypeInv
    BY NextWorkInv DEF CarriedInv, WorkInv
  <1>2. LateOK' /\ DeliveredOK' /\ SeenOnce'
    BY <1>1, NextLate, NextDelivered, NextSeen DEF CarriedInv
  <1>3. faults' = 0 => faults = 0 /\ ~Fault
    BY <1>1, FaultsGrow
  <1>4. faults' = 0 => ReadOK'
    BY <1>1, <1>3, NextRead DEF CarriedInv
  <1>5. ASSUME faults' = 0, NEW o \in Op
        PROVE  /\ BudgetOK(o)'
               /\ redrives'[o] = 0 => CarryOK(o)'
               /\ ExecutionMode[o] = "CLOUD" /\ o \notin late' => QueuedOK(o)'
    <2>1. UNCHANGED redrives \/ ServiceStep
      <3>1. ASSUME NEW w \in Worker, Work(w)
            PROVE  UNCHANGED redrives
        BY <3>1 DEF Work, Receive, RejectExpired, IgnorePrivate, AskClaim, Report, Emit, Ack,
                    Elsewhere
      <3>. QED
        BY <3>1 DEF Next, vars, serviceVars, Elsewhere, Heartbeat, WorkerDies, Serve, Claim,
           Complete, FailRead, FailUpdate, FailReturn, CallFails, CallDropped,
           DeadlinePasses, Crash, ServiceCrash
    <2>2. redrives'[o] = 0 => redrives[o] = 0
      BY <1>1, <2>1, RedrivesGrow DEF TypeInv
    <2>3. redrives'[o] = 0 => CarryOK(o)'
      BY <1>1, <1>3, <1>5, <2>2, NextCarries DEF CarriedInv
    <2>4. late \subseteq late'
      <3>1. ASSUME NEW w \in Worker, Work(w)
            PROVE  UNCHANGED late
        BY <3>1 DEF Work, Receive, RejectExpired, IgnorePrivate, AskClaim, Report, Emit, Ack
      <3>. QED
        BY <3>1 DEF Next, vars, cloudVars, Heartbeat, WorkerDies, Serve, Claim, Complete,
           FailRead, FailUpdate, FailReturn, CallFails, CallDropped, DeadlinePasses, Crash
    <2>5. ExecutionMode[o] = "CLOUD" /\ o \notin late' => QueuedOK(o)'
      BY <1>1, <1>3, <1>5, <2>4, NextQueued DEF CarriedInv
    <2>6. BudgetOK(o)'
      BY <1>1, <1>3, <1>5, NextBudget DEF CarriedInv, WorkInv
    <2>. QED
      BY <2>3, <2>5, <2>6
  <1>. QED
    BY <1>1, <1>2, <1>4, <1>5 DEF CarriedInv

LEMMA InitCarried == Init => CarriedInv
  <1>. SUFFICES ASSUME Init PROVE CarriedInv
    OBVIOUS
  <1>1. WorkInv
    BY InitIInv DEF IInv
  <1>2. LateOK /\ DeliveredOK /\ SeenOnce /\ ReadOK
    BY RestType DEF Init, ServiceInit, LateOK, DeliveredOK, SeenOnce, ReadOK
  <1>3. ASSUME NEW o \in Op
        PROVE  BudgetOK(o) /\ CarryOK(o) /\ QueuedOK(o)
    <2>1. BudgetOK(o)
      BY BudgetInit DEF Init
    <2>2. CarryOK(o) /\ QueuedOK(o)
      BY <1>3 DEF Init, ServiceInit, CarryOK, NamesOK, Used, QueuedOK, NoRow
    <2>. QED
      BY <2>1, <2>2
  <1>. QED
    BY <1>1, <1>2, <1>3 DEF CarriedInv

\* Until something fails, every QUEUED cloud operation whose deadline has not
\* passed has a message that no worker is past, every other operation that
\* waits a workflow of its own, and all of them are within their budgets.
THEOREM CloudCarriedInvariant == Spec => []CarriedInv
  BY InitCarried, NextCarried, PTL DEF Spec

\* process, queueOperationWorkflow and reapExpiredLeaseBatch together: while
\* nothing fails, no worker acknowledges the last message of a cloud operation
\* that still waits, however claims, refusals and deliveries interleave.
THEOREM NothingAckedAway == Spec => []NeverAckedAway
  <1>1. CarriedInv => NeverAckedAway
    <2>. SUFFICES ASSUME CarriedInv, NEW o \in Op,
                         row[o].status \in {"PENDING", "QUEUED", "RETRYING"},
                         ExecutionMode[o] = "CLOUD", o \notin late, faults = 0,
                         redrives[o] = 0
                  PROVE  Carried(o)
      BY DEF NeverAckedAway
    <2>1. CASE row[o].status \in {"PENDING", "RETRYING"}
      BY <2>1 DEF CarriedInv, CarryOK, Bringing, Carried
    <2>2. CASE row[o].status = "QUEUED"
      BY <2>2 DEF CarriedInv, QueuedOK, Publishing, Ahead, Carried
    <2>. QED
      BY <2>1, <2>2
  <1>. QED
    BY <1>1, CloudCarriedInvariant, PTL

\* reapExpiredLeaseBatch and fail: until something fails, neither a scan nor a
\* read that is stale when it is acted upon costs a cloud operation more than
\* one attempt beyond its budget.
THEOREM CloudStaleScanCostsOne == Spec => []OverrunByOne
  <1>1. CarriedInv => OverrunByOne
    BY DEF CarriedInv, BudgetOK, OverrunByOne
  <1>. QED
    BY <1>1, CloudCarriedInvariant, PTL
=============================================================================

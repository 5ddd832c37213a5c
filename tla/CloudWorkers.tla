---------------------------- MODULE CloudWorkers ----------------------------
(***************************************************************************)
(* The Operations service together with the cloud workers                  *)
(* (cmd/worker/main.go) and the internal handlers they call: claim,        *)
(* heartbeat, complete and fail.  The workers are consumers of one Redis   *)
(* consumer group; a message is delivered to one of them, stays pending    *)
(* until that worker acknowledges it, and is not read again.  Outcomes are *)
(* sent to the Usage service by the worker itself, without an outbox.      *)
(***************************************************************************)
EXTENDS Operations

CONSTANT HasDeadline    \* the operations submitted with a deadline

ASSUME HasDeadlineType == HasDeadline \subseteq Op

VARIABLES group,    \* the last message of the stream the group delivered
          pending,  \* messages delivered and not acknowledged
          agent,    \* each worker, with the message it processes
          calls,    \* requests to the service, on their way or being served
          emitted,  \* keys of the events the Usage service got from workers
          late      \* operations whose deadline has passed

cloudVars == <<group, pending, agent, calls, emitted, late>>
vars == <<serviceVars, cloudVars>>

\* outcome: how the execution ended
Agent == [pc : {"idle", "received", "calling", "executing", "emitting", "acking",
                "dead"},
          msg : Nat, outcome : {"none", "success", "retryable", "fatal"}]

\* read: the attempt the fail handler has read, 0 before.  late: the worker no
\* longer waits for the answer.
Call == [worker : Worker, op : Op, read : Nat, late : BOOLEAN,
         kind : {"claim", "complete", "retryable", "fatal", "deadline", "retrying"}]

TypeOK ==
    /\ ServiceTypeOK
    /\ group \in 0..Len(stream)
    /\ pending \subseteq 1..group
    /\ agent \in [Worker -> Agent]
    /\ calls \subseteq Call
    /\ emitted \subseteq Op \X EventType \X Nat
    /\ late \subseteq HasDeadline

Idle == [pc |-> "idle", msg |-> 0, outcome |-> "none"]

Dead == [Idle EXCEPT !.pc = "dead"]

Init ==
    /\ ServiceInit
    /\ group = 0
    /\ pending = {}
    /\ agent = [w \in Worker |-> Idle]
    /\ calls = {}
    /\ emitted = {}
    /\ late = {}

Envelope(w) == stream[agent[w].msg]

\* What every step of a worker alone leaves as it is
Elsewhere == <<row, event_outbox, workflow, stream, admitted, starting, reaping,
               redrives>>

-----------------------------------------------------------------------------
(* run and process                                                         *)

\* Mutant: messages are read with NOACK.
ReceiveAcked(w) ==
    /\ agent[w].pc = "idle"
    /\ group < Len(stream)
    /\ group' = group + 1
    /\ agent' = [agent EXCEPT ![w].pc = "received", ![w].msg = group + 1]
    /\ UNCHANGED <<Elsewhere, faults, pending, calls, emitted, late>>

\* XREADGROUP ... ">": the next message nobody was given
Receive(w) ==
    /\ agent[w].pc = "idle"
    /\ group < Len(stream)
    /\ group' = group + 1
    /\ pending' = pending \cup {group + 1}
    /\ agent' = [agent EXCEPT ![w].pc = "received", ![w].msg = group + 1]
    /\ UNCHANGED <<Elsewhere, faults, calls, emitted, late>>

\* postJSON: a request the worker waits for
Post(w, kind) ==
    /\ calls' = calls \cup {[worker |-> w, op |-> Envelope(w).op, kind |-> kind,
                             read |-> 0, late |-> FALSE]}
    /\ agent' = [agent EXCEPT ![w].pc = "calling"]

\* A passed deadline is reported, whoever may execute the operation.
RejectExpired(w) ==
    /\ agent[w].pc = "received"
    /\ Envelope(w).op \in late
    /\ Post(w, "deadline")
    /\ UNCHANGED <<Elsewhere, faults, group, pending, emitted, late>>

\* A private operation is not the cloud workers' business.
IgnorePrivate(w) ==
    /\ agent[w].pc = "received"
    /\ Envelope(w).op \notin late
    /\ ExecutionMode[Envelope(w).op] # "CLOUD"
    /\ agent' = [agent EXCEPT ![w].pc = "acking"]
    /\ UNCHANGED <<Elsewhere, faults, group, pending, calls, emitted, late>>

AskClaim(w) ==
    /\ agent[w].pc = "received"
    /\ Envelope(w).op \notin late
    /\ ExecutionMode[Envelope(w).op] = "CLOUD"
    /\ Post(w, "claim")
    /\ UNCHANGED <<Elsewhere, faults, group, pending, emitted, late>>

\* execute returns; the heartbeats stop, the explanation is asked for, and the
\* outcome is reported.
Report(w, outcome) ==
    /\ agent[w].pc = "executing"
    /\ calls' = calls \cup {[worker |-> w, op |-> Envelope(w).op, read |-> 0,
                             kind |-> IF outcome = "success" THEN "complete" ELSE outcome,
                             late |-> FALSE]}
    /\ agent' = [agent EXCEPT ![w].pc = "calling", ![w].outcome = outcome]
    /\ UNCHANGED <<Elsewhere, faults, group, pending, emitted, late>>

\* Mutant: an error of the completion is ignored as that of a failure is.
ProceedAnyway(a, kind, ok) ==
    CASE kind = "claim"    -> IF ok THEN [a EXCEPT !.pc = "executing"] ELSE Idle
      [] kind = "deadline" -> [a EXCEPT !.pc = "acking"]
      [] OTHER             -> [a EXCEPT !.pc = "emitting"]

\* A refused claim or completion ends the processing, and the message stays
\* pending.  The answer to a failure report is ignored.
AfterCall(a, kind, ok) ==
    CASE kind \in {"claim", "complete"} /\ ~ok -> Idle
      [] kind = "claim" /\ ok                  -> [a EXCEPT !.pc = "executing"]
      [] kind = "deadline"                     -> [a EXCEPT !.pc = "acking"]
      [] OTHER                                 -> [a EXCEPT !.pc = "emitting"]

\* The type is chosen by the attempt of the envelope.
EmittedType(w) ==
    IF agent[w].outcome = "success" THEN "operation.succeeded"
    ELSE IF agent[w].outcome = "fatal"
            \/ Envelope(w).attempt + 1 >= MaxAttempts[Envelope(w).op]
         THEN "operation.dead_lettered" ELSE "operation.failed"

\* emit; an error is ignored.
Emit(w) ==
    /\ agent[w].pc = "emitting"
    /\ \/ /\ emitted' = emitted \cup {<<Envelope(w).op, EmittedType(w), Envelope(w).attempt>>}
          /\ UNCHANGED faults
       \/ Fault /\ UNCHANGED emitted
    /\ agent' = [agent EXCEPT ![w].pc = "acking"]
    /\ UNCHANGED <<Elsewhere, group, pending, calls, late>>

\* XACK; an error is ignored.
Ack(w) ==
    /\ agent[w].pc = "acking"
    /\ \/ pending' = pending \ {agent[w].msg} /\ UNCHANGED faults
       \/ Fault /\ UNCHANGED pending
    /\ agent' = [agent EXCEPT ![w] = Idle]
    /\ UNCHANGED <<Elsewhere, group, calls, emitted, late>>

-----------------------------------------------------------------------------
(* The handlers                                                            *)

\* The handler answers; a worker that still waits goes on.
Answer(c, ok) ==
    /\ calls' = calls \ {c}
    /\ agent' = IF c.late THEN agent
                ELSE [agent EXCEPT ![c.worker] = AfterCall(@, c.kind, ok)]

Claim(c) ==
    /\ c.kind = "claim"
    /\ \/ ClaimOperation(c.op, c.worker) /\ Answer(c, TRUE)
       \/ /\ row[c.op].status \notin Claimable \/ ~BelowLimit(TenantOf[c.op])
          /\ Answer(c, FALSE)
          /\ UNCHANGED row
    /\ UNCHANGED <<event_outbox, workflow, stream, admitted, starting, reaping,
                   redrives, faults, group, pending, emitted, late>>

\* Renews the lease the worker still owns, expired or not.
Heartbeat(w) ==
    /\ agent[w].pc = "executing"
    /\ OwnsLease(Envelope(w).op, w)
    /\ row[Envelope(w).op].expired
    /\ row' = [row EXCEPT ![Envelope(w).op].expired = FALSE]
    /\ UNCHANGED <<event_outbox, workflow, stream, admitted, starting, reaping,
                   redrives, faults, cloudVars>>

Complete(c) ==
    /\ c.kind = "complete"
    /\ Answer(c, OwnsLease(c.op, c.worker))
    /\ row' = IF OwnsLease(c.op, c.worker) THEN WithoutLease(c.op, "SUCCEEDED") ELSE row
    /\ UNCHANGED <<event_outbox, workflow, stream, admitted, starting, reaping,
                   redrives, faults, group, pending, emitted, late>>

\* fail reads the row and its attempt ...
FailRead(c) ==
    /\ c.kind \in {"retryable", "fatal", "deadline"}
    /\ c.read = 0
    /\ \/ /\ OwnsLease(c.op, c.worker)
          /\ calls' = (calls \ {c}) \cup {[c EXCEPT !.read = row[c.op].attempt]}
          /\ UNCHANGED agent
       \/ ~OwnsLease(c.op, c.worker) /\ Answer(c, FALSE)
    /\ UNCHANGED <<Elsewhere, faults, group, pending, emitted, late>>

\* ... and decides by that attempt.  No event is recorded for the outcome.
FailUpdate(c) ==
    /\ c.read > 0 /\ c.kind \in {"retryable", "fatal", "deadline"}
    /\ \/ /\ ~OwnsLease(c.op, c.worker)
          /\ Answer(c, FALSE)
          /\ UNCHANGED <<row, starting>>
       \/ /\ OwnsLease(c.op, c.worker)
          /\ c.kind = "retryable" /\ c.read < MaxAttempts[c.op]
          /\ row' = WithoutLease(c.op, "RETRYING")
          /\ starting' = starting \cup {<<"retry", c.op, c.read>>}
          /\ calls' = (calls \ {c}) \cup {[c EXCEPT !.kind = "retrying"]}
          /\ UNCHANGED agent
       \/ /\ OwnsLease(c.op, c.worker)
          /\ c.kind # "retryable" \/ c.read >= MaxAttempts[c.op]
          /\ row' = WithoutLease(c.op, "DEAD_LETTERED")
          /\ Answer(c, TRUE)
          /\ UNCHANGED starting
    /\ UNCHANGED <<event_outbox, workflow, stream, admitted, reaping, redrives,
                   faults, group, pending, emitted, late>>

\* The handler returns from RunWorkflow.
FailReturn(c) ==
    /\ c.kind = "retrying"
    /\ <<"retry", c.op, c.read>> \notin starting
    /\ Answer(c, TRUE)
    /\ UNCHANGED <<Elsewhere, faults, group, pending, emitted, late>>

-----------------------------------------------------------------------------
(* Time and failures                                                       *)

DeadlinePasses(o) ==
    /\ o \in HasDeadline \ late
    /\ late' = late \cup {o}
    /\ UNCHANGED <<serviceVars, group, pending, agent, calls, emitted>>

\* The request fails for its worker: an error, or its time is over.  It may
\* still be served (a late request, or an answer that was lost) ...
CallFails(c) ==
    /\ ~c.late
    /\ Fault
    /\ calls' = (calls \ {c}) \cup {[c EXCEPT !.late = TRUE]}
    /\ agent' = [agent EXCEPT ![c.worker] = AfterCall(@, c.kind, FALSE)]
    /\ UNCHANGED <<Elsewhere, group, pending, emitted, late>>

\* ... or not.
CallDropped(c) ==
    /\ c.late
    /\ calls' = calls \ {c}
    /\ UNCHANGED <<Elsewhere, faults, group, pending, agent, emitted, late>>

\* A worker is stopped, crashes, or ends on an error of XREADGROUP.  The
\* process that replaces it has a worker ID of its own.
WorkerDies(w) ==
    /\ agent[w].pc # "dead"
    /\ Fault
    /\ agent' = [agent EXCEPT ![w] = Dead]
    /\ calls' = {IF c.worker = w THEN [c EXCEPT !.late = TRUE] ELSE c : c \in calls}
    /\ UNCHANGED <<Elsewhere, group, pending, emitted, late>>

\* The service crashes: the requests it was serving fail.
Crash ==
    /\ ServiceCrash
    /\ calls' = {}
    /\ agent' = [w \in Worker |->
                   IF agent[w].pc # "calling" THEN agent[w]
                   ELSE LET c == CHOOSE x \in calls : x.worker = w /\ ~x.late
                        IN AfterCall(agent[w], c.kind, FALSE)]
    /\ UNCHANGED <<group, pending, emitted, late>>

-----------------------------------------------------------------------------
Work(w) ==
    \/ Receive(w)
    \/ RejectExpired(w)
    \/ IgnorePrivate(w)
    \/ AskClaim(w)
    \/ \E outcome \in {"success", "retryable", "fatal"} : Report(w, outcome)
    \/ Emit(w)
    \/ Ack(w)

Serve(c) == Claim(c) \/ Complete(c) \/ FailRead(c) \/ FailUpdate(c) \/ FailReturn(c)

Next ==
    \/ ServiceStep /\ UNCHANGED cloudVars
    \/ \E w \in Worker : Work(w) \/ Heartbeat(w) \/ WorkerDies(w)
    \/ \E c \in calls : Serve(c) \/ CallFails(c) \/ CallDropped(c)
    \/ \E o \in Op : DeadlinePasses(o)
    \/ Crash

\* As for the enterprise workers: goroutines and loops run, executions end,
\* requests are served, and a lease that is not renewed expires.
Fairness ==
    /\ \A o \in Op : WF_vars(LeaseExpires(o) /\ UNCHANGED cloudVars)
    /\ WF_vars((\E id \in starting : StartWorkflow(id)) /\ UNCHANGED cloudVars)
    /\ WF_vars((\E id \in DOMAIN workflow : EnqueueStep(id)) /\ UNCHANGED cloudVars)
    /\ WF_vars((ReaperScan \/ \E r \in reaping : Reap(r[1], r[2])) /\ UNCHANGED cloudVars)
    /\ \A w \in Worker : WF_vars(Work(w))
    /\ WF_vars(\E c \in calls : Serve(c))

Spec == Init /\ [][Next]_vars /\ Fairness

-----------------------------------------------------------------------------
(* Properties                                                              *)

\* emit after complete: whatever attempts overlap, only a completion that was
\* accepted is charged, and no operation is charged for two successes.
SuccessChargedOnce ==
    \A k, l \in emitted :
        k[2] = "operation.succeeded" =>
            /\ row[k[1]].status = "SUCCEEDED"
            /\ l[1] = k[1] /\ l[2] = k[2] => l = k

\* Something can still bring the operation to a worker, or a message of it is
\* pending.
Carried(o) ==
    \/ \E id \in starting : id[2] = o /\ id \notin DOMAIN workflow
    \/ \E id \in DOMAIN workflow : id[2] = o /\ workflow[id] = "sleep"
    \/ /\ row[o].status = "QUEUED"
       /\ \/ \E id \in DOMAIN workflow : id[2] = o /\ workflow[id] = "publish"
          \/ \E i \in 1..Len(stream) : (i > group \/ i \in pending) /\ stream[i].op = o

\* process: where nothing fails and nothing is redriven, no worker acknowledges
\* the last message of a cloud operation that waits; only one whose deadline
\* has passed is given up that way.
NeverAckedAway ==
    \A o \in Op :
        /\ row[o].status \in {"PENDING", "QUEUED", "RETRYING"}
        /\ ExecutionMode[o] = "CLOUD" /\ o \notin late
        /\ faults = 0 /\ redrives[o] = 0
        => Carried(o)

\* A message is pending and no worker has it in hand.
Abandoned(o) ==
    \E i \in pending : stream[i].op = o /\ \A w \in Worker : agent[w].msg # i

\* A submitted cloud operation ends, unless something failed, its deadline
\* passed, or a worker left its message pending.
SettledOrAbandoned ==
    \A o \in Op :
        row[o].status = "PENDING" /\ ExecutionMode[o] = "CLOUD" ~>
            IsTerminal(row[o].status) \/ faults > 0 \/ o \in late \/ Abandoned(o)

\* claim, complete, fail: with the rest of the service they move a row only
\* along the lifecycle, whatever fails and from any state it is in.
LifecycleSteps == [][Lifecycle!Next]_[o \in Op |-> row[o].status]

\* process leaves the message of a refused claim pending for a retry: where
\* nothing fails, a cloud operation does not stay QUEUED.
RefusedIsRetried ==
    \A o \in Op :
        row[o].status = "QUEUED" /\ ExecutionMode[o] = "CLOUD" ~> row[o].status # "QUEUED"
=============================================================================

--------------------------- MODULE PrivateWorkers ---------------------------
(***************************************************************************)
(* The Operations service together with the enterprise workers of its      *)
(* tenants (cmd/enterprise-worker/main.go) and the handlers they call over *)
(* HTTP: workerPoll, workerHeartbeat, workerComplete and workerFail        *)
(* (cmd/operations/main.go).  A worker polls, executes what it was given   *)
(* and reports, one operation at a time.  All polls of a tenant share one  *)
(* Redis cursor, which they read and write without a lock.                 *)
(***************************************************************************)
EXTENDS Operations

CONSTANTS WorkerTenant,   \* the tenant of a worker's API key
          BatchSize,      \* messages of one XREAD
          NoOp            \* no operation in hand

ASSUME WorkerTenantType == WorkerTenant \in [Worker -> Tenant]
ASSUME BatchSizeType == BatchSize \in Nat \ {0}
ASSUME NoOpOutside == NoOp \notin Op

VARIABLES cursor,   \* private-worker-cursor:<tenant>, an index of the stream
          agent,    \* each worker, with the poll request it is waiting for
          calls     \* complete and fail requests on their way or being served

vars == <<serviceVars, cursor, agent, calls>>

\* at: the last message this poll is done with; last: the end of its batch.
\* op, attempt: what it claimed.
Agent == [pc : {"idle", "cursor", "scan", "refused", "skip", "claimed",
                "executing", "reporting"},
          at : Nat, last : Nat, op : Op \cup {NoOp}, attempt : Nat]

\* attempt: the attempt the report is about, which the request does NOT
\* carry.  read: the attempt workerFail has read, 0 before.  late: the worker
\* gave the request up when its 45 s were over.
Call == [worker : Worker, op : Op, attempt : Nat,
         kind : {"complete", "retryable", "fatal"}, read : Nat, late : BOOLEAN]

TypeOK ==
    /\ ServiceTypeOK
    /\ cursor \in [Tenant -> Nat]
    /\ agent \in [Worker -> Agent]
    /\ calls \subseteq Call

Idle == [pc |-> "idle", at |-> 0, last |-> 0, op |-> NoOp, attempt |-> 0]

Init ==
    /\ ServiceInit
    /\ cursor = [t \in Tenant |-> 0]
    /\ agent = [w \in Worker |-> Idle]
    /\ calls = {}

-----------------------------------------------------------------------------
(* workerPoll                                                              *)

\* GET private-worker-cursor:<tenant>
PollCursor(w) ==
    /\ agent[w].pc = "idle"
    /\ agent' = [agent EXCEPT ![w].pc = "cursor", ![w].at = cursor[WorkerTenant[w]]]
    /\ UNCHANGED <<serviceVars, cursor, calls>>

\* XREAD after that cursor; with nothing to read the poll answers 204.
PollRead(w) ==
    /\ agent[w].pc = "cursor"
    /\ \/ /\ Len(stream) > agent[w].at
          /\ \E n \in 1..Len(stream) :
               /\ n = IF Len(stream) < agent[w].at + BatchSize
                      THEN Len(stream) ELSE agent[w].at + BatchSize
               /\ agent' = [agent EXCEPT ![w].pc = "scan", ![w].last = n]
       \/ /\ Len(stream) <= agent[w].at
          /\ agent' = [agent EXCEPT ![w] = Idle]
    /\ UNCHANGED <<serviceVars, cursor, calls>>

\* The message a poll is at
Message(w) == stream[agent[w].at + 1]

AtMessage(w) == agent[w].pc = "scan" /\ agent[w].at < agent[w].last

\* A message of another tenant, or of a cloud operation, is not this poll's.
Mine(w, o) == TenantOf[o] = WorkerTenant[w] /\ ExecutionMode[o] = "PRIVATE"

PollForeign(w) ==
    /\ AtMessage(w)
    /\ ~Mine(w, Message(w).op)
    /\ agent' = [agent EXCEPT ![w].pc = "skip"]
    /\ UNCHANGED <<serviceVars, cursor, calls>>

PollClaim(w) ==
    /\ AtMessage(w)
    /\ Mine(w, Message(w).op)
    /\ ClaimOperation(Message(w).op, w)
    /\ agent' = [agent EXCEPT ![w].pc = "claimed", ![w].op = Message(w).op,
                              ![w].attempt = row[Message(w).op].attempt + 1]
    /\ UNCHANGED <<event_outbox, workflow, stream, admitted, starting, reaping,
                   redrives, faults, cursor, calls>>

PollRefused(w) ==
    /\ AtMessage(w)
    /\ Mine(w, Message(w).op)
    /\ \/ row[Message(w).op].status \notin Claimable
       \/ ~BelowLimit(WorkerTenant[w])
    /\ agent' = [agent EXCEPT ![w].pc = "refused"]
    /\ UNCHANGED <<serviceVars, cursor, calls>>

\* Mutant: every refused message is skipped, whatever its operation's status.
SkipRefused(w) ==
    /\ agent[w].pc = "refused"
    /\ agent' = [agent EXCEPT ![w].pc = "skip"]
    /\ UNCHANGED <<serviceVars, cursor, calls>>

\* Mutant: a refused message is kept, whatever its operation's status.
KeepRefused(w) ==
    /\ agent[w].pc = "refused"
    /\ agent' = [agent EXCEPT ![w] = Idle]
    /\ UNCHANGED <<serviceVars, cursor, calls>>

\* SELECT status: an operation that may still run keeps its message, and the
\* poll answers 204; any other message is skipped.
PollStatus(w) ==
    /\ agent[w].pc = "refused"
    /\ agent' = [agent EXCEPT ![w] =
                   IF CanTransition(row[Message(w).op].status, "RUNNING")
                   THEN Idle ELSE [@ EXCEPT !.pc = "skip"]]
    /\ UNCHANGED <<serviceVars, cursor, calls>>

\* SET private-worker-cursor:<tenant>; its error is ignored.
SetCursor(w) ==
    \/ /\ cursor' = [cursor EXCEPT ![WorkerTenant[w]] = agent[w].at + 1]
       /\ UNCHANGED faults
    \/ Fault /\ UNCHANGED cursor

PollSkip(w) ==
    /\ agent[w].pc = "skip"
    /\ SetCursor(w)
    /\ agent' = [agent EXCEPT ![w].pc = "scan", ![w].at = @ + 1]
    /\ UNCHANGED <<row, event_outbox, workflow, stream, admitted, starting,
                   reaping, redrives, calls>>

\* The batch is used up without a claim: 204.
PollEmpty(w) ==
    /\ agent[w].pc = "scan"
    /\ agent[w].at = agent[w].last
    /\ agent' = [agent EXCEPT ![w] = Idle]
    /\ UNCHANGED <<serviceVars, cursor, calls>>

\* After a claim: SET the cursor and answer with the envelope.
PollReturn(w) ==
    /\ agent[w].pc = "claimed"
    /\ SetCursor(w)
    /\ agent' = [agent EXCEPT ![w].pc = "executing", ![w].at = 0, ![w].last = 0]
    /\ UNCHANGED <<row, event_outbox, workflow, stream, admitted, starting,
                   reaping, redrives, calls>>

\* The answer is lost: the claim stands and the worker knows nothing of it.
PollReturnLost(w) ==
    /\ agent[w].pc = "claimed"
    /\ Fault
    /\ cursor' = [cursor EXCEPT ![WorkerTenant[w]] = agent[w].at + 1]
    /\ agent' = [agent EXCEPT ![w] = Idle]
    /\ UNCHANGED <<row, event_outbox, workflow, stream, admitted, starting,
                   reaping, redrives, calls>>

\* The SELECT of the status fails with anything but ErrNoRows: status is empty,
\* no transition leads from there, and the message is skipped as if its
\* operation were over.  The branch that returns the error is never taken.
PollStatusFails(w) ==
    /\ agent[w].pc = "refused"
    /\ Fault
    /\ agent' = [agent EXCEPT ![w].pc = "skip"]
    /\ UNCHANGED <<row, event_outbox, workflow, stream, admitted, starting,
                   reaping, redrives, cursor, calls>>

\* GET, XREAD or the claim fails, or the connection is gone, which cancels what
\* the poll has yet to execute; the worker polls again after two seconds.
PollFails(w) ==
    /\ agent[w].pc \in {"cursor", "scan", "refused", "skip", "claimed"}
    /\ Fault
    /\ agent' = [agent EXCEPT ![w] = Idle]
    /\ UNCHANGED <<row, event_outbox, workflow, stream, admitted, starting,
                   reaping, redrives, cursor, calls>>

-----------------------------------------------------------------------------
(* Execution and the reports of its outcome                                *)

\* workerHeartbeat: extends the lease the worker still owns, expired or not.
Heartbeat(w) ==
    /\ agent[w].pc = "executing"
    /\ OwnsLease(agent[w].op, w)
    /\ row[agent[w].op].expired
    /\ row' = [row EXCEPT ![agent[w].op].expired = FALSE]
    /\ UNCHANGED <<event_outbox, workflow, stream, admitted, starting, reaping,
                   redrives, faults, cursor, agent, calls>>

\* The target has answered, or the 45 s of the request are over.  Heartbeats
\* stop, the explanation is asked for, and the report is sent.
Report(w, kind) ==
    /\ agent[w].pc = "executing"
    /\ agent' = [agent EXCEPT ![w].pc = "reporting"]
    /\ calls' = calls \cup {[worker |-> w, op |-> agent[w].op,
                             attempt |-> agent[w].attempt, kind |-> kind,
                             read |-> 0, late |-> FALSE]}
    /\ UNCHANGED <<serviceVars, cursor>>

Awaited(w) == {c \in calls : c.worker = w /\ ~c.late}

\* Mutant: the worker does not wait for the response to its report.
ReturnAtOnce(w) ==
    /\ agent[w].pc = "reporting"
    /\ agent' = [agent EXCEPT ![w] = Idle]
    /\ UNCHANGED <<serviceVars, cursor, calls>>

\* The response, whatever it says: the worker polls again.
ReportReturns(w) ==
    /\ agent[w].pc = "reporting"
    /\ Awaited(w) = {}
    /\ \A id \in starting : ~(id[1] = "retry" /\ id[2] = agent[w].op)
    /\ agent' = [agent EXCEPT ![w] = Idle]
    /\ UNCHANGED <<serviceVars, cursor, calls>>

\* The worker's HTTP client gives up while the request is under way.  If the
\* service notices in time it cancels the request's context (CallLost); a
\* request held up on its way is still served.
CallTimesOut(c) ==
    /\ c \in Awaited(c.worker)
    /\ Fault
    /\ calls' = (calls \ {c}) \cup {[c EXCEPT !.late = TRUE]}
    /\ agent' = [agent EXCEPT ![c.worker] = Idle]
    /\ UNCHANGED <<row, event_outbox, workflow, stream, admitted, starting,
                   reaping, redrives, cursor>>

\* The request, or the service's answer in place of its work, is lost.
CallLost(c) ==
    /\ c \in calls
    /\ Fault
    /\ calls' = calls \ {c}
    /\ UNCHANGED <<row, event_outbox, workflow, stream, admitted, starting,
                   reaping, redrives, cursor, agent>>

\* workerComplete: one transaction updates the row and inserts the event.
WorkerComplete(c) ==
    /\ c \in calls
    /\ c.kind = "complete"
    /\ calls' = calls \ {c}
    /\ \/ /\ OwnsLease(c.op, c.worker)
          /\ row' = WithoutLease(c.op, "SUCCEEDED")
          /\ event_outbox' = event_outbox \cup
                               {<<c.op, "operation.succeeded", row[c.op].attempt>>}
       \/ /\ ~OwnsLease(c.op, c.worker)
          /\ UNCHANGED <<row, event_outbox>>
    /\ UNCHANGED <<workflow, stream, admitted, starting, reaping, redrives,
                   faults, cursor, agent>>

\* workerFail reads the row and its attempt before its transaction.
WorkerFailRead(c) ==
    /\ c \in calls
    /\ c.kind # "complete"
    /\ c.read = 0
    /\ \/ /\ OwnsLease(c.op, c.worker)
          /\ calls' = (calls \ {c}) \cup {[c EXCEPT !.read = row[c.op].attempt]}
       \/ /\ ~OwnsLease(c.op, c.worker)
          /\ calls' = calls \ {c}
    /\ UNCHANGED <<serviceVars, cursor, agent>>

\* Mutant: an attempt equal to the budget is still retried.
RetryAtBudget(c) == c.kind = "retryable" /\ c.read <= MaxAttempts[c.op]

Retry(c) == c.kind = "retryable" /\ c.read < MaxAttempts[c.op]

\* workerFail's transaction, with the status and the event chosen by the
\* attempt that was read.  The retry workflow is started after the commit.
WorkerFailCommit(c) ==
    /\ c \in calls
    /\ c.read > 0
    /\ calls' = calls \ {c}
    /\ \/ /\ ~OwnsLease(c.op, c.worker)
          /\ UNCHANGED <<row, event_outbox, starting>>
       \/ /\ OwnsLease(c.op, c.worker)
          /\ Retry(c)
          /\ row' = WithoutLease(c.op, "RETRYING")
          /\ event_outbox' = event_outbox \cup {<<c.op, "operation.failed", c.read>>}
          /\ starting' = starting \cup {<<"retry", c.op, c.read>>}
       \/ /\ OwnsLease(c.op, c.worker)
          /\ ~Retry(c)
          /\ row' = WithoutLease(c.op, "DEAD_LETTERED")
          /\ event_outbox' = event_outbox \cup
                               {<<c.op, "operation.dead_lettered", c.read>>}
          /\ UNCHANGED starting
    /\ UNCHANGED <<workflow, stream, admitted, reaping, redrives, faults, cursor,
                   agent>>

\* The service crashes: every poll and every report under way is cut off.
Crash ==
    /\ ServiceCrash
    /\ calls' = {}
    /\ agent' = [w \in Worker |-> IF agent[w].pc = "executing" THEN agent[w] ELSE Idle]
    /\ UNCHANGED cursor

-----------------------------------------------------------------------------
Poll(w) ==
    \/ PollCursor(w)
    \/ PollRead(w)
    \/ PollForeign(w)
    \/ PollClaim(w)
    \/ PollRefused(w)
    \/ PollStatus(w)
    \/ PollSkip(w)
    \/ PollEmpty(w)
    \/ PollReturn(w)

Work(w) ==
    \/ Poll(w)
    \/ \E kind \in {"complete", "retryable", "fatal"} : Report(w, kind)
    \/ ReportReturns(w)

Serve(c) ==
    \/ WorkerComplete(c)
    \/ WorkerFailRead(c)
    \/ WorkerFailCommit(c)

Next ==
    \/ ServiceStep /\ UNCHANGED <<cursor, agent, calls>>
    \/ \E w \in Worker : \/ Work(w)
                         \/ Heartbeat(w)
                         \/ PollReturnLost(w)
                         \/ PollStatusFails(w)
                         \/ PollFails(w)
    \/ \E c \in calls : Serve(c) \/ CallTimesOut(c) \/ CallLost(c)
    \/ Crash

\* Goroutines, the reaper's ticker, DBOS and the workers' loops run; a request
\* to a target ends within its 45 s; and a lease that is not renewed expires.
\* Nobody is obliged to submit, cancel, redrive or renew, and nothing to fail.
Fairness ==
    /\ \A o \in Op : WF_vars(LeaseExpires(o) /\ UNCHANGED <<cursor, agent, calls>>)
    /\ WF_vars((\E id \in starting : StartWorkflow(id))
                 /\ UNCHANGED <<cursor, agent, calls>>)
    /\ WF_vars((\E id \in DOMAIN workflow : EnqueueStep(id))
                 /\ UNCHANGED <<cursor, agent, calls>>)
    /\ WF_vars((ReaperScan \/ \E r \in reaping : Reap(r[1], r[2]))
                 /\ UNCHANGED <<cursor, agent, calls>>)
    /\ \A w \in Worker : WF_vars(Work(w))
    /\ WF_vars(\E c \in calls : Serve(c))

Spec == Init /\ [][Next]_vars /\ Fairness

-----------------------------------------------------------------------------
(* Properties                                                              *)

\* Something will still bring the operation to a worker: a workflow about to
\* be started under a fresh ID or yet to run, one about to publish it, or a
\* message its tenant's cursor has not passed.
Carried(o) ==
    \/ \E id \in starting : id[2] = o /\ id \notin DOMAIN workflow
    \/ \E id \in DOMAIN workflow : id[2] = o /\ workflow[id] = "sleep"
    \/ /\ row[o].status = "QUEUED"
       /\ \/ \E id \in DOMAIN workflow : id[2] = o /\ workflow[id] = "publish"
          \/ \E i \in 1..Len(stream) : i > cursor[TenantOf[o]] /\ stream[i].op = o

\* Where nothing fails, a private operation that waits for a worker and was not
\* redriven is always carried: no skipped message, no deduplicated workflow and
\* no race on the shared cursor strands it.
NeverStranded ==
    \A o \in Op :
        /\ row[o].status \in {"PENDING", "QUEUED", "RETRYING"}
        /\ ExecutionMode[o] = "PRIVATE"
        /\ faults = 0 /\ redrives[o] = 0
        => Carried(o)

\* Completion and failure require the lease's owner; where the request is not
\* late, that also makes it about the attempt the owner holds.
ReportsMatchLease ==
    \A c \in calls : ~c.late /\ OwnsLease(c.op, c.worker) =>
                        row[c.op].attempt = c.attempt /\ c.read \in {0, c.attempt}

\* Lease ownership keeps a stale worker from overwriting a newer attempt: the
\* report that moves a row is about the attempt the row is at.
NoStaleOverwrite ==
    [][\A c \in calls : Serve(c) /\ row' # row => c.attempt = row[c.op].attempt]_vars

\* An operation marked RETRYING will be published again by a workflow.
RetryPublishedAgain ==
    \A o \in Op : row[o].status = "RETRYING" => Carried(o)

\* Every dead-lettering of an operation records an event.
DeadLetterRecorded ==
    [][\A o \in Op :
         row[o].status # "DEAD_LETTERED" /\ row'[o].status = "DEAD_LETTERED" =>
           \E e \in event_outbox' \ event_outbox :
             e[1] = o /\ e[2] = "operation.dead_lettered"]_vars

\* max_attempts is the retry budget: no operation is run more often.
AttemptWithinBudget == \A o \in Op : row[o].attempt <= MaxAttempts[o]

\* Where nothing fails, every submitted operation reaches a terminal status.
EventuallySettled ==
    \A o \in Op : row[o].status = "PENDING" ~> IsTerminal(row[o].status)
=============================================================================

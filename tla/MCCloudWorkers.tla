--------------------------- MODULE MCCloudWorkers ---------------------------
(* Small instances of the Operations service with its cloud workers.         *)
EXTENDS CloudWorkers

CONSTANTS t1, o1, o2, w1, w2,
          Budget    \* max_attempts of every operation

AllOfT1 == [o \in Op |-> t1]
LimitOne == [t \in Tenant |-> 1]
SameBudget == [o \in Op |-> Budget]
AllCloud == [o \in Op |-> "CLOUD"]
O2Private == [o \in Op |-> IF o = o2 THEN "PRIVATE" ELSE "CLOUD"]

\* A private operation was submitted, queued and cancelled before: its message
\* is the first of the stream.  Either one worker runs and something may fail,
\* or two workers run and nothing fails.
O2Cancelled ==
    /\ row = [o \in Op |-> [status |-> IF o = o2 THEN "CANCELLED" ELSE NoRow,
                            attempt |-> 0, owner |-> NoWorker, expired |-> FALSE]]
    /\ workflow = [id \in {<<"operation", o2, 0>>} |-> "done"]
    /\ stream = <<[op |-> o2, attempt |-> 0]>>
    /\ event_outbox = {} /\ admitted = {} /\ starting = {} /\ reaping = {}
    /\ redrives = [o \in Op |-> 0] /\ faults = 0
    /\ group = 0 /\ pending = {} /\ calls = {} /\ emitted = {} /\ late = {}
    /\ \E a \in {Idle, Dead} : agent = [w \in Worker |-> IF w = w1 THEN Idle ELSE a]

OneWorkerOrNoFault == agent[w2] = Dead \/ UNCHANGED faults

MCSpec == O2Cancelled /\ [][Next /\ OneWorkerOrNoFault]_vars /\ Fairness
=============================================================================

-------------------------- MODULE MCPrivateWorkers --------------------------
(* Small instances of the Operations service with its enterprise workers:    *)
(* the cfg chooses operations, workers and bounds, and who belongs to whom.  *)
EXTENDS PrivateWorkers

CONSTANTS t1, t2, o1, o2, w1, w2,
          Budget    \* max_attempts of every operation

AllOfT1 == [o \in Op |-> t1]
O2OfT2 == [o \in Op |-> IF o = o2 THEN t2 ELSE t1]
LimitOne == [t \in Tenant |-> 1]
SameBudget == [o \in Op |-> Budget]
AllPrivate == [o \in Op |-> "PRIVATE"]
WorkersOfT1 == [w \in Worker |-> t1]
=============================================================================

-------------------------- MODULE OperationStatus --------------------------
(***************************************************************************)
(* The status of an operation and the moves the domain package allows      *)
(* (internal/domain/state.go).  "NONE" is the absence of a row in the      *)
(* table operations.operations.                                            *)
(***************************************************************************)
EXTENDS Naturals

Statuses == {"PENDING", "QUEUED", "RUNNING", "SUCCEEDED", "FAILED",
             "RETRYING", "DEAD_LETTERED", "CANCELLED"}

NoRow == "NONE"

\* The domain map, as the set of its true entries.
transitions ==
    ({"PENDING"}  \X {"QUEUED", "CANCELLED"})
    \cup ({"QUEUED"}   \X {"RUNNING", "CANCELLED"})
    \cup ({"RUNNING"}  \X {"SUCCEEDED", "FAILED", "RETRYING",
                           "DEAD_LETTERED", "CANCELLED"})
    \cup ({"FAILED"}   \X {"RETRYING", "DEAD_LETTERED", "CANCELLED"})
    \cup ({"RETRYING"} \X {"QUEUED", "RUNNING", "DEAD_LETTERED", "CANCELLED"})

CanTransition(from, to) == <<from, to>> \in transitions

IsTerminal(s) == s \in {"SUCCEEDED", "DEAD_LETTERED", "CANCELLED"}

\* The statuses the claim statements accept.
Claimable == {"QUEUED", "RETRYING"}

\* The statuses the cancel statement accepts.
Cancellable == {"PENDING", "QUEUED", "RUNNING", "RETRYING", "FAILED"}

\* The statuses the redrive statement accepts.
Redrivable == {"FAILED", "DEAD_LETTERED"}
=============================================================================

-------------------------- MODULE MCUsageDelivery --------------------------
(* Two events, overlapping requests and two replicas of the Usage service.   *)
EXTENDS UsageDelivery
=============================================================================

------------------------- MODULE MCClaimTransaction -------------------------
(* Three operations of a tenant that may run two of them, one operation of a *)
(* tenant that may run one, and two claim requests at once.                  *)
EXTENDS ClaimTransaction

CONSTANTS o1, o2, o3, o4, t1, t2

MCOp == {o1, o2, o3, o4}
MCTenant == {t1, t2}
MCTenantOf == [o \in MCOp |-> IF o = o4 THEN t2 ELSE t1]
MCLimit == [t \in MCTenant |-> IF t = t1 THEN 2 ELSE 1]
=============================================================================

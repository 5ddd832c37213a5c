----------------------------- MODULE MCGateway -----------------------------
(* An instance of Gateway: an administrator creates tenants whose slugs    *)
(* and email clash with one another's and with the demo tenant's; the      *)
(* users of both tenants and the demo key ask too, one with an admin       *)
(* header.                                                                 *)
EXTENDS Gateway, TLC

CONSTANTS adm, dem, t1, admMail, demMail

By(tenant, role) == <<"token", [tenant |-> tenant, role |-> role]>>

Ask(cred, route, slug, email, role) ==
    [cred |-> cred, route |-> route, slug |-> slug, email |-> email, role |-> role]

MCOffered ==
    {Ask(By(adm, "admin"), "tenants", t1, demMail, "customer"),
     Ask(By(adm, "admin"), "tenants", dem, demMail, "customer"),
     Ask(By(dem, "customer"), "tenants", t1, demMail, "admin"),
     Ask(<<"key", DemoKey>>, "keys", t1, demMail, "customer"),
     Ask(By(t1, "customer"), "other", t1, demMail, "customer")}

\* Either the clock advances, or Access is restarted.
MCInit ==
    /\ AccessInit
    /\ \/ now = 0 /\ restarts = MaxRestarts
       \/ now = MaxTime /\ restarts = 0
    /\ counter = [k \in {} |-> 0]
    /\ request = [q \in {} |-> 0]

MCSpec == MCInit /\ [][Next]_vars

Symmetry == Permutations(Request)
=============================================================================

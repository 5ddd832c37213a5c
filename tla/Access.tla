------------------------------- MODULE Access -------------------------------
(***************************************************************************)
(* The Access service (cmd/access/main.go): tenants, users and API keys,   *)
(* the bootstrap that seeds them whenever the process starts, the tokens   *)
(* it signs and the credentials it verifies.  A tenant is named by its     *)
(* slug, a user by its email.  Passwords and hashes are left out: a login  *)
(* with a wrong password changes nothing.                                  *)
(***************************************************************************)
EXTENDS Naturals, Sequences, FiniteSets

CONSTANTS Tenant, Email, Key,
          AdminTenant, AdminEmail,
          DemoTenant,    \* the demo tenant, seeded while its key is configured
          DemoEmail, DemoKey,
          NoTenant

ASSUME SeedsType ==
    /\ AdminTenant \in Tenant /\ DemoTenant \in Tenant \ {AdminTenant}
    /\ AdminEmail \in Email /\ DemoEmail \in Email \ {AdminEmail} /\ DemoKey \in Key
    /\ NoTenant \notin Tenant

VARIABLES tenants,   \* the slugs of access.tenants
          users,     \* each email's row of access.users
          keys,      \* the tenant of each row of access.api_keys
          tokens,    \* the claims of the signed tokens that have not expired
          demo,      \* ACME_API_KEY is set
          boot       \* the statement of the bootstrap that is next

accessVars == <<tenants, users, keys, tokens, demo, boot>>

Roles == {"admin", "customer"}
NoUser == [tenant |-> NoTenant, role |-> "customer"]

AccessTypeOK ==
    /\ tenants \subseteq Tenant
    /\ users \in [Email -> [tenant : Tenant \cup {NoTenant}, role : Roles]]
    /\ keys \in [Key -> Tenant \cup {NoTenant}]
    /\ tokens \subseteq [tenant : Tenant, role : Roles]
    /\ demo \in BOOLEAN
    /\ boot \in 1..6

AccessInit ==
    /\ tenants = {}
    /\ users = [m \in Email |-> NoUser]
    /\ keys = [k \in Key |-> NoTenant]
    /\ tokens = {}
    /\ demo \in BOOLEAN
    /\ boot = 1

Serving == boot = 6

-----------------------------------------------------------------------------
(* bootstrap and seedDemoTenant: one statement after the other             *)

\* INSERT ... ON CONFLICT(slug) DO UPDATE SET name
SeedTenant(t) == tenants' = tenants \cup {t} /\ UNCHANGED <<users, keys>>

\* Mutant: ON CONFLICT(email) DO UPDATE.
SeedUserUpserting(m, t, role) ==
    /\ users' = [users EXCEPT ![m] = [tenant |-> t, role |-> role]]
    /\ UNCHANGED <<tenants, keys>>

\* INSERT ... ON CONFLICT(email) DO NOTHING
SeedUser(m, t, role) ==
    /\ users' = IF users[m] = NoUser
                THEN [users EXCEPT ![m] = [tenant |-> t, role |-> role]] ELSE users
    /\ UNCHANGED <<tenants, keys>>

\* INSERT ... ON CONFLICT(key_hash) DO NOTHING
SeedKey ==
    /\ keys' = IF keys[DemoKey] = NoTenant
               THEN [keys EXCEPT ![DemoKey] = DemoTenant] ELSE keys
    /\ UNCHANGED <<tenants, users>>

Bootstrap ==
    /\ \/ boot = 1 /\ SeedTenant(AdminTenant)
       \/ boot = 2 /\ SeedUser(AdminEmail, AdminTenant, "admin")
       \/ boot = 3 /\ demo /\ SeedTenant(DemoTenant)
       \/ boot = 4 /\ SeedUser(DemoEmail, DemoTenant, "customer")
       \/ boot = 5 /\ SeedKey
       \/ boot = 3 /\ ~demo /\ UNCHANGED <<tenants, users, keys>>
    /\ boot' = IF boot = 3 /\ ~demo THEN 6 ELSE boot + 1
    /\ UNCHANGED <<tokens, demo>>

\* The process stops at any time and starts again, perhaps configured anew.
Restart ==
    /\ boot' = 1
    /\ demo' \in BOOLEAN
    /\ UNCHANGED <<tenants, users, keys, tokens>>

-----------------------------------------------------------------------------
(* The handlers                                                            *)

Login(m) ==
    /\ Serving
    /\ users[m] # NoUser
    /\ tokens' = tokens \cup {users[m]}
    /\ UNCHANGED <<tenants, users, keys, demo, boot>>

\* Eight hours are over.
TokenExpires(k) ==
    /\ tokens' = tokens \ {k}
    /\ UNCHANGED <<tenants, users, keys, demo, boot>>

\* Mutant: a key that no row has is not refused.
PrincipalsUnchecked(cred) ==
    {p \in tokens : cred = <<"token", p>>} \cup
    {[tenant |-> keys[k], role |-> "service"] : k \in {x \in Key : cred = <<"key", x>>}}

\* verify: who a token or an API key stands for; nobody, if it is not valid
Principals(cred) ==
    {p \in tokens : cred = <<"token", p>>} \cup
    {[tenant |-> keys[k], role |-> "service"] :
       k \in {x \in Key : cred = <<"key", x>> /\ keys[x] # NoTenant}}

CreateAPIKey(k, t) ==
    /\ keys[k] = NoTenant
    /\ keys' = [keys EXCEPT ![k] = t]
    /\ UNCHANGED <<tenants, users, tokens, demo, boot>>

\* The commit of createTenant's two inserts
CreateTenant(t, m) ==
    /\ tenants' = tenants \cup {t}
    /\ users' = [users EXCEPT ![m] = [tenant |-> t, role |-> "customer"]]
    /\ UNCHANGED <<keys, tokens, demo, boot>>

-----------------------------------------------------------------------------
(* Properties                                                              *)

\* createTenant and bootstrap: whatever races, is refused or restarts, a tenant
\* of a serving Access has a user of its own.  Only a seed can lack one: when its
\* email was given to another tenant before, or its bootstrap was interrupted and
\* the next one was not configured to seed it.
TenantHasUser ==
    \A t \in tenants :
        \/ \E m \in Email : users[m].tenant = t
        \/ ~Serving /\ t \in {AdminTenant, DemoTenant}
        \/ t = DemoTenant /\ (~demo \/ users[DemoEmail].tenant \notin {DemoTenant, NoTenant})

\* Only the bootstrap makes an admin, it has made one before anything is
\* served, and no key, token or user is of a tenant that is not there.
GrantsAreKept ==
    /\ Serving => users[AdminEmail] = [tenant |-> AdminTenant, role |-> "admin"]
    /\ \A m \in Email \ {AdminEmail} : users[m].role = "customer"
    /\ {users[m].tenant : m \in Email} \cup {keys[k] : k \in Key}
          \subseteq tenants \cup {NoTenant}
    /\ tokens \subseteq {users[m] : m \in Email}
=============================================================================

----------------------------- MODULE GatewayProofs -----------------------------
(***************************************************************************)
(* Safety of the gateway and of the Access service behind it, for any      *)
(* number of tenants, users, keys and requests, whatever clients send.     *)
(***************************************************************************)
EXTENDS Gateway, FiniteSetTheorems, FunctionTheorems, TLAPS

Admin == [tenant |-> AdminTenant, role |-> "admin"]

\* How far the bootstrap has come, as the tables show it
Seeded ==
    /\ users[AdminEmail] \in {NoUser, Admin}
    /\ boot >= 2 => AdminTenant \in tenants
    /\ boot >= 3 => users[AdminEmail] = Admin
    /\ boot \in {4, 5} => demo /\ DemoTenant \in tenants
    /\ boot >= 5 /\ demo => users[DemoEmail] # NoUser

\* Users, keys and tokens are of tenants that are there, and a tenant that is
\* no seed was created with its user.
TablesOK ==
    /\ \A m \in Email \ {AdminEmail} : users[m].role = "customer"
    /\ \A m \in Email : users[m].tenant \in tenants \cup {NoTenant}
    /\ \A k \in Key : keys[k] \in tenants \cup {NoTenant}
    /\ \A t \in tenants \ {AdminTenant, DemoTenant} : \E m \in Email : users[m].tenant = t
    /\ \A p \in tokens : \E m \in Email : users[m] = p

AccessInv == AccessTypeOK /\ Seeded /\ TablesOK

\* What a request goes on as is a user's, or a key's.
Granted(q) ==
    /\ request[q].tenant \in tenants
    /\ \/ \E m \in Email : users[m] = [tenant |-> request[q].tenant, role |-> request[q].role]
       \/ request[q].role = "service" /\ \E k \in Key : keys[k] = request[q].tenant

\* An open transaction of createTenant has a running service, and an email that
\* nobody else takes.
RequestInv ==
    /\ DOMAIN request \subseteq Request
    /\ request \in [DOMAIN request -> Requests]
    /\ \A q \in DOMAIN request :
          /\ request[q].pc \notin {"new", "refused"} => Granted(q)
          /\ request[q].pc \in {"tenant", "user"} => Serving
          /\ request[q].pc = "user" =>
                /\ users[request[q].in.email] = NoUser
                /\ \A p \in DOMAIN request : p # q /\ request[p].pc = "user" =>
                      request[p].in.email # request[q].in.email

ClockOK ==
    /\ now \in 0..MaxTime
    /\ restarts \in 0..MaxRestarts
    /\ \A q \in DOMAIN request :
          /\ request[q].at <= now
          /\ request[q].pc \in {"new", "authenticated", "counting"} => request[q].count = 0
          /\ request[q].pc = "counting" => now <= request[q].at + MaxDelay

\* A counter of a window was set by a request of that window, and lives for TTL
\* after it at least.
CounterOK ==
    \A k \in DOMAIN counter :
        /\ k \in Tenant \X Nat
        /\ counter[k] \in [n : Nat, expires : Nat]
        /\ \E b \in 0..MaxTime : b \div Window = k[2] /\ b + TTL <= counter[k].expires

\* A counted request has a number of its own, not above its counter's.
CountedOK ==
    \A q \in DOMAIN request : request[q].count > 0 =>
        /\ CounterKey(q) \in DOMAIN counter
        /\ request[q].count <= counter[CounterKey(q)].n
        /\ \A p \in DOMAIN request :
              request[p].count = request[q].count /\ CounterKey(p) = CounterKey(q) => p = q

CountInv == ClockOK /\ CounterOK /\ CountedOK

IInv == AccessInv /\ RequestInv /\ CountInv

-----------------------------------------------------------------------------
(* Access                                                                  *)

\* A user stays as it is, a key stays its tenant's, and no tenant goes.
TablesGrow ==
    /\ tenants \subseteq tenants'
    /\ \A m \in Email : users[m] # NoUser => users'[m] = users[m]
    /\ \A k \in Key : keys[k] # NoTenant => keys'[k] = keys[k]

\* A row without a tenant is no user.
LEMMA NoTenantNoUser ==
    ASSUME AccessTypeOK, Seeded, TablesOK, NEW m \in Email, users[m].tenant = NoTenant
    PROVE  users[m] = NoUser
  <1>1. CASE m = AdminEmail
    BY <1>1, SeedsType DEF Seeded, Admin
  <1>2. CASE m # AdminEmail
    <2>1. users[m] \in [tenant : Tenant \cup {NoTenant}, role : Roles]
      BY DEF AccessTypeOK
    <2>2. users[m].role = "customer" /\ users[m].tenant = NoTenant
      BY <1>2 DEF TablesOK
    <2>. QED
      BY <2>1, <2>2 DEF NoUser
  <1>. QED
    BY <1>1, <1>2

\* A user is added to a tenant, or is there already.
LEMMA UserAdded ==
    ASSUME AccessTypeOK, TablesOK, NEW m \in Email, NEW t \in Tenant, NEW role \in Roles,
           m # AdminEmail => role = "customer",
           \/ users' = users
           \/ users[m] = NoUser /\ users' = [users EXCEPT ![m] = [tenant |-> t, role |-> role]],
           tenants' \in {tenants, tenants \cup {t}}, t \in tenants',
           tenants' = tenants \/ t \in {AdminTenant, DemoTenant}
                              \/ users' = [users EXCEPT ![m] = [tenant |-> t, role |-> role]],
           UNCHANGED <<keys, tokens>>
    PROVE  /\ TablesOK' /\ TablesGrow
           /\ users' \in [Email -> [tenant : Tenant \cup {NoTenant}, role : Roles]]
  <1>. DEFINE u == [tenant |-> t, role |-> role]
  <1>1. /\ users \in [Email -> [tenant : Tenant \cup {NoTenant}, role : Roles]]
        /\ tokens \subseteq [tenant : Tenant, role : Roles]
        /\ u \in [tenant : Tenant \cup {NoTenant}, role : Roles]
        /\ u.tenant = t /\ u.role = role
    BY DEF AccessTypeOK
  <1>2. \A x \in Email : \/ users'[x] = users[x]
                         \/ x = m /\ users[x] = NoUser /\ users'[x] = u
    BY <1>1
  <1>3. users' = [users EXCEPT ![m] = u] => users'[m] = u
    BY <1>1
  <1>4. users' \in [Email -> [tenant : Tenant \cup {NoTenant}, role : Roles]]
    BY <1>1
  <1>. HIDE DEF u
  <1>5. TablesGrow
    BY <1>2 DEF TablesGrow
  <1>6. \A x \in Email \ {AdminEmail} : users'[x].role = "customer"
    BY <1>1, <1>2 DEF TablesOK
  <1>7. \A x \in Email : users'[x].tenant \in tenants' \cup {NoTenant}
    BY <1>1, <1>2 DEF TablesOK
  <1>8. \A k \in Key : keys'[k] \in tenants' \cup {NoTenant}
    BY DEF TablesOK
  <1>9. \A p \in tokens' : \E x \in Email : users'[x] = p
    <2>1. ASSUME NEW p \in tokens
          PROVE  \E x \in Email : users'[x] = p
      <3>1. PICK x \in Email : users[x] = p
        BY <2>1 DEF TablesOK
      <3>2. users[x] # NoUser
        BY <1>1, <3>1, SeedsType DEF NoUser
      <3>. QED
        BY <1>2, <3>1, <3>2
    <2>. QED
      BY <2>1
  <1>10. ASSUME NEW s \in tenants' \ {AdminTenant, DemoTenant}
         PROVE  \E x \in Email : users'[x].tenant = s
    <2>1. CASE s \in tenants
      <3>1. PICK x \in Email : users[x].tenant = s
        BY <2>1 DEF TablesOK
      <3>2. s # NoTenant
        BY <2>1, SeedsType DEF AccessTypeOK
      <3>3. users[x] # NoUser
        BY <3>1, <3>2 DEF NoUser
      <3>. QED
        BY <1>2, <3>1, <3>3
    <2>2. CASE s \notin tenants
      BY <1>1, <1>3, <2>2 DEF u
    <2>. QED
      BY <2>1, <2>2
  <1>. QED
    BY <1>4, <1>5, <1>6, <1>7, <1>8, <1>9, <1>10 DEF TablesOK

\* bootstrap: each statement finds what the ones before it have seeded.
LEMMA BootstrapInv ==
    ASSUME AccessInv, Bootstrap
    PROVE  AccessInv' /\ TablesGrow
  <1>. USE SeedsType DEF AccessInv
  <1>1. /\ UNCHANGED <<tokens, demo>> /\ boot \in 1..5
        /\ boot' = IF boot = 3 /\ ~demo THEN 6 ELSE boot + 1
        /\ boot' \in 1..6
    BY DEF Bootstrap, AccessTypeOK
  <1>2. /\ tenants \subseteq Tenant /\ keys \in [Key -> Tenant \cup {NoTenant}]
        /\ users \in [Email -> [tenant : Tenant \cup {NoTenant}, role : Roles]]
        /\ tokens \subseteq [tenant : Tenant, role : Roles] /\ demo \in BOOLEAN
    BY DEF AccessTypeOK
  <1>3. CASE boot = 1
    <2>1. tenants' = tenants \cup {AdminTenant} /\ UNCHANGED <<users, keys>> /\ boot' = 2
      BY <1>1, <1>3 DEF Bootstrap, SeedTenant
    <2>2. TablesOK' /\ TablesGrow
      BY <1>1, <2>1 DEF TablesOK, TablesGrow
    <2>3. AccessTypeOK' /\ Seeded'
      BY <1>1, <1>2, <2>1 DEF AccessTypeOK, Seeded, Admin, NoUser
    <2>. QED
      BY <2>2, <2>3
  <1>4. CASE boot = 2
    <2>1. /\ users' = IF users[AdminEmail] = NoUser
                      THEN [users EXCEPT ![AdminEmail] = Admin] ELSE users
          /\ UNCHANGED <<tenants, keys>> /\ boot' = 3
      BY <1>1, <1>4 DEF Bootstrap, SeedUser, Admin
    <2>2. AdminTenant \in tenants /\ users[AdminEmail] \in {NoUser, Admin}
      BY <1>4 DEF Seeded
    <2>3. /\ TablesOK' /\ TablesGrow
          /\ users' \in [Email -> [tenant : Tenant \cup {NoTenant}, role : Roles]]
      BY <1>1, <1>2, <2>1, <2>2, UserAdded DEF Admin, Roles
    <2>4. AccessTypeOK'
      BY <1>1, <1>2, <2>1, <2>3 DEF AccessTypeOK
    <2>5. Seeded'
      BY <1>2, <2>1, <2>2 DEF Seeded
    <2>. QED
      BY <2>3, <2>4, <2>5
  <1>5. CASE boot = 3 /\ demo
    <2>1. tenants' = tenants \cup {DemoTenant} /\ UNCHANGED <<users, keys>> /\ boot' = 4
      BY <1>1, <1>5 DEF Bootstrap, SeedTenant
    <2>2. TablesOK' /\ TablesGrow
      BY <1>1, <2>1 DEF TablesOK, TablesGrow
    <2>3. AccessTypeOK' /\ Seeded'
      BY <1>1, <1>2, <1>5, <2>1 DEF AccessTypeOK, Seeded, Admin, NoUser
    <2>. QED
      BY <2>2, <2>3
  <1>6. CASE boot = 3 /\ ~demo
    <2>1. UNCHANGED <<tenants, users, keys>> /\ boot' = 6
      BY <1>1, <1>6 DEF Bootstrap
    <2>2. TablesOK' /\ TablesGrow
      BY <1>1, <2>1 DEF TablesOK, TablesGrow
    <2>3. AccessTypeOK' /\ Seeded'
      BY <1>1, <1>2, <1>6, <2>1 DEF AccessTypeOK, Seeded, Admin, NoUser
    <2>. QED
      BY <2>2, <2>3
  <1>7. CASE boot = 4
    <2>. DEFINE u == [tenant |-> DemoTenant, role |-> "customer"]
    <2>1. /\ users' = IF users[DemoEmail] = NoUser
                      THEN [users EXCEPT ![DemoEmail] = u] ELSE users
          /\ UNCHANGED <<tenants, keys>> /\ boot' = 5
      BY <1>1, <1>7 DEF Bootstrap, SeedUser
    <2>2. demo /\ DemoTenant \in tenants /\ AdminTenant \in tenants
          /\ users[AdminEmail] = Admin
      BY <1>7 DEF Seeded
    <2>3. /\ TablesOK' /\ TablesGrow
          /\ users' \in [Email -> [tenant : Tenant \cup {NoTenant}, role : Roles]]
      BY <1>1, <1>2, <2>1, <2>2, UserAdded DEF Roles
    <2>4. AccessTypeOK'
      BY <1>1, <1>2, <2>1, <2>3 DEF AccessTypeOK
    <2>5. users'[AdminEmail] = Admin /\ users'[DemoEmail] # NoUser
      BY <1>2, <2>1, <2>2 DEF NoUser
    <2>6. Seeded'
      BY <1>1, <2>1, <2>2, <2>5 DEF Seeded, Admin, NoUser
    <2>. QED
      BY <2>3, <2>4, <2>6
  <1>8. CASE boot = 5
    <2>1. /\ keys' = IF keys[DemoKey] = NoTenant
                     THEN [keys EXCEPT ![DemoKey] = DemoTenant] ELSE keys
          /\ UNCHANGED <<tenants, users>> /\ boot' = 6
      BY <1>1, <1>8 DEF Bootstrap, SeedKey
    <2>2. demo /\ DemoTenant \in tenants
      BY <1>8 DEF Seeded
    <2>3. \A k \in Key : \/ keys'[k] = keys[k]
                         \/ keys[k] = NoTenant /\ keys'[k] = DemoTenant
      BY <1>2, <2>1
    <2>4. TablesOK' /\ TablesGrow
      BY <1>1, <2>1, <2>2, <2>3 DEF TablesOK, TablesGrow
    <2>5. AccessTypeOK' /\ Seeded'
      BY <1>1, <1>2, <1>8, <2>1 DEF AccessTypeOK, Seeded, Admin, NoUser
    <2>. QED
      BY <2>4, <2>5
  <1>. QED
    BY <1>1, <1>2, <1>3, <1>4, <1>5, <1>6, <1>7, <1>8

\* login signs a token of a user; a token expires.
LEMMA TokenInv ==
    ASSUME AccessInv,
           \/ \E m \in Email : Login(m)
           \/ \E k \in tokens : TokenExpires(k)
    PROVE  AccessInv' /\ TablesGrow /\ UNCHANGED boot
  <1>. USE DEF AccessInv
  <1>1. UNCHANGED <<tenants, users, keys, demo, boot>>
    BY DEF Login, TokenExpires
  <1>2. \A p \in tokens' : p \in tokens \/ \E m \in Email : p = users[m] /\ users[m] # NoUser
    BY DEF Login, TokenExpires
  <1>3. ASSUME NEW m \in Email, users[m] # NoUser
        PROVE  users[m] \in [tenant : Tenant, role : Roles]
    <2>1. users[m].tenant # NoTenant /\ users[m] \in [tenant : Tenant \cup {NoTenant}, role : Roles]
      BY <1>3, NoTenantNoUser DEF AccessTypeOK
    <2>. QED
      BY <2>1
  <1>4. AccessTypeOK' /\ Seeded'
    BY <1>1, <1>2, <1>3 DEF AccessTypeOK, Seeded, Admin, NoUser
  <1>5. TablesOK'
    BY <1>1, <1>2 DEF TablesOK
  <1>. QED
    BY <1>1, <1>4, <1>5 DEF TablesGrow

\* createTenant's commit: the user is new, and no administrator.
LEMMA CreateTenantInv ==
    ASSUME AccessInv, Serving, NEW t \in Tenant, NEW m \in Email, users[m] = NoUser,
           CreateTenant(t, m)
    PROVE  AccessInv' /\ TablesGrow /\ UNCHANGED boot
  <1>. USE DEF AccessInv
  <1>1. users[AdminEmail] = Admin /\ AdminTenant \in tenants /\ m # AdminEmail
    BY SeedsType DEF Seeded, Serving, Admin, NoUser
  <1>2. /\ tenants' = tenants \cup {t}
        /\ users' = [users EXCEPT ![m] = [tenant |-> t, role |-> "customer"]]
        /\ UNCHANGED <<keys, tokens, demo, boot>>
    BY DEF CreateTenant
  <1>3. /\ TablesOK' /\ TablesGrow
        /\ users' \in [Email -> [tenant : Tenant \cup {NoTenant}, role : Roles]]
    BY <1>2, UserAdded DEF Roles
  <1>4. AccessTypeOK'
    BY <1>2, <1>3 DEF AccessTypeOK
  <1>5. users'[AdminEmail] = Admin /\ (users[DemoEmail] # NoUser => users'[DemoEmail] # NoUser)
    BY <1>1, <1>3, SeedsType DEF TablesGrow, Admin, NoUser
  <1>6. Seeded'
    BY <1>1, <1>2, <1>5 DEF Seeded, Serving, Admin, NoUser
  <1>. QED
    BY <1>2, <1>3, <1>4, <1>6

\* createAPIKey, for a tenant that is there
LEMMA CreateKeyInv ==
    ASSUME AccessInv, NEW k \in Key, NEW t \in tenants, CreateAPIKey(k, t)
    PROVE  AccessInv' /\ TablesGrow /\ UNCHANGED boot
  <1>. USE DEF AccessInv
  <1>1. /\ keys[k] = NoTenant /\ keys' = [keys EXCEPT ![k] = t]
        /\ UNCHANGED <<tenants, users, tokens, demo, boot>>
    BY DEF CreateAPIKey
  <1>2. keys \in [Key -> Tenant \cup {NoTenant}] /\ t \in Tenant
    BY DEF AccessTypeOK
  <1>3. \A x \in Key : \/ keys'[x] = keys[x]
                       \/ keys[x] = NoTenant /\ keys'[x] = t
    BY <1>1, <1>2
  <1>4. TablesOK' /\ TablesGrow
    BY <1>1, <1>3 DEF TablesOK, TablesGrow
  <1>5. AccessTypeOK' /\ Seeded'
    BY <1>1, <1>2 DEF AccessTypeOK, Seeded, Admin, NoUser
  <1>. QED
    BY <1>1, <1>4, <1>5

\* A restart loses nothing that is committed.
LEMMA RestartInv ==
    ASSUME AccessInv, Restart
    PROVE  AccessInv' /\ TablesGrow
  <1>1. /\ boot' = 1 /\ demo' \in BOOLEAN /\ UNCHANGED <<tenants, users, keys, tokens>>
    BY DEF Restart
  <1>2. AccessTypeOK' /\ Seeded'
    BY <1>1 DEF AccessInv, AccessTypeOK, Seeded, Admin, NoUser
  <1>3. TablesOK' /\ TablesGrow
    BY <1>1 DEF AccessInv, TablesOK, TablesGrow
  <1>. QED
    BY <1>2, <1>3 DEF AccessInv

LEMMA AccessKept ==
    ASSUME AccessInv, UNCHANGED accessVars
    PROVE  AccessInv' /\ TablesGrow /\ UNCHANGED boot
  <1>1. UNCHANGED <<tenants, users, keys, tokens, demo, boot>>
    BY DEF accessVars
  <1>. QED
    BY <1>1 DEF AccessInv, AccessTypeOK, Seeded, TablesOK, TablesGrow, Admin, NoUser

\* verify: who is let in is a user, or comes with a tenant's key.
LEMMA PrincipalGranted ==
    ASSUME AccessInv, NEW cred, NEW p \in Principals(cred)
    PROVE  /\ p.tenant \in tenants /\ p.tenant \in Tenant
           /\ p.role \in Roles \cup {"service"}
           /\ \/ \E m \in Email : users[m] = [tenant |-> p.tenant, role |-> p.role]
              \/ p.role = "service" /\ \E k \in Key : keys[k] = p.tenant
  <1>. USE DEF AccessInv
  <1>1. CASE p \in tokens
    <2>1. p \in [tenant : Tenant, role : Roles]
      BY <1>1 DEF AccessTypeOK
    <2>2. PICK m \in Email : users[m] = p
      BY <1>1 DEF TablesOK
    <2>3. p.tenant \in tenants
      BY <2>1, <2>2, SeedsType DEF TablesOK
    <2>4. p = [tenant |-> p.tenant, role |-> p.role]
      BY <2>1
    <2>. QED
      BY <2>1, <2>2, <2>3, <2>4
  <1>2. ASSUME NEW k \in Key, keys[k] # NoTenant, p = [tenant |-> keys[k], role |-> "service"]
        PROVE  /\ p.tenant \in tenants /\ p.tenant \in Tenant
               /\ p.role = "service" /\ \E x \in Key : keys[x] = p.tenant
    BY <1>2 DEF TablesOK, AccessTypeOK
  <1>. QED
    BY <1>1, <1>2 DEF Principals

\* A grant is not taken back.
LEMMA GrantedStays ==
    ASSUME AccessInv, TablesGrow, NEW q, Granted(q), request'[q].tenant = request[q].tenant,
           request'[q].role = request[q].role
    PROVE  Granted(q)'
  <1>1. request[q].tenant \in Tenant /\ request[q].tenant # NoTenant
    BY SeedsType DEF Granted, AccessInv, AccessTypeOK
  <1>2. request[q].tenant \in tenants'
    BY DEF Granted, TablesGrow
  <1>3. ASSUME NEW m \in Email,
               users[m] = [tenant |-> request[q].tenant, role |-> request[q].role]
        PROVE  users'[m] = users[m]
    BY <1>1, <1>3 DEF TablesGrow, NoUser
  <1>4. ASSUME NEW k \in Key, keys[k] = request[q].tenant
        PROVE  keys'[k] = keys[k]
    BY <1>1, <1>4 DEF TablesGrow
  <1>. QED
    BY <1>2, <1>3, <1>4 DEF Granted

-----------------------------------------------------------------------------
(* Requests                                                                *)

\* One request goes on.
LEMMA RequestStep ==
    ASSUME AccessInv, RequestInv, TablesGrow, UNCHANGED boot,
           NEW q \in DOMAIN request, NEW a \in Requests, request' = [request EXCEPT ![q] = a],
           a.pc \notin {"new", "refused"} =>
              \/ /\ a.tenant = request[q].tenant /\ a.role = request[q].role
                 /\ request[q].pc \notin {"new", "refused"}
              \/ Granted(q)',
           a.pc \in {"tenant", "user"} => Serving,
           a.pc = "user" =>
              /\ users'[a.in.email] = NoUser
              /\ \A p \in DOMAIN request : p # q /\ request[p].pc = "user" =>
                    request[p].in.email # a.in.email,
           \A p \in DOMAIN request : p # q /\ request[p].pc = "user" =>
              users'[request[p].in.email] = users[request[p].in.email]
    PROVE  RequestInv'
  <1>1. /\ request'[q] = a /\ DOMAIN request' = DOMAIN request
        /\ \A p \in DOMAIN request \ {q} : request'[p] = request[p]
    OBVIOUS
  <1>2. DOMAIN request' \subseteq Request /\ request' \in [DOMAIN request' -> Requests]
    BY DEF RequestInv
  <1>3. Serving' = Serving
    BY DEF Serving
  <1>4. ASSUME NEW p \in DOMAIN request', request'[p].pc \notin {"new", "refused"}
        PROVE  Granted(p)'
    <2>1. CASE p = q /\ Granted(q)'
      BY <2>1
    <2>2. CASE /\ request[p].pc \notin {"new", "refused"}
               /\ request'[p].tenant = request[p].tenant
               /\ request'[p].role = request[p].role
      <3>1. Granted(p)
        BY <1>1, <2>2 DEF RequestInv
      <3>. QED
        BY <2>2, <3>1, GrantedStays
    <2>. QED
      BY <1>1, <1>4, <2>1, <2>2
  <1>5. ASSUME NEW p \in DOMAIN request', request'[p].pc \in {"tenant", "user"}
        PROVE  Serving'
    BY <1>1, <1>3, <1>5 DEF RequestInv
  <1>6. ASSUME NEW p \in DOMAIN request', request'[p].pc = "user"
        PROVE  /\ users'[request'[p].in.email] = NoUser
               /\ \A x \in DOMAIN request' : x # p /\ request'[x].pc = "user" =>
                     request'[x].in.email # request'[p].in.email
    BY <1>1, <1>6 DEF RequestInv
  <1>. QED
    BY <1>2, <1>4, <1>5, <1>6 DEF RequestInv

\* The tables change, and no request.
LEMMA RequestsKept ==
    ASSUME AccessInv, RequestInv, TablesGrow, UNCHANGED request,
           UNCHANGED <<users, boot>> \/ ~Serving
    PROVE  RequestInv'
  <1>1. ASSUME NEW q \in DOMAIN request, request[q].pc \notin {"new", "refused"}
        PROVE  Granted(q)'
    <2>1. Granted(q)
      BY <1>1 DEF RequestInv
    <2>. QED
      BY <2>1, GrantedStays
  <1>2. ASSUME NEW q \in DOMAIN request, request[q].pc \in {"tenant", "user"}
        PROVE  Serving' /\ UNCHANGED users
    BY <1>2 DEF RequestInv, Serving
  <1>. QED
    BY <1>1, <1>2 DEF RequestInv

\* A request under way keeps its fields.
LEMMA RequestFields ==
    ASSUME RequestInv, NEW q \in DOMAIN request
    PROVE  /\ request[q] \in Requests /\ request[q].in \in Input
           /\ request[q].in.email \in Email /\ request[q].in.slug \in Tenant
  BY OfferedType DEF RequestInv, Requests, Input

\* authenticate, the clock and the counter, and the failures of Access
LEMMA GatewayRequestInv ==
    ASSUME IInv, NEW q \in DOMAIN request,
           \/ Authenticate(q) \/ ReadClock(q) \/ Increment(q) \/ LimiterUnavailable(q)
           \/ BadGateway(q) \/ CreateTenantFails(q)
    PROVE  AccessInv' /\ RequestInv'
  <1>. USE DEF IInv
  <1>1. UNCHANGED accessVars
    BY DEF Authenticate, ReadClock, Increment, LimiterUnavailable, BadGateway,
           CreateTenantFails
  <1>2. AccessInv' /\ TablesGrow /\ UNCHANGED <<tenants, users, keys, boot>>
    BY <1>1, AccessKept DEF accessVars
  <1>3. request[q] \in Requests
    BY RequestFields
  <1>4. ASSUME NEW a \in Requests, request' = [request EXCEPT ![q] = a],
               \/ a.pc = "refused"
               \/ a.pc = "authenticated" /\ Granted(q)'
               \/ /\ a.pc \in {"counting", "forwarded"}
                  /\ request[q].pc \notin {"new", "refused"}
                  /\ a.tenant = request[q].tenant /\ a.role = request[q].role
        PROVE  RequestInv'
    BY <1>2, <1>4, RequestStep
  <1>5. CASE To(q, "refused")
    <2>. DEFINE a == [request[q] EXCEPT !.pc = "refused"]
    <2>1. a \in Requests /\ a.pc = "refused" /\ request' = [request EXCEPT ![q] = a]
      BY <1>3, <1>5 DEF To, Requests
    <2>. QED
      BY <1>2, <1>4, <2>1
  <1>6. ASSUME NEW p \in Principals(request[q].in.cred),
               request' = [request EXCEPT ![q] = HeadersOf(q, p)]
        PROVE  AccessInv' /\ RequestInv'
    <2>. DEFINE a == HeadersOf(q, p)
    <2>1. /\ p.tenant \in tenants /\ p.tenant \in Tenant /\ p.role \in Roles \cup {"service"}
          /\ \/ \E m \in Email : users[m] = [tenant |-> p.tenant, role |-> p.role]
             \/ p.role = "service" /\ \E k \in Key : keys[k] = p.tenant
      BY PrincipalGranted
    <2>2. /\ a \in Requests /\ a.pc = "authenticated" /\ a.tenant = p.tenant
          /\ a.role = p.role
      BY <1>3, <2>1 DEF HeadersOf, Requests
    <2>3. request'[q] = a
      BY <1>6
    <2>4. Granted(q)'
      BY <1>2, <2>1, <2>2, <2>3 DEF Granted
    <2>. HIDE DEF a
    <2>. QED
      BY <1>2, <1>4, <1>6, <2>2, <2>4 DEF a
  <1>7. CASE ReadClock(q)
    <2>. DEFINE a == [request[q] EXCEPT !.pc = "counting", !.at = now]
    <2>1. /\ request' = [request EXCEPT ![q] = a] /\ a \in Requests
          /\ a.pc = "counting" /\ a.tenant = request[q].tenant /\ a.role = request[q].role
          /\ request[q].pc = "authenticated"
      BY <1>3, <1>7 DEF ReadClock, Requests, CountInv, ClockOK
    <2>. HIDE DEF a
    <2>. QED
      BY <1>2, <1>4, <2>1
  <1>8. CASE Increment(q)
    <2>1. PICK pc \in {"refused", "forwarded"}, n \in {Count(CounterKey(q))} :
             request' = [request EXCEPT ![q].count = n, ![q].pc = pc]
      BY <1>8 DEF Increment
    <2>2. n \in Nat
      BY <2>1 DEF Count, CountInv, CounterOK
    <2>. DEFINE a == [request[q] EXCEPT !.count = n, !.pc = pc]
    <2>3. /\ request' = [request EXCEPT ![q] = a] /\ a \in Requests
          /\ a.pc = pc /\ a.tenant = request[q].tenant /\ a.role = request[q].role
          /\ request[q].pc = "counting"
      BY <1>3, <1>8, <2>1, <2>2 DEF Increment, Requests
    <2>. HIDE DEF a
    <2>. QED
      BY <1>2, <1>4, <2>1, <2>3
  <1>. QED
    BY <1>5, <1>6, <1>7, <1>8 DEF Authenticate, LimiterUnavailable, BadGateway,
                                  CreateTenantFails

\* createTenant's statements and createAPIKey
LEMMA AccessRequestInv ==
    ASSUME IInv, NEW q \in DOMAIN request,
           InsertTenant(q) \/ InsertUser(q) \/ CommitTenant(q) \/ InsertKey(q)
    PROVE  AccessInv' /\ RequestInv'
  <1>. USE DEF IInv
  <1>1. /\ request[q] \in Requests
        /\ request[q].in.email \in Email /\ request[q].in.slug \in Tenant
    BY RequestFields
  <1>2. request[q].pc \notin {"new", "refused"}
    BY DEF InsertTenant, InsertUser, CommitTenant, InsertKey
  <1>3. ASSUME NEW pc \in {"tenant", "user", "done", "refused"}, To(q, pc)
        PROVE  \E a \in Requests : /\ request' = [request EXCEPT ![q] = a]
                                   /\ a.pc = pc /\ a.in = request[q].in
                                   /\ a.tenant = request[q].tenant /\ a.role = request[q].role
    <2>. DEFINE a == [request[q] EXCEPT !.pc = pc]
    <2>1. /\ a \in Requests /\ a.pc = pc /\ a.in = request[q].in
          /\ a.tenant = request[q].tenant /\ a.role = request[q].role
      BY <1>1 DEF Requests
    <2>2. request' = [request EXCEPT ![q] = a]
      BY <1>3 DEF To
    <2>. HIDE DEF a
    <2>. QED
      BY <2>1, <2>2
  <1>4. CASE InsertTenant(q) \/ InsertUser(q)
    <2>1. UNCHANGED accessVars
      BY <1>4 DEF InsertTenant, InsertUser
    <2>2. AccessInv' /\ TablesGrow /\ UNCHANGED <<users, boot>>
      BY <2>1, AccessKept DEF accessVars
    <2>3. PICK pc \in {"tenant", "user", "refused"} :
             /\ To(q, pc)
             /\ pc \in {"tenant", "user"} => Serving
             /\ pc = "user" => /\ users[request[q].in.email] = NoUser
                               /\ \A p \in DOMAIN request : request[p].pc = "user" =>
                                     request[p].in.email # request[q].in.email
      BY <1>4 DEF InsertTenant, InsertUser, RequestInv
    <2>4. PICK a \in Requests : /\ request' = [request EXCEPT ![q] = a]
                                /\ a.pc = pc /\ a.in = request[q].in
                                /\ a.tenant = request[q].tenant /\ a.role = request[q].role
      BY <1>3, <2>3
    <2>. QED
      BY <1>2, <2>2, <2>3, <2>4, RequestStep
  <1>5. CASE CommitTenant(q)
    <2>1. /\ Serving /\ users[request[q].in.email] = NoUser
          /\ \A p \in DOMAIN request : p # q /\ request[p].pc = "user" =>
                request[p].in.email # request[q].in.email
      BY <1>5 DEF CommitTenant, RequestInv
    <2>2. AccessInv' /\ TablesGrow /\ UNCHANGED boot
      BY <1>1, <1>5, <2>1, CreateTenantInv DEF CommitTenant
    <2>3. PICK a \in Requests : /\ request' = [request EXCEPT ![q] = a] /\ a.pc = "done"
                                /\ a.tenant = request[q].tenant /\ a.role = request[q].role
      BY <1>3, <1>5 DEF CommitTenant
    <2>4. \A p \in DOMAIN request : p # q /\ request[p].pc = "user" =>
             users'[request[p].in.email] = users[request[p].in.email]
      <3>1. /\ users' = [users EXCEPT ![request[q].in.email] =
                           [tenant |-> request[q].in.slug, role |-> "customer"]]
            /\ users \in [Email -> [tenant : Tenant \cup {NoTenant}, role : Roles]]
        BY <1>5 DEF CommitTenant, CreateTenant, AccessInv, AccessTypeOK
      <3>. QED
        BY <2>1, <3>1, RequestFields
    <2>. QED
      BY <1>2, <2>2, <2>3, <2>4, RequestStep
  <1>6. CASE InsertKey(q)
    <2>1. PICK k \in Key : CreateAPIKey(k, request[q].tenant)
      BY <1>6 DEF InsertKey
    <2>2. request[q].tenant \in tenants
      BY <1>2 DEF RequestInv, Granted
    <2>3. AccessInv' /\ TablesGrow /\ UNCHANGED <<users, boot>>
      BY <2>1, <2>2, CreateKeyInv DEF CreateAPIKey
    <2>4. PICK a \in Requests : /\ request' = [request EXCEPT ![q] = a] /\ a.pc = "done"
                                /\ a.tenant = request[q].tenant /\ a.role = request[q].role
      BY <1>3, <1>6 DEF InsertKey
    <2>. QED
      BY <1>2, <2>3, <2>4, RequestStep
  <1>. QED
    BY <1>4, <1>5, <1>6

\* A new request is not authenticated, whatever role it claims.
LEMMA ArriveInv ==
    ASSUME IInv, NEW q \in Request, NEW input \in Offered, Arrive(q, input)
    PROVE  AccessInv' /\ RequestInv'
  <1>. USE DEF IInv
  <1>1. AccessInv' /\ TablesGrow /\ UNCHANGED <<users, boot>>
    BY AccessKept DEF Arrive, accessVars
  <1>. DEFINE a == [pc |-> "new", in |-> input, tenant |-> NoTenant, role |-> input.role,
                    at |-> 0, count |-> 0]
  <1>2. a \in Requests /\ a.pc = "new"
    <2>1. input.role \in Roles /\ 0 \in 0..MaxTime
      BY OfferedType, RateType DEF Input
    <2>. QED
      BY <2>1 DEF Requests
  <1>3. /\ DOMAIN request' = DOMAIN request \cup {q} /\ q \notin DOMAIN request
        /\ request'[q] = a /\ \A p \in DOMAIN request : request'[p] = request[p]
        /\ request' = [p \in DOMAIN request' |-> request'[p]]
    BY DEF Arrive
  <1>. HIDE DEF a
  <1>4. DOMAIN request' \subseteq Request /\ request' \in [DOMAIN request' -> Requests]
    BY <1>2, <1>3 DEF RequestInv
  <1>5. ASSUME NEW p \in DOMAIN request', request'[p].pc \notin {"new", "refused"}
        PROVE  Granted(p)'
    <2>1. p \in DOMAIN request /\ request'[p] = request[p]
      BY <1>2, <1>3, <1>5
    <2>2. Granted(p)
      BY <1>5, <2>1 DEF RequestInv
    <2>. QED
      BY <1>1, <2>1, <2>2, GrantedStays
  <1>6. ASSUME NEW p \in DOMAIN request', request'[p].pc \in {"tenant", "user"}
        PROVE  p \in DOMAIN request /\ request'[p] = request[p]
    BY <1>2, <1>3, <1>6
  <1>7. Serving' = Serving /\ users' = users
    BY <1>1 DEF Serving
  <1>. QED
    BY <1>1, <1>4, <1>5, <1>6, <1>7 DEF RequestInv

\* A restart ends the open transactions.
LEMMA AccessRestartInv ==
    ASSUME IInv, AccessRestart
    PROVE  AccessInv' /\ RequestInv'
  <1>. USE DEF IInv
  <1>1. AccessInv' /\ TablesGrow
    BY RestartInv DEF AccessRestart
  <1>2. /\ DOMAIN request' = DOMAIN request
        /\ request' = [q \in DOMAIN request' |-> request'[q]]
        /\ \A q \in DOMAIN request :
              request'[q] = IF request[q].pc \in {"tenant", "user"}
                            THEN [request[q] EXCEPT !.pc = "refused"] ELSE request[q]
    BY DEF AccessRestart
  <1>3. \A q \in DOMAIN request :
           /\ request'[q] \in Requests /\ request'[q].pc \notin {"tenant", "user"}
           /\ request'[q].pc # "refused" => request'[q] = request[q]
    BY <1>2, RequestFields DEF Requests
  <1>4. ASSUME NEW q \in DOMAIN request', request'[q].pc \notin {"new", "refused"}
        PROVE  Granted(q)'
    <2>1. Granted(q) /\ request'[q] = request[q]
      BY <1>2, <1>3, <1>4 DEF RequestInv
    <2>. QED
      BY <1>1, <2>1, GrantedStays
  <1>5. DOMAIN request' \subseteq Request /\ request' \in [DOMAIN request' -> Requests]
    BY <1>2, <1>3 DEF RequestInv
  <1>. QED
    BY <1>1, <1>2, <1>3, <1>4, <1>5 DEF RequestInv

LEMMA NextRequestInv ==
    ASSUME IInv, [Next]_vars
    PROVE  AccessInv' /\ RequestInv'
  <1>1. ASSUME NEW q \in DOMAIN request, Handle(q)
        PROVE  AccessInv' /\ RequestInv'
    BY <1>1, GatewayRequestInv, AccessRequestInv DEF Handle
  <1>2. CASE AccessStep /\ UNCHANGED gatewayVars
    <2>1. UNCHANGED request
      BY <1>2 DEF gatewayVars
    <2>2. CASE Bootstrap
      <3>1. AccessInv' /\ TablesGrow
        BY <2>2, BootstrapInv DEF IInv
      <3>2. ~Serving
        BY <2>2 DEF Bootstrap, Serving
      <3>. QED
        BY <2>1, <3>1, <3>2, RequestsKept DEF IInv
    <2>3. CASE (\E m \in Email : Login(m)) \/ \E k \in tokens : TokenExpires(k)
      <3>1. AccessInv' /\ TablesGrow /\ UNCHANGED boot
        BY <2>3, TokenInv DEF IInv
      <3>2. UNCHANGED users
        BY <2>3 DEF Login, TokenExpires
      <3>. QED
        BY <2>1, <3>1, <3>2, RequestsKept DEF IInv
    <2>. QED
      BY <1>2, <2>2, <2>3 DEF AccessStep
  <1>3. CASE Tick \/ UNCHANGED vars
    <2>1. UNCHANGED <<request, accessVars>>
      BY <1>3 DEF Tick, vars, gatewayVars
    <2>2. AccessInv' /\ TablesGrow /\ UNCHANGED <<users, boot>>
      BY <2>1, AccessKept DEF IInv, accessVars
    <2>. QED
      BY <2>1, <2>2, RequestsKept DEF IInv
  <1>. QED
    BY <1>1, <1>2, <1>3, ArriveInv, AccessRestartInv DEF Next

-----------------------------------------------------------------------------
(* The rate limit                                                          *)

\* Two requests of one window read the clock less than a window apart.
LEMMA SameWindow ==
    ASSUME NEW a \in Nat, NEW b \in Nat, a \div Window = b \div Window
    PROVE  a < b + Window
  BY RateType

LEMMA WindowOf ==
    ASSUME NEW a \in 0..MaxTime
    PROVE  a \div Window \in Nat /\ a \div Window \in 0..(MaxTime \div Window)
  BY RateType

\* No request is counted.
LEMMA NotCounted ==
    ASSUME CountInv, UNCHANGED counter, now' \in 0..MaxTime, now <= now',
           restarts' \in 0..MaxRestarts,
           \A q \in DOMAIN request' :
              \/ request'[q].count = 0
              \/ /\ q \in DOMAIN request /\ request'[q].count = request[q].count
                 /\ CounterKey(q)' = CounterKey(q),
           \A q \in DOMAIN request' :
              /\ request'[q].at <= now'
              /\ request'[q].pc \in {"new", "authenticated", "counting"} =>
                    request'[q].count = 0
              /\ request'[q].pc = "counting" => now' <= request'[q].at + MaxDelay
    PROVE  CountInv'
  <1>1. ClockOK'
    BY DEF ClockOK
  <1>2. CounterOK'
    BY DEF CountInv, CounterOK
  <1>3. CountedOK'
    <2>1. ASSUME NEW q \in DOMAIN request', request'[q].count > 0
          PROVE  /\ q \in DOMAIN request /\ request'[q].count = request[q].count
                 /\ CounterKey(q)' = CounterKey(q)
      BY <2>1
    <2>2. ASSUME NEW q \in DOMAIN request', request'[q].count > 0,
                 NEW p \in DOMAIN request', request'[p].count = request'[q].count
          PROVE  /\ p \in DOMAIN request /\ request'[p].count = request[p].count
                 /\ CounterKey(p)' = CounterKey(p)
      BY <2>1, <2>2
    <2>. QED
      BY <2>1, <2>2 DEF CountInv, CountedOK
  <1>. QED
    BY <1>1, <1>2, <1>3 DEF CountInv

\* While a request of a window is being counted, that window's counter has not
\* expired.
LEMMA CounterAlive ==
    ASSUME IInv, NEW q \in DOMAIN request, request[q].pc = "counting",
           CounterKey(q) \in DOMAIN counter
    PROVE  now < counter[CounterKey(q)].expires
  <1>1. /\ now \in 0..MaxTime /\ now <= request[q].at + MaxDelay
        /\ request[q].at \in 0..MaxTime
    BY RequestFields DEF IInv, CountInv, ClockOK, Requests
  <1>2. PICK b \in 0..MaxTime : /\ b \div Window = CounterKey(q)[2]
                                /\ b + TTL <= counter[CounterKey(q)].expires
    BY DEF IInv, CountInv, CounterOK
  <1>3. CounterKey(q)[2] = request[q].at \div Window
    BY DEF CounterKey
  <1>4. request[q].at < b + Window
    BY <1>1, <1>2, <1>3, SameWindow
  <1>5. counter[CounterKey(q)].expires \in Nat
    BY DEF IInv, CountInv, CounterOK
  <1>. QED
    BY <1>1, <1>2, <1>4, <1>5, RateType

\* INCR hands out the numbers of a counter one by one, and the first one sets
\* how long it lives.
LEMMA IncrementInv ==
    ASSUME IInv, NEW q \in DOMAIN request, Increment(q)
    PROVE  CountInv'
  <1>. DEFINE k == CounterKey(q)
              n == Count(k)
  <1>1. /\ request[q] \in Requests /\ request[q].pc = "counting" /\ request[q].count = 0
        /\ request[q].at \in 0..MaxTime
    BY RequestFields DEF Increment, IInv, CountInv, ClockOK, Requests
  <1>2. k \in Tenant \X Nat /\ k[2] = request[q].at \div Window
    <2>1. request[q].tenant \in Tenant
      BY <1>1 DEF IInv, RequestInv, Granted, AccessInv, AccessTypeOK
    <2>2. request[q].at \div Window \in Nat
      BY <1>1, WindowOf
    <2>. QED
      BY <2>1, <2>2 DEF CounterKey
  <1>3. n = (IF k \in DOMAIN counter THEN counter[k].n + 1 ELSE 1)
    BY <1>1, CounterAlive DEF Count
  <1>4. /\ counter' = [x \in DOMAIN counter \cup {k} |->
                         IF x # k THEN counter[x]
                         ELSE [n |-> n, expires |-> IF n = 1 THEN now + TTL
                                                    ELSE counter[k].expires]]
        /\ \E pc \in {"refused", "forwarded"} :
              request' = [request EXCEPT ![q].count = n, ![q].pc = pc]
        /\ UNCHANGED <<now, restarts>>
    <2>1. k = CounterKey(q) /\ n = Count(CounterKey(q))
      OBVIOUS
    <2>. HIDE DEF k, n
    <2>2. PICK j \in {CounterKey(q)}, m \in {Count(CounterKey(q))} :
            /\ counter' = [x \in DOMAIN counter \cup {j} |->
                             IF x # j THEN counter[x]
                             ELSE [n |-> m, expires |-> IF m = 1 THEN Expiry
                                                        ELSE counter[j].expires]]
            /\ \E pc \in {"refused"} \cup {x \in {"forwarded"} : m <= LimitOf(q) /\ MayPass(q)} :
                  request' = [request EXCEPT ![q].count = m, ![q].pc = pc]
      BY DEF Increment
    <2>3. j = k /\ m = n
      BY <2>1, <2>2
    <2>4. UNCHANGED <<now, restarts>>
      BY DEF Increment
    <2>. QED
      BY <2>2, <2>3, <2>4 DEF Expiry
  <1>. HIDE DEF k, n
  <1>5. n \in Nat /\ n > 0
    BY <1>3 DEF IInv, CountInv, CounterOK
  <1>6. /\ DOMAIN request' = DOMAIN request
        /\ request'[q].count = n /\ request'[q].pc \in {"refused", "forwarded"}
        /\ request'[q].at = request[q].at /\ request'[q].tenant = request[q].tenant
        /\ \A p \in DOMAIN request \ {q} : request'[p] = request[p]
    <2>1. PICK pc \in {"refused", "forwarded"} :
            request' = [request EXCEPT ![q] = [request[q] EXCEPT !.count = n, !.pc = pc]]
      BY <1>4
    <2>2. PICK r : r = [request[q] EXCEPT !.count = n, !.pc = pc]
      OBVIOUS
    <2>3. r.count = n /\ r.pc = pc /\ r.at = request[q].at /\ r.tenant = request[q].tenant
      BY <1>1, <2>2 DEF Requests
    <2>4. request' = [request EXCEPT ![q] = r]
      BY <2>1, <2>2
    <2>. QED
      BY <2>1, <2>3, <2>4
  <1>7. \A p \in DOMAIN request : CounterKey(p)' = CounterKey(p)
    BY <1>6 DEF CounterKey
  <1>8. ClockOK'
    BY <1>4, <1>6 DEF ClockOK, IInv, CountInv
  <1>9. /\ DOMAIN counter' = DOMAIN counter \cup {k}
        /\ counter'[k].n = n
        /\ counter'[k].expires = IF n = 1 THEN now + TTL ELSE counter[k].expires
        /\ counter'[k] = [n |-> counter'[k].n, expires |-> counter'[k].expires]
        /\ \A x \in DOMAIN counter \ {k} : counter'[x] = counter[x]
    BY <1>4
  <1>10. CounterOK'
    <2>1. ASSUME NEW x \in DOMAIN counter', x # k
          PROVE  /\ x \in Tenant \X Nat /\ counter'[x] \in [n : Nat, expires : Nat]
                 /\ \E b \in 0..MaxTime : b \div Window = x[2] /\ b + TTL <= counter'[x].expires
      BY <1>9, <2>1 DEF IInv, CountInv, CounterOK
    <2>2. /\ counter'[k].expires \in Nat
          /\ \E b \in 0..MaxTime : b \div Window = k[2] /\ b + TTL <= counter'[k].expires
      <3>1. CASE n = 1
        <4>1. counter'[k].expires = now + TTL /\ request[q].at + TTL <= now + TTL /\ now + TTL \in Nat
          BY <1>1, <1>9, <3>1, RateType DEF IInv, CountInv, ClockOK
        <4>. QED
          BY <1>1, <1>2, <4>1
      <3>2. CASE n # 1
        <4>1. k \in DOMAIN counter /\ counter'[k].expires = counter[k].expires
          BY <1>3, <1>9, <3>2
        <4>. QED
          BY <4>1 DEF IInv, CountInv, CounterOK
      <3>. QED
        BY <3>1, <3>2
    <2>3. counter'[k] \in [n : Nat, expires : Nat]
      BY <1>5, <1>9, <2>2
    <2>. QED
      BY <1>2, <2>1, <2>2, <2>3 DEF CounterOK
  <1>11. \A p \in DOMAIN request : request[p].count \in Nat
    BY RequestFields DEF IInv, Requests
  <1>12. \A p \in DOMAIN request : request[p].count > 0 /\ CounterKey(p) = k =>
            k \in DOMAIN counter /\ request[p].count < n
    BY <1>3, <1>11 DEF IInv, CountInv, CountedOK, CounterOK
  <1>13. CountedOK'
    <2>1. ASSUME NEW p \in DOMAIN request, request'[p].count > 0
          PROVE  /\ CounterKey(p) \in DOMAIN counter'
                 /\ request'[p].count <= counter'[CounterKey(p)].n
      <3>1. CASE p = q
        BY <1>5, <1>6, <1>9, <3>1 DEF k
      <3>2. CASE p # q /\ CounterKey(p) = k
        BY <1>5, <1>6, <1>9, <1>11, <1>12, <2>1, <3>2
      <3>3. CASE p # q /\ CounterKey(p) # k
        BY <1>6, <1>9, <2>1, <3>3 DEF IInv, CountInv, CountedOK
      <3>. QED
        BY <3>1, <3>2, <3>3
    <2>2. ASSUME NEW p \in DOMAIN request, NEW r \in DOMAIN request, request'[p].count > 0,
                 request'[r].count = request'[p].count, CounterKey(r) = CounterKey(p)
          PROVE  r = p
      <3>1. CASE p = q /\ r # q
        BY <1>5, <1>6, <1>11, <1>12, <2>2, <3>1 DEF k
      <3>2. CASE p # q /\ r = q
        BY <1>5, <1>6, <1>11, <1>12, <2>2, <3>2 DEF k
      <3>3. CASE p # q /\ r # q
        BY <1>6, <2>2, <3>3 DEF IInv, CountInv, CountedOK
      <3>. QED
        BY <3>1, <3>2, <3>3
    <2>. QED
      BY <1>6, <1>7, <2>1, <2>2 DEF CountedOK
  <1>. QED
    BY <1>8, <1>10, <1>13 DEF CountInv

\* The steps that count no request.
LEMMA NextCountInv ==
    ASSUME IInv, [Next]_vars
    PROVE  CountInv'
  <1>. USE RateType DEF IInv
  <1>1. /\ now \in 0..MaxTime /\ restarts \in 0..MaxRestarts
        /\ \A q \in DOMAIN request :
              /\ request[q] \in Requests /\ request[q].at <= now /\ request[q].at \in 0..MaxTime
              /\ request[q].pc \in {"new", "authenticated", "counting"} => request[q].count = 0
              /\ request[q].pc = "counting" => now <= request[q].at + MaxDelay
    BY RequestFields DEF CountInv, ClockOK, Requests
  <1>2. ASSUME UNCHANGED <<now, counter, restarts>>, NEW q \in DOMAIN request, NEW a \in Requests,
               request' = [request EXCEPT ![q] = a],
               \/ a.pc \in {"new", "authenticated", "counting"} /\ a.count = 0
               \/ /\ a.pc \notin {"new", "authenticated", "counting"}
                  /\ a.count = request[q].count
                  /\ a.at = request[q].at /\ a.tenant = request[q].tenant,
               a.at <= now, a.pc = "counting" => a.at = now
        PROVE  CountInv'
    <2>1. /\ DOMAIN request' = DOMAIN request /\ request'[q] = a
          /\ \A p \in DOMAIN request \ {q} : request'[p] = request[p]
      BY <1>2
    <2>2. ASSUME NEW p \in DOMAIN request'
          PROVE  \/ request'[p].count = 0
                 \/ /\ p \in DOMAIN request /\ request'[p].count = request[p].count
                    /\ CounterKey(p)' = CounterKey(p)
      BY <1>2, <2>1 DEF CounterKey
    <2>3. ASSUME NEW p \in DOMAIN request'
          PROVE  /\ request'[p].at <= now'
                 /\ request'[p].pc \in {"new", "authenticated", "counting"} =>
                       request'[p].count = 0
                 /\ request'[p].pc = "counting" => now' <= request'[p].at + MaxDelay
      BY <1>1, <1>2, <2>1
    <2>. QED
      BY <1>1, <1>2, <2>2, <2>3, NotCounted
  <1>3. ASSUME NEW q \in DOMAIN request, UNCHANGED <<now, counter, restarts>>,
               NEW pc \in {"refused", "tenant", "user", "done"}, To(q, pc)
        PROVE  CountInv'
    <2>. DEFINE a == [request[q] EXCEPT !.pc = pc]
    <2>1. /\ a \in Requests /\ a.pc = pc /\ a.count = request[q].count
          /\ a.at = request[q].at /\ a.tenant = request[q].tenant /\ a.at <= now
      BY <1>1 DEF Requests
    <2>2. request' = [request EXCEPT ![q] = a]
      BY <1>3 DEF To
    <2>. HIDE DEF a
    <2>. QED
      BY <1>2, <1>3, <2>1, <2>2
  <1>4. ASSUME NEW q \in DOMAIN request, Authenticate(q)
        PROVE  CountInv'
    <2>1. request[q].pc = "new" /\ UNCHANGED <<now, counter, restarts>>
      BY <1>4 DEF Authenticate
    <2>2. ASSUME NEW p \in Principals(request[q].in.cred),
                 request' = [request EXCEPT ![q] = HeadersOf(q, p)]
          PROVE  CountInv'
      <3>. DEFINE a == HeadersOf(q, p)
      <3>1. p.tenant \in Tenant /\ p.role \in Roles \cup {"service"}
        BY PrincipalGranted
      <3>2. /\ a \in Requests /\ a.pc = "authenticated" /\ a.count = request[q].count
            /\ a.at = request[q].at
        BY <1>1, <3>1 DEF HeadersOf, Requests
      <3>. HIDE DEF a
      <3>. QED
        BY <1>1, <1>2, <2>1, <2>2, <3>2 DEF a
    <2>. QED
      BY <1>3, <1>4, <2>1, <2>2 DEF Authenticate
  <1>5. ASSUME NEW q \in DOMAIN request, ReadClock(q)
        PROVE  CountInv'
    <2>. DEFINE a == [request[q] EXCEPT !.pc = "counting", !.at = now]
    <2>1. request[q].pc = "authenticated" /\ UNCHANGED <<now, counter, restarts>>
      BY <1>5 DEF ReadClock
    <2>2. a \in Requests /\ a.pc = "counting" /\ a.count = request[q].count /\ a.at = now
      BY <1>1 DEF Requests
    <2>3. request' = [request EXCEPT ![q] = a]
      BY <1>5 DEF ReadClock
    <2>. HIDE DEF a
    <2>4. a.count = 0 /\ now <= now
      BY <1>1, <2>1, <2>2
    <2>. QED
      BY <1>2, <2>1, <2>2, <2>3, <2>4
  <1>6. ASSUME NEW q \in DOMAIN request,
               \/ LimiterUnavailable(q) \/ BadGateway(q) \/ InsertTenant(q) \/ InsertUser(q)
               \/ CommitTenant(q) \/ CreateTenantFails(q) \/ InsertKey(q)
        PROVE  CountInv'
    <2>1. UNCHANGED <<now, counter, restarts>>
          /\ \E pc \in {"refused", "tenant", "user", "done"} : To(q, pc)
      BY <1>6 DEF LimiterUnavailable, BadGateway, InsertTenant, InsertUser, CommitTenant,
                  CreateTenantFails, InsertKey
    <2>. QED
      BY <1>3, <2>1
  <1>7. ASSUME NEW q \in Request, NEW input \in Offered, Arrive(q, input)
        PROVE  CountInv'
    <2>1. /\ UNCHANGED <<now, counter, restarts>>
          /\ DOMAIN request' = DOMAIN request \cup {q} /\ q \notin DOMAIN request
          /\ request'[q].pc = "new" /\ request'[q].at = 0 /\ request'[q].count = 0
          /\ \A p \in DOMAIN request : request'[p] = request[p]
      BY <1>7 DEF Arrive
    <2>2. \A p \in DOMAIN request : CounterKey(p)' = CounterKey(p)
      BY <2>1 DEF CounterKey
    <2>. QED
      BY <1>1, <2>1, <2>2, NotCounted
  <1>8. CASE AccessRestart
    <2>1. /\ UNCHANGED <<now, counter>> /\ restarts' \in 0..MaxRestarts
          /\ DOMAIN request' = DOMAIN request
          /\ \A p \in DOMAIN request : \/ request'[p] = request[p]
                                       \/ request'[p] = [request[p] EXCEPT !.pc = "refused"]
      BY <1>1, <1>8 DEF AccessRestart
    <2>2. \A p \in DOMAIN request :
             /\ request'[p].count = request[p].count /\ request'[p].at = request[p].at
             /\ request'[p].tenant = request[p].tenant
             /\ request'[p].pc \in {request[p].pc, "refused"}
      BY <1>1, <2>1 DEF Requests
    <2>3. \A p \in DOMAIN request : CounterKey(p)' = CounterKey(p)
      BY <2>2 DEF CounterKey
    <2>. QED
      BY <1>1, <2>1, <2>2, <2>3, NotCounted
  <1>9. CASE Tick \/ (AccessStep /\ UNCHANGED gatewayVars) \/ UNCHANGED vars
    <2>1. /\ UNCHANGED <<counter, request, restarts>> /\ now' \in 0..MaxTime /\ now <= now'
          /\ \A q \in DOMAIN request : request[q].pc = "counting" =>
                now' <= request[q].at + MaxDelay
      BY <1>1, <1>9 DEF Tick, gatewayVars, vars
    <2>2. \A p \in DOMAIN request : CounterKey(p)' = CounterKey(p)
      BY <2>1 DEF CounterKey
    <2>. QED
      BY <1>1, <2>1, <2>2, NotCounted
  <1>. QED
    BY <1>4, <1>5, <1>6, <1>7, <1>8, <1>9, IncrementInv DEF Next, Handle

-----------------------------------------------------------------------------
(* The invariant and what follows from it                                  *)

LEMMA InitIInv == Init => IInv
  <1>. SUFFICES ASSUME Init PROVE IInv
    OBVIOUS
  <1>1. AccessInv
    BY SeedsType DEF Init, AccessInit, AccessInv, AccessTypeOK, Seeded, TablesOK, NoUser, Roles
  <1>2. DOMAIN request = {} /\ DOMAIN counter = {}
    BY DEF Init
  <1>3. RequestInv
    BY <1>2 DEF Init, RequestInv
  <1>4. CountInv
    BY <1>2, RateType DEF Init, CountInv, ClockOK, CounterOK, CountedOK
  <1>. QED
    BY <1>1, <1>3, <1>4 DEF IInv

\* The gateway and Access keep their invariant.
THEOREM GatewayInvariant == Spec => []IInv
  <1>1. IInv /\ [Next]_vars => IInv'
    BY NextRequestInv, NextCountInv DEF IInv
  <1>. QED
    BY <1>1, InitIInv, PTL DEF Spec

\* Every authenticated request has a tenant, and the tables keep their types.
THEOREM GatewayTyped == Spec => []TypeOK
  <1>1. IInv => TypeOK
    <2>. SUFFICES ASSUME IInv PROVE TypeOK
      OBVIOUS
    <2>1. AccessTypeOK /\ now \in 0..MaxTime /\ restarts \in 0..MaxRestarts
      BY DEF IInv, AccessInv, CountInv, ClockOK
    <2>2. \A k \in DOMAIN counter : k \in Tenant \X Nat /\ counter[k] \in [n : Nat, expires : Nat]
      BY DEF IInv, CountInv, CounterOK
    <2>3. ASSUME NEW q \in DOMAIN request, request[q].pc \notin {"new", "refused"}
          PROVE  request[q].tenant # NoTenant
      BY <2>1, <2>3, SeedsType DEF IInv, RequestInv, Granted, AccessTypeOK
    <2>. QED
      BY <2>1, <2>2, <2>3 DEF TypeOK, IInv, RequestInv
  <1>. QED
    BY <1>1, GatewayInvariant, PTL

\* authenticate deletes the client's headers and sets the principal's: whatever
\* is sent, a request goes on as its credential was granted.
THEOREM PassesAsGranted == Spec => []ForwardedAsGranted
  <1>1. IInv => ForwardedAsGranted
    BY DEF IInv, RequestInv, Granted, ForwardedAsGranted
  <1>. QED
    BY <1>1, GatewayInvariant, PTL

\* Only the bootstrap makes an admin, before anything is served; users, keys
\* and tokens are of tenants that are there.
THEOREM GrantsKept == Spec => []GrantsAreKept
  <1>1. IInv => GrantsAreKept
    BY DEF IInv, AccessInv, Seeded, TablesOK, Serving, Admin, GrantsAreKept
  <1>. QED
    BY <1>1, GatewayInvariant, PTL

\* createTenant and bootstrap leave no tenant without a user, but for the seeds
\* TenantHasUser names.
THEOREM TenantsHaveUsers == Spec => []TenantHasUser
  <1>1. IInv => TenantHasUser
    <2>. SUFFICES ASSUME IInv, NEW t \in tenants, ~ \E m \in Email : users[m].tenant = t
                  PROVE  \/ ~Serving /\ t \in {AdminTenant, DemoTenant}
                         \/ /\ t = DemoTenant
                            /\ ~demo \/ users[DemoEmail].tenant \notin {DemoTenant, NoTenant}
      BY DEF TenantHasUser
    <2>. USE SeedsType DEF IInv, AccessInv
    <2>1. t \in {AdminTenant, DemoTenant}
      BY DEF TablesOK
    <2>2. Serving => t # AdminTenant
      BY DEF Seeded, Serving, Admin
    <2>3. Serving /\ demo => users[DemoEmail].tenant # NoTenant
      BY NoTenantNoUser DEF Seeded, Serving
    <2>. QED
      BY <2>1, <2>2, <2>3
  <1>. QED
    BY <1>1, GatewayInvariant, PTL

\* Requests that passed one counter have different numbers.
LEMMA PassedCount ==
    ASSUME IInv, NEW t, NEW w, NEW S \in SUBSET Passed(t, w), NEW n \in Nat,
           \A q \in S : LimitOf(q) <= n
    PROVE  Cardinality(S) <= n
  <1>. DEFINE f == [q \in S |-> request[q].count]
  <1>1. \A q \in S : /\ q \in DOMAIN request /\ CounterKey(q) = <<t, w>>
                     /\ request[q].count > 0 /\ request[q].count \in 1..n
    BY RateType DEF Passed, CounterKey, LimitOf
  <1>2. \A q, p \in S : f[q] = f[p] => q = p
    BY <1>1 DEF IInv, CountInv, CountedOK
  <1>3. f \in [S -> 1..n]
    BY <1>1
  <1>4. f \in Injection(S, 1..n)
    BY <1>2, <1>3, Fun_IsInj
  <1>5. IsFiniteSet(1..n) /\ Cardinality(1..n) = n
    BY FS_Interval
  <1>. QED
    BY <1>4, <1>5, FS_Injection

\* rateLimit: replicas share the counter, and it outlives its window by more
\* than a request may take to reach it, so no window lets more requests pass
\* than its limit.
THEOREM LimitPerWindow == Spec => []WindowLimit
  <1>1. IInv => WindowLimit
    <2>. SUFFICES ASSUME IInv, NEW t \in Tenant, NEW w \in 0..(MaxTime \div Window)
                  PROVE  /\ Cardinality({q \in Passed(t, w) : request[q].role # "admin"}) <= Limit
                         /\ Cardinality(Passed(t, w)) <= AdminLimit
      BY DEF WindowLimit
    <2>. DEFINE S == {q \in Passed(t, w) : request[q].role # "admin"}
    <2>1. S \in SUBSET Passed(t, w) /\ \A q \in S : LimitOf(q) <= Limit
      BY RateType DEF LimitOf
    <2>2. \A q \in Passed(t, w) : LimitOf(q) <= AdminLimit
      BY RateType DEF LimitOf
    <2>3. Cardinality(S) <= Limit
      BY <2>1, PassedCount, RateType
    <2>. QED
      BY <2>2, <2>3, PassedCount, RateType
  <1>. QED
    BY <1>1, GatewayInvariant, PTL
=============================================================================

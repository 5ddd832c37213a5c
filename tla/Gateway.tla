------------------------------ MODULE Gateway ------------------------------
(***************************************************************************)
(* The gateway (cmd/gateway/main.go) in front of the Access service: every *)
(* request is authenticated, counted against its tenant's rate limit and   *)
(* proxied with the tenant and the role it was authenticated for.  Of what *)
(* is proxied, Access's createTenant and createAPIKey are followed to      *)
(* their end; the rest only reaches its service.  Any number of replicas   *)
(* of the gateway share the counters in Redis.                             *)
(***************************************************************************)
EXTENDS Access

CONSTANTS Request,       \* requests, each made once
          Offered,       \* what clients may send in one
          Window, TTL,   \* 60 s of a window, 70 s of a counter
          MaxDelay,      \* between reading the clock and INCR
          Limit,         \* requests of a window, and those with the admin role
          AdminLimit,
          MaxTime,       \* bounds: the clock, and restarts of Access
          MaxRestarts

\* The credentials and the route a client uses, createTenant's slug and email, and
\* the role header a client should not send.
Credentials == ({"token"} \X [tenant : Tenant, role : Roles]) \cup ({"key"} \X Key)
Input == [cred : Credentials, route : {"tenants", "keys", "other"}, slug : Tenant,
          email : Email, role : Roles]

ASSUME OfferedType == Offered \subseteq Input

\* 0..MaxDelay does not exceed the ten seconds by which a counter outlives its
\* window.
ASSUME RateType ==
    /\ Window \in Nat \ {0} /\ TTL \in Nat /\ MaxDelay \in Nat
    /\ MaxTime \in Nat /\ MaxRestarts \in Nat
    /\ Limit \in Nat /\ AdminLimit \in Nat /\ Limit <= AdminLimit
    /\ Window + MaxDelay <= TTL

VARIABLES now,      \* the clock
          counter,  \* rate:<tenant>:<window>, with the time it expires at
          request,
          restarts

gatewayVars == <<now, counter, request, restarts>>
vars == <<accessVars, gatewayVars>>

\* tenant and role are the headers; at is when the clock was read, count what INCR
\* returned.
Requests == [pc : {"new", "authenticated", "counting", "forwarded", "tenant", "user",
                   "done", "refused"},
             in : Offered, tenant : Tenant \cup {NoTenant}, role : Roles \cup {"service"},
             at : 0..MaxTime, count : Nat]

TypeOK ==
    /\ AccessTypeOK
    /\ now \in 0..MaxTime /\ restarts \in 0..MaxRestarts
    /\ \A k \in DOMAIN counter : /\ k \in Tenant \X Nat
                                 /\ counter[k] \in [n : Nat, expires : Nat]
    /\ DOMAIN request \subseteq Request
    /\ \A q \in DOMAIN request :
         /\ request[q] \in Requests
         /\ request[q].pc \notin {"new", "refused"} => request[q].tenant # NoTenant

Init ==
    /\ AccessInit
    /\ now = 0
    /\ counter = [k \in {} |-> 0]
    /\ request = [q \in {} |-> 0]
    /\ restarts = 0

To(q, pc) == request' = [request EXCEPT ![q].pc = pc]

-----------------------------------------------------------------------------
(* authenticate, rateLimit, requireAdmin                                   *)

Arrive(q, input) ==
    /\ q \notin DOMAIN request
    /\ request' = [p \in DOMAIN request \cup {q} |->
                     IF p # q THEN request[p]
                     ELSE [pc |-> "new", in |-> input, tenant |-> NoTenant,
                           role |-> input.role, at |-> 0, count |-> 0]]
    /\ UNCHANGED <<accessVars, now, counter, restarts>>

\* Mutant: the role header is set only if the client has sent none.
HeadersKept(q, p) == [request[q] EXCEPT !.pc = "authenticated", !.tenant = p.tenant]

\* The client's headers are deleted, the principal's are set.
HeadersOf(q, p) == [request[q] EXCEPT !.pc = "authenticated", !.tenant = p.tenant,
                                      !.role = p.role]

\* verify refuses, or Access does not answer: 401 or 503
Authenticate(q) ==
    /\ request[q].pc = "new"
    /\ \/ /\ Serving
          /\ \E p \in Principals(request[q].in.cred) :
               request' = [request EXCEPT ![q] = HeadersOf(q, p)]
       \/ ~Serving /\ To(q, "refused")
       \/ Principals(request[q].in.cred) = {} /\ To(q, "refused")
    /\ UNCHANGED <<accessVars, now, counter, restarts>>

ReadClock(q) ==
    /\ request[q].pc = "authenticated"
    /\ request' = [request EXCEPT ![q].pc = "counting", ![q].at = now]
    /\ UNCHANGED <<accessVars, now, counter, restarts>>

CounterKey(q) == <<request[q].tenant, request[q].at \div Window>>

\* INCR: a key that is not there, or has expired, counts from 1.
Count(k) == IF k \in DOMAIN counter /\ now < counter[k].expires THEN counter[k].n + 1 ELSE 1

LimitOf(q) == IF request[q].role = "admin" THEN AdminLimit ELSE Limit

\* requireAdmin of the gateway's admin routes, and createTenant's own test
MayPass(q) == request[q].in.route = "tenants" => request[q].role = "admin"

\* Mutant: the counter lives as long as its window.
ExpiryTight == now + Window

Expiry == now + TTL

\* The script, and what follows from the count it returns; its answer may be
\* lost.
Increment(q) ==
    /\ request[q].pc = "counting"
    /\ \E k \in {CounterKey(q)}, n \in {Count(CounterKey(q))} :
         /\ counter' = [x \in DOMAIN counter \cup {k} |->
                          IF x # k THEN counter[x]
                          ELSE [n |-> n, expires |-> IF n = 1 THEN Expiry
                                                     ELSE counter[k].expires]]
         /\ \E pc \in {"refused"} \cup {x \in {"forwarded"} : n <= LimitOf(q) /\ MayPass(q)} :
              request' = [request EXCEPT ![q].count = n, ![q].pc = pc]
    /\ UNCHANGED <<accessVars, now, restarts>>

\* 503: the script is not run.
LimiterUnavailable(q) ==
    /\ request[q].pc = "counting"
    /\ To(q, "refused")
    /\ UNCHANGED <<accessVars, now, counter, restarts>>

-----------------------------------------------------------------------------
(* What Access does with a proxied request                                 *)

\* 502: Access does not answer.
BadGateway(q) ==
    /\ request[q].pc = "forwarded" /\ request[q].in.route # "other" /\ ~Serving
    /\ To(q, "refused")
    /\ UNCHANGED <<accessVars, now, counter, restarts>>

\* createTenant's first INSERT: the slug is unique, and the key of another
\* open transaction is waited for.
InsertTenant(q) ==
    /\ request[q].pc = "forwarded" /\ request[q].in.route = "tenants" /\ Serving
    /\ \A p \in DOMAIN request : request[p].pc \in {"tenant", "user"} =>
                                    request[p].in.slug # request[q].in.slug
    /\ To(q, IF request[q].in.slug \in tenants THEN "refused" ELSE "tenant")
    /\ UNCHANGED <<accessVars, now, counter, restarts>>

\* Mutant: the INSERTs are not in one transaction.
InsertUserAutocommit(q) ==
    /\ request[q].pc = "tenant"
    /\ IF users[request[q].in.email] # NoUser
       THEN To(q, "refused") /\ tenants' = tenants \cup {request[q].in.slug}
       ELSE To(q, "user") /\ UNCHANGED tenants
    /\ UNCHANGED <<users, keys, tokens, demo, boot, now, counter, restarts>>

\* The second one: an email that is taken rolls the first one back.
InsertUser(q) ==
    /\ request[q].pc = "tenant"
    /\ \A p \in DOMAIN request : request[p].pc = "user" => request[p].in.email # request[q].in.email
    /\ To(q, IF users[request[q].in.email] # NoUser THEN "refused" ELSE "user")
    /\ UNCHANGED <<accessVars, now, counter, restarts>>

CommitTenant(q) ==
    /\ request[q].pc = "user"
    /\ CreateTenant(request[q].in.slug, request[q].in.email)
    /\ To(q, "done")
    /\ UNCHANGED <<now, counter, restarts>>

\* bcrypt, a statement or the commit fails, or the client is gone: what was
\* inserted is rolled back.
CreateTenantFails(q) ==
    /\ \/ request[q].pc = "forwarded" /\ request[q].in.route = "tenants" /\ Serving
       \/ request[q].pc \in {"tenant", "user"}
    /\ To(q, "refused")
    /\ UNCHANGED <<accessVars, now, counter, restarts>>

\* A new key is random: it is none that a row has.
InsertKey(q) ==
    /\ request[q].pc = "forwarded" /\ request[q].in.route = "keys" /\ Serving
    /\ \E k \in Key \ {DemoKey} : CreateAPIKey(k, request[q].tenant)
    /\ To(q, "done")
    /\ UNCHANGED <<now, counter, restarts>>

\* Access stops: open transactions are rolled back.
AccessRestart ==
    /\ restarts < MaxRestarts /\ restarts' = restarts + 1
    /\ Restart
    /\ request' = [q \in DOMAIN request |->
                     IF request[q].pc \in {"tenant", "user"}
                     THEN [request[q] EXCEPT !.pc = "refused"] ELSE request[q]]
    /\ UNCHANGED <<now, counter>>

\* Nobody takes longer than MaxDelay from the clock to the counter.
Tick ==
    /\ now < MaxTime
    /\ \A q \in DOMAIN request : request[q].pc = "counting" => now < request[q].at + MaxDelay
    /\ now' = now + 1
    /\ UNCHANGED <<accessVars, counter, request, restarts>>

-----------------------------------------------------------------------------
Handle(q) ==
    \/ Authenticate(q)
    \/ ReadClock(q)
    \/ Increment(q)
    \/ LimiterUnavailable(q)
    \/ BadGateway(q)
    \/ InsertTenant(q)
    \/ InsertUser(q)
    \/ CommitTenant(q)
    \/ CreateTenantFails(q)
    \/ InsertKey(q)

AccessStep ==
    \/ Bootstrap
    \/ \E m \in Email : Login(m)
    \/ \E k \in tokens : TokenExpires(k)

Next ==
    \/ \E q \in Request, input \in Offered : Arrive(q, input)
    \/ \E q \in DOMAIN request : Handle(q)
    \/ AccessStep /\ UNCHANGED gatewayVars
    \/ AccessRestart
    \/ Tick

Spec == Init /\ [][Next]_vars

-----------------------------------------------------------------------------
(* Properties                                                              *)

Passed(t, w) == {q \in DOMAIN request : /\ request[q].tenant = t
                                        /\ request[q].at \div Window = w
                                        /\ request[q].count \in 1..LimitOf(q)}

\* rateLimit: of the requests that read the clock in one window no more pass
\* than the limit, or than the admin's limit where admins are among them.
WindowLimit ==
    \A t \in Tenant, w \in 0..(MaxTime \div Window) :
        /\ Cardinality({q \in Passed(t, w) : request[q].role # "admin"}) <= Limit
        /\ Cardinality(Passed(t, w)) <= AdminLimit

\* authenticate: whatever the client has sent, a request goes on as the tenant
\* and the role of a user, or as the service of a key's tenant.
ForwardedAsGranted ==
    \A q \in DOMAIN request : request[q].pc \in {"forwarded", "tenant", "user", "done"} =>
        \/ \E m \in Email : users[m] = [tenant |-> request[q].tenant, role |-> request[q].role]
        \/ /\ request[q].role = "service"
           /\ \E k \in Key : keys[k] = request[q].tenant
=============================================================================

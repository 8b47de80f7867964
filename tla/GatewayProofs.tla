---------------------------- MODULE GatewayProofs ----------------------------
(***************************************************************************)
(* Theorems about Gateway, for any number of addresses, handlers, users    *)
(* and requests, any window, limit and time to live.                       *)
(***************************************************************************)
EXTENDS Gateway, FiniteSetTheorems, TLAPS

(* Who may hold what, also between two steps of a login or a deletion: a   *)
(* login carries the role its user still has, if it is admin, and nobody   *)
(* is about to delete an admin.                                            *)
AccountsInv ==
    /\ ClaimsAreCurrent
    /\ \A h \in Handlers :
          /\ pc[h] = "login" =>
                /\ job[h].uid \in Ids /\ job[h].uid <= lastUser /\ job[h].role \in Roles
                /\ job[h].role = "admin" => users[job[h].uid] = "admin"
          /\ pc[h] = "delete" =>
                /\ job[h].uid \in Ids /\ job[h].uid <= lastUser
                /\ users[job[h].uid] # "admin"

(* The passes of an address, between two requests of it.  A pass belongs   *)
(* to the window it names; windows are Window apart; the current window    *)
(* has counted each of its passes; so passes qps apart are in different    *)
(* windows.                                                                *)
WindowOf(c) ==
    LET G == grants[c]
        n == Len(grants[c])
    IN  /\ last[c] <= now
        /\ \A k \in 1..n : 1 <= G[k].start /\ G[k].start <= G[k].at /\ G[k].at < G[k].start + Window
        /\ \A k \in 1..n : G[k].start = last[c] \/ G[k].start + Window <= last[c]
        /\ \A k \in 1..n : G[k].start = last[c] => n - k < counts[c]
        /\ \A i, j \in 1..n : i + qps <= j => G[i].start + Window <= G[j].start

WindowInv == qps > 0 => \A c \in Clients : WindowOf(c)

-----------------------------------------------------------------------------
(* The parts of the steps that change a part of the state. *)

LEMMA WindowType ==
    ASSUME LimiterOK, NEW c \in Clients, Count(c)
    PROVE  /\ Start(c) \in Nat
           /\ last' \in [Clients -> Nat] /\ counts' \in [Clients -> Nat]
<1>1. Start(c) \in Nat
  BY DEF Start, LimiterOK
<1>2. CASE qps = 0
  BY <1>1, <1>2 DEF Count, LimiterOK
<1>3. CASE qps # 0
  <2>1. last' = [last EXCEPT ![c] = Start(c)]
    BY <1>3 DEF Count
  <2>2. \E n \in Nat : counts' = [counts EXCEPT ![c] = n]
    <3>1. CASE NewWindow(c)
      BY <1>3, <3>1 DEF Count, LimiterOK
    <3>2. CASE ~NewWindow(c)
      <4>1. counts[c] + 1 \in Nat
        BY DEF LimiterOK
      <4> QED BY <1>3, <3>2, <4>1 DEF Count
    <3> QED BY <3>1, <3>2
  <2> QED BY <1>1, <2>1, <2>2 DEF LimiterOK
<1> QED BY <1>2, <1>3

LEMMA CountType ==
    ASSUME LimiterOK, NEW c \in Clients, Count(c), UNCHANGED <<now, qps, grants>>
    PROVE  LimiterOK'
BY WindowType DEF LimiterOK

LEMMA GrantType ==
    ASSUME LimiterOK, NEW c \in Clients, Grant(c), UNCHANGED <<now, qps>>
    PROVE  LimiterOK'
<1>1. Count(c)
  BY DEF Grant
<1>2. /\ Start(c) \in Nat
      /\ last' \in [Clients -> Nat] /\ counts' \in [Clients -> Nat]
  BY <1>1, WindowType
<1>3. Append(grants[c], [at |-> now, start |-> Start(c)]) \in Seq([at : Nat, start : Nat])
  BY <1>2 DEF LimiterOK
<1>4. grants' \in [Clients -> Seq([at : Nat, start : Nat])]
  BY <1>3 DEF Grant, LimiterOK
<1> QED BY <1>2, <1>4 DEF LimiterOK

LEMMA InsertType ==
    ASSUME AccountsOK, NEW role \in Roles, Insert(role), UNCHANGED tokens
    PROVE  AccountsOK'
<1>1. lastUser + 1 \in Ids /\ lastUser' \in 0..MaxUsers
  BY GatewayBounds DEF AccountsOK, Insert, Ids
<1>2. users' \in [Ids -> Roles \cup {"none"}]
  BY <1>1 DEF AccountsOK, Insert
<1>3. \A u \in Ids : u > lastUser' => users'[u] = "none"
  BY <1>1 DEF AccountsOK, Insert, Ids
<1>4. \A t \in tokens' : t.uid <= lastUser'
  BY DEF AccountsOK, Insert, Ids
<1> QED BY <1>1, <1>2, <1>3, <1>4 DEF AccountsOK

LEMMA RequestType ==
    ASSUME CallsOK, NEW h \in Handlers, NEW l \in {"login", "search", "delete"},
           NEW j \in Jobs, Request(h, l, j)
    PROVE  CallsOK'
BY DEF CallsOK, Request

LEMMA JobType ==
    ASSUME NEW u \in 0..MaxUsers, NEW role \in Roles \cup {"none"}, NEW start \in Nat
    PROVE  Job(u, role, start) \in Jobs
BY DEF Job, Jobs

LEMMA NoneType == None \in Jobs
BY GatewayBounds, JobType DEF None

LEMMA FinishType == ASSUME CallsOK, NEW h \in Handlers, Finish(h) PROVE CallsOK'
BY NoneType DEF CallsOK, Finish

-----------------------------------------------------------------------------
(* Type correctness. *)

LEMMA TypeInit == Init => TypeOK
<1> SUFFICES ASSUME Init PROVE TypeOK
  OBVIOUS
<1>1. LimiterOK
  BY GatewayBounds DEF Init, LimiterOK, Unknown
<1>2. AccountsOK
  BY GatewayBounds DEF Init, AccountsOK, Ids
<1>3. CallsOK
  BY NoneType DEF Init, CallsOK
<1>4. CountersOK
  BY GatewayBounds DEF Init, CountersOK
<1> QED BY <1>1, <1>2, <1>3, <1>4 DEF TypeOK

LEMMA TypeNext == ASSUME TypeOK, AccountsInv, [Next]_vars PROVE TypeOK'
<1> USE DEF TypeOK
<1>1. ASSUME NEW role \in Roles, CreateUserCmd(role) PROVE TypeOK'
  <2>1. LimiterOK' /\ CallsOK' /\ CountersOK'
    BY <1>1 DEF CreateUserCmd, LimiterOK, CallsOK, CountersOK, limiter, metrics
  <2> QED BY <1>1, <2>1, InsertType DEF CreateUserCmd
<1>2. ASSUME NEW h \in Handlers, NEW u \in Ids, Login(h, u) PROVE TypeOK'
  <2>1. LimiterOK' /\ AccountsOK' /\ CountersOK'
    BY <1>2 DEF Login, Request, LimiterOK, AccountsOK, CountersOK, limiter, metrics, accounts
  <2>2. Job(u, users[u], 0) \in Jobs
    BY GatewayBounds, JobType DEF AccountsOK, Ids
  <2> QED BY <1>2, <2>1, <2>2, RequestType DEF Login
<1>3. ASSUME NEW h \in Handlers, Sign(h) PROVE TypeOK'
  <2>1. LimiterOK' /\ CountersOK'
    BY <1>3 DEF Sign, LimiterOK, CountersOK, limiter, metrics
  <2>2. now + Ttl \in Nat
    BY GatewayBounds DEF LimiterOK
  <2>3. AccountsOK'
    BY <1>3, <2>2 DEF Sign, AccountsOK, AccountsInv, accounts
  <2> QED BY <1>3, <2>1, <2>3, FinishType DEF Sign
<1>4. ASSUME NEW h \in Handlers, DeleteUser(h) PROVE TypeOK'
  <2>1. LimiterOK' /\ CountersOK'
    BY <1>4 DEF DeleteUser, LimiterOK, CountersOK, limiter, metrics
  <2>2. AccountsOK'
    BY <1>4 DEF DeleteUser, AccountsOK
  <2> QED BY <1>4, <2>1, <2>2, FinishType DEF DeleteUser
<1>5. ASSUME NEW h \in Handlers, NEW err5xx \in BOOLEAN, Answer(h, err5xx) PROVE TypeOK'
  <2>1. LimiterOK' /\ AccountsOK'
    BY <1>5 DEF Answer, LimiterOK, AccountsOK, limiter, accounts
  <2>2. CountersOK'
    BY <1>5, GatewayBounds DEF Answer, Observe, CountersOK
  <2> QED BY <1>5, <2>1, <2>2, FinishType DEF Answer
<1>6. ASSUME NEW t \in tokens, NEW c \in Clients, TooMany(t, c) PROVE TypeOK'
  <2>1. AccountsOK' /\ CallsOK' /\ CountersOK'
    BY <1>6, GatewayBounds DEF TooMany, AccountsOK, CallsOK, CountersOK, accounts
  <2> QED BY <1>6, <2>1, CountType DEF TooMany
<1>7. ASSUME NEW t \in tokens, NEW c \in Clients, Other(t, c) PROVE TypeOK'
  <2>1. AccountsOK' /\ CallsOK' /\ CountersOK'
    BY <1>7, GatewayBounds DEF Other, AccountsOK, CallsOK, CountersOK, accounts, metrics
  <2> QED BY <1>7, <2>1, GrantType DEF Other
<1>8. ASSUME NEW t \in tokens, NEW c \in Clients, NEW role \in Roles, CreateUser(t, c, role) PROVE TypeOK'
  <2>1. CallsOK' /\ CountersOK'
    BY <1>8, GatewayBounds DEF CreateUser, CallsOK, CountersOK, metrics
  <2> QED BY <1>8, <2>1, GrantType, InsertType DEF CreateUser
<1>9. ASSUME NEW t \in tokens, NEW c \in Clients, NEW h \in Handlers, Search(h, t, c) PROVE TypeOK'
  <2>1. AccountsOK'
    <3>1. UNCHANGED <<accounts, tokens>>
      BY <1>9 DEF Search
    <3> QED BY <3>1 DEF AccountsOK, accounts
  <2>3. CountersOK'
    <3>1. searches' \in Nat /\ requests' \in Nat
      BY <1>9 DEF Search, Request, CountersOK
    <3> QED BY <1>9, <3>1 DEF Search, CountersOK, metrics
  <2>2. Job(0, "none", now) \in Jobs
    <3>1. 0 \in 0..MaxUsers /\ now \in Nat
      BY GatewayBounds DEF LimiterOK
    <3> QED BY <3>1, JobType
  <2>4. LimiterOK'
    BY <1>9, GrantType DEF Search
  <2>5. CallsOK'
    BY <1>9, <2>2, RequestType DEF Search
  <2> QED BY <2>1, <2>3, <2>4, <2>5
<1>10. ASSUME NEW t \in tokens, NEW c \in Clients, NEW h \in Handlers, NEW u \in Ids, FindUser(h, t, c, u)
       PROVE TypeOK'
  <2>1. AccountsOK'
    <3>1. UNCHANGED <<accounts, tokens>>
      BY <1>10 DEF FindUser
    <3> QED BY <3>1 DEF AccountsOK, accounts
  <2>3. CountersOK'
    <3>1. requests' \in Nat
      BY <1>10 DEF FindUser, Request, CountersOK
    <3> QED BY <1>10, <3>1 DEF FindUser, CountersOK, metrics
  <2>2. Job(u, "none", 0) \in Jobs
    <3>1. u \in 0..MaxUsers /\ 0 \in Nat
      BY GatewayBounds DEF Ids
    <3> QED BY <3>1, JobType
  <2>4. LimiterOK'
    BY <1>10, GrantType DEF FindUser
  <2>5. CallsOK'
    BY <1>10, <2>2, RequestType DEF FindUser
  <2> QED BY <2>1, <2>3, <2>4, <2>5
<1>11. CASE Tick
  <2>1. LimiterOK'
    BY <1>11, GatewayBounds DEF Tick, LimiterOK, limiter
  <2> QED BY <1>11, <2>1 DEF Tick, AccountsOK, CallsOK, CountersOK, metrics, accounts
<1>12. CASE Restart
  <2>1. LimiterOK'
    BY <1>12 DEF Restart, LimiterOK, Unknown
  <2>2. CallsOK'
    BY <1>12, NoneType DEF Restart, CallsOK
  <2>3. AccountsOK' /\ CountersOK'
    BY <1>12, GatewayBounds DEF Restart, AccountsOK, CountersOK, accounts
  <2> QED BY <2>1, <2>2, <2>3
<1>13. CASE UNCHANGED vars
  BY <1>13 DEF vars, LimiterOK, AccountsOK, CallsOK, CountersOK, limiter, metrics, accounts
<1> QED
  BY <1>1, <1>2, <1>3, <1>4, <1>5, <1>6, <1>7, <1>8, <1>9, <1>10, <1>11, <1>12, <1>13 DEF Next

-----------------------------------------------------------------------------
(* Whose role is what: AccountsInv. *)

LEMMA AccountsInit == Init => AccountsInv
BY DEF Init, AccountsInv, ClaimsAreCurrent

(* A step that leaves the tables, the tokens, and every login and deletion *)
(* under way as they are.                                                  *)
LEMMA AccountsFrame ==
    ASSUME AccountsInv, UNCHANGED <<users, lastUser, tokens>>,
           \A h \in Handlers : pc'[h] \in {"login", "delete"} => pc'[h] = pc[h] /\ job'[h] = job[h]
    PROVE  AccountsInv'
<1>1. ClaimsAreCurrent'
  BY DEF AccountsInv, ClaimsAreCurrent, IsAdmin
<1> QED BY <1>1 DEF AccountsInv

(* A new row has an id that no token, login or deletion knows. *)
LEMMA AccountsInsert ==
    ASSUME TypeOK, AccountsInv, NEW role \in Roles, Insert(role), UNCHANGED <<tokens, pc, job>>
    PROVE  AccountsInv'
<1>1. \A u \in Ids : u <= lastUser => users'[u] = users[u]
  BY DEF TypeOK, AccountsOK, Insert, Ids
<1>2. lastUser' = lastUser + 1
  BY DEF Insert
<1>3. ClaimsAreCurrent'
  BY <1>1 DEF AccountsInv, ClaimsAreCurrent, IsAdmin, TypeOK, AccountsOK
<1>4. \A u \in Ids : u <= lastUser => u <= lastUser'
  BY <1>2 DEF TypeOK, AccountsOK, Ids
<1> QED BY <1>1, <1>3, <1>4 DEF AccountsInv

LEMMA AccountsNext == ASSUME TypeOK, AccountsInv, [Next]_vars PROVE AccountsInv'
<1>1. ASSUME NEW role \in Roles, CreateUserCmd(role) PROVE AccountsInv'
  BY <1>1, AccountsInsert DEF CreateUserCmd
<1>2. ASSUME NEW h \in Handlers, NEW u \in Ids, Login(h, u) PROVE AccountsInv'
  <2>1. users[u] \in Roles /\ u <= lastUser
    BY <1>2 DEF Login, TypeOK, AccountsOK, Ids
  <2>2. pc' = [pc EXCEPT ![h] = "login"] /\ job' = [job EXCEPT ![h] = Job(u, users[u], 0)]
    BY <1>2 DEF Login, Request
  <2>3. UNCHANGED <<users, lastUser, tokens>>
    BY <1>2 DEF Login, accounts
  <2>4. pc'[h] = "login" /\ job'[h].uid = u /\ job'[h].role = users[u]
    BY <2>2 DEF TypeOK, CallsOK, Job
  <2>5. \A g \in Handlers \ {h} : pc'[g] = pc[g] /\ job'[g] = job[g]
    BY <2>2 DEF TypeOK, CallsOK
  <2>6. ClaimsAreCurrent'
    BY <2>3 DEF AccountsInv, ClaimsAreCurrent, IsAdmin
  <2> QED BY <2>1, <2>3, <2>4, <2>5, <2>6 DEF AccountsInv
<1>3. ASSUME NEW h \in Handlers, Sign(h) PROVE AccountsInv'
  <2>1. UNCHANGED <<users, lastUser>>
    BY <1>3 DEF Sign, accounts
  <2>2. \A g \in Handlers : pc'[g] \in {"login", "delete"} => pc'[g] = pc[g] /\ job'[g] = job[g]
    BY <1>3 DEF Sign, Finish, TypeOK, CallsOK
  <2>3. ClaimsAreCurrent'
    BY <1>3, <2>1 DEF Sign, AccountsInv, ClaimsAreCurrent, IsAdmin
  <2> QED BY <2>1, <2>2, <2>3 DEF AccountsInv
<1>4. ASSUME NEW h \in Handlers, DeleteUser(h) PROVE AccountsInv'
  <2> DEFINE u == job[h].uid
  <2>1. u \in Ids /\ users[u] # "admin"
    BY <1>4 DEF DeleteUser, AccountsInv
  <2>2. users' = [users EXCEPT ![u] = "none"] /\ UNCHANGED <<lastUser, tokens>>
    BY <1>4 DEF DeleteUser
  <2>3. \A v \in Ids : /\ users[v] = "admin" => users'[v] = "admin"
                       /\ users[v] # "admin" => users'[v] # "admin"
    BY <2>1, <2>2 DEF TypeOK, AccountsOK
  <2>4. \A g \in Handlers : pc'[g] \in {"login", "delete"} => pc'[g] = pc[g] /\ job'[g] = job[g]
    BY <1>4 DEF DeleteUser, Finish, TypeOK, CallsOK
  <2>5. ClaimsAreCurrent'
    BY <2>2, <2>3 DEF AccountsInv, ClaimsAreCurrent, IsAdmin, TypeOK, AccountsOK
  <2> QED BY <2>2, <2>3, <2>4, <2>5 DEF AccountsInv
<1>5. ASSUME NEW h \in Handlers, NEW err5xx \in BOOLEAN, Answer(h, err5xx) PROVE AccountsInv'
  <2>1. \A g \in Handlers : pc'[g] \in {"login", "delete"} => pc'[g] = pc[g] /\ job'[g] = job[g]
    BY <1>5 DEF Answer, Finish, TypeOK, CallsOK
  <2> QED BY <1>5, <2>1, AccountsFrame DEF Answer, accounts
<1>6. ASSUME NEW t \in tokens, NEW c \in Clients, TooMany(t, c) PROVE AccountsInv'
  BY <1>6, AccountsFrame DEF TooMany, accounts
<1>7. ASSUME NEW t \in tokens, NEW c \in Clients, Other(t, c) PROVE AccountsInv'
  BY <1>7, AccountsFrame DEF Other, accounts
<1>8. ASSUME NEW t \in tokens, NEW c \in Clients, NEW role \in Roles, CreateUser(t, c, role)
      PROVE  AccountsInv'
  BY <1>8, AccountsInsert DEF CreateUser
<1>9. ASSUME NEW t \in tokens, NEW c \in Clients, NEW h \in Handlers, Search(h, t, c) PROVE AccountsInv'
  <2>1. \A g \in Handlers : pc'[g] \in {"login", "delete"} => pc'[g] = pc[g] /\ job'[g] = job[g]
    BY <1>9 DEF Search, Request, TypeOK, CallsOK
  <2> QED BY <1>9, <2>1, AccountsFrame DEF Search, accounts
<1>10. ASSUME NEW t \in tokens, NEW c \in Clients, NEW h \in Handlers, NEW u \in Ids, FindUser(h, t, c, u)
       PROVE AccountsInv'
  <2>1. users[u] \notin {"none", "admin"} /\ u <= lastUser
    BY <1>10 DEF FindUser, MayDelete, TypeOK, AccountsOK, Ids
  <2>2. pc' = [pc EXCEPT ![h] = "delete"] /\ job' = [job EXCEPT ![h] = Job(u, "none", 0)]
    BY <1>10 DEF FindUser, Request
  <2>3. UNCHANGED <<users, lastUser, tokens>>
    BY <1>10 DEF FindUser, accounts
  <2>4. pc'[h] = "delete" /\ job'[h].uid = u
    BY <2>2 DEF TypeOK, CallsOK, Job
  <2>5. \A g \in Handlers \ {h} : pc'[g] = pc[g] /\ job'[g] = job[g]
    BY <2>2 DEF TypeOK, CallsOK
  <2>6. ClaimsAreCurrent'
    BY <2>3 DEF AccountsInv, ClaimsAreCurrent, IsAdmin
  <2> QED BY <2>1, <2>3, <2>4, <2>5, <2>6 DEF AccountsInv
<1>11. CASE Tick
  BY <1>11, AccountsFrame DEF Tick, accounts
<1>12. CASE Restart
  <2>1. \A g \in Handlers : pc'[g] \notin {"login", "delete"}
    BY <1>12 DEF Restart
  <2> QED BY <1>12, <2>1, AccountsFrame DEF Restart, accounts
<1>13. CASE UNCHANGED vars
  BY <1>13, AccountsFrame DEF vars, accounts
<1> QED
  BY <1>1, <1>2, <1>3, <1>4, <1>5, <1>6, <1>7, <1>8, <1>9, <1>10, <1>11, <1>12, <1>13 DEF Next

-----------------------------------------------------------------------------
(* Every variable keeps its type, and ids stay in the order they are given *)
(* (ratelimit.go, metrics.go, and the handlers of users and logins).       *)
THEOREM TypeCorrect == Spec => []TypeOK
<1>1. Init => TypeOK /\ AccountsInv
  BY TypeInit, AccountsInit
<1>2. TypeOK /\ AccountsInv /\ [Next]_vars => (TypeOK /\ AccountsInv)'
  BY TypeNext, AccountsNext
<1> QED BY <1>1, <1>2, PTL DEF Spec

(* Whoever holds an admin's token is an admin to this day: adminOnly may   *)
(* believe the claims, though it never looks at the table of users.        *)
THEOREM ClaimsCurrent == Spec => []ClaimsAreCurrent
<1>1. Init => TypeOK /\ AccountsInv
  BY TypeInit, AccountsInit
<1>2. TypeOK /\ AccountsInv /\ [Next]_vars => (TypeOK /\ AccountsInv)'
  BY TypeNext, AccountsNext
<1>3. AccountsInv => ClaimsAreCurrent
  BY DEF AccountsInv
<1> QED BY <1>1, <1>2, <1>3, PTL DEF Spec

-----------------------------------------------------------------------------
(* What passes the limiter: WindowInv. *)

LEMMA ElementType ==
    ASSUME NEW S, NEW s \in Seq(S), NEW k \in 1..Len(s) PROVE s[k] \in S
OBVIOUS

LEMMA GrantsShape ==
    ASSUME TypeOK, NEW c \in Clients
    PROVE  /\ Len(grants[c]) \in Nat
           /\ \A k \in 1..Len(grants[c]) : grants[c][k].at \in Nat /\ grants[c][k].start \in Nat
           /\ last[c] \in Nat /\ counts[c] \in Nat /\ now \in Nat /\ now >= 1 /\ qps \in Nat
<1>1. grants[c] \in Seq([at : Nat, start : Nat])
  BY DEF TypeOK, LimiterOK
<1>2. \A k \in 1..Len(grants[c]) : grants[c][k] \in [at : Nat, start : Nat]
  BY <1>1, ElementType
<1>3. last[c] \in Nat /\ counts[c] \in Nat /\ now \in Nat /\ now >= 1 /\ qps \in Nat
  BY GatewayBounds DEF TypeOK, LimiterOK
<1> QED BY <1>1, <1>2, <1>3

LEMMA WindowInit == Init => WindowInv
BY DEF Init, WindowInv, WindowOf, Unknown

LEMMA WindowFrame ==
    ASSUME WindowInv, UNCHANGED <<now, qps, last, counts, grants>>
    PROVE  WindowInv'
BY DEF WindowInv, WindowOf

(* The request that passes joins the window it was counted in. *)
LEMMA WindowGrant ==
    ASSUME TypeOK, WindowInv, NEW c \in Clients, Grant(c), UNCHANGED <<now, qps>>
    PROVE  WindowInv'
<1> SUFFICES ASSUME qps > 0, NEW d \in Clients PROVE WindowOf(d)'
  BY DEF WindowInv
<1>1. WindowOf(d) /\ qps # 0
  BY DEF WindowInv
<1>2. CASE d # c
  <2>1. last'[d] = last[d] /\ counts'[d] = counts[d] /\ grants'[d] = grants[d]
    BY <1>1, <1>2 DEF Grant, Count, TypeOK, LimiterOK
  <2> QED BY <1>1, <2>1 DEF WindowOf
<1>3. CASE d = c
  <2> DEFINE G == grants[c]  n == Len(G)  H == grants'[c]  g == [at |-> now, start |-> Start(c)]
  <2>1. H = Append(G, g)
    BY <1>1 DEF Grant, TypeOK, LimiterOK
  <2>2. /\ last'[c] = Start(c)
        /\ counts'[c] = IF NewWindow(c) THEN 1 ELSE counts[c] + 1
    BY <1>1 DEF Grant, Count, TypeOK, LimiterOK
  <2>3. G \in Seq([at : Nat, start : Nat])
    BY DEF TypeOK, LimiterOK
  <2>4. /\ Len(H) = n + 1 /\ n \in Nat
        /\ \A k \in 1..n : H[k] = G[k]
        /\ H[n + 1] = g
    BY <2>1, <2>3
  <2>5. g.at = now /\ g.start = Start(c)
    OBVIOUS
  <2>6. /\ \A k \in 1..n : G[k].at \in Nat /\ G[k].start \in Nat
        /\ last[c] \in Nat /\ counts[c] \in Nat /\ now \in Nat /\ now >= 1 /\ qps \in Nat
        /\ Window \in Nat /\ Window > 0
    BY GrantsShape, GatewayBounds
  <2>7. /\ last[c] <= now
        /\ \A k \in 1..n : 1 <= G[k].start /\ G[k].start <= G[k].at /\ G[k].at < G[k].start + Window
        /\ \A k \in 1..n : G[k].start = last[c] \/ G[k].start + Window <= last[c]
        /\ \A k \in 1..n : G[k].start = last[c] => n - k < counts[c]
        /\ \A i, j \in 1..n : i + qps <= j => G[i].start + Window <= G[j].start
    BY <1>1, <1>3 DEF WindowOf
  <2> HIDE DEF g, H, n, G
  <2>8. /\ 1 <= Start(c) /\ Start(c) <= now /\ now < Start(c) + Window
        /\ \A k \in 1..n : G[k].start = Start(c) \/ G[k].start + Window <= Start(c)
        /\ \A k \in 1..n : G[k].start = Start(c) => n + 1 - k < counts'[c]
        /\ 0 < counts'[c]
        /\ \A i \in 1..n : i + qps <= n + 1 => G[i].start + Window <= Start(c)
    <3>1. CASE NewWindow(c)
      <4>1. Start(c) = now /\ counts'[c] = 1
        BY <2>2, <3>1 DEF Start
      <4>2. \A k \in 1..n : G[k].start + Window <= now
        BY <2>6, <2>7, <3>1 DEF NewWindow, Unknown
      <4> QED BY <2>4, <2>6, <4>1, <4>2
    <3>2. CASE ~NewWindow(c)
      <4>1. Start(c) = last[c] /\ counts'[c] = counts[c] + 1
        BY <2>2, <3>2 DEF Start
      <4>2. 1 <= last[c] /\ now < last[c] + Window
        BY <2>6, <3>2 DEF NewWindow, Unknown
      <4>3. counts[c] + 1 <= qps
        BY <1>1, <3>2 DEF Grant, Allowed
      <4>4. \A i \in 1..n : i + qps <= n + 1 => G[i].start + Window <= last[c]
        BY <2>4, <2>6, <2>7, <4>3
      <4> QED BY <2>4, <2>6, <2>7, <4>1, <4>2, <4>4
    <3> QED BY <3>1, <3>2
  <2>9. \A k \in 1..(n + 1) : /\ k \in 1..n => H[k] = G[k]
                              /\ k \notin 1..n => k = n + 1 /\ H[k].at = now /\ H[k].start = Start(c)
    BY <2>4, <2>5
  <2>10. \A k \in 1..(n + 1) :
            1 <= H[k].start /\ H[k].start <= H[k].at /\ H[k].at < H[k].start + Window
    BY <2>7, <2>8, <2>9
  <2>11. \A k \in 1..(n + 1) : H[k].start = Start(c) \/ H[k].start + Window <= Start(c)
    BY <2>8, <2>9
  <2>12. \A k \in 1..(n + 1) : H[k].start = Start(c) => n + 1 - k < counts'[c]
    BY <2>4, <2>8, <2>9
  <2>13. \A i, j \in 1..(n + 1) : i + qps <= j => H[i].start + Window <= H[j].start
    <3> SUFFICES ASSUME NEW i \in 1..(n + 1), NEW j \in 1..(n + 1), i + qps <= j
                 PROVE  H[i].start + Window <= H[j].start
      OBVIOUS
    <3>1. i \in 1..n
      BY <1>1, <2>4, <2>6
    <3>2. CASE j \in 1..n
      BY <2>7, <2>9, <3>1, <3>2
    <3>3. CASE j \notin 1..n
      BY <2>8, <2>9, <3>1, <3>3
    <3> QED BY <3>2, <3>3
  <2>14. last'[c] <= now'
    BY <2>2, <2>8
  <2> QED BY <1>3, <2>2, <2>4, <2>10, <2>11, <2>12, <2>13, <2>14 DEF WindowOf, H
<1> QED BY <1>2, <1>3

(* A request that is turned away is counted, but does not begin a window. *)
LEMMA WindowRefuse ==
    ASSUME TypeOK, WindowInv, NEW c \in Clients, ~Allowed(c), Count(c), UNCHANGED <<now, qps, grants>>
    PROVE  WindowInv'
<1> SUFFICES ASSUME qps > 0, NEW d \in Clients PROVE WindowOf(d)'
  BY DEF WindowInv
<1>1. WindowOf(d) /\ qps # 0 /\ ~NewWindow(c)
  BY DEF WindowInv, Allowed
<1>2. last' = last /\ counts'[d] >= counts[d] /\ counts'[d] \in Nat
  <2>1. last' = [last EXCEPT ![c] = last[c]] /\ counts' = [counts EXCEPT ![c] = counts[c] + 1]
    BY <1>1 DEF Count, Start
  <2>2. last \in [Clients -> Nat] /\ counts \in [Clients -> Nat]
    BY DEF TypeOK, LimiterOK
  <2>3. counts'[d] = IF d = c THEN counts[d] + 1 ELSE counts[d]
    BY <2>1, <2>2
  <2>4. last' = last
    BY <2>1, <2>2
  <2> QED BY <2>2, <2>3, <2>4
<1>3. Len(grants[d]) \in Nat /\ counts[d] \in Nat
  BY GrantsShape
<1>4. \A k \in 1..Len(grants[d]) :
         Len(grants[d]) - k < counts[d] => Len(grants[d]) - k < counts'[d]
  BY <1>2, <1>3
<1> QED BY <1>1, <1>2, <1>4 DEF WindowOf

LEMMA WindowNext == ASSUME TypeOK, WindowInv, [Next]_vars PROVE WindowInv'
<1>1. ASSUME NEW role \in Roles, CreateUserCmd(role) PROVE WindowInv'
  BY <1>1, WindowFrame DEF CreateUserCmd, limiter
<1>2. ASSUME NEW h \in Handlers, NEW u \in Ids, Login(h, u) PROVE WindowInv'
  BY <1>2, WindowFrame DEF Login, limiter
<1>3. ASSUME NEW h \in Handlers, Sign(h) \/ DeleteUser(h) PROVE WindowInv'
  BY <1>3, WindowFrame DEF Sign, DeleteUser, limiter
<1>4. ASSUME NEW h \in Handlers, NEW err5xx \in BOOLEAN, Answer(h, err5xx) PROVE WindowInv'
  BY <1>4, WindowFrame DEF Answer, limiter
<1>5. ASSUME NEW t \in tokens, NEW c \in Clients, TooMany(t, c) PROVE WindowInv'
  BY <1>5, WindowRefuse DEF TooMany
<1>6. ASSUME NEW t \in tokens, NEW c \in Clients, Other(t, c) PROVE WindowInv'
  BY <1>6, WindowGrant DEF Other
<1>7. ASSUME NEW t \in tokens, NEW c \in Clients, NEW role \in Roles, CreateUser(t, c, role)
      PROVE  WindowInv'
  BY <1>7, WindowGrant DEF CreateUser
<1>8. ASSUME NEW t \in tokens, NEW c \in Clients, NEW h \in Handlers, Search(h, t, c) PROVE WindowInv'
  BY <1>8, WindowGrant DEF Search
<1>9. ASSUME NEW t \in tokens, NEW c \in Clients, NEW h \in Handlers, NEW u \in Ids, FindUser(h, t, c, u)
      PROVE  WindowInv'
  BY <1>9, WindowGrant DEF FindUser
<1>10. CASE Tick
  <2>1. \A c \in Clients : last[c] <= now => last[c] <= now'
    BY <1>10, GrantsShape DEF Tick
  <2> QED BY <1>10, <2>1 DEF Tick, limiter, WindowInv, WindowOf
<1>11. CASE Restart
  <2>1. \A c \in Clients : grants'[c] = <<>> /\ last'[c] = 0 /\ now' \in Nat
    BY <1>11 DEF Restart, Unknown, TypeOK, LimiterOK
  <2> QED BY <2>1 DEF WindowInv, WindowOf
<1>12. CASE UNCHANGED vars
  BY <1>12, WindowFrame DEF vars, limiter
<1> QED
  BY <1>1, <1>2, <1>3, <1>4, <1>5, <1>6, <1>7, <1>8, <1>9, <1>10, <1>11, <1>12 DEF Next

LEMMA TwoWindows ==
    ASSUME TypeOK, WindowInv, qps > 0, NEW c \in Clients,
           NEW k \in 1..Len(grants[c]), NEW i \in 1..Len(grants[c]), NEW j \in 1..Len(grants[c]),
           k + qps <= i, i + qps <= j
    PROVE  grants[c][j].at >= grants[c][k].at + Window
<1> DEFINE a == grants[c][k].at  b == grants[c][k].start  d == grants[c][i].start
           e == grants[c][j].start  f == grants[c][j].at
<1>1. a < b + Window /\ b + Window <= d /\ d + Window <= e /\ e <= f
  BY DEF WindowInv, WindowOf
<1>2. a \in Nat /\ b \in Nat /\ d \in Nat /\ e \in Nat /\ f \in Nat /\ Window \in Nat
  BY GrantsShape, GatewayBounds
<1> HIDE DEF a, b, d, e, f
<1>3. f >= a + Window
  BY <1>1, <1>2
<1> QED BY <1>3 DEF a, f

LEMMA WindowSuffices == ASSUME TypeOK, WindowInv PROVE WindowBound
<1> SUFFICES ASSUME qps > 0, NEW c \in Clients, NEW k \in 1..Len(grants[c]), k + 2 * qps <= Len(grants[c])
             PROVE  grants[c][k + 2 * qps].at >= grants[c][k].at + Window
  BY DEF WindowBound
<1>1. Len(grants[c]) \in Nat /\ qps \in Nat
  BY GrantsShape
<1>2. /\ k + qps \in 1..Len(grants[c]) /\ k + 2 * qps \in 1..Len(grants[c])
      /\ k + qps <= k + qps /\ (k + qps) + qps <= k + 2 * qps
  BY <1>1
<1> QED BY <1>2, TwoWindows

(* Of 2 * qps + 1 requests of an address that pass, the last comes at      *)
(* least a window after the first (rateLimiter.allow, ratelimit.go).       *)
THEOREM WindowBounded == Spec => []WindowBound
<1>1. Init => TypeOK /\ AccountsInv /\ WindowInv
  BY TypeInit, AccountsInit, WindowInit
<1>2. TypeOK /\ AccountsInv /\ WindowInv /\ [Next]_vars => (TypeOK /\ AccountsInv /\ WindowInv)'
  BY TypeNext, AccountsNext, WindowNext
<1>3. TypeOK /\ WindowInv => WindowBound
  BY WindowSuffices
<1> QED BY <1>1, <1>2, <1>3, PTL DEF Spec

-----------------------------------------------------------------------------
(* The counters of one scrape: MetricsAddUp is inductive. *)

Searching == {h \in Handlers : pc[h] = "search"}

LEMMA SearchingFinite ==
    /\ IsFiniteSet(Searching) /\ Cardinality(Searching) \in Nat
    /\ IsFiniteSet(Searching') /\ Cardinality(Searching') \in Nat
<1>1. Searching \subseteq Handlers /\ Searching' \subseteq Handlers
  BY DEF Searching
<1> QED BY <1>1, FiniteHandlers, FS_Subset, FS_CardinalityType

(* After a start: nothing is counted, nobody searches. *)
Unused ==
    /\ total = 0 /\ errors5xx = 0 /\ searches = 0
    /\ bucketCnt = [i \in 1..Len(Limits) |-> 0]
    /\ \A h \in Handlers : pc[h] = "idle"

LEMMA MetricsStart == Unused => MetricsAddUp
<1> SUFFICES ASSUME Unused PROVE MetricsAddUp
  OBVIOUS
<1> USE DEF Unused
<1>1. {h \in Handlers : pc[h] = "search"} = {}
  OBVIOUS
<1>2. Cardinality({}) = 0
  BY FS_EmptySet
<1>3. \A i \in DOMAIN bucketCnt : bucketCnt[i] = 0
  OBVIOUS
<1>4. \A i \in DOMAIN bucketCnt : bucketCnt[i] <= total
  BY <1>3
<1>5. \A i, j \in DOMAIN bucketCnt : bucketCnt[i] <= bucketCnt[j]
  BY <1>3
<1>6. total + Cardinality({h \in Handlers : pc[h] = "search"}) = searches /\ errors5xx <= total
  <2> DEFINE n == Cardinality({h \in Handlers : pc[h] = "search"})
  <2>1. n = 0
    BY <1>1, <1>2
  <2> HIDE DEF n
  <2>2. total + n = searches /\ errors5xx <= total
    BY <2>1
  <2> QED BY <2>2 DEF n
<1> QED BY <1>4, <1>5, <1>6 DEF MetricsAddUp

(* A step that counts nothing, of no search. *)
LEMMA MetricsFrame ==
    ASSUME MetricsAddUp, UNCHANGED <<total, errors5xx, bucketCnt, searches>>,
           \A h \in Handlers : pc'[h] = "search" <=> pc[h] = "search"
    PROVE  MetricsAddUp'
<1>1. {h \in Handlers : pc'[h] = "search"} = {h \in Handlers : pc[h] = "search"}
  OBVIOUS
<1> QED BY <1>1 DEF MetricsAddUp

(* A request that is no search begins; one that is none ends. *)
LEMMA MetricsOther ==
    ASSUME TypeOK, MetricsAddUp, UNCHANGED <<total, errors5xx, bucketCnt, searches>>,
           NEW h \in Handlers, NEW l, pc' = [pc EXCEPT ![h] = l], pc[h] # "search", l # "search"
    PROVE  MetricsAddUp'
<1>1. \A g \in Handlers : pc'[g] = "search" <=> pc[g] = "search"
  BY DEF TypeOK, CallsOK
<1> QED BY <1>1, MetricsFrame

LEMMA MetricsSearch ==
    ASSUME TypeOK, MetricsAddUp, NEW h \in Handlers, NEW t, NEW c, Search(h, t, c)
    PROVE  MetricsAddUp'
<1>1. /\ UNCHANGED <<total, errors5xx, bucketCnt>> /\ searches' = searches + 1
      /\ pc' = [pc EXCEPT ![h] = "search"] /\ pc[h] = "idle"
  BY DEF Search, Request, metrics
<1>2. Searching' = Searching \cup {h} /\ h \notin Searching
  BY <1>1 DEF Searching, TypeOK, CallsOK
<1>3. Cardinality(Searching') = Cardinality(Searching) + 1
  BY <1>2, SearchingFinite, FS_AddElement
<1>4. total + Cardinality(Searching) = searches
  BY DEF MetricsAddUp, Searching
<1>5. total' + Cardinality(Searching') = searches'
  BY <1>1, <1>3, <1>4, SearchingFinite DEF TypeOK, CountersOK
<1> QED BY <1>1, <1>5 DEF MetricsAddUp, Searching

LEMMA MetricsAnswer ==
    ASSUME TypeOK, MetricsAddUp, NEW h \in Handlers, NEW err5xx \in BOOLEAN, Answer(h, err5xx)
    PROVE  MetricsAddUp'
<1> DEFINE N == 1..Len(Limits)
           sec == now - job[h].start
           fits(i) == sec <= Limits[i]
<1>1. /\ total' = total + 1 /\ searches' = searches
      /\ errors5xx' = IF err5xx THEN errors5xx + 1 ELSE errors5xx
      /\ bucketCnt' = [i \in DOMAIN bucketCnt |-> IF fits(i) THEN bucketCnt[i] + 1 ELSE bucketCnt[i]]
      /\ pc[h] = "search" /\ pc' = [pc EXCEPT ![h] = "idle"]
  BY DEF Answer, Observe, Finish
<1>2. /\ total \in Nat /\ errors5xx \in Nat /\ searches \in Nat
      /\ DOMAIN bucketCnt = N /\ \A i \in N : bucketCnt[i] \in Nat
  BY DEF TypeOK, CountersOK
<1>3. total' + Cardinality(Searching') = searches'
  <2>1. Searching' = Searching \ {h} /\ h \in Searching
    BY <1>1 DEF Searching, TypeOK, CallsOK
  <2>2. Cardinality(Searching') = Cardinality(Searching) - 1
    BY <2>1, SearchingFinite, FS_RemoveElement
  <2>3. total + Cardinality(Searching) = searches
    BY DEF MetricsAddUp, Searching
  <2> QED BY <1>1, <1>2, <2>2, <2>3, SearchingFinite
<1>4. errors5xx' <= total'
  BY <1>1, <1>2 DEF MetricsAddUp
<1>5. \A i, j \in N : i <= j => (fits(i) => fits(j))
  <2>1. sec \in Int
    BY DEF TypeOK, LimiterOK, CallsOK, Jobs
  <2>2. \A i \in N : Limits[i] \in Nat
    BY GatewayBounds, ElementType
  <2> HIDE DEF sec
  <2> QED BY <2>1, <2>2, LimitsAscend
<1> HIDE DEF fits
<1>6. /\ DOMAIN bucketCnt' = N
      /\ \A i \in N : bucketCnt'[i] = IF fits(i) THEN bucketCnt[i] + 1 ELSE bucketCnt[i]
  BY <1>1, <1>2
<1>7. \A i, j \in N : i <= j => bucketCnt'[i] <= bucketCnt'[j]
  <2> TAKE i, j \in N
  <2> HAVE i <= j
  <2>1. bucketCnt[i] <= bucketCnt[j] /\ (fits(i) => fits(j))
    BY <1>2, <1>5 DEF MetricsAddUp
  <2>2. bucketCnt[i] \in Nat /\ bucketCnt[j] \in Nat
    BY <1>2
  <2> QED BY <1>6, <2>1, <2>2
<1>8. \A i \in N : bucketCnt'[i] <= total'
  <2> TAKE i \in N
  <2>1. bucketCnt[i] <= total /\ bucketCnt[i] \in Nat
    BY <1>2 DEF MetricsAddUp
  <2> QED BY <1>1, <1>2, <1>6, <2>1
<1> QED BY <1>3, <1>4, <1>6, <1>7, <1>8 DEF MetricsAddUp, Searching

LEMMA MetricsNext == ASSUME TypeOK, MetricsAddUp, [Next]_vars PROVE MetricsAddUp'
<1>1. ASSUME NEW role \in Roles, CreateUserCmd(role) PROVE MetricsAddUp'
  BY <1>1, MetricsFrame DEF CreateUserCmd, metrics
<1>2. ASSUME NEW h \in Handlers, NEW u \in Ids, Login(h, u) PROVE MetricsAddUp'
  BY <1>2, MetricsOther DEF Login, Request, metrics
<1>3. ASSUME NEW h \in Handlers, Sign(h) \/ DeleteUser(h) PROVE MetricsAddUp'
  BY <1>3, MetricsOther DEF Sign, DeleteUser, Finish, metrics
<1>4. ASSUME NEW t \in tokens, NEW c \in Clients, TooMany(t, c) \/ Other(t, c) PROVE MetricsAddUp'
  BY <1>4, MetricsFrame DEF TooMany, Other, metrics
<1>5. ASSUME NEW t \in tokens, NEW c \in Clients, NEW role \in Roles, CreateUser(t, c, role)
      PROVE  MetricsAddUp'
  BY <1>5, MetricsFrame DEF CreateUser, metrics
<1>6. ASSUME NEW t \in tokens, NEW c \in Clients, NEW h \in Handlers, NEW u \in Ids, FindUser(h, t, c, u)
      PROVE  MetricsAddUp'
  BY <1>6, MetricsOther DEF FindUser, Request, metrics
<1>7. CASE Tick
  BY <1>7, MetricsFrame DEF Tick, metrics
<1>8. CASE Restart
  <2>1. Unused'
    BY <1>8 DEF Restart, Unused
  <2> QED BY <2>1, MetricsStart, PTL
<1>9. CASE UNCHANGED vars
  BY <1>9, MetricsFrame DEF vars, metrics
<1> QED
  BY <1>1, <1>2, <1>3, <1>4, <1>5, <1>6, <1>7, <1>8, <1>9, MetricsSearch, MetricsAnswer DEF Next

(* Whichever way a search ends, it is counted once, and the numbers of a   *)
(* scrape add up (searchMetrics.observe, metrics.go; handleSearch).        *)
THEOREM ScrapesAddUp == Spec => []MetricsAddUp
<1>1. Init => TypeOK /\ AccountsInv /\ MetricsAddUp
  <2>1. Init => MetricsAddUp
    BY MetricsStart DEF Init, Unused
  <2> QED BY <2>1, TypeInit, AccountsInit
<1>2. TypeOK /\ AccountsInv /\ MetricsAddUp /\ [Next]_vars => (TypeOK /\ AccountsInv /\ MetricsAddUp)'
  BY TypeNext, AccountsNext, MetricsNext
<1> QED BY <1>1, <1>2, PTL DEF Spec
=============================================================================

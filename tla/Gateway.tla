------------------------------- MODULE Gateway -------------------------------
(***************************************************************************)
(* What stands between a client and the handlers (internal/api, auth):     *)
(* tokens signed at login and trusted until they expire, the limiter of    *)
(* requests per address, the counters of searches, and the handlers that   *)
(* add and delete users.  Every request runs in a goroutine of its own.    *)
(*                                                                         *)
(* A username is unique, so users are their ids; a request that is refused *)
(* without a change of state (401, 403, 400, 404, 409) is left out, but    *)
(* for what it cost at the limiter.  The latency of a search is in ticks   *)
(* of the clock; Limits are the bounds of the histogram in ticks.          *)
(***************************************************************************)
EXTENDS Naturals, Sequences, FiniteSets

CONSTANTS
    Clients,      \* addresses
    Handlers,     \* goroutines of requests
    Limits,       \* the bounds of the histogram, ascending
    Window,       \* ticks in a window of the limiter
    Ttl,          \* ticks until a token expires
    MaxQps,       \* bound: the limit in the configuration; 0 switches it off
    MaxTime,      \* bound: ticks
    MaxRequests,  \* bound: requests
    MaxUsers,     \* bound: users ever created
    MaxRestarts   \* bound: restarts

ASSUME GatewayBounds ==
    /\ Limits \in Seq(Nat) /\ Window \in Nat \ {0} /\ Ttl \in Nat
    /\ MaxQps \in Nat /\ MaxTime \in Nat /\ MaxRequests \in Nat
    /\ MaxUsers \in Nat /\ MaxRestarts \in Nat
ASSUME FiniteHandlers == IsFiniteSet(Handlers)
ASSUME LimitsAscend == \A i, j \in 1..Len(Limits) : i <= j => Limits[i] <= Limits[j]

VARIABLES
    now,                        \* the clock
    qps,                        \* rate_limit.qps, or 0 if it is not enabled
    last, counts,               \* rateLimiter: start of the window and requests in it, per address
    total, errors5xx, errors429, bucketCnt,   \* searchMetrics
    users, lastUser,            \* roles of the rows of users; the last id given
    tokens,                     \* tokens ever signed
    pc, job,                    \* each handler: where it is, and its locals
    (* history since the process started *)
    grants,                     \* per address: when each request passed, and the window's start
    searches,                   \* searches that passed the limiter
    (* bounds *)
    requests, restarts

limiter == <<last, counts, grants>>
metrics == <<total, errors5xx, errors429, bucketCnt>>
accounts == <<users, lastUser>>
vars == <<now, qps, limiter, metrics, accounts, tokens, pc, job, searches, requests, restarts>>

Ids == 1..MaxUsers
Roles == {"admin", "viewer", "other"}   \* handleCreateUser takes any text
Job(u, role, start) == [uid |-> u, role |-> role, start |-> start]
None == Job(0, "none", 0)

Unknown == 0   \* last: no window yet; the clock starts at 1

Init ==
    /\ now = 1
    /\ qps \in 0..MaxQps
    /\ last = [c \in Clients |-> Unknown]
    /\ counts = [c \in Clients |-> 0]
    /\ grants = [c \in Clients |-> <<>>]
    /\ total = 0 /\ errors5xx = 0 /\ errors429 = 0
    /\ bucketCnt = [i \in 1..Len(Limits) |-> 0]
    /\ users = [u \in Ids |-> "none"] /\ lastUser = 0
    /\ tokens = {}
    /\ pc = [h \in Handlers |-> "idle"]
    /\ job = [h \in Handlers |-> None]
    /\ searches = 0 /\ requests = 0 /\ restarts = 0

-----------------------------------------------------------------------------
(* Mutant of Insert: ids of deleted rows are given again. *)
InsertAgain(role) ==
    \E u \in Ids : users[u] = "none" /\ users' = [users EXCEPT ![u] = role] /\ UNCHANGED lastUser

(* The next row of users. *)
Insert(role) ==
    /\ lastUser < MaxUsers
    /\ lastUser' = lastUser + 1
    /\ users' = [users EXCEPT ![lastUser + 1] = role]

(* `searchmiddleware user:create`, a process of its own. *)
CreateUserCmd(role) ==
    /\ role \in {"admin", "viewer"}
    /\ Insert(role)
    /\ UNCHANGED <<now, qps, limiter, metrics, tokens, pc, job, searches, requests, restarts>>

Request(h, l, j) ==
    /\ pc[h] = "idle" /\ requests < MaxRequests
    /\ requests' = requests + 1
    /\ pc' = [pc EXCEPT ![h] = l]
    /\ job' = [job EXCEPT ![h] = j]

Finish(h) ==
    /\ pc' = [pc EXCEPT ![h] = "idle"]
    /\ job' = [job EXCEPT ![h] = None]

(* Login reads the row, spends its time on the password, then signs what it read. *)
Login(h, u) ==
    /\ users[u] # "none"
    /\ Request(h, "login", Job(u, users[u], 0))
    /\ UNCHANGED <<now, qps, limiter, metrics, accounts, tokens, searches, restarts>>

Sign(h) ==
    /\ pc[h] = "login"
    /\ tokens' = tokens \cup {[uid |-> job[h].uid, role |-> job[h].role, exp |-> now + Ttl]}
    /\ Finish(h)
    /\ UNCHANGED <<now, qps, limiter, metrics, accounts, searches, requests, restarts>>

-----------------------------------------------------------------------------
(* The middlewares of every route but login and health.  The claims of a   *)
(* token are believed until it expires; the table is not asked.            *)
Verified(t) == now < t.exp
IsAdmin(t)  == t.role = "admin"

(* Mutant of NewWindow: reaching the limit begins a new window. *)
NewWindowAfterRefusal(c) ==
    last[c] = Unknown \/ now - last[c] >= Window \/ counts[c] >= qps

NewWindow(c) == last[c] = Unknown \/ now - last[c] >= Window

(* rateLimiter.allow: does the next request of address c pass? *)
Allowed(c) == qps = 0 \/ NewWindow(c) \/ counts[c] + 1 <= qps

Start(c) == IF NewWindow(c) THEN now ELSE last[c]

Count(c) ==
    IF qps = 0 THEN UNCHANGED <<last, counts>>
    ELSE /\ last' = [last EXCEPT ![c] = Start(c)]
         /\ counts' = [counts EXCEPT ![c] = IF NewWindow(c) THEN 1 ELSE @ + 1]

Grant(c) ==
    /\ Allowed(c)
    /\ Count(c)
    /\ grants' = [grants EXCEPT ![c] = IF qps = 0 THEN @ ELSE Append(@, [at |-> now, start |-> Start(c)])]

(* A request that is turned away, whatever it asks for. *)
TooMany(t, c) ==
    /\ Verified(t) /\ ~Allowed(c)
    /\ requests < MaxRequests /\ requests' = requests + 1
    /\ Count(c)
    /\ errors429' = errors429 + 1
    /\ UNCHANGED <<now, qps, grants, total, errors5xx, bucketCnt, accounts, tokens, pc, job, searches, restarts>>

(* handleSearch: the deferred observe counts it whichever way it ends. *)
Search(h, t, c) ==
    /\ Verified(t)
    /\ Grant(c)
    /\ Request(h, "search", Job(0, "none", now))
    /\ searches' = searches + 1
    /\ UNCHANGED <<now, qps, metrics, accounts, tokens, restarts>>

(* Mutant of Observe: not deferred, so an early return is not counted. *)
ObserveInAnswerOnly(sec, err5xx) ==
    IF err5xx THEN UNCHANGED <<total, errors5xx, bucketCnt>>
    ELSE /\ total' = total + 1
         /\ bucketCnt' = [i \in DOMAIN bucketCnt |-> IF sec <= Limits[i] THEN bucketCnt[i] + 1 ELSE bucketCnt[i]]
         /\ UNCHANGED errors5xx

(* Counted in every bucket it fits in: the buckets are cumulative. *)
Observe(sec, err5xx) ==
    /\ total' = total + 1
    /\ errors5xx' = IF err5xx THEN errors5xx + 1 ELSE errors5xx
    /\ bucketCnt' = [i \in DOMAIN bucketCnt |-> IF sec <= Limits[i] THEN bucketCnt[i] + 1 ELSE bucketCnt[i]]

Answer(h, err5xx) ==
    /\ pc[h] = "search"
    /\ Observe(now - job[h].start, err5xx)
    /\ Finish(h)
    /\ UNCHANGED <<now, qps, limiter, errors429, accounts, tokens, searches, requests, restarts>>

-----------------------------------------------------------------------------
(* The handlers of users, behind adminOnly.  Any other request costs the   *)
(* limiter as much and is not counted.                                     *)
Other(t, c) ==
    /\ Verified(t)
    /\ requests < MaxRequests /\ requests' = requests + 1
    /\ Grant(c)
    /\ UNCHANGED <<now, qps, metrics, accounts, tokens, pc, job, searches, restarts>>

CreateUser(t, c, role) ==
    /\ Verified(t) /\ IsAdmin(t)
    /\ requests < MaxRequests /\ requests' = requests + 1
    /\ Grant(c)
    /\ Insert(role)
    /\ UNCHANGED <<now, qps, metrics, tokens, pc, job, searches, restarts>>

(* Mutant of MayDelete: admins are not spared. *)
MayDeleteAnother(t, u) == t.uid # u /\ users[u] # "none"

(* Neither oneself nor an admin; the row is read first and deleted later. *)
MayDelete(t, u) == t.uid # u /\ users[u] \notin {"none", "admin"}

FindUser(h, t, c, u) ==
    /\ Verified(t) /\ IsAdmin(t)
    /\ MayDelete(t, u)
    /\ Grant(c)
    /\ Request(h, "delete", Job(u, "none", 0))
    /\ UNCHANGED <<now, qps, metrics, accounts, tokens, searches, restarts>>

DeleteUser(h) ==
    /\ pc[h] = "delete"
    /\ users' = [users EXCEPT ![job[h].uid] = "none"]
    /\ Finish(h)
    /\ UNCHANGED <<now, qps, limiter, metrics, lastUser, tokens, searches, requests, restarts>>

-----------------------------------------------------------------------------
Tick ==
    /\ now < MaxTime
    /\ now' = now + 1
    /\ UNCHANGED <<qps, limiter, metrics, accounts, tokens, pc, job, searches, requests, restarts>>

(* The tables stay and so do the tokens: the secret is in the configuration. *)
Restart ==
    /\ restarts < MaxRestarts /\ restarts' = restarts + 1
    /\ qps' \in 0..MaxQps
    /\ last' = [c \in Clients |-> Unknown]
    /\ counts' = [c \in Clients |-> 0]
    /\ grants' = [c \in Clients |-> <<>>]
    /\ total' = 0 /\ errors5xx' = 0 /\ errors429' = 0
    /\ bucketCnt' = [i \in 1..Len(Limits) |-> 0]
    /\ pc' = [h \in Handlers |-> "idle"]
    /\ job' = [h \in Handlers |-> None]
    /\ searches' = 0
    /\ UNCHANGED <<now, accounts, tokens, requests>>

Next ==
    \/ \E role \in Roles : CreateUserCmd(role)
    \/ \E h \in Handlers : \E u \in Ids : Login(h, u)
    \/ \E h \in Handlers : Sign(h) \/ DeleteUser(h)
    \/ \E h \in Handlers : \E err5xx \in BOOLEAN : Answer(h, err5xx)
    \/ \E t \in tokens : \E c \in Clients :
          \/ TooMany(t, c) \/ Other(t, c)
          \/ \E role \in Roles : CreateUser(t, c, role)
          \/ \E h \in Handlers : Search(h, t, c)
          \/ \E h \in Handlers : \E u \in Ids : FindUser(h, t, c, u)
    \/ Tick
    \/ Restart

Spec == Init /\ [][Next]_vars

-----------------------------------------------------------------------------
LimiterOK ==
    /\ now \in 1..(MaxTime + 1) /\ qps \in 0..MaxQps
    /\ last \in [Clients -> Nat] /\ counts \in [Clients -> Nat]
    /\ grants \in [Clients -> Seq([at : Nat, start : Nat])]

(* No id is in use before it is due, so that a deletion or a token never   *)
(* meets another user under the id it was made for.                        *)
AccountsOK ==
    /\ users \in [Ids -> Roles \cup {"none"}] /\ lastUser \in 0..MaxUsers
    /\ \A u \in Ids : u > lastUser => users[u] = "none"
    /\ tokens \subseteq [uid : Ids, role : Roles, exp : Nat]
    /\ \A t \in tokens : t.uid <= lastUser

Jobs == [uid : 0..MaxUsers, role : Roles \cup {"none"}, start : Nat]

CallsOK ==
    /\ pc \in [Handlers -> {"idle", "login", "search", "delete"}]
    /\ job \in [Handlers -> Jobs]

CountersOK ==
    /\ total \in Nat /\ errors5xx \in Nat /\ errors429 \in Nat /\ searches \in Nat
    /\ bucketCnt \in [1..Len(Limits) -> Nat]
    /\ requests \in Nat /\ restarts \in Nat

(* The type of every variable, and ids in the order they are given.        *)
TypeOK == LimiterOK /\ AccountsOK /\ CallsOK /\ CountersOK

(* The numbers of one scrape add up: each search that passed the limiter   *)
(* is under way or counted, once, whichever way it ended; errors are       *)
(* searches; the buckets are cumulative and the bucket +Inf has them all.  *)
MetricsAddUp ==
    /\ total + Cardinality({h \in Handlers : pc[h] = "search"}) = searches
    /\ errors5xx <= total
    /\ \A i, j \in DOMAIN bucketCnt : i <= j => bucketCnt[i] <= bucketCnt[j]
    /\ \A i \in DOMAIN bucketCnt : bucketCnt[i] <= total

(* A window that begins with a request lets qps requests of an address     *)
(* pass, so at any time at most 2 * qps pass within one window's length:   *)
(* of 2 * qps + 1 requests the last comes a window after the first.        *)
WindowBound ==
    qps > 0 =>
        \A c \in Clients : \A k \in 1..Len(grants[c]) :
            k + 2 * qps <= Len(grants[c]) =>
                grants[c][k + 2 * qps].at >= grants[c][k].at + Window

(* adminOnly believes the claims and never looks the user up.  That is     *)
(* right because whoever holds an admin's token is an admin to this day,   *)
(* however logins, deletions and restarts interleave.                      *)
ClaimsAreCurrent ==
    \A t \in tokens : IsAdmin(t) => users[t.uid] = "admin"

=============================================================================

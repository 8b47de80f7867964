----------------------------- MODULE ZincCluster -----------------------------
(***************************************************************************)
(* The Zinc client (internal/zinc/client.go): which node of a cluster a    *)
(* request goes to, and what the client remembers of the health of nodes.  *)
(*                                                                         *)
(* Every cluster has a mutex, cl.mu, that is held over pings.  The lock of *)
(* the client, c.mu, is only ever taken for reading and never blocks.      *)
(***************************************************************************)
EXTENDS Naturals, Sequences, Functions

CONSTANTS
    Clusters,   \* names in zinc.clusters
    Nodes,      \* URLs
    URLs,       \* URLs[c]: the nodes of cluster c, in order
    Callers,    \* goroutines that send requests
    MaxFlips,   \* bound: nodes that go down or come up
    MaxFails    \* bound: requests that a node which answers pings does not serve

ASSUME URLsAssumption == URLs \in [Clusters -> Seq(Nodes) \ {<<>>}]
ASSUME ClusterBounds == MaxFlips \in Nat /\ MaxFails \in Nat
ASSUME NamesAssumption == {"free", "loop"} \cap Callers = {} /\ "none" \notin Nodes

VARIABLES
    alive,     \* nodes that answer a ping
    mu,        \* mu[c]: who holds the mutex
    next,      \* Cluster.Index, from 1
    health,    \* Cluster.Health: health[c][u] for the nodes u displayed for c
    loop,      \* healthCheckLoop: 0 or the position it pings next
    pc, job,   \* each caller: where it is, and its locals
    (* history *)
    stayed,    \* stayed[p]: nodes that were alive since p began to search
    last,      \* last[c]: the node chosen last; "none" if one went down since
    flips, fails

nodeVars   == <<alive, stayed, last, flips>>
clientVars == <<mu, next, health, loop>>
vars == <<nodeVars, clientVars, pc, job, fails>>

After(c, k) == (k % Len(URLs[c])) + 1

PCs == {"idle", "lock", "ping", "send", "mark", "nonode"}

(* Locals: the cluster, pings left, the URL chosen, the clusters to mark.  *)
NoJob == [cluster |-> "none", left |-> 0, url |-> "none", todo |-> {}]

Init ==
    /\ alive = Nodes
    /\ mu = [c \in Clusters |-> "free"]
    /\ next = [c \in Clusters |-> 1]
    /\ health = [c \in Clusters |-> [u \in Range(URLs[c]) |-> TRUE]]
    /\ loop = [c \in Clusters |-> 0]
    /\ pc = [p \in Callers |-> "idle"]
    /\ job = [p \in Callers |-> NoJob]
    /\ stayed = [p \in Callers |-> {}]
    /\ last = [c \in Clusters |-> "none"]
    /\ flips = 0 /\ fails = 0

Goto(p, l) == pc' = [pc EXCEPT ![p] = l]
Answer(p)  == Goto(p, "idle") /\ job' = [job EXCEPT ![p] = NoJob]

-----------------------------------------------------------------------------
(* A node goes down, or comes up. *)
Flip(u) ==
    /\ flips < MaxFlips
    /\ flips' = flips + 1
    /\ alive' = IF u \in alive THEN alive \ {u} ELSE alive \cup {u}
    /\ stayed' = [p \in Callers |-> stayed[p] \ {u}]
    /\ last' = [c \in Clusters |-> IF u \in Range(URLs[c]) THEN "none" ELSE last[c]]
    /\ UNCHANGED <<clientVars, pc, job, fails>>

(* What a ping of u shows; the caller holds the mutex of c. *)
Ping(c, u) == health' = [health EXCEPT ![c][u] = u \in alive]

(* Mutant: the loop does not wait for the mutex. *)
TickUnlocked(c) ==
    /\ loop[c] = 0
    /\ mu' = [mu EXCEPT ![c] = "loop"]
    /\ loop' = [loop EXCEPT ![c] = 1]
    /\ UNCHANGED <<next, health, nodeVars, pc, job, fails>>

(* healthCheckLoop: every ten seconds, all nodes under the mutex. *)
Tick(c) ==
    /\ loop[c] = 0 /\ mu[c] = "free"
    /\ mu' = [mu EXCEPT ![c] = "loop"]
    /\ loop' = [loop EXCEPT ![c] = 1]
    /\ UNCHANGED <<next, health, nodeVars, pc, job, fails>>

(* Mutant: a node that is marked is not pinged again. *)
LoopPingUpOnly(c) ==
    /\ loop[c] > 0
    /\ IF health[c][URLs[c][loop[c]]] THEN Ping(c, URLs[c][loop[c]]) ELSE UNCHANGED health
    /\ IF loop[c] = Len(URLs[c])
       THEN loop' = [loop EXCEPT ![c] = 0] /\ mu' = [mu EXCEPT ![c] = "free"]
       ELSE loop' = [loop EXCEPT ![c] = @ + 1] /\ UNCHANGED mu
    /\ UNCHANGED <<next, nodeVars, pc, job, fails>>

(* One node, and after the last the mutex is free. *)
LoopPing(c) ==
    /\ loop[c] > 0
    /\ Ping(c, URLs[c][loop[c]])
    /\ IF loop[c] = Len(URLs[c])
       THEN loop' = [loop EXCEPT ![c] = 0] /\ mu' = [mu EXCEPT ![c] = "free"]
       ELSE loop' = [loop EXCEPT ![c] = @ + 1] /\ UNCHANGED mu
    /\ UNCHANGED <<next, nodeVars, pc, job, fails>>

-----------------------------------------------------------------------------
(* A request to cluster c: getHealthyURL ... *)
Request(p, c) ==
    /\ pc[p] \in {"idle", "nonode"}
    /\ job' = [job EXCEPT ![p] = [NoJob EXCEPT !.cluster = c, !.left = Len(URLs[c])]]
    /\ stayed' = [stayed EXCEPT ![p] = alive]
    /\ Goto(p, "lock")
    /\ UNCHANGED <<clientVars, alive, last, flips, fails>>

Acquire(p) ==
    /\ pc[p] = "lock" /\ mu[job[p].cluster] = "free"
    /\ mu' = [mu EXCEPT ![job[p].cluster] = p]
    /\ Goto(p, "ping")
    /\ UNCHANGED <<next, health, loop, nodeVars, job, fails>>

(* The node tried next: Index + i, round the cluster. *)
Position(c, i) == ((next[c] - 1 + i) % Len(URLs[c])) + 1

(* Mutant: the position is that of the node chosen. *)
AdvanceNot(c, k) == k

(* Where the next search begins after node k was chosen. *)
Advance(c, k) == After(c, k)

(* Mutant: the search stops at the end of the list. *)
SearchEnds(c, k, left) == left = 1 \/ k = Len(URLs[c])

(* Was node k the last one to try? *)
SearchOver(c, k, left) == left = 1

(* ... pings nodes from there until one answers: one ping. *)
Search(p) ==
    /\ pc[p] = "ping"
    /\ LET c == job[p].cluster
           k == Position(c, Len(URLs[c]) - job[p].left)
           u == URLs[c][k]
       IN /\ Ping(c, u)
          /\ \/ /\ u \in alive
                /\ next' = [next EXCEPT ![c] = Advance(c, k)]
                /\ last' = [last EXCEPT ![c] = u]
                /\ mu' = [mu EXCEPT ![c] = "free"]
                /\ job' = [job EXCEPT ![p].url = u, ![p].left = 0]
                /\ Goto(p, "send")
                /\ stayed' = [stayed EXCEPT ![p] = {}]
             \/ /\ u \notin alive /\ SearchOver(c, k, job[p].left)
                /\ mu' = [mu EXCEPT ![c] = "free"]
                /\ Goto(p, "nonode")
                /\ UNCHANGED <<next, last, job, stayed>>
             \/ /\ u \notin alive /\ ~SearchOver(c, k, job[p].left)
                /\ job' = [job EXCEPT ![p].left = @ - 1]
                /\ UNCHANGED <<next, last, mu, pc, stayed>>
    /\ UNCHANGED <<alive, flips, loop, fails>>

-----------------------------------------------------------------------------
(* The request itself: the methods differ in the answers after which they  *)
(* take the node for unhealthy.                                            *)

Kinds == {"search", "bulk", "createIndex", "aliasSwap", "updateMapping", "reloadSynonym",
          "refresh", "deleteDoc", "deleteIndex", "getAlias"}

(* HTTP status classes; "lost": no answer. *)
Statuses == {"200", "400", "404", "500", "lost"}

(* Does the method call markUnhealthy? *)
Marks(kind, status) ==
    \/ status = "lost"
    \/ status = "500" /\ kind \notin {"deleteIndex", "getAlias"}
    \/ status = "404" /\ kind = "createIndex"

Send(p) ==
    /\ pc[p] = "send"
    /\ \E kind \in Kinds, status \in Statuses :
          /\ CASE status = "200" -> job[p].url \in alive /\ UNCHANGED fails
               [] status = "lost" /\ job[p].url \notin alive -> UNCHANGED fails
               [] OTHER -> fails < MaxFails /\ fails' = fails + 1
          /\ IF Marks(kind, status)
             THEN job' = [job EXCEPT ![p].todo = Clusters] /\ Goto(p, "mark")
             ELSE Answer(p)
    /\ UNCHANGED <<clientVars, nodeVars>>

(* What is displayed of url is FALSE, also where nothing was displayed.    *)
Marked(h, url) == [u \in DOMAIN h \cup {url} |-> u # url /\ h[u]]

(* Mutant: a cluster is left locked. *)
MarkKeepingLock(p) ==
    /\ pc[p] = "mark"
    /\ \E c \in job[p].todo :
          /\ mu[c] = "free"
          /\ mu' = [mu EXCEPT ![c] = p]
          /\ health' = [health EXCEPT ![c] = Marked(@, job[p].url)]
          /\ IF job[p].todo = {c}
             THEN Answer(p)
             ELSE job' = [job EXCEPT ![p].todo = @ \ {c}] /\ UNCHANGED pc
    /\ UNCHANGED <<next, loop, nodeVars, fails>>

(* markUnhealthy: in every cluster, one after the other, also in those the *)
(* node is not in.                                                         *)
MarkUnhealthy(p) ==
    /\ pc[p] = "mark"
    /\ \E c \in job[p].todo :
          /\ mu[c] = "free"
          /\ health' = [health EXCEPT ![c] = Marked(@, job[p].url)]
          /\ IF job[p].todo = {c}
             THEN Answer(p)
             ELSE job' = [job EXCEPT ![p].todo = @ \ {c}] /\ UNCHANGED pc
    /\ UNCHANGED <<mu, next, loop, nodeVars, fails>>

Step(p) == Acquire(p) \/ Search(p) \/ Send(p) \/ MarkUnhealthy(p)
Check(c) == Tick(c) \/ LoopPing(c)

Next == \/ \E u \in Nodes : Flip(u)
        \/ \E c \in Clusters : Check(c)
        \/ \E p \in Callers : Step(p) \/ \E c \in Clusters : Request(p, c)

(***************************************************************************)
(* A ping ends within 3 seconds, a request within 30; Go's mutexes do not  *)
(* starve a goroutine that waits; the ticker fires.                        *)
(***************************************************************************)
Fairness == /\ \A p \in Callers : SF_vars(Step(p))
            /\ \A c \in Clusters : SF_vars(Check(c))

Spec == Init /\ [][Next]_vars /\ Fairness

-----------------------------------------------------------------------------
(* Every variable has its type; the mutex of a cluster is held by whoever  *)
(* pings its nodes.                                                        *)
TypeOK ==
    /\ alive \subseteq Nodes
    /\ \A c \in Clusters :
          /\ mu[c] \in Callers \cup {"free", "loop"}
          /\ mu[c] = "loop" <=> loop[c] > 0
          /\ next[c] \in DOMAIN URLs[c] /\ loop[c] \in 0..Len(URLs[c])
          /\ Range(URLs[c]) \subseteq DOMAIN health[c] /\ DOMAIN health[c] \subseteq Nodes
          /\ health[c] \in [DOMAIN health[c] -> BOOLEAN]
          /\ last[c] \in Nodes \cup {"none"}
    /\ \A p \in Callers :
          /\ pc[p] \in PCs /\ stayed[p] \subseteq alive
          /\ pc[p] = "ping" <=> \E c \in Clusters : mu[c] = p
    /\ flips \in 0..MaxFlips /\ fails \in 0..MaxFails

(* A request fails for want of a node only if no node of its cluster was   *)
(* up all the while: the search goes once round the whole cluster, from    *)
(* wherever it begins (client.go:102-117).                                 *)
FindsNode ==
    \A p \in Callers : pc[p] = "nonode" =>
        stayed[p] \cap Range(URLs[job[p].cluster]) = {}

(* While no node of a cluster goes down or comes up, its nodes are chosen  *)
(* in turn, whichever goroutines ask: after one node comes the next node   *)
(* that is up (client.go:106-112).                                         *)
InTurn ==
    [][\A p \in Callers, c \in Clusters :
         (pc[p] = "ping" /\ pc'[p] = "send" /\ job[p].cluster = c /\ last[c] # "none")
           => \E k, n \in 1..Len(URLs[c]) :
                /\ URLs[c][k] = last[c]
                /\ URLs[c][((k - 1 + n) % Len(URLs[c])) + 1] = job'[p].url
                /\ \A i \in 1..(n - 1) : URLs[c][((k - 1 + i) % Len(URLs[c])) + 1] \notin alive]_vars

(* Every request is answered: nobody waits for a mutex for good, although  *)
(* it is held over pings and taken cluster by cluster (client.go:102,      *)
(* 421-429).                                                               *)
RequestEnds == \A p \in Callers : pc[p] = "lock" ~> pc[p] \in {"idle", "nonode"}

(* When nodes and requests settle, the display of a cluster settles        *)
(* (client.go:69-80): each of its own nodes is shown as it is, whatever    *)
(* marks it in between.  A node of another cluster, once a failed request  *)
(* brought it into the display (client.go:424-426), stays shown as down,   *)
(* up or not: nobody pings it here again.                                  *)
HealthSettles ==
    \A c \in Clusters : \A u \in Nodes :
        <>[](u \in DOMAIN health[c] =>
               (health[c][u] <=> u \in alive /\ u \in Range(URLs[c])))
=============================================================================

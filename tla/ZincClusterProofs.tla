-------------------------- MODULE ZincClusterProofs --------------------------
(***************************************************************************)
(* Proofs about ZincCluster, for every set of clusters, nodes and callers, *)
(* every list of nodes and every bound.                                    *)
(*                                                                         *)
(* Whoever pings the nodes of a cluster has its mutex, so a search has     *)
(* Index for itself until it chooses: the nodes it tried are the first     *)
(* ones from there on, each was down when it was tried (Tried), and from   *)
(* where it began, as many steps as there are nodes lead to every node     *)
(* (Round).                                                                *)
(***************************************************************************)
EXTENDS ZincCluster, Integers, TLAPS

-----------------------------------------------------------------------------
(* The invariant. *)

Jobs == [cluster: Clusters \cup {"none"}, left: Nat, url: Nodes \cup {"none"}, todo: SUBSET Clusters]

(* What may be displayed for a cluster: its nodes, and maybe others. *)
Display(c, h) ==
    /\ Range(URLs[c]) \subseteq DOMAIN h /\ DOMAIN h \subseteq Nodes
    /\ h \in [DOMAIN h -> BOOLEAN]

Types ==
    /\ alive \subseteq Nodes
    /\ mu \in [Clusters -> Callers \cup {"free", "loop"}]
    /\ next \in [Clusters -> Nat] /\ \A c \in Clusters : next[c] \in 1..Len(URLs[c])
    /\ loop \in [Clusters -> Nat] /\ \A c \in Clusters : loop[c] <= Len(URLs[c])
    /\ health = [c \in Clusters |-> health[c]]
    /\ \A c \in Clusters : Display(c, health[c])
    /\ last \in [Clusters -> Nodes \cup {"none"}]
    /\ pc \in [Callers -> PCs] /\ job \in [Callers -> Jobs]
    /\ stayed \in [Callers -> SUBSET Nodes] /\ \A p \in Callers : stayed[p] \subseteq alive
    /\ flips \in 0..MaxFlips /\ fails \in 0..MaxFails

(* The mutex of a cluster has the one that pings its nodes. *)
Holds(c) ==
    /\ mu[c] = "loop" <=> loop[c] > 0
    /\ mu[c] \in Callers => pc[mu[c]] = "ping" /\ job[mu[c]].cluster = c

PlaceOK(p) ==
    /\ pc[p] \in {"lock", "ping", "nonode"} => job[p].cluster \in Clusters
    /\ pc[p] = "lock" => job[p].left = Len(URLs[job[p].cluster])
    /\ pc[p] \in {"send", "mark"} => job[p].url \in Nodes
    /\ pc[p] = "ping" => /\ job[p].left \in 1..Len(URLs[job[p].cluster])
                         /\ mu[job[p].cluster] = p

(* The nodes a search has pinged were down, each at some time since it     *)
(* began, and are down if nothing changed since the last choice.           *)
Tried(p) ==
    pc[p] = "ping" =>
        LET c == job[p].cluster IN
        \A i \in Nat : i < Len(URLs[c]) - job[p].left =>
            /\ URLs[c][Position(c, i)] \notin stayed[p]
            /\ last[c] # "none" => URLs[c][Position(c, i)] \notin alive

(* The next search begins behind the node chosen last. *)
Begins(c) ==
    last[c] # "none" => \E k \in 1..Len(URLs[c]) : URLs[c][k] = last[c] /\ next[c] = After(c, k)

IInv ==
    /\ Types
    /\ \A c \in Clusters : Holds(c) /\ Begins(c)
    /\ \A p \in Callers : PlaceOK(p) /\ Tried(p)
    /\ FindsNode

-----------------------------------------------------------------------------
(* Numbers. *)

LEMMA ModSmall == ASSUME NEW n \in Nat \ {0}, NEW a \in 0..(n - 1) PROVE a % n = a
  OBVIOUS

LEMMA ModOnce == ASSUME NEW n \in Nat \ {0}, NEW a \in n..(n + n - 1) PROVE a % n = a - n
  OBVIOUS

LEMMA NextInTurn ==
    ASSUME NEW n \in Nat \ {0}, NEW k \in 1..n
    PROVE (k % n) + 1 = IF k = n THEN 1 ELSE k + 1
  <1>1. CASE k = n
    BY <1>1, ModOnce
  <1>2. CASE k # n
    BY <1>2, ModSmall
  <1> QED BY <1>1, <1>2

LEMMA StepsInTurn ==
    ASSUME NEW n \in Nat \ {0}, NEW x \in 1..n, NEW i \in 0..(n - 1)
    PROVE ((x - 1 + i) % n) + 1 = IF x + i <= n THEN x + i ELSE x + i - n
  <1> DEFINE a == x - 1 + i
  <1>1. CASE a < n
    <2>1. a \in 0..(n - 1)
      BY <1>1
    <2>2. a % n = a
      BY <2>1, ModSmall
    <2> QED BY <1>1, <2>2
  <1>2. CASE a >= n
    <2>1. a \in n..(n + n - 1)
      BY <1>2
    <2>2. a % n = a - n
      BY <2>1, ModOnce
    <2> QED BY <1>2, <2>2
  <1>3. a < n \/ a >= n
    OBVIOUS
  <1> QED BY <1>1, <1>2, <1>3

LEMMA Length ==
    ASSUME NEW c \in Clusters
    PROVE /\ Len(URLs[c]) \in Nat \ {0} /\ DOMAIN URLs[c] = 1..Len(URLs[c])
          /\ \A k \in 1..Len(URLs[c]) : URLs[c][k] \in Nodes /\ URLs[c][k] \in Range(URLs[c])
          /\ Range(URLs[c]) \subseteq Nodes
          /\ \A u \in Range(URLs[c]) : \E k \in 1..Len(URLs[c]) : URLs[c][k] = u
  <1>1. URLs[c] \in Seq(Nodes) /\ URLs[c] # <<>>
    BY URLsAssumption
  <1> QED BY <1>1 DEF Range

(* The node after a node. *)
LEMMA AfterIs ==
    ASSUME NEW c \in Clusters, NEW k \in 1..Len(URLs[c])
    PROVE /\ After(c, k) = IF k = Len(URLs[c]) THEN 1 ELSE k + 1
          /\ After(c, k) \in 1..Len(URLs[c])
  <1> DEFINE n == Len(URLs[c])
  <1>1. n \in Nat \ {0} /\ k \in 1..n
    BY Length
  <1>2. After(c, k) = (k % n) + 1
    BY DEF After
  <1> HIDE DEF n
  <1>3. After(c, k) = IF k = n THEN 1 ELSE k + 1
    BY <1>1, <1>2, NextInTurn
  <1>4. After(c, k) \in 1..n
    BY <1>1, <1>3
  <1> QED BY <1>3, <1>4 DEF n

(* The position i steps from where the search begins. *)
LEMMA PositionIs ==
    ASSUME NEW c \in Clusters, NEW i \in Nat, i < Len(URLs[c]), next[c] \in 1..Len(URLs[c])
    PROVE /\ Position(c, i) = IF next[c] + i <= Len(URLs[c]) THEN next[c] + i ELSE next[c] + i - Len(URLs[c])
          /\ Position(c, i) \in 1..Len(URLs[c])
  <1> DEFINE n == Len(URLs[c])
             x == next[c]
  <1>1. n \in Nat \ {0} /\ x \in 1..n /\ i < n
    BY Length
  <1>2. Position(c, i) = ((x - 1 + i) % n) + 1
    BY DEF Position
  <1> HIDE DEF n, x
  <1>3. i \in 0..(n - 1)
    BY <1>1
  <1>4. Position(c, i) = IF x + i <= n THEN x + i ELSE x + i - n
    BY <1>1, <1>2, <1>3, StepsInTurn
  <1>5. Position(c, i) \in 1..n
    BY <1>1, <1>4
  <1> QED BY <1>4, <1>5 DEF n, x

(* Once round the cluster, every node is tried. *)
LEMMA Round ==
    ASSUME NEW c \in Clusters, NEW k \in 1..Len(URLs[c]), next[c] \in 1..Len(URLs[c])
    PROVE \E i \in Nat : i < Len(URLs[c]) /\ Position(c, i) = k
  <1> DEFINE n == Len(URLs[c])
             i == IF k >= next[c] THEN k - next[c] ELSE k - next[c] + n
  <1>1. n \in Nat \ {0}
    BY Length
  <1>2. i \in Nat /\ i < n
    BY <1>1
  <1>3. Position(c, i) = k
    BY <1>1, <1>2, PositionIs
  <1> QED BY <1>2, <1>3

-----------------------------------------------------------------------------
(* Data. *)

LEMMA JobFields == ASSUME NEW j \in Jobs
    PROVE /\ j.cluster \in Clusters \cup {"none"} /\ j.left \in Nat
          /\ j.url \in Nodes \cup {"none"} /\ j.todo \subseteq Clusters
  BY DEF Jobs

LEMMA NoJobType == NoJob \in Jobs
  BY DEF NoJob, Jobs

LEMMA Moved ==
    ASSUME Types, NEW p \in Callers, NEW l \in PCs, NEW j \in Jobs,
           pc' = [pc EXCEPT ![p] = l], job' = [job EXCEPT ![p] = j]
    PROVE /\ pc' \in [Callers -> PCs] /\ job' \in [Callers -> Jobs]
          /\ pc'[p] = l /\ job'[p] = j
          /\ \A q \in Callers \ {p} : pc'[q] = pc[q] /\ job'[q] = job[q]
  BY DEF Types

HealthOK == health = [c \in Clusters |-> health[c]]
            /\ \A c \in Clusters : Display(c, health[c])

LEMMA PingType ==
    ASSUME HealthOK, NEW c \in Clusters, NEW u \in Range(URLs[c]), Ping(c, u)
    PROVE HealthOK'
  <1> DEFINE b == u \in alive
  <1>1. b \in BOOLEAN
    OBVIOUS
  <1>2. health' = [health EXCEPT ![c] = [health[c] EXCEPT ![u] = b]]
    BY DEF Ping, HealthOK
  <1> HIDE DEF b
  <1>3. Display(c, [health[c] EXCEPT ![u] = b])
    BY <1>1 DEF HealthOK, Display
  <1> HIDE DEF HealthOK
  <1>4. health = [d \in Clusters |-> health[d]]
    BY DEF HealthOK
  <1>5. health' = [d \in Clusters |-> IF d = c THEN [health[c] EXCEPT ![u] = b] ELSE health[d]]
    BY <1>2, <1>4
  <1>6. \A d \in Clusters : health'[d] = IF d = c THEN [health[c] EXCEPT ![u] = b] ELSE health[d]
    BY <1>5
  <1>7. health' = [d \in Clusters |-> health'[d]]
    BY <1>5
  <1> QED BY <1>3, <1>6, <1>7 DEF HealthOK

LEMMA MarkedType ==
    ASSUME HealthOK, NEW c \in Clusters, NEW u \in Nodes,
           health' = [health EXCEPT ![c] = Marked(@, u)]
    PROVE HealthOK'
  <1>1. Display(c, Marked(health[c], u))
    BY DEF Marked, HealthOK, Display
  <1> DEFINE h == Marked(health[c], u)
  <1> HIDE DEF h
  <1>2. health = [d \in Clusters |-> health[d]]
    BY DEF HealthOK
  <1>3. health' = [health EXCEPT ![c] = h]
    BY DEF h
  <1>4. health' = [d \in Clusters |-> IF d = c THEN h ELSE health[d]]
    BY <1>2, <1>3
  <1>5. \A d \in Clusters : health'[d] = IF d = c THEN h ELSE health[d]
    BY <1>4
  <1>6. health' = [d \in Clusters |-> health'[d]]
    BY <1>4
  <1> QED BY <1>1, <1>5, <1>6 DEF HealthOK, h

-----------------------------------------------------------------------------
(* Nodes. *)

LEMMA FlipStep ==
    ASSUME IInv, NEW u \in Nodes, Flip(u)
    PROVE IInv'
  <1>1. Types /\ UNCHANGED <<mu, next, health, loop, pc, job, fails>>
    BY DEF IInv, Flip, clientVars
  <1>2. /\ alive' \subseteq Nodes /\ flips' \in 0..MaxFlips
        /\ \A v \in Nodes : v # u => (v \in alive' <=> v \in alive)
    BY <1>1, ClusterBounds DEF Types, Flip
  <1>3. /\ stayed' \in [Callers -> SUBSET Nodes]
        /\ \A p \in Callers : stayed'[p] = stayed[p] \ {u} /\ stayed'[p] \subseteq alive'
    BY <1>1 DEF Types, Flip
  <1>4. /\ last' \in [Clusters -> Nodes \cup {"none"}]
        /\ \A c \in Clusters : last'[c] = IF u \in Range(URLs[c]) THEN "none" ELSE last[c]
    BY <1>1 DEF Types, Flip
  <1>5. Types'
    BY <1>1, <1>2, <1>3, <1>4 DEF Types
  <1>6. ASSUME NEW c \in Clusters PROVE Holds(c)' /\ Begins(c)'
    <2>1. Holds(c)'
      BY <1>1 DEF IInv, Holds
    <2>2. Begins(c)'
      BY <1>1, <1>4 DEF IInv, Begins
    <2> QED BY <2>1, <2>2
  <1>7. ASSUME NEW p \in Callers PROVE PlaceOK(p)' /\ Tried(p)'
    <2>1. PlaceOK(p)'
      BY <1>1 DEF IInv, PlaceOK
    <2> SUFFICES ASSUME pc[p] = "ping", NEW i \in Nat, i < Len(URLs[job[p].cluster]) - job[p].left
                 PROVE LET c == job[p].cluster IN
                       /\ URLs[c][Position(c, i)] \notin stayed'[p]
                       /\ last'[c] # "none" => URLs[c][Position(c, i)] \notin alive'
      BY <1>1, <2>1 DEF Tried, Position
    <2> DEFINE c == job[p].cluster
    <2>2. c \in Clusters /\ job[p].left \in 1..Len(URLs[c]) /\ i < Len(URLs[c])
      BY <1>1, Length DEF IInv, PlaceOK
    <2>3. Position(c, i) \in 1..Len(URLs[c])
      BY <1>1, <2>2, PositionIs DEF Types
    <2>4. URLs[c][Position(c, i)] \in Range(URLs[c]) /\ URLs[c][Position(c, i)] \in Nodes
      BY <2>2, <2>3, Length
    <2> QED BY <1>2, <1>3, <1>4, <2>2, <2>4 DEF IInv, Tried
  <1>8. FindsNode'
    BY <1>1, <1>3 DEF IInv, FindsNode
  <1> QED BY <1>1, <1>5, <1>6, <1>7, <1>8 DEF IInv

(* What a step leaves as it is that touches neither the nodes nor Index:   *)
(* the searches of those who go on as before.                              *)
LEMMA TriedStays ==
    ASSUME NEW p \in Callers, Tried(p), pc'[p] = pc[p], job'[p] = job[p],
           stayed'[p] = stayed[p], UNCHANGED alive,
           pc[p] = "ping" => /\ next'[job[p].cluster] = next[job[p].cluster]
                             /\ last'[job[p].cluster] = last[job[p].cluster]
    PROVE Tried(p)'
  BY DEF Tried, Position

-----------------------------------------------------------------------------
(* The loop of a cluster. *)

LEMMA TickStep ==
    ASSUME IInv, NEW c \in Clusters, Tick(c)
    PROVE IInv'
  <1>1. /\ Types /\ loop[c] = 0 /\ mu[c] = "free"
        /\ mu' = [mu EXCEPT ![c] = "loop"] /\ loop' = [loop EXCEPT ![c] = 1]
        /\ UNCHANGED <<next, health, alive, stayed, last, flips, pc, job, fails>>
    BY DEF IInv, Tick, nodeVars
  <1>2. mu' \in [Clusters -> Callers \cup {"free", "loop"}] /\ loop' \in [Clusters -> Nat]
        /\ \A d \in Clusters : /\ mu'[d] = IF d = c THEN "loop" ELSE mu[d]
                               /\ loop'[d] = IF d = c THEN 1 ELSE loop[d]
    BY <1>1 DEF Types
  <1>3. \A d \in Clusters : loop'[d] <= Len(URLs[d])
    BY <1>1, <1>2, Length DEF Types
  <1>4. Types'
    BY <1>1, <1>2, <1>3 DEF Types
  <1>5. \A d \in Clusters : Holds(d)'
    BY <1>1, <1>2, NamesAssumption DEF IInv, Holds
  <1>6. \A d \in Clusters : Begins(d)'
    BY <1>1 DEF IInv, Begins
  <1>7. \A p \in Callers : PlaceOK(p)'
    BY <1>1, <1>2, NamesAssumption DEF IInv, PlaceOK
  <1>8. \A p \in Callers : Tried(p)'
    BY <1>1, TriedStays DEF IInv
  <1>9. FindsNode'
    BY <1>1 DEF IInv, FindsNode
  <1> QED BY <1>4, <1>5, <1>6, <1>7, <1>8, <1>9 DEF IInv

LEMMA LoopPingStep ==
    ASSUME IInv, NEW c \in Clusters, LoopPing(c)
    PROVE IInv'
  <1>1. /\ Types /\ loop[c] > 0 /\ loop[c] \in 1..Len(URLs[c]) /\ mu[c] = "loop"
        /\ Ping(c, URLs[c][loop[c]])
        /\ UNCHANGED <<next, alive, stayed, last, flips, pc, job, fails>>
    BY Length DEF IInv, LoopPing, nodeVars, Types, Holds
  <1>2. HealthOK'
    <2>1. URLs[c][loop[c]] \in Range(URLs[c])
      BY <1>1, Length
    <2>2. HealthOK
      BY <1>1 DEF Types, HealthOK
    <2> QED BY <1>1, <2>1, <2>2, PingType
  <1>3. \/ loop[c] = Len(URLs[c]) /\ loop' = [loop EXCEPT ![c] = 0] /\ mu' = [mu EXCEPT ![c] = "free"]
        \/ loop[c] # Len(URLs[c]) /\ loop' = [loop EXCEPT ![c] = loop[c] + 1] /\ mu' = mu
    BY DEF LoopPing
  <1>4. /\ mu' \in [Clusters -> Callers \cup {"free", "loop"}] /\ loop' \in [Clusters -> Nat]
        /\ \A d \in Clusters : d # c => mu'[d] = mu[d] /\ loop'[d] = loop[d]
        /\ loop'[c] <= Len(URLs[c]) /\ mu'[c] \in {"free", "loop"} /\ (mu'[c] = "loop" <=> loop'[c] > 0)
    <2>1. Len(URLs[c]) \in Nat \ {0} /\ loop[c] \in Nat /\ loop[c] <= Len(URLs[c])
      BY <1>1, Length DEF Types
    <2>2. CASE loop' = [loop EXCEPT ![c] = 0] /\ mu' = [mu EXCEPT ![c] = "free"]
      BY <1>1, <2>1, <2>2 DEF Types
    <2>3. CASE loop[c] # Len(URLs[c]) /\ loop' = [loop EXCEPT ![c] = loop[c] + 1] /\ mu' = mu
      <3>1. loop' \in [Clusters -> Nat] /\ loop'[c] = loop[c] + 1
            /\ \A d \in Clusters : d # c => loop'[d] = loop[d]
        BY <1>1, <2>1, <2>3 DEF Types
      <3>2. loop'[c] <= Len(URLs[c]) /\ loop'[c] > 0
        BY <2>1, <2>3, <3>1
      <3> QED BY <1>1, <2>3, <3>1, <3>2 DEF Types
    <2> QED BY <1>3, <2>2, <2>3
  <1>5. Types'
    BY <1>1, <1>2, <1>4 DEF Types, HealthOK
  <1>6. \A d \in Clusters : Holds(d)'
    BY <1>1, <1>4, NamesAssumption DEF IInv, Holds
  <1>7. \A d \in Clusters : Begins(d)'
    BY <1>1 DEF IInv, Begins
  <1>8. \A p \in Callers : PlaceOK(p)'
    BY <1>1, <1>4, NamesAssumption DEF IInv, PlaceOK
  <1>9. \A p \in Callers : Tried(p)'
    BY <1>1, TriedStays DEF IInv
  <1>10. FindsNode'
    BY <1>1 DEF IInv, FindsNode
  <1> QED BY <1>5, <1>6, <1>7, <1>8, <1>9, <1>10 DEF IInv

-----------------------------------------------------------------------------
(* A request. *)

LEMMA RequestStep ==
    ASSUME IInv, NEW p \in Callers, NEW c \in Clusters, Request(p, c)
    PROVE IInv'
  <1> DEFINE j == [NoJob EXCEPT !.cluster = c, !.left = Len(URLs[c])]
  <1>1. /\ Types /\ pc[p] \in {"idle", "nonode"} /\ stayed' = [stayed EXCEPT ![p] = alive]
        /\ job' = [job EXCEPT ![p] = j] /\ pc' = [pc EXCEPT ![p] = "lock"]
        /\ UNCHANGED <<mu, next, health, loop, alive, last, flips, fails>>
    BY DEF IInv, Request, Goto, clientVars
  <1>2. j \in Jobs /\ j.cluster = c /\ j.left = Len(URLs[c])
    BY Length DEF NoJob, Jobs
  <1> HIDE DEF j
  <1>3. /\ pc' \in [Callers -> PCs] /\ job' \in [Callers -> Jobs]
        /\ pc'[p] = "lock" /\ job'[p] = j
        /\ \A q \in Callers \ {p} : pc'[q] = pc[q] /\ job'[q] = job[q]
    BY <1>1, <1>2, Moved DEF PCs
  <1>4. /\ stayed' \in [Callers -> SUBSET Nodes] /\ stayed'[p] = alive
        /\ \A q \in Callers \ {p} : stayed'[q] = stayed[q]
    BY <1>1 DEF Types
  <1>5. Types'
    BY <1>1, <1>3, <1>4 DEF Types
  <1>6. \A d \in Clusters : Holds(d)'
    <2> SUFFICES ASSUME NEW d \in Clusters PROVE Holds(d)'
      OBVIOUS
    <2>1. Holds(d) /\ mu[d] # p
      BY <1>1 DEF IInv, Holds
    <2> QED BY <1>1, <1>3, <2>1 DEF Holds
  <1>7. \A d \in Clusters : Begins(d)'
    BY <1>1 DEF IInv, Begins
  <1>8. \A q \in Callers : PlaceOK(q)'
    BY <1>1, <1>2, <1>3 DEF IInv, PlaceOK
  <1>9. \A q \in Callers : Tried(q)'
    <2>1. Tried(p)'
      BY <1>3 DEF Tried
    <2>2. \A q \in Callers \ {p} : Tried(q)'
      BY <1>1, <1>3, <1>4, TriedStays DEF IInv
    <2> QED BY <2>1, <2>2
  <1>10. FindsNode'
    BY <1>1, <1>3, <1>4 DEF IInv, FindsNode
  <1> QED BY <1>5, <1>6, <1>7, <1>8, <1>9, <1>10 DEF IInv

LEMMA AcquireStep ==
    ASSUME IInv, NEW p \in Callers, Acquire(p)
    PROVE IInv'
  <1> DEFINE c == job[p].cluster
  <1>1. /\ Types /\ pc[p] = "lock" /\ c \in Clusters /\ mu[c] = "free" /\ job[p].left = Len(URLs[c])
        /\ mu' = [mu EXCEPT ![c] = p] /\ pc' = [pc EXCEPT ![p] = "ping"]
        /\ UNCHANGED <<next, health, loop, alive, stayed, last, flips, job, fails>>
    BY DEF IInv, Acquire, Goto, nodeVars, PlaceOK
  <1>2. /\ pc' \in [Callers -> PCs] /\ pc'[p] = "ping" /\ \A q \in Callers \ {p} : pc'[q] = pc[q]
        /\ mu' \in [Clusters -> Callers \cup {"free", "loop"}] /\ mu'[c] = p
        /\ \A d \in Clusters \ {c} : mu'[d] = mu[d]
    BY <1>1 DEF Types, PCs
  <1>3. Types'
    BY <1>1, <1>2 DEF Types
  <1>4. \A d \in Clusters : Holds(d)'
    <2> SUFFICES ASSUME NEW d \in Clusters PROVE Holds(d)'
      OBVIOUS
    <2>1. CASE d = c
      BY <1>1, <1>2, <2>1, NamesAssumption DEF IInv, Holds
    <2>2. CASE d # c
      <3>1. Holds(d) /\ mu[d] # p
        BY <1>1 DEF IInv, Holds
      <3> QED BY <1>1, <1>2, <2>2, <3>1 DEF Holds
    <2> QED BY <2>1, <2>2
  <1>5. \A d \in Clusters : Begins(d)'
    BY <1>1 DEF IInv, Begins
  <1>6. \A q \in Callers : PlaceOK(q)'
    <2>1. PlaceOK(p)'
      BY <1>1, <1>2, Length DEF PlaceOK
    <2>2. \A q \in Callers \ {p} : PlaceOK(q)'
      BY <1>1, <1>2, NamesAssumption DEF IInv, PlaceOK
    <2> QED BY <2>1, <2>2
  <1>7. \A q \in Callers : Tried(q)'
    <2>1. Tried(p)'
      BY <1>1, <1>2, Length DEF Tried
    <2>2. \A q \in Callers \ {p} : Tried(q)'
      BY <1>1, <1>2, TriedStays DEF IInv
    <2> QED BY <2>1, <2>2
  <1>8. FindsNode'
    BY <1>1, <1>2 DEF IInv, FindsNode
  <1> QED BY <1>3, <1>4, <1>5, <1>6, <1>7, <1>8 DEF IInv

(* One ping of a search: the node is tried, and either chosen, or the last *)
(* one, or one more step is left.                                          *)
LEMMA SearchStep ==
    ASSUME IInv, NEW p \in Callers, Search(p)
    PROVE IInv'
  <1> DEFINE c == job[p].cluster
             n == Len(URLs[c])
             i0 == n - job[p].left
             k == Position(c, i0)
             u == URLs[c][k]
  <1>1. /\ Types /\ pc[p] = "ping" /\ c \in Clusters /\ mu[c] = p /\ job[p].left \in 1..n /\ job[p] \in Jobs
        /\ UNCHANGED <<alive, flips, loop, fails>> /\ Ping(c, u)
    BY DEF IInv, Search, PlaceOK, Types
  <1>2. n \in Nat \ {0} /\ i0 \in Nat /\ i0 < n /\ next[c] \in 1..n
    BY <1>1, Length DEF Types
  <1>3. k \in 1..n /\ u \in Nodes /\ u \in Range(URLs[c])
    BY <1>1, <1>2, PositionIs, Length
  <1>4. HealthOK'
    BY <1>1, <1>3, PingType DEF Types, HealthOK
  <1>5. \A d \in Clusters : d # c => mu[d] # p
    BY <1>1 DEF IInv, Holds
  <1>6. \A q \in Callers : q # p /\ pc[q] = "ping" => job[q].cluster \in Clusters /\ job[q].cluster # c
    BY <1>1 DEF IInv, PlaceOK
  <1>7. CASE u \in alive
    <2> DEFINE j == [[job[p] EXCEPT !.url = u] EXCEPT !.left = 0]
    <2>1. /\ next' = [next EXCEPT ![c] = After(c, k)] /\ last' = [last EXCEPT ![c] = u]
          /\ mu' = [mu EXCEPT ![c] = "free"] /\ pc' = [pc EXCEPT ![p] = "send"]
          /\ job' = [job EXCEPT ![p].url = u, ![p].left = 0] /\ stayed' = [stayed EXCEPT ![p] = {}]
      BY <1>7 DEF Search, Advance, Goto
    <2>2. j \in Jobs /\ j.url = u /\ job' = [job EXCEPT ![p] = j]
      BY <1>1, <1>3, <2>1 DEF Types, Jobs
    <2> HIDE DEF j
    <2>3. /\ pc' \in [Callers -> PCs] /\ job' \in [Callers -> Jobs]
          /\ pc'[p] = "send" /\ job'[p] = j
          /\ \A q \in Callers \ {p} : pc'[q] = pc[q] /\ job'[q] = job[q]
      BY <1>1, <2>1, <2>2, Moved DEF PCs
    <2>4. After(c, k) \in 1..n
      BY <1>1, <1>3, AfterIs
    <2>5. /\ next' \in [Clusters -> Nat] /\ (\A d \in Clusters : next'[d] \in 1..Len(URLs[d]))
          /\ next'[c] = After(c, k) /\ \A d \in Clusters : d # c => next'[d] = next[d]
      BY <1>1, <1>2, <2>1, <2>4 DEF Types
    <2>6. /\ last' \in [Clusters -> Nodes \cup {"none"}] /\ last'[c] = u
          /\ \A d \in Clusters : d # c => last'[d] = last[d]
      BY <1>1, <1>3, <2>1 DEF Types
    <2>7. /\ mu' \in [Clusters -> Callers \cup {"free", "loop"}] /\ mu'[c] = "free"
          /\ \A d \in Clusters : d # c => mu'[d] = mu[d]
      BY <1>1, <2>1 DEF Types
    <2>8. /\ stayed' \in [Callers -> SUBSET Nodes] /\ stayed'[p] = {}
          /\ \A q \in Callers : q # p => stayed'[q] = stayed[q]
      BY <1>1, <2>1 DEF Types
    <2>9. Types'
      BY <1>1, <1>4, <2>3, <2>5, <2>6, <2>7, <2>8 DEF Types, HealthOK
    <2>10. ASSUME NEW d \in Clusters PROVE Holds(d)' /\ Begins(d)'
      <3>1. CASE d = c
        <4>1. Holds(d)'
          BY <1>1, <2>7, <3>1, NamesAssumption DEF IInv, Holds
        <4>2. Begins(d)'
          BY <1>3, <2>5, <2>6, <3>1 DEF Begins, After
        <4> QED BY <4>1, <4>2
      <3>2. CASE d # c
        <4>1. Holds(d)'
          BY <1>1, <1>5, <2>3, <2>7, <3>2 DEF IInv, Holds
        <4>2. Begins(d)'
          BY <2>5, <2>6, <3>2 DEF IInv, Begins, After
        <4> QED BY <4>1, <4>2
      <3> QED BY <3>1, <3>2
    <2>11. ASSUME NEW q \in Callers PROVE PlaceOK(q)' /\ Tried(q)'
      <3>1. CASE q = p
        BY <1>3, <2>2, <2>3, <3>1 DEF PlaceOK, Tried
      <3>2. CASE q # p
        <4>1. PlaceOK(q)'
          BY <1>6, <2>3, <2>7, <3>2 DEF IInv, PlaceOK
        <4>2. Tried(q)'
          BY <1>1, <1>6, <2>3, <2>5, <2>6, <2>8, <3>2, TriedStays DEF IInv
        <4> QED BY <4>1, <4>2
      <3> QED BY <3>1, <3>2
    <2>12. FindsNode'
      BY <1>1, <2>3, <2>8 DEF IInv, FindsNode
    <2> QED BY <2>9, <2>10, <2>11, <2>12 DEF IInv
  <1>8. (* A node that is down is tried *)
        ASSUME u \notin alive, NEW i \in Nat, i <= i0
        PROVE URLs[c][Position(c, i)] \notin stayed[p]
              /\ (last[c] # "none" => URLs[c][Position(c, i)] \notin alive)
    <2>1. CASE i = i0
      BY <1>1, <1>8, <2>1 DEF Types
    <2>2. CASE i < i0
      BY <1>1, <2>2 DEF IInv, Tried
    <2> QED BY <1>2, <1>8, <2>1, <2>2
  <1>9. CASE u \notin alive /\ job[p].left = 1
    <2>1. /\ mu' = [mu EXCEPT ![c] = "free"] /\ pc' = [pc EXCEPT ![p] = "nonode"]
          /\ UNCHANGED <<next, last, job, stayed>>
      BY <1>9 DEF Search, SearchOver, Goto
    <2>2. /\ pc' \in [Callers -> PCs] /\ pc'[p] = "nonode" /\ \A q \in Callers \ {p} : pc'[q] = pc[q]
          /\ mu' \in [Clusters -> Callers \cup {"free", "loop"}] /\ mu'[c] = "free"
          /\ \A d \in Clusters : d # c => mu'[d] = mu[d]
      BY <1>1, <2>1 DEF Types, PCs
    <2>3. Types'
      BY <1>1, <1>4, <2>1, <2>2 DEF Types, HealthOK
    <2>4. ASSUME NEW d \in Clusters PROVE Holds(d)' /\ Begins(d)'
      <3>1. Begins(d)'
        BY <2>1 DEF IInv, Begins
      <3>2. CASE d = c
        BY <1>1, <2>2, <3>1, <3>2, NamesAssumption DEF IInv, Holds
      <3>3. CASE d # c
        BY <1>1, <1>5, <2>1, <2>2, <3>1, <3>3 DEF IInv, Holds
      <3> QED BY <3>2, <3>3
    <2>5. ASSUME NEW q \in Callers PROVE PlaceOK(q)' /\ Tried(q)'
      <3>1. CASE q = p
        BY <1>1, <2>1, <2>2, <3>1 DEF PlaceOK, Tried
      <3>2. CASE q # p
        <4>1. PlaceOK(q)'
          BY <1>6, <2>1, <2>2, <3>2 DEF IInv, PlaceOK
        <4>2. Tried(q)'
          BY <1>1, <2>1, <2>2, <3>2, TriedStays DEF IInv
        <4> QED BY <4>1, <4>2
      <3> QED BY <3>1, <3>2
    <2>6. stayed[p] \cap Range(URLs[c]) = {}
      <3> SUFFICES ASSUME NEW v \in Range(URLs[c]), v \in stayed[p] PROVE FALSE
        OBVIOUS
      <3>1. PICK m \in 1..n : URLs[c][m] = v
        BY <1>1, Length
      <3>2. PICK i \in Nat : i < n /\ Position(c, i) = m
        BY <1>1, <1>2, Round
      <3>3. i <= i0
        BY <1>2, <1>9, <3>2
      <3> QED BY <1>8, <1>9, <3>1, <3>2, <3>3
    <2>7. FindsNode'
      BY <1>1, <2>1, <2>2, <2>6 DEF IInv, FindsNode
    <2> QED BY <2>3, <2>4, <2>5, <2>7 DEF IInv
  <1>10. CASE u \notin alive /\ job[p].left # 1
    <2> DEFINE j == [job[p] EXCEPT !.left = @ - 1]
    <2>1. job' = [job EXCEPT ![p] = j] /\ UNCHANGED <<next, last, mu, pc, stayed>>
      BY <1>10 DEF Search, SearchOver
    <2>2. j \in Jobs /\ j.cluster = c /\ j.left = job[p].left - 1 /\ j.left \in 1..n
      BY <1>1, <1>2, <1>10 DEF Jobs
    <2> HIDE DEF j
    <2>3. /\ job' \in [Callers -> Jobs] /\ job'[p] = j
          /\ \A q \in Callers \ {p} : job'[q] = job[q]
      BY <1>1, <2>1, <2>2 DEF Types
    <2>4. Types'
      BY <1>1, <1>4, <2>1, <2>3 DEF Types, HealthOK
    <2>5. ASSUME NEW d \in Clusters PROVE Holds(d)' /\ Begins(d)'
      BY <1>1, <2>1, <2>2, <2>3 DEF IInv, Holds, Begins
    <2>6. ASSUME NEW q \in Callers PROVE PlaceOK(q)' /\ Tried(q)'
      <3>1. CASE q = p
        <4>1. PlaceOK(p)'
          BY <1>1, <2>1, <2>2, <2>3 DEF PlaceOK
        <4>2. ASSUME NEW i \in Nat, i < n - j.left PROVE i <= i0
          BY <1>1, <1>2, <2>2, <4>2
        <4>3. Tried(p)'
          BY <1>1, <1>8, <1>10, <2>1, <2>2, <2>3, <4>2 DEF Tried, Position
        <4> QED BY <3>1, <4>1, <4>3
      <3>2. CASE q # p
        <4>1. PlaceOK(q)'
          BY <2>1, <2>3, <3>2 DEF IInv, PlaceOK
        <4>2. Tried(q)'
          BY <1>1, <2>1, <2>3, <3>2, TriedStays DEF IInv
        <4> QED BY <4>1, <4>2
      <3> QED BY <3>1, <3>2
    <2>7. FindsNode'
      BY <1>1, <2>1, <2>3 DEF IInv, FindsNode
    <2> QED BY <2>4, <2>5, <2>6, <2>7 DEF IInv
  <1> QED BY <1>7, <1>9, <1>10

-----------------------------------------------------------------------------
(* The answer. *)

(* A caller that has its node goes on without the mutex of a cluster.      *)
LEMMA SentStep ==
    ASSUME IInv, NEW p \in Callers, pc[p] \in {"send", "mark"},
           NEW l \in {"idle", "mark"}, NEW j \in Jobs, l = "mark" => j.url \in Nodes,
           pc' = [pc EXCEPT ![p] = l], job' = [job EXCEPT ![p] = j],
           UNCHANGED <<mu, next, loop, alive, stayed, last, flips>>,
           HealthOK', fails' \in 0..MaxFails
    PROVE IInv'
  <1>1. Types /\ l \in PCs
    BY DEF IInv, PCs
  <1>2. /\ pc' \in [Callers -> PCs] /\ job' \in [Callers -> Jobs]
        /\ pc'[p] = l /\ job'[p] = j
        /\ \A q \in Callers \ {p} : pc'[q] = pc[q] /\ job'[q] = job[q]
    BY <1>1, Moved
  <1>3. Types'
    BY <1>1, <1>2 DEF Types, HealthOK
  <1>4. ASSUME NEW d \in Clusters PROVE Holds(d)' /\ Begins(d)'
    <2>1. Holds(d) /\ mu[d] # p
      BY DEF IInv, Holds
    <2> QED BY <1>2, <2>1 DEF IInv, Holds, Begins
  <1>5. ASSUME NEW q \in Callers PROVE PlaceOK(q)' /\ Tried(q)'
    <2>1. CASE q = p
      BY <1>2, <2>1 DEF PlaceOK, Tried
    <2>2. CASE q # p
      <3>1. PlaceOK(q)'
        BY <1>2, <2>2 DEF IInv, PlaceOK
      <3>2. Tried(q)'
        BY <1>2, <2>2, TriedStays DEF IInv
      <3> QED BY <3>1, <3>2
    <2> QED BY <2>1, <2>2
  <1>6. FindsNode'
    BY <1>2 DEF IInv, FindsNode
  <1> QED BY <1>3, <1>4, <1>5, <1>6 DEF IInv

LEMMA SendStep ==
    ASSUME IInv, NEW p \in Callers, Send(p)
    PROVE IInv'
  <1>1. Types /\ HealthOK /\ pc[p] = "send"
        /\ UNCHANGED <<mu, next, health, loop, alive, stayed, last, flips>>
    BY DEF IInv, Send, Types, HealthOK, nodeVars, clientVars
  <1>2. /\ UNCHANGED fails \/ (fails < MaxFails /\ fails' = fails + 1)
        /\ \/ job' = [job EXCEPT ![p] = [job[p] EXCEPT !.todo = Clusters]] /\ Goto(p, "mark")
           \/ Answer(p)
    BY DEF Send
  <1>3. fails' \in 0..MaxFails
    BY <1>1, <1>2, ClusterBounds DEF Types
  <1>4. job[p].url \in Nodes
    BY <1>1 DEF IInv, PlaceOK
  <1>5. HealthOK'
    BY <1>1 DEF HealthOK
  <1>6. CASE job' = [job EXCEPT ![p] = [job[p] EXCEPT !.todo = Clusters]] /\ Goto(p, "mark")
    <2> DEFINE j == [job[p] EXCEPT !.todo = Clusters]
    <2>1. j \in Jobs /\ j.url \in Nodes
      <3>1. job[p] \in Jobs
        BY <1>1 DEF Types
      <3> QED BY <1>4, <3>1 DEF Jobs
    <2>2. job' = [job EXCEPT ![p] = j] /\ pc' = [pc EXCEPT ![p] = "mark"]
      BY <1>6 DEF Goto
    <2> HIDE DEF j
    <2> QED BY <1>1, <1>3, <1>5, <2>1, <2>2, SentStep
  <1>7. CASE Answer(p)
    <2>1. job' = [job EXCEPT ![p] = NoJob] /\ pc' = [pc EXCEPT ![p] = "idle"]
      BY <1>7 DEF Answer, Goto
    <2> QED BY <1>1, <1>3, <1>5, <2>1, NoJobType, SentStep
  <1> QED BY <1>2, <1>6, <1>7

LEMMA MarkUnhealthyStep ==
    ASSUME IInv, NEW p \in Callers, MarkUnhealthy(p)
    PROVE IInv'
  <1>1. /\ Types /\ HealthOK /\ pc[p] = "mark" /\ job[p] \in Jobs /\ job[p].url \in Nodes
        /\ UNCHANGED <<mu, next, loop, alive, stayed, last, flips, fails>>
    BY DEF IInv, MarkUnhealthy, Types, HealthOK, nodeVars, PlaceOK
  <1>2. PICK c \in job[p].todo :
          /\ health' = [health EXCEPT ![c] = Marked(@, job[p].url)]
          /\ IF job[p].todo = {c}
             THEN Answer(p)
             ELSE job' = [job EXCEPT ![p] = [job[p] EXCEPT !.todo = job[p].todo \ {c}]] /\ UNCHANGED pc
    BY DEF MarkUnhealthy
  <1>3. c \in Clusters /\ fails' \in 0..MaxFails
    BY <1>1, JobFields DEF Types
  <1>4. HealthOK'
    BY <1>1, <1>2, <1>3, MarkedType
  <1>5. CASE Answer(p)
    <2>1. job' = [job EXCEPT ![p] = NoJob] /\ pc' = [pc EXCEPT ![p] = "idle"]
      BY <1>5 DEF Answer, Goto
    <2> QED BY <1>1, <1>3, <1>4, <2>1, NoJobType, SentStep
  <1>6. CASE job' = [job EXCEPT ![p] = [job[p] EXCEPT !.todo = job[p].todo \ {c}]] /\ UNCHANGED pc
    <2> DEFINE j == [job[p] EXCEPT !.todo = job[p].todo \ {c}]
    <2>1. j \in Jobs /\ j.url \in Nodes
      BY <1>1 DEF Jobs
    <2>2. job' = [job EXCEPT ![p] = j] /\ pc' = [pc EXCEPT ![p] = "mark"]
      BY <1>1, <1>6 DEF Types
    <2> HIDE DEF j
    <2> QED BY <1>1, <1>3, <1>4, <2>1, <2>2, SentStep
  <1> QED BY <1>2, <1>5, <1>6

-----------------------------------------------------------------------------
(* The invariant. *)

LEMMA InvInit == Init => IInv
  <1> SUFFICES ASSUME Init PROVE IInv
    OBVIOUS
  <1>1. \A c \in Clusters : 1 \in 1..Len(URLs[c])
    BY Length
  <1>2. Types
    <2>1. /\ alive \subseteq Nodes /\ mu \in [Clusters -> Callers \cup {"free", "loop"}]
          /\ next \in [Clusters -> Nat] /\ loop \in [Clusters -> Nat]
          /\ last \in [Clusters -> Nodes \cup {"none"}]
      BY DEF Init
    <2>2. \A c \in Clusters : next[c] \in 1..Len(URLs[c]) /\ loop[c] <= Len(URLs[c])
      BY <1>1, Length DEF Init
    <2>3. health = [c \in Clusters |-> health[c]] /\ \A c \in Clusters : Display(c, health[c])
      BY Length DEF Init, Display
    <2>4. pc \in [Callers -> PCs] /\ job \in [Callers -> Jobs]
      BY NoJobType DEF Init, PCs
    <2>5. stayed \in [Callers -> SUBSET Nodes] /\ \A p \in Callers : stayed[p] \subseteq alive
      BY DEF Init
    <2> QED BY <2>1, <2>2, <2>3, <2>4, <2>5, ClusterBounds DEF Init, Types
  <1>3. \A c \in Clusters : Holds(c) /\ Begins(c)
    BY NamesAssumption DEF Init, Holds, Begins
  <1>4. \A p \in Callers : PlaceOK(p) /\ Tried(p)
    BY DEF Init, PlaceOK, Tried
  <1>5. FindsNode
    BY DEF Init, FindsNode
  <1> QED BY <1>2, <1>3, <1>4, <1>5 DEF IInv

LEMMA InvStep == IInv /\ [Next]_vars => IInv'
  <1> SUFFICES ASSUME IInv, [Next]_vars PROVE IInv'
    OBVIOUS
  <1>1. CASE UNCHANGED vars
    <2>1. UNCHANGED <<alive, stayed, last, flips, mu, next, health, loop, pc, job, fails>>
      BY <1>1 DEF vars, nodeVars, clientVars
    <2>2. Types' /\ FindsNode'
      BY <2>1 DEF IInv, Types, FindsNode
    <2>3. \A c \in Clusters : Holds(c)' /\ Begins(c)'
      BY <2>1 DEF IInv, Holds, Begins
    <2>4. \A p \in Callers : PlaceOK(p)' /\ Tried(p)'
      BY <2>1, TriedStays DEF IInv, PlaceOK
    <2> QED BY <2>2, <2>3, <2>4 DEF IInv
  <1>2. ASSUME NEW c \in Clusters, Check(c) PROVE IInv'
    BY <1>2, TickStep, LoopPingStep DEF Check
  <1>3. ASSUME NEW p \in Callers, Step(p) PROVE IInv'
    BY <1>3, AcquireStep, SearchStep, SendStep, MarkUnhealthyStep DEF Step
  <1> QED BY <1>1, <1>2, <1>3, FlipStep, RequestStep DEF Next

(* Whoever pings the nodes of a cluster has its mutex, what a search tried *)
(* was down, and the next one begins behind the node chosen last           *)
(* (client.go:69-117).                                                     *)
THEOREM Invariant == Spec => []IInv
  BY InvInit, InvStep, PTL DEF Spec

(* Every variable has its type, and a mutex is held exactly by whoever     *)
(* pings the nodes of its cluster (client.go:69-117).                      *)
THEOREM TypeCorrect == Spec => []TypeOK
  <1>1. IInv => TypeOK
    <2> SUFFICES ASSUME IInv PROVE TypeOK
      OBVIOUS
    <2>1. Types
      BY DEF IInv
    <2>2. ASSUME NEW c \in Clusters
          PROVE /\ mu[c] \in Callers \cup {"free", "loop"} /\ (mu[c] = "loop" <=> loop[c] > 0)
                /\ next[c] \in DOMAIN URLs[c] /\ loop[c] \in 0..Len(URLs[c])
                /\ Range(URLs[c]) \subseteq DOMAIN health[c] /\ DOMAIN health[c] \subseteq Nodes
                /\ health[c] \in [DOMAIN health[c] -> BOOLEAN] /\ last[c] \in Nodes \cup {"none"}
      BY <2>1, Length DEF Types, IInv, Holds, Display
    <2>3. ASSUME NEW p \in Callers
          PROVE /\ pc[p] \in PCs /\ stayed[p] \subseteq alive
                /\ (pc[p] = "ping" <=> \E c \in Clusters : mu[c] = p)
      <3>1. pc[p] \in PCs /\ stayed[p] \subseteq alive
        BY <2>1 DEF Types
      <3>2. ASSUME pc[p] = "ping" PROVE \E c \in Clusters : mu[c] = p
        BY <3>2 DEF IInv, PlaceOK
      <3>3. ASSUME NEW c \in Clusters, mu[c] = p PROVE pc[p] = "ping"
        BY <3>3 DEF IInv, Holds
      <3> QED BY <3>1, <3>2, <3>3
    <2> QED BY <2>1, <2>2, <2>3 DEF Types, TypeOK
  <1> QED BY <1>1, Invariant, PTL

(* A request fails for want of a node only if no node of its cluster was   *)
(* up all the while it searched (client.go:102-117): it went once round.   *)
THEOREM NodesAreFound == Spec => []FindsNode
  <1>1. IInv => FindsNode
    BY DEF IInv
  <1> QED BY <1>1, Invariant, PTL

-----------------------------------------------------------------------------
(* The order in which nodes are chosen. *)

(* The positions tried are counted from the node chosen last.              *)
LEMMA Behind ==
    ASSUME NEW c \in Clusters, NEW k \in 1..Len(URLs[c]), next[c] = After(c, k),
           NEW i \in Nat, i < Len(URLs[c])
    PROVE ((k - 1 + (i + 1)) % Len(URLs[c])) + 1 = Position(c, i)
  <1> DEFINE n == Len(URLs[c])
  <1>1. n \in Nat \ {0} /\ k \in 1..n /\ i \in 0..(n - 1)
    BY Length
  <1>2. next[c] = (IF k = n THEN 1 ELSE k + 1) /\ next[c] \in 1..n
    BY AfterIs
  <1>3. Position(c, i) = IF next[c] + i <= n THEN next[c] + i ELSE next[c] + i - n
    BY <1>2, PositionIs
  <1> HIDE DEF n
  <1>4. ((k - 1 + (i + 1)) % n) + 1 = Position(c, i)
    <2>1. CASE i + 1 <= n - 1
      <3>1. i + 1 \in 0..(n - 1)
        BY <1>1, <2>1
      <3>2. ((k - 1 + (i + 1)) % n) + 1 = IF k + (i + 1) <= n THEN k + (i + 1) ELSE k + (i + 1) - n
        BY <1>1, <3>1, StepsInTurn
      <3>3. Position(c, i) = IF k + (i + 1) <= n THEN k + (i + 1) ELSE k + (i + 1) - n
        <4>1. CASE k = n
          BY <1>1, <1>2, <1>3, <4>1
        <4>2. CASE k # n
          BY <1>1, <1>2, <1>3, <4>2
        <4> QED BY <4>1, <4>2
      <3> QED BY <3>2, <3>3
    <2>2. CASE i + 1 = n
      <3> DEFINE a == k - 1 + (i + 1)
      <3>1. a \in n..(n + n - 1) /\ a - n = k - 1
        BY <1>1, <2>2
      <3> HIDE DEF a
      <3>2. a % n = k - 1
        BY <1>1, <3>1, ModOnce
      <3>3. (a % n) + 1 = k
        BY <1>1, <3>2
      <3>4. Position(c, i) = k
        BY <1>1, <1>2, <1>3, <2>2
      <3> QED BY <3>3, <3>4 DEF a
    <2> QED BY <1>1, <2>1, <2>2
  <1> QED BY <1>4 DEF n

LEMMA ChoiceInTurn ==
    ASSUME IInv, NEW p \in Callers, NEW c \in Clusters, Search(p), pc'[p] = "send",
           pc[p] = "ping", job[p].cluster = c, last[c] # "none"
    PROVE \E k, n \in 1..Len(URLs[c]) :
             /\ URLs[c][k] = last[c]
             /\ URLs[c][((k - 1 + n) % Len(URLs[c])) + 1] = job'[p].url
             /\ \A i \in 1..(n - 1) : URLs[c][((k - 1 + i) % Len(URLs[c])) + 1] \notin alive
  <1> DEFINE i0 == Len(URLs[c]) - job[p].left
             n == i0 + 1
  <1>1. /\ Types /\ job[p].left \in 1..Len(URLs[c]) /\ pc \in [Callers -> PCs] /\ job[p] \in Jobs
        /\ job \in [Callers -> Jobs] /\ Len(URLs[c]) \in Nat \ {0}
    BY Length DEF IInv, PlaceOK, Types
  <1>2. i0 \in Nat /\ i0 < Len(URLs[c]) /\ n \in 1..Len(URLs[c])
    BY <1>1
  <1>3. job'[p].url = URLs[c][Position(c, i0)]
    <2> DEFINE u == URLs[c][Position(c, i0)]
               j == [job[p] EXCEPT !.url = u, !.left = 0]
    <2>1. u \in alive /\ job' = [job EXCEPT ![p] = j]
      BY <1>1 DEF Search, Goto
    <2>2. j.url = u
      BY <1>1 DEF Jobs
    <2> HIDE DEF j
    <2> QED BY <1>1, <2>1, <2>2
  <1>4. PICK k \in 1..Len(URLs[c]) : URLs[c][k] = last[c] /\ next[c] = After(c, k)
    BY DEF IInv, Begins
  <1>5. URLs[c][((k - 1 + n) % Len(URLs[c])) + 1] = job'[p].url
    BY <1>2, <1>3, <1>4, Behind
  <1>6. ASSUME NEW i \in 1..(n - 1) PROVE URLs[c][((k - 1 + i) % Len(URLs[c])) + 1] \notin alive
    <2> DEFINE m == i - 1
    <2>1. m \in Nat /\ m < i0 /\ m < Len(URLs[c]) /\ m + 1 = i
      BY <1>2
    <2>2. URLs[c][Position(c, m)] \notin alive
      BY <2>1 DEF IInv, Tried
    <2> HIDE DEF m
    <2> QED BY <1>4, <2>1, <2>2, Behind
  <1> QED BY <1>2, <1>4, <1>5, <1>6

(* The step that InTurn speaks of. *)
ChosenInTurn ==
    \A p \in Callers, c \in Clusters :
      (pc[p] = "ping" /\ pc'[p] = "send" /\ job[p].cluster = c /\ last[c] # "none")
        => \E k, n \in 1..Len(URLs[c]) :
             /\ URLs[c][k] = last[c]
             /\ URLs[c][((k - 1 + n) % Len(URLs[c])) + 1] = job'[p].url
             /\ \A i \in 1..(n - 1) : URLs[c][((k - 1 + i) % Len(URLs[c])) + 1] \notin alive

(* Only its own search takes a caller from pinging to sending.             *)
LEMMA OnlySearchChooses ==
    ASSUME IInv, [Next]_vars, NEW p \in Callers, pc[p] = "ping", pc'[p] = "send"
    PROVE Search(p)
  <1>1. Types
    BY DEF IInv
  <1>2. ASSUME UNCHANGED pc PROVE FALSE
    BY <1>2
  <1>3. ASSUME NEW q \in Callers, NEW l \in PCs \ {"send"}, pc' = [pc EXCEPT ![q] = l] PROVE FALSE
    BY <1>1, <1>3 DEF Types
  <1>4. ~UNCHANGED vars
    BY <1>2 DEF vars
  <1>5. \A u \in Nodes : ~Flip(u)
    BY <1>2 DEF Flip
  <1>6. \A c \in Clusters : ~Check(c)
    BY <1>2 DEF Check, Tick, LoopPing
  <1>7. \A q \in Callers, c \in Clusters : ~Request(q, c)
    BY <1>3 DEF Request, Goto, PCs
  <1>8. ASSUME NEW q \in Callers, Step(q) PROVE q = p /\ Search(q)
    <2>1. ~Acquire(q)
      BY <1>3 DEF Acquire, Goto, PCs
    <2>2. ~MarkUnhealthy(q)
      BY <1>2, <1>3 DEF MarkUnhealthy, Answer, Goto, PCs
    <2>3. ~Send(q)
      BY <1>3 DEF Send, Answer, Goto, PCs
    <2>4. Search(q)
      BY <1>8, <2>1, <2>2, <2>3 DEF Step
    <2>5. pc'[p] # pc[p] => q = p
      BY <1>1, <2>4 DEF Types, Search, Goto
    <2> QED BY <2>4, <2>5
  <1> QED BY <1>4, <1>5, <1>6, <1>7, <1>8 DEF Next

LEMMA StepInTurn == IInv /\ [Next]_vars => [ChosenInTurn]_vars
  <1> SUFFICES ASSUME IInv, [Next]_vars PROVE ChosenInTurn
    OBVIOUS
  <1> QED BY OnlySearchChooses, ChoiceInTurn DEF ChosenInTurn

(* While no node of a cluster goes down or comes up, its nodes are chosen  *)
(* in turn, whichever goroutines ask (client.go:106-112).                  *)
THEOREM NodesInTurn == Spec => InTurn
  <1>1. InTurn <=> [][ChosenInTurn]_vars
    BY PTL DEF InTurn, ChosenInTurn
  <1> QED BY <1>1, Invariant, StepInTurn, PTL DEF Spec

-----------------------------------------------------------------------------
(* Mutexes come back.                                                      *)

(* The pings for which the mutex of c is still held, at most.              *)
PingsLeft(c) ==
    CASE mu[c] = "free" -> 0
      [] mu[c] = "loop" -> Len(URLs[c]) - loop[c] + 1
      [] OTHER          -> job[mu[c]].left

(* Who holds a mutex is about to ping, which needs no mutex; each ping of  *)
(* it brings the release nearer, and nothing anyone else does puts it off. *)
HandedBack ==
    \A c \in Clusters : mu[c] # "free" =>
        /\ mu[c] \in Callers => pc[mu[c]] = "ping"
        /\ PingsLeft(c) \in 1..Len(URLs[c])
        /\ \/ UNCHANGED <<mu[c], PingsLeft(c)>>
           \/ /\ PingsLeft(c)' < PingsLeft(c)
              /\ IF mu[c] = "loop" THEN LoopPing(c) ELSE Search(mu[c])

LEMMA PingsLeftIs ==
    ASSUME IInv, NEW c \in Clusters, mu[c] # "free"
    PROVE /\ mu[c] \in Callers => pc[mu[c]] = "ping" /\ job[mu[c]].cluster = c
          /\ mu[c] = "loop" => PingsLeft(c) = Len(URLs[c]) - loop[c] + 1
          /\ mu[c] # "loop" => mu[c] \in Callers /\ PingsLeft(c) = job[mu[c]].left
          /\ PingsLeft(c) \in 1..Len(URLs[c])
  <1>1. /\ mu[c] \in Callers \cup {"loop"} /\ Types /\ Holds(c)
        /\ Len(URLs[c]) \in Nat \ {0} /\ loop[c] \in Nat /\ loop[c] <= Len(URLs[c])
    BY Length DEF IInv, Types
  <1>2. CASE mu[c] = "loop"
    <2>1. PingsLeft(c) = Len(URLs[c]) - loop[c] + 1 /\ loop[c] > 0
      BY <1>1, <1>2 DEF PingsLeft, Holds
    <2>2. mu[c] \notin Callers
      BY <1>2, NamesAssumption
    <2> QED BY <1>1, <1>2, <2>1, <2>2
  <1>3. CASE mu[c] # "loop"
    <2>1. mu[c] \in Callers /\ PingsLeft(c) = job[mu[c]].left
      BY <1>1, <1>3 DEF PingsLeft
    <2>2. pc[mu[c]] = "ping" /\ job[mu[c]].cluster = c
      BY <1>1, <2>1 DEF Holds
    <2>3. job[mu[c]].left \in 1..Len(URLs[c])
      BY <2>1, <2>2 DEF IInv, PlaceOK
    <2> QED BY <1>3, <2>1, <2>2, <2>3
  <1> QED BY <1>2, <1>3

LEMMA StepHandsBack ==
    ASSUME IInv, [Next]_vars, NEW c \in Clusters, mu[c] # "free"
    PROVE \/ UNCHANGED <<mu[c], PingsLeft(c)>>
          \/ /\ PingsLeft(c)' < PingsLeft(c)
             /\ IF mu[c] = "loop" THEN LoopPing(c) ELSE Search(mu[c])
  <1>0. /\ Types /\ \A d \in Clusters : Holds(d)
        /\ \A p \in Callers : PlaceOK(p)
    BY DEF IInv
  <1>1. /\ mu \in [Clusters -> Callers \cup {"free", "loop"}] /\ loop \in [Clusters -> Nat]
        /\ pc \in [Callers -> PCs] /\ job \in [Callers -> Jobs]
    BY <1>0 DEF Types
  <1>2. ASSUME mu'[c] = mu[c], loop'[c] = loop[c], mu[c] \in Callers => job'[mu[c]] = job[mu[c]]
        PROVE  UNCHANGED <<mu[c], PingsLeft(c)>>
    <2>1. (mu[c])' = mu[c]
      BY <1>2
    <2>2. CASE mu[c] = "loop"
      BY <1>2, <2>2 DEF PingsLeft
    <2>3. CASE mu[c] \in Callers
      BY <1>2, <2>3 DEF PingsLeft
    <2>4. PingsLeft(c)' = PingsLeft(c)
      BY <1>1, <2>2, <2>3
    <2> QED BY <2>1, <2>4
  <1>3. ASSUME mu'[c] = "free" PROVE PingsLeft(c)' = 0
    BY <1>3 DEF PingsLeft
  <1>4. ASSUME NEW p \in Callers, job' = [job EXCEPT ![p] = job'[p]], pc[p] # "ping", mu'[c] = mu[c], UNCHANGED loop
        PROVE  UNCHANGED <<mu[c], PingsLeft(c)>>
    <2>1. mu[c] # p
      BY <1>4, PingsLeftIs
    <2>2. mu[c] \in Callers => job'[mu[c]] = job[mu[c]]
      BY <1>1, <1>4, <2>1
    <2> QED BY <1>2, <1>4, <2>2
  <1>5. CASE UNCHANGED vars
    BY <1>2, <1>5 DEF vars, clientVars
  <1>6. ASSUME NEW u \in Nodes, Flip(u) PROVE UNCHANGED <<mu[c], PingsLeft(c)>>
    BY <1>2, <1>6 DEF Flip, clientVars
  <1>7. ASSUME NEW d \in Clusters, Tick(d) PROVE UNCHANGED <<mu[c], PingsLeft(c)>>
    <2>1. d # c
      BY <1>7 DEF Tick
    <2>2. mu'[c] = mu[c] /\ loop'[c] = loop[c] /\ job' = job
      BY <1>1, <1>7, <2>1 DEF Tick
    <2> QED BY <1>2, <2>2
  <1>8. ASSUME NEW d \in Clusters, LoopPing(d)
        PROVE  \/ UNCHANGED <<mu[c], PingsLeft(c)>>
               \/ PingsLeft(c)' < PingsLeft(c) /\ mu[c] = "loop" /\ d = c
    <2>1. CASE d # c
      <3>1. mu'[c] = mu[c] /\ loop'[c] = loop[c] /\ job' = job
        BY <1>1, <1>8, <2>1 DEF LoopPing
      <3> QED BY <1>2, <3>1
    <2>2. CASE d = c
      <3>1. mu[c] = "loop" /\ loop[c] > 0
        BY <1>0, <1>8, <2>2 DEF LoopPing, Holds
      <3>2. PingsLeft(c) = Len(URLs[c]) - loop[c] + 1 /\ PingsLeft(c) \in Nat \ {0} /\ Len(URLs[c]) \in Nat
        BY <3>1, PingsLeftIs, Length
      <3>3. mu'[c] = "free" \/ (mu'[c] = "loop" /\ loop'[c] = loop[c] + 1)
        BY <1>1, <1>8, <2>2, <3>1 DEF LoopPing
      <3>4. CASE mu'[c] = "free"
        BY <1>3, <2>2, <3>1, <3>2, <3>4
      <3>5. CASE mu'[c] = "loop" /\ loop'[c] = loop[c] + 1
        <4>1. PingsLeft(c)' = Len(URLs[c]) - (loop[c] + 1) + 1
          BY <3>5 DEF PingsLeft
        <4>2. loop[c] \in Nat
          BY <1>1
        <4> QED BY <2>2, <3>1, <3>2, <4>1, <4>2
      <3> QED BY <3>3, <3>4, <3>5
    <2> QED BY <2>1, <2>2
  <1>9. ASSUME NEW p \in Callers, NEW d \in Clusters, Request(p, d) PROVE UNCHANGED <<mu[c], PingsLeft(c)>>
    <2>1. pc[p] # "ping" /\ UNCHANGED <<mu, loop>> /\ job' = [job EXCEPT ![p] = job'[p]]
      BY <1>1, <1>9 DEF Request, clientVars
    <2> QED BY <1>4, <2>1
  <1>10. ASSUME NEW p \in Callers, Acquire(p) PROVE UNCHANGED <<mu[c], PingsLeft(c)>>
    <2>1. job[p].cluster \in Clusters /\ mu[job[p].cluster] = "free"
      BY <1>0, <1>10 DEF Acquire, PlaceOK
    <2>2. mu'[c] = mu[c] /\ UNCHANGED <<loop, job>>
      BY <1>1, <1>10, <2>1 DEF Acquire
    <2> QED BY <1>2, <2>2
  <1>11. ASSUME NEW p \in Callers, Send(p) \/ MarkUnhealthy(p) PROVE UNCHANGED <<mu[c], PingsLeft(c)>>
    <2>1. pc[p] # "ping" /\ UNCHANGED <<mu, loop>>
      BY <1>11 DEF Send, MarkUnhealthy, clientVars
    <2>2. job' = [job EXCEPT ![p] = job'[p]]
      BY <1>1, <1>11 DEF Send, MarkUnhealthy, Answer
    <2> QED BY <1>4, <2>1, <2>2
  <1>12. ASSUME NEW p \in Callers, Search(p)
         PROVE  \/ UNCHANGED <<mu[c], PingsLeft(c)>>
                \/ PingsLeft(c)' < PingsLeft(c) /\ mu[c] = p
    <2> DEFINE d == job[p].cluster
    <2>1. pc[p] = "ping" /\ d \in Clusters /\ mu[d] = p /\ UNCHANGED loop
      BY <1>0, <1>12 DEF Search, PlaceOK
    <2>2. \/ mu' = [mu EXCEPT ![d] = "free"] /\ \A q \in Callers : q # p => job'[q] = job[q]
          \/ UNCHANGED mu /\ job' = [job EXCEPT ![p].left = job[p].left - 1]
      BY <1>1, <1>12 DEF Search
    <2>3. CASE d # c
      <3>1. mu[c] # p
        BY <2>3, PingsLeftIs
      <3>2. mu'[c] = mu[c] /\ \A q \in Callers : q # p => job'[q] = job[q]
        BY <1>1, <2>1, <2>2, <2>3
      <3> QED BY <1>2, <2>1, <3>1, <3>2
    <2>4. CASE d = c
      <3>1. mu[c] = p /\ PingsLeft(c) = job[p].left /\ PingsLeft(c) \in Nat \ {0}
        <4>1. p # "loop"
          BY NamesAssumption
        <4>2. mu[c] = p
          BY <2>1, <2>4
        <4> QED BY <4>1, <4>2, PingsLeftIs, Length
      <3>2. CASE mu' = [mu EXCEPT ![d] = "free"]
        <4>1. mu'[c] = "free"
          BY <1>1, <2>4, <3>2
        <4> QED BY <1>3, <3>1, <4>1
      <3>3. CASE UNCHANGED mu /\ job' = [job EXCEPT ![p].left = job[p].left - 1]
        <4>1. job'[p].left = job[p].left - 1
          BY <1>1, <3>3 DEF Jobs
        <4>2. mu'[c] = p /\ p # "loop" /\ p # "free"
          BY <3>1, <3>3, NamesAssumption
        <4>3. PingsLeft(c)' = job'[p].left
          BY <4>2 DEF PingsLeft
        <4> QED BY <3>1, <4>1, <4>3
      <3> QED BY <2>2, <3>2, <3>3
    <2> QED BY <2>3, <2>4
  <1>13. \A p \in Callers : p # "loop"
    BY NamesAssumption
  <1> QED BY <1>5, <1>6, <1>7, <1>8, <1>9, <1>10, <1>11, <1>12, <1>13 DEF Next, Step, Check

(* A mutex is held over at most as many pings as its cluster has nodes,    *)
(* and who holds one waits for none: the half of RequestEnds that does not *)
(* need fairness, and no two can wait for each other (client.go:102-117,   *)
(* 421-429).                                                               *)
THEOREM MutexesComeBack == Spec => [][HandedBack]_vars
  <1>1. IInv /\ [Next]_vars => HandedBack
    BY PingsLeftIs, StepHandsBack DEF HandedBack
  <1> QED BY <1>1, Invariant, PTL DEF Spec
=============================================================================

-------------------------- MODULE SchedulerProofs --------------------------
(***************************************************************************)
(* Theorems about Scheduler, for any handlers, specs, rows, requests,      *)
(* failures and restarts.                                                  *)
(***************************************************************************)
EXTENDS Scheduler, FiniteSetTheorems, TLAPS

(* Nothing is known of an id that was not given yet. *)
FreshInv ==
    /\ \A i \in Id : i > lastId => state[i] = "absent"
    /\ \A e \in entries : e.id <= lastId
    /\ \A h \in Handlers : pc[h] # "idle" => req[h].id <= lastId

TypeInv == TypeOK /\ FreshInv

(* Who holds which EntryID: an entry is mapped, or a handler took it from  *)
(* the map to remove it, or has added it and will map it, never two of     *)
(* them.                                                                   *)
MapInv ==
    /\ MapIsSound
    /\ \A e, f \in entries : e.eid = f.eid => e = f
    /\ \A i \in Id : entryIDs[i] <= lastEntry
    /\ \A h \in Handlers :
          /\ pc[h] = "remove" =>
                /\ req[h].eid <= lastEntry
                /\ \A i \in Id : entryIDs[i] # 0 => entryIDs[i] # req[h].eid
                /\ \A e \in entries : e.eid = req[h].eid => e.id = req[h].id
          /\ pc[h] = "map" =>
                /\ req[h].eid \in 1..lastEntry
                /\ [eid |-> req[h].eid, id |-> req[h].id, spec |-> req[h].spec] \in entries
                /\ \A i \in Id : entryIDs[i] # req[h].eid
                /\ \A g \in Handlers : pc[g] = "remove" => req[g].eid # req[h].eid
                /\ \A g \in Handlers : pc[g] = "map" /\ g # h => req[g].eid # req[h].eid

(* The schedule's entries, if it has any, are the one in the map. *)
Mapped(i) == \A e \in EntriesOf(i) : e.eid = entryIDs[i]

(* It fires if and only if its row is enabled, as its row says. *)
Served(i) ==
    /\ state[i] = "on" => \E e \in EntriesOf(i) : e.spec = spec[i]
    /\ \A e \in EntriesOf(i) : state[i] = "on" /\ e.spec = spec[i]

(* What handler h, about to register, knows is what its row says. *)
Knows(h) ==
    /\ req[h].enabled <=> state[req[h].id] = "on"
    /\ req[h].enabled => req[h].spec = spec[req[h].id]

(* How far a handler has come with its schedule, when no other works on it. *)
Progress(h) ==
    LET i == req[h].id IN
    /\ pc[h] \in {"update", "first", "enable", "find", "drop", "unmap"} => Mapped(i)
    /\ pc[h] \in {"update", "find", "drop"} => Served(i)
    /\ pc[h] \in {"find", "drop"} => ~req[h].enabled
    /\ pc[h] = "first" /\ state[i] = "absent" => EntriesOf(i) = {}
    /\ pc[h] = "enable" => state[i] # "absent" /\ req[h].spec = spec[i]
    /\ pc[h] \in {"unmap", "remove", "add", "map"} => Knows(h)
    /\ pc[h] = "remove" => \A e \in EntriesOf(i) : e.eid = req[h].eid
    /\ pc[h] = "add" => EntriesOf(i) = {} /\ req[h].enabled
    /\ pc[h] = "map" => req[h].enabled /\ \A e \in EntriesOf(i) : e.eid = req[h].eid /\ e.spec = req[h].spec

WorksOn(h, i) == pc[h] # "idle" /\ req[h].id = i

RowInv(i) ==
    /\ \A g, h \in Handlers : WorksOn(g, i) /\ WorksOn(h, i) => g = h
    /\ ~Busy(i) => Mapped(i) /\ Served(i)
    /\ \A h \in Handlers : WorksOn(h, i) => Progress(h)

RowsInv == \A i \in Id \ mixed : RowInv(i)

-----------------------------------------------------------------------------
(* A start: Loaded gives each row it is given one entry, and maps it.      *)

Fits(L, On, sp) ==
    /\ L.entries \subseteq Entries /\ L.lastEntry \in Nat
    /\ L.entryIDs \in [Id -> Nat]
    /\ \A i \in Id : IF i \in On THEN L.entryIDs[i] \in 1..L.lastEntry ELSE L.entryIDs[i] = 0
    /\ \A i \in On : [eid |-> L.entryIDs[i], id |-> i, spec |-> sp[i]] \in L.entries
    /\ \A e \in L.entries : e.id \in On /\ e.eid = L.entryIDs[e.id] /\ e.spec = sp[e.id]
    /\ \A i, j \in Id : L.entryIDs[i] = L.entryIDs[j] /\ L.entryIDs[i] # 0 => i = j

LEMMA LoadedFits ==
    ASSUME NEW On, On \subseteq Id, NEW sp \in [Id -> Specs], NEW L, L = Loaded(On, sp)
    PROVE  Fits(L, On, sp)
<1> DEFINE Before(i) == {j \in On : j <= i}
           Position(i) == Cardinality(Before(i))
<1>1. Id \subseteq Nat /\ IsFiniteSet(Id)
  BY FS_Interval, BoundAssumption DEF Id
<1>2. IsFiniteSet(On) /\ Cardinality(On) \in Nat
  BY <1>1, FS_Subset, FS_CardinalityType
<1>3. \A i \in On : IsFiniteSet(Before(i)) /\ Position(i) \in 1..Cardinality(On)
  <2> TAKE i \in On
  <2>1. IsFiniteSet(Before(i)) /\ Position(i) <= Cardinality(On)
    BY <1>2, FS_Subset
  <2>2. i \in Before(i)
    BY <1>1
  <2>3. Position(i) \in Nat /\ Position(i) # 0
    BY <2>1, <2>2, FS_CardinalityType, FS_EmptySet
  <2> QED BY <1>2, <2>1, <2>3
<1>4. \A i, j \in On : i < j => Position(i) # Position(j)
  <2> TAKE i, j \in On
  <2> HAVE i < j
  <2>1. \A k \in On : k \in Nat
    BY <1>1
  <2>2. \A k \in On : k <= i => k <= j
    BY <2>1
  <2>3. j <= j /\ ~(j <= i)
    BY <2>1
  <2>4. Before(i) \subseteq Before(j)
    BY <2>2
  <2>5. j \in Before(j) /\ j \notin Before(i)
    BY <2>3
  <2> QED BY <2>4, <2>5, <1>3, FS_Subset
<1>5. \A i, j \in On : Position(i) = Position(j) => i = j
  BY <1>1, <1>4
<1> HIDE DEF Position, Before
<1>6. /\ L.entries = {[eid |-> Position(i), id |-> i, spec |-> sp[i]] : i \in On}
      /\ L.lastEntry = Cardinality(On)
      /\ L.entryIDs = [i \in Id |-> IF i \in On THEN Position(i) ELSE 0]
  BY DEF Loaded, Position, Before
<1>7. L.entries \subseteq Entries
  BY <1>1, <1>3, <1>6 DEF Entries
<1>8. L.entryIDs \in [Id -> Nat]
  BY <1>3, <1>6
<1>9. \A i \in Id : IF i \in On THEN L.entryIDs[i] \in 1..L.lastEntry ELSE L.entryIDs[i] = 0
  BY <1>3, <1>6
<1>10. \A i \in On : [eid |-> L.entryIDs[i], id |-> i, spec |-> sp[i]] \in L.entries
  BY <1>6
<1>11. \A e \in L.entries : e.id \in On /\ e.eid = L.entryIDs[e.id] /\ e.spec = sp[e.id]
  BY <1>6
<1>12. \A i, j \in Id : L.entryIDs[i] = L.entryIDs[j] /\ L.entryIDs[i] # 0 => i = j
  BY <1>5, <1>6
<1> QED BY <1>2, <1>6, <1>7, <1>8, <1>9, <1>10, <1>11, <1>12 DEF Fits

-----------------------------------------------------------------------------
(* Type correctness. *)

LEMMA InitialRows ==
    ASSUME Init
    PROVE  /\ state \in [Id -> States] /\ spec \in [Id -> Specs]
           /\ Loaded(EnabledRows, spec).lastEntry = 2
<1>1. state \in [Id -> States] /\ spec \in [Id -> Specs]
  BY SpecsAssumption DEF Init, States
<1>2. EnabledRows = {1, 2}
  BY BoundAssumption DEF Init, Id, EnabledRows
<1>3. Cardinality({1, 2}) = 2
  <2>1. IsFiniteSet({1}) /\ Cardinality({1}) = 1
    BY FS_Singleton
  <2>2. {1, 2} = {1} \cup {2} /\ 2 \notin {1}
    OBVIOUS
  <2> QED BY <2>1, <2>2, FS_AddElement
<1> QED BY <1>1, <1>2, <1>3 DEF Loaded

LEMMA NoRequestType == NoRequest \in Requests
BY SpecsAssumption, BoundAssumption DEF NoRequest, Requests, Id

LEMMA TypeInit == Init => TypeInv
<1> SUFFICES ASSUME Init PROVE TypeInv
  OBVIOUS
<1> DEFINE L == Loaded(EnabledRows, spec)
<1>1. /\ state \in [Id -> States] /\ spec \in [Id -> Specs]
      /\ entries = L.entries /\ entryIDs = L.entryIDs /\ lastEntry = L.lastEntry
  BY InitialRows DEF Init
<1>2. /\ entries \subseteq Entries /\ lastEntry \in Nat /\ entryIDs \in [Id -> Nat]
      /\ \A e \in entries : state[e.id] = "on" /\ e.eid = entryIDs[e.id] /\ e.id \in Id
      /\ \A i \in Id : state[i] = "on" => entryIDs[i] \in 1..lastEntry
  <2>1. EnabledRows \subseteq Id
    BY DEF EnabledRows
  <2>2. Fits(L, EnabledRows, spec)
    <3>1. L = Loaded(EnabledRows, spec)
      OBVIOUS
    <3> HIDE DEF L
    <3> QED BY <1>1, <2>1, <3>1, LoadedFits
  <2> HIDE DEF L
  <2>3. \A i \in Id : i \in EnabledRows <=> state[i] = "on"
    BY DEF EnabledRows
  <2> QED BY <1>1, <2>1, <2>2, <2>3 DEF Fits
<1>3. \A e \in entries : e.eid \in 1..lastEntry
  BY <1>2
<1>4. TypeOK
  BY <1>1, <1>2, <1>3, NoRequestType, BoundAssumption DEF Init, TypeOK, PCs
<1>5. \A i \in Id : state[i] = (IF i <= 2 THEN "on" ELSE "absent")
  BY DEF Init
<1>6. lastId = 2 /\ \A h \in Handlers : pc[h] = "idle"
  BY DEF Init
<1>7. \A i \in Id : i > lastId => state[i] = "absent"
  BY <1>5, <1>6 DEF Id
<1>8. \A e \in entries : e.id <= lastId
  BY <1>2, <1>5, <1>6
<1> QED BY <1>4, <1>6, <1>7, <1>8 DEF TypeInv, FreshInv

(* What handler h does to its place and its locals. *)
LEMMA LocalType ==
    ASSUME TypeInv, NEW h \in Handlers, NEW l \in PCs, NEW r \in Requests,
           l # "idle" => r.id <= lastId',
           pc' = [pc EXCEPT ![h] = l], req' = [req EXCEPT ![h] = r], lastId' \in Nat, lastId <= lastId'
    PROVE  /\ pc' \in [Handlers -> PCs] /\ req' \in [Handlers -> Requests]
           /\ \A g \in Handlers : pc'[g] # "idle" => req'[g].id <= lastId'
<1>1. pc' \in [Handlers -> PCs] /\ req' \in [Handlers -> Requests]
  BY DEF TypeInv, TypeOK
<1>2. ASSUME NEW g \in Handlers, pc'[g] # "idle" PROVE req'[g].id <= lastId'
  <2>1. CASE g = h
    BY <1>2, <2>1 DEF TypeInv, TypeOK
  <2>2. CASE g # h
    <3>1. pc'[g] = pc[g] /\ req'[g] = req[g] /\ req[g].id \in Nat /\ lastId \in Nat
      BY <2>2 DEF TypeInv, TypeOK, Requests, Id
    <3> QED BY <1>2, <3>1 DEF TypeInv, FreshInv
  <2> QED BY <2>1, <2>2
<1> QED BY <1>1, <1>2

(* A failed call. *)
LEMMA FailType ==
    ASSUME TypeInv, NEW h \in Handlers, Fail(h), UNCHANGED <<cron, entryIDs, requests, restarts>>
    PROVE  TypeInv'
<1>1. UNCHANGED <<table, cron, entryIDs, requests, restarts>> /\ fails' \in 0..MaxFails
  BY BoundAssumption DEF Fail, TypeInv, TypeOK
<1>2. mixed' \subseteq Id
  BY DEF Fail, TypeInv, TypeOK, Requests
<1>3. /\ pc' \in [Handlers -> PCs] /\ req' \in [Handlers -> Requests]
      /\ \A g \in Handlers : pc'[g] # "idle" => req'[g].id <= lastId'
  <2>1. pc' = [pc EXCEPT ![h] = "idle"] /\ req' = [req EXCEPT ![h] = NoRequest] /\ "idle" \in PCs
    BY DEF Fail, Answer, Goto, PCs
  <2>2. lastId' = lastId /\ lastId \in Nat
    BY <1>1 DEF table, TypeInv, TypeOK
  <2>3. lastId' \in Nat /\ lastId <= lastId'
    BY <2>2
  <2> QED BY <2>1, <2>3, NoRequestType, LocalType
<1> QED BY <1>1, <1>2, <1>3 DEF TypeInv, TypeOK, FreshInv, table, cron

(* A request begins, about an id that was given. *)
LEMMA RequestType ==
    ASSUME TypeInv, NEW h \in Handlers, NEW r \in Requests, NEW l \in PCs,
           Request(h, r, l), r.id <= lastId', lastId' \in Nat, lastId <= lastId'
    PROVE  /\ pc' \in [Handlers -> PCs] /\ req' \in [Handlers -> Requests] /\ mixed' \subseteq Id
           /\ \A g \in Handlers : pc'[g] # "idle" => req'[g].id <= lastId'
<1>1. pc' = [pc EXCEPT ![h] = l] /\ req' = [req EXCEPT ![h] = r]
  BY DEF Request, Goto
<1>2. mixed' \subseteq Id
  BY DEF Request, TypeInv, TypeOK, Requests
<1> QED BY <1>1, <1>2, LocalType

(* A request begins that writes nothing yet. *)
LEMMA BeginType ==
    ASSUME TypeInv, NEW h \in Handlers, NEW r \in Requests, NEW l \in PCs,
           Request(h, r, l), r.id <= lastId, requests' \in 0..MaxRequests,
           UNCHANGED <<table, cron, entryIDs, fails, restarts>>
    PROVE  TypeInv'
<1>1. lastId' = lastId /\ lastId \in Nat
  BY DEF table, TypeInv, TypeOK
<1>2. r.id <= lastId' /\ lastId' \in Nat /\ lastId <= lastId'
  BY <1>1
<1>3. /\ pc' \in [Handlers -> PCs] /\ req' \in [Handlers -> Requests] /\ mixed' \subseteq Id
      /\ \A g \in Handlers : pc'[g] # "idle" => req'[g].id <= lastId'
  BY <1>2, RequestType
<1> QED BY <1>3 DEF TypeInv, TypeOK, FreshInv, table, cron

LEMMA CountType == ASSUME TypeInv, Count PROVE requests' \in 0..MaxRequests
BY BoundAssumption DEF Count, TypeInv, TypeOK

LEMMA GivenType == ASSUME TypeInv, NEW i \in 1..lastId PROVE i \in Id /\ i <= lastId
BY BoundAssumption DEF TypeInv, TypeOK, Id

LEMMA TypeRequests ==
    ASSUME TypeInv, NEW h \in Handlers, Create(h) \/ Change(h) \/ Toggle(h) \/ Delete(h)
    PROVE  TypeInv'
<1>1. ASSUME Create(h) PROVE TypeInv'
  <2> DEFINE i == lastId + 1
  <2>1. PICK s \in Specs : /\ Request(h, [NoRequest EXCEPT !.id = i, !.spec = s, !.enabled = TRUE], "unmap")
                           /\ state' = [state EXCEPT ![i] = "on"]
                           /\ spec' = [spec EXCEPT ![i] = s]
    BY <1>1 DEF Create
  <2>2. /\ lastId \in Nat /\ i \in Id /\ lastId' = i /\ i \in 0..MaxId /\ i \in Nat
        /\ UNCHANGED <<cron, entryIDs, fails, restarts>>
    <3>1. lastId \in 0..MaxId /\ lastId < MaxId /\ lastId' = i
      BY <1>1 DEF Create, TypeInv, TypeOK
    <3>2. UNCHANGED <<cron, entryIDs, fails, restarts>>
      BY <1>1 DEF Create
    <3> QED BY <3>1, <3>2, BoundAssumption DEF Id
  <2>3. [NoRequest EXCEPT !.id = i, !.spec = s, !.enabled = TRUE] \in Requests
    BY <2>2, NoRequestType DEF Requests
  <2>4. /\ pc' \in [Handlers -> PCs] /\ req' \in [Handlers -> Requests] /\ mixed' \subseteq Id
        /\ \A g \in Handlers : pc'[g] # "idle" => req'[g].id <= lastId'
    <3>1. [NoRequest EXCEPT !.id = i, !.spec = s, !.enabled = TRUE].id = i
      BY DEF NoRequest
    <3>2. i <= lastId' /\ lastId <= lastId'
      BY <2>2
    <3> QED BY <2>1, <2>2, <2>3, <3>1, <3>2, RequestType DEF PCs
  <2>5. state' \in [Id -> States] /\ spec' \in [Id -> Specs]
    BY <2>1 DEF TypeInv, TypeOK, States
  <2>6. TypeOK'
    <3>1. requests' \in 0..MaxRequests
      BY <1>1, CountType DEF Create
    <3> QED BY <2>2, <2>4, <2>5, <3>1 DEF TypeInv, TypeOK, cron
  <2>7. \A j \in Id : j > lastId' => state'[j] = "absent"
    BY <2>1, <2>2 DEF TypeInv, TypeOK, FreshInv, Id
  <2>8. \A e \in entries' : e.id <= lastId'
    BY <2>2 DEF TypeInv, TypeOK, FreshInv, cron, Entries, Id
  <2> QED BY <2>4, <2>6, <2>7, <2>8 DEF TypeInv, FreshInv
<1>2. ASSUME Change(h) PROVE TypeInv'
  <2>1. PICK i \in 1..lastId, s \in Specs, b \in BOOLEAN :
            Request(h, [NoRequest EXCEPT !.id = i, !.spec = s, !.enabled = b], "update")
    BY <1>2 DEF Change
  <2> DEFINE r == [NoRequest EXCEPT !.id = i, !.spec = s, !.enabled = b]
  <2>2. r \in Requests /\ r.id <= lastId /\ "update" \in PCs
    BY GivenType, NoRequestType DEF Requests, PCs, NoRequest
  <2>3. requests' \in 0..MaxRequests
    BY <1>2, CountType DEF Change
  <2> HIDE DEF r
  <2> QED BY <1>2, <2>1, <2>2, <2>3, BeginType DEF Change, r
<1>3. ASSUME Toggle(h) PROVE TypeInv'
  <2>1. PICK i \in 1..lastId, b \in BOOLEAN : Request(h, [NoRequest EXCEPT !.id = i, !.enabled = b], "first")
    BY <1>3 DEF Toggle
  <2> DEFINE r == [NoRequest EXCEPT !.id = i, !.enabled = b]
  <2>2. r \in Requests /\ r.id <= lastId /\ "first" \in PCs
    BY GivenType, NoRequestType DEF Requests, PCs, NoRequest
  <2>3. requests' \in 0..MaxRequests
    BY <1>3, CountType DEF Toggle
  <2> HIDE DEF r
  <2> QED BY <1>3, <2>1, <2>2, <2>3, BeginType DEF Toggle, r
<1>4. ASSUME Delete(h) PROVE TypeInv'
  <2>1. PICK i \in 1..lastId : Request(h, [NoRequest EXCEPT !.id = i], "find")
    BY <1>4 DEF Delete
  <2> DEFINE r == [NoRequest EXCEPT !.id = i]
  <2>2. r \in Requests /\ r.id <= lastId /\ "find" \in PCs
    BY GivenType, NoRequestType DEF Requests, PCs, NoRequest
  <2>3. requests' \in 0..MaxRequests
    BY <1>4, CountType DEF Delete
  <2> HIDE DEF r
  <2> QED BY <1>4, <2>1, <2>2, <2>3, BeginType DEF Delete, r
<1> QED BY <1>1, <1>2, <1>3, <1>4

(* A step of a handler that goes on, or answers. *)
LEMMA StepType ==
    ASSUME TypeInv, NEW h \in Handlers, NEW l \in PCs, NEW r \in Requests,
           Goto(h, l), req' = [req EXCEPT ![h] = r], l = "idle" \/ (pc[h] # "idle" /\ r.id = req[h].id),
           UNCHANGED lastId
    PROVE  /\ pc' \in [Handlers -> PCs] /\ req' \in [Handlers -> Requests]
           /\ \A g \in Handlers : pc'[g] # "idle" => req'[g].id <= lastId'
<1>1. lastId' = lastId /\ lastId \in Nat
  BY DEF TypeInv, TypeOK
<1>2. lastId <= lastId'
  BY <1>1
<1>3. l # "idle" => r.id <= lastId'
  BY <1>1 DEF TypeInv, FreshInv
<1> QED BY <1>1, <1>2, <1>3, LocalType DEF Goto

(* A step that changes no more than the state of a row that is there.      *)
LEMMA TableType ==
    ASSUME TypeInv, Ok, UNCHANGED <<lastId, cron, entryIDs, requests, restarts>>,
           state' \in [Id -> States], spec' \in [Id -> Specs],
           \A i \in Id : state[i] = "absent" => state'[i] = "absent",
           pc' \in [Handlers -> PCs], req' \in [Handlers -> Requests],
           \A g \in Handlers : pc'[g] # "idle" => req'[g].id <= lastId'
    PROVE  TypeInv'
<1>1. \A i \in Id : i > lastId' => state'[i] = "absent"
  BY DEF TypeInv, FreshInv
<1> QED BY <1>1 DEF TypeInv, TypeOK, FreshInv, Ok, cron

LEMMA TypeSteps == ASSUME TypeInv, NEW h \in Handlers, Step(h) PROVE TypeInv'
<1> DEFINE i == req[h].id
<1>1. /\ pc[h] \in PCs /\ req[h] \in Requests /\ i \in Id
      /\ req = [req EXCEPT ![h] = req[h]]
      /\ state \in [Id -> States] /\ spec \in [Id -> Specs]
  BY DEF TypeInv, TypeOK, Requests
<1>2. ASSUME UpdateRow(h) PROVE TypeInv'
  <2>1. ASSUME Fail(h) PROVE TypeInv'
    BY <1>2, <2>1, FailType DEF UpdateRow
  <2>2. ASSUME ~Fail(h) PROVE TypeInv'
    <3>1. /\ Ok /\ Goto(h, "first") /\ pc[h] = "update"
          /\ UNCHANGED <<lastId, req, cron, entryIDs, requests, restarts>>
      BY <1>2, <2>2 DEF UpdateRow
    <3>2. /\ state' \in [Id -> States] /\ spec' \in [Id -> Specs]
          /\ \A j \in Id : state[j] = "absent" => state'[j] = "absent"
      BY <1>1, <1>2, <2>2 DEF UpdateRow, Switch, States, Requests
    <3>3. /\ pc' \in [Handlers -> PCs] /\ req' \in [Handlers -> Requests]
          /\ \A g \in Handlers : pc'[g] # "idle" => req'[g].id <= lastId'
      BY <1>1, <3>1, StepType DEF PCs
    <3> QED BY <3>1, <3>2, <3>3, TableType
  <2> QED BY <2>1, <2>2
<1>3. ASSUME First(h) PROVE TypeInv'
  <2>1. ASSUME Fail(h) PROVE TypeInv'
    BY <1>3, <2>1, FailType DEF First
  <2>2. ASSUME ~Fail(h) PROVE TypeInv'
    <3>1. /\ Ok /\ pc[h] = "first"
          /\ UNCHANGED <<state, spec, lastId, cron, entryIDs, requests, restarts>>
      BY <1>3, <2>2 DEF First, table
    <3>2. /\ pc' \in [Handlers -> PCs] /\ req' \in [Handlers -> Requests]
          /\ \A g \in Handlers : pc'[g] # "idle" => req'[g].id <= lastId'
      <4>1. CASE state[i] = "absent"
        <5>1. Goto(h, "idle") /\ req' = [req EXCEPT ![h] = NoRequest] /\ "idle" \in PCs
          BY <1>3, <2>2, <4>1 DEF First, Answer, PCs
        <5> QED BY <3>1, <5>1, NoRequestType, StepType
      <4>2. CASE state[i] # "absent"
        <5> DEFINE r == [req[h] EXCEPT !.spec = spec[i]]
        <5>1. Goto(h, "enable") /\ req' = [req EXCEPT ![h] = r] /\ "enable" \in PCs
          BY <1>1, <1>3, <2>2, <4>2 DEF First, PCs, TypeInv, TypeOK
        <5>2. r \in Requests /\ r.id = i
          BY <1>1 DEF Requests
        <5> HIDE DEF r
        <5> QED BY <3>1, <5>1, <5>2, StepType
      <4> QED BY <4>1, <4>2
    <3> QED BY <1>1, <3>1, <3>2, TableType
  <2> QED BY <2>1, <2>2
<1>4. ASSUME Enable(h) PROVE TypeInv'
  <2>1. ASSUME Fail(h) PROVE TypeInv'
    BY <1>4, <2>1, FailType DEF Enable
  <2>2. ASSUME ~Fail(h) PROVE TypeInv'
    <3>1. /\ Ok /\ Goto(h, "unmap") /\ pc[h] = "enable"
          /\ UNCHANGED <<spec, lastId, req, cron, entryIDs, requests, restarts>>
      BY <1>4, <2>2 DEF Enable
    <3>2. /\ state' \in [Id -> States]
          /\ \A j \in Id : state[j] = "absent" => state'[j] = "absent"
      BY <1>1, <1>4, <2>2 DEF Enable, Switch, States
    <3>3. /\ pc' \in [Handlers -> PCs] /\ req' \in [Handlers -> Requests]
          /\ \A g \in Handlers : pc'[g] # "idle" => req'[g].id <= lastId'
      BY <1>1, <3>1, StepType DEF PCs
    <3> QED BY <1>1, <3>1, <3>2, <3>3, TableType
  <2> QED BY <2>1, <2>2
<1>5. ASSUME Find(h) PROVE TypeInv'
  <2>1. ASSUME Fail(h) PROVE TypeInv'
    BY <1>5, <2>1, FailType DEF Find
  <2>2. ASSUME ~Fail(h) PROVE TypeInv'
    <3>1. /\ Ok /\ pc[h] = "find"
          /\ UNCHANGED <<state, spec, lastId, cron, entryIDs, requests, restarts>>
      BY <1>5, <2>2 DEF Find, table
    <3>2. /\ pc' \in [Handlers -> PCs] /\ req' \in [Handlers -> Requests]
          /\ \A g \in Handlers : pc'[g] # "idle" => req'[g].id <= lastId'
      <4>1. CASE state[i] = "absent"
        <5>1. Goto(h, "idle") /\ req' = [req EXCEPT ![h] = NoRequest] /\ "idle" \in PCs
          BY <1>5, <2>2, <4>1 DEF Find, Answer, PCs
        <5> QED BY <3>1, <5>1, NoRequestType, StepType
      <4>2. CASE state[i] # "absent"
        <5>1. Goto(h, "drop") /\ req' = req /\ "drop" \in PCs
          BY <1>5, <2>2, <4>2 DEF Find, PCs
        <5> QED BY <1>1, <3>1, <5>1, StepType
      <4> QED BY <4>1, <4>2
    <3> QED BY <1>1, <3>1, <3>2, TableType
  <2> QED BY <2>1, <2>2
<1>6. ASSUME Drop(h) PROVE TypeInv'
  <2>1. ASSUME Fail(h) PROVE TypeInv'
    BY <1>6, <2>1, FailType DEF Drop
  <2>2. ASSUME ~Fail(h) PROVE TypeInv'
    <3>1. /\ Ok /\ Goto(h, "unmap") /\ pc[h] = "drop"
          /\ UNCHANGED <<spec, lastId, req, cron, entryIDs, requests, restarts>>
      BY <1>6, <2>2 DEF Drop
    <3>2. /\ state' \in [Id -> States]
          /\ \A j \in Id : state[j] = "absent" => state'[j] = "absent"
      BY <1>1, <1>6, <2>2 DEF Drop, States
    <3>3. /\ pc' \in [Handlers -> PCs] /\ req' \in [Handlers -> Requests]
          /\ \A g \in Handlers : pc'[g] # "idle" => req'[g].id <= lastId'
      BY <1>1, <3>1, StepType DEF PCs
    <3> QED BY <1>1, <3>1, <3>2, <3>3, TableType
  <2> QED BY <2>1, <2>2
<1>7. ASSUME Unmap(h) PROVE TypeInv'
  <2> DEFINE r == [req[h] EXCEPT !.eid = entryIDs[i]]
  <2>1. /\ Goto(h, "remove") /\ req' = [req EXCEPT ![h] = r] /\ pc[h] = "unmap"
        /\ UNCHANGED <<state, spec, lastId, entries, lastEntry, mixed, requests, fails, restarts>>
        /\ entryIDs' = [entryIDs EXCEPT ![i] = 0]
    BY <1>1, <1>7 DEF Unmap, table, cron, TypeInv, TypeOK
  <2>2. r \in Requests /\ r.id = i /\ entryIDs' \in [Id -> Nat]
    BY <1>1, <2>1 DEF TypeInv, TypeOK, Requests
  <2> HIDE DEF r
  <2>3. /\ pc' \in [Handlers -> PCs] /\ req' \in [Handlers -> Requests]
        /\ \A g \in Handlers : pc'[g] # "idle" => req'[g].id <= lastId'
    BY <2>1, <2>2, StepType DEF PCs
  <2> QED BY <2>1, <2>2, <2>3 DEF TypeInv, TypeOK, FreshInv
<1>8. ASSUME Remove(h) PROVE TypeInv'
  <2>1. /\ UNCHANGED <<state, spec, lastId, lastEntry, entryIDs, mixed, requests, fails, restarts>>
        /\ entries' \subseteq entries /\ pc[h] = "remove"
    BY <1>8 DEF Remove, table
  <2>2. /\ pc' \in [Handlers -> PCs] /\ req' \in [Handlers -> Requests]
        /\ \A g \in Handlers : pc'[g] # "idle" => req'[g].id <= lastId'
    <3>1. CASE req[h].enabled
      <4>1. Goto(h, "add") /\ req' = req /\ "add" \in PCs
        BY <1>8, <3>1 DEF Remove, PCs
      <4> QED BY <1>1, <2>1, <4>1, StepType
    <3>2. CASE ~req[h].enabled
      <4>1. Goto(h, "idle") /\ req' = [req EXCEPT ![h] = NoRequest] /\ "idle" \in PCs
        BY <1>8, <3>2 DEF Remove, Answer, PCs
      <4> QED BY <2>1, <4>1, NoRequestType, StepType
    <3> QED BY <3>1, <3>2
  <2> QED BY <2>1, <2>2 DEF TypeInv, TypeOK, FreshInv
<1>9. ASSUME Add(h) PROVE TypeInv'
  <2> DEFINE r == [req[h] EXCEPT !.eid = lastEntry + 1]
             e == [eid |-> lastEntry + 1, id |-> i, spec |-> req[h].spec]
  <2>1. /\ Goto(h, "map") /\ req' = [req EXCEPT ![h] = r] /\ pc[h] = "add"
        /\ UNCHANGED <<state, spec, lastId, entryIDs, mixed, requests, fails, restarts>>
        /\ lastEntry' = lastEntry + 1 /\ entries' = entries \cup {e}
    BY <1>1, <1>9 DEF Add, table, TypeInv, TypeOK
  <2>2. /\ lastEntry \in Nat /\ lastEntry' \in Nat
        /\ e \in Entries /\ e.eid \in 1..lastEntry' /\ e.id = i
    BY <1>1, <2>1 DEF TypeInv, TypeOK, Requests, Entries
  <2>3. r \in Requests /\ r.id = i
    BY <1>1, <2>2 DEF Requests
  <2>4. i <= lastId
    BY <2>1 DEF TypeInv, FreshInv
  <2> HIDE DEF r, e
  <2>5. /\ pc' \in [Handlers -> PCs] /\ req' \in [Handlers -> Requests]
        /\ \A g \in Handlers : pc'[g] # "idle" => req'[g].id <= lastId'
    BY <2>1, <2>3, StepType DEF PCs
  <2>6. \A f \in entries' : f.eid \in 1..lastEntry' /\ f.id <= lastId'
    BY <2>1, <2>2, <2>4 DEF TypeInv, TypeOK, FreshInv
  <2> QED BY <2>1, <2>2, <2>5, <2>6 DEF TypeInv, TypeOK, FreshInv
<1>10. ASSUME Map(h) PROVE TypeInv'
  <2>1. /\ Goto(h, "idle") /\ req' = [req EXCEPT ![h] = NoRequest] /\ "idle" \in PCs
        /\ UNCHANGED <<state, spec, lastId, entries, lastEntry, mixed, requests, fails, restarts>>
        /\ entryIDs' = [entryIDs EXCEPT ![i] = req[h].eid]
    BY <1>10 DEF Map, Answer, PCs, table, cron
  <2>2. entryIDs' \in [Id -> Nat]
    BY <1>1, <2>1 DEF TypeInv, TypeOK, Requests
  <2>3. /\ pc' \in [Handlers -> PCs] /\ req' \in [Handlers -> Requests]
        /\ \A g \in Handlers : pc'[g] # "idle" => req'[g].id <= lastId'
    BY <2>1, NoRequestType, StepType
  <2> QED BY <2>1, <2>2, <2>3 DEF TypeInv, TypeOK, FreshInv
<1> QED BY <1>2, <1>3, <1>4, <1>5, <1>6, <1>7, <1>8, <1>9, <1>10 DEF Step

(* What a restart leaves: entries for the enabled rows of the table, and   *)
(* no handler under way.                                                   *)
LEMMA RestartTable ==
    ASSUME TypeInv, Restart
    PROVE  /\ state' \in [Id -> States] /\ spec' \in [Id -> Specs] /\ lastId' \in 0..MaxId
           /\ \A i \in Id : i > lastId' => state'[i] = "absent"
<1>1. PICK failed \in SUBSET StartCalls : DefaultsTable(Defaults(failed))
  BY DEF Restart
<1> DEFINE new == Defaults(failed)
<1>2. new \in Seq(Specs)
  BY SpecsAssumption DEF Defaults
<1> HIDE DEF new
<1>3. DefaultsTable(new)
  BY <1>1 DEF new
<1>4. Len(new) \in Nat /\ DOMAIN new = 1..Len(new) /\ \A k \in DOMAIN new : new[k] \in Specs
  BY <1>2
<1>5. lastId \in Nat /\ lastId' = lastId + Len(new) /\ lastId' \in 0..MaxId
  BY <1>3, <1>4, BoundAssumption DEF DefaultsTable, TypeInv, TypeOK
<1>6. state' \in [Id -> States] /\ spec' \in [Id -> Specs]
  BY <1>3, <1>4 DEF DefaultsTable, TypeInv, TypeOK, States
<1>7. ASSUME NEW i \in Id, i > lastId' PROVE state'[i] = "absent"
  <2>1. i > lastId /\ i - lastId \notin DOMAIN new
    BY <1>4, <1>5, <1>7 DEF Id
  <2> QED BY <1>3, <2>1 DEF DefaultsTable, TypeInv, TypeOK, FreshInv
<1> QED BY <1>5, <1>6, <1>7

(* After a start the entries are those of some enabled rows, all mapped,   *)
(* nobody is under way, and enabled rows without one are known as such.    *)
Started ==
    /\ state \in [Id -> States] /\ spec \in [Id -> Specs]
    /\ \E On \in SUBSET EnabledRows :
          /\ entries = Loaded(On, spec).entries /\ lastEntry = Loaded(On, spec).lastEntry
          /\ entryIDs = Loaded(On, spec).entryIDs
          /\ mixed = EnabledRows \ On
    /\ \A h \in Handlers : pc[h] = "idle"

LEMMA StartedFits ==
    ASSUME Started
    PROVE /\ entries \subseteq Entries /\ lastEntry \in Nat /\ entryIDs \in [Id -> Nat]
          /\ \A i \in Id : entryIDs[i] \in 0..lastEntry
          /\ \A i \in Id : entryIDs[i] # 0 =>
                [eid |-> entryIDs[i], id |-> i, spec |-> spec[i]] \in entries
          /\ \A e \in entries : /\ e.id \in Id /\ state[e.id] = "on" /\ e.spec = spec[e.id]
                                /\ e.eid = entryIDs[e.id] /\ e.eid \in 1..lastEntry
          /\ \A i, j \in Id : entryIDs[i] = entryIDs[j] /\ entryIDs[i] # 0 => i = j
          /\ \A i \in Id : state[i] = "on" /\ i \notin mixed =>
                [eid |-> entryIDs[i], id |-> i, spec |-> spec[i]] \in entries
          /\ mixed \subseteq Id
<1>1. PICK On \in SUBSET EnabledRows :
          /\ entries = Loaded(On, spec).entries /\ lastEntry = Loaded(On, spec).lastEntry
          /\ entryIDs = Loaded(On, spec).entryIDs
          /\ mixed = EnabledRows \ On
  BY DEF Started
<1>2. On \subseteq Id /\ spec \in [Id -> Specs] /\ \A i \in On : state[i] = "on"
  BY DEF Started, EnabledRows
<1>3. /\ entries \subseteq Entries /\ lastEntry \in Nat /\ entryIDs \in [Id -> Nat]
      /\ \A i \in Id : IF i \in On THEN entryIDs[i] \in 1..lastEntry ELSE entryIDs[i] = 0
      /\ \A i \in On : [eid |-> entryIDs[i], id |-> i, spec |-> spec[i]] \in entries
      /\ \A e \in entries : e.id \in On /\ e.eid = entryIDs[e.id] /\ e.spec = spec[e.id]
      /\ \A i, j \in Id : entryIDs[i] = entryIDs[j] /\ entryIDs[i] # 0 => i = j
  <2> DEFINE L == Loaded(On, spec)
  <2>1. Fits(L, On, spec)
    <3>1. L = Loaded(On, spec)
      OBVIOUS
    <3> HIDE DEF L
    <3> QED BY <1>2, <3>1, LoadedFits
  <2>2. entries = L.entries /\ lastEntry = L.lastEntry /\ entryIDs = L.entryIDs
    BY <1>1
  <2> HIDE DEF L
  <2> QED BY <2>1, <2>2 DEF Fits
<1>4. \A i \in Id : state[i] = "on" /\ i \notin mixed => i \in On
  BY <1>1 DEF EnabledRows
<1>5. mixed \subseteq Id
  BY <1>1 DEF EnabledRows
<1>6. \A i \in Id : entryIDs[i] \in 0..lastEntry /\ (entryIDs[i] # 0 => i \in On)
  BY <1>3
<1>7. \A e \in entries : e.id \in Id /\ state[e.id] = "on" /\ e.eid \in 1..lastEntry
  BY <1>2, <1>3
<1> QED BY <1>3, <1>4, <1>5, <1>6, <1>7

LEMMA RestartStarted == TypeInv /\ Restart => Started'
<1> SUFFICES ASSUME TypeInv, Restart PROVE Started'
  OBVIOUS
<1>1. state' \in [Id -> States] /\ spec' \in [Id -> Specs]
  BY RestartTable
<1>2. PICK On \in SUBSET EnabledRows' :
          /\ entries' = Loaded(On, spec').entries /\ lastEntry' = Loaded(On, spec').lastEntry
          /\ entryIDs' = Loaded(On, spec').entryIDs
          /\ mixed' = EnabledRows' \ On
  BY DEF Restart
<1>3. \A h \in Handlers : pc'[h] = "idle"
  BY DEF Restart
<1> QED BY <1>1, <1>2, <1>3 DEF Started, Loaded

LEMMA RestartFails == ASSUME TypeInv, Restart PROVE fails' \in 0..MaxFails
<1>1. PICK failed \in SUBSET StartCalls :
          fails + Cardinality(failed) <= MaxFails /\ fails' = fails + Cardinality(failed)
  BY DEF Restart
<1>2. IsFiniteSet({"Count"} \cup {"CreateIncremental"} \cup {"CreateFull"} \cup {"Find"})
  BY FS_Singleton, FS_Union
<1>3. StartCalls = {"Count"} \cup {"CreateIncremental"} \cup {"CreateFull"} \cup {"Find"}
  BY DEF StartCalls
<1>4. Cardinality(failed) \in Nat
  BY <1>2, <1>3, FS_Subset, FS_CardinalityType
<1> QED BY <1>1, <1>4, BoundAssumption DEF TypeInv, TypeOK

StartTypes ==
    /\ entries \subseteq Entries /\ lastEntry \in Nat /\ entryIDs \in [Id -> Nat]
    /\ \A e \in entries : e.eid \in 1..lastEntry /\ e.id \in Id /\ state[e.id] = "on"
    /\ mixed \subseteq Id

LEMMA TypeStarted == Started => StartTypes
<1> SUFFICES ASSUME Started PROVE StartTypes
  OBVIOUS
<1>1. \A e \in entries : e.eid \in 1..lastEntry /\ e.id \in Id /\ state[e.id] = "on"
  BY StartedFits
<1>2. /\ entries \subseteq Entries /\ lastEntry \in Nat /\ entryIDs \in [Id -> Nat]
      /\ mixed \subseteq Id
  BY StartedFits
<1> QED BY <1>1, <1>2 DEF StartTypes

LEMMA TypeRestart == ASSUME TypeInv, Restart PROVE TypeInv'
<1>0. /\ entries' \subseteq Entries /\ lastEntry' \in Nat /\ entryIDs' \in [Id -> Nat]
      /\ \A e \in entries' : e.eid \in 1..lastEntry' /\ e.id \in Id /\ state'[e.id] = "on"
      /\ mixed' \subseteq Id
  <2>1. Started'
    BY RestartStarted
  <2>2. StartTypes'
    BY <2>1, TypeStarted, PTL
  <2> QED BY <2>2 DEF StartTypes
<1>1. /\ pc' = [h \in Handlers |-> "idle"] /\ req' = [h \in Handlers |-> NoRequest]
      /\ UNCHANGED requests /\ restarts' \in 0..MaxRestarts
  BY BoundAssumption DEF Restart, TypeInv, TypeOK
<1>2. \A e \in entries' : ~(e.id > lastId') /\ e.id \in Nat /\ lastId' \in Nat
  BY <1>0, RestartTable, BoundAssumption DEF Id
<1>3. \A e \in entries' : e.id <= lastId'
  BY <1>2
<1>4. pc' \in [Handlers -> PCs] /\ req' \in [Handlers -> Requests]
  BY <1>1, NoRequestType DEF PCs
<1> QED BY <1>0, <1>1, <1>3, <1>4, RestartTable, RestartFails DEF TypeInv, TypeOK, FreshInv

LEMMA TypeNext == ASSUME TypeInv, [Next]_vars PROVE TypeInv'
<1>1. CASE UNCHANGED vars
  BY <1>1 DEF vars, table, cron, TypeInv, TypeOK, FreshInv
<1> QED BY <1>1, TypeRequests, TypeSteps, TypeRestart DEF Next

-----------------------------------------------------------------------------
(* Who holds which EntryID: MapInv. *)

LEMMA MapStarts == Started => MapInv
<1> SUFFICES ASSUME Started PROVE MapInv
  OBVIOUS
<1>1. /\ entries \subseteq Entries /\ lastEntry \in Nat
      /\ \A i \in Id : entryIDs[i] \in 0..lastEntry
      /\ \A i \in Id : entryIDs[i] # 0 => [eid |-> entryIDs[i], id |-> i, spec |-> spec[i]] \in entries
      /\ \A e \in entries : e.eid = entryIDs[e.id] /\ e.eid \in 1..lastEntry /\ e.spec = spec[e.id]
      /\ \A i, j \in Id : entryIDs[i] = entryIDs[j] /\ entryIDs[i] # 0 => i = j
  BY StartedFits
<1>2. MapIsSound
  BY <1>1 DEF MapIsSound, EntriesOf
<1>3. ASSUME NEW e \in entries, NEW f \in entries, e.eid = f.eid PROVE e = f
  <2>1. e.id \in Id /\ f.id \in Id
    BY <1>1 DEF Entries
  <2>2. entryIDs[e.id] = entryIDs[f.id] /\ entryIDs[e.id] # 0
    BY <1>1, <1>3, <2>1
  <2>3. e.id = f.id
    BY <1>1, <2>1, <2>2
  <2>4. e.spec = f.spec
    BY <1>1, <2>3
  <2> QED BY <1>1, <1>3, <2>3, <2>4 DEF Entries
<1>4. \A i \in Id : entryIDs[i] <= lastEntry
  BY <1>1
<1>5. \A h \in Handlers : pc[h] = "idle"
  BY DEF Started
<1> QED BY <1>2, <1>3, <1>4, <1>5 DEF MapInv

LEMMA InitStarted == Init => Started
<1> SUFFICES ASSUME Init PROVE Started
  OBVIOUS
<1>1. /\ entries = Loaded(EnabledRows, spec).entries /\ lastEntry = Loaded(EnabledRows, spec).lastEntry
      /\ entryIDs = Loaded(EnabledRows, spec).entryIDs /\ mixed = EnabledRows \ EnabledRows
  BY InitialRows DEF Init
<1> QED BY <1>1, InitialRows DEF Init, Started

LEMMA MapInit == Init => MapInv
BY InitStarted, MapStarts

(* A step that leaves the map, the runner and whoever holds an EntryID.    *)
LEMMA MapFrame ==
    ASSUME MapInv, UNCHANGED <<entries, lastEntry, entryIDs>>,
           \A h \in Handlers : pc'[h] \in {"remove", "map"} => pc'[h] = pc[h] /\ req'[h] = req[h]
    PROVE  MapInv'
<1>1. MapIsSound'
  BY DEF MapInv, MapIsSound, EntriesOf
<1> QED BY <1>1 DEF MapInv

(* Of all handlers, h alone goes on, to l with locals r. *)
LEMMA OthersStay ==
    ASSUME TypeInv, NEW h \in Handlers, NEW l, NEW r, Goto(h, l), req' = [req EXCEPT ![h] = r]
    PROVE  /\ pc'[h] = l /\ req'[h] = r
           /\ \A g \in Handlers \ {h} : pc'[g] = pc[g] /\ req'[g] = req[g]
BY DEF Goto, TypeInv, TypeOK

LEMMA MapQuiet ==
    ASSUME TypeInv, MapInv, NEW h \in Handlers, NEW l, NEW r, Goto(h, l), req' = [req EXCEPT ![h] = r],
           l \notin {"remove", "map"}, UNCHANGED <<cron, entryIDs>>
    PROVE  MapInv'
BY OthersStay, MapFrame DEF cron

LEMMA MapFail ==
    ASSUME TypeInv, MapInv, NEW h \in Handlers, Fail(h), UNCHANGED <<cron, entryIDs>>
    PROVE  MapInv'
BY MapQuiet DEF Fail, Answer

LEMMA MapRequests ==
    ASSUME TypeInv, MapInv, NEW h \in Handlers, Create(h) \/ Change(h) \/ Toggle(h) \/ Delete(h)
    PROVE  MapInv'
<1>1. \E r, l : Request(h, r, l) /\ l \notin {"remove", "map"}
  <2>1. ASSUME Create(h) PROVE \E r : Request(h, r, "unmap")
    BY <2>1 DEF Create
  <2>2. ASSUME Change(h) PROVE \E r : Request(h, r, "update")
    BY <2>2 DEF Change
  <2>3. ASSUME Toggle(h) PROVE \E r : Request(h, r, "first")
    BY <2>3 DEF Toggle
  <2>4. ASSUME Delete(h) PROVE \E r : Request(h, r, "find")
    BY <2>4 DEF Delete
  <2> QED BY <2>1, <2>2, <2>3, <2>4
<1>2. UNCHANGED <<cron, entryIDs>>
  BY DEF Create, Change, Toggle, Delete
<1> QED BY <1>1, <1>2, MapQuiet DEF Request

(* The steps on the table. *)
LEMMA MapTable ==
    ASSUME TypeInv, MapInv, NEW h \in Handlers,
           UpdateRow(h) \/ First(h) \/ Enable(h) \/ Find(h) \/ Drop(h)
    PROVE  MapInv'
<1>1. UNCHANGED <<cron, entryIDs>>
  BY DEF UpdateRow, First, Enable, Find, Drop
<1>2. req = [req EXCEPT ![h] = req[h]]
  BY DEF TypeInv, TypeOK
<1>3. \/ Fail(h)
      \/ \E l, r : /\ Goto(h, l) /\ req' = [req EXCEPT ![h] = r]
                   /\ l \notin {"remove", "map"}
  <2>1. CASE UpdateRow(h)
    BY <1>2, <2>1 DEF UpdateRow
  <2>2. CASE First(h)
    <3>1. CASE state[req[h].id] = "absent"
      BY <2>2, <3>1 DEF First, Answer
    <3>2. CASE state[req[h].id] # "absent"
      <4>1. \/ Fail(h)
            \/ Goto(h, "enable") /\ req' = [req EXCEPT ![h].spec = spec[req[h].id]]
        BY <2>2, <3>2 DEF First
      <4>2. "enable" \notin {"remove", "map"}
        OBVIOUS
      <4>3. ASSUME Goto(h, "enable"), req' = [req EXCEPT ![h].spec = spec[req[h].id]]
            PROVE  \E l, r : Goto(h, l) /\ req' = [req EXCEPT ![h] = r] /\ l \notin {"remove", "map"}
        <5> DEFINE s == [req[h] EXCEPT !.spec = spec[req[h].id]]
        <5>1. req' = [req EXCEPT ![h] = s]
          BY <4>3 DEF TypeInv, TypeOK
        <5> HIDE DEF s
        <5> QED BY <4>2, <4>3, <5>1
      <4> QED BY <4>1, <4>3
    <3> QED BY <3>1, <3>2
  <2>3. CASE Enable(h)
    <3>1. Fail(h) \/ (Goto(h, "unmap") /\ req' = req)
      BY <2>3 DEF Enable
    <3> QED BY <1>2, <3>1
  <2>4. CASE Find(h)
    BY <1>2, <2>4 DEF Find, Answer
  <2>5. CASE Drop(h)
    BY <1>2, <2>5 DEF Drop
  <2> QED BY <2>1, <2>2, <2>3, <2>4, <2>5
<1>4. CASE Fail(h)
  BY <1>1, <1>4, MapFail
<1>5. CASE ~Fail(h)
  BY <1>1, <1>3, <1>5, MapQuiet
<1> QED BY <1>4, <1>5

(* What h takes from the map is in it no more, nor with another handler. *)
LEMMA MapUnmap == ASSUME TypeInv, MapInv, NEW h \in Handlers, Unmap(h) PROVE MapInv'
<1> DEFINE i == req[h].id
           x == entryIDs[i]
<1>1. /\ UNCHANGED <<entries, lastEntry>> /\ entryIDs' = [entryIDs EXCEPT ![i] = 0]
      /\ i \in Id /\ lastEntry \in Nat /\ x \in Nat /\ x <= lastEntry
      /\ \A e \in entries : e.eid # 0
  BY DEF Unmap, cron, TypeInv, TypeOK, Requests, MapInv
<1>2. /\ pc'[h] = "remove" /\ req'[h].eid = x /\ req'[h].id = i
      /\ \A g \in Handlers \ {h} : pc'[g] = pc[g] /\ req'[g] = req[g]
  BY DEF Unmap, Goto, TypeInv, TypeOK, Requests
<1>3. entryIDs'[i] = 0 /\ \A j \in Id \ {i} : entryIDs'[j] = entryIDs[j]
  BY <1>1 DEF TypeInv, TypeOK
<1>4. MapIsSound'
  BY <1>1, <1>3 DEF MapInv, MapIsSound, EntriesOf
<1>5. \A j \in Id : entryIDs'[j] <= lastEntry'
  BY <1>1, <1>3 DEF MapInv
<1>6. x # 0 => \E e \in entries : e.id = i /\ e.eid = x
  BY <1>1 DEF MapInv, MapIsSound, EntriesOf
<1>7. \A e \in entries : e.eid = x => e.id = i
  BY <1>1, <1>6 DEF MapInv
<1>8. \A j \in Id : entryIDs'[j] # 0 => entryIDs'[j] # x
  <2> TAKE j \in Id
  <2> HAVE entryIDs'[j] # 0
  <2>1. j # i /\ entryIDs[j] # 0 /\ entryIDs'[j] = entryIDs[j]
    BY <1>3
  <2>2. PICK e \in entries : e.id = j /\ e.eid = entryIDs[j]
    BY <2>1 DEF MapInv, MapIsSound, EntriesOf
  <2> QED BY <1>7, <2>1, <2>2
<1>9. ASSUME NEW g \in Handlers, pc'[g] = "remove"
      PROVE  /\ req'[g].eid <= lastEntry'
             /\ \A j \in Id : entryIDs'[j] # 0 => entryIDs'[j] # req'[g].eid
             /\ \A e \in entries' : e.eid = req'[g].eid => e.id = req'[g].id
  <2>1. CASE g = h
    BY <1>1, <1>2, <1>7, <1>8, <2>1
  <2>2. CASE g # h
    <3>1. pc[g] = "remove" /\ req'[g] = req[g]
      BY <1>2, <1>9, <2>2
    <3>2. /\ req[g].eid <= lastEntry
          /\ \A j \in Id : entryIDs[j] # 0 => entryIDs[j] # req[g].eid
          /\ \A e \in entries : e.eid = req[g].eid => e.id = req[g].id
      BY <3>1 DEF MapInv
    <3> QED BY <1>1, <1>3, <3>1, <3>2
  <2> QED BY <2>1, <2>2
<1>10. ASSUME NEW g \in Handlers, pc'[g] = "map"
       PROVE  /\ req'[g].eid \in 1..lastEntry'
              /\ [eid |-> req'[g].eid, id |-> req'[g].id, spec |-> req'[g].spec] \in entries'
              /\ \A j \in Id : entryIDs'[j] # req'[g].eid
              /\ \A f \in Handlers : pc'[f] = "remove" => req'[f].eid # req'[g].eid
              /\ \A f \in Handlers : pc'[f] = "map" /\ f # g => req'[f].eid # req'[g].eid
  <2>1. g # h /\ pc[g] = "map" /\ req'[g] = req[g]
    BY <1>2, <1>10
  <2>2. /\ req[g].eid \in 1..lastEntry
        /\ [eid |-> req[g].eid, id |-> req[g].id, spec |-> req[g].spec] \in entries
        /\ \A j \in Id : entryIDs[j] # req[g].eid
        /\ \A f \in Handlers : pc[f] = "remove" => req[f].eid # req[g].eid
        /\ \A f \in Handlers : pc[f] = "map" /\ f # g => req[f].eid # req[g].eid
    BY <2>1 DEF MapInv
  <2>3. \A j \in Id : entryIDs'[j] # req[g].eid
    BY <1>1, <1>3, <2>2
  <2> QED BY <1>1, <1>2, <2>1, <2>2, <2>3
<1>11. \A e, f \in entries' : e.eid = f.eid => e = f
  BY <1>1 DEF MapInv
<1> QED BY <1>4, <1>5, <1>9, <1>10, <1>11 DEF MapInv

(* What h removes is nobody else's. *)
LEMMA MapRemove == ASSUME TypeInv, MapInv, NEW h \in Handlers, Remove(h) PROVE MapInv'
<1> DEFINE x == req[h].eid
<1>1. /\ UNCHANGED <<lastEntry, entryIDs>> /\ entries' = {e \in entries : e.eid # x}
      /\ pc[h] = "remove"
  BY DEF Remove
<1>2. /\ pc'[h] \in {"add", "idle"}
      /\ \A g \in Handlers \ {h} : pc'[g] = pc[g] /\ req'[g] = req[g]
  BY DEF Remove, Answer, Goto, TypeInv, TypeOK
<1>3. MapIsSound'
  <2> SUFFICES ASSUME NEW j \in Id, entryIDs[j] # 0
               PROVE  \E e \in entries' : e.id = j /\ e.eid = entryIDs[j]
    BY <1>1 DEF MapIsSound, EntriesOf
  <2>1. PICK e \in entries : e.id = j /\ e.eid = entryIDs[j]
    BY DEF MapInv, MapIsSound, EntriesOf
  <2>2. entryIDs[j] # x
    BY <1>1 DEF MapInv
  <2> QED BY <1>1, <2>1, <2>2
<1>4. \A e, f \in entries' : e.eid = f.eid => e = f
  BY <1>1 DEF MapInv
<1>5. ASSUME NEW g \in Handlers, pc'[g] = "remove"
      PROVE  /\ req'[g].eid <= lastEntry'
             /\ \A j \in Id : entryIDs'[j] # 0 => entryIDs'[j] # req'[g].eid
             /\ \A e \in entries' : e.eid = req'[g].eid => e.id = req'[g].id
  <2>1. pc[g] = "remove" /\ req'[g] = req[g]
    BY <1>2, <1>5
  <2>2. /\ req[g].eid <= lastEntry
        /\ \A j \in Id : entryIDs[j] # 0 => entryIDs[j] # req[g].eid
        /\ \A e \in entries : e.eid = req[g].eid => e.id = req[g].id
    BY <2>1 DEF MapInv
  <2> QED BY <1>1, <2>1, <2>2
<1>6. ASSUME NEW g \in Handlers, pc'[g] = "map"
      PROVE  /\ req'[g].eid \in 1..lastEntry'
             /\ [eid |-> req'[g].eid, id |-> req'[g].id, spec |-> req'[g].spec] \in entries'
             /\ \A j \in Id : entryIDs'[j] # req'[g].eid
             /\ \A f \in Handlers : pc'[f] = "remove" => req'[f].eid # req'[g].eid
             /\ \A f \in Handlers : pc'[f] = "map" /\ f # g => req'[f].eid # req'[g].eid
  <2>1. g # h /\ pc[g] = "map" /\ req'[g] = req[g]
    BY <1>2, <1>6
  <2>2. /\ req[g].eid \in 1..lastEntry
        /\ [eid |-> req[g].eid, id |-> req[g].id, spec |-> req[g].spec] \in entries
        /\ \A j \in Id : entryIDs[j] # req[g].eid
        /\ \A f \in Handlers : pc[f] = "remove" => req[f].eid # req[g].eid
        /\ \A f \in Handlers : pc[f] = "map" /\ f # g => req[f].eid # req[g].eid
    BY <2>1 DEF MapInv
  <2>3. [eid |-> req[g].eid, id |-> req[g].id, spec |-> req[g].spec] \in entries'
    BY <1>1, <2>2
  <2>4. \A f \in Handlers : pc'[f] \in {"remove", "map"} => pc'[f] = pc[f] /\ req'[f] = req[f]
    BY <1>2
  <2> QED BY <1>1, <2>1, <2>2, <2>3, <2>4
<1> QED BY <1>1, <1>3, <1>4, <1>5, <1>6 DEF MapInv

(* What h adds is new to everybody. *)
LEMMA MapAdd == ASSUME TypeInv, MapInv, NEW h \in Handlers, Add(h) PROVE MapInv'
<1> DEFINE new == [eid |-> lastEntry + 1, id |-> req[h].id, spec |-> req[h].spec]
<1>1. /\ UNCHANGED entryIDs /\ entries' = entries \cup {new}
      /\ lastEntry \in Nat /\ lastEntry' = lastEntry + 1
      /\ \A e \in entries : e.eid \in 1..lastEntry
  BY DEF Add, TypeInv, TypeOK
<1>2. /\ pc'[h] = "map" /\ [eid |-> req'[h].eid, id |-> req'[h].id, spec |-> req'[h].spec] = new
      /\ req'[h].eid = lastEntry + 1
      /\ \A g \in Handlers \ {h} : pc'[g] = pc[g] /\ req'[g] = req[g]
  BY DEF Add, Goto, TypeInv, TypeOK, Requests
<1>3. MapIsSound'
  BY <1>1 DEF MapInv, MapIsSound, EntriesOf
<1>4. \A e, f \in entries' : e.eid = f.eid => e = f
  <2>1. \A e \in entries : e.eid # new.eid
    BY <1>1
  <2> QED BY <1>1, <2>1 DEF MapInv
<1>5. \A j \in Id : entryIDs[j] \in Nat /\ entryIDs[j] <= lastEntry
  BY DEF MapInv, TypeInv, TypeOK
<1>6. \A j \in Id : entryIDs'[j] <= lastEntry'
  BY <1>1, <1>5
<1>7. ASSUME NEW g \in Handlers, pc'[g] = "remove"
      PROVE  /\ req'[g].eid <= lastEntry'
             /\ \A j \in Id : entryIDs'[j] # 0 => entryIDs'[j] # req'[g].eid
             /\ \A e \in entries' : e.eid = req'[g].eid => e.id = req'[g].id
  <2>1. pc[g] = "remove" /\ req'[g] = req[g] /\ req[g].eid \in Nat
    BY <1>2, <1>7 DEF TypeInv, TypeOK, Requests
  <2>2. /\ req[g].eid <= lastEntry
        /\ \A j \in Id : entryIDs[j] # 0 => entryIDs[j] # req[g].eid
        /\ \A e \in entries : e.eid = req[g].eid => e.id = req[g].id
    BY <2>1 DEF MapInv
  <2>3. req[g].eid <= lastEntry' /\ new.eid # req[g].eid
    BY <1>1, <2>1, <2>2
  <2> QED BY <1>1, <2>1, <2>2, <2>3
<1>8. ASSUME NEW g \in Handlers, pc'[g] = "map"
      PROVE  /\ req'[g].eid \in 1..lastEntry'
             /\ [eid |-> req'[g].eid, id |-> req'[g].id, spec |-> req'[g].spec] \in entries'
             /\ \A j \in Id : entryIDs'[j] # req'[g].eid
             /\ \A f \in Handlers : pc'[f] = "remove" => req'[f].eid # req'[g].eid
             /\ \A f \in Handlers : pc'[f] = "map" /\ f # g => req'[f].eid # req'[g].eid
  <2>1. CASE g = h
    <3>1. \A f \in Handlers : pc[f] = "remove" => req[f].eid \in Nat /\ req[f].eid <= lastEntry
      BY DEF MapInv, TypeInv, TypeOK, Requests
    <3>2. \A f \in Handlers : pc[f] = "map" => req[f].eid \in 1..lastEntry
      BY DEF MapInv
    <3>3. \A f \in Handlers \ {h} : pc'[f] \in {"remove", "map"} => req'[f].eid # lastEntry + 1
      BY <1>1, <1>2, <3>1, <3>2
    <3>4. \A j \in Id : entryIDs'[j] # lastEntry + 1
      BY <1>1, <1>5
    <3>5. req'[g].eid \in 1..lastEntry'
      BY <1>1, <1>2, <2>1
    <3>6. [eid |-> req'[g].eid, id |-> req'[g].id, spec |-> req'[g].spec] \in entries'
      BY <1>1, <1>2, <2>1
    <3>7. \A f \in Handlers : pc'[f] = "remove" => f # h
      BY <1>2
    <3> HIDE DEF new
    <3> QED BY <1>2, <2>1, <3>3, <3>4, <3>5, <3>6, <3>7
  <2>2. CASE g # h
    <3>1. pc[g] = "map" /\ req'[g] = req[g]
      BY <1>2, <1>8, <2>2
    <3>2. /\ req[g].eid \in 1..lastEntry
          /\ [eid |-> req[g].eid, id |-> req[g].id, spec |-> req[g].spec] \in entries
          /\ \A j \in Id : entryIDs[j] # req[g].eid
          /\ \A f \in Handlers : pc[f] = "remove" => req[f].eid # req[g].eid
          /\ \A f \in Handlers : pc[f] = "map" /\ f # g => req[f].eid # req[g].eid
      BY <3>1 DEF MapInv
    <3>3. req[g].eid \in 1..lastEntry' /\ req[g].eid # lastEntry + 1
      BY <1>1, <3>2
    <3>4. [eid |-> req'[g].eid, id |-> req'[g].id, spec |-> req'[g].spec] \in entries'
      BY <1>1, <3>1, <3>2
    <3>5. \A f \in Handlers : pc'[f] = "remove" => req'[f].eid # req'[g].eid
      BY <1>2, <3>1, <3>2
    <3>6. \A f \in Handlers : pc'[f] = "map" /\ f # g => req'[f].eid # req'[g].eid
      BY <1>2, <3>1, <3>2, <3>3
    <3> QED BY <1>1, <3>1, <3>2, <3>3, <3>4, <3>5, <3>6
  <2> QED BY <2>1, <2>2
<1> QED BY <1>3, <1>4, <1>6, <1>7, <1>8 DEF MapInv

(* What h maps is its own, and held by nobody else. *)
LEMMA MapMap == ASSUME TypeInv, MapInv, NEW h \in Handlers, Map(h) PROVE MapInv'
<1> DEFINE i == req[h].id
           x == req[h].eid
<1>1. /\ UNCHANGED <<entries, lastEntry>> /\ entryIDs' = [entryIDs EXCEPT ![i] = x]
      /\ i \in Id /\ lastEntry \in Nat /\ pc[h] = "map"
  BY DEF Map, cron, TypeInv, TypeOK, Requests
<1>2. /\ pc'[h] = "idle"
      /\ \A g \in Handlers \ {h} : pc'[g] = pc[g] /\ req'[g] = req[g]
  BY DEF Map, Answer, Goto, TypeInv, TypeOK
<1>3. entryIDs'[i] = x /\ \A j \in Id \ {i} : entryIDs'[j] = entryIDs[j]
  BY <1>1 DEF TypeInv, TypeOK
<1>4. /\ x \in 1..lastEntry /\ [eid |-> x, id |-> i, spec |-> req[h].spec] \in entries
      /\ \A g \in Handlers : pc[g] = "remove" => req[g].eid # x
      /\ \A g \in Handlers : pc[g] = "map" /\ g # h => req[g].eid # x
  BY <1>1 DEF MapInv
<1>5. MapIsSound'
  <2> SUFFICES ASSUME NEW j \in Id, entryIDs'[j] # 0
               PROVE  \E e \in entries : e.id = j /\ e.eid = entryIDs'[j]
    BY <1>1 DEF MapIsSound, EntriesOf
  <2>1. CASE j = i
    BY <1>3, <1>4, <2>1
  <2>2. CASE j # i
    BY <1>3, <2>2 DEF MapInv, MapIsSound, EntriesOf
  <2> QED BY <2>1, <2>2
<1>6. \A e, f \in entries' : e.eid = f.eid => e = f
  BY <1>1 DEF MapInv
<1>7. \A j \in Id : entryIDs'[j] <= lastEntry'
  BY <1>1, <1>3, <1>4 DEF MapInv
<1>8. ASSUME NEW g \in Handlers, pc'[g] = "remove"
      PROVE  /\ req'[g].eid <= lastEntry'
             /\ \A j \in Id : entryIDs'[j] # 0 => entryIDs'[j] # req'[g].eid
             /\ \A e \in entries' : e.eid = req'[g].eid => e.id = req'[g].id
  <2>1. pc[g] = "remove" /\ req'[g] = req[g]
    BY <1>2, <1>8
  <2>2. /\ req[g].eid <= lastEntry
        /\ \A j \in Id : entryIDs[j] # 0 => entryIDs[j] # req[g].eid
        /\ \A e \in entries : e.eid = req[g].eid => e.id = req[g].id
    BY <2>1 DEF MapInv
  <2> QED BY <1>1, <1>3, <1>4, <2>1, <2>2
<1>9. ASSUME NEW g \in Handlers, pc'[g] = "map"
      PROVE  /\ req'[g].eid \in 1..lastEntry'
             /\ [eid |-> req'[g].eid, id |-> req'[g].id, spec |-> req'[g].spec] \in entries'
             /\ \A j \in Id : entryIDs'[j] # req'[g].eid
             /\ \A f \in Handlers : pc'[f] = "remove" => req'[f].eid # req'[g].eid
             /\ \A f \in Handlers : pc'[f] = "map" /\ f # g => req'[f].eid # req'[g].eid
  <2>1. g # h /\ pc[g] = "map" /\ req'[g] = req[g]
    BY <1>2, <1>9
  <2>2. /\ req[g].eid \in 1..lastEntry
        /\ [eid |-> req[g].eid, id |-> req[g].id, spec |-> req[g].spec] \in entries
        /\ \A j \in Id : entryIDs[j] # req[g].eid
        /\ \A f \in Handlers : pc[f] = "remove" => req[f].eid # req[g].eid
        /\ \A f \in Handlers : pc[f] = "map" /\ f # g => req[f].eid # req[g].eid
    BY <2>1 DEF MapInv
  <2>3. \A f \in Handlers : pc'[f] \in {"remove", "map"} => pc'[f] = pc[f] /\ req'[f] = req[f]
    BY <1>2
  <2>4. \A j \in Id : entryIDs'[j] # req[g].eid
    BY <1>3, <1>4, <2>1, <2>2
  <2> QED BY <1>1, <2>1, <2>2, <2>3, <2>4
<1> QED BY <1>5, <1>6, <1>7, <1>8, <1>9 DEF MapInv

LEMMA MapRestart == ASSUME TypeInv, Restart PROVE MapInv'
<1>1. Started'
  BY RestartStarted
<1> QED BY <1>1, MapStarts, PTL

LEMMA MapNext == ASSUME TypeInv, MapInv, [Next]_vars PROVE MapInv'
<1>1. CASE UNCHANGED vars
  BY <1>1, MapFrame DEF vars, cron
<1>2. ASSUME NEW h \in Handlers, Step(h) PROVE MapInv'
  BY <1>2, MapTable, MapUnmap, MapRemove, MapAdd, MapMap DEF Step
<1> QED BY <1>1, <1>2, MapRequests, MapRestart DEF Next

-----------------------------------------------------------------------------
(* Every variable keeps its type, and the EntryIDs of the runner were all  *)
(* handed out by it (scheduler.go:87-110).                                 *)
THEOREM TypeCorrect == Spec => []TypeOK
<1>1. Init => TypeInv
  BY TypeInit
<1>2. TypeInv /\ [Next]_vars => TypeInv'
  BY TypeNext
<1>3. TypeInv => TypeOK
  BY DEF TypeInv
<1> QED BY <1>1, <1>2, <1>3, PTL DEF Spec

(* However the requests overlap or fail, an EntryID in the map is an entry *)
(* of the runner and of its own schedule (scheduler.go:95-97, 112-120).    *)
THEOREM MapSound == Spec => []MapIsSound
<1>1. Init => TypeInv /\ MapInv
  BY TypeInit, MapInit
<1>2. TypeInv /\ MapInv /\ [Next]_vars => (TypeInv /\ MapInv)'
  BY TypeNext, MapNext
<1>3. MapInv => MapIsSound
  BY DEF MapInv
<1> QED BY <1>1, <1>2, <1>3, PTL DEF Spec

-----------------------------------------------------------------------------
(* One entry per enabled row, for schedules whose requests did not         *)
(* overlap: RowsInv.                                                       *)

LEMMA RowsStart == Started => RowsInv
<1> SUFFICES ASSUME Started, NEW i \in Id \ mixed PROVE RowInv(i)
  BY DEF RowsInv
<1>1. /\ state[i] = "on" => [eid |-> entryIDs[i], id |-> i, spec |-> spec[i]] \in entries
      /\ \A e \in entries : state[e.id] = "on" /\ e.eid = entryIDs[e.id] /\ e.spec = spec[e.id]
  BY StartedFits
<1>2. \A h \in Handlers : pc[h] = "idle"
  BY DEF Started
<1>3. Mapped(i) /\ Served(i)
  BY <1>1 DEF Mapped, Served, EntriesOf
<1> QED BY <1>2, <1>3 DEF RowInv, WorksOn, Busy

(* A schedule that a step does not touch, and nobody begins to work on.    *)
LEMMA RowStays ==
    ASSUME TypeInv, NEW j \in Id, RowInv(j),
           state'[j] = state[j], spec'[j] = spec[j], entryIDs'[j] = entryIDs[j],
           EntriesOf(j)' = EntriesOf(j),
           \A g \in Handlers : (WorksOn(g, j) \/ WorksOn(g, j)') => pc'[g] = pc[g] /\ req'[g] = req[g]
    PROVE  RowInv(j)'
<1>1. \A g \in Handlers : WorksOn(g, j)' <=> WorksOn(g, j)
  BY DEF WorksOn
<1>2. (Mapped(j)' <=> Mapped(j)) /\ (Served(j)' <=> Served(j))
  BY DEF Mapped, Served
<1>3. Busy(j)' <=> Busy(j)
  BY <1>1 DEF Busy, WorksOn
<1>4. ASSUME NEW g \in Handlers, WorksOn(g, j)' PROVE Progress(g)'
  <2>1. WorksOn(g, j) /\ Progress(g) /\ pc'[g] = pc[g] /\ req'[g] = req[g] /\ req[g].id = j
    BY <1>1, <1>4 DEF RowInv, WorksOn
  <2> QED BY <1>2, <2>1 DEF Progress, Knows
<1> QED BY <1>1, <1>2, <1>3, <1>4 DEF RowInv

(* A step of h, alone on schedule i: what is left to show of it. *)
LEMMA RowsStep ==
    ASSUME TypeInv, RowsInv, NEW h \in Handlers, NEW i \in Id,
           mixed \subseteq mixed',
           pc[h] = "idle" \/ req[h].id = i,
           pc'[h] = "idle" \/ req'[h].id = i,
           \A g \in Handlers \ {h} : pc'[g] = pc[g] /\ req'[g] = req[g],
           \A j \in Id \ {i} : /\ state'[j] = state[j] /\ spec'[j] = spec[j]
                               /\ entryIDs'[j] = entryIDs[j] /\ EntriesOf(j)' = EntriesOf(j),
           i \notin mixed' => /\ pc[h] = "idle" => ~Busy(i)
                              /\ IF pc'[h] = "idle" THEN Mapped(i)' /\ Served(i)' ELSE Progress(h)'
    PROVE  RowsInv'
<1>1. ASSUME NEW j \in Id \ mixed', j # i PROVE RowInv(j)'
  <2>1. RowInv(j)
    BY <1>1 DEF RowsInv
  <2>2. \A g \in Handlers : (WorksOn(g, j) \/ WorksOn(g, j)') => pc'[g] = pc[g] /\ req'[g] = req[g]
    BY <1>1 DEF WorksOn
  <2> QED BY <1>1, <2>1, <2>2, RowStays
<1>2. ASSUME i \notin mixed' PROVE RowInv(i)'
  <2>1. RowInv(i) /\ (pc[h] = "idle" => ~Busy(i))
    BY <1>2 DEF RowsInv
  <2>2. \A g \in Handlers \ {h} : ~WorksOn(g, i)'
    <3>1. \A g \in Handlers \ {h} : ~WorksOn(g, i)
      BY <2>1 DEF RowInv, WorksOn, Busy
    <3> QED BY <3>1 DEF WorksOn
  <2>3. CASE pc'[h] = "idle"
    BY <1>2, <2>2, <2>3 DEF RowInv, WorksOn, Busy
  <2>4. CASE pc'[h] # "idle"
    <3>1. WorksOn(h, i)' /\ Progress(h)' /\ Busy(i)'
      BY <1>2, <2>4 DEF WorksOn, Busy
    <3> QED BY <2>2, <3>1 DEF RowInv
  <2> QED BY <2>3, <2>4
<1> QED BY <1>1, <1>2 DEF RowsInv

(* A request begins, on a schedule that it may find busy. *)
LEMMA RowsRequest ==
    ASSUME TypeInv, RowsInv, NEW h \in Handlers, NEW r \in Requests, NEW l \in PCs \ {"idle"},
           Request(h, r, l), UNCHANGED <<cron, entryIDs>>,
           \A j \in Id \ {r.id} : state'[j] = state[j] /\ spec'[j] = spec[j],
           r.id \notin mixed' /\ pc'[h] = l /\ req'[h] = r /\ RowInv(r.id) /\ ~Busy(r.id) => Progress(h)'
    PROVE  RowsInv'
<1> DEFINE i == r.id
<1>1. /\ pc[h] = "idle" /\ pc'[h] = l /\ req'[h] = r /\ i \in Id
      /\ \A g \in Handlers \ {h} : pc'[g] = pc[g] /\ req'[g] = req[g]
  BY OthersStay DEF Request, Requests
<1>2. mixed \subseteq mixed' /\ (i \notin mixed' => ~Busy(i))
  BY DEF Request
<1>3. i \notin mixed' => RowInv(i)
  BY <1>1, <1>2 DEF RowsInv
<1>4. \A j \in Id \ {i} : EntriesOf(j)' = EntriesOf(j) /\ entryIDs'[j] = entryIDs[j]
  BY DEF EntriesOf, cron
<1> HIDE DEF i
<1> QED BY <1>1, <1>2, <1>3, <1>4, RowsStep DEF i

(* A request that writes nothing yet finds its row served. *)
LEMMA RowsBegin ==
    ASSUME TypeInv, RowsInv, NEW h \in Handlers, NEW r \in Requests, NEW l \in {"update", "first", "find"},
           Request(h, r, l), l = "find" => ~r.enabled, UNCHANGED <<table, cron, entryIDs>>
    PROVE  RowsInv'
<1>1. l \in PCs \ {"idle"}
  BY DEF PCs
<1>2. ASSUME pc'[h] = l, req'[h] = r, RowInv(r.id), ~Busy(r.id) PROVE Progress(h)'
  <2>1. Mapped(r.id)' /\ Served(r.id)'
    BY <1>2 DEF RowInv, Mapped, Served, EntriesOf, table, cron
  <2>2. state'[r.id] = "absent" => EntriesOf(r.id)' = {}
    BY <2>1 DEF Served
  <2> QED BY <1>2, <2>1, <2>2 DEF Progress
<1> QED BY <1>1, <1>2, RowsRequest DEF table

LEMMA RowsRequests ==
    ASSUME TypeInv, RowsInv, NEW h \in Handlers, Create(h) \/ Change(h) \/ Toggle(h) \/ Delete(h)
    PROVE  RowsInv'
<1>1. ASSUME Create(h) PROVE RowsInv'
  <2> PICK i : i = lastId + 1
    OBVIOUS
  <2>1. PICK s \in Specs : /\ Request(h, [NoRequest EXCEPT !.id = i, !.spec = s, !.enabled = TRUE], "unmap")
                           /\ state' = [state EXCEPT ![i] = "on"]
                           /\ spec' = [spec EXCEPT ![i] = s]
    BY <1>1 DEF Create
  <2> DEFINE r == [NoRequest EXCEPT !.id = i, !.spec = s, !.enabled = TRUE]
  <2>2. UNCHANGED <<cron, entryIDs>> /\ lastId \in Nat /\ i \in Id
    <3>1. UNCHANGED <<cron, entryIDs>> /\ lastId < MaxId /\ lastId \in 0..MaxId
      BY <1>1 DEF Create, TypeInv, TypeOK
    <3> QED BY <3>1, BoundAssumption DEF Id
  <2>3. r \in Requests /\ r.id = i /\ r.spec = s /\ r.enabled = TRUE
    BY <2>2, NoRequestType DEF Requests, NoRequest
  <2>4. EntriesOf(i)' = {}
    <3>1. \A e \in entries : e.id \in Nat /\ e.id <= lastId
      BY DEF TypeInv, TypeOK, FreshInv, Entries, Id
    <3>2. \A e \in entries : e.id # i
      BY <2>2, <3>1
    <3> QED BY <2>2, <3>2 DEF EntriesOf, cron
  <2>5. state'[i] = "on" /\ spec'[i] = s /\ \A j \in Id \ {i} : state'[j] = state[j] /\ spec'[j] = spec[j]
    BY <2>1, <2>2 DEF TypeInv, TypeOK
  <2>6. "unmap" \in PCs \ {"idle"}
    BY DEF PCs
  <2> HIDE DEF r
  <2>7. ASSUME pc'[h] = "unmap", req'[h] = r PROVE Progress(h)'
    <3>1. \A e \in EntriesOf(i)' : e.eid = entryIDs'[i]
      BY <2>4
    <3>2. Mapped(i)'
      BY <3>1 DEF Mapped
    <3>3. Knows(h)'
      BY <2>3, <2>5, <2>7 DEF Knows
    <3>4. req'[h].id = i /\ pc'[h] = "unmap"
      BY <2>3, <2>7
    <3> QED BY <3>2, <3>3, <3>4 DEF Progress
  <2> QED BY <2>1, <2>2, <2>3, <2>5, <2>6, <2>7, RowsRequest DEF r
<1>2. ASSUME Change(h) PROVE RowsInv'
  <2>1. PICK i \in 1..lastId, s \in Specs, b \in BOOLEAN :
            Request(h, [NoRequest EXCEPT !.id = i, !.spec = s, !.enabled = b], "update")
    BY <1>2 DEF Change
  <2>2. [NoRequest EXCEPT !.id = i, !.spec = s, !.enabled = b] \in Requests
    BY GivenType, NoRequestType DEF Requests
  <2> QED BY <1>2, <2>1, <2>2, RowsBegin DEF Change
<1>3. ASSUME Toggle(h) PROVE RowsInv'
  <2>1. PICK i \in 1..lastId, b \in BOOLEAN : Request(h, [NoRequest EXCEPT !.id = i, !.enabled = b], "first")
    BY <1>3 DEF Toggle
  <2>2. [NoRequest EXCEPT !.id = i, !.enabled = b] \in Requests
    BY GivenType, NoRequestType DEF Requests
  <2> QED BY <1>3, <2>1, <2>2, RowsBegin DEF Toggle
<1>4. ASSUME Delete(h) PROVE RowsInv'
  <2>1. PICK i \in 1..lastId : Request(h, [NoRequest EXCEPT !.id = i], "find")
    BY <1>4 DEF Delete
  <2> DEFINE r == [NoRequest EXCEPT !.id = i]
  <2>2. r \in Requests /\ ~r.enabled
    BY GivenType, NoRequestType DEF Requests, NoRequest
  <2>3. Request(h, r, "find") /\ UNCHANGED <<table, cron, entryIDs>>
    BY <1>4, <2>1 DEF Delete
  <2> HIDE DEF r
  <2> QED BY <2>2, <2>3, RowsBegin
<1> QED BY <1>1, <1>2, <1>3, <1>4

(* A step of h on its schedule i, under way. *)
LEMMA RowsGo ==
    ASSUME TypeInv, RowsInv, NEW h \in Handlers, NEW i \in Id, NEW l, NEW r,
           pc[h] # "idle", req[h].id = i, Goto(h, l), req' = [req EXCEPT ![h] = r],
           mixed \subseteq mixed', l = "idle" \/ r.id = i,
           \A j \in Id \ {i} : /\ state'[j] = state[j] /\ spec'[j] = spec[j]
                               /\ entryIDs'[j] = entryIDs[j] /\ EntriesOf(j)' = EntriesOf(j),
           i \notin mixed' /\ Progress(h) /\ pc'[h] = l /\ req'[h] = r =>
               IF l = "idle" THEN Mapped(i)' /\ Served(i)' ELSE Progress(h)'
    PROVE  RowsInv'
<1>1. /\ pc'[h] = l /\ req'[h] = r
      /\ \A g \in Handlers \ {h} : pc'[g] = pc[g] /\ req'[g] = req[g]
  BY OthersStay
<1>2. i \notin mixed' => Progress(h)
  BY DEF RowsInv, RowInv, WorksOn
<1> QED BY <1>1, <1>2, RowsStep

(* A failed call: before the first write the row is still served. *)
LEMMA RowsFail ==
    ASSUME TypeInv, RowsInv, NEW h \in Handlers, Fail(h), UNCHANGED <<cron, entryIDs>>,
           pc[h] \in {"update", "first", "enable", "find", "drop"}
    PROVE  RowsInv'
<1> PICK i \in Id : req[h].id = i
  BY DEF TypeInv, TypeOK, Requests
<1>1. /\ Goto(h, "idle") /\ req' = [req EXCEPT ![h] = NoRequest]
      /\ mixed \subseteq mixed' /\ UNCHANGED <<state, spec, entries, entryIDs>>
  BY DEF Fail, Answer, table, cron
<1>2. \A j \in Id : EntriesOf(j)' = EntriesOf(j)
  BY <1>1 DEF EntriesOf
<1>3. ASSUME i \notin mixed', Progress(h) PROVE Mapped(i)' /\ Served(i)'
  <2>1. pc[h] \in {"update", "find", "drop"}
    BY <1>3 DEF Fail
  <2>2. Mapped(i) /\ Served(i)
    BY <1>3, <2>1 DEF Progress
  <2> QED BY <1>1, <1>2, <2>2 DEF Mapped, Served
<1> QED BY <1>1, <1>2, <1>3, RowsGo

(* The steps on the table. *)
LEMMA RowsTable ==
    ASSUME TypeInv, RowsInv, NEW h \in Handlers,
           UpdateRow(h) \/ First(h) \/ Enable(h) \/ Find(h) \/ Drop(h)
    PROVE  RowsInv'
<1> PICK i \in Id : req[h].id = i
  BY DEF TypeInv, TypeOK, Requests
<1>1. /\ UNCHANGED <<entries, entryIDs, cron>>
      /\ pc[h] \in {"update", "first", "enable", "find", "drop"} /\ pc[h] # "idle"
      /\ req = [req EXCEPT ![h] = req[h]]
  BY DEF UpdateRow, First, Enable, Find, Drop, cron, TypeInv, TypeOK
<1>2. \A j \in Id : EntriesOf(j)' = EntriesOf(j) /\ entryIDs'[j] = entryIDs[j]
  BY <1>1 DEF EntriesOf
<1>3. CASE Fail(h)
  BY <1>1, <1>3, RowsFail
<1>4. ASSUME ~Fail(h), UpdateRow(h) PROVE RowsInv'
  <2>1. /\ Ok /\ Goto(h, "first") /\ req' = req /\ pc[h] = "update"
        /\ IF state[i] = "absent"
           THEN UNCHANGED <<state, spec>>
           ELSE /\ state' = [state EXCEPT ![i] = Switch(req[h].enabled)]
                /\ spec' = [spec EXCEPT ![i] = req[h].spec]
    BY <1>4 DEF UpdateRow
  <2>2. \A j \in Id \ {i} : state'[j] = state[j] /\ spec'[j] = spec[j]
    BY <2>1 DEF TypeInv, TypeOK
  <2>3. state'[i] = "absent" => state[i] = "absent"
    BY <2>1 DEF TypeInv, TypeOK, Switch
  <2>4. ASSUME Progress(h), pc'[h] = "first", req'[h] = req[h] PROVE Progress(h)'
    <3>1. Mapped(i) /\ Served(i)
      BY <2>1, <2>4 DEF Progress
    <3>2. Mapped(i)' /\ (state'[i] = "absent" => EntriesOf(i)' = {})
      BY <1>2, <2>3, <3>1 DEF Mapped, Served
    <3> QED BY <2>4, <3>2 DEF Progress
  <2> QED BY <1>1, <1>2, <2>1, <2>2, <2>4, RowsGo DEF Ok
<1>5. ASSUME ~Fail(h), First(h) PROVE RowsInv'
  <2>1. Ok /\ UNCHANGED <<state, spec>> /\ pc[h] = "first"
    BY <1>5 DEF First, table
  <2>2. ASSUME state[i] = "absent" PROVE RowsInv'
    <3>1. Goto(h, "idle") /\ req' = [req EXCEPT ![h] = NoRequest]
      BY <1>5, <2>2 DEF First, Answer
    <3>2. ASSUME Progress(h) PROVE Mapped(i)' /\ Served(i)'
      <4>1. EntriesOf(i) = {}
        BY <2>1, <2>2, <3>2 DEF Progress
      <4> QED BY <1>2, <2>1, <2>2, <4>1 DEF Mapped, Served
    <3> QED BY <1>2, <2>1, <3>1, <3>2, RowsGo DEF Ok
  <2>3. ASSUME state[i] # "absent" PROVE RowsInv'
    <3> DEFINE r == [req[h] EXCEPT !.spec = spec[i]]
    <3>1. /\ Goto(h, "enable") /\ req' = [req EXCEPT ![h] = r] /\ r.id = i
          /\ r.spec = spec[i]
      BY <1>5, <2>3 DEF First, TypeInv, TypeOK, Requests
    <3> HIDE DEF r
    <3>2. ASSUME Progress(h), pc'[h] = "enable", req'[h] = r PROVE Progress(h)'
      <4>1. Mapped(i)
        BY <2>1, <3>2 DEF Progress
      <4>2. Mapped(i)' /\ state'[i] # "absent" /\ spec'[i] = r.spec
        BY <1>2, <2>1, <2>3, <3>1, <4>1 DEF Mapped
      <4> QED BY <3>1, <3>2, <4>2 DEF Progress
    <3> QED BY <1>2, <2>1, <3>1, <3>2, RowsGo DEF Ok
  <2> QED BY <2>2, <2>3
<1>6. ASSUME ~Fail(h), Enable(h) PROVE RowsInv'
  <2>1. /\ Ok /\ Goto(h, "unmap") /\ req' = req /\ pc[h] = "enable" /\ spec' = spec
        /\ state' = [state EXCEPT ![i] = IF @ = "absent" THEN @ ELSE Switch(req[h].enabled)]
    BY <1>6 DEF Enable
  <2>2. /\ \A j \in Id \ {i} : state'[j] = state[j] /\ spec'[j] = spec[j]
        /\ state[i] # "absent" => state'[i] = Switch(req[h].enabled)
    BY <2>1 DEF TypeInv, TypeOK
  <2>3. ASSUME Progress(h), pc'[h] = "unmap", req'[h] = req[h] PROVE Progress(h)'
    <3>1. Mapped(i) /\ state[i] # "absent" /\ req[h].spec = spec[i]
      BY <2>1, <2>3 DEF Progress
    <3>2. Mapped(i)'
      BY <1>2, <3>1 DEF Mapped
    <3>3. Knows(h)'
      <4>1. req[h].enabled \in BOOLEAN /\ state'[i] = Switch(req[h].enabled)
        BY <2>2, <3>1 DEF TypeInv, TypeOK, Requests
      <4> QED BY <2>1, <2>3, <3>1, <4>1 DEF Knows, Switch
    <3> QED BY <2>3, <3>2, <3>3 DEF Progress
  <2> QED BY <1>1, <1>2, <2>1, <2>2, <2>3, RowsGo DEF Ok
<1>7. ASSUME ~Fail(h), Find(h) PROVE RowsInv'
  <2>1. Ok /\ UNCHANGED <<state, spec>> /\ pc[h] = "find"
    BY <1>7 DEF Find, table
  <2>2. ASSUME Progress(h) PROVE Mapped(i)' /\ Served(i)' /\ ~req[h].enabled
    <3>1. Mapped(i) /\ Served(i) /\ ~req[h].enabled
      BY <2>1, <2>2 DEF Progress
    <3> QED BY <1>2, <2>1, <3>1 DEF Mapped, Served
  <2>3. ASSUME state[i] = "absent" PROVE RowsInv'
    <3>1. Goto(h, "idle") /\ req' = [req EXCEPT ![h] = NoRequest]
      BY <1>7, <2>3 DEF Find, Answer
    <3> QED BY <1>2, <2>1, <2>2, <3>1, RowsGo DEF Ok
  <2>4. ASSUME state[i] # "absent" PROVE RowsInv'
    <3>1. Goto(h, "drop") /\ req' = req
      BY <1>7, <2>4 DEF Find
    <3>2. ASSUME Progress(h), pc'[h] = "drop", req'[h] = req[h] PROVE Progress(h)'
      BY <2>2, <3>2 DEF Progress
    <3> QED BY <1>1, <1>2, <2>1, <3>1, <3>2, RowsGo DEF Ok
  <2> QED BY <2>3, <2>4
<1>8. ASSUME ~Fail(h), Drop(h) PROVE RowsInv'
  <2>1. /\ Ok /\ Goto(h, "unmap") /\ req' = req /\ pc[h] = "drop" /\ spec' = spec
        /\ state' = [state EXCEPT ![i] = "absent"]
    BY <1>8 DEF Drop
  <2>2. state'[i] = "absent" /\ \A j \in Id \ {i} : state'[j] = state[j] /\ spec'[j] = spec[j]
    BY <2>1 DEF TypeInv, TypeOK
  <2>3. ASSUME Progress(h), pc'[h] = "unmap", req'[h] = req[h] PROVE Progress(h)'
    <3>1. Mapped(i) /\ ~req[h].enabled
      BY <2>1, <2>3 DEF Progress
    <3>2. Mapped(i)'
      BY <1>2, <3>1 DEF Mapped
    <3>3. Knows(h)'
      BY <2>2, <2>3, <3>1 DEF Knows
    <3> QED BY <2>3, <3>2, <3>3 DEF Progress
  <2> QED BY <1>1, <1>2, <2>1, <2>2, <2>3, RowsGo DEF Ok
<1> QED BY <1>3, <1>4, <1>5, <1>6, <1>7, <1>8

LEMMA RowsUnmap == ASSUME TypeInv, RowsInv, NEW h \in Handlers, Unmap(h) PROVE RowsInv'
<1> PICK i \in Id : req[h].id = i
  BY DEF TypeInv, TypeOK, Requests
<1> DEFINE r == [req[h] EXCEPT !.eid = entryIDs[i]]
<1>1. /\ pc[h] = "unmap" /\ Goto(h, "remove") /\ req' = [req EXCEPT ![h] = r]
      /\ UNCHANGED <<state, spec, entries, mixed>> /\ entryIDs' = [entryIDs EXCEPT ![i] = 0]
      /\ r.id = i /\ r.eid = entryIDs[i] /\ r.enabled = req[h].enabled /\ r.spec = req[h].spec
  BY DEF Unmap, table, cron, TypeInv, TypeOK, Requests
<1> HIDE DEF r
<1>2. \A j \in Id : EntriesOf(j)' = EntriesOf(j)
  BY <1>1 DEF EntriesOf
<1>3. \A j \in Id \ {i} : entryIDs'[j] = entryIDs[j]
  BY <1>1 DEF TypeInv, TypeOK
<1>4. ASSUME Progress(h), pc'[h] = "remove", req'[h] = r PROVE Progress(h)'
  <2>1. Mapped(i) /\ Knows(h)
    BY <1>1, <1>4 DEF Progress
  <2>2. \A e \in EntriesOf(i)' : e.eid = r.eid
    BY <1>1, <1>2, <2>1 DEF Mapped
  <2>3. Knows(h)'
    BY <1>1, <1>4, <2>1 DEF Knows
  <2> QED BY <1>1, <1>4, <2>2, <2>3 DEF Progress
<1> QED BY <1>1, <1>2, <1>3, <1>4, RowsGo

(* The entry removed is of this schedule: MapInv. *)
LEMMA RowsRemove == ASSUME TypeInv, MapInv, RowsInv, NEW h \in Handlers, Remove(h) PROVE RowsInv'
<1> PICK i \in Id : req[h].id = i
  BY DEF TypeInv, TypeOK, Requests
<1>1. /\ pc[h] = "remove" /\ UNCHANGED <<state, spec, entryIDs, mixed>>
      /\ entries' = {e \in entries : e.eid # req[h].eid}
  BY DEF Remove, table
<1>2. \A j \in Id \ {i} : EntriesOf(j)' = EntriesOf(j)
  <2>1. \A e \in entries : e.eid = req[h].eid => e.id = i
    BY <1>1 DEF MapInv
  <2> QED BY <1>1, <2>1 DEF EntriesOf
<1>3. ASSUME Progress(h) PROVE EntriesOf(i)' = {} /\ Knows(h)
  <2>1. (\A e \in EntriesOf(i) : e.eid = req[h].eid) /\ Knows(h)
    BY <1>1, <1>3 DEF Progress
  <2> QED BY <1>1, <2>1 DEF EntriesOf
<1>4. ASSUME req[h].enabled PROVE RowsInv'
  <2>1. Goto(h, "add") /\ req' = [req EXCEPT ![h] = req[h]]
    BY <1>4 DEF Remove, TypeInv, TypeOK
  <2>2. ASSUME Progress(h), pc'[h] = "add", req'[h] = req[h] PROVE Progress(h)'
    <3>1. Knows(h)'
      BY <1>1, <1>3, <2>2 DEF Knows
    <3> QED BY <1>3, <1>4, <2>2, <3>1 DEF Progress
  <2> QED BY <1>1, <1>2, <2>1, <2>2, RowsGo
<1>5. ASSUME ~req[h].enabled PROVE RowsInv'
  <2>1. Goto(h, "idle") /\ req' = [req EXCEPT ![h] = NoRequest]
    BY <1>5 DEF Remove, Answer
  <2>2. ASSUME Progress(h) PROVE Mapped(i)' /\ Served(i)'
    <3>1. EntriesOf(i)' = {} /\ state'[i] # "on"
      BY <1>1, <1>3, <1>5, <2>2 DEF Knows
    <3> QED BY <3>1 DEF Mapped, Served
  <2> QED BY <1>1, <1>2, <2>1, <2>2, RowsGo
<1> QED BY <1>4, <1>5

LEMMA RowsAdd == ASSUME TypeInv, RowsInv, NEW h \in Handlers, Add(h) PROVE RowsInv'
<1> PICK i \in Id : req[h].id = i
  BY DEF TypeInv, TypeOK, Requests
<1> PICK new : new = [eid |-> lastEntry + 1, id |-> i, spec |-> req[h].spec]
  OBVIOUS
<1> DEFINE r == [req[h] EXCEPT !.eid = lastEntry + 1]
<1>1. /\ pc[h] = "add" /\ Goto(h, "map") /\ req' = [req EXCEPT ![h] = r]
      /\ UNCHANGED <<state, spec, entryIDs, mixed>> /\ entries' = entries \cup {new}
      /\ r.id = i /\ r.eid = new.eid /\ r.enabled = req[h].enabled /\ r.spec = req[h].spec
      /\ new.id = i /\ new.spec = r.spec
  BY DEF Add, table, TypeInv, TypeOK, Requests
<1> HIDE DEF r
<1>2. \A j \in Id \ {i} : EntriesOf(j)' = EntriesOf(j)
  BY <1>1 DEF EntriesOf
<1>3. ASSUME Progress(h), pc'[h] = "map", req'[h] = r PROVE Progress(h)'
  <2>1. EntriesOf(i) = {} /\ req[h].enabled /\ Knows(h)
    BY <1>1, <1>3 DEF Progress
  <2>2. EntriesOf(i)' = {new}
    BY <1>1, <2>1 DEF EntriesOf
  <2>3. Knows(h)'
    BY <1>1, <1>3, <2>1 DEF Knows
  <2> QED BY <1>1, <1>3, <2>1, <2>2, <2>3 DEF Progress
<1> QED BY <1>1, <1>2, <1>3, RowsGo

(* The entry mapped is still in the runner: MapInv. *)
LEMMA RowsMap == ASSUME TypeInv, MapInv, RowsInv, NEW h \in Handlers, Map(h) PROVE RowsInv'
<1> PICK i \in Id : req[h].id = i
  BY DEF TypeInv, TypeOK, Requests
<1>1. /\ pc[h] = "map" /\ Goto(h, "idle") /\ req' = [req EXCEPT ![h] = NoRequest]
      /\ UNCHANGED <<state, spec, entries, mixed>>
      /\ entryIDs' = [entryIDs EXCEPT ![i] = req[h].eid]
  BY DEF Map, Answer, table, cron
<1>2. \A j \in Id : EntriesOf(j)' = EntriesOf(j)
  BY <1>1 DEF EntriesOf
<1>3. entryIDs'[i] = req[h].eid /\ \A j \in Id \ {i} : entryIDs'[j] = entryIDs[j]
  BY <1>1 DEF TypeInv, TypeOK
<1>4. ASSUME Progress(h) PROVE Mapped(i)' /\ Served(i)'
  <2>1. /\ \A e \in EntriesOf(i) : e.eid = req[h].eid /\ e.spec = req[h].spec
        /\ Knows(h) /\ req[h].enabled
    BY <1>1, <1>4 DEF Progress
  <2>2. \E e \in EntriesOf(i) : e.spec = req[h].spec
    BY <1>1 DEF MapInv, EntriesOf
  <2>3. state[i] = "on" /\ spec[i] = req[h].spec
    BY <2>1 DEF Knows
  <2> QED BY <1>1, <1>2, <1>3, <2>1, <2>2, <2>3 DEF Mapped, Served
<1> QED BY <1>1, <1>2, <1>3, <1>4, RowsGo

LEMMA RowsRestart == ASSUME TypeInv, Restart PROVE RowsInv'
<1>1. Started'
  BY RestartStarted
<1> QED BY <1>1, RowsStart, PTL

LEMMA RowsNext == ASSUME TypeInv, MapInv, RowsInv, [Next]_vars PROVE RowsInv'
<1>1. ASSUME UNCHANGED vars PROVE RowsInv'
  <2>1. /\ UNCHANGED <<state, spec, entryIDs, pc, req, mixed>>
        /\ \A j \in Id : EntriesOf(j)' = EntriesOf(j)
    BY <1>1 DEF vars, table, cron, EntriesOf
  <2>2. \A j \in Id \ mixed : RowInv(j)'
    BY <2>1, RowStays DEF RowsInv
  <2> QED BY <2>1, <2>2 DEF RowsInv
<1>2. ASSUME NEW h \in Handlers, Step(h) PROVE RowsInv'
  BY <1>2, RowsTable, RowsUnmap, RowsRemove, RowsAdd, RowsMap DEF Step
<1> QED BY <1>1, <1>2, RowsRequests, RowsRestart DEF Next

-----------------------------------------------------------------------------
LEMMA SchedulerInvariance == Spec => [](TypeInv /\ MapInv /\ RowsInv)
<1>1. Init => TypeInv /\ MapInv /\ RowsInv
  <2> SUFFICES ASSUME Init PROVE TypeInv /\ MapInv /\ RowsInv
    OBVIOUS
  <2>1. TypeInv /\ MapInv /\ Started
    BY TypeInit, MapInit, InitStarted
  <2> QED BY <2>1, RowsStart
<1>2. TypeInv /\ MapInv /\ RowsInv /\ [Next]_vars => (TypeInv /\ MapInv /\ RowsInv)'
  BY TypeNext, MapNext, RowsNext
<1> QED BY <1>1, <1>2, PTL DEF Spec

(* Registering is idempotent: a schedule whose requests came one after the *)
(* other has at most one entry between them (scheduler.go:88).             *)
THEOREM OneEntry == Spec => []OneEntryEach
<1>1. TypeInv /\ MapInv /\ RowsInv => OneEntryEach
  <2> SUFFICES ASSUME MapInv, RowsInv, NEW i \in Id \ mixed, ~Busy(i),
                      NEW e1 \in EntriesOf(i), NEW e2 \in EntriesOf(i)
               PROVE  e1 = e2
    BY DEF OneEntryEach
  <2>1. e1.eid = entryIDs[i] /\ e2.eid = entryIDs[i]
    BY DEF RowsInv, RowInv, Mapped
  <2> QED BY <2>1 DEF MapInv, EntriesOf
<1> QED BY <1>1, SchedulerInvariance, PTL

(* A schedule whose requests came one after the other, none failing        *)
(* half-way, fires if and only if its row is enabled, as its row says,     *)
(* unless the process could not read that row when it started              *)
(* (scheduler.go:72, 174-190, server.go:723-752).                          *)
THEOREM RunnerMatches == Spec => []RunnerMatchesTable
<1>1. TypeInv /\ MapInv /\ RowsInv => RunnerMatchesTable
  <2> SUFFICES ASSUME RowsInv, NEW i \in Id \ mixed, ~Busy(i)
               PROVE  {e.spec : e \in EntriesOf(i)} = IF state[i] = "on" THEN {spec[i]} ELSE {}
    BY DEF RunnerMatchesTable
  <2>1. Served(i)
    BY DEF RowsInv, RowInv
  <2> QED BY <2>1 DEF Served
<1> QED BY <1>1, SchedulerInvariance, PTL
=============================================================================

------------------------------ MODULE Scheduler ------------------------------
(***************************************************************************)
(* internal/scheduler/scheduler.go and the schedule handlers of            *)
(* internal/api/server.go: the table of schedules, the entries of the cron *)
(* runner and the map between them, under handlers that run concurrently.  *)
(*                                                                         *)
(* The schedules are those of one index.  Only the map has a lock: a       *)
(* handler changes the table, the map and the runner one after the other,  *)
(* so a step of a handler is one of these.                                 *)
(* The columns last_run and next_run are written and never read here.      *)
(***************************************************************************)
EXTENDS Integers, Sequences, FiniteSets

CONSTANTS
    Handlers,       \* goroutines that serve requests about schedules
    Specs,          \* what a row says: a cron expression and a type
    Incremental,    \* "*/5 * * * * *" and incremental
    Full,           \* "0 0 2 * * *" and full
    MaxId,          \* bound: rows ever created
    MaxRequests,    \* bound: requests
    MaxFails,       \* bound: SQLite calls that fail
    MaxRestarts     \* bound: restarts of the process

ASSUME SpecsAssumption == Incremental \in Specs /\ Full \in Specs
ASSUME BoundAssumption == /\ MaxId \in Nat /\ MaxId >= 2
                          /\ MaxRequests \in Nat /\ MaxFails \in Nat
                          /\ MaxRestarts \in Nat

VARIABLES
    state,       \* table: is there a row, and is it enabled
    spec,        \* table: its cron_expr and type
    lastId,      \* table: the last id given (AUTOINCREMENT)
    entries,     \* Scheduler.cron: the entries that fire
    lastEntry,   \* Scheduler.cron: the last EntryID given
    entryIDs,    \* Scheduler.entryIDs; 0: not in the map
    pc, req,     \* each handler: where it is, and its locals
    mixed,       \* history: the schedules whose requests overlapped, or failed
                 \* half-way, since the process started, and those it did not
                 \* read then
    requests, fails, restarts

table == <<state, spec, lastId>>
cron  == <<entries, lastEntry>>
vars  == <<table, cron, entryIDs, pc, req, mixed, requests, fails, restarts>>

Id == 1..MaxId
States == {"absent", "off", "on"}
PCs == {"idle", "update", "first", "enable", "find", "drop", "unmap", "remove", "add", "map"}

Entries == [eid: Nat, id: Id, spec: Specs]

(* Locals: the schedule (id, spec), the wanted state, and an EntryID. *)
Requests == [id: Id, spec: Specs, enabled: BOOLEAN, eid: Nat]

NoRequest == [id |-> 1, spec |-> Full, enabled |-> FALSE, eid |-> 0]

Switch(enabled) == IF enabled THEN "on" ELSE "off"

-----------------------------------------------------------------------------
(* ensureDefaults: two schedules for an index that has none. *)
NeedsDefaults == \A i \in Id : state[i] = "absent"

DefaultsTable(new) ==
    /\ lastId + Len(new) <= MaxId
    /\ lastId' = lastId + Len(new)
    /\ state' = [i \in Id |-> IF i - lastId \in DOMAIN new THEN "on" ELSE state[i]]
    /\ spec' = [i \in Id |-> IF i - lastId \in DOMAIN new THEN new[i - lastId] ELSE spec[i]]

EnabledRows == {i \in Id : state[i] = "on"}

(* loadSchedules on a new cron runner: the rows it read, in order. *)
Loaded(On, sp) ==
    LET Position(i) == Cardinality({j \in On : j <= i})
    IN  [entries   |-> {[eid |-> Position(i), id |-> i, spec |-> sp[i]] : i \in On},
         lastEntry |-> Cardinality(On),
         entryIDs  |-> [i \in Id |-> IF i \in On THEN Position(i) ELSE 0]]

(* The process after its first start, on an empty database. *)
Init ==
    /\ state = [i \in Id |-> IF i <= 2 THEN "on" ELSE "absent"]
    /\ spec = [i \in Id |-> IF i = 1 THEN Incremental ELSE Full]
    /\ lastId = 2
    /\ entries = Loaded(EnabledRows, spec).entries
    /\ lastEntry = 2
    /\ entryIDs = Loaded(EnabledRows, spec).entryIDs
    /\ pc = [h \in Handlers |-> "idle"]
    /\ req = [h \in Handlers |-> NoRequest]
    /\ mixed = {} /\ requests = 0 /\ fails = 0 /\ restarts = 0

(* The SQLite calls of Start, whose errors nobody looks at. *)
StartCalls == {"Count", "CreateIncremental", "CreateFull", "Find"}

(* The default rows: a Count that fails counts none. *)
Defaults(failed) ==
    IF NeedsDefaults \/ "Count" \in failed
    THEN (IF "CreateIncremental" \in failed THEN <<>> ELSE <<Incremental>>)
           \o (IF "CreateFull" \in failed THEN <<>> ELSE <<Full>>)
    ELSE <<>>

(* The process ends and starts again.  Start runs before the API serves.   *)
Restart ==
    /\ restarts < MaxRestarts
    /\ restarts' = restarts + 1
    /\ \E failed \in SUBSET StartCalls :
          /\ fails + Cardinality(failed) <= MaxFails
          /\ fails' = fails + Cardinality(failed)
          /\ DefaultsTable(Defaults(failed))
          /\ LET On == IF "Find" \in failed THEN {} ELSE EnabledRows' IN
                /\ entries' = Loaded(On, spec').entries
                /\ lastEntry' = Loaded(On, spec').lastEntry
                /\ entryIDs' = Loaded(On, spec').entryIDs
                /\ mixed' = EnabledRows' \ On
    /\ pc' = [h \in Handlers |-> "idle"]
    /\ req' = [h \in Handlers |-> NoRequest]
    /\ UNCHANGED requests

-----------------------------------------------------------------------------
Goto(h, l) == pc' = [pc EXCEPT ![h] = l]
Answer(h)  == Goto(h, "idle") /\ req' = [req EXCEPT ![h] = NoRequest]

Ok == fails' = fails /\ mixed' = mixed

(* A SQLite call fails and the request is answered with 500.  Only the two *)
(* calls of ToggleSchedule may come after an UPDATE of the same request.   *)
Fail(h) ==
    /\ fails < MaxFails
    /\ fails' = fails + 1
    /\ mixed' = IF pc[h] \in {"first", "enable"} THEN mixed \cup {req[h].id} ELSE mixed
    /\ Answer(h)
    /\ UNCHANGED table

(* A request about schedule i is under way. *)
Busy(i) == \E h \in Handlers : pc[h] # "idle" /\ req[h].id = i

Count == requests < MaxRequests /\ requests' = requests + 1

Request(h, r, l) ==
    /\ pc[h] = "idle"
    /\ mixed' = IF Busy(r.id) THEN mixed \cup {r.id} ELSE mixed
    /\ req' = [req EXCEPT ![h] = r]
    /\ Goto(h, l)

(* handleCreateSchedule, up to meta.Create in AddSchedule.  GORM stores the *)
(* default (true) for an `enabled` that is false, and register does not    *)
(* look at it.                                                             *)
Create(h) ==
    /\ lastId < MaxId /\ Count
    /\ \E s \in Specs :
          /\ Request(h, [NoRequest EXCEPT !.id = lastId + 1, !.spec = s, !.enabled = TRUE], "unmap")
          /\ state' = [state EXCEPT ![lastId + 1] = "on"]
          /\ spec' = [spec EXCEPT ![lastId + 1] = s]
    /\ lastId' = lastId + 1
    /\ UNCHANGED <<cron, entryIDs, fails, restarts>>

(* handleUpdateSchedule, handleToggleSchedule and handleDeleteSchedule     *)
(* begin; nothing is written yet.                                          *)
Change(h) ==
    /\ Count
    /\ \E i \in 1..lastId, s \in Specs, b \in BOOLEAN :
          Request(h, [NoRequest EXCEPT !.id = i, !.spec = s, !.enabled = b], "update")
    /\ UNCHANGED <<table, cron, entryIDs, fails, restarts>>

Toggle(h) ==
    /\ Count
    /\ \E i \in 1..lastId, b \in BOOLEAN :
          Request(h, [NoRequest EXCEPT !.id = i, !.enabled = b], "first")
    /\ UNCHANGED <<table, cron, entryIDs, fails, restarts>>

Delete(h) ==
    /\ Count
    /\ \E i \in 1..lastId : Request(h, [NoRequest EXCEPT !.id = i], "find")
    /\ UNCHANGED <<table, cron, entryIDs, fails, restarts>>

(* The UPDATE of handleUpdateSchedule, which may find no row. *)
UpdateRow(h) ==
    /\ pc[h] = "update"
    /\ \/ /\ Ok
          /\ LET i == req[h].id IN
             IF state[i] = "absent"
             THEN UNCHANGED <<state, spec>>
             ELSE /\ state' = [state EXCEPT ![i] = Switch(req[h].enabled)]
                  /\ spec' = [spec EXCEPT ![i] = req[h].spec]
          /\ UNCHANGED <<lastId, req>>
          /\ Goto(h, "first")
       \/ Fail(h)
    /\ UNCHANGED <<cron, entryIDs, requests, restarts>>

(* Mutant: ToggleSchedule registers what it was called with. *)
FirstKeepsRequest(h) ==
    /\ pc[h] = "first"
    /\ \/ /\ Ok
          /\ IF state[req[h].id] = "absent" THEN Answer(h) ELSE Goto(h, "enable") /\ UNCHANGED req
          /\ UNCHANGED table
       \/ Fail(h)
    /\ UNCHANGED <<cron, entryIDs, requests, restarts>>

(* ToggleSchedule reads the row, *)
First(h) ==
    /\ pc[h] = "first"
    /\ \/ /\ Ok
          /\ IF state[req[h].id] = "absent"
             THEN Answer(h)
             ELSE /\ req' = [req EXCEPT ![h].spec = spec[req[h].id]]
                  /\ Goto(h, "enable")
          /\ UNCHANGED table
       \/ Fail(h)
    /\ UNCHANGED <<cron, entryIDs, requests, restarts>>

(* and stores `enabled`: no error if the row is gone. *)
Enable(h) ==
    /\ pc[h] = "enable"
    /\ \/ /\ Ok
          /\ LET i == req[h].id IN
             state' = [state EXCEPT ![i] = IF @ = "absent" THEN @ ELSE Switch(req[h].enabled)]
          /\ UNCHANGED <<spec, lastId, req>>
          /\ Goto(h, "unmap")
       \/ Fail(h)
    /\ UNCHANGED <<cron, entryIDs, requests, restarts>>

(* RemoveSchedule reads the row, and deletes it. *)
Find(h) ==
    /\ pc[h] = "find"
    /\ \/ /\ Ok
          /\ IF state[req[h].id] = "absent" THEN Answer(h) ELSE Goto(h, "drop") /\ UNCHANGED req
          /\ UNCHANGED table
       \/ Fail(h)
    /\ UNCHANGED <<cron, entryIDs, requests, restarts>>

Drop(h) ==
    /\ pc[h] = "drop"
    /\ \/ /\ Ok
          /\ state' = [state EXCEPT ![req[h].id] = "absent"]
          /\ UNCHANGED <<spec, lastId, req>>
          /\ Goto(h, "unmap")
       \/ Fail(h)
    /\ UNCHANGED <<cron, entryIDs, requests, restarts>>

(* Mutant: the entry stays in the map. *)
UnmapNothing(h) ==
    /\ pc[h] = "unmap"
    /\ req' = [req EXCEPT ![h].eid = entryIDs[req[h].id]]
    /\ Goto(h, "remove")
    /\ UNCHANGED <<table, cron, entryIDs, mixed, requests, fails, restarts>>

(* unregister: under the lock, the entry leaves the map ... *)
Unmap(h) ==
    /\ pc[h] = "unmap"
    /\ req' = [req EXCEPT ![h].eid = entryIDs[req[h].id]]
    /\ entryIDs' = [entryIDs EXCEPT ![req[h].id] = 0]
    /\ Goto(h, "remove")
    /\ UNCHANGED <<table, cron, mixed, requests, fails, restarts>>

(* Mutant: register does not remove the old entry. *)
RemoveUnlessEnabled(h) ==
    /\ pc[h] = "remove"
    /\ entries' = IF req[h].enabled THEN entries ELSE {e \in entries : e.eid # req[h].eid}
    /\ IF req[h].enabled THEN Goto(h, "add") /\ UNCHANGED req ELSE Answer(h)
    /\ UNCHANGED <<table, lastEntry, entryIDs, mixed, requests, fails, restarts>>

(* ... and outside it, the runner; register goes on, the others end. *)
Remove(h) ==
    /\ pc[h] = "remove"
    /\ entries' = {e \in entries : e.eid # req[h].eid}
    /\ IF req[h].enabled THEN Goto(h, "add") /\ UNCHANGED req ELSE Answer(h)
    /\ UNCHANGED <<table, lastEntry, entryIDs, mixed, requests, fails, restarts>>

(* Mutant: the runner does not count the entry. *)
AddUncounted(h) ==
    /\ pc[h] = "add"
    /\ entries' = entries \cup {[eid |-> lastEntry + 1, id |-> req[h].id, spec |-> req[h].spec]}
    /\ req' = [req EXCEPT ![h].eid = lastEntry + 1]
    /\ Goto(h, "map")
    /\ UNCHANGED <<table, lastEntry, entryIDs, mixed, requests, fails, restarts>>

(* register: cron.AddFunc, *)
Add(h) ==
    /\ pc[h] = "add"
    /\ lastEntry' = lastEntry + 1
    /\ entries' = entries \cup {[eid |-> lastEntry + 1, id |-> req[h].id, spec |-> req[h].spec]}
    /\ req' = [req EXCEPT ![h].eid = lastEntry + 1]
    /\ Goto(h, "map")
    /\ UNCHANGED <<table, entryIDs, mixed, requests, fails, restarts>>

(* and the map. *)
Map(h) ==
    /\ pc[h] = "map"
    /\ entryIDs' = [entryIDs EXCEPT ![req[h].id] = req[h].eid]
    /\ Answer(h)
    /\ UNCHANGED <<table, cron, mixed, requests, fails, restarts>>

Step(h) == \/ UpdateRow(h) \/ First(h) \/ Enable(h) \/ Find(h) \/ Drop(h)
           \/ Unmap(h) \/ Remove(h) \/ Add(h) \/ Map(h)

Next == \/ \E h \in Handlers : Create(h) \/ Change(h) \/ Toggle(h) \/ Delete(h) \/ Step(h)
        \/ Restart

Spec == Init /\ [][Next]_vars

-----------------------------------------------------------------------------
(* Every variable has its type, and the runner's EntryIDs were handed out. *)
TypeOK ==
    /\ state \in [Id -> States] /\ spec \in [Id -> Specs] /\ lastId \in 0..MaxId
    /\ entries \subseteq Entries /\ lastEntry \in Nat
    /\ \A e \in entries : e.eid \in 1..lastEntry
    /\ entryIDs \in [Id -> Nat]
    /\ pc \in [Handlers -> PCs] /\ req \in [Handlers -> Requests]
    /\ mixed \subseteq Id /\ requests \in 0..MaxRequests
    /\ fails \in 0..MaxFails /\ restarts \in 0..MaxRestarts

EntriesOf(i) == {e \in entries : e.id = i}

(* An EntryID in the map is always an entry of the runner, and of its own  *)
(* schedule: unregister can never remove the entry of another schedule,    *)
(* whatever overlaps or fails (scheduler.go:95-97, 112-120).               *)
MapIsSound ==
    \A i \in Id : entryIDs[i] # 0 => \E e \in EntriesOf(i) : e.eid = entryIDs[i]

(* Registering is idempotent: a schedule whose requests came one after the *)
(* other has at most one entry between them, whatever goes on for other    *)
(* schedules; with two it would fire twice (scheduler.go:88).              *)
OneEntryEach ==
    \A i \in Id \ mixed : ~Busy(i) => \A e1, e2 \in EntriesOf(i) : e1 = e2

(* A schedule whose requests came one after the other and did not fail     *)
(* half-way fires if and only if its row is enabled, as its row says       *)
(* (scheduler.go:174-190, server.go:723-752).  Excepted is a row that was  *)
(* enabled when the process started and did not get it from SQLite: the    *)
(* error is ignored (scheduler.go:72) and nothing fires for that row.  A   *)
(* start that gets its rows heals what such a one, overlapping requests or *)
(* half-failed ones spoiled.                                               *)
RunnerMatchesTable ==
    \A i \in Id \ mixed : ~Busy(i) =>
        {e.spec : e \in EntriesOf(i)} = IF state[i] = "on" THEN {spec[i]} ELSE {}
=============================================================================

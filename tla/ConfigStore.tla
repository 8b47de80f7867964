----------------------------- MODULE ConfigStore -----------------------------
(***************************************************************************)
(* The configurations of the indexes: the files config/indexes/*.yaml      *)
(* (internal/config/config.go), their rows in index_configs, and the maps  *)
(* in memory, under the create, update and delete handlers and             *)
(* reloadIndexConfigs of internal/api/server.go, the file watcher          *)
(* (internal/config/watcher.go) and the start of the process (main.go).    *)
(*                                                                         *)
(* The files are the only truth, and nothing has a lock: a handler and the *)
(* watcher run the same reload beside each other, row by row, and a row    *)
(* that SQLite does not write is not missed.  A configuration is reduced   *)
(* to what validation looks at, and a version.  The .bak copies, which     *)
(* nothing reads, are left out; a file is written in one step, and the     *)
(* files are read in one.  Of index_configs this is the column config; of  *)
(* the others, write_index is that of SyncEngine, and version, which both  *)
(* a reload and CreateWriteIndex set, only meta_dump prints.               *)
(***************************************************************************)
EXTENDS Integers

CONSTANTS
    Names,        \* names of indexes
    Contents,     \* texts: does it have a sql_query, does it have an index.name?
    Handlers,     \* goroutines that serve requests about configurations
    Watcher,      \* the goroutine of the file watcher
    MaxChanges,   \* bound: create, update and delete requests that are not refused at
                  \* once, and files edited by hand
    MaxEdits,     \* bound: the latter
    MaxFaults     \* bound: ends of the process, and calls of SQLite or of the file
                  \* system that fail while it runs

ASSUME ContentsAssumption ==
    Contents \subseteq [query: BOOLEAN, named: BOOLEAN, version: Nat]
ASSUME WatcherAssumption == Watcher \notin Handlers
ASSUME StoreBounds == MaxChanges \in Nat /\ MaxEdits \in Nat /\ MaxFaults \in Nat

VARIABLES
    file,      \* <name>.yaml
    tmp,       \* <name>.yaml.tmp
    events,    \* fsnotify events not handled yet
    row,       \* index_configs: the column config
    memory,    \* Server.indexCfgs, and what SetIndexCfgs derives from it in
               \* the engine and the lifecycle manager
    up,        \* is the process running
    pc, job,   \* each goroutine: where it is, and its locals
    (* history *)
    mixed,     \* names two requests worked on at a time
    newest,    \* the goroutine whose reload was the last to read the files
    read,      \* could it read every file
    freshRows, freshMemory,  \* what was last written by that reload: rows, memory
    requests, edits, crashes, fails

files  == <<file, tmp, events>>
copies == <<row, memory, newest, read, freshRows, freshMemory>>
counts == <<requests, edits, crashes, fails>>
vars == <<files, copies, up, pc, job, mixed, counts>>

Absent == [file |-> "absent"]
Empty  == [file |-> "empty"]      \* the placeholder of AcquireIndexCreateLock
IndexName == [file |-> "index"]   \* no configuration: the name of a physical index

Reloaders == Handlers \cup {Watcher}
PCs == {"idle", "save", "rename", "release", "remove", "load", "rows", "orphans"}

NoConfigs == [n \in Names |-> Absent]

NoJob == [op |-> "reload", name |-> Absent, content |-> Absent, cfgs |-> NoConfigs, todo |-> {}]

-----------------------------------------------------------------------------
(* validateIndexConfig.  SaveIndexConfig sets the name before it validates, *)
(* LoadIndexConfig only after it.                                          *)
Saveable(c) == c.query
IsLoadable(c) == c \in Contents /\ c.query /\ c.named

(* LoadIndexConfig: one file that cannot be read fails it altogether. *)
Loadable == \A n \in Names : file[n] = Absent \/ IsLoadable(file[n])

Init ==
    /\ file \in [Names -> {Absent} \cup {c \in Contents : IsLoadable(c)}]
    /\ tmp = NoConfigs
    /\ events = 0
    /\ row = file
    /\ memory = file
    /\ up = TRUE
    /\ pc = [r \in Reloaders |-> "idle"]
    /\ job = [r \in Reloaders |-> NoJob]
    /\ mixed = {}
    /\ newest = Watcher /\ read = TRUE /\ freshRows = Names /\ freshMemory = TRUE
    /\ requests = 0 /\ edits = 0 /\ crashes = 0 /\ fails = 0

-----------------------------------------------------------------------------
Goto(r, l) == pc' = [pc EXCEPT ![r] = l]
Answer(r)  == Goto(r, "idle") /\ job' = [job EXCEPT ![r] = NoJob]

Ok   == fails' = fails
Fail == crashes + fails < MaxFaults /\ fails' = fails + 1

(* A handler works on the file of this name. *)
Busy(n) == \E h \in Handlers : pc[h] \in {"save", "rename", "release", "remove"} /\ job[h].name = n

Request(h, op, n, c, l) ==
    /\ up /\ pc[h] = "idle"
    /\ requests + edits < MaxChanges
    /\ requests' = requests + 1
    /\ mixed' = IF Busy(n) THEN mixed \cup {n} ELSE mixed
    /\ job' = [job EXCEPT ![h] = [NoJob EXCEPT !.op = op, !.name = n, !.content = c]]
    /\ Goto(h, l)
    /\ UNCHANGED <<copies, up, edits, crashes, fails>>

(* Mutant: the file is not created exclusively. *)
CreateOverExisting(h) ==
    \E n \in Names, c \in Contents :
        /\ Request(h, "create", n, c, "save")
        /\ file' = [file EXCEPT ![n] = Empty]
        /\ events' = events + 1
        /\ UNCHANGED tmp

(* handleCreateIndex, up to AcquireIndexCreateLock: an exclusive create.   *)
(* A name that is taken is refused with 409, and nothing changes.          *)
Create(h) ==
    \E n \in Names, c \in Contents :
        /\ file[n] = Absent
        /\ Request(h, "create", n, c, "save")
        /\ file' = [file EXCEPT ![n] = Empty]
        /\ events' = events + 1
        /\ UNCHANGED tmp

(* handleUpdateIndex and handleDeleteIndex, up to IndexConfigExists. *)
Update(h) ==
    \E n \in Names, c \in Contents :
        /\ file[n] # Absent
        /\ Request(h, "update", n, c, "save")
        /\ UNCHANGED files

Delete(h) ==
    \E n \in Names :
        /\ file[n] # Absent
        /\ Request(h, "delete", n, Absent, "remove")
        /\ UNCHANGED files

(* Mutant: a create that is not valid leaves its placeholder. *)
SaveFailedKeeping(h) == Answer(h)

(* SaveIndexConfig fails; only a create has something to clean up. *)
SaveFailed(h) == IF job[h].op = "create" THEN Goto(h, "release") /\ UNCHANGED job ELSE Answer(h)

(* SaveIndexConfig: validate, write <name>.yaml.tmp ... *)
Save(h) ==
    /\ pc[h] = "save"
    /\ \/ /\ Ok /\ Saveable(job[h].content)
          /\ tmp' = [tmp EXCEPT ![job[h].name] = job[h].content]
          /\ Goto(h, "rename")
          /\ UNCHANGED job
       \/ /\ Fail \/ (Ok /\ ~Saveable(job[h].content))
          /\ SaveFailed(h) /\ UNCHANGED tmp
    /\ UNCHANGED <<file, events, copies, up, mixed, requests, edits, crashes>>

(* ... and move it over <name>.yaml.  Concurrent saves of one name share   *)
(* the .tmp: the second finds it gone.                                     *)
Rename(h) ==
    /\ pc[h] = "rename"
    /\ LET n == job[h].name IN
       \/ /\ Ok /\ tmp[n] # Absent
          /\ file' = [file EXCEPT ![n] = tmp[n]]
          /\ tmp' = [tmp EXCEPT ![n] = Absent]
          /\ events' = events + 1
          /\ job' = [job EXCEPT ![h] = NoJob]
          /\ Goto(h, "load")
       \/ /\ Fail \/ (Ok /\ tmp[n] = Absent)
          /\ tmp' = [tmp EXCEPT ![n] = Absent]
          /\ SaveFailed(h) /\ UNCHANGED <<file, events>>
    /\ UNCHANGED <<copies, up, mixed, requests, edits, crashes>>

(* ReleaseIndexCreateLock removes the file, whatever is in it. *)
Release(h) ==
    /\ pc[h] = "release"
    /\ file' = [file EXCEPT ![job[h].name] = Absent]
    /\ Answer(h)
    /\ UNCHANGED <<tmp, events, copies, up, mixed, counts>>

(* DeleteIndexConfig; the watcher does not look at removals. *)
Remove(h) ==
    /\ pc[h] = "remove"
    /\ \/ /\ Ok /\ file[job[h].name] # Absent
          /\ file' = [file EXCEPT ![job[h].name] = Absent]
          /\ job' = [job EXCEPT ![h] = NoJob]
          /\ Goto(h, "load")
       \/ /\ Fail \/ (Ok /\ file[job[h].name] = Absent)
          /\ Answer(h) /\ UNCHANGED file
    /\ UNCHANGED <<tmp, events, copies, up, mixed, requests, edits, crashes>>

-----------------------------------------------------------------------------
(* reloadIndexConfigs, by a handler or the watcher.                        *)

(* Mutant: the watcher does not wait for an event. *)
NoticeAlways ==
    /\ up /\ pc[Watcher] = "idle"
    /\ events' = events - 1
    /\ Goto(Watcher, "load")
    /\ UNCHANGED <<file, tmp, copies, up, job, mixed, counts>>

(* Watcher.Start: one event after the other. *)
Notice ==
    /\ up /\ pc[Watcher] = "idle" /\ events > 0
    /\ events' = events - 1
    /\ Goto(Watcher, "load")
    /\ UNCHANGED <<file, tmp, copies, up, job, mixed, counts>>

Reloading == {r \in Reloaders : pc[r] \in {"rows", "orphans"}}

(* LoadIndexConfig: with one file that it cannot read it fails altogether. *)
Load(r) ==
    /\ pc[r] = "load"
    /\ \/ /\ Ok /\ Loadable
          /\ job' = [job EXCEPT ![r].cfgs = file, ![r].todo = {n \in Names : file[n] # Absent}]
          /\ Goto(r, "rows")
          /\ newest' = r /\ read' = TRUE
       \/ /\ Fail \/ (Ok /\ ~Loadable)
          /\ Answer(r)
          /\ read' = FALSE /\ UNCHANGED newest
    /\ freshRows' = {} /\ freshMemory' = FALSE
    /\ UNCHANGED <<files, row, memory, up, mixed, requests, edits, crashes>>

(* History: r has written, or deleted, the row of n. *)
Written(r, n) == freshRows' = IF r = newest THEN freshRows \cup {n} ELSE freshRows \ {n}

(* A row of a configuration: First, then Updates or Create.  Errors are    *)
(* ignored; and if another reload creates or deletes the row after First,  *)
(* Create or Updates changes nothing.                                      *)
StoreRow(r) ==
    /\ pc[r] = "rows"
    /\ \E n \in job[r].todo :
          /\ job' = [job EXCEPT ![r].todo = @ \ {n}]
          /\ \/ Ok /\ row' = [row EXCEPT ![n] = job[r].cfgs[n]] /\ Written(r, n)
             \/ Fail /\ UNCHANGED <<row, freshRows>>
             \/ Ok /\ Reloading # {r} /\ UNCHANGED <<row, freshRows>>
    /\ UNCHANGED <<files, memory, newest, read, freshMemory, up, pc, mixed, requests, edits, crashes>>

(* Find, whose error is ignored too: which rows have no file.  Those that  *)
(* are gone already need no write.                                         *)
FindRows(r) ==
    /\ pc[r] = "rows" /\ job[r].todo = {}
    /\ LET gone == {n \in Names : job[r].cfgs[n] = Absent} IN
       \/ /\ Ok
          /\ job' = [job EXCEPT ![r].todo = {n \in gone : row[n] # Absent}]
          /\ freshRows' = IF r = newest THEN freshRows \cup {n \in gone : row[n] = Absent} ELSE freshRows
       \/ Fail /\ UNCHANGED <<job, freshRows>>
    /\ Goto(r, "orphans")
    /\ UNCHANGED <<files, row, memory, newest, read, freshMemory, up, mixed, requests, edits, crashes>>

(* Mutant: rows of files that are gone are kept. *)
KeepRow(r) ==
    /\ pc[r] = "orphans"
    /\ \E n \in job[r].todo :
          /\ job' = [job EXCEPT ![r].todo = @ \ {n}]
          /\ Ok /\ Written(r, n)
    /\ UNCHANGED <<files, row, memory, newest, read, freshMemory, up, pc, mixed, requests, edits, crashes>>

(* Delete of a row whose file is gone. *)
DeleteRow(r) ==
    /\ pc[r] = "orphans"
    /\ \E n \in job[r].todo :
          /\ job' = [job EXCEPT ![r].todo = @ \ {n}]
          /\ \/ Ok /\ row' = [row EXCEPT ![n] = Absent] /\ Written(r, n)
             \/ Fail /\ UNCHANGED <<row, freshRows>>
    /\ UNCHANGED <<files, memory, newest, read, freshMemory, up, pc, mixed, requests, edits, crashes>>

(* The maps in memory, one after the other. *)
SetIndexCfgs(r) ==
    /\ pc[r] = "orphans" /\ job[r].todo = {}
    /\ memory' = job[r].cfgs
    /\ freshMemory' = (r = newest)
    /\ Answer(r)
    /\ UNCHANGED <<files, row, newest, read, freshRows, up, mixed, counts>>

(* The insert of CreateWriteIndex, in a run of an index that has no row.   *)
CreateWriteIndex(n) ==
    /\ up /\ memory[n] # Absent /\ row[n] = Absent
    /\ row' = [row EXCEPT ![n] = IndexName]
    /\ freshRows' = freshRows \ {n}
    /\ UNCHANGED <<files, memory, newest, read, freshMemory, up, pc, job, mixed, counts>>

-----------------------------------------------------------------------------
(* Someone edits a file by hand, which the watcher is there for. *)
Edit(n, c) ==
    /\ edits < MaxEdits /\ requests + edits < MaxChanges
    /\ edits' = edits + 1
    /\ file' = [file EXCEPT ![n] = c]
    /\ events' = IF up THEN events + 1 ELSE 0
    /\ mixed' = IF Busy(n) THEN mixed \cup {n} ELSE mixed
    /\ UNCHANGED <<tmp, copies, up, pc, job, requests, crashes, fails>>

(* The process ends at any point ... *)
Crash ==
    /\ up
    /\ crashes + fails < MaxFaults
    /\ crashes' = crashes + 1
    /\ up' = FALSE
    /\ events' = 0
    /\ memory' = NoConfigs
    /\ pc' = [r \in Reloaders |-> "idle"]
    /\ job' = [r \in Reloaders |-> NoJob]
    /\ mixed' = {}
    /\ newest' = Watcher /\ read' = FALSE /\ freshRows' = {} /\ freshMemory' = FALSE
    /\ UNCHANGED <<file, tmp, row, requests, edits, fails>>

(* ... and starts again.  main reloads before it serves; files that cannot *)
(* be loaded end it at once (log.Fatalf), which changes nothing; rows that *)
(* SQLite does not write stay as they are.                                 *)
Start ==
    /\ ~up /\ Loadable
    /\ up' = TRUE
    /\ memory' = file
    /\ \E failed \in SUBSET Names :
          /\ row' = [n \in Names |-> IF n \in failed THEN row[n] ELSE file[n]]
          /\ freshRows' = Names \ failed
    /\ newest' = Watcher /\ read' = TRUE /\ freshMemory' = TRUE
    /\ UNCHANGED <<files, pc, job, mixed, counts>>

(* Someone takes a file away that keeps the process from starting. *)
Repair(n) ==
    /\ ~up
    /\ file[n] # Absent /\ ~IsLoadable(file[n])
    /\ file' = [file EXCEPT ![n] = Absent]
    /\ UNCHANGED <<tmp, events, copies, up, pc, job, mixed, counts>>

Handle(h) == \/ Create(h) \/ Update(h) \/ Delete(h)
             \/ Save(h) \/ Rename(h) \/ Release(h) \/ Remove(h)
Reload(r) == Load(r) \/ StoreRow(r) \/ FindRows(r) \/ DeleteRow(r) \/ SetIndexCfgs(r)

Next == \/ \E h \in Handlers : Handle(h)
        \/ Notice
        \/ \E r \in Reloaders : Reload(r)
        \/ \E n \in Names, c \in Contents : Edit(n, c)
        \/ Crash \/ Start
        \/ \E n \in Names : Repair(n) \/ CreateWriteIndex(n)

Spec == Init /\ [][Next]_vars

-----------------------------------------------------------------------------
Texts == Contents \cup {Absent, Empty}

(* Every variable has its type. *)
TypeOK ==
    /\ file \in [Names -> Texts]
    /\ tmp \in [Names -> Contents \cup {Absent}]
    /\ events \in Nat
    /\ row \in [Names -> Texts \cup {IndexName}]
    /\ memory \in [Names -> Texts]
    /\ up \in BOOLEAN /\ mixed \subseteq Names
    /\ newest \in Reloaders /\ read \in BOOLEAN
    /\ freshRows \subseteq Names /\ freshMemory \in BOOLEAN
    /\ pc \in [Reloaders -> PCs]
    /\ job \in [Reloaders -> [op: {"create", "update", "delete", "reload"}, name: Names \cup {Absent},
                              content: Contents \cup {Absent}, cfgs: [Names -> Texts], todo: SUBSET Names]]
    /\ requests \in Nat /\ edits \in 0..MaxEdits /\ requests + edits <= MaxChanges
    /\ crashes \in Nat /\ fails \in Nat /\ crashes + fails <= MaxFaults

Quiet == up /\ events = 0 /\ \A r \in Reloaders : pc[r] = "idle"

(* When nothing is under way, memory and table agree with the files        *)
(* (server.go:481-516, watcher.go:38-73: nothing that changes a file       *)
(* forgets to reload, also when reloads overlap), as far as the reload     *)
(* that read the files last could read them all, and also wrote last: a    *)
(* slower one that read before it may write after it, and a row SQLite     *)
(* refused stays as it was.  A file two requests worked on at a time is    *)
(* not spoken of.                                                          *)
Agreement ==
    Quiet /\ read =>
        /\ freshMemory => \A n \in Names \ mixed : memory[n] = file[n]
        /\ \A n \in freshRows \ mixed : row[n] = file[n]

(* A request that was not valid does not leave its placeholder behind,     *)
(* which would keep the process from starting again; only a crash does     *)
(* (server.go:400-405).                                                    *)
PlaceholderGone == Quiet /\ crashes = 0 => \A n \in Names : file[n] # Empty

(* A create never overwrites a configuration that is there, also when two  *)
(* requests create the same name at once (server.go:394-398: exclusive     *)
(* placeholder), unless somebody else changed the file in between.         *)
CreateNeverReplaces ==
    [][\A h \in Handlers : pc[h] \in {"idle", "rename", "release"} =>
         \A n \in Names \ mixed' :
            (pc'[h] # pc[h] /\ "create" \in {job[h].op, job'[h].op} /\ file'[n] # file[n])
              => file[n] \in {Absent, Empty}]_vars

(* What is saved can be loaded: when nothing is under way, the process     *)
(* could start again (config.go:369, server.go:401-402).                   *)
CanStart == Quiet => Loadable
=============================================================================

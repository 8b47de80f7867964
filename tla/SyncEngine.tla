----------------------------- MODULE SyncEngine -----------------------------
(***************************************************************************)
(* The life of one logical index: internal/sync/engine.go together with    *)
(* internal/lifecycle/manager.go, which the engine calls.                  *)
(*                                                                         *)
(* Callers (API handlers, cron jobs, notify goroutines) start runs; a run  *)
(* takes the per-index lock, chooses or creates the physical "write"       *)
(* index, reads rows from the source, sends them to Zinc in batches and,   *)
(* for a full rebuild, moves the read alias to the new index.  A delayed   *)
(* goroutine cleans up 24 hours after a switch.  The process may crash:    *)
(* Zinc and the metadata database keep their state, memory is lost.        *)
(*                                                                         *)
(* Every remote call is an action of its own, so anything may happen       *)
(* between two of them.  The rows of sync_runs, sync_logs and sync_alerts  *)
(* are left out: no step modelled here reads them.                         *)
(*                                                                         *)
(* Two things keep a change of a row from the indexes for good: stamps are *)
(* whole seconds compared strictly, so a row may change at a stamp that    *)
(* the cursor has reached (late), and a cleanup may delete the index that  *)
(* holds it (lost).  The cursor's properties except exactly these.         *)
(***************************************************************************)
EXTENDS Naturals, FiniteSets

CONSTANTS
    Callers,      \* goroutines that call TriggerFullRebuild/Incremental/ByIDs
    Docs,         \* primary keys of the source table
    BatchSize,    \* sync.batch_size
    Ticks,        \* how far update_time may advance between two row changes:
                  \* {1}: a new stamp for each change; 0 \in Ticks: stamps are
                  \* whole seconds
    FailuresShow, \* are failures noticed?  They are when documents carry _id
                  \* (engine.go:199), the answers to bulk requests can be read
                  \* (client.go:205, 223-231) and no error answer to GetAlias
                  \* is an object of objects (client.go:394-411)
    Requested,    \* the kinds of runs the callers ask for
    MaxIndex,     \* bound: physical indexes created
    MaxChanges,   \* bound: changes of source rows, the first contents included
    MaxFails,     \* bound: calls of Zinc, MySQL or SQLite that fail
    MaxCrashes,   \* bound: crashes of the middleware
    MaxWakes      \* bound: 24-hour delays that end

ASSUME DataAssumption == /\ IsFiniteSet(Docs)
                         /\ BatchSize \in Nat \ {0}
                         /\ Ticks \in SUBSET {0, 1}
                         /\ FailuresShow \in BOOLEAN
                         /\ Requested \subseteq {"full", "incremental", "by_ids"}
ASSUME BoundAssumption == /\ MaxIndex \in Nat
                          /\ MaxChanges \in Nat
                          /\ MaxFails \in Nat
                          /\ MaxCrashes \in Nat
                          /\ MaxWakes \in Nat

VARIABLES
    (* The source table, as sql_query shows it *)
    ver,          \* version of each row; 0: sql_query does not return the row
    stamp,        \* update_time of each row
    clock,        \* the latest update_time given
    changes,      \* number of changes so far; the version of the latest one
    late,         \* history: did the row's latest change get a stamp that the
                  \* cursor, or a run on its way to it, had reached?
    lost,         \* history: was an index that held the row as it is deleted?
    (* ZincSearch *)
    exist,        \* physical indexes that exist
    zdoc,         \* zdoc[i][d]: version of document d in index i; 0: absent
    alias,        \* the indexes behind the read alias
    created,      \* number of index names used (names carry a timestamp)
    (* metadata database *)
    writeIndex,   \* column index_configs.write_index; 0: ""
    failedMark,   \* does the column have the failed_ prefix?
    cursor,       \* sync_cursors.cursor_value; 0: no row
    (* memory of the middleware *)
    running,      \* Engine.running[indexName]
    pc,           \* where each caller is in runSync
    run,          \* the locals of each caller's runSync
    cleanup,      \* cleanup[i]: where cleanupOldIndexes(.., i) is
    toDelete,     \* toDelete[i]: the local of that goroutine
    (* bounded counters *)
    fails, crashes, wakes

sourceVars  == <<ver, stamp, clock, changes, late, lost>>
zincVars    == <<exist, zdoc, alias, created>>
metaVars    == <<writeIndex, failedMark, cursor>>
runVars     == <<running, pc, run>>
cleanupVars == <<cleanup, toDelete, wakes>>
vars == <<sourceVars, zincVars, metaVars, runVars, cleanupVars, fails, crashes>>

Index == 1..MaxIndex
Kinds == {"full", "incremental", "by_ids"}

RunPCs == {"idle", "open", "create", "record", "build", "bulk", "cursor",
           "gate", "getalias", "swap", "mark", "unlock"}
CleanupPCs == {"none", "sleep", "list", "delete"}

Nothing == [d \in Docs |-> 0]

(***************************************************************************)
(* The locals of runSync: its arguments, the write index, the versions the *)
(* builder read (0: not among result.Docs), the documents not sent yet,    *)
(* failedIDs, result.LastCursor, expectedCount, and the old indexes that   *)
(* SwitchAlias read.                                                       *)
(***************************************************************************)
Runs == [kind: Kinds, ids: SUBSET Docs, index: 0..MaxIndex, docs: [Docs -> Nat],
         todo: SUBSET Docs, failedIDs: SUBSET Docs, last: Nat,
         expected: Nat, old: SUBSET Index]

NewRun(k, I) == [kind |-> k, ids |-> I, index |-> 0, docs |-> Nothing,
                 todo |-> {}, failedIDs |-> {}, last |-> 0,
                 expected |-> 0, old |-> {}]

NoRun == NewRun("by_ids", {})

Init ==
    /\ ver \in [Docs -> {0, 1}]
    /\ stamp = ver
    /\ clock = 1 /\ changes = 1
    /\ late = [d \in Docs |-> FALSE] /\ lost = [d \in Docs |-> FALSE]
    /\ exist = {} /\ alias = {} /\ created = 0
    /\ zdoc = [i \in Index |-> Nothing]
    /\ writeIndex = 0 /\ failedMark = FALSE /\ cursor = 0
    /\ running = FALSE
    /\ pc = [c \in Callers |-> "idle"]
    /\ run = [c \in Callers |-> NoRun]
    /\ cleanup = [i \in Index |-> "none"]
    /\ toDelete = [i \in Index |-> {}]
    /\ fails = 0 /\ crashes = 0 /\ wakes = 0

-----------------------------------------------------------------------------
(* The source table, written by the business application. *)

(* The stamps up to s are the cursor's, or those of a run on its way to it. *)
Reached(s) ==
    s <= cursor \/ \E c \in Callers : pc[c] \in {"bulk", "cursor"} /\ s <= run[c].last

(* A row is inserted or updated: it gets a version and an update_time. *)
RowChange(d) ==
    /\ changes < MaxChanges
    /\ changes' = changes + 1
    /\ \E t \in Ticks :
          /\ clock' = clock + t
          /\ stamp' = [stamp EXCEPT ![d] = clock + t]
          /\ late' = [late EXCEPT ![d] = Reached(clock + t)]
    /\ ver' = [ver EXCEPT ![d] = changes + 1]
    /\ lost' = [lost EXCEPT ![d] = FALSE]
    /\ UNCHANGED <<zincVars, metaVars, runVars, cleanupVars, fails, crashes>>

(* A row is deleted, or no longer matches sql_query (soft delete). *)
RowGone(d) ==
    /\ changes < MaxChanges
    /\ ver[d] > 0
    /\ changes' = changes + 1
    /\ ver' = [ver EXCEPT ![d] = 0]
    /\ stamp' = [stamp EXCEPT ![d] = 0]
    /\ late' = [late EXCEPT ![d] = FALSE]
    /\ lost' = [lost EXCEPT ![d] = FALSE]
    /\ UNCHANGED <<clock, zincVars, metaVars, runVars, cleanupVars, fails, crashes>>

Selected == {d \in Docs : ver[d] > 0}

-----------------------------------------------------------------------------
(* One call of a remote system goes well, or uses up one failure. *)
Ok   == fails' = fails
Fail == fails < MaxFails /\ fails' = fails + 1

Goto(c, l) == pc' = [pc EXCEPT ![c] = l]

(***************************************************************************)
(* runSync.                                                                *)
(***************************************************************************)

(* Mutant: tryLock does not look at the lock. *)
TriggerUnlocked(c, k, I) ==
    /\ pc[c] = "idle"
    /\ running' = TRUE
    /\ run' = [run EXCEPT ![c] = NewRun(k, I)]
    /\ Goto(c, "open")
    /\ UNCHANGED <<sourceVars, zincVars, metaVars, cleanupVars, fails, crashes>>

(* Trigger* with the lock free.  With the lock taken, runSync only logs    *)
(* "skipped" and returns an error: a stuttering step here.                 *)
Trigger(c, k, I) ==
    /\ pc[c] = "idle"
    /\ ~running
    /\ running' = TRUE
    /\ run' = [run EXCEPT ![c] = NewRun(k, I)]
    /\ Goto(c, "open")
    /\ UNCHANGED <<sourceVars, zincVars, metaVars, cleanupVars, fails, crashes>>

(* GetWriteIndex: "" when there is none or it is marked as failed. *)
GetWriteIndex == IF failedMark THEN 0 ELSE writeIndex

(* Mutant: an empty write index is not noticed. *)
OpenIndexUnchecked(c) ==
    /\ pc[c] = "open"
    /\ Ok
    /\ \/ /\ run[c].kind # "full"
          /\ run' = [run EXCEPT ![c].index = GetWriteIndex]
          /\ Goto(c, "build")
       \/ /\ run[c].kind = "full"
          /\ UNCHANGED run
          /\ Goto(c, "create")
    /\ UNCHANGED <<running, sourceVars, zincVars, metaVars, cleanupVars, crashes>>

(* A full rebuild always creates; the others reuse the recorded index, and *)
(* create one if there is none or SQLite does not answer (manager.go:44).  *)
(* With no configuration or builder for the index the run ends at once.    *)
(* GetWriteIndex also takes a name from the column config, for rows of an  *)
(* older version that have it there only (55-62): no row written by this   *)
(* version does.                                                           *)
OpenIndex(c) ==
    /\ pc[c] = "open"
    /\ \/ /\ Ok
          /\ run[c].kind # "full" /\ GetWriteIndex # 0
          /\ run' = [run EXCEPT ![c].index = GetWriteIndex]
          /\ Goto(c, "build")
       \/ /\ \/ Ok /\ (run[c].kind = "full" \/ GetWriteIndex = 0)
             \/ Fail /\ run[c].kind # "full"
          /\ UNCHANGED run
          /\ Goto(c, "create")
       \/ /\ Fail
          /\ UNCHANGED run
          /\ Goto(c, "unlock")
    /\ UNCHANGED <<running, sourceVars, zincVars, metaVars, cleanupVars, crashes>>

(* CreateWriteIndex, first half: zinc.CreateIndex under a new name.  A     *)
(* failed call may still have created it.  With every name of the bound    *)
(* used, Zinc refuses.                                                     *)
CreateIndex(c) ==
    /\ pc[c] = "create"
    /\ \/ /\ created < MaxIndex
          /\ Ok
          /\ created' = created + 1
          /\ exist' = exist \cup {created + 1}
          /\ run' = [run EXCEPT ![c].index = created + 1]
          /\ Goto(c, "record")
       \/ /\ created < MaxIndex
          /\ Fail
          /\ created' = created + 1
          /\ exist' \in {exist, exist \cup {created + 1}}
          /\ UNCHANGED run
          /\ Goto(c, "unlock")
       \/ /\ created = MaxIndex
          /\ Ok
          /\ UNCHANGED <<created, exist, run>>
          /\ Goto(c, "unlock")
    /\ UNCHANGED <<running, sourceVars, zdoc, alias, metaVars, cleanupVars, crashes>>

(* CreateWriteIndex, second half: the metadata row names the new index,    *)
(* and is inserted if it is missing.  Its column version (manager.go:83)   *)
(* and the config of an inserted row (89) matter to ConfigStore.           *)
RecordWriteIndex(c) ==
    /\ pc[c] = "record"
    /\ \/ /\ Ok
          /\ writeIndex' = run[c].index
          /\ failedMark' = FALSE
          /\ Goto(c, "build")
       \/ /\ Fail
          /\ UNCHANGED <<writeIndex, failedMark>>
          /\ Goto(c, "unlock")
    /\ UNCHANGED <<running, run, cursor, sourceVars, zincVars, cleanupVars, crashes>>

(* The rows BuildFull, BuildIncremental (from a cursor) and BuildByIDs     *)
(* select.                                                                 *)
RowsOf(r, from) ==
    {d \in Selected : CASE r.kind = "full"        -> TRUE
                        [] r.kind = "incremental" -> stamp[d] > from
                        [] r.kind = "by_ids"      -> d \in r.ids}

(* LastCursor is the update_time of the row scanned last, and no query     *)
(* orders its rows.  Only an incremental run reads it.  It is rendered as  *)
(* the Unix time (builder.go:257-262), which loses nothing of a stamp in   *)
(* whole seconds.                                                          *)
LastCursors(r, from) ==
    IF r.kind = "incremental" /\ RowsOf(r, from) # {}
    THEN {stamp[d] : d \in RowsOf(r, from)}
    ELSE {0}

ReadRows(c, from) ==
    \E last \in LastCursors(run[c], from) :
        run' = [run EXCEPT ![c].docs = [d \in Docs |-> IF d \in RowsOf(run[c], from) THEN ver[d] ELSE 0],
                           ![c].todo = RowsOf(run[c], from),
                           ![c].last = last]

(* The builder reads the source.  An error ends the run, and leaves the    *)
(* write index recorded as it is.  A cursor that cannot be read counts as  *)
(* none: the run reads all rows (engine.go:279-281).                       *)
Build(c) ==
    /\ pc[c] = "build"
    /\ \/ /\ \/ Ok /\ ReadRows(c, cursor)
             \/ Fail /\ run[c].kind = "incremental" /\ ReadRows(c, 0)
          /\ Goto(c, "bulk")
       \/ /\ Fail
          /\ UNCHANGED run
          /\ Goto(c, "unlock")
    /\ UNCHANGED <<running, sourceVars, zincVars, metaVars, cleanupVars, crashes>>

(* The next batch: BatchSize documents, or what is left. *)
Batches(S) == {B \in SUBSET S : \/ Cardinality(B) = BatchSize
                                \/ B = S /\ Cardinality(B) < BatchSize}

Store(i, B, docs) ==
    /\ zdoc' = [zdoc EXCEPT ![i] = [d \in Docs |-> IF d \in B THEN docs[d] ELSE @[d]]]
    /\ exist' = exist \cup {i}

(* Mutant: a failed batch is logged but not counted. *)
BulkBatchForgetting(c) ==
    /\ pc[c] = "bulk"
    /\ run[c].todo # {}
    /\ \E B \in Batches(run[c].todo) :
          /\ \/ Ok /\ Store(run[c].index, B, run[c].docs)
             \/ Fail /\ \E A \in SUBSET B : Store(run[c].index, A, run[c].docs)
          /\ run' = [run EXCEPT ![c].todo = @ \ B]
    /\ UNCHANGED <<running, pc, alias, created, sourceVars, metaVars, cleanupVars, crashes>>

(* One zinc.Bulk, which creates a missing index.  A failed call may have   *)
(* stored any part of the batch; the loop goes on with the next batch, and *)
(* the failure is remembered if it shows.                                  *)
BulkBatch(c) ==
    /\ pc[c] = "bulk"
    /\ run[c].todo # {}
    /\ \E B \in Batches(run[c].todo) :
          \/ /\ Ok
             /\ Store(run[c].index, B, run[c].docs)
             /\ run' = [run EXCEPT ![c].todo = @ \ B]
          \/ /\ Fail
             /\ \E A \in SUBSET B : Store(run[c].index, A, run[c].docs)
             /\ run' = [run EXCEPT ![c].todo = @ \ B,
                                   ![c].failedIDs = IF FailuresShow THEN @ \cup B ELSE @]
    /\ UNCHANGED <<running, pc, alias, created, sourceVars, metaVars, cleanupVars, crashes>>

(* Mutant: a partial failure is only logged (the code before its P0 fix). *)
FinishBulkRegardless(c) ==
    /\ pc[c] = "bulk"
    /\ run[c].todo = {}
    /\ Goto(c, CASE run[c].kind = "full" -> "gate"
                 [] run[c].kind = "incremental" /\ run[c].last # 0 -> "cursor"
                 [] OTHER -> "unlock")
    /\ UNCHANGED <<running, run, sourceVars, zincVars, metaVars, cleanupVars, fails, crashes>>

(* After the last batch: a partial failure ends the run (a full one is     *)
(* marked); otherwise the cursor moves, the gate opens or the run ends.    *)
FinishBulk(c) ==
    /\ pc[c] = "bulk"
    /\ run[c].todo = {}
    /\ Goto(c, CASE run[c].kind = "full" /\ run[c].failedIDs # {} -> "mark"
                 [] run[c].kind = "full" /\ run[c].failedIDs = {} -> "gate"
                 [] run[c].kind = "incremental" /\ run[c].failedIDs = {} /\ run[c].last # 0 -> "cursor"
                 [] OTHER -> "unlock")
    /\ UNCHANGED <<running, run, sourceVars, zincVars, metaVars, cleanupVars, fails, crashes>>

(* updateCursor; an error of the INSERT OR REPLACE is ignored. *)
UpdateCursor(c) ==
    /\ pc[c] = "cursor"
    /\ \/ Ok /\ cursor' = run[c].last
       \/ Fail /\ UNCHANGED cursor
    /\ Goto(c, "unlock")
    /\ UNCHANGED <<running, run, writeIndex, failedMark, sourceVars, zincVars, cleanupVars, crashes>>

Size(r) == Cardinality({d \in Docs : r.docs[d] > 0})

(* count / expected >= 0.9, or nothing expected *)
Gate(count, expected) == expected = 0 \/ 10 * count >= 9 * expected

(* getExpectedCount, then the 90% gate.  An error counts as a failed gate. *)
CheckGate(c) ==
    /\ pc[c] = "gate"
    /\ \/ /\ Ok
          /\ run' = [run EXCEPT ![c].expected = Cardinality(Selected)]
          /\ Goto(c, IF Gate(Size(run[c]), Cardinality(Selected)) THEN "getalias" ELSE "mark")
       \/ /\ Fail
          /\ UNCHANGED run
          /\ Goto(c, "mark")
    /\ UNCHANGED <<running, sourceVars, zincVars, metaVars, cleanupVars, crashes>>

(* Mutant: an error of GetAlias counts as "no old index". *)
GetOldIndexesOrNone(c) ==
    /\ pc[c] = "getalias"
    /\ \/ Ok /\ run' = [run EXCEPT ![c].old = alias \ {run[c].index}]
       \/ Fail /\ run' = [run EXCEPT ![c].old = {}]
    /\ Goto(c, "swap")
    /\ UNCHANGED <<running, sourceVars, zincVars, metaVars, cleanupVars, crashes>>

(* SwitchAlias, first half: zinc.GetAlias; an error aborts the switch.  An *)
(* error answer that does not show as one names no index.                  *)
GetOldIndexes(c) ==
    /\ pc[c] = "getalias"
    /\ \/ /\ Ok
          /\ run' = [run EXCEPT ![c].old = alias \ {run[c].index}]
          /\ Goto(c, "swap")
       \/ /\ Fail /\ ~FailuresShow
          /\ run' = [run EXCEPT ![c].old = {}]
          /\ Goto(c, "swap")
       \/ /\ Fail
          /\ UNCHANGED run
          /\ Goto(c, "unlock")
    /\ UNCHANGED <<running, sourceVars, zincVars, metaVars, cleanupVars, crashes>>

(* The alias after one _aliases request: the old out, the new one in. *)
Swapped(r) == (alias \ r.old) \cup {r.index}

(* Mutant: a failed switch marks the index as failed. *)
SwapAliasMarking(c) ==
    /\ pc[c] = "swap"
    /\ \/ /\ Ok
          /\ alias' = Swapped(run[c])
          /\ cleanup' = [cleanup EXCEPT ![run[c].index] = "sleep"]
          /\ Goto(c, "unlock")
       \/ /\ Fail
          /\ alias' \in {alias, Swapped(run[c])}
          /\ UNCHANGED cleanup
          /\ Goto(c, "mark")
    /\ UNCHANGED <<running, run, exist, zdoc, created, toDelete, wakes, sourceVars, metaVars, crashes>>

(* SwitchAlias, second half: zinc.AliasSwap, then `go cleanupOldIndexes`.  *)
(* A request that fails for the client may have been applied.              *)
SwapAlias(c) ==
    /\ pc[c] = "swap"
    /\ \/ /\ Ok
          /\ alias' = Swapped(run[c])
          /\ cleanup' = [cleanup EXCEPT ![run[c].index] = "sleep"]
       \/ /\ Fail
          /\ alias' \in {alias, Swapped(run[c])}
          /\ UNCHANGED cleanup
    /\ Goto(c, "unlock")
    /\ UNCHANGED <<running, run, exist, zdoc, created, toDelete, wakes, sourceVars, metaVars, crashes>>

(* Mutant: a return that keeps the lock. *)
MarkFailedLocked(c) ==
    /\ pc[c] = "mark"
    /\ Ok
    /\ writeIndex' = run[c].index
    /\ failedMark' = TRUE
    /\ Goto(c, "idle")
    /\ UNCHANGED <<running, run, cursor, sourceVars, zincVars, cleanupVars, crashes>>

(* MarkWriteIndexFailed; an error of the UPDATE is ignored. *)
MarkFailed(c) ==
    /\ pc[c] = "mark"
    /\ \/ /\ Ok
          /\ writeIndex' = run[c].index
          /\ failedMark' = TRUE
       \/ Fail /\ UNCHANGED <<writeIndex, failedMark>>
    /\ Goto(c, "unlock")
    /\ UNCHANGED <<running, run, cursor, sourceVars, zincVars, cleanupVars, crashes>>

(* The deferred unlock of every return. *)
Unlock(c) ==
    /\ pc[c] = "unlock"
    /\ running' = FALSE
    /\ Goto(c, "idle")
    /\ run' = [run EXCEPT ![c] = NoRun]
    /\ UNCHANGED <<sourceVars, zincVars, metaVars, cleanupVars, fails, crashes>>

RunStep(c) ==
    \/ OpenIndex(c) \/ CreateIndex(c) \/ RecordWriteIndex(c)
    \/ Build(c) \/ BulkBatch(c) \/ FinishBulk(c) \/ UpdateCursor(c)
    \/ CheckGate(c) \/ GetOldIndexes(c) \/ SwapAlias(c)
    \/ MarkFailed(c) \/ Unlock(c)

-----------------------------------------------------------------------------
(* cleanupOldIndexes(.., i), the goroutine a switch to index i starts. *)

(* The sleep ends; the goroutine gives up unless i is the write index, or  *)
(* if that cannot be read.                                                 *)
CleanupCheck(i) ==
    /\ cleanup[i] = "sleep"
    /\ wakes < MaxWakes
    /\ wakes' = wakes + 1
    /\ \/ Ok /\ cleanup' = [cleanup EXCEPT ![i] = IF GetWriteIndex = i THEN "list" ELSE "none"]
       \/ Fail /\ cleanup' = [cleanup EXCEPT ![i] = "none"]
    /\ UNCHANGED <<toDelete, sourceVars, zincVars, metaVars, runVars, crashes>>

(* zinc.GetAlias: every index behind the alias, except i, is to go. *)
CleanupList(i) ==
    /\ cleanup[i] = "list"
    /\ \/ /\ Ok
          /\ toDelete' = [toDelete EXCEPT ![i] = alias \ {i}]
          /\ cleanup' = [cleanup EXCEPT ![i] = "delete"]
       \/ /\ Fail
          /\ UNCHANGED toDelete
          /\ cleanup' = [cleanup EXCEPT ![i] = "none"]
    /\ UNCHANGED <<wakes, sourceVars, zincVars, metaVars, runVars, crashes>>

(* zinc.DeleteIndex(j); an error is ignored. *)
CleanupDelete(i) ==
    /\ cleanup[i] = "delete"
    /\ \E j \in toDelete[i] :
          /\ toDelete' = [toDelete EXCEPT ![i] = @ \ {j}]
          /\ \/ /\ Ok
                /\ exist' = exist \ {j}
                /\ alias' = alias \ {j}
                /\ zdoc' = [zdoc EXCEPT ![j] = Nothing]
                /\ lost' = [d \in Docs |-> lost[d] \/ (ver[d] > 0 /\ zdoc[j][d] = ver[d])]
             \/ /\ Fail
                /\ UNCHANGED <<exist, alias, zdoc, lost>>
    /\ UNCHANGED <<cleanup, wakes, created, ver, stamp, clock, changes, late, metaVars, runVars, crashes>>

CleanupDone(i) ==
    /\ cleanup[i] = "delete"
    /\ toDelete[i] = {}
    /\ cleanup' = [cleanup EXCEPT ![i] = "none"]
    /\ UNCHANGED <<toDelete, wakes, sourceVars, zincVars, metaVars, runVars, fails, crashes>>

CleanupStep(i) ==
    CleanupCheck(i) \/ CleanupList(i) \/ CleanupDelete(i) \/ CleanupDone(i)

(* The configuration of the index is taken away and put back by two        *)
(* reloads between two runs: its row in the metadata database is deleted   *)
(* and created anew, without a write index (server.go:496-507).            *)
RecordLost ==
    /\ ~running
    /\ writeIndex' = 0 /\ failedMark' = FALSE
    /\ UNCHANGED <<cursor, sourceVars, zincVars, runVars, cleanupVars, fails, crashes>>

(* The process dies and starts again: runs, locks and cleanups are gone. *)
Crash ==
    /\ crashes < MaxCrashes
    /\ crashes' = crashes + 1
    /\ running' = FALSE
    /\ pc' = [c \in Callers |-> "idle"]
    /\ run' = [c \in Callers |-> NoRun]
    /\ cleanup' = [i \in Index |-> "none"]
    /\ toDelete' = [i \in Index |-> {}]
    /\ UNCHANGED <<wakes, sourceVars, zincVars, metaVars, fails>>

-----------------------------------------------------------------------------
(* by_ids carries the ids, the others nothing. *)
IdSets(k) == IF k = "by_ids" THEN (SUBSET Docs) \ {{}} ELSE {{}}

Source == \E d \in Docs : RowChange(d) \/ RowGone(d)

Next ==
    \/ Source
    \/ \E c \in Callers :
          \/ \E k \in Requested : \E I \in IdSets(k) : Trigger(c, k, I)
          \/ RunStep(c)
    \/ \E i \in Index : CleanupStep(i)
    \/ RecordLost
    \/ Crash

Spec == Init /\ [][Next]_vars

(***************************************************************************)
(* Every remote call of a run has a timeout (30 s in the Zinc client, 30   *)
(* minutes for the build), so a started run goes on to its next step.      *)
(***************************************************************************)
FairSpec == Spec /\ \A c \in Callers : WF_vars(RunStep(c))

(***************************************************************************)
(* The scheduler's incremental job fires periodically, and again after a   *)
(* restart.  A firing that finds the lock taken is skipped; runs are short *)
(* against the period, so firings that find it free do not stop: strong    *)
(* fairness.                                                               *)
(***************************************************************************)
ScheduledSpec ==
    FairSpec /\ SF_vars(\E c \in Callers : Trigger(c, "incremental", {}))

-----------------------------------------------------------------------------
SourceOK == /\ ver \in [Docs -> Nat] /\ stamp \in [Docs -> Nat]
            /\ clock \in Nat /\ changes \in Nat
            /\ late \in [Docs -> BOOLEAN] /\ lost \in [Docs -> BOOLEAN]
ZincOK == /\ exist \subseteq Index /\ alias \subseteq Index
          /\ created \in 0..MaxIndex
          /\ zdoc \in [Index -> [Docs -> Nat]]
MetaOK == writeIndex \in 0..MaxIndex /\ failedMark \in BOOLEAN /\ cursor \in Nat
RunsOK == running \in BOOLEAN /\ pc \in [Callers -> RunPCs] /\ run \in [Callers -> Runs]
CleanupOK == /\ cleanup \in [Index -> CleanupPCs]
             /\ toDelete \in [Index -> SUBSET Index]
             /\ wakes \in 0..MaxWakes
CountersOK == fails \in 0..MaxFails /\ crashes \in 0..MaxCrashes

(* Every variable has its type. *)
TypeOK == SourceOK /\ ZincOK /\ MetaOK /\ RunsOK /\ CleanupOK /\ CountersOK

-----------------------------------------------------------------------------
(* Safety. *)

(* At most one run of the index is under way, and the lock is taken for    *)
(* exactly as long: tryLock and unlock, which every return of runSync      *)
(* reaches by its defer (engine.go:108-112, 359-373).                      *)
OneRunAtATime ==
    /\ \A c1, c2 \in Callers : pc[c1] # "idle" /\ pc[c2] # "idle" => c1 = c2
    /\ running <=> \E c \in Callers : pc[c] # "idle"

(* Readers of the alias never see two generations of the index at once     *)
(* (manager.go:105-109: "removeMap would be empty, old and new index side  *)
(* by side, results doubled").                                             *)
OneLiveIndex == \A i, j \in alias : i = j

(* An index marked as failed is not behind the alias (engine.go:211-217:   *)
(* a bad index must not go live).                                          *)
FailedIndexNotLive == failedMark => writeIndex \notin alias

(* Every row at or before the cursor is stored as it is in some index: the *)
(* cursor never moves past a row that was not delivered, whatever fails    *)
(* (engine.go:211-217, 230-232).  Excepted are a row that changed at a     *)
(* stamp the cursor, or a run on its way to it, had reached (the strict    *)
(* comparison of builder.go:145), and one whose index a cleanup deleted.   *)
CursorNeverSkips ==
    \A d \in Docs : (ver[d] > 0 /\ stamp[d] <= cursor /\ ~late[d])
                       => lost[d] \/ \E i \in Index : zdoc[i][d] = ver[d]

(* An index goes live only at the end of a full rebuild, when it holds     *)
(* exactly the rows that rebuild read, all of them stored, and at least    *)
(* 90% of the rows the source had at the gate (engine.go:188-265).         *)
PublishedComplete ==
    \A i \in alias' \ alias :
        \E c \in Callers :
            /\ pc[c] = "swap" /\ run[c].kind = "full" /\ run[c].index = i
            /\ zdoc[i] = run[c].docs
            /\ Gate(Size(run[c]), run[c].expected)

OnlyCompleteGoesLive == [][PublishedComplete]_vars

(* The live index is never taken away from the readers: a switch replaces  *)
(* it in one request, and the delayed cleanup spares it (manager.go:131).  *)
LiveIndexStays == [][alias # {} => alias' # {}]_vars

(* A cleanup that got through its check leaves no older index behind: "the *)
(* old index is cleaned up after 24h" (README.md:76), which the code does  *)
(* not do: the superseded index left the alias that line 146 of manager.go *)
(* searches with the switch that started the cleanup (113-123).            *)
SupersededGo == [][\A i \in Index : CleanupDone(i) => \A j \in exist : j >= i]_vars

-----------------------------------------------------------------------------
(* Liveness. *)

(* Every run ends and gives its lock back, whatever fails on its way: the  *)
(* index is never locked for good (engine.go:112, the deferred unlock).    *)
LockComesBack == running ~> ~running

(* The bound on index names is reached and no index can be written to any  *)
(* more: an end of the model, not of the system.                           *)
NoNameLeft == created = MaxIndex /\ GetWriteIndex = 0 /\ ~running

(* A change of a row is stored in some index sooner or later, through any  *)
(* number of failed batches, failed calls and crashes: a failed run leaves *)
(* the cursor where it was, and the next one reads the rows again          *)
(* (engine.go:211-217).  What CursorNeverSkips excepts is excepted here.   *)
ChangesDelivered ==
    \A d \in Docs :
        ver[d] > 0 ~> \/ NoNameLeft \/ late[d] \/ lost[d]
                      \/ \E i \in Index : zdoc[i][d] >= ver[d]

-----------------------------------------------------------------------------
(* The readers' view of the alias, an AliasService: the version of each    *)
(* document in the index behind it.                                        *)
Seen == [d \in Docs |-> IF alias = {} THEN 0 ELSE zdoc[CHOOSE i \in alias : TRUE][d]]

Alias == INSTANCE AliasService WITH live <- alias, seen <- Seen

(* Readers never see two generations, nor go back to an older one, nor to  *)
(* an older version of a document, whatever runs, fails or crashes.        *)
AliasServed == Alias!Spec
=============================================================================

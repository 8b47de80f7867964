# Verification of searchmiddleware

searchmiddleware keeps full-text indexes in ZincSearch in step with tables of a
MySQL database and answers searches on them.  This directory holds TLA+ models
of its parts, the TLC runs that check them on small instances, and theorems
about them that TLAPS checks for instances of every size.  Source paths below
are relative to `src/internal/` unless they start with `src/`.

## 1. The system

| Part | State it keeps | Operations | Talks to |
|---|---|---|---|
| sync engine, `sync/engine.go` | `running` (one lock per index), locals of each run | `TriggerFullRebuild`, `TriggerIncremental`, `TriggerByIDs` -> `runSync`; `retryFailedBatches`; `SetIndexCfgs` | builder, lifecycle, Zinc, metadata |
| index lifecycle, `lifecycle/manager.go` | none of its own: `index_configs.write_index`, the read alias in Zinc, sleeping cleanups | `CreateWriteIndex`, `GetWriteIndex`, `SwitchAlias`, `cleanupOldIndexes`, `MarkWriteIndexFailed` | Zinc, metadata |
| document builder, `indexer/builder.go` | none | `BuildFull`, `BuildIncremental`, `BuildByIDs`: rows to documents, `LastCursor` | MySQL |
| reconciliation, `sync/reconcile.go` | rows of `reconcile_results` | `ReconcileCount`, `ReconcileIDs` (enumeration by id prefix), `FixReconcile` | Zinc, MySQL, engine |
| scheduler, `scheduler/scheduler.go` | rows of `schedules`, cron entries, `entryIDs` | `Start`, `Add/Remove/ToggleSchedule`, `run` | engine, metadata |
| Zinc client, `zinc/client.go` | per cluster: round-robin position, health of nodes | `getHealthyURL`, `markUnhealthy`, health loop, one method per Zinc request | Zinc |
| index configuration, `config/config.go`, `config/watcher.go`, `api/server.go` | files `config/indexes/*.yaml`, rows of `index_configs`, maps in memory (API, engine, lifecycle) | create, update, delete handlers; `reloadIndexConfigs`; file watcher | all of the above |
| rate limiter, `api/ratelimit.go` | window start and count per client | `allow` | - |
| synonyms, `api/server.go` | rows, a map in memory, a file and its `.tmp` for Zinc | create, update, delete, sync and export handlers | Zinc, metadata |
| users and tokens, `auth/jwt.go`, `api/server.go` | rows of `users`; tokens clients hold | login, `adminOnly`, create and delete handlers, `user:create` | metadata |
| search metrics, `api/metrics.go` | counters and a histogram since the start | `observe`, `/metrics` | - |
| query builder, `query/builder.go` | none | request to Zinc query, response to answer | - |
| metadata database, `metadata/models.go` | SQLite tables | through GORM | - |

Who calls whom: handlers, cron jobs and `go TriggerByIDs` (notify) call the
engine from goroutines of their own; the engine calls MySQL, Zinc and SQLite
one request after the other, each of which may fail, and may fail for the
caller after it took effect.  A successful switch starts a goroutine that
sleeps for 24 hours.  Locks, runs, cleanups and cron entries are lost when the
process ends; Zinc, MySQL, SQLite and the files stay.

What is hard: two callers of one index; a rebuild against the delayed cleanup
of an earlier one; partial failures of bulk requests; a crash between two
requests; the cursor against the clock of the rows; handlers that change files,
tables and memory one after the other without a common lock.

What makes each part correct:

- engine and lifecycle: one run per index at a time; the readers of the alias
  always see one complete generation, never an incomplete, failed or older one;
  every change of a row is delivered in the end; locks come back.
- reconciliation: the difference of two snapshots is used later to delete and
  rebuild; what it deletes must have no row.
- scheduler: an enabled schedule has one cron entry, a disabled or deleted one
  has none, whatever handlers do at the same time.
- configuration store: files are the only truth; memory, table and files agree
  when nothing is under way, and what was saved can be loaded again.
- Zinc client: a request goes to a node that answers, in turn; nobody waits for
  good; the health on display settles.
- rate limiter: at most `qps` requests in a window; metrics count each search once.
- users: whoever holds an admin's token is an admin to this day.
- synonyms: table, map, file and Zinc agree when nothing is under way, and the
  file is a whole dictionary at any time.
- pure functions: converted columns fit the mapping, combined queries select the
  rows they should, search requests become well-formed Zinc queries, the
  enumeration by prefix lists every id in reach.

`PROJECT.json` lists every hazard found in the code, each with its line and the
properties about it.

## 2. Modules

| Module | What it is |
|---|---|
| `SyncEngine` | one logical index: `runSync`, the lifecycle manager, the source rows, the alias and indexes of Zinc, the rows of `index_configs` and `sync_cursors`, crashes |
| `AliasService` | the abstract promise to the readers of the alias |
| `SyncEngineInv` | the inductive invariants of `SyncEngine`, and what is proved from them besides the properties of the runs |
| `SyncEngineProofs` | theorems about `SyncEngine` and their proofs |
| `Scheduler` | the schedules of one index: table, cron runner, `entryIDs`, and the handlers that change them |
| `SchedulerProofs` | theorems about `Scheduler` and their proofs |
| `ConfigStore` | files, rows and maps of the index configurations under handlers, watcher, crash and start |
| `ConfigStoreProofs` | theorems about `ConfigStore` and their proofs |
| `Reconcile` | comparison, stored difference and later fix, among runs and row changes |
| `ReconcileProofs` | theorems about `Reconcile` and their proofs |
| `ZincCluster` | which node a request goes to, health of nodes as it is displayed, mutexes |
| `ZincClusterProofs` | theorems about `ZincCluster` and their proofs |
| `Gateway` | tokens, limiter, metrics, and the handlers of users |
| `GatewayProofs` | theorems about `Gateway` and their proofs |
| `Synonyms` | table, map, dictionary file and Zinc under concurrent requests |
| `SynonymsProofs` | theorems about `Synonyms` and their proofs |
| `Documents` | pure: field lists, conversion of columns, keys, combined queries, mapping |
| `QueryBuilder` | pure: a search request becomes a Zinc query; pages; aggregations |
| `PrefixBuckets` | pure: the enumeration of ids by prefix, a recursive function |
| `Algorithms` | applies each pure function to one input of a bounded set |
| `AlgorithmsProofs` | what the pure functions promise of every input |
| `MC...` | `MCSyncEngine`, `MCScheduler`, `MCConfigStore`, ...: symmetry and constant values for TLC |

`SyncEngine` composes engine, lifecycle manager and builder with Zinc, MySQL and
the metadata they share.  `Scheduler` and `Reconcile` use of the engine only what
it promises: a trigger that may find the lock taken, and a run that reads rows
and writes them later.  `ConfigStore` composes handlers, watcher, files, table
and start; `Gateway` what every request passes before its handler.

The parts meet in one place, the rows of `index_configs`.  `SyncEngine` has the
column `write_index`, `ConfigStore` the column `config`; each has the one thing
the other does to its column.  `CreateWriteIndex` inserts a row that is missing
with the name of the physical index as its `config` (`manager.go:86-91`): the
action `CreateWriteIndex` of `ConfigStore`.  A reload deletes the row of a
configuration that is gone and creates it anew without a write index
(`server.go:496-507`): the action `RecordLost` of `SyncEngine`, between two runs.
The column `version` is written by both (`server.go:494`, `manager.go:83`), each
with a text of its own, and nothing acts on it: no module has it.

### SyncEngine

One logical index is enough: engine and lifecycle keep a lock, a metadata row,
a cursor, an alias and a set of physical indexes per name and never mix names.

| Variable | Code |
|---|---|
| `ver`, `stamp`, `clock` | rows as `sql_query` returns them, and their `update_time`; a version stands for a row's contents |
| `exist`, `zdoc`, `alias` | Zinc: physical indexes, the documents in them, the indexes behind the read alias |
| `writeIndex`, `failedMark` | `index_configs.write_index` without and with the prefix `failed_` |
| `cursor` | `sync_cursors.cursor_value` |
| `running` | `Engine.running[name]` |
| `pc`, `run` | where each caller is in `runSync`, and its locals |
| `cleanup`, `toDelete` | the goroutine `cleanupOldIndexes` of each switched index |

Physical indexes are numbered in the order of their creation: their names end
in a millisecond timestamp (`manager.go:72`).  `late` and `lost` are history:
rows whose latest change got a stamp that the cursor, or a run on its way to
it, had reached, and rows whose index was deleted.

An action is the stretch of `runSync` up to and including one remote call.
A run goes

    Trigger, OpenIndex, [CreateIndex, RecordWriteIndex,] Build, BulkBatch*, FinishBulk,
      full:         CheckGate, GetOldIndexes, SwapAlias   (or MarkFailed), Unlock
      incremental:  UpdateCursor, Unlock
      by_ids:       Unlock

and every error path of the code goes where its `return` goes, to `Unlock` (the
deferred `unlock`).  A failed `Bulk`, `CreateIndex` or `AliasSwap` may have
taken effect, wholly or (Bulk) for any part of the batch.  `Crash` clears what
is in memory; one way to it is in the code: an error answer to `GetAlias` that
is a JSON object of strings panics (`client.go:403`), which in a handler runs
only the deferred `unlock` and in a cron job ends the process.  `Trigger` while
the lock is taken only writes a log row and is a stuttering step.  A row read
by the builder is a snapshot (`run[c].docs`): it may change or disappear while
the run goes on.

Left out of `SyncEngine`: log, run and alert rows; `Refresh`, whose error is
only logged; the counts compared after an incremental run, which only raise an
alert; the index mapping; the name of a write index in the column `config`, where
only rows of an older version have it (`manager.go:55-62`).

Three things make the code take a failure for success, and they are one constant.
With `FailuresShow` documents carry `_id` (failed ones are counted by it,
`engine.go:199`), the answer to a bulk request can be read (a 200 whose body
cannot be parsed, or with errors and no status of an item, passes:
`client.go:205`, `223-231`), and an error answer to `GetAlias` is not an object of
objects (which would pass for an alias, `client.go:394-411`).  Without it the
documents of a failed batch are not counted and a failed `GetAlias` may name no
index.  Types, mutual exclusion, `FailedIndexNotLive`, `NeverOlder` and
`EndsAreNearer` hold either way; the rest needs it, the theorems say so, and the
runs are with it.

### AliasService

`live` is the set of indexes behind the alias, `seen` the version readers find
there of each document (0: none).  `Publish` replaces the live index by one newer
index, in one step, which may lack documents but has none in an older version;
`Deliver` adds documents to the live index or makes them newer; `Withdraw` leaves
the readers without an index.  `Withdraw` is there because the delayed cleanup
can delete the live index (run `engine_cleanup`).  `SyncEngine` implements it with
`live <- alias` and `seen <- Seen`, the contents of the index behind the alias:
readers see one generation at most, never an older one after a newer one, and a
document never goes back to an older version of its row, although a run stores
what it read some time before and rows change meanwhile.

### Scheduler

| Variable | Code |
|---|---|
| `state`, `spec`, `lastId` | rows of `schedules`: absent, off or on; `cron_expr` and `type`; the last id SQLite gave |
| `entries`, `lastEntry` | `Scheduler.cron`: entries that fire, each with the row it was made from; the last `EntryID` |
| `entryIDs` | `Scheduler.entryIDs`, the only part with a lock (`mu`) |
| `pc`, `req` | where each HTTP handler is, and its locals |

`Create`, `Change`, `Toggle` and `Delete` begin a request; then each access to
SQLite, the map or the runner is a step:

    create:  Create,                      Unmap, Remove, Add, Map
    update:  Change, UpdateRow, First, Enable, Unmap, Remove [, Add, Map]
    toggle:  Toggle,            First, Enable, Unmap, Remove [, Add, Map]
    delete:  Delete, Find, Drop,               Unmap, Remove

`Unmap` and `Remove` are `unregister`, with `Add` and `Map` they are
`register`.  `Restart` ends the process at any point and starts it again:
`ensureDefaults` creates the default schedules if it counts no row,
`loadSchedules` registers the enabled ones.  Nobody looks at the errors of
their SQLite calls (`scheduler.go:50`, `55-66`, `72`), so each may fail: a
`Count` counts as none, a `Find` as no row.  A request whose cron expression is
not valid is answered before it changes anything, so `AddFunc` never fails here
(stored expressions were parsed with the same rules).  `mixed` is history: the
schedules whose own requests overlapped or failed half way since the start, and
the enabled rows which that start did not read.  The properties about entries
except those schedules, and only those, so requests about other schedules may
do what they like.  Left out: a row created under an id the client chose, `run`
(it calls the trigger that `SyncEngine` models), `last_run` and `next_run`,
which only the console reads.  `SyncEngine` uses of the scheduler only what
`ScheduledSpec` assumes: the incremental trigger keeps firing.

### ConfigStore

| Variable | Code |
|---|---|
| `file`, `tmp` | `<name>.yaml` and `<name>.yaml.tmp`; `Empty` is the placeholder of `AcquireIndexCreateLock` |
| `events` | what fsnotify has to tell the watcher |
| `row` | the column `config` of `index_configs`; `IndexName` is what `CreateWriteIndex` puts there |
| `memory` | `Server.indexCfgs`, and what `SetIndexCfgs` derives from it in engine and lifecycle manager |
| `up` | whether the process runs |
| `pc`, `job` | each handler and the watcher: where it is, and its locals |
| `mixed` | history: names two requests worked on at a time |
| `newest`, `read`, `freshRows`, `freshMemory` | history: the goroutine that read the files last, whether it could, and what was last written by it |

    create:   Create, Save, Rename,   Load, StoreRow*, FindRows, DeleteRow*, SetIndexCfgs
              (failed: Release)
    update:           Save, Rename,   Load, StoreRow*, FindRows, DeleteRow*, SetIndexCfgs
    delete:           Remove,         Load, StoreRow*, FindRows, DeleteRow*, SetIndexCfgs
    watcher:          Notice,         Load, StoreRow*, FindRows, DeleteRow*, SetIndexCfgs

Each access to SQLite may fail, and the reload goes on as if it had not
(`server.go:492-505`); so may `Save`, `Rename`, `Remove` and `Load`, whose errors
are answered.  Two reloads write row by row beside each other.
`Edit` changes a file by hand, `Crash` ends the process anywhere, `Start` loads
the files and is impossible while one of them cannot be loaded (`log.Fatalf`);
`Repair` is the operator who then takes it away.  A text is reduced to
what the two validations look at: `SaveIndexConfig` sets the name before it
validates, `LoadIndexConfig` does not.

### Reconcile

| Variable | Code |
|---|---|
| `rows`, `idx` | ids that `sql_query` returns, ids behind the read alias |
| `recorded` | `index_configs.write_index`: the index behind the alias, another one, or none |
| `running` | `Engine.running[name]` |
| `records` | rows of `reconcile_results`, with history: rows inserted since (`reborn`), age of the rows compared |
| `pc`, `job` | each worker: where it is, and its locals |
| `age` | history: how often rows changed, or an older read was written over them |

    run:        Sync, Read, Write
    comparison: StartReconcile, Scroll*, Query
    fix:        Fix, Rebuild [, Read, Write], ResolveAlias, DeleteDoc*, MarkFixed

Runs write to the recorded index (`engine.go:124-147`), and readers see what they
write only if the alias names it: after a rebuild that failed before its switch
it does not, until the next rebuild.  A fix that wrote elsewhere is not `ok`.

A switch between `ResolveAlias` and `DeleteDoc` makes a fix `past`: its
deletions reach the index that was replaced.  `Scroll` enumerates one part of
the ids after the other, so an index that changes meanwhile is seen partly
before and partly after; `Query` then reads the rows and stores the difference.
Contents of documents do not matter here, only ids.

### ZincCluster

| Variable | Code |
|---|---|
| `alive` | nodes that answer a ping |
| `mu` | `Cluster.mu`: who holds it; it is held over pings |
| `next`, `health` | `Cluster.Index`, `Cluster.Health` |
| `loop` | where `healthCheckLoop` of each cluster is |
| `pc`, `job` | each caller: where it is in `doRequest`, and its locals |
| `stayed`, `last` | history: nodes up since the search began; the node chosen last |

    request: Request, Acquire, Search*, Send [, MarkUnhealthy* over all clusters]
    loop:    Tick, LoopPing*

`Send` covers the methods by the answers after which they call `markUnhealthy`.
That adds an entry to every cluster, also to those without the node
(`client.go:424-426`); what an answer means to its caller is part of `SyncEngine`.

### Gateway

| Variable | Code |
|---|---|
| `now` | the clock; limiter, token expiry and latencies use it |
| `qps`, `last`, `counts` | `rateLimiter` |
| `total`, `errors5xx`, `errors429`, `bucketCnt` | `searchMetrics` |
| `users`, `lastUser` | rows of `users`: role by id; ids are never given again |
| `tokens` | every token ever signed, with its claims and expiry |
| `pc`, `job` | each handler: a search under way, a login between password and signature, a deletion between `First` and `Delete` |
| `grants`, `searches` | history: passes of the limiter per address, and searches |

`Login` and `Sign`, `Search` and `Answer`, `FindUser` and `DeleteUser` are the
two halves of handlers that do something in between; `CreateUser`, `Other` and
`TooMany` are one step each.  `CreateUserCmd` is the command `user:create`, a
process of its own on the same table.

### Synonyms

| Variable | Code |
|---|---|
| `table`, `lastId` | rows of `synonyms` |
| `memory` | `Server.synonyms` |
| `file`, `tmp`, `content` | the names `cfg.Synonyms` and `.tmp`, and the inodes behind them |
| `zinc` | the dictionary Zinc has loaded |
| `pc`, `job` | each handler: where it is, and its locals |
| `trust`, `shared` | history: copies whose last writer was neither crossed nor failed; whether two exports met at `.tmp` |

    create, update, delete:  Create | Update | Delete, Load, Assign, Export, Open, Write, Rename, Reload
    sync:                    Sync,                                   Export, Open, Write, Rename, Reload

A file is an inode because a handler writes on to the one it opened, wherever
its name has been moved: that is how two exports spoil each other's file.

### Pure functions

`Documents` has the order of the field lists (the first list that names a
column wins), the conversion of each Go type a column arrives in, the text of
`_id` and the text reconciliation compares it with, and `combineQueries`.
`QueryBuilder` has clauses, paging in an int of at most `MaxInt`, and
`normalizeAggs`.  `PrefixBuckets` follows `scrollAllIDs` with its page size and
result window.  Behind each stands what it must satisfy, defined without it
(`ValuesFitMapping`, `CombinedQueryFaithful`, `QueryWellFormed`, `PagesTile`,
`EveryIdInReachIsListed`).

## 3. Runs

| Run | Question | Bounds |
|---|---|---|
| `engine_safety` | one run at a time, one live generation, failed indexes stay hidden, rebuilds hold what they read, only complete ones go live; refinement of `AliasService` | 2 callers, full and by_ids runs, 2 rows, 3 indexes, 1 row change, 1 failure, 1 crash, 1 cleanup |
| `engine_delivery` | the cursor skips nothing undelivered; every run gives its lock back; every change is delivered in the end | 1 caller, full and incremental runs, 2 rows, 2 indexes, whole-second stamps, 1 row change, 1 failure, 1 crash, 1 cleanup |
| `engine_cleanup` | violated: the live index is never taken away | 2 indexes, 1 cleanup, no failure |
| `engine_old_indexes` | violated: a cleanup leaves no older index behind | 2 indexes, 2 rebuilds, 1 cleanup, no failure |
| `scheduler` | the runner fires exactly the enabled rows, each once and as its row says; an entry of the map is an entry of its own schedule | 2 handlers, 4 rows, 3 requests, 1 failure, also in a start, 1 restart |
| `config_store` | files, table and memory agree when quiet; placeholders go; a create replaces nothing | 2 names, 2 handlers, 2 texts, 2 requests or edits, at most 1 edit, 2 failures or crashes |
| `config_reload` | violated: what was saved can be loaded | 2 names, 2 handlers, 2 texts, 2 requests |
| `reconcile` | a fix deletes only what has no row; undisturbed, with the recorded index behind the alias, it repairs | 2 indexes, 2 ids, 2 workers, 2 row changes, 2 runs, 2 fixes, 1 failure |
| `zinc_cluster` | a node that is up is found, in turn; requests end; the health on display settles | clusters of 2 nodes and of 1 of them, 2 callers, 1 node changes, 1 failure |
| `gateway` | metrics add up; at most 2 * qps pass within a window's length; claims are current | 1 address, 2 handlers, window 2, token 3 ticks, qps 0 or 1, 5 ticks, 5 requests, 2 users, 1 restart |
| `synonyms` | the copies agree; the file is whole | 2 words, 1 list (and a bad and an empty one), 2 handlers, 2 rows, 3 requests, 1 failure, 1 crash |
| `algorithms` | every pure function against what it must satisfy, keys included | ints of 8 bits, at most 10 hits a page, up to 3 ids of up to 3 characters, a result window of 3 |

The bounds are small and enough for the questions.  In `SyncEngine` two callers
make every race for a lock, two rows in batches of one make a partial failure,
two indexes make a switch and a rebuild that runs into the cleanup of the
first, the third one more rebuild after a failed one; `engine_safety` has
by_ids runs in place of incremental ones, because some ids name any rows an
incremental run could read, and it differs only in the cursor, which
`engine_delivery` is about; `engine_delivery` has one caller, because runs of
one index never overlap (theorem `MutualExclusion`) and a trigger that finds
the lock taken changes nothing; a change during a run makes its snapshot stale.
(`MaxChanges` counts the initial contents of the table as the first change.)
When all names of the bound are used, `CreateIndex` fails as if Zinc refused.
In `Scheduler` the process begins with the two default rows and their entries;
two rows more are what a client creates, or the defaults of a restart; two
requests overlap, and the third finds what they left.  A start that gets its
rows heals what a failed one or overlapping requests spoiled.  In `ConfigStore`
the texts are one that can be loaded and one without a query that someone may
write by hand; two requests, or one and an edit, make handlers and watcher
reload at once.  Two valid texts at a time are too many states for TLC; that
copies follow an update rests on the theorem `CopiesAgree`, which is for any
texts.  In `Reconcile` two ids separate what is stale from what is not, two
indexes a record of another index, and two runs are a comparison and what
disturbs it.  In `ZincCluster` the node that both clusters name is pinged under
two mutexes.  In `Gateway` five ticks are three windows and the expiry of a
token, and with `qps` 1 the second and third of three passes of an address may
lie in adjacent windows, as close as the property allows.  Larger limits, and
several addresses, rest on the theorem `WindowBounded`, which is for any of
them.  In `Synonyms` three requests are two that cross and one that heals.  In
`Algorithms` a bucket of the enumeration overflows with its third id, pages are
read with one id each, and ints up to 127 let `(page - 1) * size` wrap around.

Deadlock is checked where a caller can always act again (engine, cluster).
`CHECK_DEADLOCK FALSE` stands where only the bounds on requests or inputs end a
behaviour: `Scheduler`, `ConfigStore`, `Reconcile`, `Gateway`, `Synonyms`,
`Algorithms`.  Callers, documents, handlers, names and ids are symmetric in the
runs of safety properties; runs of liveness properties use no symmetry.

### Fairness

- `FairSpec` of `SyncEngine`: weak fairness of the steps of each run.  Each
  remote call of a run has a timeout (30 s in the Zinc client, `client.go:41`, 30
  minutes for the build, `engine.go:153`), so a run always takes its next step.
- `ScheduledSpec` adds strong fairness of the incremental trigger.  The default
  schedule fires it every five seconds (`scheduler.go:58`) and registers it
  again after a restart.  A firing that finds the lock taken is dropped, not
  queued: weak fairness would promise nothing, because other runs take the lock
  again and again.  Strong fairness says that of the infinitely many firings
  one finds the lock free.
- `ZincCluster`: strong fairness of each caller's steps and of each health
  loop's.  A ping ends in 3 s and a request in 30 s, the ticker of the loop fires
  every 10 s, and a Go mutex hands itself to a waiter that has waited for a
  millisecond, so nobody is passed over for good; strong, because the mutex is
  free again and again and not free all the time.
- Source, cleanups, requests, crashes, failures and nodes that change have no
  fairness; they are bounded.

## 4. What the violations show, and known limits

1. `engine_cleanup` - `cleanupOldIndexes` checks that its index is still the
   write index (`manager.go:136`), then asks for the alias.  A rebuild that starts
   and switches in between is what it then finds behind the alias, and deletes.
   Nothing else takes the live index away: `OnlyOvertakenEmpty` proves it.
2. `engine_old_indexes` - a rebuild is to leave its predecessor for 24 hours and
   then delete it (`src/README.md:76`, `src/doc/02-decisions-grilling.md:104`, the
   comment `manager.go:145`).  The switch takes the predecessor out of the alias
   (`manager.go:113-123`), and the cleanup looks for old indexes behind the alias
   (`manager.go:146`): it finds its own and nothing else.  `OldIndexesPileUp`
   proves that no cleanup ever deletes an index older than its own; a restart
   within the 24 hours loses the goroutine besides.
3. `config_reload` - `SaveIndexConfig` sets `index.name` before it validates
   (`config.go:338`) and writes the text as it came; `LoadIndexConfig` validates
   the text as it is (`config.go:267-272`).  A text without a name is accepted, the
   reload after it fails, and so does the next start.  `OnlyNamesAreMissing`
   proves that, up to a crash or an edit by hand, this is the only way.

Known limits, which the properties above are stated around.  Where a property
excepts one of them, its comment in the module says so.

- The incremental query is `update_time > cursor` with stamps of whole seconds
  (`builder.go:145`): a change in a second the cursor has reached is skipped by
  incremental runs until the row changes again or the index is rebuilt.  The run
  has such changes; `CursorNeverSkips` and `ChangesDelivered` except the rows they
  happen to (`late`) and those whose index a cleanup deleted (`lost`), and show that
  nothing else is skipped.
- After a failed rebuild `GetWriteIndex` answers "none" and an incremental run
  creates an index no alias names (`engine.go:137`): readers of the old index miss
  its changes until the next rebuild.  `ChangesDelivered` says *some* index.  If the
  failed rebuild left its index recorded without a mark (an error of the build, or
  of the switch), incremental runs and fixes write there: a fix then calls its
  record fixed while readers still miss the documents.  `FixRepairs` excepts it.
- The configuration of an index that is taken away and put back during a run
  loses its `write_index` in the middle of that run (`server.go:496-507`); the model
  has it between runs only.
- Failed documents are counted by their `_id` (`engine.go:199`).  Where the first
  column of `sql_query` is qualified (`m.id`) documents have none and a failed
  batch goes unnoticed; likewise a bulk answer that cannot be read
  (`client.go:205`, `223-231`).  An error answer to `GetAlias` that is an object of
  objects passes for an alias (`client.go:394-411`): the old index then stays behind
  the alias beside the new one.  Hence `FailuresShow` in the theorems.
- The `_id` of a document is `fmt.Sprintf("%v")` of a converted value
  (`builder.go:278`), while reconciliation scans the same column into a string
  and expects the key as text (`reconcile.go:213`).  A key that arrives as bytes in
  a column no list names (a text or DECIMAL key) stays `[]byte`: the key 12 gets the
  `_id` `[49 50]`, every row is called missing and every document stale.  `KeysFit`
  excepts it, and keys in array or float columns.
- `retryFailedBatches` selects by a text that saved rows do not contain
  (`engine.go:342`), so it retries nothing; the next incremental run does.
- Two requests that enable one schedule at the same time leave an entry that
  fires and is in no map, until a restart (`scheduler.go:89`); likewise a row whose
  `ToggleSchedule` failed after its update (`server.go:742`).  A restart heals both
  only if it reads the table: if its `Find` fails nothing fires for the enabled rows
  (`scheduler.go:72`), and if its `Count` fails the default rows are added once more
  (`scheduler.go:50`) and everything they trigger fires twice.  Neither is reported.
- A reload that read the files before another and writes after it leaves rows and
  memory as the files were (`server.go:482-510`), until the next reload; so does a
  row SQLite refuses (`server.go:492-505`).  `Agreement` speaks of what the reload
  that read last wrote last.
- Requests about one name that cross are excepted (`mixed`): two saves share
  `<name>.yaml.tmp` (`config.go:385`), and a create that fails removes the file
  whatever is in it by then (`server.go:403`).
- A node that was marked down in a cluster it does not belong to is displayed
  there as down for good (`client.go:424-426`, `439`): no loop pings it there.
  `HealthSettles` says so.
- A crash between placeholder and rename leaves an empty file, with which the
  process does not start (`config.go:352`).
- A fix deletes by an old record: documents whose rows came back since are
  deleted until the next run (`reconcile.go:135`).  It also calls the record fixed
  when the lock was taken or a call failed (`reconcile.go:125`, `157`).
- Two exports at once share one `.tmp` (`server.go:819`): Zinc may load a part of
  a dictionary.  The error of `Find` is not looked at (`server.go:801`), so a
  failed read empties all copies until the next request.  Of two rows of one
  word the map keeps the later, the file both (`server.go:127`), and an update
  does not check the word.
- A page far beyond the end wraps around to a negative `from`
  (`query/builder.go:80`); `handleSearch` answers with the limit it was asked for,
  not the one it used (`server.go:316`).
- Ids with capitals or other characters are not listed when their bucket is
  larger than the result window (`reconcile.go:222`).
- An array column arrives as bytes and becomes a list of byte codes
  (`builder.go:381`).
- The maps of the limiter and of keywords never shrink (`ratelimit.go:17`,
  `metrics.go:23`).

## 5. What is proved

`SyncEngineProofs` proves, for every finite set of rows, any callers, batch
size and bounds (`DataAssumption`, `BoundAssumption`):

| Theorem | Statement |
|---|---|
| `TypeCorrect` | `Spec => [](TypeOK /\ NamesInOrder)` |
| `MutualExclusion` | `Spec => []OneRunAtATime` |
| `Invariance` | `Spec => []IndInv` |
| `SingleGeneration` | `FailuresShow => (Spec => []OneLiveIndex)` |
| `FailedStaysHidden` | `Spec => []FailedIndexNotLive` |
| `RebuildsTracked` | `FailuresShow => (Spec => []ContentsInv)` |
| `CompleteGoesLive` | `FailuresShow => (Spec => OnlyCompleteGoesLive)` |
| `ImplementsAliasService` | `FailuresShow => (Spec => AliasServed)` |
| `CursorKeepsUp` | `FailuresShow => (Spec => []CursorNeverSkips)` |
| `CleanupsStayBehind` | `FailuresShow => (Spec => []CleanupsAreOlder)` |
| `OnlyOvertakenEmpty` | `FailuresShow => (Spec => [][EmptiedByOvertaken]_vars)` |
| `OldIndexesPileUp` | `FailuresShow => (Spec => [][OnlyNewerDeleted]_vars)` |
| `NothingGetsOlder` | `Spec => []NeverOlder` |
| `RunsAreShort` | `Spec => [][EndsAreNearer]_vars` |

The argument.  `OneLiveIndex` alone is not inductive: a swap may remove too
little if the alias changed since `GetOldIndexes`, or if the two were done by
different runs.  `IndInv` adds what the code relies on: one run at a time (from
the lock alone), the index of a rebuild is newer than anything behind the alias
or on a cleanup's list (`RebuildIsNewest`), the metadata names it without a
mark while the rebuild lasts (`RebuildIsRecorded`), and between `GetAlias` and
the swap nothing enters the alias (`SwapIsTotal`; a cleanup may only take
something out).  The last two hold when failures show, since a `GetAlias` whose
error passes for an answer leaves the old index in place: `LiveInv` is
`FailuresShow => OneLiveIndex`.  `FailedIndexNotLive` follows because a mark is
put on an index only before it could go live, and `CreateWriteIndex` clears it.

`ContentsInv` follows the documents of a rebuild: before the batches nothing,
then all but what is to be sent or failed, at the gate exactly what was read.
It needs `FailuresShow`.  The crash needs no special case: it
leaves Zinc and the metadata as they are and no caller under way, so everything
`IndInv` says about callers is void.

`CursorNeverSkips` follows a change from the row to an index (`Delivery`,
the invariant `Delivered`).  A run stores what it read earlier, so what it stores
may no longer be the row as it is; but such a row has changed since the read, and
its stamp is beyond the cursor and beyond the `LastCursor` of the run, or the change
came `late` (`Carries`): no cursor vouches for it.  An incremental run read every
row up to its `LastCursor` that did not come late and was not behind the cursor
already (`HasRead`), and everything it read is stored before the cursor moves,
unless the index was deleted since (`HasStored`), because a failed document ends the
run first.  Stamps may be whole seconds and cleanups may delete: `late` and `lost`
are all that is excepted, and each is needed, as TLC shows when one is dropped.

`ImplementsAliasService` has two halves.  That `live` moves as it should is
`IndInv`.  That `seen` never goes back rests on `NeverOlder`: the versions of a
row ascend, no index holds a version its row has not had (`NotAhead`), and what a
run carries, read some time ago, is still at least as new as what any index holds
(`CarriesNewest`).  The last is the lock again: whoever else could have read
something newer would have had to run meanwhile.  A rebuild stores into an index
that holds only what it read itself (`RebuildIsOwn`), so a swap shows each
document as the rebuild read it or not at all.  `NeverOlder` needs neither
`FailuresShow` nor stamps that differ: it is about order, not about completeness.

`RunsAreShort` is the half of `LockComesBack` that needs no fairness.  `StepsLeft`
bounds the steps a run has left by its place in `runSync` and the documents still
to be sent, at most `|Docs| + 9`; every step of the run lowers it, and nobody else's
raises it, a crash ending the run at once.  That each batch takes at
least one document, so that the bulk loop cannot spin, is the lemma `BatchesMove`.

`CleanupsAreOlder` says where the delayed cleanups stand: each belongs to an
index no newer than what readers see and older than a rebuild under way, so
what it lists besides its own index is newer.  Hence `OnlyOvertakenEmpty` and
`OldIndexesPileUp`, the exact extent of findings 1 and 2.

`GatewayProofs` proves, for any addresses, handlers, users and requests, any
window, limit and time to live (`GatewayBounds`; `FiniteHandlers` and
`LimitsAscend` for the counters: the bounds in `metrics.go:27` ascend):

| Theorem | Statement |
|---|---|
| `TypeCorrect` | `Spec => []TypeOK` |
| `ClaimsCurrent` | `Spec => []ClaimsAreCurrent` |
| `WindowBounded` | `Spec => []WindowBound` |
| `ScrapesAddUp` | `Spec => []MetricsAddUp` |

`ClaimsAreCurrent` is strengthened to `AccountsInv`: a login between password
and signature carries a role its user still has, if it is admin, and whoever is
about to be deleted is no admin.  Both hold because no handler changes a role,
ids are never given again, and `handleDeleteUser` refuses admins.

`WindowBound` rests on `WindowInv`: each pass belongs to the window that was
current, the starts of different windows are `Window` apart, the current window
has counted each of its passes.  So of `qps + 1` passes two are in different
windows, and of `2 * qps + 1` the first and the last have a window between them.

`MetricsAddUp` is inductive with the types: a search raises `searches` and the
handlers that search, the deferred `observe` moves one from those to `total`, and
a search that fits in a bucket fits in all later ones.

`SchedulerProofs` proves, for any handlers, rows, requests, failures and
restarts (`SpecsAssumption`, `BoundAssumption`):

| Theorem | Statement |
|---|---|
| `TypeCorrect` | `Spec => []TypeOK` |
| `MapSound` | `Spec => []MapIsSound` |
| `OneEntry` | `Spec => []OneEntryEach` |
| `RunnerMatches` | `Spec => []RunnerMatchesTable` |

`MapIsSound` is strengthened to `MapInv`: an `EntryID` is in the map, or with one
handler that took it out to remove it, or with one that added it and will map
it, never two of these, whatever overlaps.  So `cron.Remove` never hits the entry
of another schedule.  The other two rest on `RowsInv`: a schedule that is not
`mixed` has at most one handler at work; at rest its entry is mapped and as its
row says (`Mapped`, `Served`); on the way `Progress` says what the handler at each
point knows of row, map and runner.  A step about one schedule leaves all others
alone, which for `Remove` is `MapInv` again.  A start makes everything anew from
the rows it read; the enabled ones it did not read are `mixed` from then on.

`ReconcileProofs` proves, for any indexes, ids, workers and bounds
(`ReconcileBounds`):

| Theorem | Statement |
|---|---|
| `Invariant` | `Spec => []IInv` |
| `TypeCorrect` | `Spec => []TypeOK` |
| `FixesDeleteOnlyRowless` | `Spec => DeletesOnlyRowless` |
| `FixesRepair` | `Spec => FixRepairs` |

Neither property is about one step: a fix acts on a record that another worker
wrote from an enumeration and a read done at different times.  `IInv` ties them
together by `age`.  A comparison, a record and a fix remember the age of their
index; while the index has that age, what they hold is true of it (`Knows`,
`RecordOK`: what is missing has a row, what is extra has none, whatever differs
is listed).  Every step either makes an index older or moves its ids towards
its rows (`Settles`), and either way what others know stays true.  Whatever the
age, an id in a record that has a row now is in `reborn`; that alone gives
`DeletesOnlyRowless`, and the age gives `FixRepairs`, as long as what the fix
writes goes to the index behind the alias (`recorded`): its `ok` is
withdrawn at a write that does not.

`ConfigStoreProofs` proves, for any names, handlers, texts and bounds
(`ContentsAssumption`, `WatcherAssumption`, `StoreBounds`):

| Theorem | Statement |
|---|---|
| `Invariant` | `Spec => []IInv` |
| `TypeCorrect` | `Spec => []TypeOK` |
| `CopiesAgree` | `Spec => []Agreement` |
| `PlaceholdersGo` | `Spec => []PlaceholderGone` |
| `CreatesNeverReplace` | `Spec => CreateNeverReplaces` |
| `OnlyNamesAreMissing` | what is not loadable when quiet, before a crash or an edit, is a text without a name |

`Agreement` speaks of quiet states only.  `IInv` says what is true before: any
change of a file leaves an event or a handler that will load (`Pending`), and
with none to come the last reload, however far it is, has read the files as they
are and written what it vouches for (`Current`).  A placeholder belongs to its
handler as long as the name is not `mixed` (`HasPlaceholder`), and every placeholder
has a create under way that will replace or release it (`Owned`).

`ZincClusterProofs` proves, for any clusters, lists of nodes and callers
(`URLsAssumption`, `NamesAssumption`, `ClusterBounds`):

| Theorem | Statement |
|---|---|
| `Invariant` | `Spec => []IInv` |
| `TypeCorrect` | `Spec => []TypeOK` |
| `NodesAreFound` | `Spec => []FindsNode` |
| `NodesInTurn` | `Spec => InTurn` |
| `MutexesComeBack` | `Spec => [][HandedBack]_vars` |

Whoever pings has the mutex (`Holds`), so nobody else moves `Index` during a
search: the nodes tried are the first from there on, and each was down when it
was tried (`Tried`).  That `Len(URLs[c])` steps modulo the length meet every node
is a lemma of its own; with it a search that gives up has tried all.  `Begins`
carries the node chosen last to the next search, which makes `InTurn` a fact
about two searches.  `MutexesComeBack` is the half of `RequestEnds` and `HealthSettles`
that needs no fairness: who holds a mutex is at a ping, never waiting for another
mutex, and each ping lowers `PingsLeft`, which is at most the number of nodes.

`SynonymsProofs` proves, for any finite set of handlers, any words, lists and
bounds (`HandlersAssumption`, `SynonymBounds`):

| Theorem | Statement |
|---|---|
| `Invariant` | `Spec => []IInv` |
| `TypeCorrect` | `Spec => []TypeOK` |
| `CopiesFollow` | `Spec => []CopiesAgree` |
| `DictionaryWhole` | `Spec => []FileIsWhole` |

Requests that meet each know it (`Meets`).  One that met none and saw nothing
fail works on a table nobody changes, so what it has read, written and moved so
far is the table (`MapOK`, `FileOK`), and what it leaves behind may be trusted.
Without a meeting at `.tmp` at most one export has an inode there: cut while it
writes, whole when it is moved (`WholeOK`).  That `Open` always finds a free inode
is a count (the lemma `Fresh`), and needs handlers to be finite.

`AlgorithmsProofs` proves what the pure functions promise, for any `MaxInt`, page
sizes, characters and indexes (`QueryNumbers`, `BucketSizes`, `IndexSizes`: the
sizes are natural numbers, a page has room for an id, and a bucket that is not
split fits the window):

| Theorem | Statement |
|---|---|
| `ColumnsAsMapped` | `Spec => []ColumnsFit` |
| `QueriesCombined` | `Spec => []QueriesCombine` |
| `SearchesWellFormed` | `Spec => []SearchesFit` |
| `PagesWithoutGaps` | `Spec => []PagesFit` |
| `IdsInReachListed` | `Spec => []IdsListed` |
| `KeysHaveOneText` | `Spec => []KeysFit` |

A behaviour of `Algorithms` is a single step; the lemmas carry the weight, and
they speak of more than the inputs a run enumerates: any declaration of a
column, base queries with any alternatives, any synonyms, any keys of an
aggregation, any page and limit.

`IdsInReachListed` is about a recursion, `collectBucket`, which calls itself for
each longer prefix.  The provers cannot use the library's induction theorems, so
the proof does without: the equation of the recursive function has exactly one
solution.  `ReachedBelow` is its closed form: the ids behind a prefix whose next
character is tried wherever their bucket is split.  If the function differed from
it somewhere, it would at a longest prefix (prefixes longer than every id agree:
there is nothing behind them), and there the equation, whose longer prefixes all
agree, gives the contradiction (`BucketStep`, `BucketsList`).
`PagesHoldAll` says that reading a bucket page by page reads all of it.

Only model-checked: liveness (`LockComesBack`, `ChangesDelivered`, `RequestEnds`,
`HealthSettles`), which the provers do not reach under fairness.  Of the first and
the third the measures above are proved, so what is left to fairness is that
whoever can step does.

Each property of a passing run has a mutant in `PROJECT.json`: a change of one
definition, kept next to it in the module and marked `Mutant`, that breaks it.

## 6. Not modelled, and what could follow

- Logging and the web console: output, and a client of the API.
- The programs under `src/cmd/` other than the server: manual probes against an
  installation.
- Text: `forceLimit` and `handleSQLTest` (SQL), `validIndexName`, the parsing of
  the first column's name, `X-Forwarded-For`, the text of `/metrics`.
- The application's own configuration and data sources: read once at the start.
- `ParseResponse`, sorting and highlighting: the layout of answers.
- `ReconcileCount`, and the rows of runs, logs and alerts: written, never acted on.
- `ScrollSearch`, `ClearScroll`, the scheduler's `Reload`: nothing calls them.
- `buildAttrRows`: joined rows add fields to documents and change no id.
- The `.bak` copies of configurations: nothing reads them.
- Keyword counts of the metrics.  JWT signatures and bcrypt are library calls.

Next: every safety property of a passing run is stated by a theorem.  What could
follow are properties not yet stated, above all which documents readers miss
after a failed rebuild (`engine.go:137`), and a model of two logical indexes that
share one Zinc cluster.

------------------------------ MODULE Reconcile ------------------------------
(***************************************************************************)
(* Reconciliation (internal/sync/reconcile.go): the ids in an index are    *)
(* compared with the ids of the rows, the difference is stored, and later, *)
(* on request, repaired: what is missing is built again, what has no row   *)
(* is deleted.  In between rows change, runs go on and rebuilds replace    *)
(* the index.                                                              *)
(*                                                                         *)
(* SyncEngine models the runs; here a run reads rows under the lock of its *)
(* index and writes them in a second step.  Contents of documents do not   *)
(* matter, ids do.  ReconcileCount stores two numbers nothing acts upon.   *)
(* What a run writes to is the index that is recorded for the next writes, *)
(* and that need not be the one behind the alias: a rebuild records its    *)
(* index before it is known to be good.                                    *)
(***************************************************************************)
EXTENDS Naturals, Sequences

CONSTANTS
    Indexes,     \* logical indexes
    Docs,        \* ids
    Workers,     \* goroutines: handlers, cron jobs, `go ReconcileIDs`
    MaxChanges,  \* bound: rows inserted or deleted
    MaxRuns,     \* bound: runs and comparisons that are started
    MaxFixes,    \* bound: fixes
    MaxFails     \* bound: calls that fail

ASSUME ReconcileBounds == /\ MaxChanges \in Nat /\ MaxRuns \in Nat
                          /\ MaxFixes \in Nat /\ MaxFails \in Nat

VARIABLES
    rows,      \* rows[i]: ids sql_query returns
    idx,       \* idx[i]: ids in the index behind the read alias
    recorded,  \* recorded[i]: the index that index_configs.write_index names:
               \* the one behind the alias, another, or none (no name, a failed mark)
    running,   \* running[i]: the lock of the index
    records,   \* reconcile_results of type id, by their primary key
    pc, job,   \* each worker: where it is, and its locals
    (* history *)
    age,       \* age[i]: how often rows changed, or were written from an old read
    changes, runs, fixes, fails

counts == <<changes, runs, fixes, fails>>
vars == <<rows, idx, recorded, running, records, pc, job, age, counts>>

PCs == {"idle", "read", "write", "scroll", "query", "fix", "deletes", "done"}

(* Locals: of a run, what it is and the ids it read; of a comparison, the  *)
(* ids still to enumerate and those found; of a fix, its record.           *)
(* History: the age at the first read, and whether the fix has done what   *)
(* it is for: no call of it failed, and what it built is where readers     *)
(* look.                                                                   *)
(* A fix is "past" once the index it resolved the alias to was replaced:   *)
(* DeleteDoc goes to the physical index, which no reader sees any more.    *)
Jobs == [kind: {"none", "full", "incremental", "fix", "past", "reconcile"}, index: Indexes \cup {"none"},
         ids: SUBSET Docs, todo: SUBSET Docs, rec: Nat, age: Nat, ok: BOOLEAN]

NoJob == [kind |-> "none", index |-> "none", ids |-> {}, todo |-> {}, rec |-> 0, age |-> 0, ok |-> TRUE]

(* reborn: the rows inserted after the comparison read the rows. *)
Records == [index: Indexes, missing: SUBSET Docs, extra: SUBSET Docs,
            reborn: SUBSET Docs, age: Nat, status: {"ok", "fixed"}]

Init ==
    /\ rows \in [Indexes -> SUBSET Docs]
    /\ idx = rows
    /\ recorded = [i \in Indexes |-> "live"]
    /\ running = [i \in Indexes |-> FALSE]
    /\ records = <<>>
    /\ pc = [w \in Workers |-> "idle"]
    /\ job = [w \in Workers |-> NoJob]
    /\ age = [i \in Indexes |-> 0]
    /\ changes = 0 /\ runs = 0 /\ fixes = 0 /\ fails = 0

-----------------------------------------------------------------------------
Goto(w, l)  == pc' = [pc EXCEPT ![w] = l]
Finish(w)   == Goto(w, "idle") /\ job' = [job EXCEPT ![w] = NoJob]
Begin(w, j) == pc[w] = "idle" /\ job' = [job EXCEPT ![w] = j]

Ok   == fails' = fails
Fail == fails < MaxFails /\ fails' = fails + 1

Lock(i)   == running' = [running EXCEPT ![i] = TRUE]
Unlock(i) == running' = [running EXCEPT ![i] = FALSE]

(* The source table: a row appears, or goes. *)
Insert(i, d) ==
    /\ changes < MaxChanges /\ d \notin rows[i]
    /\ changes' = changes + 1
    /\ rows' = [rows EXCEPT ![i] = @ \cup {d}]
    /\ records' = [k \in DOMAIN records |->
                     IF records[k].index = i THEN [records[k] EXCEPT !.reborn = @ \cup {d}] ELSE records[k]]
    /\ age' = [age EXCEPT ![i] = @ + 1]
    /\ UNCHANGED <<idx, recorded, running, pc, job, runs, fixes, fails>>

Delete(i, d) ==
    /\ changes < MaxChanges /\ d \in rows[i]
    /\ changes' = changes + 1
    /\ rows' = [rows EXCEPT ![i] = @ \ {d}]
    /\ age' = [age EXCEPT ![i] = @ + 1]
    /\ UNCHANGED <<idx, recorded, running, records, pc, job, runs, fixes, fails>>

-----------------------------------------------------------------------------
(* Runs, reduced to what they do to the ids of the index. *)

Sync(w, i, kind) ==
    /\ runs < MaxRuns /\ ~running[i]
    /\ runs' = runs + 1
    /\ Begin(w, [NoJob EXCEPT !.kind = kind, !.index = i])
    /\ Lock(i)
    /\ Goto(w, "read")
    /\ UNCHANGED <<rows, idx, recorded, records, age, changes, fixes, fails>>

(* CreateWriteIndex records the index it creates: for every rebuild, and   *)
(* for another run if none is recorded.                                    *)
Opened(w) ==
    LET i == job[w].index IN
    IF job[w].kind = "full" \/ recorded[i] = "none" THEN [recorded EXCEPT ![i] = "other"] ELSE recorded

(* The index to write to, and the builder.  If GetWriteIndex cannot read   *)
(* the row it says that there is none, and a run that is no rebuild goes   *)
(* on with a new index.  Which rows an incremental run selects is left     *)
(* open.                                                                   *)
Read(w) ==
    /\ pc[w] = "read"
    /\ \/ Ok /\ recorded' = Opened(w)
       \/ Fail /\ job[w].kind # "full" /\ recorded' = [recorded EXCEPT ![job[w].index] = "other"]
    /\ LET j == job[w]
           Selections == CASE j.kind = "full" -> {rows[j.index]}
                           [] j.kind = "incremental" -> SUBSET rows[j.index]
                           [] j.kind = "fix" -> {rows[j.index] \cap records[j.rec].missing}
       IN \E S \in Selections :
             job' = [job EXCEPT ![w].ids = S,
                                ![w].age = IF j.kind = "fix" THEN @ ELSE age[j.index]]
    /\ Goto(w, "write")
    /\ UNCHANGED <<rows, idx, running, records, age, changes, runs, fixes>>

(* The index is not created, or not recorded, or the build fails: the run  *)
(* ends; a fix goes on.                                                    *)
Abort(w) ==
    /\ pc[w] = "read" /\ Fail
    /\ recorded' \in {recorded, Opened(w)}
    /\ Unlock(job[w].index)
    /\ IF job[w].kind = "fix"
       THEN Goto(w, "deletes") /\ job' = [job EXCEPT ![w].ok = FALSE]
       ELSE Finish(w)
    /\ UNCHANGED <<rows, idx, records, age, changes, runs, fixes>>

(* The age of the index after a write of what worker w read. *)
Aged(w) == [age EXCEPT ![job[w].index] = IF @ = job[w].age THEN @ ELSE @ + 1]

(* The switch of the alias to an index with the ids of worker w.           *)
Switched(w) == [idx EXCEPT ![job[w].index] = job[w].ids]

(* Bulk of a run that is no rebuild, which readers see only if the alias   *)
(* names the recorded index (engine.go:137).                               *)
Stored(i, S) == IF recorded[i] = "live" THEN [idx EXCEPT ![i] = @ \cup S] ELSE idx

(* Bulk, and for a rebuild the switch of the alias, which may have been    *)
(* made although it failed; the others may have stored any part.  Where    *)
(* the rebuild ends before the switch its index may be marked as failed.   *)
(* After a rebuild its goroutine compares the ids; a fix goes on.          *)
Write(w) ==
    /\ pc[w] = "write"
    /\ LET i     == job[w].index
           full  == job[w].kind = "full"
           After == [v \in Workers |->
                       IF full /\ v # w /\ pc[v] = "done" /\ job[v].index = i
                       THEN [job[v] EXCEPT !.kind = "past"] ELSE job[v]]
           Compare == [NoJob EXCEPT !.kind = "reconcile", !.index = i, !.todo = Docs, !.age = Aged(w)[i]]
       IN
       /\ \/ /\ Ok /\ full
             /\ idx' = Switched(w) /\ recorded' = [recorded EXCEPT ![i] = "live"]
             /\ job' = [After EXCEPT ![w] = Compare] /\ Goto(w, "scroll")
          \/ /\ Ok /\ ~full
             /\ idx' = Stored(i, job[w].ids) /\ UNCHANGED recorded
             /\ IF job[w].kind = "fix"
                THEN Goto(w, "deletes") /\ job' = [job EXCEPT ![w].ok = @ /\ recorded[i] = "live"]
                ELSE Finish(w)
          \/ /\ Fail /\ full
             /\ idx' = Switched(w) /\ recorded' = [recorded EXCEPT ![i] = "live"]
             /\ job' = [After EXCEPT ![w] = NoJob] /\ Goto(w, "idle")
          \/ /\ Fail /\ full
             /\ UNCHANGED idx /\ recorded' \in {recorded, [recorded EXCEPT ![i] = "none"]}
             /\ Finish(w)
          \/ /\ Fail /\ ~full
             /\ \E S \in SUBSET job[w].ids : idx' = Stored(i, S)
             /\ UNCHANGED recorded
             /\ IF job[w].kind = "fix"
                THEN Goto(w, "deletes") /\ job' = [job EXCEPT ![w].ok = FALSE]
                ELSE Finish(w)
       /\ Unlock(i)
       /\ age' = Aged(w)
    /\ UNCHANGED <<rows, records, changes, runs, fixes>>

-----------------------------------------------------------------------------
(* ReconcileIDs, from the API; Write starts it after a rebuild. *)
StartReconcile(w, i) ==
    /\ runs < MaxRuns
    /\ runs' = runs + 1
    /\ Begin(w, [NoJob EXCEPT !.kind = "reconcile", !.index = i, !.todo = Docs, !.age = age[i]])
    /\ Goto(w, "scroll")
    /\ UNCHANGED <<rows, idx, recorded, running, records, age, changes, fixes, fails>>

(* scrollAllIDs: bucket after bucket (here id after id), from the index    *)
(* that is behind the alias at that moment.  An error ends it.             *)
Scroll(w) ==
    /\ pc[w] = "scroll"
    /\ IF job[w].todo = {}
       THEN Goto(w, "query") /\ UNCHANGED <<job, fails>>
       ELSE \/ /\ Ok
               /\ \E d \in job[w].todo :
                     job' = [job EXCEPT ![w].todo = @ \ {d},
                                        ![w].ids = IF d \in idx[job[w].index] THEN @ \cup {d} ELSE @]
               /\ UNCHANGED pc
            \/ Fail /\ Finish(w)
    /\ UNCHANGED <<rows, idx, recorded, running, records, age, changes, runs, fixes>>

(* Mutant: the differences are taken the wrong way round. *)
ComparedReversed(i, ids, dbIDs, a) ==
    [index |-> i, missing |-> ids \ dbIDs, extra |-> dbIDs \ ids,
     reborn |-> {}, age |-> a, status |-> "ok"]

(* diff, both ways, and saveReconcile. *)
Compared(i, ids, dbIDs, a) ==
    [index |-> i, missing |-> dbIDs \ ids, extra |-> ids \ dbIDs,
     reborn |-> {}, age |-> a, status |-> "ok"]

(* queryAllIDs, and the result is stored.  An error of the SELECT or of    *)
(* the INSERT leaves no result.                                            *)
Query(w) ==
    /\ pc[w] = "query"
    /\ \/ /\ Ok
          /\ records' = Append(records, Compared(job[w].index, job[w].ids, rows[job[w].index], job[w].age))
       \/ Fail /\ UNCHANGED records
    /\ Finish(w)
    /\ UNCHANGED <<rows, idx, recorded, running, age, changes, runs, fixes>>

-----------------------------------------------------------------------------
(* Mutant: the record may belong to another index. *)
MayFixAny(k, i) == TRUE

(* FixReconcile refuses the record of another index. *)
MayFix(k, i) == records[k].index = i

(* handleFixReconcile: nothing asks whether the record is fixed already.   *)
Fix(w, k, i) ==
    /\ fixes < MaxFixes /\ MayFix(k, i)
    /\ fixes' = fixes + 1
    /\ Begin(w, [NoJob EXCEPT !.kind = "fix", !.index = i, !.rec = k, !.age = records[k].age])
    /\ Goto(w, IF records[k].missing = {} THEN "deletes" ELSE "fix")
    /\ UNCHANGED <<rows, idx, recorded, running, records, age, changes, runs, fails>>

(* Mutant: the fix does not take the lock. *)
RebuildUnlocked(w) ==
    /\ pc[w] = "fix"
    /\ Goto(w, "read")
    /\ UNCHANGED <<rows, idx, recorded, running, records, job, age, counts>>

(* TriggerByIDs of the missing ids; with the lock taken it returns an      *)
(* error, which is only logged.                                            *)
Rebuild(w) ==
    /\ pc[w] = "fix"
    /\ IF running[job[w].index]
       THEN /\ job' = [job EXCEPT ![w].ok = FALSE]
            /\ Goto(w, "deletes")
            /\ UNCHANGED running
       ELSE /\ Lock(job[w].index)
            /\ Goto(w, "read")
            /\ UNCHANGED job
    /\ UNCHANGED <<rows, idx, recorded, records, age, counts>>

(* deleteDocs, up to GetAlias. *)
ResolveAlias(w) ==
    /\ pc[w] = "deletes"
    /\ \/ Ok /\ job' = [job EXCEPT ![w].todo = records[job[w].rec].extra, ![w].ids = {}]
       \/ Fail /\ job' = [job EXCEPT ![w].ok = FALSE, ![w].ids = {}]
    /\ Goto(w, "done")
    /\ UNCHANGED <<rows, idx, recorded, running, records, age, changes, runs, fixes>>

(* One zinc.DeleteDoc of the ids of the record; an error is only logged.   *)
DeleteDoc(w) ==
    /\ pc[w] = "done"
    /\ \E d \in job[w].todo :
          \/ /\ Ok
             /\ idx' = IF job[w].kind = "past" THEN idx ELSE [idx EXCEPT ![job[w].index] = @ \ {d}]
             /\ job' = [job EXCEPT ![w].todo = @ \ {d}]
          \/ /\ Fail
             /\ job' = [job EXCEPT ![w].todo = @ \ {d}, ![w].ok = FALSE]
             /\ UNCHANGED idx
    /\ age' = Aged(w)
    /\ UNCHANGED <<rows, recorded, running, records, pc, changes, runs, fixes>>

(* The record is called fixed, whatever happened. *)
MarkFixed(w) ==
    /\ pc[w] = "done" /\ job[w].todo = {}
    /\ records' = [records EXCEPT ![job[w].rec].status = "fixed"]
    /\ Finish(w)
    /\ UNCHANGED <<rows, idx, recorded, running, age, counts>>

Step(w) == \/ Read(w) \/ Abort(w) \/ Write(w) \/ Scroll(w) \/ Query(w)
           \/ Rebuild(w) \/ ResolveAlias(w) \/ DeleteDoc(w) \/ MarkFixed(w)

Next ==
    \/ \E i \in Indexes, d \in Docs : Insert(i, d) \/ Delete(i, d)
    \/ \E w \in Workers :
          \/ Step(w)
          \/ \E i \in Indexes : \/ \E kind \in {"full", "incremental"} : Sync(w, i, kind)
                                \/ StartReconcile(w, i)
                                \/ \E k \in DOMAIN records : Fix(w, k, i)

Spec == Init /\ [][Next]_vars

-----------------------------------------------------------------------------
(* Every variable has its type; an index is locked while a run, of its own *)
(* or of a fix, is at work on it.                                          *)
TypeOK ==
    /\ \A i \in Indexes :
          running[i] <=> \E w \in Workers : job[w].index = i /\ pc[w] \in {"read", "write"}
    /\ rows \in [Indexes -> SUBSET Docs] /\ idx \in [Indexes -> SUBSET Docs]
    /\ recorded \in [Indexes -> {"live", "other", "none"}]
    /\ running \in [Indexes -> BOOLEAN] /\ age \in [Indexes -> Nat]
    /\ records \in Seq(Records)
    /\ pc \in [Workers -> PCs] /\ job \in [Workers -> Jobs]
    /\ changes \in 0..MaxChanges /\ runs \in 0..MaxRuns
    /\ fixes \in 0..MaxFixes /\ fails \in 0..MaxFails

(* A fix takes a document from the readers only if it has no row, or its   *)
(* row came back after the rows were compared: the index is enumerated     *)
(* before the rows are, so a document that is delivered meanwhile is not   *)
(* taken for stale (reconcile.go:69-85, 112-115).                          *)
DeletesOnlyRowless ==
    [][\A w \in Workers : pc[w] = "done" /\ job'[w].todo # job[w].todo =>
          \A i \in Indexes : \A d \in idx[i] \ idx'[i] :
              d \in rows[i] => d \in records[job[w].rec].reborn]_vars

(* If no row changed since the comparison began, nothing older was written *)
(* over it, no call of the fix failed, and the alias named the index that  *)
(* was recorded for its writes (after a failed rebuild it does not:        *)
(* engine.go:124-147), then after a fix the index has exactly the ids of   *)
(* the rows (reconcile.go:106-141; Q29: one click to repair).              *)
FixRepairs ==
    [][\A w \in Workers : (pc[w] = "done" /\ pc'[w] = "idle") =>
          LET i == job[w].index IN
          job[w].ok /\ age[i] = job[w].age => idx[i] = rows[i]]_vars
=============================================================================

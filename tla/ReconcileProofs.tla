--------------------------- MODULE ReconcileProofs ---------------------------
(***************************************************************************)
(* Proofs about Reconcile, for every number of indexes, ids, workers and   *)
(* for every bound.                                                        *)
(*                                                                         *)
(* Who is where (Placed, OneAtWork): at most one worker at a time is at    *)
(* work on an index, a fix has the record it was started with, and it      *)
(* deletes ids of that record only.  What was seen and is still so         *)
(* (RecordOK, WorkOK): a comparison, a record and a fix remember the age   *)
(* of their index, and as long as the index has that age, what they hold   *)
(* is true of it.  Every step either makes an index older, or leaves its   *)
(* rows alone and changes its ids only towards them (Settles): what was    *)
(* true of the index stays so.                                             *)
(***************************************************************************)
EXTENDS Reconcile, SequenceTheorems, TLAPS

-----------------------------------------------------------------------------
(* The invariant. *)

AtWork(w) == pc[w] \in {"read", "write"}

(* The lock of an index excludes. *)
OneAtWork == \A v, w \in Workers :
    AtWork(v) /\ AtWork(w) /\ job[v].index = job[w].index => v = w

OfFix(w) == \/ pc[w] \in {"fix", "deletes", "done"}
            \/ AtWork(w) /\ job[w].kind = "fix"

(* A fix has a record of its index. *)
HasRecord(w) ==
    /\ job[w].rec \in DOMAIN records
    /\ records[job[w].rec].index = job[w].index
    /\ records[job[w].rec].age = job[w].age

PlaceOK(w) ==
    /\ job[w].index \in Indexes
    /\ job[w].age <= age[job[w].index]
    /\ AtWork(w) => job[w].kind \in {"full", "incremental", "fix"}
    /\ pc[w] \in {"fix", "deletes"} => job[w].kind = "fix"
    /\ pc[w] \notin {"scroll", "done"} => job[w].todo = {}
    /\ OfFix(w) => HasRecord(w)
    /\ pc[w] = "done" => /\ job[w].kind \in {"fix", "past"}
                         /\ job[w].todo \subseteq records[job[w].rec].extra

(* What a record says of its index. *)
RecordOK(k) ==
    LET i == records[k].index IN
    /\ records[k].age <= age[i]
    /\ records[k].extra \cap rows[i] \subseteq records[k].reborn
    /\ records[k].age = age[i] =>
          /\ records[k].missing \subseteq rows[i]
          /\ records[k].extra \cap rows[i] = {}
          /\ rows[i] \ idx[i] \subseteq records[k].missing
          /\ idx[i] \ rows[i] \subseteq records[k].extra

(* What a worker knows of its index. *)
Knows(w) ==
    LET i == job[w].index IN
    /\ pc[w] = "write" =>
          /\ job[w].ids \subseteq rows[i]
          /\ job[w].kind = "full" => job[w].ids = rows[i]
          /\ job[w].kind = "fix" => rows[i] \cap records[job[w].rec].missing \subseteq job[w].ids
    /\ pc[w] \in {"scroll", "query"} =>
          /\ job[w].ids \cap rows[i] \subseteq idx[i]
          /\ idx[i] \ rows[i] \subseteq job[w].ids \cup job[w].todo
    /\ pc[w] \in {"deletes", "done"} /\ job[w].ok => rows[i] \subseteq idx[i]
    /\ pc[w] = "done" /\ job[w].ok => idx[i] \ rows[i] \subseteq job[w].todo
    /\ pc[w] = "done" /\ job[w].kind = "past" => idx[i] \subseteq rows[i]

WorkerOK(w) == pc[w] # "idle" => PlaceOK(w) /\ (job[w].age = age[job[w].index] => Knows(w))

IInv ==
    /\ TypeOK
    /\ OneAtWork
    /\ \A w \in Workers : WorkerOK(w)
    /\ \A k \in DOMAIN records : RecordOK(k)

-----------------------------------------------------------------------------
(* What a step does to the index, the records and the other workers. *)

(* The index gets older, or its ids only come closer to its rows. *)
Settles(i) ==
    \/ age[i] < age'[i]
    \/ /\ age'[i] = age[i] /\ rows'[i] = rows[i]
       /\ idx[i] \cap rows[i] \subseteq idx'[i]
       /\ idx'[i] \subseteq idx[i] \cup rows[i]

(* A record stays what it was found to be; rows that come are reborn. *)
Stands(k) ==
    /\ k \in DOMAIN records'
    /\ records'[k].index = records[k].index /\ records'[k].age = records[k].age
    /\ records'[k].missing = records[k].missing /\ records'[k].extra = records[k].extra
    /\ records[k].reborn \subseteq records'[k].reborn
    /\ rows'[records[k].index] \subseteq rows[records[k].index] \cup records'[k].reborn

(* The other workers: the index a fix is done with may be replaced. *)
Replaced(v) ==
    /\ pc[v] = "done"
    /\ job'[v] = [job[v] EXCEPT !.kind = "past"]
    /\ \/ age[job[v].index] < age'[job[v].index]
       \/ idx'[job[v].index] \subseteq rows'[job[v].index]

Stays(v) == pc'[v] = pc[v] /\ (job'[v] = job[v] \/ Replaced(v))

World == (\A i \in Indexes : Settles(i)) /\ (\A k \in DOMAIN records : Stands(k))

-----------------------------------------------------------------------------
(* Data. *)

LEMMA JobFields == ASSUME NEW j \in Jobs
    PROVE /\ j.kind \in {"none", "full", "incremental", "fix", "past", "reconcile"}
          /\ j.index \in Indexes \cup {"none"} /\ j.ids \subseteq Docs /\ j.todo \subseteq Docs
          /\ j.rec \in Nat /\ j.age \in Nat /\ j.ok \in BOOLEAN
  BY DEF Jobs

LEMMA NoJobType == NoJob \in Jobs
  BY DEF NoJob, Jobs

LEMMA RecordFields == ASSUME NEW r \in Records
    PROVE /\ r.index \in Indexes /\ r.missing \subseteq Docs /\ r.extra \subseteq Docs
          /\ r.reborn \subseteq Docs /\ r.age \in Nat /\ r.status \in {"ok", "fixed"}
  BY DEF Records

LEMMA RecordAt == ASSUME TypeOK, NEW k \in DOMAIN records
    PROVE records[k] \in Records
  BY DEF TypeOK

-----------------------------------------------------------------------------
(* What the steps of others leave as it is. *)

LEMMA RecordStands ==
    ASSUME TypeOK, TypeOK', World, NEW k \in DOMAIN records, RecordOK(k)
    PROVE RecordOK(k)'
  <1> DEFINE i == records[k].index
  <1>1. records[k] \in Records /\ records'[k] \in Records
    BY DEF World, Stands, TypeOK
  <1>2. i \in Indexes /\ records[k].age \in Nat /\ age[i] \in Nat /\ age'[i] \in Nat
    BY <1>1, RecordFields DEF TypeOK
  <1>3. Settles(i) /\ Stands(k)
    BY <1>2 DEF World
  <1>4. CASE age[i] < age'[i]
    BY <1>2, <1>3, <1>4 DEF Stands, RecordOK
  <1>5. CASE age[i] = age'[i] /\ rows'[i] = rows[i] /\ idx[i] \cap rows[i] \subseteq idx'[i]
             /\ idx'[i] \subseteq idx[i] \cup rows[i]
    BY <1>2, <1>3, <1>5 DEF Stands, RecordOK
  <1> QED BY <1>3, <1>4, <1>5 DEF Settles

LEMMA WorkerStays ==
    ASSUME TypeOK, TypeOK', World, NEW v \in Workers, Stays(v), WorkerOK(v)
    PROVE WorkerOK(v)'
  <1> DEFINE i == job[v].index
  <1> SUFFICES ASSUME pc[v] # "idle" PROVE WorkerOK(v)'
    BY DEF WorkerOK, Stays
  <1>1. PlaceOK(v) /\ (job[v].age = age[i] => Knows(v))
    BY DEF WorkerOK
  <1>2. i \in Indexes /\ job[v] \in Jobs /\ job[v].age \in Nat /\ age[i] \in Nat /\ age'[i] \in Nat
    BY <1>1, JobFields DEF TypeOK, PlaceOK
  <1>3. pc'[v] = pc[v] /\ job'[v].index = i /\ job'[v].ids = job[v].ids /\ job'[v].todo = job[v].todo
        /\ job'[v].rec = job[v].rec /\ job'[v].age = job[v].age /\ job'[v].ok = job[v].ok
    BY <1>2 DEF Stays, Replaced, Jobs
  <1>4. \/ job'[v].kind = job[v].kind
        \/ /\ pc[v] = "done" /\ job'[v].kind = "past"
           /\ age[i] < age'[i] \/ idx'[i] \subseteq rows'[i]
    BY <1>2 DEF Stays, Replaced, Jobs
  <1>5. Settles(i)
    BY <1>2 DEF World
  <1>6. HasRecord(v) => HasRecord(v)' /\ Stands(job[v].rec)
    BY <1>3 DEF HasRecord, World, Stands
  <1>7. age[i] <= age'[i]
    BY <1>2, <1>5 DEF Settles
  <1>8. PlaceOK(v)'
    <2>1. job'[v].age <= age'[job'[v].index]
      BY <1>1, <1>2, <1>3, <1>7 DEF PlaceOK
    <2>2. (AtWork(v) => job[v].kind \in {"full", "incremental", "fix"})'
          /\ (pc[v] \in {"fix", "deletes"} => job[v].kind = "fix")'
          /\ (pc[v] \notin {"scroll", "done"} => job[v].todo = {})'
      BY <1>1, <1>3, <1>4 DEF PlaceOK, AtWork
    <2>3. OfFix(v)' => OfFix(v)
      BY <1>3, <1>4 DEF OfFix, AtWork
    <2>4. (OfFix(v) => HasRecord(v))'
      BY <2>3, <1>6, <1>1 DEF PlaceOK
    <2>5. (pc[v] = "done" => job[v].kind \in {"fix", "past"}
                             /\ job[v].todo \subseteq records[job[v].rec].extra)'
      BY <1>1, <1>3, <1>4, <1>6 DEF PlaceOK, OfFix, Stands
    <2> QED BY <1>2, <1>3, <2>1, <2>2, <2>4, <2>5 DEF PlaceOK
  <1>9. ASSUME job'[v].age = age'[job'[v].index] PROVE Knows(v)'
    <2>1. age'[i] = age[i] /\ job[v].age = age[i]
      BY <1>1, <1>2, <1>3, <1>7, <1>9 DEF PlaceOK
    <2>2. Knows(v) /\ rows'[i] = rows[i] /\ idx[i] \cap rows[i] \subseteq idx'[i]
          /\ idx'[i] \subseteq idx[i] \cup rows[i]
      BY <1>1, <1>2, <1>5, <2>1 DEF Settles
    <2>3. \/ job'[v].kind = job[v].kind
          \/ pc[v] = "done" /\ job'[v].kind = "past" /\ idx'[i] \subseteq rows'[i]
      BY <1>2, <1>4, <2>1
    <2>4. (pc[v] = "write" =>
          /\ job[v].ids \subseteq rows[job[v].index]
          /\ job[v].kind = "full" => job[v].ids = rows[job[v].index]
          /\ job[v].kind = "fix" =>
                rows[job[v].index] \cap records[job[v].rec].missing \subseteq job[v].ids)'
      <3>1. pc[v] = "write" /\ job[v].kind = "fix" => Stands(job[v].rec)
        BY <1>1, <1>6 DEF PlaceOK, OfFix, AtWork
      <3> QED BY <2>2, <2>3, <1>3, <3>1 DEF Knows, Stands
    <2>5. (pc[v] \in {"scroll", "query"} =>
          /\ job[v].ids \cap rows[job[v].index] \subseteq idx[job[v].index]
          /\ idx[job[v].index] \ rows[job[v].index] \subseteq job[v].ids \cup job[v].todo)'
      BY <2>2, <1>3 DEF Knows
    <2>6. (pc[v] \in {"deletes", "done"} /\ job[v].ok => rows[job[v].index] \subseteq idx[job[v].index])'
      BY <2>2, <1>3 DEF Knows
    <2>7. (pc[v] = "done" /\ job[v].ok => idx[job[v].index] \ rows[job[v].index] \subseteq job[v].todo)'
      BY <2>2, <1>3 DEF Knows
    <2>8. (pc[v] = "done" /\ job[v].kind = "past" => idx[job[v].index] \subseteq rows[job[v].index])'
      BY <2>2, <2>3, <1>3 DEF Knows
    <2> QED BY <2>4, <2>5, <2>6, <2>7, <2>8 DEF Knows
  <1> QED BY <1>8, <1>9 DEF WorkerOK

-----------------------------------------------------------------------------
(* The lock. *)

Types ==
    /\ rows \in [Indexes -> SUBSET Docs] /\ idx \in [Indexes -> SUBSET Docs]
    /\ recorded \in [Indexes -> {"live", "other", "none"}]
    /\ running \in [Indexes -> BOOLEAN] /\ age \in [Indexes -> Nat]
    /\ records \in Seq(Records)
    /\ pc \in [Workers -> PCs] /\ job \in [Workers -> Jobs]
    /\ changes \in 0..MaxChanges /\ runs \in 0..MaxRuns
    /\ fixes \in 0..MaxFixes /\ fails \in 0..MaxFails

Locked == \A i \in Indexes : running[i] <=> \E w \in Workers : job[w].index = i /\ AtWork(w)

LEMMA TypeParts == TypeOK <=> Types /\ Locked
  BY DEF TypeOK, Types, Locked, AtWork

SameWork(v) == (AtWork(v)' <=> AtWork(v)) /\ (AtWork(v) => job'[v].index = job[v].index)

LEMMA LocksStay ==
    ASSUME Locked, OneAtWork, \A v \in Workers : SameWork(v), running' = running
    PROVE Locked' /\ OneAtWork'
  <1>1. Locked'
    BY DEF Locked, SameWork
  <1>2. OneAtWork'
    BY DEF OneAtWork, SameWork
  <1> QED BY <1>1, <1>2

LEMMA LockTaken ==
    ASSUME Types, Locked, OneAtWork, NEW w \in Workers, NEW i \in Indexes,
           ~running[i], Lock(i), AtWork(w)', job'[w].index = i, ~AtWork(w),
           \A v \in Workers \ {w} : SameWork(v)
    PROVE Locked' /\ OneAtWork'
  <1>1. ASSUME NEW j \in Indexes PROVE (running[j] <=> \E v \in Workers : job[v].index = j /\ AtWork(v))'
    <2>1. CASE j = i
      BY <2>1 DEF Types, Lock
    <2>2. CASE j # i
      <3>1. running'[j] = running[j]
        BY <2>2 DEF Types, Lock
      <3>2. (\E v \in Workers : job[v].index = j /\ AtWork(v))
            <=> (\E v \in Workers : job'[v].index = j /\ AtWork(v)')
        BY <2>2 DEF SameWork
      <3> QED BY <3>1, <3>2 DEF Locked
    <2> QED BY <2>1, <2>2
  <1>2. \A v \in Workers \ {w} : AtWork(v)' => job'[v].index # i
    BY DEF SameWork, Locked
  <1>3. OneAtWork'
    BY <1>2 DEF OneAtWork, SameWork
  <1>4. Locked'
    BY <1>1 DEF Locked
  <1> QED BY <1>3, <1>4

LEMMA LockFreed ==
    ASSUME Types, Locked, OneAtWork, NEW w \in Workers, NEW i \in Indexes,
           Unlock(i), AtWork(w), job[w].index = i, ~AtWork(w)',
           \A v \in Workers \ {w} : SameWork(v)
    PROVE Locked' /\ OneAtWork'
  <1>1. \A v \in Workers \ {w} : AtWork(v) => job[v].index # i
    BY DEF OneAtWork
  <1>2. ASSUME NEW j \in Indexes PROVE (running[j] <=> \E v \in Workers : job[v].index = j /\ AtWork(v))'
    <2>1. CASE j = i
      <3>1. ~running'[j]
        BY <2>1 DEF Types, Unlock
      <3>2. \A v \in Workers : AtWork(v)' => job'[v].index # i
        BY <1>1 DEF SameWork
      <3> QED BY <3>1, <3>2, <2>1
    <2>2. CASE j # i
      <3>1. running'[j] = running[j]
        BY <2>2 DEF Types, Unlock
      <3>2. (\E v \in Workers : job[v].index = j /\ AtWork(v))
            <=> (\E v \in Workers : job'[v].index = j /\ AtWork(v)')
        BY <2>2 DEF SameWork
      <3> QED BY <3>1, <3>2 DEF Locked
    <2> QED BY <2>1, <2>2
  <1>3. OneAtWork'
    BY DEF OneAtWork, SameWork
  <1>4. Locked'
    BY <1>2 DEF Locked
  <1> QED BY <1>3, <1>4

(* The invariant after a step: what has its type, the world, the workers.  *)
LEMMA Together ==
    ASSUME IInv, Types', Locked', OneAtWork', World,
           \A v \in Workers : Stays(v) \/ WorkerOK(v)',
           \A k \in DOMAIN records' \ DOMAIN records : RecordOK(k)'
    PROVE IInv'
  <1>1. TypeOK /\ TypeOK'
    BY TypeParts DEF IInv, TypeOK, Types, Locked, AtWork
  <1>2. \A v \in Workers : WorkerOK(v)'
    BY <1>1, WorkerStays DEF IInv
  <1>3. \A k \in DOMAIN records : RecordOK(k)'
    BY <1>1, RecordStands DEF IInv
  <1>4. \A k \in DOMAIN records' : RecordOK(k)'
    BY <1>3
  <1> QED BY <1>1, <1>2, <1>4 DEF IInv

(* Nothing happens to the world. *)
LEMMA SameWorld ==
    ASSUME Types, UNCHANGED <<rows, idx, age, records>>
    PROVE World
  <1>1. \A i \in Indexes : Settles(i)
    BY DEF Settles
  <1>2. \A k \in DOMAIN records : Stands(k)
    BY DEF Stands
  <1> QED BY <1>1, <1>2 DEF World

-----------------------------------------------------------------------------
(* The rows change. *)

LEMMA InsertStep ==
    ASSUME IInv, NEW i \in Indexes, NEW d \in Docs, Insert(i, d)
    PROVE IInv'
  <1>1. Types /\ Locked /\ OneAtWork
    BY TypeParts DEF IInv
  <1> DEFINE rec(k) == IF records[k].index = i THEN [records[k] EXCEPT !.reborn = @ \cup {d}] ELSE records[k]
  <1>2. records' = [k \in DOMAIN records |-> rec(k)]
    BY DEF Insert
  <1>3. \A k \in DOMAIN records :
           /\ records[k] \in Records /\ records'[k] = rec(k) /\ rec(k) \in Records
           /\ records'[k].index = records[k].index /\ records'[k].age = records[k].age
           /\ records'[k].missing = records[k].missing /\ records'[k].extra = records[k].extra
           /\ records'[k].reborn = IF records[k].index = i THEN records[k].reborn \cup {d} ELSE records[k].reborn
    <2> SUFFICES ASSUME NEW k \in DOMAIN records
                 PROVE /\ records[k] \in Records /\ records'[k] = rec(k) /\ rec(k) \in Records
                       /\ rec(k).index = records[k].index /\ rec(k).age = records[k].age
                       /\ rec(k).missing = records[k].missing /\ rec(k).extra = records[k].extra
                       /\ rec(k).reborn = IF records[k].index = i THEN records[k].reborn \cup {d} ELSE records[k].reborn
      BY <1>2
    <2>1. records[k] \in Records
      BY <1>1 DEF Types
    <2>2. records'[k] = rec(k)
      BY <1>2
    <2>3. \A r \in Records : LET q == [r EXCEPT !.reborn = @ \cup {d}] IN
             /\ q \in Records /\ q.index = r.index /\ q.age = r.age
             /\ q.missing = r.missing /\ q.extra = r.extra /\ q.reborn = r.reborn \cup {d}
      BY DEF Records
    <2> QED BY <2>1, <2>2, <2>3
  <1>4. DOMAIN records' = DOMAIN records /\ DOMAIN records = 1..Len(records) /\ Len(records) \in Nat
    BY <1>1, <1>2 DEF Types
  <1>5. records' \in Seq(Records)
    BY <1>2, <1>3, <1>4
  <1>6. Types'
    BY <1>1, <1>5, ReconcileBounds DEF Types, Insert
  <1>7. Locked' /\ OneAtWork'
    BY <1>1, LocksStay DEF Insert, SameWork, AtWork
  <1>8. \A j \in Indexes : Settles(j)
    BY <1>1 DEF Types, Insert, Settles
  <1>9. \A k \in DOMAIN records : Stands(k)
    <2> SUFFICES ASSUME NEW k \in DOMAIN records PROVE Stands(k)
      OBVIOUS
    <2>1. records[k].index \in Indexes
      BY <1>3, RecordFields
    <2>2. rows'[records[k].index] = IF records[k].index = i THEN rows[i] \cup {d} ELSE rows[records[k].index]
      BY <2>1, <1>1 DEF Types, Insert
    <2> QED BY <2>2, <1>3, <1>4 DEF Stands
  <1>10. \A v \in Workers : Stays(v)
    BY DEF Insert, Stays
  <1> QED BY <1>1, <1>4, <1>6, <1>7, <1>8, <1>9, <1>10, Together DEF World

LEMMA DeleteStep ==
    ASSUME IInv, NEW i \in Indexes, NEW d \in Docs, Delete(i, d)
    PROVE IInv'
  <1>1. Types /\ Locked /\ OneAtWork
    BY TypeParts DEF IInv
  <1>2. Types'
    BY <1>1, ReconcileBounds DEF Types, Delete
  <1>3. Locked' /\ OneAtWork'
    BY <1>1, LocksStay DEF Delete, SameWork, AtWork
  <1>4. \A j \in Indexes : Settles(j) /\ rows'[j] \subseteq rows[j]
    BY <1>1 DEF Types, Delete, Settles
  <1>5. \A k \in DOMAIN records : Stands(k)
    BY <1>1, <1>4, RecordFields DEF Stands, Delete, Types
  <1>6. \A v \in Workers : Stays(v)
    BY DEF Delete, Stays
  <1> QED BY <1>2, <1>3, <1>4, <1>5, <1>6, Together DEF World, Delete

-----------------------------------------------------------------------------
(* Runs. *)

LEMMA SyncStep ==
    ASSUME IInv, NEW w \in Workers, NEW i \in Indexes, NEW kind \in {"full", "incremental"}, Sync(w, i, kind)
    PROVE IInv'
  <1>1. Types /\ Locked /\ OneAtWork
    BY TypeParts DEF IInv
  <1> DEFINE j == [NoJob EXCEPT !.kind = kind, !.index = i]
  <1>2. j \in Jobs /\ j.kind = kind /\ j.index = i /\ j.age = 0 /\ j.todo = {}
    BY DEF NoJob, Jobs
  <1>3. job' = [job EXCEPT ![w] = j] /\ pc' = [pc EXCEPT ![w] = "read"] /\ pc[w] = "idle"
    BY DEF Sync, Begin, Goto
  <1> HIDE DEF j
  <1>4. job'[w] = j /\ pc'[w] = "read" /\ \A v \in Workers \ {w} : job'[v] = job[v] /\ pc'[v] = pc[v]
    BY <1>1, <1>3 DEF Types
  <1>5. running' \in [Indexes -> BOOLEAN]
    BY <1>1 DEF Types, Sync, Lock
  <1>6. Types'
    BY <1>1, <1>2, <1>3, <1>5, ReconcileBounds DEF Types, Sync, PCs
  <1>7. Locked' /\ OneAtWork'
    BY <1>1, <1>2, <1>3, <1>4, LockTaken DEF Sync, SameWork, AtWork
  <1>8. World
    BY <1>1, SameWorld DEF Sync
  <1>9. WorkerOK(w)'
    <2>1. age'[i] \in Nat /\ i \in Indexes
      BY <1>6 DEF Types
    <2> QED BY <1>2, <1>4, <2>1 DEF WorkerOK, PlaceOK, Knows, AtWork, OfFix
  <1>10. \A v \in Workers : Stays(v) \/ WorkerOK(v)'
    BY <1>4, <1>9 DEF Stays
  <1> QED BY <1>6, <1>7, <1>8, <1>10, Together DEF Sync

LEMMA OpenedType ==
    ASSUME Types, NEW w \in Workers
    PROVE Opened(w) \in [Indexes -> {"live", "other", "none"}]
  BY DEF Types, Opened

LEMMA ReadStep ==
    ASSUME IInv, NEW w \in Workers, Read(w)
    PROVE IInv'
  <1>1. Types /\ Locked /\ OneAtWork /\ WorkerOK(w)
    BY TypeParts DEF IInv
  <1> DEFINE i == job[w].index
             k == job[w].rec
  <1>2. pc[w] = "read" /\ PlaceOK(w) /\ i \in Indexes /\ job[w] \in Jobs
        /\ job[w].kind \in {"full", "incremental", "fix"}
    BY <1>1 DEF WorkerOK, PlaceOK, Read, AtWork, Types
  <1>3. job[w].kind = "fix" => HasRecord(w) /\ RecordOK(k) /\ records[k] \in Records
    BY <1>1, <1>2 DEF PlaceOK, OfFix, AtWork, IInv, HasRecord, Types
  <1>4. PICK S \in SUBSET rows[i] :
           /\ job[w].kind = "full" => S = rows[i]
           /\ job[w].kind = "fix" => S = rows[i] \cap records[k].missing
           /\ job' = [job EXCEPT ![w].ids = S,
                                 ![w].age = IF job[w].kind = "fix" THEN job[w].age ELSE age[i]]
    BY <1>1, <1>2 DEF Read, Types
  <1>5. rows[i] \subseteq Docs /\ age[i] \in Nat /\ S \subseteq Docs
    BY <1>1, <1>2 DEF Types
  <1> DEFINE a == IF job[w].kind = "fix" THEN job[w].age ELSE age[i]
  <1>6. a \in Nat /\ a <= age[i]
    BY <1>2, <1>5, JobFields DEF PlaceOK
  <1> DEFINE j == [[job[w] EXCEPT !.ids = S] EXCEPT !.age = a]
  <1>7. j \in Jobs /\ j.kind = job[w].kind /\ j.index = i /\ j.rec = k /\ j.age = a /\ j.ids = S
        /\ j.todo = job[w].todo
    BY <1>2, <1>5, <1>6 DEF Jobs
  <1>8. job' = [job EXCEPT ![w] = j]
    BY <1>1, <1>4, <1>2 DEF Types, Jobs
  <1> HIDE DEF j
  <1>9. job'[w] = j /\ pc'[w] = "write" /\ \A v \in Workers \ {w} : job'[v] = job[v] /\ pc'[v] = pc[v]
    BY <1>1, <1>8 DEF Types, Read, Goto
  <1>10. Types'
    <2>1. fails' \in 0..MaxFails
      BY <1>1, ReconcileBounds DEF Types, Read, Ok, Fail
    <2>2. recorded' \in [Indexes -> {"live", "other", "none"}]
      BY <1>1, OpenedType DEF Types, Read
    <2> QED BY <1>1, <1>7, <1>8, <2>1, <2>2 DEF Types, Read, PCs, Goto
  <1>11. Locked' /\ OneAtWork'
    BY <1>1, <1>2, <1>7, <1>9, LocksStay DEF Read, SameWork, AtWork
  <1>12. World
    BY <1>1, SameWorld DEF Read
  <1>13. UNCHANGED <<rows, idx, records, age>>
    BY DEF Read
  <1>14. PlaceOK(w)'
    BY <1>2, <1>3, <1>6, <1>7, <1>9, <1>13 DEF PlaceOK, AtWork, OfFix, HasRecord
  <1>15. Knows(w)'
    BY <1>4, <1>7, <1>9, <1>13 DEF Knows
  <1>16. \A v \in Workers : Stays(v) \/ WorkerOK(v)'
    BY <1>9, <1>14, <1>15 DEF Stays, WorkerOK
  <1> QED BY <1>10, <1>11, <1>12, <1>13, <1>16, Together

(* A worker that finishes. *)
LEMMA Finished ==
    ASSUME Types, NEW w \in Workers, Finish(w)
    PROVE /\ pc' \in [Workers -> PCs] /\ job' \in [Workers -> Jobs]
          /\ pc'[w] = "idle" /\ job'[w] = NoJob
          /\ \A v \in Workers \ {w} : pc'[v] = pc[v] /\ job'[v] = job[v]
          /\ WorkerOK(w)'
  BY NoJobType DEF Types, Finish, Goto, PCs, WorkerOK

LEMMA AbortStep ==
    ASSUME IInv, NEW w \in Workers, Abort(w)
    PROVE IInv'
  <1>1. Types /\ Locked /\ OneAtWork /\ WorkerOK(w)
    BY TypeParts DEF IInv
  <1> DEFINE i == job[w].index
             j == [job[w] EXCEPT !.ok = FALSE]
  <1>2. pc[w] = "read" /\ PlaceOK(w) /\ i \in Indexes /\ job[w] \in Jobs /\ AtWork(w)
    BY <1>1 DEF WorkerOK, PlaceOK, Abort, AtWork, Types
  <1>3. UNCHANGED <<rows, idx, records, age, changes, runs, fixes>> /\ Unlock(i) /\ Fail
        /\ recorded' \in {recorded, Opened(w)}
    BY DEF Abort
  <1>4. /\ j \in Jobs /\ j.kind = job[w].kind /\ j.index = i /\ j.rec = job[w].rec
        /\ j.age = job[w].age /\ j.ok = FALSE /\ j.todo = job[w].todo
    BY <1>2 DEF Jobs
  <1>5. /\ pc' \in [Workers -> PCs] /\ job' \in [Workers -> Jobs] /\ WorkerOK(w)'
        /\ pc'[w] \notin {"read", "write"}
        /\ \A v \in Workers \ {w} : pc'[v] = pc[v] /\ job'[v] = job[v]
    <2>1. CASE Finish(w)
      BY <1>1, <2>1, Finished
    <2>2. CASE job[w].kind = "fix" /\ Goto(w, "deletes") /\ job' = [job EXCEPT ![w] = j]
      <3> HIDE DEF j
      <3>1. /\ pc' \in [Workers -> PCs] /\ job' \in [Workers -> Jobs]
            /\ pc'[w] = "deletes" /\ job'[w] = j
            /\ \A v \in Workers \ {w} : pc'[v] = pc[v] /\ job'[v] = job[v]
        BY <1>1, <1>4, <2>2 DEF Types, Goto, PCs
      <3>2. HasRecord(w)
        BY <1>2, <2>2 DEF PlaceOK, OfFix
      <3>3. PlaceOK(w)'
        BY <1>2, <1>3, <1>4, <2>2, <3>1, <3>2 DEF PlaceOK, AtWork, OfFix, HasRecord
      <3>4. Knows(w)'
        BY <1>4, <3>1 DEF Knows
      <3> QED BY <3>1, <3>3, <3>4 DEF WorkerOK
    <2> QED BY <2>1, <2>2 DEF Abort
  <1>6. Types'
    <2>1. fails' \in 0..MaxFails
      BY <1>1, <1>3, ReconcileBounds DEF Types, Fail
    <2>2. recorded' \in [Indexes -> {"live", "other", "none"}]
      BY <1>1, <1>3, OpenedType DEF Types
    <2>3. running' \in [Indexes -> BOOLEAN]
      BY <1>1, <1>3 DEF Types, Unlock
    <2> QED BY <1>1, <1>3, <1>5, <2>1, <2>2, <2>3 DEF Types
  <1>7. Locked' /\ OneAtWork'
    <2>1. \A v \in Workers \ {w} : SameWork(v)
      BY <1>5 DEF SameWork, AtWork
    <2> QED BY <1>1, <1>2, <1>3, <1>5, <2>1, LockFreed DEF AtWork
  <1>8. World
    BY <1>1, <1>3, SameWorld
  <1> QED BY <1>3, <1>5, <1>6, <1>7, <1>8, Together DEF Stays

-----------------------------------------------------------------------------
(* The write: by a run, or by a fix. *)

(* The age of the index is the one the worker read at, or it grows. *)
LEMMA AgedType ==
    ASSUME Types, NEW w \in Workers, job[w].index \in Indexes
    PROVE LET i == job[w].index IN
          /\ Aged(w) \in [Indexes -> Nat]
          /\ \A j \in Indexes : j # i => Aged(w)[j] = age[j]
          /\ age[i] = job[w].age => Aged(w)[i] = age[i]
          /\ age[i] # job[w].age => age[i] < Aged(w)[i]
  BY DEF Types, Aged

LEMMA Writes ==
    ASSUME IInv, NEW w \in Workers, pc[w] = "write",
           UNCHANGED <<rows, records>>, age' = Aged(w),
           \/ job[w].kind = "full" /\ idx' = Switched(w)
           \/ \E S \in SUBSET job[w].ids : idx' = [idx EXCEPT ![job[w].index] = @ \cup S]
    PROVE /\ World
          /\ idx' \in [Indexes -> SUBSET Docs] /\ age' \in [Indexes -> Nat]
          /\ job[w].kind = "full" /\ idx' = Switched(w) =>
                \A v \in Workers : job[v].index = job[w].index =>
                   \/ age[job[v].index] < age'[job[v].index]
                   \/ idx'[job[v].index] \subseteq rows'[job[v].index]
  <1>1. Types /\ WorkerOK(w)
    BY TypeParts DEF IInv
  <1> DEFINE i == job[w].index
  <1>2. PlaceOK(w) /\ i \in Indexes /\ job[w] \in Jobs /\ job[w].ids \subseteq Docs
        /\ (job[w].age = age[i] => Knows(w))
    BY <1>1, JobFields DEF WorkerOK, PlaceOK, Types
  <1>3. idx' \in [Indexes -> SUBSET Docs]
    BY <1>1, <1>2 DEF Types, Switched
  <1>4. \A j \in Indexes : j # i => age'[j] = age[j] /\ idx'[j] = idx[j]
    BY <1>1, <1>2, AgedType DEF Types, Switched
  <1>5. CASE age[i] # job[w].age
    <2>1. age[i] < age'[i] /\ age' \in [Indexes -> Nat]
      BY <1>1, <1>2, <1>5, AgedType
    <2>2. \A j \in Indexes : Settles(j)
      BY <1>4, <2>1 DEF Settles
    <2> QED BY <1>1, <1>3, <2>1, <2>2 DEF World, Stands
  <1>6. CASE age[i] = job[w].age
    <2>1. age'[i] = age[i] /\ age' \in [Indexes -> Nat]
      BY <1>1, <1>2, <1>6, AgedType
    <2>2. job[w].ids \subseteq rows[i] /\ (job[w].kind = "full" => job[w].ids = rows[i])
      BY <1>2, <1>6 DEF Knows
    <2>3. \/ job[w].kind = "full" /\ idx'[i] = job[w].ids
          \/ \E S \in SUBSET job[w].ids : idx'[i] = idx[i] \cup S
      BY <1>1, <1>2 DEF Types, Switched
    <2>4. idx[i] \cap rows[i] \subseteq idx'[i] /\ idx'[i] \subseteq idx[i] \cup rows[i]
      BY <2>2, <2>3
    <2>5. \A j \in Indexes : Settles(j)
      BY <1>4, <2>1, <2>4 DEF Settles
    <2>6. job[w].kind = "full" /\ idx' = Switched(w) => idx'[i] \subseteq rows'[i]
      BY <1>1, <1>2, <2>2 DEF Types, Switched
    <2> QED BY <1>1, <1>3, <2>1, <2>5, <2>6 DEF World, Stands
  <1> QED BY <1>5, <1>6

(* A switch, after which the worker has the locals j. *)
SwitchTo(w, j) ==
    [[v \in Workers |-> IF job[w].kind = "full" /\ v # w /\ pc[v] = "done" /\ job[v].index = job[w].index
                        THEN [job[v] EXCEPT !.kind = "past"] ELSE job[v]] EXCEPT ![w] = j]

LEMMA SwitchStays ==
    ASSUME Types, NEW w \in Workers, NEW j \in Jobs, NEW l \in PCs,
           job' = SwitchTo(w, j), pc' = [pc EXCEPT ![w] = l],
           \A v \in Workers : job[v].index = job[w].index =>
                   \/ age[job[v].index] < age'[job[v].index]
                   \/ idx'[job[v].index] \subseteq rows'[job[v].index]
    PROVE /\ job' \in [Workers -> Jobs] /\ job'[w] = j /\ pc'[w] = l
          /\ \A v \in Workers \ {w} : Stays(v) /\ job'[v].index = job[v].index
  <1>1. \A v \in Workers : job[v] \in Jobs /\ [job[v] EXCEPT !.kind = "past"] \in Jobs
                           /\ [job[v] EXCEPT !.kind = "past"].index = job[v].index
    BY DEF Types, Jobs
  <1>2. job' \in [Workers -> Jobs] /\ job'[w] = j /\ pc'[w] = l
    BY <1>1 DEF SwitchTo, Types
  <1>3. ASSUME NEW v \in Workers \ {w}
        PROVE Stays(v) /\ job'[v].index = job[v].index
    <2>1. pc'[v] = pc[v]
      BY DEF Types
    <2>2. \/ job'[v] = job[v]
          \/ /\ pc[v] = "done" /\ job[v].index = job[w].index
             /\ job'[v] = [job[v] EXCEPT !.kind = "past"]
      BY DEF SwitchTo
    <2> QED BY <1>1, <2>1, <2>2 DEF Stays, Replaced
  <1> QED BY <1>2, <1>3

LEMMA WriteStep ==
    ASSUME IInv, NEW w \in Workers, Write(w)
    PROVE IInv'
  <1>1. Types /\ Locked /\ OneAtWork /\ WorkerOK(w)
    BY TypeParts DEF IInv
  <1> DEFINE i == job[w].index
             full == job[w].kind = "full"
             Compare == [NoJob EXCEPT !.kind = "reconcile", !.index = i, !.todo = Docs, !.age = Aged(w)[i]]
  <1>2. pc[w] = "write" /\ PlaceOK(w) /\ i \in Indexes /\ job[w] \in Jobs /\ AtWork(w)
        /\ job[w].kind \in {"full", "incremental", "fix"}
        /\ (job[w].age = age[i] => Knows(w))
    BY <1>1 DEF WorkerOK, PlaceOK, Write, AtWork, Types
  <1>3. Compare \in Jobs /\ Compare.kind = "reconcile" /\ Compare.index = i /\ Compare.todo = Docs
        /\ Compare.age = Aged(w)[i] /\ Compare.ids = {}
    BY <1>1, <1>2, AgedType DEF NoJob, Jobs
  <1> HIDE DEF Compare
  <1>4. UNCHANGED <<rows, records, changes, runs, fixes>> /\ Unlock(i) /\ age' = Aged(w)
        /\ fails' \in 0..MaxFails /\ recorded' \in [Indexes -> {"live", "other", "none"}]
    <2>2. \/ recorded' = recorded
          \/ \E x \in {"live", "none"} : recorded' = [recorded EXCEPT ![i] = x]
      BY Zenon DEF Write
    <2>3. recorded' \in [Indexes -> {"live", "other", "none"}]
      BY <1>1, <2>2 DEF Types
    <2>1. UNCHANGED <<rows, records, changes, runs, fixes>> /\ Unlock(i) /\ age' = Aged(w)
          /\ (Ok \/ Fail)
      BY Zenon DEF Write
    <2> QED BY <1>1, <2>1, <2>3, ReconcileBounds DEF Ok, Fail, Types
  <1>5. running' \in [Indexes -> BOOLEAN]
    BY <1>1, <1>4 DEF Types, Unlock
  <1>6. (* What is left to show of each outcome *)
        ASSUME \/ full /\ idx' = Switched(w)
               \/ \E S \in SUBSET job[w].ids : idx' = [idx EXCEPT ![i] = @ \cup S],
               pc' \in [Workers -> PCs], job' \in [Workers -> Jobs],
               pc'[w] \notin {"read", "write"}, WorkerOK(w)',
               \A v \in Workers \ {w} : Stays(v) /\ job'[v].index = job[v].index
        PROVE IInv'
    <2>1. World /\ idx' \in [Indexes -> SUBSET Docs] /\ age' \in [Indexes -> Nat]
      BY <1>2, <1>4, <1>6, Writes
    <2>2. Types'
      BY <1>1, <1>4, <1>5, <1>6, <2>1 DEF Types
    <2>3. \A v \in Workers \ {w} : SameWork(v)
      BY <1>6 DEF Stays, SameWork, AtWork
    <2>4. Locked' /\ OneAtWork'
      BY <1>1, <1>2, <1>4, <1>6, <2>3, LockFreed DEF AtWork
    <2> QED BY <1>4, <1>6, <2>1, <2>2, <2>4, Together
  <1>7. (* The switch *)
        ASSUME full, idx' = Switched(w), NEW j \in Jobs, NEW l \in {"idle", "scroll"},
               job' = SwitchTo(w, j), pc' = [pc EXCEPT ![w] = l], WorkerOK(w)'
        PROVE IInv'
    <2>1. \A v \in Workers : job[v].index = job[w].index =>
                   \/ age[job[v].index] < age'[job[v].index]
                   \/ idx'[job[v].index] \subseteq rows'[job[v].index]
      BY <1>2, <1>4, <1>7, Writes
    <2>2. /\ job' \in [Workers -> Jobs] /\ job'[w] = j /\ pc'[w] = l
          /\ \A v \in Workers \ {w} : Stays(v) /\ job'[v].index = job[v].index
      BY <1>1, <1>7, <2>1, SwitchStays DEF PCs
    <2>3. pc' \in [Workers -> PCs]
      BY <1>1, <1>7 DEF Types, PCs
    <2> QED BY <1>6, <1>7, <2>2, <2>3
  <1>8. (* The worker is finished *)
        ASSUME Finish(w), \/ full /\ idx' = Switched(w)
                          \/ \E S \in SUBSET job[w].ids : idx' = [idx EXCEPT ![i] = @ \cup S]
        PROVE IInv'
    BY <1>1, <1>6, <1>8, Finished DEF Stays
  <1>9. (* A fix goes on to its deletes *)
        ASSUME job[w].kind = "fix", NEW S \in SUBSET job[w].ids, idx' = [idx EXCEPT ![i] = @ \cup S],
               Goto(w, "deletes"), NEW ok \in BOOLEAN,
               job' = [job EXCEPT ![w].ok = ok], ok => S = job[w].ids
        PROVE IInv'
    <2> DEFINE j == [job[w] EXCEPT !.ok = ok]
    <2>1. j \in Jobs /\ j.kind = "fix" /\ j.index = i /\ j.rec = job[w].rec /\ j.age = job[w].age /\ j.ok = ok
          /\ j.todo = job[w].todo
      BY <1>2, <1>9 DEF Jobs
    <2>2. job' = [job EXCEPT ![w] = j]
      BY <1>9
    <2> HIDE DEF j
    <2>3. /\ pc' \in [Workers -> PCs] /\ job' \in [Workers -> Jobs]
          /\ pc'[w] = "deletes" /\ job'[w] = j
          /\ \A v \in Workers \ {w} : pc'[v] = pc[v] /\ job'[v] = job[v]
      BY <1>1, <1>9, <2>1, <2>2 DEF Types, Goto, PCs
    <2>4. HasRecord(w) /\ RecordOK(job[w].rec)
      BY <1>2, <1>9 DEF PlaceOK, OfFix, HasRecord, IInv
    <2>5. age'[i] \in Nat /\ age[i] \in Nat /\ age[i] <= age'[i] /\ job[w].age \in Nat
          /\ (age[i] # job[w].age => age[i] < age'[i])
      <3>1. job[w].age \in Nat /\ age[i] \in Nat
        BY <1>1, <1>2, JobFields DEF Types
      <3>2. age'[i] \in Nat /\ (age[i] # job[w].age => age[i] < age'[i])
            /\ (age[i] = job[w].age => age'[i] = age[i])
        BY <1>1, <1>2, <1>4, AgedType
      <3> QED BY <3>1, <3>2
    <2>6. PlaceOK(w)'
      BY <1>2, <1>4, <2>1, <2>3, <2>4, <2>5 DEF PlaceOK, AtWork, OfFix, HasRecord
    <2>7. ASSUME ok, job[w].age = age'[i] PROVE rows'[i] \subseteq idx'[i]
      <3>1. age[i] = job[w].age /\ Knows(w)
        BY <1>2, <2>5, <2>7 DEF PlaceOK
      <3>2. rows[i] \cap records[job[w].rec].missing \subseteq job[w].ids
        BY <1>2, <1>9, <3>1 DEF Knows
      <3>3. rows[i] \ idx[i] \subseteq records[job[w].rec].missing
        BY <2>4, <3>1 DEF HasRecord, RecordOK
      <3>4. idx'[i] = idx[i] \cup job[w].ids
        BY <1>1, <1>2, <1>9, <2>7 DEF Types
      <3> QED BY <1>4, <3>2, <3>3, <3>4
    <2>8. WorkerOK(w)'
      BY <2>1, <2>3, <2>6, <2>7 DEF WorkerOK, Knows
    <2> QED BY <1>6, <1>9, <2>3, <2>8 DEF Stays
  <1>10. (* A worker that compares, once the index is replaced *)
         ASSUME full, idx' = Switched(w), job' = SwitchTo(w, Compare), Goto(w, "scroll")
         PROVE IInv'
    <2>1. pc'[w] = "scroll" /\ job'[w] = Compare
      BY <1>1, <1>10 DEF Types, Goto, SwitchTo
    <2>2. age'[i] \in Nat
      BY <1>1, <1>2, <1>4, AgedType
    <2>3. idx'[i] \subseteq Docs
      BY <1>1, <1>2, <1>4, <1>10, Writes
    <2>4. WorkerOK(w)'
      BY <1>2, <1>3, <1>4, <2>1, <2>2, <2>3 DEF WorkerOK, PlaceOK, Knows, AtWork, OfFix
    <2> QED BY <1>3, <1>7, <1>10, <2>4 DEF Goto
  <1>11. (* A switch that is reported as failed *)
         ASSUME full, idx' = Switched(w), job' = SwitchTo(w, NoJob), Goto(w, "idle")
         PROVE IInv'
    <2>1. pc'[w] = "idle"
      BY <1>1, <1>11 DEF Types, Goto
    <2> QED BY <1>7, <1>11, <2>1, NoJobType DEF Goto, WorkerOK
  <1>12. \A j : [[v \in Workers |->
                       IF full /\ v # w /\ pc[v] = "done" /\ job[v].index = i
                       THEN [job[v] EXCEPT !.kind = "past"] ELSE job[v]] EXCEPT ![w] = j] = SwitchTo(w, j)
    BY DEF SwitchTo
  <1>13. \/ full /\ idx' = Switched(w) /\ job' = SwitchTo(w, Compare) /\ Goto(w, "scroll")
         \/ /\ ~full /\ idx' = Stored(i, job[w].ids)
            /\ IF job[w].kind = "fix"
               THEN Goto(w, "deletes") /\ job' = [job EXCEPT ![w].ok = @ /\ recorded[i] = "live"]
               ELSE Finish(w)
         \/ full /\ idx' = Switched(w) /\ job' = SwitchTo(w, NoJob) /\ Goto(w, "idle")
         \/ full /\ UNCHANGED idx /\ Finish(w)
         \/ /\ ~full /\ \E S \in SUBSET job[w].ids : idx' = Stored(i, S)
            /\ IF job[w].kind = "fix"
               THEN Goto(w, "deletes") /\ job' = [job EXCEPT ![w].ok = FALSE]
               ELSE Finish(w)
    BY <1>2, <1>12 DEF Write, Compare
  <1>17. (* What of S a run that is no rebuild stores where readers look *)
         ASSUME NEW S \in SUBSET job[w].ids, idx' = Stored(i, S)
         PROVE \E R \in SUBSET job[w].ids :
                  idx' = [idx EXCEPT ![i] = @ \cup R] /\ (recorded[i] = "live" => R = S)
    <2>1. CASE recorded[i] = "live"
      <3>1. idx' = [idx EXCEPT ![i] = @ \cup S]
        BY <1>17, <2>1 DEF Stored
      <3> QED BY <3>1
    <2>2. CASE recorded[i] # "live"
      <3>1. idx' = [idx EXCEPT ![i] = @ \cup {}]
        BY <1>1, <1>2, <1>17, <2>2 DEF Types, Stored
      <3>2. {} \in SUBSET job[w].ids
        OBVIOUS
      <3> QED BY <3>1, <3>2, <2>2
    <2> QED BY <2>1, <2>2
  <1>14. CASE full /\ UNCHANGED idx /\ Finish(w)
    <2>1. idx' = [idx EXCEPT ![i] = @ \cup {}]
      BY <1>1, <1>2, <1>14 DEF Types
    <2> QED BY <1>8, <1>14, <2>1
  <1>15. CASE /\ job[w].kind = "fix" /\ idx' = Stored(i, job[w].ids)
              /\ Goto(w, "deletes") /\ job' = [job EXCEPT ![w].ok = @ /\ recorded[i] = "live"]
    <2> DEFINE ok == job[w].ok /\ recorded[i] = "live"
    <2>1. job' = [job EXCEPT ![w].ok = ok]
      BY <1>1, <1>2, <1>15 DEF Types, Jobs
    <2>2. ok \in BOOLEAN
      BY <1>2, JobFields
    <2>3. PICK R \in SUBSET job[w].ids :
             idx' = [idx EXCEPT ![i] = @ \cup R] /\ (recorded[i] = "live" => R = job[w].ids)
      BY <1>15, <1>17
    <2>4. ok => R = job[w].ids
      BY <2>3
    <2> HIDE DEF ok
    <2> QED BY <1>9, <1>15, <2>1, <2>2, <2>3, <2>4
  <1>16. CASE /\ \E S \in SUBSET job[w].ids : idx' = Stored(i, S)
              /\ job[w].kind = "fix" /\ Goto(w, "deletes") /\ job' = [job EXCEPT ![w].ok = FALSE]
    <2>1. PICK R \in SUBSET job[w].ids : idx' = [idx EXCEPT ![i] = @ \cup R]
      BY <1>16, <1>17
    <2> QED BY <1>9, <1>16, <2>1
  <1>18. CASE Finish(w) /\ \E S \in SUBSET job[w].ids : idx' = Stored(i, S)
    <2>1. PICK R \in SUBSET job[w].ids : idx' = [idx EXCEPT ![i] = @ \cup R]
      BY <1>17, <1>18
    <2> QED BY <1>8, <1>18, <2>1
  <1> QED BY <1>10, <1>11, <1>13, <1>14, <1>15, <1>16, <1>18

-----------------------------------------------------------------------------
(* Comparisons. *)

(* Only worker w moves, it is not at work before or after, and the world   *)
(* is as it was.                                                           *)
LEMMA AloneStep ==
    ASSUME IInv, NEW w \in Workers, UNCHANGED <<rows, idx, running, records, age>>, Types',
           ~AtWork(w), ~AtWork(w)', WorkerOK(w)',
           \A v \in Workers \ {w} : pc'[v] = pc[v] /\ job'[v] = job[v]
    PROVE IInv'
  <1>1. Types /\ Locked /\ OneAtWork
    BY TypeParts DEF IInv
  <1>2. Locked' /\ OneAtWork'
    BY <1>1, LocksStay DEF SameWork, AtWork
  <1>3. World
    BY <1>1, SameWorld
  <1> QED BY <1>2, <1>3, Together DEF Stays

(* A worker gets new locals and another place. *)
LEMMA NewLocals ==
    ASSUME Types, NEW w \in Workers, NEW j \in Jobs, NEW l \in PCs,
           job' = [job EXCEPT ![w] = j], pc' = [pc EXCEPT ![w] = l]
    PROVE /\ pc' \in [Workers -> PCs] /\ job' \in [Workers -> Jobs]
          /\ pc'[w] = l /\ job'[w] = j
          /\ \A v \in Workers \ {w} : pc'[v] = pc[v] /\ job'[v] = job[v]
  BY DEF Types

LEMMA StartReconcileStep ==
    ASSUME IInv, NEW w \in Workers, NEW i \in Indexes, StartReconcile(w, i)
    PROVE IInv'
  <1>1. Types
    BY TypeParts DEF IInv
  <1> DEFINE j == [NoJob EXCEPT !.kind = "reconcile", !.index = i, !.todo = Docs, !.age = age[i]]
  <1>2. j \in Jobs /\ j.kind = "reconcile" /\ j.index = i /\ j.age = age[i] /\ j.ids = {} /\ j.todo = Docs
        /\ age[i] \in Nat /\ idx[i] \subseteq Docs
    BY <1>1 DEF NoJob, Jobs, Types
  <1>3. job' = [job EXCEPT ![w] = j] /\ pc' = [pc EXCEPT ![w] = "scroll"] /\ pc[w] = "idle"
    BY DEF StartReconcile, Begin, Goto
  <1> HIDE DEF j
  <1>4. /\ pc' \in [Workers -> PCs] /\ job' \in [Workers -> Jobs]
        /\ pc'[w] = "scroll" /\ job'[w] = j
        /\ \A v \in Workers \ {w} : pc'[v] = pc[v] /\ job'[v] = job[v]
    BY <1>1, <1>2, <1>3, NewLocals DEF PCs
  <1>5. Types'
    BY <1>1, <1>4, ReconcileBounds DEF Types, StartReconcile
  <1>6. WorkerOK(w)'
    BY <1>2, <1>4 DEF WorkerOK, PlaceOK, Knows, AtWork, OfFix, StartReconcile
  <1> QED BY <1>3, <1>4, <1>5, <1>6, AloneStep DEF StartReconcile, AtWork

LEMMA ScrollStep ==
    ASSUME IInv, NEW w \in Workers, Scroll(w)
    PROVE IInv'
  <1>1. Types /\ WorkerOK(w)
    BY TypeParts DEF IInv
  <1> DEFINE i == job[w].index
  <1>2. pc[w] = "scroll" /\ PlaceOK(w) /\ i \in Indexes /\ job[w] \in Jobs
        /\ (job[w].age = age[i] => Knows(w))
    BY <1>1 DEF WorkerOK, PlaceOK, Scroll, Types
  <1>3. UNCHANGED <<rows, idx, recorded, running, records, age, changes, runs, fixes>>
    BY DEF Scroll
  <1>4. CASE job[w].todo = {} /\ Goto(w, "query") /\ UNCHANGED <<job, fails>>
    <2>1. job' = [job EXCEPT ![w] = job[w]]
      BY <1>1, <1>4 DEF Types
    <2>2. /\ pc' \in [Workers -> PCs] /\ job' \in [Workers -> Jobs]
          /\ pc'[w] = "query" /\ job'[w] = job[w]
          /\ \A v \in Workers \ {w} : pc'[v] = pc[v] /\ job'[v] = job[v]
      BY <1>1, <1>2, <1>4, <2>1, NewLocals DEF PCs, Goto
    <2>3. Types'
      BY <1>1, <1>3, <1>4, <2>2 DEF Types
    <2>4. WorkerOK(w)'
      BY <1>2, <1>3, <1>4, <2>2 DEF WorkerOK, PlaceOK, Knows, AtWork, OfFix
    <2> QED BY <1>2, <1>3, <2>2, <2>3, <2>4, AloneStep DEF AtWork
  <1>5. CASE \E d \in job[w].todo : Ok /\ UNCHANGED pc /\
                job' = [job EXCEPT ![w].todo = @ \ {d},
                                   ![w].ids = IF d \in idx[i] THEN @ \cup {d} ELSE @]
    <2>1. PICK d \in job[w].todo : Ok /\ UNCHANGED pc /\
                job' = [job EXCEPT ![w].todo = @ \ {d},
                                   ![w].ids = IF d \in idx[i] THEN @ \cup {d} ELSE @]
      BY <1>5
    <2> DEFINE ids == IF d \in idx[i] THEN job[w].ids \cup {d} ELSE job[w].ids
               j == [[job[w] EXCEPT !.todo = @ \ {d}] EXCEPT !.ids = ids]
    <2>2. job[w].todo \subseteq Docs /\ ids \subseteq Docs
      BY <1>2, JobFields
    <2>3. j \in Jobs /\ j.index = i /\ j.todo = job[w].todo \ {d} /\ j.ids = ids /\ j.age = job[w].age
      BY <1>2, <2>2 DEF Jobs
    <2>4. job' = [job EXCEPT ![w] = j]
      BY <1>1, <1>2, <2>1 DEF Types, Jobs
    <2> HIDE DEF j
    <2>5. pc' = [pc EXCEPT ![w] = "scroll"]
      BY <1>1, <1>2, <2>1 DEF Types
    <2>6. /\ pc' \in [Workers -> PCs] /\ job' \in [Workers -> Jobs]
          /\ pc'[w] = "scroll" /\ job'[w] = j
          /\ \A v \in Workers \ {w} : pc'[v] = pc[v] /\ job'[v] = job[v]
      BY <1>1, <2>3, <2>4, <2>5, NewLocals DEF PCs
    <2>7. Types'
      BY <1>1, <1>3, <2>1, <2>6 DEF Types, Ok
    <2>8. PlaceOK(w)'
      BY <1>2, <1>3, <2>3, <2>6 DEF PlaceOK, AtWork, OfFix
    <2>9. job[w].age = age[i] =>
             /\ ids \cap rows[i] \subseteq idx[i]
             /\ idx[i] \ rows[i] \subseteq ids \cup (job[w].todo \ {d})
      BY <1>2 DEF Knows
    <2>10. WorkerOK(w)'
      BY <1>3, <2>3, <2>6, <2>8, <2>9 DEF WorkerOK, Knows
    <2> QED BY <1>2, <1>3, <2>6, <2>7, <2>10, AloneStep DEF AtWork
  <1>6. CASE Fail /\ Finish(w)
    <2>1. Types'
      BY <1>1, <1>3, <1>6, Finished, ReconcileBounds DEF Types, Fail
    <2>2. /\ pc'[w] = "idle" /\ WorkerOK(w)'
          /\ \A v \in Workers \ {w} : pc'[v] = pc[v] /\ job'[v] = job[v]
      BY <1>1, <1>6, Finished
    <2> QED BY <1>2, <1>3, <2>1, <2>2, AloneStep DEF AtWork
  <1> QED BY <1>4, <1>5, <1>6 DEF Scroll

LEMMA QueryStep ==
    ASSUME IInv, NEW w \in Workers, Query(w)
    PROVE IInv'
  <1>1. Types /\ Locked /\ OneAtWork /\ WorkerOK(w)
    BY TypeParts DEF IInv
  <1> DEFINE i == job[w].index
  <1>2. pc[w] = "query" /\ PlaceOK(w) /\ i \in Indexes /\ job[w] \in Jobs
        /\ (job[w].age = age[i] => Knows(w)) /\ job[w].todo = {}
    BY <1>1 DEF WorkerOK, PlaceOK, Query, Types
  <1>3. UNCHANGED <<rows, idx, recorded, running, age, changes, runs, fixes>> /\ Finish(w)
    BY DEF Query
  <1>4. /\ pc' \in [Workers -> PCs] /\ job' \in [Workers -> Jobs]
        /\ pc'[w] = "idle" /\ WorkerOK(w)'
        /\ \A v \in Workers \ {w} : pc'[v] = pc[v] /\ job'[v] = job[v]
    BY <1>1, <1>3, Finished
  <1>5. CASE Fail /\ UNCHANGED records
    <2>1. Types'
      BY <1>1, <1>3, <1>4, <1>5, ReconcileBounds DEF Types, Fail
    <2> QED BY <1>2, <1>3, <1>4, <1>5, <2>1, AloneStep DEF AtWork
  <1>6. CASE Ok /\ records' = Append(records, Compared(i, job[w].ids, rows[i], job[w].age))
    <2> DEFINE r == Compared(i, job[w].ids, rows[i], job[w].age)
               n == Len(records) + 1
    <2>1. /\ r \in Records /\ r.index = i /\ r.age = job[w].age
          /\ r.missing = rows[i] \ job[w].ids /\ r.extra = job[w].ids \ rows[i] /\ r.reborn = {}
      <3>1. job[w].ids \subseteq Docs /\ rows[i] \subseteq Docs /\ job[w].age \in Nat
        BY <1>1, <1>2, JobFields DEF Types
      <3> QED BY <1>2, <3>1 DEF Compared, Records
    <2> HIDE DEF r
    <2>2. /\ records' \in Seq(Records) /\ Len(records') = n /\ records'[n] = r
          /\ DOMAIN records' = 1..n /\ DOMAIN records = 1..Len(records)
          /\ \A k \in DOMAIN records : records'[k] = records[k] /\ records[k] \in Records
      BY <1>1, <1>6, <2>1 DEF Types, r
    <2>3. Types'
      BY <1>1, <1>3, <1>4, <1>6, <2>2 DEF Types, Ok
    <2>4. Locked' /\ OneAtWork'
      BY <1>1, <1>2, <1>3, <1>4, LocksStay DEF SameWork, AtWork
    <2>5. \A j \in Indexes : Settles(j)
      BY <1>3 DEF Settles
    <2>6. \A k \in DOMAIN records : Stands(k)
      BY <1>1, <1>3, <2>2 DEF Stands, Types
    <2>7. ASSUME NEW k \in DOMAIN records' \ DOMAIN records PROVE RecordOK(k)'
      <3>1. job[w].age <= age[i]
        BY <1>2 DEF PlaceOK
      <3>2. job[w].age = age[i] =>
              /\ r.missing \subseteq rows[i] /\ r.extra \cap rows[i] = {}
              /\ rows[i] \ idx[i] \subseteq r.missing /\ idx[i] \ rows[i] \subseteq r.extra
        BY <1>2, <2>1 DEF Knows
      <3>3. r.extra \cap rows[i] \subseteq r.reborn
        BY <2>1
      <3>4. records'[k] = r
        BY <1>1, <2>2, <2>7 DEF Types
      <3> QED BY <1>3, <2>1, <3>1, <3>2, <3>3, <3>4 DEF RecordOK
    <2> QED BY <1>4, <2>3, <2>4, <2>5, <2>6, <2>7, Together DEF World, Stays
  <1> QED BY <1>5, <1>6 DEF Query

-----------------------------------------------------------------------------
(* Fixes. *)

LEMMA FixStep ==
    ASSUME IInv, NEW w \in Workers, NEW i \in Indexes, NEW k \in DOMAIN records, Fix(w, k, i)
    PROVE IInv'
  <1>1. Types /\ RecordOK(k) /\ records[k] \in Records /\ records[k].index = i /\ k \in Nat
    BY TypeParts DEF IInv, Types, Fix, MayFix
  <1> DEFINE j == [NoJob EXCEPT !.kind = "fix", !.index = i, !.rec = k, !.age = records[k].age]
             l == IF records[k].missing = {} THEN "deletes" ELSE "fix"
  <1>2. /\ j \in Jobs /\ j.kind = "fix" /\ j.index = i /\ j.rec = k /\ j.age = records[k].age /\ j.todo = {}
        /\ records[k].age \in Nat /\ age[i] \in Nat
    BY <1>1, RecordFields DEF NoJob, Jobs, Types
  <1>3. job' = [job EXCEPT ![w] = j] /\ pc' = [pc EXCEPT ![w] = l] /\ pc[w] = "idle"
    BY DEF Fix, Begin, Goto
  <1> HIDE DEF j
  <1>4. /\ pc' \in [Workers -> PCs] /\ job' \in [Workers -> Jobs]
        /\ pc'[w] = l /\ job'[w] = j
        /\ \A v \in Workers \ {w} : pc'[v] = pc[v] /\ job'[v] = job[v]
    BY <1>1, <1>2, <1>3, NewLocals DEF PCs
  <1>5. Types'
    BY <1>1, <1>4, ReconcileBounds DEF Types, Fix
  <1>6. PlaceOK(w)'
    BY <1>1, <1>2, <1>4 DEF RecordOK, PlaceOK, AtWork, OfFix, HasRecord, Fix
  <1>7. job'[w].age = age[i] /\ records[k].missing = {} => rows[i] \subseteq idx[i]
    BY <1>1, <1>2, <1>4 DEF RecordOK
  <1>8. WorkerOK(w)'
    BY <1>2, <1>4, <1>6, <1>7 DEF WorkerOK, Knows, Fix
  <1> QED BY <1>3, <1>4, <1>5, <1>8, AloneStep DEF Fix, AtWork

LEMMA RebuildStep ==
    ASSUME IInv, NEW w \in Workers, Rebuild(w)
    PROVE IInv'
  <1>1. Types /\ Locked /\ OneAtWork /\ WorkerOK(w)
    BY TypeParts DEF IInv
  <1> DEFINE i == job[w].index
             j == [job[w] EXCEPT !.ok = FALSE]
  <1>2. pc[w] = "fix" /\ PlaceOK(w) /\ i \in Indexes /\ job[w] \in Jobs
    BY <1>1 DEF WorkerOK, PlaceOK, Rebuild, Types
  <1>3. /\ j \in Jobs /\ j.kind = job[w].kind /\ j.index = i /\ j.rec = job[w].rec
        /\ j.age = job[w].age /\ j.ok = FALSE /\ j.todo = job[w].todo
    BY <1>2 DEF Jobs
  <1> HIDE DEF j
  <1>4. CASE running[i]
    <2>1. /\ pc' \in [Workers -> PCs] /\ job' \in [Workers -> Jobs]
          /\ pc'[w] = "deletes" /\ job'[w] = j
          /\ \A v \in Workers \ {w} : pc'[v] = pc[v] /\ job'[v] = job[v]
      BY <1>1, <1>3, <1>4, NewLocals DEF PCs, Rebuild, Goto, j
    <2>2. Types'
      BY <1>1, <1>4, <2>1 DEF Types, Rebuild, counts
    <2>3. WorkerOK(w)'
      BY <1>2, <1>3, <2>1 DEF WorkerOK, PlaceOK, Knows, AtWork, OfFix, HasRecord, Rebuild
    <2> QED BY <1>2, <1>4, <2>1, <2>2, <2>3, AloneStep DEF AtWork, Rebuild
  <1>5. CASE ~running[i]
    <2>1. /\ pc' \in [Workers -> PCs] /\ job' = job /\ pc'[w] = "read"
          /\ \A v \in Workers \ {w} : pc'[v] = pc[v]
      BY <1>1, <1>5 DEF Types, Rebuild, Goto, PCs
    <2>2. running' \in [Indexes -> BOOLEAN] /\ Lock(i)
      BY <1>1, <1>5 DEF Types, Rebuild, Lock
    <2>3. Types'
      BY <1>1, <2>1, <2>2 DEF Types, Rebuild, counts
    <2>4. Locked' /\ OneAtWork'
      BY <1>1, <1>2, <1>5, <2>1, <2>2, LockTaken DEF SameWork, AtWork
    <2>5. World
      BY <1>1, SameWorld DEF Rebuild
    <2>6. WorkerOK(w)'
      BY <1>2, <2>1 DEF WorkerOK, PlaceOK, Knows, AtWork, OfFix, HasRecord, Rebuild
    <2> QED BY <2>1, <2>3, <2>4, <2>5, <2>6, Together DEF Stays, Rebuild
  <1> QED BY <1>4, <1>5

LEMMA ResolveAliasStep ==
    ASSUME IInv, NEW w \in Workers, ResolveAlias(w)
    PROVE IInv'
  <1>1. Types /\ WorkerOK(w)
    BY TypeParts DEF IInv
  <1> DEFINE i == job[w].index
             k == job[w].rec
  <1>2. /\ pc[w] = "deletes" /\ PlaceOK(w) /\ i \in Indexes /\ job[w] \in Jobs
        /\ job[w].kind = "fix" /\ HasRecord(w) /\ (job[w].age = age[i] => Knows(w))
    BY <1>1 DEF WorkerOK, PlaceOK, ResolveAlias, OfFix, Types
  <1>3. RecordOK(k) /\ records[k] \in Records /\ records[k].extra \subseteq Docs
    BY <1>1, <1>2, RecordFields DEF HasRecord, IInv, Types
  <1>4. UNCHANGED <<rows, idx, recorded, running, records, age, changes, runs, fixes>> /\ Goto(w, "done")
    BY DEF ResolveAlias
  <1>5. (* Either outcome *)
        ASSUME NEW j \in Jobs, job' = [job EXCEPT ![w] = j],
               j.kind = "fix", j.index = i, j.rec = k, j.age = job[w].age, j.ok => job[w].ok,
               j.todo \subseteq records[k].extra, j.ok => j.todo = records[k].extra,
               fails' \in 0..MaxFails
        PROVE IInv'
    <2>1. /\ pc' \in [Workers -> PCs] /\ job' \in [Workers -> Jobs]
          /\ pc'[w] = "done" /\ job'[w] = j
          /\ \A v \in Workers \ {w} : pc'[v] = pc[v] /\ job'[v] = job[v]
      BY <1>1, <1>4, <1>5, NewLocals DEF PCs, Goto
    <2>2. Types'
      BY <1>1, <1>4, <1>5, <2>1 DEF Types
    <2>3. PlaceOK(w)'
      BY <1>2, <1>4, <1>5, <2>1 DEF PlaceOK, AtWork, OfFix, HasRecord
    <2>4. job[w].age = age[i] =>
             /\ j.ok => rows[i] \subseteq idx[i]
             /\ j.ok => idx[i] \ rows[i] \subseteq j.todo
      BY <1>2, <1>3, <1>5 DEF Knows, RecordOK, HasRecord
    <2>5. WorkerOK(w)'
      BY <1>4, <1>5, <2>1, <2>3, <2>4 DEF WorkerOK, Knows
    <2> QED BY <1>2, <1>4, <2>1, <2>2, <2>5, AloneStep DEF AtWork
  <1>6. CASE Ok /\ job' = [job EXCEPT ![w].todo = records[k].extra, ![w].ids = {}]
    <2> DEFINE j == [[job[w] EXCEPT !.todo = records[k].extra] EXCEPT !.ids = {}]
    <2>1. /\ j \in Jobs /\ j.kind = "fix" /\ j.index = i /\ j.rec = k /\ j.age = job[w].age
          /\ j.ok = job[w].ok /\ j.todo = records[k].extra
      BY <1>2, <1>3 DEF Jobs
    <2>2. job' = [job EXCEPT ![w] = j]
      BY <1>1, <1>2, <1>6 DEF Types, Jobs
    <2>3. fails' \in 0..MaxFails
      BY <1>1, <1>6 DEF Ok, Types
    <2> HIDE DEF j
    <2> QED BY <1>5, <2>1, <2>2, <2>3
  <1>7. CASE Fail /\ job' = [job EXCEPT ![w].ok = FALSE, ![w].ids = {}]
    <2> DEFINE j == [[job[w] EXCEPT !.ok = FALSE] EXCEPT !.ids = {}]
    <2>1. /\ j \in Jobs /\ j.kind = "fix" /\ j.index = i /\ j.rec = k /\ j.age = job[w].age
          /\ j.ok = FALSE /\ j.todo = job[w].todo
      BY <1>2, <1>3 DEF Jobs
    <2>2. job' = [job EXCEPT ![w] = j]
      BY <1>1, <1>2, <1>7 DEF Types, Jobs
    <2>3. fails' \in 0..MaxFails
      BY <1>1, <1>7, ReconcileBounds DEF Fail, Types
    <2>4. job[w].todo = {}
      BY <1>2 DEF PlaceOK
    <2> HIDE DEF j
    <2> QED BY <1>5, <2>1, <2>2, <2>3, <2>4
  <1> QED BY <1>6, <1>7 DEF ResolveAlias

(* What is known of a fix at its deletes. *)
LEMMA AtDone ==
    ASSUME IInv, NEW w \in Workers, pc[w] = "done"
    PROVE LET i == job[w].index
              k == job[w].rec
          IN /\ PlaceOK(w) /\ HasRecord(w) /\ i \in Indexes /\ job[w] \in Jobs
             /\ k \in DOMAIN records /\ records[k] \in Records /\ RecordOK(k)
             /\ job[w].todo \subseteq records[k].extra
             /\ (job[w].age = age[i] => Knows(w) /\ job[w].todo \cap rows[i] = {})
  <1> DEFINE i == job[w].index
             k == job[w].rec
  <1>1. /\ PlaceOK(w) /\ HasRecord(w) /\ (job[w].age = age[i] => Knows(w))
    BY DEF IInv, WorkerOK, PlaceOK, OfFix
  <1>2. k \in DOMAIN records /\ RecordOK(k) /\ records[k] \in Records /\ job[w] \in Jobs
    BY <1>1, RecordAt DEF HasRecord, IInv, TypeOK
  <1>3. job[w].todo \subseteq records[k].extra /\ i \in Indexes
    BY <1>1 DEF PlaceOK
  <1>4. job[w].age = age[i] => job[w].todo \cap rows[i] = {}
    BY <1>1, <1>2, <1>3 DEF RecordOK, HasRecord
  <1> QED BY <1>1, <1>2, <1>3, <1>4

LEMMA DeleteDocStep ==
    ASSUME IInv, NEW w \in Workers, DeleteDoc(w)
    PROVE IInv'
  <1>1. Types /\ Locked /\ OneAtWork /\ pc[w] = "done"
    BY TypeParts DEF IInv, DeleteDoc
  <1> DEFINE i == job[w].index
             k == job[w].rec
  <1>2. /\ PlaceOK(w) /\ HasRecord(w) /\ i \in Indexes /\ job[w] \in Jobs
        /\ job[w].todo \subseteq records[k].extra
        /\ (job[w].age = age[i] => Knows(w) /\ job[w].todo \cap rows[i] = {})
    BY <1>1, AtDone
  <1>3. UNCHANGED <<rows, recorded, running, records, pc, changes, runs, fixes>> /\ age' = Aged(w)
    BY DEF DeleteDoc
  <1>4. PICK d \in job[w].todo :
          \/ /\ Ok
             /\ idx' = IF job[w].kind = "past" THEN idx ELSE [idx EXCEPT ![i] = @ \ {d}]
             /\ job' = [job EXCEPT ![w].todo = @ \ {d}]
          \/ /\ Fail
             /\ job' = [job EXCEPT ![w].todo = @ \ {d}, ![w].ok = FALSE]
             /\ UNCHANGED idx
    BY DEF DeleteDoc
  <1>5. PICK ok \in BOOLEAN :
          /\ ok => job[w].ok /\ (job[w].kind # "past" => idx' = [idx EXCEPT ![i] = @ \ {d}])
          /\ job' = [job EXCEPT ![w] = [[job[w] EXCEPT !.todo = @ \ {d}] EXCEPT !.ok = ok]]
    <2>1. CASE job' = [job EXCEPT ![w].todo = @ \ {d}]
               /\ idx' = IF job[w].kind = "past" THEN idx ELSE [idx EXCEPT ![i] = @ \ {d}]
      <3>1. job[w].ok \in BOOLEAN
        BY <1>2, JobFields
      <3>2. [[job[w] EXCEPT !.todo = @ \ {d}] EXCEPT !.ok = job[w].ok] = [job[w] EXCEPT !.todo = @ \ {d}]
        BY <1>2 DEF Jobs
      <3> QED BY <2>1, <3>1, <3>2
    <2>2. CASE job' = [job EXCEPT ![w].todo = @ \ {d}, ![w].ok = FALSE]
      BY <1>1, <1>2, <2>2 DEF Types, Jobs
    <2> QED BY <1>4, <2>1, <2>2
  <1> DEFINE j == [[job[w] EXCEPT !.todo = @ \ {d}] EXCEPT !.ok = ok]
  <1>6. /\ j \in Jobs /\ j.kind = job[w].kind /\ j.index = i /\ j.rec = k /\ j.age = job[w].age
        /\ j.ok = ok /\ j.todo = job[w].todo \ {d}
    BY <1>2 DEF Jobs
  <1>7. job' = [job EXCEPT ![w] = j]
    BY <1>5
  <1> HIDE DEF j
  <1>8. /\ job' \in [Workers -> Jobs] /\ job'[w] = j /\ pc'[w] = "done"
        /\ \A v \in Workers \ {w} : pc'[v] = pc[v] /\ job'[v] = job[v]
    BY <1>1, <1>3, <1>6, <1>7 DEF Types
  <1>9. idx' \in [Indexes -> SUBSET Docs] /\ (\A h \in Indexes : h # i => idx'[h] = idx[h])
        /\ idx[i] \ {d} \subseteq idx'[i] /\ idx'[i] \subseteq idx[i]
    <2>1. idx' = idx \/ idx' = [idx EXCEPT ![i] = @ \ {d}]
      BY <1>4
    <2>2. idx \in [Indexes -> SUBSET Docs] /\ idx[i] \subseteq Docs
      BY <1>1, <1>2 DEF Types
    <2>3. CASE idx' = idx
      BY <2>2, <2>3
    <2>4. CASE idx' = [idx EXCEPT ![i] = @ \ {d}]
      BY <1>2, <2>2, <2>4
    <2> QED BY <2>1, <2>3, <2>4
  <1>10. age' \in [Indexes -> Nat] /\ (\A h \in Indexes : h # i => age'[h] = age[h])
         /\ (age[i] = job[w].age => age'[i] = age[i]) /\ (age[i] # job[w].age => age[i] < age'[i])
    BY <1>1, <1>2, <1>3, AgedType
  <1>11. Types'
    <2>1. fails' \in 0..MaxFails
      BY <1>1, <1>4, ReconcileBounds DEF Types, Ok, Fail
    <2> QED BY <1>1, <1>3, <1>8, <1>9, <1>10, <2>1 DEF Types
  <1>12. World
    <2>1. Settles(i)
      BY <1>2, <1>3, <1>9, <1>10 DEF Settles
    <2>2. \A h \in Indexes : Settles(h)
      BY <1>3, <1>9, <1>10, <2>1 DEF Settles
    <2> QED BY <1>3, <2>2 DEF World, Stands
  <1>13. Locked' /\ OneAtWork'
    BY <1>1, <1>3, <1>8, LocksStay DEF SameWork, AtWork
  <1>14. PlaceOK(w)'
    <2>1. j.age <= age'[i]
      <3>1. job[w].age \in Nat /\ age[i] \in Nat /\ age'[i] \in Nat /\ job[w].age <= age[i]
        BY <1>1, <1>2, <1>10, JobFields DEF PlaceOK, Types
      <3> QED BY <1>6, <1>10, <3>1
    <2> QED BY <1>1, <1>2, <1>3, <1>6, <1>8, <2>1 DEF PlaceOK, AtWork, OfFix, HasRecord
  <1>15. ASSUME job[w].age = age'[i] PROVE Knows(w)'
    <2>1. age[i] = job[w].age
      BY <1>1, <1>2, <1>10, <1>15 DEF PlaceOK, Types
    <2>2. Knows(w) /\ d \notin rows[i]
      BY <1>2, <2>1
    <2>3. ok => rows[i] \subseteq idx'[i]
      BY <1>1, <1>5, <1>9, <2>2 DEF Knows
    <2>4. job[w].kind = "past" => idx'[i] \subseteq rows[i]
      BY <1>1, <1>9, <2>2 DEF Knows
    <2>5. ok => idx'[i] \ rows[i] \subseteq job[w].todo \ {d}
      <3>1. ok /\ job[w].kind # "past" => idx'[i] = idx[i] \ {d}
        BY <1>1, <1>2, <1>5 DEF Types
      <3> QED BY <1>1, <1>5, <1>9, <2>2, <2>4, <3>1 DEF Knows
    <2> QED BY <1>3, <1>6, <1>8, <2>3, <2>4, <2>5 DEF Knows
  <1>16. WorkerOK(w)'
    BY <1>6, <1>8, <1>14, <1>15 DEF WorkerOK
  <1> QED BY <1>3, <1>8, <1>11, <1>12, <1>13, <1>16, Together DEF Stays

LEMMA MarkFixedStep ==
    ASSUME IInv, NEW w \in Workers, MarkFixed(w)
    PROVE IInv'
  <1>1. Types /\ Locked /\ OneAtWork /\ pc[w] = "done"
    BY TypeParts DEF IInv, MarkFixed
  <1> DEFINE k == job[w].rec
             r == [records[k] EXCEPT !.status = "fixed"]
  <1>2. k \in DOMAIN records /\ records[k] \in Records
    BY <1>1, AtDone
  <1>3. /\ r \in Records /\ r.index = records[k].index /\ r.age = records[k].age
        /\ r.missing = records[k].missing /\ r.extra = records[k].extra /\ r.reborn = records[k].reborn
    BY <1>2 DEF Records
  <1>4. records' = [records EXCEPT ![k] = r] /\ Finish(w)
        /\ UNCHANGED <<rows, idx, recorded, running, age, counts>>
    BY DEF MarkFixed
  <1> HIDE DEF r
  <1>5. /\ records' \in Seq(Records) /\ DOMAIN records' = DOMAIN records
        /\ \A h \in DOMAIN records : records'[h] = IF h = k THEN r ELSE records[h]
    BY <1>1, <1>2, <1>3, <1>4 DEF Types
  <1>6. /\ pc' \in [Workers -> PCs] /\ job' \in [Workers -> Jobs]
        /\ pc'[w] = "idle" /\ WorkerOK(w)'
        /\ \A v \in Workers \ {w} : pc'[v] = pc[v] /\ job'[v] = job[v]
    BY <1>1, <1>4, Finished
  <1>7. Types'
    BY <1>1, <1>4, <1>5, <1>6 DEF Types, counts
  <1>8. Locked' /\ OneAtWork'
    BY <1>1, <1>4, <1>6, LocksStay DEF SameWork, AtWork
  <1>9. \A h \in DOMAIN records : Stands(h)
    BY <1>3, <1>4, <1>5 DEF Stands
  <1>10. \A i \in Indexes : Settles(i)
    BY <1>4 DEF Settles
  <1> QED BY <1>5, <1>6, <1>7, <1>8, <1>9, <1>10, Together DEF World, Stays

-----------------------------------------------------------------------------
(* The invariant. *)

LEMMA InvInit == Init => IInv
  <1> SUFFICES ASSUME Init PROVE IInv
    OBVIOUS
  <1>1. Types
    BY ReconcileBounds, NoJobType DEF Init, Types, PCs
  <1>2. Locked /\ OneAtWork /\ \A w \in Workers : WorkerOK(w)
    BY DEF Init, Locked, OneAtWork, AtWork, WorkerOK
  <1>3. \A k \in DOMAIN records : RecordOK(k)
    BY DEF Init
  <1> QED BY <1>1, <1>2, <1>3, TypeParts DEF IInv

LEMMA InvStep == IInv /\ [Next]_vars => IInv'
  <1> SUFFICES ASSUME IInv, [Next]_vars PROVE IInv'
    OBVIOUS
  <1>1. CASE UNCHANGED vars
    <2>1. UNCHANGED <<rows, idx, recorded, running, records, pc, job, age, changes, runs, fixes, fails>>
      BY <1>1 DEF vars, counts
    <2> QED BY <2>1 DEF IInv, TypeOK, OneAtWork, AtWork, WorkerOK, PlaceOK, OfFix, HasRecord, Knows, RecordOK
  <1>2. CASE \E i \in Indexes, d \in Docs : Insert(i, d) \/ Delete(i, d)
    BY <1>2, InsertStep, DeleteStep
  <1>3. ASSUME NEW w \in Workers, Step(w) PROVE IInv'
    BY <1>3, ReadStep, AbortStep, WriteStep, ScrollStep, QueryStep, RebuildStep, ResolveAliasStep,
       DeleteDocStep, MarkFixedStep DEF Step
  <1>4. ASSUME NEW w \in Workers, NEW i \in Indexes, NEW kind \in {"full", "incremental"}, Sync(w, i, kind)
        PROVE IInv'
    BY <1>4, SyncStep
  <1>5. ASSUME NEW w \in Workers, NEW i \in Indexes,
               StartReconcile(w, i) \/ \E k \in DOMAIN records : Fix(w, k, i)
        PROVE IInv'
    BY <1>5, StartReconcileStep, FixStep
  <1> QED BY <1>1, <1>2, <1>3, <1>4, <1>5 DEF Next

(* At most one worker at a time is at work on an index, a fix deletes ids  *)
(* of its own record only, and what a comparison, a record or a fix        *)
(* remembers is true of the index while the index has its age              *)
(* (reconcile.go:69-141; engine.go:360-374).                 *)
THEOREM Invariant == Spec => []IInv
  BY InvInit, InvStep, PTL DEF Spec

(* Every variable has its type, and an index is locked exactly while a run *)
(* is at work on it (engine.go:360-374: running).                            *)
THEOREM TypeCorrect == Spec => []TypeOK
  <1>1. IInv => TypeOK
    BY DEF IInv
  <1> QED BY <1>1, Invariant, PTL

(* A worker at its deletes is left there by the steps of the others.       *)
LEMMA OnlyDeletes ==
    ASSUME IInv, Next, NEW w \in Workers, pc[w] = "done",
           pc'[w] # "done" \/ job'[w].todo # job[w].todo
    PROVE DeleteDoc(w) \/ MarkFixed(w)
  <1> DEFINE Left == pc'[w] = "done" /\ job'[w].todo = job[w].todo
  <1>1. Types /\ job[w] \in Jobs /\ [job[w] EXCEPT !.kind = "past"].todo = job[w].todo
    BY TypeParts DEF IInv, Types, Jobs
  <1>2. ASSUME NEW i \in Indexes, NEW d \in Docs, Insert(i, d) \/ Delete(i, d) PROVE Left
    BY <1>2 DEF Insert, Delete
  <1>3. ASSUME NEW v \in Workers, NEW j, NEW l, v # w,
               job' = [job EXCEPT ![v] = j] \/ UNCHANGED job,
               pc' = [pc EXCEPT ![v] = l] \/ UNCHANGED pc
        PROVE Left
    BY <1>1, <1>3 DEF Types
  <1>4. ASSUME NEW v \in Workers, Step(v), v # w PROVE Left
    <2>1. CASE Read(v)
      BY <1>3, <1>4, <2>1 DEF Read, Goto
    <2>9. CASE Abort(v)
      BY <1>3, <1>4, <2>9 DEF Abort, Goto, Finish
    <2>2. CASE Write(v)
      <3>1. job[v].kind \in {"full", "incremental", "fix"}
        BY <2>2 DEF Write, IInv, WorkerOK, PlaceOK, AtWork
      <3>2. \E j, l : /\ pc' = [pc EXCEPT ![v] = l]
                      /\ job' = SwitchTo(v, j) \/ job' = [job EXCEPT ![v] = j] \/ UNCHANGED job
        BY <2>2, <3>1 DEF Write, Finish, Goto, SwitchTo
      <3>3. PICK j, l : /\ pc' = [pc EXCEPT ![v] = l]
                        /\ job' = SwitchTo(v, j) \/ job' = [job EXCEPT ![v] = j] \/ UNCHANGED job
        BY <3>2
      <3>4. CASE job' = SwitchTo(v, j)
        BY <1>1, <1>4, <3>3, <3>4 DEF SwitchTo, Types
      <3> QED BY <1>3, <1>4, <3>3, <3>4
    <2>3. CASE Scroll(v)
      BY <1>3, <1>4, <2>3 DEF Scroll, Goto, Finish
    <2>4. CASE Query(v)
      BY <1>3, <1>4, <2>4 DEF Query, Goto, Finish
    <2>5. CASE Rebuild(v)
      BY <1>3, <1>4, <2>5 DEF Rebuild, Goto
    <2>6. CASE ResolveAlias(v)
      BY <1>3, <1>4, <2>6 DEF ResolveAlias, Goto
    <2>7. CASE DeleteDoc(v)
      BY <1>3, <1>4, <2>7 DEF DeleteDoc
    <2>8. CASE MarkFixed(v)
      BY <1>3, <1>4, <2>8 DEF MarkFixed, Goto, Finish
    <2> QED BY <1>4, <2>1, <2>2, <2>3, <2>4, <2>5, <2>6, <2>7, <2>8, <2>9 DEF Step
  <1>5. ASSUME NEW v \in Workers, NEW i \in Indexes,
               \/ \E kind \in {"full", "incremental"} : Sync(v, i, kind)
               \/ StartReconcile(v, i)
               \/ \E k \in DOMAIN records : Fix(v, k, i)
        PROVE Left
    <2>1. v # w
      BY <1>5 DEF Sync, StartReconcile, Fix, Begin
    <2> QED BY <1>3, <1>5, <2>1 DEF Sync, StartReconcile, Fix, Begin, Goto
  <1>6. Step(w) => DeleteDoc(w) \/ MarkFixed(w)
    BY DEF Step, Read, Abort, Write, Scroll, Query, Rebuild, ResolveAlias
  <1> QED BY <1>2, <1>4, <1>5, <1>6 DEF Next

(* A fix takes from the readers only documents without a row, or of a row  *)
(* that came back after the rows were compared (reconcile.go:69-85,        *)
(* 112-115): what is deleted is in the record, the record has no id that   *)
(* had a row when it was made, and it is a record of this index.           *)
THEOREM FixesDeleteOnlyRowless == Spec => DeletesOnlyRowless
  <1>1. IInv /\ [Next]_vars =>
          \A w \in Workers : pc[w] = "done" /\ job'[w].todo # job[w].todo =>
             \A i \in Indexes : \A d \in idx[i] \ idx'[i] :
                d \in rows[i] => d \in records[job[w].rec].reborn
    <2> SUFFICES ASSUME IInv, [Next]_vars, NEW w \in Workers,
                        pc[w] = "done", job'[w].todo # job[w].todo,
                        NEW i \in Indexes, NEW d \in idx[i] \ idx'[i], d \in rows[i]
                 PROVE d \in records[job[w].rec].reborn
      OBVIOUS
    <2>1. Types /\ Next
      BY TypeParts DEF IInv, vars
    <2>2. DeleteDoc(w) \/ MarkFixed(w)
      BY <2>1, OnlyDeletes
    <2>3. CASE MarkFixed(w)
      BY <2>3 DEF MarkFixed
    <2>4. CASE DeleteDoc(w)
      <3>1. /\ job[w].index \in Indexes /\ HasRecord(w) /\ RecordOK(job[w].rec)
            /\ job[w].todo \subseteq records[job[w].rec].extra
        BY AtDone
      <3>2. i = job[w].index /\ d \in job[w].todo
        BY <2>1, <2>4, <3>1 DEF DeleteDoc, Types
      <3> QED BY <3>1, <3>2 DEF RecordOK, HasRecord
    <2> QED BY <2>2, <2>3, <2>4
  <1> QED BY <1>1, Invariant, PTL DEF Spec, DeletesOnlyRowless

(* A fix that saw no error and wrote to the index behind the alias, of an  *)
(* index nothing happened to since it was compared, leaves exactly the ids *)
(* of the rows (reconcile.go:106-141; engine.go:124-147).                  *)
THEOREM FixesRepair == Spec => FixRepairs
  <1>1. IInv /\ [Next]_vars =>
          \A w \in Workers : (pc[w] = "done" /\ pc'[w] = "idle") =>
             LET i == job[w].index IN
             job[w].ok /\ age[i] = job[w].age => idx[i] = rows[i]
    <2> SUFFICES ASSUME IInv, [Next]_vars, NEW w \in Workers, pc[w] = "done", pc'[w] = "idle",
                        job[w].ok, age[job[w].index] = job[w].age
                 PROVE idx[job[w].index] = rows[job[w].index]
      OBVIOUS
    <2>1. Types /\ Next
      BY TypeParts DEF IInv, vars
    <2>2. DeleteDoc(w) \/ MarkFixed(w)
      BY <2>1, OnlyDeletes
    <2>3. job[w].todo = {}
      BY <2>2 DEF DeleteDoc, MarkFixed
    <2>4. Knows(w) /\ job[w].index \in Indexes
      BY AtDone
    <2> QED BY <2>3, <2>4 DEF Knows
  <1> QED BY <1>1, Invariant, PTL DEF Spec, FixRepairs
=============================================================================

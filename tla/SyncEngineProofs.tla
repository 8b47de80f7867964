-------------------------- MODULE SyncEngineProofs --------------------------
(***************************************************************************)
(* Proofs about SyncEngine, for every number of callers, rows, indexes,    *)
(* failures, crashes and cleanups.                                         *)
(***************************************************************************)
EXTENDS SyncEngineInv, FiniteSetTheorems, TLAPS

(* The number of rows of any part of the source is a natural number. *)
LEMMA DocsCount == ASSUME NEW S \in SUBSET Docs PROVE Cardinality(S) \in Nat
BY DataAssumption, FS_Subset, FS_CardinalityType

(* What the builder selects is a set of rows, and LastCursor a stamp. *)
LEMMA BuildType ==
    ASSUME SourceOK, NEW r \in Runs, NEW from \in Nat, NEW last \in LastCursors(r, from)
    PROVE  RowsOf(r, from) \subseteq Docs /\ last \in Nat
<1>1. RowsOf(r, from) \subseteq Docs
  BY DEF RowsOf, Selected
<1>2. CASE r.kind = "incremental" /\ RowsOf(r, from) # {}
  <2>1. PICK d \in RowsOf(r, from) : last = stamp[d]
    BY <1>2 DEF LastCursors
  <2> QED BY <1>1, <2>1 DEF SourceOK
<1>3. CASE ~(r.kind = "incremental" /\ RowsOf(r, from) # {})
  BY <1>1, <1>3 DEF LastCursors
<1> QED BY <1>2, <1>3

(* What the builder leaves in the locals: the rows of now that it selects, *)
(* to be sent, and a LastCursor; or nothing, and the run is over.          *)
BuiltFrom(c, from, last) ==
    /\ \/ from = cursor
       \/ from = 0 /\ run[c].kind = "incremental"
    /\ last \in LastCursors(run[c], from)
    /\ run'[c].docs = [d \in Docs |-> IF d \in RowsOf(run[c], from) THEN ver[d] ELSE 0]
    /\ run'[c].todo = RowsOf(run[c], from)
    /\ run'[c].last = last
    /\ run'[c].kind = run[c].kind /\ run'[c].index = run[c].index
    /\ run'[c].failedIDs = run[c].failedIDs

LEMMA BuildStep ==
    ASSUME TypeOK, NEW c \in Callers, Build(c)
    PROVE  \/ pc' = [pc EXCEPT ![c] = "unlock"] /\ run' = run
           \/ /\ pc' = [pc EXCEPT ![c] = "bulk"]
              /\ run'[c] \in Runs /\ run' = [run EXCEPT ![c] = run'[c]]
              /\ \E from, last \in Nat : BuiltFrom(c, from, last)
<1>1. run \in [Callers -> Runs] /\ run[c] \in Runs /\ cursor \in Nat /\ SourceOK
  BY DEF TypeOK, RunsOK, MetaOK
<1>2. ASSUME NEW from \in Nat, from = cursor \/ (from = 0 /\ run[c].kind = "incremental"), ReadRows(c, from)
      PROVE  /\ run'[c] \in Runs /\ run' = [run EXCEPT ![c] = run'[c]]
             /\ \E f, last \in Nat : BuiltFrom(c, f, last)
  <2> DEFINE rows == RowsOf(run[c], from)
             docs == [d \in Docs |-> IF d \in rows THEN ver[d] ELSE 0]
  <2>1. PICK last \in LastCursors(run[c], from) :
           run' = [run EXCEPT ![c].docs = docs, ![c].todo = rows, ![c].last = last]
    BY <1>2 DEF ReadRows
  <2>2. rows \subseteq Docs /\ last \in Nat
    BY <1>1, BuildType
  <2>3. docs \in [Docs -> Nat]
    BY <1>1 DEF SourceOK
  <2> DEFINE s == [run[c] EXCEPT !.docs = docs, !.todo = rows, !.last = last]
  <2>4. s \in Runs /\ s.docs = docs /\ s.todo = rows /\ s.last = last /\ s.kind = run[c].kind
        /\ s.index = run[c].index /\ s.failedIDs = run[c].failedIDs
    <3> HIDE DEF docs, rows
    <3> QED BY <1>1, <2>2, <2>3 DEF Runs
  <2>5. run' = [run EXCEPT ![c] = s]
    BY <2>1
  <2> HIDE DEF s
  <2>6. run'[c] = s
    BY <1>1, <2>5
  <2>7. BuiltFrom(c, from, last)
    BY <1>2, <2>4, <2>6 DEF BuiltFrom
  <2> QED BY <2>2, <2>4, <2>5, <2>6, <2>7
<1>3. CASE Goto(c, "bulk") /\ ReadRows(c, cursor)
  BY <1>1, <1>2, <1>3 DEF Goto
<1>4. CASE Goto(c, "bulk") /\ run[c].kind = "incremental" /\ ReadRows(c, 0)
  <2>1. 0 \in Nat
    OBVIOUS
  <2> QED BY <1>2, <1>4, <2>1 DEF Goto
<1> QED BY <1>3, <1>4 DEF Build, Goto

(* A new run of any kind, and the locals of an idle caller. *)
LEMMA NewRunType ==
    ASSUME NEW k \in Kinds, NEW I \in SUBSET Docs
    PROVE  NewRun(k, I) \in Runs /\ NewRun(k, I).index = 0
BY BoundAssumption DEF NewRun, Runs, Nothing

LEMMA NoRunType == NoRun \in Runs /\ NoRun.index = 0
BY NewRunType DEF NoRun, Kinds

-----------------------------------------------------------------------------
(* Type correctness, together with the order of names it rests on.         *)

LEMMA TypeInit == Init => TypeInv
<1> SUFFICES ASSUME Init PROVE TypeInv
  OBVIOUS
<1>1. SourceOK
  BY DEF Init, SourceOK
<1>2. ZincOK /\ ZincNames
  BY BoundAssumption DEF Init, ZincOK, ZincNames, Nothing
<1>3. MetaOK /\ MetaNames
  <2>1. writeIndex \in 0..MaxIndex /\ writeIndex <= created /\ cursor \in Nat
    BY BoundAssumption DEF Init
  <2>2. failedMark \in BOOLEAN
    BY DEF Init
  <2> QED BY <2>1, <2>2, Zenon DEF MetaOK, MetaNames
<1>4. RunsOK /\ RunNames
  <2>1. pc \in [Callers -> RunPCs] /\ run \in [Callers -> Runs]
    BY NoRunType DEF Init, RunPCs
  <2>2. running \in BOOLEAN
    BY DEF Init
  <2>3. RunNames
    BY NoRunType DEF Init, RunNames, HasIndexPCs
  <2> QED BY <2>1, <2>2, <2>3, Zenon DEF RunsOK
<1>5. CleanupOK /\ CleanupNames
  BY BoundAssumption DEF Init, CleanupOK, CleanupNames, CleanupPCs
<1>6. CountersOK
  BY BoundAssumption DEF Init, CountersOK
<1> QED BY <1>1, <1>2, <1>3, <1>4, <1>5, <1>6 DEF TypeInv, TypeOK, NamesInOrder

(* A step that leaves a group of variables alone keeps what is known of it; *)
(* creating an index only makes more names old.                            *)
LEMMA TypeFrame ==
    ASSUME TypeInv
    PROVE  /\ UNCHANGED sourceVars => SourceOK'
           /\ UNCHANGED zincVars => ZincOK' /\ ZincNames'
           /\ UNCHANGED metaVars => MetaOK'
           /\ UNCHANGED metaVars /\ created' \in {created, created + 1} => MetaNames'
           /\ UNCHANGED runVars => RunsOK'
           /\ UNCHANGED runVars /\ created' \in {created, created + 1} => RunNames'
           /\ UNCHANGED cleanupVars => CleanupOK'
           /\ UNCHANGED toDelete /\ created' \in {created, created + 1} => CleanupNames'
<1>1. UNCHANGED sourceVars => SourceOK'
  BY DEF TypeInv, TypeOK, SourceOK, sourceVars
<1>2. UNCHANGED zincVars => ZincOK' /\ ZincNames'
  BY DEF TypeInv, TypeOK, NamesInOrder, ZincOK, ZincNames, zincVars
<1>3. UNCHANGED metaVars => MetaOK'
  BY DEF TypeInv, TypeOK, MetaOK, metaVars
<1>4. UNCHANGED metaVars /\ created' \in {created, created + 1} => MetaNames'
  BY DEF TypeInv, TypeOK, NamesInOrder, MetaOK, ZincOK, MetaNames, metaVars
<1>5. UNCHANGED runVars => RunsOK'
  BY DEF TypeInv, TypeOK, RunsOK, runVars
<1>6. UNCHANGED runVars /\ created' \in {created, created + 1} => RunNames'
  BY DEF TypeInv, TypeOK, NamesInOrder, RunsOK, ZincOK, RunNames, runVars, Runs
<1>7. UNCHANGED cleanupVars => CleanupOK'
  BY DEF TypeInv, TypeOK, CleanupOK, cleanupVars
<1>8. UNCHANGED toDelete /\ created' \in {created, created + 1} => CleanupNames'
  BY DEF TypeInv, TypeOK, NamesInOrder, CleanupOK, ZincOK, CleanupNames, Index
<1> QED BY <1>1, <1>2, <1>3, <1>4, <1>5, <1>6, <1>7, <1>8

(* A step of one caller: the others keep their locals. *)
LEMMA LocalStep ==
    ASSUME TypeInv, NEW c \in Callers, NEW r \in Runs, NEW l \in RunPCs,
           run' = [run EXCEPT ![c] = r], pc' = [pc EXCEPT ![c] = l],
           running' \in BOOLEAN,
           created' \in {created, created + 1},
           r.index <= created', l \in HasIndexPCs => r.index > 0
    PROVE  RunsOK' /\ RunNames'
<1>1. RunsOK'
  BY DEF TypeInv, TypeOK, RunsOK
<1>2. ASSUME NEW e \in Callers
      PROVE  run'[e].index <= created' /\ (pc'[e] \in HasIndexPCs => run'[e].index > 0)
  <2>1. CASE e = c
    BY <2>1 DEF TypeInv, TypeOK, RunsOK
  <2>2. CASE e # c
    <3>1. run'[e] = run[e] /\ pc'[e] = pc[e]
      BY <2>2 DEF TypeInv, TypeOK, RunsOK
    <3>2. run[e].index \in Nat /\ run[e].index <= created /\ created \in Nat
      BY DEF TypeInv, TypeOK, NamesInOrder, RunsOK, ZincOK, RunNames, Runs
    <3>3. pc[e] \in HasIndexPCs => run[e].index > 0
      BY DEF TypeInv, NamesInOrder, RunNames
    <3> QED BY <3>1, <3>2, <3>3
  <2> QED BY <2>1, <2>2
<1> QED BY <1>1, <1>2 DEF RunNames

(* fails, whether the call goes well or not. *)
LEMMA TypeFails ==
    ASSUME TypeInv, Ok \/ Fail, UNCHANGED crashes PROVE CountersOK'
BY BoundAssumption DEF TypeInv, TypeOK, CountersOK, Ok, Fail

LEMMA TypeSource == ASSUME TypeInv, Source PROVE TypeInv'
<1> SUFFICES ASSUME NEW d \in Docs, RowChange(d) \/ RowGone(d) PROVE TypeInv'
  BY DEF Source
<1>1. SourceOK'
  <2>1. CASE RowChange(d)
    <3>1. PICK t \in Ticks : /\ clock' = clock + t /\ stamp' = [stamp EXCEPT ![d] = clock + t]
                             /\ late' = [late EXCEPT ![d] = Reached(clock + t)]
      BY <2>1 DEF RowChange
    <3>2. t \in Nat
      BY DataAssumption
    <3>3. Reached(clock + t) \in BOOLEAN
      BY DEF Reached
    <3>4. ver' \in [Docs -> Nat] /\ stamp' \in [Docs -> Nat] /\ clock' \in Nat /\ changes' \in Nat
      BY <2>1, <3>1, <3>2 DEF RowChange, TypeInv, TypeOK, SourceOK
    <3>5. late' \in [Docs -> BOOLEAN]
      <4> DEFINE b == Reached(clock + t)
      <4>1. b \in BOOLEAN /\ late' = [late EXCEPT ![d] = b]
        BY <3>1, <3>3
      <4> HIDE DEF b
      <4> QED BY <4>1 DEF TypeInv, TypeOK, SourceOK
    <3>6. lost' \in [Docs -> BOOLEAN]
      BY <2>1 DEF RowChange, TypeInv, TypeOK, SourceOK
    <3> QED BY <3>4, <3>5, <3>6 DEF SourceOK
  <2>2. CASE RowGone(d)
    BY <2>2 DEF RowGone, TypeInv, TypeOK, SourceOK
  <2> QED BY <2>1, <2>2
<1>2. UNCHANGED <<zincVars, metaVars, runVars, cleanupVars, fails, crashes>>
  BY DEF RowChange, RowGone
<1>3. CountersOK'
  BY <1>2 DEF TypeInv, TypeOK, CountersOK
<1> QED BY <1>1, <1>2, <1>3, TypeFrame DEF TypeInv, TypeOK, NamesInOrder, zincVars, cleanupVars

LEMMA TypeTrigger ==
    ASSUME TypeInv, NEW c \in Callers, NEW k \in Requested, NEW I \in IdSets(k), Trigger(c, k, I)
    PROVE  TypeInv'
<1>1. k \in Kinds /\ I \in SUBSET Docs
  BY DataAssumption DEF Kinds, IdSets
<1>2. NewRun(k, I) \in Runs /\ NewRun(k, I).index = 0
  BY <1>1, NewRunType
<1>3. UNCHANGED <<sourceVars, zincVars, metaVars, cleanupVars, fails, crashes>>
  BY DEF Trigger
<1>4. RunsOK' /\ RunNames'
  <2>1. run' = [run EXCEPT ![c] = NewRun(k, I)] /\ pc' = [pc EXCEPT ![c] = "open"] /\ running' \in BOOLEAN
    BY DEF Trigger, Goto
  <2>2. created' = created /\ created \in Nat
    BY <1>3 DEF zincVars, TypeInv, TypeOK, ZincOK
  <2> DEFINE s == NewRun(k, I)
  <2>3. s \in Runs /\ s.index <= created' /\ run' = [run EXCEPT ![c] = s]
    BY <1>2, <2>1, <2>2
  <2>4. "open" \in RunPCs /\ "open" \notin HasIndexPCs
    BY DEF RunPCs, HasIndexPCs
  <2> HIDE DEF s
  <2> QED BY <2>1, <2>2, <2>3, <2>4, LocalStep
<1>5. CountersOK'
  BY <1>3 DEF TypeInv, TypeOK, CountersOK
<1> QED BY <1>3, <1>4, <1>5, TypeFrame DEF TypeInv, TypeOK, NamesInOrder, zincVars, cleanupVars

(* The steps of runSync, one by one. *)
LEMMA TypeRunStep == ASSUME TypeInv, NEW c \in Callers, RunStep(c) PROVE TypeInv'
<1> DEFINE r == run[c]
<1>0. /\ r \in Runs /\ pc[c] \in RunPCs /\ run = [run EXCEPT ![c] = r]
      /\ r.index \in 0..MaxIndex /\ r.index <= created /\ created \in 0..MaxIndex
      /\ pc[c] \in HasIndexPCs => r.index > 0
      /\ running \in BOOLEAN
  BY DEF TypeInv, TypeOK, NamesInOrder, RunsOK, ZincOK, RunNames, Runs
<1>1. CASE OpenIndex(c)
  <2>1. UNCHANGED <<running, sourceVars, zincVars, metaVars, cleanupVars, crashes>>
    BY <1>1 DEF OpenIndex
  <2>2. RunsOK' /\ RunNames'
    <3>1. CASE /\ r.kind # "full" /\ GetWriteIndex # 0
               /\ run' = [run EXCEPT ![c].index = GetWriteIndex] /\ pc' = [pc EXCEPT ![c] = "build"]
      <4>1. GetWriteIndex = writeIndex
        BY <3>1 DEF GetWriteIndex
      <4>2. writeIndex \in 1..created
        BY <3>1, <4>1 DEF TypeInv, TypeOK, NamesInOrder, MetaOK, MetaNames, ZincOK
      <4>3. run' = [run EXCEPT ![c] = [r EXCEPT !.index = writeIndex]] /\ pc' = [pc EXCEPT ![c] = "build"]
        BY <3>1, <4>1
      <4> DEFINE s == [r EXCEPT !.index = writeIndex]
      <4>4. writeIndex \in 0..MaxIndex
        BY DEF TypeInv, TypeOK, MetaOK
      <4>5. s \in Runs /\ s.index = writeIndex
        BY <1>0, <4>4 DEF Runs
      <4>6. run' = [run EXCEPT ![c] = s]
        BY <4>3
      <4> HIDE DEF s
      <4>7. created' \in {created, created + 1} /\ s.index <= created' /\ s.index > 0
        BY <1>0, <2>1, <4>2, <4>5 DEF zincVars
      <4>8. "build" \in RunPCs /\ running' \in BOOLEAN
        BY <1>0, <2>1 DEF RunPCs
      <4> QED BY <4>3, <4>5, <4>6, <4>7, <4>8, LocalStep
    <3>2. ASSUME NEW l \in {"create", "unlock"}, run' = run, pc' = [pc EXCEPT ![c] = l]
          PROVE  RunsOK' /\ RunNames'
      <4>1. run' = [run EXCEPT ![c] = r]
        BY <1>0, <3>2
      <4>2. l \in RunPCs /\ l \notin HasIndexPCs
        BY DEF RunPCs, HasIndexPCs
      <4>3. created' \in {created, created + 1} /\ r.index <= created' /\ running' \in BOOLEAN
        BY <1>0, <2>1 DEF zincVars
      <4> QED BY <1>0, <3>2, <4>1, <4>2, <4>3, LocalStep
    <3> QED BY <1>1, <3>1, <3>2 DEF OpenIndex, Goto
  <2>3. CountersOK'
    BY <1>1, <2>1, TypeFails DEF OpenIndex
  <2> QED BY <2>1, <2>2, <2>3, TypeFrame DEF TypeInv, TypeOK, NamesInOrder, zincVars, cleanupVars
<1>2. CASE CreateIndex(c)
  <2>1. UNCHANGED <<running, sourceVars, zdoc, alias, metaVars, cleanupVars, crashes>>
    BY <1>2 DEF CreateIndex
  <2>2. /\ created' \in {created, created + 1} /\ created' \in 0..MaxIndex
        /\ exist' \subseteq exist \cup {created'} /\ (created' = created => exist' = exist)
    BY <1>0, <1>2, BoundAssumption DEF CreateIndex
  <2>3. ZincOK' /\ ZincNames'
    BY <2>1, <2>2, BoundAssumption DEF TypeInv, TypeOK, NamesInOrder, ZincOK, ZincNames, Index
  <2>4. RunsOK' /\ RunNames'
    <3>1. CASE pc' = [pc EXCEPT ![c] = "unlock"] /\ run' = run
      <4>1. r.index <= created'
        BY <1>0, <2>2
      <4>2. "unlock" \in RunPCs /\ "unlock" \notin HasIndexPCs
        BY DEF RunPCs, HasIndexPCs
      <4>3. running' \in BOOLEAN /\ run' = [run EXCEPT ![c] = r]
        BY <1>0, <2>1, <3>1
      <4> QED BY <1>0, <2>2, <3>1, <4>1, <4>2, <4>3, LocalStep
    <3>2. CASE /\ pc' = [pc EXCEPT ![c] = "record"]
               /\ created' = created + 1
               /\ run' = [run EXCEPT ![c].index = created + 1]
      <4> DEFINE s == [r EXCEPT !.index = created + 1]
      <4>1. s \in Runs /\ s.index = created + 1
        BY <1>0, <2>2, <3>2 DEF Runs
      <4>2. run' = [run EXCEPT ![c] = s]
        BY <3>2
      <4> HIDE DEF s
      <4>3. created' \in {created, created + 1} /\ s.index <= created' /\ s.index > 0
        BY <1>0, <3>2, <4>1
      <4>4. "record" \in RunPCs /\ running' \in BOOLEAN
        BY <1>0, <2>1 DEF RunPCs
      <4> QED BY <3>2, <4>1, <4>2, <4>3, <4>4, LocalStep
    <3> QED BY <1>2, <3>1, <3>2 DEF CreateIndex, Goto
  <2>5. CountersOK'
    BY <1>2, <2>1, TypeFails DEF CreateIndex
  <2> QED BY <2>1, <2>2, <2>3, <2>4, <2>5, TypeFrame DEF TypeInv, TypeOK, NamesInOrder, cleanupVars
<1>3. CASE RecordWriteIndex(c)
  <2>1. UNCHANGED <<running, run, cursor, sourceVars, zincVars, cleanupVars, crashes>>
    BY <1>3 DEF RecordWriteIndex
  <2>2. MetaOK' /\ MetaNames'
    <3>1. CASE UNCHANGED <<writeIndex, failedMark>>
      BY <2>1, <3>1, TypeFrame DEF metaVars, zincVars
    <3>2. CASE writeIndex' = r.index /\ failedMark' = FALSE
      BY <1>0, <2>1, <3>2 DEF TypeInv, TypeOK, MetaOK, MetaNames, zincVars
    <3> QED BY <1>3, <3>1, <3>2 DEF RecordWriteIndex
  <2>3. RunsOK' /\ RunNames'
    <3>1. PICK l \in {"build", "unlock"} : pc' = [pc EXCEPT ![c] = l]
      BY <1>3 DEF RecordWriteIndex, Goto
    <3>2. r.index > 0
      BY <1>0, <1>3 DEF RecordWriteIndex, HasIndexPCs
    <3> QED BY <1>0, <2>1, <3>1, <3>2, LocalStep DEF RunPCs, zincVars
  <2>4. CountersOK'
    BY <1>3, <2>1, TypeFails DEF RecordWriteIndex
  <2> QED BY <2>1, <2>2, <2>3, <2>4, TypeFrame DEF TypeInv, TypeOK, NamesInOrder, zincVars, cleanupVars
<1>4. CASE Build(c)
  <2>1. UNCHANGED <<running, sourceVars, zincVars, metaVars, cleanupVars, crashes>>
    BY <1>4 DEF Build
  <2>2. r.index > 0
    BY <1>0, <1>4 DEF Build, HasIndexPCs
  <2>3. RunsOK' /\ RunNames'
    <3>1. CASE run' = run /\ pc' = [pc EXCEPT ![c] = "unlock"]
      BY <1>0, <2>1, <3>1, LocalStep DEF RunPCs, HasIndexPCs, zincVars
    <3>2. ASSUME pc' = [pc EXCEPT ![c] = "bulk"], run'[c] \in Runs, run' = [run EXCEPT ![c] = run'[c]],
                 NEW from \in Nat, NEW last \in Nat, BuiltFrom(c, from, last)
          PROVE  RunsOK' /\ RunNames'
      <4> DEFINE s == run'[c]
      <4>1. s \in Runs /\ run' = [run EXCEPT ![c] = s] /\ s.index = r.index
        BY <3>2 DEF BuiltFrom
      <4> HIDE DEF s
      <4> QED BY <1>0, <2>1, <2>2, <3>2, <4>1, LocalStep DEF RunPCs, zincVars
    <3> QED BY <1>4, <3>1, <3>2, BuildStep DEF TypeInv
  <2>4. CountersOK'
    BY <1>4, <2>1, TypeFails DEF Build
  <2> QED BY <2>1, <2>3, <2>4, TypeFrame DEF TypeInv, TypeOK, NamesInOrder, zincVars, cleanupVars
<1>5. CASE BulkBatch(c)
  <2>1. UNCHANGED <<running, pc, alias, created, sourceVars, metaVars, cleanupVars, crashes>>
    BY <1>5 DEF BulkBatch
  <2>2. r.index > 0 /\ r.index \in Index
    BY <1>0, <1>5 DEF BulkBatch, HasIndexPCs, Index
  <2>3. PICK B \in SUBSET Docs :
           /\ \E A \in SUBSET B : Store(r.index, A, r.docs)
           /\ \E F \in SUBSET Docs : run' = [run EXCEPT ![c].todo = r.todo \ B, ![c].failedIDs = F]
    <3>1. PICK B \in Batches(r.todo) :
          \/ /\ Store(r.index, B, r.docs)
             /\ run' = [run EXCEPT ![c].todo = r.todo \ B]
          \/ /\ \E A \in SUBSET B : Store(r.index, A, r.docs)
             /\ run' = [run EXCEPT ![c].todo = r.todo \ B,
                                   ![c].failedIDs = IF FailuresShow THEN r.failedIDs \cup B ELSE r.failedIDs]
      BY <1>5 DEF BulkBatch
    <3>2. B \subseteq Docs /\ r.failedIDs \subseteq Docs
      BY <1>0, <3>1 DEF Batches, Runs
    <3>3. CASE Store(r.index, B, r.docs) /\ run' = [run EXCEPT ![c].todo = r.todo \ B]
      <4>1. run' = [run EXCEPT ![c].todo = r.todo \ B, ![c].failedIDs = r.failedIDs]
        BY <1>0, <3>3 DEF TypeInv, TypeOK, RunsOK, Runs
      <4> QED BY <3>2, <3>3, <4>1
    <3>4. CASE /\ \E A \in SUBSET B : Store(r.index, A, r.docs)
               /\ run' = [run EXCEPT ![c].todo = r.todo \ B,
                                     ![c].failedIDs = IF FailuresShow THEN r.failedIDs \cup B ELSE r.failedIDs]
      BY <3>2, <3>4
    <3> QED BY <3>1, <3>3, <3>4
  <2>4. RunsOK' /\ RunNames'
    <3>1. PICK F \in SUBSET Docs : run' = [run EXCEPT ![c].todo = r.todo \ B, ![c].failedIDs = F]
      BY <2>3
    <3> DEFINE s == [r EXCEPT !.todo = r.todo \ B, !.failedIDs = F]
    <3>2. s \in Runs /\ s.index = r.index
      BY <1>0 DEF Runs
    <3>3. run' = [run EXCEPT ![c] = s] /\ pc' = [pc EXCEPT ![c] = pc[c]]
      BY <2>1, <3>1 DEF TypeInv, TypeOK, RunsOK
    <3> HIDE DEF s
    <3> QED BY <1>0, <2>1, <2>2, <3>2, <3>3, LocalStep
  <2>5. ZincOK' /\ ZincNames'
    <3>1. PICK A \in SUBSET Docs : Store(r.index, A, r.docs)
      BY <2>3
    <3>2. r.docs \in [Docs -> Nat]
      BY <1>0 DEF Runs
    <3>3. zdoc' \in [Index -> [Docs -> Nat]] /\ \A i \in Index : i # r.index => zdoc'[i] = zdoc[i]
      BY <2>2, <3>1, <3>2 DEF Store, TypeInv, TypeOK, ZincOK
    <3>4. exist' \subseteq Index
      BY <2>2, <3>1 DEF Store, TypeInv, TypeOK, ZincOK
    <3>5. ZincOK'
      BY <2>1, <3>3, <3>4 DEF TypeInv, TypeOK, ZincOK
    <3>6. \A i \in Index : i > created' => zdoc'[i] = Nothing
      BY <1>0, <2>1, <2>2, <3>3 DEF TypeInv, NamesInOrder, ZincNames, Index
    <3> QED BY <2>1, <3>5, <3>6 DEF TypeInv, NamesInOrder, ZincNames
  <2>6. CountersOK'
    BY <1>5, <2>1, TypeFails DEF BulkBatch
  <2> QED BY <2>1, <2>4, <2>5, <2>6, TypeFrame DEF TypeInv, TypeOK, NamesInOrder, cleanupVars
<1>6. CASE FinishBulk(c)
  <2>1. UNCHANGED <<running, run, sourceVars, zincVars, metaVars, cleanupVars, fails, crashes>>
    BY <1>6 DEF FinishBulk
  <2>2. r.index > 0
    BY <1>0, <1>6 DEF FinishBulk, HasIndexPCs
  <2>3. PICK l \in {"mark", "gate", "cursor", "unlock"} : pc' = [pc EXCEPT ![c] = l]
    BY <1>6 DEF FinishBulk, Goto
  <2>4. RunsOK' /\ RunNames'
    BY <1>0, <2>1, <2>2, <2>3, LocalStep DEF RunPCs, zincVars
  <2>5. CountersOK'
    BY <2>1 DEF TypeInv, TypeOK, CountersOK
  <2> QED BY <2>1, <2>4, <2>5, TypeFrame DEF TypeInv, TypeOK, NamesInOrder, zincVars, cleanupVars
<1>7. CASE UpdateCursor(c)
  <2>1. UNCHANGED <<running, run, writeIndex, failedMark, sourceVars, zincVars, cleanupVars, crashes>>
    BY <1>7 DEF UpdateCursor
  <2>2. cursor' \in Nat
    BY <1>0, <1>7 DEF UpdateCursor, Runs, TypeInv, TypeOK, MetaOK
  <2>3. MetaOK' /\ MetaNames'
    BY <2>1, <2>2 DEF TypeInv, TypeOK, NamesInOrder, MetaOK, MetaNames, zincVars
  <2>4. RunsOK' /\ RunNames'
    <3>1. pc' = [pc EXCEPT ![c] = "unlock"]
      BY <1>7 DEF UpdateCursor, Goto
    <3> QED BY <1>0, <2>1, <3>1, LocalStep DEF RunPCs, HasIndexPCs, zincVars
  <2>5. CountersOK'
    BY <1>7, <2>1, TypeFails DEF UpdateCursor
  <2> QED BY <2>1, <2>3, <2>4, <2>5, TypeFrame DEF TypeInv, TypeOK, NamesInOrder, zincVars, cleanupVars
<1>8. CASE CheckGate(c)
  <2>1. UNCHANGED <<running, sourceVars, zincVars, metaVars, cleanupVars, crashes>>
    BY <1>8 DEF CheckGate
  <2>2. r.index > 0
    BY <1>0, <1>8 DEF CheckGate, HasIndexPCs
  <2>3. PICK l \in {"getalias", "mark"} : pc' = [pc EXCEPT ![c] = l]
    BY <1>8 DEF CheckGate, Goto
  <2>4. PICK n \in Nat : run' = [run EXCEPT ![c].expected = n]
    <3>1. Cardinality(Selected) \in Nat
      BY DocsCount DEF Selected
    <3>2. r.expected \in Nat /\ run = [run EXCEPT ![c].expected = r.expected]
      BY <1>0 DEF Runs, TypeInv, TypeOK, RunsOK
    <3> QED BY <1>8, <3>1, <3>2 DEF CheckGate
  <2>5. RunsOK' /\ RunNames'
    <3> DEFINE s == [r EXCEPT !.expected = n]
    <3>1. s \in Runs /\ s.index = r.index
      BY <1>0 DEF Runs
    <3>2. run' = [run EXCEPT ![c] = s]
      BY <2>4
    <3> HIDE DEF s
    <3> QED BY <1>0, <2>1, <2>2, <2>3, <3>1, <3>2, LocalStep DEF RunPCs, zincVars
  <2>6. CountersOK'
    BY <1>8, <2>1, TypeFails DEF CheckGate
  <2> QED BY <2>1, <2>5, <2>6, TypeFrame DEF TypeInv, TypeOK, NamesInOrder, zincVars, cleanupVars
<1>9. CASE GetOldIndexes(c)
  <2>1. UNCHANGED <<running, sourceVars, zincVars, metaVars, cleanupVars, crashes>>
    BY <1>9 DEF GetOldIndexes
  <2>2. r.index > 0
    BY <1>0, <1>9 DEF GetOldIndexes, HasIndexPCs
  <2>3. PICK l \in {"swap", "unlock"} : pc' = [pc EXCEPT ![c] = l]
    BY <1>9 DEF GetOldIndexes, Goto
  <2>4. PICK S \in SUBSET Index : run' = [run EXCEPT ![c].old = S]
    <3>1. r.old \in SUBSET Index /\ run = [run EXCEPT ![c].old = r.old]
      BY <1>0 DEF Runs, TypeInv, TypeOK, RunsOK
    <3>2. alias \ {r.index} \in SUBSET Index /\ {} \in SUBSET Index
      BY DEF TypeInv, TypeOK, ZincOK
    <3> QED BY <1>9, <3>1, <3>2 DEF GetOldIndexes
  <2>5. RunsOK' /\ RunNames'
    <3> DEFINE s == [r EXCEPT !.old = S]
    <3>1. s \in Runs /\ s.index = r.index
      BY <1>0 DEF Runs
    <3>2. run' = [run EXCEPT ![c] = s]
      BY <2>4
    <3> HIDE DEF s
    <3> QED BY <1>0, <2>1, <2>2, <2>3, <3>1, <3>2, LocalStep DEF RunPCs, zincVars
  <2>6. CountersOK'
    BY <1>9, <2>1, TypeFails DEF GetOldIndexes
  <2> QED BY <2>1, <2>5, <2>6, TypeFrame DEF TypeInv, TypeOK, NamesInOrder, zincVars, cleanupVars
<1>10. CASE SwapAlias(c)
  <2>1. UNCHANGED <<running, run, exist, zdoc, created, toDelete, wakes, sourceVars, metaVars, crashes>>
    BY <1>10 DEF SwapAlias
  <2>2. r.index \in Index
    BY <1>0, <1>10 DEF SwapAlias, HasIndexPCs, Index
  <2>3. alias' \subseteq alias \cup {r.index}
    BY <1>10 DEF SwapAlias, Swapped
  <2>4. ZincOK' /\ ZincNames'
    BY <1>0, <2>1, <2>2, <2>3 DEF TypeInv, TypeOK, NamesInOrder, ZincOK, ZincNames
  <2>5. CleanupOK'
    BY <1>10, <2>1 DEF SwapAlias, TypeInv, TypeOK, CleanupOK, CleanupPCs
  <2>6. RunsOK' /\ RunNames'
    <3>1. pc' = [pc EXCEPT ![c] = "unlock"]
      BY <1>10 DEF SwapAlias, Goto
    <3> QED BY <1>0, <2>1, <3>1, LocalStep DEF RunPCs, HasIndexPCs
  <2>7. CountersOK'
    BY <1>10, <2>1, TypeFails DEF SwapAlias
  <2> QED BY <2>1, <2>4, <2>5, <2>6, <2>7, TypeFrame DEF TypeInv, TypeOK, NamesInOrder
<1>11. CASE MarkFailed(c)
  <2>1. UNCHANGED <<running, run, cursor, sourceVars, zincVars, cleanupVars, crashes>>
    BY <1>11 DEF MarkFailed
  <2>2. MetaOK' /\ MetaNames'
    <3>1. CASE UNCHANGED <<writeIndex, failedMark>>
      BY <2>1, <3>1, TypeFrame DEF metaVars, zincVars
    <3>2. CASE writeIndex' = r.index /\ failedMark' = TRUE
      BY <1>0, <2>1, <3>2 DEF TypeInv, TypeOK, MetaOK, MetaNames, zincVars
    <3> QED BY <1>11, <3>1, <3>2 DEF MarkFailed
  <2>3. RunsOK' /\ RunNames'
    <3>1. pc' = [pc EXCEPT ![c] = "unlock"]
      BY <1>11 DEF MarkFailed, Goto
    <3> QED BY <1>0, <2>1, <3>1, LocalStep DEF RunPCs, HasIndexPCs, zincVars
  <2>4. CountersOK'
    BY <1>11, <2>1, TypeFails DEF MarkFailed
  <2> QED BY <2>1, <2>2, <2>3, <2>4, TypeFrame DEF TypeInv, TypeOK, NamesInOrder, zincVars, cleanupVars
<1>12. CASE Unlock(c)
  <2>1. UNCHANGED <<sourceVars, zincVars, metaVars, cleanupVars, fails, crashes>>
    BY <1>12 DEF Unlock
  <2>2. RunsOK' /\ RunNames'
    <3>1. /\ run' = [run EXCEPT ![c] = NoRun] /\ pc' = [pc EXCEPT ![c] = "idle"]
          /\ running' \in BOOLEAN
      BY <1>12 DEF Unlock, Goto
    <3>2. NoRun.index <= created' /\ created' \in {created, created + 1}
      BY <1>0, <2>1, NoRunType DEF zincVars
    <3>3. "idle" \in RunPCs /\ "idle" \notin HasIndexPCs
      BY DEF RunPCs, HasIndexPCs
    <3> QED BY <3>1, <3>2, <3>3, NoRunType, LocalStep
  <2>3. CountersOK'
    BY <2>1 DEF TypeInv, TypeOK, CountersOK
  <2> QED BY <2>1, <2>2, <2>3, TypeFrame DEF TypeInv, TypeOK, NamesInOrder, zincVars, cleanupVars
<1> QED BY <1>1, <1>2, <1>3, <1>4, <1>5, <1>6, <1>7, <1>8, <1>9, <1>10, <1>11, <1>12 DEF RunStep

LEMMA TypeCleanup == ASSUME TypeInv, NEW i \in Index, CleanupStep(i) PROVE TypeInv'
<1>1. UNCHANGED <<metaVars, runVars, created, crashes>>
  BY DEF CleanupStep, CleanupCheck, CleanupList, CleanupDelete, CleanupDone, zincVars
<1>5. SourceOK'
  <2>1. CASE UNCHANGED sourceVars
    BY <2>1, TypeFrame
  <2>2. CASE CleanupDelete(i)
    <3>1. UNCHANGED <<ver, stamp, clock, changes, late>>
      BY <2>2 DEF CleanupDelete
    <3>2. lost' = lost \/ \E j \in Index : lost' = [d \in Docs |-> lost[d] \/ (ver[d] > 0 /\ zdoc[j][d] = ver[d])]
      BY <2>2 DEF CleanupDelete, TypeInv, TypeOK, CleanupOK
    <3>3. lost' \in [Docs -> BOOLEAN]
      BY <3>2 DEF TypeInv, TypeOK, SourceOK
    <3> QED BY <3>1, <3>3 DEF TypeInv, TypeOK, SourceOK
  <2> QED BY <2>1, <2>2 DEF CleanupStep, CleanupCheck, CleanupList, CleanupDone
<1>2. CountersOK'
  <2>1. CASE UNCHANGED fails
    BY <1>1, <2>1 DEF TypeInv, TypeOK, CountersOK
  <2>2. CASE Ok \/ Fail
    BY <1>1, <2>2, TypeFails
  <2> QED BY <2>1, <2>2 DEF CleanupStep, CleanupCheck, CleanupList, CleanupDelete, CleanupDone
<1>3. CleanupOK' /\ CleanupNames'
  <2>1. CASE CleanupCheck(i)
    BY <1>1, <2>1, BoundAssumption DEF CleanupCheck, TypeInv, TypeOK, NamesInOrder, CleanupOK, CleanupNames, CleanupPCs
  <2>2. CASE CleanupList(i)
    <3>1. PICK S \in SUBSET alias : toDelete' = [toDelete EXCEPT ![i] = S] \/ toDelete' = toDelete
      BY <2>2 DEF CleanupList
    <3>2. PICK l \in {"delete", "none"} : cleanup' = [cleanup EXCEPT ![i] = l]
      BY <2>2 DEF CleanupList
    <3>3. alias \subseteq Index /\ \A j \in alias : j <= created
      BY DEF TypeInv, TypeOK, NamesInOrder, ZincOK, ZincNames
    <3>4. toDelete' \in [Index -> SUBSET Index] /\ \A k \in Index : toDelete'[k] \subseteq toDelete[k] \cup alias
      BY <3>1, <3>3 DEF TypeInv, TypeOK, CleanupOK
    <3>5. cleanup' \in [Index -> CleanupPCs] /\ wakes' \in 0..MaxWakes
      BY <2>2, <3>2 DEF CleanupList, TypeInv, TypeOK, CleanupOK, CleanupPCs
    <3> QED BY <1>1, <3>3, <3>4, <3>5 DEF TypeInv, TypeOK, NamesInOrder, CleanupOK, CleanupNames
  <2>3. CASE CleanupDelete(i)
    BY <1>1, <2>3 DEF CleanupDelete, TypeInv, TypeOK, NamesInOrder, CleanupOK, CleanupNames
  <2>4. CASE CleanupDone(i)
    BY <1>1, <2>4 DEF CleanupDone, TypeInv, TypeOK, NamesInOrder, CleanupOK, CleanupNames, CleanupPCs
  <2> QED BY <2>1, <2>2, <2>3, <2>4 DEF CleanupStep
<1>4. ZincOK' /\ ZincNames'
  <2>1. CASE UNCHANGED zincVars
    BY <2>1, TypeFrame
  <2>2. CASE CleanupDelete(i)
    <3>1. /\ exist' \subseteq exist /\ alias' \subseteq alias
          /\ \E j \in Index : zdoc' = [zdoc EXCEPT ![j] = Nothing] \/ zdoc' = zdoc
      BY <2>2 DEF CleanupDelete, TypeInv, TypeOK, CleanupOK
    <3>2. zdoc' \in [Index -> [Docs -> Nat]] /\ \A k \in Index : zdoc'[k] = zdoc[k] \/ zdoc'[k] = Nothing
      BY <3>1 DEF TypeInv, TypeOK, ZincOK, Nothing
    <3> QED BY <1>1, <3>1, <3>2 DEF TypeInv, TypeOK, NamesInOrder, ZincOK, ZincNames
  <2> QED BY <2>1, <2>2 DEF CleanupStep, CleanupCheck, CleanupList, CleanupDone
<1> QED BY <1>1, <1>2, <1>3, <1>4, <1>5, TypeFrame DEF TypeInv, TypeOK, NamesInOrder

LEMMA TypeRecordLost == ASSUME TypeInv, RecordLost PROVE TypeInv'
<1>1. UNCHANGED <<cursor, sourceVars, zincVars, runVars, cleanupVars, fails, crashes>>
  BY DEF RecordLost
<1>2. MetaOK' /\ MetaNames'
  <2>1. writeIndex' = 0 /\ failedMark' = FALSE
    BY DEF RecordLost
  <2>2. created' \in Nat /\ cursor' \in Nat
    BY <1>1 DEF TypeInv, TypeOK, MetaOK, ZincOK, zincVars
  <2>3. writeIndex' \in 0..MaxIndex /\ writeIndex' <= created'
    BY <2>1, <2>2, BoundAssumption
  <2>4. failedMark' \in BOOLEAN
    BY <2>1
  <2> QED BY <2>2, <2>3, <2>4, Zenon DEF MetaOK, MetaNames
<1>3. CountersOK'
  BY <1>1 DEF TypeInv, TypeOK, CountersOK
<1> QED BY <1>1, <1>2, <1>3, TypeFrame DEF TypeInv, TypeOK, NamesInOrder, zincVars, cleanupVars

LEMMA TypeCrash == ASSUME TypeInv, Crash PROVE TypeInv'
<1>1. UNCHANGED <<wakes, sourceVars, zincVars, metaVars, fails>>
  BY DEF Crash
<1>2. RunsOK'
  <2>1. pc' \in [Callers -> RunPCs] /\ run' \in [Callers -> Runs]
    BY NoRunType DEF Crash, RunPCs
  <2>2. running' \in BOOLEAN
    BY DEF Crash
  <2> QED BY <2>1, <2>2, Zenon DEF RunsOK
<1>3. RunNames'
  BY <1>1, NoRunType DEF Crash, RunNames, HasIndexPCs, TypeInv, TypeOK, ZincOK, zincVars
<1>4. CleanupOK' /\ CleanupNames'
  BY <1>1 DEF Crash, TypeInv, TypeOK, CleanupOK, CleanupNames, CleanupPCs
<1>5. CountersOK'
  BY <1>1, BoundAssumption DEF Crash, TypeInv, TypeOK, CountersOK
<1> QED BY <1>1, <1>2, <1>3, <1>4, <1>5, TypeFrame DEF TypeInv, TypeOK, NamesInOrder, zincVars

LEMMA TypeNext == ASSUME TypeInv, [Next]_vars PROVE TypeInv'
<1>1. CASE UNCHANGED vars
  <2>1. UNCHANGED <<sourceVars, zincVars, metaVars, runVars, cleanupVars, fails, crashes, created, toDelete>>
    BY <1>1 DEF vars, zincVars, cleanupVars
  <2>2. CountersOK'
    BY <2>1 DEF TypeInv, TypeOK, CountersOK
  <2> QED BY <2>1, <2>2, TypeFrame DEF TypeInv, TypeOK, NamesInOrder
<1>2. CASE Next
  BY <1>2, TypeSource, TypeTrigger, TypeRunStep, TypeCleanup, TypeRecordLost, TypeCrash DEF Next
<1> QED BY <1>1, <1>2

(* Every variable keeps its type, and index names are used in order, in    *)
(* every behaviour of the engine.                                          *)
THEOREM TypeCorrect == Spec => [](TypeOK /\ NamesInOrder)
<1>1. TypeInv /\ [Next]_vars => TypeInv'
  BY TypeNext
<1> QED BY TypeInit, <1>1, PTL DEF Spec, TypeInv

-----------------------------------------------------------------------------
(* Mutual exclusion of the runs of one index.                              *)

LEMMA OneRunInit == Init => OneRunAtATime
BY DEF Init, OneRunAtATime

LEMMA OneRunNext ==
    ASSUME TypeOK, OneRunAtATime, [Next]_vars PROVE OneRunAtATime'
<1>0. pc \in [Callers -> RunPCs]
  BY DEF TypeOK, RunsOK
<1>1. CASE UNCHANGED <<running, pc>>
  BY <1>1 DEF OneRunAtATime
<1>2. ASSUME NEW c \in Callers, NEW k \in Requested, NEW I \in IdSets(k), Trigger(c, k, I)
      PROVE  OneRunAtATime'
  <2>1. \A e \in Callers : pc[e] = "idle"
    BY <1>2 DEF Trigger, OneRunAtATime
  <2>2. running' = TRUE /\ pc' = [pc EXCEPT ![c] = "open"]
    BY <1>2 DEF Trigger, Goto
  <2> QED BY <1>0, <2>1, <2>2 DEF OneRunAtATime
<1>3. ASSUME NEW c \in Callers, Unlock(c) PROVE OneRunAtATime'
  <2>1. \A e \in Callers : pc'[e] = "idle"
    BY <1>0, <1>3 DEF Unlock, Goto, OneRunAtATime
  <2>2. running' = FALSE
    BY <1>3 DEF Unlock
  <2> QED BY <2>1, <2>2 DEF OneRunAtATime
<1>4. ASSUME NEW c \in Callers, RunStep(c), ~Unlock(c) PROVE OneRunAtATime'
  <2>1. pc[c] # "idle" /\ running' = running
    BY <1>4 DEF RunStep, OpenIndex, CreateIndex, RecordWriteIndex, Build, BulkBatch, FinishBulk,
                UpdateCursor, CheckGate, GetOldIndexes, SwapAlias, MarkFailed
  <2>2. PICK l \in RunPCs \ {"idle"} : pc' = [pc EXCEPT ![c] = l]
    BY <1>0, <1>4, <2>1 DEF RunStep, OpenIndex, CreateIndex, RecordWriteIndex, Build, BulkBatch, FinishBulk,
                UpdateCursor, CheckGate, GetOldIndexes, SwapAlias, MarkFailed, Goto, RunPCs
  <2> QED BY <1>0, <2>1, <2>2 DEF OneRunAtATime
<1>5. CASE Crash
  BY <1>5 DEF Crash, OneRunAtATime
<1>6. CASE Source \/ RecordLost \/ \E i \in Index : CleanupStep(i)
  <2>1. UNCHANGED runVars
    BY <1>6 DEF Source, RowChange, RowGone, RecordLost, CleanupStep, CleanupCheck, CleanupList, CleanupDelete, CleanupDone
  <2> QED BY <1>1, <2>1 DEF runVars
<1>7. CASE UNCHANGED vars
  BY <1>1, <1>7 DEF vars, runVars
<1> QED BY <1>2, <1>3, <1>4, <1>5, <1>6, <1>7 DEF Next

(* At most one run of an index is under way, and the lock is taken exactly *)
(* while it is: tryLock and the deferred unlock are enough, with any       *)
(* number of callers and through crashes.                                  *)
THEOREM MutualExclusion == Spec => []OneRunAtATime
<1>1. TypeOK /\ OneRunAtATime /\ [Next]_vars => OneRunAtATime'
  BY OneRunNext
<1> QED BY OneRunInit, TypeCorrect, <1>1, PTL DEF Spec

-----------------------------------------------------------------------------
(* The inductive invariant.                                                *)

LEMMA IndInit == Init => IndInv
<1> SUFFICES ASSUME Init PROVE IndInv
  OBVIOUS
<1>1. LiveInv /\ FailedIndexNotLive
  BY DEF Init, LiveInv, OneLiveIndex, FailedIndexNotLive
<1>2. \A c \in Callers : pc[c] = "idle"
  BY DEF Init
<1>3. \A c \in Callers : RunInv(c)
  BY <1>2 DEF RunInv, GateIsForFull, RebuildIsNewest, RebuildIsRecorded, GateWasPassed, SwapIsTotal, RebuildPCs
<1> QED BY <1>1, <1>3, TypeInit, OneRunInit DEF IndInv

(* Nothing is asked of a caller that is idle, or about to give the lock    *)
(* back.                                                                   *)
LEMMA IdleInv ==
    ASSUME NEW c \in Callers, pc'[c] \in {"idle", "open", "create", "cursor", "unlock"}
    PROVE  RunInv(c)' /\ RebuildContents(c)'
BY DEF RunInv, GateIsForFull, RebuildIsNewest, RebuildIsRecorded, GateWasPassed, SwapIsTotal, RebuildPCs, RebuildContents

(* The lock: when c takes a step of its run, the others are idle. *)
LEMMA Alone ==
    ASSUME TypeInv, OneRunAtATime, NEW c \in Callers,
           RunStep(c) \/ (\E k \in Kinds, I \in SUBSET Docs : Trigger(c, k, I)),
           NEW e \in Callers, e # c
    PROVE  pc[e] = "idle" /\ pc'[e] = "idle"
<1>1. pc \in [Callers -> RunPCs]
  BY DEF TypeInv, TypeOK, RunsOK
<1>2. pc[e] = "idle"
  BY DEF RunStep, OpenIndex, CreateIndex, RecordWriteIndex, Build, BulkBatch, FinishBulk, UpdateCursor,
         CheckGate, GetOldIndexes, SwapAlias, MarkFailed, Unlock, Trigger, OneRunAtATime
<1>3. pc'[e] = pc[e]
  BY <1>1 DEF RunStep, OpenIndex, CreateIndex, RecordWriteIndex, Build, BulkBatch, FinishBulk, UpdateCursor,
         CheckGate, GetOldIndexes, SwapAlias, MarkFailed, Unlock, Trigger, Goto
<1> QED BY <1>2, <1>3

(* A lost record is found between two runs. *)
LEMMA RecordLostIdle ==
    ASSUME OneRunAtATime, RecordLost, NEW c \in Callers PROVE pc[c] = "idle" /\ pc'[c] = "idle"
BY DEF OneRunAtATime, RecordLost, runVars

LEMMA OthersIdle ==
    ASSUME IndInv, NEW c \in Callers, RunStep(c) \/ (\E k \in Kinds, I \in SUBSET Docs : Trigger(c, k, I)),
           NEW e \in Callers, e # c
    PROVE  RunInv(e)' /\ RebuildContents(e)'
BY Alone, IdleInv DEF IndInv

(* The steps of runSync: what they preserve for their own caller, for the  *)
(* readers and for the failed mark.                                        *)
LEMMA RunStepInv ==
    ASSUME IndInv, NEW c \in Callers, RunStep(c)
    PROVE  RunInv(c)' /\ LiveInv' /\ FailedIndexNotLive'
<1> DEFINE r == run[c]
           s == run'[c]
<1>0. /\ r \in Runs /\ pc \in [Callers -> RunPCs] /\ run \in [Callers -> Runs]
      /\ RunInv(c) /\ LiveInv /\ FailedIndexNotLive
  BY DEF IndInv, TypeInv, TypeOK, RunsOK
<1>1. CASE OpenIndex(c)
  <2>1. UNCHANGED <<alias, writeIndex, failedMark>>
    BY <1>1 DEF OpenIndex, zincVars, metaVars
  <2>2. pc'[c] \in {"create", "unlock"} \/ (pc'[c] = "build" /\ s.kind = r.kind /\ r.kind # "full")
    BY <1>0, <1>1 DEF OpenIndex, Goto, Runs
  <2>3. RunInv(c)'
    BY <2>2, IdleInv DEF RunInv, GateIsForFull, RebuildIsNewest, RebuildIsRecorded, GateWasPassed, SwapIsTotal
  <2> QED BY <1>0, <2>1, <2>3 DEF LiveInv, OneLiveIndex, FailedIndexNotLive
<1>2. CASE CreateIndex(c)
  <2>1. UNCHANGED <<alias, writeIndex, failedMark, toDelete>>
    BY <1>2 DEF CreateIndex, metaVars, cleanupVars
  <2>2. pc'[c] = "unlock" \/ (pc'[c] = "record" /\ s.index = created + 1)
    BY <1>0, <1>2 DEF CreateIndex, Goto, Runs
  <2>3. ASSUME pc'[c] = "record", s.index = created + 1
        PROVE  RunInv(c)'
    <3>1. created \in 0..MaxIndex /\ alias \subseteq Index /\ toDelete \in [Index -> SUBSET Index]
      BY DEF IndInv, TypeInv, TypeOK, ZincOK, CleanupOK
    <3>2. /\ \A j \in alias : j <= created
          /\ \A i \in Index : \A j \in toDelete[i] : j <= created
      BY DEF IndInv, TypeInv, NamesInOrder, ZincNames, CleanupNames
    <3>3. /\ \A j \in alias' : j < s.index
          /\ \A i \in Index : \A j \in toDelete'[i] : j < s.index
      <4>1. \A j \in Index : j <= created => j < created + 1
        BY <3>1, BoundAssumption DEF Index
      <4> QED BY <2>1, <2>3, <3>1, <3>2, <4>1, Zenon
    <3> QED BY <2>3, <3>3 DEF RunInv, GateIsForFull, RebuildIsNewest, RebuildIsRecorded, GateWasPassed, SwapIsTotal, RebuildPCs
  <2> QED BY <1>0, <2>1, <2>2, <2>3, IdleInv DEF LiveInv, OneLiveIndex, FailedIndexNotLive
<1>3. CASE RecordWriteIndex(c)
  <2>1. UNCHANGED <<alias, toDelete, run>> /\ pc[c] = "record"
    BY <1>3 DEF RecordWriteIndex, zincVars, cleanupVars
  <2>2. CASE pc' = [pc EXCEPT ![c] = "unlock"] /\ UNCHANGED <<writeIndex, failedMark>>
    BY <1>0, <2>1, <2>2, IdleInv DEF LiveInv, OneLiveIndex, FailedIndexNotLive
  <2>3. CASE pc' = [pc EXCEPT ![c] = "build"] /\ writeIndex' = r.index /\ failedMark' = FALSE
    <3>1. pc'[c] = "build" /\ ~failedMark'
      BY <1>0, <2>3
    <3>2. RunInv(c)'
      BY <1>0, <2>1, <2>3, <3>1 DEF RunInv, GateIsForFull, RebuildIsNewest, RebuildIsRecorded, GateWasPassed, SwapIsTotal, RebuildPCs
    <3> QED BY <1>0, <2>1, <3>1, <3>2 DEF LiveInv, OneLiveIndex, FailedIndexNotLive
  <2> QED BY <1>3, <2>2, <2>3 DEF RecordWriteIndex, Goto
<1>4. CASE Build(c)
  <2>1. UNCHANGED <<alias, writeIndex, failedMark, toDelete>> /\ pc[c] = "build"
    BY <1>4 DEF Build, zincVars, metaVars, cleanupVars
  <2>2. pc'[c] = "unlock" \/ (pc'[c] = "bulk" /\ s.kind = r.kind /\ s.index = r.index)
    <3>1. CASE run' = run /\ pc' = [pc EXCEPT ![c] = "unlock"]
      BY <1>0, <3>1
    <3>2. ASSUME pc' = [pc EXCEPT ![c] = "bulk"], NEW from, NEW last, BuiltFrom(c, from, last)
          PROVE  pc'[c] = "bulk" /\ s.kind = r.kind /\ s.index = r.index
      BY <1>0, <3>2 DEF BuiltFrom
    <3> QED BY <1>4, <3>1, <3>2, BuildStep DEF IndInv, TypeInv
  <2>3. RunInv(c)'
    BY <1>0, <2>1, <2>2, IdleInv DEF RunInv, GateIsForFull, RebuildIsNewest, RebuildIsRecorded, GateWasPassed, SwapIsTotal, RebuildPCs
  <2> QED BY <1>0, <2>1, <2>3 DEF LiveInv, OneLiveIndex, FailedIndexNotLive
<1>5. CASE BulkBatch(c)
  <2>1. UNCHANGED <<alias, writeIndex, failedMark, toDelete, pc>> /\ pc[c] = "bulk"
    BY <1>5 DEF BulkBatch, metaVars, cleanupVars
  <2>2. s.kind = r.kind /\ s.index = r.index
    BY <1>0, <1>5 DEF BulkBatch, Runs
  <2>3. RunInv(c)'
    BY <1>0, <2>1, <2>2 DEF RunInv, GateIsForFull, RebuildIsNewest, RebuildIsRecorded, GateWasPassed, SwapIsTotal, RebuildPCs
  <2> QED BY <1>0, <2>1, <2>3 DEF LiveInv, OneLiveIndex, FailedIndexNotLive
<1>6. CASE FinishBulk(c)
  <2>1. UNCHANGED <<alias, writeIndex, failedMark, toDelete, run>> /\ pc[c] = "bulk"
    BY <1>6 DEF FinishBulk, zincVars, metaVars, cleanupVars
  <2>2. pc'[c] \in {"cursor", "unlock"} \/ (pc'[c] \in {"mark", "gate"} /\ r.kind = "full")
    BY <1>0, <1>6 DEF FinishBulk, Goto
  <2>3. RunInv(c)'
    BY <1>0, <2>1, <2>2, IdleInv DEF RunInv, GateIsForFull, RebuildIsNewest, RebuildIsRecorded, GateWasPassed, SwapIsTotal, RebuildPCs
  <2> QED BY <1>0, <2>1, <2>3 DEF LiveInv, OneLiveIndex, FailedIndexNotLive
<1>7. CASE UpdateCursor(c)
  <2>1. UNCHANGED <<alias, writeIndex, failedMark>> /\ pc'[c] = "unlock"
    BY <1>0, <1>7 DEF UpdateCursor, Goto, zincVars
  <2> QED BY <1>0, <2>1, IdleInv DEF LiveInv, OneLiveIndex, FailedIndexNotLive
<1>8. CASE CheckGate(c)
  <2>1. UNCHANGED <<alias, writeIndex, failedMark, toDelete>> /\ pc[c] = "gate"
    BY <1>8 DEF CheckGate, zincVars, metaVars, cleanupVars
  <2>2. s.kind = r.kind /\ s.index = r.index /\ s.docs = r.docs
    BY <1>0, <1>8 DEF CheckGate, Runs
  <2>3. \/ pc'[c] = "mark"
        \/ pc'[c] = "getalias" /\ s.expected = Cardinality(Selected) /\ Gate(Size(r), Cardinality(Selected))
    BY <1>0, <1>8 DEF CheckGate, Goto, Runs
  <2>4. Size(s) = Size(r)
    BY <2>2 DEF Size
  <2>5. pc'[c] = "getalias" => Gate(Size(s), s.expected)
    BY <2>3, <2>4
  <2>6. RunInv(c)'
    <3> HIDE DEF s
    <3>1. GateWasPassed(c)'
      BY <2>3, <2>5 DEF GateWasPassed, s
    <3>2. GateIsForFull(c)' /\ RebuildIsNewest(c)' /\ RebuildIsRecorded(c)' /\ SwapIsTotal(c)'
      BY <1>0, <2>1, <2>2, <2>3 DEF RunInv, GateIsForFull, RebuildIsNewest, RebuildIsRecorded, SwapIsTotal, RebuildPCs, s
    <3> QED BY <3>1, <3>2 DEF RunInv
  <2> QED BY <1>0, <2>1, <2>6 DEF LiveInv, OneLiveIndex, FailedIndexNotLive
<1>9. CASE GetOldIndexes(c)
  <2>1. UNCHANGED <<alias, writeIndex, failedMark, toDelete>> /\ pc[c] = "getalias"
    BY <1>9 DEF GetOldIndexes, zincVars, metaVars, cleanupVars
  <2>2. s.kind = r.kind /\ s.index = r.index /\ s.docs = r.docs /\ s.expected = r.expected
    BY <1>0, <1>9 DEF GetOldIndexes, Runs
  <2>3. \/ pc'[c] = "unlock"
        \/ pc'[c] = "swap" /\ (s.old = alias \ {r.index} \/ ~FailuresShow)
    BY <1>0, <1>9 DEF GetOldIndexes, Goto, Runs
  <2>4. Size(s) = Size(r)
    BY <2>2 DEF Size
  <2>5. ASSUME pc'[c] = "swap" PROVE RunInv(c)'
    <3> HIDE DEF s
    <3>1. GateWasPassed(c)'
      BY <1>0, <2>1, <2>2, <2>4 DEF RunInv, GateWasPassed, s
    <3>2. SwapIsTotal(c)'
      BY <2>1, <2>2, <2>3, <2>5 DEF SwapIsTotal, s
    <3>3. GateIsForFull(c)' /\ RebuildIsNewest(c)' /\ RebuildIsRecorded(c)'
      BY <1>0, <2>1, <2>2, <2>5 DEF RunInv, GateIsForFull, RebuildIsNewest, RebuildIsRecorded, RebuildPCs, s
    <3> QED BY <3>1, <3>2, <3>3 DEF RunInv
  <2> QED BY <1>0, <2>1, <2>3, <2>5, IdleInv DEF LiveInv, OneLiveIndex, FailedIndexNotLive
<1>10. CASE SwapAlias(c)
  <2>1. UNCHANGED <<writeIndex, failedMark>> /\ pc[c] = "swap" /\ pc'[c] = "unlock"
    BY <1>0, <1>10 DEF SwapAlias, Goto, metaVars
  <2>2. FailuresShow => Swapped(r) = {r.index}
    BY <1>0, <2>1 DEF RunInv, SwapIsTotal, Swapped
  <2>3. FailuresShow => alias' = alias \/ alias' = {r.index}
    BY <1>10, <2>2 DEF SwapAlias
  <2>4. ~failedMark
    BY <1>0, <2>1 DEF RunInv, GateIsForFull, RebuildIsRecorded, RebuildPCs
  <2> QED BY <1>0, <2>1, <2>3, <2>4, IdleInv DEF LiveInv, OneLiveIndex, FailedIndexNotLive
<1>11. CASE MarkFailed(c)
  <2>1. UNCHANGED alias /\ pc[c] = "mark" /\ pc'[c] = "unlock"
    BY <1>0, <1>11 DEF MarkFailed, Goto, zincVars
  <2>2. r.index \notin alias
    <3>1. \A j \in alias : j < r.index
      BY <1>0, <2>1 DEF RunInv, GateIsForFull, RebuildIsNewest, RebuildPCs
    <3>2. r.index \in Nat
      BY <1>0 DEF Runs
    <3> QED BY <3>1, <3>2
  <2>3. writeIndex' = r.index \/ UNCHANGED <<writeIndex, failedMark>>
    BY <1>11 DEF MarkFailed
  <2> QED BY <1>0, <2>1, <2>2, <2>3, IdleInv DEF LiveInv, OneLiveIndex, FailedIndexNotLive
<1>12. CASE Unlock(c)
  <2>1. UNCHANGED <<alias, writeIndex, failedMark>> /\ pc'[c] = "idle"
    BY <1>0, <1>12 DEF Unlock, Goto, zincVars, metaVars
  <2> QED BY <1>0, <2>1, IdleInv DEF LiveInv, OneLiveIndex, FailedIndexNotLive
<1> QED BY <1>1, <1>2, <1>3, <1>4, <1>5, <1>6, <1>7, <1>8, <1>9, <1>10, <1>11, <1>12 DEF RunStep

(* A delayed cleanup takes indexes away from the readers, and may list     *)
(* only what the readers have seen.                                        *)
LEMMA CleanupInv ==
    ASSUME IndInv, NEW i \in Index, CleanupStep(i)
    PROVE  /\ LiveInv' /\ FailedIndexNotLive'
           /\ \A c \in Callers : RunInv(c)'
<1>1. UNCHANGED <<metaVars, runVars>> /\ alias' \subseteq alias
  BY DEF CleanupStep, CleanupCheck, CleanupList, CleanupDelete, CleanupDone, zincVars
<1>2. \A k \in Index : toDelete'[k] \subseteq toDelete[k] \cup alias
  BY DEF CleanupStep, CleanupCheck, CleanupList, CleanupDelete, CleanupDone, IndInv, TypeInv, TypeOK, CleanupOK
<1>3. LiveInv' /\ FailedIndexNotLive'
  BY <1>1 DEF IndInv, LiveInv, OneLiveIndex, FailedIndexNotLive, metaVars
<1>4. ASSUME NEW c \in Callers PROVE RunInv(c)'
  <2>1. RunInv(c) /\ UNCHANGED <<pc, run, writeIndex, failedMark>>
    BY <1>1 DEF IndInv, runVars, metaVars
  <2>2. RebuildIsNewest(c)'
    BY <1>1, <1>2, <2>1 DEF RunInv, RebuildIsNewest
  <2>3. GateIsForFull(c)' /\ RebuildIsRecorded(c)' /\ GateWasPassed(c)' /\ SwapIsTotal(c)'
    BY <1>1, <2>1 DEF RunInv, GateIsForFull, RebuildIsRecorded, GateWasPassed, SwapIsTotal, Size
  <2> QED BY <2>2, <2>3 DEF RunInv
<1> QED BY <1>3, <1>4

LEMMA IndNext == ASSUME IndInv, [Next]_vars PROVE IndInv'
<1>0. TypeInv' /\ OneRunAtATime'
  BY TypeNext, OneRunNext DEF IndInv, TypeInv
<1>1. CASE UNCHANGED <<alias, metaVars, runVars, toDelete>>
  <2>1. LiveInv' /\ FailedIndexNotLive'
    BY <1>1 DEF IndInv, LiveInv, OneLiveIndex, FailedIndexNotLive, metaVars
  <2>2. ASSUME NEW c \in Callers PROVE RunInv(c)'
    BY <1>1 DEF IndInv, RunInv, GateIsForFull, RebuildIsNewest, RebuildIsRecorded, GateWasPassed, SwapIsTotal,
                Size, runVars, metaVars
  <2> QED BY <1>0, <2>1, <2>2 DEF IndInv
<1>2. ASSUME NEW c \in Callers, NEW k \in Requested, NEW I \in IdSets(k), Trigger(c, k, I)
      PROVE  IndInv'
  <2>1. k \in Kinds /\ I \in SUBSET Docs
    BY DataAssumption DEF Kinds, IdSets
  <2>2. pc'[c] = "open" /\ UNCHANGED <<alias, metaVars>>
    BY <1>2 DEF Trigger, Goto, zincVars, IndInv, TypeInv, TypeOK, RunsOK
  <2>3. LiveInv' /\ FailedIndexNotLive'
    BY <2>2 DEF IndInv, LiveInv, OneLiveIndex, FailedIndexNotLive, metaVars
  <2>4. \A e \in Callers : RunInv(e)'
    BY <1>2, <2>1, <2>2, IdleInv, OthersIdle
  <2> QED BY <1>0, <2>3, <2>4 DEF IndInv
<1>3. ASSUME NEW c \in Callers, RunStep(c) PROVE IndInv'
  <2>1. \A e \in Callers : RunInv(e)'
    BY <1>3, RunStepInv, OthersIdle
  <2> QED BY <1>0, <1>3, <2>1, RunStepInv DEF IndInv
<1>4. ASSUME NEW i \in Index, CleanupStep(i) PROVE IndInv'
  BY <1>0, <1>4, CleanupInv DEF IndInv
<1>5. CASE Source
  BY <1>1, <1>5 DEF Source, RowChange, RowGone, zincVars, cleanupVars
<1>8. CASE RecordLost
  <2>1. \A c \in Callers : pc'[c] = "idle"
    BY <1>8, RecordLostIdle DEF IndInv
  <2>2. LiveInv' /\ FailedIndexNotLive'
    BY <1>8 DEF RecordLost, zincVars, IndInv, LiveInv, OneLiveIndex, FailedIndexNotLive
  <2> QED BY <1>0, <2>1, <2>2, IdleInv DEF IndInv
<1>6. CASE Crash
  <2>1. \A c \in Callers : pc'[c] = "idle"
    BY <1>6 DEF Crash
  <2>2. LiveInv' /\ FailedIndexNotLive'
    BY <1>6 DEF Crash, zincVars, metaVars, IndInv, LiveInv, OneLiveIndex, FailedIndexNotLive
  <2> QED BY <1>0, <2>1, <2>2, IdleInv DEF IndInv
<1>7. CASE UNCHANGED vars
  BY <1>1, <1>7 DEF vars, zincVars, cleanupVars
<1> QED BY <1>2, <1>3, <1>4, <1>5, <1>6, <1>7, <1>8 DEF Next

(* The invariant the engine and the manager rely on: one run at a time, the *)
(* index of a rebuild newer than all others and recorded without a mark,    *)
(* and nothing entering the alias between GetAlias and the swap.            *)
THEOREM Invariance == Spec => []IndInv
<1>1. IndInv /\ [Next]_vars => IndInv'
  BY IndNext
<1> QED BY IndInit, <1>1, PTL DEF Spec

(* Readers never see two generations of the index side by side: GetAlias   *)
(* before the swap names whatever is to leave the alias (manager.go:113),  *)
(* unless it takes an error for an answer.                                 *)
THEOREM SingleGeneration == FailuresShow => (Spec => []OneLiveIndex)
<1> SUFFICES ASSUME FailuresShow PROVE Spec => []OneLiveIndex
  OBVIOUS
<1>1. IndInv => OneLiveIndex
  BY DEF IndInv, LiveInv
<1> QED BY <1>1, Invariance, PTL

(* An index that was marked as failed is never behind the alias. *)
THEOREM FailedStaysHidden == Spec => []FailedIndexNotLive
<1>1. IndInv => FailedIndexNotLive
  BY DEF IndInv
<1> QED BY <1>1, Invariance, PTL

-----------------------------------------------------------------------------
(* What goes live.                                                         *)

LEMMA ContentsInit == Init => ContentsInv
BY DEF Init, ContentsInv, RebuildContents

(* If failures show, a run's own steps keep track of what its index holds. *)
LEMMA RunStepContents ==
    ASSUME FailuresShow, IndInv, ContentsInv, NEW c \in Callers, RunStep(c)
    PROVE  RebuildContents(c)'
<1> DEFINE r == run[c]
           s == run'[c]
<1>0. /\ r \in Runs /\ pc \in [Callers -> RunPCs] /\ run \in [Callers -> Runs]
      /\ RebuildContents(c)
      /\ zdoc \in [Index -> [Docs -> Nat]] /\ r.docs \in [Docs -> Nat]
  BY DEF IndInv, TypeInv, TypeOK, RunsOK, ZincOK, ContentsInv, Runs
<1>1. CASE OpenIndex(c)
  <2>1. pc'[c] \in {"create", "unlock"} \/ (pc'[c] = "build" /\ s.kind = r.kind /\ r.kind # "full")
    BY <1>0, <1>1 DEF OpenIndex, Goto, Runs
  <2> QED BY <2>1, IdleInv DEF RebuildContents
<1>2. CASE CreateIndex(c)
  <2>1. UNCHANGED zdoc /\ (pc'[c] = "unlock" \/ (pc'[c] = "record" /\ s.index = created + 1 /\ created < MaxIndex))
    BY <1>0, <1>2 DEF CreateIndex, Goto, Runs
  <2>2. created < MaxIndex => zdoc[created + 1] = Nothing
    BY BoundAssumption DEF IndInv, TypeInv, TypeOK, NamesInOrder, ZincOK, ZincNames, Index
  <2>3. ASSUME pc'[c] = "record", s.index = created + 1, zdoc'[created + 1] = Nothing
        PROVE  RebuildContents(c)'
    BY <2>3 DEF RebuildContents
  <2> QED BY <2>1, <2>2, <2>3, IdleInv
<1>3. CASE RecordWriteIndex(c)
  <2>1. UNCHANGED <<zdoc, run>> /\ pc[c] = "record" /\ pc'[c] \in {"build", "unlock"}
    BY <1>0, <1>3 DEF RecordWriteIndex, Goto, zincVars
  <2> QED BY <1>0, <2>1 DEF RebuildContents
<1>4. CASE Build(c)
  <2>1. UNCHANGED zdoc /\ pc[c] = "build"
    BY <1>4 DEF Build, zincVars
  <2>2. CASE pc' = [pc EXCEPT ![c] = "unlock"]
    BY <1>0, <2>2, IdleInv
  <2>3. ASSUME pc' = [pc EXCEPT ![c] = "bulk"], NEW from \in Nat, NEW last \in Nat, BuiltFrom(c, from, last)
        PROVE  RebuildContents(c)'
    <3>1. /\ s.kind = r.kind /\ s.index = r.index /\ s.todo = RowsOf(r, from)
          /\ \A d \in Docs \ RowsOf(r, from) : s.docs[d] = 0
      BY <2>3 DEF BuiltFrom
    <3>2. pc'[c] = "bulk"
      BY <1>0, <2>3
    <3>3. r.kind = "full" => \A d \in Docs : zdoc[r.index][d] = 0
      BY <1>0, <2>1 DEF RebuildContents, Nothing
    <3> HIDE DEF s
    <3>4. s.kind = "full" => \A d \in Docs \ (s.todo \cup s.failedIDs) : zdoc'[s.index][d] = s.docs[d]
      BY <2>1, <3>1, <3>3
    <3> QED BY <3>2, <3>4 DEF RebuildContents, s
  <2> QED BY <1>4, <2>2, <2>3, BuildStep DEF IndInv, TypeInv
<1>5. CASE BulkBatch(c)
  <2>1. UNCHANGED pc /\ pc[c] = "bulk"
    BY <1>5 DEF BulkBatch
  <2>2. r.index \in Index
    BY <2>1 DEF IndInv, TypeInv, TypeOK, NamesInOrder, ZincOK, RunNames, Runs, HasIndexPCs, Index, RunsOK
  <2>3. PICK B \in Batches(r.todo) :
          \/ /\ Store(r.index, B, r.docs)
             /\ run' = [run EXCEPT ![c].todo = r.todo \ B]
          \/ /\ \E A \in SUBSET B : Store(r.index, A, r.docs)
             /\ run' = [run EXCEPT ![c].todo = r.todo \ B,
                                   ![c].failedIDs = IF FailuresShow THEN r.failedIDs \cup B ELSE r.failedIDs]
    BY <1>5 DEF BulkBatch
  <2>4. PICK A \in SUBSET B :
          /\ Store(r.index, A, r.docs)
          /\ s.kind = r.kind /\ s.index = r.index /\ s.docs = r.docs /\ s.todo = r.todo \ B
          /\ r.failedIDs \subseteq s.failedIDs /\ B \subseteq A \cup s.failedIDs
    <3>1. CASE Store(r.index, B, r.docs) /\ run' = [run EXCEPT ![c].todo = r.todo \ B]
      BY <1>0, <3>1 DEF Runs
    <3>2. CASE /\ \E A \in SUBSET B : Store(r.index, A, r.docs)
               /\ run' = [run EXCEPT ![c].todo = r.todo \ B,
                                     ![c].failedIDs = IF FailuresShow THEN r.failedIDs \cup B ELSE r.failedIDs]
      <4>1. PICK A \in SUBSET B : Store(r.index, A, r.docs)
        BY <3>2
      <4>2. /\ s.kind = r.kind /\ s.index = r.index /\ s.docs = r.docs /\ s.todo = r.todo \ B
            /\ s.failedIDs = r.failedIDs \cup B
        BY <1>0, <3>2 DEF Runs
      <4> QED BY <4>1, <4>2
    <3> QED BY <2>3, <3>1, <3>2
  <2>5. \A d \in Docs : zdoc'[r.index][d] = IF d \in A THEN r.docs[d] ELSE zdoc[r.index][d]
    BY <1>0, <2>2, <2>4 DEF Store
  <2>6. r.kind = "full" => \A d \in Docs \ (r.todo \cup r.failedIDs) : zdoc[r.index][d] = r.docs[d]
    BY <1>0, <2>1 DEF RebuildContents
  <2> HIDE DEF s
  <2>7. s.kind = "full" => \A d \in Docs \ (s.todo \cup s.failedIDs) : zdoc'[s.index][d] = s.docs[d]
    BY <2>4, <2>5, <2>6
  <2> QED BY <2>1, <2>7 DEF RebuildContents, s
<1>6. CASE FinishBulk(c)
  <2>1. UNCHANGED <<zdoc, run>> /\ pc[c] = "bulk" /\ r.todo = {}
    BY <1>6 DEF FinishBulk, zincVars
  <2>2. \/ pc'[c] \in {"mark", "cursor", "unlock"}
        \/ pc'[c] = "gate" /\ r.kind = "full" /\ r.failedIDs = {}
    BY <1>0, <1>6 DEF FinishBulk, Goto
  <2>3. ASSUME r.kind = "full", r.failedIDs = {} PROVE zdoc[r.index] = r.docs
    <3>1. \A d \in Docs : zdoc[r.index][d] = r.docs[d]
      BY <1>0, <2>1, <2>3 DEF RebuildContents
    <3>2. r.index \in Index
      BY <2>1 DEF IndInv, TypeInv, TypeOK, NamesInOrder, ZincOK, RunNames, Runs, HasIndexPCs, Index, RunsOK
    <3>3. zdoc[r.index] \in [Docs -> Nat]
      BY <1>0, <3>2
    <3> QED BY <1>0, <3>1, <3>3
  <2> QED BY <2>1, <2>2, <2>3 DEF RebuildContents
<1>7. CASE UpdateCursor(c)
  BY <1>0, <1>7, IdleInv DEF UpdateCursor, Goto
<1>8. CASE CheckGate(c)
  <2>1. UNCHANGED zdoc /\ pc[c] = "gate" /\ pc'[c] \in {"getalias", "mark"}
    BY <1>0, <1>8 DEF CheckGate, Goto, zincVars
  <2>2. s.kind = r.kind /\ s.index = r.index /\ s.docs = r.docs
    BY <1>0, <1>8 DEF CheckGate, Runs
  <2> HIDE DEF s
  <2> QED BY <1>0, <2>1, <2>2 DEF RebuildContents, s
<1>9. CASE GetOldIndexes(c)
  <2>1. UNCHANGED zdoc /\ pc[c] = "getalias" /\ pc'[c] \in {"swap", "unlock"}
    BY <1>0, <1>9 DEF GetOldIndexes, Goto, zincVars
  <2>2. s.kind = r.kind /\ s.index = r.index /\ s.docs = r.docs
    BY <1>0, <1>9 DEF GetOldIndexes, Runs
  <2> HIDE DEF s
  <2> QED BY <1>0, <2>1, <2>2 DEF RebuildContents, s
<1>10. CASE SwapAlias(c) \/ MarkFailed(c) \/ Unlock(c)
  BY <1>0, <1>10, IdleInv DEF SwapAlias, MarkFailed, Unlock, Goto
<1> QED BY <1>1, <1>2, <1>3, <1>4, <1>5, <1>6, <1>7, <1>8, <1>9, <1>10 DEF RunStep

LEMMA ContentsNext ==
    ASSUME FailuresShow, IndInv, ContentsInv, [Next]_vars PROVE ContentsInv'
<1>1. CASE UNCHANGED <<zdoc, pc, run>>
  BY <1>1 DEF ContentsInv, RebuildContents
<1>2. ASSUME NEW c \in Callers, NEW k \in Requested, NEW I \in IdSets(k), Trigger(c, k, I)
      PROVE  ContentsInv'
  <2>1. k \in Kinds /\ I \in SUBSET Docs
    BY DataAssumption DEF Kinds, IdSets
  <2>2. pc'[c] = "open"
    BY <1>2 DEF Trigger, Goto, IndInv, TypeInv, TypeOK, RunsOK
  <2> QED BY <1>2, <2>1, <2>2, IdleInv, OthersIdle DEF ContentsInv
<1>3. ASSUME NEW c \in Callers, RunStep(c) PROVE ContentsInv'
  BY <1>3, RunStepContents, OthersIdle DEF ContentsInv
<1>4. ASSUME NEW i \in Index, CleanupStep(i) PROVE ContentsInv'
  <2>1. CASE UNCHANGED <<zdoc, pc, run>>
    BY <1>1, <2>1
  <2>2. CASE CleanupDelete(i)
    <3>1. UNCHANGED <<pc, run>> /\ \E j \in toDelete[i] : zdoc' = [zdoc EXCEPT ![j] = Nothing] \/ UNCHANGED zdoc
      BY <2>2 DEF CleanupDelete, runVars
    <3>2. PICK j \in toDelete[i] : \A k \in Index : k # j => zdoc'[k] = zdoc[k]
      BY <3>1 DEF IndInv, TypeInv, TypeOK, ZincOK
    <3>3. ASSUME NEW c \in Callers, run[c].kind = "full", pc[c] \in RebuildPCs \cup {"record"}
          PROVE  zdoc'[run[c].index] = zdoc[run[c].index]
      <4>1. j < run[c].index
        BY <3>2, <3>3 DEF IndInv, RunInv, RebuildIsNewest
      <4>2. j \in Index
        BY <3>2 DEF IndInv, TypeInv, TypeOK, CleanupOK
      <4>3. run[c].index > 0
        BY <3>3 DEF IndInv, TypeInv, NamesInOrder, RunNames, RebuildPCs, HasIndexPCs
      <4>4. run[c].index \in 0..MaxIndex
        BY DEF IndInv, TypeInv, TypeOK, RunsOK, Runs
      <4>5. run[c].index \in Index
        BY <4>3, <4>4, BoundAssumption DEF Index
      <4> QED BY <3>2, <4>1, <4>2, <4>5 DEF Index
    <3> QED BY <3>1, <3>3 DEF ContentsInv, RebuildContents, RebuildPCs
  <2> QED BY <1>4, <2>1, <2>2 DEF CleanupStep, CleanupCheck, CleanupList, CleanupDone, zincVars, runVars
<1>5. CASE Source \/ RecordLost
  BY <1>1, <1>5 DEF Source, RowChange, RowGone, RecordLost, zincVars, runVars
<1>6. CASE Crash
  BY <1>6, IdleInv DEF Crash, ContentsInv
<1>7. CASE UNCHANGED vars
  BY <1>1, <1>7 DEF vars, zincVars, runVars
<1> QED BY <1>2, <1>3, <1>4, <1>5, <1>6, <1>7 DEF Next

(* Only the swap of a full rebuild puts an index behind the alias. *)
LEMMA AliasGrows ==
    ASSUME FailuresShow, IndInv, Next, NEW i \in alias' \ alias
    PROVE  \E c \in Callers : /\ SwapAlias(c) /\ i = run[c].index /\ alias' = {i}
<1>1. PICK c \in Callers : SwapAlias(c)
  BY DEF Next, Source, RowChange, RowGone, Trigger, RunStep, OpenIndex, CreateIndex, RecordWriteIndex, Build,
         BulkBatch, FinishBulk, UpdateCursor, CheckGate, GetOldIndexes, MarkFailed, Unlock,
         CleanupStep, CleanupCheck, CleanupList, CleanupDelete, CleanupDone, RecordLost, Crash, zincVars
<1>2. Swapped(run[c]) = {run[c].index}
  BY <1>1 DEF IndInv, RunInv, SwapIsTotal, Swapped, SwapAlias
<1> QED BY <1>1, <1>2 DEF SwapAlias

(* When failures show, the index of a rebuild holds at every step what its  *)
(* rebuild read, but for what is still to send or failed.                   *)
THEOREM RebuildsTracked == FailuresShow => (Spec => []ContentsInv)
<1> SUFFICES ASSUME FailuresShow PROVE Spec => []ContentsInv
  OBVIOUS
<1>1. IndInv /\ ContentsInv /\ [Next]_vars => ContentsInv'
  BY ContentsNext
<1> QED BY <1>1, ContentsInit, Invariance, PTL DEF Spec

(* When failures show, an index goes live only at the end of a full        *)
(* rebuild, holding exactly the rows that rebuild read, and at least  *)
(* 90% of the rows of the source: no failed batch, crash, concurrent       *)
(* request or delayed cleanup can put an incomplete index before readers.  *)
THEOREM CompleteGoesLive == FailuresShow => (Spec => OnlyCompleteGoesLive)
<1> SUFFICES ASSUME FailuresShow PROVE Spec => OnlyCompleteGoesLive
  OBVIOUS
<1>1. Spec => []ContentsInv
  BY RebuildsTracked
<1>2. ASSUME IndInv, ContentsInv, [Next]_vars PROVE [PublishedComplete]_vars
  <2>1. CASE UNCHANGED vars
    BY <2>1
  <2>2. CASE Next
    <3>1. ASSUME NEW i \in alias' \ alias
          PROVE  \E c \in Callers : /\ pc[c] = "swap" /\ run[c].kind = "full" /\ run[c].index = i
                                    /\ zdoc[i] = run[c].docs
                                    /\ Gate(Size(run[c]), run[c].expected)
      <4>1. PICK c \in Callers : SwapAlias(c) /\ i = run[c].index
        BY <1>2, <2>2, <3>1, AliasGrows
      <4>2. pc[c] = "swap"
        BY <4>1 DEF SwapAlias
      <4> QED BY <1>2, <4>1, <4>2 DEF IndInv, RunInv, GateIsForFull, GateWasPassed, ContentsInv, RebuildContents
    <3> QED BY <3>1 DEF PublishedComplete
  <2> QED BY <1>2, <2>1, <2>2
<1> QED BY <1>1, <1>2, Invariance, PTL DEF Spec, OnlyCompleteGoesLive

-----------------------------------------------------------------------------
(* What readers find never gets older. *)

LEMMA FreshInit == Init => NeverOlder
<1> SUFFICES ASSUME Init PROVE NeverOlder
  OBVIOUS
<1>1. \A d \in Docs : ver[d] \in {0, 1} /\ changes = 1
  BY DEF Init
<1>2. \A i \in Index : \A d \in Docs : zdoc[i][d] = 0
  BY DEF Init, Nothing
<1>3. VersionsInOrder /\ NotAhead
  BY <1>1, <1>2 DEF VersionsInOrder, NotAhead
<1>4. \A c \in Callers : CarriesNewest(c) /\ RebuildIsOwn(c)
  BY DEF Init, CarriesNewest, RebuildIsOwn, Carrying
<1> QED BY <1>3, <1>4 DEF NeverOlder

(* A run that carries nothing and has no index has nothing to rely on. *)
LEMMA FreshAtRest ==
    ASSUME NEW c \in Callers, pc'[c] \in {"idle", "open", "create", "mark", "unlock"}
    PROVE  CarriesNewest(c)' /\ RebuildIsOwn(c)'
BY DEF CarriesNewest, RebuildIsOwn, Carrying

(* Documents that vanish, as a cleanup deletes their index, are no older. *)
LEMMA FreshVanish ==
    ASSUME TypeInv, NeverOlder, UNCHANGED <<ver, changes, pc, run>>,
           \A i \in Index : \A d \in Docs : zdoc'[i][d] \in {0, zdoc[i][d]}
    PROVE  NeverOlder'
<1>0. /\ zdoc \in [Index -> [Docs -> Nat]] /\ ver \in [Docs -> Nat] /\ changes \in Nat
      /\ run \in [Callers -> Runs]
  BY DEF TypeInv, TypeOK, ZincOK, SourceOK, RunsOK
<1>1. VersionsInOrder'
  BY DEF NeverOlder, VersionsInOrder
<1>2. NotAhead'
  BY <1>0 DEF NeverOlder, NotAhead
<1>3. ASSUME NEW c \in Callers PROVE CarriesNewest(c)' /\ RebuildIsOwn(c)'
  <2>1. CarriesNewest(c) /\ RebuildIsOwn(c) /\ run[c].docs \in [Docs -> Nat]
    BY <1>0 DEF NeverOlder, Runs
  <2>2. CarriesNewest(c)'
    BY <1>0, <2>1 DEF CarriesNewest, Carrying
  <2>3. pc[c] \in HasIndexPCs => run[c].index \in Index
    BY <1>0, BoundAssumption DEF TypeInv, NamesInOrder, RunNames, Runs, Index
  <2>4. RebuildIsOwn(c)'
    BY <2>1, <2>3 DEF RebuildIsOwn, Carrying, HasIndexPCs
  <2> QED BY <2>2, <2>4
<1> QED BY <1>1, <1>2, <1>3 DEF NeverOlder

(* A change gives its row a version beyond all others. *)
LEMMA FreshSource ==
    ASSUME TypeInv, NeverOlder, Source
    PROVE  NeverOlder'
<1>0. /\ zdoc \in [Index -> [Docs -> Nat]] /\ ver \in [Docs -> Nat] /\ changes \in Nat
      /\ run \in [Callers -> Runs]
  BY DEF TypeInv, TypeOK, ZincOK, SourceOK, RunsOK
<1>1. /\ changes' = changes + 1 /\ UNCHANGED <<zdoc, pc, run>>
      /\ \A d \in Docs : ver'[d] \in {0, ver[d], changes + 1}
  BY <1>0 DEF Source, RowChange, RowGone, zincVars, runVars
<1>2. VersionsInOrder'
  BY <1>0, <1>1 DEF NeverOlder, VersionsInOrder
<1>3. NotAhead'
  <2> SUFFICES ASSUME NEW i \in Index, NEW d \in Docs
               PROVE  zdoc[i][d] <= changes' /\ (ver'[d] > 0 => zdoc[i][d] <= ver'[d])
    BY <1>1 DEF NotAhead
  <2>1. zdoc[i][d] \in Nat /\ zdoc[i][d] <= changes /\ (ver[d] > 0 => zdoc[i][d] <= ver[d])
    BY <1>0 DEF NeverOlder, NotAhead
  <2> QED BY <1>0, <1>1, <2>1
<1>4. ASSUME NEW c \in Callers PROVE CarriesNewest(c)' /\ RebuildIsOwn(c)'
  <2>1. CarriesNewest(c) /\ RebuildIsOwn(c) /\ run[c].docs \in [Docs -> Nat]
    BY <1>0 DEF NeverOlder, Runs
  <2>2. ASSUME Carrying(c), NEW d \in Docs
        PROVE  run[c].docs[d] <= changes' /\ (ver'[d] > 0 => run[c].docs[d] <= ver'[d])
    <3>1. run[c].docs[d] \in Nat /\ run[c].docs[d] <= changes /\ (ver[d] > 0 => run[c].docs[d] <= ver[d])
      BY <2>1, <2>2 DEF CarriesNewest
    <3> QED BY <1>0, <1>1, <3>1
  <2>3. CarriesNewest(c)'
    BY <1>1, <2>1, <2>2 DEF CarriesNewest, Carrying
  <2>4. RebuildIsOwn(c)'
    BY <1>1, <2>1 DEF RebuildIsOwn, Carrying
  <2> QED BY <2>3, <2>4
<1> QED BY <1>2, <1>3, <1>4 DEF NeverOlder

(* The steps of runSync: only a batch writes documents, and it carries     *)
(* what the build read.                                                    *)
LEMMA FreshRunStep ==
    ASSUME IndInv, NeverOlder, NEW c \in Callers, RunStep(c)
    PROVE  NotAhead' /\ CarriesNewest(c)' /\ RebuildIsOwn(c)'
<1> DEFINE r == run[c]
           s == run'[c]
<1>0. /\ zdoc \in [Index -> [Docs -> Nat]] /\ ver \in [Docs -> Nat] /\ changes \in Nat
      /\ pc \in [Callers -> RunPCs] /\ run \in [Callers -> Runs] /\ r \in Runs
      /\ r.docs \in [Docs -> Nat] /\ r.todo \subseteq Docs
      /\ pc[c] \in HasIndexPCs => r.index \in Index
  <2>1. /\ zdoc \in [Index -> [Docs -> Nat]] /\ ver \in [Docs -> Nat] /\ changes \in Nat
        /\ pc \in [Callers -> RunPCs] /\ run \in [Callers -> Runs]
    BY DEF IndInv, TypeInv, TypeOK, ZincOK, SourceOK, RunsOK
  <2>2. pc[c] \in HasIndexPCs => r.index \in Index
    BY <2>1, BoundAssumption DEF IndInv, TypeInv, NamesInOrder, RunNames, Runs, Index
  <2> QED BY <2>1, <2>2 DEF Runs
<1>1. NotAhead /\ CarriesNewest(c) /\ RebuildIsOwn(c) /\ VersionsInOrder
  BY DEF NeverOlder
<1>2. UNCHANGED <<ver, changes>>
  BY DEF RunStep, OpenIndex, CreateIndex, RecordWriteIndex, Build, BulkBatch, FinishBulk, UpdateCursor,
         CheckGate, GetOldIndexes, SwapAlias, MarkFailed, Unlock, sourceVars
<1>3. CASE BulkBatch(c)
  <2>1. UNCHANGED pc /\ pc[c] = "bulk"
    BY <1>3 DEF BulkBatch
  <2>2. PICK B \in Batches(r.todo) :
          \/ /\ Store(r.index, B, r.docs)
             /\ run' = [run EXCEPT ![c].todo = r.todo \ B]
          \/ /\ \E A \in SUBSET B : Store(r.index, A, r.docs)
             /\ run' = [run EXCEPT ![c].todo = r.todo \ B,
                                   ![c].failedIDs = IF FailuresShow THEN r.failedIDs \cup B ELSE r.failedIDs]
    BY <1>3 DEF BulkBatch
  <2>3. s.kind = r.kind /\ s.index = r.index /\ s.docs = r.docs /\ s.todo \subseteq r.todo
    BY <1>0, <2>2 DEF Runs
  <2>4. PICK A \in SUBSET r.todo : Store(r.index, A, r.docs)
    BY <2>2 DEF Batches
  <2>5. r.index \in Index
    BY <1>0, <2>1 DEF HasIndexPCs
  <2>6. \A i \in Index : \A d \in Docs :
           zdoc'[i][d] = IF i = r.index /\ d \in A THEN r.docs[d] ELSE zdoc[i][d]
    BY <1>0, <2>4, <2>5 DEF Store
  <2>7. /\ \A d \in Docs :
            /\ d \in r.todo => r.docs[d] > 0
            /\ r.docs[d] <= changes
            /\ ver[d] > 0 => r.docs[d] <= ver[d]
            /\ r.docs[d] > 0 => \A i \in Index : zdoc[i][d] <= r.docs[d]
        /\ r.kind = "full" => \A d \in Docs : zdoc[r.index][d] \in {0, r.docs[d]}
    BY <1>1, <2>1 DEF CarriesNewest, RebuildIsOwn, Carrying
  <2>8. NotAhead'
    <3>1. \A i \in Index : \A d \in Docs : zdoc[i][d] <= changes /\ (ver[d] > 0 => zdoc[i][d] <= ver[d])
      BY <1>1 DEF NotAhead
    <3> QED BY <1>2, <2>6, <2>7, <3>1 DEF NotAhead
  <2> HIDE DEF s
  <2>9. \A d \in Docs :
           /\ d \in s.todo => s.docs[d] > 0
           /\ s.docs[d] <= changes
           /\ ver[d] > 0 => s.docs[d] <= ver[d]
           /\ s.docs[d] > 0 => \A i \in Index : zdoc'[i][d] <= s.docs[d]
    <3>1. \A d \in Docs : r.docs[d] \in Nat
      BY <1>0
    <3> HIDE DEF r
    <3> QED BY <2>3, <2>6, <2>7, <3>1
  <2>10. CarriesNewest(c)'
    BY <1>2, <2>9 DEF CarriesNewest, s
  <2>11. s.kind = "full" => \A d \in Docs : zdoc'[s.index][d] \in {0, s.docs[d]}
    BY <2>3, <2>5, <2>6, <2>7
  <2>12. RebuildIsOwn(c)'
    BY <2>1, <2>11 DEF RebuildIsOwn, s
  <2> QED BY <2>8, <2>10, <2>12
<1>4. ASSUME ~BulkBatch(c) PROVE UNCHANGED zdoc
  BY <1>4 DEF RunStep, OpenIndex, CreateIndex, RecordWriteIndex, Build, FinishBulk, UpdateCursor,
         CheckGate, GetOldIndexes, SwapAlias, MarkFailed, Unlock, zincVars
<1>5. ASSUME UNCHANGED zdoc PROVE NotAhead'
  BY <1>1, <1>2, <1>5 DEF NotAhead
<1>6. ASSUME UNCHANGED zdoc, pc'[c] \in {"idle", "open", "create", "mark", "unlock"}
      PROVE  NotAhead' /\ CarriesNewest(c)' /\ RebuildIsOwn(c)'
  BY <1>5, <1>6, FreshAtRest
<1>7. CASE OpenIndex(c)
  <2>1. \/ pc'[c] \in {"create", "unlock"}
        \/ pc'[c] = "build" /\ s.kind = r.kind /\ r.kind # "full"
    BY <1>0, <1>7 DEF OpenIndex, Goto, Runs
  <2>2. UNCHANGED zdoc
    BY <1>7 DEF OpenIndex, zincVars
  <2>3. ASSUME pc'[c] = "build", s.kind # "full" PROVE CarriesNewest(c)' /\ RebuildIsOwn(c)'
    BY <2>3 DEF CarriesNewest, RebuildIsOwn, Carrying
  <2> QED BY <1>5, <1>6, <2>1, <2>2, <2>3
<1>8. CASE CreateIndex(c)
  <2>1. UNCHANGED zdoc /\ (pc'[c] = "unlock" \/ (pc'[c] = "record" /\ s.index = created + 1 /\ created < MaxIndex))
    BY <1>0, <1>8 DEF CreateIndex, Goto, Runs
  <2>2. created < MaxIndex => \A d \in Docs : zdoc[created + 1][d] = 0
    BY BoundAssumption DEF IndInv, TypeInv, TypeOK, NamesInOrder, ZincOK, ZincNames, Index, Nothing
  <2>3. ASSUME pc'[c] = "record", s.index = created + 1, created < MaxIndex
        PROVE  CarriesNewest(c)' /\ RebuildIsOwn(c)'
    BY <2>1, <2>2, <2>3 DEF CarriesNewest, RebuildIsOwn, Carrying
  <2> QED BY <1>5, <1>6, <2>1, <2>3
<1>9. CASE RecordWriteIndex(c)
  <2>1. UNCHANGED <<zdoc, run>> /\ pc[c] = "record" /\ pc'[c] \in {"build", "unlock"}
    BY <1>0, <1>9 DEF RecordWriteIndex, Goto, zincVars
  <2>2. ASSUME pc'[c] = "build" PROVE CarriesNewest(c)' /\ RebuildIsOwn(c)'
    BY <1>1, <2>1, <2>2 DEF CarriesNewest, RebuildIsOwn, Carrying
  <2> QED BY <1>5, <1>6, <2>1, <2>2
<1>10. CASE Build(c)
  <2>1. UNCHANGED zdoc /\ pc[c] = "build"
    BY <1>10 DEF Build, zincVars
  <2>2. CASE pc' = [pc EXCEPT ![c] = "unlock"]
    BY <1>0, <1>6, <2>1, <2>2
  <2>3. ASSUME pc' = [pc EXCEPT ![c] = "bulk"], NEW from \in Nat, NEW last \in Nat, BuiltFrom(c, from, last)
        PROVE  NotAhead' /\ CarriesNewest(c)' /\ RebuildIsOwn(c)'
    <3>1. s.kind = r.kind /\ s.index = r.index
      BY <2>3 DEF BuiltFrom
    <3>2. \A d \in Docs : /\ s.docs[d] \in {0, ver[d]}
                          /\ d \in s.todo => s.docs[d] = ver[d] /\ ver[d] > 0
      BY <2>3 DEF BuiltFrom, RowsOf, Selected
    <3>4. pc'[c] = "bulk"
      BY <1>0, <2>3
    <3>5. r.kind = "full" => \A d \in Docs : zdoc[r.index][d] = 0
      BY <1>1, <2>1 DEF RebuildIsOwn
    <3>6. \A d \in Docs : /\ ver[d] \in Nat /\ ver[d] <= changes
                          /\ ver[d] > 0 => \A i \in Index : zdoc[i][d] <= ver[d]
      BY <1>0, <1>1 DEF VersionsInOrder, NotAhead
    <3> HIDE DEF s
    <3>7. \A d \in Docs :
             /\ d \in s.todo => s.docs[d] > 0
             /\ s.docs[d] <= changes
             /\ ver[d] > 0 => s.docs[d] <= ver[d]
             /\ s.docs[d] > 0 => \A i \in Index : zdoc[i][d] <= s.docs[d]
      BY <1>0, <3>2, <3>6
    <3>8. CarriesNewest(c)'
      BY <1>2, <2>1, <3>7 DEF CarriesNewest, s
    <3>9. s.kind = "full" => \A d \in Docs : zdoc'[s.index][d] \in {0, s.docs[d]}
      BY <2>1, <3>1, <3>5
    <3>10. RebuildIsOwn(c)'
      BY <3>4, <3>9 DEF RebuildIsOwn, s
    <3> QED BY <1>5, <2>1, <3>8, <3>10
  <2> QED BY <1>10, <2>2, <2>3, BuildStep DEF IndInv, TypeInv
<1>11. ASSUME UNCHANGED zdoc, s.kind = r.kind, s.index = r.index, s.docs = r.docs, s.todo = r.todo,
              Carrying(c), pc'[c] \in {"cursor", "gate", "getalias", "swap"}
       PROVE  NotAhead' /\ CarriesNewest(c)' /\ RebuildIsOwn(c)'
  <2>1. CarriesNewest(c)'
    BY <1>1, <1>2, <1>11 DEF CarriesNewest
  <2>2. RebuildIsOwn(c)'
    BY <1>1, <1>11 DEF RebuildIsOwn
  <2> QED BY <1>5, <1>11, <2>1, <2>2
<1>12. CASE FinishBulk(c)
  <2>1. UNCHANGED <<zdoc, run>> /\ pc[c] = "bulk" /\ pc'[c] \in {"mark", "cursor", "unlock", "gate"}
    BY <1>0, <1>12 DEF FinishBulk, Goto, zincVars
  <2> QED BY <1>6, <1>11, <2>1 DEF Carrying
<1>13. CASE CheckGate(c)
  <2>1. UNCHANGED zdoc /\ pc[c] = "gate" /\ pc'[c] \in {"getalias", "mark"}
    BY <1>0, <1>13 DEF CheckGate, Goto, zincVars
  <2>2. s.kind = r.kind /\ s.index = r.index /\ s.docs = r.docs /\ s.todo = r.todo
    BY <1>0, <1>13 DEF CheckGate, Runs
  <2> QED BY <1>6, <1>11, <2>1, <2>2 DEF Carrying
<1>14. CASE GetOldIndexes(c)
  <2>1. UNCHANGED zdoc /\ pc[c] = "getalias" /\ pc'[c] \in {"swap", "unlock"}
    BY <1>0, <1>14 DEF GetOldIndexes, Goto, zincVars
  <2>2. s.kind = r.kind /\ s.index = r.index /\ s.docs = r.docs /\ s.todo = r.todo
    BY <1>0, <1>14 DEF GetOldIndexes, Runs
  <2> QED BY <1>6, <1>11, <2>1, <2>2 DEF Carrying
<1>15. CASE UpdateCursor(c) \/ SwapAlias(c) \/ MarkFailed(c) \/ Unlock(c)
  <2>1. UNCHANGED zdoc /\ pc'[c] \in {"idle", "unlock"}
    BY <1>0, <1>15 DEF UpdateCursor, SwapAlias, MarkFailed, Unlock, Goto, zincVars
  <2> QED BY <1>6, <2>1
<1> QED BY <1>3, <1>7, <1>8, <1>9, <1>10, <1>12, <1>13, <1>14, <1>15 DEF RunStep

LEMMA FreshNext ==
    ASSUME IndInv, NeverOlder, [Next]_vars PROVE NeverOlder'
<1>0. TypeInv /\ OneRunAtATime
  BY DEF IndInv
<1>1. CASE UNCHANGED <<ver, changes, pc, run, zdoc>>
  <2>1. \A i \in Index : \A d \in Docs : zdoc'[i][d] \in {0, zdoc[i][d]}
    BY <1>1
  <2> QED BY <1>0, <1>1, <2>1, FreshVanish
<1>2. ASSUME NEW c \in Callers, NEW k \in Requested, NEW I \in IdSets(k), Trigger(c, k, I)
      PROVE  NeverOlder'
  <2>1. k \in Kinds /\ I \in SUBSET Docs
    BY DataAssumption DEF Kinds, IdSets
  <2>2. pc'[c] = "open" /\ UNCHANGED <<ver, changes, zdoc>>
    BY <1>2 DEF Trigger, Goto, IndInv, TypeInv, TypeOK, RunsOK, sourceVars, zincVars
  <2>3. VersionsInOrder' /\ NotAhead'
    BY <2>2 DEF NeverOlder, VersionsInOrder, NotAhead
  <2>4. \A e \in Callers : CarriesNewest(e)' /\ RebuildIsOwn(e)'
    BY <1>0, <1>2, <2>1, <2>2, Alone, FreshAtRest
  <2> QED BY <2>3, <2>4 DEF NeverOlder
<1>3. ASSUME NEW c \in Callers, RunStep(c) PROVE NeverOlder'
  <2>1. UNCHANGED <<ver, changes>>
    BY <1>3 DEF RunStep, OpenIndex, CreateIndex, RecordWriteIndex, Build, BulkBatch, FinishBulk, UpdateCursor,
           CheckGate, GetOldIndexes, SwapAlias, MarkFailed, Unlock, sourceVars
  <2>2. VersionsInOrder'
    BY <2>1 DEF NeverOlder, VersionsInOrder
  <2>3. \A e \in Callers : CarriesNewest(e)' /\ RebuildIsOwn(e)'
    BY <1>0, <1>3, FreshRunStep, Alone, FreshAtRest
  <2> QED BY <1>3, <2>2, <2>3, FreshRunStep DEF NeverOlder
<1>4. ASSUME NEW i \in Index, CleanupStep(i) PROVE NeverOlder'
  <2>1. CASE UNCHANGED zdoc
    BY <1>1, <1>4, <2>1 DEF CleanupStep, CleanupCheck, CleanupList, CleanupDelete, CleanupDone, sourceVars, runVars
  <2>2. CASE CleanupDelete(i)
    <3>1. /\ UNCHANGED <<ver, changes, pc, run>>
          /\ \E j \in toDelete[i] : zdoc' = [zdoc EXCEPT ![j] = Nothing] \/ UNCHANGED zdoc
      BY <2>2 DEF CleanupDelete, sourceVars, runVars
    <3>2. \A k \in Index : \A d \in Docs : zdoc'[k][d] \in {0, zdoc[k][d]}
      BY <3>1 DEF IndInv, TypeInv, TypeOK, ZincOK, Nothing
    <3> QED BY <1>0, <3>1, <3>2, FreshVanish
  <2> QED BY <1>4, <2>1, <2>2 DEF CleanupStep, CleanupCheck, CleanupList, CleanupDone, zincVars
<1>5. CASE Source
  BY <1>0, <1>5, FreshSource
<1>8. CASE RecordLost
  BY <1>1, <1>8 DEF RecordLost, sourceVars, zincVars, runVars
<1>6. CASE Crash
  <2>1. UNCHANGED <<ver, changes, zdoc>> /\ \A c \in Callers : pc'[c] = "idle"
    BY <1>6 DEF Crash, sourceVars, zincVars
  <2>2. VersionsInOrder' /\ NotAhead'
    BY <2>1 DEF NeverOlder, VersionsInOrder, NotAhead
  <2> QED BY <2>1, <2>2, FreshAtRest DEF NeverOlder
<1>7. CASE UNCHANGED vars
  BY <1>1, <1>7 DEF vars, sourceVars, zincVars, runVars
<1> QED BY <1>2, <1>3, <1>4, <1>5, <1>6, <1>7, <1>8 DEF Next

(* Every index holds versions a row had, and what a run carries is at      *)
(* least as new as what any index holds, whatever fails and whether it     *)
(* shows or not: a run reads after all others wrote, because of the lock   *)
(* (engine.go:108-112).                                                    *)
THEOREM NothingGetsOlder == Spec => []NeverOlder
<1>1. IndInv /\ NeverOlder /\ [Next]_vars => NeverOlder'
  BY FreshNext
<1> QED BY FreshInit, Invariance, <1>1, PTL DEF Spec

-----------------------------------------------------------------------------
(* While an index stays behind the alias, its documents come or get newer. *)
LEMMA LiveOnlyGrows ==
    ASSUME IndInv, NeverOlder, [Next]_vars, NEW i \in alias, i \in alias', NEW d \in Docs
    PROVE  zdoc'[i][d] >= zdoc[i][d]
<1>0. zdoc \in [Index -> [Docs -> Nat]] /\ i \in Index
  BY DEF IndInv, TypeInv, TypeOK, ZincOK
<1>1. CASE UNCHANGED zdoc
  BY <1>0, <1>1
<1>2. ASSUME NEW c \in Callers, BulkBatch(c) PROVE zdoc'[i][d] >= zdoc[i][d]
  <2> DEFINE r == run[c]
  <2>1. pc[c] = "bulk" /\ \E B \in Batches(r.todo) : \E A \in SUBSET B : Store(r.index, A, r.docs)
    BY <1>2 DEF BulkBatch
  <2>2. PICK A \in SUBSET r.todo : Store(r.index, A, r.docs)
    BY <2>1 DEF Batches
  <2>3. run \in [Callers -> Runs] /\ r.docs \in [Docs -> Nat]
    BY DEF IndInv, TypeInv, TypeOK, RunsOK, Runs
  <2>4. d \in r.todo => r.docs[d] > 0 /\ zdoc[i][d] <= r.docs[d]
    BY <1>0, <2>1 DEF NeverOlder, CarriesNewest, Carrying
  <2>5. zdoc'[i][d] = zdoc[i][d] \/ (d \in r.todo /\ zdoc'[i][d] = r.docs[d])
    BY <1>0, <2>2 DEF Store
  <2> QED BY <1>0, <2>3, <2>4, <2>5
<1>3. ASSUME NEW j \in Index, CleanupDelete(j) PROVE zdoc'[i][d] >= zdoc[i][d]
  <2>1. PICK k \in toDelete[j] : UNCHANGED zdoc \/ (alias' = alias \ {k} /\ zdoc' = [zdoc EXCEPT ![k] = Nothing])
    BY <1>3 DEF CleanupDelete
  <2>2. UNCHANGED zdoc \/ (k # i /\ zdoc' = [zdoc EXCEPT ![k] = Nothing])
    BY <2>1
  <2> QED BY <1>0, <2>2
<1> QED
  BY <1>1, <1>2, <1>3
  DEF Next, Source, RowChange, RowGone, Trigger, RunStep, OpenIndex, CreateIndex, RecordWriteIndex, Build,
      FinishBulk, UpdateCursor, CheckGate, GetOldIndexes, SwapAlias, MarkFailed, Unlock,
      CleanupStep, CleanupCheck, CleanupList, CleanupDone, RecordLost, Crash, zincVars, vars

(* The engine implements AliasService: what readers of the alias see is    *)
(* replaced, in one step, by something newer, or withdrawn, and between    *)
(* two switches documents only come or get newer, if failures show.        *)
THEOREM ImplementsAliasService == FailuresShow => (Spec => AliasServed)
<1> SUFFICES ASSUME FailuresShow PROVE Spec => AliasServed
  OBVIOUS
<1>1. Init => Alias!Init
  BY DEF Init, Alias!Init, Alias!Nobody, Seen
<1>2. ASSUME IndInv, NeverOlder, [Next]_vars PROVE [Alias!Next]_<<alias, Seen>>
  <2>0. TypeInv /\ TypeInv' /\ OneLiveIndex /\ OneLiveIndex'
    BY <1>2, IndNext DEF IndInv, LiveInv
  <2>1. alias \subseteq Index /\ alias' \subseteq Index
    BY <2>0 DEF TypeInv, TypeOK, ZincOK
  <2>2. zdoc \in [Index -> [Docs -> Nat]] /\ zdoc' \in [Index -> [Docs -> Nat]]
    BY <2>0 DEF TypeInv, TypeOK, ZincOK
  <2>3. /\ alias = {} => Seen = [d \in Docs |-> 0]
        /\ \A i \in Index : alias = {i} => Seen = [d \in Docs |-> zdoc[i][d]]
    <3>1. \A i \in Index : alias = {i} => (CHOOSE j \in alias : TRUE) = i
      OBVIOUS
    <3> QED BY <3>1 DEF Seen
  <2>4. /\ alias' = {} => Seen' = [d \in Docs |-> 0]
        /\ \A i \in Index : alias' = {i} => Seen' = [d \in Docs |-> zdoc'[i][d]]
    <3>1. \A i \in Index : alias' = {i} => (CHOOSE j \in alias' : TRUE) = i
      OBVIOUS
    <3> QED BY <3>1 DEF Seen
  <2>5. CASE alias' = {}
    BY <2>4, <2>5 DEF Alias!Next, Alias!Withdraw, Alias!Nobody
  <2>6. CASE alias' # {} /\ alias' \subseteq alias
    <3>1. PICK i \in alias' : TRUE
      BY <2>6
    <3>2. alias = {i} /\ alias' = {i} /\ i \in Index
      BY <2>0, <2>1, <2>6, <3>1 DEF OneLiveIndex
    <3>3. Seen = [d \in Docs |-> zdoc[i][d]] /\ Seen' = [d \in Docs |-> zdoc'[i][d]]
      BY <2>3, <2>4, <3>2
    <3>4. \A d \in Docs : zdoc'[i][d] >= zdoc[i][d]
      BY <1>2, <3>2, LiveOnlyGrows
    <3>5. Seen' \in [Docs -> Nat] /\ \A d \in Docs : Seen'[d] >= Seen[d]
      BY <2>2, <3>2, <3>3, <3>4
    <3> QED BY <3>2, <3>5 DEF Alias!Next, Alias!Deliver
  <2>7. CASE ~(alias' \subseteq alias)
    <3>1. PICK i \in alias' \ alias : TRUE
      BY <2>7
    <3>2. Next
      BY <1>2, <2>7 DEF vars, zincVars
    <3>3. PICK c \in Callers : SwapAlias(c) /\ i = run[c].index /\ alias' = {i}
      BY <1>2, <3>1, <3>2, AliasGrows
    <3>4. pc[c] = "swap" /\ UNCHANGED zdoc
      BY <3>3 DEF SwapAlias
    <3>5. run[c].kind = "full" /\ \A j \in alias : j < i
      BY <1>2, <3>3, <3>4 DEF IndInv, RunInv, GateIsForFull, RebuildIsNewest, RebuildPCs
    <3>6. i \in Index /\ run[c].docs \in [Docs -> Nat]
      BY <2>0, <2>1, <3>1 DEF TypeInv, TypeOK, RunsOK, Runs
    <3>7. \A d \in Docs : zdoc[i][d] \in {0, run[c].docs[d]}
      BY <1>2, <3>3, <3>4, <3>5 DEF NeverOlder, RebuildIsOwn, Carrying
    <3>8. \A d \in Docs : run[c].docs[d] > 0 => \A j \in Index : zdoc[j][d] <= run[c].docs[d]
      BY <1>2, <3>4 DEF NeverOlder, CarriesNewest, Carrying
    <3>9. Seen' = [d \in Docs |-> zdoc[i][d]]
      BY <2>4, <3>3, <3>4, <3>6
    <3>10. Seen = [d \in Docs |-> 0] \/ \E j \in Index : Seen = [d \in Docs |-> zdoc[j][d]]
      <4>1. alias = {} \/ \E j \in Index : alias = {j}
        BY <2>0, <2>1 DEF OneLiveIndex
      <4> QED BY <2>3, <4>1
    <3>11. \A d \in Docs : Seen'[d] = 0 \/ Seen'[d] >= Seen[d]
      <4> SUFFICES ASSUME NEW d \in Docs, zdoc[i][d] # 0
                   PROVE  zdoc[i][d] >= Seen[d]
        BY <3>9
      <4>1. zdoc[i][d] = run[c].docs[d] /\ run[c].docs[d] \in Nat /\ run[c].docs[d] > 0
        BY <3>6, <3>7
      <4>2. Seen[d] = 0 \/ \E j \in Index : Seen[d] = zdoc[j][d]
        BY <3>10
      <4> QED BY <3>8, <4>1, <4>2
    <3>12. Seen' \in [Docs -> Nat]
      BY <2>2, <3>4, <3>6, <3>9
    <3> QED BY <3>3, <3>5, <3>6, <3>11, <3>12 DEF Alias!Next, Alias!Publish
  <2> QED BY <2>5, <2>6, <2>7
<1> QED BY <1>1, <1>2, Invariance, NothingGetsOlder, PTL DEF Spec, AliasServed, Alias!Spec

-----------------------------------------------------------------------------
(* The cursor: what a step leaves alone. *)

LEMMA NotDelivering ==
    ASSUME NEW c \in Callers, pc'[c] \notin {"bulk", "cursor"}
    PROVE RunDelivers(c)'
  BY DEF RunDelivers, Carries, HasRead, HasStored, CursorIsOfIncremental, Delivers

(* The lock: when c takes a step, the others are idle and stay so. *)
LEMMA OthersRest ==
    ASSUME TypeInv, OneRunAtATime, NEW c \in Callers,
           RunStep(c) \/ (\E k \in Kinds, I \in SUBSET Docs : Trigger(c, k, I)),
           NEW e \in Callers, e # c
    PROVE RunDelivers(e)'
BY Alone, NotDelivering

(* The rows, their stamps, what is stored and the cursor stay.             *)
LEMMA StoresStay ==
    ASSUME Delivered, UNCHANGED <<sourceVars, zdoc, cursor>>
    PROVE VersionsInOrder' /\ CursorNeverSkips'
  BY DEF Delivered, VersionsInOrder, CursorNeverSkips, sourceVars

-----------------------------------------------------------------------------
(* The cursor: the source. *)

(* A change that does not come late has a stamp beyond the cursor and      *)
(* beyond every cursor on its way.                                         *)
LEMMA ChangeIsBeyond ==
    ASSUME TypeInv, NEW d \in Docs, RowChange(d) \/ RowGone(d)
    PROVE  /\ \A e \in Docs \ {d} : /\ ver'[e] = ver[e] /\ stamp'[e] = stamp[e]
                                    /\ late'[e] = late[e] /\ lost'[e] = lost[e]
           /\ \/ ver'[d] = 0
              \/ /\ ver'[d] = changes + 1
                 /\ ~late'[d] => /\ ~(stamp'[d] <= cursor)
                                 /\ \A c \in Callers : Delivers(c) => ~(stamp'[d] <= run[c].last)
  <1>1. /\ ver \in [Docs -> Nat] /\ stamp \in [Docs -> Nat]
        /\ late \in [Docs -> BOOLEAN] /\ lost \in [Docs -> BOOLEAN]
    BY DEF TypeInv, TypeOK, SourceOK
  <1>2. CASE RowChange(d)
    <2>1. PICK t \in Ticks : /\ stamp' = [stamp EXCEPT ![d] = clock + t]
                             /\ late' = [late EXCEPT ![d] = Reached(clock + t)]
      BY <1>2 DEF RowChange
    <2> DEFINE s == clock + t
               b == Reached(s)
    <2>2. stamp' = [stamp EXCEPT ![d] = s] /\ late' = [late EXCEPT ![d] = b]
      BY <2>1
    <2>3. ~b => ~(s <= cursor) /\ \A c \in Callers : Delivers(c) => ~(s <= run[c].last)
      BY DEF Reached, Delivers
    <2>4. ver' = [ver EXCEPT ![d] = changes + 1] /\ lost' = [lost EXCEPT ![d] = FALSE]
      BY <1>2 DEF RowChange
    <2> HIDE DEF s, b
    <2> QED BY <1>1, <2>2, <2>3, <2>4
  <1>3. CASE RowGone(d)
    BY <1>1, <1>3 DEF RowGone
  <1> QED BY <1>2, <1>3

LEMMA ChangeDelivers ==
    ASSUME TypeInv, Delivered, NEW d \in Docs, RowChange(d) \/ RowGone(d)
    PROVE Delivered'
  <1>1. /\ ver \in [Docs -> Nat] /\ stamp \in [Docs -> Nat] /\ changes \in Nat /\ cursor \in Nat
        /\ run \in [Callers -> Runs] /\ stamp' \in [Docs -> Nat]
    <2>1. TypeInv'
      BY TypeSource DEF Source
    <2> QED BY <2>1 DEF TypeInv, TypeOK, SourceOK, MetaOK, RunsOK
  <1>2. UNCHANGED <<zdoc, cursor, pc, run>> /\ changes' = changes + 1
    BY DEF RowChange, RowGone, zincVars, metaVars, runVars
  <1>3. /\ \A e \in Docs \ {d} : /\ ver'[e] = ver[e] /\ stamp'[e] = stamp[e]
                                 /\ late'[e] = late[e] /\ lost'[e] = lost[e]
        /\ \/ ver'[d] = 0
           \/ /\ ver'[d] = changes + 1
              /\ ~late'[d] => /\ ~(stamp'[d] <= cursor)
                              /\ \A c \in Callers : Delivers(c) => ~(stamp'[d] <= run[c].last)
    BY ChangeIsBeyond
  <1>4. VersionsInOrder'
    <2> SUFFICES ASSUME NEW e \in Docs PROVE ver'[e] <= changes'
      BY DEF VersionsInOrder
    <2>1. ver[e] <= changes /\ ver[e] \in Nat
      BY <1>1 DEF Delivered, VersionsInOrder
    <2> QED BY <1>1, <1>2, <1>3, <2>1
  <1>5. CursorNeverSkips'
    <2> SUFFICES ASSUME NEW e \in Docs, ver'[e] > 0, stamp'[e] <= cursor, ~late'[e]
                 PROVE lost'[e] \/ \E i \in Index : zdoc[i][e] = ver'[e]
      BY <1>2 DEF CursorNeverSkips
    <2>1. e # d
      BY <1>3
    <2>2. ver'[e] = ver[e] /\ stamp'[e] = stamp[e] /\ late'[e] = late[e] /\ lost'[e] = lost[e]
      BY <1>3, <2>1
    <2> QED BY <2>2 DEF Delivered, CursorNeverSkips
  <1>6. ASSUME NEW c \in Callers PROVE RunDelivers(c)'
    <2>1. run[c].last \in Nat /\ run[c].docs \in [Docs -> Nat]
      BY <1>1 DEF Runs
    <2>2. Carries(c) /\ HasRead(c) /\ HasStored(c) /\ CursorIsOfIncremental(c)
      BY DEF Delivered, RunDelivers
    <2>3. Carries(c)'
      <3> SUFFICES ASSUME Delivers(c) PROVE Carries(c)'
        BY <1>2 DEF Carries, Delivers
      <3>1. ASSUME NEW e \in Docs
            PROVE /\ run[c].docs[e] <= changes'
                  /\ run[c].docs[e] > 0 /\ ver'[e] > 0 /\ run[c].docs[e] # ver'[e] =>
                         late'[e] \/ (stamp'[e] > run[c].last /\ stamp'[e] > cursor)
        <4>1. run[c].docs[e] \in Nat /\ run[c].docs[e] <= changes
          BY <2>1, <2>2 DEF Carries
        <4>2. run[c].docs[e] <= changes'
          BY <1>1, <1>2, <4>1
        <4>3. CASE e = d
          <5>1. stamp'[e] \in Nat
            BY <1>1
          <5> QED BY <1>1, <1>3, <2>1, <4>2, <4>3, <5>1
        <4>4. CASE e # d
          <5>1. ver'[e] = ver[e] /\ stamp'[e] = stamp[e] /\ late'[e] = late[e]
            BY <1>3, <4>4
          <5> QED BY <2>2, <4>2, <5>1 DEF Carries
        <4> QED BY <4>3, <4>4
      <3>2. \A e \in run[c].todo : run[c].docs[e] > 0
        BY <2>2 DEF Carries
      <3> QED BY <1>2, <3>1, <3>2 DEF Carries
    <2>4. HasRead(c)'
      <3> SUFFICES ASSUME Delivers(c), run[c].kind = "incremental",
                          NEW e \in Docs, ver'[e] > 0, stamp'[e] <= run[c].last, ~late'[e]
                   PROVE stamp'[e] <= cursor \/ run[c].docs[e] = ver'[e]
        BY <1>2 DEF HasRead, Delivers
      <3>1. e # d
        BY <1>3
      <3>2. ver'[e] = ver[e] /\ stamp'[e] = stamp[e] /\ late'[e] = late[e]
        BY <1>3, <3>1
      <3> QED BY <2>2, <3>2 DEF HasRead
    <2>5. HasStored(c)'
      <3> SUFFICES ASSUME Delivers(c), run[c].kind = "incremental", NEW e \in Docs,
                          run[c].docs[e] > 0, run[c].docs[e] = ver'[e],
                          pc[c] = "bulk" => e \notin run[c].todo \cup run[c].failedIDs
                   PROVE lost'[e] \/ zdoc[run[c].index][e] = run[c].docs[e]
        BY <1>2 DEF HasStored, Delivers
      <3>1. run[c].docs[e] \in Nat /\ run[c].docs[e] <= changes
        BY <2>1, <2>2 DEF Carries
      <3>2. e # d
        BY <1>1, <1>3, <3>1
      <3>3. ver'[e] = ver[e] /\ lost'[e] = lost[e]
        BY <1>3, <3>2
      <3> QED BY <2>2, <3>3 DEF HasStored
    <2>6. CursorIsOfIncremental(c)'
      BY <1>2, <2>2 DEF CursorIsOfIncremental
    <2> QED BY <2>3, <2>4, <2>5, <2>6 DEF RunDelivers
  <1> QED BY <1>4, <1>5, <1>6 DEF Delivered

-----------------------------------------------------------------------------
(* The cursor: a run. *)

(* A step of a run that reads no rows and stores none. *)
LEMMA QuietStep ==
    ASSUME TypeInv, OneRunAtATime, Delivered, NEW c \in Callers,
           RunStep(c) \/ (\E k \in Kinds, I \in SUBSET Docs : Trigger(c, k, I)),
           UNCHANGED <<sourceVars, zdoc, cursor>>, RunDelivers(c)'
    PROVE Delivered'
  <1>1. VersionsInOrder' /\ CursorNeverSkips'
    BY StoresStay
  <1>2. \A e \in Callers : RunDelivers(e)'
    BY OthersRest
  <1> QED BY <1>1, <1>2 DEF Delivered

LEMMA ReadDelivers ==
    ASSUME TypeInv, OneRunAtATime, Delivered, NEW c \in Callers, Build(c)
    PROVE Delivered'
  <1> DEFINE s == run'[c]
  <1>1. /\ SourceOK /\ run[c] \in Runs /\ pc \in [Callers -> RunPCs] /\ cursor \in Nat /\ RunStep(c)
        /\ UNCHANGED <<sourceVars, zdoc, cursor>>
    BY DEF TypeInv, TypeOK, RunsOK, MetaOK, RunStep, Build, zincVars, metaVars
  <1>2. CASE pc' = [pc EXCEPT ![c] = "unlock"]
    <2>1. pc'[c] = "unlock"
      BY <1>1, <1>2
    <2> QED BY <1>1, <2>1, NotDelivering, QuietStep
  <1>3. ASSUME pc' = [pc EXCEPT ![c] = "bulk"], NEW from \in Nat, NEW last \in Nat, BuiltFrom(c, from, last)
        PROVE Delivered'
    <2> DEFINE rows == RowsOf(run[c], from)
    <2>1. pc'[c] = "bulk"
      BY <1>1, <1>3
    <2>2. /\ s.todo = rows /\ s.kind = run[c].kind /\ from <= cursor
          /\ \A d \in Docs : s.docs[d] = IF d \in rows THEN ver[d] ELSE 0
      BY <1>1, <1>3 DEF BuiltFrom
    <2>3. rows \subseteq Docs /\ \A d \in rows : ver[d] > 0
      BY DEF RowsOf, Selected
    <2>4. ASSUME NEW d \in Docs, run[c].kind = "incremental", ver[d] > 0, d \notin rows
          PROVE stamp[d] <= cursor
      <3>1. ~(stamp[d] > from)
        BY <2>4 DEF RowsOf, Selected
      <3>2. stamp[d] \in Nat
        BY <1>1 DEF SourceOK
      <3> QED BY <1>1, <2>2, <3>1, <3>2
    <2>5. \A d \in Docs : ver[d] \in Nat /\ ver[d] <= changes /\ changes \in Nat
      BY <1>1 DEF SourceOK, Delivered, VersionsInOrder
    <2> HIDE DEF rows, s
    <2>6. Carries(c)'
      <3>1. \A d \in s.todo : s.docs[d] > 0
        BY <2>2, <2>3
      <3>2. \A d \in Docs : s.docs[d] <= changes /\ (s.docs[d] > 0 => s.docs[d] = ver[d])
        BY <2>2, <2>5
      <3> QED BY <1>1, <3>1, <3>2 DEF Carries, sourceVars, s
    <2>7. HasRead(c)'
      BY <1>1, <2>2, <2>4 DEF HasRead, sourceVars, s
    <2>8. HasStored(c)'
      <3>1. \A d \in Docs : s.docs[d] > 0 => d \in s.todo
        BY <2>2
      <3> QED BY <2>1, <3>1 DEF HasStored, s
    <2>9. CursorIsOfIncremental(c)'
      BY <2>1 DEF CursorIsOfIncremental
    <2> QED BY <1>1, <2>6, <2>7, <2>8, <2>9, QuietStep DEF RunDelivers
  <1> QED BY <1>2, <1>3, BuildStep DEF TypeInv

LEMMA BatchDelivers ==
    ASSUME FailuresShow, TypeInv, OneRunAtATime, Delivered, NEW c \in Callers, BulkBatch(c)
    PROVE Delivered'
  <1> DEFINE r == run[c]
             n == r.index
  <1>1. /\ SourceOK /\ r \in Runs /\ run \in [Callers -> Runs] /\ zdoc \in [Index -> [Docs -> Nat]]
        /\ cursor \in Nat /\ RunStep(c) /\ pc[c] = "bulk"
        /\ UNCHANGED <<sourceVars, cursor, cleanup, pc>>
    BY DEF TypeInv, TypeOK, RunsOK, MetaOK, ZincOK, RunStep, BulkBatch, metaVars, cleanupVars
  <1>2. n \in Index
    BY <1>1, BoundAssumption DEF TypeInv, NamesInOrder, RunNames, HasIndexPCs, Runs, Index
  <1>3. /\ r.last \in Nat /\ r.docs \in [Docs -> Nat] /\ r.todo \subseteq Docs
        /\ Carries(c) /\ HasRead(c) /\ HasStored(c) /\ Delivers(c)
    BY <1>1 DEF Runs, Delivered, RunDelivers, Delivers
  <1> DEFINE Sent(A, B, F) ==
          /\ Store(n, A, r.docs) /\ A \subseteq B
          /\ run' = [run EXCEPT ![c] = [r EXCEPT !.todo = r.todo \ B, !.failedIDs = F]]
          /\ r.failedIDs \subseteq F /\ (B \subseteq A \/ B \subseteq F)
  <1>a. \E A \in SUBSET r.todo, B \in SUBSET r.todo, F \in SUBSET Docs : Sent(A, B, F)
    <2>1. PICK B \in Batches(r.todo) :
            \/ /\ Store(n, B, r.docs)
               /\ run' = [run EXCEPT ![c].todo = @ \ B]
            \/ /\ \E A \in SUBSET B : Store(n, A, r.docs)
               /\ run' = [run EXCEPT ![c].todo = @ \ B, ![c].failedIDs = @ \cup B]
      BY DEF BulkBatch
    <2>2. B \in SUBSET r.todo /\ B \subseteq Docs /\ r.failedIDs \subseteq Docs
      BY <1>1, <1>3 DEF Batches, Runs
    <2>3. CASE Store(n, B, r.docs) /\ run' = [run EXCEPT ![c].todo = @ \ B]
      <3>1. run' = [run EXCEPT ![c] = [r EXCEPT !.todo = r.todo \ B, !.failedIDs = r.failedIDs]]
        BY <1>1, <2>3 DEF Runs
      <3>2. Sent(B, B, r.failedIDs)
        BY <2>3, <3>1
      <3> HIDE DEF Sent
      <3> QED BY <2>2, <3>2
    <2>4. CASE /\ \E A \in SUBSET B : Store(n, A, r.docs)
               /\ run' = [run EXCEPT ![c].todo = @ \ B, ![c].failedIDs = @ \cup B]
      <3>1. PICK A \in SUBSET B : Store(n, A, r.docs)
        BY <2>4
      <3>2. run' = [run EXCEPT ![c] = [r EXCEPT !.todo = r.todo \ B, !.failedIDs = r.failedIDs \cup B]]
        BY <1>1, <2>4 DEF Runs
      <3>3. A \in SUBSET r.todo /\ r.failedIDs \cup B \in SUBSET Docs
        BY <2>2
      <3>4. Sent(A, B, r.failedIDs \cup B)
        BY <3>1, <3>2
      <3> HIDE DEF Sent
      <3> QED BY <2>2, <3>3, <3>4
    <2> QED BY <2>1, <2>3, <2>4
  <1>4. PICK A \in SUBSET r.todo, B \in SUBSET r.todo, F \in SUBSET Docs : Sent(A, B, F)
    BY <1>a
  <1>5. /\ run'[c].docs = r.docs /\ run'[c].todo = r.todo \ B /\ run'[c].last = r.last
        /\ run'[c].kind = r.kind /\ run'[c].index = n /\ run'[c].failedIDs = F
    BY <1>1, <1>4 DEF Runs
  <1>6. /\ \A i \in Index \ {n} : zdoc'[i] = zdoc[i]
        /\ \A d \in Docs : zdoc'[n][d] = IF d \in A THEN r.docs[d] ELSE zdoc[n][d]
    BY <1>1, <1>2, <1>4 DEF Store
  <1> HIDE DEF r, n
  <1>7. VersionsInOrder'
    BY <1>1 DEF Delivered, VersionsInOrder, sourceVars
  <1>8. CursorNeverSkips'
    <2> SUFFICES ASSUME NEW d \in Docs, ver[d] > 0, stamp[d] <= cursor, ~late[d], ~lost[d]
                 PROVE \E i \in Index : zdoc'[i][d] = ver[d]
      BY <1>1 DEF CursorNeverSkips, sourceVars
    <2>1. PICK i \in Index : zdoc[i][d] = ver[d]
      BY DEF Delivered, CursorNeverSkips
    <2>2. CASE d \in A
      <3>1. r.docs[d] > 0
        BY <1>3, <2>2 DEF Carries, r
      <3>2. ~(stamp[d] > cursor)
        BY <1>1 DEF SourceOK
      <3>3. r.docs[d] = ver[d]
        BY <1>3, <3>1, <3>2 DEF Carries, r
      <3> QED BY <1>2, <1>6, <2>2, <3>3
    <2>3. CASE d \notin A
      BY <1>6, <2>1, <2>3
    <2> QED BY <2>2, <2>3
  <1>9. RunDelivers(c)'
    <2>1. Carries(c)'
      BY <1>1, <1>3, <1>5 DEF Carries, sourceVars, r
    <2>2. HasRead(c)'
      BY <1>1, <1>3, <1>5 DEF HasRead, Delivers, sourceVars, r
    <2>3. HasStored(c)'
      <3> SUFFICES ASSUME r.kind = "incremental", NEW d \in Docs, r.docs[d] > 0, r.docs[d] = ver[d],
                          d \notin (r.todo \ B) \cup F
                   PROVE lost[d] \/ zdoc'[n][d] = r.docs[d]
        BY <1>1, <1>5 DEF HasStored, sourceVars
      <3>1. CASE d \in A
        BY <1>6, <3>1
      <3>2. CASE d \notin A
        <4>1. d \notin r.todo \cup r.failedIDs
          BY <1>4, <3>2
        <4>2. lost[d] \/ zdoc[n][d] = r.docs[d]
          BY <1>1, <1>3, <4>1 DEF HasStored, r, n
        <4> QED BY <1>6, <3>2, <4>2
      <3> QED BY <3>1, <3>2
    <2>4. CursorIsOfIncremental(c)'
      BY <1>1 DEF CursorIsOfIncremental
    <2> QED BY <2>1, <2>2, <2>3, <2>4 DEF RunDelivers
  <1>10. \A e \in Callers : RunDelivers(e)'
    BY <1>1, <1>9, OthersRest
  <1> QED BY <1>7, <1>8, <1>10 DEF Delivered

LEMMA CursorDelivers ==
    ASSUME TypeInv, OneRunAtATime, Delivered, NEW c \in Callers, UpdateCursor(c)
    PROVE Delivered'
  <1>1. /\ SourceOK /\ run[c] \in Runs /\ cursor \in Nat /\ RunStep(c) /\ pc[c] = "cursor"
        /\ UNCHANGED <<sourceVars, zdoc, cleanup>> /\ cursor' \in {cursor, run[c].last}
        /\ pc'[c] = "unlock"
    BY DEF TypeInv, TypeOK, RunsOK, MetaOK, RunStep, UpdateCursor, zincVars, cleanupVars, Goto
  <1>2. /\ run[c].last \in Nat /\ run[c].index \in Index
        /\ HasRead(c) /\ HasStored(c) /\ Delivers(c) /\ run[c].kind = "incremental"
    BY <1>1, BoundAssumption DEF Runs, Delivered, RunDelivers, Delivers, CursorIsOfIncremental,
       TypeInv, NamesInOrder, RunNames, HasIndexPCs, Index
  <1>3. VersionsInOrder'
    BY <1>1 DEF Delivered, VersionsInOrder, sourceVars
  <1>4. CursorNeverSkips'
    <2> SUFFICES ASSUME NEW d \in Docs, ver[d] > 0, stamp[d] <= cursor', ~late[d], ~lost[d]
                 PROVE \E i \in Index : zdoc[i][d] = ver[d]
      BY <1>1 DEF CursorNeverSkips, sourceVars
    <2>1. CASE stamp[d] <= cursor
      BY <2>1 DEF Delivered, CursorNeverSkips
    <2>2. CASE stamp[d] <= run[c].last /\ ~(stamp[d] <= cursor)
      <3>1. run[c].docs[d] = ver[d]
        BY <1>2, <2>2 DEF HasRead
      <3>2. zdoc[run[c].index][d] = ver[d]
        BY <1>1, <1>2, <3>1 DEF HasStored
      <3> QED BY <1>2, <3>2
    <2> QED BY <1>1, <2>1, <2>2
  <1>5. \A e \in Callers : RunDelivers(e)'
    BY <1>1, NotDelivering, OthersRest
  <1> QED BY <1>3, <1>4, <1>5 DEF Delivered

LEMMA RunDeliversNext ==
    ASSUME FailuresShow, TypeInv, OneRunAtATime, Delivered, NEW c \in Callers, RunStep(c)
    PROVE Delivered'
  <1>0. pc \in [Callers -> RunPCs] /\ run \in [Callers -> Runs]
    BY DEF TypeInv, TypeOK, RunsOK
  <1>1. CASE OpenIndex(c) \/ CreateIndex(c) \/ RecordWriteIndex(c) \/ CheckGate(c) \/ GetOldIndexes(c)
             \/ MarkFailed(c) \/ Unlock(c)
    <2>1. UNCHANGED <<sourceVars, zdoc, cursor>>
      BY <1>1 DEF OpenIndex, CreateIndex, RecordWriteIndex, CheckGate, GetOldIndexes, MarkFailed, Unlock,
                  zincVars, metaVars
    <2>2. pc'[c] \notin {"bulk", "cursor"}
      BY <1>0, <1>1 DEF OpenIndex, CreateIndex, RecordWriteIndex, CheckGate, GetOldIndexes, MarkFailed, Unlock, Goto
    <2> QED BY <2>1, <2>2, NotDelivering, QuietStep
  <1>2. CASE SwapAlias(c)
    <2>1. UNCHANGED <<sourceVars, zdoc, cursor>> /\ pc'[c] \notin {"bulk", "cursor"}
      BY <1>0, <1>2 DEF SwapAlias, metaVars, Goto
    <2> QED BY <2>1, NotDelivering, QuietStep
  <1>3. CASE FinishBulk(c)
    <2>1. /\ UNCHANGED <<sourceVars, zdoc, cursor, cleanup, run>> /\ pc[c] = "bulk"
          /\ \/ pc'[c] \notin {"bulk", "cursor"}
             \/ /\ pc'[c] = "cursor" /\ run[c].kind = "incremental"
                /\ run[c].failedIDs = {} /\ run[c].todo = {}
      BY <1>0, <1>3 DEF FinishBulk, zincVars, metaVars, cleanupVars, Goto
    <2>3. RunDelivers(c) /\ Delivers(c)
      BY <2>1 DEF Delivered, Delivers
    <2>4. CASE pc'[c] \notin {"bulk", "cursor"}
      BY <2>1, <2>4, NotDelivering, QuietStep
    <2>5. CASE pc'[c] = "cursor" /\ run[c].kind = "incremental" /\ run[c].failedIDs = {} /\ run[c].todo = {}
      <3>1. Carries(c)' /\ HasRead(c)'
        BY <2>1, <2>3 DEF RunDelivers, Carries, HasRead, sourceVars
      <3>2. HasStored(c)' /\ CursorIsOfIncremental(c)'
        BY <2>1, <2>3, <2>5 DEF RunDelivers, HasStored, CursorIsOfIncremental, sourceVars
      <3> QED BY <2>1, <3>1, <3>2, QuietStep DEF RunDelivers
    <2> QED BY <2>1, <2>4, <2>5
  <1> QED BY <1>1, <1>2, <1>3, ReadDelivers, BatchDelivers, CursorDelivers DEF RunStep

-----------------------------------------------------------------------------
(* The cursor: the invariant. *)

LEMMA DeliveredInit == Init => Delivered
  <1> SUFFICES ASSUME Init PROVE Delivered
    OBVIOUS
  <1>1. VersionsInOrder /\ CursorNeverSkips
    BY DEF Init, VersionsInOrder, CursorNeverSkips
  <1>2. \A c \in Callers : RunDelivers(c)
    BY DEF Init, RunDelivers, Carries, HasRead, HasStored, CursorIsOfIncremental, Delivers
  <1> QED BY <1>1, <1>2 DEF Delivered

(* A step that leaves runs, rows, stores and cursor alone. *)
LEMMA DeliveredFrame ==
    ASSUME Delivered, UNCHANGED <<sourceVars, zdoc, cursor, pc, run>>
    PROVE Delivered'
  <1>1. VersionsInOrder' /\ CursorNeverSkips'
    BY StoresStay
  <1>2. \A c \in Callers : RunDelivers(c)'
    BY DEF Delivered, RunDelivers, Carries, HasRead, HasStored, CursorIsOfIncremental, Delivers, sourceVars
  <1> QED BY <1>1, <1>2 DEF Delivered

(* A deletion remembers the rows whose documents go with the index. *)
LEMMA CleanupDelivers ==
    ASSUME TypeInv, Delivered, NEW i \in Index, CleanupStep(i)
    PROVE Delivered'
  <1>0. /\ zdoc \in [Index -> [Docs -> Nat]] /\ toDelete[i] \subseteq Index
        /\ run \in [Callers -> Runs] /\ lost \in [Docs -> BOOLEAN]
    BY DEF TypeInv, TypeOK, ZincOK, CleanupOK, RunsOK, SourceOK
  <1>1. UNCHANGED <<ver, stamp, clock, changes, late, cursor, pc, run>>
    BY DEF CleanupStep, CleanupCheck, CleanupList, CleanupDelete, CleanupDone, sourceVars, metaVars, runVars
  <1>2. CASE UNCHANGED <<lost, zdoc>>
    BY <1>1, <1>2, DeliveredFrame DEF sourceVars
  <1>3. ASSUME NEW j \in Index, zdoc' = [zdoc EXCEPT ![j] = Nothing],
               lost' = [d \in Docs |-> lost[d] \/ (ver[d] > 0 /\ zdoc[j][d] = ver[d])]
        PROVE Delivered'
    <2>1. \A d \in Docs : lost[d] => lost'[d]
      BY <1>3
    <2>2. \A k \in Index, d \in Docs : ver[d] > 0 /\ zdoc[k][d] = ver[d] => lost'[d] \/ zdoc'[k][d] = ver[d]
      BY <1>0, <1>3
    <2>3. VersionsInOrder'
      BY <1>1 DEF Delivered, VersionsInOrder
    <2>4. CursorNeverSkips'
      BY <1>1, <2>1, <2>2 DEF Delivered, CursorNeverSkips
    <2>5. ASSUME NEW c \in Callers PROVE RunDelivers(c)'
      <3>1. RunDelivers(c)
        BY DEF Delivered
      <3>2. Carries(c)' /\ HasRead(c)' /\ CursorIsOfIncremental(c)'
        BY <1>1, <3>1 DEF RunDelivers, Carries, HasRead, CursorIsOfIncremental, Delivers
      <3>3. Delivers(c) => run[c].index \in Index
        BY <1>0, BoundAssumption DEF Delivers, TypeInv, NamesInOrder, RunNames, HasIndexPCs, Runs, Index
      <3>4. HasStored(c)'
        <4> SUFFICES ASSUME Delivers(c), run[c].kind = "incremental", NEW d \in Docs,
                            run[c].docs[d] > 0, run[c].docs[d] = ver[d],
                            pc[c] = "bulk" => d \notin run[c].todo \cup run[c].failedIDs
                     PROVE lost'[d] \/ zdoc'[run[c].index][d] = run[c].docs[d]
          BY <1>1 DEF HasStored, Delivers
        <4>1. lost[d] \/ zdoc[run[c].index][d] = run[c].docs[d]
          BY <3>1 DEF RunDelivers, HasStored
        <4> QED BY <2>1, <2>2, <3>3, <4>1
      <3> QED BY <3>2, <3>4 DEF RunDelivers
    <2> QED BY <2>3, <2>4, <2>5 DEF Delivered
  <1>4. CASE CleanupDelete(i)
    <2>1. \/ UNCHANGED <<lost, zdoc>>
          \/ \E j \in Index : /\ zdoc' = [zdoc EXCEPT ![j] = Nothing]
                              /\ lost' = [d \in Docs |-> lost[d] \/ (ver[d] > 0 /\ zdoc[j][d] = ver[d])]
      BY <1>0, <1>4 DEF CleanupDelete
    <2> QED BY <1>2, <1>3, <2>1
  <1>5. CASE CleanupCheck(i) \/ CleanupList(i) \/ CleanupDone(i)
    BY <1>2, <1>5 DEF CleanupCheck, CleanupList, CleanupDone, sourceVars, zincVars
  <1> QED BY <1>4, <1>5 DEF CleanupStep

LEMMA DeliveredNext ==
    ASSUME FailuresShow, TypeInv, OneRunAtATime, Delivered, [Next]_vars
    PROVE Delivered'
  <1>1. CASE UNCHANGED vars \/ RecordLost
    BY <1>1, DeliveredFrame DEF RecordLost, vars, sourceVars, zincVars, metaVars, runVars
  <1>2. CASE Source
    BY <1>2, ChangeDelivers DEF Source
  <1>3. ASSUME NEW c \in Callers, NEW k \in Requested, NEW I \in IdSets(k), Trigger(c, k, I) PROVE Delivered'
    <2>1. k \in Kinds /\ I \in SUBSET Docs
      BY DataAssumption DEF IdSets, Kinds
    <2>2. UNCHANGED <<sourceVars, zdoc, cursor>> /\ pc'[c] \notin {"bulk", "cursor"}
      BY <1>3 DEF Trigger, Goto, zincVars, metaVars, TypeInv, TypeOK, RunsOK
    <2> QED BY <1>3, <2>1, <2>2, NotDelivering, QuietStep
  <1>4. ASSUME NEW c \in Callers, RunStep(c) PROVE Delivered'
    BY <1>4, RunDeliversNext
  <1>5. ASSUME NEW i \in Index, CleanupStep(i) PROVE Delivered'
    BY <1>5, CleanupDelivers
  <1>6. CASE Crash
    <2>1. UNCHANGED <<sourceVars, zdoc, cursor>> /\ \A c \in Callers : pc'[c] = "idle"
      BY <1>6 DEF Crash, zincVars, metaVars
    <2>2. VersionsInOrder' /\ CursorNeverSkips'
      BY <2>1, StoresStay
    <2> QED BY <2>1, <2>2, NotDelivering DEF Delivered
  <1> QED BY <1>1, <1>2, <1>3, <1>4, <1>5, <1>6 DEF Next

(* When failures show, every row at or before the cursor is stored as it   *)
(* is in some index, through any number of failed batches, failed calls,   *)
(* crashes, cleanups and changes of rows under way (engine.go:211-217,     *)
(* 230-232): all that the cursor can lose is a row that changed in a       *)
(* second it had reached (builder.go:145) and one a cleanup deleted.       *)
THEOREM CursorKeepsUp == FailuresShow => (Spec => []CursorNeverSkips)
  <1> SUFFICES ASSUME FailuresShow PROVE Spec => []CursorNeverSkips
    OBVIOUS
  <1>1. TypeInv /\ OneRunAtATime /\ Delivered /\ [Next]_vars => Delivered'
    BY DeliveredNext
  <1>2. Delivered => CursorNeverSkips
    BY DEF Delivered
  <1> QED BY <1>1, <1>2, DeliveredInit, TypeCorrect, MutualExclusion, PTL DEF Spec, TypeInv

-----------------------------------------------------------------------------
(* The delayed cleanups: how they stand to the rebuilds that follow.       *)

LEMMA OlderInit == Init => CleanupsAreOlder
  BY DEF Init, CleanupsAreOlder, NoNewer, Overtaken, Overtakes, RebuildPCs

(* A step that moves nothing a cleanup is compared with.                   *)
LEMMA OlderFrame ==
    ASSUME CleanupsAreOlder, UNCHANGED <<alias, created, cleanup, toDelete>>,
           \A e \in Callers :
               pc'[e] \in RebuildPCs \cup {"record"} /\ run'[e].kind = "full" =>
                   /\ pc[e] \in RebuildPCs \cup {"record"} /\ run[e].kind = "full"
                   /\ run'[e].index = run[e].index
    PROVE CleanupsAreOlder'
  <1>1. \A i \in Index : NoNewer(i)' /\ Overtaken(i)'
    BY DEF CleanupsAreOlder, NoNewer, Overtaken
  <1>2. \A e \in Callers : Overtakes(e)'
    BY DEF CleanupsAreOlder, Overtakes
  <1> QED BY <1>1, <1>2 DEF CleanupsAreOlder

(* The callers that do not step are idle and stay so.                      *)
LEMMA OthersIdleOlder ==
    ASSUME IndInv, NEW c \in Callers, RunStep(c), NEW e \in Callers, e # c
    PROVE pc[e] = "idle" /\ pc'[e] = "idle"
BY Alone DEF IndInv

LEMMA OlderRunStep ==
    ASSUME FailuresShow, IndInv, CleanupsAreOlder, NEW c \in Callers, RunStep(c)
    PROVE CleanupsAreOlder'
  <1>0. /\ pc \in [Callers -> RunPCs] /\ run \in [Callers -> Runs]
        /\ created \in Nat /\ cleanup \in [Index -> CleanupPCs] /\ Index \subseteq Nat
    BY BoundAssumption DEF IndInv, TypeInv, TypeOK, RunsOK, ZincOK, CleanupOK, Index
  <1>1. \A e \in Callers \ {c} : pc'[e] = "idle"
    BY OthersIdleOlder
  <1>2. CASE CreateIndex(c)
    <2>1. UNCHANGED <<alias, cleanup, toDelete>> /\ created' \in {created, created + 1}
      BY <1>2 DEF CreateIndex, cleanupVars
    <2>2. ASSUME NEW i \in Index PROVE NoNewer(i)' /\ Overtaken(i)'
      <3>1. NoNewer(i) /\ Overtaken(i) /\ i \in Nat
        BY <1>0 DEF CleanupsAreOlder
      <3>2. i <= created => i <= created'
        BY <1>0, <2>1, <3>1
      <3> QED BY <2>1, <3>1, <3>2 DEF NoNewer, Overtaken
    <2>3. pc'[c] = "unlock" \/ run'[c].index = created + 1
      BY <1>0, <1>2 DEF CreateIndex, Goto, Runs
    <2>4. Overtakes(c)'
      BY <1>0, <2>1, <2>3 DEF CleanupsAreOlder, NoNewer, Overtakes, RebuildPCs
    <2>5. \A e \in Callers : Overtakes(e)'
      BY <1>1, <2>4 DEF Overtakes, RebuildPCs
    <2> QED BY <2>2, <2>5 DEF CleanupsAreOlder
  <1>3. CASE SwapAlias(c)
    <2> DEFINE x == run[c].index
    <2>1. /\ alias' = alias /\ cleanup' = cleanup
          \/ /\ alias' = {x}
             /\ cleanup' = cleanup \/ cleanup' = [cleanup EXCEPT ![x] = "sleep"]
      <3>1. pc[c] = "swap"
        BY <1>3 DEF SwapAlias
      <3>2. Swapped(run[c]) = {x}
        BY <3>1 DEF IndInv, RunInv, SwapIsTotal, Swapped
      <3> QED BY <1>3, <3>2 DEF SwapAlias
    <2>2. UNCHANGED <<created, toDelete>> /\ pc'[c] = "unlock"
      BY <1>0, <1>3 DEF SwapAlias, Goto
    <2>3. /\ x \in Nat /\ x <= created
          /\ \A i \in Index : cleanup[i] # "none" => i < x
      BY <1>0, <1>3 DEF SwapAlias, CleanupsAreOlder, Overtakes, RebuildPCs, IndInv, TypeInv, NamesInOrder,
                        RunNames, RunInv, GateIsForFull, Runs
    <2>4. ASSUME NEW i \in Index PROVE NoNewer(i)' /\ Overtaken(i)'
      <3>1. cleanup'[i] # "none" => cleanup[i] # "none" \/ (i = x /\ alias' = {x})
        BY <1>0, <2>1
      <3>2. NoNewer(i) /\ Overtaken(i)
        BY DEF CleanupsAreOlder
      <3>3. NoNewer(i)'
        BY <1>0, <2>1, <2>2, <2>3, <3>1, <3>2 DEF NoNewer
      <3> QED BY <2>2, <3>2, <3>3 DEF Overtaken
    <2>5. \A e \in Callers : Overtakes(e)'
      BY <1>1, <2>2 DEF Overtakes, RebuildPCs
    <2> QED BY <2>4, <2>5 DEF CleanupsAreOlder
  <1>4. CASE ~CreateIndex(c) /\ ~SwapAlias(c)
    <2>1. UNCHANGED <<alias, created, cleanup, toDelete>>
      BY <1>4 DEF RunStep, OpenIndex, RecordWriteIndex, Build, BulkBatch, FinishBulk, UpdateCursor,
                  CheckGate, GetOldIndexes, MarkFailed, Unlock, cleanupVars, zincVars
    <2>2. pc'[c] \in RebuildPCs \cup {"record"} /\ run'[c].kind = "full" =>
              /\ pc[c] \in RebuildPCs \cup {"record"} /\ run[c].kind = "full"
              /\ run'[c].index = run[c].index
      <3>1. CASE OpenIndex(c)
        BY <1>0, <3>1 DEF OpenIndex, Goto, RebuildPCs, Runs
      <3>2. CASE RecordWriteIndex(c) \/ CheckGate(c) \/ MarkFailed(c) \/ UpdateCursor(c)
        BY <1>0, <3>2 DEF RecordWriteIndex, CheckGate, MarkFailed, UpdateCursor, Goto, RebuildPCs, Runs
      <3>3. CASE Build(c)
        <4>1. pc[c] = "build"
          BY <3>3 DEF Build
        <4>2. run'[c].kind = run[c].kind /\ run'[c].index = run[c].index
          BY <3>3, BuildStep DEF BuiltFrom, IndInv, TypeInv
        <4> QED BY <4>1, <4>2 DEF RebuildPCs
      <3>4. CASE BulkBatch(c) \/ FinishBulk(c)
        BY <1>0, <3>4 DEF BulkBatch, FinishBulk, Goto, RebuildPCs, Runs
      <3>5. CASE GetOldIndexes(c) \/ Unlock(c)
        BY <1>0, <3>5 DEF GetOldIndexes, Unlock, Goto, RebuildPCs, Runs
      <3> QED BY <1>4, <3>1, <3>2, <3>3, <3>4, <3>5 DEF RunStep
    <2> QED BY <1>1, <2>1, <2>2, OlderFrame DEF RebuildPCs
  <1> QED BY <1>2, <1>3, <1>4

LEMMA OlderCleanup ==
    ASSUME IndInv, CleanupsAreOlder, NEW i \in Index, CleanupStep(i)
    PROVE CleanupsAreOlder'
  <1>1. /\ cleanup \in [Index -> CleanupPCs] /\ toDelete \in [Index -> SUBSET Index] /\ Index \subseteq Nat
        /\ alias \subseteq Index
    BY BoundAssumption DEF IndInv, TypeInv, TypeOK, CleanupOK, ZincOK, Index
  <1>2. UNCHANGED <<created, pc, run>> /\ alias' \subseteq alias
    BY DEF CleanupStep, CleanupCheck, CleanupList, CleanupDelete, CleanupDone, zincVars, runVars
  <1>3. \A k \in Index : /\ cleanup'[k] # "none" => cleanup[k] # "none"
                         /\ toDelete'[k] \subseteq toDelete[k] \cup (IF cleanup[k] # "none" THEN alias \ {k} ELSE {})
    BY <1>1 DEF CleanupStep, CleanupCheck, CleanupList, CleanupDelete, CleanupDone
  <1>4. ASSUME NEW k \in Index PROVE NoNewer(k)' /\ Overtaken(k)'
    <2>1. NoNewer(k) /\ Overtaken(k)
      BY DEF CleanupsAreOlder
    <2>2. NoNewer(k)'
      BY <1>2, <1>3, <2>1 DEF NoNewer
    <2>3. Overtaken(k)'
      <3> SUFFICES ASSUME NEW j \in toDelete'[k] PROVE k < j
        BY DEF Overtaken
      <3>1. CASE j \in toDelete[k]
        BY <2>1, <3>1 DEF Overtaken
      <3>2. CASE cleanup[k] # "none" /\ j \in alias \ {k}
        <4>1. k <= j /\ j # k /\ j \in Nat /\ k \in Nat
          BY <1>1, <2>1, <3>2 DEF NoNewer
        <4> QED BY <4>1
      <3> QED BY <1>3, <3>1, <3>2
    <2> QED BY <2>2, <2>3
  <1>5. \A c \in Callers : Overtakes(c)'
    BY <1>2, <1>3 DEF CleanupsAreOlder, Overtakes
  <1> QED BY <1>4, <1>5 DEF CleanupsAreOlder

LEMMA OlderNext == ASSUME FailuresShow, IndInv, CleanupsAreOlder, [Next]_vars PROVE CleanupsAreOlder'
  <1>1. CASE Source \/ RecordLost \/ UNCHANGED vars
    BY <1>1, OlderFrame DEF Source, RowChange, RowGone, RecordLost, vars, zincVars, runVars, cleanupVars
  <1>2. ASSUME NEW c \in Callers, NEW k \in Requested, NEW I \in IdSets(k), Trigger(c, k, I) PROVE CleanupsAreOlder'
    <2>1. UNCHANGED <<alias, created, cleanup, toDelete>>
      BY <1>2 DEF Trigger, zincVars, cleanupVars
    <2>2. pc'[c] = "open" /\ \A e \in Callers \ {c} : pc'[e] = pc[e] /\ run'[e] = run[e]
      BY <1>2 DEF Trigger, Goto, IndInv, TypeInv, TypeOK, RunsOK
    <2> QED BY <2>1, <2>2, OlderFrame DEF RebuildPCs
  <1>3. ASSUME NEW c \in Callers, RunStep(c) PROVE CleanupsAreOlder'
    BY <1>3, OlderRunStep
  <1>4. ASSUME NEW i \in Index, CleanupStep(i) PROVE CleanupsAreOlder'
    BY <1>4, OlderCleanup
  <1>5. CASE Crash
    <2>1. /\ \A c \in Callers : pc'[c] = "idle"
          /\ \A i \in Index : cleanup'[i] = "none" /\ toDelete'[i] = {}
      BY <1>5 DEF Crash
    <2> QED BY <2>1 DEF CleanupsAreOlder, NoNewer, Overtaken, Overtakes, RebuildPCs
  <1> QED BY <1>1, <1>2, <1>3, <1>4, <1>5 DEF Next

(* When failures show, a cleanup belongs to an index no newer than what    *)
(* readers see and older than any rebuild under way, and lists only what   *)
(* has overtaken it (manager.go:119-150).                                  *)
THEOREM CleanupsStayBehind == FailuresShow => (Spec => []CleanupsAreOlder)
  <1> SUFFICES ASSUME FailuresShow PROVE Spec => []CleanupsAreOlder
    OBVIOUS
  <1>1. IndInv /\ CleanupsAreOlder /\ [Next]_vars => CleanupsAreOlder'
    BY OlderNext
  <1> QED BY <1>1, OlderInit, Invariance, PTL DEF Spec

(* How far the live index stays, where LiveIndexStays does not hold: when  *)
(* failures show, the readers lose it to nothing but the deletion of a     *)
(* cleanup whose own index an even newer rebuild had replaced              *)
(* (manager.go:136-150).                                                   *)
THEOREM OnlyOvertakenEmpty == FailuresShow => (Spec => [][EmptiedByOvertaken]_vars)
  <1> SUFFICES ASSUME FailuresShow PROVE Spec => [][EmptiedByOvertaken]_vars
    OBVIOUS
  <1>1. ASSUME IndInv, CleanupsAreOlder, [Next]_vars, alias # {}, alias' = {}
        PROVE  \E i \in Index : CleanupDelete(i) /\ \A j \in alias : i < j
    <2>1. PICK i \in Index : CleanupDelete(i)
      <3>1. ASSUME NEW c \in Callers, RunStep(c) PROVE FALSE
        <4>1. alias' = alias \/ alias' = Swapped(run[c])
          BY <3>1 DEF RunStep, OpenIndex, CreateIndex, RecordWriteIndex, Build, BulkBatch, FinishBulk, UpdateCursor,
                      CheckGate, GetOldIndexes, SwapAlias, MarkFailed, Unlock, zincVars
        <4> QED BY <1>1, <4>1 DEF Swapped
      <3> QED BY <1>1, <3>1 DEF Next, Source, RowChange, RowGone, Trigger, CleanupStep, CleanupCheck, CleanupList,
                                CleanupDone, RecordLost, Crash, vars, zincVars
    <2>2. PICK j \in toDelete[i] : alias' = alias \/ alias' = alias \ {j}
      BY <2>1 DEF CleanupDelete
    <2>3. alias = {j}
      BY <1>1, <2>2
    <2>4. i < j
      BY <1>1, <2>2 DEF CleanupsAreOlder, Overtaken
    <2> QED BY <2>1, <2>3, <2>4
  <1>2. IndInv /\ CleanupsAreOlder /\ [Next]_vars => [EmptiedByOvertaken]_vars
    BY <1>1 DEF EmptiedByOvertaken
  <1> QED BY <1>2, Invariance, CleanupsStayBehind, PTL DEF Spec

(* The cleanup never does what it is for, which is why SupersededGo fails: *)
(* when failures show, an index that disappears is newer than the one      *)
(* whose cleanup deletes it, for the superseded ones are no longer behind  *)
(* the alias it looks at (manager.go:146).                                 *)
THEOREM OldIndexesPileUp == FailuresShow => (Spec => [][OnlyNewerDeleted]_vars)
  <1> SUFFICES ASSUME FailuresShow PROVE Spec => [][OnlyNewerDeleted]_vars
    OBVIOUS
  <1>1. ASSUME IndInv, CleanupsAreOlder, [Next]_vars, NEW j \in exist \ exist'
        PROVE  \E i \in Index : CleanupDelete(i) /\ i < j
    <2>1. PICK i \in Index : CleanupDelete(i)
      <3>1. ASSUME NEW c \in Callers, RunStep(c) PROVE exist \subseteq exist'
        BY <3>1 DEF RunStep, OpenIndex, CreateIndex, RecordWriteIndex, Build, BulkBatch, FinishBulk, UpdateCursor,
                    CheckGate, GetOldIndexes, SwapAlias, MarkFailed, Unlock, Store, zincVars
      <3> QED BY <1>1, <3>1 DEF Next, Source, RowChange, RowGone, Trigger, CleanupStep, CleanupCheck, CleanupList,
                                CleanupDone, RecordLost, Crash, vars, zincVars
    <2>2. j \in toDelete[i]
      BY <1>1, <2>1 DEF CleanupDelete
    <2> QED BY <1>1, <2>1, <2>2 DEF CleanupsAreOlder, Overtaken
  <1>2. IndInv /\ CleanupsAreOlder /\ [Next]_vars => [OnlyNewerDeleted]_vars
    BY <1>1 DEF OnlyNewerDeleted
  <1> QED BY <1>2, Invariance, CleanupsStayBehind, PTL DEF Spec

-----------------------------------------------------------------------------
(* How long a run can take. *)

(* There is a batch while documents are left, and no batch is empty, so    *)
(* the bulk loop neither stops early nor spins.                            *)
LEMMA BatchesMove ==
    ASSUME NEW S \in SUBSET Docs, S # {}
    PROVE  /\ Batches(S) # {}
           /\ \A B \in Batches(S) : B # {} /\ Cardinality(S \ B) < Cardinality(S)
<1> DEFINE n == Cardinality(S)
<1>1. IsFiniteSet(S) /\ n \in Nat /\ BatchSize \in Nat \ {0}
  BY DataAssumption, FS_Subset, FS_CardinalityType
<1>2. n # 0
  BY <1>1, FS_EmptySet
<1>3. Batches(S) # {}
  <2>1. CASE n < BatchSize
    <3>1. S \in Batches(S)
      BY <2>1 DEF Batches
    <3> QED BY <3>1
  <2>2. CASE n >= BatchSize
    <3>1. PICK f \in Bijection(1..n, S) : TRUE
      BY <1>1, FS_CardinalityType DEF ExistsBijection
    <3>2. /\ f \in [1..n -> S]
          /\ \A i, j \in 1..n : f[i] = f[j] => i = j
      BY <3>1 DEF Bijection, Injection, IsInjective
    <3> DEFINE B == {f[i] : i \in 1..BatchSize}
               g == [i \in 1..BatchSize |-> f[i]]
    <3>3. \A i \in 1..BatchSize : i \in 1..n
      BY <1>1, <2>2
    <3>4. B \in SUBSET S
      BY <3>2, <3>3
    <3>5. g \in Bijection(1..BatchSize, B)
      BY <3>2, <3>3 DEF Bijection, Injection, Surjection, IsInjective
    <3>6. Cardinality(B) = BatchSize
      <4>1. ExistsBijection(1..BatchSize, B)
        BY <3>5 DEF ExistsBijection
      <4>2. IsFiniteSet(1..BatchSize) /\ Cardinality(1..BatchSize) = BatchSize
        BY <1>1, FS_Interval
      <4> HIDE DEF B
      <4> QED BY <4>1, <4>2, FS_Bijection
    <3>7. B \in Batches(S)
      BY <3>4, <3>6 DEF Batches
    <3> QED BY <3>7
  <2> QED BY <1>1, <2>1, <2>2
<1>4. ASSUME NEW B \in Batches(S) PROVE B # {} /\ Cardinality(S \ B) < Cardinality(S)
  <2>1. B \in SUBSET S /\ (Cardinality(B) = BatchSize \/ B = S)
    BY DEF Batches
  <2>2. B # {}
    <3>1. Cardinality({}) = 0
      BY FS_EmptySet
    <3> QED BY <1>1, <2>1, <3>1
  <2>3. S \ B \in SUBSET S /\ S \ B # S
    BY <2>1, <2>2
  <2>4. Cardinality(S \ B) \in Nat /\ Cardinality(S \ B) <= n /\ Cardinality(S \ B) # n
    BY <1>1, <2>3, FS_Subset, FS_CardinalityType
  <2> QED BY <1>1, <2>2, <2>4
<1> QED BY <1>3, <1>4

LEMMA StepsLeftType ==
    ASSUME TypeInv, NEW c \in Callers
    PROVE  /\ Cardinality(Docs) \in Nat
           /\ Cardinality(run[c].todo) \in Nat /\ Cardinality(run[c].todo) <= Cardinality(Docs)
           /\ StepsLeft(c) \in Nat /\ StepsLeft(c) <= 9 + Cardinality(Docs)
           /\ StepsLeft(c) = 0 <=> pc[c] = "idle"
<1>1. run[c].todo \in SUBSET Docs /\ pc[c] \in RunPCs
  BY DEF TypeInv, TypeOK, RunsOK, Runs
<1>2. /\ Cardinality(Docs) \in Nat
      /\ Cardinality(run[c].todo) \in Nat /\ Cardinality(run[c].todo) <= Cardinality(Docs)
  BY <1>1, DataAssumption, FS_Subset, FS_CardinalityType
<1> DEFINE D == Cardinality(Docs)
           T == Cardinality(run[c].todo)
<1>3. D \in Nat /\ T \in Nat /\ T <= D
  BY <1>2
<1>4. /\ StepsLeft(c) \in Nat /\ StepsLeft(c) <= 9 + D
      /\ StepsLeft(c) = 0 <=> pc[c] = "idle"
  <2>1. StepsLeft(c) = CASE pc[c] = "idle"    -> 0
           [] pc[c] = "unlock"             -> 1
           [] pc[c] \in {"cursor", "mark", "swap"} -> 2
           [] pc[c] = "getalias"           -> 3
           [] pc[c] = "gate"               -> 4
           [] pc[c] = "bulk"               -> 5 + T
           [] pc[c] = "build"              -> 6 + D
           [] pc[c] = "record"             -> 7 + D
           [] pc[c] = "create"             -> 8 + D
           [] pc[c] = "open"               -> 9 + D
    BY DEF StepsLeft
  <2> HIDE DEF D, T
  <2> QED BY <1>1, <1>3, <2>1 DEF RunPCs
<1> QED BY <1>2, <1>4

(* A step of a run leads to a place nearer to its end. *)
LEMMA StepsLower ==
    ASSUME TypeInv, NEW c \in Callers, RunStep(c)
    PROVE  StepsLeft(c)' \in Nat /\ StepsLeft(c)' < StepsLeft(c)
<1> DEFINE D == Cardinality(Docs)
           T == Cardinality(run[c].todo)
           U == Cardinality(run'[c].todo)
<1>0. /\ pc \in [Callers -> RunPCs] /\ run \in [Callers -> Runs] /\ run[c] \in Runs
      /\ run[c].todo \in SUBSET Docs /\ SourceOK
  BY DEF TypeInv, TypeOK, RunsOK, Runs
<1>1. D \in Nat /\ T \in Nat
  BY StepsLeftType
<1>2. /\ pc[c] = "unlock"   => StepsLeft(c) = 1
      /\ pc[c] \in {"cursor", "mark", "swap"} => StepsLeft(c) = 2
      /\ pc[c] = "getalias" => StepsLeft(c) = 3
      /\ pc[c] = "gate"     => StepsLeft(c) = 4
      /\ pc[c] = "bulk"     => StepsLeft(c) = 5 + T
      /\ pc[c] = "build"    => StepsLeft(c) = 6 + D
      /\ pc[c] = "record"   => StepsLeft(c) = 7 + D
      /\ pc[c] = "create"   => StepsLeft(c) = 8 + D
      /\ pc[c] = "open"     => StepsLeft(c) = 9 + D
  BY DEF StepsLeft
<1>3. /\ pc'[c] = "idle"     => StepsLeft(c)' = 0
      /\ pc'[c] = "unlock"   => StepsLeft(c)' = 1
      /\ pc'[c] \in {"cursor", "mark", "swap"} => StepsLeft(c)' = 2
      /\ pc'[c] = "getalias" => StepsLeft(c)' = 3
      /\ pc'[c] = "gate"     => StepsLeft(c)' = 4
      /\ pc'[c] = "bulk"     => StepsLeft(c)' = 5 + U
      /\ pc'[c] = "build"    => StepsLeft(c)' = 6 + D
      /\ pc'[c] = "record"   => StepsLeft(c)' = 7 + D
      /\ pc'[c] = "create"   => StepsLeft(c)' = 8 + D
  BY DEF StepsLeft
<1>4. CASE BulkBatch(c)
  <2>1. pc[c] = "bulk" /\ pc'[c] = "bulk" /\ run[c].todo # {}
    BY <1>4 DEF BulkBatch
  <2>2. PICK B \in Batches(run[c].todo) :
          \/ run' = [run EXCEPT ![c].todo = run[c].todo \ B]
          \/ run' = [run EXCEPT ![c].todo = run[c].todo \ B,
                                ![c].failedIDs = IF FailuresShow THEN run[c].failedIDs \cup B ELSE run[c].failedIDs]
    BY <1>4 DEF BulkBatch
  <2>3. run'[c].todo = run[c].todo \ B
    BY <1>0, <2>2 DEF Runs
  <2>4. Cardinality(run[c].todo \ B) < T /\ Cardinality(run[c].todo \ B) \in Nat
    <3>1. run[c].todo \ B \in SUBSET Docs
      BY <1>0
    <3> QED BY <1>0, <2>1, <3>1, BatchesMove, DocsCount
  <2>5. U < T /\ U \in Nat
    BY <2>3, <2>4
  <2> HIDE DEF T, U
  <2> QED BY <1>1, <1>2, <1>3, <2>1, <2>5
<1>5. CASE Build(c)
  <2>1. pc[c] = "build"
    BY <1>5 DEF Build
  <2>2. CASE pc' = [pc EXCEPT ![c] = "unlock"]
    <3>1. pc'[c] = "unlock"
      BY <1>0, <2>2
    <3> HIDE DEF D, T, U
    <3> QED BY <1>1, <1>2, <1>3, <2>1, <3>1
  <2>3. CASE pc' = [pc EXCEPT ![c] = "bulk"] /\ run'[c] \in Runs
    <3>1. run'[c].todo \in SUBSET Docs /\ pc'[c] = "bulk"
      BY <1>0, <2>3 DEF Runs
    <3>2. U \in Nat /\ U <= D
      BY <3>1, DataAssumption, FS_Subset, FS_CardinalityType
    <3> HIDE DEF D, T, U
    <3> QED BY <1>1, <1>2, <1>3, <2>1, <3>1, <3>2
  <2> QED BY <1>5, <2>2, <2>3, BuildStep DEF TypeInv
<1>6. CASE FinishBulk(c)
  <2>1. pc[c] = "bulk" /\ pc'[c] \in {"mark", "cursor", "unlock", "gate"}
    BY <1>0, <1>6 DEF FinishBulk, Goto
  <2> HIDE DEF D, T, U
  <2> QED BY <1>1, <1>2, <1>3, <2>1
<1>7. CASE OpenIndex(c) \/ CreateIndex(c) \/ RecordWriteIndex(c)
  <2>1. \/ pc[c] = "open" /\ pc'[c] \in {"build", "create", "unlock"}
        \/ pc[c] = "create" /\ pc'[c] \in {"record", "unlock"}
        \/ pc[c] = "record" /\ pc'[c] \in {"build", "unlock"}
    BY <1>0, <1>7 DEF OpenIndex, CreateIndex, RecordWriteIndex, Goto
  <2> HIDE DEF D, T, U
  <2> QED BY <1>1, <1>2, <1>3, <2>1
<1>8. CASE UpdateCursor(c) \/ CheckGate(c) \/ GetOldIndexes(c) \/ SwapAlias(c) \/ MarkFailed(c) \/ Unlock(c)
  <2>1. \/ pc[c] \in {"cursor", "mark", "swap"} /\ pc'[c] = "unlock"
        \/ pc[c] = "gate" /\ pc'[c] \in {"getalias", "mark"}
        \/ pc[c] = "getalias" /\ pc'[c] \in {"swap", "unlock"}
        \/ pc[c] = "unlock" /\ pc'[c] = "idle"
    BY <1>0, <1>8 DEF UpdateCursor, CheckGate, GetOldIndexes, SwapAlias, MarkFailed, Unlock, Goto
  <2> QED BY <1>2, <1>3, <2>1
<1> QED BY <1>4, <1>5, <1>6, <1>7, <1>8 DEF RunStep

(* Every step of a run brings its end nearer and nothing but a new trigger *)
(* puts it off: a run takes the lock for at most one step for each document *)
(* and nine besides.  This is the half of LockComesBack that does not need *)
(* fairness: the bulk loop of engine.go:154-209 cannot spin.               *)
THEOREM RunsAreShort == Spec => [][EndsAreNearer]_vars
<1>1. ASSUME TypeInv, OneRunAtATime, [Next]_vars PROVE EndsAreNearer
  <2> SUFFICES ASSUME NEW c \in Callers, pc[c] # "idle" PROVE StepsLeft(c)' <= StepsLeft(c)
    <3>1. \A c \in Callers : RunStep(c) => StepsLeft(c)' < StepsLeft(c)
      BY <1>1, StepsLower
    <3> QED BY <1>1, <3>1, StepsLeftType DEF EndsAreNearer
  <2>0. StepsLeft(c) \in Nat
    BY <1>1, StepsLeftType
  <2>1. CASE UNCHANGED <<pc, run>>
    <3>1. StepsLeft(c)' = StepsLeft(c)
      BY <2>1 DEF StepsLeft
    <3> QED BY <2>0, <3>1
  <2>2. CASE RunStep(c)
    <3>1. StepsLeft(c)' \in Nat /\ StepsLeft(c)' < StepsLeft(c)
      BY <1>1, <2>2, StepsLower
    <3> QED BY <2>0, <3>1
  <2>3. ASSUME NEW e \in Callers, RunStep(e) PROVE e = c
    BY <1>1, <2>3, Alone
  <2>4. ASSUME NEW e \in Callers, NEW k \in Requested, NEW I \in IdSets(k), Trigger(e, k, I)
        PROVE  FALSE
    <3>1. k \in Kinds /\ I \in SUBSET Docs
      BY DataAssumption DEF Kinds, IdSets
    <3> QED BY <1>1, <2>4, <3>1 DEF OneRunAtATime, Trigger
  <2>5. ASSUME Crash PROVE StepsLeft(c)' <= StepsLeft(c)
    <3>1. pc'[c] = "idle"
      BY <2>5 DEF Crash
    <3>2. StepsLeft(c)' = 0
      BY <3>1 DEF StepsLeft
    <3> QED BY <2>0, <3>2
  <2>6. ASSUME Source \/ RecordLost \/ \E i \in Index : CleanupStep(i) PROVE UNCHANGED <<pc, run>>
    BY <2>6 DEF Source, RowChange, RowGone, RecordLost, CleanupStep, CleanupCheck, CleanupList, CleanupDelete, CleanupDone, runVars
  <2>7. CASE UNCHANGED vars
    BY <2>1, <2>7 DEF vars, runVars
  <2> QED BY <1>1, <2>1, <2>2, <2>3, <2>4, <2>5, <2>6, <2>7 DEF Next
<1>2. IndInv => TypeInv /\ OneRunAtATime
  BY DEF IndInv
<1> QED BY <1>1, <1>2, Invariance, PTL DEF Spec
=============================================================================

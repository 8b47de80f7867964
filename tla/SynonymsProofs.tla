--------------------------- MODULE SynonymsProofs ---------------------------
(***************************************************************************)
(* Proofs about Synonyms, for every finite set of handlers, every set of   *)
(* words and lists and every bound.                                        *)
(*                                                                         *)
(* A request that met another one has it on record (Meets).  One that met  *)
(* none, and saw nothing fail, goes on from a table nobody changes: its    *)
(* reading, its temporary file and the file it has moved stand for the     *)
(* table (MapOK, FileOK), and what it leaves behind is right.              *)
(***************************************************************************)
EXTENDS Synonyms, FiniteSetTheorems, WellFoundedInduction, TLAPS

-----------------------------------------------------------------------------
(* The invariant. *)

Tables == UNION {[S -> Rows] : S \in SUBSET Ids}
Maps == UNION {[S -> Lists \cup {"empty"}] : S \in SUBSET Words}
Contents == [is : {"whole", "cut", "mixed"}, lines : SUBSET Rows]
Jobs == [edits : BOOLEAN, read : Tables, inode : Inodes \cup {None}, spoilt : SUBSET Copies]
PCs == {"idle", "load", "assign", "find", "open", "write", "rename", "remove", "reload"}

Types ==
    /\ table \in Tables /\ lastId \in 0..MaxRows /\ \A i \in DOMAIN table : i <= lastId
    /\ memory \in Maps
    /\ file \in Inodes /\ tmp \in Inodes \cup {None} /\ tmp # file
    /\ content \in [Inodes -> Contents] /\ zinc \in Contents
    /\ pc \in [Handlers -> PCs] /\ job \in [Handlers -> Jobs]
    /\ trust \subseteq Copies /\ shared \in BOOLEAN
    /\ requests \in 0..MaxRequests /\ fails \in 0..MaxFails /\ crashes \in 0..MaxCrashes

PlaceOK(h) ==
    /\ pc[h] = "write" <=> job[h].inode # None
    /\ pc[h] \in {"load", "assign"} => job[h].edits
    /\ "file" \in job[h].spoilt <=> "zinc" \in job[h].spoilt
    /\ pc[h] = "remove" => "file" \in job[h].spoilt

(* Requests under way together know that they cross.                       *)
Meets(h, g) ==
    h # g /\ pc[h] # "idle" /\ pc[g] # "idle" =>
        /\ "file" \in job[h].spoilt
        /\ job[h].edits /\ job[g].edits => "memory" \in job[h].spoilt

(* What an edit that none crossed has done to the map so far ...           *)
MapOK(h) ==
    pc[h] # "idle" /\ job[h].edits /\ "memory" \notin job[h].spoilt =>
        /\ pc[h] = "assign" => job[h].read = table
        /\ pc[h] \notin {"load", "assign"} => memory = View(table)

(* ... and what a request that none crossed has done to the file.          *)
FileOK(h) ==
    "file" \notin job[h].spoilt =>
        /\ pc[h] \in {"open", "write"} => job[h].read = table
        /\ pc[h] = "write" => job[h].inode = tmp /\ content[tmp].is = "cut"
        /\ pc[h] = "rename" => tmp # None /\ content[tmp] = Lines(table)
        /\ pc[h] = "reload" => content[file] = Lines(table)

(* A copy that is trusted is right when no request that writes it is under *)
(* way.                                                                    *)
MapTrusted == "memory" \in trust /\ (\A h \in Handlers : pc[h] # "idle" => ~job[h].edits) => memory = View(table)
FileTrusted ==
    (\A h \in Handlers : pc[h] = "idle") =>
        /\ "file" \in trust => content[file] = Lines(table)
        /\ "zinc" \in trust => zinc = Lines(table)

(* Unless two met there, one export at most has an inode behind `.tmp`:    *)
(* cut while it writes, whole when it is moved.                            *)
AtTmp(h) == pc[h] \in {"write", "rename"}
WholeOK ==
    ~shared =>
        /\ content[file].is = "whole" /\ zinc.is = "whole"
        /\ \A h \in Handlers :
              /\ pc[h] # "remove"
              /\ pc[h] = "write" => job[h].inode = tmp /\ content[tmp].is = "cut"
              /\ pc[h] = "rename" => tmp # None /\ content[tmp].is = "whole"
              /\ \A g \in Handlers : g # h => ~(AtTmp(g) /\ AtTmp(h))

IInv ==
    /\ Types
    /\ \A h \in Handlers : PlaceOK(h) /\ MapOK(h) /\ FileOK(h)
    /\ \A h, g \in Handlers : Meets(h, g)
    /\ MapTrusted /\ FileTrusted
    /\ WholeOK

-----------------------------------------------------------------------------
(* Data. *)

LEMMA Greatest ==
    ASSUME NEW S, S \subseteq Ids, S # {}
    PROVE Max(S) \in S
  <1> DEFINE R == OpToRel(<, Nat)
             D == {d \in Nat : \E x \in S : d = MaxRows - x}
  <1>1. D \subseteq Nat /\ D # {}
    <2>1. PICK x : x \in S
      OBVIOUS
    <2>2. x \in Nat /\ x <= MaxRows
      BY <2>1, SynonymBounds DEF Ids
    <2>3. MaxRows - x \in D
      BY <2>1, <2>2, SynonymBounds
    <2> QED BY <2>3
  <1>2. IsWellFoundedOn(R, Nat)
    BY NatLessThanWellFounded
  <1>3. \A y \in Nat, x \in Nat : <<y, x>> \in R <=> y < x
    BY DEF OpToRel
  <1> HIDE DEF R
  <1>4. PICK d \in D : \A e \in D : ~(<<e, d>> \in R)
    BY <1>1, <1>2, WFMin
  <1>5. PICK x \in S : d = MaxRows - x
    BY <1>4
  <1>6. ASSUME NEW y \in S PROVE x >= y
    <2>1. MaxRows - y \in D
      BY SynonymBounds DEF Ids
    <2>2. ~(MaxRows - y < d)
      BY <1>1, <1>3, <1>4, <2>1
    <2> QED BY <1>5, <2>2, SynonymBounds DEF Ids
  <1> QED BY <1>5, <1>6 DEF Max

(* There is always an inode that nobody has.                               *)
LEMMA Fresh ==
    \E n \in Inodes : n \notin Held \cup {file}
  <1> DEFINE f == [h \in Handlers |-> job[h].inode]
  <1>1. f \in Surjection(Handlers, Held)
    BY DEF Surjection, Held
  <1>2. /\ IsFiniteSet(Held) /\ Cardinality(Held) <= Cardinality(Handlers)
        /\ Cardinality(Handlers) \in Nat /\ Cardinality(Held) \in Nat
    BY <1>1, HandlersAssumption, FS_Surjection, FS_CardinalityType
  <1>3. /\ IsFiniteSet(Held \cup {file}) /\ Cardinality(Held \cup {file}) \in Nat
        /\ Cardinality(Held \cup {file}) <= Cardinality(Handlers) + 1
    <2>1. IsFiniteSet(Held \cup {file})
      BY <1>2, FS_AddElement
    <2>2. Cardinality(Held \cup {file}) = IF file \in Held THEN Cardinality(Held) ELSE Cardinality(Held) + 1
      BY <1>2, FS_AddElement
    <2> QED BY <1>2, <2>1, <2>2
  <1>4. IsFiniteSet(Inodes) /\ Cardinality(Inodes) = Cardinality(Handlers) + 2
    <2> DEFINE m == Cardinality(Handlers) + 2
    <2>1. m \in Int /\ ~(1 > m) /\ m - 1 + 1 = m
      BY <1>2
    <2> HIDE DEF m
    <2>2. IsFiniteSet(1..m) /\ Cardinality(1..m) = m
      BY <2>1, FS_Interval
    <2> QED BY <2>2 DEF Inodes, m
  <1>5. CASE Inodes \subseteq Held \cup {file}
    <2>1. Cardinality(Inodes) <= Cardinality(Held \cup {file})
      BY <1>3, <1>5, FS_Subset
    <2> QED BY <1>2, <1>3, <1>4, <2>1
  <1> QED BY <1>5

LEMMA TableFields ==
    ASSUME NEW t \in Tables
    PROVE /\ DOMAIN t \subseteq Ids /\ t \in [DOMAIN t -> Rows]
          /\ \A i \in DOMAIN t : t[i] \in Rows
  BY DEF Tables

LEMMA TableIs == ASSUME NEW S \in SUBSET Ids, NEW t \in [S -> Rows] PROVE t \in Tables
  BY DEF Tables

LEMMA NoRowsType == NoRows \in Tables
  <1>1. NoRows \in [{} -> Rows]
    BY DEF NoRows
  <1> QED BY <1>1, TableIs

LEMMA ViewType == ASSUME NEW t \in Tables PROVE View(t) \in Maps
  <1> DEFINE W == {t[i].word : i \in {j \in DOMAIN t : t[j].list # "bad"}}
             Listed(w) == {i \in DOMAIN t : t[i].word = w /\ t[i].list # "bad"}
  <1>1. W \subseteq Words
    BY TableFields DEF Rows
  <1>2. ASSUME NEW w \in W PROVE t[Max(Listed(w))].list \in Lists \cup {"empty"}
    <2>1. Listed(w) # {} /\ Listed(w) \subseteq Ids
      BY <1>2, TableFields
    <2>2. Max(Listed(w)) \in Listed(w)
      BY <2>1, Greatest
    <2>3. t[Max(Listed(w))] \in Rows /\ t[Max(Listed(w))].list # "bad"
      BY <2>2, TableFields
    <2> QED BY <2>3 DEF Rows
  <1>3. View(t) = [w \in W |-> t[Max(Listed(w))].list]
    BY DEF View
  <1> HIDE DEF W, Listed
  <1>4. View(t) \in [W -> Lists \cup {"empty"}]
    BY <1>2, <1>3
  <1> QED BY <1>1, <1>4 DEF Maps

LEMMA LinesType == ASSUME NEW t \in Tables PROVE Lines(t) \in Contents /\ Lines(t).is = "whole"
  BY TableFields DEF Lines, Contents

LEMMA PartType == ASSUME NEW how \in {"cut", "mixed"} PROVE Part(how) \in Contents /\ Part(how).is = how
  BY DEF Part, Contents

LEMMA JobFields ==
    ASSUME NEW j \in Jobs
    PROVE /\ j.edits \in BOOLEAN /\ j.read \in Tables
          /\ j.inode \in Inodes \cup {None} /\ j.spoilt \subseteq Copies
  BY DEF Jobs

LEMMA NoJobType == NoJob \in Jobs /\ NoJob.inode = None /\ NoJob.spoilt = {} /\ ~NoJob.edits
  BY NoRowsType DEF NoJob, Jobs

LEMMA InodeNumbers == None \notin Inodes /\ 1 \in Inodes
  <1>1. Cardinality(Handlers) \in Nat
    BY HandlersAssumption, FS_CardinalityType
  <1> QED BY <1>1 DEF None, Inodes

LEMMA Moved ==
    ASSUME Types, NEW h \in Handlers, NEW l \in PCs, NEW j \in Jobs,
           pc' = [pc EXCEPT ![h] = l], job' = [job EXCEPT ![h] = j]
    PROVE /\ pc' \in [Handlers -> PCs] /\ job' \in [Handlers -> Jobs]
          /\ pc'[h] = l /\ job'[h] = j
          /\ \A g \in Handlers \ {h} : pc'[g] = pc[g] /\ job'[g] = job[g]
  BY DEF Types

-----------------------------------------------------------------------------
(* What a step of one request is to the others. *)

(* The requests themselves, apart from what is in the copies.              *)
Requests ==
    /\ \A h \in Handlers : PlaceOK(h) /\ MapOK(h) /\ FileOK(h)
    /\ \A h, g \in Handlers : Meets(h, g)

(* A request under way that goes on or ends: what it does to the map and   *)
(* to the file concerns no other request that none crossed.                *)
LEMMA OthersStay ==
    ASSUME IInv, NEW h \in Handlers, pc[h] # "idle", NEW l \in PCs, NEW j \in Jobs,
           pc' = [pc EXCEPT ![h] = l], job' = [job EXCEPT ![h] = j],
           l # "idle" => j.edits = job[h].edits /\ job[h].spoilt \subseteq j.spoilt,
           table' = table, job[h].edits \/ memory' = memory,
           PlaceOK(h)', MapOK(h)', FileOK(h)'
    PROVE Requests'
  <1>1. /\ pc'[h] = l /\ job'[h] = j
        /\ \A g \in Handlers \ {h} : pc'[g] = pc[g] /\ job'[g] = job[g]
    BY Moved DEF IInv
  <1>2. ASSUME NEW g \in Handlers, g # h PROVE PlaceOK(g)' /\ MapOK(g)' /\ FileOK(g)'
    <2>1. PlaceOK(g)'
      BY <1>1, <1>2 DEF IInv, PlaceOK
    <2>2. pc[g] # "idle" => "file" \in job[g].spoilt
      BY <1>2 DEF IInv, Meets
    <2>3. FileOK(g)'
      BY <1>1, <1>2, <2>2 DEF FileOK
    <2>4. CASE memory' = memory
      BY <1>1, <1>2, <2>1, <2>3, <2>4 DEF IInv, MapOK
    <2>5. CASE job[h].edits
      <3>1. pc[g] # "idle" /\ job[g].edits => "memory" \in job[g].spoilt
        BY <1>2, <2>5 DEF IInv, Meets
      <3> QED BY <1>1, <1>2, <2>1, <2>3, <3>1 DEF MapOK
    <2> QED BY <2>1, <2>3, <2>4, <2>5
  <1>3. ASSUME NEW f \in Handlers, NEW g \in Handlers PROVE Meets(f, g)'
    <2>1. Meets(f, g)
      BY DEF IInv
    <2>2. CASE l = "idle"
      BY <1>1, <2>1, <2>2 DEF Meets
    <2>3. CASE l # "idle"
      BY <1>1, <2>1, <2>3 DEF Meets
    <2> QED BY <2>2, <2>3
  <1>4. ASSUME NEW g \in Handlers PROVE PlaceOK(g)' /\ MapOK(g)' /\ FileOK(g)'
    BY <1>2, <1>4
  <1> QED BY <1>3, <1>4 DEF Requests

(* A request that goes on keeps the copies it writes from being relied on. *)
LEMMA GoesOn ==
    ASSUME IInv, NEW h \in Handlers, pc[h] # "idle", NEW l \in PCs \ {"idle"}, NEW j \in Jobs,
           pc' = [pc EXCEPT ![h] = l], job' = [job EXCEPT ![h] = j],
           j.edits = job[h].edits, table' = table, job[h].edits \/ memory' = memory, trust' = trust
    PROVE MapTrusted' /\ FileTrusted'
  <1>1. /\ pc'[h] = l /\ job'[h] = j
        /\ \A g \in Handlers \ {h} : pc'[g] = pc[g] /\ job'[g] = job[g]
    BY Moved DEF IInv
  <1>2. FileTrusted'
    BY <1>1 DEF FileTrusted
  <1>3. CASE job[h].edits
    BY <1>1, <1>2, <1>3 DEF MapTrusted
  <1>4. CASE ~job[h].edits
    <2> SUFFICES ASSUME "memory" \in trust, \A g \in Handlers : pc'[g] # "idle" => ~job'[g].edits
                 PROVE memory = View(table)
      BY <1>2, <1>4 DEF MapTrusted
    <2>1. \A g \in Handlers : pc[g] # "idle" => ~job[g].edits
      BY <1>1, <1>4
    <2> QED BY <2>1 DEF IInv, MapTrusted
  <1> QED BY <1>2, <1>3, <1>4

(* A request that ends leaves the copies it did not spoil as it should.    *)
LEMMA Ends ==
    ASSUME IInv, NEW h \in Handlers, pc[h] \notin {"idle", "load", "assign"}, NEW s, Finish(h, s),
           table' = table, memory' = memory,
           "file" \notin job[h].spoilt \cup s => content'[file'] = Lines(table),
           "zinc" \notin job[h].spoilt \cup s => zinc' = Lines(table)
    PROVE Requests' /\ MapTrusted' /\ FileTrusted'
  <1>1. /\ pc' = [pc EXCEPT ![h] = "idle"] /\ job' = [job EXCEPT ![h] = NoJob]
        /\ "idle" \in PCs /\ NoJob \in Jobs
    BY NoJobType DEF Finish, Goto, PCs
  <1>2. /\ pc'[h] = "idle" /\ job'[h] = NoJob
        /\ \A g \in Handlers \ {h} : pc'[g] = pc[g] /\ job'[g] = job[g]
    BY <1>1, Moved DEF IInv
  <1>3. PlaceOK(h)' /\ MapOK(h)' /\ FileOK(h)'
    BY <1>2, NoJobType DEF PlaceOK, MapOK, FileOK
  <1>4. Requests'
    BY <1>1, <1>3, OthersStay
  <1>5. MapTrusted'
    <2> SUFFICES ASSUME "memory" \in trust', \A g \in Handlers : pc'[g] # "idle" => ~job'[g].edits
                 PROVE memory = View(table)
      BY DEF MapTrusted
    <2>1. "memory" \notin job[h].spoilt /\ "memory" \in trust \cup Touched(job[h])
      BY DEF Finish
    <2>2. CASE job[h].edits
      BY <2>1, <2>2 DEF IInv, MapOK
    <2>3. CASE ~job[h].edits
      <3>1. \A g \in Handlers : pc[g] # "idle" => ~job[g].edits
        BY <1>2, <2>3
      <3>2. "memory" \in trust
        BY <2>1, <2>3 DEF Touched
      <3> QED BY <3>1, <3>2 DEF IInv, MapTrusted
    <2> QED BY <2>2, <2>3
  <1>6. FileTrusted'
    <2>1. "file" \in trust' => "file" \notin job[h].spoilt \cup s
      BY DEF Finish
    <2>2. "zinc" \in trust' => "zinc" \notin job[h].spoilt \cup s
      BY DEF Finish
    <2> QED BY <2>1, <2>2 DEF FileTrusted
  <1> QED BY <1>4, <1>5, <1>6

(* Steps that leave the disk and Zinc alone.                               *)
LEMMA WholeStays ==
    ASSUME WholeOK, UNCHANGED <<file, tmp, content, zinc, shared>>,
           \A h \in Handlers : pc'[h] \in {"write", "rename", "remove"} =>
               pc'[h] = pc[h] /\ job'[h].inode = job[h].inode
    PROVE WholeOK'
  BY DEF WholeOK, AtTmp

-----------------------------------------------------------------------------
(* A request begins. *)

LEMMA CrossedHas ==
    ASSUME NEW edits \in BOOLEAN, NEW o \in Handlers, job[o].edits \in BOOLEAN
    PROVE /\ "file" \in Crossed(edits, o) /\ "zinc" \in Crossed(edits, o)
          /\ Crossed(edits, o) \subseteq Copies
          /\ edits /\ job[o].edits => "memory" \in Crossed(edits, o)
  BY DEF Crossed, Copies

LEMMA Begun ==
    ASSUME Types, NEW h \in Handlers, NEW edits \in BOOLEAN, NEW l \in PCs, Begin(h, edits, l)
    PROVE /\ pc[h] = "idle" /\ requests' \in 0..MaxRequests
          /\ pc' \in [Handlers -> PCs] /\ job' \in [Handlers -> Jobs]
          /\ pc'[h] = l /\ \A g \in Handlers \ {h} : pc'[g] = pc[g]
          /\ job'[h].edits = edits /\ job'[h].inode = None
          /\ job'[h].spoilt = UNION {Crossed(edits, o) : o \in Busy}
          /\ \A g \in Handlers \ {h} :
                /\ job'[g].edits = job[g].edits /\ job'[g].inode = job[g].inode
                /\ g \in Busy => job'[g].spoilt = job[g].spoilt \cup Crossed(edits, g)
                /\ g \notin Busy => job'[g] = job[g]
  <1> DEFINE first == [NoJob EXCEPT !.edits = edits, !.spoilt = UNION {Crossed(edits, o) : o \in Busy}]
             met(g) == [job[g] EXCEPT !.spoilt = job[g].spoilt \cup Crossed(edits, g)]
  <1>1. /\ pc[h] = "idle" /\ requests' \in 0..MaxRequests
        /\ pc' = [pc EXCEPT ![h] = l]
    <2>1. pc[h] = "idle" /\ requests < MaxRequests /\ requests' = requests + 1
          /\ pc' = [pc EXCEPT ![h] = l]
      BY DEF Begin, Goto
    <2>2. requests \in 0..MaxRequests
      BY DEF Types
    <2>3. requests' \in 0..MaxRequests
      BY <2>1, <2>2, SynonymBounds
    <2> QED BY <2>1, <2>3
  <1>2. \A g \in Handlers : job[g] \in Jobs /\ job[g].edits \in BOOLEAN /\ Crossed(edits, g) \subseteq Copies
    BY JobFields, CrossedHas DEF Types
  <1>3. first \in Jobs /\ first.edits = edits /\ first.inode = None
        /\ first.spoilt = UNION {Crossed(edits, o) : o \in Busy}
    <2>1. UNION {Crossed(edits, o) : o \in Busy} \subseteq Copies
      BY <1>2 DEF Busy
    <2> DEFINE u == UNION {Crossed(edits, o) : o \in Busy}
    <2> HIDE DEF u
    <2>2. [NoJob EXCEPT !.edits = edits, !.spoilt = u] \in Jobs
      BY <2>1, NoJobType DEF Jobs, u
    <2>3. /\ [NoJob EXCEPT !.edits = edits, !.spoilt = u].edits = edits
          /\ [NoJob EXCEPT !.edits = edits, !.spoilt = u].inode = None
          /\ [NoJob EXCEPT !.edits = edits, !.spoilt = u].spoilt = u
      BY NoJobType DEF Jobs
    <2> QED BY <2>2, <2>3 DEF u
  <1>4. ASSUME NEW g \in Handlers
        PROVE /\ met(g) \in Jobs /\ met(g).edits = job[g].edits /\ met(g).inode = job[g].inode
              /\ met(g).spoilt = job[g].spoilt \cup Crossed(edits, g)
    <2> DEFINE u == job[g].spoilt \cup Crossed(edits, g)
    <2>1. u \subseteq Copies /\ job[g] \in Jobs
      BY <1>2, JobFields
    <2> HIDE DEF u
    <2>2. /\ [job[g] EXCEPT !.spoilt = u] \in Jobs
          /\ [job[g] EXCEPT !.spoilt = u].edits = job[g].edits
          /\ [job[g] EXCEPT !.spoilt = u].inode = job[g].inode
          /\ [job[g] EXCEPT !.spoilt = u].spoilt = u
      BY <2>1 DEF Jobs
    <2> QED BY <2>2 DEF u
  <1>5. job' = [g \in Handlers |-> IF g = h THEN first ELSE IF g \in Busy THEN met(g) ELSE job[g]]
    BY DEF Begin
  <1> HIDE DEF first, met
  <1>6. /\ job' \in [Handlers -> Jobs] /\ job'[h] = first
        /\ \A g \in Handlers \ {h} : job'[g] = IF g \in Busy THEN met(g) ELSE job[g]
    BY <1>2, <1>3, <1>4, <1>5
  <1>7. pc' \in [Handlers -> PCs] /\ pc'[h] = l /\ \A g \in Handlers \ {h} : pc'[g] = pc[g]
    BY <1>1 DEF Types
  <1> QED BY <1>1, <1>3, <1>4, <1>6, <1>7

LEMMA BeginStep ==
    ASSUME IInv, NEW h \in Handlers, NEW edits \in BOOLEAN, NEW l \in {"load", "find"},
           Begin(h, edits, l), edits <=> l = "load", edits \/ table' = table,
           table' \in Tables, lastId' \in 0..MaxRows, \A i \in DOMAIN table' : i <= lastId',
           UNCHANGED <<memory, disk, zinc, trust, shared, fails, crashes>>
    PROVE IInv'
  <1>1. Types /\ l \in PCs /\ UNCHANGED <<memory, file, tmp, content, zinc, trust, shared, fails, crashes>>
    BY DEF IInv, PCs, disk
  <1>2. /\ pc[h] = "idle" /\ requests' \in 0..MaxRequests
        /\ pc' \in [Handlers -> PCs] /\ job' \in [Handlers -> Jobs]
        /\ pc'[h] = l /\ \A g \in Handlers \ {h} : pc'[g] = pc[g]
        /\ job'[h].edits = edits /\ job'[h].inode = None
        /\ job'[h].spoilt = UNION {Crossed(edits, o) : o \in Busy}
        /\ \A g \in Handlers \ {h} :
              /\ job'[g].edits = job[g].edits /\ job'[g].inode = job[g].inode
              /\ g \in Busy => job'[g].spoilt = job[g].spoilt \cup Crossed(edits, g)
              /\ g \notin Busy => job'[g] = job[g]
    BY <1>1, Begun
  <1>3. \A g \in Handlers : job[g] \in Jobs /\ job[g].edits \in BOOLEAN /\ (g \in Busy <=> pc[g] # "idle")
    BY <1>1, JobFields DEF Types, Busy
  <1>4. Types'
    BY <1>1, <1>2 DEF Types
  <1>5. ASSUME NEW g \in Handlers PROVE PlaceOK(g)' /\ MapOK(g)' /\ FileOK(g)'
    <2>1. CASE g = h
      <3>1. PlaceOK(h)'
        <4>1. \A o \in Busy : "file" \in Crossed(edits, o) /\ "zinc" \in Crossed(edits, o)
          BY <1>3, CrossedHas DEF Busy
        <4>2. "file" \in job'[h].spoilt <=> "zinc" \in job'[h].spoilt
          BY <1>2, <4>1
        <4> QED BY <1>2, <4>2 DEF PlaceOK
      <3>2. MapOK(h)' /\ FileOK(h)'
        BY <1>2 DEF MapOK, FileOK
      <3> QED BY <2>1, <3>1, <3>2
    <2>2. CASE g # h /\ g \notin Busy
      <3>1. pc'[g] = "idle" /\ pc[g] = "idle" /\ job'[g] = job[g]
        BY <1>2, <1>3, <2>2
      <3> QED BY <3>1 DEF IInv, PlaceOK, MapOK, FileOK
    <2>3. CASE g # h /\ g \in Busy
      <3>1. /\ "file" \in job'[g].spoilt /\ "zinc" \in job'[g].spoilt
            /\ job[g].spoilt \subseteq job'[g].spoilt
            /\ edits /\ job[g].edits => "memory" \in job'[g].spoilt
            /\ pc'[g] = pc[g] /\ job'[g].edits = job[g].edits /\ job'[g].inode = job[g].inode
        BY <1>2, <1>3, <2>3, CrossedHas
      <3>2. PlaceOK(g)'
        BY <3>1 DEF IInv, PlaceOK
      <3>3. FileOK(g)'
        BY <3>1 DEF FileOK
      <3>4. job'[g].read = job[g].read
        BY <1>1, <1>3, <2>3 DEF Begin, Jobs
      <3>5. MapOK(g)'
        BY <1>1, <3>1, <3>4 DEF IInv, MapOK
      <3> QED BY <3>2, <3>3, <3>5
    <2> QED BY <2>1, <2>2, <2>3
  <1>6. ASSUME NEW f \in Handlers, NEW g \in Handlers PROVE Meets(f, g)'
    <2> SUFFICES ASSUME f # g, pc'[f] # "idle", pc'[g] # "idle"
                 PROVE "file" \in job'[f].spoilt /\ (job'[f].edits /\ job'[g].edits => "memory" \in job'[f].spoilt)
      BY DEF Meets
    <2>1. CASE f = h
      <3>1. g \in Busy /\ job'[g].edits = job[g].edits
        BY <1>2, <1>3, <2>1
      <3>2. Crossed(edits, g) \subseteq job'[h].spoilt
        BY <1>2, <3>1
      <3> QED BY <1>2, <1>3, <2>1, <3>1, <3>2, CrossedHas
    <2>2. CASE f # h
      <3>1. f \in Busy /\ job'[f].spoilt = job[f].spoilt \cup Crossed(edits, f) /\ job'[f].edits = job[f].edits
        BY <1>2, <1>3, <2>2
      <3>2. CASE g = h
        BY <1>2, <1>3, <3>1, <3>2, CrossedHas
      <3>3. CASE g # h
        <4>1. pc[g] # "idle" /\ job'[g].edits = job[g].edits /\ pc[f] # "idle"
          BY <1>2, <1>3, <3>1, <3>3
        <4> QED BY <3>1, <4>1 DEF IInv, Meets
      <3> QED BY <3>2, <3>3
    <2> QED BY <2>1, <2>2
  <1>7. MapTrusted'
    <2>1. CASE edits
      BY <1>2, <2>1 DEF MapTrusted
    <2>2. CASE ~edits
      <3> SUFFICES ASSUME "memory" \in trust, \A g \in Handlers : pc'[g] # "idle" => ~job'[g].edits
                   PROVE memory = View(table)
        BY <1>1, <2>2 DEF MapTrusted
      <3>1. \A g \in Handlers : pc[g] # "idle" => ~job[g].edits
        BY <1>2
      <3> QED BY <3>1 DEF IInv, MapTrusted
    <2> QED BY <2>1, <2>2
  <1>8. FileTrusted'
    BY <1>2 DEF FileTrusted
  <1>9. WholeOK'
    <2>1. \A g \in Handlers : pc'[g] \in {"write", "rename", "remove"} =>
              pc'[g] = pc[g] /\ job'[g].inode = job[g].inode
      BY <1>2
    <2>2. WholeOK
      BY DEF IInv
    <2> QED BY <1>1, <2>1, <2>2, WholeStays
  <1> QED BY <1>4, <1>5, <1>6, <1>7, <1>8, <1>9 DEF IInv

LEMMA CreateStep ==
    ASSUME IInv, NEW h \in Handlers, NEW r \in Rows, Create(h, r)
    PROVE IInv'
  <1> DEFINE n == lastId + 1
             t == [i \in DOMAIN table \cup {n} |-> IF i = n THEN r ELSE table[i]]
  <1>1. /\ Begin(h, TRUE, "load") /\ lastId' = n /\ table' = t /\ lastId < MaxRows
        /\ UNCHANGED <<memory, disk, zinc, trust, shared, fails, crashes>>
    BY DEF Create
  <1>2. /\ table \in Tables /\ lastId \in 0..MaxRows /\ \A i \in DOMAIN table : i <= lastId
    BY DEF IInv, Types
  <1>3. n \in Ids /\ n \in 0..MaxRows /\ \A i \in Ids : i <= lastId => i <= n
    BY <1>1, <1>2, SynonymBounds DEF Ids
  <1>4. DOMAIN table \subseteq Ids /\ \A i \in DOMAIN table : table[i] \in Rows
    BY <1>2, TableFields
  <1> HIDE DEF n
  <1>5. t \in Tables /\ DOMAIN t = DOMAIN table \cup {n}
    <2>1. DOMAIN table \cup {n} \in SUBSET Ids
      BY <1>3, <1>4
    <2>2. t \in [DOMAIN table \cup {n} -> Rows]
      BY <1>4
    <2> QED BY <2>1, <2>2, TableIs
  <1>6. \A i \in DOMAIN t : i <= n
    BY <1>2, <1>3, <1>4, <1>5 DEF Ids
  <1> HIDE DEF t
  <1>7. table' \in Tables /\ lastId' \in 0..MaxRows /\ \A i \in DOMAIN table' : i <= lastId'
    BY <1>1, <1>3, <1>5, <1>6
  <1> QED BY <1>1, <1>7, BeginStep

LEMMA UpdateStep ==
    ASSUME IInv, NEW h \in Handlers, NEW r \in Rows, NEW i \in Ids, Update(h, i, r)
    PROVE IInv'
  <1> DEFINE t == [j \in DOMAIN table |-> IF j = i THEN r ELSE table[j]]
  <1>1. /\ Begin(h, TRUE, "load") /\ lastId' = lastId /\ table' = t
        /\ UNCHANGED <<memory, disk, zinc, trust, shared, fails, crashes>>
    BY DEF Update
  <1>2. /\ table \in Tables /\ lastId \in 0..MaxRows /\ \A j \in DOMAIN table : j <= lastId
    BY DEF IInv, Types
  <1>3. DOMAIN table \in SUBSET Ids /\ \A j \in DOMAIN table : table[j] \in Rows
    BY <1>2, TableFields
  <1>4. t \in [DOMAIN table -> Rows] /\ DOMAIN t = DOMAIN table
    BY <1>3
  <1> HIDE DEF t
  <1>5. table' \in Tables /\ lastId' \in 0..MaxRows /\ \A j \in DOMAIN table' : j <= lastId'
    BY <1>1, <1>2, <1>3, <1>4, TableIs
  <1> QED BY <1>1, <1>5, BeginStep

LEMMA DeleteStep ==
    ASSUME IInv, NEW h \in Handlers, NEW i \in Ids, Delete(h, i)
    PROVE IInv'
  <1> DEFINE t == Restrict(table, DOMAIN table \ {i})
  <1>1. /\ Begin(h, TRUE, "load") /\ lastId' = lastId /\ table' = t
        /\ UNCHANGED <<memory, disk, zinc, trust, shared, fails, crashes>>
    BY DEF Delete
  <1>2. /\ table \in Tables /\ lastId \in 0..MaxRows /\ \A j \in DOMAIN table : j <= lastId
    BY DEF IInv, Types
  <1>3. DOMAIN table \subseteq Ids /\ \A j \in DOMAIN table : table[j] \in Rows
    BY <1>2, TableFields
  <1>4. /\ t \in [DOMAIN table \ {i} -> Rows] /\ DOMAIN t = DOMAIN table \ {i}
        /\ DOMAIN table \ {i} \in SUBSET Ids
    BY <1>3 DEF Restrict
  <1> HIDE DEF t
  <1>5. table' \in Tables /\ lastId' \in 0..MaxRows /\ \A j \in DOMAIN table' : j <= lastId'
    BY <1>1, <1>2, <1>4, TableIs
  <1> QED BY <1>1, <1>5, BeginStep

LEMMA SyncStep ==
    ASSUME IInv, NEW h \in Handlers, Sync(h)
    PROVE IInv'
  <1>1. /\ Begin(h, FALSE, "find") /\ lastId' = lastId /\ table' = table
        /\ UNCHANGED <<memory, disk, zinc, trust, shared, fails, crashes>>
    BY DEF Sync, store
  <1>2. table' \in Tables /\ lastId' \in 0..MaxRows /\ \A j \in DOMAIN table' : j <= lastId'
    BY <1>1 DEF IInv, Types
  <1> QED BY <1>1, <1>2, BeginStep

-----------------------------------------------------------------------------
(* The table is read. *)

LEMMA FailType == ASSUME Types, Ok \/ Fail PROVE fails' \in 0..MaxFails
  <1>1. fails' = fails \/ (fails < MaxFails /\ fails' = fails + 1)
    BY DEF Ok, Fail
  <1> QED BY <1>1, SynonymBounds DEF Types

(* `copies` are those that a reading that fails spoils.                    *)
LEMMA FindStep ==
    ASSUME IInv, NEW h \in Handlers, NEW from \in {"load", "find"}, NEW to \in {"assign", "open"},
           NEW copies \in {{"memory"}, {"file", "zinc"}},
           from = "load" <=> to = "assign", from = "load" <=> copies = {"memory"},
           Find(h, from, to, copies)
    PROVE IInv'
  <1>1. /\ Types /\ pc[h] = from /\ to \in PCs \ {"idle"} /\ pc' = [pc EXCEPT ![h] = to]
        /\ job[h] \in Jobs
        /\ UNCHANGED <<table, lastId, memory, file, tmp, content, zinc, trust, shared, requests, crashes>>
    BY DEF IInv, Find, Goto, PCs, store, disk, Types
  <1>2. PICK read \in Tables, spoilt \in SUBSET Copies :
          /\ job' = [job EXCEPT ![h] = [job[h] EXCEPT !.read = read, !.spoilt = spoilt]]
          /\ \/ read = table /\ spoilt = job[h].spoilt
             \/ spoilt = job[h].spoilt \cup copies
          /\ fails' \in 0..MaxFails
    <2>1. CASE Ok /\ job' = [job EXCEPT ![h].read = table]
      <3>1. [job[h] EXCEPT !.read = table] = [job[h] EXCEPT !.read = table, !.spoilt = job[h].spoilt]
        BY <1>1 DEF Jobs
      <3>2. job[h].spoilt \in SUBSET Copies /\ table \in Tables
        BY <1>1, JobFields DEF Types
      <3> QED BY <1>1, <2>1, <3>1, <3>2, FailType
    <2>2. CASE Fail /\ job' = [job EXCEPT ![h].read = NoRows, ![h].spoilt = @ \cup copies]
      <3>1. job[h].spoilt \cup copies \in SUBSET Copies
        BY <1>1, JobFields DEF Copies
      <3>2. job' = [job EXCEPT ![h] = [job[h] EXCEPT !.read = NoRows, !.spoilt = job[h].spoilt \cup copies]]
        BY <1>1, <2>2 DEF Types
      <3> QED BY <1>1, <2>2, <3>1, <3>2, NoRowsType, FailType
    <2> QED BY <2>1, <2>2 DEF Find
  <1> DEFINE j == [job[h] EXCEPT !.read = read, !.spoilt = spoilt]
  <1>3. /\ j \in Jobs /\ j.edits = job[h].edits /\ j.read = read /\ j.inode = job[h].inode
        /\ j.spoilt = spoilt /\ job' = [job EXCEPT ![h] = j]
    BY <1>1, <1>2 DEF Jobs
  <1> HIDE DEF j
  <1>4. /\ pc' \in [Handlers -> PCs] /\ job' \in [Handlers -> Jobs] /\ pc'[h] = to /\ job'[h] = j
        /\ \A g \in Handlers \ {h} : pc'[g] = pc[g] /\ job'[g] = job[g]
    BY <1>1, <1>3, Moved
  <1>5. Types'
    BY <1>1, <1>2, <1>4 DEF Types
  <1>6. PlaceOK(h)'
    BY <1>1, <1>2, <1>3, <1>4 DEF IInv, PlaceOK
  <1>7. MapOK(h)'
    BY <1>1, <1>2, <1>3, <1>4 DEF IInv, MapOK
  <1>8. FileOK(h)'
    BY <1>1, <1>2, <1>3, <1>4 DEF FileOK
  <1>9. Requests'
    BY <1>1, <1>2, <1>3, <1>6, <1>7, <1>8, OthersStay
  <1>10. MapTrusted' /\ FileTrusted'
    BY <1>1, <1>3, GoesOn
  <1>11. WholeOK'
    BY <1>1, <1>4, WholeStays DEF IInv
  <1> QED BY <1>5, <1>9, <1>10, <1>11 DEF IInv, Requests

LEMMA AssignStep ==
    ASSUME IInv, NEW h \in Handlers, Assign(h)
    PROVE IInv'
  <1>1. /\ Types /\ pc[h] = "assign" /\ job[h].edits /\ memory' = View(job[h].read)
        /\ pc' = [pc EXCEPT ![h] = "find"] /\ "find" \in PCs \ {"idle"} /\ job[h] \in Jobs
        /\ UNCHANGED <<table, lastId, file, tmp, content, zinc, job, trust, shared, requests, fails, crashes>>
    BY DEF IInv, Assign, Goto, PCs, store, disk, bounds, Types, PlaceOK
  <1>2. job' = [job EXCEPT ![h] = job[h]]
    BY <1>1 DEF Types
  <1>3. pc' \in [Handlers -> PCs] /\ pc'[h] = "find" /\ \A g \in Handlers \ {h} : pc'[g] = pc[g]
    BY <1>1 DEF Types
  <1>4. memory' \in Maps
    BY <1>1, JobFields, ViewType
  <1>5. Types'
    BY <1>1, <1>3, <1>4 DEF Types
  <1>6. PlaceOK(h)' /\ FileOK(h)'
    BY <1>1, <1>3 DEF IInv, PlaceOK, FileOK
  <1>7. MapOK(h)'
    <2>1. "memory" \notin job[h].spoilt => job[h].read = table
      BY <1>1 DEF IInv, MapOK
    <2> QED BY <1>1, <1>3, <2>1 DEF MapOK
  <1>8. Requests'
    BY <1>1, <1>2, <1>6, <1>7, OthersStay
  <1>9. MapTrusted' /\ FileTrusted'
    BY <1>1, <1>2, GoesOn
  <1>10. WholeOK'
    BY <1>1, <1>3, WholeStays DEF IInv
  <1> QED BY <1>5, <1>8, <1>9, <1>10 DEF IInv, Requests

-----------------------------------------------------------------------------
(* The file is written, moved and loaded. *)

(* A request that none crossed is alone.                                   *)
LEMMA Alone ==
    ASSUME IInv, NEW h \in Handlers, pc[h] # "idle", "file" \notin job[h].spoilt,
           NEW g \in Handlers, g # h
    PROVE pc[g] = "idle"
  BY DEF IInv, Meets

LEMMA TargetIs ==
    ASSUME Types
    PROVE /\ Target \in Inodes /\ Target # file /\ Target # None
          /\ tmp # None => Target = tmp
  <1>1. CASE tmp = None
    <2>1. Target = CHOOSE n \in Inodes : n \notin Held \cup {file}
      BY <1>1 DEF Target
    <2>2. Target \in Inodes /\ Target \notin Held \cup {file}
      BY <2>1, Fresh
    <2> QED BY <1>1, <2>2, InodeNumbers
  <1>2. CASE tmp # None
    BY <1>2 DEF Target, Types
  <1> QED BY <1>1, <1>2

LEMMA OpenStep ==
    ASSUME IInv, NEW h \in Handlers, Open(h)
    PROVE IInv'
  <1> DEFINE n == Target
             j == [job[h] EXCEPT !.inode = n]
  <1>1. /\ Types /\ pc[h] = "open" /\ job[h] \in Jobs
        /\ content' = [content EXCEPT ![n] = Part("cut")]
        /\ tmp' = IF n = file THEN tmp ELSE n
        /\ job' = [job EXCEPT ![h] = j]
        /\ shared' = (shared \/ \E g \in Handlers : pc[g] \in {"write", "rename"})
        /\ pc' = [pc EXCEPT ![h] = "write"] /\ "write" \in PCs \ {"idle"}
        /\ UNCHANGED <<table, lastId, memory, file, zinc, trust, requests, fails, crashes>>
    BY DEF IInv, Open, Goto, PCs, store, bounds, Types
  <1>2. n \in Inodes /\ n # file /\ n # None
    BY <1>1, TargetIs
  <1>3. /\ j \in Jobs /\ j.edits = job[h].edits /\ j.read = job[h].read
        /\ j.inode = n /\ j.spoilt = job[h].spoilt
    BY <1>1, <1>2 DEF Jobs
  <1> HIDE DEF j, n
  <1>4. /\ pc' \in [Handlers -> PCs] /\ job' \in [Handlers -> Jobs] /\ pc'[h] = "write" /\ job'[h] = j
        /\ \A g \in Handlers \ {h} : pc'[g] = pc[g] /\ job'[g] = job[g]
    BY <1>1, <1>3, Moved
  <1>5. /\ content' \in [Inodes -> Contents] /\ content'[n].is = "cut" /\ content'[file] = content[file]
        /\ tmp' = n
    BY <1>1, <1>2, PartType DEF Types
  <1>6. Types'
    BY <1>1, <1>2, <1>4, <1>5 DEF Types
  <1>7. PlaceOK(h)'
    BY <1>1, <1>2, <1>3, <1>4 DEF IInv, PlaceOK
  <1>8. MapOK(h)'
    BY <1>1, <1>3, <1>4 DEF IInv, MapOK
  <1>9. FileOK(h)'
    BY <1>1, <1>3, <1>4, <1>5 DEF IInv, FileOK
  <1>10. Requests'
    BY <1>1, <1>3, <1>7, <1>8, <1>9, OthersStay
  <1>11. MapTrusted' /\ FileTrusted'
    BY <1>1, <1>3, GoesOn
  <1>12. WholeOK'
    <2> SUFFICES ASSUME ~shared' PROVE WholeOK'
      BY DEF WholeOK
    <2>1. ~shared /\ \A g \in Handlers : pc[g] \notin {"write", "rename"}
      BY <1>1
    <2>2. content'[file'].is = "whole" /\ zinc'.is = "whole"
      BY <1>1, <1>5, <2>1 DEF IInv, WholeOK
    <2>3. ASSUME NEW g \in Handlers
          PROVE /\ pc'[g] # "remove" /\ pc'[g] # "rename"
                /\ pc'[g] = "write" => g = h
      BY <1>4, <2>1 DEF IInv, WholeOK
    <2>4. job'[h].inode = tmp' /\ content'[tmp'].is = "cut"
      BY <1>3, <1>4, <1>5
    <2> QED BY <2>2, <2>3, <2>4 DEF WholeOK, AtTmp
  <1> QED BY <1>6, <1>10, <1>11, <1>12 DEF IInv, Requests

LEMMA WriteStep ==
    ASSUME IInv, NEW h \in Handlers, Write(h)
    PROVE IInv'
  <1> DEFINE n == job[h].inode
             j == [job[h] EXCEPT !.inode = None]
             lines == Lines(job[h].read)
  <1>1. /\ Types /\ pc[h] = "write" /\ job[h] \in Jobs /\ n # None
        /\ job' = [job EXCEPT ![h] = j]
        /\ pc' = [pc EXCEPT ![h] = "rename"] /\ "rename" \in PCs \ {"idle"}
        /\ UNCHANGED <<table, lastId, memory, file, tmp, zinc, trust, shared, requests, fails, crashes>>
    BY DEF IInv, Write, Goto, PCs, store, bounds, Types, PlaceOK
  <1>2. n \in Inodes /\ lines \in Contents /\ lines.is = "whole"
    BY <1>1, JobFields, LinesType
  <1>3. PICK c \in {lines, Part("mixed")} :
          content' = [content EXCEPT ![n] = c] /\ (content[n].is = "cut" => c = lines)
    BY DEF Write
  <1>4. /\ j \in Jobs /\ j.edits = job[h].edits /\ j.read = job[h].read
        /\ j.inode = None /\ j.spoilt = job[h].spoilt
    BY <1>1 DEF Jobs
  <1>5. lines = Lines(job[h].read)
    OBVIOUS
  <1> HIDE DEF j, n, lines
  <1>6. /\ content' \in [Inodes -> Contents] /\ content'[n] = c
        /\ \A m \in Inodes : m # n => content'[m] = content[m]
    BY <1>1, <1>2, <1>3, PartType DEF Types
  <1>7. /\ pc' \in [Handlers -> PCs] /\ job' \in [Handlers -> Jobs] /\ pc'[h] = "rename" /\ job'[h] = j
        /\ \A g \in Handlers \ {h} : pc'[g] = pc[g] /\ job'[g] = job[g]
    BY <1>1, <1>4, Moved
  <1>8. Types'
    BY <1>1, <1>6, <1>7 DEF Types
  <1>9. PlaceOK(h)'
    BY <1>1, <1>4, <1>7 DEF IInv, PlaceOK
  <1>10. MapOK(h)'
    BY <1>1, <1>4, <1>7 DEF IInv, MapOK
  <1>11. FileOK(h)'
    <2> SUFFICES ASSUME "file" \notin job[h].spoilt PROVE tmp # None /\ content'[tmp] = Lines(table)
      BY <1>1, <1>4, <1>7 DEF FileOK
    <2>1. job[h].read = table /\ n = tmp /\ content[tmp].is = "cut"
      BY <1>1 DEF IInv, FileOK, n
    <2> QED BY <1>1, <1>3, <1>5, <1>6, <2>1
  <1>12. Requests'
    BY <1>1, <1>4, <1>9, <1>10, <1>11, OthersStay
  <1>13. MapTrusted' /\ FileTrusted'
    BY <1>1, <1>4, GoesOn
  <1>14. WholeOK'
    <2> SUFFICES ASSUME ~shared PROVE WholeOK'
      BY <1>1 DEF WholeOK
    <2>1. /\ content[file].is = "whole" /\ zinc.is = "whole"
          /\ n = tmp /\ content[tmp].is = "cut"
          /\ \A g \in Handlers : pc[g] # "remove" /\ (g # h => ~AtTmp(g))
      BY <1>1 DEF IInv, WholeOK, AtTmp, n
    <2>2. content'[file].is = "whole" /\ tmp # None /\ content'[tmp].is = "whole"
      BY <1>1, <1>2, <1>3, <1>6, <2>1 DEF Types
    <2>3. \A g \in Handlers : pc'[g] # "remove" /\ pc'[g] # "write" /\ (pc'[g] = "rename" => g = h)
      BY <1>7, <2>1 DEF AtTmp
    <2> QED BY <1>1, <2>1, <2>2, <2>3 DEF WholeOK, AtTmp
  <1> QED BY <1>8, <1>12, <1>13, <1>14 DEF IInv, Requests

LEMMA RenameStep ==
    ASSUME IInv, NEW h \in Handlers, Rename(h)
    PROVE IInv'
  <1>1. /\ Types /\ pc[h] = "rename" /\ job[h] \in Jobs /\ job[h].inode = None
        /\ UNCHANGED <<table, lastId, memory, content, zinc, trust, shared, requests, fails, crashes>>
    BY DEF IInv, Rename, store, bounds, Types, PlaceOK
  <1>2. CASE tmp # None
    <2>1. /\ file' = tmp /\ tmp' = None /\ job' = job
          /\ pc' = [pc EXCEPT ![h] = "reload"] /\ "reload" \in PCs \ {"idle"}
      BY <1>2 DEF Rename, Goto, PCs
    <2>2. job' = [job EXCEPT ![h] = job[h]]
      BY <1>1, <2>1 DEF Types
    <2>3. pc' \in [Handlers -> PCs] /\ pc'[h] = "reload" /\ \A g \in Handlers \ {h} : pc'[g] = pc[g]
      BY <1>1, <2>1 DEF Types
    <2>4. Types'
      BY <1>1, <1>2, <2>1, <2>3, InodeNumbers DEF Types
    <2>5. PlaceOK(h)'
      BY <1>1, <2>1, <2>3 DEF IInv, PlaceOK
    <2>6. MapOK(h)'
      BY <1>1, <2>1, <2>3 DEF IInv, MapOK
    <2>7. FileOK(h)'
      BY <1>1, <2>1, <2>3 DEF IInv, FileOK
    <2>8. Requests'
      BY <1>1, <2>1, <2>2, <2>5, <2>6, <2>7, OthersStay
    <2>9. MapTrusted' /\ FileTrusted'
      BY <1>1, <2>1, <2>2, GoesOn
    <2>10. WholeOK'
      <3> SUFFICES ASSUME ~shared PROVE WholeOK'
        BY <1>1 DEF WholeOK
      <3>1. /\ content[tmp].is = "whole" /\ zinc.is = "whole"
            /\ \A g \in Handlers : pc[g] # "remove" /\ (g # h => ~AtTmp(g))
        BY <1>1 DEF IInv, WholeOK, AtTmp
      <3>2. \A g \in Handlers : pc'[g] \notin {"remove", "write", "rename"}
        BY <2>3, <3>1 DEF AtTmp
      <3> QED BY <1>1, <2>1, <3>1, <3>2 DEF WholeOK, AtTmp
    <2> QED BY <2>4, <2>8, <2>9, <2>10 DEF IInv, Requests
  <1>3. CASE tmp = None
    <2> DEFINE j == [job[h] EXCEPT !.spoilt = job[h].spoilt \cup {"file", "zinc"}]
    <2>1. /\ file' = file /\ tmp' = tmp /\ job' = [job EXCEPT ![h] = j]
          /\ pc' = [pc EXCEPT ![h] = "remove"] /\ "remove" \in PCs \ {"idle"}
      BY <1>1, <1>3 DEF Rename, Goto, PCs, Types
    <2>2. /\ j \in Jobs /\ j.edits = job[h].edits /\ j.read = job[h].read
          /\ j.inode = None /\ j.spoilt = job[h].spoilt \cup {"file", "zinc"}
      <3>1. job[h].spoilt \cup {"file", "zinc"} \subseteq Copies
        BY <1>1, JobFields DEF Copies
      <3> QED BY <1>1, <3>1 DEF Jobs
    <2> HIDE DEF j
    <2>3. /\ pc' \in [Handlers -> PCs] /\ job' \in [Handlers -> Jobs] /\ pc'[h] = "remove" /\ job'[h] = j
          /\ \A g \in Handlers \ {h} : pc'[g] = pc[g] /\ job'[g] = job[g]
      BY <1>1, <2>1, <2>2, Moved
    <2>4. Types'
      BY <1>1, <2>1, <2>3 DEF Types
    <2>5. PlaceOK(h)' /\ FileOK(h)'
      BY <2>2, <2>3 DEF PlaceOK, FileOK
    <2>6. MapOK(h)'
      BY <1>1, <2>2, <2>3 DEF IInv, MapOK
    <2>7. Requests'
      BY <1>1, <2>1, <2>2, <2>5, <2>6, OthersStay
    <2>8. MapTrusted' /\ FileTrusted'
      BY <1>1, <2>1, <2>2, GoesOn
    <2>9. WholeOK'
      <3>1. shared
        BY <1>1, <1>3 DEF IInv, WholeOK
      <3> QED BY <1>1, <3>1 DEF WholeOK
    <2> QED BY <2>4, <2>7, <2>8, <2>9 DEF IInv, Requests
  <1> QED BY <1>2, <1>3

LEMMA FinishTypes ==
    ASSUME Types, NEW h \in Handlers, NEW s, Finish(h, s)
    PROVE /\ pc' \in [Handlers -> PCs] /\ job' \in [Handlers -> Jobs] /\ trust' \subseteq Copies
          /\ pc'[h] = "idle" /\ \A g \in Handlers \ {h} : pc'[g] = pc[g] /\ job'[g] = job[g]
  <1>1. pc' = [pc EXCEPT ![h] = "idle"] /\ job' = [job EXCEPT ![h] = NoJob] /\ "idle" \in PCs
    BY DEF Finish, Goto, PCs
  <1>2. trust' \subseteq Copies
    BY DEF Finish, Touched, Types
  <1> QED BY <1>1, <1>2, NoJobType, Moved

LEMMA WriteFailsStep ==
    ASSUME IInv, NEW h \in Handlers, WriteFails(h)
    PROVE IInv'
  <1>1. /\ Types /\ pc[h] = "write" /\ Fail /\ Finish(h, {"file", "zinc"})
        /\ UNCHANGED <<table, lastId, memory, file, tmp, content, zinc, shared, requests, crashes>>
    BY DEF IInv, WriteFails, store, disk
  <1>2. Types'
    BY <1>1, FinishTypes, FailType DEF Types
  <1>3. Requests' /\ MapTrusted' /\ FileTrusted'
    BY <1>1, Ends
  <1>4. WholeOK'
    BY <1>1, FinishTypes, WholeStays DEF IInv
  <1> QED BY <1>2, <1>3, <1>4 DEF IInv, Requests

LEMMA RemoveStep ==
    ASSUME IInv, NEW h \in Handlers, Remove(h)
    PROVE IInv'
  <1>1. /\ Types /\ pc[h] = "remove" /\ tmp' = None /\ Finish(h, {})
        /\ UNCHANGED <<table, lastId, memory, file, content, zinc, shared, requests, fails, crashes>>
    BY DEF IInv, Remove, store, bounds
  <1>2. Types'
    BY <1>1, FinishTypes, InodeNumbers DEF Types
  <1>3. "file" \in job[h].spoilt /\ "zinc" \in job[h].spoilt
    BY <1>1 DEF IInv, PlaceOK
  <1>4. Requests' /\ MapTrusted' /\ FileTrusted'
    BY <1>1, <1>3, Ends
  <1>5. WholeOK'
    <2>1. shared
      BY <1>1 DEF IInv, WholeOK
    <2> QED BY <1>1, <2>1 DEF WholeOK
  <1> QED BY <1>2, <1>4, <1>5 DEF IInv, Requests

LEMMA ReloadStep ==
    ASSUME IInv, NEW h \in Handlers, Reload(h)
    PROVE IInv'
  <1>1. /\ Types /\ pc[h] = "reload" /\ zinc' \in {zinc, content[file]} /\ (Ok \/ Fail)
        /\ UNCHANGED <<table, lastId, memory, file, tmp, content, shared, requests, crashes>>
    BY DEF IInv, Reload, store, disk
  <1>2. PICK s \in {{}, {"zinc"}} : Finish(h, s) /\ (s = {} => zinc' = content[file])
    BY DEF Reload
  <1>3. Types'
    BY <1>1, <1>2, FinishTypes, FailType DEF Types
  <1>4. "file" \notin job[h].spoilt => content[file] = Lines(table)
    BY <1>1 DEF IInv, FileOK
  <1>5. "zinc" \notin job[h].spoilt => "file" \notin job[h].spoilt
    BY DEF IInv, PlaceOK
  <1>6. Requests' /\ MapTrusted' /\ FileTrusted'
    BY <1>1, <1>2, <1>4, <1>5, Ends
  <1>7. WholeOK'
    <2>1. \A g \in Handlers : pc'[g] # "idle" => pc'[g] = pc[g] /\ job'[g] = job[g]
      BY <1>1, <1>2, FinishTypes
    <2> QED BY <1>1, <2>1 DEF IInv, WholeOK, AtTmp
  <1> QED BY <1>3, <1>6, <1>7 DEF IInv, Requests

-----------------------------------------------------------------------------
(* The process starts again. *)

LEMMA CrashStep ==
    ASSUME IInv, Crash
    PROVE IInv'
  <1>1. /\ Types /\ crashes < MaxCrashes /\ crashes' = crashes + 1 /\ memory' = View(table)
        /\ trust' = (trust \cup {"memory"}) \ (IF Busy = {} THEN {} ELSE {"file", "zinc"})
        /\ UNCHANGED <<table, lastId, file, tmp, content, zinc, shared, requests, fails>>
    BY DEF IInv, Crash, store, disk
  <1>2. pc' \in [Handlers -> PCs] /\ job' \in [Handlers -> Jobs]
        /\ \A h \in Handlers : pc'[h] = "idle" /\ job'[h] = NoJob
    BY NoJobType DEF Crash, PCs
  <1>3. crashes' \in 0..MaxCrashes
    BY <1>1, SynonymBounds DEF Types
  <1>4. memory' \in Maps /\ trust' \subseteq Copies
    BY <1>1, ViewType DEF Types, Copies
  <1>5. Types'
    BY <1>1, <1>2, <1>3, <1>4 DEF Types
  <1>6. \A h \in Handlers : PlaceOK(h)' /\ MapOK(h)' /\ FileOK(h)'
    BY <1>2, NoJobType DEF PlaceOK, MapOK, FileOK
  <1>7. \A h, g \in Handlers : Meets(h, g)'
    BY <1>2 DEF Meets
  <1>8. MapTrusted'
    BY <1>1 DEF MapTrusted
  <1>9. FileTrusted'
    <2> SUFFICES ASSUME "file" \in trust' \/ "zinc" \in trust' PROVE FileTrusted'
      BY DEF FileTrusted
    <2>1. Busy = {}
      BY <1>1
    <2>2. \A h \in Handlers : pc[h] = "idle"
      BY <2>1 DEF Busy
    <2>3. trust' = trust \cup {"memory"}
      BY <1>1, <2>1
    <2> QED BY <1>1, <2>2, <2>3 DEF IInv, FileTrusted
  <1>10. WholeOK'
    BY <1>1, <1>2, WholeStays DEF IInv
  <1> QED BY <1>5, <1>6, <1>7, <1>8, <1>9, <1>10 DEF IInv

-----------------------------------------------------------------------------
(* The invariant. *)

LEMMA InvInit == Init => IInv
  <1> SUFFICES ASSUME Init PROVE IInv
    OBVIOUS
  <1>1. \A h \in Handlers : pc[h] = "idle" /\ job[h] = NoJob
    BY DEF Init
  <1>2. Types
    <2>1. table \in Tables /\ lastId \in 0..MaxRows /\ DOMAIN table = {}
      BY NoRowsType, SynonymBounds DEF Init, NoRows
    <2>2. memory \in Maps /\ zinc \in Contents /\ content \in [Inodes -> Contents]
      BY NoRowsType, ViewType, LinesType DEF Init
    <2>3. file \in Inodes /\ tmp \in Inodes \cup {None} /\ tmp # file
      BY InodeNumbers DEF Init
    <2>4. pc \in [Handlers -> PCs] /\ job \in [Handlers -> Jobs] /\ trust \subseteq Copies /\ shared \in BOOLEAN
      BY NoJobType DEF Init, PCs
    <2>5. requests \in 0..MaxRequests /\ fails \in 0..MaxFails /\ crashes \in 0..MaxCrashes
      BY SynonymBounds DEF Init
    <2> QED BY <2>1, <2>2, <2>3, <2>4, <2>5 DEF Types
  <1>3. \A h \in Handlers : PlaceOK(h) /\ MapOK(h) /\ FileOK(h)
    BY <1>1, NoJobType DEF PlaceOK, MapOK, FileOK
  <1>4. \A h, g \in Handlers : Meets(h, g)
    BY <1>1 DEF Meets
  <1>5. MapTrusted /\ FileTrusted
    BY InodeNumbers DEF Init, MapTrusted, FileTrusted
  <1>6. WholeOK
    BY <1>1, InodeNumbers, NoRowsType, LinesType DEF Init, WholeOK, AtTmp
  <1> QED BY <1>2, <1>3, <1>4, <1>5, <1>6 DEF IInv

LEMMA InvStep == IInv /\ [Next]_vars => IInv'
  <1> SUFFICES ASSUME IInv, [Next]_vars PROVE IInv'
    OBVIOUS
  <1>1. CASE UNCHANGED vars
    <2>1. UNCHANGED <<table, lastId, memory, file, tmp, content, zinc, pc, job, trust, shared,
                      requests, fails, crashes>>
      BY <1>1 DEF vars, store, disk, bounds
    <2>2. Types' /\ MapTrusted' /\ FileTrusted' /\ WholeOK'
      BY <2>1 DEF IInv, Types, MapTrusted, FileTrusted, WholeOK, AtTmp
    <2>3. \A h \in Handlers : PlaceOK(h)' /\ MapOK(h)' /\ FileOK(h)'
      BY <2>1 DEF IInv, PlaceOK, MapOK, FileOK
    <2>4. \A h, g \in Handlers : Meets(h, g)'
      BY <2>1 DEF IInv, Meets
    <2> QED BY <2>2, <2>3, <2>4 DEF IInv
  <1>2. ASSUME NEW h \in Handlers, Load(h) \/ Export(h) PROVE IInv'
    <2>1. CASE Load(h)
      <3>1. Find(h, "load", "assign", {"memory"})
        BY <2>1 DEF Load
      <3> DEFINE copies == {"memory"}
      <3>2. copies \in {{"memory"}, {"file", "zinc"}} /\ copies = {"memory"}
        OBVIOUS
      <3> HIDE DEF copies
      <3>3. Find(h, "load", "assign", copies)
        BY <3>1 DEF copies
      <3> QED BY <3>2, <3>3, FindStep
    <2>2. CASE Export(h)
      <3>1. Find(h, "find", "open", {"file", "zinc"})
        BY <2>2 DEF Export
      <3> DEFINE copies == {"file", "zinc"}
      <3>2. copies \in {{"memory"}, {"file", "zinc"}} /\ copies # {"memory"}
        OBVIOUS
      <3> HIDE DEF copies
      <3>3. Find(h, "find", "open", copies)
        BY <3>1 DEF copies
      <3> QED BY <3>2, <3>3, FindStep
    <2> QED BY <1>2, <2>1, <2>2
  <1>3. CASE \E h \in Handlers :
               \/ \E r \in Rows : Create(h, r)
               \/ \E r \in Rows : \E i \in Ids : Update(h, i, r)
               \/ \E i \in Ids : Delete(h, i)
               \/ Sync(h)
    BY <1>3, CreateStep, UpdateStep, DeleteStep, SyncStep
  <1>4. CASE \E h \in Handlers : Assign(h) \/ Open(h) \/ Write(h) \/ WriteFails(h)
    BY <1>4, AssignStep, OpenStep, WriteStep, WriteFailsStep
  <1>5. CASE \E h \in Handlers : Rename(h) \/ Remove(h) \/ Reload(h)
    BY <1>5, RenameStep, RemoveStep, ReloadStep
  <1>6. CASE Next
    <2>1. CASE Crash
      BY <2>1, CrashStep
    <2>2. ASSUME NEW h \in Handlers,
                 \/ \E r \in Rows : Create(h, r)
                 \/ \E r \in Rows : \E i \in Ids : Update(h, i, r)
                 \/ \E i \in Ids : Delete(h, i)
                 \/ Sync(h)
                 \/ Load(h) \/ Assign(h) \/ Export(h) \/ Open(h)
                 \/ Write(h) \/ WriteFails(h) \/ Rename(h) \/ Remove(h) \/ Reload(h)
          PROVE IInv'
      BY <1>2, <1>3, <1>4, <1>5, <2>2
    <2> QED BY <1>6, <2>1, <2>2 DEF Next
  <1> QED BY <1>1, <1>6

(* A request that met no other and saw nothing fail goes on from a table   *)
(* nobody changes, and leaves the copies it wrote as the table says        *)
(* (server.go:799-832, 841-908).                                           *)
THEOREM Invariant == Spec => []IInv
  BY InvInit, InvStep, PTL DEF Spec

(* Every variable has its type, the dictionary and `.tmp` are two inodes,  *)
(* and an inode is held exactly while it is written (server.go:799-832). *)
THEOREM TypeCorrect == Spec => []TypeOK
  <1>1. IInv => TypeOK
    BY DEF IInv, Types, TypeOK, Tables, Maps, PCs, PlaceOK
  <1> QED BY <1>1, Invariant, PTL

(* With no request under way, every copy that the last request to write it *)
(* wrote undisturbed says what the table says                              *)
(* (server.go:799-832, 841-908).                                           *)
THEOREM CopiesFollow == Spec => []CopiesAgree
  <1>1. IInv => CopiesAgree
    BY DEF IInv, CopiesAgree, MapTrusted, FileTrusted, Busy
  <1> QED BY <1>1, Invariant, PTL

(* Unless two exports met at `.tmp`, there is never a part of a dictionary *)
(* under its name or in Zinc, whatever failed or crashed                   *)
(* (server.go:799-832).                                                  *)
THEOREM DictionaryWhole == Spec => []FileIsWhole
  <1>1. IInv => FileIsWhole
    BY DEF IInv, FileIsWhole, WholeOK
  <1> QED BY <1>1, Invariant, PTL
=============================================================================

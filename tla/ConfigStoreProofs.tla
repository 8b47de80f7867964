-------------------------- MODULE ConfigStoreProofs --------------------------
(***************************************************************************)
(* Proofs about ConfigStore, for every set of names, handlers and texts    *)
(* and for every bound.                                                    *)
(*                                                                         *)
(* A create owns its placeholder as long as no second request works on the *)
(* file (HasPlaceholder).  Whatever changes a file leaves a reload to come *)
(* (Pending): an event of the watcher, or a handler that is about to load. *)
(* When none is to come, the reload that read the files last has them as   *)
(* they are, however far it and those before it are, and so has every copy *)
(* it wrote last (Current).                                                *)
(***************************************************************************)
EXTENDS ConfigStore, TLAPS

-----------------------------------------------------------------------------
(* The invariant. *)

(* A handler is between its checks and its answer or reload. *)
Working(h) == pc[h] \in {"save", "rename", "release", "remove"}

Creating(h) == pc[h] \in {"save", "rename", "release"} /\ job[h].op = "create"

(* What a handler works on, and that nobody works while the process is down. *)
Places ==
    /\ ~up => events = 0 /\ \A r \in Reloaders : pc[r] = "idle"
    /\ pc[Watcher] \in {"idle", "load", "rows", "orphans"}
    /\ \A h \in Handlers :
          /\ Working(h) => job[h].name \in Names
          /\ pc[h] \in {"save", "rename"} => job[h].content \in Contents
          /\ pc[h] = "release" => job[h].op = "create"

(* Two requests about one file are known to history. *)
OneOnEach == \A g, h \in Handlers :
    Working(g) /\ Working(h) /\ job[g].name = job[h].name /\ g # h => job[g].name \in mixed

(* A create that nobody crosses still has its placeholder. *)
HasPlaceholder(h) == Creating(h) /\ job[h].name \notin mixed => file[job[h].name] = Empty

(* Until the process ends, a placeholder is that of a create under way. *)
Owned == crashes = 0 => \A n \in Names :
    file[n] = Empty => \E h \in Handlers : Creating(h) /\ job[h].name = n

(* A reload is still to come. *)
Pending == events > 0 \/ \E r \in Reloaders : pc[r] = "load"

Settled == up /\ read /\ ~Pending

(* The reload that read the files last has them as they are, and so has    *)
(* what it wrote last.                                                     *)
Current ==
    /\ \A h \in Handlers : Creating(h) => job[h].name \in mixed
    /\ freshMemory => \A n \in Names \ mixed : memory[n] = file[n]
    /\ \A n \in freshRows \ mixed : row[n] = file[n]
    /\ newest \in Reloading => \A n \in Names \ mixed : job[newest].cfgs[n] = file[n]

(* The rows a reload is about to delete are of no configuration it read. *)
Orphans(r) == pc[r] = "orphans" => \A n \in job[r].todo : job[r].cfgs[n] = Absent

IInv ==
    /\ TypeOK
    /\ Places
    /\ OneOnEach
    /\ \A h \in Handlers : HasPlaceholder(h)
    /\ Owned
    /\ \A r \in Reloaders : Orphans(r)
    /\ Settled => Current

-----------------------------------------------------------------------------
(* Data. *)

Jobs == [op: {"create", "update", "delete", "reload"}, name: Names \cup {Absent},
         content: Contents \cup {Absent}, cfgs: [Names -> Texts], todo: SUBSET Names]

LEMMA JobFields == ASSUME NEW j \in Jobs
    PROVE /\ j.op \in {"create", "update", "delete", "reload"} /\ j.name \in Names \cup {Absent}
          /\ j.content \in Contents \cup {Absent} /\ j.cfgs \in [Names -> Texts] /\ j.todo \subseteq Names
  BY DEF Jobs

LEMMA NoJobType == NoJob \in Jobs /\ NoJob.op = "reload"
  BY DEF NoJob, NoConfigs, Jobs, Texts

(* The placeholder and a missing file are no texts. *)
LEMMA NoText == Absent # Empty /\ Absent \notin Contents /\ Empty \notin Contents
  <1>1. Absent # Empty
    <2>1. Absent.file = "absent" /\ Empty.file = "empty"
      BY DEF Absent, Empty
    <2> QED BY <2>1
  <1>2. \A c \in Contents : DOMAIN c = {"query", "named", "version"}
    BY ContentsAssumption
  <1>3. DOMAIN Absent = {"file"} /\ DOMAIN Empty = {"file"}
    BY DEF Absent, Empty
  <1>4. {"file"} # {"query", "named", "version"}
    OBVIOUS
  <1> QED BY <1>1, <1>2, <1>3, <1>4

LEMMA LoadableFiles ==
    ASSUME Loadable, NEW n \in Names
    PROVE file[n] # Empty
  BY NoText DEF Loadable, IsLoadable

LEMMA TypeParts == TypeOK <=>
    /\ file \in [Names -> Texts]
    /\ tmp \in [Names -> Contents \cup {Absent}]
    /\ events \in Nat
    /\ row \in [Names -> Texts \cup {IndexName}]
    /\ memory \in [Names -> Texts]
    /\ up \in BOOLEAN /\ mixed \subseteq Names
    /\ newest \in Reloaders /\ read \in BOOLEAN
    /\ freshRows \subseteq Names /\ freshMemory \in BOOLEAN
    /\ pc \in [Reloaders -> PCs]
    /\ job \in [Reloaders -> Jobs]
    /\ requests \in Nat /\ edits \in 0..MaxEdits /\ requests + edits <= MaxChanges
    /\ crashes \in Nat /\ fails \in Nat /\ crashes + fails <= MaxFaults
  BY DEF TypeOK, Jobs

LEMMA FailsType ==
    ASSUME TypeOK, Ok \/ Fail
    PROVE fails' \in Nat /\ crashes + fails' <= MaxFaults
  <1>1. crashes \in Nat /\ fails \in Nat /\ MaxFaults \in Nat /\ crashes + fails <= MaxFaults
    BY StoreBounds DEF TypeOK
  <1>2. fails' = fails \/ (crashes + fails < MaxFaults /\ fails' = fails + 1)
    BY DEF Ok, Fail
  <1> QED BY <1>1, <1>2

(* A goroutine moves, and gets other locals. *)
LEMMA Moved ==
    ASSUME TypeOK, NEW r \in Reloaders, NEW l \in PCs, NEW j \in Jobs,
           pc' = [pc EXCEPT ![r] = l], job' = [job EXCEPT ![r] = j]
    PROVE /\ pc' \in [Reloaders -> PCs] /\ job' \in [Reloaders -> Jobs]
          /\ pc'[r] = l /\ job'[r] = j
          /\ \A s \in Reloaders \ {r} : pc'[s] = pc[s] /\ job'[s] = job[s]
  BY TypeParts

-----------------------------------------------------------------------------
(* What the steps of handlers leave as it is. *)

(* The reloads under way are the same, and none that was to come is gone. *)
ReloadsStay ==
    /\ UNCHANGED <<row, memory, newest, read, freshRows, freshMemory, up>>
    /\ mixed \subseteq mixed' /\ (Pending => Pending')
    /\ \A r \in Reloaders : \/ pc'[r] = pc[r] /\ job'[r] = job[r]
                            \/ {pc[r], pc'[r]} \cap {"rows", "orphans"} = {}

LEMMA OrphansStay ==
    ASSUME \A r \in Reloaders : Orphans(r), ReloadsStay
    PROVE \A r \in Reloaders : Orphans(r)'
  <1> SUFFICES ASSUME NEW r \in Reloaders, pc'[r] = "orphans" PROVE \A n \in job'[r].todo : job'[r].cfgs[n] = Absent
    BY DEF Orphans
  <1>1. pc'[r] = pc[r] /\ job'[r] = job[r]
    BY DEF ReloadsStay
  <1> QED BY <1>1 DEF Orphans

LEMMA CurrentStays ==
    ASSUME TypeOK, Settled => Current, ReloadsStay,
           \A n \in Names : \/ file'[n] = file[n]
                            \/ \E h \in Handlers : Creating(h) /\ job[h].name = n,
           \A h \in Handlers : Creating(h)' => Creating(h) /\ job'[h].name = job[h].name
    PROVE (Settled => Current)'
  <1> SUFFICES ASSUME Settled' PROVE Current'
    OBVIOUS
  <1>1. Settled /\ Current
    BY DEF Settled, ReloadsStay
  <1>2. \A n \in Names \ mixed' : file'[n] = file[n] /\ n \notin mixed
    BY <1>1 DEF Current, ReloadsStay
  <1>3. (\A h \in Handlers : Creating(h) => job[h].name \in mixed)'
    BY <1>1 DEF Current, ReloadsStay
  <1>4. (freshMemory => \A n \in Names \ mixed : memory[n] = file[n])'
    BY <1>1, <1>2 DEF Current, ReloadsStay
  <1>5. (\A n \in freshRows \ mixed : row[n] = file[n])'
    <2>1. freshRows \subseteq Names
      BY TypeParts
    <2> QED BY <1>1, <1>2, <2>1 DEF Current, ReloadsStay
  <1>6. (newest \in Reloading => \A n \in Names \ mixed : job[newest].cfgs[n] = file[n])'
    <2> SUFFICES ASSUME newest \in Reloading' PROVE \A n \in Names \ mixed' : job'[newest].cfgs[n] = file'[n]
      BY DEF ReloadsStay
    <2>1. newest \in Reloading /\ job'[newest] = job[newest]
      BY DEF ReloadsStay, Reloading
    <2> QED BY <1>1, <1>2, <2>1 DEF Current
  <1> QED BY <1>3, <1>4, <1>5, <1>6 DEF Current

LEMMA PendingIsFine ==
    ASSUME Pending' PROVE (Settled => Current)'
  BY DEF Settled

(* The steps of reloads: nothing happens to the files, and the handlers    *)
(* that work on one go on.                                                 *)
HandlersStay ==
    /\ UNCHANGED <<file, tmp, mixed, crashes>>
    /\ \A h \in Handlers : \/ pc'[h] = pc[h] /\ job'[h] = job[h]
                           \/ {pc[h], pc'[h]} \cap {"save", "rename", "release", "remove"} = {}

LEMMA RequestsStay ==
    ASSUME IInv, HandlersStay
    PROVE /\ OneOnEach' /\ (\A h \in Handlers : HasPlaceholder(h)')
          /\ Owned'
          /\ \A h \in Handlers :
               /\ Working(h)' => job'[h].name \in Names
               /\ pc'[h] \in {"save", "rename"} => job'[h].content \in Contents
               /\ pc'[h] = "release" => job'[h].op = "create"
  <1>1. \A h \in Handlers :
           /\ Working(h)' <=> Working(h)
           /\ Creating(h)' <=> Creating(h)
           /\ Working(h) => pc'[h] = pc[h] /\ job'[h] = job[h]
           /\ pc'[h] = "rename" => Working(h)
    BY DEF HandlersStay, Working, Creating
  <1>2. OneOnEach'
    BY <1>1 DEF IInv, OneOnEach, HandlersStay
  <1>3. \A h \in Handlers : Creating(h) => Working(h)
    BY DEF Creating, Working
  <1>4. ASSUME NEW h \in Handlers PROVE HasPlaceholder(h)'
    BY <1>1, <1>3 DEF IInv, HasPlaceholder, HandlersStay
  <1>5. Owned'
    BY <1>1, <1>3 DEF IInv, Owned, HandlersStay
  <1>6. \A h \in Handlers :
               /\ Working(h)' => job'[h].name \in Names
               /\ pc'[h] \in {"save", "rename"} => job'[h].content \in Contents
               /\ pc'[h] = "release" => job'[h].op = "create"
    BY <1>1 DEF IInv, Places, Working
  <1> QED BY <1>2, <1>4, <1>5, <1>6

-----------------------------------------------------------------------------
(* Requests. *)

(* The pieces of the invariant about files and requests, and about reloads *)
(* and the tables.                                                         *)
LEMMA Together ==
    ASSUME TypeOK', Places', OneOnEach', \A h \in Handlers : HasPlaceholder(h)', Owned',
           \A r \in Reloaders : Orphans(r)', (Settled => Current)'
    PROVE IInv'
  BY DEF IInv

(* A request begins.  The file is there, or a placeholder appears.         *)
LEMMA RequestStep ==
    ASSUME IInv, NEW h \in Handlers, NEW n \in Names,
           NEW op \in {"create", "update", "delete"}, NEW c \in Contents \cup {Absent},
           NEW l \in {"save", "remove"}, l = "save" => c \in Contents,
           op = "create" => l = "save" /\ file[n] = Absent, op = "create" <=> file' # file,
           Request(h, op, n, c, l), UNCHANGED tmp,
           \/ file' = [file EXCEPT ![n] = Empty] /\ events' = events + 1
           \/ UNCHANGED <<file, events>>
    PROVE IInv'
  <1> DEFINE j == [NoJob EXCEPT !.op = op, !.name = n, !.content = c]
  <1>1. j \in Jobs /\ j.op = op /\ j.name = n /\ j.content = c
    BY NoJobType DEF NoJob, Jobs
  <1>2. /\ job' = [job EXCEPT ![h] = j] /\ pc' = [pc EXCEPT ![h] = l] /\ pc[h] = "idle" /\ up
        /\ UNCHANGED <<row, memory, newest, read, freshRows, freshMemory, up, edits, crashes, fails>>
        /\ requests + edits < MaxChanges /\ requests' = requests + 1
        /\ mixed' = IF Busy(n) THEN mixed \cup {n} ELSE mixed
    BY DEF Request, Goto, copies
  <1> HIDE DEF j
  <1>3. TypeOK /\ h \in Reloaders /\ h # Watcher /\ l \in PCs
    BY WatcherAssumption DEF IInv, Reloaders, PCs
  <1>4. /\ pc' \in [Reloaders -> PCs] /\ job' \in [Reloaders -> Jobs]
        /\ pc'[h] = l /\ job'[h] = j
        /\ \A s \in Reloaders \ {h} : pc'[s] = pc[s] /\ job'[s] = job[s]
    BY <1>1, <1>2, <1>3, Moved
  <1>5. /\ file' \in [Names -> Texts] /\ events' \in Nat /\ tmp' = tmp /\ mixed' \subseteq Names
        /\ requests' \in Nat /\ requests' + edits <= MaxChanges
        /\ \A m \in Names : file'[m] = IF m = n /\ op = "create" THEN Empty ELSE file[m]
    <2>1. requests' \in Nat /\ requests' + edits <= MaxChanges
      <3>1. requests \in Nat /\ edits \in Nat /\ MaxChanges \in Nat
        BY <1>3, TypeParts, StoreBounds
      <3> QED BY <1>2, <3>1
    <2> QED BY <1>2, <1>3, <2>1, NoText, TypeParts DEF Texts
  <1>6. TypeOK'
    BY <1>2, <1>3, <1>4, <1>5, TypeParts DEF Jobs, TypeOK
  <1>7. Places'
    BY <1>1, <1>2, <1>3, <1>4 DEF IInv, Places, Reloaders, Working
  <1>8. mixed \subseteq mixed' /\ (n \notin mixed' => ~Busy(n))
    BY <1>2
  <1>9. OneOnEach'
    BY <1>1, <1>3, <1>4, <1>8 DEF IInv, OneOnEach, Working, Busy, Reloaders
  <1>10. ASSUME NEW g \in Handlers PROVE HasPlaceholder(g)'
    <2>1. CASE g = h
      BY <1>1, <1>4, <1>5, <2>1 DEF HasPlaceholder, Creating
    <2>2. CASE g # h
      <3>1. pc'[g] = pc[g] /\ job'[g] = job[g]
        BY <1>4, <2>2 DEF Reloaders
      <3>2. Creating(g) \/ pc[g] = "rename" => Working(g) /\ job[g].name \in Names
        BY DEF Creating, Working, IInv, Places
      <3>3. (Creating(g) \/ pc[g] = "rename") /\ job[g].name \notin mixed' => job[g].name # n
        BY <1>8, <3>2 DEF Busy, Working
      <3> QED BY <1>5, <1>8, <3>1, <3>2, <3>3 DEF IInv, HasPlaceholder, Creating
    <2> QED BY <2>1, <2>2
  <1>11. Owned'
    <2> SUFFICES ASSUME crashes = 0, NEW m \in Names, file'[m] = Empty
                 PROVE \E g \in Handlers : Creating(g)' /\ job'[g].name = m
      BY <1>2 DEF Owned
    <2>1. CASE m = n /\ op = "create"
      BY <1>1, <1>4, <2>1 DEF Creating
    <2>2. CASE ~(m = n /\ op = "create")
      <3>1. PICK g \in Handlers : Creating(g) /\ job[g].name = m
        BY <1>5, <2>2 DEF IInv, Owned
      <3>2. g # h
        BY <1>2, <3>1 DEF Creating
      <3> QED BY <1>4, <3>1, <3>2 DEF Creating, Reloaders
    <2> QED BY <2>1, <2>2
  <1>12. ReloadsStay
    <2>1. \A r \in Reloaders : pc[r] = "load" => pc'[r] = "load"
      BY <1>2, <1>4
    <2>2. Pending => Pending'
      BY <2>1, <1>3, TypeParts DEF Pending
    <2> QED BY <1>2, <1>4, <1>8, <2>2 DEF ReloadsStay
  <1>13. \A r \in Reloaders : Orphans(r)'
    BY <1>12, OrphansStay DEF IInv
  <1>14. (Settled => Current)'
    <2>1. CASE op = "create"
      <3>1. events' > 0
        BY <1>3, <2>1, TypeParts
      <3> QED BY <3>1, PendingIsFine DEF Pending
    <2>2. CASE op # "create"
      <3>1. \A g \in Handlers : Creating(g)' => Creating(g) /\ job'[g].name = job[g].name
        BY <1>1, <1>4, <2>2 DEF Creating, Reloaders
      <3> QED BY <1>3, <1>12, <2>2, <3>1, CurrentStays DEF IInv
    <2> QED BY <2>1, <2>2
  <1> QED BY <1>6, <1>7, <1>9, <1>10, <1>11, <1>13, <1>14, Together

LEMMA StartedStep ==
    ASSUME IInv, NEW h \in Handlers, Create(h) \/ Update(h) \/ Delete(h)
    PROVE IInv'
  <1>1. CASE Create(h)
    <2>1. PICK n \in Names, c \in Contents :
            /\ file[n] = Absent /\ Request(h, "create", n, c, "save")
            /\ file' = [file EXCEPT ![n] = Empty] /\ events' = events + 1 /\ UNCHANGED tmp
      BY <1>1 DEF Create
    <2>2. file' # file
      BY <2>1, NoText, TypeParts DEF IInv
    <2> QED BY <2>1, <2>2, RequestStep
  <1>2. CASE Update(h)
    <2>1. PICK n \in Names, c \in Contents : Request(h, "update", n, c, "save") /\ UNCHANGED files
      BY <1>2 DEF Update
    <2> QED BY <2>1, RequestStep DEF files
  <1>3. CASE Delete(h)
    <2>1. PICK n \in Names : Request(h, "delete", n, Absent, "remove") /\ UNCHANGED files
      BY <1>3 DEF Delete
    <2> QED BY <2>1, RequestStep DEF files
  <1> QED BY <1>1, <1>2, <1>3

-----------------------------------------------------------------------------
(* A handler at work. *)

(* Where a handler may go from its save: it moves alone, to its reload, to *)
(* the release of its placeholder, or to its answer.                       *)
GoesTo(h, l, j) ==
    /\ pc' = [pc EXCEPT ![h] = l] /\ job' = [job EXCEPT ![h] = j]
    /\ events' \in {events, events + 1}
    /\ UNCHANGED <<copies, up, mixed, requests, edits, crashes>> /\ (Ok \/ Fail)
    /\ \/ /\ l = "rename" /\ pc[h] = "save" /\ j = job[h]
          /\ tmp' = [tmp EXCEPT ![job[h].name] = job[h].content]
          /\ UNCHANGED file
       \/ /\ l = "release" /\ pc[h] \in {"save", "rename"} /\ j = job[h] /\ job[h].op = "create"
          /\ UNCHANGED file
          /\ UNCHANGED tmp \/ tmp' = [tmp EXCEPT ![job[h].name] = Absent]
       \/ /\ l = "idle" /\ ~Creating(h)
          /\ UNCHANGED file
          /\ UNCHANGED tmp \/ tmp' = [tmp EXCEPT ![job[h].name] = Absent]
       \/ /\ l = "idle" /\ Creating(h)
          /\ file' = [file EXCEPT ![job[h].name] = Absent]
          /\ UNCHANGED tmp
       \/ /\ l = "load"
          /\ \E t \in Contents \cup {Absent} : file' = [file EXCEPT ![job[h].name] = t]
          /\ UNCHANGED tmp \/ tmp' = [tmp EXCEPT ![job[h].name] = Absent]

LEMMA WorkStep ==
    ASSUME IInv, NEW h \in Handlers, Working(h),
           NEW l \in {"idle", "rename", "release", "load"}, NEW j \in Jobs, GoesTo(h, l, j)
    PROVE IInv'
  <1> DEFINE n == job[h].name
  <1>1. TypeOK /\ h \in Reloaders /\ h # Watcher /\ l \in PCs /\ n \in Names
        /\ UNCHANGED <<row, memory, newest, read, freshRows, freshMemory, up, mixed, requests, edits, crashes>>
        /\ fails' \in Nat /\ crashes + fails' <= MaxFaults
    BY WatcherAssumption, FailsType DEF IInv, Reloaders, PCs, Places, copies, GoesTo
  <1>2. /\ pc' \in [Reloaders -> PCs] /\ job' \in [Reloaders -> Jobs]
        /\ pc'[h] = l /\ job'[h] = j
        /\ \A s \in Reloaders \ {h} : pc'[s] = pc[s] /\ job'[s] = job[s]
    BY <1>1, Moved DEF GoesTo
  <1>3. pc[h] = "save" => job[h].content \in Contents
    BY DEF IInv, Places
  <1>4. \/ UNCHANGED file
        \/ \E t \in Contents \cup {Absent} : file' = [file EXCEPT ![n] = t]
    BY DEF GoesTo
  <1>5. \/ UNCHANGED tmp
        \/ \E t \in Contents \cup {Absent} : tmp' = [tmp EXCEPT ![n] = t]
    BY <1>3 DEF GoesTo
  <1>6. file' \in [Names -> Texts] /\ tmp' \in [Names -> Contents \cup {Absent}] /\ events' \in Nat
    <2>1. file' \in [Names -> Texts]
      BY <1>1, <1>4, TypeParts DEF Texts
    <2>2. tmp' \in [Names -> Contents \cup {Absent}]
      BY <1>1, <1>5, TypeParts
    <2>3. events' \in Nat
      BY <1>1, TypeParts DEF GoesTo
    <2> QED BY <2>1, <2>2, <2>3
  <1>7. TypeOK'
    BY <1>1, <1>2, <1>6, TypeParts DEF Jobs, TypeOK
  <1>8. up
    BY <1>1 DEF Working, IInv, Places
  <1>9. Places'
    <2>1. ASSUME NEW g \in Handlers
          PROVE /\ Working(g)' => job'[g].name \in Names
                /\ pc'[g] \in {"save", "rename"} => job'[g].content \in Contents
                /\ pc'[g] = "release" => job'[g].op = "create"
      <3>1. CASE g = h
        BY <1>1, <1>2, <1>3, <3>1 DEF GoesTo, Working
      <3>2. CASE g # h
        BY <1>2, <3>2 DEF IInv, Places, Working, Reloaders
      <3> QED BY <3>1, <3>2
    <2>2. pc'[Watcher] \in {"idle", "load", "rows", "orphans"} /\ up'
      BY <1>1, <1>2, <1>8 DEF IInv, Places, Reloaders
    <2> QED BY <2>1, <2>2 DEF Places
  <1>10. Working(h)' => job'[h].name = n
    BY <1>2 DEF Working, GoesTo
  <1>11. OneOnEach'
    BY <1>1, <1>2, <1>10 DEF IInv, OneOnEach, Working, Reloaders
  <1>12. ASSUME NEW g \in Handlers, g # h, Working(g), job[g].name \notin mixed
         PROVE job[g].name # n
    BY <1>12 DEF IInv, OneOnEach
  <1>13. \A m \in Names : m # n => file'[m] = file[m] /\ tmp'[m] = tmp[m]
    BY <1>1, <1>4, <1>5, TypeParts
  <1>14. ASSUME NEW g \in Handlers PROVE HasPlaceholder(g)'
    <2>1. CASE g # h
      <3>1. pc'[g] = pc[g] /\ job'[g] = job[g]
        BY <1>2, <2>1 DEF Reloaders
      <3>2. Creating(g) \/ pc[g] = "rename" => Working(g) /\ job[g].name \in Names
        BY DEF Creating, Working, IInv, Places
      <3> QED BY <1>1, <1>12, <1>13, <2>1, <3>1, <3>2 DEF IInv, HasPlaceholder, Creating
    <2>2. CASE g = h /\ l \in {"idle", "load"}
      BY <1>2, <2>2 DEF HasPlaceholder, Creating
    <2>3. CASE g = h /\ l = "rename"
      BY <1>1, <1>2, <2>3 DEF IInv, HasPlaceholder, Creating, GoesTo
    <2>4. CASE g = h /\ l = "release"
      BY <1>1, <1>2, <2>4 DEF IInv, HasPlaceholder, Creating, GoesTo
    <2> QED BY <2>1, <2>2, <2>3, <2>4
  <1>15. Owned'
    <2> SUFFICES ASSUME crashes = 0, NEW m \in Names, file'[m] = Empty
                 PROVE \E g \in Handlers : Creating(g)' /\ job'[g].name = m
      BY <1>1 DEF Owned
    <2>1. file[m] = Empty
      BY <1>1, <1>4, NoText, TypeParts
    <2>2. PICK g \in Handlers : Creating(g) /\ job[g].name = m
      BY <2>1 DEF IInv, Owned
    <2>3. CASE g # h
      BY <1>2, <2>2, <2>3 DEF Creating, Reloaders
    <2>4. CASE g = h
      <3>1. l \notin {"idle", "load"}
        BY <1>1, <2>2, <2>4, NoText, TypeParts DEF GoesTo
      <3> QED BY <1>2, <2>2, <2>4, <3>1 DEF Creating, GoesTo
    <2> QED BY <2>3, <2>4
  <1>16. ReloadsStay
    <2>1. \A r \in Reloaders : pc[r] = "load" => pc'[r] = "load"
      BY <1>1, <1>2 DEF Working
    <2>2. Pending => Pending'
      BY <2>1, <1>1, TypeParts DEF Pending, GoesTo
    <2>3. \A r \in Reloaders : \/ pc'[r] = pc[r] /\ job'[r] = job[r]
                               \/ {pc[r], pc'[r]} \cap {"rows", "orphans"} = {}
      BY <1>2 DEF Working
    <2> QED BY <1>1, <2>2, <2>3 DEF ReloadsStay
  <1>17. \A r \in Reloaders : Orphans(r)'
    BY <1>16, OrphansStay DEF IInv
  <1>18. (Settled => Current)'
    <2>1. CASE l = "load"
      BY <1>1, <1>2, <2>1, PendingIsFine DEF Pending
    <2>2. CASE l # "load"
      <3>1. \A g \in Handlers : Creating(g)' => Creating(g) /\ job'[g].name = job[g].name
        BY <1>2, <2>2 DEF Creating, Reloaders, GoesTo
      <3>2. \A m \in Names : file'[m] = file[m] \/ (Creating(h) /\ n = m)
        BY <1>1, <1>13, <2>2 DEF GoesTo
      <3> QED BY <1>1, <1>16, <3>1, <3>2, CurrentStays DEF IInv
    <2> QED BY <2>1, <2>2
  <1> QED BY <1>7, <1>9, <1>11, <1>14, <1>15, <1>17, <1>18, Together

LEMMA AtWork ==
    ASSUME IInv, NEW h \in Handlers, Working(h)
    PROVE /\ TypeOK /\ h \in Reloaders /\ job[h] \in Jobs /\ job[h].name \in Names
          /\ job = [job EXCEPT ![h] = job[h]]
          /\ pc[h] = "release" => Creating(h)
          /\ pc[h] \in {"save", "rename"} => job[h].content \in Contents
  BY TypeParts DEF IInv, Reloaders, Places, Creating

LEMMA SaveFailedStep ==
    ASSUME IInv, NEW h \in Handlers, pc[h] \in {"save", "rename"}, SaveFailed(h), Ok \/ Fail,
           UNCHANGED <<file, events, copies, up, mixed, requests, edits, crashes>>,
           UNCHANGED tmp \/ tmp' = [tmp EXCEPT ![job[h].name] = Absent]
    PROVE IInv'
  <1>1. Working(h)
    BY DEF Working
  <1>2. CASE job[h].op = "create"
    <2>1. job' = [job EXCEPT ![h] = job[h]] /\ pc' = [pc EXCEPT ![h] = "release"]
      BY <1>1, <1>2, AtWork DEF SaveFailed, Goto
    <2> QED BY <1>1, <1>2, <2>1, AtWork, WorkStep DEF GoesTo
  <1>3. CASE job[h].op # "create"
    <2>1. job' = [job EXCEPT ![h] = NoJob] /\ pc' = [pc EXCEPT ![h] = "idle"] /\ ~Creating(h)
      BY <1>3 DEF SaveFailed, Answer, Goto, Creating
    <2> QED BY <1>1, <2>1, NoJobType, WorkStep DEF GoesTo
  <1> QED BY <1>2, <1>3

LEMMA SaveStep ==
    ASSUME IInv, NEW h \in Handlers, Save(h)
    PROVE IInv'
  <1>1. pc[h] = "save" /\ Working(h) /\ UNCHANGED <<file, events, copies, up, mixed, requests, edits, crashes>>
        /\ (Ok \/ Fail)
    BY DEF Save, Working
  <1>2. CASE tmp' = [tmp EXCEPT ![job[h].name] = job[h].content] /\ Goto(h, "rename") /\ UNCHANGED job
    <2>1. job' = [job EXCEPT ![h] = job[h]] /\ pc' = [pc EXCEPT ![h] = "rename"]
      BY <1>1, <1>2, AtWork DEF Goto
    <2> QED BY <1>1, <1>2, <2>1, AtWork, WorkStep DEF GoesTo
  <1>3. CASE SaveFailed(h) /\ UNCHANGED tmp
    BY <1>1, <1>3, SaveFailedStep
  <1> QED BY <1>2, <1>3 DEF Save

LEMMA RenameStep ==
    ASSUME IInv, NEW h \in Handlers, Rename(h)
    PROVE IInv'
  <1> DEFINE n == job[h].name
  <1>1. pc[h] = "rename" /\ Working(h) /\ UNCHANGED <<copies, up, mixed, requests, edits, crashes>>
        /\ (Ok \/ Fail)
    BY DEF Rename, Working
  <1>2. CASE /\ job' = [job EXCEPT ![h] = NoJob] /\ pc' = [pc EXCEPT ![h] = "load"]
             /\ file' = [file EXCEPT ![n] = tmp[n]] /\ tmp' = [tmp EXCEPT ![n] = Absent]
             /\ events' = events + 1
    <2>1. tmp[n] \in Contents \cup {Absent}
      BY <1>1, AtWork, TypeParts
    <2> QED BY <1>1, <1>2, <2>1, NoJobType, WorkStep DEF GoesTo
  <1>3. CASE SaveFailed(h) /\ UNCHANGED <<file, events>> /\ tmp' = [tmp EXCEPT ![n] = Absent]
    BY <1>1, <1>3, SaveFailedStep
  <1> QED BY <1>2, <1>3 DEF Rename, Goto

LEMMA ReleaseStep ==
    ASSUME IInv, NEW h \in Handlers, Release(h)
    PROVE IInv'
  <1>1. Working(h) /\ Creating(h)
    BY AtWork DEF Release, Working
  <1>2. /\ job' = [job EXCEPT ![h] = NoJob] /\ pc' = [pc EXCEPT ![h] = "idle"]
        /\ file' = [file EXCEPT ![job[h].name] = Absent]
        /\ UNCHANGED <<tmp, events, copies, up, mixed, requests, edits, crashes>> /\ Ok
    BY DEF Release, Answer, Goto, counts, Ok
  <1> QED BY <1>1, <1>2, NoJobType, WorkStep DEF GoesTo

LEMMA RemoveStep ==
    ASSUME IInv, NEW h \in Handlers, Remove(h)
    PROVE IInv'
  <1>1. Working(h) /\ ~Creating(h) /\ UNCHANGED <<tmp, events, copies, up, mixed, requests, edits, crashes>>
        /\ job' = [job EXCEPT ![h] = NoJob] /\ (Ok \/ Fail)
    BY DEF Remove, Working, Creating, Answer
  <1>2. CASE pc' = [pc EXCEPT ![h] = "idle"] /\ UNCHANGED file
    BY <1>1, <1>2, NoJobType, WorkStep DEF GoesTo
  <1>3. CASE pc' = [pc EXCEPT ![h] = "load"] /\ file' = [file EXCEPT ![job[h].name] = Absent]
    BY <1>1, <1>3, NoJobType, WorkStep DEF GoesTo
  <1> QED BY <1>2, <1>3 DEF Remove, Answer, Goto

-----------------------------------------------------------------------------
(* Reloads. *)

LEMMA NoticeStep ==
    ASSUME IInv, Notice
    PROVE IInv'
  <1>1. TypeOK /\ Watcher \in Reloaders /\ pc[Watcher] = "idle" /\ up /\ pc' = [pc EXCEPT ![Watcher] = "load"]
        /\ UNCHANGED <<file, tmp, row, memory, newest, read, freshRows, freshMemory, up, job, mixed>>
        /\ UNCHANGED <<requests, edits, crashes, fails>>
        /\ events > 0 /\ events' = events - 1
    BY DEF Notice, Goto, counts, copies, Reloaders, IInv
  <1>2. pc' \in [Reloaders -> PCs] /\ pc'[Watcher] = "load"
        /\ \A s \in Reloaders \ {Watcher} : pc'[s] = pc[s]
    BY <1>1, TypeParts DEF PCs
  <1>3. TypeOK'
    BY <1>1, <1>2, TypeParts DEF Jobs, TypeOK
  <1>4. HandlersStay
    BY <1>1, <1>2, WatcherAssumption DEF HandlersStay, Reloaders
  <1>5. Places'
    BY <1>1, <1>2, <1>4, RequestsStay DEF Places
  <1>6. \A r \in Reloaders : Orphans(r)'
    BY <1>1, <1>2 DEF IInv, Orphans
  <1>7. (Settled => Current)'
    BY <1>1, <1>2, PendingIsFine DEF Pending
  <1> QED BY <1>3, <1>4, <1>5, <1>6, <1>7, RequestsStay, Together

(* A reload goes from one of its places to the next.                       *)
LEMMA ReloadMoves ==
    ASSUME IInv, NEW r \in Reloaders, pc[r] \in {"load", "rows", "orphans"},
           NEW l \in {"idle", "rows", "orphans"}, NEW j \in Jobs,
           pc' = [pc EXCEPT ![r] = l], job' = [job EXCEPT ![r] = j],
           UNCHANGED <<files, up, mixed, requests, edits, crashes>>, Ok \/ Fail,
           row' \in [Names -> Texts \cup {IndexName}], memory' \in [Names -> Texts],
           newest' \in Reloaders, read' \in BOOLEAN, freshRows' \subseteq Names, freshMemory' \in BOOLEAN,
           l = "orphans" => \A n \in j.todo : j.cfgs[n] = Absent, (Settled => Current)'
    PROVE IInv'
  <1>1. TypeOK /\ l \in PCs /\ UNCHANGED <<file, tmp, events, up, mixed, requests, edits, crashes>>
        /\ fails' \in Nat /\ crashes + fails' <= MaxFaults
    BY FailsType DEF IInv, files, PCs
  <1>2. /\ pc' \in [Reloaders -> PCs] /\ job' \in [Reloaders -> Jobs]
        /\ pc'[r] = l /\ job'[r] = j
        /\ \A s \in Reloaders \ {r} : pc'[s] = pc[s] /\ job'[s] = job[s]
    BY <1>1, Moved
  <1>3. TypeOK'
    BY <1>1, <1>2, TypeParts DEF Jobs, TypeOK
  <1>4. HandlersStay
    <2>1. \A h \in Handlers : \/ pc'[h] = pc[h] /\ job'[h] = job[h]
                              \/ {pc[h], pc'[h]} \cap {"save", "rename", "release", "remove"} = {}
      BY <1>2 DEF Reloaders
    <2> QED BY <1>1, <2>1 DEF HandlersStay
  <1>5. up /\ pc'[Watcher] \in {"idle", "load", "rows", "orphans"}
    BY <1>2 DEF IInv, Places, Reloaders
  <1>6. Places'
    BY <1>1, <1>4, <1>5, RequestsStay DEF Places
  <1>7. \A q \in Reloaders : Orphans(q)'
    BY <1>2 DEF IInv, Orphans
  <1> QED BY <1>3, <1>4, <1>6, <1>7, RequestsStay, Together

(* A reload is at the rows: those that it leaves current it leaves as they *)
(* were, or it read the files last and wrote what it read.                 *)
LEMMA RowsMove ==
    ASSUME IInv, NEW r \in Reloaders, pc[r] \in {"rows", "orphans"},
           NEW l \in {"rows", "orphans"}, NEW j \in Jobs, j.cfgs = job[r].cfgs,
           pc' = [pc EXCEPT ![r] = l], job' = [job EXCEPT ![r] = j],
           UNCHANGED <<files, memory, newest, read, freshMemory, up, mixed, requests, edits, crashes>>, Ok \/ Fail,
           row' \in [Names -> Texts \cup {IndexName}], freshRows' \subseteq Names,
           \A n \in freshRows' : \/ n \in freshRows /\ row'[n] = row[n]
                                 \/ r = newest /\ row'[n] = job[r].cfgs[n],
           l = "orphans" => \A n \in j.todo : j.cfgs[n] = Absent
    PROVE IInv'
  <1>1. TypeOK /\ l \in PCs /\ UNCHANGED <<file, events>>
    BY DEF IInv, files, PCs
  <1>2. /\ memory' \in [Names -> Texts] /\ newest' \in Reloaders /\ read' \in BOOLEAN /\ freshMemory' \in BOOLEAN
    BY <1>1, TypeParts
  <1>3. /\ pc'[r] = l /\ job'[r] = j
        /\ \A s \in Reloaders \ {r} : pc'[s] = pc[s] /\ job'[s] = job[s]
    BY <1>1, Moved
  <1>4. Reloading' = Reloading /\ r \in Reloading
    BY <1>3 DEF Reloading
  <1>5. ASSUME Settled' PROVE Current'
    <2>1. Settled /\ Current
      BY <1>1, <1>3, <1>5 DEF IInv, Settled, Pending
    <2>2. (\A h \in Handlers : Creating(h) => job[h].name \in mixed)'
      BY <1>3, <2>1 DEF Current, Creating, Reloaders
    <2>3. (freshMemory => \A n \in Names \ mixed : memory[n] = file[n])'
      BY <1>1, <2>1 DEF Current
    <2>4. (\A n \in freshRows \ mixed : row[n] = file[n])'
      BY <1>1, <1>4, <2>1 DEF Current
    <2>5. (newest \in Reloading => \A n \in Names \ mixed : job[newest].cfgs[n] = file[n])'
      BY <1>1, <1>2, <1>3, <1>4, <2>1 DEF Current
    <2> QED BY <2>2, <2>3, <2>4, <2>5 DEF Current
  <1> QED BY <1>2, <1>5, ReloadMoves

LEMMA LoadStep ==
    ASSUME IInv, NEW r \in Reloaders, Load(r)
    PROVE IInv'
  <1>1. TypeOK /\ pc[r] = "load" /\ freshRows' = {} /\ freshMemory' = FALSE
        /\ UNCHANGED <<files, row, memory, up, mixed, requests, edits, crashes>>
    BY DEF Load, IInv
  <1>2. row' \in [Names -> Texts \cup {IndexName}] /\ memory' \in [Names -> Texts]
        /\ file \in [Names -> Texts] /\ job[r] \in Jobs /\ newest \in Reloaders
    BY <1>1, TypeParts
  <1>3. CASE Answer(r) /\ (Ok \/ Fail) /\ read' = FALSE /\ newest' = newest
    <2>1. pc' = [pc EXCEPT ![r] = "idle"] /\ job' = [job EXCEPT ![r] = NoJob]
      BY <1>3 DEF Answer, Goto
    <2>2. (Settled => Current)'
      BY <1>3 DEF Settled
    <2> QED BY <1>1, <1>2, <1>3, <2>1, <2>2, NoJobType, ReloadMoves
  <1>4. CASE /\ Ok /\ Loadable /\ Goto(r, "rows") /\ newest' = r /\ read' = TRUE
             /\ job' = [job EXCEPT ![r].cfgs = file, ![r].todo = {n \in Names : file[n] # Absent}]
    <2> DEFINE j == [job[r] EXCEPT !.cfgs = file, !.todo = {n \in Names : file[n] # Absent}]
    <2>1. j \in Jobs /\ j.cfgs = file
      BY <1>2 DEF Jobs
    <2>2. pc' = [pc EXCEPT ![r] = "rows"] /\ job' = [job EXCEPT ![r] = j]
      <3>1. job' = [job EXCEPT ![r] = j]
        BY <1>1, <1>2, <1>4, TypeParts DEF Jobs
      <3> QED BY <1>4, <3>1 DEF Goto
    <2> HIDE DEF j
    <2>3. /\ pc'[r] = "rows" /\ job'[r] = j
          /\ \A s \in Reloaders \ {r} : pc'[s] = pc[s] /\ job'[s] = job[s]
      BY <1>1, <2>1, <2>2, Moved DEF PCs
    <2>4. ASSUME Settled' PROVE Current'
      <3>1. file' = file
        BY <1>1 DEF files
      <3>2. ASSUME NEW h \in Handlers, Creating(h), job[h].name \notin mixed PROVE FALSE
        <4>1. job[h].name \in Names /\ file[job[h].name] = Empty
          BY <3>2 DEF IInv, HasPlaceholder, Places, Creating, Working
        <4> QED BY <1>4, <4>1, LoadableFiles
      <3>3. (\A h \in Handlers : Creating(h) => job[h].name \in mixed)'
        BY <1>1, <2>3, <3>2 DEF Creating, Reloaders
      <3>4. (newest \in Reloading => \A n \in Names \ mixed : job[newest].cfgs[n] = file[n])'
        BY <1>4, <2>1, <2>3, <3>1
      <3> QED BY <1>1, <3>3, <3>4 DEF Current
    <2> QED BY <1>1, <1>2, <1>4, <2>1, <2>2, <2>4, ReloadMoves
  <1> QED BY <1>3, <1>4 DEF Load

(* A reload has dealt with one row. *)
LEMMA RowDone ==
    ASSUME IInv, NEW r \in Reloaders, pc[r] \in {"rows", "orphans"}, NEW n \in Names,
           job' = [job EXCEPT ![r].todo = @ \ {n}],
           UNCHANGED <<files, memory, newest, read, freshMemory, up, pc, mixed, requests, edits, crashes>>, Ok \/ Fail,
           \/ row' = [row EXCEPT ![n] = job[r].cfgs[n]] /\ Written(r, n)
           \/ UNCHANGED <<row, freshRows>>
    PROVE IInv'
  <1>1. TypeOK /\ row \in [Names -> Texts \cup {IndexName}] /\ freshRows \subseteq Names
        /\ job \in [Reloaders -> Jobs] /\ pc \in [Reloaders -> PCs]
    BY TypeParts DEF IInv
  <1> DEFINE j == [job[r] EXCEPT !.todo = @ \ {n}]
  <1>2. job[r] \in Jobs /\ job[r].cfgs \in [Names -> Texts]
    BY <1>1, JobFields
  <1>3. j \in Jobs /\ j.cfgs = job[r].cfgs /\ j.todo = job[r].todo \ {n}
    BY <1>2 DEF Jobs
  <1>4. job' = [job EXCEPT ![r] = j]
    BY <1>1, <1>2 DEF Jobs
  <1> HIDE DEF j
  <1>5. pc' = [pc EXCEPT ![r] = pc[r]]
    BY <1>1
  <1>6. row' \in [Names -> Texts \cup {IndexName}] /\ freshRows' \subseteq Names
    BY <1>1, <1>2 DEF Written
  <1>7. \A m \in freshRows' : \/ m \in freshRows /\ row'[m] = row[m]
                              \/ r = newest /\ row'[m] = job[r].cfgs[m]
    BY <1>1 DEF Written
  <1>8. pc[r] = "orphans" => \A m \in j.todo : j.cfgs[m] = Absent
    BY <1>3 DEF IInv, Orphans
  <1> QED BY <1>3, <1>4, <1>5, <1>6, <1>7, <1>8, RowsMove

LEMMA StoreRowStep ==
    ASSUME IInv, NEW r \in Reloaders, StoreRow(r)
    PROVE IInv'
  <1>1. PICK n \in job[r].todo :
          /\ job' = [job EXCEPT ![r].todo = @ \ {n}] /\ (Ok \/ Fail)
          /\ \/ row' = [row EXCEPT ![n] = job[r].cfgs[n]] /\ Written(r, n)
             \/ UNCHANGED <<row, freshRows>>
    BY DEF StoreRow
  <1>2. n \in Names
    BY <1>1, TypeParts, JobFields DEF IInv
  <1>3. pc[r] = "rows" /\ UNCHANGED <<files, memory, newest, read, freshMemory, up, pc, mixed, requests, edits, crashes>>
    BY DEF StoreRow
  <1> QED BY <1>1, <1>2, <1>3, RowDone

LEMMA DeleteRowStep ==
    ASSUME IInv, NEW r \in Reloaders, DeleteRow(r)
    PROVE IInv'
  <1>1. PICK n \in job[r].todo :
          /\ job' = [job EXCEPT ![r].todo = @ \ {n}] /\ (Ok \/ Fail)
          /\ \/ row' = [row EXCEPT ![n] = Absent] /\ Written(r, n)
             \/ UNCHANGED <<row, freshRows>>
    BY DEF DeleteRow
  <1>2. n \in Names
    BY <1>1, TypeParts, JobFields DEF IInv
  <1>3. pc[r] = "orphans" /\ UNCHANGED <<files, memory, newest, read, freshMemory, up, pc, mixed, requests, edits, crashes>>
    BY DEF DeleteRow
  <1>4. job[r].cfgs[n] = Absent
    BY <1>1, <1>3 DEF IInv, Orphans
  <1> QED BY <1>1, <1>2, <1>3, <1>4, RowDone

LEMMA FindRowsStep ==
    ASSUME IInv, NEW r \in Reloaders, FindRows(r)
    PROVE IInv'
  <1> DEFINE gone == {n \in Names : job[r].cfgs[n] = Absent}
  <1>1. TypeOK /\ row \in [Names -> Texts \cup {IndexName}] /\ freshRows \subseteq Names
        /\ job \in [Reloaders -> Jobs] /\ job[r] \in Jobs
    BY TypeParts DEF IInv
  <1>2. /\ pc[r] = "rows" /\ job[r].todo = {} /\ pc' = [pc EXCEPT ![r] = "orphans"]
        /\ UNCHANGED <<files, row, memory, newest, read, freshMemory, up, mixed, requests, edits, crashes>>
    BY DEF FindRows, Goto
  <1>3. CASE /\ Ok /\ job' = [job EXCEPT ![r].todo = {n \in gone : row[n] # Absent}]
             /\ freshRows' = IF r = newest THEN freshRows \cup {n \in gone : row[n] = Absent} ELSE freshRows
    <2> DEFINE j == [job[r] EXCEPT !.todo = {n \in gone : row[n] # Absent}]
    <2>1. j \in Jobs /\ j.cfgs = job[r].cfgs /\ j.todo = {n \in gone : row[n] # Absent}
      BY <1>1 DEF Jobs
    <2>2. job' = [job EXCEPT ![r] = j]
      BY <1>1, <1>3 DEF Jobs
    <2> HIDE DEF j
    <2>3. \A m \in freshRows' : \/ m \in freshRows /\ row'[m] = row[m]
                                \/ r = newest /\ row'[m] = job[r].cfgs[m]
      BY <1>2, <1>3
    <2>4. \A m \in j.todo : j.cfgs[m] = Absent
      BY <2>1
    <2>5. row' \in [Names -> Texts \cup {IndexName}] /\ freshRows' \subseteq Names
      BY <1>1, <1>2, <1>3
    <2> HIDE DEF gone
    <2> QED BY <1>2, <1>3, <2>1, <2>2, <2>3, <2>4, <2>5, RowsMove
  <1>4. CASE Fail /\ UNCHANGED <<job, freshRows>>
    <2>1. job' = [job EXCEPT ![r] = job[r]] /\ \A n \in job[r].todo : job[r].cfgs[n] = Absent
      BY <1>1, <1>2, <1>4
    <2> QED BY <1>1, <1>2, <1>4, <2>1, RowsMove
  <1> QED BY <1>3, <1>4 DEF FindRows

LEMMA SetIndexCfgsStep ==
    ASSUME IInv, NEW r \in Reloaders, SetIndexCfgs(r)
    PROVE IInv'
  <1>1. TypeOK /\ pc[r] = "orphans" /\ memory' = job[r].cfgs /\ freshMemory' = (r = newest)
        /\ pc' = [pc EXCEPT ![r] = "idle"] /\ job' = [job EXCEPT ![r] = NoJob] /\ Ok
        /\ UNCHANGED <<files, row, newest, read, freshRows, up, mixed, requests, edits, crashes>>
    BY DEF SetIndexCfgs, IInv, Goto, Answer, counts, Ok
  <1>2. /\ row' \in [Names -> Texts \cup {IndexName}] /\ memory' \in [Names -> Texts] /\ freshRows' \subseteq Names
        /\ newest' \in Reloaders /\ read' \in BOOLEAN /\ freshMemory' \in BOOLEAN /\ UNCHANGED <<file, events>>
    BY <1>1, TypeParts, JobFields DEF files
  <1>3. pc'[r] = "idle" /\ \A s \in Reloaders \ {r} : pc'[s] = pc[s] /\ job'[s] = job[s]
    BY <1>1, TypeParts
  <1>4. Reloading' = Reloading \ {r} /\ r \in Reloading
    BY <1>1, <1>3 DEF Reloading
  <1>5. ASSUME Settled' PROVE Current'
    <2>1. Settled /\ Current
      BY <1>1, <1>2, <1>3, <1>5 DEF IInv, Settled, Pending
    <2>2. (\A h \in Handlers : Creating(h) => job[h].name \in mixed)'
      BY <1>1, <1>3, <2>1 DEF Current, Creating, Reloaders
    <2>3. (freshMemory => \A n \in Names \ mixed : memory[n] = file[n])'
      BY <1>1, <1>2, <1>4, <2>1 DEF Current
    <2>4. (\A n \in freshRows \ mixed : row[n] = file[n])'
      BY <1>1, <1>2, <2>1 DEF Current
    <2>5. (newest \in Reloading => \A n \in Names \ mixed : job[newest].cfgs[n] = file[n])'
      BY <1>1, <1>2, <1>3, <1>4, <2>1 DEF Current
    <2> QED BY <2>2, <2>3, <2>4, <2>5 DEF Current
  <1> QED BY <1>1, <1>2, <1>5, NoJobType, ReloadMoves

(* A run inserts a row, which is no configuration: it is not current.      *)
LEMMA CreateWriteIndexStep ==
    ASSUME IInv, NEW n \in Names, CreateWriteIndex(n)
    PROVE IInv'
  <1>1. TypeOK /\ row' = [row EXCEPT ![n] = IndexName] /\ freshRows' = freshRows \ {n}
        /\ UNCHANGED <<file, tmp, events, memory, newest, read, freshMemory, up, pc, job, mixed>>
        /\ UNCHANGED <<requests, edits, crashes, fails>>
    BY DEF CreateWriteIndex, IInv, files, counts
  <1>2. TypeOK'
    BY <1>1, TypeParts DEF Jobs, TypeOK
  <1>3. HandlersStay
    BY <1>1 DEF HandlersStay
  <1>4. Places' /\ \A r \in Reloaders : Orphans(r)'
    BY <1>1 DEF IInv, Places, Orphans, Working
  <1>5. Reloading' = Reloading /\ (Settled' => Settled)
    BY <1>1 DEF Reloading, Settled, Pending
  <1>6. (Settled => Current)'
    <2>1. \A m \in freshRows' : m \in freshRows /\ row'[m] = row[m]
      BY <1>1, TypeParts
    <2> QED BY <1>1, <1>5, <2>1 DEF IInv, Current, Creating
  <1> QED BY <1>2, <1>3, <1>4, <1>6, RequestsStay, Together

-----------------------------------------------------------------------------
(* Edits, crashes and restarts. *)

LEMMA EditStep ==
    ASSUME IInv, NEW n \in Names, NEW c \in Contents, Edit(n, c)
    PROVE IInv'
  <1>1. TypeOK /\ file' = [file EXCEPT ![n] = c] /\ events' = (IF up THEN events + 1 ELSE 0)
        /\ mixed' = (IF Busy(n) THEN mixed \cup {n} ELSE mixed)
        /\ edits < MaxEdits /\ requests + edits < MaxChanges /\ edits' = edits + 1
        /\ UNCHANGED <<tmp, row, memory, newest, read, freshRows, freshMemory, up, pc, job, requests, crashes, fails>>
    BY DEF Edit, IInv, copies
  <1>2. file' \in [Names -> Texts] /\ events' \in Nat
        /\ \A m \in Names : file'[m] = IF m = n THEN c ELSE file[m]
    BY <1>1, TypeParts DEF Texts
  <1>3. edits' \in 0..MaxEdits /\ requests + edits' <= MaxChanges
    <2>1. edits \in Nat /\ requests \in Nat /\ MaxEdits \in Nat /\ MaxChanges \in Nat
      BY <1>1, TypeParts, StoreBounds
    <2> QED BY <1>1, <2>1
  <1>4. TypeOK'
    BY <1>1, <1>2, <1>3, TypeParts DEF Jobs, TypeOK
  <1>5. Places'
    BY <1>1 DEF IInv, Places, Working
  <1>6. mixed \subseteq mixed' /\ (n \notin mixed' => ~Busy(n))
    BY <1>1
  <1>7. OneOnEach'
    BY <1>1, <1>6 DEF IInv, OneOnEach, Working
  <1>8. ASSUME NEW h \in Handlers PROVE HasPlaceholder(h)'
    <2>1. Creating(h) => Working(h) /\ job[h].name \in Names
      BY DEF Creating, Working, IInv, Places
    <2>2. Creating(h) /\ job[h].name \notin mixed' => job[h].name # n
      BY <1>6, <2>1 DEF Busy, Working
    <2> QED BY <1>1, <1>2, <1>6, <2>1, <2>2 DEF IInv, HasPlaceholder, Creating
  <1>9. Owned'
    BY <1>1, <1>2, NoText DEF IInv, Owned, Creating
  <1>10. \A r \in Reloaders : Orphans(r)'
    BY <1>1 DEF IInv, Orphans
  <1>11. (Settled => Current)'
    BY <1>1, TypeParts DEF Settled, Pending
  <1> QED BY <1>4, <1>5, <1>7, <1>8, <1>9, <1>10, <1>11, Together

(* Nobody works on anything while the process is down.                     *)
LEMMA DownStep ==
    ASSUME TypeOK', \A r \in Reloaders : pc'[r] = "idle", ~up' => events' = 0,
           Owned', up' => memory' = file' /\ \A n \in freshRows' : row'[n] = file'[n]
    PROVE IInv'
  <1>1. Watcher \in Reloaders /\ Handlers \subseteq Reloaders
    BY DEF Reloaders
  <1>2. Places' /\ OneOnEach' /\ (\A h \in Handlers : HasPlaceholder(h)' /\ ~Creating(h)')
    BY <1>1 DEF Places, OneOnEach, HasPlaceholder, Creating, Working
  <1>3. Reloading' = {} /\ \A r \in Reloaders : Orphans(r)'
    BY DEF Reloading, Orphans
  <1>4. (Settled => Current)'
    BY <1>2, <1>3 DEF Settled, Current
  <1> QED BY <1>2, <1>3, <1>4, Together

LEMMA CrashStep ==
    ASSUME IInv, Crash
    PROVE IInv'
  <1>1. TypeOK /\ crashes + fails < MaxFaults /\ crashes' = crashes + 1 /\ up' = FALSE /\ events' = 0
        /\ memory' = NoConfigs /\ mixed' = {} /\ UNCHANGED <<file, tmp, row, requests, edits, fails>>
        /\ pc' = [r \in Reloaders |-> "idle"] /\ job' = [r \in Reloaders |-> NoJob]
        /\ newest' = Watcher /\ read' = FALSE /\ freshRows' = {} /\ freshMemory' = FALSE
    BY DEF Crash, IInv
  <1>2. crashes' \in Nat /\ crashes' + fails <= MaxFaults /\ crashes' # 0
    <2>1. crashes \in Nat /\ fails \in Nat /\ MaxFaults \in Nat
      BY <1>1, TypeParts, StoreBounds
    <2> QED BY <1>1, <2>1
  <1>3. memory' \in [Names -> Texts]
    BY <1>1 DEF NoConfigs, Texts
  <1>4. pc' \in [Reloaders -> PCs] /\ job' \in [Reloaders -> Jobs] /\ newest' \in Reloaders
    BY <1>1, NoJobType DEF PCs, Reloaders
  <1>5. TypeOK'
    BY <1>1, <1>2, <1>3, <1>4, TypeParts DEF Jobs, TypeOK
  <1> QED BY <1>1, <1>2, <1>5, DownStep DEF Owned

LEMMA StartStep ==
    ASSUME IInv, Start
    PROVE IInv'
  <1>1. PICK failed \in SUBSET Names :
          /\ row' = [n \in Names |-> IF n \in failed THEN row[n] ELSE file[n]]
          /\ freshRows' = Names \ failed
    BY DEF Start
  <1>2. TypeOK /\ ~up /\ Loadable /\ up' = TRUE /\ memory' = file
        /\ newest' = Watcher /\ read' = TRUE /\ freshMemory' = TRUE
        /\ UNCHANGED <<file, tmp, events, pc, job, mixed, requests, edits, crashes, fails>>
    BY DEF Start, IInv, files, counts
  <1>3. row' \in [Names -> Texts \cup {IndexName}] /\ \A n \in freshRows' : row'[n] = file'[n]
    BY <1>1, <1>2, TypeParts
  <1>4. TypeOK'
    BY <1>1, <1>2, <1>3, TypeParts DEF Jobs, TypeOK, Reloaders
  <1>5. \A r \in Reloaders : pc'[r] = "idle"
    BY <1>2 DEF IInv, Places
  <1>6. Owned'
    BY <1>2, LoadableFiles DEF Owned
  <1> QED BY <1>2, <1>3, <1>4, <1>5, <1>6, DownStep

LEMMA RepairStep ==
    ASSUME IInv, NEW n \in Names, Repair(n)
    PROVE IInv'
  <1>1. TypeOK /\ ~up /\ file' = [file EXCEPT ![n] = Absent]
        /\ UNCHANGED <<tmp, events, row, memory, newest, read, freshRows, freshMemory, up, pc, job, mixed>>
        /\ UNCHANGED <<requests, edits, crashes, fails>>
    BY DEF Repair, IInv, counts, copies
  <1>2. file' \in [Names -> Texts] /\ \A m \in Names : file'[m] = IF m = n THEN Absent ELSE file[m]
    BY <1>1, TypeParts DEF Texts
  <1>3. TypeOK'
    BY <1>1, <1>2, TypeParts DEF Jobs, TypeOK
  <1>4. events' = 0 /\ \A r \in Reloaders : pc'[r] = "idle"
    BY <1>1 DEF IInv, Places
  <1>5. Owned'
    BY <1>1, <1>2, NoText DEF IInv, Owned, Creating
  <1> QED BY <1>1, <1>3, <1>4, <1>5, DownStep

-----------------------------------------------------------------------------
(* The invariant. *)

LEMMA InvInit == Init => IInv
  <1> SUFFICES ASSUME Init PROVE IInv
    OBVIOUS
  <1>1. file \in [Names -> Texts] /\ NoConfigs \in [Names -> Texts]
        /\ tmp \in [Names -> Contents \cup {Absent}]
    BY DEF Init, Texts, NoConfigs
  <1>2. TypeOK
    <2>1. row \in [Names -> Texts \cup {IndexName}] /\ memory \in [Names -> Texts]
      BY <1>1 DEF Init
    <2>2. pc \in [Reloaders -> PCs] /\ job \in [Reloaders -> Jobs] /\ Watcher \in Reloaders
      BY NoJobType DEF Init, PCs, Reloaders
    <2> QED BY <1>1, <2>1, <2>2, StoreBounds, TypeParts DEF Init
  <1>3. Watcher \in Reloaders /\ Handlers \subseteq Reloaders /\ \A r \in Reloaders : pc[r] = "idle"
    BY DEF Init, Reloaders
  <1>4. Places /\ OneOnEach /\ (\A h \in Handlers : HasPlaceholder(h) /\ ~Creating(h))
    BY <1>3 DEF Init, Places, OneOnEach, HasPlaceholder, Creating, Working
  <1>5. Owned
    BY NoText DEF Init, Owned
  <1>6. Reloading = {} /\ \A r \in Reloaders : Orphans(r)
    BY <1>3 DEF Reloading, Orphans
  <1>7. Current
    BY <1>4, <1>6 DEF Init, Current
  <1> QED BY <1>2, <1>4, <1>5, <1>6, <1>7 DEF IInv

LEMMA InvStep == IInv /\ [Next]_vars => IInv'
  <1> SUFFICES ASSUME IInv, [Next]_vars PROVE IInv'
    OBVIOUS
  <1>1. CASE UNCHANGED vars
    <2>1. UNCHANGED <<file, tmp, events, row, memory, newest, read, freshRows, freshMemory>>
          /\ UNCHANGED <<up, pc, job, mixed, requests, edits, crashes, fails>>
      BY <1>1 DEF vars, files, copies, counts
    <2>2. TypeOK' /\ Places' /\ OneOnEach' /\ (\A h \in Handlers : HasPlaceholder(h)') /\ Owned'
      BY <2>1 DEF IInv, TypeOK, Places, OneOnEach, HasPlaceholder, Owned, Working, Creating
    <2>3. ReloadsStay /\ (\A h \in Handlers : Creating(h)' => Creating(h))
      BY <2>1 DEF ReloadsStay, Pending, Creating
    <2>4. \A r \in Reloaders : Orphans(r)'
      BY <2>3, OrphansStay DEF IInv
    <2>5. (Settled => Current)'
      BY <2>1, <2>3, CurrentStays DEF IInv
    <2> QED BY <2>2, <2>4, <2>5, Together
  <1>2. ASSUME NEW h \in Handlers, Handle(h) PROVE IInv'
    BY <1>2, StartedStep, SaveStep, RenameStep, ReleaseStep, RemoveStep DEF Handle
  <1>3. ASSUME NEW r \in Reloaders, Reload(r) PROVE IInv'
    BY <1>3, LoadStep, StoreRowStep, FindRowsStep, DeleteRowStep, SetIndexCfgsStep DEF Reload
  <1> QED BY <1>1, <1>2, <1>3, NoticeStep, EditStep, CrashStep, StartStep, RepairStep, CreateWriteIndexStep DEF Next

(* A create owns its placeholder as long as nobody crosses it, and with no *)
(* reload to come, what the reload that read the files last has, and what  *)
(* it wrote last to the table and to memory, is what they say, however the *)
(* reloads overlap and whichever rows SQLite refuses (server.go:388-516,   *)
(* config.go:369-400, watcher.go:38-73).                                   *)
THEOREM Invariant == Spec => []IInv
  BY InvInit, InvStep, PTL DEF Spec

(* Every variable has its type (server.go, config.go: the files, the table *)
(* index_configs and the maps in memory).                                  *)
THEOREM TypeCorrect == Spec => []TypeOK
  <1>1. IInv => TypeOK
    BY DEF IInv
  <1> QED BY <1>1, Invariant, PTL

(* When nothing is under way, what the reload that read the files last was *)
(* also the last to write agrees with them: whatever changed a file was    *)
(* followed by a reload (server.go:481-516, watcher.go:38-73).             *)
THEOREM CopiesAgree == Spec => []Agreement
  <1>1. IInv => Agreement
    <2> SUFFICES ASSUME IInv, Quiet, read PROVE Agreement
      BY DEF Agreement
    <2>1. Settled
      BY DEF Settled, Pending, Quiet
    <2> QED BY <2>1 DEF IInv, Current, Agreement
  <1> QED BY <1>1, Invariant, PTL

(* Unless the process ended, no placeholder is left once every request is  *)
(* answered (server.go:400-405).                                           *)
THEOREM PlaceholdersGo == Spec => []PlaceholderGone
  <1>1. IInv => PlaceholderGone
    BY DEF IInv, Owned, PlaceholderGone, Quiet, Creating, Reloaders
  <1> QED BY <1>1, Invariant, PTL

(* A create does not replace a configuration that is there                 *)
(* (server.go:394-398): until it saves, the file of its name is the        *)
(* placeholder it made, or nobody's.                                       *)
THEOREM CreatesNeverReplace == Spec => CreateNeverReplaces
  <1>1. IInv /\ [Next]_vars =>
         \A h \in Handlers : pc[h] \in {"idle", "rename", "release"} =>
           \A n \in Names \ mixed' :
              (pc'[h] # pc[h] /\ "create" \in {job[h].op, job'[h].op} /\ file'[n] # file[n])
                => file[n] \in {Absent, Empty}
    <2> SUFFICES ASSUME IInv, [Next]_vars, NEW h \in Handlers, pc[h] \in {"idle", "rename", "release"},
                        NEW n \in Names, n \notin mixed', pc'[h] # pc[h],
                        "create" \in {job[h].op, job'[h].op}, file'[n] # file[n]
                 PROVE file[n] \in {Absent, Empty}
      OBVIOUS
    <2>1. TypeOK /\ Next /\ h \in Reloaders
      BY DEF IInv, vars, files, Reloaders
    <2>2. CASE Create(h)
      <3>1. PICK m \in Names : file[m] = Absent /\ file' = [file EXCEPT ![m] = Empty]
        BY <2>2 DEF Create
      <3> QED BY <2>1, <3>1, TypeParts
    <2>3. CASE Rename(h) \/ Release(h)
      <3>1. n = job[h].name /\ mixed' = mixed
        BY <2>1, <2>3, TypeParts DEF Rename, Release, SaveFailed, Answer, files
      <3>2. Creating(h) => file[n] = Empty
        BY <3>1 DEF IInv, HasPlaceholder
      <3>3. job'[h] = NoJob
        BY <2>1, <2>3, TypeParts DEF Rename, Release, SaveFailed, Answer, files
      <3>4. job[h].op = "create"
        BY <3>3, NoJobType
      <3> QED BY <2>3, <3>2, <3>4 DEF Creating, Rename, Release
    <2>4. ASSUME Create(h) \/ Rename(h) \/ Release(h) => FALSE
          PROVE FALSE
      <3>1. ASSUME NEW g \in Handlers, Handle(g) PROVE FALSE
        <4>1. CASE g = h
          BY <2>4, <3>1, <4>1 DEF Handle, Update, Delete, Save, Remove, files
        <4>2. CASE g # h
          <5>1. \E l : pc' = [pc EXCEPT ![g] = l]
            BY <3>1 DEF Handle, Create, Update, Delete, Save, Rename, Release, Remove,
                        Request, SaveFailed, Answer, Goto
          <5> QED BY <2>1, <4>2, <5>1, TypeParts
        <4> QED BY <4>1, <4>2
      <3>2. ASSUME NEW m \in Names, CreateWriteIndex(m) \/ Repair(m) \/ \E c \in Contents : Edit(m, c) PROVE FALSE
        BY <3>2 DEF Repair, Edit, CreateWriteIndex
      <3>3. ASSUME NEW r \in Reloaders, Reload(r) PROVE FALSE
        BY <3>3 DEF Reload, Load, StoreRow, FindRows, DeleteRow, SetIndexCfgs, files
      <3> QED BY <2>1, <3>1, <3>2, <3>3 DEF Next, Notice, Crash, Start, files
    <2> QED BY <2>2, <2>3, <2>4
  <1> QED BY <1>1, Invariant, PTL DEF Spec, CreateNeverReplaces

-----------------------------------------------------------------------------
(* How far CanStart holds. *)

(* Unless somebody edited one, every file with a text was validated.       *)
Validated == edits = 0 => \A n \in Names :
    /\ file[n] \in Contents => Saveable(file[n])
    /\ tmp[n] \in Contents => Saveable(tmp[n])

LEMMA ValidatedStep == TypeOK /\ Validated /\ [Next]_vars => Validated'
  <1> DEFINE Fine(f, t, n) == /\ f[n] \in Contents => Saveable(f[n])
                              /\ t[n] \in Contents => Saveable(t[n])
  <1> SUFFICES ASSUME TypeOK, Validated, [Next]_vars, edits' = 0, NEW n \in Names
               PROVE Fine(file', tmp', n)
    BY DEF Validated
  <1>1. /\ edits \in Nat /\ file \in [Names -> Texts] /\ tmp \in [Names -> Contents \cup {Absent}]
        /\ Absent \notin Contents /\ Empty \notin Contents
    BY StoreBounds, NoText DEF TypeOK
  <1>2. CASE \E m \in Names, c \in Contents : Edit(m, c)
    BY <1>1, <1>2 DEF Edit
  <1>3. CASE ~ \E m \in Names, c \in Contents : Edit(m, c)
    <2>1. edits' = edits
      BY <1>3 DEF Next, Handle, Create, Update, Delete, Request, Save, Rename, Release, Remove, Notice, Reload, Load,
                  StoreRow, FindRows, DeleteRow, SetIndexCfgs, CreateWriteIndex, Crash, Start, Repair, vars, counts
    <2>2. Fine(file, tmp, n)
      BY <2>1 DEF Validated
    <2>3. /\ file'[n] \in {file[n], Absent, Empty, tmp[n]}
          /\ tmp'[n] \in {tmp[n], Absent} \/ Saveable(tmp'[n])
      <3>1. ASSUME NEW h \in Handlers, Handle(h)
            PROVE /\ file'[n] \in {file[n], Absent, Empty, tmp[n]}
                  /\ tmp'[n] \in {tmp[n], Absent} \/ Saveable(tmp'[n])
        <4>1. CASE Create(h) \/ Update(h) \/ Delete(h)
          BY <1>1, <4>1 DEF Create, Update, Delete, files
        <4>2. CASE Save(h)
          BY <1>1, <4>2 DEF Save
        <4>3. CASE Rename(h)
          BY <1>1, <4>3 DEF Rename, files
        <4>4. CASE Release(h) \/ Remove(h)
          BY <1>1, <4>4 DEF Release, Remove
        <4> QED BY <3>1, <4>1, <4>2, <4>3, <4>4 DEF Handle
      <3>2. CASE ~ \E h \in Handlers : Handle(h)
        BY <1>1, <1>3, <3>2 DEF Next, Notice, Reload, Load, StoreRow, FindRows, DeleteRow, SetIndexCfgs, CreateWriteIndex,
                                    Crash, Start, Repair, vars, files
      <3> QED BY <3>1, <3>2
    <2> HIDE DEF Saveable
    <2> QED BY <1>1, <2>2, <2>3
  <1> QED BY <1>2, <1>3

(* The one way in which what was saved cannot be loaded (CanStart): until  *)
(* the process ends or somebody edits a file, every configuration that     *)
(* LoadIndexConfig refuses is a text that has no name of its own, which    *)
(* SaveIndexConfig gave it for the validation only (config.go:338-372).    *)
THEOREM OnlyNamesAreMissing ==
    Spec => [](Quiet /\ crashes = 0 /\ edits = 0 =>
                 \A n \in Names : file[n] # Absent /\ ~IsLoadable(file[n]) => file[n] \in Contents /\ ~file[n].named)
  <1>1. Init => Validated
    BY NoText DEF Init, Validated, NoConfigs, IsLoadable, Saveable
  <1>2. TypeOK /\ Validated /\ [Next]_vars => Validated'
    BY ValidatedStep
  <1>3. TypeOK /\ Validated /\ PlaceholderGone =>
          (Quiet /\ crashes = 0 /\ edits = 0 =>
             \A n \in Names : file[n] # Absent /\ ~IsLoadable(file[n]) => file[n] \in Contents /\ ~file[n].named)
    BY DEF TypeOK, Texts, Validated, PlaceholderGone, IsLoadable, Saveable
  <1> QED BY <1>1, <1>2, <1>3, TypeCorrect, PlaceholdersGo, PTL DEF Spec
=============================================================================

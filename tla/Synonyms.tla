------------------------------ MODULE Synonyms ------------------------------
(***************************************************************************)
(* Synonyms (internal/api/server.go): rows of a table, a map in memory for *)
(* searches, and a dictionary file Zinc loads.  A request changes a row,   *)
(* reads the table into the map, then reads it again, writes the file      *)
(* through the one shared name `.tmp` and tells Zinc to load it.  Nothing  *)
(* orders the requests.                                                    *)
(*                                                                         *)
(* A file is an inode: a name is moved, a handler writes on to the inode   *)
(* it opened.  Of a row its word and its list matter: a list is bad (not   *)
(* JSON), empty, or a value.  Requests refused before they change anything *)
(* are left out.                                                           *)
(***************************************************************************)
EXTENDS Naturals, FiniteSets, FiniteSetsExt, Functions

CONSTANTS
    Words, Lists,  \* words; lists that are neither bad nor empty
    Handlers,      \* goroutines of requests
    MaxRows,       \* bound: rows ever created
    MaxRequests,   \* bound: requests
    MaxFails,      \* bound: calls that fail
    MaxCrashes     \* bound: restarts

ASSUME HandlersAssumption == IsFiniteSet(Handlers)
ASSUME SynonymBounds == MaxRows \in Nat /\ MaxRequests \in Nat /\ MaxFails \in Nat /\ MaxCrashes \in Nat

VARIABLES
    table, lastId,   \* rows of synonyms; the last id given
    memory,          \* Server.synonyms
    file, tmp,       \* the inodes behind cfg.Synonyms and its `.tmp`, None if there is none
    content,         \* what is in each inode
    zinc,            \* the dictionary Zinc has loaded
    pc, job,         \* each handler: where it is, and its locals
    (* history *)
    trust,           \* the copies last written by a request that neither failed nor was crossed
    shared,          \* an export began to write while another was between write and rename
    requests, fails, crashes

store == <<table, lastId>>
disk == <<file, tmp, content>>
bounds == <<requests, fails, crashes>>
vars == <<store, memory, disk, zinc, pc, job, trust, shared, bounds>>

Ids == 1..MaxRows
Copies == {"memory", "file", "zinc"}
Rows == [word : Words, list : Lists \cup {"bad", "empty"}]
None == 0
Inodes == 1..(Cardinality(Handlers) + 2)

(* loadSynonyms: a later row of the same word wins, bad lists are skipped. *)
View(t) ==
    LET Listed(w) == {i \in DOMAIN t : t[i].word = w /\ t[i].list # "bad"}
    IN [w \in {t[i].word : i \in {j \in DOMAIN t : t[j].list # "bad"}} |-> t[Max(Listed(w))].list]

(* The lines of the dictionary: empty lists are skipped too. *)
Lines(t) == [is |-> "whole", lines |-> {t[i] : i \in {j \in DOMAIN t : t[j].list \notin {"bad", "empty"}}}]

(* A file that has been truncated, or written by two at once. *)
Part(how) == [is |-> how, lines |-> {}]

NoRows == <<>>
NoJob == [edits |-> FALSE, read |-> NoRows, inode |-> None, spoilt |-> {}]

Init ==
    /\ table = NoRows /\ lastId = 0
    /\ memory = View(NoRows)
    /\ file = 1 /\ tmp = None
    /\ content = [n \in Inodes |-> Lines(NoRows)]
    /\ zinc = Lines(NoRows)
    /\ pc = [h \in Handlers |-> "idle"]
    /\ job = [h \in Handlers |-> NoJob]
    /\ trust = Copies /\ shared = FALSE
    /\ requests = 0 /\ fails = 0 /\ crashes = 0

-----------------------------------------------------------------------------
Goto(h, l) == pc' = [pc EXCEPT ![h] = l]

Ok   == fails' = fails
Fail == fails < MaxFails /\ fails' = fails + 1

Busy == {h \in Handlers : pc[h] # "idle"}

(* Requests that cross may each have read before the other changed: two    *)
(* edits cross in every copy, an export crosses in the file and in Zinc.   *)
Crossed(edits, other) == IF edits /\ job[other].edits THEN Copies ELSE {"file", "zinc"}

Begin(h, edits, l) ==
    /\ pc[h] = "idle" /\ requests < MaxRequests
    /\ requests' = requests + 1
    /\ Goto(h, l)
    /\ job' = [g \in Handlers |->
                 IF g = h THEN [NoJob EXCEPT !.edits = edits,
                                             !.spoilt = UNION {Crossed(edits, o) : o \in Busy}]
                 ELSE IF g \in Busy THEN [job[g] EXCEPT !.spoilt = @ \cup Crossed(edits, g)]
                 ELSE job[g]]

(* Copies a request writes; it leaves those it did not spoil as it should. *)
Touched(j) == IF j.edits THEN Copies ELSE Copies \ {"memory"}

Finish(h, spoilt) ==
    /\ Goto(h, "idle")
    /\ job' = [job EXCEPT ![h] = NoJob]
    /\ trust' = (trust \cup Touched(job[h])) \ (job[h].spoilt \cup spoilt)

-----------------------------------------------------------------------------
(* The four requests, up to their change of the table. *)
Create(h, r) ==
    /\ lastId < MaxRows
    /\ Begin(h, TRUE, "load")
    /\ lastId' = lastId + 1
    /\ table' = [i \in DOMAIN table \cup {lastId + 1} |-> IF i = lastId + 1 THEN r ELSE table[i]]
    /\ UNCHANGED <<memory, disk, zinc, trust, shared, fails, crashes>>

(* An id without a row changes nothing and is no error. *)
Update(h, i, r) ==
    /\ Begin(h, TRUE, "load")
    /\ table' = [j \in DOMAIN table |-> IF j = i THEN r ELSE table[j]]
    /\ UNCHANGED <<lastId, memory, disk, zinc, trust, shared, fails, crashes>>

(* Mutant of Delete: the map in memory is not loaded again. *)
DeleteKeepsMap(h, i) ==
    /\ Begin(h, TRUE, "find")
    /\ table' = Restrict(table, DOMAIN table \ {i})
    /\ UNCHANGED <<lastId, memory, disk, zinc, trust, shared, fails, crashes>>

Delete(h, i) ==
    /\ Begin(h, TRUE, "load")
    /\ table' = Restrict(table, DOMAIN table \ {i})
    /\ UNCHANGED <<lastId, memory, disk, zinc, trust, shared, fails, crashes>>

Sync(h) ==
    /\ Begin(h, FALSE, "find")
    /\ UNCHANGED <<store, memory, disk, zinc, trust, shared, fails, crashes>>

-----------------------------------------------------------------------------
(* meta.Find, whose error nobody looks at: the table then reads as empty. *)
Find(h, from, to, copies) ==
    /\ pc[h] = from
    /\ \/ Ok /\ job' = [job EXCEPT ![h].read = table]
       \/ Fail /\ job' = [job EXCEPT ![h].read = NoRows, ![h].spoilt = @ \cup copies]
    /\ Goto(h, to)
    /\ UNCHANGED <<store, memory, disk, zinc, trust, shared, requests, crashes>>

(* reloadSynonyms *)
Load(h) == Find(h, "load", "assign", {"memory"})

Assign(h) ==
    /\ pc[h] = "assign"
    /\ memory' = View(job[h].read)
    /\ Goto(h, "find")
    /\ UNCHANGED <<store, disk, zinc, job, trust, shared, bounds>>

(* exportSynonymsToZinc *)
Export(h) == Find(h, "find", "open", {"file", "zinc"})

Held == {job[h].inode : h \in Handlers}

(* Mutant of Target: the dictionary itself is opened. *)
TargetFinal == file

(* O_CREATE: the inode behind `.tmp`, or a new one. *)
Target == IF tmp # None THEN tmp
          ELSE CHOOSE n \in Inodes : n \notin Held \cup {file}

(* O_TRUNC *)
Open(h) ==
    /\ pc[h] = "open"
    /\ LET n == Target IN
       /\ content' = [content EXCEPT ![n] = Part("cut")]
       /\ tmp' = IF n = file THEN tmp ELSE n
       /\ job' = [job EXCEPT ![h].inode = n]
       /\ shared' = (shared \/ \E g \in Handlers : pc[g] \in {"write", "rename"})
    /\ Goto(h, "write")
    /\ UNCHANGED <<store, memory, file, zinc, trust, bounds>>

(* Over what another handler wrote since, the end of which may stay. *)
Write(h) ==
    /\ pc[h] = "write"
    /\ LET n == job[h].inode
           lines == Lines(job[h].read)
       IN \E c \in IF content[n].is = "cut" THEN {lines} ELSE {lines, Part("mixed")} :
             content' = [content EXCEPT ![n] = c]
    /\ job' = [job EXCEPT ![h].inode = None]
    /\ Goto(h, "rename")
    /\ UNCHANGED <<store, memory, file, tmp, zinc, trust, shared, bounds>>

(* A write that fails ends the export; `.tmp` stays as it is. *)
WriteFails(h) ==
    /\ pc[h] = "write" /\ Fail
    /\ Finish(h, {"file", "zinc"})
    /\ UNCHANGED <<store, memory, disk, zinc, shared, requests, crashes>>

(* Mutant of Rename: the file is linked to its name, not moved. *)
RenameKeepsTmp(h) ==
    /\ pc[h] = "rename" /\ tmp # None
    /\ file' = tmp
    /\ Goto(h, "reload")
    /\ UNCHANGED <<store, memory, tmp, content, zinc, job, trust, shared, bounds>>

(* The other handler may have moved `.tmp` away. *)
Rename(h) ==
    /\ pc[h] = "rename"
    /\ IF tmp # None
       THEN /\ file' = tmp /\ tmp' = None
            /\ Goto(h, "reload")
            /\ UNCHANGED job
       ELSE /\ Goto(h, "remove")
            /\ job' = [job EXCEPT ![h].spoilt = @ \cup {"file", "zinc"}]
            /\ UNCHANGED <<file, tmp>>
    /\ UNCHANGED <<store, memory, content, zinc, trust, shared, bounds>>

Remove(h) ==
    /\ pc[h] = "remove"
    /\ tmp' = None
    /\ Finish(h, {})
    /\ UNCHANGED <<store, memory, file, content, zinc, shared, bounds>>

(* ReloadSynonym: Zinc reads the file; an error is logged or answered. *)
Reload(h) ==
    /\ pc[h] = "reload"
    /\ \/ Ok /\ zinc' = content[file] /\ Finish(h, {})
       \/ Fail /\ zinc' \in {zinc, content[file]} /\ Finish(h, {"zinc"})
    /\ UNCHANGED <<store, memory, disk, shared, requests, crashes>>

(* The process ends and starts again; NewServer loads the map. *)
Crash ==
    /\ crashes < MaxCrashes /\ crashes' = crashes + 1
    /\ pc' = [h \in Handlers |-> "idle"]
    /\ job' = [h \in Handlers |-> NoJob]
    /\ memory' = View(table)
    /\ trust' = (trust \cup {"memory"}) \ (IF Busy = {} THEN {} ELSE {"file", "zinc"})
    /\ UNCHANGED <<store, disk, zinc, shared, requests, fails>>

Next ==
    \/ \E h \in Handlers :
          \/ \E r \in Rows : Create(h, r)
          \/ \E r \in Rows : \E i \in Ids : Update(h, i, r)
          \/ \E i \in Ids : Delete(h, i)
          \/ Sync(h)
          \/ Load(h) \/ Assign(h) \/ Export(h) \/ Open(h)
          \/ Write(h) \/ WriteFails(h) \/ Rename(h) \/ Remove(h) \/ Reload(h)
    \/ Crash

Spec == Init /\ [][Next]_vars

-----------------------------------------------------------------------------
(* Types; the name of the dictionary and `.tmp` are never the same inode,  *)
(* and a handler holds an inode open exactly while it writes.              *)
TypeOK ==
    /\ table \in UNION {[S -> Rows] : S \in SUBSET Ids} /\ lastId \in 0..MaxRows
    /\ \A i \in DOMAIN table : i <= lastId
    /\ memory \in UNION {[S -> Lists \cup {"empty"}] : S \in SUBSET Words}
    /\ file \in Inodes /\ tmp \in Inodes \cup {None} /\ tmp # file
    /\ pc \in [Handlers -> {"idle", "load", "assign", "find", "open", "write", "rename", "remove", "reload"}]
    /\ \A h \in Handlers : pc[h] = "write" <=> job[h].inode # None
    /\ trust \subseteq Copies /\ shared \in BOOLEAN
    /\ requests \in 0..MaxRequests /\ fails \in 0..MaxFails /\ crashes \in 0..MaxCrashes

(* With no request under way, each copy whose last writer was not crossed  *)
(* by another request, and saw no call fail, says what the table says: so  *)
(* one undisturbed request, a sync or a restart heals what an earlier      *)
(* race or failure left behind.                                            *)
CopiesAgree ==
    Busy = {} =>
        /\ "memory" \in trust => memory = View(table)
        /\ "file" \in trust   => content[file] = Lines(table)
        /\ "zinc" \in trust   => zinc = Lines(table)

(* The file is replaced as a whole: unless two exports met at `.tmp`, not  *)
(* even a crash or a failed write leaves a part of a dictionary under its  *)
(* name, and Zinc never loads one.                                         *)
FileIsWhole ==
    shared \/ (content[file].is = "whole" /\ zinc.is = "whole")
=============================================================================

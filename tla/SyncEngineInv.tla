--------------------------- MODULE SyncEngineInv ----------------------------
(***************************************************************************)
(* The inductive invariant behind the safety properties of SyncEngine.     *)
(* Each part says what one stretch of runSync may rely on.                 *)
(***************************************************************************)
EXTENDS SyncEngine

(* From CreateIndex or GetWriteIndex to the end of a run. *)
HasIndexPCs == {"record", "build", "bulk", "cursor", "gate", "getalias", "swap", "mark"}

(* The part of a run in which the index of a full rebuild is recorded as   *)
(* the write index and not yet offered to the readers.                     *)
RebuildPCs == {"build", "bulk", "gate", "getalias", "swap", "mark"}

(* Indexes are named in the order of their creation: every name in use is  *)
(* an old one, and an unused name has no documents.                        *)
ZincNames == /\ \A j \in alias : j <= created
             /\ \A i \in Index : i > created => zdoc[i] = Nothing
MetaNames == writeIndex <= created
RunNames  == \A c \in Callers : /\ run[c].index <= created
                                /\ pc[c] \in HasIndexPCs => run[c].index > 0
CleanupNames == \A i \in Index : \A j \in toDelete[i] : j <= created

NamesInOrder == ZincNames /\ MetaNames /\ RunNames /\ CleanupNames

TypeInv == TypeOK /\ NamesInOrder

-----------------------------------------------------------------------------
(* What a caller c relies on.  Nothing of it is about an idle caller.      *)

(* The steps after the gate belong to full rebuilds. *)
GateIsForFull(c) ==
    pc[c] \in {"gate", "getalias", "swap", "mark"} => run[c].kind = "full"

(* The index of a rebuild is newer than everything the readers have seen   *)
(* and everything a delayed cleanup is about to delete.                    *)
RebuildIsNewest(c) ==
    pc[c] \in RebuildPCs \cup {"record"} /\ run[c].kind = "full"
    => /\ \A j \in alias : j < run[c].index
       /\ \A i \in Index : \A j \in toDelete[i] : j < run[c].index

(* The metadata database names the index of the rebuild, unmarked. *)
RebuildIsRecorded(c) ==
    pc[c] \in RebuildPCs /\ run[c].kind = "full" => writeIndex = run[c].index /\ ~failedMark

(* After the gate: it was passed. *)
GateWasPassed(c) ==
    pc[c] \in {"getalias", "swap"} => Gate(Size(run[c]), run[c].expected)

(* SwitchAlias removes whatever is behind the alias when it swaps, unless  *)
(* it took an error for an answer.                                         *)
SwapIsTotal(c) ==
    FailuresShow /\ pc[c] = "swap" => alias \subseteq run[c].old \cup {run[c].index}

RunInv(c) ==
    /\ GateIsForFull(c) /\ RebuildIsNewest(c) /\ RebuildIsRecorded(c)
    /\ GateWasPassed(c) /\ SwapIsTotal(c)

LiveInv == FailuresShow => OneLiveIndex

IndInv ==
    /\ TypeInv /\ OneRunAtATime /\ LiveInv /\ FailedIndexNotLive
    /\ \A c \in Callers : RunInv(c)

-----------------------------------------------------------------------------
(* What the new index holds: nothing before the bulk loop, then the rows   *)
(* that were sent and did not fail, and at the gate exactly what was read. *)
(* The loop knows what failed only if it shows.                            *)
RebuildContents(c) ==
    run[c].kind = "full" =>
        /\ pc[c] \in {"record", "build"} => zdoc[run[c].index] = Nothing
        /\ pc[c] = "bulk" =>
              \A d \in Docs \ (run[c].todo \cup run[c].failedIDs) :
                  zdoc[run[c].index][d] = run[c].docs[d]
        /\ pc[c] \in {"gate", "getalias", "swap"} => zdoc[run[c].index] = run[c].docs

ContentsInv == \A c \in Callers : RebuildContents(c)

-----------------------------------------------------------------------------
(* What a run delivers.  A run stores what it read earlier, which may be   *)
(* an old version of a row by now, but only of a row that has changed      *)
(* since, whose stamp is then beyond every cursor, unless it came late     *)
(* (Carries); so what the cursor vouches for stays stored until a cleanup  *)
(* deletes it.  When the cursor moves to LastCursor, every row up to there *)
(* was read or vouched for before (HasRead), and everything read is stored *)
(* (HasStored), since a failure would have ended the run.                  *)

VersionsInOrder == \A d \in Docs : ver[d] <= changes

Delivers(c) == pc[c] \in {"bulk", "cursor"}

(* What a run carries to Zinc: rows it read, and a row it read that has    *)
(* changed since has a stamp beyond every cursor of now, or came late.     *)
Carries(c) ==
    Delivers(c) =>
        /\ \A d \in run[c].todo : run[c].docs[d] > 0
        /\ \A d \in Docs :
              /\ run[c].docs[d] <= changes
              /\ run[c].docs[d] > 0 /\ ver[d] > 0 /\ run[c].docs[d] # ver[d] =>
                     late[d] \/ (stamp[d] > run[c].last /\ stamp[d] > cursor)

(* An incremental run read every row up to its LastCursor that did not     *)
(* come late and is not behind the cursor ...                              *)
HasRead(c) ==
    Delivers(c) /\ run[c].kind = "incremental" =>
        \A d \in Docs : ver[d] > 0 /\ stamp[d] <= run[c].last /\ ~late[d] =>
            stamp[d] <= cursor \/ run[c].docs[d] = ver[d]

(* ... and what it sent and did not see fail is stored, as long as it is   *)
(* the row of now and no cleanup deleted it; before the cursor moves, that *)
(* is all of it.                                                           *)
HasStored(c) ==
    Delivers(c) /\ run[c].kind = "incremental" =>
        \A d \in Docs :
            /\ run[c].docs[d] > 0 /\ run[c].docs[d] = ver[d]
            /\ pc[c] = "bulk" => d \notin run[c].todo \cup run[c].failedIDs
            => lost[d] \/ zdoc[run[c].index][d] = run[c].docs[d]

CursorIsOfIncremental(c) == pc[c] = "cursor" => run[c].kind = "incremental"

RunDelivers(c) == Carries(c) /\ HasRead(c) /\ HasStored(c) /\ CursorIsOfIncremental(c)

Delivered ==
    VersionsInOrder /\ CursorNeverSkips /\ \A c \in Callers : RunDelivers(c)

-----------------------------------------------------------------------------
(* A cleanup, asleep or at work, is older than the rebuild under way and   *)
(* not newer than what the readers see, so what it is about to delete has  *)
(* overtaken it.                                                           *)
NoNewer(i) == cleanup[i] # "none" => i <= created /\ \A j \in alias : i <= j
Overtaken(i) == \A j \in toDelete[i] : i < j

Overtakes(c) ==
    pc[c] \in RebuildPCs \cup {"record"} /\ run[c].kind = "full" =>
        \A i \in Index : cleanup[i] # "none" => i < run[c].index

CleanupsAreOlder ==
    /\ \A i \in Index : NoNewer(i) /\ Overtaken(i)
    /\ \A c \in Callers : Overtakes(c)

(* What a cleanup deletes has overtaken it: its own index stays, and so do *)
(* the superseded ones it is meant for (where SupersededGo fails).         *)
OnlyNewerDeleted == \A j \in exist \ exist' : \E i \in Index : CleanupDelete(i) /\ i < j

(* Where LiveIndexStays fails: a cleanup deletes the index that readers    *)
(* see, which a rebuild published after the one the cleanup belongs to.    *)
EmptiedByOvertaken ==
    alias # {} /\ alias' = {} => \E i \in Index : CleanupDelete(i) /\ \A j \in alias : i < j

-----------------------------------------------------------------------------
(* What readers find never gets older: every index holds versions the row  *)
(* had, and what a run carries is at least as new as what any index holds, *)
(* since it was read when no other run was under way.                      *)
NotAhead == \A i \in Index : \A d \in Docs :
               /\ zdoc[i][d] <= changes
               /\ ver[d] > 0 => zdoc[i][d] <= ver[d]

Carrying(c) == pc[c] \in {"bulk", "cursor", "gate", "getalias", "swap"}

CarriesNewest(c) ==
    Carrying(c) =>
        \A d \in Docs :
            /\ d \in run[c].todo => run[c].docs[d] > 0
            /\ run[c].docs[d] <= changes
            /\ ver[d] > 0 => run[c].docs[d] <= ver[d]
            /\ run[c].docs[d] > 0 => \A i \in Index : zdoc[i][d] <= run[c].docs[d]

(* The index of a rebuild holds nothing but what that rebuild read. *)
RebuildIsOwn(c) ==
    run[c].kind = "full" =>
        /\ pc[c] \in {"record", "build"} => \A d \in Docs : zdoc[run[c].index][d] = 0
        /\ Carrying(c) => \A d \in Docs : zdoc[run[c].index][d] \in {0, run[c].docs[d]}

NeverOlder ==
    VersionsInOrder /\ NotAhead /\ \A c \in Callers : CarriesNewest(c) /\ RebuildIsOwn(c)

-----------------------------------------------------------------------------
(* How many steps a run has left, at most: as many batches as documents to *)
(* send, and a handful besides.                                            *)
StepsLeft(c) ==
    CASE pc[c] = "idle"               -> 0
      [] pc[c] = "unlock"             -> 1
      [] pc[c] \in {"cursor", "mark", "swap"} -> 2
      [] pc[c] = "getalias"           -> 3
      [] pc[c] = "gate"               -> 4
      [] pc[c] = "bulk"               -> 5 + Cardinality(run[c].todo)
      [] pc[c] = "build"              -> 6 + Cardinality(Docs)
      [] pc[c] = "record"             -> 7 + Cardinality(Docs)
      [] pc[c] = "create"             -> 8 + Cardinality(Docs)
      [] pc[c] = "open"               -> 9 + Cardinality(Docs)

(* Every step of a run brings its end nearer, and no step of another run,  *)
(* a cleanup or the source puts it off.                                    *)
EndsAreNearer ==
    \A c \in Callers :
        /\ StepsLeft(c) \in Nat /\ StepsLeft(c) <= 9 + Cardinality(Docs)
        /\ StepsLeft(c) = 0 <=> pc[c] = "idle"
        /\ RunStep(c) => StepsLeft(c)' < StepsLeft(c)
        /\ pc[c] # "idle" => StepsLeft(c)' <= StepsLeft(c)
=============================================================================

--------------------------- MODULE PrefixBuckets ----------------------------
(***************************************************************************)
(* How reconciliation lists the ids of an index (internal/sync):           *)
(* collectBucket counts the ids that begin with a prefix, pages through    *)
(* them if they are few, and asks for every longer prefix if they are many *)
(* (Zinc serves no hit beyond its result window).  An id is a sequence of  *)
(* characters, the index does not change and no request fails.             *)
(***************************************************************************)
EXTENDS Naturals, Sequences, SequencesExt

CONSTANTS
    Alphanumerics,   \* 0-9 and a-z, of which prefixes are made
    Underscore,      \* the one other character tried, at the first place
    Limit,           \* 8000: more ids are split up
    PageLength,      \* 1000 ids on a page
    ResultWindow     \* 10000: no page begins there or later

ASSUME BucketSizes ==
    /\ PageLength \in Nat \ {0} /\ Limit \in Nat \ {0} /\ ResultWindow \in Nat
    /\ Limit < ResultWindow

Matching(ids, prefix) == {id \in ids : IsPrefix(prefix, id)}

(* The pages before the window, up to the first that is not full. *)
Paged(ids) ==
    LET sorted == SetToSeq(ids)
        pages  == {p \in 0..ResultWindow : p * PageLength < ResultWindow}
    IN {sorted[i] : i \in {i \in DOMAIN sorted : \E p \in pages : i \in (p * PageLength + 1)..((p + 1) * PageLength)}}

(* collectExactID *)
ExactId(ids, prefix) == ids \cap {prefix}

(* Mutant of Own: the id that is the prefix itself is forgotten. *)
OwnForgotten(ids, prefix) == {}

(* Of a bucket that is split up, what is in none of its parts. *)
Own(ids, prefix) == IF prefix = <<>> THEN {} ELSE ExactId(ids, prefix)

(* collectBucket, for every prefix. *)
Collected(ids) ==
    LET bucket[prefix \in Seq(Alphanumerics \cup {Underscore})] ==
          LET found == Matching(ids, prefix)
              next  == Alphanumerics \cup (IF prefix = <<>> THEN {Underscore} ELSE {})
          IN IF Cardinality(found) = 0 THEN {}
             ELSE IF Cardinality(found) > Limit
             THEN Own(ids, prefix) \cup UNION {bucket[Append(prefix, c)] : c \in next}
             ELSE Paged(found)
    IN bucket

(* scrollAllIDs *)
AllIds(ids) == Collected(ids)[<<>>]

-----------------------------------------------------------------------------
(* An id is in reach if, as long as its bucket is split up, its next       *)
(* character is one that is tried.  Every id in reach is listed, each of   *)
(* the few of a small bucket too: ids of digits and small letters always.  *)
InReach(ids, id) ==
    \A n \in 0..(Len(id) - 1) :
        LET bucket == Matching(ids, SubSeq(id, 1, n)) IN
        Cardinality(bucket) > Limit =>
            id[n + 1] \in Alphanumerics \/ (n = 0 /\ id[1] = Underscore)

EveryIdInReachIsListed(ids) == AllIds(ids) = {id \in ids : InReach(ids, id)}
=============================================================================

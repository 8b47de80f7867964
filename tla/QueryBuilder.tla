---------------------------- MODULE QueryBuilder ----------------------------
(***************************************************************************)
(* From a search request to the query Zinc gets (internal/query): keyword, *)
(* synonyms, filters, pages and aggregations.  Clauses are sets, for their *)
(* order is that of a Go map; a keyword is the set of the words found in   *)
(* it, empty for no keyword.                                               *)
(***************************************************************************)
EXTENDS Integers, Sequences, FiniteSets

CONSTANTS
    MaxInt,     \* 2^63 - 1, the greatest int
    MaxSize,    \* 100, the most hits on a page
    PageSize    \* 10, the default

ASSUME QueryNumbers == {MaxInt, MaxSize, PageSize} \subseteq Nat /\ 0 < PageSize /\ PageSize <= MaxSize /\ MaxSize <= MaxInt

(* The value an int takes: what does not fit wraps around. *)
Int64(n) == ((n + MaxInt + 1) % (2 * (MaxInt + 1))) - (MaxInt + 1)

-----------------------------------------------------------------------------
(* buildKeywordQuery.  fields: the types of the fields of the index, with  *)
(* searchable and boost; synonyms: a function from words to sets of words. *)
Searchable(fields) == {f \in DOMAIN fields : fields[f].searchable}

Match(f, text, boost) == [field |-> f, text |-> text, boost |-> boost]

Asked    == "the keyword"
HalfBoost == "0.5"

KeywordQuery(fields, synonyms, keyword) ==
    LET ofFields(text, boost(_)) == {Match(f, text, boost(f)) : f \in Searchable(fields)}
        own(f)  == fields[f].boost
        half(f) == HalfBoost
        terms   == DOMAIN synonyms \cap keyword
    IN ofFields(Asked, own) \cup UNION {ofFields(s, half) : s \in UNION {synonyms[t] : t \in terms}}

(* buildFilterQuery.  A filter maps fields to values: a list with so many  *)
(* members, a map with the operators it holds, or a single value.          *)
Exact == {"keyword", "integer", "long"}
Ranges == {"gte", "gt", "lte", "lt"}

(* Mutant of Clauses: an empty list or map still makes a clause. *)
ClausesOfAny(fields, f, v) ==
    IF f \notin DOMAIN fields THEN {}
    ELSE CASE v.kind = "list" -> {[term |-> f, size |-> v.size]}
           [] v.kind = "map"  -> {[term |-> f, size |-> Cardinality(v.ops \cap Ranges)]}
           [] v.kind = "one"  -> {[term |-> f, size |-> 1]}

(* The clause for one field, if it makes one. *)
Clauses(fields, f, v) ==
    IF f \notin DOMAIN fields THEN {}
    ELSE CASE v.kind = "list" -> IF v.size > 0 /\ fields[f].type \in Exact
                                 THEN {[term |-> f, size |-> v.size]} ELSE {}
           [] v.kind = "map"  -> IF v.ops \cap Ranges # {}
                                 THEN {[term |-> f, size |-> Cardinality(v.ops \cap Ranges)]} ELSE {}
           [] v.kind = "one"  -> IF fields[f].type \in Exact THEN {[term |-> f, size |-> 1]} ELSE {}

FilterQuery(fields, filter) == UNION {Clauses(fields, f, filter[f]) : f \in DOMAIN filter}

-----------------------------------------------------------------------------
(* The page: both numbers come from strconv.Atoi and may be anything. *)
Size(limit) == IF limit <= 0 THEN PageSize ELSE IF limit > MaxSize THEN MaxSize ELSE limit

Page(page) == IF page <= 0 THEN 1 ELSE page

(* Mutant of From: before the limit is capped. *)
FromUncapped(page, limit) == Int64((Page(page) - 1) * (IF limit <= 0 THEN PageSize ELSE limit))

From(page, limit) == Int64((Page(page) - 1) * Size(limit))

(* normalizeAggs: what is not known as a type is wrapped in one. *)
AggTypes == {"terms", "range", "avg", "sum", "min", "max", "cardinality", "date_histogram", "histogram"}

HasAggType(keys) == keys \cap AggTypes # {}

(* An aggregation is the set of its keys, or text. *)
NormalizedAgg(agg) ==
    IF agg.type = "text" \/ HasAggType(agg.keys) THEN agg
    ELSE IF "ranges" \in agg.keys THEN [type |-> "map", keys |-> {"range"}]
    ELSE [type |-> "map", keys |-> {"terms"}]

(* Build: the parts of the bool query, each there only with something in   *)
(* it.  site: the id of the site asked for, or none.                       *)
Build(fields, synonyms, req) ==
    LET should == IF req.keyword = {} THEN {} ELSE KeywordQuery(fields, synonyms, req.keyword)
        filter == {[term |-> "site_id", size |-> 1] : s \in req.site} \cup FilterQuery(fields, req.filter)
        must   == IF should = {} /\ filter = {} THEN {"match_all"} ELSE {}
    IN [should |-> should, filter |-> filter, must |-> must,
        from |-> From(req.page, req.limit), size |-> Size(req.limit)]

-----------------------------------------------------------------------------
(* Zinc answers a clause without content with no hits at all (BUG-005):    *)
(* the query has a part, every clause has content, and a request that      *)
(* names a site or a usable filter never turns into a search of everything.*)
QueryWellFormed(fields, synonyms, req) ==
    LET q == Build(fields, synonyms, req) IN
    /\ q.should \cup q.filter # {} \/ q.must # {}
    /\ \A c \in q.filter : c.size > 0
    /\ req.site # {} \/ (req.keyword # {} /\ Searchable(fields) # {}) => q.must = {}
    /\ \A c \in q.should : c.field \in Searchable(fields)

(* Pages lie side by side: each begins where the one before ends, none is  *)
(* longer than MaxSize, as long as the numbers fit into an int.            *)
PagesTile(page, limit) ==
    page > 1 /\ page * MaxSize <= MaxInt =>
        /\ From(page, limit) = From(page - 1, limit) + Size(limit)
        /\ Size(limit) \in 1..MaxSize

(* Wrapping an aggregation twice is wrapping it once, so full and short    *)
(* forms may be mixed.                                                     *)
AggsSettle(agg) ==
    /\ NormalizedAgg(NormalizedAgg(agg)) = NormalizedAgg(agg)
    /\ agg.type # "text" => HasAggType(NormalizedAgg(agg).keys)
    /\ HasAggType(agg.keys) => NormalizedAgg(agg) = agg
=============================================================================

----------------------------- MODULE Algorithms -----------------------------
(***************************************************************************)
(* The pure functions of the program, each applied to one input of a       *)
(* bounded set: a behaviour picks an input and stops.                      *)
(***************************************************************************)
EXTENDS Documents, QueryBuilder, PrefixBuckets

CONSTANTS
    MaxIds,     \* bound: ids in an index
    MaxLength,  \* bound: characters of an id
    Others      \* characters of ids that are never tried

ASSUME IndexSizes == MaxIds \in Nat /\ MaxLength \in Nat

VARIABLE input

-----------------------------------------------------------------------------
(* Columns: a value, how the configuration declares its column, and the    *)
(* lists that name it too.                                                 *)
DeclaredFields == {NoField, Field("text", FALSE, ""), Field("keyword", FALSE, ""), Field("float", FALSE, ""),
                   Field("long", FALSE, ""), Field("date", FALSE, "unix_timestamp"), Field("keyword", TRUE, "")}

ListedIn == {S \in SUBSET {Lists[i] : i \in DOMAIN Lists} : Cardinality(S) <= 2}

Conditions == {"kept", "shown", "changed"}
BaseQueries == {<<>>, <<{"kept"}>>, <<{"kept", "shown"}>>, <<{"kept"}, {"shown"}>>}

(* Searches: an index of a text, a keyword and a date; one synonym.        *)
IndexField(type, searchable, boost) == [type |-> type, searchable |-> searchable, boost |-> boost]

IndexFields ==
    {[title |-> IndexField("text", s, "5.0"), tag |-> IndexField("keyword", t, "1.0"),
      made |-> IndexField("date", FALSE, "1.0")] : s, t \in BOOLEAN}

Synonyms == {<<>>, [car |-> {"auto"}], [car |-> {}]}

FilterValues ==
    {[kind |-> "list", size |-> n, ops |-> {}] : n \in {0, 2}}
      \cup {[kind |-> "map", size |-> 0, ops |-> S] : S \in {{}, {"gte"}, {"gte", "lt"}, {"like"}}}
      \cup {[kind |-> "one", size |-> 0, ops |-> {}]}

Filters == {<<>>} \cup [{"tag"} -> FilterValues] \cup [{"tag", "made"} -> FilterValues]
             \cup [{"gone"} -> FilterValues]

Requests ==
    [keyword : {{}, {"bike"}, {"car", "bike"}}, site : {{}, {7}}, filter : Filters, page : {0, 3}, limit : {0, 5}]

Ints == (-MaxInt - 1)..MaxInt

AggKeys == {"field", "size", "ranges", "terms", "range", "min"}

(* Indexes: sets of ids. *)
Characters == Alphanumerics \cup {Underscore} \cup Others
Ids == UNION {[1..n -> Characters] : n \in 1..MaxLength}

-----------------------------------------------------------------------------
Init == input = [of |-> "nothing"]

Convert ==
    \E v \in ColumnValues : \E d \in DeclaredFields : \E l \in ListedIn :
        input' = [of |-> "column", value |-> v, declared |-> d, listed |-> l]

Combine ==
    \E base \in BaseQueries : \E row \in SUBSET Conditions :
        input' = [of |-> "condition", base |-> base, row |-> row]

Search ==
    \E fields \in IndexFields : \E syn \in Synonyms : \E req \in Requests :
        input' = [of |-> "search", fields |-> fields, synonyms |-> syn, req |-> req]

Turn ==
    \E page, limit \in Ints : input' = [of |-> "page", page |-> page, limit |-> limit]

Aggregate ==
    \/ input' = [of |-> "agg", agg |-> [type |-> "text", keys |-> {}]]
    \/ \E keys \in SUBSET AggKeys : input' = [of |-> "agg", agg |-> [type |-> "map", keys |-> keys]]

Enumerate ==
    \E n \in 0..MaxIds : \E id \in [1..n -> Ids] : input' = [of |-> "ids", ids |-> Range(id)]

Next ==
    /\ input.of = "nothing"
    /\ \/ Convert \/ Combine \/ Search \/ Turn \/ Aggregate \/ Enumerate

Spec == Init /\ [][Next]_input

-----------------------------------------------------------------------------
(* ValuesFitMapping for every column. *)
ColumnsFit == input.of = "column" => ValuesFitMapping(input.value, input.declared, input.listed)

(* KeysAgree for every key and every declaration of its column:            *)
(* builder.go:276-279 against the scan into a string in reconcile.go.      *)
KeysFit == input.of = "column" => KeysAgree(input.value, BuilderField(input.declared, input.listed))

(* CombinedQueryFaithful for every base query and row. *)
QueriesCombine == input.of = "condition" => CombinedQueryFaithful(input.base, "changed", input.row)

(* QueryWellFormed for every request, AggsSettle for every aggregation. *)
SearchesFit ==
    /\ input.of = "search" => QueryWellFormed(input.fields, input.synonyms, input.req)
    /\ input.of = "agg" => AggsSettle(input.agg)

(* PagesTile for every pair of numbers an int can hold. *)
PagesFit == input.of = "page" => PagesTile(input.page, input.limit)

(* EveryIdInReachIsListed for every index. *)
IdsListed == input.of = "ids" => EveryIdInReachIsListed(input.ids)
=============================================================================

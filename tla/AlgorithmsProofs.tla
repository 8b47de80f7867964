-------------------------- MODULE AlgorithmsProofs --------------------------
(***************************************************************************)
(* Proofs about the pure functions: what each promises of every input, not *)
(* only of those a behaviour of Algorithms picks, and from that its        *)
(* invariants for all values of the constants.  A behaviour is one step,   *)
(* so the inductive invariant says of what kind an input is made.          *)
(***************************************************************************)
EXTENDS Algorithms, FiniteSetTheorems, TLAPS

-----------------------------------------------------------------------------
(* A declared column is converted as declared, whatever lists name it.     *)
LEMMA ColumnFits ==
  ASSUME NEW v \in ColumnValues, NEW declared, NEW listed
  PROVE  ValuesFitMapping(v, declared, listed)
<1>1. /\ v.kind \in {"bytes", "int", "float", "time", "nil"}
      /\ v.kind \in {"int", "float"} => v.text \in Numerals
  <2>1. CASE v \in [kind : {"bytes"}, text : Texts]
    BY <2>1
  <2>2. CASE v \in [kind : {"int", "float"}, text : Numerals]
    BY <2>2
  <2>3. CASE v \in {Value("time", "12"), Value("nil", "")}
    <3>1. Value("time", "12").kind = "time" /\ Value("nil", "").kind = "nil"
      BY DEF Value
    <3> QED
      BY <2>3, <3>1
  <2> QED
    BY <2>1, <2>2, <2>3 DEF ColumnValues
<1> QED
  BY <1>1 DEF ValuesFitMapping, MappingField, BuilderField, Declared, Converted, Coerced, NumberKind, Value

(* The condition joins the last alternative, so a row of the combination   *)
(* is a row of the base query, and a row of all alternatives that meets    *)
(* the condition is one of the combination.                                *)
LEMMA ConditionsCombine ==
  ASSUME NEW C, NEW base \in Seq(SUBSET C), NEW inc, NEW row
  PROVE  CombinedQueryFaithful(base, inc, row)
<1>1. CASE base = <<>>
  <2>1. Combined(base, inc) = <<{inc}>>
    BY <1>1 DEF Combined
  <2> QED
    BY <1>1, <2>1 DEF CombinedQueryFaithful, Meets
<1>2. CASE base # <<>>
  <2> DEFINE all == Combined(base, inc)
  <2>1. /\ all # <<>>
        /\ DOMAIN all = DOMAIN base
        /\ \A i \in DOMAIN base : base[i] \subseteq all[i] /\ all[i] \subseteq base[i] \cup {inc}
    BY <1>2 DEF Combined
  <2> QED
    BY <1>2, <2>1 DEF CombinedQueryFaithful, Meets
<1> QED
  BY <1>1, <1>2

-----------------------------------------------------------------------------
(* A clause has content: lists without members and maps without ranges     *)
(* make none.                                                              *)
LEMMA ClausesHaveContent ==
  ASSUME NEW fields, NEW f, NEW v \in FilterValues, NEW c \in Clauses(fields, f, v)
  PROVE  c.size > 0
<1>1. /\ v.kind \in {"list", "map", "one"}
      /\ v.size \in Nat
  BY DEF FilterValues
<1>2. ASSUME v.ops \cap Ranges # {}
      PROVE  Cardinality(v.ops \cap Ranges) \in Nat \ {0}
  <2>1. IsFiniteSet(Ranges)
    <3>1. IsFiniteSet({"gte"}) /\ IsFiniteSet({"gt"}) /\ IsFiniteSet({"lte"}) /\ IsFiniteSet({"lt"})
      BY FS_Singleton
    <3>2. IsFiniteSet({"gte"} \cup {"gt"}) /\ IsFiniteSet({"lte"} \cup {"lt"})
      BY <3>1, FS_Union
    <3>3. Ranges = ({"gte"} \cup {"gt"}) \cup ({"lte"} \cup {"lt"})
      BY DEF Ranges
    <3> QED
      BY <3>2, <3>3, FS_Union
  <2> QED
    BY <1>2, <2>1, FS_Intersection, FS_CardinalityType, FS_EmptySet
<1> QED
  BY <1>1, <1>2 DEF Clauses

(* The query of any request has a part, and every clause of it content.   *)
LEMMA SearchFits ==
  ASSUME NEW fields \in IndexFields, NEW synonyms, NEW req \in Requests
  PROVE  QueryWellFormed(fields, synonyms, req)
<1> DEFINE q == Build(fields, synonyms, req)
<1>1. \A c \in q.filter : c.size > 0
  <2>1. q.filter = {[term |-> "site_id", size |-> 1] : s \in req.site} \cup FilterQuery(fields, req.filter)
    BY DEF Build
  <2>2. \A f \in DOMAIN req.filter : req.filter[f] \in FilterValues
    <3>1. req.filter \in Filters
      BY DEF Requests
    <3> QED
      BY <3>1 DEF Filters
  <2>3. \A c \in FilterQuery(fields, req.filter) : c.size > 0
    BY <2>2, ClausesHaveContent DEF FilterQuery
  <2> QED
    BY <2>1, <2>3
<1>2. \A c \in q.should : c.field \in Searchable(fields)
  <2>1. \A c \in KeywordQuery(fields, synonyms, req.keyword) : c.field \in Searchable(fields)
    BY DEF KeywordQuery, Match
  <2> QED
    BY <2>1 DEF Build
<1>3. q.must = IF q.should = {} /\ q.filter = {} THEN {"match_all"} ELSE {}
  BY DEF Build
<1>4. req.site # {} => q.filter # {}
  BY DEF Build
<1>5. req.keyword # {} /\ Searchable(fields) # {} => q.should # {}
  <2>1. Searchable(fields) # {} => KeywordQuery(fields, synonyms, req.keyword) # {}
    BY DEF KeywordQuery
  <2> QED
    BY <2>1 DEF Build
<1> HIDE DEF q
<1>6. /\ q.should \cup q.filter # {} \/ q.must # {}
      /\ req.site # {} \/ (req.keyword # {} /\ Searchable(fields) # {}) => q.must = {}
  BY <1>3, <1>4, <1>5
<1> QED
  BY <1>1, <1>2, <1>6 DEF QueryWellFormed, q

(* A second wrapping finds a type, so it changes nothing.                  *)
LEMMA AggregationsSettle ==
  ASSUME NEW agg, agg.type \in {"text", "map"}
  PROVE  AggsSettle(agg)
BY DEF AggsSettle, NormalizedAgg, HasAggType, AggTypes

-----------------------------------------------------------------------------
(* A number that an int can hold is the value it takes.                    *)
LEMMA Fits ==
  ASSUME NEW n \in Nat, n <= MaxInt
  PROVE  Int64(n) = n
<1>1. MaxInt \in Nat
  BY QueryNumbers
<1> DEFINE m == n + MaxInt + 1
           w == 2 * (MaxInt + 1)
<1>2. m \in 0..(w - 1) /\ w \in Nat \ {0}
  BY <1>1
<1>3. m % w = m
  <2> HIDE DEF m, w
  <2> QED
    BY <1>2
<1> QED
  BY <1>1, <1>3 DEF Int64

(* The hits before the page in front of this one and those on it are the   *)
(* hits before this one; none of the products leaves the int.              *)
LEMMA PagesLieSideBySide ==
  ASSUME NEW page \in Int, NEW limit \in Int
  PROVE  PagesTile(page, limit)
<1> SUFFICES ASSUME page > 1, page * MaxSize <= MaxInt
             PROVE  /\ From(page, limit) = From(page - 1, limit) + Size(limit)
                    /\ Size(limit) \in 1..MaxSize
  BY DEF PagesTile
<1> DEFINE s == Size(limit)
<1>1. MaxInt \in Nat /\ MaxSize \in Nat /\ s \in 1..MaxSize
  BY QueryNumbers DEF Size
<1>2. Page(page) = page /\ Page(page - 1) = page - 1
  BY DEF Page
<1>3. From(page, limit) = Int64((page - 1) * s) /\ From(page - 1, limit) = Int64((page - 2) * s)
  BY <1>2 DEF From
<1> HIDE DEF s
<1>4. \A k \in 0..page : k * s \in Nat /\ k * s <= MaxInt
  <2> TAKE k \in 0..page
  <2>1. k * s \in Nat
    BY <1>1
  <2>2. k * s <= page * s
    BY <1>1
  <2>3. page * s <= page * MaxSize
    BY <1>1
  <2> QED
    BY <1>1, <2>1, <2>2, <2>3
<1>5. Int64((page - 1) * s) = (page - 1) * s /\ Int64((page - 2) * s) = (page - 2) * s
  <2>1. page - 1 \in 0..page /\ page - 2 \in 0..page
    OBVIOUS
  <2> QED
    BY <1>4, <2>1, Fits
<1>6. (page - 1) * s = (page - 2) * s + s
  BY <1>1
<1> QED
  BY <1>1, <1>3, <1>5, <1>6 DEF s

-----------------------------------------------------------------------------
(* A prefix agrees with the id character by character.                     *)
LEMMA PrefixByCharacter ==
  ASSUME NEW S, NEW p \in Seq(S), NEW T, NEW id \in Seq(T)
  PROVE  IsPrefix(p, id) <=> Len(p) <= Len(id) /\ \A i \in 1..Len(p) : p[i] = id[i]
<1>1. ASSUME Len(p) <= Len(id)
      PROVE  /\ SubSeq(p, 1, Len(p)) = [i \in 1..Len(p) |-> p[i]]
             /\ SubSeq(id, 1, Len(p)) = [i \in 1..Len(p) |-> id[i]]
  BY <1>1
<1> QED
  BY <1>1 DEF IsPrefix

(* The first n characters of an id are a prefix of the ids that begin so.  *)
LEMMA Beginning ==
  ASSUME NEW T, NEW id \in Seq(T), NEW n \in 0..Len(id)
  PROVE  /\ SubSeq(id, 1, n) \in Seq(T)
         /\ Len(SubSeq(id, 1, n)) = n
         /\ \A i \in 1..n : SubSeq(id, 1, n)[i] = id[i]
OBVIOUS

(* Sequences of one length that agree character by character are equal.    *)
LEMMA SameCharacters ==
  ASSUME NEW S, NEW p \in Seq(S), NEW T, NEW q \in Seq(T), Len(p) = Len(q), \A i \in 1..Len(p) : p[i] = q[i]
  PROVE  p = q
<1>1. p = [i \in 1..Len(p) |-> p[i]] /\ q = [i \in 1..Len(q) |-> q[i]]
  OBVIOUS
<1> QED
  BY <1>1

(* A bucket of at most Limit ids lies before the result window, and its    *)
(* pages hold every one of them.                                           *)
LEMMA PagesHoldAll ==
  ASSUME NEW ids, IsFiniteSet(ids), Cardinality(ids) <= Limit
  PROVE  Paged(ids) = ids
<1> DEFINE N == Cardinality(ids)
           sorted == SetToSeq(ids)
           pages == {p \in 0..ResultWindow : p * PageLength < ResultWindow}
           On(p) == (p * PageLength + 1)..((p + 1) * PageLength)
<1>1. N \in Nat /\ ExistsBijection(1..N, ids)
  BY FS_CardinalityType
<1>2. sorted \in [1..N -> ids] /\ IsInjective(sorted)
  <2>1. PICK f \in Bijection(1..N, ids) : TRUE
    BY <1>1 DEF ExistsBijection
  <2>2. f \in [1..N -> ids] /\ IsInjective(f)
    BY <2>1 DEF Bijection, Injection
  <2> QED
    BY <2>2 DEF SetToSeq
<1>3. \A id \in ids : \E i \in 1..N : sorted[i] = id
  <2>1. sorted \in Injection(1..N, ids)
    BY <1>2 DEF Injection
  <2>2. Cardinality(1..N) = N
    BY <1>1, FS_Interval
  <2>3. sorted \in Surjection(1..N, ids)
    BY <2>1, <2>2, FS_Injection
  <2> QED
    BY <2>3 DEF Surjection
<1>4. \A i \in 1..N : \E p \in pages : i \in On(p)
  <2> TAKE i \in 1..N
  <2> DEFINE p == (i - 1) \div PageLength
  <2>1. PageLength \in Nat \ {0} /\ Limit \in Nat /\ Limit < ResultWindow /\ ResultWindow \in Int
    BY BucketSizes
  <2>2. p \in Nat /\ p * PageLength <= i - 1 /\ i - 1 < (p + 1) * PageLength
    BY <1>1, <2>1
  <2>3. i \in Int /\ i - 1 < ResultWindow
    BY <1>1, <2>1
  <2> HIDE DEF p
  <2>4. p <= p * PageLength
    BY <2>1, <2>2
  <2>5. p * PageLength \in Nat /\ (p + 1) * PageLength \in Nat
    BY <2>1, <2>2
  <2>6. p \in pages
    BY <2>1, <2>2, <2>3, <2>4, <2>5
  <2>7. i \in On(p)
    BY <2>2, <2>3, <2>5
  <2> QED
    BY <2>6, <2>7
<1>5. Paged(ids) = {sorted[i] : i \in {i \in DOMAIN sorted : \E p \in pages : i \in On(p)}}
  BY DEF Paged
<1> HIDE DEF sorted, pages, On, N
<1>6. DOMAIN sorted = 1..N
  BY <1>2
<1> QED
  BY <1>2, <1>3, <1>4, <1>5, <1>6

(* What the buckets below a prefix should list: the ids that begin with it *)
(* and whose next character is tried wherever their bucket is split up.    *)
Many(ids, p) == Cardinality(Matching(ids, p)) > Limit
Tried(p) == Alphanumerics \cup (IF p = <<>> THEN {Underscore} ELSE {})
PrefixTexts == Seq(Alphanumerics \cup {Underscore})

ReachedBelow(ids, p) ==
  {id \in Matching(ids, p) :
     \A n \in Len(p)..(Len(id) - 1) :
        Many(ids, SubSeq(id, 1, n)) => id[n + 1] \in Tried(SubSeq(id, 1, n))}

(* One bucket, from those of the longer prefixes.                          *)
Step(ids, f, p) ==
  IF Cardinality(Matching(ids, p)) = 0 THEN {}
  ELSE IF Cardinality(Matching(ids, p)) > Limit
  THEN Own(ids, p) \cup UNION {f[Append(p, c)] : c \in Tried(p)}
  ELSE Paged(Matching(ids, p))

(* A set of ids as an index may hold it.                                   *)
Index(ids, C, N) ==
  /\ IsFiniteSet(ids) /\ N \in Nat
  /\ \A id \in ids : id \in Seq(C) /\ Len(id) \in 1..N

(* A longer prefix leaves fewer ids.                                       *)
LEMMA FewerBelow ==
  ASSUME NEW ids, NEW C, NEW N, Index(ids, C, N), NEW p \in PrefixTexts,
         NEW id \in Matching(ids, p), NEW n \in Len(p)..Len(id)
  PROVE  /\ IsFiniteSet(Matching(ids, p)) /\ Cardinality(Matching(ids, p)) \in Nat
         /\ Matching(ids, SubSeq(id, 1, n)) \subseteq Matching(ids, p)
         /\ Cardinality(Matching(ids, SubSeq(id, 1, n))) \in Nat
         /\ Cardinality(Matching(ids, SubSeq(id, 1, n))) <= Cardinality(Matching(ids, p))
<1> DEFINE q == SubSeq(id, 1, n)
<1>1. id \in ids /\ id \in Seq(C) /\ IsPrefix(p, id) /\ \A x \in ids : x \in Seq(C)
  BY DEF Matching, Index
<1>2. Len(p) <= Len(id) /\ \A i \in 1..Len(p) : p[i] = id[i]
  BY <1>1, PrefixByCharacter DEF PrefixTexts
<1>3. Len(p) \in Nat /\ Len(id) \in Nat
  BY <1>1 DEF PrefixTexts
<1>4. q \in Seq(C) /\ Len(q) = n /\ \A i \in 1..n : q[i] = id[i]
  BY <1>1, <1>3, Beginning
<1> HIDE DEF q
<1>5. ASSUME NEW x \in ids, IsPrefix(q, x) PROVE IsPrefix(p, x)
  <2>1. Len(q) <= Len(x) /\ \A i \in 1..Len(q) : q[i] = x[i]
    BY <1>1, <1>4, <1>5, PrefixByCharacter
  <2>2. x \in Seq(C)
    BY <1>1
  <2>3. Len(p) <= Len(x) /\ \A i \in 1..Len(p) : p[i] = x[i]
    BY <1>2, <1>3, <1>4, <2>1, <2>2
  <2> QED
    BY <2>2, <2>3, PrefixByCharacter DEF PrefixTexts
<1>6. Matching(ids, q) \subseteq Matching(ids, p)
  BY <1>5 DEF Matching
<1>7. IsFiniteSet(Matching(ids, p))
  BY FS_Subset DEF Matching, Index
<1> QED
  BY <1>6, <1>7, FS_Subset, FS_CardinalityType DEF q

(* That is what one bucket lists if the buckets below it list so.          *)
LEMMA BucketStep ==
  ASSUME NEW ids, NEW C, NEW N, Index(ids, C, N), NEW p \in PrefixTexts,
         NEW f, \A c \in Tried(p) : f[Append(p, c)] = ReachedBelow(ids, Append(p, c))
  PROVE  Step(ids, f, p) = ReachedBelow(ids, p)
<1> DEFINE found == Matching(ids, p)
<1>1. IsFiniteSet(found) /\ Cardinality(found) \in Nat
  BY FS_Subset, FS_CardinalityType DEF Matching, Index
<1>2. p \in Seq(Alphanumerics \cup {Underscore}) /\ Len(p) \in Nat /\ Limit \in Nat
  BY BucketSizes DEF PrefixTexts
<1>3. ASSUME NEW id \in found
      PROVE  /\ id \in ids /\ id \in Seq(C) /\ Len(id) \in Nat /\ Len(id) > 0 /\ IsPrefix(p, id)
             /\ Len(p) <= Len(id) /\ \A i \in 1..Len(p) : p[i] = id[i]
  <2>1. id \in ids /\ id \in Seq(C) /\ Len(id) \in Nat /\ Len(id) > 0 /\ IsPrefix(p, id)
    BY DEF Matching, Index
  <2> QED
    BY <1>2, <2>1, PrefixByCharacter
<1>4. CASE Cardinality(found) = 0
  <2>1. found = {}
    BY <1>1, <1>4, FS_EmptySet
  <2> QED
    BY <1>4, <2>1 DEF Step, ReachedBelow
<1>5. CASE Cardinality(found) # 0 /\ Cardinality(found) <= Limit
  <2>1. Step(ids, f, p) = found
    BY <1>1, <1>2, <1>5, PagesHoldAll DEF Step
  <2>2. ASSUME NEW id \in found, NEW n \in Len(p)..(Len(id) - 1)
        PROVE  ~Many(ids, SubSeq(id, 1, n))
    <3>1. n \in Len(p)..Len(id)
      BY <1>2, <1>3
    <3> QED
      BY <1>1, <1>2, <1>5, <3>1, FewerBelow DEF Many
  <2> QED
    BY <2>1, <2>2 DEF ReachedBelow
<1>6. CASE Cardinality(found) > Limit
  <2>1. Step(ids, f, p) = Own(ids, p) \cup UNION {ReachedBelow(ids, Append(p, c)) : c \in Tried(p)}
    BY <1>1, <1>2, <1>6 DEF Step
  <2>2. Many(ids, p)
    BY <1>6 DEF Many
  <2>3. ASSUME NEW c \in Tried(p)
        PROVE  /\ Append(p, c) \in PrefixTexts
               /\ Len(Append(p, c)) = Len(p) + 1
               /\ Append(p, c)[Len(p) + 1] = c
               /\ \A i \in 1..Len(p) : Append(p, c)[i] = p[i]
    <3>1. c \in Alphanumerics \cup {Underscore}
      BY DEF Tried
    <3> QED
      BY <1>2, <3>1 DEF PrefixTexts
  <2>4. ASSUME NEW id \in found, Len(id) # Len(p) PROVE SubSeq(id, 1, Len(p)) = p
    <3>1. Len(p) \in 0..Len(id)
      BY <1>2, <1>3
    <3> QED
      BY <1>2, <1>3, <3>1, Beginning, SameCharacters
  <2>5. ASSUME NEW id \in ReachedBelow(ids, p)
        PROVE  id \in Step(ids, f, p)
    <3>1. id \in found
      BY DEF ReachedBelow
    <3>2. CASE Len(id) = Len(p)
      <4>1. id = p /\ p # <<>>
        BY <1>2, <1>3, <3>1, <3>2, SameCharacters
      <4> QED
        BY <1>3, <2>1, <3>1, <4>1 DEF Own, ExactId
    <3>3. CASE Len(id) # Len(p)
      <4> DEFINE c == id[Len(p) + 1]
                 q == Append(p, c)
      <4>1. Len(p) \in Len(p)..(Len(id) - 1) /\ SubSeq(id, 1, Len(p)) = p
        BY <1>2, <1>3, <2>4, <3>1, <3>3
      <4>2. c \in Tried(p)
        BY <2>2, <4>1 DEF ReachedBelow
      <4>3. Len(q) = Len(p) + 1 /\ q \in PrefixTexts /\ \A i \in 1..Len(q) : q[i] = id[i]
        BY <1>2, <1>3, <2>3, <3>1, <4>2
      <4> HIDE DEF q
      <4>4. IsPrefix(q, id)
        BY <1>2, <1>3, <3>1, <4>1, <4>3, PrefixByCharacter DEF PrefixTexts
      <4>5. id \in ReachedBelow(ids, q)
        <5>1. \A n \in Len(q)..(Len(id) - 1) : n \in Len(p)..(Len(id) - 1)
          BY <1>2, <4>3
        <5> QED
          BY <1>3, <3>1, <4>4, <5>1 DEF ReachedBelow, Matching
      <4> QED
        BY <2>1, <4>2, <4>5 DEF q
    <3> QED
      BY <3>2, <3>3
  <2>6. ASSUME NEW id \in Own(ids, p)
        PROVE  id \in ReachedBelow(ids, p)
    <3>1. id = p /\ id \in ids
      BY DEF Own, ExactId
    <3>2. id \in found
      BY <3>1 DEF Matching, IsPrefix, Index
    <3> QED
      BY <1>2, <3>1, <3>2 DEF ReachedBelow
  <2>7. ASSUME NEW c \in Tried(p), NEW id \in ReachedBelow(ids, Append(p, c))
        PROVE  id \in ReachedBelow(ids, p)
    <3> DEFINE q == Append(p, c)
    <3>1. id \in ids /\ id \in Seq(C) /\ IsPrefix(q, id)
      BY DEF ReachedBelow, Matching, Index
    <3>2. Len(q) = Len(p) + 1 /\ q[Len(p) + 1] = c /\ q \in PrefixTexts /\ \A i \in 1..Len(p) : q[i] = p[i]
      BY <2>3
    <3>3. \A n \in Len(q)..(Len(id) - 1) : Many(ids, SubSeq(id, 1, n)) => id[n + 1] \in Tried(SubSeq(id, 1, n))
      BY DEF ReachedBelow
    <3> HIDE DEF q
    <3>4. Len(q) <= Len(id) /\ \A i \in 1..Len(q) : q[i] = id[i]
      BY <3>1, <3>2, PrefixByCharacter DEF PrefixTexts
    <3>5. Len(p) <= Len(id) /\ id[Len(p) + 1] = c /\ \A i \in 1..Len(p) : p[i] = id[i]
      BY <1>2, <3>1, <3>2, <3>4
    <3>6. id \in found
      BY <1>2, <3>1, <3>5, PrefixByCharacter DEF Matching
    <3>7. SubSeq(id, 1, Len(p)) = p
      BY <1>2, <1>3, <2>4, <3>1, <3>2, <3>4, <3>6
    <3>8. \A n \in Len(p)..(Len(id) - 1) : n = Len(p) \/ n \in Len(q)..(Len(id) - 1)
      BY <1>2, <3>1, <3>2
    <3>9. \A n \in Len(p)..(Len(id) - 1) : Many(ids, SubSeq(id, 1, n)) => id[n + 1] \in Tried(SubSeq(id, 1, n))
      BY <3>3, <3>5, <3>7, <3>8
    <3> QED
      BY <3>6, <3>9 DEF ReachedBelow
  <2> QED
    BY <2>1, <2>5, <2>6, <2>7
<1> QED
  BY <1>1, <1>2, <1>4, <1>5, <1>6

(* The recursion ends: buckets are the function it describes, as a prefix  *)
(* longer than every id has no ids.  Of two functions that fit it, take    *)
(* the longest prefix at which they differ: one below it differs too.      *)
LEMMA BucketsList ==
  ASSUME NEW ids, NEW C, NEW N, Index(ids, C, N)
  PROVE  \A p \in PrefixTexts : Collected(ids)[p] = ReachedBelow(ids, p)
<1> DEFINE g == [p \in PrefixTexts |-> ReachedBelow(ids, p)]
           f == Collected(ids)
<1>1. \A p \in PrefixTexts : \A c \in Tried(p) : Append(p, c) \in PrefixTexts /\ Len(Append(p, c)) = Len(p) + 1
  BY DEF PrefixTexts, Tried
<1>2. g = [p \in PrefixTexts |-> Step(ids, g, p)]
  <2>1. \A p \in PrefixTexts : Step(ids, g, p) = ReachedBelow(ids, p)
    BY <1>1, BucketStep
  <2> QED
    BY <2>1
<1>3. f = CHOOSE h : h = [p \in PrefixTexts |-> Step(ids, h, p)]
  BY DEF Collected, Step, Tried, PrefixTexts
<1>4. f = [p \in PrefixTexts |-> Step(ids, f, p)]
  <2> HIDE DEF g
  <2> QED
    BY <1>2, <1>3
<1> DEFINE D == {p \in PrefixTexts : f[p] # ReachedBelow(ids, p)}
           L == {N - Len(p) : p \in D}
           R == OpToRel(<, Nat)
<1>5. \A p \in D : Len(p) \in Nat /\ Len(p) <= N
  <2> SUFFICES ASSUME NEW p \in PrefixTexts, Len(p) > N
               PROVE  f[p] = ReachedBelow(ids, p)
    BY DEF PrefixTexts, Index
  <2>1. Matching(ids, p) = {}
    BY DEF Matching, Index, IsPrefix, PrefixTexts
  <2>2. Step(ids, f, p) = {} /\ ReachedBelow(ids, p) = {}
    BY <2>1, FS_EmptySet DEF Step, ReachedBelow
  <2> QED
    BY <1>4, <2>2
<1>6. D = {}
  <2> SUFFICES ASSUME D # {} PROVE FALSE
    OBVIOUS
  <2>1. L \subseteq Nat /\ L # {}
    BY <1>5 DEF Index
  <2>2. IsWellFoundedOn(R, Nat)
    BY NatLessThanWellFounded
  <2>3. \A x \in Nat, y \in Nat : <<y, x>> \in R <=> y < x
    BY DEF OpToRel
  <2> HIDE DEF R
  <2>4. PICK m \in L : \A k \in L : ~(<<k, m>> \in R)
    BY <2>1, <2>2, WFMin
  <2>5. PICK p \in D : m = N - Len(p)
    BY <2>4
  <2>6. ASSUME NEW q \in D PROVE Len(q) <= Len(p)
    <3>1. N - Len(q) \in L /\ N - Len(q) \in Nat /\ m \in Nat
      BY <2>1, <2>4, <2>6
    <3>2. ~(N - Len(q) < m)
      BY <2>3, <2>4, <3>1
    <3> QED
      BY <1>5, <2>5, <2>6, <3>2 DEF Index
  <2>7. \A c \in Tried(p) : f[Append(p, c)] = ReachedBelow(ids, Append(p, c))
    <3> SUFFICES ASSUME NEW c \in Tried(p) PROVE Append(p, c) \notin D
      BY <1>1
    <3> DEFINE below == Append(p, c)
    <3>1. Len(below) = Len(p) + 1 /\ Len(p) \in Nat
      BY <1>1, <1>5
    <3>2. \A q \in D : Len(q) <= Len(p)
      BY <2>6
    <3> HIDE DEF D, below
    <3>3. below \notin D
      BY <3>1, <3>2
    <3> QED
      BY <3>3 DEF below
  <2>8. Step(ids, f, p) = ReachedBelow(ids, p)
    BY <2>7, BucketStep
  <2> QED
    BY <1>4, <2>8
<1> QED
  BY <1>6

(* scrollAllIDs lists the ids in reach, all of them and no others.         *)
LEMMA IdsInReachAreListed ==
  ASSUME NEW ids, NEW C, NEW N, Index(ids, C, N)
  PROVE  EveryIdInReachIsListed(ids)
<1>1. <<>> \in PrefixTexts /\ Len(<<>>) = 0
  BY DEF PrefixTexts
<1>2. AllIds(ids) = ReachedBelow(ids, <<>>)
  BY <1>1, BucketsList DEF AllIds
<1>3. ASSUME NEW id \in ids
      PROVE  IsPrefix(<<>>, id) /\ id \in Seq(C) /\ Len(id) \in Nat
  <2>1. id \in Seq(C) /\ Len(id) \in Nat
    BY DEF Index
  <2> DEFINE none == <<>>
  <2>2. none \in Seq(C) /\ Len(none) = 0
    OBVIOUS
  <2> HIDE DEF none
  <2>3. Len(none) <= Len(id) /\ \A i \in 1..Len(none) : none[i] = id[i]
    BY <2>1, <2>2
  <2>4. IsPrefix(none, id)
    BY <2>1, <2>2, <2>3, PrefixByCharacter
  <2> QED
    BY <2>1, <2>4 DEF none
<1>4. ASSUME NEW id \in ids, NEW n \in 0..(Len(id) - 1)
      PROVE  id[n + 1] \in Tried(SubSeq(id, 1, n)) <=> id[n + 1] \in Alphanumerics \/ (n = 0 /\ id[1] = Underscore)
  <2>1. SubSeq(id, 1, n) = <<>> <=> n = 0
    <3>1. Len(SubSeq(id, 1, n)) = n /\ SubSeq(id, 1, n) \in Seq(C)
      BY <1>3, Beginning
    <3> QED
      BY <3>1
  <2> QED
    BY <2>1 DEF Tried
<1>5. ReachedBelow(ids, <<>>) = {id \in ids : InReach(ids, id)}
  <2>1. Matching(ids, <<>>) = ids
    BY <1>3 DEF Matching
  <2> QED
    BY <1>1, <1>4, <2>1 DEF ReachedBelow, InReach, Many
<1> QED
  BY <1>2, <1>5 DEF EveryIdInReachIsListed

-----------------------------------------------------------------------------
(* What an input of each kind is made of.                                  *)
Inputs ==
  /\ input.of = "column" => input.value \in ColumnValues
  /\ input.of = "condition" => input.base \in BaseQueries
  /\ input.of = "search" => input.fields \in IndexFields /\ input.req \in Requests
  /\ input.of = "page" => input.page \in Int /\ input.limit \in Int
  /\ input.of = "agg" => input.agg.type \in {"text", "map"}
  /\ input.of = "ids" => Index(input.ids, Characters, MaxLength)

LEMMA Invariant == Spec => []Inputs
<1>1. Init => Inputs
  BY DEF Init, Inputs
<1>2. Inputs /\ [Next]_input => Inputs'
  <2> SUFFICES ASSUME Inputs, [Next]_input PROVE Inputs'
    OBVIOUS
  <2>1. CASE Convert
    BY <2>1 DEF Convert, Inputs
  <2>2. CASE Combine
    BY <2>2 DEF Combine, Inputs
  <2>3. CASE Search
    BY <2>3 DEF Search, Inputs
  <2>4. CASE Turn
    <3>1. Ints \subseteq Int
      BY QueryNumbers DEF Ints
    <3> QED
      BY <2>4, <3>1 DEF Turn, Inputs
  <2>5. CASE Aggregate
    BY <2>5 DEF Aggregate, Inputs
  <2>6. CASE Enumerate
    <3> PICK n \in 0..MaxIds : \E id \in [1..n -> Ids] : input' = [of |-> "ids", ids |-> Range(id)]
      BY <2>6 DEF Enumerate
    <3>1. PICK id \in [1..n -> Ids] : input' = [of |-> "ids", ids |-> Range(id)]
      OBVIOUS
    <3>2. IsFiniteSet(Range(id))
      <4>1. n \in Nat
        BY IndexSizes
      <4>2. IsFiniteSet(1..n)
        BY <4>1, FS_Interval
      <4>3. id \in Surjection(1..n, Range(id))
        BY DEF Surjection, Range
      <4> QED
        BY <4>2, <4>3, FS_Surjection
    <3>3. \A x \in Ids : x \in Seq(Characters) /\ Len(x) \in 1..MaxLength
      BY IndexSizes DEF Ids
    <3>4. Index(Range(id), Characters, MaxLength)
      BY <3>2, <3>3, IndexSizes DEF Index, Range
    <3> QED
      BY <3>1, <3>4 DEF Inputs
  <2>7. CASE UNCHANGED input
    BY <2>7 DEF Inputs
  <2> QED
    BY <2>1, <2>2, <2>3, <2>4, <2>5, <2>6, <2>7 DEF Next
<1> QED
  BY <1>1, <1>2, PTL DEF Spec

(* A column arrives in Zinc as its mapping says (ColumnsFit): convertValue *)
(* in builder.go against buildMapping in manager.go.                       *)
THEOREM ColumnsAsMapped == Spec => []ColumnsFit
<1>1. Inputs => ColumnsFit
  BY ColumnFits DEF Inputs, ColumnsFit
<1> QED
  BY <1>1, Invariant, PTL

(* The condition of an incremental or by_ids query narrows sql_query and   *)
(* loses none of its rows (QueriesCombine): combineQueries in builder.go.  *)
THEOREM QueriesCombined == Spec => []QueriesCombine
<1>1. BaseQueries \subseteq Seq(SUBSET Conditions)
  BY DEF BaseQueries, Conditions
<1>2. Inputs => QueriesCombine
  BY <1>1, ConditionsCombine DEF Inputs, QueriesCombine
<1> QED
  BY <1>2, Invariant, PTL

(* Every search has a part and no empty clause, and an aggregation is      *)
(* wrapped once (SearchesFit): Build and normalizeAggs in query/builder.go.*)
THEOREM SearchesWellFormed == Spec => []SearchesFit
<1>1. Inputs => SearchesFit
  BY SearchFits, AggregationsSettle DEF Inputs, SearchesFit
<1> QED
  BY <1>1, Invariant, PTL

(* Pages leave no gap and do not overlap while the numbers fit into an int *)
(* (PagesFit): from and size in Build, for any MaxInt.                     *)
THEOREM PagesWithoutGaps == Spec => []PagesFit
<1>1. Inputs => PagesFit
  BY PagesLieSideBySide DEF Inputs, PagesFit
<1> QED
  BY <1>1, Invariant, PTL

(* Reconciliation lists every id in reach and nothing else (IdsListed), for *)
(* any index and any Limit, PageLength and ResultWindow that fit together:  *)
(* collectBucket and scrollAllIDs in reconcile.go.                          *)
THEOREM IdsInReachListed == Spec => []IdsListed
<1>1. Inputs => IdsListed
  BY IdsInReachAreListed DEF Inputs, IdsListed
<1> QED
  BY <1>1, Invariant, PTL

(* The _id of a document is the text reconciliation compares it with       *)
(* (KeysFit), whatever the lists say of the key's column: the conversion   *)
(* of builder.go:276-279, 400-419 against the scan of reconcile.go.        *)
THEOREM KeysHaveOneText == Spec => []KeysFit
<1>1. ASSUME NEW v \in ColumnValues, NEW f PROVE KeysAgree(v, f)
  <2>1. CASE v.kind = "int"
    BY <2>1 DEF KeysAgree, DocId, ReconcileKey, Converted, Shown, Value
  <2>2. CASE v.kind = "bytes" /\ Declared(f)
    BY <2>2 DEF KeysAgree, DocId, ReconcileKey, Converted, Coerced, Shown, Declared, Value
  <2> QED BY <2>1, <2>2 DEF KeysAgree
<1>2. Inputs => KeysFit
  BY <1>1 DEF Inputs, KeysFit
<1> QED
  BY <1>2, Invariant, PTL
=============================================================================

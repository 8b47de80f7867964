----------------------------- MODULE Documents -----------------------------
(***************************************************************************)
(* From rows to documents (internal/indexer/builder.go) and from the same  *)
(* configuration to the mapping in Zinc (lifecycle/manager.go).            *)
(*                                                                         *)
(* A value is the Go type it arrives in and its text; Numerals are texts   *)
(* that parse as numbers, BigNumerals those that %v prints with an         *)
(* exponent as a float.  A condition of a query is a name, a row is the    *)
(* set of the conditions it meets.                                         *)
(***************************************************************************)
EXTENDS Naturals, Sequences

Numerals    == {"12", "1234567"}
BigNumerals == {"1234567"}
Texts       == Numerals \cup {"ab", "a b"}

Value(k, t) == [kind |-> k, text |-> t]

(* What the driver hands out: text, DECIMAL and the like come as bytes. *)
ColumnValues == [kind : {"bytes"}, text : Texts] \cup [kind : {"int", "float"}, text : Numerals]
                  \cup {Value("time", "12"), Value("nil", "")}

-----------------------------------------------------------------------------
(* NewDocumentBuilder.  A source is the fields of the configuration and    *)
(* eight lists of columns; the fields come first, then each list in turn.  *)
Field(type, array, format) == [type |-> type, array |-> array, format |-> format]

Lists == <<"attr_uint", "attr_float", "attr_timestamp", "attr_keyword",
           "attr_array", "field_text", "field_keyword", "field_array">>

ListField(l) ==
    CASE l \in {"attr_uint", "attr_keyword", "field_keyword"} -> Field("keyword", FALSE, "")
      [] l = "attr_float"     -> Field("float", FALSE, "")
      [] l = "attr_timestamp" -> Field("date", FALSE, "unix_timestamp")
      [] l = "attr_array"     -> Field("keyword", TRUE, "")
      [] l = "field_text"     -> Field("text", FALSE, "")
      [] l = "field_array"    -> Field("text", TRUE, "")

(* Declared: fields of the configuration, an empty type is text by then.   *)
(* listed: the lists a column is in.                                       *)
NoField == Field("none", FALSE, "")

Declared(f) == f.type # "none"

FirstList(listed) == Lists[CHOOSE i \in DOMAIN Lists : Lists[i] \in listed
                                      /\ \A j \in 1..(i - 1) : Lists[j] \notin listed]

(* Mutant of BuilderField: the lists have the last word. *)
BuilderFieldFromList(declared, listed) ==
    IF listed # {} THEN ListField(FirstList(listed)) ELSE declared

BuilderField(declared, listed) ==
    IF Declared(declared) THEN declared
    ELSE IF listed # {} THEN ListField(FirstList(listed))
    ELSE NoField

(* buildMapping: what Zinc is told of a column, if anything. *)
MappingField(declared) == declared

-----------------------------------------------------------------------------
(* Mutant of Coerced: every number is parsed as a float. *)
CoercedToFloat(t, f) ==
    IF t \notin Numerals THEN Value("string", t)
    ELSE CASE f.type \in {"float", "double", "int", "long", "numeric", "integer"} -> Value("float", t)
           [] f.type = "date" /\ f.format = "unix_timestamp" -> Value("int", t)
           [] OTHER -> Value("string", t)

(* coerceNumeric *)
Coerced(t, f) ==
    IF t \notin Numerals THEN Value("string", t)
    ELSE CASE f.type \in {"float", "double"} -> Value("float", t)
           [] f.type \in {"int", "long", "numeric", "integer"} -> Value("int", t)
           [] f.type = "date" /\ f.format = "unix_timestamp" -> Value("int", t)
           [] OTHER -> Value("string", t)

(* convertValue.  Bytes in an array field are converted one by one: the    *)
(* branch that splits a text at its spaces is for strings, which the       *)
(* driver never hands out.                                                 *)
Converted(v, f) ==
    IF ~Declared(f) \/ v.kind = "nil" THEN v
    ELSE CASE v.kind = "int"   -> IF f.type \in {"float", "double"} THEN Value("float", v.text) ELSE v
           [] v.kind = "float" -> v
           [] v.kind = "time"  -> IF f.format = "unix_timestamp" THEN Value("int", v.text) ELSE Value("string", "rfc3339")
           [] v.kind = "bytes" -> IF f.array THEN Value("codes", v.text) ELSE Coerced(v.text, f)

(* %v *)
Shown(v) ==
    CASE v.kind \in {"bytes", "codes"} -> Value("codes", v.text)
      [] v.kind = "float" /\ v.text \in BigNumerals -> Value("exponent", v.text)
      [] v.kind = "time" -> Value("date", v.text)
      [] v.kind = "nil"  -> Value("nil", "")
      [] OTHER -> Value("plain", v.text)

(* The key of a row as two parts of the program write it: as _id, and      *)
(* scanned into a string for reconciliation.                               *)
DocId(pk, f)     == Shown(Converted(pk, f))
ReconcileKey(pk) == IF pk.kind = "time" THEN Value("date", pk.text) ELSE Value("plain", pk.text)

(* scanRows: a time becomes seconds, anything else its %v. *)
CursorOf(v) == IF v.kind = "time" THEN Value("plain", v.text) ELSE Shown(v)

-----------------------------------------------------------------------------
(* combineQueries.  A base query is a sequence of alternatives, each a set *)
(* of conditions; without WHERE it is empty.  The text of the second       *)
(* condition is put behind the first query with AND.                       *)
Meets(row, alternatives) ==
    alternatives = <<>> \/ \E i \in DOMAIN alternatives : alternatives[i] \subseteq row

(* Mutant of Combined: AND forgotten, the base's condition is replaced. *)
CombinedOver(base, inc) == <<{inc}>>

Combined(base, inc) ==
    IF base = <<>> THEN <<{inc}>>
    ELSE [base EXCEPT ![Len(base)] = @ \cup {inc}]

-----------------------------------------------------------------------------
(* What Zinc is told of a column holds for its values, whatever lists name *)
(* the column as well: numbers arrive as numbers of the declared kind, and *)
(* nothing arrives as bytes, which JSON would write in base64.             *)
NumberKind(f) ==
    CASE f.type \in {"float", "double"} -> "float"
      [] f.type \in {"int", "long", "numeric", "integer"} -> "int"
      [] f.type = "date" /\ f.format = "unix_timestamp" -> "int"
      [] OTHER -> "none"

ValuesFitMapping(v, declared, listed) ==
    LET told == MappingField(declared)
        sent == Converted(v, BuilderField(declared, listed)).kind
    IN Declared(told) /\ ~told.array =>
         /\ sent \in {"int", "float", "string", "nil"}
         /\ v.kind \in {"int", "bytes"} /\ v.text \in Numerals /\ NumberKind(told) # "none"
              => sent = NumberKind(told)

(* The query of an incremental or by_ids run finds every row it is for,    *)
(* and no row that sql_query itself leaves out.                            *)
CombinedQueryFaithful(base, inc, row) ==
    /\ Meets(row, Combined(base, inc)) => Meets(row, base)
    /\ Meets(row, base) /\ inc \in row => Meets(row, Combined(base, inc))

(* One row has one key: the _id of its document is the text that           *)
(* reconciliation reads from the key column and compares it with.          *)
(* Excepted are keys that arrive as bytes in a column which no field and   *)
(* no list names, whose _id is the list of their codes, and keys in array  *)
(* or float columns.                                                       *)
KeysAgree(pk, f) ==
    /\ pk.kind = "int" \/ (pk.kind = "bytes" /\ Declared(f))
    /\ ~f.array /\ f.type \notin {"float", "double"}
    => DocId(pk, f) = ReconcileKey(pk)
=============================================================================

--------------------------- MODULE MetadataFilters ---------------------------
(***************************************************************************)
(* Filters on the metadata of a document (src/src/rag/types.rs): atomic    *)
(* conditions on a field and their combinations.  A value is a kind and a  *)
(* number; the number of a text is what it stands for, and a text contains *)
(* the texts with smaller numbers.  NaN is left out.                       *)
(***************************************************************************)
EXTENDS Integers, Sequences, FiniteSets

CONSTANTS
    Fields,
    Numbers

VARIABLE filtered   \* metadata, a filter and whether they match; before that << >>

MetadataValues == [kind : {"String", "Int", "Float", "Bool"}, number : Numbers]
Metadatas == UNION {[F -> MetadataValues] : F \in SUBSET Fields}

\* A field of a kind, as a set of at most one number: as_f64 takes an integer too.
AsF64(meta, f) ==
    {meta[f].number : g \in {h \in {f} \intersect DOMAIN meta : meta[h].kind \in {"Int", "Float"}}}
AsString(meta, f) ==
    {meta[f].number : g \in {h \in {f} \intersect DOMAIN meta : meta[h].kind = "String"}}

\* Faulty: a missing field is no reason to be in.
ConditionMatchesPresent(c, meta) ==
    CASE c.op = "Eq" -> c.field \in DOMAIN meta /\ meta[c.field] = c.value
      [] c.op = "Ne" -> c.field \in DOMAIN meta /\ meta[c.field] # c.value
      [] c.op = "In" -> c.field \in DOMAIN meta /\ meta[c.field] \in c.values
      [] c.op = "NotIn" -> c.field \in DOMAIN meta /\ meta[c.field] \notin c.values
      [] c.op = "Gt" -> \E v \in AsF64(meta, c.field) : v > c.value.number
      [] c.op = "Gte" -> \E v \in AsF64(meta, c.field) : v >= c.value.number
      [] c.op = "Lt" -> \E v \in AsF64(meta, c.field) : v < c.value.number
      [] c.op = "Lte" -> \E v \in AsF64(meta, c.field) : v <= c.value.number
      [] c.op = "Contains" -> \E v \in AsString(meta, c.field) : c.value.number <= v

\* FilterCondition::matches.
ConditionMatches(c, meta) ==
    CASE c.op = "Eq" -> c.field \in DOMAIN meta /\ meta[c.field] = c.value
      [] c.op = "Ne" -> c.field \in DOMAIN meta => meta[c.field] # c.value
      [] c.op = "In" -> c.field \in DOMAIN meta /\ meta[c.field] \in c.values
      [] c.op = "NotIn" -> c.field \in DOMAIN meta => meta[c.field] \notin c.values
      [] c.op = "Gt" -> \E v \in AsF64(meta, c.field) : v > c.value.number
      [] c.op = "Gte" -> \E v \in AsF64(meta, c.field) : v >= c.value.number
      [] c.op = "Lt" -> \E v \in AsF64(meta, c.field) : v < c.value.number
      [] c.op = "Lte" -> \E v \in AsF64(meta, c.field) : v <= c.value.number
      [] c.op = "Contains" -> \E v \in AsString(meta, c.field) : c.value.number <= v

\* MetadataFilter::matches.
RECURSIVE FilterMatches(_, _)
FilterMatches(f, meta) ==
    CASE f.op = "And" -> \A i \in DOMAIN f.of : FilterMatches(f.of[i], meta)
      [] f.op = "Or" -> \E i \in DOMAIN f.of : FilterMatches(f.of[i], meta)
      [] f.op = "Not" -> ~ FilterMatches(f.of[1], meta)
      [] OTHER -> ConditionMatches(f, meta)

Conditions ==
    [op : {"Eq", "Ne", "Gt", "Gte", "Lt", "Lte", "Contains"}, field : Fields, value : MetadataValues]
      \union [op : {"In", "NotIn"}, field : Fields, values : SUBSET [kind : {"Int"}, number : Numbers]]

FilterInit == filtered = << >>

\* What two conditions, alone and combined, say of a document.
Filter ==
    /\ filtered = << >>
    /\ \E meta \in Metadatas, a, b \in Conditions :
         filtered' = [meta |-> meta, a |-> a, b |-> b]

FilterNext == Filter

-----------------------------------------------------------------------------
(* Properties                                                              *)

Says(f) == FilterMatches(f, filtered.meta)
Not(f) == [op |-> "Not", of |-> <<f>>]
And(f, g) == [op |-> "And", of |-> <<f, g>>]
Or(f, g) == [op |-> "Or", of |-> <<f, g>>]
With(f, op) == [f EXCEPT !.op = op]

\* Ne and NotIn are the negations of Eq and In for every document, with the field or without;
\* of the comparisons, which need a number, at most one of two opposites holds, and exactly
\* one if there is a number; and a combination obeys De Morgan's laws (types.rs:290-389).
FiltersAreDual ==
    filtered # << >> =>
        LET a == filtered.a  b == filtered.b IN
        /\ a.op = "Eq" => Says(With(a, "Ne")) = Says(Not(a))
        /\ a.op = "In" => Says(With(a, "NotIn")) = Says(Not(a))
        /\ a.op = "Gt" => (Says(a) \/ Says(With(a, "Lte"))) = (AsF64(filtered.meta, a.field) # {})
        /\ a.op = "Lt" => ~ (Says(a) /\ Says(With(a, "Gte")))
        /\ a.op = "Eq" /\ Says(a) /\ a.value.kind \in {"Int", "Float"} =>
             Says(And(With(a, "Gte"), With(a, "Lte")))
        /\ Says(Not(And(a, b))) = Says(Or(Not(a), Not(b)))
        /\ Says([op |-> "And", of |-> << >>]) /\ ~ Says([op |-> "Or", of |-> << >>])
=============================================================================

----------------------------- MODULE Predicates -----------------------------
(***************************************************************************)
(* Metadata values, the predicates over them and the zone maps that let a  *)
(* filter scan skip a block of positions (package storage: value.go,       *)
(* predicate.go, zonemap.go).  A value is a kind and a rank within it: the *)
(* int and float kinds compare by their float projection, so they share    *)
(* one kind; "nan" is the float that compares with nothing.                *)
(***************************************************************************)
EXTENDS Integers, Sequences

Null == [kind |-> "null", n |-> 0]
Num(n) == [kind |-> "num", n |-> n]
NaN == [kind |-> "nan", n |-> 0]
Bool(b) == [kind |-> "bool", n |-> IF b THEN 1 ELSE 0]
Text(n) == [kind |-> "text", n |-> n]

IsNull(v) == v.kind = "null"
Textual(v) == v.kind = "text"

\* order, with ok: the kinds have an order and neither side is a NaN.
Ordered(v, o) ==
  /\ ~IsNull(v) /\ ~IsNull(o)
  /\ Textual(v) <=> Textual(o)
  /\ "nan" \notin {v.kind, o.kind}

less(v, o) == Ordered(v, o) /\ v.n < o.n

equal(v, o) ==
  CASE IsNull(v) \/ IsNull(o) -> v.kind = o.kind
    [] v.kind \in {"text", "bool"} -> v = o
    [] OTHER -> Ordered(v, o) /\ v.n = o.n

(* Predicates.                                                             *)
Compare(col, op, lit) == [node |-> "compare", col |-> col, op |-> op, lit |-> lit]
IsNullPred(col, negate) == [node |-> "isnull", col |-> col, negate |-> negate]
And(terms) == [node |-> "and", terms |-> terms]
Or(terms) == [node |-> "or", terms |-> terms]
Not(term) == [node |-> "not", term |-> term]
True == [node |-> "true"]

evalCompare(p, v) ==
  /\ ~IsNull(v) /\ ~IsNull(p.lit)
  /\ CASE p.op = "=" -> equal(v, p.lit)
       [] p.op = "<>" -> ~equal(v, p.lit)
       [] p.op = "<" -> less(v, p.lit)
       [] p.op = "<=" -> less(v, p.lit) \/ equal(v, p.lit)
       [] p.op = ">" -> less(p.lit, v)
       [] p.op = ">=" -> less(p.lit, v) \/ equal(v, p.lit)

RECURSIVE eval(_, _)
eval(p, row) ==
  CASE p.node = "true" -> TRUE
    [] p.node = "compare" -> evalCompare(p, row[p.col])
    [] p.node = "isnull" -> IsNull(row[p.col]) # p.negate
    [] p.node = "and" -> \A i \in DOMAIN p.terms : eval(p.terms[i], row)
    [] p.node = "or" -> \E i \in DOMAIN p.terms : eval(p.terms[i], row)
    [] p.node = "not" -> ~eval(p.term, row)

(* Zone maps: a block summarises the values written to its positions.      *)
EmptyBlock == [min |-> Null, max |-> Null, count |-> 0]

fold(b, v) ==
  IF IsNull(v) THEN b
  ELSE [min |-> IF b.count = 0 \/ less(v, b.min) THEN v ELSE b.min,
        max |-> IF b.count = 0 \/ less(b.max, v) THEN v ELSE b.max,
        count |-> b.count + 1]

canSkip(b, op, lit) ==
  /\ b.count # 0
  /\ CASE op = "=" -> less(lit, b.min) \/ less(b.max, lit)
       [] op = "<" -> ~less(b.min, lit)
       [] op = "<=" -> less(lit, b.min)
       [] op = ">" -> ~less(lit, b.max)
       [] op = ">=" -> less(b.max, lit)
       [] OTHER -> FALSE

\* blocks: the zone block of every column for one run of positions.
RECURSIVE blockSkippable(_, _)
blockSkippable(p, blocks) ==
  CASE p.node = "compare" -> canSkip(blocks[p.col], p.op, p.lit)
    [] p.node = "and" -> \E i \in DOMAIN p.terms : blockSkippable(p.terms[i], blocks)
    [] OTHER -> FALSE
=============================================================================

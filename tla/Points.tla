------------------------------- MODULE Points -------------------------------
(***************************************************************************)
(* One collection as the facade (package vec) keeps it: the engine's slots *)
(* and id map, the identity that hands out ids, the index, and the         *)
(* operations the network surfaces run on it.  Server and PgWire run them  *)
(* from concurrent callers.                                                *)
(*                                                                         *)
(* A metadata value is <<kind>> or <<kind, value>>; a double is twice its  *)
(* value, so that a half is a number.  A slot is visible as soon as it is  *)
(* there: snapshots of the facade have transaction id 0 and see version 0. *)
(***************************************************************************)
EXTENDS Integers, Sequences, SequencesExt, FiniteSets

SQL == INSTANCE VectorSQL

\* A stored value as the predicates see it.
Lowered(a) == CASE a[1] = "int" -> SQL!Num(2 * a[2]) [] a[1] = "float" -> SQL!Num(a[2])
                [] a[1] = "bool" -> SQL!Bool(a[2]) [] a[1] = "null" -> SQL!Null
                [] a[1] = "text" -> SQL!Text(IF a[2] = "a" THEN 0 ELSE 1)

EmptyMap == [id \in {} |-> 0]
NewCollection(dim, metric, cols, notNull) ==
  [dim |-> dim, metric |-> metric, cols |-> cols, notNull |-> notNull,
   slots |-> <<>>, map |-> EmptyMap,                 \* the engine: slots, id -> slot
   seq |-> 0, gone |-> {},                           \* identity: next id, deleted ids
   named |-> FALSE, idxType |-> "flat"]              \* the index

Live(co) == {i \in DOMAIN co.slots : ~co.slots[i].dead}

\* catalog: a value of this kind may go into a column of that kind.
kindAssignable(kind, v) == v[1] \in {"null", kind} \/ (kind = "float" /\ v[1] = "int")

\* Value.lower: a bool is stored in the integer cell and read from the bool
\* cell, which stays false.
lower(v) == IF v[1] = "bool" THEN <<"bool", FALSE>> ELSE v
LowerMeta(co, meta) ==
  [c \in DOMAIN co.cols |-> IF c \in DOMAIN meta THEN lower(meta[c]) ELSE <<"null">>]
metaErr(co, meta) ==
  IF \A c \in DOMAIN co.cols :
       LET v == IF c \in DOMAIN meta THEN meta[c] ELSE <<"null">>
       IN kindAssignable(co.cols[c], v) /\ (v = <<"null">> => c \notin co.notNull)
  THEN "" ELSE "schema"

\* One point of UpsertBatch: the collection after it, the id, the error.
Wrote(co, id, err) == [co |-> co, id |-> id, err |-> err]
writeOne(co, p, closed) ==
  LET id == IF p.id = 0 THEN co.seq ELSE p.id
      taken == [co EXCEPT !.seq = IF id >= @ THEN id + 1 ELSE @]           \* PrepareID
      slots == IF id \in DOMAIN co.map THEN [co.slots EXCEPT ![co.map[id]].dead = TRUE] ELSE co.slots
  IN CASE p.vector = <<>> -> Wrote(co, id, "schema")
       [] Len(p.vector) # co.dim -> Wrote(co, id, "dim")
       [] p.id # 0 /\ id \in co.gone -> Wrote(co, id, "exists")
       [] metaErr(co, p.meta) # "" -> Wrote(taken, id, "schema")
       [] closed -> Wrote(taken, id, "engine")
       [] OTHER -> Wrote([taken EXCEPT !.slots = Append(slots, [id |-> id, vec |-> p.vector, dead |-> FALSE,
                                                               meta |-> LowerMeta(co, p.meta)]),
                                       !.map = (id :> Len(slots) + 1) @@ @], id, "")

\* Collection.Delete; the id is spent at once, whatever becomes of the batch.
deleteOne(co, id) ==
  IF id \notin DOMAIN co.map THEN Wrote(co, id, "missing")
  ELSE Wrote([co EXCEPT !.slots[co.map[id]].dead = TRUE, !.map = Restrict(@, DOMAIN @ \ {id}),
                        !.gone = @ \cup {id}], id, "")

\* Rollback: the engine's slots come back, the identity does not; an id
\* upserted by the transaction leaves the id map even if it was there before.
undone(co, was, upserted) ==
  [co EXCEPT !.slots = was.slots, !.map = Restrict(was.map, DOMAIN was.map \ upserted)]

\* The heap after a transaction that began with "was" and upserted "ids" is
\* rolled back; a collection made since was empty.
Empty == [slots |-> <<>>, map |-> EmptyMap]
Undone(h, was, ids) ==
  [g \in DOMAIN h |-> undone(h[g], IF g \in DOMAIN was THEN was[g] ELSE Empty,
                             {x[2] : x \in {y \in ids : y[1] = g}})]

\* The error of buildIndexLocked; whole: Build was not cut short by its context.
buildIndexLocked(co, whole) ==
  CASE co.idxType = "flat" -> ""
    [] co.idxType \in {"hnsw", "ivfflat", "ivfpq"} -> IF whole \/ Live(co) = {} THEN "" ELSE "build"
    [] OTHER -> "unsupported"

\* Variant: null columns are kept.
pointFromSlot(slot, arg) ==
  [id |-> slot.id, vector |-> IF arg.vec THEN slot.vec ELSE <<>>,
   payload |-> IF arg.pay THEN slot.meta ELSE [c \in {} |-> 0]]
\* Collection.Get: null columns are left out.
pointFromRecord(slot, arg) ==
  [id |-> slot.id, vector |-> IF arg.vec THEN slot.vec ELSE <<>>,
   payload |-> IF arg.pay THEN Restrict(slot.meta, {c \in DOMAIN slot.meta : slot.meta[c] # <<"null">>})
               ELSE [c \in {} |-> 0]]

(* A query, by the steps in which the executor takes the engine's lock.    *)
(* Below flatRowThreshold live rows, and these collections have a handful, *)
(* the planner scans, index or not, so what an index holds is not kept.    *)
L2Squared(v, w) == FoldFunction(+, 0, [i \in DOMAIN v |-> (v[i] - w[i]) * (v[i] - w[i])])
\* MetadataFilter: the positions a predicate selects; Nil is no predicate.
Matching(co, pred) ==
  {i \in Live(co) : SQL!eval(pred, [c \in DOMAIN co.cols |-> Lowered(co.slots[i].meta[c])])}
\* ScanVectors: the k nearest of the positions that are live now and selected.
ScanOf(co, q, pos) ==
  LET d(i) == L2Squared(co.slots[i].vec, q.vector)
      order == SetToSortSeq(pos, LAMBDA i, j : d(i) < d(j) \/ (d(i) = d(j) /\ i < j))
      near == SubSeq(order, 1, IF Len(order) < q.k THEN Len(order) ELSE q.k)
  IN [n \in DOMAIN near |-> [pos |-> near[n], score |-> 2 * d(near[n])]]
Scanned(co, q, pass) == ScanOf(co, q, Live(co) \cap (IF pass = <<>> THEN DOMAIN co.slots ELSE pass[1]))

\* A query of collection g under way: the positions selected, the candidates,
\* and what was read of them so far, the metadata row by row (gatherOp), then
\* the ids row by row (projectOp).  A row that is no longer there is an error.
Started(g, q, pred, project) ==
  [g |-> g, q |-> q, pred |-> pred, project |-> project, pass |-> <<>>, cand |-> <<>>, metas |-> <<>>, ids |-> <<>>]
Filters(r) == r.pred # SQL!True
Filtered(r, co) == [r EXCEPT !.pass = <<Matching(co, r.pred)>>]
Gathers(r) == r.project # {} /\ Len(r.metas) < Len(r.cand)
Place(r) == r.cand[IF Gathers(r) THEN Len(r.metas) + 1 ELSE Len(r.ids) + 1].pos
ReadRow(r, co) ==
  LET slot == co.slots[Place(r)] IN
  IF Gathers(r) THEN [r EXCEPT !.metas = Append(@, Restrict(slot.meta, r.project))]
  ELSE [r EXCEPT !.ids = Append(@, slot.id)]
ReadAll(r) == Len(r.ids) = Len(r.cand)
=============================================================================

------------------------------- MODULE Query --------------------------------
(***************************************************************************)
(* Answering a nearest-neighbour query over one collection while writers   *)
(* and index builds run: QueryBuilder.Exec and DB.ExecTxn (package vec),   *)
(* the planner and its cache, the operator pipeline and the hybrid fusion  *)
(* (packages query and hybrid) over the engine's read path (storage).      *)
(*                                                                         *)
(* A point's vector is its distance to the query vector.  Positions are    *)
(* those of one segment, in append order, so a snapshot is the number of   *)
(* committed rows.  Every engine call takes the engine's lock on its own   *)
(* and is one step; writers run between any two of them.                   *)
(***************************************************************************)
EXTENDS Integers, Sequences, FiniteSets, SequencesExt, VectorSQL

CONSTANTS Ids,           \* 1..n
          Points,    \* points: [meta : column -> value, d : distance]
          Requests,      \* what clients ask
          Tables,        \* the points a collection starts with, one per id
          Schema,
          MaxRows,       \* bound: positions of the segment
          MaxBuilds,     \* bound: index builds
          MaxChanges,    \* bound: writes, dropped indexes and cancelled queries
          Kinds,         \* the index kinds clients create
          BlockSize,     \* zoneBlockSize
          FlatRows,      \* flatRowThreshold
          MinEf,         \* the floor of ef
          RRFK,          \* the constant of reciprocal rank fusion
          Workers,       \* workers of the flat scan
          CacheCap,      \* plans the cache holds; 0: no cache, as the facade
          Perfect        \* TRUE: an index search finds the true nearest

ASSUME QueryAssumption ==
  /\ {MaxRows, MaxBuilds, MaxChanges, FlatRows, CacheCap} \subseteq Nat
  /\ {BlockSize, MinEf, Workers, RRFK} \subseteq Nat \ {0}
  /\ Perfect \in BOOLEAN

VARIABLES
  rows,     \* position -> [id, meta, d, live]
  pending,  \* TRUE: the last row is appended and not yet committed
  zone,     \* block -> column -> zone block
  index,    \* collState: the current index object (0: none), its kind, and the
            \* kind before the last change
  objs,     \* every index object built: its state and the entries it holds
  building, \* a client is in buildIndexLocked
  changes,  \* how many of those there were
  cache,    \* the planner: the index it is bound to and its plans, newest first
  q         \* the query
vars == <<rows, pending, zone, index, objs, building, changes, cache, q>>
table == <<rows, pending, zone>>
indexes == <<index, objs, building, changes>>

Cols == DOMAIN Schema.cols
Positions == 1..Len(rows)
Live == {p \in Positions : rows[p].live}
Committed == IF pending THEN Len(rows) - 1 ELSE Len(rows)
VisibleLive(snap) == {p \in Live : p <= snap}
Block(p) == (p - 1) \div BlockSize + 1

Folded(z, p, meta) ==
  LET grown == IF Block(p) > Len(z) THEN Append(z, [c \in Cols |-> EmptyBlock]) ELSE z
  IN [grown EXCEPT ![Block(p)] = [c \in Cols |-> fold(@[c], meta[c])]]

NoPlan == [path |-> "none"]
Idle == [pc |-> "idle", req |-> None, bound |-> BindFailed, obj |-> 0, kind |-> "flat",
         plan |-> NoPlan, snap |-> 0, ef |-> 0, bm |-> {}, cands |-> <<>>, i |-> 1, ids |-> <<>>, err |-> "", partial |-> FALSE,
         canceled |-> FALSE, quiet |-> TRUE, want |-> {}]

Init ==
  /\ \E t \in Tables :
       /\ rows = [p \in DOMAIN t |-> [id |-> p, meta |-> t[p].meta, d |-> t[p].d, live |-> TRUE]]
       /\ zone = FoldLeft(LAMBDA z, p : Folded(z, p, t[p].meta), <<>>, [p \in DOMAIN t |-> p])
  /\ pending = FALSE
  /\ index = [obj |-> 0, kind |-> "flat", was |-> "flat"] /\ objs = <<>> /\ building = FALSE
  /\ changes = 0
  /\ cache = [obj |-> 0, plans |-> <<>>] /\ q = Idle

-----------------------------------------------------------------------------
(* Writers, one transaction at a time.                                     *)

Running == q.pc \notin {"idle", "done"}
Change == changes < MaxChanges /\ changes' = changes + 1
Disturbed == q' = IF Running THEN [q EXCEPT !.quiet = FALSE] ELSE q

\* Upsert: the old version is tombstoned, the new one appended, unstamped.
Upsert(i, pt) ==
  /\ ~pending /\ Len(rows) < MaxRows
  /\ rows' = Append([p \in Positions |-> IF rows[p].id = i THEN [rows[p] EXCEPT !.live = FALSE]
                                         ELSE rows[p]],
                    [id |-> i, meta |-> pt.meta, d |-> pt.d, live |-> TRUE])
  /\ zone' = Folded(zone, Len(rows) + 1, pt.meta)
  /\ pending' = TRUE
  /\ Change /\ Disturbed /\ UNCHANGED <<index, objs, building, cache>>

Commit == pending /\ pending' = FALSE /\ Disturbed /\ UNCHANGED <<rows, zone, indexes, cache>>

\* Variant: the zone map is left as it was.
UpdateMetaUnwidened(p, pt) ==
  /\ ~pending /\ rows[p].live /\ rows[p].meta # pt.meta
  /\ rows' = [rows EXCEPT ![p].meta = pt.meta]
  /\ Change /\ Disturbed /\ UNCHANGED <<pending, zone, index, objs, building, cache>>

\* UpdateMeta overwrites the columns in place and widens the zone map.
UpdateMeta(p, pt) ==
  /\ ~pending /\ rows[p].live /\ rows[p].meta # pt.meta
  /\ rows' = [rows EXCEPT ![p].meta = pt.meta]
  /\ zone' = Folded(zone, p, pt.meta)
  /\ Change /\ Disturbed /\ UNCHANGED <<pending, index, objs, building, cache>>

Delete(p) ==
  /\ ~pending /\ rows[p].live
  /\ rows' = [rows EXCEPT ![p].live = FALSE]
  /\ Change /\ Disturbed /\ UNCHANGED <<pending, zone, index, objs, building, cache>>

Write == \/ \E i \in Ids, pt \in Points : Upsert(i, pt)
         \/ \E p \in Positions : Delete(p) \/ \E pt \in Points : UpdateMeta(p, pt)
         \/ Commit
-----------------------------------------------------------------------------
(* Index builds, under db.mu; queries read cs.index without it.            *)

Now(obj, kind) == [obj |-> obj, kind |-> kind, was |-> index.kind]
Closed(o) == IF index.obj = 0 THEN o ELSE [o EXCEPT ![index.obj] = [state |-> "closed", ent |-> <<>>]]

\* The old object is closed and the new one published before it is populated.
BuildStart(kind) ==
  /\ ~building /\ Len(objs) < MaxBuilds
  /\ IF kind = "flat" THEN objs' = Closed(objs) /\ index' = Now(0, "flat")
     ELSE /\ objs' = Append(Closed(objs), [state |-> "new", ent |-> <<>>])
          /\ index' = Now(Len(objs) + 1, kind)
  /\ building' = (kind # "flat")
  /\ UNCHANGED <<table, changes, cache, q>>

\* collectVectors, then Build.  A product quantizer stores inexact distances.
BuildIndex ==
  /\ building /\ building' = FALSE
  /\ \E off \in IF index.kind = "ivfpq" THEN kSubset(1, VisibleLive(Committed)) ELSE {{}} :
       objs' = [objs EXCEPT ![index.obj] =
                  [state |-> "built",
                   ent |-> [p \in VisibleLive(Committed) |->
                              rows[p].d + IF p \in off THEN 2 ELSE 0]]]
  /\ Disturbed /\ UNCHANGED <<table, index, changes, cache>>

\* Build fails (its context is done): the index is closed and unset.
BuildFails ==
  /\ building /\ building' = FALSE
  /\ objs' = Closed(objs) /\ index' = Now(0, "flat")
  /\ UNCHANGED <<table, changes, cache, q>>

DropIndex ==
  /\ ~building /\ index.obj # 0 /\ Change
  /\ objs' = Closed(objs) /\ index' = Now(0, "flat")
  /\ UNCHANGED <<table, building, cache, q>>

Build == BuildIndex \/ BuildFails \/ DropIndex \/ \E k \in Kinds \cup {"flat"} : BuildStart(k)
-----------------------------------------------------------------------------
(* Planning.  Fractions are percentages.                                   *)

\* bindSelect: the SELECT the builder writes around the caller's filter.
bindSelect(r) ==
  <<"select">> \o r.proj \o <<"from", "t">>
  \o (IF r.where = <<>> THEN <<>> ELSE <<"where">> \o r.where)
  \o <<"order", "by", Schema.vec, "<->", "'[0]'", "limit">> \o r.limit

Bound(st) == IF st[1] = "select" THEN BindSelect(st, Schema) ELSE BindFailed

\* boundQuery of every request.
boundQuery == [r \in Requests |-> Bound(Parse(bindSelect(r)))]

HasPred(b) == b.pred # True
selectivity(b, r) == IF ~HasPred(b) THEN 100 ELSE IF r.sel >= 0 THEN r.sel ELSE 25

filterStrategy(b, sel) ==
  CASE ~HasPred(b) -> "none" [] sel <= 5 -> "pre" [] sel >= 50 -> "post" [] OTHER -> "in"

MaxOf(a, b) == IF a > b THEN a ELSE b
MinOf(a, b) == IF a < b THEN a ELSE b
\* ceil(k / recall^2) for a recall of 95%.
selectEf(b, r) ==
  IF r.ef > 0 THEN r.ef ELSE MaxOf(MinEf, MaxOf(b.k, (b.k * 10000 + 9024) \div 9025))

\* The access path, filter strategy, beam and rerank of a plan; path "none": no
\* index, and the caller does not permit a flat scan.
build(b, r, obj, kind) ==
  LET live == Cardinality(Live)
      sel == selectivity(b, r)
      useFlat == \/ obj = 0
                 \/ live <= FlatRows
                 \/ HasPred(b) /\ live * sel <= FlatRows * 100 /\ sel <= 5
      filter == filterStrategy(b, sel)
      ef == IF kind = "hnsw" THEN selectEf(b, r) ELSE 0
      widen == filter = "post" /\ kind = "hnsw"
  IN CASE obj = 0 /\ ~r.flat -> NoPlan
       [] useFlat -> [path |-> "flat", filter |-> IF HasPred(b) THEN "pre" ELSE "none",
                      ef |-> 0, rerank |-> 0, widen |-> FALSE, maxEf |-> 0]
       [] OTHER -> [path |-> kind, filter |-> filter, ef |-> ef, rerank |-> r.rerank,
                    widen |-> widen, maxEf |-> IF widen THEN 8 * ef ELSE 0]

planKeyOf(b) == [k |-> b.k, pred |-> b.pred, project |-> b.project]

\* The pins of this query over the plan another one left in the cache.
specialize(plan, r) ==
  [plan EXCEPT !.ef = IF r.ef > 0 THEN r.ef ELSE @,
               !.rerank = IF r.rerank > 0 THEN r.rerank ELSE @]

Cached(plans, key) == {j \in DOMAIN plans : plans[j].key = key}

\* put after a miss, or get's MoveToFront: the last of the list goes at the limit.
Remember(plans, key, plan) ==
  LET rest == SelectSeq(plans, LAMBDA e : e.key # key)
      all == <<[key |-> key, plan |-> plan]>> \o rest
  IN SubSeq(all, 1, MinOf(Len(all), CacheCap))

Done(err) == [q EXCEPT !.pc = "done", !.err = err]

\* execWith: the collection's index is captured, and the dimension and the
\* statement are checked.  cs.index and cs.idxKind are read without db.mu, so a
\* build under way may show the new object with the old kind.
execWith(r, b) ==
  \E kind \in {index.kind} \cup (IF building THEN {index.was} ELSE {}) :
    q' = IF r.dim # Schema.dim \/ ~b.ok
         THEN [Idle EXCEPT !.pc = "done", !.req = r, !.err = "invalid"]
         ELSE [Idle EXCEPT !.pc = "plan", !.req = r, !.bound = b, !.obj = index.obj, !.kind = kind]
Exec(r) == q.pc = "idle" /\ execWith(r, boundQuery[r]) /\ UNCHANGED <<table, indexes, cache>>

\* Plan, with the live row count of this moment.
Plan ==
  LET r == q.req
      b == q.bound
      plans == IF cache.obj = q.obj THEN cache.plans ELSE <<>>
      hits == Cached(plans, planKeyOf(b))
      kept == IF hits = {} THEN build(b, r, q.obj, q.kind)
              ELSE plans[CHOOSE j \in hits : TRUE].plan
      plan == IF hits = {} THEN kept ELSE specialize(kept, r)
  IN /\ q.pc = "plan"
     /\ IF plan = NoPlan THEN q' = Done("no index") /\ UNCHANGED cache
        ELSE /\ q' = [q EXCEPT !.pc = "snapshot", !.plan = plan, !.ef = plan.ef]
             /\ cache' = [obj |-> q.obj, plans |-> Remember(plans, planKeyOf(b), kept)]
     /\ UNCHANGED <<table, indexes>>
-----------------------------------------------------------------------------
(* What a filter means, read off the tree it was printed from.             *)

Operand(e, meta) ==
  CASE e[1] = "col" -> meta[e[2][1]]
    [] e[1] = "int" -> Num(2 * Ints[e[2][1]])
    [] e[1] = "neg" -> Num(-2 * Ints[e[2][2][1]])
    [] e[1] = "string" -> Text(Rank[e[2][1]])

RECURSIVE Meaning(_, _)
Meaning(e, meta) ==
  CASE e = None -> TRUE
    [] e # None /\ e[1] = "or" -> Meaning(e[2], meta) \/ Meaning(e[3], meta)
    [] e # None /\ e[1] = "and" -> Meaning(e[2], meta) /\ Meaning(e[3], meta)
    [] e # None /\ e[1] = "not" -> ~Meaning(e[2], meta)
    [] e # None /\ e[1] = "isnull" -> Operand(e[2], meta).kind = "null"
    [] e # None /\ e[1] = "isnotnull" -> Operand(e[2], meta).kind # "null"
    [] e # None /\ e[1] \in cmpOpOf ->
         LET a == Operand(e[2], meta) b == Operand(e[3], meta) IN
         /\ "null" \notin {a.kind, b.kind}
         /\ CASE e[1] = "=" -> a = b
              [] e[1] = "<>" -> a # b
              [] e[1] = "<" -> a.kind = b.kind /\ a.n < b.n
              [] e[1] = "<=" -> a.kind = b.kind /\ a.n <= b.n
              [] e[1] = ">" -> a.kind = b.kind /\ a.n > b.n
              [] e[1] = ">=" -> a.kind = b.kind /\ a.n >= b.n

Matches == [r \in Requests |-> [m \in {pt.meta : pt \in Points} |-> Meaning(r.tree, m)]]
-----------------------------------------------------------------------------
(* Execution.                                                              *)

MetadataFilter(pred, snap) ==
  {p \in VisibleLive(snap) : /\ ~blockSkippable(pred, zone[Block(p)])
                             /\ eval(pred, rows[p].meta)}

\* drain: nearest first, ties by position; at most k.
Nearer(c, e) == c.d < e.d \/ (c.d = e.d /\ c.pos < e.pos)
topK(cands, k) ==
  LET sorted == SetToSortSeq(cands, Nearer) IN SubSeq(sorted, 1, MinOf(Len(sorted), k))


\* Each worker keeps the nearest of its chunk; the heaps are merged.
flatScan(items, k) ==
  LET seq == SetToSortSeq(items, <)
      workers == MaxOf(1, MinOf(Workers, Len(seq)))
      chunk == (Len(seq) + workers - 1) \div workers
      heap(w) == ToSet(topK({[pos |-> seq[j], d |-> rows[seq[j]].d] :
                             j \in {n \in DOMAIN seq : (n - 1) \div MaxOf(1, chunk) = w}}, k))
  IN topK(UNION {heap(w) : w \in 0..(workers - 1)}, k)

\* Index.Search: entries that pass the filter, nearest first, at most k.
Found(ent, pass, k) ==
  LET all == {[pos |-> p, d |-> ent[p]] : p \in DOMAIN ent \cap pass} IN
  IF Perfect THEN {topK(all, k)}
  ELSE {topK(c, k) : c \in {x \in SUBSET all : Cardinality(x) <= k}}

Hybrid == q.req.extra # None
K == q.bound.k
MaxK == CASE Hybrid -> 3 * K                                \* OverFetch
          [] q.plan.rerank = 0 -> K
          [] OTHER -> IF q.plan.rerank < K THEN 4 * K ELSE q.plan.rerank
Pred == q.bound.pred
Filters == q.plan.filter # "none" /\ (Hybrid => q.plan.filter # "post")

Snapshot ==
  /\ q.pc = "snapshot" /\ q' = [q EXCEPT !.pc = "filter", !.snap = Committed]
  /\ UNCHANGED <<table, indexes, cache>>

\* buildTree: the filter bitmap, once per tree.
Filter ==
  /\ q.pc = "filter"
  /\ q' = IF q.plan.path # "flat" /\ q.obj = 0 THEN Done("no index")
          ELSE [q EXCEPT !.pc = "open", !.ids = <<>>,
                         !.bm = IF Filters THEN MetadataFilter(Pred, q.snap) ELSE {},
                         !.want = {p \in VisibleLive(q.snap) : Matches[q.req][rows[p].meta]}]
  /\ UNCHANGED <<table, indexes, cache>>

\* The source's Open.  A cancelled index search is a hard error.
Open ==
  LET inline == Filters /\ (q.plan.path = "flat" \/ q.plan.filter # "post")
      Opened(c) == q' = [q EXCEPT !.pc = IF Hybrid THEN "fuse" ELSE "pull", !.cands = c]
  IN /\ q.pc = "open"
     /\ IF q.plan.path = "flat"
        THEN Opened(flatScan(VisibleLive(q.snap) \cap IF inline THEN q.bm ELSE Positions, MaxK))
        ELSE \/ /\ objs[q.obj].state = "closed" \/ q.canceled
                /\ q' = Done("search")
             \/ /\ objs[q.obj].state # "closed" /\ ~q.canceled
                /\ \E c \in Found(objs[q.obj].ent, IF inline THEN q.bm ELSE Positions, MaxK) :
                     Opened(c)
     /\ UNCHANGED <<table, indexes, cache>>

\* The stage after the candidates are final.
Columns == q.bound.project
Gathering == IF Columns # {} THEN "meta" ELSE "project"

\* Variant: the search is repeated with the same beam.
FinishedSameBeam(query) ==
  IF ~Hybrid /\ query.plan.widen /\ ~query.partial /\ Len(query.ids) < K
     /\ query.ef < query.plan.maxEf
  THEN [query EXCEPT !.pc = "filter", !.cands = <<>>, !.i = 1]
  ELSE [query EXCEPT !.pc = "done", !.i = 1]

\* runPlan: a short answer is searched again with a wider beam, up to maxEf.
Finished(query) ==
  IF ~Hybrid /\ query.plan.widen /\ ~query.partial /\ Len(query.ids) < K
     /\ query.ef < query.plan.maxEf
  THEN [query EXCEPT !.pc = "filter", !.ef = MinOf(2 * @, query.plan.maxEf), !.cands = <<>>,
                     !.i = 1]
  ELSE [query EXCEPT !.pc = "done", !.i = 1]


\* drive: the context, then the first batch.  topK drops what the post-filter
\* deselected; a rerank gathers every candidate.
Pull ==
  LET kept == IF q.plan.filter = "post" THEN {c \in ToSet(q.cands) : c.pos \in q.bm}
              ELSE ToSet(q.cands)
      top == topK(kept, K)
  IN /\ q.pc = "pull"
     /\ q' = CASE q.canceled -> Finished([q EXCEPT !.partial = TRUE])
               [] ~q.canceled /\ q.plan.rerank # 0 /\ q.cands # <<>> ->
                    [q EXCEPT !.pc = "vectors"]
               [] ~q.canceled /\ q.plan.rerank = 0 /\ top # <<>> ->
                    [q EXCEPT !.pc = Gathering, !.cands = top]
               [] OTHER -> Finished([q EXCEPT !.cands = <<>>])
     /\ UNCHANGED <<table, indexes, cache>>

Cur == q.cands[q.i].pos
Advance(pc, query) == IF q.i < Len(q.cands) THEN [query EXCEPT !.i = @ + 1]
                    ELSE [query EXCEPT !.i = 1, !.pc = pc]

\* gatherOp, one FetchVector; after the last, rerankOp.
GatherVector ==
  LET exact == {[pos |-> c.pos, d |-> rows[c.pos].d] : c \in ToSet(q.cands)} IN
  /\ q.pc = "vectors"
  /\ q' = CASE ~rows[Cur].live -> Done("storage")
            [] q.i < Len(q.cands) -> [q EXCEPT !.i = @ + 1]
            [] OTHER -> [q EXCEPT !.pc = Gathering, !.i = 1, !.cands = topK(exact, K)]
  /\ UNCHANGED <<table, indexes, cache>>

\* gatherOp, one Fetch of the projected columns.
GatherMeta ==
  /\ q.pc = "meta"
  /\ q' = IF ~rows[Cur].live \/ Cur > q.snap THEN Done("storage")
          ELSE Advance("project", q)
  /\ UNCHANGED <<table, indexes, cache>>

\* projectOp, one LookupPos.
Project ==
  /\ q.pc = "project"
  /\ q' = IF ~rows[Cur].live THEN Done("storage")
          ELSE Advance("drained", [q EXCEPT !.ids = Append(@, rows[Cur].id)])
  /\ UNCHANGED <<table, indexes, cache>>

\* drive's next round: the context once more, and no further batch.
Drained ==
  /\ q.pc = "drained" /\ q' = Finished([q EXCEPT !.partial = q.canceled])
  /\ UNCHANGED <<table, indexes, cache>>

\* The caller's context is done.
Cancel ==
  /\ Running /\ ~q.canceled /\ Change /\ q' = [q EXCEPT !.canceled = TRUE]
  /\ UNCHANGED <<table, index, objs, building, cache>>

\* The client is ready for another query.
Again == q.pc = "done" /\ q' = Idle /\ UNCHANGED <<table, indexes, cache>>
-----------------------------------------------------------------------------
(* Fusion of the dense candidates with the ranked lists the caller brings, *)
(* each a sequence of [pos, score] over existing positions.                *)

Lists == <<[j \in DOMAIN q.cands |-> [pos |-> q.cands[j].pos, score |-> -q.cands[j].d]]>>
         \o [l \in DOMAIN q.req.extra |->
               SelectSeq(q.req.extra[l], LAMBDA e : e.pos \in Positions)]

\* normalizeWeights, up to the factor that makes them average 1.
weight(r, l) == IF l <= Len(r.weights) /\ r.weights[l] > 0 THEN r.weights[l] ELSE 1

\* Variant: a lower rank scores higher.
rrfScore(lists, l, p) ==
  LET at == {n \in DOMAIN lists[l] : lists[l][n].pos = p} IN
  MapThenSumSet(LAMBDA n : RRFK + n, at)

\* WeightedRRFuse, over a common denominator.
Denominator == FoldLeft(LAMBDA a, n : a * n, 1, [n \in 1..MaxRows |-> RRFK + n])
rrf(lists, l, p) ==
  LET at == {n \in DOMAIN lists[l] : lists[l][n].pos = p} IN
  MapThenSumSet(LAMBDA n : Denominator \div (RRFK + n), at)

\* minMaxNormalize, over the product of the spans; an even list counts 1.
span(list) ==
  LET scores == {list[n].score : n \in DOMAIN list} IN
  IF scores = {} THEN 0 ELSE Max(scores) - Min(scores)
Spans(lists) == FoldLeft(LAMBDA a, n : a * n, 1, [l \in DOMAIN lists |-> MaxOf(1, span(lists[l]))])
minMaxNormalize(lists, l, p) ==
  LET scores == {lists[l][n].score : n \in DOMAIN lists[l]}
      mine == {lists[l][n].score : n \in {j \in DOMAIN lists[l] : lists[l][j].pos = p}}
  IN MapThenSumSet(LAMBDA v : IF span(lists[l]) = 0 THEN Spans(lists)
                              ELSE (v - Min(scores)) * (Spans(lists) \div span(lists[l])), mine)

\* sortScored: best first, ties by position.
Fuse(r, lists) ==
  LET ps == UNION {{lists[l][n].pos : n \in DOMAIN lists[l]} : l \in DOMAIN lists}
      part(l, p) == weight(r, l) * IF r.method = "minmax" THEN minMaxNormalize(lists, l, p)
                                   ELSE rrf(lists, l, p)
      score == [p \in ps |-> MapThenSumSet(LAMBDA l : part(l, p), DOMAIN lists)]
  IN SetToSortSeq({[pos |-> p, d |-> -score[p]] : p \in ps}, Nearer)

\* ExecuteHybrid after the dense search: fuse, apply a post-filter with a bitmap
\* of its own, keep k, and drive the projection.
FuseStep ==
  LET fused == Fuse(q.req, Lists)
      bm == MetadataFilter(Pred, q.snap)
      kept == IF q.plan.filter = "post" THEN SelectSeq(fused, LAMBDA c : c.pos \in bm) ELSE fused
      top == SubSeq(kept, 1, MinOf(Len(kept), K))
  IN /\ q.pc = "fuse"
     /\ q' = CASE q.canceled -> [q EXCEPT !.pc = "done", !.partial = TRUE, !.cands = <<>>]
               [] ~q.canceled /\ top = <<>> -> [q EXCEPT !.pc = "done", !.cands = <<>>]
               [] OTHER -> [q EXCEPT !.pc = Gathering, !.cands = top,
                              !.want = IF q.plan.filter = "post"
                                       THEN {p \in VisibleLive(q.snap) : Matches[q.req][rows[p].meta]}
                                       ELSE @]
     /\ UNCHANGED <<table, indexes, cache>>

Step == Plan \/ Snapshot \/ Filter \/ Open \/ Pull \/ GatherVector \/ GatherMeta \/ Project
        \/ Drained \/ FuseStep

Next == Write \/ Build \/ (\E r \in Requests : Exec(r)) \/ Step \/ Cancel \/ Again
Spec == Init /\ [][Next]_vars
-----------------------------------------------------------------------------
Answered == q.pc = "done" /\ q.err = "" /\ ~q.partial
Returned == {q.cands[j].pos : j \in DOMAIN q.cands}

\* A block whose first value in some column was a NaN: fold took it for Min and
\* Max, nothing compares with it, and they never change again.
LedByNaN(block) == \E c \in Cols : block[c].min = NaN

\* A zone map never lets a filter skip a block that holds a live match, for any
\* filter a client asks, however blocks were written (canSkip: "conservative"),
\* NaNs included, unless the block's first value was a NaN: such a block is
\* skipped whatever else is in it.
ZoneSound ==
  \A b \in Range(boundQuery) : b.ok =>
    \A p \in Live : blockSkippable(b.pred, zone[Block(p)]) /\ ~LedByNaN(zone[Block(p)])
                    => ~eval(b.pred, rows[p].meta)

\* A rerank gathers also the candidates the post-filter below it deselected
\* (gatherOp, rerankOp).
Unfiltered == q.plan.filter = "post" /\ q.plan.rerank # 0


\* A flat query that no writer disturbed returns exactly the k nearest points
\* that satisfy the WHERE clause, through parser, binder, planner, zone maps,
\* parallel scan and projection, but for points hidden in a block led by a NaN.
Hidden(p) == LedByNaN(zone[Block(p)]) /\ blockSkippable(Pred, zone[Block(p)])

\* When the index finds the true nearest and nobody disturbs the query, a filter
\* leaves the answer k points, or all there are.
FillsToK ==
  [][/\ q.pc \in {"pull", "drained"} /\ q'.pc = "done" /\ ~q'.partial /\ q.quiet /\ q.plan.path = "hnsw"
     /\ objs[q.obj].state = "built" /\ DOMAIN objs[q.obj].ent = VisibleLive(q.snap)
     => Len(q'.ids) >= MinOf(K, Cardinality(q.want))]_vars

\* Fusing never puts a row behind, or drops it for, one that every list holding
\* the latter ranks after it; a post-filter holds of every fused row.
Dominates(a, b) ==
  \A l \in DOMAIN Lists : \A n \in DOMAIN Lists[l] : Lists[l][n].pos = b =>
    \E m \in 1..(n - 1) : Lists[l][m].pos = a
FusionSound ==
  [][q.pc = "fuse" /\ q'.pc = Gathering =>
       /\ Len(q'.cands) <= K
       /\ q.plan.filter = "post" => \A j \in DOMAIN q'.cands : q'.cands[j].pos \in q'.want
       /\ \A j \in DOMAIN q'.cands : \A a \in Positions :
            /\ Dominates(a, q'.cands[j].pos) /\ a # q'.cands[j].pos
            /\ q.plan.filter # "post" \/ a \in q'.want
            => \E i \in 1..(j - 1) : q'.cands[i].pos = a]_vars

\* No query goes round for ever: whatever writers do, each of its steps brings it
\* nearer to its end, a wider search (runPlan) uses up the room left below maxEf.
Stage == [plan |-> 9, snapshot |-> 8, filter |-> 7, open |-> 6, fuse |-> 5, pull |-> 5, vectors |-> 4,
          meta |-> 3, project |-> 2, drained |-> 1, done |-> 0]
Ahead(x) == IF x.plan = NoPlan THEN <<2, 0, 0>>
            ELSE <<IF x.pc = "done" THEN 0 ELSE 1, x.plan.maxEf - x.ef, 10 * Stage[x.pc] - x.i>>
Before(a, b) == \/ a[1] < b[1]
                \/ a[1] = b[1] /\ (a[2] < b[2] \/ (a[2] = b[2] /\ a[3] < b[3]))
Terminates ==
  [][Running /\ <<q.pc, q.i>> # <<q'.pc, q'.i>> => q'.pc = "done" \/ Before(Ahead(q'), Ahead(q))]_vars
=============================================================================

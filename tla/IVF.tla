--------------------------------- MODULE IVF --------------------------------
(* The inverted-file index of index/ivf.go and ivf_io.go, with the coarse   *)
(* training of kmeans.go, as operators on the struct. The trained centroids *)
(* are a parameter: training is random, and nothing below depends on it.    *)
EXTENDS Candidates, SequencesExt

CONSTANTS
  PerCell,       \* the points a cell needs before there are more cells (39)
  RerankFloor    \* the candidates IVFADC always reranks (128)

min2(a, b) == IF a < b THEN a ELSE b
max2(a, b) == IF a > b THEN a ELSE b

(* NewIVF; pq says that residual codes apply (PQM > 0 on an L2 metric). *)
NewIVF(c) ==
  [kind |-> "ivf", nlist |-> c.nlist, nprobe |-> c.nprobe, pq |-> c.coded,
   cents |-> Nil, lists |-> Nil, vecs |-> <<>>, assignOf |-> <<>>,
   dead |-> {}, coded |-> FALSE]

VLive(x) == {p \in DOMAIN x.vecs : p \notin x.dead}

(* isqrt and roundPow2: the greatest power of two whose square is at most n. *)
roundPow2(n) ==
  LET fits == {p \in {1, 2, 4, 8} : p <= n}
  IN IF n < 1 THEN 1 ELSE CHOOSE p \in fits : \A o \in fits : o <= p
isqrt(n) == CHOOSE r \in 0..n : r * r <= n /\ (r + 1) * (r + 1) > n

(* trainCentroids: k centroids. k-means from a random start may leave them  *)
(* anywhere, so "train" is any sequence of them and the first k are taken.  *)
trainCentroids(train, k) == SubSeq(train, 1, k)

(* The number of cells of a build over n points: what was asked for or the  *)
(* square root, no more than the points, fewer while the cells are thin.    *)
CellsFor(x, n) ==
  LET asked == min2(IF x.nlist <= 0 THEN roundPow2(isqrt(n)) ELSE x.nlist, n)
  IN max2(IF n < PerCell * asked THEN n \div PerCell ELSE asked, 1)

(* coarseQuantize: the nearest centroid, the first among equals. *)
coarseQuantize(x, v) ==
  CHOOSE c \in 1..x.nlist :
    /\ \A o \in 1..x.nlist : dist(v, x.cents[c]) <= dist(v, x.cents[o])
    /\ \A o \in 1..(c - 1) : dist(v, x.cents[c]) < dist(v, x.cents[o])

(* One posting: the position and, under IVFADC, its residual's code. *)
Posting(x, p, v, c) ==
  [pos |-> p, code |-> IF x.coded THEN <<Decoded(v - x.cents[c])>> ELSE Nil]

(* A point goes to the end of its cell's list; its vector is kept. *)
Assign(x, p, v) ==
  LET c == coarseQuantize(x, v)
  IN [x EXCEPT !.lists[c] = Append(@, Posting(x, p, v, c)),
               !.assignOf = (p :> c) @@ @, !.vecs = (p :> v) @@ @]

(* Build: no positions only unset the centroids and the lists; else cells,  *)
(* centroids and codec are trained and every point is assigned. When the    *)
(* codec cannot be trained (trainResidualCodec's error), the new centroids  *)
(* stay beside the old lists.                                               *)
VBuild(x, positions, vec, train, fails) ==
  LET n == Len(positions)
      cells == CellsFor(x, n)
      coarse == [x EXCEPT !.nlist = cells, !.cents = trainCentroids(train, cells),
                          !.coded = FALSE]
      trained == [coarse EXCEPT !.coded = x.pq, !.lists = [c \in 1..cells |-> <<>>],
                                !.vecs = <<>>, !.assignOf = <<>>, !.dead = {}]
      add(y, p) == Assign(y, p, vec[p])
  IN CASE n = 0 -> Did([x EXCEPT !.cents = Nil, !.lists = Nil], OK)
       [] n > 0 /\ x.pq /\ fails -> Did(coarse, Fails("ErrTraining"))
       [] OTHER -> Did(FoldLeft(add, trained, positions), OK)

(* Insert: into the nearest cell of a trained index. A cell without a list  *)
(* is an index out of range.                                                *)
VInsert(x, p, v) ==
  IF x.nlist = 0 \/ x.cents = Nil THEN Did(x, Fails("ErrBadParams"))
  ELSE IF coarseQuantize(x, v) > Len(x.lists) THEN Did(x, Fails("panic"))
  ELSE Did(Assign([x EXCEPT !.dead = @ \ {p}], p, v), OK)

VDelete(x, p) ==
  Did(IF p \in DOMAIN x.assignOf THEN [x EXCEPT !.dead = @ \cup {p}] ELSE x, OK)

(* Search: the nprobe nearest cells are scanned, by code distance under     *)
(* IVFADC, whose best candidates are reranked by the vectors themselves.    *)
VSearch(x, q, k, filter, o) ==
  LET probe == min2(IF o.nprobe <= 0 THEN x.nprobe ELSE o.nprobe, x.nlist)
      cells == Cut(Ranked({candidate(c, dist(q, x.cents[c])) : c \in 1..x.nlist}),
                   probe)
      wanted(e) == e.pos \notin x.dead /\ Passes(filter, e.pos)
      scan(c) ==
        LET kept == SelectSeq(x.lists[c], wanted)
        IN [i \in 1..Len(kept) |->
              candidate(kept[i].pos,
                IF x.coded THEN dist(q - x.cents[c], kept[i].code[1])
                ELSE dist(q, x.vecs[kept[i].pos]))]
      out == SortSeq(FlattenSeq([i \in 1..Len(cells) |-> scan(cells[i].pos)]),
                     minLess)
      top == Cut(out, max2(3 * k, RerankFloor))
      exact == SortSeq([i \in 1..Len(top) |->
                          candidate(top[i].pos, dist(q, x.vecs[top[i].pos]))],
                       minLess)
  IN IF x.nlist = 0 \/ x.cents = Nil \/ k <= 0 THEN OK
     ELSE IF \E i \in 1..Len(cells) : cells[i].pos > Len(x.lists) THEN Fails("panic")
     ELSE Reply("nil", Cut(IF x.coded THEN exact ELSE out, k))

(* Persist: the centroids and, list by list, the postings that live with    *)
(* their vectors. It indexes the lists of all nlist cells: where one is     *)
(* missing (VShort), that panics.                                           *)
VShort(x) == Len(x.lists) < x.nlist
PositionsIn(lists) == {e.pos : e \in ToSet(FlattenSeq(lists))}
VPersist(x) ==
  LET lists == [c \in 1..x.nlist |->
                  SelectSeq(x.lists[c], LAMBDA e : e.pos \notin x.dead)]
  IN [kind |-> "ivf", nlist |-> x.nlist, nprobe |-> x.nprobe, coded |-> x.coded,
      cents |-> x.cents, lists |-> lists,
      vecs |-> [p \in PositionsIn(lists) |-> x.vecs[p]]]

(* Recover: the lists as written; the vectors and cells from the postings. *)
VRecover(x, b) ==
  LET in(c) == PositionsIn(<<b.lists[c]>>)
      all == PositionsIn(b.lists)
      last(p) == CHOOSE c \in 1..b.nlist :
                   p \in in(c) /\ \A o \in (c + 1)..b.nlist : p \notin in(o)
  IN [x EXCEPT !.nlist = b.nlist, !.nprobe = b.nprobe, !.coded = b.coded,
               !.cents = b.cents, !.lists = b.lists, !.dead = {},
               !.vecs = [p \in all |-> b.vecs[p]],
               !.assignOf = [p \in all |-> last(p)]]

(* Recover of a blob cut short: nothing; the cells and the first centroids, *)
(* before a codec that is cut; or the first postings too.                   *)
VTorn(x, b) ==
  LET before(c) == Len(FlattenSeq(SubSeq(b.lists, 1, c - 1)))
      first(n) == [c \in 1..b.nlist |-> Cut(b.lists[c], n - before(c))]
      some(n) == [c \in 1..b.nlist |-> IF c <= n THEN b.cents[c] ELSE 0]
      total == before(b.nlist + 1)
      lost == {n \in 0..total : n < total \/ (b.nlist > 0 /\ b.lists[b.nlist] = <<>>)}
  IN {x} \cup {VRecover(x, [b EXCEPT !.lists = first(n)]) : n \in lost}
         \cup (IF b.coded
               THEN {[x EXCEPT !.nlist = b.nlist, !.nprobe = b.nprobe,
                               !.cents = some(n), !.coded = FALSE] : n \in 0..b.nlist}
               ELSE {VRecover(x, [b EXCEPT !.cents = some(n), !.lists = first(0)]) :
                     n \in 1..b.nlist})

VClose(x) ==
  [x EXCEPT !.cents = Nil, !.lists = Nil, !.vecs = <<>>, !.assignOf = <<>>,
            !.dead = {}, !.coded = FALSE]
=============================================================================

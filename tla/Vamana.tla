------------------------------- MODULE Vamana -------------------------------
(* The DiskANN graph of index/vamana.go and vamana_io.go as operators on    *)
(* the struct. The shuffled build order is a parameter: it follows from a   *)
(* seed.                                                                    *)
EXTENDS Candidates, SequencesExt

LOCAL Nowhere == Nil          \* invalidMedoid

(* NewVamana; alpha is <<6, 5>>, the 1.2 of the code. *)
NewVamana(c) ==
  [kind |-> "vamana", r |-> c.r, l |-> c.l, alpha |-> <<6, 5>>,
   beam |-> c.beam, coded |-> c.coded, nbrs |-> <<>>, vecs |-> <<>>,
   order |-> <<>>, dead |-> {}, medoid |-> Nowhere, closed |-> FALSE]

GLive(g) == DOMAIN g.vecs \ g.dead

(* robustPrune: nearest first and at most r, none that a chosen neighbour   *)
(* is on the way to. The distances of the candidates are to p.              *)
robustPrune(g, p, cands, alpha) ==
  LET onTheWay(n, c) == alpha[1] * dist(g.vecs[n], g.vecs[c.pos]) <= alpha[2] * c.d
      pick(s, c) == IF Len(s) >= g.r \/ \E n \in ToSet(s) : onTheWay(n, c)
                    THEN s ELSE Append(s, c.pos)
  IN FoldLeft(pick, <<>>, Ranked({c \in cands : c.pos # p}))

(* linkBackward: p at the end of q's list, which is pruned when it is full. *)
linkBackward(g, q, p, alpha) ==
  LET new == Append(g.nbrs[q], p)
      cands == {candidate(e, dist(g.vecs[q], g.vecs[e])) : e \in ToSet(new)}
  IN IF q = p \/ p \in ToSet(g.nbrs[q]) THEN g
     ELSE [g EXCEPT !.nbrs[q] = IF Len(new) > g.r
                                THEN robustPrune(g, q, cands, alpha) ELSE new]

(* nthDist: the distance of the n-th nearest. *)
nthDist(C, n) == Ranked(C)[n].d

(* greedyForBuild: everything seen on the way from the medoid, until the    *)
(* nearest unexplored point is farther than the l-th result.                *)
RECURSIVE Greedy(_, _, _)
Greedy(g, q, s) ==
  LET best == nearest(s.frontier)
      new == {candidate(n, dist(g.vecs[n], q)) :
                n \in ToSet(g.nbrs[best.pos]) \ {c.pos : c \in s.results}}
  IN IF \/ s.frontier = {}
        \/ Cardinality(s.results) >= g.l /\ best.d > nthDist(s.results, g.l)
     THEN s.results
     ELSE Greedy(g, q, [frontier |-> (s.frontier \ {best}) \cup new,
                        results |-> s.results \cup new])
greedyForBuild(g, q) ==
  LET first == candidate(g.medoid[1], dist(g.vecs[g.medoid[1]], q))
  IN Greedy(g, q, [frontier |-> {first}, results |-> {first}])

(* The links of p to what the search finds, and back. *)
Connect(g, p, alpha) ==
  LET chosen == robustPrune(g, p, greedyForBuild(g, g.vecs[p]), alpha)
      back(f, q) == linkBackward(f, q, p, alpha)
  IN IF g.medoid = Nowhere THEN [g EXCEPT !.nbrs = (p :> <<>>) @@ @]
     ELSE FoldLeft(back, [g EXCEPT !.nbrs = (p :> chosen) @@ @], chosen)

buildPass(g, order, alpha) ==
  LET connect(f, p) == Connect(f, p, alpha) IN FoldLeft(connect, g, order)

(* computeMedoid: the live point nearest the mean of the live points, the   *)
(* first in build order among equals; both sides are scaled by their number. *)
RECURSIVE SumOf(_, _)
SumOf(g, S) == IF S = {} THEN 0
               ELSE LET p == CHOOSE p \in S : TRUE IN g.vecs[p] + SumOf(g, S \ {p})
computeMedoid(g) ==
  LET live == SelectSeq(g.order, LAMBDA p : p \in GLive(g))
      off(p) == dist(SumOf(g, GLive(g)), Cardinality(GLive(g)) * g.vecs[p])
      better(b, p) == IF off(p) < off(b) THEN p ELSE b
  IN IF GLive(g) = {} THEN Nowhere
     ELSE <<FoldLeft(better, live[1], Tail(live))>>

(* shuffleU32: the build order, one permutation f of the positions. *)
shuffleU32(s, f) == [n \in 1..Len(s) |-> f[s[n]]]

(* Build: all vectors, the medoid, then a pass without and one with the    *)
(* long-range bias.                                                        *)
GBuild(g, positions, vec, order) ==
  LET P == ToSet(positions)
      fresh == [g EXCEPT !.nbrs = [p \in P |-> <<>>], !.vecs = [p \in P |-> vec[p]],
                         !.order = positions, !.dead = {}, !.medoid = Nowhere,
                         !.closed = FALSE]
      placed == [fresh EXCEPT !.medoid = computeMedoid(fresh)]
  IN Did(IF P = {} THEN fresh
         ELSE buildPass(buildPass(placed, order, <<1, 1>>), order, g.alpha), OK)

(* Insert: the first live point becomes the medoid, any other is linked in. *)
(* After Close the maps are nil and the first write to one panics.          *)
GInsert(g, p, v) ==
  LET kept == [g EXCEPT !.dead = @ \ {p}, !.vecs = (p :> v) @@ @,
                        !.order = IF p \in DOMAIN g.nbrs THEN @ ELSE Append(@, p)]
  IN IF g.closed THEN Did(g, Fails("panic"))
     ELSE Did([Connect(kept, p, g.alpha) EXCEPT
                 !.medoid = IF @ = Nowhere THEN <<p>> ELSE @], OK)

(* Delete: a tombstone, and a new medoid when it was the old one. *)
GDelete(g, p) ==
  LET gone == [g EXCEPT !.dead = @ \cup {p}]
  IN Did(IF p \notin DOMAIN g.vecs THEN g
         ELSE IF g.medoid = <<p>> THEN [gone EXCEPT !.medoid = computeMedoid(gone)]
         ELSE gone, OK)

admissibleResult(g, p, filter) == p \notin g.dead /\ Passes(filter, p)

gNavDist(g, q, p) ==
  dist(IF g.coded THEN Decoded(g.vecs[p]) ELSE g.vecs[p], q)

(* The beam search: up to beam of the best open points are expanded at a    *)
(* time, in order, and it stops once k results are in and the next open     *)
(* point navigates farther than the k-th.                                   *)
RECURSIVE Beam(_, _, _, _, _, _)
Beam(g, q, k, beam, filter, s) ==
  LET batch == Cut(Ranked(s.open), beam)
      expand(t, c) ==
        LET new == {candidate(n, gNavDist(g, q, n)) :
                      n \in ToSet(g.nbrs[c.pos]) \ t.seen}
        IN [open |-> t.open \cup new, seen |-> t.seen \cup {n.pos : n \in new},
            results |-> IF admissibleResult(g, c.pos, filter)
                        THEN t.results \cup {candidate(c.pos, dist(g.vecs[c.pos], q))}
                        ELSE t.results]
      t == FoldLeft(expand, [s EXCEPT !.open = @ \ ToSet(batch)], batch)
  IN IF s.open = {} THEN s.results
     ELSE IF /\ Cardinality(t.results) >= k /\ t.open # {}
             /\ nearest(t.open).d > nthDist(t.results, k)
     THEN t.results
     ELSE Beam(g, q, k, beam, filter, t)

GSearch(g, q, k, filter, o) ==
  LET first == candidate(g.medoid[1], gNavDist(g, q, g.medoid[1]))
      found == Beam(g, q, k, IF o.beam <= 0 THEN g.beam ELSE o.beam, filter,
                    [open |-> {first}, seen |-> {first.pos}, results |-> {}])
  IN IF g.medoid = Nowhere \/ k <= 0 THEN OK
     ELSE Reply("nil", Cut(Ranked(found), k))

(* Persist keeps the live nodes and the links between live nodes. *)
GPersist(g) ==
  LET lives(p) == p \in GLive(g)
  IN [kind |-> "vamana", r |-> g.r, l |-> g.l, beam |-> g.beam,
      alpha |-> g.alpha, coded |-> g.coded, medoid |-> g.medoid,
      order |-> SelectSeq(g.order, lives),
      vecs |-> [p \in GLive(g) |-> g.vecs[p]],
      nbrs |-> [p \in GLive(g) |-> SelectSeq(g.nbrs[p], lives)]]

GRecover(g, b) ==
  [g EXCEPT !.r = b.r, !.l = b.l, !.beam = b.beam, !.alpha = b.alpha,
            !.coded = b.coded, !.medoid = b.medoid, !.order = b.order,
            !.vecs = b.vecs, !.nbrs = b.nbrs, !.dead = {}, !.closed = FALSE]

(* Recover of a blob cut short: nothing; the header, before a codec that is *)
(* cut; or the header and the first nodes.                                  *)
GTorn(g, b) ==
  LET first(n) == ToSet(SubSeq(b.order, 1, n))
      only(f, P) == [p \in P |-> f[p]]
      header == [g EXCEPT !.r = b.r, !.l = b.l, !.beam = b.beam, !.alpha = b.alpha,
                          !.medoid = b.medoid, !.coded = FALSE]
  IN {g} \cup (IF b.coded THEN {header} ELSE {})
         \cup {GRecover(g, [b EXCEPT !.order = SubSeq(@, 1, n),
                                     !.vecs = only(@, first(n)),
                                     !.nbrs = only(@, first(n))]) :
               n \in 0..(Len(b.order) - 1)}

GClose(g) ==
  [g EXCEPT !.nbrs = <<>>, !.vecs = <<>>, !.order = <<>>, !.dead = {},
            !.medoid = Nowhere, !.closed = TRUE]
=============================================================================

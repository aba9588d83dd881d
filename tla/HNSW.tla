-------------------------------- MODULE HNSW --------------------------------
(* The HNSW graph of index/hnsw.go and hnsw_io.go as operators on the       *)
(* struct: each method runs under the index mutex, so each is one step of   *)
(* the specification that uses it. A level draw is a parameter.             *)
EXTENDS Candidates, SequencesExt

LOCAL Nowhere == Nil          \* invalidPos

(* NewHNSW. A node's codes follow from its vector and are not kept apart. *)
NewHNSW(c) ==
  [kind |-> "hnsw", m |-> c.m, m0 |-> c.m0, efc |-> c.efc, coded |-> c.coded,
   naive |-> c.naive, nodes |-> <<>>, vecs |-> <<>>, ep |-> Nowhere,
   top |-> -1, closed |-> FALSE, read |-> {}]

HLive(h) == {p \in DOMAIN h.nodes : ~h.nodes[p].dead}

(* Reading the vector of a position that has none is an index out of range  *)
(* in the distance kernel: a call collects the positions it reads (in       *)
(* "read"), and what it computes after such a read is never seen.           *)
vectorAt(h, p) == IF p \in DOMAIN h.vecs THEN h.vecs[p] ELSE 0
Sound(h, read) == read \subseteq DOMAIN h.vecs

navDist(h, q, p) ==
  dist(q, IF h.coded THEN Decoded(vectorAt(h, p)) ELSE vectorAt(h, p))

Links(h, p, layer) ==
  IF p \notin DOMAIN h.nodes \/ layer > h.nodes[p].level THEN <<>>
  ELSE h.nodes[p].nbrs[layer + 1]

admissible(h, p, filter) ==
  /\ p \in DOMAIN h.nodes
  /\ ~h.nodes[p].dead
  /\ Passes(filter, p)

(* greedyDescend: one sweep over the neighbours moves to each that is       *)
(* nearer than the last, and sweeps repeat until none is.                   *)
Nearer(at, nb, d) ==
  IF d < at.d THEN [cur |-> nb, d |-> d, read |-> at.read \cup {nb}]
  ELSE [at EXCEPT !.read = @ \cup {nb}]

RECURSIVE greedyDescend(_, _, _, _)
greedyDescend(h, q, at, layer) ==
  LET near(a, nb) == Nearer(a, nb, navDist(h, q, nb))
      moved == FoldLeft(near, at, Links(h, at.cur, layer))
  IN IF moved.cur = at.cur THEN moved ELSE greedyDescend(h, q, moved, layer)

RECURSIVE Descend(_, _, _, _, _)
Descend(h, q, at, layer, stop) ==
  IF layer <= stop THEN at
  ELSE Descend(h, q, greedyDescend(h, q, at, layer), layer - 1, stop)

AtEntry(h, q) ==
  [cur |-> h.ep[1], d |-> navDist(h, q, h.ep[1]), read |-> {h.ep[1]}]

(* searchLayer: the best-first search that keeps ef results. A point seen   *)
(* for the first time is a hop while there is room or it is nearer than the *)
(* farthest result, and then a result too when it is admissible.            *)
KeepBest(results, ef) ==
  IF Cardinality(results) > ef THEN results \ {farthest(results)} ELSE results

Worse(d, results, ef) ==
  Cardinality(results) >= ef /\ d > farthest(results).d

Visit(t, n, ef, isResult) ==
  LET wanted == \/ Cardinality(t.results) < ef
                \/ n.d < farthest(t.results).d
  IN [cands |-> IF wanted THEN t.cands \cup {n} ELSE t.cands,
      results |-> IF wanted /\ isResult THEN KeepBest(t.results \cup {n}, ef)
                  ELSE t.results,
      read |-> t.read \cup {n.pos}]

RECURSIVE Explore(_, _, _, _, _, _)
Explore(h, q, ef, layer, filter, s) ==
  LET c == nearest(s.cands)
      visit(t, nb) ==
        IF nb \in t.read THEN t
        ELSE Visit(t, candidate(nb, navDist(h, q, nb)), ef,
                   admissible(h, nb, filter))
  IN IF s.cands = {} \/ Worse(c.d, s.results, ef) THEN s
     ELSE Explore(h, q, ef, layer, filter,
                  FoldLeft(visit, [s EXCEPT !.cands = @ \ {c}],
                           Links(h, c.pos, layer)))

Sorted(s) == [out |-> Ranked(s.results), read |-> s.read]

searchLayer(h, q, ep, ef, layer, filter) ==
  LET first == candidate(ep, navDist(h, q, ep))
  IN Sorted(Explore(h, q, ef, layer, filter,
              [cands |-> {first}, read |-> {ep},
               results |-> IF admissible(h, ep, filter) THEN {first} ELSE {}]))

(* selectNeighbors: all when they fit, the nearest maxM, or the heuristic:  *)
(* a candidate nearer to a chosen one than to the point is put aside, and   *)
(* the ones put aside fill what room is left.                               *)
selectNeighbors(h, cands, maxM) ==
  LET pick(s, e) ==
        IF Len(s.chosen) >= maxM THEN s
        ELSE IF \E n \in ToSet(s.chosen) :
                  dist(vectorAt(h, e.pos), vectorAt(h, n)) < e.d
             THEN [s EXCEPT !.aside = Append(@, e.pos)]
             ELSE [s EXCEPT !.chosen = Append(@, e.pos)]
      s == FoldLeft(pick, [chosen |-> <<>>, aside |-> <<>>], cands)
  IN IF Len(cands) <= maxM \/ h.naive THEN Cut(PositionsOf(cands), maxM)
     ELSE Cut(s.chosen \o s.aside, maxM)

pruneNeighbors(h, p, nbrs, maxM) ==
  selectNeighbors(h, Ranked({candidate(n, dist(vectorAt(h, p), vectorAt(h, n))) :
                             n \in ToSet(nbrs)}), maxM)

(* Variant: links back that are forgotten. *)
linkBackNone(h, dst, src, layer, maxM) == h

linkBack(h, dst, src, layer, maxM) ==
  LET old == Links(h, dst, layer)
      new == Append(old, src)
  IN IF \/ dst \notin DOMAIN h.nodes \/ layer > h.nodes[dst].level
        \/ src \in ToSet(old)
     THEN h
     ELSE IF Len(new) > maxM
     THEN [h EXCEPT !.nodes[dst].nbrs[layer + 1] = pruneNeighbors(h, dst, new, maxM),
                    !.read = @ \cup ToSet(new)]
     ELSE [h EXCEPT !.nodes[dst].nbrs[layer + 1] = new]

(* The links of p from layer down to 0, each found from the nearest point  *)
(* of the layer above, and linked back from the other side.                *)
LinkBoth(h, p, chosen, layer, maxM) ==
  LET back(g, nb) == linkBack(g, nb, p, layer, maxM)
  IN FoldLeft(back, [h EXCEPT !.nodes[p].nbrs[layer + 1] = chosen], chosen)

LinkLayer(h, p, cur, layer, maxM, found) ==
  [h |-> LinkBoth([h EXCEPT !.read = @ \cup found.read], p,
                  selectNeighbors(h, found.out, maxM), layer, maxM),
   cur |-> IF found.out = <<>> THEN cur ELSE found.out[1].pos]

LinkDown(h0, p, cur0, top) ==
  LET down(s, layer) ==
        LinkLayer(s.h, p, s.cur, layer, IF layer = 0 THEN s.h.m0 ELSE s.h.m,
                  searchLayer(s.h, s.h.vecs[p], s.cur, s.h.efc, layer, Nil))
  IN FoldLeft(down, [h |-> h0, cur |-> cur0],
              [i \in 1..(top + 1) |-> top + 1 - i]).h

(* insertLocked: a new node in place of any old one; the first becomes the *)
(* entrypoint, and so does one above every layer.                          *)
AddNode(h, p, v, level) ==
  LET node == [level |-> level, nbrs |-> [i \in 1..(level + 1) |-> <<>>],
               dead |-> FALSE]
  IN [h EXCEPT !.nodes = (p :> node) @@ @, !.vecs = (p :> v) @@ @]

LinkFrom(h, p, level, at) ==
  LinkDown([h EXCEPT !.read = at.read], p, at.cur,
           IF level < h.top THEN level ELSE h.top)

Raise(h, p, level) ==
  IF level > h.top THEN [h EXCEPT !.ep = <<p>>, !.top = level] ELSE h

LinkNode(h, p, v, level) ==
  IF h.ep = Nowhere THEN [h EXCEPT !.ep = <<p>>, !.top = level]
  ELSE Raise(LinkFrom(h, p, level, Descend(h, v, AtEntry(h, v), h.top, level)),
             p, level)

insertLocked(h, p, v, level) == LinkNode(AddNode(h, p, v, level), p, v, level)

(* applyBuildParams: what is set in the parameters replaces what the index  *)
(* has, and the selection is theirs either way.                             *)
NoParams == [m |-> 0, m0 |-> 0, efc |-> 0, coded |-> FALSE, naive |-> FALSE]
applyBuildParams(h, p) ==
  [h EXCEPT !.m = IF p.m > 0 THEN p.m ELSE @,
            !.m0 = CASE p.m0 > 0 -> p.m0
                     [] p.m0 <= 0 /\ p.m > 0 -> 2 * p.m
                     [] OTHER -> @,
            !.efc = IF p.efc > 0 THEN p.efc ELSE @,
            !.coded = @ \/ p.coded, !.naive = p.naive]

(* Build: everything anew, the positions in order; a cancelled context     *)
(* stops it after "done" of them and leaves those in the graph.            *)
HBuild(h, positions, vec, params, level, done) ==
  LET empty == [applyBuildParams(h, params) EXCEPT
                  !.nodes = <<>>, !.vecs = <<>>, !.ep = Nowhere, !.top = -1]
      add(g, p) == insertLocked(g, p, vec[p], level[p])
  IN IF h.closed THEN Did(h, Fails("ErrClosed"))
     ELSE Did([FoldLeft(add, empty, SubSeq(positions, 1, done))
                 EXCEPT !.read = {}],
              IF done < Len(positions) THEN Fails("canceled") ELSE OK)

Linked(h) == Did([h EXCEPT !.read = {}],
                 IF Sound(h, h.read) THEN OK ELSE Fails("panic"))

HInsert(h, p, v, level) ==
  IF h.closed THEN Did(h, Fails("ErrClosed"))
  ELSE Linked(insertLocked(h, p, v, level))

(* Variant: a repair that leaves the top layer as it was. *)
repairEntrypointTop(h, old) ==
  IF HLive(h) = {} THEN [h EXCEPT !.ep = Nowhere]
  ELSE [h EXCEPT !.ep = <<CHOOSE p \in HLive(h) : TRUE>>]

(* repairEntrypoint: the first live neighbour from the old node's top layer *)
(* down, else the live node of the highest level, the smallest position.    *)
repairEntrypoint(h, old) ==
  LET lists == h.nodes[old].nbrs
      near == FlattenSeq(Reverse(lists))
      live == SelectSeq(near, LAMBDA n : n \in HLive(h))
      best == CHOOSE p \in HLive(h) : \A o \in HLive(h) :
                \/ h.nodes[p].level > h.nodes[o].level
                \/ h.nodes[p].level = h.nodes[o].level /\ p <= o
      to == IF live # <<>> THEN live[1] ELSE best
  IN IF HLive(h) = {} THEN [h EXCEPT !.ep = Nowhere, !.top = -1]
     ELSE [h EXCEPT !.ep = <<to>>, !.top = h.nodes[to].level]

(* Delete: a tombstone; the node stays as a hop. *)
HDelete(h, p) ==
  LET gone == [h EXCEPT !.nodes[p].dead = TRUE]
  IN CASE h.closed -> Did(h, Fails("ErrClosed"))
       [] ~h.closed /\ p \notin HLive(h) -> Did(h, OK)
       [] ~h.closed /\ p \in HLive(h) ->
            Did(IF h.ep = <<p>> THEN repairEntrypoint(gone, p) ELSE gone, OK)

rerankLocked(h, q, cands, r) ==
  Ranked({candidate(p, dist(q, h.vecs[p])) :
          p \in ToSet(PositionsOf(Cut(cands, r)))})

(* Search: down the layers to one entry, the ef-bounded search of layer 0,  *)
(* the rerank a codec's caller asks for, and the first k; nothing of it     *)
(* when the context was cancelled meanwhile.                                *)
Answer(h, q, k, o, found) ==
  IF ~Sound(h, found.read) THEN Fails("panic")
  ELSE IF o.canceled THEN Fails("canceled")
  ELSE Reply("nil", Cut(IF o.rerank /\ h.coded
                        THEN rerankLocked(h, q, found.out, 3 * k)
                        ELSE found.out, k))

SearchBase(h, q, ef, filter, at) ==
  LET found == searchLayer(h, q, at.cur, ef, 0, filter)
  IN [found EXCEPT !.read = @ \cup at.read]

HSearch(h, q, k, filter, o) ==
  LET asked == IF o.ef <= 0 THEN 50 ELSE o.ef
  IN IF h.closed THEN Fails("ErrClosed")
     ELSE IF h.ep = Nowhere THEN OK
     ELSE Answer(h, q, k, o,
            SearchBase(h, q, IF asked < k THEN k ELSE asked, filter,
                       Descend(h, q, AtEntry(h, q), h.top, 0)))

(* Persist drops the tombstoned nodes, not the links that lead to them. *)
HPersist(h) ==
  [kind |-> "hnsw", m |-> h.m, m0 |-> h.m0, efc |-> h.efc, ep |-> h.ep,
   top |-> h.top, nodes |-> [p \in HLive(h) |-> h.nodes[p]],
   vecs |-> [p \in HLive(h) |-> h.vecs[p]]]

(* Recover: the graph of the blob in an index that keeps its own codec, and *)
(* its own selection.                                                       *)
HRecover(h, b) ==
  [h EXCEPT !.m = b.m, !.m0 = b.m0, !.efc = b.efc, !.ep = b.ep, !.top = b.top,
            !.nodes = b.nodes, !.vecs = b.vecs]

Only(b, P) == [b EXCEPT !.nodes = [p \in P |-> @[p]], !.vecs = [p \in P |-> @[p]]]

(* A list longer than the base degree and one is taken for damage (upper    *)
(* layers have theirs from m): the nodes before it are in place by then.    *)
Overlong(b) == {p \in DOMAIN b.nodes : \E l \in 1..Len(b.nodes[p].nbrs) :
                  Len(b.nodes[p].nbrs[l]) > b.m0 + 1}
HRead(h, b) ==
  IF Overlong(b) = {} THEN Did(HRecover(h, b), OK)
  ELSE Did(HRecover(h, Only(b, {p \in DOMAIN b.nodes :
                                  \A o \in Overlong(b) : p < o})),
           Fails("ErrIndexCorrupt"))

(* Recover of a blob cut short: nothing, or the header with its entrypoint  *)
(* and the first nodes before the error.                                    *)
HTorn(h, b) ==
  LET before(p) == {o \in DOMAIN b.nodes : o < p}
  IN {h} \cup {HRecover(h, Only(b, before(p))) : p \in DOMAIN b.nodes}

HClose(h) == [h EXCEPT !.closed = TRUE, !.nodes = <<>>, !.vecs = <<>>]
=============================================================================

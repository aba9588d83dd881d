-------------------------------- MODULE SPANN -------------------------------
(* The SPANN index of index/spann.go and spann_io.go as operators on the    *)
(* struct: an HNSW graph over the centroids leads to the posting lists, and *)
(* a point near a boundary is in several lists. Cells are numbered from 0,  *)
(* as the graph's positions.                                                *)
EXTENDS HNSW, IVF

(* NewSPANN; the replication factor is <<11, 10>>, the 1.1 of the code. *)
NewSPANN(c) ==
  [kind |-> "spann", nlist |-> c.nlist, nprobe |-> c.nprobe,
   replicas |-> c.replicas, eps |-> <<11, 10>>, ci |-> Nil, cents |-> Nil,
   lists |-> <<>>, vecs |-> <<>>, dead |-> {}, closed |-> FALSE]

SLive(s) == DOMAIN s.vecs \ s.dead

List(s, c) == IF c \in DOMAIN s.lists THEN s.lists[c] ELSE <<>>

(* The graph over the centroids, with the defaults of NewHNSW. *)
CentroidIndex(cents, level) ==
  LET cells == [i \in 1..Len(cents) |-> i - 1]
      at == [c \in 0..(Len(cents) - 1) |-> cents[c + 1]]
      new == NewHNSW([m |-> 16, m0 |-> 32, efc |-> 200, coded |-> FALSE,
                      naive |-> FALSE])
  IN <<HBuild(new, cells, at, NoParams, level, Len(cells)).idx>>

(* assignReplicated: the nearest list, and the others within the factor of  *)
(* it, nearest first, up to replicas.                                       *)
assignReplicated(s, p, v) ==
  LET ds == Ranked({candidate(c, dist(s.cents[c + 1], v)) : c \in 0..(s.nlist - 1)})
      joins(i) == \/ i = 1
                  \/ i <= s.replicas /\ s.eps[2] * ds[i].d <= s.eps[1] * ds[1].d
      chosen == {ds[i].pos : i \in {j \in 1..Len(ds) : joins(j)}}
  IN [s EXCEPT !.lists = [c \in chosen |-> Append(List(s, c), p)] @@ @]

(* Build: cells no more than points, centroids, their graph, assignments.  *)
(* A context cancelled while the graph is built leaves the new vectors and *)
(* centroids, no lists, and the graph of the build before.                 *)
SBuild(s, positions, vec, train, level, canceled) ==
  LET n == Len(positions)
      fresh == [s EXCEPT !.lists = <<>>, !.dead = {}, !.closed = FALSE,
                         !.vecs = [p \in ToSet(positions) |-> vec[p]]]
      cells == min2(max2(IF s.nlist <= 0 THEN roundPow2(isqrt(n)) ELSE s.nlist, 1), n)
      cents == trainCentroids(train, cells)
      trained == [fresh EXCEPT !.nlist = cells, !.cents = cents]
      add(t, p) == assignReplicated(t, p, vec[p])
  IN CASE n = 0 -> Did([fresh EXCEPT !.ci = Nil, !.cents = Nil], OK)
       [] n > 0 /\ canceled -> Did(trained, Fails("canceled"))
       [] OTHER -> Did(FoldLeft(add, [trained EXCEPT !.ci = CentroidIndex(cents, level)],
                                positions), OK)

removeFromLists(s, p) ==
  [s EXCEPT !.lists = [c \in DOMAIN s.lists |->
                         SelectSeq(s.lists[c], LAMBDA e : e # p)]]

(* Insert: out of its old lists and into its new ones; without centroids it *)
(* goes to list 0. After Close the maps are nil and the first write panics. *)
SInsert(s, p, v) ==
  LET kept == [s EXCEPT !.dead = @ \ {p}, !.vecs = (p :> v) @@ @]
  IN IF s.closed THEN Did(s, Fails("panic"))
     ELSE Did(IF s.ci = Nil \/ s.nlist = 0
              THEN [kept EXCEPT !.lists = (0 :> Append(List(s, 0), p)) @@ @]
              ELSE assignReplicated(removeFromLists(kept, p), p, v), OK)

SDelete(s, p) ==
  Did(IF p \in DOMAIN s.vecs THEN [s EXCEPT !.dead = @ \cup {p}] ELSE s, OK)

(* Search: the lists of the centroids the graph finds, each member once. *)
SSearch(s, q, k, filter, o) ==
  LET probe == min2(IF o.nprobe <= 0 THEN s.nprobe ELSE o.nprobe, s.nlist)
      cells == HSearch(s.ci[1], q, probe, Nil, 
                       [ef |-> 4 * probe, rerank |-> FALSE, canceled |-> o.canceled])
      listed == UNION {ToSet(List(s, c.pos)) : c \in ToSet(cells.hits)}
      out == {p \in listed : p \in SLive(s) /\ Passes(filter, p)}
  IN IF s.ci = Nil \/ k <= 0 THEN OK
     ELSE IF cells.err # "nil" THEN Fails(cells.err)
     ELSE Reply("nil", Cut(Ranked({candidate(p, dist(q, s.vecs[p])) : p \in out}), k))

(* A float32 as the word that carries it. A count or a position read as a   *)
(* float is a denormal number next to zero, and the word of any other float *)
(* read as a count is more than the blob holds.                             *)
Bits(v) == IF v = 0 THEN 0 ELSE 1000 + v
Float(w) == IF w < 1000 THEN 0 ELSE w - 1000

(* Persist: after the header the centroids there are, the number of live    *)
(* vectors and each of them, then the live members of each list, with their *)
(* number. The graph is not written. What has no centroids announces nlist  *)
(* of them all the same, and is hollow.                                     *)
Hollow(s) == s.kind = "spann" /\ s.cents = Nil /\ s.nlist > 0
SPersist(s) ==
  LET live == SortSeq(SetToSeq(SLive(s)), <)
      point(p) == <<p, Bits(s.vecs[p])>>
      listed(c) == SelectSeq(List(s, c), LAMBDA p : p \in SLive(s))
      words == [i \in 1..Len(s.cents) |-> Bits(s.cents[i])] \o <<Len(live)>>
               \o FlattenSeq([i \in 1..Len(live) |-> point(live[i])])
               \o FlattenSeq([i \in 1..s.nlist |->
                                <<Len(listed(i - 1))>> \o listed(i - 1)])
  IN [kind |-> "spann", nlist |-> s.nlist, nprobe |-> s.nprobe,
      replicas |-> s.replicas, eps |-> s.eps, cents |-> s.cents, words |-> words,
      vecs |-> [p \in SLive(s) |-> s.vecs[p]]]

(* The lists from word "at" on, until one is longer than what is left. *)
ReadLists(w, nlist, at) ==
  LET read(t, c) ==
        IF t.short \/ t.at > Len(w) \/ t.at + w[t.at] > Len(w)
        THEN [t EXCEPT !.short = TRUE]
        ELSE [t EXCEPT !.at = @ + w[t.at] + 1,
                       !.lists = (c :> SubSeq(w, t.at + 1, t.at + w[t.at])) @@ @]
  IN FoldLeft(read, [at |-> at, lists |-> <<>>, short |-> FALSE],
              [i \in 1..nlist |-> i - 1])

(* Recover, of the words w: what is announced is read, and the error comes  *)
(* when they run out, with what came before it in place. The graph is built *)
(* again from the centroids.                                                *)
SRead(s, b, w, level) ==
  LET at(i) == IF i <= Len(w) THEN w[i] ELSE 0
      header == [s EXCEPT !.nlist = b.nlist, !.nprobe = b.nprobe,
                          !.replicas = b.replicas, !.eps = b.eps,
                          !.cents = [i \in 1..b.nlist |-> Float(at(i))]]
      count == at(b.nlist + 1)
      whole == min2(count, (Len(w) - b.nlist - 1) \div 2)
      put(f, i) == (w[b.nlist + 2 * i] :> Float(w[b.nlist + 2 * i + 1])) @@ f
      body == [header EXCEPT !.vecs = FoldLeft(put, <<>>, [i \in 1..whole |-> i]),
                             !.dead = {}]
      read == ReadLists(w, b.nlist, b.nlist + 2 + 2 * count)
      listed == [body EXCEPT !.lists = read.lists]
  IN CASE Len(w) <= b.nlist -> Did(header, Fails("ErrIndexCorrupt"))
       [] Len(w) > b.nlist /\ whole < count -> Did(body, Fails("ErrIndexCorrupt"))
       [] Len(w) > b.nlist /\ whole = count /\ read.short ->
            Did(listed, Fails("ErrIndexCorrupt"))
       [] OTHER ->
            Did([listed EXCEPT !.closed = FALSE,
                   !.ci = IF b.nlist > 0 THEN CentroidIndex(header.cents, level)
                          ELSE Nil], OK)

SRecover(s, b, level) == SRead(s, b, b.words, level)

(* Recover of a blob cut short: nothing, or what the words before the cut   *)
(* hold.                                                                    *)
STorn(s, b) ==
  {s} \cup {SRead(s, b, SubSeq(b.words, 1, n), <<>>).idx : n \in 0..(Len(b.words) - 1)}

SClose(s) ==
  [s EXCEPT !.ci = Nil, !.lists = <<>>, !.vecs = <<>>, !.dead = {},
            !.cents = Nil, !.closed = TRUE]
=============================================================================

----------------------------- MODULE Candidates -----------------------------
(* What the vector indexes of index/ share: the distance they rank by, the  *)
(* candidate order with its tie-break, the heaps' two ends, the filter, and *)
(* the lossy codes a codec navigates with.                                  *)
(* A vector is an integer (one dimension); a position is a natural.         *)
EXTENDS Integers, Sequences, FiniteSets, TLC

Nil == <<>>

(* metricDistance: the squared Euclidean distance, the default metric. *)
dist(a, b) == (a - b) * (a - b)

(* What decoding the code of v gives back: a codec keeps v only in part. *)
Decoded(v) == v - (v % 2)

candidate(p, d) == [pos |-> p, d |-> d]

(* minLess: nearer first, and the smaller position among equals. *)
minLess(a, b) == IF a.d # b.d THEN a.d < b.d ELSE a.pos < b.pos

(* The heaps' tops: minHeap.pop and maxHeap.peek. minLess is a total order *)
(* on candidates of distinct positions, so the array layout cannot show.   *)
nearest(C) == CHOOSE c \in C : \A e \in C \ {c} : minLess(c, e)
farthest(C) == CHOOSE c \in C : \A e \in C \ {c} : minLess(e, c)

(* sort.Slice(out, minLess) of candidates of distinct positions. *)
Ranked(C) ==
  [i \in 1..Cardinality(C) |->
     CHOOSE c \in C : Cardinality({e \in C : minLess(e, c)}) = i - 1]

PositionsOf(s) == [i \in 1..Len(s) |-> s[i].pos]

(* out[:k] when out is longer. *)
Cut(s, k) == IF Len(s) > k THEN SubSeq(s, 1, k) ELSE s

(* Bitmap.Contains; a filter is <<set>>, and Nil is no predicate. *)
Passes(filter, p) == filter = Nil \/ p \in filter[1]

(* What one method call gives: its error and, from Search, the candidates. *)
Reply(err, hits) == [err |-> err, hits |-> hits]
OK == Reply("nil", <<>>)
Fails(err) == Reply(err, <<>>)

(* What a call leaves: the index after it, and what the caller gets. *)
Did(i, r) == [idx |-> i, reply |-> r]
=============================================================================

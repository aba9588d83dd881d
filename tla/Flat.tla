-------------------------------- MODULE Flat --------------------------------
(* The exact index of index/flat.go as operators on the struct. *)
EXTENDS Candidates, SequencesExt

NewFlat == [kind |-> "flat", vecs |-> <<>>, dead |-> {}, closed |-> FALSE]

FLive(f) == DOMAIN f.vecs \ f.dead

(* Build: the positions in order, those up to "done" when the context is    *)
(* cancelled. It does not look at closed.                                   *)
FBuild(f, positions, vec, done) ==
  Did([f EXCEPT !.vecs = [p \in ToSet(SubSeq(positions, 1, done)) |-> vec[p]],
                !.dead = {}],
      IF done < Len(positions) THEN Fails("canceled") ELSE OK)

FInsert(f, p, v) ==
  IF f.closed THEN Did(f, Fails("ErrClosed"))
  ELSE Did([f EXCEPT !.vecs = (p :> v) @@ @, !.dead = @ \ {p}], OK)

FDelete(f, p) ==
  IF f.closed THEN Did(f, Fails("ErrClosed"))
  ELSE Did(IF p \in DOMAIN f.vecs THEN [f EXCEPT !.dead = @ \cup {p}] ELSE f, OK)

(* Search: every live vector that passes, ranked, the first k; nothing of   *)
(* it when the context was cancelled meanwhile.                             *)
FSearch(f, q, k, filter, o) ==
  IF f.closed THEN Fails("ErrClosed")
  ELSE IF o.canceled THEN Fails("canceled")
  ELSE Reply("nil", Cut(Ranked({candidate(p, dist(q, f.vecs[p])) :
                                p \in {l \in FLive(f) : Passes(filter, l)}}), k))


(* Persist writes the live points, also after Close; Recover reads them,   *)
(* and neither it nor Build opens a closed index.                          *)
FPersist(f) == [kind |-> "flat", vecs |-> [p \in FLive(f) |-> f.vecs[p]]]
FRecover(f, b) == [f EXCEPT !.vecs = b.vecs, !.dead = {}]

(* Recover of a blob cut short: nothing, or the header and some vectors (they *)
(* are written in the order of a map) before the error.                     *)
FTorn(f, b) ==
  {f} \cup {FRecover(f, [b EXCEPT !.vecs = [p \in P |-> b.vecs[p]]]) :
            P \in SUBSET DOMAIN b.vecs \ {DOMAIN b.vecs}}

FClose(f) == [f EXCEPT !.closed = TRUE, !.vecs = <<>>, !.dead = {}]
=============================================================================

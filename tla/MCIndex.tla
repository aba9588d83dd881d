------------------------------ MODULE MCIndex -------------------------------
(* One index of each kind, small enough for its bounds to bite: graphs that *)
(* prune and graphs that do not, with and without codes, two or more cells. *)
EXTENDS Index

MCPositions == 0..3
MCVectors == {0, 1, 3}
MCLevels == {0, 1}

hnswConf(m, m0, efc, coded, naive) ==
  [kind |-> "hnsw", m |-> m, m0 |-> m0, efc |-> efc, coded |-> coded,
   naive |-> naive]
ivfConf(nlist, coded) ==
  [kind |-> "ivf", nlist |-> nlist, nprobe |-> 1, coded |-> coded]
vamanaConf(r, l, coded) ==
  [kind |-> "vamana", r |-> r, l |-> l, beam |-> 2, coded |-> coded]

table(ps, v, p) == [positions |-> ps, vec |-> v, params |-> p]
MCBuilds ==
  {table(<<>>, <<>>, NoParams),
   table(<<2>>, 2 :> 1, [NoParams EXCEPT !.m = 2, !.efc = 4]),
   table(<<0, 1, 2>>, 0 :> 0 @@ 1 :> 1 @@ 2 :> 3, [NoParams EXCEPT !.naive = TRUE])}
MCInserts == {0, 1, 3} \X {0, 3}
MCTrainings == {<<0, 3>>, <<1, 3>>}

ask(q, k, filter, wide, canceled) ==
  [q |-> q, k |-> k, filter |-> filter, ef |-> IF wide THEN 0 ELSE 1,
   nprobe |-> IF wide THEN 2 ELSE 0, beam |-> IF wide THEN 0 ELSE 1,
   rerank |-> wide, canceled |-> canceled]
MCAsks == {ask(0, 4, Nil, TRUE, FALSE), ask(3, 2, <<{0, 1, 3}>>, TRUE, FALSE),
           ask(1, 2, <<{0, 1}>>, FALSE, FALSE), ask(1, 1, Nil, TRUE, TRUE)}

(* Any three or four calls; longer ways through a blob and out of it again; *)
(* and the ones that take entries away and give points again.              *)
Calls == {"build", "insert", "delete", "persist", "recover", "close"}
Moves == {"insert", "delete"}
Three == <<Calls, Calls, Calls>>
Four == <<Calls, Calls, Calls, Calls>>
Through == <<{"build"}, Moves, {"persist"}, {"recover"}, Moves \cup {"build"}>>
Around == <<{"build"}, Moves, Moves, {"persist"}, {"recover"}, Moves>>
Refused == <<{"build"}, {"insert"}, {"persist"}, {"recover"}, {"build", "close"}>>
Again == <<{"build"}, {"delete"}, {"insert"}, Moves>>

MCStarts ==
  {[kind |-> "flat"], ivfConf(2, FALSE), ivfConf(0, TRUE),
   vamanaConf(4, 4, FALSE), vamanaConf(1, 2, TRUE)} \X {Four, Around}
  \cup {hnswConf(1, 4, 4, TRUE, TRUE)} \X {Through, Again}
  \cup {<<hnswConf(1, 2, 2, FALSE, FALSE), Three>>,
        <<hnswConf(3, 1, 4, FALSE, TRUE), Refused>>}
  \cup {[kind |-> "spann", nlist |-> 2, nprobe |-> 1, replicas |-> 2]}
       \X {Three, Through}
=============================================================================

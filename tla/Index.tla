-------------------------------- MODULE Index -------------------------------
(* The five indexes of index/ behind the Index interface. One index of one  *)
(* kind is called by one caller at a time: every method holds the index     *)
(* mutex from its first to its last access. A call is one step that leaves  *)
(* its reply in "answer", and a second step returns it.                     *)
EXTENDS Flat, SPANN, Vamana

CONSTANTS
  Starts,        \* <<the configuration of an index, the calls it may meet>>
  Positions, Vectors,
  Levels,        \* the levels a draw may give
  Builds,        \* what Build is given: positions, their vectors, parameters
  Trainings,     \* the centroid sequences that training may give
  Inserts,       \* what Insert is given: a position and a vector
  Asks           \* the searches, with every parameter

VARIABLES
  conf,          \* the configuration
  idx,           \* the index
  blob,          \* Nil, or <<what Persist put into the page store>>
  torn,          \* the blob was cut short on its way
  answer,        \* Nil, or the reply of the call in progress
  plan,          \* the calls that may still change something: for each one
                 \* the set of methods it may be to
  marks,         \* what has happened to the index that its promises except:
                 \*   "again"   it was given a position that it held
                 \*   "tombs"   it was read from a blob without its tombstones
                 \*   "cut"     its build was cancelled halfway
                 \*   "misread" it was read from a blob at the wrong offset
                 \*   "refused" its last Recover failed
  written        \* the marks of the index that the blob was written from

vars == <<conf, idx, blob, torn, answer, plan, marks, written>>

New(c) ==
  CASE c.kind = "flat" -> NewFlat
    [] c.kind = "hnsw" -> NewHNSW(c)
    [] c.kind = "ivf" -> NewIVF(c)
    [] c.kind = "vamana" -> NewVamana(c)
    [] c.kind = "spann" -> NewSPANN(c)

(* The points each kind holds; an IVF index that has no lists has none. *)
LiveOf(i) ==
  CASE i.kind = "flat" -> FLive(i)
    [] i.kind = "hnsw" -> HLive(i)
    [] i.kind = "ivf" -> IF i.lists = Nil THEN {} ELSE VLive(i)
    [] i.kind = "vamana" -> GLive(i)
    [] i.kind = "spann" -> SLive(i)
PointsOf(i) == [p \in LiveOf(i) |-> i.vecs[p]]

DeadOf(i) ==
  IF i.kind = "hnsw" THEN {p \in DOMAIN i.nodes : i.nodes[p].dead} ELSE i.dead

(* Flat and HNSW have a flag that says they are closed. *)
Heeds(i) == i.kind \in {"flat", "hnsw"}
Shut(i) == Heeds(i) /\ i.closed

CellLevels(train) == [0..(Len(train) - 1) -> Levels]

(* What a build over b may leave: the draws, the training, the shuffle and  *)
(* the moment a context is cancelled are the seed's and the caller's.       *)
BuildOutcomes(i, b) ==
  LET Done == 0..Len(b.positions)
      P == {b.positions[n] : n \in 1..Len(b.positions)}
  IN CASE i.kind = "flat" -> {FBuild(i, b.positions, b.vec, n) : n \in Done}
       [] i.kind = "hnsw" -> {HBuild(i, b.positions, b.vec, b.params, l, n) :
                              l \in [P -> Levels], n \in Done}
       [] i.kind = "ivf" -> {VBuild(i, b.positions, b.vec, t, fails) :
                             t \in Trainings, fails \in BOOLEAN}
       [] i.kind = "vamana" -> {GBuild(i, b.positions, b.vec,
                                       shuffleU32(b.positions, f)) :
                                f \in Permutations(P)}
       [] i.kind = "spann" -> UNION {{SBuild(i, b.positions, b.vec, t, l, c) :
                                      l \in CellLevels(t), c \in BOOLEAN} :
                                     t \in Trainings}

InsertOutcomes(i, p, v) ==
  CASE i.kind = "flat" -> {FInsert(i, p, v)}
    [] i.kind = "hnsw" -> {HInsert(i, p, v, l) : l \in Levels}
    [] i.kind = "ivf" -> {VInsert(i, p, v)}
    [] i.kind = "vamana" -> {GInsert(i, p, v)}
    [] i.kind = "spann" -> {SInsert(i, p, v)}

DeleteOutcome(i, p) ==
  CASE i.kind = "flat" -> FDelete(i, p)
    [] i.kind = "hnsw" -> HDelete(i, p)
    [] i.kind = "ivf" -> VDelete(i, p)
    [] i.kind = "vamana" -> GDelete(i, p)
    [] i.kind = "spann" -> SDelete(i, p)

SearchOutcome(i, a) ==
  CASE i.kind = "flat" -> FSearch(i, a.q, a.k, a.filter, a)
    [] i.kind = "hnsw" -> HSearch(i, a.q, a.k, a.filter, a)
    [] i.kind = "ivf" -> VSearch(i, a.q, a.k, a.filter, a)
    [] i.kind = "vamana" -> GSearch(i, a.q, a.k, a.filter, a)
    [] i.kind = "spann" -> SSearch(i, a.q, a.k, a.filter, a)

BlobOf(i) ==
  CASE i.kind = "flat" -> FPersist(i)
    [] i.kind = "hnsw" -> HPersist(i)
    [] i.kind = "ivf" -> VPersist(i)
    [] i.kind = "vamana" -> GPersist(i)
    [] i.kind = "spann" -> SPersist(i)

(* What a whole blob gives, and what is left of the index by a cut one. *)
RecoverOutcomes(i, b) ==
  CASE i.kind = "flat" -> {Did(FRecover(i, b), OK)}
    [] i.kind = "hnsw" -> {HRead(i, b)}
    [] i.kind = "ivf" -> {Did(VRecover(i, b), OK)}
    [] i.kind = "vamana" -> {Did(GRecover(i, b), OK)}
    [] i.kind = "spann" -> {SRecover(i, b, l) : l \in [0..(b.nlist - 1) -> Levels]}

TornOutcomes(i, b) ==
  CASE i.kind = "flat" -> FTorn(i, b)
    [] i.kind = "hnsw" -> HTorn(i, b)
    [] i.kind = "ivf" -> VTorn(i, b)
    [] i.kind = "vamana" -> GTorn(i, b)
    [] i.kind = "spann" -> STorn(i, b)

CloseOutcome(i) ==
  CASE i.kind = "flat" -> FClose(i)
    [] i.kind = "hnsw" -> HClose(i)
    [] i.kind = "ivf" -> VClose(i)
    [] i.kind = "vamana" -> GClose(i)
    [] i.kind = "spann" -> SClose(i)
-----------------------------------------------------------------------------
Init ==
  /\ \E s \in Starts : conf = s[1] /\ plan = s[2]
  /\ idx = New(conf)
  /\ blob = Nil /\ torn = FALSE /\ answer = Nil /\ marks = {} /\ written = {}

Called(call, arg, reply) ==
  answer' = [call |-> call, arg |-> arg, reply |-> reply]

Change(call) ==
  answer = Nil /\ plan # <<>> /\ call \in Head(plan) /\ plan' = Tail(plan)

(* What refused its blob is to be built again, closed or dropped; see the   *)
(* comment on ErrIndexCorrupt.                                              *)
Usable == "refused" \notin marks

(* A build starts anew, unless it fails before it has changed the lists; a  *)
(* SPANN build that is cancelled has lists for none of its points.          *)
MarksAfterBuild(reply) ==
  CASE reply.err \in {"ErrClosed", "ErrTraining"} -> marks
    [] reply.err = "canceled" /\ idx.kind = "spann" -> {"cut"}
    [] OTHER -> {}

Build ==
  /\ Change("build")
  /\ \E b \in Builds : \E d \in BuildOutcomes(idx, b) :
       /\ idx' = d.idx /\ Called("build", <<b>>, d.reply)
       /\ marks' = MarksAfterBuild(d.reply)
  /\ UNCHANGED <<conf, blob, torn, written>>

Insert ==
  /\ Change("insert") /\ Usable
  /\ \E n \in Inserts : \E d \in InsertOutcomes(idx, n[1], n[2]) :
       /\ idx' = d.idx /\ Called("insert", Nil, d.reply)
       /\ marks' = IF n[1] \in LiveOf(idx) \cup DeadOf(idx) THEN marks \cup {"again"}
                   ELSE marks
  /\ UNCHANGED <<conf, blob, torn, written>>

Delete ==
  /\ Change("delete") /\ Usable
  /\ \E p \in Positions :
       LET d == DeleteOutcome(idx, p)
       IN idx' = d.idx /\ Called("delete", Nil, d.reply)
  /\ UNCHANGED <<conf, blob, torn, marks, written>>

Search ==
  /\ answer = Nil /\ Usable
  /\ \E a \in Asks : Called("search", <<a>>, SearchOutcome(idx, a))
  /\ UNCHANGED <<conf, idx, blob, torn, plan, marks, written>>

(* Persist: PutBlob replaces what the store had. Only HNSW looks whether it *)
(* is closed, and IVF writes the list of every cell.                        *)
Writes ==
  /\ ~(idx.kind = "hnsw" /\ idx.closed) /\ ~(idx.kind = "ivf" /\ VShort(idx))
  /\ blob' = <<BlobOf(idx)>> /\ torn' = FALSE
  /\ written' = IF DeadOf(idx) = {} THEN marks ELSE marks \cup {"tombs"}
  /\ Called("persist", Nil, OK)
WritesNothing ==
  /\ \/ idx.kind = "hnsw" /\ idx.closed /\ Called("persist", Nil, Fails("ErrClosed"))
     \/ idx.kind = "ivf" /\ VShort(idx) /\ Called("persist", Nil, Fails("panic"))
  /\ UNCHANGED <<blob, torn, written>>
Persist ==
  /\ Change("persist") /\ Usable
  /\ Writes \/ WritesNothing
  /\ UNCHANGED <<conf, idx, marks>>

(* Recover, into an index of the same configuration, new or in use. *)
ReadWhole ==
  /\ ~torn
  /\ \E d \in RecoverOutcomes(idx, blob[1]) :
       /\ idx' = d.idx /\ Called("recover", Nil, d.reply)
       /\ marks' = IF d.reply # OK THEN marks \cup {"refused"}
                   ELSE IF Hollow(blob[1]) THEN {"misread"} ELSE written
ReadCut ==
  /\ torn
  /\ idx' \in TornOutcomes(idx, blob[1])
  /\ Called("recover", Nil, Fails("ErrIndexCorrupt"))
  /\ marks' = marks \cup {"refused"}
Recover ==
  /\ Change("recover") /\ blob # Nil
  /\ ReadWhole \/ ReadCut
  /\ UNCHANGED <<conf, blob, torn, written>>

(* A crash inside the page store's write leaves a part of the blob: nothing *)
(* of it, or at least the sector that holds its header.                     *)
Tear ==
  /\ answer = Nil /\ blob # Nil /\ ~torn
  /\ torn' = TRUE
  /\ UNCHANGED <<conf, idx, blob, answer, plan, marks, written>>

Close ==
  /\ Change("close")
  /\ idx' = CloseOutcome(idx) /\ Called("close", Nil, OK) /\ marks' = {}
  /\ UNCHANGED <<conf, blob, torn, written>>

(* The call returns; a panic ends the process instead. *)
Return ==
  /\ answer # Nil /\ answer.reply.err # "panic"
  /\ answer' = Nil
  /\ UNCHANGED <<conf, idx, blob, torn, plan, marks, written>>

(* The process starts again, with a new index. *)
Restart ==
  /\ idx' = New(conf) /\ marks' = {} /\ answer' = Nil
  /\ UNCHANGED <<conf, blob, torn, plan, written>>

Next == \/ Build \/ Insert \/ Delete \/ Search \/ Persist \/ Recover
        \/ Tear \/ Close \/ Return \/ Restart

Spec == Init /\ [][Next]_vars
-----------------------------------------------------------------------------
(* Every structure refers only to what it holds: lists, links, tombstones   *)
(* and cells name positions that have vectors, an entry is a node. The one  *)
(* exception is a graph whose blob was written without its tombstones.      *)
Closed ==
  /\ DOMAIN idx.vecs \subseteq Positions
  /\ \A p \in DOMAIN idx.vecs : idx.vecs[p] \in Vectors
  /\ CASE idx.kind = "flat" -> idx.dead \subseteq DOMAIN idx.vecs
       [] idx.kind = "hnsw" ->
            /\ DOMAIN idx.nodes = DOMAIN idx.vecs
            /\ \A p \in DOMAIN idx.nodes :
                 /\ Len(idx.nodes[p].nbrs) = idx.nodes[p].level + 1
                 /\ "tombs" \in marks \/
                    \A l \in 1..Len(idx.nodes[p].nbrs) :
                      ToSet(idx.nodes[p].nbrs[l]) \subseteq DOMAIN idx.nodes
       [] idx.kind = "ivf" ->
            /\ idx.dead \subseteq DOMAIN idx.vecs
            /\ DOMAIN idx.assignOf = DOMAIN idx.vecs
            /\ idx.lists # Nil => PositionsIn(idx.lists) = DOMAIN idx.vecs
       [] idx.kind = "vamana" ->
            /\ idx.dead \subseteq DOMAIN idx.vecs
            /\ DOMAIN idx.nbrs = DOMAIN idx.vecs
            /\ ToSet(idx.order) = DOMAIN idx.vecs
            /\ \A p \in DOMAIN idx.nbrs :
                 ToSet(idx.nbrs[p]) \subseteq DOMAIN idx.nbrs \ {p}
       [] idx.kind = "spann" ->
            /\ idx.dead \subseteq DOMAIN idx.vecs
            /\ UNION {ToSet(idx.lists[c]) : c \in DOMAIN idx.lists}
                 \subseteq DOMAIN idx.vecs

(* The search covers everything: the pool, the probes or k are as large as  *)
(* the index, no list of links was too short for it, the cells have lists   *)
(* and a graph, and a codec's candidates are all reranked.                  *)
Wide(a) ==
  LET n == Cardinality(Positions)
      asked == IF a.nprobe <= 0 THEN idx.nprobe ELSE a.nprobe
  IN ~a.canceled /\
     CASE idx.kind = "flat" -> TRUE
       [] idx.kind = "hnsw" -> /\ idx.m0 >= n /\ idx.efc >= n
                               /\ a.ef <= 0 \/ a.ef >= n
                               /\ idx.coded => a.rerank /\ 3 * a.k >= n
       [] idx.kind = "ivf" -> /\ asked >= idx.nlist
                              /\ idx.cents = Nil \/ Len(idx.lists) = idx.nlist
                              /\ idx.coded => max2(3 * a.k, RerankFloor) >= n
       [] idx.kind = "spann" -> asked >= idx.nlist /\ idx.ci # Nil
       [] idx.kind = "vamana" -> idx.r >= n /\ idx.l >= n /\ a.k >= n

(* What the marks except: a point given again cuts others off in HNSW and   *)
(* Vamana and is twice in a list of IVF; a graph read back without its      *)
(* tombstones has lost the ways through them.                               *)
Unspoilt ==
  /\ "cut" \notin marks
  /\ "again" \in marks => idx.kind \in {"flat", "spann"}
  /\ "tombs" \in marks => idx.kind \notin {"hnsw", "vamana"}

(* A wide search finds the k nearest points of the index that pass the      *)
(* filter, exactly, after any sequence of builds, inserts, deletes,         *)
(* restarts and recoveries that leaves the index unspoilt: links, repairs,  *)
(* replicas and tombstones hide no live point.                              *)
Finds ==
  (answer # Nil /\ answer.call = "search" /\ ~Shut(idx) /\ Unspoilt) =>
    LET a == answer.arg[1]
        all == {candidate(p, dist(a.q, idx.vecs[p])) :
                p \in {l \in LiveOf(idx) : Passes(a.filter, l)}}
    IN Wide(a) => answer.reply = Reply("nil", Cut(Ranked(all), a.k))

(* A graph that holds a live point can be entered, at a live point and on   *)
(* the top layer of that point, unless HNSW was given that point again.     *)
Entered ==
  CASE idx.kind = "hnsw" /\ ~idx.closed ->
         IF HLive(idx) = {} THEN idx.ep = Nil /\ idx.top = -1
         ELSE /\ idx.ep # Nil /\ idx.ep[1] \in HLive(idx)
              /\ idx.top = idx.nodes[idx.ep[1]].level \/ "again" \in marks
    [] idx.kind = "vamana" ->
         IF GLive(idx) = {} THEN idx.medoid = Nil
         ELSE idx.medoid # Nil /\ idx.medoid[1] \in GLive(idx)
    [] OTHER -> TRUE

(* No list of links outgrows its bound or repeats a position.               *)
Bounded ==
  CASE idx.kind = "hnsw" ->
         \A p \in DOMAIN idx.nodes : \A l \in 1..Len(idx.nodes[p].nbrs) :
           LET list == idx.nodes[p].nbrs[l]
           IN /\ Len(list) <= IF l = 1 THEN idx.m0 ELSE idx.m
              /\ Cardinality(ToSet(list)) = Len(list)
    [] idx.kind = "vamana" ->
         \A p \in DOMAIN idx.nbrs :
           /\ Len(idx.nbrs[p]) <= idx.r
           /\ Cardinality(ToSet(idx.nbrs[p])) = Len(idx.nbrs[p])
    [] OTHER -> TRUE

(* Any sequence of builds, cancelled builds, inserts, deletes, restarts and *)
(* recoveries leaves an index whose parts fit together: nothing refers to a *)
(* position that is not held, Delete repairs the entry it takes away, and   *)
(* linking back prunes. It is said of no index that has refused its blob or *)
(* read it at the wrong offset, until that is built again; nor, for links,  *)
(* of one that was read from a blob without its tombstones.                 *)
Intact == marks \cap {"refused", "misread"} = {} => Closed /\ Entered /\ Bounded

(* The calls whose outcome the code leaves open, against the interface: a   *)
(* search of IVF after a position was given again shows it twice, one over  *)
(* an HNSW graph that lacks its tombstones panics, as does an insert; so do *)
(* an insert into a closed Vamana or SPANN index, and whatever meets a cell *)
(* of IVF that has no list. A closed Flat index can be built, written and   *)
(* read into, a closed HNSW index read into. An HNSW blob whose upper lists *)
(* are longer than the base degree and one is refused, and a SPANN blob     *)
(* that lacks its centroids is read at the wrong offset.                    *)
Open ==
  CASE idx.kind = "flat" ->
         IF idx.closed THEN {"build", "persist", "recover"} ELSE {}
    [] idx.kind = "hnsw" ->
         (IF idx.closed \/ (blob # Nil /\ Overlong(blob[1]) # {})
          THEN {"recover"} ELSE {}) \cup
         (IF "tombs" \in marks THEN {"search", "insert"} ELSE {})
    [] idx.kind = "ivf" ->
         (IF "again" \in marks THEN {"search"} ELSE {}) \cup
         (IF Len(idx.lists) # idx.nlist THEN {"search", "insert", "persist"} ELSE {})
    [] idx.kind = "vamana" -> IF idx.closed THEN {"insert"} ELSE {}
    [] idx.kind = "spann" ->
         (IF idx.closed THEN {"insert"} ELSE {}) \cup
         (IF blob # Nil /\ Hollow(blob[1]) THEN {"recover"} ELSE {})

(* Each index implements the interface's contract, the calls of Open aside. *)
SPI == INSTANCE IndexSPI WITH
         points <- PointsOf(idx),
         stored <- IF blob = Nil THEN Nil ELSE <<blob[1].vecs>>,
         shut <- Shut(idx), heeds <- Heeds(idx), open <- Open
=============================================================================

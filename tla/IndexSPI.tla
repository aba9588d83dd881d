------------------------------ MODULE IndexSPI ------------------------------
(* What the Index interface of index/index.go promises its caller, whatever *)
(* the structure behind it: the index is a map from positions to vectors    *)
(* that Build sets, Insert and Delete change and Persist saves, and Search  *)
(* gives some of what is in it, nearest first.                              *)
EXTENDS Candidates

CONSTANTS
  Positions, Vectors,
  Builds,            \* what Build is given: positions in order, their vectors
  Asks               \* the searches: query, k and filter among their fields

VARIABLES
  points,            \* what the index holds
  stored,            \* Nil, or <<what the page store holds>>
  torn,              \* and whether it was cut short
  answer,            \* Nil, or what the call in progress is about to return
  shut,              \* Close was called
  heeds,             \* the index keeps a flag for that
  open               \* the calls of which nothing is promised now

spiVars == <<points, stored, torn, answer, shut, heeds, open>>

min(a, b) == IF a < b THEN a ELSE b
First(b, n) == {b.positions[i] : i \in 1..min(n, Len(b.positions))}

Init == points = <<>> /\ stored = Nil /\ ~torn /\ answer = Nil /\ ~shut

Told(call, arg, err) ==
  answer = Nil /\ answer' = [call |-> call, arg |-> arg, reply |-> Fails(err)]

Keeps == UNCHANGED <<stored, torn, shut, heeds>>

(* After Close every method but Close returns ErrClosed, and does nothing. *)
Refuses(call, arg) ==
  shut /\ points' = points /\ Told(call, arg, "ErrClosed") /\ Keeps

(* A build that ends well holds what it was given; one that fails holds a   *)
(* first part of that, or what it held.                                     *)
Build ==
  \E b \in Builds :
    \/ Refuses("build", <<b>>)
    \/ /\ ~shut /\ Keeps
       /\ \/ /\ points' = [p \in First(b, Len(b.positions)) |-> b.vec[p]]
             /\ Told("build", <<b>>, "nil")
          \/ \E n \in 0..Cardinality(Positions) :
               /\ points' = [p \in First(b, n) |-> b.vec[p]]
               /\ Told("build", <<b>>, "canceled")
          \/ points' = points /\ Told("build", <<b>>, "ErrTraining")

(* A point is held once Insert has returned nil; only an index that has     *)
(* nothing in it may ask for a build first.                                 *)
Insert ==
  \/ Refuses("insert", Nil)
  \/ /\ ~shut /\ Keeps
     /\ \/ \E p \in Positions, v \in Vectors :
            points' = (p :> v) @@ points /\ Told("insert", Nil, "nil")
        \/ points = <<>> /\ points' = points /\ Told("insert", Nil, "ErrBadParams")

Delete ==
  \/ Refuses("delete", Nil)
  \/ /\ ~shut /\ Keeps
     /\ \E p \in Positions :
          points' = [o \in DOMAIN points \ {p} |-> points[o]]
     /\ Told("delete", Nil, "nil")

(* Found: in order, at most k, and each one held, wanted and as far from    *)
(* the query as its vector, or as the code of its vector, says.             *)
Found(ask, hits) ==
  /\ Len(hits) <= ask.k
  /\ \A i \in 1..Len(hits) :
       /\ hits[i].pos \in DOMAIN points
       /\ Passes(ask.filter, hits[i].pos)
       /\ LET v == points[hits[i].pos]
          IN hits[i].d \in {dist(ask.q, v), dist(ask.q, Decoded(v))}
  /\ \A i \in 1..(Len(hits) - 1) : minLess(hits[i], hits[i + 1])

Search ==
  \E ask \in Asks :
    \/ Refuses("search", <<ask>>)
    \/ /\ ~shut /\ Keeps /\ points' = points /\ answer = Nil /\ answer' # Nil
       /\ answer' = [call |-> "search", arg |-> <<ask>>, reply |-> answer'.reply]
       /\ \/ answer'.reply.err = "nil" /\ Found(ask, answer'.reply.hits)
          \/ ask.canceled /\ answer'.reply = Fails("canceled")

Persist ==
  \/ Refuses("persist", Nil)
  \/ /\ ~shut /\ stored' = <<points>> /\ ~torn' /\ Told("persist", Nil, "nil")
     /\ UNCHANGED <<points, shut, heeds>>

(* The index has what was stored; of what was cut short, which is always    *)
(* told, it may have anything.                                              *)
Recover ==
  \/ Refuses("recover", Nil)
  \/ /\ ~shut /\ stored # Nil /\ Keeps
     /\ IF torn THEN Told("recover", Nil, "ErrIndexCorrupt")
        ELSE points' = stored[1] /\ Told("recover", Nil, "nil")

Tear == stored # Nil /\ torn' /\ UNCHANGED <<points, stored, answer, shut, heeds>>

(* An index without the flag goes on as an empty one. *)
Close ==
  /\ points' = <<>> /\ shut' = (shut \/ heeds) /\ Told("close", Nil, "nil")
  /\ UNCHANGED <<stored, torn, heeds>>

Return ==
  /\ answer # Nil /\ answer.reply.err # "panic" /\ answer' = Nil
  /\ points' = points /\ Keeps

Restart ==
  /\ points' = <<>> /\ answer' = Nil /\ ~shut'
  /\ UNCHANGED <<stored, torn, heeds>>

Unpromised == answer = Nil /\ answer' # Nil /\ answer'.call \in open

Next == \/ Build \/ Insert \/ Delete \/ Search \/ Persist \/ Recover \/ Tear
        \/ Close \/ Return \/ Restart \/ Unpromised

SPISpec == Init /\ [][Next]_spiVars
=============================================================================

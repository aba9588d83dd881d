------------------------------- MODULE Store --------------------------------
(***************************************************************************)
(* What the storage engine promises of one collection: a map from point    *)
(* ids to points, changed by one transaction at a time, whose writes all   *)
(* take effect at Commit or all vanish at Abort.                           *)
(***************************************************************************)
CONSTANTS Ids, Points, None

VARIABLES committed,  \* the map the last committed transaction left
          working,    \* the open transaction's map, committed if none is open
          open

vars == <<committed, working, open>>

Init == committed = [i \in Ids |-> None] /\ working = committed /\ open = FALSE

Begin == ~open /\ open' = TRUE /\ UNCHANGED <<committed, working>>

Put(i, x) ==
  open /\ working' = [working EXCEPT ![i] = x] /\ UNCHANGED <<committed, open>>

Remove(i) == working[i] # None /\ Put(i, None)

Commit == open /\ open' = FALSE /\ committed' = working /\ UNCHANGED working

Abort == open /\ open' = FALSE /\ working' = committed /\ UNCHANGED committed

Next == \/ Begin \/ Commit \/ Abort
        \/ \E i \in Ids : Remove(i) \/ \E x \in Points : Put(i, x)

Spec == Init /\ [][Next]_vars
=============================================================================

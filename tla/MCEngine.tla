------------------------------ MODULE MCEngine ------------------------------
(* Small instances of Engine.  Ids and values are interchangeable.         *)
EXTENDS Engine, TLC

Symmetry == Permutations(Ids) \cup Permutations(Vals)
=============================================================================

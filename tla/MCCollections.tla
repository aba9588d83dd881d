--------------------------- MODULE MCCollections ----------------------------
(* Small instances of Collections.  Names are interchangeable.             *)
EXTENDS Collections, TLC

Symmetry == Permutations(Names)
=============================================================================

-------------------------------- MODULE MCWAL -------------------------------
(* Small instances of WAL.  Payloads are interchangeable.                  *)
EXTENDS WAL, TLC

Symmetry == Permutations(Payloads)
=============================================================================

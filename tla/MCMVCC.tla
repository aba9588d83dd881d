------------------------------- MODULE MCMVCC -------------------------------
(* Small instances of MVCC. Transactions, keys and payloads are              *)
(* interchangeable.                                                        *)
EXTENDS MVCC, TLC

Symmetry == Permutations(Txns) \cup Permutations(Keys)
=============================================================================

----------------------------- MODULE MCSessions -----------------------------
(* Small instances of Sessions.  No symmetry: the runs check liveness.     *)
EXTENDS Sessions
=============================================================================

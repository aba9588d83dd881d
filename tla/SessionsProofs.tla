--------------------------- MODULE SessionsProofs ---------------------------
(***************************************************************************)
(* Mutual exclusion of writable transactions, for any goroutines and       *)
(* bounds, also when a Scan overlaps a writer.                             *)
(***************************************************************************)
EXTENDS Sessions, TLAPS

\* A goroutine holds the engine's writer lock only from Engine.Begin until
\* Commit or Abort has let go of e.mu.
EngineInv ==
  /\ writerMu \in Procs \cup {None}
  /\ writerMu # None => pc[writerMu] \in {"open", "write", "commit", "abort"}

\* Every transaction, whoever runs it, holds the database's write lock.
TxnInv == \A p \in Procs : InTxn(p) => writeMu = p

SInv == DOMAIN pc = Procs /\ EngineInv /\ TxnInv

\* The initial state satisfies the inductive invariant (openWith).
LEMMA SInvInit == Init => SInv
BY DEF Init, SInv, EngineInv, TxnInv, InTxn

\* A step that moves one goroutine between positions outside a transaction
\* and touches neither write lock keeps the invariant: the calls of readers
\* and administrators, and the beginning and end of a writer's.
LEMMA OutsideStep ==
  ASSUME SInv, NEW p \in Procs, ~InTxn(p),
         NEW s, s \notin {"open", "write", "commit", "abort", "unlock"},
         pc' = [pc EXCEPT ![p] = s], UNCHANGED <<writeMu, writerMu>>
  PROVE  SInv'
BY SessionsAssumption DEF SInv, EngineInv, TxnInv, InTxn

\* Every step keeps the inductive invariant.
LEMMA SInvStep == SInv /\ [Next]_vars => SInv'
<1> SUFFICES ASSUME SInv, [Next]_vars PROVE SInv'
  OBVIOUS
<1> USE SessionsAssumption
<1>1. ASSUME NEW p \in Procs, Begin(p) PROVE SInv'
  BY ZenonT(40), <1>1, OutsideStep DEF Begin, Goto, InTxn
<1>2. ASSUME NEW p \in Procs, Acquire(p) PROVE SInv'
  BY <1>2 DEF Acquire, SInv, EngineInv, TxnInv, InTxn
<1>3. ASSUME NEW p \in Procs, Grant(p) PROVE SInv'
  BY <1>3 DEF Grant, Goto, SInv, EngineInv, TxnInv, InTxn
<1>4. ASSUME NEW p \in Procs, GiveUp(p) PROVE SInv'
  <2>1. ~InTxn(p) /\ pc' = [pc EXCEPT ![p] = "idle"] /\ writerMu' = writerMu
    BY <1>4 DEF GiveUp, Goto, InTxn
  <2>2. \A q \in Procs : InTxn(q) => writeMu' = q
    BY <1>4, <2>1 DEF GiveUp, SInv, TxnInv
  <2> QED
    BY <2>1, <2>2 DEF SInv, EngineInv, TxnInv, InTxn
<1>5. ASSUME NEW p \in Procs, Write(p) PROVE SInv'
  BY <1>5 DEF Write, Goto, SInv, EngineInv, TxnInv, InTxn
<1>6. ASSUME NEW p \in Procs, End(p) PROVE SInv'
  BY <1>6 DEF End, Goto, SInv, EngineInv, TxnInv, InTxn
<1>7. ASSUME NEW p \in Procs, Exclusive(p) PROVE SInv'
  BY <1>7 DEF Exclusive, SInv, EngineInv, TxnInv, InTxn
<1>8. ASSUME NEW p \in Procs, Leave(p) PROVE SInv'
  BY <1>8 DEF Leave, Goto, SInv, EngineInv, TxnInv, InTxn
<1>9. ASSUME NEW p \in Procs, ReleaseWriteLock(p) PROVE SInv'
  <2>1. writeMu = p /\ writerMu # p
    BY <1>9 DEF ReleaseWriteLock, Goto, SInv, EngineInv, TxnInv, InTxn
  <2>2. \A q \in Procs \ {p} : ~InTxn(q)
    BY <2>1 DEF SInv, TxnInv
  <2> QED
    BY <1>9, <2>1, <2>2 DEF ReleaseWriteLock, Goto, SInv, EngineInv, TxnInv, InTxn
<1>10. ASSUME NEW p \in Procs, RollbackAgain(p) PROVE SInv'
  BY ZenonT(40), <1>10, OutsideStep DEF RollbackAgain, Goto, InTxn
<1>11. ASSUME NEW p \in Procs, Call(p) PROVE SInv'
  BY <1>11, OutsideStep DEF Call, Goto, InTxn
<1>12. ASSUME NEW p \in Procs, GetEnters(p) \/ GetLeaves(p) PROVE SInv'
  BY ZenonT(40), <1>12, OutsideStep DEF GetEnters, GetLeaves, Goto, InTxn
<1>13. ASSUME NEW p \in Procs, ScanEnters(p) \/ ScanPoint(p) \/ ScanLeaves(p)
       PROVE  SInv'
  BY <1>13, OutsideStep DEF ScanEnters, ScanPoint, ScanLeaves, Goto, InTxn
<1>14. ASSUME NEW p \in Procs, FetchEnters(p) \/ FetchLeaves(p) PROVE SInv'
  BY <1>14, OutsideStep DEF FetchEnters, FetchLeaves, Goto, InTxn
<1>15. ASSUME NEW p \in Procs, Admin(p) \/ AdminEnters(p) \/ AdminLeaves(p)
       PROVE  SInv'
  BY <1>15, OutsideStep DEF Admin, AdminEnters, AdminLeaves, Goto, InTxn
<1>16. ASSUME NEW p \in Procs, Close(p) \/ Create(p) \/ BuildLeaves(p)
       PROVE  SInv'
  BY <1>16, OutsideStep DEF Close, Create, BuildLeaves, Goto, InTxn
<1>17. ASSUME NEW p \in Procs, BuildEnters(p) PROVE SInv'
  BY <1>17 DEF BuildEnters, SInv, EngineInv, TxnInv, InTxn
<1>18. CASE OrphanAcquire
  BY <1>18 DEF OrphanAcquire, SInv, EngineInv, TxnInv, InTxn
<1>19. CASE OrphanRelease
  BY <1>19 DEF OrphanRelease, SInv, EngineInv, TxnInv, InTxn
<1>20. CASE UNCHANGED vars
  BY <1>20 DEF vars, SInv, EngineInv, TxnInv, InTxn
<1> QED
  BY <1>1, <1>2, <1>3, <1>4, <1>5, <1>6, <1>7, <1>8, <1>9, <1>10, <1>11, <1>12,
     <1>13, <1>14, <1>15, <1>16, <1>17, <1>18, <1>19, <1>20 DEF Next

\* The invariant holds in every reachable state.
LEMMA SInvAlways == Spec => []SInv
BY SInvInit, SInvStep, PTL DEF Spec

\* At most one writable transaction is open (DB.Begin, lockCtx,
\* releaseWriteLock), whatever calls time out and however often Rollback is
\* called.
THEOREM SingleWriter == Spec => []OneWriter
<1>1. SInv => OneWriter
  BY DEF SInv, TxnInv, OneWriter, Procs
<1> QED BY <1>1, SInvAlways, PTL

\* The transaction that got db.writeMu finds Engine.writerMu free
\* (Engine.Begin), so the timeout of lockCtx covers every wait of Begin.
THEOREM EngineLockIsFree == Spec => []EngineLockFree
<1>1. SInv => EngineLockFree
  BY SessionsAssumption DEF SInv, TxnInv, EngineInv, EngineLockFree, InTxn, Procs
<1> QED BY <1>1, SInvAlways, PTL
=============================================================================

------------------------------ MODULE Sessions ------------------------------
(***************************************************************************)
(* The locks of the embedded database and the calls that take them:        *)
(* db.writeMu, taken for a writable Txn by lockCtx with a helper goroutine *)
(* that outlives a timed-out call; the engine's writerMu under it; the two *)
(* read-write locks db.mu and e.mu.  Writers run Begin, writes and Commit  *)
(* or Rollback; readers run Get and Scan; admins build indexes, create     *)
(* collections or close the database.  The data is Engine's.               *)
(*                                                                         *)
(* A sync.RWMutex is [rd, want, own]: the read locks each goroutine holds, *)
(* the goroutine whose Lock waits for them to drain (which stops every     *)
(* later RLock), and the one that holds it.  A critical section that only  *)
(* reads db's fields under db.mu is one step.                              *)
(***************************************************************************)
EXTENDS Integers, FiniteSets

CONSTANTS Writers, Readers, Admins,  \* goroutines, by what they call
          None,
          MaxWrites,       \* bound: writes of one transaction
          MaxPoints,       \* bound: points a Scan visits
          MaxOrphans,      \* bound: timed-out helpers waiting at once
          ScanBesideWriter \* TRUE: a Scan may overlap whoever locks e.mu

Procs == Writers \cup Readers \cup Admins

ASSUME SessionsAssumption ==
  /\ None \notin Procs /\ "orphan" \notin Procs \cup {None}
  /\ Writers \cap Readers = {} /\ Writers \cap Admins = {}
  /\ Readers \cap Admins = {}
  /\ {MaxWrites, MaxPoints, MaxOrphans} \subseteq Nat
  /\ ScanBesideWriter \in BOOLEAN

VARIABLES
  pc,        \* where each goroutine is
  writeMu,   \* holder of db.writeMu: a goroutine, "orphan" (the helper of a
             \*   call that gave up) or None
  writerMu,  \* holder of Engine.writerMu
  orphans,   \* helpers of calls that gave up, still waiting for writeMu
  mu,        \* db.mu and e.mu
  closed,    \* db.closed
  left       \* writes or points left to the running call

vars == <<pc, writeMu, writerMu, orphans, mu, closed, left>>

Locks == {"db", "e"}

TypeOK ==
  /\ pc \in [Procs -> {"idle", "begin", "locking", "open", "write", "commit",
                       "abort", "unlock", "done", "get", "got", "scan",
                       "scanning", "fetch", "fetched", "admin", "build",
                       "built", "engine"}]
  /\ writeMu \in Procs \cup {"orphan", None}
  /\ writerMu \in Procs \cup {None}
  /\ orphans \in 0..MaxOrphans
  /\ mu \in [Locks -> [rd : [Procs -> 0..2], want : Procs \cup {None},
                       own : Procs \cup {None}]]
  /\ closed \in BOOLEAN
  /\ left \in [Procs -> Nat]

Init ==
  /\ pc = [p \in Procs |-> "idle"]
  /\ writeMu = None /\ writerMu = None /\ orphans = 0
  /\ mu = [m \in Locks |-> [rd |-> [p \in Procs |-> 0], want |-> None, own |-> None]]
  /\ closed = FALSE
  /\ left = [p \in Procs |-> 0]

-----------------------------------------------------------------------------
(* sync.RWMutex.                                                           *)

Readable(m) == mu[m].own = None /\ mu[m].want = None

RLock(m, p) == Readable(m) /\ mu' = [mu EXCEPT ![m].rd[p] = @ + 1]

RUnlock(m, p) == mu' = [mu EXCEPT ![m].rd[p] = @ - 1]

\* Lock, first half: wait for other writers, then stop new readers.
Announce(m, p) == Readable(m) /\ mu' = [mu EXCEPT ![m].want = p]

\* Lock, second half: the readers have drained.
Drained(m, p) ==
  /\ mu[m].want = p /\ \A q \in Procs : mu[m].rd[q] = 0
  /\ mu' = [mu EXCEPT ![m].want = None, ![m].own = p]

Unlock(m) == mu' = [mu EXCEPT ![m].own = None]

Goto(p, from, to) == pc[p] = from /\ pc' = [pc EXCEPT ![p] = to]

InTxn(p) == pc[p] \in {"open", "write", "commit", "abort", "unlock"}

Scanning == \E p \in Readers : pc[p] \in {"scan", "scanning", "fetch", "fetched"}

NoWriter == \A p \in Procs : ~InTxn(p) /\ pc[p] \notin {"locking", "engine"}

-----------------------------------------------------------------------------
(* A writable transaction.                                                 *)

\* DB.Begin up to the closed test; ErrClosed changes nothing.
Begin(p) ==
  /\ p \in Writers /\ Readable("db") /\ ~closed
  /\ ScanBesideWriter \/ ~Scanning
  /\ Goto(p, "idle", "locking")
  /\ UNCHANGED <<writeMu, writerMu, orphans, mu, closed, left>>

\* The helper of lockCtx gets the mutex and closes got.
Acquire(p) ==
  /\ pc[p] = "locking" /\ writeMu = None
  /\ writeMu' = p
  /\ UNCHANGED <<pc, writerMu, orphans, mu, closed, left>>

\* The select takes got; Engine.Begin takes its own writer lock.
Grant(p) ==
  /\ writeMu = p /\ Goto(p, "locking", "open")
  /\ writerMu = None /\ writerMu' = p
  /\ left' = [left EXCEPT ![p] = MaxWrites]
  /\ UNCHANGED <<writeMu, orphans, mu, closed>>

\* The timeout or the context wins the select, also when got is closed
\* already; a goroutine is left to unlock what the helper acquires.
GiveUp(p) ==
  /\ Goto(p, "locking", "idle")
  /\ IF writeMu = p
     THEN writeMu' = "orphan" /\ UNCHANGED orphans
     ELSE orphans < MaxOrphans /\ orphans' = orphans + 1 /\ UNCHANGED writeMu
  /\ UNCHANGED <<writerMu, mu, closed, left>>

OrphanAcquire ==
  /\ orphans > 0 /\ writeMu = None
  /\ writeMu' = "orphan" /\ orphans' = orphans - 1
  /\ UNCHANGED <<pc, writerMu, mu, closed, left>>

\* Variant: the helper keeps the mutex nobody waits for any more.
OrphanKeeps == FALSE /\ UNCHANGED vars

OrphanRelease ==
  /\ writeMu = "orphan" /\ writeMu' = None
  /\ UNCHANGED <<pc, writerMu, orphans, mu, closed, left>>

\* A write: requireWrite, then e.mu.Lock in the engine; or ErrClosed.
Write(p) ==
  /\ Readable("db") /\ left[p] > 0
  /\ left' = [left EXCEPT ![p] = @ - 1]
  /\ IF closed THEN pc[p] = "open" /\ UNCHANGED <<pc, mu>>
     ELSE Goto(p, "open", "write") /\ Announce("e", p)
  /\ UNCHANGED <<writeMu, writerMu, orphans, closed>>

\* Txn.Commit and Txn.Rollback up to e.mu.Lock in the engine.
End(p) ==
  /\ Goto(p, "open", "commit") \/ Goto(p, "open", "abort")
  /\ Announce("e", p)
  /\ left' = [left EXCEPT ![p] = 0]
  /\ UNCHANGED <<writeMu, writerMu, orphans, closed>>

Exclusive(p) ==
  /\ pc[p] \in {"write", "commit", "abort", "engine"}
  /\ Drained("e", p)
  /\ UNCHANGED <<pc, writeMu, writerMu, orphans, closed, left>>

\* Variant: a write returns with e.mu locked.
LeaveLocked(p) ==
  /\ mu["e"].own = p
  /\ IF pc[p] = "write" THEN UNCHANGED mu ELSE Unlock("e")
  /\ Goto(p, "write", "open") \/ Goto(p, "commit", "unlock")
     \/ Goto(p, "abort", "unlock") \/ Goto(p, "engine", "built")
  /\ writerMu' = IF pc[p] \in {"commit", "abort"} THEN None ELSE writerMu
  /\ UNCHANGED <<writeMu, orphans, closed, left>>

\* Variant: Abort returns with writerMu locked.
LeaveWriter(p) ==
  /\ mu["e"].own = p /\ Unlock("e")
  /\ Goto(p, "write", "open") \/ Goto(p, "commit", "unlock")
     \/ Goto(p, "abort", "unlock") \/ Goto(p, "engine", "built")
  /\ writerMu' = IF pc[p] = "commit" THEN None ELSE writerMu
  /\ UNCHANGED <<writeMu, orphans, closed, left>>

\* The engine lets go of e.mu; Commit and Abort then of writerMu.
Leave(p) ==
  /\ mu["e"].own = p /\ Unlock("e")
  /\ Goto(p, "write", "open") \/ Goto(p, "commit", "unlock")
     \/ Goto(p, "abort", "unlock") \/ Goto(p, "engine", "built")
  /\ writerMu' = IF pc[p] \in {"commit", "abort"} THEN None ELSE writerMu
  /\ UNCHANGED <<writeMu, orphans, closed, left>>

ReleaseWriteLock(p) ==
  /\ Goto(p, "unlock", "done")
  /\ writeMu' = None
  /\ UNCHANGED <<writerMu, orphans, mu, closed, left>>

\* Variant: Rollback of a finished transaction unlocks again.
RollbackUnlocks(p) ==
  /\ Goto(p, "done", "idle")
  /\ writeMu' = None
  /\ UNCHANGED <<writerMu, orphans, mu, closed, left>>

\* The deferred Rollback of a transaction that is done.
RollbackAgain(p) ==
  /\ Goto(p, "done", "idle")
  /\ UNCHANGED <<writeMu, writerMu, orphans, mu, closed, left>>

-----------------------------------------------------------------------------
(* Readers.                                                                *)

\* Collection.Get and Collection.Scan up to their first e.mu.RLock.
Call(p) ==
  /\ p \in Readers /\ Readable("db")
  /\ \/ Goto(p, "idle", "get") /\ left' = [left EXCEPT ![p] = 1]
     \/ /\ Goto(p, "idle", "scan") /\ left' = [left EXCEPT ![p] = MaxPoints]
        /\ ScanBesideWriter \/ NoWriter
  /\ ~closed
  /\ UNCHANGED <<writeMu, writerMu, orphans, mu, closed>>

\* LookupID, then Fetch: each takes and drops the read lock.
GetEnters(p) ==
  /\ Goto(p, "get", "got") /\ RLock("e", p)
  /\ UNCHANGED <<writeMu, writerMu, orphans, closed, left>>

GetLeaves(p) ==
  /\ Goto(p, "got", IF left[p] > 0 THEN "get" ELSE "idle") /\ RUnlock("e", p)
  /\ left' = [left EXCEPT ![p] = IF @ > 0 THEN @ - 1 ELSE 0]
  /\ UNCHANGED <<writeMu, writerMu, orphans, closed>>

\* ScanVectors holds the read lock over the whole walk.
ScanEnters(p) ==
  /\ Goto(p, "scan", "scanning") /\ RLock("e", p)
  /\ UNCHANGED <<writeMu, writerMu, orphans, closed, left>>

\* Its callback calls Fetch, which takes the read lock again.
ScanPoint(p) ==
  /\ left[p] > 0 /\ Goto(p, "scanning", "fetch")
  /\ left' = [left EXCEPT ![p] = @ - 1]
  /\ UNCHANGED <<writeMu, writerMu, orphans, mu, closed>>

FetchEnters(p) ==
  /\ Goto(p, "fetch", "fetched") /\ RLock("e", p)
  /\ UNCHANGED <<writeMu, writerMu, orphans, closed, left>>

FetchLeaves(p) ==
  /\ Goto(p, "fetched", "scanning") /\ RUnlock("e", p)
  /\ UNCHANGED <<writeMu, writerMu, orphans, closed, left>>

ScanLeaves(p) ==
  /\ Goto(p, "scanning", "idle") /\ RUnlock("e", p)
  /\ left' = [left EXCEPT ![p] = 0]
  /\ UNCHANGED <<writeMu, writerMu, orphans, closed>>

-----------------------------------------------------------------------------
(* Index builds, CreateCollection and Close, under db.mu.Lock.             *)

Admin(p) ==
  /\ p \in Admins /\ Goto(p, "idle", "admin") /\ Announce("db", p)
  /\ UNCHANGED <<writeMu, writerMu, orphans, closed, left>>

\* db.mu is got; ErrClosed, or the call's body.
AdminEnters(p) ==
  /\ pc[p] = "admin" /\ mu["db"].own # p /\ Drained("db", p)
  /\ pc' = [pc EXCEPT ![p] = IF closed THEN "built" ELSE "build"]
  /\ UNCHANGED <<writeMu, writerMu, orphans, closed, left>>

\* Close marks the database closed, then clears the engine.
Close(p) ==
  /\ ScanBesideWriter \/ ~Scanning
  /\ mu["e"].rd[p] = 0 /\ Goto(p, "build", "engine") /\ Announce("e", p)
  /\ closed' = TRUE
  /\ UNCHANGED <<writeMu, writerMu, orphans, left>>

\* collectVectors: ScanVectors with a callback that takes no lock.
BuildEnters(p) ==
  /\ pc[p] = "build" /\ mu["e"].rd[p] = 0 /\ RLock("e", p)
  /\ UNCHANGED <<pc, writeMu, writerMu, orphans, closed, left>>

\* CreateCollection registers the collection with the engine.
Create(p) ==
  /\ ScanBesideWriter \/ ~Scanning
  /\ mu["e"].rd[p] = 0 /\ Goto(p, "build", "engine") /\ Announce("e", p)
  /\ UNCHANGED <<writeMu, writerMu, orphans, closed, left>>

BuildLeaves(p) ==
  /\ mu["e"].rd[p] = 1 /\ Goto(p, "build", "built") /\ RUnlock("e", p)
  /\ UNCHANGED <<writeMu, writerMu, orphans, closed, left>>

AdminLeaves(p) ==
  /\ Goto(p, "built", "idle") /\ Unlock("db")
  /\ UNCHANGED <<writeMu, writerMu, orphans, closed, left>>

-----------------------------------------------------------------------------
Next ==
  \/ \E p \in Procs :
       \/ Begin(p) \/ Acquire(p) \/ Grant(p) \/ GiveUp(p)
       \/ Write(p) \/ End(p) \/ Exclusive(p) \/ Leave(p)
       \/ ReleaseWriteLock(p) \/ RollbackAgain(p)
       \/ Call(p) \/ GetEnters(p) \/ GetLeaves(p)
       \/ ScanEnters(p) \/ ScanPoint(p) \/ FetchEnters(p) \/ FetchLeaves(p)
       \/ ScanLeaves(p)
       \/ Admin(p) \/ AdminEnters(p) \/ Close(p) \/ BuildEnters(p)
       \/ Create(p) \/ BuildLeaves(p) \/ AdminLeaves(p)
  \/ OrphanAcquire \/ OrphanRelease

\* The steps a goroutine takes by itself once it can, and those that wait for
\* a lock others may take first.
Runs(p) ==
  \/ Grant(p) \/ Exclusive(p) \/ Leave(p) \/ ReleaseWriteLock(p)
  \/ RollbackAgain(p) \/ GetLeaves(p) \/ FetchLeaves(p) \/ ScanLeaves(p)
  \/ AdminEnters(p) \/ BuildLeaves(p) \/ AdminLeaves(p)

Waits(p) ==
  \/ Acquire(p) \/ End(p) \/ GetEnters(p) \/ ScanEnters(p) \/ FetchEnters(p)
  \/ BuildEnters(p)

\* What the Go scheduler and locks give: a goroutine that can step does, and a
\* lock that comes free again and again is got in the end.  Transactions are
\* ended by their callers.  No call need be made, and none need time out.
Fairness ==
  /\ \A p \in Procs : WF_vars(Runs(p)) /\ SF_vars(Waits(p))
  /\ WF_vars(OrphanRelease)

Spec == Init /\ [][Next]_vars /\ Fairness

-----------------------------------------------------------------------------
(* Properties.                                                             *)

\* At most one writable transaction is open across the whole database
\* (DB.Begin, releaseWriteLock): whoever is in one holds writeMu, which nobody
\* else unlocks, whatever timeouts, late helpers and repeated Rollbacks do.
OneWriter == \A p \in Writers : InTxn(p) => writeMu = p

\* Engine.Begin never waits under writeMu (Txn.Commit ends the engine's
\* transaction before it releases the database's lock): a lockCtx that won
\* cannot be held up past its timeout.
EngineLockFree ==
  \A p \in Writers : pc[p] = "locking" /\ writeMu = p => writerMu = None

\* The write lock always comes back (lockCtx: "to avoid a leak"), from
\* transactions and from helpers of calls that gave up.
LockComesBack == (writeMu # None) ~> (writeMu = None)

\* Every call returns: writers, readers, index builds and Close never wait on
\* one another for good.
CallsReturn == \A p \in Procs : (pc[p] # "idle") ~> (pc[p] = "idle")

\* "Readers never block" (transactions-and-concurrency.md): a Get or a Scan
\* that started comes to its end.
ReadersReturn == \A p \in Readers : (pc[p] # "idle") ~> (pc[p] = "idle")
=============================================================================

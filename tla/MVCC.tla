-------------------------------- MODULE MVCC --------------------------------
(***************************************************************************)
(* The mvcc package on its concurrent-writer path: the commit clock, the   *)
(* version chains of one VersionTable, the watermark oracle and the ring   *)
(* of committed write-sets, driven by transactions that snapshot, stage,   *)
(* validate, commit, roll back and expire while GC and Prune run.          *)
(*                                                                         *)
(* A chain is the set of its entries.  Each carries the ordinal of the     *)
(* Stage call that prepended it, so "newest first" is descending ord, and  *)
(* the first visible entry of a walk is the visible one of greatest ord.   *)
(* The ring is the set of its entries: they are appended in ascending seq, *)
(* so entries[0] is the least one and a dropped prefix is a filter.        *)
(***************************************************************************)
EXTENDS Integers

CONSTANTS Keys,         \* chain keys (point ids)
          Vals,         \* payloads
          Txns,         \* transaction ids; each is used once
          Tombstone,    \* the payload of a deletion, and of an absent key
          MaxStages     \* bound: Stage calls of a behaviour

ASSUME MVCCAssumption ==
  /\ Tombstone \notin Vals
  /\ MaxStages \in Nat

VARIABLES
  clock,     \* Clock.seq: the highest commit sequence assigned
  versions,  \* VersionTable.chains: every entry of every chain
  staged,    \* VersionTable.staged: the keys a transaction has staged
  wrote,     \* WriteSet.ModifiedPointIDs of each transaction
  live,      \* WatermarkOracle.live: transactions with a registered snapshot
  readSeq,   \* Snapshot.ReadSeq
  inFlight,  \* Snapshot.InFlight
  ring,      \* CommittedRing.entries
  status,    \* where each transaction is
  seqOf,     \* the commit sequence a transaction was given, 0 before
  stages,    \* Stage calls so far: the source of ordinals
  committed, \* history: the last committed payload of each key
  view       \* history: the committed payloads when a snapshot was taken

vars == <<clock, versions, staged, wrote, live, readSeq, inFlight, ring,
          status, seqOf, stages, committed, view>>

Payload == Vals \cup {Tombstone}

Entry == [key : Keys, ord : Nat, txn : Txns, seq : Nat, val : Payload]

TypeOK ==
  /\ clock \in Nat
  /\ versions \subseteq Entry
  /\ staged \in [Txns -> SUBSET Keys]
  /\ wrote \in [Txns -> SUBSET Keys]
  /\ live \subseteq Txns
  /\ readSeq \in [Txns -> Nat]
  /\ inFlight \in [Txns -> SUBSET Txns]
  /\ ring \subseteq [txn : Txns, seq : Nat, ids : SUBSET Keys]
  /\ status \in [Txns -> {"idle", "active", "committing", "committed", "aborted"}]
  /\ seqOf \in [Txns -> Nat]
  /\ stages \in Nat
  /\ committed \in [Keys -> Payload]
  /\ view \in [Txns -> [Keys -> Payload]]

Init ==
  /\ clock = 0
  /\ versions = {}
  /\ staged = [t \in Txns |-> {}]
  /\ wrote = [t \in Txns |-> {}]
  /\ live = {}
  /\ readSeq = [t \in Txns |-> 0]
  /\ inFlight = [t \in Txns |-> {}]
  /\ ring = {}
  /\ status = [t \in Txns |-> "idle"]
  /\ seqOf = [t \in Txns |-> 0]
  /\ stages = 0
  /\ committed = [k \in Keys |-> Tombstone]
  /\ view = [t \in Txns |-> [k \in Keys |-> Tombstone]]

-----------------------------------------------------------------------------
(* Reads: Snapshot.IsVisible and the newest-first walk.                    *)

Open(t) == status[t] \in {"active", "committing"}

NoCommitter == \A u \in Txns : status[u] # "committing"

Chain(k) == {e \in versions : e.key = k}

Newest(S) == {e \in S : \A f \in S : f.ord <= e.ord}

\* Snapshot.IsVisible: own writes, then not a transaction in flight at the
\* snapshot, then stamped at or below the read point.
IsVisible(t, e) ==
  \/ e.txn = t
  \/ /\ e.txn \notin inFlight[t]
     /\ e.seq # 0
     /\ e.seq <= readSeq[t]

VisibleSet(t, k) == {e \in Chain(k) : IsVisible(t, e)}

\* VersionTable.Visible: the payload of the first visible entry; a tombstone
\* and an empty walk both answer ok=false.
Visible(t, k) ==
  IF VisibleSet(t, k) = {}
  THEN Tombstone
  ELSE (CHOOSE e \in VisibleSet(t, k) : e \in Newest(VisibleSet(t, k))).val

-----------------------------------------------------------------------------
(* The transaction's steps.                                                *)

\* A transaction takes its snapshot, also between another one's NextSeq and
\* its publication, and registers it with the oracle.
Begin(t) ==
  /\ status[t] = "idle"
  /\ status' = [status EXCEPT ![t] = "active"]
  /\ readSeq' = [readSeq EXCEPT ![t] = clock]
  /\ inFlight' = [inFlight EXCEPT ![t] = {u \in Txns : Open(u)}]
  /\ live' = live \cup {t}
  /\ view' = [view EXCEPT ![t] = committed]
  /\ UNCHANGED <<clock, versions, staged, wrote, ring, seqOf, stages, committed>>

\* VersionTable.Stage with the write-set's MarkModified.
Stage(t, k, v) ==
  /\ status[t] = "active" /\ stages < MaxStages
  /\ stages' = stages + 1
  /\ versions' = versions \cup
       {[key |-> k, ord |-> stages + 1, txn |-> t, seq |-> 0, val |-> v]}
  /\ staged' = [staged EXCEPT ![t] = @ \cup {k}]
  /\ wrote' = [wrote EXCEPT ![t] = @ \cup {k}]
  /\ UNCHANGED <<clock, live, readSeq, inFlight, ring, status, seqOf,
                 committed, view>>

StagedBy(t) == {e \in versions : e.txn = t /\ e.seq = 0 /\ e.key \in staged[t]}

\* CommittedRing.Validate, first test: the oldest retained write-set
\* committed after readSeq+1.
Expired(r) == ring # {} /\ \A c \in ring : c.seq > r + 1

\* Variant: the first commit above the read point is skipped.
ConflictsBeyond(r, ids) == \E c \in ring : c.seq > r + 1 /\ c.ids \cap ids # {}

\* CommittedRing.Validate, second test.
ConflictsAfter(r, ids) == \E c \in ring : c.seq > r /\ c.ids \cap ids # {}

Validate(t) ==
  /\ ~Expired(readSeq[t])
  /\ ~ConflictsAfter(readSeq[t], wrote[t])

\* VersionTable.Commit: stamp what the transaction staged.
Stamp(t, s) ==
  (versions \ StagedBy(t)) \cup {[e EXCEPT !.seq = s] : e \in StagedBy(t)}

\* The payload a stamped transaction leaves on a key.
LastStaged(t, k) ==
  (CHOOSE e \in StagedBy(t) : e \in Newest(StagedBy(t) \cap Chain(k))).val

\* The commit step is two: validation and Clock.NextSeq, then publication.
\* Committers exclude each other; nobody else waits for them.
AssignSeq(t) ==
  /\ NoCommitter
  /\ status[t] = "active" /\ wrote[t] # {}
  /\ Validate(t)
  /\ clock' = clock + 1
  /\ seqOf' = [seqOf EXCEPT ![t] = clock + 1]
  /\ status' = [status EXCEPT ![t] = "committing"]
  /\ UNCHANGED <<versions, staged, wrote, live, readSeq, inFlight, ring,
                 stages, committed, view>>

\* VersionTable.Commit, CommittedRing.Record and WatermarkOracle.Deregister.
Publish(t) ==
  /\ status[t] = "committing"
  /\ versions' = Stamp(t, seqOf[t])
  /\ staged' = [staged EXCEPT ![t] = {}]
  /\ ring' = ring \cup {[txn |-> t, seq |-> seqOf[t], ids |-> wrote[t]]}
  /\ live' = live \ {t}
  /\ status' = [status EXCEPT ![t] = "committed"]
  /\ committed' = [k \in Keys |-> IF k \in staged[t] THEN LastStaged(t, k)
                                  ELSE committed[k]]
  /\ UNCHANGED <<clock, wrote, readSeq, inFlight, seqOf, stages, view>>

\* Variant: the staging record is cleared but the entries stay.
AbortKeeps(t) ==
  /\ status[t] = "active"
  /\ staged' = [staged EXCEPT ![t] = {}]
  /\ live' = live \ {t}
  /\ status' = [status EXCEPT ![t] = "aborted"]
  /\ UNCHANGED <<clock, versions, wrote, readSeq, inFlight, ring, seqOf, stages,
                 committed, view>>

\* VersionTable.Abort and Deregister: a rollback, or the end of a commit
\* that Validate refused.
Abort(t) ==
  /\ status[t] = "active"
  /\ versions' = versions \ StagedBy(t)
  /\ staged' = [staged EXCEPT ![t] = {}]
  /\ live' = live \ {t}
  /\ status' = [status EXCEPT ![t] = "aborted"]
  /\ UNCHANGED <<clock, wrote, readSeq, inFlight, ring, seqOf, stages,
                 committed, view>>

\* A snapshot that outlived max_snapshot_age is deregistered while its
\* transaction is still open.
Expire(t) ==
  /\ status[t] = "active" /\ t \in live
  /\ live' = live \ {t}
  /\ UNCHANGED <<clock, versions, staged, wrote, readSeq, inFlight, ring,
                 status, seqOf, stages, committed, view>>

-----------------------------------------------------------------------------
(* Reclamation.                                                            *)

\* WatermarkOracle.Watermark: the least registered read point, or the clock.
IsWatermark(w) ==
  IF live = {} THEN w = clock
  ELSE /\ \E t \in live : w = readSeq[t]
       /\ \A t \in live : w <= readSeq[t]

\* The committed entries of a chain at or below the watermark; the newest is
\* the base the walk of VersionTable.GC stops at.
Reclaimable(k, w) == {e \in Chain(k) : e.seq # 0 /\ e.seq <= w}

Base(k, w) == Newest(Reclaimable(k, w))

\* Variant: the chain is cut in front of the base (chain[:cut]).
GCKeepAbove(k, w) ==
  {e \in Chain(k) : \A b \in Base(k, w) : b.ord < e.ord}

\* What GC leaves of a chain: nothing when its newest entry is a tombstone at
\* or below the watermark, else the base and everything newer.
GCKeep(k, w) ==
  IF \E b \in Base(k, w) : b.val = Tombstone /\ b \in Newest(Chain(k))
  THEN {}
  ELSE {e \in Chain(k) : \A b \in Base(k, w) : b.ord <= e.ord}

GC ==
  /\ \E w \in 0..clock :
       /\ IsWatermark(w)
       /\ versions' = UNION {GCKeep(k, w) : k \in Keys}
  /\ UNCHANGED <<clock, staged, wrote, live, readSeq, inFlight, ring, status,
                 seqOf, stages, committed, view>>

\* Variant: Prune as its comment says, at or below the watermark.
PruneAtOrBelow ==
  /\ \E w \in 0..clock :
       /\ IsWatermark(w)
       /\ ring' = {c \in ring : c.seq > w}
  /\ UNCHANGED <<clock, versions, staged, wrote, live, readSeq, inFlight,
                 status, seqOf, stages, committed, view>>

\* CommittedRing.Prune: the test is strict, so the last commit stays.
Prune ==
  /\ \E w \in 0..clock :
       /\ IsWatermark(w)
       /\ ring' = {c \in ring : c.seq >= w}
  /\ UNCHANGED <<clock, versions, staged, wrote, live, readSeq, inFlight,
                 status, seqOf, stages, committed, view>>

Next ==
  \/ \E t \in Txns :
       \/ Begin(t)
       \/ \E k \in Keys, v \in Payload : Stage(t, k, v)
       \/ AssignSeq(t)
       \/ Publish(t)
       \/ Abort(t)
       \/ Expire(t)
  \/ GC
  \/ Prune

Spec == Init /\ [][Next]_vars

-----------------------------------------------------------------------------
(* Properties.                                                             *)

\* t's snapshot was taken between u's NextSeq and u's publication: its read
\* point covers u's sequence and its InFlight set holds u.
TakenInside(t, u) == u \in inFlight[t] /\ seqOf[u] # 0 /\ seqOf[u] <= readSeq[t]

\* A transaction whose snapshot is registered and was not taken inside another
\* one's commit reads, at every key it has not written, what was committed when
\* it began, whatever commits, rollbacks and collections happen meanwhile
\* (VersionTable.Visible under GC).  A snapshot taken inside a commit does not
\* have this: GC compares read points only, and drops the version it reads.
SnapshotRead ==
  \A t \in live, k \in Keys :
    /\ status[t] = "active" /\ k \notin wrote[t]
    /\ \A u \in Txns : ~TakenInside(t, u)
    => Visible(t, k) = view[t][k]

\* t never saw what u committed: u's write is above t's read point, or u was
\* in flight when t took its snapshot.
Missed(t, u) == seqOf[u] > readSeq[t] \/ u \in inFlight[t]

\* First committer wins (CommittedRing.Validate): a transaction never commits
\* over a key that another committed before it without its seeing that write,
\* even when Prune has run and its own snapshot has expired.  The one pair left
\* out is a snapshot taken inside that other's commit, whose conflict Validate,
\* which compares sequences with the read point, does not see.
NoLostUpdate ==
  \A t, u \in Txns :
    /\ status[t] = "committed" /\ status[u] = "committed"
    /\ seqOf[u] < seqOf[t]
    /\ Missed(t, u) /\ ~TakenInside(t, u)
    => wrote[t] \cap wrote[u] = {}

\* Along every chain the stamped entries are in commit order, which the walk
\* that stops at the first visible entry relies on (VersionTable.Commit).
ChainOrdered ==
  \A e, f \in versions :
    e.key = f.key /\ e.seq # 0 /\ f.seq # 0 /\ e.ord < f.ord => e.seq <= f.seq

\* An aborted transaction leaves no entry behind (VersionTable.Abort), and an
\* unstamped entry always belongs to a transaction that can still stamp it.
NoOrphan ==
  \A e \in versions :
    IF e.seq = 0 THEN Open(e.txn) /\ e.key \in staged[e.txn]
    ELSE status[e.txn] = "committed" /\ e.seq = seqOf[e.txn]
=============================================================================

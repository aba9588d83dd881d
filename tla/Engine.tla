------------------------------- MODULE Engine -------------------------------
(***************************************************************************)
(* The storage engine's write path for one collection (package storage):   *)
(* segments, tombstones, the id-map, transactions with their undo log,     *)
(* compaction up to the return of its hook, and a reader that resolves an  *)
(* id and then fetches the position.                                       *)
(*                                                                         *)
(* A position is dirIndex * capacity + slot, so the directory is a grid    *)
(* and a slot is named by its position.  Every operation runs under e.mu   *)
(* and is one action; Abort, which holds e.mu throughout, is a sequence of *)
(* undo steps (txn = "aborting") during which nobody else moves.           *)
(***************************************************************************)
EXTENDS Integers, Sequences, FiniteSets

CONSTANTS Ids, Vals, None,
          Capacity,    \* slots of a segment
          MaxDir,      \* bound: segments of the directory
          MaxSeq,      \* bound: the commit clock
          MaxOps,      \* bound: undo entries of a transaction
          Aborts,      \* "never"; "fresh": only of transactions that replaced
                       \*   no point; "any"
          WithCompact, \* TRUE: Compact runs
          WithReader,  \* TRUE: a reader gets points
          BadRows      \* TRUE: callers pass rows the column store refuses
                       \*   (the facade lowers and checks them first)

ASSUME EngineAssumption ==
  /\ Capacity \in Nat \ {0} /\ MaxDir \in Nat /\ MaxSeq \in Nat /\ MaxOps \in Nat
  /\ Aborts \in {"never", "fresh", "any"}
  /\ {WithCompact, WithReader, BadRows} \subseteq BOOLEAN
  /\ None \notin Nat \cup Ids \cup [vec : Vals, meta : Vals]

VARIABLES
  slot,    \* position -> [id, vec, meta, ver]: data, backward, version, columns
  tomb,    \* the tombstone bits
  seg,     \* directory: [next, sealed, live, dead] of each segment
  openIdx, \* directory index of the open segment, 0 if none
  fwd,     \* the id-map: the position an id lives at
  clock,   \* the commit clock
  txn,     \* the writer: idle, active, committing, aborting or repointing
  undo,    \* its undo log
  stamp,   \* the positions its commit stamps
  before,  \* history: the points when it began
  repoint, \* the table Compact hands to the hook: old position -> [new, id]
  reader,  \* a Get under way: the id asked for, the position found
  moved    \* history: a rollback or compaction vacated slots since its lookup

vars == <<slot, tomb, seg, openIdx, fwd, clock, txn, undo, stamp, before,
          repoint, reader, moved>>
table == <<slot, tomb, seg, openIdx, fwd>>
writer == <<txn, undo, stamp, before>>
readers == <<reader, moved>>
others == <<repoint, readers>>

Positions == 0..(MaxDir * Capacity - 1)
Dir(p) == (p \div Capacity) + 1
NewSegment == [next |-> 0, sealed |-> FALSE, live |-> 0, dead |-> 0]

\* locate, with the slot below nextPos.
InRange(p) == Dir(p) <= Len(seg) /\ p % Capacity < seg[Dir(p)].next

Live == {p \in Positions : InRange(p) /\ p \notin tomb}

\* What LookupID and Fetch give for every id.
Content ==
  [i \in Ids |-> IF fwd[i] = None THEN None
                 ELSE [vec |-> slot[fwd[i]].vec, meta |-> slot[fwd[i]].meta]]

TypeOK ==
  /\ slot \in [Positions -> [id : Ids \cup {None}, vec : Vals \cup {None},
                             meta : Vals \cup {None}, ver : 0..MaxSeq]]
  /\ tomb \subseteq Positions
  /\ seg \in Seq([next : 0..Capacity, sealed : BOOLEAN, live : 0..Capacity,
                  dead : 0..Capacity])
  /\ Len(seg) <= MaxDir /\ openIdx \in 0..Len(seg)
  /\ fwd \in [Ids -> Positions \cup {None}]
  /\ clock \in 1..MaxSeq
  /\ txn \in {"idle", "active", "committing", "aborting", "repointing"}
  /\ stamp \subseteq Positions

NoReader == [asked |-> None, pos |-> None]
Asking == reader.asked # None

Init ==
  /\ slot = [p \in Positions |-> [id |-> None, vec |-> None, meta |-> None, ver |-> 0]]
  /\ tomb = {} /\ seg = <<>> /\ openIdx = 0
  /\ fwd = [i \in Ids |-> None]
  /\ clock = 1
  /\ txn = "idle" /\ undo = <<>> /\ stamp = {} /\ before = Content
  /\ repoint = [p \in {} |-> None]
  /\ reader = NoReader /\ moved = FALSE

-----------------------------------------------------------------------------
(* The pieces of a write.                                                  *)

\* ensureOpen: the open segment if it has room, else a new one, the full one
\* sealed.
HasRoom(s) == openIdx # 0 /\ s[openIdx].next < Capacity

Opened(s) ==
  IF HasRoom(s) THEN s
  ELSE Append([d \in 1..Len(s) |->
                 IF d = openIdx THEN [s[d] EXCEPT !.sealed = TRUE] ELSE s[d]],
              NewSegment)

OpenedIdx(s) == IF HasRoom(s) THEN openIdx ELSE Len(s) + 1

\* segment.tombstone: the counters.
Buried(s, p) ==
  IF p \in tomb THEN s
  ELSE [s EXCEPT ![Dir(p)].live = IF @ > 0 THEN @ - 1 ELSE @,
                 ![Dir(p)].dead = @ + 1]

\* The undo of a tombstone: the counters.
Raised(s, p) ==
  [s EXCEPT ![Dir(p)].live = @ + 1, ![Dir(p)].dead = IF @ > 0 THEN @ - 1 ELSE @]

\* appendPoint over directory s, tombstones t and undo log u: the slot is
\* stamped 0 until commit.
AppendPoint(i, v, s, t, u) ==
  LET d == OpenedIdx(s)
      p == (d - 1) * Capacity + Opened(s)[d].next
  IN  /\ d <= MaxDir
      /\ seg' = [Opened(s) EXCEPT ![d].next = @ + 1, ![d].live = @ + 1]
      /\ openIdx' = d
      /\ slot' = [slot EXCEPT ![p] = [id |-> i, vec |-> v, meta |-> v, ver |-> 0]]
      /\ tomb' = t
      /\ fwd' = [fwd EXCEPT ![i] = p]
      /\ stamp' = stamp \cup {p}
      /\ undo' = Append(u, [op |-> "append", id |-> i, pos |-> p, prev |-> None])

Entry(op, i, p, prev) == [op |-> op, id |-> i, pos |-> p, prev |-> prev]

CanWrite == txn = "active" /\ Len(undo) < MaxOps

-----------------------------------------------------------------------------
(* Transactions.                                                           *)

\* Variant: Compact does not keep the writer lock while its hook runs.
BeginInHook ==
  /\ txn \in {"idle", "repointing"} /\ clock < MaxSeq
  /\ txn' = "active" /\ before' = Content
  /\ UNCHANGED <<table, clock, undo, stamp, others>>

\* Begin(true), once it has the writer lock.
Begin ==
  /\ txn = "idle" /\ clock < MaxSeq
  /\ txn' = "active" /\ before' = Content
  /\ UNCHANGED <<table, clock, undo, stamp, others>>

\* Insert; a live id is ErrDuplicateID and changes nothing.
Insert(i, v) ==
  /\ CanWrite /\ fwd[i] = None
  /\ AppendPoint(i, v, seg, tomb, undo)
  /\ UNCHANGED <<clock, txn, before, others>>

\* Variant: deleting the last slot of a segment gives the slot back.
DeleteReclaims(i) ==
  /\ CanWrite /\ fwd[i] # None
  /\ LET p == fwd[i] IN
     IF seg[Dir(p)].next = (p % Capacity) + 1
     THEN seg' = [seg EXCEPT ![Dir(p)].next = @ - 1, ![Dir(p)].live = @ - 1]
          /\ UNCHANGED tomb
     ELSE seg' = Buried(seg, p) /\ tomb' = tomb \cup {p}
  /\ fwd' = [fwd EXCEPT ![i] = None]
  /\ undo' = Append(undo, Entry("undelete", i, fwd[i], None))
  /\ UNCHANGED <<slot, openIdx, clock, txn, stamp, before, others>>

\* Delete: tombstone the slot, drop the mapping; the undo puts both back.
Delete(i) ==
  /\ CanWrite /\ fwd[i] # None
  /\ seg' = Buried(seg, fwd[i])
  /\ tomb' = tomb \cup {fwd[i]}
  /\ fwd' = [fwd EXCEPT ![i] = None]
  /\ undo' = Append(undo, Entry("undelete", i, fwd[i], None))
  /\ UNCHANGED <<slot, openIdx, clock, txn, stamp, before, others>>

\* Upsert of a live id: tombstone the old slot, append a new one.  The undo
\* of the first half clears the tombstone and leaves the id-map alone.
Replace(i, v) ==
  /\ CanWrite /\ fwd[i] # None
  /\ AppendPoint(i, v, Buried(seg, fwd[i]), tomb \cup {fwd[i]},
                 Append(undo, Entry("untomb", i, fwd[i], None)))
  /\ UNCHANGED <<clock, txn, before, others>>

\* Upsert of a live id whose row the column store refuses: the old slot is
\* already gone when appendPoint fails.
ReplaceRefused(i) ==
  /\ BadRows /\ CanWrite /\ fwd[i] # None
  /\ seg' = Opened(Buried(seg, fwd[i])) /\ Len(seg') <= MaxDir
  /\ openIdx' = OpenedIdx(Buried(seg, fwd[i]))
  /\ tomb' = tomb \cup {fwd[i]}
  /\ fwd' = [fwd EXCEPT ![i] = None]
  /\ undo' = Append(undo, Entry("untomb", i, fwd[i], None))
  /\ UNCHANGED <<slot, clock, txn, stamp, before, others>>

\* UpdateMeta overwrites the cell in place.
UpdateMeta(i, v) ==
  /\ CanWrite /\ fwd[i] # None
  /\ slot' = [slot EXCEPT ![fwd[i]].meta = v]
  /\ undo' = Append(undo, Entry("meta", i, fwd[i], slot[fwd[i]].meta))
  /\ UNCHANGED <<tomb, seg, openIdx, fwd, clock, txn, stamp, before, others>>

\* Commit takes its sequence before it takes e.mu.
NextSeq ==
  /\ txn = "active"
  /\ clock' = clock + 1
  /\ txn' = "committing"
  /\ UNCHANGED <<table, undo, stamp, before, others>>

\* Variant: Commit releases the lock without stamping.
CommitUnstamped ==
  /\ txn = "committing"
  /\ txn' = "idle" /\ undo' = <<>> /\ stamp' = {}
  /\ UNCHANGED <<table, clock, before, others>>

\* Commit stamps what it wrote and releases the writer lock.
Commit ==
  /\ txn = "committing"
  /\ slot' = [p \in Positions |-> IF p \in stamp THEN [slot[p] EXCEPT !.ver = clock]
                                  ELSE slot[p]]
  /\ txn' = "idle" /\ undo' = <<>> /\ stamp' = {}
  /\ UNCHANGED <<tomb, seg, openIdx, fwd, clock, before, others>>

ReplacedSome == \E n \in 1..Len(undo) : undo[n].op = "untomb"

\* Abort takes e.mu and starts on its undo log.
Abort ==
  /\ txn = "active"
  /\ Aborts = "any" \/ (Aborts = "fresh" /\ ~ReplacedSome)
  /\ txn' = "aborting"
  /\ UNCHANGED <<table, clock, undo, stamp, before, others>>

\* Variant: the live count is not taken back.
UndoAppendCounted(u) ==
  /\ fwd' = [fwd EXCEPT ![u.id] = None]
  /\ tomb' = tomb \ {u.pos}
  /\ seg' = [seg EXCEPT
       ![Dir(u.pos)].next = IF @ = (u.pos % Capacity) + 1 THEN @ - 1 ELSE @]
  /\ UNCHANGED slot

\* The undo of appendPoint: unmap, clear the bit, take the slot back.
UndoAppend(u) ==
  /\ fwd' = [fwd EXCEPT ![u.id] = None]
  /\ tomb' = tomb \ {u.pos}
  /\ seg' = [seg EXCEPT
       ![Dir(u.pos)].next = IF @ = (u.pos % Capacity) + 1 THEN @ - 1 ELSE @,
       ![Dir(u.pos)].live = IF @ > 0 THEN @ - 1 ELSE @]
  /\ UNCHANGED slot

\* Variant: the undo of Delete does not map the id again.
UndoTombstoneUnmapped(u) ==
  /\ tomb' = tomb \ {u.pos}
  /\ seg' = Raised(seg, u.pos)
  /\ UNCHANGED <<slot, fwd>>

\* The undo of Delete, and of the first half of Upsert.
UndoTombstone(u) ==
  /\ tomb' = tomb \ {u.pos}
  /\ seg' = Raised(seg, u.pos)
  /\ fwd' = IF u.op = "undelete" THEN [fwd EXCEPT ![u.id] = u.pos] ELSE fwd
  /\ UNCHANGED slot

UndoMeta(u) ==
  /\ slot' = [slot EXCEPT ![u.pos].meta = u.prev]
  /\ UNCHANGED <<tomb, seg, fwd>>

\* Variant: first in first out.
UndoFirst ==
  /\ txn = "aborting" /\ undo # <<>>
  /\ LET u == undo[1]
     IN  CASE u.op = "append" -> UndoAppend(u)
           [] u.op \in {"undelete", "untomb"} -> UndoTombstone(u)
           [] u.op = "meta" -> UndoMeta(u)
  /\ undo' = Tail(undo)
  /\ moved' = (moved \/ (Asking /\ undo[1].op = "append"))
  /\ UNCHANGED <<openIdx, clock, txn, stamp, before, repoint, reader>>

\* One entry of the undo log, last in first out.
UndoLast ==
  /\ txn = "aborting" /\ undo # <<>>
  /\ LET u == undo[Len(undo)]
     IN  CASE u.op = "append" -> UndoAppend(u)
           [] u.op \in {"undelete", "untomb"} -> UndoTombstone(u)
           [] u.op = "meta" -> UndoMeta(u)
  /\ undo' = SubSeq(undo, 1, Len(undo) - 1)
  /\ moved' = (moved \/ (Asking /\ undo[Len(undo)].op = "append"))
  /\ UNCHANGED <<openIdx, clock, txn, stamp, before, repoint, reader>>

Aborted ==
  /\ txn = "aborting" /\ undo = <<>>
  /\ txn' = "idle" /\ stamp' = {}
  /\ UNCHANGED <<table, clock, undo, before, others>>

-----------------------------------------------------------------------------
(* SealSegment, compaction, the index and the reader: whoever finds e.mu   *)
(* free.                                                                   *)

Unlocked == txn # "aborting"

SealSegment ==
  /\ Unlocked /\ openIdx # 0
  /\ seg' = [seg EXCEPT ![openIdx].sealed = TRUE]
  /\ openIdx' = 0
  /\ UNCHANGED <<slot, tomb, fwd, clock, writer, others>>

\* The new position of a live one: they are rewritten densely, in order.
NewPos(p) == Cardinality({q \in Live : q < p})

\* Compact up to the hook: gather, rewrite, swap the directory, repoint the
\* id-map (the last live slot of an id wins), release e.mu.
Compact ==
  /\ WithCompact /\ txn = "idle"
  /\ LET n == Cardinality(Live)
         k == (n + Capacity - 1) \div Capacity
         In(d) == IF d < k THEN Capacity ELSE n - (k - 1) * Capacity
     IN  /\ seg' = [d \in 1..k |-> [next |-> In(d), sealed |-> d < k,
                                    live |-> In(d), dead |-> 0]]
         /\ openIdx' = k
         /\ slot' = [p \in Positions |->
                       IF \E q \in Live : NewPos(q) = p
                       THEN slot[CHOOSE q \in Live : NewPos(q) = p] ELSE slot[p]]
  /\ tomb' = {}
  /\ fwd' = [i \in Ids |->
       LET at == {p \in Live : slot[p].id = i}
       IN  IF fwd[i] = None \/ at = {} THEN None
           ELSE NewPos(CHOOSE p \in at : \A q \in at : q <= p)]
  /\ repoint' = [p \in Live |-> [new |-> NewPos(p), id |-> slot[p].id]]
  /\ txn' = "repointing" /\ moved' = Asking
  /\ UNCHANGED <<clock, undo, stamp, before, reader>>

\* The hook, which runs without e.mu and under the writer lock, returns: its
\* error is Compact's and undoes nothing.
HookReturns ==
  /\ txn = "repointing"
  /\ repoint' = [p \in {} |-> None]
  /\ txn' = "idle"
  /\ UNCHANGED <<table, clock, undo, stamp, before, readers>>

\* Snapshot.IsVisible with the transaction ids the engine passes: Snapshot()
\* leaves its own id 0 and the slots do not record their writer.
IsVisible(ver, vTxn, readSeq, sTxn) ==
  vTxn = sTxn \/ (ver # 0 /\ ver <= readSeq)

\* visibleLive for a snapshot at readSeq.
VisibleLive(readSeq) == {p \in Live : IsVisible(slot[p].ver, 0, readSeq, 0)}

\* The map the last committed transaction left.
Published == IF txn \in {"active", "committing", "aborting"} THEN before ELSE Content

\* Get, first half: LookupID.
LookupID(i) ==
  /\ WithReader /\ Unlocked /\ ~Asking
  /\ fwd[i] # None
  /\ reader' = [asked |-> i, pos |-> fwd[i]]
  /\ moved' = FALSE
  /\ UNCHANGED <<table, clock, writer, repoint>>

\* Engine.Snapshot takes no lock, and a read transaction took its own before
\* the lookup: the read point of a Get is any value the clock has had.
Snapshots == 1..clock

\* What Fetch returns at position p under a snapshot: the id in the slot, unless
\* it is out of range, deleted or not visible.
Fetched(p, readSeq) == IF p \in VisibleLive(readSeq) THEN slot[p].id ELSE None

\* Get, second half: Fetch, and the call returns.
Fetch ==
  /\ Unlocked /\ Asking
  /\ reader' = NoReader /\ moved' = FALSE
  /\ UNCHANGED <<table, clock, writer, repoint>>

Next ==
  \/ Begin \/ NextSeq \/ Commit \/ Abort \/ UndoLast \/ Aborted
  \/ \E i \in Ids : Delete(i) \/ ReplaceRefused(i) \/ LookupID(i)
  \/ \E i \in Ids, v \in Vals : Insert(i, v) \/ Replace(i, v) \/ UpdateMeta(i, v)
  \/ SealSegment \/ Compact \/ HookReturns \/ Fetch

Spec == Init /\ [][Next]_vars

-----------------------------------------------------------------------------
(* Properties.                                                             *)

\* Invariants I-2 and I-3 tie the id-map's two directions together (idMap):
\* whenever e.mu is free, an id is mapped exactly to the live slot that holds
\* it, so no point is unreachable and no id lives twice.
IdMapExact ==
  Unlocked => \A i \in Ids : {p \in Live : slot[p].id = i}
                             = IF fwd[i] = None THEN {} ELSE {fwd[i]}

\* The counters CollectionStats and Count report (liveTotal) count the slots,
\* through tombstones, undo and compaction alike, and no tombstone bit is left
\* on a free slot, which append does not clear.
CountsExact ==
  Unlocked =>
    /\ \A d \in 1..Len(seg) :
         LET used == {p \in Positions : Dir(p) = d /\ InRange(p)}
         IN  /\ seg[d].live = Cardinality(used \ tomb)
             /\ seg[d].dead = Cardinality(used \cap tomb)
    /\ \A p \in tomb : InRange(p)

\* A live slot carries a commit sequence exactly when no open transaction
\* wrote it (appendPoint, Commit, Compact copies the version).
Stamped ==
  Unlocked => \A p \in Live : slot[p].ver = 0 <=> p \in stamp

\* While the hook runs, with e.mu released and segments sealed or read under
\* it, the table it was handed leads every position that was live to the slot
\* its point is in, no two to the same one, and covers every live point
\* (Compact: "a complete repoint table covering every live point").
RepointExact ==
  DOMAIN repoint # {} =>
    /\ \A p \in DOMAIN repoint : slot[repoint[p].new].id = repoint[p].id
    /\ \A p, q \in DOMAIN repoint : repoint[p].new = repoint[q].new => p = q
    /\ {repoint[p].new : p \in DOMAIN repoint} = Live

\* Get returns the point asked for or reports it missing (Collection.Get:
\* LookupID, then Fetch under a second lock), whatever is inserted, replaced,
\* deleted, committed or sealed in between, unless a rollback or a compaction
\* vacates slots in between.
GetReturnsAsked ==
  Asking /\ Unlocked /\ ~moved =>
    \A readSeq \in Snapshots : Fetched(reader.pos, readSeq) \in {reader.asked, None}

\* The engine implements the transactional map: operations change the working
\* map, Commit publishes it, Abort leaves the map as it was at Begin, sealing
\* and compacting change nothing.
InTxn == txn \in {"active", "committing"}
Abs == INSTANCE Store
         WITH Points <- [vec : Vals, meta : Vals],
              committed <- Published,
              working <- IF InTxn THEN Content ELSE Published,
              open <- InTxn
StoreRefined == Abs!Spec
=============================================================================

---------------------------- MODULE EngineProofs ----------------------------
(***************************************************************************)
(* What the storage engine guarantees for every capacity, directory size,  *)
(* set of ids and number of operations, as long as no transaction that     *)
(* replaced a point rolls back (Aborts # "any").                           *)
(***************************************************************************)
EXTENDS EngineSteps

-----------------------------------------------------------------------------
(* What a write leaves where it was.                                       *)

\* What Insert, and Upsert of a live id, do to the slots and the id-map.
LEMMA PushIs ==
  ASSUME Counting, EInv, NEW i \in Ids, NEW v \in Vals, Insert(i, v) \/ Replace(i, v)
  PROVE  \E p \in Positions :
           /\ ~InRange(p) /\ \A q \in Positions : InRange(q)' <=> InRange(q) \/ q = p
           /\ \A q \in Positions : q # p => slot'[q] = slot[q]
           /\ slot'[p].id = i /\ slot'[p].vec = v /\ slot'[p].meta = v /\ slot'[p].ver = 0
           /\ \A j \in Ids : fwd'[j] = IF j = i THEN p ELSE fwd[j]
<1>0. Shape /\ Tables /\ Counted(seg, tomb)
  BY Zenon DEF EInv
<1>1. CASE Insert(i, v)
  <2>1. AppendPoint(i, v, seg, tomb, undo) /\ fwd[i] = None
    BY Zenon, <1>1 DEF Insert
  <2>2. /\ seg \in Seq(Segments) /\ Len(seg) <= MaxDir /\ openIdx \in 0..Len(seg)
        /\ \A q \in tomb : q \in Positions /\ UsedIn(seg, q)
    BY Zenon, <1>0, RangeUsed DEF Shape, Tables
  <2>3. PICK p \in Positions : Pushed(i, v, seg, tomb, undo, p)
    BY Zenon, <1>0, <2>1, <2>2, AppendIs
  <2> QED
    BY <2>1, <2>3, PushTables, RangeUsed
<1>2. CASE Replace(i, v)
  <2> DEFINE b == Buried(seg, fwd[i])  t == tomb \cup {fwd[i]}
             w == Append(undo, Entry("untomb", i, fwd[i], None))
  <2>1. AppendPoint(i, v, b, t, w) /\ fwd[i] # None
    BY Zenon, <1>2 DEF Replace
  <2>2. /\ b \in Seq(Segments) /\ Len(b) <= MaxDir /\ openIdx \in 0..Len(b) /\ Counted(b, t)
        /\ \A q \in Positions : UsedIn(b, q) <=> InRange(q)
        /\ \A q \in t : q \in Positions /\ UsedIn(b, q)
    BY ZenonT(40), <2>1, Buries
  <2>3. PICK p \in Positions : Pushed(i, v, b, t, w, p)
    <3> HIDE DEF b, t, w
    <3> QED
      BY Zenon, <2>1, <2>2, AppendIs
  <2> HIDE DEF b, w
  <2> QED
    BY <2>1, <2>2, <2>3, PushTables
<1> QED
  BY Zenon, <1>1, <1>2

\* What Delete and a refused Upsert do to them.
LEMMA DropIs ==
  ASSUME Counting, EInv, NEW i \in Ids, Delete(i) \/ ReplaceRefused(i)
  PROVE  /\ fwd[i] # None /\ slot' = slot
         /\ \A q \in Positions : InRange(q)' <=> InRange(q)
         /\ \A j \in Ids : fwd'[j] = IF j = i THEN None ELSE fwd[j]
<1> DEFINE b == Buried(seg, fwd[i])  t == tomb \cup {fwd[i]}
<1>0. Shape
  BY Zenon DEF EInv
<1>1. /\ fwd[i] # None /\ slot' = slot /\ fwd' = [fwd EXCEPT ![i] = None]
      /\ seg' = b \/ seg' = Opened(b)
  BY Zenon DEF Delete, ReplaceRefused
<1>2. /\ b \in Seq(Segments) /\ openIdx \in 0..Len(b) /\ Counted(b, t)
      /\ \A q \in Positions : UsedIn(b, q) <=> InRange(q)
  BY Zenon, <1>1, Buries
<1>3. \A q \in Positions : UsedIn(seg', q) <=> UsedIn(b, q)
  <2> HIDE DEF b, t
  <2> QED
    BY Zenon, <1>1, <1>2, OpenedIs
<1>4. \A q \in Positions : InRange(q)' <=> InRange(q)
  BY Zenon, <1>2, <1>3, RangeUsedNext
<1> QED
  BY Zenon, <1>0, <1>1, <1>4 DEF Shape

\* A used slot keeps its id, and its commit sequence once it has one, until
\* compaction renumbers it or a rollback takes it back.
LEMMA Steady ==
  ASSUME Counting, EInv, [Next]_vars, ~Compact, NEW p \in Positions, InRange(p)
  PROVE  \/ UndoLast /\ undo[Len(undo)].op = "append" /\ slot[p].ver = 0
         \/ /\ InRange(p)' /\ slot'[p].id = slot[p].id
            /\ slot[p].ver # 0 => slot'[p].ver # 0
<1> DEFINE Same == InRange(p)' /\ slot'[p].id = slot[p].id /\ (slot[p].ver # 0 => slot'[p].ver # 0)
<1>0. Shape /\ Versions /\ slot \in [Positions -> Slots] /\ clock \in Nat \ {0}
      /\ slot[p] \in Slots
  BY Zenon DEF EInv, Shape
<1>1. ASSUME slot' = slot, seg' = seg PROVE Same
  BY Zenon, <1>1 DEF InRange
<1>2. ASSUME NEW i \in Ids, NEW v \in Vals, Insert(i, v) \/ Replace(i, v) PROVE Same
  <2>1. PICK r \in Positions :
          /\ ~InRange(r) /\ \A q \in Positions : InRange(q)' <=> InRange(q) \/ q = r
          /\ \A q \in Positions : q # r => slot'[q] = slot[q]
    BY <1>2, PushIs
  <2>2. p # r
    BY Zenon, <2>1
  <2> QED
    BY Zenon, <2>1, <2>2
<1>3. ASSUME NEW i \in Ids, Delete(i) \/ ReplaceRefused(i) PROVE Same
  <2>1. slot' = slot /\ \A q \in Positions : InRange(q)' <=> InRange(q)
    BY Zenon, <1>3, DropIs
  <2> QED
    BY Zenon, <2>1
<1>4. ASSUME NEW i \in Ids, NEW v \in Vals, UpdateMeta(i, v) PROVE Same
  <2> DEFINE x == [slot[fwd[i]] EXCEPT !.meta = v]
  <2>1. slot' = [slot EXCEPT ![fwd[i]] = x] /\ seg' = seg /\ fwd[i] # None
    BY Zenon, <1>4 DEF UpdateMeta
  <2>2. x.id = slot[fwd[i]].id /\ x.ver = slot[fwd[i]].ver
    BY Zenon, <1>0, <2>1, Mapped DEF Slots
  <2> HIDE DEF x
  <2> QED
    BY Zenon, <2>1, <2>2, <1>0 DEF InRange
<1>5. CASE Commit
  <2> DEFINE x == [slot[p] EXCEPT !.ver = clock]
  <2>1. slot'[p] = (IF p \in stamp THEN x ELSE slot[p]) /\ seg' = seg
    BY Zenon, <1>5 DEF Commit
  <2>2. x.id = slot[p].id /\ x.ver = clock /\ clock # 0
    BY Zenon, <1>0 DEF Slots
  <2> HIDE DEF x
  <2> QED
    BY Zenon, <2>1, <2>2 DEF InRange
<1>6. CASE SealSegment
  <2>1. slot' = slot /\ openIdx \in 1..Len(seg) /\ seg' = [seg EXCEPT ![openIdx].sealed = TRUE]
        /\ Dir(p) \in 1..Len(seg)
    BY <1>0, <1>6, PosSplit DEF SealSegment, Shape, InRange
  <2>2. Len(seg') = Len(seg) /\ seg'[Dir(p)].next = seg[Dir(p)].next
    <3>1. seg \in Seq(Segments) /\ seg[Dir(p)] \in Segments
      BY <1>0, <2>1 DEF Shape
    <3>2. seg'[Dir(p)] = IF Dir(p) = openIdx THEN [seg[openIdx] EXCEPT !.sealed = TRUE]
                         ELSE seg[Dir(p)]
      BY <2>1, <3>1
    <3>3. Len(seg') = Len(seg)
      BY <2>1, <3>1
    <3> QED
      BY Zenon, <3>1, <3>2, <3>3 DEF Segments
  <2> QED
    BY Zenon, <2>1, <2>2 DEF InRange
<1>7. ASSUME UndoLast PROVE Same \/ (undo[Len(undo)].op = "append" /\ slot[p].ver = 0)
  <2>1. PICK u : u = undo[Len(undo)]
    BY Zenon
  <2>2. /\ u.op \in {"append", "undelete", "meta"} /\ u.pos \in Positions
        /\ Appended = IF u.op = "append" THEN Appended' \cup {u.pos} ELSE Appended'
    BY Zenon, <1>7, <2>1, LastIs
  <2>3. CASE u.op = "append"
    <3>1. slot' = slot /\ (InRange(p)' <=> InRange(p) /\ p # u.pos)
      BY Zenon, <1>7, <2>1, <2>3, UndoAppendIs
    <3>2. p = u.pos => slot[p].ver = 0
      BY Zenon, <1>0, <2>2, <2>3 DEF Versions
    <3> QED
      BY Zenon, <2>1, <2>3, <3>1, <3>2
  <2>4. CASE u.op = "undelete"
    BY Zenon, <1>7, <2>1, <2>4, UndoDeleteIs
  <2>5. CASE u.op = "meta"
    <3> DEFINE x == [slot[u.pos] EXCEPT !.meta = u.prev]
    <3>1. slot' = [slot EXCEPT ![u.pos] = x] /\ seg' = seg
      BY Zenon, <1>7, <2>1, <2>5 DEF UndoLast, UndoMeta
    <3>2. x.id = slot[u.pos].id /\ x.ver = slot[u.pos].ver
      BY Zenon, <1>0, <2>2 DEF Slots
    <3> HIDE DEF x
    <3> QED
      BY Zenon, <3>1, <3>2, <1>0, <2>2 DEF InRange
  <2> QED
    BY Zenon, <2>2, <2>3, <2>4, <2>5
<1>8. CASE Begin \/ NextSeq \/ Abort \/ Aborted \/ HookReturns \/ Fetch
  BY Zenon, <1>1, <1>8 DEF Begin, NextSeq, Abort, Aborted, HookReturns, Fetch, table
<1>9. ASSUME NEW i \in Ids, LookupID(i) PROVE Same
  BY Zenon, <1>1, <1>9 DEF LookupID, table
<1>11. CASE UNCHANGED vars
  BY Zenon, <1>1, <1>11 DEF vars
<1> HIDE DEF Same
<1>12. Same \/ (UndoLast /\ undo[Len(undo)].op = "append" /\ slot[p].ver = 0)
  <2>1. CASE UndoLast
    BY Zenon, <2>1, <1>7
  <2>2. ASSUME NEW i \in Ids, Delete(i) \/ ReplaceRefused(i) \/ LookupID(i) PROVE Same
    BY Zenon, <2>2, <1>3, <1>9
  <2>3. ASSUME NEW i \in Ids, NEW v \in Vals, Insert(i, v) \/ Replace(i, v) \/ UpdateMeta(i, v)
        PROVE  Same
    BY Zenon, <2>3, <1>2, <1>4
  <2>4. CASE Begin \/ NextSeq \/ Abort \/ Aborted \/ HookReturns \/ Fetch
    BY Zenon, <2>4, <1>8 DEF Same
  <2>5. CASE UNCHANGED vars
    BY Zenon, <2>5, <1>11 DEF Same
  <2> QED
    BY Zenon, <2>1, <2>2, <2>3, <2>4, <2>5, <1>5, <1>6 DEF Next, Same
<1> QED
  BY Zenon, <1>12 DEF Same

-----------------------------------------------------------------------------
(* Compact's repoint table.                                                *)

\* Compact makes the table, nothing moves a slot while the hook has it, and the
\* table is gone when the writer lock is free.
LEMMA NextRepointInv ==
  ASSUME Counting, EInv, RepointInv, [Next]_vars
  PROVE  RepointInv'
<1>1. CASE Compact
  <2>1. repoint' = [p \in Live |-> [new |-> NewPos(p), id |-> slot[p].id]]
        /\ txn' = "repointing"
    BY Zenon, <1>1 DEF Compact
  <2>2. /\ DOMAIN repoint' = Live
        /\ \A p \in Live : repoint'[p].new = NewPos(p) /\ repoint'[p].id = slot[p].id
    BY <2>1
  <2>3. /\ \A p \in Live : NewPos(p) \in Positions /\ slot'[NewPos(p)] = slot[p]
        /\ \A p, q \in Live : NewPos(p) = NewPos(q) => p = q
        /\ \A q \in Positions : InRange(q)' <=> \E p \in Live : NewPos(p) = q
        /\ tomb' = {}
    BY Zenon, <1>1, CompactIs
  <2>4. Live' = {q \in Positions : InRange(q)' /\ q \notin tomb'}
    BY Zenon DEF Live
  <2>5. {repoint'[p].new : p \in DOMAIN repoint'} = Live'
    <3>1. \A p \in Live : repoint'[p].new \in Live'
      BY Zenon, <2>2, <2>3, <2>4
    <3>2. \A q \in Live' : \E p \in DOMAIN repoint' : q = repoint'[p].new
      BY <2>2, <2>3, <2>4
    <3> QED
      BY <2>2, <3>1, <3>2
  <2> QED
    BY Zenon, <2>1, <2>2, <2>3, <2>5 DEF RepointInv, RepointExact
<1>2. ASSUME DOMAIN repoint' = {} PROVE RepointInv'
  BY Zenon, <1>2 DEF RepointInv, RepointExact
<1>3. CASE HookReturns
  <2>1. DOMAIN repoint' = {}
    BY Zenon, <1>3 DEF HookReturns
  <2> QED
    BY Zenon, <1>2, <2>1
<1>4. ASSUME UNCHANGED <<slot, tomb, repoint, txn>>,
             \A p \in Positions : InRange(p)' <=> InRange(p)
      PROVE  RepointInv'
  <2>1. Live' = Live
    BY Zenon, <1>4 DEF Live
  <2> QED
    BY Zenon, <1>4, <2>1 DEF RepointInv, RepointExact
<1>5. CASE SealSegment
  BY Zenon, <1>4, <1>5, SealEInv DEF SealSegment, writer, others
<1>6. ASSUME Fetch \/ (\E i \in Ids : LookupID(i)) \/ UNCHANGED vars PROVE RepointInv'
  <2>1. UNCHANGED <<slot, tomb, seg, repoint, txn>>
    BY Zenon, <1>6 DEF Fetch, LookupID, vars, table, writer
  <2>2. \A p \in Positions : InRange(p)' <=> InRange(p)
    BY Zenon, <2>1 DEF InRange
  <2> QED
    BY Zenon, <1>4, <2>1, <2>2
<1>7. ASSUME txn # "repointing", ~Compact, ~HookReturns PROVE RepointInv'
  <2>1. repoint' = repoint
    BY ZenonT(40), <1>7 DEF Next, vars, Begin, NextSeq, Commit, Abort, UndoLast, Aborted, Delete,
       ReplaceRefused, LookupID, Insert, Replace, UpdateMeta, SealSegment, Fetch, others
  <2> QED
    BY Zenon, <1>2, <1>7, <2>1 DEF RepointInv
<1>8. ASSUME txn = "repointing"
      PROVE  \/ Compact \/ HookReturns \/ SealSegment \/ Fetch
             \/ (\E i \in Ids : LookupID(i)) \/ UNCHANGED vars
  BY ZenonT(40), <1>8 DEF Next, Begin, NextSeq, Commit, Abort, UndoLast, Aborted, Delete,
     ReplaceRefused, Insert, Replace, UpdateMeta, CanWrite
<1> QED
  BY Zenon, <1>1, <1>3, <1>5, <1>6, <1>7, <1>8

-----------------------------------------------------------------------------
(* The reader.                                                             *)

\* Between its lookup and its fetch a Get holds the position of its id, unless
\* slots are vacated.
LEMMA NextReaderInv ==
  ASSUME Counting, EInv, ReaderInv, [Next]_vars
  PROVE  ReaderInv'
<1>0. /\ reader \in [asked : Ids \cup {None}, pos : Positions \cup {None}]
      /\ moved \in BOOLEAN
  BY Zenon DEF ReaderInv
<1>1. ASSUME NEW i \in Ids, LookupID(i) PROVE ReaderInv'
  <2>1. /\ reader' = [asked |-> i, pos |-> fwd[i]] /\ moved' = FALSE
        /\ fwd[i] # None /\ UNCHANGED <<slot, seg>>
    BY Zenon, <1>1 DEF LookupID, table
  <2>2. fwd[i] \in Positions /\ InRange(fwd[i]) /\ slot[fwd[i]].id = i
    BY Zenon, <2>1, Mapped
  <2>3. PICK p : p = fwd[i]
    BY Zenon
  <2>4. /\ reader' \in [asked : Ids \cup {None}, pos : Positions \cup {None}]
        /\ reader'.asked = i /\ reader'.pos = p
    BY Zenon, <2>1, <2>2, <2>3
  <2> QED
    BY ZenonT(40), <2>1, <2>2, <2>3, <2>4, NoneApart DEF ReaderInv, Asking, InRange
<1>2. CASE Fetch
  <2>1. reader' = NoReader /\ moved' = FALSE
    BY Zenon, <1>2 DEF Fetch
  <2> QED
    BY Zenon, <2>1 DEF ReaderInv, Asking, NoReader
<1>3. ASSUME reader' = reader, moved' \in BOOLEAN,
             Asking /\ ~moved' =>
               ~moved /\ ~Compact /\ ~(UndoLast /\ undo[Len(undo)].op = "append")
      PROVE  ReaderInv'
  <2>1. ASSUME Asking, ~moved', NEW p, p = reader.pos
        PROVE  p \in Positions /\ InRange(p)' /\ slot'[p].id = reader.asked
    <3>1. p \in Positions /\ InRange(p) /\ slot[p].id = reader.asked
          /\ ~Compact /\ ~(UndoLast /\ undo[Len(undo)].op = "append")
      BY Zenon, <1>3, <2>1 DEF ReaderInv
    <3>2. InRange(p)' /\ slot'[p].id = slot[p].id
      BY Zenon, <3>1, Steady
    <3> QED
      BY Zenon, <3>1, <3>2
  <2> QED
    BY Zenon, <1>0, <1>3, <2>1 DEF ReaderInv, Asking, InRange
<1>4. CASE Compact
  <2>1. reader' = reader /\ moved' = Asking
    BY Zenon, <1>4 DEF Compact
  <2> QED
    BY ZenonT(40), <1>3, <2>1 DEF Asking
<1>5. CASE UndoLast
  <2>1. reader' = reader /\ moved' = (moved \/ (Asking /\ undo[Len(undo)].op = "append"))
    BY Zenon, <1>5 DEF UndoLast
  <2>2. ~Compact
    BY Zenon, <1>5 DEF UndoLast, Compact
  <2> QED
    BY ZenonT(40), <1>0, <1>3, <2>1, <2>2
<1>6. ASSUME ~Compact, ~UndoLast, ~Fetch, \A i \in Ids : ~LookupID(i)
      PROVE  ReaderInv'
  <2>1. UNCHANGED <<reader, moved>>
    BY ZenonT(40), <1>6 DEF Next, vars, Begin, NextSeq, Commit, Abort, Aborted, Delete, ReplaceRefused,
       HookReturns, Insert, Replace, UpdateMeta, SealSegment, others, readers
  <2> QED
    BY Zenon, <1>0, <1>3, <1>6, <2>1
<1> QED
  BY Zenon, <1>1, <1>2, <1>4, <1>5, <1>6

-----------------------------------------------------------------------------
(* What a client sees of a step.                                           *)

\* The point an id is mapped to, before and after a step.
LEMMA ContentAt ==
  ASSUME NEW j \in Ids
  PROVE  /\ fwd[j] = None => Content[j] = None
         /\ fwd[j] # None => Content[j] = [vec |-> slot[fwd[j]].vec, meta |-> slot[fwd[j]].meta]
BY Zenon DEF Content

\* The same of the state a step leads to.
LEMMA ContentNext ==
  ASSUME NEW j \in Ids, NEW p, fwd'[j] = p
  PROVE  /\ p = None => Content'[j] = None
         /\ p # None => Content'[j] = [vec |-> slot'[p].vec, meta |-> slot'[p].meta]
BY Zenon DEF Content

\* A step that leaves an id's mapping and values alone does not show at it.
LEMMA Unshown ==
  ASSUME NEW j \in Ids, NEW p, fwd'[j] = p, fwd[j] = None <=> p = None,
         p # None => slot'[p].vec = slot[fwd[j]].vec /\ slot'[p].meta = slot[fwd[j]].meta
  PROVE  Content'[j] = Content[j]
<1>1. CASE p = None
  BY ZenonT(40), <1>1, ContentAt, ContentNext
<1>2. CASE p # None
  <2>1. Content'[j] = [vec |-> slot'[p].vec, meta |-> slot'[p].meta]
    BY Zenon, <1>2, ContentNext
  <2>2. Content[j] = [vec |-> slot[fwd[j]].vec, meta |-> slot[fwd[j]].meta]
    BY Zenon, <1>2, ContentAt
  <2> QED
    BY <1>2, <2>1, <2>2, Zenon
<1> QED
  BY Zenon, <1>1, <1>2

\* Two contents that agree everywhere are equal.
LEMMA ContentSame ==
  ASSUME \A j \in Ids : Content'[j] = Content[j]
  PROVE  Content' = Content
<1>1. /\ DOMAIN Content = Ids /\ Content = [j \in Ids |-> Content[j]]
      /\ DOMAIN Content' = Ids /\ Content' = [j \in Ids |-> Content'[j]]
  BY Zenon DEF Content
<1> HIDE DEF Content
<1> QED BY <1>1, Zenon

\* A content that differs at one id is the other one updated there.
LEMMA ContentExcept ==
  ASSUME NEW i \in Ids, NEW x,
         \A j \in Ids : Content'[j] = IF j = i THEN x ELSE Content[j]
  PROVE  Content' = [Content EXCEPT ![i] = x]
<1>1. /\ DOMAIN Content = Ids
      /\ DOMAIN Content' = Ids /\ Content' = [j \in Ids |-> Content'[j]]
  BY Zenon DEF Content
<1>2. [Content EXCEPT ![i] = x] = [j \in Ids |-> IF j = i THEN x ELSE Content[j]]
  BY ZenonT(40), <1>1
<1> QED BY <1>1, <1>2, Zenon

\* What Insert, and Upsert of a live id, show.
LEMMA PushShows ==
  ASSUME Counting, EInv, NEW i \in Ids, NEW v \in Vals, Insert(i, v) \/ Replace(i, v)
  PROVE  \A j \in Ids : Content'[j] = IF j = i THEN [vec |-> v, meta |-> v] ELSE Content[j]
<1>1. PICK p \in Positions :
        /\ ~InRange(p) /\ \A q \in Positions : q # p => slot'[q] = slot[q]
        /\ slot'[p].vec = v /\ slot'[p].meta = v
        /\ \A j \in Ids : fwd'[j] = IF j = i THEN p ELSE fwd[j]
  BY PushIs
<1> SUFFICES ASSUME NEW j \in Ids
             PROVE  Content'[j] = IF j = i THEN [vec |-> v, meta |-> v] ELSE Content[j]
  BY Zenon
<1>2. CASE j = i
  <2>1. fwd'[j] = p /\ p # None
    BY Zenon, <1>1, <1>2, NoneApart
  <2> QED
    BY <1>1, <1>2, <2>1, ContentNext
<1>3. CASE j # i
  <2>1. fwd'[j] = fwd[j]
    BY Zenon, <1>1, <1>3
  <2>2. fwd[j] # None => slot'[fwd[j]] = slot[fwd[j]]
    BY Zenon, <1>1, Mapped
  <2>3. Content'[j] = Content[j]
    BY Zenon, <2>1, <2>2, Unshown
  <2> QED
    BY Zenon, <1>3, <2>3
<1> QED
  BY Zenon, <1>2, <1>3

\* What Delete and a refused Upsert show.
LEMMA DropShows ==
  ASSUME Counting, EInv, NEW i \in Ids, Delete(i) \/ ReplaceRefused(i)
  PROVE  /\ \A j \in Ids : Content'[j] = IF j = i THEN None ELSE Content[j]
         /\ Content[i] # None
<1>1. /\ fwd[i] # None /\ slot' = slot
      /\ \A j \in Ids : fwd'[j] = IF j = i THEN None ELSE fwd[j]
  BY Zenon, DropIs
<1>2. [vec |-> slot[fwd[i]].vec, meta |-> slot[fwd[i]].meta] \in [vec : Vals, meta : Vals]
  BY Zenon, <1>1, Mapped
<1>3. None \notin [vec : Vals, meta : Vals]
  BY Zenon, EngineAssumption
<1>4. Content[i] # None
  BY ZenonT(40), <1>1, <1>2, <1>3, ContentAt
<1>5. Content'[i] = None
  BY ZenonT(40), <1>1, ContentNext
<1>6. \A j \in Ids : j # i => Content'[j] = Content[j]
  BY Zenon, <1>1, Unshown
<1> QED
  BY Zenon, <1>4, <1>5, <1>6

\* What UpdateMeta shows.
LEMMA MetaShows ==
  ASSUME EInv, NEW i \in Ids, NEW v \in Vals, UpdateMeta(i, v)
  PROVE  /\ fwd[i] # None /\ fwd' = fwd /\ slot[fwd[i]].vec \in Vals
         /\ \A q \in Positions : slot'[q].vec = slot[q].vec
         /\ \A q \in Positions : q # fwd[i] => slot'[q].meta = slot[q].meta
         /\ \A j \in Ids : Content'[j] = IF j = i THEN [vec |-> slot[fwd[i]].vec, meta |-> v]
                                         ELSE Content[j]
<1> DEFINE x == [slot[fwd[i]] EXCEPT !.meta = v]
<1>1. slot' = [slot EXCEPT ![fwd[i]] = x] /\ fwd' = fwd /\ fwd[i] # None
  BY Zenon DEF UpdateMeta
<1>2. /\ fwd[i] \in Positions /\ slot[fwd[i]].vec \in Vals /\ slot \in [Positions -> Slots]
      /\ slot[fwd[i]] \in Slots
  BY Zenon, <1>1, Mapped DEF EInv, Shape
<1>3. x.vec = slot[fwd[i]].vec /\ x.meta = v
  BY Zenon, <1>2 DEF Slots
<1> HIDE DEF x
<1>4. \A q \in Positions : slot'[q] = IF q = fwd[i] THEN x ELSE slot[q]
  BY Zenon, <1>1, <1>2
<1>5. \A q \in Positions : slot'[q].vec = slot[q].vec
  BY Zenon, <1>2, <1>3, <1>4
<1>6. \A q \in Positions : q # fwd[i] => slot'[q].meta = slot[q].meta
  BY Zenon, <1>4
<1>7. ASSUME NEW j \in Ids
      PROVE  Content'[j] = IF j = i THEN [vec |-> slot[fwd[i]].vec, meta |-> v] ELSE Content[j]
  <2>1. CASE j = i
    BY <2>1, <1>1, <1>2, <1>3, <1>4, ContentNext
  <2>2. CASE j # i
    <3>1. fwd[j] # None => fwd[j] \in Positions /\ fwd[j] # fwd[i]
      BY Zenon, <2>2, <1>1, Mapped
    <3>2. Content'[j] = Content[j]
      BY Zenon, <3>1, <1>1, <1>4, Unshown
    <3> QED
      BY Zenon, <2>2, <3>2
  <2> QED
    BY Zenon, <2>1, <2>2
<1> QED
  BY Zenon, <1>1, <1>2, <1>5, <1>6, <1>7

\* Beginning, committing, sealing, compacting and reading show nothing.
LEMMA QuietShows ==
  ASSUME Counting, EInv,
         \/ Begin \/ NextSeq \/ Commit \/ Abort \/ Aborted \/ SealSegment \/ Compact
         \/ HookReturns \/ Fetch
         \/ \E i \in Ids : LookupID(i)
         \/ UNCHANGED vars
  PROVE  \A j \in Ids : Content'[j] = Content[j]
<1>1. CASE Commit
  <2>0. slot \in [Positions -> Slots]
    BY Zenon DEF EInv, Shape
  <2>1. /\ fwd' = fwd
        /\ \A p \in Positions : slot'[p] = IF p \in stamp THEN [slot[p] EXCEPT !.ver = clock]
                                           ELSE slot[p]
    BY Zenon, <1>1 DEF Commit
  <2>2. \A p \in Positions : slot'[p].vec = slot[p].vec /\ slot'[p].meta = slot[p].meta
    BY ZenonT(40), <2>0, <2>1 DEF Slots
  <2>3. \A j \in Ids : fwd[j] # None => fwd[j] \in Positions
    BY Zenon, Mapped
  <2> QED
    BY Zenon, <2>1, <2>2, <2>3, Unshown
<1>2. CASE Compact
  <2>1. \A i \in Ids : fwd'[i] = IF fwd[i] = None THEN None ELSE NewPos(fwd[i])
    BY Zenon, <1>2, CompactIs
  <2>2. \A p \in Live : NewPos(p) \in Positions /\ slot'[NewPos(p)] = slot[p]
    BY Zenon, <1>2, CompactIs
  <2>3. \A i \in Ids : fwd[i] # None => fwd[i] \in Live
    BY Zenon, <1>2, CompactIs
  <2> SUFFICES ASSUME NEW j \in Ids PROVE Content'[j] = Content[j]
    BY Zenon
  <2>4. CASE fwd[j] = None
    BY Zenon, <2>1, <2>4, Unshown
  <2>5. CASE fwd[j] # None
    <3>1. fwd'[j] = NewPos(fwd[j]) /\ NewPos(fwd[j]) # None /\ slot'[NewPos(fwd[j])] = slot[fwd[j]]
      BY Zenon, <2>1, <2>2, <2>3, <2>5, NoneApart
    <3> QED
      BY Zenon, <2>5, <3>1, Unshown
  <2> QED
    BY Zenon, <2>4, <2>5
<1>3. ASSUME slot' = slot, fwd' = fwd PROVE \A j \in Ids : Content'[j] = Content[j]
  BY Zenon, <1>3, Unshown
<1> QED
  BY Zenon, <1>1, <1>2, <1>3 DEF Begin, NextSeq, Abort, Aborted, SealSegment, HookReturns, Fetch,
     LookupID, vars, table

-----------------------------------------------------------------------------
(* A rollback restores the map found at Begin.                             *)

Kept == [vec : Vals, meta : Vals] \cup {None}

\* The map holds points.
LEMMA ContentType == EInv => Content \in [Ids -> Kept]
<1> SUFFICES ASSUME EInv PROVE Content \in [Ids -> Kept]
  BY Zenon
<1>1. \A j \in Ids : fwd[j] # None =>
        [vec |-> slot[fwd[j]].vec, meta |-> slot[fwd[j]].meta] \in [vec : Vals, meta : Vals]
  BY Zenon, Mapped
<1> QED
  BY Zenon, <1>1 DEF Content, Kept

\* One more entry on the log: the first entry of an id remembers its point.
LEMMA RestoringPush ==
  ASSUME EInv, Restoring, txn = "active", UNCHANGED <<txn, before>>,
         NEW e \in Entries, undo' = Append(undo, e), e.op # "untomb",
         \A j \in Ids : j # e.id => Content'[j] = Content[j],
         ~ReplacedSome => \A m \in Log : Original(undo[m])' = Original(undo[m]),
         Original(e)' = Content[e.id]
  PROVE  Restoring'
<1> SUFFICES ASSUME ~ReplacedSome' PROVE (before \in [Ids -> Kept] /\ Restores)'
  BY Zenon DEF Restoring, Kept
<1>1. /\ Len(undo') = Len(undo) + 1 /\ Len(undo) \in Nat
      /\ \A n \in 1..Len(undo) : undo'[n] = undo[n]
      /\ undo'[Len(undo) + 1] = e /\ ~ReplacedSome
  BY Zenon, LogPush DEF EInv, Shape
<1>2. before \in [Ids -> Kept] /\ Restores
  BY Zenon, <1>1 DEF Restoring, Kept
<1>3. Log = 1..Len(undo) /\ Log' = 1..(Len(undo) + 1)
  BY Zenon, <1>1 DEF Log
<1> SUFFICES ASSUME NEW i \in Ids
             PROVE  /\ (\A n \in Log' : undo'[n].id # i) => Content'[i] = before[i]
                    /\ \A n \in Log' :
                         undo'[n].id = i /\ (\A m \in 1..(n - 1) : undo'[m].id # i) =>
                           before[i] = Original(undo[n])'
  BY ZenonT(40), <1>2 DEF Restores
<1>4. ASSUME \A n \in Log' : undo'[n].id # i PROVE Content'[i] = before[i]
  <2>1. i # e.id /\ \A n \in Log : undo[n].id # i
    BY <1>1, <1>3, <1>4
  <2> QED
    BY Zenon, <2>1, <1>2 DEF Restores
<1>5. ASSUME NEW n \in Log', undo'[n].id = i, \A m \in 1..(n - 1) : undo'[m].id # i
      PROVE  before[i] = Original(undo[n])'
  <2>1. CASE n \in Log
    <3>1. undo[n].id = i /\ \A m \in 1..(n - 1) : undo[m].id # i
      BY <2>1, <1>1, <1>3, <1>5
    <3>2. before[i] = Original(undo[n])
      BY Zenon, <2>1, <3>1, <1>2 DEF Restores
    <3> QED
      BY ZenonT(40), <2>1, <3>2, <1>1
  <2>2. CASE n = Len(undo) + 1
    <3>1. undo'[n] = e /\ e.id = i /\ \A m \in Log : undo[m].id # i
      BY <2>2, <1>1, <1>3, <1>5
    <3>2. Content[i] = before[i]
      BY Zenon, <3>1, <1>2 DEF Restores
    <3>3. Original(undo[n])' = Original(e)'
      BY Zenon, <3>1 DEF Original
    <3> QED
      BY Zenon, <3>1, <3>2, <3>3
  <2> QED
    BY <2>1, <2>2, <1>1, <1>3
<1> QED
  BY ZenonT(40), <1>4, <1>5

\* Positions of the log are used, and what it deleted stays as it was: writes
\* change neither vectors nor deleted slots, so its entries remember the same.
LEMMA OriginalKept ==
  ASSUME EInv, ~ReplacedSome, NEW m \in Log, undo'[m] = undo[m],
         \A q \in Positions : InRange(q) => slot'[q].vec = slot[q].vec,
         \A q \in tomb : slot'[q].meta = slot[q].meta
  PROVE  Original(undo[m])' = Original(undo[m])
<1>1. PICK w : w = undo[m]
  BY Zenon
<1>2. undo \in Seq(Entries) /\ Undoable(m) /\ w \in Entries
  BY <1>1 DEF EInv, Shape, Reversible, Log
<1>3. w.pos \in Positions /\ InRange(w.pos) /\ (w.op = "undelete" => w.pos \in tomb)
      /\ w.op \in {"append", "undelete", "untomb", "meta"} /\ w.op # "untomb"
  BY Zenon, <1>1, <1>2 DEF Entries, Undoable, ReplacedSome, Log
<1>4. /\ slot'[w.pos].vec = slot[w.pos].vec
      /\ w.op = "undelete" => slot'[w.pos].meta = slot[w.pos].meta
  BY Zenon, <1>3
<1>5. CASE w.op = "append"
  BY Zenon, <1>1, <1>5 DEF Original
<1>6. CASE w.op = "undelete"
  <2>1. Original(undo[m])' = [vec |-> slot'[w.pos].vec, meta |-> slot'[w.pos].meta]
    BY Zenon, <1>1, <1>6 DEF Original
  <2>2. Original(undo[m]) = [vec |-> slot[w.pos].vec, meta |-> slot[w.pos].meta]
    BY Zenon, <1>1, <1>6 DEF Original
  <2> QED
    BY <1>4, <1>6, <2>1, <2>2, Zenon
<1>7. CASE w.op = "meta"
  <2>1. Original(undo[m])' = [vec |-> slot'[w.pos].vec, meta |-> w.prev]
    BY Zenon, <1>1, <1>7 DEF Original
  <2>2. Original(undo[m]) = [vec |-> slot[w.pos].vec, meta |-> w.prev]
    BY Zenon, <1>1, <1>7 DEF Original
  <2> QED
    BY <1>4, <2>1, <2>2, Zenon
<1> QED
  BY Zenon, <1>3, <1>5, <1>6, <1>7

\* Insert, Delete and UpdateMeta.
LEMMA WriteRestoring ==
  ASSUME Counting, EInv, Restoring, NEW i \in Ids, NEW v \in Vals,
         Insert(i, v) \/ Delete(i) \/ UpdateMeta(i, v)
  PROVE  Restoring'
<1>0. Shape
  BY Zenon DEF EInv
<1>a. txn = "active" /\ UNCHANGED <<txn, before>>
  BY Zenon DEF Insert, Delete, UpdateMeta, CanWrite
<1>b. ASSUME NEW e, undo' = Append(undo, e)
      PROVE  \A m \in Log : undo'[m] = undo[m]
  BY <1>b, <1>0 DEF Shape, Log
<1>1. CASE Insert(i, v)
  <2>1. PICK p \in Positions :
          /\ ~InRange(p) /\ \A q \in Positions : q # p => slot'[q] = slot[q]
          /\ \A j \in Ids : fwd'[j] = IF j = i THEN p ELSE fwd[j]
    BY <1>1, PushIs
  <2>2. fwd[i] = None /\ \E p2 : undo' = Append(undo, [op |-> "append", id |-> i, pos |-> p2, prev |-> None])
        /\ fwd' = [fwd EXCEPT ![i] = p2]
    BY ZenonT(40), <1>1 DEF Insert, AppendPoint
  <2> DEFINE e == [op |-> "append", id |-> i, pos |-> p, prev |-> None]
  <2>3. undo' = Append(undo, e)
    BY Zenon, <2>1, <2>2, <1>0 DEF Shape
  <2>4. e \in Entries /\ e.op = "append" /\ e.id = i
    BY Zenon DEF Entries
  <2> HIDE DEF e
  <2>5. Original(e)' = None /\ Content[i] = None
    BY ZenonT(40), <2>2, <2>4, ContentAt DEF Original
  <2>6. \A j \in Ids : j # i => Content'[j] = Content[j]
    BY ZenonT(40), <1>1, PushShows
  <2>7. \A q \in Positions : InRange(q) => slot'[q] = slot[q]
    BY Zenon, <2>1
  <2>8. \A q \in tomb : slot'[q] = slot[q]
    BY Zenon, <2>7 DEF EInv, Shape, Tables
  <2>9. ~ReplacedSome => \A m \in Log : Original(undo[m])' = Original(undo[m])
    BY ZenonT(40), <2>3, <2>7, <2>8, <1>b, OriginalKept
  <2> QED
    BY ZenonT(40), <2>3, <2>4, <2>5, <2>6, <2>9, <1>a, RestoringPush
<1>2. CASE Delete(i)
  <2>0. PICK e : e = Entry("undelete", i, fwd[i], None)
    BY Zenon
  <2>1. undo' = Append(undo, e) /\ slot' = slot /\ fwd[i] # None
    BY Zenon, <1>2, <2>0 DEF Delete
  <2>2. e \in Entries /\ e.op = "undelete" /\ e.id = i /\ e.pos = fwd[i]
    BY Zenon, <2>0, <2>1, Mapped DEF Entries, Entry
  <2>3. Original(e)' = [vec |-> slot[fwd[i]].vec, meta |-> slot[fwd[i]].meta]
    BY Zenon, <2>1, <2>2 DEF Original
  <2>4. Original(e)' = Content[i]
    BY Zenon, <2>1, <2>3, ContentAt
  <2>5. \A j \in Ids : j # i => Content'[j] = Content[j]
    BY Zenon, <1>2, DropShows
  <2>6. ~ReplacedSome => \A m \in Log : Original(undo[m])' = Original(undo[m])
    BY ZenonT(40), <2>1, <1>b, OriginalKept
  <2> QED
    BY ZenonT(40), <2>1, <2>2, <2>4, <2>5, <2>6, <1>a, RestoringPush
<1>3. CASE UpdateMeta(i, v)
  <2>0. PICK e : e = Entry("meta", i, fwd[i], slot[fwd[i]].meta)
    BY Zenon
  <2>1. undo' = Append(undo, e)
    BY Zenon, <1>3, <2>0 DEF UpdateMeta
  <2>2. /\ fwd[i] # None /\ \A q \in Positions : slot'[q].vec = slot[q].vec
        /\ \A q \in Positions : q # fwd[i] => slot'[q].meta = slot[q].meta
        /\ \A j \in Ids : j # i => Content'[j] = Content[j]
    BY ZenonT(40), <1>3, MetaShows
  <2>3. /\ e \in Entries /\ e.op = "meta" /\ e.id = i /\ e.pos = fwd[i]
        /\ e.prev = slot[fwd[i]].meta /\ fwd[i] \in Positions /\ fwd[i] \notin tomb
    BY Zenon, <2>0, <2>2, Mapped DEF Entries, Entry
  <2>4. Original(e)' = [vec |-> slot'[fwd[i]].vec, meta |-> slot[fwd[i]].meta]
    BY Zenon, <2>3 DEF Original
  <2>5. Content[i] = [vec |-> slot[fwd[i]].vec, meta |-> slot[fwd[i]].meta]
    BY Zenon, <2>2, ContentAt
  <2>6. slot'[fwd[i]].vec = slot[fwd[i]].vec
    BY Zenon, <2>2, <2>3
  <2>7. Original(e)' = Content[i]
    BY <2>4, <2>5, <2>6, Zenon
  <2>8. \A q \in tomb : slot'[q].meta = slot[q].meta
    BY Zenon, <2>2, <2>3, <1>0 DEF Shape
  <2>9. ~ReplacedSome => \A m \in Log : Original(undo[m])' = Original(undo[m])
    BY ZenonT(40), <2>1, <2>2, <2>8, <1>b, OriginalKept
  <2> QED
    BY ZenonT(40), <2>1, <2>2, <2>3, <2>7, <2>9, <1>a, RestoringPush
<1> QED
  BY Zenon, <1>1, <1>2, <1>3

\* An undo step puts one id back to what its entry remembers.
LEMMA RestoringPop ==
  ASSUME EInv, Restoring, UndoLast, NEW u, u = undo[Len(undo)],
         \A j \in Ids : j # u.id => Content'[j] = Content[j],
         Content'[u.id] = Original(u),
         \A q \in Positions : InRange(q) => slot'[q].vec = slot[q].vec,
         \A q \in tomb : slot'[q].meta = slot[q].meta
  PROVE  Restoring'
<1>1. PICK n : n = Len(undo)
  BY Zenon
<1>2. /\ n \in Nat \ {0} /\ u.id \in Ids /\ Log' = 1..(n - 1)
      /\ \A m \in 1..(n - 1) : undo'[m] = undo[m]
      /\ txn = "aborting"
  BY Zenon, <1>1, LastIs
<1>3. before' = before /\ ~ReplacedSome
  BY Zenon, <1>2 DEF UndoLast, EInv
<1>4. before \in [Ids -> Kept] /\ Restores
  BY Zenon, <1>2, <1>3 DEF Restoring, Kept
<1>5. Log = 1..n
  BY Zenon, <1>1 DEF Log
<1>6. \A m \in 1..(n - 1) : Original(undo[m])' = Original(undo[m])
  BY <1>2, <1>3, <1>5, OriginalKept
<1> SUFFICES ASSUME NEW i \in Ids
             PROVE  /\ (\A m \in 1..(n - 1) : undo[m].id # i) => Content'[i] = before[i]
                    /\ \A m \in 1..(n - 1) :
                         undo[m].id = i /\ (\A k \in 1..(m - 1) : undo[k].id # i) =>
                           before[i] = Original(undo[m])'
  <2>1. ASSUME NEW i \in Ids
        PROVE  /\ (\A m \in Log' : undo'[m].id # i) => Content'[i] = before'[i]
               /\ \A m \in Log' :
                    undo'[m].id = i /\ (\A k \in 1..(m - 1) : undo'[k].id # i) =>
                      before'[i] = Original(undo[m])'
    BY SMTT(40), <1>2, <1>3
  <2> QED
    BY Zenon, <2>1, <1>3, <1>4 DEF Restoring, Restores, Kept
<1>7. ASSUME \A m \in 1..(n - 1) : undo[m].id # i PROVE Content'[i] = before[i]
  <2>1. CASE i = u.id
    <3>1. n \in Log /\ undo[n].id = i /\ \A m \in 1..(n - 1) : undo[m].id # i
      BY <2>1, <1>1, <1>2, <1>5, <1>7
    <3>2. before[i] = Original(undo[n])
      BY Zenon, <3>1, <1>4 DEF Restores
    <3> QED
      BY Zenon, <2>1, <3>2, <1>1
  <2>2. CASE i # u.id
    <3>1. \A m \in Log : undo[m].id # i
      BY <2>2, <1>1, <1>2, <1>5, <1>7
    <3> QED
      BY Zenon, <2>2, <3>1, <1>4 DEF Restores
  <2> QED
    BY Zenon, <2>1, <2>2
<1>8. ASSUME NEW m \in 1..(n - 1), undo[m].id = i, \A k \in 1..(m - 1) : undo[k].id # i
      PROVE  before[i] = Original(undo[m])'
  <2>1. m \in Log
    BY <1>2, <1>5
  <2>2. before[i] = Original(undo[m])
    BY Zenon, <2>1, <1>4, <1>8 DEF Restores
  <2> QED
    BY Zenon, <2>2, <1>6
<1> QED
  BY Zenon, <1>7, <1>8

\* The undo steps of a rollback.
LEMMA UndoRestoring ==
  ASSUME Counting, EInv, Restoring, UndoLast
  PROVE  Restoring'
<1>0. Shape
  BY Zenon DEF EInv
<1>1. PICK u : u = undo[Len(undo)]
  BY Zenon
<1>2. /\ u.op \in {"append", "undelete", "meta"} /\ u.pos \in Positions /\ u.id \in Ids
      /\ u.op = "meta" => fwd[u.id] = u.pos
  BY Zenon, <1>1, LastIs
<1>3. CASE u.op = "append"
  <2>1. slot' = slot /\ \A j \in Ids : fwd'[j] = IF j = u.id THEN None ELSE fwd[j]
    BY Zenon, <1>1, <1>3, UndoAppendIs
  <2>2. Content'[u.id] = None
    BY ZenonT(40), <1>2, <2>1, ContentNext
  <2>3. \A j \in Ids : j # u.id => Content'[j] = Content[j]
    BY Zenon, <2>1, Unshown
  <2>4. Original(u) = None
    BY Zenon, <1>3 DEF Original
  <2> QED
    BY <1>1, <2>1, <2>2, <2>3, <2>4, RestoringPop
<1>4. CASE u.op = "undelete"
  <2>1. slot' = slot /\ \A j \in Ids : fwd'[j] = IF j = u.id THEN u.pos ELSE fwd[j]
    BY Zenon, <1>1, <1>4, UndoDeleteIs
  <2>2. Content'[u.id] = [vec |-> slot[u.pos].vec, meta |-> slot[u.pos].meta]
    BY <1>2, <2>1, ContentNext, NoneApart
  <2>3. \A j \in Ids : j # u.id => Content'[j] = Content[j]
    BY Zenon, <2>1, Unshown
  <2>4. Original(u) = [vec |-> slot[u.pos].vec, meta |-> slot[u.pos].meta]
    BY Zenon, <1>4 DEF Original
  <2>5. Content'[u.id] = Original(u)
    BY <2>2, <2>4, Zenon
  <2> QED
    BY Zenon, <1>1, <2>1, <2>3, <2>5, RestoringPop
<1>5. CASE u.op = "meta"
  <2> DEFINE x == [slot[u.pos] EXCEPT !.meta = u.prev]
  <2>1. slot' = [slot EXCEPT ![u.pos] = x] /\ fwd' = fwd
    BY Zenon, <1>1, <1>5 DEF UndoLast, UndoMeta
  <2>2. x.vec = slot[u.pos].vec /\ x.meta = u.prev
    BY Zenon, <1>0, <1>2 DEF Shape, Slots
  <2> HIDE DEF x
  <2>3. \A q \in Positions : slot'[q] = IF q = u.pos THEN x ELSE slot[q]
    BY Zenon, <1>0, <1>2, <2>1 DEF Shape
  <2>4. fwd[u.id] = u.pos /\ u.pos # None /\ u.pos \notin tomb
    BY Zenon, <1>2, <1>5, Mapped, NoneApart
  <2>5. Content'[u.id] = [vec |-> slot[u.pos].vec, meta |-> u.prev]
    BY <1>2, <2>1, <2>2, <2>3, <2>4, ContentNext
  <2>6. Original(u) = [vec |-> slot[u.pos].vec, meta |-> u.prev]
    BY Zenon, <1>5 DEF Original
  <2>7. \A j \in Ids : fwd[j] # None => fwd[j] \in Positions /\ (fwd[j] = u.pos => j = u.id)
    BY Zenon, <2>4, Mapped, <1>2
  <2>8. \A j \in Ids : j # u.id => Content'[j] = Content[j]
    BY <2>1, <2>3, <2>7, Unshown
  <2>9. \A q \in Positions : slot'[q].vec = slot[q].vec
    BY Zenon, <2>2, <2>3
  <2>10. \A q \in tomb : slot'[q].meta = slot[q].meta
    BY Zenon, <1>0, <2>3, <2>4 DEF Shape
  <2>11. Content'[u.id] = Original(u)
    BY <2>5, <2>6, Zenon
  <2> QED
    BY Zenon, <1>1, <2>8, <2>9, <2>10, <2>11, RestoringPop
<1> QED
  BY Zenon, <1>2, <1>3, <1>4, <1>5

\* Steps that leave the points and the log alone.
LEMMA RestoringStill ==
  ASSUME Restoring, UNCHANGED <<slot, fwd, undo, before>>,
         txn' \in {"active", "committing", "aborting"} => txn \in {"active", "committing", "aborting"}
  PROVE  Restoring'
BY DEF Restoring, Restores, Original, Content, ReplacedSome, Log

\* Every step keeps what a rollback needs.
LEMMA NextRestoring ==
  ASSUME Counting, EInv, EInv', Restoring, [Next]_vars
  PROVE  Restoring'
<1>1. CASE Begin
  <2>1. undo' = undo /\ undo = <<>> /\ before' = Content /\ slot' = slot /\ fwd' = fwd
    BY Zenon, <1>1 DEF Begin, table, EInv, Versions
  <2>2. Log' = {}
    BY <2>1 DEF Log
  <2>3. Content' = Content /\ Content \in [Ids -> Kept]
    BY Zenon, <2>1, ContentType DEF Content
  <2> QED
    BY Zenon, <2>1, <2>2, <2>3 DEF Restoring, Restores, Kept
<1>2. CASE Commit \/ Aborted \/ Compact \/ HookReturns
  <2>1. txn' \in {"idle", "repointing"}
    BY Zenon, <1>2 DEF Commit, Aborted, Compact, HookReturns
  <2> QED
    BY Zenon, <2>1 DEF Restoring
<1>3. CASE NextSeq \/ Abort \/ SealSegment \/ Fetch \/ UNCHANGED vars
  BY Zenon, <1>3, RestoringStill DEF NextSeq, Abort, SealSegment, Fetch, vars, table, writer
<1>4. ASSUME NEW i \in Ids, LookupID(i) PROVE Restoring'
  BY Zenon, <1>4, RestoringStill DEF LookupID, table, writer
<1>6. ASSUME NEW i \in Ids, NEW v \in Vals, Replace(i, v) PROVE Restoring'
  BY Zenon, <1>6, ReplaceEInv DEF Restoring
<1>7. ASSUME NEW i \in Ids, ReplaceRefused(i) PROVE Restoring'
  BY Zenon, <1>7, RefusedEInv DEF Restoring
<1>8. ASSUME NEW i \in Ids, Delete(i) PROVE Restoring'
  <2>1. CASE \E v : v \in Vals
    BY Zenon, <2>1, <1>8, WriteRestoring
  <2>2. CASE ~\E v : v \in Vals
    BY Zenon, <2>2, <1>8, Mapped DEF Delete
  <2> QED
    BY Zenon, <2>1, <2>2
<1> QED
  BY Zenon, <1>1, <1>2, <1>3, <1>4, <1>6, <1>7, <1>8, UndoRestoring, WriteRestoring DEF Next

-----------------------------------------------------------------------------
(* The engine implements Store.                                            *)

\* Every step of the engine is a step of the transactional map, or none.
LEMMA NextStore ==
  ASSUME Counting, EInv, EInv', Restoring, [Next]_vars
  PROVE  [Abs!Next]_(Abs!vars)
<1> DEFINE Map == IF InTxn THEN Content ELSE Published
<1>a. txn \in {"idle", "active", "committing", "aborting", "repointing"}
  BY Zenon DEF EInv, Shape
<1>b. \A x \in {"idle", "repointing"} : txn = x => ~InTxn /\ Published = Content /\ Map = Content
  BY Zenon DEF InTxn, Published
<1>c. \A x \in {"idle", "repointing"} : txn' = x => ~InTxn' /\ Published' = Content' /\ Map' = Content'
  BY Zenon DEF InTxn, Published
<1>d. \A x \in {"active", "committing"} : txn = x => InTxn /\ Published = before /\ Map = Content
  BY DEF InTxn, Published
<1>e. \A x \in {"active", "committing"} : txn' = x => InTxn' /\ Published' = before' /\ Map' = Content'
  BY DEF InTxn, Published
<1>f. /\ txn = "aborting" => ~InTxn /\ Published = before /\ Map = before
      /\ txn' = "aborting" => ~InTxn' /\ Published' = before' /\ Map' = before'
  BY Zenon DEF InTxn, Published
<1>g. InTxn \in BOOLEAN /\ InTxn' \in BOOLEAN
  BY DEF InTxn
<1> HIDE DEF Map
<1>1. CASE Begin
  <2>1. txn = "idle" /\ txn' = "active" /\ before' = Content /\ Content' = Content
    BY Zenon, <1>1, QuietShows, ContentSame DEF Begin
  <2>2. Abs!Begin
    BY Zenon, <2>1, <1>b, <1>e DEF Abs!Begin, Map
  <2> QED
    BY Zenon, <2>2 DEF Abs!Next
<1>2. CASE Commit
  <2>1. txn = "committing" /\ txn' = "idle" /\ Content' = Content
    BY Zenon, <1>2, QuietShows, ContentSame DEF Commit
  <2>2. Abs!Commit
    BY <2>1, <1>c, <1>d DEF Abs!Commit, Map
  <2> QED
    BY Zenon, <2>2 DEF Abs!Next
<1>3. CASE Abort
  <2>1. txn = "active" /\ txn' = "aborting" /\ before' = before
    BY Zenon, <1>3 DEF Abort
  <2>2. Abs!Abort
    BY <2>1, <1>d, <1>f DEF Abs!Abort, Map
  <2> QED
    BY Zenon, <2>2 DEF Abs!Next
<1>4. ASSUME NEW i \in Ids, NEW x \in [vec : Vals, meta : Vals],
             txn = "active", txn' = "active", before' = before,
             \A j \in Ids : Content'[j] = IF j = i THEN x ELSE Content[j]
      PROVE  Abs!Next
  <2>1. Content' = [Content EXCEPT ![i] = x]
    BY Zenon, <1>4, ContentExcept
  <2>2. Abs!Put(i, x)
    BY <2>1, <1>4, <1>d, <1>e DEF Abs!Put, Map
  <2> QED
    BY Zenon, <2>2 DEF Abs!Next
<1>5. ASSUME NEW i \in Ids, Delete(i) \/ ReplaceRefused(i) PROVE Abs!Next
  <2>1. txn = "active" /\ txn' = "active" /\ before' = before
    BY Zenon, <1>5 DEF Delete, ReplaceRefused, CanWrite
  <2>2. Content' = [Content EXCEPT ![i] = None] /\ Content[i] # None
    BY Zenon, <1>5, DropShows, ContentExcept
  <2>3. Abs!Remove(i)
    BY <2>1, <2>2, <1>d, <1>e DEF Abs!Remove, Abs!Put, Map
  <2> QED
    BY Zenon, <2>3 DEF Abs!Next
<1>6. ASSUME NEW i \in Ids, NEW v \in Vals, Insert(i, v) \/ Replace(i, v) PROVE Abs!Next
  <2>1. txn = "active" /\ txn' = "active" /\ before' = before
    BY Zenon, <1>6 DEF Insert, Replace, CanWrite
  <2>2. [vec |-> v, meta |-> v] \in [vec : Vals, meta : Vals]
    BY Zenon
  <2>3. \A j \in Ids : Content'[j] = IF j = i THEN [vec |-> v, meta |-> v] ELSE Content[j]
    BY Zenon, <1>6, PushShows
  <2> QED
    BY Zenon, <1>4, <2>1, <2>2, <2>3
<1>7. ASSUME NEW i \in Ids, NEW v \in Vals, UpdateMeta(i, v) PROVE Abs!Next
  <2>1. txn = "active" /\ txn' = "active" /\ before' = before
    BY Zenon, <1>7 DEF UpdateMeta, CanWrite
  <2>2. /\ slot[fwd[i]].vec \in Vals
        /\ \A j \in Ids : Content'[j] = IF j = i THEN [vec |-> slot[fwd[i]].vec, meta |-> v]
                                        ELSE Content[j]
    BY Zenon, <1>7, MetaShows
  <2>3. PICK x : x = [vec |-> slot[fwd[i]].vec, meta |-> v]
    BY ZenonT(40)
  <2>4. x \in [vec : Vals, meta : Vals]
    BY Zenon, <2>2, <2>3
  <2> QED
    BY Zenon, <1>4, <2>1, <2>2, <2>3, <2>4
<1>8. ASSUME InTxn' = InTxn, Published' = Published, Map' = Map PROVE UNCHANGED Abs!vars
  BY Zenon, <1>8 DEF Abs!vars, Map
<1>9. ASSUME txn' = txn, before' = before, Content' = Content PROVE UNCHANGED Abs!vars
  BY Zenon, <1>8, <1>9, <1>a, <1>b, <1>c, <1>d, <1>e, <1>f, <1>g
<1>10. CASE UndoLast
  <2>1. txn = "aborting" /\ txn' = "aborting" /\ before' = before
    BY Zenon, <1>10 DEF UndoLast
  <2> QED
    BY Zenon, <2>1, <1>8, <1>f, <1>g
<1>11. CASE Aborted
  <2>1. /\ txn = "aborting" /\ txn' = "idle" /\ undo = <<>> /\ before' = before
        /\ \A j \in Ids : Content'[j] = Content[j]
    BY Zenon, <1>11, QuietShows DEF Aborted
  <2>2. before \in [Ids -> Kept] /\ Restores /\ Log = {}
    BY <2>1 DEF Restoring, Kept, Log, EInv
  <2>3. \A j \in Ids : Content[j] = before[j]
    BY Zenon, <2>2 DEF Restores
  <2>4. Content' = Content
    BY Zenon, <2>1, ContentSame
  <2>5. Content = before
    <3>1. DOMAIN before = Ids /\ before = [j \in Ids |-> before[j]]
      BY Zenon, <2>2
    <3>2. DOMAIN Content = Ids /\ Content = [j \in Ids |-> Content[j]]
      BY Zenon DEF Content
    <3> QED
      BY <2>3, <3>1, <3>2, Zenon
  <2> QED
    BY Zenon, <2>1, <2>4, <2>5, <1>8, <1>c, <1>f, <1>g
<1>12. CASE NextSeq
  <2>1. txn = "active" /\ txn' = "committing" /\ before' = before /\ Content' = Content
    BY Zenon, <1>12, QuietShows, ContentSame DEF NextSeq
  <2> QED
    BY Zenon, <2>1, <1>8, <1>d, <1>e, <1>g
<1>13. CASE Compact
  <2>1. txn = "idle" /\ txn' = "repointing" /\ Content' = Content
    BY Zenon, <1>13, QuietShows, ContentSame DEF Compact
  <2> QED
    BY Zenon, <2>1, <1>8, <1>b, <1>c, <1>g
<1>14. CASE HookReturns
  <2>1. txn = "repointing" /\ txn' = "idle" /\ Content' = Content
    BY Zenon, <1>14, QuietShows, ContentSame DEF HookReturns
  <2> QED
    BY Zenon, <2>1, <1>8, <1>b, <1>c, <1>g
<1>15. CASE SealSegment \/ Fetch \/ UNCHANGED vars
  <2>1. Content' = Content
    BY Zenon, <1>15, QuietShows, ContentSame
  <2> QED
    BY Zenon, <2>1, <1>15, <1>9 DEF SealSegment, Fetch, vars, writer
<1>16. ASSUME NEW i \in Ids, LookupID(i) PROVE UNCHANGED Abs!vars
  <2>1. Content' = Content
    BY Zenon, <1>16, QuietShows, ContentSame
  <2> QED
    BY Zenon, <2>1, <1>16, <1>9 DEF LookupID, writer
<1> QED
  BY Zenon, <1>1, <1>2, <1>3, <1>5, <1>6, <1>7, <1>10, <1>11, <1>12, <1>13, <1>14, <1>15, <1>16
     DEF Next

-----------------------------------------------------------------------------
(* The theorems.                                                           *)

INSTANCE FiniteSetTheorems


\* The facts about finite sets that the lemmas take as a hypothesis.
LEMMA CountingHolds == Counting
<1>1. IsFiniteSet({}) /\ Cardinality({}) = 0
  BY Zenon, FS_EmptySet
<1>2. \A a, b \in Int : /\ IsFiniteSet(a..b)
                       /\ Cardinality(a..b) = IF a > b THEN 0 ELSE b - a + 1
  BY Zenon, FS_Interval
<1>3. \A S, x : IsFiniteSet(S) =>
        /\ Cardinality(S \cup {x}) = IF x \in S THEN Cardinality(S) ELSE Cardinality(S) + 1
        /\ Cardinality(S \ {x}) = IF x \in S THEN Cardinality(S) - 1 ELSE Cardinality(S)
  BY Zenon, FS_AddElement, FS_RemoveElement
<1>4. \A S : IsFiniteSet(S) => Cardinality(S) \in Nat
  BY Zenon, FS_CardinalityType
<1>5. \A S, T : IsFiniteSet(S) /\ T \subseteq S =>
        IsFiniteSet(T) /\ Cardinality(T) <= Cardinality(S)
  BY Zenon, FS_Subset
<1>6. \A S, T, f : OneToOne(f, S, T) /\ IsFiniteSet(T) /\ Cardinality(S) = Cardinality(T)
                  => \A t \in T : \E x \in S : f[x] = t
  <2> SUFFICES ASSUME NEW S, NEW T, NEW f, OneToOne(f, S, T), IsFiniteSet(T),
                      Cardinality(S) = Cardinality(T)
               PROVE  \A t \in T : \E x \in S : f[x] = t
    OBVIOUS
  <2>1. f \in Injection(S, T)
    BY Zenon DEF OneToOne, Injection, IsInjective
  <2>2. f \in Surjection(S, T)
    BY Zenon, <2>1, FS_Injection
  <2> QED BY Zenon, <2>2 DEF Surjection
<1> QED BY <1>1, <1>2, <1>3, <1>4, <1>5, <1>6, Zenon DEF Counting

\* The tables, the counters, the versions and the undo log agree in every
\* reachable state.
THEOREM EInvAlways == ASSUME Aborts # "any" PROVE Spec => []EInv
<1>1. Init => EInv
  BY Zenon, InitEInv
<1>2. EInv /\ [Next]_vars => EInv'
  BY Zenon, CountingHolds, NextEInv
<1> QED BY <1>1, <1>2, PTL DEF Spec

\* Invariants I-2 and I-3: whenever e.mu is free, an id is mapped exactly to the
\* live slot that holds it.
THEOREM IdMapAlways == ASSUME Aborts # "any" PROVE Spec => []IdMapExact
<1>1. EInv => IdMapExact
  <2> SUFFICES ASSUME EInv, NEW i \in Ids
               PROVE  {p \in Live : slot[p].id = i} = IF fwd[i] = None THEN {} ELSE {fwd[i]}
    BY Zenon DEF IdMapExact
  <2>1. \A p \in Live : p \in Positions /\ InRange(p) /\ p \notin tomb /\ fwd[slot[p].id] = p
    BY Zenon DEF EInv, Tables, Live
  <2>2. CASE fwd[i] = None
    BY Zenon, <2>1, <2>2, NoneApart
  <2>3. CASE fwd[i] # None
    <3>1. fwd[i] \in Live /\ slot[fwd[i]].id = i
      BY Zenon, <2>3, Mapped DEF Live
    <3> QED
      BY Zenon, <2>1, <2>3, <3>1
  <2> QED
    BY Zenon, <2>2, <2>3
<1> QED BY <1>1, EInvAlways, PTL

\* The live and dead counters of every segment count its slots, and no
\* tombstone bit is left on a free slot.
THEOREM CountsAlways == ASSUME Aborts # "any" PROVE Spec => []CountsExact
<1>1. EInv => CountsExact
  <2> SUFFICES ASSUME EInv
               PROVE  /\ \A d \in 1..Len(seg) :
                           LET used == {p \in Positions : Dir(p) = d /\ InRange(p)}
                           IN  /\ seg[d].live = Cardinality(used \ tomb)
                               /\ seg[d].dead = Cardinality(used \cap tomb)
                      /\ \A p \in tomb : InRange(p)
    BY ZenonT(40) DEF CountsExact
  <2>1. \A p \in tomb : InRange(p)
    BY Zenon DEF EInv, Tables
  <2>2. ASSUME NEW d \in 1..Len(seg)
        PROVE  LET used == {p \in Positions : Dir(p) = d /\ InRange(p)}
               IN  /\ seg[d].live = Cardinality(used \ tomb)
                   /\ seg[d].dead = Cardinality(used \cap tomb)
    <3> DEFINE used == {p \in Positions : Dir(p) = d /\ InRange(p)}
    <3>1. used = Used(seg, d)
      BY Zenon, RangeUsed DEF Used
    <3>2. seg[d].live = Cardinality(Used(seg, d) \ tomb)
          /\ seg[d].dead = Cardinality(Used(seg, d) \cap tomb)
      BY ZenonT(40) DEF EInv, Counted
    <3> HIDE DEF used
    <3>3. seg[d].live = Cardinality(used \ tomb) /\ seg[d].dead = Cardinality(used \cap tomb)
      BY <3>1, <3>2, Zenon
    <3> QED
      BY Zenon, <3>3 DEF used
  <2> QED
    BY ZenonT(40), <2>1, <2>2
<1> QED BY <1>1, EInvAlways, PTL

\* A live slot carries a commit sequence exactly when no open transaction wrote
\* it.
THEOREM StampedAlways == ASSUME Aborts # "any" PROVE Spec => []Stamped
<1>1. EInv => Stamped
  <2> SUFFICES ASSUME EInv, Unlocked, NEW p \in Live
               PROVE  slot[p].ver = 0 <=> p \in stamp
    BY Zenon DEF Stamped
  <2>1. Versions /\ Shape /\ p \in Positions /\ InRange(p)
    BY Zenon DEF EInv, Live
  <2>2. stamp = Appended
    <3>1. CASE txn \in {"active", "committing"}
      BY Zenon, <2>1, <3>1 DEF Versions
    <3>2. CASE txn \in {"idle", "repointing"}
      BY <2>1, <3>2 DEF Versions, Appended, Log
    <3> QED
      BY Zenon, <2>1, <3>1, <3>2 DEF Shape, Unlocked
  <2> QED
    BY Zenon, <2>1, <2>2 DEF Versions
<1> QED BY <1>1, EInvAlways, PTL

\* While Compact's hook runs outside e.mu, the table it was handed is exact and
\* covers every live point.
THEOREM RepointExactAlways == ASSUME Aborts # "any" PROVE Spec => []RepointExact
<1>1. Init => RepointInv
  <2>1. Init => DOMAIN repoint = {}
    BY Zenon DEF Init
  <2> QED
    BY Zenon, <2>1 DEF RepointInv, RepointExact
<1>2. EInv /\ RepointInv /\ [Next]_vars => RepointInv'
  BY Zenon, CountingHolds, NextRepointInv
<1>3. RepointInv => RepointExact
  BY Zenon DEF RepointInv
<1> QED BY <1>1, <1>2, <1>3, EInvAlways, PTL DEF Spec

\* Get returns the point asked for, unless a rollback or a compaction vacates
\* slots between its lookup and its fetch.
THEOREM GetAlways == ASSUME Aborts # "any" PROVE Spec => []GetReturnsAsked
<1>1. Init => ReaderInv
  <2>1. Init => reader = NoReader /\ moved = FALSE
    BY Zenon DEF Init
  <2>2. reader = NoReader => ~Asking
    BY DEF NoReader, Asking
  <2>3. NoReader \in [asked : Ids \cup {None}, pos : Positions \cup {None}]
    BY Zenon DEF NoReader
  <2> QED
    BY ZenonT(40), <2>1, <2>2, <2>3 DEF ReaderInv
<1>2. EInv /\ ReaderInv /\ [Next]_vars => ReaderInv'
  BY Zenon, CountingHolds, NextReaderInv
<1>3. ReaderInv => GetReturnsAsked
  BY Zenon DEF ReaderInv, GetReturnsAsked, Fetched
<1> QED BY <1>1, <1>2, <1>3, EInvAlways, PTL DEF Spec

\* The engine implements the transactional map: operations change the working
\* map, Commit publishes it, Abort leaves the map as it was at Begin, sealing
\* and compacting change nothing.
THEOREM StoreRefinedAlways == ASSUME Aborts # "any" PROVE Spec => StoreRefined
<1>1. Init => Abs!Init
  <2> SUFFICES ASSUME Init PROVE Abs!Init
    BY Zenon
  <2>1. Content = [i \in Ids |-> None] /\ txn = "idle"
    BY Zenon DEF Init, Content
  <2> QED
    BY <2>1 DEF Abs!Init, InTxn, Published
<1>2. Init => Restoring
  BY Zenon DEF Init, Restoring
<1>3. EInv /\ EInv' /\ Restoring /\ [Next]_vars => Restoring'
  BY Zenon, CountingHolds, NextRestoring
<1>4. EInv /\ EInv' /\ Restoring /\ [Next]_vars => [Abs!Next]_(Abs!vars)
  BY Zenon, CountingHolds, NextStore
<1>5. Spec => []EInv
  BY Zenon, EInvAlways
<1> QED BY <1>1, <1>2, <1>3, <1>4, <1>5, PTL DEF Spec, StoreRefined, Abs!Spec
=============================================================================

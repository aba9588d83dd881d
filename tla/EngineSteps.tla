---------------------------- MODULE EngineSteps -----------------------------
(***************************************************************************)
(* Writes and rollbacks keep the inductive invariant of Engine.  What a    *)
(* rollback does is claimed for transactions that replaced no point        *)
(* (Aborts # "any"): the others leave an id unmapped.                      *)
(***************************************************************************)
EXTENDS EngineInv

-----------------------------------------------------------------------------
(* Writes.                                                                 *)

\* UpdateMeta.
LEMMA MetaEInv ==
  ASSUME EInv, NEW i \in Ids, NEW v \in Vals, UpdateMeta(i, v)
  PROVE  EInv'
<1> DEFINE p == fwd[i]  old == slot[fwd[i]].meta  e == Entry("meta", i, p, old)
           x == [slot[p] EXCEPT !.meta = v]
<1>0. Shape /\ Tables /\ Versions /\ Counted(seg, tomb) /\ Reversible
  BY Zenon DEF EInv
<1>1. /\ UNCHANGED <<tomb, seg, openIdx, fwd, clock, txn, stamp>> /\ undo' = Append(undo, e)
      /\ txn = "active" /\ p # None
  BY Zenon DEF UpdateMeta, CanWrite
<1>2. /\ p \in Positions /\ InRange(p) /\ p \notin tomb /\ slot[p].id = i
      /\ slot[p].vec \in Vals /\ old \in Vals /\ slot[p] \in Slots
  BY Zenon, <1>0, <1>1, Mapped DEF Shape
<1>3. /\ e \in Entries /\ e.op = "meta" /\ e.id = i /\ e.pos = p /\ e.prev = old
  BY Zenon, <1>2 DEF Entry, Entries
<1>4. x \in Slots /\ x.id = i /\ x.vec = slot[p].vec /\ x.meta = v /\ x.ver = slot[p].ver
  BY Zenon, <1>2 DEF Slots
<1>5. slot' = [slot EXCEPT ![p] = x]
  BY Zenon DEF UpdateMeta
<1> HIDE DEF x, old, e
<1>6. /\ undo' \in Seq(Entries) /\ Len(undo') = Len(undo) + 1 /\ Len(undo) \in Nat
      /\ \A n \in 1..Len(undo) : undo'[n] = undo[n]
      /\ undo'[Len(undo) + 1] = e
      /\ Appended' = Appended /\ (ReplacedSome' <=> ReplacedSome)
  BY Zenon, <1>0, <1>1, <1>3, LogPush DEF Shape
<1>7. slot' \in [Positions -> Slots] /\ \A q \in Positions : slot'[q] = IF q = p THEN x ELSE slot[q]
  BY Zenon, <1>0, <1>2, <1>4, <1>5 DEF Shape
<1>8. \A q : InRange(q)' <=> InRange(q)
  BY Zenon, <1>1 DEF InRange
<1>9. Shape'
  BY Zenon, <1>0, <1>1, <1>6, <1>7 DEF Shape
<1>10. Tables'
  BY SMTT(40), <1>0, <1>1, <1>2, <1>4, <1>7, <1>8 DEF Tables, Shape
<1>11. Counted(seg, tomb)'
  BY ZenonT(40), <1>0, <1>1 DEF Counted, Used, UsedIn
<1>12. Versions'
  BY <1>0, <1>1, <1>2, <1>4, <1>6, <1>7, <1>8 DEF Versions
<1>13. Reversible'
  <2> SUFFICES ASSUME ~ReplacedSome', NEW n \in Log' PROVE Undoable(n)'
    BY Zenon DEF Reversible
  <2>1. CASE n = Len(undo) + 1
    BY <2>1, <1>1, <1>2, <1>3, <1>4, <1>6, <1>7, <1>8 DEF Undoable
  <2>2. CASE n \in Log
    <3> DEFINE u == undo[n]
    <3>1. n \in 1..Len(undo) /\ Undoable(n) /\ u \in Entries /\ undo'[n] = u
      BY <2>2, <1>0, <1>6 DEF Reversible, Log, Shape
    <3>2. u.pos \in Positions /\ slot'[u.pos].id = slot[u.pos].id
      BY Zenon, <3>1, <1>2, <1>4, <1>7 DEF Entries
    <3>3. u.op = "append" =>
            /\ \A m \in 1..(n - 1) : undo'[m].pos # u.pos
            /\ \A q \in Positions : Dir(q) = Dir(u.pos) /\ u.pos < q /\ InRange(q)' =>
                 \E m \in (n + 1)..Len(undo') : undo'[m].op = "append" /\ undo'[m].pos = q
      BY SMTT(40), <3>1, <1>6, <1>8 DEF Undoable
    <3>4. u.op \in {"append", "meta"} =>
            \/ fwd'[u.id] = u.pos
            \/ \E m \in (n + 1)..Len(undo') : undo'[m].op = "undelete" /\ undo'[m].pos = u.pos
      BY <3>1, <1>1, <1>6 DEF Undoable
    <3>5. u.op = "undelete" =>
            /\ u.pos \in tomb'
            /\ \A m \in (n + 1)..Len(undo') : undo'[m].pos # u.pos
            /\ fwd'[u.id] # None =>
                 \E k \in (n + 1)..Len(undo') : undo'[k].op = "append" /\ undo'[k].id = u.id
            /\ \A m \in (n + 1)..Len(undo') : undo'[m].id = u.id =>
                 \E k \in (n + 1)..m : undo'[k].op = "append" /\ undo'[k].id = u.id
      BY SMTT(40), <3>1, <1>1, <1>2, <1>3, <1>6 DEF Undoable
    <3> QED
      BY <3>1, <3>2, <3>3, <3>4, <3>5, <1>8 DEF Undoable
  <2> QED
    BY <2>1, <2>2, <1>6 DEF Log
<1> QED
  BY Zenon, <1>1, <1>9, <1>10, <1>11, <1>12, <1>13 DEF EInv

\* Delete.
LEMMA DeleteEInv ==
  ASSUME Counting, EInv, NEW i \in Ids, Delete(i)
  PROVE  EInv'
<1> DEFINE p == fwd[i]  e == Entry("undelete", i, p, None)
<1>0. Shape /\ Tables /\ Versions /\ Counted(seg, tomb) /\ Reversible
  BY Zenon DEF EInv
<1>1. /\ UNCHANGED <<slot, openIdx, clock, txn, stamp>> /\ undo' = Append(undo, e)
      /\ txn = "active" /\ p # None /\ seg' = Buried(seg, p) /\ tomb' = tomb \cup {p}
      /\ fwd' = [fwd EXCEPT ![i] = None]
  BY Zenon DEF Delete, CanWrite
<1>2. /\ p \in Positions /\ InRange(p) /\ p \notin tomb /\ slot[p].id = i
  BY Zenon, <1>0, <1>1, Mapped
<1>3. /\ e \in Entries /\ e.op = "undelete" /\ e.id = i /\ e.pos = p
  BY Zenon, <1>2 DEF Entry, Entries
<1>4. seg \in Seq(Segments) /\ UsedIn(seg, p)
  BY Zenon, <1>0, <1>2, RangeUsed DEF Shape
<1>5. /\ Differ(seg, seg', Dir(p)) /\ \A d \in 1..Len(seg) : seg'[d].next = seg[d].next
      /\ Counted(seg', tomb')
  BY ZenonT(40), <1>0, <1>1, <1>2, <1>4, BuriedIs
<1>6. seg' \in Seq(Segments) /\ Len(seg') = Len(seg) /\ Len(seg) \in Nat
  BY <1>4, <1>5 DEF Differ
<1>7. \A q \in Positions : InRange(q)' <=> InRange(q)
  BY Zenon, <1>5, <1>6, SameUsed, RangeUsed, RangeUsedNext
<1> HIDE DEF e
<1>8. /\ undo' \in Seq(Entries) /\ Len(undo') = Len(undo) + 1 /\ Len(undo) \in Nat
      /\ \A n \in 1..Len(undo) : undo'[n] = undo[n]
      /\ undo'[Len(undo) + 1] = e
      /\ Appended' = Appended /\ (ReplacedSome' <=> ReplacedSome)
  BY Zenon, <1>0, <1>1, <1>3, LogPush DEF Shape
<1>9. /\ fwd' \in [Ids -> Positions \cup {None}]
      /\ \A j \in Ids : fwd'[j] = IF j = i THEN None ELSE fwd[j]
  BY Zenon, <1>0, <1>1 DEF Shape
<1>10. Shape'
  BY Zenon, <1>0, <1>1, <1>2, <1>6, <1>8, <1>9 DEF Shape
<1>11. Tables'
  BY <1>0, <1>1, <1>2, <1>7, <1>9 DEF Tables, Shape
<1>12. Versions'
  BY Zenon, <1>0, <1>1, <1>7, <1>8 DEF Versions
<1>13. Reversible'
  <2> SUFFICES ASSUME ~ReplacedSome', NEW n \in Log' PROVE Undoable(n)'
    BY Zenon DEF Reversible
  <2>1. CASE n = Len(undo) + 1
    BY <2>1, <1>1, <1>2, <1>3, <1>7, <1>8, <1>9 DEF Undoable
  <2>2. CASE n \in Log
    <3> DEFINE u == undo[n]
    <3>1. n \in 1..Len(undo) /\ Undoable(n) /\ u \in Entries /\ undo'[n] = u
      BY <2>2, <1>0, <1>8 DEF Reversible, Log, Shape
    <3>2. u.pos \in Positions /\ u.id \in Ids
      BY Zenon, <3>1 DEF Entries
    <3>3. u.op = "append" =>
            /\ \A m \in 1..(n - 1) : undo'[m].pos # u.pos
            /\ \A q \in Positions : Dir(q) = Dir(u.pos) /\ u.pos < q /\ InRange(q)' =>
                 \E m \in (n + 1)..Len(undo') : undo'[m].op = "append" /\ undo'[m].pos = q
      BY <3>1, <1>7, <1>8 DEF Undoable
    <3>4. u.op \in {"append", "meta"} =>
            \/ fwd'[u.id] = u.pos
            \/ \E m \in (n + 1)..Len(undo') : undo'[m].op = "undelete" /\ undo'[m].pos = u.pos
      BY <3>1, <3>2, <1>3, <1>8, <1>9 DEF Undoable
    <3>5. u.op = "undelete" =>
            /\ u.pos \in tomb'
            /\ \A m \in (n + 1)..Len(undo') : undo'[m].pos # u.pos
            /\ fwd'[u.id] # None =>
                 \E k \in (n + 1)..Len(undo') : undo'[k].op = "append" /\ undo'[k].id = u.id
            /\ \A m \in (n + 1)..Len(undo') : undo'[m].id = u.id =>
                 \E k \in (n + 1)..m : undo'[k].op = "append" /\ undo'[k].id = u.id
      <4> SUFFICES ASSUME u.op = "undelete"
                   PROVE  /\ u.pos \in tomb'
                          /\ \A m \in (n + 1)..Len(undo') : undo'[m].pos # u.pos
                          /\ fwd'[u.id] # None =>
                               \E k \in (n + 1)..Len(undo') : undo'[k].op = "append" /\ undo'[k].id = u.id
                          /\ \A m \in (n + 1)..Len(undo') : undo'[m].id = u.id =>
                               \E k \in (n + 1)..m : undo'[k].op = "append" /\ undo'[k].id = u.id
        BY Zenon
      <4>1. /\ u.pos \in tomb
            /\ \A m \in (n + 1)..Len(undo) : undo[m].pos # u.pos
            /\ fwd[u.id] # None =>
                 \E k \in (n + 1)..Len(undo) : undo[k].op = "append" /\ undo[k].id = u.id
            /\ \A m \in (n + 1)..Len(undo) : undo[m].id = u.id =>
                 \E k \in (n + 1)..m : undo[k].op = "append" /\ undo[k].id = u.id
        BY Zenon, <3>1 DEF Undoable
      <4>2. u.pos \in tomb' /\ \A m \in (n + 1)..Len(undo') : undo'[m].pos # u.pos
        BY <4>1, <3>1, <1>1, <1>2, <1>3, <1>8
      <4>3. fwd'[u.id] # None =>
              \E k \in (n + 1)..Len(undo') : undo'[k].op = "append" /\ undo'[k].id = u.id
        BY <4>1, <3>1, <3>2, <1>8, <1>9
      <4>4. \A m \in (n + 1)..Len(undo') : undo'[m].id = u.id =>
              \E k \in (n + 1)..m : undo'[k].op = "append" /\ undo'[k].id = u.id
        BY SMTT(40), <4>1, <3>1, <1>1, <1>3, <1>8
      <4> QED
        BY Zenon, <4>2, <4>3, <4>4
    <3> QED
      BY SMTT(40), <3>1, <3>2, <3>3, <3>4, <3>5, <1>1, <1>7 DEF Undoable
  <2> QED
    BY <2>1, <2>2, <1>8 DEF Log
<1> QED
  BY Zenon, <1>1, <1>5, <1>10, <1>11, <1>12, <1>13 DEF EInv

\* A pushed slot keeps the tables exact, whether its id was free or its old
\* slot has just been tombstoned.
LEMMA PushTables ==
  ASSUME EInv, NEW i \in Ids, NEW v \in Vals, NEW s, NEW t, NEW u, NEW p \in Positions,
         Pushed(i, v, s, t, u, p),
         \A q \in Positions : UsedIn(s, q) <=> InRange(q),
         \/ fwd[i] = None /\ t = tomb
         \/ fwd[i] # None /\ t = tomb \cup {fwd[i]}
  PROVE  /\ slot' \in [Positions -> Slots] /\ fwd' \in [Ids -> Positions \cup {None}]
         /\ tomb' \subseteq Positions /\ stamp' \subseteq Positions
         /\ \A q \in Positions : q # p => slot'[q] = slot[q]
         /\ slot'[p].id = i /\ slot'[p].vec = v /\ slot'[p].meta = v /\ slot'[p].ver = 0
         /\ \A j \in Ids : fwd'[j] = IF j = i THEN p ELSE fwd[j]
         /\ \A q \in Positions : InRange(q)' <=> InRange(q) \/ q = p
         /\ ~InRange(p)
         /\ Tables'
<1> DEFINE x == [id |-> i, vec |-> v, meta |-> v, ver |-> 0]
<1>0. Shape /\ Tables
  BY Zenon DEF EInv
<1>1. /\ \A q \in Positions : UsedIn(seg', q) <=> UsedIn(s, q) \/ q = p
      /\ ~UsedIn(s, p) /\ p \notin t
      /\ slot' = [slot EXCEPT ![p] = x] /\ tomb' = t /\ fwd' = [fwd EXCEPT ![i] = p]
      /\ stamp' = stamp \cup {p}
  BY Zenon DEF Pushed
<1>2. x \in Slots /\ x.id = i /\ x.vec = v /\ x.meta = v /\ x.ver = 0
  BY Zenon DEF Slots
<1> HIDE DEF x
<1>3. /\ slot' \in [Positions -> Slots]
      /\ \A q \in Positions : slot'[q] = IF q = p THEN x ELSE slot[q]
  BY Zenon, <1>0, <1>1, <1>2 DEF Shape
<1>4. /\ fwd' \in [Ids -> Positions \cup {None}]
      /\ \A j \in Ids : fwd'[j] = IF j = i THEN p ELSE fwd[j]
  BY Zenon, <1>0, <1>1 DEF Shape
<1>5. \A q \in Positions : InRange(q)' <=> InRange(q) \/ q = p
  BY Zenon, <1>1, RangeUsedNext
<1>6. ~InRange(p)
  BY Zenon, <1>1
<1>7. tomb' \subseteq Positions /\ stamp' \subseteq Positions
  BY Zenon, <1>0, <1>1 DEF Shape
<1>8. \A j \in Ids : fwd[j] # None => fwd[j] \in Positions /\ InRange(fwd[j])
                                      /\ fwd[j] \notin tomb /\ slot[fwd[j]].id = j
  BY <1>0 DEF Shape, Tables
<1>9. Tables'
  <2>1. \A q \in Positions : InRange(q)' =>
          slot'[q].id \in Ids /\ slot'[q].vec \in Vals /\ slot'[q].meta \in Vals
    BY <1>0, <1>2, <1>3, <1>5 DEF Tables
  <2>2. \A q \in tomb' : InRange(q)'
    BY <1>0, <1>1, <1>5, <1>7, <1>8 DEF Tables
  <2>3. ASSUME NEW q \in Positions, InRange(q)', q \notin tomb'
        PROVE  fwd'[slot'[q].id] = q
    <3>1. CASE q = p
      BY Zenon, <3>1, <1>2, <1>3, <1>4
    <3>2. CASE q # p
      <4>1. InRange(q) /\ q \notin tomb /\ slot'[q] = slot[q] /\ q # fwd[i]
        BY Zenon, <3>2, <2>3, <1>1, <1>3, <1>5, NoneApart
      <4>2. slot[q].id \in Ids /\ fwd[slot[q].id] = q
        BY Zenon, <4>1, <1>0 DEF Tables
      <4> QED
        BY Zenon, <4>1, <4>2, <1>4
    <3> QED
      BY Zenon, <3>1, <3>2
  <2>4. ASSUME NEW j \in Ids, fwd'[j] # None
        PROVE  InRange(fwd[j])' /\ fwd'[j] \notin tomb' /\ slot'[fwd'[j]].id = j
    <3>0. \A q : q = fwd'[j] => (InRange(fwd[j])' <=> InRange(q)')
      BY Zenon DEF InRange
    <3>1. CASE j = i
      BY Zenon, <3>0, <3>1, <1>1, <1>2, <1>3, <1>4, <1>5
    <3>2. CASE j # i
      <4>1. fwd'[j] = fwd[j] /\ fwd[j] # None
        BY Zenon, <3>2, <2>4, <1>4
      <4>2. fwd[j] \in Positions /\ InRange(fwd[j]) /\ fwd[j] \notin tomb /\ slot[fwd[j]].id = j
        BY Zenon, <4>1, <1>8
      <4>3. fwd[j] # fwd[i]
        BY Zenon, <4>1, <4>2, <3>2, <1>8
      <4>4. fwd[j] # p
        BY Zenon, <4>2, <1>6
      <4> QED
        BY <3>0, <4>1, <4>2, <4>3, <4>4, <1>1, <1>3, <1>5
    <3> QED
      BY Zenon, <3>1, <3>2
  <2> QED
    BY Zenon, <2>1, <2>2, <2>3, <2>4 DEF Tables
<1> QED
  BY Zenon, <1>2, <1>3, <1>4, <1>5, <1>6, <1>7, <1>9

\* Insert.
LEMMA InsertEInv ==
  ASSUME Counting, EInv, NEW i \in Ids, NEW v \in Vals, Insert(i, v)
  PROVE  EInv'
<1>0. Shape /\ Tables /\ Versions /\ Counted(seg, tomb) /\ Reversible
  BY Zenon DEF EInv
<1>1. /\ UNCHANGED <<clock, txn>> /\ AppendPoint(i, v, seg, tomb, undo)
      /\ txn = "active" /\ fwd[i] = None
  BY Zenon DEF Insert, CanWrite
<1>2. /\ seg \in Seq(Segments) /\ Len(seg) <= MaxDir /\ openIdx \in 0..Len(seg)
      /\ \A q \in tomb : q \in Positions /\ UsedIn(seg, q)
  BY Zenon, <1>0, RangeUsed DEF Shape, Tables
<1>3. PICK p \in Positions : Pushed(i, v, seg, tomb, undo, p)
  BY Zenon, <1>0, <1>1, <1>2, AppendIs
<1> DEFINE e == [op |-> "append", id |-> i, pos |-> p, prev |-> None]
<1>4. /\ slot' \in [Positions -> Slots] /\ fwd' \in [Ids -> Positions \cup {None}]
      /\ tomb' \subseteq Positions /\ stamp' \subseteq Positions
      /\ \A q \in Positions : q # p => slot'[q] = slot[q]
      /\ slot'[p].id = i /\ slot'[p].ver = 0
      /\ \A j \in Ids : fwd'[j] = IF j = i THEN p ELSE fwd[j]
      /\ \A q \in Positions : InRange(q)' <=> InRange(q) \/ q = p
      /\ ~InRange(p)
      /\ Tables'
  BY <1>1, <1>3, PushTables, RangeUsed
<1>5. /\ seg' \in Seq(Segments) /\ Len(seg') <= MaxDir /\ openIdx' \in 0..Len(seg')
      /\ \A q \in Positions : Dir(q) = Dir(p) /\ p < q => ~InRange(q)'
      /\ Counted(seg', tomb') /\ stamp' = stamp \cup {p} /\ tomb' = tomb
      /\ undo' = Append(undo, e)
  BY Zenon, <1>3, RangeUsedNext DEF Pushed
<1>6. e \in Entries /\ e.op = "append" /\ e.id = i /\ e.pos = p
  BY Zenon DEF Entries
<1> HIDE DEF e
<1>7. /\ undo' \in Seq(Entries) /\ Len(undo') = Len(undo) + 1 /\ Len(undo) \in Nat
      /\ \A n \in 1..Len(undo) : undo'[n] = undo[n]
      /\ undo'[Len(undo) + 1] = e
      /\ Appended' = Appended \cup {p} /\ (ReplacedSome' <=> ReplacedSome)
  BY Zenon, <1>0, <1>5, <1>6, LogPush DEF Shape
<1>8. Shape'
  BY Zenon, <1>0, <1>1, <1>4, <1>5, <1>7 DEF Shape
<1>9. Versions'
  BY Zenon, <1>0, <1>1, <1>4, <1>5, <1>7 DEF Versions
<1>10. Reversible'
  <2> SUFFICES ASSUME ~ReplacedSome', NEW n \in Log' PROVE Undoable(n)'
    BY Zenon DEF Reversible
  <2>0. \A m \in 1..Len(undo) : Undoable(m) /\ undo[m] \in Entries
    BY <1>0, <1>7 DEF Reversible, Log, Shape
  <2>1. CASE n = Len(undo) + 1
    <3>1. \A m \in 1..(n - 1) : undo'[m].pos # p
      BY <2>0, <2>1, <1>4, <1>7 DEF Undoable
    <3>2. ~(\E m \in (n + 1)..Len(undo') : TRUE)
      BY <2>1, <1>7
    <3> QED
      BY <2>1, <3>1, <3>2, <1>4, <1>5, <1>6, <1>7 DEF Undoable
  <2>2. CASE n \in Log
    <3> DEFINE u == undo[n]
    <3>1. n \in 1..Len(undo) /\ Undoable(n) /\ u \in Entries /\ undo'[n] = u
      BY Zenon, <2>0, <2>2, <1>7 DEF Log
    <3>2. u.pos \in Positions /\ u.id \in Ids /\ InRange(u.pos) /\ u.pos # p
          /\ slot'[u.pos].id = u.id
      BY Zenon, <3>1, <1>4 DEF Entries, Undoable
    <3>3. ASSUME u.op = "append" PROVE \A m \in 1..(n - 1) : undo'[m].pos # u.pos
      BY <3>1, <3>3, <1>7 DEF Undoable
    <3>4. ASSUME u.op = "append", NEW q \in Positions, Dir(q) = Dir(u.pos), u.pos < q,
                 InRange(q)'
          PROVE  \E m \in (n + 1)..Len(undo') : undo'[m].op = "append" /\ undo'[m].pos = q
      <4>1. CASE q = p
        BY <4>1, <3>1, <1>6, <1>7
      <4>2. CASE q # p
        BY SMTT(40), <4>2, <3>1, <3>4, <1>4, <1>7 DEF Undoable
      <4> QED
        BY SMTT(40), <4>1, <4>2
    <3>5. u.op \in {"append", "meta"} =>
            \/ fwd'[u.id] = u.pos
            \/ \E m \in (n + 1)..Len(undo') : undo'[m].op = "undelete" /\ undo'[m].pos = u.pos
      BY <3>1, <3>2, <1>1, <1>4, <1>7, NoneApart DEF Undoable
    <3>6. ASSUME u.op = "undelete"
          PROVE  /\ u.pos \in tomb'
                 /\ \A m \in (n + 1)..Len(undo') : undo'[m].pos # u.pos
                 /\ fwd'[u.id] # None =>
                      \E k \in (n + 1)..Len(undo') : undo'[k].op = "append" /\ undo'[k].id = u.id
                 /\ \A m \in (n + 1)..Len(undo') : undo'[m].id = u.id =>
                      \E k \in (n + 1)..m : undo'[k].op = "append" /\ undo'[k].id = u.id
      <4>1. /\ u.pos \in tomb
            /\ \A m \in (n + 1)..Len(undo) : undo[m].pos # u.pos
            /\ fwd[u.id] # None =>
                 \E k \in (n + 1)..Len(undo) : undo[k].op = "append" /\ undo[k].id = u.id
            /\ \A m \in (n + 1)..Len(undo) : undo[m].id = u.id =>
                 \E k \in (n + 1)..m : undo[k].op = "append" /\ undo[k].id = u.id
        BY Zenon, <3>1, <3>6 DEF Undoable
      <4>2. u.pos \in tomb' /\ \A m \in (n + 1)..Len(undo') : undo'[m].pos # u.pos
        BY SMTT(40), <4>1, <3>1, <3>2, <1>5, <1>6, <1>7
      <4>3. fwd'[u.id] # None =>
              \E k \in (n + 1)..Len(undo') : undo'[k].op = "append" /\ undo'[k].id = u.id
        BY <4>1, <3>1, <3>2, <1>4, <1>6, <1>7
      <4>4. \A m \in (n + 1)..Len(undo') : undo'[m].id = u.id =>
              \E k \in (n + 1)..m : undo'[k].op = "append" /\ undo'[k].id = u.id
        BY SMTT(40), <4>1, <3>1, <1>6, <1>7
      <4> QED
        BY Zenon, <4>2, <4>3, <4>4
    <3>7. u.op = "meta" => u.prev \in Vals
      BY Zenon, <3>1 DEF Undoable
    <3>8. InRange(undo[n].pos)'
      BY Zenon, <3>1, <3>2, <1>4 DEF InRange
    <3> QED
      BY SMTT(40), <3>1, <3>2, <3>3, <3>4, <3>5, <3>6, <3>7, <3>8 DEF Undoable
  <2> QED
    BY <2>1, <2>2, <1>7 DEF Log
<1> QED
  BY Zenon, <1>1, <1>4, <1>5, <1>8, <1>9, <1>10 DEF EInv

\* The directory of an Upsert or a Delete, after its tombstone.
LEMMA Buries ==
  ASSUME Counting, EInv, NEW i \in Ids, fwd[i] # None, NEW s, s = Buried(seg, fwd[i]),
         NEW t, t = tomb \cup {fwd[i]}
  PROVE  /\ s \in Seq(Segments) /\ Len(s) = Len(seg) /\ Len(s) <= MaxDir
         /\ openIdx \in 0..Len(s)
         /\ Counted(s, t)
         /\ \A q \in Positions : UsedIn(s, q) <=> InRange(q)
         /\ \A q \in t : q \in Positions /\ UsedIn(s, q)
<1>1. Shape /\ Tables /\ Counted(seg, tomb)
  BY Zenon DEF EInv
<1>2. fwd[i] \in Positions /\ UsedIn(seg, fwd[i]) /\ fwd[i] \notin tomb
  BY Zenon, Mapped, RangeUsed
<1>3. seg \in Seq(Segments) /\ Len(seg) \in Nat
  BY <1>1 DEF Shape
<1>4. Differ(seg, s, Dir(fwd[i])) /\ Counted(s, t)
      /\ \A d \in 1..Len(seg) : s[d].next = seg[d].next
  BY ZenonT(40), <1>1, <1>2, <1>3, BuriedIs
<1>5. s \in Seq(Segments) /\ Len(s) = Len(seg)
  BY Zenon, <1>4 DEF Differ
<1>6. \A q \in Positions : UsedIn(s, q) <=> InRange(q)
  BY Zenon, <1>3, <1>4, <1>5, SameUsed, RangeUsed
<1> QED
  BY <1>1, <1>2, <1>4, <1>5, <1>6, RangeUsed DEF Shape, Tables

\* Upsert of a live id: two entries on the log.
LEMMA LogPushTwo ==
  ASSUME NEW e \in Entries, NEW f \in Entries, e.op = "untomb", f.op = "append",
         undo \in Seq(Entries), undo' = Append(Append(undo, e), f)
  PROVE  undo' \in Seq(Entries) /\ Appended' = Appended \cup {f.pos} /\ ReplacedSome'
<1> DEFINE l == Len(undo)
<1>1. /\ undo' \in Seq(Entries) /\ Len(undo') = l + 2 /\ l \in Nat
      /\ \A n \in 1..l : undo'[n] = undo[n]
      /\ undo'[l + 1] = e /\ undo'[l + 2] = f
  OBVIOUS
<1> HIDE DEF l
<1>2. ReplacedSome'
  BY <1>1 DEF ReplacedSome
<1>3. \A n \in Log' : n \in 1..l \/ n = l + 1 \/ n = l + 2
  BY <1>1 DEF Log
<1>4. \A n \in 1..l : n \in Log /\ n \in Log'
  BY <1>1 DEF Log, l
<1>5. Appended' \subseteq Appended \cup {f.pos}
  <2> SUFFICES ASSUME NEW n \in Log', undo'[n].op = "append"
               PROVE  undo'[n].pos \in Appended \cup {f.pos}
    BY ZenonT(40) DEF Appended
  <2> QED
    BY Zenon, <1>1, <1>3, <1>4 DEF Appended
<1>6. Appended \cup {f.pos} \subseteq Appended'
  <2>1. l + 2 \in Log'
    BY <1>1 DEF Log
  <2>2. f.pos \in Appended'
    BY Zenon, <2>1, <1>1 DEF Appended
  <2>3. ASSUME NEW n \in Log, undo[n].op = "append" PROVE undo[n].pos \in Appended'
    <3>1. n \in 1..l
      BY Zenon DEF Log, l
    <3> QED
      BY Zenon, <2>3, <3>1, <1>1, <1>4 DEF Appended
  <2> QED
    BY ZenonT(40), <2>2, <2>3 DEF Appended
<1> QED
  BY Zenon, <1>1, <1>2, <1>5, <1>6

\* Upsert of a live id.
LEMMA ReplaceEInv ==
  ASSUME Counting, EInv, NEW i \in Ids, NEW v \in Vals, Replace(i, v)
  PROVE  EInv' /\ ReplacedSome'
<1> DEFINE b == Buried(seg, fwd[i])  t == tomb \cup {fwd[i]}
           e == Entry("untomb", i, fwd[i], None)  w == Append(undo, e)
<1>0. Shape /\ Tables /\ Versions
  BY Zenon DEF EInv
<1>1. /\ UNCHANGED <<clock, txn>> /\ AppendPoint(i, v, b, t, w)
      /\ txn = "active" /\ fwd[i] # None
  BY Zenon DEF Replace, CanWrite
<1>2. /\ b \in Seq(Segments) /\ Len(b) <= MaxDir /\ openIdx \in 0..Len(b) /\ Counted(b, t)
      /\ \A q \in Positions : UsedIn(b, q) <=> InRange(q)
      /\ \A q \in t : q \in Positions /\ UsedIn(b, q)
  BY ZenonT(40), <1>1, Buries
<1>3. PICK p \in Positions : Pushed(i, v, b, t, w, p)
  <2> HIDE DEF b, t, w
  <2> QED
    BY Zenon, <1>1, <1>2, AppendIs
<1> DEFINE f == [op |-> "append", id |-> i, pos |-> p, prev |-> None]
<1>4. /\ slot' \in [Positions -> Slots] /\ fwd' \in [Ids -> Positions \cup {None}]
      /\ tomb' \subseteq Positions /\ stamp' \subseteq Positions
      /\ \A q \in Positions : q # p => slot'[q] = slot[q]
      /\ slot'[p].ver = 0
      /\ \A q \in Positions : InRange(q)' <=> InRange(q) \/ q = p
      /\ Tables'
  <2> HIDE DEF b, w
  <2> QED
    BY <1>1, <1>2, <1>3, PushTables
<1>5. /\ seg' \in Seq(Segments) /\ Len(seg') <= MaxDir /\ openIdx' \in 0..Len(seg')
      /\ Counted(seg', tomb') /\ stamp' = stamp \cup {p}
      /\ undo' = Append(Append(undo, e), f)
  BY Zenon, <1>3 DEF Pushed
<1>6. e \in Entries /\ e.op = "untomb" /\ f \in Entries /\ f.op = "append" /\ f.pos = p
  BY Zenon, <1>1, Mapped DEF Entries, Entry
<1>7. undo' \in Seq(Entries) /\ Appended' = Appended \cup {p} /\ ReplacedSome'
  <2> HIDE DEF e, f
  <2> QED
    BY ZenonT(40), <1>0, <1>5, <1>6, LogPushTwo DEF Shape
<1>8. Shape'
  BY Zenon, <1>0, <1>1, <1>4, <1>5, <1>7 DEF Shape
<1>9. Versions'
  BY Zenon, <1>0, <1>1, <1>4, <1>5, <1>7 DEF Versions
<1> QED
  BY Zenon, <1>1, <1>4, <1>5, <1>7, <1>8, <1>9 DEF EInv, Reversible

\* Upsert of a live id whose row is refused.
LEMMA RefusedEInv ==
  ASSUME Counting, EInv, NEW i \in Ids, ReplaceRefused(i)
  PROVE  EInv' /\ ReplacedSome'
<1> DEFINE b == Buried(seg, fwd[i])  t == tomb \cup {fwd[i]}
           e == Entry("untomb", i, fwd[i], None)
<1>0. Shape /\ Tables /\ Versions
  BY Zenon DEF EInv
<1>1. /\ UNCHANGED <<slot, clock, txn, stamp>> /\ txn = "active" /\ fwd[i] # None
      /\ seg' = Opened(b) /\ Len(seg') <= MaxDir /\ openIdx' = OpenedIdx(b)
      /\ tomb' = t /\ fwd' = [fwd EXCEPT ![i] = None] /\ undo' = Append(undo, e)
  BY Zenon DEF ReplaceRefused, CanWrite
<1>2. /\ b \in Seq(Segments) /\ openIdx \in 0..Len(b) /\ Counted(b, t)
      /\ \A q \in Positions : UsedIn(b, q) <=> InRange(q)
      /\ \A q \in t : q \in Positions /\ UsedIn(b, q)
  BY ZenonT(40), <1>1, Buries
<1>3. /\ seg' \in Seq(Segments) /\ openIdx' \in 1..Len(seg')
      /\ \A q \in Positions : UsedIn(seg', q) <=> UsedIn(b, q)
      /\ Counted(seg', tomb')
  <2> HIDE DEF b, t
  <2> QED
    BY Zenon, <1>1, <1>2, OpenedIs
<1>4. \A q \in Positions : InRange(q)' <=> InRange(q)
  BY Zenon, <1>2, <1>3, RangeUsedNext
<1>5. /\ fwd' \in [Ids -> Positions \cup {None}]
      /\ \A j \in Ids : fwd'[j] = IF j = i THEN None ELSE fwd[j]
  BY Zenon, <1>0, <1>1 DEF Shape
<1>6. e \in Entries /\ e.op = "untomb"
  BY Zenon, <1>1, Mapped DEF Entries, Entry
<1>7. undo' \in Seq(Entries) /\ Appended' = Appended /\ ReplacedSome'
  <2> HIDE DEF e
  <2> QED
    BY Zenon, <1>0, <1>1, <1>6, LogPush DEF Shape
<1>8. Shape'
  BY <1>0, <1>1, <1>2, <1>3, <1>5, <1>7 DEF Shape
<1>9. Tables'
  <2>1. \A j \in Ids : fwd[j] # None => fwd[j] \in Positions /\ InRange(fwd[j])
                                        /\ fwd[j] \notin tomb /\ slot[fwd[j]].id = j
    BY Zenon, Mapped
  <2> QED
    BY <2>1, <1>0, <1>1, <1>2, <1>4, <1>5 DEF Tables, Shape
<1>10. Versions'
  BY Zenon, <1>0, <1>1, <1>4, <1>7 DEF Versions
<1> QED
  BY Zenon, <1>1, <1>3, <1>7, <1>8, <1>9, <1>10 DEF EInv, Reversible

-----------------------------------------------------------------------------
(* Rollback.                                                               *)

\* The last entry of the log of a rollback finds what it undoes.
LEMMA LastIs ==
  ASSUME EInv, UndoLast, NEW n, n = Len(undo), NEW u, u = undo[n]
  PROVE  /\ n \in Nat \ {0} /\ u \in Entries /\ u.pos \in Positions /\ u.id \in Ids
         /\ u.op \in {"append", "undelete", "meta"}
         /\ InRange(u.pos) /\ slot[u.pos].id = u.id
         /\ u.op = "append" =>
              /\ fwd[u.id] = u.pos /\ \A m \in 1..(n - 1) : undo[m].pos # u.pos
              /\ \A q \in Positions : Dir(q) = Dir(u.pos) /\ u.pos < q => ~InRange(q)
         /\ u.op = "undelete" => u.pos \in tomb /\ fwd[u.id] = None
         /\ u.op = "meta" => fwd[u.id] = u.pos /\ u.prev \in Vals
         /\ undo' \in Seq(Entries) /\ Len(undo') = n - 1 /\ Log' = 1..(n - 1)
         /\ \A m \in 1..(n - 1) : /\ undo'[m] = undo[m] /\ undo[m] \in Entries
                                  /\ Undoable(m)
         /\ Appended = IF u.op = "append" THEN Appended' \cup {u.pos} ELSE Appended'
         /\ ~ReplacedSome'
         /\ txn = "aborting" /\ UNCHANGED <<openIdx, clock, txn, stamp>>
<1>0. Shape /\ Reversible /\ txn = "aborting" /\ ~ReplacedSome /\ undo # <<>>
      /\ undo' = SubSeq(undo, 1, Len(undo) - 1) /\ UNCHANGED <<openIdx, clock, txn, stamp>>
  BY Zenon DEF EInv, UndoLast
<1>1. undo \in Seq(Entries) /\ \A m \in Log : Undoable(m)
  BY Zenon, <1>0 DEF Shape, Reversible
<1>2. /\ u \in Entries /\ undo' \in Seq(Entries) /\ Len(undo') = n - 1
      /\ n \in Nat \ {0}
      /\ \A m \in 1..Len(undo') : undo'[m] = undo[m]
      /\ Appended = IF u.op = "append" THEN Appended' \cup {u.pos} ELSE Appended'
      /\ ~ReplacedSome'
  BY Zenon, <1>0, <1>1, LogPop
<1>3. n \in Log /\ Log' = 1..(n - 1) /\ \A m \in 1..(n - 1) : m \in Log
  BY <1>2 DEF Log
<1>4. Undoable(n) /\ u.op # "untomb"
  BY Zenon, <1>0, <1>1, <1>3 DEF ReplacedSome, Log
<1>5. u.op \in {"append", "undelete", "untomb", "meta"} /\ u.pos \in Positions /\ u.id \in Ids
  BY Zenon, <1>2 DEF Entries
<1>6. ~(\E m \in (n + 1)..Len(undo) : TRUE)
  BY <1>2
<1>7. \A m \in 1..(n - 1) : /\ undo'[m] = undo[m] /\ undo[m] \in Entries /\ Undoable(m)
  BY <1>1, <1>2, <1>3
<1>8. /\ InRange(u.pos) /\ slot[u.pos].id = u.id
      /\ u.op = "append" =>
           /\ fwd[u.id] = u.pos /\ \A m \in 1..(n - 1) : undo[m].pos # u.pos
           /\ \A q \in Positions : Dir(q) = Dir(u.pos) /\ u.pos < q => ~InRange(q)
      /\ u.op = "undelete" => u.pos \in tomb /\ fwd[u.id] = None
      /\ u.op = "meta" => fwd[u.id] = u.pos /\ u.prev \in Vals
  BY Zenon, <1>4, <1>6 DEF Undoable
<1> QED
  BY Zenon, <1>0, <1>2, <1>3, <1>4, <1>5, <1>7, <1>8

\* An entry keeps what it needs when what comes after it is undone.
LEMMA UndoableStill ==
  ASSUME NEW m \in Nat \ {0}, NEW n \in Nat, m < n, n = Len(undo), Len(undo') = n - 1,
         \A k \in 1..(n - 1) : undo'[k] = undo[k],
         NEW w, w = undo[m], NEW u, u = undo[n], Undoable(m),
         w.pos \in Positions, InRange(undo[m].pos)', slot'[w.pos].id = w.id,
         \A q \in Positions : InRange(q)' => InRange(q),
         u.op = "append" => ~InRange(u.pos)',
         u.op # "untomb",
         fwd[w.id] = w.pos => fwd'[w.id] = w.pos,
         u.op = "undelete" /\ u.pos = w.pos => fwd'[w.id] = w.pos,
         w.op = "undelete" => w.pos \in tomb',
         w.op = "undelete" /\ fwd'[w.id] # None =>
           \/ fwd[w.id] # None /\ (u.op = "append" => u.id # w.id)
           \/ u.op # "append" /\ u.id = w.id
  PROVE  Undoable(m)'
<1>1. undo'[m] = w /\ m \in 1..(n - 1)
  OBVIOUS
<1>2. \A k \in (m + 1)..Len(undo) : k = n \/ (k \in (m + 1)..Len(undo') /\ undo'[k] = undo[k])
  OBVIOUS
<1>3. w.op = "append" =>
        /\ \A k \in 1..(m - 1) : undo'[k].pos # w.pos
        /\ \A q \in Positions : Dir(q) = Dir(w.pos) /\ w.pos < q /\ InRange(q)' =>
             \E k \in (m + 1)..Len(undo') : undo'[k].op = "append" /\ undo'[k].pos = q
  <2> SUFFICES ASSUME w.op = "append"
               PROVE  /\ \A k \in 1..(m - 1) : undo'[k].pos # w.pos
                      /\ \A q \in Positions : Dir(q) = Dir(w.pos) /\ w.pos < q /\ InRange(q)' =>
                           \E k \in (m + 1)..Len(undo') : undo'[k].op = "append" /\ undo'[k].pos = q
    BY Zenon
  <2>1. \A k \in 1..(m - 1) : undo'[k].pos # w.pos
    BY DEF Undoable
  <2>2. ASSUME NEW q \in Positions, Dir(q) = Dir(w.pos), w.pos < q, InRange(q)'
        PROVE  \E k \in (m + 1)..Len(undo') : undo'[k].op = "append" /\ undo'[k].pos = q
    <3>1. PICK k \in (m + 1)..Len(undo) : undo[k].op = "append" /\ undo[k].pos = q
      BY Zenon, <2>2 DEF Undoable
    <3>2. k # n
      BY Zenon, <2>2, <3>1
    <3> QED
      BY Zenon, <1>2, <3>1, <3>2
  <2> QED
    BY Zenon, <2>1, <2>2
<1>4. w.op \in {"append", "meta"} =>
        \/ fwd'[w.id] = w.pos
        \/ \E k \in (m + 1)..Len(undo') : undo'[k].op = "undelete" /\ undo'[k].pos = w.pos
  BY <1>2 DEF Undoable
<1>5. w.op = "undelete" =>
        /\ w.pos \in tomb'
        /\ \A k \in (m + 1)..Len(undo') : undo'[k].pos # w.pos
        /\ fwd'[w.id] # None =>
             \E k \in (m + 1)..Len(undo') : undo'[k].op = "append" /\ undo'[k].id = w.id
        /\ \A l \in (m + 1)..Len(undo') : undo'[l].id = w.id =>
             \E k \in (m + 1)..l : undo'[k].op = "append" /\ undo'[k].id = w.id
  <2> SUFFICES ASSUME w.op = "undelete"
               PROVE  /\ \A k \in (m + 1)..Len(undo') : undo'[k].pos # w.pos
                      /\ fwd'[w.id] # None =>
                           \E k \in (m + 1)..Len(undo') : undo'[k].op = "append" /\ undo'[k].id = w.id
                      /\ \A l \in (m + 1)..Len(undo') : undo'[l].id = w.id =>
                           \E k \in (m + 1)..l : undo'[k].op = "append" /\ undo'[k].id = w.id
    BY Zenon
  <2>1. /\ \A k \in (m + 1)..Len(undo) : undo[k].pos # w.pos
        /\ fwd[w.id] # None =>
             \E k \in (m + 1)..Len(undo) : undo[k].op = "append" /\ undo[k].id = w.id
        /\ \A l \in (m + 1)..Len(undo) : undo[l].id = w.id =>
             \E k \in (m + 1)..l : undo[k].op = "append" /\ undo[k].id = w.id
    BY Zenon DEF Undoable
  <2>2. \A k \in (m + 1)..Len(undo') : undo'[k].pos # w.pos
    BY <2>1
  <2>3. ASSUME fwd'[w.id] # None
        PROVE  \E k \in (m + 1)..Len(undo') : undo'[k].op = "append" /\ undo'[k].id = w.id
    <3>1. CASE fwd[w.id] # None /\ (u.op = "append" => u.id # w.id)
      BY SMTT(40), <3>1, <2>1, <1>2
    <3>2. CASE u.op # "append" /\ u.id = w.id
      BY <3>2, <2>1, <1>2
    <3> QED
      BY Zenon, <2>3, <3>1, <3>2
  <2>4. ASSUME NEW l \in (m + 1)..Len(undo'), undo'[l].id = w.id
        PROVE  \E k \in (m + 1)..l : undo'[k].op = "append" /\ undo'[k].id = w.id
    <3>1. PICK k \in (m + 1)..l : undo[k].op = "append" /\ undo[k].id = w.id
      BY <2>1, <2>4
    <3> QED
      BY <3>1
  <2> QED
    BY ZenonT(40), <2>2, <2>3, <2>4
<1>6. w.op = "meta" => w.prev \in Vals
  BY Zenon DEF Undoable
<1> QED
  BY <1>1, <1>3, <1>4, <1>5, <1>6 DEF Undoable

\* The undo of appendPoint gives the last slot of a segment back.
LEMMA UndoAppendIs ==
  ASSUME Counting, EInv, UndoLast, NEW u, u = undo[Len(undo)], u.op = "append"
  PROVE  /\ seg' \in Seq(Segments) /\ Len(seg') = Len(seg) /\ Counted(seg', tomb')
         /\ tomb' = tomb /\ slot' = slot
         /\ \A q \in Positions : InRange(q)' <=> InRange(q) /\ q # u.pos
         /\ fwd' \in [Ids -> Positions \cup {None}]
         /\ \A j \in Ids : fwd'[j] = IF j = u.id THEN None ELSE fwd[j]
<1> DEFINE p == u.pos  c == Dir(p)
<1>0. Shape /\ Counted(seg, tomb)
  BY Zenon DEF EInv
<1>1. /\ p \in Positions /\ u.id \in Ids /\ InRange(p) /\ fwd[u.id] = p
      /\ \A q \in Positions : Dir(q) = Dir(p) /\ p < q => ~InRange(q)
  BY Zenon, LastIs
<1>2. /\ fwd' = [fwd EXCEPT ![u.id] = None] /\ tomb' = tomb \ {p} /\ slot' = slot
      /\ seg' = [seg EXCEPT
           ![c].next = IF @ = (p % Capacity) + 1 THEN @ - 1 ELSE @,
           ![c].live = IF @ > 0 THEN @ - 1 ELSE @]
  BY Zenon DEF UndoLast, UndoAppend
<1>3. p \notin tomb /\ tomb' = tomb
  BY <1>1, <1>2, Mapped, NoneApart
<1>4. seg \in Seq(Segments) /\ c \in 1..Len(seg) /\ seg[c] \in Segments /\ Off(p) < seg[c].next
      /\ Len(seg) <= MaxDir
  <2>1. c \in 1..MaxDir
    BY Zenon, <1>1, PosSplit
  <2> QED
    BY <2>1, <1>0, <1>1, CapacityType DEF Shape, InRange, Off
<1>n. seg[c].next \in 0..Capacity /\ seg[c].live \in Nat /\ Off(p) \in 0..(Capacity - 1)
  BY SMTT(40), <1>1, <1>4, PosSplit DEF Segments
<1>5. seg[c].next = Off(p) + 1
  <2> SUFFICES ASSUME seg[c].next # Off(p) + 1 PROVE FALSE
    BY Zenon
  <2> DEFINE o == Off(p) + 1  q == (c - 1) * Capacity + o
  <2>1. Off(p) \in 0..(Capacity - 1) /\ p = (c - 1) * Capacity + Off(p) /\ c \in 1..MaxDir
    BY Zenon, <1>1, PosSplit
  <2>2. o \in 0..(Capacity - 1) /\ o < seg[c].next /\ Off(p) < o
    <3> HIDE DEF c
    <3> QED
      BY <1>4, <1>n, CapacityType
  <2>3. q \in Positions /\ Dir(q) = c /\ Off(q) = o
    <3> HIDE DEF o, c
    <3> QED
      BY Zenon, <2>1, <2>2, PosAt
  <2> HIDE DEF q
  <2>4. p < q
    BY <2>2, <2>3, <1>1, PosOrder
  <2>5. InRange(q)
    BY <2>2, <2>3, <1>4 DEF InRange, Off
  <2> QED
    BY Zenon, <2>3, <2>4, <2>5, <1>1
<1> DEFINE a == IF seg[c].next = (p % Capacity) + 1 THEN seg[c].next - 1 ELSE seg[c].next
           l == IF seg[c].live > 0 THEN seg[c].live - 1 ELSE seg[c].live
           x == [seg[c] EXCEPT !.next = a, !.live = l]
<1>6. seg' = [seg EXCEPT ![c] = x]
  BY ZenonT(40), <1>2, <1>4
<1>7. a = Off(p) /\ a \in 0..Capacity /\ l \in Nat
  <2>1. p % Capacity = Off(p)
    BY Zenon DEF Off
  <2> HIDE DEF c, p
  <2> QED
    BY <2>1, <1>n, <1>5, CapacityType
<1> HIDE DEF a, c
<1>8. /\ x \in Segments /\ x.next = a /\ x.live = l /\ x.dead = seg[c].dead
  <2> HIDE DEF l
  <2> QED
    BY ZenonT(40), <1>4, <1>7 DEF Segments
<1> HIDE DEF x
<1>9. /\ Differ(seg, seg', c) /\ seg'[c] = x
  BY <1>4, <1>6, <1>8 DEF Differ
<1>10. seg' \in Seq(Segments) /\ Len(seg') = Len(seg)
  BY Zenon, <1>9 DEF Differ
<1>11. Differ(seg', seg, c)
  BY Zenon, <1>4, <1>9 DEF Differ
<1>12. /\ \A q \in Positions : UsedIn(seg, q) <=> UsedIn(seg', q) \/ q = p
       /\ ~UsedIn(seg', p)
  BY SMTT(40), <1>1, <1>4, <1>5, <1>7, <1>8, <1>9, <1>10, <1>11, PushUsed DEF c
<1>13. Counted(seg', tomb)
  BY SMTT(40), <1>0, <1>1, <1>3, <1>4, <1>5, <1>7, <1>8, <1>9, PopCounts DEF c, l
<1>14. \A q \in Positions : InRange(q)' <=> InRange(q) /\ q # p
  BY SMTT(40), <1>12, RangeUsed, RangeUsedNext
<1>15. /\ fwd' \in [Ids -> Positions \cup {None}]
       /\ \A j \in Ids : fwd'[j] = IF j = u.id THEN None ELSE fwd[j]
  BY Zenon, <1>0, <1>1, <1>2 DEF Shape
<1> QED
  BY ZenonT(40), <1>2, <1>3, <1>10, <1>13, <1>14, <1>15

\* The undo of appendPoint.
LEMMA UndoAppendEInv ==
  ASSUME Counting, EInv, UndoLast, undo[Len(undo)].op = "append"
  PROVE  EInv'
<1>1. PICK n, u : n = Len(undo) /\ u = undo[n] /\ u.op = "append"
  BY Zenon
<1>0. Shape /\ Tables /\ Versions
  BY Zenon DEF EInv
<1>2. /\ n \in Nat \ {0} /\ u.pos \in Positions /\ u.id \in Ids /\ InRange(u.pos)
      /\ slot[u.pos].id = u.id /\ fwd[u.id] = u.pos
      /\ \A m \in 1..(n - 1) : undo[m].pos # u.pos
  BY <1>1, LastIs
<1>3. /\ undo' \in Seq(Entries) /\ Len(undo') = n - 1 /\ Log' = 1..(n - 1)
      /\ \A m \in 1..(n - 1) : undo'[m] = undo[m] /\ undo[m] \in Entries /\ Undoable(m)
      /\ Appended = Appended' \cup {u.pos} /\ ~ReplacedSome'
      /\ txn = "aborting" /\ UNCHANGED <<openIdx, clock, txn, stamp>>
  BY Zenon, <1>1, LastIs
<1>4. /\ seg' \in Seq(Segments) /\ Len(seg') = Len(seg) /\ Counted(seg', tomb')
      /\ tomb' = tomb /\ slot' = slot
      /\ \A q \in Positions : InRange(q)' <=> InRange(q) /\ q # u.pos
      /\ fwd' \in [Ids -> Positions \cup {None}]
      /\ \A j \in Ids : fwd'[j] = IF j = u.id THEN None ELSE fwd[j]
  BY Zenon, <1>1, UndoAppendIs
<1>5. Shape'
  BY Zenon, <1>0, <1>3, <1>4 DEF Shape
<1>6. \A j \in Ids : fwd[j] # None => fwd[j] \in Positions /\ InRange(fwd[j])
                                      /\ fwd[j] \notin tomb /\ slot[fwd[j]].id = j
  BY Zenon, Mapped
<1>7. u.pos \notin tomb
  BY Zenon, <1>2, <1>6, NoneApart
<1>8. Tables'
  BY <1>0, <1>2, <1>4, <1>6, <1>7, NoneApart DEF Tables, Shape
<1>9. Versions'
  BY Zenon, <1>0, <1>3, <1>4 DEF Versions
<1>10. Reversible'
  <2> SUFFICES ASSUME NEW m \in 1..(n - 1) PROVE Undoable(m)'
    BY Zenon, <1>3 DEF Reversible
  <2>1. PICK w : w = undo[m]
    BY Zenon
  <2>2. w.pos \in Positions /\ w.id \in Ids /\ Undoable(m) /\ w.pos # u.pos /\ undo'[m] = w
    BY Zenon, <2>1, <1>2, <1>3 DEF Entries
  <2>3. InRange(w.pos) /\ slot[w.pos].id = w.id /\ (w.op = "undelete" => w.pos \in tomb)
    BY Zenon, <2>1, <2>2 DEF Undoable
  <2>4. InRange(undo[m].pos)'
    BY Zenon, <2>2, <2>3, <1>4 DEF InRange
  <2>5. fwd[w.id] = w.pos => fwd'[w.id] = w.pos
    BY Zenon, <2>2, <1>2, <1>4
  <2>6. fwd'[w.id] # None => fwd[w.id] # None /\ u.id # w.id
    BY Zenon, <2>2, <1>4
  <2>7. ~InRange(u.pos)' /\ \A q \in Positions : InRange(q)' => InRange(q)
    BY Zenon, <1>2, <1>4
  <2>8. m \in Nat \ {0} /\ n \in Nat /\ m < n
    BY <1>2
  <2>9. u.op # "untomb" /\ u.op # "undelete" /\ slot'[w.pos].id = w.id
        /\ (w.op = "undelete" => w.pos \in tomb')
    BY Zenon, <2>3, <1>1, <1>4
  <2>10. \A k \in 1..(n - 1) : undo'[k] = undo[k]
    BY Zenon, <1>3
  <2> QED
    BY SMTT(40), <2>1, <2>2, <2>4, <2>5, <2>6, <2>7, <2>8, <2>9, <2>10, <1>1, <1>3, UndoableStill
<1> QED
  BY Zenon, <1>3, <1>4, <1>5, <1>8, <1>9, <1>10 DEF EInv

\* The undo of Delete raises the slot and maps the id again.
LEMMA UndoDeleteIs ==
  ASSUME Counting, EInv, UndoLast, NEW u, u = undo[Len(undo)], u.op = "undelete"
  PROVE  /\ seg' \in Seq(Segments) /\ Len(seg') = Len(seg) /\ Counted(seg', tomb')
         /\ tomb' = tomb \ {u.pos} /\ slot' = slot
         /\ \A q \in Positions : InRange(q)' <=> InRange(q)
         /\ fwd' \in [Ids -> Positions \cup {None}]
         /\ \A j \in Ids : fwd'[j] = IF j = u.id THEN u.pos ELSE fwd[j]
<1>0. Shape /\ Counted(seg, tomb)
  BY Zenon DEF EInv
<1>1. u.pos \in Positions /\ u.id \in Ids /\ InRange(u.pos) /\ u.pos \in tomb
  BY Zenon, LastIs
<1>2. /\ tomb' = tomb \ {u.pos} /\ seg' = Raised(seg, u.pos) /\ slot' = slot
      /\ fwd' = [fwd EXCEPT ![u.id] = u.pos]
  BY Zenon DEF UndoLast, UndoTombstone
<1>3. seg \in Seq(Segments) /\ UsedIn(seg, u.pos) /\ Len(seg) \in Nat
  BY <1>0, <1>1, RangeUsed DEF Shape
<1>4. /\ Differ(seg, seg', Dir(u.pos)) /\ Counted(seg', tomb')
      /\ \A d \in 1..Len(seg) : seg'[d].next = seg[d].next
  BY ZenonT(40), <1>0, <1>1, <1>2, <1>3, RaisedIs
<1>5. seg' \in Seq(Segments) /\ Len(seg') = Len(seg)
  BY Zenon, <1>4 DEF Differ
<1>6. \A q \in Positions : InRange(q)' <=> InRange(q)
  BY Zenon, <1>3, <1>4, <1>5, SameUsed, RangeUsed, RangeUsedNext
<1>7. /\ fwd' \in [Ids -> Positions \cup {None}]
      /\ \A j \in Ids : fwd'[j] = IF j = u.id THEN u.pos ELSE fwd[j]
  BY Zenon, <1>0, <1>1, <1>2 DEF Shape
<1> QED
  BY Zenon, <1>2, <1>4, <1>5, <1>6, <1>7

\* The undo of Delete.
LEMMA UndoDeleteEInv ==
  ASSUME Counting, EInv, UndoLast, undo[Len(undo)].op = "undelete"
  PROVE  EInv'
<1>1. PICK n, u : n = Len(undo) /\ u = undo[n] /\ u.op = "undelete"
  BY Zenon
<1>0. Shape /\ Tables /\ Versions
  BY Zenon DEF EInv
<1>2. /\ n \in Nat \ {0} /\ u.pos \in Positions /\ u.id \in Ids /\ InRange(u.pos)
      /\ slot[u.pos].id = u.id /\ fwd[u.id] = None /\ u.pos \in tomb
  BY Zenon, <1>1, LastIs
<1>3. /\ undo' \in Seq(Entries) /\ Len(undo') = n - 1 /\ Log' = 1..(n - 1)
      /\ \A m \in 1..(n - 1) : undo'[m] = undo[m] /\ undo[m] \in Entries /\ Undoable(m)
      /\ Appended' = Appended /\ ~ReplacedSome'
      /\ txn = "aborting" /\ UNCHANGED <<openIdx, clock, txn, stamp>>
  BY Zenon, <1>1, LastIs
<1>4. /\ seg' \in Seq(Segments) /\ Len(seg') = Len(seg) /\ Counted(seg', tomb')
      /\ tomb' = tomb \ {u.pos} /\ slot' = slot
      /\ \A q \in Positions : InRange(q)' <=> InRange(q)
      /\ fwd' \in [Ids -> Positions \cup {None}]
      /\ \A j \in Ids : fwd'[j] = IF j = u.id THEN u.pos ELSE fwd[j]
  BY Zenon, <1>1, UndoDeleteIs
<1>5. Shape'
  BY Zenon, <1>0, <1>3, <1>4 DEF Shape
<1>6. \A j \in Ids : fwd[j] # None => fwd[j] \in Positions /\ InRange(fwd[j])
                                      /\ fwd[j] \notin tomb /\ slot[fwd[j]].id = j
  BY Zenon, Mapped
<1>7. Tables'
  BY <1>0, <1>2, <1>4, <1>6, NoneApart DEF Tables, Shape
<1>8. Versions'
  BY Zenon, <1>0, <1>3, <1>4 DEF Versions
<1>9. Reversible'
  <2> SUFFICES ASSUME NEW m \in 1..(n - 1) PROVE Undoable(m)'
    BY Zenon, <1>3 DEF Reversible
  <2>1. PICK w : w = undo[m]
    BY Zenon
  <2>2. w.pos \in Positions /\ w.id \in Ids /\ Undoable(m) /\ undo'[m] = w
    BY Zenon, <2>1, <1>3 DEF Entries
  <2>3. InRange(w.pos) /\ slot[w.pos].id = w.id
    BY Zenon, <2>1, <2>2 DEF Undoable
  <2>4. m \in Nat \ {0} /\ n \in Nat /\ m < n /\ n \in (m + 1)..Len(undo)
    BY <1>1, <1>2
  <2>5. w.op = "undelete" => w.pos \in tomb /\ w.pos # u.pos
    BY <2>1, <2>2, <2>4, <1>1 DEF Undoable
  <2>6. InRange(undo[m].pos)'
    BY Zenon, <2>2, <2>3, <1>4 DEF InRange
  <2>7. fwd[w.id] = w.pos => fwd'[w.id] = w.pos
    BY Zenon, <2>2, <1>2, <1>4, NoneApart
  <2>8. u.pos = w.pos => fwd'[w.id] = w.pos
    BY Zenon, <2>2, <2>3, <1>2, <1>4
  <2>9. fwd'[w.id] # None => fwd[w.id] # None \/ u.id = w.id
    BY Zenon, <2>2, <1>4
  <2>10. u.op # "untomb" /\ u.op # "append" /\ slot'[w.pos].id = w.id
         /\ (w.op = "undelete" => w.pos \in tomb')
    BY Zenon, <2>3, <2>5, <1>1, <1>4
  <2>11. /\ \A k \in 1..(n - 1) : undo'[k] = undo[k]
         /\ \A q \in Positions : InRange(q)' => InRange(q)
    BY Zenon, <1>3, <1>4
  <2> QED
    BY ZenonT(40), <2>1, <2>2, <2>4, <2>6, <2>7, <2>8, <2>9, <2>10, <2>11, <1>1, <1>3, UndoableStill
<1> QED
  BY Zenon, <1>3, <1>4, <1>5, <1>7, <1>8, <1>9 DEF EInv

\* The undo of UpdateMeta.
LEMMA UndoMetaEInv ==
  ASSUME EInv, UndoLast, undo[Len(undo)].op = "meta"
  PROVE  EInv'
<1>1. PICK n, u : n = Len(undo) /\ u = undo[n] /\ u.op = "meta"
  BY Zenon
<1>0. Shape /\ Tables /\ Versions /\ Counted(seg, tomb)
  BY Zenon DEF EInv
<1>2. /\ n \in Nat \ {0} /\ u.pos \in Positions /\ u.id \in Ids /\ InRange(u.pos)
      /\ slot[u.pos].id = u.id /\ u.prev \in Vals
  BY Zenon, <1>1, LastIs
<1>3. /\ undo' \in Seq(Entries) /\ Len(undo') = n - 1 /\ Log' = 1..(n - 1)
      /\ \A m \in 1..(n - 1) : undo'[m] = undo[m] /\ undo[m] \in Entries /\ Undoable(m)
      /\ Appended' = Appended /\ ~ReplacedSome'
      /\ txn = "aborting" /\ UNCHANGED <<openIdx, clock, txn, stamp>>
  BY Zenon, <1>1, LastIs
<1> DEFINE x == [slot[u.pos] EXCEPT !.meta = u.prev]
<1>4. slot' = [slot EXCEPT ![u.pos] = x] /\ UNCHANGED <<tomb, seg, fwd>>
  BY Zenon, <1>1 DEF UndoLast, UndoMeta
<1>5. slot \in [Positions -> Slots] /\ slot[u.pos] \in Slots
  BY Zenon, <1>0, <1>2 DEF Shape
<1>6. /\ x \in Slots /\ x.id = slot[u.pos].id /\ x.vec = slot[u.pos].vec /\ x.meta = u.prev
      /\ x.ver = slot[u.pos].ver
  BY Zenon, <1>2, <1>5 DEF Slots
<1> HIDE DEF x
<1>7. slot' \in [Positions -> Slots]
      /\ \A q \in Positions : slot'[q] = IF q = u.pos THEN x ELSE slot[q]
  BY Zenon, <1>2, <1>4, <1>5, <1>6
<1>8. \A q \in Positions : /\ slot'[q].id = slot[q].id /\ slot'[q].vec = slot[q].vec
                           /\ slot'[q].ver = slot[q].ver
                           /\ slot'[q].meta = IF q = u.pos THEN u.prev ELSE slot[q].meta
  BY Zenon, <1>6, <1>7
<1>9. \A q : InRange(q)' <=> InRange(q)
  BY Zenon, <1>4 DEF InRange
<1>10. Shape'
  BY Zenon, <1>0, <1>3, <1>4, <1>7 DEF Shape
<1>11. Tables'
  BY <1>0, <1>2, <1>4, <1>8, <1>9 DEF Tables, Shape
<1>12. Counted(seg, tomb)'
  BY ZenonT(40), <1>0, <1>4 DEF Counted, Used, UsedIn
<1>13. Versions'
  BY Zenon, <1>0, <1>3, <1>8, <1>9 DEF Versions
<1>14. Reversible'
  <2> SUFFICES ASSUME NEW m \in 1..(n - 1) PROVE Undoable(m)'
    BY Zenon, <1>3 DEF Reversible
  <2>1. PICK w : w = undo[m]
    BY Zenon
  <2>2. w.pos \in Positions /\ w.id \in Ids /\ Undoable(m) /\ undo'[m] = w
    BY Zenon, <2>1, <1>3 DEF Entries
  <2>3. InRange(w.pos) /\ slot[w.pos].id = w.id /\ (w.op = "undelete" => w.pos \in tomb)
    BY Zenon, <2>1, <2>2 DEF Undoable
  <2>4. m \in Nat \ {0} /\ n \in Nat /\ m < n
    BY <1>1, <1>2
  <2>5. InRange(undo[m].pos)'
    BY Zenon, <2>2, <2>3, <1>4 DEF InRange
  <2>6. fwd' = fwd /\ u.op # "untomb" /\ u.op # "append" /\ u.op # "undelete"
        /\ slot'[w.pos].id = w.id /\ (w.op = "undelete" => w.pos \in tomb')
    BY Zenon, <2>2, <2>3, <1>1, <1>4, <1>8
  <2>7. /\ \A k \in 1..(n - 1) : undo'[k] = undo[k]
        /\ \A q \in Positions : InRange(q)' => InRange(q)
    BY Zenon, <1>3, <1>9
  <2>8. /\ u.op = "append" => ~InRange(u.pos)'
        /\ fwd[w.id] = w.pos => fwd'[w.id] = w.pos
        /\ u.op = "undelete" /\ u.pos = w.pos => fwd'[w.id] = w.pos
        /\ w.op = "undelete" /\ fwd'[w.id] # None =>
             \/ fwd[w.id] # None /\ (u.op = "append" => u.id # w.id)
             \/ u.op # "append" /\ u.id = w.id
    BY Zenon, <2>6
  <2> QED
    BY ZenonT(40), <2>1, <2>2, <2>4, <2>5, <2>6, <2>7, <2>8, <1>1, <1>3, UndoableStill
<1> QED
  BY Zenon, <1>3, <1>10, <1>11, <1>12, <1>13, <1>14 DEF EInv

-----------------------------------------------------------------------------
(* The tables stay exact.                                                  *)

\* Every step keeps the engine consistent, if no transaction that replaced a
\* point is rolled back.
LEMMA NextEInv ==
  ASSUME Counting, EInv, Aborts # "any", [Next]_vars
  PROVE  EInv'
<1>1. CASE UndoLast
  <2>1. undo[Len(undo)].op \in {"append", "undelete", "meta"}
    BY Zenon, <1>1, LastIs
  <2> QED
    BY Zenon, <1>1, <2>1, UndoAppendEInv, UndoDeleteEInv, UndoMetaEInv
<1>2. ASSUME NEW i \in Ids, Delete(i) \/ ReplaceRefused(i) \/ LookupID(i) PROVE EInv'
  BY Zenon, <1>2, DeleteEInv, RefusedEInv, QuietEInv
<1>3. ASSUME NEW i \in Ids, NEW v \in Vals, Insert(i, v) \/ Replace(i, v) \/ UpdateMeta(i, v)
      PROVE  EInv'
  BY Zenon, <1>3, InsertEInv, ReplaceEInv, MetaEInv
<1> QED
  BY Zenon, <1>1, <1>2, <1>3, CommitEInv, SealEInv, CompactEInv, QuietEInv DEF Next
=============================================================================

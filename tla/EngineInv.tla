----------------------------- MODULE EngineInv ------------------------------
(***************************************************************************)
(* The inductive invariant of Engine, the facts about positions, counters  *)
(* and the pieces of a write that its proof rests on, and the actions that *)
(* write no point: readers, sealing, commits, compaction.                  *)
(***************************************************************************)
EXTENDS Engine, TLAPS

Off(p) == p % Capacity

\* What an undo log entry is.
Entries == [op : {"append", "undelete", "untomb", "meta"}, id : Ids,
            pos : Positions, prev : Vals \cup {None}]
Segments == [next : 0..Capacity, sealed : BOOLEAN, live : Nat, dead : Nat]
Slots == [id : Ids \cup {None}, vec : Vals \cup {None}, meta : Vals \cup {None},
          ver : Nat]

Shape ==
  /\ slot \in [Positions -> Slots] /\ tomb \subseteq Positions
  /\ seg \in Seq(Segments) /\ Len(seg) <= MaxDir /\ openIdx \in 0..Len(seg)
  /\ fwd \in [Ids -> Positions \cup {None}]
  /\ clock \in Nat \ {0} /\ stamp \subseteq Positions
  /\ txn \in {"idle", "active", "committing", "aborting", "repointing"}
  /\ undo \in Seq(Entries)

-----------------------------------------------------------------------------
(* The tables, whatever transaction is open.                               *)

\* The slots of a segment below nextPos, over directory s.
UsedIn(s, p) == Dir(p) <= Len(s) /\ Off(p) < s[Dir(p)].next
Used(s, d) == {p \in Positions : Dir(p) = d /\ UsedIn(s, p)}

\* The counters of directory s count its slots, t the tombstones.
Counted(s, t) ==
  \A d \in 1..Len(s) : /\ s[d].live = Cardinality(Used(s, d) \ t)
                       /\ s[d].dead = Cardinality(Used(s, d) \cap t)

\* Used slots hold points, only they are tombstoned, and the id-map and the
\* live slots are inverse to each other.
Tables ==
  /\ \A p \in Positions : InRange(p) =>
       slot[p].id \in Ids /\ slot[p].vec \in Vals /\ slot[p].meta \in Vals
  /\ \A p \in tomb : InRange(p)
  /\ \A p \in Positions : InRange(p) /\ p \notin tomb => fwd[slot[p].id] = p
  /\ \A i \in Ids : fwd[i] # None =>
       InRange(fwd[i]) /\ fwd[i] \notin tomb /\ slot[fwd[i]].id = i

-----------------------------------------------------------------------------
(* The undo log.                                                           *)

Log == 1..Len(undo)
Appended == {undo[n].pos : n \in {m \in Log : undo[m].op = "append"}}

\* The slots without a commit sequence are the ones the open transaction
\* appended, and a transaction leaves nothing behind.
Versions ==
  /\ \A p \in Positions : InRange(p) => (slot[p].ver = 0 <=> p \in Appended)
  /\ txn \in {"active", "committing"} => stamp = Appended
  /\ txn \in {"idle", "repointing"} => stamp = {} /\ undo = <<>>

\* What entry n of the log says of the tables, given the entries after it: the
\* last entry always finds what it undoes.
Undoable(n) ==
  LET u == undo[n] IN
  /\ InRange(u.pos) /\ slot[u.pos].id = u.id
  /\ u.op = "append" =>
       /\ \A m \in 1..(n - 1) : undo[m].pos # u.pos
       /\ \A q \in Positions : Dir(q) = Dir(u.pos) /\ u.pos < q /\ InRange(q) =>
            \E m \in (n + 1)..Len(undo) : undo[m].op = "append" /\ undo[m].pos = q
  /\ u.op \in {"append", "meta"} =>
       \/ fwd[u.id] = u.pos
       \/ \E m \in (n + 1)..Len(undo) : undo[m].op = "undelete" /\ undo[m].pos = u.pos
  /\ u.op = "undelete" =>
       /\ u.pos \in tomb
       /\ \A m \in (n + 1)..Len(undo) : undo[m].pos # u.pos
       /\ fwd[u.id] # None =>
            \E k \in (n + 1)..Len(undo) : undo[k].op = "append" /\ undo[k].id = u.id
       /\ \A m \in (n + 1)..Len(undo) : undo[m].id = u.id =>
            \E k \in (n + 1)..m : undo[k].op = "append" /\ undo[k].id = u.id
  /\ u.op = "meta" => u.prev \in Vals

\* What the point was before the transaction first touched it, read off the
\* first entry of the log for it.
Original(u) ==
  IF u.op = "append" THEN None
  ELSE [vec |-> slot[u.pos].vec, meta |-> IF u.op = "meta" THEN u.prev ELSE slot[u.pos].meta]

Restores ==
  \A i \in Ids :
    /\ (\A n \in Log : undo[n].id # i) => Content[i] = before[i]
    /\ \A n \in Log : undo[n].id = i /\ (\A m \in 1..(n - 1) : undo[m].id # i) =>
         before[i] = Original(undo[n])

\* A log without a replacement undoes exactly the transaction.
Reversible == ~ReplacedSome => \A n \in Log : Undoable(n)
Restoring ==
  ~ReplacedSome /\ txn \in {"active", "committing", "aborting"} =>
    before \in [Ids -> [vec : Vals, meta : Vals] \cup {None}] /\ Restores

EInv ==
  /\ Shape /\ Tables /\ Counted(seg, tomb) /\ Versions /\ Reversible
  /\ txn = "aborting" => ~ReplacedSome

-----------------------------------------------------------------------------
(* Compact's table and the reader.                                         *)

\* The table exists only while the hook runs, and is right then.
RepointInv == (txn # "repointing" => DOMAIN repoint = {}) /\ RepointExact

\* Until a rollback or a compaction vacates slots, the slot LookupID found is
\* still one of the id asked for.
ReaderInv ==
  /\ reader \in [asked : Ids \cup {None}, pos : Positions \cup {None}]
  /\ moved \in BOOLEAN
  /\ Asking /\ ~moved =>
       /\ reader.pos \in Positions /\ InRange(reader.pos)
       /\ slot[reader.pos].id = reader.asked
  /\ ~Asking => reader = NoReader

-----------------------------------------------------------------------------
(* Positions and directories.                                              *)

\* The dimensions of the directory are numbers.
LEMMA CapacityType == Capacity \in Nat /\ Capacity > 0 /\ MaxDir \in Nat
BY EngineAssumption

\* None is neither a position nor an id.
LEMMA NoneApart == None \notin Positions /\ None \notin Ids
<1>1. Positions \subseteq Nat
  BY CapacityType DEF Positions
<1> QED
  BY ZenonT(40), <1>1, EngineAssumption

\* A position is the offset of a slot in one segment of the directory.
LEMMA PosSplit ==
  ASSUME NEW p \in Positions
  PROVE  /\ Dir(p) \in 1..MaxDir /\ Off(p) \in 0..(Capacity - 1)
         /\ p = (Dir(p) - 1) * Capacity + Off(p)
BY EngineAssumption, SMTT(30) DEF Positions, Dir, Off

\* Every offset of every segment is a position.
LEMMA PosAt ==
  ASSUME NEW d \in 1..MaxDir, NEW o \in 0..(Capacity - 1)
  PROVE  /\ (d - 1) * Capacity + o \in Positions
         /\ Dir((d - 1) * Capacity + o) = d /\ Off((d - 1) * Capacity + o) = o
BY EngineAssumption, SMTT(30) DEF Positions, Dir, Off

\* Within a segment, positions are ordered as their offsets are.
LEMMA PosOrder ==
  ASSUME NEW p \in Positions, NEW q \in Positions, Dir(p) = Dir(q)
  PROVE  (p < q <=> Off(p) < Off(q)) /\ (p = q <=> Off(p) = Off(q))
<1>1. Dir(p) \in Int /\ Off(p) \in Int /\ Off(q) \in Int /\ Capacity \in Int
  BY PosSplit, EngineAssumption
<1> DEFINE b == (Dir(p) - 1) * Capacity
<1>2. b \in Int
  BY <1>1
<1>3. p = b + Off(p) /\ q = b + Off(q)
  BY Zenon, PosSplit
<1> HIDE DEF b
<1> QED
  BY <1>1, <1>2, <1>3

OneToOne(f, S, T) == f \in [S -> T] /\ \A x, y \in S : f[x] = f[y] => x = y

\* What the proofs use of finite sets.  EngineProofs proves it from the
\* library, whose theorems every obligation here would otherwise carry.
Counting ==
  /\ IsFiniteSet({}) /\ Cardinality({}) = 0
  /\ \A a, b \in Int : /\ IsFiniteSet(a..b)
                       /\ Cardinality(a..b) = IF a > b THEN 0 ELSE b - a + 1
  /\ \A S, x : IsFiniteSet(S) =>
       /\ Cardinality(S \cup {x}) = IF x \in S THEN Cardinality(S) ELSE Cardinality(S) + 1
       /\ Cardinality(S \ {x}) = IF x \in S THEN Cardinality(S) - 1 ELSE Cardinality(S)
  /\ \A S : IsFiniteSet(S) => Cardinality(S) \in Nat
  /\ \A S, T : IsFiniteSet(S) /\ T \subseteq S =>
       IsFiniteSet(T) /\ Cardinality(T) <= Cardinality(S)
  /\ \A S, T, f : /\ OneToOne(f, S, T) /\ IsFiniteSet(T)
                  /\ Cardinality(S) = Cardinality(T)
                  => \A t \in T : \E x \in S : f[x] = t

\* The empty set has no elements.
LEMMA CountEmpty == ASSUME Counting PROVE IsFiniteSet({}) /\ Cardinality({}) = 0
BY Zenon DEF Counting

\* The number of positions in an interval.
LEMMA CountInterval ==
  ASSUME Counting, NEW a \in Int, NEW b \in Int
  PROVE  IsFiniteSet(a..b) /\ Cardinality(a..b) = IF a > b THEN 0 ELSE b - a + 1
BY ZenonT(40) DEF Counting

\* One slot more.
LEMMA CountAdd ==
  ASSUME Counting, NEW S, NEW x, IsFiniteSet(S)
  PROVE  Cardinality(S \cup {x}) = IF x \in S THEN Cardinality(S) ELSE Cardinality(S) + 1
BY ZenonT(40) DEF Counting

\* One slot less.
LEMMA CountRemove ==
  ASSUME Counting, NEW S, NEW x, IsFiniteSet(S)
  PROVE  Cardinality(S \ {x}) = IF x \in S THEN Cardinality(S) - 1 ELSE Cardinality(S)
BY ZenonT(40) DEF Counting

\* Counters are numbers.
LEMMA CountType == ASSUME Counting, NEW S, IsFiniteSet(S) PROVE Cardinality(S) \in Nat
BY Zenon DEF Counting

\* A part of the slots is counted, and is no more than all of them.
LEMMA CountSubset ==
  ASSUME Counting, NEW S, IsFiniteSet(S), NEW T \in SUBSET S
  PROVE  IsFiniteSet(T) /\ Cardinality(T) <= Cardinality(S)
BY ZenonT(40) DEF Counting

\* Giving as many slots as there are live points to different points uses all.
LEMMA CountOnto ==
  ASSUME Counting, NEW S, NEW T, NEW f, OneToOne(f, S, T), IsFiniteSet(T),
         Cardinality(S) = Cardinality(T)
  PROVE  \A t \in T : \E x \in S : f[x] = t
BY DEF Counting

\* Sets of positions are finite.
LEMMA PosFinite ==
  ASSUME Counting, NEW S \in SUBSET Positions
  PROVE  IsFiniteSet(S) /\ Cardinality(S) \in Nat
<1>1. IsFiniteSet(Positions)
  BY EngineAssumption, CountInterval DEF Positions
<1> QED
  BY Zenon, <1>1, CountSubset, CountType

\* locate: a position is in range when its slot is used.
LEMMA RangeUsed == \A p : InRange(p) <=> UsedIn(seg, p)
BY Zenon DEF InRange, UsedIn, Off

\* Only segment d of directory s changes to give r.
Differ(s, r, d) ==
  /\ r \in Seq(Segments) /\ Len(r) = Len(s)
  /\ \A e \in 1..Len(s) : e # d => r[e] = s[e]

-----------------------------------------------------------------------------
(* The counters.                                                           *)

\* What a directory's slots are depends on nextPos only.
LEMMA SameUsed ==
  ASSUME NEW s, NEW r, Len(r) = Len(s), Len(s) \in Nat,
         \A d \in 1..Len(s) : r[d].next = s[d].next
  PROVE  /\ \A p \in Positions : UsedIn(r, p) <=> UsedIn(s, p)
         /\ \A d \in 1..Len(s) : Used(r, d) = Used(s, d)
<1>1. \A p \in Positions : UsedIn(r, p) <=> UsedIn(s, p)
  BY PosSplit DEF UsedIn
<1> QED
  BY Zenon, <1>1 DEF Used

\* A change of one segment keeps all counters right when it keeps that
\* segment's right and leaves the other segments' slots and tombstones alone.
LEMMA CountedAgain ==
  ASSUME NEW s, NEW r, NEW t, NEW u, NEW c \in 1..Len(s), Differ(s, r, c), Counted(s, t),
         \A d \in 1..Len(s) : d # c =>
           Used(r, d) \ u = Used(s, d) \ t /\ Used(r, d) \cap u = Used(s, d) \cap t,
         r[c].live = Cardinality(Used(r, c) \ u),
         r[c].dead = Cardinality(Used(r, c) \cap u)
  PROVE  Counted(r, u)
<1> SUFFICES ASSUME NEW d \in 1..Len(r)
             PROVE  /\ r[d].live = Cardinality(Used(r, d) \ u)
                    /\ r[d].dead = Cardinality(Used(r, d) \cap u)
  BY ZenonT(40) DEF Counted
<1>1. d \in 1..Len(s)
  BY Zenon DEF Differ
<1>2. CASE d = c
  BY Zenon, <1>2
<1>3. CASE d # c
  <2>1. r[d] = s[d]
    BY Zenon, <1>1, <1>3 DEF Differ
  <2>2. s[d].live = Cardinality(Used(s, d) \ t) /\ s[d].dead = Cardinality(Used(s, d) \cap t)
    BY <1>1, Zenon DEF Counted
  <2>3. Used(r, d) \ u = Used(s, d) \ t /\ Used(r, d) \cap u = Used(s, d) \cap t
    BY Zenon, <1>1, <1>3
  <2> QED
    BY <2>1, <2>2, <2>3, Zenon
<1> QED
  BY Zenon, <1>2, <1>3

\* segment.tombstone moves a used slot from the live count to the dead count,
\* and its undo moves it back.
LEMMA MoveCounts ==
  ASSUME Counting, NEW U \in SUBSET Positions, NEW t, NEW p \in U, p \notin t
  PROVE  /\ Cardinality(U \ (t \cup {p})) = Cardinality(U \ t) - 1
         /\ Cardinality(U \cap (t \cup {p})) = Cardinality(U \cap t) + 1
         /\ Cardinality(U \ t) \in Nat /\ Cardinality(U \ t) > 0
         /\ Cardinality(U \cap t) \in Nat
<1>1. U \ (t \cup {p}) = (U \ t) \ {p} /\ U \cap (t \cup {p}) = (U \cap t) \cup {p}
  BY Zenon
<1>2. IsFiniteSet(U \ t) /\ IsFiniteSet(U \cap t)
  BY Zenon, PosFinite
<1>3. Cardinality(U \ t) \in Nat /\ Cardinality((U \ t) \ {p}) \in Nat /\ Cardinality(U \cap t) \in Nat
  BY Zenon, PosFinite
<1>4. Cardinality((U \ t) \ {p}) = Cardinality(U \ t) - 1
  <2>1. p \in U \ t
    BY Zenon
  <2> QED
    BY Zenon, <1>2, <2>1, CountRemove
<1>5. Cardinality((U \cap t) \cup {p}) = Cardinality(U \cap t) + 1
  <2>1. p \notin U \cap t
    BY Zenon
  <2> QED
    BY Zenon, <1>2, <2>1, CountAdd
<1>6. Cardinality(U \ t) > 0
  BY <1>3, <1>4
<1> QED
  BY <1>1, <1>3, <1>4, <1>5, <1>6, Zenon

\* tombstone keeps the counters right.
LEMMA BuryCounts ==
  ASSUME Counting, NEW s \in Seq(Segments), NEW t, NEW p \in Positions, NEW c \in 1..Len(s),
         NEW r, Differ(s, r, c), c = Dir(p), UsedIn(s, p), p \notin t, Counted(s, t),
         r[c].next = s[c].next, r[c].dead = s[c].dead + 1,
         r[c].live = IF s[c].live > 0 THEN s[c].live - 1 ELSE s[c].live
  PROVE  Counted(r, t \cup {p})
<1>1. p \in Used(s, c) /\ Used(s, c) \in SUBSET Positions
  BY Zenon DEF Used
<1>2. s[c].live = Cardinality(Used(s, c) \ t) /\ s[c].dead = Cardinality(Used(s, c) \cap t)
  BY Zenon DEF Counted
<1>3. \A d \in 1..Len(s) : Used(r, d) = Used(s, d)
  <2>1. \A d \in 1..Len(s) : r[d].next = s[d].next
    BY Zenon DEF Differ
  <2> QED
    BY <2>1, SameUsed DEF Differ
<1>4. \A d \in 1..Len(s) : d # c =>
        Used(r, d) \ (t \cup {p}) = Used(s, d) \ t /\ Used(r, d) \cap (t \cup {p}) = Used(s, d) \cap t
  BY Zenon, <1>3 DEF Used
<1>5. /\ Cardinality(Used(s, c) \ (t \cup {p})) = Cardinality(Used(s, c) \ t) - 1
      /\ Cardinality(Used(s, c) \cap (t \cup {p})) = Cardinality(Used(s, c) \cap t) + 1
      /\ Cardinality(Used(s, c) \ t) > 0
  BY ZenonT(40), <1>1, MoveCounts
<1>6. /\ r[c].live = Cardinality(Used(r, c) \ (t \cup {p}))
      /\ r[c].dead = Cardinality(Used(r, c) \cap (t \cup {p}))
  <2>1. Used(r, c) = Used(s, c)
    BY Zenon, <1>3
  <2>2. s[c].live > 0
    BY <1>2, <1>5, Zenon
  <2> QED
    BY <1>2, <1>5, <2>1, <2>2, Zenon
<1> QED
  BY <1>4, <1>6, CountedAgain, Zenon

\* The undo of tombstone keeps the counters right.
LEMMA RaiseCounts ==
  ASSUME Counting, NEW s \in Seq(Segments), NEW t, NEW p \in Positions, NEW c \in 1..Len(s),
         NEW r, Differ(s, r, c), c = Dir(p), UsedIn(s, p), p \in t, Counted(s, t),
         r[c].next = s[c].next, r[c].live = s[c].live + 1,
         r[c].dead = IF s[c].dead > 0 THEN s[c].dead - 1 ELSE s[c].dead
  PROVE  Counted(r, t \ {p})
<1> DEFINE w == t \ {p}
<1>0. t = w \cup {p} /\ p \notin w
  BY Zenon
<1> HIDE DEF w
<1>1. p \in Used(s, c) /\ Used(s, c) \in SUBSET Positions
  BY Zenon DEF Used
<1>2. s[c].live = Cardinality(Used(s, c) \ t) /\ s[c].dead = Cardinality(Used(s, c) \cap t)
  BY Zenon DEF Counted
<1>3. \A d \in 1..Len(s) : Used(r, d) = Used(s, d)
  <2>1. \A d \in 1..Len(s) : r[d].next = s[d].next
    BY Zenon DEF Differ
  <2> QED
    BY <2>1, SameUsed DEF Differ
<1>4. \A d \in 1..Len(s) : d # c =>
        Used(r, d) \ w = Used(s, d) \ t /\ Used(r, d) \cap w = Used(s, d) \cap t
  BY Zenon, <1>0, <1>3 DEF Used
<1>5. /\ Cardinality(Used(s, c) \ t) = Cardinality(Used(s, c) \ w) - 1
      /\ Cardinality(Used(s, c) \cap t) = Cardinality(Used(s, c) \cap w) + 1
      /\ Cardinality(Used(s, c) \ w) \in Nat /\ Cardinality(Used(s, c) \cap w) \in Nat
  BY ZenonT(40), <1>0, <1>1, MoveCounts
<1>6. r[c].live = Cardinality(Used(s, c) \ w) /\ r[c].dead = Cardinality(Used(s, c) \cap w)
  BY <1>2, <1>5
<1>7. r[c].live = Cardinality(Used(r, c) \ w) /\ r[c].dead = Cardinality(Used(r, c) \cap w)
  BY <1>3, <1>6, Zenon
<1> QED
  BY <1>4, <1>7, CountedAgain, Zenon DEF w

\* append uses one more slot of the open segment; its undo, one less.
LEMMA PushUsed ==
  ASSUME NEW s, NEW r, NEW c \in 1..Len(s), Differ(s, r, c), NEW p \in Positions,
         Dir(p) = c, Off(p) = s[c].next, r[c].next = s[c].next + 1
  PROVE  /\ \A q \in Positions : UsedIn(r, q) <=> UsedIn(s, q) \/ q = p
         /\ ~UsedIn(s, p)
         /\ Used(r, c) = Used(s, c) \cup {p} /\ p \notin Used(s, c)
         /\ \A d \in 1..Len(s) : d # c => Used(r, d) = Used(s, d)
<1>1. Off(p) \in Nat
  BY PosSplit
<1>2. ASSUME NEW q \in Positions
      PROVE  UsedIn(r, q) <=> UsedIn(s, q) \/ q = p
  <2>1. CASE Dir(q) = c
    <3>1. Off(q) \in Nat /\ (q = p <=> Off(q) = Off(p))
      BY <2>1, PosOrder, PosSplit
    <3>2. Off(q) < Off(p) + 1 <=> Off(q) < Off(p) \/ Off(q) = Off(p)
      BY <1>1, <3>1
    <3> QED
      BY <2>1, <3>1, <3>2 DEF UsedIn, Differ
  <2>2. CASE Dir(q) # c
    <3>1. Dir(q) \in Nat \ {0} /\ q # p
      BY <2>2, PosSplit
    <3> QED
      BY <2>2, <3>1 DEF UsedIn, Differ
  <2> QED
    BY Zenon, <2>1, <2>2
<1>3. ~UsedIn(s, p)
  BY <1>1 DEF UsedIn
<1> QED
  BY Zenon, <1>2, <1>3 DEF Used

\* appendPoint keeps the counters right.
LEMMA PushCounts ==
  ASSUME Counting, NEW s, NEW r, NEW t, NEW c \in 1..Len(s), Differ(s, r, c), NEW p \in Positions,
         Dir(p) = c, Off(p) = s[c].next, r[c].next = s[c].next + 1,
         r[c].live = s[c].live + 1, r[c].dead = s[c].dead,
         p \notin t, Counted(s, t)
  PROVE  Counted(r, t)
<1>1. /\ Used(r, c) = Used(s, c) \cup {p} /\ p \notin Used(s, c)
      /\ \A d \in 1..Len(s) : d # c => Used(r, d) = Used(s, d)
  BY PushUsed
<1>2. s[c].live = Cardinality(Used(s, c) \ t) /\ s[c].dead = Cardinality(Used(s, c) \cap t)
  BY Zenon DEF Counted
<1>3. Used(r, c) \ t = (Used(s, c) \ t) \cup {p} /\ Used(r, c) \cap t = Used(s, c) \cap t
  BY Zenon, <1>1
<1>4. IsFiniteSet(Used(s, c) \ t) /\ p \notin Used(s, c) \ t
  BY Zenon, <1>1, PosFinite DEF Used
<1>5. Cardinality((Used(s, c) \ t) \cup {p}) = Cardinality(Used(s, c) \ t) + 1
  BY Zenon, <1>4, CountAdd
<1>6. r[c].live = Cardinality(Used(r, c) \ t) /\ r[c].dead = Cardinality(Used(r, c) \cap t)
  BY <1>2, <1>3, <1>5, Zenon
<1>7. \A d \in 1..Len(s) : d # c =>
        Used(r, d) \ t = Used(s, d) \ t /\ Used(r, d) \cap t = Used(s, d) \cap t
  BY Zenon, <1>1
<1> QED
  BY <1>6, <1>7, CountedAgain, Zenon

\* The undo of appendPoint keeps the counters right.
LEMMA PopCounts ==
  ASSUME Counting, NEW s \in Seq(Segments), NEW r, NEW t, NEW c \in 1..Len(s), Differ(s, r, c),
         NEW p \in Positions, Dir(p) = c, Off(p) = r[c].next, s[c].next = r[c].next + 1,
         r[c].live = IF s[c].live > 0 THEN s[c].live - 1 ELSE s[c].live,
         r[c].dead = s[c].dead, p \notin t, Counted(s, t)
  PROVE  Counted(r, t)
<1>0. Differ(r, s, c) /\ c \in 1..Len(r)
  BY Zenon DEF Differ
<1>1. /\ Used(s, c) = Used(r, c) \cup {p} /\ p \notin Used(r, c)
      /\ \A d \in 1..Len(r) : d # c => Used(s, d) = Used(r, d)
  BY <1>0, PushUsed
<1>2. s[c].live = Cardinality(Used(s, c) \ t) /\ s[c].dead = Cardinality(Used(s, c) \cap t)
  BY Zenon DEF Counted
<1>3. Used(s, c) \ t = (Used(r, c) \ t) \cup {p} /\ Used(r, c) \cap t = Used(s, c) \cap t
  BY Zenon, <1>1
<1>4. IsFiniteSet(Used(r, c) \ t) /\ p \notin Used(r, c) \ t /\ Cardinality(Used(r, c) \ t) \in Nat
  BY Zenon, <1>1, PosFinite DEF Used
<1>5. Cardinality((Used(r, c) \ t) \cup {p}) = Cardinality(Used(r, c) \ t) + 1
  BY ZenonT(40), <1>4, CountAdd
<1>6. s[c].live = Cardinality(Used(r, c) \ t) + 1
  BY <1>2, <1>3, <1>5, Zenon
<1>7. r[c].live = Cardinality(Used(r, c) \ t)
  BY <1>4, <1>6
<1>8. r[c].dead = Cardinality(Used(r, c) \cap t)
  BY <1>2, <1>3, Zenon
<1>9. \A d \in 1..Len(s) : d # c =>
        Used(r, d) \ t = Used(s, d) \ t /\ Used(r, d) \cap t = Used(s, d) \cap t
  BY Zenon, <1>0, <1>1 DEF Differ
<1> QED
  BY <1>7, <1>8, <1>9, CountedAgain, Zenon

-----------------------------------------------------------------------------
(* The pieces of a write.                                                  *)

\* Tombstoning a live slot changes the counters of its segment only.
LEMMA BuriedIs ==
  ASSUME Counting, NEW s \in Seq(Segments), NEW p \in Positions, UsedIn(s, p), p \notin tomb,
         Counted(s, tomb)
  PROVE  /\ Differ(s, Buried(s, p), Dir(p))
         /\ \A d \in 1..Len(s) : Buried(s, p)[d].next = s[d].next
         /\ Counted(Buried(s, p), tomb \cup {p})
<1> DEFINE c == Dir(p)
           a == IF s[c].live > 0 THEN s[c].live - 1 ELSE s[c].live
           g == [s[c] EXCEPT !.live = a, !.dead = s[c].dead + 1]
<1>1. c \in 1..Len(s) /\ c = Dir(p)
  BY PosSplit DEF UsedIn
<1>2. s[c] \in Segments
  BY <1>1
<1>a. a \in Nat /\ s[c].dead + 1 \in Nat
  BY SMTT(40), <1>2 DEF Segments
<1> HIDE DEF a, c
<1>3. g \in Segments /\ g.next = s[c].next /\ g.live = a /\ g.dead = s[c].dead + 1
  BY ZenonT(40), <1>2, <1>a DEF Segments
<1>4. Buried(s, p) = [s EXCEPT ![c] = g]
  BY ZenonT(40), <1>1, <1>2 DEF Buried, a
<1> HIDE DEF g
<1>5. Differ(s, Buried(s, p), c) /\ Buried(s, p)[c] = g
  BY <1>1, <1>3, <1>4 DEF Differ
<1>6. \A d \in 1..Len(s) : Buried(s, p)[d].next = s[d].next
  BY Zenon, <1>3, <1>5 DEF Differ
<1>7. Counted(Buried(s, p), tomb \cup {p})
  BY ZenonT(40), <1>1, <1>3, <1>5, BuryCounts DEF a
<1> QED
  BY Zenon, <1>1, <1>5, <1>6, <1>7

\* Taking back a tombstone changes the counters of its segment only.
LEMMA RaisedIs ==
  ASSUME Counting, NEW s \in Seq(Segments), NEW p \in Positions, UsedIn(s, p), p \in tomb,
         Counted(s, tomb)
  PROVE  /\ Differ(s, Raised(s, p), Dir(p))
         /\ \A d \in 1..Len(s) : Raised(s, p)[d].next = s[d].next
         /\ Counted(Raised(s, p), tomb \ {p})
<1> DEFINE c == Dir(p)
           a == IF s[c].dead > 0 THEN s[c].dead - 1 ELSE s[c].dead
           g == [s[c] EXCEPT !.live = s[c].live + 1, !.dead = a]
<1>1. c \in 1..Len(s) /\ c = Dir(p)
  BY PosSplit DEF UsedIn
<1>2. s[c] \in Segments
  BY <1>1
<1>a. a \in Nat /\ s[c].live + 1 \in Nat
  BY SMTT(40), <1>2 DEF Segments
<1> HIDE DEF a, c
<1>3. g \in Segments /\ g.next = s[c].next /\ g.dead = a /\ g.live = s[c].live + 1
  BY ZenonT(40), <1>2, <1>a DEF Segments
<1>4. Raised(s, p) = [s EXCEPT ![c] = g]
  BY ZenonT(40), <1>1, <1>2 DEF Raised, a
<1> HIDE DEF g
<1>5. Differ(s, Raised(s, p), c) /\ Raised(s, p)[c] = g
  BY <1>1, <1>3, <1>4 DEF Differ
<1>6. \A d \in 1..Len(s) : Raised(s, p)[d].next = s[d].next
  BY Zenon, <1>3, <1>5 DEF Differ
<1>7. Counted(Raised(s, p), tomb \ {p})
  BY Zenon, <1>1, <1>3, <1>5, RaiseCounts DEF a
<1> QED
  BY Zenon, <1>1, <1>5, <1>6, <1>7

\* ensureOpen gives a directory with the same slots and a segment with room.
LEMMA OpenedIs ==
  ASSUME Counting, NEW s \in Seq(Segments), openIdx \in 0..Len(s), NEW t, Counted(s, t)
  PROVE  LET o == Opened(s)  d == OpenedIdx(s) IN
         /\ o \in Seq(Segments) /\ d \in 1..Len(o) /\ o[d].next < Capacity
         /\ Len(o) = IF HasRoom(s) THEN Len(s) ELSE Len(s) + 1
         /\ \A p \in Positions : UsedIn(o, p) <=> UsedIn(s, p)
         /\ Counted(o, t)
<1> DEFINE o == Opened(s)
           d == OpenedIdx(s)
<1>1. CASE HasRoom(s)
  <2>1. o = s /\ d = openIdx
    BY Zenon, <1>1 DEF Opened, OpenedIdx
  <2>2. openIdx \in 1..Len(s) /\ s[openIdx].next < Capacity
    BY <1>1 DEF HasRoom
  <2> QED
    BY Zenon, <1>1, <2>1, <2>2
<1>2. CASE ~HasRoom(s)
  <2> DEFINE z == [e \in 1..Len(s) |->
                     IF e = openIdx THEN [s[e] EXCEPT !.sealed = TRUE] ELSE s[e]]
  <2>1. \A e \in 1..Len(s) : s[e] \in Segments
    OBVIOUS
  <2>2. \A e \in 1..Len(s) : z[e] \in Segments /\ z[e].next = s[e].next
                             /\ z[e].live = s[e].live /\ z[e].dead = s[e].dead
    BY ZenonT(40), <2>1 DEF Segments
  <2>3. z \in Seq(Segments) /\ Len(z) = Len(s)
    BY <2>2
  <2>4. NewSegment \in Segments /\ NewSegment.next = 0 /\ NewSegment.live = 0 /\ NewSegment.dead = 0
    BY EngineAssumption DEF NewSegment, Segments
  <2>5. o = Append(z, NewSegment) /\ d = Len(s) + 1
    BY Zenon, <1>2 DEF Opened, OpenedIdx
  <2> HIDE DEF z, o, d
  <2>6. /\ o \in Seq(Segments) /\ Len(o) = Len(s) + 1 /\ o[Len(s) + 1] = NewSegment
        /\ \A e \in 1..Len(s) : o[e] = z[e]
    BY <2>3, <2>4, <2>5
  <2>7. d \in 1..Len(o) /\ o[d].next < Capacity
    BY <2>4, <2>5, <2>6, EngineAssumption
  <2>8. ASSUME NEW p \in Positions PROVE UsedIn(o, p) <=> UsedIn(s, p)
    <3>1. Dir(p) \in Nat \ {0} /\ Off(p) \in Nat
      BY PosSplit
    <3>2. CASE Dir(p) <= Len(s)
      BY <2>2, <2>6, <3>1, <3>2 DEF UsedIn
    <3>3. CASE Dir(p) = Len(s) + 1
      BY <2>4, <2>6, <3>1, <3>3 DEF UsedIn
    <3>4. CASE Dir(p) > Len(s) + 1
      BY <2>6, <3>1, <3>4 DEF UsedIn
    <3> QED
      BY <3>1, <3>2, <3>3, <3>4
  <2>9. Counted(o, t)
    <3> SUFFICES ASSUME NEW e \in 1..Len(o)
                 PROVE  o[e].live = Cardinality(Used(o, e) \ t) /\ o[e].dead = Cardinality(Used(o, e) \cap t)
      BY ZenonT(40) DEF Counted
    <3>1. Used(o, e) = Used(s, e)
      BY Zenon, <2>8 DEF Used
    <3>2. CASE e = Len(s) + 1
      <4>1. Used(s, e) = {}
        BY <3>2 DEF Used, UsedIn
      <4>2. Used(o, e) \ t = {} /\ Used(o, e) \cap t = {}
        BY Zenon, <3>1, <4>1
      <4> QED
        BY ZenonT(40), <2>4, <2>6, <3>2, <4>2, CountEmpty
    <3>3. CASE e # Len(s) + 1
      <4>1. e \in 1..Len(s)
        BY <2>6, <3>3
      <4>2. o[e].live = s[e].live /\ o[e].dead = s[e].dead
        BY Zenon, <2>2, <2>6, <4>1
      <4>3. s[e].live = Cardinality(Used(s, e) \ t) /\ s[e].dead = Cardinality(Used(s, e) \cap t)
        BY <4>1, Zenon DEF Counted
      <4> QED
        BY <3>1, <4>2, <4>3, Zenon
    <3> QED
      BY Zenon, <3>2, <3>3
  <2> QED
    BY Zenon, <1>2, <2>6, <2>7, <2>8, <2>9 DEF o, d
<1> QED
  BY Zenon, <1>1, <1>2

\* What appendPoint does to directory s, tombstones t and undo log u: slot p,
\* free before, is used, counted as live, and the last of its segment.
Pushed(i, v, s, t, u, p) ==
  /\ seg' \in Seq(Segments) /\ Len(seg') <= MaxDir /\ openIdx' \in 0..Len(seg')
  /\ ~UsedIn(s, p) /\ p \notin t
  /\ \A q \in Positions : UsedIn(seg', q) <=> UsedIn(s, q) \/ q = p
  /\ \A q \in Positions : Dir(q) = Dir(p) /\ p < q => ~UsedIn(seg', q)
  /\ Counted(seg', t)
  /\ slot' = [slot EXCEPT ![p] = [id |-> i, vec |-> v, meta |-> v, ver |-> 0]]
  /\ tomb' = t /\ fwd' = [fwd EXCEPT ![i] = p] /\ stamp' = stamp \cup {p}
  /\ undo' = Append(u, [op |-> "append", id |-> i, pos |-> p, prev |-> None])

\* appendPoint finds such a slot.
LEMMA AppendIs ==
  ASSUME Counting, NEW s \in Seq(Segments), Len(s) <= MaxDir, openIdx \in 0..Len(s), NEW t,
         Counted(s, t), \A q \in t : q \in Positions /\ UsedIn(s, q),
         NEW i, NEW v, NEW u, AppendPoint(i, v, s, t, u)
  PROVE  \E p \in Positions : Pushed(i, v, s, t, u, p)
<1> DEFINE o == Opened(s)
           d == OpenedIdx(s)
           p == (d - 1) * Capacity + o[d].next
<1>1. /\ o \in Seq(Segments) /\ d \in 1..Len(o) /\ o[d].next < Capacity
      /\ Len(o) = IF HasRoom(s) THEN Len(s) ELSE Len(s) + 1
      /\ \A q \in Positions : UsedIn(o, q) <=> UsedIn(s, q)
      /\ Counted(o, t)
  BY Zenon, OpenedIs
<1>2. d \in 1..MaxDir
  BY <1>1 DEF AppendPoint
<1>5. Len(o) <= MaxDir
  BY <1>1, <1>2 DEF OpenedIdx
<1> HIDE DEF o, d
<1>a. o[d] \in Segments
  BY <1>1
<1>b. o[d].next \in 0..Capacity /\ o[d].live \in Nat
  BY Zenon, <1>a DEF Segments
<1>3. o[d].next \in 0..(Capacity - 1) /\ o[d].live + 1 \in Nat /\ o[d].next + 1 \in 0..Capacity
  <2>1. o[d].next < Capacity
    BY Zenon, <1>1
  <2> QED
    BY SMTT(40), <1>b, <2>1, CapacityType
<1>4. p \in Positions /\ Dir(p) = d /\ Off(p) = o[d].next
  BY Zenon, <1>2, <1>3, PosAt
<1> DEFINE n == o[d].next + 1
           l == o[d].live + 1
           g == [o[d] EXCEPT !.next = n, !.live = l]
<1>c. n \in 0..Capacity /\ l \in Nat
  BY Zenon, <1>3
<1> HIDE DEF n, l
<1>6. g \in Segments /\ g.next = n /\ g.live = l /\ g.dead = o[d].dead
  BY ZenonT(40), <1>a, <1>c DEF Segments
<1>7. /\ seg' = [o EXCEPT ![d] = g] /\ openIdx' = d
      /\ slot' = [slot EXCEPT ![p] = [id |-> i, vec |-> v, meta |-> v, ver |-> 0]]
      /\ tomb' = t /\ fwd' = [fwd EXCEPT ![i] = p] /\ stamp' = stamp \cup {p}
      /\ undo' = Append(u, [op |-> "append", id |-> i, pos |-> p, prev |-> None])
  BY ZenonT(40), <1>1, <1>a DEF AppendPoint, o, d, n, l
<1> HIDE DEF p, g
<1>d. n = o[d].next + 1 /\ l = o[d].live + 1
  BY Zenon DEF n, l
<1>8. Differ(o, seg', d) /\ seg'[d] = g
  BY <1>1, <1>6, <1>7 DEF Differ
<1>9. /\ \A q \in Positions : UsedIn(seg', q) <=> UsedIn(o, q) \/ q = p
      /\ ~UsedIn(o, p)
  BY <1>1, <1>4, <1>6, <1>8, <1>d, PushUsed
<1>10. p \notin t
  BY Zenon, <1>1, <1>4, <1>9
<1>11. Counted(seg', t)
  BY <1>1, <1>4, <1>6, <1>8, <1>10, <1>d, PushCounts
<1>12. ASSUME NEW q \in Positions, Dir(q) = Dir(p), p < q PROVE ~UsedIn(seg', q)
  <2>1. Off(p) < Off(q) /\ Off(p) \in Nat /\ Off(q) \in Nat
    BY <1>4, <1>12, PosOrder, PosSplit
  <2>2. seg'[Dir(q)].next = Off(p) + 1
    BY Zenon, <1>4, <1>6, <1>8, <1>12, <1>d
  <2> QED
    BY <2>1, <2>2 DEF UsedIn
<1>13. seg' \in Seq(Segments) /\ Len(seg') <= MaxDir /\ openIdx' \in 0..Len(seg')
  BY <1>1, <1>5, <1>7, <1>8 DEF Differ
<1> QED
  BY ZenonT(40), <1>1, <1>4, <1>7, <1>9, <1>10, <1>11, <1>12, <1>13 DEF Pushed

-----------------------------------------------------------------------------
(* Compaction.                                                             *)

\* Segments needed for n slots.
LEMMA DivUp ==
  ASSUME NEW n \in Nat, NEW k, k = (n + Capacity - 1) \div Capacity
  PROVE  k \in Nat /\ n <= k * Capacity /\ (k - 1) * Capacity < n /\ (n > 0 => k > 0)
BY CapacityType, SMTT(30)

\* Fewer segments hold fewer slots.
LEMMA MulMono == \A a, b \in Int : a <= b => a * Capacity <= b * Capacity
BY CapacityType, SMTT(30)

\* A function that gives k segments is a directory of length k.
LEMMA DirSeq ==
  ASSUME NEW k \in Nat, NEW s \in [1..k -> Segments]
  PROVE  s \in Seq(Segments) /\ Len(s) = k
OBVIOUS

\* The directory Compact writes for n live points: exactly the first n
\* positions are used, and the counters count them.
LEMMA PackedIs ==
  ASSUME Counting, NEW n \in 0..(MaxDir * Capacity), NEW k, k = (n + Capacity - 1) \div Capacity,
         NEW s, s = [d \in 1..k |->
                       [next |-> IF d < k THEN Capacity ELSE n - (k - 1) * Capacity,
                        sealed |-> d < k,
                        live |-> IF d < k THEN Capacity ELSE n - (k - 1) * Capacity,
                        dead |-> 0]]
  PROVE  /\ s \in Seq(Segments) /\ Len(s) = k /\ k <= MaxDir
         /\ \A p \in Positions : UsedIn(s, p) <=> p < n
         /\ Counted(s, {})
<1> DEFINE B(d) == (d - 1) * Capacity
           in(d) == IF d < k THEN Capacity ELSE n - B(k)
<1>0. n \in Nat /\ MaxDir * Capacity \in Nat /\ n <= MaxDir * Capacity
  <2>1. MaxDir * Capacity \in Nat
    BY CapacityType
  <2> QED
    BY <2>1
<1>1. k \in Nat /\ n <= k * Capacity /\ B(k) < n /\ (n > 0 => k > 0)
  BY Zenon, <1>0, DivUp
<1>2. \A d \in Int : B(d) \in Int /\ d * Capacity = B(d) + Capacity
  BY CapacityType
<1>3. \A d, e \in Int : d < e => B(d) + Capacity <= B(e)
  BY CapacityType, MulMono
<1>4. k <= MaxDir
  <2> SUFFICES ASSUME k > MaxDir PROVE FALSE
    BY <1>1, CapacityType
  <2>1. MaxDir <= k - 1 /\ k - 1 \in Int
    BY <1>1, CapacityType
  <2>2. MaxDir * Capacity <= (k - 1) * Capacity
    BY <2>1, MulMono, CapacityType
  <2> QED
    BY <1>0, <1>1, <1>2, <2>2
<1>5. s = [d \in 1..k |-> [next |-> in(d), sealed |-> d < k, live |-> in(d), dead |-> 0]]
  BY Zenon
<1>6. \A d \in 1..k : in(d) \in 0..Capacity
  <2>1. n - B(k) \in 0..Capacity
    BY <1>0, <1>1, <1>2, CapacityType
  <2> QED
    BY <2>1, CapacityType
<1> HIDE DEF B
<1>7. ASSUME NEW d \in 1..k
      PROVE  \A o \in 0..(Capacity - 1) : o < in(d) <=> B(d) + o < n
  <2>0. B(d) \in Int /\ B(k) \in Int /\ d \in Int /\ k \in Int
    BY <1>1, <1>2
  <2>1. CASE d < k
    <3>1. B(d) + Capacity <= B(k)
      BY Zenon, <1>3, <2>0, <2>1
    <3> QED
      BY <1>0, <1>1, <2>0, <2>1, <3>1, CapacityType
  <2>2. CASE d = k
    BY <1>0, <2>0, <2>2, CapacityType
  <2> QED
    BY <1>1, <2>1, <2>2
<1> HIDE DEF in
<1>8. s \in [1..k -> Segments]
  BY <1>5, <1>6, CapacityType DEF Segments
<1>a. k \in Nat
  BY Zenon, <1>1
<1>9. s \in Seq(Segments) /\ Len(s) = k
  BY <1>8, <1>a, DirSeq, Zenon
<1>10. \A d \in 1..k : s[d].next = in(d) /\ s[d].live = in(d) /\ s[d].dead = 0
  BY <1>5
<1>11. ASSUME NEW p \in Positions PROVE UsedIn(s, p) <=> p < n
  <2>1. Dir(p) \in 1..MaxDir /\ Off(p) \in 0..(Capacity - 1) /\ p = B(Dir(p)) + Off(p)
    BY Zenon, PosSplit DEF B
  <2>2. CASE Dir(p) <= k
    <3>1. Dir(p) \in 1..k
      BY <1>a, <2>1, <2>2
    <3>2. s[Dir(p)].next = in(Dir(p))
      BY Zenon, <1>10, <3>1
    <3>3. Off(p) < in(Dir(p)) <=> B(Dir(p)) + Off(p) < n
      BY Zenon, <1>7, <2>1, <3>1
    <3> QED
      BY Zenon, <1>9, <2>1, <2>2, <3>2, <3>3 DEF UsedIn
  <2>3. CASE Dir(p) > k
    <3>1. B(k) + Capacity <= B(Dir(p)) /\ B(Dir(p)) \in Int /\ B(k) \in Int
      BY <1>1, <1>2, <1>3, <2>1, <2>3
    <3>2. n <= B(k) + Capacity
      BY <1>1, <1>2
    <3>3. ~(p < n)
      BY <1>0, <2>1, <3>1, <3>2, CapacityType
    <3> QED
      BY <1>1, <1>9, <2>1, <2>3, <3>3 DEF UsedIn
  <2> QED
    BY <1>1, <2>1, <2>2, <2>3
<1>12. Counted(s, {})
  <2> SUFFICES ASSUME NEW d \in 1..k
               PROVE  s[d].live = Cardinality(Used(s, d) \ {}) /\ s[d].dead = Cardinality(Used(s, d) \cap {})
    BY ZenonT(40), <1>9 DEF Counted
  <2>a. d \in Int /\ d \in 1..MaxDir
    BY <1>a, <1>4, CapacityType
  <2>0. d \in 1..MaxDir /\ B(d) \in Int /\ in(d) \in 0..Capacity
    BY Zenon, <1>2, <1>6, <2>a
  <2>1. Used(s, d) = B(d)..(B(d) + in(d) - 1)
    <3>1. ASSUME NEW p \in Used(s, d) PROVE p \in B(d)..(B(d) + in(d) - 1)
      <4>1. p \in Positions /\ Dir(p) = d /\ Off(p) < in(d)
        BY ZenonT(40), <1>10, <3>1 DEF Used, UsedIn
      <4>2. Off(p) \in 0..(Capacity - 1) /\ p = B(d) + Off(p)
        BY Zenon, <4>1, PosSplit DEF B
      <4> QED
        BY <2>0, <4>1, <4>2, CapacityType
    <3>2. ASSUME NEW p \in B(d)..(B(d) + in(d) - 1) PROVE p \in Used(s, d)
      <4> DEFINE o == p - B(d)
      <4>1. o \in 0..(Capacity - 1) /\ o < in(d) /\ p = B(d) + o
        BY <2>0, <3>2, CapacityType
      <4> HIDE DEF o
      <4>2. p \in Positions /\ Dir(p) = d /\ Off(p) = o
        BY Zenon, <2>0, <4>1, PosAt DEF B
      <4>a. d <= k
        BY <1>a
      <4>3. d <= Len(s) /\ s[d].next = in(d)
        BY <1>9, <1>10, <4>a, Zenon
      <4> QED
        BY Zenon, <4>1, <4>2, <4>3 DEF Used, UsedIn
    <3> QED
      BY ZenonT(40), <3>1, <3>2
  <2>2. Cardinality(B(d)..(B(d) + in(d) - 1)) = in(d)
    <3>1. B(d) + in(d) - 1 \in Int /\ in(d) \in Nat
      BY <2>0, CapacityType
    <3> DEFINE hi == B(d) + in(d) - 1
    <3>2. hi \in Int /\ in(d) = hi - B(d) + 1 /\ (B(d) > hi <=> in(d) = 0)
      BY <2>0, <3>1
    <3> HIDE DEF hi
    <3>3. Cardinality(B(d)..hi) = IF B(d) > hi THEN 0 ELSE hi - B(d) + 1
      BY ZenonT(40), <2>0, <3>2, CountInterval
    <3>4. Cardinality(B(d)..hi) = in(d)
      BY Zenon, <3>2, <3>3
    <3> QED
      BY Zenon, <3>4 DEF hi
  <2>3. Used(s, d) \ {} = Used(s, d) /\ Used(s, d) \cap {} = {}
    BY Zenon
  <2> QED
    BY ZenonT(40), <1>10, <2>1, <2>2, <2>3, CountEmpty
<1> QED
  BY ZenonT(40), <1>4, <1>9, <1>11, <1>12

\* Renumbering the live slots densely, in order, is a bijection onto the first
\* positions.
LEMMA NewPosIs ==
  ASSUME Counting
  PROVE
  LET n == Cardinality(Live) IN
  /\ n \in 0..(MaxDir * Capacity)
  /\ \A p \in Live : NewPos(p) \in 0..(n - 1) /\ NewPos(p) \in Positions
  /\ \A p, q \in Live : NewPos(p) = NewPos(q) => p = q
  /\ \A j \in 0..(n - 1) : \E p \in Live : NewPos(p) = j
<1> DEFINE n == Cardinality(Live)
           Below(p) == {q \in Live : q < p}
<1>1. Live \in SUBSET Positions /\ IsFiniteSet(Live) /\ n \in Nat
  BY Zenon, PosFinite DEF Live
<1>2. MaxDir * Capacity \in Nat
  BY CapacityType
<1>3. n <= MaxDir * Capacity
  <2>1. IsFiniteSet(Positions) /\ Cardinality(Positions) = MaxDir * Capacity
    BY <1>2, CountInterval DEF Positions
  <2> QED
    BY Zenon, <1>1, <2>1, CountSubset
<1>4. \A p \in Live : p \in Int
  BY <1>1, <1>2 DEF Positions
<1>5. ASSUME NEW p \in Live
      PROVE  Cardinality(Below(p)) \in 0..(n - 1)
  <2>1. Below(p) \in SUBSET (Live \ {p}) /\ IsFiniteSet(Live \ {p})
    BY <1>1, <1>4, CountSubset
  <2>2. Cardinality(Live \ {p}) = n - 1
    BY Zenon, <1>1, CountRemove
  <2>3. Cardinality(Below(p)) <= Cardinality(Live \ {p}) /\ IsFiniteSet(Below(p))
    BY Zenon, <2>1, CountSubset
  <2>4. Cardinality(Below(p)) \in Nat
    BY Zenon, <2>3, CountType
  <2> QED
    BY <1>1, <2>2, <2>3, <2>4
<1>6. ASSUME NEW p \in Live, NEW q \in Live, p < q
      PROVE  Cardinality(Below(p)) < Cardinality(Below(q))
  <2>1. Below(p) \cup {p} \in SUBSET Below(q) /\ p \notin Below(p)
    BY <1>4, <1>6
  <2>2. IsFiniteSet(Below(p)) /\ IsFiniteSet(Below(q))
    BY Zenon, <1>1, CountSubset
  <2>3. Cardinality(Below(p) \cup {p}) = Cardinality(Below(p)) + 1
    BY Zenon, <2>1, <2>2, CountAdd
  <2>4. Cardinality(Below(p) \cup {p}) <= Cardinality(Below(q))
    BY Zenon, <2>1, <2>2, CountSubset
  <2>5. Cardinality(Below(p)) \in Nat /\ Cardinality(Below(q)) \in Nat
    BY Zenon, <2>2, CountType
  <2> QED
    BY <2>3, <2>4, <2>5
<1>7. \A p \in Live : NewPos(p) = Cardinality(Below(p))
  BY Zenon DEF NewPos
<1> HIDE DEF Below, n
<1>8. \A p \in Live : NewPos(p) \in 0..(n - 1)
  BY Zenon, <1>5, <1>7
<1>9. \A p, q \in Live : NewPos(p) = NewPos(q) => p = q
  <2> SUFFICES ASSUME NEW p \in Live, NEW q \in Live, NewPos(p) = NewPos(q), p # q
               PROVE  FALSE
    BY Zenon
  <2>1. NewPos(p) \in Int /\ NewPos(q) \in Int
    BY <1>1, <1>8
  <2>2. p < q \/ q < p
    BY <1>4
  <2> QED
    BY <1>6, <1>7, <2>1, <2>2
<1>10. \A j \in 0..(n - 1) : \E p \in Live : NewPos(p) = j
  <2> DEFINE f == [p \in Live |-> NewPos(p)]
  <2> DEFINE T == 0..(n - 1)
  <2>1. OneToOne(f, Live, T)
    BY Zenon, <1>8, <1>9 DEF OneToOne
  <2>2. IsFiniteSet(T) /\ Cardinality(T) = n
    BY <1>1, CountInterval
  <2>3. Cardinality(Live) = n
    BY Zenon DEF n
  <2>4. \A j \in T : \E p \in Live : f[p] = j
    <3> HIDE DEF f, T
    <3> QED BY <2>1, <2>2, <2>3, CountOnto
  <2> QED
    BY Zenon, <2>4
<1>11. \A j \in 0..(n - 1) : j \in Positions
  BY <1>1, <1>2, <1>3 DEF Positions
<1> QED
  BY <1>1, <1>2, <1>3, <1>8, <1>9, <1>10, <1>11 DEF n

-----------------------------------------------------------------------------
(* The undo log.                                                           *)

\* The primed form of RangeUsed.
LEMMA RangeUsedNext == \A p : InRange(p)' <=> UsedIn(seg', p)
BY Zenon DEF InRange, UsedIn, Off

\* One more entry on the log.
LEMMA LogPush ==
  ASSUME NEW e \in Entries, undo \in Seq(Entries), undo' = Append(undo, e)
  PROVE  /\ undo' \in Seq(Entries) /\ Len(undo') = Len(undo) + 1 /\ Len(undo) \in Nat
         /\ \A n \in 1..Len(undo) : undo'[n] = undo[n]
         /\ undo'[Len(undo) + 1] = e
         /\ Appended' = IF e.op = "append" THEN Appended \cup {e.pos} ELSE Appended
         /\ ReplacedSome' <=> ReplacedSome \/ e.op = "untomb"
<1>1. /\ undo' \in Seq(Entries) /\ Len(undo') = Len(undo) + 1 /\ Len(undo) \in Nat
      /\ \A n \in 1..Len(undo) : undo'[n] = undo[n]
      /\ undo'[Len(undo) + 1] = e
  OBVIOUS
<1>2. \A n : n \in 1..Len(undo') <=> n \in 1..Len(undo) \/ n = Len(undo) + 1
  BY <1>1
<1>3. Appended' = IF e.op = "append" THEN Appended \cup {e.pos} ELSE Appended
  BY <1>1, <1>2 DEF Appended, Log
<1>4. ReplacedSome' <=> ReplacedSome \/ e.op = "untomb"
  BY Zenon, <1>1, <1>2 DEF ReplacedSome
<1> QED
  BY Zenon, <1>1, <1>3, <1>4

\* One entry less.
LEMMA LogPop ==
  ASSUME undo \in Seq(Entries), undo # <<>>, undo' = SubSeq(undo, 1, Len(undo) - 1),
         NEW e, e = undo[Len(undo)]
  PROVE  /\ e \in Entries /\ undo' \in Seq(Entries) /\ Len(undo') = Len(undo) - 1
         /\ Len(undo) \in Nat \ {0}
         /\ \A n \in 1..Len(undo') : undo'[n] = undo[n]
         /\ Appended = IF e.op = "append" THEN Appended' \cup {e.pos} ELSE Appended'
         /\ ReplacedSome' => ReplacedSome
<1>1. /\ e \in Entries /\ undo' \in Seq(Entries) /\ Len(undo') = Len(undo) - 1
      /\ Len(undo) \in Nat \ {0}
      /\ \A n \in 1..Len(undo') : undo'[n] = undo[n]
  <2>1. Len(undo) \in Nat \ {0} /\ e \in Entries
    OBVIOUS
  <2>2. Len(undo) - 1 \in 0..Len(undo)
    BY <2>1
  <2> DEFINE l == Len(undo) - 1
  <2>a. l \in Int /\ l \in Nat /\ \A n \in 1..l : undo[n] \in Entries
    BY <2>1
  <2>3. undo' \in Seq(Entries) /\ Len(undo') = IF 1 <= l THEN l - 1 + 1 ELSE 0
    BY <2>a
  <2>4. \A n \in 1..(l - 1 + 1) : undo'[n] = undo[1 + n - 1]
    BY <2>a
  <2> HIDE DEF l
  <2>5. Len(undo') = l /\ \A n \in 1..l : undo'[n] = undo[n]
    BY <2>a, <2>3, <2>4
  <2> QED
    BY Zenon, <2>1, <2>3, <2>5 DEF l
<1>2. \A n : n \in 1..Len(undo) <=> n \in 1..Len(undo') \/ n = Len(undo)
  BY <1>1
<1>3. Appended = IF e.op = "append" THEN Appended' \cup {e.pos} ELSE Appended'
  BY <1>1, <1>2 DEF Appended, Log
<1>4. ReplacedSome' => ReplacedSome
  BY Zenon, <1>1, <1>2 DEF ReplacedSome
<1> QED
  BY Zenon, <1>1, <1>3, <1>4

\* A point of the map is live, at a position, with its id and values.
LEMMA Mapped ==
  ASSUME EInv, NEW i \in Ids, fwd[i] # None
  PROVE  /\ fwd[i] \in Positions /\ InRange(fwd[i]) /\ fwd[i] \notin tomb
         /\ slot[fwd[i]].id = i /\ slot[fwd[i]].vec \in Vals /\ slot[fwd[i]].meta \in Vals
BY DEF EInv, Shape, Tables

-----------------------------------------------------------------------------
(* What writes no point: the start, readers, sealing and commits.          *)

\* The empty engine is consistent.
LEMMA InitEInv == Init => EInv
<1> SUFFICES ASSUME Init PROVE EInv
  BY Zenon
<1> USE DEF Init
<1>1. undo = <<>> /\ Len(undo) = 0 /\ Log = {} /\ seg = <<>> /\ Len(seg) = 0 /\ tomb = {}
  BY DEF Log
<1>2. \A p \in Positions : ~InRange(p)
  <2> SUFFICES ASSUME NEW p \in Positions, InRange(p) PROVE FALSE
    BY Zenon
  <2>1. Dir(p) \in 1..MaxDir
    BY Zenon, PosSplit
  <2> QED
    BY <2>1, <1>1, CapacityType DEF InRange
<1>3. Shape
  BY <1>1, CapacityType DEF Shape, Slots
<1>4. Tables
  BY Zenon, <1>1, <1>2 DEF Tables
<1>5. Counted(seg, tomb)
  BY <1>1 DEF Counted
<1>6. Versions
  BY Zenon, <1>1, <1>2 DEF Versions
<1>7. Reversible /\ txn # "aborting"
  BY Zenon, <1>1 DEF Reversible
<1> QED
  BY Zenon, <1>3, <1>4, <1>5, <1>6, <1>7 DEF EInv

\* Steps that leave the tables and the log alone keep them consistent.
LEMMA StillEInv ==
  ASSUME EInv, UNCHANGED <<slot, tomb, seg, openIdx, fwd, undo>>,
         clock' \in Nat \ {0}, stamp' \subseteq Positions,
         txn' \in {"idle", "active", "committing", "aborting", "repointing"},
         txn' \in {"active", "committing"} => stamp' = Appended,
         txn' \in {"idle", "repointing"} => stamp' = {} /\ undo = <<>>,
         txn' = "aborting" => ~ReplacedSome
  PROVE  EInv'
<1>1. Shape'
  BY Zenon DEF EInv, Shape
<1>2. (\A p : InRange(p)' <=> InRange(p)) /\ Appended' = Appended /\ Log' = Log
      /\ ReplacedSome' = ReplacedSome
  BY Zenon DEF InRange, Appended, Log, ReplacedSome
<1>3. Tables'
  BY Zenon, <1>2 DEF EInv, Tables
<1>4. Counted(seg, tomb)'
  BY Zenon DEF EInv, Counted, Used, UsedIn
<1>5. Versions'
  BY Zenon, <1>2 DEF EInv, Versions
<1>6. Reversible'
  BY <1>2 DEF EInv, Reversible, Undoable
<1> QED
  BY Zenon, <1>1, <1>2, <1>3, <1>4, <1>5, <1>6 DEF EInv

\* Opening, numbering, starting and ending a rollback, the hook, and readers.
LEMMA QuietEInv ==
  ASSUME EInv, Aborts # "any",
         \/ Begin \/ NextSeq \/ Abort \/ Aborted \/ HookReturns \/ Fetch
         \/ \E i \in Ids : LookupID(i)
         \/ UNCHANGED vars
  PROVE  EInv'
<1> USE DEF table, writer, readers, others
<1>1. Shape /\ Versions /\ (txn = "aborting" => ~ReplacedSome)
  BY Zenon DEF EInv
<1>2. CASE Begin
  <2>1. Appended = {}
    BY <1>1, <1>2 DEF Begin, Versions, Appended, Log
  <2> QED
    BY Zenon, <1>1, <1>2, <2>1, StillEInv DEF Begin, Shape, Versions
<1>3. CASE NextSeq
  <2>1. clock + 1 \in Nat \ {0}
    BY <1>1 DEF Shape
  <2> QED
    BY Zenon, <1>1, <1>3, <2>1, StillEInv DEF NextSeq, Shape, Versions
<1>4. CASE Abort
  BY Zenon, <1>1, <1>4, StillEInv DEF Abort, Shape
<1>5. CASE Aborted
  BY Zenon, <1>1, <1>5, StillEInv DEF Aborted, Shape
<1>6. CASE HookReturns
  BY Zenon, <1>1, <1>6, StillEInv DEF HookReturns, Shape, Versions
<1>8. CASE Fetch
  BY Zenon, <1>1, <1>8, StillEInv DEF Fetch, Shape, Versions
<1>9. ASSUME NEW i \in Ids, LookupID(i) PROVE EInv'
  BY Zenon, <1>1, <1>9, StillEInv DEF LookupID, Shape, Versions
<1>11. CASE UNCHANGED vars
  BY Zenon, <1>1, <1>11, StillEInv DEF vars, Shape, Versions
<1> QED
  BY Zenon, <1>2, <1>3, <1>4, <1>5, <1>6, <1>8, <1>9, <1>11

\* Versions and seals do not matter to the tables, the counters and the log.
LEMMA Unmoved ==
  ASSUME EInv, UNCHANGED <<tomb, fwd>>, undo' = undo \/ undo' = <<>>,
         seg' \in Seq(Segments), Len(seg') = Len(seg),
         \A d \in 1..Len(seg) : /\ seg'[d].next = seg[d].next
                                /\ seg'[d].live = seg[d].live
                                /\ seg'[d].dead = seg[d].dead,
         slot' \in [Positions -> Slots],
         \A p \in Positions : /\ slot'[p].id = slot[p].id
                              /\ slot'[p].vec = slot[p].vec
                              /\ slot'[p].meta = slot[p].meta
  PROVE  /\ \A p \in Positions : InRange(p)' <=> InRange(p)
         /\ Tables' /\ Counted(seg, tomb)' /\ Reversible'
<1>0. Shape /\ Tables /\ Counted(seg, tomb) /\ Reversible /\ Len(seg) \in Nat
  BY DEF EInv, Shape
<1>1. /\ \A p \in Positions : UsedIn(seg', p) <=> UsedIn(seg, p)
      /\ \A d \in 1..Len(seg) : Used(seg', d) = Used(seg, d)
  BY Zenon, <1>0, SameUsed
<1>2. \A p \in Positions : InRange(p)' <=> InRange(p)
  BY Zenon, <1>1, RangeUsed, RangeUsedNext
<1>3. Tables'
  BY SMTT(40), <1>0, <1>2 DEF Tables, Shape
<1>4. Counted(seg, tomb)'
  BY ZenonT(40), <1>0, <1>1 DEF Counted
<1>5. Reversible'
  <2>1. CASE undo' = <<>>
    BY <2>1 DEF Reversible, Log
  <2>2. CASE undo' = undo
    <3>1. Log' = Log /\ ReplacedSome' = ReplacedSome /\ \A n \in Log : undo[n] \in Entries
      BY <2>2, <1>0 DEF Log, ReplacedSome, Shape
    <3> SUFFICES ASSUME NEW n \in Log, Undoable(n) PROVE Undoable(n)'
      BY Zenon, <1>0, <3>1 DEF Reversible
    <3>2. undo[n].pos \in Positions
      BY Zenon, <3>1 DEF Entries
    <3> QED
      BY <2>2, <1>2, <3>2 DEF Undoable
  <2> QED
    BY Zenon, <2>1, <2>2
<1> QED
  BY Zenon, <1>2, <1>3, <1>4, <1>5

\* SealSegment, which moves no slot.
LEMMA SealEInv ==
  ASSUME EInv, SealSegment
  PROVE  EInv' /\ \A p \in Positions : InRange(p)' <=> InRange(p)
<1>0. Shape /\ Versions
  BY Zenon DEF EInv
<1>1. openIdx \in 1..Len(seg) /\ Len(seg) \in Nat
  BY <1>0 DEF Shape, SealSegment
<1> DEFINE x == [seg[openIdx] EXCEPT !.sealed = TRUE]
<1>a. seg \in Seq(Segments) /\ seg[openIdx] \in Segments
  BY <1>0, <1>1 DEF Shape
<1>b. /\ x \in Segments /\ x.next = seg[openIdx].next /\ x.live = seg[openIdx].live
      /\ x.dead = seg[openIdx].dead
  BY ZenonT(40), <1>a DEF Segments
<1>c. seg' = [seg EXCEPT ![openIdx] = x]
  BY Zenon DEF SealSegment
<1> HIDE DEF x
<1>2. seg' \in Seq(Segments) /\ Len(seg') = Len(seg)
      /\ \A d \in 1..Len(seg) : /\ seg'[d].next = seg[d].next
                                /\ seg'[d].live = seg[d].live
                                /\ seg'[d].dead = seg[d].dead
  BY <1>1, <1>a, <1>b, <1>c
<1>3. UNCHANGED <<slot, tomb, fwd, clock, undo, txn, stamp>> /\ openIdx' = 0
  BY Zenon DEF SealSegment, writer
<1>4. slot \in [Positions -> Slots]
  BY Zenon, <1>0 DEF Shape
<1>5. (\A p \in Positions : InRange(p)' <=> InRange(p)) /\ Tables' /\ Counted(seg, tomb)'
      /\ Reversible'
  BY Zenon, <1>2, <1>3, <1>4, Unmoved
<1>6. Shape'
  BY <1>0, <1>2, <1>3 DEF Shape
<1>7. Versions' /\ ReplacedSome' = ReplacedSome
  BY Zenon, <1>0, <1>3, <1>5 DEF Versions, Appended, Log, ReplacedSome
<1> QED
  BY Zenon, <1>3, <1>5, <1>6, <1>7 DEF EInv

\* Commit stamps the slots its transaction appended.
LEMMA CommitEInv ==
  ASSUME EInv, Commit
  PROVE  EInv'
<1>0. Shape /\ Versions /\ Counted(seg, tomb)
  BY Zenon DEF EInv
<1>1. UNCHANGED <<tomb, seg, openIdx, fwd, clock>> /\ undo' = <<>> /\ stamp' = {}
      /\ txn' = "idle" /\ stamp = Appended
  BY Zenon, <1>0 DEF Commit, Versions
<1>2. clock \in Nat \ {0} /\ slot \in [Positions -> Slots] /\ seg \in Seq(Segments)
  BY Zenon, <1>0 DEF Shape
<1>3. \A p \in Positions : slot'[p] = IF p \in stamp THEN [slot[p] EXCEPT !.ver = clock]
                                      ELSE slot[p]
  BY Zenon DEF Commit
<1>4. slot' \in [Positions -> Slots]
  BY ZenonT(40), <1>2 DEF Commit, Slots
<1>5. \A p \in Positions : /\ slot'[p].id = slot[p].id
                           /\ slot'[p].vec = slot[p].vec
                           /\ slot'[p].meta = slot[p].meta
                           /\ slot'[p].ver = IF p \in stamp THEN clock ELSE slot[p].ver
  BY ZenonT(40), <1>2, <1>3 DEF Slots
<1>6. (\A p \in Positions : InRange(p)' <=> InRange(p)) /\ Tables' /\ Counted(seg, tomb)'
      /\ Reversible'
  BY Zenon, <1>1, <1>2, <1>4, <1>5, Unmoved
<1>7. Shape'
  BY <1>0, <1>1, <1>4 DEF Shape
<1>8. Appended' = {}
  BY <1>1 DEF Appended, Log
<1>9. Versions'
  BY <1>0, <1>1, <1>2, <1>5, <1>6, <1>8 DEF Versions
<1> QED
  BY Zenon, <1>1, <1>6, <1>7, <1>9 DEF EInv

-----------------------------------------------------------------------------
(* Compaction.                                                             *)

\* What Compact leaves: the live slots, renumbered densely, and the id-map
\* renumbered with them.
LEMMA CompactIs ==
  ASSUME Counting, EInv, Compact
  PROVE  /\ seg' \in Seq(Segments) /\ Len(seg') <= MaxDir /\ openIdx' \in 0..Len(seg')
         /\ Counted(seg', tomb') /\ tomb' = {} /\ slot' \in [Positions -> Slots]
         /\ \A p \in Live : NewPos(p) \in Positions /\ slot'[NewPos(p)] = slot[p]
         /\ \A q \in Positions : InRange(q)' <=> \E p \in Live : NewPos(p) = q
         /\ \A p, q \in Live : NewPos(p) = NewPos(q) => p = q
         /\ \A i \in Ids : fwd[i] # None => fwd[i] \in Live
         /\ fwd' \in [Ids -> Positions \cup {None}]
         /\ \A i \in Ids : fwd'[i] = IF fwd[i] = None THEN None ELSE NewPos(fwd[i])
<1> DEFINE n == Cardinality(Live)  k == (n + Capacity - 1) \div Capacity
           At(i) == {p \in Live : slot[p].id = i}
<1>0. Shape /\ Tables
  BY Zenon DEF EInv
<1>1. /\ n \in 0..(MaxDir * Capacity)
      /\ \A p \in Live : NewPos(p) \in 0..(n - 1) /\ NewPos(p) \in Positions
      /\ \A p, q \in Live : NewPos(p) = NewPos(q) => p = q
      /\ \A j \in 0..(n - 1) : \E p \in Live : NewPos(p) = j
  BY Zenon, NewPosIs
<1>2. seg' = [d \in 1..k |->
               [next |-> IF d < k THEN Capacity ELSE n - (k - 1) * Capacity,
                sealed |-> d < k,
                live |-> IF d < k THEN Capacity ELSE n - (k - 1) * Capacity,
                dead |-> 0]]
      /\ openIdx' = k /\ tomb' = {}
  BY Zenon DEF Compact
<1>3. /\ seg' \in Seq(Segments) /\ Len(seg') = k /\ k <= MaxDir
      /\ \A p \in Positions : UsedIn(seg', p) <=> p < n
      /\ Counted(seg', {})
  <2> HIDE DEF n
  <2> QED
    BY <1>1, <1>2, PackedIs
<1>4. k \in Nat
  <2> HIDE DEF n
  <2> QED
    BY <1>1, DivUp
<1> HIDE DEF n, k
<1>5. \A q \in Positions : InRange(q)' <=> \E p \in Live : NewPos(p) = q
  <2> SUFFICES ASSUME NEW q \in Positions
               PROVE  q < n <=> \E p \in Live : NewPos(p) = q
    BY Zenon, <1>3, RangeUsedNext
  <2>1. q \in Nat /\ n \in Nat
    BY <1>1, CapacityType DEF Positions
  <2> QED
    BY <1>1, <2>1
<1>6. /\ slot' \in [Positions -> Slots]
      /\ \A p \in Live : slot'[NewPos(p)] = slot[p]
  <2> DEFINE Src(q) == CHOOSE p \in Live : NewPos(p) = q
  <2>1. slot' = [q \in Positions |->
                   IF \E p \in Live : NewPos(p) = q THEN slot[Src(q)] ELSE slot[q]]
    BY Zenon DEF Compact
  <2>2. \A q : (\E p \in Live : NewPos(p) = q) => Src(q) \in Live /\ NewPos(Src(q)) = q
    BY Zenon
  <2>3. Live \subseteq Positions
    BY Zenon DEF Live
  <2> HIDE DEF Src
  <2>4. slot' \in [Positions -> Slots]
    BY Zenon, <1>0, <2>1, <2>2, <2>3 DEF Shape
  <2>5. ASSUME NEW p \in Live PROVE slot'[NewPos(p)] = slot[p]
    <3>1. Src(NewPos(p)) \in Live /\ NewPos(Src(NewPos(p))) = NewPos(p)
      BY Zenon, <2>2
    <3>2. Src(NewPos(p)) = p
      BY Zenon, <3>1, <1>1
    <3> QED
      BY Zenon, <2>1, <3>2, <1>1
  <2> QED
    BY Zenon, <2>4, <2>5
<1>7. \A i \in Ids : fwd[i] # None => fwd[i] \in Live
  BY Zenon, Mapped DEF Live
<1>8. fwd' = [i \in Ids |-> IF fwd[i] = None \/ At(i) = {} THEN None
                            ELSE NewPos(CHOOSE p \in At(i) : \A q \in At(i) : q <= p)]
  BY Zenon DEF Compact
<1>9. ASSUME NEW i \in Ids
      PROVE  fwd'[i] = IF fwd[i] = None THEN None ELSE NewPos(fwd[i])
  <2>1. CASE fwd[i] = None
    BY Zenon, <2>1, <1>8
  <2>2. CASE fwd[i] # None
    <3>1. At(i) = {fwd[i]}
      BY <2>2, <1>0, <1>7, Mapped DEF Tables, Live
    <3>2. fwd[i] <= fwd[i]
      BY <2>2, Mapped, CapacityType DEF Positions
    <3>3. (CHOOSE p \in {fwd[i]} : \A q \in {fwd[i]} : q <= p) = fwd[i]
      BY Zenon, <3>2
    <3> HIDE DEF At
    <3> QED
      BY <2>2, <3>1, <3>3, <1>8
  <2> QED
    BY Zenon, <2>1, <2>2
<1>10. fwd' \in [Ids -> Positions \cup {None}]
  <2>1. DOMAIN fwd' = Ids /\ fwd' = [i \in Ids |-> fwd'[i]]
    BY <1>8
  <2> QED
    BY <2>1, <1>1, <1>7, <1>9
<1>11. Len(seg') <= MaxDir /\ openIdx' \in 0..Len(seg') /\ tomb' = {}
  BY <1>2, <1>3, <1>4
<1>12. Counted(seg', tomb')
  BY Zenon, <1>3, <1>11
<1> QED
  BY <1>1, <1>3, <1>5, <1>6, <1>7, <1>9, <1>10, <1>11, <1>12, Zenon

\* Compact.
LEMMA CompactEInv ==
  ASSUME Counting, EInv, Compact
  PROVE  EInv'
<1>0. Shape /\ Tables /\ Versions
  BY Zenon DEF EInv
<1>1. UNCHANGED <<clock, undo, stamp>> /\ txn = "idle" /\ txn' = "repointing"
  BY Zenon DEF Compact
<1>2. undo = <<>> /\ stamp = {} /\ Appended = {} /\ Appended' = {} /\ Log' = {}
  BY <1>0, <1>1 DEF Versions, Appended, Log
<1>3. Shape'
  BY Zenon, <1>0, <1>1, CompactIs DEF Shape
<1>4. \A p \in Live : /\ p \in Positions /\ InRange(p) /\ p \notin tomb
                      /\ slot[p].id \in Ids /\ slot[p].vec \in Vals /\ slot[p].meta \in Vals
                      /\ fwd[slot[p].id] = p /\ slot[p].ver # 0
  BY Zenon, <1>0, <1>2 DEF Live, Tables, Versions
<1>5. \A q \in Positions : InRange(q)' => \E p \in Live : NewPos(p) = q /\ slot'[q] = slot[p]
  BY CompactIs
<1>6. Tables'
  <2>1. \A q \in Positions : InRange(q)' =>
          slot'[q].id \in Ids /\ slot'[q].vec \in Vals /\ slot'[q].meta \in Vals
    BY Zenon, <1>4, <1>5
  <2>2. tomb' = {}
    BY Zenon, CompactIs
  <2>3. \A q \in Positions : InRange(q)' /\ q \notin tomb' => fwd'[slot'[q].id] = q
    BY <1>4, <1>5, CompactIs, NoneApart
  <2>4. ASSUME NEW i \in Ids, fwd'[i] # None
        PROVE  InRange(fwd[i])' /\ fwd'[i] \notin tomb' /\ slot'[fwd'[i]].id = i
    <3>1. fwd[i] # None /\ fwd'[i] = NewPos(fwd[i]) /\ fwd[i] \in Live
      BY Zenon, <2>4, CompactIs
    <3>2. fwd'[i] \in Positions /\ slot'[fwd'[i]] = slot[fwd[i]] /\ slot[fwd[i]].id = i
      BY <3>1, CompactIs, Mapped
    <3>3. \A q : q = fwd'[i] => (InRange(fwd[i])' <=> InRange(q)')
      BY Zenon DEF InRange
    <3>4. \A q \in Positions : (\E p \in Live : NewPos(p) = q) => InRange(q)'
      BY Zenon, CompactIs
    <3> QED
      BY Zenon, <2>2, <3>1, <3>2, <3>3, <3>4
  <2> QED
    BY Zenon, <2>1, <2>2, <2>3, <2>4 DEF Tables
<1>7. Versions'
  BY <1>1, <1>2, <1>4, <1>5 DEF Versions
<1>8. Counted(seg, tomb)'
  BY Zenon, CompactIs
<1> QED
  BY Zenon, <1>1, <1>2, <1>3, <1>6, <1>7, <1>8 DEF EInv, Reversible
=============================================================================

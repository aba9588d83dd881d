----------------------------- MODULE WALInv ---------------------------------
(***************************************************************************)
(* What the log guarantees for every number of slots, payloads and         *)
(* crashes: the writer always stands at the end of an intact chain, an     *)
(* acknowledged commit survives, and the commits of a generation survive   *)
(* as a prefix, each whole.                                                *)
(***************************************************************************)
EXTENDS WAL, TLAPS

Follows(fr, last) == fr.kind = "frame" /\ fr.prev = last

\* b is the batch frame that f holds at its slot, below slot c.
BatchOf(f, b, c) ==
  /\ b[1] \in 1..(c - 1)
  /\ b = <<b[1], f[b[1]]>>
  /\ f[b[1]].type = "batch"

\* Every process that has the log open stands at the end of the chain in its
\* view of the file; so does one that closed it without a crash.
WriterInv ==
  /\ DOMAIN file = Slots /\ DOMAIN disk = Slots
  /\ tail \in 1..(MaxSlots + 1) /\ batchN \in Nat
  /\ pc \in {"absent", "creating", "open", "syncing", "flushing", "rotating",
             "closed"}
  /\ pc \in {"absent", "creating"} => tail = 1
  /\ pc # "absent" => Readable(file)
  /\ pc \notin {"absent", "creating"} => Readable(disk)
  /\ pc # "absent" /\ (pc = "closed" => disk # file) =>
       /\ salt = file[0].salt
       /\ Chained(file, tail - 1)
       /\ lastSum = file[tail - 1]

\* Batch b is before a commit frame, the chain up to that frame is durable,
\* and no write since the last sync touches it.
Safe(b) ==
  \E c \in 1..MaxSlots :
    /\ Chained(disk, c) /\ disk[c].type = "commit"
    /\ \A j \in 0..c : file[j] = disk[j]
    /\ pc = "closed" \/ c < tail
    /\ BatchOf(disk, b, c)

AckInv ==
  /\ \A b \in acked : b \in main \/ Safe(b)
  /\ pc \in {"flushing", "rotating"} => acked \subseteq main
  /\ pc \in {"absent", "creating"} => acked = {}
  /\ pc = "open" => \A b \in cur : BatchOf(file, b, tail)
  /\ cur # {} => pc = "open" /\ batchN > 0
  /\ pc = "syncing" =>
       /\ tail >= 2 /\ file[tail - 1].type = "commit"
       /\ groups # <<>>
       /\ \A b \in groups[Len(groups)] : BatchOf(file, b, tail - 1)
  /\ groups \in Seq(SUBSET called)

\* The batch of a frame, and the one of the frame before it, is one of the
\* logged payloads u.
Logged(fr, u) == fr.kind = "frame" => (fr.type = "batch" => fr.pay \in u)
WellMade(fr, u) == fr.kind = "frame" => Logged(fr, u) /\ Logged(fr.prev, u)

\* What d holds behind batch b of f does not follow b, unless f holds it too.
Alone(d, f, b) ==
  b[1] < MaxSlots /\ Follows(d[b[1] + 1], f[b[1]]) => d[b[1] + 1] = f[b[1] + 1]

Lone(d, f, G) == \A b \in G : Alone(d, f, b)

\* Nothing that an earlier incarnation left on disk follows a batch of this
\* generation's commits or one logged since, whatever it follows otherwise.
StaleInv ==
  /\ \A j \in Slots : WellMade(file[j], used) /\ WellMade(disk[j], used)
  /\ \A b \in cur : Alone(disk, file, b)
  /\ \A g \in 1..Len(groups) : \A b \in groups[g] : Alone(disk, file, b)
  /\ cur # {} /\ tail <= MaxSlots => ~Follows(disk[tail], lastSum)

\* Each slot of h is as in f, as in d or torn.
Mixed(h, f, d) == \A j \in Slots : h[j] \in {f[j], d[j], Torn}

\* A commit frame of f lies between the batches b and d.
Split(f, b, d) == \E c \in b[1]..d[1] : f[c].type = "commit"

\* Of the commits gs the first n are recovered from f, each whole, and nothing
\* of the others is.
Whole(f, gs, n) ==
  \A i \in 1..Len(gs) :
    IF i <= n THEN gs[i] \subseteq Recovered(f)
    ELSE gs[i] \cap Recovered(f) = {}

\* The batches G, up to their commit frame c of f, have nothing between them.
Own(f, G, c) ==
  \A b \in G : BatchOf(f, b, c) /\ \A k \in b[1]..(c - 1) : <<k, f[k]>> \in G

\* The first n commits of gs lie in the first t frames of f, in order.
GroupsIn(f, gs, n, t) ==
  /\ Chained(f, t)
  /\ \A g \in 1..n : gs[g] # {} => \E c \in 1..t :
       f[c].type = "commit" /\ Own(f, gs[g], c)
  /\ \A g, h \in 1..n :
       g < h => \A b \in gs[g], d \in gs[h] : Split(f, b, d)

GroupInv ==
  /\ pc \in {"open", "syncing", "flushing"} =>
       /\ GroupsIn(file, groups, Len(groups), tail - 1)
       /\ Own(file, cur, tail)
       /\ \A d \in cur : \A g \in 1..Len(groups) :
            \A b \in groups[g] : Split(file, b, d)
  /\ pc \in {"absent", "creating"} => groups = <<>>
  /\ pc = "rotating" =>
       /\ \A j \in 1..MaxSlots : file[j] = disk[j]
       /\ \E t \in 0..MaxSlots : GroupsIn(disk, groups, Len(groups), t)
  /\ pc = "closed" =>
       \E n \in 0..Len(groups) :
         /\ Whole(file, groups, n)
         /\ \E t \in 0..MaxSlots : GroupsIn(file, groups, n, t)

-----------------------------------------------------------------------------
(* Lemmas about the operators.                                             *)

\* Induction over slots, in the only form these proofs need.  WALProofs proves
\* it from the library.
LeastExists == \A S \in SUBSET Nat : S # {} => \E x \in S : \A y \in S : x <= y

\* A nonempty set of slots has a first one and a last one.
LEMMA Ends ==
  ASSUME LeastExists, NEW n \in Nat, NEW T \in SUBSET (0..n), T # {}
  PROVE  /\ \E x \in T : \A y \in T : x <= y
         /\ \E x \in T : \A y \in T : y <= x
<1>3. ASSUME NEW S \in SUBSET Nat, S # {}
      PROVE  \E x \in S : \A y \in S : x <= y
  BY Zenon, <1>3 DEF LeastExists
<1>4. \E x \in T : \A y \in T : x <= y
  BY <1>3, T \in SUBSET Nat
<1> DEFINE S == {n - y : y \in T}
<1>5. S \in SUBSET Nat /\ S # {} /\ \A y \in T : n - y \in S
  <2>1. \A y \in T : n - y \in Nat
    OBVIOUS
  <2>2. S \in SUBSET Nat
    BY Zenon, <2>1
  <2>3. \A y \in T : n - y \in S
    BY Zenon
  <2>4. S # {}
    BY ZenonT(40), <2>3
  <2> QED BY Zenon, <2>2, <2>3, <2>4
<1>6. PICK x \in S : \A y \in S : x <= y
  <2> HIDE DEF S
  <2> QED BY Zenon, <1>3, <1>5
<1>7. PICK z \in T : x = n - z
  BY Zenon, <1>6
<1>8. ASSUME NEW y \in T PROVE y <= z
  <2>1. x <= n - y
    BY Zenon, <1>5, <1>6
  <2> QED BY <2>1, <1>7
<1> QED BY Zenon, <1>4, <1>8

\* A prefix of an intact chain is intact, and so is a copy of one.
LEMMA ChainedLess ==
  ASSUME NEW f, NEW h, NEW n \in Nat, NEW m \in 0..n, Chained(f, n),
         \A j \in 0..m : h[j] = f[j]
  PROVE  Chained(h, m)
BY DEF Chained

\* Recover's walk stops at the end of the longest intact chain.
LEMMA ValidLenIs ==
  ASSUME LeastExists, NEW f
  PROVE  /\ ValidLen(f) \in 0..MaxSlots
         /\ Chained(f, ValidLen(f))
         /\ \A m \in 0..MaxSlots : Chained(f, m) => m <= ValidLen(f)
<1> DEFINE T == {m \in 0..MaxSlots : Chained(f, m)}
           P(n) == Chained(f, n) /\ (n < MaxSlots => ~Chained(f, n + 1))
<1>0. MaxSlots \in Nat
  BY Zenon, WALAssumption
<1>1. Chained(f, 0)
  BY DEF Chained
<1>2. T \in SUBSET (0..MaxSlots) /\ T # {}
  BY <1>0, <1>1
<1>3. PICK x \in T : \A y \in T : y <= x
  <2> HIDE DEF T
  <2> QED BY ZenonT(40), <1>0, <1>2, Ends
<1>4. x \in 0..MaxSlots /\ P(x)
  <2>1. x < MaxSlots => x + 1 \in 0..MaxSlots /\ ~(x + 1 <= x)
    BY <1>0, <1>3
  <2> QED BY Zenon, <1>3, <2>1
<1>5. ValidLen(f) \in 0..MaxSlots /\ P(ValidLen(f))
  BY Zenon, <1>4 DEF ValidLen
<1>6. ASSUME NEW m \in 0..MaxSlots, Chained(f, m) PROVE m <= ValidLen(f)
  <2> DEFINE v == ValidLen(f)
  <2>1. v \in 0..MaxSlots /\ P(v)
    BY Zenon, <1>5
  <2> HIDE DEF v
  <2>2. SUFFICES ASSUME v < m PROVE FALSE
    BY <1>0, <2>1 DEF v
  <2>3. v + 1 \in 0..m /\ v < MaxSlots
    BY <1>0, <2>1, <2>2
  <2>4. Chained(f, v + 1)
    BY <1>0, <1>6, <2>3, ChainedLess
  <2> QED BY Zenon, <2>1, <2>3, <2>4
<1> QED BY Zenon, <1>5, <1>6

\* Recover returns a batch frame exactly when a commit frame of an intact
\* chain comes after it.
LEMMA RecoveredIn ==
  ASSUME LeastExists, NEW f, Readable(f), NEW c \in 1..MaxSlots, Chained(f, c),
         f[c].type = "commit", NEW b, BatchOf(f, b, c)
  PROVE  b \in Recovered(f)
<1>0. MaxSlots \in Nat /\ c <= ValidLen(f) /\ ValidLen(f) \in 0..MaxSlots
  BY WALAssumption, ValidLenIs
<1>1. c \in FramesOf(f, "commit") /\ b[1] \in FramesOf(f, "batch")
  BY <1>0 DEF FramesOf, BatchOf
<1>2. b[1] < c /\ b = <<b[1], f[b[1]]>>
  BY <1>0 DEF BatchOf
<1> QED BY Zenon, <1>1, <1>2 DEF Recovered

\* What is recovered stands before a commit frame of the intact chain.
LEMMA RecoveredOut ==
  ASSUME LeastExists, NEW f, NEW b \in Recovered(f)
  PROVE  \E c \in 1..MaxSlots : /\ c <= ValidLen(f) /\ Chained(f, c)
                                /\ f[c].type = "commit" /\ BatchOf(f, b, c)
<1>0. /\ MaxSlots \in Nat /\ ValidLen(f) \in 0..MaxSlots
      /\ Chained(f, ValidLen(f))
  BY Zenon, WALAssumption, ValidLenIs
<1>1. PICK i \in FramesOf(f, "batch") :
        b = <<i, f[i]>> /\ \E c \in FramesOf(f, "commit") : i < c
  BY Zenon DEF Recovered
<1>2. PICK c \in FramesOf(f, "commit") : i < c
  BY Zenon, <1>1
<1>3. /\ i \in 1..ValidLen(f) /\ f[i].type = "batch"
      /\ c \in 1..ValidLen(f) /\ f[c].type = "commit"
  BY Zenon, <1>1, <1>2 DEF FramesOf
<1>4. BatchOf(f, b, c)
  BY <1>0, <1>1, <1>2, <1>3 DEF BatchOf
<1>5. Chained(f, c)
  BY <1>0, <1>3, ChainedLess
<1> QED BY <1>0, <1>3, <1>4, <1>5

\* The commits Open keeps are recovered, up to one that is not.
LEMMA SurvivorsIs ==
  ASSUME LeastExists, NEW f, NEW gs, Len(gs) \in Nat
  PROVE  /\ Survivors(f, gs) \in 0..Len(gs)
         /\ \A i \in 1..Survivors(f, gs) : gs[i] \subseteq Recovered(f)
         /\ Survivors(f, gs) < Len(gs) =>
              ~(gs[Survivors(f, gs) + 1] \subseteq Recovered(f))
<1> DEFINE All(n) == \A i \in 1..n : gs[i] \subseteq Recovered(f)
           T == {n \in 0..Len(gs) : All(n)}
<1>1. T \in SUBSET (0..Len(gs)) /\ T # {}
  <2>1. All(0) /\ 0 \in 0..Len(gs)
    OBVIOUS
  <2> QED BY Zenon, <2>1
<1>2. PICK x \in T : \A y \in T : y <= x
  <2> HIDE DEF T
  <2> QED BY ZenonT(40), <1>1, Ends
<1>3. x < Len(gs) => ~(gs[x + 1] \subseteq Recovered(f))
  <2>1. SUFFICES ASSUME x < Len(gs), gs[x + 1] \subseteq Recovered(f) PROVE FALSE
    BY Zenon
  <2>2. x + 1 \in 0..Len(gs) /\ All(x + 1)
    <3>1. \A i \in 1..(x + 1) : i \in 1..x \/ i = x + 1
      BY <1>2
    <3> QED BY <1>2, <2>1, <3>1
  <2> QED BY <1>2, <2>2
<1>4. x \in 0..Len(gs) /\ All(x)
  BY Zenon, <1>2
<1> QED BY SMTT(40), <1>3, <1>4 DEF Survivors

\* A crash leaves, in every slot, what was written, what was durable or a torn
\* frame.  Where one batch of a commit is recovered from that, everything up to
\* the commit's own frame is as it was written: before the batch because the
\* chain says so, behind it because nothing else follows the batches.
LEMMA CommitKept ==
  ASSUME LeastExists, NEW f, NEW d, NEW h, NEW G, NEW c \in 1..MaxSlots,
         Chained(f, c), Own(f, G, c), Lone(d, f, G),
         Mixed(h, f, d), NEW b \in G, b \in Recovered(h)
  PROVE  Chained(h, c) /\ \A j \in 0..c : h[j] = f[j]
<1>0. MaxSlots \in Nat
  BY Zenon, WALAssumption
<1>1. /\ BatchOf(f, b, c)
      /\ \A k \in b[1]..(c - 1) : <<k, f[k]>> \in G /\ f[k].type = "batch"
  <2>1. BatchOf(f, b, c) /\ \A k \in b[1]..(c - 1) : <<k, f[k]>> \in G
    BY Zenon DEF Own
  <2>2. ASSUME NEW k \in b[1]..(c - 1) PROVE f[k].type = "batch"
    <3>1. BatchOf(f, <<k, f[k]>>, c)
      BY Zenon, <2>1 DEF Own
    <3>2. <<k, f[k]>>[1] = k
      OBVIOUS
    <3> QED BY Zenon, <3>1, <3>2 DEF BatchOf
  <2> QED BY Zenon, <2>1, <2>2
<1>2. PICK m \in 1..MaxSlots : /\ Chained(h, m) /\ h[m].type = "commit"
                               /\ BatchOf(h, b, m)
  BY Zenon, RecoveredOut
<1> DEFINE p == b[1]
<1>3. p \in 1..(c - 1) /\ p \in 1..(m - 1) /\ h[p] = f[p]
  BY <1>1, <1>2 DEF BatchOf
<1> HIDE DEF p
<1>4. \A j \in 0..p : h[j] = f[j]
  <2> DEFINE T == {j \in 0..p : h[j] # f[j]}
  <2>1. SUFFICES ASSUME T # {} PROVE FALSE
    BY Zenon
  <2>2. PICK x \in T : \A y \in T : y <= x
    <3>1. T \in SUBSET (0..p) /\ p \in Nat
      BY <1>0, <1>3
    <3> HIDE DEF T
    <3> QED BY ZenonT(40), <2>1, <3>1, Ends
  <2>3. x \in 0..p /\ h[x] # f[x] /\ x # p
    BY Zenon, <1>3, <2>2
  <2>4. x + 1 \in 0..p /\ ~(x + 1 <= x) /\ x + 1 \in 1..c /\ x + 1 \in 1..m /\ x + 1 - 1 = x
    BY <1>0, <1>3, <2>3
  <2>5. h[x + 1] = f[x + 1]
    BY Zenon, <2>2, <2>4
  <2>6. h[x + 1].prev = h[x] /\ f[x + 1].prev = f[x]
    BY <1>2, <2>4 DEF Chained
  <2> QED BY Zenon, <2>3, <2>5, <2>6
<1>5. \A j \in 0..c : j <= m => h[j] = f[j]
  <2> DEFINE T == {j \in 0..c : j <= m /\ h[j] # f[j]}
  <2>1. SUFFICES ASSUME T # {} PROVE FALSE
    BY Zenon
  <2>2. PICK x \in T : \A y \in T : x <= y
    <3>1. T \in SUBSET (0..c) /\ c \in Nat
      BY <1>0
    <3> HIDE DEF T
    <3> QED BY ZenonT(40), <2>1, <3>1, Ends
  <2>3. x \in 0..c /\ x <= m /\ h[x] # f[x] /\ ~(x \in 0..p)
    BY Zenon, <1>4, <2>2
  <2>4. /\ x - 1 \in 0..c /\ x - 1 <= m /\ ~(x <= x - 1) /\ x \in 1..m /\ x \in Slots
        /\ x - 1 \in p..(c - 1) /\ x - 1 < MaxSlots /\ (x - 1) + 1 = x
    BY <1>0, <1>3, <2>3 DEF Slots
  <2>5. h[x - 1] = f[x - 1]
    BY Zenon, <2>2, <2>4
  <2>6. h[x].kind = "frame" /\ h[x].prev = f[x - 1]
    BY Zenon, <1>2, <2>4, <2>5 DEF Chained
  <2>7. h[x] = d[x]
    <3>1. h[x] # Torn
      BY <2>6 DEF Torn
    <3> QED BY Zenon, <2>3, <2>4, <3>1 DEF Mixed
  <2>8. Alone(d, f, <<x - 1, f[x - 1]>>)
    BY Zenon, <1>1, <2>4 DEF p, Lone
  <2>9. <<x - 1, f[x - 1]>>[1] = x - 1
    OBVIOUS
  <2>10. Follows(d[x], f[x - 1]) => d[x] = f[x]
    BY Zenon, <2>4, <2>8, <2>9 DEF Alone
  <2> QED BY Zenon, <2>3, <2>6, <2>7, <2>10 DEF Follows
<1>6. c <= m
  <2>1. SUFFICES ASSUME m < c PROVE FALSE
    BY <1>0
  <2>2. m \in 0..c /\ m \in p..(c - 1) /\ m <= m
    BY <1>0, <1>3, <2>1
  <2>3. h[m] = f[m] /\ f[m].type = "batch"
    BY Zenon, <1>1, <1>5, <2>2 DEF p
  <2> QED BY <1>2, <2>3
<1>7. \A j \in 0..c : h[j] = f[j]
  BY <1>0, <1>5, <1>6
<1>8. Chained(h, c)
  BY <1>0, <1>7, ChainedLess
<1> QED BY Zenon, <1>7, <1>8

\* The commits of a chain lie in every copy of the chain.
LEMMA OwnSame ==
  ASSUME NEW f, NEW h, NEW G, NEW c \in Nat, Own(f, G, c),
         \A j \in 1..(c - 1) : h[j] = f[j]
  PROVE  Own(h, G, c)
<1> SUFFICES ASSUME NEW b \in G
             PROVE  BatchOf(h, b, c) /\ \A k \in b[1]..(c - 1) : <<k, h[k]>> \in G
  BY Zenon DEF Own
<1>1. BatchOf(f, b, c) /\ \A k \in b[1]..(c - 1) : <<k, f[k]>> \in G
  BY Zenon DEF Own
<1>2. b[1] \in 1..(c - 1) /\ h[b[1]] = f[b[1]]
  BY Zenon, <1>1 DEF BatchOf
<1>3. BatchOf(h, b, c)
  BY Zenon, <1>1, <1>2 DEF BatchOf
<1>4. \A k \in b[1]..(c - 1) : h[k] = f[k]
  BY <1>2
<1> QED BY Zenon, <1>1, <1>3, <1>4

\* A commit's batches come before the last frame of the chain it lies in.
LEMMA GroupBelow ==
  ASSUME NEW f, NEW gs, NEW n, NEW t \in Nat, GroupsIn(f, gs, n, t),
         NEW g \in 1..n, NEW b \in gs[g]
  PROVE  b[1] \in 1..(t - 1)
<1>1. PICK c \in 1..t : BatchOf(f, b, c)
  BY Zenon DEF GroupsIn, Own
<1>2. b[1] \in 1..(c - 1)
  BY Zenon, <1>1 DEF BatchOf
<1> QED BY <1>2

\* The same for all commits.
LEMMA GroupsSame ==
  ASSUME NEW f, NEW h, NEW gs, NEW n, NEW t \in Nat,
         \A j \in 0..t : h[j] = f[j], GroupsIn(f, gs, n, t)
  PROVE  GroupsIn(h, gs, n, t)
<1>1. Chained(h, t)
  BY ChainedLess DEF GroupsIn
<1>2. ASSUME NEW g \in 1..n, gs[g] # {}
      PROVE  \E c \in 1..t : h[c].type = "commit" /\ Own(h, gs[g], c)
  <2>1. PICK c \in 1..t : f[c].type = "commit" /\ Own(f, gs[g], c)
    BY Zenon, <1>2 DEF GroupsIn
  <2>2. h[c] = f[c] /\ \A j \in 1..(c - 1) : h[j] = f[j]
    BY <2>1
  <2>3. Own(h, gs[g], c)
    BY <2>1, <2>2, OwnSame
  <2> QED BY Zenon, <2>1, <2>2, <2>3
<1>3. ASSUME NEW g \in 1..n, NEW k \in 1..n, g < k, NEW b \in gs[g], NEW d \in gs[k]
      PROVE  Split(h, b, d)
  <2>1. PICK c \in b[1]..d[1] : f[c].type = "commit"
    BY <1>3 DEF GroupsIn, Split
  <2>2. b[1] \in 1..t /\ d[1] \in 1..t
    <3>1. b[1] \in 1..(t - 1) /\ d[1] \in 1..(t - 1)
      BY Zenon, <1>3, GroupBelow
    <3> QED BY <3>1
  <2>3. h[c] = f[c]
    BY <2>1, <2>2
  <2> QED BY Zenon, <2>1, <2>3 DEF Split
<1> QED BY Zenon, <1>1, <1>2, <1>3 DEF GroupsIn

\* Of commits in a chain, those with a batch recovered from what a crash left
\* are recovered whole, and so are all before them.
LEMMA SurvivingGroups ==
  ASSUME LeastExists, NEW f, NEW d, NEW h, NEW gs, Len(gs) \in Nat,
         NEW t \in 0..MaxSlots, GroupsIn(f, gs, Len(gs), t),
         \A g \in 1..Len(gs) : \A b \in gs[g] : Alone(d, f, b),
         Mixed(h, f, d), Readable(h)
  PROVE  \E n \in 0..Len(gs) :
           Whole(h, gs, n) /\ \E s \in 0..MaxSlots : GroupsIn(h, gs, n, s)
<1> DEFINE N == Len(gs)
           T == {g \in 1..N : gs[g] \cap Recovered(h) # {}}
<1>0. MaxSlots \in Nat /\ N \in Nat
  BY Zenon, WALAssumption
<1>1. CASE T = {}
  <2>1. Whole(h, gs, 0)
    BY <1>0, <1>1 DEF Whole
  <2>2. GroupsIn(h, gs, 0, 0)
    BY DEF GroupsIn, Chained
  <2> QED BY <1>0, <2>1, <2>2
<1>2. CASE T # {}
  <2>1. PICK n \in T : \A g \in T : g <= n
    <3>1. T \in SUBSET (0..N)
      BY <1>0
    <3> HIDE DEF T
    <3> QED BY ZenonT(40), <1>0, <1>2, <3>1, Ends
  <2>2. n \in 1..N
    BY Zenon
  <2>3. PICK e \in gs[n] : e \in Recovered(h)
    BY Zenon, <2>1
  <2>4. \A g \in 1..N : gs[g] # {} => \E c \in 1..t :
          f[c].type = "commit" /\ Own(f, gs[g], c)
    BY Zenon DEF GroupsIn
  <2>5. PICK v \in 1..t : f[v].type = "commit" /\ Own(f, gs[n], v)
    BY Zenon, <2>2, <2>3, <2>4
  <2>6. /\ v \in 1..MaxSlots /\ v \in 0..t /\ v \in 0..MaxSlots /\ t \in Nat
        /\ e[1] \in 1..(v - 1)
    <3>1. e[1] \in 1..(v - 1)
      BY Zenon, <2>3, <2>5 DEF Own, BatchOf
    <3> QED BY <1>0, <2>5, <3>1
  <2>7. Chained(f, v)
    BY <2>6, ChainedLess DEF GroupsIn
  <2>8. Chained(h, v) /\ \A j \in 0..v : h[j] = f[j]
    <3>1. Lone(d, f, gs[n])
      BY Zenon, <2>2 DEF Lone
    <3> QED BY SMTT(40), <2>3, <2>5, <2>6, <2>7, <3>1, CommitKept
  <2>9. ASSUME NEW g \in 1..n, gs[g] # {}
        PROVE  \E c \in 1..v : f[c].type = "commit" /\ Own(f, gs[g], c)
    <3>2. CASE g = n
      BY <2>5, <3>2
    <3>3. CASE g < n
      <4>1. PICK c \in 1..t : f[c].type = "commit" /\ Own(f, gs[g], c)
        BY <1>0, <2>2, <2>4, <2>9
      <4>2. PICK b \in gs[g] : TRUE
        BY Zenon, <2>9
      <4>3. PICK k \in b[1]..e[1] : f[k].type = "commit"
        BY <1>0, <2>2, <2>3, <3>3, <4>2 DEF GroupsIn, Split
      <4>4. b[1] \in 1..(c - 1) /\ ~(k \in b[1]..(c - 1))
        <5>1. /\ b[1] \in 1..(c - 1)
              /\ k \in b[1]..(c - 1) => <<k, f[k]>> \in gs[g]
          BY Zenon, <4>1, <4>2 DEF Own, BatchOf
        <5>2. <<k, f[k]>> \in gs[g] => BatchOf(f, <<k, f[k]>>, c)
          BY Zenon, <4>1 DEF Own
        <5>3. <<k, f[k]>>[1] = k
          OBVIOUS
        <5>4. BatchOf(f, <<k, f[k]>>, c) => f[k].type = "batch"
          BY Zenon, <5>3 DEF BatchOf
        <5> QED BY <4>3, <5>1, <5>2, <5>4
      <4>5. c <= e[1]
        BY <2>6, <4>3, <4>4
      <4>6. c \in 1..v
        BY <2>6, <4>5
      <4> QED BY Zenon, <4>1, <4>6
    <3> QED BY <1>0, <2>2, <3>2, <3>3
  <2>10. GroupsIn(f, gs, n, v)
    <3>2. \A g, k \in 1..n :
            g < k => \A b \in gs[g], a \in gs[k] : Split(f, b, a)
      BY SMTT(40), <1>0, <2>2 DEF GroupsIn
    <3> QED BY Zenon, <2>7, <2>9, <3>2 DEF GroupsIn
  <2>11. GroupsIn(h, gs, n, v)
    BY <2>6, <2>8, <2>10, GroupsSame
  <2>12. ASSUME NEW g \in 1..n, gs[g] # {} PROVE gs[g] \subseteq Recovered(h)
    <3>1. PICK c \in 1..v : h[c].type = "commit" /\ \A b \in gs[g] : BatchOf(h, b, c)
      BY Zenon, <2>11, <2>12 DEF GroupsIn, Own
    <3>2. Chained(h, c) /\ c \in 1..MaxSlots
      BY <1>0, <2>6, <2>8, ChainedLess
    <3> QED BY Zenon, <3>1, <3>2, RecoveredIn
  <2>13. \A g \in 1..N : ~(g <= n) => gs[g] \cap Recovered(h) = {}
    BY Zenon, <2>1
  <2>14. Whole(h, gs, n)
    BY <1>0, <2>2, <2>12, <2>13 DEF Whole
  <2> QED BY <1>0, <2>2, <2>6, <2>11, <2>14
<1> QED BY Zenon, <1>1, <1>2
-----------------------------------------------------------------------------
(* The writer's chain.                                                     *)

\* appendFrame writes one frame behind the chain and leaves the rest.
LEMMA AppendIs ==
  ASSUME WriterInv, NEW type, NEW pay, AppendFrame(type, pay), pc = "open"
  PROVE  /\ DOMAIN file' = Slots
         /\ tail \in 1..MaxSlots /\ tail' = tail + 1
         /\ tail' \in 1..(MaxSlots + 1) /\ tail' - 1 = tail
         /\ \A j \in Slots : j # tail => file'[j] = file[j]
         /\ \A j \in 0..(tail - 1) : j \in Slots /\ file'[j] = file[j]
         /\ file'[tail] = Frame(type, lsn, salt, lastSum, pay)
         /\ file'[tail].kind = "frame" /\ file'[tail].type = type
         /\ file'[tail].salt = salt /\ file'[tail].prev = lastSum
         /\ file'[tail].pay = pay /\ file'[tail].lsn = lsn
         /\ lastSum' = file'[tail]
         /\ Readable(file') /\ file'[0] = file[0]
         /\ Chained(file', tail)
<1>0. MaxSlots \in Nat
  BY Zenon, WALAssumption
<1>1. tail \in 1..MaxSlots /\ tail' = tail + 1
  BY <1>0 DEF WriterInv, AppendFrame
<1>2. file' = [file EXCEPT ![tail] = Frame(type, lsn, salt, lastSum, pay)]
  BY Zenon DEF AppendFrame
<1>3. DOMAIN file = Slots /\ tail \in Slots /\ 0 \in Slots
  BY <1>0, <1>1 DEF WriterInv, Slots
<1>4. /\ DOMAIN file' = Slots
      /\ \A j \in Slots : j # tail => file'[j] = file[j]
      /\ file'[tail] = Frame(type, lsn, salt, lastSum, pay)
  BY Zenon, <1>2, <1>3
<1>5. \A j \in 0..(tail - 1) : j \in Slots /\ file'[j] = file[j]
  BY <1>0, <1>1, <1>4 DEF Slots
<1>6. lastSum' = file'[tail]
  BY Zenon, <1>4 DEF AppendFrame
<1>7. Readable(file') /\ file'[0] = file[0]
  BY <1>1, <1>3, <1>4 DEF WriterInv, Readable
<1>8. salt = file[0].salt /\ Chained(file, tail - 1) /\ lastSum = file[tail - 1]
  BY Zenon DEF WriterInv
<1>9. /\ file'[tail].kind = "frame" /\ file'[tail].type = type
       /\ file'[tail].salt = salt /\ file'[tail].prev = lastSum
       /\ file'[tail].pay = pay /\ file'[tail].lsn = lsn
  BY <1>4 DEF Frame
<1>10. Chained(file', tail)
  <2>1. Chained(file', tail - 1)
    BY <1>0, <1>1, <1>5, <1>8, ChainedLess
  <2>3. file'[tail - 1] = file[tail - 1]
    BY <1>0, <1>1, <1>5
  <2>4. \A i \in 1..tail : i \in 1..(tail - 1) \/ i = tail
    BY <1>0, <1>1
  <2> QED BY Zenon, <1>7, <1>8, <1>9, <2>1, <2>3, <2>4 DEF Chained
<1> QED BY <1>0, <1>1, <1>4, <1>5, <1>6, <1>7, <1>9, <1>10

\* Every crash leaves each slot as written, as durable or torn, and the header
\* as written or as durable.
LEMMA CrashIs ==
  ASSUME WriterInv, Crash
  PROVE  /\ DOMAIN file' = Slots /\ disk' = file'
         /\ \A j \in Slots : file'[j] \in {file[j], disk[j], Torn}
         /\ \A j \in Slots : file[j] = disk[j] => file'[j] = file[j]
         /\ file'[0] \in {file[0], disk[0]}
<1> DEFINE dirty == {i \in Slots : file[i] # disk[i]}
<1>1. PICK lost \in SUBSET dirty : \E torn \in SUBSET (lost \ {0}) :
           file' = [i \in Slots |-> IF i \in torn THEN Torn
                                   ELSE IF i \in lost THEN disk[i] ELSE file[i]]
  BY Zenon DEF Crash
<1>2. PICK torn \in SUBSET (lost \ {0}) :
           file' = [i \in Slots |-> IF i \in torn THEN Torn
                                   ELSE IF i \in lost THEN disk[i] ELSE file[i]]
  BY Zenon, <1>1
<1>3. 0 \in Slots
  BY WALAssumption DEF Slots
<1> QED BY Zenon, <1>2, <1>3 DEF Crash

\* The log is created with a header and no frames.
LEMMA InitWriter == Init => WriterInv
BY WALAssumption DEF Init, WriterInv, Readable, Slots, Blank

\* Every step leaves the writer at the end of the chain in its file: an append
\* extends the chain it stands on, Checkpointed and Open start from a header
\* or from the last frame that chains.
LEMMA NextWriter ==
  ASSUME LeastExists, ~CrashCreate, ~GoesOn, WriterInv, [Next]_vars
  PROVE  WriterInv'
<1>0. MaxSlots \in Nat /\ 0 \in Slots
  BY WALAssumption DEF Slots
<1>1. ASSUME NEW type, NEW pay, AppendFrame(type, pay), pc = "open", batchN' \in Nat,
             UNCHANGED <<disk, salt>>, pc' \in {"open", "syncing", "flushing"}
      PROVE  WriterInv'
  <2>1. salt = file[0].salt
    BY Zenon, <1>1 DEF WriterInv
  <2>2. pc' # "closed" /\ pc' # "absent" /\ pc' # "creating"
    BY Zenon, <1>1
  <2>3. DOMAIN disk' = Slots /\ Readable(disk')
    BY Zenon, <1>1 DEF WriterInv
  <2>4. salt' = file'[0].salt /\ Chained(file', tail' - 1) /\ lastSum' = file'[tail' - 1]
    BY Zenon, <1>1, <2>1, AppendIs
  <2> QED BY Zenon, <1>1, <2>2, <2>3, <2>4, AppendIs DEF WriterInv
<1>2. CASE CreateHeader
  <2>1. DOMAIN file' = Slots /\ file'[0] = Header(salt)
    BY Zenon, <1>0, <1>2 DEF CreateHeader, WriterInv
  <2>2. Readable(file') /\ file'[0].salt = salt
    BY <2>1 DEF Readable, Header
  <2>3. tail = 1 /\ Chained(file', 0)
    BY <1>2 DEF CreateHeader, WriterInv, Chained
  <2> QED BY <1>2, <2>1, <2>2, <2>3 DEF CreateHeader, WriterInv
<1>3. CASE CreateSync
  BY Zenon, <1>3 DEF CreateSync, WriterInv, writer
<1>4. CASE \E p \in Payloads : LogBatch(p)
  <2>1. PICK p \in Payloads : LogBatch(p)
    BY Zenon, <1>4
  <2>2. AppendFrame("batch", p) /\ pc = "open" /\ pc' = pc /\ batchN' = batchN + 1
        /\ UNCHANGED <<disk, salt>>
    BY Zenon, <2>1 DEF LogBatch
  <2> QED BY <1>1, <2>2 DEF WriterInv
<1>5. CASE AppendFails
  <2>1. /\ DOMAIN file' = Slots /\ tail \in 1..MaxSlots
        /\ \A j \in 0..(tail - 1) : file'[j] = file[j]
    BY <1>0, <1>5 DEF AppendFails, WriterInv, Slots
  <2>2. Chained(file', tail - 1)
    <3>1. Chained(file, tail - 1) /\ tail - 1 \in Nat
      BY <1>5, <2>1 DEF AppendFails, WriterInv
    <3> QED BY <2>1, <3>1, ChainedLess
  <2>3. file'[0] = file[0] /\ file'[tail - 1] = file[tail - 1]
    BY <1>0, <2>1
  <2> QED BY Zenon, <1>5, <2>1, <2>2, <2>3 DEF AppendFails, WriterInv, writer, Readable
<1>6. CASE Commit
  <2>1. AppendFrame("commit", batchN) /\ pc = "open" /\ batchN' = 0
        /\ pc' \in {"open", "syncing"} /\ UNCHANGED <<disk, salt>>
    BY Zenon, <1>6 DEF Commit
  <2> QED BY Zenon, <1>1, <2>1
<1>7. CASE CommitSynced
  BY Zenon, <1>7 DEF CommitSynced, WriterInv, writer
<1>8. CASE SyncFails
  BY Zenon, <1>8 DEF SyncFails, WriterInv, writer
<1>9. CASE Fold
  BY Zenon, <1>9 DEF Fold, WriterInv, writer
<1>10. CASE CheckpointFrame
  <2>1. AppendFrame("checkpoint", mainLSN) /\ pc = "open" /\ batchN' = batchN
        /\ pc' \in {"flushing"} /\ UNCHANGED <<disk, salt>>
    BY Zenon, <1>10 DEF CheckpointFrame
  <2> QED BY Zenon, <1>1, <2>1 DEF WriterInv
<1>11. CASE Rotate
  <2>1. /\ DOMAIN file' = Slots /\ file'[0] = Header(salt')
        /\ tail' = 1 /\ lastSum' = Header(salt') /\ disk' = file
        /\ pc' = "rotating" /\ batchN' = batchN /\ pc = "flushing"
    BY Zenon, <1>0, <1>11 DEF Rotate, WriterInv
  <2>2. Readable(file') /\ file'[0].salt = salt'
    BY <2>1 DEF Readable, Header
  <2> QED BY <1>0, <2>1, <2>2 DEF WriterInv, Chained
<1>12. CASE Rotated
  BY Zenon, <1>12 DEF Rotated, WriterInv, writer
<1>13. CASE Crash
  <2>1. pc # "absent" /\ pc # "creating" /\ pc' = "closed" /\ UNCHANGED writer
    BY Zenon, <1>13 DEF Crash
  <2>2. Readable(file) /\ Readable(disk)
    BY Zenon, <2>1 DEF WriterInv
  <2>3. Readable(file')
    BY Zenon, <1>13, <2>2, CrashIs DEF Readable
  <2> QED BY Zenon, <1>13, <2>1, <2>3, CrashIs DEF WriterInv, writer
<1>14. CASE Close
  BY Zenon, <1>14 DEF Close, WriterInv, writer
<1>15. CASE Open
  <2>1. Readable(file) /\ Readable(disk)
    BY Zenon, <1>15 DEF Open, WriterInv
  <2> DEFINE n == ValidLen(file)
  <2>2. n \in 0..MaxSlots /\ Chained(file, n)
    BY Zenon, ValidLenIs
  <2>3. salt' = file[0].salt /\ lastSum' = file[n] /\ tail' = n + 1
    BY Zenon, <1>15, <2>1 DEF Open
  <2>4. file' = file /\ disk' = disk /\ batchN' = 0 /\ pc' = "open"
    BY Zenon, <1>15 DEF Open
  <2> HIDE DEF n
  <2>5. tail' \in 1..(MaxSlots + 1) /\ tail' - 1 = n
    BY <1>0, <2>2, <2>3
  <2> QED BY Zenon, <2>1, <2>2, <2>3, <2>4, <2>5 DEF WriterInv
<1>16. CASE UNCHANGED vars
  BY Zenon, <1>16 DEF vars, WriterInv
<1>17. CASE CreateFails
  BY Zenon, <1>17 DEF CreateFails, WriterInv, writer
<1>18. CASE RotateFails
  <2>1. /\ file' = file /\ disk' = file /\ tail' = 1 /\ pc' = "closed"
        /\ batchN' = batchN /\ pc = "flushing"
    BY Zenon, <1>18 DEF RotateFails
  <2>2. tail' \in 1..(MaxSlots + 1)
    BY <1>0, <2>1
  <2> QED BY Zenon, <2>1, <2>2 DEF WriterInv
<1> QED BY Zenon, <1>2, <1>3, <1>4, <1>5, <1>6, <1>7, <1>8, <1>9, <1>10, <1>11,
           <1>12, <1>13, <1>14, <1>15, <1>16, <1>17, <1>18 DEF Next

-----------------------------------------------------------------------------
(* Acknowledged commits.                                                   *)

\* A step that changes no slot that is durable and behind the writer leaves a
\* safe batch safe.
LEMMA SafeStill ==
  ASSUME NEW b, Safe(b), WriterInv,
         \A c \in 1..MaxSlots :
           (pc = "closed" \/ c < tail) => (pc' = "closed" \/ c < tail'),
         \A j \in Slots :
           file[j] = disk[j] /\ (pc = "closed" \/ j < tail) =>
             file'[j] = file[j] /\ disk'[j] = file[j]
  PROVE  Safe(b)'
<1>0. MaxSlots \in Nat /\ tail \in Nat
  BY WALAssumption DEF WriterInv
<1>1. PICK c \in 1..MaxSlots :
    /\ Chained(disk, c) /\ disk[c].type = "commit"
    /\ \A j \in 0..c : file[j] = disk[j]
    /\ pc = "closed" \/ c < tail
    /\ BatchOf(disk, b, c)
  BY Zenon DEF Safe
<1>2. \A j \in 0..c : j \in Slots /\ (pc = "closed" \/ j < tail)
  BY <1>0, <1>1 DEF Slots
<1>3. \A j \in 0..c : file'[j] = disk[j] /\ disk'[j] = disk[j]
  BY Zenon, <1>1, <1>2
<1>4. Chained(disk', c)
  BY <1>0, <1>1, <1>3, ChainedLess
<1>5. disk'[c] = disk[c] /\ b[1] \in 0..c
  BY <1>0, <1>1, <1>3 DEF BatchOf
<1>6. BatchOf(disk', b, c)
  BY Zenon, <1>1, <1>3, <1>5 DEF BatchOf
<1>7. pc' = "closed" \/ c < tail'
  BY Zenon, <1>1
<1> QED BY Zenon, <1>1, <1>3, <1>4, <1>5, <1>6, <1>7 DEF Safe

\* A safe batch is one Recover returns, from the file and from any file that
\* has the same durable chain.
LEMMA SafeRecovered ==
  ASSUME LeastExists, NEW b, Safe(b), Readable(file)
  PROVE  b \in Recovered(file)
<1>1. PICK c \in 1..MaxSlots :
    /\ Chained(disk, c) /\ disk[c].type = "commit"
    /\ \A j \in 0..c : file[j] = disk[j]
    /\ BatchOf(disk, b, c)
  BY Zenon DEF Safe
<1>2. Chained(file, c)
  BY <1>1, WALAssumption, ChainedLess
<1>3. file[c] = disk[c] /\ b[1] \in 0..c
  BY <1>1, WALAssumption DEF BatchOf
<1>4. BatchOf(file, b, c)
  BY Zenon, <1>1, <1>3 DEF BatchOf
<1> QED BY Zenon, <1>1, <1>2, <1>3, <1>4, RecoveredIn

\* An append touches only the slot behind the writer.
LEMMA AppendAck ==
  ASSUME WriterInv, AckInv, NEW type, NEW pay, AppendFrame(type, pay), pc = "open",
         disk' = disk, acked' = acked, main' = main
  PROVE  /\ \A b \in acked' : b \in main' \/ Safe(b)'
         /\ \A b \in cur : BatchOf(file', b, tail)
<1>0. MaxSlots \in Nat
  BY Zenon, WALAssumption
<1>1. \A b \in acked : Safe(b) => Safe(b)'
  <2>1. \A c \in 1..MaxSlots :
          (pc = "closed" \/ c < tail) => (pc' = "closed" \/ c < tail')
    BY AppendIs
  <2>2. \A j \in Slots :
           file[j] = disk[j] /\ (pc = "closed" \/ j < tail) =>
             file'[j] = file[j] /\ disk'[j] = file[j]
    BY AppendIs
  <2> QED BY Zenon, <2>1, <2>2, SafeStill
<1>2. ASSUME NEW b \in cur PROVE BatchOf(file', b, tail)
  <2>1. BatchOf(file, b, tail)
    BY Zenon DEF AckInv
  <2>2. b[1] \in 0..(tail - 1)
    BY <2>1, AppendIs DEF BatchOf
  <2> QED BY Zenon, <2>1, <2>2, AppendIs DEF BatchOf
<1> QED BY Zenon, <1>1, <1>2 DEF AckInv

\* Nothing has been committed before the log exists.
LEMMA InitAck == Init => AckInv
BY DEF Init, AckInv

\* No step loses an acknowledged batch: a sync makes the commit it is for
\* durable, a checkpoint rewrites the header only when all of them are in the
\* main file, and a reopened writer appends behind them.
LEMMA NextAck ==
  ASSUME LeastExists, ~CrashCreate, ~GoesOn, WriterInv, WriterInv', AckInv, [Next]_vars
  PROVE  AckInv'
<1>0. MaxSlots \in Nat /\ 0 \in Slots
  BY WALAssumption DEF Slots
<1> DEFINE Reach == \A c \in 1..MaxSlots :
             (pc = "closed" \/ c < tail) => (pc' = "closed" \/ c < tail')
           Stay == \A j \in Slots :
             file[j] = disk[j] /\ (pc = "closed" \/ j < tail) =>
               file'[j] = file[j] /\ disk'[j] = file[j]
           Kept == \A b \in acked' : b \in main' \/ Safe(b)'
<1>1. ASSUME Reach, Stay, acked' = acked, main \subseteq main'
      PROVE  Kept
  <2>1. \A b \in acked : Safe(b) => Safe(b)'
    BY Zenon, <1>1, SafeStill
  <2> QED BY Zenon, <1>1, <2>1 DEF AckInv
<1>2. CASE CreateHeader
  BY Zenon, <1>2 DEF CreateHeader, AckInv, history, host
<1>3. CASE CreateSync
  <2>1. Reach /\ Stay
    BY Zenon, <1>3 DEF CreateSync, writer
  <2>2. Kept
    BY Zenon, <1>1, <1>3, <2>1 DEF CreateSync, host, history
  <2> QED BY Zenon, <1>3, <2>2 DEF CreateSync, AckInv, writer, host, history
<1>4. CASE \E p \in Payloads : LogBatch(p)
  <2>1. PICK p \in Payloads : LogBatch(p)
    BY Zenon, <1>4
  <2>2. /\ AppendFrame("batch", p) /\ pc = "open" /\ pc' = "open"
        /\ batchN' = batchN + 1 /\ cur' = cur \cup {<<tail, file'[tail]>>}
        /\ UNCHANGED <<disk, salt, main, groups, called, acked>>
    BY Zenon, <2>1 DEF LogBatch, host
  <2>3. Kept /\ \A b \in cur : BatchOf(file', b, tail)
    BY Zenon, <2>2, AppendAck
  <2>4. tail \in 1..MaxSlots /\ tail' = tail + 1 /\ file'[tail].type = "batch"
    BY Zenon, <2>2, AppendIs
  <2>5. \A b \in cur : BatchOf(file', b, tail')
    BY <1>0, <2>3, <2>4 DEF BatchOf
  <2>6. BatchOf(file', <<tail, file'[tail]>>, tail')
    BY <1>0, <2>4 DEF BatchOf
  <2>7. batchN' > 0
    BY <2>2 DEF WriterInv
  <2> QED BY Zenon, <2>2, <2>3, <2>5, <2>6, <2>7 DEF AckInv
<1>5. CASE AppendFails
  <2>1. /\ pc = "open" /\ pc' = pc /\ tail' = tail /\ batchN' = batchN
        /\ \A j \in Slots : j # tail => file'[j] = file[j]
        /\ UNCHANGED <<disk, main, acked, cur, groups, called>>
    BY Zenon, <1>5 DEF AppendFails, WriterInv, writer, host, history
  <2>2. tail \in Nat
    BY DEF WriterInv
  <2>3. Reach /\ Stay
    BY <2>1, <2>2
  <2>4. Kept
    BY Zenon, <1>1, <2>1, <2>3
  <2>5. ASSUME NEW b \in cur PROVE BatchOf(file', b, tail)
    <3>1. BatchOf(file, b, tail)
      BY Zenon, <2>1 DEF AckInv
    <3>2. b[1] \in Slots /\ b[1] # tail
      BY <1>0, <3>1 DEF BatchOf, WriterInv, Slots
    <3> QED BY Zenon, <2>1, <3>1, <3>2 DEF BatchOf
  <2> QED BY Zenon, <2>1, <2>4, <2>5 DEF AckInv
<1>6. CASE Commit
  <2>1. /\ AppendFrame("commit", batchN) /\ pc = "open"
        /\ pc' \in {"open", "syncing"} /\ cur' = {}
        /\ groups' = Append(groups, cur) /\ called' = called \cup cur
        /\ UNCHANGED <<disk, salt, main, acked>>
    BY Zenon, <1>6 DEF Commit, host
  <2>2. Kept /\ \A b \in cur : BatchOf(file', b, tail)
    BY Zenon, <2>1, AppendAck
  <2>3. tail \in 1..MaxSlots /\ tail' = tail + 1 /\ file'[tail].type = "commit"
    BY Zenon, <2>1, AppendIs
  <2>4. groups \in Seq(SUBSET called') /\ cur \in SUBSET called'
    <3>1. groups \in Seq(SUBSET called)
      BY Zenon DEF AckInv
    <3>2. groups \in [1..Len(groups) -> SUBSET called] /\ Len(groups) \in Nat
      BY <3>1
    <3>3. groups \in [1..Len(groups) -> SUBSET called']
      BY Zenon, <2>1, <3>2
    <3> QED BY <2>1, <3>2, <3>3
  <2>5. /\ groups' \in Seq(SUBSET called') /\ groups' # <<>>
        /\ groups'[Len(groups')] = cur
    BY <2>1, <2>4
  <2>6. tail' >= 2 /\ tail' - 1 = tail
    BY <1>0, <2>3
  <2> QED BY Zenon, <2>1, <2>2, <2>3, <2>5, <2>6 DEF AckInv
<1>7. CASE CommitSynced
  <2>1. /\ pc = "syncing" /\ pc' = "open" /\ disk' = file
        /\ acked' = acked \cup groups[Len(groups)]
        /\ UNCHANGED <<file, tail, main, cur, groups, called>>
    BY Zenon, <1>7 DEF CommitSynced, writer, host
  <2>2. Reach /\ Stay
    BY Zenon, <2>1
  <2>3. \A b \in acked : Safe(b) => Safe(b)'
    BY Zenon, <2>2, SafeStill
  <2>4. ASSUME NEW b \in groups[Len(groups)] PROVE Safe(b)'
    <3> DEFINE c == tail - 1
    <3>1. c \in 1..MaxSlots /\ c < tail
      BY <1>0, <2>1 DEF AckInv, WriterInv
    <3>2. Chained(file, c) /\ file[c].type = "commit" /\ BatchOf(file, b, c)
      BY Zenon, <2>1 DEF AckInv, WriterInv
    <3> HIDE DEF c
    <3> QED BY Zenon, <2>1, <3>1, <3>2 DEF Safe
  <2>5. cur = {}
    BY Zenon, <2>1 DEF AckInv
  <2> QED BY Zenon, <2>1, <2>3, <2>4, <2>5 DEF AckInv
<1>8. CASE SyncFails
  <2>1. Reach /\ Stay
    BY Zenon, <1>8 DEF SyncFails
  <2>2. Kept
    BY Zenon, <1>1, <1>8, <2>1 DEF SyncFails, host
  <2> QED BY Zenon, <1>8, <2>2 DEF SyncFails, AckInv, host
<1>9. CASE Fold
  <2>1. Reach /\ Stay
    BY Zenon, <1>9 DEF Fold, writer
  <2>2. Kept
    BY Zenon, <1>1, <1>9, <2>1 DEF Fold, history
  <2> QED BY Zenon, <1>9, <2>2 DEF Fold, AckInv, writer, history
<1>10. CASE CheckpointFrame
  <2>1. /\ AppendFrame("checkpoint", mainLSN) /\ pc = "open" /\ batchN = 0
        /\ pc' = "flushing" /\ Recovered(file) \subseteq main
        /\ UNCHANGED <<disk, salt, main, cur, groups, called, acked>>
    BY Zenon, <1>10 DEF CheckpointFrame, host, history
  <2>2. Kept
    BY Zenon, <2>1, AppendAck
  <2>3. acked \subseteq main
    BY Zenon, <2>1, SafeRecovered DEF AckInv, WriterInv
  <2>4. cur = {}
    BY <2>1 DEF AckInv
  <2> QED BY Zenon, <2>1, <2>2, <2>3, <2>4 DEF AckInv
<1>11. CASE Rotate
  BY Zenon, <1>11 DEF Rotate, AckInv, host, history
<1>12. CASE Rotated
  <2>1. acked \subseteq main /\ cur = {}
    BY Zenon, <1>12 DEF Rotated, AckInv
  <2>2. <<>> \in Seq(SUBSET called)
    OBVIOUS
  <2> QED BY Zenon, <1>12, <2>1, <2>2 DEF Rotated, AckInv, host
<1>13. CASE Crash
  <2>1. Reach /\ Stay
    BY Zenon, <1>13, CrashIs DEF Crash
  <2>2. Kept
    BY Zenon, <1>1, <1>13, <2>1 DEF Crash
  <2> QED BY Zenon, <1>13, <2>2 DEF Crash, AckInv
<1>14. CASE Close
  <2>1. Reach /\ Stay
    BY Zenon, <1>14 DEF Close
  <2>2. Kept
    BY Zenon, <1>1, <1>14, <2>1 DEF Close, host
  <2> QED BY Zenon, <1>14, <2>2 DEF Close, AckInv, host
<1>15. CASE Open
  <2>1. /\ Readable(file) /\ pc = "closed" /\ pc' = "open"
        /\ UNCHANGED <<file, disk, main, cur, called, acked>>
    BY Zenon, <1>15 DEF Open, WriterInv, host
  <2>2. tail' = ValidLen(file) + 1
    BY Zenon, <1>15, <2>1 DEF Open
  <2>3. ASSUME NEW b, Safe(b) PROVE Safe(b)'
    <3>1. PICK c \in 1..MaxSlots :
            /\ Chained(disk, c) /\ disk[c].type = "commit"
            /\ \A j \in 0..c : file[j] = disk[j]
            /\ BatchOf(disk, b, c)
      BY Zenon, <2>3 DEF Safe
    <3>2. Chained(file, c)
      BY <1>0, <3>1, ChainedLess
    <3>3. c < tail'
      BY <1>0, <2>2, <3>2, ValidLenIs
    <3> QED BY Zenon, <2>1, <3>1, <3>3 DEF Safe
  <2>4. cur = {}
    BY Zenon, <2>1 DEF AckInv
  <2>5. groups' \in Seq(SUBSET called)
    <3>1. groups \in Seq(SUBSET called)
      BY Zenon DEF AckInv
    <3>2. groups' = SubSeq(groups, 1, Survivors(file, groups))
      BY Zenon, <1>15 DEF Open
    <3>3. Len(groups) \in Nat /\ Survivors(file, groups) \in 0..Len(groups)
      BY <3>1, SurvivorsIs
    <3> QED BY <3>1, <3>2, <3>3
  <2> QED BY Zenon, <2>1, <2>3, <2>4, <2>5 DEF AckInv
<1>16. CASE UNCHANGED vars
  BY Zenon, <1>16 DEF vars, AckInv, Safe
<1>17. CASE CreateFails
  BY Zenon, <1>17 DEF CreateFails, AckInv, host, history
<1>18. CASE RotateFails
  BY Zenon, <1>18 DEF RotateFails, AckInv, host, history
<1> QED BY Zenon, <1>2, <1>3, <1>4, <1>5, <1>6, <1>7, <1>8, <1>9, <1>10, <1>11,
           <1>12, <1>13, <1>14, <1>15, <1>16, <1>17, <1>18 DEF Next

-----------------------------------------------------------------------------
(* What earlier incarnations leave behind.                                 *)

\* A payload once logged stays logged.
LEMMA MadeStill ==
  ASSUME NEW fr, NEW u, NEW v, u \subseteq v, WellMade(fr, u)
  PROVE  WellMade(fr, v)
BY Zenon DEF WellMade, Logged

\* The frame an append writes is well made, and the others stay so.
LEMMA AppendMade ==
  ASSUME WriterInv, StaleInv, NEW type, NEW pay, AppendFrame(type, pay),
         pc = "open", NEW v, used \subseteq v, type = "batch" => pay \in v
  PROVE  \A j \in Slots : WellMade(file'[j], v) /\ WellMade(disk[j], v)
<1>0. tail - 1 \in Slots
  BY AppendIs, WALAssumption DEF Slots
<1>1. lastSum = file[tail - 1]
  BY Zenon DEF WriterInv
<1>2. WellMade(lastSum, v)
  BY <1>0, <1>1, MadeStill DEF StaleInv
<1>3. WellMade(file'[tail], v)
  <2>1. /\ file'[tail].kind = "frame" /\ file'[tail].type = type
        /\ file'[tail].prev = lastSum /\ file'[tail].pay = pay
    BY Zenon, AppendIs
  <2>2. Logged(file'[tail], v) /\ Logged(lastSum, v)
    BY Zenon, <1>2, <2>1 DEF WellMade, Logged
  <2> QED BY Zenon, <2>1, <2>2 DEF WellMade
<1>4. ASSUME NEW j \in Slots PROVE WellMade(file'[j], v) /\ WellMade(disk[j], v)
  <2>1. WellMade(file[j], v) /\ WellMade(disk[j], v)
    BY Zenon, MadeStill DEF StaleInv
  <2>2. CASE j = tail
    BY Zenon, <1>3, <2>1, <2>2
  <2>3. CASE j # tail
    BY Zenon, <2>1, <2>3, AppendIs
  <2> QED BY Zenon, <2>2, <2>3
<1> QED BY Zenon, <1>4

\* Whatever is written at the tail, nothing on disk follows a batch before it
\* that the file does not hold.
LEMMA TailStale ==
  ASSUME WriterInv, AckInv, StaleInv, GroupInv, pc = "open", tail <= MaxSlots,
         NEW h, \A j \in Slots : j # tail => h[j] = file[j]
  PROVE  /\ \A b \in cur : Alone(disk, h, b)
         /\ \A g \in 1..Len(groups) : \A b \in groups[g] : Alone(disk, h, b)
<1>0. MaxSlots \in Nat /\ tail \in 1..MaxSlots /\ tail - 1 \in Nat
  BY WALAssumption DEF WriterInv
<1>1. ASSUME NEW b, b[1] \in 1..(tail - 2), Alone(disk, file, b) PROVE Alone(disk, h, b)
  <2>1. b[1] \in Slots /\ b[1] # tail /\ b[1] + 1 \in Slots /\ b[1] + 1 # tail
    BY <1>0, <1>1 DEF Slots
  <2> QED BY Zenon, <1>1, <2>1 DEF Alone
<1>2. ASSUME NEW b \in cur PROVE Alone(disk, h, b)
  <2>1. b[1] \in 1..(tail - 1)
    BY Zenon DEF AckInv, BatchOf
  <2>2. CASE b[1] = tail - 1
    <3>1. b[1] \in Slots /\ b[1] # tail /\ b[1] + 1 = tail
      BY <1>0, <2>1, <2>2 DEF Slots
    <3>2. h[b[1]] = lastSum
      BY Zenon, <2>2, <3>1 DEF WriterInv
    <3>3. ~Follows(disk[tail], lastSum)
      BY Zenon DEF StaleInv
    <3> QED BY Zenon, <3>1, <3>2, <3>3 DEF Alone
  <2>3. CASE b[1] # tail - 1
    <3>1. b[1] \in 1..(tail - 2)
      BY <1>0, <2>1, <2>3
    <3> QED BY Zenon, <1>1, <3>1 DEF StaleInv
  <2> QED BY Zenon, <2>2, <2>3
<1>3. ASSUME NEW g \in 1..Len(groups), NEW b \in groups[g] PROVE Alone(disk, h, b)
  <2>1. GroupsIn(file, groups, Len(groups), tail - 1)
    BY Zenon DEF GroupInv
  <2>2. b[1] \in 1..(tail - 1 - 1)
    BY Zenon, <1>0, <2>1, GroupBelow
  <2>3. b[1] \in 1..(tail - 2)
    BY <1>0, <2>2
  <2> QED BY Zenon, <1>1, <2>3 DEF StaleInv
<1> QED BY Zenon, <1>2, <1>3

\* Nothing is left behind before the log exists.
LEMMA InitStale == Init => StaleInv
<1> SUFFICES ASSUME Init PROVE StaleInv
  BY Zenon
<1>1. \A j \in Slots : file[j] = Blank /\ disk[j] = Blank
  BY Zenon DEF Init
<1>2. WellMade(Blank, {})
  BY Zenon DEF WellMade, Blank
<1>3. cur = {} /\ used = {} /\ Len(groups) = 0
  BY DEF Init
<1>4. \A g \in 1..Len(groups) : FALSE
  BY <1>3
<1> QED BY Zenon, <1>1, <1>2, <1>3, <1>4 DEF StaleInv
=============================================================================

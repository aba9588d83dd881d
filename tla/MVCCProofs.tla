----------------------------- MODULE MVCCProofs -----------------------------
(***************************************************************************)
(* Proofs about module MVCC: for every set of keys, payloads and           *)
(* transactions, with snapshots, staging, rollbacks, expiry, GC and Prune  *)
(* at any moment, also inside a commit, first committer wins and every     *)
(* registered snapshot keeps reading what it first saw, but for the        *)
(* snapshots taken inside a commit that the two properties leave out.      *)
(***************************************************************************)
EXTENDS MVCC, TLAPS

-----------------------------------------------------------------------------
(* The inductive invariant.                                                *)

\* What the status of a transaction says of its other fields.
TxnOK(t) ==
  /\ t \in live => Open(t)
  /\ readSeq[t] <= clock
  /\ seqOf[t] <= clock
  /\ status[t] \in {"committing", "committed"} <=> seqOf[t] # 0
  /\ status[t] = "idle" => wrote[t] = {} /\ staged[t] = {} /\ inFlight[t] = {}
  /\ Open(t) => staged[t] = wrote[t]

\* Sequences are unique; a committer holds the clock's.
TxnInv ==
  /\ \A t \in Txns : TxnOK(t)
  /\ \A t, u \in Txns : seqOf[t] # 0 /\ seqOf[t] = seqOf[u] => t = u
  /\ \A t \in Txns : status[t] = "committing" => seqOf[t] = clock

\* A committer's sequence is above every read point, but for the snapshots
\* taken inside its commit; those stage their entries after the committer's.
FlightInv ==
  /\ \A t, u \in Txns :
       status[u] = "committing" => readSeq[t] < clock \/ TakenInside(t, u)
  /\ \A e, f \in versions : TakenInside(e.txn, f.txn) => f.ord < e.ord

\* The snapshot of t was taken inside no commit.
Clean(t) == \A u \in Txns : ~TakenInside(t, u)

Committed(u) == status[u] = "committed"

\* A committer was validated: it shares no key with a commit it missed.
ValidInv ==
  \A t, u \in Txns :
    status[t] = "committing" /\ Committed(u) /\ seqOf[u] > readSeq[t]
    => wrote[t] \cap wrote[u] = {}

\* The entries of the chains: ordinals are unique, and an entry belongs to a
\* transaction that wrote its key.
EntryInv ==
  /\ \A e \in versions : e.ord \in 1..stages /\ e.key \in wrote[e.txn]
  /\ \A e, f \in versions : e.ord = f.ord => e = f

\* The ring holds what was committed, up to a dropped prefix; between commits
\* it holds the last one.
RingInv ==
  /\ \A c \in ring : /\ Committed(c.txn)
                     /\ seqOf[c.txn] = c.seq
                     /\ c.ids = wrote[c.txn]
  /\ clock # 0 /\ NoCommitter => \E c \in ring : c.seq = clock
  /\ \A u \in Txns : Committed(u) =>
       \/ \E c \in ring : c.txn = u
       \/ \A c \in ring : c.seq > seqOf[u]

\* A committed transaction that u's snapshot missed wrote k.
Overtaken(u, k) ==
  \E w \in Txns : Committed(w) /\ seqOf[w] > readSeq[u] /\ k \in wrote[w]

\* A stamped entry in front of an unstamped one was committed after the
\* latter's transaction took its snapshot; GC may have dropped an unstamped
\* entry only for such a transaction.
OvertakeInv ==
  /\ \A e, f \in versions :
       e.key = f.key /\ e.seq = 0 /\ f.seq # 0 /\ e.ord < f.ord
       => f.seq > readSeq[e.txn]
  /\ \A t \in Txns : \A k \in staged[t] :
       Open(t) =>
         \/ \E e \in versions : e.txn = t /\ e.key = k /\ e.seq = 0
         \/ Overtaken(t, k)

Stamped(k) == {e \in Chain(k) : e.seq # 0}

\* The newest stamped entry of a chain is the last committed payload.
CommittedInv ==
  \A k \in Keys :
    /\ Stamped(k) = {} => committed[k] = Tombstone
    /\ \A e \in Newest(Stamped(k)) : e.val = committed[k]

\* The newest entry a registered snapshot sees is the one it began with, unless
\* the snapshot was taken inside a commit.
ViewInv ==
  \A t \in live, k \in Keys :
    k \notin wrote[t] /\ Clean(t) =>
      /\ VisibleSet(t, k) = {} => view[t][k] = Tombstone
      /\ \A e \in Newest(VisibleSet(t, k)) : e.val = view[t][k]

IInv == /\ TypeOK /\ TxnInv /\ FlightInv /\ ValidInv /\ EntryInv /\ NoOrphan /\ RingInv
        /\ NoLostUpdate /\ OvertakeInv /\ ChainOrdered /\ CommittedInv /\ ViewInv

-----------------------------------------------------------------------------
(* Lemmas about the operators.                                             *)

\* Every nonempty set of naturals has a least element.  LeastHolds proves it
\* from the library, where the theorems need it.
LeastExists == \A S \in SUBSET Nat : S # {} => \E x \in S : \A y \in S : x <= y

\* A nonempty set of entries with bounded ordinals has a newest entry, so the
\* newest-first walk of a chain that holds a candidate stops at one.
LEMMA NewestExists ==
  ASSUME LeastExists, NEW S, NEW b \in Nat, S # {}, \A e \in S : e.ord \in 0..b
  PROVE  \E e \in S : e \in Newest(S)
<1> DEFINE T == {b - e.ord : e \in S}
<1>1. T \in SUBSET Nat /\ T # {}
  OBVIOUS
<1>2. PICK x \in T : \A y \in T : x <= y
  BY ZenonT(40), <1>1 DEF LeastExists
<1>3. PICK e \in S : x = b - e.ord
  BY Zenon
<1>4. \A f \in S : b - e.ord <= b - f.ord
  BY Zenon, <1>2, <1>3
<1>5. e \in Newest(S)
  BY <1>4 DEF Newest
<1> QED BY Zenon, <1>5

\* Two newest entries of the same set have the same ordinal.
LEMMA NewestUnique ==
  ASSUME EntryInv, NEW S \in SUBSET versions,
         NEW e \in Newest(S), NEW f \in Newest(S)
  PROVE  e = f
BY DEF EntryInv, Newest

\* Validate's soundness: a transaction it lets commit shares no key with a
\* transaction that committed above its read point, even one whose write-set
\* Prune has dropped.
LEMMA ValidateSound ==
  ASSUME TypeOK, RingInv, TxnInv, NEW t \in Txns, NEW u \in Txns, NoCommitter,
         Validate(t), Committed(u), seqOf[u] > readSeq[t]
  PROVE  wrote[t] \cap wrote[u] = {}
<1>1. PICK l \in ring : l.seq = clock
  BY DEF RingInv, TxnInv, TxnOK, TypeOK, Committed
<1>2. CASE \E c \in ring : c.txn = u
  BY Zenon, <1>2 DEF RingInv, Validate, ConflictsAfter
<1>3. CASE \A c \in ring : c.seq > seqOf[u]
  <2>1. \A c \in ring : c.seq > readSeq[t] + 1
    BY <1>3 DEF TypeOK
  <2> QED BY Zenon, <1>1, <2>1 DEF Validate, Expired
<1> QED BY Zenon, <1>2, <1>3 DEF RingInv

\* What a committing transaction leaves on a key it staged is the payload of
\* its newest entry there, and no stamped entry stands in front of it.
LEMMA LastStagedEntry ==
  ASSUME LeastExists, IInv, NEW t \in Txns, status[t] = "committing", NEW k \in staged[t]
  PROVE  /\ \E e \in StagedBy(t) :
              e \in Newest(StagedBy(t) \cap Chain(k)) /\ LastStaged(t, k) = e.val
         /\ \A e \in StagedBy(t), f \in versions :
              e.key = f.key /\ f.seq # 0 => ~(e.ord < f.ord)
<1> DEFINE S == StagedBy(t) \cap Chain(k)
<1>1. ~Overtaken(t, k)
  <2> SUFFICES ASSUME NEW w \in Txns, Committed(w), seqOf[w] > readSeq[t],
                      k \in wrote[w]
               PROVE  FALSE
    BY Zenon DEF Overtaken
  <2>1. wrote[t] \cap wrote[w] = {}
    BY Zenon DEF IInv, ValidInv
  <2>2. k \in wrote[t]
    BY Zenon DEF IInv, TxnInv, TxnOK, Open
  <2> QED BY Zenon, <2>1, <2>2
<1>2. PICK e \in versions : e.txn = t /\ e.key = k /\ e.seq = 0
  BY Zenon, <1>1 DEF IInv, OvertakeInv, Open
<1>3. S # {}
  BY Zenon, <1>2 DEF StagedBy, Chain
<1>4. stages \in Nat /\ \A x \in S : x.ord \in 0..stages
  BY DEF IInv, TypeOK, EntryInv, StagedBy
<1> HIDE DEF S
<1>5. \E x \in S : x \in Newest(S)
  BY Zenon, <1>3, <1>4, NewestExists
<1>6. \E x \in StagedBy(t) : x \in Newest(S) /\ LastStaged(t, k) = x.val
  BY ZenonT(40), <1>5 DEF LastStaged, S
<1>7. \A x \in StagedBy(t), f \in versions :
        x.key = f.key /\ f.seq # 0 => ~(x.ord < f.ord)
  <2> SUFFICES ASSUME NEW x \in StagedBy(t), NEW f \in versions,
                      x.key = f.key, f.seq # 0, x.ord < f.ord
               PROVE  FALSE
    BY Zenon
  <2>1. x \in versions /\ x.txn = t /\ x.seq = 0
    BY Zenon DEF StagedBy
  <2>2. f.txn \in Txns /\ f.seq = seqOf[f.txn] /\ Committed(f.txn)
    BY Zenon DEF IInv, TypeOK, Entry, NoOrphan, Committed
  <2>3. f.seq > readSeq[t]
    BY Zenon, <2>1 DEF IInv, OvertakeInv
  <2>4. wrote[t] \cap wrote[f.txn] = {}
    BY Zenon, <2>2, <2>3 DEF IInv, ValidInv
  <2>5. f.key \in wrote[f.txn] /\ x.key \in wrote[t]
    BY Zenon, <2>1 DEF IInv, EntryInv
  <2> QED BY Zenon, <2>4, <2>5
<1> QED BY Zenon, <1>6, <1>7 DEF S

-----------------------------------------------------------------------------
(* Each action preserves the invariant.                                    *)

\* With empty tables, no transaction and an empty ring it holds.
LEMMA InitInv == ASSUME Init PROVE IInv
<1> USE DEF Init
<1>1. TypeOK
  BY Zenon DEF TypeOK, Payload
<1>2. TxnInv /\ FlightInv /\ ValidInv /\ EntryInv
  BY DEF TxnInv, TxnOK, Open, FlightInv, ValidInv, EntryInv
<1>5. NoOrphan /\ RingInv /\ NoLostUpdate
  BY Zenon DEF NoOrphan, RingInv, NoLostUpdate, Committed
<1>3. OvertakeInv /\ ChainOrdered
  BY Zenon DEF OvertakeInv, ChainOrdered, Open
<1>4. CommittedInv /\ ViewInv
  BY Zenon DEF CommittedInv, ViewInv, Stamped, Chain, Newest
<1> QED BY Zenon, <1>1, <1>2, <1>3, <1>4, <1>5 DEF IInv

\* A new snapshot reads at the clock, where every stamped entry is visible.
LEMMA BeginInv ==
  ASSUME IInv, NEW t \in Txns, Begin(t)
  PROVE  IInv'
<1> USE DEF IInv, Begin
<1>1. TypeOK'
  BY Zenon DEF TypeOK
<1>m. NoCommitter' <=> NoCommitter
  BY Zenon DEF NoCommitter, TypeOK
<1>2. TxnInv' /\ FlightInv'
  <2>1. \A u \in Txns : u # t => /\ status'[u] = status[u]
                                /\ readSeq'[u] = readSeq[u]
                                /\ inFlight'[u] = inFlight[u]
    BY Zenon DEF TypeOK
  <2>2. /\ status'[t] = "active" /\ readSeq'[t] = clock
        /\ inFlight'[t] = {u \in Txns : Open(u)}
    BY Zenon DEF TypeOK
  <2>3. /\ \A e \in versions : e.txn \in Txns /\ e.txn # t
        /\ seqOf[t] = 0
    BY Zenon DEF TxnInv, TxnOK, EntryInv, TypeOK, Entry
  <2>4. TxnOK(t)'
    <3>1. seqOf[t] = 0 /\ staged[t] = {} /\ wrote[t] = {}
      BY Zenon DEF TxnInv, TxnOK
    <3>2. readSeq'[t] <= clock' /\ seqOf'[t] <= clock'
      BY <2>2, <3>1 DEF TypeOK
    <3> QED BY Zenon, <2>2, <3>1, <3>2 DEF TxnOK, Open
  <2>5. ASSUME NEW u \in Txns, u # t PROVE TxnOK(u)'
    BY <2>1, <2>5 DEF TxnInv, TxnOK, Open
  <2>6. TxnInv'
    BY Zenon, <2>1, <2>2, <2>4, <2>5 DEF TxnInv
  <2>7. \A u, w \in Txns : u # t => (TakenInside(u, w)' <=> TakenInside(u, w))
    BY Zenon, <2>1 DEF TakenInside
  <2>8. ASSUME NEW u \in Txns, status'[u] = "committing"
        PROVE  TakenInside(t, u)'
    <3>1. u # t /\ status[u] = "committing"
      BY Zenon, <2>1, <2>2, <2>8
    <3>2. seqOf[u] = clock /\ seqOf[u] # 0 /\ Open(u) /\ clock \in Nat
      BY Zenon, <3>1 DEF TxnInv, TxnOK, Open, TypeOK
    <3> QED BY <2>2, <3>2 DEF TakenInside
  <2>9. FlightInv'
    <3>1. ASSUME NEW u \in Txns, NEW w \in Txns, status'[w] = "committing"
          PROVE  readSeq'[u] < clock' \/ TakenInside(u, w)'
      <4>1. CASE u = t
        BY Zenon, <2>8, <3>1, <4>1
      <4>2. CASE u # t
        <5>1. status[w] = "committing"
          BY Zenon, <2>1, <2>2, <3>1
        <5>2. readSeq[u] < clock \/ TakenInside(u, w)
          BY Zenon, <5>1 DEF FlightInv
        <5> QED BY Zenon, <2>1, <2>7, <4>2, <5>2
      <4> QED BY Zenon, <4>1, <4>2
    <3>2. \A e, f \in versions' : TakenInside(e.txn, f.txn)' => f.ord < e.ord
      BY Zenon, <2>3, <2>7 DEF FlightInv
    <3> QED BY Zenon, <3>1, <3>2 DEF FlightInv
  <2> QED BY Zenon, <2>6, <2>9
<1>3. EntryInv' /\ ChainOrdered' /\ ValidInv'
  BY Zenon DEF EntryInv, ChainOrdered, ValidInv, Committed, TypeOK
<1>4. NoOrphan'
  BY Zenon DEF TypeOK, NoOrphan, Entry, Open
<1>o. \A u \in Txns : Committed(u)' <=> Committed(u)
  BY Zenon DEF Committed, TypeOK
<1>5. RingInv'
  BY SMTT(40), <1>m, <1>o DEF RingInv, TypeOK
<1>6. NoLostUpdate'
  BY Zenon DEF TypeOK, NoLostUpdate, Missed, TakenInside
<1>7. OvertakeInv'
  <2>1. \A e \in versions : e.seq = 0 => e.txn # t
    BY Zenon DEF NoOrphan, Open
  <2>2. staged[t] = {}
    BY Zenon DEF TxnInv, TxnOK
  <2>3. \A u \in Txns : u # t => (Open(u)' <=> Open(u)) /\ readSeq'[u] = readSeq[u]
    BY Zenon DEF Open, TypeOK
  <2> QED BY ZenonT(40), <1>o, <2>1, <2>2, <2>3
             DEF OvertakeInv, Overtaken, TypeOK, Entry
<1>8. CommittedInv'
  BY Zenon DEF CommittedInv, Stamped, Chain
<1>9. ViewInv'
  <2> SUFFICES ASSUME NEW u \in live', NEW k \in Keys, k \notin wrote[u],
                      Clean(u)'
               PROVE  /\ VisibleSet(u, k)' = {} => view'[u][k] = Tombstone
                      /\ \A e \in Newest(VisibleSet(u, k)') : e.val = view'[u][k]
    BY Zenon DEF ViewInv, Newest
  <2>1. u \in Txns
    BY Zenon DEF TypeOK
  <2>2. CASE u = t
    <3>1. VisibleSet(t, k)' = Stamped(k)
      <4>1. ASSUME NEW e \in versions
            PROVE  IsVisible(t, e)' <=> e.seq # 0
        <5>1. e.txn \in Txns /\ e.seq \in Nat
          BY Zenon DEF TypeOK, Entry
        <5>2. e.txn # t
          BY Zenon DEF EntryInv, TxnInv, TxnOK
        <5>3. e.seq # 0 => e.seq = seqOf[e.txn] /\ ~Open(e.txn) /\ e.seq <= clock
          BY Zenon, <5>1 DEF NoOrphan, Open, TxnInv, TxnOK
        <5> QED BY Zenon, <5>1, <5>2, <5>3 DEF IsVisible, TypeOK
      <4> QED BY Zenon, <4>1 DEF VisibleSet, Stamped, Chain
    <3> QED BY Zenon, <2>2, <3>1 DEF CommittedInv, TypeOK
  <2>3. CASE u # t
    <3>1. u \in live /\ VisibleSet(u, k)' = VisibleSet(u, k) /\ view'[u] = view[u]
      BY Zenon, <2>1, <2>3 DEF VisibleSet, IsVisible, Chain, TypeOK
    <3>2. Clean(u)
      BY Zenon, <2>1, <2>3 DEF Clean, TakenInside, TypeOK
    <3> QED BY Zenon, <3>1, <3>2 DEF ViewInv
  <2> QED BY Zenon, <2>2, <2>3
<1> QED BY Zenon, <1>1, <1>2, <1>3, <1>4, <1>5, <1>6, <1>7, <1>8, <1>9

\* A staged entry is the newest of its chain, unstamped, and seen by its own
\* transaction only.
LEMMA StageInv ==
  ASSUME IInv, NEW t \in Txns, NEW k \in Keys, NEW v \in Payload, Stage(t, k, v)
  PROVE  IInv'
<1> USE DEF IInv, Stage
<1> DEFINE n == [key |-> k, ord |-> stages + 1, txn |-> t, seq |-> 0, val |-> v]
<1>n. /\ n \in Entry
      /\ versions' = versions \cup {n}
      /\ \A e \in versions : e.ord < n.ord
  BY DEF TypeOK, Entry, EntryInv
<1>1. TypeOK'
  BY <1>n DEF TypeOK
<1>o. \A u \in Txns : /\ Committed(u)' <=> Committed(u)
                      /\ Open(u)' <=> Open(u)
  BY Zenon DEF Committed, Open, TypeOK
<1>m. NoCommitter' <=> NoCommitter
  BY Zenon DEF NoCommitter, TypeOK
<1>2. TxnInv' /\ FlightInv' /\ ValidInv'
  <2>1. TxnInv'
    BY ZenonT(40) DEF TypeOK, TxnInv, TxnOK, Open
  <2>3. \A u \in Txns : ~TakenInside(u, t)
    BY Zenon DEF TxnInv, TxnOK, TakenInside
  <2>4. \A e \in versions : e.txn \in Txns
    BY Zenon DEF TypeOK, Entry
  <2>5. n.txn = t
    BY Zenon
  <2>6. \A u, w : TakenInside(u, w)' <=> TakenInside(u, w)
    BY Zenon DEF TakenInside
  <2>7. FlightInv'
    BY Zenon, <1>n, <2>3, <2>4, <2>5, <2>6 DEF FlightInv
  <2>2. ValidInv'
    BY Zenon DEF TypeOK, ValidInv, Committed
  <2> QED BY Zenon, <2>1, <2>2, <2>7
<1>3. EntryInv'
  BY <1>n DEF EntryInv, TypeOK, Entry
<1>4. NoOrphan'
  BY <1>n DEF TypeOK, NoOrphan, Entry, Open
<1>5. RingInv'
  <2>1. \A c \in ring : c.txn # t /\ wrote'[c.txn] = wrote[c.txn] /\ c.txn \in Txns
    BY Zenon DEF RingInv, TypeOK, Committed
  <2> QED BY SMTT(40), <1>m, <1>o, <2>1 DEF RingInv
<1>6. NoLostUpdate'
  BY Zenon DEF TypeOK, NoLostUpdate, Missed, TakenInside
<1>7. OvertakeInv'
  <2>1. \A u \in Txns, j \in Keys : Overtaken(u, j) => Overtaken(u, j)'
    BY Zenon DEF Overtaken, Committed, TypeOK
  <2>2. \A e, f \in versions' :
          e.key = f.key /\ e.seq = 0 /\ f.seq # 0 /\ e.ord < f.ord
          => f.seq > readSeq[e.txn]
    BY <1>n DEF OvertakeInv, TypeOK, Entry
  <2>3. ASSUME NEW u \in Txns, NEW j \in staged'[u], Open(u)
        PROVE  \/ \E e \in versions' : e.txn = u /\ e.key = j /\ e.seq = 0
               \/ Overtaken(u, j)'
    <3>1. CASE u = t /\ j = k
      BY SMTT(40), <1>n, <3>1
    <3>2. CASE ~(u = t /\ j = k)
      <4>1. j \in staged[u] /\ j \in Keys
        BY Zenon, <3>2 DEF TypeOK
      <4> QED BY SMTT(40), <4>1, <2>1, <2>3, <1>n DEF OvertakeInv
    <3> QED BY Zenon, <3>1, <3>2
  <2> QED BY SMTT(40), <1>o, <2>2, <2>3 DEF OvertakeInv
<1>8. ChainOrdered'
  BY <1>n DEF ChainOrdered
<1>9. CommittedInv'
  <2>1. \A j \in Keys : Stamped(j)' = Stamped(j)
    BY SMTT(40), <1>n DEF Stamped, Chain
  <2> QED BY SMTT(40), <2>1 DEF CommittedInv, Newest
<1>10. ViewInv'
  <2>1. ASSUME NEW u \in live, NEW j \in Keys, j \notin wrote'[u]
        PROVE  VisibleSet(u, j)' = VisibleSet(u, j) /\ j \notin wrote[u]
    <3>1. u = t => j # k
      BY Zenon, <2>1 DEF TypeOK
    <3>2. n.key = j => ~IsVisible(u, n)'
      BY Zenon, <3>1 DEF IsVisible
    <3>3. VisibleSet(u, j)' = VisibleSet(u, j)
      BY SMTT(40), <1>n, <3>2 DEF VisibleSet, IsVisible, Chain
    <3> QED BY Zenon, <2>1, <3>3 DEF TypeOK
  <2>2. \A u : Clean(u)' <=> Clean(u)
    BY Zenon DEF Clean, TakenInside
  <2> QED BY SMTT(40), <2>1, <2>2 DEF ViewInv, Newest
<1> QED BY Zenon, <1>1, <1>2, <1>3, <1>4, <1>5, <1>6, <1>7, <1>8, <1>9, <1>10

\* A transaction that takes its sequence has been validated, and its sequence
\* is above every read point.
LEMMA AssignInv == ASSUME IInv, NEW t \in Txns, AssignSeq(t) PROVE IInv'
<1> USE DEF IInv, AssignSeq
<1>s. clock \in Nat /\ clock' = clock + 1
  BY Zenon DEF TypeOK
<1>t. /\ \A u \in Txns : u # t => seqOf'[u] = seqOf[u] /\ status'[u] = status[u]
      /\ seqOf'[t] = clock + 1 /\ status'[t] = "committing"
      /\ status[t] = "active" /\ seqOf[t] = 0
  BY Zenon DEF TypeOK, TxnInv, TxnOK
<1>b. \A u \in Txns : /\ readSeq[u] \in Nat /\ seqOf[u] \in Nat
                      /\ readSeq[u] <= clock /\ seqOf[u] <= clock
  BY Zenon DEF TypeOK, TxnInv, TxnOK
<1>o. \A u \in Txns : /\ Committed(u)' <=> Committed(u)
                      /\ Committed(u) => u # t
                      /\ Open(u)' <=> Open(u)
  BY Zenon, <1>t DEF Committed, Open
<1>i. \A u, w \in Txns : TakenInside(u, w)' <=> TakenInside(u, w)
  <2> SUFFICES ASSUME NEW u \in Txns, NEW w \in Txns
               PROVE  TakenInside(u, w)' <=> TakenInside(u, w)
    BY Zenon
  <2>1. CASE w = t
    <3>1. ~(seqOf'[t] <= readSeq[u])
      BY <1>s, <1>t, <1>b
    <3> QED BY Zenon, <1>t, <2>1, <3>1 DEF TakenInside
  <2>2. CASE w # t
    BY Zenon, <1>t, <2>2 DEF TakenInside
  <2> QED BY Zenon, <2>1, <2>2
<1>1. TypeOK'
  BY DEF TypeOK
<1>2. TxnInv' /\ FlightInv'
  <2>1. \A u \in Txns : TxnOK(u)'
    BY SMTT(40), <1>s, <1>t, <1>b, <1>o DEF TxnInv, TxnOK
  <2>2. \A u, w \in Txns : seqOf'[u] # 0 /\ seqOf'[u] = seqOf'[w] => u = w
    BY SMTT(40), <1>s, <1>t, <1>b DEF TxnInv
  <2>3. \A u \in Txns : status'[u] = "committing" => seqOf'[u] = clock'
    BY SMTT(40), <1>s, <1>t, <1>b DEF NoCommitter
  <2>4. \A e \in versions : e.txn \in Txns
    BY Zenon DEF TypeOK, Entry
  <2>5. \A u \in Txns : readSeq'[u] < clock'
    BY <1>s, <1>b
  <2>6. FlightInv'
    BY Zenon, <1>i, <2>4, <2>5 DEF FlightInv
  <2> QED BY Zenon, <2>1, <2>2, <2>3, <2>6 DEF TxnInv
<1>3. ValidInv'
  <2> SUFFICES ASSUME NEW x \in Txns, NEW u \in Txns, status'[x] = "committing",
                      Committed(u)', seqOf'[u] > readSeq[x]
               PROVE  wrote[x] \cap wrote[u] = {}
    BY Zenon DEF ValidInv
  <2>1. x = t /\ Committed(u) /\ seqOf'[u] = seqOf[u]
    BY SMTT(40), <1>t, <1>o DEF NoCommitter
  <2> QED BY Zenon, <2>1, ValidateSound
<1>4. EntryInv' /\ ChainOrdered'
  BY SMTT(40) DEF EntryInv, ChainOrdered
<1>5. NoOrphan'
  <2>1. \A e \in versions : e.txn \in Txns
    BY Zenon DEF TypeOK, Entry
  <2> QED BY SMTT(40), <1>t, <1>o, <2>1 DEF NoOrphan
<1>6. RingInv'
  <2>1. ~NoCommitter'
    BY SMTT(40), <1>t DEF NoCommitter
  <2>2. \A c \in ring : c.txn \in Txns
    BY Zenon DEF TypeOK
  <2> QED BY SMTT(40), <1>t, <1>o, <2>1, <2>2 DEF RingInv
<1>7. NoLostUpdate'
  BY Zenon, <1>t, <1>i DEF NoLostUpdate, Missed
<1>8. OvertakeInv'
  BY SMTT(40), <1>t, <1>o DEF OvertakeInv, Overtaken
<1>9. CommittedInv'
  BY Zenon DEF CommittedInv, Stamped, Chain, Newest
<1>10. ViewInv'
  <2>1. \A u \in live : Clean(u)' => Clean(u)
    BY Zenon, <1>i DEF Clean, TypeOK
  <2> QED BY <2>1 DEF ViewInv, VisibleSet, IsVisible, Chain, Newest
<1> QED BY Zenon, <1>1, <1>2, <1>3, <1>4, <1>5, <1>6, <1>7, <1>8, <1>9, <1>10

\* A rollback removes unstamped entries only, and those of no one else.
LEMMA AbortInv == ASSUME IInv, NEW t \in Txns, Abort(t) PROVE IInv'
<1> USE DEF IInv, Abort
<1>n. /\ versions' \subseteq versions
      /\ \A e \in versions : e \in versions' <=> ~(e.txn = t /\ e.seq = 0)
  BY SMTT(40) DEF StagedBy, NoOrphan
<1>1. TypeOK'
  BY Zenon, <1>n DEF TypeOK
<1>o. \A u \in Txns : Committed(u)' <=> Committed(u)
  BY Zenon DEF Committed, TypeOK
<1>m. NoCommitter' <=> NoCommitter
  BY Zenon DEF NoCommitter, TypeOK
<1>2. TxnInv' /\ FlightInv' /\ ValidInv'
  <2>1. TxnInv'
    BY SMTT(40) DEF TypeOK, TxnInv, TxnOK, Open
  <2>3. FlightInv'
    BY Zenon, <1>n DEF FlightInv, TakenInside, TypeOK
  <2>2. ValidInv'
    BY Zenon DEF TypeOK, ValidInv, Committed
  <2> QED BY Zenon, <2>1, <2>2, <2>3
<1>3. EntryInv' /\ ChainOrdered'
  BY Zenon, <1>n DEF EntryInv, ChainOrdered
<1>4. NoOrphan'
  BY Zenon, <1>n DEF TypeOK, NoOrphan, Entry, Open
<1>5. RingInv'
  BY SMTT(40), <1>m, <1>o DEF RingInv, TypeOK
<1>6. NoLostUpdate'
  BY Zenon DEF TypeOK, NoLostUpdate, Missed, TakenInside
<1>7. OvertakeInv'
  <2>1. \A e, f \in versions' :
          e.key = f.key /\ e.seq = 0 /\ f.seq # 0 /\ e.ord < f.ord
          => f.seq > readSeq[e.txn]
    BY SMTT(40), <1>n DEF OvertakeInv
  <2>2. ASSUME NEW u \in Txns, NEW k \in staged'[u], Open(u)'
        PROVE  \/ \E e \in versions' : e.txn = u /\ e.key = k /\ e.seq = 0
               \/ Overtaken(u, k)
    <3>1. u # t /\ k \in staged[u] /\ Open(u)
      BY Zenon, <2>2 DEF TypeOK, Open
    <3> QED BY <1>n, <3>1 DEF OvertakeInv
  <2>3. \A u, k : Overtaken(u, k) <=> Overtaken(u, k)'
    BY Zenon, <1>o DEF Overtaken
  <2> QED BY SMTT(40), <2>1, <2>2, <2>3 DEF OvertakeInv
<1>8. CommittedInv'
  <2>1. \A k \in Keys : Stamped(k)' = Stamped(k)
    BY Zenon, <1>n DEF Stamped, Chain
  <2> QED BY Zenon, <2>1 DEF CommittedInv, Newest
<1>9. ViewInv'
  <2>1. ASSUME NEW u \in live', NEW k \in Keys
        PROVE  VisibleSet(u, k)' = VisibleSet(u, k) /\ u \in live
    BY SMTT(40), <1>n DEF VisibleSet, IsVisible, Chain
  <2>2. \A u : Clean(u)' <=> Clean(u)
    BY Zenon DEF Clean, TakenInside
  <2> QED BY SMTT(40), <2>1, <2>2 DEF ViewInv, Newest
<1> QED BY Zenon, <1>1, <1>2, <1>3, <1>4, <1>5, <1>6, <1>7, <1>8, <1>9

\* An expired snapshot only leaves the oracle.
LEMMA ExpireInv == ASSUME IInv, NEW t \in Txns, Expire(t) PROVE IInv'
<1> USE DEF IInv, Expire
<1>1. TypeOK' /\ TxnInv' /\ FlightInv' /\ ValidInv'
  BY SMTT(40) DEF TypeOK, TxnInv, TxnOK, Open, FlightInv, TakenInside, ValidInv, Committed
<1>2. EntryInv' /\ NoOrphan' /\ RingInv' /\ NoLostUpdate'
  BY SMTT(40)
     DEF EntryInv, NoOrphan, Open, RingInv, Committed, NoCommitter, NoLostUpdate, Missed,
         TakenInside
<1>3. OvertakeInv' /\ ChainOrdered' /\ CommittedInv'
  BY SMTT(40)
     DEF OvertakeInv, Overtaken, Open, Committed, ChainOrdered, CommittedInv, Stamped, Chain, Newest
<1>4. ViewInv'
  BY SMTT(40) DEF ViewInv, Clean, TakenInside, VisibleSet, IsVisible, Chain, Newest
<1> QED BY Zenon, <1>1, <1>2, <1>3, <1>4

\* Prune drops a prefix of the ring, and never the last commit: the watermark
\* is at most the clock and the test is strict.
LEMMA PruneInv == ASSUME IInv, Prune PROVE IInv'
<1> USE DEF IInv, Prune
<1>n. PICK w \in 0..clock : ring' = {c \in ring : c.seq >= w}
  BY Zenon
<1>1. TypeOK' /\ TxnInv' /\ FlightInv' /\ ValidInv'
  BY SMTT(40), <1>n
     DEF TypeOK, TxnInv, TxnOK, Open, FlightInv, TakenInside, ValidInv, Committed
<1>2. EntryInv' /\ NoOrphan' /\ NoLostUpdate'
  BY ZenonT(40) DEF EntryInv, NoOrphan, Open, NoLostUpdate, Missed, TakenInside
<1>3. OvertakeInv' /\ ChainOrdered' /\ CommittedInv'
  BY SMTT(40)
     DEF OvertakeInv, Overtaken, Open, Committed, ChainOrdered, CommittedInv, Stamped, Chain, Newest
<1>4. ViewInv'
  BY SMTT(40) DEF ViewInv, Clean, TakenInside, VisibleSet, IsVisible, Chain, Newest
<1>5. RingInv'
  <2>1. clock # 0 /\ NoCommitter => \E c \in ring' : c.seq = clock
    BY <1>n DEF RingInv, TypeOK
  <2>2. ASSUME NEW u \in Txns, Committed(u)
        PROVE  \/ \E c \in ring' : c.txn = u
               \/ \A c \in ring' : c.seq > seqOf[u]
    <3>1. CASE \E c \in ring : c.txn = u
      <4> PICK c \in ring : c.txn = u
        BY Zenon, <3>1
      <4>1. c.seq = seqOf[u] /\ c.seq \in Nat
        BY SMTT(40) DEF RingInv, TypeOK
      <4>2. CASE c.seq >= w
        BY Zenon, <1>n, <4>2
      <4>3. CASE ~(c.seq >= w)
        BY <1>n, <4>1, <4>3 DEF TypeOK
      <4> QED BY Zenon, <4>2, <4>3
    <3>2. CASE \A c \in ring : c.seq > seqOf[u]
      BY Zenon, <1>n, <3>2
    <3> QED BY SMTT(40), <2>2, <3>1, <3>2 DEF RingInv
  <2> QED BY SMTT(40), <1>n, <2>1, <2>2 DEF RingInv, Committed, NoCommitter
<1> QED BY Zenon, <1>1, <1>2, <1>3, <1>4, <1>5

\* What GC does to one chain: nothing, or it clears a chain whose newest entry
\* is a tombstone at or below the watermark, or it cuts behind the base.
LEMMA GCChain ==
  ASSUME LeastExists, IInv, NEW w \in 0..clock, NEW k \in Keys
  PROVE  \/ Reclaimable(k, w) = {} /\ GCKeep(k, w) = Chain(k)
         \/ \E b \in Base(k, w) :
              /\ b \in Reclaimable(k, w)
              /\ b.val = Tombstone /\ b \in Newest(Chain(k)) /\ GCKeep(k, w) = {}
         \/ \E b \in Base(k, w) :
              /\ b \in Reclaimable(k, w)
              /\ GCKeep(k, w) = {e \in Chain(k) : b.ord <= e.ord}
<1>1. CASE Reclaimable(k, w) = {}
  BY SMTT(40), <1>1 DEF GCKeep, Base, Newest
<1>2. CASE Reclaimable(k, w) # {}
  <2>1. stages \in Nat /\ \A x \in Reclaimable(k, w) : x.ord \in 0..stages
    BY DEF IInv, TypeOK, EntryInv, Reclaimable, Chain
  <2>2. PICK b \in Reclaimable(k, w) : b \in Base(k, w)
    BY Zenon, <1>2, <2>1, NewestExists DEF Base
  <2>3. \A x \in Base(k, w) : x = b
    <3>1. Reclaimable(k, w) \in SUBSET versions
      BY Zenon DEF Reclaimable, Chain
    <3> QED BY Zenon, <2>2, <3>1, NewestUnique DEF IInv, Base
  <2>4. CASE b.val = Tombstone /\ b \in Newest(Chain(k))
    BY Zenon, <2>2, <2>4 DEF GCKeep
  <2>5. CASE ~(b.val = Tombstone /\ b \in Newest(Chain(k)))
    BY SMTT(40), <2>2, <2>3, <2>5 DEF GCKeep
  <2> QED BY SMTT(40), <2>4, <2>5
<1> QED BY SMTT(40), <1>1, <1>2

\* GC keeps what every registered snapshot sees: the base is at or below every
\* registered read point, so no snapshot looks behind it.
LEMMA GCInv == ASSUME LeastExists, IInv, GC PROVE IInv'
<1> USE DEF IInv
<1>n. PICK w \in 0..clock :
        IsWatermark(w) /\ versions' = UNION {GCKeep(k, w) : k \in Keys}
  BY Zenon DEF GC
<1>u. UNCHANGED <<clock, staged, wrote, live, readSeq, inFlight, ring, status,
                  seqOf, stages, committed, view>>
  BY Zenon DEF GC
<1>a. versions' \subseteq versions
  BY Zenon, <1>n DEF GCKeep, Chain
<1>b. \A k \in Keys : Chain(k)' = GCKeep(k, w)
  BY <1>n DEF GCKeep, Chain
<1>c. ASSUME NEW e \in versions, e \notin versions'
      PROVE  \E b \in Reclaimable(e.key, w) : e.ord <= b.ord
  <2>1. e.key \in Keys /\ e \in Chain(e.key) /\ e.ord \in Nat
    BY Zenon DEF TypeOK, Entry, Chain
  <2>2. e \notin GCKeep(e.key, w)
    BY Zenon, <1>c, <1>n, <2>1
  <2>3. \A b \in Reclaimable(e.key, w) : b.ord \in Nat
    BY Zenon DEF TypeOK, Entry, Reclaimable, Chain
  <2> QED BY <2>1, <2>2, <2>3, GCChain DEF Newest
<1>1. TypeOK'
  BY Zenon, <1>a, <1>u DEF TypeOK
<1>2. TxnInv' /\ FlightInv' /\ ValidInv'
  BY SMTT(40), <1>a, <1>u
     DEF TxnInv, TxnOK, Open, FlightInv, TakenInside, ValidInv, Committed
<1>3. EntryInv' /\ ChainOrdered' /\ NoOrphan'
  BY SMTT(40), <1>a, <1>u DEF EntryInv, ChainOrdered, NoOrphan, Open
<1>4. RingInv' /\ NoLostUpdate'
  BY SMTT(40), <1>u DEF RingInv, Committed, NoCommitter, NoLostUpdate, Missed,
         TakenInside
<1>5. OvertakeInv'
  <2>1. \A e, f \in versions' :
          e.key = f.key /\ e.seq = 0 /\ f.seq # 0 /\ e.ord < f.ord
          => f.seq > readSeq[e.txn]
    BY Zenon, <1>a DEF OvertakeInv
  <2>2. ASSUME NEW t \in Txns, NEW k \in staged[t], Open(t)
        PROVE  \/ \E e \in versions' : e.txn = t /\ e.key = k /\ e.seq = 0
               \/ Overtaken(t, k)
    <3>1. CASE Overtaken(t, k)
      BY Zenon, <3>1
    <3>2. CASE \E e \in versions : e.txn = t /\ e.key = k /\ e.seq = 0
      <4> PICK e \in versions : e.txn = t /\ e.key = k /\ e.seq = 0
        BY Zenon, <3>2
      <4>1. CASE e \in versions'
        BY Zenon, <4>1
      <4>2. CASE e \notin versions'
        <5>1. PICK b \in Reclaimable(k, w) : e.ord <= b.ord
          BY Zenon, <1>c, <4>2
        <5>2. b \in versions /\ b.key = k /\ b.seq # 0
          BY Zenon DEF Reclaimable, Chain
        <5>3. e.ord < b.ord
          <6>1. e.ord # b.ord
            BY Zenon, <5>2 DEF EntryInv
          <6>2. e.ord \in Nat /\ b.ord \in Nat
            BY Zenon, <5>2 DEF TypeOK, Entry
          <6> QED BY <5>1, <6>1, <6>2
        <5>4. b.seq > readSeq[t]
          BY SMTT(40), <5>2, <5>3 DEF OvertakeInv
        <5>5. /\ b.txn \in Txns /\ seqOf[b.txn] = b.seq /\ k \in wrote[b.txn]
              /\ Committed(b.txn)
          BY SMTT(40), <5>2 DEF TypeOK, Entry, NoOrphan, EntryInv, Committed
        <5> QED BY SMTT(40), <5>2, <5>4, <5>5 DEF Overtaken
      <4> QED BY Zenon, <4>1, <4>2
    <3> QED BY SMTT(40), <2>2, <3>1, <3>2 DEF OvertakeInv
  <2>3. \A t, k : Overtaken(t, k) <=> Overtaken(t, k)'
    BY Zenon, <1>u DEF Overtaken, Committed
  <2> QED BY SMTT(40), <1>u, <2>1, <2>2, <2>3 DEF OvertakeInv, Open
<1>6. CommittedInv'
  <2> SUFFICES ASSUME NEW k \in Keys
               PROVE  /\ Stamped(k)' = {} => committed[k] = Tombstone
                      /\ \A e \in Newest(Stamped(k)') : e.val = committed[k]
    BY SMTT(40), <1>u DEF CommittedInv, Newest
  <2>1. Stamped(k)' = {e \in GCKeep(k, w) : e.seq # 0}
    BY Zenon, <1>b DEF Stamped
  <2>2. CASE GCKeep(k, w) = Chain(k)
    BY SMTT(40), <2>1, <2>2 DEF CommittedInv, Stamped
  <2>3. ASSUME NEW b \in Reclaimable(k, w), b.val = Tombstone,
               b \in Newest(Chain(k)), GCKeep(k, w) = {}
        PROVE  /\ Stamped(k)' = {} => committed[k] = Tombstone
               /\ \A e \in Newest(Stamped(k)') : e.val = committed[k]
    <3>1. b \in Newest(Stamped(k))
      BY Zenon, <2>3 DEF Newest, Stamped, Reclaimable
    <3> QED BY SMTT(40), <2>1, <2>3, <3>1 DEF CommittedInv, Newest
  <2>4. ASSUME NEW b \in Reclaimable(k, w),
               GCKeep(k, w) = {e \in Chain(k) : b.ord <= e.ord}
        PROVE  /\ Stamped(k)' = {} => committed[k] = Tombstone
               /\ \A e \in Newest(Stamped(k)') : e.val = committed[k]
    <3>1. Stamped(k)' = {e \in Stamped(k) : b.ord <= e.ord}
      BY Zenon, <2>1, <2>4 DEF Stamped
    <3>2. \A e \in Stamped(k) : e.ord \in Nat
      BY Zenon DEF Stamped, Chain, TypeOK, Entry
    <3>3. b \in Stamped(k)
      BY Zenon DEF Reclaimable, Stamped
    <3>4. \A e \in Newest(Stamped(k)') : e \in Newest(Stamped(k))
      BY <3>1, <3>2, <3>3 DEF Newest
    <3> QED BY SMTT(40), <3>1, <3>2, <3>3, <3>4 DEF CommittedInv
  <2> QED BY SMTT(40), <2>2, <2>3, <2>4, GCChain
<1>7. ViewInv'
  <2> SUFFICES ASSUME NEW t \in live, NEW k \in Keys, k \notin wrote[t], Clean(t)
               PROVE  /\ VisibleSet(t, k)' = {} => view[t][k] = Tombstone
                      /\ \A e \in Newest(VisibleSet(t, k)') : e.val = view[t][k]
    <3>1. \A t, k : Newest(VisibleSet(t, k))' = Newest(VisibleSet(t, k)')
      BY SMTT(40) DEF Newest
    <3>2. \A t : Clean(t)' <=> Clean(t)
      BY Zenon, <1>u DEF Clean, TakenInside
    <3> QED BY ZenonT(40), <1>u, <3>1, <3>2 DEF ViewInv
  <2>1. VisibleSet(t, k)' = {e \in GCKeep(k, w) : IsVisible(t, e)}
    BY SMTT(40), <1>b, <1>u DEF VisibleSet, IsVisible
  <2>2. /\ VisibleSet(t, k) = {} => view[t][k] = Tombstone
        /\ \A e \in Newest(VisibleSet(t, k)) : e.val = view[t][k]
    BY SMTT(40) DEF ViewInv
  <2>3. ASSUME NEW b \in Reclaimable(k, w)
        PROVE  b \in VisibleSet(t, k) /\ b.ord \in Nat
    <3>1. t \in Txns /\ w <= readSeq[t]
      BY Zenon, <1>n DEF IsWatermark, TypeOK
    <3>2. b \in Chain(k) /\ b.seq # 0 /\ b.seq <= w /\ b \in versions
      BY SMTT(40) DEF Reclaimable, Chain
    <3>3. b.txn \in Txns /\ b.seq \in Nat /\ b.ord \in Nat /\ seqOf[b.txn] = b.seq
      BY SMTT(40), <3>2 DEF TypeOK, Entry, NoOrphan
    <3>4. b.seq <= readSeq[t]
      BY <3>1, <3>2, <3>3 DEF TypeOK
    <3>5. b.txn \notin inFlight[t]
      BY Zenon, <3>2, <3>3, <3>4 DEF Clean, TakenInside
    <3> QED BY Zenon, <3>2, <3>3, <3>4, <3>5 DEF VisibleSet, IsVisible
  <2>4. CASE GCKeep(k, w) = Chain(k)
    BY SMTT(40), <2>1, <2>2, <2>4 DEF VisibleSet
  <2>5. ASSUME NEW b \in Reclaimable(k, w), b.val = Tombstone,
               b \in Newest(Chain(k)), GCKeep(k, w) = {}
        PROVE  /\ VisibleSet(t, k)' = {} => view[t][k] = Tombstone
               /\ \A e \in Newest(VisibleSet(t, k)') : e.val = view[t][k]
    <3>1. b \in Newest(VisibleSet(t, k))
      BY SMTT(40), <2>3, <2>5 DEF Newest, VisibleSet
    <3> QED BY SMTT(40), <2>1, <2>2, <2>5, <3>1 DEF Newest
  <2>6. ASSUME NEW b \in Reclaimable(k, w),
               GCKeep(k, w) = {e \in Chain(k) : b.ord <= e.ord}
        PROVE  /\ VisibleSet(t, k)' = {} => view[t][k] = Tombstone
               /\ \A e \in Newest(VisibleSet(t, k)') : e.val = view[t][k]
    <3>1. VisibleSet(t, k)' = {e \in VisibleSet(t, k) : b.ord <= e.ord}
      BY SMTT(40), <2>1, <2>6 DEF VisibleSet
    <3>2. \A e \in VisibleSet(t, k) : e.ord \in Nat
      BY Zenon DEF VisibleSet, Chain, TypeOK, Entry
    <3>3. \A e \in Newest(VisibleSet(t, k)') : e \in Newest(VisibleSet(t, k))
      BY SMTT(40), <2>3, <3>1, <3>2 DEF Newest
    <3> QED BY SMTT(40), <2>2, <2>3, <3>1, <3>2, <3>3
  <2> QED BY SMTT(40), <2>4, <2>5, <2>6, GCChain
<1> QED BY Zenon, <1>1, <1>2, <1>3, <1>4, <1>5, <1>6, <1>7

-----------------------------------------------------------------------------
(* The publication of a commit.                                            *)

\* VersionTable.Commit gives every entry of the transaction the new sequence
\* and touches nothing else.
LEMMA StampEntries ==
  ASSUME IInv, NEW t \in Txns, status[t] = "committing", NEW s \in Nat
  PROVE  /\ \A e \in versions : e.txn = t <=> e \in StagedBy(t)
         /\ \A e \in versions : e.txn # t => e \in Stamp(t, s)
         /\ \A e \in StagedBy(t) : \E f \in Stamp(t, s) :
              /\ f.key = e.key /\ f.ord = e.ord /\ f.val = e.val
              /\ f.txn = t /\ f.seq = s
         /\ \A f \in Stamp(t, s) :
              \/ f \in versions /\ f.txn # t
              \/ \E e \in StagedBy(t) :
                   /\ f.key = e.key /\ f.ord = e.ord /\ f.val = e.val
                   /\ f.txn = t /\ f.seq = s /\ f \in Entry
<1>1. \A e \in versions : e.txn = t <=> e \in StagedBy(t)
  BY Zenon DEF IInv, NoOrphan, StagedBy
<1>2. \A e \in StagedBy(t) : e \in Entry /\ e.txn = t
  BY Zenon DEF IInv, TypeOK, StagedBy
<1>3. ASSUME NEW e \in StagedBy(t)
      PROVE  LET f == [e EXCEPT !.seq = s]
             IN  /\ f.key = e.key /\ f.ord = e.ord /\ f.val = e.val
                 /\ f.txn = t /\ f.seq = s /\ f \in Entry
  BY Zenon, <1>2 DEF Entry
<1>4. \A e \in versions : e.txn # t => e \in Stamp(t, s)
  <2>1. \A e \in StagedBy(t) : e.txn = t
    BY Zenon DEF StagedBy
  <2> QED BY Zenon, <2>1 DEF Stamp
<1>5. ASSUME NEW e \in StagedBy(t)
      PROVE  \E f \in Stamp(t, s) :
               /\ f.key = e.key /\ f.ord = e.ord /\ f.val = e.val
               /\ f.txn = t /\ f.seq = s
  <2>1. [e EXCEPT !.seq = s] \in Stamp(t, s)
    BY Zenon DEF Stamp
  <2> QED BY ZenonT(40), <1>3, <2>1
<1>6. ASSUME NEW f \in Stamp(t, s)
      PROVE  \/ f \in versions /\ f.txn # t
             \/ \E e \in StagedBy(t) :
                  /\ f.key = e.key /\ f.ord = e.ord /\ f.val = e.val
                  /\ f.txn = t /\ f.seq = s /\ f \in Entry
  <2>1. CASE f \in versions \ StagedBy(t)
    BY Zenon, <1>1, <2>1
  <2>2. CASE \E e \in StagedBy(t) : f = [e EXCEPT !.seq = s]
    <3>1. PICK e \in StagedBy(t) : f = [e EXCEPT !.seq = s]
      BY Zenon, <2>2
    <3> QED BY Zenon, <1>3, <3>1
  <2> QED BY Zenon, <2>1, <2>2 DEF Stamp
<1> QED BY Zenon, <1>1, <1>4, <1>5, <1>6

\* A validated transaction commits on top of every chain it wrote.
LEMMA PublishInv ==
  ASSUME LeastExists, IInv, NEW t \in Txns, Publish(t)
  PROVE  IInv'
<1> DEFINE s == seqOf[t]
<1> USE DEF IInv
<1>n. /\ versions' = Stamp(t, s)
      /\ staged' = [staged EXCEPT ![t] = {}]
      /\ status' = [status EXCEPT ![t] = "committed"]
  BY Zenon DEF Publish
<1>v. status[t] = "committing"
  BY Zenon DEF Publish
<1>r. ring' = ring \cup {[txn |-> t, seq |-> s, ids |-> wrote[t]]}
  BY Zenon DEF Publish
<1>l. live' = live \ {t}
  BY Zenon DEF Publish
<1>k. committed' = [k \in Keys |-> IF k \in staged[t] THEN LastStaged(t, k)
                                   ELSE committed[k]]
  BY Zenon DEF Publish
<1>u. UNCHANGED <<clock, wrote, readSeq, inFlight, seqOf, stages, view>>
  BY Zenon DEF Publish
<1>s. s \in Nat /\ clock \in Nat /\ s = clock /\ s # 0
  BY Zenon, <1>v DEF TypeOK, TxnInv, TxnOK
<1>b. \A u \in Txns : /\ readSeq[u] \in Nat /\ seqOf[u] \in Nat
                      /\ readSeq[u] <= clock /\ seqOf[u] <= clock
  BY Zenon, <1>v DEF TypeOK, TxnInv, TxnOK
<1>i. /\ \A u, w : TakenInside(u, w)' <=> TakenInside(u, w)
      /\ \A u : Clean(u)' <=> Clean(u)
  BY Zenon, <1>u DEF TakenInside, Clean
<1>q. \A u \in Txns : u # t => seqOf[u] < s
  BY <1>b, <1>s DEF TxnInv
<1>z. seqOf[t] = s
  BY Zenon
<1> HIDE DEF s
<1>x. /\ \A u \in Txns : s >= seqOf[u]
      /\ \A u \in Txns : s > readSeq[u] \/ TakenInside(u, t)
  BY Zenon, <1>s, <1>b, <1>v DEF FlightInv
<1>t. /\ \A u \in Txns : u # t => status'[u] = status[u] /\ staged'[u] = staged[u]
      /\ status'[t] = "committed" /\ staged'[t] = {}
  BY Zenon, <1>n DEF TypeOK
<1>m. \A u \in Txns : u # t => status[u] # "committing"
  BY <1>v, <1>s DEF TxnInv
<1>o. /\ \A u \in Txns : u # t => (Committed(u)' <=> Committed(u)) /\ (Open(u)' <=> Open(u))
      /\ Committed(t)' /\ ~Committed(t) /\ ~Open(t)'
  BY Zenon, <1>t, <1>v DEF Committed, Open
<1>e1. \A e \in versions : e.txn = t <=> e \in StagedBy(t)
  BY Zenon, <1>v, <1>s, StampEntries
<1>e2. \A e \in versions : e.txn # t => e \in versions'
  BY Zenon, <1>n, <1>v, <1>s, StampEntries
<1>e3. \A e \in StagedBy(t) : \E f \in versions' :
         /\ f.key = e.key /\ f.ord = e.ord /\ f.val = e.val
         /\ f.txn = t /\ f.seq = s
  BY Zenon, <1>n, <1>v, <1>s, StampEntries
<1>e4. \A f \in versions' : f.txn # t => f \in versions
  BY <1>n, <1>v, <1>s, StampEntries
<1>e5. \A f \in versions' : f.txn = t =>
         \E e \in StagedBy(t) :
           /\ f.key = e.key /\ f.ord = e.ord /\ f.val = e.val
           /\ f.seq = s /\ f \in Entry
  BY <1>n, <1>v, <1>s, StampEntries
<1>e6. \A f \in versions' : f.txn = t => f.seq = s
  BY Zenon, <1>e5
<1>f. StagedBy(t) \subseteq versions
  BY Zenon DEF StagedBy
<1>g. \A e \in versions : e.txn \in Txns /\ e.seq \in Nat /\ e.seq <= clock
  BY SMTT(40) DEF TypeOK, Entry, NoOrphan, TxnInv, TxnOK
<1>1. TypeOK'
  <2>1. versions' \subseteq Entry
    BY Zenon, <1>e4, <1>e5 DEF TypeOK
  <2>2. \A k \in staged[t] : LastStaged(t, k) \in Payload
    <3> TAKE k \in staged[t]
    <3>1. PICK e \in StagedBy(t) : LastStaged(t, k) = e.val
      BY ZenonT(40), <1>v, LastStagedEntry
    <3> QED BY <1>f, <3>1 DEF TypeOK, Entry
  <2>3. committed' \in [Keys -> Payload]
    BY Zenon, <1>k, <2>2 DEF TypeOK
  <2>4. ring' \subseteq [txn : Txns, seq : Nat, ids : SUBSET Keys]
    BY <1>r, <1>s DEF TypeOK
  <2> QED BY Zenon, <1>n, <1>s, <1>l, <1>u, <2>1, <2>3, <2>4 DEF TypeOK
<1>2. TxnInv' /\ FlightInv'
  <2>1. TxnOK(t)'
    BY <1>l, <1>o, <1>s, <1>t, <1>u, <1>b, <1>z DEF TxnOK
  <2>2. ASSUME NEW u \in Txns, u # t PROVE TxnOK(u)'
    <3>1. TxnOK(u)
      BY Zenon DEF TxnInv
    <3> QED BY Zenon, <1>l, <1>o, <1>t, <1>u, <2>2, <3>1 DEF TxnOK
  <2>3. TxnInv'
    BY Zenon, <1>m, <1>t, <1>u, <2>1, <2>2 DEF TxnInv
  <2>5. \A f \in versions' : \E e \in versions : e.ord = f.ord /\ e.txn = f.txn
    BY Zenon, <1>e1, <1>e4, <1>e5, <1>f
  <2>4. FlightInv'
    BY Zenon, <1>i, <1>m, <1>t, <2>5 DEF FlightInv
  <2> QED BY Zenon, <2>3, <2>4
<1>w. ValidInv'
  BY Zenon, <1>m, <1>t DEF ValidInv
<1>3. EntryInv'
  <2>1. ASSUME NEW f \in versions'
        PROVE  f.ord \in 1..stages /\ f.key \in wrote[f.txn]
    <3>1. \E e \in versions : e.ord = f.ord /\ e.txn = f.txn /\ e.key = f.key
      BY Zenon, <1>e1, <1>e4, <1>e5, <1>f
    <3> QED BY Zenon, <3>1 DEF EntryInv
  <2>2. ASSUME NEW f \in versions', NEW g \in versions', f.ord = g.ord
        PROVE  f = g
    <3>1. \E e \in versions : e.ord = f.ord /\ e.txn = f.txn
      BY Zenon, <1>e1, <1>e4, <1>e5, <1>f
    <3>2. \E e \in versions : e.ord = g.ord /\ e.txn = g.txn
      BY Zenon, <1>e1, <1>e4, <1>e5, <1>f
    <3>3. f.txn = g.txn
      BY Zenon, <2>2, <3>1, <3>2 DEF EntryInv
    <3>4. CASE f.txn # t
      BY Zenon, <1>e4, <2>2, <3>3, <3>4 DEF EntryInv
    <3>5. CASE f.txn = t
      <4>1. PICK d \in StagedBy(t) : f.key = d.key /\ f.ord = d.ord /\ f.val = d.val
                                     /\ f.seq = s /\ f \in Entry
        BY Zenon, <1>e5, <3>5
      <4>2. PICK e \in StagedBy(t) : g.key = e.key /\ g.ord = e.ord /\ g.val = e.val
                                     /\ g.seq = s /\ g \in Entry
        BY ZenonT(40), <1>e5, <3>3, <3>5
      <4>3. d = e
        BY ZenonT(40), <1>f, <2>2, <4>1, <4>2 DEF EntryInv
      <4> QED BY <3>3, <4>1, <4>2, <4>3 DEF Entry
    <3> QED BY Zenon, <3>4, <3>5
  <2> QED BY Zenon, <1>u, <2>1, <2>2 DEF EntryInv
<1>4. NoOrphan'
  <2> SUFFICES ASSUME NEW e \in versions'
               PROVE  IF e.seq = 0 THEN Open(e.txn)' /\ e.key \in staged'[e.txn]
                      ELSE status'[e.txn] = "committed" /\ e.seq = seqOf'[e.txn]
    BY Zenon DEF NoOrphan
  <2>1. CASE e.txn = t
    BY Zenon, <1>e6, <1>s, <1>t, <1>u, <1>z, <2>1
  <2>2. CASE e.txn # t
    <3>1. e \in versions /\ e.txn \in Txns
      BY Zenon, <1>e4, <1>g, <2>2
    <3> QED BY Zenon, <1>t, <1>o, <1>u, <2>2, <3>1 DEF NoOrphan
  <2> QED BY Zenon, <2>1, <2>2
<1>5. RingInv'
  <2> DEFINE r == [txn |-> t, seq |-> s, ids |-> wrote[t]]
  <2>r. r \in ring' /\ r.txn = t /\ r.seq = s /\ r.ids = wrote[t]
    BY Zenon, <1>r
  <2>s. \A c \in ring' : c \in ring \/ c = r
    BY Zenon, <1>r
  <2> HIDE DEF r
  <2>1. \A c \in ring : c.txn # t /\ c.txn \in Txns
    BY Zenon, <1>o DEF RingInv, TypeOK
  <2>2. \A c \in ring' : Committed(c.txn)' /\ seqOf'[c.txn] = c.seq
                         /\ c.ids = wrote'[c.txn]
    BY Zenon, <1>o, <1>u, <1>z, <2>r, <2>s, <2>1 DEF RingInv
  <2>3. \E c \in ring' : c.seq = clock'
    BY Zenon, <1>s, <1>u, <2>r
  <2>4. ASSUME NEW u \in Txns, Committed(u)'
        PROVE  \/ \E c \in ring' : c.txn = u
               \/ \A c \in ring' : c.seq > seqOf'[u]
    <3>1. CASE u = t
      BY Zenon, <2>r, <3>1
    <3>2. CASE u # t
      <4>1. r.seq > seqOf[u]
        BY Zenon, <1>b, <1>q, <1>s, <2>r, <3>2
      <4>2. \/ \E c \in ring : c.txn = u
            \/ \A c \in ring : c.seq > seqOf[u]
        BY Zenon, <1>o, <2>4, <3>2 DEF RingInv
      <4> QED BY Zenon, <1>r, <1>u, <2>s, <4>1, <4>2
    <3> QED BY Zenon, <3>1, <3>2
  <2> QED BY Zenon, <2>2, <2>3, <2>4 DEF RingInv
<1>6. NoLostUpdate'
  <2> SUFFICES ASSUME NEW u \in Txns, NEW v \in Txns,
                      status'[u] = "committed", status'[v] = "committed",
                      seqOf'[v] < seqOf'[u], Missed(u, v)', ~TakenInside(u, v)'
               PROVE  wrote[u] \cap wrote[v] = {}
    BY Zenon, <1>u DEF NoLostUpdate
  <2>1. v # t
    BY <1>b, <1>s, <1>u, <1>x, <1>z
  <2>2. status[v] = "committed" /\ seqOf[v] # 0 /\ Committed(v)
    BY Zenon, <1>t, <2>1 DEF TxnInv, TxnOK, Committed
  <2>3. CASE u = t
    <3>1. seqOf[v] > readSeq[t]
      BY <1>b, <1>u, <2>2, <2>3 DEF Missed, TakenInside
    <3> QED BY Zenon, <1>v, <2>2, <2>3, <3>1 DEF ValidInv
  <2>4. CASE u # t
    BY Zenon, <1>i, <1>u, <1>t, <2>2, <2>4 DEF NoLostUpdate, Missed
  <2> QED BY Zenon, <2>3, <2>4
<1>h. \A e \in StagedBy(t), f \in versions :
        e.key = f.key /\ f.seq # 0 => ~(e.ord < f.ord)
  <2> SUFFICES ASSUME NEW e \in StagedBy(t)
               PROVE  \A f \in versions :
                        e.key = f.key /\ f.seq # 0 => ~(e.ord < f.ord)
    BY Zenon
  <2>1. e.key \in staged[t]
    BY Zenon DEF StagedBy
  <2> QED BY ZenonT(40), <1>v, <2>1, LastStagedEntry
<1>7. OvertakeInv'
  <2>1. ASSUME NEW e \in versions', NEW f \in versions',
               e.key = f.key, e.seq = 0, f.seq # 0, e.ord < f.ord
        PROVE  f.seq > readSeq[e.txn]
    <3>1. e \in versions /\ e.txn # t /\ e.txn \in Txns
      BY Zenon, <1>e4, <1>e6, <1>s, <1>g, <2>1
    <3>2. CASE f \in versions
      BY Zenon, <2>1, <3>1, <3>2 DEF OvertakeInv
    <3>3. CASE f.txn = t
      <4>1. PICK d \in versions : d.ord = f.ord /\ d.txn = t
        BY Zenon, <1>e1, <1>e5, <1>f, <3>3
      <4>2. ~TakenInside(e.txn, t)
        <5>1. d.ord \in Nat /\ e.ord \in Nat
          BY Zenon, <3>1, <4>1 DEF TypeOK, Entry
        <5>2. ~(d.ord < e.ord)
          BY <2>1, <4>1, <5>1
        <5> QED BY Zenon, <3>1, <4>1, <5>2 DEF FlightInv
      <4> QED BY Zenon, <1>e6, <1>x, <3>1, <3>3, <4>2
    <3> QED BY Zenon, <1>e4, <3>2, <3>3
  <2>2. ASSUME NEW u \in Txns, NEW k \in staged'[u], Open(u)'
        PROVE  \/ \E e \in versions' : e.txn = u /\ e.key = k /\ e.seq = 0
               \/ Overtaken(u, k)'
    <3>1. u # t /\ k \in staged[u] /\ Open(u)
      BY Zenon, <1>o, <1>t, <2>2
    <3>2. CASE \E e \in versions : e.txn = u /\ e.key = k /\ e.seq = 0
      BY Zenon, <1>e2, <3>1, <3>2
    <3>3. CASE Overtaken(u, k)
      <4>1. PICK w \in Txns : Committed(w) /\ seqOf[w] > readSeq[u] /\ k \in wrote[w]
        BY Zenon, <3>3 DEF Overtaken
      <4>2. Committed(w)'
        BY Zenon, <1>o, <4>1
      <4> QED BY Zenon, <1>u, <4>1, <4>2 DEF Overtaken
    <3> QED BY Zenon, <3>1, <3>2, <3>3 DEF OvertakeInv
  <2> QED BY SMTT(40), <1>u, <2>1, <2>2 DEF OvertakeInv
<1>8. ChainOrdered'
  <2> SUFFICES ASSUME NEW e \in versions', NEW f \in versions', e.key = f.key,
                      e.seq # 0, f.seq # 0, e.ord < f.ord
               PROVE  e.seq <= f.seq
    BY Zenon DEF ChainOrdered
  <2>1. CASE e.txn # t /\ f.txn # t
    BY Zenon, <1>e4, <2>1 DEF ChainOrdered
  <2>2. CASE e.txn # t /\ f.txn = t
    BY Zenon, <1>e4, <1>e6, <1>g, <1>s, <2>2
  <2>3. CASE e.txn = t /\ f.txn # t
    <3>1. PICK d \in StagedBy(t) : d.key = e.key /\ d.ord = e.ord
      BY Zenon, <1>e5, <2>3
    <3>2. f \in versions
      BY Zenon, <1>e4, <2>3
    <3> QED BY Zenon, <1>h, <3>1, <3>2
  <2>4. CASE e.txn = t /\ f.txn = t
    BY <1>e6, <1>s, <2>4
  <2> QED BY Zenon, <2>1, <2>2, <2>3, <2>4
<1>9. CommittedInv'
  <2> SUFFICES ASSUME NEW k \in Keys
               PROVE  /\ Stamped(k)' = {} => committed'[k] = Tombstone
                      /\ \A e \in Newest(Stamped(k)') : e.val = committed'[k]
    <3>1. \A k : Newest(Stamped(k))' = Newest(Stamped(k)')
      BY Zenon DEF Newest
    <3> QED BY Zenon, <3>1 DEF CommittedInv
  <2>1. CASE k \notin staged[t]
    <3>1. \A e \in StagedBy(t) : e.key # k
      BY Zenon, <2>1 DEF StagedBy
    <3>2. \A e \in versions : e.txn = t => e.key # k
      BY Zenon, <1>e1, <3>1
    <3>3. Stamped(k)' = Stamped(k)
      <4>1. \A e \in versions' : e.key = k => e \in versions
        BY Zenon, <1>e4, <1>e5, <3>1
      <4>2. \A e \in versions : e.key = k => e \in versions'
        BY Zenon, <1>e2, <3>2
      <4> QED BY Zenon, <4>1, <4>2 DEF Stamped, Chain
    <3> QED BY Zenon, <1>k, <2>1, <3>3 DEF CommittedInv
  <2>2. CASE k \in staged[t]
    <3>1. PICK d \in StagedBy(t) :
            d \in Newest(StagedBy(t) \cap Chain(k)) /\ LastStaged(t, k) = d.val
      BY SMTT(40), <1>v, <2>2, LastStagedEntry
    <3>2. d.key = k /\ d \in versions
      BY Zenon, <3>1 DEF Newest, Chain
    <3>3. PICK g \in versions' : g.key = k /\ g.ord = d.ord /\ g.val = d.val
                                 /\ g.txn = t /\ g.seq = s
      BY Zenon, <1>e3, <3>2
    <3>4. g \in Stamped(k)'
      BY Zenon, <1>s, <3>3 DEF Stamped, Chain
    <3>5. \A f \in Stamped(k)' : f.ord <= g.ord
      <4> SUFFICES ASSUME NEW f \in Stamped(k)' PROVE f.ord <= g.ord
        BY Zenon
      <4>1. f \in versions' /\ f.key = k /\ f.seq # 0
        BY Zenon DEF Stamped, Chain
      <4>2. f.ord \in Nat /\ g.ord \in Nat
        BY Zenon, <1>1, <4>1 DEF TypeOK, Entry
      <4>3. CASE f.txn # t
        <5>1. f \in versions
          BY Zenon, <1>e4, <4>1, <4>3
        <5>2. ~(d.ord < f.ord)
          BY Zenon, <1>h, <3>2, <4>1, <5>1
        <5> QED BY <3>3, <4>2, <5>2
      <4>4. CASE f.txn = t
        <5>1. PICK e \in StagedBy(t) : f.key = e.key /\ f.ord = e.ord
          BY Zenon, <1>e5, <4>1, <4>4
        <5>2. e \in StagedBy(t) \cap Chain(k)
          BY Zenon, <1>f, <4>1, <5>1 DEF Chain
        <5> QED BY Zenon, <3>1, <3>3, <5>1, <5>2 DEF Newest
      <4> QED BY Zenon, <4>3, <4>4
    <3>6. ASSUME NEW e \in Newest(Stamped(k)') PROVE e = g
      <4>1. e \in Stamped(k)' /\ g.ord <= e.ord /\ e.ord <= g.ord
        BY Zenon, <3>4, <3>5 DEF Newest
      <4>2. e \in versions'
        BY Zenon, <4>1 DEF Stamped, Chain
      <4>3. e.ord \in Nat /\ g.ord \in Nat
        BY SMTT(40), <1>1, <4>2 DEF TypeOK, Entry
      <4>4. e.ord = g.ord
        BY <4>1, <4>3
      <4> QED BY SMTT(40), <1>3, <4>2, <4>4 DEF EntryInv
    <3>7. committed'[k] = d.val
      BY Zenon, <1>k, <2>2, <3>1
    <3> QED BY Zenon, <3>3, <3>4, <3>6, <3>7
  <2> QED BY Zenon, <2>1, <2>2
<1>10. ViewInv'
  <2>1. ASSUME NEW u \in live', NEW k \in Keys, Clean(u)
        PROVE  VisibleSet(u, k)' = VisibleSet(u, k) /\ u \in live
    <3>1. u \in live /\ u # t /\ u \in Txns
      BY Zenon, <1>l DEF TypeOK
    <3>2. ~(s <= readSeq[u])
      BY <1>b, <1>s, <1>x, <2>1, <3>1 DEF Clean
    <3>3. \A e \in versions' : e.txn = t => ~IsVisible(u, e)'
      BY Zenon, <1>e6, <1>u, <3>1, <3>2 DEF IsVisible
    <3>4. \A e \in versions : e.txn = t => ~IsVisible(u, e)
      BY SMTT(40), <1>e1, <3>1 DEF IsVisible, StagedBy
    <3>5. \A e : IsVisible(u, e)' <=> IsVisible(u, e)
      BY SMTT(40), <1>u DEF IsVisible
    <3> QED BY Zenon, <1>e2, <1>e4, <3>1, <3>3, <3>4, <3>5 DEF VisibleSet, Chain
  <2>2. \A u, k : Newest(VisibleSet(u, k))' = Newest(VisibleSet(u, k)')
    BY Zenon DEF Newest
  <2> QED BY SMTT(40), <1>i, <1>u, <2>1, <2>2 DEF ViewInv
<1> QED BY Zenon, <1>1, <1>2, <1>w, <1>3, <1>4, <1>5, <1>6, <1>7, <1>8, <1>9, <1>10

-----------------------------------------------------------------------------
(* Every step.                                                             *)

\* Every action, and a stuttering step, keeps the invariant.
LEMMA NextInv ==
  ASSUME LeastExists, IInv, [Next]_vars
  PROVE  IInv'
<1>1. CASE UNCHANGED vars
  <2> USE <1>1 DEF vars, IInv
  <2>1. TypeOK' /\ TxnInv' /\ FlightInv' /\ ValidInv' /\ EntryInv'
    BY SMTT(40)
       DEF TypeOK, TxnInv, TxnOK, FlightInv, TakenInside, ValidInv, Committed, EntryInv, Open
  <2>4. NoOrphan' /\ RingInv'
    BY ZenonT(40) DEF NoOrphan, Open, RingInv, Committed, NoCommitter
  <2>2. NoLostUpdate' /\ OvertakeInv' /\ ChainOrdered' /\ CommittedInv'
    BY SMTT(40)
       DEF NoLostUpdate, Missed, TakenInside, OvertakeInv, Overtaken, Open, Committed, ChainOrdered,
           CommittedInv, Stamped, Chain, Newest
  <2>3. ViewInv'
    BY SMTT(40) DEF ViewInv, Clean, TakenInside, VisibleSet, IsVisible, Chain, Newest
  <2> QED BY Zenon, <2>1, <2>2, <2>3, <2>4
<1>2. ASSUME NEW t \in Txns, Begin(t) PROVE IInv'
  BY Zenon, <1>2, BeginInv
<1>3. ASSUME NEW t \in Txns, NEW k \in Keys, NEW v \in Payload, Stage(t, k, v)
      PROVE  IInv'
  BY Zenon, <1>3, StageInv
<1>4. ASSUME NEW t \in Txns, AssignSeq(t) PROVE IInv'
  BY Zenon, <1>4, AssignInv
<1>5. ASSUME NEW t \in Txns, Publish(t) PROVE IInv'
  BY Zenon, <1>5, PublishInv
<1>6. ASSUME NEW t \in Txns, Abort(t) PROVE IInv'
  BY Zenon, <1>6, AbortInv
<1>7. ASSUME NEW t \in Txns, Expire(t) PROVE IInv'
  BY Zenon, <1>7, ExpireInv
<1>8. CASE GC
  BY Zenon, <1>8, GCInv
<1>9. CASE Prune
  BY Zenon, <1>9, PruneInv
<1> QED BY Zenon, <1>1, <1>2, <1>3, <1>4, <1>5, <1>6, <1>7, <1>8, <1>9 DEF Next

-----------------------------------------------------------------------------
(* The theorems.                                                           *)

INSTANCE WellFoundedInduction

\* A nonempty set of numbers has a least one.
LEMMA LeastHolds == LeastExists
<1> DEFINE R == OpToRel(<, Nat)
<1>1. IsWellFoundedOn(R, Nat)
  BY ZenonT(40), NatLessThanWellFounded
<1>2. \A x, y \in Nat : y < x => <<y, x>> \in R
  BY Zenon DEF OpToRel
<1> HIDE DEF R
<1>3. ASSUME NEW S \in SUBSET Nat, S # {}
      PROVE  \E x \in S : \A y \in S : x <= y
  <2>1. PICK x \in S : \A y \in S : ~ (<<y, x>> \in R)
    BY ZenonT(40), <1>1, <1>3, WFMin
  <2>2. \A y \in S : x \in Nat /\ y \in Nat /\ ~(y < x)
    BY ZenonT(40), <1>2, <2>1
  <2> QED BY <2>2
<1> QED BY Zenon, <1>3 DEF LeastExists

\* The invariant holds in every reachable state, the windows between NextSeq
\* and Commit and the snapshots taken in them included.
THEOREM Invariance == Spec => []IInv
<1>1. Init => IInv
  BY Zenon, InitInv
<1>2. IInv /\ [Next]_vars => IInv'
  BY Zenon, LeastHolds, NextInv
<1> QED BY <1>1, <1>2, PTL DEF Spec

\* The state always has its type, the payload a commit publishes included.
THEOREM TypeCorrect == Spec => []TypeOK
<1>1. IInv => TypeOK
  BY Zenon DEF IInv
<1> QED BY <1>1, Invariance, PTL

\* First committer wins: CommittedRing.Validate is sound although Prune drops
\* write-sets and snapshots expire, because a read point older than the ring
\* is refused and the strict test of Prune never empties the ring.  Snapshots
\* may be taken at any moment; the pair NoLostUpdate leaves out is a snapshot
\* and the commit it was taken inside.
THEOREM FirstCommitterWins == Spec => []NoLostUpdate
<1>1. IInv => NoLostUpdate
  BY Zenon DEF IInv
<1> QED BY <1>1, Invariance, PTL

\* Stamped entries of a chain are in commit order, which makes the first
\* visible entry of VersionTable.Visible's walk the latest visible commit.
THEOREM ChainsOrdered == Spec => []ChainOrdered
<1>1. IInv => ChainOrdered
  BY Zenon DEF IInv
<1> QED BY <1>1, Invariance, PTL

\* Every unstamped entry can still be stamped or dropped by its transaction.
THEOREM NoOrphans == Spec => []NoOrphan
<1>1. IInv => NoOrphan
  BY Zenon DEF IInv
<1> QED BY <1>1, Invariance, PTL

\* Snapshot isolation: VersionTable.Visible answers every registered snapshot
\* with what was committed when it was taken, through commits, rollbacks and
\* VersionTable.GC, unless the snapshot was taken inside a commit.
THEOREM SnapshotIsolation == Spec => []SnapshotRead
<1>1. IInv => SnapshotRead
  <2> SUFFICES ASSUME IInv, NEW t \in live, NEW k \in Keys, k \notin wrote[t],
                      Clean(t)
               PROVE  Visible(t, k) = view[t][k]
    BY Zenon DEF SnapshotRead, Clean
  <2> DEFINE V == VisibleSet(t, k)
  <2>1. /\ V = {} => view[t][k] = Tombstone
        /\ \A e \in Newest(V) : e.val = view[t][k]
    BY Zenon DEF IInv, ViewInv
  <2>2. stages \in Nat /\ \A e \in V : e.ord \in 0..stages
    BY DEF IInv, TypeOK, EntryInv, VisibleSet, Chain
  <2> HIDE DEF V
  <2>3. V # {} => \E e \in V : e \in Newest(V)
    BY SMTT(40), <2>2, LeastHolds, NewestExists
  <2>4. Visible(t, k) = IF V = {} THEN Tombstone
                        ELSE (CHOOSE e \in V : e \in Newest(V)).val
    BY SMTT(40) DEF Visible, V
  <2> QED BY Zenon, <2>1, <2>3, <2>4
<1> QED BY <1>1, Invariance, PTL
=============================================================================

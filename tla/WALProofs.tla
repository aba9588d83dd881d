----------------------------- MODULE WALProofs ------------------------------
(***************************************************************************)
(* What the log guarantees for every number of slots, payloads and         *)
(* crashes: the writer always stands at the end of an intact chain, an     *)
(* acknowledged commit survives, and the commits of a generation survive   *)
(* as a prefix, each whole.                                                *)
(***************************************************************************)
EXTENDS WALInv

\* No step lets a stale frame follow a batch of this generation: the bytes of a
\* new batch are new, a sync makes the file durable, and what is written later
\* is written behind the batches.
LEMMA NextStale ==
  ASSUME LeastExists, ~CrashCreate, ~GoesOn, FreshBatches, WriterInv, AckInv, StaleInv,
         GroupInv, [Next]_vars
  PROVE  StaleInv'
<1>0. MaxSlots \in Nat /\ 0 \in Slots /\ tail \in 1..(MaxSlots + 1)
  BY WALAssumption DEF Slots, WriterInv
<1> DEFINE Made == \A j \in Slots : WellMade(file'[j], used') /\ WellMade(disk'[j], used')
<1>1. ASSUME file' = file, disk' = file, used' = used, cur' = {}
      PROVE  StaleInv'
  <2>1. Made
    BY Zenon, <1>1 DEF StaleInv
  <2>2. \A b : Alone(disk', file', b)
    BY Zenon, <1>1 DEF Alone
  <2> QED BY Zenon, <1>1, <2>1, <2>2 DEF StaleInv
<1>2. CASE CreateHeader
  <2>1. /\ file'[0] = Header(salt) /\ \A j \in Slots : j # 0 => file'[j] = file[j]
        /\ pc = "absent" /\ UNCHANGED <<disk, used, cur, groups>>
    BY Zenon, <1>0, <1>2 DEF CreateHeader, history, WriterInv
  <2>2. WellMade(Header(salt), used)
    BY Zenon DEF WellMade, Header
  <2>3. Made
    BY Zenon, <2>1, <2>2 DEF StaleInv
  <2>4. cur = {} /\ groups = <<>> /\ Len(groups) = 0
    BY Zenon, <2>1 DEF AckInv, GroupInv
  <2>5. \A g \in 1..Len(groups) : FALSE
    BY <2>4
  <2> QED BY Zenon, <2>1, <2>3, <2>4, <2>5 DEF StaleInv
<1>3. CASE CreateSync
  BY Zenon, <1>1, <1>3 DEF CreateSync, history, AckInv
<1>4. CASE \E p \in Payloads : LogBatch(p)
  <2>1. PICK p \in Payloads : LogBatch(p)
    BY Zenon, <1>4
  <2>2. /\ AppendFrame("batch", p) /\ pc = "open" /\ p \notin used
        /\ used' = used \cup {p} /\ cur' = cur \cup {<<tail, file'[tail]>>}
        /\ UNCHANGED <<disk, groups>>
    BY Zenon, <2>1 DEF LogBatch
  <2>3. Made
    BY Zenon, <2>2, AppendMade
  <2>4. /\ tail' = tail + 1 /\ tail <= MaxSlots /\ lastSum' = file'[tail]
        /\ \A j \in Slots : j # tail => file'[j] = file[j]
        /\ file'[tail].kind = "frame" /\ file'[tail].type = "batch"
        /\ file'[tail].pay = p
    BY Zenon, <2>2, AppendIs DEF AppendFrame
  <2>5. /\ \A b \in cur : Alone(disk, file', b)
        /\ \A g \in 1..Len(groups) : \A b \in groups[g] : Alone(disk, file', b)
    BY Zenon, <2>2, <2>4, TailStale
  <2>6. ASSUME tail + 1 <= MaxSlots PROVE ~Follows(disk[tail + 1], file'[tail])
    <3>1. tail + 1 \in Slots
      BY <1>0, <2>6 DEF Slots
    <3>2. WellMade(disk[tail + 1], used) /\ ~Logged(file'[tail], used)
      BY Zenon, <2>2, <2>4, <3>1 DEF StaleInv, Logged
    <3> QED BY Zenon, <3>2 DEF Follows, WellMade
  <2>7. Alone(disk, file', <<tail, file'[tail]>>)
    <3>1. <<tail, file'[tail]>>[1] = tail /\ (tail < MaxSlots => tail + 1 <= MaxSlots)
      BY <1>0
    <3> QED BY Zenon, <2>6, <3>1 DEF Alone
  <2> QED BY Zenon, <2>2, <2>3, <2>4, <2>5, <2>6, <2>7 DEF StaleInv
<1>5. CASE AppendFails
  <2>1. /\ pc = "open" /\ tail <= MaxSlots /\ file'[tail] = Torn
        /\ \A j \in Slots : j # tail => file'[j] = file[j]
        /\ UNCHANGED <<disk, lastSum, tail, used, cur, groups>>
    BY <1>0, <1>5 DEF AppendFails, WriterInv, writer, history, Slots
  <2>2. WellMade(Torn, used)
    BY Zenon DEF WellMade, Torn
  <2>3. Made
    BY Zenon, <2>1, <2>2 DEF StaleInv
  <2>4. /\ \A b \in cur : Alone(disk, file', b)
        /\ \A g \in 1..Len(groups) : \A b \in groups[g] : Alone(disk, file', b)
    BY Zenon, <2>1, TailStale
  <2> QED BY Zenon, <2>1, <2>3, <2>4 DEF StaleInv
<1>6. CASE Commit
  <2>1. /\ AppendFrame("commit", batchN) /\ pc = "open" /\ cur' = {}
        /\ groups' = Append(groups, cur) /\ UNCHANGED <<disk, used>>
    BY Zenon, <1>6 DEF Commit
  <2>2. Made
    <3>1. used \subseteq used' /\ ("commit" = "batch" => batchN \in used')
      BY <2>1
    <3> QED BY ZenonT(40), <2>1, <3>1, AppendMade
  <2>3. tail <= MaxSlots /\ \A j \in Slots : j # tail => file'[j] = file[j]
    BY Zenon, <2>1, AppendIs DEF AppendFrame
  <2>4. /\ \A b \in cur : Alone(disk, file', b)
        /\ \A g \in 1..Len(groups) : \A b \in groups[g] : Alone(disk, file', b)
    BY Zenon, <2>1, <2>3, TailStale
  <2>5. \A g \in 1..Len(groups') :
          groups'[g] = cur \/ (g \in 1..Len(groups) /\ groups'[g] = groups[g])
    BY <2>1 DEF AckInv
  <2>6. \A g \in 1..Len(groups') : \A b \in groups'[g] : Alone(disk', file', b)
    BY Zenon, <2>1, <2>4, <2>5
  <2> QED BY Zenon, <2>1, <2>2, <2>6 DEF StaleInv
<1>7. CASE CommitSynced
  BY Zenon, <1>1, <1>7 DEF CommitSynced, AckInv
<1>8. CASE SyncFails
  BY Zenon, <1>8 DEF SyncFails, StaleInv
<1>9. CASE Fold
  <2>1. cur' = {}
    BY <1>9 DEF Fold, history, AckInv
  <2> QED BY Zenon, <1>1, <1>9, <2>1 DEF Fold, history
<1>10. CASE CheckpointFrame
  <2>1. /\ AppendFrame("checkpoint", mainLSN) /\ pc = "open" /\ batchN = 0
        /\ UNCHANGED <<disk, used, cur, groups>>
    BY Zenon, <1>10 DEF CheckpointFrame, history
  <2>2. Made
    BY <2>1, AppendMade
  <2>3. tail <= MaxSlots /\ \A j \in Slots : j # tail => file'[j] = file[j]
    BY Zenon, <2>1, AppendIs DEF AppendFrame
  <2>4. \A g \in 1..Len(groups) : \A b \in groups[g] : Alone(disk, file', b)
    BY Zenon, <2>1, <2>3, TailStale
  <2>5. cur = {}
    BY <2>1 DEF AckInv
  <2> QED BY Zenon, <2>1, <2>2, <2>4, <2>5 DEF StaleInv
<1>11. CASE Rotate
  <2>1. /\ pc = "flushing" /\ disk' = file /\ file'[0] = Header(salt')
        /\ \A j \in Slots : j # 0 => file'[j] = file[j]
        /\ UNCHANGED <<used, cur, groups>>
    BY Zenon, <1>0, <1>11 DEF Rotate, WriterInv, history
  <2>2. WellMade(Header(salt'), used)
    BY Zenon DEF WellMade, Header
  <2>3. Made
    BY Zenon, <2>1, <2>2 DEF StaleInv
  <2>4. ASSUME NEW g \in 1..Len(groups), NEW b \in groups[g] PROVE Alone(disk', file', b)
    <3>1. GroupsIn(file, groups, Len(groups), tail - 1) /\ tail - 1 \in Nat
      BY <1>0, <2>1 DEF GroupInv
    <3>2. b[1] \in 1..(tail - 1 - 1)
      BY Zenon, <3>1, GroupBelow
    <3>3. b[1] + 1 \in Slots /\ b[1] + 1 # 0
      BY <1>0, <3>2 DEF Slots
    <3> QED BY Zenon, <2>1, <3>3 DEF Alone
  <2>5. cur = {}
    BY <2>1 DEF AckInv
  <2> QED BY Zenon, <2>1, <2>3, <2>4, <2>5 DEF StaleInv
<1>12. CASE Rotated
  BY Zenon, <1>1, <1>12 DEF Rotated, AckInv
<1>13. CASE Crash
  <2>1. cur' = {} /\ used' = used /\ disk' = file'
    BY Zenon, <1>13 DEF Crash
  <2>2. WellMade(Torn, used)
    BY Zenon DEF WellMade, Torn
  <2>3. Made
    BY Zenon, <1>13, <2>1, <2>2, CrashIs DEF StaleInv
  <2>4. \A b : Alone(disk', file', b)
    BY Zenon, <2>1 DEF Alone
  <2> QED BY Zenon, <2>1, <2>3, <2>4 DEF StaleInv
<1>14. CASE Close
  BY Zenon, <1>14 DEF Close, StaleInv
<1>15. CASE Open
  <2> DEFINE N == Survivors(file, groups)
  <2>1. pc = "closed" /\ UNCHANGED <<file, disk, used, cur>>
        /\ groups' = SubSeq(groups, 1, N)
    BY Zenon, <1>15 DEF Open
  <2>2. cur = {} /\ Len(groups) \in Nat
    BY <2>1 DEF AckInv
  <2>3. N \in 0..Len(groups)
    BY Zenon, <2>2, SurvivorsIs
  <2> HIDE DEF N
  <2>4. \A g \in 1..Len(groups') : g \in 1..Len(groups) /\ groups'[g] = groups[g]
    BY <2>1, <2>3 DEF AckInv
  <2> QED BY Zenon, <2>1, <2>2, <2>4 DEF StaleInv
<1>16. CASE UNCHANGED vars
  BY Zenon, <1>16 DEF vars, StaleInv
<1>17. CASE CreateFails
  BY Zenon, <1>17 DEF CreateFails, StaleInv, writer, history
<1>18. CASE RotateFails
  <2>1. cur' = {}
    BY Zenon, <1>18 DEF RotateFails, history, AckInv
  <2> QED BY Zenon, <1>1, <1>18, <2>1 DEF RotateFails, history
<1> QED BY Zenon, <1>2, <1>3, <1>4, <1>5, <1>6, <1>7, <1>8, <1>9, <1>10, <1>11,
           <1>12, <1>13, <1>14, <1>15, <1>16, <1>17, <1>18 DEF Next

-----------------------------------------------------------------------------
(* Commits survive as a prefix.                                            *)

\* Commits that lie in a chain lie in a longer one; empty ones lie anywhere.
LEMMA GroupsMore ==
  ASSUME NEW f, NEW gs, NEW hs, NEW n \in Nat, NEW m \in Nat, NEW t \in Nat, NEW s \in Nat,
         t <= s, GroupsIn(f, gs, n, t), Chained(f, s),
         \A g \in 1..m : hs[g] = {} \/ (g \in 1..n /\ hs[g] = gs[g])
  PROVE  GroupsIn(f, hs, m, s)
<1>1. ASSUME NEW g \in 1..m, hs[g] # {}
      PROVE  \E c \in 1..s : f[c].type = "commit" /\ Own(f, hs[g], c)
  <2>1. g \in 1..n /\ hs[g] = gs[g]
    BY Zenon, <1>1
  <2>2. PICK c \in 1..t : f[c].type = "commit" /\ Own(f, gs[g], c)
    BY Zenon, <1>1, <2>1 DEF GroupsIn
  <2>3. c \in 1..s
    OBVIOUS
  <2> QED BY Zenon, <2>1, <2>2, <2>3
<1>2. ASSUME NEW g \in 1..m, NEW h \in 1..m, g < h, NEW b \in hs[g], NEW d \in hs[h]
      PROVE  Split(f, b, d)
  BY Zenon, <1>2 DEF GroupsIn
<1> QED BY Zenon, <1>1, <1>2 DEF GroupsIn

\* An append leaves the commits and the pending batches where they are.
LEMMA AppendGroups ==
  ASSUME WriterInv, AckInv, GroupInv, pc = "open", NEW h,
         \A j \in 0..(tail - 1) : h[j] = file[j]
  PROVE  /\ GroupsIn(h, groups, Len(groups), tail - 1)
         /\ Own(h, cur, tail)
         /\ \A d \in cur : \A g \in 1..Len(groups) : \A b \in groups[g] : Split(h, b, d)
         /\ \A g \in 1..Len(groups) : \A b \in groups[g] :
              /\ b[1] \in 1..(tail - 1)
              /\ \E c \in b[1]..(tail - 1) : h[c].type = "commit"
<1>0. tail \in Nat /\ tail - 1 \in Nat
  BY WALAssumption DEF WriterInv
<1>1. \A k \in 1..(tail - 1) : h[k] = file[k]
  BY <1>0
<1>2. GroupsIn(file, groups, Len(groups), tail - 1) /\ Own(file, cur, tail)
  BY Zenon DEF GroupInv
<1>3. GroupsIn(h, groups, Len(groups), tail - 1)
  BY Zenon, <1>0, <1>2, GroupsSame
<1>4. Own(h, cur, tail)
  BY Zenon, <1>0, <1>1, <1>2, OwnSame
<1>5. ASSUME NEW g \in 1..Len(groups), NEW b \in groups[g]
      PROVE  /\ b[1] \in 1..(tail - 1)
             /\ \E c \in b[1]..(tail - 1) : h[c].type = "commit"
  <2>1. PICK c \in 1..(tail - 1) : h[c].type = "commit" /\ BatchOf(h, b, c)
    BY Zenon, <1>3, <1>5 DEF GroupsIn, Own
  <2> QED BY <1>0, <2>1 DEF BatchOf
<1>6. ASSUME NEW d \in cur, NEW g \in 1..Len(groups), NEW b \in groups[g]
      PROVE  Split(h, b, d)
  <2>1. PICK c \in b[1]..d[1] : file[c].type = "commit"
    BY Zenon DEF GroupInv, Split
  <2>2. d[1] \in 1..(tail - 1)
    BY Zenon, <1>4 DEF Own, BatchOf
  <2>3. c \in 1..(tail - 1)
    BY <1>0, <1>5, <2>1, <2>2
  <2> QED BY Zenon, <1>1, <2>1, <2>3 DEF Split
<1> QED BY Zenon, <1>3, <1>4, <1>5, <1>6

\* The frame an append writes lengthens the chain.
LEMMA AppendChain ==
  ASSUME WriterInv, AckInv, GroupInv, NEW type, NEW pay, AppendFrame(type, pay),
         pc = "open"
  PROVE  /\ GroupsIn(file', groups, Len(groups), tail)
         /\ \A j \in 0..(tail - 1) : file'[j] = file[j]
<1>0. tail - 1 \in Nat /\ tail \in Nat /\ tail - 1 <= tail /\ Len(groups) \in Nat
  BY WALAssumption DEF WriterInv, AckInv
<1>1. \A j \in 0..(tail - 1) : file'[j] = file[j]
  BY Zenon, AppendIs
<1>2. GroupsIn(file', groups, Len(groups), tail - 1)
  BY Zenon, <1>1, AppendGroups
<1>3. Chained(file', tail)
  BY Zenon, AppendIs
<1> QED BY <1>0, <1>1, <1>2, <1>3, GroupsMore

\* Nothing is committed before the log exists.
LEMMA InitGroups == Init => GroupInv
BY Zenon DEF Init, GroupInv

\* Every step keeps the commits of the generation in the chain, and what a
\* crash, a failed sync or Close leaves of them is a prefix.
LEMMA NextGroups ==
  ASSUME LeastExists, ~CrashCreate, ~GoesOn, WriterInv, WriterInv', AckInv, StaleInv, GroupInv,
         [Next]_vars
  PROVE  GroupInv'
<1>0. /\ MaxSlots \in Nat /\ 0 \in Slots /\ Len(groups) \in Nat
      /\ tail \in 1..(MaxSlots + 1) /\ tail - 1 \in 0..MaxSlots
  BY SMTT(40), WALAssumption DEF Slots, WriterInv, AckInv
<1> DEFINE Survives(f) == \E n \in 0..Len(groups) :
             Whole(f, groups, n) /\ \E t \in 0..MaxSlots : GroupsIn(f, groups, n, t)
<1>1. ASSUME pc \in {"open", "syncing", "flushing"}, NEW h, Mixed(h, file, disk), Readable(h)
      PROVE  Survives(h)
  <2>1. GroupsIn(file, groups, Len(groups), tail - 1)
    BY Zenon, <1>1 DEF GroupInv
  <2>2. \A g \in 1..Len(groups) : \A b \in groups[g] : Alone(disk, file, b)
    BY Zenon DEF StaleInv
  <2> QED BY Zenon, <1>0, <1>1, <2>1, <2>2, SurvivingGroups
<1>2. ASSUME pc = "rotating", NEW h, Mixed(h, file, disk), Readable(h)
      PROVE  Survives(h)
  <2>1. PICK t \in 0..MaxSlots : GroupsIn(disk, groups, Len(groups), t)
    BY Zenon, <1>2 DEF GroupInv
  <2>2. ASSUME NEW g \in 1..Len(groups), NEW b \in groups[g] PROVE Alone(file, disk, b)
    <3>1. t \in Nat
      BY <1>0
    <3>2. b[1] \in 1..(t - 1)
      BY Zenon, <2>1, <3>1, GroupBelow
    <3>3. b[1] + 1 \in 1..MaxSlots
      BY <1>0, <3>2
    <3> QED BY Zenon, <1>2, <3>3 DEF Alone, GroupInv
  <2>3. Mixed(h, disk, file)
    BY Zenon, <1>2 DEF Mixed
  <2> QED BY Zenon, <1>0, <1>2, <2>1, <2>2, <2>3, SurvivingGroups
<1>3. CASE CreateHeader
  BY Zenon, <1>3 DEF CreateHeader, GroupInv, history
<1>4. CASE CreateSync
  <2>1. groups = <<>> /\ cur = {} /\ Len(groups) = 0
    BY Zenon, <1>4 DEF CreateSync, GroupInv, AckInv
  <2>2. Chained(file, tail - 1)
    BY Zenon, <1>4 DEF CreateSync, WriterInv
  <2>3. GroupsIn(file, groups, Len(groups), tail - 1)
    BY <2>1, <2>2 DEF GroupsIn
  <2> QED BY Zenon, <1>4, <2>1, <2>3 DEF CreateSync, GroupInv, Own, writer, history
<1>5. CASE \E p \in Payloads : LogBatch(p)
  <2>1. PICK p \in Payloads : LogBatch(p)
    BY Zenon, <1>5
  <2>2. /\ AppendFrame("batch", p) /\ pc = "open" /\ pc' = "open"
        /\ cur' = cur \cup {<<tail, file'[tail]>>} /\ groups' = groups
    BY Zenon, <2>1 DEF LogBatch
  <2>3. /\ GroupsIn(file', groups, Len(groups), tail)
        /\ \A j \in 0..(tail - 1) : file'[j] = file[j]
    BY Zenon, <2>2, AppendChain
  <2>4. /\ Own(file', cur, tail)
        /\ \A d \in cur : \A g \in 1..Len(groups) : \A b \in groups[g] : Split(file', b, d)
        /\ \A g \in 1..Len(groups) : \A b \in groups[g] :
              /\ b[1] \in 1..(tail - 1)
              /\ \E c \in b[1]..(tail - 1) : file'[c].type = "commit"
    BY Zenon, <2>2, <2>3, AppendGroups
  <2>5. tail \in 1..MaxSlots /\ tail' = tail + 1 /\ file'[tail].type = "batch" /\ tail' - 1 = tail
    BY Zenon, <2>2, AppendIs
  <2>6. ASSUME NEW d \in cur
        PROVE  BatchOf(file', d, tail') /\ \A k \in d[1]..tail : <<k, file'[k]>> \in cur'
    <3>1. BatchOf(file', d, tail) /\ \A k \in d[1]..(tail - 1) : <<k, file'[k]>> \in cur
      BY Zenon, <2>4 DEF Own
    <3>2. d[1] \in 1..(tail - 1) /\ BatchOf(file', d, tail')
      BY <1>0, <2>5, <3>1 DEF BatchOf
    <3>3. \A k \in d[1]..tail : k \in d[1]..(tail - 1) \/ k = tail
      BY <2>5, <3>2
    <3> QED BY Zenon, <2>2, <3>1, <3>2, <3>3
  <2>7. ASSUME NEW d, d = <<tail, file'[tail]>>
        PROVE  /\ BatchOf(file', d, tail')
               /\ \A k \in d[1]..tail : <<k, file'[k]>> \in cur'
               /\ \A g \in 1..Len(groups) : \A b \in groups[g] : Split(file', b, d)
    <3>1. BatchOf(file', d, tail') /\ d[1] = tail
      BY <1>0, <2>5, <2>7 DEF BatchOf
    <3>2. \A k \in d[1]..tail : k = tail
      BY <1>0, <3>1
    <3>3. ASSUME NEW g \in 1..Len(groups), NEW b \in groups[g] PROVE Split(file', b, d)
      <4>1. PICK c \in b[1]..(tail - 1) : file'[c].type = "commit"
        BY Zenon, <2>4
      <4>2. c \in b[1]..d[1]
        BY <1>0, <2>4, <3>1, <4>1
      <4> QED BY Zenon, <4>1, <4>2 DEF Split
    <3> QED BY Zenon, <2>2, <3>1, <3>2, <3>3
  <2>8. Own(file', cur', tail')
    BY Zenon, <2>2, <2>5, <2>6, <2>7 DEF Own
  <2>9. \A d \in cur' : \A g \in 1..Len(groups) : \A b \in groups[g] : Split(file', b, d)
    BY Zenon, <2>2, <2>4, <2>7
  <2> QED BY Zenon, <2>2, <2>3, <2>5, <2>8, <2>9 DEF GroupInv
<1>6. CASE AppendFails
  <2>1. /\ pc = "open" /\ pc' = "open"
        /\ \A j \in 0..(tail - 1) : file'[j] = file[j]
        /\ UNCHANGED <<tail, cur, groups>>
    BY <1>0, <1>6 DEF AppendFails, WriterInv, writer, history, Slots
  <2>2. /\ GroupsIn(file', groups, Len(groups), tail - 1) /\ Own(file', cur, tail)
        /\ \A d \in cur : \A g \in 1..Len(groups) : \A b \in groups[g] : Split(file', b, d)
    BY Zenon, <2>1, AppendGroups
  <2> QED BY Zenon, <2>1, <2>2 DEF GroupInv
<1>7. CASE Commit
  <2>1. /\ AppendFrame("commit", batchN) /\ pc = "open"
        /\ pc' \in {"open", "syncing"} /\ cur' = {} /\ groups' = Append(groups, cur)
    BY Zenon, <1>7 DEF Commit
  <2>2. /\ GroupsIn(file', groups, Len(groups), tail) /\ Own(file', cur, tail)
        /\ \A d \in cur : \A g \in 1..Len(groups) : \A b \in groups[g] : Split(file', b, d)
    BY Zenon, <2>1, AppendChain, AppendGroups
  <2>3. tail \in 1..MaxSlots /\ tail' = tail + 1 /\ file'[tail].type = "commit" /\ tail' - 1 = tail
    BY Zenon, <2>1, AppendIs
  <2> DEFINE N == Len(groups)
  <2>4. /\ Len(groups') = N + 1 /\ groups'[N + 1] = cur
        /\ \A g \in 1..N : groups'[g] = groups[g]
    BY <2>1 DEF AckInv
  <2> HIDE DEF N
  <2>5. \A g \in 1..(N + 1) : g \in 1..N \/ g = N + 1
    BY <1>0 DEF N
  <2>6. ASSUME NEW g \in 1..(N + 1), groups'[g] # {}
        PROVE  \E c \in 1..tail : file'[c].type = "commit" /\ Own(file', groups'[g], c)
    <3>1. CASE g = N + 1
      BY <2>2, <2>3, <2>4, <3>1
    <3>2. CASE g \in 1..N
      BY Zenon, <2>2, <2>4, <2>6, <3>2 DEF N, GroupsIn
    <3> QED BY Zenon, <2>5, <3>1, <3>2
  <2>7. ASSUME NEW g \in 1..(N + 1), NEW h \in 1..(N + 1), g < h,
               NEW b \in groups'[g], NEW d \in groups'[h]
        PROVE  Split(file', b, d)
    <3>1. g \in 1..N /\ groups'[g] = groups[g]
      BY <1>0, <2>4, <2>7 DEF N
    <3>2. CASE h = N + 1
      BY Zenon, <2>2, <2>4, <3>1, <3>2 DEF N
    <3>3. CASE h \in 1..N
      BY Zenon, <2>2, <2>4, <2>7, <3>1, <3>3 DEF N, GroupsIn
    <3> QED BY Zenon, <2>5, <3>2, <3>3
  <2>8. GroupsIn(file', groups', Len(groups'), tail' - 1)
    <3>1. Chained(file', tail)
      BY SMTT(40), <2>2 DEF GroupsIn
    <3> QED BY Zenon, <2>3, <2>4, <2>6, <2>7, <3>1 DEF GroupsIn
  <2>9. Own(file', cur', tail')
    BY Zenon, <2>1 DEF Own
  <2> QED BY SMTT(40), <2>1, <2>8, <2>9 DEF GroupInv
<1>8. CASE CommitSynced
  BY SMTT(40), <1>8 DEF CommitSynced, GroupInv, writer
<1>9. CASE SyncFails
  <2>1. /\ pc' = "closed" /\ UNCHANGED <<file, groups>>
        /\ Readable(file) /\ Mixed(file, file, disk)
    BY Zenon, <1>9 DEF SyncFails, WriterInv, Mixed
  <2>2. Survives(file)
    <3>1. CASE pc \in {"syncing", "flushing"}
      BY Zenon, <1>1, <2>1, <3>1
    <3>2. CASE pc = "rotating"
      BY Zenon, <1>2, <2>1, <3>2
    <3> QED BY Zenon, <1>9, <3>1, <3>2 DEF SyncFails
  <2> QED BY ZenonT(40), <2>1, <2>2 DEF GroupInv
<1>10. CASE Fold
  BY SMTT(40), <1>10 DEF Fold, GroupInv, writer, history
<1>11. CASE CheckpointFrame
  <2>1. /\ AppendFrame("checkpoint", mainLSN) /\ pc = "open" /\ batchN = 0
        /\ pc' = "flushing" /\ UNCHANGED <<groups, cur>>
    BY Zenon, <1>11 DEF CheckpointFrame, history
  <2>2. GroupsIn(file', groups, Len(groups), tail)
    BY Zenon, <2>1, AppendChain
  <2>3. tail' - 1 = tail
    BY Zenon, <2>1, AppendIs
  <2>4. cur = {}
    BY <2>1 DEF AckInv
  <2>5. Own(file', cur', tail')
    BY Zenon, <2>1, <2>4 DEF Own
  <2> QED BY SMTT(40), <2>1, <2>2, <2>3, <2>4, <2>5 DEF GroupInv
<1>12. CASE Rotate
  <2>1. /\ pc = "flushing" /\ pc' = "rotating" /\ disk' = file /\ groups' = groups
        /\ \A j \in Slots : j # 0 => file'[j] = file[j]
    BY Zenon, <1>0, <1>12 DEF Rotate, WriterInv, history
  <2>2. \A j \in 1..MaxSlots : j \in Slots /\ j # 0
    BY <1>0 DEF Slots
  <2>3. GroupsIn(file, groups, Len(groups), tail - 1)
    BY Zenon, <2>1 DEF GroupInv
  <2> QED BY SMTT(40), <1>0, <2>1, <2>2, <2>3 DEF GroupInv
<1>13. CASE Rotated
  <2>1. pc' = "open" /\ groups' = <<>> /\ Len(groups') = 0 /\ UNCHANGED <<file, tail, cur>>
    BY Zenon, <1>13 DEF Rotated, writer
  <2>2. cur = {} /\ Chained(file, tail - 1)
    BY SMTT(40), <1>13 DEF Rotated, AckInv, WriterInv
  <2>3. GroupsIn(file', groups', Len(groups'), tail' - 1)
    BY SMTT(40), <2>1, <2>2 DEF GroupsIn
  <2>4. Own(file', cur', tail')
    BY Zenon, <2>1, <2>2 DEF Own
  <2> QED BY SMTT(40), <2>1, <2>2, <2>3, <2>4 DEF GroupInv
<1>14. CASE Crash
  <2>1. /\ pc' = "closed" /\ groups' = groups
        /\ pc \in {"open", "syncing", "flushing", "rotating"}
    BY Zenon, <1>14 DEF Crash, WriterInv
  <2>2. Mixed(file', file, disk) /\ Readable(file')
    BY Zenon, <1>14, <2>1, CrashIs DEF WriterInv, Mixed
  <2>3. Survives(file')
    BY Zenon, <1>1, <1>2, <2>1, <2>2
  <2> QED BY Zenon, <2>1, <2>3 DEF GroupInv
<1>15. CASE Close
  <2>1. Survives(file)
    BY Zenon, <1>1, <1>15 DEF Close, WriterInv, Mixed
  <2> QED BY SMTT(40), <1>15, <2>1 DEF Close, GroupInv
<1>16. CASE Open
  <2> DEFINE v == ValidLen(file)
             N == Survivors(file, groups)
  <2>1. pc = "closed" /\ pc' = "open" /\ UNCHANGED <<file, cur>> /\ cur = {}
        /\ groups' = SubSeq(groups, 1, N)
    BY SMTT(40), <1>16 DEF Open, AckInv
  <2>2. tail' - 1 = v /\ v \in 0..MaxSlots /\ Chained(file, v)
    <3>1. Readable(file)
      BY Zenon, <2>1 DEF WriterInv
    <3>2. tail' = v + 1
      BY Zenon, <1>16, <3>1 DEF Open
    <3>3. v \in 0..MaxSlots /\ Chained(file, v)
      BY Zenon, ValidLenIs
    <3> HIDE DEF v
    <3> QED BY <1>0, <3>2, <3>3
  <2>3. PICK n \in 0..Len(groups) :
          Whole(file, groups, n) /\ \E t \in 0..MaxSlots : GroupsIn(file, groups, n, t)
    BY SMTT(40), <2>1 DEF GroupInv
  <2>4. PICK t \in 0..MaxSlots : GroupsIn(file, groups, n, t)
    BY Zenon, <2>3
  <2>5. t <= v
    BY Zenon, <2>4, ValidLenIs DEF GroupsIn
  <2>6. N \in 0..Len(groups) /\ \A i \in 1..N : groups[i] \subseteq Recovered(file)
    BY Zenon, <1>0, SurvivorsIs
  <2> HIDE DEF v, N
  <2>7. Len(groups') = N /\ \A i \in 1..N : groups'[i] = groups[i]
    BY SMTT(40), <2>1, <2>6 DEF AckInv
  <2>8. ASSUME NEW g \in 1..N PROVE groups'[g] = {} \/ (g \in 1..n /\ groups'[g] = groups[g])
    <3>1. CASE g <= n
      BY <1>0, <2>7, <3>1
    <3>2. CASE ~(g <= n)
      <4>1. groups[g] \cap Recovered(file) = {}
        BY <1>0, <2>3, <2>6, <3>2 DEF Whole
      <4> QED BY Zenon, <2>6, <2>7, <4>1
    <3> QED BY Zenon, <3>1, <3>2
  <2>9. GroupsIn(file, groups', N, v)
    BY SMTT(40), <1>0, <2>2, <2>4, <2>5, <2>6, <2>8, GroupsMore
  <2>10. Own(file', cur', tail')
    BY Zenon, <2>1 DEF Own
  <2> QED BY ZenonT(40), <2>1, <2>2, <2>7, <2>9, <2>10 DEF GroupInv
<1>17. CASE UNCHANGED vars
  BY ZenonT(40), <1>17 DEF vars, GroupInv
<1>18. CASE CreateFails
  BY Zenon, <1>18 DEF CreateFails, GroupInv, history
<1>19. CASE RotateFails
  <2>1. /\ pc = "flushing" /\ pc' = "closed" /\ UNCHANGED <<file, groups>>
        /\ Readable(file) /\ Mixed(file, file, disk)
    BY Zenon, <1>19 DEF RotateFails, WriterInv, Mixed, history
  <2>2. Survives(file)
    BY Zenon, <1>1, <2>1
  <2> QED BY ZenonT(40), <2>1, <2>2 DEF GroupInv
<1> QED BY Zenon, <1>3, <1>4, <1>5, <1>6, <1>7, <1>8, <1>9, <1>10, <1>11,
           <1>12, <1>13, <1>14, <1>15, <1>16, <1>17, <1>18, <1>19 DEF Next

-----------------------------------------------------------------------------
(* The theorems.                                                           *)

INSTANCE WellFoundedInduction

\* A nonempty set of numbers has a least one.
LEMMA LeastHolds == LeastExists
<1> DEFINE R == OpToRel(<, Nat)
<1>1. IsWellFoundedOn(R, Nat)
  BY ZenonT(40), NatLessThanWellFounded
<1>2. \A x, y \in Nat : y < x => <<y, x>> \in R
  BY Zenon DEF OpToRel
<1> HIDE DEF R
<1>3. ASSUME NEW S \in SUBSET Nat, S # {}
      PROVE  \E x \in S : \A y \in S : x <= y
  <2>1. PICK x \in S : \A y \in S : ~ (<<y, x>> \in R)
    BY ZenonT(40), <1>1, <1>3, WFMin
  <2>2. \A y \in S : x \in Nat /\ y \in Nat /\ ~(y < x)
    BY ZenonT(40), <1>2, <2>1
  <2> QED BY <2>2
<1> QED BY Zenon, <1>3 DEF LeastExists

\* WriterChained for every instance without a crash inside Create whose host
\* reopens the log after a failed header rewrite (Checkpointed): the frame
\* appended next chains, whatever was torn, lost or left behind before.
THEOREM WriterAlways ==
  ASSUME ~CrashCreate, ~GoesOn
  PROVE  Spec => []WriterChained
<1>1. WriterInv => WriterChained
  BY Zenon DEF WriterInv, WriterChained
<1>2. WriterInv /\ [Next]_vars => WriterInv'
  BY Zenon, LeastHolds, NextWriter
<1> QED BY <1>1, <1>2, InitWriter, PTL DEF Spec

\* Durable for every instance without a crash inside Create whose host reopens
\* the log after a failed header rewrite, at every sync mode: whatever a crash
\* leaves, a batch whose Commit returned after a sync is in the main file or
\* among the Batches of Recover.
THEOREM DurableAlways ==
  ASSUME ~CrashCreate, ~GoesOn
  PROVE  Spec => []Durable
<1>1. WriterInv /\ AckInv => Durable
  BY SMTT(40), LeastHolds, SafeRecovered DEF WriterInv, AckInv, Durable
<1>2. Init => WriterInv /\ AckInv
  BY Zenon, InitWriter, InitAck
<1>3. WriterInv /\ AckInv /\ [Next]_vars => (WriterInv /\ AckInv)'
  BY Zenon, LeastHolds, NextWriter, NextAck
<1> QED BY <1>1, <1>2, <1>3, PTL DEF Spec

\* CommitsWhole for every instance whose batches have distinct bytes, which has
\* no crash inside Create and whose host reopens the log after a failed header
\* rewrite: what Recover returns of the commits since the last checkpoint is a
\* prefix, each whole.
THEOREM CommitsWholeAlways ==
  ASSUME ~CrashCreate, ~GoesOn, FreshBatches
  PROVE  Spec => []CommitsWhole
<1> DEFINE LInv == WriterInv /\ AckInv /\ StaleInv /\ GroupInv
<1>1. LInv => CommitsWhole
  BY SMTT(40) DEF GroupInv, CommitsWhole, Whole
<1>2. Init => LInv
  BY Zenon, InitWriter, InitAck, InitStale, InitGroups
<1>3. LInv /\ [Next]_vars => LInv'
  BY Zenon, LeastHolds, NextWriter, NextAck, NextStale, NextGroups
<1> QED BY <1>1, <1>2, <1>3, PTL DEF Spec
=============================================================================

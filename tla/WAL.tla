-------------------------------- MODULE WAL ---------------------------------
(***************************************************************************)
(* The write-ahead log (package wal) over a file that may lose or tear any *)
(* write not yet followed by a Sync, and the host that commits, folds,     *)
(* checkpoints, crashes and reopens.                                       *)
(*                                                                         *)
(* The file is a function from slots: slot 0 is where the 32-byte header   *)
(* goes, slot i the i-th frame.  A checksum stands for the bytes it        *)
(* covers, the previous checksum included: a frame carries its predecessor *)
(* (prev), and the chain is intact at i when file[i].prev = file[i-1].     *)
(* A salt is the sequence of folded LSNs nextSalt was applied to.          *)
(***************************************************************************)
EXTENDS Integers, Sequences

CONSTANTS Payloads,    \* encoded operation batches
          MaxSlots,    \* bound: frames the file can hold
          MaxCrashes,  \* bound: crashes of a behaviour
          SyncMode,    \* "off", "normal", "full" or "extra"
          CrashCreate, \* TRUE: a crash may hit Create before its Sync
          GoesOn,      \* TRUE: the host writes on after a failed header rewrite
          EmptyCommits,\* FALSE: bound, the host commits only what it logged
          FreshBatches \* TRUE: no two logged batches have the same bytes

ASSUME WALAssumption ==
  /\ MaxSlots \in Nat
  /\ MaxCrashes \in Nat
  /\ SyncMode \in {"off", "normal", "full", "extra"}
  /\ CrashCreate \in BOOLEAN
  /\ GoesOn \in BOOLEAN
  /\ EmptyCommits \in BOOLEAN
  /\ FreshBatches \in BOOLEAN

VARIABLES
  file,     \* the file as the process reads it
  disk,     \* what the last successful Sync made durable
  pc,       \* the host's position
  salt, lsn, lastSum, tail, batchN,  \* the WAL struct
  main,     \* the batches the host has folded into the main file
  mainLSN,  \* the boundary it recorded with its last fold
  crashes,  \* crashes so far
  used,     \* history: the payloads logged so far
  cur,      \* history: the batches logged since the last Commit, with slots
  groups,   \* history: the commits of this generation, each a set of batches
  called,   \* history: every batch some Commit covered
  acked     \* history: every batch whose Commit returned after a sync

vars == <<file, disk, pc, salt, lsn, lastSum, tail, batchN, main, mainLSN,
          crashes, used, cur, groups, called, acked>>
writer == <<salt, lsn, lastSum, tail, batchN>>
host == <<main, mainLSN, crashes>>
history == <<used, cur, groups, called, acked>>

Slots == 0..MaxSlots

\* The salt of a zero RecoverResult; nextSalt never yields it.
ZeroSalt == <<0>>

Blank == [kind |-> "blank"]
Torn == [kind |-> "torn"]
Header(s) == [kind |-> "header", salt |-> s]
Frame(type, n, s, prev, pay) ==
  [kind |-> "frame", type |-> type, lsn |-> n, salt |-> s, prev |-> prev,
   pay |-> pay]

-----------------------------------------------------------------------------
(* Recover: the durable tail, the committed batches.                       *)

Readable(f) == f[0].kind = "header"

\* The first n frames have the header's salt and chain from it.
Chained(f, n) ==
  \A i \in 1..n : /\ f[i].kind = "frame"
                  /\ f[i].salt = f[0].salt
                  /\ f[i].prev = f[i - 1]

\* The frame count of the durable region.
ValidLen(f) ==
  CHOOSE n \in 0..MaxSlots :
    Chained(f, n) /\ (n < MaxSlots => ~Chained(f, n + 1))

FramesOf(f, type) ==
  IF Readable(f) THEN {i \in 1..ValidLen(f) : f[i].type = type} ELSE {}

\* Variant: a trailing batch with no commit frame is kept.
RecoveredPending(f) == {<<i, f[i]>> : i \in FramesOf(f, "batch")}

\* Recover's Batches: an op-batch frame that a commit frame follows.
Recovered(f) ==
  {<<i, f[i]>> : i \in {b \in FramesOf(f, "batch") :
                          \E c \in FramesOf(f, "commit") : b < c}}

\* How many of the commits gs, from the first, are recovered from f whole.
Survivors(f, gs) ==
  CHOOSE n \in 0..Len(gs) :
    /\ \A i \in 1..n : gs[i] \subseteq Recovered(f)
    /\ n < Len(gs) => ~(gs[n + 1] \subseteq Recovered(f))

\* The LSN of the last commit frame, 0 if there is none.
LastCommitLSN(f) ==
  IF FramesOf(f, "commit") = {} THEN 0
  ELSE f[CHOOSE c \in FramesOf(f, "commit") :
           \A d \in FramesOf(f, "commit") : d <= c].lsn

\* CommittedAfter: the batches the recovery driver replays over a main file
\* whose recorded boundary is n.
CommittedAfter(f, n) == {b \in Recovered(f) : b[2].lsn > n}

-----------------------------------------------------------------------------
TypeOK ==
  /\ DOMAIN file = Slots /\ DOMAIN disk = Slots
  /\ pc \in {"absent", "creating", "open", "syncing", "flushing", "rotating",
             "closed"}
  /\ salt \in Seq(Nat)
  /\ lsn \in Nat \ {0} /\ tail \in 0..(MaxSlots + 1) /\ batchN \in Nat
  /\ mainLSN \in Nat
  /\ crashes \in 0..MaxCrashes

Init ==
  /\ file = [i \in Slots |-> Blank]
  /\ disk = [i \in Slots |-> Blank]
  /\ pc = "absent"
  /\ salt = <<>> /\ lsn = 1 /\ lastSum = Blank /\ tail = 1 /\ batchN = 0
  /\ main = {} /\ mainLSN = 0 /\ crashes = 0
  /\ used = {} /\ cur = {} /\ groups = <<>> /\ called = {} /\ acked = {}

-----------------------------------------------------------------------------
(* Create.                                                                 *)

\* Create up to its Sync: the file exists and the header is buffered.
CreateHeader ==
  /\ pc = "absent"
  /\ file' = [file EXCEPT ![0] = Header(salt)]
  /\ lastSum' = Header(salt)
  /\ pc' = "creating"
  /\ UNCHANGED <<disk, salt, lsn, tail, batchN, host, history>>

CreateSync ==
  /\ pc = "creating"
  /\ disk' = file
  /\ pc' = "open"
  /\ UNCHANGED <<file, writer, host, history>>

\* The Sync fails: Create closes the file and returns the error, and the host
\* calls Create again.  A header write that fails leaves no trace.
CreateFails ==
  /\ pc = "creating"
  /\ pc' = "absent"
  /\ UNCHANGED <<file, disk, writer, host, history>>

-----------------------------------------------------------------------------
(* Appending.                                                              *)

\* appendFrame: write at the tail, then advance the chain.
AppendFrame(type, pay) ==
  LET f == Frame(type, lsn, salt, lastSum, pay)
  IN  /\ tail <= MaxSlots
      /\ file' = [file EXCEPT ![tail] = f]
      /\ tail' = tail + 1
      /\ lastSum' = f
      /\ lsn' = lsn + 1

\* A WriteAt that fails may leave part of the frame; nothing advances.
AppendFails ==
  /\ pc = "open" /\ tail <= MaxSlots
  /\ file' = [file EXCEPT ![tail] = Torn]
  /\ UNCHANGED <<disk, pc, writer, host, history>>

LogBatch(p) ==
  /\ pc = "open"
  /\ FreshBatches => p \notin used
  /\ used' = used \cup {p}
  /\ AppendFrame("batch", p)
  /\ batchN' = batchN + 1
  /\ cur' = cur \cup {<<tail, file'[tail]>>}
  /\ UNCHANGED <<disk, pc, salt, host, groups, called, acked>>

SyncsOnCommit == SyncMode \in {"full", "extra"}

\* Commit up to its sync; the modes that do not sync return here.
Commit ==
  /\ pc = "open"
  /\ EmptyCommits \/ batchN > 0
  /\ AppendFrame("commit", batchN)
  /\ batchN' = 0
  /\ groups' = Append(groups, cur)
  /\ called' = called \cup cur
  /\ cur' = {}
  /\ pc' = IF SyncsOnCommit THEN "syncing" ELSE "open"
  /\ UNCHANGED <<disk, salt, host, used, acked>>

\* Variant: Commit returns without its sync.
CommitUnsynced ==
  /\ pc = "syncing"
  /\ acked' = acked \cup groups[Len(groups)]
  /\ pc' = "open"
  /\ UNCHANGED <<file, disk, writer, host, used, cur, groups, called>>

\* The sync of Commit succeeds: the commit is acknowledged.
CommitSynced ==
  /\ pc = "syncing"
  /\ disk' = file
  /\ acked' = acked \cup groups[Len(groups)]
  /\ pc' = "open"
  /\ UNCHANGED <<file, writer, host, used, cur, groups, called>>

\* A sync fails: the host stops writing until the log is reopened.
SyncFails ==
  /\ pc \in {"syncing", "flushing", "rotating"}
  /\ pc' = "closed"
  /\ cur' = {}
  /\ UNCHANGED <<file, disk, writer, host, used, groups, called, acked>>

-----------------------------------------------------------------------------
(* Checkpoint.                                                             *)

\* The host flushes the log, then folds every committed batch into the main
\* file and syncs that.
Fold ==
  /\ pc = "open" /\ batchN = 0
  /\ ~(Recovered(file) \subseteq main)
  /\ disk' = file
  /\ main' = main \cup Recovered(file)
  /\ mainLSN' = LastCommitLSN(file)
  /\ UNCHANGED <<file, pc, writer, crashes, history>>

\* Checkpointed up to its first Flush, with everything committed folded.
CheckpointFrame ==
  /\ pc = "open" /\ batchN = 0
  /\ Recovered(file) # {} /\ Recovered(file) \subseteq main
  /\ AppendFrame("checkpoint", mainLSN)
  /\ pc' = "flushing"
  /\ UNCHANGED <<disk, salt, batchN, host, history>>

\* Variant: the chain is not reseeded from the new header.
RotateKeepsSum ==
  /\ pc = "flushing"
  /\ disk' = file
  /\ salt' = Append(salt, mainLSN)
  /\ tail' = 1
  /\ lsn' = mainLSN + 1
  /\ file' = [file EXCEPT ![0] = Header(salt')]
  /\ pc' = "rotating"
  /\ UNCHANGED <<lastSum, batchN, host, history>>

\* The first Flush succeeds; the salt rotates and the header is rewritten.
Rotate ==
  /\ pc = "flushing"
  /\ disk' = file
  /\ salt' = Append(salt, mainLSN)
  /\ tail' = 1
  /\ lsn' = mainLSN + 1
  /\ file' = [file EXCEPT ![0] = Header(salt')]
  /\ lastSum' = Header(salt')
  /\ pc' = "rotating"
  /\ UNCHANGED <<batchN, host, history>>

\* The header rewrite fails: salt, tail and LSN have moved, the chain and the
\* file have not.  The host reopens the log, as after a failed sync, or goes on.
RotateFails ==
  /\ pc = "flushing"
  /\ disk' = file
  /\ salt' = Append(salt, mainLSN)
  /\ tail' = 1
  /\ lsn' = mainLSN + 1
  /\ pc' = IF GoesOn THEN "open" ELSE "closed"
  /\ UNCHANGED <<file, lastSum, batchN, host, history>>

\* The second Flush succeeds.
Rotated ==
  /\ pc = "rotating"
  /\ disk' = file
  /\ groups' = <<>>
  /\ pc' = "open"
  /\ UNCHANGED <<file, writer, host, used, cur, called, acked>>

-----------------------------------------------------------------------------
(* Failure and recovery.                                                   *)

\* Of the writes since the last Sync, any may be lost and any frame torn; the
\* header is written whole.
Crash ==
  /\ pc \notin {"absent", "closed"}
  /\ pc = "creating" => CrashCreate
  /\ crashes < MaxCrashes
  /\ LET dirty == {i \in Slots : file[i] # disk[i]}
     IN  \E lost \in SUBSET dirty : \E torn \in SUBSET (lost \ {0}) :
           file' = [i \in Slots |-> IF i \in torn THEN Torn
                                   ELSE IF i \in lost THEN disk[i] ELSE file[i]]
  /\ disk' = file'
  /\ crashes' = crashes + 1
  /\ cur' = {}
  /\ pc' = "closed"
  /\ UNCHANGED <<writer, main, mainLSN, used, groups, called, acked>>

\* Close does not sync.
Close ==
  /\ pc = "open"
  /\ cur' = {}
  /\ pc' = "closed"
  /\ UNCHANGED <<file, disk, writer, host, used, groups, called, acked>>

\* Open: resume after the durable tail.  An unreadable header is no error:
\* the zero RecoverResult puts the writer at offset 0.
Open ==
  /\ pc = "closed"
  /\ IF Readable(file)
     THEN LET n == ValidLen(file) IN
          /\ salt' = file[0].salt
          /\ lsn' = IF n = 0 THEN 1 ELSE file[n].lsn + 1
          /\ lastSum' = file[n]
          /\ tail' = n + 1
     ELSE salt' = ZeroSalt /\ lsn' = 1 /\ lastSum' = Blank /\ tail' = 0
  /\ batchN' = 0
  /\ groups' = SubSeq(groups, 1, Survivors(file, groups))
  /\ pc' = "open"
  /\ UNCHANGED <<file, disk, host, used, cur, called, acked>>

Next ==
  \/ CreateHeader \/ CreateSync \/ CreateFails
  \/ \E p \in Payloads : LogBatch(p)
  \/ AppendFails \/ Commit \/ CommitSynced \/ SyncFails
  \/ Fold \/ CheckpointFrame \/ Rotate \/ RotateFails \/ Rotated
  \/ Crash \/ Close \/ Open

Spec == Init /\ [][Next]_vars

-----------------------------------------------------------------------------
(* Properties.                                                             *)

\* After it returns at SyncFull or SyncExtra the batch is durable (Commit):
\* whatever a crash leaves of later writes, every acknowledged batch is in
\* the main file or among the Batches of Recover, at its place.  Which of them
\* the driver replays is Replayed's question.  GoesOn and CrashCreate break it.
Durable == pc = "closed" => acked \subseteq main \cup Recovered(file)

\* A commit frame makes a batch atomic: what Recover returns of the commits
\* of a generation is a prefix of them, each whole.
CommitsWhole ==
  pc = "closed" =>
    \E n \in 0..Len(groups) :
      \A i \in 1..Len(groups) :
        IF i <= n THEN groups[i] \subseteq Recovered(file)
        ELSE groups[i] \cap Recovered(file) = {}

\* The writer stands at the end of an intact chain, so the frame it appends
\* next chains (Open, Checkpointed, appendFrame).  A host that goes on after a
\* failed header rewrite has a writer that does not.
WriterChained ==
  pc = "open" => /\ Readable(file) /\ salt = file[0].salt
                 /\ Chained(file, tail - 1)
                 /\ lastSum = file[tail - 1]

\* "a crash will redo it" (Commit) and "the recovery driver replays exactly
\* these" (CommittedAfter): an acknowledged batch is in the main file or is
\* replayed over it.  A log reopened right after a checkpoint starts again at
\* LSN 1, below the boundary, and breaks this.
Replayed ==
  pc = "closed" => acked \subseteq main \cup CommittedAfter(file, mainLSN)

\* A trailing batch with no commit frame is dropped (Recover): what Recover
\* returns was covered by a Commit of the writer that logged it.
NoUncommitted == pc = "closed" => Recovered(file) \subseteq called
=============================================================================

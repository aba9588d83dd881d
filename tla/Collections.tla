---------------------------- MODULE Collections -----------------------------
(***************************************************************************)
(* The embedded API over the catalog: which names are bound to which       *)
(* collections in db.colls and in the catalog, what index each collection  *)
(* records, and the identity of points: the auto-increment sequence and    *)
(* the ids that were deleted and are never given out again.  One writable  *)
(* transaction at a time (Sessions) writes through handles that resolve    *)
(* their name at every call; DDL takes db.mu only and runs beside it.      *)
(*                                                                         *)
(* A collection is its catalog id; collState, catalog.Collection and the   *)
(* engine's collection are the records of that id.  The engine's rollback  *)
(* restores the points (Store).  Ids have W bits.                          *)
(***************************************************************************)
EXTENDS Integers

CONSTANTS Names, None,
          W,         \* width of a point id and of the sequence
          MaxCid,    \* bound: collections ever created
          MaxOps,    \* bound: writes, renames and index calls
          MaxTxns    \* bound: transactions

ASSUME CollectionsAssumption ==
  /\ None \notin Names /\ None \notin 1..MaxCid /\ W \in Nat \ {0}
  /\ MaxCid \in Nat /\ MaxOps \in Nat /\ MaxTxns \in Nat
  /\ 2^W \in Nat \ {0, 1}

Cids == 1..MaxCid
Ids == 0..(2^W - 1)
MaxId == 2^W - 1

VARIABLES
  colls,     \* DB.colls: name to collection
  byName,    \* Catalog.byName
  nextCID,   \* Catalog.nextCID
  schema,    \* Schema.Name of each collection
  idx,       \* idxName set, idxType, idxKind, and whether index is nil, open
             \*   or closed
  seq,       \* identity.seq
  deleted,   \* identity.deleted
  live,      \* the engine's points, the open transaction's writes included
  saved,     \* the points at Begin, what a rollback restores
  txn,       \* whether a writable transaction is open
  ops, txns, \* counted against the bounds
  used,      \* history: ids ever written into a collection
  wrapped,   \* history: collections whose sequence wrapped
  dying,     \* history: ids the open transaction deleted
  gone,      \* history: ids whose deletion was committed
  dropped,   \* history: collections DropCollection removed
  renamed,   \* history: names RenameCollection took from or gave to
  auto       \* history: collections given an auto-assigned id that was in use before

names == <<colls, byName, nextCID, schema, idx>>
points == <<seq, deleted, live>>
tx == <<saved, txn, txns, dying, gone>>
vars == <<names, points, tx, ops, used, wrapped, dropped, renamed, auto>>

NoIndex == [named |-> FALSE, type |-> "flat", kind |-> "flat", index |-> "nil"]

TypeOK ==
  /\ colls \in [Names -> Cids \cup {None}] /\ byName \in [Names -> Cids \cup {None}]
  /\ nextCID \in 1..(MaxCid + 1) /\ schema \in [Cids -> Names \cup {None}]
  /\ idx \in [Cids -> [named : BOOLEAN, type : {"flat", "hnsw", "ivf", "diskann"},
                       kind : {"flat", "hnsw", "ivf"},
                       index : {"nil", "open", "closed"}]]
  /\ seq \in [Cids -> Ids]
  /\ deleted \in [Cids -> SUBSET Ids] /\ live \in [Cids -> SUBSET Ids]
  /\ saved \in [Cids -> SUBSET Ids] /\ txn \in BOOLEAN

Init ==
  /\ colls = [n \in Names |-> None] /\ byName = [n \in Names |-> None]
  /\ nextCID = 1 /\ schema = [c \in Cids |-> None]
  /\ idx = [c \in Cids |-> NoIndex]
  /\ seq = [c \in Cids |-> 0]
  /\ deleted = [c \in Cids |-> {}] /\ live = [c \in Cids |-> {}]
  /\ saved = [c \in Cids |-> {}] /\ txn = FALSE
  /\ ops = 0 /\ txns = 0
  /\ used = [c \in Cids |-> {}] /\ wrapped = {}
  /\ dying = [c \in Cids |-> {}] /\ gone = [c \in Cids |-> {}]
  /\ dropped = {} /\ renamed = {} /\ auto = {}

-----------------------------------------------------------------------------
(* Collections.                                                            *)

\* Refused when either map has the name.
CreateCollection(n) ==
  /\ nextCID <= MaxCid
  /\ colls[n] = None /\ byName[n] = None
  /\ nextCID' = nextCID + 1
  /\ byName' = [byName EXCEPT ![n] = nextCID]
  /\ colls' = [colls EXCEPT ![n] = nextCID]
  /\ schema' = [schema EXCEPT ![nextCID] = n]
  /\ UNCHANGED <<idx, points, tx, ops, used, wrapped, dropped, renamed, auto>>

\* The index is closed before the catalog is asked, which may refuse.
DropCollection(n) ==
  /\ colls[n] # None
  /\ idx' = [idx EXCEPT ![colls[n]].index = IF @ = "open" THEN "closed" ELSE @]
  /\ IF byName[n] = None THEN UNCHANGED <<colls, byName, dropped>>
     ELSE /\ byName' = [byName EXCEPT ![n] = None]
          /\ colls' = [colls EXCEPT ![n] = None]
          /\ dropped' = dropped \cup {colls[n]}
  /\ UNCHANGED <<nextCID, schema, points, tx, ops, used, wrapped, renamed, auto>>

\* Variant: the new name is not checked.
RenameOver(o, n) ==
  /\ ops < MaxOps /\ ops' = ops + 1
  /\ colls[o] # None /\ o # n
  /\ schema' = [schema EXCEPT ![colls[o]] = n]
  /\ colls' = [colls EXCEPT ![o] = None, ![n] = colls[o]]
  /\ renamed' = renamed \cup {o, n}
  /\ UNCHANGED <<byName, nextCID, idx, points, tx, used, wrapped, dropped, auto>>

\* The catalog's map is not touched.
RenameCollection(o, n) ==
  /\ ops < MaxOps /\ ops' = ops + 1
  /\ colls[o] # None /\ colls[n] = None
  /\ schema' = [schema EXCEPT ![colls[o]] = n]
  /\ colls' = [colls EXCEPT ![o] = None, ![n] = colls[o]]
  /\ renamed' = renamed \cup {o, n}
  /\ UNCHANGED <<byName, nextCID, idx, points, tx, used, wrapped, dropped, auto>>

\* ListCollections: the catalog's names that db.colls has too.
Listed == {n \in Names : byName[n] # None /\ colls[n] # None}

-----------------------------------------------------------------------------
(* Indexes.                                                                *)

\* Variant: a refused rebuild keeps the old index.
BuiltKeeps(i, how) ==
  CASE i.type = "flat" -> [i EXCEPT !.kind = "flat", !.index = "nil"]
    [] i.type = "diskann" \/ (i.type # "flat" /\ how = "refused") -> i
    [] i.type \in {"hnsw", "ivf"} /\ how = "built" ->
         [i EXCEPT !.kind = i.type, !.index = "open"]
    [] i.type \in {"hnsw", "ivf"} /\ how = "failed" ->
         [i EXCEPT !.kind = "flat", !.index = "nil"]

\* buildIndexLocked: the old index goes first; then the flat path, a built
\* index, parameters the constructor refuses or an unsupported type, or a
\* failed Build.
Built(i, how) ==
  CASE i.type = "flat" -> [i EXCEPT !.kind = "flat", !.index = "nil"]
    [] i.type = "diskann" \/ (i.type # "flat" /\ how = "refused") ->
         [i EXCEPT !.index = "nil"]
    [] i.type \in {"hnsw", "ivf"} /\ how = "built" ->
         [i EXCEPT !.kind = i.type, !.index = "open"]
    [] i.type \in {"hnsw", "ivf"} /\ how = "failed" ->
         [i EXCEPT !.kind = "flat", !.index = "nil"]

\* The name (which may be empty) and type are recorded before the build, and
\* stay if it fails.
CreateIndex(n, named, t, how) ==
  /\ ops < MaxOps /\ ops' = ops + 1
  /\ colls[n] # None
  /\ idx' = [idx EXCEPT ![colls[n]] =
                   Built([@ EXCEPT !.named = named, !.type = t], how)]
  /\ UNCHANGED <<colls, byName, nextCID, schema, points, tx, used, wrapped, dropped, renamed, auto>>

BuildIndex(n, how) ==
  /\ ops < MaxOps /\ ops' = ops + 1
  /\ colls[n] # None /\ idx[colls[n]].named
  /\ idx' = [idx EXCEPT ![colls[n]] = Built(@, how)]
  /\ UNCHANGED <<colls, byName, nextCID, schema, points, tx, used, wrapped, dropped, renamed, auto>>

DropIndex(n) ==
  /\ ops < MaxOps /\ ops' = ops + 1
  /\ colls[n] # None /\ idx[colls[n]].named
  /\ idx' = [idx EXCEPT ![colls[n]] = NoIndex]
  /\ UNCHANGED <<colls, byName, nextCID, schema, points, tx, used, wrapped, dropped, renamed, auto>>

-----------------------------------------------------------------------------
(* Points, inside the writable transaction.                                *)

Begin ==
  /\ ~txn /\ txns < MaxTxns
  /\ txn' = TRUE /\ txns' = txns + 1 /\ saved' = live
  /\ UNCHANGED <<names, points, dying, gone, ops, used, wrapped, dropped, renamed, auto>>

CanWrite(n) == txn /\ ops < MaxOps /\ colls[n] # None

\* Variant: the sequence is set to the supplied id.
ReservedAt(c, u) == IF u >= seq[c] THEN u ELSE seq[c]

\* identity.reserveAuto: one past a supplied id, in W bits.
Reserved(c, u) == IF u >= seq[c] THEN (u + 1) % 2^W ELSE seq[c]

\* The rest of writeOne, once the identity is prepared: metadata that does not
\* lower and an Insert of a live id are refused, and nothing is stored.
Store(c, i, stored) ==
  /\ live' = [live EXCEPT ![c] = IF stored THEN @ \cup {i} ELSE @]
  /\ used' = [used EXCEPT ![c] = IF stored THEN @ \cup {i} ELSE @]

\* Variant: PrepareID forgets the deleted ids.
PutReuses(n, u, stored) ==
  LET c == colls[n] IN
  /\ CanWrite(n) /\ ops' = ops + 1
  /\ seq' = [seq EXCEPT ![c] = Reserved(c, u)]
  /\ wrapped' = IF Reserved(c, u) < seq[c] THEN wrapped \cup {c} ELSE wrapped
  /\ Store(c, u, stored)
  /\ UNCHANGED <<names, deleted, tx, dropped, renamed, auto>>

\* writeOne with a supplied id (0 is no id): PrepareID refuses a deleted one.
Put(n, u, stored) ==
  LET c == colls[n] IN
  /\ CanWrite(n) /\ ops' = ops + 1
  /\ u \notin deleted[c]
  /\ seq' = [seq EXCEPT ![c] = Reserved(c, u)]
  /\ wrapped' = IF Reserved(c, u) < seq[c] THEN wrapped \cup {c} ELSE wrapped
  /\ Store(c, u, stored)
  /\ UNCHANGED <<names, deleted, tx, dropped, renamed, auto>>

\* writeOne without an id: nextAuto, which refuses the last value.
PutAuto(n, stored) ==
  LET c == colls[n] IN
  /\ CanWrite(n) /\ ops' = ops + 1
  /\ seq[c] # MaxId
  /\ seq' = [seq EXCEPT ![c] = @ + 1]
  /\ Store(c, seq[c], stored)
  /\ auto' = IF seq[c] \in used[c] THEN auto \cup {c} ELSE auto
  /\ UNCHANGED <<names, deleted, tx, wrapped, dropped, renamed>>

\* Collection.Delete: the identity is marked at once, whatever becomes of the
\* transaction.
Delete(n, i) ==
  LET c == colls[n] IN
  /\ CanWrite(n) /\ ops' = ops + 1
  /\ i \in live[c]
  /\ live' = [live EXCEPT ![c] = @ \ {i}]
  /\ deleted' = [deleted EXCEPT ![c] = @ \cup {i}]
  /\ dying' = [dying EXCEPT ![c] = @ \cup {i}]
  /\ UNCHANGED <<names, seq, saved, txn, txns, gone, used, wrapped, dropped, renamed, auto>>

Commit ==
  /\ txn /\ txn' = FALSE
  /\ gone' = [c \in Cids |-> gone[c] \cup (dying[c] \ live[c])]
  /\ dying' = [c \in Cids |-> {}] /\ saved' = [c \in Cids |-> {}]
  /\ UNCHANGED <<names, points, txns, ops, used, wrapped, dropped, renamed, auto>>

\* The undo log restores the points; identity and sequence stay.
Rollback ==
  /\ txn /\ txn' = FALSE
  /\ live' = saved
  /\ dying' = [c \in Cids |-> {}] /\ saved' = [c \in Cids |-> {}]
  /\ UNCHANGED <<names, seq, deleted, txns, gone, ops, used, wrapped, dropped, renamed, auto>>

Next ==
  \/ \E n \in Names :
       \/ CreateCollection(n) \/ DropCollection(n) \/ DropIndex(n)
       \/ \E o \in Names : RenameCollection(o, n)
       \/ \E how \in {"built", "refused", "failed"} :
            \/ BuildIndex(n, how)
            \/ \E named \in BOOLEAN, t \in {"flat", "hnsw", "ivf", "diskann"} :
                 CreateIndex(n, named, t, how)
       \/ \E stored \in BOOLEAN :
            \/ PutAuto(n, stored)
            \/ \E u \in Ids \ {0} : Put(n, u, stored)
       \/ \E i \in Ids : Delete(n, i)
  \/ Begin \/ Commit \/ Rollback

Spec == Init /\ [][Next]_vars

-----------------------------------------------------------------------------
(* Properties.                                                             *)

\* A collection that was created and not dropped is reached by exactly one
\* name, the one its schema carries, and a dropped one by none, through any
\* creates, drops and renames; and the catalog binds a name as the database
\* does, unless the name took part in a rename (CreateCollection,
\* DropCollection, RenameCollection).
CatalogAgrees == \A n \in Names \ renamed : byName[n] = colls[n]
NamesOwn ==
  /\ \A c \in 1..(nextCID - 1) :
       {n \in Names : colls[n] = c} = IF c \in dropped THEN {} ELSE {schema[c]}
  /\ CatalogAgrees

\* Whenever db.mu is free, a collection records no closed index, and the kind
\* its queries plan for is the kind of the index it records (buildIndexLocked,
\* DropIndex), unless a refused drop of a renamed collection closed it.  This is
\* what queryCollection binds; a query that outlives the next build or drop
\* searches the object it bound, closed by then (Query, index error).
IndexRecorded ==
  \A n \in Names : colls[n] # None =>
    LET i == idx[colls[n]]
    IN  /\ i.index = "closed" => n \in renamed
        /\ i.index # "nil" => i.kind = i.type

\* An id whose deletion was committed is never live again in its collection
\* (PrepareID, NoteDeleted, nextAuto), whatever was rolled back in between,
\* unless the sequence wrapped.
NeverReused == \A c \in Cids \ wrapped : ~txn => live[c] \cap gone[c] = {}

\* An auto-assigned id was never used before in its collection (nextAuto,
\* reserveAuto), by application ids either, unless the sequence wrapped.
AutoFresh == auto \subseteq wrapped

\* ListCollections "lists all collections": every name that resolves is listed.
ListsAll == \A n \in Names : colls[n] # None => n \in Listed

\* "If the Update function returns an error, the transaction rolls back and the
\* database is untouched": a point that is in the collection after a rollback
\* can be written as before.
LiveWritable == ~txn => \A c \in Cids : live[c] \cap deleted[c] = {}
=============================================================================

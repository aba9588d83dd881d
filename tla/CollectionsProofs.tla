------------------------- MODULE CollectionsProofs --------------------------
(***************************************************************************)
(* The invariants of Collections for any names, id width and bounds.       *)
(***************************************************************************)
EXTENDS Collections, TLAPS

Types ==
  /\ TypeOK
  /\ used \in [Cids -> SUBSET Ids]
  /\ dying \in [Cids -> SUBSET Ids] /\ gone \in [Cids -> SUBSET Ids]
  /\ wrapped \subseteq Cids /\ renamed \subseteq Names

(* Names and collections are paired: a bound name is its collection's       *)
(* schema name, a collection that is there is bound under that name, and an *)
(* id not yet handed out carries no index.                                  *)
Paired ==
  /\ dropped \subseteq 1..(nextCID - 1)
  /\ \A n \in Names : colls[n] # None =>
       colls[n] < nextCID /\ colls[n] \notin dropped /\ schema[colls[n]] = n
  /\ \A c \in 1..(nextCID - 1) : c \notin dropped =>
       schema[c] \in Names /\ colls[schema[c]] = c
  /\ \A c \in Cids : c >= nextCID => idx[c] = NoIndex

(* Identity: points and deletions are among the ids ever stored, which lie  *)
(* below the sequence, the largest id apart, which nextAuto never gives; no *)
(* committed deletion is live, nor in what a rollback would restore.        *)
Identified ==
  \A c \in Cids :
    /\ live[c] \subseteq used[c] /\ saved[c] \subseteq used[c]
    /\ gone[c] \subseteq deleted[c] /\ dying[c] \subseteq deleted[c]
    /\ deleted[c] \subseteq used[c]
    /\ c \notin wrapped =>
         /\ \A i \in used[c] : i < seq[c] \/ i = MaxId
         /\ live[c] \cap gone[c] = {} /\ saved[c] \cap gone[c] = {}

CInv == Types /\ Paired /\ CatalogAgrees /\ IndexRecorded /\ Identified /\ AutoFresh

-----------------------------------------------------------------------------
(* Facts about the operators.                                              *)

IndexState == [named : BOOLEAN, type : {"flat", "hnsw", "ivf", "diskann"},
               kind : {"flat", "hnsw", "ivf"}, index : {"nil", "open", "closed"}]

\* One past an id in W bits is the next id, or 0 after the largest, so the
\* sequence stays an id (reserveAuto).
LEMMA ReservedIsId ==
  ASSUME NEW c \in Cids, NEW u \in Ids, seq[c] \in Ids
  PROVE  /\ Reserved(c, u) \in Ids
         /\ u # MaxId => u < Reserved(c, u) /\ seq[c] <= Reserved(c, u)
         /\ u = MaxId => Reserved(c, u) = 0
<1>1. 2^W \in Nat \ {0, 1}
  BY CollectionsAssumption
<1> DEFINE M == 2^W
<1> HIDE DEF M
<1>2. M \in Nat \ {0, 1}
  BY <1>1 DEF M
<1>3. \A v \in 0..(M - 1) : v # M - 1 => (v + 1) % M = v + 1
  BY <1>2
<1>4. (M - 1 + 1) % M = 0
  BY <1>2
<1>5. u \in 0..(M - 1) /\ seq[c] \in 0..(M - 1) /\ MaxId = M - 1 /\ Ids = 0..(M - 1)
  BY DEF Ids, MaxId, M
<1>6. Reserved(c, u) = IF u >= seq[c] THEN (u + 1) % M ELSE seq[c]
  BY DEF Reserved, M
<1> QED
  BY <1>2, <1>3, <1>4, <1>5, <1>6

\* buildIndexLocked leaves a well-formed record with no closed index, whose
\* kind is the recorded type when there is an index at all.
LEMMA BuiltUsable ==
  ASSUME NEW i \in IndexState, NEW how \in {"built", "refused", "failed"}
  PROVE  /\ Built(i, how) \in IndexState
         /\ Built(i, how).index # "closed"
         /\ Built(i, how).index # "nil" => Built(i, how).kind = Built(i, how).type
<1>1. CASE i.type = "flat"
  BY ZenonT(40), <1>1 DEF Built, IndexState
<1>2. CASE i.type = "diskann"
  BY <1>2 DEF Built, IndexState
<1>3. CASE i.type \in {"hnsw", "ivf"}
  BY ZenonT(40), <1>3 DEF Built, IndexState
<1> QED
  BY <1>1, <1>2, <1>3 DEF IndexState

-----------------------------------------------------------------------------
(* The inductive invariant.                                                *)

\* openWith on an empty database satisfies the inductive invariant.
LEMMA CInvInit == Init => CInv
<1> SUFFICES ASSUME Init PROVE CInv
  OBVIOUS
<1>1. 2^W \in Nat \ {0, 1} /\ MaxCid \in Nat
  BY CollectionsAssumption
<1>2. 0 \in Ids
  BY <1>1 DEF Ids
<1>a. NoIndex \in IndexState
  BY DEF NoIndex, IndexState
<1>b. idx \in [Cids -> IndexState] /\ txn \in BOOLEAN
  BY ZenonT(40), <1>a DEF Init
<1>3. Types
  BY <1>1, <1>2, <1>b DEF Init, Types, TypeOK, IndexState
<1>4. Paired /\ CatalogAgrees /\ IndexRecorded
  BY DEF Init, Paired, CatalogAgrees, IndexRecorded
<1>5. Identified /\ AutoFresh
  BY DEF Init, Identified, AutoFresh
<1> QED
  BY <1>3, <1>4, <1>5 DEF CInv

\* CreateCollection binds a name free in both maps to an id never used before.
LEMMA CreateCollectionKeeps ==
  ASSUME CInv, NEW n \in Names, CreateCollection(n)
  PROVE  CInv'
<1> USE CollectionsAssumption
<1>0. nextCID \in Cids /\ nextCID # None /\ Types /\ Paired
  BY DEF CreateCollection, CInv, Types, TypeOK, Cids
<1>1. Types'
  BY <1>0 DEF CreateCollection, Types, TypeOK, Cids, points, tx
<1>2. Paired'
  BY <1>0 DEF CreateCollection, Types, TypeOK, Paired, Cids
<1>3. CatalogAgrees'
  BY <1>0 DEF CreateCollection, CInv, CatalogAgrees, Types, TypeOK
<1>4. IndexRecorded'
  <2> SUFFICES ASSUME NEW m \in Names, colls'[m] # None
               PROVE  /\ idx[colls'[m]].index = "closed" => m \in renamed
                      /\ idx[colls'[m]].index # "nil" =>
                           idx[colls'[m]].kind = idx[colls'[m]].type
    BY DEF CreateCollection, IndexRecorded
  <2>1. CASE m = n
    BY <1>0, <2>1 DEF CreateCollection, Types, TypeOK, Paired, NoIndex
  <2>2. CASE m # n
    BY <1>0, <2>2 DEF CreateCollection, CInv, Types, TypeOK, IndexRecorded
  <2> QED
    BY <2>1, <2>2
<1>5. Identified' /\ AutoFresh'
  BY DEF CreateCollection, CInv, Identified, AutoFresh, points, tx
<1> QED
  BY <1>1, <1>2, <1>3, <1>4, <1>5 DEF CInv

\* DropCollection closes the index first; where the catalog then refuses, the
\* name took part in a rename.
LEMMA DropCollectionKeeps ==
  ASSUME CInv, NEW n \in Names, DropCollection(n)
  PROVE  CInv'
<1> USE CollectionsAssumption
<1>0. Types /\ Paired /\ colls[n] \in Cids /\ colls[n] # None
  BY DEF DropCollection, CInv, Types, TypeOK
<1>1. Types'
  <2>1. idx[colls[n]] \in IndexState
    BY <1>0 DEF Types, TypeOK, IndexState
  <2>2. [idx[colls[n]] EXCEPT !.index = IF @ = "open" THEN "closed" ELSE @] \in IndexState
    BY <2>1 DEF IndexState
  <2>3. idx' \in [Cids -> IndexState]
    BY <1>0, <2>2 DEF DropCollection, Types, TypeOK, IndexState
  <2>4. colls' \in [Names -> Cids \cup {None}] /\ byName' \in [Names -> Cids \cup {None}]
    BY ZenonT(40), <1>0 DEF DropCollection, Types, TypeOK
  <2> QED
    BY <1>0, <2>3, <2>4 DEF DropCollection, Types, TypeOK, points, tx, IndexState
<1>2. Paired'
  <2>1. \A c \in Cids : c >= nextCID => idx'[c] = NoIndex
    BY <1>0 DEF DropCollection, Paired, Types, TypeOK, Cids
  <2>2. CASE byName[n] = None
    BY <1>0, <2>1, <2>2 DEF DropCollection, Paired
  <2>3. CASE byName[n] # None
    <3>1. /\ \A m \in Names : colls'[m] = IF m = n THEN None ELSE colls[m]
          /\ dropped' = dropped \cup {colls[n]} /\ nextCID' = nextCID /\ schema' = schema
      BY <1>0, <2>3 DEF DropCollection, Types, TypeOK
    <3>2. dropped' \subseteq 1..(nextCID - 1)
      <4>1. colls[n] \in 1..(nextCID - 1)
        BY <1>0 DEF Paired, Types, TypeOK, Cids
      <4> QED
        BY ZenonT(40), <1>0, <3>1, <4>1 DEF Paired
    <3>3. \A m \in Names : colls'[m] # None =>
            colls'[m] < nextCID /\ colls'[m] \notin dropped' /\ schema[colls'[m]] = m
      BY <1>0, <3>1 DEF Paired
    <3>4. \A c \in 1..(nextCID - 1) : c \notin dropped' =>
            schema[c] \in Names /\ colls'[schema[c]] = c
      BY <1>0, <3>1 DEF Paired
    <3> QED
      BY <2>1, <3>1, <3>2, <3>3, <3>4 DEF Paired
  <2> QED
    BY <2>2, <2>3
<1>3. CatalogAgrees'
  BY SMTT(40), <1>0 DEF DropCollection, CInv, CatalogAgrees, Types, TypeOK
<1>4. IndexRecorded'
  <2> SUFFICES ASSUME NEW m \in Names, colls'[m] # None
               PROVE  /\ idx'[colls'[m]].index = "closed" => m \in renamed
                      /\ idx'[colls'[m]].index # "nil" =>
                           idx'[colls'[m]].kind = idx'[colls'[m]].type
    BY DEF DropCollection, IndexRecorded
  <2>1. colls'[m] = colls[m] /\ colls[m] \in Cids
    BY <1>0 DEF DropCollection, Types, TypeOK
  <2>2. CASE m = n
    <3>1. n \in renamed
      BY <1>0, <2>1, <2>2 DEF DropCollection, CInv, CatalogAgrees, Types, TypeOK
    <3> QED
      BY <1>0, <2>1, <2>2, <3>1 DEF DropCollection, CInv, IndexRecorded, Types, TypeOK
  <2>3. CASE m # n
    <3>1. colls[m] # colls[n]
      BY <1>0, <2>1, <2>3 DEF Paired
    <3> QED
      BY <1>0, <2>1, <3>1 DEF DropCollection, CInv, IndexRecorded, Types, TypeOK
  <2> QED
    BY <2>2, <2>3
<1>5. Identified' /\ AutoFresh'
  BY DEF DropCollection, CInv, Identified, AutoFresh, points, tx
<1> QED
  BY <1>1, <1>2, <1>3, <1>4, <1>5 DEF CInv

\* RenameCollection moves the binding in db.colls to a free name and the
\* schema's name with it.
LEMMA RenameCollectionKeeps ==
  ASSUME CInv, NEW o \in Names, NEW n \in Names, RenameCollection(o, n)
  PROVE  CInv'
<1> USE CollectionsAssumption
<1>0. Types /\ Paired /\ colls[o] \in Cids /\ colls[o] # None /\ o # n
  BY DEF RenameCollection, CInv, Types, TypeOK
<1>a. \A m \in Names : colls'[m] = IF m = n THEN colls[o] ELSE IF m = o THEN None ELSE colls[m]
  BY <1>0 DEF RenameCollection, Types, TypeOK
<1>1. Types'
  BY <1>0 DEF RenameCollection, Types, TypeOK, points, tx
<1>2. Paired'
  <2>1. \A m \in Names : colls'[m] # None =>
          colls'[m] < nextCID' /\ colls'[m] \notin dropped' /\ schema'[colls'[m]] = m
    BY <1>0, <1>a DEF RenameCollection, Paired, Types, TypeOK
  <2>2. \A c \in 1..(nextCID' - 1) : c \notin dropped' =>
          schema'[c] \in Names /\ colls'[schema'[c]] = c
    BY <1>0, <1>a DEF RenameCollection, Paired, Types, TypeOK, Cids
  <2> QED
    BY ZenonT(40), <1>0, <2>1, <2>2 DEF RenameCollection, Paired
<1>3. CatalogAgrees'
  BY ZenonT(40), <1>a DEF RenameCollection, CInv, CatalogAgrees
<1>4. IndexRecorded'
  <2>1. idx' = idx /\ renamed' = renamed \cup {o, n}
    BY DEF RenameCollection
  <2> SUFFICES ASSUME NEW m \in Names, colls'[m] # None
               PROVE  /\ idx[colls'[m]].index = "closed" => m \in renamed'
                      /\ idx[colls'[m]].index # "nil" =>
                           idx[colls'[m]].kind = idx[colls'[m]].type
    BY <2>1 DEF IndexRecorded
  <2>2. CASE m = n
    BY <1>0, <1>a, <2>1, <2>2 DEF CInv, IndexRecorded
  <2>3. CASE m # n
    BY <1>a, <2>1, <2>3 DEF CInv, IndexRecorded
  <2> QED
    BY <2>2, <2>3
<1>5. Identified' /\ AutoFresh'
  BY DEF RenameCollection, CInv, Identified, AutoFresh, points, tx
<1> QED
  BY <1>1, <1>2, <1>3, <1>4, <1>5 DEF CInv

\* A call that replaces the index record of one bound collection by a usable
\* one keeps the invariant: CreateIndex, BuildIndex and DropIndex.
LEMMA ReindexKeeps ==
  ASSUME CInv, NEW n \in Names, colls[n] # None, NEW i \in IndexState,
         i.index # "closed", i.index # "nil" => i.kind = i.type,
         idx' = [idx EXCEPT ![colls[n]] = i],
         UNCHANGED <<colls, byName, nextCID, schema, points, tx, used, wrapped,
                     dropped, renamed, auto>>
  PROVE  CInv'
<1> USE CollectionsAssumption
<1>0. Types /\ Paired /\ colls[n] \in Cids /\ colls[n] < nextCID
  BY DEF CInv, Types, TypeOK, Paired
<1>1. Types'
  BY <1>0 DEF Types, TypeOK, points, tx, IndexState
<1>2. Paired' /\ CatalogAgrees'
  BY <1>0 DEF CInv, Paired, CatalogAgrees, Types, TypeOK, Cids
<1>3. IndexRecorded'
  BY <1>0 DEF CInv, IndexRecorded, Types, TypeOK
<1>4. Identified' /\ AutoFresh'
  BY DEF CInv, Identified, AutoFresh, points, tx
<1> QED
  BY <1>1, <1>2, <1>3, <1>4 DEF CInv

\* The three calls that change an index keep the invariant.
LEMMA IndexKeeps ==
  ASSUME CInv, NEW n \in Names, NEW how \in {"built", "refused", "failed"},
         NEW named \in BOOLEAN, NEW t \in {"flat", "hnsw", "ivf", "diskann"},
         CreateIndex(n, named, t, how) \/ BuildIndex(n, how) \/ DropIndex(n)
  PROVE  CInv'
<1>0. colls[n] # None /\ idx[colls[n]] \in IndexState
  BY DEF CInv, Types, TypeOK, IndexState, CreateIndex, BuildIndex, DropIndex
<1>1. CASE CreateIndex(n, named, t, how)
  <2> DEFINE i == [idx[colls[n]] EXCEPT !.named = named, !.type = t]
  <2>1. i \in IndexState
    BY ZenonT(40), <1>0 DEF IndexState
  <2>2. idx' = [idx EXCEPT ![colls[n]] = Built(i, how)]
    BY <1>1 DEF CreateIndex
  <2> HIDE DEF i
  <2>3. /\ Built(i, how) \in IndexState /\ Built(i, how).index # "closed"
        /\ Built(i, how).index # "nil" => Built(i, how).kind = Built(i, how).type
    BY <2>1, BuiltUsable
  <2> QED
    BY ZenonT(40), <1>0, <1>1, <2>2, <2>3, ReindexKeeps DEF CreateIndex
<1>2. CASE BuildIndex(n, how)
  <2>1. idx' = [idx EXCEPT ![colls[n]] = Built(idx[colls[n]], how)]
    BY <1>2 DEF BuildIndex
  <2> QED
    BY ZenonT(40), <1>0, <1>2, <2>1, BuiltUsable, ReindexKeeps DEF BuildIndex
<1>3. CASE DropIndex(n)
  <2>1. NoIndex \in IndexState /\ NoIndex.index = "nil"
    BY DEF NoIndex, IndexState
  <2> QED
    BY ZenonT(40), <1>0, <1>3, <2>1, ReindexKeeps DEF DropIndex
<1> QED
  BY <1>1, <1>2, <1>3

\* A step that leaves every name, collection and index alone keeps what the
\* invariant says of them: all operations on points.
LEMMA NamesKept ==
  ASSUME CInv, UNCHANGED <<names, dropped, renamed>>
  PROVE  Paired' /\ CatalogAgrees' /\ IndexRecorded'
BY DEF CInv, Paired, CatalogAgrees, IndexRecorded, names

\* writeOne with a supplied id: a deleted id is refused, and the sequence moves
\* past the id or wraps.
LEMMA PutKeeps ==
  ASSUME CInv, NEW n \in Names, NEW u \in Ids, NEW stored \in BOOLEAN,
         Put(n, u, stored)
  PROVE  CInv'
<1> DEFINE c == colls[n]
<1>0. c \in Cids /\ Types /\ Identified /\ seq[c] \in Ids
  BY DEF Put, CanWrite, CInv, Types, TypeOK
<1>a. 2^W \in Nat \ {0, 1}
  BY CollectionsAssumption
<1>b. /\ seq' = [seq EXCEPT ![c] = Reserved(c, u)]
      /\ wrapped' = IF Reserved(c, u) < seq[c] THEN wrapped \cup {c} ELSE wrapped
      /\ live' = [live EXCEPT ![c] = IF stored THEN @ \cup {u} ELSE @]
      /\ used' = [used EXCEPT ![c] = IF stored THEN @ \cup {u} ELSE @]
      /\ u \notin deleted[c]
  BY DEF Put, Store
<1>c. UNCHANGED <<names, deleted, saved, txn, txns, dying, gone, dropped, renamed, auto>>
  BY DEF Put, tx
<1> HIDE DEF c
<1>d. /\ Reserved(c, u) \in Ids
      /\ u # MaxId => u < Reserved(c, u) /\ seq[c] <= Reserved(c, u)
      /\ u = MaxId => Reserved(c, u) = 0
  BY <1>0, ReservedIsId
<1>1. Types'
  BY <1>0, <1>b, <1>c, <1>d DEF Types, TypeOK, names
<1>2. Identified'
  <2> SUFFICES ASSUME NEW d \in Cids
               PROVE  /\ live'[d] \subseteq used'[d] /\ saved[d] \subseteq used'[d]
                      /\ gone[d] \subseteq deleted[d] /\ dying[d] \subseteq deleted[d]
                      /\ deleted[d] \subseteq used'[d]
                      /\ d \notin wrapped' =>
                           /\ \A i \in used'[d] : i < seq'[d] \/ i = MaxId
                           /\ live'[d] \cap gone[d] = {} /\ saved[d] \cap gone[d] = {}
    BY ZenonT(40), <1>c DEF Identified
  <2>1. CASE d # c
    BY <1>0, <1>b, <2>1 DEF Identified, Types, TypeOK
  <2>2. CASE d = c
    <3>1. used'[c] = (IF stored THEN used[c] \cup {u} ELSE used[c])
          /\ live'[c] = (IF stored THEN live[c] \cup {u} ELSE live[c])
          /\ seq'[c] = Reserved(c, u)
      BY <1>0, <1>b DEF Types, TypeOK
    <3>2. ASSUME c \notin wrapped'
          PROVE  \A i \in used'[c] : i < seq'[c] \/ i = MaxId
      <4>1. c \notin wrapped /\ ~(Reserved(c, u) < seq[c])
        BY <1>b, <3>2
      <4>2. \A i \in Ids : i \in Int
        BY <1>a DEF Ids
      <4>a. seq[c] \in Int /\ Reserved(c, u) \in Int /\ \A i \in used[c] : i \in Int
        BY <1>0, <1>d, <4>2 DEF Types
      <4>b. seq[c] <= Reserved(c, u)
        BY <4>1, <4>a
      <4>3. \A i \in used[c] : i < seq[c] \/ i = MaxId
        BY <1>0, <4>1 DEF Identified
      <4>4. \A i \in used[c] : i < Reserved(c, u) \/ i = MaxId
        BY <4>3, <4>a, <4>b
      <4> QED
        BY <1>d, <3>1, <4>4
    <3>3. c \notin wrapped' => live'[c] \cap gone[c] = {} /\ saved[c] \cap gone[c] = {}
      BY <1>0, <1>b, <3>1 DEF Identified
    <3> QED
      BY SMTT(40), <1>0, <2>2, <3>1, <3>2, <3>3 DEF Identified
  <2> QED
    BY SMTT(40), <2>1, <2>2
<1>3. AutoFresh'
  BY <1>b, <1>c DEF CInv, AutoFresh
<1> QED
  BY <1>1, <1>2, <1>3, <1>c, NamesKept DEF CInv

\* writeOne without an id: the sequence is below the largest id, and no id ever
\* stored equals it unless the sequence wrapped.
LEMMA PutAutoKeeps ==
  ASSUME CInv, NEW n \in Names, NEW stored \in BOOLEAN, PutAuto(n, stored)
  PROVE  CInv'
<1> DEFINE c == colls[n]
<1>0. c \in Cids /\ Types /\ Identified /\ seq[c] \in Ids
  BY DEF PutAuto, CanWrite, CInv, Types, TypeOK
<1>a. 2^W \in Nat \ {0, 1}
  BY CollectionsAssumption
<1>b. /\ seq[c] # MaxId
      /\ seq' = [seq EXCEPT ![c] = seq[c] + 1]
      /\ live' = [live EXCEPT ![c] = IF stored THEN @ \cup {seq[c]} ELSE @]
      /\ used' = [used EXCEPT ![c] = IF stored THEN @ \cup {seq[c]} ELSE @]
      /\ auto' = IF seq[c] \in used[c] THEN auto \cup {c} ELSE auto
  BY DEF PutAuto, Store
<1>c. UNCHANGED <<names, deleted, saved, txn, txns, dying, gone, wrapped, dropped, renamed>>
  BY DEF PutAuto, tx
<1> HIDE DEF c
<1>d. seq[c] + 1 \in Ids /\ seq[c] \in Int /\ MaxId \in Int /\ \A i \in Ids : i \in Int
  BY <1>0, <1>a, <1>b DEF Ids, MaxId
<1>e. c \notin wrapped => seq[c] \notin used[c]
  <2>1. ~(seq[c] < seq[c])
    BY <1>d
  <2>2. c \notin wrapped => \A i \in used[c] : i < seq[c] \/ i = MaxId
    BY <1>0 DEF Identified
  <2> QED
    BY <1>b, <2>1, <2>2
<1>1. Types'
  BY <1>0, <1>b, <1>c, <1>d DEF Types, TypeOK, names
<1>2. Identified'
  <2> SUFFICES ASSUME NEW d \in Cids
               PROVE  /\ live'[d] \subseteq used'[d] /\ saved[d] \subseteq used'[d]
                      /\ gone[d] \subseteq deleted[d] /\ dying[d] \subseteq deleted[d]
                      /\ deleted[d] \subseteq used'[d]
                      /\ d \notin wrapped =>
                           /\ \A i \in used'[d] : i < seq'[d] \/ i = MaxId
                           /\ live'[d] \cap gone[d] = {} /\ saved[d] \cap gone[d] = {}
    BY SMTT(40), <1>c DEF Identified
  <2>1. CASE d # c
    BY <1>0, <1>b, <2>1 DEF Identified, Types, TypeOK
  <2>2. CASE d = c
    <3>1. used'[c] = (IF stored THEN used[c] \cup {seq[c]} ELSE used[c])
          /\ live'[c] = (IF stored THEN live[c] \cup {seq[c]} ELSE live[c])
          /\ seq'[c] = seq[c] + 1
      BY <1>0, <1>b DEF Types, TypeOK
    <3>2. ASSUME c \notin wrapped
          PROVE  \A i \in used'[c] : i < seq'[c] \/ i = MaxId
      <4>1. used[c] \subseteq Ids
        BY <1>0 DEF Types, TypeOK
      <4>2. \A i \in used[c] : i < seq[c] \/ i = MaxId
        BY <1>0, <3>2 DEF Identified
      <4>3. \A i \in used[c] : i < seq[c] + 1 \/ i = MaxId
        BY <1>d, <4>1, <4>2
      <4>4. seq[c] < seq[c] + 1
        BY <1>d
      <4> QED
        BY <3>1, <4>3, <4>4
    <3>3. c \notin wrapped => live'[c] \cap gone[c] = {} /\ saved[c] \cap gone[c] = {}
      BY <1>0, <1>e, <3>1 DEF Identified
    <3> QED
      BY <1>0, <2>2, <3>1, <3>2, <3>3 DEF Identified
  <2> QED
    BY <2>1, <2>2
<1>3. AutoFresh'
  BY <1>b, <1>c, <1>e DEF CInv, AutoFresh
<1> QED
  BY <1>1, <1>2, <1>3, <1>c, NamesKept DEF CInv

\* Collection.Delete marks the identity whatever becomes of the transaction.
LEMMA DeleteKeeps ==
  ASSUME CInv, NEW n \in Names, NEW i \in Ids, Delete(n, i)
  PROVE  CInv'
<1>0. colls[n] \in Cids /\ Types /\ Identified
  BY DEF Delete, CanWrite, CInv, Types, TypeOK
<1>1. Types'
  BY <1>0 DEF Delete, Types, TypeOK, names
<1>2. Identified'
  BY <1>0 DEF Delete, Types, TypeOK, Identified
<1>3. AutoFresh'
  BY DEF Delete, CInv, AutoFresh
<1> QED
  BY <1>1, <1>2, <1>3, NamesKept DEF CInv, Delete

\* Begin, Commit and Rollback: what a rollback brings back was live when the
\* transaction began, and a commit makes final only deletions of ids not live.
LEMMA TxnKeeps ==
  ASSUME CInv, Begin \/ Commit \/ Rollback
  PROVE  CInv'
<1>0. Types /\ Identified
  BY DEF CInv
<1>a. txn' \in BOOLEAN
  BY ZenonT(40) DEF Begin, Commit, Rollback
<1>1. Types'
  BY <1>0, <1>a DEF Begin, Commit, Rollback, Types, TypeOK, names, points
<1>2. Identified'
  <2>1. CASE Begin
    BY ZenonT(40), <1>0, <2>1 DEF Begin, Identified, points
  <2>2. CASE Commit
    BY ZenonT(40), <1>0, <2>2 DEF Commit, Identified, points
  <2>3. CASE Rollback
    BY ZenonT(40), <1>0, <2>3 DEF Rollback, Identified
  <2> QED
    BY <2>1, <2>2, <2>3
<1>3. AutoFresh'
  BY DEF Begin, Commit, Rollback, CInv, AutoFresh
<1> QED
  BY <1>1, <1>2, <1>3, NamesKept DEF CInv, Begin, Commit, Rollback

\* Every step keeps the inductive invariant.
LEMMA CInvStep == CInv /\ [Next]_vars => CInv'
<1> SUFFICES ASSUME CInv, [Next]_vars PROVE CInv'
  OBVIOUS
<1>1. ASSUME NEW n \in Names, CreateCollection(n) PROVE CInv'
  BY <1>1, CreateCollectionKeeps
<1>2. ASSUME NEW n \in Names, DropCollection(n) PROVE CInv'
  BY <1>2, DropCollectionKeeps
<1>3. ASSUME NEW n \in Names, NEW o \in Names, RenameCollection(o, n) PROVE CInv'
  BY <1>3, RenameCollectionKeeps
<1>4. ASSUME NEW n \in Names, DropIndex(n) PROVE CInv'
  BY ZenonT(40), <1>4, IndexKeeps
<1>5. ASSUME NEW n \in Names, NEW how \in {"built", "refused", "failed"},
             BuildIndex(n, how)
      PROVE  CInv'
  BY ZenonT(40), <1>5, IndexKeeps
<1>6. ASSUME NEW n \in Names, NEW how \in {"built", "refused", "failed"},
             NEW named \in BOOLEAN, NEW t \in {"flat", "hnsw", "ivf", "diskann"},
             CreateIndex(n, named, t, how)
      PROVE  CInv'
  BY <1>6, IndexKeeps
<1>7. ASSUME NEW n \in Names, NEW stored \in BOOLEAN, PutAuto(n, stored) PROVE CInv'
  BY <1>7, PutAutoKeeps
<1>8. ASSUME NEW n \in Names, NEW stored \in BOOLEAN, NEW u \in Ids \ {0},
             Put(n, u, stored)
      PROVE  CInv'
  BY <1>8, PutKeeps
<1>9. ASSUME NEW n \in Names, NEW i \in Ids, Delete(n, i) PROVE CInv'
  BY <1>9, DeleteKeeps
<1>10. CASE Begin \/ Commit \/ Rollback
  BY <1>10, TxnKeeps
<1>11. CASE UNCHANGED vars
  BY SMTT(40), <1>11 DEF vars, names, points, tx, CInv, Types, TypeOK, Paired, CatalogAgrees,
               IndexRecorded, Identified, AutoFresh
<1> QED
  BY <1>1, <1>2, <1>3, <1>4, <1>5, <1>6, <1>7, <1>8, <1>9, <1>10, <1>11 DEF Next

\* The inductive invariant holds in every state.
THEOREM CInvAlways == Spec => []CInv
BY CInvInit, CInvStep, PTL DEF Spec

\* The inductive invariant implies that names and collections are one to one.
LEMMA CInvNames == CInv => NamesOwn
<1> SUFFICES ASSUME CInv, NEW c \in 1..(nextCID - 1)
             PROVE  {n \in Names : colls[n] = c} =
                      IF c \in dropped THEN {} ELSE {schema[c]}
  BY DEF CInv, NamesOwn
<1>1. c \in Cids /\ c # None
  BY CollectionsAssumption DEF CInv, Types, TypeOK, Cids
<1>2. CASE c \in dropped
  BY <1>1, <1>2 DEF CInv, Paired
<1>3. CASE c \notin dropped
  BY <1>1, <1>3 DEF CInv, Paired
<1> QED
  BY <1>2, <1>3

\* Through any creates, drops and renames, a collection is reached by exactly
\* the name in its schema, a dropped one by none, and the catalog agrees on
\* every name no rename touched.
THEOREM NamesOwnAlways == Spec => []NamesOwn
BY CInvAlways, CInvNames, PTL

\* The index a name records while db.mu is free is not closed, unless a rename
\* touched the name, and is of the kind recorded beside it.
THEOREM IndexRecordedAlways == Spec => []IndexRecorded
<1>1. CInv => IndexRecorded
  BY DEF CInv
<1> QED
  BY <1>1, CInvAlways, PTL

\* A committed deletion is final: no put, auto-assigned id or rollback makes
\* the id live again, for any width, unless the sequence wrapped.
THEOREM NeverReusedAlways == Spec => []NeverReused
<1>1. CInv => NeverReused
  BY DEF CInv, Identified, NeverReused
<1> QED
  BY <1>1, CInvAlways, PTL

\* nextAuto never gives an id that was stored before, unless the sequence
\* wrapped.
THEOREM AutoFreshAlways == Spec => []AutoFresh
<1>1. CInv => AutoFresh
  BY DEF CInv
<1> QED
  BY <1>1, CInvAlways, PTL
=============================================================================

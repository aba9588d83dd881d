-------------------------------- MODULE Wire --------------------------------
(***************************************************************************)
(* The proto3 codec of the gRPC service (package server/vecpb).  Each      *)
(* message has a hand-written Marshal method and a hand-written Unmarshal  *)
(* function; here each is the table of the fields it writes or reads, and  *)
(* "marshal" and "unmarshal" run the tables over bytes the way wire.go     *)
(* does.  A message is a record from field name to value; a oneof is the   *)
(* field "arm": <<field number, value>>, or <<0>> when no member is set.   *)
(*                                                                         *)
(* Bytes are 0..255 and positions count from 1.  LongBits and IntBits are  *)
(* the widths of uint64 and uint32, scaled down with LongBits % 7 = 1 as   *)
(* 64 is; a double is its bit pattern; a string is a word with a spelling. *)
(***************************************************************************)
EXTENDS Integers, Sequences, SequencesExt, FiniteSets

CONSTANTS LongBits, IntBits,
          Spelling                         \* the bytes of every string in use

ASSUME WireAssumption ==
  /\ IntBits \in 1 .. LongBits
  /\ Spelling[""] = <<>>
  /\ \A s, t \in DOMAIN Spelling : Spelling[s] = Spelling[t] => s = t

Nil == <<>>
Some(x) == <<x>>

(* Fields: their number, the name in the struct, what a value is, and how  *)
(* often it is there: "one" (omitted when zero), "always", "opt" (a        *)
(* pointer), "rep", "map" (repeated entries) or "arm" (a oneof member).    *)
Fld(num, name, kind, of, card) == [num |-> num, name |-> name, kind |-> kind, of |-> of, card |-> card]
U64(num, name) == Fld(num, name, "u64", "", "one")
U32(num, name) == Fld(num, name, "u32", "", "one")
Bln(num, name) == Fld(num, name, "bool", "", "one")
Dbl(num, name) == Fld(num, name, "double", "", "one")
Str(num, name) == Fld(num, name, "string", "", "one")
Byt(num, name) == Fld(num, name, "bytes", "", "one")
Msg(num, name, of) == Fld(num, name, "msg", of, "opt")
Rep(num, name, of) == Fld(num, name, "msg", of, "rep")
Ids(num, name) == Fld(num, name, "u64", "", "rep")
Map(num, name) == Fld(num, name, "msg", "StringEntry", "map")
Vals(num, name) == Fld(num, name, "msg", "ValueEntry", "map")
Arm(num, kind, of) == Fld(num, "arm", kind, of, "arm")
Always(f) == [f EXCEPT !.card = "always"]
Opt(f) == [f EXCEPT !.card = "opt"]

(* The messages.                                                           *)
MarshalValue == <<Arm(1, "i64", ""), Arm(2, "double", ""), Arm(3, "bool", ""), Arm(4, "string", ""),
                  Arm(5, "bytes", "")>>
UnmarshalValue == <<Arm(1, "i64", ""), Arm(2, "double", ""), Arm(3, "bool", ""), Arm(4, "string", ""),
                    Arm(5, "bytes", "")>>
MarshalVector == <<Byt(1, "data")>>
UnmarshalVector == <<Byt(1, "data")>>
appendStringMap == <<Always(Str(1, "key")), Always(Str(2, "value"))>>
readStringMapEntry == <<Str(1, "key"), Str(2, "value")>>
appendValueMap == <<Always(Str(1, "key")), Always(Msg(2, "value", "Value"))>>
readValueMapEntry == <<Str(1, "key"), Always(Msg(2, "value", "Value"))>>
MarshalPoint == <<U64(1, "id"), Msg(2, "vector", "Vector"), Vals(3, "payload")>>
UnmarshalPoint == <<U64(1, "id"), Msg(2, "vector", "Vector"), Vals(3, "payload")>>
MarshalScoredPoint == <<Msg(1, "point", "Point"), Dbl(2, "score"), U64(3, "rank")>>
UnmarshalScoredPoint == <<Msg(1, "point", "Point"), Dbl(2, "score"), U64(3, "rank")>>
MarshalCollectionConfig ==
  <<U32(1, "dim"), U32(2, "metric"), Str(3, "indexType"), Map(4, "indexParams"), Map(5, "columnTypes")>>
UnmarshalCollectionConfig ==
  <<U32(1, "dim"), U32(2, "metric"), Str(3, "indexType"), Map(4, "indexParams"), Map(5, "columnTypes")>>
MarshalCollectionInfo ==
  <<Str(1, "name"), Msg(2, "config", "CollectionConfig"), U64(3, "count"), U64(4, "sizeBytes"),
    Str(5, "indexState")>>
UnmarshalCollectionInfo ==
  <<Str(1, "name"), Msg(2, "config", "CollectionConfig"), U64(3, "count"), U64(4, "sizeBytes"),
    Str(5, "indexState")>>
marshalChildList == <<Rep(1, "children", "Filter")>>
unmarshalChildList == <<Rep(1, "children", "Filter")>>
MarshalFilter == <<Arm(1, "msg", "ChildList"), Arm(2, "msg", "ChildList"), Arm(3, "msg", "ChildList"),
                   Arm(4, "msg", "Condition")>>
UnmarshalFilter == <<Arm(1, "msg", "ChildList"), Arm(2, "msg", "ChildList"), Arm(3, "msg", "ChildList"),
                     Arm(4, "msg", "Condition")>>
MarshalCondition == <<Str(1, "field"), Arm(2, "msg", "RangeTest"), Arm(3, "msg", "MatchTest"),
                      Arm(4, "msg", "NullTest")>>
UnmarshalCondition == <<Str(1, "field"), Arm(2, "msg", "RangeTest"), Arm(3, "msg", "MatchTest"),
                        Arm(4, "msg", "NullTest")>>
MarshalRangeTest == <<Opt(Dbl(1, "gt")), Opt(Dbl(2, "gte")), Opt(Dbl(3, "lt")), Opt(Dbl(4, "lte"))>>
\* Variant: two fields are swapped.
UnmarshalRangeSwapped == <<Opt(Dbl(1, "gte")), Opt(Dbl(2, "gt")), Opt(Dbl(3, "lt")), Opt(Dbl(4, "lte"))>>
UnmarshalRangeTest == <<Opt(Dbl(1, "gt")), Opt(Dbl(2, "gte")), Opt(Dbl(3, "lt")), Opt(Dbl(4, "lte"))>>
MarshalMatchTest == <<Msg(1, "value", "Value")>>
UnmarshalMatchTest == <<Msg(1, "value", "Value")>>
MarshalNullTest == <<Bln(1, "isNull")>>
UnmarshalNullTest == <<Bln(1, "isNull")>>

MarshalCreateCollectionRequest == <<Str(1, "name"), Msg(2, "config", "CollectionConfig")>>
UnmarshalCreateCollectionRequest == <<Str(1, "name"), Msg(2, "config", "CollectionConfig")>>
MarshalCreateCollectionResponse == <<Msg(1, "info", "CollectionInfo")>>
UnmarshalCreateCollectionResponse == <<Msg(1, "info", "CollectionInfo")>>
MarshalDropCollectionRequest == <<Str(1, "name")>>
UnmarshalDropCollectionRequest == <<Str(1, "name")>>
MarshalDropCollectionResponse == <<Bln(1, "dropped")>>
UnmarshalDropCollectionResponse == <<Bln(1, "dropped")>>
MarshalGetCollectionRequest == <<Str(1, "name")>>
UnmarshalGetCollectionRequest == <<Str(1, "name")>>
MarshalGetCollectionResponse == <<Msg(1, "info", "CollectionInfo")>>
UnmarshalGetCollectionResponse == <<Msg(1, "info", "CollectionInfo")>>
MarshalListCollectionsRequest == <<>>
UnmarshalListCollectionsRequest == <<>>
MarshalListCollectionsResponse == <<Rep(1, "collections", "CollectionInfo")>>
UnmarshalListCollectionsResponse == <<Rep(1, "collections", "CollectionInfo")>>
MarshalUpsertRequest == <<Str(1, "collection"), Rep(2, "points", "Point"), Bln(3, "wait")>>
UnmarshalUpsertRequest == <<Str(1, "collection"), Rep(2, "points", "Point"), Bln(3, "wait")>>
MarshalUpsertResponse == <<U64(1, "upserted"), U64(2, "updated"), Str(3, "operationID")>>
UnmarshalUpsertResponse == <<U64(1, "upserted"), U64(2, "updated"), Str(3, "operationID")>>
MarshalDeleteRequest == <<Str(1, "collection"), Ids(2, "ids")>>
UnmarshalDeleteRequest == <<Str(1, "collection"), Ids(2, "ids")>>
MarshalDeleteResponse == <<U64(1, "deleted")>>
UnmarshalDeleteResponse == <<U64(1, "deleted")>>
MarshalGetPointsRequest == <<Str(1, "collection"), Ids(2, "ids"), Bln(3, "withVectors"), Bln(4, "withPayload")>>
UnmarshalGetPointsRequest == <<Str(1, "collection"), Ids(2, "ids"), Bln(3, "withVectors"), Bln(4, "withPayload")>>
MarshalGetPointsResponse == <<Rep(1, "points", "Point")>>
UnmarshalGetPointsResponse == <<Rep(1, "points", "Point")>>
MarshalQueryRequest ==
  <<Str(1, "collection"), Msg(2, "queryVector", "Vector"), U32(3, "topK"), Msg(4, "filter", "Filter"),
    U32(5, "strategy"), Map(6, "params"), Bln(7, "withVectors"), Bln(8, "withPayload"),
    Str(9, "indexName")>>
UnmarshalQueryRequest ==
  <<Str(1, "collection"), Msg(2, "queryVector", "Vector"), U32(3, "topK"), Msg(4, "filter", "Filter"),
    U32(5, "strategy"), Map(6, "params"), Bln(7, "withVectors"), Bln(8, "withPayload"),
    Str(9, "indexName")>>
MarshalQueryResponse == <<Rep(1, "results", "ScoredPoint"), Dbl(2, "searchTime"), Str(3, "strategyUsed")>>
UnmarshalQueryResponse == <<Rep(1, "results", "ScoredPoint"), Dbl(2, "searchTime"), Str(3, "strategyUsed")>>
MarshalBatchQueryRequest == <<Str(1, "collection"), Rep(2, "queries", "QueryRequest")>>
UnmarshalBatchQueryRequest == <<Str(1, "collection"), Rep(2, "queries", "QueryRequest")>>
MarshalBatchQueryResult == <<Rep(1, "results", "ScoredPoint"), Dbl(2, "searchTime"), Str(3, "strategyUsed")>>
UnmarshalBatchQueryResult == <<Rep(1, "results", "ScoredPoint"), Dbl(2, "searchTime"), Str(3, "strategyUsed")>>
MarshalBatchQueryResponse == <<Rep(1, "results", "BatchQueryResult")>>
UnmarshalBatchQueryResponse == <<Rep(1, "results", "BatchQueryResult")>>
MarshalStreamQueryRequest == <<Msg(1, "request", "QueryRequest"), U32(2, "pageSize")>>
UnmarshalStreamQueryRequest == <<Msg(1, "request", "QueryRequest"), U32(2, "pageSize")>>
MarshalStreamQueryResponse == <<Rep(1, "results", "ScoredPoint"), Bln(2, "done"), U64(3, "totalSent")>>
UnmarshalStreamQueryResponse == <<Rep(1, "results", "ScoredPoint"), Bln(2, "done"), U64(3, "totalSent")>>
MarshalScrollRequest ==
  <<Str(1, "collection"), Msg(2, "filter", "Filter"), U32(3, "limit"), Byt(4, "offsetToken"),
    Bln(5, "withVectors"), Bln(6, "withPayload")>>
UnmarshalScrollRequest ==
  <<Str(1, "collection"), Msg(2, "filter", "Filter"), U32(3, "limit"), Byt(4, "offsetToken"),
    Bln(5, "withVectors"), Bln(6, "withPayload")>>
MarshalScrollResponse == <<Rep(1, "points", "Point"), Byt(2, "nextToken")>>
UnmarshalScrollResponse == <<Rep(1, "points", "Point"), Byt(2, "nextToken")>>
MarshalReindexRequest == <<Str(1, "collection"), Str(2, "indexType"), Map(3, "params")>>
UnmarshalReindexRequest == <<Str(1, "collection"), Str(2, "indexType"), Map(3, "params")>>
MarshalReindexResponse == <<Str(1, "operationID")>>
UnmarshalReindexResponse == <<Str(1, "operationID")>>
MarshalVacuumRequest == <<Str(1, "collection"), Bln(2, "aggressive")>>
UnmarshalVacuumRequest == <<Str(1, "collection"), Bln(2, "aggressive")>>
MarshalVacuumResponse == <<U64(1, "bytesFreed")>>
UnmarshalVacuumResponse == <<U64(1, "bytesFreed")>>
MarshalBackupRequest == <<Str(1, "destPath"), Bln(2, "incremental")>>
UnmarshalBackupRequest == <<Str(1, "destPath"), Bln(2, "incremental")>>
MarshalBackupResponse == <<U64(1, "sizeBytes"), Str(2, "path")>>
UnmarshalBackupResponse == <<U64(1, "sizeBytes"), Str(2, "path")>>
MarshalOperationStatusRequest == <<Str(1, "operationID")>>
UnmarshalOperationStatusRequest == <<Str(1, "operationID")>>
MarshalOperationStatusResponse ==
  <<Str(1, "operationID"), Str(2, "state"), Dbl(3, "progress"), Str(4, "error")>>
UnmarshalOperationStatusResponse ==
  <<Str(1, "operationID"), Str(2, "state"), Dbl(3, "progress"), Str(4, "error")>>
MarshalHealthRequest == <<>>
UnmarshalHealthRequest == <<>>
MarshalHealthResponse == <<Str(1, "status"), Str(2, "version"), U64(3, "uptimeS"), Map(4, "details")>>
UnmarshalHealthResponse == <<Str(1, "status"), Str(2, "version"), U64(3, "uptimeS"), Map(4, "details")>>

Writes ==
  [StringEntry |-> appendStringMap, ValueEntry |-> appendValueMap, ChildList |-> marshalChildList,
   Value |-> MarshalValue, Vector |-> MarshalVector, Point |-> MarshalPoint,
   ScoredPoint |-> MarshalScoredPoint, CollectionConfig |-> MarshalCollectionConfig,
   CollectionInfo |-> MarshalCollectionInfo, Filter |-> MarshalFilter, Condition |-> MarshalCondition,
   RangeTest |-> MarshalRangeTest, MatchTest |-> MarshalMatchTest, NullTest |-> MarshalNullTest,
   CreateCollectionRequest |-> MarshalCreateCollectionRequest,
   CreateCollectionResponse |-> MarshalCreateCollectionResponse,
   DropCollectionRequest |-> MarshalDropCollectionRequest,
   DropCollectionResponse |-> MarshalDropCollectionResponse,
   GetCollectionRequest |-> MarshalGetCollectionRequest,
   GetCollectionResponse |-> MarshalGetCollectionResponse,
   ListCollectionsRequest |-> MarshalListCollectionsRequest,
   ListCollectionsResponse |-> MarshalListCollectionsResponse,
   UpsertRequest |-> MarshalUpsertRequest, UpsertResponse |-> MarshalUpsertResponse,
   DeleteRequest |-> MarshalDeleteRequest, DeleteResponse |-> MarshalDeleteResponse,
   GetPointsRequest |-> MarshalGetPointsRequest, GetPointsResponse |-> MarshalGetPointsResponse,
   QueryRequest |-> MarshalQueryRequest, QueryResponse |-> MarshalQueryResponse,
   BatchQueryRequest |-> MarshalBatchQueryRequest, BatchQueryResult |-> MarshalBatchQueryResult,
   BatchQueryResponse |-> MarshalBatchQueryResponse, StreamQueryRequest |-> MarshalStreamQueryRequest,
   StreamQueryResponse |-> MarshalStreamQueryResponse, ScrollRequest |-> MarshalScrollRequest,
   ScrollResponse |-> MarshalScrollResponse, ReindexRequest |-> MarshalReindexRequest,
   ReindexResponse |-> MarshalReindexResponse, VacuumRequest |-> MarshalVacuumRequest,
   VacuumResponse |-> MarshalVacuumResponse, BackupRequest |-> MarshalBackupRequest,
   BackupResponse |-> MarshalBackupResponse, OperationStatusRequest |-> MarshalOperationStatusRequest,
   OperationStatusResponse |-> MarshalOperationStatusResponse, HealthRequest |-> MarshalHealthRequest,
   HealthResponse |-> MarshalHealthResponse]

Reads ==
  [StringEntry |-> readStringMapEntry, ValueEntry |-> readValueMapEntry, ChildList |-> unmarshalChildList,
   Value |-> UnmarshalValue, Vector |-> UnmarshalVector, Point |-> UnmarshalPoint,
   ScoredPoint |-> UnmarshalScoredPoint, CollectionConfig |-> UnmarshalCollectionConfig,
   CollectionInfo |-> UnmarshalCollectionInfo, Filter |-> UnmarshalFilter, Condition |-> UnmarshalCondition,
   RangeTest |-> UnmarshalRangeTest, MatchTest |-> UnmarshalMatchTest, NullTest |-> UnmarshalNullTest,
   CreateCollectionRequest |-> UnmarshalCreateCollectionRequest,
   CreateCollectionResponse |-> UnmarshalCreateCollectionResponse,
   DropCollectionRequest |-> UnmarshalDropCollectionRequest,
   DropCollectionResponse |-> UnmarshalDropCollectionResponse,
   GetCollectionRequest |-> UnmarshalGetCollectionRequest,
   GetCollectionResponse |-> UnmarshalGetCollectionResponse,
   ListCollectionsRequest |-> UnmarshalListCollectionsRequest,
   ListCollectionsResponse |-> UnmarshalListCollectionsResponse,
   UpsertRequest |-> UnmarshalUpsertRequest, UpsertResponse |-> UnmarshalUpsertResponse,
   DeleteRequest |-> UnmarshalDeleteRequest, DeleteResponse |-> UnmarshalDeleteResponse,
   GetPointsRequest |-> UnmarshalGetPointsRequest, GetPointsResponse |-> UnmarshalGetPointsResponse,
   QueryRequest |-> UnmarshalQueryRequest, QueryResponse |-> UnmarshalQueryResponse,
   BatchQueryRequest |-> UnmarshalBatchQueryRequest, BatchQueryResult |-> UnmarshalBatchQueryResult,
   BatchQueryResponse |-> UnmarshalBatchQueryResponse, StreamQueryRequest |-> UnmarshalStreamQueryRequest,
   StreamQueryResponse |-> UnmarshalStreamQueryResponse, ScrollRequest |-> UnmarshalScrollRequest,
   ScrollResponse |-> UnmarshalScrollResponse, ReindexRequest |-> UnmarshalReindexRequest,
   ReindexResponse |-> UnmarshalReindexResponse, VacuumRequest |-> UnmarshalVacuumRequest,
   VacuumResponse |-> UnmarshalVacuumResponse, BackupRequest |-> UnmarshalBackupRequest,
   BackupResponse |-> UnmarshalBackupResponse, OperationStatusRequest |-> UnmarshalOperationStatusRequest,
   OperationStatusResponse |-> UnmarshalOperationStatusResponse, HealthRequest |-> UnmarshalHealthRequest,
   HealthResponse |-> UnmarshalHealthResponse]

(* Writing.                                                                *)
Concat(seqs) ==
  LET upto[i \in 0 .. Cardinality(DOMAIN seqs)] == IF i = 0 THEN <<>> ELSE upto[i - 1] \o seqs[i] IN
  upto[Cardinality(DOMAIN seqs)]

appendVarint[x \in Nat] == IF x < 128 THEN <<x>> ELSE <<128 + (x % 128)>> \o appendVarint[x \div 128]
appendTag(num, wire) == appendVarint[8 * num + wire]
appendBytes(p) == appendVarint[Len(p)] \o p
appendDouble(bits) == <<bits % 256, bits \div 256, 0, 0, 0, 0, 0, 0>>

wireOf(kind) == CASE kind \in {"u64", "i64", "u32", "bool"} -> 0 [] kind = "double" -> 1 [] OTHER -> 2

ZeroOf(kind) == CASE kind \in {"u64", "i64", "u32", "double"} -> 0 [] kind = "bool" -> FALSE
                  [] kind = "string" -> "" [] kind = "bytes" -> <<>>

\* The entries of a map, in the order Go's range happens to give them.
entries(m, rev) ==
  LET keys == SetToSeq(DOMAIN m)
      es == [i \in DOMAIN keys |-> [key |-> keys[i], value |-> m[keys[i]]]]
  IN IF rev THEN Reverse(es) ELSE es

\* The values field f contributes, one record each.
Emitted(f, m, rev) ==
  LET v == m[f.name] IN
  CASE f.card = "one" -> IF v = ZeroOf(f.kind) THEN <<>> ELSE <<v>>
    [] f.card = "always" -> <<v>>
    [] f.card \in {"opt", "rep"} -> v
    [] f.card = "map" -> entries(v, rev)
    [] f.card = "arm" -> IF v[1] = f.num THEN <<v[2]>> ELSE <<>>

RECURSIVE marshal(_, _, _)
appendValue(f, v, rev) ==
  CASE f.kind = "i64" -> appendVarint[v % 2^LongBits]
    [] f.kind \in {"u64", "u32"} -> appendVarint[v]
    [] f.kind = "bool" -> IF v THEN <<1>> ELSE <<0>>
    [] f.kind = "double" -> appendDouble(v)
    [] f.kind = "string" -> appendBytes(Spelling[v])
    [] f.kind = "bytes" -> appendBytes(v)
    [] f.kind = "msg" -> appendBytes(marshal(f.of, v, rev))

appendField(f, vs, rev) ==
  Concat([j \in DOMAIN vs |-> appendTag(f.num, wireOf(f.kind)) \o appendValue(f, vs[j], rev)])
appendFields(fs, m, rev) == Concat([i \in DOMAIN fs |-> appendField(fs[i], Emitted(fs[i], m, rev), rev)])
marshal(type, m, rev) == appendFields(Writes[type], m, rev)

(* Reading: a value and the position after it, an error, or a panic.       *)
Bad == [ok |-> FALSE, pos |-> 0, val |-> Nil]
Panic == [ok |-> FALSE, pos |-> -1, val |-> Nil]
Got(val, pos) == [ok |-> TRUE, pos |-> pos, val |-> val]

\* The tenth byte (shift 63) is accepted and all but its lowest bit lost.
RECURSIVE varintAt(_, _, _, _)
varintNext(buf, pos, shift, y) ==
  IF buf[pos] < 128 THEN Got(y, pos + 1) ELSE varintAt(buf, pos + 1, shift + 7, y)
varintAt(buf, pos, shift, x) ==
  IF pos > Len(buf) \/ shift >= LongBits THEN Bad
  ELSE IF pos < 1 THEN Panic
  ELSE varintNext(buf, pos, shift, (x + (buf[pos] % 128) * 2^shift) % 2^LongBits)
readVarint(buf, pos) == varintAt(buf, pos, 0, 0)

readFixed64(buf, pos) ==
  IF pos + 7 > Len(buf) THEN Bad ELSE Got(buf[pos] + 256 * buf[pos + 1], pos + 8)

Signed(n) == IF n >= 2^(LongBits - 1) THEN n - 2^LongBits ELSE n

\* The bytes up to r.pos + int(n), for a length n: an int, and negative when
\* n is 2^63 or more, which passes the test.  readBytes then slices from a
\* higher to a lower index; skip goes back.
EndOf(n) == Signed((n.pos - 1 + n.val) % 2^LongBits)
Counted(n, buf) ==
  CASE ~n.ok -> n
    [] n.ok /\ EndOf(n) > Len(buf) -> Bad
    [] n.ok /\ EndOf(n) < n.pos - 1 -> Panic
    [] OTHER -> Got(SubSeq(buf, n.pos, EndOf(n)), EndOf(n) + 1)
readBytes(buf, pos) == Counted(readVarint(buf, pos), buf)
Past(n, buf) == CASE ~n.ok -> n [] n.ok /\ EndOf(n) > Len(buf) -> Bad [] OTHER -> Got(Nil, EndOf(n) + 1)

skip(wire, buf, pos) ==
  CASE wire = 0 -> readVarint(buf, pos)
    [] wire = 1 -> IF pos + 7 > Len(buf) THEN Bad ELSE Got(Nil, pos + 8)
    [] wire = 2 -> Past(readVarint(buf, pos), buf)
    [] wire = 5 -> IF pos + 3 > Len(buf) THEN Bad ELSE Got(Nil, pos + 4)
    [] OTHER -> Bad

\* What is read becomes Then(its value), unless it failed.
Mapped(got, Then(_)) == IF got.ok THEN Got(Then(got.val), got.pos) ELSE got

RECURSIVE packed(_, _, _)
unpacked(n, buf, xs) == IF n.ok THEN packed(buf, n.pos, Append(xs, n.val)) ELSE n
packed(buf, pos, xs) == IF pos > Len(buf) THEN Got(xs, pos) ELSE unpacked(readVarint(buf, pos), buf, xs)
Within(sub, p) == CASE ~p.ok -> p [] p.ok /\ ~sub.ok -> sub [] OTHER -> Got(sub.val, p.pos)
unpackedFrom(p, xs) == Within(packed(p.val, 1, xs), p)

\* Both forms of a repeated uint64; xs: the values so far.
readRepeatedUint64(wire, buf, pos, xs) ==
  CASE wire = 0 -> Mapped(readVarint(buf, pos), LAMBDA n : Append(xs, n))
    [] wire = 2 -> unpackedFrom(readBytes(buf, pos), xs)
    [] OTHER -> Bad

Word(p) == CHOOSE s \in DOMAIN Spelling : Spelling[s] = p

RECURSIVE zero(_)
zeroField(f) ==
  CASE f.card = "arm" -> <<0>>
    [] f.card \in {"opt", "rep", "map"} -> <<>>
    [] f.kind = "msg" -> zero(f.of)
    [] OTHER -> ZeroOf(f.kind)
zeroFields(fs) ==
  [name \in {fs[i].name : i \in DOMAIN fs} |-> zeroField(fs[CHOOSE i \in DOMAIN fs : fs[i].name = name])]
zero(type) == zeroFields(Reads[type])

RECURSIVE unmarshal(_, _)
RECURSIVE unmarshalFrom(_, _, _, _)

\* One value of field f.  The wire type of the tag is looked at by nothing
\* but readRepeatedUint64 and skip.
readRaw(f, buf, pos) ==
  CASE wireOf(f.kind) = 0 -> readVarint(buf, pos)
    [] wireOf(f.kind) = 1 -> readFixed64(buf, pos)
    [] OTHER -> readBytes(buf, pos)
decoded(f, raw) ==
  CASE ~raw.ok -> raw
    [] f.kind = "u32" -> Got(raw.val % 2^IntBits, raw.pos)
    [] f.kind = "i64" -> Got(Signed(raw.val), raw.pos)
    [] f.kind = "bool" -> Got(raw.val # 0, raw.pos)
    [] f.kind = "string" -> Got(Word(raw.val), raw.pos)
    [] f.kind = "msg" -> Within(unmarshal(f.of, raw.val), raw)
    [] OTHER -> raw
readValue(f, buf, pos) == decoded(f, readRaw(f, buf, pos))

Stored(f, m, v) ==
  [m EXCEPT ![f.name] =
     CASE f.card \in {"one", "always"} -> v
       [] f.card = "opt" -> <<v>>
       [] f.card = "rep" -> Append(@, v)
       [] f.card = "map" -> (v.key :> v.value) @@ @
       [] f.card = "arm" -> <<f.num, v>>]

\* Field f into message m, or past a field that nobody knows.
readField(f, wire, buf, pos, m) ==
  IF f.card = "rep" /\ f.kind = "u64"
  THEN Mapped(readRepeatedUint64(wire, buf, pos, m[f.name]), LAMBDA xs : [m EXCEPT ![f.name] = xs])
  ELSE Mapped(readValue(f, buf, pos), LAMBDA v : Stored(f, m, v))
readKnown(known, wire, buf, pos, m) ==
  IF known = <<>> THEN Mapped(skip(wire, buf, pos), LAMBDA v : m) ELSE readField(known[1], wire, buf, pos, m)
readTagged(fs, tag, buf, m) ==
  IF ~tag.ok THEN tag
  ELSE readKnown(SelectSeq(fs, LAMBDA f : f.num = tag.val \div 8), tag.val % 8, buf, tag.pos, m)

\* The loop of every Unmarshal function: a tag, then the field or a skip.
unmarshalRest(fs, buf, got) == IF got.ok THEN unmarshalFrom(fs, buf, got.pos, got.val) ELSE got
unmarshalFrom(fs, buf, pos, m) ==
  IF pos > Len(buf) THEN Got(m, pos)
  ELSE unmarshalRest(fs, buf, readTagged(fs, readVarint(buf, pos), buf, m))

unmarshalWith(fs, buf) == unmarshalFrom(fs, buf, 1, zeroFields(fs))
unmarshal(type, buf) == unmarshalWith(Reads[type], buf)

EncodeVector(v) == Concat([i \in DOMAIN v |-> <<v[i], 0, 0, 0>>])
DecodeVector(b) == [i \in 1 .. Len(b) \div 4 |-> b[4 * i - 3]]
=============================================================================

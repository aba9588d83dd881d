------------------------------ MODULE Surfaces ------------------------------
(***************************************************************************)
(* The two request surfaces of the network server (package server): how a  *)
(* gRPC message or a JSON body becomes an operation on the database, and   *)
(* how the answer becomes a reply.  Server runs the operations.            *)
(*                                                                         *)
(* An "any" is a Go value of a payload or filter.  A double is twice its   *)
(* value, so that a half is a number; JSON text and net/http are external: *)
(* a REST body is the value it decodes to.                                 *)
(***************************************************************************)
EXTENDS Wire, Points, FiniteSets

CONSTANTS Tokens,       \* token -> its role and collections
          AuthMode, MaxUpsertBatch

(* Values.  "any" is <<kind>> or <<kind, value>>.                          *)
pbValueToAny(v) ==
  LET k == v.arm[1] IN
  CASE k = 1 -> <<"int", v.arm[2]>> [] k = 2 -> <<"float", v.arm[2]>> [] k = 3 -> <<"bool", v.arm[2]>>
    [] k = 4 -> <<"text", v.arm[2]>> [] k = 5 -> <<"bytes", v.arm[2]>> [] OTHER -> <<"null">>

anyToPBValue(a) ==
  [arm |-> CASE a[1] = "int" -> <<1, a[2]>> [] a[1] = "float" -> <<2, a[2]>> [] a[1] = "bool" -> <<3, a[2]>>
             [] a[1] = "text" -> <<4, a[2]>> [] a[1] = "bytes" -> <<5, a[2]>> [] OTHER -> <<0>>]

\* A JSON number decodes as a float64 whatever the client wrote.
jsonAny(a) == IF a[1] = "int" THEN <<"float", 2 * a[2]>> ELSE a

\* A whole float becomes an integer, over gRPC too; Nil: a JSON list or
\* object, which is no value.
toValue(a) ==
  CASE a[1] = "float" /\ a[2] % 2 = 0 -> <<"int", a[2] \div 2>> [] a[1] = "list" -> Nil [] OTHER -> a
toMeta(payload) == [c \in DOMAIN payload |-> toValue(payload[c])]

(* Points: an id, a vector and a payload; nil is absent.                   *)
pbToPoint(p) ==
  [id |-> p.id, vector |-> IF p.vector = Nil THEN Nil ELSE DecodeVector(p.vector[1].data),
   payload |-> [c \in DOMAIN p.payload |-> pbValueToAny(p.payload[c])]]

pointToPB(p) ==
  [id |-> p.id, vector |-> IF p.vector = Nil THEN Nil ELSE <<[data |-> EncodeVector(p.vector)]>>,
   payload |-> [c \in DOMAIN p.payload |-> anyToPBValue(p.payload[c])]]

scoredToPB(sp) == [point |-> <<pointToPB(sp)>>, score |-> sp.score, rank |-> sp.rank]

(* Metrics, index types and column types by name.                          *)
pbMetricName(m) == CASE m = 1 -> "l2" [] m = 2 -> "cosine" [] m = 3 -> "dot" [] m = 4 -> "hamming"
                     [] m = 5 -> "jaccard" [] OTHER -> ""
nameToPBMetric(s) == CASE s \in {"l2", "euclidean"} -> 1 [] s = "cosine" -> 2 [] s \in {"dot", "ip"} -> 3
                       [] s = "hamming" -> 4 [] s = "jaccard" -> 5 [] OTHER -> 0
\* metricName after parseMetric; Nil: unknown.
parseMetric(s) ==
  CASE s \in {"", "l2", "euclidean"} -> <<"l2">> [] s \in {"cosine", "cos"} -> <<"cosine">>
    [] s \in {"dot", "ip", "inner_product"} -> <<"dot">> [] s \in {"hamming", "jaccard"} -> <<s>>
    [] OTHER -> Nil
parseIndexType(s) ==
  CASE s = "hnsw" -> "hnsw" [] s \in {"ivfflat", "ivf"} -> "ivfflat" [] s = "ivfpq" -> "ivfpq"
    [] s = "diskann" -> "diskann" [] OTHER -> "flat"
parseColumnType(s) ==
  CASE s \in {"int", "int64", "bigint", "integer"} -> <<"int">>
    [] s \in {"float", "float64", "double", "real"} -> <<"float">>
    [] s \in {"bool", "boolean"} -> <<"bool">> [] s \in {"text", "string", "varchar"} -> <<"text">>
    [] s \in {"bytes", "blob", "bytea"} -> <<"bytes">> [] s \in {"json", "jsonb"} -> <<"json">>
    [] s \in {"timestamp", "timestamptz", "datetime"} -> <<"timestamp">> [] OTHER -> Nil

pbToConfig(c) == [dim |-> c.dim, metric |-> pbMetricName(c.metric), indexType |-> c.indexType,
                  columnTypes |-> c.columnTypes]
NoConfig == [dim |-> 0, metric |-> "", indexType |-> "", columnTypes |-> <<>>]

infoToPB(ci) ==
  [zero("CollectionInfo") EXCEPT !.name = ci.name, !.count = ci.count, !.indexState = "ready",
     !.config = <<[zero("CollectionConfig") EXCEPT !.dim = ci.config.dim,
                     !.metric = nameToPBMetric(ci.config.metric), !.indexType = ci.config.indexType,
                     !.columnTypes = ci.config.columnTypes]>>]

(* Filters: the neutral tree both surfaces lower to.                       *)
Leaf(field) == [must |-> <<>>, should |-> <<>>, mustNot |-> <<>>, field |-> field,
                range |-> Nil, match |-> Nil, isNull |-> Nil]

pbCondToNode(c) ==
  LET k == c.arm[1] n == Leaf(c.field) IN
  CASE k = 2 -> [n EXCEPT !.range = <<c.arm[2]>>]
    [] k = 3 -> [n EXCEPT !.match = <<IF c.arm[2].value = Nil THEN <<"null">>
                                      ELSE pbValueToAny(c.arm[2].value[1])>>]
    [] k = 4 -> [n EXCEPT !.isNull = <<c.arm[2].isNull>>]
    [] OTHER -> n

\* Nil: a filter with no clause set.
RECURSIVE pbFilterToNode(_)
pbFilterToNode(f) ==
  LET k == f.arm[1]
      children == [i \in DOMAIN f.arm[2].children |-> pbFilterToNode(f.arm[2].children[i])]
  IN CASE k = 1 -> [Leaf("") EXCEPT !.must = children]
       [] k = 2 -> [Leaf("") EXCEPT !.should = children]
       [] k = 3 -> [Leaf("") EXCEPT !.mustNot = children]
       [] k = 4 -> pbCondToNode(f.arm[2])
       [] OTHER -> Nil

\* jsonFilter.toNode: the same shape, any combination of clauses, null too; a
\* match value is a decoded JSON value.
NoNode(f) == DOMAIN f = {}
RECURSIVE toNode(_)
toNode(f) == IF NoNode(f) THEN Nil
             ELSE [f EXCEPT !.must = [i \in DOMAIN @ |-> toNode(@[i])],
                       !.should = [i \in DOMAIN @ |-> toNode(@[i])],
                       !.mustNot = [i \in DOMAIN @ |-> toNode(@[i])],
                       !.match = [i \in DOMAIN @ |-> jsonAny(@[i])]]

\* A WHERE text with ? placeholders and its arguments, or what stopped it:
\* the first error, or the panic on a clause that is nil.
Text(err, words, args) == [err |-> err, words |-> words, args |-> args]
NoText == Text("filter", <<>>, <<>>)
FirstErr(texts) == LET bad == SelectSeq(texts, LAMBDA t : t.err # "") IN IF bad = <<>> THEN "" ELSE bad[1].err
Joined(texts, sep) ==
  Text(FirstErr(texts),
       Concat([i \in DOMAIN texts |-> IF i = 1 THEN texts[i].words ELSE sep \o texts[i].words]),
       Concat([i \in DOMAIN texts |-> texts[i].args]))
\* Variant: the word before the parenthesis is left out.
ParensOnly(t, before) == [t EXCEPT !.words = <<"(">> \o @ \o <<")">>]
Parens(t, before) == [t EXCEPT !.words = before \o <<"(">> \o @ \o <<")">>]

leafExpr(n) ==
  LET r == n.range[1]
      Side(b, op) == IF b = Nil THEN <<>> ELSE <<Text("", <<n.field, op, "?">>, <<<<"float", b[1]>>>>)>>
  IN CASE n.field = "" -> NoText
       [] n.range # Nil -> Joined(Side(r.gt, ">") \o Side(r.gte, ">=") \o Side(r.lt, "<")
                                  \o Side(r.lte, "<="), <<"and">>)
       [] n.match # Nil -> Text("", <<n.field, "=", "?">>, n.match)
       [] n.isNull # Nil -> Text("", <<n.field, "is">> \o (IF n.isNull[1] THEN <<>> ELSE <<"not">>)
                                       \o <<"null">>, <<>>)
       [] OTHER -> NoText

RECURSIVE filterExpr(_)
joinClauses(clauses, sep) ==
  IF clauses = <<>> THEN <<>>
  ELSE <<Joined([i \in DOMAIN clauses |-> Parens(filterExpr(clauses[i]), <<>>)], sep)>>

filterExpr(n) ==
  IF NoNode(n) THEN Text("panic", <<>>, <<>>)
  ELSE IF n.must = <<>> /\ n.should = <<>> /\ n.mustNot = <<>> THEN leafExpr(n)
  ELSE Joined(joinClauses(n.must, <<"and">>) \o joinClauses(n.should, <<"or">>)
              \o [i \in DOMAIN n.mustNot |-> Parens(filterExpr(n.mustNot[i]), <<"not">>)], <<"and">>)

\* sqlLiteral; Nil: a value with no literal.
Numerals == <<"0", "1", "2", "3">>
Numeral(half) == IF half = 1 THEN "0.5" ELSE Numerals[half \div 2 + 1]
sqlLiteral(a) ==
  CASE a[1] = "int" -> IF a[2] < 0 THEN <<"-", Numeral(-2 * a[2])>> ELSE <<Numeral(2 * a[2])>>
    [] a[1] = "float" -> IF a[2] < 0 THEN <<"-", Numeral(-a[2])>> ELSE <<Numeral(a[2])>>
    [] a[1] = "bool" -> IF a[2] THEN <<"true">> ELSE <<"false">>
    [] a[1] = "text" -> IF a[2] = "a" THEN <<"'a'">> ELSE <<"'b'">>
    [] OTHER -> Nil

\* The i-th "?" becomes the i-th argument.
buildWhere(t) ==
  LET Nth(i) == Cardinality({j \in 1 .. i : t.words[j] = "?"})
      lits == [i \in DOMAIN t.args |-> sqlLiteral(t.args[i])]
  IN IF \E i \in DOMAIN lits : lits[i] = Nil THEN NoText
     ELSE Text("", Concat([i \in DOMAIN t.words |->
                 IF t.words[i] = "?" THEN lits[Nth(i)] ELSE <<t.words[i]>>]), <<>>)

\* The statement a filter is compiled into (Nil: there is no condition), then
\* the predicate it is for a collection with these columns; or the error.
Where(err, st) == [err |-> err, st |-> st]
Parsed(st) == IF st[1] = "error" THEN Where("schema", Nil) ELSE Where("", <<st>>)
Substituted(w) ==
  IF w.err # "" THEN Where("schema", Nil)
  ELSE Parsed(SQL!Parse(<<"select", "*", "from", "t", "where">> \o w.words
                        \o <<"order", "by", "embedding", "<->", "'[0]'", "limit", "1">>))
Condition(t) ==
  CASE t.err # "" -> Where(t.err, Nil) [] t.words = <<>> -> Where("", Nil) [] OTHER -> Substituted(buildWhere(t))
compileFilter(filter) == IF filter = Nil THEN Where("", Nil) ELSE Condition(filterExpr(filter[1]))

Schema(cols) == [vec |-> "embedding", dim |-> 1, id |-> "id", cols |-> cols]
Bound(err, pred) == [err |-> err, pred |-> pred]
Selected(b) == IF b.ok THEN Bound("", b.pred) ELSE Bound("schema", SQL!True)
bindSelect(where, cols) ==
  IF where.st = Nil THEN Bound(where.err, SQL!True) ELSE Selected(SQL!BindSelect(where.st[1], Schema(cols)))

(* Errors, by name; "" is success.                                         *)
grpcStatusFor(err) ==
  CASE err = "" -> 0 [] err = "notfound" -> 5 [] err = "exists" -> 6 [] err \in {"dim", "schema"} -> 3
    [] err = "conflict" -> 10 [] err = "readonly" -> 7 [] err = "busy" -> 14 [] OTHER -> 13
httpStatusFor(err) ==
  CASE err = "" -> 200 [] err = "notfound" -> 404 [] err \in {"exists", "conflict"} -> 409
    [] err \in {"dim", "schema"} -> 400 [] err = "readonly" -> 403 [] err = "busy" -> 503 [] OTHER -> 500

(* Requests.  A request names its surface, method, token and body; over    *)
(* gRPC also the order in which maps are written, fields unknown to the    *)
(* server, and whether the frame is whole.  A handler turns it into an     *)
(* engine operation, or refuses it with a status.                          *)
Do(op, name, arg) == [status |-> 0, op |-> op, name |-> name, arg |-> arg]
Refuse(status) == [status |-> status]

Reader == 1
ReadWrite == 2
Admin == 3
anonymous == [role |-> Admin, collections |-> {}]
\* verify; Nil: no identity.
verify(token) ==
  CASE AuthMode = "none" -> <<anonymous>>
    [] AuthMode = "token" /\ token \in DOMAIN Tokens -> <<Tokens[token]>>
    [] OTHER -> Nil
CanAccess(id, name) == id.collections = {} \/ name \in id.collections

\* The checks of a gRPC method once its message is decoded.
Checked(id, role, name, do) == IF id.role < role \/ ~CanAccess(id, name) THEN Refuse(7) ELSE do

grpcCreateCollection(id, m) ==
  Checked(id, Admin, m.name,
          Do("create", m.name, IF m.config = Nil THEN NoConfig ELSE pbToConfig(m.config[1])))
grpcDropCollection(id, m) == Checked(id, Admin, m.name, Do("drop", m.name, Nil))
grpcGetCollection(id, m) == Checked(id, 0, m.name, Do("info", m.name, Nil))
grpcListCollections(id, m) == Do("list", "", id)
grpcUpsert(id, m) ==
  Checked(id, ReadWrite, m.collection,
          IF Len(m.points) > MaxUpsertBatch THEN Refuse(3)
          ELSE Do("upsert", m.collection, [i \in DOMAIN m.points |-> pbToPoint(m.points[i])]))
grpcDelete(id, m) == Checked(id, ReadWrite, m.collection, Do("delete", m.collection, m.ids))
grpcGetPoints(id, m) ==
  Checked(id, 0, m.collection, Do("points", m.collection, [ids |-> m.ids, vec |-> m.withVectors,
                                                            pay |-> m.withPayload]))

\* ef_search, nprobe and index_name tune the search and are left out; k <= 0
\* means 10.
Search(name, vector, topK, filter) ==
  [name |-> name, vector |-> vector, k |-> IF topK <= 0 THEN 10 ELSE topK, filter |-> filter]
pbToQuery(name, m) ==
  Search(name, IF m.queryVector = Nil THEN <<>> ELSE DecodeVector(m.queryVector[1].data), m.topK,
         IF m.filter = Nil \/ m.filter[1].arm[1] = 0 THEN Nil ELSE <<pbFilterToNode(m.filter[1])>>)
grpcQuery(id, m) ==
  Checked(id, 0, m.collection, Do("query", m.collection, <<pbToQuery(m.collection, m)>>))
grpcBatchQuery(id, m) ==
  Checked(id, 0, m.collection,
    Do("query", m.collection, [i \in DOMAIN m.queries |->
         LET q == m.queries[i] IN pbToQuery(IF q.collection = "" THEN m.collection ELSE q.collection, q)]))
grpcStreamQuery(id, m) == IF m.request = Nil THEN Refuse(3) ELSE grpcQuery(id, m.request[1])
grpcReindex(id, m) == Checked(id, Admin, m.collection, Do("reindex", m.collection, Nil))
grpcVacuum(id, m) == IF id.role < Admin THEN Refuse(7) ELSE Do("vacuum", "", Nil)
grpcBackup(id, m) == IF id.role < Admin THEN Refuse(7) ELSE Do("backup", "", Nil)
grpcOperationStatus(id, m) == Do("status", "", m.operationID)
grpcHealth(m) == Do("health", "", Nil)

RequestOf ==
  [CreateCollection |-> "CreateCollectionRequest", DropCollection |-> "DropCollectionRequest",
   GetCollection |-> "GetCollectionRequest", ListCollections |-> "ListCollectionsRequest",
   Upsert |-> "UpsertRequest", Delete |-> "DeleteRequest", GetPoints |-> "GetPointsRequest",
   Query |-> "QueryRequest", BatchQuery |-> "BatchQueryRequest", StreamQuery |-> "StreamQueryRequest",
   Scroll |-> "ScrollRequest", Reindex |-> "ReindexRequest", Vacuum |-> "VacuumRequest",
   Backup |-> "BackupRequest", OperationStatus |-> "OperationStatusRequest", Health |-> "HealthRequest"]
ReplyOf ==
  [CreateCollection |-> "CreateCollectionResponse", DropCollection |-> "DropCollectionResponse",
   GetCollection |-> "GetCollectionResponse", ListCollections |-> "ListCollectionsResponse",
   Upsert |-> "UpsertResponse", Delete |-> "DeleteResponse", GetPoints |-> "GetPointsResponse",
   Query |-> "QueryResponse", BatchQuery |-> "BatchQueryResponse", StreamQuery |-> "StreamQueryResponse",
   Reindex |-> "ReindexResponse", Vacuum |-> "VacuumResponse", Backup |-> "BackupResponse",
   OperationStatus |-> "OperationStatusResponse", Health |-> "HealthResponse"]

dispatchGRPC(id, method, m) ==
  CASE method = "CreateCollection" -> grpcCreateCollection(id, m)
    [] method = "DropCollection" -> grpcDropCollection(id, m)
    [] method = "GetCollection" -> grpcGetCollection(id, m)
    [] method = "ListCollections" -> grpcListCollections(id, m)
    [] method = "Upsert" -> grpcUpsert(id, m) [] method = "Delete" -> grpcDelete(id, m)
    [] method = "GetPoints" -> grpcGetPoints(id, m) [] method = "Query" -> grpcQuery(id, m)
    [] method = "BatchQuery" -> grpcBatchQuery(id, m) [] method = "StreamQuery" -> grpcStreamQuery(id, m)
    [] method = "Reindex" -> grpcReindex(id, m) [] method = "Vacuum" -> grpcVacuum(id, m)
    [] method = "Backup" -> grpcBackup(id, m) [] method = "OperationStatus" -> grpcOperationStatus(id, m)
    [] OTHER -> Refuse(12)                                    \* Scroll, and any unknown method

\* A decoder that panics takes the connection with it.
Undecoded(m) == Refuse(IF m = Panic THEN -1 ELSE 3)

\* readGRPCMessage: a short or a compressed frame is refused.
serveGRPC(r, whole, m) ==
  LET id == verify(r.token) IN
  CASE r.method = "Health" -> IF ~whole THEN Refuse(13) ELSE IF m.ok THEN grpcHealth(m.val) ELSE Undecoded(m)
    [] id = Nil -> Refuse(16)
    [] ~whole -> Refuse(13)
    [] r.method # "Scroll" /\ ~m.ok -> Undecoded(m)
    [] OTHER -> dispatchGRPC(id[1], r.method, m.val)

(* REST.  A request names its handler and carries the {name} of its path.  *)
roleOf ==
  [CreateCollection |-> Admin, ListCollections |-> Reader, GetCollection |-> Reader,
   DropCollection |-> Admin, Upsert |-> ReadWrite, GetPoint |-> Reader, GetPoints |-> Reader,
   DeletePoint |-> ReadWrite, DeletePoints |-> ReadWrite, Query |-> Reader, Scroll |-> Reader,
   Reindex |-> Admin, Vacuum |-> Admin, Backup |-> Admin, Operation |-> Reader]

jsonPoint(p) == [p EXCEPT !.payload = [c \in DOMAIN @ |-> jsonAny(@[c])]]

handleCreateCollection(b) == Do("create", b.name, b.config)
handleListCollections(id) == Do("list", "", id)
handleGetCollection(name) == Do("info", name, Nil)
handleDropCollection(name) == Do("drop", name, Nil)
handleUpsert(name, b) ==
  IF Len(b) > MaxUpsertBatch THEN Refuse(400)
  ELSE Do("upsert", name, [i \in DOMAIN b |-> jsonPoint(b[i])])
\* The id of the path; Nil: not a number.
handleGetPoint(name, id) ==
  IF id = Nil THEN Refuse(400) ELSE Do("points", name, [ids |-> id, vec |-> TRUE, pay |-> TRUE])
\* with_vectors and with_payload are decoded and not looked at.
handleGetPoints(name, ids) == Do("points", name, [ids |-> ids, vec |-> TRUE, pay |-> TRUE])
handleDeletePoint(name, id) == IF id = Nil THEN Refuse(400) ELSE Do("delete", name, id)
handleDeletePoints(name, ids) == Do("delete", name, ids)
handleQuery(name, b) ==
  Do("query", name, <<Search(name, b.vector, b.topK, IF b.filter = Nil THEN Nil ELSE <<toNode(b.filter[1])>>)>>)
handleScroll == Refuse(501)
handleReindex(name) == Do("reindex", name, Nil)
handleVacuum == Do("vacuum", "", Nil)
handleBackup == Do("backup", "", Nil)
handleOperation(id) == Do("status", "", id)

handled(id, r) ==
  LET m == r.method IN
  CASE m = "CreateCollection" -> handleCreateCollection(r.body)
    [] m = "ListCollections" -> handleListCollections(id)
    [] m = "GetCollection" -> handleGetCollection(r.name)
    [] m = "DropCollection" -> handleDropCollection(r.name)
    [] m = "Upsert" -> handleUpsert(r.name, r.body)
    [] m = "GetPoint" -> handleGetPoint(r.name, r.body) [] m = "GetPoints" -> handleGetPoints(r.name, r.body)
    [] m = "DeletePoint" -> handleDeletePoint(r.name, r.body)
    [] m = "DeletePoints" -> handleDeletePoints(r.name, r.body)
    [] m = "Query" -> handleQuery(r.name, r.body) [] m = "Scroll" -> handleScroll
    [] m = "Reindex" -> handleReindex(r.name) [] m = "Vacuum" -> handleVacuum
    [] m = "Backup" -> handleBackup [] m = "Operation" -> handleOperation(r.body)

\* withAuth, then the handler; Health and Ready skip it.
restHandler(r) ==
  LET id == verify(r.token) IN
  CASE r.method \in {"Health", "Ready"} -> Do("health", "", Nil)
    [] id = Nil -> Refuse(401)
    [] id[1].role < roleOf[r.method] \/ (r.name # "" /\ ~CanAccess(id[1], r.name)) -> Refuse(403)
    [] r.frame = "torn" -> Refuse(400)
    [] OTHER -> handled(id[1], r)

(* The bytes of a gRPC request, and what the server makes of them: the     *)
(* message in the order its maps were ranged over, then fields it does not *)
(* know; a torn message lost its last byte.                                *)
bytesOf(r) ==
  LET b == marshal(RequestOf[r.method], r.body, r.rev) \o r.extra IN
  IF r.frame = "torn" THEN Front(b) ELSE b
Decode(r) == unmarshal(RequestOf[r.method], bytesOf(r))
Handle(r) == IF r.proto = "rest" THEN restHandler(r) ELSE serveGRPC(r, r.frame # "short", Decode(r))

(* Replies: the messages a gRPC method marshals, in order.                 *)
QueryReply(rs) == [zero("QueryResponse") EXCEPT !.results = [i \in DOMAIN rs |-> scoredToPB(rs[i])],
                                                 !.strategyUsed = "ann"]
pageOf(r) == IF r.body.pageSize = 0 THEN 100 ELSE r.body.pageSize

streamPages(rs, page) ==
  LET n == (Len(rs) + page - 1) \div page
      upto(i) == IF i * page < Len(rs) THEN i * page ELSE Len(rs)
  IN [i \in 1 .. n + 1 |->
       IF i > n THEN [results |-> <<>>, done |-> TRUE, totalSent |-> Len(rs)]
       ELSE [results |-> [j \in 1 .. upto(i) - (i - 1) * page |-> scoredToPB(rs[(i - 1) * page + j])],
             done |-> FALSE, totalSent |-> upto(i)]]

messagesOf(m, r, v, Z) ==
  CASE m \in {"CreateCollection", "GetCollection"} -> <<[info |-> <<infoToPB(v)>>]>>
    [] m = "ListCollections" -> <<[collections |-> [i \in DOMAIN v |-> infoToPB(v[i])]]>>
    [] m = "DropCollection" -> <<[dropped |-> TRUE]>>
    [] m = "Upsert" -> <<[Z EXCEPT !.upserted = v]>> [] m = "Delete" -> <<[deleted |-> v]>>
    [] m = "GetPoints" -> <<[points |-> [i \in DOMAIN v |-> pointToPB(v[i])]]>>
    [] m = "Query" -> <<QueryReply(v[1])>>
    [] m = "BatchQuery" -> <<[results |-> [i \in DOMAIN v |-> QueryReply(v[i])]]>>
    [] m = "StreamQuery" -> streamPages(v[1], pageOf(r))
    [] m = "Reindex" -> <<[operationID |-> v]>>
    [] m = "OperationStatus" -> <<[operationID |-> v.id, state |-> v.state,
                                   progress |-> IF v.state = "done" THEN 2 ELSE 0, error |-> v.err]>>
    [] m = "Health" -> <<[Z EXCEPT !.status = "ok"]>>
    [] OTHER -> <<Z>>                                         \* Vacuum frees nothing
messages(r, v) == messagesOf(r.method, r, v, zero(ReplyOf[r.method]))

\* What the client reads of them.
Received(r, ms) ==
  [i \in DOMAIN ms |-> unmarshal(ReplyOf[r.method], marshal(ReplyOf[r.method], ms[i], r.rev)).val]
statusOf(r, err) ==
  IF r.proto = "grpc" THEN grpcStatusFor(err)
  ELSE IF err = "" /\ r.method = "CreateCollection" THEN 201 ELSE httpStatusFor(err)
=============================================================================

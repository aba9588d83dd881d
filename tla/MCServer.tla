------------------------------ MODULE MCServer ------------------------------
(***************************************************************************)
(* Small instances of Server: two or three calls of a plan, over a         *)
(* collection "a" of two points, with an index or without, and a name "z"  *)
(* that is free.                                                           *)
(***************************************************************************)
EXTENDS Server

MCCalls == {"c1", "c2", "c3"}
MCTokens == [adm |-> [role |-> Admin, collections |-> {}],
             some |-> [role |-> ReadWrite, collections |-> {"z"}]]

Words == <<"a", "b", "z", "x", "t", "f", "hnsw", "diskann", "flat", "int", "int64", "text", "float64", "bool",
           "float", "ann", "ready", "ok", "pending", "running", "done", "failed", "op-1", "op-2", "canceled",
           "notfound", "closed", "build", "unsupported", "ef_search", "json", "timestamp">>
MCSpelling == [w \in {""} \cup Range(Words) |->
                 IF w = "" THEN <<>> ELSE LET i == CHOOSE i \in DOMAIN Words : Words[i] = w IN
                 IF i % 2 = 0 THEN <<i>> ELSE <<200 + i \div 2, i>>]

(* Collections.                                                            *)
Slot(id, vec, x, t, f) ==
  [id |-> id, vec |-> vec, dead |-> FALSE, meta |-> [x |-> x, t |-> t, f |-> f, b |-> <<"bool", FALSE>>]]
CollA == [NewCollection(1, "l2", [x |-> "int", t |-> "text", f |-> "float", b |-> "bool"], {}) EXCEPT
            !.slots = <<Slot(1, <<1>>, <<"int", 1>>, <<"text", "a">>, <<"float", 1>>),
                        Slot(2, <<2>>, <<"null">>, <<"text", "b">>, <<"int", 1>>)>>,
            !.map = 1 :> 1 @@ 2 :> 2, !.seq = 3]
Indexed == [CollA EXCEPT !.named = TRUE, !.idxType = "hnsw"]

(* Requests.                                                               *)
G(method, fields) ==
  [proto |-> "grpc", method |-> method, token |-> "adm", name |-> "", rev |-> FALSE, extra |-> <<>>,
   frame |-> "whole", body |-> fields]
R(method, name, body) ==
  [proto |-> "rest", method |-> method, token |-> "adm", name |-> name, body |-> body, frame |-> "whole"]

P(id, vec, payload) == [id |-> id, vector |-> vec, payload |-> payload]
PB(id, vec, payload) == pointToPB(P(id, vec, payload))
None == [c \in {} |-> 0]
Full(x) == [x |-> <<"int", x>>, t |-> <<"text", "b">>, f |-> <<"float", 1>>, b |-> <<"bool", FALSE>>]

V(a) == [arm |-> a]
Cond(field, num, test) == [arm |-> <<4, [field |-> field, arm |-> <<num, test>>]>>]
RangeOf(gt, gte, lt, lte) == [gt |-> gt, gte |-> gte, lt |-> lt, lte |-> lte]
XHigh == Cond("x", 2, RangeOf(<<1>>, Nil, Nil, <<4>>))
FHalf == Cond("f", 2, RangeOf(Nil, <<1>>, <<2>>, Nil))
TIsB == Cond("t", 3, [value |-> <<V(<<4, "b">>)>>])
XNull == Cond("x", 4, [isNull |-> TRUE])
Combine(num, fs) == [arm |-> <<num, [children |-> fs]>>]
Ask1(filter) == [collection |-> "a", queryVector |-> <<[data |-> EncodeVector(<<2>>)]>>, topK |-> 2, filter |-> filter]
Clause(must, should, mustNot) == [Leaf("") EXCEPT !.must = must, !.should = should, !.mustNot = mustNot]
XEq(v) == [Leaf("x") EXCEPT !.match = <<v>>]
TEq(v) == [Leaf("t") EXCEPT !.match = <<v>>]
JQuery(filter) == [vector |-> <<1>>, topK |-> 0, filter |-> filter]

Requests ==
  [up |-> [G("Upsert", [collection |-> "a", wait |-> TRUE,
             points |-> <<PB(5, <<3>>, Full(1)), PB(1, <<4>>, Full(300))>>]) EXCEPT !.rev = TRUE],
   upAuto |-> G("Upsert", [collection |-> "a", points |-> <<PB(0, <<3>>, [x |-> <<"float", 4>>])>>]),
   upBad |-> G("Upsert", [collection |-> "a", points |-> <<PB(1, <<5>>, None), PB(6, <<5, 5>>, None)>>]),
   upNil |-> G("Upsert", [collection |-> "a", points |-> <<PB(6, Nil, None)>>]),
   upBig |-> G("Upsert", [collection |-> "a", points |-> <<PB(6, <<5>>, None), PB(7, <<5>>, None), PB(8, <<5>>, None)>>]),
   upZ |-> G("Upsert", [collection |-> "z", points |-> <<PB(1, <<6>>, [x |-> <<"int", -1>>])>>]),
   del |-> G("Delete", [collection |-> "a", ids |-> <<1, 200>>]),
   get |-> [G("GetPoints", [collection |-> "a", ids |-> <<5, 1>>, withVectors |-> TRUE, withPayload |-> TRUE])
              EXCEPT !.extra = <<122, 1, 7, 121, 1, 2, 3, 4, 5, 6, 7, 8, 125, 1, 2, 3, 4, 120, 200, 1>>],
   getZ |-> G("GetPoints", [collection |-> "z", ids |-> <<1>>, withPayload |-> TRUE, withVectors |-> TRUE]),
   create |-> G("CreateCollection", [name |-> "z",
                config |-> <<[dim |-> 1, metric |-> 1, indexType |-> "hnsw", indexParams |-> [ef_search |-> "a"],
                              columnTypes |-> [x |-> "int", t |-> "text"]]>>]),
   createNo |-> G("CreateCollection", [name |-> "z"]),
   drop |-> G("DropCollection", [name |-> "a"]),
   info |-> G("GetCollection", [name |-> "a"]),
   list |-> G("ListCollections", None),
   query |-> G("Query", Ask1(<<Combine(1, <<XHigh, TIsB>>)>>)),
   queryAny |-> G("Query", Ask1(<<Combine(2, <<FHalf, Combine(3, <<TIsB, XNull>>)>>)>>)),
   queryNil |-> G("Query", Ask1(<<Combine(1, <<XNull, [arm |-> <<0>>]>>)>>)),
   queryErr |-> G("Query", Ask1(<<Cond("", 4, [isNull |-> TRUE])>>)),
   batch |-> G("BatchQuery", [collection |-> "a",
               queries |-> <<Ask1(Nil),
                             [collection |-> "z"] @@ Ask1(<<XNull>>)>>]),
   stream |-> G("StreamQuery", [request |-> <<[topK |-> 3] @@ Ask1(Nil)>>, pageSize |-> 2]),
   reindex |-> G("Reindex", [collection |-> "a", params |-> [ef_search |-> "a"]]),
   vacuum |-> G("Vacuum", [collection |-> "a", aggressive |-> TRUE]),
   backup |-> G("Backup", [destPath |-> "a"]),
   status |-> G("OperationStatus", [operationID |-> "op-1"]),
   health |-> G("Health", None),
   scroll |-> G("Scroll", [collection |-> "a", limit |-> 7]),
   torn |-> [G("Upsert", [collection |-> "a", points |-> <<PB(6, <<9>>, Full(2))>>]) EXCEPT !.frame = "torn"],
   short |-> [G("Delete", [collection |-> "a", ids |-> <<1>>]) EXCEPT !.frame = "short"],
   denied |-> [G("Delete", [collection |-> "a", ids |-> <<1>>]) EXCEPT !.token = "some"],
   nobody |-> [G("Vacuum", None) EXCEPT !.token = ""],
   upR |-> R("Upsert", "a", <<P(5, <<7>>, [x |-> <<"int", 2>>, f |-> <<"null">>, z |-> <<"int", 1>>])>>),
   upList |-> R("Upsert", "a", <<P(7, <<9>>, [t |-> <<"list">>])>>),
   upType |-> R("Upsert", "a", <<P(7, <<8>>, [t |-> <<"int", 1>>])>>),
   getR |-> R("GetPoints", "a", <<1, 5>>),
   getOne |-> R("GetPoint", "a", <<5>>),
   getBad |-> R("GetPoint", "a", Nil),
   delR |-> R("DeletePoints", "a", <<1, 2>>),
   delOne |-> R("DeletePoint", "a", <<2>>),
   createR |-> R("CreateCollection", "", [name |-> "z", config |-> [dim |-> 1, metric |-> "cos",
                  indexType |-> "diskann", columnTypes |-> [x |-> "jsonb", t |-> "timestamp"]]]),
   createBad |-> R("CreateCollection", "", [name |-> "z", config |-> [NoConfig EXCEPT !.dim = 1, !.metric = "b"]]),
   listR |-> R("ListCollections", "", Nil),
   dropR |-> R("DropCollection", "z", Nil),
   infoR |-> R("GetCollection", "z", Nil),
   queryR |-> R("Query", "a", JQuery(<<Clause(<<XEq(<<"int", 1>>)>>, <<>>, <<TEq(<<"text", "b">>)>>)>>)),
   queryMix |-> R("Query", "a", JQuery(<<Clause(<<XEq(<<"int", 3>>)>>, <<TEq(<<"text", "a">>), TEq(<<"text", "b">>)>>, <<>>)>>)),
   queryCol |-> R("Query", "a", JQuery(<<[Leaf("z") EXCEPT !.isNull = <<FALSE>>]>>)),
   reindexR |-> R("Reindex", "a", Nil),
   vacuumR |-> R("Vacuum", "", Nil), backupR |-> R("Backup", "", Nil),
   statusR |-> R("Operation", "", "op-2"),
   ready |-> R("Ready", "", Nil),
   scrollR |-> R("Scroll", "a", Nil),
   tornR |-> [R("Upsert", "a", <<>>) EXCEPT !.frame = "torn"],
   nobodyR |-> [R("Vacuum", "", Nil) EXCEPT !.token = ""],
   deniedR |-> [R("Scroll", "a", Nil) EXCEPT !.token = "some"],
   upTrue |-> G("Upsert", [collection |-> "a", points |-> <<PB(5, <<3>>, [b |-> <<"bool", TRUE>>])>>])]

\* Fields that are not given are zero, of a query within a message too.
Whole(fields, type) == fields @@ zero(type)
Filled(r) ==
  IF r.proto = "rest" THEN r
  ELSE [r EXCEPT !.body = Whole(
          CASE r.method = "BatchQuery" -> [@ EXCEPT !.queries = [i \in DOMAIN @ |-> Whole(@[i], "QueryRequest")]]
            [] r.method = "StreamQuery" -> [@ EXCEPT !.request = [i \in DOMAIN @ |-> Whole(@[i], "QueryRequest")]]
            [] OTHER -> @, RequestOf[r.method])]
Messages == [n \in DOMAIN Requests |-> Filled(Requests[n])]
MCAsk == [n \in DOMAIN Messages |-> Messages[n]]
Answers == [n \in DOMAIN Messages |-> Handle(Messages[n])]
MCHandled == [n \in DOMAIN Messages |-> Answers[n]]

Start(a, b, c, besides) ==
  [plan |-> [c1 |-> a, c2 |-> b, c3 |-> c], colls |-> [a |-> <<"g">>, z |-> Nil],
   heap |-> [g |-> CollA], ro |-> FALSE, may |-> besides]
WithIndex(s) == [s EXCEPT !.heap.g = Indexed]
ReadOnly(s) == [s EXCEPT !.ro = TRUE]

Plans ==
  <<Start("up", "getR", "nobody", {"stop"}),               \* the pipeline and Stop
   Start("upR", "del", "torn", {"stop", "leave"}),
   Start("up", "get", "delR", {"lock"}),                  \* clients against each other
   Start("upBad", "getOne", "upR", {"leave"}),
   Start("upAuto", "delOne", "getR", {}),
   Start("upType", "upNil", "upBig", {}),
   Start("create", "upZ", "getZ", {"leave"}),
   Start("createR", "list", "dropR", {"leave"}),
   Start("createNo", "createBad", "infoR", {"stop"}),
   Start("drop", "up", "info", {}),
   Start("drop", "del", "listR", {}),
   Start("query", "up", "queryR", {}),
   Start("queryAny", "stream", "upAuto", {"leave"}),
   Start("batch", "queryAny", "health", {"stop"}),
   Start("queryErr", "create", "queryCol", {}),
   Start("queryMix", "queryNil", "upList", {}),
   Start("upTrue", "getOne", "queryMix", {}),
   WithIndex(Start("reindex", "reindexR", "status", {"leave"})),
   WithIndex(Start("reindex", "drop", "statusR", {"stop"})),
   WithIndex(Start("up", "query", "reindex", {})),
   Start("reindex", "vacuum", "health", {"stop"}),
   Start("backup", "vacuumR", "ready", {}),
   Start("backupR", "scroll", "scrollR", {}),
   Start("short", "denied", "deniedR", {}), Start("getBad", "tornR", "batch", {"leave"}),
   ReadOnly(Start("up", "create", "nobodyR", {"stop"})),
   ReadOnly(Start("delR", "drop", "createR", {}))>>
MCStarts == Range(Plans)
=============================================================================

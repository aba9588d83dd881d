------------------------------- MODULE PgWire -------------------------------
(***************************************************************************)
(* The PostgreSQL server (package server/pgwire): Serve and its            *)
(* connections, the startup exchange, the simple and the extended query    *)
(* protocol, transaction blocks, and the statements run on the open        *)
(* database.  A connection is served by its own goroutine; its steps are   *)
(* the points where it waits for its client or takes a lock of the facade. *)
(*                                                                         *)
(* A client sends the messages of its script in order and may go away.     *)
(* Beside a statement it carries what it means ("means"), rows to be       *)
(* there, changed or gone; "must" gathers what was acknowledged.           *)
(***************************************************************************)
EXTENDS PgText

CONSTANTS Conns,
          Starts        \* initial states: a script per connection, the auth mode, the tables, read-only
                        \* or not, and what may happen besides: "leave", "stop", "fail"

VARIABLES script, auth, ro, may,
          conn,         \* the connections
          colls, heap,  \* db.colls: name -> the table it is bound to; the tables
          tx,           \* the holder of db.writeMu and what its transaction did
          live, serve,  \* Serve's context; the accept loop
          must          \* <<table, id>> -> <<row>>, or Nil once deleted
fixed == <<script, auth, ro, may>>
store == <<colls, heap, tx, must>>
life == <<live, serve>>
vars == <<fixed, conn, store, life>>

(* Tables.                                                                 *)
Table(name) == IF name \in DOMAIN colls THEN colls[name] ELSE Nil
info(name) == heap[Table(name)[1]]
Row(vector, meta) == [vector |-> vector, meta |-> meta]
Get(co, id) ==
  IF id \in DOMAIN co.map /\ co.map[id] \in Live(co)
  THEN <<Row(co.slots[co.map[id]].vec, co.slots[co.map[id]].meta)>> ELSE Nil

NoTx == [owner |-> Nil, block |-> FALSE, was |-> EmptyMap, ids |-> {}, saved |-> EmptyMap, dirty |-> {}]
Begun(c, block) ==
  [owner |-> <<c>>, block |-> block, ids |-> {}, saved |-> must, dirty |-> {},
   was |-> [g \in DOMAIN heap |-> [slots |-> heap[g].slots, map |-> heap[g].map]]]

(* What the client is owed.                                                *)
Without(m, keys) == Restrict(m, DOMAIN m \ keys)
Effect(means, id) == {e \in Range(means) : e.id = id}
Became(g, id, e) ==
  CASE e.op = "delete" -> Nil
    [] e.op = "insert" -> <<Row(e.vector, [c \in DOMAIN heap[g].cols |->
                                             IF c \in DOMAIN e.set THEN e.set[c] ELSE <<"null">>])>>
    [] e.op = "update" -> <<Row(IF e.vector = <<>> THEN must[<<g, id>>][1].vector ELSE e.vector,
                                e.set @@ must[<<g, id>>][1].meta)>>
\* The rows a finished statement wrote; one that nobody can vouch for is left out.
Known(x, means) ==
  \E e \in Effect(means, x[2]) : e.op = "update" => x \in DOMAIN must /\ must[x] # Nil
Owed(keys, means) ==
  LET known == {x \in keys : Known(x, means)} IN
  [x \in known |-> Became(x[1], x[2], CHOOSE e \in Effect(means, x[2]) : TRUE)] @@ Without(must, keys)
RolledBack == Without(tx.saved, tx.ids)

(* Output: buffered until flushed.                                         *)
Say(k, msgs) == [k EXCEPT !.out = @ \o msgs]
Flush(k) == [k EXCEPT !.wire = @ \o k.out, !.out = <<>>]
ready(k) == Flush(Say(k, <<<<"Z", k.state>>>>))

\* The loop looks at its context before each message.
Loop(k) == [k EXCEPT !.pc = IF live THEN "read" ELSE "closing"]
Close(k) == [k EXCEPT !.pc = "closing"]
fatalf(k, code) == Close(Flush(Say(k, <<<<"E", code>>>>)))
extendedError(k, code) ==
  Loop([Say(k, <<<<"E", code>>>>) EXCEPT !.state = IF @ = "T" THEN "E" ELSE @])

\* The end of a statement: in a simple query the next one follows.
NoJob == [st |-> Nil]
Idle(k) == [k EXCEPT !.job = NoJob]
Succeed(k, msgs) ==
  IF k.mode = "ext" THEN Loop(Idle(Say(k, msgs)))
  ELSE IF k.todo # <<>> THEN [Idle(Say(k, msgs)) EXCEPT !.pc = "run"] ELSE Loop(ready(Idle(Say(k, msgs))))
Refuse(k, code) ==
  IF k.mode = "ext" THEN extendedError(Idle(k), code)
  ELSE Loop(ready([extendedError(Idle(k), code) EXCEPT !.todo = <<>>]))
Complete(k, tag) == Succeed(k, <<<<"C", tag>>>>)

Set(c, k) == conn' = [conn EXCEPT ![c] = k]
Goto(c, k, pc) == Set(c, [k EXCEPT !.pc = pc])

New == [pc |-> "new", at |-> 1, gone |-> FALSE, user |-> "", database |-> "db", stmts |-> EmptyMap,
        portals |-> EmptyMap, session |-> EmptyMap, state |-> "I", txn |-> FALSE, mode |-> "ext",
        todo |-> <<>>, job |-> NoJob, out |-> <<>>, wire |-> <<>>]

Init ==
  \E s \in Starts :
    /\ script = s.script /\ auth = s.auth /\ ro = s.ro /\ may = s.may
    /\ conn = [c \in Conns |-> New]
    /\ colls = s.colls /\ heap = s.heap /\ must = s.must /\ tx = NoTx
    /\ live = TRUE /\ serve = "accept"

(* Serve.                                                                  *)
AcceptConn(c) ==
  /\ serve = "accept" /\ conn[c].pc = "new" /\ ~conn[c].gone
  /\ Goto(c, conn[c], "startup")
  /\ UNCHANGED <<fixed, store, life>>

Cancel ==
  /\ "stop" \in may /\ live /\ live' = FALSE
  /\ UNCHANGED <<fixed, conn, store, serve>>
\* Variant: the end of the context is not noticed.
AcceptFailsAlone ==
  /\ serve = "accept" /\ live /\ "fail" \in may /\ serve' = "returned"
  /\ UNCHANGED <<fixed, conn, store, live>>
\* Accept fails: the listener was closed after the context, or by itself.
AcceptFails ==
  /\ serve = "accept"
  /\ \/ ~live /\ serve' = "wait"
     \/ live /\ "fail" \in may /\ serve' = "returned"
  /\ UNCHANGED <<fixed, conn, store, live>>
Serve ==
  /\ serve = "wait" /\ \A c \in Conns : conn[c].pc \in {"new", "done"}
  /\ serve' = "returned"
  /\ UNCHANGED <<fixed, conn, store, live>>

\* The client goes away; the connection notices when it reads.
Leave(c) ==
  /\ "leave" \in may /\ ~conn[c].gone
  /\ Set(c, [conn[c] EXCEPT !.gone = TRUE])
  /\ UNCHANGED <<fixed, store, life>>
HangUp(c) ==
  /\ conn[c].gone /\ conn[c].pc \in {"startup", "password", "read"}
  /\ Set(c, Close(conn[c]))
  /\ UNCHANGED <<fixed, store, life>>

closeTxn(c, k) ==
  /\ Set(c, [k EXCEPT !.txn = FALSE, !.state = "I"])
  /\ IF conn[c].txn THEN heap' = Undone(heap, tx.was, tx.ids) /\ tx' = NoTx /\ must' = RolledBack
     ELSE UNCHANGED <<heap, tx, must>>
  /\ UNCHANGED colls

\* serve returns: closeTxn, then the socket; what is buffered is lost.
EndConn(c) ==
  /\ conn[c].pc = "closing"
  /\ closeTxn(c, [conn[c] EXCEPT !.pc = "done", !.out = <<>>])
  /\ UNCHANGED <<fixed, life>>

(* Startup.                                                                *)
Coming(c) == conn[c].at <= Len(script[c])
Message(c) == script[c][conn[c].at]
Next1(c) == [conn[c] EXCEPT !.at = @ + 1]

sendStartupStatus(k) == Loop(ready(Say(k, <<<<"R", "ok">>, <<"S">>, <<"K">>>>)))
authenticate(k) ==
  CASE auth \in {"", "none", "trust"} -> sendStartupStatus(k)
    [] auth \in {"password", "md5", "cleartext"} ->
         [Flush(Say(k, <<<<"R", "cleartext">>>>)) EXCEPT !.pc = "password"]
    [] OTHER -> fatalf(k, "28P01")
startup(c) ==
  /\ conn[c].pc = "startup" /\ Coming(c)
  /\ LET m == Message(c)
         k == Next1(c)
     IN Set(c, CASE ~m.whole \/ m.code = "cancel" -> Close(k)
                 [] m.whole /\ m.code \in {"ssl", "gss"} -> Flush(Say(k, <<<<"N">>>>))
                 [] m.whole /\ m.code = "v3" -> authenticate([k EXCEPT !.user = IF m.user = "" THEN "vec" ELSE m.user])
                 [] OTHER -> fatalf(k, "08P01"))
  /\ UNCHANGED <<fixed, store, life>>
readPassword(c) ==
  /\ conn[c].pc = "password" /\ Coming(c)
  /\ LET m == Message(c)
         k == Next1(c)
     IN Set(c, CASE m.tag # "p" \/ ~m.whole -> Close(k)
                 [] m.tag = "p" /\ m.whole /\ ~m.ok -> fatalf(k, "28P01")
                 [] OTHER -> sendStartupStatus(k))
  /\ UNCHANGED <<fixed, store, life>>

(* Messages.  A body that ends early ends the connection.                  *)
Todo(sqls, means) == [i \in DOMAIN sqls |-> [sql |-> sqls[i], means |-> IF i <= Len(means) THEN means[i] ELSE <<>>]]
\* Variant: an empty query is not followed by ReadyForQuery.
handleSimpleQueryNotReady(k, m) ==
  LET todo == Todo(splitStatements(m.sql), m.means) IN
  CASE m.sql = <<>> -> Loop(Flush(Say(k, <<<<"I">>>>)))
    [] m.sql # <<>> /\ todo = <<>> -> Loop(Flush(k))
    [] OTHER -> [k EXCEPT !.pc = "run", !.mode = "simple", !.todo = todo]
handleSimpleQuery(k, m) ==
  LET todo == Todo(splitStatements(m.sql), m.means) IN
  CASE m.sql = <<>> -> Loop(ready(Say(k, <<<<"I">>>>)))
    [] m.sql # <<>> /\ todo = <<>> -> Loop(ready(k))
    [] OTHER -> [k EXCEPT !.pc = "run", !.mode = "simple", !.todo = todo]

handleParse(k, m) ==
  Loop(Say([k EXCEPT !.stmts = (m.name :> [sql |-> m.sql, oids |-> m.oids]) @@ @], <<<<"1">>>>))

Bound(k, m, sub) ==
  IF sub.err # "" THEN extendedError(k, sub.err)
  ELSE Loop(Say([k EXCEPT !.portals = (m.portal :> [sql |-> sub.words, means |-> m.means]) @@ @], <<<<"2">>>>))
handleBind(k, m) ==
  CASE m.stmt \notin DOMAIN k.stmts -> extendedError(k, "26000")
    [] m.stmt \in DOMAIN k.stmts /\ ~m.whole -> Close(k)
    [] OTHER -> Bound(k, m, substituteParams(k.stmts[m.stmt].sql, m.values, m.formats, k.stmts[m.stmt].oids))

handleDescribe(k, m) ==
  CASE m.kind = "S" /\ m.name \notin DOMAIN k.stmts -> extendedError(k, "26000")
    [] m.kind = "S" /\ m.name \in DOMAIN k.stmts ->
         Loop(Say(k, <<<<"t", inferParamOIDs(k.stmts[m.name].sql, k.stmts[m.name].oids)>>, <<"n">>>>))
    [] OTHER -> Loop(Say(k, <<<<"n">>>>))

handleExecute(k, m) ==
  IF m.portal \notin DOMAIN k.portals THEN extendedError(k, "34000")
  ELSE [k EXCEPT !.pc = "run", !.mode = "ext", !.todo = <<k.portals[m.portal]>>]

handleClose(k, m) ==
  Loop(Say(CASE m.kind = "S" -> [k EXCEPT !.stmts = Without(@, {m.name})]
             [] m.kind = "P" -> [k EXCEPT !.portals = Without(@, {m.name})]
             [] OTHER -> k, <<<<"3">>>>))

\* Variant: Sync leaves the block state.
syncResetAlways(k) == IF k.state # "E" THEN [k EXCEPT !.state = "I"] ELSE k
syncReset(k) == IF k.state # "E" /\ ~k.txn THEN [k EXCEPT !.state = "I"] ELSE k

handle(k, m) ==
  CASE m.tag = "B" -> handleBind(k, m)
    [] m.tag # "B" /\ ~m.whole -> Close(k)
    [] m.tag = "Q" /\ m.whole -> handleSimpleQuery(k, m)
    [] m.tag = "P" /\ m.whole -> handleParse(k, m)
    [] m.tag = "D" /\ m.whole -> handleDescribe(k, m)
    [] m.tag = "E" /\ m.whole -> handleExecute(k, m)
    [] m.tag = "S" /\ m.whole -> Loop(ready(syncReset(k)))
    [] m.tag = "H" /\ m.whole -> Loop(Flush(k))
    [] m.tag = "C" /\ m.whole -> handleClose(k, m)
    [] m.tag = "X" /\ m.whole -> Close(k)
    [] OTHER -> extendedError(k, "08P01")
Read(c) ==
  /\ conn[c].pc = "read" /\ Coming(c)
  /\ Set(c, handle(Next1(c), Message(c)))
  /\ UNCHANGED <<fixed, store, life>>

(* Statements.                                                             *)
Stage == [select |-> "describe", insert |-> "plan", update |-> "plan", delete |-> "resolve",
          createtable |-> "ddl", createindex |-> "ddl", droptable |-> "ddl", dropindex |-> "ddl"]
TableOf(st) == CASE st[1] = "select" -> st[4][1] [] st[1] \in {"insert", "update", "delete"} -> st[2][1] [] OTHER -> ""
WhereOf(st) == CASE st[1] = "update" -> st[4] [] st[1] = "delete" -> st[3]

Job(st, means) ==
  [st |-> st, means |-> means, table |-> TableOf(st), cols |-> <<>>, shape |-> Nil, rows |-> <<>>, at |-> Nil,
   seen |-> Nil, on |-> Nil, raced |-> FALSE, run |-> Nil, saw |-> Nil, owed |-> <<>>]

\* BEGIN, COMMIT, ROLLBACK, as their texts or as parsed statements.
txnControl(c, k, op) ==
  \/ op = "begin" /\ UNCHANGED store
     /\ Set(c, CASE k.txn -> Complete(k, "BEGIN") [] ~k.txn /\ ro -> Refuse(k, "25006")
                 [] OTHER -> [k EXCEPT !.pc = "begin"])
  \/ op = "commit" /\ UNCHANGED <<colls, heap, must>>
     /\ Set(c, Complete([k EXCEPT !.txn = FALSE, !.state = "I"], "COMMIT"))
     /\ tx' = IF k.txn THEN NoTx ELSE tx
  \/ op = "rollback" /\ closeTxn(c, Complete([k EXCEPT !.txn = FALSE, !.state = "I"], "ROLLBACK"))

\* DB.Begin: the write lock, or busyTimeout.
Begin(c) ==
  /\ conn[c].pc = "begin"
  /\ \/ /\ tx.owner = Nil /\ tx' = Begun(c, TRUE)
        /\ Set(c, Complete([conn[c] EXCEPT !.txn = TRUE, !.state = "T"], "BEGIN"))
     \/ tx.owner # Nil /\ Set(c, Refuse(conn[c], "XX000")) /\ UNCHANGED tx
  /\ UNCHANGED <<fixed, colls, heap, must, life>>

execVectorSQL(c, k, st, means) ==
  \/ st[1] \in DOMAIN Stage /\ UNCHANGED store
     /\ IF st[1] \in {"update", "delete"} /\ whereID(WhereOf(st)) = Nil THEN Set(c, Refuse(k, "0A000"))
        ELSE Set(c, [k EXCEPT !.pc = Stage[st[1]], !.job = Job(st, means)])
  \/ st[1] \in {"set", "pragma"} /\ Set(c, Complete(k, st[1])) /\ UNCHANGED store
  \/ st[1] = "error" /\ Set(c, Refuse(k, "42601")) /\ UNCHANGED store
  \/ /\ st[1] \notin DOMAIN Stage \cup {"set", "pragma", "error"}
     /\ Set(c, Refuse(k, "0A000")) /\ UNCHANGED store

writeScalarResult(k, r) ==
  Succeed(k, (IF r.cols = <<>> THEN <<>> ELSE <<<<"T", r.cols>>>>) \o
             [i \in DOMAIN r.rows |-> <<"D", r.rows[i]>>] \o <<<<"C", r.tag>>>>)

execTxnStmt(st) == IF st[1] \in {"begin", "commit"} \/ st = <<"rollback", None>> THEN st[1] ELSE ""
Control(words, answer, st) ==
  IF handleTxnControl(words) # "" THEN handleTxnControl(words) ELSE IF answer # Nil THEN "" ELSE execTxnStmt(st)
Dispatch(c, k, words, op, answer, st, means) ==
  \/ op # "" /\ txnControl(c, k, op)
  \/ op = "" /\ answer # Nil /\ UNCHANGED store
     /\ Set(c, writeScalarResult([k EXCEPT !.session = IF words[1] = "set" THEN applySet(@, words) ELSE @], answer[1]))
  \/ op = "" /\ answer = Nil /\ execVectorSQL(c, k, st, means)
Trimmed(words) == IF words # <<>> /\ Last(words) = ";" THEN Front(words) ELSE words
runStatement(c) ==
  /\ conn[c].pc = "run"
  /\ LET k == [conn[c] EXCEPT !.todo = Tail(@)]
         now == Head(conn[c].todo)
         words == Trimmed(now.sql)
         answer == IF words = <<>> THEN Nil ELSE handleCatalog(words, k)
         st == SQL!Parse(words)
     IN Dispatch(c, k, words, Control(words, answer, st), answer, st, now.means)
  /\ UNCHANGED <<fixed, life>>

(* Tables and indexes.  db.mu is held throughout.                          *)
Writable == CASE ~live -> "canceled" [] live /\ ro -> "readonly" [] OTHER -> ""
\* An error the IF [NOT] EXISTS of the statement forgives completes it.
Outcome(c, err, forgiven, tag) ==
  Set(c, IF err = "" \/ err = forgiven THEN Complete(conn[c], tag) ELSE Refuse(conn[c], mapError(err)))

toCatalogSchema(defs) ==
  LET kept == SelectSeq(defs, LAMBDA d : ~isIDName(d.name))
      vecs == SelectSeq(kept, LAMBDA d : d.kind = "vector")
      meta == SelectSeq(kept, LAMBDA d : d.kind # "vector")
      names == [i \in DOMAIN kept |-> kept[i].name]
      Def(n) == kept[CHOOSE i \in DOMAIN kept : kept[i].name = n]
      order == [i \in DOMAIN meta |-> meta[i].name]
  IN IF vecs = <<>> \/ ~IsInjective(names) THEN Value("schema", Nil)
     ELSE Value("", [vec |-> vecs[1].name, order |-> order, idxName |-> ""] @@
                    NewCollection(vecs[1].dim, "l2", [n \in Range(order) |-> Def(n).kind],
                                  {n \in Range(order) : Def(n).notNull}))

Create(c, st, defs) ==
  LET bad == {i \in DOMAIN defs : defs[i].err # ""}
      made == toCatalogSchema(Glue([i \in DOMAIN defs |-> defs[i].v]))
      name == st[3][1]
      err == CASE Writable # "" -> Writable [] Writable = "" /\ Table(name) # Nil -> "exists" [] OTHER -> made.err
  IN \/ /\ bad # {} /\ UNCHANGED <<colls, heap>>
        /\ Set(c, Refuse(conn[c], defs[CHOOSE i \in bad : \A j \in bad : i <= j].err))
     \/ /\ bad = {} /\ Outcome(c, err, IF st[2] # None THEN "exists" ELSE "", "CREATE TABLE")
        /\ LET g == Cardinality(DOMAIN heap) + 1 IN
           IF err = "" THEN colls' = (name :> <<g>>) @@ colls /\ heap' = (g :> made.v) @@ heap
           ELSE UNCHANGED <<colls, heap>>
execCreateTable(c) ==
  LET st == conn[c].job.st
      specs == SelectSeq(Tail(st[4]), LAMBDA x : x[1] = "column")
  IN /\ conn[c].pc = "ddl" /\ st[1] = "createtable"
     /\ Create(c, st, [i \in DOMAIN specs |-> lowerColumn(specs[i])])
     /\ UNCHANGED <<fixed, tx, must, life>>

execCreateIndex(c) ==
  LET st == conn[c].job.st
      name == st[5][1]
      err == CASE Writable # "" -> Writable [] Writable = "" /\ Table(name) = Nil -> "notfound"
               [] Writable = "" /\ Table(name) # Nil /\ st[7][1] # info(name).vec -> "column" [] OTHER -> ""
  IN /\ conn[c].pc = "ddl" /\ st[1] = "createindex"
     /\ \/ err # "" /\ Outcome(c, err, "", "") /\ UNCHANGED heap
        \/ /\ err = ""
           /\ LET co == [info(name) EXCEPT !.named = TRUE, !.idxType = indexTypeFor(st[6][1]),
                                            !.idxName = IF st[4] = None THEN "auto" ELSE st[4][1]]
              IN Outcome(c, buildIndexLocked(co, TRUE), "", "CREATE INDEX") /\ heap' = [heap EXCEPT ![Table(name)[1]] = co]
     /\ UNCHANGED <<fixed, colls, tx, must, life>>

\* The statement names an index or a table; DropIndex wants the table.
execDropIndex(c) ==
  LET st == conn[c].job.st
      name == IF st[3][1] = "oncolumn" THEN st[3][2][1] ELSE ""
      err == CASE Writable # "" -> Writable
               [] Writable = "" /\ (Table(name) = Nil \/ info(name).idxName = "") -> "notfound" [] OTHER -> ""
  IN /\ conn[c].pc = "ddl" /\ st[1] = "dropindex"
     /\ Outcome(c, err, IF st[2] # None THEN "notfound" ELSE "", "DROP INDEX")
     /\ heap' = IF err # "" THEN heap
                ELSE [heap EXCEPT ![Table(name)[1]] = [@ EXCEPT !.named = FALSE, !.idxName = "", !.idxType = "flat"]]
     /\ UNCHANGED <<fixed, colls, tx, must, life>>

execDropTable(c) ==
  LET st == conn[c].job.st
      name == st[3][1]
      err == IF Writable # "" THEN Writable ELSE IF Table(name) = Nil THEN "notfound" ELSE ""
  IN /\ conn[c].pc = "ddl" /\ st[1] = "droptable"
     /\ Outcome(c, err, IF st[2] # None THEN "notfound" ELSE "", "DROP TABLE")
     /\ colls' = IF err = "" THEN Without(colls, {name}) ELSE colls
     /\ UNCHANGED <<fixed, heap, tx, must, life>>

(* SELECT: the columns from one look at the table; then the executor, each *)
(* of whose steps is a look of its own at the engine.  Beside it the query *)
(* keeps what was owed when the rows were filtered and when they were      *)
(* scanned, and the slots it saw: "raced" is set when a position the query *)
(* goes back to holds another row by then, as after a rollback that gave   *)
(* the position back and an insert that took it.                           *)
describe(c) ==
  LET k == conn[c]
      name == k.job.table
  IN /\ k.pc = "describe"
     /\ Set(c, IF Table(name) = Nil THEN Refuse(k, "42P01")
               ELSE [k EXCEPT !.pc = "select", !.job.cols = selectColumns(k.job.st, info(name))])
     /\ UNCHANGED <<fixed, store, life>>

Filled(slot) == [slot EXCEPT !.dead = FALSE]
Owing(g) == [id \in {x[2] : x \in {y \in DOMAIN must \ tx.dirty : y[1] = g}} |-> must[<<g, id>>]]
Execute(k, g, b) ==
  LET q == [k |-> b.k, vector |-> SQL!ParseVectorLiteral[k.job.st[10][2][2][3][2][1]]]
      r == Started(g, q, b.pred, b.project)
  IN [k EXCEPT !.pc = IF Filters(r) THEN "filter" ELSE "scan", !.job.run = r]
Selected(k, g, b) == IF ~b.ok \/ b.param THEN Refuse(k, "42804") ELSE Execute(k, g, b)
schemaOf(co) == [vec |-> co.vec, dim |-> co.dim, id |-> "id", cols |-> co.cols]
execSelect(c) ==
  LET k == conn[c]
      name == k.job.table
  IN /\ k.pc = "select"
     /\ Set(c, CASE ~live -> Refuse(k, "57014") [] live /\ Table(name) = Nil -> Refuse(k, "42P01")
                 [] OTHER -> Selected(k, Table(name)[1], SQL!BindSelect(k.job.st, schemaOf(info(name)))))
     /\ UNCHANGED <<fixed, store, life>>

MetadataFilter(c) ==
  LET k == conn[c]
      co == heap[k.job.run.g]
      r == Filtered(k.job.run, co)
  IN /\ k.pc = "filter"
     /\ Set(c, [k EXCEPT !.pc = "scan", !.job.run = r, !.job.owed = <<Owing(r.g)>>,
                         !.job.saw = [i \in r.pass[1] |-> Filled(co.slots[i])]])
     /\ UNCHANGED <<fixed, store, life>>

DataRows(r, outs) ==
  LET Shown(n) == [id |-> r.ids[n], score |-> r.cand[n].score, meta |-> IF r.project = {} THEN EmptyMap ELSE r.metas[n]]
  IN [n \in DOMAIN r.ids |-> <<"D", [i \in DOMAIN outs |-> encodeResultValue(Shown(n), outs[i])]>>]
Finished(k, r) ==
  Succeed(k, <<<<"T", k.job.cols>>>> \o DataRows(r, outputCols(k.job.st, k.job.cols)) \o <<<<"C", "SELECT">>>>)

\* A context done by the end of the scan makes a result of no rows, and no error.
ScanVectors(c) ==
  LET k == conn[c]
      r == k.job.run
      co == heap[r.g]
      cand == IF live THEN Scanned(co, r.q, r.pass) ELSE <<>>
      places == {cand[n].pos : n \in DOMAIN cand}
      after == [k EXCEPT !.pc = "rows", !.job.run.cand = cand, !.job.owed = Append(@, Owing(r.g)),
                         !.job.saw = [i \in places |-> Filled(co.slots[i])],
                         !.job.raced = Filters(r) /\ \E i \in places \cap DOMAIN k.job.saw : k.job.saw[i] # Filled(co.slots[i])]
  IN /\ k.pc = "scan"
     /\ Set(c, IF cand = <<>> THEN Finished(k, r) ELSE after)
     /\ UNCHANGED <<fixed, store, life>>

\* gatherOp and projectOp, a row at a time.
readRow(c) ==
  LET k == conn[c]
      r == k.job.run
      co == heap[r.g]
      then == ReadRow(r, co)
  IN /\ k.pc = "rows"
     /\ Set(c, IF Place(r) \notin Live(co) THEN Refuse(k, "XX000")
               ELSE IF ReadAll(then) THEN Finished(k, then)
               ELSE [k EXCEPT !.job.run = then, !.job.raced = @ \/ k.job.saw[Place(r)] # Filled(co.slots[Place(r)])])
     /\ UNCHANGED <<fixed, store, life>>

(* INSERT, UPDATE and DELETE: a look at the table, for UPDATE a look at    *)
(* the row, then the write lock, unless the block has it, and the rows.    *)
WriteFrom(k) == IF k.txn THEN "write" ELSE "update"
Shape(co) == [vec |-> co.vec, cols |-> co.cols]

Planned(k, built) ==
  IF firstError(built) # "" THEN Refuse(k, firstError(built))
  ELSE [k EXCEPT !.pc = "resolve", !.job.rows = [i \in DOMAIN built |-> built[i].p]]
plan(c) ==
  LET k == conn[c]
      st == k.job.st
      name == k.job.table
  IN /\ k.pc = "plan"
     /\ Set(c, CASE Table(name) = Nil -> Refuse(k, "42P01")
                 [] Table(name) # Nil /\ st[1] = "update" ->
                      [k EXCEPT !.pc = "resolve", !.job.shape = <<Shape(info(name))>>]
                 [] OTHER -> Planned(k, [i \in 1 .. Len(st[4]) - 1 |->
                                           buildPoint(st[3], st[4][i + 1], Shape(info(name)))]))
     /\ UNCHANGED <<fixed, store, life>>

resolve(c) ==
  LET k == conn[c] IN
  /\ k.pc = "resolve"
  /\ Set(c, CASE Table(k.job.table) = Nil -> Refuse(k, "42P01")
              [] Table(k.job.table) # Nil /\ k.job.st[1] = "update" -> [k EXCEPT !.pc = "lookup"]
              [] Table(k.job.table) # Nil /\ k.job.st[1] = "delete" ->
                   [k EXCEPT !.pc = WriteFrom(k), !.job.rows = <<NewPoint(whereID(WhereOf(k.job.st))[1])>>]
              [] OTHER -> [k EXCEPT !.pc = WriteFrom(k)])
  /\ UNCHANGED <<fixed, store, life>>

\* Collection.Get is two: the id's place, then what is there now.
lookup(c) ==
  LET k == conn[c]
      name == k.job.table
      id == whereID(WhereOf(k.job.st))[1]
  IN /\ k.pc = "lookup"
     /\ Set(c, IF Table(name) = Nil \/ id \notin DOMAIN info(name).map THEN Refuse(k, "42P01")
               ELSE [k EXCEPT !.pc = "fetch", !.job.at = <<Table(name)[1], info(name).map[id]>>])
     /\ UNCHANGED <<fixed, store, life>>

\* Variant: the row starts without its old columns.
AssignedFresh(k, slot) ==
  FoldLeft(LAMBDA f, a : setField(f, a[2][1], a[3], k.job.shape[1]),
           Fields([NewPoint(whereID(WhereOf(k.job.st))[1]) EXCEPT !.vector = slot.vec], ""), Tail(k.job.st[3]))
Assigned(k, slot) ==
  FoldLeft(LAMBDA f, a : setField(f, a[2][1], a[3], k.job.shape[1]),
           Fields([id |-> whereID(WhereOf(k.job.st))[1], vector |-> slot.vec,
                   meta |-> pointFromRecord(slot, [vec |-> TRUE, pay |-> TRUE]).payload], ""),
           Tail(k.job.st[3]))
Revised(k, f, slot) ==
  IF f.err # "" THEN Refuse(k, f.err)
  ELSE [k EXCEPT !.pc = WriteFrom(k), !.job.rows = <<f.p>>, !.job.seen = <<Row(slot.vec, slot.meta)>>]
fetch(c) ==
  LET k == conn[c]
      co == heap[k.job.at[1]]
      pos == k.job.at[2]
  IN /\ k.pc = "fetch"
     /\ Set(c, IF pos \notin Live(co) THEN Refuse(k, "42P01") ELSE Revised(k, Assigned(k, co.slots[pos]), co.slots[pos]))
     /\ UNCHANGED <<fixed, store, life>>

\* DB.Update outside a block: the context, read-only, the lock or busyTimeout.
Update(c) ==
  LET k == conn[c] IN
  /\ k.pc = "update"
  /\ \/ (~live \/ ro) /\ Set(c, Refuse(k, IF ~live THEN "57014" ELSE "25006")) /\ UNCHANGED tx
     \/ live /\ ~ro /\ tx.owner = Nil /\ tx' = Begun(c, FALSE) /\ Goto(c, k, "write")
     \/ live /\ ~ro /\ tx.owner # Nil /\ Set(c, Refuse(k, "XX000")) /\ UNCHANGED tx
  /\ UNCHANGED <<fixed, colls, heap, must, life>>

\* One row.  UpsertBatch looks the table up once, the others for every row.
Target(k) == IF k.txn \/ k.job.st[1] = "delete" \/ k.job.on = Nil THEN Table(k.job.table) ELSE k.job.on
writeRow(co, k) ==
  IF k.job.st[1] = "delete" THEN deleteOne(co, Head(k.job.rows).id) ELSE writeOne(co, Head(k.job.rows), FALSE)
\* The row an UPDATE replaces is no longer the one it read.
Raced(k, g) == k.job.st[1] = "update" /\ Get(heap[g], Head(k.job.rows).id) # k.job.seen
Meant(g, k) == {<<g, e.id>> : e \in Range(k.job.means)}
Granted(k, g, dirty, raced) == IF raced THEN Owed(dirty, <<>>) ELSE Owed(dirty \cup Meant(g, k), k.job.means)
Failed(c, k, err, h) ==
  /\ Set(c, Refuse(k, mapError(err)))
  /\ IF k.txn THEN heap' = h /\ must' = Without(must, tx.dirty) /\ tx' = [tx EXCEPT !.dirty = {}]
     ELSE heap' = Undone(h, tx.was, tx.ids) /\ must' = RolledBack /\ tx' = NoTx
Written(c, k, g, w) ==
  LET dirty == tx.dirty \cup {<<g, w.id>>}
      ids == IF k.job.st[1] = "delete" THEN tx.ids ELSE tx.ids \cup {<<g, w.id>>}
      more == Tail(k.job.rows)
      raced == k.job.raced \/ Raced(k, g)
  IN /\ heap' = [heap EXCEPT ![g] = w.co]
     /\ IF more # <<>> \/ ~k.txn
        THEN /\ Set(c, [k EXCEPT !.job.rows = more, !.job.on = <<g>>, !.job.raced = raced,
                                 !.pc = IF more = <<>> THEN "commit" ELSE "write"])
             /\ tx' = [tx EXCEPT !.dirty = dirty, !.ids = ids] /\ UNCHANGED must
        ELSE /\ Set(c, Complete(k, k.job.st[1]))
             /\ tx' = [tx EXCEPT !.dirty = {}, !.ids = ids]
             /\ must' = Granted(k, g, dirty, raced)
WriteRow(c) ==
  /\ conn[c].pc = "write"
  /\ LET k == conn[c]
         to == Target(k)
     IN IF to = Nil THEN Failed(c, k, "notfound", heap)
        ELSE LET w == writeRow(heap[to[1]], k) IN
             IF w.err = "" THEN Written(c, k, to[1], w)
             ELSE Failed(c, k, w.err, [heap EXCEPT ![to[1]] = w.co])
  /\ UNCHANGED <<fixed, colls, life>>

Commit(c) ==
  LET k == conn[c] IN
  /\ k.pc = "commit"
  /\ Set(c, Complete(k, k.job.st[1]))
  /\ must' = Granted(k, k.job.on[1], tx.dirty, k.job.raced)
  /\ tx' = NoTx
  /\ UNCHANGED <<fixed, colls, heap, life>>

Handle(c) ==
  \/ HangUp(c) \/ EndConn(c) \/ startup(c) \/ readPassword(c) \/ Read(c) \/ runStatement(c) \/ Begin(c)
  \/ execCreateTable(c) \/ execCreateIndex(c) \/ execDropIndex(c) \/ execDropTable(c)
  \/ describe(c) \/ execSelect(c) \/ MetadataFilter(c) \/ ScanVectors(c) \/ readRow(c) \/ plan(c) \/ resolve(c) \/ lookup(c) \/ fetch(c)
  \/ Update(c) \/ WriteRow(c) \/ Commit(c)

\* Nothing is left to happen, unless a client comes back with more.
Rest ==
  /\ \A c \in Conns : conn[c].pc = "done" \/ (conn[c].pc \in {"startup", "password", "read"} /\ ~Coming(c))
                      \/ (conn[c].pc = "new" /\ (conn[c].gone \/ serve # "accept"))
  /\ UNCHANGED vars

Next ==
  \/ \E c \in Conns : AcceptConn(c) \/ Leave(c) \/ Handle(c)
  \/ Cancel \/ AcceptFails \/ Serve \/ Rest

Spec == Init /\ [][Next]_vars

\* Weak fairness of Handle, with its enabling condition and its steps written
\* out: a goroutine that is not waiting for its client goes on.
Waiting(c) == conn[c].pc \in {"startup", "password", "read"} /\ ~conn[c].gone /\ ~Coming(c)
CanHandle(c) == conn[c].pc \notin {"new", "done"} /\ ~Waiting(c)
Handled(c) == conn'[c] # conn[c] /\ conn'[c].gone = conn[c].gone
FairSpec ==
  /\ Spec /\ \A c \in Conns : []<>~CanHandle(c) \/ []<><<Handled(c)>>_vars
  /\ WF_vars(~live /\ AcceptFails) /\ WF_vars(Serve)

(* Properties.                                                             *)
Said(k, tags) == SelectSeq(k.wire \o k.out, LAMBDA x : x[1] \in tags)
Asked(c, tags) == {i \in 1 .. conn[c].at - 1 : script[c][i].tag \in tags}

\* The state byte, Conn.txn and the database's write lock agree: a connection
\* that tells its client "in a block" or "failed" holds the lock for a block,
\* the last ReadyForQuery told the state as it is, and a connection that has
\* ended holds nothing.
BlockState ==
  \A c \in Conns : LET k == conn[c] IN
    /\ (k.state # "I") <=> k.txn
    /\ k.txn <=> (tx.owner = <<c>> /\ tx.block)
    /\ k.pc = "read" /\ script[c][k.at - 1].tag \in {"Q", "S"} => Last(k.wire) = <<"Z", k.state>>
    /\ k.pc = "done" => tx.owner # <<c>>

\* What a client was told is written is there: a row acknowledged by
\* CommandComplete stays as that statement meant it until another acknowledged
\* statement changes it, a rollback takes it back, or a statement under way
\* touches it; a deleted one stays deleted.
Kept == \A x \in DOMAIN must \ tx.dirty : Get(heap[x[1]], x[2]) = must[x]

\* Every message that owes ReadyForQuery gets one, flushed, and one only,
\* whatever fails in between; in the extended protocol every other message
\* gets exactly one completion or error.
Answered ==
  \A c \in Conns : LET k == conn[c] IN k.pc = "read" =>
    /\ Len(Said(k, {"Z"})) = 1 + Cardinality(Asked(c, {"Q", "S"}))
    /\ script[c][k.at - 1].tag \in {"Q", "S", "H"} => k.out = <<>>
    /\ Asked(c, {"Q"}) = {} =>
         Len(Said(k, {"1", "2", "3", "n", "C", "E"})) = Cardinality(Asked(c, {"P", "B", "D", "E", "C", "?"}))

\* A SELECT that succeeds shows the table as it was owed when its rows were
\* scanned, whatever statements run between its steps: a row owed then is shown
\* as it was, the distance too, and satisfies the WHERE, a row deleted then is
\* not shown, and when the LIMIT is not used up and the context not done every
\* owed row is shown, under a WHERE those that satisfied it when it was looked
\* at and are still the same (executor.go runPlan, ops.go).  "Owed" is what was
\* acknowledged to any client, blocks that are still open included: a reader of
\* the facade sees them.  Excepted is a query one of whose positions changed
\* hands, by a rollback and an insert, between two of its looks: its row is
\* made of two.
Told(k, new) == SubSeq(new.wire \o new.out, Len(k.wire) + Len(k.out) + 1, Len(new.wire) + Len(new.out))
Selects(k, new) == k.pc \in {"scan", "rows"} /\ new.job = NoJob /\ Told(k, new)[1][1] = "T"
Data(k, new) == {d[2] : d \in {x \in Range(Told(k, new)) : x[1] = "D"}}
IdOf(k, d) == d[CHOOSE i \in DOMAIN d : k.job.cols[i][1] = "id"][1][2]
Wanted(k, row) == SQL!eval(k.job.run.pred, [n \in DOMAIN row.meta |-> Lowered(row.meta[n])])
Shows(k, d, row) ==
  \A i \in DOMAIN d : LET name == k.job.cols[i][1] IN
    CASE name = "id" -> TRUE
      [] name \in DOMAIN row.meta -> d[i] = IF row.meta[name] = <<"null">> THEN Nil ELSE <<row.meta[name]>>
      [] OTHER -> d[i] = <<<<"float", 2 * L2Squared(row.vector, k.job.run.q.vector)>>>>
ShowsOwed(k, rows, before, owed, all) ==
  LET there == {id \in DOMAIN owed : owed[id] # Nil}
      kept == {id \in there : id \in DOMAIN before /\ before[id] = owed[id] /\ Wanted(k, owed[id][1])}
  IN /\ \A d \in rows : IdOf(k, d) \in DOMAIN owed =>
          IdOf(k, d) \in there /\ Shows(k, d, owed[IdOf(k, d)][1]) /\ Wanted(k, owed[IdOf(k, d)][1])
     /\ all /\ Cardinality(rows) < k.job.run.q.k => kept \subseteq {IdOf(k, d) : d \in rows}
OwedAt(k) == IF k.pc = "scan" THEN Append(k.job.owed, Owing(k.job.run.g)) ELSE k.job.owed
Changed(k) == k.job.raced \/ (k.pc = "rows" /\ k.job.saw[Place(k.job.run)] # Filled(heap[k.job.run.g].slots[Place(k.job.run)]))
Shown ==
  [][\A c \in Conns : LET k == conn[c]
                          new == conn'[c] IN
       Selects(k, new) /\ ~Changed(k) =>
         ShowsOwed(k, Data(k, new), Head(OwedAt(k)), Last(OwedAt(k)), live)]_vars

\* No SELECT shows a row that another connection's open block inserted.
ReadCommitted ==
  [][\A c \in Conns : Selects(conn[c], conn'[c]) =>
       \A d \in Data(conn[c], conn'[c]) : LET x == <<conn[c].job.run.g, IdOf(conn[c], d)>> IN
         tx.owner # <<c>> /\ x \in tx.ids => x \in DOMAIN tx.saved]_vars

\* A client that goes away takes its connection with it, lock and all; once
\* the context is canceled and the clients are gone Serve returns.
Drains ==
  /\ \A c \in Conns : conn[c].gone /\ conn[c].pc # "new" ~> conn[c].pc = "done"
  /\ (~live /\ \A c \in Conns : conn[c].gone) ~> serve = "returned"
=============================================================================

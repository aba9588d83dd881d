------------------------------- MODULE Server -------------------------------
(***************************************************************************)
(* The network server (package server) over one open database: the calls   *)
(* in flight, the writer pipeline every upsert and delete passes through,  *)
(* the registry of background operations, and Serve and Stop.              *)
(*                                                                         *)
(* A call is a client's request, served by its own goroutine; its steps    *)
(* are the points where the handler takes a lock, sends or receives.  The  *)
(* calls of a plan may arrive in any order and at any time.                *)
(***************************************************************************)
EXTENDS Surfaces

CONSTANTS Calls,
          Ask,          \* requests, by name
          Handled,      \* what the handlers make of each
          Starts,       \* initial states: the name of a request per call, the collections, read-only
                        \* or not, and what may happen besides: "leave", "lock", "stop"
          MaxWriteQueueDepth

VARIABLES plan, ask, call,                 \* ask: what the handler made of each request
          colls, heap, ro, closed,         \* db.colls: name -> the collection it is bound to
          queue, chan, writer, applied,    \* writeCh, runWriter; commits per call
          ops, phase, live, grace,         \* live: Serve's context; grace: Stop's timer ran out
          lock, may                        \* db.writeMu; what the environment may still do
store == <<colls, heap>>
pipe == <<queue, chan, writer, applied>>
life == <<phase, live, grace, closed>>
held == <<lock, may>>
vars == <<plan, ask, call, store, ro, pipe, ops, life, held>>

(* The database, as the handlers see it.                                   *)
stateErr(name) == IF closed THEN "closed" ELSE IF colls[name] = Nil THEN "notfound" ELSE ""
Coll(name) == heap[colls[name][1]]
typeName == [int |-> "int64", float |-> "float64", bool |-> "bool", text |-> "text", bytes |-> "bytes",
             json |-> "json", timestamp |-> "timestamp"]
collectionInfo(name) ==
  LET co == Coll(name) IN
  [name |-> name, count |-> Cardinality(Live(co)),
   config |-> [dim |-> co.dim, metric |-> co.metric, indexType |-> "flat",
               columnTypes |-> [c \in DOMAIN co.cols |-> typeName[co.cols[c]]]]]

(* Calls.                                                                  *)
ASSUME ServerAssumption == Handled = [n \in DOMAIN Ask |-> Handle(Ask[n])]
In(c) == ask[c]
\* The filters of a query, compiled.
Compiled(h) ==
  IF h.status = 0 /\ h.op = "query"
  THEN [h EXCEPT !.arg = [i \in DOMAIN @ |-> [where |-> compileFilter(@[i].filter)] @@ @[i]]] ELSE h
Alive(c) == call[c].alive /\ call[c].pc # "done"        \* net/http cancels when the handler returns

Idle == [pc |-> "idle", alive |-> TRUE, after |-> {}, i |-> 1, got |-> <<>>, at |-> Nil,
         run |-> Nil, done |-> Nil, err |-> "", out |-> Nil]
NoReply(status) == [status |-> status, err |-> "", sent |-> <<>>, read |-> <<>>]
Written(r, ms) == [status |-> statusOf(r, ""), err |-> "", sent |-> ms,
                   read |-> IF r.proto = "grpc" THEN Received(r, ms) ELSE ms]
Reply(r, err, v) ==
  IF err # "" THEN [NoReply(statusOf(r, err)) EXCEPT !.err = err]
  ELSE Written(r, IF r.proto = "grpc" THEN messages(r, v) ELSE <<v>>)

\* The operation returns err or v to its handler, which then writes the reply.
Answer(c, err, v) ==
  call' = [call EXCEPT ![c] = [@ EXCEPT !.pc = "reply", !.err = err, !.got = v, !.at = Nil, !.run = Nil, !.done = Nil]]
Goto(c, pc) == call' = [call EXCEPT ![c].pc = pc]
Fail(c, err) == err # "" /\ Answer(c, err, Nil)
\* The handler panics: net/http drops the connection.
Dropped(c) == call' = [call EXCEPT ![c].pc = "done", ![c].out = [NoReply(-1) EXCEPT !.err = "panic"]]

First == [create |-> "create", info |-> "info", list |-> "list", drop |-> "drop", upsert |-> "handle",
          delete |-> "handle", points |-> "handle", query |-> "handle", reindex |-> "opstart",
          vacuum |-> "vacuum", backup |-> "backup", status |-> "status", health |-> "health"]

Init ==
  \E s \in Starts :
    /\ plan = s.plan /\ ask = [c \in Calls |-> Compiled(Handled[s.plan[c]])]
    /\ colls = s.colls /\ heap = s.heap /\ ro = s.ro
    /\ call = [c \in Calls |-> Idle]
    /\ queue = <<>> /\ chan = "open" /\ writer = [pc |-> "select"] /\ applied = [c \in Calls |-> 0]
    /\ ops = <<>> /\ phase = "up" /\ live = TRUE /\ grace = FALSE /\ closed = FALSE
    /\ lock = "" /\ may = s.may

Arrive(c) ==
  /\ phase = "up" /\ call[c].pc = "idle"
  /\ LET h == In(c) IN
     call' = [call EXCEPT ![c] = [@ EXCEPT !.pc = IF h.status = 0 THEN First[h.op] ELSE "done",
                                           !.out = IF h.status = 0 THEN Nil ELSE NoReply(h.status),
                                           !.after = {d \in Calls : call[d].pc = "done"}]]
  /\ UNCHANGED <<plan, ask, store, ro, pipe, ops, life, held>>

\* The client goes away: the request's context is cancelled.
ClientGone(c) ==
  /\ "leave" \in may /\ call[c].pc \notin {"idle", "done"} /\ call[c].alive
  /\ call' = [call EXCEPT ![c].alive = FALSE]
  /\ UNCHANGED <<plan, ask, store, ro, pipe, ops, life, held>>

Respond(c) ==
  /\ call[c].pc = "reply"
  /\ call' = [call EXCEPT ![c] = [@ EXCEPT !.pc = "done", !.err = "", !.got = <<>>,
                                           !.out = Reply(Ask[plan[c]], call[c].err, call[c].got)]]
  /\ UNCHANGED <<plan, ask, store, ro, pipe, ops, life, held>>

(* Collections.                                                            *)
createCollection(c) ==
  LET cfg == In(c).arg
      name == In(c).name
      kinds == [k \in DOMAIN cfg.columnTypes |-> parseColumnType(cfg.columnTypes[k])]
      err == CASE parseMetric(cfg.metric) = Nil -> "metric"
               [] \E k \in DOMAIN kinds : kinds[k] = Nil -> "type"
               [] ~Alive(c) -> "canceled" [] closed -> "closed" [] ro -> "readonly"
               [] colls[name] # Nil -> "exists" [] name = "" \/ cfg.dim <= 0 -> "schema"
               [] OTHER -> ""
  IN /\ call[c].pc = "create"
     /\ \/ Fail(c, err) /\ UNCHANGED store
        \/ /\ err = ""
           /\ colls' = [colls EXCEPT ![name] = <<c>>]
           /\ heap' = (c :> NewCollection(cfg.dim, parseMetric(cfg.metric)[1],
                                          [k \in DOMAIN kinds |-> kinds[k][1]], {})) @@ heap
           /\ Goto(c, IF cfg.indexType \in {"", "flat"} THEN "info" ELSE "index")
     /\ UNCHANGED <<plan, ask, ro, pipe, ops, life, held>>

\* CreateIndex, with db.mu held throughout; a client that left may have cut
\* the build short.
CreateIndex(c) ==
  LET name == In(c).name IN
  /\ call[c].pc = "index"
  /\ \/ Fail(c, IF ro /\ ~closed THEN "readonly" ELSE stateErr(name)) /\ UNCHANGED store
     \/ ~Alive(c) /\ Fail(c, "canceled") /\ UNCHANGED store
     \/ /\ stateErr(name) = "" /\ ~ro
        /\ \E whole \in {TRUE, Alive(c)} :
             LET co == [Coll(name) EXCEPT !.named = TRUE, !.idxType = parseIndexType(In(c).arg.indexType)]
                 err == buildIndexLocked(co, whole)
             IN /\ heap' = [heap EXCEPT ![colls[name][1]] = co]
                /\ Fail(c, err) \/ (err = "" /\ Goto(c, "info"))
        /\ UNCHANGED colls
  /\ UNCHANGED <<plan, ask, ro, pipe, ops, life, held>>

getCollection(c) ==
  LET name == In(c).name IN
  /\ call[c].pc = "info"
  /\ \/ Fail(c, stateErr(name))
     \/ /\ stateErr(name) = ""
        /\ call' = [call EXCEPT ![c].pc = "describe", ![c].got = <<collectionInfo(name)>>]
  /\ UNCHANGED <<plan, ask, store, ro, pipe, ops, life, held>>

listCollections(c) ==
  /\ call[c].pc = "list"
  /\ \/ Fail(c, IF ~Alive(c) THEN "canceled" ELSE IF closed THEN "closed" ELSE "")
     \/ /\ Alive(c) /\ ~closed
        /\ LET names == SetToSeq({n \in DOMAIN colls : colls[n] # Nil}) IN
           call' = [call EXCEPT ![c].pc = "describe",
                                ![c].got = [i \in DOMAIN names |-> collectionInfo(names[i])]]
  /\ UNCHANGED <<plan, ask, store, ro, pipe, ops, life, held>>

\* The index type is looked up by name, one collection at a time; the list
\* then leaves out what the caller may not see.
describeCollection(c) ==
  LET got == call[c].got
      i == call[c].i
      name == got[i].name
  IN /\ call[c].pc = "describe"
     /\ IF i > Len(got)
        THEN Answer(c, "", IF In(c).op = "list"
                           THEN SelectSeq(got, LAMBDA ci : CanAccess(In(c).arg, ci.name)) ELSE got[1])
        ELSE call' = [call EXCEPT ![c].i = i + 1,
               ![c].got[i].config.indexType =
                  IF stateErr(name) = "" /\ Coll(name).named THEN Coll(name).idxType ELSE @]
     /\ UNCHANGED <<plan, ask, store, ro, pipe, ops, life, held>>

dropCollection(c) ==
  LET name == In(c).name
      err == IF ~Alive(c) THEN "canceled" ELSE IF ro /\ ~closed THEN "readonly" ELSE stateErr(name)
  IN /\ call[c].pc = "drop"
     /\ Answer(c, err, TRUE)
     /\ colls' = IF err = "" THEN [colls EXCEPT ![name] = Nil] ELSE colls
     /\ UNCHANGED <<plan, ask, heap, ro, pipe, ops, life, held>>

(* Points.  Collection and vectorColumn look the name up, twice; each      *)
(* query of a batch looks up its own.                                      *)
AfterHandle == [upsert |-> "column", points |-> "column", query |-> "column", delete |-> "send"]
AfterColumn == [upsert |-> "send", points |-> "begin", query |-> "run"]
Named(c) == IF In(c).op = "query" THEN In(c).arg[call[c].i].name ELSE In(c).name

\* toMeta has no value for a payload field.
Unconverted(c) ==
  /\ call[c].pc = "column" /\ In(c).op = "upsert"
  /\ \E i \in DOMAIN In(c).arg : LET p == In(c).arg[i].payload IN \E k \in DOMAIN p : toValue(p[k]) = Nil
Collection(c) ==
  LET err == CASE stateErr(Named(c)) # "" -> stateErr(Named(c)) [] Unconverted(c) -> "value" [] OTHER -> "" IN
  /\ call[c].pc \in {"handle", "column"}
  /\ \/ Fail(c, err)
     \/ /\ err = ""
        /\ Goto(c, IF call[c].pc = "handle" THEN AfterHandle[In(c).op] ELSE AfterColumn[In(c).op])
  /\ UNCHANGED <<plan, ask, store, ro, pipe, ops, life, held>>

\* getPoints: Begin, then per id LookupID and Fetch, on the collection now
\* bound to the name; one missing id fails the call.
beginRead(c) ==
  /\ call[c].pc = "begin"
  /\ IF closed THEN Fail(c, "closed") ELSE Goto(c, "fetch")
  /\ UNCHANGED <<plan, ask, store, ro, pipe, ops, life, held>>

LookupID(c) ==
  LET ids == In(c).arg.ids
      i == call[c].i
      name == In(c).name
      err == IF stateErr(name) # "" THEN stateErr(name)
             ELSE IF ids[i] \notin DOMAIN Coll(name).map THEN "notfound" ELSE ""
  IN /\ call[c].pc = "fetch"
     /\ IF i > Len(ids) THEN Answer(c, "", call[c].got)
        ELSE \/ Fail(c, err)
             \/ /\ err = ""
                /\ call' = [call EXCEPT ![c].pc = "read", ![c].at = <<colls[name][1], Coll(name).map[ids[i]]>>]
     /\ UNCHANGED <<plan, ask, store, ro, pipe, ops, life, held>>

\* The slot may have died, or been taken back, since it was looked up.
Fetch(c) ==
  LET co == heap[call[c].at[1]]
      pos == call[c].at[2]
  IN /\ call[c].pc = "read"
     /\ \/ (closed \/ pos \notin Live(co)) /\ Fail(c, "notfound")
        \/ /\ ~closed /\ pos \in Live(co)
           /\ call' = [call EXCEPT ![c].pc = "fetch", ![c].i = @ + 1, ![c].at = Nil,
                                   ![c].got = Append(@, pointFromRecord(co.slots[pos], In(c).arg))]
     /\ UNCHANGED <<plan, ask, store, ro, pipe, ops, life, held>>

Queried(c, q, f) ==
  CASE f.err = "filter" -> "filter" [] ~Alive(c) -> "canceled" [] stateErr(q.name) # "" -> stateErr(q.name)
    [] Len(q.vector) # Coll(q.name).dim -> "dim" [] OTHER -> f.err
Ranked(c, got) ==
  IF Len(got) = Len(In(c).arg) THEN Answer(c, "", got)
  ELSE call' = [call EXCEPT ![c].pc = "handle", ![c].i = @ + 1, ![c].got = got, ![c].run = Nil]
Run(c, q, f) ==
  \/ f.err = "panic" /\ Dropped(c)
  \/ f.err # "panic" /\ Fail(c, Queried(c, q, f))
  \/ /\ Queried(c, q, f) = ""
     /\ LET r == Started(colls[q.name][1], q, f.pred, DOMAIN Coll(q.name).cols) IN
        call' = [call EXCEPT ![c].pc = IF Filters(r) THEN "filter" ELSE "scan", ![c].run = r]

queryPoints(c) ==
  LET q == In(c).arg[call[c].i] IN
  /\ call[c].pc = "run"
  /\ Run(c, q, bindSelect(q.where, IF stateErr(q.name) = "" THEN Coll(q.name).cols ELSE EmptyMap))
  /\ UNCHANGED <<plan, ask, store, ro, pipe, ops, life, held>>

\* The executor: the predicate, the scan, the rows; a context done after the
\* scan makes a result of no rows, and no error.
filterPoints(c) ==
  LET r == call[c].run IN
  /\ call[c].pc = "filter"
  /\ \/ closed /\ Fail(c, "storage")
     \/ ~closed /\ call' = [call EXCEPT ![c].pc = "scan", ![c].run = Filtered(r, heap[r.g])]
  /\ UNCHANGED <<plan, ask, store, ro, pipe, ops, life, held>>
scanPoints(c) ==
  LET r == call[c].run
      cand == IF Alive(c) THEN Scanned(heap[r.g], r.q, r.pass) ELSE <<>>
  IN /\ call[c].pc = "scan"
     /\ \/ closed /\ Fail(c, "storage")
        \/ ~closed /\ cand = <<>> /\ Ranked(c, Append(call[c].got, <<>>))
        \/ ~closed /\ cand # <<>> /\ call' = [call EXCEPT ![c].pc = "rows", ![c].run.cand = cand]
     /\ UNCHANGED <<plan, ask, store, ro, pipe, ops, life, held>>
\* The results carry neither vectors nor payload.
Results(r) ==
  [n \in DOMAIN r.ids |-> [id |-> r.ids[n], score |-> r.cand[n].score, rank |-> n, vector |-> <<>>,
                           payload |-> [k \in {} |-> 0]]]
readRow(c) ==
  LET r == call[c].run
      then == ReadRow(r, heap[r.g])
  IN /\ call[c].pc = "rows"
     /\ \/ (closed \/ Place(r) \notin Live(heap[r.g])) /\ Fail(c, "storage")
        \/ /\ ~closed /\ Place(r) \in Live(heap[r.g])
           /\ IF ReadAll(then) THEN Ranked(c, Append(call[c].got, Results(then)))
              ELSE call' = [call EXCEPT ![c].run = then]
     /\ UNCHANGED <<plan, ask, store, ro, pipe, ops, life, held>>

\* upsertPoints and deletePoints end in write: the request goes into the
\* channel, then its answer comes back; a closed channel panics the handler.
Send(c) ==
  /\ call[c].pc = "send"
  /\ \/ /\ chan = "open" /\ Len(queue) < (IF MaxWriteQueueDepth < 1 THEN 1 ELSE MaxWriteQueueDepth)
        /\ queue' = Append(queue, c) /\ Goto(c, "wait")
     \/ chan = "closed" /\ Dropped(c) /\ UNCHANGED queue
     \/ ~Alive(c) /\ Fail(c, "ctx") /\ UNCHANGED queue
  /\ UNCHANGED <<plan, ask, store, ro, chan, writer, applied, ops, life, held>>

Wait(c) ==
  /\ call[c].pc = "wait"
  /\ \/ call[c].done # Nil /\ Answer(c, call[c].done[1], Len(In(c).arg))
     \/ ~Alive(c) /\ Fail(c, "ctx")
  /\ UNCHANGED <<plan, ask, store, ro, pipe, ops, life, held>>

(* Background operations.  start writes the registry's map under its own   *)
(* mutex and runAsync reads it under the server's: when one call is in     *)
(* each, the runtime may stop the process.                                 *)
OpId == <<"op-1", "op-2">>
Op(state, job, c) == [state |-> state, job |-> job, err |-> "", by |-> c, name |-> In(c).name]

opStart(c) ==
  /\ call[c].pc = "opstart"
  /\ ops' = Append(ops, Op("pending", "", c))
  /\ call' = [call EXCEPT ![c].pc = "oprun", ![c].i = Len(ops) + 1]
  /\ UNCHANGED <<plan, ask, store, ro, pipe, life, held>>

runAsync(c) ==
  /\ call[c].pc = "oprun"
  /\ ops' = [ops EXCEPT ![call[c].i].state = "running", ![call[c].i].job = "check"]
  /\ Answer(c, "", OpId[call[c].i])
  /\ UNCHANGED <<plan, ask, store, ro, pipe, life, held>>

MapRace(c) ==
  /\ call[c].pc = "oprun" /\ \E d \in Calls : call[d].pc = "opstart"
  /\ phase' = "crashed"
  /\ UNCHANGED <<plan, ask, call, store, ro, pipe, ops, live, grace, closed, held>>

finish(o, err) == [ops EXCEPT ![o].job = "", ![o].err = err, ![o].state = IF err = "" THEN "done" ELSE "failed"]

\* Reindex, under the context of the request that started it.
jobCheck(o) ==
  /\ ops[o].job = "check"
  /\ ops' = IF Alive(ops[o].by) THEN [ops EXCEPT ![o].job = "build"] ELSE finish(o, "canceled")
  /\ UNCHANGED <<plan, ask, call, store, ro, pipe, life, held>>

jobBuild(o) ==
  LET name == ops[o].name
      err == IF stateErr(name) # "" THEN stateErr(name) ELSE IF Coll(name).named THEN "" ELSE "notfound"
  IN /\ ops[o].job = "build"
     /\ \/ err # "" /\ ops' = finish(o, err)
        \/ err = "" /\ \E whole \in {TRUE, Alive(ops[o].by)} : ops' = finish(o, buildIndexLocked(Coll(name), whole))
     /\ UNCHANGED <<plan, ask, call, store, ro, pipe, life, held>>

\* vacuum (a checkpoint, a no-op of an open database), backup (unsupported),
\* operation status, health.
Admit(c) ==
  LET o == {i \in DOMAIN ops : OpId[i] = In(c).arg} IN
  /\ \/ call[c].pc = "vacuum" /\ Answer(c, IF closed THEN "closed" ELSE "", 0)
     \/ call[c].pc = "backup" /\ Fail(c, "unsupported")
     \/ call[c].pc = "status" /\ o = {} /\ Fail(c, "notfound")
     \/ /\ call[c].pc = "status"
        /\ \E i \in o : Answer(c, "", [id |-> OpId[i], state |-> ops[i].state, err |-> ops[i].err])
     \/ call[c].pc = "health" /\ Answer(c, "", "ok")
  /\ UNCHANGED <<plan, ask, store, ro, pipe, ops, life, held>>

(* The writer: one request at a time, unless Serve's context is done.      *)
Delivered(c, err) == [call EXCEPT ![c].done = IF call[c].pc = "wait" THEN <<err>> ELSE @]
Selecting == [pc |-> "select"]

runWriter ==
  /\ writer.pc = "select"
  /\ \/ queue # <<>> /\ queue' = Tail(queue) /\ writer' = [pc |-> "begin", c |-> Head(queue)]
     \/ queue = <<>> /\ chan = "closed" /\ writer' = [pc |-> "exit"] /\ UNCHANGED queue
     \/ ~live /\ writer' = [pc |-> "drain"] /\ UNCHANGED queue
  /\ UNCHANGED <<plan, ask, call, store, ro, chan, applied, ops, life, held>>

\* Variant: the requests left are dropped without an answer.
drainSilent ==
  /\ writer.pc = "drain"
  /\ \/ queue # <<>> /\ queue' = Tail(queue) /\ UNCHANGED <<writer, call>>
     \/ queue = <<>> /\ writer' = [pc |-> "exit"] /\ UNCHANGED <<queue, call>>
  /\ UNCHANGED <<plan, ask, store, ro, chan, applied, ops, life, held>>
drainWriter ==
  /\ writer.pc = "drain"
  /\ \/ /\ queue # <<>> /\ queue' = Tail(queue)
        /\ call' = Delivered(Head(queue), "shutdown") /\ UNCHANGED writer
     \/ queue = <<>> /\ writer' = [pc |-> "exit"] /\ UNCHANGED <<queue, call>>
  /\ UNCHANGED <<plan, ask, store, ro, chan, applied, ops, life, held>>

\* The end of a request's fn, in success or error.
Return(err) == call' = Delivered(writer.c, err) /\ writer' = Selecting

\* DB.Update: the context, Begin, the write lock.
Update ==
  /\ writer.pc = "begin"
  /\ \/ ~Alive(writer.c) /\ Return("canceled") /\ UNCHANGED lock
     \/ /\ Alive(writer.c) /\ (closed \/ ro)
        /\ Return(IF closed THEN "closed" ELSE "readonly") /\ UNCHANGED lock
     \/ Alive(writer.c) /\ lock = "pg" /\ Return("busy") /\ UNCHANGED lock
     \/ /\ ~closed /\ ~ro /\ lock = "" /\ lock' = "writer" /\ UNCHANGED call
        /\ Alive(writer.c)
        /\ writer' = [pc |-> IF In(writer.c).op = "upsert" THEN "resolve" ELSE "batch", c |-> writer.c, i |-> 1,
                      was |-> [g \in DOMAIN heap |-> [slots |-> heap[g].slots, map |-> heap[g].map]],
                      on |-> Nil, ids |-> {}]
  /\ UNCHANGED <<plan, ask, store, ro, queue, chan, applied, ops, life, may>>

\* Variant: nothing is undone.
RollbackNothing(h, err) == heap' = h /\ lock' = "" /\ Return(err)
Rollback(h, err) ==
  /\ heap' = Undone(h, writer.was, writer.ids)
  /\ lock' = "" /\ Return(err)

\* UpsertBatch resolves the collection once.
requireWrite ==
  LET name == In(writer.c).name IN
  /\ writer.pc = "resolve"
  /\ \/ stateErr(name) # "" /\ Rollback(heap, stateErr(name))
     \/ /\ stateErr(name) = "" /\ writer' = [writer EXCEPT !.pc = "batch", !.on = colls[name]]
        /\ UNCHANGED <<call, heap, lock>>
  /\ UNCHANGED <<plan, ask, colls, ro, queue, chan, applied, ops, life, may>>

toPoint(p) == [id |-> p.id, vector |-> p.vector, meta |-> toMeta(p.payload)]
UpsertBatch ==
  LET g == writer.on[1]
      w == writeOne(heap[g], toPoint(In(writer.c).arg[writer.i]), closed)
      h == [heap EXCEPT ![g] = w.co]
  IN /\ writer.pc = "batch" /\ In(writer.c).op = "upsert" /\ writer.i <= Len(In(writer.c).arg)
     /\ \/ w.err # "" /\ Rollback(h, w.err)
        \/ /\ w.err = "" /\ heap' = h /\ UNCHANGED <<call, lock>>
           /\ writer' = [writer EXCEPT !.i = @ + 1, !.ids = @ \cup {<<g, w.id>>}]
     /\ UNCHANGED <<plan, ask, colls, ro, queue, chan, applied, ops, life, may>>

\* DeleteBatch resolves it for every id.
DeleteBatch ==
  LET name == In(writer.c).name
      w == deleteOne(Coll(name), In(writer.c).arg[writer.i])
  IN /\ writer.pc = "batch" /\ In(writer.c).op = "delete" /\ writer.i <= Len(In(writer.c).arg)
     /\ \/ stateErr(name) # "" /\ Rollback(heap, stateErr(name))
        \/ stateErr(name) = "" /\ w.err # "" /\ Rollback(heap, w.err)
        \/ /\ stateErr(name) = "" /\ w.err = "" /\ writer' = [writer EXCEPT !.i = @ + 1]
           /\ heap' = [heap EXCEPT ![colls[name][1]] = w.co] /\ UNCHANGED <<call, lock>>
     /\ UNCHANGED <<plan, ask, colls, ro, queue, chan, applied, ops, life, may>>

Commit ==
  /\ writer.pc = "batch" /\ writer.i > Len(In(writer.c).arg)
  /\ applied' = [applied EXCEPT ![writer.c] = @ + 1]
  /\ lock' = "" /\ Return("")
  /\ UNCHANGED <<plan, ask, store, ro, queue, chan, ops, life, may>>

\* A PostgreSQL session's transaction takes the write lock, not the pipeline.
PgBegin ==
  /\ lock = "" /\ "lock" \in may /\ ~closed /\ ~ro /\ phase \in {"up", "draining"}
  /\ lock' = "pg" /\ may' = may \ {"lock"}
  /\ UNCHANGED <<plan, ask, call, store, ro, pipe, ops, life>>
PgEnd ==
  /\ lock = "pg" /\ lock' = ""
  /\ UNCHANGED <<plan, ask, call, store, ro, pipe, ops, life, may>>

(* Serve and Stop.                                                         *)
Signal ==
  /\ "stop" \in may /\ phase = "up" /\ live /\ live' = FALSE
  /\ UNCHANGED <<plan, ask, call, store, ro, pipe, ops, phase, grace, closed, held>>

\* The context is done, or a listener failed.
Stop ==
  /\ "stop" \in may /\ phase = "up" /\ phase' = "draining"
  /\ UNCHANGED <<plan, ask, call, store, ro, pipe, ops, live, grace, closed, held>>

GraceExpires ==
  /\ phase \in {"draining", "closing"} /\ ~grace /\ grace' = TRUE
  /\ UNCHANGED <<plan, ask, call, store, ro, pipe, ops, phase, live, closed, held>>

\* Shutdown has waited for the calls, or long enough; the channel is closed.
CloseChannel ==
  /\ phase = "draining"
  /\ grace \/ \A c \in Calls : call[c].pc \in {"idle", "done"}
  /\ phase' = "closing" /\ chan' = "closed"
  /\ UNCHANGED <<plan, ask, call, store, ro, queue, writer, applied, ops, live, grace, closed, held>>

\* Variant: the writer and the jobs are not waited for.
CloseDBEarly ==
  /\ phase = "closing" /\ lock # "pg"
  /\ phase' = "stopped" /\ live' = FALSE /\ closed' = TRUE
  /\ UNCHANGED <<plan, ask, call, store, ro, pipe, ops, grace, held>>
\* The wait group: the writer, the jobs, the PostgreSQL listener.
CloseDB ==
  /\ phase = "closing"
  /\ grace \/ (writer.pc = "exit" /\ lock # "pg" /\ \A o \in DOMAIN ops : ops[o].job = "")
  /\ phase' = "stopped" /\ live' = FALSE /\ closed' = TRUE
  /\ UNCHANGED <<plan, ask, call, store, ro, pipe, ops, grace, held>>

Rest ==                                    \* nothing left to do
  /\ \/ phase = "crashed"
     \/ phase = "up" /\ writer = Selecting /\ lock = "" /\ \A c \in Calls : call[c].pc = "done"
     \/ phase = "stopped" /\ writer.pc = "exit" /\ lock = "" /\ \A c \in Calls : call[c].pc \in {"idle", "done", "wait"}
  /\ UNCHANGED vars

CallStep(c) ==
  \/ createCollection(c) \/ CreateIndex(c) \/ getCollection(c) \/ listCollections(c) \/ describeCollection(c)
  \/ dropCollection(c) \/ Collection(c) \/ beginRead(c) \/ LookupID(c) \/ Fetch(c) \/ queryPoints(c)
  \/ filterPoints(c) \/ scanPoints(c) \/ readRow(c)
  \/ Send(c) \/ Wait(c) \/ opStart(c) \/ runAsync(c) \/ Admit(c) \/ Respond(c)
WriterStep == runWriter \/ drainWriter \/ Update \/ requireWrite \/ UpsertBatch \/ DeleteBatch \/ Commit
JobStep == \E o \in DOMAIN ops : jobCheck(o) \/ jobBuild(o)

Next ==
  \/ /\ phase # "crashed"
     /\ \/ \E c \in Calls : Arrive(c) \/ ClientGone(c) \/ CallStep(c) \/ MapRace(c)
        \/ WriterStep \/ JobStep \/ PgBegin \/ PgEnd
        \/ Signal \/ Stop \/ GraceExpires \/ CloseChannel \/ CloseDB
  \/ Rest

Spec == Init /\ [][Next]_vars

(* Properties.                                                             *)
\* What a gRPC client sends is what the handler is given, and what the
\* handler returns is what the client reads, message by message, whatever
\* order maps are written in and whatever unknown fields follow; and a
\* streamed answer is the ranked results, none lost or repeated at a page's
\* end, with the running total on every frame (vecpb, grpcStreamQuery).
Intact(r) ==
  r.proto = "grpc" /\ r.frame = "whole" => Decode(r) = Got(r.body, Len(bytesOf(r)) + 1)
Understood == [n \in DOMAIN Ask |-> Intact(Ask[n])]
Sent(read, i) == FoldFunction(+, 0, [j \in 1 .. i |-> Len(read[j].results)])
Streamed(read) ==
  LET ranks == Concat([i \in DOMAIN read |-> [j \in DOMAIN read[i].results |-> read[i].results[j].rank]]) IN
  /\ ranks = [i \in 1 .. Len(ranks) |-> i]
  /\ \A i \in DOMAIN read : read[i].totalSent = Sent(read, i) /\ (read[i].done <=> i = Len(read))
EndToEnd ==
  \A c \in Calls :
    /\ call[c].pc # "idle" => Understood[plan[c]]
    /\ call[c].pc = "done" => call[c].out.read = call[c].out.sent
    /\ call[c].pc = "done" /\ call[c].out.status = 0 /\ Ask[plan[c]].method = "StreamQuery" =>
         Streamed(call[c].out.read)

\* A point read after its upsert was acknowledged, with nothing else changing
\* the collection, is the point that was written, whichever of the two
\* surfaces each call used (upsertPoints, getPoints, the conversions).  One
\* value is excepted: a boolean that was true reads back false, because
\* Value.lower fills the integer cell and valueFromStorage reads the other.
Changes(c, name) == In(c).status = 0 /\ In(c).op \in {"upsert", "delete", "create", "drop"} /\ In(c).name = name
Acked(c) == call[c].pc = "done" /\ call[c].out.status \in {0, 200, 201}
PointsRead(r, read) ==
  IF r.proto = "rest" THEN read[1] ELSE [i \in DOMAIN read[1].points |-> pbToPoint(read[1].points[i])]
Expected(p, cols) ==
  [id |-> p.id, vector |-> p.vector,
   payload |-> [k \in {k \in DOMAIN p.payload \cap cols : p.payload[k] # <<"null">>} |-> toValue(p.payload[k])]]
\* q, a reading of the point p, without the columns that p has true.
Untrue(q, p) ==
  [q EXCEPT !.payload = Restrict(@, {k \in DOMAIN @ : k \in DOMAIN p.payload => p.payload[k] # <<"bool", TRUE>>})]
ReadAfterAck ==
  \A w, r \in Calls :
    LET name == In(w).name
        pts == In(w).arg
        ids == In(r).arg.ids
        Newest(id) == pts[CHOOSE i \in DOMAIN pts : pts[i].id = id /\ \A j \in DOMAIN pts : pts[j].id = id => j <= i]
    IN /\ Acked(w) /\ In(w).op = "upsert" /\ call[r].pc = "done" /\ w \in call[r].after
       /\ In(r).status = 0 /\ In(r).op = "points" /\ In(r).name = name
       /\ \A c \in Calls \ {w} : Changes(c, name) => call[c].pc = "idle"
       /\ \A i \in DOMAIN ids : \E j \in DOMAIN pts : pts[j].id = ids[i] /\ pts[j].id # 0
       => \/ closed
          \/ /\ Acked(r)
             /\ In(r).arg.vec /\ In(r).arg.pay =>
                  LET got == PointsRead(Ask[plan[r]], call[r].out.read) IN
                  /\ DOMAIN got = DOMAIN ids
                  /\ \A i \in DOMAIN ids :
                       LET p == Newest(ids[i]) IN Untrue(got[i], p) = Untrue(Expected(p, DOMAIN Coll(name).cols), p)

\* A write is applied exactly once when it is acknowledged, at most once when
\* its client gave up, and not at all when it was refused; a refused batch
\* leaves none of its points behind (write, runWriter, DB.Update).
WriteOutcome ==
  \A c \in Calls :
    In(c).status = 0 /\ In(c).op \in {"upsert", "delete"} /\ call[c].pc = "done" =>
      CASE Acked(c) -> applied[c] = 1
        [] call[c].out.err = "ctx" -> applied[c] <= 1
        [] OTHER -> /\ applied[c] = 0
                    /\ In(c).op = "upsert" => \A g \in DOMAIN heap, i \in DOMAIN In(c).arg :
                         \A j \in Live(heap[g]) : heap[g].slots[j].vec # In(c).arg[i].vector

\* The filter a query runs selects the points the request's filter tree means:
\* all of must, one of should, none of must_not (compileFilter, buildWhere and
\* the SQL front end).  Excepted is a tree one of whose nodes has two or more
\* should clauses beside others: filterExpr joins them as (A) AND (B) OR (C),
\* and AND binds tighter.
RECURSIVE Mixes(_)
Mixes(n) ==
  \/ Len(n.should) > 1 /\ (n.must # <<>> \/ n.mustNot # <<>>)
  \/ \E m \in Range(n.must \o n.should \o n.mustNot) : Mixes(m)
RECURSIVE Means(_, _)
Means(n, row) ==
  LET v == row[n.field]
      Test(b, Ok(_, _)) == b = Nil \/ (v # SQL!Null /\ Ok(v.n, b[1]))
      r == n.range[1]
  IN IF n.must = <<>> /\ n.should = <<>> /\ n.mustNot = <<>>
     THEN CASE n.range # Nil -> /\ Test(r.gt, LAMBDA x, y : x > y) /\ Test(r.gte, LAMBDA x, y : x >= y)
                                /\ Test(r.lt, LAMBDA x, y : x < y) /\ Test(r.lte, LAMBDA x, y : x <= y)
            [] n.match # Nil -> v = Lowered(n.match[1])
            [] n.isNull # Nil -> (v = SQL!Null) = n.isNull[1]
     ELSE /\ \A i \in DOMAIN n.must : Means(n.must[i], row)
          /\ n.should # <<>> => \E i \in DOMAIN n.should : Means(n.should[i], row)
          /\ \A i \in DOMAIN n.mustNot : ~Means(n.mustNot[i], row)
Meant(co, f, filter) ==
  f.err = "" /\ ~Mixes(filter) => Matching(co, f.pred) = {i \in Live(co) :
                  Means(filter, [k \in DOMAIN co.cols |-> Lowered(co.slots[i].meta[k])])}
FilterMeaning ==
  \A c \in Calls : call[c].pc = "run" =>
    LET q == In(c).arg[call[c].i] IN
    stateErr(q.name) = "" /\ q.filter # Nil =>
      Meant(Coll(q.name), bindSelect(q.where, Coll(q.name).cols), q.filter[1])

\* Once Stop closed the database nothing is committed or rolled back in it, nor
\* an index built, unless the grace period ran out first (Stop).
StopClean == [][closed /\ (heap' # heap \/ applied' # applied) => grace]_vars

\* A request that was sent is answered, queued or with the writer, exactly
\* one of them, and while Serve's context lives the writer is there to take
\* it: nothing else could release its caller (write, runWriter).
WaitersHeld ==
  \A c \in Calls : call[c].pc = "wait" =>
    LET taken == writer.pc \in {"begin", "resolve", "batch"} /\ writer.c = c
        places == {i \in DOMAIN queue : queue[i] = c}
    IN /\ Cardinality(places) + (IF taken THEN 1 ELSE 0) + Len(call[c].done) = 1
       /\ live /\ chan = "open" => writer.pc \notin {"drain", "exit"}

\* The writer's last act on a stop is to fail what is queued, so that blocked
\* callers are released: after it no caller waits for an answer (drainWriter).
Released == \A c \in Calls : writer.pc = "exit" => call[c].pc # "wait" \/ call[c].done # Nil
=============================================================================

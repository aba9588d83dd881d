------------------------------- MODULE PgText -------------------------------
(***************************************************************************)
(* What the PostgreSQL front end (package server/pgwire) makes of SQL      *)
(* text and of bound values, apart from any connection: cutting a query    *)
(* into statements, putting parameters into the text, answering catalog    *)
(* questions from the text alone, and lowering parsed statements onto the  *)
(* facade.  PgWire runs them.                                              *)
(*                                                                         *)
(* SQL is a sequence of words, as in VectorSQL; a string literal is one    *)
(* word.  A type OID is the name of its type, "" when none is declared.    *)
(* An error is its SQLSTATE, "" when there is none.                        *)
(***************************************************************************)
EXTENDS Points

Nil == <<>>
Glue(seqs) ==
  FoldLeft(\o, <<>>, seqs)

(* Text.                                                                   *)
\* splitStatements: pieces between top-level semicolons; empty ones are
\* skipped by the caller.
splitStatements(words) ==
  LET ends == {0, Len(words) + 1} \cup {i \in DOMAIN words : words[i] = ";"}
      cuts == SetToSortSeq(ends, <)
  IN SelectSeq([n \in 1 .. Len(cuts) - 1 |-> SubSeq(words, cuts[n] + 1, cuts[n + 1] - 1)],
               LAMBDA s : s # <<>>)

\* The words the text of a literal spells, for the tests that look into the
\* text without parsing it.
Spelled(words) ==
  Glue([i \in DOMAIN words |->
          CASE words[i] = "'version()'" -> <<"'", "version", "(", ")", "'">>
            [] words[i] = "'vector'" -> <<"'", "vector", "'">>
            [] OTHER -> <<words[i]>>])
contains(low, needle) ==
  \E i \in 0 .. Len(low) - Len(needle) : SubSeq(low, i + 1, i + Len(needle)) = needle

(* Parameters.  A bound value is Nil (NULL) or <<v>>, v the bytes: a text  *)
(* [text], a big-endian number [width, n], or a vector [head, dim, elems]  *)
(* whose header counts are head bytes wide each.                           *)
quoteString(s) ==
  CASE s = "a" -> "'a'" [] s = "b" -> "'b'" [] s = "1" -> "'1'" [] s = "version()" -> "'version()'"
    [] s = "[0]" -> "'[0]'" [] s = "[1]" -> "'[1]'" [] s = "[0,0]" -> "'[0,0]'"
Content(w) == CHOOSE s \in {"a", "b", "1", "version()", "[0]", "[1]", "[0,0]"} : quoteString(s) = w

FormatInt(n) ==
  LET digits(k) == CHOOSE w \in DOMAIN SQL!Ints : SQL!Ints[w] = k
  IN IF n < 0 THEN <<"-", digits(-n)>> ELSE <<digits(n)>>
vectorText(v) == CHOOSE w \in SQL!Strings : SQL!ParseVectorLiteral[w] = v

Lit(err, words) == [err |-> err, words |-> words]

\* A declared type that the text fits makes a bare literal; anything else,
\* a vector's text too, is quoted.
encodeTextLiteral(s, oid) ==
  CASE oid \in {"int8", "int4"} /\ s \in DOMAIN SQL!Ints -> <<s>>
    [] oid = "float8" /\ s \in DOMAIN SQL!Ints \cup SQL!Floats -> <<s>>
    [] oid = "bool" /\ s \in {"t", "true"} -> <<"true">>
    [] oid = "bool" /\ s \in {"f", "false"} -> <<"false">>
    [] OTHER -> <<quoteString(s)>>

\* The 2+2 header is tried first, then 4+4, of whose count it saw the high half.
vectorFits(v) ==
  LET size == 2 * v.head + 4 * Len(v.elems) IN
  \/ 4 + 4 * (IF v.head = 2 THEN v.dim ELSE 0) = size
  \/ v.head = 4 /\ 8 + 4 * v.dim = size
decodeBinaryVector(v) ==
  IF "elems" \in DOMAIN v /\ vectorFits(v) THEN Lit("", <<vectorText(v.elems)>>) ELSE Lit("22P03", <<>>)

Binary(v, width) == "width" \in DOMAIN v /\ v.width = width
encodeBinaryLiteral(v, oid) ==
  CASE oid = "vector" -> decodeBinaryVector(v)
    [] oid = "int8" -> IF Binary(v, 8) THEN Lit("", FormatInt(v.n)) ELSE Lit("22P03", <<>>)
    [] oid = "int4" -> IF Binary(v, 4) THEN Lit("", FormatInt(v.n)) ELSE Lit("22P03", <<>>)
    [] oid = "float8" -> IF Binary(v, 8) THEN Lit("", FormatInt(v.n)) ELSE Lit("22P03", <<>>)
    [] oid = "bool" -> Lit("", IF Binary(v, 1) /\ v.n # 0 THEN <<"true">> ELSE <<"false">>)
    [] OTHER -> Lit("", <<quoteString(v.text)>>)

encodeParamLiteral(value, format, oid) ==
  CASE value = Nil -> Lit("", <<"null">>)
    [] value # Nil /\ format = 1 -> encodeBinaryLiteral(value[1], oid)
    [] OTHER -> Lit("", encodeTextLiteral(value[1].text, oid))

\* A single format code applies to all; what is not given is text.
formatOf(formats, i) ==
  CASE Len(formats) = 1 -> formats[1] [] Len(formats) # 1 /\ i <= Len(formats) -> formats[i] [] OTHER -> 0

Placeholder == [w \in {"$1", "$2", "$3"} |-> CASE w = "$1" -> 1 [] w = "$2" -> 2 [] w = "$3" -> 3]
replacePlaceholders(words, lits) ==
  Glue([i \in DOMAIN words |->
          IF words[i] \in DOMAIN Placeholder /\ Placeholder[words[i]] <= Len(lits)
          THEN lits[Placeholder[words[i]]].words ELSE <<words[i]>>])
firstError(lits) ==
  LET bad == {i \in DOMAIN lits : lits[i].err # ""} IN
  IF bad = {} THEN "" ELSE lits[CHOOSE i \in bad : \A j \in bad : i <= j].err
Substituted(words, lits) ==
  IF firstError(lits) # "" THEN Lit(firstError(lits), <<>>) ELSE Lit("", replacePlaceholders(words, lits))
substituteParams(words, values, formats, oids) ==
  Substituted(words, [i \in DOMAIN values |->
                        encodeParamLiteral(values[i], formatOf(formats, i), IF i <= Len(oids) THEN oids[i] ELSE "")])

countParams(words) ==
  LET used == {Placeholder[w] : w \in Range(words) \cap DOMAIN Placeholder} IN
  IF used = {} THEN 0 ELSE CHOOSE n \in used : \A m \in used : m <= n
inferParamOIDs(words, oids) ==
  [i \in 1 .. countParams(words) |->
     CASE i <= Len(oids) /\ oids[i] # "" -> oids[i]
       [] ~(i <= Len(oids) /\ oids[i] # "") /\ i = 1 /\ Range(words) \cap {"<", "<->", "<=>", "<#>", "<+>", "<=", "<>"} # {} -> "vector"
       [] OTHER -> "int8"]

(* Answers made from the text alone.  A result is its columns, <<name,     *)
(* OID>>, and its rows of values.                                          *)
Answer(tag, cols, rows) == [tag |-> tag, cols |-> cols, rows |-> rows]
Tagged(tag) == Answer(tag, <<>>, <<>>)
scalarText(name, value) == Answer("SELECT", <<<<name, "text">>>>, <<<<<<<<"text", value>>>>>>>>)
scalarInt(name, n) == Answer("SELECT", <<<<name, "int8">>>>, <<<<<<<<"int", n>>>>>>>>)
pgTypeCatalog == Answer("SELECT", <<<<"oid", "int8">>, <<"typname", "text">>>>,
                        [i \in 1 .. 8 |-> <<<<<<"int", i>>>>, <<<<"text", i>>>>>>])

handleShow(name, session) ==
  CASE name = "transaction_isolation" -> scalarText(name, "read committed")
    [] name = "search_path" -> scalarText(name, "public")
    [] name \in {"server_version", "server_encoding", "client_encoding", "standard_conforming_strings"} ->
         scalarText(name, "")
    [] OTHER -> scalarText(name, IF name \in DOMAIN session THEN session[name] ELSE "")

\* Tests of substrings, a literal's text included, in this order.
matchCatalog(low, k) ==
  CASE contains(low, <<"version", "(", ")">>) -> <<scalarText("version", "")>>
    [] contains(low, <<"current_schema">>) -> <<scalarText("current_schema", "public")>>
    [] contains(low, <<"current_database", "(", ")">>) -> <<scalarText("current_database", k.database)>>
    [] \/ contains(low, <<"current_user">>) \/ contains(low, <<"session_user">>)
       \/ contains(low, <<"user", "(", ")">>) -> <<scalarText("current_user", k.user)>>
    [] contains(low, <<"set_config">>) -> <<scalarText("set_config", "")>>
    [] contains(low, <<"extversion">>) /\ contains(low, <<"vector">>) -> <<scalarText("extversion", "0.8.0")>>
    [] Len(low) = 2 /\ low[1] = "show" -> <<handleShow(low[2], k.session)>>
    [] contains(low, <<"from", "pg_namespace">>) -> <<scalarText("nspname", "public")>>
    [] contains(low, <<"from", "pg_type">>) -> <<pgTypeCatalog>>
    [] contains(low, <<"select", "1">>) /\ ~contains(low, <<"from">>) -> <<scalarInt("?column?", 1)>>
    [] OTHER -> Nil

\* SET [LOCAL|SESSION] name = value, or TO; anything else sets nothing.
applySet(session, words) ==
  LET body == IF words[2] \in {"local", "session"} THEN SubSeq(words, 3, Len(words)) ELSE Tail(words)
  IN IF Len(body) = 3 /\ body[2] \in {"=", "to"} THEN (body[1] :> body[3]) @@ session ELSE session

handleCatalog(words, k) ==
  LET head == words[1] IN
  CASE head = "set" /\ Len(words) > 1 -> <<Tagged("SET")>>
    [] head \in {"create", "drop"} /\ Len(words) > 1 /\ words[2] = "extension" -> <<Tagged("EXTENSION")>>
    [] head = "discard" -> <<Tagged("DISCARD ALL")>>
    [] head = "reset" /\ Len(words) > 1 -> <<Tagged("RESET")>>
    [] OTHER -> matchCatalog(Spelled(words), k)

\* BEGIN, COMMIT and ROLLBACK by their exact text; "" is none of them.
handleTxnControl(words) ==
  CASE words \in {<<"begin">>, <<"begin", "transaction">>, <<"start", "transaction">>} -> "begin"
    [] words \in {<<"commit">>, <<"commit", "transaction">>, <<"end">>} -> "commit"
    [] words \in {<<"rollback">>, <<"rollback", "transaction">>, <<"abort">>} -> "rollback"
    [] OTHER -> ""

(* Literals.  A type is the tag of its values in Points.                   *)
None == Nil
RECURSIVE litInt(_)
litInt(e) ==
  CASE e[1] = "int" -> <<SQL!Ints[e[2][1]]>>
    [] e[1] = "neg" -> LET v == litInt(e[2]) IN IF v = Nil THEN Nil ELSE <<-v[1]>>
    [] OTHER -> Nil
RECURSIVE litFloat(_)
litFloat(e) ==
  CASE e[1] = "float" -> <<1>>
    [] e[1] = "int" -> <<2 * SQL!Ints[e[2][1]]>>
    [] e[1] = "neg" -> LET v == litFloat(e[2]) IN IF v = Nil THEN Nil ELSE <<-v[1]>>
    [] OTHER -> Nil
litString(e) == IF e[1] = "string" THEN <<Content(e[2][1])>> ELSE Nil
litBool(e) == CASE e[1] = "true" -> <<TRUE>> [] e[1] = "false" -> <<FALSE>> [] OTHER -> Nil

Value(err, v) == [err |-> err, v |-> v]
RECURSIVE exprVector(_)
exprVector(e) ==
  CASE e[1] = "cast" -> exprVector(e[2])
    [] e[1] = "string" /\ SQL!ParseVectorLiteral[e[2][1]] # <<>> -> Value("", SQL!ParseVectorLiteral[e[2][1]])
    [] OTHER -> Value("22P02", <<>>)

\* The literal as the column's type, else as the first type it is a literal of.
firstOf(vs) ==
  LET hits == {i \in DOMAIN vs : vs[i][2] # Nil} IN
  IF hits = {} THEN Value("22P02", <<"null">>)
  ELSE LET i == CHOOSE i \in hits : \A j \in hits : i <= j IN Value("", <<vs[i][1], vs[i][2][1]>>)
RECURSIVE exprValue(_, _)
exprValue(e, type) ==
  LET any == <<<<"int", litInt(e)>>, <<"float", litFloat(e)>>, <<"text", litString(e)>>>> IN
  CASE e[1] = "null" -> Value("", <<"null">>)
    [] e[1] = "cast" -> exprValue(e[2], type)
    [] type = "float" /\ e[1] \notin {"null", "cast"} -> firstOf(<<any[2], any[1], any[3]>>)
    [] type = "bool" /\ e[1] \notin {"null", "cast"} -> firstOf(<<<<"bool", litBool(e)>>>> \o any)
    [] type = "bytes" /\ e[1] \notin {"null", "cast"} -> firstOf(<<<<"bytes", litString(e)>>>> \o any)
    [] OTHER -> firstOf(any)

(* Lowering.  info is the table as GetCollection described it.             *)
isIDName(name) == name \in {"id", "point_id"}
typeOf(info, name) == IF name \in DOMAIN info.cols THEN info.cols[name] ELSE ""

\* The fields of a row so far, or the first error.
Fields(p, err) == [p |-> p, err |-> err]
setField(f, name, e, info) ==
  LET vec == exprVector(e)
      val == exprValue(e, typeOf(info, name))
  IN CASE f.err # "" -> f
       [] f.err = "" /\ name = info.vec -> Fields([f.p EXCEPT !.vector = vec.v], vec.err)
       [] OTHER -> Fields([f.p EXCEPT !.meta = (name :> val.v) @@ @], val.err)
setID(f, e) == IF f.err = "" /\ litInt(e) # Nil THEN Fields([f.p EXCEPT !.id = litInt(e)[1]], "") ELSE f

NewPoint(id) == [id |-> id, vector |-> <<>>, meta |-> EmptyMap]
buildPoint(columns, row, info) ==
  IF columns = None \/ Len(columns) # Len(row) THEN Fields(NewPoint(0), "42601")
  ELSE FoldLeft(LAMBDA f, i : IF isIDName(columns[i][1]) THEN setID(f, row[i])
                              ELSE setField(f, columns[i][1], row[i], info),
                Fields(NewPoint(0), ""), [i \in 1 .. Len(row) - 1 |-> i + 1])

\* WHERE id = n, either way round; anything else is Nil.
whereID(e) ==
  LET IsID(x) == SQL!IsColumn(x) /\ isIDName(SQL!ColumnName(x)) IN
  CASE e = None \/ e[1] # "=" -> Nil
    [] e # None /\ e[1] = "=" /\ IsID(e[2]) /\ litInt(e[3]) # Nil -> litInt(e[3])
    [] e # None /\ e[1] = "=" /\ IsID(e[3]) -> litInt(e[2])
    [] OTHER -> Nil

\* Columns of CREATE TABLE: Nil is dropped, an error its SQLSTATE.
Kinds ==
  LET Of(kind, names) == [n \in names |-> kind] IN
  Of("int", {"bigint", "int8", "integer", "int", "int4", "smallint", "int2", "serial", "bigserial"}) @@
  Of("float", {"real", "float4", "double", "double precision", "float8", "numeric", "decimal"}) @@
  Of("bool", {"boolean", "bool"}) @@
  Of("text", {"text", "varchar", "char", "character", "character varying", "name", "uuid"}) @@
  Of("bytes", {"bytea"}) @@ Of("json", {"json", "jsonb"}) @@
  Of("timestamp", {"timestamp", "timestamptz", "date"})
Has(col, opt) == \E i \in 4 .. Len(col) : col[i] = <<opt>>
lowerColumn(col) ==
  LET name == col[2][1]
      type == col[3][2][1]
      arg == col[3][3]
      Column(kind, dim) == Value("", <<[name |-> name, kind |-> kind, dim |-> dim, notNull |-> Has(col, "notnull")]>>)
  IN CASE isIDName(name) /\ Has(col, "primary") -> Value("", Nil)
       [] ~(isIDName(name) /\ Has(col, "primary")) /\ type \in {"vector", "halfvec", "floatvec"} ->
            IF arg # None /\ SQL!Ints[arg[1]] > 0 THEN Column("vector", SQL!Ints[arg[1]]) ELSE Value("42601", Nil)
       [] type \in DOMAIN Kinds /\ ~(isIDName(name) /\ Has(col, "primary")) -> Column(Kinds[type], 0)
       [] OTHER -> Value("0A000", Nil)

indexTypeFor(name) == IF name \in {"hnsw", "ivfflat", "ivfpq", "diskann"} THEN name ELSE "flat"

(* Results.                                                                *)
RECURSIVE exprHasDistance(_)
exprHasDistance(e) ==
  \/ e[1] \in Range(SQL!distanceOp)
  \/ e[1] \in {"=", "+", "-", "*", "and", "or", "neg"} /\ \E i \in 2 .. Len(e) : exprHasDistance(e[i])
  \/ e[1] = "cast" /\ exprHasDistance(e[2])

pgTypeFor == [int |-> "int8", float |-> "float8", bool |-> "bool", text |-> "text", json |-> "text",
              bytes |-> "bytea", timestamp |-> "int8", vector |-> "text"]
resolveColKind(e, info) ==
  CASE SQL!IsColumn(e) /\ isIDName(SQL!ColumnName(e)) -> "id"
    [] exprHasDistance(e) -> "distance"
    [] SQL!IsColumn(e) /\ SQL!ColumnName(e) \in DOMAIN info.cols \cup {info.vec} -> "meta"
    [] OTHER -> "expr"
selectItemName(item) ==
  CASE item[3] # None -> item[3][1] [] item[3] = None /\ SQL!IsColumn(item[2]) -> SQL!ColumnName(item[2])
    [] item[3] = None /\ exprHasDistance(item[2]) -> "distance" [] OTHER -> "?column?"

selectColumns(st, info) ==
  IF st[3][1] = "star"
  THEN <<<<"id", "int8">>>> \o [i \in DOMAIN info.order |-> <<info.order[i], pgTypeFor[info.cols[info.order[i]]]>>]
       \o <<<<"distance", "float8">>>>
  ELSE [i \in 1 .. Len(st[3]) - 1 |->
          LET item == st[3][i + 1]
              kind == resolveColKind(item[2], info)
              name == SQL!ColumnName(item[2])
          IN <<selectItemName(item),
               CASE kind = "id" -> "int8" [] kind \in {"distance", "expr"} -> "float8"
                 [] kind = "meta" -> IF name = info.vec THEN "text" ELSE pgTypeFor[info.cols[name]]>>]

\* What each output column shows, <<kind, name>>; a star goes by the names sent.
outputCols(st, cols) ==
  IF st[3][1] = "star"
  THEN [i \in DOMAIN cols |-> IF cols[i][1] \in {"id", "distance"} THEN <<cols[i][1]>> ELSE <<"meta", cols[i][1]>>]
  ELSE [i \in 1 .. Len(st[3]) - 1 |->
          LET e == st[3][i + 1][2] IN
          CASE SQL!IsColumn(e) /\ isIDName(SQL!ColumnName(e)) -> <<"id">>
            [] exprHasDistance(e) -> <<"distance">>
            [] SQL!IsColumn(e) /\ ~isIDName(SQL!ColumnName(e)) -> <<"meta", SQL!ColumnName(e)>>
            [] OTHER -> <<"expr">>]

\* A bool is sent as "t" or "f"; NULL is Nil.
encodeValueText(v) == IF v[1] = "bool" THEN <<"bool", IF v[2] THEN "t" ELSE "f">> ELSE v
encodeResultValue(r, oc) ==
  CASE oc[1] = "id" -> <<<<"int", r.id>>>>
    [] oc[1] \in {"distance", "expr"} -> <<<<"float", r.score>>>>
    [] oc[1] = "meta" -> IF oc[2] \in DOMAIN r.meta /\ r.meta[oc[2]] # <<"null">>
                         THEN <<encodeValueText(r.meta[oc[2]])>> ELSE Nil

mapError(err) ==
  CASE err = "notfound" -> "42P01" [] err = "exists" -> "42P07" [] err = "dim" -> "22000"
    [] err \in {"schema", "column"} -> "42804" [] err = "readonly" -> "25006" [] err = "canceled" -> "57014"
    [] err = "unsupported" -> "0A000" [] OTHER -> "XX000"
=============================================================================

------------------------------ MODULE MCPgWire ------------------------------
(***************************************************************************)
(* Small instances of PgWire: two clients, each with a script, over a      *)
(* table t(id, v vector(1), x bigint, s text) of two rows.                 *)
(***************************************************************************)
EXTENDS PgWire

MCConns == {"c1", "c2"}

Slot(id, vec, x, s) == [id |-> id, vec |-> vec, dead |-> FALSE, meta |-> [x |-> x, s |-> s]]
TableT == [vec |-> "v", order |-> <<"x", "s">>, idxName |-> ""] @@
          [NewCollection(1, "l2", [x |-> "int", s |-> "text"], {"s"}) EXCEPT
             !.slots = <<Slot(1, <<0>>, <<"int", 1>>, <<"text", "a">>), Slot(2, <<1>>, <<"null">>, <<"text", "b">>)>>,
             !.map = 1 :> 1 @@ 2 :> 2, !.seq = 3]
OwedT == <<1, 1>> :> <<Row(<<0>>, [x |-> <<"int", 1>>, s |-> <<"text", "a">>])>> @@
         <<1, 2>> :> <<Row(<<1>>, [x |-> <<"null">>, s |-> <<"text", "b">>])>>

(* Messages.                                                               *)
Startup(code) == [tag |-> "start", code |-> code, user |-> "u", whole |-> TRUE]
Password(ok) == [tag |-> "p", ok |-> ok, whole |-> TRUE]
Q(stmts) ==
  [tag |-> "Q", whole |-> TRUE, means |-> [i \in DOMAIN stmts |-> stmts[i][2]],
   sql |-> Glue([i \in DOMAIN stmts |-> IF i = 1 THEN stmts[i][1] ELSE <<";">> \o stmts[i][1]])]
P(name, sql, oids) == [tag |-> "P", name |-> name, sql |-> sql, oids |-> oids, whole |-> TRUE]
B(stmt, values, formats, means) ==
  [tag |-> "B", portal |-> "", stmt |-> stmt, values |-> values, formats |-> formats, means |-> means, whole |-> TRUE]
D(name) == [tag |-> "D", kind |-> "S", name |-> name, whole |-> TRUE]
E == [tag |-> "E", portal |-> "", whole |-> TRUE]
C(kind, name) == [tag |-> "C", kind |-> kind, name |-> name, whole |-> TRUE]
M(tag) == [tag |-> tag, whole |-> TRUE]
Cut(m) == [m EXCEPT !.whole = FALSE]

(* Statements with what they mean.                                         *)
Plain(words) == <<words, <<>>>>
Begins == Plain(<<"begin">>)
Commits == Plain(<<"commit">>)
Rolls == Plain(<<"rollback">>)
Inserted(id, v, x, s) == [op |-> "insert", id |-> id, vector |-> v, set |-> [x |-> <<"int", x>>, s |-> <<"text", s>>]]
Updated(id, v, set) == [op |-> "update", id |-> id, vector |-> v, set |-> set]
Into == <<"insert", "into", "t", "(", "id", ",", "v", ",", "x", ",", "s", ")", "values">>
Insert3 == <<Into \o <<"(", "3", ",", "'[1]'", ",", "9", ",", "'a'", ")">>, <<Inserted(3, <<1>>, 9, "a")>>>>
Insert39 == <<Into \o <<"(", "3", ",", "'[0]'", ",", "2", ",", "'b'", ")", ",", "(", "9", ",", "'[1]'", ",", "1", ",", "'a'", ")">>,
              <<Inserted(3, <<0>>, 2, "b"), Inserted(9, <<1>>, 1, "a")>>>>
InsertHalf == Plain(Into \o <<"(", "9", ",", "'[1]'", ",", "1", ",", "'a'", ")", ",", "(", "3", ",", "'[0,0]'", ",", "1", ",", "'a'", ")">>)
InsertNull == Plain(<<"insert", "into", "t", "(", "v", ",", "x", ")", "values", "(", "'[1]'", ",", "1", ")">>)
InsertShort == Plain(Into \o <<"(", "9", ",", "'[1]'", ")">>)
Update1 == <<<<"update", "t", "set", "x", "=", "2", "where", "id", "=", "1">>,
             <<Updated(1, <<>>, [x |-> <<"int", 2>>])>>>>
Update1V == <<<<"update", "t", "set", "v", "=", "'[1]'", ",", "s", "=", "'b'", "where", "1", "=", "id">>,
              <<Updated(1, <<1>>, [s |-> <<"text", "b">>])>>>>
UpdateBad == Plain(<<"update", "t", "set", "v", "=", "1", "where", "id", "=", "1">>)
UpdateAll == Plain(<<"update", "t", "set", "x", "=", "2">>)
Delete2 == <<<<"delete", "from", "t", "where", "id", "=", "2">>, <<[op |-> "delete", id |-> 2]>>>>
Delete9 == Plain(<<"delete", "from", "t", "where", "id", "=", "9">>)
Select(cols, table, vec, q) ==
  Plain(<<"select">> \o cols \o <<"from", table, "order", "by", vec, "<->", q, "limit", "9">>)
All9 == Select(<<"*">>, "t", "v", "'[0]'")
Near == Plain(<<"select", "id", ",", "x", ",", "v", "<->", "'[1]'", "as", "d", "from", "t", "where", "x", ">", "0",
                "order", "by", "v", "<->", "'[1]'", "limit", "1">>)
Positive == Plain(<<"select", "id", ",", "s", "from", "t", "where", "x", ">", "0", "order", "by", "v", "<->", "'[0]'", "limit", "9">>)
NotKNN == Plain(<<"select", "id", "from", "t", "limit", "1">>)
CreateU(pre) == Plain(<<"create", "table">> \o pre \o
                      <<"u", "(", "id", "bigint", "primary", "key", ",", "w", "vector", "(", "1", ")", ",", "y", "text", "not", "null", ",",
                        "z", "bytea", ")">>)
IfNot == <<"if", "not", "exists">>
CreateBad == Plain(<<"create", "table", "z", "(", "w", "vector", ",", "y", "text", ")">>)
CreateFlat == Plain(<<"create", "table", "z", "(", "y", "text", ")">>)
CreateOdd == Plain(<<"create", "table", "z", "(", "w", "vector", "(", "1", ")", ",", "y", "money", ")">>)
InsertU == <<<<"insert", "into", "u", "(", "id", ",", "w", ",", "y", ",", "z", ")", "values", "(", "1", ",", "'[1]'", ",", "'a'", ",", "'b'", ")">>,
             <<[op |-> "insert", id |-> 1, vector |-> <<1>>, set |-> [y |-> <<"text", "a">>, z |-> <<"bytes", "b">>]]>>>>
SelectU == Select(<<"id", ",", "y", ",", "z">>, "u", "w", "'[1]'")
IndexU(type, col) == Plain(<<"create", "index", "on", "u", "using", type, "(", col, ")">>)
DropIndexU == Plain(<<"drop", "index", "on", "u", "(", "w", ")">>)
DropIndexN == Plain(<<"drop", "index", "if", "exists", "n">>)
DropU(pre) == Plain(<<"drop", "table">> \o pre \o <<"u">>)

UpdateP == <<"update", "t", "set", "v", "=", "$1", "where", "id", "=", "$2">>
InsertP == <<"insert", "into", "t", "(", "id", ",", "v", ",", "x", ",", "s", ")", "values", "(", "$1", ",", "'[1]'", ",", "$2", ",", "$3", ")">>
Txt(s) == <<[text |-> s]>>
Bin(w, n) == <<[width |-> w, n |-> n]>>
BVec(head, dim, elems) == <<[head |-> head, dim |-> dim, elems |-> elems]>>

Start(s1, s2, besides) ==
  [script |-> [c1 |-> <<Startup("v3")>> \o s1, c2 |-> <<Startup("v3")>> \o s2], auth |-> "trust", ro |-> FALSE,
   may |-> besides, colls |-> [n \in {"t"} |-> <<1>>], heap |-> [g \in {1} |-> TableT], must |-> OwedT]

Block ==
  Start(<<Q(<<Begins, Insert3, All9>>), M("S"), Q(<<InsertShort, Delete2>>), M("S"), Q(<<Commits>>), M("X")>>,
        <<Q(<<Update1, Delete2>>), Q(<<All9>>), Q(<<Insert3>>)>>, {"leave"})
Undo ==
  Start(<<Q(<<Begins, Update1, Insert39, Delete2>>), Q(<<Begins, InsertHalf>>), Q(<<Near>>), Q(<<Rolls>>)>>,
        <<Q(<<Insert39>>), Q(<<All9>>), Q(<<InsertHalf>>), Q(<<Delete9>>)>>, {"stop"})
Reader ==
  Start(<<Q(<<Update1V, Begins, Insert39, Rolls, Insert3>>)>>, <<Q(<<Positive, All9>>)>>, {})
Race ==
  Start(<<Q(<<Update1V>>), Q(<<UpdateBad>>), Q(<<UpdateAll>>)>>,
        <<P("", UpdateP, <<"vector", "int8">>), D(""), B("", <<BVec(2, 1, <<1>>), Bin(8, 1)>>, <<1>>, <<Updated(1, <<1>>, EmptyMap)>>),
          E, M("S"), B("", <<BVec(4, 1, <<0>>), Bin(4, 1)>>, <<1>>, <<>>), E, M("H"), M("S")>>, {"stop"})
Extended ==
  Start(<<P("a", InsertP, <<"int8", "int4", "">>), B("a", <<Txt("3"), Bin(4, 2), Txt("b")>>, <<0, 1>>, <<Inserted(3, <<1>>, 2, "b")>>),
          E, C("P", ""), E, D("none"), B("none", <<>>, <<>>, <<>>), C("S", "a"), M("?"), M("S")>>,
        <<Q(<<Begins, Insert39>>), Q(<<Rolls, All9>>), Cut(B("none", <<>>, <<>>, <<>>)), Cut(M("Q"))>>, {"stop"})
Schema ==
  Start(<<Q(<<CreateU(<<>>), InsertU>>), Q(<<IndexU("hnsw", "w"), SelectU>>), Q(<<IndexU("diskann", "w")>>), Q(<<IndexU("hnsw", "y")>>), Q(<<DropIndexU, SelectU>>),
          Q(<<DropU(<<>>)>>), Q(<<DropU(<<"if", "exists">>), DropIndexN, DropIndexU>>)>>,
        <<Q(<<CreateU(IfNot), CreateU(<<>>)>>), Q(<<SelectU>>), Q(<<CreateBad>>), Q(<<CreateFlat>>), Q(<<CreateOdd>>), Q(<<NotKNN>>)>>, {})
Drop ==
  Start(<<Q(<<Plain(<<"drop", "table", "t">>), CreateU(<<>>)>>), Q(<<Update1>>)>>,
        <<Q(<<Update1V, Insert39, Near, Delete2>>), Q(<<Begins, Delete2>>)>>, {})
Talk ==
  [Start(<<Password(TRUE), Q(<<Plain(<<>>)>>), Q(<<Plain(<<";">>)>>), Q(<<Plain(<<"set", "x", "=", "1">>), Plain(<<"show", "x">>), Plain(<<"select", "1">>)>>),
           Q(<<Plain(<<"rollback", "to", "a">>)>>), Q(<<Plain(<<"begin", "transaction">>), Plain(<<"pragma", "x">>), Plain(<<"end">>)>>),
           Q(<<Plain(<<"select", "from">>)>>), M("X")>>, <<Password(FALSE)>>, {"leave", "stop", "fail"}) EXCEPT
     !.auth = "md5", !.script.c1 = <<Startup("ssl")>> \o @]
ReadOnly ==
  [Start(<<Q(<<Begins>>), Q(<<Insert3>>), Q(<<CreateU(<<>>)>>), Q(<<DropU(<<"if", "exists">>)>>), Q(<<All9>>)>>, <<>>, {"stop"}) EXCEPT
     !.ro = TRUE, !.script.c2 = <<Startup("cancel")>>]
Odd == [Start(<<>>, <<Cut(Password(TRUE))>>, {}) EXCEPT !.auth = "scram", !.script.c2 = <<Startup("v2")>>]

AllStarts == {Block, Undo, Reader, Race, Extended, Schema, Drop, Talk, ReadOnly, Odd}
MCStarts == AllStarts
=============================================================================

------------------------------ MODULE MCQuery -------------------------------
EXTENDS Query

MCSchema == [vec |-> "v", dim |-> 1, id |-> "id", cols |-> [a |-> "double", s |-> "text"]]
Meta(a, s) == [a |-> a, s |-> s]
P == [meta |-> Meta(Num(0), Text(0)), d |-> 1]
R == [meta |-> Meta(Num(2), Text(1)), d |-> 0]
S == [meta |-> Meta(Null, Text(0)), d |-> 2]
N == [meta |-> Meta(NaN, Text(1)), d |-> 1]
MCPoints == {P, R, S, N}
MCTables == {<<>>, <<S, P, R>>, <<N>>}

Col(c) == <<"col", <<c>>>>
Lit(n) == <<"int", <<n>>>>
Str(s) == <<"string", <<s>>>>

\* The text of a tree, with the parentheses precedence needs and no others.
Level(e) == CASE e[1] = "or" -> 1 [] e[1] = "and" -> 2 [] e[1] = "not" -> 3
              [] e[1] \in {"isnull", "isnotnull"} -> 4 [] e[1] \in cmpOpOf -> 5 [] OTHER -> 9
RECURSIVE Text1(_, _)
Text1(e, min) ==
  LET body == CASE e[1] \in {"or", "and"} -> Text1(e[2], Level(e)) \o <<e[1]>> \o Text1(e[3], Level(e) + 1)
                [] e[1] = "not" -> <<"not">> \o Text1(e[2], 3)
                [] e[1] = "isnull" -> Text1(e[2], 4) \o <<"is", "null">>
                [] e[1] = "isnotnull" -> Text1(e[2], 4) \o <<"is", "not", "null">>
                [] e[1] \in cmpOpOf -> Text1(e[2], 6) \o <<e[1]>> \o Text1(e[3], 6)
                [] e[1] = "neg" -> <<"-">> \o Text1(e[2], 9)
                [] OTHER -> e[2]
  IN IF Level(e) < min THEN <<"(">> \o body \o <<")">> ELSE body

Ask(tree, k) == [tree |-> tree, where |-> IF tree = None THEN <<>> ELSE Text1(tree, 1), limit |-> <<k>>,
                 proj |-> <<"*">>, dim |-> 1, sel |-> -1, ef |-> 0, rerank |-> 0, flat |-> TRUE,
                 extra |-> None, weights |-> <<>>, method |-> "rrf"]
Small == <<"<", Col("a"), Lit("1")>>
Mixed == <<"or", <<"=", Col("a"), Lit("1")>>,
                 <<"and", <<"isnull", Col("a")>>, <<"=", Col("s"), Str("'a'")>>>>>>
Under == <<"and", <<"or", <<">=", Lit("0"), Col("a")>>, <<"not", <<"isnull", Col("a")>>>>>>,
                  <<"<>", Col("s"), Str("'b'")>>>>
Hits(ps) == [n \in DOMAIN ps |-> [pos |-> ps[n], score |-> 10 - 2 * n]]
MCRequests ==
  {[Ask(Small, "2") EXCEPT !.flat = FALSE],
   [Ask(Under, "1") EXCEPT !.sel = 60, !.ef = 1, !.proj = <<"id">>],
   [Ask(Mixed, "1") EXCEPT !.rerank = 2, !.sel = 60, !.proj = <<"s", ",", "id">>],
   [Ask(Mixed, "2") EXCEPT !.sel = 2],
   [Ask(Small, "1") EXCEPT !.dim = 2],
   [Ask(Mixed, "2") EXCEPT !.extra = <<Hits(<<2, 1, 3>>)>>, !.sel = 60],
   [Ask(None, "2") EXCEPT !.extra = <<Hits(<<3, 2>>), Hits(<<1>>)>>, !.method = "minmax",
                          !.weights = <<1, 2>>]}
=============================================================================

----------------------------- MODULE VectorSQL ------------------------------
(***************************************************************************)
(* The VectorSQL front end (package vectorsql): the grammar of the hand-   *)
(* written parser, one definition per parse function, and the binder that  *)
(* lowers a SELECT to a bound query and its WHERE to a storage predicate.  *)
(*                                                                         *)
(* The parser is LL(1) with two tokens of lookahead and keeps its first    *)
(* error, so a parse function is a deterministic rule over tokens; "match" *)
(* runs the rules and stops at the first failure.  A source text is a      *)
(* sequence of words, one per token; what a word lexes to is "lexWord".    *)
(* A node is <<tag, children...>>, a name or a literal <<text>>, a list    *)
(* <<"list", ...>>, a flag <<"yes">> or <<"no">>, an absent child None.    *)
(***************************************************************************)
EXTENDS Integers, Sequences, Predicates

None == <<>>

(* Tokens.                                                                 *)
keywords ==
  {"add", "against", "all", "alter", "analyze", "and", "as", "asc", "begin", "between",
   "by", "case", "check", "column", "commit", "conflict", "copy", "create", "cross",
   "deallocate", "default", "delete", "desc", "distinct", "do", "drop", "else", "end",
   "execute", "exists", "explain", "filter", "first", "format", "from", "fusion", "group",
   "having", "if", "ilike", "in", "index", "insert", "into", "is", "isolation", "join",
   "keyword", "key", "last", "level", "like", "limit", "local", "match", "not", "null",
   "nulls", "offset", "on", "or", "order", "pragma", "prepare", "primary", "profile",
   "release", "rename", "returning", "rollback", "savepoint", "select", "session", "set",
   "table", "then", "to", "transaction", "unique", "update", "upsert", "using", "values",
   "when", "where", "with", "true", "false"}

\* scanOperator and scanSingle; "!=" is the token of "<>".
operators == {"<->", "<=>", "<#>", "<+>", "->>", "->", "::", "||", "<=", ">=", "<>", "!=",
              "@>", "<@", "&&", ",", "(", ")", ".", ";", "*", "=", "<", ">", "+", "-",
              "/", "%"}

Ints == [w \in {"0", "1", "2", "3", "9"} |->
           CASE w = "0" -> 0 [] w = "1" -> 1 [] w = "2" -> 2 [] w = "3" -> 3 [] w = "9" -> 9]
Floats == {"0.5"}
Strings == {"'a'", "'b'", "'1'", "'version()'", "'[0]'", "'[1]'", "'[0,0]'"}
Params == {"$1", "$2", "$3", ":p"}

lexWord(w) ==
  CASE w \in keywords -> [kind |-> "kw", text |-> w]
    [] w \in operators -> [kind |-> "op", text |-> IF w = "!=" THEN "<>" ELSE w]
    [] w \in DOMAIN Ints -> [kind |-> "int", text |-> w]
    [] w \in Floats -> [kind |-> "float", text |-> w]
    [] w \in Strings -> [kind |-> "string", text |-> w]
    [] w \in Params -> [kind |-> "param", text |-> w]
    [] OTHER -> [kind |-> "ident", text |-> w]

lex(words) == [i \in DOMAIN words |-> lexWord(words[i])]

(* Rules.  A test is a sequence of patterns for the next tokens.           *)
Kw(w) == <<[kind |-> "kw", text |-> w]>>
Op(o) == <<[kind |-> "op", text |-> o]>>
OfKind(k) == <<[kind |-> k, text |-> ""]>>

Tok(test) == [rule |-> "tok", test |-> test]          \* expect, expectKw
Word(kinds) == [rule |-> "word", kinds |-> kinds]     \* consume and keep the text
Seqn(rules) == [rule |-> "seq", rules |-> rules]
Call(name) == [rule |-> "call", name |-> name]
Node(tag, r) == [rule |-> "node", tag |-> tag, of |-> r]
Opt(test, r) == [rule |-> "opt", test |-> test, of |-> r]     \* None when absent
Flag(test) == [rule |-> "flag", test |-> test]                \* consumed or not
List(r) == [rule |-> "list", of |-> r]                        \* r {"," r}
Alt(alts) == [rule |-> "alt", alts |-> alts]                  \* <<test, rule>> pairs
\* base, then the suffixes whose tests hold, each <<test, tag, rule>>.
Post(base, sufs, loop) == [rule |-> "post", base |-> base, sufs |-> sufs, loop |-> loop]
Const(v) == [rule |-> "const", value |-> v]                   \* consumes nothing
While(test, r) == [rule |-> "while", test |-> test, of |-> r] \* a list
Otherwise == <<>>
Fail == Alt(<<>>)
Accept(test) == Alt(<<<<test, Tok(test)>>, <<Otherwise, Seqn(<<>>)>>>>)  \* optional noise word
Clause(w, r) == Opt(Kw(w), Seqn(<<Tok(Kw(w)), r>>))

Infix(o, tag, operand) == <<Op(o), tag, Seqn(<<Tok(Op(o)), Call(operand)>>)>>
Paren(r) == Seqn(<<Tok(Op("(")), r, Tok(Op(")"))>>)
Ident == Word({"ident"})
contextualWord == Word({"ident", "kw"})

exprList == List(Call("expr"))
identList == List(Ident)
qualifiedName ==
  Alt(<<<<OfKind("ident") \o Op("."), Seqn(<<Tok(OfKind("ident")), Tok(Op(".")), Ident>>)>>,
        <<Otherwise, Ident>>>>)
optionMap == Paren(List(Node("option", Seqn(<<contextualWord, Tok(Op("=")), Call("expr")>>))))

(* Expressions, lowest precedence first.                                   *)
parseOr == Post(Call("and"), <<<<Kw("or"), "or", Seqn(<<Tok(Kw("or")), Call("and")>>)>>>>, TRUE)

parseAnd == Post(Call("not"), <<<<Kw("and"), "and", Seqn(<<Tok(Kw("and")), Call("not")>>)>>>>, TRUE)

parseNot ==
  Alt(<<<<Kw("not"), Node("not", Seqn(<<Tok(Kw("not")), Call("not")>>))>>,
        <<Otherwise, Call("predicate")>>>>)

parseBetween == Seqn(<<Tok(Kw("between")), Call("distance"), Tok(Kw("and")), Call("distance")>>)
parseIn == Seqn(<<Tok(Kw("in")),
                  Paren(Alt(<<<<Kw("select"), Call("select")>>, <<Otherwise, exprList>>>>))>>)
parseLike == Seqn(<<Alt(<<<<Kw("ilike"), Tok(Kw("ilike"))>>, <<Otherwise, Tok(Kw("like"))>>>>),
                    Call("distance")>>)
Negated(r) == Seqn(<<Tok(Kw("not")), r>>)

parsePredicate ==
  Post(Call("comparison"),
       <<<<Kw("is") \o Kw("not"), "isnotnull",
           Seqn(<<Tok(Kw("is")), Tok(Kw("not")), Tok(Kw("null"))>>)>>,
         <<Kw("is"), "isnull", Seqn(<<Tok(Kw("is")), Tok(Kw("null"))>>)>>,
         <<Kw("not") \o Kw("between"), "notbetween", Negated(parseBetween)>>,
         <<Kw("between"), "between", parseBetween>>,
         <<Kw("not") \o Kw("in"), "notin", Negated(parseIn)>>,
         <<Kw("in"), "in", parseIn>>,
         <<Kw("not") \o Kw("like"), "notlike", Negated(parseLike)>>,
         <<Kw("not") \o Kw("ilike"), "notilike", Negated(parseLike)>>,
         <<Kw("like"), "like", parseLike>>,
         <<Kw("ilike"), "ilike", parseLike>>>>, TRUE)

comparisonOp == <<"=", "<>", "<", "<=", ">", ">=", "@>", "<@", "&&">>
parseComparison ==
  Post(Call("distance"), [i \in DOMAIN comparisonOp |->
                            Infix(comparisonOp[i], comparisonOp[i], "distance")], FALSE)

distanceOp == <<"<->", "<=>", "<#>", "<+>">>
parseDistance ==
  Post(Call("additive"), [i \in DOMAIN distanceOp |->
                            Infix(distanceOp[i], distanceOp[i], "additive")], TRUE)

parseAdditive ==
  Post(Call("multiplicative"),
       <<Infix("+", "+", "multiplicative"), Infix("-", "-", "multiplicative"),
         Infix("||", "||", "multiplicative")>>, TRUE)

parseMultiplicative ==
  Post(Call("unary"), <<Infix("*", "*", "unary"), Infix("/", "/", "unary"),
                        Infix("%", "%", "unary")>>, TRUE)

parseUnary ==
  Alt(<<<<Op("-"), Node("neg", Seqn(<<Tok(Op("-")), Call("unary")>>))>>,
        <<Otherwise, Call("postfix")>>>>)

parsePostfix ==
  Post(Call("primary"),
       <<<<Op("::"), "cast", Seqn(<<Tok(Op("::")), Call("type")>>)>>,
         <<Op("->"), "json", Seqn(<<Tok(Op("->")), Word({"string"})>>)>>,
         <<Op("->>"), "jsontext", Seqn(<<Tok(Op("->>")), Word({"string"})>>)>>>>, TRUE)

parseCase ==
  Seqn(<<Tok(Kw("case")),
         Alt(<<<<Kw("when"), Const(None)>>, <<Otherwise, Call("expr")>>>>),
         While(Kw("when"), Node("when", Seqn(<<Tok(Kw("when")), Call("expr"), Tok(Kw("then")),
                                               Call("expr")>>))),
         Clause("else", Call("expr")), Tok(Kw("end"))>>)

parseFuncCall ==
  Seqn(<<Ident, Tok(Op("(")),
         Alt(<<<<Op("*"), Seqn(<<Node("star", Tok(Op("*"))), Tok(Op(")"))>>)>>,
               <<Op(")"), Seqn(<<Tok(Op(")")), Const(None)>>)>>,
               <<Otherwise, Node("args", Seqn(<<Flag(Kw("distinct")), exprList,
                                                Tok(Op(")"))>>))>>>>),
         Clause("filter", Paren(Seqn(<<Tok(Kw("where")), Call("expr")>>)))>>)

\* A column reference "t.c" keeps its table; "t.*" is a star.
parseIdentPrimary ==
  Alt(<<<<OfKind("ident") \o Op("("), Node("func", parseFuncCall)>>,
        <<OfKind("ident") \o Op(".") \o Op("*"),
          Node("star", Seqn(<<Tok(OfKind("ident")), Tok(Op(".")), Tok(Op("*"))>>))>>,
        <<OfKind("ident") \o Op("."), Node("tcol", Seqn(<<Ident, Tok(Op(".")), Ident>>))>>,
        <<Otherwise, Node("col", Ident)>>>>)

parseParenOrSubquery ==
  Paren(Alt(<<<<Kw("select"), Node("subquery", Call("select"))>>, <<Otherwise, Call("expr")>>>>))

parseKeywordPrimary ==
  Alt(<<<<Kw("true"), Node("true", Tok(Kw("true")))>>,
        <<Kw("false"), Node("false", Tok(Kw("false")))>>,
        <<Kw("null"), Node("null", Tok(Kw("null")))>>,
        <<Kw("case"), Node("case", parseCase)>>,
        <<Kw("exists"), Node("exists", Seqn(<<Tok(Kw("exists")), Paren(Call("select"))>>))>>>>)

parsePrimary ==
  Alt(<<<<OfKind("int"), Node("int", Word({"int"}))>>,
        <<OfKind("float"), Node("float", Word({"float"}))>>,
        <<OfKind("string"), Node("string", Word({"string"}))>>,
        <<OfKind("param"), Node("param", Word({"param"}))>>,
        <<Op("("), parseParenOrSubquery>>,
        <<Op("*"), Node("star", Tok(Op("*")))>>,
        <<OfKind("ident"), parseIdentPrimary>>,
        <<Otherwise, parseKeywordPrimary>>>>)

\* "double precision" folds to one name; the optional argument is an integer.
parseType ==
  Node("type", Seqn(<<Alt(<<<<<<lexWord("double"), lexWord("precision")>>,
                              Seqn(<<Tok(OfKind("ident")), Tok(OfKind("ident")),
                                     Const(<<"double precision">>)>>)>>,
                            <<Otherwise, contextualWord>>>>),
                      Opt(Op("("), Paren(Word({"int"})))>>))

(* Statements.                                                             *)
Alias ==
  Alt(<<<<Kw("as"), Seqn(<<Tok(Kw("as")), Ident>>)>>, <<OfKind("ident"), Ident>>,
        <<Otherwise, Const(None)>>>>)
Aliased == Node("item", Seqn(<<Call("expr"), Alias>>))

parseSelectList == Alt(<<<<Op("*"), Node("star", Tok(Op("*")))>>, <<Otherwise, List(Aliased)>>>>)

orderByList ==
  List(Node("order", Seqn(<<Call("expr"),
    Alt(<<<<Kw("asc"), Seqn(<<Tok(Kw("asc")), Const(<<"no">>)>>)>>,
          <<Otherwise, Flag(Kw("desc"))>>>>),
    Clause("nulls", Alt(<<<<Kw("first"), Word({"kw"})>>, <<Kw("last"), Word({"kw"})>>>>))>>)))

parseFusionStream ==
  Alt(<<<<Kw("keyword"),
          Node("keyword", Seqn(<<Tok(Kw("keyword")), Tok(Kw("match")), Paren(identList),
                                 Tok(Kw("against")), Paren(Call("expr")),
                                 Clause("with", optionMap)>>))>>,
        <<Otherwise,
          Node("vector", Seqn(<<Tok(Kw("vector")), Tok(Kw("order")), Tok(Kw("by")), Ident,
                                Alt([i \in DOMAIN distanceOp |->
                                       <<Op(distanceOp[i]), Word({"op"})>>]),
                                Call("expr")>>))>>>>)

parseFusion ==
  Node("fusion", Seqn(<<Tok(Kw("fusion")), Paren(List(parseFusionStream)),
                        Clause("with", optionMap)>>))

\* A second table is refused, in the spellings whose words lex as keywords.
NoJoin == Alt(<<<<Kw("join"), Fail>>, <<Kw("cross"), Fail>>, <<Kw("inner"), Fail>>,
                <<Kw("left"), Fail>>, <<Kw("right"), Fail>>, <<Kw("full"), Fail>>,
                <<Kw("natural"), Fail>>, <<Op(","), Fail>>, <<Otherwise, Seqn(<<>>)>>>>)

\* <<"select", distinct, list, from, alias, where, group, having, fusion, order,
\*   limit, offset>>.
parseSelect ==
  Node("select", Seqn(<<
    Tok(Kw("select")),
    Opt(Kw("distinct"), Node("distinct", Seqn(<<Tok(Kw("distinct")),
                                                Clause("on", Paren(exprList))>>))),
    parseSelectList, Tok(Kw("from")), qualifiedName, Alias, NoJoin,
    Clause("where", Call("expr")),
    Clause("group", Seqn(<<Tok(Kw("by")), exprList>>)),
    Clause("having", Call("expr")),
    Opt(Kw("fusion"), parseFusion),
    Clause("order", Seqn(<<Tok(Kw("by")), orderByList>>)),
    Clause("limit", Call("expr")), Clause("offset", Call("expr"))>>))

assignList == List(Node("assign", Seqn(<<Ident, Tok(Op("=")), Call("expr")>>)))

parseReturning == Clause("returning", parseSelectList)

parseOnConflict ==
  Node("conflict", Seqn(<<Opt(Op("("), Paren(identList)), Tok(Kw("do")),
    Alt(<<<<Kw("nothing"), Word({"kw"})>>,
          <<Otherwise, Seqn(<<Tok(Kw("update")), Tok(Kw("set")), assignList>>)>>>>)>>))

parseInsert ==
  Node("insert", Seqn(<<
    Tok(Kw("insert")), Tok(Kw("into")), qualifiedName, Opt(Op("("), Paren(identList)),
    Tok(Kw("values")), List(Paren(exprList)),
    Clause("on", Seqn(<<Tok(Kw("conflict")), parseOnConflict>>)), parseReturning>>))

parseDelete ==
  Node("delete", Seqn(<<Tok(Kw("delete")), Tok(Kw("from")), qualifiedName,
                        Clause("where", Call("expr")), parseReturning>>))

parseUpdate ==
  Node("update", Seqn(<<Tok(Kw("update")), qualifiedName, Tok(Kw("set")), assignList,
                        Clause("where", Call("expr")), parseReturning>>))

parseCopy ==
  Node("copy", Seqn(<<Tok(Kw("copy")), qualifiedName, Opt(Op("("), Paren(identList)),
    Tok(Kw("from")),
    Alt(<<<<Kw("stdin"), Word({"kw"})>>, <<Otherwise, Word({"string"})>>>>),
    Clause("format", contextualWord), Clause("with", optionMap)>>))

parseTableConstraint ==
  Alt(<<<<Kw("primary"), Node("primary", Seqn(<<Tok(Kw("primary")), Tok(Kw("key")),
                                                Paren(identList)>>))>>,
        <<Kw("unique"), Node("uniques", Seqn(<<Tok(Kw("unique")), Paren(identList)>>))>>,
        <<Kw("check"), Node("check", Seqn(<<Tok(Kw("check")), Paren(Call("expr"))>>))>>,
        <<Otherwise, Call("column")>>>>)

parseColumnSpec ==
  Node("column", Seqn(<<Ident, Call("type"), [rule |-> "options", alts |->
    <<<<Kw("not"), Node("notnull", Seqn(<<Tok(Kw("not")), Tok(Kw("null"))>>))>>,
      <<Kw("null"), Node("nullable", Tok(Kw("null")))>>,
      <<Kw("default"), Node("default", Seqn(<<Tok(Kw("default")), Call("expr")>>))>>,
      <<Kw("primary"), Node("primary", Seqn(<<Tok(Kw("primary")), Tok(Kw("key"))>>))>>,
      <<Kw("unique"), Node("unique", Tok(Kw("unique")))>>>>]>>))

IfNotExists == Clause("if", Seqn(<<Tok(Kw("not")), Tok(Kw("exists")), Const(<<"yes">>)>>))

parseCreateTable ==
  Node("createtable", Seqn(<<Tok(Kw("create")), Tok(Kw("table")), IfNotExists, qualifiedName,
                             Paren(List(parseTableConstraint))>>))

parseCreateIndex ==
  Node("createindex", Seqn(<<
    Tok(Kw("create")), Flag(Kw("unique")), Tok(Kw("index")), IfNotExists,
    Opt(OfKind("ident"), Ident), Tok(Kw("on")), qualifiedName, Tok(Kw("using")),
    contextualWord, Paren(Seqn(<<Ident, Opt(OfKind("ident"), Ident)>>)),
    Clause("with", optionMap), Clause("where", Call("expr"))>>))

parseCreate == Alt(<<<<Kw("create") \o Kw("table"), parseCreateTable>>,
                     <<Otherwise, parseCreateIndex>>>>)

IfExists == Clause("if", Seqn(<<Tok(Kw("exists")), Const(<<"yes">>)>>))
parseDrop ==
  Alt(<<<<Kw("drop") \o Kw("table"),
          Node("droptable", Seqn(<<Tok(Kw("drop")), Tok(Kw("table")), IfExists,
                                   qualifiedName>>))>>,
        <<Otherwise,
          Node("dropindex", Seqn(<<Tok(Kw("drop")), Tok(Kw("index")), IfExists,
            Alt(<<<<Kw("on"), Node("oncolumn", Seqn(<<Tok(Kw("on")), qualifiedName,
                                                      Paren(Ident)>>))>>,
                  <<Otherwise, qualifiedName>>>>)>>))>>>>)

parseAlter ==
  Node("alter", Seqn(<<Tok(Kw("alter")), Tok(Kw("table")), qualifiedName,
    Alt(<<<<Kw("add"), Node("addcolumn", Seqn(<<Tok(Kw("add")), Accept(Kw("column")),
                                                Call("column")>>))>>,
          <<Kw("drop"), Node("dropcolumn", Seqn(<<Tok(Kw("drop")), Accept(Kw("column")),
                                                  Ident>>))>>,
          <<Kw("rename") \o Kw("to"), Node("renametable", Seqn(<<Tok(Kw("rename")),
                                                               Tok(Kw("to")), Ident>>))>>,
          <<Kw("rename"), Node("renamecolumn", Seqn(<<Tok(Kw("rename")),
                             Accept(Kw("column")), Ident, Tok(Kw("to")), Ident>>))>>>>)>>))

isolationLevel ==
  Alt(<<<<Kw("serializable"), Word({"kw"})>>,
        <<Kw("repeatable"), Seqn(<<Word({"kw"}), Tok(OfKind("ident"))>>)>>,
        <<Kw("read"), Node("read", Seqn(<<Tok(Kw("read")), Ident>>))>>>>)

parseTxn ==
  Alt(<<<<Kw("begin"), Node("begin", Seqn(<<Tok(Kw("begin")), Accept(Kw("transaction")),
            Clause("isolation", Seqn(<<Tok(Kw("level")), isolationLevel>>))>>))>>,
        <<Kw("commit"), Node("commit", Seqn(<<Tok(Kw("commit")), Accept(Kw("transaction"))>>))>>,
        <<Kw("rollback"), Node("rollback", Seqn(<<Tok(Kw("rollback")), Accept(Kw("transaction")),
            Clause("to", Seqn(<<Accept(Kw("savepoint")), Ident>>))>>))>>,
        <<Kw("savepoint"), Node("savepoint", Seqn(<<Tok(Kw("savepoint")), Ident>>))>>,
        <<Kw("release"), Node("release", Seqn(<<Tok(Kw("release")), Accept(Kw("savepoint")),
                                                Ident>>))>>>>)

parsePrepare ==
  Node("prepare", Seqn(<<Tok(Kw("prepare")), Ident, Opt(Op("("), Paren(List(Call("type")))),
                         Tok(Kw("as")), Call("statement")>>))

parseExecute == Node("execute", Seqn(<<Tok(Kw("execute")), Ident,
                                       Opt(Op("("), Paren(exprList))>>))

parseDeallocate ==
  Node("deallocate", Seqn(<<Tok(Kw("deallocate")), Accept(Kw("prepare")),
                            Alt(<<<<Kw("all"), Word({"kw"})>>, <<Otherwise, Ident>>>>)>>))

\* "(" is consumed before optionMap, which expects a "(" of its own.
parseExplain ==
  Node("explain", Seqn(<<Tok(Kw("explain")), Flag(Kw("analyze")),
                         Opt(Op("("), Seqn(<<Tok(Op("(")), optionMap>>)),
                         Call("statement")>>))

parsePragma ==
  Node("pragma", Seqn(<<Tok(Kw("pragma")), Post(Ident, <<Infix(".", "scoped", "ident")>>, FALSE),
    Alt(<<<<Op("="), Seqn(<<Tok(Op("=")), Call("expr")>>)>>,
          <<Op("("), Paren(Call("expr"))>>, <<Otherwise, Const(None)>>>>)>>))

parseSet ==
  Node("set", Seqn(<<Tok(Kw("set")),
    Alt(<<<<Kw("local"), Word({"kw"})>>, <<Kw("session"), Word({"kw"})>>,
          <<Otherwise, Const(None)>>>>), Ident,
    Alt(<<<<Op("="), Tok(Op("="))>>, <<Otherwise, Tok(Kw("to"))>>>>),
    Alt(<<<<Kw("default"), Word({"kw"})>>, <<Otherwise, Call("expr")>>>>)>>))

parseStatement ==
  Alt(<<<<Kw("select"), parseSelect>>, <<Kw("insert"), parseInsert>>, <<Kw("upsert"), Fail>>,
        <<Kw("delete"), parseDelete>>, <<Kw("update"), parseUpdate>>, <<Kw("copy"), parseCopy>>,
        <<Kw("create"), parseCreate>>, <<Kw("drop"), parseDrop>>, <<Kw("alter"), parseAlter>>,
        <<Kw("begin"), parseTxn>>, <<Kw("commit"), parseTxn>>, <<Kw("rollback"), parseTxn>>,
        <<Kw("savepoint"), parseTxn>>, <<Kw("release"), parseTxn>>,
        <<Kw("prepare"), parsePrepare>>, <<Kw("execute"), parseExecute>>,
        <<Kw("deallocate"), parseDeallocate>>, <<Kw("explain"), parseExplain>>,
        <<Kw("profile"), Node("profile", Seqn(<<Tok(Kw("profile")), Call("statement")>>))>>,
        <<Kw("pragma"), parsePragma>>, <<Kw("set"), parseSet>>>>)

(* Running the rules.                                                      *)
Rule(name) ==
  CASE name = "expr" -> parseOr            [] name = "and" -> parseAnd
    [] name = "not" -> parseNot            [] name = "predicate" -> parsePredicate
    [] name = "comparison" -> parseComparison [] name = "distance" -> parseDistance
    [] name = "additive" -> parseAdditive  [] name = "multiplicative" -> parseMultiplicative
    [] name = "unary" -> parseUnary        [] name = "postfix" -> parsePostfix
    [] name = "primary" -> parsePrimary    [] name = "type" -> parseType
    [] name = "ident" -> Ident             [] name = "column" -> parseColumnSpec
    [] name = "select" -> parseSelect      [] name = "statement" -> parseStatement

EOF == [kind |-> "eof", text |-> ""]
At(toks, i) == IF i > Len(toks) THEN EOF ELSE toks[i]

Holds(test, toks, i) ==
  \A j \in DOMAIN test : LET t == At(toks, i + j - 1) IN
    t.kind = test[j].kind /\ test[j].text \in {"", t.text}

\* The first alternative whose test holds at i; 0 when none does.
Choice(alts, toks, i) ==
  LET hits == {j \in DOMAIN alts : Holds(alts[j][1], toks, i)} IN
  IF hits = {} THEN 0 ELSE CHOOSE j \in hits : \A k \in hits : j <= k

Failed == [ok |-> FALSE, at |-> 0, vals |-> <<>>]
Yield(at, vals) == [ok |-> TRUE, at |-> at, vals |-> vals]

RECURSIVE match(_, _, _)
RECURSIVE matchResolved(_, _, _)
RECURSIVE matchSeq(_, _, _)
RECURSIVE matchWhile(_, _, _, _)
RECURSIVE matchPost(_, _, _, _)

matchSeq(rules, toks, i) ==
  IF rules = <<>> THEN Yield(i, <<>>)
  ELSE LET h == match(Head(rules), toks, i) IN
       IF ~h.ok THEN Failed
       ELSE LET t == matchSeq(Tail(rules), toks, h.at) IN
            IF t.ok THEN Yield(t.at, h.vals \o t.vals) ELSE Failed

\* r once, then again while "more" holds.
matchWhile(r, more, toks, i) ==
  LET h == match(r, toks, i) IN
  IF ~h.ok \/ ~Holds(more, toks, h.at) THEN h
  ELSE LET t == matchWhile(r, more, toks, IF more = Op(",") THEN h.at + 1 ELSE h.at) IN
       IF t.ok THEN Yield(t.at, h.vals \o t.vals) ELSE Failed

\* Left associative: the value so far is the first child of the next node.
matchPost(r, left, toks, i) ==
  LET c == Choice(r.sufs, toks, i) IN
  IF c = 0 THEN Yield(i, <<left>>)
  ELSE LET s == match(r.sufs[c][3], toks, i)
           node == <<r.sufs[c][2], left>> \o s.vals
       IN IF ~s.ok THEN Failed
          ELSE IF r.loop THEN matchPost(r, node, toks, s.at) ELSE Yield(s.at, <<node>>)

\* The rule that applies at i: names looked up, alternatives chosen.
RECURSIVE resolve(_, _, _)
resolve(r, toks, i) ==
  CASE r.rule = "call" -> resolve(Rule(r.name), toks, i)
    [] r.rule = "alt" -> LET c == Choice(r.alts, toks, i) IN
                         IF c = 0 THEN r ELSE resolve(r.alts[c][2], toks, i)
    [] OTHER -> r

\* The infix levels an operand at i goes through, tightest first.
RECURSIVE Levels(_, _, _)
Levels(r, toks, i) ==
  LET b == resolve(r.base, toks, i) IN
  IF b.rule = "post" THEN Append(Levels(b, toks, i), r) ELSE <<r>>
RECURSIVE climb(_, _, _)
climb(levels, b, toks) ==
  IF levels = <<>> \/ ~b.ok THEN b
  ELSE climb(Tail(levels), matchPost(Head(levels), b.vals[1], toks, b.at), toks)

match(r, toks, i) == matchResolved(resolve(r, toks, i), toks, i)

matchResolved(r, toks, i) ==
  CASE r.rule = "tok" -> IF Holds(r.test, toks, i) THEN Yield(i + 1, <<>>) ELSE Failed
    [] r.rule = "word" -> IF At(toks, i).kind \in r.kinds
                          THEN Yield(i + 1, <<<<toks[i].text>>>>) ELSE Failed
    [] r.rule = "const" -> Yield(i, <<r.value>>)
    [] r.rule = "seq" -> matchSeq(r.rules, toks, i)
    [] r.rule = "node" -> LET m == match(r.of, toks, i) IN
                          IF m.ok THEN Yield(m.at, <<<<r.tag>> \o m.vals>>) ELSE Failed
    [] r.rule = "opt" -> IF Holds(r.test, toks, i) THEN match(r.of, toks, i)
                         ELSE Yield(i, <<None>>)
    [] r.rule = "flag" -> IF Holds(r.test, toks, i) THEN Yield(i + 1, <<<<"yes">>>>)
                          ELSE Yield(i, <<<<"no">>>>)
    [] r.rule = "list" -> LET m == matchWhile(r.of, Op(","), toks, i) IN
                          IF m.ok THEN Yield(m.at, <<<<"list">> \o m.vals>>) ELSE Failed
    [] r.rule = "while" -> IF ~Holds(r.test, toks, i) THEN Yield(i, <<<<"list">>>>)
                           ELSE LET m == matchWhile(r.of, r.test, toks, i) IN
                                IF m.ok THEN Yield(m.at, <<<<"list">> \o m.vals>>) ELSE Failed
    [] r.rule = "options" -> LET c == Choice(r.alts, toks, i) IN
                             IF c = 0 THEN Yield(i, <<>>)
                             ELSE matchSeq(<<r.alts[c][2], r>>, toks, i)
    [] r.rule = "alt" -> Failed
    [] r.rule = "post" -> LET ls == Levels(r, toks, i) IN climb(ls, match(ls[1].base, toks, i), toks)

\* One statement, an optional semicolon, and nothing after it.
ParseEnd(toks, m) ==
  LET end == IF At(toks, m.at) = Op(";")[1] THEN m.at + 1 ELSE m.at IN
  IF m.ok /\ At(toks, end) = EOF THEN m.vals[1] ELSE <<"error">>
ParseTokens(toks) == ParseEnd(toks, match(Call("statement"), toks, 1))
Parse(words) == ParseTokens(lex(words))

(* Binding.  A schema is the vector column's name and dimension, the id's  *)
(* name, and the kind of every metadata column.                            *)
Error == [node |-> "error"]
IsColumn(e) == e[1] \in {"col", "tcol"}
ColumnName(e) == e[Len(e)][1]                    \* the table of "t.c" is not checked

resolveColumn(e, schema) ==
  /\ IsColumn(e)
  /\ ColumnName(e) \in DOMAIN schema.cols

cmpOpOf == {"=", "<>", "<", "<=", ">", ">="}
flipOp(op) ==
  CASE op = "<" -> ">" [] op = "<=" -> ">=" [] op = ">" -> "<" [] op = ">=" -> "<="
    [] OTHER -> op

\* coerceInt: every numeric kind compares by its float projection.  A string
\* literal is its rank among the literals.
Rank == [w \in Strings |-> CASE w = "'a'" -> 0 [] w = "'b'" -> 1 [] OTHER -> 2]
RECURSIVE bindLiteral(_)
bindLiteral(e) ==
  CASE e[1] = "int" -> Num(2 * Ints[e[2][1]])
    [] e[1] = "float" -> Num(1)
    [] e[1] = "string" -> Text(Rank[e[2][1]])
    [] e[1] = "true" -> Bool(TRUE)
    [] e[1] = "false" -> Bool(FALSE)
    [] e[1] = "neg" -> LET v == bindLiteral(e[2]) IN
                       IF v.kind = "num" THEN Num(-v.n) ELSE Null
    [] OTHER -> Null                             \* not a constant: an error

bindCompare(e, schema) ==
  LET flipped == ~IsColumn(e[2])
      col == IF flipped THEN e[3] ELSE e[2]
      lit == bindLiteral(IF flipped THEN e[2] ELSE e[3])
  IN IF resolveColumn(col, schema) /\ ~IsNull(lit)
     THEN Compare(ColumnName(col), IF flipped THEN flipOp(e[1]) ELSE e[1], lit)
     ELSE Error

RECURSIVE bindPredicate(_, _)
RECURSIVE bindBoolChain(_, _, _)
bindBoolChain(e, op, schema) ==
  IF e[1] = op THEN bindBoolChain(e[2], op, schema) \o bindBoolChain(e[3], op, schema)
  ELSE <<bindPredicate(e, schema)>>

bindPredicate(e, schema) ==
  CASE e[1] \in {"and", "or"} ->
         LET terms == bindBoolChain(e, e[1], schema) IN
         IF \E i \in DOMAIN terms : terms[i] = Error THEN Error
         ELSE IF e[1] = "and" THEN And(terms) ELSE Or(terms)
    [] e[1] \in cmpOpOf -> bindCompare(e, schema)
    [] e[1] = "not" -> LET t == bindPredicate(e[2], schema) IN
                       IF t = Error THEN Error ELSE Not(t)
    [] e[1] \in {"isnull", "isnotnull"} ->
         IF resolveColumn(e[2], schema)
         THEN IsNullPred(ColumnName(e[2]), e[1] = "isnotnull") ELSE Error
    [] OTHER -> Error

\* constInt; a non-constant is 0, which no caller accepts.
RECURSIVE constInt(_)
constInt(e) == CASE e[1] = "int" -> Ints[e[2][1]] [] e[1] = "neg" -> -constInt(e[2])
                 [] OTHER -> 0

\* The vector a literal spells; none is the empty vector.
ParseVectorLiteral ==
  [w \in Strings |-> CASE w = "'[0]'" -> <<0>> [] w = "'[1]'" -> <<1>> [] w = "'[0,0]'" -> <<0, 0>> [] OTHER -> <<>>]

\* Exactly one ORDER BY item, a distance from the vector column, and a LIMIT.
detectKNN(st, schema) ==
  LET order == st[10] limit == st[11] IN
  /\ Len(order) = 2
  /\ LET d == order[2][2] IN
     /\ \E i \in DOMAIN distanceOp : d[1] = distanceOp[i]
     /\ IsColumn(d[2]) /\ ColumnName(d[2]) = schema.vec
  /\ limit # None /\ constInt(limit) > 0

\* The metadata columns asked for.  The vector and the id are left out, and so
\* is an item that is no column; an unknown name stays, and BindSelect refuses it.
projectionColumns(st, schema) ==
  IF st[3][1] = "star" THEN DOMAIN schema.cols
  ELSE {ColumnName(st[3][i][2]) : i \in {j \in 2 .. Len(st[3]) : IsColumn(st[3][j][2])}}
       \ ({schema.vec, schema.id, "id"} \ DOMAIN schema.cols)

BindFailed == [ok |-> FALSE]
BindSelect(st, schema) ==
  LET vector == st[10][2][2][3]
      pred == IF st[6] = None THEN True ELSE bindPredicate(st[6], schema)
      project == projectionColumns(st, schema)
  IN IF /\ st[1] = "select" /\ st[9] = None /\ detectKNN(st, schema)
        /\ \/ vector[1] = "param"
           \/ vector[1] = "string" /\ Len(ParseVectorLiteral[vector[2][1]]) = schema.dim
        /\ pred # Error
        /\ project \subseteq DOMAIN schema.cols
     THEN [ok |-> TRUE, k |-> constInt(st[11]), pred |-> pred, project |-> project,
           param |-> vector[1] = "param"]
     ELSE BindFailed
=============================================================================

------------------------------ MODULE MCSqlQuery ------------------------------
(***************************************************************************)
(* Bounded instances of SqlQuery: statements of every kind over a CSV file *)
(* with a column of each type, one of them named by a keyword.             *)
(***************************************************************************)
EXTENDS SqlQuery

MCFileSchema ==
    [t |-> <<Field("id", "i64"), Field("a", "i64"), Field("b", "f64"), Field("s", "utf8"),
             Field("date", "date32")>>]
MCHeaderLines == {"t"}
MCAlphabet == <<"a", "b", "date", "id", "s">>

N(n) == Scalar("i64", n)
D(n) == Scalar("date32", n)
T == CsvDataSource("t", <<>>, TRUE, 2)

MCLiterals ==
    {Scalar(type, n) : type \in {"i64", "date32", "f64"}, n \in 0..12}
      \cup {[type |-> "f64", n |-> n, d |-> 2] : n \in {1, 3, 5}} \cup {Word(n) : n \in 0..4}

MCDatabases ==
    { [t |-> << << <<N(1), N(3), Double(3, 2), Word(2), D(1)>>,
                   <<N(2), Null, Double(1, 2), Word(3), D(3)>>,
                   <<N(1), N(1), Null, Null, D(2)>> >> >>],
      [t |-> <<>>] }

\* A file, and a DataFrame under a name that is a keyword before BY.
MCRegistrations ==
    { <<"t", Scan(T, <<>>)>>,
      <<"order", Projection(Scan(T, <<>>), <<col("id"), alias(col("b"), "a"), col("date")>>)>> }

I(name) == Identifier(name)
B(l, op, r) == BinaryExpr(l, op, r)
Fn(id, arg) == Function(id, <<arg>>)
Day(n) == DateLit(<<DateRun(n)>>)
Days(n) == IntervalLit(<<Digits(n), Space, WordRun("days")>>)

Query(projection, where, limit) == Select(projection, "t", where, <<>>, None, <<>>, limit)
GroupQuery(projection, where, by, having) == Select(projection, "t", where, by, having, <<>>, <<>>)

Wheres ==
    { None,
      B(B(I("a"), "=", Long(1)), "OR", B(B(I("id"), ">=", Long(2)), "AND", B(I("a"), "!=", Long(2)))),
      B(B(B(I("a"), "=", Long(1)), "OR", B(I("id"), "<", Long(2))), "AND", B(I("b"), ">", DoubleLit(Double(1, 2)))),
      B(B(I("a"), "-", B(I("id"), "-", Long(1))), "<=", B(B(I("id"), "+", Long(1)), "*", Long(1))),
      B(I("date"), "<=", B(Day(1), "+", Days(1))),
      B(I("s"), "=", StringLit(<<WordRun("x")>>)),
      B(I("a"), "and", I("a")) }

Lists ==
    { <<I("id"), I("a")>>,
      <<Alias(B(I("a"), "/", Long(2)), "x"), I("id")>>,
      <<I("date"), Cast(I("id"), "double"), Long(1)>>,
      <<I("s"), Alias(I("b"), "c"), I("b")>> }

GroupLists ==
    { << <<I("id"), Fn("SUM", I("a"))>>, <<I("id")>> >>,
      << <<Alias(Fn("COUNT", I("*")), "n"), Fn("avg", I("b"))>>, <<>> >>,
      << <<Fn("MAX", I("a")), I("id"), Fn("MIN", I("s"))>>, <<I("id"), I("a")>> >>,
      << <<I("id"), I("a"), Alias(Fn("COUNT", I("b")), "n")>>, <<I("a"), I("id")>> >> }

Havings == {None, B(I("id"), "=", Long(1)), B(Fn("SUM", I("a")), "=", Long(1))}

\* ORDER BY, a LIMIT beyond an i32, <>, and a registered DataFrame.
Others ==
    { Select(<<I("id")>>, "t", None, <<>>, None, <<Sort(I("id"), FALSE), Sort(I("a"), TRUE)>>, <<>>),
      Query(<<I("id")>>, None, <<12>>),
      Query(<<I("id")>>, B(I("id"), "<>", Long(1)), <<1>>),
      Select(<<I("a"), I("id")>>, "order", B(I("a"), ">", DoubleLit(Double(1, 2))), <<>>, None, <<>>, <<1>>),
      Select(<<I("a")>>, "u", None, <<>>, None, <<>>, <<>>) }

MCStatements ==
    {Query(list, where, limit) : list \in Lists, where \in Wheres, limit \in {<<>>, <<1>>}}
      \cup {GroupQuery(g[1], where, g[2], having) :
              g \in GroupLists, where \in {None, B(I("a"), ">", Long(1)), B(I("date"), ">=", Day(2))},
              having \in Havings}
      \cup Others

W(word) == WordRun(word)

\* A statement with every clause, and one with literals and LIMIT beyond an i32.
MCWhole ==
    { Select(<<I("id"), Alias(Fn("SUM", I("a")), "n")>>, "t",
             B(B(B(I("a"), "=", Long(1)), "OR", B(I("id"), "<", Long(2))), "AND", B(I("b"), ">", DoubleLit(Double(1, 2)))),
             <<I("id")>>, B(I("id"), "=", Long(1)), <<Sort(I("id"), TRUE)>>, <<1>>),
      Query(<<I("id"), Cast(I("a"), "double")>>,
            B(B(I("date"), "<=", B(Day(1), "+", Days(1))), "AND", B(I("s"), "=", StringLit(<<W("x")>>))), <<12>>) }

\* Cut off after a piece, without a piece, and with one at the end that closes nothing.
Broken(pieces) ==
    {Text(SubSeq(pieces, 1, k), TRUE) : k \in DOMAIN pieces}
      \cup {Text(RemoveAt(pieces, k), TRUE) : k \in DOMAIN pieces}
      \cup {Text(pieces \o << <<Char(ch)>> >>, TRUE) : ch \in {")", ","}}

\* Broken statements, and: no table's name, an open quote, an unknown character, a LIMIT
\* that is no number, a negative number, a point, an alias that is none, a function
\* without an argument, a table's name before a word that begins with BY.
MCOtherTexts ==
    UNION {Broken(Pieces(st, TRUE)) : st \in MCWhole}
      \cup
    { <<W("a")>>, <<>>,
      <<W("SELECT"), Char("'"), W("a"), Space, W("FROM"), Space, W("t")>>,
      <<W("SELECT"), Space, Char("$"), W("a"), Space, W("FROM"), Space, W("t")>>,
      <<W("SELECT"), Space, W("a"), Space, W("FROM"), Space, W("t"), Space, W("LIMIT"), Space, W("a")>>,
      <<W("SELECT"), Char("-"), Digits(1), Space, W("FROM"), Space, W("t")>>,
      <<W("SELECT"), Space, Char("."), Space, W("FROM"), Space, W("t")>>,
      <<W("SELECT"), Char("("), W("a"), Space, W("FROM"), Space, W("t")>>,
      <<W("SELECT"), Space, W("a"), Space, W("AS"), Space, Digits(1), Space, W("FROM"), Space, W("t")>>,
      <<W("SELECT"), Space, W("COUNT"), Char("("), Char(")"), Space, W("FROM"), Space, W("t")>>,
      <<W("SELECT"), Space, W("id"), Space, W("FROM"), Space, W("order"), Space, W("bytes")>>,
      <<W("SELECT"), Space, W("id"), Space, W("FROM"), Space, W("order"), Space, W("b")>>,
      <<W("SELECT"), Space, W("a"), Space, W("FROM"), Space, W("t"), Space, W("ORDER"), Space, W("BY"),
        Space, W("a"), Char("+"), Digits(1)>> }

-------------------------------------------------------------------------------
(* The statements outside AnswersTheStatement and ParsesAsWritten. *)

Nothing == {}
Shadowing == {Query(<<Alias(I("id"), "a"), I("id")>>, B(I("a"), "=", Long(1)), <<>>)}
NotEqual == {Query(<<I("id")>>, B(I("id"), "<>", Long(1)), <<>>)}
===============================================================================

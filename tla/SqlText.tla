------------------------------- MODULE SqlText -------------------------------
(***************************************************************************)
(* How a statement is written: with blanks between all of its pieces or    *)
(* only where two would be read as one, with its clauses' keywords in      *)
(* capitals or not, and with only the parentheses that the strength of     *)
(* SQL's operators asks for.  A name that is a keyword is back-quoted.     *)
(***************************************************************************)
EXTENDS SqlParser

Strength(op) ==
    CASE op \in {"OR", "or"} -> 1 [] op \in {"AND", "and"} -> 2
      [] op \in {"=", "!=", "<>", "<", "<=", ">", ">="} -> 3
      [] op \in {"+", "-"} -> 4 [] op \in {"*", "/"} -> 5

IsKeywordName(id) == to_uppercase(id) \in Keywords \ {"GROUP", "ORDER"}

\* The characters of an operator.
OpRuns(op) ==
    CASE op \in {"AND", "OR", "and", "or"} -> <<WordRun(op)>>
      [] op \in {"<=", ">=", "!="} -> <<Char(IF op = "<=" THEN "<" ELSE IF op = ">=" THEN ">" ELSE "!"), Char("=")>>
      [] op = "<>" -> <<Char("<"), Char(">")>>
      [] op \in {"=", "<", ">", "+", "-", "*", "/"} -> <<Char(op)>>

Quoted(content) == <<Char("'")>> \o content \o <<Char("'")>>

\* Pieces between which there may be blanks.
RECURSIVE Write(_, _)
RECURSIVE WriteList(_)
Write(e, least) ==
    LET inner == CASE e.node = "identifier" ->
                        IF e.id = "*" THEN << <<Char("*")>> >>
                        ELSE IF IsKeywordName(e.id) THEN << <<Char("backquote"), WordRun(e.id), Char("backquote")>> >>
                        ELSE << <<WordRun(e.id)>> >>
                   [] e.node = "string" -> <<Quoted(e.content)>>
                   [] e.node = "long" -> << <<Digits(e.n)>> >>
                   [] e.node = "double" -> << <<Digits(e.value.n \div e.value.d), Char("."),
                                               Digits(((10 * e.value.n) \div e.value.d) % 10)>> >>
                   [] e.node = "date" -> << <<WordRun("DATE")>>, Quoted(e.content) >>
                   [] e.node = "interval" -> << <<WordRun("INTERVAL")>>, Quoted(e.content) >>
                   [] e.node = "binary" ->
                        LET s == Strength(e.op)
                        IN  Write(e.l, s) \o <<OpRuns(e.op)>> \o Write(e.r, s + 1)
                   [] e.node = "alias" -> Write(e.expr, 0) \o << <<WordRun("AS")>>, <<WordRun(e.alias)>> >>
                   [] e.node = "sort" -> Write(e.expr, 0) \o << <<WordRun(IF e.asc THEN "ASC" ELSE "DESC")>> >>
                   [] e.node = "cast" ->
                        << <<WordRun("CAST")>>, <<Char("(")>> >> \o Write(e.expr, 0)
                          \o << <<WordRun("AS")>>, <<WordRun(e.data_type)>>, <<Char(")")>> >>
                   [] e.node = "function" ->
                        << <<WordRun(e.id)>>, <<Char("(")>> >> \o WriteList(e.args) \o << <<Char(")")>> >>
    IN  IF e.node = "binary" /\ Strength(e.op) < least
        THEN << <<Char("(")>> >> \o inner \o << <<Char(")")>> >> ELSE inner

WriteList(es) ==
    FlattenSeq([i \in DOMAIN es |->
                  (IF i = 1 THEN <<>> ELSE << <<Char(",")>> >>) \o Write(es[i], 0)])

Clause(present, words, pieces) ==
    IF present THEN [i \in DOMAIN words |-> <<WordRun(words[i])>>] \o pieces ELSE <<>>

\* With the keywords in capitals or in small letters.
Pieces(st, capital) ==
    LET kw(upper, lower) == IF capital THEN upper ELSE lower
    IN  Clause(TRUE, <<kw("SELECT", "select")>>, WriteList(st.projection))
          \o Clause(TRUE, <<kw("FROM", "from"), st.table_name>>, <<>>)
          \o Clause(st.selection # None, <<kw("WHERE", "where")>>, Write(st.selection, 0))
          \o Clause(st.group_by # <<>>, <<kw("GROUP", "group"), kw("BY", "by")>>, WriteList(st.group_by))
          \o Clause(st.having # None, <<kw("HAVING", "having")>>, Write(st.having, 0))
          \o Clause(st.order_by # <<>>, <<"ORDER", "BY">>, WriteList(st.order_by))
          \o Clause(st.limit # <<>>, <<kw("LIMIT", "limit")>>, << <<Digits(st.limit[1])>> >>)

\* Two runs that would be read as one.
Touching(a, b) == {a.run, b.run} \subseteq {"word", "digits"}

\* The text, with blanks between all pieces or only where they are needed.
Text(pieces, blanks) ==
    FoldLeft(LAMBDA t, piece :
               IF t # <<>> /\ (blanks \/ Touching(Last(t), Head(piece))) THEN t \o <<Space>> \o piece
               ELSE t \o piece,
             <<>>, pieces)
===============================================================================

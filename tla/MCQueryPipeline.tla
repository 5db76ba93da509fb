--------------------------- MODULE MCQueryPipeline ---------------------------
(***************************************************************************)
(* Bounded instances of QueryPipeline: four files whose columns sorting by *)
(* name reorders (but for p, read as Parquet), read through every kind of  *)
(* source, and queries of a few operations.                                *)
(***************************************************************************)
EXTENDS QueryAnswers

\* The file h has no header line, so the names of its columns are made up.
MCFileSchema ==
    [t |-> <<Field("id", "i64"), Field("a", "i64")>>,
     u |-> <<Field("id", "i64"), Field("b", "f64")>>,
     p |-> <<Field("a", "i64"), Field("d", "date32"), Field("id", "i64")>>,
     q |-> <<Field("id", "i64"), Field("a", "i64")>>,
     h |-> <<Field("column_1", "i64"), Field("column_2", "i64")>>]
MCHeaderLines == {"t"}
MCAlphabet == <<"a", "b", "column_1", "column_2", "d", "id">>

T == CsvDataSource("t", <<>>, TRUE, 2)
U == InMemoryDataSource("u")
MCSources == {T, U, ParquetDataSource("p"),
              CsvDataSource("h", <<Field("id", "f64"), Field("a", "i64")>>, FALSE, 2)}
UnsortedParquet == {ParquetDataSource("q")}
OnlyT == {T}

N(n) == Scalar("i64", n)
D(n) == Scalar("date32", n)
Halves(n) == Double(n, 2)

MCLiterals == {Scalar(type, n) : type \in {"i64", "date32", "f64"}, n \in {1, 2}}

\* Rows without a partner on either side, a key with two partners, NULL keys and
\* values, an empty batch, an empty table.
MCDatabases ==
    { [t |-> << << <<N(1), N(1)>>, <<N(2), Null>>, <<N(1), N(2)>> >> >>,
       u |-> << << <<N(1), Halves(2)>>, <<N(3), Halves(3)>> >>, <<>>, << <<N(1), Null>> >> >>,
       p |-> << << <<N(1), D(1), N(1)>> >>, << <<N(1), D(3), N(2)>>, <<N(2), D(2), Null>> >> >>,
       q |-> << << <<N(3), N(2)>> >> >>,
       h |-> << << <<N(1), N(1)>>, <<N(2), Null>> >> >>],
      [t |-> << << <<Null, N(1)>>, <<N(1), Null>> >> >>,
       u |-> << << <<Null, Halves(1)>>, <<N(1), Halves(1)>> >> >>,
       p |-> << << <<Null, Null, N(1)>>, <<Null, D(1), N(1)>> >> >>,
       q |-> <<>>,
       h |-> <<>>] }

OnId == << <<"id", "id">> >>
ScanU == Scan(U, <<>>)

\* The alias b is also a column of u.
MCProjections ==
    { <<col("id"), col("a")>>, <<lit_long(1)>>,
      <<alias(binary("mult", col("a"), lit_long(2)), "b"), col("id")>>,
      <<col_index(1), binary("add", cast(col("a"), "f64"), col("b"))>> }

MCPredicates ==
    { binary("gteq", col("a"), lit_long(1)),
      binary("or", binary("gteq", col("b"), lit(Halves(2))), binary("eq", col("id"), lit_long(1))),
      binary("lteq", col("d"), binary("date_add", lit(D(1)), lit_interval(1))),
      binary("gt", cast(col("COUNT"), "i64"), binary("mod", col("a"), lit_long(2))),
      not_(binary("eq", col("id"), lit_long(1))) }

MCAggregates ==
    { << <<>>, <<aggregate_expr("count", lit_long(1))>> >>,
      << <<col("a")>>, <<aggregate_expr("count", col("id"))>> >>,
      << <<col("id")>>, <<aggregate_expr("max", col("a")), aggregate_expr("avg", col("b"))>> >>,
      << <<col_index(1)>>, <<aggregate_expr("sum", col("id")), aggregate_expr("min", col("a"))>> >>,
      << <<>>, <<aggregate_expr("count_distinct", col("id"))>> >> }

MCLimits == {-1, 2}

MCJoins ==
    {<<ScanU, type, OnId>> : type \in {"inner", "left"}}
      \cup {<<Scan(T, <<>>), "inner", OnId>>}
      \cup {<<ScanU, "left", OnId \o << <<"a", "b">> >> >>}
      \cup {<<Projection(ScanU, <<alias(col("id"), "k"), col("b")>>), "right", << <<"a", "k">> >> >>}

-------------------------------------------------------------------------------
(* The queries outside AnswersTheQuery. *)

None == {}
RightOnId ==
    {<<Projection(Scan(InMemoryDataSource("q"), <<>>), <<col("id"), alias(col("a"), "b")>>), "right", OnId>>}
TwoColumns == {<<col("id"), col("a")>>}
===============================================================================

----------------------------- MODULE PhysicalExec -----------------------------
(***************************************************************************)
(* execute of the physical operators, on the batches of a database db.     *)
(*                                                                         *)
(* execute returns a lazy iterator of batches.  A stream stands for what   *)
(* a consumer that drains it sees: its batches, and whether the pull after *)
(* them panics.  HashMap order makes the output of aggregates and right    *)
(* joins a set of streams.                                                 *)
(***************************************************************************)
EXTENDS PhysicalPlan

Stream(batches) == [batches |-> batches, panic |-> FALSE]
PanicStream == [batches |-> <<>>, panic |-> TRUE]

Rows(stream) == FlattenSeq(stream.batches)

\* An operator that turns each batch into one of its own; map gives a batch or a
\* panic, on which the stream ends.
Mapped(stream, mapped) ==
    LET bad == SelectInSeq(mapped, LAMBDA m : m.panic)
        kept == IF bad = 0 THEN mapped ELSE SubSeq(mapped, 1, bad - 1)
    IN  [batches |-> [b \in DOMAIN kept |-> kept[b].rows], panic |-> bad # 0 \/ stream.panic]

Batch(rows) == [rows |-> rows, panic |-> FALSE]
PanicBatch == [rows |-> <<>>, panic |-> TRUE]

\* record_batch::create checks the types of the columns against the schema.
create(s, types, rows) == IF Types(s) = types THEN Batch(rows) ELSE PanicBatch

-------------------------------------------------------------------------------
(* ScanExec, SelectionExec, ProjectionExec. *)

scan(x, db) ==
    LET readable(rows) ==
            IF \E r \in DOMAIN rows : Panic \in ToSet(rows[r]) THEN PanicBatch ELSE Batch(rows)
        stream(batches) ==
            Mapped(Stream(batches), [b \in DOMAIN batches |-> readable(batches[b])])
    IN  stream(source_scan(x.source, x.projection, db[x.source.file]))

\* Mutant: only a definite FALSE drops a row.
filter_KeepsUnknown(rows, selection) ==
    LET kept == SelectSeq([i \in DOMAIN rows |-> i], LAMBDA i : selection[i] # Bool(FALSE))
    IN  [k \in DOMAIN kept |-> rows[kept[k]]]

\* Only Boolean(true) keeps a row: neither FALSE nor UNKNOWN.
filter(rows, selection) ==
    LET kept == SelectSeq([i \in DOMAIN rows |-> i], LAMBDA i : selection[i] = Bool(TRUE))
    IN  [k \in DOMAIN kept |-> rows[kept[k]]]

SelectionExec_execute(x, input) ==
    LET types == batch_types(x.input)
        select_rows(rows, selection) ==
            IF selection = PanicVector THEN PanicBatch
            ELSE create(exec_schema(x.input), types, filter(rows, selection.values))
    IN  Mapped(input, [b \in DOMAIN input.batches |->
                 select_rows(input.batches[b], evaluate(x.expr, types, input.batches[b]))])

ProjectionExec_execute(x, input) ==
    LET types == batch_types(x.input)
        project(rows, columns) ==
            IF PanicVector \in ToSet(columns) THEN PanicBatch
            ELSE create(x.schema, [i \in DOMAIN columns |-> columns[i].type],
                        [r \in DOMAIN rows |-> [i \in DOMAIN columns |-> columns[i].values[r]]])
    IN  Mapped(input, [b \in DOMAIN input.batches |->
                 project(input.batches[b],
                         [i \in DOMAIN x.exprs |-> evaluate(x.exprs[i], types, input.batches[b])])])

-------------------------------------------------------------------------------
(* LimitExec: a budget carried across batches.  It is looked at after the next *)
(* batch has been pulled, so the input is always pulled once too often.        *)

LimitStep(st, batch, matches) ==
    IF st.ended THEN st
    ELSE IF st.remaining = 0 THEN [st EXCEPT !.ended = TRUE]
    ELSE IF Len(batch) <= st.remaining
         THEN [st EXCEPT !.batches = Append(@, batch), !.remaining = @ - Len(batch)]
    ELSE IF matches
         THEN [st EXCEPT !.batches = Append(@, SubSeq(batch, 1, st.remaining)), !.remaining = 0]
    ELSE [st EXCEPT !.ended = TRUE, !.panic = TRUE]

LimitExec_execute(x, input) ==
    LET matches == Types(exec_schema(x.input)) = batch_types(x.input)
        start == [batches |-> <<>>, remaining |-> x.limit, ended |-> FALSE, panic |-> FALSE]
        end == FoldLeft(LAMBDA st, batch : LimitStep(st, batch, matches), start, input.batches)
    IN  [batches |-> end.batches, panic |-> end.panic \/ (~end.ended /\ input.panic)]

-------------------------------------------------------------------------------
(* HashAggregateExec: one batch, its rows in any order. *)

HashAggregateExec_execute(x, input) ==
    LET streams(result) == IF result.panic THEN {PanicStream}
                           ELSE {Stream(<<rows>>) : rows \in SetToSeqs(result.rows)}
    IN  IF input.panic THEN {PanicStream}
        ELSE streams(execute(x, x.mode, batch_types(x.input), input.batches))

-------------------------------------------------------------------------------
(* HashJoinExec: build on the right, probe with the left. *)

key_of(row, keys) == [i \in DOMAIN keys |-> row[keys[i]]]

combine_rows(x, left_row, right_row) ==
    LET kept == SelectSeq([i \in DOMAIN right_row |-> i],
                          LAMBDA i : i \notin x.right_columns_to_exclude)
    IN  left_row \o [k \in DOMAIN kept |-> right_row[kept[k]]]

NullRow(x) == [i \in DOMAIN exec_schema(x) |-> Null]

\* The hash table's entry for a key: the right rows that have it, in order.
Matches(x, table, key) == SelectSeq(table, LAMBDA row : key_of(row, x.right_keys) = key)

\* What the probe phase emits for one left row.
Probe(x, table, left_row) ==
    LET found == Matches(x, table, key_of(left_row, x.left_keys))
    IN  IF found = <<>> /\ x.join_type = "left"
        THEN <<combine_rows(x, left_row, NullRow(x.right))>>
        ELSE [k \in DOMAIN found |-> combine_rows(x, left_row, found[k])]

\* The left rows are those of the second execution of the left input.
unmatched(x, table, left_rows) ==
    LET matched == {key_of(left_rows[i], x.left_keys) : i \in DOMAIN left_rows}
        keys == {key_of(table[i], x.right_keys) : i \in DOMAIN table} \ matched
        emit(key) == LET rows == Matches(x, table, key)
                     IN  [k \in DOMAIN rows |-> combine_rows(x, NullRow(x.left), rows[k])]
    IN  {FlattenSeq([i \in DOMAIN order |-> emit(order[i])]) : order \in SetToSeqs(keys)}

\* create_batch: a builder per column of the schema, each appending values of its type.
Buildable(x, row) == Len(row) = Len(x.schema) /\ Appendable(Types(x.schema), row)

\* The streams of one execution of the right input and two of the left.
HashJoinExec_execute(x, right, left, left_again) ==
    LET table == Rows(right)
        probed == [b \in DOMAIN left.batches |->
                     FlattenSeq([r \in DOMAIN left.batches[b] |-> Probe(x, table, left.batches[b][r])])]
        extra == IF x.join_type = "right" THEN unmatched(x, table, Rows(left_again)) ELSE {<<>>}
        outputs == {SelectSeq(Append(probed, rows), LAMBDA batch : batch # <<>>) : rows \in extra}
        built(batches) == \A row \in ToSet(FlattenSeq(batches)) : Buildable(x, row)
    IN  IF right.panic \/ left.panic \/ left_again.panic THEN {PanicStream}
        ELSE {IF built(batches) THEN Stream(batches) ELSE PanicStream : batches \in outputs}

-------------------------------------------------------------------------------
(* ShuffleWriterExec and ShuffleReaderExec with one partition: every row that  *)
(* is written is read back, in batches as they were written, so the stream of  *)
(* a reader is that of the stage that wrote.                                   *)

\* The partition expressions are those of the aggregate, on the rows it wrote.
ShuffleWriterExec_execute(x, input) ==
    LET types == batch_types(x.input)
        partitioned(rows) ==
            IF \E i \in DOMAIN x.partition_expr : evaluate(x.partition_expr[i], types, rows) = PanicVector
            THEN PanicBatch ELSE Batch(rows)
    IN  Mapped(input, [b \in DOMAIN input.batches |-> partitioned(input.batches[b])])

-------------------------------------------------------------------------------
\* The streams an execution of x may produce.
Executions(x, db) ==
    LET streams[y \in Parts(x)] ==
          CASE y.op = "scan" -> {scan(y, db)}
            [] y.op = "selection" -> {SelectionExec_execute(y, s) : s \in streams[y.input]}
            [] y.op = "projection" -> {ProjectionExec_execute(y, s) : s \in streams[y.input]}
            [] y.op = "limit" -> {LimitExec_execute(y, s) : s \in streams[y.input]}
            [] y.op = "aggregate" ->
                 UNION {HashAggregateExec_execute(y, s) : s \in streams[y.input]}
            [] y.op = "join" ->
                 LET again(lefts, left) == IF y.join_type = "right" THEN lefts ELSE {left}
                     joined(lefts, rights) ==
                         UNION {UNION {UNION {HashJoinExec_execute(y, right, left, other)
                           : other \in again(lefts, left)} : left \in lefts} : right \in rights}
                 IN  joined(streams[y.left], streams[y.right])
            [] y.op = "shuffle_writer" ->
                 {ShuffleWriterExec_execute(y, s) : s \in streams[y.input]}
            [] y.op = "shuffle_reader" -> {y.written}
    IN  streams[x]
===============================================================================

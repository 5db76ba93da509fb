------------------------------ MODULE DataSource ------------------------------
(***************************************************************************)
(* Schemas, and the data sources a scan reads: CSV files, Parquet files    *)
(* and batches in memory.                                                  *)
(*                                                                         *)
(* A schema is a sequence of fields, a field a name and a type.  Column    *)
(* indices start at 1.  A file is read as a sequence of batches of rows;   *)
(* in a CSV file the batches mean nothing, the reader makes its own.       *)
(***************************************************************************)
EXTENDS Expressions, TLC

CONSTANTS
    FileSchema,     \* the schema of each file, or table in memory
    HeaderLines     \* the CSV files whose first line names the columns

Fields == [name : STRING, type : STRING]

ASSUME FileSchemaAssumption ==
    /\ \A f \in DOMAIN FileSchema : FileSchema[f] \in Seq(Fields)
    /\ \A f \in DOMAIN FileSchema : \A i, j \in DOMAIN FileSchema[f] :
         FileSchema[f][i].name = FileSchema[f][j].name => i = j
    /\ HeaderLines \subseteq DOMAIN FileSchema

Field(name, type) == [name |-> name, type |-> type]
Names(schema) == [i \in DOMAIN schema |-> schema[i].name]
Types(schema) == [i \in DOMAIN schema |-> schema[i].type]

\* Position of the first field of that name, 0 if there is none.
position(schema, name) == SelectInSeq(schema, LAMBDA f : f.name = name)

\* The elements of a sequence that are in a set.
Among(seq, S) ==
    LET kept[n \in 0..Len(seq)] ==
          IF n = 0 THEN <<>>
          ELSE IF seq[n] \in S THEN Append(kept[n - 1], seq[n]) ELSE kept[n - 1]
    IN  kept[Len(seq)]

select(schema, names) == [i \in DOMAIN names |-> schema[position(schema, names[i])]]

-------------------------------------------------------------------------------
(* Sources.  A CSV source may declare a schema (<<>> if it does not). *)

CsvDataSource(file, schema, has_headers, batch_size) ==
    [kind |-> "csv", file |-> file, schema |-> schema,
     has_headers |-> has_headers, batch_size |-> batch_size]

ParquetDataSource(file) == [kind |-> "parquet", file |-> file]
InMemoryDataSource(file) == [kind |-> "memory", file |-> file]

DataSources ==
    [kind : {"csv"}, file : DOMAIN FileSchema, schema : Seq(Fields), has_headers : BOOLEAN,
     batch_size : Nat \ {0}]
      \cup [kind : {"parquet", "memory"}, file : DOMAIN FileSchema]

\* Arrow's inference reads the types off the rows; without a header line the
\* names are made up, and FileSchema holds those.
infer_schema(source) == FileSchema[source.file]

source_schema(source) ==
    IF source.kind = "csv" /\ source.schema # <<>> THEN source.schema ELSE infer_schema(source)

-------------------------------------------------------------------------------
(* DataSource::scan. *)

\* The columns of the batches, in their order: a ProjectionMask selects columns of
\* a Parquet file but keeps the file's order.
ScannedColumns(source, projection) ==
    LET all == Names(source_schema(source))
    IN  CASE projection = <<>> -> all
          [] projection # <<>> /\ source.kind = "parquet" ->
               Among(all, ToSet(projection))
          [] projection # <<>> /\ source.kind # "parquet" -> projection

\* A reader told to expect a header line takes the first line for one.
Lines(source, rows) ==
    IF source.has_headers /\ source.file \notin HeaderLines /\ rows # <<>> THEN Tail(rows) ELSE rows

Chunks(rows, size) ==
    [k \in 1..((Len(rows) + size - 1) \div size) |->
       SubSeq(rows, (k - 1) * size + 1, IF k * size < Len(rows) THEN k * size ELSE Len(rows))]

\* The text of a CSV field, parsed as the declared type.
parse_field(v, type) == IF v.type = type THEN v ELSE cast_value(v, type)

Batches(source, data) ==
    IF source.kind = "csv" THEN Chunks(Lines(source, FlattenSeq(data)), source.batch_size) ELSE data

\* Mutant: the source ignores the projection.
source_scan_Unprojected(source, projection, data) == Batches(source, data)

source_scan(source, projection, data) ==
    LET s == source_schema(source)
        names == ScannedColumns(source, projection)
        at == [i \in DOMAIN names |-> position(s, names[i])]
        pick(row) == [i \in DOMAIN names |->
                        IF source.kind = "csv" THEN parse_field(row[at[i]], s[at[i]].type)
                        ELSE row[at[i]]]
        batches == Batches(source, data)
    IN  [b \in DOMAIN batches |-> [r \in DOMAIN batches[b] |-> pick(batches[b][r])]]
===============================================================================

---------------------------- MODULE ParquetStore ----------------------------
(***************************************************************************)
(* Parquet segments: ParquetStrataWriter (parquet_writer.rs), which keeps  *)
(* all rows in memory until flush_all overwrites the two files of each     *)
(* segment, and ParquetStrataReader (parquet_reader.rs), which skips       *)
(* segments by bitset and row groups by column statistics, and counts rows *)
(* in three ways.                                                          *)
(*                                                                         *)
(* segs is the metadata that load_segments returns: a segment's layout,    *)
(* bitset and bucket counts.  A cell in a typed column is stored as        *)
(* Canon spells it when it is read again.                                  *)
(***************************************************************************)
EXTENDS Pruning, Sequences, Functions

CONSTANTS
  Schemas,    \* typed schemas in use: functions from columns to types
  Canon,      \* a cell stored as a number and printed, or Missing for NULL
  Rank,       \* byte order of the cells
  Dotted,     \* columns of a file whose path ends in "." and the column
  GroupSize,  \* rows per Parquet row group
  MaxRows     \* bound: calls of write_row

Types     == {"Utf8", "Int64", "Float64", "Boolean"}
NoSchema  == << >>

ASSUME SchemaAssumption ==
  /\ Schemas \subseteq UNION {[C -> Types] : C \in SUBSET Columns}
  /\ Rank \in [Values -> Nat]
  /\ Dotted \in [Columns -> SUBSET Columns]
  /\ GroupSize \in Nat \ {0}
  /\ MaxRows \in Nat
  /\ \A values \in ExactSets : IsFiniteSet(values)
ASSUME CanonAssumption ==  \* printing a number and reading it keeps its value
  /\ Canon \in [{"Int64", "Float64"} -> [Values -> Values \cup {Missing}]]
  /\ \A t \in DOMAIN Canon, v \in Values :
       Canon[t][v] # Missing => Parse[Canon[t][v]] = Parse[v]

VARIABLES
  schema,    \* ParquetWriterConfig.schema, or NoSchema
  builders,  \* the rows of every segment builder
  step,      \* how far flush_all has got: "idle", "drain", or in a segment
  current,   \* {key} of the segment being written, else {}
  files,     \* the data files: column types and rows read from them
  torn,      \* segments whose metadata file is not complete
  damaged,   \* history: segments whose flush began and did not end
  calls      \* number of calls of write_row

writer      == <<schema, builders, step, current, calls>>
directory   == <<segs, files, torn, damaged>>
parquetVars == <<layout, segs, filters, schema, builders, step, current, files,
                 torn, damaged, calls>>

-----------------------------------------------------------------------------
(* build_string_batch: the columns of the first row, none of them nullable. *)
FirstColumns(rows) == {c \in Columns : rows[1][c] # Missing}

BatchFails(rows) ==
  /\ schema = NoSchema
  /\ \E i \in DOMAIN rows, c \in FirstColumns(rows) : rows[i][c] = Missing

BatchTypes(rows) ==
  IF schema = NoSchema THEN [c \in FirstColumns(rows) |-> "Utf8"] ELSE schema

(* A cell as read_parquet_file_with_pushdown reads it: numbers are printed, *)
(* NULLs and booleans skipped.                                             *)
DecodeCell(type, v) ==
  IF v = Missing \/ type = "Boolean" THEN Missing
  ELSE IF type = "Utf8" THEN v
  ELSE Canon[type][v]

DecodeRow(row, types) ==
  [c \in Columns |-> IF c \in DOMAIN types THEN DecodeCell(types[c], row[c])
                     ELSE Missing]

(* The data file of these rows; origin is history. *)
DataFile(rows) ==
  LET types == BatchTypes(rows) IN
  [whole  |-> TRUE, types |-> types,
   rows   |-> [i \in DOMAIN rows |-> DecodeRow(rows[i], types)],
   origin |-> rows]

TornFile == [whole |-> FALSE, types |-> << >>, rows |-> << >>, origin |-> << >>]

(* The metadata a builder has gathered in write_row. *)
RowsAt(rows, idx) == {i \in DOMAIN rows : compute_bitset_index(rows[i], layout) = idx}

BuilderMeta_Last(rows) ==  \* bug: the bitset is assigned, not set bit by bit
  LET bits == {compute_bitset_index(rows[i], layout) : i \in DOMAIN rows} IN
  [layout |-> layout,
   bitset |-> SetBits(EmptyBitset(BitsetSize(layout)),
                      {compute_bitset_index(rows[Len(rows)], layout)}),
   counts |-> [idx \in bits |-> Cardinality(RowsAt(rows, idx))]]
BuilderMeta_Shared(rows) ==  \* bug: a bucket is counted once
  LET bits == {compute_bitset_index(rows[i], layout) : i \in DOMAIN rows} IN
  [layout |-> layout,
   bitset |-> SetBits(EmptyBitset(BitsetSize(layout)), bits),
   counts |-> [idx \in bits |-> 1]]
BuilderMeta(rows) ==
  LET bits == {compute_bitset_index(rows[i], layout) : i \in DOMAIN rows} IN
  [layout |-> layout,
   bitset |-> SetBits(EmptyBitset(BitsetSize(layout)), bits),
   counts |-> [idx \in bits |-> Cardinality(RowsAt(rows, idx))]]

Put(f, k, value) == [x \in DOMAIN f \cup {k} |-> IF x = k THEN value ELSE f[x]]
Without(f, k)    == [x \in DOMAIN f \ {k} |-> f[x]]

-----------------------------------------------------------------------------
ParquetInit ==
  /\ Init
  /\ schema \in Schemas \cup {NoSchema}
  /\ builders = << >>
  /\ step = "idle"
  /\ current = {}
  /\ files = << >>
  /\ torn = {}
  /\ damaged = {}
  /\ calls = 0

WriteParquetRow(row) ==
  /\ step = "idle"
  /\ calls < MaxRows
  /\ calls' = calls + 1
  /\ LET key == compute_segment_key(row, layout)
         old == IF key \in DOMAIN builders THEN builders[key] ELSE << >>
     IN builders' = Put(builders, key, Append(old, row))
  /\ UNCHANGED <<layout, filters, schema, step, current, directory>>

FlushAllParquet ==
  /\ step = "idle"
  /\ builders # << >>
  /\ step' = "drain"
  /\ UNCHANGED <<layout, filters, calls, schema, builders, current, directory>>

(* The next builder, in the arbitrary order of the map: File::create       *)
(* truncates its data file in place.                                       *)
CreateData(k) ==
  /\ step = "drain"
  /\ k \in DOMAIN builders
  /\ ~BatchFails(builders[k])
  /\ step' = "data"
  /\ current' = {k}
  /\ files' = Put(files, k, TornFile)
  /\ damaged' = damaged \cup {k}
  /\ UNCHANGED <<layout, filters, calls, schema, builders, segs, torn>>

(* RecordBatch::try_new fails before any file is touched; the drain is     *)
(* dropped with the builders that were not written.                        *)
BatchError(k) ==
  /\ step = "drain"
  /\ k \in DOMAIN builders
  /\ BatchFails(builders[k])
  /\ step' = "idle"
  /\ builders' = << >>
  /\ UNCHANGED <<layout, filters, calls, schema, current, directory>>

WriteParquetData(k) ==
  /\ step = "data"
  /\ k \in current
  /\ step' = "meta"
  /\ files' = [files EXCEPT ![k] = DataFile(builders[k])]
  /\ UNCHANGED <<layout, filters, calls, schema, builders, current, segs, torn, damaged>>

(* write_metadata_json: created in place, and nothing merged. *)
CreateMeta(k) ==
  /\ step = "meta"
  /\ k \in current
  /\ step' = "json"
  /\ torn' = torn \cup {k}
  /\ segs' = Without(segs, k)
  /\ UNCHANGED <<layout, filters, calls, schema, builders, current, files, damaged>>

WriteParquetMeta(k) ==
  /\ step = "json"
  /\ k \in current
  /\ step' = "drain"
  /\ current' = {}
  /\ torn' = torn \ {k}
  /\ segs' = Put(segs, k, BuilderMeta(builders[k]))
  /\ builders' = Without(builders, k)
  /\ damaged' = damaged \ {k}
  /\ UNCHANGED <<layout, filters, calls, schema, files>>

FinishParquetFlush ==
  /\ step = "drain"
  /\ builders = << >>
  /\ step' = "idle"
  /\ UNCHANGED <<layout, filters, calls, schema, builders, current, directory>>

(* The process dies, or a system call fails and the rest of the drain is   *)
(* dropped.                                                                *)
StopWriting_Keeps ==  \* bug: the segment is still the one being written
  /\ step' = "idle"
  /\ builders' = << >>
  /\ UNCHANGED <<layout, filters, calls, schema, current, directory>>
StopWriting ==
  /\ step' = "idle"
  /\ builders' = << >>
  /\ current' = {}
  /\ UNCHANGED <<layout, filters, calls, schema, directory>>

(* ParquetStrataWriter::new, on the directory as it is. *)
NewParquetWriter(s) ==
  /\ step = "idle"
  /\ schema' = s
  /\ builders' = << >>
  /\ UNCHANGED <<layout, filters, calls, step, current, directory>>

(* The predicate is built by the caller. *)
BuildPredicate ==
  /\ \/ \E c \in Columns, values \in ExactSets : add_filter(c, values)
     \/ \E c \in RangeColumns, min, max \in Bounds : add_range_filter(c, min, max)
     \/ \E c \in RangeColumns, min \in Bounds : add_min_filter(c, min)
     \/ \E c \in RangeColumns, max \in Bounds : add_max_filter(c, max)
  /\ UNCHANGED <<writer, files, torn, damaged>>

ParquetNext ==
  \/ \E row \in TableRows : WriteParquetRow(row)
  \/ FlushAllParquet
  \/ \E k \in DOMAIN builders : CreateData(k)
  \/ \E k \in DOMAIN builders : BatchError(k)
  \/ \E k \in current : WriteParquetData(k)
  \/ \E k \in current : CreateMeta(k)
  \/ \E k \in current : WriteParquetMeta(k)
  \/ FinishParquetFlush
  \/ StopWriting
  \/ \E s \in Schemas \cup {NoSchema} : NewParquetWriter(s)
  \/ BuildPredicate

ParquetSpec == ParquetInit /\ [][ParquetNext]_parquetVars

-----------------------------------------------------------------------------
(* Row groups and their statistics. *)

GroupOf(i) == (i - 1) \div GroupSize

(* The cells of a column in the row group of the i-th row that are not     *)
(* NULL.                                                                   *)
GroupCells(file, i, c) ==
  {file.rows[j][c] : j \in {j \in DOMAIN file.rows : GroupOf(j) = GroupOf(i)}}
    \ {Missing}

(* The columns whose statistics prune_row_groups may take for column c: it *)
(* looks for the first path that is c or ends in ".c".  Which one is first *)
(* is left open: Pruned allows any of them, and so skips no less.          *)
StatsColumns(file, c) == DOMAIN file.types \cap ({c} \cup Dotted[c])

(* A value within the bounds of a string column's statistics. *)
AnyPossible_Strict(values, cells) ==  \* bug: the bounds themselves are left out
  \E v \in values, lo, hi \in cells : Rank[lo] < Rank[v] /\ Rank[v] < Rank[hi]
AnyPossible(values, cells) ==
  \E v \in values, lo, hi \in cells : Rank[lo] <= Rank[v] /\ Rank[v] <= Rank[hi]

(* extract_numeric_bounds, and the overlap with the range; f64::MIN and    *)
(* f64::MAX stand for the infinities.                                      *)
Overlaps(f, numbers) ==
  /\ f.min = MinF \/ \E n \in numbers : n >= f.min
  /\ f.max = MaxF \/ \E n \in numbers : n <= f.max

Skips(f, type, cells) ==
  \/ /\ f.kind = "exact"
     /\ type = "Utf8"
     /\ cells # {}
     /\ ~AnyPossible(f.values, cells)
  \/ /\ f.kind = "range"
     /\ type \in {"Int64", "Float64"}
     /\ LET numbers == {Parse[v] : v \in cells} \ {NaN}
        IN numbers # {} /\ ~Overlaps(f, numbers)

(* prune_row_groups, for the row group of the i-th row. *)
Pruned(file, i) ==
  \E c \in Columns : \E d \in StatsColumns(file, c) :
    Skips(filters[c], file.types[d], GroupCells(file, i, d))

(* read_parquet_file_with_pushdown: the rows returned, by position. *)
read_with_pushdown(file) ==
  {i \in DOMAIN file.rows : ~Pruned(file, i) /\ matches(file.rows[i])}

-----------------------------------------------------------------------------
(* Queries, on a directory whose metadata loads. *)

read_and_filter(keys) ==
  UNION {{k} \X read_with_pushdown(files[k]) : k \in keys \cap DOMAIN files}

Exact == {c \in Columns : filters[c].kind = "exact"}

(* count_in_parquet_file knows the exact filters, on string columns. *)
count_in_parquet_file_Absent(file) ==  \* bug: a column not in the file matches
  {i \in DOMAIN file.rows :
     \A c \in Exact \cap DOMAIN file.types :
       /\ file.types[c] = "Utf8"
       /\ file.rows[i][c] \in filters[c].values}
count_in_parquet_file(file) ==
  {i \in DOMAIN file.rows :
     \A c \in Exact :
       /\ c \in DOMAIN file.types
       /\ file.types[c] = "Utf8"
       /\ file.rows[i][c] \in filters[c].values}

count_exact(first) ==
  UNION {{k} \X count_in_parquet_file(files[k])
           : k \in filter_segments(first) \cap DOMAIN files}

(* compute_query_bucket_indices: one index for every combination of the     *)
(* values of exact filters, always hashed, and of all other buckets.       *)
query_buckets(l, i) ==
  LET f == filters[l.dims[i]] IN
  IF f.kind = "exact" /\ f.values # {}
    THEN {<<v, route_value(v, l.buckets[i])>> : v \in f.values}
    ELSE {<<b, b>> : b \in 0 .. l.buckets[i] - 1}

query_indices(l) ==
  query_buckets(l, 1) \X query_buckets(l, 2) \X query_buckets(l, 3)

get_bucket_count(k, idx) ==
  IF idx \in DOMAIN segs[k].counts THEN segs[k].counts[idx] ELSE 0

query_count(k, l) ==
  SumFunction([q \in query_indices(l) |->
                 get_bucket_count(k, BitIndex(l, q[1][2], q[2][2], q[3][2]))])

count_from_metadata(first) ==
  SumFunction([k \in DOMAIN segs |-> query_count(k, segs[first].layout)])

-----------------------------------------------------------------------------
(* Properties. *)

Cells == Values \cup {Missing}
FileTypes == UNION {[C -> Types] : C \in SUBSET Columns}

(* The state has the types of the writer's fields and of the files. *)
ParquetTypeOK ==
  /\ layout \in Layouts
  /\ filters \in [Columns -> FilterType]
  /\ schema \in Schemas \cup {NoSchema}
  /\ \A k \in DOMAIN builders : builders[k] \in Seq(TableRows) \ {<< >>}
  /\ step \in {"idle", "drain", "data", "meta", "json"}
  /\ current \subseteq DOMAIN builders
  /\ step \in {"data", "meta", "json"} <=> current # {}
  /\ \A k \in DOMAIN files :
       /\ files[k].types \in FileTypes
       /\ files[k].rows \in Seq(RowSpace)
  /\ calls \in 0 .. MaxRows
  /\ torn \subseteq damaged /\ damaged \subseteq DOMAIN files

(* Every segment but those whose flush was cut short has a data file and   *)
(* metadata from one flush: the bits and the bucket counts are those of    *)
(* the rows in the file, whatever was stored before, whatever fails for    *)
(* another segment, and wherever the process dies.                         *)
SegmentsWhole ==
  \A k \in DOMAIN files \ damaged :
    LET l   == segs[k].layout
        row == files[k].origin
    IN
    /\ k \in DOMAIN segs
    /\ files[k].rows = [i \in DOMAIN row |-> DecodeRow(row[i], files[k].types)]
    /\ segs[k].bitset.bits = {compute_bitset_index(row[i], l) : i \in DOMAIN row}
    /\ \A idx \in segs[k].bitset.bits :
         get_bucket_count(k, idx) =
           Cardinality({i \in DOMAIN row : compute_bitset_index(row[i], l) = idx})

(* Metadata can be loaded, and the files of these segments can be opened. *)
Readable(keys) ==
  /\ torn = {}
  /\ \A k \in keys \cap DOMAIN files : files[k].whole

(* No filter is on a column that the statistics look-up can mistake for    *)
(* another, ...                                                            *)
Unmistaken ==
  \A c \in Columns : filters[c].kind # "none" =>
    \A k \in DOMAIN files : DOMAIN files[k].types \cap Dotted[c] = {}

(* ... and exact filters are on string columns.                            *)
ExactOnStrings(columns) ==
  \A c \in columns \cap Exact : \A k \in DOMAIN files :
    c \in DOMAIN files[k].types => files[k].types[c] = "Utf8"

Dimensions == {layout.dims[i] : i \in Dim}

(* A range on a hashed dimension is resolved to the wrong buckets. *)
RangesOnMars ==
  \A i \in Dim : filters[layout.dims[i]].kind = "range" => layout.types[i] = "Numeric"

(* "Three-level pruning": whichever segments and row groups are skipped,   *)
(* the answer has exactly the rows of the data files that match.  Exact    *)
(* filters on dimensions need string columns, for routing sees the text    *)
(* that a typed column does not keep.                                      *)
AnswerExact ==
  Unmistaken /\ ExactOnStrings(Dimensions) /\ RangesOnMars =>
    \A first \in DOMAIN segs :
      LET keys == filter_segments(first) IN
      Readable(keys) =>
        \A k \in DOMAIN files \ damaged : \A i \in DOMAIN files[k].rows :
          <<k, i>> \in read_and_filter(keys) <=> matches(files[k].rows[i])

(* count_exact counts what read_and_filter returns, when no filter is a    *)
(* range and none is on a typed column: the count looks at neither.        *)
CountExactAgrees ==
  /\ Unmistaken /\ ExactOnStrings(Columns)
  /\ \A c \in Columns : filters[c].kind # "range"
  => \A first \in DOMAIN segs :
       Readable(filter_segments(first)) =>
         count_exact(first) = read_and_filter(filter_segments(first))

(* tests/storage/parquet_reader.rs: the metadata count "must be >= the     *)
(* exact count and never undercount".  It does not when exact filters on   *)
(* dimensions are on hashed ones and on string columns.                    *)
CountNeverUnder ==
  /\ damaged = {}
  /\ ExactOnStrings(Dimensions)
  /\ \A i \in Dim : layout.dims[i] \in Exact => layout.types[i] = "Categorical"
  => \A first \in DOMAIN segs :
       count_from_metadata(first)
         >= Cardinality(read_and_filter(filter_segments(first)))

=============================================================================

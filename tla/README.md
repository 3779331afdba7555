# A verification project for STRATA

STRATA stores the rows of a table in *segments*. A row's first two dimensions
choose the segment, all three choose a bit in the segment's existence bitset,
and a query compares its own bit mask with that bitset to decide which segments
to read. This directory holds TLA+ models of the program, TLC configurations
that check them on small instances, and proofs for all instances. Paths such as
`storage/writer.rs` are relative to the crate's `src/` directory.

## 1. The system

| Component | State it keeps | Operations | Talks to |
| --- | --- | --- | --- |
| Ingestion engine, `storage/writer.rs` | segment builders in memory; per segment a data file and a metadata JSON | `new` (with replay), `write_row`, threshold flush, `flush_all` | log, routing, statistics, file system |
| Write-ahead log, `storage/wal.rs` | `wal.log`, one JSON line per row | `create`, `append`, `truncate`, `replay_wal` | only the ingestion engine |
| Routing, `routing/hash.rs`; bitsets, `types.rs` | none | hash and MARS bucket, segment key, bitset index; `set`, `merge`, `intersects` | writers and readers |
| Reader, `storage/reader.rs` | metadata of the segments as of `load_segments`; the predicate a caller builds | `add_*_filter`, `build_mask`, `filter_segments`, `matches`, `read_and_filter`, `aggregate_multi` | files, routing |
| SQL bridge, `query/sql.rs` | the predicate under construction | `parse_query`, `collect_filters` | reader |
| Statistics, `types.rs` | `ColumnStats` per column and segment | `update_column_stats`, `merge` | writer (fills them), reader (adds them up) |
| HTTP server, `server.rs` | map of tables behind an `RwLock`; per table a cached reader behind another | `/load`, `/query`, `/tables`, `/health`, startup | all of the above |
| Parquet writer, `storage/parquet_writer.rs` | all rows since it was made, by segment; per segment two files | `new`, `write_row`, `flush_all` | routing, file system |
| Parquet reader, `storage/parquet_reader.rs` | metadata as of `load_segments` | `filter_segments`, `prune_row_groups`, `read_and_filter`, `count_exact`, `count_from_metadata` | files, routing, the predicate of the reader |
| Arrow Flight, `flight.rs`, `bin/strata_flight_server.rs` | the tables found when it started | `do_get_fallback`, `execute_query` | the directories the HTTP server writes, reader, SQL bridge |

What makes each correct:

* **Ingestion and log.** An acknowledged row survives crashes and errors, but
  for those that cut a file it is in. The log is dropped only when all its rows
  are stored *and reachable*. Data and metadata are two files, so the order in
  which they are written matters. Hard
  because a crash or an error can fall between any two system calls, because
  replay repeats work, and because a writer can be used on after an error.
* **Routing and pruning.** No false negatives: a segment with a matching row is
  never skipped. A range touches few MARS buckets. Hard at the numeric edges
  (negative, below one, text, beyond the last bucket), when layouts change
  between sessions, and when the data file does not give back what was routed
  (a missing value becomes an empty cell).
* **SQL bridge.** What the bridge ignores or relaxes must let more rows through,
  never fewer. Hard because conditions on one column replace or narrow each
  other depending on their order.
* **Statistics.** Merged over any sequence of flushes they equal what the rows
  say, or the metadata cannot be read.
* **Data files.** What is read from a CSV file is what was written, though its
  text can be cut anywhere and rows of other columns follow; for Parquet, the two
  files of a segment belong together and skipping row groups changes no answer.
* **Server.** A load's rows are visible to later queries; cached metadata never
  claims rows that do not exist; a table is created once; nobody waits forever.
  Hard because loads of an existing table share the *read* lock of the map, so
  two writers can be in one directory and in one file, because a restarted
  server gives its tables another layout, and because a handler can be dropped
  at any `await`.

`PROJECT.json` lists the hazards one by one, at the line where they bite, with
the properties that watch them.

## 2. Modules

| Module | Models | Composition |
| --- | --- | --- |
| `DurableStore` | abstract: what is acknowledged is durable, and what is durable stays until a write to one of its files is interrupted | — |
| `StrataWriter` | ingestion engine and log of one directory | implements `DurableStore` |
| `StrataWriterProofs` | proofs about it | extends `StrataWriter` |
| `CsvFile` | the text of one CSV data file, through interruptions and replays | — |
| `CsvProofs` | proofs about it | extends `CsvFile`, `SumLemmas` |
| `Routing` | buckets, keys, bitsets as operators | — |
| `Pruning` | segments on disk, the predicate, `filter_segments` | extends `Routing` |
| `PruningProofs` | proofs about both | extends `Pruning` |
| `SqlQuery` | WHERE clause to predicate to rows | extends `Pruning` |
| `SqlProofs` | proofs about it | extends `SqlQuery`, `PruningProofs` |
| `ParquetStore` | Parquet writer and reader on one directory | extends `Pruning` (predicate, routing, segment pruning) |
| `ParquetProofs` | proofs about it | extends `ParquetStore`, `PruningProofs`, `SumLemmas` |
| `Aggregation` | column statistics from row to query | — |
| `AggregationProofs` | proofs about it | extends `Aggregation`, `SumLemmas` |
| `SumLemmas` | lemmas: induction over numbers and finite sets, sums over finite sets, the size of a union | — |
| `RwLock` | tokio's fair read-write lock as a value (external) | — |
| `TableServer` | `/load` and `/query` of the HTTP server and `do_get` of the Flight server on one table | extends `RwLock` |
| `TableServerProofs` | proofs about it, and about the lock's queue | extends `TableServer` |
| `MC*` | the small instances | extend the module of their name |

### StrataWriter

The directory is `wal`, `copies` (how often each row can be *read* in its data
file), `file` (the state of that file) and `meta`; the writer object is `mode`,
`logging`, `buffered` and `row`; a builder on its way to disk is `step`, `fresh`,
`flushing`, `unwritten`, `merged`. One action is one system call that changes a
file, so `Crash` and the `...Fails` actions can fall between any two of them:

* `StrataWriter::new` is `Open`, the drain loop `DrainNext` with the flush steps,
  and `FinishReplay`, which keeps the old log as the code does.
* `WalWriter::append` is `AppendJson` and `AppendNewline`: `writeln!` on a `File`
  writes the JSON and the newline in two calls. A line is a *set* of rows
  because two rows can come to share one.
* `flush_to_disk_with_format` is `OpenCsv` and `WriteCsv`, or `RenameParquet`,
  then `TruncateMeta` (`File::create`) and `WriteMeta`. `OpenCsv` looks for the
  file, which decides about the header (`fresh`), and creates it; `WriteCsv`
  moves any chunk of the rows, since the CSV writer's buffer spills.
* A data file is `bare` before its header is in it, `cut` when its last record is
  incomplete, and `ruined` when what stands in it is no longer read as rows:
  a row is where the header should be, or a record is not UTF-8. `LeaveBehind`
  is what an interrupted write leaves, and `WriteCsv` says what appending to each
  state does. `CsvFile` has the text behind these states.
* Metadata are `broken` when the file is cut short, and also when a statistic is
  not finite (a row in `NonFinite`): `serde_json` writes `null` for it and does
  not read it back. `WriteMeta` succeeds all the same, and the log is removed.
* `interrupted` remembers, as history, the files some write to which was not
  carried through; the log leaves it when it is removed.
* `flush_all` is `FlushAll`, `DrainNext` and `FinishFlushAll`. An error drops the
  `Drain` iterator and with it every builder not yet written.

`OneShot` says how callers behave: `TRUE` is `load_csv` in `server.rs`, which
drops the writer after an error and after `flush_all`; `FALSE` lets a caller go
on with it.

What a `write` system call has put into a file survives the crash of the
*process*; a power failure, which `fsync` is for, is not modelled (nothing in the
crate calls `WalWriter::sync`).

### CsvFile

The file is a sequence of tokens. A cell that is not empty is two tokens, so the
csv writer's buffer, which `Spill` moves into the file in any portions, can be
cut inside a cell, between cells and between records. `StartFlush` looks whether
the file exists (which decides about the header) and creates it; `Interrupt` is a
crash or a returned error at any later moment; `Replay` is what the next
`StrataWriter::new` does with the logged rows. `read_csv_file` reads the text
back with the csv crate's rules (blank lines skipped, a last line without newline
read, records longer or shorter than the header allowed by `flexible(true)`).
The two tokens of a value in `Wide` are the halves of one character: a record cut
between them is not UTF-8 (`Garbled`), and `read_csv_file` returns an error for
the whole file (`ReadFails`). Cells that need quotes are left out, so a newline
always ends a record.

### Routing and Pruning

Values are opaque; `Hash` and `Parse` are arbitrary functions on them, so the
proofs hold for whatever ahash and `f64::from_str` compute. Numbers are integers
in units of `1/Scale`, which makes fractions below one exist. `Magnitude` is
⌊log₂⌋ saturated to 0 and clamped to the last bucket. `Pruning` writes rows with
the layout of the day and builds a predicate with the four `add_` operations in
any order; `filter_segments` makes *one* mask from the first segment's layout,
with "first" chosen arbitrarily as `read_dir` does. `ReadBack` is what a file
gives back of a row: a CSV cell of a missing value reads as the empty string,
while Parquet keeps the null.

### SqlQuery

A clause is a sequence of conjuncts, taken one by one by the `Collect...` actions
while rows are loaded. An argument can be something that is no literal
(`opaque`): a comparison with one fails the query (`CollectFails`), a list drops
it, a `BETWEEN` with one adds no filter. `Holds` and `Selected` say independently
what SQL means, and the properties compare. `Straight` are the clauses the bridge
is not stricter than. `LIMIT` and the SELECT list are abstracted away.

### ParquetStore

`WriteParquetRow` routes a row to its builder. `flush_all` is `FlushAllParquet`,
then for each builder, in any order, `CreateData`, `WriteParquetData`,
`CreateMeta`, `WriteParquetMeta`: both files are created in place, and
`StopWriting` (a crash or an error) can fall between any two. `BatchError` is
`RecordBatch::try_new` refusing a missing value in a column that is not
nullable, which ends `flush_all` and drops the builders not yet written.
`DataFile` holds the rows as they will be *read*: `DecodeCell` is what is left of
a cell after it was stored in its column's type and printed again, by way of the
constant `Canon` (so `9.0` in an integer column is NULL).
`origin` keeps the rows that were written, as history. `Pruned` is
`prune_row_groups` with statistics computed from the cells of a row group;
`count_in_parquet_file` and `count_from_metadata` are the other two ways to
answer a query. Column statistics are assumed to be there and exact, as the
`parquet` crate writes them; a column of NULLs has none.

### Aggregation

One column; a row is its cell. Numbers are integers, so sums are exact and the
rounding of `f64` addition is outside the model. Cells that parse to a NaN or an
infinity (`NotFinite`) and sums beyond `MaxF` make the statistics not `finite`:
such a metadata file is not `Readable`, later flushes of that segment fail
(`FlushFails`), and a table that has one is not `Loadable`: it cannot be loaded
again, and no aggregate is computed.

### TableServer

One table, one segment, one bit per row. The program counter of a request is the
`await` or the file access it is about to make. `write_data_csv` is `OpenData`
and any number of `Spill`s, as in `StrataWriter`. While one load spills, another
may open the same file and spill too: `SpillAlone` is a spill of the only writer,
`SpillAmong` one of several, which may lose any of its records, or ruin the file.
`damaged` remembers, as history, that a crash cut the data file or that two loads
had the data or the metadata file open for writing at the same moment. Two writers
of the metadata leave the text of either, one that is no JSON, or a mixture of
fields (`Texts`).

File accesses of different requests interleave because handlers run on several
worker threads. Locks are taken in tokio's order (first come, first served). `logs` and `path` keep apart
the file that *is* `wal.log` and a file another writer still has open after
`remove_file`. A load's `creating` table enters the map only in `FinishLoad`,
under the write lock, as `tables.insert` does.

`table` is who put the table into the map, because that decides about the layout
its rows are written in: `Config` of the load that created it, or of `Startup`
after a `Restart`, which gives every table on disk the default configuration.
Metadata carry the layouts of their rows. With rows of one layout a query keeps
the segment of its row if the bit is there; with rows of two, `KeptBy` leaves it
open, since one mask is compared with bitsets of both (`PruningRestart` shows
what goes wrong).

A load in `Unroutable` asks for zero buckets or for two dimensions. The request's
configuration is used only when it creates the table; then routing panics on the
first row, which is in the log by that time, or on the first replayed one, and
the task unwinds with its locks (`RoutingPanics`).

The Flight server is another process on the same directory. It lists the tables
once (`StartFlight`), and every query loads the metadata (`FlightSegments`) and
then reads the data file (`FlightScan`); loads of the HTTP server go on in
between.

## 3. Runs

Passing runs:

| Run | Question | Bounds |
| --- | --- | --- |
| `StrataWriter` | all promises of the engine under crashes and errors, as `load_csv` uses it (CSV) | 3 rows, 2 segments, threshold 2 (so that both the threshold and `flush_all` flush), 3 writers |
| `WriterReused` | what is left with Parquet files and a caller that goes on after an error or `flush_all` | the same, 2 writers |
| `Pruning` | no false negatives, near-optimality, narrowing | 5 rows at the numeric edges, one MARS and two hashed dimensions of 4, 2 and 2 buckets, bounds −1, ½, 3 and 9 |
| `Sql` | exact results for the documented forms, no row lost by other clauses that are `Straight` | all clauses of one or two conjuncts from a pool of 21: 9 of the documented forms, 2 strict bounds, 1 the bridge ignores, 5 with arguments that are no literals, 4 negated or written backwards |
| `Aggregation` | metadata answers against the rows | 4 rows, 2 segments; two numbers, a text, an infinity and absent cells; two of the larger number overflow; sessions that hash the column or read it |
| `ServerSerial` | one load at a time, crash at any write and restart with another layout, closed connections, a malformed load, one that panics; the Flight server meanwhile | 3 loads, a query on each server, 1 crash |
| `ServerConcurrent` | loads racing in one directory, the client of one of which may leave | 3 loads, no query |
| `Csv` | what is read of a CSV file after interruptions, replays and batches of other columns | 3 columns, 4 kinds of batch, values of one and of several bytes, 3 flushes cut at every token |
| `Parquet` | pairs of files that belong together, three-level pruning, both counts | 3 rows, row groups of 2, string and two typed schemas, one MARS and one hashed layout, one exact set and one bound |

The bounds are the smallest in which each case of the code happens: two rows of
one segment so that merges happen, a second segment so that the drain loop has an
order, a second writer so that replay happens, a third load so that two can race
after the table exists. Every disjunct of every next-state relation fires in some
passing run. Deadlock checking is off where a bounded supply of inputs (rows, requests,
writers) runs out and the system rests; that nothing rests too early is what
`CallsReturn` and `AllAnswered` say.

In `Csv` three flushes are two batches and a replay, or a batch cut, replayed and
cut again; in `Parquet` three rows of two segments overfill a row group and let
one segment be flushed over.

Three runs end in a violation. Each checks one sentence that a comment, a doc or
a test of the repository says and the code does not do; `findings` in
`PROJECT.json` quotes it.

| Run | What it shows |
| --- | --- |
| `PruningRestart` | After a restart the server loads with default dimensions and bucket counts. The trace writes one row before and one after it; a query without any filter makes its mask for one segment's layout, and the bitset of the other, of another size, does not intersect it: the segment is skipped. No range is involved (`RangeColumns` is empty). |
| `ServerLostUpdate` | Two loads of one table, both under the read lock of the map, merge their metadata with the same old file; the second write removes the first load's bits, and its rows are pruned from every query. |
| `CsvHeaderless` | A crash after a data file is created and before its header is in it: the replay finds the file, writes no header, and the first row becomes the header. The log is removed and the rows are not found again. |

The properties that hold are bounded accordingly, and say so themselves:

* `AckedRowsDurable` and `ImplementsStore`: CSV files and callers that drop a
  failed writer (`OneShot`); not for a row whose data file a write was interrupted
  in, nor for a log whose append was. `RowCountNeverOver` and
  `LogDroppedOnlyWhenPersisted` leave out such data files too, and the latter
  metadata that hold a number that is not finite. `CsvHeaderless` shows that the
  exclusion is needed.
* `CleanRunExact`: metadata of a segment with a `NonFinite` row are unreadable,
  and it says exactly that.
* `CoverageStays`: bits in metadata, not rows in a data file, which Parquet
  replaces.
* `NoFalseNegatives`: one layout, and ranges on numeric dimensions only.
* `NoRowLost`: clauses that are `Straight`. `NOT IN`, `NOT BETWEEN`, an inequality
  with the column on the right, and a list with both literals and other items do
  lose rows.
* `AggregatesExact`, `ResultWhenPresent`: tables that can be loaded.
* `ReadsExact`, `DamageBounded`, `ReadsOnlyGrow`: reads that do not fail;
  `DamageBounded` a whole header besides. `ReadsExact` says that reads between
  uninterrupted flushes do not fail, and `ReadsOnlyGrow` that a complete record
  that is not UTF-8 fails every later one.
* `ReadYourWrites`, `VisibleStays`: one load at a time, rows of one layout, and for
  the former no crash that cut the data file. `CacheNeverAhead`,
  `AnsweredLoadsStored`: any loads at once, while `damaged` is empty (for the
  latter, while the data file is not in it).
* `AnswerExact`: exact filters on dimensions on string columns
  (`ExactOnStrings`), ranges on MARS dimensions and no column whose statistics are
  mistaken for another's; `CountExactAgrees` exact filters on string columns only;
  `CountNeverUnder` hashed dimensions.

Other places where the code and its words part, seen while modelling and
visible in the models, without a run of their own:

* `storage/writer.rs` line 115: "Open a fresh WAL (old one was consumed during
  replay)". The old log is opened for appending and keeps its content
  (`FinishReplay`), so the next crash replays its rows again. Rows stored by a
  threshold flush stay in the log as well.
* `storage/writer.rs` line 290: "Atomic metadata write". The file is truncated in
  place (`TruncateMeta`), and a crash there leaves it torn; every later flush of
  that segment (`MergeFails`) and every `load_segments` then fails.
* `storage/writer.rs` lines 204 and 83: a `flush_all` that fails and is called
  again removes the log of rows that were lost; after `flush_all` rows are
  accepted without being logged (`WriteUnlogged`).
* `storage/wal.rs` line 48: a row's JSON and its newline are two writes. A crash
  between them, a restart and one more row put two rows on one line; after the
  next crash the log cannot be parsed and `StrataWriter::new` fails for good
  (`AppendJson`, `LogReadable`).
* `storage/writer.rs` line 286: with Parquet, a second flush of a segment replaces
  the rows of the first, and `flush_all` then removes the log (`RenameParquet`).
* `storage/parquet_writer.rs` line 65: "the union of row keys" are the keys of the
  first row (`FirstColumns`); a later row without one of them makes the batch
  fail and the rest of the drain is lost (`BatchError`).
* `storage/parquet_reader.rs` line 219: a typed column prints numbers in its own
  way while the bits were set by the text, so an exact filter on a hashed
  dimension in a typed column can miss rows; line 223: a column whose path ends
  in `.name` lends its statistics to `name`.
* `storage/parquet_reader.rs` line 358: "EXACT COUNT" ignores range filters and
  counts nothing when an exact filter is on a typed column.
* `storage/parquet_reader.rs` line 456: `count_from_metadata` hashes the values of
  MARS dimensions, and can be below the exact count, which a test rules out.
* `storage/parquet_reader.rs` line 528: "our data is written as strings";
  `read_segments` leaves out every typed column.
* `storage/reader.rs` line 203: a range on a hashed dimension is resolved to MARS
  buckets and misses rows (a test of the repository demonstrates it).
* `query/sql.rs` line 203: items of an `IN` list that are no literals are dropped
  and the others kept, so `IN ('x', UPPER('y'))` filters to `x`; line 245: a
  comparison without column and literal fails the whole query, where other
  conditions the bridge does not know are ignored.
* `query/sql.rs`: `>` and `<` return the boundary row; a comparison with the
  literal on the left keeps the operator's direction; `NOT IN` and `NOT BETWEEN`
  are read as `IN` and `BETWEEN`, where `tests/query/sql.rs` says the parser "must
  not invent a filter it cannot represent soundly".
* `storage/reader.rs` line 638: aggregates are those of whole segments, including
  the rows the clause rejects.
* `types.rs` lines 465 and 467: the minimum is "f64::INFINITY if no values" and the
  maximum "f64::NEG_INFINITY"; `new_numeric` starts at `f64::MAX` and `f64::MIN`
  (`new_numeric` in `Aggregation` has the code's bounds). It matters:
  infinities would be written as `null`.
* `types.rs` line 521: cells that parse as NaN or an infinity are added to the sum;
  line 431 of `storage/writer.rs` then writes `null`, which cannot be read back,
  and `flush_all` removes the log (`NotFinite`, `NonFinite`).
* `storage/reader.rs` line 441: a record that is not UTF-8 fails the read of the
  whole file, so a crash inside a character takes all rows of a segment out of
  reach for good.
* `types.rs` line 484: statistics of a session that hashes a column start at
  minimum 0 and merge as if that were a value.
* `server.rs` line 426: a load that starts while another runs replays the
  other's live log, so rows are stored twice. Both append to one data file without
  any agreement about its header or about where a record ends (`SpillAmong`). Line 205: a load that replays and
  then meets a malformed record returns without refreshing the reader. Line 600:
  startup does not replay the log. Line 470: bucket counts of a request are not checked, a zero panics in routing, and the row that
  did it is replayed by the next load (into a panic again, if that one creates the
  table with such counts too).

## 4. Fairness

* `StrataWriter!FairSpec`: weak fairness of `Progress`, the steps inside a call.
  They are straight-line code that waits for nothing. Calls, crashes and errors
  are not fair: nothing must ever be called, nothing must fail.
* `TableServer!FairSpec`: weak fairness of the steps of each request. Tokio polls
  a task again when its lock is granted, and the lock queue is fair, so weak
  fairness per request is enough. The same holds of a query of the Flight server, which waits for nothing once it is sent.
  Submitting, disconnecting, crashing, restarting and starting the Flight server
  are not fair.
* `CsvFile` and `ParquetStore` state safety only.

## 5. Proofs

Every invariant and every action property that a passing run checks is also a
theorem, for every value of the constants that satisfies the module's named
assumptions and the condition stated with it, if there is one. Each proof has the same plan: an inductive invariant (checked by TLC
before it was proved), a lemma that `Init` implies it, one that every action of
`Next` keeps it, and one that it implies the property. Where a property is not
inductive, what had to be added is the content of the proof, and is said below.

### StrataWriterProofs

For any finite set of rows, any segments, bits, routing, threshold and number of
writers:

* `TypeCorrect`, and `OneCopy`, a row is stored at most once per writer. The
  latter says nothing of rows that are still to be written. `MemoryInv` adds that
  a row in memory on its way to disk has fewer copies than there have been
  writers, that the log and the builders hold submitted rows only, and which
  fields are empty in which mode (`CallShape`).
* `CrashSafety`, `NothingHidden`, `SafeTruncation` and `Refinement`, for CSV and
  callers that drop the writer. They rest on `LogInv`: in the middle of
  `flush_all` nothing in the properties says where a logged row is that has left
  its builder. `LogInv` says that it is buffered, in the builder being flushed,
  or covered and either stored or in a file some write to which was interrupted,
  and that the metadata about to be written over a torn file covers what the old
  file covered, or holds a number that is not finite. `FileInv`: a data file
  nothing was interrupted in is whole, or its header is about to be written by
  the flush that created it; so no row is taken for a header there. `ReadInv`:
  a log no append to which was interrupted has one row on a line.
* `CountsBehindData`, for CSV and any caller: metadata never counts a row that
  cannot be read in the data file, unless a write to it was interrupted. `CountInv` reserves room for the rows the flush in
  progress has stored and not yet counted (`InFlight`), and for the content that
  is in memory while the file is truncated (`Replacing`).
* `CleanRuns`, for CSV and any caller: as long as nothing went wrong the files are
  exact between calls. `CleanInv` says in which single place each row is
  (`TidyRows`) and that metadata describe what is stored apart from the builder in
  hand (`TidyMeta`), or are broken if that includes a row that is not finite.
* `StaysPublished`, for every format and caller: what readable metadata covers is
  never uncovered by readable metadata. While a file is torn, the content about to
  replace it covers what the file did (`ReplaceInv`).

### PruningProofs, SqlProofs

* `MagnitudeMonotone`, `RangeCovers`: MARS is monotone, so the buckets of a range
  include those of all its numbers. `RangeTouchesFew`: a range whose ends are a
  factor of `2^k` apart touches at most `k + 1` buckets. The proof compares the
  exponents below the two numbers; `MarsNearOptimal` says it of every range
  filter of every predicate.
* `MaskCoversRow`: the mask has the bit of every matching row, also of one whose
  missing cells were read back as empty ones.
* `PruningIsSound`: hence no false negatives, given a single layout and ranges on
  numeric dimensions only. `PruningInvariant` is its inductive invariant: each
  segment's bitset has the bits of its rows under the table's layout.
* `OnlyNarrower`: `add_min_filter` and `add_max_filter` never let a row in that
  was rejected before.
* `SqlLosesNoRow` and `SupportedIsExact`, for clauses of any length, from four
  assumptions: one layout (`OneLayout`), ranges on MARS dimensions or on no
  dimension (`RangesOnNumeric`), clauses that are `Straight` (a condition of the
  properties themselves), and numbers between `f64::MIN` and `f64::MAX`
  (`FiniteNumbers`). The properties speak of the moment the walk has
  ended; `SqlInv` says the same of the conjuncts reached so far: the predicate is
  no stricter than they are (`NoStricter`) and, in the documented forms, no looser
  (`NoLooser`), and it knows where each filter came from, because a later
  condition replaces or narrows an earlier one.

### ParquetProofs

For any rows, schemas, row-group size and predicate:

* `SegmentsAreWhole`. `ParquetInv` adds that a segment between its two files is
  marked as damaged, that its data file holds the rows of the builder in hand, and
  that every readable file holds what `DecodeRow` makes of the rows written.
* `AnswersAreExact` and `CountsAreExact`. `MatchingGroupRead` is the heart of the
  former: a row that matches keeps its own row group from being skipped, by its
  own cell between the bounds.
* `CountsNeverUnder`: the count from metadata is no less than the number of rows
  returned. Each returned row is counted in the bucket combination its cells hash
  to, so the rows are a union of sets no larger than the counts that are added up
  (`UnionBound` in `SumLemmas`).

### AggregationProofs

`AggregatesHold` and `PresentAnswered`, for any cells, segments and number of
sessions and flushes: `StatsInv` says of every builder and every metadata file
that can be read that row count, count, sum and bounds are those of the multiset
of its cells (`Counted`, `Measured`) and that no cell of them is a NaN or an
infinity (`Clean`), and the lemmas of `SumLemmas` exchange the sum over
segments with the sum over cells.

### CsvProofs

For any columns, values and batches that satisfy `CellAssumption` and
`BatchAssumption` (a row has at least two columns, so that no record is a blank
line), and any number of flushes, interruptions and replays:

* `CsvOnlyGrows`: what complete records gave is a prefix of what later queries
  that do not fail get, and a complete record that fails a read fails every later
  one. No step takes text away (`TextGrows`), and a token more leaves complete
  records alone or adds one (`RecordsGrow`).
* `CsvReadsExact`. A record that is written reads back as its cells
  (`LineReadsBack`, `RecordAdds`): splitting undoes joining because no cell
  contains a separator. A flush is judged by the text there will be when its
  buffer has been spilled (`Final`), which `StartFlush` fixes and `Spill` keeps:
  while nothing was cut, it holds the header and one record per row (`ExactInv`),
  none of them `Garbled`. A query in the middle of a spill may still fail, when
  the spill has ended inside a character.
* `CsvDamageBounded`. One row per interruption is not inductive: an interruption
  damages nothing yet, it leaves a cut line, or a file without a record, that the
  next flush spoils its first row with. `DamageInv` keeps one unit of damage in
  reserve as long as the text is in that state (`Cut`). The theorem speaks of reads
  that do not fail: one cut inside a character fails them all.

### TableServerProofs

For any number of requests, rows and crashes:

* whatever loads run at once, until a file is `damaged`. `FileInv` says what that
  means: no two loads spill into the data file, or write the metadata, and a data
  file without a header belongs to the load that is about to write it, so every
  spilled row can be read. `AnswersMeanStored` rests on `StoredInv`, which follows
  a load's rows from its memory into the data file, and says that a load which
  does not create the table found it. `CacheBehindData` rests on `BitsInv` and
  `CountInv`: what is cached, on disk or in a load's hands names stored rows only,
  and its count leaves room for the rows of every load between its data and its
  metadata. `CacheClaimsStored` is the half about rows;
* `CreatorAlone`: while a load creates the table no other request is past its
  look-up. `LockInv` says that the queue of the map's lock fits the places of the
  requests, that whoever is past the look-up holds the lock, and that a creator
  holds it alone; the lemmas about `RwLock` say what granting, releasing and a
  closed connection do to a queue of any length;
* with `SerialLoads`: `QueriesReadWrites` and `CacheOnlyGrows`. `SerialInv` says
  that only one load is active, that readable metadata keeps the rows of all
  answered loads and all that the cache says, and what the active load holds
  between reading, writing and installing metadata. That needs no undamaged data
  file: metadata are written after a cut file as after any other. `LayoutsInv`
  says that no metadata name a layout in which no rows were written, and
  `QueryFinds` that an expected query, once it has pruned, kept its segment,
  unless there are rows of two layouts.

### Recursive operators and induction

Sums, filtered, flattened and split sequences are recursive functions (or folds
that unfold to one). That such a function exists and what it does to one more
element is proved, not assumed: `NatLeast` takes a least counterexample, and
`Induction`, `SetInduction` (in `SumLemmas`), `SeqInduction` and `Recursion` (in
`CsvProofs`) are its forms for numbers, finite sets, sequences and recursive
definitions. They speak of membership in a set instead of an operator parameter,
which the provers cannot instantiate.

### Only model-checked

* Liveness under fairness, `CallsReturn` and `AllAnswered`: out of the proof
  system's reach.
* The three violations, by nature.
* `ReplayRecovers`, which does not hold.

## 6. Not modelled

* The binaries `main.rs` and `strata_server.rs`, the sample data and the
  benchmarks: no state of their own.
* `/tables`, `/health` and the Flight server's handshake and catalogue requests,
  which change nothing; what JSON and Arrow make of an answer. The aggregation
  path of `execute_query` is `aggregate_multi`, in `Aggregation`.
* Cells that the csv crate quotes, and file names. `SqlQuery` and `Pruning` leave
  out the cells `inf` and `nan`, which make a table unreadable (`Aggregation`).
* In `TableServer`: the two writes of a log append are one step, and I/O errors
  other than unreadable metadata are left to `StrataWriter`. A log they leave
  unparsable makes later loads answer `error`, which no property there forbids.
  `path.exists()` and the open after it are one step: if another load creates and
  writes the file between the two, a second header is read as one row more, which
  takes no row away and leaves counts behind the data. All rows are in one segment, also those of two layouts, and a query
  that reads a segment somebody is spilling into may get an error at any moment
  of it.
* In `StrataWriter`, `NonFinite` stands for a cell that is not finite and for an
  overflow alike; which rows together overflow is in `Aggregation`.
* `TableState.row_count`, which every load adds to and nothing reads.
* Several tables at once: tables share nothing but the lock of the map, and a
  load that creates one holds it against all (which `AllAnswered` covers).
* `read_segments` and `get_file_sizes` of the Parquet reader, the typed getters of
  `Row`: pure accessors.
* Power failure: what `write` accepted is taken to be on disk.

## 7. Plan

Done: every module of section 2, with a theorem for every safety and action
property of the passing runs. Next, in this order:

1. An abstract specification of a table (loads append rows, queries see a state
   between send and answer) implemented by `TableServer` with serial loads.
2. The abstract store of `DurableStore` weakened to what `ParquetStore` keeps
   (rows of flushes that ended, until the segment is flushed again).
3. `CsvFile` composed with `Pruning`, so that `ReadBack` becomes a theorem about
   the file instead of a choice.

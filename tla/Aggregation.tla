---------------------------- MODULE Aggregation ----------------------------
(***************************************************************************)
(* Aggregates answered from metadata (types.rs ColumnStats, reader.rs      *)
(* aggregate_multi): every builder keeps statistics of a column, a flush   *)
(* merges them with those in the segment's metadata file, and a query adds *)
(* up the segments that survive pruning.                                   *)
(*                                                                         *)
(* One column is followed.  A row is reduced to its cell in that column,   *)
(* and a data file to how often each cell occurs in it.  A flush is one    *)
(* step here; StrataWriter has its parts.  Sums are exact: what rounding   *)
(* does to an f64 is left out.  A sum that is not finite is written as     *)
(* null, and such a metadata file cannot be parsed again.                  *)
(***************************************************************************)
EXTENDS Integers, FiniteSets, FiniteSetsExt

CONSTANTS
  Segments,
  Cells,     \* values of the column
  Absent,    \* the row has no such column
  Number,    \* the cell as a finite f64, or one of the two below
  NoNumber,  \* the cell does not parse
  NotFinite, \* it parses, as NaN or as an infinity
  MaxF,      \* f64::MAX; f64::MIN is -MaxF
  MaxRows    \* bound: rows written

ASSUME CellAssumption ==
  /\ IsFiniteSet(Segments)
  /\ IsFiniteSet(Cells) /\ Absent \notin Cells
  /\ MaxF \in Nat
  /\ MaxRows \in Nat
  /\ Number \in [Cells -> (-MaxF .. MaxF) \cup {NoNumber, NotFinite}]
  /\ NoNumber \notin Int /\ NotFinite \notin Int /\ NoNumber # NotFinite

VARIABLES
  is_numeric,  \* the session's reading of the column: TRUE for a Numeric
               \* dimension and for a column that is none, FALSE for a
               \* hashed dimension
  builder,     \* metadata of each segment builder
  unflushed,   \* the cells of its rows
  meta,        \* metadata file of each segment
  file,        \* data file of each segment
  hashed       \* history: segments flushed by a session that hashes the column

vars == <<is_numeric, builder, unflushed, meta, file, hashed>>

(* column_stats.get(column) is None, or Some of a ColumnStats. *)
(* finite: sum has been a finite f64 all along.                            *)
NoStats ==
  [some |-> FALSE, count |-> 0, sum |-> 0, finite |-> TRUE, min |-> 0, max |-> 0]
new_numeric ==
  [some |-> TRUE, count |-> 0, sum |-> 0, finite |-> TRUE, min |-> MaxF, max |-> -MaxF]
new_categorical ==
  [some |-> TRUE, count |-> 0, sum |-> 0, finite |-> TRUE, min |-> 0, max |-> 0]

EmptyMeta == [row_count |-> 0, stats |-> NoStats]
NoCells   == [c \in Cells \cup {Absent} |-> 0]

Lower(m, n)  == IF n < m THEN n ELSE m
Higher(m, n) == IF n > m THEN n ELSE m

Numeric == {c \in Cells : Number[c] \in Int}

InRange(sum) == -MaxF <= sum /\ sum <= MaxF

-----------------------------------------------------------------------------
(* ColumnStats. *)

(* The bounds of a sum that is not finite do not matter: its metadata is   *)
(* not read again.                                                         *)
update_with_type(stats, cell) ==
  CASE is_numeric /\ cell \in Numeric ->
         [stats EXCEPT !.count  = @ + 1,
                       !.sum    = @ + Number[cell],
                       !.finite = @ /\ InRange(stats.sum + Number[cell]),
                       !.min    = Lower(@, Number[cell]),
                       !.max    = Higher(@, Number[cell])]
    [] is_numeric /\ Number[cell] = NotFinite ->
         [stats EXCEPT !.count = @ + 1, !.finite = FALSE]
    [] OTHER -> [stats EXCEPT !.count = @ + 1]

(* update_column_stats: a column the row does not have is left alone. *)
update_column_stats(stats, cell) ==
  IF cell = Absent THEN stats
  ELSE update_with_type(IF stats.some THEN stats
                        ELSE IF is_numeric THEN new_numeric ELSE new_categorical,
                        cell)

merge_KeepsMax(a, b) ==  \* bug: the maximum is not merged
  [some   |-> TRUE,
   count  |-> a.count + b.count,
   sum    |-> a.sum + b.sum,
   finite |-> a.finite /\ b.finite /\ InRange(a.sum + b.sum),
   min    |-> Lower(a.min, b.min),
   max    |-> a.max]
merge(a, b) ==
  [some   |-> TRUE,
   count  |-> a.count + b.count,
   sum    |-> a.sum + b.sum,
   finite |-> a.finite /\ b.finite /\ InRange(a.sum + b.sum),
   min    |-> Lower(a.min, b.min),
   max    |-> Higher(a.max, b.max)]

(* write_metadata_json: the builder's metadata with that of the file. *)
MergeMeta_BuilderOnly(new, old) ==  \* bug: only the builder's columns are kept
  [row_count |-> new.row_count + old.row_count,
   stats     |-> IF new.stats.some /\ old.stats.some
                   THEN merge(new.stats, old.stats) ELSE new.stats]
MergeMeta_Subtracts(new, old) ==  \* bug: row counts are subtracted
  [row_count |-> new.row_count - old.row_count,
   stats     |-> CASE ~old.stats.some -> new.stats
                   [] ~new.stats.some -> old.stats
                   [] OTHER           -> merge(new.stats, old.stats)]
MergeMeta(new, old) ==
  [row_count |-> new.row_count + old.row_count,
   stats     |-> CASE ~old.stats.some -> new.stats
                   [] ~new.stats.some -> old.stats
                   [] OTHER           -> merge(new.stats, old.stats)]

-----------------------------------------------------------------------------
Init ==
  /\ is_numeric \in BOOLEAN
  /\ builder = [s \in Segments |-> EmptyMeta]
  /\ unflushed = [s \in Segments |-> NoCells]
  /\ meta = [s \in Segments |-> EmptyMeta]
  /\ file = [s \in Segments |-> NoCells]
  /\ hashed = {}

Size(cells) == SumFunction(cells)

Written == SumFunction([s \in Segments |-> Size(unflushed[s]) + Size(file[s])])

(* write_row_internal: the row joins the builder of its segment. *)
WriteRow(s, cell) ==
  /\ Written < MaxRows
  /\ builder' = [builder EXCEPT ![s] =
                   [row_count |-> @.row_count + 1,
                    stats     |-> update_column_stats(@.stats, cell)]]
  /\ unflushed' = [unflushed EXCEPT ![s][cell] = @ + 1]
  /\ UNCHANGED <<is_numeric, meta, file, hashed>>

(* The metadata file can be parsed: it does not exist or has no null.      *)
Readable(s) == meta[s].stats.finite

Flush(s) ==
  /\ builder[s].row_count > 0
  /\ Readable(s)
  /\ meta' = [meta EXCEPT ![s] = MergeMeta(builder[s], @)]
  /\ file' = [file EXCEPT ![s] = [c \in DOMAIN @ |-> @[c] + unflushed[s][c]]]
  /\ builder' = [builder EXCEPT ![s] = EmptyMeta]
  /\ unflushed' = [unflushed EXCEPT ![s] = NoCells]
  /\ hashed' = IF is_numeric THEN hashed ELSE hashed \cup {s}
  /\ UNCHANGED is_numeric

(* The old metadata cannot be parsed: the rows are in the data file, the   *)
(* builder is dropped, and in flush_all all others with it.                *)
FlushFails(s) ==
  /\ builder[s].row_count > 0
  /\ ~Readable(s)
  /\ file' = [file EXCEPT ![s] = [c \in DOMAIN @ |-> @[c] + unflushed[s][c]]]
  /\ \E dropped \in {{s}, Segments} :
       /\ builder' = [t \in Segments |-> IF t \in dropped THEN EmptyMeta ELSE builder[t]]
       /\ unflushed' = [t \in Segments |-> IF t \in dropped THEN NoCells ELSE unflushed[t]]
  /\ UNCHANGED <<is_numeric, meta, hashed>>

(* Another writer, possibly with another configuration; rows the last one  *)
(* has not flushed are forgotten.                                          *)
NewSession(numeric) ==
  /\ is_numeric' = numeric
  /\ builder' = [s \in Segments |-> EmptyMeta]
  /\ unflushed' = [s \in Segments |-> NoCells]
  /\ UNCHANGED <<meta, file, hashed>>

Next ==
  \/ \E s \in Segments, cell \in Cells \cup {Absent} : WriteRow(s, cell)
  \/ \E s \in Segments : Flush(s) \/ FlushFails(s)
  \/ \E numeric \in BOOLEAN : NewSession(numeric)

Spec == Init /\ [][Next]_vars

-----------------------------------------------------------------------------
(* load_segments fails if any metadata file does not parse.                *)
Loadable == \A s \in Segments : Readable(s)

(* aggregate_multi: the totals of one aggregate over the segments kept.    *)
(* Without a segment that has statistics there is no result.               *)
HasStats(keys) == {s \in keys : meta[s].stats.some}

CountStar(keys) == SumFunction([s \in keys |-> meta[s].row_count])

Totals(keys) ==
  [count |-> SumFunction([s \in HasStats(keys) |-> meta[s].stats.count]),
   sum   |-> SumFunction([s \in HasStats(keys) |-> meta[s].stats.sum]),
   min   |-> Min({MaxF} \cup {meta[s].stats.min : s \in HasStats(keys)}),
   max   |-> Max({-MaxF} \cup {meta[s].stats.max : s \in HasStats(keys)})]

(* The same, from the rows in the data files. *)
Occur(c, keys)    == SumFunction([s \in keys |-> file[s][c]])
Numbers(keys)     == {Number[c] : c \in {d \in Numeric : Occur(d, keys) > 0}}
RowTotals(keys) ==
  [count |-> SumFunction([c \in Cells |-> Occur(c, keys)]),
   sum   |-> SumFunction([c \in Numeric |-> Occur(c, keys) * Number[c]]),
   min   |-> Min({MaxF} \cup Numbers(keys)),
   max   |-> Max({-MaxF} \cup Numbers(keys))]

Published == {s \in Segments : meta[s].row_count > 0}

-----------------------------------------------------------------------------
(* Properties. *)

Stats == [some : BOOLEAN, count : Nat, sum : Int, finite : BOOLEAN,
          min : -MaxF .. MaxF, max : -MaxF .. MaxF]
Metas == [row_count : Nat, stats : Stats]

(* The state has the types of the metadata's fields. *)
TypeOK ==
  /\ is_numeric \in BOOLEAN
  /\ builder \in [Segments -> Metas]
  /\ unflushed \in [Segments -> [Cells \cup {Absent} -> Nat]]
  /\ meta \in [Segments -> Metas]
  /\ file \in [Segments -> [Cells \cup {Absent} -> Nat]]
  /\ hashed \subseteq Segments

(* However rows are split over flushes, sessions and segments, and in      *)
(* whatever order the flushes merge: while the table can be loaded,        *)
(* aggregates from metadata over any choice of segments are those of all   *)
(* the rows in their data files.  COUNT and COUNT(c) always; SUM, MIN and  *)
(* MAX when no session hashed the column (one that does counts its rows    *)
(* without reading them) and the sum over the segments does not overflow.  *)
(* Cells such as nan and inf are never part of an answer: they make the    *)
(* table unloadable.                                                       *)
AggregatesExact ==
  Loadable =>
    \A keys \in SUBSET Published :
      /\ CountStar(keys) = SumFunction([s \in keys |-> Size(file[s])])
      /\ HasStats(keys) # {} =>
           /\ Totals(keys).count = RowTotals(keys).count
           /\ keys \cap hashed = {} =>
                /\ Totals(keys) = RowTotals(keys)
                /\ \A s \in keys, c \in Cells :
                     Number[c] = NotFinite => file[s][c] = 0

(* While the table can be loaded, no result is given only when no row of   *)
(* the segments has the column.                                            *)
ResultWhenPresent ==
  Loadable =>
    \A keys \in SUBSET Published :
      HasStats(keys) = {} <=> \A c \in Cells : Occur(c, keys) = 0

=============================================================================

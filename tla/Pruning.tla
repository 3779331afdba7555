------------------------------ MODULE Pruning ------------------------------
(***************************************************************************)
(* Segment pruning (storage/reader.rs): rows are written into segments     *)
(* under the layout of the writer of the day, a caller builds a            *)
(* QueryPredicate, and filter_segments decides from the metadata alone     *)
(* which segments a query reads.                                           *)
(***************************************************************************)
EXTENDS Routing

CONSTANTS
  TableRows,     \* the rows that may be written
  ExactSets,     \* value lists given to add_filter
  Bounds,        \* numbers given to the range filters
  RangeColumns,  \* columns callers put range filters on
  MinF, MaxF     \* f64::MIN and f64::MAX

ASSUME PredicateAssumption ==
  /\ TableRows \subseteq RowSpace
  /\ ExactSets \subseteq SUBSET Values
  /\ RangeColumns \subseteq Columns
  /\ Bounds \subseteq Int
  /\ MinF \in Int /\ MaxF \in Int

VARIABLES
  layout,   \* WriterConfig of the loads of the day
  segs,     \* metadata and rows of every segment on disk
  filters   \* QueryPredicate.filters

vars == <<layout, segs, filters>>

NoFilter == [kind |-> "none", values |-> {}, min |-> 0, max |-> 0]
ExactFilter(values) == [kind |-> "exact", values |-> values, min |-> 0, max |-> 0]
RangeFilter(min, max) == [kind |-> "range", values |-> {}, min |-> min, max |-> max]

Larger(m, n)  == IF m > n THEN m ELSE n
Smaller(m, n) == IF m < n THEN m ELSE n

-----------------------------------------------------------------------------
(* QueryPredicate. *)

MatchesFilter(f, v) ==
  /\ f.kind = "exact" => v \in f.values
  /\ f.kind = "range" => /\ v # Missing
                         /\ Parse[v] # NaN
                         /\ f.min <= Parse[v] /\ Parse[v] <= f.max

matches(row) == \A c \in Columns : MatchesFilter(filters[c], row[c])

resolve_buckets(l, i) ==
  LET f == filters[l.dims[i]] IN
  CASE f.kind = "exact" -> {route_dimension(v, l.types[i], l.buckets[i])
                              : v \in f.values}
    [] f.kind = "range" -> route_numeric_range(f.min, f.max, l.buckets[i])
    [] OTHER            -> 0 .. l.buckets[i] - 1

build_mask(l) ==
  SetBits(EmptyBitset(BitsetSize(l)),
          {BitIndex(l, b[1], b[2], b[3]) :
             b \in resolve_buckets(l, 1) \X resolve_buckets(l, 2)
                     \X resolve_buckets(l, 3)})

(* filter_segments builds one mask, from the layout of the segment that    *)
(* read_dir happened to return first.                                      *)
filter_segments(first) ==
  LET mask == build_mask(segs[first].layout) IN
  {key \in DOMAIN segs : Intersects(segs[key].bitset, mask)}

-----------------------------------------------------------------------------
Init ==
  /\ layout \in Layouts
  /\ segs = << >>
  /\ filters = [c \in Columns |-> NoFilter]

(* What reading a data file makes of a row: a CSV file has an empty cell   *)
(* for a missing one if the column is in its header, Parquet keeps a null. *)
ReadBack(row) ==
  {[c \in Columns |-> IF c \in header THEN Cell(row, c) ELSE row[c]]
     : header \in SUBSET Columns}

(* A row has been written and flushed, to be read as stored: its segment's *)
(* metadata takes the writer's layout and merges the bits it had.          *)
WriteRow(row, stored) ==
  LET key == compute_segment_key(row, layout)
      new == SetBits(EmptyBitset(BitsetSize(layout)),
                     {compute_bitset_index(row, layout)})
      seg == IF key \in DOMAIN segs
               THEN [layout |-> layout,
                     bitset |-> MergeBits(new, segs[key].bitset),
                     rows   |-> segs[key].rows \cup {stored}]
               ELSE [layout |-> layout, bitset |-> new, rows |-> {stored}]
  IN /\ segs' = [k \in DOMAIN segs \cup {key} |-> IF k = key THEN seg ELSE segs[k]]
     /\ UNCHANGED <<layout, filters>>

(* Later loads use another configuration: after a restart the server gives *)
(* every table on disk its default one.                                    *)
Reconfigure(l) ==
  /\ layout' = l
  /\ UNCHANGED <<segs, filters>>

SetFilter(c, f) ==
  /\ filters' = [filters EXCEPT ![c] = f]
  /\ UNCHANGED <<layout, segs>>

add_filter(c, values) == SetFilter(c, ExactFilter(values))

add_range_filter(c, min, max) == SetFilter(c, RangeFilter(min, max))

(* An existing range is narrowed; an exact filter is left as it is. *)
add_min_filter_Replaces(c, min) ==  \* bug: the filter there is forgotten
  SetFilter(c, RangeFilter(min, MaxF))
add_min_filter(c, min) ==
  LET f == filters[c] IN
  SetFilter(c, CASE f.kind = "none"  -> RangeFilter(min, MaxF)
                 [] f.kind = "range" -> RangeFilter(Larger(f.min, min), f.max)
                 [] OTHER            -> f)

add_max_filter(c, max) ==
  LET f == filters[c] IN
  SetFilter(c, CASE f.kind = "none"  -> RangeFilter(MinF, max)
                 [] f.kind = "range" -> RangeFilter(f.min, Smaller(f.max, max))
                 [] OTHER            -> f)

Next ==
  \/ \E row \in TableRows : \E stored \in ReadBack(row) : WriteRow(row, stored)
  \/ \E l \in Layouts : Reconfigure(l)
  \/ \E c \in Columns, values \in ExactSets : add_filter(c, values)
  \/ \E c \in RangeColumns, min, max \in Bounds : add_range_filter(c, min, max)
  \/ \E c \in RangeColumns, min \in Bounds : add_min_filter(c, min)
  \/ \E c \in RangeColumns, max \in Bounds : add_max_filter(c, max)

Spec == Init /\ [][Next]_vars

-----------------------------------------------------------------------------
(* Properties. *)

FilterType ==
  [kind : {"none", "exact", "range"}, values : SUBSET Values, min : Int,
   max : Int]

(* The state has the types of the metadata and of the predicate. *)
TypeOK ==
  /\ layout \in Layouts
  /\ \A k \in DOMAIN segs :
       /\ segs[k].layout \in Layouts
       /\ segs[k].bitset.size = BitsetSize(segs[k].layout)
       /\ segs[k].bitset.bits \subseteq 0 .. segs[k].bitset.size - 1
       /\ segs[k].rows \subseteq RowSpace
  /\ filters \in [Columns -> FilterType]

(* Pruning has no false negatives: whichever segment comes first, a stored *)
(* row that matches the predicate is in a segment the query reads.         *)
NoFalseNegatives ==
  \A first, key \in DOMAIN segs : \A row \in segs[key].rows :
    matches(row) => key \in filter_segments(first)

(* The bound documented for MARS: a range [a, b] with 0 < a touches at     *)
(* most ceil(log2(b/a)) + 1 buckets.                                       *)
NearOptimal ==
  \A c \in Columns, l \in Layouts, i \in Dim :
    LET f == filters[c] IN
    f.kind = "range" /\ f.min > 0 =>
      \A k \in 0 .. l.buckets[i] :
        f.max <= f.min * 2 ^ k =>
          Cardinality(route_numeric_range(f.min, f.max, l.buckets[i])) <= k + 1

(* A further bound never lets in a row the predicate rejected: ranges are  *)
(* narrowed, and an exact filter is not replaced by a range.               *)
BoundsOnlyNarrow ==
  [][(\E c \in RangeColumns, n \in Bounds :
        add_min_filter(c, n) \/ add_max_filter(c, n))
       => \A row \in TableRows : matches(row)' => matches(row)]_vars

=============================================================================

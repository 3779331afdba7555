-------------------------- MODULE PruningProofs --------------------------
(***************************************************************************)
(* Proofs about Pruning: buckets stay in range, MARS preserves order, the  *)
(* query mask covers the bit of every matching row, and therefore pruning  *)
(* has no false negatives as long as a table keeps one layout and ranges   *)
(* are asked of MARS-routed dimensions only.                               *)
(***************************************************************************)
EXTENDS Pruning, FiniteSetTheorems, TLAPS

USE ScaleAssumption, ValueAssumption, LayoutAssumption, PredicateAssumption

(* A MARS bucket lies below the bucket count. *)
LEMMA MagnitudeType ==
  ASSUME NEW n \in Int, NEW b \in 1 .. 255
  PROVE  Magnitude(n, b) \in 0 .. b - 1
<1> DEFINE E == {e \in 1 .. b - 1 : Reaches(n, e)}
<1>1. IsFiniteSet(1 .. b - 1) /\ Cardinality(1 .. b - 1) = b - 1
  <2>1. 1 \in Int /\ b - 1 \in Int /\ (1 > b - 1 => b - 1 = 0)
    OBVIOUS
  <2>2. Cardinality(1 .. b - 1) = IF 1 > b - 1 THEN 0 ELSE (b - 1) - 1 + 1
    BY <2>1, FS_Interval
  <2> QED
    BY <2>1, <2>2, FS_Interval
<1>2. E \in SUBSET (1 .. b - 1)
  OBVIOUS
<1>3. IsFiniteSet(E) /\ Cardinality(E) <= Cardinality(1 .. b - 1)
  BY <1>1, <1>2, FS_Subset
<1>4. Cardinality(E) \in Nat
  BY <1>3, FS_CardinalityType
<1> QED
  BY <1>1, <1>3, <1>4 DEF Magnitude

(* A larger number reaches every power of two that a smaller one does. *)
LEMMA ReachesMonotone ==
  ASSUME NEW m \in Int, NEW n \in Int, m <= n, NEW e, Reaches(m, e)
  PROVE  Reaches(n, e)
<1>1. PICK p \in 1 .. m : p = 2 ^ e /\ Scale * p <= m
  BY DEF Reaches
<1>2. p \in 1 .. n /\ Scale * p \in Int
  BY <1>1
<1>3. Scale * p <= n
  BY <1>1, <1>2
<1> QED
  BY <1>1, <1>2, <1>3 DEF Reaches

(* MARS routing preserves the order of numbers. *)
THEOREM MagnitudeMonotone ==
  ASSUME NEW m \in Int, NEW n \in Int, m <= n, NEW b \in 1 .. 255
  PROVE  Magnitude(m, b) <= Magnitude(n, b)
<1> DEFINE E(k) == {e \in 1 .. b - 1 : Reaches(k, e)}
<1>1. IsFiniteSet(1 .. b - 1)
  BY FS_Interval
<1>2. E(n) \in SUBSET (1 .. b - 1)
  OBVIOUS
<1>3. IsFiniteSet(E(n))
  BY <1>1, <1>2, FS_Subset
<1>4. E(m) \in SUBSET E(n)
  BY ReachesMonotone
<1>5. Cardinality(E(m)) <= Cardinality(E(n))
  BY <1>3, <1>4, FS_Subset
<1> QED
  BY <1>5 DEF Magnitude

(* The buckets enumerated for a range contain the bucket of each number in *)
(* the range.                                                              *)
THEOREM RangeCovers ==
  ASSUME NEW n \in Int, NEW min \in Int, NEW max \in Int, NEW b \in 1 .. 255,
         min <= n, n <= max
  PROVE  Magnitude(n, b) \in route_numeric_range(min, max, b)
<1>1. /\ Magnitude(min, b) <= Magnitude(n, b)
      /\ Magnitude(n, b) <= Magnitude(max, b)
  BY MagnitudeMonotone
<1>2. Magnitude(min, b) \in 0 .. b - 1
  BY MagnitudeType
<1>3. Magnitude(n, b) \in 0 .. b - 1
  BY MagnitudeType
<1>4. Magnitude(max, b) \in 0 .. b - 1
  BY MagnitudeType
<1>5. ~(min > max)
  OBVIOUS
<1> HIDE DEF Magnitude
<1> QED
  BY <1>1, <1>2, <1>3, <1>4, <1>5 DEF route_numeric_range

(* Routing stays within the bucket count. *)
LEMMA RouteType ==
  ASSUME NEW v \in Values, NEW type \in {"Categorical", "Numeric"},
         NEW b \in 1 .. 255
  PROVE  route_dimension(v, type, b) \in 0 .. b - 1
<1>1. route_value(v, b) \in 0 .. b - 1
  <2>1. Hash[v] \in Nat
    OBVIOUS
  <2> QED
    BY <2>1 DEF route_value
<1>2. route_numeric(v, b) \in 0 .. b - 1
  <2>1. CASE Parse[v] = NaN
    BY <2>1 DEF route_numeric
  <2>2. CASE Parse[v] # NaN
    <3>1. Parse[v] \in Int
      BY <2>2
    <3> QED
      BY <2>2, <3>1, MagnitudeType DEF route_numeric
  <2> QED
    BY <2>1, <2>2
<1> QED
  BY <1>1, <1>2 DEF route_dimension

(* A row's bucket lies below the bucket count. *)
LEMMA BucketType ==
  ASSUME NEW row \in RowSpace, NEW l \in Layouts, NEW i \in Dim
  PROVE  BucketOf(row, l, i) \in 0 .. l.buckets[i] - 1
<1>1. l.dims[i] \in Columns
  OBVIOUS
<1>2. Cell(row, l.dims[i]) \in Values
  BY <1>1 DEF Cell, RowSpace
<1>3. l.types[i] \in {"Categorical", "Numeric"} /\ l.buckets[i] \in 1 .. 255
  OBVIOUS
<1> QED
  BY <1>2, <1>3, RouteType DEF BucketOf

(* The three buckets index a bit inside the bitset. *)
LEMMA BitIndexType ==
  ASSUME NEW l \in Layouts, NEW x \in 0 .. l.buckets[1] - 1,
         NEW y \in 0 .. l.buckets[2] - 1, NEW z \in 0 .. l.buckets[3] - 1
  PROVE  /\ BitIndex(l, x, y, z) \in 0 .. BitsetSize(l) - 1
         /\ BitsetSize(l) \in Nat
<1> DEFINE R == l.buckets[1]
           S == l.buckets[2]
           T == l.buckets[3]
<1>1. R \in 1 .. 255 /\ S \in 1 .. 255 /\ T \in 1 .. 255
  BY DEF Dim
<1> HIDE DEF R, S, T
<1>2. x \in 0 .. R - 1 /\ y \in 0 .. S - 1 /\ z \in 0 .. T - 1
  BY DEF R, S, T
<1>3. x * S \in Nat /\ R * S \in Nat /\ x * S + S <= R * S
  BY <1>1, <1>2
<1> DEFINE U == x * S + y
           V == R * S
<1>4. U \in Nat /\ V \in Nat /\ U + 1 <= V
  BY <1>1, <1>2, <1>3
<1>5. x * S * T + y * T = U * T
  BY <1>1, <1>2
<1> HIDE DEF U, V
<1>6. U * T \in Nat /\ V * T \in Nat /\ U * T + T <= V * T
  BY <1>1, <1>4
<1>7. U * T + z \in 0 .. V * T - 1
  BY <1>1, <1>2, <1>6
<1> QED
  BY <1>5, <1>6, <1>7 DEF BitIndex, BitsetSize, R, S, T, V

-----------------------------------------------------------------------------
(* Range filters are put on columns the layout routes by MARS. *)
RangesAreNumeric(l) ==
  \A i \in Dim : filters[l.dims[i]].kind = "range" => l.types[i] = "Numeric"

(* In each dimension, the buckets resolved for the filter on its column    *)
(* contain the bucket of every row whose cell there passes the filter.     *)
LEMMA ResolvedCoversCell ==
  ASSUME NEW l \in Layouts, NEW row \in RowSpace, NEW i \in Dim,
         filters \in [Columns -> FilterType], RangesAreNumeric(l),
         MatchesFilter(filters[l.dims[i]], row[l.dims[i]])
  PROVE  BucketOf(row, l, i) \in resolve_buckets(l, i)
<1> DEFINE c == l.dims[i]
           f == filters[c]
           b == l.buckets[i]
<1>1. c \in Columns /\ b \in 1 .. 255 /\ f \in FilterType
  OBVIOUS
<1>2. MatchesFilter(f, row[c])
  OBVIOUS
<1>3. row[c] \in Values \cup {Missing}
  BY <1>1 DEF RowSpace
<1>4. CASE f.kind = "exact"
  <2>1. row[c] \in f.values
    BY <1>2, <1>4 DEF MatchesFilter
  <2>2. row[c] # Missing
    BY <1>1, <2>1 DEF FilterType
  <2> QED
    BY <1>4, <2>1, <2>2 DEF BucketOf, Cell, resolve_buckets
<1>5. CASE f.kind = "range"
  <2>1. /\ row[c] # Missing /\ Parse[row[c]] # NaN
        /\ f.min <= Parse[row[c]] /\ Parse[row[c]] <= f.max
    BY <1>2, <1>5 DEF MatchesFilter
  <2>2. row[c] \in Values /\ Parse[row[c]] \in Int
    BY <1>3, <2>1
  <2>3. f.min \in Int /\ f.max \in Int
    BY <1>1 DEF FilterType
  <2>4. Magnitude(Parse[row[c]], b) \in route_numeric_range(f.min, f.max, b)
    BY <1>1, <2>1, <2>2, <2>3, RangeCovers
  <2>5. l.types[i] = "Numeric"
    BY <1>5 DEF RangesAreNumeric
  <2> QED
    BY <1>5, <2>1, <2>4, <2>5
       DEF BucketOf, Cell, resolve_buckets, route_dimension, route_numeric
<1>6. CASE f.kind = "none"
  BY <1>6, BucketType DEF resolve_buckets
<1> QED
  BY <1>1, <1>4, <1>5, <1>6 DEF FilterType

(* The query mask has the bit of every row whose buckets are resolved. *)
LEMMA MaskCoversBuckets ==
  ASSUME NEW l \in Layouts, NEW row \in RowSpace,
         \A i \in Dim : BucketOf(row, l, i) \in resolve_buckets(l, i)
  PROVE  /\ compute_bitset_index(row, l) \in build_mask(l).bits
         /\ build_mask(l).size = BitsetSize(l)
<1> DEFINE x == BucketOf(row, l, 1)
           y == BucketOf(row, l, 2)
           z == BucketOf(row, l, 3)
           boxes == resolve_buckets(l, 1) \X resolve_buckets(l, 2)
                      \X resolve_buckets(l, 3)
           is == {BitIndex(l, b[1], b[2], b[3]) : b \in boxes}
<1>1. 1 \in Dim /\ 2 \in Dim /\ 3 \in Dim
  BY DEF Dim
<1>2. <<x, y, z>> \in boxes
  BY <1>1
<1>3. BitIndex(l, x, y, z) \in is
  BY <1>2
<1>4. BitIndex(l, x, y, z) < BitsetSize(l)
  <2>1. x \in 0 .. l.buckets[1] - 1 /\ y \in 0 .. l.buckets[2] - 1
        /\ z \in 0 .. l.buckets[3] - 1
    BY <1>1, BucketType
  <2> HIDE DEF x, y, z
  <2>2. BitIndex(l, x, y, z) \in 0 .. BitsetSize(l) - 1 /\ BitsetSize(l) \in Nat
    BY <2>1, BitIndexType
  <2> QED
    BY <2>2
<1>5. compute_bitset_index(row, l) = BitIndex(l, x, y, z)
  BY DEF compute_bitset_index
<1> HIDE DEF x, y, z, is
<1>6. build_mask(l) = SetBits(EmptyBitset(BitsetSize(l)), is)
  BY DEF build_mask, is
<1> QED
  BY <1>3, <1>4, <1>5, <1>6 DEF SetBits, EmptyBitset

(* The query mask has the bit of every matching row. *)
THEOREM MaskCoversRow ==
  ASSUME NEW l \in Layouts, NEW row \in RowSpace,
         filters \in [Columns -> FilterType], RangesAreNumeric(l), matches(row)
  PROVE  /\ compute_bitset_index(row, l) \in build_mask(l).bits
         /\ build_mask(l).size = BitsetSize(l)
<1>1. \A i \in Dim : l.dims[i] \in Columns
  OBVIOUS
<1>2. \A i \in Dim : MatchesFilter(filters[l.dims[i]], row[l.dims[i]])
  BY <1>1 DEF matches
<1> QED
  BY <1>2, ResolvedCoversCell, MaskCoversBuckets

-----------------------------------------------------------------------------
(* A row's bit lies inside its layout's bitset. *)
LEMMA RowBitType ==
  ASSUME NEW l \in Layouts, NEW row \in RowSpace
  PROVE  /\ compute_bitset_index(row, l) \in 0 .. BitsetSize(l) - 1
         /\ BitsetSize(l) \in Nat
<1>1. BucketOf(row, l, 1) \in 0 .. l.buckets[1] - 1
  BY BucketType DEF Dim
<1>2. BucketOf(row, l, 2) \in 0 .. l.buckets[2] - 1
  BY BucketType DEF Dim
<1>3. BucketOf(row, l, 3) \in 0 .. l.buckets[3] - 1
  BY BucketType DEF Dim
<1> QED
  BY <1>1, <1>2, <1>3, BitIndexType DEF compute_bitset_index

(* The predicate is well formed and ranges are on the columns callers use. *)
PredicateInv ==
  /\ filters \in [Columns -> FilterType]
  /\ \A c \in Columns : filters[c].kind = "range" => c \in RangeColumns

(* The bitset of a segment is sized for its layout and has the bit of each *)
(* of its rows.                                                            *)
SegmentCovers(seg) ==
  /\ seg.layout \in Layouts
  /\ seg.bitset.size = BitsetSize(seg.layout)
  /\ seg.bitset.bits \subseteq 0 .. seg.bitset.size - 1
  /\ seg.rows \subseteq RowSpace
  /\ \A row \in seg.rows :
       compute_bitset_index(row, seg.layout) \in seg.bitset.bits

SegmentsInv ==
  /\ layout \in Layouts
  /\ \A k \in DOMAIN segs : SegmentCovers(segs[k])

PruningInv == SegmentsInv /\ PredicateInv

(* A well-formed filter keeps the predicate well formed. *)
LEMMA SetFilterStep ==
  ASSUME PredicateInv, NEW c \in Columns, NEW f \in FilterType,
         f.kind = "range" => c \in RangeColumns, SetFilter(c, f)
  PROVE  PredicateInv'
<1>1. filters' = [filters EXCEPT ![c] = f] /\ filters \in [Columns -> FilterType]
  BY DEF SetFilter, PredicateInv
<1> QED
  BY <1>1 DEF PredicateInv

(* The filters the predicate is made of. *)
LEMMA FilterTypes ==
  /\ NoFilter \in FilterType
  /\ \A values \in SUBSET Values :
       ExactFilter(values) \in FilterType /\ ExactFilter(values).kind = "exact"
  /\ \A min, max \in Int : RangeFilter(min, max) \in FilterType
  BY DEF NoFilter, ExactFilter, RangeFilter, FilterType

(* Building a predicate keeps it well formed. *)
LEMMA PredicateStep ==
  ASSUME PredicateInv, [Next]_vars
  PROVE  PredicateInv'
<1>0. \A c \in Columns : filters[c] \in FilterType
  BY DEF PredicateInv
<1>1. ASSUME NEW row \in TableRows, NEW stored \in ReadBack(row), WriteRow(row, stored)
      PROVE  PredicateInv'
  BY <1>1 DEF WriteRow, PredicateInv
<1>2. ASSUME NEW l \in Layouts, Reconfigure(l) PROVE PredicateInv'
  BY <1>2 DEF Reconfigure, PredicateInv
<1>3. ASSUME NEW c \in Columns, NEW values \in ExactSets, add_filter(c, values)
      PROVE  PredicateInv'
  <2>1. values \in SUBSET Values
    OBVIOUS
  <2> QED
    BY <1>3, <2>1, FilterTypes, SetFilterStep DEF add_filter
<1>4. ASSUME NEW c \in RangeColumns, NEW min \in Bounds, NEW max \in Bounds,
             add_range_filter(c, min, max)
      PROVE  PredicateInv'
  <2>1. c \in Columns /\ RangeFilter(min, max) \in FilterType
    BY FilterTypes
  <2> QED
    BY <1>4, <2>1, SetFilterStep DEF add_range_filter
<1>5. ASSUME NEW c \in RangeColumns, NEW min \in Bounds, add_min_filter(c, min)
      PROVE  PredicateInv'
  <2>1. c \in Columns /\ filters[c] \in FilterType
    BY <1>0
  <2>2. RangeFilter(min, MaxF) \in FilterType
    BY FilterTypes
  <2>3. RangeFilter(Larger(filters[c].min, min), filters[c].max) \in FilterType
    <3>1. filters[c].min \in Int /\ filters[c].max \in Int
      BY <2>1 DEF FilterType
    <3>2. min \in Int
      BY PredicateAssumption
    <3>3. Larger(filters[c].min, min) \in Int
      BY <3>1, <3>2 DEF Larger
    <3> QED
      BY <3>1, <3>3, FilterTypes
  <2>4. filters[c].kind \in {"none", "range", "exact"}
    BY <2>1 DEF FilterType
  <2>5. PICK f \in FilterType : SetFilter(c, f)
    BY <1>5, <2>1, <2>2, <2>3, <2>4 DEF add_min_filter
  <2> QED
    BY <2>1, <2>5, SetFilterStep
<1>6. ASSUME NEW c \in RangeColumns, NEW max \in Bounds, add_max_filter(c, max)
      PROVE  PredicateInv'
  <2>1. c \in Columns /\ filters[c] \in FilterType
    BY <1>0
  <2>2. RangeFilter(MinF, max) \in FilterType
    BY FilterTypes
  <2>3. RangeFilter(filters[c].min, Smaller(filters[c].max, max)) \in FilterType
    <3>1. filters[c].min \in Int /\ filters[c].max \in Int
      BY <2>1 DEF FilterType
    <3>2. max \in Int
      BY PredicateAssumption
    <3>3. Smaller(filters[c].max, max) \in Int
      BY <3>1, <3>2 DEF Smaller
    <3> QED
      BY <3>1, <3>3, FilterTypes
  <2>4. filters[c].kind \in {"none", "range", "exact"}
    BY <2>1 DEF FilterType
  <2>5. PICK f \in FilterType : SetFilter(c, f)
    BY <1>6, <2>1, <2>2, <2>3, <2>4 DEF add_max_filter
  <2> QED
    BY <2>1, <2>5, SetFilterStep
<1>7. CASE UNCHANGED vars
  BY <1>7 DEF vars, PredicateInv
<1> QED
  BY <1>1, <1>2, <1>3, <1>4, <1>5, <1>6, <1>7 DEF Next

(* Setting positions inside a bitset adds them. *)
LEMMA BitsSet ==
  ASSUME NEW size, NEW bits, NEW is, \A j \in is : j < size
  PROVE  SetBits([size |-> size, bits |-> bits], is) =
           [size |-> size, bits |-> bits \cup is]
<1> DEFINE b == [size |-> size, bits |-> bits]
<1>1. b.size = size /\ b.bits = bits
  OBVIOUS
<1>2. {j \in is : j < size} = is
  OBVIOUS
<1> HIDE DEF b
<1>3. SetBits(b, is) = [size |-> size, bits |-> bits \cup is]
  BY <1>1, <1>2 DEF SetBits
<1> QED
  BY <1>3 DEF b

(* What makes a segment cover its rows. *)
LEMMA SegmentWithBits ==
  ASSUME NEW l \in Layouts, NEW bits \in SUBSET (0 .. BitsetSize(l) - 1),
         NEW rows \in SUBSET RowSpace,
         \A row \in rows : compute_bitset_index(row, l) \in bits
  PROVE  SegmentCovers([layout |-> l,
                        bitset |-> [size |-> BitsetSize(l), bits |-> bits],
                        rows   |-> rows])
  BY DEF SegmentCovers

(* A row read back from a data file is routed as it was when written. *)
LEMMA ReadBackRouted ==
  ASSUME NEW l \in Layouts, NEW row \in RowSpace, NEW stored \in ReadBack(row)
  PROVE  /\ stored \in RowSpace
         /\ compute_bitset_index(stored, l) = compute_bitset_index(row, l)
<1>1. PICK header \in SUBSET Columns :
        stored = [c \in Columns |-> IF c \in header THEN Cell(row, c) ELSE row[c]]
  BY DEF ReadBack
<1>2. \A c \in Columns : row[c] \in Values \cup {Missing}
  BY DEF RowSpace
<1>3. \A c \in Columns : Cell(row, c) \in Values
  BY <1>2, ValueAssumption DEF Cell
<1>4. \A c \in Columns : stored[c] \in Values \cup {Missing}
  BY <1>1, <1>2, <1>3
<1>5. stored \in RowSpace
  BY <1>1, <1>4 DEF RowSpace
<1>6. \A c \in Columns : Cell(stored, c) = Cell(row, c)
  BY <1>1, <1>2, ValueAssumption DEF Cell
<1>7. \A i \in Dim : BucketOf(stored, l, i) = BucketOf(row, l, i)
  <2>1. \A i \in Dim : l.dims[i] \in Columns
    BY LayoutAssumption
  <2> QED
    BY <1>6, <2>1 DEF BucketOf
<1> QED
  BY <1>5, <1>7 DEF compute_bitset_index, Dim

(* Writing a row keeps every bitset covering, if the layout never changes. *)
LEMMA WriteStep ==
  ASSUME \A l, m \in Layouts : l = m,
         SegmentsInv, NEW row \in TableRows, NEW stored \in ReadBack(row),
         WriteRow(row, stored)
  PROVE  \A k \in DOMAIN segs' : SegmentCovers(segs'[k])
<1> DEFINE key == compute_segment_key(row, layout)
           size == BitsetSize(layout)
           i == compute_bitset_index(row, layout)
           new == SetBits(EmptyBitset(size), {i})
           seg == IF key \in DOMAIN segs
                    THEN [layout |-> layout,
                          bitset |-> MergeBits(new, segs[key].bitset),
                          rows   |-> segs[key].rows \cup {stored}]
                    ELSE [layout |-> layout, bitset |-> new, rows |-> {stored}]
<1>1. segs' = [k \in DOMAIN segs \cup {key} |-> IF k = key THEN seg ELSE segs[k]]
  BY DEF WriteRow
<1>2. row \in RowSpace /\ layout \in Layouts
  BY DEF SegmentsInv
<1>3. i \in 0 .. size - 1 /\ size \in Nat
  BY <1>2, RowBitType
<1>8. /\ stored \in RowSpace
      /\ compute_bitset_index(stored, layout) = i
  BY <1>2, ReadBackRouted
<1>4. new = [size |-> size, bits |-> {i}]
  <2>1. \A j \in {i} : j < size
    BY <1>3
  <2> HIDE DEF i, size
  <2>2. EmptyBitset(size) = [size |-> size, bits |-> {}]
    BY DEF EmptyBitset
  <2>3. SetBits([size |-> size, bits |-> {}], {i}) = [size |-> size, bits |-> {} \cup {i}]
    BY <2>1, BitsSet
  <2> QED
    BY <2>2, <2>3
<1>5. SegmentCovers([layout |-> layout, bitset |-> new, rows |-> {stored}])
  BY <1>2, <1>3, <1>4, <1>8, SegmentWithBits
<1>6. ASSUME key \in DOMAIN segs
      PROVE  SegmentCovers([layout |-> layout,
                            bitset |-> MergeBits(new, segs[key].bitset),
                            rows   |-> segs[key].rows \cup {stored}])
  <2> DEFINE old == segs[key].bitset.bits
  <2>1. SegmentCovers(segs[key]) /\ segs[key].layout = layout
    BY <1>2, <1>6 DEF SegmentsInv, SegmentCovers
  <2>2. /\ old \subseteq 0 .. size - 1
        /\ segs[key].rows \subseteq RowSpace
        /\ \A r \in segs[key].rows : compute_bitset_index(r, layout) \in old
    BY <2>1 DEF SegmentCovers
  <2>3. SetBits([size |-> size, bits |-> {i}], old) = [size |-> size, bits |-> {i} \cup old]
    <3>1. \A j \in old : j < size
      BY <1>3, <2>2
    <3> HIDE DEF i, size, old
    <3> QED
      BY <3>1, BitsSet
  <2>4. MergeBits(new, segs[key].bitset) = [size |-> size, bits |-> {i} \cup old]
    BY <1>4, <2>3 DEF MergeBits
  <2>5. {i} \cup old \subseteq 0 .. size - 1
    BY <1>3, <2>2
  <2>6. segs[key].rows \cup {stored} \subseteq RowSpace
    BY <1>8, <2>2
  <2>7. \A r \in segs[key].rows \cup {stored} :
          compute_bitset_index(r, layout) \in {i} \cup old
    BY <1>8, <2>2
  <2>8. SegmentCovers([layout |-> layout,
                       bitset |-> [size |-> size, bits |-> {i} \cup old],
                       rows   |-> segs[key].rows \cup {stored}])
    BY <1>2, <2>5, <2>6, <2>7, SegmentWithBits
  <2> QED
    BY <2>4, <2>8
<1> HIDE DEF key
<1>7. SegmentCovers(seg)
  BY <1>5, <1>6
<1> HIDE DEF seg
<1> QED
  BY <1>1, <1>7 DEF SegmentsInv

(* Segments keep covering their rows. *)
THEOREM PruningInvariant ==
  ASSUME \A l, m \in Layouts : l = m
  PROVE  Spec => []PruningInv
<1>1. Init => PruningInv
  BY DEF Init, PruningInv, SegmentsInv, PredicateInv, FilterType, NoFilter
<1>2. PruningInv /\ [Next]_vars => PruningInv'
  <2> SUFFICES ASSUME PruningInv, [Next]_vars PROVE PruningInv'
    OBVIOUS
  <2>1. PredicateInv'
    BY PredicateStep DEF PruningInv
  <2>2. CASE \E row \in TableRows : \E stored \in ReadBack(row) : WriteRow(row, stored)
    BY <2>1, <2>2, WriteStep DEF PruningInv, SegmentsInv, WriteRow
  <2>3. CASE UNCHANGED segs /\ layout' \in Layouts
    BY <2>1, <2>3 DEF PruningInv, SegmentsInv
  <2> QED
    BY <2>2, <2>3
       DEF Next, Reconfigure, add_filter, add_range_filter, add_min_filter,
           add_max_filter, SetFilter, vars, PruningInv, SegmentsInv
<1> QED
  BY <1>1, <1>2, PTL DEF Spec

(* With one layout per table and ranges on MARS dimensions only, pruning   *)
(* never loses a matching row.                                             *)
THEOREM PruningIsSound ==
  ASSUME \A l, m \in Layouts : l = m,
         \A l \in Layouts, i \in Dim :
           l.dims[i] \in RangeColumns => l.types[i] = "Numeric"
  PROVE  Spec => []NoFalseNegatives
<1>1. PruningInv => NoFalseNegatives
  <2> SUFFICES ASSUME PruningInv, NEW first \in DOMAIN segs,
                      NEW key \in DOMAIN segs, NEW row \in segs[key].rows,
                      matches(row)
               PROVE  key \in filter_segments(first)
    BY DEF NoFalseNegatives
  <2> DEFINE l == segs[key].layout
  <2>1. SegmentCovers(segs[key]) /\ segs[first].layout = l /\ l \in Layouts
        /\ row \in RowSpace
    BY DEF PruningInv, SegmentsInv, SegmentCovers
  <2>2. RangesAreNumeric(l) /\ filters \in [Columns -> FilterType]
    BY <2>1 DEF PruningInv, PredicateInv, RangesAreNumeric
  <2> HIDE DEF l
  <2>3. /\ compute_bitset_index(row, l) \in build_mask(l).bits
        /\ build_mask(l).size = BitsetSize(l)
    BY <2>1, <2>2, MaskCoversRow
  <2>4. /\ compute_bitset_index(row, l) \in segs[key].bitset.bits
        /\ segs[key].bitset.size = BitsetSize(l)
    BY <2>1 DEF SegmentCovers, l
  <2>5. Intersects(segs[key].bitset, build_mask(l))
    BY <2>3, <2>4 DEF Intersects
  <2> QED
    BY <2>1, <2>5 DEF filter_segments
<1> QED
  BY <1>1, PruningInvariant, PTL

(* Positions outside a bitset are never set. *)
LEMMA BitsInside ==
  ASSUME NEW size \in Nat, NEW bits \in SUBSET (0 .. size - 1), NEW is \in SUBSET Nat
  PROVE  /\ SetBits([size |-> size, bits |-> bits], is).size = size
         /\ SetBits([size |-> size, bits |-> bits], is).bits \subseteq 0 .. size - 1
<1> DEFINE b == [size |-> size, bits |-> bits]
<1>1. b.size = size /\ b.bits = bits
  OBVIOUS
<1> HIDE DEF b
<1>2. SetBits(b, is) = [size |-> size, bits |-> bits \cup {i \in is : i < size}]
  BY <1>1 DEF SetBits
<1>3. bits \cup {i \in is : i < size} \subseteq 0 .. size - 1
  <2>1. \A i \in is : i < size => i \in 0 .. size - 1
    OBVIOUS
  <2> QED
    BY <2>1
<1> QED
  BY <1>2, <1>3 DEF b

(* Segments written under any layout have the type of metadata. *)
SegmentTyped(seg) ==
  /\ seg.layout \in Layouts
  /\ seg.bitset.size = BitsetSize(seg.layout)
  /\ seg.bitset.bits \subseteq 0 .. seg.bitset.size - 1
  /\ seg.rows \subseteq RowSpace

LEMMA TypedWithBits ==
  ASSUME NEW l \in Layouts, NEW bits \in SUBSET (0 .. BitsetSize(l) - 1),
         NEW rows \in SUBSET RowSpace
  PROVE  SegmentTyped([layout |-> l,
                       bitset |-> [size |-> BitsetSize(l), bits |-> bits],
                       rows   |-> rows])
  BY DEF SegmentTyped

LEMMA WriteTyped ==
  ASSUME TypeOK, NEW row \in TableRows, NEW stored \in ReadBack(row), WriteRow(row, stored)
  PROVE  \A k \in DOMAIN segs' : SegmentTyped(segs'[k])
<1> DEFINE key == compute_segment_key(row, layout)
           size == BitsetSize(layout)
           i == compute_bitset_index(row, layout)
           new == SetBits(EmptyBitset(size), {i})
           merged == MergeBits(new, segs[key].bitset)
           seg == IF key \in DOMAIN segs
                    THEN [layout |-> layout,
                          bitset |-> merged,
                          rows   |-> segs[key].rows \cup {stored}]
                    ELSE [layout |-> layout, bitset |-> new, rows |-> {stored}]
<1>1. segs' = [k \in DOMAIN segs \cup {key} |-> IF k = key THEN seg ELSE segs[k]]
  BY DEF WriteRow
<1>2. row \in RowSpace /\ layout \in Layouts
  BY DEF TypeOK
<1>3. i \in 0 .. size - 1 /\ size \in Nat
  BY <1>2, RowBitType
<1>4. stored \in RowSpace
  BY <1>2, ReadBackRouted
<1>5. new = [size |-> size, bits |-> {i}]
  <2>1. \A j \in {i} : j < size
    BY <1>3
  <2> HIDE DEF i, size
  <2>2. EmptyBitset(size) = [size |-> size, bits |-> {}]
    BY DEF EmptyBitset
  <2>3. SetBits([size |-> size, bits |-> {}], {i}) = [size |-> size, bits |-> {} \cup {i}]
    BY <2>1, BitsSet
  <2> QED
    BY <2>2, <2>3
<1>6. SegmentTyped([layout |-> layout, bitset |-> new, rows |-> {stored}])
  <2>1. {i} \in SUBSET (0 .. size - 1) /\ {stored} \in SUBSET RowSpace
    BY <1>3, <1>4
  <2> HIDE DEF i
  <2> QED
    BY <1>2, <1>5, <2>1, TypedWithBits
<1>7. ASSUME key \in DOMAIN segs
      PROVE  SegmentTyped([layout |-> layout, bitset |-> merged,
                           rows   |-> segs[key].rows \cup {stored}])
  <2>1. /\ segs[key].layout \in Layouts
        /\ segs[key].bitset.size = BitsetSize(segs[key].layout)
        /\ segs[key].bitset.bits \subseteq 0 .. segs[key].bitset.size - 1
        /\ segs[key].rows \subseteq RowSpace
    BY <1>7 DEF TypeOK
  <2>2. segs[key].bitset.bits \in SUBSET Nat
    BY <2>1
  <2>3. {i} \in SUBSET (0 .. size - 1)
    BY <1>3
  <2>4. merged = SetBits([size |-> size, bits |-> {i}], segs[key].bitset.bits)
    BY <1>5 DEF MergeBits
  <2> HIDE DEF merged, size, i
  <2>5. merged.size = size /\ merged.bits \subseteq 0 .. size - 1
    BY <1>3, <2>2, <2>3, <2>4, BitsInside
  <2>6. segs[key].rows \cup {stored} \subseteq RowSpace
    BY <1>4, <2>1
  <2> QED
    BY <1>2, <2>5, <2>6 DEF SegmentTyped, size
<1> HIDE DEF key, merged, new
<1>8. SegmentTyped(seg)
  BY <1>6, <1>7
<1>9. \A k \in DOMAIN segs : SegmentTyped(segs[k])
  BY DEF TypeOK, SegmentTyped
<1> HIDE DEF seg
<1> QED
  BY <1>1, <1>8, <1>9

(* The state always has the types of the metadata and of the predicate,    *)
(* also when sessions with different layouts write to the same segment:    *)
(* merging never sets a bit outside the bitset.                            *)
THEOREM PruningTypes ==
  Spec => []TypeOK
<1> DEFINE Inv == TypeOK /\ PredicateInv
<1>1. Init => Inv
  BY DEF Init, TypeOK, PredicateInv, FilterType, NoFilter
<1>2. Inv /\ [Next]_vars => Inv'
  <2> SUFFICES ASSUME Inv, [Next]_vars PROVE Inv'
    OBVIOUS
  <2>1. PredicateInv'
    BY PredicateStep
  <2>2. CASE \E row \in TableRows : \E stored \in ReadBack(row) : WriteRow(row, stored)
    BY <2>1, <2>2, WriteTyped DEF TypeOK, PredicateInv, SegmentTyped, WriteRow
  <2>3. CASE UNCHANGED segs /\ layout' \in Layouts
    BY <2>1, <2>3 DEF TypeOK, PredicateInv
  <2> QED
    BY <2>2, <2>3
       DEF Next, Reconfigure, add_filter, add_range_filter, add_min_filter,
           add_max_filter, SetFilter, vars, TypeOK
<1>3. Inv => TypeOK
  OBVIOUS
<1> QED
  BY <1>1, <1>2, <1>3, PTL DEF Spec

-----------------------------------------------------------------------------
(* Adding bounds to a predicate.                                           *)

(* A narrower range, and the bound of a column without a filter, accept no *)
(* value that was rejected.                                                *)
LEMMA NarrowerRange ==
  ASSUME NEW f \in FilterType, NEW g \in FilterType, NEW v \in Values \cup {Missing},
         \/ f.kind = "none"
         \/ g = f
         \/ /\ f.kind = "range" /\ g.kind = "range"
            /\ f.min <= g.min /\ g.max <= f.max,
         MatchesFilter(g, v)
  PROVE  MatchesFilter(f, v)
<1>1. f.min \in Int /\ f.max \in Int /\ g.min \in Int /\ g.max \in Int
  BY DEF FilterType
<1>2. CASE f.kind = "none"
  BY <1>2 DEF MatchesFilter
<1>3. CASE g = f
  BY <1>3
<1>4. CASE f.kind = "range" /\ g.kind = "range" /\ f.min <= g.min /\ g.max <= f.max
  <2>1. v # Missing /\ Parse[v] # NaN /\ g.min <= Parse[v] /\ Parse[v] <= g.max
    BY <1>4 DEF MatchesFilter
  <2>2. Parse[v] \in Int
    BY <2>1
  <2>3. f.min <= Parse[v] /\ Parse[v] <= f.max
    BY <1>1, <1>4, <2>1, <2>2
  <2> QED
    BY <1>4, <2>1, <2>3 DEF MatchesFilter
<1> QED
  BY <1>2, <1>3, <1>4

(* The new filter of the column is such a filter. *)
LEMMA BoundNarrows ==
  ASSUME PredicateInv, NEW c \in RangeColumns, NEW n \in Bounds,
         add_min_filter(c, n) \/ add_max_filter(c, n)
  PROVE  \E g \in FilterType :
           /\ SetFilter(c, g)
           /\ \/ filters[c].kind = "none"
              \/ g = filters[c]
              \/ /\ filters[c].kind = "range" /\ g.kind = "range"
                 /\ filters[c].min <= g.min /\ g.max <= filters[c].max
<1> DEFINE f == filters[c]
<1>1. f \in FilterType /\ f.min \in Int /\ f.max \in Int /\ n \in Int
  BY PredicateAssumption DEF PredicateInv, FilterType
<1>2. f.kind \in {"none", "range", "exact"}
  BY <1>1 DEF FilterType
<1>3. CASE add_min_filter(c, n)
  <2>1. CASE f.kind = "none"
    <3>1. SetFilter(c, RangeFilter(n, MaxF)) /\ RangeFilter(n, MaxF) \in FilterType
      BY <1>1, <1>3, <2>1, FilterTypes DEF add_min_filter
    <3> QED
      BY <2>1, <3>1
  <2>2. CASE f.kind = "range"
    <3> DEFINE g == RangeFilter(Larger(f.min, n), f.max)
    <3>1. Larger(f.min, n) \in Int /\ f.min <= Larger(f.min, n)
      BY <1>1 DEF Larger
    <3>2. SetFilter(c, g)
      BY <1>3, <2>2 DEF add_min_filter
    <3>3. g.kind = "range" /\ g.min = Larger(f.min, n) /\ g.max = f.max
      BY DEF RangeFilter
    <3>4. g \in FilterType
      BY <1>1, <3>1, FilterTypes
    <3> HIDE DEF g
    <3> QED
      BY <1>1, <2>2, <3>1, <3>2, <3>3, <3>4
  <2>3. CASE f.kind = "exact"
    <3>1. SetFilter(c, f)
      BY <1>3, <2>3 DEF add_min_filter
    <3> QED
      BY <1>1, <3>1
  <2> QED
    BY <1>2, <2>1, <2>2, <2>3
<1>4. CASE add_max_filter(c, n)
  <2>1. CASE f.kind = "none"
    <3>1. SetFilter(c, RangeFilter(MinF, n)) /\ RangeFilter(MinF, n) \in FilterType
      BY <1>1, <1>4, <2>1, FilterTypes DEF add_max_filter
    <3> QED
      BY <2>1, <3>1
  <2>2. CASE f.kind = "range"
    <3> DEFINE g == RangeFilter(f.min, Smaller(f.max, n))
    <3>1. Smaller(f.max, n) \in Int /\ Smaller(f.max, n) <= f.max
      BY <1>1 DEF Smaller
    <3>2. SetFilter(c, g)
      BY <1>4, <2>2 DEF add_max_filter
    <3>3. g.kind = "range" /\ g.min = f.min /\ g.max = Smaller(f.max, n)
      BY DEF RangeFilter
    <3>4. g \in FilterType
      BY <1>1, <3>1, FilterTypes
    <3> HIDE DEF g
    <3> QED
      BY <1>1, <2>2, <3>1, <3>2, <3>3, <3>4
  <2>3. CASE f.kind = "exact"
    <3>1. SetFilter(c, f)
      BY <1>4, <2>3 DEF add_max_filter
    <3> QED
      BY <1>1, <3>1
  <2> QED
    BY <1>2, <2>1, <2>2, <2>3
<1> QED
  BY <1>3, <1>4

(* The predicate is well formed in every state, whatever the layouts. *)
LEMMA PredicateInvariant == Spec => []PredicateInv
<1>1. Init => PredicateInv
  BY DEF Init, PredicateInv, FilterType, NoFilter
<1>2. PredicateInv /\ [Next]_vars => PredicateInv'
  BY PredicateStep
<1> QED
  BY <1>1, <1>2, PTL DEF Spec

(* Calling add_min_filter and add_max_filter never widens a predicate: a   *)
(* row it rejects stays rejected, for all values, bounds and columns.      *)
THEOREM OnlyNarrower == Spec => BoundsOnlyNarrow
<1> DEFINE Bounding == \E c \in RangeColumns, n \in Bounds :
                         add_min_filter(c, n) \/ add_max_filter(c, n)
           Narrower == \A row \in TableRows : matches(row)' => matches(row)
<1>1. PredicateInv => (Bounding => Narrower)
  <2> SUFFICES ASSUME PredicateInv, NEW c \in RangeColumns, NEW n \in Bounds,
                      add_min_filter(c, n) \/ add_max_filter(c, n),
                      NEW row \in TableRows, matches(row)'
               PROVE  matches(row)
    OBVIOUS
  <2>1. PICK g \in FilterType :
          /\ SetFilter(c, g)
          /\ \/ filters[c].kind = "none"
             \/ g = filters[c]
             \/ /\ filters[c].kind = "range" /\ g.kind = "range"
                /\ filters[c].min <= g.min /\ g.max <= filters[c].max
    BY BoundNarrows
  <2>2. filters \in [Columns -> FilterType] /\ filters' = [filters EXCEPT ![c] = g]
    BY <2>1 DEF PredicateInv, SetFilter
  <2>3. \A d \in Columns : MatchesFilter(filters'[d], row[d])
    BY DEF matches, MatchesFilter
  <2>4. row \in [Columns -> Values \cup {Missing}]
    BY DEF RowSpace
  <2>5. ASSUME NEW d \in Columns PROVE MatchesFilter(filters[d], row[d])
    <3>1. CASE d = c
      <4>1. MatchesFilter(g, row[c])
        BY <2>2, <2>3, <3>1
      <4>2. filters[c] \in FilterType /\ row[c] \in Values \cup {Missing}
        BY <2>2, <2>4, <3>1
      <4> QED
        BY <2>1, <3>1, <4>1, <4>2, NarrowerRange
    <3>2. CASE d # c
      BY <2>2, <2>3, <3>2
    <3> QED
      BY <3>1, <3>2
  <2> QED
    BY <2>5 DEF matches
<1>2. PredicateInv /\ [Next]_vars => [Bounding => Narrower]_vars
  BY <1>1
<1> QED
  BY <1>2, PredicateInvariant, PTL DEF Spec, BoundsOnlyNarrow

-----------------------------------------------------------------------------
(* How many buckets a range touches.  The laws of powers come from counting*)
(* subsets.                                                                *)

(* The first n numbers have 2^n sets. *)
LEMMA PowerCounts ==
  ASSUME NEW S, IsFiniteSet(S), NEW n \in Nat, Cardinality(S) = n
  PROVE  IsFiniteSet(SUBSET S) /\ Cardinality(SUBSET S) = 2 ^ n /\ 2 ^ n \in Nat
<1>1. IsFiniteSet(SUBSET S) /\ Cardinality(SUBSET S) = 2 ^ Cardinality(S)
  BY FS_SUBSET
<1>2. Cardinality(SUBSET S) \in Nat
  BY <1>1, FS_CardinalityType
<1> QED
  BY <1>1, <1>2

(* Powers of two are positive. *)
LEMMA PowerType ==
  ASSUME NEW n \in Nat
  PROVE  2 ^ n \in Nat \ {0}
<1>1. IsFiniteSet(1 .. n) /\ Cardinality(1 .. n) = n
  <2>1. 1 \in Int /\ n \in Int /\ (1 > n => n = 0)
    OBVIOUS
  <2> QED
    BY <2>1, FS_Interval
<1>2. IsFiniteSet(SUBSET (1 .. n)) /\ Cardinality(SUBSET (1 .. n)) = 2 ^ n /\ 2 ^ n \in Nat
  BY <1>1, PowerCounts
<1>3. SUBSET (1 .. n) # {}
  OBVIOUS
<1>4. Cardinality(SUBSET (1 .. n)) # 0
  BY <1>2, <1>3, FS_EmptySet
<1> QED
  BY <1>2, <1>4

(* 2^(m+n) = 2^m * 2^n: a subset of 1..m+n is one of 1..m with one of the  *)
(* rest.                                                                   *)
LEMMA PowerSum ==
  ASSUME NEW m \in Nat, NEW n \in Nat
  PROVE  2 ^ (m + n) = 2 ^ m * 2 ^ n
<1> DEFINE A == 1 .. m
           B == m + 1 .. m + n
           D == (SUBSET A) \X (SUBSET B)
           f == [d \in D |-> d[1] \cup d[2]]
<1>1. IsFiniteSet(A) /\ Cardinality(A) = m
  <2>1. 1 \in Int /\ m \in Int /\ (1 > m => m = 0)
    OBVIOUS
  <2> QED
    BY <2>1, FS_Interval
<1>2. IsFiniteSet(B) /\ Cardinality(B) = n
  <2>1. m + 1 \in Int /\ m + n \in Int /\ (m + 1 > m + n => n = 0)
    OBVIOUS
  <2>2. Cardinality(B) = IF m + 1 > m + n THEN 0 ELSE (m + n) - (m + 1) + 1
    BY <2>1, FS_Interval
  <2>3. IsFiniteSet(B)
    BY <2>1, FS_Interval
  <2> QED
    BY <2>1, <2>2, <2>3
<1>3. IsFiniteSet(1 .. m + n) /\ Cardinality(1 .. m + n) = m + n
  <2>1. 1 \in Int /\ m + n \in Int /\ (1 > m + n => m + n = 0)
    OBVIOUS
  <2> QED
    BY <2>1, FS_Interval
<1>4. 1 .. m + n = A \cup B /\ A \cap B = {}
  OBVIOUS
<1> HIDE DEF A, B
<1>5. f \in Bijection(D, SUBSET (A \cup B))
  <2>1. f \in [D -> SUBSET (A \cup B)]
    OBVIOUS
  <2>2. \A S \in SUBSET (A \cup B) : \E d \in D : f[d] = S
    <3> SUFFICES ASSUME NEW S \in SUBSET (A \cup B) PROVE \E d \in D : f[d] = S
      OBVIOUS
    <3>1. <<S \cap A, S \cap B>> \in D
      OBVIOUS
    <3>2. f[<<S \cap A, S \cap B>>] = S
      BY <3>1
    <3> QED
      BY <3>1, <3>2
  <2>3. \A c, d \in D : f[c] = f[d] => c = d
    <3> SUFFICES ASSUME NEW c \in D, NEW d \in D, f[c] = f[d] PROVE c = d
      OBVIOUS
    <3>1. c[1] \cup c[2] = d[1] \cup d[2]
      OBVIOUS
    <3>2. c[1] \subseteq A /\ c[2] \subseteq B /\ d[1] \subseteq A /\ d[2] \subseteq B
      OBVIOUS
    <3>3. \A x : x \in c[1] <=> x \in d[1]
      BY <1>4, <3>1, <3>2
    <3>4. \A x : x \in c[2] <=> x \in d[2]
      BY <1>4, <3>1, <3>2
    <3>5. c[1] = d[1] /\ c[2] = d[2]
      BY <3>3, <3>4
    <3> QED
      BY <3>5
  <2> QED
    BY <2>1, <2>2, <2>3 DEF Bijection, Injection, Surjection, IsInjective
<1>6. ExistsBijection(D, SUBSET (A \cup B))
  BY <1>5 DEF ExistsBijection
<1>7. IsFiniteSet(D) /\ Cardinality(D) = 2 ^ m * 2 ^ n
  <2>1. /\ IsFiniteSet(SUBSET A) /\ Cardinality(SUBSET A) = 2 ^ m
        /\ IsFiniteSet(SUBSET B) /\ Cardinality(SUBSET B) = 2 ^ n
    BY <1>1, <1>2, PowerCounts
  <2> QED
    BY <2>1, FS_Product
<1>8. Cardinality(SUBSET (A \cup B)) = Cardinality(D)
  BY <1>6, <1>7, FS_Bijection
<1>9. Cardinality(SUBSET (A \cup B)) = 2 ^ (m + n)
  <2>1. m + n \in Nat
    OBVIOUS
  <2> QED
    BY <1>3, <1>4, <2>1, PowerCounts
<1> QED
  BY <1>7, <1>8, <1>9

(* A common positive factor can be cancelled. *)
LEMMA Cancel ==
  ASSUME NEW x \in Int, NEW y \in Int, NEW q \in Nat \ {0}, x * q <= y * q
  PROVE  x <= y
<1> SUFFICES ASSUME y + 1 <= x PROVE FALSE
  OBVIOUS
<1>1. (y + 1) * q <= x * q
  OBVIOUS
<1>2. (y + 1) * q = y * q + q
  OBVIOUS
<1>3. x * q \in Int /\ y * q \in Int
  OBVIOUS
<1> QED
  BY <1>1, <1>2, <1>3

(* A number 2^k times as large reaches at most k powers more. *)
LEMMA ReachesShifted ==
  ASSUME NEW m \in Int, NEW n \in Int, NEW k \in Nat, n <= m * 2 ^ k,
         NEW e \in Nat, e > k, Reaches(n, e)
  PROVE  Reaches(m, e - k)
<1> DEFINE d == e - k
           p == 2 ^ d
           q == 2 ^ k
<1>1. d \in Nat /\ k + d = e /\ d + k = e
  OBVIOUS
<1>2. p \in Nat \ {0} /\ q \in Nat \ {0} /\ 2 ^ e = p * q
  BY <1>1, PowerType, PowerSum
<1>3. Scale * 2 ^ e <= n
  BY DEF Reaches
<1> HIDE DEF p
<1>4. n <= m * q
  OBVIOUS
<1> HIDE DEF q
<1>5. (Scale * p) * q <= m * q
  <2>1. Scale \in Nat /\ Scale * (p * q) = (Scale * p) * q
    BY <1>2
  <2>2. Scale * (p * q) <= n
    BY <1>2, <1>3
  <2>3. (Scale * p) * q \in Int /\ m * q \in Int
    BY <1>2, <2>1
  <2> QED
    BY <1>4, <2>1, <2>2, <2>3
<1>6. Scale * p \in Int /\ p <= Scale * p
  <2>1. Scale \in Nat /\ Scale >= 1
    OBVIOUS
  <2>2. 1 * p <= Scale * p
    BY <1>2, <2>1
  <2> QED
    BY <1>2, <2>1, <2>2
<1>7. Scale * p <= m
  BY <1>2, <1>5, <1>6, Cancel
<1>8. p \in 1 .. m
  BY <1>2, <1>6, <1>7
<1> QED
  BY <1>7, <1>8 DEF Reaches, p

(* Hence its bucket is at most k further on. *)
LEMMA MagnitudeSpread ==
  ASSUME NEW m \in Int, NEW n \in Int, NEW k \in Nat, n <= m * 2 ^ k,
         NEW b \in 1 .. 255
  PROVE  Magnitude(n, b) <= Magnitude(m, b) + k
<1> DEFINE E(j) == {e \in 1 .. b - 1 : Reaches(j, e)}
           near == E(n) \cap (1 .. k)
           far  == E(n) \ (1 .. k)
           f    == [e \in far |-> e - k]
<1>1. IsFiniteSet(1 .. b - 1) /\ IsFiniteSet(1 .. k) /\ Cardinality(1 .. k) = k
  <2>1. 1 \in Int /\ k \in Int /\ b - 1 \in Int /\ (1 > k => k = 0)
    OBVIOUS
  <2> QED
    BY <2>1, FS_Interval
<1>2. E(n) \in SUBSET (1 .. b - 1) /\ E(m) \in SUBSET (1 .. b - 1)
  OBVIOUS
<1>3. /\ IsFiniteSet(E(n)) /\ IsFiniteSet(E(m))
      /\ Cardinality(E(n)) \in Nat /\ Cardinality(E(m)) \in Nat
  BY <1>1, <1>2, FS_Subset, FS_CardinalityType
<1>4. /\ IsFiniteSet(near) /\ Cardinality(near) <= k /\ Cardinality(near) \in Nat
  <2>1. near \in SUBSET (1 .. k)
    OBVIOUS
  <2>2. IsFiniteSet(near) /\ Cardinality(near) <= Cardinality(1 .. k)
    BY <1>1, <2>1, FS_Subset
  <2> QED
    BY <1>1, <2>2, FS_CardinalityType
<1>5. \A e \in far : e \in Nat /\ e > k /\ e - k \in E(m)
  <2> SUFFICES ASSUME NEW e \in far PROVE e \in Nat /\ e > k /\ e - k \in E(m)
    OBVIOUS
  <2>1. e \in Nat /\ e > k /\ Reaches(n, e) /\ e - k \in 1 .. b - 1
    OBVIOUS
  <2>2. Reaches(m, e - k)
    BY <2>1, ReachesShifted
  <2> QED
    BY <2>1, <2>2
<1>6. f \in Injection(far, E(m))
  <2> HIDE DEF far, E
  <2>1. f \in [far -> E(m)]
    BY <1>5
  <2>2. \A c, d \in far : f[c] = f[d] => c = d
    BY <1>5
  <2> QED
    BY <2>1, <2>2 DEF Injection, IsInjective
<1> HIDE DEF f
<1>7. IsFiniteSet(far) /\ Cardinality(far) <= Cardinality(E(m))
  BY <1>3, <1>6, FS_Injection
<1>8. E(n) = near \cup far /\ near \cap far = {}
  OBVIOUS
<1>9. Cardinality(far) \in Nat
  BY <1>7, FS_CardinalityType
<1> HIDE DEF near, far
<1>10. Cardinality(near \cup far) = Cardinality(near) + Cardinality(far) - Cardinality(near \cap far)
  BY <1>4, <1>7, FS_Union
<1>11. Cardinality(near \cap far) = 0
  BY <1>8, FS_EmptySet
<1>12. Cardinality(E(n)) = Cardinality(near) + Cardinality(far)
  <2>1. Cardinality(E(n)) = Cardinality(near \cup far)
    BY <1>8, Zenon
  <2> QED
    BY <1>4, <1>9, <1>10, <1>11, <2>1
<1>13. Cardinality(E(n)) <= Cardinality(E(m)) + k
  <2> HIDE DEF E
  <2> QED
    BY <1>3, <1>4, <1>7, <1>9, <1>12
<1> QED
  BY <1>13 DEF Magnitude

(* The documented bound of MARS: a range [a, b] with 0 < a and b <= 2^k * a*)
(* touches at most k + 1 buckets, for all numbers and bucket counts.       *)
THEOREM RangeTouchesFew ==
  ASSUME NEW min \in Int, NEW max \in Int, NEW k \in Nat, max <= min * 2 ^ k,
         NEW b \in 1 .. 255
  PROVE  Cardinality(route_numeric_range(min, max, b)) <= k + 1
<1>1. CASE min > max
  BY <1>1, FS_EmptySet DEF route_numeric_range
<1>2. CASE ~(min > max)
  <2> DEFINE lo == Magnitude(min, b)
             hi == Magnitude(max, b)
  <2>1. lo \in 0 .. b - 1 /\ hi \in 0 .. b - 1
    BY MagnitudeType
  <2>2. hi <= lo + k
    BY MagnitudeSpread
  <2>3. route_numeric_range(min, max, b) = lo .. hi
    BY <1>2 DEF route_numeric_range
  <2> HIDE DEF lo, hi
  <2>4. lo \in Int /\ hi \in Int
    BY <2>1
  <2>5. Cardinality(lo .. hi) = IF lo > hi THEN 0 ELSE hi - lo + 1
    BY <2>4, FS_Interval
  <2> QED
    BY <2>2, <2>3, <2>4, <2>5
<1> QED
  BY <1>1, <1>2

(* ... and so does every range filter of every predicate. *)
THEOREM MarsNearOptimal == Spec => []NearOptimal
<1>1. PredicateInv => NearOptimal
  <2> SUFFICES ASSUME PredicateInv, NEW c \in Columns, NEW l \in Layouts, NEW i \in Dim,
                      NEW k \in 0 .. l.buckets[i],
                      filters[c].max <= filters[c].min * 2 ^ k
               PROVE  Cardinality(route_numeric_range(filters[c].min, filters[c].max,
                                                      l.buckets[i])) <= k + 1
    BY DEF NearOptimal
  <2>1. filters[c].min \in Int /\ filters[c].max \in Int
    BY DEF PredicateInv, FilterType
  <2>2. l.buckets[i] \in 1 .. 255
    OBVIOUS
  <2>3. k \in Nat
    BY <2>2
  <2> QED
    BY <2>1, <2>2, <2>3, RangeTouchesFew
<1> QED
  BY <1>1, PredicateInvariant, PTL
=============================================================================

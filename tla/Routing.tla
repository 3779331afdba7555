------------------------------ MODULE Routing ------------------------------
(***************************************************************************)
(* How STRATA routes rows and queries to buckets (routing/hash.rs), and    *)
(* the existence bitsets that record which buckets occur (types.rs).       *)
(*                                                                         *)
(* A layout says how a writer routes: the three dimension columns, how     *)
(* each is routed, and into how many buckets.  A value is opaque; Hash is  *)
(* ahash with its fixed seeds, and Parse its value as an f64, in units of  *)
(* 1/Scale so that fractions below one exist.                              *)
(***************************************************************************)
EXTENDS Integers, FiniteSets

CONSTANTS
  Columns,   \* column names
  Values,    \* cell values
  Missing,   \* row.get(column) is None
  Empty,     \* the empty string, routed in place of a missing value
  Hash,      \* route_value before the modulus
  Parse,     \* value.parse::<f64>(), or NaN
  NaN,       \* parse failed (or the value is not a number)
  Scale,     \* 1.0 in the units of Parse
  Layouts    \* the writer configurations in use

Dim == 1 .. 3

ASSUME ScaleAssumption == Scale \in Nat \ {0}
ASSUME ValueAssumption ==
  /\ Missing \notin Values
  /\ Empty \in Values
  /\ NaN \notin Int
  /\ Hash \in [Values -> Nat]
  /\ Parse \in [Values -> Int \cup {NaN}]
ASSUME LayoutAssumption ==
  \A l \in Layouts :
    /\ l.dims \in [Dim -> Columns]
    /\ l.types \in [Dim -> {"Categorical", "Numeric"}]
    /\ l.buckets \in [Dim -> 1 .. 255]

RowSpace == [Columns -> Values \cup {Missing}]

(* The value a row is routed by in a column. *)
Cell(row, c) == IF row[c] = Missing THEN Empty ELSE row[c]

-----------------------------------------------------------------------------
(* n / Scale >= 2^e. *)
Reaches(n, e) == \E p \in 1 .. n : p = 2 ^ e /\ Scale * p <= n

(* The MARS bucket of a number: floor(log2), saturated to 0 below one and  *)
(* clamped to the last bucket.                                             *)
Magnitude(n, buckets) == Cardinality({e \in 1 .. buckets - 1 : Reaches(n, e)})

route_value(v, buckets) == Hash[v] % buckets

route_numeric(v, buckets) ==
  IF Parse[v] = NaN THEN 0 ELSE Magnitude(Parse[v], buckets)

route_numeric_range_HalfOpen(min, max, buckets) ==  \* bug: lo..hi for lo..=hi
  IF min > max THEN {} ELSE Magnitude(min, buckets) .. Magnitude(max, buckets) - 1
route_numeric_range_FromZero(min, max, buckets) ==  \* bug: the minimum is ignored
  IF min > max THEN {} ELSE 0 .. Magnitude(max, buckets)
route_numeric_range(min, max, buckets) ==
  IF min > max THEN {} ELSE Magnitude(min, buckets) .. Magnitude(max, buckets)

route_dimension(v, type, buckets) ==
  IF type = "Numeric" THEN route_numeric(v, buckets) ELSE route_value(v, buckets)

(* The bucket of a row in the i-th dimension of a layout. *)
BucketOf(row, l, i) ==
  route_dimension(Cell(row, l.dims[i]), l.types[i], l.buckets[i])

compute_segment_key(row, l) == <<BucketOf(row, l, 1), BucketOf(row, l, 2)>>

BitIndex(l, x, y, z) ==
  x * l.buckets[2] * l.buckets[3] + y * l.buckets[3] + z

compute_bitset_index(row, l) ==
  BitIndex(l, BucketOf(row, l, 1), BucketOf(row, l, 2), BucketOf(row, l, 3))

-----------------------------------------------------------------------------
(* ExistenceBitset: a size and the positions set. *)
BitsetSize(l) == l.buckets[1] * l.buckets[2] * l.buckets[3]

EmptyBitset(size) == [size |-> size, bits |-> {}]

SetBits(b, is) ==
  [size |-> b.size, bits |-> b.bits \cup {i \in is : i < b.size}]

Intersects(a, b) == a.size = b.size /\ a.bits \cap b.bits # {}

MergeBits_Concat(a, b) ==  \* bug: the second bitset is appended
  [size |-> a.size + b.size, bits |-> a.bits \cup {a.size + i : i \in b.bits}]
MergeBits(a, b) == SetBits(a, b.bits)
=============================================================================

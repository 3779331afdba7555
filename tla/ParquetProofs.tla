--------------------------- MODULE ParquetProofs ---------------------------
(***************************************************************************)
(* Proofs about ParquetStore: skipping row groups loses no matching row,   *)
(* every segment whose flush was not cut short has data and metadata of    *)
(* one flush, and therefore a query returns exactly the rows that match,   *)
(* and count_exact counts them.                                            *)
(***************************************************************************)
EXTENDS ParquetStore, PruningProofs, SumLemmas

USE ValueAssumption, LayoutAssumption

(* A data file holds what reading makes of the rows it was written from. *)
FileOK(file) ==
  /\ file.types \in FileTypes
  /\ file.origin \in Seq(RowSpace)
  /\ file.rows = [i \in DOMAIN file.origin |-> DecodeRow(file.origin[i], file.types)]

(* Metadata has the bits and the bucket counts of the rows of a data file. *)
Describes(seg, rows) ==
  /\ seg.bitset.bits = {compute_bitset_index(rows[i], seg.layout) : i \in DOMAIN rows}
  /\ seg.counts =
       [idx \in seg.bitset.bits |->
          Cardinality({i \in DOMAIN rows :
                         compute_bitset_index(rows[i], seg.layout) = idx})]

(* The inductive invariant. *)
WriterInv ==
  /\ schema \in Schemas \cup {NoSchema}
  /\ \A k \in DOMAIN builders : builders[k] \in Seq(TableRows) \ {<< >>}
  /\ step \in {"idle", "drain", "data", "meta", "json"}
  /\ step \in {"data", "meta", "json"} <=> current # {}
  /\ current \subseteq DOMAIN builders
  /\ \A k, l \in current : k = l
  /\ calls \in 0 .. MaxRows

FilesInv ==
  /\ \A k \in DOMAIN files : FileOK(files[k])
  /\ \A k \in DOMAIN segs :
       segs[k].layout = layout /\ segs[k].bitset.size = BitsetSize(layout)
  /\ torn \subseteq damaged
  /\ damaged \subseteq DOMAIN files
  /\ current \subseteq damaged
  /\ step \in {"meta", "json"} => \A k \in current : files[k].origin = builders[k]
  /\ \A k \in DOMAIN files \ damaged :
       k \in DOMAIN segs /\ Describes(segs[k], files[k].origin)

ParquetInv == layout \in Layouts /\ PredicateInv /\ WriterInv /\ FilesInv

-----------------------------------------------------------------------------
(* A cell stored as a number is read as a cell of the same value. *)
LEMMA CanonType ==
  ASSUME NEW t \in {"Int64", "Float64"}, NEW v \in Values
  PROVE  /\ Canon[t][v] \in Values \cup {Missing}
         /\ Canon[t][v] # Missing => Parse[Canon[t][v]] = Parse[v]
<1>1. DOMAIN Canon = {"Int64", "Float64"} /\ Canon[t] \in [Values -> Values \cup {Missing}]
  BY CanonAssumption
<1> QED
  BY <1>1, CanonAssumption

(* What the reader makes of a cell is a cell. *)
LEMMA DecodeType ==
  ASSUME NEW row \in RowSpace, NEW types \in FileTypes
  PROVE  DecodeRow(row, types) \in RowSpace
<1>1. ASSUME NEW c \in Columns, c \in DOMAIN types
      PROVE  DecodeCell(types[c], row[c]) \in Values \cup {Missing}
  <2>1. row[c] \in Values \cup {Missing} /\ types[c] \in Types
    BY <1>1 DEF RowSpace, FileTypes
  <2> QED
    BY <2>1, CanonType DEF DecodeCell, Types
<1> QED
  BY <1>1 DEF DecodeRow, RowSpace

(* The rows of a data file are rows. *)
LEMMA FileRows ==
  ASSUME NEW file, FileOK(file)
  PROVE  /\ file.rows \in Seq(RowSpace)
         /\ DOMAIN file.rows = DOMAIN file.origin
         /\ \A i \in DOMAIN file.rows :
              /\ file.rows[i] \in RowSpace
              /\ file.origin[i] \in RowSpace
              /\ file.rows[i] = DecodeRow(file.origin[i], file.types)
<1>1. \A i \in DOMAIN file.origin : file.origin[i] \in RowSpace
  BY DEF FileOK
<1>2. \A i \in DOMAIN file.origin :
        DecodeRow(file.origin[i], file.types) \in RowSpace
  BY <1>1, DecodeType DEF FileOK
<1>3. DOMAIN file.rows = DOMAIN file.origin
  BY DEF FileOK
<1>4. \A i \in DOMAIN file.rows : file.rows[i] = DecodeRow(file.origin[i], file.types)
  BY DEF FileOK
<1>5. file.rows \in Seq(RowSpace)
  <2>1. DOMAIN file.origin = 1 .. Len(file.origin) /\ Len(file.origin) \in Nat
    BY DEF FileOK
  <2>2. file.rows \in [1 .. Len(file.origin) -> RowSpace]
    BY <1>2, <2>1 DEF FileOK
  <2> QED
    BY <2>1, <2>2
<1> QED
  BY <1>1, <1>2, <1>3, <1>4, <1>5

-----------------------------------------------------------------------------
(* Row-group pruning is sound: a row group that has a row the predicate    *)
(* matches is never skipped, whatever the row groups, the column types and *)
(* the filters; no dotted column may be mistaken for a filtered one.       *)
THEOREM MatchingGroupRead ==
  ASSUME NEW file, FileOK(file), filters \in [Columns -> FilterType],
         \A c \in Columns : filters[c].kind # "none" =>
           DOMAIN file.types \cap Dotted[c] = {},
         NEW i \in DOMAIN file.rows, matches(file.rows[i])
  PROVE  ~Pruned(file, i)
<1> SUFFICES ASSUME NEW c \in Columns, NEW d \in StatsColumns(file, c),
                    Skips(filters[c], file.types[d], GroupCells(file, i, d))
             PROVE  FALSE
  BY DEF Pruned
<1> DEFINE f == filters[c]
           v == file.rows[i][c]
           cells == GroupCells(file, i, c)
<1>1. f.kind \in {"exact", "range"}
  BY DEF Skips
<1>2. d = c
  BY <1>1 DEF StatsColumns
<1>3. f \in FilterType /\ MatchesFilter(f, v)
  BY DEF matches
<1>4. v \in Values \cup {Missing}
  BY FileRows DEF RowSpace
<1>5. v # Missing => v \in cells
  BY DEF GroupCells
<1>6. CASE f.kind = "exact"
  <2>1. v \in f.values /\ v \in Values /\ v # Missing
    BY <1>3, <1>6 DEF MatchesFilter, FilterType
  <2>2. Rank[v] <= Rank[v]
    BY <2>1, SchemaAssumption
  <2>3. AnyPossible(f.values, cells)
    BY <1>5, <2>1, <2>2 DEF AnyPossible
  <2> QED
    BY <1>2, <1>6, <2>3 DEF Skips
<1>7. CASE f.kind = "range"
  <2>1. /\ v # Missing /\ Parse[v] # NaN
        /\ f.min <= Parse[v] /\ Parse[v] <= f.max
    BY <1>3, <1>7 DEF MatchesFilter
  <2>2. Parse[v] \in Int /\ f.min \in Int /\ f.max \in Int
    BY <1>3, <1>4, <2>1 DEF FilterType
  <2> DEFINE numbers == {Parse[w] : w \in cells} \ {NaN}
  <2>3. Parse[v] \in numbers
    BY <1>5, <2>1
  <2>4. Overlaps(f, numbers)
    BY <2>1, <2>2, <2>3 DEF Overlaps
  <2> QED
    BY <1>2, <1>7, <2>4 DEF Skips
<1> QED
  BY <1>1, <1>6, <1>7

(* Of a file that can be read, exactly the matching rows are returned. *)
LEMMA PushdownExact ==
  ASSUME NEW file, FileOK(file), filters \in [Columns -> FilterType],
         \A c \in Columns : filters[c].kind # "none" =>
           DOMAIN file.types \cap Dotted[c] = {}
  PROVE  read_with_pushdown(file) = {i \in DOMAIN file.rows : matches(file.rows[i])}
  BY MatchingGroupRead DEF read_with_pushdown

-----------------------------------------------------------------------------
(* A row is routed to buckets that are resolved for every predicate the    *)
(* row matches as it is read, given string columns under exact filters on  *)
(* dimensions.                                                             *)
LEMMA DecodedRowCovered ==
  ASSUME NEW l \in Layouts, filters \in [Columns -> FilterType],
         RangesAreNumeric(l),
         NEW types \in FileTypes, NEW row \in RowSpace,
         \A j \in Dim : filters[l.dims[j]].kind = "exact" /\ l.dims[j] \in DOMAIN types
                          => types[l.dims[j]] = "Utf8",
         matches(DecodeRow(row, types))
  PROVE  compute_bitset_index(row, l) \in build_mask(l).bits
<1> SUFFICES ASSUME NEW j \in Dim
             PROVE  BucketOf(row, l, j) \in resolve_buckets(l, j)
  BY MaskCoversBuckets
<1> DEFINE c == l.dims[j]
           f == filters[c]
           v == DecodeRow(row, types)[c]
<1>1. c \in Columns /\ f \in FilterType
  OBVIOUS
<1>2. MatchesFilter(f, v)
  BY <1>1 DEF matches
<1>3. row[c] \in Values \cup {Missing}
  BY <1>1 DEF RowSpace
<1>4. v = IF c \in DOMAIN types THEN DecodeCell(types[c], row[c]) ELSE Missing
  BY <1>1 DEF DecodeRow
<1>5. MatchesFilter(f, row[c])
  <2>1. CASE f.kind = "none"
    BY <2>1 DEF MatchesFilter
  <2>2. CASE f.kind = "exact"
    <3>1. v \in f.values /\ v # Missing
      BY <1>1, <1>2, <2>2 DEF MatchesFilter, FilterType
    <3>2. v = row[c]
      BY <1>4, <2>2, <3>1 DEF DecodeCell
    <3> QED
      BY <1>2, <3>2
  <2>3. CASE f.kind = "range"
    <3>1. /\ v # Missing /\ Parse[v] # NaN
          /\ f.min <= Parse[v] /\ Parse[v] <= f.max
      BY <1>2, <2>3 DEF MatchesFilter
    <3>2. c \in DOMAIN types /\ types[c] \in Types
      BY <1>4, <3>1 DEF FileTypes
    <3>3. row[c] # Missing /\ row[c] \in Values
      BY <1>3, <1>4, <3>1, <3>2 DEF DecodeCell
    <3>4. Parse[v] = Parse[row[c]]
      <4>1. CASE types[c] = "Utf8"
        BY <1>4, <3>2, <3>3, <4>1 DEF DecodeCell
      <4>2. CASE types[c] \in {"Int64", "Float64"}
        <5>1. v = Canon[types[c]][row[c]]
          BY <1>4, <3>2, <3>3, <4>2 DEF DecodeCell
        <5>2. Canon[types[c]][row[c]] # Missing =>
                Parse[Canon[types[c]][row[c]]] = Parse[row[c]]
          BY <3>3, <4>2, CanonType
        <5> HIDE DEF v
        <5> QED
          BY <3>1, <5>1, <5>2
      <4>3. CASE types[c] = "Boolean"
        BY <1>4, <3>1, <3>2, <4>3 DEF DecodeCell
      <4> QED
        BY <3>2, <4>1, <4>2, <4>3 DEF Types
    <3> QED
      BY <2>3, <3>1, <3>3, <3>4 DEF MatchesFilter
  <2> QED
    BY <1>1, <2>1, <2>2, <2>3 DEF FilterType
<1> QED
  BY <1>5, ResolvedCoversCell

-----------------------------------------------------------------------------
(* The rows of a builder make a data file. *)
LEMMA DataFileOK ==
  ASSUME NEW rows \in Seq(TableRows) \ {<< >>}, schema \in Schemas \cup {NoSchema}
  PROVE  FileOK(DataFile(rows)) /\ DataFile(rows).origin = rows
<1>1. rows \in Seq(RowSpace)
  BY PredicateAssumption
<1>2. BatchTypes(rows) \in FileTypes
  <2>1. CASE schema = NoSchema
    <3>1. FirstColumns(rows) \in SUBSET Columns
      BY DEF FirstColumns
    <3>2. [c \in FirstColumns(rows) |-> "Utf8"] \in [FirstColumns(rows) -> Types]
      BY DEF Types
    <3> QED
      BY <2>1, <3>1, <3>2 DEF BatchTypes, FileTypes
  <2>2. CASE schema # NoSchema
    BY <2>2, SchemaAssumption DEF BatchTypes, FileTypes
  <2> QED
    BY <2>1, <2>2
<1> QED
  BY <1>1, <1>2 DEF FileOK, DataFile

(* Nor does the torn one break anything: it has no rows. *)
LEMMA TornFileOK == FileOK(TornFile)
<1>1. << >> \in [{} -> Types] /\ {} \in SUBSET Columns
  OBVIOUS
<1>2. TornFile.types \in FileTypes
  <2>1. TornFile.types = << >>
    BY DEF TornFile
  <2>2. << >> \in FileTypes
    BY <1>1 DEF FileTypes
  <2> QED
    BY <2>1, <2>2
<1> QED
  BY <1>2 DEF FileOK, TornFile

(* The metadata of a builder describes its rows. *)
LEMMA BuilderDescribes ==
  ASSUME NEW rows \in Seq(TableRows), layout \in Layouts
  PROVE  /\ Describes(BuilderMeta(rows), rows)
         /\ BuilderMeta(rows).layout = layout
         /\ BuilderMeta(rows).bitset.size = BitsetSize(layout)
<1> DEFINE bits == {compute_bitset_index(rows[i], layout) : i \in DOMAIN rows}
<1>1. \A i \in DOMAIN rows : rows[i] \in RowSpace
  BY PredicateAssumption
<1>2. \A idx \in bits : idx < BitsetSize(layout)
  <2>1. ASSUME NEW i \in DOMAIN rows
        PROVE  compute_bitset_index(rows[i], layout) < BitsetSize(layout)
    <3>1. /\ compute_bitset_index(rows[i], layout) \in 0 .. BitsetSize(layout) - 1
          /\ BitsetSize(layout) \in Nat
      BY <1>1, RowBitType
    <3> QED
      BY <3>1
  <2> QED
    BY <2>1
<1> HIDE DEF bits
<1>3. SetBits(EmptyBitset(BitsetSize(layout)), bits) =
        [size |-> BitsetSize(layout), bits |-> bits]
  BY <1>2 DEF SetBits, EmptyBitset
<1>4. BuilderMeta(rows) =
        [layout |-> layout, bitset |-> [size |-> BitsetSize(layout), bits |-> bits],
         counts |-> [idx \in bits |-> Cardinality(RowsAt(rows, idx))]]
  BY <1>3 DEF BuilderMeta, bits
<1>5. \A idx : RowsAt(rows, idx) =
        {i \in DOMAIN rows : compute_bitset_index(rows[i], layout) = idx}
  BY DEF RowsAt
<1>6. /\ BuilderMeta(rows).layout = layout
      /\ BuilderMeta(rows).bitset.size = BitsetSize(layout)
      /\ BuilderMeta(rows).bitset.bits = bits
  BY <1>4
<1>7. BuilderMeta(rows).counts = [idx \in bits |-> Cardinality(RowsAt(rows, idx))]
  BY <1>4
<1>8. BuilderMeta(rows).counts =
        [idx \in bits |-> Cardinality({i \in DOMAIN rows :
                             compute_bitset_index(rows[i], layout) = idx})]
  BY <1>5, <1>7
<1>9. bits = {compute_bitset_index(rows[i], layout) : i \in DOMAIN rows}
  BY DEF bits
<1> QED
  BY <1>6, <1>8, <1>9 DEF Describes

(* The invariant holds in the beginning. *)
LEMMA ParquetInvInit ==
  ParquetInit => ParquetInv
<1> SUFFICES ASSUME ParquetInit PROVE ParquetInv
  OBVIOUS
<1>1. layout \in Layouts /\ PredicateInv
  BY FilterTypes DEF ParquetInit, Init, PredicateInv, NoFilter
<1>2. WriterInv
  BY SchemaAssumption DEF ParquetInit, WriterInv
<1>3. FilesInv
  BY DEF ParquetInit, Init, FilesInv
<1> QED
  BY <1>1, <1>2, <1>3 DEF ParquetInv

-----------------------------------------------------------------------------
(* Steps that leave the predicate, and steps that leave the directory.     *)
LEMMA PredicateKept ==
  ASSUME PredicateInv, UNCHANGED filters
  PROVE  PredicateInv'
  BY DEF PredicateInv

LEMMA DirectoryKept ==
  ASSUME FilesInv, UNCHANGED <<layout, segs, files, torn, damaged>>,
         current' \subseteq current,
         step' \in {"meta", "json"} => step \in {"meta", "json"},
         \A k \in current' : builders'[k] = builders[k]
  PROVE  FilesInv'
<1>1. current' \subseteq damaged'
  BY DEF FilesInv
<1>2. step' \in {"meta", "json"} => \A k \in current' : files'[k].origin = builders'[k]
  BY DEF FilesInv
<1> QED
  BY <1>1, <1>2 DEF FilesInv

(* Steps of flush_all. *)
LEMMA CreateDataStep ==
  ASSUME ParquetInv, NEW k \in DOMAIN builders, CreateData(k)
  PROVE  WriterInv' /\ FilesInv'
<1>1. WriterInv /\ FilesInv
  BY DEF ParquetInv
<1>2. /\ step' = "data" /\ current' = {k} /\ files' = Put(files, k, TornFile)
      /\ damaged' = damaged \cup {k}
      /\ UNCHANGED <<layout, calls, schema, builders, segs, torn>>
  BY DEF CreateData
<1>3. WriterInv'
  BY <1>1, <1>2 DEF WriterInv
<1>4. /\ DOMAIN files' = DOMAIN files \cup {k}
      /\ files'[k] = TornFile
      /\ \A x \in DOMAIN files \ {k} : files'[x] = files[x]
  BY <1>2 DEF Put, Without
<1>5. \A x \in DOMAIN files' : FileOK(files'[x])
  BY <1>1, <1>4, TornFileOK DEF FilesInv
<1>6. \A x \in DOMAIN files' \ damaged' :
        x \in DOMAIN segs' /\ Describes(segs'[x], files'[x].origin)
  BY <1>1, <1>2, <1>4 DEF FilesInv
<1>7. \A x \in DOMAIN segs' :
        segs'[x].layout = layout' /\ segs'[x].bitset.size = BitsetSize(layout')
  BY <1>1, <1>2 DEF FilesInv
<1>8. /\ torn' \subseteq damaged' /\ damaged' \subseteq DOMAIN files'
      /\ current' \subseteq damaged'
  BY <1>1, <1>2, <1>4 DEF FilesInv
<1>9. step' \notin {"meta", "json"}
  BY <1>2
<1> QED
  BY <1>3, <1>5, <1>6, <1>7, <1>8, <1>9 DEF FilesInv

LEMMA WriteDataStep ==
  ASSUME ParquetInv, NEW k \in current, WriteParquetData(k)
  PROVE  WriterInv' /\ FilesInv'
<1>1. WriterInv /\ FilesInv
  BY DEF ParquetInv
<1>2. /\ step' = "meta" /\ files' = [files EXCEPT ![k] = DataFile(builders[k])]
      /\ UNCHANGED <<layout, calls, schema, builders, current, segs, torn, damaged>>
      /\ step = "data"
  BY DEF WriteParquetData
<1>3. WriterInv'
  BY <1>1, <1>2 DEF WriterInv
<1>4. k \in DOMAIN files /\ k \in damaged /\ k \in DOMAIN builders
  BY <1>1 DEF FilesInv, WriterInv
<1>5. /\ DOMAIN files' = DOMAIN files
      /\ files'[k] = DataFile(builders[k])
      /\ \A x \in DOMAIN files \ {k} : files'[x] = files[x]
  BY <1>2, <1>4
<1>6. FileOK(files'[k]) /\ files'[k].origin = builders[k]
  BY <1>1, <1>4, <1>5, DataFileOK DEF WriterInv
<1>7. \A x \in DOMAIN files' : FileOK(files'[x])
  BY <1>1, <1>5, <1>6 DEF FilesInv
<1>8. \A x \in DOMAIN files' \ damaged' :
        x \in DOMAIN segs' /\ Describes(segs'[x], files'[x].origin)
  BY <1>1, <1>2, <1>4, <1>5 DEF FilesInv
<1>9. /\ torn' \subseteq damaged' /\ damaged' \subseteq DOMAIN files'
      /\ current' \subseteq damaged'
  BY <1>1, <1>2, <1>5 DEF FilesInv
<1>10. \A x \in current' : files'[x].origin = builders'[x]
  <2>1. current' = {k}
    BY <1>1, <1>2 DEF WriterInv
  <2> QED
    BY <1>2, <1>6, <2>1
<1>11. \A x \in DOMAIN segs' :
         segs'[x].layout = layout' /\ segs'[x].bitset.size = BitsetSize(layout')
  BY <1>1, <1>2 DEF FilesInv
<1> QED
  BY <1>3, <1>7, <1>8, <1>9, <1>10, <1>11 DEF FilesInv

LEMMA CreateMetaStep ==
  ASSUME ParquetInv, NEW k \in current, CreateMeta(k)
  PROVE  WriterInv' /\ FilesInv'
<1>1. WriterInv /\ FilesInv
  BY DEF ParquetInv
<1>2. /\ step = "meta" /\ step' = "json" /\ torn' = torn \cup {k}
      /\ segs' = Without(segs, k)
      /\ UNCHANGED <<layout, calls, schema, builders, current, files, damaged>>
  BY DEF CreateMeta
<1>3. WriterInv'
  BY <1>1, <1>2 DEF WriterInv
<1>4. k \in damaged
  BY <1>1 DEF FilesInv
<1>5. /\ DOMAIN segs' = DOMAIN segs \ {k}
      /\ \A x \in DOMAIN segs \ {k} : segs'[x] = segs[x]
  BY <1>2 DEF Put, Without
<1>6. \A x \in DOMAIN files' \ damaged' :
        x \in DOMAIN segs' /\ Describes(segs'[x], files'[x].origin)
  BY <1>1, <1>2, <1>4, <1>5 DEF FilesInv
<1>7. \A x \in DOMAIN segs' :
        segs'[x].layout = layout' /\ segs'[x].bitset.size = BitsetSize(layout')
  BY <1>1, <1>2, <1>5 DEF FilesInv
<1>8. /\ torn' \subseteq damaged' /\ damaged' \subseteq DOMAIN files'
      /\ current' \subseteq damaged'
      /\ \A x \in current' : files'[x].origin = builders'[x]
      /\ \A x \in DOMAIN files' : FileOK(files'[x])
  BY <1>1, <1>2, <1>4 DEF FilesInv
<1> QED
  BY <1>3, <1>6, <1>7, <1>8 DEF FilesInv

LEMMA WriteMetaStep ==
  ASSUME ParquetInv, NEW k \in current, WriteParquetMeta(k)
  PROVE  WriterInv' /\ FilesInv'
<1>1. WriterInv /\ FilesInv /\ layout \in Layouts
  BY DEF ParquetInv
<1>2. /\ step = "json" /\ step' = "drain" /\ current' = {} /\ torn' = torn \ {k}
      /\ segs' = Put(segs, k, BuilderMeta(builders[k]))
      /\ builders' = Without(builders, k)
      /\ damaged' = damaged \ {k}
      /\ UNCHANGED <<layout, calls, schema, files>>
  BY DEF WriteParquetMeta
<1>3. /\ DOMAIN builders' = DOMAIN builders \ {k}
      /\ \A x \in DOMAIN builders' : builders'[x] = builders[x]
  BY <1>2 DEF Put, Without
<1>4. WriterInv'
  BY <1>1, <1>2, <1>3 DEF WriterInv
<1>5. builders[k] \in Seq(TableRows) /\ files[k].origin = builders[k]
  BY <1>1, <1>2 DEF WriterInv, FilesInv
<1>6. /\ DOMAIN segs' = DOMAIN segs \cup {k}
      /\ segs'[k] = BuilderMeta(builders[k])
      /\ \A x \in DOMAIN segs \ {k} : segs'[x] = segs[x]
  BY <1>2 DEF Put, Without
<1>7. /\ Describes(segs'[k], files[k].origin)
      /\ segs'[k].layout = layout
      /\ segs'[k].bitset.size = BitsetSize(layout)
  BY <1>1, <1>5, <1>6, BuilderDescribes
<1>8. \A x \in DOMAIN files' \ damaged' :
        x \in DOMAIN segs' /\ Describes(segs'[x], files'[x].origin)
  <2> SUFFICES ASSUME NEW x \in DOMAIN files, x \notin damaged \/ x = k
               PROVE  x \in DOMAIN segs' /\ Describes(segs'[x], files[x].origin)
    BY <1>2
  <2>1. CASE x = k
    BY <1>6, <1>7, <2>1
  <2>2. CASE x # k
    <3>1. x \in DOMAIN segs /\ Describes(segs[x], files[x].origin)
      BY <1>1, <2>2 DEF FilesInv
    <3>2. segs'[x] = segs[x]
      BY <1>6, <2>2, <3>1
    <3> QED
      BY <1>6, <3>1, <3>2
  <2> QED
    BY <2>1, <2>2
<1>9. \A x \in DOMAIN segs' :
        segs'[x].layout = layout' /\ segs'[x].bitset.size = BitsetSize(layout')
  BY <1>1, <1>2, <1>6, <1>7 DEF FilesInv
<1>10. /\ torn' \subseteq damaged' /\ damaged' \subseteq DOMAIN files'
       /\ current' \subseteq damaged'
       /\ \A x \in DOMAIN files' : FileOK(files'[x])
       /\ step' \notin {"meta", "json"}
  BY <1>1, <1>2 DEF FilesInv
<1> QED
  BY <1>4, <1>8, <1>9, <1>10 DEF FilesInv

LEMMA BuildPredicateStep ==
  ASSUME ParquetInv, BuildPredicate
  PROVE  ParquetInv'
<1>1. [Next]_vars
  BY DEF BuildPredicate, Next
<1>2. PredicateInv'
  BY <1>1, PredicateStep DEF ParquetInv
<1>3. UNCHANGED <<layout, segs, writer, files, torn, damaged>>
  BY DEF BuildPredicate, add_filter, add_range_filter, add_min_filter,
         add_max_filter, SetFilter
<1>4. UNCHANGED <<schema, builders, step, current, calls>>
  BY <1>3 DEF writer
<1>5. WriterInv'
  BY <1>4 DEF ParquetInv, WriterInv
<1>6. FilesInv'
  BY <1>3, <1>4, DirectoryKept DEF ParquetInv
<1> QED
  BY <1>2, <1>3, <1>5, <1>6 DEF ParquetInv

(* Every step keeps the invariant. *)
LEMMA ParquetInvStep ==
  ParquetInv /\ [ParquetNext]_parquetVars => ParquetInv'
<1> SUFFICES ASSUME ParquetInv, [ParquetNext]_parquetVars PROVE ParquetInv'
  OBVIOUS
<1>0. layout \in Layouts /\ PredicateInv /\ WriterInv /\ FilesInv
  BY DEF ParquetInv
<1> USE <1>0
<1>1. ASSUME NEW row \in TableRows, WriteParquetRow(row) PROVE ParquetInv'
  <2>1. /\ step = "idle"
        /\ calls < MaxRows /\ calls' = calls + 1
        /\ UNCHANGED <<layout, filters, schema, step, current, segs, files, torn, damaged>>
    BY <1>1 DEF WriteParquetRow, directory
  <2>2. current = {}
    BY <2>1 DEF WriterInv
  <2>3. \A k \in DOMAIN builders' : builders'[k] \in Seq(TableRows) \ {<< >>}
    <3> DEFINE key == compute_segment_key(row, layout)
               old == IF key \in DOMAIN builders THEN builders[key] ELSE << >>
    <3>1. builders' = Put(builders, key, Append(old, row))
      BY <1>1 DEF WriteParquetRow
    <3>2. old \in Seq(TableRows)
      BY DEF WriterInv
    <3>3. Append(old, row) \in Seq(TableRows) /\ Append(old, row) # << >>
      <4>1. Len(Append(old, row)) = Len(old) + 1 /\ Len(old) \in Nat
        BY <3>2
      <4>2. Append(old, row) \in Seq(TableRows)
        BY <3>2
      <4>3. Append(old, row) # << >>
        BY <3>2, <4>1
      <4> QED
        BY <4>2, <4>3
    <3> HIDE DEF old, key
    <3> QED
      BY <3>1, <3>3 DEF WriterInv, Put
  <2>4. calls' \in 0 .. MaxRows
    BY <2>1, SchemaAssumption DEF WriterInv
  <2>5. WriterInv'
    BY <2>1, <2>2, <2>3, <2>4 DEF WriterInv
  <2>6. FilesInv'
    BY <2>1, <2>2, DirectoryKept
  <2> QED
    BY <2>1, <2>5, <2>6, PredicateKept DEF ParquetInv
<1>2. CASE FlushAllParquet
  <2>1. /\ step = "idle" /\ step' = "drain"
        /\ UNCHANGED <<layout, filters, calls, schema, builders, current, segs, files,
                       torn, damaged>>
    BY <1>2 DEF FlushAllParquet, directory
  <2>2. WriterInv'
    BY <2>1 DEF WriterInv
  <2>3. FilesInv'
    BY <2>1, DirectoryKept
  <2> QED
    BY <2>1, <2>2, <2>3, PredicateKept DEF ParquetInv
<1>3. ASSUME NEW k \in DOMAIN builders, CreateData(k) PROVE ParquetInv'
  <2>1. UNCHANGED <<layout, filters>>
    BY <1>3 DEF CreateData
  <2> QED
    BY <1>3, <2>1, CreateDataStep, PredicateKept DEF ParquetInv
<1>4. ASSUME NEW k \in DOMAIN builders, BatchError(k) PROVE ParquetInv'
  <2>1. /\ step = "drain" /\ step' = "idle" /\ builders' = << >>
        /\ UNCHANGED <<layout, filters, calls, schema, current, segs, files, torn, damaged>>
    BY <1>4 DEF BatchError, directory
  <2>2. current = {}
    BY <2>1 DEF WriterInv
  <2>3. WriterInv'
    BY <2>1, <2>2 DEF WriterInv
  <2>4. FilesInv'
    BY <2>1, <2>2, DirectoryKept
  <2> QED
    BY <2>1, <2>3, <2>4, PredicateKept DEF ParquetInv
<1>5. ASSUME NEW k \in current, WriteParquetData(k) PROVE ParquetInv'
  <2>1. UNCHANGED <<layout, filters>>
    BY <1>5 DEF WriteParquetData
  <2> QED
    BY <1>5, <2>1, WriteDataStep, PredicateKept DEF ParquetInv
<1>6. ASSUME NEW k \in current, CreateMeta(k) PROVE ParquetInv'
  <2>1. UNCHANGED <<layout, filters>>
    BY <1>6 DEF CreateMeta
  <2> QED
    BY <1>6, <2>1, CreateMetaStep, PredicateKept DEF ParquetInv
<1>7. ASSUME NEW k \in current, WriteParquetMeta(k) PROVE ParquetInv'
  <2>1. UNCHANGED <<layout, filters>>
    BY <1>7 DEF WriteParquetMeta
  <2> QED
    BY <1>7, <2>1, WriteMetaStep, PredicateKept DEF ParquetInv
<1>8. CASE FinishParquetFlush
  <2>1. /\ step = "drain" /\ step' = "idle"
        /\ UNCHANGED <<layout, filters, calls, schema, builders, current, segs, files,
                       torn, damaged>>
    BY <1>8 DEF FinishParquetFlush, directory
  <2>2. WriterInv'
    BY <2>1 DEF WriterInv
  <2>3. FilesInv'
    BY <2>1, DirectoryKept
  <2> QED
    BY <2>1, <2>2, <2>3, PredicateKept DEF ParquetInv
<1>9. CASE StopWriting
  <2>1. /\ step' = "idle" /\ builders' = << >> /\ current' = {}
        /\ UNCHANGED <<layout, filters, calls, schema, segs, files, torn, damaged>>
    BY <1>9 DEF StopWriting, directory
  <2>2. WriterInv'
    BY <2>1 DEF WriterInv
  <2>3. FilesInv'
    BY <2>1, DirectoryKept
  <2> QED
    BY <2>1, <2>2, <2>3, PredicateKept DEF ParquetInv
<1>10. ASSUME NEW t \in Schemas \cup {NoSchema}, NewParquetWriter(t) PROVE ParquetInv'
  <2>1. /\ step = "idle" /\ schema' = t /\ builders' = << >>
        /\ UNCHANGED <<layout, filters, calls, step, current, segs, files, torn, damaged>>
    BY <1>10 DEF NewParquetWriter, directory
  <2>2. current = {}
    BY <2>1 DEF WriterInv
  <2>3. WriterInv'
    BY <2>1, <2>2 DEF WriterInv
  <2>4. FilesInv'
    BY <2>1, <2>2, DirectoryKept
  <2> QED
    BY <2>1, <2>3, <2>4, PredicateKept DEF ParquetInv
<1>11. CASE BuildPredicate
  BY <1>11, BuildPredicateStep
<1>12. CASE UNCHANGED parquetVars
  <2>1. UNCHANGED <<layout, segs, filters, schema, builders, step, current, files,
                    torn, damaged, calls>>
    BY <1>12 DEF parquetVars
  <2>2. WriterInv'
    BY <2>1 DEF WriterInv
  <2>3. FilesInv'
    BY <2>1, DirectoryKept
  <2> QED
    BY <2>1, <2>2, <2>3, PredicateKept DEF ParquetInv
<1> QED
  BY <1>1, <1>2, <1>3, <1>4, <1>5, <1>6, <1>7, <1>8, <1>9, <1>10, <1>11, <1>12
     DEF ParquetNext

-----------------------------------------------------------------------------
(* The inductive invariant holds in every reachable state. *)
THEOREM ParquetInvariant ==
  ParquetSpec => []ParquetInv
<1>1. ParquetInit => ParquetInv
  BY ParquetInvInit
<1>2. ParquetInv /\ [ParquetNext]_parquetVars => ParquetInv'
  BY ParquetInvStep
<1> QED
  BY <1>1, <1>2, PTL DEF ParquetSpec

(* The state always has the types of the writer's fields and the files. *)
THEOREM ParquetTypes ==
  ParquetSpec => []ParquetTypeOK
<1>1. ParquetInv => ParquetTypeOK
  <2> SUFFICES ASSUME ParquetInv PROVE ParquetTypeOK
    OBVIOUS
  <2>1. \A k \in DOMAIN files : files[k].types \in FileTypes /\ files[k].rows \in Seq(RowSpace)
    BY FileRows DEF ParquetInv, FilesInv, FileOK
  <2> QED
    BY <2>1 DEF ParquetInv, PredicateInv, WriterInv, FilesInv, ParquetTypeOK
<1> QED
  BY <1>1, ParquetInvariant, PTL

(* Whatever is flushed over whatever was stored, whichever segment fails   *)
(* and wherever the process dies, a segment whose flush was not cut short  *)
(* has the data and the metadata of one and the same flush.                *)
THEOREM SegmentsAreWhole ==
  ParquetSpec => []SegmentsWhole
<1>1. ParquetInv => SegmentsWhole
  <2> SUFFICES ASSUME ParquetInv, NEW k \in DOMAIN files \ damaged
               PROVE  LET l == segs[k].layout
                          row == files[k].origin
                      IN
                      /\ k \in DOMAIN segs
                      /\ files[k].rows = [i \in DOMAIN row |-> DecodeRow(row[i], files[k].types)]
                      /\ segs[k].bitset.bits = {compute_bitset_index(row[i], l) : i \in DOMAIN row}
                      /\ \A idx \in segs[k].bitset.bits :
                           get_bucket_count(k, idx) =
                             Cardinality({i \in DOMAIN row : compute_bitset_index(row[i], l) = idx})
    BY DEF SegmentsWhole
  <2>1. k \in DOMAIN segs /\ Describes(segs[k], files[k].origin) /\ FileOK(files[k])
    BY DEF ParquetInv, FilesInv
  <2>2. segs[k].bitset.bits = {compute_bitset_index(files[k].origin[i], segs[k].layout)
                                 : i \in DOMAIN files[k].origin}
    BY <2>1 DEF Describes
  <2>3. ASSUME NEW idx \in segs[k].bitset.bits
        PROVE  get_bucket_count(k, idx) =
                 Cardinality({i \in DOMAIN files[k].origin :
                                compute_bitset_index(files[k].origin[i], segs[k].layout) = idx})
    BY <2>1, <2>3 DEF Describes, get_bucket_count
  <2> QED
    BY <2>1, <2>2, <2>3 DEF FileOK
<1> QED
  BY <1>1, ParquetInvariant, PTL

(* A segment with a row that matches, as it is read, is not skipped. *)
LEMMA MatchingSegmentRead ==
  ASSUME ParquetInv, ExactOnStrings(Dimensions), RangesOnMars,
         NEW first \in DOMAIN segs,
         NEW k \in DOMAIN files \ damaged, NEW i \in DOMAIN files[k].rows,
         matches(files[k].rows[i])
  PROVE  k \in filter_segments(first)
<1> DEFINE row == files[k].origin[i]
           idx == compute_bitset_index(row, layout)
<1>1. /\ FileOK(files[k]) /\ k \in DOMAIN segs /\ Describes(segs[k], files[k].origin)
      /\ segs[k].layout = layout /\ segs[first].layout = layout
      /\ segs[k].bitset.size = BitsetSize(layout)
      /\ layout \in Layouts /\ filters \in [Columns -> FilterType]
  BY DEF ParquetInv, FilesInv, PredicateInv
<1>2. /\ row \in RowSpace /\ i \in DOMAIN files[k].origin
      /\ files[k].rows[i] = DecodeRow(row, files[k].types)
      /\ files[k].types \in FileTypes
  BY <1>1, FileRows DEF FileOK
<1>3. idx \in segs[k].bitset.bits
  BY <1>1, <1>2 DEF Describes
<1>4. RangesAreNumeric(layout)
  BY DEF RangesOnMars, RangesAreNumeric
<1>5. \A j \in Dim : filters[layout.dims[j]].kind = "exact" /\ layout.dims[j] \in DOMAIN files[k].types
                       => files[k].types[layout.dims[j]] = "Utf8"
  <2> SUFFICES ASSUME NEW j \in Dim, filters[layout.dims[j]].kind = "exact",
                      layout.dims[j] \in DOMAIN files[k].types
               PROVE  files[k].types[layout.dims[j]] = "Utf8"
    OBVIOUS
  <2>1. layout.dims[j] \in Columns
    BY <1>1
  <2> QED
    BY <2>1 DEF ExactOnStrings, Exact, Dimensions
<1>6. idx \in build_mask(layout).bits
  BY <1>1, <1>2, <1>4, <1>5, DecodedRowCovered
<1>7. build_mask(layout).size = BitsetSize(layout)
  BY DEF build_mask, SetBits, EmptyBitset
<1>8. Intersects(segs[k].bitset, build_mask(layout))
  <2> HIDE DEF idx
  <2> QED
    BY <1>1, <1>3, <1>6, <1>7 DEF Intersects
<1> QED
  BY <1>1, <1>8 DEF filter_segments

(* Of a segment that is read, exactly the matching rows are returned. *)
LEMMA RowsReturned ==
  ASSUME ParquetInv, Unmistaken, NEW keys, NEW k \in DOMAIN files
  PROVE  /\ read_with_pushdown(files[k]) =
              {i \in DOMAIN files[k].rows : matches(files[k].rows[i])}
         /\ \A i : <<k, i>> \in read_and_filter(keys) <=>
              k \in keys /\ i \in read_with_pushdown(files[k])
<1>1. /\ FileOK(files[k]) /\ filters \in [Columns -> FilterType]
      /\ \A c \in Columns : filters[c].kind # "none" =>
           DOMAIN files[k].types \cap Dotted[c] = {}
  BY DEF ParquetInv, FilesInv, PredicateInv, Unmistaken
<1> QED
  BY <1>1, PushdownExact DEF read_and_filter

(* Three-level pruning changes no answer: whatever the segments, the row   *)
(* groups, their statistics and the predicate, under the conditions that   *)
(* AnswerExact names, the rows returned are exactly those that match.      *)
THEOREM AnswersAreExact ==
  ParquetSpec => []AnswerExact
<1>1. ParquetInv => AnswerExact
  <2> SUFFICES ASSUME ParquetInv, Unmistaken, ExactOnStrings(Dimensions), RangesOnMars,
                      NEW first \in DOMAIN segs,
                      NEW k \in DOMAIN files \ damaged, NEW i \in DOMAIN files[k].rows
               PROVE  <<k, i>> \in read_and_filter(filter_segments(first))
                        <=> matches(files[k].rows[i])
    BY DEF AnswerExact
  <2> QED
    BY MatchingSegmentRead, RowsReturned
<1> QED
  BY <1>1, ParquetInvariant, PTL

(* With exact filters alone, on string columns, count_exact counts just    *)
(* the rows that a query returns, whatever was flushed or damaged.         *)
THEOREM CountsAreExact ==
  ParquetSpec => []CountExactAgrees
<1>1. ParquetInv => CountExactAgrees
  <2> SUFFICES ASSUME ParquetInv, Unmistaken, ExactOnStrings(Columns),
                      \A c \in Columns : filters[c].kind # "range",
                      NEW first \in DOMAIN segs
               PROVE  count_exact(first) = read_and_filter(filter_segments(first))
    BY DEF CountExactAgrees
  <2>1. ASSUME NEW k \in DOMAIN files
        PROVE  count_in_parquet_file(files[k]) = read_with_pushdown(files[k])
    <3>1. read_with_pushdown(files[k]) =
            {i \in DOMAIN files[k].rows : matches(files[k].rows[i])}
      BY RowsReturned
    <3>2. ASSUME NEW i \in DOMAIN files[k].rows
          PROVE  matches(files[k].rows[i]) <=>
                   \A c \in Exact : /\ c \in DOMAIN files[k].types
                                    /\ files[k].types[c] = "Utf8"
                                    /\ files[k].rows[i][c] \in filters[c].values
      <4>1. FileOK(files[k]) /\ filters \in [Columns -> FilterType]
        BY DEF ParquetInv, FilesInv, PredicateInv
      <4>2. matches(files[k].rows[i]) <=>
              \A c \in Exact : files[k].rows[i][c] \in filters[c].values
        BY <4>1 DEF matches, MatchesFilter, Exact, FilterType
      <4>3. ASSUME NEW c \in Exact, files[k].rows[i][c] \in filters[c].values
            PROVE  c \in DOMAIN files[k].types /\ files[k].types[c] = "Utf8"
        <5>1. c \in Columns /\ files[k].rows[i][c] # Missing
          BY <4>1, <4>3 DEF Exact, FilterType
        <5>2. files[k].rows[i] = DecodeRow(files[k].origin[i], files[k].types)
          BY <4>1, FileRows
        <5>3. files[k].rows[i][c] = Missing \/ c \in DOMAIN files[k].types
          BY <5>1, <5>2 DEF DecodeRow
        <5> QED
          BY <5>1, <5>3 DEF ExactOnStrings
      <4> QED
        BY <4>2, <4>3
    <3> QED
      BY <3>1, <3>2 DEF count_in_parquet_file
  <2> QED
    BY <2>1 DEF count_exact, read_and_filter
<1> QED
  BY <1>1, ParquetInvariant, PTL

-----------------------------------------------------------------------------
(* The count from metadata adds up finitely many buckets of finitely many  *)
(* segments.                                                               *)
FiniteInv ==
  /\ IsFiniteSet(DOMAIN segs)
  /\ DOMAIN segs \subseteq DOMAIN files
  /\ \A c \in Columns : filters[c].kind = "exact" => IsFiniteSet(filters[c].values)

LEMMA FiniteFilter ==
  ASSUME PredicateInv, FiniteInv, NEW c \in Columns, NEW f, SetFilter(c, f),
         f.kind = "exact" => IsFiniteSet(f.values)
  PROVE  \A d \in Columns : filters'[d].kind = "exact" => IsFiniteSet(filters'[d].values)
<1>1. filters' = [filters EXCEPT ![c] = f] /\ DOMAIN filters = Columns
  BY DEF SetFilter, PredicateInv
<1>2. \A d \in Columns : filters'[d] = IF d = c THEN f ELSE filters[d]
  BY <1>1
<1> QED
  BY <1>2 DEF FiniteInv

LEMMA FinitePredicate ==
  ASSUME PredicateInv, FiniteInv, BuildPredicate
  PROVE  \A d \in Columns : filters'[d].kind = "exact" => IsFiniteSet(filters'[d].values)
<1>1. ASSUME NEW c \in Columns, NEW values \in ExactSets, add_filter(c, values)
      PROVE  \A d \in Columns : filters'[d].kind = "exact" => IsFiniteSet(filters'[d].values)
  <2>1. IsFiniteSet(ExactFilter(values).values)
    BY SchemaAssumption DEF ExactFilter
  <2> QED
    BY <1>1, <2>1, FiniteFilter DEF add_filter
<1>2. ASSUME NEW c \in RangeColumns, NEW f, SetFilter(c, f), f.kind = "range" \/ f = filters[c]
      PROVE  \A d \in Columns : filters'[d].kind = "exact" => IsFiniteSet(filters'[d].values)
  <2>1. c \in Columns
    BY PredicateAssumption
  <2>2. f.kind = "exact" => IsFiniteSet(f.values)
    BY <1>2, <2>1 DEF FiniteInv
  <2> QED
    BY <1>2, <2>1, <2>2, FiniteFilter
<1>3. \A min, max : RangeFilter(min, max).kind = "range"
  BY DEF RangeFilter
<1>4. ASSUME NEW c \in RangeColumns, NEW min \in Bounds, NEW max \in Bounds,
             add_range_filter(c, min, max)
      PROVE  \A d \in Columns : filters'[d].kind = "exact" => IsFiniteSet(filters'[d].values)
  BY <1>2, <1>3, <1>4 DEF add_range_filter
<1>5. ASSUME NEW c \in RangeColumns, NEW min \in Bounds, add_min_filter(c, min)
      PROVE  \A d \in Columns : filters'[d].kind = "exact" => IsFiniteSet(filters'[d].values)
  <2> DEFINE f == CASE filters[c].kind = "none"  -> RangeFilter(min, MaxF)
                    [] filters[c].kind = "range" ->
                         RangeFilter(Larger(filters[c].min, min), filters[c].max)
                    [] OTHER -> filters[c]
  <2>1. SetFilter(c, f)
    BY <1>5 DEF add_min_filter
  <2>2. f.kind = "range" \/ f = filters[c]
    BY <1>3
  <2> HIDE DEF f
  <2> QED
    BY <1>2, <2>1, <2>2
<1>6. ASSUME NEW c \in RangeColumns, NEW max \in Bounds, add_max_filter(c, max)
      PROVE  \A d \in Columns : filters'[d].kind = "exact" => IsFiniteSet(filters'[d].values)
  <2> DEFINE f == CASE filters[c].kind = "none"  -> RangeFilter(MinF, max)
                    [] filters[c].kind = "range" ->
                         RangeFilter(filters[c].min, Smaller(filters[c].max, max))
                    [] OTHER -> filters[c]
  <2>1. SetFilter(c, f)
    BY <1>6 DEF add_max_filter
  <2>2. f.kind = "range" \/ f = filters[c]
    BY <1>3
  <2> HIDE DEF f
  <2> QED
    BY <1>2, <2>1, <2>2
<1> QED
  BY <1>1, <1>4, <1>5, <1>6 DEF BuildPredicate

LEMMA FiniteStep ==
  ASSUME ParquetInv, FiniteInv, [ParquetNext]_parquetVars
  PROVE  FiniteInv'
<1>1. FiniteInv
  OBVIOUS
<1>2. ASSUME filters' = filters, segs' = segs, DOMAIN files \subseteq DOMAIN files'
      PROVE  FiniteInv'
  BY <1>2 DEF FiniteInv
<1>3. ASSUME NEW k \in DOMAIN builders, CreateData(k) PROVE FiniteInv'
  <2>1. files' = Put(files, k, TornFile) /\ filters' = filters /\ segs' = segs
    BY <1>3 DEF CreateData
  <2>2. DOMAIN files \subseteq DOMAIN files'
    BY <2>1 DEF Put
  <2> QED
    BY <1>2, <2>1, <2>2
<1>4. ASSUME NEW k \in current, WriteParquetData(k) PROVE FiniteInv'
  <2>1. DOMAIN files' = DOMAIN files /\ filters' = filters /\ segs' = segs
    BY <1>4 DEF WriteParquetData
  <2> QED
    BY <1>2, <2>1
<1>5. ASSUME NEW k \in current, CreateMeta(k) PROVE FiniteInv'
  <2>1. segs' = Without(segs, k) /\ files' = files /\ filters' = filters
    BY <1>5 DEF CreateMeta
  <2>2. DOMAIN segs' \subseteq DOMAIN segs
    BY <2>1 DEF Without
  <2>3. IsFiniteSet(DOMAIN segs')
    BY <2>2, FS_Subset DEF FiniteInv
  <2> QED
    BY <2>1, <2>2, <2>3 DEF FiniteInv
<1>6. ASSUME NEW k \in current, WriteParquetMeta(k) PROVE FiniteInv'
  <2>1. segs' = Put(segs, k, BuilderMeta(builders[k])) /\ files' = files /\ filters' = filters
    BY <1>6 DEF WriteParquetMeta
  <2>2. DOMAIN segs' = DOMAIN segs \cup {k}
    BY <2>1 DEF Put
  <2>3. k \in DOMAIN files
    BY DEF ParquetInv, FilesInv
  <2>4. IsFiniteSet(DOMAIN segs')
    BY <2>2, FS_AddElement DEF FiniteInv
  <2> QED
    BY <2>1, <2>2, <2>3, <2>4 DEF FiniteInv
<1>7. CASE BuildPredicate
  <2>1. segs' = segs /\ files' = files
    BY <1>7 DEF BuildPredicate, add_filter, add_range_filter, add_min_filter,
                add_max_filter, SetFilter
  <2>2. PredicateInv
    BY DEF ParquetInv
  <2>3. \A d \in Columns : filters'[d].kind = "exact" => IsFiniteSet(filters'[d].values)
    BY <1>7, <2>2, FinitePredicate
  <2> QED
    BY <2>1, <2>3 DEF FiniteInv
<1>8. ASSUME UNCHANGED <<segs, files, filters>> PROVE FiniteInv'
  BY <1>2, <1>8
<1>9. CASE FlushAllParquet \/ FinishParquetFlush \/ StopWriting
  BY <1>8, <1>9 DEF FlushAllParquet, FinishParquetFlush, StopWriting, directory
<1>10. ASSUME NEW row \in TableRows, WriteParquetRow(row) PROVE FiniteInv'
  BY <1>8, <1>10 DEF WriteParquetRow, directory
<1>11. ASSUME NEW k \in DOMAIN builders, BatchError(k) PROVE FiniteInv'
  BY <1>8, <1>11 DEF BatchError, directory
<1>12. ASSUME NEW s, NewParquetWriter(s) PROVE FiniteInv'
  BY <1>8, <1>12 DEF NewParquetWriter, directory
<1>13. CASE UNCHANGED parquetVars
  BY <1>8, <1>13 DEF parquetVars
<1> QED
  BY <1>3, <1>4, <1>5, <1>6, <1>7, <1>9, <1>10, <1>11, <1>12, <1>13 DEF ParquetNext

(* The image of a finite set is finite. *)
LEMMA FiniteRange ==
  ASSUME NEW S, IsFiniteSet(S), NEW f, DOMAIN f = S, NEW T, T = {f[x] : x \in S}
  PROVE  IsFiniteSet(T)
<1>1. [x \in S |-> f[x]] \in Surjection(S, T)
  BY DEF Surjection
<1> QED
  BY <1>1, FS_Surjection

LEMMA FiniteTriples ==
  ASSUME NEW A, NEW B, NEW C, IsFiniteSet(A), IsFiniteSet(B), IsFiniteSet(C)
  PROVE  IsFiniteSet(A \X B \X C)
<1> DEFINE S == (A \X B) \X C
           f == [p \in S |-> <<p[1][1], p[1][2], p[2]>>]
<1>1. IsFiniteSet(S)
  <2>1. IsFiniteSet(A \X B)
    BY FS_Product
  <2> QED
    BY <2>1, FS_Product
<1>2. A \X B \X C = {f[p] : p \in S}
  <2>1. ASSUME NEW q \in A \X B \X C PROVE \E p \in S : q = f[p]
    <3>1. q[1] \in A /\ q[2] \in B /\ q[3] \in C /\ q = <<q[1], q[2], q[3]>>
      OBVIOUS
    <3>2. <<<<q[1], q[2]>>, q[3]>> \in S
      BY <3>1
    <3>3. f[<<<<q[1], q[2]>>, q[3]>>] = <<q[1], q[2], q[3]>>
      BY <3>2
    <3> QED
      BY <3>1, <3>2, <3>3
  <2>2. ASSUME NEW p \in S PROVE f[p] \in A \X B \X C
    OBVIOUS
  <2> QED
    BY <2>1, <2>2
<1>3. DOMAIN f = S
  OBVIOUS
<1> HIDE DEF S, f
<1> QED
  BY <1>1, <1>2, <1>3, FiniteRange

LEMMA QueryFinite ==
  ASSUME FiniteInv, NEW l \in Layouts
  PROVE  IsFiniteSet(query_indices(l))
<1>1. ASSUME NEW j \in Dim PROVE IsFiniteSet(query_buckets(l, j))
  <2> DEFINE f == filters[l.dims[j]]
             g == [v \in f.values |-> <<v, route_value(v, l.buckets[j])>>]
             N == 0 .. l.buckets[j] - 1
             h == [b \in N |-> <<b, b>>]
  <2>1. l.dims[j] \in Columns /\ l.buckets[j] \in 1 .. 255
    OBVIOUS
  <2>2. CASE f.kind = "exact" /\ f.values # {}
    <3>1. query_buckets(l, j) = {<<v, route_value(v, l.buckets[j])>> : v \in f.values}
      BY <2>2, Zenon DEF query_buckets
    <3>2. \A v \in f.values : g[v] = <<v, route_value(v, l.buckets[j])>>
      BY Zenon
    <3>3. query_buckets(l, j) = {g[v] : v \in f.values}
      BY <3>1, <3>2, Zenon
    <3>4. IsFiniteSet(f.values)
      BY <2>1, <2>2 DEF FiniteInv
    <3>5. DOMAIN g = f.values
      OBVIOUS
    <3> HIDE DEF f, g
    <3> QED
      BY <3>3, <3>4, <3>5, FiniteRange
  <2>3. CASE ~(f.kind = "exact" /\ f.values # {})
    <3>1. query_buckets(l, j) = {h[b] : b \in N}
      BY <2>3 DEF query_buckets
    <3>2. IsFiniteSet(N)
      <4>1. \A b \in 1 .. 255 : b - 1 \in Int
        OBVIOUS
      <4>2. l.buckets[j] - 1 \in Int
        BY <2>1, <4>1, Zenon
      <4>3. 0 \in Int
        OBVIOUS
      <4> QED
        BY <4>2, <4>3, FS_Interval
    <3>3. DOMAIN h = N
      OBVIOUS
    <3> HIDE DEF h, N
    <3> QED
      BY <3>1, <3>2, <3>3, FiniteRange
  <2> QED
    BY <2>2, <2>3
<1>2. 1 \in Dim /\ 2 \in Dim /\ 3 \in Dim
  BY DEF Dim
<1> QED
  BY <1>1, <1>2, FiniteTriples DEF query_indices

(* A row that matches as it is read has been counted in one of the buckets *)
(* that the query adds up.                                                 *)
HashedExact(l) ==
  \A j \in Dim : filters[l.dims[j]].kind = "exact" => l.types[j] = "Categorical"

LEMMA QueryCovers ==
  ASSUME NEW l \in Layouts, filters \in [Columns -> FilterType], HashedExact(l),
         NEW types \in FileTypes, NEW row \in RowSpace,
         \A j \in Dim : filters[l.dims[j]].kind = "exact" /\ l.dims[j] \in DOMAIN types
                          => types[l.dims[j]] = "Utf8",
         matches(DecodeRow(row, types))
  PROVE  \E q \in query_indices(l) :
           compute_bitset_index(row, l) = BitIndex(l, q[1][2], q[2][2], q[3][2])
<1>1. ASSUME NEW j \in Dim
      PROVE  \E b \in query_buckets(l, j) : b[2] = BucketOf(row, l, j)
  <2> DEFINE c == l.dims[j]
             f == filters[c]
             v == DecodeRow(row, types)[c]
  <2>1. c \in Columns /\ f \in FilterType /\ l.buckets[j] \in 1 .. 255
    OBVIOUS
  <2>2. CASE f.kind = "exact"
    <3>1. v \in f.values /\ v \in Values /\ v # Missing
      BY <2>1, <2>2 DEF matches, MatchesFilter, FilterType
    <3>2. v = IF c \in DOMAIN types THEN DecodeCell(types[c], row[c]) ELSE Missing
      BY <2>1 DEF DecodeRow
    <3>3. v = row[c]
      BY <2>2, <3>1, <3>2 DEF DecodeCell
    <3>4. BucketOf(row, l, j) = route_value(v, l.buckets[j])
      BY <2>2, <3>1, <3>3 DEF HashedExact, BucketOf, Cell, route_dimension
    <3>5. <<v, route_value(v, l.buckets[j])>> \in query_buckets(l, j)
      BY <2>2, <3>1 DEF query_buckets
    <3> HIDE DEF v
    <3> QED
      BY <3>4, <3>5
  <2>3. CASE f.kind # "exact"
    <3> DEFINE b == BucketOf(row, l, j)
    <3>1. b \in 0 .. l.buckets[j] - 1
      BY BucketType
    <3> HIDE DEF b
    <3>2. <<b, b>> \in query_buckets(l, j)
      BY <2>3, <3>1 DEF query_buckets
    <3> QED
      BY <3>2 DEF b
  <2> QED
    BY <2>2, <2>3
<1>2. 1 \in Dim /\ 2 \in Dim /\ 3 \in Dim
  BY DEF Dim
<1>3. PICK b1 \in query_buckets(l, 1) : b1[2] = BucketOf(row, l, 1)
  BY <1>1, <1>2
<1>4. PICK b2 \in query_buckets(l, 2) : b2[2] = BucketOf(row, l, 2)
  BY <1>1, <1>2
<1>5. PICK b3 \in query_buckets(l, 3) : b3[2] = BucketOf(row, l, 3)
  BY <1>1, <1>2
<1> DEFINE q == <<b1, b2, b3>>
<1>6. q \in query_indices(l) /\ q[1] = b1 /\ q[2] = b2 /\ q[3] = b3
  BY DEF query_indices
<1> HIDE DEF q
<1>7. compute_bitset_index(row, l) = BitIndex(l, q[1][2], q[2][2], q[3][2])
  BY <1>3, <1>4, <1>5, <1>6 DEF compute_bitset_index
<1> QED
  BY <1>6, <1>7

(* A bucket count is the number of rows routed to the bucket. *)
LEMMA BucketsCounted ==
  ASSUME ParquetInv, NEW k \in DOMAIN files \ damaged, NEW idx
  PROVE  get_bucket_count(k, idx) =
           Cardinality({i \in DOMAIN files[k].origin :
                          compute_bitset_index(files[k].origin[i], layout) = idx})
<1>1. /\ k \in DOMAIN segs /\ Describes(segs[k], files[k].origin)
      /\ segs[k].layout = layout
  BY DEF ParquetInv, FilesInv
<1>2. CASE idx \in segs[k].bitset.bits
  BY <1>1, <1>2 DEF Describes, get_bucket_count
<1>3. CASE idx \notin segs[k].bitset.bits
  <2>1. {i \in DOMAIN files[k].origin :
           compute_bitset_index(files[k].origin[i], layout) = idx} = {}
    BY <1>1, <1>3 DEF Describes
  <2>2. get_bucket_count(k, idx) = 0
    BY <1>1, <1>3 DEF Describes, get_bucket_count
  <2> QED
    BY <2>1, <2>2, FS_EmptySet
<1> QED
  BY <1>2, <1>3

(* In one segment, no fewer rows are counted than match.                   *)
LEMMA SegmentCount ==
  ASSUME ParquetInv, FiniteInv, ExactOnStrings(Dimensions), HashedExact(layout),
         NEW k \in DOMAIN files \ damaged
  PROVE  /\ query_count(k, layout) \in Nat
         /\ IsFiniteSet({i \in DOMAIN files[k].rows : matches(files[k].rows[i])})
         /\ Cardinality({i \in DOMAIN files[k].rows : matches(files[k].rows[i])})
              <= query_count(k, layout)
<1> DEFINE Q == query_indices(layout)
           origin == files[k].origin
           At(q) == BitIndex(layout, q[1][2], q[2][2], q[3][2])
           R == [q \in Q |-> {i \in DOMAIN origin :
                                compute_bitset_index(origin[i], layout) = At(q)}]
           f == [q \in Q |-> get_bucket_count(k, At(q))]
           M == {i \in DOMAIN files[k].rows : matches(files[k].rows[i])}
<1>1. /\ layout \in Layouts /\ filters \in [Columns -> FilterType] /\ FileOK(files[k])
  BY DEF ParquetInv, PredicateInv, FilesInv
<1>2. IsFiniteSet(Q)
  BY <1>1, QueryFinite
<1>3. IsFiniteSet(DOMAIN origin)
  <2>1. DOMAIN origin = 1 .. Len(origin) /\ Len(origin) \in Nat
    BY <1>1 DEF FileOK
  <2> QED
    BY <2>1, FS_Interval
<1>4. \A q \in Q : IsFiniteSet(R[q]) /\ f[q] = Cardinality(R[q]) /\ f[q] \in Nat
  <2> SUFFICES ASSUME NEW q \in Q
               PROVE  IsFiniteSet(R[q]) /\ f[q] = Cardinality(R[q]) /\ f[q] \in Nat
    OBVIOUS
  <2>1. R[q] \in SUBSET DOMAIN origin
    OBVIOUS
  <2>2. f[q] = Cardinality(R[q])
    BY BucketsCounted
  <2> HIDE DEF R, f
  <2> QED
    BY <1>3, <2>1, <2>2, FS_Subset, FS_CardinalityType
<1>5. \A i \in M : \E q \in Q : i \in R[q]
  <2> SUFFICES ASSUME NEW i \in DOMAIN files[k].rows, matches(files[k].rows[i])
               PROVE  \E q \in Q : i \in R[q]
    OBVIOUS
  <2>1. /\ origin[i] \in RowSpace /\ i \in DOMAIN origin
        /\ files[k].rows[i] = DecodeRow(origin[i], files[k].types)
        /\ files[k].types \in FileTypes
    BY <1>1, FileRows DEF FileOK
  <2>2. \A j \in Dim : filters[layout.dims[j]].kind = "exact" /\ layout.dims[j] \in DOMAIN files[k].types
                         => files[k].types[layout.dims[j]] = "Utf8"
    <3> SUFFICES ASSUME NEW j \in Dim, filters[layout.dims[j]].kind = "exact",
                        layout.dims[j] \in DOMAIN files[k].types
                 PROVE  files[k].types[layout.dims[j]] = "Utf8"
      OBVIOUS
    <3>1. layout.dims[j] \in Columns
      BY <1>1
    <3> QED
      BY <3>1 DEF ExactOnStrings, Exact, Dimensions
  <2>3. PICK q \in Q : compute_bitset_index(origin[i], layout) = At(q)
    BY <1>1, <2>1, <2>2, QueryCovers
  <2> QED
    BY <2>1, <2>3
<1>6. f \in [Q -> Nat] /\ \A q \in Q : Cardinality(R[q]) <= f[q]
  <2>1. f \in [Q -> Nat]
    BY <1>4
  <2> HIDE DEF R, f
  <2>2. \A q \in Q : Cardinality(R[q]) <= f[q]
    BY <1>4
  <2> QED
    BY <2>1, <2>2
<1>7. query_count(k, layout) = SumFunction(f)
  BY DEF query_count
<1> HIDE DEF f, R, Q, M
<1>8. Covers(M, f, R, Q)
  BY <1>4, <1>5, <1>6 DEF Covers
<1>9. IsFiniteSet(M) /\ Cardinality(M) <= SumFunction(f)
  BY <1>2, <1>8, UnionBound
<1>10. SumFunction(f) \in Nat
  BY <1>2, <1>6, SumNat
<1> QED
  BY <1>7, <1>9, <1>10 DEF M

(* The count from metadata is never below the number of rows that a query  *)
(* returns, under the conditions that CountNeverUnder names.               *)
THEOREM CountsNeverUnder ==
  ParquetSpec => []CountNeverUnder
<1>1. ParquetInv /\ FiniteInv => CountNeverUnder
  <2> SUFFICES ASSUME ParquetInv, FiniteInv, damaged = {}, ExactOnStrings(Dimensions),
                      \A i \in Dim : layout.dims[i] \in Exact => layout.types[i] = "Categorical",
                      NEW first \in DOMAIN segs
               PROVE  count_from_metadata(first)
                        >= Cardinality(read_and_filter(filter_segments(first)))
    BY DEF CountNeverUnder
  <2> DEFINE K == DOMAIN segs
             M(k) == {i \in DOMAIN files[k].rows : matches(files[k].rows[i])}
             R == [k \in K |-> {k} \X M(k)]
             f == [k \in K |-> query_count(k, layout)]
             A == read_and_filter(filter_segments(first))
  <2>1. /\ IsFiniteSet(K) /\ K \subseteq DOMAIN files
        /\ segs[first].layout = layout /\ layout \in Layouts
    BY DEF FiniteInv, ParquetInv, FilesInv
  <2>2. HashedExact(layout)
    <3>1. \A j \in Dim : layout.dims[j] \in Columns
      BY <2>1
    <3> QED
      BY <3>1 DEF HashedExact, Exact
  <2>3. ASSUME NEW k \in K
        PROVE  /\ f[k] \in Nat /\ IsFiniteSet(R[k]) /\ Cardinality(R[k]) <= f[k]
    <3>1. k \in DOMAIN files \ damaged
      BY <2>1
    <3>2. /\ query_count(k, layout) \in Nat /\ IsFiniteSet(M(k))
          /\ Cardinality(M(k)) <= query_count(k, layout)
      BY <2>2, <3>1, SegmentCount
    <3> HIDE DEF M
    <3>3. IsFiniteSet({k}) /\ Cardinality({k}) = 1
      BY FS_Singleton
    <3>4. IsFiniteSet({k} \X M(k)) /\ Cardinality({k} \X M(k)) = 1 * Cardinality(M(k))
      BY <3>2, <3>3, FS_Product
    <3>5. Cardinality(M(k)) \in Nat
      BY <3>2, FS_CardinalityType
    <3> QED
      BY <3>2, <3>4, <3>5
  <2>4. ASSUME NEW p \in A PROVE \E k \in K : p \in R[k]
    <3>1. PICK k \in filter_segments(first) \cap DOMAIN files : p \in {k} \X read_with_pushdown(files[k])
      BY DEF read_and_filter
    <3>2. k \in K
      BY <3>1 DEF filter_segments
    <3>3. read_with_pushdown(files[k]) \subseteq M(k)
      BY DEF read_with_pushdown
    <3> QED
      BY <3>1, <3>2, <3>3
  <2>5. count_from_metadata(first) = SumFunction(f)
    BY <2>1 DEF count_from_metadata
  <2>6. f \in [K -> Nat]
    BY <2>3
  <2> HIDE DEF f, R, A, K
  <2>7. Covers(A, f, R, K)
    BY <2>3, <2>4, <2>6 DEF Covers
  <2>8. IsFiniteSet(A) /\ Cardinality(A) <= SumFunction(f)
    BY <2>1, <2>7, UnionBound
  <2>9. SumFunction(f) \in Nat /\ Cardinality(A) \in Nat
    BY <2>1, <2>6, <2>8, SumNat, FS_CardinalityType
  <2> QED
    BY <2>5, <2>8, <2>9 DEF A
<1>2. ParquetInit => FiniteInv
  <2> SUFFICES ASSUME ParquetInit PROVE FiniteInv
    OBVIOUS
  <2>1. segs = << >> /\ files = << >> /\ \A c \in Columns : filters[c] = NoFilter
    BY DEF ParquetInit, Init
  <2>2. DOMAIN segs = {} /\ DOMAIN files = {}
    BY <2>1
  <2> QED
    BY <2>1, <2>2, FS_EmptySet DEF FiniteInv, NoFilter
<1>3. ParquetInit => ParquetInv
  BY ParquetInvInit
<1>4. ParquetInv /\ FiniteInv /\ [ParquetNext]_parquetVars => ParquetInv' /\ FiniteInv'
  BY ParquetInvStep, FiniteStep
<1> QED
  BY <1>1, <1>2, <1>3, <1>4, PTL DEF ParquetSpec
=============================================================================

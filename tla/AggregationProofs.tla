------------------------- MODULE AggregationProofs -------------------------
(***************************************************************************)
(* Theorems about Aggregation: the statistics in a segment's metadata are  *)
(* those of the rows in its data file, however the rows came there, and so *)
(* aggregates over any choice of segments are exact.                       *)
(***************************************************************************)
EXTENDS Aggregation, SumLemmas

-----------------------------------------------------------------------------
(* The invariant: what the metadata of a builder says of its own rows, and *)
(* that of a file of the file's rows.                                      *)

Shared(cells)  == [c \in Cells |-> cells[c]]
Scaled(cells)  == [c \in Numeric |-> cells[c] * Number[c]]
ValuesIn(cells) == {Number[c] : c \in {d \in Numeric : cells[d] > 0}}

(* Rows are counted, whatever the column's type. *)
Counted(m, cells) ==
  /\ m.row_count = Size(cells)
  /\ m.stats.count = SumFunction(Shared(cells))
  /\ m.stats.some <=> \E c \in Cells : cells[c] > 0
  /\ ~m.stats.some => m.stats = NoStats

(* A column read as numbers is measured too. *)
Measured(m, cells) ==
  /\ m.stats.sum = SumFunction(Scaled(cells))
  /\ m.stats.some =>
       /\ m.stats.min \in {MaxF} \cup ValuesIn(cells)
       /\ m.stats.max \in {-MaxF} \cup ValuesIn(cells)
       /\ \A n \in ValuesIn(cells) : m.stats.min <= n /\ n <= m.stats.max

(* No cell that parses to NaN or an infinity was added to a finite sum.    *)
Clean(m, cells) ==
  m.stats.finite => \A c \in Cells : Number[c] = NotFinite => cells[c] = 0

(* What a metadata file says of its data file, while it can be parsed.     *)
Describes(s) ==
  Readable(s) =>
    /\ Counted(meta[s], file[s])
    /\ s \notin hashed => Measured(meta[s], file[s]) /\ Clean(meta[s], file[s])

StatsInv ==
  \A s \in Segments :
    /\ Counted(builder[s], unflushed[s])
    /\ is_numeric => Measured(builder[s], unflushed[s]) /\ Clean(builder[s], unflushed[s])
    /\ Describes(s)

-----------------------------------------------------------------------------
(* Types.                                                                  *)

Counts == [Cells \cup {Absent} -> Nat]

LEMMA CellFacts ==
  /\ IsFiniteSet(Segments) /\ IsFiniteSet(Cells) /\ IsFiniteSet(Numeric)
  /\ IsFiniteSet(Cells \cup {Absent}) /\ Absent \notin Cells
  /\ Numeric \subseteq Cells
  /\ MaxF \in Nat
  /\ \A c \in Numeric : Number[c] \in -MaxF .. MaxF
<1>1. IsFiniteSet(Cells \cup {Absent})
  BY CellAssumption, FS_AddElement
<1>2. Numeric \subseteq Cells /\ \A c \in Numeric : Number[c] \in -MaxF .. MaxF
  BY CellAssumption DEF Numeric
<1>3. IsFiniteSet(Numeric)
  BY <1>2, CellAssumption, FS_Subset
<1> QED
  BY <1>1, <1>2, <1>3, CellAssumption

LEMMA BoundTypes ==
  ASSUME NEW m \in -MaxF .. MaxF, NEW n \in -MaxF .. MaxF
  PROVE  /\ Lower(m, n) \in -MaxF .. MaxF /\ Higher(m, n) \in -MaxF .. MaxF
         /\ Lower(m, n) \in {m, n} /\ Lower(m, n) <= m /\ Lower(m, n) <= n
         /\ Higher(m, n) \in {m, n} /\ m <= Higher(m, n) /\ n <= Higher(m, n)
  BY CellFacts DEF Lower, Higher

(* A fresh ColumnStats. *)
Fresh(stats) == IF stats.some THEN stats
                ELSE IF is_numeric THEN new_numeric ELSE new_categorical

LEMMA FreshType ==
  ASSUME NEW stats \in Stats
  PROVE  Fresh(stats) \in Stats
  BY CellFacts DEF Fresh, Stats, new_numeric, new_categorical

(* What one more row does to the statistics. *)
LEMMA RowUpdates ==
  ASSUME NEW stats \in Stats, NEW cell \in Cells
  PROVE  update_column_stats(stats, cell) =
           LET old == Fresh(stats) IN
           IF is_numeric /\ cell \in Numeric
             THEN [some  |-> old.some,
                   count |-> old.count + 1,
                   sum   |-> old.sum + Number[cell],
                   finite |-> old.finite /\ InRange(old.sum + Number[cell]),
                   min   |-> Lower(old.min, Number[cell]),
                   max   |-> Higher(old.max, Number[cell])]
             ELSE [some  |-> old.some, count |-> old.count + 1, sum |-> old.sum,
                   finite |-> old.finite /\ ~(is_numeric /\ Number[cell] = NotFinite),
                   min |-> old.min, max |-> old.max]
<1> DEFINE old == Fresh(stats)
<1>1. old \in Stats
  BY FreshType
<1>2. update_column_stats(stats, cell) = update_with_type(old, cell)
  BY CellFacts DEF update_column_stats, Fresh
<1>3. cell \in Numeric => Number[cell] # NotFinite
  BY CellAssumption DEF Numeric
<1> HIDE DEF old
<1>4. CASE is_numeric /\ cell \in Numeric
  <2>1. update_with_type(old, cell) =
          [old EXCEPT !.count = @ + 1, !.sum = @ + Number[cell],
                      !.finite = @ /\ InRange(old.sum + Number[cell]),
                      !.min = Lower(@, Number[cell]), !.max = Higher(@, Number[cell])]
    BY <1>3, <1>4 DEF update_with_type
  <2>2. update_with_type(old, cell) =
          [some |-> old.some, count |-> old.count + 1, sum |-> old.sum + Number[cell],
           finite |-> old.finite /\ InRange(old.sum + Number[cell]),
           min |-> Lower(old.min, Number[cell]), max |-> Higher(old.max, Number[cell])]
    BY <1>1, <2>1 DEF Stats
  <2> QED
    BY <1>2, <1>4, <2>2 DEF old
<1>5. CASE ~(is_numeric /\ cell \in Numeric) /\ is_numeric /\ Number[cell] = NotFinite
  <2>1. update_with_type(old, cell) = [old EXCEPT !.count = @ + 1, !.finite = FALSE]
    BY <1>5 DEF update_with_type
  <2>2. update_with_type(old, cell) =
          [some |-> old.some, count |-> old.count + 1, sum |-> old.sum,
           finite |-> FALSE, min |-> old.min, max |-> old.max]
    BY <1>1, <2>1 DEF Stats
  <2>3. (old.finite /\ ~(is_numeric /\ Number[cell] = NotFinite)) = FALSE
    BY <1>5
  <2> QED
    BY <1>2, <1>5, <2>2, <2>3 DEF old
<1>6. CASE ~(is_numeric /\ cell \in Numeric) /\ ~(is_numeric /\ Number[cell] = NotFinite)
  <2>1. update_with_type(old, cell) = [old EXCEPT !.count = @ + 1]
    BY <1>6 DEF update_with_type
  <2>2. update_with_type(old, cell) =
          [some |-> old.some, count |-> old.count + 1, sum |-> old.sum,
           finite |-> old.finite, min |-> old.min, max |-> old.max]
    BY <1>1, <2>1 DEF Stats
  <2>3. (old.finite /\ ~(is_numeric /\ Number[cell] = NotFinite)) = old.finite
    <3>1. old.finite \in BOOLEAN
      BY <1>1 DEF Stats
    <3> QED
      BY <1>6, <3>1
  <2> QED
    BY <1>2, <1>6, <2>2, <2>3 DEF old
<1> QED
  BY <1>4, <1>5, <1>6

LEMMA UpdateType ==
  ASSUME NEW stats \in Stats, NEW cell \in Cells \cup {Absent}
  PROVE  update_column_stats(stats, cell) \in Stats
<1>1. CASE cell = Absent
  BY <1>1 DEF update_column_stats
<1>2. CASE cell \in Cells
  <2> DEFINE old == Fresh(stats)
  <2>1. old \in Stats
    BY FreshType
  <2>2. /\ old.some \in BOOLEAN /\ old.count \in Nat /\ old.sum \in Int
        /\ old.min \in -MaxF .. MaxF /\ old.max \in -MaxF .. MaxF
        /\ old.finite \in BOOLEAN
    BY <2>1 DEF Stats
  <2> HIDE DEF old
  <2>3. CASE is_numeric /\ cell \in Numeric
    <3>1. Number[cell] \in -MaxF .. MaxF
      BY <2>3, CellFacts
    <3>2. /\ Lower(old.min, Number[cell]) \in -MaxF .. MaxF
          /\ Higher(old.max, Number[cell]) \in -MaxF .. MaxF
      BY <2>2, <3>1, BoundTypes
    <3>3. old.count + 1 \in Nat /\ old.sum + Number[cell] \in Int
      BY <2>2, <3>1, CellFacts
    <3>4. update_column_stats(stats, cell) =
            [some |-> old.some, count |-> old.count + 1, sum |-> old.sum + Number[cell],
             finite |-> old.finite /\ InRange(old.sum + Number[cell]),
             min |-> Lower(old.min, Number[cell]), max |-> Higher(old.max, Number[cell])]
      BY <1>2, <2>3, RowUpdates DEF old
    <3> QED
      BY <2>2, <3>2, <3>3, <3>4 DEF Stats
  <2>4. CASE ~(is_numeric /\ cell \in Numeric)
    <3>1. update_column_stats(stats, cell) =
            [some |-> old.some, count |-> old.count + 1, sum |-> old.sum,
             finite |-> old.finite /\ ~(is_numeric /\ Number[cell] = NotFinite),
             min |-> old.min, max |-> old.max]
      BY <1>2, <2>4, RowUpdates DEF old
    <3> QED
      BY <2>2, <3>1 DEF Stats
  <2> QED
    BY <2>3, <2>4
<1> QED
  BY <1>1, <1>2

LEMMA MergeType ==
  ASSUME NEW m \in Metas, NEW n \in Metas
  PROVE  MergeMeta(m, n) \in Metas
<1>1. /\ m.row_count \in Nat /\ n.row_count \in Nat
      /\ m.stats \in Stats /\ n.stats \in Stats
  BY DEF Metas
<1>2. merge(m.stats, n.stats) \in Stats
  <2>1. /\ m.stats.count \in Nat /\ n.stats.count \in Nat
        /\ m.stats.sum \in Int /\ n.stats.sum \in Int
        /\ m.stats.min \in -MaxF .. MaxF /\ n.stats.min \in -MaxF .. MaxF
        /\ m.stats.max \in -MaxF .. MaxF /\ n.stats.max \in -MaxF .. MaxF
    BY <1>1 DEF Stats
  <2>2. /\ Lower(m.stats.min, n.stats.min) \in -MaxF .. MaxF
        /\ Higher(m.stats.max, n.stats.max) \in -MaxF .. MaxF
    BY <2>1, BoundTypes
  <2> QED
    BY <2>1, <2>2 DEF merge, Stats
<1> QED
  BY <1>1, <1>2 DEF MergeMeta, Metas

LEMMA EmptyTypes == EmptyMeta \in Metas /\ NoCells \in Counts
  BY CellFacts DEF EmptyMeta, NoStats, Metas, Stats, NoCells, Counts

LEMMA TypeInit == Init => TypeOK
  BY EmptyTypes DEF Init, TypeOK, Counts

LEMMA TypeStep == TypeOK /\ [Next]_vars => TypeOK'
<1> SUFFICES ASSUME TypeOK, [Next]_vars PROVE TypeOK'
  OBVIOUS
<1> USE DEF TypeOK
<1>1. ASSUME NEW s \in Segments, NEW cell \in Cells \cup {Absent}, WriteRow(s, cell)
      PROVE  TypeOK'
  <2>1. builder[s] \in Metas /\ builder[s].row_count + 1 \in Nat /\ builder[s].stats \in Stats
    BY DEF Metas
  <2>2. update_column_stats(builder[s].stats, cell) \in Stats
    BY <2>1, UpdateType
  <2>3. builder' \in [Segments -> Metas]
    BY <1>1, <2>1, <2>2 DEF WriteRow, Metas
  <2>4. unflushed' \in [Segments -> [Cells \cup {Absent} -> Nat]]
    <3>1. unflushed' = [unflushed EXCEPT ![s][cell] = @ + 1]
      BY <1>1 DEF WriteRow
    <3>2. unflushed \in [Segments -> [Cells \cup {Absent} -> Nat]]
      BY DEF TypeOK
    <3> HIDE DEF TypeOK
    <3>3. unflushed[s] \in [Cells \cup {Absent} -> Nat]
      BY <3>2
    <3>4. unflushed[s][cell] + 1 \in Nat
      BY <3>3
    <3>5. [unflushed[s] EXCEPT ![cell] = @ + 1] \in [Cells \cup {Absent} -> Nat]
      BY <3>3, <3>4
    <3> QED
      BY <3>1, <3>2, <3>5
  <2> QED
    BY <1>1, <2>3, <2>4 DEF WriteRow
<1>2. ASSUME NEW s \in Segments, Flush(s) PROVE TypeOK'
  <2>1. builder[s] \in Metas /\ meta[s] \in Metas
    OBVIOUS
  <2>2. MergeMeta(builder[s], meta[s]) \in Metas
    BY <2>1, MergeType
  <2>3. meta' \in [Segments -> Metas] /\ builder' \in [Segments -> Metas]
    BY <1>2, <2>2, EmptyTypes DEF Flush
  <2>4. unflushed' \in [Segments -> [Cells \cup {Absent} -> Nat]]
    <3>1. NoCells \in [Cells \cup {Absent} -> Nat]
      BY EmptyTypes DEF Counts
    <3>2. unflushed' = [unflushed EXCEPT ![s] = NoCells]
      BY <1>2 DEF Flush
    <3> QED
      BY <3>1, <3>2
  <2>5. file' \in [Segments -> [Cells \cup {Absent} -> Nat]]
    <3>1. [c \in DOMAIN file[s] |-> file[s][c] + unflushed[s][c]] \in [Cells \cup {Absent} -> Nat]
      OBVIOUS
    <3> QED
      BY <1>2, <3>1 DEF Flush
  <2>6. hashed' \subseteq Segments /\ is_numeric' \in BOOLEAN
    BY <1>2 DEF Flush
  <2> QED
    BY <2>3, <2>4, <2>5, <2>6
<1>3. ASSUME NEW s \in Segments, FlushFails(s) PROVE TypeOK'
  <2>1. PICK dropped \in {{s}, Segments} :
          /\ builder' = [t \in Segments |-> IF t \in dropped THEN EmptyMeta ELSE builder[t]]
          /\ unflushed' = [t \in Segments |-> IF t \in dropped THEN NoCells ELSE unflushed[t]]
    BY <1>3 DEF FlushFails
  <2>2. NoCells \in [Cells \cup {Absent} -> Nat] /\ EmptyMeta \in Metas
    BY EmptyTypes DEF Counts
  <2>3. builder' \in [Segments -> Metas]
    BY <2>1, <2>2
  <2>4. unflushed' \in [Segments -> [Cells \cup {Absent} -> Nat]]
    BY <2>1, <2>2
  <2>5. file' \in [Segments -> [Cells \cup {Absent} -> Nat]]
    <3>1. [c \in DOMAIN file[s] |-> file[s][c] + unflushed[s][c]] \in [Cells \cup {Absent} -> Nat]
      OBVIOUS
    <3> QED
      BY <1>3, <3>1 DEF FlushFails
  <2> QED
    BY <1>3, <2>3, <2>4, <2>5 DEF FlushFails
<1>4. ASSUME NEW numeric \in BOOLEAN, NewSession(numeric) PROVE TypeOK'
  <2>1. NoCells \in [Cells \cup {Absent} -> Nat] /\ EmptyMeta \in Metas
    BY EmptyTypes DEF Counts
  <2> QED
    BY <1>4, <2>1 DEF NewSession
<1>5. CASE UNCHANGED vars
  BY <1>5 DEF vars
<1> QED
  BY <1>1, <1>2, <1>3, <1>4, <1>5 DEF Next

(* In every reachable state the metadata of builders and files has the     *)
(* types of its fields, and the bounds of a column stay between f64::MIN   *)
(* and f64::MAX.                                                           *)
THEOREM TypesHold == Spec => []TypeOK
<1>1. Init => TypeOK
  BY TypeInit
<1>2. TypeOK /\ [Next]_vars => TypeOK'
  BY TypeStep
<1> QED
  BY <1>1, <1>2, PTL DEF Spec

-----------------------------------------------------------------------------
(* How the tallies move.                                                   *)

LEMMA TallyTypes ==
  ASSUME NEW c \in Counts
  PROVE  /\ c \in [Cells \cup {Absent} -> Int]
         /\ Shared(c) \in [Cells -> Nat] /\ Shared(c) \in [Cells -> Int]
         /\ Scaled(c) \in [Numeric -> Int]
<1>1. \A d \in Numeric : c[d] \in Nat /\ Number[d] \in Int
  BY CellFacts DEF Counts
<1> QED
  BY <1>1 DEF Counts, Shared, Scaled

LEMMA EmptyTallies ==
  /\ Counted(EmptyMeta, NoCells)
  /\ Measured(EmptyMeta, NoCells)
  /\ Clean(EmptyMeta, NoCells)
<1>1. NoCells \in Counts
  BY EmptyTypes
<1>2. Size(NoCells) = 0
  <2>1. \A x \in Cells \cup {Absent} : NoCells[x] = 0
    BY DEF NoCells
  <2>2. NoCells \in [Cells \cup {Absent} -> Int]
    BY <1>1, TallyTypes
  <2> QED
    BY <2>1, <2>2, CellFacts, SumZero DEF Size
<1>3. SumFunction(Shared(NoCells)) = 0
  <2>1. \A x \in Cells : Shared(NoCells)[x] = 0
    BY DEF NoCells, Shared
  <2>2. Shared(NoCells) \in [Cells -> Int]
    BY <1>1, TallyTypes
  <2> QED
    BY <2>1, <2>2, CellFacts, SumZero
<1>4. SumFunction(Scaled(NoCells)) = 0
  <2>1. \A x \in Numeric : Scaled(NoCells)[x] = 0
    BY CellFacts DEF NoCells, Scaled
  <2>2. Scaled(NoCells) \in [Numeric -> Int]
    BY <1>1, TallyTypes
  <2> QED
    BY <2>1, <2>2, CellFacts, SumZero
<1>5. ~\E c \in Cells : NoCells[c] > 0
  BY DEF NoCells
<1> QED
  BY <1>2, <1>3, <1>4, <1>5 DEF Counted, Measured, Clean, NoCells, EmptyMeta, NoStats

(* One more row. *)
WithRow(m, cell) == [row_count |-> m.row_count + 1,
                     stats     |-> update_column_stats(m.stats, cell)]

PlusRow(d, c, cell) ==
  /\ d \in Counts /\ c \in Counts /\ cell \in Cells \cup {Absent}
  /\ \A x \in Cells \cup {Absent} : d[x] = IF x = cell THEN c[x] + 1 ELSE c[x]

LEMMA RowTallies ==
  ASSUME NEW c, NEW d, NEW cell, PlusRow(d, c, cell)
  PROVE  /\ Size(d) = Size(c) + 1
         /\ SumFunction(Shared(d)) =
              SumFunction(Shared(c)) + IF cell \in Cells THEN 1 ELSE 0
         /\ SumFunction(Scaled(d)) =
              SumFunction(Scaled(c)) + IF cell \in Numeric THEN Number[cell] ELSE 0
<1>1. c \in Counts /\ d \in Counts /\ cell \in Cells \cup {Absent}
  BY DEF PlusRow
<1>2. \A x \in Cells \cup {Absent} : d[x] = IF x = cell THEN c[x] + 1 ELSE c[x]
  BY DEF PlusRow
<1>3. \A x \in Cells \cup {Absent} : c[x] \in Nat
  BY <1>1 DEF Counts
<1>4. Size(d) = Size(c) + 1
  <2>1. Grows(d, c, cell, 1, Cells \cup {Absent})
    <3>1. c \in [Cells \cup {Absent} -> Int] /\ d \in [Cells \cup {Absent} -> Int]
      BY <1>1, TallyTypes
    <3> QED
      BY <1>1, <1>2, <3>1 DEF Grows
  <2> QED
    BY <2>1, CellFacts, SumGrows DEF Size
<1>5. SumFunction(Shared(d)) =
        SumFunction(Shared(c)) + IF cell \in Cells THEN 1 ELSE 0
  <2>0. Shared(c) \in [Cells -> Int] /\ Shared(d) \in [Cells -> Int]
    BY <1>1, TallyTypes
  <2>1. CASE cell \in Cells
    <3>1. Grows(Shared(d), Shared(c), cell, 1, Cells)
      BY <1>2, <2>0, <2>1 DEF Grows, Shared
    <3>2. SumFunction(Shared(d)) = SumFunction(Shared(c)) + 1
      BY <3>1, CellFacts, SumGrows
    <3> QED
      BY <2>1, <3>2
  <2>2. CASE cell \notin Cells
    <3>1. Shared(d) = Shared(c)
      BY <1>2, <2>2 DEF Shared
    <3>2. SumFunction(Shared(c)) \in Int
      BY <2>0, CellFacts, SumType
    <3> QED
      BY <2>2, <3>1, <3>2
  <2> QED
    BY <2>1, <2>2
<1>6. SumFunction(Scaled(d)) =
        SumFunction(Scaled(c)) + IF cell \in Numeric THEN Number[cell] ELSE 0
  <2>0. Scaled(c) \in [Numeric -> Int] /\ Scaled(d) \in [Numeric -> Int]
    BY <1>1, TallyTypes
  <2>1. CASE cell \in Numeric
    <3>1. Scaled(d)[cell] = Scaled(c)[cell] + Number[cell]
      <4>1. c[cell] \in Int /\ Number[cell] \in Int /\ d[cell] = c[cell] + 1
        BY <1>2, <1>3, <2>1, CellFacts
      <4>2. \A a, b \in Int : (a + 1) * b = a * b + b
        OBVIOUS
      <4>3. (c[cell] + 1) * Number[cell] = c[cell] * Number[cell] + Number[cell]
        BY <4>1, <4>2
      <4> QED
        BY <2>1, <4>1, <4>3 DEF Scaled
    <3>2. \A x \in Numeric \ {cell} : Scaled(d)[x] = Scaled(c)[x]
      BY <1>2, CellFacts DEF Scaled
    <3>3. Grows(Scaled(d), Scaled(c), cell, Number[cell], Numeric)
      <4>1. Number[cell] \in Int
        BY <2>1, CellFacts
      <4> QED
        BY <2>0, <2>1, <3>1, <3>2, <4>1 DEF Grows
    <3>4. SumFunction(Scaled(d)) = SumFunction(Scaled(c)) + Number[cell]
      BY <3>3, CellFacts, SumGrows
    <3> QED
      BY <2>1, <3>4
  <2>2. CASE cell \notin Numeric
    <3>1. Scaled(d) = Scaled(c)
      BY <1>2, <2>2, CellFacts DEF Scaled
    <3>2. SumFunction(Scaled(c)) \in Int
      BY <2>0, CellFacts, SumType
    <3> QED
      BY <2>2, <3>1, <3>2
  <2> QED
    BY <2>1, <2>2
<1> QED
  BY <1>1, <1>4, <1>5, <1>6

LEMMA RowCounted ==
  ASSUME NEW m \in Metas, NEW c, NEW d, NEW cell, PlusRow(d, c, cell), Counted(m, c)
  PROVE  Counted(WithRow(m, cell), d)
<1>0. c \in Counts /\ cell \in Cells \cup {Absent}
  BY DEF PlusRow
<1>1. Size(d) = m.row_count + 1
  BY RowTallies DEF Counted
<1>2. m.stats \in Stats /\ m.stats.count \in Nat
  BY DEF Metas, Stats
<1>3. \A x \in Cells : d[x] = IF x = cell THEN c[x] + 1 ELSE c[x]
  BY DEF PlusRow
<1>4. \A x \in Cells : c[x] \in Nat
  BY <1>0 DEF Counts
<1> DEFINE u == update_column_stats(m.stats, cell)
<1>5. /\ u.count = SumFunction(Shared(d))
      /\ u.some <=> \E x \in Cells : d[x] > 0
      /\ ~u.some => u = NoStats
  <2>1. CASE cell = Absent
    <3>1. u = m.stats /\ cell \notin Cells
      BY <2>1, CellFacts DEF update_column_stats
    <3>2. SumFunction(Shared(d)) = m.stats.count
      <4>1. SumFunction(Shared(d)) = SumFunction(Shared(c)) + 0
        BY <3>1, RowTallies
      <4> QED
        BY <1>2, <4>1 DEF Counted
    <3>3. \A x \in Cells : d[x] = c[x]
      BY <1>3, <3>1
    <3> QED
      BY <3>1, <3>2, <3>3 DEF Counted
  <2>2. CASE cell \in Cells
    <3>1. Fresh(m.stats).some /\ Fresh(m.stats).count = m.stats.count
      BY DEF Counted, Fresh, NoStats, new_numeric, new_categorical
    <3>2. u.count = m.stats.count + 1 /\ u.some
      BY <1>2, <2>2, <3>1, RowUpdates
    <3>3. SumFunction(Shared(d)) = m.stats.count + 1
      <4>1. SumFunction(Shared(d)) = SumFunction(Shared(c)) + 1
        BY <2>2, RowTallies
      <4> QED
        BY <4>1 DEF Counted
    <3>4. d[cell] > 0
      BY <1>3, <1>4, <2>2
    <3> QED
      BY <2>2, <3>2, <3>3, <3>4
  <2> QED
    BY <1>0, <2>1, <2>2
<1> HIDE DEF u
<1> QED
  BY <1>1, <1>5 DEF Counted, WithRow, u

LEMMA RowMeasured ==
  ASSUME is_numeric, NEW m \in Metas, NEW c, NEW d, NEW cell, PlusRow(d, c, cell),
         Counted(m, c), Measured(m, c)
  PROVE  Measured(WithRow(m, cell), d)
<1>1. /\ c \in Counts /\ cell \in Cells \cup {Absent}
      /\ \A x \in Cells : c[x] \in Nat /\ d[x] = IF x = cell THEN c[x] + 1 ELSE c[x]
  BY DEF PlusRow, Counts
<1>2. m.stats \in Stats /\ m.stats.sum \in Int
  BY DEF Metas, Stats
<1> DEFINE u == update_column_stats(m.stats, cell)
<1>3. ASSUME cell \notin Numeric PROVE ValuesIn(d) = ValuesIn(c)
  <2>1. \A x \in Numeric : d[x] = c[x]
    BY <1>1, <1>3, CellFacts
  <2> QED
    BY <2>1 DEF ValuesIn
<1>4. ASSUME cell \in Numeric PROVE ValuesIn(d) = ValuesIn(c) \cup {Number[cell]}
  <2>1. \A x \in Numeric : d[x] > 0 <=> c[x] > 0 \/ x = cell
    BY <1>1, <1>4, CellFacts
  <2> QED
    BY <1>4, <2>1 DEF ValuesIn
<1>5. ~m.stats.some => ValuesIn(c) = {}
  BY CellFacts DEF Counted, ValuesIn
<1>6. SumFunction(Scaled(d)) = m.stats.sum + IF cell \in Numeric THEN Number[cell] ELSE 0
  BY RowTallies DEF Measured
<1> DEFINE old == Fresh(m.stats)
<1>7. /\ old.sum = m.stats.sum
      /\ old.min \in -MaxF .. MaxF /\ old.max \in -MaxF .. MaxF
      /\ old.min \in {MaxF} \cup ValuesIn(c) /\ old.max \in {-MaxF} \cup ValuesIn(c)
      /\ \A n \in ValuesIn(c) : old.min <= n /\ n <= old.max
  <2>1. old \in Stats
    BY <1>2, FreshType
  <2>2. old.min \in -MaxF .. MaxF /\ old.max \in -MaxF .. MaxF
    BY <2>1 DEF Stats
  <2>3. CASE m.stats.some
    <3>1. old = m.stats
      BY <2>3 DEF Fresh
    <3> QED
      BY <2>2, <2>3, <3>1 DEF Measured
  <2>4. CASE ~m.stats.some
    <3>1. old = new_numeric /\ m.stats = NoStats
      BY <2>4 DEF Fresh, Counted
    <3>2. old.sum = m.stats.sum /\ old.min = MaxF /\ old.max = -MaxF
      BY <3>1 DEF new_numeric, NoStats
    <3> QED
      BY <1>5, <2>2, <2>4, <3>2
  <2> QED
    BY <2>3, <2>4
<1>8. CASE cell = Absent
  <2>1. u = m.stats /\ cell \notin Numeric
    BY <1>8, CellFacts DEF update_column_stats
  <2>2. u.sum = SumFunction(Scaled(d)) /\ ValuesIn(d) = ValuesIn(c)
    BY <1>2, <1>3, <1>6, <2>1
  <2> HIDE DEF u
  <2>3. WithRow(m, cell).stats = m.stats
    BY <2>1 DEF WithRow, u
  <2> QED
    BY <2>1, <2>2, <2>3 DEF Measured
<1>9. CASE cell \in Numeric
  <2>1. /\ u.sum = old.sum + Number[cell]
        /\ u.min = Lower(old.min, Number[cell])
        /\ u.max = Higher(old.max, Number[cell])
    BY <1>2, <1>9, CellFacts, RowUpdates
  <2>2. Number[cell] \in -MaxF .. MaxF
    BY <1>9, CellFacts
  <2> HIDE DEF old
  <2>3. /\ u.min \in {old.min, Number[cell]} /\ u.min <= old.min /\ u.min <= Number[cell]
        /\ u.max \in {old.max, Number[cell]} /\ old.max <= u.max /\ Number[cell] <= u.max
        /\ u.min \in Int /\ u.max \in Int
    <3>0. old.min \in -MaxF .. MaxF
      BY <1>7
    <3>1. old.max \in -MaxF .. MaxF
      BY <1>7
    <3> DEFINE v == Number[cell]
    <3> HIDE DEF u, v
    <3>2. v \in -MaxF .. MaxF /\ u.min = Lower(old.min, v) /\ u.max = Higher(old.max, v)
      BY <2>1, <2>2 DEF v
    <3>3. u.min \in -MaxF .. MaxF /\ u.min \in {old.min, v} /\ u.min <= old.min /\ u.min <= v
      BY <3>0, <3>2, BoundTypes
    <3>4. u.max \in -MaxF .. MaxF /\ u.max \in {old.max, v} /\ old.max <= u.max /\ v <= u.max
      BY <3>1, <3>2, BoundTypes
    <3> QED
      BY <3>3, <3>4, CellFacts DEF v
  <2>4. u.sum = SumFunction(Scaled(d))
    BY <1>6, <1>7, <1>9, <2>1
  <2>5. \A n \in ValuesIn(c) : n \in Int
    BY CellFacts DEF ValuesIn
  <2>6. /\ u.min \in {MaxF} \cup ValuesIn(d) /\ u.max \in {-MaxF} \cup ValuesIn(d)
    BY <1>4, <1>7, <1>9, <2>3
  <2>7. ASSUME NEW n \in ValuesIn(d) PROVE u.min <= n /\ n <= u.max
    <3>1. CASE n = Number[cell]
      BY <2>3, <3>1
    <3>2. CASE n \in ValuesIn(c)
      <4>1. old.min <= n /\ n <= old.max /\ n \in Int
        BY <1>7, <2>5, <3>2
      <4>2. old.min \in Int /\ old.max \in Int
        BY <1>7, CellFacts
      <4> QED
        BY <2>3, <4>1, <4>2
    <3> QED
      BY <1>4, <1>9, <3>1, <3>2
  <2> HIDE DEF u
  <2>8. WithRow(m, cell).stats = u
    BY DEF WithRow, u
  <2> QED
    BY <2>4, <2>6, <2>7, <2>8 DEF Measured
<1>10. CASE cell \in Cells \ Numeric
  <2>1. u.sum = old.sum /\ u.min = old.min /\ u.max = old.max
    BY <1>2, <1>10, RowUpdates
  <2>2. u.sum = SumFunction(Scaled(d)) /\ ValuesIn(d) = ValuesIn(c)
    BY <1>2, <1>3, <1>6, <1>7, <1>10, <2>1
  <2> HIDE DEF u
  <2>3. WithRow(m, cell).stats = u
    BY DEF WithRow, u
  <2> QED
    BY <1>7, <2>1, <2>2, <2>3 DEF Measured
<1> QED
  BY <1>1, <1>8, <1>9, <1>10

LEMMA RowClean ==
  ASSUME is_numeric, NEW m \in Metas, NEW c, NEW d, NEW cell, PlusRow(d, c, cell),
         Counted(m, c), Clean(m, c)
  PROVE  Clean(WithRow(m, cell), d)
<1>1. /\ c \in Counts /\ cell \in Cells \cup {Absent}
      /\ \A x \in Cells : d[x] = IF x = cell THEN c[x] + 1 ELSE c[x]
  BY DEF PlusRow
<1>2. m.stats \in Stats
  BY DEF Metas
<1> DEFINE u == update_column_stats(m.stats, cell)
<1>3. CASE cell = Absent
  <2>1. u = m.stats /\ cell \notin Cells
    BY <1>3, CellFacts DEF update_column_stats
  <2> QED
    BY <1>1, <2>1 DEF Clean, WithRow
<1>4. CASE cell \in Cells
  <2> DEFINE old == Fresh(m.stats)
  <2>1. ASSUME u.finite PROVE old.finite /\ Number[cell] # NotFinite
    <3>1. CASE cell \in Numeric
      <4>1. u.finite = (old.finite /\ InRange(old.sum + Number[cell]))
        BY <1>2, <1>4, <3>1, RowUpdates
      <4>2. Number[cell] # NotFinite
        BY <3>1, CellAssumption DEF Numeric
      <4> HIDE DEF u, old
      <4> QED
        BY <2>1, <4>1, <4>2
    <3>2. CASE cell \notin Numeric
      <4>1. u.finite = (old.finite /\ ~(is_numeric /\ Number[cell] = NotFinite))
        BY <1>2, <1>4, <3>2, RowUpdates
      <4> HIDE DEF u, old
      <4> QED
        BY <2>1, <4>1
    <3> QED
      BY <3>1, <3>2
  <2>2. old.finite => m.stats.finite
    BY DEF Fresh, Counted, NoStats
  <2>3. ASSUME u.finite, NEW x \in Cells, Number[x] = NotFinite PROVE d[x] = 0
    BY <1>1, <2>1, <2>2, <2>3 DEF Clean
  <2> HIDE DEF u
  <2>4. WithRow(m, cell).stats = u
    BY DEF WithRow, u
  <2> QED
    BY <2>3, <2>4 DEF Clean
<1> QED
  BY <1>1, <1>3, <1>4

(* Two sets of rows put together, as a flush does.                         *)
PlusCells(e, c, d) ==
  /\ e \in Counts /\ c \in Counts /\ d \in Counts
  /\ \A x \in Cells \cup {Absent} : e[x] = c[x] + d[x]

LEMMA MergeTallies ==
  ASSUME NEW e, NEW c, NEW d, PlusCells(e, c, d)
  PROVE  /\ Size(e) = Size(c) + Size(d)
         /\ SumFunction(Shared(e)) = SumFunction(Shared(c)) + SumFunction(Shared(d))
         /\ SumFunction(Scaled(e)) = SumFunction(Scaled(c)) + SumFunction(Scaled(d))
<1>1. /\ e \in Counts /\ c \in Counts /\ d \in Counts
      /\ \A x \in Cells \cup {Absent} : e[x] = c[x] + d[x]
  BY DEF PlusCells
<1>2. Size(e) = Size(c) + Size(d)
  <2>1. /\ e \in [Cells \cup {Absent} -> Int] /\ c \in [Cells \cup {Absent} -> Int]
        /\ d \in [Cells \cup {Absent} -> Int]
    BY <1>1, TallyTypes
  <2>2. IsPlus(e, c, d, Cells \cup {Absent})
    BY <1>1, <2>1 DEF IsPlus
  <2> QED
    BY <2>2, CellFacts, SumPlus DEF Size
<1>3. SumFunction(Shared(e)) = SumFunction(Shared(c)) + SumFunction(Shared(d))
  <2>1. /\ Shared(e) \in [Cells -> Int] /\ Shared(c) \in [Cells -> Int]
        /\ Shared(d) \in [Cells -> Int]
    BY <1>1, TallyTypes
  <2>2. \A x \in Cells : Shared(e)[x] = Shared(c)[x] + Shared(d)[x]
    BY <1>1 DEF Shared
  <2>3. IsPlus(Shared(e), Shared(c), Shared(d), Cells)
    BY <2>1, <2>2 DEF IsPlus
  <2> QED
    BY <2>3, CellFacts, SumPlus
<1>4. SumFunction(Scaled(e)) = SumFunction(Scaled(c)) + SumFunction(Scaled(d))
  <2>1. /\ Scaled(e) \in [Numeric -> Int] /\ Scaled(c) \in [Numeric -> Int]
        /\ Scaled(d) \in [Numeric -> Int]
    BY <1>1, TallyTypes
  <2>2. ASSUME NEW x \in Numeric PROVE Scaled(e)[x] = Scaled(c)[x] + Scaled(d)[x]
    <3>1. c[x] \in Int /\ d[x] \in Int /\ Number[x] \in Int /\ e[x] = c[x] + d[x]
      BY <1>1, CellFacts DEF Counts
    <3>2. \A a, b, k \in Int : (a + b) * k = a * k + b * k
      OBVIOUS
    <3>3. (c[x] + d[x]) * Number[x] = c[x] * Number[x] + d[x] * Number[x]
      BY <3>1, <3>2
    <3> QED
      BY <3>1, <3>3 DEF Scaled
  <2>3. IsPlus(Scaled(e), Scaled(c), Scaled(d), Numeric)
    BY <2>1, <2>2 DEF IsPlus
  <2> QED
    BY <2>3, CellFacts, SumPlus
<1> QED
  BY <1>2, <1>3, <1>4

LEMMA MergeCounted ==
  ASSUME NEW m \in Metas, NEW n \in Metas, NEW e, NEW c, NEW d, PlusCells(e, c, d),
         Counted(m, c), Counted(n, d)
  PROVE  Counted(MergeMeta(m, n), e)
<1> DEFINE u == MergeMeta(m, n)
<1>1. u.row_count = Size(e)
  BY MergeTallies DEF Counted, MergeMeta
<1>2. /\ m.stats.count \in Nat /\ n.stats.count \in Nat
      /\ m.stats.some \in BOOLEAN /\ n.stats.some \in BOOLEAN
  BY DEF Metas, Stats
<1>3. u.stats.count = m.stats.count + n.stats.count
  BY <1>2 DEF Counted, MergeMeta, NoStats, merge
<1>4. u.stats.some <=> m.stats.some \/ n.stats.some
  BY <1>2 DEF MergeMeta, merge
<1>5. ~u.stats.some => u.stats = NoStats
  BY <1>4 DEF Counted, MergeMeta
<1>6. u.stats.some <=> \E x \in Cells : e[x] > 0
  <2>1. \A x \in Cells : e[x] > 0 <=> c[x] > 0 \/ d[x] > 0
    BY DEF PlusCells, Counts
  <2> QED
    BY <1>4, <2>1 DEF Counted
<1>7. u.stats.count = SumFunction(Shared(e))
  BY <1>3, MergeTallies DEF Counted
<1> HIDE DEF u
<1> QED
  BY <1>1, <1>5, <1>6, <1>7 DEF Counted, u

LEMMA MergeMeasured ==
  ASSUME NEW m \in Metas, NEW n \in Metas, NEW e, NEW c, NEW d, PlusCells(e, c, d),
         Counted(m, c), Counted(n, d), Measured(m, c), Measured(n, d)
  PROVE  Measured(MergeMeta(m, n), e)
<1> DEFINE u == MergeMeta(m, n).stats
<1>1. /\ m.stats.sum \in Int /\ n.stats.sum \in Int
      /\ m.stats.min \in -MaxF .. MaxF /\ n.stats.min \in -MaxF .. MaxF
      /\ m.stats.max \in -MaxF .. MaxF /\ n.stats.max \in -MaxF .. MaxF
      /\ m.stats.some \in BOOLEAN /\ n.stats.some \in BOOLEAN
  BY DEF Metas, Stats
<1>2. u.sum = m.stats.sum + n.stats.sum
  BY <1>1 DEF Counted, MergeMeta, NoStats, merge
<1>3. u.sum = SumFunction(Scaled(e))
  BY <1>2, MergeTallies DEF Measured
<1>4. ValuesIn(e) = ValuesIn(c) \cup ValuesIn(d)
  <2>1. \A x \in Numeric : e[x] > 0 <=> c[x] > 0 \/ d[x] > 0
    BY CellFacts DEF PlusCells, Counts
  <2> QED
    BY <2>1 DEF ValuesIn
<1>5. ~m.stats.some => ValuesIn(c) = {}
  BY CellFacts DEF Counted, ValuesIn
<1>6. ~n.stats.some => ValuesIn(d) = {}
  BY CellFacts DEF Counted, ValuesIn
<1>7. CASE ~n.stats.some
  <2>1. u = m.stats /\ ValuesIn(e) = ValuesIn(c)
    BY <1>1, <1>4, <1>6, <1>7 DEF MergeMeta, Counted
  <2> HIDE DEF u
  <2> QED
    BY <1>3, <2>1 DEF Measured, u
<1>8. CASE n.stats.some /\ ~m.stats.some
  <2>1. u = n.stats /\ ValuesIn(e) = ValuesIn(d)
    BY <1>4, <1>5, <1>8 DEF MergeMeta
  <2> HIDE DEF u
  <2> QED
    BY <1>3, <2>1 DEF Measured, u
<1>9. CASE n.stats.some /\ m.stats.some
  <2>1. u.min = Lower(m.stats.min, n.stats.min) /\ u.max = Higher(m.stats.max, n.stats.max)
    BY <1>9 DEF MergeMeta, merge
  <2>2. /\ u.min \in {m.stats.min, n.stats.min} /\ u.min <= m.stats.min /\ u.min <= n.stats.min
        /\ u.max \in {m.stats.max, n.stats.max} /\ m.stats.max <= u.max /\ n.stats.max <= u.max
        /\ u.min \in Int /\ u.max \in Int
    <3> HIDE DEF u
    <3>1. u.min \in -MaxF .. MaxF /\ u.min \in {m.stats.min, n.stats.min}
          /\ u.min <= m.stats.min /\ u.min <= n.stats.min
      <4>1. m.stats.min \in -MaxF .. MaxF /\ n.stats.min \in -MaxF .. MaxF
        BY <1>1
      <4> QED
        BY <2>1, <4>1, BoundTypes
    <3>2. u.max \in -MaxF .. MaxF /\ u.max \in {m.stats.max, n.stats.max}
          /\ m.stats.max <= u.max /\ n.stats.max <= u.max
      <4>1. m.stats.max \in -MaxF .. MaxF /\ n.stats.max \in -MaxF .. MaxF
        BY <1>1
      <4> QED
        BY <2>1, <4>1, BoundTypes
    <3> QED
      BY <3>1, <3>2, CellFacts
  <2>3. /\ m.stats.min \in {MaxF} \cup ValuesIn(c) /\ n.stats.min \in {MaxF} \cup ValuesIn(d)
        /\ m.stats.max \in {-MaxF} \cup ValuesIn(c) /\ n.stats.max \in {-MaxF} \cup ValuesIn(d)
        /\ \A v \in ValuesIn(c) : m.stats.min <= v /\ v <= m.stats.max
        /\ \A v \in ValuesIn(d) : n.stats.min <= v /\ v <= n.stats.max
    BY <1>9 DEF Measured
  <2> HIDE DEF u
  <2>4. u.min \in {MaxF} \cup ValuesIn(e) /\ u.max \in {-MaxF} \cup ValuesIn(e)
    BY <1>4, <2>2, <2>3
  <2>5. \A v \in ValuesIn(c) \cup ValuesIn(d) : v \in Int
    BY CellFacts DEF ValuesIn
  <2>6. \A v \in ValuesIn(e) : u.min <= v /\ v <= u.max
    <3>1. m.stats.min \in Int /\ m.stats.max \in Int /\ n.stats.min \in Int /\ n.stats.max \in Int
      BY <1>1, CellFacts
    <3>2. \A v \in ValuesIn(c) : u.min <= v /\ v <= u.max
      BY <2>2, <2>3, <2>5, <3>1
    <3>3. \A v \in ValuesIn(d) : u.min <= v /\ v <= u.max
      BY <2>2, <2>3, <2>5, <3>1
    <3> QED
      BY <1>4, <3>2, <3>3
  <2> QED
    BY <1>3, <2>4, <2>6 DEF Measured, u
<1> QED
  BY <1>7, <1>8, <1>9

LEMMA MergeClean ==
  ASSUME NEW m \in Metas, NEW n \in Metas, NEW e, NEW c, NEW d, PlusCells(e, c, d),
         Counted(m, c), Counted(n, d), Clean(m, c), Clean(n, d)
  PROVE  Clean(MergeMeta(m, n), e)
<1> DEFINE u == MergeMeta(m, n).stats
<1>1. m.stats.some \in BOOLEAN /\ n.stats.some \in BOOLEAN
  BY DEF Metas, Stats
<1>2. u.finite => m.stats.finite /\ n.stats.finite
  <2>1. CASE ~n.stats.some
    BY <2>1 DEF MergeMeta, Counted, NoStats
  <2>2. CASE n.stats.some /\ ~m.stats.some
    BY <2>2 DEF MergeMeta, Counted, NoStats
  <2>3. CASE n.stats.some /\ m.stats.some
    BY <2>3 DEF MergeMeta, merge
  <2> QED
    BY <1>1, <2>1, <2>2, <2>3
<1>3. \A x \in Cells : c[x] = 0 /\ d[x] = 0 => e[x] = 0
  BY DEF PlusCells
<1> QED
  BY <1>2, <1>3 DEF Clean

-----------------------------------------------------------------------------
(* The invariant holds.                                                    *)

LEMMA StatsInit == Init => StatsInv
  BY EmptyTallies DEF Init, StatsInv, Describes

LEMMA StatsWrite ==
  ASSUME TypeOK, StatsInv, NEW s \in Segments, NEW cell \in Cells \cup {Absent},
         WriteRow(s, cell)
  PROVE  StatsInv'
<1>1. /\ is_numeric' = is_numeric /\ meta' = meta /\ file' = file /\ hashed' = hashed
      /\ builder' = [builder EXCEPT ![s] = WithRow(@, cell)]
      /\ unflushed' = [unflushed EXCEPT ![s][cell] = @ + 1]
  BY DEF WriteRow, WithRow
<1>2. /\ builder \in [Segments -> Metas] /\ unflushed \in [Segments -> Counts]
  BY DEF TypeOK, Counts
<1>3. builder'[s] = WithRow(builder[s], cell) /\ unflushed'[s] = [unflushed[s] EXCEPT ![cell] = @ + 1]
  BY <1>1, <1>2
<1>4. \A t \in Segments \ {s} : builder'[t] = builder[t] /\ unflushed'[t] = unflushed[t]
  BY <1>1, <1>2
<1>5. PlusRow(unflushed'[s], unflushed[s], cell)
  <2>1. unflushed[s] \in Counts
    BY <1>2
  <2>2. unflushed'[s] \in Counts
    BY <1>3, <2>1 DEF Counts
  <2>3. \A x \in Cells \cup {Absent} :
          unflushed'[s][x] = IF x = cell THEN unflushed[s][x] + 1 ELSE unflushed[s][x]
    BY <1>3, <2>1 DEF Counts
  <2> QED
    BY <2>1, <2>2, <2>3 DEF PlusRow
<1>6. builder[s] \in Metas /\ Counted(builder[s], unflushed[s])
      /\ (is_numeric => Measured(builder[s], unflushed[s]) /\ Clean(builder[s], unflushed[s]))
  BY <1>2 DEF StatsInv
<1>7. Counted(WithRow(builder[s], cell), unflushed'[s])
  BY <1>5, <1>6, RowCounted
<1>8. is_numeric => /\ Measured(WithRow(builder[s], cell), unflushed'[s])
                    /\ Clean(WithRow(builder[s], cell), unflushed'[s])
  BY <1>5, <1>6, RowMeasured, RowClean
<1>9. /\ Counted(builder'[s], unflushed'[s])
      /\ is_numeric' => Measured(builder'[s], unflushed'[s]) /\ Clean(builder'[s], unflushed'[s])
  BY <1>1, <1>3, <1>7, <1>8
<1>10. \A t \in Segments :
        /\ Counted(builder'[t], unflushed'[t])
        /\ is_numeric' => Measured(builder'[t], unflushed'[t]) /\ Clean(builder'[t], unflushed'[t])
  BY <1>1, <1>4, <1>9 DEF StatsInv
<1>11. \A t \in Segments : Describes(t)'
  BY <1>1 DEF StatsInv, Describes, Readable, Counted, Measured, Clean
<1> QED
  BY <1>10, <1>11 DEF StatsInv, Counted, Measured, Clean

(* What both outcomes of a flush do to the rows. *)
LEMMA FlushedCells ==
  ASSUME TypeOK, NEW s \in Segments,
         file' = [file EXCEPT ![s] = [c \in DOMAIN @ |-> @[c] + unflushed[s][c]]]
  PROVE  /\ PlusCells(file'[s], unflushed[s], file[s])
         /\ \A t \in Segments \ {s} : file'[t] = file[t]
<1>1. unflushed[s] \in Counts /\ file \in [Segments -> Counts] /\ file[s] \in Counts
  BY DEF TypeOK, Counts
<1>2. file'[s] = [c \in Cells \cup {Absent} |-> file[s][c] + unflushed[s][c]]
  BY <1>1 DEF Counts
<1>3. file'[s] \in Counts
  BY <1>1, <1>2 DEF Counts
<1>4. \A c \in Cells \cup {Absent} : file'[s][c] = unflushed[s][c] + file[s][c]
  BY <1>1, <1>2 DEF Counts
<1> QED
  BY <1>1, <1>3, <1>4 DEF PlusCells

LEMMA StatsFlush ==
  ASSUME TypeOK, StatsInv, NEW s \in Segments, Flush(s)
  PROVE  StatsInv'
<1>1. /\ is_numeric' = is_numeric
      /\ builder' = [builder EXCEPT ![s] = EmptyMeta]
      /\ unflushed' = [unflushed EXCEPT ![s] = NoCells]
      /\ meta' = [meta EXCEPT ![s] = MergeMeta(builder[s], @)]
      /\ hashed' = IF is_numeric THEN hashed ELSE hashed \cup {s}
      /\ Readable(s)
  BY DEF Flush
<1>2. /\ builder \in [Segments -> Metas] /\ unflushed \in [Segments -> Counts]
      /\ meta \in [Segments -> Metas] /\ is_numeric \in BOOLEAN
  BY DEF TypeOK, Counts
<1>3. builder'[s] = EmptyMeta /\ unflushed'[s] = NoCells
      /\ meta'[s] = MergeMeta(builder[s], meta[s])
  BY <1>1, <1>2
<1>4. \A t \in Segments \ {s} : /\ builder'[t] = builder[t] /\ unflushed'[t] = unflushed[t]
                                /\ meta'[t] = meta[t] /\ file'[t] = file[t]
  <2>1. \A t \in Segments \ {s} : file'[t] = file[t]
    BY FlushedCells DEF Flush
  <2> QED
    BY <1>1, <1>2, <2>1
<1>5. PlusCells(file'[s], unflushed[s], file[s])
  BY FlushedCells DEF Flush
<1>6. /\ builder[s] \in Metas /\ meta[s] \in Metas
      /\ Counted(builder[s], unflushed[s]) /\ Counted(meta[s], file[s])
  BY <1>1, <1>2 DEF StatsInv, Describes
<1>7. Counted(meta'[s], file'[s])
  BY <1>3, <1>5, <1>6, MergeCounted
<1>8. s \notin hashed' => Measured(meta'[s], file'[s]) /\ Clean(meta'[s], file'[s])
  <2> SUFFICES ASSUME s \notin hashed'
               PROVE  Measured(meta'[s], file'[s]) /\ Clean(meta'[s], file'[s])
    OBVIOUS
  <2>1. is_numeric /\ s \notin hashed
    BY <1>1
  <2>2. /\ Measured(builder[s], unflushed[s]) /\ Measured(meta[s], file[s])
        /\ Clean(builder[s], unflushed[s]) /\ Clean(meta[s], file[s])
    BY <1>1, <2>1 DEF StatsInv, Describes
  <2> QED
    BY <1>3, <1>5, <1>6, <2>2, MergeMeasured, MergeClean
<1>9. /\ Counted(builder'[s], unflushed'[s]) /\ Measured(builder'[s], unflushed'[s])
      /\ Clean(builder'[s], unflushed'[s])
  BY <1>3, EmptyTallies
<1>10. \A t \in Segments \ {s} : t \notin hashed' => t \notin hashed
  BY <1>1
<1>11. \A t \in Segments :
        /\ Counted(builder'[t], unflushed'[t])
        /\ is_numeric' => Measured(builder'[t], unflushed'[t]) /\ Clean(builder'[t], unflushed'[t])
  BY <1>1, <1>4, <1>9 DEF StatsInv
<1>12. Describes(s)'
  BY <1>7, <1>8 DEF Describes, Counted, Measured, Clean
<1>13. \A t \in Segments \ {s} : Describes(t)'
  BY <1>4, <1>10 DEF StatsInv, Describes, Readable, Counted, Measured, Clean
<1> QED
  BY <1>11, <1>12, <1>13 DEF StatsInv, Counted, Measured, Clean

LEMMA StatsFlushFails ==
  ASSUME TypeOK, StatsInv, NEW s \in Segments, FlushFails(s)
  PROVE  StatsInv'
<1>1. PICK dropped \in {{s}, Segments} :
        /\ builder' = [t \in Segments |-> IF t \in dropped THEN EmptyMeta ELSE builder[t]]
        /\ unflushed' = [t \in Segments |-> IF t \in dropped THEN NoCells ELSE unflushed[t]]
  BY DEF FlushFails
<1>2. /\ is_numeric' = is_numeric /\ meta' = meta /\ hashed' = hashed
      /\ ~Readable(s)
      /\ \A t \in Segments \ {s} : file'[t] = file[t]
  BY FlushedCells DEF FlushFails
<1>3. \A t \in Segments :
        \/ builder'[t] = EmptyMeta /\ unflushed'[t] = NoCells
        \/ builder'[t] = builder[t] /\ unflushed'[t] = unflushed[t]
  <2> TAKE t \in Segments
  <2>1. CASE t \in dropped
    BY <1>1, <2>1
  <2>2. CASE t \notin dropped
    BY <1>1, <2>2
  <2> QED
    BY <2>1, <2>2
<1>4. \A t \in Segments :
        /\ Counted(builder'[t], unflushed'[t])
        /\ is_numeric' => Measured(builder'[t], unflushed'[t]) /\ Clean(builder'[t], unflushed'[t])
  BY <1>2, <1>3, EmptyTallies DEF StatsInv
<1>5. \A t \in Segments : Describes(t)'
  BY <1>2 DEF StatsInv, Describes, Readable, Counted, Measured, Clean
<1> QED
  BY <1>4, <1>5 DEF StatsInv, Counted, Measured, Clean

LEMMA StatsSession ==
  ASSUME StatsInv, NEW numeric \in BOOLEAN, NewSession(numeric)
  PROVE  StatsInv'
<1>1. /\ meta' = meta /\ file' = file /\ hashed' = hashed
      /\ \A s \in Segments : builder'[s] = EmptyMeta /\ unflushed'[s] = NoCells
  BY DEF NewSession
<1>2. \A s \in Segments :
        /\ Counted(builder'[s], unflushed'[s])
        /\ is_numeric' => Measured(builder'[s], unflushed'[s]) /\ Clean(builder'[s], unflushed'[s])
  BY <1>1, EmptyTallies
<1>3. \A s \in Segments : Describes(s)'
  BY <1>1 DEF StatsInv, Describes, Readable, Counted, Measured, Clean
<1> QED
  BY <1>2, <1>3 DEF StatsInv, Counted, Measured, Clean

(* The metadata of every builder and file is that of its rows. *)
THEOREM StatsHold == Spec => [](TypeOK /\ StatsInv)
<1>1. Init => TypeOK /\ StatsInv
  BY TypeInit, StatsInit
<1>2. TypeOK /\ StatsInv /\ [Next]_vars => TypeOK' /\ StatsInv'
  <2> SUFFICES ASSUME TypeOK, StatsInv, [Next]_vars PROVE StatsInv'
    BY TypeStep
  <2>1. CASE UNCHANGED vars
    BY <2>1 DEF vars, StatsInv, Describes, Readable, Counted, Measured, Clean
  <2>2. CASE Next
    BY <2>2, StatsWrite, StatsFlush, StatsFlushFails, StatsSession DEF Next
  <2> QED
    BY <2>1, <2>2
<1> QED
  BY <1>1, <1>2, PTL DEF Spec

-----------------------------------------------------------------------------
(* From segments to aggregates over several of them.                       *)

LEMMA MinIs ==
  ASSUME NEW T \in SUBSET Int, NEW x \in T, \A y \in T : x <= y
  PROVE  Min(T) = x
<1>1. \A z \in T : (\A y \in T : z <= y) => z = x
  OBVIOUS
<1> QED
  BY <1>1 DEF Min

LEMMA MaxIs ==
  ASSUME NEW T \in SUBSET Int, NEW x \in T, \A y \in T : y <= x
  PROVE  Max(T) = x
<1>1. \A z \in T : (\A y \in T : z >= y) => z = x
  OBVIOUS
<1> QED
  BY <1>1 DEF Max

(* A set of bounded numbers has a least and a greatest one. *)
LEMMA LeastExists ==
  ASSUME NEW T \in SUBSET (-MaxF .. MaxF), T # {}
  PROVE  \E x \in T : \A y \in T : x <= y
<1> DEFINE U == {y + MaxF : y \in T}
<1>1. \A y \in T : y \in Int /\ y + MaxF \in Nat
  BY CellFacts
<1>2. U \in SUBSET Nat /\ U # {}
  BY <1>1
<1>3. PICK u \in U : \A v \in U : u <= v
  <2> HIDE DEF U
  <2> QED
    BY <1>2, NatLeast
<1>4. PICK x \in T : u = x + MaxF
  OBVIOUS
<1>5. ASSUME NEW y \in T PROVE x <= y
  <2>1. x + MaxF <= y + MaxF
    BY <1>3, <1>4
  <2> QED
    BY <1>1, <2>1, CellFacts
<1> QED
  BY <1>5

LEMMA GreatestExists ==
  ASSUME NEW T \in SUBSET (-MaxF .. MaxF), T # {}
  PROVE  \E x \in T : \A y \in T : y <= x
<1> DEFINE U == {MaxF - y : y \in T}
<1>1. \A y \in T : y \in Int /\ MaxF - y \in Nat
  BY CellFacts
<1>2. U \in SUBSET Nat /\ U # {}
  BY <1>1
<1>3. PICK u \in U : \A v \in U : u <= v
  <2> HIDE DEF U
  <2> QED
    BY <1>2, NatLeast
<1>4. PICK x \in T : u = MaxF - x
  OBVIOUS
<1>5. ASSUME NEW y \in T PROVE y <= x
  <2>1. MaxF - x <= MaxF - y
    BY <1>3, <1>4
  <2> QED
    BY <1>1, <2>1, CellFacts
<1> QED
  BY <1>5

(* A value occurs in some of the segments if one of them has it. *)
LEMMA OccurType ==
  ASSUME TypeOK, NEW keys \in SUBSET Segments, NEW c \in Cells
  PROVE  /\ Occur(c, keys) \in Nat
         /\ Occur(c, keys) = 0 <=> \A s \in keys : file[s][c] = 0
<1> DEFINE f == [s \in keys |-> file[s][c]]
<1>1. f \in [keys -> Nat] /\ IsFiniteSet(keys)
  BY CellFacts, FS_Subset DEF TypeOK
<1>2. Occur(c, keys) = SumFunction(f)
  BY DEF Occur
<1>3. \A s \in keys : f[s] = file[s][c]
  OBVIOUS
<1> HIDE DEF f
<1> QED
  BY <1>1, <1>2, <1>3, SumNat

LEMMA NumbersSplit ==
  ASSUME TypeOK, NEW keys \in SUBSET Segments
  PROVE  Numbers(keys) = UNION {ValuesIn(file[s]) : s \in keys}
<1>1. \A c \in Numeric : Occur(c, keys) > 0 <=> \E s \in keys : file[s][c] > 0
  <2> SUFFICES ASSUME NEW c \in Numeric
               PROVE  Occur(c, keys) > 0 <=> \E s \in keys : file[s][c] > 0
    OBVIOUS
  <2>1. c \in Cells /\ \A s \in keys : file[s][c] \in Nat
    BY CellFacts DEF TypeOK
  <2> QED
    BY <2>1, OccurType
<1> QED
  BY <1>1 DEF Numbers, ValuesIn

(* In a table that can be loaded every metadata file describes its data.   *)
LEMMA FilesDescribed ==
  ASSUME StatsInv, Loadable
  PROVE  \A s \in Segments :
           /\ Counted(meta[s], file[s])
           /\ s \notin hashed => Measured(meta[s], file[s]) /\ Clean(meta[s], file[s])
  BY DEF StatsInv, Loadable, Describes

(* A total over the segments that have statistics is one over all kept. *)
LEMMA CountsAddUp ==
  ASSUME TypeOK, StatsInv, Loadable, NEW keys \in SUBSET Segments
  PROVE  Totals(keys).count = RowTotals(keys).count
<1> DEFINE f == [s \in keys |-> meta[s].stats.count]
           g == [s \in HasStats(keys) |-> meta[s].stats.count]
           table == [s \in keys |-> [c \in Cells |-> file[s][c]]]
<1>1. IsFiniteSet(keys) /\ HasStats(keys) \in SUBSET keys
  BY CellFacts, FS_Subset DEF HasStats
<1>2. \A s \in keys : meta[s].stats.count \in Nat /\ Counted(meta[s], file[s])
  BY FilesDescribed DEF TypeOK, Metas, Stats
<1>3. SumFunction(g) = SumFunction(f)
  <2>1. f \in [keys -> Int] /\ g \in [HasStats(keys) -> Int]
    BY <1>1, <1>2
  <2>2. \A s \in keys : s \notin HasStats(keys) => meta[s].stats.count = 0
    BY <1>2 DEF HasStats, Counted, NoStats
  <2>3. \A s \in keys : f[s] = IF s \in HasStats(keys) THEN g[s] ELSE 0
    BY <2>2
  <2> HIDE DEF f, g
  <2>4. Supports(g, f, HasStats(keys), keys)
    BY <1>1, <2>1, <2>3 DEF Supports
  <2> QED
    BY <1>1, <2>4, SumSupport
<1> DEFINE h == [c \in Cells |-> Occur(c, keys)]
<1>4. table \in [keys -> [Cells -> Int]]
  BY DEF TypeOK
<1>5. RowSums(f, table, keys, Cells)
  <2>1. ASSUME NEW s \in keys PROVE f[s] = SumFunction([c \in Cells |-> table[s][c]])
    <3>1. f[s] = SumFunction(Shared(file[s]))
      BY <1>2 DEF Counted
    <3>2. Shared(file[s]) = [c \in Cells |-> table[s][c]]
      BY DEF Shared
    <3> QED
      BY <3>1, <3>2
  <2>2. f = [s \in keys |-> f[s]]
    OBVIOUS
  <2> HIDE DEF f, table
  <2> QED
    BY <2>1, <2>2, Zenon DEF RowSums
<1>6. ColumnSums(h, table, keys, Cells)
  <2>1. \A c \in Cells : [s \in keys |-> table[s][c]] = [s \in keys |-> file[s][c]]
    OBVIOUS
  <2> QED
    BY <2>1, Zenon DEF Occur, ColumnSums
<1>7. SumFunction(f) = SumFunction(h)
  <2> HIDE DEF f, h, table
  <2> QED
    BY <1>1, <1>4, <1>5, <1>6, CellFacts, SumSwap
<1>8. Totals(keys).count = SumFunction(g)
  BY DEF Totals
<1>9. RowTotals(keys).count = SumFunction(h)
  BY DEF RowTotals
<1> HIDE DEF f, g, h
<1> QED
  BY <1>3, <1>7, <1>8, <1>9

LEMMA SumsAddUp ==
  ASSUME TypeOK, StatsInv, Loadable, NEW keys \in SUBSET Segments, keys \cap hashed = {}
  PROVE  Totals(keys).sum = RowTotals(keys).sum
<1> DEFINE f == [s \in keys |-> meta[s].stats.sum]
           g == [s \in HasStats(keys) |-> meta[s].stats.sum]
           table == [s \in keys |-> [c \in Numeric |-> file[s][c] * Number[c]]]
           h == [c \in Numeric |-> Occur(c, keys) * Number[c]]
<1>1. IsFiniteSet(keys) /\ HasStats(keys) \in SUBSET keys
  BY CellFacts, FS_Subset DEF HasStats
<1>2. \A s \in keys : /\ meta[s].stats.sum \in Int
                      /\ Counted(meta[s], file[s]) /\ Measured(meta[s], file[s])
  BY FilesDescribed DEF TypeOK, Metas, Stats
<1>3. SumFunction(g) = SumFunction(f)
  <2>1. f \in [keys -> Int] /\ g \in [HasStats(keys) -> Int]
    BY <1>1, <1>2
  <2>2. \A s \in keys : s \notin HasStats(keys) => meta[s].stats.sum = 0
    BY <1>2 DEF HasStats, Counted, NoStats
  <2>3. \A s \in keys : f[s] = IF s \in HasStats(keys) THEN g[s] ELSE 0
    BY <2>2
  <2> HIDE DEF f, g
  <2>4. Supports(g, f, HasStats(keys), keys)
    BY <1>1, <2>1, <2>3 DEF Supports
  <2> QED
    BY <1>1, <2>4, SumSupport
<1>4. table \in [keys -> [Numeric -> Int]]
  BY CellFacts DEF TypeOK
<1>5. RowSums(f, table, keys, Numeric)
  <2>1. ASSUME NEW s \in keys PROVE f[s] = SumFunction([c \in Numeric |-> table[s][c]])
    <3>1. f[s] = SumFunction(Scaled(file[s]))
      BY <1>2 DEF Measured
    <3>2. Scaled(file[s]) = [c \in Numeric |-> table[s][c]]
      BY DEF Scaled
    <3> QED
      BY <3>1, <3>2
  <2>2. f = [s \in keys |-> f[s]]
    OBVIOUS
  <2> HIDE DEF f, table
  <2> QED
    BY <2>1, <2>2, Zenon DEF RowSums
<1>6. ColumnSums(h, table, keys, Numeric)
  <2>1. ASSUME NEW c \in Numeric
        PROVE  h[c] = SumFunction([s \in keys |-> table[s][c]])
    <3> DEFINE u == [s \in keys |-> file[s][c]]
               v == [s \in keys |-> table[s][c]]
    <3>1. u \in [keys -> Int] /\ Number[c] \in Int
      BY CellFacts DEF TypeOK
    <3>2. v \in [keys -> Int]
      BY <1>4
    <3>3. \A s \in keys : v[s] = u[s] * Number[c]
      OBVIOUS
    <3>4. Occur(c, keys) = SumFunction(u) /\ h[c] = Occur(c, keys) * Number[c]
      BY DEF Occur
    <3> HIDE DEF u, v, h
    <3>5. IsTimes(v, u, Number[c], keys)
      BY <3>1, <3>2, <3>3 DEF IsTimes
    <3>6. SumFunction(v) = SumFunction(u) * Number[c]
      BY <1>1, <3>5, SumTimes
    <3> QED
      BY <3>4, <3>6 DEF v
  <2>2. h = [c \in Numeric |-> h[c]]
    OBVIOUS
  <2> HIDE DEF h, table
  <2> QED
    BY <2>1, <2>2, Zenon DEF ColumnSums
<1>7. SumFunction(f) = SumFunction(h)
  <2> HIDE DEF f, h, table
  <2> QED
    BY <1>1, <1>4, <1>5, <1>6, CellFacts, SumSwap
<1>8. Totals(keys).sum = SumFunction(g)
  BY DEF Totals
<1>9. RowTotals(keys).sum = SumFunction(h)
  BY DEF RowTotals
<1> HIDE DEF f, g, h
<1> QED
  BY <1>3, <1>7, <1>8, <1>9

(* The bounds of the segments bound their values, and are among them.      *)
LEMMA SegmentBounds ==
  ASSUME TypeOK, StatsInv, Loadable, NEW keys \in SUBSET Segments, keys \cap hashed = {}
  PROVE  /\ Numbers(keys) \in SUBSET (-MaxF .. MaxF)
         /\ \A s \in HasStats(keys) :
              /\ meta[s].stats.min \in {MaxF} \cup Numbers(keys)
              /\ meta[s].stats.max \in {-MaxF} \cup Numbers(keys)
         /\ \A n \in Numbers(keys) : \E s \in HasStats(keys) :
              meta[s].stats.min <= n /\ n <= meta[s].stats.max
<1>1. \A s \in keys : Counted(meta[s], file[s]) /\ Measured(meta[s], file[s])
  BY FilesDescribed
<1>2. Numbers(keys) = UNION {ValuesIn(file[s]) : s \in keys}
  BY NumbersSplit
<1>3. \A s \in keys : ValuesIn(file[s]) \in SUBSET (-MaxF .. MaxF)
  BY CellFacts DEF ValuesIn
<1>4. \A s \in keys : ValuesIn(file[s]) # {} => s \in HasStats(keys)
  BY <1>1, CellFacts DEF ValuesIn, Counted, HasStats
<1>5. \A s \in HasStats(keys) :
        /\ s \in keys
        /\ meta[s].stats.min \in {MaxF} \cup ValuesIn(file[s])
        /\ meta[s].stats.max \in {-MaxF} \cup ValuesIn(file[s])
        /\ \A n \in ValuesIn(file[s]) : meta[s].stats.min <= n /\ n <= meta[s].stats.max
  BY <1>1 DEF Measured, HasStats
<1>6. Numbers(keys) \in SUBSET (-MaxF .. MaxF)
  BY <1>2, <1>3
<1>7. \A s \in HasStats(keys) :
        /\ meta[s].stats.min \in {MaxF} \cup Numbers(keys)
        /\ meta[s].stats.max \in {-MaxF} \cup Numbers(keys)
  BY <1>2, <1>5
<1>8. ASSUME NEW n \in Numbers(keys)
      PROVE  \E s \in HasStats(keys) : meta[s].stats.min <= n /\ n <= meta[s].stats.max
  <2>1. PICK s \in keys : n \in ValuesIn(file[s])
    BY <1>2
  <2> QED
    BY <1>4, <1>5, <2>1
<1> QED
  BY <1>6, <1>7, <1>8

LEMMA MinsAgree ==
  ASSUME TypeOK, StatsInv, Loadable, NEW keys \in SUBSET Segments, keys \cap hashed = {}
  PROVE  Totals(keys).min = RowTotals(keys).min
<1> DEFINE A == {MaxF} \cup {meta[s].stats.min : s \in HasStats(keys)}
           B == {MaxF} \cup Numbers(keys)
<1>1. \A s \in HasStats(keys) : meta[s].stats.min \in -MaxF .. MaxF
  BY DEF HasStats, TypeOK, Metas, Stats
<1>2. A \in SUBSET Int /\ B \in SUBSET (-MaxF .. MaxF) /\ B # {} /\ B \in SUBSET Int
  BY <1>1, CellFacts, SegmentBounds
<1>3. PICK x \in B : \A y \in B : x <= y
  <2> HIDE DEF B
  <2> QED
    BY <1>2, LeastExists
<1>4. A \subseteq B
  BY SegmentBounds
<1>5. x \in A
  <2>1. CASE x = MaxF
    BY <2>1
  <2>2. CASE x \in Numbers(keys)
    <3>1. PICK s \in HasStats(keys) : meta[s].stats.min <= x
      BY <2>2, SegmentBounds
    <3>2. meta[s].stats.min \in B /\ meta[s].stats.min \in A
      BY <1>4, <3>1
    <3>3. x <= meta[s].stats.min
      BY <1>3, <3>2
    <3>4. x = meta[s].stats.min
      <4> DEFINE m == meta[s].stats.min
      <4>1. x \in Int /\ m \in Int
        BY <1>2, <1>3, <3>2
      <4> HIDE DEF m
      <4> QED
        BY <3>1, <3>3, <4>1 DEF m
    <3> QED
      BY <3>2, <3>4
  <2> QED
    BY <1>3, <2>1, <2>2
<1> HIDE DEF A, B
<1>6. Min(B) = x
  BY <1>2, <1>3, MinIs
<1>7. Min(A) = x
  BY <1>2, <1>3, <1>4, <1>5, MinIs
<1> QED
  BY <1>6, <1>7 DEF Totals, RowTotals, A, B

LEMMA MaxsAgree ==
  ASSUME TypeOK, StatsInv, Loadable, NEW keys \in SUBSET Segments, keys \cap hashed = {}
  PROVE  Totals(keys).max = RowTotals(keys).max
<1> DEFINE A == {-MaxF} \cup {meta[s].stats.max : s \in HasStats(keys)}
           B == {-MaxF} \cup Numbers(keys)
<1>1. \A s \in HasStats(keys) : meta[s].stats.max \in -MaxF .. MaxF
  BY DEF HasStats, TypeOK, Metas, Stats
<1>2. A \in SUBSET Int /\ B \in SUBSET (-MaxF .. MaxF) /\ B # {} /\ B \in SUBSET Int
  BY <1>1, CellFacts, SegmentBounds
<1>3. PICK x \in B : \A y \in B : y <= x
  <2> HIDE DEF B
  <2> QED
    BY <1>2, GreatestExists
<1>4. A \subseteq B
  BY SegmentBounds
<1>5. x \in A
  <2>1. CASE x = -MaxF
    BY <2>1
  <2>2. CASE x \in Numbers(keys)
    <3>1. PICK s \in HasStats(keys) : x <= meta[s].stats.max
      BY <2>2, SegmentBounds
    <3>2. meta[s].stats.max \in B /\ meta[s].stats.max \in A
      BY <1>4, <3>1
    <3>3. meta[s].stats.max <= x
      BY <1>3, <3>2
    <3>4. x = meta[s].stats.max
      <4> DEFINE m == meta[s].stats.max
      <4>1. x \in Int /\ m \in Int
        BY <1>2, <1>3, <3>2
      <4> HIDE DEF m
      <4> QED
        BY <3>1, <3>3, <4>1 DEF m
    <3> QED
      BY <3>2, <3>4
  <2> QED
    BY <1>3, <2>1, <2>2
<1> HIDE DEF A, B
<1>6. Max(B) = x
  BY <1>2, <1>3, MaxIs
<1>7. Max(A) = x
  BY <1>2, <1>3, <1>4, <1>5, MaxIs
<1> QED
  BY <1>6, <1>7 DEF Totals, RowTotals, A, B

LEMMA RowsCounted ==
  ASSUME StatsInv, Loadable, NEW keys \in SUBSET Segments
  PROVE  CountStar(keys) = SumFunction([s \in keys |-> Size(file[s])])
<1>1. \A s \in keys : meta[s].row_count = Size(file[s])
  BY FilesDescribed DEF Counted
<1> QED
  BY <1>1 DEF CountStar

(* However rows are split over flushes, sessions and segments: while the   *)
(* table can be loaded, the counts, sums and bounds that a query takes from *)
(* metadata are those of the rows in the data files of the segments it     *)
(* keeps, and no cell that is NaN or an infinity is among them.            *)
THEOREM AggregatesHold == Spec => []AggregatesExact
<1>1. TypeOK /\ StatsInv => AggregatesExact
  <2> SUFFICES ASSUME TypeOK, StatsInv, Loadable, NEW keys \in SUBSET Published
               PROVE  /\ CountStar(keys) = SumFunction([s \in keys |-> Size(file[s])])
                      /\ Totals(keys).count = RowTotals(keys).count
                      /\ keys \cap hashed = {} =>
                           /\ Totals(keys) = RowTotals(keys)
                           /\ \A s \in keys, c \in Cells :
                                Number[c] = NotFinite => file[s][c] = 0
    BY Zenon DEF AggregatesExact
  <2>1. keys \in SUBSET Segments
    BY DEF Published
  <2>2. Totals(keys).count = RowTotals(keys).count
    BY <2>1, CountsAddUp
  <2>3. ASSUME keys \cap hashed = {} PROVE Totals(keys) = RowTotals(keys)
    <3>1. Totals(keys).sum = RowTotals(keys).sum
      BY <2>1, <2>3, SumsAddUp
    <3>2. Totals(keys).min = RowTotals(keys).min
      BY <2>1, <2>3, MinsAgree
    <3>3. Totals(keys).max = RowTotals(keys).max
      BY <2>1, <2>3, MaxsAgree
    <3> QED
      BY <2>2, <3>1, <3>2, <3>3 DEF Totals, RowTotals
  <2>4. ASSUME keys \cap hashed = {}, NEW s \in keys, NEW c \in Cells,
               Number[c] = NotFinite
        PROVE  file[s][c] = 0
    <3>1. Clean(meta[s], file[s]) /\ meta[s].stats.finite
      BY <2>1, <2>4, FilesDescribed DEF Loadable, Readable
    <3> QED
      BY <2>4, <3>1 DEF Clean
  <2> QED
    BY <2>1, <2>2, <2>3, <2>4, RowsCounted
<1> QED
  BY <1>1, StatsHold, PTL

(* While the table can be loaded, a query has no result for a column only  *)
(* when no row of the segments it keeps has that column.                   *)
THEOREM PresentAnswered == Spec => []ResultWhenPresent
<1>1. TypeOK /\ StatsInv => ResultWhenPresent
  <2> SUFFICES ASSUME TypeOK, StatsInv, Loadable, NEW keys \in SUBSET Published
               PROVE  HasStats(keys) = {} <=> \A c \in Cells : Occur(c, keys) = 0
    BY DEF ResultWhenPresent
  <2>1. keys \in SUBSET Segments
    BY DEF Published
  <2>2. \A c \in Cells : Occur(c, keys) = 0 <=> \A s \in keys : file[s][c] = 0
    BY <2>1, OccurType
  <2>3. \A s \in keys : meta[s].stats.some <=> \E c \in Cells : file[s][c] > 0
    BY <2>1, FilesDescribed DEF Counted
  <2>4. \A s \in keys, c \in Cells : file[s][c] \in Nat
    BY <2>1 DEF TypeOK
  <2> QED
    BY <2>2, <2>3, <2>4 DEF HasStats
<1> QED
  BY <1>1, StatsHold, PTL
=============================================================================

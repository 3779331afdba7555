----------------------------- MODULE SqlProofs -----------------------------
(***************************************************************************)
(* Proofs about SqlQuery: the filters a Straight clause becomes are no     *)
(* stricter than SQL, and for the supported forms they say the same.  With *)
(* the soundness of pruning no row is lost, and answers are exact.         *)
(***************************************************************************)
EXTENDS SqlQuery, PruningProofs

USE ValueAssumption, LayoutAssumption, PredicateAssumption, ClauseAssumption

EqOps    == {"=", "IN"}
RangeOps == {">=", ">", "<=", "<", "BETWEEN"}

(* Numbers are finite; ranges are on MARS dimensions or on no dimension.   *)
FiniteNumbers ==
  \A v \in Values : Parse[v] # NaN => MinF <= Parse[v] /\ Parse[v] <= MaxF

RangesOnNumeric ==
  \A w \in Clauses : \A i \in DOMAIN w : w[i].op \in RangeOps =>
    \A l \in Layouts, j \in Dim : l.dims[j] = w[i].col => l.types[j] = "Numeric"

OneLayout == \A l, m \in Layouts : l = m

(* The conjuncts that collect_filters has reached. *)
Pos == Len(clause) - Len(todo)

(* Holds, of the cell in the column of the condition. *)
HoldsAt(c, v) ==
  /\ v # Missing
  /\ IF c.op \in {"=", "IN", "other"}
       THEN c.negated <=> v \notin Range(c.args)
       ELSE /\ NaN \notin {Parse[w] : w \in Range(c.args) \cup {v}}
            /\ Compare(c, Parse[v])

LEMMA HoldsAtCell ==
  ASSUME NEW c, NEW row
  PROVE  Holds(c, row) <=> HoldsAt(c, row[c.col])
  BY DEF Holds, HoldsAt

(* The inductive invariant: what todo is, where filters come from, and how *)
(* the predicate relates to the conjuncts reached.                         *)
WalkInv ==
  /\ clause \in Clauses /\ failed \in BOOLEAN
  /\ todo \in Seq(Conjuncts)
  /\ Len(todo) <= Len(clause)
  /\ \A i \in 1 .. Len(todo) : todo[i] = clause[Pos + i]

FiltersInv ==
  /\ filters \in [Columns -> FilterType]
  /\ \A c \in Columns :
       /\ filters[c].kind = "exact" =>
            \E i \in 1 .. Pos : clause[i].col = c /\ clause[i].op \in EqOps
       /\ filters[c].kind = "range" =>
            \E i \in 1 .. Pos : clause[i].col = c /\ clause[i].op \in RangeOps

NoStricter ==
  Straight =>
    \A row \in RowSpace : (\A i \in 1 .. Pos : Holds(clause[i], row)) => matches(row)

NoLooser ==
  Supported =>
    \A row \in RowSpace : matches(row) => \A i \in 1 .. Pos : Holds(clause[i], row)

SqlInv == SegmentsInv /\ WalkInv /\ FiltersInv /\ NoStricter /\ NoLooser

-----------------------------------------------------------------------------
(* The next conjunct. *)
LEMMA NextConjunct ==
  ASSUME WalkInv, todo # << >>
  PROVE  /\ Head(todo) = clause[Pos + 1]
         /\ Pos + 1 \in DOMAIN clause
         /\ Pos \in Nat
         /\ Head(todo) \in Conjuncts
<1>1. Len(todo) \in Nat /\ Len(todo) # 0 /\ Len(clause) \in Nat
  BY DEF WalkInv
<1>2. Pos \in Nat /\ Pos + 1 \in 1 .. Len(clause)
  BY <1>1 DEF WalkInv, Pos
<1>3. 1 \in 1 .. Len(todo) /\ Head(todo) = todo[1]
  BY <1>1 DEF WalkInv
<1>4. DOMAIN clause = 1 .. Len(clause)
  BY DEF WalkInv
<1>5. Head(todo) \in Conjuncts
  BY <1>1, <1>3 DEF WalkInv
<1> QED
  BY <1>2, <1>3, <1>4, <1>5 DEF WalkInv

(* Reaching it. *)
LEMMA ReachStep ==
  ASSUME WalkInv, todo # << >>, todo' = Tail(todo), UNCHANGED <<clause, failed>>
  PROVE  WalkInv' /\ Pos' = Pos + 1
<1>1. /\ Len(todo) \in Nat /\ Len(todo) # 0 /\ Len(clause) \in Nat
      /\ todo' \in Seq(Conjuncts)
      /\ Len(todo') = Len(todo) - 1
  BY DEF WalkInv
<1>2. Pos' = Pos + 1
  BY <1>1 DEF Pos
<1>3. ASSUME NEW i \in 1 .. Len(todo')
      PROVE  todo'[i] = clause'[Pos' + i]
  <2>1. todo'[i] = todo[i + 1] /\ i + 1 \in 1 .. Len(todo)
    BY <1>1, <1>3 DEF WalkInv
  <2>2. todo[i + 1] = clause[Pos + (i + 1)]
    BY <2>1 DEF WalkInv
  <2>3. Pos + (i + 1) = Pos' + i
    BY <1>1, <1>2, <1>3 DEF Pos, WalkInv
  <2> QED
    BY <2>1, <2>2, <2>3
<1> QED
  BY <1>1, <1>2, <1>3 DEF WalkInv

(* A filter on the column of the next conjunct that is between what was    *)
(* there and the conjunct itself keeps the invariant.                      *)
LEMMA CollectStep ==
  ASSUME SqlInv, NEW m, NEW f \in FilterType,
         todo # << >>, m = Head(todo), todo' = Tail(todo), UNCHANGED <<clause, failed>>,
         SetFilter(m.col, f),
         f.kind = "exact" => m.op \in EqOps \/ filters[m.col].kind = "exact",
         f.kind = "range" => m.op \in RangeOps \/ filters[m.col].kind = "range",
         Straight =>
           \A v \in Values \cup {Missing} :
             MatchesFilter(filters[m.col], v) /\ HoldsAt(m, v) => MatchesFilter(f, v),
         Supported =>
           \A v \in Values \cup {Missing} :
             MatchesFilter(f, v) => MatchesFilter(filters[m.col], v) /\ HoldsAt(m, v)
  PROVE  SqlInv'
<1>1. /\ m = clause[Pos + 1] /\ Pos \in Nat /\ m \in Conjuncts
  BY NextConjunct DEF SqlInv
<1>2. WalkInv' /\ Pos' = Pos + 1
  BY ReachStep DEF SqlInv
<1>3. /\ UNCHANGED <<layout, segs>>
      /\ filters' = [filters EXCEPT ![m.col] = f]
      /\ filters \in [Columns -> FilterType]
      /\ m.col \in Columns
  BY <1>1 DEF SetFilter, SqlInv, FiltersInv, Conjuncts
<1>4. SegmentsInv'
  BY <1>3 DEF SqlInv, SegmentsInv
<1>5. \A i \in 1 .. Pos' : i \in 1 .. Pos \/ i = Pos + 1
  BY <1>1, <1>2
<1>6. \A i \in 1 .. Pos : i \in 1 .. Pos'
  BY <1>1, <1>2
<1>7. Pos + 1 \in 1 .. Pos'
  BY <1>1, <1>2
<1>8. FiltersInv'
  <2>1. filters' \in [Columns -> FilterType]
    BY <1>3
  <2>2. ASSUME NEW c \in Columns, filters'[c].kind = "exact"
        PROVE  \E i \in 1 .. Pos' : clause[i].col = c /\ clause[i].op \in EqOps
    <3>1. CASE c = m.col /\ m.op \in EqOps
      BY <1>1, <1>7, <3>1
    <3>2. CASE filters[c].kind = "exact"
      BY <1>6, <3>2 DEF SqlInv, FiltersInv
    <3> QED
      BY <1>3, <2>2, <3>1, <3>2
  <2>3. ASSUME NEW c \in Columns, filters'[c].kind = "range"
        PROVE  \E i \in 1 .. Pos' : clause[i].col = c /\ clause[i].op \in RangeOps
    <3>1. CASE c = m.col /\ m.op \in RangeOps
      BY <1>1, <1>7, <3>1
    <3>2. CASE filters[c].kind = "range"
      BY <1>6, <3>2 DEF SqlInv, FiltersInv
    <3> QED
      BY <1>3, <2>3, <3>1, <3>2
  <2> QED
    BY <2>1, <2>2, <2>3 DEF FiltersInv
<1>9. ASSUME NEW row \in RowSpace
      PROVE  /\ row[m.col] \in Values \cup {Missing}
             /\ Holds(m, row) <=> HoldsAt(m, row[m.col])
             /\ matches(row)' <=>
                  /\ MatchesFilter(f, row[m.col])
                  /\ \A c \in Columns \ {m.col} : MatchesFilter(filters[c], row[c])
             /\ matches(row) <=>
                  /\ MatchesFilter(filters[m.col], row[m.col])
                  /\ \A c \in Columns \ {m.col} : MatchesFilter(filters[c], row[c])
  BY <1>3, <1>9, HoldsAtCell DEF matches, RowSpace, MatchesFilter
<1>12. (Supported' <=> Supported) /\ (Straight' <=> Straight)
  BY DEF Supported, Straight
<1>10. NoStricter'
  <2> SUFFICES ASSUME Straight, NEW row \in RowSpace, \A i \in 1 .. Pos' : Holds(clause[i], row)
               PROVE  matches(row)'
    BY <1>12 DEF NoStricter
  <2>1. matches(row)
    BY <1>6 DEF SqlInv, NoStricter
  <2>2. Holds(m, row)
    BY <1>1, <1>7
  <2> QED
    BY <1>9, <2>1, <2>2
<1>11. NoLooser'
  <2> SUFFICES ASSUME Supported, NEW row \in RowSpace, matches(row)',
                      NEW i \in 1 .. Pos'
               PROVE  Holds(clause[i], row)
    BY <1>12 DEF NoLooser
  <2>1. matches(row) /\ Holds(m, row)
    BY <1>9
  <2>2. \A j \in 1 .. Pos : Holds(clause[j], row)
    BY <2>1 DEF SqlInv, NoLooser
  <2> QED
    BY <1>1, <1>5, <2>1, <2>2
<1> QED
  BY <1>2, <1>4, <1>8, <1>10, <1>11 DEF SqlInv

-----------------------------------------------------------------------------
(* The values of a function at 1 and 2. *)
LEMMA PairImage ==
  ASSUME NEW f
  PROVE  {f[i] : i \in {1, 2}} = {f[1], f[2]}
  OBVIOUS

(* What the assumptions say of the next conjunct. *)
LEMMA ConjunctFacts ==
  ASSUME SqlInv, todo # << >>, NEW m, m = Head(todo)
  PROVE  /\ m \in Conjuncts /\ m.col \in Columns
         /\ Straight =>
              /\ m.op \in {"=", "IN", "BETWEEN"} => ~m.negated
              /\ m.op \in {">=", ">", "<=", "<"} => ~m.flipped
              /\ m.op = "IN" => m.opaque = {} \/ Literals(m) = {}
         /\ Range(m.args) \in SUBSET Values
         /\ m.op \in {"=", ">=", ">", "<=", "<"} =>
              Range(m.args) = {m.args[1]} /\ m.args[1] \in Values
         /\ m.op = "BETWEEN" =>
              /\ Range(m.args) = {m.args[1], m.args[2]}
              /\ m.args[1] \in Values /\ m.args[2] \in Values
<1>1. m = clause[Pos + 1] /\ Pos + 1 \in DOMAIN clause /\ m \in Conjuncts /\ clause \in Clauses
  BY NextConjunct DEF SqlInv, WalkInv
<1>2. Straight =>
        /\ m.op \in {"=", "IN", "BETWEEN"} => ~m.negated
        /\ m.op \in {">=", ">", "<=", "<"} => ~m.flipped
        /\ m.op = "IN" => m.opaque = {} \/ Literals(m) = {}
  <2>1. Straight => Kept(m)
    BY <1>1 DEF Straight
  <2> QED
    BY <2>1 DEF Kept
<1>3. m.args \in Seq(Values) /\ m.col \in Columns
  BY <1>1 DEF Conjuncts
<1>4. /\ m.op \in {"=", ">=", ">", "<=", "<"} => Len(m.args) = 1
      /\ m.op = "BETWEEN" => Len(m.args) = 2
  BY <1>1
<1>5. Range(m.args) = {m.args[i] : i \in 1 .. Len(m.args)}
  BY <1>3 DEF Range
<1>6. Range(m.args) \in SUBSET Values
  BY <1>3, <1>5
<1>7. m.op \in {"=", ">=", ">", "<=", "<"} =>
        Range(m.args) = {m.args[1]} /\ m.args[1] \in Values
  BY <1>3, <1>4, <1>5
<1>8. m.op = "BETWEEN" =>
        /\ Range(m.args) = {m.args[1], m.args[2]}
        /\ m.args[1] \in Values /\ m.args[2] \in Values
  <2> SUFFICES ASSUME m.op = "BETWEEN"
               PROVE  /\ Range(m.args) = {m.args[1], m.args[2]}
                      /\ m.args[1] \in Values /\ m.args[2] \in Values
    OBVIOUS
  <2>1. 1 .. Len(m.args) = {1, 2}
    <3>1. 1 .. 2 = {1, 2}
      OBVIOUS
    <3> QED
      BY <1>4, <3>1
  <2>2. m.args[1] \in Values /\ m.args[2] \in Values
    <3>1. Len(m.args) = 2
      BY <1>4
    <3> QED
      BY <1>3, <3>1
  <2>3. Range(m.args) = {m.args[i] : i \in {1, 2}}
    BY <1>5, <2>1, Zenon
  <2>4. {m.args[i] : i \in {1, 2}} = {m.args[1], m.args[2]}
    BY PairImage
  <2> QED
    BY <2>2, <2>3, <2>4, Zenon
<1> QED
  BY <1>1, <1>2, <1>3, <1>6, <1>7, <1>8

(* In a supported clause no earlier condition is on the same column, unless *)
(* both are bounds.                                                        *)
LEMMA SupportedFacts ==
  ASSUME SqlInv, Supported, todo # << >>, NEW m, m = Head(todo)
  PROVE  /\ m.op \in {"=", "IN", ">=", "<=", "BETWEEN"}
         /\ m.op \notin {"=", "IN"} => \A v \in Range(m.args) : Parse[v] # NaN
         /\ ~m.negated /\ ~m.flipped /\ m.opaque = {}
         /\ m.op \notin {">=", "<="} => filters[m.col].kind = "none"
         /\ m.op \in {">=", "<="} => filters[m.col].kind # "exact"
<1>1. /\ m = clause[Pos + 1] /\ Pos + 1 \in DOMAIN clause /\ Pos \in Nat
      /\ m \in Conjuncts
  BY NextConjunct DEF SqlInv
<1>2. m.col \in Columns /\ filters[m.col].kind \in {"none", "exact", "range"}
  BY <1>1 DEF SqlInv, FiltersInv, FilterType, Conjuncts
<1>3. /\ m.op \in {"=", "IN", ">=", "<=", "BETWEEN"}
      /\ m.op \notin {"=", "IN"} => \A v \in Range(m.args) : Parse[v] # NaN
      /\ ~m.negated /\ ~m.flipped /\ m.opaque = {}
  BY <1>1 DEF Supported
<1>4. ASSUME NEW i \in 1 .. Pos, clause[i].col = m.col
      PROVE  {clause[i].op, m.op} \subseteq {">=", "<="}
  <2>1. i \in DOMAIN clause /\ i # Pos + 1
    BY <1>1, <1>4 DEF SqlInv, WalkInv
  <2> QED
    BY <1>1, <1>4, <2>1 DEF Supported
<1>5. filters[m.col].kind # "exact"
  BY <1>2, <1>4 DEF SqlInv, FiltersInv, EqOps
<1>6. filters[m.col].kind = "range" => m.op \in {">=", "<="}
  BY <1>2, <1>4 DEF SqlInv, FiltersInv
<1> QED
  BY <1>2, <1>3, <1>5, <1>6

(* A literal as a bound. *)
LEMMA BoundType ==
  ASSUME NEW v \in Values, NEW n \in Int
  PROVE  BoundOr(v, n) \in Int /\ (Parse[v] # NaN => BoundOr(v, n) = Parse[v])
  BY DEF BoundOr

(* What the filters match, of a cell. *)
LEMMA MatchTypes ==
  ASSUME NEW v
  PROVE  /\ \A S : MatchesFilter(ExactFilter(S), v) <=> v \in S
         /\ \A a, b : MatchesFilter(RangeFilter(a, b), v) <=>
              v # Missing /\ Parse[v] # NaN /\ a <= Parse[v] /\ Parse[v] <= b
         /\ \A f : f.kind = "none" => MatchesFilter(f, v)
  BY DEF MatchesFilter, ExactFilter, RangeFilter

(* A supported clause is straight. *)
LEMMA SupportedIsStraight == Supported => Straight
<1> SUFFICES ASSUME Supported PROVE Straight
  OBVIOUS
<1>1. \A i \in DOMAIN clause :
        ~clause[i].negated /\ ~clause[i].flipped /\ clause[i].opaque = {}
  BY DEF Supported
<1>2. \A c : ~c.negated /\ ~c.flipped /\ c.opaque = {} => Kept(c)
  BY DEF Kept
<1> QED
  BY <1>1, <1>2, Zenon DEF Straight

(* The literals of a list are all its items when none is opaque. *)
LEMMA LiteralFacts ==
  ASSUME NEW m \in Conjuncts
  PROVE  /\ Literals(m) \in SUBSET Range(m.args)
         /\ m.opaque = {} => Literals(m) = Range(m.args)
  BY DEF Literals, Range

LEMMA EqStep ==
  ASSUME SqlInv, CollectEq \/ CollectInList
  PROVE  SqlInv'
<1> DEFINE m == Head(todo)
           S == Literals(m)
           f == ExactFilter(S)
<1>1. todo # << >> /\ todo' = Tail(todo) /\ UNCHANGED <<clause, failed>> /\ m.op \in EqOps
      /\ (m.op = "=" => m.opaque = {}) /\ (m.op = "IN" => S # {})
  BY DEF CollectEq, CollectInList, Reach, EqOps
<1>2. /\ m \in Conjuncts /\ m.col \in Columns
      /\ Range(m.args) \in SUBSET Values
      /\ m.op = "=" => Range(m.args) = {m.args[1]}
      /\ Straight => ~m.negated /\ (m.op = "IN" => m.opaque = {} \/ S = {})
  BY <1>1, ConjunctFacts DEF EqOps
<1>3. /\ S \in SUBSET Range(m.args) /\ (m.opaque = {} => S = Range(m.args))
  BY <1>2, LiteralFacts
<1>4. SetFilter(m.col, f)
  BY <1>1, <1>2, <1>3 DEF CollectEq, CollectInList, Reach, add_filter, EqOps
<1>5. f \in FilterType /\ f.kind = "exact"
  BY <1>2, <1>3, FilterTypes
<1>6. ASSUME Straight
      PROVE  \A v : HoldsAt(m, v) <=> v # Missing /\ v \in S
  <2> SUFFICES ASSUME NEW v
               PROVE  HoldsAt(m, v) <=> v # Missing /\ v \in S
    OBVIOUS
  <2>1. m.op \in {"=", "IN", "other"} /\ ~m.negated
    BY <1>1, <1>2, <1>6 DEF EqOps
  <2>2. S = Range(m.args)
    BY <1>1, <1>2, <1>3, <1>6 DEF EqOps
  <2>3. m.negated \in BOOLEAN
    BY <1>2 DEF Conjuncts
  <2> HIDE DEF m, S
  <2> QED
    BY <2>1, <2>2, <2>3 DEF HoldsAt
<1>7. \A v : MatchesFilter(f, v) <=> v \in S
  BY MatchTypes
<1>8. Supported => filters[m.col].kind = "none"
  BY <1>1, SupportedFacts DEF EqOps
<1>9. \A v : MatchesFilter(f, v) => v # Missing
  BY <1>2, <1>3, <1>7
<1> HIDE DEF m, f, S
<1>10. \A v : Supported /\ MatchesFilter(f, v) => MatchesFilter(filters[m.col], v) /\ HoldsAt(m, v)
  BY <1>6, <1>7, <1>8, <1>9, MatchTypes, SupportedIsStraight
<1>11. \A v : Straight /\ HoldsAt(m, v) => MatchesFilter(f, v)
  BY <1>6, <1>7
<1> QED
  BY <1>1, <1>4, <1>5, <1>10, <1>11, CollectStep DEF m

LEMMA BetweenStep ==
  ASSUME SqlInv, CollectBetween
  PROVE  SqlInv'
<1> DEFINE m == Head(todo)
           a == m.args[1]
           b == m.args[2]
           f == RangeFilter(BoundOr(a, MinF), BoundOr(b, MaxF))
<1>1. todo # << >> /\ todo' = Tail(todo) /\ UNCHANGED <<clause, failed>> /\ m.op = "BETWEEN"
      /\ SetFilter(m.col, f)
  BY DEF CollectBetween, Reach, add_range_filter
<1>2. /\ m \in Conjuncts /\ m.col \in Columns /\ m.negated \in BOOLEAN
      /\ (Straight => ~m.negated)
      /\ Range(m.args) = {a, b} /\ a \in Values /\ b \in Values
  BY <1>1, ConjunctFacts DEF Conjuncts
<1>3. BoundOr(a, MinF) \in Int /\ BoundOr(b, MaxF) \in Int
  BY <1>2, BoundType
<1>4. f \in FilterType /\ f.kind = "range"
  BY <1>3, FilterTypes DEF RangeFilter
<1>5. ASSUME Straight, NEW v \in Values \cup {Missing}
      PROVE  HoldsAt(m, v) <=>
               /\ v # Missing /\ Parse[v] # NaN /\ Parse[a] # NaN /\ Parse[b] # NaN
               /\ Parse[a] <= Parse[v] /\ Parse[v] <= Parse[b]
  <2> HIDE DEF m
  <2>1. NaN \notin {Parse[w] : w \in Range(m.args) \cup {v}}
          <=> Parse[v] # NaN /\ Parse[a] # NaN /\ Parse[b] # NaN
    <3> HIDE DEF a, b
    <3> QED
      BY <1>2
  <2>2. Compare(m, Parse[v]) <=> Parse[a] <= Parse[v] /\ Parse[v] <= Parse[b]
    BY <1>1, <1>2, <1>5 DEF Compare
  <2>3. HoldsAt(m, v) <=>
          /\ v # Missing
          /\ NaN \notin {Parse[w] : w \in Range(m.args) \cup {v}}
          /\ Compare(m, Parse[v])
    BY <1>1 DEF HoldsAt
  <2> QED
    BY <2>1, <2>2, <2>3
<1>6. ASSUME NEW v \in Values \cup {Missing}
      PROVE  MatchesFilter(f, v) <=>
               /\ v # Missing /\ Parse[v] # NaN
               /\ BoundOr(a, MinF) <= Parse[v] /\ Parse[v] <= BoundOr(b, MaxF)
  BY MatchTypes
<1>7. /\ Parse[a] # NaN => BoundOr(a, MinF) = Parse[a]
      /\ Parse[b] # NaN => BoundOr(b, MaxF) = Parse[b]
  BY <1>2, BoundType
<1>8. Supported => filters[m.col].kind = "none" /\ Parse[a] # NaN /\ Parse[b] # NaN
  BY <1>1, <1>2, SupportedFacts
<1> HIDE DEF m, a, b, f
<1>9. Straight => \A v \in Values \cup {Missing} : HoldsAt(m, v) => MatchesFilter(f, v)
  BY <1>5, <1>6, <1>7
<1>10. \A v \in Values \cup {Missing} :
         Supported /\ MatchesFilter(f, v) => MatchesFilter(filters[m.col], v) /\ HoldsAt(m, v)
  BY <1>5, <1>6, <1>7, <1>8, MatchTypes, SupportedIsStraight
<1> QED
  BY <1>1, <1>4, <1>9, <1>10, CollectStep DEF m, RangeOps

LEMMA OtherStep ==
  ASSUME SqlInv, CollectNothing
  PROVE  SqlInv'
<1> DEFINE m == Head(todo)
           f == filters[m.col]
<1>1. /\ todo # << >> /\ todo' = Tail(todo) /\ UNCHANGED <<clause, failed>>
      /\ m.op \in {"other", "IN", "BETWEEN"}
      /\ m.op = "IN" => Literals(m) = {}
      /\ m.op = "BETWEEN" => m.opaque # {}
      /\ UNCHANGED <<layout, segs, filters>>
  BY DEF CollectNothing, Reach, vars
<1>2. m.col \in Columns /\ filters \in [Columns -> FilterType]
  BY <1>1, ConjunctFacts DEF SqlInv, FiltersInv
<1>3. SetFilter(m.col, f)
  BY <1>1, <1>2 DEF SetFilter
<1>4. ~Supported
  <2> SUFFICES ASSUME Supported PROVE FALSE
    OBVIOUS
  <2>1. m.op = "IN" /\ Literals(m) = {} /\ m.opaque = {}
    BY <1>1, SupportedFacts
  <2>2. m \in Conjuncts
    BY <1>1, ConjunctFacts
  <2>3. 1 \in DOMAIN m.args
    BY <2>2 DEF Conjuncts
  <2>4. m.args[1] \in Literals(m)
    BY <2>1, <2>3, Zenon DEF Literals
  <2> QED
    BY <2>1, <2>4
<1> QED
  BY <1>1, <1>2, <1>3, <1>4, CollectStep

(* An error ends the walk. *)
LEMMA FailStep ==
  ASSUME SqlInv, CollectFails
  PROVE  SqlInv'
<1>1. UNCHANGED <<layout, segs, filters, clause, todo>> /\ failed' = TRUE
  BY DEF CollectFails, vars
<1>2. Pos' = Pos /\ SegmentsInv'
  BY <1>1 DEF Pos, SqlInv, SegmentsInv
<1>3. WalkInv' /\ FiltersInv'
  BY <1>1, <1>2 DEF SqlInv, WalkInv, FiltersInv
<1>4. \A row \in RowSpace : matches(row)' = matches(row)
  BY <1>1 DEF matches
<1>5. (Supported' <=> Supported) /\ (Straight' <=> Straight)
  BY <1>1 DEF Supported, Straight
<1>6. NoStricter' /\ NoLooser'
  BY <1>1, <1>2, <1>4, <1>5 DEF SqlInv, NoStricter, NoLooser
<1> QED
  BY <1>2, <1>3, <1>6 DEF SqlInv

LEMMA MinStep ==
  ASSUME SqlInv, FiniteNumbers, CollectMin
  PROVE  SqlInv'
<1> DEFINE m == Head(todo)
           a == m.args[1]
           old == filters[m.col]
           b == BoundOr(a, MinF)
           f == CASE old.kind = "none"  -> RangeFilter(b, MaxF)
                  [] old.kind = "range" -> RangeFilter(Larger(old.min, b), old.max)
                  [] OTHER              -> old
<1>1. todo # << >> /\ todo' = Tail(todo) /\ UNCHANGED <<clause, failed>> /\ m.op \in {">=", ">"}
      /\ SetFilter(m.col, f)
  BY DEF CollectMin, Reach, add_min_filter
<1>2. /\ m \in Conjuncts /\ m.col \in Columns /\ m.flipped \in BOOLEAN
      /\ (Straight => ~m.flipped)
      /\ Range(m.args) = {a} /\ a \in Values
  <2>1. /\ m \in Conjuncts /\ m.col \in Columns /\ (Straight => ~m.flipped)
        /\ Range(m.args) = {a} /\ a \in Values
    BY <1>1, ConjunctFacts
  <2>2. m.flipped \in BOOLEAN
    BY <2>1 DEF Conjuncts
  <2> QED
    BY <2>1, <2>2
<1>3. b \in Int /\ (Parse[a] # NaN => b = Parse[a])
  BY <1>2, BoundType
<1>4. old \in FilterType /\ old.kind \in {"none", "exact", "range"}
      /\ old.min \in Int /\ old.max \in Int
  BY <1>2 DEF SqlInv, FiltersInv, FilterType
<1>5. ASSUME NEW v \in Values \cup {Missing}
      PROVE  HoldsAt(m, v) <=>
               /\ v # Missing /\ Parse[v] # NaN /\ Parse[a] # NaN
               /\ Compare(m, Parse[v])
  <2> HIDE DEF m
  <2>1. NaN \notin {Parse[w] : w \in Range(m.args) \cup {v}}
          <=> Parse[v] # NaN /\ Parse[a] # NaN
    <3> HIDE DEF a
    <3> QED
      BY <1>2
  <2> QED
    BY <1>1, <2>1 DEF HoldsAt
<1>6. ASSUME Straight, NEW v \in Values \cup {Missing}
      PROVE  /\ HoldsAt(m, v) =>
                  /\ v # Missing /\ Parse[v] # NaN
                  /\ b <= Parse[v] /\ Parse[v] <= MaxF
             /\ m.op = ">=" /\ v # Missing /\ Parse[v] # NaN /\ Parse[a] # NaN
                  /\ b <= Parse[v] => HoldsAt(m, v)
  <2>1. Compare(m, Parse[v]) <=> IF m.op = ">=" THEN Parse[v] >= Parse[a] ELSE Parse[v] > Parse[a]
    BY <1>1, <1>2, <1>6 DEF Compare
  <2>2. v # Missing /\ Parse[v] # NaN =>
          Parse[v] \in Int /\ MinF <= Parse[v] /\ Parse[v] <= MaxF
    BY DEF FiniteNumbers
  <2>3. Parse[a] # NaN => Parse[a] \in Int
    BY <1>2
  <2> HIDE DEF m, a, b
  <2> QED
    BY <1>3, <1>5, <2>1, <2>2, <2>3
<1>7. \A S, g, h : g \in Int /\ h \in Int => RangeFilter(g, h) \in FilterType
  BY FilterTypes
<1>8. \/ old.kind = "none" /\ f = RangeFilter(b, MaxF)
      \/ old.kind = "range" /\ f = RangeFilter(Larger(old.min, b), old.max)
      \/ old.kind = "exact" /\ f = old
  BY <1>4
<1> HIDE DEF m, a, b, f, old
<1>9. f \in FilterType
  BY <1>3, <1>4, <1>7, <1>8 DEF Larger, Smaller
<1>10. /\ f.kind = "exact" => old.kind = "exact"
       /\ f.kind = "range" => m.op \in RangeOps
  BY <1>1, <1>8 DEF RangeFilter, RangeOps
<1>11. ASSUME Straight, NEW v \in Values \cup {Missing}, MatchesFilter(old, v), HoldsAt(m, v)
       PROVE  MatchesFilter(f, v)
  <2>1. v # Missing /\ Parse[v] # NaN /\ b <= Parse[v] /\ Parse[v] <= MaxF
    BY <1>6, <1>11
  <2>2. old.kind = "range" => old.min <= Parse[v] /\ Parse[v] <= old.max
    BY <1>11 DEF MatchesFilter
  <2> QED
    BY <1>3, <1>4, <1>8, <1>11, <2>1, <2>2, MatchTypes DEF Larger, Smaller
<1>12. ASSUME Supported, NEW v \in Values \cup {Missing}, MatchesFilter(f, v)
       PROVE  MatchesFilter(old, v) /\ HoldsAt(m, v)
  <2>0. Straight
    BY <1>12, SupportedIsStraight
  <2>1. m.op = ">=" /\ Parse[a] # NaN /\ old.kind # "exact"
    <3>1. /\ m.op \in {"=", "IN", ">=", "<=", "BETWEEN"}
          /\ \A w \in Range(m.args) : Parse[w] # NaN
      BY <1>1, <1>12, SupportedFacts DEF m
    <3>2. old.kind # "exact"
      BY <1>1, <1>12, <3>1, SupportedFacts DEF m, old
    <3> QED
      BY <1>1, <1>2, <3>1, <3>2
  <2>2. CASE old.kind = "none"
    BY <1>6, <1>8, <1>12, <2>0, <2>1, <2>2, MatchTypes
  <2>3. CASE old.kind = "range"
    <3>1. v # Missing /\ Parse[v] # NaN /\ Larger(old.min, b) <= Parse[v] /\ Parse[v] <= old.max
      BY <1>8, <1>12, <2>3, MatchTypes
    <3>2. Parse[v] \in Int
      BY <3>1
    <3>3. b <= Parse[v] /\ old.min <= Parse[v] /\ Parse[v] <= old.max
      BY <1>3, <1>4, <3>1, <3>2 DEF Larger, Smaller
    <3> QED
      BY <1>4, <1>6, <2>0, <2>1, <2>3, <3>1, <3>3 DEF MatchesFilter
  <2> QED
    BY <1>4, <2>1, <2>2, <2>3
<1> QED
  BY <1>1, <1>9, <1>10, <1>11, <1>12, CollectStep DEF m, old

LEMMA MaxStep ==
  ASSUME SqlInv, FiniteNumbers, CollectMax
  PROVE  SqlInv'
<1> DEFINE m == Head(todo)
           a == m.args[1]
           old == filters[m.col]
           b == BoundOr(a, MaxF)
           f == CASE old.kind = "none"  -> RangeFilter(MinF, b)
                  [] old.kind = "range" -> RangeFilter(old.min, Smaller(old.max, b))
                  [] OTHER              -> old
<1>1. todo # << >> /\ todo' = Tail(todo) /\ UNCHANGED <<clause, failed>> /\ m.op \in {"<=", "<"}
      /\ SetFilter(m.col, f)
  BY DEF CollectMax, Reach, add_max_filter
<1>2. /\ m \in Conjuncts /\ m.col \in Columns /\ m.flipped \in BOOLEAN
      /\ (Straight => ~m.flipped)
      /\ Range(m.args) = {a} /\ a \in Values
  <2>1. /\ m \in Conjuncts /\ m.col \in Columns /\ (Straight => ~m.flipped)
        /\ Range(m.args) = {a} /\ a \in Values
    BY <1>1, ConjunctFacts
  <2>2. m.flipped \in BOOLEAN
    BY <2>1 DEF Conjuncts
  <2> QED
    BY <2>1, <2>2
<1>3. b \in Int /\ (Parse[a] # NaN => b = Parse[a])
  BY <1>2, BoundType
<1>4. old \in FilterType /\ old.kind \in {"none", "exact", "range"}
      /\ old.min \in Int /\ old.max \in Int
  BY <1>2 DEF SqlInv, FiltersInv, FilterType
<1>5. ASSUME NEW v \in Values \cup {Missing}
      PROVE  HoldsAt(m, v) <=>
               /\ v # Missing /\ Parse[v] # NaN /\ Parse[a] # NaN
               /\ Compare(m, Parse[v])
  <2> HIDE DEF m
  <2>1. NaN \notin {Parse[w] : w \in Range(m.args) \cup {v}}
          <=> Parse[v] # NaN /\ Parse[a] # NaN
    <3> HIDE DEF a
    <3> QED
      BY <1>2
  <2> QED
    BY <1>1, <2>1 DEF HoldsAt
<1>6. ASSUME Straight, NEW v \in Values \cup {Missing}
      PROVE  /\ HoldsAt(m, v) =>
                  /\ v # Missing /\ Parse[v] # NaN
                  /\ Parse[v] <= b /\ MinF <= Parse[v]
             /\ m.op = "<=" /\ v # Missing /\ Parse[v] # NaN /\ Parse[a] # NaN
                  /\ Parse[v] <= b => HoldsAt(m, v)
  <2>1. Compare(m, Parse[v]) <=> IF m.op = "<=" THEN Parse[v] <= Parse[a] ELSE Parse[v] < Parse[a]
    BY <1>1, <1>2, <1>6 DEF Compare
  <2>2. v # Missing /\ Parse[v] # NaN =>
          Parse[v] \in Int /\ MinF <= Parse[v] /\ Parse[v] <= MaxF
    BY DEF FiniteNumbers
  <2>3. Parse[a] # NaN => Parse[a] \in Int
    BY <1>2
  <2> HIDE DEF m, a, b
  <2> QED
    BY <1>3, <1>5, <2>1, <2>2, <2>3
<1>7. \A S, g, h : g \in Int /\ h \in Int => RangeFilter(g, h) \in FilterType
  BY FilterTypes
<1>8. \/ old.kind = "none" /\ f = RangeFilter(MinF, b)
      \/ old.kind = "range" /\ f = RangeFilter(old.min, Smaller(old.max, b))
      \/ old.kind = "exact" /\ f = old
  BY <1>4
<1> HIDE DEF m, a, b, f, old
<1>9. f \in FilterType
  BY <1>3, <1>4, <1>7, <1>8 DEF Larger, Smaller
<1>10. /\ f.kind = "exact" => old.kind = "exact"
       /\ f.kind = "range" => m.op \in RangeOps
  BY <1>1, <1>8 DEF RangeFilter, RangeOps
<1>11. ASSUME Straight, NEW v \in Values \cup {Missing}, MatchesFilter(old, v), HoldsAt(m, v)
       PROVE  MatchesFilter(f, v)
  <2>1. v # Missing /\ Parse[v] # NaN /\ Parse[v] <= b /\ MinF <= Parse[v]
    BY <1>6, <1>11
  <2>2. old.kind = "range" => old.min <= Parse[v] /\ Parse[v] <= old.max
    BY <1>11 DEF MatchesFilter
  <2> QED
    BY <1>3, <1>4, <1>8, <1>11, <2>1, <2>2, MatchTypes DEF Larger, Smaller
<1>12. ASSUME Supported, NEW v \in Values \cup {Missing}, MatchesFilter(f, v)
       PROVE  MatchesFilter(old, v) /\ HoldsAt(m, v)
  <2>0. Straight
    BY <1>12, SupportedIsStraight
  <2>1. m.op = "<=" /\ Parse[a] # NaN /\ old.kind # "exact"
    <3>1. /\ m.op \in {"=", "IN", ">=", "<=", "BETWEEN"}
          /\ \A w \in Range(m.args) : Parse[w] # NaN
      BY <1>1, <1>12, SupportedFacts DEF m
    <3>2. old.kind # "exact"
      BY <1>1, <1>12, <3>1, SupportedFacts DEF m, old
    <3> QED
      BY <1>1, <1>2, <3>1, <3>2
  <2>2. CASE old.kind = "none"
    BY <1>6, <1>8, <1>12, <2>0, <2>1, <2>2, MatchTypes
  <2>3. CASE old.kind = "range"
    <3>1. v # Missing /\ Parse[v] # NaN /\ old.min <= Parse[v] /\ Parse[v] <= Smaller(old.max, b)
      BY <1>8, <1>12, <2>3, MatchTypes
    <3>2. Parse[v] \in Int
      BY <3>1
    <3>3. Parse[v] <= b /\ old.min <= Parse[v] /\ Parse[v] <= old.max
      BY <1>3, <1>4, <3>1, <3>2 DEF Larger, Smaller
    <3> QED
      BY <1>4, <1>6, <2>0, <2>1, <2>3, <3>1, <3>3 DEF MatchesFilter
  <2> QED
    BY <1>4, <2>1, <2>2, <2>3
<1> QED
  BY <1>1, <1>9, <1>10, <1>11, <1>12, CollectStep DEF m, old

(* Rows written during the walk do not concern it. *)
LEMMA IngestStep ==
  ASSUME SqlInv, OneLayout, Ingest
  PROVE  SqlInv'
<1>1. PICK row \in TableRows : \E stored \in ReadBack(row) : WriteRow(row, stored)
  BY DEF Ingest
<1>2. UNCHANGED <<layout, filters, clause, todo, failed>>
  BY <1>1 DEF Ingest, WriteRow
<1>3. SegmentsInv'
  BY <1>1, <1>2, WriteStep DEF SqlInv, SegmentsInv, OneLayout
<1>4. Pos' = Pos
  BY <1>2 DEF Pos
<1>5. WalkInv' /\ FiltersInv'
  BY <1>2, <1>4 DEF SqlInv, WalkInv, FiltersInv
<1>6. \A row2 \in RowSpace : matches(row2)' = matches(row2)
  BY <1>2 DEF matches
<1>7. (Supported' <=> Supported) /\ (Straight' <=> Straight)
  BY <1>2 DEF Supported, Straight
<1>8. NoStricter' /\ NoLooser'
  BY <1>2, <1>4, <1>6, <1>7 DEF SqlInv, NoStricter, NoLooser
<1> QED
  BY <1>3, <1>5, <1>8 DEF SqlInv

LEMMA IdleStep ==
  ASSUME SqlInv, UNCHANGED sqlVars
  PROVE  SqlInv'
<1>1. UNCHANGED <<layout, segs, filters, clause, todo, failed>>
  BY DEF sqlVars
<1>2. Pos' = Pos /\ SegmentsInv'
  BY <1>1 DEF Pos, SqlInv, SegmentsInv
<1>3. WalkInv' /\ FiltersInv'
  BY <1>1, <1>2 DEF SqlInv, WalkInv, FiltersInv
<1>4. \A row \in RowSpace : matches(row)' = matches(row)
  BY <1>1 DEF matches
<1>5. (Supported' <=> Supported) /\ (Straight' <=> Straight)
  BY <1>1 DEF Supported, Straight
<1>6. NoStricter' /\ NoLooser'
  BY <1>1, <1>2, <1>4, <1>5 DEF SqlInv, NoStricter, NoLooser
<1> QED
  BY <1>2, <1>3, <1>6 DEF SqlInv

LEMMA SqlInvInit ==
  ASSUME SqlInit
  PROVE  SqlInv
<1>1. /\ layout \in Layouts /\ segs = << >> /\ clause \in Clauses /\ todo = clause /\ failed = FALSE
      /\ filters = [c \in Columns |-> NoFilter]
  BY DEF SqlInit, Init
<1>2. clause \in Seq(Conjuncts) /\ Len(clause) \in Nat /\ Pos = 0
  BY <1>1 DEF Pos
<1>3. SegmentsInv
  BY <1>1 DEF SegmentsInv
<1>4. WalkInv
  <2>1. failed \in BOOLEAN
    BY <1>1, Zenon
  <2> QED
    BY <1>1, <1>2, <2>1 DEF WalkInv
<1>5. FiltersInv
  BY <1>1, FilterTypes DEF FiltersInv, NoFilter
<1>6. NoStricter
  BY <1>1 DEF NoStricter, matches, MatchesFilter, NoFilter
<1>7. NoLooser
  BY <1>2 DEF NoLooser
<1> QED
  BY <1>3, <1>4, <1>5, <1>6, <1>7 DEF SqlInv

(* The invariant holds in every reachable state. *)
THEOREM SqlInvariant ==
  ASSUME OneLayout, FiniteNumbers
  PROVE  SqlSpec => []SqlInv
<1>1. SqlInit => SqlInv
  BY SqlInvInit
<1>2. SqlInv /\ [SqlNext]_sqlVars => SqlInv'
  BY EqStep, MinStep, MaxStep, BetweenStep, OtherStep, FailStep, IngestStep, IdleStep DEF SqlNext
<1> QED
  BY <1>1, <1>2, PTL DEF SqlSpec

(* A stored row that matches the predicate is in the answer, whichever     *)
(* segment comes first.                                                    *)
LEMMA MatchingRowAnswered ==
  ASSUME SqlInv, OneLayout, RangesOnNumeric,
         NEW first \in DOMAIN segs, NEW row \in StoredRows, matches(row)
  PROVE  row \in RowSpace /\ row \in Answer(first)
<1>1. PICK k \in DOMAIN segs : row \in segs[k].rows
  BY DEF StoredRows
<1> DEFINE l == segs[k].layout
<1>2. /\ SegmentCovers(segs[k]) /\ SegmentCovers(segs[first])
      /\ l \in Layouts /\ segs[first].layout = l /\ row \in RowSpace
  BY <1>1 DEF SqlInv, SegmentsInv, SegmentCovers, OneLayout
<1> HIDE DEF l
<1>3. RangesAreNumeric(l)
  <2> SUFFICES ASSUME NEW j \in Dim, filters[l.dims[j]].kind = "range"
               PROVE  l.types[j] = "Numeric"
    BY DEF RangesAreNumeric
  <2>1. l.dims[j] \in Columns
    BY <1>2
  <2>2. PICK i \in 1 .. Pos : clause[i].col = l.dims[j] /\ clause[i].op \in RangeOps
    BY <2>1 DEF SqlInv, FiltersInv
  <2>3. i \in DOMAIN clause /\ clause \in Clauses
    BY DEF SqlInv, WalkInv, Pos
  <2> QED
    BY <1>2, <2>2, <2>3 DEF RangesOnNumeric
<1>4. filters \in [Columns -> FilterType]
  BY DEF SqlInv, FiltersInv
<1>5. /\ compute_bitset_index(row, l) \in build_mask(l).bits
      /\ build_mask(l).size = BitsetSize(l)
  BY <1>2, <1>3, <1>4, MaskCoversRow
<1>6. /\ compute_bitset_index(row, l) \in segs[k].bitset.bits
      /\ segs[k].bitset.size = BitsetSize(l)
  BY <1>1, <1>2 DEF SegmentCovers, l
<1>7. Intersects(segs[k].bitset, build_mask(l))
  BY <1>5, <1>6 DEF Intersects
<1>8. k \in filter_segments(first)
  BY <1>2, <1>7 DEF filter_segments
<1> QED
  BY <1>1, <1>2, <1>8 DEF Answer

(* When the walk has ended, every conjunct has been reached. *)
LEMMA WalkEnded ==
  ASSUME SqlInv, todo = << >>
  PROVE  1 .. Pos = DOMAIN clause
  BY DEF SqlInv, WalkInv, Pos

(* Whatever the table, no row a Straight clause selects is missing from    *)
(* the answer: under one layout, with ranges on MARS dimensions only.      *)
THEOREM SqlLosesNoRow ==
  ASSUME OneLayout, FiniteNumbers, RangesOnNumeric
  PROVE  SqlSpec => []NoRowLost
<1>1. SqlInv => NoRowLost
  <2> SUFFICES ASSUME SqlInv, Straight, todo = << >>, NEW first \in DOMAIN segs, NEW row \in Selected
               PROVE  row \in Answer(first)
    BY DEF NoRowLost, Collected
  <2>1. row \in StoredRows /\ \A i \in 1 .. Pos : Holds(clause[i], row)
    BY WalkEnded DEF Selected
  <2>2. row \in RowSpace
    BY <2>1 DEF StoredRows, SqlInv, SegmentsInv, SegmentCovers
  <2>3. matches(row)
    BY <2>1, <2>2 DEF SqlInv, NoStricter
  <2> QED
    BY <2>1, <2>3, MatchingRowAnswered
<1> QED
  BY <1>1, SqlInvariant, PTL

(* "All of the following return exact results": the supported forms do.    *)
THEOREM SupportedIsExact ==
  ASSUME OneLayout, FiniteNumbers, RangesOnNumeric
  PROVE  SqlSpec => []ExactResults
<1>1. SqlInv => ExactResults
  <2> SUFFICES ASSUME SqlInv, todo = << >>, Supported, NEW first \in DOMAIN segs
               PROVE  Answer(first) = Selected
    BY DEF ExactResults, Collected
  <2>1. \A row \in StoredRows : row \in RowSpace
    BY DEF StoredRows, SqlInv, SegmentsInv, SegmentCovers
  <2>2. ASSUME NEW row \in Selected PROVE row \in Answer(first)
    <3>1. row \in StoredRows /\ \A i \in 1 .. Pos : Holds(clause[i], row)
      BY WalkEnded DEF Selected
    <3>2. matches(row)
      BY <2>1, <3>1, SupportedIsStraight DEF SqlInv, NoStricter
    <3> QED
      BY <3>1, <3>2, MatchingRowAnswered
  <2>3. ASSUME NEW row \in Answer(first) PROVE row \in Selected
    <3>1. row \in StoredRows /\ matches(row)
      BY DEF Answer, StoredRows, filter_segments
    <3>2. \A i \in 1 .. Pos : Holds(clause[i], row)
      BY <2>1, <3>1 DEF SqlInv, NoLooser
    <3> QED
      BY <3>1, <3>2, WalkEnded DEF Selected
  <2> QED
    BY <2>2, <2>3
<1> QED
  BY <1>1, SqlInvariant, PTL

(* The state has the types of the clause, its unread suffix, the metadata  *)
(* and the predicate.                                                      *)
THEOREM SqlTypes ==
  ASSUME OneLayout, FiniteNumbers
  PROVE  SqlSpec => []SqlTypeOK
<1>1. SqlInv => SqlTypeOK
  <2> SUFFICES ASSUME SqlInv PROVE SqlTypeOK
    OBVIOUS
  <2>1. TypeOK
    BY DEF SqlInv, SegmentsInv, SegmentCovers, FiltersInv, TypeOK
  <2>2. Pos \in 0 .. Len(clause) /\ todo = SubSeq(clause, Pos + 1, Len(clause))
    <3>1. /\ Len(todo) \in Nat /\ Len(clause) \in Nat /\ Len(todo) <= Len(clause)
          /\ clause \in Seq(Conjuncts) /\ todo \in Seq(Conjuncts)
      BY DEF SqlInv, WalkInv
    <3>2. Pos \in Nat /\ Pos \in 0 .. Len(clause) /\ Len(clause) - Pos = Len(todo)
      BY <3>1 DEF Pos
    <3> DEFINE rest == SubSeq(clause, Pos + 1, Len(clause))
    <3>3. /\ rest \in Seq(Conjuncts) /\ Len(rest) = Len(todo)
          /\ \A i \in 1 .. Len(todo) : rest[i] = clause[Pos + i]
      BY <3>1, <3>2
    <3>4. \A i \in 1 .. Len(todo) : rest[i] = todo[i]
      BY <3>3 DEF SqlInv, WalkInv
    <3> HIDE DEF rest
    <3>5. rest = todo
      BY <3>1, <3>3, <3>4
    <3> QED
      BY <3>2, <3>5 DEF rest
  <2> QED
    BY <2>1, <2>2 DEF SqlTypeOK, SqlInv, WalkInv
<1> QED
  BY <1>1, SqlInvariant, PTL
=============================================================================

------------------------------ MODULE SqlQuery ------------------------------
(***************************************************************************)
(* From a WHERE clause to the rows of the answer: query/sql.rs walks the   *)
(* conjuncts of the clause and adds a filter for each to a QueryPredicate; *)
(* the predicate prunes segments (Pruning) and filters the rows read.      *)
(*                                                                         *)
(* A conjunct is [op, col, args, opaque, negated, flipped]: an operator, a *)
(* column, the values of its arguments, the positions of those that are    *)
(* no literals (a call, an expression), whether NOT stands before IN or    *)
(* BETWEEN, and whether the column stands on the right of a comparison.    *)
(* The operator "other" is any condition the bridge does not know (OR,     *)
(* LIKE, <>); args are then the values that satisfy it.                    *)
(***************************************************************************)
EXTENDS Pruning, Sequences, Functions

CONSTANT Clauses   \* WHERE clauses clients send: sequences of conjuncts

Ops == {"=", "IN", ">=", ">", "<=", "<", "BETWEEN", "other"}

Conjuncts ==
  [op : Ops, col : Columns, args : Seq(Values) \ {<< >>}, opaque : SUBSET Nat,
   negated : BOOLEAN, flipped : BOOLEAN]

ASSUME ClauseAssumption ==  \* comparisons have one argument, BETWEEN has two
  /\ Clauses \subseteq Seq(Conjuncts)
  /\ \A w \in Clauses : \A i \in DOMAIN w :
       /\ w[i].op \in {"=", ">=", ">", "<=", "<"} => Len(w[i].args) = 1
       /\ w[i].op = "BETWEEN" => Len(w[i].args) = 2
       /\ w[i].opaque \subseteq DOMAIN w[i].args

VARIABLES
  clause,  \* the WHERE clause
  todo,    \* its conjuncts collect_filters has not reached
  failed   \* collect_filters returned an error

sqlVars == <<layout, segs, filters, clause, todo, failed>>

SqlInit ==
  /\ Init
  /\ clause \in Clauses
  /\ todo = clause
  /\ failed = FALSE

(* A literal as a bound: one that is no number bounds nothing. *)
BoundOr(v, otherwise) == IF Parse[v] = NaN THEN otherwise ELSE Parse[v]

(* filter_map(extract_string_value): the items that are literals. *)
Literals(c) == {c.args[i] : i \in DOMAIN c.args \ c.opaque}

-----------------------------------------------------------------------------
(* collect_filters: the walk reaches the next conjunct. *)
Reach_Last(ops) ==  \* bug: the walk drops the last conjunct, not the first
  /\ todo # << >> /\ ~failed
  /\ Head(todo).op \in ops
  /\ todo' = SubSeq(todo, 1, Len(todo) - 1)
  /\ UNCHANGED <<clause, failed>>
Reach(ops) ==
  /\ todo # << >> /\ ~failed
  /\ Head(todo).op \in ops
  /\ todo' = Tail(todo)
  /\ UNCHANGED <<clause, failed>>

CollectEq ==
  /\ Reach({"="})
  /\ LET c == Head(todo) IN c.opaque = {} /\ add_filter(c.col, {c.args[1]})

CollectMin ==
  /\ Reach({">=", ">"})
  /\ LET c == Head(todo)
     IN c.opaque = {} /\ add_min_filter(c.col, BoundOr(c.args[1], MinF))

CollectMax ==
  /\ Reach({"<=", "<"})
  /\ LET c == Head(todo)
     IN c.opaque = {} /\ add_max_filter(c.col, BoundOr(c.args[1], MaxF))

(* extract_col_value: a comparison without a column and a literal.         *)
CollectFails ==
  /\ todo # << >> /\ ~failed
  /\ Head(todo).op \in {"=", ">=", ">", "<=", "<"} /\ Head(todo).opaque # {}
  /\ failed' = TRUE
  /\ UNCHANGED <<clause, todo>> /\ UNCHANGED vars

(* NOT is not looked at, and items that are no literals are dropped.       *)
CollectInList_First ==  \* bug: only the first value of the list is taken
  /\ Reach({"IN"})
  /\ LET c == Head(todo) IN Literals(c) # {} /\ add_filter(c.col, {c.args[1]})
CollectInList ==
  /\ Reach({"IN"})
  /\ LET c == Head(todo) IN Literals(c) # {} /\ add_filter(c.col, Literals(c))

CollectBetween ==
  /\ Reach({"BETWEEN"})
  /\ LET c == Head(todo) IN
       /\ c.opaque = {}
       /\ add_range_filter(c.col, BoundOr(c.args[1], MinF), BoundOr(c.args[2], MaxF))

(* A condition the bridge does not know adds no filter, nor does a list    *)
(* without literals or a range with a bound that is none.                  *)
CollectNothing ==
  /\ Reach({"other", "IN", "BETWEEN"})
  /\ LET c == Head(todo) IN /\ c.op = "IN" => Literals(c) = {}
                            /\ c.op = "BETWEEN" => c.opaque # {}
  /\ UNCHANGED vars

(* The table is written to meanwhile. *)
Ingest ==
  /\ \E row \in TableRows : \E stored \in ReadBack(row) : WriteRow(row, stored)
  /\ UNCHANGED <<clause, todo, failed>>

SqlNext ==
  \/ CollectEq
  \/ CollectMin
  \/ CollectMax
  \/ CollectFails
  \/ CollectInList
  \/ CollectBetween
  \/ CollectNothing
  \/ Ingest

SqlSpec == SqlInit /\ [][SqlNext]_sqlVars

-----------------------------------------------------------------------------
(* read_and_filter on the segments that survive pruning. *)
Answer(first) ==
  {row \in UNION {segs[k].rows : k \in filter_segments(first)} : matches(row)}

StoredRows == UNION {segs[k].rows : k \in DOMAIN segs}

(* What SQL says of a conjunct. *)
Compare(c, x) ==
  LET n == Parse[c.args[1]] IN
  CASE c.op = ">=" -> IF c.flipped THEN n >= x ELSE x >= n
    [] c.op = ">"  -> IF c.flipped THEN n > x ELSE x > n
    [] c.op = "<=" -> IF c.flipped THEN n <= x ELSE x <= n
    [] c.op = "<"  -> IF c.flipped THEN n < x ELSE x < n
    [] c.op = "BETWEEN" ->
         c.negated <=> ~(Parse[c.args[1]] <= x /\ x <= Parse[c.args[2]])

Holds(c, row) ==
  /\ row[c.col] # Missing
  /\ IF c.op \in {"=", "IN", "other"}
       THEN c.negated <=> row[c.col] \notin Range(c.args)
       ELSE /\ NaN \notin {Parse[v] : v \in Range(c.args) \cup {row[c.col]}}
            /\ Compare(c, Parse[row[c.col]])

Selected == {row \in StoredRows : \A i \in DOMAIN clause : Holds(clause[i], row)}

(* The walk has ended, with a predicate. *)
Collected == todo = << >> /\ ~failed

(* What the bridge makes of a condition is not stricter than it: no NOT    *)
(* IN, no NOT BETWEEN, no column on the right of an inequality, no list    *)
(* that has both literals and other items.                                 *)
Kept(c) ==
  /\ c.op \in {"=", "IN", "BETWEEN"} => ~c.negated
  /\ c.op \in {">=", ">", "<=", "<"} => ~c.flipped
  /\ c.op = "IN" => c.opaque = {} \/ Literals(c) = {}

Straight == \A i \in DOMAIN clause : Kept(clause[i])

(* The forms README.md lists under "Supported SQL", at most one condition  *)
(* on a column unless both are bounds.                                     *)
Supported ==
  /\ \A i \in DOMAIN clause :
       /\ clause[i].op \in {"=", "IN", ">=", "<=", "BETWEEN"}
       /\ ~clause[i].negated /\ ~clause[i].flipped /\ clause[i].opaque = {}
       /\ clause[i].op \notin {"=", "IN"} =>
            \A v \in Range(clause[i].args) : Parse[v] # NaN
  /\ \A i, j \in DOMAIN clause :
       i # j /\ clause[i].col = clause[j].col =>
         {clause[i].op, clause[j].op} \subseteq {">=", "<="}

-----------------------------------------------------------------------------
(* Properties. *)

(* The state has the types of the clause and of its unread suffix. *)
SqlTypeOK ==
  /\ TypeOK
  /\ clause \in Clauses /\ failed \in BOOLEAN
  /\ \E n \in 0 .. Len(clause) : todo = SubSeq(clause, n + 1, Len(clause))

(* README.md: "All of the following return exact results".  A clause of    *)
(* the listed forms selects exactly the stored rows SQL selects: filters,  *)
(* pruning by whichever layout comes first, and row filtering together.    *)
ExactResults ==
  Collected /\ Supported =>
    \A first \in DOMAIN segs : Answer(first) = Selected

(* Beyond those forms, the answer to a clause that is Straight lacks no    *)
(* stored row it selects: conditions the bridge ignores, relaxes to an     *)
(* inclusive bound or lets another condition on the column replace only    *)
(* let more rows through.  Clauses that are not do lose rows: the bridge   *)
(* reads NOT IN as IN, NOT BETWEEN as BETWEEN, 5 <= x as x <= 5, and       *)
(* IN ('x', UPPER('y')) as IN ('x').                                       *)
NoRowLost ==
  Collected /\ Straight =>
    \A first \in DOMAIN segs : Selected \subseteq Answer(first)

=============================================================================

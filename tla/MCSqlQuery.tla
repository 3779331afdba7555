----------------------------- MODULE MCSqlQuery -----------------------------
(* WHERE clauses over the rides of MCPruning: every clause of one or two   *)
(* conjuncts from a small pool.                                            *)
EXTENDS MCPruning, SqlQuery

Cond(op, col, args) ==
  [op |-> op, col |-> col, args |-> args, opaque |-> {}, negated |-> FALSE,
   flipped |-> FALSE]

Not(c)        == [c EXCEPT !.negated = TRUE]
Flipped(c)    == [c EXCEPT !.flipped = TRUE]
Opaque(c, is) == [c EXCEPT !.opaque = is]

Plain ==
  {Cond("=", "city", <<"x">>), Cond("=", "city", <<"y">>),
   Cond("=", "fare", <<"nine">>), Cond("IN", "hour", <<"one", "three">>),
   Cond(">=", "fare", <<"three">>), Cond("<=", "fare", <<"three">>),
   Cond(">=", "fare", <<"x">>), Cond("<=", "fare", <<"half">>),
   Cond("BETWEEN", "fare", <<"one", "nine">>)}

Strict  == {Cond(">", "fare", <<"half">>), Cond("<", "fare", <<"nine">>)}
Ignored == {Cond("other", "city", <<"x", "">>)}

(* Arguments that are no literals: an error, no filter, half a filter. *)
Calls ==
  {Opaque(Cond("=", "city", <<"y">>), {1}),
   Opaque(Cond(">=", "fare", <<"one">>), {1}),
   Opaque(Cond("BETWEEN", "fare", <<"half", "three">>), {2}),
   Opaque(Cond("IN", "city", <<"x", "y">>), {1, 2}),
   Opaque(Cond("IN", "city", <<"x", "y">>), {2})}

(* Conditions the bridge turns into their opposites. *)
Turned ==
  {Not(Cond("IN", "hour", <<"one">>)), Not(Cond("BETWEEN", "fare", <<"one", "three">>)),
   Flipped(Cond("<=", "fare", <<"three">>)), Flipped(Cond("=", "city", <<"x">>))}

UpToTwo(conds) == {<<c>> : c \in conds} \cup (conds \X conds)

MCClauses == UpToTwo(Plain \cup Strict \cup Ignored \cup Calls \cup Turned)
=============================================================================

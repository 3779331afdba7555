----------------------------- MODULE MCPruning -----------------------------
(* A table of taxi rides.  Numbers are in halves (Scale = 2), so that      *)
(* "half" lies below one; two spellings of nine parse to the same number.  *)
EXTENDS Pruning

CONSTANTS missing, nan

MCColumns == {"fare", "city", "hour"}
MCValues  == {"", "half", "one", "three", "nine", "9.0", "x", "y"}

MCHash ==
  [v \in MCValues |->
     CASE v = ""      -> 7   [] v = "half" -> 4  [] v = "one" -> 9
       [] v = "three" -> 2   [] v = "nine" -> 12 [] v = "9.0" -> 5
       [] v = "x"     -> 3   [] v = "y"    -> 10]

MCParse ==
  [v \in MCValues |->
     CASE v = "half"  -> 1   [] v = "one"  -> 2  [] v = "three" -> 6
       [] v \in {"nine", "9.0"} -> 18
       [] OTHER -> nan]

Ride(f, c, h) == [fare |-> f, city |-> c, hour |-> h]

MCTableRows ==
  {Ride("half", "x", "one"), Ride("three", "y", "one"),
   Ride("nine", "x", "three"), Ride("9.0", "y", ""),
   Ride("x", "y", missing)}

MCExactSets == {{"x"}, {"y", ""}, {"nine"}}
MCBounds    == {-2, 1, 6, 18}
MCMinF      == -1000
MCMaxF      == 1000

(* MARS on fare, hashing on the rest. *)
Mars ==
  [dims    |-> <<"fare", "city", "hour">>,
   types   |-> <<"Numeric", "Categorical", "Categorical">>,
   buckets |-> <<4, 2, 2>>]

(* What the server gives every table it finds on disk: three columns that  *)
(* need not be the table's.  Bucket counts scaled down from 16, 16 and 24. *)
AfterRestart ==
  [dims    |-> <<"col1", "col2", "col3">>,
   types   |-> <<"Categorical", "Categorical", "Categorical">>,
   buckets |-> <<2, 2, 3>>]

MarsOnly == {Mars}
FareOnly == {"fare"}

-----------------------------------------------------------------------------
(* The same rides in a server that restarts.  The rows lack the columns of *)
(* the default layout, and queries only use exact filters.                 *)
RestartColumns == MCColumns \cup {"col1", "col2", "col3"}

RestartRows ==
  {[c \in RestartColumns |-> IF c \in MCColumns THEN ride[c] ELSE missing]
     : ride \in {Ride("half", "x", "one"), Ride("nine", "y", "three")}}

RestartLayouts == {Mars, AfterRestart}
RestartSets    == {{"x"}, {"y", ""}}
=============================================================================

--------------------------- MODULE MCParquetStore ---------------------------
(* Taxi rides in Parquet.  Numbers are in halves (Scale = 2), so that      *)
(* "half" lies below one; two spellings of nine parse to the same number.  *)
EXTENDS ParquetStore

CONSTANTS missing, nan

MCColumns == {"fare", "city", "trip.city"}
MCValues  == {"", "half", "nine", "9.0", "x", "y"}

MCHash ==
  [v \in MCValues |->
     CASE v = ""  -> 7   [] v = "half" -> 4  [] v = "nine" -> 12
       [] v = "9.0" -> 5 [] v = "x"    -> 3  [] v = "y"    -> 10]

MCParse ==
  [v \in MCValues |->
     CASE v = "half" -> 1 [] v \in {"nine", "9.0"} -> 18 [] OTHER -> nan]

(* Digits come before letters. *)
MCRank ==
  [v \in MCValues |->
     CASE v = ""  -> 0    [] v = "9.0" -> 1  [] v = "half" -> 2
       [] v = "nine" -> 3 [] v = "x"   -> 4  [] v = "y"    -> 5]

(* An Int64 column has no fractions and no "9.0"; a Float64 column prints  *)
(* both spellings of nine alike.                                           *)
MCCanon ==
  [t \in {"Int64", "Float64"} |->
     [v \in MCValues |->
        CASE v = "nine" -> "nine"
          [] v = "9.0"  -> IF t = "Float64" THEN "nine" ELSE missing
          [] v = "half" -> IF t = "Float64" THEN "half" ELSE missing
          [] OTHER      -> missing]]

Ride(f, c, d) ==
  [n \in MCColumns |-> CASE n = "fare" -> f [] n = "city" -> c [] OTHER -> d]
MCTableRows ==
  {Ride("half", "x", missing), Ride("nine", "y", missing),
   Ride("9.0", "y", "half")}

MCDotted == [n \in MCColumns |-> IF n = "city" THEN {"trip.city"} ELSE {}]

(* Schemas that leave trip.city out. *)
MCSchemas ==
  {[n \in {"fare", "city"} |-> IF n = "fare" THEN t ELSE "Utf8"]
     : t \in {"Float64", "Int64"}}

MCExactSets == {{"y", "nine"}}
MCBounds    == {18}
MCMinF      == -1000
MCMaxF      == 1000

Mars ==
  [dims    |-> <<"fare", "city", "city">>,
   types   |-> <<"Numeric", "Categorical", "Categorical">>,
   buckets |-> <<4, 2, 2>>]
Hashed ==
  [dims    |-> <<"fare", "city", "city">>,
   types   |-> <<"Categorical", "Categorical", "Categorical">>,
   buckets |-> <<2, 1, 2>>]
MCLayouts == {Mars, Hashed}
OnFare    == {"fare"}
=============================================================================

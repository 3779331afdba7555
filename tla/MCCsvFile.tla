----------------------------- MODULE MCCsvFile -----------------------------
(* A table of two columns, and an optional third one. *)
EXTENDS CsvFile

MCColumns == <<"city", "fare", "tip">>
MCValues  == {"", "x", "nine"}
MCWide    == {"nine"}  \* say, the Chinese digit

Ride(c, f)       == [city |-> c, fare |-> f]
Tipped(c, f, t)  == [city |-> c, fare |-> f, tip |-> t]

(* A plain batch, one whose second row has a column more, one with another *)
(* header, and one with as many columns that are not the same.             *)
MCBatches ==
  {<<Ride("x", "nine")>>,
   <<Ride("nine", ""), Tipped("x", "x", "nine")>>,
   <<Tipped("", "nine", "x")>>,
   <<[fare |-> "nine", tip |-> "x"]>>}
=============================================================================

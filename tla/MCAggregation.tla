--------------------------- MODULE MCAggregation ---------------------------
(* A fare column with two numbers, a text and an infinity, in two          *)
(* segments.  Two fares of five already overflow.                          *)
EXTENDS Aggregation

CONSTANTS noNumber, notFinite, absent, s1, s2

MCSegments == {s1, s2}
MCCells    == {"-3", "5", "n/a", "inf"}
MCNumber   == [c \in MCCells |-> CASE c = "-3"  -> -3
                                   [] c = "5"   -> 5
                                   [] c = "inf" -> notFinite
                                   [] OTHER     -> noNumber]
=============================================================================

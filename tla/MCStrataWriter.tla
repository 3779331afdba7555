-------------------------- MODULE MCStrataWriter --------------------------
(* A small directory: two rows that share a segment but not a bit, and one *)
(* row of another segment.                                                 *)
EXTENDS StrataWriter

CONSTANTS r1, r2, r3, s1, s2, b1, b2

MCRows     == {r1, r2, r3}
MCSegments == {s1, s2}
MCBits     == {b1, b2}
MCSegOf == [r \in MCRows |-> IF r = r3 THEN s2 ELSE s1]
MCBitOf == [r \in MCRows |-> IF r = r2 THEN b2 ELSE b1]
(* The row of the other segment has a cell that is no finite number. *)
MCNonFinite == {r3}
=============================================================================

--------------------------- MODULE MCTableServer ---------------------------
(* Three loads of one row each, and queries for either of two rows, one of *)
(* the HTTP server and one of the Flight server.                           *)
EXTENDS TableServer

CONSTANTS l1, l2, l3, q1, f1, x1, x2

MCRows     == {x1, x2}
ThreeLoads == {l1, l2, l3}
ThreeLoadRows == [l \in ThreeLoads |-> IF l = l1 THEN {x1} ELSE {x2}]
(* Loads of different rows that run at once, after l1 has created the table. *)
RacingLoadRows == [l \in ThreeLoads |-> IF l = l3 THEN {x2} ELSE {x1}]
(* Loads ask for one layout; a restarted server has another.               *)
MCConfig == [c \in ThreeLoads \cup {Startup} |->
               IF c = Startup THEN "default" ELSE "requested"]
OneQuery   == {q1}
OneFlight  == {f1}
MCTarget   == [q \in {q1, f1} |-> IF q = q1 THEN x1 ELSE x2]
NoTarget   == [q \in {} |-> x2]
OneTarget  == [q \in OneQuery |-> x2]
=============================================================================

--------------------------- MODULE DurableStore ---------------------------
(***************************************************************************)
(* What a table directory promises to whoever writes rows into it: a row   *)
(* that has been acknowledged can be read from disk, and a row that can be *)
(* read stays so, whatever crashes and fails, as long as none of the files *)
(* it may be in was interrupted while it was written to.  How often it is  *)
(* stored, and in which file, is not part of the promise.                  *)
(***************************************************************************)
CONSTANTS
  Rows,
  Files,
  FilesOf   \* the files a row may be in

VARIABLES
  durable,     \* rows that can be read after a crash of the process
  acked,       \* rows whose write has returned Ok
  interrupted  \* files some write to which was not carried through

vars == <<durable, acked, interrupted>>

AtRisk(r) == FilesOf[r] \cap interrupted # {}

Init == durable = {} /\ acked = {} /\ interrupted = {}

Record(rows) ==
  /\ durable' = durable \cup rows
  /\ UNCHANGED <<acked, interrupted>>

Acknowledge(r) ==
  /\ r \in durable \/ AtRisk(r)
  /\ acked' = acked \cup {r}
  /\ UNCHANGED <<durable, interrupted>>

(* Rows can be read no more; each is in a file that is now interrupted. *)
Lose ==
  /\ durable' \subseteq durable
  /\ \A r \in durable \ durable' : AtRisk(r)'
  /\ UNCHANGED acked

Damage == Lose /\ UNCHANGED interrupted

Interrupt(f) == Lose /\ interrupted' = interrupted \cup {f}

(* A file is removed when nothing that was acknowledged depends on it. *)
Remove(f) ==
  /\ Lose
  /\ interrupted' = interrupted \ {f}
  /\ \A r \in acked : r \in durable' \/ AtRisk(r)'

Next ==
  \/ \E rows \in SUBSET Rows : Record(rows)
  \/ \E r \in Rows : Acknowledge(r)
  \/ Damage
  \/ \E f \in Files : Interrupt(f) \/ Remove(f)

Spec == Init /\ [][Next]_vars
=============================================================================

------------------------- MODULE TableServerProofs -------------------------
(***************************************************************************)
(* Proofs about TableServer: the types; what an answered load means; when  *)
(* clients send one load at a time, that queries find what they were       *)
(* promised and that the cached reader never goes back; and, under any     *)
(* interleaving, what the row counts may claim and what the lock on the    *)
(* table map gives a load that creates the table.                          *)
(***************************************************************************)
EXTENDS TableServer, FiniteSetTheorems, SequenceTheorems, TLAPS

-----------------------------------------------------------------------------
(* Types. *)

(* The facts about the constants that the proofs use. *)
LEMMA Parameters ==
  /\ MaxCrashes \in Nat
  /\ \A r \in Loads : LoadRows[r] \subseteq Rows
  /\ \A q \in Readers : Target[q] \in Rows
<1>1. MaxCrashes \in Nat
  BY RequestAssumption
<1>2. LoadRows \in [Loads -> SUBSET Rows] /\ Target \in [Readers -> Rows]
  BY RequestAssumption
<1> QED
  BY <1>1, <1>2

(* A load's rows are written in known layouts. *)
LEMMA LayoutTypes ==
  ASSUME TypeOK, NEW r \in Loads
  PROVE  LayoutsOf(r) \subseteq Configs
<1>1. (IF creating[r] THEN {r} ELSE table) \subseteq Loads \cup {Startup}
  BY DEF TypeOK
<1> QED
  BY <1>1 DEF LayoutsOf, Configs

(* Empty, torn, merged and mixed metadata are metadata. *)
LEMMA MetaTypes ==
  /\ NoMeta \in Metas /\ Truncated \in Metas
  /\ \A m \in Metas : \A rows \in SUBSET Rows : \A as \in SUBSET Configs :
       Merged(m, rows, as) \in Metas
<1>1. ASSUME NEW m \in Metas, NEW rows \in SUBSET Rows, NEW as \in SUBSET Configs
      PROVE  Merged(m, rows, as) \in Metas
  <2>1. Cardinality(rows) \in Nat
    BY FS_Subset, FS_CardinalityType, RequestAssumption
  <2>2. /\ m.bits \cup rows \in SUBSET Rows /\ m.layouts \cup as \in SUBSET Configs
        /\ m.row_count \in Nat
    BY DEF Metas
  <2>3. m.row_count + Cardinality(rows) \in Nat
    BY <2>1, <2>2
  <2> QED
    BY <2>2, <2>3 DEF Metas, Merged
<1>2. NoMeta \in Metas /\ Truncated \in Metas
  BY DEF Metas, NoMeta, Truncated
<1> QED
  BY <1>1, <1>2

LEMMA TextTypes ==
  ASSUME TypeOK, NEW r \in Loads, NEW m \in Texts(r)
  PROVE  m \in Metas
<1> DEFINE others == {seen[l] : l \in Writing(r)} \cup ({meta} \ {Truncated})
<1>1. seen[r] \in Metas /\ \A o \in others : o \in Metas
  BY DEF TypeOK, Writing
<1>2. m \in {seen[r]} \cup {[o EXCEPT !.torn = TRUE] : o \in others}
            \cup UNION {Mixtures(seen[r], o) : o \in others}
  BY DEF Texts
<1> HIDE DEF others
<1>3. \/ m = seen[r]
      \/ \E o \in others : m \in Mixtures(seen[r], o)
      \/ \E o \in others : m = [o EXCEPT !.torn = TRUE]
  BY <1>2
<1>4. \A o \in others : \A n \in Mixtures(seen[r], o) : n \in Metas
  BY <1>1 DEF Mixtures, Metas
<1>5. \A o \in others : [o EXCEPT !.torn = TRUE] \in Metas
  BY <1>1 DEF Metas
<1> QED
  BY <1>1, <1>3, <1>4, <1>5

(* What a chunk of rows leaves in the file. *)
LEMMA SpillTypes ==
  ASSUME TypeOK, NEW r \in Loads, NEW chunk \in SUBSET unwritten[r],
         Spill(r, chunk)
  PROVE  /\ file' \in {"absent", "bare", "whole", "cut", "ruined"}
         /\ copies' \in [Rows -> Nat]
<1>1. \A more : Added(more) \in [Rows -> Nat]
  BY DEF Added, TypeOK
<1>2. NoCopies \in [Rows -> Nat]
  BY DEF NoCopies
<1>3. copies \in [Rows -> Nat]
  BY DEF TypeOK
<1>4. CASE SpillAlone(r, chunk)
  <2>1. file' \in {"whole", "cut", "ruined"}
    BY <1>4 DEF SpillAlone
  <2>2. copies' = copies \/ \E more : copies' = Added(more)
    BY <1>4 DEF SpillAlone
  <2> QED
    BY <1>1, <1>3, <2>1, <2>2
<1>5. CASE SpillAmong(chunk)
  <2>1. file' \in {"whole", "cut", "ruined"}
    BY <1>5 DEF SpillAmong
  <2>2. copies' = NoCopies \/ \E more : copies' = Added(more)
    BY <1>5 DEF SpillAmong
  <2> QED
    BY <1>1, <1>2, <2>1, <2>2
<1>6. SpillAlone(r, chunk) \/ SpillAmong(chunk)
  BY DEF Spill
<1> QED
  BY <1>4, <1>5, <1>6

(* What a scan may answer. *)
LEMMA ResultTypes ==
  \A q \in Readers : Results(q) \subseteq {"ok", "empty", "error"}
  BY DEF Results

(* The first state has the types. *)
LEMMA TypesInit ==
  Init => TypeOK
<1> SUFFICES ASSUME Init PROVE TypeOK
  OBVIOUS
<1> USE Parameters DEF Init
<1>1. copies \in [Rows -> Nat] /\ logs \in [Loads -> SUBSET Rows]
  OBVIOUS
<1>6. dir \in BOOLEAN /\ up \in BOOLEAN
  OBVIOUS
<1>7. crashes \in 0 .. MaxCrashes
  BY SMT
<1>2. meta \in Metas /\ cache \in Metas /\ seen \in [Loads -> Metas]
  BY MetaTypes
<1>8. /\ file \in {"absent", "bare", "whole", "cut", "ruined"}
      /\ fresh \in [Loads -> BOOLEAN] /\ unwritten \in [Loads -> SUBSET Rows]
      /\ damaged \subseteq {"data", "meta"} /\ layouts \subseteq Configs
  OBVIOUS
<1>3. path \in Loads \cup {NoFile} /\ handle \in [Loads -> Loads \cup {NoFile}]
      /\ table \in {{}} \cup {{c} : c \in Loads \cup {Startup}}
  OBVIOUS
<1>4. pc \in [Requests -> Places]
      /\ answer \in [Requests -> {"none", "ok", "empty", "not_found",
                                  "bad_request", "error", "dropped"}]
  BY DEF Places
<1>5. mem \in [Loads -> SUBSET Rows] /\ creating \in [Loads -> BOOLEAN]
      /\ replaying \in [Loads -> BOOLEAN] /\ kept \in [Readers -> BOOLEAN]
      /\ flight \in {"down", "listed", "unlisted"}
      /\ expected \subseteq Readers /\ dropped \subseteq Loads
  OBVIOUS
<1> HIDE DEF Init
<1> QED
  BY <1>1, <1>2, <1>3, <1>4, <1>5, <1>6, <1>7, <1>8 DEF TypeOK

(* Every step keeps the types. *)
LEMMA TypesStep ==
  ASSUME TypeOK, [Next]_vars
  PROVE  TypeOK'
<1> USE DEF TypeOK, Goto, Reply, disk, server, locks, spill, locals, history, Places,
            Requests, Readers
<1>1. ASSUME NEW r \in Loads \cup Queries, Submit(r) PROVE TypeOK'
  BY <1>1 DEF Submit
<1>2. ASSUME NEW q \in Queries, QueryStep(q) PROVE TypeOK'
  <2>1. CASE LookupForQuery(q)
    <3>1. /\ pc' \in [Requests -> Places]
          /\ answer' \in [Requests -> {"none", "ok", "empty", "not_found",
                                      "bad_request", "error", "dropped"}]
      BY <2>1 DEF LookupForQuery
    <3> QED
      BY <2>1, <3>1 DEF LookupForQuery
  <2>2. CASE Prune(q)
    <3>1. pc' \in [Requests -> Places] /\ kept' \in [Readers -> BOOLEAN]
      BY <2>2 DEF Prune, KeptBy
    <3> QED
      BY <2>2, <3>1 DEF Prune
  <2>3. CASE Scan(q)
    <3>1. PICK result \in Results(q) : Reply(q, "scan", result)
      BY <2>3 DEF Scan
    <3>2. result \in {"ok", "empty", "error"}
      BY ResultTypes
    <3>3. /\ pc' \in [Requests -> Places]
          /\ answer' \in [Requests -> {"none", "ok", "empty", "not_found",
                                      "bad_request", "error", "dropped"}]
      BY <3>1, <3>2
    <3> QED
      BY <2>3, <3>3 DEF Scan
  <2> QED
    BY <1>2, <2>1, <2>2, <2>3 DEF QueryStep
<1>3. ASSUME NEW r \in Loads, LoadStep(r) PROVE TypeOK'
  <2>1. CASE LookupForLoad(r)
    BY <2>1 DEF LookupForLoad
  <2>2. CASE CreateTable(r)
    <3>1. cache' \in Metas /\ dir' \in BOOLEAN
      BY <2>2 DEF CreateTable
    <3>3. pc' \in [Requests -> Places]
      BY <2>2 DEF CreateTable
    <3>2. creating' \in [Loads -> BOOLEAN]
          /\ answer' \in [Requests -> {"none", "ok", "empty", "not_found",
                                      "bad_request", "error", "dropped"}]
      BY <2>2 DEF CreateTable
    <3> QED
      BY <2>2, <3>1, <3>2, <3>3 DEF CreateTable
  <2>3. CASE OpenWriter(r)
    <3>1. Log \in SUBSET Rows
      BY DEF Log
    <3>2. mem' \in [Loads -> SUBSET Rows] /\ replaying' \in [Loads -> BOOLEAN]
          /\ pc' \in [Requests -> Places]
      BY <2>3, <3>1 DEF OpenWriter
    <3> QED
      BY <2>3, <3>2 DEF OpenWriter
  <2>4. CASE OpenLog(r)
    BY <2>4 DEF OpenLog
  <2>5. ASSUME NEW x \in Rows, AppendRow(r, x) PROVE TypeOK'
    <3>1. logs' \in [Loads -> SUBSET Rows] /\ mem' \in [Loads -> SUBSET Rows]
      BY <2>5 DEF AppendRow
    <3>2. pc' \in [Requests -> Places]
      BY <2>5 DEF AppendRow
    <3> QED
      BY <2>5, <3>1, <3>2 DEF AppendRow
  <2>6. CASE RoutingPanics(r)
    <3>1. pc' \in [Requests -> Places]
          /\ answer' \in [Requests -> {"none", "ok", "empty", "not_found",
                                      "bad_request", "error", "dropped"}]
      BY <2>6 DEF RoutingPanics
    <3>2. logs' \in [Loads -> SUBSET Rows]
      <4>1. CASE UNCHANGED logs
        BY <4>1
      <4>2. ASSUME NEW x \in LoadRows[r],
                   logs' = [logs EXCEPT ![handle[r]] = @ \cup {x}]
            PROVE  logs' \in [Loads -> SUBSET Rows]
        <5>1. x \in Rows /\ logs \in [Loads -> SUBSET Rows]
          BY Parameters
        <5> HIDE DEF TypeOK
        <5> QED
          BY <4>2, <5>1
      <4> QED
        BY <2>6, <4>1, <4>2 DEF RoutingPanics
    <3> QED
      BY <2>6, <3>1, <3>2 DEF RoutingPanics
  <2>7. CASE BadRecord(r)
    BY <2>7 DEF BadRecord
  <2>8. CASE FlushAll(r)
    BY <2>8 DEF FlushAll
  <2>9. CASE OpenData(r)
    <3>1. /\ file' \in {"absent", "bare", "whole", "cut", "ruined"}
          /\ pc' \in [Requests -> Places] /\ damaged' \subseteq {"data", "meta"}
      BY <2>9 DEF OpenData
    <3>2. /\ fresh' \in [Loads -> BOOLEAN] /\ unwritten' \in [Loads -> SUBSET Rows]
          /\ layouts' \subseteq Configs
      BY <2>9, LayoutTypes DEF OpenData
    <3> QED
      BY <2>9, <3>1, <3>2 DEF OpenData
  <2>19. ASSUME NEW chunk \in SUBSET unwritten[r], Spill(r, chunk) PROVE TypeOK'
    <3>1. fresh' \in [Loads -> BOOLEAN] /\ unwritten' \in [Loads -> SUBSET Rows]
          /\ pc' \in [Requests -> Places]
      BY <2>19 DEF Spill
    <3> QED
      BY <2>19, <3>1, SpillTypes DEF Spill
  <2>10. CASE ReadMeta(r)
    <3>1. Merged(meta, mem[r], LayoutsOf(r)) \in Metas
      BY MetaTypes, LayoutTypes
    <3>2. pc' \in [Requests -> Places] /\ seen' \in [Loads -> Metas]
      BY <2>10, <3>1 DEF ReadMeta
    <3> QED
      BY <2>10, <3>2 DEF ReadMeta
  <2>11. CASE ReadMetaFails(r)
    BY <2>11 DEF ReadMetaFails
  <2>12. CASE TruncateMeta(r)
    BY <2>12, MetaTypes DEF TruncateMeta
  <2>13. CASE WriteMeta(r)
    <3>1. meta' \in Metas
      BY <2>13, TextTypes DEF WriteMeta
    <3>2. pc' \in [Requests -> Places]
      BY <2>13 DEF WriteMeta
    <3>3. mem' \in [Loads -> SUBSET Rows] /\ replaying' \in [Loads -> BOOLEAN]
      BY <2>13 DEF WriteMeta
    <3> QED
      BY <2>13, <3>1, <3>2, <3>3 DEF WriteMeta
  <2>14. CASE RemoveLog(r)
    BY <2>14 DEF RemoveLog
  <2>15. CASE LoadSegments(r)
    BY <2>15 DEF LoadSegments
  <2>16. CASE LoadSegmentsFails(r)
    BY <2>16 DEF LoadSegmentsFails
  <2>17. CASE InstallReader(r)
    BY <2>17 DEF InstallReader
  <2>18. CASE FinishLoad(r)
    BY <2>18 DEF FinishLoad
  <2> QED
    BY <1>3, <2>1, <2>2, <2>3, <2>4, <2>5, <2>6, <2>7, <2>8, <2>9, <2>10, <2>11,
       <2>12, <2>13, <2>14, <2>15, <2>16, <2>17, <2>18, <2>19 DEF LoadStep
<1>4. ASSUME NEW r \in Requests, Disconnect(r) PROVE TypeOK'
  BY <1>4 DEF Disconnect
<1>5. CASE Crash
  <2>1. pc' \in [Requests -> Places] /\ mem' \in [Loads -> SUBSET Rows]
        /\ dropped' \subseteq Loads /\ cache' \in Metas
    BY <1>5, MetaTypes DEF Crash
  <2>2. crashes' \in 0 .. MaxCrashes
    BY <1>5, Parameters DEF Crash
  <2>3. table' = {} /\ up' \in BOOLEAN
        /\ fresh' \in [Loads -> BOOLEAN] /\ unwritten' \in [Loads -> SUBSET Rows]
    BY <1>5 DEF Crash
  <2>4. /\ file' \in {"absent", "bare", "whole", "cut", "ruined"}
        /\ copies' \in [Rows -> Nat] /\ damaged' \subseteq {"data", "meta"}
    <3>1. NoCopies \in [Rows -> Nat]
      BY DEF NoCopies
    <3>2. LeaveBehind
      BY <1>5 DEF Crash
    <3>3. CASE UNCHANGED <<file, copies, damaged>>
      BY <3>3
    <3>4. CASE /\ \/ file' = file
                  \/ file' \in {"whole", "cut"}
                  \/ file' = "ruined"
               /\ copies' = IF file' = "ruined" THEN NoCopies ELSE copies
               /\ damaged' = damaged \cup {"data"}
      BY <3>1, <3>4
    <3> QED
      BY <3>2, <3>3, <3>4 DEF LeaveBehind
  <2> QED
    BY <1>5, <2>1, <2>2, <2>3, <2>4 DEF Crash
<1>6. CASE Restart
  <2>1. /\ cache' \in Metas /\ up' \in BOOLEAN
        /\ table' \in {{}} \cup {{c} : c \in Loads \cup {Startup}}
    BY <1>6 DEF Restart
  <2> QED
    BY <1>6, <2>1 DEF Restart
<1>7. CASE StartFlight
  BY <1>7 DEF StartFlight
<1>8. ASSUME NEW f \in Flights, SubmitFlight(f) PROVE TypeOK'
  <2>1. /\ pc' \in [Requests -> Places] /\ expected' \subseteq Readers
        /\ answer' \in [Requests -> {"none", "ok", "empty", "not_found",
                                    "bad_request", "error", "dropped"}]
    BY <1>8 DEF SubmitFlight
  <2> QED
    BY <1>8, <2>1 DEF SubmitFlight
<1>9. ASSUME NEW f \in Flights, FlightStep(f) PROVE TypeOK'
  <2>1. CASE FlightSegments(f)
    <3>1. pc' \in [Requests -> Places] /\ kept' \in [Readers -> BOOLEAN]
      BY <2>1 DEF FlightSegments, KeptBy
    <3> QED
      BY <2>1, <3>1 DEF FlightSegments
  <2>2. CASE FlightSegmentsFails(f)
    BY <2>2 DEF FlightSegmentsFails
  <2>3. CASE FlightScan(f)
    <3>1. PICK result \in Results(f) : answer' = [answer EXCEPT ![f] = result]
      BY <2>3 DEF FlightScan
    <3>2. result \in {"ok", "empty", "error"}
      BY ResultTypes
    <3>3. /\ pc' \in [Requests -> Places]
          /\ answer' \in [Requests -> {"none", "ok", "empty", "not_found",
                                      "bad_request", "error", "dropped"}]
      BY <2>3, <3>1, <3>2 DEF FlightScan
    <3> QED
      BY <2>3, <3>3 DEF FlightScan
  <2> QED
    BY <1>9, <2>1, <2>2, <2>3 DEF FlightStep
<1>10. CASE UNCHANGED vars
  BY <1>10 DEF vars
<1> QED
  BY <1>1, <1>2, <1>3, <1>4, <1>5, <1>6, <1>7, <1>8, <1>9, <1>10 DEF Next

(* The state has the types of the code's fields, files and locals, for any *)
(* number of requests.                                                     *)
THEOREM ServerTypes ==
  Spec => []TypeOK
  BY TypesInit, TypesStep, PTL DEF Spec
-----------------------------------------------------------------------------
(* The files, while nothing has damaged them. *)

DataInv ==
  "data" \notin damaged =>
    /\ \A l, k \in Spilling : l = k
    /\ file \in {"absent", "bare", "whole"}
    /\ file = "absent" => Spilling = {}
    /\ file = "bare" => \E l \in Spilling : fresh[l]

JsonInv ==
  "meta" \notin damaged =>
    \A r \in Loads : pc[r] = "json" => Writing(r) = {} /\ meta = Truncated

FileInv == DataInv /\ JsonInv

(* There is no file in the first state. *)
LEMMA FileInit ==
  Init => FileInv
  BY DEF Init, FileInv, DataInv, JsonInv, Spilling, Requests

(* Nothing is ever forgotten of damages and layouts. *)
LEMMA HistoryGrows ==
  ASSUME [Next]_vars
  PROVE  damaged \subseteq damaged' /\ layouts \subseteq layouts'
  BY DEF Next, QueryStep, LoadStep, FlightStep, Submit, LookupForQuery, Prune, Scan,
     LookupForLoad, CreateTable, OpenWriter, OpenLog, AppendRow, RoutingPanics,
     BadRecord, FlushAll, OpenData, Spill, ReadMeta, ReadMetaFails, TruncateMeta,
     WriteMeta, RemoveLog, LoadSegments, LoadSegmentsFails, InstallReader, FinishLoad,
     Disconnect, Crash, LeaveBehind, Restart, StartFlight, SubmitFlight,
     FlightSegments, FlightSegmentsFails, FlightScan, history, vars

(* A step that touches no file, and no load that writes one. *)
LEMMA FileFrame ==
  ASSUME FileInv, UNCHANGED <<file, meta, fresh, damaged>>,
         \A l \in Loads : \/ pc'[l] = pc[l]
                          \/ pc[l] \notin {"spill", "json"}
                             /\ pc'[l] \notin {"spill", "json"}
  PROVE  FileInv'
<1>1. Spilling' = Spilling
  BY DEF Spilling
<1>2. \A r \in Loads : (pc'[r] = "json" <=> pc[r] = "json") /\ Writing(r)' = Writing(r)
  BY DEF Writing
<1>3. DataInv'
  BY <1>1 DEF FileInv, DataInv
<1>4. JsonInv'
  BY <1>2 DEF FileInv, JsonInv
<1> QED
  BY <1>3, <1>4 DEF FileInv

(* The rows of an undamaged file come through whole. *)
LEMMA SpillSafe ==
  ASSUME TypeOK, FileInv, NEW r \in Loads, NEW chunk \in SUBSET unwritten[r],
         Spill(r, chunk), "data" \notin damaged
  PROVE  copies' = Added(chunk) /\ file' = "whole" /\ Spilling = {r}
<1>1. r \in Spilling
  BY DEF Spill, Goto, Spilling
<1>2. Spilling = {r} /\ file \in {"bare", "whole"} /\ (file = "bare" => fresh[r])
  BY <1>1 DEF FileInv, DataInv
<1>3. SpillAlone(r, chunk)
  BY <1>2 DEF Spill
<1> QED
  BY <1>2, <1>3 DEF SpillAlone

(* A load that writes the metadata alone writes what it has merged. *)
LEMMA TextSafe ==
  ASSUME FileInv, NEW r \in Loads, WriteMeta(r), "meta" \notin damaged
  PROVE  meta' = seen[r]
<1>1. Writing(r) = {} /\ meta = Truncated
  BY DEF FileInv, JsonInv, WriteMeta, Goto
<1>2. Texts(r) = {seen[r]}
  BY <1>1 DEF Texts
<1> QED
  BY <1>2 DEF WriteMeta

(* Every step keeps the files whole or tells of the damage. *)
LEMMA FileStep ==
  ASSUME TypeOK, FileInv, [Next]_vars
  PROVE  FileInv'
<1> USE FileFrame DEF TypeOK, Requests, Readers, Goto, Reply, disk, server, locks, spill,
                      locals, history
<1>1. ASSUME NEW r \in Loads \cup Queries, Submit(r) PROVE FileInv'
  BY <1>1 DEF Submit
<1>2. ASSUME NEW q \in Queries, QueryStep(q) PROVE FileInv'
  <2>1. CASE LookupForQuery(q)
    BY <2>1 DEF LookupForQuery
  <2>2. CASE Prune(q)
    BY <2>2 DEF Prune
  <2>3. CASE Scan(q)
    BY <2>3 DEF Scan
  <2> QED
    BY <1>2, <2>1, <2>2, <2>3 DEF QueryStep
<1>3. ASSUME NEW r \in Loads, LoadStep(r) PROVE FileInv'
  <2>1. CASE LookupForLoad(r)
    BY <2>1 DEF LookupForLoad
  <2>2. CASE CreateTable(r)
    BY <2>2 DEF CreateTable
  <2>3. CASE OpenWriter(r)
    BY <2>3 DEF OpenWriter
  <2>4. CASE OpenLog(r)
    BY <2>4 DEF OpenLog
  <2>5. ASSUME NEW x \in Rows, AppendRow(r, x) PROVE FileInv'
    BY <2>5 DEF AppendRow
  <2>6. CASE RoutingPanics(r)
    BY <2>6 DEF RoutingPanics
  <2>7. CASE BadRecord(r)
    BY <2>7 DEF BadRecord
  <2>8. CASE FlushAll(r)
    BY <2>8 DEF FlushAll
  <2>9. CASE OpenData(r)
    <3>1. /\ pc' = [pc EXCEPT ![r] = "spill"] /\ pc[r] = "data" /\ meta' = meta
          /\ fresh' = [fresh EXCEPT ![r] = file = "absent"]
          /\ file' = IF file = "absent" THEN "bare" ELSE file
          /\ damaged' = damaged \cup {"data" : l \in Spilling}
      BY <2>9 DEF OpenData
    <3>2. Spilling' = Spilling \cup {r}
      BY <3>1 DEF Spilling
    <3>3. \A l \in Loads : (pc'[l] = "json" <=> pc[l] = "json") /\ Writing(l)' = Writing(l)
      BY <3>1 DEF Writing
    <3>4. JsonInv'
      BY <3>1, <3>3 DEF FileInv, JsonInv
    <3>5. DataInv'
      <4>1. SUFFICES ASSUME "data" \notin damaged' PROVE DataInv'
        BY DEF DataInv
      <4>2. Spilling = {} /\ Spilling' = {r} /\ "data" \notin damaged
        BY <3>1, <3>2, <4>1
      <4>3. file \in {"absent", "whole"}
        BY <4>2 DEF FileInv, DataInv
      <4>4. file' \in {"bare", "whole"} /\ (file' = "bare" => fresh'[r])
        BY <3>1, <4>3
      <4> QED
        BY <4>2, <4>4 DEF DataInv
    <3> QED
      BY <3>4, <3>5 DEF FileInv
  <2>19. ASSUME NEW chunk \in SUBSET unwritten[r], Spill(r, chunk) PROVE FileInv'
    <3>1. /\ pc[r] = "spill" /\ UNCHANGED <<meta, damaged>>
          /\ pc' = [pc EXCEPT ![r] = IF unwritten[r] = chunk THEN "meta" ELSE "spill"]
          /\ fresh' = [fresh EXCEPT ![r] = FALSE]
      BY <2>19 DEF Spill
    <3>2. \A l \in Loads : (pc'[l] = "json" <=> pc[l] = "json") /\ Writing(l)' = Writing(l)
      BY <3>1 DEF Writing
    <3>3. JsonInv'
      BY <3>1, <3>2 DEF FileInv, JsonInv
    <3>4. Spilling' \subseteq Spilling
      BY <3>1 DEF Spilling
    <3>5. DataInv'
      <4>1. SUFFICES ASSUME "data" \notin damaged PROVE DataInv'
        BY <3>1 DEF DataInv
      <4>2. file' = "whole" /\ Spilling = {r}
        BY <2>19, <4>1, SpillSafe
      <4> QED
        BY <3>4, <4>2 DEF DataInv
    <3> QED
      BY <3>3, <3>5 DEF FileInv
  <2>10. CASE ReadMeta(r)
    BY <2>10 DEF ReadMeta
  <2>11. CASE ReadMetaFails(r)
    BY <2>11 DEF ReadMetaFails
  <2>12. CASE TruncateMeta(r)
    <3>1. /\ pc' = [pc EXCEPT ![r] = "json"] /\ pc[r] = "truncate"
          /\ meta' = Truncated /\ UNCHANGED <<file, fresh>>
          /\ damaged' = damaged \cup {"meta" : l \in Writing(r)}
      BY <2>12 DEF TruncateMeta
    <3>2. Spilling' = Spilling
      BY <3>1 DEF Spilling
    <3>3. DataInv'
      BY <3>1, <3>2 DEF FileInv, DataInv
    <3>4. JsonInv'
      <4>1. SUFFICES ASSUME "meta" \notin damaged' PROVE JsonInv'
        BY DEF JsonInv
      <4>2. Writing(r) = {}
        BY <3>1, <4>1
      <4>3. \A l \in Loads : pc'[l] = "json" <=> l = r
        BY <3>1, <4>2 DEF Writing
      <4> QED
        BY <3>1, <4>3 DEF JsonInv, Writing
    <3> QED
      BY <3>3, <3>4 DEF FileInv
  <2>13. CASE WriteMeta(r)
    <3>1. /\ pc[r] = "json" /\ UNCHANGED <<file, fresh, damaged>>
          /\ pc' = [pc EXCEPT ![r] = IF replaying[r] THEN "log" ELSE "remove"]
      BY <2>13 DEF WriteMeta
    <3>2. Spilling' = Spilling
      BY <3>1 DEF Spilling
    <3>3. DataInv'
      BY <3>1, <3>2 DEF FileInv, DataInv
    <3>4. JsonInv'
      BY <3>1 DEF FileInv, JsonInv, Writing
    <3> QED
      BY <3>3, <3>4 DEF FileInv
  <2>14. CASE RemoveLog(r)
    BY <2>14 DEF RemoveLog
  <2>15. CASE LoadSegments(r)
    BY <2>15 DEF LoadSegments
  <2>16. CASE LoadSegmentsFails(r)
    BY <2>16 DEF LoadSegmentsFails
  <2>17. CASE InstallReader(r)
    BY <2>17 DEF InstallReader
  <2>18. CASE FinishLoad(r)
    BY <2>18 DEF FinishLoad
  <2> QED
    BY <1>3, <2>1, <2>2, <2>3, <2>4, <2>5, <2>6, <2>7, <2>8, <2>9, <2>10, <2>11,
       <2>12, <2>13, <2>14, <2>15, <2>16, <2>17, <2>18, <2>19 DEF LoadStep
<1>4. ASSUME NEW r \in Requests, Disconnect(r) PROVE FileInv'
  BY <1>4 DEF Disconnect
<1>5. CASE Crash
  <2>1. \A l \in Loads : pc'[l] \in {"new", "done"}
    BY <1>5, RequestAssumption DEF Crash
  <2>2. Spilling' = {}
    BY <2>1 DEF Spilling
  <2>3. JsonInv'
    BY <2>1 DEF JsonInv
  <2>4. CASE Spilling = {}
    <3>1. UNCHANGED <<file, damaged>>
      BY <1>5, <2>4 DEF Crash, LeaveBehind
    <3>2. DataInv'
      BY <2>2, <2>4, <3>1 DEF FileInv, DataInv
    <3> QED
      BY <2>3, <3>2 DEF FileInv
  <2>5. CASE Spilling # {}
    <3>1. "data" \in damaged'
      BY <1>5, <2>5 DEF Crash, LeaveBehind
    <3> QED
      BY <2>3, <3>1 DEF FileInv, DataInv
  <2> QED
    BY <2>4, <2>5
<1>6. CASE Restart
  BY <1>6 DEF Restart
<1>7. CASE StartFlight
  BY <1>7 DEF StartFlight
<1>8. ASSUME NEW f \in Flights, SubmitFlight(f) PROVE FileInv'
  BY <1>8, RequestAssumption DEF SubmitFlight
<1>9. ASSUME NEW f \in Flights, FlightStep(f) PROVE FileInv'
  <2>1. CASE FlightSegments(f)
    BY <2>1, RequestAssumption DEF FlightSegments
  <2>2. CASE FlightSegmentsFails(f)
    BY <2>2, RequestAssumption DEF FlightSegmentsFails
  <2>3. CASE FlightScan(f)
    BY <2>3, RequestAssumption DEF FlightScan
  <2> QED
    BY <1>9, <2>1, <2>2, <2>3 DEF FlightStep
<1>10. CASE UNCHANGED vars
  BY <1>10 DEF vars
<1> QED
  BY <1>1, <1>2, <1>3, <1>4, <1>5, <1>6, <1>7, <1>8, <1>9, <1>10 DEF Next

-----------------------------------------------------------------------------
(* What an answered load means, however many requests run. *)

Working == {"open", "log", "append", "data", "spill", "meta", "truncate", "json",
            "remove", "refresh", "reader_write", "stats"}

(* A load that has written its data file has stored its rows, while nothing *)
(* damages the file, and one that works on a table it does not create holds *)
(* the map with the table in it.                                            *)
LoadStored(r) ==
  /\ pc[r] \in {"data", "spill", "meta"} /\ ~replaying[r] => mem[r] = LoadRows[r]
  /\ pc[r] = "spill" => unwritten[r] \subseteq mem[r]
  /\ pc[r] = "meta" => unwritten[r] = {}
  /\ "data" \notin damaged =>
       /\ pc[r] \in {"spill", "meta"} => mem[r] \ unwritten[r] \subseteq Stored
       /\ pc[r] \in {"truncate", "json"} /\ ~replaying[r] => LoadRows[r] \subseteq Stored
       /\ pc[r] \in {"remove", "refresh", "reader_write", "stats"} =>
            LoadRows[r] \subseteq Stored
       /\ answer[r] = "ok" => LoadRows[r] \subseteq Stored
  /\ crashes = 0 =>
       /\ pc[r] \in Working /\ ~creating[r] => table # {}
       /\ answer[r] = "ok" => table # {}

StoredInv ==
  /\ \A r \in Requests : pc[r] # "done" => answer[r] = "none"
  /\ \A r \in Loads : LoadStored(r)

(* No load has begun in the first state. *)
LEMMA StoredInit ==
  Init => StoredInv
  BY DEF Init, StoredInv, LoadStored, Requests, Working

(* The rows of a chunk are in an undamaged file afterwards, with all others. *)
LEMMA SpillStores ==
  ASSUME TypeOK, FileInv, NEW r \in Loads, NEW chunk \in SUBSET unwritten[r],
         Spill(r, chunk), "data" \notin damaged
  PROVE  Stored' = Stored \cup chunk
<1>1. copies' = Added(chunk) /\ chunk \subseteq Rows
  BY SpillSafe DEF TypeOK
<1>2. \A x \in Rows : copies'[x] = IF x \in chunk THEN copies[x] + 1 ELSE copies[x]
  BY <1>1 DEF Added
<1> QED
  BY <1>1, <1>2 DEF Stored, TypeOK

(* A step that moves no load. *)
LEMMA StoredFrame ==
  ASSUME StoredInv, UNCHANGED <<mem, unwritten, replaying, creating, copies, damaged,
                                crashes, table>>,
         \A l \in Loads : pc'[l] = pc[l] /\ answer'[l] = answer[l]
  PROVE  \A l \in Loads : LoadStored(l)'
<1>1. Stored' = Stored
  BY DEF Stored
<1> QED
  BY <1>1 DEF StoredInv, LoadStored

(* Every step keeps what loads have stored and where the table is. *)
LEMMA StoredStep ==
  ASSUME TypeOK, FileInv, StoredInv, [Next]_vars
  PROVE  StoredInv'
<1> USE DEF StoredInv, LoadStored, Working, Stored, TypeOK, Requests, Readers, Goto, Reply,
            disk, server, locks, spill, locals, history
<1>1. ASSUME NEW r \in Loads \cup Queries, Submit(r) PROVE StoredInv'
  BY <1>1 DEF Submit
<1>2. ASSUME NEW q \in Queries, QueryStep(q) PROVE StoredInv'
  <2>1. CASE LookupForQuery(q)
    <3>1. \A l \in Loads : LoadStored(l)'
      BY <2>1, StoredFrame, RequestAssumption DEF LookupForQuery
    <3>2. \A o \in Requests : pc'[o] # "done" => answer'[o] = "none"
      BY <2>1 DEF LookupForQuery
    <3> HIDE DEF LoadStored
    <3> QED
      BY <3>1, <3>2
  <2>2. CASE Prune(q)
    BY <2>2 DEF Prune
  <2>3. CASE Scan(q)
    BY <2>3, RequestAssumption DEF Scan
  <2> QED
    BY <1>2, <2>1, <2>2, <2>3 DEF QueryStep
<1>3. ASSUME NEW r \in Loads, LoadStep(r) PROVE StoredInv'
  <2>1. CASE LookupForLoad(r)
    BY <2>1 DEF LookupForLoad
  <2>2. CASE CreateTable(r)
    BY <2>2 DEF CreateTable
  <2>3. CASE OpenWriter(r)
    BY <2>3 DEF OpenWriter
  <2>4. CASE OpenLog(r)
    BY <2>4 DEF OpenLog
  <2>5. ASSUME NEW x \in Rows, AppendRow(r, x) PROVE StoredInv'
    BY <2>5 DEF AppendRow
  <2>6. CASE RoutingPanics(r)
    BY <2>6 DEF RoutingPanics
  <2>7. CASE BadRecord(r)
    BY <2>7 DEF BadRecord
  <2>8. CASE FlushAll(r)
    BY <2>8 DEF FlushAll
  <2>9. CASE OpenData(r)
    <3>1. /\ pc' = [pc EXCEPT ![r] = "spill"] /\ pc[r] = "data"
          /\ UNCHANGED <<mem, replaying, copies, answer, crashes, table, creating>>
          /\ unwritten' = [unwritten EXCEPT ![r] = mem[r]]
      BY <2>9 DEF OpenData
    <3>2. damaged \subseteq damaged' /\ Stored' = Stored
      BY <3>1, HistoryGrows
    <3> QED
      BY <3>1, <3>2
  <2>19. ASSUME NEW chunk \in SUBSET unwritten[r], Spill(r, chunk) PROVE StoredInv'
    <3>1. /\ pc[r] = "spill" /\ chunk \subseteq unwritten[r]
          /\ pc' = [pc EXCEPT ![r] = IF unwritten[r] = chunk THEN "meta" ELSE "spill"]
          /\ UNCHANGED <<mem, replaying, answer, crashes, table, creating, damaged>>
          /\ unwritten' = [unwritten EXCEPT ![r] = @ \ chunk]
      BY <2>19 DEF Spill
    <3>2. "data" \notin damaged => Stored' = Stored \cup chunk
      BY <2>19, SpillStores
    <3>3. pc'[r] = "meta" => unwritten'[r] = {}
      BY <3>1
    <3> HIDE DEF Stored
    <3>4. LoadStored(r)'
      BY <3>1, <3>2, <3>3
    <3>5. ASSUME NEW k \in Loads, k # r PROVE LoadStored(k)'
      <4>1. pc'[k] = pc[k] /\ unwritten'[k] = unwritten[k]
        BY <3>1, <3>5
      <4> QED
        BY <3>1, <3>2, <4>1
    <3> QED
      BY <3>1, <3>4, <3>5
  <2>10. CASE ReadMeta(r)
    BY <2>10 DEF ReadMeta
  <2>11. CASE ReadMetaFails(r)
    BY <2>11 DEF ReadMetaFails
  <2>12. CASE TruncateMeta(r)
    BY <2>12 DEF TruncateMeta
  <2>13. CASE WriteMeta(r)
    BY <2>13 DEF WriteMeta
  <2>14. CASE RemoveLog(r)
    BY <2>14 DEF RemoveLog
  <2>15. CASE LoadSegments(r)
    BY <2>15 DEF LoadSegments
  <2>16. CASE LoadSegmentsFails(r)
    BY <2>16 DEF LoadSegmentsFails
  <2>17. CASE InstallReader(r)
    BY <2>17 DEF InstallReader
  <2>18. CASE FinishLoad(r)
    BY <2>18 DEF FinishLoad
  <2> QED
    BY <1>3, <2>1, <2>2, <2>3, <2>4, <2>5, <2>6, <2>7, <2>8, <2>9, <2>10, <2>11,
       <2>12, <2>13, <2>14, <2>15, <2>16, <2>17, <2>18, <2>19 DEF LoadStep
<1>4. ASSUME NEW r \in Requests, Disconnect(r) PROVE StoredInv'
  BY <1>4 DEF Disconnect
<1>5. CASE Crash
  <2>1. crashes' # 0
    <3>1. crashes \in Nat /\ crashes' = crashes + 1
      BY <1>5, Parameters DEF Crash
    <3> QED
      BY <3>1
  <2>2. \A r \in Requests : pc'[r] # "done" => answer'[r] = "none"
    BY <1>5 DEF Crash
  <2>3. ASSUME NEW r \in Loads PROVE LoadStored(r)'
    <3>1. pc'[r] \in {"new", "done"} /\ r \in Requests
      BY <1>5, RequestAssumption DEF Crash
    <3>2. answer'[r] = answer[r]
      BY <1>5 DEF Crash
    <3>3. "data" \notin damaged' => "data" \notin damaged /\ Stored' = Stored
      BY <1>5 DEF Crash, LeaveBehind
    <3> HIDE DEF Stored
    <3> QED
      BY <3>1, <3>2, <3>3, <2>1
  <2> QED
    BY <2>2, <2>3
<1>6. CASE Restart
  BY <1>6 DEF Restart
<1>7. CASE StartFlight
  BY <1>7 DEF StartFlight
<1>8. ASSUME NEW f \in Flights, SubmitFlight(f) PROVE StoredInv'
  BY <1>8, RequestAssumption DEF SubmitFlight
<1>9. ASSUME NEW f \in Flights, FlightStep(f) PROVE StoredInv'
  <2>1. CASE FlightSegments(f)
    BY <2>1 DEF FlightSegments
  <2>2. CASE FlightSegmentsFails(f)
    BY <2>2, RequestAssumption DEF FlightSegmentsFails
  <2>3. CASE FlightScan(f)
    BY <2>3, RequestAssumption DEF FlightScan
  <2> QED
    BY <1>9, <2>1, <2>2, <2>3 DEF FlightStep
<1>10. CASE UNCHANGED vars
  BY <1>10 DEF vars
<1> QED
  BY <1>1, <1>2, <1>3, <1>4, <1>5, <1>6, <1>7, <1>8, <1>9, <1>10 DEF Next

(* The invariant behind AnswersMeanStored, under any interleaving. *)
THEOREM StoredInvariant ==
  Spec => [](TypeOK /\ FileInv /\ StoredInv)
<1>1. Init => TypeOK /\ FileInv /\ StoredInv
  BY TypesInit, FileInit, StoredInit
<1>2. TypeOK /\ FileInv /\ StoredInv /\ [Next]_vars => (TypeOK /\ FileInv /\ StoredInv)'
  BY TypesStep, FileStep, StoredStep
<1> QED
  BY <1>1, <1>2, PTL DEF Spec

(* A load is answered with 200 only when all its rows are in the data file *)
(* and, unless the server died since, its table is in the map: for any     *)
(* loads at once, whatever they leave in the metadata, and whichever of    *)
(* them panic, fail or are given up.  The rows stay in the file until two  *)
(* loads write it at the same moment or a crash cuts it.                   *)
THEOREM AnswersMeanStored ==
  Spec => []AnsweredLoadsStored
<1>1. StoredInv => AnsweredLoadsStored
  BY DEF StoredInv, LoadStored, AnsweredLoadsStored, Answered
<1> QED
  BY <1>1, StoredInvariant, PTL

-----------------------------------------------------------------------------
(* What metadata may claim, however many requests run.                     *)

BitsInv ==
  damaged = {} =>
    /\ meta.bits \subseteq Stored
    /\ cache.bits \subseteq Stored
    /\ \A r \in Loads : seen[r].bits \subseteq Stored

(* Nothing claims a row in the first state. *)
LEMMA BitsInit ==
  Init => BitsInv
  BY DEF Init, BitsInv, NoMeta, Requests

(* Only rows already in the data file get into metadata. *)
LEMMA BitsStep ==
  ASSUME TypeOK, FileInv, StoredInv, BitsInv, [Next]_vars
  PROVE  BitsInv'
<1> USE DEF BitsInv, Stored, TypeOK, Requests, Readers, Goto, Reply, NoMeta, disk, server, locks,
            spill, locals, history
<1>1. ASSUME NEW r \in Loads \cup Queries, Submit(r) PROVE BitsInv'
  BY <1>1 DEF Submit
<1>2. ASSUME NEW q \in Queries, QueryStep(q) PROVE BitsInv'
  <2>1. CASE LookupForQuery(q)
    BY <2>1 DEF LookupForQuery
  <2>2. CASE Prune(q)
    BY <2>2 DEF Prune
  <2>3. CASE Scan(q)
    BY <2>3 DEF Scan
  <2> QED
    BY <1>2, <2>1, <2>2, <2>3 DEF QueryStep
<1>3. ASSUME NEW r \in Loads, LoadStep(r) PROVE BitsInv'
  <2>1. CASE LookupForLoad(r)
    BY <2>1 DEF LookupForLoad
  <2>2. CASE CreateTable(r)
    BY <2>2 DEF CreateTable
  <2>3. CASE OpenWriter(r)
    BY <2>3 DEF OpenWriter
  <2>4. CASE OpenLog(r)
    BY <2>4 DEF OpenLog
  <2>5. ASSUME NEW x \in Rows, AppendRow(r, x) PROVE BitsInv'
    BY <2>5 DEF AppendRow
  <2>6. CASE RoutingPanics(r)
    BY <2>6 DEF RoutingPanics
  <2>7. CASE BadRecord(r)
    BY <2>7 DEF BadRecord
  <2>8. CASE FlushAll(r)
    BY <2>8 DEF FlushAll
  <2>9. CASE OpenData(r)
    <3>1. UNCHANGED <<copies, meta, cache, seen>>
      BY <2>9 DEF OpenData
    <3> QED
      BY <3>1, HistoryGrows
  <2>19. ASSUME NEW chunk \in SUBSET unwritten[r], Spill(r, chunk) PROVE BitsInv'
    <3>1. UNCHANGED <<meta, cache, seen, damaged>>
      BY <2>19 DEF Spill
    <3>2. damaged = {} => Stored' = Stored \cup chunk
      BY <2>19, SpillStores
    <3> HIDE DEF Stored
    <3> QED
      BY <3>1, <3>2
  <2>10. CASE ReadMeta(r)
    <3> DEFINE text == Merged(meta, mem[r], LayoutsOf(r))
    <3>1. text.bits = meta.bits \cup mem[r]
      BY DEF Merged
    <3>2. /\ pc[r] = "meta" /\ UNCHANGED <<copies, meta, cache, damaged>>
          /\ seen' = [seen EXCEPT ![r] = text]
      BY <2>10 DEF ReadMeta
    <3> HIDE DEF text
    <3>3. Stored' = Stored
      BY <3>2
    <3>4. damaged = {} => mem[r] \subseteq Stored
      BY <3>2 DEF StoredInv, LoadStored
    <3> HIDE DEF Stored
    <3> QED
      BY <3>1, <3>2, <3>3, <3>4
  <2>11. CASE ReadMetaFails(r)
    BY <2>11 DEF ReadMetaFails
  <2>12. CASE TruncateMeta(r)
    <3>1. UNCHANGED <<copies, cache, seen>> /\ meta'.bits = {}
      BY <2>12 DEF TruncateMeta, Truncated
    <3> QED
      BY <3>1, HistoryGrows
  <2>13. CASE WriteMeta(r)
    <3>1. UNCHANGED <<copies, cache, seen, damaged>>
      BY <2>13 DEF WriteMeta
    <3>2. damaged = {} => meta' = seen[r]
      BY <2>13, TextSafe
    <3> QED
      BY <3>1, <3>2
  <2>14. CASE RemoveLog(r)
    BY <2>14 DEF RemoveLog
  <2>15. CASE LoadSegments(r)
    BY <2>15 DEF LoadSegments
  <2>16. CASE LoadSegmentsFails(r)
    BY <2>16 DEF LoadSegmentsFails
  <2>17. CASE InstallReader(r)
    BY <2>17 DEF InstallReader
  <2>18. CASE FinishLoad(r)
    BY <2>18 DEF FinishLoad
  <2> QED
    BY <1>3, <2>1, <2>2, <2>3, <2>4, <2>5, <2>6, <2>7, <2>8, <2>9, <2>10, <2>11,
       <2>12, <2>13, <2>14, <2>15, <2>16, <2>17, <2>18, <2>19 DEF LoadStep
<1>4. ASSUME NEW r \in Requests, Disconnect(r) PROVE BitsInv'
  BY <1>4 DEF Disconnect
<1>5. CASE Crash
  <2>1. UNCHANGED <<meta, seen>> /\ cache'.bits = {}
    BY <1>5 DEF Crash
  <2>2. damaged' = {} => damaged = {} /\ copies' = copies
    BY <1>5 DEF Crash, LeaveBehind
  <2> QED
    BY <2>1, <2>2
<1>6. CASE Restart
  BY <1>6 DEF Restart
<1>7. CASE StartFlight
  BY <1>7 DEF StartFlight
<1>8. ASSUME NEW f \in Flights, SubmitFlight(f) PROVE BitsInv'
  BY <1>8 DEF SubmitFlight
<1>9. ASSUME NEW f \in Flights, FlightStep(f) PROVE BitsInv'
  <2>1. CASE FlightSegments(f)
    BY <2>1 DEF FlightSegments
  <2>2. CASE FlightSegmentsFails(f)
    BY <2>2 DEF FlightSegmentsFails
  <2>3. CASE FlightScan(f)
    BY <2>3 DEF FlightScan
  <2> QED
    BY <1>9, <2>1, <2>2, <2>3 DEF FlightStep
<1>10. CASE UNCHANGED vars
  BY <1>10 DEF vars
<1> QED
  BY <1>1, <1>2, <1>3, <1>4, <1>5, <1>6, <1>7, <1>8, <1>9, <1>10 DEF Next

(* The files, what loads have stored, and what metadata says of it. *)
THEOREM BitsInvariant ==
  Spec => [](TypeOK /\ FileInv /\ StoredInv /\ BitsInv)
<1>1. Init => BitsInv
  BY BitsInit
<1>2. (TypeOK /\ FileInv /\ StoredInv) /\ BitsInv /\ [Next]_vars => BitsInv'
  BY BitsStep
<1> QED
  BY <1>1, <1>2, StoredInvariant, PTL DEF Spec

(* However loads interleave and fail, and also after a crash, the cached    *)
(* metadata claims only rows that are in the data file, so no segment is    *)
(* ever read for nothing: unless two loads wrote one file at the same       *)
(* moment or a crash cut the data file.                                     *)
THEOREM CacheClaimsStored ==
  Spec => [](damaged = {} => cache.bits \subseteq Stored)
<1>1. BitsInv => (damaged = {} => cache.bits \subseteq Stored)
  BY DEF BitsInv
<1> QED
  BY <1>1, BitsInvariant, PTL

-----------------------------------------------------------------------------
(* One load at a time: what queries may rely on.                           *)

Active(r) == pc[r] \notin {"new", "done"}

(* The metadata b says all that a says. *)
Below(a, b) == a.bits \subseteq b.bits /\ a.row_count <= b.row_count

(* Every row of a load that was answered with 200 is among them. *)
Keeps(bits) == \A l \in Loads : answer[l] = "ok" => LoadRows[l] \subseteq bits

OneAtATime ==
  /\ \A l, k \in Loads : Active(l) /\ Active(k) => l = k
  /\ ~up => \A l \in Loads : ~Active(l)

MapKeeps ==
  /\ ~meta.torn => Keeps(meta.bits) /\ Below(cache, meta)
  /\ table # {} => Keeps(cache.bits)

LoadKeeps(r) ==
  /\ pc[r] = "json" => meta = Truncated
  /\ pc[r] \in {"truncate", "json"} =>
       /\ Keeps(seen[r].bits)
       /\ Below(cache, seen[r])
       /\ ~replaying[r] => LoadRows[r] \subseteq seen[r].bits
  /\ pc[r] \in {"remove", "refresh"} => meta.torn \/ LoadRows[r] \subseteq meta.bits
  /\ pc[r] \in {"reader_write", "stats"} => ~meta.torn /\ LoadRows[r] \subseteq meta.bits
  /\ pc[r] = "reader_write" => seen[r] = meta
  /\ pc[r] = "stats" => cache = meta

SerialInv == OneAtATime /\ MapKeeps /\ \A r \in Loads : LoadKeeps(r)

(* No layout is unheard of. *)
LayoutsInv ==
  /\ meta.layouts \subseteq layouts /\ cache.layouts \subseteq layouts
  /\ \A r \in Loads :
       /\ seen[r].layouts \subseteq layouts
       /\ pc[r] \in {"spill", "meta"} => LayoutsOf(r) \subseteq layouts

(* Metadata says all it says itself, more than an empty file, and never *)
(* less once rows have been merged in.                                   *)
LEMMA BelowFacts ==
  /\ \A m \in Metas : Below(m, m) /\ Below(NoMeta, m)
  /\ \A c, m \in Metas : \A rows \in SUBSET Rows : \A as :
       /\ Below(c, m) => Below(c, Merged(m, rows, as))
       /\ m.bits \cup rows \subseteq Merged(m, rows, as).bits
<1>1. ASSUME NEW c \in Metas, NEW m \in Metas, NEW rows \in SUBSET Rows, NEW as
      PROVE  /\ Below(c, m) => Below(c, Merged(m, rows, as))
             /\ m.bits \cup rows \subseteq Merged(m, rows, as).bits
  <2>1. Cardinality(rows) \in Nat
    BY FS_Subset, FS_CardinalityType, RequestAssumption
  <2> QED
    BY <2>1 DEF Metas, Below, Merged
<1>2. \A m \in Metas : Below(m, m) /\ Below(NoMeta, m)
  BY DEF Metas, Below, NoMeta
<1> QED
  BY <1>1, <1>2

(* A load is sent only when none runs, and dies with the process. *)
LEMMA OneAtATimeStep ==
  ASSUME SerialLoads, TypeOK, OneAtATime, [Next]_vars
  PROVE  OneAtATime'
<1> USE DEF TypeOK, Requests, Readers, OneAtATime, Active, Goto, Reply, disk, server, locks,
            spill, locals, history
<1>1. ASSUME NEW r \in Loads \cup Queries, Submit(r) PROVE OneAtATime'
  BY <1>1 DEF Submit
<1>2. ASSUME NEW q \in Queries, QueryStep(q) PROVE OneAtATime'
  <2>1. CASE LookupForQuery(q)
    BY <2>1 DEF LookupForQuery
  <2>2. CASE Prune(q)
    BY <2>2 DEF Prune
  <2>3. CASE Scan(q)
    BY <2>3 DEF Scan
  <2> QED
    BY <1>2, <2>1, <2>2, <2>3 DEF QueryStep
<1>3. ASSUME NEW r \in Loads, LoadStep(r) PROVE OneAtATime'
  <2>1. CASE LookupForLoad(r)
    BY <2>1 DEF LookupForLoad
  <2>2. CASE CreateTable(r)
    BY <2>2 DEF CreateTable
  <2>3. CASE OpenWriter(r)
    BY <2>3 DEF OpenWriter
  <2>4. CASE OpenLog(r)
    BY <2>4 DEF OpenLog
  <2>5. ASSUME NEW x \in Rows, AppendRow(r, x) PROVE OneAtATime'
    BY <2>5 DEF AppendRow
  <2>6. CASE RoutingPanics(r)
    BY <2>6 DEF RoutingPanics
  <2>7. CASE BadRecord(r)
    BY <2>7 DEF BadRecord
  <2>8. CASE FlushAll(r)
    BY <2>8 DEF FlushAll
  <2>9. CASE OpenData(r)
    BY <2>9 DEF OpenData
  <2>19. ASSUME NEW chunk \in SUBSET unwritten[r], Spill(r, chunk) PROVE OneAtATime'
    BY <2>19 DEF Spill
  <2>10. CASE ReadMeta(r)
    BY <2>10 DEF ReadMeta
  <2>11. CASE ReadMetaFails(r)
    BY <2>11 DEF ReadMetaFails
  <2>12. CASE TruncateMeta(r)
    BY <2>12 DEF TruncateMeta
  <2>13. CASE WriteMeta(r)
    BY <2>13 DEF WriteMeta
  <2>14. CASE RemoveLog(r)
    BY <2>14 DEF RemoveLog
  <2>15. CASE LoadSegments(r)
    BY <2>15 DEF LoadSegments
  <2>16. CASE LoadSegmentsFails(r)
    BY <2>16 DEF LoadSegmentsFails
  <2>17. CASE InstallReader(r)
    BY <2>17 DEF InstallReader
  <2>18. CASE FinishLoad(r)
    BY <2>18 DEF FinishLoad
  <2> QED
    BY <1>3, <2>1, <2>2, <2>3, <2>4, <2>5, <2>6, <2>7, <2>8, <2>9, <2>10, <2>11,
       <2>12, <2>13, <2>14, <2>15, <2>16, <2>17, <2>18, <2>19 DEF LoadStep
<1>4. ASSUME NEW r \in Requests, Disconnect(r) PROVE OneAtATime'
  BY <1>4 DEF Disconnect
<1>5. CASE Crash
  <2>1. \A l \in Loads : pc'[l] \in {"new", "done"}
    BY <1>5, RequestAssumption DEF Crash
  <2> QED
    BY <2>1
<1>6. CASE Restart
  BY <1>6 DEF Restart
<1>7. CASE StartFlight
  BY <1>7 DEF StartFlight
<1>8. ASSUME NEW f \in Flights, SubmitFlight(f) PROVE OneAtATime'
  <2>1. \A l \in Loads : pc'[l] = pc[l]
    BY <1>8, RequestAssumption DEF SubmitFlight
  <2> QED
    BY <1>8, <2>1 DEF SubmitFlight
<1>9. ASSUME NEW f \in Flights, FlightStep(f) PROVE OneAtATime'
  <2>1. CASE FlightSegments(f)
    BY <2>1 DEF FlightSegments
  <2>2. CASE FlightSegmentsFails(f)
    BY <2>2 DEF FlightSegmentsFails
  <2>3. CASE FlightScan(f)
    BY <2>3 DEF FlightScan
  <2> QED
    BY <1>9, <2>1, <2>2, <2>3 DEF FlightStep
<1>10. CASE UNCHANGED vars
  BY <1>10 DEF vars
<1> QED
  BY <1>1, <1>2, <1>3, <1>4, <1>5, <1>6, <1>7, <1>8, <1>9, <1>10 DEF Next

(* A load that runs alone writes the metadata it has merged. *)
LEMMA WrittenAlone ==
  ASSUME SerialInv, NEW r \in Loads, WriteMeta(r)
  PROVE  meta' = seen[r]
<1>1. meta = Truncated /\ Writing(r) = {}
  BY DEF SerialInv, OneAtATime, Active, LoadKeeps, WriteMeta, Goto, Writing
<1>2. Texts(r) = {seen[r]}
  BY <1>1 DEF Texts
<1> QED
  BY <1>2 DEF WriteMeta

(* The file and the cached reader keep the rows of answered loads. *)
LEMMA MapKeepsStep ==
  ASSUME SerialLoads, TypeOK, StoredInv, SerialInv, [Next]_vars
  PROVE  MapKeeps'
<1> USE DEF TypeOK, Requests, Readers, StoredInv, SerialInv, MapKeeps, Keeps, Below, Goto, Reply,
            disk, server, locks, spill, locals, history
<1>1. ASSUME NEW r \in Loads \cup Queries, Submit(r) PROVE MapKeeps'
  BY <1>1 DEF Submit
<1>2. ASSUME NEW q \in Queries, QueryStep(q) PROVE MapKeeps'
  <2>1. CASE LookupForQuery(q)
    BY <2>1 DEF LookupForQuery
  <2>2. CASE Prune(q)
    BY <2>2 DEF Prune
  <2>3. CASE Scan(q)
    BY <2>3, RequestAssumption DEF Scan
  <2> QED
    BY <1>2, <2>1, <2>2, <2>3 DEF QueryStep
<1>3. ASSUME NEW r \in Loads, LoadStep(r) PROVE MapKeeps'
  <2>1. CASE LookupForLoad(r)
    BY <2>1 DEF LookupForLoad
  <2>2. CASE CreateTable(r)
    <3>1. UNCHANGED <<meta, table>> /\ (cache' = cache \/ cache' = meta)
      BY <2>2 DEF CreateTable
    <3>2. (~meta.torn /\ table = {}) \/ cache' = cache
      BY <2>2 DEF CreateTable
    <3>3. Below(meta, meta) /\ \A l \in Loads : answer'[l] = "ok" => answer[l] = "ok"
      BY <2>2, BelowFacts DEF CreateTable
    <3> HIDE DEF Below
    <3> QED
      BY <3>1, <3>2, <3>3
  <2>3. CASE OpenWriter(r)
    BY <2>3 DEF OpenWriter
  <2>4. CASE OpenLog(r)
    BY <2>4 DEF OpenLog
  <2>5. ASSUME NEW x \in Rows, AppendRow(r, x) PROVE MapKeeps'
    BY <2>5 DEF AppendRow
  <2>6. CASE RoutingPanics(r)
    BY <2>6 DEF RoutingPanics
  <2>7. CASE BadRecord(r)
    BY <2>7 DEF BadRecord
  <2>8. CASE FlushAll(r)
    BY <2>8 DEF FlushAll
  <2>9. CASE OpenData(r)
    BY <2>9 DEF OpenData
  <2>19. ASSUME NEW chunk \in SUBSET unwritten[r], Spill(r, chunk) PROVE MapKeeps'
    BY <2>19 DEF Spill
  <2>10. CASE ReadMeta(r)
    BY <2>10 DEF ReadMeta
  <2>11. CASE ReadMetaFails(r)
    BY <2>11 DEF ReadMetaFails
  <2>12. CASE TruncateMeta(r)
    BY <2>12 DEF TruncateMeta, Truncated
  <2>13. CASE WriteMeta(r)
    <3>1. UNCHANGED <<cache, table, answer>> /\ meta' = seen[r]
      BY <2>13, WrittenAlone DEF WriteMeta
    <3>2. Keeps(seen[r].bits) /\ Below(cache, seen[r])
      BY <2>13 DEF WriteMeta, LoadKeeps
    <3> QED
      BY <3>1, <3>2
  <2>14. CASE RemoveLog(r)
    BY <2>14 DEF RemoveLog
  <2>15. CASE LoadSegments(r)
    BY <2>15 DEF LoadSegments
  <2>16. CASE LoadSegmentsFails(r)
    BY <2>16 DEF LoadSegmentsFails
  <2>17. CASE InstallReader(r)
    <3>1. UNCHANGED <<meta, table, answer>> /\ cache' = seen[r]
      BY <2>17 DEF InstallReader
    <3>2. seen[r] = meta /\ ~meta.torn
      BY <2>17 DEF InstallReader, LoadKeeps
    <3>3. Below(meta, meta)
      BY BelowFacts
    <3> HIDE DEF Below
    <3> QED
      BY <3>1, <3>2, <3>3
  <2>18. CASE FinishLoad(r)
    <3>1. UNCHANGED <<meta, cache>> /\ answer' = [answer EXCEPT ![r] = "ok"]
      BY <2>18 DEF FinishLoad
    <3>2. cache = meta /\ ~meta.torn /\ LoadRows[r] \subseteq meta.bits
      BY <2>18 DEF FinishLoad, LoadKeeps
    <3>3. Keeps(meta.bits)'
      BY <3>1, <3>2
    <3>4. Below(cache, meta)'
      BY <3>1, <3>2
    <3> HIDE DEF Below, Keeps
    <3> QED
      BY <3>1, <3>2, <3>3, <3>4
  <2> QED
    BY <1>3, <2>1, <2>2, <2>3, <2>4, <2>5, <2>6, <2>7, <2>8, <2>9, <2>10, <2>11,
       <2>12, <2>13, <2>14, <2>15, <2>16, <2>17, <2>18, <2>19 DEF LoadStep
<1>4. ASSUME NEW r \in Requests, Disconnect(r) PROVE MapKeeps'
  BY <1>4 DEF Disconnect
<1>5. CASE Crash
  <2>1. Below(NoMeta, meta)
    BY BelowFacts
  <2>2. UNCHANGED <<meta, answer>> /\ cache' = NoMeta /\ table' = {}
    BY <1>5 DEF Crash
  <2> HIDE DEF Below
  <2> QED
    BY <2>1, <2>2
<1>6. CASE Restart
  <2>1. Below(meta, meta)
    BY BelowFacts
  <2>2. UNCHANGED <<meta, answer>>
    BY <1>6 DEF Restart
  <2>3. (~meta.torn /\ cache' = meta) \/ (cache' = cache /\ table' = table)
    BY <1>6 DEF Restart
  <2> HIDE DEF Below
  <2> QED
    BY <2>1, <2>2, <2>3
<1>7. CASE StartFlight
  BY <1>7 DEF StartFlight
<1>8. ASSUME NEW f \in Flights, SubmitFlight(f) PROVE MapKeeps'
  BY <1>8 DEF SubmitFlight
<1>9. ASSUME NEW f \in Flights, FlightStep(f) PROVE MapKeeps'
  <2>1. CASE FlightSegments(f)
    BY <2>1 DEF FlightSegments
  <2>2. CASE FlightSegmentsFails(f)
    BY <2>2 DEF FlightSegmentsFails
  <2>3. CASE FlightScan(f)
    BY <2>3, RequestAssumption DEF FlightScan
  <2> QED
    BY <1>9, <2>1, <2>2, <2>3 DEF FlightStep
<1>10. CASE UNCHANGED vars
  BY <1>10 DEF vars
<1> QED
  BY <1>1, <1>2, <1>3, <1>4, <1>5, <1>6, <1>7, <1>8, <1>9, <1>10 DEF Next

(* So does what a running load is about to write or install. *)
LEMMA LoadKeepsStep ==
  ASSUME SerialLoads, TypeOK, StoredInv, SerialInv, [Next]_vars, NEW l \in Loads
  PROVE  LoadKeeps(l)'
<1> USE DEF TypeOK, Requests, Readers, StoredInv, SerialInv, LoadKeeps, OneAtATime, Active,
            Keeps, Below, Goto, Reply, disk, server, locks, spill, locals, history
<1>1. ASSUME NEW r \in Loads \cup Queries, Submit(r) PROVE LoadKeeps(l)'
  BY <1>1 DEF Submit
<1>2. ASSUME NEW q \in Queries, QueryStep(q) PROVE LoadKeeps(l)'
  <2>1. CASE LookupForQuery(q)
    BY <2>1 DEF LookupForQuery
  <2>2. CASE Prune(q)
    BY <2>2 DEF Prune
  <2>3. CASE Scan(q)
    BY <2>3 DEF Scan
  <2> QED
    BY <1>2, <2>1, <2>2, <2>3 DEF QueryStep
<1>3. ASSUME NEW r \in Loads, LoadStep(r) PROVE LoadKeeps(l)'
  <2>1. CASE LookupForLoad(r)
    BY <2>1 DEF LookupForLoad
  <2>2. CASE CreateTable(r)
    BY <2>2 DEF CreateTable
  <2>3. CASE OpenWriter(r)
    BY <2>3 DEF OpenWriter
  <2>4. CASE OpenLog(r)
    BY <2>4 DEF OpenLog
  <2>5. ASSUME NEW x \in Rows, AppendRow(r, x) PROVE LoadKeeps(l)'
    BY <2>5 DEF AppendRow
  <2>6. CASE RoutingPanics(r)
    BY <2>6 DEF RoutingPanics
  <2>7. CASE BadRecord(r)
    BY <2>7 DEF BadRecord
  <2>8. CASE FlushAll(r)
    BY <2>8 DEF FlushAll
  <2>9. CASE OpenData(r)
    BY <2>9 DEF OpenData
  <2>19. ASSUME NEW chunk \in SUBSET unwritten[r], Spill(r, chunk) PROVE LoadKeeps(l)'
    BY <2>19 DEF Spill
  <2>10. CASE ReadMeta(r)
    <3> DEFINE text == Merged(meta, mem[r], LayoutsOf(r))
    <3>1. UNCHANGED <<meta, cache, answer, replaying>> /\ ~meta.torn
          /\ seen' = [seen EXCEPT ![r] = text]
          /\ pc' = [pc EXCEPT ![r] = "truncate"] /\ pc[r] = "meta"
      BY <2>10 DEF ReadMeta
    <3>2. Below(cache, text) /\ Keeps(text.bits) /\ mem[r] \subseteq text.bits
      BY <3>1, BelowFacts DEF MapKeeps
    <3>3. ~replaying[r] => mem[r] = LoadRows[r]
      BY <3>1 DEF LoadStored
    <3> HIDE DEF Below, text
    <3> QED
      BY <3>1, <3>2, <3>3
  <2>11. CASE ReadMetaFails(r)
    BY <2>11 DEF ReadMetaFails
  <2>12. CASE TruncateMeta(r)
    BY <2>12 DEF TruncateMeta
  <2>13. CASE WriteMeta(r)
    <3>1. CASE l = r
      <4>1. meta' = seen[l] /\ UNCHANGED <<seen, cache, answer>> /\ pc[l] = "json"
            /\ pc'[l] = IF replaying[l] THEN "log" ELSE "remove"
        BY <2>13, <3>1, WrittenAlone DEF WriteMeta
      <4> QED
        BY <4>1
    <3>2. CASE l # r
      <4>1. pc'[l] = pc[l] /\ pc[l] \in {"new", "done"}
        BY <2>13, <3>2 DEF WriteMeta
      <4> QED
        BY <4>1
    <3> QED
      BY <3>1, <3>2
  <2>14. CASE RemoveLog(r)
    BY <2>14 DEF RemoveLog
  <2>15. CASE LoadSegments(r)
    BY <2>15 DEF LoadSegments
  <2>16. CASE LoadSegmentsFails(r)
    BY <2>16 DEF LoadSegmentsFails
  <2>17. CASE InstallReader(r)
    BY <2>17 DEF InstallReader
  <2>18. CASE FinishLoad(r)
    BY <2>18 DEF FinishLoad
  <2> QED
    BY <1>3, <2>1, <2>2, <2>3, <2>4, <2>5, <2>6, <2>7, <2>8, <2>9, <2>10, <2>11,
       <2>12, <2>13, <2>14, <2>15, <2>16, <2>17, <2>18, <2>19 DEF LoadStep
<1>4. ASSUME NEW r \in Requests, Disconnect(r) PROVE LoadKeeps(l)'
  BY <1>4 DEF Disconnect
<1>5. CASE Crash
  <2>1. pc'[l] \in {"new", "done"}
    BY <1>5, RequestAssumption DEF Crash
  <2> QED
    BY <2>1
<1>6. CASE Restart
  BY <1>6 DEF Restart
<1>7. CASE StartFlight
  BY <1>7 DEF StartFlight
<1>8. ASSUME NEW f \in Flights, SubmitFlight(f) PROVE LoadKeeps(l)'
  BY <1>8 DEF SubmitFlight
<1>9. ASSUME NEW f \in Flights, FlightStep(f) PROVE LoadKeeps(l)'
  <2>1. CASE FlightSegments(f)
    BY <2>1 DEF FlightSegments
  <2>2. CASE FlightSegmentsFails(f)
    BY <2>2 DEF FlightSegmentsFails
  <2>3. CASE FlightScan(f)
    BY <2>3 DEF FlightScan
  <2> QED
    BY <1>9, <2>1, <2>2, <2>3 DEF FlightStep
<1>10. CASE UNCHANGED vars
  BY <1>10 DEF vars
<1> QED
  BY <1>1, <1>2, <1>3, <1>4, <1>5, <1>6, <1>7, <1>8, <1>9, <1>10 DEF Next

(* No load is answered or running in the first state. *)
LEMMA SerialInit ==
  Init => SerialInv
  BY DEF Init, SerialInv, OneAtATime, MapKeeps, LoadKeeps, Active, Keeps, Below, NoMeta,
         Requests

(* Every step keeps the three parts of the invariant. *)
LEMMA SerialStep ==
  ASSUME SerialLoads, TypeOK, StoredInv, SerialInv, [Next]_vars
  PROVE  SerialInv'
  BY OneAtATimeStep, MapKeepsStep, LoadKeepsStep DEF SerialInv

(* A step that moves no load and no table knows no new layout. *)
LEMMA LayoutsFrame ==
  ASSUME LayoutsInv, UNCHANGED <<meta, cache, seen, table, creating, layouts>>,
         \A l \in Loads : pc'[l] \in {"spill", "meta"} => pc[l] \in {"spill", "meta"}
  PROVE  LayoutsInv'
<1>1. \A l \in Loads : LayoutsOf(l)' = LayoutsOf(l)
  BY DEF LayoutsOf
<1> QED
  BY <1>1 DEF LayoutsInv

(* Every layout in metadata is one that rows were written in. *)
LEMMA LayoutsStep ==
  ASSUME SerialLoads, TypeOK, SerialInv, LayoutsInv, [Next]_vars
  PROVE  LayoutsInv'
<1> USE LayoutsFrame DEF TypeOK, Requests, Readers, Goto, Reply, disk, server, locks,
            spill, locals, history
<1>1. ASSUME NEW r \in Loads \cup Queries, Submit(r) PROVE LayoutsInv'
  BY <1>1 DEF Submit
<1>2. ASSUME NEW q \in Queries, QueryStep(q) PROVE LayoutsInv'
  <2>1. CASE LookupForQuery(q)
    BY <2>1 DEF LookupForQuery
  <2>2. CASE Prune(q)
    BY <2>2 DEF Prune
  <2>3. CASE Scan(q)
    BY <2>3 DEF Scan
  <2> QED
    BY <1>2, <2>1, <2>2, <2>3 DEF QueryStep
<1>3. ASSUME NEW r \in Loads, LoadStep(r) PROVE LayoutsInv'
  <2>0. \A l \in Loads \ {r} : Active(r) => ~Active(l)
    BY DEF SerialInv, OneAtATime
  <2>1. CASE LookupForLoad(r)
    BY <2>1 DEF LookupForLoad
  <2>2. CASE CreateTable(r)
    <3>1. pc[r] = "state_write" /\ UNCHANGED <<meta, seen, table, layouts>>
          /\ (cache' = cache \/ cache' = meta)
          /\ pc'[r] \in {"open", "done"} /\ \A l \in Loads \ {r} : pc'[l] = pc[l]
      BY <2>2 DEF CreateTable
    <3>2. \A l \in Loads : pc'[l] \notin {"spill", "meta"}
      BY <2>0, <3>1 DEF Active
    <3> QED
      BY <3>1, <3>2 DEF LayoutsInv
  <2>3. CASE OpenWriter(r)
    BY <2>3 DEF OpenWriter
  <2>4. CASE OpenLog(r)
    BY <2>4 DEF OpenLog
  <2>5. ASSUME NEW x \in Rows, AppendRow(r, x) PROVE LayoutsInv'
    BY <2>5 DEF AppendRow
  <2>6. CASE RoutingPanics(r)
    BY <2>6 DEF RoutingPanics
  <2>7. CASE BadRecord(r)
    BY <2>7 DEF BadRecord
  <2>8. CASE FlushAll(r)
    BY <2>8 DEF FlushAll
  <2>9. CASE OpenData(r)
    <3>1. UNCHANGED <<meta, cache, seen, table, creating>>
          /\ layouts' = layouts \cup LayoutsOf(r)
          /\ \A l \in Loads \ {r} : pc'[l] = pc[l]
      BY <2>9 DEF OpenData
    <3>2. \A l \in Loads : LayoutsOf(l)' = LayoutsOf(l)
      BY <3>1 DEF LayoutsOf
    <3> QED
      BY <3>1, <3>2 DEF LayoutsInv
  <2>19. ASSUME NEW chunk \in SUBSET unwritten[r], Spill(r, chunk) PROVE LayoutsInv'
    BY <2>19 DEF Spill
  <2>10. CASE ReadMeta(r)
    <3> DEFINE text == Merged(meta, mem[r], LayoutsOf(r))
    <3>1. UNCHANGED <<meta, cache, layouts, table, creating>> /\ pc[r] = "meta"
          /\ seen' = [seen EXCEPT ![r] = text]
          /\ pc' = [pc EXCEPT ![r] = "truncate"]
      BY <2>10 DEF ReadMeta
    <3>2. text.layouts = meta.layouts \cup LayoutsOf(r)
      BY DEF Merged
    <3>3. \A l \in Loads : LayoutsOf(l)' = LayoutsOf(l)
      BY <3>1 DEF LayoutsOf
    <3> HIDE DEF text
    <3> QED
      BY <3>1, <3>2, <3>3 DEF LayoutsInv
  <2>11. CASE ReadMetaFails(r)
    BY <2>11 DEF ReadMetaFails
  <2>12. CASE TruncateMeta(r)
    <3>1. UNCHANGED <<cache, seen, layouts, table, creating>> /\ meta' = Truncated
          /\ pc' = [pc EXCEPT ![r] = "json"]
      BY <2>12 DEF TruncateMeta
    <3>2. \A l \in Loads : LayoutsOf(l)' = LayoutsOf(l)
      BY <3>1 DEF LayoutsOf
    <3> QED
      BY <3>1, <3>2 DEF LayoutsInv, Truncated, NoMeta
  <2>13. CASE WriteMeta(r)
    <3>1. UNCHANGED <<cache, seen, layouts, table, creating>> /\ meta' = seen[r]
          /\ pc' = [pc EXCEPT ![r] = IF replaying[r] THEN "log" ELSE "remove"]
      BY <2>13, WrittenAlone DEF WriteMeta
    <3>2. \A l \in Loads : LayoutsOf(l)' = LayoutsOf(l)
      BY <3>1 DEF LayoutsOf
    <3> QED
      BY <3>1, <3>2 DEF LayoutsInv
  <2>14. CASE RemoveLog(r)
    BY <2>14 DEF RemoveLog
  <2>15. CASE LoadSegments(r)
    <3>1. UNCHANGED <<meta, cache, layouts, table, creating>>
          /\ seen' = [seen EXCEPT ![r] = meta]
          /\ pc' = [pc EXCEPT ![r] = "reader_write"]
      BY <2>15 DEF LoadSegments
    <3>2. \A l \in Loads : LayoutsOf(l)' = LayoutsOf(l)
      BY <3>1 DEF LayoutsOf
    <3> QED
      BY <3>1, <3>2 DEF LayoutsInv
  <2>16. CASE LoadSegmentsFails(r)
    BY <2>16 DEF LoadSegmentsFails
  <2>17. CASE InstallReader(r)
    <3>1. UNCHANGED <<meta, seen, layouts, table, creating>> /\ cache' = seen[r]
          /\ pc' = [pc EXCEPT ![r] = "stats"]
      BY <2>17 DEF InstallReader
    <3>2. \A l \in Loads : LayoutsOf(l)' = LayoutsOf(l)
      BY <3>1 DEF LayoutsOf
    <3> QED
      BY <3>1, <3>2 DEF LayoutsInv
  <2>18. CASE FinishLoad(r)
    <3>1. pc[r] = "stats" /\ UNCHANGED <<meta, cache, seen, layouts>>
          /\ pc'[r] = "done" /\ \A l \in Loads \ {r} : pc'[l] = pc[l]
      BY <2>18 DEF FinishLoad
    <3>2. \A l \in Loads : pc'[l] \notin {"spill", "meta"}
      BY <2>0, <3>1 DEF Active
    <3> QED
      BY <3>1, <3>2 DEF LayoutsInv
  <2> QED
    BY <1>3, <2>1, <2>2, <2>3, <2>4, <2>5, <2>6, <2>7, <2>8, <2>9, <2>10, <2>11,
       <2>12, <2>13, <2>14, <2>15, <2>16, <2>17, <2>18, <2>19 DEF LoadStep
<1>4. ASSUME NEW r \in Requests, Disconnect(r) PROVE LayoutsInv'
  BY <1>4 DEF Disconnect
<1>5. CASE Crash
  <2>1. \A l \in Loads : pc'[l] \in {"new", "done"}
    BY <1>5, RequestAssumption DEF Crash
  <2>2. UNCHANGED <<meta, seen, layouts>> /\ cache' = NoMeta
    BY <1>5 DEF Crash
  <2> QED
    BY <2>1, <2>2 DEF LayoutsInv, NoMeta
<1>6. CASE Restart
  <2>1. UNCHANGED <<meta, seen, layouts, pc>> /\ ~up /\ (cache' = cache \/ cache' = meta)
    BY <1>6 DEF Restart
  <2>2. \A l \in Loads : pc'[l] \notin {"spill", "meta"}
    BY <2>1 DEF SerialInv, OneAtATime, Active
  <2> QED
    BY <2>1, <2>2 DEF LayoutsInv
<1>7. CASE StartFlight
  BY <1>7 DEF StartFlight
<1>8. ASSUME NEW f \in Flights, SubmitFlight(f) PROVE LayoutsInv'
  BY <1>8 DEF SubmitFlight
<1>9. ASSUME NEW f \in Flights, FlightStep(f) PROVE LayoutsInv'
  <2>1. CASE FlightSegments(f)
    BY <2>1 DEF FlightSegments
  <2>2. CASE FlightSegmentsFails(f)
    BY <2>2 DEF FlightSegmentsFails
  <2>3. CASE FlightScan(f)
    BY <2>3 DEF FlightScan
  <2> QED
    BY <1>9, <2>1, <2>2, <2>3 DEF FlightStep
<1>10. CASE UNCHANGED vars
  BY <1>10 DEF vars
<1> QED
  BY <1>1, <1>2, <1>3, <1>4, <1>5, <1>6, <1>7, <1>8, <1>9, <1>10 DEF Next

(* With one layout, the pruning of a query is as its metadata has it. *)
LEMMA KeptInOneLayout ==
  ASSUME NEW m, NEW x, NEW b \in KeptBy(m, x), m.layouts \subseteq layouts,
         x \in m.bits
  PROVE  b \/ ~Uniform(layouts)
  BY DEF KeptBy, Uniform

(* A query whose row was promised: the metadata it prunes with names the   *)
(* row, and so the segment is kept and read.                               *)
QueryFinds(q) ==
  /\ q \in Queries /\ pc[q] = "reader_read" => table # {}
  /\ q \in expected =>
       /\ pc[q] # "new"
       /\ \E k \in Loads : answer[k] = "ok" /\ Target[q] \in LoadRows[k]
       /\ pc[q] \in {"scan", "flight_scan"} => kept[q] \/ ~Uniform(layouts)
       /\ answer[q] = "empty" => damaged # {} \/ ~Uniform(layouts)
       /\ answer[q] = "not_found" => crashes # 0

(* No query has been sent in the first state. *)
LEMMA QueryInit ==
  Init => \A q \in Readers : QueryFinds(q)
  BY DEF Init, QueryFinds, Requests

(* The row a query was promised is stored, and named wherever it looks. *)
LEMMA PromisedRow ==
  ASSUME TypeOK, StoredInv, SerialInv, NEW p \in Readers, QueryFinds(p), p \in expected
  PROVE  /\ "data" \notin damaged => copies[Target[p]] > 0
         /\ table # {} => Target[p] \in cache.bits
         /\ ~meta.torn => Target[p] \in meta.bits
         /\ crashes = 0 => table # {}
  BY DEF QueryFinds, StoredInv, LoadStored, Stored, SerialInv, MapKeeps, Keeps

(* A scan that misses a stored row was misled by its pruning. *)
LEMMA ScanFinds ==
  ASSUME NEW p \in Readers, NEW result \in Results(p), result = "empty"
  PROVE  ~kept[p] \/ ~(copies[Target[p]] > 0)
  BY DEF Results

(* Every step keeps what a query was promised. *)
LEMMA QueryStepFinds ==
  ASSUME TypeOK, StoredInv, SerialInv, LayoutsInv, [Next]_vars,
         NEW p \in Readers, QueryFinds(p)
  PROVE  QueryFinds(p)'
<1> USE DEF TypeOK, StoredInv, Requests, Readers, QueryFinds, Goto, Reply, disk, server, locks,
            spill, locals, history
<1>0. ASSUME p \in expected
      PROVE  /\ "data" \notin damaged => copies[Target[p]] > 0
             /\ table # {} => Target[p] \in cache.bits
             /\ ~meta.torn => Target[p] \in meta.bits
             /\ crashes = 0 => table # {}
  BY <1>0, PromisedRow
<1>h. /\ damaged # {} => damaged' # {}
      /\ ~Uniform(layouts) => ~Uniform(layouts')
  BY HistoryGrows DEF Uniform
<1> USE <1>h
<1>1. ASSUME NEW r \in Loads \cup Queries, Submit(r) PROVE QueryFinds(p)'
  <2>1. UNCHANGED <<table, crashes, answer, kept>> /\ pc' = [pc EXCEPT ![r] = "state_read"]
    BY <1>1 DEF Submit
  <2>2. p \in expected' => p \in expected \/ Loaded(p)
    BY <1>1 DEF Submit
  <2>3. p \in expected' => \E k \in Loads : answer[k] = "ok" /\ Target[p] \in LoadRows[k]
    BY <2>2 DEF Loaded, Answered
  <2>4. p \in expected' => p \in expected \/ (p = r /\ answer[r] = "none")
    BY <1>1 DEF Submit
  <2> QED
    BY <1>1, <2>1, <2>3, <2>4
<1>2. ASSUME NEW q \in Queries, QueryStep(q) PROVE QueryFinds(p)'
  <2>1. CASE LookupForQuery(q)
    <3>1. UNCHANGED <<table, expected, crashes>>
          /\ \A k \in Loads : answer'[k] = answer[k]
      BY <2>1, RequestAssumption DEF LookupForQuery
    <3>2. CASE p # q
      <4>1. pc'[p] = pc[p] /\ kept'[p] = kept[p] /\ answer'[p] = answer[p]
        BY <2>1, <3>2 DEF LookupForQuery
      <4> QED
        BY <3>1, <4>1
    <3>3. CASE p = q
      <4>1. /\ pc[p] = "state_read"
            /\ \/ pc'[p] = "reader_read" /\ table # {} /\ answer'[p] = "none"
               \/ pc'[p] = "done" /\ table = {} /\ answer'[p] = "not_found"
        BY <2>1, <3>3 DEF LookupForQuery
      <4> QED
        BY <1>0, <3>1, <4>1
    <3> QED
      BY <3>2, <3>3
  <2>2. CASE Prune(q)
    <3>1. UNCHANGED <<table, expected, crashes>>
          /\ \A k \in Loads : answer'[k] = answer[k]
      BY <2>2, RequestAssumption DEF Prune
    <3>2. CASE p # q
      <4>1. pc'[p] = pc[p] /\ kept'[p] = kept[p] /\ answer'[p] = answer[p]
        BY <2>2, <3>2 DEF Prune
      <4> QED
        BY <3>1, <4>1
    <3>3. CASE p = q
      <4>1. /\ pc[p] = "reader_read" /\ pc'[p] = "scan" /\ answer'[p] = "none"
        BY <2>2, <3>3 DEF Prune
      <4>2. kept'[p] \in KeptBy(cache, Target[p])
        BY <2>2, <3>3 DEF Prune
      <4>3. p \in expected => kept'[p] \/ ~Uniform(layouts)
        BY <1>0, <4>1, <4>2, <3>3, KeptInOneLayout DEF LayoutsInv
      <4> QED
        BY <3>1, <4>1, <4>3
    <3> QED
      BY <3>2, <3>3
  <2>3. CASE Scan(q)
    <3>1. UNCHANGED <<table, expected, crashes>>
          /\ \A k \in Loads : answer'[k] = answer[k]
      BY <2>3, RequestAssumption DEF Scan
    <3>2. CASE p # q
      <4>1. pc'[p] = pc[p] /\ kept'[p] = kept[p] /\ answer'[p] = answer[p]
        BY <2>3, <3>2 DEF Scan
      <4> QED
        BY <3>1, <4>1
    <3>3. CASE p = q
      <4>1. pc[p] = "scan" /\ pc'[p] = "done" /\ answer'[p] \in Results(p)
        BY <2>3, <3>3 DEF Scan
      <4>2. answer'[p] = "empty" => ~kept[p] \/ ~(copies[Target[p]] > 0)
        BY <4>1, ScanFinds
      <4>3. answer'[p] # "not_found"
        BY <4>1, ResultTypes
      <4>4. p \in expected => (answer'[p] = "empty" => damaged # {} \/ ~Uniform(layouts))
        BY <1>0, <4>1, <4>2
      <4> QED
        BY <3>1, <4>1, <4>3, <4>4
    <3> QED
      BY <3>2, <3>3
  <2> QED
    BY <1>2, <2>1, <2>2, <2>3 DEF QueryStep
<1>3. ASSUME NEW r \in Loads, LoadStep(r) PROVE QueryFinds(p)'
  <2>1. CASE LookupForLoad(r)
    BY <2>1 DEF LookupForLoad
  <2>2. CASE CreateTable(r)
    BY <2>2 DEF CreateTable
  <2>3. CASE OpenWriter(r)
    BY <2>3 DEF OpenWriter
  <2>4. CASE OpenLog(r)
    BY <2>4 DEF OpenLog
  <2>5. ASSUME NEW x \in Rows, AppendRow(r, x) PROVE QueryFinds(p)'
    BY <2>5 DEF AppendRow
  <2>6. CASE RoutingPanics(r)
    BY <2>6 DEF RoutingPanics
  <2>7. CASE BadRecord(r)
    BY <2>7 DEF BadRecord
  <2>8. CASE FlushAll(r)
    BY <2>8 DEF FlushAll
  <2>9. CASE OpenData(r)
    BY <2>9 DEF OpenData
  <2>19. ASSUME NEW chunk \in SUBSET unwritten[r], Spill(r, chunk) PROVE QueryFinds(p)'
    BY <2>19 DEF Spill
  <2>10. CASE ReadMeta(r)
    BY <2>10 DEF ReadMeta
  <2>11. CASE ReadMetaFails(r)
    BY <2>11 DEF ReadMetaFails
  <2>12. CASE TruncateMeta(r)
    BY <2>12 DEF TruncateMeta
  <2>13. CASE WriteMeta(r)
    BY <2>13 DEF WriteMeta
  <2>14. CASE RemoveLog(r)
    BY <2>14 DEF RemoveLog
  <2>15. CASE LoadSegments(r)
    BY <2>15 DEF LoadSegments
  <2>16. CASE LoadSegmentsFails(r)
    BY <2>16 DEF LoadSegmentsFails
  <2>17. CASE InstallReader(r)
    BY <2>17 DEF InstallReader
  <2>18. CASE FinishLoad(r)
    BY <2>18 DEF FinishLoad
  <2> QED
    BY <1>3, <2>1, <2>2, <2>3, <2>4, <2>5, <2>6, <2>7, <2>8, <2>9, <2>10, <2>11,
       <2>12, <2>13, <2>14, <2>15, <2>16, <2>17, <2>18, <2>19 DEF LoadStep
<1>4. ASSUME NEW r \in Requests, Disconnect(r) PROVE QueryFinds(p)'
  BY <1>4 DEF Disconnect
<1>5. CASE Crash
  <2>1. UNCHANGED <<answer, kept, expected>> /\ crashes' # 0
    <3>1. crashes \in Nat /\ crashes' = crashes + 1
      BY <1>5, Parameters DEF Crash
    <3> QED
      BY <1>5, <3>1 DEF Crash
  <2>2. CASE p \in Queries
    <3>1. pc'[p] \in {"new", "done"} /\ (pc[p] # "new" => pc'[p] # "new")
      BY <1>5, <2>2, RequestAssumption DEF Crash
    <3> QED
      BY <2>1, <3>1
  <2>3. CASE p \in Flights
    <3>1. pc'[p] = pc[p]
      BY <1>5, <2>3 DEF Crash
    <3> QED
      BY <2>1, <2>3, <3>1, RequestAssumption
  <2> QED
    BY <2>2, <2>3
<1>6. CASE Restart
  BY <1>6 DEF Restart
<1>7. CASE StartFlight
  BY <1>7 DEF StartFlight
<1>8. ASSUME NEW f \in Flights, SubmitFlight(f) PROVE QueryFinds(p)'
  <2>1. UNCHANGED <<table, crashes, kept>> /\ \A k \in Loads : answer'[k] = answer[k]
    BY <1>8, RequestAssumption DEF SubmitFlight
  <2>2. CASE p # f
    <3>1. pc'[p] = pc[p] /\ answer'[p] = answer[p] /\ (p \in expected' <=> p \in expected)
      BY <1>8, <2>2 DEF SubmitFlight
    <3> QED
      BY <2>1, <3>1
  <2>3. CASE p = f
    <3>1. pc[p] = "new" /\ pc'[p] \in {"flight_segments", "done"}
      BY <1>8, <2>3 DEF SubmitFlight
    <3>2. p \in expected' => Loaded(p) /\ answer'[p] = "none"
      BY <1>8, <2>3, <3>1 DEF SubmitFlight
    <3>3. p \in expected' => \E k \in Loads : answer[k] = "ok" /\ Target[p] \in LoadRows[k]
      BY <3>2 DEF Loaded, Answered
    <3> QED
      BY <2>1, <3>1, <3>2, <3>3
  <2> QED
    BY <2>2, <2>3
<1>9. ASSUME NEW f \in Flights, FlightStep(f) PROVE QueryFinds(p)'
  <2>1. CASE FlightSegments(f)
    <3>1. UNCHANGED <<table, expected, crashes>>
          /\ \A k \in Loads : answer'[k] = answer[k]
      BY <2>1, RequestAssumption DEF FlightSegments
    <3>2. CASE p # f
      <4>1. pc'[p] = pc[p] /\ kept'[p] = kept[p] /\ answer'[p] = answer[p]
        BY <2>1, <3>2 DEF FlightSegments
      <4> QED
        BY <3>1, <4>1
    <3>3. CASE p = f
      <4>1. /\ pc[p] = "flight_segments" /\ pc'[p] = "flight_scan" /\ answer'[p] = "none"
            /\ ~meta.torn /\ kept'[p] \in KeptBy(meta, Target[p])
        BY <2>1, <3>3 DEF FlightSegments
      <4>2. p \in expected => kept'[p] \/ ~Uniform(layouts)
        BY <1>0, <4>1, KeptInOneLayout DEF LayoutsInv
      <4> QED
        BY <3>1, <4>1, <4>2
    <3> QED
      BY <3>2, <3>3
  <2>2. CASE FlightSegmentsFails(f)
    BY <2>2 DEF FlightSegmentsFails
  <2>3. CASE FlightScan(f)
    <3>1. UNCHANGED <<table, expected, crashes>>
          /\ \A k \in Loads : answer'[k] = answer[k]
      BY <2>3, RequestAssumption DEF FlightScan
    <3>2. CASE p # f
      <4>1. pc'[p] = pc[p] /\ kept'[p] = kept[p] /\ answer'[p] = answer[p]
        BY <2>3, <3>2 DEF FlightScan
      <4> QED
        BY <3>1, <4>1
    <3>3. CASE p = f
      <4>1. pc[p] = "flight_scan" /\ pc'[p] = "done" /\ answer'[p] \in Results(p)
        BY <2>3, <3>3 DEF FlightScan
      <4>2. answer'[p] = "empty" => ~kept[p] \/ ~(copies[Target[p]] > 0)
        BY <4>1, ScanFinds
      <4>3. answer'[p] # "not_found"
        BY <4>1, ResultTypes
      <4>4. p \in expected => (answer'[p] = "empty" => damaged # {} \/ ~Uniform(layouts))
        BY <1>0, <4>1, <4>2
      <4> QED
        BY <3>1, <4>1, <4>3, <4>4
    <3> QED
      BY <3>2, <3>3
  <2> QED
    BY <1>9, <2>1, <2>2, <2>3 DEF FlightStep
<1>10. CASE UNCHANGED vars
  BY <1>10 DEF vars
<1> QED
  BY <1>1, <1>2, <1>3, <1>4, <1>5, <1>6, <1>7, <1>8, <1>9, <1>10 DEF Next

(* No metadata and no running load in the first state. *)
LEMMA LayoutsInit ==
  Init => LayoutsInv
  BY DEF Init, LayoutsInv, NoMeta, Requests

(* The invariant behind the two theorems below. *)
THEOREM SerialInvariant ==
  ASSUME SerialLoads
  PROVE  Spec => [](/\ TypeOK /\ StoredInv /\ SerialInv
                    /\ \A q \in Readers : QueryFinds(q))
<1> DEFINE Inv == /\ TypeOK /\ FileInv /\ StoredInv /\ SerialInv /\ LayoutsInv
                  /\ \A q \in Readers : QueryFinds(q)
<1>1. Init => Inv
  BY TypesInit, FileInit, StoredInit, SerialInit, LayoutsInit, QueryInit
<1>2. Inv /\ [Next]_vars => Inv'
  BY TypesStep, FileStep, StoredStep, SerialStep, LayoutsStep, QueryStepFinds
<1> QED
  BY <1>1, <1>2, PTL DEF Spec

(* Read your writes, while clients send one load at a time: for any number *)
(* of loads, queries and servers that read the directory, of failed and    *)
(* abandoned loads, and of crashes.  Only a crash that cuts the data file, *)
(* or rows written in a second layout, can make an answered row go missing.*)
THEOREM QueriesReadWrites ==
  ASSUME SerialLoads
  PROVE  Spec => []ReadYourWrites
<1>1. ASSUME TypeOK, \A q \in Readers : QueryFinds(q)
      PROVE  ReadYourWrites
  <2>1. expected \subseteq Readers /\ crashes \in Nat
    BY <1>1, Parameters DEF TypeOK
  <2> QED
    BY <1>1, <2>1 DEF QueryFinds, ReadYourWrites
<1> QED
  BY <1>1, SerialInvariant, PTL

(* While the process lives, a step takes no row out of the data file. *)
LEMMA CopiesGrow ==
  ASSUME TypeOK, SerialInv, [Next]_vars, up'
  PROVE  Stored \subseteq Stored'
<1>1. CASE copies' = copies
  BY <1>1 DEF Stored
<1>2. CASE copies' # copies
  <2>1. \E r \in Loads : \E chunk \in SUBSET unwritten[r] : Spill(r, chunk)
    <3> SUFFICES ASSUME \A r \in Loads : \A chunk \in SUBSET unwritten[r] : ~Spill(r, chunk)
                 PROVE  FALSE
      OBVIOUS
    <3> USE <1>2 DEF disk
    <3>1. ASSUME NEW r \in Loads PROVE ~LoadStep(r)
      BY <3>1 DEF LoadStep, LookupForLoad, CreateTable, OpenWriter, OpenLog, AppendRow,
         RoutingPanics, BadRecord, FlushAll, OpenData, ReadMeta, ReadMetaFails,
         TruncateMeta, WriteMeta, RemoveLog, LoadSegments, LoadSegmentsFails,
         InstallReader, FinishLoad
    <3>2. ASSUME NEW q \in Queries PROVE ~QueryStep(q)
      BY DEF QueryStep, LookupForQuery, Prune, Scan
    <3>3. ASSUME NEW f \in Flights PROVE ~(SubmitFlight(f) \/ FlightStep(f))
      BY DEF FlightStep, SubmitFlight, FlightSegments, FlightSegmentsFails, FlightScan
    <3>4. ~Crash /\ ~Restart /\ ~StartFlight /\ ~UNCHANGED vars
      BY DEF Crash, Restart, StartFlight, vars
    <3>5. /\ \A r \in Loads \cup Queries : ~Submit(r)
          /\ \A r \in Requests : ~Disconnect(r)
      BY DEF Submit, Disconnect
    <3> QED
      BY <3>1, <3>2, <3>3, <3>4, <3>5 DEF Next
  <2>9. PICK r \in Loads : \E chunk \in SUBSET unwritten[r] : Spill(r, chunk)
    BY <2>1
  <2>2. PICK chunk \in SUBSET unwritten[r] : Spill(r, chunk)
    BY <2>9
  <2>3. Spilling = {r}
    BY <2>2 DEF Spill, Goto, Spilling, SerialInv, OneAtATime, Active
  <2>4. SpillAlone(r, chunk)
    BY <2>2, <2>3 DEF Spill
  <2>5. \E more : copies' = Added(more)
    BY <1>2, <2>4 DEF SpillAlone
  <2>6. \A x \in Rows : copies'[x] \in {copies[x], copies[x] + 1}
    BY <2>5 DEF Added
  <2> QED
    BY <2>6 DEF Stored, TypeOK
<1> QED
  BY <1>1, <1>2

(* Under the same condition nothing goes back: the rows that a query finds *)
(* and the counts, until the process dies, or a second layout comes in.    *)
THEOREM CacheOnlyGrows ==
  ASSUME SerialLoads
  PROVE  Spec => VisibleStays
<1> DEFINE Grows ==
             up /\ up' => /\ Visible \subseteq Visible' \/ ~Uniform(cache'.layouts)
                          /\ cache.row_count <= cache'.row_count
<1>1. ASSUME TypeOK, SerialInv, [Next]_vars
      PROVE  Grows
  <2>1. SUFFICES ASSUME up, up'
                 PROVE  /\ Visible \subseteq Visible' \/ ~Uniform(cache'.layouts)
                        /\ cache.row_count <= cache'.row_count
    OBVIOUS
  <2>2. Below(cache, cache')
    <3>1. CASE cache' = cache
      BY <1>1, <3>1, BelowFacts DEF TypeOK
    <3>2. CASE cache' # cache
      <4>1. \E r \in Loads : CreateTable(r) \/ InstallReader(r)
        <5> SUFFICES ASSUME \A r \in Loads : ~CreateTable(r) /\ ~InstallReader(r)
                     PROVE  FALSE
          OBVIOUS
        <5> USE <2>1, <3>2 DEF server
        <5>1. ASSUME NEW r \in Loads PROVE ~LoadStep(r)
          BY DEF LoadStep, LookupForLoad, OpenWriter, OpenLog, AppendRow, RoutingPanics,
             BadRecord, FlushAll, OpenData, Spill, ReadMeta, ReadMetaFails, TruncateMeta,
             WriteMeta, RemoveLog, LoadSegments, LoadSegmentsFails, FinishLoad
        <5>2. ASSUME NEW q \in Queries PROVE ~QueryStep(q)
          BY DEF QueryStep, LookupForQuery, Prune, Scan
        <5>3. ASSUME NEW f \in Flights PROVE ~(SubmitFlight(f) \/ FlightStep(f))
          BY DEF FlightStep, SubmitFlight, FlightSegments, FlightSegmentsFails, FlightScan
        <5>4. ~Crash /\ ~Restart /\ ~StartFlight /\ ~UNCHANGED vars
          BY DEF Crash, Restart, StartFlight, vars
        <5>5. /\ \A r \in Loads \cup Queries : ~Submit(r)
              /\ \A r \in Requests : ~Disconnect(r)
          BY DEF Submit, Disconnect
        <5> QED
          BY <1>1, <5>1, <5>2, <5>3, <5>4, <5>5 DEF Next
      <4>2. PICK r \in Loads : CreateTable(r) \/ InstallReader(r)
        BY <4>1
      <4>3. ~meta.torn /\ cache' = meta
        BY <1>1, <3>2, <4>2 DEF CreateTable, InstallReader, Goto, SerialInv, LoadKeeps
      <4> QED
        BY <1>1, <4>3 DEF SerialInv, MapKeeps
    <3> QED
      BY <3>1, <3>2
  <2>3. Stored \subseteq Stored'
    BY <1>1, <2>1, CopiesGrow
  <2> HIDE DEF Stored
  <2>4. Visible \subseteq Visible' \/ ~Uniform(cache'.layouts)
    BY <2>2, <2>3 DEF Below, Visible
  <2> QED
    BY <2>2, <2>4 DEF Below
<1> QED
  BY <1>1, SerialInvariant, PTL DEF Spec, VisibleStays

-----------------------------------------------------------------------------
(* Row counts, while nothing damages a file.  A load counts its rows in    *)
(* metadata after it has stored them; what is stored and not counted yet   *)
(* must fit beside every count that somebody may still write or install.   *)

(* Rows that a load has stored and not yet added to the count it read. *)
Pending == {c \in Loads \X Rows : /\ pc[c[1]] \in {"spill", "meta"}
                                  /\ c[2] \in mem[c[1]] \ unwritten[c[1]]}

Claims == {meta, cache} \cup {seen[r] : r \in Loads}

CountInv ==
  /\ IsFiniteSet(Pending)
  /\ IsFiniteSet(Copies)
  /\ \A m \in Claims : m.row_count + Cardinality(Pending) <= Cardinality(Copies)

(* A set with a tag on every element has as many elements. *)
LEMMA Tagged ==
  ASSUME NEW M, IsFiniteSet(M), NEW tag
  PROVE  /\ IsFiniteSet({<<x, tag[x]>> : x \in M})
         /\ Cardinality({<<x, tag[x]>> : x \in M}) = Cardinality(M)
<1> DEFINE T == {<<x, tag[x]>> : x \in M}
           f == [x \in M |-> <<x, tag[x]>>]
<1>1. f \in Bijection(M, T)
  <2>1. f \in [M -> T]
    OBVIOUS
  <2>2. \A t \in T : \E x \in M : f[x] = t
    OBVIOUS
  <2>3. \A x, y \in M : f[x] = f[y] => x = y
    OBVIOUS
  <2> QED
    BY <2>1, <2>2, <2>3 DEF Bijection, Injection, Surjection, IsInjective
<1>2. ExistsBijection(M, T)
  BY <1>1 DEF ExistsBijection
<1> QED
  BY <1>2, FS_Bijection

(* Disjoint finite sets: the sizes add up. *)
LEMMA DisjointUnion ==
  ASSUME NEW S, IsFiniteSet(S), NEW T, IsFiniteSet(T), S \cap T = {}
  PROVE  /\ IsFiniteSet(S \cup T)
         /\ Cardinality(S \cup T) = Cardinality(S) + Cardinality(T)
         /\ Cardinality(S) \in Nat /\ Cardinality(T) \in Nat
<1>1. Cardinality(S \cap T) = 0
  BY FS_EmptySet
<1>2. Cardinality(S) \in Nat /\ Cardinality(T) \in Nat
  BY FS_CardinalityType
<1>3. IsFiniteSet(S \cup T)
      /\ Cardinality(S \cup T) =
           Cardinality(S) + Cardinality(T) - Cardinality(S \cap T)
  BY FS_Union
<1> QED
  BY <1>1, <1>2, <1>3

(* So does a set of pairs with one first element. *)
LEMMA Paired ==
  ASSUME NEW M, IsFiniteSet(M), NEW r
  PROVE  IsFiniteSet({r} \X M) /\ Cardinality({r} \X M) = Cardinality(M)
<1>1. IsFiniteSet({r}) /\ Cardinality({r}) = 1
  BY FS_Singleton
<1>2. IsFiniteSet({r} \X M)
      /\ Cardinality({r} \X M) = Cardinality({r}) * Cardinality(M)
  BY <1>1, FS_Product
<1>3. Cardinality(M) \in Nat
  BY FS_CardinalityType
<1> QED
  BY <1>1, <1>2, <1>3

(* The sets counted, and the numbers compared, are finite. *)
LEMMA CountTypes ==
  ASSUME TypeOK, CountInv
  PROVE  /\ Cardinality(Pending) \in Nat /\ Cardinality(Copies) \in Nat
         /\ \A m \in Claims : m.row_count \in Nat
<1>1. \A m \in Claims : m \in Metas
  BY DEF Claims, TypeOK
<1> QED
  BY <1>1, FS_CardinalityType DEF CountInv, Metas

(* Nothing is stored in the first state. *)
LEMMA CountInit ==
  Init => CountInv
<1> SUFFICES ASSUME Init PROVE CountInv
  OBVIOUS
<1>1. Pending = {}
  BY DEF Init, Pending, Requests
<1>2. Copies = {}
  <2>1. \A x \in Rows : 1 .. copies[x] = {}
    BY DEF Init
  <2> QED
    BY <2>1 DEF Copies
<1>3. \A m \in Claims : m.row_count = 0
  BY DEF Init, Claims, NoMeta
<1> QED
  BY <1>1, <1>2, <1>3, FS_EmptySet DEF CountInv

(* A step that stores nothing keeps the counts, if every claim is one that *)
(* was there before, or none.                                              *)
LEMMA CountFrame ==
  ASSUME TypeOK, CountInv, copies' = copies, Pending' \subseteq Pending,
         \A m \in Claims' : m \in Claims \/ m.row_count = 0
  PROVE  CountInv'
<1>1. Copies' = Copies
  BY DEF Copies
<1>2. /\ IsFiniteSet(Pending')
      /\ Cardinality(Pending') <= Cardinality(Pending)
      /\ Cardinality(Pending') \in Nat
  BY FS_Subset, FS_CardinalityType DEF CountInv
<1>3. cache \in Claims
  BY DEF Claims
<1>4. Cardinality(Pending) <= Cardinality(Copies)
  BY <1>3, CountTypes DEF CountInv
<1>5. ASSUME NEW m \in Claims'
      PROVE  m.row_count + Cardinality(Pending') <= Cardinality(Copies)
  <2>1. CASE m \in Claims
    BY <2>1, <1>2, CountTypes DEF CountInv
  <2>2. CASE m.row_count = 0
    BY <2>2, <1>2, <1>4, CountTypes
  <2> QED
    BY <1>5, <2>1, <2>2
<1> QED
  BY <1>1, <1>2, <1>5 DEF CountInv

(* Rows are stored before they are counted ... *)
LEMMA CountSpill ==
  ASSUME TypeOK, FileInv, StoredInv, CountInv, "data" \notin damaged, NEW r \in Loads,
         NEW chunk \in SUBSET unwritten[r], Spill(r, chunk)
  PROVE  CountInv'
<1> DEFINE tag == [x \in Rows |-> copies[x] + 1]
           New == {<<x, tag[x]>> : x \in chunk}
           Mine == {r} \X chunk
<1>0. pc[r] = "spill" /\ chunk \subseteq mem[r] /\ chunk \subseteq unwritten[r]
  BY DEF Spill, Goto, StoredInv, LoadStored
<1>1. chunk \subseteq Rows /\ IsFiniteSet(chunk) /\ Cardinality(chunk) \in Nat
  BY <1>0, FS_Subset, FS_CardinalityType, RequestAssumption DEF TypeOK
<1>t. copies' = Added(chunk)
  BY SpillSafe
<1>2. IsFiniteSet(New) /\ Cardinality(New) = Cardinality(chunk)
  BY <1>1, Tagged
<1>3. IsFiniteSet(Mine) /\ Cardinality(Mine) = Cardinality(chunk)
  BY <1>1, Paired
<1>4. Copies' = Copies \cup New /\ Copies \cap New = {}
  <2>1. \A x \in Rows : copies[x] \in Nat
    BY DEF TypeOK
  <2>2. \A x \in chunk : 1 .. copies'[x] = (1 .. copies[x]) \cup {tag[x]}
    BY <2>1, <1>1, <1>t DEF Added
  <2>3. \A x \in Rows \ chunk : copies'[x] = copies[x]
    BY <1>t DEF Added
  <2>4. \A x \in chunk : tag[x] \notin 1 .. copies[x]
    BY <2>1, <1>1
  <2> HIDE DEF tag
  <2>5. \A c : c \in Copies <=> \E x \in Rows : \E n \in 1 .. copies[x] : c = <<x, n>>
    BY DEF Copies
  <2>6. \A c : c \in Copies' <=> \E x \in Rows : \E n \in 1 .. copies'[x] : c = <<x, n>>
    BY DEF Copies
  <2>7. \A c : c \in New <=> \E x \in chunk : c = <<x, tag[x]>>
    OBVIOUS
  <2>8. \A c : c \in Copies' <=> c \in Copies \/ c \in New
    BY <2>2, <2>3, <2>5, <2>6, <2>7, <1>1
  <2>9. \A c : ~(c \in Copies /\ c \in New)
    BY <2>4, <2>5, <2>7
  <2> HIDE DEF New
  <2> QED
    BY <2>8, <2>9
<1>5. Pending' = Pending \cup Mine /\ Pending \cap Mine = {}
  <2>1. /\ mem' = mem /\ unwritten' = [unwritten EXCEPT ![r] = @ \ chunk]
        /\ pc' = [pc EXCEPT ![r] = IF unwritten[r] = chunk THEN "meta" ELSE "spill"]
    BY DEF Spill, Goto
  <2>2. \A c \in Loads \X Rows : c \in Pending' <=> (c \in Pending \/ c \in Mine)
    BY <1>0, <1>1, <2>1 DEF Pending, TypeOK, Requests
  <2>3. Pending \cap Mine = {}
    BY <1>0 DEF Pending
  <2>4. Pending \subseteq Loads \X Rows /\ Pending' \subseteq Loads \X Rows
        /\ Mine \subseteq Loads \X Rows
    BY <1>1 DEF Pending
  <2> HIDE DEF Mine
  <2> QED
    BY <2>2, <2>3, <2>4
<1>6. Claims' = Claims
  BY DEF Spill, Claims, server
<1> HIDE DEF New, Mine
<1>7. /\ Cardinality(Copies') = Cardinality(Copies) + Cardinality(chunk)
      /\ IsFiniteSet(Copies')
  BY <1>2, <1>4, DisjointUnion DEF CountInv
<1>8. /\ Cardinality(Pending') = Cardinality(Pending) + Cardinality(chunk)
      /\ IsFiniteSet(Pending')
  BY <1>3, <1>5, DisjointUnion DEF CountInv
<1>9. \A m \in Claims' :
        m.row_count + Cardinality(Pending') <= Cardinality(Copies')
  BY <1>1, <1>6, <1>7, <1>8, CountTypes DEF CountInv
<1> QED
  BY <1>7, <1>8, <1>9 DEF CountInv

(* ... and counted once: they are no longer pending then. *)
LEMMA CountReadMeta ==
  ASSUME TypeOK, StoredInv, CountInv, NEW r \in Loads, ReadMeta(r)
  PROVE  CountInv'
<1> DEFINE Mine == {r} \X mem[r]
           text == Merged(meta, mem[r], LayoutsOf(r))
<1>0. pc[r] = "meta" /\ unwritten[r] = {}
  BY DEF ReadMeta, Goto, StoredInv, LoadStored
<1>1. mem[r] \subseteq Rows /\ IsFiniteSet(mem[r]) /\ Cardinality(mem[r]) \in Nat
  BY FS_Subset, FS_CardinalityType, RequestAssumption DEF TypeOK
<1>2. IsFiniteSet(Mine) /\ Cardinality(Mine) = Cardinality(mem[r])
  BY <1>1, Paired
<1>3. Pending = Pending' \cup Mine /\ Pending' \cap Mine = {}
  <2>1. UNCHANGED <<mem, unwritten>> /\ pc' = [pc EXCEPT ![r] = "truncate"]
    BY DEF ReadMeta, Goto, spill
  <2>2. \A c \in Loads \X Rows :
          /\ c \in Pending <=> (c \in Pending' \/ c \in Mine)
          /\ ~(c \in Pending' /\ c \in Mine)
    BY <1>0, <1>1, <2>1 DEF Pending, TypeOK, Requests
  <2>3. Pending \subseteq Loads \X Rows /\ Pending' \subseteq Loads \X Rows
        /\ Mine \subseteq Loads \X Rows
    BY <1>1 DEF Pending
  <2> HIDE DEF Mine
  <2> QED
    BY <2>2, <2>3
<1>4. Copies' = Copies
  BY DEF ReadMeta, disk, Copies
<1>5. \A m \in Claims' : m \in Claims \/ m = text
  BY DEF ReadMeta, Claims, TypeOK, disk, server
<1>6. text.row_count = meta.row_count + Cardinality(mem[r])
  BY DEF Merged
<1>7. Pending' \subseteq Pending
  BY <1>3
<1>8. IsFiniteSet(Pending')
  BY <1>7, FS_Subset DEF CountInv
<1> HIDE DEF Mine, text
<1>9. /\ Cardinality(Pending) = Cardinality(Pending') + Cardinality(mem[r])
      /\ Cardinality(Pending') \in Nat
  BY <1>2, <1>3, <1>8, DisjointUnion
<1>10. meta \in Claims
  BY DEF Claims
<1>11. ASSUME NEW m \in Claims'
       PROVE  m.row_count + Cardinality(Pending') <= Cardinality(Copies)
  <2>1. CASE m \in Claims
    BY <2>1, <1>1, <1>9, CountTypes DEF CountInv
  <2>2. CASE m = text
    <3>1. m.row_count = meta.row_count + Cardinality(mem[r])
      BY <2>2, <1>6
    <3> QED
      BY <3>1, <1>1, <1>9, <1>10, CountTypes DEF CountInv
  <2> QED
    BY <1>5, <1>11, <2>1, <2>2
<1> QED
  BY <1>4, <1>8, <1>11 DEF CountInv

(* A step that touches neither file nor any copy of the metadata, and puts *)
(* no load between its data and its metadata.                              *)
LEMMA CountQuiet ==
  ASSUME TypeOK, CountInv, UNCHANGED <<copies, meta, cache, seen>>,
         \A l \in Loads : pc'[l] \in {"spill", "meta"} =>
           /\ pc[l] \in {"spill", "meta"}
           /\ mem'[l] = mem[l] /\ unwritten'[l] = unwritten[l]
  PROVE  CountInv'
<1>1. Pending' \subseteq Pending
  BY DEF Pending
<1>2. Claims' = Claims
  BY DEF Claims
<1> QED
  BY <1>1, <1>2, CountFrame

(* Every step that damages nothing keeps room for what is stored and not   *)
(* counted yet.                                                            *)
LEMMA CountStep ==
  ASSUME TypeOK, FileInv, StoredInv, CountInv, [Next]_vars, damaged' = {}
  PROVE  CountInv'
<1> USE CountQuiet DEF Goto, Reply, NoMeta, TypeOK, Requests, Readers,
                       disk, server, locks, spill, locals, history
<1>0. damaged = {}
  BY HistoryGrows
<1>1. ASSUME NEW r \in Loads \cup Queries, Submit(r) PROVE CountInv'
  BY <1>1 DEF Submit
<1>2. ASSUME NEW q \in Queries, QueryStep(q) PROVE CountInv'
  <2>1. CASE LookupForQuery(q)
    BY <2>1 DEF LookupForQuery
  <2>2. CASE Prune(q)
    BY <2>2 DEF Prune
  <2>3. CASE Scan(q)
    BY <2>3 DEF Scan
  <2> QED
    BY <1>2, <2>1, <2>2, <2>3 DEF QueryStep
<1>3. ASSUME NEW r \in Loads, LoadStep(r) PROVE CountInv'
  <2>1. CASE LookupForLoad(r)
    BY <2>1 DEF LookupForLoad
  <2>2. CASE CreateTable(r)
    <3>1. copies' = copies /\ meta' = meta /\ seen' = seen /\ cache' \in {cache, meta}
      BY <2>2 DEF CreateTable
    <3>2. Pending' \subseteq Pending
      BY <2>2 DEF CreateTable, Pending
    <3>3. \A m \in Claims' : m \in Claims
      BY <3>1 DEF Claims
    <3> QED
      BY <3>1, <3>2, <3>3, CountFrame
  <2>3. CASE OpenWriter(r)
    BY <2>3 DEF OpenWriter
  <2>4. CASE OpenLog(r)
    BY <2>4 DEF OpenLog
  <2>5. ASSUME NEW x \in Rows, AppendRow(r, x) PROVE CountInv'
    BY <2>5 DEF AppendRow
  <2>6. CASE RoutingPanics(r)
    BY <2>6 DEF RoutingPanics
  <2>7. CASE BadRecord(r)
    BY <2>7 DEF BadRecord
  <2>8. CASE FlushAll(r)
    BY <2>8 DEF FlushAll
  <2>9. CASE OpenData(r)
    <3>1. UNCHANGED <<copies, meta, cache, seen, mem>> /\ pc[r] = "data"
          /\ pc' = [pc EXCEPT ![r] = "spill"]
          /\ unwritten' = [unwritten EXCEPT ![r] = mem[r]]
      BY <2>9 DEF OpenData
    <3>2. Pending' \subseteq Pending
      BY <3>1 DEF Pending
    <3>3. Claims' = Claims
      BY <3>1 DEF Claims
    <3> QED
      BY <3>1, <3>2, <3>3, CountFrame
  <2>19. ASSUME NEW chunk \in SUBSET unwritten[r], Spill(r, chunk) PROVE CountInv'
    BY <2>19, <1>0, CountSpill
  <2>10. CASE ReadMeta(r)
    BY <2>10, CountReadMeta
  <2>11. CASE ReadMetaFails(r)
    BY <2>11 DEF ReadMetaFails
  <2>12. CASE TruncateMeta(r)
    <3>1. copies' = copies /\ seen' = seen /\ cache' = cache
          /\ meta' = Truncated
      BY <2>12 DEF TruncateMeta
    <3>2. Pending' \subseteq Pending
      BY <2>12 DEF TruncateMeta, Pending
    <3>3. \A m \in Claims' : m \in Claims \/ m.row_count = 0
      BY <3>1 DEF Claims, Truncated
    <3> QED
      BY <3>1, <3>2, <3>3, CountFrame
  <2>13. CASE WriteMeta(r)
    <3>1. copies' = copies /\ seen' = seen /\ cache' = cache
          /\ meta' = seen[r]
      BY <2>13, <1>0, TextSafe DEF WriteMeta
    <3>2. Pending' \subseteq Pending
      BY <2>13 DEF WriteMeta, Pending
    <3>3. \A m \in Claims' : m \in Claims \/ m.row_count = 0
      BY <3>1 DEF Claims
    <3> QED
      BY <3>1, <3>2, <3>3, CountFrame
  <2>14. CASE RemoveLog(r)
    BY <2>14 DEF RemoveLog
  <2>15. CASE LoadSegments(r)
    <3>1. copies' = copies /\ meta' = meta /\ cache' = cache
          /\ seen' = [seen EXCEPT ![r] = meta]
      BY <2>15 DEF LoadSegments
    <3>2. Pending' \subseteq Pending
      BY <2>15 DEF LoadSegments, Pending
    <3>3. \A m \in Claims' : m \in Claims
      BY <3>1 DEF Claims
    <3> QED
      BY <3>1, <3>2, <3>3, CountFrame
  <2>16. CASE LoadSegmentsFails(r)
    BY <2>16 DEF LoadSegmentsFails
  <2>17. CASE InstallReader(r)
    <3>1. copies' = copies /\ meta' = meta /\ seen' = seen /\ cache' = seen[r]
      BY <2>17 DEF InstallReader
    <3>2. Pending' \subseteq Pending
      BY <2>17 DEF InstallReader, Pending
    <3>3. \A m \in Claims' : m \in Claims
      BY <3>1 DEF Claims
    <3> QED
      BY <3>1, <3>2, <3>3, CountFrame
  <2>18. CASE FinishLoad(r)
    BY <2>18 DEF FinishLoad
  <2> QED
    BY <1>3, <2>1, <2>2, <2>3, <2>4, <2>5, <2>6, <2>7, <2>8, <2>9, <2>10, <2>11,
       <2>12, <2>13, <2>14, <2>15, <2>16, <2>17, <2>18, <2>19 DEF LoadStep
<1>4. ASSUME NEW r \in Requests, Disconnect(r) PROVE CountInv'
  BY <1>4 DEF Disconnect
<1>5. CASE Crash
  <2>1. copies' = copies /\ meta' = meta /\ seen' = seen /\ cache' = NoMeta
    BY <1>5 DEF Crash, LeaveBehind
  <2>2. Pending' \subseteq Pending
    <3>1. \A l \in Loads : pc'[l] \in {"new", "done"}
      BY <1>5, RequestAssumption DEF Crash
    <3> QED
      BY <3>1 DEF Pending
  <2>3. \A m \in Claims' : m \in Claims \/ m.row_count = 0
    BY <2>1 DEF Claims
  <2> QED
    BY <2>1, <2>2, <2>3, CountFrame
<1>6. CASE Restart
  <2>1. copies' = copies /\ meta' = meta /\ seen' = seen /\ cache' \in {cache, meta}
    BY <1>6 DEF Restart
  <2>2. Pending' \subseteq Pending
    BY <1>6 DEF Restart, Pending
  <2>3. \A m \in Claims' : m \in Claims
    BY <2>1 DEF Claims
  <2> QED
    BY <2>1, <2>2, <2>3, CountFrame
<1>7. CASE StartFlight
  BY <1>7 DEF StartFlight
<1>8. ASSUME NEW f \in Flights, SubmitFlight(f) PROVE CountInv'
  BY <1>8 DEF SubmitFlight
<1>9. ASSUME NEW f \in Flights, FlightStep(f) PROVE CountInv'
  <2>1. CASE FlightSegments(f)
    BY <2>1 DEF FlightSegments
  <2>2. CASE FlightSegmentsFails(f)
    BY <2>2 DEF FlightSegmentsFails
  <2>3. CASE FlightScan(f)
    BY <2>3 DEF FlightScan
  <2> QED
    BY <1>9, <2>1, <2>2, <2>3 DEF FlightStep
<1>10. CASE UNCHANGED vars
  BY <1>10 DEF vars
<1> QED
  BY <1>1, <1>2, <1>3, <1>4, <1>5, <1>6, <1>7, <1>8, <1>9, <1>10 DEF Next

(* The cached metadata never claims a row, or a number of rows, that the   *)
(* data file does not have: for any loads at once, lost updates, failures, *)
(* replays and restarts included, a COUNT answered from metadata may lag   *)
(* behind but never runs ahead.  Only two loads that write one file at the *)
(* same moment, or a crash that cuts the data file, can break that.        *)
THEOREM CacheBehindData ==
  Spec => []CacheNeverAhead
<1>1. Init => (damaged = {} => CountInv)
  BY CountInit
<1>2. (TypeOK /\ FileInv /\ StoredInv /\ BitsInv) /\ (damaged = {} => CountInv)
        /\ [Next]_vars => (damaged = {} => CountInv)'
  BY CountStep, HistoryGrows
<1>3. (TypeOK /\ FileInv /\ StoredInv /\ BitsInv) /\ (damaged = {} => CountInv)
        => CacheNeverAhead
  <2> SUFFICES ASSUME TypeOK, BitsInv, CountInv, damaged = {} PROVE CacheNeverAhead
    BY DEF CacheNeverAhead
  <2>1. cache \in Claims
    BY DEF Claims
  <2>2. cache.row_count <= Cardinality(Copies)
    BY <2>1, CountTypes DEF CountInv
  <2> QED
    BY <2>2 DEF BitsInv, CacheNeverAhead
<1> QED
  BY <1>1, <1>2, <1>3, BitsInvariant, PTL DEF Spec

-----------------------------------------------------------------------------
(* The lock on the table map.                                              *)

Clients == Loads \cup Queries
Tickets == Clients \X {"read", "write"}

(* The queue q fits the places of the requests: who is in it waits for the *)
(* map, once, and for the write lock after finding no table.               *)
Orderly(q, at) ==
  /\ q \in Seq(Tickets)
  /\ \A i \in 1 .. Len(q) :
       /\ at[q[i][1]] \in {"state_read", "state_write"}
       /\ at[q[i][1]] = "state_write" => q[i][2] = "write"
  /\ \A i, j \in 1 .. Len(q) : q[i][1] = q[j][1] => i = j

Absent(q, p) == \A i \in 1 .. Len(q) : q[i][1] # p

(* The head of the queue leaves it. *)
LEMMA OrderlyTail ==
  ASSUME NEW q, NEW at, Orderly(q, at), q # << >>
  PROVE  /\ Orderly(Tail(q), at)
         /\ Absent(Tail(q), Head(q)[1])
         /\ Head(q) \in Tickets
         /\ at[Head(q)[1]] \in {"state_read", "state_write"}
         /\ at[Head(q)[1]] = "state_write" => Head(q)[2] = "write"
<1>1. q \in Seq(Tickets) /\ Len(q) \in Nat /\ Len(q) > 0
  BY DEF Orderly
<1>2. /\ Tail(q) \in Seq(Tickets)
      /\ Len(Tail(q)) = Len(q) - 1
      /\ \A i \in 1 .. Len(Tail(q)) : Tail(q)[i] = q[i + 1]
      /\ Head(q) = q[1]
  BY <1>1
<1> QED
  BY <1>1, <1>2 DEF Orderly, Absent

(* Whoever does not wait may go anywhere. *)
LEMMA OrderlyElsewhere ==
  ASSUME NEW q, NEW at, NEW p, NEW to, Orderly(q, at), Absent(q, p)
  PROVE  Orderly(q, [at EXCEPT ![p] = to])
  BY DEF Orderly, Absent

(* Only those who wait are in the queue. *)
LEMMA OrderlyAway ==
  ASSUME NEW q, NEW at, NEW p, Orderly(q, at),
         at[p] \notin {"state_read", "state_write"}
  PROVE  Absent(q, p)
  BY DEF Orderly, Absent

(* A request joins the queue at its end. *)
LEMMA OrderlyAppend ==
  ASSUME NEW q, NEW at \in [Requests -> Places], NEW p \in Clients,
         NEW k \in {"read", "write"}, NEW to \in {"state_read", "state_write"},
         Orderly(q, at), Absent(q, p), to = "state_write" => k = "write"
  PROVE  Orderly(Append(q, <<p, k>>), [at EXCEPT ![p] = to])
<1>1. q \in Seq(Tickets) /\ <<p, k>> \in Tickets /\ Len(q) \in Nat
  BY DEF Orderly, Tickets
<1>2. /\ Append(q, <<p, k>>) \in Seq(Tickets)
      /\ Len(Append(q, <<p, k>>)) = Len(q) + 1
      /\ \A i \in 1 .. Len(q) : Append(q, <<p, k>>)[i] = q[i]
      /\ Append(q, <<p, k>>)[Len(q) + 1] = <<p, k>>
  BY <1>1
<1>3. p \in Requests
  BY DEF Clients, Requests, Readers
<1>4. [at EXCEPT ![p] = to][p] = to
      /\ \A i \in 1 .. Len(q) : [at EXCEPT ![p] = to][q[i][1]] = at[q[i][1]]
  BY <1>3 DEF Absent
<1> DEFINE Q == Append(q, <<p, k>>)
<1>5. \A i \in 1 .. Len(Q) : i \in 1 .. Len(q) \/ i = Len(q) + 1
  BY <1>1, <1>2
<1> QED
  BY <1>1, <1>2, <1>4, <1>5 DEF Orderly, Absent

(* A request that is dropped leaves the queue to the others. *)
LEMMA OrderlyWithout ==
  ASSUME NEW q, NEW at, NEW p, Orderly(q, at)
  PROVE  Orderly(Without(q, p), at) /\ Absent(Without(q, p), p)
<1> DEFINE places == {i \in 1 .. Len(q) : q[i][1] = p}
<1>1. q \in Seq(Tickets) /\ Len(q) \in Nat
  BY DEF Orderly
<1>2. Without(q, p) =
        IF places = {} THEN q ELSE RemoveAt(q, CHOOSE i \in places : TRUE)
  BY DEF Without
<1>3. CASE places = {}
  BY <1>2, <1>3 DEF Absent
<1>4. ASSUME NEW k \in places
      PROVE  Orderly(RemoveAt(q, k), at) /\ Absent(RemoveAt(q, k), p)
  <2> DEFINE front == SubSeq(q, 1, k - 1)
             back  == SubSeq(q, k + 1, Len(q))
             rest  == RemoveAt(q, k)
  <2>1. k \in Nat /\ 1 <= k /\ k <= Len(q) /\ q[k][1] = p
    BY <1>1
  <2>2. /\ front \in Seq(Tickets) /\ Len(front) = k - 1
        /\ \A i \in 1 .. k - 1 : front[i] = q[i]
    <3>1. \A i \in 1 .. k - 1 : q[i] \in Tickets
      BY <1>1, <2>1
    <3> QED
      BY <2>1, <3>1, SubSeqProperties
  <2>3. /\ back \in Seq(Tickets) /\ Len(back) = Len(q) - k
        /\ \A i \in 1 .. Len(q) - k : back[i] = q[k + i]
    <3>1. \A i \in k + 1 .. Len(q) : q[i] \in Tickets
      BY <1>1, <2>1
    <3>2. /\ back \in Seq(Tickets)
          /\ Len(back) = IF k + 1 <= Len(q) THEN Len(q) - (k + 1) + 1 ELSE 0
          /\ \A i \in 1 .. Len(q) - (k + 1) + 1 : back[i] = q[k + 1 + i - 1]
      BY <1>1, <2>1, <3>1, SubSeqProperties
    <3> HIDE DEF back
    <3> QED
      BY <1>1, <2>1, <3>2
  <2>4. rest = front \o back
    BY DEF RemoveAt
  <2> HIDE DEF front, back, rest
  <2>5. /\ rest \in Seq(Tickets)
        /\ Len(rest) = Len(q) - 1
        /\ \A i \in 1 .. Len(q) - 1 : rest[i] = IF i < k THEN q[i] ELSE q[i + 1]
    <3>1. /\ rest \in Seq(Tickets)
          /\ Len(rest) = Len(front) + Len(back)
          /\ \A i \in 1 .. Len(front) + Len(back) :
               rest[i] = IF i <= Len(front) THEN front[i] ELSE back[i - Len(front)]
      BY <2>2, <2>3, <2>4, ConcatProperties
    <3>2. Len(front) + Len(back) = Len(q) - 1
      BY <1>1, <2>1, <2>2, <2>3
    <3>3. ASSUME NEW i \in 1 .. Len(q) - 1
          PROVE  rest[i] = IF i < k THEN q[i] ELSE q[i + 1]
      <4>1. CASE i < k
        <5>1. i \in 1 .. Len(front) + Len(back) /\ i <= Len(front) /\ i \in 1 .. k - 1
          BY <1>1, <2>1, <2>2, <3>2, <3>3, <4>1
        <5> QED
          BY <2>2, <3>1, <4>1, <5>1
      <4>2. CASE i >= k
        <5>1. rest[i] = back[i - (k - 1)]
          <6>1. rest[i] = back[i - Len(front)]
            <7>1. i \in 1 .. Len(front) + Len(back) /\ ~(i <= Len(front))
              BY <1>1, <2>1, <2>2, <3>2, <3>3, <4>2
            <7> QED
              BY <3>1, <7>1
          <6> QED
            BY <2>2, <6>1
        <5>2. i - (k - 1) \in 1 .. Len(q) - k /\ k + (i - (k - 1)) = i + 1
          BY <1>1, <2>1, <4>2
        <5> QED
          BY <1>1, <2>1, <2>3, <4>2, <5>1, <5>2
      <4> QED
        BY <1>1, <2>1, <4>1, <4>2
    <3> QED
      BY <3>1, <3>2, <3>3
  <2>6. Orderly(rest, at)
    <3>1. \A i \in 1 .. Len(rest) : \E m \in 1 .. Len(q) :
            rest[i] = q[m] /\ m = IF i < k THEN i ELSE i + 1
      BY <1>1, <2>1, <2>5
    <3>2. \A i \in 1 .. Len(rest) :
            /\ at[rest[i][1]] \in {"state_read", "state_write"}
            /\ at[rest[i][1]] = "state_write" => rest[i][2] = "write"
      BY <3>1 DEF Orderly
    <3>3. ASSUME NEW i \in 1 .. Len(rest), NEW j \in 1 .. Len(rest),
                 rest[i][1] = rest[j][1]
          PROVE  i = j
      <4>1. PICK m \in 1 .. Len(q) : rest[i] = q[m] /\ m = IF i < k THEN i ELSE i + 1
        BY <3>1
      <4>2. PICK n \in 1 .. Len(q) : rest[j] = q[n] /\ n = IF j < k THEN j ELSE j + 1
        BY <3>1
      <4>3. m = n
        BY <3>3, <4>1, <4>2 DEF Orderly
      <4> QED
        BY <1>1, <2>1, <2>5, <4>1, <4>2, <4>3
    <3> QED
      BY <2>5, <3>2, <3>3 DEF Orderly
  <2>7. Absent(rest, p)
    BY <1>1, <2>1, <2>5 DEF Orderly, Absent
  <2> QED
    BY <2>6, <2>7 DEF rest
<1>5. CASE places # {}
  <2>1. (CHOOSE i \in places : TRUE) \in places
    BY <1>5
  <2> QED
    BY <1>2, <1>4, <1>5, <2>1
<1> QED
  BY <1>3, <1>5

(* A lock by its parts, and what the operations make of it. *)
LockOf(R, W, q) == [readers |-> R, writer |-> W, queue |-> q]

LEMMA LockReleased ==
  ASSUME NEW R, NEW W, NEW q, NEW p
  PROVE  Release(LockOf(R, W, q), p) = LockOf(R \ {p}, W \ {p}, q)
<1>1. ASSUME NEW lock, lock = Release(LockOf(R, W, q), p)
      PROVE  lock = LockOf(R \ {p}, W \ {p}, q)
  BY <1>1 DEF Release, LockOf
<1> QED
  BY <1>1, Zenon

LEMMA LockAwaited ==
  ASSUME NEW R, NEW W, NEW q, NEW p, NEW k
  PROVE  Await(LockOf(R, W, q), p, k) = LockOf(R, W, Append(q, <<p, k>>))
<1>1. ASSUME NEW lock, lock = Await(LockOf(R, W, q), p, k)
      PROVE  lock = LockOf(R, W, Append(q, <<p, k>>))
  BY <1>1 DEF Await, LockOf
<1> QED
  BY <1>1, Zenon

(* Requests past the look-up, who hold the lock in one mode or the other. *)
Inside(r) == pc[r] \notin {"new", "state_read", "state_write", "done"}

LockTypes ==
  stateLock \in [readers : SUBSET Clients, writer : SUBSET Clients,
                queue : Seq(Tickets)]

InsideHolds ==
  \A r \in Clients : Inside(r) => r \in stateLock.readers \cup stateLock.writer

CreatorHoldsAlone ==
  \A r \in Loads : creating[r] /\ pc[r] # "done" =>
    /\ pc[r] \in Working
    /\ stateLock.readers = {} /\ stateLock.writer = {r}
    /\ table = {}

DownIsIdle == ~up => \A r \in Loads : pc[r] \in {"new", "done"}

LockInv ==
  /\ LockTypes
  /\ Orderly(stateLock.queue, pc)
  /\ InsideHolds
  /\ CreatorHoldsAlone
  /\ DownIsIdle

LEMMA LockInit ==
  Init => LockInv
<1> SUFFICES ASSUME Init PROVE LockInv
  OBVIOUS
<1>1. stateLock = [readers |-> {}, writer |-> {}, queue |-> << >>]
  BY DEF Init, Free
<1>2. Orderly(stateLock.queue, pc)
  BY <1>1 DEF Orderly
<1>3. LockTypes
  BY <1>1 DEF LockTypes
<1>4. InsideHolds /\ CreatorHoldsAlone /\ DownIsIdle
  BY DEF Init, InsideHolds, Inside, CreatorHoldsAlone, DownIsIdle, Requests, Readers,
         Clients, Working
<1> QED
  BY <1>2, <1>3, <1>4 DEF LockInv

(* Of two requests past the look-up, none creates the table. *)
LEMMA CreatorIsAlone ==
  ASSUME LockInv, NEW r \in Loads, creating[r], pc[r] # "done",
         NEW o \in Clients, Inside(o)
  PROVE  o = r
  BY DEF LockInv, InsideHolds, CreatorHoldsAlone

(* A request past the look-up goes on. *)
LEMMA LockMoves ==
  ASSUME TypeOK, LockInv, UNCHANGED <<stateLock, table, up, creating>>,
         NEW r \in Clients, NEW to \in Places,
         pc' = [pc EXCEPT ![r] = to], Inside(r), to # "done",
         r \in Loads => pc[r] \in Working /\ to \in Working,
         r \notin Loads => to \in {"reader_read", "scan"}
  PROVE  LockInv'
<1>1. Absent(stateLock.queue, r)
  BY OrderlyAway DEF LockInv, Inside, Working
<1>2. Orderly(stateLock'.queue, pc')
  BY <1>1, OrderlyElsewhere DEF LockInv
<1>3. r \in Requests /\ \A o \in Clients : o # r => pc'[o] = pc[o]
  BY DEF Clients, Requests, Readers, TypeOK
<1>4. InsideHolds'
  BY <1>3 DEF LockInv, InsideHolds, Inside
<1>5. CreatorHoldsAlone'
  BY <1>3 DEF LockInv, CreatorHoldsAlone, Inside, Clients, TypeOK, Working
<1>6. DownIsIdle'
  BY <1>3 DEF LockInv, DownIsIdle, Clients, Working
<1> QED
  BY <1>2, <1>4, <1>5, <1>6 DEF LockInv, LockTypes

(* A request past the look-up is answered: its guard is dropped. *)
LEMMA LockReplies ==
  ASSUME TypeOK, LockInv, UNCHANGED <<up, creating>>, NEW r \in Clients,
         pc' = [pc EXCEPT ![r] = "done"], Inside(r),
         stateLock' = Release(stateLock, r)
  PROVE  LockInv'
<1>1. Absent(stateLock.queue, r)
  BY OrderlyAway DEF LockInv, Inside, Working
<1>2. stateLock' = [readers |-> stateLock.readers \ {r},
                    writer  |-> stateLock.writer \ {r},
                    queue   |-> stateLock.queue]
  BY DEF LockInv, LockTypes, Release
<1>3. r \in Requests /\ \A o \in Clients : o # r => pc'[o] = pc[o]
  BY DEF Clients, Requests, Readers, TypeOK
<1>4. Orderly(stateLock'.queue, pc')
  <2>1. Orderly(stateLock.queue, [pc EXCEPT ![r] = "done"])
    BY <1>1, OrderlyElsewhere DEF LockInv
  <2>2. stateLock'.queue = stateLock.queue
    BY <1>2
  <2> QED
    BY <2>1, <2>2
<1>5. pc'[r] = "done"
  BY <1>3 DEF TypeOK
<1>6. InsideHolds'
  BY <1>2, <1>3, <1>5 DEF LockInv, InsideHolds, Inside, Working
<1>7. CreatorHoldsAlone'
  <2> SUFFICES ASSUME NEW l \in Loads, creating[l], pc'[l] # "done" PROVE FALSE
    BY DEF CreatorHoldsAlone
  <2>1. l # r /\ pc[l] # "done"
    BY <1>3, <1>5 DEF Clients
  <2> QED
    BY <2>1, CreatorIsAlone
<1>8. DownIsIdle'
  BY <1>3, <1>5 DEF LockInv, DownIsIdle, Clients
<1>9. LockTypes'
  BY <1>2 DEF LockInv, LockTypes
<1> QED
  BY <1>4, <1>6, <1>7, <1>8, <1>9 DEF LockInv

(* Who is granted the lock was at the head of the queue and leaves it; no  *)
(* table is being created; for others, nothing changes.                    *)
LEMMA LockGranted ==
  ASSUME TypeOK, LockInv, NEW p \in Clients, Granted(stateLock, p)
  PROVE  /\ \A l \in Loads : creating[l] => pc[l] = "done"
         /\ Orderly(Tail(stateLock.queue), pc)
         /\ Absent(Tail(stateLock.queue), p)
         /\ pc[p] \in {"state_read", "state_write"}
         /\ stateLock.writer = {} /\ stateLock.readers \subseteq Clients
         /\ \E R, W \in SUBSET Clients :
              /\ Acquire(stateLock, p) =
                   LockOf(R, W, Tail(stateLock.queue))
              /\ p \in R \cup W
              /\ R \ {p} = stateLock.readers \ {p} /\ W \ {p} = {}
              /\ pc[p] = "state_write" => R = {} /\ W = {p}
<1> DEFINE q == stateLock.queue
<1>1. /\ q # << >> /\ Head(q)[1] = p /\ stateLock.writer = {}
      /\ Head(q)[2] = "write" => stateLock.readers = {}
  BY DEF Granted
<1>2. /\ Orderly(Tail(q), pc) /\ Absent(Tail(q), p)
      /\ pc[p] \in {"state_read", "state_write"}
      /\ pc[p] = "state_write" => Head(q)[2] = "write"
  BY <1>1, OrderlyTail DEF LockInv
<1>3. \A l \in Loads : creating[l] => pc[l] = "done"
  BY <1>1 DEF LockInv, CreatorHoldsAlone
<1>4. stateLock.readers \subseteq Clients
  BY DEF LockInv, LockTypes
<1>5. CASE Head(q)[2] = "write"
  <2>1. Acquire(stateLock, p) = LockOf({}, {p}, Tail(q))
    BY <1>1, <1>5 DEF LockOf, LockInv, LockTypes, Acquire
  <2>2. {} \in SUBSET Clients /\ {p} \in SUBSET Clients
        /\ {} \ {p} = stateLock.readers \ {p} /\ {p} \ {p} = {} /\ p \in {} \cup {p}
    BY <1>1, <1>5
  <2> QED
    BY <1>1, <1>2, <1>3, <1>4, <2>1, <2>2
<1>6. CASE Head(q)[2] # "write"
  <2> DEFINE R == stateLock.readers \cup {p}
  <2>1. Acquire(stateLock, p) = LockOf(R, {}, Tail(q))
    BY <1>1, <1>6 DEF LockOf, LockInv, LockTypes, Acquire
  <2>2. R \in SUBSET Clients /\ {} \in SUBSET Clients
        /\ R \ {p} = stateLock.readers \ {p} /\ {} \ {p} = {} /\ p \in R \cup {}
    BY <1>4
  <2> HIDE DEF R
  <2> QED
    BY <1>1, <1>2, <1>3, <1>4, <1>6, <2>1, <2>2
<1> QED
  BY <1>5, <1>6

(* A request is granted the lock and goes on past the look-up.  It may     *)
(* create the table only under the write lock, with no table in the map.   *)
LEMMA LockEnters ==
  ASSUME TypeOK, LockInv, NEW r \in Clients, NEW to \in Places,
         Granted(stateLock, r), stateLock' = Acquire(stateLock, r),
         pc' = [pc EXCEPT ![r] = to], to # "done", table' = table, up' = up,
         r \in Loads => to \in Working,
         r \notin Loads => to \in {"reader_read", "scan"},
         \/ creating' = creating
         \/ /\ r \in Loads /\ creating' = [creating EXCEPT ![r] = TRUE]
            /\ pc[r] = "state_write" /\ table = {}
  PROVE  LockInv'
<1>1. r \in Requests /\ \A o \in Clients : o # r => pc'[o] = pc[o]
  BY DEF Clients, Requests, Readers, TypeOK
<1>2. pc'[r] = to
  BY <1>1 DEF TypeOK
<1>3. \A l \in Loads : creating[l] => pc[l] = "done"
  BY LockGranted
<1>4. /\ stateLock'.queue = Tail(stateLock.queue)
      /\ r \in stateLock'.readers \cup stateLock'.writer
      /\ stateLock.readers \ {r} \subseteq stateLock'.readers
      /\ pc[r] = "state_write" => stateLock'.readers = {} /\ stateLock'.writer = {r}
      /\ stateLock.writer = {}
      /\ LockTypes'
  <2>1. Tail(stateLock.queue) \in Seq(Tickets) /\ stateLock.writer = {}
    BY LockGranted DEF Orderly
  <2>2. PICK R, W \in SUBSET Clients :
          /\ stateLock' = LockOf(R, W, Tail(stateLock.queue))
          /\ r \in R \cup W
          /\ R \ {r} = stateLock.readers \ {r} /\ W \ {r} = {}
          /\ pc[r] = "state_write" => R = {} /\ W = {r}
    BY LockGranted
  <2> QED
    BY <2>1, <2>2 DEF LockTypes, LockOf
<1>5. Orderly(stateLock'.queue, pc')
  <2>1. Orderly(Tail(stateLock.queue), pc) /\ Absent(Tail(stateLock.queue), r)
    BY LockGranted
  <2>2. \A to_ : Orderly(Tail(stateLock.queue), [pc EXCEPT ![r] = to_])
    BY <2>1, OrderlyElsewhere
  <2> QED
    BY <1>4, <2>2
<1>6. InsideHolds'
  BY <1>1, <1>4 DEF LockInv, InsideHolds, Inside
<1>7. CreatorHoldsAlone'
  <2> SUFFICES ASSUME NEW l \in Loads, creating'[l], pc'[l] # "done"
               PROVE  /\ pc'[l] \in Working
                      /\ stateLock'.readers = {} /\ stateLock'.writer = {l}
                      /\ table' = {}
    BY DEF CreatorHoldsAlone
  <2>1. pc[r] # "done"
    BY LockGranted
  <2>2. l = r /\ ~creating[l]
    BY <1>1, <1>3, <2>1 DEF TypeOK, Clients
  <2> QED
    BY <1>2, <1>4, <2>2
<1>8. DownIsIdle'
  BY <1>1, LockGranted DEF LockInv, DownIsIdle, Clients
<1> QED
  BY <1>4, <1>5, <1>6, <1>7, <1>8 DEF LockInv

(* With no table being created, a step that creates none and lets nobody   *)
(* past the look-up only has to keep the queue in order.                   *)
LEMMA LockNobodyIn ==
  ASSUME TypeOK, LockInv, NEW r \in Clients, NEW to \in {"state_write", "done"},
         pc' = [pc EXCEPT ![r] = to], pc[r] \in {"state_read", "state_write"},
         UNCHANGED <<table, up, creating>>, LockTypes',
         stateLock.readers \ {r} \subseteq stateLock'.readers,
         stateLock.writer = {},
         \A l \in Loads : creating[l] => pc[l] = "done",
         Orderly(stateLock'.queue, pc')
  PROVE  LockInv'
<1>1. r \in Requests /\ \A o \in Clients : o # r => pc'[o] = pc[o]
  BY DEF Clients, Requests, Readers, TypeOK
<1>2. pc'[r] = to
  BY <1>1 DEF TypeOK
<1>3. InsideHolds'
  BY <1>1, <1>2 DEF LockInv, InsideHolds, Inside, Working
<1>4. CreatorHoldsAlone'
  BY <1>1 DEF CreatorHoldsAlone, Clients
<1>5. DownIsIdle'
  BY <1>1 DEF LockInv, DownIsIdle, Clients
<1> QED
  BY <1>3, <1>4, <1>5 DEF LockInv

(* A request is granted the lock, finds no table, and is answered. *)
LEMMA LockTurnsAway ==
  ASSUME TypeOK, LockInv, NEW r \in Clients, Granted(stateLock, r),
         stateLock' = Release(Acquire(stateLock, r), r),
         pc' = [pc EXCEPT ![r] = "done"], UNCHANGED <<table, up, creating>>
  PROVE  LockInv'
<1>1. Tail(stateLock.queue) \in Seq(Tickets) /\ stateLock.writer = {}
  BY LockGranted DEF Orderly
<1>2. PICK R, W \in SUBSET Clients :
        /\ Acquire(stateLock, r) =
             LockOf(R, W, Tail(stateLock.queue))
        /\ R \ {r} = stateLock.readers \ {r} /\ W \ {r} = {}
  BY LockGranted
<1>3. stateLock' = LockOf(R \ {r}, W \ {r}, Tail(stateLock.queue))
  <2>1. Acquire(stateLock, r) = LockOf(R, W, Tail(stateLock.queue))
    BY <1>2
  <2>2. Release(LockOf(R, W, Tail(stateLock.queue)), r) =
          LockOf(R \ {r}, W \ {r}, Tail(stateLock.queue))
    BY LockReleased
  <2> QED
    BY <2>1, <2>2
<1>4. /\ LockTypes' /\ stateLock.readers \ {r} \subseteq stateLock'.readers
      /\ stateLock'.queue = Tail(stateLock.queue)
  <2>1. R \ {r} \subseteq Clients /\ W \ {r} \subseteq Clients
    OBVIOUS
  <2>2. stateLock.readers \ {r} = R \ {r}
    BY <1>2
  <2> QED
    BY <1>1, <1>3, <2>1, <2>2 DEF LockTypes, LockOf
<1>5. Orderly(stateLock'.queue, pc')
  <2>1. Orderly(Tail(stateLock.queue), pc) /\ Absent(Tail(stateLock.queue), r)
    BY LockGranted
  <2>2. \A to_ : Orderly(Tail(stateLock.queue), [pc EXCEPT ![r] = to_])
    BY <2>1, OrderlyElsewhere
  <2> QED
    BY <1>4, <2>2
<1> QED
  BY <1>1, <1>4, <1>5, LockGranted, LockNobodyIn

(* A load is granted the read lock, finds no table, and queues for the     *)
(* write lock.                                                             *)
LEMMA LockUpgrades ==
  ASSUME TypeOK, LockInv, NEW r \in Loads, Granted(stateLock, r),
         stateLock' = Upgrade(r), pc' = [pc EXCEPT ![r] = "state_write"],
         UNCHANGED <<table, up, creating>>
  PROVE  LockInv'
<1>1. r \in Clients /\ stateLock.writer = {}
  BY DEF Granted, Clients
<1>2. Orderly(Tail(stateLock.queue), pc) /\ Absent(Tail(stateLock.queue), r)
  BY <1>1, LockGranted
<1> DEFINE Q == Append(Tail(stateLock.queue), <<r, "write">>)
<1>3. Orderly(Q, pc')
  BY <1>1, <1>2, OrderlyAppend DEF TypeOK
<1>4. Q \in Seq(Tickets)
  BY <1>3 DEF Orderly
<1>5. PICK R, W \in SUBSET Clients :
        /\ Acquire(stateLock, r) =
             LockOf(R, W, Tail(stateLock.queue))
        /\ R \ {r} = stateLock.readers \ {r} /\ W \ {r} = {}
  BY <1>1, LockGranted
<1>6. stateLock' = LockOf(R \ {r}, W \ {r}, Q)
  <2>1. Acquire(stateLock, r) = LockOf(R, W, Tail(stateLock.queue))
    BY <1>5
  <2>2. Release(LockOf(R, W, Tail(stateLock.queue)), r) =
          LockOf(R \ {r}, W \ {r}, Tail(stateLock.queue))
    BY LockReleased
  <2>3. Await(LockOf(R \ {r}, W \ {r}, Tail(stateLock.queue)), r, "write") =
          LockOf(R \ {r}, W \ {r}, Q)
    BY LockAwaited
  <2> QED
    BY <2>1, <2>2, <2>3 DEF Upgrade
<1> HIDE DEF Q
<1>7. /\ LockTypes' /\ stateLock.readers \ {r} \subseteq stateLock'.readers
      /\ stateLock'.queue = Q
  BY <1>4, <1>5, <1>6 DEF LockTypes, LockOf
<1> QED
  BY <1>1, <1>3, <1>7, LockGranted, LockNobodyIn

(* A request arrives and queues for the read lock. *)
LEMMA LockAsks ==
  ASSUME TypeOK, LockInv, NEW r \in Clients, pc[r] = "new", up,
         stateLock' = Await(stateLock, r, "read"),
         pc' = [pc EXCEPT ![r] = "state_read"], UNCHANGED <<table, up, creating>>
  PROVE  LockInv'
<1> DEFINE Q == Append(stateLock.queue, <<r, "read">>)
<1>1. Absent(stateLock.queue, r)
  BY OrderlyAway DEF LockInv
<1>2. Orderly(Q, pc')
  BY <1>1, OrderlyAppend DEF LockInv, TypeOK
<1>3. Q \in Seq(Tickets)
  BY <1>2 DEF Orderly
<1> HIDE DEF Q
<1>4. stateLock' = [readers |-> stateLock.readers, writer |-> stateLock.writer,
                    queue |-> Q]
  BY DEF LockInv, LockTypes, Await, Q
<1>5. r \in Requests /\ pc'[r] = "state_read"
      /\ \A o \in Clients : o # r => pc'[o] = pc[o]
  BY DEF Clients, Requests, Readers, TypeOK
<1>6. LockTypes'
  BY <1>3, <1>4 DEF LockInv, LockTypes
<1>7. Orderly(stateLock'.queue, pc')
  BY <1>2, <1>4
<1>8. InsideHolds'
  BY <1>4, <1>5 DEF LockInv, InsideHolds, Inside, Working
<1>9. CreatorHoldsAlone'
  BY <1>4, <1>5 DEF LockInv, CreatorHoldsAlone, Clients, Working
<1>10. DownIsIdle'
  BY DEF DownIsIdle
<1> QED
  BY <1>6, <1>7, <1>8, <1>9, <1>10 DEF LockInv

(* The client of a request closes the connection. *)
LEMMA LockDrops ==
  ASSUME TypeOK, LockInv, NEW r \in Clients,
         stateLock' = Leave(stateLock, r),
         pc' = [pc EXCEPT ![r] = "done"], UNCHANGED <<table, up, creating>>
  PROVE  LockInv'
<1> DEFINE Q == Without(stateLock.queue, r)
<1>1. Orderly(Q, pc) /\ Absent(Q, r)
  BY OrderlyWithout DEF LockInv
<1>2. Orderly(Q, pc')
  <2>1. Orderly(Q, [pc EXCEPT ![r] = "done"])
    <3> HIDE DEF Q
    <3> QED
      BY <1>1, OrderlyElsewhere
  <2> QED
    BY <2>1
<1>3. Q \in Seq(Tickets)
  BY <1>1 DEF Orderly
<1>4. stateLock' = [readers |-> stateLock.readers \ {r},
                    writer  |-> stateLock.writer \ {r}, queue |-> Q]
  BY DEF LockInv, LockTypes, Leave, Release
<1> HIDE DEF Q
<1>5. r \in Requests /\ pc'[r] = "done"
      /\ \A o \in Clients : o # r => pc'[o] = pc[o]
  BY DEF Clients, Requests, Readers, TypeOK
<1>6. LockTypes'
  BY <1>3, <1>4 DEF LockInv, LockTypes
<1>7. Orderly(stateLock'.queue, pc')
  BY <1>2, <1>4
<1>8. InsideHolds'
  BY <1>4, <1>5 DEF LockInv, InsideHolds, Inside, Working
<1>9. CreatorHoldsAlone'
  BY <1>4, <1>5 DEF LockInv, CreatorHoldsAlone, Clients, Working
<1>10. DownIsIdle'
  BY <1>5 DEF LockInv, DownIsIdle, Clients
<1> QED
  BY <1>6, <1>7, <1>8, <1>9, <1>10 DEF LockInv

(* The process is killed, and with it every lock. *)
LEMMA LockCrash ==
  ASSUME TypeOK, LockInv, Crash
  PROVE  LockInv'
<1>1. stateLock' = [readers |-> {}, writer |-> {}, queue |-> << >>]
  BY DEF Crash, Free
<1>2. \A r \in Clients : (pc'[r] = pc[r] /\ pc[r] = "new") \/ pc'[r] = "done"
  BY RequestAssumption DEF Crash, Clients, Requests, Readers
<1>3. LockTypes' /\ Orderly(stateLock'.queue, pc')
  BY <1>1 DEF LockTypes, Orderly
<1>4. InsideHolds'
  BY <1>2 DEF InsideHolds, Inside, Working
<1>5. CreatorHoldsAlone'
  BY <1>2 DEF LockInv, CreatorHoldsAlone, Crash, Clients, Working
<1>6. DownIsIdle'
  BY <1>2 DEF DownIsIdle, Clients
<1> QED
  BY <1>3, <1>4, <1>5, <1>6 DEF LockInv

(* Steps of others: the Flight server never touches this lock. *)
LEMMA LockElsewhere ==
  ASSUME TypeOK, LockInv, UNCHANGED <<stateLock, table, up, creating>>,
         \A r \in Clients : pc'[r] = pc[r]
  PROVE  LockInv'
<1>1. Orderly(stateLock'.queue, pc')
  <2>1. stateLock.queue \in Seq(Tickets)
    BY DEF LockInv, Orderly
  <2>2. \A i \in 1 .. Len(stateLock.queue) : stateLock.queue[i][1] \in Clients
    BY <2>1 DEF Tickets
  <2> QED
    BY <2>2 DEF LockInv, Orderly
<1>2. LockTypes' /\ InsideHolds' /\ CreatorHoldsAlone' /\ DownIsIdle'
  BY DEF LockInv, LockTypes, InsideHolds, Inside, CreatorHoldsAlone, DownIsIdle, Clients
<1> QED
  BY <1>1, <1>2 DEF LockInv

(* The same for a load at work. *)
LEMMA LoadMoves ==
  ASSUME TypeOK, LockInv, UNCHANGED <<stateLock, table, up, creating>>,
         NEW r \in Loads, NEW to \in Working, pc' = [pc EXCEPT ![r] = to],
         pc[r] \in Working
  PROVE  LockInv'
<1>1. Inside(r) /\ r \in Clients /\ to \in Places /\ to # "done"
  BY DEF Inside, Clients, Working, Places
<1> QED
  BY <1>1, LockMoves

LEMMA LoadReplies ==
  ASSUME TypeOK, LockInv, UNCHANGED <<up, creating>>, NEW r \in Loads,
         pc' = [pc EXCEPT ![r] = "done"], pc[r] \in Working,
         stateLock' = Release(stateLock, r)
  PROVE  LockInv'
<1>1. Inside(r) /\ r \in Clients
  BY DEF Inside, Clients, Working
<1> QED
  BY <1>1, LockReplies

(* Every step keeps the lock and its holders. *)
LEMMA LockStep ==
  ASSUME TypeOK, LockInv, [Next]_vars
  PROVE  LockInv'
<1> USE DEF Goto, Reply, disk, server, locks, spill, locals, history
<1>0. /\ Loads \subseteq Clients /\ Queries \subseteq Clients
      /\ Loads \cap Queries = {} /\ Clients \cap Flights = {}
  BY RequestAssumption DEF Clients, Readers
<1>1. ASSUME NEW r \in Loads \cup Queries, Submit(r) PROVE LockInv'
  BY <1>1, LockAsks DEF Submit, Clients
<1>2. ASSUME NEW q \in Queries, QueryStep(q) PROVE LockInv'
  <2>0. q \in Clients /\ q \notin Loads
    BY <1>0
  <2>1. CASE LookupForQuery(q)
    <3>1. CASE pc' = [pc EXCEPT ![q] = "reader_read"] /\ stateLock' = Acquire(stateLock, q)
      <4>1. "reader_read" \in Places /\ "reader_read" # "done"
        BY DEF Places
      <4>2. Granted(stateLock, q) /\ UNCHANGED <<table, up, creating>>
        BY <2>1 DEF LookupForQuery
      <4> QED
        BY <2>0, <3>1, <4>1, <4>2, LockEnters
    <3>2. CASE pc' = [pc EXCEPT ![q] = "done"]
               /\ stateLock' = Release(Acquire(stateLock, q), q)
      <4>1. Granted(stateLock, q) /\ UNCHANGED <<table, up, creating>>
        BY <2>1 DEF LookupForQuery
      <4> QED
        BY <2>0, <3>2, <4>1, LockTurnsAway
    <3> QED
      BY <2>1, <3>1, <3>2 DEF LookupForQuery
  <2>2. CASE Prune(q)
    <3>1. /\ UNCHANGED <<stateLock, table, up, creating>>
          /\ pc' = [pc EXCEPT ![q] = "scan"] /\ pc[q] = "reader_read"
      BY <2>2 DEF Prune
    <3>2. Inside(q) /\ "scan" \in Places /\ "scan" # "done"
      BY <3>1 DEF Inside, Places
    <3> QED
      BY <2>0, <3>1, <3>2, LockMoves
  <2>3. CASE Scan(q)
    <3>1. /\ UNCHANGED <<up, creating>> /\ pc[q] = "scan"
          /\ pc' = [pc EXCEPT ![q] = "done"] /\ stateLock' = Release(stateLock, q)
      BY <2>3 DEF Scan
    <3> QED
      BY <2>0, <3>1, LockReplies DEF Inside
  <2> QED
    BY <1>2, <2>1, <2>2, <2>3 DEF QueryStep
<1>3. ASSUME NEW r \in Loads, LoadStep(r) PROVE LockInv'
  <2>0. r \in Clients
    BY <1>0
  <2>1. CASE LookupForLoad(r)
    <3>0. Granted(stateLock, r) /\ UNCHANGED <<table, up, creating>>
      BY <2>1 DEF LookupForLoad
    <3>1. CASE pc' = [pc EXCEPT ![r] = "open"] /\ stateLock' = Acquire(stateLock, r)
      <4>1. "open" \in Places /\ "open" \in Working /\ "open" # "done"
        BY DEF Places, Working
      <4> QED
        BY <2>0, <3>0, <3>1, <4>1, LockEnters
    <3>2. CASE pc' = [pc EXCEPT ![r] = "state_write"] /\ stateLock' = Upgrade(r)
      BY <3>0, <3>2, LockUpgrades
    <3> QED
      BY <2>1, <3>1, <3>2 DEF LookupForLoad
  <2>2. CASE CreateTable(r)
    <3>0. Granted(stateLock, r) /\ UNCHANGED <<table, up>> /\ pc[r] = "state_write"
      BY <2>2 DEF CreateTable
    <3>1. CASE /\ pc' = [pc EXCEPT ![r] = "open"] /\ stateLock' = Acquire(stateLock, r)
               /\ \/ creating' = creating
                  \/ creating' = [creating EXCEPT ![r] = TRUE] /\ table = {}
      <4>1. "open" \in Places /\ "open" \in Working /\ "open" # "done"
        BY DEF Places, Working
      <4> QED
        BY <2>0, <3>0, <3>1, <4>1, LockEnters
    <3>2. CASE /\ pc' = [pc EXCEPT ![r] = "done"] /\ UNCHANGED creating
               /\ stateLock' = Release(Acquire(stateLock, r), r)
      BY <2>0, <3>0, <3>2, LockTurnsAway
    <3> QED
      BY <2>2, <3>1, <3>2 DEF CreateTable
  <2>3. CASE OpenWriter(r)
    <3>1. PICK to \in Working : pc' = [pc EXCEPT ![r] = to]
      BY <2>3 DEF OpenWriter, Working
    <3>2. UNCHANGED <<stateLock, table, up, creating>> /\ pc[r] \in Working
      BY <2>3 DEF OpenWriter, Working
    <3> QED
      BY <3>1, <3>2, LoadMoves
  <2>4. CASE OpenLog(r)
    <3>1. PICK to \in Working : pc' = [pc EXCEPT ![r] = to]
      BY <2>4 DEF OpenLog, Working
    <3>2. UNCHANGED <<stateLock, table, up, creating>> /\ pc[r] \in Working
      BY <2>4 DEF OpenLog, Working
    <3> QED
      BY <3>1, <3>2, LoadMoves
  <2>5. ASSUME NEW x \in Rows, AppendRow(r, x) PROVE LockInv'
    <3>1. PICK to \in Working : pc' = [pc EXCEPT ![r] = to]
      BY <2>5 DEF AppendRow, Working
    <3>2. UNCHANGED <<stateLock, table, up, creating>> /\ pc[r] \in Working
      BY <2>5 DEF AppendRow, Working
    <3> QED
      BY <3>1, <3>2, LoadMoves
  <2>6. CASE RoutingPanics(r)
    <3>1. /\ UNCHANGED <<up, creating>> /\ pc[r] \in Working
          /\ pc' = [pc EXCEPT ![r] = "done"] /\ stateLock' = Release(stateLock, r)
      BY <2>6 DEF RoutingPanics, Working
    <3> QED
      BY <3>1, LoadReplies
  <2>7. CASE BadRecord(r)
    <3>1. /\ UNCHANGED <<up, creating>> /\ pc[r] \in Working
          /\ pc' = [pc EXCEPT ![r] = "done"] /\ stateLock' = Release(stateLock, r)
      BY <2>7 DEF BadRecord, Working
    <3> QED
      BY <3>1, LoadReplies
  <2>8. CASE FlushAll(r)
    <3>1. PICK to \in Working : pc' = [pc EXCEPT ![r] = to]
      BY <2>8 DEF FlushAll, Working
    <3>2. UNCHANGED <<stateLock, table, up, creating>> /\ pc[r] \in Working
      BY <2>8 DEF FlushAll, Working
    <3> QED
      BY <3>1, <3>2, LoadMoves
  <2>9. CASE OpenData(r)
    <3>1. PICK to \in Working : pc' = [pc EXCEPT ![r] = to]
      BY <2>9 DEF OpenData, Working
    <3>2. UNCHANGED <<stateLock, table, up, creating>> /\ pc[r] \in Working
      BY <2>9 DEF OpenData, Working
    <3> QED
      BY <3>1, <3>2, LoadMoves
  <2>19. ASSUME NEW chunk \in SUBSET unwritten[r], Spill(r, chunk) PROVE LockInv'
    <3>1. PICK to \in Working : pc' = [pc EXCEPT ![r] = to]
      BY <2>19 DEF Spill, Working
    <3>2. UNCHANGED <<stateLock, table, up, creating>> /\ pc[r] \in Working
      BY <2>19 DEF Spill, Working
    <3> QED
      BY <3>1, <3>2, LoadMoves
  <2>10. CASE ReadMeta(r)
    <3>1. PICK to \in Working : pc' = [pc EXCEPT ![r] = to]
      BY <2>10 DEF ReadMeta, Working
    <3>2. UNCHANGED <<stateLock, table, up, creating>> /\ pc[r] \in Working
      BY <2>10 DEF ReadMeta, Working
    <3> QED
      BY <3>1, <3>2, LoadMoves
  <2>11. CASE ReadMetaFails(r)
    <3>1. /\ UNCHANGED <<up, creating>> /\ pc[r] \in Working
          /\ pc' = [pc EXCEPT ![r] = "done"] /\ stateLock' = Release(stateLock, r)
      BY <2>11 DEF ReadMetaFails, Working
    <3> QED
      BY <3>1, LoadReplies
  <2>12. CASE TruncateMeta(r)
    <3>1. PICK to \in Working : pc' = [pc EXCEPT ![r] = to]
      BY <2>12 DEF TruncateMeta, Working
    <3>2. UNCHANGED <<stateLock, table, up, creating>> /\ pc[r] \in Working
      BY <2>12 DEF TruncateMeta, Working
    <3> QED
      BY <3>1, <3>2, LoadMoves
  <2>13. CASE WriteMeta(r)
    <3>1. PICK to \in Working : pc' = [pc EXCEPT ![r] = to]
      BY <2>13 DEF WriteMeta, Working
    <3>2. UNCHANGED <<stateLock, table, up, creating>> /\ pc[r] \in Working
      BY <2>13 DEF WriteMeta, Working
    <3> QED
      BY <3>1, <3>2, LoadMoves
  <2>14. CASE RemoveLog(r)
    <3>1. PICK to \in Working : pc' = [pc EXCEPT ![r] = to]
      BY <2>14 DEF RemoveLog, Working
    <3>2. UNCHANGED <<stateLock, table, up, creating>> /\ pc[r] \in Working
      BY <2>14 DEF RemoveLog, Working
    <3> QED
      BY <3>1, <3>2, LoadMoves
  <2>15. CASE LoadSegments(r)
    <3>1. PICK to \in Working : pc' = [pc EXCEPT ![r] = to]
      BY <2>15 DEF LoadSegments, Working
    <3>2. UNCHANGED <<stateLock, table, up, creating>> /\ pc[r] \in Working
      BY <2>15 DEF LoadSegments, Working
    <3> QED
      BY <3>1, <3>2, LoadMoves
  <2>16. CASE LoadSegmentsFails(r)
    <3>1. /\ UNCHANGED <<up, creating>> /\ pc[r] \in Working
          /\ pc' = [pc EXCEPT ![r] = "done"] /\ stateLock' = Release(stateLock, r)
      BY <2>16 DEF LoadSegmentsFails, Working
    <3> QED
      BY <3>1, LoadReplies
  <2>17. CASE InstallReader(r)
    <3>1. PICK to \in Working : pc' = [pc EXCEPT ![r] = to]
      BY <2>17 DEF InstallReader, Working
    <3>2. UNCHANGED <<stateLock, table, up, creating>> /\ pc[r] \in Working
      BY <2>17 DEF InstallReader, Working
    <3> QED
      BY <3>1, <3>2, LoadMoves
  <2>18. CASE FinishLoad(r)
    <3>1. /\ UNCHANGED <<up, creating>> /\ pc[r] \in Working
          /\ pc' = [pc EXCEPT ![r] = "done"] /\ stateLock' = Release(stateLock, r)
      BY <2>18 DEF FinishLoad, Working
    <3> QED
      BY <3>1, LoadReplies
  <2> QED
    BY <1>3, <2>1, <2>2, <2>3, <2>4, <2>5, <2>6, <2>7, <2>8, <2>9, <2>10, <2>11,
       <2>12, <2>13, <2>14, <2>15, <2>16, <2>17, <2>18, <2>19 DEF LoadStep
<1>4. ASSUME NEW r \in Requests, Disconnect(r) PROVE LockInv'
  <2>1. r \in Clients
    BY <1>4, RequestAssumption DEF Disconnect, Clients
  <2> QED
    BY <1>4, <2>1, LockDrops DEF Disconnect
<1>5. CASE Crash
  BY <1>5, LockCrash
<1>6. CASE Restart
  <2>1. ~up /\ stateLock' = stateLock /\ pc' = pc /\ creating' = creating /\ up'
    BY <1>6 DEF Restart
  <2>2. \A l \in Loads : creating[l] => pc[l] = "done"
    BY <2>1 DEF LockInv, DownIsIdle, CreatorHoldsAlone, Working
  <2> QED
    BY <2>1, <2>2 DEF LockInv, LockTypes, InsideHolds, Inside, CreatorHoldsAlone, DownIsIdle
<1>7. CASE StartFlight
  BY <1>7, LockElsewhere DEF StartFlight
<1>8. ASSUME NEW f \in Flights, SubmitFlight(f) PROVE LockInv'
  <2>0. PICK to : pc' = [pc EXCEPT ![f] = to]
    BY <1>8 DEF SubmitFlight
  <2>1. \A r \in Clients : pc'[r] = pc[r]
    BY <1>0, <2>0 DEF TypeOK, Clients, Requests, Readers
  <2>2. UNCHANGED <<stateLock, table, up, creating>>
    BY <1>8 DEF SubmitFlight
  <2> QED
    BY <2>1, <2>2, LockElsewhere
<1>9. ASSUME NEW f \in Flights, FlightStep(f) PROVE LockInv'
  <2>0. PICK to : pc' = [pc EXCEPT ![f] = to]
    BY <1>9 DEF FlightStep, FlightSegments, FlightSegmentsFails, FlightScan
  <2>1. \A r \in Clients : pc'[r] = pc[r]
    BY <1>0, <2>0 DEF TypeOK, Clients, Requests, Readers
  <2>2. UNCHANGED <<stateLock, table, up, creating>>
    BY <1>9 DEF FlightStep, FlightSegments, FlightSegmentsFails, FlightScan
  <2> QED
    BY <2>1, <2>2, LockElsewhere
<1>10. CASE UNCHANGED vars
  BY <1>10, LockElsewhere DEF vars
<1> QED
  BY <1>1, <1>2, <1>3, <1>4, <1>5, <1>6, <1>7, <1>8, <1>9, <1>10 DEF Next

(* While a load creates the table, nobody else is past the look-up, and    *)
(* the map has no table: for any requests, closed connections, crashes and *)
(* restarts, a TableState is never replaced by another.                    *)
THEOREM CreatorAlone ==
  Spec => []CreatorRunsAlone
<1>1. Init => TypeOK /\ LockInv
  BY TypesInit, LockInit
<1>2. TypeOK /\ LockInv /\ [Next]_vars => (TypeOK /\ LockInv)'
  BY TypesStep, LockStep
<1>3. TypeOK /\ LockInv => CreatorRunsAlone
  <2> SUFFICES ASSUME TypeOK, LockInv PROVE CreatorRunsAlone
    OBVIOUS
  <2> SUFFICES ASSUME NEW r \in Loads, creating[r], pc[r] # "done",
                      NEW o \in (Loads \cup Queries) \ {r}
               PROVE  pc[o] \in {"new", "state_read", "state_write", "done"}
    BY DEF CreatorRunsAlone, LockInv, CreatorHoldsAlone
  <2>1. ~Inside(o)
    BY CreatorIsAlone DEF Clients
  <2> QED
    BY <2>1 DEF Inside
<1> QED
  BY <1>1, <1>2, <1>3, PTL DEF Spec
=============================================================================

------------------------ MODULE StrataWriterProofs ------------------------
(***************************************************************************)
(* Proofs about StrataWriter: typing, at most one copy of a row per writer *)
(* session, crash safety of acknowledged rows and of the log's removal,    *)
(* and the implementation of the abstract store.                           *)
(***************************************************************************)
EXTENDS StrataWriter, FiniteSetTheorems, TLAPS

USE RoutingAssumption, ConfigAssumption

(* Merging metadata yields readable metadata of the file's type. *)
LEMMA MergeType ==
  ASSUME NEW old \in MetaFiles, NEW rows \in SUBSET Rows
  PROVE  Merge(old, rows) \in MetaFiles
<1>1. Cardinality(rows) \in Nat
  BY FS_Subset, FS_CardinalityType, RowsFinite
<1>2. {BitOf[r] : r \in rows} \in SUBSET Bits
  OBVIOUS
<1> QED
  BY <1>1, <1>2 DEF Merge, Written, MetaFiles

(* The log holds rows only. *)
LEMMA LoggedType == TypeOK => Logged \in SUBSET Rows
<1> SUFFICES ASSUME TypeOK, NEW r \in Logged PROVE r \in Rows
  OBVIOUS
<1>1. wal.lines \in SUBSET (SUBSET Rows) /\ wal.tail \in SUBSET Rows
  BY DEF TypeOK
<1>2. CASE r \in wal.tail
  BY <1>1, <1>2
<1>3. CASE r \in UNION wal.lines
  <2>1. PICK l \in wal.lines : r \in l
    BY <1>3
  <2> QED BY <1>1, <2>1
<1> QED
  BY <1>2, <1>3 DEF Logged

(* What a write to a data file adds, which is everything if the file is    *)
(* new or ends with a whole record.                                        *)
LEMMA Gained ==
  ASSUME TypeOK, NEW s \in Segments, NEW chunk \in SUBSET unwritten, WriteCsv(s, chunk)
  PROVE  /\ file' \in [Segments -> FileStates] /\ copies' \in [Rows -> Nat]
         /\ \A r \in Rows : \/ copies'[r] = copies[r]
                            \/ r \in chunk /\ copies'[r] = copies[r] + 1
         /\ (file[s] = "bare" /\ fresh) \/ file[s] = "whole" =>
              \A r \in chunk : copies'[r] = copies[r] + 1
         /\ step = "spill" /\ step' = IF unwritten' = {} THEN "meta" ELSE "spill"
         /\ unwritten' = unwritten \ chunk
         /\ UNCHANGED <<wal, meta, mode, logging, buffered, row, flushing, merged,
                        history>>
<1> DEFINE Effect == /\ file' \in [Segments -> FileStates] /\ copies' \in [Rows -> Nat]
                     /\ \A r \in Rows : \/ copies'[r] = copies[r]
                                        \/ r \in chunk /\ copies'[r] = copies[r] + 1
           Full == \A r \in chunk : copies'[r] = copies[r] + 1
<1>0. chunk \subseteq Rows /\ copies \in [Rows -> Nat] /\ file \in [Segments -> FileStates]
  BY DEF TypeOK
<1>1. /\ step = "spill" /\ step' = IF unwritten' = {} THEN "meta" ELSE "spill"
      /\ unwritten' = unwritten \ chunk
      /\ UNCHANGED <<wal, meta, mode, logging, buffered, row, flushing, merged, history>>
  BY DEF WriteCsv
<1>2. CASE file' = [file EXCEPT ![s] = "whole"] /\ copies' = Added(chunk)
  <2>1. Effect /\ Full
    BY <1>0, <1>2 DEF Added, FileStates
  <2> QED
    BY <1>1, <2>1
<1>3. ASSUME NEW lost \in SUBSET chunk, copies' = Added(chunk \ lost), file[s] = "cut",
             NEW after \in {"whole", "cut"}, file' = [file EXCEPT ![s] = after]
      PROVE  Effect
  BY <1>0, <1>3 DEF Added, FileStates
<1>4. CASE file[s] = "cut" /\ Effect
  BY <1>1, <1>4
<1>5. CASE file' = [file EXCEPT ![s] = "ruined"] /\ copies' = copies
           /\ file[s] \in {"bare", "ruined"} /\ ~fresh
  <2>1. Effect
    BY <1>0, <1>5 DEF FileStates
  <2> QED
    BY <1>1, <1>5, <2>1
<1> HIDE DEF Effect
<1>6. \/ file' = [file EXCEPT ![s] = "whole"] /\ copies' = Added(chunk)
      \/ file[s] = "cut" /\ Effect
      \/ /\ file' = [file EXCEPT ![s] = "ruined"] /\ copies' = copies
         /\ file[s] \in {"bare", "ruined"} /\ ~fresh
  BY <1>3 DEF WriteCsv
<1> QED
  BY <1>2, <1>4, <1>5, <1>6

(* What an interrupted write takes away. *)
LEMMA Lost ==
  ASSUME TypeOK, LeaveBehind
  PROVE  /\ file' \in [Segments -> FileStates] /\ copies' \in [Rows -> Nat]
         /\ interrupted' \in SUBSET (Segments \cup {WalLog})
         /\ interrupted \subseteq interrupted'
         /\ \A r \in Rows : \/ copies'[r] = copies[r]
                            \/ copies'[r] = 0 /\ SegOf[r] \in interrupted'
<1> USE DEF TypeOK, FileStates
<1>1. CASE step = "spill"
  <2>1. PICK s \in Segments : \E left \in Leftovers(s) :
          /\ file' = [file EXCEPT ![s] = left]
          /\ copies' = IF left = "ruined" THEN Forget(s) ELSE copies
          /\ interrupted' = interrupted \cup {s}
    BY <1>1 DEF LeaveBehind
  <2>2. PICK left \in Leftovers(s) :
          /\ file' = [file EXCEPT ![s] = left]
          /\ copies' = IF left = "ruined" THEN Forget(s) ELSE copies
    BY <2>1
  <2>3. left \in FileStates
    BY DEF Leftovers
  <2> QED BY <2>1, <2>2, <2>3 DEF Forget
<1>2. CASE step # "spill"
  BY <1>2 DEF LeaveBehind
<1> QED
  BY <1>1, <1>2

(* The initial state is typed. *)
LEMMA TypeInit == Init => TypeOK
<1> SUFFICES ASSUME Init PROVE TypeOK
  OBVIOUS
<1>1. NoMeta \in MetaFiles
  BY DEF NoMeta, MetaFiles
<1>2. wal \in [lines : SUBSET (SUBSET Rows), tail : SUBSET Rows]
  BY DEF Init, EmptyLog
<1>3. /\ copies \in [Rows -> Nat] /\ opens \in 0 .. MaxOpens
      /\ file \in [Segments -> FileStates]
  BY DEF Init, FileStates
<1> QED
  BY <1>1, <1>2, <1>3 DEF Init, TypeOK, Modes

(* Every step preserves the types. *)
LEMMA TypeStep == TypeOK /\ [Next]_vars => TypeOK'
<1> SUFFICES ASSUME TypeOK, [Next]_vars PROVE TypeOK'
  OBVIOUS
<1> USE DEF TypeOK, Modes
<1>0. NoMeta \in MetaFiles /\ BrokenMeta \in MetaFiles
  BY DEF NoMeta, BrokenMeta, MetaFiles
<1>1. CASE Open
  <2>1. buffered' \in SUBSET Rows
    BY <1>1, LoggedType DEF Open
  <2>2. mode' \in Modes /\ opens' \in 0 .. MaxOpens
    BY <1>1 DEF Open
  <2>3. logging' \in BOOLEAN
    BY <1>1, Zenon DEF Open
  <2> QED BY <1>1, <2>1, <2>2, <2>3 DEF Open, disk, job
<1>2. CASE FinishReplay
  BY <1>2 DEF FinishReplay, disk, job, history
<1>3. ASSUME NEW r \in Rows, AppendJson(r) PROVE TypeOK'
  BY <1>3 DEF AppendJson, job
<1>4. ASSUME NEW r \in row, AppendNewline(r) PROVE TypeOK'
  BY <1>4, <1>0 DEF AppendNewline, Buffer, StartJob, job
<1>5. ASSUME NEW r \in Rows, WriteUnlogged(r) PROVE TypeOK'
  <2>1. /\ buffered' \in SUBSET Rows /\ row' \in SUBSET Rows /\ acked' \in SUBSET Rows
        /\ mode' \in Modes /\ flushing' \in SUBSET Rows /\ unwritten' \in SUBSET Rows
    BY <1>5 DEF WriteUnlogged, Buffer, StartJob, job
  <2>2. /\ step' \in {"none", "data", "spill", "meta", "json"} /\ merged' \in MetaFiles
        /\ fresh' \in BOOLEAN
    BY <1>5, <1>0 DEF WriteUnlogged, Buffer, StartJob, job
  <2> QED BY <1>5, <2>1, <2>2 DEF WriteUnlogged, disk
<1>6. ASSUME NEW s \in Segments, NEW chunk \in SUBSET unwritten, WriteCsv(s, chunk) PROVE TypeOK'
  <2>1. fresh' = FALSE
    BY <1>6 DEF WriteCsv
  <2>2. /\ file' \in [Segments -> FileStates] /\ copies' \in [Rows -> Nat]
        /\ step' \in {"meta", "spill"} /\ unwritten' = unwritten \ chunk
        /\ UNCHANGED <<wal, meta, mode, logging, buffered, row, flushing, merged, history>>
    BY <1>6, Gained
  <2> QED BY <2>1, <2>2 DEF history
<1>7. ASSUME NEW s \in Segments, RenameParquet(s) PROVE TypeOK'
  BY <1>7 DEF RenameParquet, Forget, history
<1>8. ASSUME NEW s \in Segments, TruncateMeta(s) PROVE TypeOK'
  BY <1>8, <1>0, MergeType DEF TruncateMeta, history
<1>9. ASSUME NEW s \in Segments, WriteMeta(s) PROVE TypeOK'
  BY <1>9, <1>0 DEF WriteMeta, NoJob
<1>10. ASSUME NEW s \in Segments, DrainNext(s) PROVE TypeOK'
  BY <1>10, <1>0 DEF DrainNext, StartJob, disk, history
<1>11. CASE FlushAll
  BY <1>11 DEF FlushAll, disk, job, history
<1>12. CASE FinishFlushAll
  BY <1>12 DEF FinishFlushAll, RemoveLog, EmptyLog, job
<1>13. ASSUME NEW r \in Rows, AppendJsonFails(r) PROVE TypeOK'
  BY <1>13, <1>0 DEF AppendJsonFails, ReturnErr, Drop, NoJob, disk
<1>14. CASE AppendNewlineFails
  BY <1>14, <1>0, Lost DEF AppendNewlineFails, ReturnErr, Drop, NoJob
<1>15. CASE FlushFails
  BY <1>15, <1>0, Lost DEF FlushFails, ReturnErr, Drop, NoJob
<1>16. CASE TruncateFails
  BY <1>16 DEF TruncateFails, disk, job
<1>17. CASE Abandon
  BY <1>17 DEF Abandon, Drop, disk, job
<1>18. CASE Crash
  BY <1>18, <1>0, Lost DEF Crash, Drop, NoJob
<1>19. CASE UNCHANGED vars
  BY <1>19 DEF vars
<1>20. ASSUME NEW s \in Segments, OpenCsv(s) PROVE TypeOK'
  BY <1>20 DEF OpenCsv, FileStates, history
<1> QED
  BY <1>1, <1>2, <1>3, <1>4, <1>5, <1>6, <1>7, <1>8, <1>9, <1>10, <1>11,
     <1>12, <1>13, <1>14, <1>15, <1>16, <1>17, <1>18, <1>19, <1>20
     DEF Next, Progress, Call, Failure, MergeFails

(* Every state has the declared types. *)
THEOREM TypeCorrect == Spec => []TypeOK
  BY TypeInit, TypeStep, PTL DEF Spec

-----------------------------------------------------------------------------
(***************************************************************************)
(* Where a row can be in a writer's memory, for every caller and format.   *)
(***************************************************************************)

(* The fields of the writer agree with the call in progress. *)
CallShape ==
  /\ unwritten \subseteq flushing
  /\ step = "none" => flushing = {}
  /\ step # "none" => flushing # {} /\ mode \in {"replay", "write_row", "flush_all"}
  /\ step \in {"meta", "json"} => unwritten = {}
  /\ step = "data" => unwritten = flushing
  /\ mode = "down" => buffered = {}
  /\ mode \notin {"append", "write_row"} => row = {}
  /\ \A p, q \in row : p = q
  /\ buffered \cap flushing = {}

(* Only submitted rows are anywhere. *)
OnlySubmitted ==
  /\ Logged \subseteq submitted
  /\ buffered \cup flushing \cup row \subseteq submitted

(* The log after a complete append and after the removal of the file. *)
LEMMA LoggedAfterNewline ==
  ASSUME TypeOK, NEW r, AppendNewline(r)
  PROVE  Logged' = Logged
<1>1. wal' = [lines |-> wal.lines \cup {wal.tail}, tail |-> {}]
  BY DEF AppendNewline
<1>2. wal'.lines = wal.lines \cup {wal.tail} /\ wal'.tail = {}
  BY <1>1
<1> QED
  BY <1>2, Zenon DEF Logged

LEMMA LoggedAfterJson ==
  ASSUME TypeOK, NEW r, AppendJson(r)
  PROVE  Logged' = Logged \cup {r}
<1>1. wal'.lines = wal.lines /\ wal'.tail = wal.tail \cup {r}
  BY DEF AppendJson, TypeOK
<1> QED
  BY <1>1, Zenon DEF Logged

LEMMA LoggedAfterFlush ==
  ASSUME FinishFlushAll
  PROVE  Logged' = IF logging THEN {} ELSE Logged
<1>1. CASE logging
  <2>1. wal'.lines = {} /\ wal'.tail = {}
    BY <1>1 DEF FinishFlushAll, RemoveLog, EmptyLog
  <2> QED
    BY <1>1, <2>1, Zenon DEF Logged
<1>2. CASE ~logging
  <2>1. wal' = wal
    BY <1>2 DEF FinishFlushAll, RemoveLog
  <2> QED
    BY <1>2, <2>1 DEF Logged
<1> QED
  BY <1>1, <1>2

(* CallShape is inductive. *)
LEMMA CallShapeStep == TypeOK /\ CallShape /\ [Next]_vars => CallShape'
<1> SUFFICES ASSUME TypeOK, CallShape, [Next]_vars PROVE CallShape'
  OBVIOUS
<1> USE DEF CallShape, TypeOK
<1>1. CASE Open
  BY <1>1 DEF Open, disk, job
<1>2. CASE FinishReplay
  BY <1>2 DEF FinishReplay, disk, job, history
<1>3. ASSUME NEW r \in Rows, AppendJson(r) PROVE CallShape'
  BY <1>3 DEF AppendJson, job
<1>4. ASSUME NEW r \in row, AppendNewline(r) PROVE CallShape'
  <2>1. step = "none" /\ flushing = {} /\ unwritten = {} /\ r \in Rows
    BY <1>4 DEF AppendNewline
  <2> QED BY <1>4, <2>1 DEF AppendNewline, Buffer, StartJob, job
<1>5. ASSUME NEW r \in Rows, WriteUnlogged(r) PROVE CallShape'
  BY <1>5 DEF WriteUnlogged, Buffer, StartJob, job, disk
<1>6. ASSUME NEW s \in Segments, NEW chunk \in SUBSET unwritten, WriteCsv(s, chunk) PROVE CallShape'
  <2>1. /\ step = "spill" /\ step' = IF unwritten' = {} THEN "meta" ELSE "spill"
        /\ unwritten' = unwritten \ chunk
        /\ UNCHANGED <<mode, buffered, row, flushing>>
    BY <1>6 DEF WriteCsv
  <2> QED BY <2>1
<1>7. ASSUME NEW s \in Segments, RenameParquet(s) PROVE CallShape'
  BY <1>7 DEF RenameParquet, history
<1>8. ASSUME NEW s \in Segments, TruncateMeta(s) PROVE CallShape'
  BY <1>8 DEF TruncateMeta, history
<1>9. ASSUME NEW s \in Segments, WriteMeta(s) PROVE CallShape'
  BY <1>9 DEF WriteMeta, NoJob
<1>10. ASSUME NEW s \in Segments, DrainNext(s) PROVE CallShape'
  BY <1>10 DEF DrainNext, StartJob, RowsOf, disk, history
<1>11. CASE FlushAll
  BY <1>11 DEF FlushAll, disk, job, history
<1>12. CASE FinishFlushAll
  BY <1>12 DEF FinishFlushAll, RemoveLog, job
<1>13. ASSUME NEW r \in Rows, AppendJsonFails(r) PROVE CallShape'
  BY <1>13 DEF AppendJsonFails, ReturnErr, Drop, NoJob, disk
<1>14. CASE AppendNewlineFails
  BY <1>14 DEF AppendNewlineFails, ReturnErr, Drop, NoJob
<1>15. CASE FlushFails
  BY <1>15 DEF FlushFails, ReturnErr, Drop, NoJob
<1>16. CASE TruncateFails
  BY <1>16 DEF TruncateFails, disk, job
<1>17. CASE Abandon
  BY <1>17 DEF Abandon, Drop, disk, job
<1>18. CASE Crash
  BY <1>18 DEF Crash, Drop, NoJob
<1>19. CASE UNCHANGED vars
  BY <1>19 DEF vars
<1>20. ASSUME NEW s \in Segments, OpenCsv(s) PROVE CallShape'
  BY <1>20 DEF OpenCsv, history
<1> QED
  BY <1>1, <1>2, <1>3, <1>4, <1>5, <1>6, <1>7, <1>8, <1>9, <1>10, <1>11,
     <1>12, <1>13, <1>14, <1>15, <1>16, <1>17, <1>18, <1>19, <1>20
     DEF Next, Progress, Call, Failure, MergeFails

(* A log file that is not touched holds the same rows. *)
LEMMA LoggedUnchanged == UNCHANGED wal => Logged' = Logged
  BY DEF Logged

(* OnlySubmitted is inductive. *)
LEMMA OnlySubmittedStep ==
  TypeOK /\ CallShape /\ OnlySubmitted /\ [Next]_vars => OnlySubmitted'
<1> SUFFICES ASSUME TypeOK, CallShape, OnlySubmitted, [Next]_vars PROVE OnlySubmitted'
  OBVIOUS
<1> USE DEF OnlySubmitted, CallShape
<1>1. CASE Open
  BY <1>1, LoggedUnchanged DEF Open, disk, job
<1>2. CASE FinishReplay
  BY <1>2, LoggedUnchanged DEF FinishReplay, disk, job, history
<1>3. ASSUME NEW r \in Rows, AppendJson(r) PROVE OnlySubmitted'
  BY <1>3, LoggedAfterJson DEF AppendJson, job
<1>4. ASSUME NEW r \in row, AppendNewline(r) PROVE OnlySubmitted'
  BY <1>4, LoggedAfterNewline DEF AppendNewline, Buffer, StartJob, job
<1>5. ASSUME NEW r \in Rows, WriteUnlogged(r) PROVE OnlySubmitted'
  BY <1>5, LoggedUnchanged DEF WriteUnlogged, Buffer, StartJob, job, disk
<1>6. ASSUME NEW s \in Segments, NEW chunk \in SUBSET unwritten, WriteCsv(s, chunk) PROVE OnlySubmitted'
  BY <1>6, LoggedUnchanged DEF WriteCsv, history
<1>7. ASSUME NEW s \in Segments, RenameParquet(s) PROVE OnlySubmitted'
  BY <1>7, LoggedUnchanged DEF RenameParquet, history
<1>8. ASSUME NEW s \in Segments, TruncateMeta(s) PROVE OnlySubmitted'
  BY <1>8, LoggedUnchanged DEF TruncateMeta, history
<1>9. ASSUME NEW s \in Segments, WriteMeta(s) PROVE OnlySubmitted'
  BY <1>9, LoggedUnchanged DEF WriteMeta, NoJob
<1>10. ASSUME NEW s \in Segments, DrainNext(s) PROVE OnlySubmitted'
  BY <1>10, LoggedUnchanged DEF DrainNext, StartJob, RowsOf, disk, history
<1>11. CASE FlushAll
  BY <1>11, LoggedUnchanged DEF FlushAll, disk, job, history
<1>12. CASE FinishFlushAll
  BY <1>12, LoggedAfterFlush DEF FinishFlushAll, RemoveLog, job
<1>13. ASSUME NEW r \in Rows, AppendJsonFails(r) PROVE OnlySubmitted'
  BY <1>13, LoggedUnchanged DEF AppendJsonFails, ReturnErr, Drop, NoJob, disk
<1>14. CASE AppendNewlineFails
  BY <1>14, LoggedUnchanged DEF AppendNewlineFails, ReturnErr, Drop, NoJob
<1>15. CASE FlushFails
  BY <1>15, LoggedUnchanged DEF FlushFails, ReturnErr, Drop, NoJob
<1>16. CASE TruncateFails
  BY <1>16, LoggedUnchanged DEF TruncateFails, disk, job
<1>17. CASE Abandon
  BY <1>17, LoggedUnchanged DEF Abandon, Drop, disk, job
<1>18. CASE Crash
  BY <1>18, LoggedUnchanged DEF Crash, Drop, NoJob
<1>19. CASE UNCHANGED vars
  BY <1>19, LoggedUnchanged DEF vars
<1>20. ASSUME NEW s \in Segments, OpenCsv(s) PROVE OnlySubmitted'
  BY <1>20, LoggedUnchanged DEF OpenCsv, history
<1> QED
  BY <1>1, <1>2, <1>3, <1>4, <1>5, <1>6, <1>7, <1>8, <1>9, <1>10, <1>11,
     <1>12, <1>13, <1>14, <1>15, <1>16, <1>17, <1>18, <1>19, <1>20
     DEF Next, Progress, Call, Failure, MergeFails

(* A row in memory that is not on its way to disk a second time: its data  *)
(* file has fewer copies of it than there have been writers.               *)
SessionCopies ==
  /\ \A r \in Rows : copies[r] <= opens
  /\ \A r \in buffered \cup unwritten : copies[r] < opens
  /\ mode = "append" => \A r \in row : copies[r] < opens
  /\ \A r \in Rows \ submitted : copies[r] = 0
  /\ mode # "down" => opens > 0

(* SessionCopies is inductive. *)
LEMMA SessionCopiesStep ==
  /\ TypeOK /\ CallShape /\ OnlySubmitted /\ SessionCopies /\ [Next]_vars
  => SessionCopies'
<1> SUFFICES ASSUME TypeOK, CallShape, OnlySubmitted, SessionCopies, [Next]_vars PROVE SessionCopies'
  OBVIOUS
<1> USE DEF SessionCopies, CallShape, OnlySubmitted, TypeOK
<1>1. CASE Open
  BY <1>1, LoggedType DEF Open, disk, job
<1>2. CASE FinishReplay
  BY <1>2 DEF FinishReplay, disk, job, history
<1>3. ASSUME NEW r \in Rows, AppendJson(r) PROVE SessionCopies'
  BY <1>3 DEF AppendJson, job
<1>4. ASSUME NEW r \in row, AppendNewline(r) PROVE SessionCopies'
  BY <1>4 DEF AppendNewline, Buffer, StartJob, job
<1>5. ASSUME NEW r \in Rows, WriteUnlogged(r) PROVE SessionCopies'
  BY <1>5 DEF WriteUnlogged, Buffer, StartJob, job, disk
<1>6. ASSUME NEW s \in Segments, NEW chunk \in SUBSET unwritten, WriteCsv(s, chunk) PROVE SessionCopies'
  BY <1>6, Gained DEF history
<1>7. ASSUME NEW s \in Segments, RenameParquet(s) PROVE SessionCopies'
  BY <1>7 DEF RenameParquet, Forget, history
<1>8. ASSUME NEW s \in Segments, TruncateMeta(s) PROVE SessionCopies'
  BY <1>8 DEF TruncateMeta, history
<1>9. ASSUME NEW s \in Segments, WriteMeta(s) PROVE SessionCopies'
  BY <1>9 DEF WriteMeta, NoJob
<1>10. ASSUME NEW s \in Segments, DrainNext(s) PROVE SessionCopies'
  BY <1>10 DEF DrainNext, StartJob, RowsOf, disk, history
<1>11. CASE FlushAll
  BY <1>11 DEF FlushAll, disk, job, history
<1>12. CASE FinishFlushAll
  BY <1>12 DEF FinishFlushAll, RemoveLog, job
<1>13. ASSUME NEW r \in Rows, AppendJsonFails(r) PROVE SessionCopies'
  BY <1>13 DEF AppendJsonFails, ReturnErr, Drop, NoJob, disk
<1>14. CASE AppendNewlineFails
  BY <1>14, Lost DEF AppendNewlineFails, ReturnErr, Drop, NoJob
<1>15. CASE FlushFails
  BY <1>15, Lost DEF FlushFails, ReturnErr, Drop, NoJob
<1>16. CASE TruncateFails
  BY <1>16 DEF TruncateFails, disk, job
<1>17. CASE Abandon
  BY <1>17 DEF Abandon, Drop, disk, job
<1>18. CASE Crash
  BY <1>18, Lost DEF Crash, Drop, NoJob
<1>19. CASE UNCHANGED vars
  BY <1>19 DEF vars
<1>20. ASSUME NEW s \in Segments, OpenCsv(s) PROVE SessionCopies'
  BY <1>20 DEF OpenCsv, history
<1> QED
  BY <1>1, <1>2, <1>3, <1>4, <1>5, <1>6, <1>7, <1>8, <1>9, <1>10, <1>11,
     <1>12, <1>13, <1>14, <1>15, <1>16, <1>17, <1>18, <1>19, <1>20
     DEF Next, Progress, Call, Failure, MergeFails

(* The inductive invariant behind OneCopyPerOpen. *)
MemoryInv == TypeOK /\ CallShape /\ OnlySubmitted /\ SessionCopies

(* MemoryInv holds in every state. *)
THEOREM MemoryInvariant == Spec => []MemoryInv
<1>1. Init => MemoryInv
  <2> SUFFICES ASSUME Init PROVE CallShape /\ OnlySubmitted /\ SessionCopies
    BY TypeInit DEF MemoryInv
  <2>1. Logged = {}
    <3>1. wal.lines = {} /\ wal.tail = {}
      BY DEF Init, EmptyLog
    <3> QED
      BY <3>1, Zenon DEF Logged
  <2> QED
    BY <2>1 DEF Init, CallShape, OnlySubmitted, SessionCopies
<1>2. MemoryInv /\ [Next]_vars => MemoryInv'
  BY TypeStep, CallShapeStep, OnlySubmittedStep, SessionCopiesStep
     DEF MemoryInv
<1> QED
  BY <1>1, <1>2, PTL DEF Spec

(* A session stores a row at most once: replay duplicates rows, a writer   *)
(* does not, for every caller, threshold and format.                       *)
THEOREM OneCopy == Spec => []OneCopyPerOpen
<1>1. MemoryInv => OneCopyPerOpen
  BY DEF MemoryInv, SessionCopies, OneCopyPerOpen
<1> QED
  BY <1>1, MemoryInvariant, PTL

-----------------------------------------------------------------------------
(***************************************************************************)
(* Crash safety, for callers that drop a writer after an error and after   *)
(* flush_all, and data files that are appended to.                         *)
(***************************************************************************)

(* The metadata of r's segment is being rewritten; it will cover r. *)
Rewriting(r)    == step = "json" /\ flushing \subseteq RowsOf(SegOf[r])
AboutToCover(r) == Rewriting(r) /\ BitOf[r] \in merged.bitset

(* Row r can be read in its data file, or a write to that file was         *)
(* interrupted.                                                            *)
Safe(r) == r \in Stored \/ SegOf[r] \in interrupted

(* A data file whose writes were all carried through is whole, or its      *)
(* header is about to be written.                                          *)
FileInv ==
  \A s \in Segments \ interrupted :
    \/ file[s] = "whole"
    \/ file[s] = "absent" /\ ~(step = "spill" /\ flushing \subseteq RowsOf(s))
    \/ file[s] = "bare" /\ step = "spill" /\ fresh /\ flushing \subseteq RowsOf(s)

(* A log whose appends were all carried through has one row on each line.  *)
ReadInv ==
  WalLog \notin interrupted =>
    /\ \A l \in wal.lines : \A p, q \in l : p = q
    /\ wal.tail = IF mode = "append" THEN row ELSE {}

(* What a live writer guarantees: it holds the log, what it keeps in       *)
(* memory is in the log, and each logged row is still in memory or has     *)
(* reached both files.                                                     *)
LogInv ==
  /\ mode \notin {"down", "replay"} => logging
  /\ buffered \cup flushing \cup row \subseteq Logged
  /\ \A r \in flushing \ unwritten : Safe(r)
  /\ step = "json" =>
       /\ merged.file = "ok" \/ flushing \cap NonFinite # {}
       /\ merged.file \in {"ok", "broken"}
       /\ \A r \in flushing : BitOf[r] \in merged.bitset
  /\ \A r \in Rows : Rewriting(r) => meta[SegOf[r]].file = "broken"
  /\ mode # "down" =>
       \A r \in Logged :
         \/ r \in buffered \cup flushing
         \/ mode = "append" /\ r \in row
         \/ Safe(r) /\ (Covered(r) \/ AboutToCover(r) \/ (Spoilt(r) /\ ~Rewriting(r)))
  /\ \A r \in Stored :
       \/ Covered(r)
       \/ AboutToCover(r)
       \/ r \in Logged
       \/ meta[SegOf[r]].file = "broken" /\ ~Rewriting(r)
  /\ \A r \in acked : r \in Logged \/ Safe(r)

(* While a builder is flushed, its rows single out its segment. *)
LEMMA JobSegment ==
  ASSUME TypeOK, CallShape, step # "none",
         NEW s \in Segments, flushing \subseteq RowsOf(s)
  PROVE  \A r \in Rows : flushing \subseteq RowsOf(SegOf[r]) <=> SegOf[r] = s
  BY DEF TypeOK, CallShape, RowsOf

(* A flush that is interrupted in a data file belongs to that file only. *)
LEMMA FileInterrupted ==
  ASSUME MemoryInv, FileInv, LeaveBehind, step' = "none"
  PROVE  FileInv'
<1> USE DEF MemoryInv, CallShape, TypeOK, RowsOf
<1>1. CASE step # "spill"
  BY <1>1 DEF LeaveBehind, FileInv
<1>2. CASE step = "spill"
  <2>1. PICK s \in Segments : /\ flushing \subseteq RowsOf(s)
                              /\ interrupted' = interrupted \cup {s}
                              /\ \A q \in Segments : q # s => file'[q] = file[q]
    BY <1>2 DEF LeaveBehind
  <2>2. \A q \in Segments : q # s => ~(flushing \subseteq RowsOf(q))
    BY <1>2, <2>1
  <2> QED
    BY <2>1, <2>2 DEF FileInv
<1> QED
  BY <1>1, <1>2

(* FileInv is inductive, for every caller and format. *)
LEMMA FileInvStep == MemoryInv /\ FileInv /\ [Next]_vars => FileInv'
<1> SUFFICES ASSUME MemoryInv, FileInv, [Next]_vars PROVE FileInv'
  OBVIOUS
<1> USE DEF FileInv, disk, job, history
<1>0. /\ step # "none" => mode \in {"replay", "write_row", "flush_all"}
      /\ file \in [Segments -> FileStates]
      /\ \A s, q \in Segments : step # "none" /\ flushing \subseteq RowsOf(s) /\ flushing \subseteq RowsOf(q) => s = q
  BY DEF MemoryInv, CallShape, TypeOK, RowsOf
<1>1. CASE Open
  BY <1>1 DEF Open, RowsOf
<1>2. CASE FinishReplay
  BY <1>2 DEF FinishReplay, RowsOf
<1>3. ASSUME NEW r \in Rows, AppendJson(r) PROVE FileInv'
  BY <1>3 DEF AppendJson, RowsOf
<1>4. ASSUME NEW r \in row, AppendNewline(r) PROVE FileInv'
  BY <1>0, <1>4 DEF AppendNewline, Buffer, StartJob, RowsOf
<1>5. ASSUME NEW r \in Rows, WriteUnlogged(r) PROVE FileInv'
  BY <1>0, <1>5 DEF WriteUnlogged, Buffer, StartJob, RowsOf
<1>6. ASSUME NEW s \in Segments, NEW chunk \in SUBSET unwritten, WriteCsv(s, chunk) PROVE FileInv'
  <2>1. step = "spill" /\ flushing \subseteq RowsOf(s) /\ flushing' = flushing
        /\ interrupted' = interrupted
    BY <1>6 DEF WriteCsv, history
  <2>2. \A q \in Segments : q # s => file'[q] = file[q] /\ ~(flushing \subseteq RowsOf(q))
    BY <1>0, <1>6, <2>1 DEF WriteCsv
  <2>3. s \notin interrupted => file'[s] = "whole"
    BY <1>0, <1>6, <2>1 DEF WriteCsv
  <2> QED
    BY <2>1, <2>2, <2>3 DEF RowsOf
<1>7. ASSUME NEW s \in Segments, RenameParquet(s) PROVE FileInv'
  BY <1>7 DEF RenameParquet, RowsOf
<1>8. ASSUME NEW s \in Segments, TruncateMeta(s) PROVE FileInv'
  BY <1>8 DEF TruncateMeta, RowsOf
<1>9. ASSUME NEW s \in Segments, WriteMeta(s) PROVE FileInv'
  BY <1>9 DEF WriteMeta, NoJob, RowsOf
<1>10. ASSUME NEW s \in Segments, DrainNext(s) PROVE FileInv'
  BY <1>0, <1>10 DEF DrainNext, StartJob, RowsOf
<1>11. CASE FlushAll
  BY <1>11 DEF FlushAll, RowsOf
<1>12. CASE FinishFlushAll
  BY <1>12 DEF FinishFlushAll, RemoveLog, RowsOf
<1>13. ASSUME NEW r \in Rows, AppendJsonFails(r) PROVE FileInv'
  BY <1>0, <1>13 DEF AppendJsonFails, ReturnErr, NoJob, RowsOf
<1>14. CASE AppendNewlineFails
  <2>1. LeaveBehind /\ step' = "none"
    BY <1>14 DEF AppendNewlineFails, ReturnErr, NoJob
  <2> QED BY <2>1, FileInterrupted
<1>15. CASE FlushFails
  <2>1. LeaveBehind /\ step' = "none"
    BY <1>15 DEF FlushFails, ReturnErr, NoJob
  <2> QED BY <2>1, FileInterrupted
<1>16. CASE TruncateFails
  BY <1>16 DEF TruncateFails, RowsOf
<1>17. CASE Abandon
  BY <1>17 DEF Abandon, Drop, RowsOf
<1>18. CASE Crash
  <2>1. LeaveBehind /\ step' = "none"
    BY <1>18 DEF Crash, ReturnErr, NoJob
  <2> QED BY <2>1, FileInterrupted
<1>19. CASE UNCHANGED vars
  BY <1>19 DEF vars, RowsOf
<1>20. ASSUME NEW s \in Segments, OpenCsv(s) PROVE FileInv'
  <2>1. step # "none" /\ step' = "spill" /\ flushing \subseteq RowsOf(s) /\ flushing' = flushing
        /\ fresh' = (file[s] = "absent") /\ interrupted' = interrupted
    BY <1>20 DEF OpenCsv
  <2>2. file'[s] = IF file[s] = "absent" THEN "bare" ELSE file[s]
    BY <1>0, <1>20 DEF OpenCsv
  <2>3. \A q \in Segments : q # s => file'[q] = file[q] /\ ~(flushing \subseteq RowsOf(q))
    BY <1>0, <1>20, <2>1 DEF OpenCsv
  <2>4. fresh' <=> file[s] = "absent"
    BY <2>1
  <2>5. step = "data"
    BY <1>20 DEF OpenCsv
  <2> QED
    BY <2>1, <2>2, <2>3, <2>4, <2>5 DEF RowsOf
<1> QED
  BY <1>1, <1>2, <1>3, <1>4, <1>5, <1>6, <1>7, <1>8, <1>9, <1>10, <1>11,
     <1>12, <1>13, <1>14, <1>15, <1>16, <1>17, <1>18, <1>19, <1>20
     DEF Next, Progress, Call, Failure, MergeFails

(* ReadInv is inductive, for every caller and format. *)
LEMMA ReadInvStep == MemoryInv /\ ReadInv /\ [Next]_vars => ReadInv'
<1> SUFFICES ASSUME MemoryInv, ReadInv, [Next]_vars PROVE ReadInv'
  OBVIOUS
<1> USE DEF ReadInv, disk, job, history
<1>0. /\ step # "none" => mode \in {"replay", "write_row", "flush_all"}
      /\ \A p, q \in row : p = q
      /\ wal = [lines |-> wal.lines, tail |-> wal.tail]
      /\ WalLog \notin Segments
  BY DEF MemoryInv, CallShape, TypeOK
<1>1. CASE Open
  BY <1>0, <1>1 DEF Open
<1>2. CASE FinishReplay
  BY <1>0, <1>2 DEF FinishReplay
<1>3. ASSUME NEW r \in Rows, AppendJson(r) PROVE ReadInv'
  BY <1>0, <1>3 DEF AppendJson
<1>4. ASSUME NEW r \in row, AppendNewline(r) PROVE ReadInv'
  BY <1>0, <1>4 DEF AppendNewline, Buffer, StartJob
<1>5. ASSUME NEW r \in Rows, WriteUnlogged(r) PROVE ReadInv'
  BY <1>0, <1>5 DEF WriteUnlogged, Buffer, StartJob
<1>6. ASSUME NEW s \in Segments, NEW chunk \in SUBSET unwritten, WriteCsv(s, chunk) PROVE ReadInv'
  BY <1>0, <1>6 DEF WriteCsv
<1>7. ASSUME NEW s \in Segments, RenameParquet(s) PROVE ReadInv'
  BY <1>0, <1>7 DEF RenameParquet
<1>8. ASSUME NEW s \in Segments, TruncateMeta(s) PROVE ReadInv'
  BY <1>0, <1>8 DEF TruncateMeta
<1>9. ASSUME NEW s \in Segments, WriteMeta(s) PROVE ReadInv'
  BY <1>0, <1>9 DEF WriteMeta, NoJob
<1>10. ASSUME NEW s \in Segments, DrainNext(s) PROVE ReadInv'
  BY <1>0, <1>10 DEF DrainNext, StartJob
<1>11. CASE FlushAll
  BY <1>0, <1>11 DEF FlushAll
<1>12. CASE FinishFlushAll
  BY <1>0, <1>12 DEF FinishFlushAll, RemoveLog, EmptyLog
<1>13. ASSUME NEW r \in Rows, AppendJsonFails(r) PROVE ReadInv'
  BY <1>0, <1>13 DEF AppendJsonFails, ReturnErr, NoJob, Drop
<1>14. CASE AppendNewlineFails
  BY <1>0, <1>14 DEF AppendNewlineFails, LeaveBehind, ReturnErr, NoJob, Drop
<1>15. CASE FlushFails
  BY <1>0, <1>15 DEF FlushFails, LeaveBehind, ReturnErr, NoJob, Drop
<1>16. CASE TruncateFails
  BY <1>0, <1>16 DEF TruncateFails
<1>17. CASE Abandon
  BY <1>0, <1>17 DEF Abandon, Drop
<1>18. CASE Crash
  BY <1>0, <1>18 DEF Crash, LeaveBehind, NoJob, Drop
<1>19. CASE UNCHANGED vars
  BY <1>0, <1>19 DEF vars
<1>20. ASSUME NEW s \in Segments, OpenCsv(s) PROVE ReadInv'
  BY <1>0, <1>20 DEF OpenCsv
<1> QED
  BY <1>1, <1>2, <1>3, <1>4, <1>5, <1>6, <1>7, <1>8, <1>9, <1>10, <1>11,
     <1>12, <1>13, <1>14, <1>15, <1>16, <1>17, <1>18, <1>19, <1>20
     DEF Next, Progress, Call, Failure, MergeFails

(* Rows written to a data file whose writes were all carried through can   *)
(* be read in it.                                                          *)
LEMMA SafelyAdded ==
  ASSUME MemoryInv, FileInv, NEW s \in Segments, NEW chunk \in SUBSET unwritten,
         WriteCsv(s, chunk)
  PROVE  \A r \in chunk : Safe(r)'
<1>1. TypeOK /\ step = "spill" /\ flushing \subseteq RowsOf(s) /\ interrupted' = interrupted
  BY DEF WriteCsv, history, MemoryInv
<1>2. \A r \in chunk : r \in Rows /\ SegOf[r] = s /\ copies[r] \in Nat
  BY <1>1 DEF MemoryInv, CallShape, TypeOK, RowsOf
<1>3. CASE s \in interrupted
  BY <1>1, <1>2, <1>3 DEF Safe
<1>4. CASE s \notin interrupted
  <2>1. file[s] = "whole" \/ (file[s] = "bare" /\ fresh)
    BY <1>1, <1>4 DEF FileInv
  <2>2. \A r \in chunk : copies'[r] = copies[r] + 1
    BY <1>1, <2>1, Gained
  <2> QED
    BY <1>2, <2>2 DEF Safe, Stored
<1> QED
  BY <1>3, <1>4

(* When a writer is gone only what is in the files counts. *)
LEMMA LogInvDown ==
  ASSUME MemoryInv, LogInv, LeaveBehind, mode' = "down", buffered' = {}, row' = {},
         step' = "none", flushing' = {}, unwritten' = {},
         UNCHANGED <<wal, meta, acked>>
  PROVE  LogInv'
<1>1. TypeOK /\ Logged' = Logged /\ acked \subseteq Rows /\ copies \in [Rows -> Nat]
  BY LoggedUnchanged DEF MemoryInv, TypeOK
<1>2. \A r \in Rows : (r \in Stored' => r \in Stored) /\ (Safe(r) => Safe(r)')
  BY <1>1, Lost DEF Stored, Safe
<1>3. \A r \in Rows : ~Rewriting(r)' /\ (Covered(r) => Covered(r)')
  BY DEF Rewriting, Covered
<1>4. ASSUME NEW r \in Stored'
      PROVE  \/ Covered(r)'
             \/ r \in Logged
             \/ meta'[SegOf[r]].file = "broken" /\ ~Rewriting(r)'
  <2>1. r \in Rows /\ r \in Stored
    BY <1>2 DEF Stored
  <2> QED
    BY <1>3, <2>1 DEF LogInv, AboutToCover
<1>5. \A r \in acked : r \in Logged \/ Safe(r)'
  BY <1>1, <1>2 DEF LogInv
<1> QED
  BY <1>1, <1>3, <1>4, <1>5 DEF LogInv

(* LogInv is inductive. *)
LEMMA LogInvStep ==
  ASSUME OneShot, Format = "Csv"
  PROVE  MemoryInv /\ FileInv /\ LogInv /\ [Next]_vars => LogInv'
<1> SUFFICES ASSUME MemoryInv, FileInv, LogInv, [Next]_vars PROVE LogInv'
  OBVIOUS
<1> USE DEF MemoryInv, LogInv, CallShape, OnlySubmitted, TypeOK, Stored, Covered, AboutToCover, Rewriting,
            Safe, Spoilt
<1>1. CASE Open
  BY <1>1, LoggedUnchanged DEF Open, disk, job
<1>2. CASE FinishReplay
  BY <1>2, LoggedUnchanged DEF FinishReplay, disk, job, history
<1>3. ASSUME NEW r \in Rows, AppendJson(r) PROVE LogInv'
  BY <1>3, LoggedAfterJson DEF AppendJson, job
<1>4. ASSUME NEW r \in row, AppendNewline(r) PROVE LogInv'
  BY <1>4, LoggedAfterNewline DEF AppendNewline, Buffer, StartJob, job
<1>5. ASSUME NEW r \in Rows, WriteUnlogged(r) PROVE LogInv'
  BY <1>5, LoggedUnchanged DEF WriteUnlogged, Buffer, StartJob, job, disk
<1>6. ASSUME NEW s \in Segments, NEW chunk \in SUBSET unwritten, WriteCsv(s, chunk) PROVE LogInv'
  <2>1. /\ step = "spill" /\ step' # "json" /\ unwritten' = unwritten \ chunk
        /\ UNCHANGED <<wal, meta, mode, logging, buffered, row, flushing, merged, history>>
        /\ \A r \in Rows : \/ copies'[r] = copies[r]
                           \/ r \in chunk /\ copies'[r] = copies[r] + 1
    BY <1>6, Gained
  <2>2. Logged' = Logged /\ UNCHANGED <<submitted, interrupted, acked>>
    BY <2>1, LoggedUnchanged DEF history
  <2>3. \A r \in chunk : Safe(r)'
    BY <1>6, <2>2, SafelyAdded
  <2>4. \A r \in Rows : Safe(r) => Safe(r)'
    BY <2>1, <2>2
  <2>5. chunk \subseteq Logged /\ Stored' \subseteq Stored \cup chunk
    BY <2>1
  <2>6. \A r \in Rows : (Covered(r)' <=> Covered(r)) /\ (Spoilt(r)' <=> Spoilt(r))
    BY <2>1, <2>2
  <2>7. \A r \in Rows : ~Rewriting(r) /\ ~Rewriting(r)' /\ ~AboutToCover(r) /\ ~AboutToCover(r)'
    BY <2>1
  <2>8. Logged \subseteq Rows /\ flushing \subseteq Rows /\ acked \subseteq Rows /\ Stored \subseteq Rows
    BY LoggedType
  <2> HIDE DEF Covered, AboutToCover, Rewriting, Stored, Safe, Spoilt, TypeOK, MemoryInv, CallShape, OnlySubmitted
  <2> QED
    BY <2>1, <2>2, <2>3, <2>4, <2>5, <2>6, <2>7, <2>8
<1>7. ASSUME NEW s \in Segments, RenameParquet(s) PROVE LogInv'
  BY <1>7, LoggedUnchanged DEF RenameParquet, history
<1>8. ASSUME NEW s \in Segments, TruncateMeta(s) PROVE LogInv'
  <2>1. \A r \in Rows : flushing \subseteq RowsOf(SegOf[r]) <=> SegOf[r] = s
    BY <1>8, JobSegment DEF TruncateMeta
  <2>2. /\ merged'.file = IF flushing \cap NonFinite = {} THEN "ok" ELSE "broken"
        /\ merged'.bitset = meta[s].bitset \cup {BitOf[r] : r \in flushing}
    BY <1>8 DEF TruncateMeta, Merge, Written
  <2>3. \A r \in Rows : meta'[SegOf[r]] = IF SegOf[r] = s THEN BrokenMeta ELSE meta[SegOf[r]]
    BY <1>8 DEF TruncateMeta
  <2>4. BrokenMeta.file = "broken"
    BY DEF BrokenMeta
  <2>5. Logged' = Logged /\ UNCHANGED <<copies, mode, logging, buffered, row, flushing, unwritten, history>>
    BY <1>8, LoggedUnchanged DEF TruncateMeta
  <2>6. step = "meta" /\ step' = "json" /\ meta[s].file # "broken"
    BY <1>8 DEF TruncateMeta
  <2>7. \A r \in Rows : Rewriting(r)' <=> SegOf[r] = s
    BY <2>1, <2>5, <2>6 DEF RowsOf
  <2>8. \A r \in Rows : Covered(r) => Covered(r)' \/ AboutToCover(r)'
    BY <2>2, <2>3, <2>7
  <2>9. \A r \in Rows : r \in flushing => AboutToCover(r)'
    <3> SUFFICES ASSUME NEW r \in flushing PROVE AboutToCover(r)'
      OBVIOUS
    <3>1. r \in Rows /\ SegOf[r] = s
      BY <1>8 DEF TruncateMeta, RowsOf
    <3>2. Rewriting(r)'
      BY <2>7, <3>1
    <3>3. BitOf[r] \in merged'.bitset
      BY <2>2
    <3> QED
      BY <3>2, <3>3
  <2>10. \A r \in Rows : ~AboutToCover(r)
    BY <2>6
  <2>11. \A r \in Rows : meta[SegOf[r]].file = "broken"
                           => meta'[SegOf[r]].file = "broken" /\ ~Rewriting(r)'
    BY <2>3, <2>4, <2>6, <2>7
  <2>12. \A r \in Rows : Rewriting(r)' => meta'[SegOf[r]].file = "broken"
    BY <2>3, <2>4, <2>7
  <2>13. Stored' = Stored /\ Stored \subseteq Rows /\ Logged \subseteq Rows
    BY <2>5, LoggedType
  <2>14. \A r \in Rows : Spoilt(r) => Spoilt(r)' /\ ~Rewriting(r)'
    BY <2>5, <2>11 DEF history
  <2>16. \A r \in Rows : Safe(r)' <=> Safe(r)
    BY <2>5 DEF history
  <2>15. \A r \in Stored : \/ Covered(r)' \/ AboutToCover(r)' \/ r \in Logged
                           \/ meta'[SegOf[r]].file = "broken" /\ ~Rewriting(r)'
    BY <2>8, <2>10, <2>11, <2>13
  <2> HIDE DEF Covered, AboutToCover, Rewriting, Stored, Safe, Spoilt
  <2> QED
    BY <2>2, <2>5, <2>6, <2>8, <2>10, <2>12, <2>13, <2>14, <2>15, <2>16 DEF history
<1>9. ASSUME NEW s \in Segments, WriteMeta(s) PROVE LogInv'
  <2>1. \A r \in Rows : flushing \subseteq RowsOf(SegOf[r]) <=> SegOf[r] = s
    BY <1>9, JobSegment DEF WriteMeta
  <2>2. \A r \in Rows : meta'[SegOf[r]] = IF SegOf[r] = s THEN merged ELSE meta[SegOf[r]]
    BY <1>9 DEF WriteMeta
  <2>3. Logged' = Logged /\ UNCHANGED <<copies, logging, buffered, interrupted, submitted>>
    BY <1>9, LoggedUnchanged DEF WriteMeta
  <2>4. step = "json" /\ step' = "none" /\ flushing' = {} /\ unwritten' = {}
    BY <1>9 DEF WriteMeta, NoJob
  <2>5. \A r \in Rows : SegOf[r] = s => Rewriting(r)
    BY <2>1, <2>4
  <2>6. flushing \subseteq RowsOf(s) /\ flushing \subseteq submitted
    BY <1>9 DEF WriteMeta
  <2>7. merged.file = "ok" \/ (merged.file = "broken" /\ submitted \cap NonFinite \cap RowsOf(s) # {})
    BY <2>4, <2>6
  <2>8. \A r \in Rows : Covered(r) \/ AboutToCover(r) => Covered(r)' \/ Spoilt(r)'
    BY <2>1, <2>2, <2>3, <2>4, <2>5, <2>7 DEF RowsOf
  <2>9. \A r \in Rows : ~Rewriting(r) /\ meta[SegOf[r]].file = "broken"
                          => meta'[SegOf[r]].file = "broken"
    BY <2>2, <2>5
  <2>10. \A r \in Rows : ~Rewriting(r) /\ Spoilt(r) => Spoilt(r)'
    BY <2>3, <2>9 DEF RowsOf
  <2>11. \A r \in Rows : ~Rewriting(r)' /\ (Spoilt(r)' => meta'[SegOf[r]].file = "broken")
    BY <2>4
  <2>12. mode' = mode \/ (mode = "write_row" /\ mode' = "idle")
    BY <1>9 DEF WriteMeta
  <2>13. row' \subseteq row /\ acked' \subseteq acked \cup row
    BY <1>9 DEF WriteMeta
  <2>14. \A r \in Rows : Safe(r)' <=> Safe(r)
    BY <2>3
  <2>15. /\ unwritten = {} /\ Stored' = Stored /\ Stored \subseteq Rows /\ Logged \subseteq Rows
         /\ acked \subseteq Rows /\ row \subseteq Logged
    BY <2>3, <2>4, LoggedType
  <2>16. \A r \in flushing : Safe(r) /\ AboutToCover(r) /\ r \in Rows
    BY <2>4, <2>5, <2>6, <2>15 DEF RowsOf
  <2>17. mode # "down" /\ mode # "append"
    BY <2>4
  <2> HIDE DEF Covered, AboutToCover, Rewriting, Stored, Safe, Spoilt, TypeOK, MemoryInv, CallShape, OnlySubmitted
  <2>18. \A r \in Logged : r \in buffered \/ (Safe(r) /\ (Covered(r)' \/ Spoilt(r)'))
    BY <2>8, <2>10, <2>15, <2>16, <2>17
  <2>19. \A r \in Stored : \/ Covered(r)' \/ r \in Logged
                           \/ meta'[SegOf[r]].file = "broken" /\ ~Rewriting(r)'
    BY <2>8, <2>9, <2>11, <2>15
  <2> QED
    BY <2>3, <2>4, <2>11, <2>12, <2>13, <2>14, <2>15, <2>18, <2>19
<1>10. ASSUME NEW s \in Segments, DrainNext(s) PROVE LogInv'
  BY <1>10, LoggedUnchanged DEF DrainNext, StartJob, RowsOf, disk, history
<1>11. CASE FlushAll
  BY <1>11, LoggedUnchanged DEF FlushAll, disk, job, history
<1>12. CASE FinishFlushAll
  BY <1>12, LoggedAfterFlush DEF FinishFlushAll, RemoveLog, job
<1>13. ASSUME NEW r \in Rows, AppendJsonFails(r) PROVE LogInv'
  BY <1>13, LoggedUnchanged DEF AppendJsonFails, ReturnErr, Drop, NoJob, disk
<1>14. CASE AppendNewlineFails
  BY <1>14, LogInvDown DEF AppendNewlineFails, ReturnErr, Drop, NoJob
<1>15. CASE FlushFails
  BY <1>15, LogInvDown DEF FlushFails, ReturnErr, Drop, NoJob
<1>16. CASE TruncateFails
  BY <1>16, LoggedUnchanged DEF TruncateFails, disk, job
<1>17. CASE Abandon
  BY <1>17, LoggedUnchanged DEF Abandon, Drop, disk, job
<1>18. CASE Crash
  BY <1>18, LogInvDown DEF Crash, ReturnErr, Drop, NoJob
<1>19. CASE UNCHANGED vars
  BY <1>19, LoggedUnchanged DEF vars
<1>20. ASSUME NEW s \in Segments, OpenCsv(s) PROVE LogInv'
  BY <1>20, LoggedUnchanged DEF OpenCsv, history
<1> QED
  BY <1>1, <1>2, <1>3, <1>4, <1>5, <1>6, <1>7, <1>8, <1>9, <1>10, <1>11,
     <1>12, <1>13, <1>14, <1>15, <1>16, <1>17, <1>18, <1>19, <1>20
     DEF Next, Progress, Call, Failure, MergeFails

(* MemoryInv includes the types. *)
LEMMA TypedInMemory == MemoryInv => TypeOK
  BY DEF MemoryInv

-----------------------------------------------------------------------------
(* What a step takes out of the log can be read in its data file and is    *)
(* covered by metadata, but for interrupted files and spoilt metadata.     *)
OnlyPersistedLeave ==
  \A q \in Logged \ Logged' :
    /\ q \in Stored' \/ SegOf[q] \in interrupted'
    /\ Covered(q)' \/ Spoilt(q)'

(* Only the end of flush_all takes rows out of the log, and then each of   *)
(* them is stored and covered.                                             *)
LEMMA LogShrink ==
  ASSUME OneShot, Format = "Csv"
  PROVE  MemoryInv /\ LogInv /\ [Next]_vars => OnlyPersistedLeave
<1> SUFFICES ASSUME MemoryInv, LogInv, [Next]_vars PROVE OnlyPersistedLeave
  OBVIOUS
<1> USE DEF OnlyPersistedLeave, disk, job, history
<1>1. CASE Open
  BY LoggedUnchanged, <1>1 DEF Open
<1>2. CASE FinishReplay
  BY LoggedUnchanged, <1>2 DEF FinishReplay
<1>3. ASSUME NEW r \in Rows, AppendJson(r) PROVE OnlyPersistedLeave
  BY <1>3, TypedInMemory, LoggedAfterJson
<1>4. ASSUME NEW r \in row, AppendNewline(r) PROVE OnlyPersistedLeave
  BY <1>4, TypedInMemory, LoggedAfterNewline
<1>5. ASSUME NEW r \in Rows, WriteUnlogged(r) PROVE OnlyPersistedLeave
  BY LoggedUnchanged, <1>5 DEF WriteUnlogged, Buffer, StartJob
<1>6. ASSUME NEW s \in Segments, NEW chunk \in SUBSET unwritten, WriteCsv(s, chunk) PROVE OnlyPersistedLeave
  BY LoggedUnchanged, <1>6 DEF WriteCsv
<1>7. ASSUME NEW s \in Segments, RenameParquet(s) PROVE OnlyPersistedLeave
  BY LoggedUnchanged, <1>7 DEF RenameParquet
<1>8. ASSUME NEW s \in Segments, TruncateMeta(s) PROVE OnlyPersistedLeave
  BY LoggedUnchanged, <1>8 DEF TruncateMeta
<1>9. ASSUME NEW s \in Segments, WriteMeta(s) PROVE OnlyPersistedLeave
  BY LoggedUnchanged, <1>9 DEF WriteMeta, NoJob
<1>10. ASSUME NEW s \in Segments, DrainNext(s) PROVE OnlyPersistedLeave
  BY LoggedUnchanged, <1>10 DEF DrainNext, StartJob
<1>11. CASE FlushAll
  BY LoggedUnchanged, <1>11 DEF FlushAll
<1>12. CASE FinishFlushAll
  <2> SUFFICES ASSUME NEW r \in Logged
               PROVE  /\ r \in Stored' \/ SegOf[r] \in interrupted'
                      /\ Covered(r)' \/ Spoilt(r)'
    OBVIOUS
  <2>1. step = "none" /\ buffered = {} /\ flushing = {} /\ mode = "flush_all"
    BY <1>12 DEF FinishFlushAll, MemoryInv, CallShape
  <2>2. Safe(r) /\ (Covered(r) \/ Spoilt(r)) /\ r \in Rows
    BY <2>1, LoggedType, TypedInMemory DEF LogInv, AboutToCover, Rewriting
  <2>3. SegOf[r] # WalLog
    BY <2>2
  <2>4. /\ UNCHANGED <<copies, meta, submitted>>
        /\ SegOf[r] \in interrupted' <=> SegOf[r] \in interrupted
    BY <1>12, <2>3 DEF FinishFlushAll, RemoveLog
  <2> QED
    BY <2>2, <2>4 DEF Safe, Stored, Covered, Spoilt
<1>13. ASSUME NEW r \in Rows, AppendJsonFails(r) PROVE OnlyPersistedLeave
  BY LoggedUnchanged, <1>13 DEF AppendJsonFails, ReturnErr, NoJob
<1>14. CASE AppendNewlineFails
  BY LoggedUnchanged, <1>14 DEF AppendNewlineFails, LeaveBehind, ReturnErr, NoJob
<1>15. CASE FlushFails
  BY LoggedUnchanged, <1>15 DEF FlushFails, LeaveBehind, ReturnErr, NoJob
<1>16. CASE TruncateFails
  BY LoggedUnchanged, <1>16 DEF TruncateFails
<1>17. CASE Abandon
  BY LoggedUnchanged, <1>17 DEF Abandon, Drop
<1>18. CASE Crash
  BY LoggedUnchanged, <1>18 DEF Crash, LeaveBehind, NoJob
<1>19. CASE UNCHANGED vars
  BY LoggedUnchanged, <1>19 DEF vars
<1>20. ASSUME NEW s \in Segments, OpenCsv(s) PROVE OnlyPersistedLeave
  BY LoggedUnchanged, <1>20 DEF OpenCsv
<1> QED
  BY <1>1, <1>2, <1>3, <1>4, <1>5, <1>6, <1>7, <1>8, <1>9, <1>10, <1>11,
     <1>12, <1>13, <1>14, <1>15, <1>16, <1>17, <1>18, <1>19, <1>20
     DEF Next, Progress, Call, Failure, MergeFails

-----------------------------------------------------------------------------
(* The durable rows, as the abstract store sees them. *)
Durable == Stored \cup (IF LogReadable THEN Logged ELSE {})

(* Steps of the abstract store, in terms of the directory. *)
LEMMA StoreStutter ==
  ASSUME Durable' = Durable, acked' = acked, interrupted' = interrupted
  PROVE  [Store!Next]_(Store!vars)
  BY DEF Durable, Store!vars

LEMMA StoreRecord ==
  ASSUME NEW rows \in SUBSET Rows, Durable' = Durable \cup rows,
         acked' = acked, interrupted' = interrupted
  PROVE  [Store!Next]_(Store!vars)
<1>1. Store!Record(rows)
  BY DEF Durable, Store!Record
<1> QED
  BY <1>1 DEF Store!Next

LEMMA StoreAcknowledge ==
  ASSUME NEW r \in Rows, r \in Durable \/ WalLog \in interrupted,
         Durable' = Durable, acked' = acked \cup {r}, interrupted' = interrupted
  PROVE  [Store!Next]_(Store!vars)
<1>1. Store!Acknowledge(r)
  BY DEF Durable, Store!Acknowledge, Store!AtRisk
<1> QED
  BY <1>1 DEF Store!Next

(* Rows can be lost from files some write to which was interrupted. *)
LEMMA StoreLose ==
  ASSUME Durable' \subseteq Durable, acked' = acked,
         \A r \in Durable \ Durable' :
           r \in Rows /\ (SegOf[r] \in interrupted' \/ WalLog \in interrupted')
  PROVE  Store!Lose
  BY DEF Durable, Store!Lose, Store!AtRisk

LEMMA StoreInterrupt ==
  ASSUME NEW f \in Segments \cup {WalLog}, interrupted' = interrupted \cup {f},
         Durable' \subseteq Durable, acked' = acked,
         \A r \in Durable \ Durable' : r \in Rows /\ SegOf[r] \in interrupted'
  PROVE  [Store!Next]_(Store!vars)
<1>1. Store!Interrupt(f)
  BY StoreLose DEF Store!Interrupt
<1> QED
  BY <1>1 DEF Store!Next

(* Nothing but the log and the data files makes rows durable. *)
LEMMA DurableUnchanged == UNCHANGED <<wal, copies>> => Durable' = Durable
  BY DEF Durable, Stored, LogReadable, Logged

(* A log whose appends were all carried through can be replayed. *)
LEMMA ReadableLog ==
  MemoryInv /\ ReadInv /\ WalLog \notin interrupted => LogReadable
  BY DEF ReadInv, LogReadable, MemoryInv, CallShape

(* A line more, if the log is still readable. *)
LEMMA StoreAppend ==
  ASSUME MemoryInv, ReadInv, NEW r \in Rows, AppendJson(r)
  PROVE  [Store!Next]_(Store!vars)
<1>1. Logged' = Logged \cup {r} /\ Stored' = Stored /\ Logged \subseteq Rows
  BY LoggedAfterJson, LoggedType, TypedInMemory DEF AppendJson, Stored
<1>2. wal'.lines = wal.lines /\ wal'.tail = wal.tail \cup {r}
  BY DEF AppendJson, MemoryInv, TypeOK
<1>3. acked' = acked /\ interrupted' = interrupted /\ mode = "idle"
  BY DEF AppendJson
<1>4. LogReadable' => LogReadable
  BY <1>2 DEF LogReadable
<1>5. CASE LogReadable'
  <2>1. Durable' = Durable \cup {r}
    BY <1>1, <1>4, <1>5 DEF Durable
  <2>2. {r} \in SUBSET Rows
    OBVIOUS
  <2> QED
    BY <1>3, <2>1, <2>2, StoreRecord
<1>6. CASE ~LogReadable' /\ ~LogReadable
  BY <1>1, <1>3, <1>6, StoreStutter DEF Durable
<1>7. CASE ~LogReadable' /\ LogReadable
  <2>1. WalLog \in interrupted
    BY <1>2, <1>3, <1>7 DEF ReadInv, LogReadable
  <2>2. Store!Lose
    BY <1>1, <1>3, <1>7, <2>1, StoreLose DEF Durable, Stored
  <2> QED
    BY <1>3, <2>2 DEF Store!Next, Store!Damage
<1> QED
  BY <1>5, <1>6, <1>7

(* Rows that are in the log anyway reach their data file. *)
LEMMA StoreWriteCsv ==
  ASSUME MemoryInv, NEW s \in Segments, NEW chunk \in SUBSET unwritten, WriteCsv(s, chunk)
  PROVE  [Store!Next]_(Store!vars)
<1>1. /\ UNCHANGED <<wal, history>>
      /\ \A r \in Rows : \/ copies'[r] = copies[r]
                         \/ r \in chunk /\ copies'[r] = copies[r] + 1
  BY Gained, TypedInMemory
<1>2. \A r \in Rows : copies[r] \in Nat
  BY DEF MemoryInv, TypeOK
<1>3. Stored' = Stored \cup (Stored' \ Stored) /\ Stored' \ Stored \in SUBSET Rows
  BY <1>1, <1>2 DEF Stored
<1>4. LogReadable' = LogReadable /\ Logged' = Logged
  BY <1>1 DEF LogReadable, Logged
<1>5. Durable' = Durable \cup (Stored' \ Stored)
  BY <1>3, <1>4 DEF Durable
<1> QED
  BY <1>1, <1>3, <1>5, StoreRecord DEF history

(* What an interrupted write takes away was in the file it wrote to. *)
LEMMA StoreLeaveBehind ==
  ASSUME MemoryInv, LeaveBehind, UNCHANGED <<wal, acked>>
  PROVE  [Store!Next]_(Store!vars)
<1>1. LogReadable' = LogReadable /\ Logged' = Logged
  BY DEF LogReadable, Logged
<1>2. /\ \A r \in Rows : \/ copies'[r] = copies[r]
                         \/ copies'[r] = 0 /\ SegOf[r] \in interrupted'
      /\ \A r \in Rows : copies[r] \in Nat
  BY Lost, TypedInMemory DEF TypeOK
<1>3. Durable' \subseteq Durable /\ \A r \in Durable \ Durable' : r \in Rows /\ SegOf[r] \in interrupted'
  BY <1>1, <1>2 DEF Durable, Stored
<1>4. \/ interrupted' = interrupted /\ copies' = copies
      \/ \E f \in Segments \cup {WalLog} : interrupted' = interrupted \cup {f}
  BY DEF LeaveBehind
<1> QED
  BY <1>3, <1>4, StoreInterrupt, StoreStutter, DurableUnchanged

(* The log goes when the data files are as good. *)
LEMMA StoreRemoveLog ==
  ASSUME OneShot, Format = "Csv", MemoryInv, LogInv, FinishFlushAll
  PROVE  [Store!Next]_(Store!vars)
<1>1. /\ logging /\ Logged' = {} /\ Stored' = Stored /\ acked' = acked
      /\ interrupted' = interrupted \ {WalLog}
  BY LoggedAfterFlush DEF FinishFlushAll, RemoveLog, Stored, LogInv
<1>2. OnlyPersistedLeave
  BY LogShrink DEF Next, Progress
<1>3. Durable' = Stored
  BY <1>1 DEF Durable
<1>4. Logged \subseteq Rows /\ acked \subseteq Rows /\ Stored \subseteq Rows
  BY LoggedType, TypedInMemory DEF TypeOK, Stored
<1>5. \A r \in Logged : r \in Stored \/ SegOf[r] \in interrupted'
  BY <1>1, <1>2 DEF OnlyPersistedLeave
<1>6. \A r \in acked : r \in Stored \/ SegOf[r] \in interrupted'
  <2>1. \A r \in Rows : SegOf[r] # WalLog
    OBVIOUS
  <2> QED
    BY <1>1, <1>4, <1>5, <2>1 DEF LogInv, Safe
<1>7. Store!Lose
  BY <1>1, <1>3, <1>4, <1>5, StoreLose DEF Durable
<1>8. Store!Remove(WalLog)
  BY <1>1, <1>3, <1>4, <1>6, <1>7 DEF Store!Remove, Store!AtRisk, Durable
<1> QED
  BY <1>8 DEF Store!Next

(* Every step is one of the abstract store, or leaves it alone. *)
LEMMA StoreStep ==
  ASSUME OneShot, Format = "Csv"
  PROVE  MemoryInv /\ ReadInv /\ LogInv /\ [Next]_vars => [Store!Next]_(Store!vars)
<1> DEFINE Goal == [Store!Next]_(Store!vars)
<1> SUFFICES ASSUME MemoryInv, ReadInv, LogInv, [Next]_vars PROVE Goal
  OBVIOUS
<1> HIDE DEF Goal
<1>0. ASSUME UNCHANGED <<wal, copies, acked, interrupted>> PROVE Goal
  BY <1>0, DurableUnchanged, StoreStutter DEF Goal
<1>a. ASSUME LeaveBehind, UNCHANGED <<wal, acked>> PROVE Goal
  BY <1>a, StoreLeaveBehind DEF Goal
<1> USE DEF disk, job, history
<1>1. CASE Open
  BY <1>0, <1>1 DEF Open
<1>2. CASE FinishReplay
  BY <1>0, <1>2 DEF FinishReplay
<1>3. ASSUME NEW r \in Rows, AppendJson(r) PROVE Goal
  BY <1>3, StoreAppend DEF Goal
<1>4. ASSUME NEW r \in row, AppendNewline(r) PROVE Goal
  <2>1. Logged' = Logged /\ r \in Logged /\ r \in Rows
    BY <1>4, TypedInMemory, LoggedAfterNewline DEF AppendNewline, LogInv, TypeOK
  <2>2. acked' = acked \/ acked' = acked \cup {r}
    BY <1>4 DEF AppendNewline, Buffer
  <2>3. interrupted' = interrupted /\ copies' = copies
        /\ wal'.lines = wal.lines \cup {wal.tail} /\ wal'.tail = {}
    BY <1>4 DEF AppendNewline
  <2>4. LogReadable' <=> LogReadable
    BY <2>3 DEF LogReadable
  <2>5. Durable' = Durable
    BY <2>1, <2>3, <2>4 DEF Durable, Stored
  <2>6. r \in Durable \/ WalLog \in interrupted
    BY <2>1, ReadableLog DEF Durable
  <2> QED
    BY <2>1, <2>2, <2>3, <2>5, <2>6, StoreStutter, StoreAcknowledge DEF Goal
<1>5. ASSUME NEW r \in Rows, WriteUnlogged(r) PROVE Goal
  BY <1>5 DEF WriteUnlogged, LogInv
<1>6. ASSUME NEW s \in Segments, NEW chunk \in SUBSET unwritten, WriteCsv(s, chunk) PROVE Goal
  BY <1>6, StoreWriteCsv DEF Goal
<1>7. ASSUME NEW s \in Segments, RenameParquet(s) PROVE Goal
  BY <1>7 DEF RenameParquet
<1>8. ASSUME NEW s \in Segments, TruncateMeta(s) PROVE Goal
  BY <1>0, <1>8 DEF TruncateMeta
<1>9. ASSUME NEW s \in Segments, WriteMeta(s) PROVE Goal
  <2>1. Durable' = Durable /\ interrupted' = interrupted
    BY <1>9, DurableUnchanged DEF WriteMeta
  <2>2. acked' = acked \/ acked' = acked \cup row
    BY <1>9 DEF WriteMeta
  <2>3. row \subseteq Logged /\ row \subseteq Rows /\ \A p, q \in row : p = q
    BY TypedInMemory DEF LogInv, MemoryInv, CallShape, TypeOK
  <2>4. CASE row = {}
    BY <2>1, <2>2, <2>4, StoreStutter DEF Goal
  <2>5. ASSUME NEW r \in row PROVE Goal
    <3>1. row = {r} /\ r \in Rows
      BY <2>3
    <3>2. r \in Durable \/ WalLog \in interrupted
      BY <2>3, ReadableLog DEF Durable
    <3> QED
      BY <2>1, <2>2, <3>1, <3>2, StoreStutter, StoreAcknowledge DEF Goal
  <2> QED
    BY <2>4, <2>5
<1>10. ASSUME NEW s \in Segments, DrainNext(s) PROVE Goal
  BY <1>0, <1>10 DEF DrainNext, StartJob
<1>11. CASE FlushAll
  BY <1>0, <1>11 DEF FlushAll
<1>12. CASE FinishFlushAll
  BY <1>12, StoreRemoveLog DEF Goal
<1>13. ASSUME NEW r \in Rows, AppendJsonFails(r) PROVE Goal
  BY <1>0, <1>13 DEF AppendJsonFails, ReturnErr, NoJob
<1>14. CASE AppendNewlineFails
  BY <1>a, <1>14 DEF AppendNewlineFails
<1>15. CASE FlushFails
  BY <1>a, <1>15 DEF FlushFails
<1>16. CASE TruncateFails
  BY <1>0, <1>16 DEF TruncateFails
<1>17. CASE Abandon
  BY <1>0, <1>17 DEF Abandon, Drop
<1>18. CASE Crash
  BY <1>a, <1>18 DEF Crash
<1>19. CASE UNCHANGED vars
  BY <1>0, <1>19 DEF vars
<1>20. ASSUME NEW s \in Segments, OpenCsv(s) PROVE Goal
  BY <1>0, <1>20 DEF OpenCsv
<1> QED
  BY <1>1, <1>2, <1>3, <1>4, <1>5, <1>6, <1>7, <1>8, <1>9, <1>10, <1>11,
     <1>12, <1>13, <1>14, <1>15, <1>16, <1>17, <1>18, <1>19, <1>20
     DEF Next, Progress, Call, Failure, MergeFails

(* A new directory holds no row. *)
LEMMA InitEmpty == Init => Logged = {} /\ Stored = {}
<1> SUFFICES ASSUME Init PROVE Logged = {} /\ Stored = {}
  OBVIOUS
<1>1. wal.lines = {} /\ wal.tail = {}
  BY DEF Init, EmptyLog
<1>2. Logged = {}
  BY <1>1, Zenon DEF Logged
<1>3. Stored = {}
  BY DEF Init, Stored
<1> QED
  BY <1>2, <1>3

(* FileInv holds in every state, for every caller and format. *)
THEOREM FileInvariant == Spec => []FileInv
<1>1. Init => FileInv
  BY DEF Init, FileInv
<1> QED
  BY <1>1, FileInvStep, MemoryInvariant, PTL DEF Spec

(* ReadInv holds in every state, for every caller and format. *)
THEOREM ReadInvariant == Spec => []ReadInv
<1>1. Init => ReadInv
  BY DEF Init, ReadInv, EmptyLog
<1> QED
  BY <1>1, ReadInvStep, MemoryInvariant, PTL DEF Spec

(* LogInv holds in every state. *)
THEOREM LogInvariant ==
  ASSUME OneShot, Format = "Csv"
  PROVE  Spec => []LogInv
<1>1. Init => LogInv
  <2> SUFFICES ASSUME Init PROVE LogInv
    OBVIOUS
  <2>1. Logged = {} /\ Stored = {}
    BY InitEmpty
  <2> QED
    BY <2>1 DEF Init, LogInv, Rewriting
<1>2. MemoryInv /\ FileInv /\ LogInv /\ [Next]_vars => LogInv'
  BY LogInvStep
<1> QED
  BY <1>1, <1>2, MemoryInvariant, FileInvariant, PTL DEF Spec

(* An acknowledged row survives every crash and every failed call, unless  *)
(* they interrupt a write to the very file it is in.                       *)
THEOREM CrashSafety ==
  ASSUME OneShot, Format = "Csv"
  PROVE  Spec => []AckedRowsDurable
<1>1. MemoryInv /\ ReadInv /\ LogInv => AckedRowsDurable
  BY ReadableLog DEF LogInv, AckedRowsDurable, Safe
<1> QED
  BY <1>1, MemoryInvariant, ReadInvariant, LogInvariant, PTL

(* A stored row that readable metadata does not cover is still logged, so  *)
(* that the next replay makes it visible to pruned queries.                *)
THEOREM NothingHidden ==
  ASSUME OneShot, Format = "Csv"
  PROVE  Spec => []HiddenRowsAreLogged
<1>1. LogInv => HiddenRowsAreLogged
  BY DEF LogInv, HiddenRowsAreLogged, AboutToCover, Stored
<1> QED
  BY <1>1, LogInvariant, PTL

(* flush_all removes the log only after its rows are in the segment files, *)
(* as far as those and their metadata can be read back.                    *)
THEOREM SafeTruncation ==
  ASSUME OneShot, Format = "Csv"
  PROVE  Spec => LogDroppedOnlyWhenPersisted
<1>1. MemoryInv /\ LogInv /\ [Next]_vars =>
        [\A r \in Logged \ Logged' :
           /\ r \in Stored' \/ SegOf[r] \in interrupted'
           /\ Covered(r)' \/ Spoilt(r)']_vars
  BY LogShrink DEF OnlyPersistedLeave
<1> QED
  BY <1>1, LogInvariant, MemoryInvariant, PTL
     DEF Spec, LogDroppedOnlyWhenPersisted

(* The directory implements the abstract store. *)
THEOREM Refinement ==
  ASSUME OneShot, Format = "Csv"
  PROVE  Spec => ImplementsStore
<1>1. Init => Store!Init
  <2> SUFFICES ASSUME Init PROVE Store!Init
    OBVIOUS
  <2>1. Logged = {} /\ Stored = {}
    BY InitEmpty
  <2>2. Durable = {}
    BY <2>1 DEF Durable
  <2> QED
    BY <2>2 DEF Durable, Init, Store!Init
<1>2. MemoryInv /\ ReadInv /\ LogInv /\ [Next]_vars => [Store!Next]_(Store!vars)
  BY StoreStep
<1> QED
  BY <1>1, <1>2, LogInvariant, ReadInvariant, MemoryInvariant, PTL
     DEF Spec, ImplementsStore, Store!Spec

-----------------------------------------------------------------------------
(***************************************************************************)
(* Row counts in metadata, for data files that are appended to.            *)
(***************************************************************************)

(* Rows that the flush in progress has stored and not yet counted. *)
InFlight(s) == IF step = "json" THEN {} ELSE (flushing \ unwritten) \cap RowsOf(s)

(* The metadata file of s is truncated, and its new content in memory. *)
Replacing(s) == step = "json" /\ flushing \subseteq RowsOf(s)

(* What is stored has room for what metadata claims, for what is going to  *)
(* be added to it, and for the content about to be written.                *)
CountInv ==
  \A s \in Segments \ interrupted :
    /\ meta[s].row_count + Cardinality(InFlight(s)) <= Cardinality(CopiesOf(s))
    /\ Replacing(s) => merged.row_count <= Cardinality(CopiesOf(s))

(* A set with a tag on every element has as many elements. *)
LEMMA Tagged ==
  ASSUME NEW M, IsFiniteSet(M), NEW tag
  PROVE  /\ IsFiniteSet({<<x, tag[x]>> : x \in M})
         /\ Cardinality({<<x, tag[x]>> : x \in M}) = Cardinality(M)
<1> DEFINE T == {<<x, tag[x]>> : x \in M}
           f == [x \in M |-> <<x, tag[x]>>]
<1>1. f \in Bijection(M, T)
  <2>1. f \in [M -> T]
    OBVIOUS
  <2>2. \A t \in T : \E x \in M : f[x] = t
    OBVIOUS
  <2>3. \A x, y \in M : f[x] = f[y] => x = y
    OBVIOUS
  <2> QED
    BY <2>1, <2>2, <2>3 DEF Bijection, Injection, Surjection, IsInjective
<1>2. ExistsBijection(M, T)
  BY <1>1 DEF ExistsBijection
<1> QED
  BY <1>2, FS_Bijection

(* Disjoint finite sets: the sizes add up. *)
LEMMA DisjointUnion ==
  ASSUME NEW S, IsFiniteSet(S), NEW T, IsFiniteSet(T), S \cap T = {}
  PROVE  /\ IsFiniteSet(S \cup T)
         /\ Cardinality(S \cup T) = Cardinality(S) + Cardinality(T)
         /\ Cardinality(S) \in Nat /\ Cardinality(T) \in Nat
<1>1. Cardinality(S \cap T) = 0
  BY FS_EmptySet
<1>2. Cardinality(S) \in Nat /\ Cardinality(T) \in Nat
  BY FS_CardinalityType
<1>3. IsFiniteSet(S \cup T)
      /\ Cardinality(S \cup T) =
           Cardinality(S) + Cardinality(T) - Cardinality(S \cap T)
  BY FS_Union
<1> QED
  BY <1>1, <1>2, <1>3

(* Any set of rows can be counted. *)
LEMMA RowSets ==
  ASSUME NEW M \in SUBSET Rows
  PROVE  IsFiniteSet(M) /\ Cardinality(M) \in Nat
  BY RowsFinite, FS_Subset, FS_CardinalityType

(* A data file holds finitely many rows. *)
LEMMA CopiesFinite ==
  ASSUME TypeOK, NEW s \in Segments
  PROVE  IsFiniteSet(CopiesOf(s)) /\ Cardinality(CopiesOf(s)) \in Nat
<1> DEFINE Tags(r) == {r} \X (1 .. copies[r])
           All == {Tags(r) : r \in RowsOf(s)}
<1>1. RowsOf(s) \in SUBSET Rows
  BY DEF RowsOf
<1>2. ASSUME NEW r \in RowsOf(s) PROVE IsFiniteSet(Tags(r))
  <2>1. copies[r] \in Nat
    BY <1>1 DEF TypeOK
  <2>2. 1 \in Int /\ copies[r] \in Int
    BY <2>1
  <2>3. IsFiniteSet(1 .. copies[r])
    BY <2>2, FS_Interval
  <2>4. IsFiniteSet({r})
    BY FS_Singleton
  <2> QED
    BY <2>3, <2>4, FS_Product
<1>3. IsFiniteSet(All)
  <2>1. IsFiniteSet(RowsOf(s))
    BY <1>1, RowSets
  <2> HIDE DEF Tags
  <2>2. [r \in RowsOf(s) |-> Tags(r)] \in Surjection(RowsOf(s), All)
    BY DEF Surjection
  <2> QED
    BY <2>1, <2>2, FS_Surjection
<1>4. \A T \in All : IsFiniteSet(T)
  <2> HIDE DEF Tags
  <2> QED
    BY <1>2
<1>5. IsFiniteSet(UNION All)
  <2> HIDE DEF All
  <2> QED
    BY <1>3, <1>4, FS_UNION
<1> QED
  BY <1>5, FS_CardinalityType DEF CopiesOf

(* The numbers that CountInv compares. *)
LEMMA CountTypes ==
  ASSUME TypeOK, NEW s \in Segments
  PROVE  /\ meta[s].row_count \in Nat /\ merged.row_count \in Nat
         /\ InFlight(s) \in SUBSET Rows /\ Cardinality(InFlight(s)) \in Nat
         /\ Cardinality(CopiesOf(s)) \in Nat
<1>1. InFlight(s) \in SUBSET Rows
  BY DEF TypeOK, InFlight
<1>2. meta[s].row_count \in Nat /\ merged.row_count \in Nat
  BY DEF TypeOK, MetaFiles
<1> QED
  BY <1>1, <1>2, RowSets, CopiesFinite

(* A new directory has neither rows nor counts. *)
LEMMA CountInit == Init => CountInv
<1> SUFFICES ASSUME Init, NEW s \in Segments
             PROVE  /\ meta[s].row_count + Cardinality(InFlight(s)) <= Cardinality(CopiesOf(s))
                    /\ ~Replacing(s)
  BY DEF CountInv
<1>1. InFlight(s) = {} /\ meta[s].row_count = 0 /\ ~Replacing(s)
  BY DEF Init, InFlight, Replacing, NoMeta
<1>2. Cardinality({}) = 0 /\ Cardinality(CopiesOf(s)) \in Nat
  BY FS_EmptySet, TypeInit, CopiesFinite
<1> QED
  BY <1>1, <1>2

(* A step that stores nothing, adds nothing to a count and prepares no new *)
(* metadata; what it takes away is in files it interrupts.                 *)
LEMMA CountFrame ==
  ASSUME TypeOK, CountInv, step' # "json",
         \A s \in Segments \ interrupted' :
           /\ s \notin interrupted
           /\ \A r \in RowsOf(s) : copies'[r] = copies[r]
           /\ meta'[s] = meta[s]
           /\ InFlight(s)' \subseteq InFlight(s)
  PROVE  CountInv'
<1> SUFFICES ASSUME NEW s \in Segments, s \notin interrupted'
             PROVE  /\ meta'[s].row_count + Cardinality(InFlight(s)')
                         <= Cardinality(CopiesOf(s)')
                    /\ ~Replacing(s)'
  BY DEF CountInv
<1>1. CopiesOf(s)' = CopiesOf(s)
  BY DEF CopiesOf, RowsOf
<1>2. /\ Cardinality(InFlight(s)') <= Cardinality(InFlight(s))
      /\ Cardinality(InFlight(s)') \in Nat
  <2>1. IsFiniteSet(InFlight(s)) /\ InFlight(s)' \in SUBSET Rows
    BY CountTypes, RowSets
  <2> QED
    BY <2>1, FS_Subset, RowSets
<1>3. meta[s].row_count + Cardinality(InFlight(s)) <= Cardinality(CopiesOf(s))
      /\ meta'[s] = meta[s]
  BY DEF CountInv
<1>4. meta[s].row_count + Cardinality(InFlight(s)') <= Cardinality(CopiesOf(s))
  BY <1>2, <1>3, CountTypes
<1> QED
  BY <1>1, <1>3, <1>4 DEF Replacing

(* ... in particular one that leaves the flush alone, starts or ends it. *)
LEMMA CountQuiet ==
  ASSUME TypeOK, CountInv, copies' = copies, meta' = meta, interrupted' = interrupted,
         \/ step' = "none" /\ flushing' = {}
         \/ step' = "data" /\ flushing' = unwritten'
  PROVE  CountInv'
<1>1. \A s \in Segments : InFlight(s)' = {}
  BY DEF InFlight
<1> QED
  BY <1>1, CountFrame

LEMMA CountLost ==
  ASSUME TypeOK, CountInv, LeaveBehind, meta' = meta, step' = "none", flushing' = {}
  PROVE  CountInv'
<1>1. \A s \in Segments : InFlight(s)' = {}
  BY DEF InFlight
<1>2. \A s \in Segments \ interrupted' :
        /\ s \notin interrupted
        /\ \A r \in RowsOf(s) : copies'[r] = copies[r]
  BY Lost DEF RowsOf
<1> QED
  BY <1>1, <1>2, CountFrame

LEMMA CountSame ==
  ASSUME TypeOK, CountInv, UNCHANGED <<copies, meta, step, flushing, unwritten, merged>>,
         \A s \in Segments : s \in interrupted' <=> s \in interrupted
  PROVE  CountInv'
  BY DEF CountInv, CopiesOf, InFlight, Replacing

(* Rows are stored before they are counted ... *)
LEMMA CountWriteCsv ==
  ASSUME MemoryInv, FileInv, CountInv, NEW f \in Segments,
         NEW chunk \in SUBSET unwritten, WriteCsv(f, chunk)
  PROVE  CountInv'
<1> SUFFICES ASSUME NEW s \in Segments, s \notin interrupted'
             PROVE  /\ meta'[s].row_count + Cardinality(InFlight(s)')
                         <= Cardinality(CopiesOf(s)')
                    /\ ~Replacing(s)'
  BY DEF CountInv
<1> DEFINE mine == chunk \cap RowsOf(s)
           tag == [r \in Rows |-> copies[r] + 1]
           New == {<<r, tag[r]>> : r \in mine}
<1>0. TypeOK /\ chunk \subseteq Rows /\ unwritten \subseteq flushing /\ flushing \subseteq Rows
  BY DEF MemoryInv, CallShape, TypeOK
<1>a. /\ step = "spill" /\ step' # "json" /\ unwritten' = unwritten \ chunk
      /\ UNCHANGED <<meta, flushing, history>>
      /\ \A r \in Rows : copies'[r] = copies[r] \/ r \in chunk
      /\ (file[f] = "bare" /\ fresh) \/ file[f] = "whole"
           => \A r \in chunk : copies'[r] = copies[r] + 1
  BY <1>0, Gained
<1>b. s \notin interrupted
  BY <1>a DEF history
<1>c. \A r \in mine : copies'[r] = tag[r]
  <2>1. \A r \in chunk : r \in Rows /\ SegOf[r] = f
    BY <1>0 DEF WriteCsv, RowsOf
  <2>2. CASE s = f
    <3>1. file[f] = "whole" \/ (file[f] = "bare" /\ fresh)
      BY <1>a, <1>b, <2>2 DEF FileInv, WriteCsv
    <3> QED
      BY <1>a, <2>1, <3>1
  <2>3. CASE s # f
    BY <2>1, <2>3 DEF RowsOf
  <2> QED
    BY <2>2, <2>3
<1>1. mine \in SUBSET Rows /\ mine \subseteq RowsOf(s) /\ RowsOf(s) \subseteq Rows
  BY <1>0 DEF RowsOf
<1>2. IsFiniteSet(mine) /\ Cardinality(mine) \in Nat
  BY <1>1, RowSets
<1>3. IsFiniteSet(New) /\ Cardinality(New) = Cardinality(mine)
  BY <1>2, Tagged
<1>4. CopiesOf(s)' = CopiesOf(s) \cup New /\ CopiesOf(s) \cap New = {}
  <2>1. \A r \in Rows : copies[r] \in Nat
    BY <1>0 DEF TypeOK
  <2>2. \A r \in mine : 1 .. copies'[r] = (1 .. copies[r]) \cup {tag[r]}
    <3>1. ASSUME NEW n \in Nat PROVE 1 .. (n + 1) = (1 .. n) \cup {n + 1}
      OBVIOUS
    <3>2. \A r \in mine : copies'[r] = copies[r] + 1 /\ tag[r] = copies[r] + 1 /\ copies[r] \in Nat
      BY <2>1, <1>1, <1>c
    <3> HIDE DEF tag, mine
    <3> QED
      BY <3>1, <3>2
  <2>3. \A r \in RowsOf(s) \ mine : copies'[r] = copies[r]
    BY <1>1, <1>a
  <2>4. \A r \in mine : tag[r] \notin 1 .. copies[r]
    BY <2>1, <1>1
  <2> HIDE DEF tag
  <2>5. \A c : c \in CopiesOf(s) <=> \E r \in RowsOf(s) : \E n \in 1 .. copies[r] : c = <<r, n>>
    BY DEF CopiesOf
  <2>6. \A c : c \in CopiesOf(s)' <=> \E r \in RowsOf(s) : \E n \in 1 .. copies'[r] : c = <<r, n>>
    BY DEF CopiesOf, RowsOf
  <2>7. \A c : c \in New <=> \E r \in mine : c = <<r, tag[r]>>
    OBVIOUS
  <2> HIDE DEF mine
  <2>10. \A r \in mine : \A n : n \in 1 .. copies'[r] <=> n \in 1 .. copies[r] \/ n = tag[r]
    BY <2>2
  <2>11. \A r \in RowsOf(s) \ mine : \A n : n \in 1 .. copies'[r] <=> n \in 1 .. copies[r]
    BY <2>3
  <2>8. \A c : c \in CopiesOf(s)' <=> c \in CopiesOf(s) \/ c \in New
    BY <2>10, <2>11, <2>5, <2>6, <2>7, <1>1, Zenon
  <2>9. \A c : ~(c \in CopiesOf(s) /\ c \in New)
    BY <2>4, <2>5, <2>7
  <2> HIDE DEF New
  <2> QED
    BY <2>8, <2>9
<1>5. InFlight(s)' = InFlight(s) \cup mine /\ InFlight(s) \cap mine = {}
  BY <1>0, <1>a DEF InFlight, RowsOf
<1>6. step' # "json" /\ meta' = meta
  BY <1>a
<1> HIDE DEF New, mine
<1>7. Cardinality(CopiesOf(s)') = Cardinality(CopiesOf(s)) + Cardinality(mine)
  BY <1>0, <1>3, <1>4, DisjointUnion, CopiesFinite
<1>8. Cardinality(InFlight(s)') = Cardinality(InFlight(s)) + Cardinality(mine)
  <2>1. IsFiniteSet(InFlight(s))
    BY <1>0, CountTypes, RowSets
  <2> QED
    BY <1>2, <1>5, <2>1, DisjointUnion
<1>9. meta[s].row_count + Cardinality(InFlight(s)) <= Cardinality(CopiesOf(s))
  BY <1>b DEF CountInv
<1> QED
  BY <1>0, <1>2, <1>6, <1>7, <1>8, <1>9, CountTypes DEF Replacing

(* ... and counted once: they are in flight until then. *)
LEMMA CountTruncate ==
  ASSUME MemoryInv, CountInv, NEW s \in Segments, TruncateMeta(s)
  PROVE  CountInv'
<1>0. TypeOK /\ unwritten = {} /\ step = "meta" /\ flushing \subseteq RowsOf(s)
      /\ step' = "json" /\ flushing' = flushing /\ flushing # {} /\ flushing \subseteq Rows
  BY DEF TruncateMeta, MemoryInv, CallShape, TypeOK
<1>1. InFlight(s) = flushing
  BY <1>0 DEF InFlight
<1>2. merged'.row_count = meta[s].row_count + Cardinality(flushing)
  BY DEF TruncateMeta, Merge
<1>3. s \notin interrupted => merged'.row_count <= Cardinality(CopiesOf(s))
  BY <1>0, <1>1, <1>2 DEF CountInv
<1>a. interrupted' = interrupted
  BY DEF TruncateMeta, history
<1>4. \A q \in Segments : Replacing(q)' => q = s
  BY <1>0 DEF Replacing, RowsOf
<1>5. \A q \in Segments : CopiesOf(q)' = CopiesOf(q) /\ InFlight(q)' = {}
  BY <1>0 DEF TruncateMeta, CopiesOf, RowsOf, InFlight
<1>6. \A q \in Segments : meta'[q].row_count = 0 \/ meta'[q] = meta[q]
  BY <1>0 DEF TruncateMeta, BrokenMeta, TypeOK
<1>7. ASSUME NEW q \in Segments \ interrupted
      PROVE  meta'[q].row_count + Cardinality({}) <= Cardinality(CopiesOf(q))
  <2>1. Cardinality({}) = 0
    BY FS_EmptySet
  <2>2. meta[q].row_count + Cardinality(InFlight(q)) <= Cardinality(CopiesOf(q))
    BY DEF CountInv
  <2> QED
    BY <1>0, <1>6, <2>1, <2>2, CountTypes
<1> QED
  BY <1>a, <1>3, <1>4, <1>5, <1>7 DEF CountInv

LEMMA CountWriteMeta ==
  ASSUME MemoryInv, CountInv, NEW s \in Segments, WriteMeta(s)
  PROVE  CountInv'
<1>0. TypeOK /\ Replacing(s) /\ step' = "none" /\ flushing' = {} /\ interrupted' = interrupted
  BY DEF WriteMeta, NoJob, MemoryInv, Replacing
<1>1. \A q \in Segments : CopiesOf(q)' = CopiesOf(q) /\ InFlight(q)' = {} /\ ~Replacing(q)'
  BY <1>0 DEF WriteMeta, CopiesOf, RowsOf, InFlight, Replacing
<1>2. ASSUME NEW q \in Segments \ interrupted
      PROVE  meta'[q].row_count + Cardinality({}) <= Cardinality(CopiesOf(q))
  <2>1. Cardinality({}) = 0
    BY FS_EmptySet
  <2>2. CASE q = s
    <3>1. meta'[q] = merged
      BY <1>0, <2>2 DEF WriteMeta, TypeOK
    <3>2. merged.row_count <= Cardinality(CopiesOf(q))
      BY <1>0, <2>2 DEF CountInv
    <3> QED
      BY <1>0, <2>1, <3>1, <3>2, CountTypes
  <2>3. CASE q # s
    <3>1. meta'[q] = meta[q]
      BY <1>0, <2>3 DEF WriteMeta, TypeOK
    <3>2. meta[q].row_count + Cardinality(InFlight(q)) <= Cardinality(CopiesOf(q))
      BY DEF CountInv
    <3> QED
      BY <1>0, <2>1, <3>1, <3>2, CountTypes
  <2> QED
    BY <2>2, <2>3
<1>3. \A q \in Segments \ interrupted' :
        meta'[q].row_count + Cardinality(InFlight(q)') <= Cardinality(CopiesOf(q)')
  BY <1>0, <1>1, <1>2
<1> QED
  BY <1>1, <1>3 DEF CountInv

(* CountInv is inductive. *)
LEMMA CountStep ==
  ASSUME Format = "Csv"
  PROVE  MemoryInv /\ FileInv /\ CountInv /\ [Next]_vars => CountInv'
<1> SUFFICES ASSUME MemoryInv, FileInv, CountInv, [Next]_vars PROVE CountInv'
  OBVIOUS
<1> USE TypedInMemory DEF disk, job, history
<1>1. CASE Open
  BY <1>1, CountSame DEF Open
<1>2. CASE FinishReplay
  BY <1>2, CountSame DEF FinishReplay
<1>3. ASSUME NEW r \in Rows, AppendJson(r) PROVE CountInv'
  BY <1>3, CountSame DEF AppendJson
<1>4. ASSUME NEW r \in row, AppendNewline(r) PROVE CountInv'
  BY <1>4, CountSame, CountQuiet DEF AppendNewline, Buffer, StartJob
<1>5. ASSUME NEW r \in Rows, WriteUnlogged(r) PROVE CountInv'
  BY <1>5, CountSame, CountQuiet DEF WriteUnlogged, Buffer, StartJob
<1>6. ASSUME NEW s \in Segments, NEW chunk \in SUBSET unwritten, WriteCsv(s, chunk) PROVE CountInv'
  BY <1>6, CountWriteCsv
<1>7. ASSUME NEW s \in Segments, RenameParquet(s) PROVE CountInv'
  BY <1>7 DEF RenameParquet
<1>8. ASSUME NEW s \in Segments, TruncateMeta(s) PROVE CountInv'
  BY <1>8, CountTruncate
<1>9. ASSUME NEW s \in Segments, WriteMeta(s) PROVE CountInv'
  BY <1>9, CountWriteMeta
<1>10. ASSUME NEW s \in Segments, DrainNext(s) PROVE CountInv'
  BY <1>10, CountQuiet DEF DrainNext, StartJob
<1>11. CASE FlushAll
  BY <1>11, CountSame DEF FlushAll
<1>12. CASE FinishFlushAll
  BY <1>12, CountSame DEF FinishFlushAll, RemoveLog
<1>13. ASSUME NEW r \in Rows, AppendJsonFails(r) PROVE CountInv'
  BY <1>13, CountQuiet DEF AppendJsonFails, ReturnErr, NoJob
<1>14. CASE AppendNewlineFails
  BY <1>14, CountLost DEF AppendNewlineFails, ReturnErr, NoJob
<1>15. CASE FlushFails
  BY <1>15, CountLost DEF FlushFails, ReturnErr, NoJob
<1>16. CASE TruncateFails
  BY <1>16, CountSame DEF TruncateFails
<1>17. CASE Abandon
  BY <1>17, CountSame DEF Abandon
<1>18. CASE Crash
  BY <1>18, CountLost DEF Crash, NoJob
<1>19. CASE UNCHANGED vars
  BY <1>19, CountSame DEF vars
<1>20. ASSUME NEW s \in Segments, OpenCsv(s) PROVE CountInv'
  <2>1. \A q \in Segments : InFlight(q)' \subseteq InFlight(q)
    BY <1>20 DEF OpenCsv, InFlight, RowsOf
  <2> QED
    BY <1>20, <2>1, CountFrame DEF OpenCsv
<1> QED
  BY <1>1, <1>2, <1>3, <1>4, <1>5, <1>6, <1>7, <1>8, <1>9, <1>10, <1>11,
     <1>12, <1>13, <1>14, <1>15, <1>16, <1>17, <1>18, <1>19, <1>20
     DEF Next, Progress, Call, Failure, MergeFails

(* Metadata never counts a row that the data file does not have, for any   *)
(* caller and threshold, whatever fails, dies and is replayed, unless a    *)
(* write to that data file was interrupted.                                *)
THEOREM CountsBehindData ==
  ASSUME Format = "Csv"
  PROVE  Spec => []RowCountNeverOver
<1>1. MemoryInv /\ CountInv => RowCountNeverOver
  <2> SUFFICES ASSUME MemoryInv, CountInv, NEW s \in Segments \ interrupted
               PROVE  meta[s].row_count <= Cardinality(CopiesOf(s))
    BY DEF RowCountNeverOver
  <2>1. meta[s].row_count + Cardinality(InFlight(s)) <= Cardinality(CopiesOf(s))
    BY DEF CountInv
  <2> QED
    BY <2>1, CountTypes, TypedInMemory
<1>2. MemoryInv /\ FileInv /\ CountInv /\ [Next]_vars => CountInv'
  BY CountStep
<1> QED
  BY <1>1, <1>2, CountInit, MemoryInvariant, FileInvariant, PTL DEF Spec

-----------------------------------------------------------------------------
(***************************************************************************)
(* Undisturbed runs: no crash, no error and no abandoned writer so far.    *)
(***************************************************************************)

(* Each row is in one place on its way to its data file.  A log is empty   *)
(* when its writer is gone, so that nothing is ever replayed.              *)
TidyRows ==
  /\ mode # "replay"
  /\ OneShot /\ mode # "down" => logging
  /\ mode = "down" => Logged = {}
  /\ \A r \in Rows : copies[r] <= 1
  /\ \A r \in buffered \cup unwritten : copies[r] = 0
  /\ mode = "append" => \A r \in row : copies[r] = 0
  /\ \A r \in flushing \ unwritten : copies[r] = 1
  /\ \A r \in submitted : copies[r] = 1 \/ r \in buffered \cup unwritten \cup row
  /\ mode = "write_row" => row \subseteq flushing
  /\ acked = submitted \ row

(* These metadata describe these rows, as far as they can be read. *)
Exact(m, rows) ==
  IF rows \cap NonFinite # {}
  THEN m.file = "broken"
  ELSE /\ m.file # "broken"
       /\ m.row_count = Cardinality(rows)
       /\ m.bitset = {BitOf[r] : r \in rows}

(* Metadata describe all that is stored, apart from the flush in progress. *)
TidyMeta ==
  \A s \in Segments :
    /\ ~Replacing(s) => Exact(meta[s], (Stored \ flushing) \cap RowsOf(s))
    /\ Replacing(s) => Exact(merged, Stored \cap RowsOf(s))

CleanInv == ~mishap => TidyRows /\ TidyMeta /\ interrupted = {}

(* A new directory is tidy. *)
LEMMA CleanInit == Init => CleanInv
<1> SUFFICES ASSUME Init PROVE TidyRows /\ TidyMeta
  BY DEF CleanInv, Init
<1>1. Logged = {} /\ Stored = {}
  <2>1. wal.lines = {} /\ wal.tail = {}
    BY DEF Init, EmptyLog
  <2>2. Logged = {}
    BY <2>1, Zenon DEF Logged
  <2> QED
    BY <2>2 DEF Init, Stored
<1>2. TidyRows
  BY <1>1 DEF Init, TidyRows
<1>3. ASSUME NEW s \in Segments
      PROVE  ~Replacing(s) /\ Exact(meta[s], (Stored \ flushing) \cap RowsOf(s))
  <2>1. (Stored \ flushing) \cap RowsOf(s) = {} /\ meta[s] = NoMeta /\ ~Replacing(s)
    BY <1>1 DEF Init, Replacing
  <2>2. Exact(NoMeta, {})
    BY FS_EmptySet DEF Exact, NoMeta
  <2> QED
    BY <2>1, <2>2
<1> QED
  BY <1>2, <1>3 DEF TidyMeta

(* TidyRows is inductive as long as nothing goes wrong. *)
LEMMA TidyRowsStep ==
  ASSUME Format = "Csv"
  PROVE  MemoryInv /\ FileInv /\ CleanInv /\ ~mishap' /\ [Next]_vars => TidyRows'
<1> SUFFICES ASSUME MemoryInv, FileInv, CleanInv, ~mishap', [Next]_vars PROVE TidyRows'
  OBVIOUS
<1> USE DEF MemoryInv, CleanInv, TidyRows, CallShape, OnlySubmitted, SessionCopies,
            TypeOK, disk, job, history
<1>1. CASE Open
  BY <1>1, LoggedUnchanged DEF Open
<1>2. CASE FinishReplay
  BY <1>2, LoggedUnchanged DEF FinishReplay
<1>3. ASSUME NEW r \in Rows, AppendJson(r) PROVE TidyRows'
  BY <1>3 DEF AppendJson
<1>4. ASSUME NEW r \in row, AppendNewline(r) PROVE TidyRows'
  BY <1>4 DEF AppendNewline, Buffer, StartJob
<1>5. ASSUME NEW r \in Rows, WriteUnlogged(r) PROVE TidyRows'
  BY <1>5 DEF WriteUnlogged, Buffer, StartJob
<1>6. ASSUME NEW s \in Segments, NEW chunk \in SUBSET unwritten, WriteCsv(s, chunk) PROVE TidyRows'
  <2>1. /\ unwritten' = unwritten \ chunk /\ mishap' = mishap
        /\ UNCHANGED <<wal, mode, logging, buffered, row, flushing, submitted, acked>>
        /\ \A r \in Rows : copies'[r] = copies[r] \/ r \in chunk
    BY <1>6, Gained
  <2>2. \A r \in chunk : copies'[r] = copies[r] + 1
    <3>1. s \notin interrupted
      BY <2>1
    <3>2. file[s] = "whole" \/ (file[s] = "bare" /\ fresh)
      BY <1>6, <3>1 DEF FileInv, WriteCsv
    <3> QED
      BY <1>6, <3>2, Gained
  <2>3. Logged' = Logged
    BY <2>1, LoggedUnchanged
  <2>4. TidyRows
    BY <2>1
  <2> QED
    BY <2>1, <2>2, <2>3, <2>4
<1>7. ASSUME NEW s \in Segments, RenameParquet(s) PROVE TidyRows'
  BY <1>7 DEF RenameParquet
<1>8. ASSUME NEW s \in Segments, TruncateMeta(s) PROVE TidyRows'
  BY <1>8 DEF TruncateMeta
<1>9. ASSUME NEW s \in Segments, WriteMeta(s) PROVE TidyRows'
  BY <1>9 DEF WriteMeta, NoJob
<1>10. ASSUME NEW s \in Segments, DrainNext(s) PROVE TidyRows'
  BY <1>10 DEF DrainNext, StartJob, RowsOf
<1>11. CASE FlushAll
  BY <1>11 DEF FlushAll
<1>12. CASE FinishFlushAll
  BY <1>12, LoggedAfterFlush DEF FinishFlushAll, RemoveLog
<1>13. ASSUME NEW r \in Rows, AppendJsonFails(r) PROVE TidyRows'
  BY <1>13 DEF AppendJsonFails, ReturnErr
<1>14. CASE AppendNewlineFails
  BY <1>14 DEF AppendNewlineFails, ReturnErr
<1>15. CASE FlushFails
  BY <1>15 DEF FlushFails, ReturnErr
<1>16. CASE TruncateFails
  BY <1>16 DEF TruncateFails
<1>17. CASE Abandon
  BY <1>17 DEF Abandon
<1>18. CASE Crash
  BY <1>18 DEF Crash
<1>19. CASE UNCHANGED vars
  BY <1>19, LoggedUnchanged DEF vars
<1>20. ASSUME NEW s \in Segments, OpenCsv(s) PROVE TidyRows'
  BY <1>20 DEF OpenCsv
<1> QED
  BY <1>1, <1>2, <1>3, <1>4, <1>5, <1>6, <1>7, <1>8, <1>9, <1>10, <1>11,
     <1>12, <1>13, <1>14, <1>15, <1>16, <1>17, <1>18, <1>19, <1>20
     DEF Next, Progress, Call, Failure, MergeFails

(* A step that writes no metadata, and stores only rows being flushed. *)
LEMMA TidyFrame ==
  ASSUME TidyMeta, meta' = meta, step # "json", step' # "json",
         Stored' \ flushing' = Stored \ flushing
  PROVE  TidyMeta'
<1>1. \A s \in Segments : RowsOf(s)' = RowsOf(s) /\ ~Replacing(s)' /\ ~Replacing(s)
  BY DEF RowsOf, Replacing
<1>2. \A s \in Segments : (Stored' \ flushing') \cap RowsOf(s)' = (Stored \ flushing) \cap RowsOf(s)
  BY <1>1
<1> QED
  BY <1>1, <1>2 DEF TidyMeta, Exact

(* ... nor touches the flush. *)
LEMMA TidySame ==
  ASSUME TidyMeta, UNCHANGED <<copies, meta, step, flushing, merged>>
  PROVE  TidyMeta'
<1>1. Stored' = Stored
  BY DEF Stored
<1>2. \A s \in Segments : RowsOf(s)' = RowsOf(s) /\ (Replacing(s)' <=> Replacing(s))
  BY DEF RowsOf, Replacing
<1> QED
  BY <1>1, <1>2 DEF TidyMeta, Exact

(* The merged metadata describe the segment with the flushed rows. *)
LEMMA TidyTruncate ==
  ASSUME MemoryInv, TidyRows, TidyMeta, NEW s \in Segments, TruncateMeta(s)
  PROVE  TidyMeta'
<1> DEFINE old == (Stored \ flushing) \cap RowsOf(s)
<1>0. /\ TypeOK /\ unwritten = {} /\ step = "meta" /\ flushing \subseteq RowsOf(s)
      /\ step' = "json" /\ flushing' = flushing /\ flushing # {} /\ flushing \subseteq Rows
      /\ copies' = copies
  BY DEF TruncateMeta, MemoryInv, CallShape, TypeOK
<1>1. flushing \subseteq Stored
  BY <1>0 DEF TidyRows, Stored
<1>2. Stored \cap RowsOf(s) = old \cup flushing /\ old \cap flushing = {}
  BY <1>0, <1>1
<1>3. /\ IsFiniteSet(old) /\ IsFiniteSet(flushing)
  <2>1. old \in SUBSET Rows /\ flushing \in SUBSET Rows
    BY <1>0 DEF Stored
  <2> QED
    BY <2>1, RowSets
<1>4. Exact(meta[s], old)
  BY <1>0 DEF TidyMeta, Replacing
<1>5. /\ merged'.row_count = meta[s].row_count + Cardinality(flushing)
      /\ merged'.bitset = meta[s].bitset \cup {BitOf[r] : r \in flushing}
      /\ merged'.file = IF flushing \cap NonFinite = {} THEN "ok" ELSE "broken"
  BY DEF TruncateMeta, Merge, Written
<1>a. old \cap NonFinite = {}
  BY <1>4 DEF TruncateMeta, Exact
<1> HIDE DEF old
<1>6. Cardinality(old \cup flushing) = Cardinality(old) + Cardinality(flushing)
  BY <1>2, <1>3, DisjointUnion
<1>7. {BitOf[r] : r \in old \cup flushing}
        = {BitOf[r] : r \in old} \cup {BitOf[r] : r \in flushing}
  OBVIOUS
<1>8. Exact(merged', Stored \cap RowsOf(s))
  BY <1>2, <1>4, <1>5, <1>6, <1>7, <1>a DEF Exact
<1>9. Replacing(s)' /\ \A q \in Segments : q # s => ~Replacing(q) /\ ~Replacing(q)'
  BY <1>0 DEF Replacing, RowsOf
<1>10. \A q \in Segments : q # s => meta'[q] = meta[q]
  BY <1>0 DEF TruncateMeta, TypeOK
<1>11. Stored' = Stored /\ \A q \in Segments : RowsOf(q)' = RowsOf(q)
  BY <1>0 DEF Stored, RowsOf
<1>12. ASSUME NEW q \in Segments, q # s
       PROVE  Exact(meta'[q], (Stored' \ flushing') \cap RowsOf(q)')
  BY <1>0, <1>9, <1>10, <1>11, <1>12 DEF TidyMeta
<1>13. Exact(merged', Stored' \cap RowsOf(s)')
  BY <1>8, <1>11
<1> QED
  BY <1>9, <1>12, <1>13 DEF TidyMeta, Exact

(* Writing them down makes the metadata of the segment complete. *)
LEMMA TidyWriteMeta ==
  ASSUME MemoryInv, TidyMeta, NEW s \in Segments, WriteMeta(s)
  PROVE  TidyMeta'
<1>0. /\ TypeOK /\ Replacing(s) /\ step' = "none" /\ flushing' = {}
      /\ flushing # {} /\ flushing \subseteq RowsOf(s) /\ copies' = copies
  BY DEF WriteMeta, NoJob, MemoryInv, CallShape, Replacing
<1>1. \A q \in Segments : ~Replacing(q)'
  BY <1>0 DEF Replacing
<1>2. Stored' = Stored /\ \A q \in Segments : RowsOf(q)' = RowsOf(q)
  BY <1>0 DEF Stored, RowsOf
<1>3. ASSUME NEW q \in Segments
      PROVE  Exact(meta'[q], Stored \cap RowsOf(q))
  <2>1. CASE q = s
    <3>1. meta'[q] = merged
      BY <1>0, <2>1 DEF WriteMeta, TypeOK
    <3> QED
      BY <1>0, <2>1, <3>1 DEF TidyMeta
  <2>2. CASE q # s
    <3>1. meta'[q] = meta[q]
      BY <1>0, <2>2 DEF WriteMeta, TypeOK
    <3>2. ~Replacing(q) /\ (Stored \ flushing) \cap RowsOf(q) = Stored \cap RowsOf(q)
      BY <1>0, <2>2 DEF Replacing, RowsOf
    <3>3. Exact(meta[q], (Stored \ flushing) \cap RowsOf(q))
      BY <3>2 DEF TidyMeta
    <3> QED
      BY <3>1, <3>2, <3>3
  <2> QED
    BY <2>1, <2>2
<1>4. \A q \in Segments : (Stored' \ flushing') \cap RowsOf(q)' = Stored \cap RowsOf(q)
  BY <1>0, <1>2
<1>5. ASSUME NEW q \in Segments
      PROVE  Exact(meta'[q], (Stored' \ flushing') \cap RowsOf(q)')
  BY <1>3, <1>4
<1> QED
  BY <1>1, <1>5 DEF TidyMeta, Exact

(* TidyMeta is inductive as long as nothing goes wrong. *)
LEMMA TidyMetaStep ==
  ASSUME Format = "Csv"
  PROVE  MemoryInv /\ CleanInv /\ ~mishap' /\ [Next]_vars => TidyMeta'
<1> SUFFICES ASSUME MemoryInv, CleanInv, ~mishap', [Next]_vars PROVE TidyMeta'
  OBVIOUS
<1>0. CASE mishap
  <2>1. mishap'
    BY <1>0 DEF Next, Progress, Call, Failure, vars, Open, FinishReplay, AppendJson,
       AppendNewline, WriteUnlogged, OpenCsv, WriteCsv, RenameParquet, TruncateMeta, WriteMeta,
       DrainNext, FlushAll, FinishFlushAll, AppendJsonFails, AppendNewlineFails,
       FlushFails, MergeFails, TruncateFails, Abandon, Crash, ReturnErr, disk, job, history
  <2> QED
    BY <2>1
<1> SUFFICES ASSUME ~mishap PROVE TidyMeta'
  BY <1>0
<1>a. TidyRows /\ TidyMeta /\ CallShape /\ TypeOK
  BY DEF CleanInv, MemoryInv
<1> USE <1>a DEF disk, job, history
<1>1. CASE Open
  BY <1>1, TidySame DEF Open
<1>2. CASE FinishReplay
  BY <1>2, TidySame DEF FinishReplay
<1>3. ASSUME NEW r \in Rows, AppendJson(r) PROVE TidyMeta'
  BY <1>3, TidySame DEF AppendJson
<1>4. ASSUME NEW r \in row, AppendNewline(r) PROVE TidyMeta'
  <2>1. CASE UNCHANGED job
    BY <1>4, <2>1, TidySame DEF AppendNewline
  <2>2. CASE \E builder \in SUBSET (buffered \cup {r}) : StartJob(builder)
    <3>1. step = "none" /\ flushing = {} /\ step' = "data" /\ meta' = meta /\ copies' = copies
      BY <1>4, <2>2 DEF AppendNewline, StartJob, CallShape
    <3>2. \A q \in flushing' : copies[q] = 0
      BY <1>4, <2>2 DEF AppendNewline, StartJob, TidyRows
    <3>3. Stored' \ flushing' = Stored \ flushing
      BY <3>1, <3>2 DEF Stored
    <3> QED
      BY <3>1, <3>3, TidyFrame
  <2> QED
    BY <1>4, <2>1, <2>2 DEF AppendNewline, Buffer
<1>5. ASSUME NEW r \in Rows, WriteUnlogged(r) PROVE TidyMeta'
  <2>1. CASE UNCHANGED job
    BY <1>5, <2>1, TidySame DEF WriteUnlogged
  <2>2. CASE \E builder \in SUBSET (buffered \cup {r}) : StartJob(builder)
    <3>1. step = "none" /\ flushing = {} /\ step' = "data" /\ meta' = meta /\ copies' = copies
      BY <1>5, <2>2 DEF WriteUnlogged, StartJob, CallShape
    <3>2. \A q \in flushing' : copies[q] = 0
      BY <1>5, <2>2 DEF WriteUnlogged, StartJob, TidyRows, MemoryInv, SessionCopies
    <3>3. Stored' \ flushing' = Stored \ flushing
      BY <3>1, <3>2 DEF Stored
    <3> QED
      BY <3>1, <3>3, TidyFrame
  <2> QED
    BY <1>5, <2>1, <2>2 DEF WriteUnlogged, Buffer
<1>6. ASSUME NEW s \in Segments, NEW chunk \in SUBSET unwritten, WriteCsv(s, chunk) PROVE TidyMeta'
  <2>1. step = "spill" /\ step' # "json" /\ meta' = meta /\ flushing' = flushing
    BY <1>6 DEF WriteCsv
  <2>2. \A q \in Rows \ flushing : copies'[q] = copies[q]
    BY <1>6, Gained DEF CallShape
  <2>3. Stored' \ flushing' = Stored \ flushing
    BY <2>1, <2>2 DEF Stored
  <2> QED
    BY <2>1, <2>3, TidyFrame
<1>7. ASSUME NEW s \in Segments, RenameParquet(s) PROVE TidyMeta'
  BY <1>7 DEF RenameParquet
<1>8. ASSUME NEW s \in Segments, TruncateMeta(s) PROVE TidyMeta'
  BY <1>8, TidyTruncate
<1>9. ASSUME NEW s \in Segments, WriteMeta(s) PROVE TidyMeta'
  BY <1>9, TidyWriteMeta
<1>10. ASSUME NEW s \in Segments, DrainNext(s) PROVE TidyMeta'
  <2>1. step = "none" /\ flushing = {} /\ step' = "data" /\ meta' = meta /\ copies' = copies
    BY <1>10 DEF DrainNext, StartJob, CallShape
  <2>2. \A q \in flushing' : copies[q] = 0
    BY <1>10 DEF DrainNext, StartJob, TidyRows
  <2>3. Stored' \ flushing' = Stored \ flushing
    BY <2>1, <2>2 DEF Stored
  <2> QED
    BY <2>1, <2>3, TidyFrame
<1>11. CASE FlushAll
  BY <1>11, TidySame DEF FlushAll
<1>12. CASE FinishFlushAll
  BY <1>12, TidySame DEF FinishFlushAll, RemoveLog
<1>13. ASSUME NEW r \in Rows, AppendJsonFails(r) PROVE TidyMeta'
  BY <1>13 DEF AppendJsonFails, ReturnErr
<1>14. CASE AppendNewlineFails
  BY <1>14 DEF AppendNewlineFails, ReturnErr
<1>15. CASE FlushFails
  BY <1>15 DEF FlushFails, ReturnErr
<1>16. CASE TruncateFails
  BY <1>16 DEF TruncateFails
<1>17. CASE Abandon
  BY <1>17 DEF Abandon
<1>18. CASE Crash
  BY <1>18 DEF Crash
<1>19. CASE UNCHANGED vars
  BY <1>19, TidySame DEF vars
<1>20. ASSUME NEW s \in Segments, OpenCsv(s) PROVE TidyMeta'
  <2>1. step # "json" /\ step' # "json" /\ meta' = meta /\ flushing' = flushing /\ copies' = copies
    BY <1>20 DEF OpenCsv
  <2> QED
    BY <2>1, TidyFrame DEF Stored
<1> QED
  BY <1>1, <1>2, <1>3, <1>4, <1>5, <1>6, <1>7, <1>8, <1>9, <1>10, <1>11,
     <1>12, <1>13, <1>14, <1>15, <1>16, <1>17, <1>18, <1>19, <1>20
     DEF Next, Progress, Call, Failure, MergeFails

(* A write that is not carried through is a mishap. *)
LEMMA NoneInterrupted ==
  MemoryInv /\ CleanInv /\ ~mishap' /\ [Next]_vars => interrupted' = {}
<1> SUFFICES ASSUME MemoryInv, CleanInv, ~mishap', [Next]_vars PROVE interrupted' = {}
  OBVIOUS
<1> USE DEF disk, job, history
<1>1. mishap => mishap'
  BY DEF Next, Progress, Call, Failure, vars, Open, FinishReplay, AppendJson,
     AppendNewline, WriteUnlogged, OpenCsv, WriteCsv, RenameParquet, TruncateMeta, WriteMeta,
     DrainNext, FlushAll, FinishFlushAll, AppendJsonFails, AppendNewlineFails,
     FlushFails, MergeFails, TruncateFails, Abandon, Crash, ReturnErr
<1>2. interrupted = {}
  BY <1>1 DEF CleanInv
<1>3. interrupted' \subseteq interrupted \/ mishap'
  BY DEF Next, Progress, Call, Failure, vars, Open, FinishReplay, AppendJson,
     AppendNewline, WriteUnlogged, OpenCsv, WriteCsv, RenameParquet, TruncateMeta, WriteMeta,
     DrainNext, FlushAll, FinishFlushAll, RemoveLog, AppendJsonFails, AppendNewlineFails,
     FlushFails, MergeFails, TruncateFails, Abandon, Crash, ReturnErr
<1> QED
  BY <1>2, <1>3

(* As long as nothing goes wrong the files are exact between calls: no row *)
(* twice, none missing, and metadata that describe exactly what is stored  *)
(* unless a statistic is not finite, in which case they cannot be read,    *)
(* for any number of writers, whether or not they are used after flush_all.*)
THEOREM CleanRuns ==
  ASSUME Format = "Csv"
  PROVE  Spec => []CleanRunExact
<1>1. MemoryInv /\ CleanInv => CleanRunExact
  <2> SUFFICES ASSUME MemoryInv, TidyRows, TidyMeta, mode \in {"idle", "down"}
               PROVE  /\ \A r \in Rows : copies[r] <= 1
                      /\ \A s \in Segments : Exact(meta[s], Stored \cap RowsOf(s))
                      /\ mode = "down" => Stored = acked /\ Logged = {}
    BY DEF CleanInv, CleanRunExact, Exact
  <2>1. step = "none" /\ flushing = {} /\ unwritten = {} /\ row = {}
    BY DEF MemoryInv, CallShape
  <2>2. ASSUME NEW s \in Segments PROVE Exact(meta[s], Stored \cap RowsOf(s))
    <3>1. ~Replacing(s) /\ (Stored \ flushing) \cap RowsOf(s) = Stored \cap RowsOf(s)
      BY <2>1 DEF Replacing
    <3>2. Exact(meta[s], (Stored \ flushing) \cap RowsOf(s))
      BY <3>1 DEF TidyMeta
    <3> QED
      BY <3>1, <3>2
  <2>3. ASSUME mode = "down" PROVE Stored = acked
    <3>1. Stored \subseteq submitted
      BY DEF Stored, MemoryInv, SessionCopies
    <3>2. submitted \subseteq Stored
      BY <2>1, <2>3 DEF TidyRows, Stored, MemoryInv, CallShape, TypeOK
    <3> QED
      BY <2>1, <3>1, <3>2 DEF TidyRows
  <2> QED
    BY <2>2, <2>3 DEF TidyRows
<1>2. MemoryInv /\ FileInv /\ CleanInv /\ [Next]_vars => CleanInv'
  BY TidyRowsStep, TidyMetaStep, NoneInterrupted DEF CleanInv
<1> QED
  BY <1>1, <1>2, CleanInit, MemoryInvariant, FileInvariant, PTL DEF Spec

-----------------------------------------------------------------------------
(***************************************************************************)
(* What metadata covers stays covered, for every caller and format.        *)
(***************************************************************************)

(* Metadata being replaced is cut short on disk. *)
ReplaceInv ==
  /\ step = "json" => merged.file \in {"ok", "broken"}
  /\ \A s \in Segments : Replacing(s) => meta[s].file = "broken"

(* Row r is covered, or the metadata of its segment is broken and its next *)
(* content, if there is one, covers r.                                     *)
Kept(r) ==
  \/ Covered(r)
  \/ /\ meta[SegOf[r]].file = "broken"
     /\ Replacing(SegOf[r]) => BitOf[r] \in merged.bitset

(* A step that leaves metadata and the flush in memory alone, or ends it. *)
LEMMA KeptFrame ==
  ASSUME ReplaceInv, meta' = meta,
         step' # "json" \/ UNCHANGED <<step, flushing, merged>>
  PROVE  ReplaceInv' /\ \A r \in Rows : Kept(r) => Kept(r)'
  BY DEF ReplaceInv, Replacing, RowsOf, Kept, Covered

LEMMA KeptTruncate ==
  ASSUME MemoryInv, ReplaceInv, NEW s \in Segments, TruncateMeta(s)
  PROVE  ReplaceInv' /\ \A r \in Rows : Kept(r) => Kept(r)'
<1>0. /\ step = "meta" /\ step' = "json" /\ flushing' = flushing /\ flushing # {}
      /\ flushing \subseteq RowsOf(s) /\ meta \in [Segments -> MetaFiles]
      /\ meta[s].file # "broken" /\ meta' = [meta EXCEPT ![s] = BrokenMeta]
  BY DEF TruncateMeta, MemoryInv, CallShape, TypeOK
<1>1. /\ merged'.file \in {"ok", "broken"}
      /\ merged'.bitset = meta[s].bitset \cup {BitOf[r] : r \in flushing}
  BY DEF TruncateMeta, Merge, Written
<1>2. BrokenMeta.file = "broken"
  BY DEF BrokenMeta
<1>3. \A q \in Segments : ~Replacing(q) /\ (Replacing(q)' <=> q = s)
  BY <1>0 DEF Replacing, RowsOf
<1>4. ReplaceInv'
  BY <1>0, <1>1, <1>2, <1>3 DEF ReplaceInv
<1>5. ASSUME NEW r \in Rows, Kept(r) PROVE Kept(r)'
  <2>1. CASE SegOf[r] = s
    BY <1>0, <1>1, <1>2, <1>5, <2>1 DEF Kept, Covered
  <2>2. CASE SegOf[r] # s
    <3>1. SegOf[r] \in Segments /\ meta'[SegOf[r]] = meta[SegOf[r]] /\ ~Replacing(SegOf[r])'
      BY <1>0, <1>3, <2>2
    <3> QED
      BY <1>5, <3>1 DEF Kept, Covered
  <2> QED
    BY <2>1, <2>2
<1> QED
  BY <1>4, <1>5

LEMMA KeptWriteMeta ==
  ASSUME MemoryInv, ReplaceInv, NEW s \in Segments, WriteMeta(s)
  PROVE  ReplaceInv' /\ \A r \in Rows : Kept(r) => Kept(r)'
<1>0. /\ step = "json" /\ step' = "none" /\ flushing # {}
      /\ flushing \subseteq RowsOf(s) /\ meta \in [Segments -> MetaFiles]
      /\ meta' = [meta EXCEPT ![s] = merged]
  BY DEF WriteMeta, NoJob, MemoryInv, CallShape, TypeOK
<1>1. Replacing(s) /\ \A q \in Segments : ~Replacing(q)'
  BY <1>0 DEF Replacing
<1>2. ReplaceInv'
  BY <1>0, <1>1 DEF ReplaceInv
<1>3. ASSUME NEW r \in Rows, Kept(r) PROVE Kept(r)'
  <2>1. CASE SegOf[r] = s
    BY <1>0, <1>1, <1>3, <2>1 DEF Kept, Covered, ReplaceInv
  <2>2. CASE SegOf[r] # s
    <3>1. SegOf[r] \in Segments /\ meta'[SegOf[r]] = meta[SegOf[r]] /\ ~Replacing(SegOf[r])'
      BY <1>0, <1>1, <2>2
    <3> QED
      BY <1>3, <3>1 DEF Kept, Covered
  <2> QED
    BY <2>1, <2>2
<1> QED
  BY <1>2, <1>3

(* No step, whoever takes it, loses a row that metadata covered. *)
LEMMA KeptStep ==
  MemoryInv /\ ReplaceInv /\ [Next]_vars =>
    ReplaceInv' /\ \A r \in Rows : Kept(r) => Kept(r)'
<1> DEFINE Goal == ReplaceInv' /\ \A r \in Rows : Kept(r) => Kept(r)'
<1> SUFFICES ASSUME MemoryInv, ReplaceInv, [Next]_vars PROVE Goal
  OBVIOUS
<1> HIDE DEF Goal
<1>0. ASSUME meta' = meta, step' # "json" \/ UNCHANGED <<step, flushing, merged>>
      PROVE  Goal
  BY <1>0, KeptFrame DEF Goal
<1> USE DEF disk, job, history
<1>1. CASE Open
  BY <1>0, <1>1 DEF Open
<1>2. CASE FinishReplay
  BY <1>0, <1>2 DEF FinishReplay
<1>3. ASSUME NEW r \in Rows, AppendJson(r) PROVE Goal
  BY <1>0, <1>3 DEF AppendJson
<1>4. ASSUME NEW r \in row, AppendNewline(r) PROVE Goal
  BY <1>0, <1>4 DEF AppendNewline, Buffer, StartJob
<1>5. ASSUME NEW r \in Rows, WriteUnlogged(r) PROVE Goal
  BY <1>0, <1>5 DEF WriteUnlogged, Buffer, StartJob
<1>6. ASSUME NEW s \in Segments, NEW chunk \in SUBSET unwritten, WriteCsv(s, chunk) PROVE Goal
  BY <1>0, <1>6 DEF WriteCsv
<1>7. ASSUME NEW s \in Segments, RenameParquet(s) PROVE Goal
  BY <1>0, <1>7 DEF RenameParquet
<1>8. ASSUME NEW s \in Segments, TruncateMeta(s) PROVE Goal
  BY <1>8, KeptTruncate DEF Goal
<1>9. ASSUME NEW s \in Segments, WriteMeta(s) PROVE Goal
  BY <1>9, KeptWriteMeta DEF Goal
<1>10. ASSUME NEW s \in Segments, DrainNext(s) PROVE Goal
  BY <1>0, <1>10 DEF DrainNext, StartJob
<1>11. CASE FlushAll
  BY <1>0, <1>11 DEF FlushAll
<1>12. CASE FinishFlushAll
  BY <1>0, <1>12 DEF FinishFlushAll
<1>13. ASSUME NEW r \in Rows, AppendJsonFails(r) PROVE Goal
  BY <1>0, <1>13 DEF AppendJsonFails, ReturnErr, NoJob
<1>14. CASE AppendNewlineFails
  BY <1>0, <1>14 DEF AppendNewlineFails, ReturnErr, NoJob
<1>15. CASE FlushFails
  BY <1>0, <1>15 DEF FlushFails, ReturnErr, NoJob
<1>16. CASE TruncateFails
  BY <1>0, <1>16 DEF TruncateFails
<1>17. CASE Abandon
  BY <1>0, <1>17 DEF Abandon
<1>18. CASE Crash
  BY <1>0, <1>18 DEF Crash, NoJob
<1>19. CASE UNCHANGED vars
  BY <1>0, <1>19 DEF vars
<1>20. ASSUME NEW s \in Segments, OpenCsv(s) PROVE Goal
  BY <1>0, <1>20 DEF OpenCsv
<1> QED
  BY <1>1, <1>2, <1>3, <1>4, <1>5, <1>6, <1>7, <1>8, <1>9, <1>10, <1>11,
     <1>12, <1>13, <1>14, <1>15, <1>16, <1>17, <1>18, <1>19, <1>20
     DEF Next, Progress, Call, Failure, MergeFails

(* A row that readable metadata covers is never uncovered by readable      *)
(* metadata, in any format and whatever fails: what pruning lets through it *)
(* keeps reaching, or its metadata cannot be read.                         *)
THEOREM StaysPublished == Spec => CoverageStays
<1>1. Init => ReplaceInv
  BY DEF Init, ReplaceInv, Replacing
<1>2. MemoryInv /\ ReplaceInv /\ [Next]_vars => ReplaceInv'
  BY KeptStep
<1>3. Spec => [](MemoryInv /\ ReplaceInv)
  BY <1>1, <1>2, MemoryInvariant, PTL DEF Spec
<1>4. ASSUME NEW r \in Rows
      PROVE  Spec => [](Covered(r) => [](Covered(r) \/ meta[SegOf[r]].file = "broken"))
  <2>1. MemoryInv /\ ReplaceInv /\ Kept(r) /\ [Next]_vars => Kept(r)'
    BY KeptStep
  <2>2. Covered(r) => Kept(r)
    BY DEF Kept
  <2>3. Kept(r) => (Covered(r) \/ meta[SegOf[r]].file = "broken")
    BY DEF Kept
  <2> QED
    BY <1>3, <2>1, <2>2, <2>3, PTL DEF Spec
<1> QED
  BY <1>4 DEF CoverageStays
=============================================================================

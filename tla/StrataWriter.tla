--------------------------- MODULE StrataWriter ---------------------------
(***************************************************************************)
(* The ingestion engine of one table directory: StrataWriter, its          *)
(* write-ahead log (wal.log) and the two files it keeps per segment, the   *)
(* data file and the metadata JSON.                                        *)
(*                                                                         *)
(* One writer uses the directory at a time.  Every action is one system    *)
(* call that changes a file, together with the memory operations up to the *)
(* next one; a process crash may fall between any two of them, and each of *)
(* them may fail.  What the rows contain is abstracted to the segment a    *)
(* row is routed to (SegOf), its position in that segment's existence      *)
(* bitset (BitOf), and whether statistics can be kept of it (NonFinite).   *)
(***************************************************************************)
EXTENDS Naturals, FiniteSets

CONSTANTS
  Rows,       \* the rows callers may write; each is written at most once
  Segments,   \* segment keys (types.rs SegmentKey)
  Bits,       \* positions of the existence bitset
  SegOf,      \* compute_segment_key of each row
  BitOf,      \* compute_bitset_index of each row
  NonFinite,  \* rows that make a sum infinite or no number: a cell "nan"
              \* or "inf", or an overflow
  WalLog,     \* the name of wal.log, where files are told apart
  Threshold,  \* WriterConfig.segment_size_threshold
  Format,     \* WriterConfig.storage_format
  OneShot,    \* TRUE: callers drop the writer after an error and after
              \* flush_all, as the server's load_csv does
  MaxOpens    \* bound: how many times StrataWriter::new is called

ASSUME RowsFinite       == IsFiniteSet(Rows)
ASSUME RoutingAssumption ==
  /\ SegOf \in [Rows -> Segments]
  /\ BitOf \in [Rows -> Bits]
  /\ NonFinite \subseteq Rows
  /\ WalLog \notin Segments
ASSUME ConfigAssumption ==
  /\ Threshold \in Nat
  /\ Format \in {"Csv", "Parquet"}
  /\ OneShot \in BOOLEAN
  /\ MaxOpens \in Nat

VARIABLES
  (* the directory, which survives a crash *)
  wal,        \* wal.log: complete lines, and what follows the last newline
  copies,     \* how often each row can be read in the data file of its segment
  file,       \* the state of each segment's CSV file
  meta,       \* the metadata file of each segment
  (* the writer object *)
  mode,       \* the call in progress
  logging,    \* self.wal is Some(_)
  buffered,   \* the rows of all segment builders
  row,        \* {r} while write_row(r) is in progress, else {}
  (* the builder being flushed *)
  step,       \* how far flush_to_disk_with_format has got
  fresh,      \* write_data_csv found no file: the header goes first
  flushing,   \* its rows
  unwritten,  \* those of them still to be written to the data file
  merged,     \* the metadata about to be written
  (* history *)
  submitted,  \* rows passed to write_row
  acked,      \* rows for which write_row returned Ok
  interrupted, \* files that an interrupted write may have damaged
  mishap,     \* some writer crashed, failed, or was dropped without flush_all
  opens       \* number of calls of StrataWriter::new

disk    == <<wal, copies, file, meta>>
job     == <<step, fresh, flushing, unwritten, merged>>
history == <<submitted, acked, interrupted, mishap, opens>>
vars    == <<wal, copies, file, meta, mode, logging, buffered, row, step, fresh,
             flushing, unwritten, merged, submitted, acked, interrupted, mishap,
             opens>>

Modes == {"down", "replay", "idle", "append", "write_row", "flush_all"}

RowsOf(s) == {r \in Rows : SegOf[r] = s}

(***************************************************************************)
(* Files.  A log line is the set of rows whose JSON stands on it: append   *)
(* writes the JSON and the newline separately, so two rows can come to     *)
(* share a line, which replay_wal cannot parse.                            *)
(*                                                                         *)
(* A CSV file is "bare" when it exists and has no header yet, "cut" when   *)
(* its last record is incomplete, and "ruined" when it can no longer be    *)
(* read as what was written: a row stands where the header should, or a    *)
(* record is not UTF-8.  A metadata file is "broken" when it is cut short, *)
(* or has null where a number should be: serde_json writes null for one    *)
(* that is not finite, and does not read it back.                          *)
(***************************************************************************)
FileStates == {"absent", "bare", "whole", "cut", "ruined"}

EmptyLog == [lines |-> {}, tail |-> {}]
Logged   == (UNION wal.lines) \cup wal.tail
LogReadable == \A l \in wal.lines \cup {wal.tail} : \A p, q \in l : p = q

MetaFiles == [file : {"absent", "ok", "broken"}, row_count : Nat,
              bitset : SUBSET Bits]
NoMeta    == [file |-> "absent", row_count |-> 0, bitset |-> {}]
BrokenMeta  == [file |-> "broken", row_count |-> 0, bitset |-> {}]

(* write_metadata_json: a builder's metadata added to what the file holds. *)
Written(rows) == IF rows \cap NonFinite = {} THEN "ok" ELSE "broken"

Merge_Replaces(old, rows) ==  \* bug: the file's bitset is overwritten
  [file      |-> Written(rows),
   row_count |-> old.row_count + Cardinality(rows),
   bitset    |-> {BitOf[r] : r \in rows}]
Merge_Doubles(old, rows) ==   \* bug: the file's count is added twice
  [file      |-> Written(rows),
   row_count |-> 2 * old.row_count + Cardinality(rows),
   bitset    |-> old.bitset \cup {BitOf[r] : r \in rows}]
Merge_Subtracts(old, rows) == \* bug: counts are subtracted
  [file      |-> Written(rows),
   row_count |-> old.row_count - Cardinality(rows),
   bitset    |-> old.bitset \cup {BitOf[r] : r \in rows}]
Merge(old, rows) ==
  [file      |-> Written(rows),
   row_count |-> old.row_count + Cardinality(rows),
   bitset    |-> old.bitset \cup {BitOf[r] : r \in rows}]

(* Whether the metadata of its segment lets a query reach row r. *)
Covered(r) == /\ meta[SegOf[r]].file = "ok"
              /\ BitOf[r] \in meta[SegOf[r]].bitset

-----------------------------------------------------------------------------
Init ==
  /\ wal = EmptyLog
  /\ copies = [r \in Rows |-> 0]
  /\ file = [s \in Segments |-> "absent"]
  /\ meta = [s \in Segments |-> NoMeta]
  /\ mode = "down"
  /\ logging = FALSE
  /\ buffered = {}
  /\ row = {}
  /\ step = "none"
  /\ fresh = FALSE
  /\ flushing = {}
  /\ unwritten = {}
  /\ merged = NoMeta
  /\ submitted = {}
  /\ acked = {}
  /\ interrupted = {}
  /\ mishap = FALSE
  /\ opens = 0

(* The writer object is gone, and with it everything it buffered. *)
Drop ==
  /\ mode' = "down"
  /\ logging' = FALSE
  /\ buffered' = {}

NoJob ==
  /\ step' = "none"
  /\ fresh' = FALSE
  /\ flushing' = {}
  /\ unwritten' = {}
  /\ merged' = NoMeta

(* flush_to_disk_with_format begins on a builder with these rows. *)
StartJob(rows) ==
  /\ step' = "data"
  /\ fresh' = FALSE
  /\ flushing' = rows
  /\ unwritten' = rows
  /\ merged' = NoMeta

(***************************************************************************)
(* StrataWriter::new.  A log with content is replayed into the builders of *)
(* a temporary writer that never flushes on the threshold; they are then   *)
(* drained to disk.  A log that cannot be parsed makes new fail with       *)
(* nothing changed, so no action stands for that case.                     *)
(***************************************************************************)
Open ==
  /\ mode = "down"
  /\ opens < MaxOpens
  /\ LogReadable
  /\ opens' = opens + 1
  /\ \/ /\ Logged = {}
        /\ mode' = "idle"
        /\ logging' = TRUE
        /\ UNCHANGED buffered
     \/ /\ Logged # {}
        /\ mode' = "replay"
        /\ buffered' = Logged
        /\ UNCHANGED logging
  /\ UNCHANGED <<disk, row, job, submitted, acked, interrupted, mishap>>

(* new returns: the log is opened for appending with its old content. *)
FinishReplay ==
  /\ mode = "replay"
  /\ step = "none"
  /\ buffered = {}
  /\ mode' = "idle"
  /\ logging' = TRUE
  /\ UNCHANGED <<disk, buffered, row, job, history>>

-----------------------------------------------------------------------------
(* write_row, first half of WalWriter::append: the JSON reaches the file. *)
AppendJson(r) ==
  /\ mode = "idle"
  /\ logging
  /\ r \notin submitted
  /\ wal' = [wal EXCEPT !.tail = @ \cup {r}]
  /\ mode' = "append"
  /\ row' = {r}
  /\ submitted' = submitted \cup {r}
  /\ UNCHANGED <<copies, file, meta, logging, buffered, job, acked, interrupted,
                 mishap, opens>>

(* write_row_internal: the row enters its builder; a full builder is       *)
(* removed and flushed before write_row returns.                           *)
Buffer_Kept(r) ==  \* bug: a full builder is flushed but stays in the map
  LET builder == {q \in buffered : SegOf[q] = SegOf[r]} \cup {r} IN
  /\ buffered' = buffered \cup {r}
  /\ \/ /\ Cardinality(builder) < Threshold
        /\ mode' = "idle"
        /\ row' = {}
        /\ acked' = acked \cup {r}
        /\ UNCHANGED job
     \/ /\ Cardinality(builder) >= Threshold
        /\ StartJob(builder)
        /\ mode' = "write_row"
        /\ row' = {r}
        /\ UNCHANGED acked

Buffer(r) ==
  LET builder == {q \in buffered : SegOf[q] = SegOf[r]} \cup {r} IN
  \/ /\ Cardinality(builder) < Threshold
     /\ buffered' = buffered \cup {r}
     /\ mode' = "idle"
     /\ row' = {}
     /\ acked' = acked \cup {r}
     /\ UNCHANGED job
  \/ /\ Cardinality(builder) >= Threshold
     /\ buffered' = buffered \ builder
     /\ StartJob(builder)
     /\ mode' = "write_row"
     /\ row' = {r}
     /\ UNCHANGED acked

(* write_row, second half of append, then the row is buffered. *)
AppendNewline(r) ==
  /\ mode = "append"
  /\ row = {r}
  /\ wal' = [lines |-> wal.lines \cup {wal.tail}, tail |-> {}]
  /\ Buffer(r)
  /\ UNCHANGED <<copies, file, meta, logging, submitted, interrupted, mishap, opens>>

(* write_row of a writer whose log flush_all has taken: nothing is logged. *)
WriteUnlogged(r) ==
  /\ mode = "idle"
  /\ ~logging
  /\ r \notin submitted
  /\ submitted' = submitted \cup {r}
  /\ Buffer(r)
  /\ UNCHANGED <<disk, logging, interrupted, mishap, opens>>

-----------------------------------------------------------------------------
(* flush_to_disk_with_format, step by step.                                *)

(* write_data_csv looks for the file and opens it for appending, which     *)
(* creates it; only a new file is going to get a header.                   *)
OpenCsv(s) ==
  /\ Format = "Csv"
  /\ step = "data"
  /\ flushing \subseteq RowsOf(s)
  /\ fresh' = (file[s] = "absent")
  /\ file' = [file EXCEPT ![s] = IF @ = "absent" THEN "bare" ELSE @]
  /\ step' = "spill"
  /\ UNCHANGED <<wal, copies, meta, mode, logging, buffered, row, flushing,
                 unwritten, merged, history>>

(* The rows of file s can be read no more. *)
Forget(s) == [r \in Rows |-> IF SegOf[r] = s THEN 0 ELSE copies[r]]

Added(more) == [r \in Rows |-> IF r \in more THEN copies[r] + 1 ELSE copies[r]]

(* The csv writer's buffer reaches the file in chunks, the header before   *)
(* the first record.  Without a header the first record is taken for one;  *)
(* after a cut record at least one is not read as written.                 *)
WriteCsv(s, chunk) ==
  /\ step = "spill"
  /\ flushing \subseteq RowsOf(s)
  /\ chunk # {}
  /\ \/ /\ file[s] = "whole" \/ fresh
        /\ file' = [file EXCEPT ![s] = "whole"]
        /\ copies' = Added(chunk)
     \/ /\ file[s] = "cut"
        /\ \E lost \in (SUBSET chunk) \ {{}} : copies' = Added(chunk \ lost)
        /\ \E after \in {"whole", "cut"} : file' = [file EXCEPT ![s] = after]
     \/ /\ file[s] \in {"bare", "ruined"} /\ ~fresh
        /\ file' = [file EXCEPT ![s] = "ruined"]
        /\ UNCHANGED copies
  /\ fresh' = FALSE
  /\ unwritten' = unwritten \ chunk
  /\ step' = IF unwritten' = {} THEN "meta" ELSE "spill"
  /\ UNCHANGED <<wal, meta, mode, logging, buffered, row, flushing, merged,
                 history>>

(* write_data_parquet and atomic_rename: the new file replaces the old. *)
RenameParquet(s) ==
  /\ Format = "Parquet"
  /\ step = "data"
  /\ flushing \subseteq RowsOf(s)
  /\ copies' = [r \in Rows |-> IF r \in flushing THEN 1 ELSE Forget(s)[r]]
  /\ unwritten' = {}
  /\ step' = "meta"
  /\ UNCHANGED <<wal, file, meta, mode, logging, buffered, row, fresh, flushing,
                 merged, history>>

(* write_metadata_json: existing metadata is read and merged, and          *)
(* File::create truncates the file in place.                               *)
TruncateMeta(s) ==
  /\ step = "meta"
  /\ flushing \subseteq RowsOf(s)
  /\ meta[s].file # "broken"
  /\ merged' = Merge(meta[s], flushing)
  /\ meta' = [meta EXCEPT ![s] = BrokenMeta]
  /\ step' = "json"
  /\ UNCHANGED <<wal, copies, file, mode, logging, buffered, row, fresh, flushing,
                 unwritten, history>>

(* The JSON is complete, and with it the flush of this builder. *)
WriteMeta(s) ==
  /\ step = "json"
  /\ flushing \subseteq RowsOf(s)
  /\ meta' = [meta EXCEPT ![s] = merged]
  /\ NoJob
  /\ \/ /\ mode = "write_row"
        /\ mode' = "idle"
        /\ acked' = acked \cup row
        /\ row' = {}
     \/ /\ mode # "write_row"
        /\ UNCHANGED <<mode, acked, row>>
  /\ UNCHANGED <<wal, copies, file, logging, buffered, submitted, interrupted,
                 mishap, opens>>

(* The drain loop of flush_all and of the replay takes the next builder,   *)
(* in the arbitrary order of the hash map.                                 *)
DrainNext_Full(s) ==  \* bug: only full builders are drained, until none is left
  /\ mode \in {"replay", "flush_all"}
  /\ step = "none"
  /\ Cardinality(buffered \cap RowsOf(s)) >= Threshold
  /\ StartJob(buffered \cap RowsOf(s))
  /\ buffered' = buffered \ RowsOf(s)
  /\ UNCHANGED <<disk, mode, logging, row, history>>

DrainNext(s) ==
  /\ mode \in {"replay", "flush_all"}
  /\ step = "none"
  /\ buffered \cap RowsOf(s) # {}
  /\ StartJob(buffered \cap RowsOf(s))
  /\ buffered' = buffered \ RowsOf(s)
  /\ UNCHANGED <<disk, mode, logging, row, history>>

FlushAll ==
  /\ mode = "idle"
  /\ mode' = "flush_all"
  /\ UNCHANGED <<disk, logging, buffered, row, job, history>>

(* wal.take and truncate: the file of the log is removed. *)
RemoveLog ==
  /\ wal' = IF logging THEN EmptyLog ELSE wal
  /\ interrupted' = IF logging THEN interrupted \ {WalLog} ELSE interrupted
  /\ logging' = FALSE

(* All builders are written: the log is taken out of the writer. *)
FinishFlushAll_Early ==  \* bug: the log goes before the last builder
  /\ mode = "flush_all"
  /\ step = "none"
  /\ RemoveLog
  /\ mode' = IF OneShot THEN "down" ELSE "idle"
  /\ buffered' = {}
  /\ UNCHANGED <<copies, file, meta, row, job, submitted, acked, mishap, opens>>
FinishFlushAll_Kept ==   \* bug: the log is closed but not removed
  /\ mode = "flush_all"
  /\ step = "none"
  /\ buffered = {}
  /\ logging' = FALSE
  /\ mode' = IF OneShot THEN "down" ELSE "idle"
  /\ UNCHANGED <<disk, buffered, row, job, history>>
FinishFlushAll ==
  /\ mode = "flush_all"
  /\ step = "none"
  /\ buffered = {}
  /\ RemoveLog
  /\ mode' = IF OneShot THEN "down" ELSE "idle"
  /\ UNCHANGED <<copies, file, meta, buffered, row, job, submitted, acked, mishap,
                 opens>>

-----------------------------------------------------------------------------
(* What a write leaves behind that is not carried through: a file cut at   *)
(* any byte of the header or of a record, or a log line without its end.   *)
Leftovers(s) ==
  {file[s], "ruined"} \cup IF fresh \/ file[s] = "whole" THEN {"whole", "cut"} ELSE {}

LeaveBehind ==
  \/ /\ step = "spill"
     /\ \E s \in Segments : \E left \in Leftovers(s) :
          /\ flushing \subseteq RowsOf(s)
          /\ file' = [file EXCEPT ![s] = left]
          /\ copies' = IF left = "ruined" THEN Forget(s) ELSE copies
          /\ interrupted' = interrupted \cup {s}
  \/ /\ step # "spill"
     /\ interrupted' = IF mode = "append" THEN interrupted \cup {WalLog}
                       ELSE interrupted
     /\ UNCHANGED <<copies, file>>

(* An error is returned to the caller, which drops the writer or not; the  *)
(* rows of lost are no longer in memory.                                   *)
ReturnErr(lost) ==
  /\ mishap' = TRUE
  /\ row' = {}
  /\ NoJob
  /\ \/ /\ OneShot \/ mode = "replay"
        /\ Drop
     \/ /\ ~OneShot /\ mode # "replay"
        /\ mode' = "idle"
        /\ buffered' = buffered \ lost
        /\ UNCHANGED logging

(* The JSON or the newline cannot be written. *)
AppendJsonFails(r) ==
  /\ mode = "idle"
  /\ logging
  /\ r \notin submitted
  /\ submitted' = submitted \cup {r}
  /\ ReturnErr({})
  /\ UNCHANGED <<disk, acked, interrupted, opens>>

AppendNewlineFails ==
  /\ mode = "append"
  /\ LeaveBehind
  /\ ReturnErr({})
  /\ UNCHANGED <<wal, meta, submitted, acked, opens>>

(* A step of flush_to_disk_with_format fails.  The builder is lost: it was *)
(* removed from the map.  In flush_all, dropping the Drain iterator loses  *)
(* every builder that had not been written yet.                            *)
FlushFails ==
  /\ step # "none"
  /\ LeaveBehind
  /\ ReturnErr(IF mode = "flush_all" THEN buffered ELSE {})
  /\ UNCHANGED <<wal, meta, submitted, acked, opens>>

(* Existing metadata that cannot be parsed fails the merge. *)
MergeFails(s) ==
  /\ step = "meta"
  /\ flushing \subseteq RowsOf(s)
  /\ meta[s].file = "broken"
  /\ FlushFails

(* remove_file fails: the log stays, but the writer no longer holds it. *)
TruncateFails ==
  /\ mode = "flush_all"
  /\ step = "none"
  /\ buffered = {}
  /\ logging
  /\ mishap' = TRUE
  /\ logging' = FALSE
  /\ mode' = IF OneShot THEN "down" ELSE "idle"
  /\ UNCHANGED <<disk, buffered, row, job, submitted, acked, interrupted, opens>>

(* The caller drops the writer without flush_all: load_csv returns early   *)
(* on a malformed CSV record.                                              *)
Abandon ==
  /\ mode = "idle"
  /\ Drop
  /\ mishap' = TRUE
  /\ UNCHANGED <<disk, row, job, submitted, acked, interrupted, opens>>

(* The process dies.  What it wrote stays in the files. *)
Crash ==
  /\ mode # "down"
  /\ LeaveBehind
  /\ Drop
  /\ NoJob
  /\ row' = {}
  /\ mishap' = TRUE
  /\ UNCHANGED <<wal, meta, submitted, acked, opens>>

-----------------------------------------------------------------------------
(* The steps inside a call, which the code takes without waiting. *)
Progress ==
  \/ FinishReplay
  \/ \E r \in row : AppendNewline(r)
  \/ \E s \in Segments : OpenCsv(s)
  \/ \E s \in Segments, chunk \in SUBSET unwritten : WriteCsv(s, chunk)
  \/ \E s \in Segments : RenameParquet(s)
  \/ \E s \in Segments : TruncateMeta(s)
  \/ \E s \in Segments : WriteMeta(s)
  \/ \E s \in Segments : MergeFails(s)
  \/ \E s \in Segments : DrainNext(s)
  \/ FinishFlushAll

(* The calls and their callers' decisions. *)
Call ==
  \/ Open
  \/ \E r \in Rows : AppendJson(r)
  \/ \E r \in Rows : WriteUnlogged(r)
  \/ FlushAll
  \/ Abandon

Failure ==
  \/ \E r \in Rows : AppendJsonFails(r)
  \/ AppendNewlineFails
  \/ FlushFails
  \/ TruncateFails
  \/ Crash

Next == Progress \/ Call \/ Failure

Spec == Init /\ [][Next]_vars

(* A call that has been entered runs on: no step inside it waits for       *)
(* anything.  Nothing is assumed of callers.                               *)
FairSpec == Spec /\ WF_vars(Progress)
-----------------------------------------------------------------------------
(***************************************************************************)
(* Properties.                                                             *)
(***************************************************************************)

(* The state has the types of the code's fields and files. *)
TypeOK ==
  /\ wal \in [lines : SUBSET (SUBSET Rows), tail : SUBSET Rows]
  /\ copies \in [Rows -> Nat]
  /\ file \in [Segments -> FileStates]
  /\ meta \in [Segments -> MetaFiles]
  /\ mode \in Modes
  /\ logging \in BOOLEAN
  /\ buffered \in SUBSET Rows
  /\ row \in SUBSET Rows
  /\ step \in {"none", "data", "spill", "meta", "json"}
  /\ fresh \in BOOLEAN
  /\ flushing \in SUBSET Rows
  /\ unwritten \in SUBSET Rows
  /\ merged \in MetaFiles
  /\ submitted \in SUBSET Rows
  /\ acked \in SUBSET Rows
  /\ interrupted \in SUBSET (Segments \cup {WalLog})
  /\ mishap \in BOOLEAN
  /\ opens \in 0 .. MaxOpens

Stored == {r \in Rows : copies[r] > 0}

(* The rows of a data file, told apart by a number where one row occurs    *)
(* several times.                                                          *)
CopiesOf(s) == UNION {{r} \X (1 .. copies[r]) : r \in RowsOf(s)}

(* Crash safety of ingestion: a row whose write_row returned Ok can be     *)
(* read in its data file, or replay will read it in the log, however often *)
(* the process crashes, a call fails or a writer is dropped.  What can be  *)
(* lost is confined to files that were being written to at that moment:    *)
(* the code does not protect a half written file (see CsvFile).            *)
AckedRowsDurable ==
  \A r \in acked :
    \/ r \in Stored
    \/ SegOf[r] \in interrupted
    \/ r \in Logged /\ (LogReadable \/ WalLog \in interrupted)

(* Pruning never hides a row silently: a row that is in a data file but    *)
(* not in the bitset of its segment's metadata (the crash window between   *)
(* the two files) is still in the log, so the next replay will publish it; *)
(* or the metadata cannot be read, and queries are told so.                *)
HiddenRowsAreLogged ==
  \A r \in Stored :
    \/ Covered(r)
    \/ r \in Logged
    \/ meta[SegOf[r]].file = "broken"

(* The metadata of its segment cannot be read, for it has been written     *)
(* with a number that is not finite.                                       *)
Spoilt(r) ==
  /\ meta[SegOf[r]].file = "broken"
  /\ submitted \cap NonFinite \cap RowsOf(SegOf[r]) # {}

(* flush_all removes the log only when every row in it has reached its     *)
(* data file and is covered by metadata (writer.rs: "all rows are now in   *)
(* segment files").  Two things the code does not make sure of: that a     *)
(* file some earlier write was interrupted in reads back, and that the     *)
(* metadata does when a statistic is not finite.                           *)
LogDroppedOnlyWhenPersisted ==
  [][\A r \in Logged \ Logged' :
       /\ r \in Stored' \/ SegOf[r] \in interrupted'
       /\ Covered(r)' \/ Spoilt(r)']_vars

(* A writer object stores a row at most once, so a row occurs in its data  *)
(* file at most once per call of StrataWriter::new: replay duplicates, but *)
(* a session does not, whatever fails in it.                               *)
OneCopyPerOpen == \A r \in Rows : copies[r] <= opens

(* Unless a write to the data file was interrupted, the row_count of       *)
(* readable metadata is never above the number of rows that can be read in *)
(* it: data is written first, and each builder counted once.               *)
RowCountNeverOver ==
  \A s \in Segments \ interrupted :
    meta[s].file = "ok" =>
      meta[s].row_count <= Cardinality(CopiesOf(s))

(* Without crash, error or abandoned writer the files are exact whenever   *)
(* no call is in progress: no row is stored twice, and a dropped writer    *)
(* has left every acknowledged row in a data file and nothing in the log.  *)
(* Metadata counts every stored row, and its bitset has no bit too many or *)
(* too few; it cannot be read exactly when some stored row is NonFinite.   *)
CleanRunExact ==
  ~mishap /\ mode \in {"idle", "down"} =>
    /\ \A r \in Rows : copies[r] <= 1
    /\ \A s \in Segments :
         LET stored == Stored \cap RowsOf(s) IN
           IF stored \cap NonFinite # {}
           THEN meta[s].file = "broken"
           ELSE /\ meta[s].file # "broken"
                /\ meta[s].row_count = Cardinality(stored)
                /\ meta[s].bitset = {BitOf[r] : r \in stored}
    /\ mode = "down" => Stored = acked /\ Logged = {}

(* Metadata forgets nothing: however often a segment is flushed, by        *)
(* whichever writer, in whichever format and with whatever interruptions,  *)
(* pruning never turns away from a row it has once let a query reach while *)
(* the metadata can be read.  Whether the row is still in the data file is *)
(* another question: in Parquet format the next flush replaces it.         *)
CoverageStays ==
  \A r \in Rows :
    [](Covered(r) => [](Covered(r) \/ meta[SegOf[r]].file = "broken"))

(* Every call returns: the drain loops end, whatever fails in them. *)
CallsReturn == mode \notin {"down", "idle"} ~> mode \in {"down", "idle"}

(* The directory implements the abstract store. *)
Store == INSTANCE DurableStore
  WITH durable <- Stored \cup (IF LogReadable THEN Logged ELSE {}),
       Files   <- Segments \cup {WalLog},
       FilesOf <- [r \in Rows |-> {SegOf[r], WalLog}]
ImplementsStore == Store!Spec
=============================================================================

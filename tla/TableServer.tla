---------------------------- MODULE TableServer ----------------------------
(***************************************************************************)
(* The HTTP server (server.rs) around one table: concurrent loads and      *)
(* queries, the lock on the table map, the lock on the table's cached      *)
(* reader, the directory the loads write into, and crash and restart.      *)
(*                                                                         *)
(* A load runs on its own worker thread, so its file accesses interleave   *)
(* with those of other requests.  What a single writer does is that of     *)
(* StrataWriter with one segment, CSV files, no threshold flush, and a bit *)
(* of its own for every row; here several writers may share the directory. *)
(***************************************************************************)
EXTENDS Naturals, FiniteSets, RwLock

CONSTANTS
  Loads,       \* POST /load requests
  Queries,     \* POST /query requests
  Flights,     \* do_get requests to the Flight SQL server
  Rows,
  LoadRows,    \* the rows of each load's CSV
  Malformed,   \* loads whose CSV has a malformed last record
  Unroutable,  \* loads that ask for zero buckets, or for two dimensions
  Target,      \* the row each query selects, by exact filters
  Config,      \* the layout of segments each load asks for when it creates
               \* the table, and the one a restarted server gives it
  Impatient,   \* requests whose client may close the connection
  SerialLoads, \* TRUE: clients send a load only when no other is running
  MaxCrashes   \* bound: how often the server is killed

Requests == Loads \cup Queries \cup Flights
Readers  == Queries \cup Flights
NoFile   == "none"   \* path of wal.log when it does not exist
Startup  == "startup"

ASSUME RequestAssumption ==
  /\ IsFiniteSet(Rows)
  /\ Loads \cap Readers = {} /\ Queries \cap Flights = {}
  /\ LoadRows \in [Loads -> SUBSET Rows]
  /\ Malformed \subseteq Loads /\ Unroutable \subseteq Loads
  /\ Target \in [Readers -> Rows]
  /\ Impatient \subseteq Loads \cup Queries
  /\ SerialLoads \in BOOLEAN
  /\ MaxCrashes \in Nat

VARIABLES
  (* the directory *)
  dir,        \* it exists
  file,       \* the state of the data file, as in StrataWriter
  copies,     \* how often each row can be read in it
  meta,       \* the metadata file
  logs,       \* contents of every file that was ever wal.log
  path,       \* which of them is wal.log now
  (* the server *)
  up,
  table,      \* {} or, once the map has a TableState, {who put it there}
  cache,      \* TableState.reader: metadata as loaded
  stateLock,  \* RwLock of AppState
  readerLock, \* RwLock of TableState.reader
  flight,     \* the Flight server: "down", or whether it lists the table
  (* the requests *)
  pc,
  creating,   \* the load creates the table
  handle,     \* the file a load's WalWriter has open
  replaying,  \* the rows in mem come from the log
  mem,        \* the rows in a load's segment builder
  fresh,      \* the load found no data file: its header goes first
  unwritten,  \* rows of mem still to be written to the data file
  seen,       \* metadata a load has read or is about to write
  kept,       \* the query's pruning kept the segment
  answer,
  (* history *)
  expected,   \* queries whose row had been loaded when they were sent
  dropped,    \* loads cut off by a crash
  damaged,    \* files a crash has cut a write to, or two loads wrote at once
  layouts,    \* layouts under which rows have been written
  crashes

disk    == <<dir, file, copies, meta, logs, path>>
server  == <<up, table, cache, flight>>
locks   == <<stateLock, readerLock>>
spill   == <<fresh, unwritten>>
locals  == <<creating, handle, replaying, mem, fresh, unwritten, seen, kept>>
history == <<expected, dropped, damaged, layouts, crashes>>
vars    == <<dir, file, copies, meta, logs, path, up, table, cache, flight,
             stateLock, readerLock, pc, creating, handle, replaying, mem, fresh,
             unwritten, seen, kept, answer, expected, dropped, damaged, layouts,
             crashes>>

(* Metadata of the one segment, with the layouts its rows were routed in.  *)
(* No file is metadata without a bit; Truncated is an empty file.          *)
NoMeta == [torn |-> FALSE, bits |-> {}, row_count |-> 0, layouts |-> {}]
Truncated == [NoMeta EXCEPT !.torn = TRUE]

(* They are all of one layout. *)
Uniform(some) == \A a, b \in some : a = b

(* The rows in wal.log. *)
Log == IF path = NoFile THEN {} ELSE logs[path]

-----------------------------------------------------------------------------
Init ==
  /\ dir = FALSE
  /\ file = "absent"
  /\ copies = [x \in Rows |-> 0]
  /\ meta = NoMeta
  /\ logs = [r \in Loads |-> {}]
  /\ path = NoFile
  /\ up = TRUE
  /\ table = {}
  /\ cache = NoMeta
  /\ flight = "down"
  /\ stateLock = Free
  /\ readerLock = Free
  /\ pc = [r \in Requests |-> "new"]
  /\ creating = [r \in Loads |-> FALSE]
  /\ handle = [r \in Loads |-> NoFile]
  /\ replaying = [r \in Loads |-> FALSE]
  /\ mem = [r \in Loads |-> {}]
  /\ fresh = [r \in Loads |-> FALSE]
  /\ unwritten = [r \in Loads |-> {}]
  /\ seen = [r \in Loads |-> NoMeta]
  /\ kept = [q \in Readers |-> FALSE]
  /\ answer = [r \in Requests |-> "none"]
  /\ expected = {}
  /\ dropped = {}
  /\ damaged = {}
  /\ layouts = {}
  /\ crashes = 0

Goto(r, from, to) == pc[r] = from /\ pc' = [pc EXCEPT ![r] = to]

(* The handler returns and its guards are dropped. *)
Reply(r, from, result) ==
  /\ Goto(r, from, "done")
  /\ answer' = [answer EXCEPT ![r] = result]
  /\ stateLock' = Release(stateLock, r)
  /\ readerLock' = Release(readerLock, r)

Answered == {r \in Requests : answer[r] = "ok"}

(* write_metadata_json: what a load's rows add to the metadata it read. *)
Merged_Replaces(old, rows, as) ==  \* bug: what the file says is overwritten
  [torn      |-> FALSE,
   bits      |-> rows,
   row_count |-> old.row_count + Cardinality(rows),
   layouts   |-> old.layouts \cup as]
Merged_Doubles(old, rows, as) ==   \* bug: the old count is added twice
  [torn      |-> FALSE,
   bits      |-> old.bits \cup rows,
   row_count |-> 2 * old.row_count + Cardinality(rows),
   layouts   |-> old.layouts \cup as]
Merged_Subtracts(old, rows, as) == \* bug: counts are subtracted
  [torn      |-> FALSE,
   bits      |-> old.bits \cup rows,
   row_count |-> old.row_count - Cardinality(rows),
   layouts   |-> old.layouts \cup as]
Merged(old, rows, as) ==
  [torn      |-> FALSE,
   bits      |-> old.bits \cup rows,
   row_count |-> old.row_count + Cardinality(rows),
   layouts   |-> old.layouts \cup as]

(* Drop the read guard of the map, then wait for the write lock. *)
Upgrade_Read(r) ==    \* bug: the table is created under a read lock
  Await(Release(Acquire(stateLock, r), r), r, "read")
Upgrade_Holding(r) == \* bug: the read guard is not dropped first
  Await(Acquire(stateLock, r), r, "write")
Upgrade(r) ==
  Await(Release(Acquire(stateLock, r), r), r, "write")

(* A load of the row a query selects has been answered. *)
Loaded(q) == \E l \in Answered \cap Loads : Target[q] \in LoadRows[l]

(* A request arrives; every handler begins with state.read().await. *)
Submit(r) ==
  /\ up
  /\ SerialLoads /\ r \in Loads =>
       \A l \in Loads : pc[l] \in {"new", "done"}
  /\ Goto(r, "new", "state_read")
  /\ stateLock' = Await(stateLock, r, "read")
  /\ expected' = IF r \in Queries /\ Loaded(r) THEN expected \cup {r} ELSE expected
  /\ UNCHANGED <<disk, server, readerLock, locals, answer, dropped, damaged,
                 layouts, crashes>>

-----------------------------------------------------------------------------
(* POST /query *)

(* The table is looked up under the read lock of the map. *)
LookupForQuery(q) ==
  /\ Granted(stateLock, q)
  /\ \/ /\ table # {}
        /\ Goto(q, "state_read", "reader_read")
        /\ stateLock' = Acquire(stateLock, q)
        /\ readerLock' = Await(readerLock, q, "read")
        /\ UNCHANGED answer
     \/ /\ table = {}
        /\ Goto(q, "state_read", "done")
        /\ answer' = [answer EXCEPT ![q] = "not_found"]
        /\ stateLock' = Release(Acquire(stateLock, q), q)
        /\ UNCHANGED readerLock
  /\ UNCHANGED <<disk, server, locals, history>>

(* filter_segments: the mask is built in the layout of one segment.  With  *)
(* segments of two, whether the row's segment is kept is left open.        *)
KeptBy(m, x) == {b \in BOOLEAN : Uniform(m.layouts) => b = (x \in m.bits)}

Prune(q) ==
  /\ Granted(readerLock, q)
  /\ Goto(q, "reader_read", "scan")
  /\ readerLock' = Acquire(readerLock, q)
  /\ \E b \in KeptBy(cache, Target[q]) : kept' = [kept EXCEPT ![q] = b]
  /\ UNCHANGED <<disk, server, stateLock, creating, handle, replaying, mem,
                 spill, seen, answer, history>>

(* read_and_filter, on the data file as it is now.  A load that is writing *)
(* it may have written the row already, and may have stopped inside a      *)
(* character, which fails the query.                                       *)
Spilling == {l \in Loads : pc[l] = "spill"}

Results(q) ==
  IF ~kept[q] THEN {"empty"}
  ELSE {IF copies[Target[q]] > 0 THEN "ok" ELSE "empty"}
       \cup {"ok" : l \in {k \in Spilling : Target[q] \in unwritten[k]}}
       \cup {"error" : f \in {"ruined"} \cap {file}}
       \cup {"error" : l \in Spilling}

Scan(q) ==
  /\ \E result \in Results(q) : Reply(q, "scan", result)
  /\ UNCHANGED <<disk, server, locals, history>>

-----------------------------------------------------------------------------
(* POST /load: which table, and under which lock. *)

LookupForLoad(r) ==
  /\ Granted(stateLock, r)
  /\ \/ /\ table # {}
        /\ Goto(r, "state_read", "open")
        /\ stateLock' = Acquire(stateLock, r)
     \/ /\ table = {}
        /\ Goto(r, "state_read", "state_write")
        /\ stateLock' = Upgrade(r)
  /\ UNCHANGED <<disk, server, readerLock, locals, answer, history>>

(* The double check under the write lock; a table that is still missing is *)
(* created: its directory is, and the metadata there is loaded.            *)
CreateTable(r) ==
  /\ Granted(stateLock, r)
  /\ \/ /\ table # {}
        /\ Goto(r, "state_write", "open")
        /\ stateLock' = Acquire(stateLock, r)
        /\ UNCHANGED <<dir, cache, creating, answer>>
     \/ /\ table = {}
        /\ ~meta.torn
        /\ dir' = TRUE
        /\ Goto(r, "state_write", "open")
        /\ stateLock' = Acquire(stateLock, r)
        /\ cache' = meta
        /\ creating' = [creating EXCEPT ![r] = TRUE]
        /\ UNCHANGED answer
     \/ /\ table = {}
        /\ meta.torn
        /\ dir' = TRUE
        /\ Goto(r, "state_write", "done")
        /\ answer' = [answer EXCEPT ![r] = "error"]
        /\ stateLock' = Release(Acquire(stateLock, r), r)
        /\ UNCHANGED <<cache, creating>>
  /\ UNCHANGED <<file, copies, meta, logs, path, up, table, flight, readerLock,
                 handle, replaying, mem, spill, seen, kept, history>>

-----------------------------------------------------------------------------
(* TableState::load_csv: StrataWriter::new, write_row, flush_all. *)

(* The configuration of a request is used when it creates the table;       *)
(* otherwise its rows are written in the layout the table has.             *)
Panics(r)    == r \in Unroutable /\ creating[r]
LayoutsOf(r) == {Config[c] : c \in IF creating[r] THEN {r} ELSE table}

OpenWriter(r) ==
  /\ \/ /\ Log # {}
        /\ ~Panics(r)
        /\ Goto(r, "open", "data")
        /\ replaying' = [replaying EXCEPT ![r] = TRUE]
        /\ mem' = [mem EXCEPT ![r] = Log]
     \/ /\ Log = {}
        /\ Goto(r, "open", "log")
        /\ UNCHANGED <<replaying, mem>>
  /\ UNCHANGED <<disk, server, locks, creating, handle, spill, seen, kept, answer,
                 history>>

OpenLog(r) ==
  /\ Goto(r, "log", "append")
  /\ path' = IF path = NoFile THEN r ELSE path
  /\ handle' = [handle EXCEPT ![r] = path']
  /\ UNCHANGED <<dir, file, copies, meta, logs, server, locks, creating, replaying,
                 mem, spill, seen, kept, answer, history>>

AppendRow(r, x) ==
  /\ Goto(r, "append", "append")
  /\ ~Panics(r)
  /\ x \in LoadRows[r] \ mem[r]
  /\ logs' = [logs EXCEPT ![handle[r]] = @ \cup {x}]
  /\ mem' = [mem EXCEPT ![r] = @ \cup {x}]
  /\ UNCHANGED <<dir, file, copies, meta, path, server, locks, creating, handle,
                 replaying, spill, seen, kept, answer, history>>

(* Routing a row into no bucket panics: the first row of the CSV, which is *)
(* in the log by then, or the first one replayed.  The task unwinds.       *)
RoutingPanics(r) ==
  /\ Panics(r)
  /\ \/ Reply(r, "open", "dropped") /\ Log # {} /\ UNCHANGED logs
     \/ /\ Reply(r, "append", "dropped")
        /\ \E x \in LoadRows[r] : logs' = [logs EXCEPT ![handle[r]] = @ \cup {x}]
  /\ UNCHANGED <<dir, file, copies, meta, path, server, locals, history>>

(* csv_reader meets the malformed record: the writer is dropped. *)
BadRecord(r) ==
  /\ r \in Malformed
  /\ mem[r] = LoadRows[r]
  /\ Reply(r, "append", "bad_request")
  /\ mem' = [mem EXCEPT ![r] = {}]
  /\ UNCHANGED <<disk, server, creating, handle, replaying, spill, seen, kept,
                 history>>

FlushAll_Skipped(r) ==  \* bug: the reader is refreshed without flush_all
  /\ mem[r] = LoadRows[r]
  /\ Goto(r, "append", "refresh")
  /\ UNCHANGED <<disk, server, locks, locals, answer, history>>

FlushAll(r) ==
  /\ r \notin Malformed
  /\ mem[r] = LoadRows[r]
  /\ Goto(r, "append", IF mem[r] = {} THEN "remove" ELSE "data")
  /\ UNCHANGED <<disk, server, locks, locals, answer, history>>

(* write_data_csv looks for the file and opens it, which creates it. *)
OpenData(r) ==
  /\ Goto(r, "data", "spill")
  /\ fresh' = [fresh EXCEPT ![r] = file = "absent"]
  /\ file' = IF file = "absent" THEN "bare" ELSE file
  /\ unwritten' = [unwritten EXCEPT ![r] = mem[r]]
  /\ damaged' = damaged \cup {"data" : l \in Spilling}
  /\ layouts' = layouts \cup LayoutsOf(r)
  /\ UNCHANGED <<dir, copies, meta, logs, path, server, locks, creating, handle,
                 replaying, mem, seen, kept, answer, expected, dropped, crashes>>

(* The csv writer's buffer reaches the file in chunks, as in StrataWriter. *)
(* Those of another load may come between any two, inside a record too.    *)
Added(more) == [x \in Rows |-> IF x \in more THEN copies[x] + 1 ELSE copies[x]]
NoCopies    == [x \in Rows |-> 0]

SpillAlone(r, chunk) ==
  \/ /\ file = "whole" \/ (file = "bare" /\ fresh[r])
     /\ file' = "whole"
     /\ copies' = Added(chunk)
  \/ /\ file = "cut"
     /\ file' \in {"whole", "cut"}
     /\ \E lost \in (SUBSET chunk) \ {{}} : copies' = Added(chunk \ lost)
  \/ /\ file = "ruined" \/ (file = "bare" /\ ~fresh[r])
     /\ file' = "ruined"
     /\ UNCHANGED copies

SpillAmong(chunk) ==
  \/ /\ file # "ruined"
     /\ file' \in {"whole", "cut"}
     /\ \E lost \in SUBSET chunk : copies' = Added(chunk \ lost)
  \/ /\ file' = "ruined"
     /\ copies' = NoCopies

Spill(r, chunk) ==
  /\ Goto(r, "spill", IF unwritten[r] = chunk THEN "meta" ELSE "spill")
  /\ chunk # {}
  /\ \/ Spilling = {r} /\ SpillAlone(r, chunk)
     \/ Spilling # {r} /\ SpillAmong(chunk)
  /\ fresh' = [fresh EXCEPT ![r] = FALSE]
  /\ unwritten' = [unwritten EXCEPT ![r] = @ \ chunk]
  /\ UNCHANGED <<dir, meta, logs, path, server, locks, creating, handle, replaying,
                 mem, seen, kept, answer, history>>

(* write_metadata_json reads the file ... *)
ReadMeta(r) ==
  /\ ~meta.torn
  /\ Goto(r, "meta", "truncate")
  /\ seen' = [seen EXCEPT ![r] = Merged(meta, mem[r], LayoutsOf(r))]
  /\ UNCHANGED <<disk, server, locks, creating, handle, replaying, mem, spill,
                 kept, answer, history>>

(* ... or cannot parse what another writer has half written ... *)
ReadMetaFails(r) ==
  /\ meta.torn
  /\ Reply(r, "meta", "error")
  /\ mem' = [mem EXCEPT ![r] = {}]
  /\ UNCHANGED <<disk, server, creating, handle, replaying, spill, seen, kept,
                 history>>

(* ... truncates it ... *)
Writing(r) == {l \in Loads \ {r} : pc[l] = "json"}

TruncateMeta(r) ==
  /\ Goto(r, "truncate", "json")
  /\ meta' = Truncated
  /\ damaged' = damaged \cup {"meta" : l \in Writing(r)}
  /\ UNCHANGED <<dir, file, copies, logs, path, server, locks, locals, answer,
                 expected, dropped, layouts, crashes>>

(* ... and writes it.  Two writers at once may leave the text of either, a *)
(* text that is no JSON, or the bits of one and the count of the other.    *)
Mixtures(a, b) == {[a EXCEPT !.bits = b.bits], [b EXCEPT !.bits = a.bits]}

Texts(r) ==
  LET others == {seen[l] : l \in Writing(r)} \cup ({meta} \ {Truncated})
  IN  {seen[r]} \cup {[o EXCEPT !.torn = TRUE] : o \in others}
                \cup UNION {Mixtures(seen[r], o) : o \in others}

WriteMeta(r) ==
  /\ Goto(r, "json", IF replaying[r] THEN "log" ELSE "remove")
  /\ meta' \in Texts(r)
  /\ mem' = [mem EXCEPT ![r] = {}]
  /\ replaying' = [replaying EXCEPT ![r] = FALSE]
  /\ UNCHANGED <<dir, file, copies, logs, path, server, locks, creating, handle,
                 spill, seen, kept, answer, history>>

(* WalWriter::truncate removes whatever file is wal.log by then. *)
RemoveLog(r) ==
  /\ Goto(r, "remove", "refresh")
  /\ path' = NoFile
  /\ UNCHANGED <<dir, file, copies, meta, logs, server, locks, locals, answer, history>>

-----------------------------------------------------------------------------
(* TableState::load_csv: the cached reader is refreshed. *)

LoadSegments(r) ==
  /\ ~meta.torn
  /\ Goto(r, "refresh", "reader_write")
  /\ seen' = [seen EXCEPT ![r] = meta]
  /\ readerLock' = Await(readerLock, r, "write")
  /\ UNCHANGED <<disk, server, stateLock, creating, handle, replaying, mem, spill,
                 kept, answer, history>>

LoadSegmentsFails(r) ==
  /\ meta.torn
  /\ Reply(r, "refresh", "error")
  /\ UNCHANGED <<disk, server, locals, history>>

(* The write lock is held for the assignment only; then get_stats waits    *)
(* for a read lock.                                                        *)
InstallReader(r) ==
  /\ Granted(readerLock, r)
  /\ Goto(r, "reader_write", "stats")
  /\ cache' = seen[r]
  /\ readerLock' = Await(Release(Acquire(readerLock, r), r), r, "read")
  /\ UNCHANGED <<disk, up, table, flight, stateLock, locals, answer, history>>

FinishLoad(r) ==
  /\ Granted(readerLock, r)
  /\ Goto(r, "stats", "done")
  /\ answer' = [answer EXCEPT ![r] = "ok"]
  /\ readerLock' = Release(Acquire(readerLock, r), r)
  /\ stateLock' = Release(stateLock, r)
  /\ table' = IF creating[r] THEN {r} ELSE table
  /\ UNCHANGED <<disk, up, cache, flight, locals, history>>

-----------------------------------------------------------------------------
(* The client closes the connection while the handler waits for a lock:    *)
(* the task is dropped there, with its guards and its place in the queue.  *)
Disconnect(r) ==
  /\ r \in Impatient
  /\ pc[r] \in {"state_read", "state_write", "reader_read", "reader_write", "stats"}
  /\ pc' = [pc EXCEPT ![r] = "done"]
  /\ answer' = [answer EXCEPT ![r] = "dropped"]
  /\ stateLock' = Leave(stateLock, r)
  /\ readerLock' = Leave(readerLock, r)
  /\ UNCHANGED <<disk, server, locals, history>>

(* The process is killed: what is left is the directory, and a data file   *)
(* that was being written is cut at any byte.                              *)
LeaveBehind ==
  \/ /\ Spilling = {}
     /\ UNCHANGED <<file, copies, damaged>>
  \/ /\ Spilling # {}
     /\ \/ file' = file
        \/ /\ file = "whole" \/ \E l \in Spilling : fresh[l] /\ file = "bare"
           /\ file' \in {"whole", "cut"}
        \/ file' = "ruined"
     /\ copies' = IF file' = "ruined" THEN NoCopies ELSE copies
     /\ damaged' = damaged \cup {"data"}

Crash ==
  /\ up
  /\ crashes < MaxCrashes
  /\ crashes' = crashes + 1
  /\ up' = FALSE
  /\ table' = {}
  /\ cache' = NoMeta
  /\ stateLock' = Free
  /\ readerLock' = Free
  /\ dropped' = dropped \cup {r \in Loads : pc[r] \notin {"new", "done"}}
  /\ pc' = [r \in Requests |->
              IF pc[r] = "new" \/ r \in Flights THEN pc[r] ELSE "done"]
  /\ LeaveBehind
  /\ mem' = [r \in Loads |-> {}]
  /\ fresh' = [r \in Loads |-> FALSE]
  /\ unwritten' = [r \in Loads |-> {}]
  /\ UNCHANGED <<dir, meta, logs, path, flight, creating, handle, replaying, seen,
                 kept, answer, expected, layouts>>

(* run_server: a directory whose metadata loads becomes a table again,     *)
(* with the default configuration, whatever its segments were written in.  *)
(* Nothing looks at its wal.log.                                           *)
Restart ==
  /\ ~up
  /\ up' = TRUE
  /\ \/ /\ dir
        /\ ~meta.torn
        /\ table' = {Startup}
        /\ cache' = meta
     \/ /\ ~dir \/ meta.torn
        /\ UNCHANGED <<table, cache>>
  /\ UNCHANGED <<disk, flight, locks, pc, locals, answer, history>>

-----------------------------------------------------------------------------
(* The Flight SQL server, a process of its own that reads the directory.   *)

(* main: it lists the tables whose metadata loads, once and for all. *)
StartFlight ==
  /\ flight = "down"
  /\ flight' = IF dir /\ ~meta.torn THEN "listed" ELSE "unlisted"
  /\ UNCHANGED <<disk, up, table, cache, locks, pc, locals, answer, history>>

(* do_get_fallback: nobody ever waits for the lock on the list. *)
SubmitFlight(f) ==
  /\ \/ /\ flight = "listed"
        /\ Goto(f, "new", "flight_segments")
        /\ expected' = IF Loaded(f) THEN expected \cup {f} ELSE expected
        /\ UNCHANGED answer
     \/ /\ flight = "unlisted"
        /\ Goto(f, "new", "done")
        /\ answer' = [answer EXCEPT ![f] = "not_found"]
        /\ UNCHANGED expected
  /\ UNCHANGED <<disk, server, locks, locals, dropped, damaged, layouts, crashes>>

(* execute_query: every query loads the metadata ... *)
FlightSegments(f) ==
  /\ ~meta.torn
  /\ Goto(f, "flight_segments", "flight_scan")
  /\ \E b \in KeptBy(meta, Target[f]) : kept' = [kept EXCEPT ![f] = b]
  /\ UNCHANGED <<disk, server, locks, creating, handle, replaying, mem, spill,
                 seen, answer, history>>

FlightSegmentsFails(f) ==
  /\ meta.torn
  /\ Goto(f, "flight_segments", "done")
  /\ answer' = [answer EXCEPT ![f] = "error"]
  /\ UNCHANGED <<disk, server, locks, locals, history>>

(* ... and then reads the data file. *)
FlightScan(f) ==
  /\ Goto(f, "flight_scan", "done")
  /\ \E result \in Results(f) : answer' = [answer EXCEPT ![f] = result]
  /\ UNCHANGED <<disk, server, locks, locals, history>>

-----------------------------------------------------------------------------
FlightStep(f) == FlightSegments(f) \/ FlightSegmentsFails(f) \/ FlightScan(f)

QueryStep(q) == LookupForQuery(q) \/ Prune(q) \/ Scan(q)

LoadStep(r) ==
  \/ LookupForLoad(r)
  \/ CreateTable(r)
  \/ OpenWriter(r)
  \/ OpenLog(r)
  \/ \E x \in Rows : AppendRow(r, x)
  \/ RoutingPanics(r)
  \/ BadRecord(r)
  \/ FlushAll(r)
  \/ OpenData(r)
  \/ \E chunk \in SUBSET unwritten[r] : Spill(r, chunk)
  \/ ReadMeta(r)
  \/ ReadMetaFails(r)
  \/ TruncateMeta(r)
  \/ WriteMeta(r)
  \/ RemoveLog(r)
  \/ LoadSegments(r)
  \/ LoadSegmentsFails(r)
  \/ InstallReader(r)
  \/ FinishLoad(r)

Next ==
  \/ \E r \in Loads \cup Queries : Submit(r)
  \/ \E q \in Queries : QueryStep(q)
  \/ \E r \in Loads : LoadStep(r)
  \/ \E r \in Requests : Disconnect(r)
  \/ Crash
  \/ Restart
  \/ StartFlight
  \/ \E f \in Flights : SubmitFlight(f) \/ FlightStep(f)

Spec == Init /\ [][Next]_vars

(* Every task the runtime has started is polled again when it can go on. *)
FairSpec ==
  /\ Spec
  /\ \A q \in Queries : WF_vars(QueryStep(q))
  /\ \A r \in Loads : WF_vars(LoadStep(r))
  /\ \A f \in Flights : WF_vars(FlightStep(f))

-----------------------------------------------------------------------------
(***************************************************************************)
(* Properties.                                                             *)
(***************************************************************************)
Places ==
  {"new", "state_read", "state_write", "reader_read", "scan", "open", "log",
   "append", "data", "spill", "meta", "truncate", "json", "remove", "refresh",
   "reader_write", "stats", "flight_segments", "flight_scan", "done"}

Configs == {Config[c] : c \in Loads \cup {Startup}}
Metas   == [torn : BOOLEAN, bits : SUBSET Rows, row_count : Nat,
            layouts : SUBSET Configs]

(* The state has the types of the code's fields, files and locals. *)
TypeOK ==
  /\ dir \in BOOLEAN
  /\ file \in {"absent", "bare", "whole", "cut", "ruined"}
  /\ copies \in [Rows -> Nat]
  /\ meta \in Metas
  /\ logs \in [Loads -> SUBSET Rows]
  /\ path \in Loads \cup {NoFile}
  /\ up \in BOOLEAN
  /\ table \in {{}} \cup {{c} : c \in Loads \cup {Startup}}
  /\ cache \in Metas
  /\ flight \in {"down", "listed", "unlisted"}
  /\ pc \in [Requests -> Places]
  /\ creating \in [Loads -> BOOLEAN]
  /\ handle \in [Loads -> Loads \cup {NoFile}]
  /\ replaying \in [Loads -> BOOLEAN]
  /\ mem \in [Loads -> SUBSET Rows]
  /\ fresh \in [Loads -> BOOLEAN]
  /\ unwritten \in [Loads -> SUBSET Rows]
  /\ seen \in [Loads -> Metas]
  /\ kept \in [Readers -> BOOLEAN]
  /\ answer \in [Requests -> {"none", "ok", "empty", "not_found",
                              "bad_request", "error", "dropped"}]
  /\ expected \subseteq Readers
  /\ dropped \subseteq Loads
  /\ damaged \subseteq {"data", "meta"}
  /\ layouts \subseteq Configs
  /\ crashes \in 0 .. MaxCrashes

Stored == {x \in Rows : copies[x] > 0}
Copies == UNION {{x} \X (1 .. copies[x]) : x \in Rows}

(* Read your writes: a query sent after a load of its row was answered     *)
(* with 200 is not told that there is no such row, also when other loads   *)
(* run, fail or are cut off at the same time, and whichever server it is   *)
(* sent to.  What may take the row away is a crash that cuts the data file *)
(* or two loads writing one file at the same moment, and rows written in   *)
(* another layout, after a restart; and only a crash makes the HTTP        *)
(* server's table unreachable, when it leaves metadata torn.               *)
ReadYourWrites ==
  \A q \in expected :
    /\ answer[q] = "empty" => damaged # {} \/ ~Uniform(layouts)
    /\ answer[q] = "not_found" => crashes > 0

(* What a query with one layout finds in the data file. *)
Visible == {x \in Stored \cap cache.bits : Uniform(cache.layouts)}

(* Nothing goes back: while no two loads run at once, a row that one query *)
(* can find, later queries can find, until the process dies or segments of *)
(* another layout come in; and counts only grow.  So it is also when       *)
(* clients give up, loads fail, and an earlier crash has cut the file.     *)
VisibleStays ==
  [][up /\ up' => /\ Visible \subseteq Visible' \/ ~Uniform(cache'.layouts)
                  /\ cache.row_count <= cache'.row_count]_vars

(* The cached metadata never claims a row, or a number of rows, that the   *)
(* data file does not have, however loads interleave: metadata-only        *)
(* answers may lag behind but never run ahead.  Two loads that write the   *)
(* same file at the same moment, or a crash in the middle of a data file,  *)
(* are beyond what the code protects.                                      *)
CacheNeverAhead ==
  damaged = {} =>
    /\ cache.bits \subseteq Stored
    /\ cache.row_count <= Cardinality(Copies)

(* A load is answered with 200 only when all its rows are in the data file *)
(* and, unless the server was restarted since, its table is in the map.    *)
(* The rows stay there if no two loads write the data file at the same     *)
(* moment and no crash cuts it.                                            *)
AnsweredLoadsStored ==
  \A r \in Loads \cap Answered :
    /\ "data" \notin damaged => LoadRows[r] \subseteq Stored
    /\ crashes = 0 => table # {}

(* While a load creates the table, no other request is past the look-up:   *)
(* the double check under the write lock of the map makes it the only one, *)
(* so a TableState is never replaced by another.                           *)
CreatorRunsAlone ==
  \A r \in Loads :
    creating[r] /\ pc[r] # "done" =>
      /\ table = {}
      /\ \A o \in (Loads \cup Queries) \ {r} :
           pc[o] \in {"new", "state_read", "state_write", "done"}

(* Every request is answered: no order of look-ups, creations, refreshes   *)
(* and closed connections leaves a request waiting for a lock forever.     *)
(* There are finitely many requests, each sent once at most: so all that   *)
(* are ever sent are done in the end.                                      *)
AllAnswered == <>[](\A r \in Requests : pc[r] \in {"new", "done"})

=============================================================================

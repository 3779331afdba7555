------------------------------ MODULE CsvFile ------------------------------
(***************************************************************************)
(* One CSV data file, from the rows a builder flushes (write_data_csv) to  *)
(* the rows a query reads (read_csv_file), through crashes and replays.    *)
(*                                                                         *)
(* Text is a sequence of tokens.  A cell that is not empty is two tokens,  *)
(* so that the csv writer's buffer, which spills into the file at any      *)
(* byte, can be cut inside a cell as well as around it.  A cut inside a    *)
(* character of several bytes leaves a record that is not UTF-8, which the *)
(* reader refuses; a cut elsewhere leaves other text.  Cells that need     *)
(* quotes are left out.                                                    *)
(***************************************************************************)
EXTENDS Naturals, SequencesExt

CONSTANTS
  Columns,    \* column names in sorted order
  Values,     \* cell values
  Empty,      \* the empty string
  Wide,       \* values and names whose two halves share one character
  Junk,       \* any text that is no cell somebody wrote
  Garbled,    \* a cell that is not UTF-8
  Batches,    \* what builders flush: sequences of rows
  MaxFlushes  \* bound: calls of write_data_csv

RowSpace == UNION {[C -> Values] : C \in SUBSET Range(Columns)}

ASSUME CellAssumption ==
  /\ Columns \in Seq(Range(Columns))
  /\ Empty \in Values
  /\ Wide \subseteq (Values \cup Range(Columns)) \ {Empty}
  /\ {Junk, Garbled} \cap (Values \cup Range(Columns)) = {}
  /\ Empty \notin Range(Columns)
ASSUME BatchAssumption ==  \* a row has three dimensions
  /\ MaxFlushes \in Nat
  /\ Batches \subseteq Seq(RowSpace) \ {<< >>}
  /\ \A b \in Batches : \A i \in DOMAIN b : Cardinality(DOMAIN b[i]) > 1

VARIABLES
  exists,   \* the data file exists
  text,     \* its contents
  mode,     \* "idle", in "write_data_csv", or "down": no writer
  rows,     \* the rows being flushed
  buffer,   \* their text that is not in the file yet
  logged,   \* the rows in wal.log
  (* history *)
  written,  \* rows whose flush returned Ok, each with its batch's header
  header,   \* the header of the batch that created the file
  cuts,     \* flushes that were interrupted
  flushes

vars == <<exists, text, mode, rows, buffer, logged, written, header, cuts, flushes>>

Comma   == <<",", 0>>
Newline == <<"newline", 0>>

-----------------------------------------------------------------------------
(* The csv writer. *)

CellText(v) == IF v = Empty THEN << >> ELSE <<<<v, 1>>, <<v, 2>>>>

write_record(cells) ==
  FlattenSeq([i \in DOMAIN cells |->
    CellText(cells[i]) \o (IF i < Len(cells) THEN <<Comma>> ELSE <<Newline>>)])

(* What a sequence has at some positions, in its order. *)
Kept(s, positions) ==
  LET kept[n \in 0 .. Len(s)] ==
        IF n = 0 THEN << >>
        ELSE IF n \in positions THEN Append(kept[n - 1], s[n])
        ELSE kept[n - 1]
  IN kept[Len(s)]

Heading(names) == Kept(Columns, {i \in DOMAIN Columns : Columns[i] \in names})

(* The header of a batch: the columns of its first row. *)
headers(batch) == Heading(DOMAIN Head(batch))

(* The cells of a row under a header: a missing one is empty, and a column *)
(* that is not in the header is left out.                                  *)
values(row, hs) ==
  [i \in DOMAIN hs |-> IF hs[i] \in DOMAIN row THEN row[hs[i]] ELSE Empty]

HeaderText_Always(batch) ==  \* bug: every batch writes its header
  write_record(headers(batch))
HeaderText(batch) ==
  IF exists THEN << >> ELSE write_record(headers(batch))

BatchText(batch) ==
  HeaderText(batch) \o
    FlattenSeq([i \in DOMAIN batch |-> write_record(values(batch[i], headers(batch)))])

-----------------------------------------------------------------------------
(* The csv reader. *)

(* A character of several bytes is not followed by its second half. *)
Torn(tokens) ==
  \E i \in DOMAIN tokens :
    /\ tokens[i][1] \in Wide /\ tokens[i][2] = 1
    /\ i = Len(tokens) \/ tokens[i + 1] # <<tokens[i][1], 2>>

CellValue(tokens) ==
  IF tokens = << >> THEN Empty
  ELSE IF Len(tokens) = 2 /\ tokens = CellText(tokens[1][1]) THEN tokens[1][1]
  ELSE IF Torn(tokens) THEN Garbled
  ELSE Junk

(* The pieces of a text between the occurrences of a separator. *)
Split(t, separator) ==
  LET pieces[n \in 0 .. Len(t)] ==
        IF n = 0 THEN << << >> >>
        ELSE LET before == pieces[n - 1] IN
          IF t[n] = separator THEN Append(before, << >>)
          ELSE Append(Front(before), Append(Last(before), t[n]))
  IN pieces[Len(t)]

RecordOf(line) ==
  LET cells == Split(line, Comma) IN [j \in DOMAIN cells |-> CellValue(cells[j])]

(* The records of lines; blank lines are skipped. *)
RecordsOf(lines) ==
  LET full == Kept(lines, {i \in DOMAIN lines : lines[i] # << >>})
  IN [i \in DOMAIN full |-> RecordOf(full[i])]

(* All records, and those that end in a newline: the last line of a file   *)
(* is read whether it ends or not.                                         *)
Records(t)         == RecordsOf(Split(t, Newline))
CompleteRecords(t) == RecordsOf(Front(Split(t, Newline)))

(* flexible(true): cells beyond the header are dropped, and a short record *)
(* gives a row without the last columns.                                   *)
RecordRow(hs, cells) ==
  LET both == DOMAIN hs \cap DOMAIN cells IN
  [c \in {hs[i] : i \in both} |-> cells[Max({i \in both : hs[i] = c})]]

RowsUnder(records) ==
  IF records = << >> THEN << >>
  ELSE [i \in 1 .. Len(records) - 1 |-> RecordRow(records[1], records[i + 1])]

(* A header or a record that is not UTF-8 fails the whole read. *)
Fails(records) == \E record \in Range(records) : Garbled \in Range(record)

ReadFails == Fails(Records(text))

(* The rows it returns: none when it fails. *)
read_csv_file == IF ReadFails THEN << >> ELSE RowsUnder(Records(text))

CompleteRows(t) == RowsUnder(CompleteRecords(t))

-----------------------------------------------------------------------------
Init ==
  /\ exists = FALSE
  /\ text = << >>
  /\ mode = "idle"
  /\ rows = << >>
  /\ buffer = << >>
  /\ logged = << >>
  /\ written = << >>
  /\ header = << >>
  /\ cuts = 0
  /\ flushes = 0

(* write_data_csv looks for the file, opens it for appending, which        *)
(* creates it, and hands header and rows to the csv writer.                *)
StartFlush_Truncates(batch) ==  \* bug: opened for writing from the start
  /\ flushes < MaxFlushes
  /\ flushes' = flushes + 1
  /\ exists' = TRUE
  /\ mode' = "write_data_csv"
  /\ rows' = batch
  /\ buffer' = BatchText(batch)
  /\ text' = << >>
  /\ header' = IF exists THEN header ELSE headers(batch)
  /\ UNCHANGED <<written, cuts>>
StartFlush(batch) ==
  /\ flushes < MaxFlushes
  /\ flushes' = flushes + 1
  /\ exists' = TRUE
  /\ mode' = "write_data_csv"
  /\ rows' = batch
  /\ buffer' = BatchText(batch)
  /\ header' = IF exists THEN header ELSE headers(batch)
  /\ UNCHANGED <<text, written, cuts>>

(* A builder of rows that write_row has logged is flushed. *)
Flush(batch) ==
  /\ mode = "idle"
  /\ StartFlush(batch)
  /\ logged' = logged \o batch

(* StrataWriter::new: the rows in the log are flushed again. *)
Replay ==
  /\ mode = "down"
  /\ \/ /\ logged # << >>
        /\ StartFlush(logged)
     \/ /\ logged = << >>
        /\ mode' = "idle"
        /\ UNCHANGED <<exists, text, rows, buffer, written, header, cuts, flushes>>
  /\ UNCHANGED logged

(* n more tokens reach the file. *)
Spill(n) ==
  /\ mode = "write_data_csv"
  /\ n <= Len(buffer)
  /\ text' = text \o SubSeq(buffer, 1, n)
  /\ buffer' = SubSeq(buffer, n + 1, Len(buffer))
  /\ UNCHANGED <<exists, mode, rows, logged, written, header, cuts, flushes>>

FinishFlush_Early ==  \* bug: the csv writer is not flushed
  /\ mode = "write_data_csv"
  /\ mode' = "idle"
  /\ rows' = << >>
  /\ written' = written \o
       [i \in DOMAIN rows |-> [row |-> rows[i], hs |-> headers(rows)]]
  /\ UNCHANGED <<exists, text, buffer, logged, header, cuts, flushes>>
FinishFlush ==
  /\ mode = "write_data_csv"
  /\ buffer = << >>
  /\ mode' = "idle"
  /\ rows' = << >>
  /\ written' = written \o
       [i \in DOMAIN rows |-> [row |-> rows[i], hs |-> headers(rows)]]
  /\ UNCHANGED <<exists, text, buffer, logged, header, cuts, flushes>>

(* The last builder of flush_all is written: the log is removed. *)
DropLog ==
  /\ mode = "idle"
  /\ logged # << >>
  /\ logged' = << >>
  /\ UNCHANGED <<exists, text, mode, rows, buffer, written, header, cuts, flushes>>

(* The process dies, or an error is returned and the writer dropped. *)
Interrupt ==
  /\ mode # "down"
  /\ mode' = "down"
  /\ rows' = << >>
  /\ buffer' = << >>
  /\ cuts' = IF mode = "write_data_csv" THEN cuts + 1 ELSE cuts
  /\ UNCHANGED <<exists, text, logged, written, header, flushes>>

Next ==
  \/ \E batch \in Batches : Flush(batch)
  \/ Replay
  \/ \E n \in 1 .. Len(buffer) : Spill(n)
  \/ FinishFlush
  \/ DropLog
  \/ Interrupt

Spec == Init /\ [][Next]_vars

-----------------------------------------------------------------------------
(* Properties. *)

Tokens  == {Comma, Newline} \cup ((Values \cup Range(Columns)) \X {1, 2})
Headers == {Heading(names) : names \in SUBSET Range(Columns)}
Entries == [row : RowSpace, hs : Headers]

(* The state has the types of the file and of the flush in progress. *)
TypeOK ==
  /\ exists \in BOOLEAN
  /\ text \in Seq(Tokens) /\ buffer \in Seq(Tokens)
  /\ mode \in {"idle", "write_data_csv", "down"}
  /\ rows \in Seq(RowSpace) /\ logged \in Seq(RowSpace)
  /\ written \in Seq(Entries)
  /\ header \in Headers
  /\ cuts \in 0 .. flushes /\ flushes \in 0 .. MaxFlushes
  /\ mode # "write_data_csv" => rows = << >> /\ buffer = << >>

(* What reading should make of a row. *)
AsStored(entry) ==
  [c \in Range(entry.hs) |-> IF c \in DOMAIN entry.row THEN entry.row[c] ELSE Empty]

(* Rows flushed so far, then those being flushed. *)
InOrder ==
  written \o [i \in DOMAIN rows |-> [row |-> rows[i], hs |-> headers(rows)]]

(* While no flush has been interrupted, a query that does not fail reads   *)
(* every row of a batch with the file's columns as it was written, in      *)
(* order, but for a last row that is still being spilled; between flushes  *)
(* no query fails, and it reads them all.  Batches with other columns are  *)
(* read shifted or cut, and do not disturb the others.                     *)
ReadsExact ==
  cuts = 0 =>
    /\ \A i \in DOMAIN read_csv_file :
         /\ i <= Len(InOrder)
         /\ (i + 1 \in DOMAIN CompleteRecords(text) /\ InOrder[i].hs = header)
              => read_csv_file[i] = AsStored(InOrder[i])
    /\ mode # "write_data_csv" => ~ReadFails /\ Len(read_csv_file) = Len(written)

(* The header reached the file whole. *)
HeaderWhole == Records(text) # << >> /\ Records(text)[1] = header

(* A crash or an error in a flush damages at most one row that was flushed *)
(* successfully, before or after it: the row appended to the cut record.   *)
(* This needs the header to be whole, rows of the file's columns, and no   *)
(* record cut inside a character: that fails the read of every row.        *)
DamageBounded ==
  HeaderWhole /\ ~ReadFails =>
    Cardinality({w \in Range(written) :
                   w.hs = header /\ AsStored(w) \notin Range(read_csv_file)})
      <= cuts

(* What a query has read from complete records, every later query that     *)
(* does not fail reads again, in the same order: whatever is flushed,      *)
(* interrupted and replayed.  But a complete record that fails the read    *)
(* fails every later one: the rows of the file do not come back.           *)
ReadsOnlyGrow ==
  [][/\ IsPrefix(CompleteRows(text), CompleteRows(text'))
     /\ Fails(CompleteRecords(text)) => Fails(Records(text'))]_vars

(* wal.rs: "the WAL is replayed on next startup to recover in-flight       *)
(* rows".  Once the log has been removed, the rows it had are read back.   *)
ReplayRecovers ==
  mode = "idle" /\ logged = << >> =>
    \A w \in Range(written) :
      w.hs = header => AsStored(w) \in Range(read_csv_file)

=============================================================================

------------------------------ MODULE LsmTree ------------------------------
(***************************************************************************)
(* The write path of a KronosDB instance between open() on an empty        *)
(* directory and the end of close(): append() and remove() into the active *)
(* memtable, rotation to the immutable memtables, flush to L0 SSTables,    *)
(* compaction of L0 into L1, close().  Source: src/src/db/db.cpp and       *)
(* src/src/db/compaction.cpp.                                              *)
(*                                                                         *)
(* A stored record is represented by its version, the position of its      *)
(* insertion in `history' (a variable no action reads except to number the *)
(* next insertion): a table maps a key to the version it holds, 0 for      *)
(* none.  Versions never decide what a step does; they only let the        *)
(* properties say which of two records for a key is the newer.             *)
(*                                                                         *)
(* One action is one critical section or one call whose intermediate       *)
(* states no other thread can see.  Waiting on a condition variable is     *)
(* waiting with a timeout in every place the code waits, so a waiting      *)
(* thread may always wake and a notification changes nothing here.         *)
(***************************************************************************)
EXTENDS Integers, Sequences, FiniteSets

CONSTANTS
    Symbols,        \* names of instruments
    Writers,        \* threads that call append() and remove()
    Flushers,       \* the flush thread, and the threads that call flush_now()
    Compactors,     \* the compaction thread, and those that call compact_now()
    Background,     \* the two threads DB::open starts, if it starts them
    Closer,         \* the thread that calls close()
    NoEvent,        \* the record of a writer that is not in a call
    WalEnabled,     \* cfg_.wal_enabled
    DiskFaults,     \* files may fail to be written, read or removed
    QuiescentClose, \* the program calls close() when no write is in progress
    BlindRemove,    \* remove() may be called for an event not yet inserted
    FlushAt,        \* insertions that fill a memtable
    Trigger,        \* Compaction::kL0CompactionTrigger
    MaxOutputs      \* files one compaction may split its output into

\* Bounds of the instance, in guards only.
CONSTANTS
    MaxSeq,         \* sequence ids append() may hand out
    MaxWrites,      \* records inserted or being written
    MaxSst          \* numbers next_sstable_seq() may hand out

Drainers == Flushers \cup {Closer}

ASSUME ThreadsAssumption ==
    /\ Closer \notin Flushers
    /\ Background \subseteq Flushers \cup Compactors

ASSUME FlagsAssumption ==
    /\ WalEnabled \in BOOLEAN
    /\ DiskFaults \in BOOLEAN
    /\ QuiescentClose \in BOOLEAN
    /\ BlindRemove \in BOOLEAN

ASSUME NumbersAssumption ==
    /\ FlushAt \in Nat \ {0}
    /\ Trigger \in Nat \ {0}
    /\ MaxOutputs \in Nat \ {0}
    /\ MaxSeq \in Nat
    /\ MaxWrites \in Nat
    /\ MaxSst \in Nat

VARIABLES
    \* memory
    symbols,    \* names interned so far
    nextSeq,    \* next_seq_
    active,     \* active_mem_
    used,       \* insertions into active_mem_, what its arena's size grows with
    moved,      \* active_mem_ is null: close() moved it to imm_mems_
    imms,       \* imm_mems_, oldest first
    sstSeq,     \* sst_seq_
    level0,     \* levels_[0], as the numbers of its files
    level1,     \* levels_[1], as the numbers of its files
    \* disk
    wal,        \* the records a reader of the write-ahead log gets
    torn,       \* the log's last segment has the bytes of a short write
    hidden,     \* records behind such bytes in their segment, which no reader gets
    file0,      \* the files of directory l0, by number
    file1,      \* the files of directory l1, by number
    \* threads
    wpc,        \* where each writer is
    op,         \* the record each writer is writing
    fpc,        \* where each drainer of imm_mems_ is
    held,       \* the memtable each drainer has popped
    number,     \* the number of the file each drainer is writing
    cpc,        \* where each compactor is
    job,        \* the files each compactor is merging and has written
    fault,      \* how the process died, "none" while it runs
    \* specification only
    history,    \* records in the order of their insertion
    dropped,    \* numbers that levels_[0] has listed and lists no more
    unremoved   \* inputs of compactions that remove() left on disk

bufferVars == <<active, used, moved, imms>>
levelVars  == <<level0, level1, dropped, unremoved>>
fileVars   == <<file0, file1>>
writerVars == <<symbols, nextSeq, wal, torn, hidden, wpc, op>>
drainVars  == <<fpc, held, number>>
mergeVars  == <<cpc, job>>
vars == <<bufferVars, sstSeq, levelVars, fileVars, writerVars, drainVars,
          mergeVars, fault, history>>

Keys  == Symbols \X (1 .. MaxSeq)
Kinds == {"event", "tombstone"}
Event == [key : Keys, kind : Kinds]
Table == [Keys -> Nat]
Empty == [k \in Keys |-> 0]

Job   == [inputs : SUBSET Nat, todo : SUBSET Nat, outs : SUBSET Nat]
NoJob == [inputs |-> {}, todo |-> {}, outs |-> {}]

Closed      == fpc[Closer] # "open"
\* stop_flush_ is set with closed_; stop_compact_ once the flush thread is joined.
StopFlush   == Closed
StopCompact == fpc[Closer] \notin {"open", "join_flusher"}
WalOpen     == fpc[Closer] # "closed"
InFlight    == {w \in Writers : wpc[w] \in {"log", "insert"}}

Init ==
    /\ symbols = {}
    /\ nextSeq = 1
    /\ active = Empty /\ used = 0 /\ moved = FALSE /\ imms = <<>>
    /\ sstSeq = 1
    /\ level0 = {} /\ level1 = {} /\ dropped = {} /\ unremoved = {}
    /\ wal = <<>> /\ torn = FALSE /\ hidden = {}
    /\ file0 = [n \in {} |-> Empty]
    /\ file1 = [n \in {} |-> Empty]
    /\ wpc = [w \in Writers |-> "idle"]
    /\ op = [w \in Writers |-> NoEvent]
    /\ fpc = [d \in Drainers |->
                IF d = Closer THEN "open"
                ELSE IF d \in Background THEN "check" ELSE "idle"]
    /\ held = [d \in Drainers |-> Empty]
    /\ number = [d \in Drainers |-> 0]
    /\ cpc = [c \in Compactors |-> IF c \in Background THEN "check" ELSE "idle"]
    /\ job = [c \in Compactors |-> NoJob]
    /\ fault = "none"
    /\ history = <<>>

-----------------------------------------------------------------------------
(* append() and remove(). *)

(* Mutant: the closed_ check is missing. *)
BeginUnchecked(w, e) ==
    /\ wpc[w] = "idle"
    /\ Len(history) + Cardinality(InFlight) < MaxWrites /\ Len(wal) < MaxWrites
    /\ symbols' = symbols \cup {e.key[1]}
    /\ wpc' = [wpc EXCEPT ![w] = "log"]
    /\ op' = [op EXCEPT ![w] = e]
    /\ UNCHANGED <<bufferVars, sstSeq, levelVars, fileVars, wal, torn, hidden,
                   drainVars, mergeVars, fault, history>>

(* The closed_ check, the interning of the symbol, and the WAL as the next  *)
(* thing to do.                                                            *)
Begin(w, e) ==
    /\ wpc[w] = "idle"
    /\ ~Closed
    /\ Len(history) + Cardinality(InFlight) < MaxWrites /\ Len(wal) < MaxWrites
    /\ symbols' = symbols \cup {e.key[1]}
    /\ wpc' = [wpc EXCEPT ![w] = "log"]
    /\ op' = [op EXCEPT ![w] = e]
    /\ UNCHANGED <<bufferVars, sstSeq, levelVars, fileVars, wal, torn, hidden,
                   drainVars, mergeVars, fault, history>>

AppendBegin(w, s) ==
    /\ nextSeq <= MaxSeq
    /\ nextSeq' = nextSeq + 1
    /\ Begin(w, [key |-> <<s, nextSeq>>, kind |-> "event"])

(* remove() takes the key from its caller and issues no sequence id. *)
Inserted(k) == \E v \in 1 .. Len(history) : history[v] = [key |-> k, kind |-> "event"]

RemoveBegin(w, k) ==
    /\ BlindRemove \/ Inserted(k)
    /\ Begin(w, [key |-> k, kind |-> "tombstone"])
    /\ UNCHANGED nextSeq

Leave(w) ==
    /\ wpc' = [wpc EXCEPT ![w] = "idle"]
    /\ op' = [op EXCEPT ![w] = NoEvent]

(* One write() to the log.  A reader gets the records of a segment up to    *)
(* the first that was written short, and then goes on with the next        *)
(* segment; append() begins one when the last is full.                     *)
WriteRecord(e) ==
    /\ IF torn
       THEN hidden' = hidden \cup {e} /\ UNCHANGED wal
       ELSE wal' = Append(wal, e) /\ UNCHANGED hidden
    /\ torn' \in {FALSE, torn}

(* Mutant: tombstones are not logged. *)
LogEventsOnly(w) ==
    /\ wpc[w] = "log"
    /\ WalEnabled => WalOpen
    /\ IF WalEnabled /\ op[w].kind = "event"
       THEN WriteRecord(op[w]) ELSE UNCHANGED <<wal, torn, hidden>>
    /\ wpc' = [wpc EXCEPT ![w] = "insert"]
    /\ UNCHANGED <<bufferVars, sstSeq, levelVars, fileVars, symbols, nextSeq,
                   op, drainVars, mergeVars, fault, history>>

Log(w) ==
    /\ wpc[w] = "log"
    /\ WalEnabled => WalOpen
    /\ IF WalEnabled THEN WriteRecord(op[w]) ELSE UNCHANGED <<wal, torn, hidden>>
    /\ wpc' = [wpc EXCEPT ![w] = "insert"]
    /\ UNCHANGED <<bufferVars, sstSeq, levelVars, fileVars, symbols, nextSeq,
                   op, drainVars, mergeVars, fault, history>>

(* Mutant: an error of the log does not stop the call. *)
LogErrorIgnored(w) ==
    /\ wpc[w] = "log"
    /\ WalEnabled
    /\ ~WalOpen \/ DiskFaults
    /\ wpc' = [wpc EXCEPT ![w] = "insert"]
    /\ UNCHANGED <<bufferVars, sstSeq, levelVars, fileVars, symbols, nextSeq, wal,
                   torn, hidden, op, drainVars, mergeVars, fault, history>>

(* WALWriter::append throws: its descriptor is closed or nothing is        *)
(* written; a part of the record is written, which stays in the segment;   *)
(* or the record is, and only the rotation after it fails.                 *)
LogFails(w) ==
    /\ wpc[w] = "log"
    /\ WalEnabled
    /\ ~WalOpen \/ DiskFaults
    /\ \/ UNCHANGED <<wal, torn, hidden>>
       \/ DiskFaults /\ WalOpen /\ torn' = TRUE /\ UNCHANGED <<wal, hidden>>
       \/ DiskFaults /\ WalOpen /\ WriteRecord(op[w])
    /\ Leave(w)
    /\ UNCHANGED <<bufferVars, sstSeq, levelVars, fileVars, symbols, nextSeq,
                   drainVars, mergeVars, fault, history>>

(* push_back of active_mem_, and a new active memtable. *)
Rotate(table) ==
    /\ imms' = Append(imms, table)
    /\ active' = Empty
    /\ used' = 0

(* MemTable::insert: a record replaces the one its key had in this table.  *)
WithRecord(w) == [active EXCEPT ![op[w].key] = Len(history) + 1]

(* The insertion under mem_mu_, with the rotation of a full memtable.  An  *)
(* append takes mem_mu_ once more to report sizes; a remove is finished.   *)
Insert(w) ==
    /\ wpc[w] = "insert"
    /\ ~moved
    /\ history' = Append(history, op[w])
    /\ IF used + 1 >= FlushAt
       THEN Rotate(WithRecord(w))
       ELSE active' = WithRecord(w) /\ used' = used + 1 /\ UNCHANGED imms
    /\ IF op[w].kind = "event"
       THEN wpc' = [wpc EXCEPT ![w] = "report"] /\ UNCHANGED op
       ELSE Leave(w)
    /\ UNCHANGED <<moved, sstSeq, levelVars, fileVars, symbols, nextSeq, wal,
                   torn, hidden, drainVars, mergeVars, fault>>

Report(w) ==
    /\ wpc[w] = "report"
    /\ ~moved
    /\ Leave(w)
    /\ UNCHANGED <<bufferVars, sstSeq, levelVars, fileVars, symbols, nextSeq,
                   wal, torn, hidden, drainVars, mergeVars, fault, history>>

(* Both critical sections dereference active_mem_ without a check. *)
NullActive(w) ==
    /\ wpc[w] \in {"insert", "report"}
    /\ moved
    /\ fault' = "null_active"
    /\ UNCHANGED <<bufferVars, sstSeq, levelVars, fileVars, writerVars,
                   drainVars, mergeVars, history>>

-----------------------------------------------------------------------------
(* Draining imm_mems_: flush_loop(), flush_now() and the end of close().   *)

FlushStep(d, from, to) ==
    /\ fpc[d] = from
    /\ fpc' = [fpc EXCEPT ![d] = to]

(* The loop's test of stop_flush_, and the end of the timed wait. *)
FlushCheck(f) ==
    /\ f \in Background
    /\ FlushStep(f, "check", IF StopFlush THEN "exited" ELSE "wait")
    /\ UNCHANGED <<bufferVars, sstSeq, levelVars, fileVars, writerVars, held,
                   number, mergeVars, fault, history>>

(* Mutant: a single memtable is left for later. *)
FlushWakeForTwo(f) ==
    /\ f \in Background
    /\ FlushStep(f, "wait", IF Len(imms) > 1 THEN "drain" ELSE "check")
    /\ UNCHANGED <<bufferVars, sstSeq, levelVars, fileVars, writerVars, held,
                   number, mergeVars, fault, history>>

FlushWake(f) ==
    /\ f \in Background
    /\ FlushStep(f, "wait", "drain")
    /\ UNCHANGED <<bufferVars, sstSeq, levelVars, fileVars, writerVars, held,
                   number, mergeVars, fault, history>>

(* flush_now() has no closed_ check. *)
FlushNow(f) ==
    /\ f \notin Background
    /\ FlushStep(f, "idle", "drain")
    /\ IF used > 0 /\ ~moved THEN Rotate(active) ELSE UNCHANGED <<active, used, imms>>
    /\ UNCHANGED <<moved, sstSeq, levelVars, fileVars, writerVars, held, number,
                   mergeVars, fault, history>>

(* Mutant: the last memtable first. *)
FlushPopBack(d) ==
    /\ FlushStep(d, "drain", "write")
    /\ imms # <<>>
    /\ held' = [held EXCEPT ![d] = imms[Len(imms)]]
    /\ imms' = SubSeq(imms, 1, Len(imms) - 1)
    /\ UNCHANGED <<active, used, moved, sstSeq, levelVars, fileVars, writerVars,
                   number, mergeVars, fault, history>>

FlushPop(d) ==
    /\ FlushStep(d, "drain", "write")
    /\ imms # <<>>
    /\ held' = [held EXCEPT ![d] = Head(imms)]
    /\ imms' = Tail(imms)
    /\ UNCHANGED <<active, used, moved, sstSeq, levelVars, fileVars, writerVars,
                   number, mergeVars, fault, history>>

(* Mutant: the number is read and not advanced. *)
FlushWriteReusingNumber(d) ==
    /\ FlushStep(d, "write", "publish")
    /\ sstSeq <= MaxSst
    /\ number' = [number EXCEPT ![d] = sstSeq]
    /\ file0' = [n \in DOMAIN file0 \cup {sstSeq} |->
                    IF n = sstSeq THEN held[d] ELSE file0[n]]
    /\ UNCHANGED <<bufferVars, sstSeq, levelVars, file1, writerVars, held,
                   mergeVars, fault, history>>

(* next_sstable_seq(), and the file of that number written and closed: its *)
(* path is known to this thread alone until FlushPublish.                  *)
FlushWrite(d) ==
    /\ FlushStep(d, "write", "publish")
    /\ sstSeq <= MaxSst
    /\ sstSeq' = sstSeq + 1
    /\ number' = [number EXCEPT ![d] = sstSeq]
    /\ file0' = [n \in DOMAIN file0 \cup {sstSeq} |->
                    IF n = sstSeq THEN held[d] ELSE file0[n]]
    /\ UNCHANGED <<bufferVars, levelVars, file1, writerVars, held, mergeVars,
                   fault, history>>

(* A write error throws out of do_flush: the unfinished file is removed,   *)
(* and with it any file that had its path; the memtable is destroyed, and  *)
(* no thread but a caller's can catch it.                                  *)
FlushFails(d) ==
    /\ DiskFaults
    /\ sstSeq <= MaxSst
    /\ FlushStep(d, "write", IF d = Closer THEN "aborted"
                             ELSE IF d \in Background THEN "exited" ELSE "idle")
    /\ sstSeq' = sstSeq + 1
    /\ held' = [held EXCEPT ![d] = Empty]
    /\ file0' = [n \in DOMAIN file0 \ {sstSeq} |-> file0[n]]
    /\ fault' = IF d \in Background THEN "terminate" ELSE fault
    /\ UNCHANGED <<bufferVars, levelVars, file1, writerVars, number, mergeVars,
                   history>>

FlushPublish(d) ==
    /\ FlushStep(d, "publish", "drain")
    /\ level0' = level0 \cup {number[d]}
    /\ held' = [held EXCEPT ![d] = Empty]
    /\ number' = [number EXCEPT ![d] = 0]
    /\ UNCHANGED <<bufferVars, sstSeq, level1, dropped, unremoved, fileVars,
                   writerVars, mergeVars, fault, history>>

(* imm_mems_ is empty: the thread loops, or the call returns.  close()     *)
(* goes on to close the WAL and flush the symbol table.                    *)
FlushDone(d) ==
    /\ FlushStep(d, "drain", IF d = Closer THEN "closed"
                             ELSE IF d \in Background THEN "check" ELSE "idle")
    /\ imms = <<>>
    /\ UNCHANGED <<bufferVars, sstSeq, levelVars, fileVars, writerVars, held,
                   number, mergeVars, fault, history>>

-----------------------------------------------------------------------------
(* Compaction of L0 into L1: compact_loop() and compact_now().             *)

Home(c) == IF c \in Background THEN "check" ELSE "idle"

CompactStep(c, from, to) ==
    /\ cpc[c] = from
    /\ cpc' = [cpc EXCEPT ![c] = to]

(* Mutant: the loop does not test stop_compact_. *)
CompactCheckForever(c) ==
    /\ c \in Background
    /\ CompactStep(c, "check", "wait")
    /\ UNCHANGED <<bufferVars, sstSeq, levelVars, fileVars, writerVars,
                   drainVars, job, fault, history>>

CompactCheck(c) ==
    /\ c \in Background
    /\ CompactStep(c, "check", IF StopCompact THEN "exited" ELSE "wait")
    /\ UNCHANGED <<bufferVars, sstSeq, levelVars, fileVars, writerVars,
                   drainVars, job, fault, history>>

(* needs_l0_compact() *)
NeedsL0Compact == Cardinality(level0) >= Trigger

(* Mutant: the trigger is exceeded instead of reached. *)
CompactWakeAbove(c) ==
    /\ c \in Background
    /\ CompactStep(c, "wait", IF ~StopCompact /\ Cardinality(level0) > Trigger
                              THEN "snapshot" ELSE "check")
    /\ UNCHANGED <<bufferVars, sstSeq, levelVars, fileVars, writerVars,
                   drainVars, job, fault, history>>

CompactWake(c) ==
    /\ c \in Background
    /\ CompactStep(c, "wait", IF ~StopCompact /\ NeedsL0Compact
                              THEN "snapshot" ELSE "check")
    /\ UNCHANGED <<bufferVars, sstSeq, levelVars, fileVars, writerVars,
                   drainVars, job, fault, history>>

(* compact_now() has no closed_ check and no trigger. *)
CompactNow(c) ==
    /\ c \notin Background
    /\ CompactStep(c, "idle", "snapshot")
    /\ UNCHANGED <<bufferVars, sstSeq, levelVars, fileVars, writerVars,
                   drainVars, job, fault, history>>

CompactSnapshot(c) ==
    /\ CompactStep(c, "snapshot", IF level0 = {} THEN Home(c) ELSE "run")
    /\ job' = [job EXCEPT ![c] = [inputs |-> level0, todo |-> level0, outs |-> {}]]
    /\ UNCHANGED <<bufferVars, sstSeq, levelVars, fileVars, writerVars,
                   drainVars, fault, history>>

(* Mutant: the sort of equal keys is ascending. *)
Oldest(ns) == CHOOSE n \in ns : \A m \in ns : n <= m

(* Deduplication: the record of the file with the highest number wins.     *)
Newest(ns) == CHOOSE n \in ns : \A m \in ns : m <= n

Merged(ns) ==
    [k \in Keys |->
        LET having == {n \in ns : file0[n][k] # 0}
        IN  IF having = {} THEN 0 ELSE file0[Newest(having)][k]]

(* Output file i of the merge gets number sstSeq + i - 1.  Only the first  *)
(* number was taken from sst_seq_.  An existing file of that name is       *)
(* overwritten; the file whose write fails is removed.                     *)
WriteOutputs(merged, part, outs, failed) ==
    file1' = [n \in (DOMAIN file1 \cup outs) \ failed |->
                IF n \in outs
                THEN [k \in Keys |->
                        IF part[k] = n - sstSeq + 1 THEN merged[k] ELSE 0]
                ELSE file1[n]]

(* `part' assigns the records to output files 1, 2, ... in key order; the  *)
(* order of keys depends on timestamps, so any split may arise.  A file    *)
(* holds at least one record, as every memtable that is flushed does.      *)
Splits(merged) ==
    {part \in [Keys -> 1 .. MaxOutputs] :
        /\ \A k \in Keys : merged[k] = 0 => part[k] = 1
        /\ \E last \in 1 .. MaxOutputs :
              {part[k] : k \in {x \in Keys : merged[x] # 0}} = 1 .. last}

(* Mutant: the files deleted are those levels_[0] lists after the merge. *)
CompactRunForListed(c) ==
    /\ CompactStep(c, "run", "delete")
    /\ sstSeq <= MaxSst
    /\ sstSeq' = sstSeq + 1
    /\ job[c].inputs \subseteq DOMAIN file0
    /\ \E part \in Splits(Merged(job[c].inputs)) :
          LET merged == Merged(job[c].inputs)
              outs   == {sstSeq + part[k] - 1 : k \in {x \in Keys : merged[x] # 0}}
          IN  /\ WriteOutputs(merged, part, outs, {})
              /\ job' = [job EXCEPT ![c].outs = outs, ![c].todo = level0]
    /\ UNCHANGED <<bufferVars, levelVars, file0, writerVars, drainVars, fault,
                   history>>

(* Mutant: the number of the output is not taken from sst_seq_. *)
CompactRunReusingNumber(c) ==
    /\ CompactStep(c, "run", "delete")
    /\ job[c].inputs \subseteq DOMAIN file0
    /\ \E part \in Splits(Merged(job[c].inputs)) :
          LET merged == Merged(job[c].inputs)
              outs   == {sstSeq + part[k] - 1 : k \in {x \in Keys : merged[x] # 0}}
          IN  /\ WriteOutputs(merged, part, outs, {})
              /\ job' = [job EXCEPT ![c].outs = outs]
    /\ UNCHANGED <<bufferVars, sstSeq, levelVars, file0, writerVars, drainVars,
                   fault, history>>

(* Compaction::run: number taken, every input read, every output written.  *)
(* An input is never rewritten once listed, so reading them one by one     *)
(* succeeds exactly when all of them are there at the start.               *)
CompactRun(c) ==
    /\ CompactStep(c, "run", "delete")
    /\ sstSeq <= MaxSst
    /\ sstSeq' = sstSeq + 1
    /\ job[c].inputs \subseteq DOMAIN file0
    /\ \E part \in Splits(Merged(job[c].inputs)) :
          LET merged == Merged(job[c].inputs)
              outs   == {sstSeq + part[k] - 1 : k \in {x \in Keys : merged[x] # 0}}
          IN  /\ WriteOutputs(merged, part, outs, {})
              /\ job' = [job EXCEPT ![c].outs = outs]
    /\ UNCHANGED <<bufferVars, levelVars, file0, writerVars, drainVars, fault,
                   history>>

(* Compaction::run throws: an input is gone.  compact_loop has no handler. *)
CompactThrows(c) ==
    /\ CompactStep(c, "run", IF c \in Background THEN "exited" ELSE "idle")
    /\ sstSeq <= MaxSst
    /\ sstSeq' = sstSeq + 1
    /\ ~(job[c].inputs \subseteq DOMAIN file0)
    /\ job' = [job EXCEPT ![c] = NoJob]
    /\ fault' = IF c \in Background THEN "terminate" ELSE fault
    /\ UNCHANGED <<bufferVars, levelVars, fileVars, writerVars, drainVars, history>>

(* It throws on a write error: the outputs finished before it stay behind. *)
CompactFails(c) ==
    /\ DiskFaults
    /\ CompactStep(c, "run", IF c \in Background THEN "exited" ELSE "idle")
    /\ sstSeq <= MaxSst
    /\ sstSeq' = sstSeq + 1
    /\ job[c].inputs \subseteq DOMAIN file0
    /\ \E part \in Splits(Merged(job[c].inputs)), done \in 0 .. MaxOutputs - 1 :
          LET merged == Merged(job[c].inputs)
          IN  /\ \E k \in Keys : merged[k] # 0 /\ part[k] > done
              /\ WriteOutputs(merged, part, {sstSeq + i - 1 : i \in 1 .. done},
                              {sstSeq + done})
    /\ job' = [job EXCEPT ![c] = NoJob]
    /\ fault' = IF c \in Background THEN "terminate" ELSE fault
    /\ UNCHANGED <<bufferVars, levelVars, file0, writerVars, drainVars, history>>

(* The inputs leave the disk one by one, before they leave levels_[0]; one *)
(* that another compaction has removed is passed over.                     *)
CompactDelete(c, n) ==
    /\ n \in job[c].todo
    /\ CompactStep(c, "delete", IF job[c].todo = {n} THEN "publish" ELSE "delete")
    /\ file0' = [m \in DOMAIN file0 \ {n} |-> file0[m]]
    /\ job' = [job EXCEPT ![c].todo = @ \ {n}]
    /\ UNCHANGED <<bufferVars, sstSeq, levelVars, file1, writerVars, drainVars,
                   fault, history>>

(* remove() fails, which is ignored: the file stays, soon listed nowhere.  *)
CompactDeleteFails(c, n) ==
    /\ DiskFaults
    /\ n \in job[c].todo \cap DOMAIN file0
    /\ CompactStep(c, "delete", IF job[c].todo = {n} THEN "publish" ELSE "delete")
    /\ job' = [job EXCEPT ![c].todo = @ \ {n}]
    /\ unremoved' = unremoved \cup {n}
    /\ UNCHANGED <<bufferVars, sstSeq, level0, level1, dropped, fileVars,
                   writerVars, drainVars, fault, history>>

(* Mutant: levels_[0] is cleared, files added since the snapshot included. *)
CompactPublishClearing(c) ==
    /\ CompactStep(c, "publish", Home(c))
    /\ level0' = {}
    /\ dropped' = dropped \cup level0
    /\ level1' = level1 \cup job[c].outs
    /\ job' = [job EXCEPT ![c] = NoJob]
    /\ UNCHANGED <<bufferVars, sstSeq, unremoved, fileVars, writerVars, drainVars,
                   fault, history>>

CompactPublish(c) ==
    /\ CompactStep(c, "publish", Home(c))
    /\ level0' = level0 \ job[c].inputs
    /\ dropped' = dropped \cup (level0 \cap job[c].inputs)
    /\ level1' = level1 \cup job[c].outs
    /\ job' = [job EXCEPT ![c] = NoJob]
    /\ UNCHANGED <<bufferVars, sstSeq, unremoved, fileVars, writerVars, drainVars,
                   fault, history>>

-----------------------------------------------------------------------------
(* close(), which then drains imm_mems_ like a flusher.                    *)

CloseBegin ==
    /\ FlushStep(Closer, "open", "join_flusher")
    /\ QuiescentClose => \A w \in Writers : wpc[w] = "idle"
    /\ UNCHANGED <<bufferVars, sstSeq, levelVars, fileVars, writerVars, held,
                   number, mergeVars, fault, history>>

CloseJoinFlusher ==
    /\ FlushStep(Closer, "join_flusher", "join_compactor")
    /\ \A f \in Flushers \cap Background : fpc[f] = "exited"
    /\ UNCHANGED <<bufferVars, sstSeq, levelVars, fileVars, writerVars, held,
                   number, mergeVars, fault, history>>

CloseJoinCompactor ==
    /\ FlushStep(Closer, "join_compactor", "rotate")
    /\ \A c \in Compactors \cap Background : cpc[c] = "exited"
    /\ UNCHANGED <<bufferVars, sstSeq, levelVars, fileVars, writerVars, held,
                   number, mergeVars, fault, history>>

(* Mutant: only the memtables already rotated are drained. *)
CloseWithoutRotate ==
    /\ FlushStep(Closer, "rotate", "drain")
    /\ UNCHANGED <<bufferVars, sstSeq, levelVars, fileVars, writerVars, held,
                   number, mergeVars, fault, history>>

(* The last memtable is moved out and, unlike elsewhere, not replaced. *)
CloseRotate ==
    /\ FlushStep(Closer, "rotate", "drain")
    /\ moved' = (used > 0)
    /\ IF used > 0 THEN Rotate(active) ELSE UNCHANGED <<active, used, imms>>
    /\ UNCHANGED <<sstSeq, levelVars, fileVars, writerVars, held, number,
                   mergeVars, fault, history>>

-----------------------------------------------------------------------------
WriterStep(w) ==
    \/ \E s \in Symbols : AppendBegin(w, s)
    \/ \E k \in Keys : RemoveBegin(w, k)
    \/ Log(w) \/ LogFails(w) \/ Insert(w) \/ Report(w) \/ NullActive(w)

Drain(d) ==
    FlushPop(d) \/ FlushWrite(d) \/ FlushFails(d) \/ FlushPublish(d) \/ FlushDone(d)

FlushLoop(f) == FlushCheck(f) \/ FlushWake(f)

Merge(c) ==
    \/ CompactSnapshot(c) \/ CompactRun(c) \/ CompactThrows(c) \/ CompactFails(c)
    \/ \E n \in job[c].todo : CompactDelete(c, n) \/ CompactDeleteFails(c, n)
    \/ CompactPublish(c)

CompactLoop(c) == CompactCheck(c) \/ CompactWake(c)

CloseStep == CloseJoinFlusher \/ CloseJoinCompactor \/ CloseRotate

Next ==
    /\ fault = "none"
    /\ \/ \E w \in Writers : WriterStep(w)
       \/ \E d \in Drainers : Drain(d)
       \/ \E f \in Flushers : FlushLoop(f) \/ FlushNow(f)
       \/ \E c \in Compactors : Merge(c) \/ CompactLoop(c) \/ CompactNow(c)
       \/ CloseBegin \/ CloseStep

Spec == Init /\ [][Next]_vars

(* The operating system runs every thread that can run, a timed wait ends,  *)
(* and close() goes on once called.  Nothing obliges the program to write,  *)
(* to flush or compact by hand, or to close.                                *)
Running(A) == fault = "none" /\ A

Fairness ==
    /\ \A w \in Writers :
          WF_vars(Running(Log(w) \/ LogFails(w) \/ Insert(w) \/ Report(w)))
    /\ \A d \in Drainers : WF_vars(Running(Drain(d)))
    /\ \A f \in Flushers : WF_vars(Running(FlushLoop(f)))
    /\ \A c \in Compactors : WF_vars(Running(Merge(c))) /\ WF_vars(Running(CompactLoop(c)))
    /\ WF_vars(Running(CloseStep))

FairSpec == Spec /\ Fairness

-----------------------------------------------------------------------------
(* Properties.                                                             *)

WriterStates == {"idle", "log", "insert", "report"}
DrainStates  == {"check", "wait", "exited", "idle", "drain", "write", "publish",
                 "open", "join_flusher", "join_compactor", "rotate", "closed",
                 "aborted"}
MergeStates  == {"check", "wait", "exited", "idle", "snapshot", "run", "delete",
                 "publish"}

(* Every variable has its type, a writer past the start of a call has a    *)
(* record to write, and no L0 file has a number not yet handed out.        *)
TypeOK ==
    /\ symbols \subseteq Symbols
    /\ nextSeq \in 1 .. MaxSeq + 1
    /\ active \in Table
    /\ used \in Nat
    /\ moved \in BOOLEAN
    /\ imms \in Seq(Table)
    /\ sstSeq \in 1 .. MaxSst + 1
    /\ level0 \subseteq Nat
    /\ level1 \subseteq Nat
    /\ wal \in Seq(Event) /\ torn \in BOOLEAN /\ hidden \subseteq Event
    /\ dropped \subseteq Nat /\ unremoved \subseteq Nat
    /\ DOMAIN file0 \subseteq 1 .. sstSeq - 1 /\ file0 \in [DOMAIN file0 -> Table]
    /\ DOMAIN file1 \subseteq Nat /\ file1 \in [DOMAIN file1 -> Table]
    /\ wpc \in [Writers -> WriterStates]
    /\ op \in [Writers -> Event \cup {NoEvent}]
    /\ \A w \in Writers : wpc[w] # "idle" => op[w] \in Event
    /\ fpc \in [Drainers -> DrainStates]
    /\ held \in [Drainers -> Table]
    /\ number \in [Drainers -> Nat]
    /\ cpc \in [Compactors -> MergeStates]
    /\ job \in [Compactors -> Job]
    /\ fault \in {"none", "null_active", "terminate"}
    /\ history \in Seq(Event)

Versions == 1 .. Len(history)

(* Version v is in a memtable, in the hands of a drainer, or in a file. *)
Stored(v) ==
    LET k == history[v].key
    IN  \/ active[k] = v
        \/ \E i \in 1 .. Len(imms) : imms[i][k] = v
        \/ \E d \in Drainers : held[d][k] = v
        \/ \E n \in DOMAIN file0 : file0[n][k] = v
        \/ \E n \in DOMAIN file1 : file1[n][k] = v

Logged(e) == \E i \in 1 .. Len(wal) : wal[i] = e

Superseded(v) == \E u \in Versions : u > v /\ history[u].key = history[v].key

(* The last record inserted under a key, event or tombstone, survives      *)
(* every rotation, flush, compaction and close: only an older record for   *)
(* the same key may ever be dropped (compaction.cpp:61-69, db.cpp:468).    *)
NoLostWrite == \A v \in Versions : Stored(v) \/ Superseded(v)

(* Whatever fails (a log write, a flush, a compaction, a remove() of a     *)
(* file, a close() racing a call), a record that memory and files have     *)
(* lost is read back from the log, or was logged behind a short write of   *)
(* its segment, where no reader gets to it: it was logged before it was    *)
(* inserted (db.cpp:159-170, 215-223, wal.cpp:124-126).                    *)
Recoverable ==
    WalEnabled => \A v \in Versions :
        \/ Stored(v)
        \/ Superseded(v)
        \/ Logged(history[v])
        \/ history[v] \in hidden

(* What makes it inductive: whatever is inserted, or about to be, was      *)
(* written to the log, which nothing ever shortens.                        *)
InLog == {wal[i] : i \in 1 .. Len(wal)} \cup hidden

RecoverableInv ==
    WalEnabled => /\ \A w \in Writers : wpc[w] = "insert" => op[w] \in InLog
                  /\ \A v \in Versions : history[v] \in InLog

(* a holds nothing for a key that is as new as what b holds for it. *)
Older(a, b) == \A k \in Keys : b[k] # 0 => a[k] < b[k]

(* What a reader would need to resolve a key by looking at the newest      *)
(* source first, and what the deduplication of compaction.cpp:52-59 takes  *)
(* for granted: along the L0 files by number, the memtable being flushed,  *)
(* the immutable memtables in order and the active one, records for a key  *)
(* only get newer.                                                         *)
RecencyOrder ==
    /\ \A m, n \in DOMAIN file0 : m < n => Older(file0[m], file0[n])
    /\ \A n \in DOMAIN file0, d \in Drainers :
          fpc[d] = "write" => Older(file0[n], held[d])
    /\ \A n \in DOMAIN file0, i \in 1 .. Len(imms) : Older(file0[n], imms[i])
    /\ \A n \in DOMAIN file0 : Older(file0[n], active)
    /\ \A d \in Drainers, i \in 1 .. Len(imms) : Older(held[d], imms[i])
    /\ \A d \in Drainers : Older(held[d], active)
    /\ \A i, j \in 1 .. Len(imms) : i < j => Older(imms[i], imms[j])
    /\ \A i \in 1 .. Len(imms) : Older(imms[i], active)

(* While a compaction deletes its inputs and has not yet published its     *)
(* outputs, every record of an input still on disk is in an output, or a   *)
(* newer one for its key is: the order of db.cpp:468-483 is safe on disk.  *)
OutputsCover ==
    \A c \in Compactors : cpc[c] \in {"delete", "publish"} =>
        \A n \in job[c].inputs \cap DOMAIN file0, k \in Keys :
            \E m \in job[c].outs \cap DOMAIN file1 : file1[m][k] >= file0[n][k]

(* What makes NoLostWrite inductive.  Every entry of a table is a version   *)
(* of its key; ...                                                         *)
Fits(table, records) ==
    \A k \in Keys : table[k] # 0 =>
        table[k] \in 1 .. Len(records) /\ records[table[k]].key = k

WellStored ==
    /\ Fits(active, history)
    /\ \A i \in 1 .. Len(imms) : Fits(imms[i], history)
    /\ \A d \in Drainers : Fits(held[d], history)
    /\ \A n \in DOMAIN file0 : Fits(file0[n], history)
    /\ \A n \in DOMAIN file1 : Fits(file1[n], history)

(* ... a thread that is not flushing holds no memtable, and close() drains *)
(* imm_mems_ only when the flush thread is gone (db.cpp:100-124); ...      *)
DrainOrder ==
    /\ \A d \in Drainers : fpc[d] \notin {"write", "publish"} => held[d] = Empty
    /\ fpc[Closer] \notin {"open", "join_flusher"} => \A f \in Flushers : fpc[f] = "exited"

(* ... a file that is written but not yet published holds its memtable and *)
(* belongs to no compaction; ...                                           *)
WrittenFile ==
    \A d \in Drainers : fpc[d] = "publish" =>
        /\ number[d] \in DOMAIN file0 \ level0
        /\ file0[number[d]] = held[d]
        /\ \A c \in Compactors : number[d] \notin job[c].inputs

(* ... and every file number in use was handed out.                        *)
Numbering ==
    /\ level0 \subseteq 1 .. sstSeq - 1
    /\ DOMAIN file1 \subseteq 1 .. sstSeq - 1
    /\ \A c \in Compactors :
          job[c].todo \subseteq job[c].inputs /\ job[c].inputs \subseteq 1 .. sstSeq - 1

DurabilityInv ==
    /\ WellStored /\ DrainOrder /\ WrittenFile /\ Numbering
    /\ RecencyOrder /\ OutputsCover /\ NoLostWrite

(* The circumstances in which it holds: one flush thread at most and no     *)
(* caller of flush_now(), compactions with one output, no write errors.    *)
Disciplined ==
    /\ Flushers \subseteq Background
    /\ \A f, g \in Flushers : f = g
    /\ MaxOutputs = 1
    /\ ~DiskFaults

(* A file a level lists is on disk, except an input of a compaction that   *)
(* is between deleting its inputs and publishing (db.cpp:469, 475).        *)
ListedOnDisk ==
    /\ \A n \in level0 \ DOMAIN file0 :
          \E c \in Compactors : n \in job[c].inputs \ job[c].todo
    /\ level1 \subseteq DOMAIN file1

(* A file on disk is listed or in the hands of the thread that wrote it:   *)
(* nothing is written that the instance then forgets, but for the inputs   *)
(* of a compaction that could not be removed (db.cpp:469-470).             *)
NoOrphans ==
    /\ \A n \in DOMAIN file0 \ level0 :
          \/ \E d \in Drainers : fpc[d] = "publish" /\ number[d] = n
          \/ n \in unremoved
    /\ \A n \in DOMAIN file1 \ level1 : \E c \in Compactors : n \in job[c].outs

(* The levels and the directories agree, although files are deleted before *)
(* they are unlisted and listed after they are written, under no common    *)
(* lock (db.cpp:405-425, 468-490).                                         *)
LevelsMatchDisk == ListedOnDisk /\ NoOrphans

(* Readers open files by paths they copied without a lock                  *)
(* (db.cpp:283-311).  A path that levels_[0] lists, or has dropped since,  *)
(* leads to the file it led to or to none: it is never written again, and  *)
(* a number once dropped is never listed again.  A file of L1 stays as it  *)
(* is.                                                                     *)
ListedNeverRewritten ==
    [][ /\ \A n \in (level0 \cup dropped) \cap DOMAIN file0' :
              n \in DOMAIN file0 /\ file0'[n] = file0[n]
        /\ level0' \cap dropped = {}
        /\ \A n \in level1 : n \in DOMAIN file1' /\ file1'[n] = file1[n] ]_vars

(* When close() has returned, nothing is left in memory: every key's last  *)
(* record is in a file that a level lists (db.cpp:108-124).                *)
ClosedMeansFlushed ==
    fpc[Closer] = "closed" =>
        \A v \in Versions : \/ Superseded(v)
                            \/ \E n \in level0 \cap DOMAIN file0 : file0[n][history[v].key] = v
                            \/ \E n \in level1 \cap DOMAIN file1 : file1[n][history[v].key] = v
                            \/ \E c \in Compactors : cpc[c] \in {"delete", "publish"}

(* The kind of the last record for key k in a sequence of records. *)
LastKind(records, k) ==
    LET at == {i \in 1 .. Len(records) : records[i].key = k}
    IN  IF at = {} THEN "none"
        ELSE records[CHOOSE i \in at : \A j \in at : j <= i].kind

(* The log and memory agree about every key no call is writing: replaying  *)
(* the log from its start would give the records the memtables and files   *)
(* hold, although a record is logged and inserted under different locks    *)
(* (db.cpp:159-177, 215-229).                                              *)
LogAgrees ==
    WalEnabled => \A k \in Keys :
        (\A w \in InFlight : op[w].key # k) => LastKind(wal, k) = LastKind(history, k)

(* The tree is an event store: the record of a key is the newest one that  *)
(* memory and disk hold for it, so flush, compaction and close are         *)
(* invisible and each write takes effect once, between its call and return.*)
StoredKind(k) ==
    LET at == {v \in Versions : history[v].key = k /\ Stored(v)}
    IN  IF at = {} THEN "none"
        ELSE history[CHOOSE v \in at : \A u \in at : u <= v].kind

Abstract == INSTANCE EventStore WITH
    Clients <- Writers,
    open    <- ~Closed,
    issued  <- 1 .. nextSeq - 1,
    store   <- [k \in Keys |-> StoredKind(k)],
    phase   <- [w \in Writers |-> CASE wpc[w] = "idle" -> "none"
                                    [] wpc[w] \in {"log", "insert"} -> "begun"
                                    [] wpc[w] = "report" -> "applied"]

ImplementsEventStore == Abstract!Spec

(* A memtable once rotated out reaches L0: the flush thread gets to it,    *)
(* however its wakeups fall (db.cpp:175, 427-446).                         *)
Rotated(v) == v \in Versions /\ \E i \in 1 .. Len(imms) : imms[i][history[v].key] = v
InL0(v) ==
    v \in Versions /\ \E n \in level0 \cap DOMAIN file0 : file0[n][history[v].key] = v

FlushedEventually == \A v \in 1 .. MaxWrites : Rotated(v) ~> InL0(v)

(* No file waits for ever in an L0 that has reached the trigger, however   *)
(* many the flush thread adds meanwhile: it is merged and leaves L0, unless *)
(* an earlier merge empties L0 below the trigger or close() stops the      *)
(* compaction thread (db.cpp:448-451, 457-483, 498-507).                   *)
FullL0Merged ==
    \A n \in 1 .. MaxSst :
        n \in level0 /\ NeedsL0Compact ~> n \notin level0 \/ ~NeedsL0Compact \/ StopCompact

(* close() returns: the threads it joins see their stop flags. *)
CloseReturns == fpc[Closer] = "join_flusher" ~> fpc[Closer] = "closed"
=============================================================================

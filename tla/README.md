# KronosDB in TLA+

A formal model of KronosDB, the time-series database in this repository: an
embedded log-structured store (memtables, write-ahead log, SSTables in levels,
background flush and compaction) behind an HTTP server. Paths below are
relative to the repository root, so `db.cpp` is `src/db/db.cpp`.

## The system

| Component | State it keeps | Operations | Where it is hard |
|---|---|---|---|
| **DB** (`src/db/db.cpp`) | `active_mem_`, `imm_mems_` (under `mem_mu_`), `levels_` (under `levels_mu_`), counters `next_seq_` and `sst_seq_`, flags `closed_`, `stop_flush_`, `stop_compact_` | `open`, `append`, `remove`, `query`, `flush_now`, `compact_now`, `close`; the loops of the flush and the compaction thread | two mutexes, neither of which covers a file operation; files that are read, written and deleted outside both |
| **Compaction** (`src/db/compaction.cpp`) | none | `run`: read all inputs, keep the record of the newest file for each key, write outputs | "newest" is decided by file numbers; inputs may disappear |
| **Write-ahead log** (`src/storage/wal.cpp`) | segments, the open segment and its offset (under `mu_`) | `append`, `seal`, `truncate_and_seal`, `close`, `read_all` | torn tails, short writes, rotation after a write |
| **Recovery** (`db.cpp:56-83`, `src/db/recovery.cpp`) | none | replay into the active memtable | the log is never truncated; `sst_seq_` restarts at 1 |
| **Memtable, skip list, arena** (`src/storage/memtable.cpp`, `include/kronosdb/storage/`) | a sorted map from key to record | `insert` (one writer at a time), `scan` (no lock) | readers beside an insertion |
| **SSTable** (`src/table/`) | a file: blocks, index, Bloom filter, footer | write once, `get`, `scan` | block bounds, binary search, checksums |
| **Block cache** (`src/util/block_cache.cpp`) | LRU list and index | `get`, `put`, `evict` | `get` returns a pointer that outlives the lock |
| **Symbol table** (`src/util/symbol_table.cpp`) | two maps, `next_id_`, a file | `intern`, `lookup`, `flush`, `load` | append to the file after the maps changed; `flush` rewrites in place |
| **Synthetic generator** (`src/net/synthetic.cpp`) | `running_`, `worker_`, job id, counter | `start`, `stop`, `status`, the worker | a job that ends by itself |
| **Server** (`src/net/server.cpp`, `src/main_server.cpp`) | `running_` | HTTP routes, `start`, `stop`, the signal | concurrent requests; the order in which server, generator and instance end |
| **Metrics** (`src/util/metrics.cpp`) | histograms, throughput averages | `record`, `percentile`, `add` | relaxed atomics |

How they interact: the caller's thread interns the symbol, appends to the log
and inserts into the active memtable, each under its own mutex. A full memtable
moves to `imm_mems_`; whoever drains that queue (the flush thread, a caller of
`flush_now()`, `close()`) pops a memtable under `mem_mu_`, takes a file number,
writes the file with no lock held, and lists it under `levels_mu_`. A compactor
(the compaction thread, a caller of `compact_now()`) copies the list of L0,
merges the files with no lock held, deletes them, and only then changes
`levels_`. Queries look at memory under `mem_mu_`, copy `levels_` under
`levels_mu_`, and read files with no lock held.

What makes each part correct: no write is lost on the way from the log to L1;
records for a key get newer along the file numbers up to the active memtable,
since deduplication relies on it; levels list files that exist and do not
change; the log can rebuild what memory loses; what is started ends.
`PROJECT.json` lists the hazards one by one, at their lines.

## Modules

| Module | What it models |
|---|---|
| `EventStore` | What the write interface promises: a table from keys to the kind of the last record, changed atomically between the call and the return of `append` or `remove` |
| `LsmTree` | `DB` from `open()` on an empty directory to the end of `close()`: writers, log, memtables, flush, compaction, both background threads, callers of `flush_now` and `compact_now`, write errors |
| `MCLsmTree` | `LsmTree` for TLC, with the symmetry of writers |
| `LsmQuery` | `DB::query` beside all of `LsmTree` |
| `MCLsmQuery` | `LsmQuery` for TLC |
| `LsmRestart` | `LsmTree` opened again, after `close()` or from any state the process died in |
| `Wal` | The write-ahead log over crashes, power failures, failing writes and restarts |
| `BlockCache` | The cache of blocks: list, index, byte count, `get` and `put` |
| `SsTable` | Writers of SSTable files and readers that scan them, through one `BlockCache` |
| `MCSsTable` | `SsTable` for TLC: runs of events, hash values and queries |
| `SkipList` | The skip list of a memtable: an insertion link by link, and scans without a lock |
| `SymbolTable` | The names of symbols, their ids and their file, over restarts |
| `ServerLifecycle` | The process from `main()` to its end: HTTP server, generator and its thread, signal |
| `WalProofs` | Proofs: the log keeps what it acknowledged, in order |
| `LsmTreeProofs` | Proofs for any threads and callers: types, levels and files agree, the log recovers what memory loses and agrees with it |
| `LsmTreeDurability` | Proofs: no write is lost, `close()` flushes, a record is in one place, `LsmTree` implements `EventStore`; what opening again restores (`LsmRestart`) |
| `LsmQueryProofs` | Proofs: what a query remembers, and that it returns rows at rest once |
| `SsTableProofs` | Proofs: the binary search and every scan are exact, files hold their runs in blocks of the target's size, the cache stays within its bytes |
| `SkipListProofs` | Proofs: the list is ordered and scans are sound at every step of an insertion |
| `SymbolTableProofs` | Proofs: names keep their ids over restarts |
| `ServerProofs` | Proofs: one generator thread, a quiet `close()`, when `worker_` ends the process |

### LsmTree and the code

One action is one critical section, or one call whose intermediate states no
other thread can see. Writing a file is one action: its path is known to nobody
until it is listed, and reading inputs is one action because a listed file never
changes (`ListedNeverRewritten` is what justifies this; it is checked). After a restart that
reason is gone, and `LsmRestart` has the steps in between.
Deletion of inputs is one action per file, since the order of deletion and
publication is exactly what readers and other compactors see.

| Code | Model |
|---|---|
| `append`: `db.cpp:137-143`, `158-166`, `168-177`, `183-188` | `AppendBegin`, `Log` or `LogFails`, `Insert`, `Report` (or `NullActive`) |
| `remove`: `db.cpp:199-208`, `215-219`, `221-229` | `RemoveBegin`, `Log` or `LogFails`, `Insert` (or `NullActive`) |
| `flush_loop`: test of the flag, end of the wait, drain | `FlushCheck`, `FlushWake`, `FlushPop` ... `FlushDone` |
| `flush_now`: rotation, drain | `FlushNow`, then the same |
| `do_flush`: number and file, publication, exception | `FlushWrite`, `FlushPublish`, `FlushFails` |
| `compact_loop`, `compact_now` | `CompactCheck`, `CompactWake`; `CompactNow` |
| `do_compact_l0`: copy of L0, `Compaction::run`, deletions, publication | `CompactSnapshot`; `CompactRun`, `CompactThrows` or `CompactFails`; `CompactDelete` or `CompactDeleteFails`; `CompactPublish` |
| `close`: the flag, two joins, rotation, drain and the rest | `CloseBegin`, `CloseJoinFlusher`, `CloseJoinCompactor`, `CloseRotate`, `FlushPop` ... `FlushDone` |

State: `active`, `imms`, `level0`, `level1`, `sstSeq`, `nextSeq`, `symbols` are
the members of `DB`; `moved` says that `close()` left `active_mem_` null;
`used` counts insertions into the active memtable, which is what its arena grows
with (a replaced record uses memory again); `wal`, `file0`, `file1` are on disk. A short write
to the log leaves bytes behind (`torn`), and the records that follow in its segment
(`hidden`) are on disk but not in `wal`, which is what a reader gets.
The program counters `wpc`, `fpc`, `cpc`, with `op`, `held`, `number`, `job`,
hold the local variables of the threads. `history` numbers the insertions; no
guard but the bound of the instance reads it. `dropped` are the numbers that L0 has listed
and lists no more, `unremoved` the merge inputs that a failed `remove()` left on disk; they
serve properties only. A table maps a key to the version
(the position in `history`) of the record it holds.

What is abstracted: a key is a symbol and a sequence id (the timestamp is chosen
by the caller and never decides anything on the write path but the order in
which a merge is cut into files, and every cut is allowed); payloads are left
out; the size that triggers rotation is a number of insertions. A wait with a
timeout may end at any moment, so notifications change nothing.

### LsmQuery and the code

`LsmQuery` extends `LsmTree`; a step of its `Next` is a step of the tree
(`TreeStep`) or of a reader. The reader's steps are the stretches of
`db.cpp:235-328` between which other threads act.

| Code | Model |
|---|---|
| `db.cpp:236`, `244-250` closed check and symbol lookup | `QueryBegin` |
| `db.cpp:272-280` memtables under `mem_mu_` | `ScanMemory` |
| `db.cpp:284-289` copy of `levels_` under `levels_mu_` | `CopyLevels` |
| `db.cpp:301-320` one file of the copy | `ReadFile`, `SkipFile` when it is gone, `Misread` when decoding goes wrong |
| `db.cpp:259-269` the filter each row passes | `Collect` |

A query asks for every event of one symbol, so `rows` counts how often each
version was collected. A narrower range, a filter by kind or a limit only choose
among these rows. `before`, `removed` and `shifted` belong to the specification:
what was stored and what was removed when the query began, and which of its rows
changed place since. A place is memory as a whole (one lock covers active and
immutable memtables) or one listed file. While two queries are among the files, either may
free a block of the cache that the other is decoding (run `pointer`): decoding then throws,
which ends that file after some of its rows, or takes other bytes for the block. `Misread`
marks such a query, of which nothing is claimed; so does a read error, with `DiskFaults`.

`compaction.cpp:71-81` drops tombstones only when the target is level 3, and
`db.cpp:462-464` always passes level 1, so `Merged` keeps them.

### Wal and the code

| Code | Model |
|---|---|
| `wal.cpp:147-263` the reader | `ReadAll` |
| `wal.cpp:49-75` the constructor of the writer | `OpenWriter` |
| `wal.cpp:90-98` `truncate_and_seal` | `Truncate`, `Seal` |
| `wal.cpp:100-135` `append` | `AppendRecord`, `ShortWrite`, `RotateFails`, `CrashInAppend` |
| `wal.cpp:142-145` `close` | `Close` |
| `db.cpp:56-83` `open()` | `ReadAll`, `OpenWriter`, and `Truncate`, `Seal` when a tear was found |

All records are 78 bytes, so sizes and offsets count records. A segment is its
`whole` records and a flag `tear`: the reader checks magic, version, length and
checksum at each record and stops at the first that does not match, so nothing
behind an incomplete record matters to it. `place` is what `append()` returned
for each record. `truncate_and_seal` is two actions because the process may be
killed between its system calls; `append()` writes and rotates under one mutex,
and `CrashInAppend` is the kill in between.

A crash of the process loses nothing that was written. A power failure takes any
unsynced end of any segment, and any file of which nothing was synced;
`durable` counts what is synced, which only `close()` does. Truncation is taken
to be durable, a read error and a damaged sector do not occur.

`LsmTree` has the log as the sequence of the records a reader gets, with those behind a
short write apart; `Wal` has segments, offsets, crashes and power failures.

### SsTable, BlockCache and the code

| Code | Model |
|---|---|
| `sstable.cpp:60-69` the constructor of the writer | `Create` |
| `sstable.cpp:101-119`, `91-99`, `block.cpp:24-31` `add` | `Add`: `WithEvent`, `BuilderFull`, `FlushBlock` |
| `sstable.cpp:121-168` `finish` | `Finish` |
| `sstable.cpp:71-89` a write fails, the destructor removes the file | `WriterFails` |
| `sstable.cpp:183-240`, `263-295` opening a file, `may_contain` | `Start` |
| `index.cpp:42-63` `blocks_in_range` | `Search` (one round of the loop), `Found` |
| `sstable.cpp:242-260` `read_block_at` | `ReadHit`, then `Decode` or `DecodeFails`; `ReadMiss`, then `Load`, or `LoadFails` when the read is short or throws |
| `block.cpp:109-117` `Block::scan`, one event | `SkipEvent`, `TakeEvent`, `TakeLastEvent`, `LeaveBlock` |
| `sstable.cpp:298-309` the loop over blocks | `Return`, when no block is left |
| `block_cache.cpp:15-27` `get` | `GetHit`, `GetMiss` |
| `block_cache.cpp:29-48`, `64-70` `put`, `evict_lru` | `Put` |

An event is its key, a number. Its encoding has a fixed size, and `BlockBytes` is
the size of a block, which decides where the writer cuts. An offset is the number
of a block. The Bloom filter is the set of its bits, with its arithmetic; the two
hash functions are parameters. `LsmTree` and `LsmQuery` write and read a file in
one step; `SsTable` is what that step stands for.

`get()` of the cache returns a pointer into an entry and releases the mutex. So
entries have addresses, an address is used again after its entry was freed, and
`Decode` is a step of its own: what it finds at an address may be the entry, a
later entry at the same address, or, when nothing lives there, the old bytes or
garbage that the checksum refuses (`DecodeFails`; the caller then passes over the
file, `db.cpp:310-315`). `dangled` marks a scan that decoded through an invalid
pointer.

`evict(path)`, `SSTableReader::get()` and `find_first_block()` have no caller in
the program.

### LsmRestart and the code

`LsmRestart` extends `LsmTree`: a step is one of the tree's, one of `Beside`, or
`Restart`, which is enabled in every state, since the process may die anywhere.
`Restart` is `DB::open` (`db.cpp:22-89`).

| Code | Model |
|---|---|
| `db.cpp:33-52` the files of the directories are listed | `level0'`, `level1'`: all files but those a thread had not finished (`Unfinished`, `Truncated`) |
| `db.cpp:62-69` the log is inserted into the active memtable | `Replayed`: the last record of each key |
| `db.cpp:71` `next_seq_` after the last record of the log | `FirstId` |
| `db.cpp:74-79` a torn tail is cut off and sealed | `torn'` |
| `db.hpp:105` `sst_seq_` | 1, whatever files there are |
| `sstable.cpp:67`, `91-168` a flush opens the path of a listed file, and completes it | `Truncate`, `Rewrite` |
| `compaction.cpp:37-48` a merge reads a file that is being overwritten | `CompactMixed` (blocks of the old file, of the new one, or none of a key), `CompactBaffled` (it throws) |
| `db.cpp:420` the path is listed a second time; `450` entries are counted | `doubled`, `CompactWakeDoubled` |

A file that was being written when the process died has no footer, cannot be
opened and is passed over; if an earlier run had a file under its number, that
one is gone. In a run that follows, `FlushWrite` may meet a listed file: then it is not one
step, since a merge knows the path, and `Beside` has the steps that stand for it instead
(`Replaced`). `restarts` counts; `behind` says that the log did not end with its
largest id; `inherited` are the listed files of earlier runs, and `mixed` says that a merge has
begun to read one of them. `history` goes on with the records of the replay, so that "newer"
stays the order of insertion. The crashes of the log itself are in `Wal`, those
of the names of symbols in `SymbolTable`.

### SkipList and the code

| Code (`skiplist.hpp`) | Model |
|---|---|
| `find_prev` | `InsertBegin`, `FindPrev` (one turn of its loop) |
| `insert`, the key is there: the value pointer is swapped | `ReplaceValue` |
| `insert`, the height is drawn, `max_height_` raised, the node built | `NewNode` |
| `insert`, the loop that links | `SetNext`, `Link`, one of each per level |
| `count_` | `Count` |
| `Iterator::seek`, `find_first_ge` | `ScanBegin`, `Seek` (one turn of its loop) |
| `memtable.cpp` `scan`: the callback; `Iterator::next`; the end | `Deliver`, `Advance`, `ScanEnd` |

An action is one load or store of an atomic that another thread may see. The head
is 0, a node is its key and the null pointer is `MaxKey + 1`, so that the test
for null and the comparison of keys are one. Links and values are stored with
release and loaded with acquire order, so that who sees a node sees what was
written before it was linked; such accesses may be interleaved. `max_height_` is
relaxed: a reader starts at any value it has had. One writer inserts at a time
(`write_mu_` of the memtable). Nothing is ever taken out of the list.

### ServerLifecycle and the code

| Code | Model |
|---|---|
| a request is accepted, routed, answered (`server.cpp`) | `Accept`; `Reply` for a route that is one call of `DB` |
| `synthetic.cpp:18-33` `start` | `StartRefused`, `Start`; `StartFails` when the thread cannot be created |
| `synthetic.cpp:35-43` `stop`, before and after the join | `Stop`, `StopJoin` |
| `run_loop`, before its loop | `Prologue`; `PrologueThrows` when there is no memory for the symbols |
| `run_loop`, the loop and its end | `NextEvent`, `Count`, `Leave`, `End`; `NoSymbol` when there are no symbols to draw from |
| `Server::start`, `listen` | `Listen`, `Bind` |
| the handler of SIGINT and SIGTERM, `Server::stop` | `Signal` |
| requests in progress end, `listen` returns | `Drained`, `Returned` |
| `~SyntheticGenerator` | `Destroy`, `DestroyJoin` |
| `~DB` | `CloseDB`; `CloseThrows` when the flush or the symbol table's file fails |

The library `httplib` is external: it accepts while it listens, `stop()` ends
`listen()`, and `listen()` returns when what was accepted is answered. `fault` records what the
process died of: `unjoined`, an assignment over a joinable thread or its destruction, which
is `std::terminate`; `prologue` and `empty`, a job whose parameters `run_loop` cannot work with
(`server.cpp:225-240` passes them on unchecked, `synthetic.cpp:58-97` is outside the `try`);
`close`, an exception out of `~DB`. `config` tells these parameters apart. Every job has the same id,
so that a stop request is always for the job there is.

### SymbolTable and the code

| Code (`symbol_table.cpp`) | Model |
|---|---|
| `intern`, a new name | `Intern`; `InternUnwritten` when the entry or part of it is not written; `InternThrows` when the file does not open |
| `intern`, a known name | `InternKnown` |
| `flush`, which empties the file, and `close()` after it | `Flush`, `FlushEntry`, `FlushDone`; `FlushUnwritten` |
| `append_entry`, `flush`: the length is cast to 16 bits and the whole name written | `Written` |
| the constructor: `load` | `Load`, or `LoadPart` when a read fails: `Open`, `IdIn`, `NextIdAfter` |

`used` is what this is for: records on disk hold ids alone, and it is the set of
ids that records of each name were written with. A call keeps the mutex to its
end, so that only the next process sees the file in between. An entry does not say how long
its name is when it was not written whole or when the name has 65536 bytes or more
(`Overlong`), and such an entry is `Torn`. What lies behind it in the file is read as entries it never
was: after loading such a file the table may have any ids.

## Runs

| Run | Checks | Instance |
|---|---|---|
| `core` | `TypeOK`, `NoLostWrite`, `DurabilityInv`, `OutputsCover`, `ClosedMeansFlushed`, `LogAgrees`, `ImplementsEventStore`, `FlushedEventually`, `FullL0Merged`, `CloseReturns` of `LsmTree` | two writers, the two background threads, `close()`; fairness |
| `callers` | `Recoverable`, `LevelsMatchDisk`, `ListedNeverRewritten` | one writer; callers of `flush_now()` and `compact_now()` beside the background threads, errors of writes and of `remove()`, `close()` racing calls |
| `query` | `QueryTypeOK`, `StableRowsOnce` of `LsmQuery` | one writer, the background threads, `close()`, two queries |
| `removed` | `RemovedStaysGone`, which fails | the same with one query |
| `restart` | `LostOnlyByMixing`, `IdsFresh`, `RestartRestores` of `LsmRestart` | two writers, the background threads, two restarts |
| `reopened` | `NewestWins`, which fails | one writer, one restart |
| `wal` | `TypeOK`, `AckedSurvive`, `Ordered`, `PlacedAsReported` of `Wal` | segments of two records, any number of crashes, power failures and failing writes |
| `scans` | `TypeOK`, `FileSound`, `ScanExact`, `SearchKeeps`, `CacheSound`, `NewBlockStays`, `ScanReturns` of `SsTable` | two files, two queries of several ranges, one cache of two blocks |
| `pointer` | `PointersValid`, which fails | the same |
| `skiplist` | `TypeOK`, `LinksOrdered`, `InsideNode`, `ScanSound`, `Returns` of `SkipList` | three keys, two levels, one scan at a time |
| `symbols` | `NamesKept` of `SymbolTable` | three names, one of them overlong, two more openings, failing writes and reads |
| `server` | `WorkerGuarded`, `CloseIsQuiet`, `UnjoinedOnlyExpired`, `StopReturns`, `SignalEnds` of `ServerLifecycle` | two request threads, five requests, a job of two events |

**What `core` shows.** With the background threads alone, nothing is lost and the
merge is right, at every interleaving with writers and with `close()`.
`LogAgrees` holds although the log and the memtable are written under different
locks, because two records for one key are an append and removes that name an
event already inserted; it is checked with that restriction on callers
(`BlindRemove = FALSE`). `ImplementsEventStore` says that flush, compaction and
close are invisible to whoever resolves a key by its newest record. What is in a
full memtable reaches L0, every file of a full L0 is merged, and `close()` returns, although
the waits of the loops have no predicate and flags are tested only between them.
`FullL0Merged` is about each file and not about L0 as a whole: with writers that do not pause the
flush thread may publish a trigger's worth of files during every merge, and L0 then stays full for
ever in a fair behaviour, but no file stays in it.

**What `callers` shows.** Compacting by hand beside the thread corrupts nothing on
disk, although one of the two may throw (`CompactThrows`), which ends the
process when it is the background thread. A failed flush, a failed merge or a
call that raced `close()` leaves its records in the log, to be read back or, if a write to the log
was cut short in the same segment before, where no reader gets to them (`Recoverable` tells the two
apart). `LevelsMatchDisk` says
that the levels list only files that are there, but for inputs a merge is
deleting, and that no file is there that nobody lists or holds, but for inputs of a merge whose
`remove()` failed, which `db.cpp:470` ignores. `ListedNeverRewritten` says that a path which L0
lists, or has ever listed, leads to the same file or to none, and that a number once dropped is not
listed again: a query may open a path it copied long ago.

Draining by hand is not as harmless for the order of records: `flush_loop`,
`flush_now` and `close` pop under `mem_mu_` and call `next_sstable_seq()` after
the mutex is released (`db.cpp:381-388`, `437-443`). With two of them at work, the
one that popped the older memtable may take the higher number;
`compaction.cpp:52-53` then takes the wrong file for the newest. `OutputsCover`
fails as soon as `core` has a second drainer. The properties of `core` are
therefore stated for one flush thread, and those of `callers` for any.

**What `query` shows.** A query is not a snapshot: it reads memory, the list and
the files at different times. `StableRowsOnce` says how far that goes. A row that
is in the same place from the beginning of the query to its end is returned
exactly once, whatever other rows are inserted, flushed, merged and deleted
beside it, as long as one compactor is at work: with `compact_now()` beside the
thread both may merge the same files, and both outputs hold the row (TLC refutes
`StableRowsOnce` with a second compactor). Two queries among the files at a time may spoil each
other's reads (`Misread`), and nothing is said of a query whose read was spoiled. A row that moves may be missed (it is in the hands of the flush
thread while memory is scanned and listed after the copy; or its file is deleted
by a merge whose outputs were not yet listed) or returned twice (found in memory,
then in the file it was flushed to).

**What `removed` shows.** The filter drops a tombstone and does nothing to the
event it names (`db.cpp:263`). Where both are in one memtable the tombstone has
replaced the event; when the event was flushed before `remove()`, the query finds
it in its file. `tombstone_test.cpp:38` expects "Should be gone" and has only the
first case.

**What `restart` and `reopened` show.** Opening again restores everything at the
moment it is done: the log has every record, so memory has, whatever files a new
run overwrote and whatever merges mixed (`RestartRestores`). An id is issued again
only when the log did not end with its largest (`IdsFresh`); a remove, or two
appends logged in the other order than they drew their ids, make such a log. After
that a remove may overtake the second event of its id, and the replay ends with
the event where memory had the tombstone; `RestartRestores` therefore excepts a key of which
the log has two events (`Reissued`). Without this exception TLC refutes it once
the log may hold four records, after two overtaken appends and two restarts;
`MaxLog = 3` of the run does not reach that, the theorem `Restores` covers every
size. But from then on file numbers no longer tell age. The new run numbers its files from
1 beside files of higher numbers, or over files that are listed. Nothing is lost by that alone
(`LostOnlyByMixing`): what a flush overwrites is in the log and in memory again, and is flushed
like any other record. But once a merge has a file of an earlier run for its input, it may keep the
record of the older file, because its number is higher (`reopened`), read a file while it is
overwritten, or delete a path that a flush has just written to. What memory and files lose then
is still in the log, from where the next opening takes it (`RestartRestores`); without the log
(`wal_enabled = false`) it is gone.

**What `wal` shows.** The order of `open()` (read, open the last segment, cut its
torn tail, start a new one) survives a crash at any step and any number of
restarts: no acknowledged record is cut, replay is in the order of the appends,
and the position `append()` returned is right. A power failure may leave a hole:
rotation syncs nothing, so the end of an older segment may be gone while the
next one is there; what is left is still in order. The exception is a write that
fails in the middle. `append()` throws and leaves the part in the segment, later
calls go behind it and are acknowledged, and no reader finds them: the tail is
only sealed after a restart. `AckedSurvive` excepts exactly the records behind
such a write, and `LogReadable` proves that without one there are none.

**What `scans` and `pointer` show.** The writer's cut, the index, the filter and
the meta block agree with the events given, and a scan returns exactly those of
its range: no range is lost between the block the search finds, the block the
index ends with, the early ends and the two checks that may pass over a file.
The list, the index and the byte count of the cache agree after every `get` and
`put` of two readers. All that is for scans whose pointers were valid. `pointer`
shows how one is not: one query has found its block and not decoded it, another
missed that block before and now puts its own copy, which frees the first
(`block_cache.cpp:35-39`), or evicts it. All queries of an instance share the
cache (`db.cpp:26`, `310`), and nothing orders them.

**What `skiplist` shows.** At every step of an insertion each level is an ordered
list of exactly the keys linked there (`LinksOrdered`), no thread reads a link its
node does not have (`InsideNode`), and a scan without a lock misses no key that
was linked when it began, delivers none twice and none out of order, each with a
value no older than it had then (`ScanSound`). `DB::query` scans under `mem_mu_`
and a flush reads a memtable that nobody inserts into any more, so the program
itself does not need it; it is what `memtable.hpp` offers to other users.

**What `symbols` shows.** Names keep their ids and share none over restarts, with
an exact exception (`lost`): the table was once loaded from a file that does not have all its names,
or does not have them right. The process died while `flush()` was rewriting the
file; or an entry of that run was not written, and no later `close()` wrote it; or the file could not
be read; or a name of 65536 bytes or more was interned, which the code accepts and whose length
the file cannot hold. In the first three cases the next table lacks a name whose records are on
disk, and may give its id to another name; in the last it misreads all that follows, and `close()`
repairs nothing.

**What `server` shows.** `close()` begins when every request is answered and the
generator's thread is gone, at whatever moment the signal came; the generator has
one thread at a time and one that joins it; `stop()` returns although it holds
the mutex meanwhile, because the loop never takes it; a signal that finds the
server listening ends the process. A signal that comes before is lost. The process may die of several
things, which the model has and the properties except: a job with parameters that `run_loop`
cannot work with, an exception out of `~DB`, and `worker_`. Of the last, `UnjoinedOnlyExpired` says
that it takes a job that ended by its duration and was not stopped: the next `start()` or the end of
the server then meets its joinable thread. A job whose thread could not be created stays marked as
running until it is stopped (`unstarted`), and leads to nothing worse.

**Bounds.** `MaxSeq` (sequence ids), `MaxWrites` (records) and `MaxSst` (file
numbers) stand in guards only. In `core`, two ids, four writes and memtables of
two insertions give every memtable shape the properties tell apart: both records
of a key in one memtable, one in each of two, and memtables with records of two
keys. The trigger is one file (the code's is 8), so that a merge of one file and
one of two both happen, a second file is published while the first is merged, and
L1 gets more than one file. Nine file numbers are more than this run can use, so
that no thread stops for want of one.
`callers` has one id, memtables of one insertion, two writes and four numbers: an event and a
tombstone of it, two drainers with a memtable each, two compactors with the same two inputs, one of
them to fail or to run again, and every error at every step.
`query` has two queries, two writes and three file numbers, `removed` one query, three writes and
more numbers than it can use, both with memtables of one insertion, so that
events and tombstones reach memory, L0 and L1 in every combination of a query's
three looks. Three numbers are two flushes and a merge, of one file before the other is listed, of
one beside the other, or of both. The log is off, since no query reads it.
`restart` has a log of three records (`MaxLog`), which is two appends whose order
in the log differs from that of their ids, and a remove; two restarts, so that
files of three runs lie side by side; three file numbers, so that a new run
overwrites some files of an earlier one and leaves others; a trigger of two files, so that a new
run may flush over a file without a merge of it, and list it twice. Each restart inserts
the log once more, so `MaxWrites = 12` is more than it can use. `reopened` needs one
restart.
`wal` has three records in segments of two and four segments: a full segment, a
half full one, and room to seal twice.
`scans` has a run of five events, in three blocks: the target of 178 bytes is
exactly that of a block of two, so that the comparison with the target matters.
The other runs of events have one. The cache holds two blocks of three, so that
eviction, replacement and a free address all occur. The filter has eight bits and
the hash values wrap at 32 (the code's at 2^32); one of the point queries is a
false positive. The ranges begin and end before, within, between and behind the
blocks, on the first key of one and on the last of another.
`skiplist` has three keys, so that an insertion happens before, between and behind
linked ones; two levels, so that nodes differ in height and one link is there
before the other; two values of a key. Readers do not see each other, so one
stands for any number; the proofs have any number of all of these.
`symbols` has two ids for three names, one of them too long, and three lives of the table: one that loses an
entry, one that hands out its id again, one that reads both.
`server` has two handlers, the least that contend for the mutex, and five requests,
which is a start, a stop, a start, and two beside them.

**Deadlock** is checked in `skiplist`, where there is always another call to begin.
Elsewhere it is not: a closed instance or table, a process that has ended or
died, and an instance at its bounds stop. That a call to `close()` ends is
checked as `CloseReturns`, that a scan ends as `ScanReturns`, that `stop()` and
the process end as `StopReturns` and `SignalEnds`.

**Fairness.** `LsmTree!Fairness`: a writer in a call, a thread draining `imm_mems_`,
a merge, the loops of the background threads and a `close()` that has begun go on
when they can. The code justifies it: these are threads of the operating system,
blocked only on mutexes that are held for a few statements and on waits with a
timeout (`db.cpp:431`, `502`). Nothing is assumed about calls that have not begun.
`SsTable!LiveSpec` assumes the same of a query that has begun: it runs on the
thread of its request and waits only for the mutex of the cache.
`SkipList!FairSpec`: an insertion and each scan that has begun go on; neither waits
for anything. `ServerLifecycle!Spec`: each handler of an accepted request,
`run_loop` once the job was told to stop (its wait for the next event sees that) and `main()` go on; no client is obliged to
ask, no signal to come, no job to get on. All of it is weak fairness, and no liveness property is
checked under symmetry.

## Proofs

TLAPS proves the following for every set of threads, every number of symbols and
every value of the limits and bounds, from the named assumptions of `LsmTree`
(`ThreadsAssumption`, `FlagsAssumption`, `NumbersAssumption`: the thread that
closes is not a flusher, background threads are flushers or compactors, flags
are Boolean, limits are positive), and of the other modules from theirs.

- `TypeCorrect` (`LsmTreeProofs`): `Spec => []TypeOK`. `TypeOK` is inductive as
  it stands; it includes that no L0 file has a number not yet handed out, which
  the merge needs in order to have a newest file (`HasMaximum`, `MergedType`).
- `LevelsAgree`, `ListedFilesKept` (`LsmTreeProofs`): `Spec => []LevelsMatchDisk` and
  `Spec => ListedNeverRewritten` for any threads, callers and write errors, with
  compactions of one output file (`MaxOutputs = 1`; the second would have a number that
  nobody reserved). `FilesInv` adds to `LevelsMatchDisk` that numbers handed out are
  below `sst_seq_` and different (`Numbering`), that a file being written is not
  listed, was not before, and is no input of a merge (`WrittenApart`), that numbers L0 has dropped are
  apart from those it lists and nothing is left unremoved without write errors (`DroppedApart`), and what a job has read,
  written and deleted at each of its steps (`JobProgress`).
- `LogRecovers` (`LsmTreeProofs`): `Spec => []Recoverable`, with write errors,
  any callers and any compaction. The inductive invariant is `RecoverableInv`:
  what is inserted, or about to be, was written to the log, in front of or behind the bytes of a
  short write (`InLog`), and nothing takes it from there.
- `Durable`, `NothingLost`, `MergeSafe` (`LsmTreeDurability`): under
  `Disciplined`, `Spec => []DurabilityInv`, and therefore `[]NoLostWrite`,
  `[]RecencyOrder` and `[]OutputsCover`. `Disciplined` says: at most one flush
  thread and nobody who calls `flush_now()`, compactions with one output file,
  no write errors; any number of writers and of compactors, `compact_now()`
  callers included, and `close()` at any moment. Each condition is needed: two
  drainers break the order of file numbers (see `callers`), a second output
  file has a number nobody reserved, a failed flush destroys its memtable.
- `Implements` (`LsmTreeDurability`): under `Disciplined`, `Spec =>
  ImplementsEventStore`. The abstract table holds for each key the kind of the
  newest record that memory and files have of it. By `NoLostWrite` that is the
  kind of the last record of the key in the history (`StoredIsLast`), so a step
  that inserts nothing leaves the table as it is, wherever it moves records
  (`StoreSteps`), and an insertion changes it at its key only (`LastOfLonger`).
  Every action is then a step of `EventStore` or a stutter: the operation begins
  with `AppendBegin` or `RemoveBegin`, takes effect with `Insert`, and ends with
  `Report` (an append) or with `Insert` itself (a remove).
- `LogMatches` (`LsmTreeProofs`): `Spec => []LogAgrees` without write errors and
  with `BlindRemove = FALSE`, for any threads and callers. In the log and in the
  history the records of a key are one event and tombstones behind it
  (`EventFirst`), because an id is issued once (`KeyIsNew`) and a remove names an
  event that was inserted, hence logged. So the last record of a key is a
  tombstone exactly when there is one (`LastKindOfRecs`), whatever the order; and
  the two have the same records but for those of calls between the log and the
  insertion (`LogInv`).
- `ClosedIsFlushed` (`LsmTreeDurability`): under `Disciplined` and `QuiescentClose`, `Spec =>
  []ClosedMeansFlushed`. That `close()` begins when no call is in progress is what
  `ServerProofs!QuietClose` proves of the server. `CloseInv`: from the rotation of `close()` on
  nothing is inserted, and at its end nothing is queued; `NoLostWrite` then leaves
  only files for the last record of a key.
- `OnePlaceAtATime` (`LsmTreeDurability`), `QueryTypes` and `StableOnce` (`LsmQueryProofs`): with one
  flush thread and one compactor (`Disciplined`, `OneCompactor`), files of L1 are older
  than files of L0 but for the inputs of an output not yet listed, and those older than memory
  (`L1Oldest` in `OnePlaceInv`). So no record is listed in two places, and `QuerySpec =>
  []StableRowsOnce` for any number of readers, of the queries none of whose reads went wrong:
  `QueryCounts` says of every row that
  has kept its place how often it was collected, by whether its place is still to
  be read. A step of the tree that moves a row marks it in `shifted`; that one
  which does not mark it also keeps its file is `QueryInv`, which needs
  `MaxOutputs = 1` alone and gives `QueryTypes`.
- `FreshIds` (`LsmTreeDurability`): with the log and callers that remove inserted events,
  `RestartSpec => []IdsFresh` for any number of restarts and any write errors, short writes to the log
  included. `WrittenInv`: every record of the tree or about to be inserted was written to the log;
  `IdsInv`: an id drawn is below `next_seq_`, and so is every id of the log, what it hides included, as
  long as it was at the last opening. The steps of `LsmRestart` beside those of the tree touch
  neither log nor ids (`BesideQuiet`).
- `Restores` (`LsmTreeDurability`): from the same assumptions and no write errors,
  `RestartSpec => RestartRestores`. Without write errors nothing in the log is hidden (`WholeLog`).
  `ReplayInv` is `LogSettles` (what the log has and
  memory has not belongs to a call in progress; a tombstone in the log has its event
  there) and `OnceIssued` (of a key that was issued once the event is the first
  record and the tombstone the last, in the log and in memory). The
  replay then ends with the kind that memory had (`LogReplays`).
- `LogKeepsAcked`, `LogInOrder`, `LogInPlace`, `LogReadable`, `LogTypes` (`WalProofs`): the properties of
  run `wal` for every segment size and any number of records, segments, crashes
  and failures (assumption `WalAssumption`); and without failing writes,
  `[]AckedReadable`. The inductive invariant `WalInv` adds what `open()` knows at
  each step (`OpenState`: the clean end it read is that of the segment the writer
  has open), that no segment has a record still to be written (`Numbered`), and
  that the writer has no tear before it (`CleanTail`). `PlacedAsReported` carries
  the rest: a record that is where it was reported to be is readable, and a power
  failure takes a record only from there because no two places have the same
  record, which is `Ordered` (`PlacesDiffer`).

- `ScansAreExact`, `SearchCorrect` (`SsTableProofs`): `Spec => []ScanExact` and
  `Spec => []SearchKeeps` for all runs of ascending keys, any target, filter, hash
  functions, cache, files, readers and ranges (assumption `SsTableAssumption`:
  writers are given ascending, non-empty runs). The invariant has three parts.
  `FilesInv`: what a writer has been given is in its blocks and its open block,
  in order, indexed by first keys and known to the filter. `ScansInv`: a scan has
  delivered exactly the keys of the range among those it has passed (`Delivered`),
  and what is outside the blocks it reads is outside the range (`OutsideBlocks`).
  `CacheInv`: an entry is a block of a finished file, under its file and number,
  so it does not matter which reader put it there.
- `CacheBounded`, `NewBlockKept` (`SsTableProofs`): `Spec => []CacheSound` and `Spec =>
  NewBlockStays` for any size of the cache, any addresses and any readers. The invariant is
  `CacheAgrees`: list, index and memory have the same entries (`Agree`), `cur_bytes_` is
  what the list holds (`Weighs`), and `max_bytes_` bounds it. `get()` is an entry that
  leaves all three (`EraseEntry`) and comes back in front (`PushEntry`); `put()` does the
  same with a new entry and keeps the front of the list (`KeepEntries`), where the
  new entry is unless it is too large alone. The sums along the list are recursive functions,
  and what is said of them for every length is proved by the smallest length for
  which it would be false (`HasMinimum`, `HasMaximum`), not by induction.
- `FilesSound`, `TableTypes` (`SsTableProofs`): `Spec => []FileSound` and `Spec => []TypeOK`.
  `CutInv` adds to `FilesInv` that the blocks and the open block, one after the other, are
  what the writer was given (`Joined`), that each is one event or within the target
  (`Fits`), and that the filter's bits are its own, which needs that hashes are natural
  numbers (in `SsTableAssumption`; they are unsigned). `KeysInv` says that blocks and rows
  of a scan are keys of the runs. `TypeOK` follows from these, as only they say that the
  bytes behind a pointer are those of a block, whether or not it is still valid.
- `ListOrdered`, `LinksInside`, `ScansSound`, `SkipTypes` (`SkipListProofs`): `Spec =>
  []LinksOrdered`, `[]InsideNode` and `[]ScanSound` for any number of keys, levels
  and readers (`SizesAssumption`). The invariant is `SkipInv`. `LinksOrdered` is
  about the set `In(l)` of keys linked at level l, which only grows: a node enters
  it with the store that links it. `WriterInv` says that the predecessors found
  so far have no key between them and the new one (`Precedes`), which stays so
  because nobody else inserts, and that a node not yet linked at a level already has the
  right successor there when it is. `ReaderAt` says that a reader stands on a node
  of its level before its range, and `ReaderHas` that what it has passed at level 1
  it has delivered. `TypeOK` is not inductive by itself: that the loop which links
  ends at the height of the node is part of `WriterInv`.
- `NamesCorrect` (`SymbolTableProofs`): `Spec => []NamesKept` for any names, overlong ones included, any ids
  and number of restarts, and any entries not written or not read. `NamesInv`: unless `lost`, the
  table gives different names different ids below
  `next_id_` (`TableInv`), the file, or what `flush()` has still to write of it, has the
  entries of the table that it can hold (`FileInv`), and the ids that records were written with are
  theirs (`UsedInv`). `load()` then finds the entries of the table, and `next_id_` is
  the smallest number above their ids, which exists because a set of numbers has a
  minimum (`HasMinimum`). `lost` is not assumed to stay false: what the theorem says is that
  nothing but such a file breaks the names.
- `OneWorker`, `QuietClose`, `UnjoinedExpired` (`ServerProofs`): `Spec =>
  []WorkerGuarded`, `[]CloseIsQuiet` and `[]UnjoinedOnlyExpired` for any number of
  handlers, requests and events. The invariant, `ServerInv`, adds that the mutex is
  held by the handler that joins, that no request is in progress before `main()`
  listens and after it stopped, and that a thread of a job which is not marked
  running and which nobody is joining has ended by its deadline.

`NoLostWrite` is not inductive. A compaction may delete an input because an
output has its records or newer ones (`OutputsCover`); it wrote that output from
the newest file for each key, which is right because records get newer with the
file number (`RecencyOrder`); that order survives a flush because the memtable
being written is newer than every file and older than every memtable still in
memory, and because one thread at a time holds a memtable (`DrainOrder`); a file
not yet listed has what its flusher holds and is no input of a merge
(`WrittenFile`); numbers are fresh (`Numbering`); and every entry of a table is
a record of its key (`WellStored`), so that "newer" and "superseded" mean the
same. `DurabilityInv` is the conjunction of these. It is checked by TLC in
`core` and proved action by action, one lemma per action. `KeepsRecords` is the
common part: a step that inserts nothing and keeps every table loses nothing.

**Only model-checked.** The liveness properties `FlushedEventually`,
`FullL0Merged`, `CloseReturns`, `ScanReturns`, `Returns`, `StopReturns` and
`SignalEnds`: TLAPS proves nothing about fairness or `ENABLED`.
`LostOnlyByMixing`: its proof would have to carry the invariant of `NothingLost` over files of
earlier runs. Every other property of a passing run is stated by a theorem, some of them under
the conditions named above.

## Not modelled, and plan

What is left that a model could add, in this order:

1. `LsmQuery` with two compactors: `compact_now()` beside the thread may merge the
   same inputs, and both outputs are listed, so that every row of theirs is
   returned twice from then on; and a query for part of the rows (range, limit).
2. Compactions of several outputs (`MaxOutputs`), which use numbers they did not
   reserve: `LsmTree` has them, the runs keep one.
3. `ThroughputTracker::add` under concurrent calls, a figure that no decision reads.

Not planned, with the reason:

- JSON and the other routes of `server.cpp`: each is one call of `DB`. The
  demonstration of recovery works on a directory of its own.
- `evict(path)`, `SSTableReader::get()`, `find_first_block()`, `contains()`,
  `min_key()`, `max_key()`, `sync()` of the log and `status()` of the generator: no
  caller in the program.
- The encoding of events and blocks: fixed-width copies without state, modelled
  by their sizes.
- Memory ordering below the level of critical sections, except in the skip list.
- The metrics, the command line, the generator tool and the benchmarks:
  sequential programs or figures that decide nothing.

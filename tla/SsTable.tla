------------------------------ MODULE SsTable ------------------------------
(***************************************************************************)
(* SSTables: the writer that cuts a sorted run of events into blocks with  *)
(* an index and a Bloom filter, and the readers that scan a range of keys  *)
(* through them and through the block cache that they share                *)
(* (src/src/table, src/src/util/block_cache.cpp).                          *)
(*                                                                         *)
(* An event is its key and a key is a number; the encodings are fixed      *)
(* layouts, of which the sizes matter and are kept.  An offset in a file   *)
(* is the number of the block that is written there.                       *)
(***************************************************************************)
EXTENDS BlockCache

CONSTANTS
    Paths,      \* the files
    Runs,       \* the runs of events that each file may be written from
    Target,     \* block_target_bytes
    Hash1,      \* fnv1a of each key
    Hash2,      \* murmur_mix of each key
    Word,       \* where a hash wraps: 2^32
    FilterBits, \* m_ of the Bloom filters
    HashCount,  \* k_ of the Bloom filters
    Readers,    \* the queries that read
    Asks        \* the files and ranges <<path, start, end>> that each asks for

(* Callers write from ordered maps: memtables, or the merge of a           *)
(* compaction (db.cpp:415-417, compaction.cpp:99-103), and never nothing;  *)
(* the hashes of a key are unsigned integers (bloom_filter.cpp:38-56).  *)
ASSUME SsTableAssumption ==
    /\ Runs \in [Paths -> SUBSET Seq(Nat \ {0})]
    /\ \A p \in Paths : \A events \in Runs[p] :
          /\ events # <<>>
          /\ \A i, j \in DOMAIN events : i < j => events[i] < events[j]
          /\ \A i \in DOMAIN events : Hash1[events[i]] \in Nat /\ Hash2[events[i]] \in Nat
    /\ Target \in Nat
    /\ Asks \in [Readers -> SUBSET (Paths \X Nat \X Nat)]
    /\ Word \in Nat \ {0}
    /\ FilterBits \in Nat \ {0}
    /\ HashCount \in Nat

VARIABLES
    run,        \* the events each file is written from
    file,       \* the files, with the state of their writers
    scan        \* the scan of each reader

fileVars == <<run, file>>
vars == <<run, file, scan, memory, lru, index, curBytes>>

BlockBytes(n) == 4 + 65 * n + 2 * 20 + 4  \* n events, encoded

-----------------------------------------------------------------------------
(* The Bloom filter is the set of its bits.                                *)
Probes(k) ==
    {((Hash1[k] + i * Hash2[k]) % Word) % FilterBits : i \in 0 .. HashCount - 1}

FilterMayContain(filter, k) == Probes(k) \subseteq filter

(* The writer's file; builder holds the events of the open block.          *)
NewTable ==
    [state |-> "open", builder |-> <<>>, blocks |-> <<>>, index |-> <<>>,
     filter |-> {}, count |-> 0, min |-> 0, max |-> 0]

FlushBlock(f) ==
    IF f.builder = <<>> THEN f
    ELSE [f EXCEPT !.blocks = Append(f.blocks, f.builder),
                   !.index = Append(f.index, [first |-> Head(f.builder),
                                              block |-> Len(f.blocks) + 1]),
                   !.builder = <<>>]

(* Mutant: the event to be added is not counted. *)
BuilderFullLate(f) == f.builder # <<>> /\ BlockBytes(Len(f.builder)) > Target

BuilderFull(f) == f.builder # <<>> /\ BlockBytes(Len(f.builder) + 1) > Target

(* The event is counted and hashed, and put in the open block or in a new  *)
(* one.                                                                    *)
WithEvent(f, k) ==
    LET g == IF BuilderFull(f) THEN FlushBlock(f) ELSE f
    IN  [g EXCEPT !.builder = Append(g.builder, k),
                  !.filter = g.filter \cup Probes(k),
                  !.count = g.count + 1,
                  !.min = IF g.count = 0 THEN k ELSE g.min,
                  !.max = k]

Create(p) ==
    /\ file[p].state = "none"
    /\ file' = [file EXCEPT ![p] = NewTable]
    /\ UNCHANGED <<run, scan, cacheVars>>

Add(p) ==
    /\ file[p].state = "open"
    /\ file[p].count < Len(run[p])
    /\ file' = [file EXCEPT ![p] = WithEvent(file[p], run[p][file[p].count + 1])]
    /\ UNCHANGED <<run, scan, cacheVars>>

Finish(p) ==
    /\ file[p].state = "open"
    /\ file[p].count = Len(run[p])
    /\ file' = [file EXCEPT ![p] = [FlushBlock(file[p]) EXCEPT !.state = "finished"]]
    /\ UNCHANGED <<run, scan, cacheVars>>

(* A write of add() or finish() fails: the destructor removes the file.    *)
WriterFails(p) ==
    /\ file[p].state = "open"
    /\ file' = [file EXCEPT ![p] = [NewTable EXCEPT !.state = "removed"]]
    /\ UNCHANGED <<run, scan, cacheVars>>

-----------------------------------------------------------------------------
(* A reader's scan.  lo, hi and at count from 0 as the code does; todo is  *)
(* the result of blocks_in_range.                                          *)
NoScan ==
    [pc |-> "done", path |-> "none", start |-> 0, end |-> 0, lo |-> 0, hi |-> 0,
     todo |-> {}, at |-> 0, block |-> <<>>, pos |-> 0, rows |-> <<>>,
     pointer |-> "null", stopped |-> FALSE, dangled |-> FALSE]

(* Mutant: the bounds of the file are outside it. *)
MayContainInside(f, start, end) ==
    /\ ~(end <= f.min \/ f.max <= start)
    /\ start = end => FilterMayContain(f.filter, start)

(* The constructor reads footer, filter, index and meta block, and then    *)
(* scan() asks may_contain().                                              *)
MayContain(f, start, end) ==
    /\ ~(end < f.min \/ f.max < start)
    /\ start = end => FilterMayContain(f.filter, start)

Start(r, p, start, end) ==
    /\ scan[r].pc \in {"done", "failed"}
    /\ file[p].state = "finished"
    /\ scan' = [scan EXCEPT ![r] =
          [NoScan EXCEPT
              !.pc = IF MayContain(file[p], start, end) THEN "search" ELSE "done",
              !.path = p, !.start = start, !.end = end,
              !.hi = Len(file[p].index)]]
    /\ UNCHANGED <<fileVars, cacheVars>>

Index(r) == file[scan[r].path].index

(* Mutant: the search goes on until the bounds meet. *)
ToSearchUntilMet(s) == s.pc = "search" /\ s.lo < s.hi

ToSearch(s) == s.pc = "search" /\ s.lo + 1 < s.hi

(* Mutant: the middle is excluded although hi is. *)
SearchExcluding(r) ==
    LET s   == scan[r]
        mid == (s.lo + s.hi) \div 2
    IN  /\ ToSearch(s)
        /\ scan' = IF Index(r)[mid + 1].first <= s.start
                   THEN [scan EXCEPT ![r].lo = mid]
                   ELSE [scan EXCEPT ![r].hi = mid - 1]
        /\ UNCHANGED <<fileVars, cacheVars>>

(* One round of the binary search.                                         *)
Search(r) ==
    LET s   == scan[r]
        mid == (s.lo + s.hi) \div 2
    IN  /\ ToSearch(s)
        /\ scan' = IF Index(r)[mid + 1].first <= s.start
                   THEN [scan EXCEPT ![r].lo = mid]
                   ELSE [scan EXCEPT ![r].hi = mid]
        /\ UNCHANGED <<fileVars, cacheVars>>

(* From the block that was found on, up to the first that begins behind    *)
(* the range.                                                              *)
BlocksFrom(first, idx, end) ==
    {i \in first .. Len(idx) - 1 : \A j \in first .. i : idx[j + 1].first <= end}

Found(r) ==
    LET s == scan[r]
    IN  /\ s.pc = "search"
        /\ ~ToSearch(s)
        /\ scan' = [scan EXCEPT ![r].pc = "next", ![r].at = s.lo,
                                ![r].todo = BlocksFrom(s.lo, Index(r), s.end)]
        /\ UNCHANGED <<fileVars, cacheVars>>

(* read_block_at() for the next block: the cache has it, and returns a     *)
(* pointer to it; or it does not.                                          *)
Wanted(r)     == <<scan[r].path, Index(r)[scan[r].at + 1].block>>
WantedData(r) == file[scan[r].path].blocks[Index(r)[scan[r].at + 1].block]

ReadHit(r) ==
    /\ scan[r].pc = "next"
    /\ scan[r].at \in scan[r].todo
    /\ GetHit(Wanted(r))
    /\ scan' = [scan EXCEPT ![r].pc = "decode", ![r].pointer = index[Wanted(r)]]
    /\ UNCHANGED fileVars

ReadMiss(r) ==
    /\ scan[r].pc = "next"
    /\ scan[r].at \in scan[r].todo
    /\ GetMiss(Wanted(r))
    /\ scan' = [scan EXCEPT ![r].pc = "missed"]
    /\ UNCHANGED fileVars

(* The block is read from the file, and a copy of it goes to the cache.    *)
Load(r) ==
    /\ scan[r].pc = "missed"
    /\ Put(Wanted(r), WantedData(r), BlockBytes(Len(WantedData(r))))
    /\ scan' = [scan EXCEPT ![r].pc = "events", ![r].pos = 1, ![r].block = WantedData(r)]
    /\ UNCHANGED fileVars

(* pread() gives less, or the checksum of what it gives does not match:    *)
(* the exception ends the scan.                                            *)
LoadFails(r) ==
    /\ scan[r].pc = "missed"
    /\ scan' = [scan EXCEPT ![r] = [NoScan EXCEPT !.pc = "failed"]]
    /\ UNCHANGED <<fileVars, cacheVars>>

(* The bytes behind the pointer are decoded, with mu_ released.  When the  *)
(* entry has been freed meanwhile, they may be those of an entry that was  *)
(* allocated in its place, or still be there, or neither: then the         *)
(* checksum refuses them and the caller passes over the file.              *)
PointerValid(r) ==
    /\ scan[r].pointer \in DOMAIN memory
    /\ memory[scan[r].pointer].key = Wanted(r)

Decode(r) ==
    /\ scan[r].pc = "decode"
    /\ scan' = [scan EXCEPT ![r].pc = "events", ![r].pos = 1, ![r].pointer = "null",
                            ![r].block = IF scan[r].pointer \in DOMAIN memory
                                         THEN memory[scan[r].pointer].data
                                         ELSE WantedData(r),
                            ![r].dangled = scan[r].dangled \/ ~PointerValid(r)]
    /\ UNCHANGED <<fileVars, cacheVars>>

DecodeFails(r) ==
    /\ scan[r].pc = "decode"
    /\ scan[r].pointer \notin DOMAIN memory
    /\ scan' = [scan EXCEPT ![r] = [NoScan EXCEPT !.pc = "failed"]]
    /\ UNCHANGED <<fileVars, cacheVars>>

(* Block::scan, one event: skipped before the range, the end of the block  *)
(* behind it, otherwise given to the callback.                             *)
NextEvent(r) == scan[r].block[scan[r].pos]
InBlock(r)   == scan[r].pc = "events" /\ scan[r].pos <= Len(scan[r].block)

SkipEvent(r) ==
    /\ InBlock(r)
    /\ NextEvent(r) < scan[r].start
    /\ scan' = [scan EXCEPT ![r].pos = scan[r].pos + 1]
    /\ UNCHANGED <<fileVars, cacheVars>>

TakeEvent(r) ==
    /\ InBlock(r)
    /\ NextEvent(r) >= scan[r].start
    /\ NextEvent(r) <= scan[r].end
    /\ scan' = [scan EXCEPT ![r].pos = scan[r].pos + 1,
                            ![r].rows = Append(scan[r].rows, NextEvent(r))]
    /\ UNCHANGED <<fileVars, cacheVars>>

Ended(r, rows, stopped) ==
    [NoScan EXCEPT !.path = scan[r].path, !.start = scan[r].start, !.end = scan[r].end,
                   !.rows = rows, !.stopped = stopped, !.dangled = scan[r].dangled]

(* ... and the callback wants no more, so the scan ends.                   *)
TakeLastEvent(r) ==
    /\ InBlock(r)
    /\ NextEvent(r) >= scan[r].start
    /\ NextEvent(r) <= scan[r].end
    /\ scan' = [scan EXCEPT ![r] = Ended(r, Append(scan[r].rows, NextEvent(r)), TRUE)]
    /\ UNCHANGED <<fileVars, cacheVars>>

LeaveBlock(r) ==
    /\ scan[r].pc = "events"
    /\ \/ scan[r].pos > Len(scan[r].block)
       \/ InBlock(r) /\ NextEvent(r) >= scan[r].start /\ NextEvent(r) > scan[r].end
    /\ scan' = [scan EXCEPT ![r].pc = "next", ![r].at = scan[r].at + 1,
                            ![r].block = <<>>, ![r].pos = 0]
    /\ UNCHANGED <<fileVars, cacheVars>>

Return(r) ==
    /\ scan[r].pc = "next"
    /\ scan[r].at \notin scan[r].todo
    /\ scan' = [scan EXCEPT ![r] = Ended(r, scan[r].rows, FALSE)]
    /\ UNCHANGED <<fileVars, cacheVars>>

-----------------------------------------------------------------------------
Given ==
    {g \in [Paths -> UNION {Runs[p] : p \in Paths}] : \A p \in Paths : g[p] \in Runs[p]}

Init ==
    /\ run \in Given
    /\ file = [p \in Paths |-> [NewTable EXCEPT !.state = "none"]]
    /\ scan = [r \in Readers |-> NoScan]
    /\ CacheInit

Write(p) == Create(p) \/ Add(p) \/ Finish(p) \/ WriterFails(p)

ScanStep(r) ==
    \/ Search(r) \/ Found(r) \/ ReadHit(r) \/ ReadMiss(r) \/ Load(r) \/ LoadFails(r)
    \/ Decode(r) \/ DecodeFails(r) \/ SkipEvent(r) \/ TakeEvent(r)
    \/ TakeLastEvent(r) \/ LeaveBlock(r) \/ Return(r)

Next ==
    \/ \E p \in Paths : Write(p)
    \/ \E r \in Readers :
          \/ \E ask \in Asks[r] : Start(r, ask[1], ask[2], ask[3])
          \/ ScanStep(r)

Spec == Init /\ [][Next]_vars
LiveSpec == Spec /\ \A r \in Readers : WF_vars(ScanStep(r))

-----------------------------------------------------------------------------
Keys == UNION {ToSet(s) : s \in UNION {Runs[p] : p \in Paths}}

Table ==
    [state : {"none", "open", "finished", "removed"}, builder : Seq(Keys),
     blocks : Seq(Seq(Keys)), index : Seq([first : Keys, block : Nat]),
     filter : SUBSET (0 .. FilterBits - 1), count : Nat, min : Nat, max : Nat]

Scan ==
    [pc : {"search", "next", "missed", "decode", "events", "done", "failed"},
     path : Paths \cup {"none"}, start : Nat, end : Nat, lo : Nat, hi : Nat,
     todo : SUBSET Nat, at : Nat, block : Seq(Keys), pos : Nat, rows : Seq(Keys),
     pointer : Addresses \cup {"null"}, stopped : BOOLEAN, dangled : BOOLEAN]

(* The types.                                                              *)
TypeOK ==
    /\ run \in Given
    /\ file \in [Paths -> Table]
    /\ scan \in [Readers -> Scan]
    /\ \A a \in DOMAIN memory : a \in Addresses /\ memory[a].data \in Seq(Keys)
    /\ lru \in Seq(Addresses)
    /\ DOMAIN index \subseteq Paths \X Nat
    /\ curBytes \in Nat

(* A finished file holds what add() was given: its blocks, one after the   *)
(* other, are the run, none of them empty or more than the target unless   *)
(* a single event is; the index has every block under its first key, the   *)
(* meta block the first and last key, and the filter misses no key         *)
(* (sstable.cpp:91-168, block.cpp:24-31).                                  *)
FileSound ==
    \A p \in Paths : file[p].state = "finished" =>
        LET f == file[p]
        IN  /\ FlattenSeq(f.blocks) = run[p]
            /\ \A i \in DOMAIN f.blocks :
                  /\ f.blocks[i] # <<>>
                  /\ Len(f.blocks[i]) > 1 => BlockBytes(Len(f.blocks[i])) <= Target
            /\ Len(f.index) = Len(f.blocks)
            /\ \A i \in DOMAIN f.index :
                  f.index[i] = [first |-> f.blocks[i][1], block |-> i]
            /\ f.min = run[p][1] /\ f.max = run[p][Len(run[p])]
            /\ \A k \in ToSet(run[p]) : FilterMayContain(f.filter, k)

(* The keys of the file in the range that is scanned.                      *)
Matching(r) ==
    {k \in ToSet(run[scan[r].path]) : scan[r].start <= k /\ k <= scan[r].end}

Scanning(r) == scan[r].path # "none"

(* A scan gives the events of its range, in order, and passes over none:   *)
(* whichever blocks the search begins and the index ends with, whatever    *)
(* the filter and the early ends decide, and wherever the blocks come      *)
(* from, unless the pointer to one had become invalid (sstable.cpp:291,    *)
(* index.cpp:42, block.cpp:109).                                           *)
ScanExact ==
    \A r \in Readers : Scanning(r) /\ ~scan[r].dangled =>
        LET rows == scan[r].rows
        IN  /\ \A i, j \in DOMAIN rows : i < j => rows[i] < rows[j]
            /\ ToSet(rows) \subseteq Matching(r)
            /\ \A k \in Matching(r) \ ToSet(rows) : \A i \in DOMAIN rows : rows[i] < k
            /\ scan[r].pc = "done" /\ ~scan[r].stopped => Matching(r) \subseteq ToSet(rows)

(* What the binary search keeps: the blocks before lo begin within or      *)
(* before the range, and those from hi on behind its start; so the blocks  *)
(* it leaves to read are all that can hold an event of the range, and they *)
(* are blocks of the file (index.cpp:42-63).                             *)
SearchKeeps ==
    \A r \in Readers :
        LET s == scan[r]
            n == Len(Index(r))
        IN  /\ s.pc = "search" =>
                  /\ s.lo < s.hi /\ s.hi <= n
                  /\ s.lo > 0 => Index(r)[s.lo + 1].first <= s.start
                  /\ s.hi < n => Index(r)[s.hi + 1].first > s.start
            /\ s.pc \in {"next", "missed", "decode", "events"} =>
                  /\ s.todo \subseteq 0 .. n - 1
                  /\ \A i \in 1 .. n :
                        ToSet(file[s.path].blocks[i]) \cap Matching(r) # {} => i - 1 \in s.todo

(* put() keeps the block it was given, for the next reader, unless that    *)
(* block alone is larger than the cache: what it evicts is what was not    *)
(* used for longest (block_cache.cpp:41-47).                               *)
NewBlockStays ==
    [][\A r \in Readers : scan[r].pc = "missed" /\ scan'[r].pc = "events" =>
          \/ Wanted(r) \in DOMAIN index'
          \/ BlockBytes(Len(scan'[r].block)) > MaxBytes]_vars

(* Every scan ends: the search closes in on a block, and the loops over    *)
(* blocks and events move on (index.cpp:49-55, sstable.cpp:298-308).       *)
ScanReturns ==
    \A r \in Readers :
        scan[r].pc \notin {"done", "failed"} ~> scan[r].pc \in {"done", "failed"}

(* "Pointer valid until next put/evict on the same object"                 *)
(* (block_cache.hpp:24): a pointer that a reader still has to decode is to *)
(* the entry it asked for (sstable.cpp:245-249).                           *)
PointersValid ==
    \A r \in Readers : scan[r].pc = "decode" => PointerValid(r)
=============================================================================

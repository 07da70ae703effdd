----------------------------- MODULE LsmRestart -----------------------------
(***************************************************************************)
(* An instance that is opened again, after close() or after the process    *)
(* died in whatever it was doing: what DB::open makes of the files and the *)
(* log it finds (src/src/db/db.cpp:22-89).  The log is never shortened and *)
(* its whole content is inserted again; sequence ids go on after its last  *)
(* record; file numbers start again at 1, whatever files are there.        *)
(*                                                                         *)
(* So a flush may come to write to a path that levels_[0] lists.  Nothing  *)
(* keeps the compaction thread from that path: here the flush truncates    *)
(* the file and completes it in two steps, a merge may run into the middle,*)
(* and the list gets a second entry of the path.                           *)
(*                                                                         *)
(* The log's own crashes are in Wal: here an append to it takes place or   *)
(* does not.  The names of symbols are never lost here.                    *)
(***************************************************************************)
EXTENDS LsmTree

\* Bounds of the instance, in guards only.
CONSTANTS
    MaxRestarts,    \* times the instance is opened again
    MaxLog          \* records of the log

ASSUME RestartBounds == MaxRestarts \in Nat /\ MaxLog \in Nat

VARIABLES
    former,     \* the table a drainer's file had before it truncated it
    doubled,    \* numbers that levels_[0] has two entries of
    restarts,   \* times it was opened again
    \* specification only
    behind,     \* at the last restart, the last record of the log did not have
                \* the largest sequence id
    inherited,  \* numbers levels_[0] lists since the restart, not flushed since
    mixed       \* a merge has begun that has one of them as an input

reopenVars == <<former, doubled, restarts, behind, inherited, mixed>>

RestartInit ==
    /\ Init
    /\ former = [d \in Drainers |-> Empty] /\ doubled = {} /\ restarts = 0
    /\ behind = FALSE /\ inherited = {} /\ mixed = FALSE

Last(s) == s[Len(s)]

(* Mutant: the first record of a key stays, later ones do not replace it.  *)
ReplayedFirst(k) ==
    LET at == {i \in DOMAIN wal : wal[i].key = k}
    IN  IF at = {} THEN 0
        ELSE Len(history) + CHOOSE i \in at : \A j \in at : i <= j

(* The version that a memtable has for k when the log was inserted into it. *)
Replayed(k) ==
    LET at == {i \in DOMAIN wal : wal[i].key = k}
    IN  IF at = {} THEN 0
        ELSE Len(history) + CHOOSE i \in at : \A j \in at : j <= i

(* Mutant: the id of the last record is issued again. *)
FirstIdReissued == IF wal = <<>> THEN 1 ELSE Last(wal).key[2]

FirstId == IF wal = <<>> THEN 1 ELSE Last(wal).key[2] + 1

-----------------------------------------------------------------------------
(* Flush and compaction beside files of an earlier run.                    *)

(* SSTableWriter opens the path of a file that is there: its content is    *)
(* gone at once.                                                           *)
Truncate(d) ==
    /\ FlushStep(d, "write", "rewrite")
    /\ sstSeq \in DOMAIN file0 /\ sstSeq <= MaxSst
    /\ sstSeq' = sstSeq + 1
    /\ number' = [number EXCEPT ![d] = sstSeq]
    /\ former' = [former EXCEPT ![d] = file0[sstSeq]]
    /\ file0' = [file0 EXCEPT ![sstSeq] = Empty]
    /\ UNCHANGED <<bufferVars, levelVars, file1, writerVars, held, mergeVars,
                   fault, history>>

(* The file is complete.  If a merge has removed the path meanwhile, no    *)
(* name leads to it.                                                       *)
Rewrite(d) ==
    /\ FlushStep(d, "rewrite", "publish")
    /\ file0' = [n \in DOMAIN file0 |-> IF n = number[d] THEN held[d] ELSE file0[n]]
    /\ former' = [former EXCEPT ![d] = Empty]
    /\ UNCHANGED <<bufferVars, sstSeq, levelVars, file1, writerVars, held, number,
                   mergeVars, fault, history>>

(* Drainer d writes over input n of a merge while the merge reads it: it   *)
(* got its number before the merge got one, or right after it.             *)
Overwrites(d, n) ==
    \/ fpc[d] = "rewrite" /\ number[d] = n
    \/ fpc[d] = "write" /\ n = sstSeq + 1 /\ n \in DOMAIN file0

(* What such a merge may find under a key: blocks of the file as it was, of *)
(* the file as it is going to be, and no block that has the key.           *)
Found(d, n) ==
    LET before == IF fpc[d] = "rewrite" THEN former[d] ELSE file0[n]
    IN  {[k \in Keys |-> CASE from[k] = "before" -> before[k]
                           [] from[k] = "after"  -> held[d][k]
                           [] from[k] = "none"   -> 0] :
            from \in [Keys -> {"before", "after", "none"}]} \ {Empty}

MergedFinding(ns, n, found) ==
    [k \in Keys |->
        LET read   == [file0 EXCEPT ![n] = found]
            having == {m \in ns : read[m][k] # 0}
        IN  IF having = {} THEN 0 ELSE read[Newest(having)][k]]

(* Compaction::run over an input that is being overwritten ... *)
CompactMixed(c) ==
    /\ CompactStep(c, "run", "delete")
    /\ sstSeq <= MaxSst
    /\ sstSeq' = sstSeq + 1
    /\ job[c].inputs \subseteq DOMAIN file0
    /\ \E d \in Drainers, n \in job[c].inputs :
          /\ Overwrites(d, n)
          /\ \E found \in Found(d, n) :
                LET merged == MergedFinding(job[c].inputs, n, found)
                IN  \E part \in Splits(merged) :
                      LET outs == {sstSeq + part[k] - 1 : k \in {x \in Keys : merged[x] # 0}}
                      IN  /\ WriteOutputs(merged, part, outs, {})
                          /\ job' = [job EXCEPT ![c].outs = outs]
    /\ UNCHANGED <<bufferVars, levelVars, file0, writerVars, drainVars, fault,
                   history, former>>

(* ... and mostly it throws: the file has no footer yet, or a block's      *)
(* checksum does not match.                                                *)
CompactBaffled(c) ==
    /\ CompactStep(c, "run", IF c \in Background THEN "exited" ELSE "idle")
    /\ sstSeq <= MaxSst
    /\ sstSeq' = sstSeq + 1
    /\ \E d \in Drainers, n \in job[c].inputs : Overwrites(d, n)
    /\ job' = [job EXCEPT ![c] = NoJob]
    /\ fault' = IF c \in Background THEN "terminate" ELSE fault
    /\ UNCHANGED <<bufferVars, levelVars, fileVars, writerVars, drainVars, history,
                   former>>

(* needs_l0_compact() counts entries, not files. *)
CompactWakeDoubled(c) ==
    /\ c \in Background
    /\ CompactStep(c, "wait", "snapshot")
    /\ ~StopCompact /\ ~NeedsL0Compact
    /\ Cardinality(level0) + Cardinality(doubled) >= Trigger
    /\ UNCHANGED <<bufferVars, sstSeq, levelVars, fileVars, writerVars,
                   drainVars, job, fault, history, former>>

Beside ==
    \/ \E d \in Drainers : Truncate(d) \/ Rewrite(d)
    \/ \E c \in Compactors :
          CompactMixed(c) \/ CompactBaffled(c) \/ CompactWakeDoubled(c)

(* The steps of LsmTree that the ones above stand for instead: a flush over *)
(* a file, a merge of a truncated file, a wait that ends below the trigger. *)
Replaced ==
    \/ \E d \in Drainers :
          fpc[d] = "write" /\ fpc'[d] = "publish" /\ sstSeq \in DOMAIN file0
    \/ \E c \in Compactors, d \in Drainers :
          /\ cpc[c] = "run" /\ cpc'[c] = "delete"
          /\ fpc[d] = "rewrite" /\ number[d] \in job[c].inputs
    \/ \E c \in Compactors :
          /\ cpc[c] = "wait" /\ cpc'[c] = "check" /\ ~StopCompact
          /\ Cardinality(level0) + Cardinality(doubled) >= Trigger

(* What a flush publishes is listed again if its path was, and is its own. *)
Published == {number[d] : d \in {x \in Drainers : fpc[x] = "publish" /\ fpc'[x] # "publish"}}

Relisted == doubled' = (doubled \cup (level0 \cap Published)) \cap level0'

Marked ==
    /\ inherited' = inherited \ Published
    /\ mixed' = (mixed \/ \E c \in Compactors : /\ cpc[c] = "snapshot" /\ cpc'[c] = "run"
                                                /\ level0 \cap inherited # {})

-----------------------------------------------------------------------------
(* The numbers of the files that a merge has begun to write.  One that the *)
(* death of the process leaves unfinished cannot be opened; the file an    *)
(* earlier run wrote under its number is gone.                             *)
Unfinished ==
    LET busy == {d \in Drainers : fpc[d] = "write"} \cup {c \in Compactors : cpc[c] = "run"}
    IN  IF \E c \in Compactors : cpc[c] = "run"
        THEN sstSeq .. sstSeq + Cardinality(busy) - 1 ELSE {}

Truncated == {number[d] : d \in {x \in Drainers : fpc[x] = "rewrite"}}

(* The process ends, whatever it was doing, and open() runs: the files are *)
(* listed, the log is inserted into one memtable that no size limits, the  *)
(* threads are started.  A short write at the end of the log is cut off    *)
(* and its segment sealed.  Calls in progress and memory are gone.         *)
Restart ==
    /\ restarts < MaxRestarts
    /\ restarts' = restarts + 1
    /\ behind' = \E e \in InLog : wal = <<>> \/ e.key[2] > Last(wal).key[2]
    /\ file0' = [n \in DOMAIN file0 \ Truncated |-> file0[n]]
    /\ level0' = DOMAIN file0 \ Truncated
    /\ \E broken \in SUBSET Unfinished :
          /\ file1' = [n \in DOMAIN file1 \ broken |-> file1[n]]
          /\ level1' = DOMAIN file1 \ broken
    /\ active' = [k \in Keys |-> Replayed(k)]
    /\ used' = Len(wal)
    /\ history' = history \o wal
    /\ nextSeq' = FirstId
    /\ moved' = FALSE /\ imms' = <<>>
    /\ sstSeq' = 1 /\ dropped' = {} /\ unremoved' = {}
    /\ torn' = FALSE
    /\ wpc' = [w \in Writers |-> "idle"]
    /\ op' = [w \in Writers |-> NoEvent]
    /\ fpc' = [d \in Drainers |-> IF d = Closer THEN "open"
                                  ELSE IF d \in Background THEN "check" ELSE "idle"]
    /\ held' = [d \in Drainers |-> Empty]
    /\ number' = [d \in Drainers |-> 0]
    /\ cpc' = [c \in Compactors |-> Home(c)]
    /\ job' = [c \in Compactors |-> NoJob]
    /\ fault' = "none"
    /\ former' = [d \in Drainers |-> Empty]
    /\ doubled' = {}
    /\ inherited' = level0' /\ mixed' = FALSE
    /\ UNCHANGED <<symbols, wal, hidden>>

Run ==
    /\ \/ Next /\ ~Replaced /\ UNCHANGED former
       \/ fault = "none" /\ Beside
    /\ Len(wal') <= MaxLog
    /\ Relisted /\ Marked
    /\ UNCHANGED <<restarts, behind>>

RestartNext == Run \/ Restart

RestartSpec == RestartInit /\ [][RestartNext]_<<vars, reopenVars>>

-----------------------------------------------------------------------------
(* No write is lost to the files of an earlier run before a merge takes    *)
(* one of them as its input: a flush may overwrite them, the log has       *)
(* brought back what they hold, and what it brought back is flushed and    *)
(* merged like any other record (db.cpp:33-52, 62-72, 405-421, db.hpp:105).*)
(* Once a merge has taken one in, numbers do not tell age any more, and it *)
(* deletes the paths it has listed, whatever has been written to them.     *)
LostOnlyByMixing == ~mixed => NoLostWrite

(* "The newest SSTable's version appears first and wins during dedup"      *)
(* (compaction.cpp:52-53): an event or a tombstone, a merge keeps of a key *)
(* what the newest record of its inputs is.                                *)
NewestWins ==
    \A c \in Compactors, k \in Keys :
        LET ns == job[c].inputs
        IN  cpc[c] = "run" /\ ns \subseteq DOMAIN file0 =>
              \A n \in ns : file0[n][k] # 0 /\ (\A m \in ns : file0[m][k] <= file0[n][k])
                  => history[Merged(ns)[k]].kind = history[file0[n][k]].kind

(* The log has two events of one key: an id was issued again, after a       *)
(* restart that found a smaller one in the last record (see IdsFresh).     *)
Reissued(k) ==
    \E i, j \in DOMAIN wal :
        i < j /\ wal[i] = [key |-> k, kind |-> "event"] /\ wal[j] = wal[i]

(* Opening again restores everything: each record ever inserted is held, or *)
(* a newer one for its key is, and for a key that no call was writing the  *)
(* last record is of the same kind as before, although flushes overwrote   *)
(* files of earlier runs and compactions mixed them (db.cpp:62-69).  When  *)
(* an id was issued again a remove() can overtake the second event of its  *)
(* key between log and memory, which then disagree.                        *)
RestartRestores ==
    [][ restarts' # restarts =>
          /\ NoLostWrite'
          /\ \A k \in Keys : ~Reissued(k) /\ (\A w \in InFlight : op[w].key # k)
                                => LastKind(history, k) = LastKind(history', k) ]_<<vars, reopenVars>>

(* No id of a record that is in the tree is issued again, unless the log   *)
(* had at a restart a record of a larger id than its last: a remove(), an  *)
(* append() overtaken between fetch_add and log (db.cpp:71), or one that   *)
(* no reader gets because it lies behind a short write.                    *)
IdsFresh == ~behind => \A v \in Versions : history[v].key[2] < nextSeq
=============================================================================

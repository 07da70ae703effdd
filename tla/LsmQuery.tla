------------------------------ MODULE LsmQuery ------------------------------
(***************************************************************************)
(* DB::query (src/src/db/db.cpp:235-328) beside the writers, flushes and   *)
(* compactions of LsmTree.  A query scans memory under mem_mu_, copies the *)
(* lists of files under levels_mu_, and reads the files one by one with no *)
(* lock held; a file that is gone by then is passed over.  Queries share a  *)
(* block cache: one that fills it may free a block another is decoding     *)
(* (module BlockCache), which this module has as a read that goes wrong.   *)
(*                                                                         *)
(* The time range covers every event and the limit is larger than the      *)
(* number of records, so a query asks for all the events of one symbol.    *)
(* It returns a bag: how often it returned each version.                   *)
(***************************************************************************)
EXTENDS LsmTree

CONSTANTS
    Readers     \* threads that call query()

VARIABLES
    rpc,        \* where each reader is
    target,     \* the symbol each reader asks for
    unread,     \* files_to_scan, as <<level, number>>, less those done with
    rows,       \* how often each version is in the result
    misread,    \* a read of one of its files went wrong: `rows' says nothing
    \* specification only
    before,     \* events of the symbol that were stored when the query began
    removed,    \* those of them that were removed when it began
    shifted     \* those that have changed their place since

queryVars == <<rpc, target, unread, rows, misread, before, removed, shifted>>

NoRows == [v \in 1 .. MaxWrites |-> 0]

(* Where a query may find version v.  A memtable is under mem_mu_ whether  *)
(* it is active or immutable; a memtable in the hands of a drainer and a   *)
(* file that is not listed are nowhere.                                    *)
Places(v) ==
    LET k == history[v].key
        InMemory == active[k] = v \/ \E i \in 1 .. Len(imms) : imms[i][k] = v
    IN  {<<"memory", 0>> : x \in {y \in {1} : InMemory}}
          \cup {<<"l0", n>> : n \in {m \in level0 \cap DOMAIN file0 : file0[m][k] = v}}
          \cup {<<"l1", n>> : n \in {m \in level1 \cap DOMAIN file1 : file1[m][k] = v}}

QueryInit ==
    /\ Init
    /\ rpc = [r \in Readers |-> "idle"]
    /\ target = [r \in Readers |-> NoEvent]
    /\ unread = [r \in Readers |-> {}]
    /\ rows = [r \in Readers |-> NoRows]
    /\ misread = [r \in Readers |-> FALSE]
    /\ before = [r \in Readers |-> {}]
    /\ removed = [r \in Readers |-> {}]
    /\ shifted = [r \in Readers |-> {}]

QueryStep(r, from, to) ==
    /\ fault = "none"
    /\ rpc[r] = from
    /\ rpc' = [rpc EXCEPT ![r] = to]
    /\ UNCHANGED vars

(* The filter of filter_and_collect: events of the symbol, no tombstone.   *)
Collect(r, table) ==
    {v \in Versions : /\ history[v].kind = "event"
                      /\ history[v].key[1] = target[r]
                      /\ table[history[v].key] = v}

Returned(r, tables) ==
    [v \in 1 .. MaxWrites |-> rows[r][v] + Cardinality({t \in DOMAIN tables : v \in Collect(r, tables[t])})]

(* A symbol that was never interned ends the query at once, with nothing.  *)
QueryBegin(r, s) ==
    /\ ~Closed
    /\ s \in symbols
    /\ QueryStep(r, "idle", "memory")
    /\ target' = [target EXCEPT ![r] = s]
    /\ before' = [before EXCEPT ![r] =
                    {v \in Versions : /\ history[v].kind = "event"
                                      /\ history[v].key[1] = s
                                      /\ Places(v) # {}}]
    /\ removed' = [removed EXCEPT ![r] =
                    {v \in Versions : \E u \in Versions :
                        u > v /\ history[u] = [key |-> history[v].key, kind |-> "tombstone"]}]
    /\ UNCHANGED <<unread, rows, misread, shifted>>

(* active_mem_, if there is one, and then imm_mems_.                       *)
ScanMemory(r) ==
    /\ QueryStep(r, "memory", "levels")
    /\ rows' = [rows EXCEPT ![r] = Returned(r, (IF moved THEN <<>> ELSE <<active>>) \o imms)]
    /\ UNCHANGED <<target, unread, misread, before, removed, shifted>>

CopyLevels(r) ==
    /\ QueryStep(r, "levels", "files")
    /\ unread' = [unread EXCEPT ![r] = {<<"l0", n>> : n \in level0} \cup {<<"l1", n>> : n \in level1}]
    /\ UNCHANGED <<target, rows, misread, before, removed, shifted>>

(* The files of L0 come first.  Once open, a file is read to its end.      *)
NextFile(r) ==
    LET first == {f \in unread[r] : f[1] = "l0"}
    IN  IF first # {} THEN first ELSE unread[r]

(* Mutant: the first file that is missing ends the loop. *)
SkipAllFiles(r, f) ==
    /\ f \in NextFile(r)
    /\ f[2] \notin DOMAIN (IF f[1] = "l0" THEN file0 ELSE file1)
    /\ QueryStep(r, "files", "files")
    /\ unread' = [unread EXCEPT ![r] = {}]
    /\ UNCHANGED <<target, rows, misread, before, removed, shifted>>

ReadFile(r, f) ==
    LET files == IF f[1] = "l0" THEN file0 ELSE file1
    IN  /\ f \in NextFile(r)
        /\ f[2] \in DOMAIN files
        /\ QueryStep(r, "files", "files")
        /\ unread' = [unread EXCEPT ![r] = @ \ {f}]
        /\ rows' = [rows EXCEPT ![r] = IF misread[r] THEN NoRows
                                        ELSE Returned(r, <<files[f[2]]>>)]
        /\ UNCHANGED <<target, misread, before, removed, shifted>>

(* The file cannot be read, or a block of the cache that is being decoded  *)
(* is freed by another query: decoding throws, which ends this file after  *)
(* some of its rows, or takes what the memory holds by then for the block. *)
(* From then on the query may return anything: `rows' does not say what,   *)
(* and nothing is claimed of it.                                           *)
(* That it may crash, which ends every thread, is left out.                *)
Misread(r, f) ==
    /\ f \in NextFile(r)
    /\ f[2] \in DOMAIN (IF f[1] = "l0" THEN file0 ELSE file1)
    /\ DiskFaults \/ \E s \in Readers \ {r} : rpc[s] = "files"
    /\ QueryStep(r, "files", "files")
    /\ unread' = [unread EXCEPT ![r] = @ \ {f}]
    /\ rows' = [rows EXCEPT ![r] = NoRows]
    /\ misread' = [misread EXCEPT ![r] = TRUE]
    /\ before' = [before EXCEPT ![r] = {}]
    /\ removed' = [removed EXCEPT ![r] = {}]
    /\ shifted' = [shifted EXCEPT ![r] = {}]
    /\ UNCHANGED target

(* "Tolerate a file that was deleted by concurrent compaction" *)
SkipFile(r, f) ==
    /\ f \in NextFile(r)
    /\ f[2] \notin DOMAIN (IF f[1] = "l0" THEN file0 ELSE file1)
    /\ QueryStep(r, "files", "files")
    /\ unread' = [unread EXCEPT ![r] = @ \ {f}]
    /\ UNCHANGED <<target, rows, misread, before, removed, shifted>>

(* Mutant: what a query keeps for the next is not reset. *)
QueryReturnDirty(r) ==
    /\ unread[r] = {}
    /\ QueryStep(r, "files", "idle")
    /\ target' = [target EXCEPT ![r] = NoEvent]
    /\ before' = [before EXCEPT ![r] = {}]
    /\ removed' = [removed EXCEPT ![r] = {}]
    /\ shifted' = [shifted EXCEPT ![r] = {}]
    /\ misread' = [misread EXCEPT ![r] = FALSE]
    /\ UNCHANGED <<unread, rows>>

QueryReturn(r) ==
    /\ unread[r] = {}
    /\ QueryStep(r, "files", "idle")
    /\ target' = [target EXCEPT ![r] = NoEvent]
    /\ rows' = [rows EXCEPT ![r] = NoRows]
    /\ misread' = [misread EXCEPT ![r] = FALSE]
    /\ before' = [before EXCEPT ![r] = {}]
    /\ removed' = [removed EXCEPT ![r] = {}]
    /\ shifted' = [shifted EXCEPT ![r] = {}]
    /\ UNCHANGED unread

(* A step of the tree, with the places it changes.                         *)
TreeStep ==
    /\ Next
    /\ shifted' = [r \in Readers |->
                     shifted[r] \cup {v \in before[r] : Places(v)' # Places(v)}]
    /\ UNCHANGED <<rpc, target, unread, rows, misread, before, removed>>

QueryNext ==
    \/ TreeStep
    \/ \E r \in Readers :
          \/ \E s \in Symbols : QueryBegin(r, s)
          \/ ScanMemory(r) \/ CopyLevels(r) \/ QueryReturn(r)
          \/ \E f \in unread[r] : ReadFile(r, f) \/ Misread(r, f) \/ SkipFile(r, f)

QuerySpec == QueryInit /\ [][QueryNext]_<<vars, queryVars>>

-----------------------------------------------------------------------------
(* Properties.                                                             *)

Finished(r) == rpc[r] = "files" /\ unread[r] = {}

QueryTypeOK ==
    /\ rpc \in [Readers -> {"idle", "memory", "levels", "files"}]
    /\ target \in [Readers -> Symbols \cup {NoEvent}]
    /\ \A r \in Readers : unread[r] \subseteq {"l0", "l1"} \X (1 .. MaxSst)
    /\ rows \in [Readers -> [1 .. MaxWrites -> Nat]]
    /\ misread \in [Readers -> BOOLEAN]
    /\ \A r \in Readers : shifted[r] \subseteq before[r] /\ before[r] \subseteq Versions
    /\ \A r \in Readers : rpc[r] \in {"idle", "memory"} => unread[r] = {} /\ rows[r] = NoRows

(* What stays where it is while a query runs is returned, and once:        *)
(* whatever is flushed, merged, deleted or inserted meanwhile, a query     *)
(* misses or repeats only events that changed their place (db.cpp:271-320).*)
(* That is for one compactor: two may both list what they merged of the    *)
(* same files; and for a query none of whose reads went wrong, which is    *)
(* every query while no two of them are among the files at a time.         *)
StableRowsOnce ==
    \A r \in Readers : Finished(r) /\ ~misread[r] =>
        \A v \in before[r] \ shifted[r] : rows[r][v] = 1

(* "Should be gone" (test/tombstone_test.cpp:38): an event that remove()   *)
(* had removed when the query began is not returned.                       *)
RemovedStaysGone ==
    \A r \in Readers : Finished(r) => \A v \in removed[r] : rows[r][v] = 0
=============================================================================

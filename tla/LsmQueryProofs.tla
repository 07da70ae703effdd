--------------------------- MODULE LsmQueryProofs ---------------------------
(***************************************************************************)
(* Theorems about LsmQuery: any number of readers beside any number of     *)
(* writers, with one flush thread and one compactor, while files are       *)
(* listed, merged, deleted and unlisted and the instance is closed.        *)
(***************************************************************************)
EXTENDS LsmQuery, LsmTreeDurability

-----------------------------------------------------------------------------
(* What the steps of the tree leave a query.                               *)

(* No more records are inserted than the bound of the instance allows.     *)
WritesBounded ==
    /\ IsFiniteSet(InFlight)
    /\ Len(history) + Cardinality(InFlight) <= MaxWrites

LEMMA WritesBoundedStep ==
    ASSUME TypeOK, WritesBounded, [Next]_vars
    PROVE  WritesBounded'
<1>0. Len(history) \in Nat /\ Cardinality(InFlight) \in Nat /\ MaxWrites \in Nat
  BY FS_CardinalityType, NumbersAssumption DEF WritesBounded, TypeOK
<1>1. CASE UNCHANGED <<wpc, history>>
  BY <1>1 DEF WritesBounded, InFlight
<1>2. ASSUME NEW w \in Writers, WriterStep(w), ~UNCHANGED <<wpc, history>>
      PROVE  WritesBounded'
  <2>1. CASE (\E s \in Symbols : AppendBegin(w, s)) \/ (\E k \in Keys : RemoveBegin(w, k))
    <3>1. /\ Len(history) + Cardinality(InFlight) < MaxWrites /\ UNCHANGED history
          /\ wpc' = [wpc EXCEPT ![w] = "log"] /\ wpc[w] = "idle"
      BY <2>1 DEF AppendBegin, RemoveBegin, Begin
    <3>2. InFlight' = InFlight \cup {w} /\ w \notin InFlight
      BY <3>1 DEF InFlight, TypeOK
    <3>3. IsFiniteSet(InFlight') /\ Cardinality(InFlight') = Cardinality(InFlight) + 1
      BY <3>2, FS_AddElement DEF WritesBounded
    <3> QED BY <1>0, <3>1, <3>3 DEF WritesBounded
  <2>2. CASE Log(w) \/ Report(w)
    <3>1. InFlight' = InFlight /\ UNCHANGED history
      BY <2>2 DEF Log, Report, Leave, InFlight, TypeOK
    <3> QED BY <3>1 DEF WritesBounded
  <2>3. CASE LogFails(w) \/ Insert(w)
    <3>1. InFlight' = InFlight \ {w} /\ w \in InFlight
      BY <2>3 DEF LogFails, Insert, Leave, InFlight, TypeOK
    <3>2. IsFiniteSet(InFlight') /\ Cardinality(InFlight') = Cardinality(InFlight) - 1
      BY <3>1, FS_RemoveElement DEF WritesBounded
    <3>3. Len(history') \in {Len(history), Len(history) + 1}
      <4>1. history' = history \/ (history' = Append(history, op[w]) /\ op[w] \in Event)
        BY <2>3 DEF LogFails, Insert, TypeOK
      <4>2. history \in Seq(Event)
        BY DEF TypeOK
      <4> QED BY <4>1, <4>2
    <3> QED BY <1>0, <3>2, <3>3 DEF WritesBounded
  <2>4. CASE NullActive(w)
    BY <1>2, <2>4 DEF NullActive, writerVars
  <2> QED BY <1>2, <2>1, <2>2, <2>3, <2>4 DEF WriterStep
<1>3. CASE \/ \E d \in Drainers : Drain(d)
           \/ \E f \in Flushers : FlushLoop(f) \/ FlushNow(f)
  BY <1>1, <1>3 DEF Drain, FlushLoop, FlushPop, FlushWrite, FlushFails, FlushPublish,
     FlushDone, FlushCheck, FlushWake, FlushNow, writerVars
<1>4. CASE \E c \in Compactors : Merge(c) \/ CompactLoop(c) \/ CompactNow(c)
  BY <1>1, <1>4 DEF Merge, CompactLoop, CompactSnapshot, CompactRun, CompactThrows,
     CompactFails, CompactDelete, CompactDeleteFails, CompactPublish, CompactCheck, CompactWake,
     CompactNow, writerVars
<1>5. CASE CloseBegin \/ CloseStep
  BY <1>1, <1>5 DEF CloseBegin, CloseStep, CloseJoinFlusher, CloseJoinCompactor,
     CloseRotate, writerVars
<1>6. CASE UNCHANGED vars
  BY <1>1, <1>6 DEF vars, writerVars
<1> QED BY <1>1, <1>2, <1>3, <1>4, <1>5, <1>6 DEF Next

LEMMA BoundedWrites == Spec => []WritesBounded
<1>1. Init => WritesBounded
  <2> SUFFICES ASSUME Init PROVE WritesBounded
    OBVIOUS
  <2>1. InFlight = {} /\ Len(history) = 0
    BY DEF Init, InFlight
  <2> QED BY <2>1, FS_EmptySet, NumbersAssumption DEF WritesBounded
<1>2. TypeOK /\ WritesBounded /\ [Next]_vars => WritesBounded'
  BY WritesBoundedStep
<1> QED BY <1>1, <1>2, TypeCorrect, PTL DEF Spec

LEMMA VersionsBounded == ASSUME TypeOK, WritesBounded PROVE Versions \subseteq 1 .. MaxWrites
<1>1. Len(history) \in Nat /\ Cardinality(InFlight) \in Nat /\ MaxWrites \in Nat
  BY FS_CardinalityType, NumbersAssumption DEF WritesBounded, TypeOK
<1> QED BY <1>1 DEF WritesBounded, Versions

(* A step of the tree inserts at the end; a file that comes to L0's         *)
(* directory has a new number, one that stays on disk stays listed if      *)
(* files can be removed, and L1 only grows.                                *)
TreeMoves ==
    /\ \A v \in Versions : v \in Versions' /\ history'[v] = history[v]
    /\ sstSeq <= sstSeq'
    /\ \A n \in DOMAIN file0' : n < sstSeq => n \in DOMAIN file0
    /\ DiskFaults \/ level0 \cap DOMAIN file0' \subseteq level0'
    /\ level1 \subseteq level1'

LEMMA TreeMovesStep ==
    ASSUME MaxOutputs = 1, TypeOK, FilesInv, [Next]_vars
    PROVE  TreeMoves
<1>0. sstSeq \in Nat /\ Len(history) \in Nat
  BY DEF TypeOK
<1>1. CASE UNCHANGED <<history, sstSeq, file0, level0, level1>>
  BY <1>0, <1>1 DEF TreeMoves, Versions
<1>2. ASSUME NEW w \in Writers, WriterStep(w) PROVE TreeMoves
  <2>1. CASE Insert(w)
    <3>1. /\ history' = Append(history, op[w]) /\ op[w] \in Event /\ history \in Seq(Event)
          /\ UNCHANGED <<sstSeq, file0, level0, level1>>
      BY <2>1 DEF Insert, TypeOK, levelVars, fileVars
    <3>2. \A v \in Versions : v \in Versions' /\ history'[v] = history[v]
      BY <1>0, <3>1 DEF Versions
    <3>3. sstSeq <= sstSeq'
      BY <1>0, <3>1
    <3> QED BY <3>1, <3>2, <3>3 DEF TreeMoves
  <2>2. CASE ~Insert(w)
    BY <1>1, <1>2, <2>2 DEF WriterStep, AppendBegin, RemoveBegin, Begin, Log, LogFails, Report,
       NullActive, levelVars, fileVars
  <2> QED BY <2>1, <2>2
<1>3. ASSUME NEW d \in Drainers, Drain(d) PROVE TreeMoves
  <2>1. CASE FlushWrite(d) \/ FlushFails(d)
    BY <1>0, <2>1 DEF FlushWrite, FlushFails, TreeMoves, Versions, levelVars, fileVars
  <2>2. CASE FlushPublish(d)
    BY <1>0, <2>2 DEF FlushPublish, TreeMoves, Versions, fileVars
  <2>3. CASE FlushPop(d) \/ FlushDone(d)
    BY <1>1, <2>3 DEF FlushPop, FlushDone, levelVars, fileVars
  <2> QED BY <1>3, <2>1, <2>2, <2>3 DEF Drain
<1>4. CASE \E f \in Flushers : FlushLoop(f) \/ FlushNow(f)
  BY <1>1, <1>4 DEF FlushLoop, FlushCheck, FlushWake, FlushNow, levelVars, fileVars
<1>5. ASSUME NEW c \in Compactors, Merge(c) \/ CompactLoop(c) \/ CompactNow(c) PROVE TreeMoves
  <2>1. CASE CompactRun(c) \/ CompactThrows(c) \/ CompactFails(c)
    BY <1>0, <2>1 DEF CompactRun, CompactThrows, CompactFails, TreeMoves, Versions, levelVars, fileVars
  <2>2. CASE \E n \in job[c].todo : CompactDelete(c, n)
    BY <1>0, <2>2 DEF CompactDelete, TreeMoves, Versions, levelVars
  <2>3. CASE CompactPublish(c)
    <3>1. DiskFaults \/ job[c].inputs \cap DOMAIN file0 = {}
      BY <2>3 DEF CompactPublish, CompactStep, FilesInv, DroppedApart, JobProgress
    <3> QED BY <1>0, <2>3, <3>1 DEF CompactPublish, TreeMoves, Versions, fileVars
  <2>4. CASE \/ CompactSnapshot(c) \/ CompactLoop(c) \/ CompactNow(c)
             \/ \E n \in job[c].todo : CompactDeleteFails(c, n)
    BY <1>1, <2>4 DEF CompactSnapshot, CompactDeleteFails, CompactLoop, CompactCheck, CompactWake,
       CompactNow, levelVars, fileVars
  <2> QED BY <1>5, <2>1, <2>2, <2>3, <2>4 DEF Merge
<1>6. CASE CloseBegin \/ CloseStep
  BY <1>1, <1>6 DEF CloseBegin, CloseStep, CloseJoinFlusher, CloseJoinCompactor, CloseRotate,
     levelVars, fileVars
<1>7. CASE UNCHANGED vars
  BY <1>1, <1>7 DEF vars, levelVars, fileVars
<1> QED BY <1>2, <1>3, <1>4, <1>5, <1>6, <1>7 DEF Next

(* The steps of a query are none of the tree's. *)
LEMMA QueryIsTree == QuerySpec => Spec
<1>1. QueryInit => Init
  BY DEF QueryInit
<1>2. [QueryNext]_<<vars, queryVars>> => [Next]_vars
  BY DEF QueryNext, TreeStep, QueryBegin, ScanMemory, CopyLevels, QueryReturn, ReadFile,
     Misread, SkipFile, QueryStep
<1> QED BY <1>1, <1>2, PTL DEF QuerySpec, Spec

-----------------------------------------------------------------------------
(* A record is in one place at most.                                       *)

InMemory(v) ==
    LET k == history[v].key
    IN  active[k] = v \/ \E i \in 1 .. Len(imms) : imms[i][k] = v

LEMMA PlacesOf ==
    ASSUME NEW v
    PROVE  /\ <<"memory", 0>> \in Places(v) <=> InMemory(v)
           /\ \A n : <<"l0", n>> \in Places(v) <=>
                n \in level0 \cap DOMAIN file0 /\ file0[n][history[v].key] = v
           /\ \A n : <<"l1", n>> \in Places(v) <=>
                n \in level1 \cap DOMAIN file1 /\ file1[n][history[v].key] = v
           /\ \A p \in Places(v) : \/ p = <<"memory", 0>>
                                   \/ \E n : p = <<"l0", n>> \/ p = <<"l1", n>>
BY DEF Places, InMemory

LEMMA OnePlace ==
    ASSUME TypeOK, DurabilityInv, OnePlaceInv, NEW v \in Versions,
           NEW p \in Places(v), NEW q \in Places(v)
    PROVE  p = q
<1> DEFINE k == history[v].key
<1>1. k \in Keys /\ v \in Nat /\ v # 0 /\ ~(v < v)
  <2>1. history[v] \in Event /\ v \in Nat /\ v # 0
    BY DEF TypeOK, Versions
  <2> QED BY <2>1 DEF Event
<1>2. \A a, b : Older(a, b) /\ b[k] = v => a[k] # v
  BY <1>1 DEF Older
<1> HIDE DEF k
<1>3. ASSUME InMemory(v)
      PROVE  /\ \A n \in DOMAIN file0 : file0[n][k] # v
             /\ \A n \in DOMAIN file1 : file1[n][k] # v
  BY <1>2, <1>3 DEF InMemory, DurabilityInv, RecencyOrder, OnePlaceInv, L1Oldest, k
<1>4. ASSUME NEW m \in DOMAIN file0, NEW n \in DOMAIN file0, file0[m][k] = v, file0[n][k] = v
      PROVE  m = n
  <2>1. m \in Nat /\ n \in Nat
    BY DEF TypeOK
  <2>2. ~(m < n) /\ ~(n < m)
    BY <1>2, <1>4 DEF DurabilityInv, RecencyOrder
  <2> QED BY <2>1, <2>2
<1>5. ASSUME NEW m \in DOMAIN file1, NEW n \in DOMAIN file1, file1[m][k] = v, file1[n][k] = v
      PROVE  m = n
  <2>1. m \in Nat /\ n \in Nat
    BY DEF TypeOK
  <2>2. ~(m < n) /\ ~(n < m)
    BY <1>2, <1>5 DEF OnePlaceInv, L1Oldest
  <2> QED BY <2>1, <2>2
<1>6. ASSUME NEW m \in DOMAIN file0, NEW n \in level1 \cap DOMAIN file1, file0[m][k] = v
      PROVE  file1[n][k] # v
  <2>1. \A c \in Compactors : n \notin job[c].outs
    BY DEF OnePlaceInv
  <2> QED BY <1>2, <1>6, <2>1 DEF OnePlaceInv, L1Oldest
<1> QED BY <1>3, <1>4, <1>5, <1>6, PlacesOf DEF k

-----------------------------------------------------------------------------
(* The rows of a query.                                                    *)

(* What the scan of one file adds: one row of each version it collects.     *)
LEMMA ReturnedOfOne ==
    ASSUME NEW r \in Readers, rows[r] \in [1 .. MaxWrites -> Nat], NEW table,
           NEW v \in 1 .. MaxWrites
    PROVE  Returned(r, <<table>>)[v]
              = rows[r][v] + IF v \in Collect(r, table) THEN 1 ELSE 0
<1> DEFINE tables == <<table>>
           holders == {t \in DOMAIN tables : v \in Collect(r, tables[t])}
<1>1. Returned(r, tables)[v] = rows[r][v] + Cardinality(holders)
  BY DEF Returned
<1>2. DOMAIN tables = {1} /\ tables[1] = table
  OBVIOUS
<1>3. holders = IF v \in Collect(r, table) THEN {1} ELSE {}
  <2> HIDE DEF tables
  <2> QED BY <1>2
<1>4. Cardinality(holders) = IF v \in Collect(r, table) THEN 1 ELSE 0
  BY <1>3, FS_EmptySet, FS_Singleton
<1> QED BY <1>1, <1>4

(* What a scan of one source after the other adds to the rows of a version: *)
(* how many of the sources hold it.                                        *)
LEMMA ReturnedRows ==
    ASSUME NEW r \in Readers, rows[r] \in [1 .. MaxWrites -> Nat], NEW tables, NEW n \in Nat,
           DOMAIN tables = 1 .. n
    PROVE  /\ Returned(r, tables) \in [1 .. MaxWrites -> Nat]
           /\ \A v \in 1 .. MaxWrites :
                 (\A t \in DOMAIN tables : v \notin Collect(r, tables[t]))
                   => Returned(r, tables)[v] = rows[r][v]
           /\ \A v \in 1 .. MaxWrites, t \in DOMAIN tables :
                 v \in Collect(r, tables[t])
                   /\ (\A u \in DOMAIN tables : v \in Collect(r, tables[u]) => u = t)
                   => Returned(r, tables)[v] = rows[r][v] + 1
<1> DEFINE holders(v) == {t \in DOMAIN tables : v \in Collect(r, tables[t])}
<1>1. \A v \in 1 .. MaxWrites : Returned(r, tables)[v] = rows[r][v] + Cardinality(holders(v))
  BY DEF Returned
<1>2. \A v \in 1 .. MaxWrites : Cardinality(holders(v)) \in Nat
  <2> SUFFICES ASSUME NEW v \in 1 .. MaxWrites PROVE Cardinality(holders(v)) \in Nat
    OBVIOUS
  <2>1. IsFiniteSet(1 .. n)
    <3>1. 1 \in Int /\ n \in Int
      OBVIOUS
    <3> QED BY ONLY <3>1, FS_Interval
  <2>2. holders(v) \in SUBSET (1 .. n)
    OBVIOUS
  <2>3. IsFiniteSet(holders(v))
    BY <2>1, <2>2, FS_Subset
  <2> QED BY <2>3, FS_CardinalityType
<1>3. Returned(r, tables) \in [1 .. MaxWrites -> Nat]
  <2>1. \A v \in 1 .. MaxWrites : rows[r][v] + Cardinality(holders(v)) \in Nat
    <3> SUFFICES ASSUME NEW v \in 1 .. MaxWrites
                 PROVE  rows[r][v] + Cardinality(holders(v)) \in Nat
      OBVIOUS
    <3>1. rows[r][v] \in Nat /\ Cardinality(holders(v)) \in Nat
      BY <1>2
    <3> HIDE DEF holders
    <3> QED BY <3>1
  <2> QED BY <2>1 DEF Returned
<1>4. ASSUME NEW v \in 1 .. MaxWrites, \A t \in DOMAIN tables : v \notin Collect(r, tables[t])
      PROVE  Returned(r, tables)[v] = rows[r][v]
  <2>1. holders(v) = {}
    BY <1>4
  <2>2. Cardinality(holders(v)) = 0
    BY <2>1, FS_EmptySet
  <2>3. rows[r][v] \in Nat
    OBVIOUS
  <2> HIDE DEF holders
  <2> QED BY <1>1, <2>2, <2>3
<1>5. ASSUME NEW v \in 1 .. MaxWrites, NEW t \in DOMAIN tables, v \in Collect(r, tables[t]),
             \A u \in DOMAIN tables : v \in Collect(r, tables[u]) => u = t
      PROVE  Returned(r, tables)[v] = rows[r][v] + 1
  <2>1. holders(v) = {t}
    BY <1>5
  <2>2. Cardinality(holders(v)) = 1
    BY <2>1, FS_Singleton
  <2> HIDE DEF holders
  <2> QED BY <1>1, <2>2
<1> QED BY <1>3, <1>4, <1>5

(* What ScanMemory looks through. *)
MemoryTables == (IF moved THEN <<>> ELSE <<active>>) \o imms

LEMMA MemoryTablesOf ==
    ASSUME TypeOK
    PROVE  /\ \E n \in Nat : DOMAIN MemoryTables = 1 .. n
           /\ moved => MemoryTables = imms
           /\ ~moved => /\ DOMAIN MemoryTables = 1 .. Len(imms) + 1
                        /\ MemoryTables[1] = active
                        /\ \A i \in 1 .. Len(imms) : MemoryTables[i + 1] = imms[i]
<1>1. imms \in Seq(Table) /\ active \in Table /\ Len(imms) \in Nat
  BY DEF TypeOK
<1>2. CASE moved
  <2>1. MemoryTables = imms
    BY <1>1, <1>2 DEF MemoryTables
  <2> QED BY <1>1, <1>2, <2>1
<1>3. CASE ~moved
  <2>1. MemoryTables = <<active>> \o imms
    BY <1>3 DEF MemoryTables
  <2>2. /\ DOMAIN MemoryTables = 1 .. Len(imms) + 1
        /\ MemoryTables[1] = active
        /\ \A i \in 1 .. Len(imms) : MemoryTables[i + 1] = imms[i]
    BY <1>1, <2>1
  <2> QED BY <1>1, <1>3, <2>2
<1> QED BY <1>2, <1>3

(* An event of the symbol is found once in memory if it is there.          *)
LEMMA MemoryOnce ==
    ASSUME TypeOK, DurabilityInv, OnePlaceInv, NEW r \in Readers, NEW v \in Versions,
           rows[r] \in [1 .. MaxWrites -> Nat], v \in 1 .. MaxWrites,
           history[v].kind = "event", history[v].key[1] = target[r]
    PROVE  Returned(r, MemoryTables)[v] = rows[r][v] + (IF InMemory(v) THEN 1 ELSE 0)
<1> DEFINE k == history[v].key
<1>1. k \in Keys /\ v \in Nat /\ v # 0 /\ ~(v < v) /\ rows[r][v] \in Nat
  <2>1. history[v] \in Event /\ v \in Nat /\ v # 0 /\ ~(v < v)
    BY DEF TypeOK, Versions
  <2>2. k \in Keys
    BY <2>1 DEF Event
  <2>3. rows[r][v] \in Nat
    OBVIOUS
  <2> QED BY <2>1, <2>2, <2>3
<1>2. \A t : v \in Collect(r, t) <=> t[k] = v
  BY DEF Collect
<1>3. \A a, b : Older(a, b) /\ b[k] = v => a[k] # v
  BY <1>1 DEF Older
<1> HIDE DEF k
<1>4. /\ \A i \in 1 .. Len(imms) : imms[i][k] = v => active[k] # v
      /\ \A i, j \in 1 .. Len(imms) : imms[i][k] = v /\ imms[j][k] = v => i = j
  <2>1. Len(imms) \in Nat
    BY DEF TypeOK
  <2>2. \A i, j \in 1 .. Len(imms) : i < j \/ j < i \/ i = j
    BY <2>1
  <2> QED BY <1>3, <2>2 DEF DurabilityInv, RecencyOrder
<1>5. moved => active[k] # v
  BY <1>1 DEF OnePlaceInv, Empty
<1>6. PICK n \in Nat : DOMAIN MemoryTables = 1 .. n
  BY MemoryTablesOf
<1>7. InMemory(v) <=> active[k] = v \/ \E i \in 1 .. Len(imms) : imms[i][k] = v
  BY DEF InMemory, k
<1>8. CASE ~InMemory(v)
  <2>1. \A t \in DOMAIN MemoryTables : MemoryTables[t][k] # v
    <3>1. CASE moved
      <4>1. MemoryTables = imms /\ DOMAIN imms = 1 .. Len(imms)
        BY <3>1, MemoryTablesOf DEF TypeOK
      <4> QED BY <1>7, <1>8, <4>1
    <3>2. CASE ~moved
      <4>0. /\ DOMAIN MemoryTables = 1 .. Len(imms) + 1
            /\ MemoryTables[1] = active
            /\ \A i \in 1 .. Len(imms) : MemoryTables[i + 1] = imms[i]
        BY <3>2, MemoryTablesOf
      <4>1. Len(imms) \in Nat
        BY DEF TypeOK
      <4>2. \A t \in 1 .. Len(imms) + 1 : t = 1 \/ \E i \in 1 .. Len(imms) : t = i + 1
        <5>1. \A t \in 1 .. Len(imms) + 1 : t # 1 => t - 1 \in 1 .. Len(imms) /\ t = (t - 1) + 1
          BY <4>1
        <5> QED BY <5>1
      <4>3. MemoryTables[1][k] # v /\ \A i \in 1 .. Len(imms) : MemoryTables[i + 1][k] # v
        BY <1>7, <1>8, <4>0
      <4>4. ASSUME NEW t \in 1 .. Len(imms) + 1 PROVE MemoryTables[t][k] # v
        BY <4>2, <4>3
      <4> QED BY <4>0, <4>4
    <3> QED BY <3>1, <3>2
  <2>2. Returned(r, MemoryTables)[v] = rows[r][v]
    <3>1. \A t \in DOMAIN MemoryTables : v \notin Collect(r, MemoryTables[t])
      BY <1>2, <2>1
    <3> QED BY <1>6, <3>1, ReturnedRows
  <2> QED BY <1>1, <1>8, <2>2
<1>9. CASE InMemory(v)
  <2>1. \E t \in DOMAIN MemoryTables : /\ MemoryTables[t][k] = v
                                       /\ \A u \in DOMAIN MemoryTables :
                                             MemoryTables[u][k] = v => u = t
    <3>1. CASE moved
      <4>1. MemoryTables = imms /\ DOMAIN imms = 1 .. Len(imms)
        BY <3>1, MemoryTablesOf DEF TypeOK
      <4> QED BY <1>4, <1>5, <1>7, <1>9, <3>1, <4>1
    <3>2. CASE ~moved
      <4>0. /\ DOMAIN MemoryTables = 1 .. Len(imms) + 1
            /\ MemoryTables[1] = active
            /\ \A i \in 1 .. Len(imms) : MemoryTables[i + 1] = imms[i]
        BY <3>2, MemoryTablesOf
      <4>1. Len(imms) \in Nat
        BY DEF TypeOK
      <4>2. \A t \in 1 .. Len(imms) + 1 : t = 1 \/ \E i \in 1 .. Len(imms) : t = i + 1
        <5>1. \A t \in 1 .. Len(imms) + 1 : t # 1 => t - 1 \in 1 .. Len(imms) /\ t = (t - 1) + 1
          BY <4>1
        <5> QED BY <5>1
      <4>3. \A i \in 1 .. Len(imms) : i + 1 \in 1 .. Len(imms) + 1
        BY <4>1
      <4>4. 1 \in 1 .. Len(imms) + 1
        BY <4>1
      <4>5. CASE active[k] = v
        <5>1. \A i \in 1 .. Len(imms) : imms[i][k] # v
          BY <1>4, <4>5
        <5>2. ASSUME NEW u \in 1 .. Len(imms) + 1, MemoryTables[u][k] = v PROVE u = 1
          BY <4>0, <4>2, <5>1, <5>2
        <5> QED BY <4>0, <4>4, <4>5, <5>2
      <4>6. CASE \E i \in 1 .. Len(imms) : imms[i][k] = v
        <5>1. PICK i \in 1 .. Len(imms) : imms[i][k] = v
          BY <4>6
        <5>2. MemoryTables[i + 1][k] = v
          BY <4>0, <5>1
        <5>3. \A u \in 1 .. Len(imms) + 1 : MemoryTables[u][k] = v => u = i + 1
          <6>1. active[k] # v
            BY <1>4, <5>1
          <6>2. \A j \in 1 .. Len(imms) : imms[j][k] = v => j = i
            BY <1>4, <5>1
          <6>3. ASSUME NEW u \in 1 .. Len(imms) + 1, MemoryTables[u][k] = v PROVE u = i + 1
            <7>1. u # 1
              BY <4>0, <6>1, <6>3
            <7>2. PICK j \in 1 .. Len(imms) : u = j + 1
              BY <4>2, <7>1
            <7>3. j = i
              BY <4>0, <6>2, <6>3, <7>2
            <7> QED BY <7>2, <7>3
          <6> QED BY <6>3
        <5> QED BY <4>0, <4>3, <5>2, <5>3
      <4> QED BY <1>7, <1>9, <4>5, <4>6
    <3> QED BY <3>1, <3>2
  <2>2. Returned(r, MemoryTables)[v] = rows[r][v] + 1
    <3>1. PICK t \in DOMAIN MemoryTables :
             /\ v \in Collect(r, MemoryTables[t])
             /\ \A u \in DOMAIN MemoryTables : v \in Collect(r, MemoryTables[u]) => u = t
      BY <1>2, <2>1
    <3> QED BY <1>6, <3>1, ReturnedRows
  <2> QED BY <1>9, <2>2
<1> QED BY <1>8, <1>9

-----------------------------------------------------------------------------
(* The types of a query, and what its list of files can be trusted for: a   *)
(* file of L0 that is on disk is still listed, for its number is not issued *)
(* again, and a file of L1 stays.  A reader at rest, or one whose reading   *)
(* went wrong, remembers nothing.                                          *)
QueryInv ==
    /\ QueryTypeOK
    /\ unread \in [Readers -> SUBSET ({"l0", "l1"} \X Nat)]
    /\ before \in [Readers -> SUBSET Nat]
    /\ shifted \in [Readers -> SUBSET Nat]
    /\ \A r \in Readers : rpc[r] = "idle" \/ misread[r] => before[r] = {}
    /\ \A r \in Readers : misread[r] => rpc[r] = "files"
    /\ \A r \in Readers, n \in Nat :
          /\ <<"l0", n>> \in unread[r] =>
                n < sstSeq /\ (n \in DOMAIN file0 => n \in level0 \/ DiskFaults)
          /\ <<"l1", n>> \in unread[r] => n \in level1

LEMMA QueryInvTree ==
    ASSUME MaxOutputs = 1, TypeOK, TypeOK', FilesInv, QueryInv, TreeStep
    PROVE  QueryInv'
<1>1. TreeMoves /\ sstSeq \in Nat /\ sstSeq' \in Nat
  <2>1. [Next]_vars
    BY DEF TreeStep
  <2>2. TreeMoves
    BY <2>1, TreeMovesStep
  <2>3. sstSeq \in Nat /\ sstSeq' \in Nat
    BY DEF TypeOK
  <2> QED BY <2>2, <2>3
<1>2. UNCHANGED <<rpc, target, unread, rows, misread, before>>
  BY DEF TreeStep
<1>3. shifted' \in [Readers -> SUBSET Nat] /\ \A r \in Readers : shifted'[r] \subseteq before'[r]
  <2> DEFINE gone(r) == {v \in before[r] : Places(v)' # Places(v)}
  <2>1. shifted' = [r \in Readers |-> shifted[r] \cup gone(r)]
    BY DEF TreeStep
  <2>2. /\ shifted \in [Readers -> SUBSET Nat] /\ before \in [Readers -> SUBSET Nat]
        /\ \A r \in Readers : shifted[r] \subseteq before[r]
    BY DEF QueryInv, QueryTypeOK
  <2>3. \A r \in Readers : gone(r) \subseteq before[r]
    OBVIOUS
  <2> HIDE DEF gone
  <2> QED BY <1>2, <2>1, <2>2, <2>3
<1>4. QueryTypeOK'
  <2>1. \A r \in Readers : before'[r] \subseteq Versions'
    BY <1>1, <1>2 DEF QueryInv, QueryTypeOK, TreeMoves
  <2> QED BY <1>2, <1>3, <2>1 DEF QueryInv, QueryTypeOK
<1>5. ASSUME NEW r \in Readers, NEW n \in Nat
      PROVE  /\ <<"l0", n>> \in unread'[r]
                  => n < sstSeq' /\ (n \in DOMAIN file0' => n \in level0' \/ DiskFaults)
             /\ <<"l1", n>> \in unread'[r] => n \in level1'
  BY <1>1, <1>2 DEF QueryInv, TreeMoves
<1> QED BY <1>2, <1>3, <1>4, <1>5 DEF QueryInv

LEMMA QueryInvReader ==
    ASSUME TypeOK, FilesInv, QueryInv, NEW r \in Readers,
           \/ \E s \in Symbols : QueryBegin(r, s)
           \/ ScanMemory(r) \/ CopyLevels(r) \/ QueryReturn(r)
           \/ \E f \in unread[r] : ReadFile(r, f) \/ Misread(r, f) \/ SkipFile(r, f)
    PROVE  QueryInv'
<1>1. UNCHANGED vars /\ Versions' = Versions
  BY DEF QueryBegin, ScanMemory, CopyLevels, QueryReturn, ReadFile, Misread, SkipFile,
     QueryStep, vars, Versions
<1>2. /\ rpc \in [Readers -> {"idle", "memory", "levels", "files"}]
      /\ target \in [Readers -> Symbols \cup {NoEvent}]
      /\ rows \in [Readers -> [1 .. MaxWrites -> Nat]]
      /\ NoRows \in [1 .. MaxWrites -> Nat]
      /\ misread \in [Readers -> BOOLEAN]
  BY DEF QueryInv, QueryTypeOK, NoRows
<1>3. Versions \subseteq Nat
  BY DEF Versions
<1>4. CASE \E s \in Symbols : QueryBegin(r, s)
  <2>1. PICK s \in Symbols : QueryBegin(r, s)
    BY <1>4
  <2> DEFINE stored == {v \in Versions : /\ history[v].kind = "event"
                                         /\ history[v].key[1] = s
                                         /\ Places(v) # {}}
  <2>2. /\ rpc' = [rpc EXCEPT ![r] = "memory"] /\ rpc[r] = "idle"
        /\ target' = [target EXCEPT ![r] = s]
        /\ before' = [before EXCEPT ![r] = stored]
        /\ UNCHANGED <<unread, rows, misread, shifted>>
    BY <2>1 DEF QueryBegin, QueryStep
  <2>3. stored \subseteq Versions /\ stored \subseteq Nat
    BY <1>3
  <2> HIDE DEF stored
  <2>4. before' \in [Readers -> SUBSET Nat] /\ rpc' \in [Readers -> {"idle", "memory", "levels", "files"}]
    BY <1>2, <2>2, <2>3 DEF QueryInv
  <2>5. shifted[r] = {}
    BY <2>2 DEF QueryInv, QueryTypeOK
  <2>6. QueryTypeOK'
    <3>1. \A q \in Readers : shifted'[q] \subseteq before'[q] /\ before'[q] \subseteq Versions'
      BY <1>1, <2>2, <2>3, <2>5 DEF QueryInv, QueryTypeOK
    <3> QED BY <1>2, <2>2, <2>4, <3>1 DEF QueryInv, QueryTypeOK
  <2> QED BY <1>1, <1>2, <2>2, <2>4, <2>6 DEF QueryInv, vars, levelVars, fileVars
<1>5. CASE ScanMemory(r)
  <2>1. /\ rpc' = [rpc EXCEPT ![r] = "levels"] /\ rpc[r] = "memory"
        /\ rows' = [rows EXCEPT ![r] = Returned(r, MemoryTables)]
        /\ UNCHANGED <<target, unread, misread, before, shifted>>
    BY <1>5 DEF ScanMemory, QueryStep, MemoryTables
  <2>2. Returned(r, MemoryTables) \in [1 .. MaxWrites -> Nat]
    <3>1. PICK n \in Nat : DOMAIN MemoryTables = 1 .. n
      BY MemoryTablesOf
    <3> QED BY <1>2, <3>1, ReturnedRows
  <2>3. QueryTypeOK'
    BY <1>1, <1>2, <2>1, <2>2 DEF QueryInv, QueryTypeOK
  <2> QED BY <1>1, <1>2, <2>1, <2>3 DEF QueryInv, vars, levelVars, fileVars
<1>6. CASE CopyLevels(r)
  <2> DEFINE listed == {<<"l0", n>> : n \in level0} \cup {<<"l1", n>> : n \in level1}
  <2>1. /\ rpc' = [rpc EXCEPT ![r] = "files"] /\ rpc[r] = "levels"
        /\ unread' = [unread EXCEPT ![r] = listed]
        /\ UNCHANGED <<target, rows, misread, before, shifted>>
    BY <1>6 DEF CopyLevels, QueryStep
  <2>2. /\ level0 \subseteq 1 .. MaxSst /\ level1 \subseteq 1 .. MaxSst
        /\ \A n \in level0 : n < sstSeq
    <3>1. level0 \subseteq 1 .. sstSeq - 1 /\ level1 \subseteq 1 .. sstSeq - 1
      BY DEF FilesInv, Numbering, LevelsMatchDisk, ListedOnDisk
    <3>2. sstSeq \in 1 .. MaxSst + 1 /\ MaxSst \in Nat
      BY NumbersAssumption DEF TypeOK
    <3>3. \A n \in 1 .. sstSeq - 1 : n \in 1 .. MaxSst /\ n < sstSeq
      BY ONLY <3>2
    <3> QED BY <3>1, <3>3
  <2>3. listed \subseteq {"l0", "l1"} \X (1 .. MaxSst) /\ listed \subseteq {"l0", "l1"} \X Nat
    <3>1. listed \subseteq {"l0", "l1"} \X (1 .. MaxSst)
      BY ONLY <2>2
    <3>2. 1 .. MaxSst \subseteq Nat
      OBVIOUS
    <3> HIDE DEF listed
    <3> QED BY ONLY <3>1, <3>2
  <2>4. \A n : /\ <<"l0", n>> \in listed <=> n \in level0
               /\ <<"l1", n>> \in listed <=> n \in level1
    OBVIOUS
  <2> HIDE DEF listed
  <2>5. QueryTypeOK'
    BY <1>1, <1>2, <2>1, <2>3 DEF QueryInv, QueryTypeOK
  <2>6. unread' \in [Readers -> SUBSET ({"l0", "l1"} \X Nat)]
    BY <2>1, <2>3 DEF QueryInv
  <2>7. ASSUME NEW q \in Readers, NEW n \in Nat
        PROVE  /\ <<"l0", n>> \in unread'[q]
                    => n < sstSeq /\ (n \in DOMAIN file0 => n \in level0 \/ DiskFaults)
               /\ <<"l1", n>> \in unread'[q] => n \in level1
    BY <2>1, <2>2, <2>4 DEF QueryInv
  <2> QED BY <1>1, <1>2, <2>1, <2>5, <2>6, <2>7 DEF QueryInv, vars, levelVars, fileVars
<1>7. CASE QueryReturn(r)
  <2>1. /\ rpc' = [rpc EXCEPT ![r] = "idle"] /\ unread[r] = {}
        /\ target' = [target EXCEPT ![r] = NoEvent]
        /\ rows' = [rows EXCEPT ![r] = NoRows]
        /\ misread' = [misread EXCEPT ![r] = FALSE]
        /\ before' = [before EXCEPT ![r] = {}]
        /\ shifted' = [shifted EXCEPT ![r] = {}]
        /\ UNCHANGED unread
    BY <1>7 DEF QueryReturn, QueryStep
  <2>2. QueryTypeOK'
    BY <1>1, <1>2, <2>1 DEF QueryInv, QueryTypeOK
  <2> QED BY <1>1, <1>2, <2>1, <2>2 DEF QueryInv, vars, levelVars, fileVars
<1>8. ASSUME NEW f \in unread[r], ReadFile(r, f) \/ SkipFile(r, f)
      PROVE  QueryInv'
  <2>1. /\ rpc' = rpc /\ rpc[r] = "files"
        /\ unread' = [unread EXCEPT ![r] = @ \ {f}]
        /\ UNCHANGED <<target, misread, before, shifted>>
    BY <1>2, <1>8 DEF ReadFile, SkipFile, QueryStep
  <2>2. rows' \in [Readers -> [1 .. MaxWrites -> Nat]] /\ \A q \in Readers : q # r => rows'[q] = rows[q]
    <3>1. CASE SkipFile(r, f)
      BY <1>2, <3>1 DEF SkipFile
    <3>2. CASE ReadFile(r, f)
      <4> DEFINE table == (IF f[1] = "l0" THEN file0 ELSE file1)[f[2]]
      <4>1. rows' = [rows EXCEPT ![r] = IF misread[r] THEN NoRows ELSE Returned(r, <<table>>)]
        BY <3>2 DEF ReadFile
      <4> HIDE DEF table
      <4>2. DOMAIN <<table>> = 1 .. 1
        OBVIOUS
      <4>3. Returned(r, <<table>>) \in [1 .. MaxWrites -> Nat]
        BY <1>2, <4>2, ReturnedRows
      <4> QED BY <1>2, <4>1, <4>3
    <3> QED BY <1>8, <3>1, <3>2
  <2>3. \A q \in Readers : unread'[q] \subseteq unread[q]
    BY <2>1 DEF QueryInv
  <2>4. QueryTypeOK'
    BY <1>1, <1>2, <2>1, <2>2, <2>3 DEF QueryInv, QueryTypeOK
  <2>5. unread' \in [Readers -> SUBSET ({"l0", "l1"} \X Nat)]
    BY <2>1 DEF QueryInv
  <2> QED BY <1>1, <2>1, <2>3, <2>4, <2>5 DEF QueryInv, vars, levelVars, fileVars
<1>9. ASSUME NEW f \in unread[r], Misread(r, f)
      PROVE  QueryInv'
  <2>1. /\ rpc' = rpc /\ rpc[r] = "files" /\ UNCHANGED target
        /\ unread' = [unread EXCEPT ![r] = @ \ {f}]
        /\ rows' = [rows EXCEPT ![r] = NoRows]
        /\ misread' = [misread EXCEPT ![r] = TRUE]
        /\ before' = [before EXCEPT ![r] = {}]
        /\ shifted' = [shifted EXCEPT ![r] = {}]
    BY <1>2, <1>9 DEF Misread, QueryStep
  <2>2. rows' \in [Readers -> [1 .. MaxWrites -> Nat]] /\ misread' \in [Readers -> BOOLEAN]
    BY <1>2, <2>1
  <2>3. \A q \in Readers : unread'[q] \subseteq unread[q] /\ (q # r => rows'[q] = rows[q])
    BY <1>2, <2>1 DEF QueryInv
  <2>4. \A q \in Readers : shifted'[q] \subseteq before'[q] /\ before'[q] \subseteq Versions'
    BY <1>1, <2>1 DEF QueryInv, QueryTypeOK
  <2>5. QueryTypeOK'
    BY <1>1, <1>2, <2>1, <2>2, <2>3, <2>4 DEF QueryInv, QueryTypeOK
  <2>6. /\ unread' \in [Readers -> SUBSET ({"l0", "l1"} \X Nat)]
        /\ before' \in [Readers -> SUBSET Nat] /\ shifted' \in [Readers -> SUBSET Nat]
    BY <2>1 DEF QueryInv
  <2> QED BY <1>1, <2>1, <2>3, <2>5, <2>6 DEF QueryInv, vars, levelVars, fileVars
<1> QED BY <1>4, <1>5, <1>6, <1>7, <1>8, <1>9

(* The type invariant of LsmQuery: a query keeps the numbers of files that  *)
(* exist or existed, and counts of records that were inserted.             *)
LEMMA QueryCorrect == ASSUME MaxOutputs = 1 PROVE QuerySpec => []QueryInv
<1>1. QueryInit => QueryInv
  BY DEF QueryInit, QueryInv, QueryTypeOK, NoRows
<1>2. /\ TypeOK /\ TypeOK' /\ FilesInv /\ QueryInv /\ [QueryNext]_<<vars, queryVars>>
      => QueryInv'
  <2> SUFFICES ASSUME TypeOK, TypeOK', FilesInv, QueryInv, [QueryNext]_<<vars, queryVars>>
               PROVE  QueryInv'
    OBVIOUS
  <2>1. CASE TreeStep
    BY <2>1, QueryInvTree
  <2>2. CASE UNCHANGED <<vars, queryVars>>
    BY <2>2 DEF QueryInv, QueryTypeOK, Versions, vars, queryVars, levelVars, fileVars
  <2> QED BY <2>1, <2>2, QueryInvReader DEF QueryNext
<1>3. QuerySpec => []TypeOK /\ []FilesInv
  BY QueryIsTree, TypeCorrect, FilesCorrect, PTL
<1> QED BY <1>1, <1>2, <1>3, PTL DEF QuerySpec

(* A query has to read only files whose numbers were issued, begins with   *)
(* no rows, and what moved while it ran was there before (db.cpp:244-320). *)
THEOREM QueryTypes == ASSUME MaxOutputs = 1 PROVE QuerySpec => []QueryTypeOK
<1>1. QueryInv => QueryTypeOK
  BY DEF QueryInv
<1> QED BY <1>1, QueryCorrect, PTL

-----------------------------------------------------------------------------
(* What stays is returned once.  What a query counted so far of an event    *)
(* that has not moved: nothing before it scans memory, then its place in   *)
(* memory, then every place but the files it has still to read.            *)
CountedSoFar(r, v) ==
    /\ rpc[r] = "levels" => rows[r][v] = IF <<"memory", 0>> \in Places(v) THEN 1 ELSE 0
    /\ rpc[r] = "files" =>
          \A p \in Places(v) : rows[r][v] = IF p \in unread[r] THEN 0 ELSE 1

QueryCounts ==
    \A r \in Readers : \A v \in before[r] :
        /\ history[v].kind = "event" /\ history[v].key[1] = target[r]
        /\ v \notin shifted[r] => Places(v) # {} /\ CountedSoFar(r, v)

LEMMA PlacesStay ==
    ASSUME UNCHANGED <<active, imms, level0, level1, file0, file1, history>>
    PROVE  \A v : Places(v)' = Places(v)
BY DEF Places

(* Reading a file counts what the file holds, and that is in the file.     *)
LEMMA ReadCounts ==
    ASSUME TypeOK, WritesBounded, DurabilityInv, OnePlaceInv, QueryInv, QueryCounts,
           ~DiskFaults, NEW r \in Readers, NEW f \in unread[r],
           ReadFile(r, f) \/ SkipFile(r, f),
           NEW v \in before[r], v \notin shifted[r], NEW p \in Places(v)
    PROVE  rows'[r][v] = IF p \in unread'[r] THEN 0 ELSE 1
<1>1. /\ rpc[r] = "files"
      /\ unread' = [unread EXCEPT ![r] = unread[r] \ {f}]
      /\ unread'[r] = unread[r] \ {f}
  BY DEF ReadFile, SkipFile, QueryStep, QueryInv
<1>2. v \in Versions /\ v \in 1 .. MaxWrites
  BY VersionsBounded DEF QueryInv, QueryTypeOK
<1>3. /\ history[v].kind = "event" /\ history[v].key[1] = target[r]
      /\ rows[r][v] = IF p \in unread[r] THEN 0 ELSE 1
  BY <1>1 DEF QueryCounts, CountedSoFar
<1>4. PICK n \in Nat : f = <<"l0", n>> \/ f = <<"l1", n>>
  BY DEF QueryInv
<1> DEFINE files == IF f[1] = "l0" THEN file0 ELSE file1
<1>5. n \in DOMAIN files /\ files[n][history[v].key] = v => f \in Places(v)
  <2>1. CASE f = <<"l0", n>>
    BY <1>4, <2>1, PlacesOf DEF QueryInv
  <2>2. CASE f = <<"l1", n>>
    BY <1>4, <2>2, PlacesOf DEF QueryInv
  <2> QED BY <1>4, <2>1, <2>2
<1>6. f \in Places(v) => n \in DOMAIN files /\ files[n][history[v].key] = v
  <2>1. CASE f = <<"l0", n>>
    BY <2>1, PlacesOf
  <2>2. CASE f = <<"l1", n>>
    BY <2>2, PlacesOf
  <2> QED BY <1>4, <2>1, <2>2
<1>7. f \in Places(v) => f = p
  BY <1>2, OnePlace
<1>8. f[2] = n
  BY <1>4
<1>9. CASE SkipFile(r, f)
  <2>1. rows' = rows /\ n \notin DOMAIN files
    BY <1>8, <1>9 DEF SkipFile
  <2>2. f # p
    BY <1>6, <2>1
  <2> QED BY <1>1, <1>3, <2>1, <2>2
<1>10. CASE ReadFile(r, f)
  <2> DEFINE table == files[n]
  <2>0. ~misread[r]
    BY DEF QueryInv
  <2>1. rows' = [rows EXCEPT ![r] = Returned(r, <<table>>)] /\ n \in DOMAIN files
    BY <1>8, <1>10, <2>0 DEF ReadFile
  <2>2. v \in Collect(r, table) <=> table[history[v].key] = v
    BY <1>2, <1>3 DEF Collect
  <2>3. v \in Collect(r, table) <=> f = p
    BY <1>5, <1>6, <1>7, <2>1, <2>2
  <2> HIDE DEF table, files
  <2>4. rows[r] \in [1 .. MaxWrites -> Nat] /\ rows'[r] = Returned(r, <<table>>)
    BY <2>1 DEF QueryInv, QueryTypeOK
  <2>5. r \in Readers /\ v \in 1 .. MaxWrites
    BY <1>2
  <2>6. rows'[r][v] = rows[r][v] + IF v \in Collect(r, table) THEN 1 ELSE 0
    BY ONLY <2>4, <2>5, ReturnedOfOne
  <2>7. rows'[r][v] = rows[r][v] + IF f = p THEN 1 ELSE 0
    BY ONLY <2>3, <2>6
  <2>8. rows[r][v] \in Nat
    BY ONLY <2>4, <2>5
  <2>9. CASE f = p
    <3>1. rows[r][v] = 0 /\ p \notin unread'[r]
      BY <1>1, <1>3, <2>9
    <3> QED BY ONLY <2>7, <2>9, <3>1
  <2>10. CASE f # p
    <3>1. p \in unread[r] <=> p \in unread'[r]
      BY <1>1, <2>10
    <3> QED BY ONLY <1>3, <2>7, <2>8, <2>10, <3>1
  <2> QED BY <2>9, <2>10
<1> QED BY <1>9, <1>10

LEMMA CountsReader ==
    ASSUME ~DiskFaults, TypeOK, WritesBounded, DurabilityInv, OnePlaceInv, QueryInv, QueryCounts,
           NEW r \in Readers,
           \/ \E s \in Symbols : QueryBegin(r, s)
           \/ ScanMemory(r) \/ CopyLevels(r) \/ QueryReturn(r)
           \/ \E f \in unread[r] : ReadFile(r, f) \/ Misread(r, f) \/ SkipFile(r, f)
    PROVE  QueryCounts'
<1>1. /\ UNCHANGED vars
      /\ \A q \in Readers : q # r => /\ rpc'[q] = rpc[q] /\ target'[q] = target[q]
                                     /\ unread'[q] = unread[q] /\ rows'[q] = rows[q]
                                     /\ before'[q] = before[q] /\ shifted'[q] = shifted[q]
  <2>1. /\ DOMAIN rpc = Readers /\ DOMAIN target = Readers /\ DOMAIN unread = Readers
        /\ DOMAIN rows = Readers /\ DOMAIN before = Readers /\ DOMAIN shifted = Readers
    BY DEF QueryInv, QueryTypeOK
  <2>2. UNCHANGED vars
    BY DEF QueryBegin, ScanMemory, CopyLevels, QueryReturn, ReadFile, Misread, SkipFile,
       QueryStep
  <2>3. ASSUME NEW q \in Readers, q # r
        PROVE  /\ rpc'[q] = rpc[q] /\ target'[q] = target[q]
               /\ unread'[q] = unread[q] /\ rows'[q] = rows[q]
               /\ before'[q] = before[q] /\ shifted'[q] = shifted[q]
    <3>1. CASE \E s \in Symbols : QueryBegin(r, s)
      BY <2>1, <2>3, <3>1 DEF QueryBegin, QueryStep
    <3>2. CASE ScanMemory(r)
      BY <2>1, <2>3, <3>2 DEF ScanMemory, QueryStep
    <3>3. CASE CopyLevels(r)
      BY <2>1, <2>3, <3>3 DEF CopyLevels, QueryStep
    <3>4. CASE QueryReturn(r)
      BY <2>1, <2>3, <3>4 DEF QueryReturn, QueryStep
    <3>5. CASE \E f \in unread[r] : ReadFile(r, f) \/ Misread(r, f) \/ SkipFile(r, f)
      BY <2>1, <2>3, <3>5 DEF ReadFile, Misread, SkipFile, QueryStep
    <3> QED BY <3>1, <3>2, <3>3, <3>4, <3>5
  <2> QED BY <2>2, <2>3
<1>2. history' = history /\ \A v : Places(v)' = Places(v)
  <2>1. UNCHANGED <<active, imms, level0, level1, file0, file1, history>>
    BY <1>1 DEF vars, bufferVars, levelVars, fileVars
  <2> QED BY <2>1, PlacesStay
<1>3. SUFFICES ASSUME NEW v \in before'[r]
               PROVE  /\ history[v].kind = "event" /\ history[v].key[1] = target'[r]
                      /\ v \notin shifted'[r] => Places(v) # {} /\ CountedSoFar(r, v)'
  <2>1. ASSUME NEW q \in Readers, q # r, NEW v \in before'[q]
        PROVE  /\ history'[v].kind = "event" /\ history'[v].key[1] = target'[q]
               /\ v \notin shifted'[q] => Places(v)' # {} /\ CountedSoFar(q, v)'
    BY <1>1, <1>2, <2>1 DEF QueryCounts, CountedSoFar
  <2> QED BY <1>2, <1>3, <2>1 DEF QueryCounts
<1>4. CASE \E s \in Symbols : QueryBegin(r, s)
  <2>1. /\ rpc'[r] = "memory"
        /\ history[v].kind = "event" /\ history[v].key[1] = target'[r] /\ Places(v) # {}
    BY <1>3, <1>4 DEF QueryBegin, QueryStep, QueryInv, QueryTypeOK
  <2> QED BY <2>1 DEF CountedSoFar
<1>5. CASE ScanMemory(r)
  <2>1. /\ rpc'[r] = "levels" /\ rows'[r] = Returned(r, MemoryTables) /\ rows[r] = NoRows
        /\ UNCHANGED <<target, before, shifted>>
    BY <1>5 DEF ScanMemory, QueryStep, QueryInv, QueryTypeOK, MemoryTables
  <2>2. v \in before[r] /\ v \in Versions /\ v \in 1 .. MaxWrites
    BY <2>1, VersionsBounded DEF QueryInv, QueryTypeOK
  <2>3. rows[r] \in [1 .. MaxWrites -> Nat] /\ rows[r][v] = 0
    BY <2>1, <2>2 DEF QueryInv, QueryTypeOK, NoRows
  <2>4. history[v].kind = "event" /\ history[v].key[1] = target[r]
    BY <2>2 DEF QueryCounts
  <2>5. rows'[r][v] = IF InMemory(v) THEN 1 ELSE 0
    <3>1. Returned(r, MemoryTables)[v] = 0 + (IF InMemory(v) THEN 1 ELSE 0)
      BY <2>2, <2>3, <2>4, MemoryOnce
    <3> QED BY <2>1, <3>1
  <2> QED BY <1>2, <2>1, <2>2, <2>5, PlacesOf DEF QueryCounts, CountedSoFar
<1>6. CASE CopyLevels(r)
  <2>1. /\ rpc'[r] = "files" /\ rpc[r] = "levels"
        /\ unread'[r] = {<<"l0", n>> : n \in level0} \cup {<<"l1", n>> : n \in level1}
        /\ UNCHANGED <<target, rows, before, shifted>>
    BY <1>6 DEF CopyLevels, QueryStep, QueryInv, QueryTypeOK
  <2>2. /\ history[v].kind = "event" /\ history[v].key[1] = target[r]
        /\ v \notin shifted[r] => Places(v) # {} /\ CountedSoFar(r, v)
    BY <2>1 DEF QueryCounts
  <2>3. v \in Versions
    BY <2>1 DEF QueryInv, QueryTypeOK
  <2>4. ASSUME v \notin shifted[r], NEW p \in Places(v)
        PROVE  rows[r][v] = IF p \in unread'[r] THEN 0 ELSE 1
    <3>1. rows[r][v] = IF <<"memory", 0>> \in Places(v) THEN 1 ELSE 0
      BY <2>1, <2>2, <2>4 DEF CountedSoFar
    <3>2. <<"memory", 0>> \in Places(v) <=> p = <<"memory", 0>>
      BY <2>3, OnePlace
    <3>3. p \in unread'[r] <=> p # <<"memory", 0>>
      <4>1. p = <<"memory", 0>> => p \notin unread'[r]
        BY <2>1
      <4>2. p # <<"memory", 0>> => p \in unread'[r]
        BY <2>1, PlacesOf
      <4> QED BY <4>1, <4>2
    <3> QED BY <3>1, <3>2, <3>3
  <2> QED BY <1>2, <2>1, <2>2, <2>4 DEF CountedSoFar
<1>7. CASE QueryReturn(r)
  BY <1>3, <1>7 DEF QueryReturn, QueryInv
<1>8. ASSUME NEW f \in unread[r], ReadFile(r, f) \/ SkipFile(r, f)
      PROVE  /\ history[v].kind = "event" /\ history[v].key[1] = target'[r]
             /\ v \notin shifted'[r] => Places(v) # {} /\ CountedSoFar(r, v)'
  <2>1. rpc'[r] = "files" /\ UNCHANGED <<target, before, shifted>>
    BY <1>8 DEF ReadFile, SkipFile, QueryStep, QueryInv, QueryTypeOK
  <2>2. v \notin shifted[r] => \A p \in Places(v) : rows'[r][v] = IF p \in unread'[r] THEN 0 ELSE 1
    BY <1>8, <2>1, ReadCounts
  <2> QED BY <1>2, <2>1, <2>2 DEF QueryCounts, CountedSoFar
<1>9. CASE \E f \in unread[r] : Misread(r, f)
  BY <1>3, <1>9 DEF Misread, QueryInv
<1> QED BY <1>4, <1>5, <1>6, <1>7, <1>8, <1>9

LEMMA CountsTree ==
    ASSUME MaxOutputs = 1, TypeOK, FilesInv, QueryInv, QueryCounts, TreeStep
    PROVE  QueryCounts'
<1>1. TreeMoves
  BY TreeMovesStep DEF TreeStep
<1>2. /\ UNCHANGED <<rpc, target, unread, rows, before>>
      /\ shifted' = [r \in Readers |->
                       shifted[r] \cup {v \in before[r] : Places(v)' # Places(v)}]
  BY DEF TreeStep
<1>3. ASSUME NEW r \in Readers, NEW v \in before'[r]
      PROVE  /\ history'[v].kind = "event" /\ history'[v].key[1] = target'[r]
             /\ v \notin shifted'[r] => Places(v)' # {} /\ CountedSoFar(r, v)'
  <2>1. v \in before[r] /\ v \in Versions /\ history'[v] = history[v]
    BY <1>1, <1>2 DEF QueryInv, QueryTypeOK, TreeMoves
  <2>2. v \notin shifted'[r] => v \notin shifted[r] /\ Places(v)' = Places(v)
    BY <1>2, <2>1
  <2> QED BY <1>2, <2>1, <2>2 DEF QueryCounts, CountedSoFar
<1> QED BY <1>3 DEF QueryCounts

(* With one flush thread, one compactor and files that hold a compaction's *)
(* whole output, a query returns an event that was stored when it began    *)
(* once and once only, whatever moves meanwhile, unless that event moved   *)
(* (db.cpp:271-320), or another query among the files made one of its      *)
(* reads go wrong: a block of the cache may be freed while it is decoded   *)
(* (sstable.cpp:245).  Two compactors can both list what they made of the  *)
(* same inputs, and each copy is then returned.                            *)
THEOREM StableOnce ==
    ASSUME Disciplined, OneCompactor PROVE QuerySpec => []StableRowsOnce
<1>1. QueryInit => QueryCounts
  BY DEF QueryInit, QueryCounts
<1>2. /\ TypeOK /\ WritesBounded /\ FilesInv /\ DurabilityInv /\ OnePlaceInv /\ QueryInv
      /\ QueryCounts /\ [QueryNext]_<<vars, queryVars>>
      => QueryCounts'
  <2> SUFFICES ASSUME TypeOK, WritesBounded, FilesInv, DurabilityInv, OnePlaceInv, QueryInv,
                      QueryCounts, [QueryNext]_<<vars, queryVars>>
               PROVE  QueryCounts'
    OBVIOUS
  <2>1. CASE TreeStep
    BY <2>1, CountsTree DEF Disciplined
  <2>2. CASE UNCHANGED <<vars, queryVars>>
    <3>0. UNCHANGED <<active, imms, level0, level1, file0, file1, history>>
      BY <2>2 DEF vars, bufferVars, levelVars, fileVars
    <3>1. \A v : Places(v)' = Places(v)
      BY <3>0, PlacesStay
    <3> QED BY <2>2, <3>1 DEF QueryCounts, CountedSoFar, vars, queryVars
  <2> QED BY <2>1, <2>2, CountsReader DEF QueryNext, Disciplined
<1>3. QueryInv /\ QueryCounts => StableRowsOnce
  <2> SUFFICES ASSUME QueryInv, QueryCounts, NEW r \in Readers, Finished(r),
                      ~misread[r], NEW v \in before[r] \ shifted[r]
               PROVE  rows[r][v] = 1
    BY DEF StableRowsOnce
  <2>1. PICK p \in Places(v) : rows[r][v] = IF p \in unread[r] THEN 0 ELSE 1
    BY DEF QueryCounts, CountedSoFar, Finished
  <2> QED BY <2>1 DEF Finished
<1>4. QuerySpec => []TypeOK /\ []WritesBounded /\ []FilesInv /\ []DurabilityInv /\ []OnePlaceInv
                   /\ []QueryInv
  <2>1. MaxOutputs = 1
    BY DEF Disciplined
  <2>2. Spec => []TypeOK /\ []WritesBounded /\ []FilesInv /\ []DurabilityInv /\ []OnePlaceInv
    BY <2>1, TypeCorrect, BoundedWrites, FilesCorrect, Durable, OnePlaceAtATime
  <2>3. QuerySpec => []QueryInv
    BY <2>1, QueryCorrect
  <2> QED BY <2>2, <2>3, QueryIsTree, PTL
<1> QED BY <1>1, <1>2, <1>3, <1>4, PTL DEF QuerySpec

=============================================================================

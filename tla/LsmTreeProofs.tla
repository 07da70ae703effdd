--------------------------- MODULE LsmTreeProofs ---------------------------
(***************************************************************************)
(* Theorems about LsmTree, for every set of threads and every value of the *)
(* other constants that the theorem does not name: types, the files and    *)
(* the levels (FilesInv), and the log (RecoverableInv, LogInv).            *)
(***************************************************************************)
EXTENDS LsmTree, WellFoundedInduction, TLAPS

(* A nonempty set of natural numbers with a bound has a maximum: the file  *)
(* that compaction.cpp:55-69 takes for the newest exists.                  *)
LEMMA HasMaximum ==
    ASSUME NEW b \in Nat, NEW S, S \subseteq 0 .. b, S # {}
    PROVE  \E n \in S : \A m \in S : m <= n
<1> DEFINE R == OpToRel(<, Nat)
           T == {b - s : s \in S}
<1>1. IsWellFoundedOn(R, Nat)
  BY NatLessThanWellFounded
<1>2. \A x, y \in Nat : y < x => <<y, x>> \in R
  BY DEF OpToRel
<1> HIDE DEF R
<1>3. T \subseteq Nat
  <2>1. \A s \in S : b - s \in Nat
    OBVIOUS
  <2> QED BY <2>1
<1>4. T # {}
  <2>1. PICK s \in S : TRUE
    OBVIOUS
  <2>2. b - s \in T
    OBVIOUS
  <2> QED BY <2>2
<1>5. PICK x \in T : \A y \in T : ~(<<y, x>> \in R)
  <2> HIDE DEF T
  <2> QED BY <1>1, <1>3, <1>4, WFMin
<1>6. PICK n \in S : x = b - n
  OBVIOUS
<1>7. ASSUME NEW m \in S PROVE m <= n
  <2>1. b - m \in T /\ b - m \in Nat /\ b - n \in Nat
    OBVIOUS
  <2>2. ~(b - m < b - n)
    BY <2>1, <1>2, <1>5, <1>6
  <2>3. m \in Int /\ n \in Int
    OBVIOUS
  <2> QED BY <2>2, <2>3
<1> QED BY <1>7

(* What Newest chooses is the greatest (compaction.cpp:55-69).             *)
LEMMA NewestIsMaximum ==
    ASSUME NEW b \in Nat, NEW S, S \subseteq 0 .. b, S # {}
    PROVE  Newest(S) \in S /\ \A m \in S : m <= Newest(S)
BY HasMaximum DEF Newest

(* The merge of files that are on disk is a table.                         *)
LEMMA MergedType ==
    ASSUME TypeOK, NEW ns, ns \subseteq DOMAIN file0
    PROVE  Merged(ns) \in Table
<1> SUFFICES ASSUME NEW k \in Keys PROVE Merged(ns)[k] \in Nat
  BY DEF Merged, Table
<1> DEFINE having == {n \in ns : file0[n][k] # 0}
<1>1. CASE having = {}
  BY <1>1 DEF Merged
<1>2. CASE having # {}
  <2>1. having \subseteq 0 .. sstSeq /\ sstSeq \in Nat
    BY DEF TypeOK
  <2>2. Newest(having) \in having
    BY <1>2, <2>1, NewestIsMaximum
  <2>3. file0[Newest(having)] \in Table
    BY <2>2 DEF TypeOK
  <2>4. Merged(ns)[k] = file0[Newest(having)][k]
    BY <1>2 DEF Merged
  <2> QED BY <2>3, <2>4 DEF Table
<1> QED BY <1>1, <1>2

-----------------------------------------------------------------------------
(* Type correctness.                                                       *)

LEMMA InitType == Init => TypeOK
<1> SUFFICES ASSUME Init PROVE TypeOK
  OBVIOUS
<1>0. moved \in BOOLEAN
  BY DEF Init
<1>1. /\ symbols \subseteq Symbols /\ nextSeq \in 1 .. MaxSeq + 1
      /\ sstSeq \in 1 .. MaxSst + 1 /\ used \in Nat
      /\ level0 \subseteq Nat /\ level1 \subseteq Nat
      /\ fault \in {"none", "null_active", "terminate"}
  BY NumbersAssumption DEF Init
<1>2. active \in Table /\ held \in [Drainers -> Table] /\ number \in [Drainers -> Nat]
  BY DEF Init, Table, Empty
<1>3. /\ imms \in Seq(Table) /\ wal \in Seq(Event) /\ history \in Seq(Event)
      /\ hidden \subseteq Event /\ dropped \subseteq Nat /\ unremoved \subseteq Nat
  BY DEF Init
<1>9. torn \in BOOLEAN
  BY DEF Init
<1>4. DOMAIN file0 = {} /\ file0 \in [DOMAIN file0 -> Table]
  BY DEF Init
<1>5. DOMAIN file1 = {} /\ file1 \in [DOMAIN file1 -> Table]
  BY DEF Init
<1>6. /\ wpc \in [Writers -> WriterStates] /\ op \in [Writers -> Event \cup {NoEvent}]
      /\ \A w \in Writers : wpc[w] # "idle" => op[w] \in Event
  BY DEF Init, WriterStates
<1>7. fpc \in [Drainers -> DrainStates]
  BY DEF Init, DrainStates
<1>8. cpc \in [Compactors -> MergeStates] /\ job \in [Compactors -> Job]
  BY DEF Init, MergeStates, Job, NoJob
<1> QED BY <1>0, <1>1, <1>2, <1>3, <1>4, <1>5, <1>6, <1>7, <1>8, <1>9 DEF TypeOK

LEMMA WriteType ==
    ASSUME TypeOK, NEW e \in Event, WriteRecord(e)
    PROVE  wal' \in Seq(Event) /\ torn' \in BOOLEAN /\ hidden' \subseteq Event
<1>1. torn' \in BOOLEAN
  BY DEF WriteRecord, TypeOK
<1>2. wal \in Seq(Event) /\ Append(wal, e) \in Seq(Event) /\ hidden \cup {e} \subseteq Event
  BY DEF TypeOK
<1>3. wal' \in Seq(Event) /\ hidden' \subseteq Event
  <2>1. CASE torn
    BY <1>2, <2>1 DEF WriteRecord, TypeOK
  <2>2. CASE ~torn
    BY <1>2, <2>2 DEF WriteRecord, TypeOK
  <2> QED BY <2>1, <2>2
<1> QED BY <1>1, <1>3

LEMMA WriterType ==
    ASSUME TypeOK, NEW w \in Writers, WriterStep(w)
    PROVE  TypeOK'
<1> USE DEF WriterStates
<1>1. ASSUME NEW s \in Symbols, AppendBegin(w, s) PROVE TypeOK'
  <2>1. <<s, nextSeq>> \in Keys /\ nextSeq' \in 1 .. MaxSeq + 1
    BY <1>1, NumbersAssumption DEF AppendBegin, Keys, TypeOK
  <2>2. [key |-> <<s, nextSeq>>, kind |-> "event"] \in Event
    BY <2>1 DEF Event, Kinds
  <2>3. symbols' \subseteq Symbols
    BY <1>1 DEF AppendBegin, Begin, TypeOK
  <2> QED BY <1>1, <2>1, <2>2, <2>3 DEF TypeOK, AppendBegin, Begin, bufferVars,
             levelVars, fileVars, drainVars, mergeVars
<1>2. ASSUME NEW k \in Keys, RemoveBegin(w, k) PROVE TypeOK'
  <2>1. [key |-> k, kind |-> "tombstone"] \in Event /\ k[1] \in Symbols
    BY DEF Event, Kinds, Keys
  <2>2. symbols' \subseteq Symbols
    BY <1>2, <2>1 DEF RemoveBegin, Begin, TypeOK
  <2> QED BY <1>2, <2>1, <2>2 DEF TypeOK, RemoveBegin, Begin, bufferVars,
             levelVars, fileVars, drainVars, mergeVars
<1>3. CASE Log(w)
  <2>1. op[w] \in Event
    BY <1>3 DEF Log, TypeOK
  <2>2. wal' \in Seq(Event) /\ torn' \in BOOLEAN /\ hidden' \subseteq Event
    <3>1. CASE WalEnabled
      BY <1>3, <2>1, <3>1, WriteType DEF Log
    <3>2. CASE ~WalEnabled
      BY <1>3, <3>2 DEF Log, TypeOK
    <3> QED BY <3>1, <3>2
  <2> QED BY <1>3, <2>2 DEF TypeOK, Log, bufferVars, levelVars, fileVars,
             drainVars, mergeVars
<1>4. CASE LogFails(w)
  <2>1. op[w] \in Event
    BY <1>4 DEF LogFails, TypeOK
  <2>3. wal' \in Seq(Event) /\ torn' \in BOOLEAN /\ hidden' \subseteq Event
    <3>1. CASE UNCHANGED <<wal, torn, hidden>>
      BY <3>1 DEF TypeOK
    <3>2. CASE torn' = TRUE /\ UNCHANGED <<wal, hidden>>
      BY <3>2 DEF TypeOK
    <3>3. CASE WriteRecord(op[w])
      BY <2>1, <3>3, WriteType
    <3> QED BY <1>4, <3>1, <3>2, <3>3 DEF LogFails
  <2> QED BY <1>4, <2>3 DEF TypeOK, LogFails, Leave, bufferVars, levelVars,
             fileVars, drainVars, mergeVars
<1>5. CASE Insert(w)
  <2>1. op[w] \in Event
    BY <1>5 DEF Insert, TypeOK
  <2>2. history' \in Seq(Event)
    BY <1>5, <2>1 DEF Insert, TypeOK
  <2>3. WithRecord(w) \in Table
    <3>1. Len(history) \in Nat
      BY DEF TypeOK
    <3> QED BY <2>1, <3>1 DEF TypeOK, Table, Event, WithRecord
  <2>4. active' \in Table /\ used' \in Nat /\ imms' \in Seq(Table)
    <3>1. CASE used + 1 >= FlushAt
      <4>1. imms' = Append(imms, WithRecord(w)) /\ active' = Empty /\ used' = 0
        BY <1>5, <3>1 DEF Insert, Rotate
      <4>2. imms' \in Seq(Table)
        BY <4>1, <2>3 DEF TypeOK
      <4> QED BY <4>1, <4>2 DEF Table, Empty
    <3>2. CASE ~(used + 1 >= FlushAt)
      <4>1. active' = WithRecord(w) /\ used' = used + 1 /\ imms' = imms
        BY <1>5, <3>2 DEF Insert
      <4> QED BY <4>1, <2>3 DEF TypeOK
    <3> QED BY <3>1, <3>2
  <2>5. /\ wpc' \in [Writers -> WriterStates] /\ op' \in [Writers -> Event \cup {NoEvent}]
        /\ \A x \in Writers : wpc'[x] # "idle" => op'[x] \in Event
    BY <1>5 DEF Insert, Leave, TypeOK
  <2> QED BY <1>5, <2>2, <2>4, <2>5 DEF TypeOK, Insert, levelVars, fileVars,
             drainVars, mergeVars
<1>6. CASE Report(w)
  BY <1>6 DEF TypeOK, Report, Leave, bufferVars, levelVars, fileVars, drainVars, mergeVars
<1>7. CASE NullActive(w)
  BY <1>7 DEF TypeOK, NullActive, bufferVars, levelVars, fileVars, writerVars,
     drainVars, mergeVars
<1> QED BY <1>1, <1>2, <1>3, <1>4, <1>5, <1>6, <1>7 DEF WriterStep

LEMMA RotateType ==
    ASSUME TypeOK, Rotate(active)
    PROVE  active' \in Table /\ used' \in Nat /\ imms' \in Seq(Table)
BY DEF TypeOK, Rotate, Table, Empty

LEMMA DrainType ==
    ASSUME TypeOK, NEW d \in Drainers, Drain(d)
    PROVE  TypeOK'
<1> USE DEF DrainStates
<1>1. CASE FlushPop(d)
  BY <1>1 DEF TypeOK, FlushPop, FlushStep, levelVars, fileVars, writerVars, mergeVars
<1>2. CASE FlushWrite(d)
  <2>1. sstSeq' \in 1 .. MaxSst + 1 /\ sstSeq \in Nat
    BY <1>2, NumbersAssumption DEF TypeOK, FlushWrite
  <2>2. DOMAIN file0' \subseteq 1 .. sstSeq' - 1 /\ file0' \in [DOMAIN file0' -> Table]
    BY <1>2 DEF TypeOK, FlushWrite
  <2> QED BY <1>2, <2>1, <2>2 DEF TypeOK, FlushWrite, FlushStep, bufferVars,
             levelVars, writerVars, mergeVars
<1>3. CASE FlushFails(d)
  <2>1. sstSeq' \in 1 .. MaxSst + 1 /\ DOMAIN file0' \subseteq 1 .. sstSeq' - 1
    BY <1>3, NumbersAssumption DEF TypeOK, FlushFails
  <2>2. file0' \in [DOMAIN file0' -> Table]
    BY <1>3 DEF TypeOK, FlushFails
  <2> QED BY <1>3, <2>1, <2>2 DEF TypeOK, FlushFails, FlushStep, Empty, Table, bufferVars,
             levelVars, writerVars, mergeVars
<1>4. CASE FlushPublish(d)
  BY <1>4 DEF TypeOK, FlushPublish, FlushStep, Empty, Table, bufferVars, levelVars, fileVars,
     writerVars, mergeVars
<1>5. CASE FlushDone(d)
  BY <1>5 DEF TypeOK, FlushDone, FlushStep, bufferVars, levelVars, fileVars,
     writerVars, mergeVars
<1> QED BY <1>1, <1>2, <1>3, <1>4, <1>5 DEF Drain

LEMMA FlushCallType ==
    ASSUME TypeOK, NEW f \in Flushers, FlushLoop(f) \/ FlushNow(f)
    PROVE  TypeOK'
<1> USE DEF DrainStates
<1>1. CASE FlushLoop(f)
  BY <1>1 DEF TypeOK, FlushLoop, FlushCheck, FlushWake, FlushStep, bufferVars,
     levelVars, fileVars, writerVars, mergeVars
<1>2. CASE FlushNow(f)
  <2>1. active' \in Table /\ used' \in Nat /\ imms' \in Seq(Table)
    BY <1>2, RotateType DEF FlushNow, TypeOK
  <2> QED BY <1>2, <2>1 DEF TypeOK, FlushNow, FlushStep, levelVars, fileVars,
             writerVars, mergeVars
<1> QED BY <1>1, <1>2

LEMMA CompactType ==
    ASSUME TypeOK, NEW c \in Compactors, Merge(c) \/ CompactLoop(c) \/ CompactNow(c)
    PROVE  TypeOK'
<1> USE DEF MergeStates, Home
<1>1. CASE CompactSnapshot(c)
  BY <1>1 DEF TypeOK, CompactSnapshot, CompactStep, Job, bufferVars, levelVars,
     fileVars, writerVars, drainVars
<1>2. CASE CompactRun(c)
  <2> DEFINE merged == Merged(job[c].inputs)
  <2>1. merged \in Table
    BY <1>2, MergedType DEF CompactRun
  <2>2. PICK part \in Splits(merged) :
          LET outs == {sstSeq + part[k] - 1 : k \in {x \in Keys : merged[x] # 0}}
          IN  /\ WriteOutputs(merged, part, outs, {})
              /\ job' = [job EXCEPT ![c].outs = outs]
    BY <1>2 DEF CompactRun
  <2> DEFINE outs == {sstSeq + part[k] - 1 : k \in {x \in Keys : merged[x] # 0}}
  <2> HIDE DEF merged
  <2>3. outs \subseteq Nat
    BY NumbersAssumption DEF TypeOK, Splits
  <2> HIDE DEF outs
  <2>4. DOMAIN file1' \subseteq Nat /\ file1' \in [DOMAIN file1' -> Table]
    BY <2>1, <2>2, <2>3 DEF WriteOutputs, TypeOK, Table, outs
  <2>5. job' \in [Compactors -> Job]
    BY <2>2, <2>3 DEF TypeOK, Job, outs
  <2>6. sstSeq' \in 1 .. MaxSst + 1 /\ DOMAIN file0' \subseteq 1 .. sstSeq' - 1
    <3>1. sstSeq <= MaxSst /\ sstSeq' = sstSeq + 1 /\ file0' = file0
      BY <1>2 DEF CompactRun
    <3>2. sstSeq \in 1 .. MaxSst + 1 /\ DOMAIN file0 \subseteq 1 .. sstSeq - 1
      BY DEF TypeOK
    <3> QED BY <3>1, <3>2, NumbersAssumption
  <2> QED BY <1>2, <2>4, <2>5, <2>6 DEF TypeOK, CompactRun, CompactStep, bufferVars,
             levelVars, writerVars, drainVars
<1>3. CASE CompactThrows(c)
  <2>1. sstSeq' \in 1 .. MaxSst + 1 /\ DOMAIN file0' \subseteq 1 .. sstSeq' - 1
    BY <1>3, NumbersAssumption DEF TypeOK, CompactThrows, fileVars
  <2> QED BY <1>3, <2>1 DEF TypeOK, CompactThrows, CompactStep, Job, NoJob, bufferVars,
             levelVars, fileVars, writerVars, drainVars
<1>4. CASE CompactFails(c)
  <2> DEFINE merged == Merged(job[c].inputs)
  <2>1. merged \in Table
    BY <1>4, MergedType DEF CompactFails
  <2>2. PICK part \in Splits(merged), done \in 0 .. MaxOutputs - 1 :
          WriteOutputs(merged, part, {sstSeq + i - 1 : i \in 1 .. done}, {sstSeq + done})
    BY <1>4 DEF CompactFails
  <2> DEFINE outs == {sstSeq + i - 1 : i \in 1 .. done}
  <2>3. outs \subseteq Nat
    BY NumbersAssumption DEF TypeOK
  <2> HIDE DEF merged, outs
  <2>4. DOMAIN file1' \subseteq Nat /\ file1' \in [DOMAIN file1' -> Table]
    BY <2>1, <2>2, <2>3 DEF WriteOutputs, TypeOK, Table, outs
  <2>6. sstSeq' \in 1 .. MaxSst + 1 /\ DOMAIN file0' \subseteq 1 .. sstSeq' - 1
    <3>1. sstSeq <= MaxSst /\ sstSeq' = sstSeq + 1 /\ file0' = file0
      BY <1>4 DEF CompactFails
    <3>2. sstSeq \in 1 .. MaxSst + 1 /\ DOMAIN file0 \subseteq 1 .. sstSeq - 1
      BY DEF TypeOK
    <3> QED BY <3>1, <3>2, NumbersAssumption
  <2> QED BY <1>4, <2>4, <2>6 DEF TypeOK, CompactFails, CompactStep, Job, NoJob,
             bufferVars, levelVars, writerVars, drainVars
<1>5. ASSUME NEW n \in job[c].todo, CompactDelete(c, n) PROVE TypeOK'
  <2>1. DOMAIN file0' \subseteq 1 .. sstSeq' - 1 /\ file0' \in [DOMAIN file0' -> Table]
    BY <1>5 DEF TypeOK, CompactDelete
  <2>2. job' \in [Compactors -> Job]
    BY <1>5 DEF TypeOK, CompactDelete, Job
  <2> QED BY <1>5, <2>1, <2>2 DEF TypeOK, CompactDelete, CompactStep, bufferVars,
             levelVars, writerVars, drainVars
<1>8. ASSUME NEW n \in job[c].todo, CompactDeleteFails(c, n) PROVE TypeOK'
  <2>1. job' \in [Compactors -> Job]
    BY <1>8 DEF TypeOK, CompactDeleteFails, Job
  <2>2. unremoved' \subseteq Nat
    BY <1>8 DEF TypeOK, CompactDeleteFails, Job
  <2> QED BY <1>8, <2>1, <2>2 DEF TypeOK, CompactDeleteFails, CompactStep, bufferVars, levelVars,
             fileVars, writerVars, drainVars
<1>6. CASE CompactPublish(c)
  <2>1. job[c] \in Job
    BY DEF TypeOK
  <2> QED BY <1>6, <2>1 DEF TypeOK, CompactPublish, CompactStep, Job, NoJob, bufferVars,
             fileVars, writerVars, drainVars
<1>7. CASE CompactLoop(c) \/ CompactNow(c)
  BY <1>7 DEF TypeOK, CompactLoop, CompactNow, CompactCheck, CompactWake, CompactStep,
     bufferVars, levelVars, fileVars, writerVars, drainVars
<1> QED BY <1>1, <1>2, <1>3, <1>4, <1>5, <1>6, <1>7, <1>8 DEF Merge

LEMMA CloseType ==
    ASSUME TypeOK, CloseBegin \/ CloseStep
    PROVE  TypeOK'
<1> USE DEF DrainStates
<1>1. CASE CloseBegin \/ CloseJoinFlusher \/ CloseJoinCompactor
  BY <1>1 DEF TypeOK, CloseBegin, CloseJoinFlusher, CloseJoinCompactor, FlushStep,
     bufferVars, levelVars, fileVars, writerVars, mergeVars
<1>2. CASE CloseRotate
  <2>1. active' \in Table /\ used' \in Nat /\ imms' \in Seq(Table)
    BY <1>2, RotateType DEF CloseRotate, TypeOK
  <2>2. moved' \in BOOLEAN
    BY <1>2 DEF CloseRotate
  <2> QED BY <1>2, <2>1, <2>2 DEF TypeOK, CloseRotate, FlushStep, levelVars, fileVars,
             writerVars, mergeVars
<1> QED BY <1>1, <1>2 DEF CloseStep

LEMMA TypeStep == TypeOK /\ [Next]_vars => TypeOK'
<1> SUFFICES ASSUME TypeOK, [Next]_vars PROVE TypeOK'
  OBVIOUS
<1>1. CASE UNCHANGED vars
  BY <1>1 DEF TypeOK, vars, bufferVars, levelVars, fileVars, writerVars, drainVars,
     mergeVars
<1>2. CASE Next
  BY <1>2, WriterType, DrainType, FlushCallType, CompactType, CloseType DEF Next
<1> QED BY <1>1, <1>2

(* Every variable keeps its type, whatever fails and whoever calls what.   *)
THEOREM TypeCorrect == Spec => []TypeOK
BY InitType, TypeStep, PTL DEF Spec

-----------------------------------------------------------------------------
(* The levels and the directories.  A drainer about to list its file has   *)
(* written it, under a number of its own that no compaction was given; ... *)
WrittenApart ==
    \A d \in Drainers : fpc[d] = "publish" =>
        /\ number[d] \in DOMAIN file0 \ (level0 \cup dropped)
        /\ \A c \in Compactors : number[d] \notin job[c].inputs
        /\ \A e \in Drainers : fpc[e] = "publish" /\ number[e] = number[d] => e = d

(* ... a number that levels_[0] lists no more was handed out, and nothing  *)
(* that was to be removed is left but by a fault; ...                      *)
DroppedApart ==
    /\ dropped \subseteq 1 .. sstSeq - 1 /\ dropped \cap level0 = {}
    /\ DiskFaults \/ unremoved = {}

(* ... and a compactor has inputs from its snapshot on, deletes no other    *)
(* file and leaves none of them unless a remove() failed, and lists what   *)
(* it wrote.                                                               *)
JobProgress ==
    \A c \in Compactors :
        /\ cpc[c] \notin {"run", "delete", "publish"} => job[c] = NoJob
        /\ cpc[c] = "run" => job[c].todo = job[c].inputs /\ job[c].outs = {}
        /\ cpc[c] = "publish" => job[c].todo = {}
        /\ (job[c].inputs \ job[c].todo) \cap DOMAIN file0 \subseteq unremoved
        /\ job[c].outs \subseteq DOMAIN file1

FilesInv == Numbering /\ WrittenApart /\ DroppedApart /\ JobProgress /\ LevelsMatchDisk

(* What a step may do to the files that a level lists, or has listed. *)
KeepsListed ==
    /\ \A n \in (level0 \cup dropped) \cap DOMAIN file0' :
          n \in DOMAIN file0 /\ file0'[n] = file0[n]
    /\ level0' \cap dropped = {}
    /\ \A n \in level1 : n \in DOMAIN file1' /\ file1'[n] = file1[n]

(* A step that touches no file, list, number or job.                       *)
LEMMA FilesQuiet ==
    ASSUME FilesInv, UNCHANGED <<sstSeq, levelVars, fileVars, number, job>>,
           \A d \in Drainers : fpc[d] = "publish" <=> fpc'[d] = "publish",
           \A c \in Compactors :
              cpc'[c] = cpc[c] \/ {cpc[c], cpc'[c]} \cap {"run", "delete", "publish"} = {}
    PROVE  FilesInv' /\ KeepsListed
<1> USE DEF levelVars, fileVars
<1>1. Numbering'
  BY DEF FilesInv, Numbering
<1>2. WrittenApart' /\ DroppedApart'
  BY DEF FilesInv, WrittenApart, DroppedApart
<1>3. JobProgress'
  BY DEF FilesInv, JobProgress
<1>4. LevelsMatchDisk'
  BY DEF FilesInv, LevelsMatchDisk, ListedOnDisk, NoOrphans
<1>5. KeepsListed
  BY DEF FilesInv, LevelsMatchDisk, ListedOnDisk, DroppedApart, KeepsListed
<1> QED BY <1>1, <1>2, <1>3, <1>4, <1>5 DEF FilesInv

LEMMA FlushWriteFiles ==
    ASSUME TypeOK, FilesInv, NEW d \in Drainers, FlushWrite(d)
    PROVE  FilesInv' /\ KeepsListed
<1>1. /\ fpc[d] = "write" /\ fpc' = [fpc EXCEPT ![d] = "publish"]
      /\ sstSeq' = sstSeq + 1 /\ sstSeq \in Nat /\ sstSeq # 0
      /\ number' = [number EXCEPT ![d] = sstSeq]
      /\ UNCHANGED <<level0, level1, dropped, unremoved, file1, cpc, job>>
  BY DEF FlushWrite, FlushStep, levelVars, mergeVars, TypeOK
<1>2. /\ DOMAIN file0' = DOMAIN file0 \cup {sstSeq}
      /\ \A n \in DOMAIN file0 : n # sstSeq => file0'[n] = file0[n]
  BY DEF FlushWrite
<1>3. /\ sstSeq \notin DOMAIN file0 /\ sstSeq \notin level0 /\ sstSeq \notin dropped
      /\ \A c \in Compactors : sstSeq \notin job[c].inputs
      /\ 1 .. sstSeq - 1 \subseteq 1 .. sstSeq' - 1
  BY <1>1 DEF TypeOK, FilesInv, Numbering, DroppedApart
<1>4. /\ fpc'[d] = "publish" /\ number'[d] = sstSeq
      /\ \A e \in Drainers : e # d => fpc'[e] = fpc[e] /\ number'[e] = number[e]
  BY <1>1 DEF TypeOK
<1>5. Numbering' /\ DroppedApart'
  BY <1>1, <1>3 DEF FilesInv, Numbering, DroppedApart
<1>6. WrittenApart'
  <2> SUFFICES ASSUME NEW x \in Drainers, fpc'[x] = "publish"
               PROVE  /\ number'[x] \in DOMAIN file0' \ (level0 \cup dropped)
                      /\ \A c \in Compactors : number'[x] \notin job[c].inputs
                      /\ \A e \in Drainers : fpc'[e] = "publish" /\ number'[e] = number'[x] => e = x
    BY <1>1 DEF WrittenApart
  <2>1. \A e \in Drainers : e # d /\ fpc'[e] = "publish" => number'[e] # sstSeq
    BY <1>3, <1>4 DEF FilesInv, WrittenApart
  <2>2. CASE x = d
    BY <1>2, <1>3, <1>4, <2>1, <2>2
  <2>3. CASE x # d
    BY <1>2, <1>4, <2>1, <2>3 DEF FilesInv, WrittenApart
  <2> QED BY <2>2, <2>3
<1>7. JobProgress'
  BY <1>1, <1>2, <1>3 DEF FilesInv, JobProgress
<1>8. LevelsMatchDisk'
  <2>1. ListedOnDisk'
    BY <1>1, <1>2 DEF FilesInv, LevelsMatchDisk, ListedOnDisk
  <2>2. NoOrphans'
    <3>1. ASSUME NEW n \in DOMAIN file0' \ level0, n \notin unremoved
          PROVE  \E e \in Drainers : fpc'[e] = "publish" /\ number'[e] = n
      <4>1. CASE n = sstSeq
        BY <1>4, <4>1
      <4>2. CASE n # sstSeq
        <5>1. PICK e \in Drainers : fpc[e] = "publish" /\ number[e] = n
          BY <1>2, <3>1, <4>2 DEF FilesInv, LevelsMatchDisk, NoOrphans
        <5> QED BY <1>1, <1>4, <5>1
      <4> QED BY <4>1, <4>2
    <3> QED BY <1>1, <3>1 DEF FilesInv, LevelsMatchDisk, NoOrphans
  <2> QED BY <2>1, <2>2 DEF LevelsMatchDisk
<1>9. KeepsListed
  BY <1>1, <1>2, <1>3 DEF KeepsListed, FilesInv, LevelsMatchDisk, ListedOnDisk, DroppedApart
<1> QED BY <1>5, <1>6, <1>7, <1>8, <1>9 DEF FilesInv

LEMMA FlushPublishFiles ==
    ASSUME TypeOK, FilesInv, NEW d \in Drainers, FlushPublish(d)
    PROVE  FilesInv' /\ KeepsListed
<1>1. /\ fpc[d] = "publish" /\ fpc' = [fpc EXCEPT ![d] = "drain"]
      /\ number' = [number EXCEPT ![d] = 0] /\ level0' = level0 \cup {number[d]}
      /\ UNCHANGED <<level1, dropped, unremoved, sstSeq, file0, file1, cpc, job>>
  BY DEF FlushPublish, FlushStep, fileVars, mergeVars
<1>2. /\ fpc'[d] # "publish"
      /\ \A e \in Drainers : e # d => fpc'[e] = fpc[e] /\ number'[e] = number[e]
  BY <1>1 DEF TypeOK
<1>3. /\ number[d] \in DOMAIN file0 /\ number[d] \in 1 .. sstSeq - 1
      /\ number[d] \notin dropped
  BY <1>1 DEF FilesInv, WrittenApart, TypeOK
<1>4. Numbering' /\ JobProgress' /\ DroppedApart'
  BY <1>1, <1>3 DEF FilesInv, Numbering, JobProgress, DroppedApart
<1>5. WrittenApart'
  BY <1>1, <1>2 DEF FilesInv, WrittenApart
<1>6. ListedOnDisk'
  BY <1>1, <1>3 DEF FilesInv, LevelsMatchDisk, ListedOnDisk
<1>7. NoOrphans'
  BY <1>1, <1>2 DEF FilesInv, LevelsMatchDisk, NoOrphans
<1>8. KeepsListed
  BY <1>1, <1>3 DEF KeepsListed, FilesInv, LevelsMatchDisk, ListedOnDisk, DroppedApart
<1> QED BY <1>4, <1>5, <1>6, <1>7, <1>8 DEF FilesInv, LevelsMatchDisk

LEMMA CompactSnapshotFiles ==
    ASSUME TypeOK, FilesInv, NEW c \in Compactors, CompactSnapshot(c)
    PROVE  FilesInv' /\ KeepsListed
<1>1. /\ cpc[c] = "snapshot"
      /\ cpc' = [cpc EXCEPT ![c] = IF level0 = {} THEN Home(c) ELSE "run"]
      /\ job' = [job EXCEPT ![c] = [inputs |-> level0, todo |-> level0, outs |-> {}]]
      /\ UNCHANGED <<level0, level1, dropped, unremoved, sstSeq, file0, file1, fpc, number>>
  BY DEF CompactSnapshot, CompactStep, levelVars, fileVars, drainVars
<1>2. /\ job'[c] = [inputs |-> level0, todo |-> level0, outs |-> {}]
      /\ job'[c].inputs = level0 /\ job'[c].todo = level0 /\ job'[c].outs = {}
      /\ cpc'[c] = IF level0 = {} THEN Home(c) ELSE "run"
      /\ Home(c) \notin {"run", "delete", "publish"}
      /\ \A x \in Compactors : x # c => cpc'[x] = cpc[x] /\ job'[x] = job[x]
      /\ job[c] = NoJob
  BY <1>1 DEF TypeOK, Home, FilesInv, JobProgress
<1>3. Numbering'
  BY <1>1, <1>2 DEF FilesInv, Numbering
<1>4. WrittenApart' /\ DroppedApart'
  BY <1>1, <1>2 DEF FilesInv, WrittenApart, DroppedApart
<1>5. JobProgress'
  <2> SUFFICES ASSUME NEW x \in Compactors
               PROVE  /\ cpc'[x] \notin {"run", "delete", "publish"} => job'[x] = NoJob
                      /\ cpc'[x] = "run" => job'[x].todo = job'[x].inputs /\ job'[x].outs = {}
                      /\ cpc'[x] = "publish" => job'[x].todo = {}
                      /\ (job'[x].inputs \ job'[x].todo) \cap DOMAIN file0 \subseteq unremoved
                      /\ job'[x].outs \subseteq DOMAIN file1
    BY <1>1 DEF JobProgress
  <2>1. CASE x = c
    BY <1>2, <2>1 DEF NoJob
  <2>2. CASE x # c
    BY <1>2, <2>2 DEF FilesInv, JobProgress
  <2> QED BY <2>1, <2>2
<1>6. ListedOnDisk'
  BY <1>1, <1>2 DEF FilesInv, LevelsMatchDisk, ListedOnDisk, NoJob
<1>7. NoOrphans'
  BY <1>1, <1>2 DEF FilesInv, LevelsMatchDisk, NoOrphans, NoJob
<1>8. KeepsListed
  BY <1>1 DEF KeepsListed, FilesInv, LevelsMatchDisk, ListedOnDisk, DroppedApart
<1> QED BY <1>3, <1>4, <1>5, <1>6, <1>7, <1>8 DEF FilesInv, LevelsMatchDisk

(* A run of a compaction that ends without an output, or that throws.      *)
LEMMA CompactAbortFiles ==
    ASSUME TypeOK, FilesInv, NEW c \in Compactors, cpc[c] = "run",
           NEW home, home \notin {"run", "delete", "publish"}, cpc' = [cpc EXCEPT ![c] = home],
           sstSeq' = sstSeq + 1, job' = [job EXCEPT ![c] = NoJob],
           UNCHANGED <<level0, level1, dropped, unremoved, file0, file1, fpc, number>>
    PROVE  FilesInv' /\ KeepsListed
<1>1. /\ job'[c] = NoJob /\ cpc'[c] = home
      /\ \A x \in Compactors : x # c => cpc'[x] = cpc[x] /\ job'[x] = job[x]
      /\ job[c].todo = job[c].inputs /\ job[c].outs = {}
      /\ 1 .. sstSeq - 1 \subseteq 1 .. sstSeq' - 1
  BY DEF TypeOK, FilesInv, JobProgress
<1>2. Numbering' /\ WrittenApart' /\ DroppedApart'
  BY <1>1 DEF FilesInv, Numbering, WrittenApart, DroppedApart, NoJob
<1>3. JobProgress'
  BY <1>1 DEF FilesInv, JobProgress, NoJob
<1>4. ListedOnDisk'
  BY <1>1 DEF FilesInv, LevelsMatchDisk, ListedOnDisk, NoJob
<1>5. NoOrphans'
  BY <1>1 DEF FilesInv, LevelsMatchDisk, NoOrphans, NoJob
<1>6. KeepsListed
  BY DEF KeepsListed, FilesInv, LevelsMatchDisk, ListedOnDisk, DroppedApart
<1> QED BY <1>2, <1>3, <1>4, <1>5, <1>6 DEF FilesInv, LevelsMatchDisk

(* With one output, a run adds the merge of its inputs to L1, under the    *)
(* number that was taken from sst_seq_ (compaction.cpp:71-110).            *)
LEMMA RunEffect ==
    ASSUME MaxOutputs = 1, TypeOK, Numbering, NEW c \in Compactors, CompactRun(c)
    PROVE  /\ cpc[c] = "run" /\ job[c].inputs \subseteq DOMAIN file0
           /\ sstSeq \notin DOMAIN file1 /\ DOMAIN file1' = DOMAIN file1 \cup {sstSeq}
           /\ \A n \in DOMAIN file1 : file1'[n] = file1[n]
           /\ \A k \in Keys : file1'[sstSeq][k] = Merged(job[c].inputs)[k]
           /\ sstSeq \in Nat /\ sstSeq' = sstSeq + 1
           /\ cpc'[c] = "delete" /\ job'[c].inputs = job[c].inputs
           /\ job'[c].todo = job[c].todo /\ job'[c].outs = {sstSeq}
           /\ \A x \in Compactors : x # c => cpc'[x] = cpc[x] /\ job'[x] = job[x]
           /\ UNCHANGED <<active, used, moved, imms, level0, level1, dropped, unremoved, file0, fpc,
                          held, number, history>>
<1> DEFINE merged == Merged(job[c].inputs)
           outs(part) == {sstSeq + part[k] - 1 : k \in {x \in Keys : merged[x] # 0}}
<1>1. /\ cpc[c] = "run" /\ job[c].inputs \subseteq DOMAIN file0
      /\ cpc' = [cpc EXCEPT ![c] = "delete"] /\ sstSeq \in Nat /\ sstSeq' = sstSeq + 1
      /\ UNCHANGED <<active, used, moved, imms, level0, level1, dropped, unremoved, file0, fpc,
                     held, number, history>>
  BY DEF CompactRun, CompactStep, bufferVars, levelVars, drainVars, TypeOK
<1>2. PICK part \in Splits(merged) :
        WriteOutputs(merged, part, outs(part), {}) /\ job' = [job EXCEPT ![c].outs = outs(part)]
  BY DEF CompactRun
<1> HIDE DEF merged
<1>3. \A k \in Keys : part[k] = 1
  BY DEF Splits
<1>4. outs(part) = {sstSeq}
  <2>1. PICK last \in 1 .. MaxOutputs : {part[k] : k \in {x \in Keys : merged[x] # 0}} = 1 .. last
    BY DEF Splits
  <2>2. 1 \in 1 .. last
    BY <2>1, NumbersAssumption
  <2>3. PICK k \in Keys : merged[k] # 0
    BY <2>1, <2>2
  <2>4. \A x \in Keys : sstSeq + part[x] - 1 = sstSeq
    BY <1>1, <1>3
  <2> QED BY <2>3, <2>4
<1> HIDE DEF outs
<1>5. sstSeq \notin DOMAIN file1
  BY <1>1 DEF Numbering
<1>6. file1' = [n \in DOMAIN file1 \cup {sstSeq} |->
                  IF n \in {sstSeq}
                  THEN [k \in Keys |-> IF part[k] = n - sstSeq + 1 THEN merged[k] ELSE 0]
                  ELSE file1[n]]
  <2>1. (DOMAIN file1 \cup outs(part)) \ {} = DOMAIN file1 \cup {sstSeq}
    BY <1>4
  <2> QED BY <1>2, <1>4, <2>1 DEF WriteOutputs
<1>7. file1'[sstSeq] = [k \in Keys |-> IF part[k] = sstSeq - sstSeq + 1 THEN merged[k] ELSE 0]
  BY <1>6
<1>8. \A k \in Keys : file1'[sstSeq][k] = merged[k]
  BY <1>1, <1>3, <1>7
<1>9. /\ DOMAIN file1' = DOMAIN file1 \cup {sstSeq}
      /\ \A n \in DOMAIN file1 : file1'[n] = file1[n]
  BY <1>5, <1>6
<1>10. /\ cpc'[c] = "delete" /\ job'[c].inputs = job[c].inputs
       /\ job'[c].todo = job[c].todo /\ job'[c].outs = {sstSeq}
       /\ \A x \in Compactors : x # c => cpc'[x] = cpc[x] /\ job'[x] = job[x]
  BY <1>1, <1>2, <1>4 DEF TypeOK, Job
<1> QED BY <1>1, <1>5, <1>8, <1>9, <1>10 DEF merged

LEMMA CompactRunFiles ==
    ASSUME MaxOutputs = 1, TypeOK, FilesInv, NEW c \in Compactors, CompactRun(c)
    PROVE  FilesInv' /\ KeepsListed
<1>1. /\ sstSeq' = sstSeq + 1 /\ sstSeq \in Nat
      /\ UNCHANGED <<level0, level1, dropped, unremoved, file0, fpc, number>>
      /\ sstSeq \notin DOMAIN file1 /\ DOMAIN file1' = DOMAIN file1 \cup {sstSeq}
      /\ \A n \in DOMAIN file1 : file1'[n] = file1[n]
      /\ cpc[c] = "run" /\ cpc'[c] = "delete" /\ job'[c].inputs = job[c].inputs
      /\ job'[c].todo = job[c].todo /\ job'[c].outs = {sstSeq}
      /\ \A x \in Compactors : x # c => cpc'[x] = cpc[x] /\ job'[x] = job[x]
  BY RunEffect DEF FilesInv
<1>2. /\ job[c].todo = job[c].inputs /\ job[c].outs = {} /\ sstSeq \notin level1
      /\ 1 .. sstSeq - 1 \subseteq 1 .. sstSeq' - 1 /\ sstSeq \in 1 .. sstSeq' - 1
  BY <1>1 DEF TypeOK, FilesInv, JobProgress, LevelsMatchDisk, ListedOnDisk
<1>3. Numbering'
  BY <1>1, <1>2 DEF FilesInv, Numbering
<1>4. WrittenApart' /\ DroppedApart'
  BY <1>1, <1>2 DEF FilesInv, WrittenApart, DroppedApart
<1>5. JobProgress'
  <2> SUFFICES ASSUME NEW x \in Compactors
               PROVE  /\ cpc'[x] \notin {"run", "delete", "publish"} => job'[x] = NoJob
                      /\ cpc'[x] = "run" => job'[x].todo = job'[x].inputs /\ job'[x].outs = {}
                      /\ cpc'[x] = "publish" => job'[x].todo = {}
                      /\ (job'[x].inputs \ job'[x].todo) \cap DOMAIN file0 \subseteq unremoved
                      /\ job'[x].outs \subseteq DOMAIN file1'
    BY <1>1 DEF JobProgress
  <2>1. CASE x = c
    BY <1>1, <1>2, <2>1
  <2>2. CASE x # c
    BY <1>1, <1>2, <2>2 DEF FilesInv, JobProgress
  <2> QED BY <2>1, <2>2
<1>6. ListedOnDisk'
  BY <1>1, <1>2 DEF FilesInv, LevelsMatchDisk, ListedOnDisk
<1>7. NoOrphans'
  BY <1>1, <1>2 DEF FilesInv, LevelsMatchDisk, NoOrphans
<1>8. KeepsListed
  BY <1>1 DEF KeepsListed, FilesInv, LevelsMatchDisk, ListedOnDisk, DroppedApart
<1> QED BY <1>3, <1>4, <1>5, <1>6, <1>7, <1>8 DEF FilesInv, LevelsMatchDisk

(* The unfinished output of a run that fails had a number of its own.      *)
LEMMA CompactFailsFiles ==
    ASSUME MaxOutputs = 1, TypeOK, FilesInv, NEW c \in Compactors, CompactFails(c)
    PROVE  FilesInv' /\ KeepsListed
<1>1. PICK part \in Splits(Merged(job[c].inputs)), done \in 0 .. MaxOutputs - 1 :
        WriteOutputs(Merged(job[c].inputs), part, {sstSeq + i - 1 : i \in 1 .. done},
                     {sstSeq + done})
  BY DEF CompactFails
<1>2. sstSeq \in Nat /\ sstSeq \notin DOMAIN file1 /\ file1 = [n \in DOMAIN file1 |-> file1[n]]
  BY DEF TypeOK, FilesInv, Numbering
<1>3. done = 0 /\ {sstSeq + i - 1 : i \in 1 .. done} = {} /\ {sstSeq + done} = {sstSeq}
  BY <1>2
<1>4. file1' = [n \in DOMAIN file1 |-> file1[n]]
  <2> DEFINE outs == {sstSeq + i - 1 : i \in 1 .. done}
  <2> HIDE DEF outs
  <2>1. outs = {} /\ WriteOutputs(Merged(job[c].inputs), part, outs, {sstSeq})
    BY <1>1, <1>3 DEF outs
  <2>2. (DOMAIN file1 \cup outs) \ {sstSeq} = DOMAIN file1
    BY <1>2, <2>1
  <2> QED BY <2>1, <2>2 DEF WriteOutputs
<1>5. /\ cpc[c] = "run"
      /\ cpc' = [cpc EXCEPT ![c] = IF c \in Background THEN "exited" ELSE "idle"]
      /\ sstSeq' = sstSeq + 1 /\ job' = [job EXCEPT ![c] = NoJob]
      /\ UNCHANGED <<level0, level1, dropped, unremoved, file0, file1, fpc, number>>
  BY <1>2, <1>4 DEF CompactFails, CompactStep, levelVars, drainVars
<1>6. (IF c \in Background THEN "exited" ELSE "idle") \notin {"run", "delete", "publish"}
  OBVIOUS
<1> DEFINE home == IF c \in Background THEN "exited" ELSE "idle"
<1> HIDE DEF home
<1>7. home \notin {"run", "delete", "publish"} /\ cpc' = [cpc EXCEPT ![c] = home]
  BY <1>5, <1>6 DEF home
<1> QED BY <1>5, <1>7, CompactAbortFiles

LEMMA CompactThrowsFiles ==
    ASSUME TypeOK, FilesInv, NEW c \in Compactors, CompactThrows(c)
    PROVE  FilesInv' /\ KeepsListed
<1> DEFINE home == IF c \in Background THEN "exited" ELSE "idle"
<1>1. home \notin {"run", "delete", "publish"} /\ cpc' = [cpc EXCEPT ![c] = home]
  BY DEF CompactThrows, CompactStep
<1>2. /\ cpc[c] = "run" /\ sstSeq' = sstSeq + 1 /\ job' = [job EXCEPT ![c] = NoJob]
      /\ UNCHANGED <<level0, level1, dropped, unremoved, file0, file1, fpc, number>>
  BY DEF CompactThrows, CompactStep, levelVars, fileVars, drainVars
<1> HIDE DEF home
<1> QED BY <1>1, <1>2, CompactAbortFiles

LEMMA CompactDeleteFiles ==
    ASSUME TypeOK, FilesInv, NEW c \in Compactors, NEW gone \in job[c].todo,
           CompactDelete(c, gone)
    PROVE  FilesInv' /\ KeepsListed
<1>1. /\ cpc[c] = "delete"
      /\ cpc' = [cpc EXCEPT ![c] = IF job[c].todo = {gone} THEN "publish" ELSE "delete"]
      /\ DOMAIN file0' = DOMAIN file0 \ {gone} /\ \A n \in DOMAIN file0' : file0'[n] = file0[n]
      /\ job' = [job EXCEPT ![c].todo = @ \ {gone}]
      /\ UNCHANGED <<level0, level1, dropped, unremoved, sstSeq, file1, fpc, number>>
  BY DEF CompactDelete, CompactStep, levelVars, drainVars
<1>2. /\ job'[c].todo = job[c].todo \ {gone}
      /\ cpc'[c] = IF job[c].todo = {gone} THEN "publish" ELSE "delete"
      /\ \A x \in Compactors : x # c => cpc'[x] = cpc[x] /\ job'[x] = job[x]
      /\ \A x \in Compactors : job'[x].inputs = job[x].inputs /\ job'[x].outs = job[x].outs
      /\ gone \in job[c].inputs
  BY <1>1 DEF TypeOK, Job, FilesInv, Numbering
<1>3. Numbering'
  BY <1>1, <1>2 DEF FilesInv, Numbering
<1>4. WrittenApart' /\ DroppedApart'
  BY <1>1, <1>2 DEF FilesInv, WrittenApart, DroppedApart
<1>5. JobProgress'
  <2> SUFFICES ASSUME NEW x \in Compactors
               PROVE  /\ cpc'[x] \notin {"run", "delete", "publish"} => job'[x] = NoJob
                      /\ cpc'[x] = "run" => job'[x].todo = job'[x].inputs /\ job'[x].outs = {}
                      /\ cpc'[x] = "publish" => job'[x].todo = {}
                      /\ (job'[x].inputs \ job'[x].todo) \cap DOMAIN file0' \subseteq unremoved
                      /\ job'[x].outs \subseteq DOMAIN file1
    BY <1>1 DEF JobProgress
  <2>1. CASE x = c
    BY <1>1, <1>2, <2>1 DEF FilesInv, JobProgress
  <2>2. CASE x # c
    BY <1>1, <1>2, <2>2 DEF FilesInv, JobProgress
  <2> QED BY <2>1, <2>2
<1>6. ListedOnDisk'
  <2>1. ASSUME NEW n \in level0 \ DOMAIN file0'
        PROVE  \E x \in Compactors : n \in job'[x].inputs \ job'[x].todo
    <3>1. CASE n = gone
      BY <1>2, <3>1
    <3>2. CASE n # gone
      <4>1. PICK x \in Compactors : n \in job[x].inputs \ job[x].todo
        BY <1>1, <2>1, <3>2 DEF FilesInv, LevelsMatchDisk, ListedOnDisk
      <4> QED BY <1>2, <4>1
    <3> QED BY <3>1, <3>2
  <2> QED BY <1>1, <2>1 DEF FilesInv, LevelsMatchDisk, ListedOnDisk
<1>7. NoOrphans'
  BY <1>1, <1>2 DEF FilesInv, LevelsMatchDisk, NoOrphans
<1>8. KeepsListed
  BY <1>1 DEF KeepsListed, FilesInv, LevelsMatchDisk, ListedOnDisk, DroppedApart
<1> QED BY <1>3, <1>4, <1>5, <1>6, <1>7, <1>8 DEF FilesInv, LevelsMatchDisk

(* A file whose removal fails stays where it was. *)
LEMMA CompactDeleteFailsFiles ==
    ASSUME TypeOK, FilesInv, NEW c \in Compactors, NEW kept \in job[c].todo,
           CompactDeleteFails(c, kept)
    PROVE  FilesInv' /\ KeepsListed
<1>1. /\ cpc[c] = "delete" /\ DiskFaults
      /\ cpc' = [cpc EXCEPT ![c] = IF job[c].todo = {kept} THEN "publish" ELSE "delete"]
      /\ job' = [job EXCEPT ![c].todo = @ \ {kept}]
      /\ unremoved' = unremoved \cup {kept}
      /\ UNCHANGED <<level0, level1, dropped, sstSeq, file0, file1, fpc, number>>
  BY DEF CompactDeleteFails, CompactStep, levelVars, fileVars, drainVars
<1>2. /\ job'[c].todo = job[c].todo \ {kept}
      /\ cpc'[c] = IF job[c].todo = {kept} THEN "publish" ELSE "delete"
      /\ \A x \in Compactors : x # c => cpc'[x] = cpc[x] /\ job'[x] = job[x]
      /\ \A x \in Compactors : job'[x].inputs = job[x].inputs /\ job'[x].outs = job[x].outs
  BY <1>1 DEF TypeOK, Job
<1>3. Numbering'
  BY <1>1, <1>2 DEF FilesInv, Numbering
<1>4. WrittenApart' /\ DroppedApart'
  BY <1>1, <1>2 DEF FilesInv, WrittenApart, DroppedApart
<1>5. JobProgress'
  <2> SUFFICES ASSUME NEW x \in Compactors
               PROVE  /\ cpc'[x] \notin {"run", "delete", "publish"} => job'[x] = NoJob
                      /\ cpc'[x] = "run" => job'[x].todo = job'[x].inputs /\ job'[x].outs = {}
                      /\ cpc'[x] = "publish" => job'[x].todo = {}
                      /\ (job'[x].inputs \ job'[x].todo) \cap DOMAIN file0 \subseteq unremoved'
                      /\ job'[x].outs \subseteq DOMAIN file1
    BY <1>1 DEF JobProgress
  <2>1. CASE x = c
    BY <1>1, <1>2, <2>1 DEF FilesInv, JobProgress
  <2>2. CASE x # c
    BY <1>1, <1>2, <2>2 DEF FilesInv, JobProgress
  <2> QED BY <2>1, <2>2
<1>6. ListedOnDisk'
  <2>1. \A x \in Compactors : job[x].inputs \ job[x].todo \subseteq job'[x].inputs \ job'[x].todo
    BY <1>2
  <2> QED BY <1>1, <2>1 DEF FilesInv, LevelsMatchDisk, ListedOnDisk
<1>7. NoOrphans'
  BY <1>1, <1>2 DEF FilesInv, LevelsMatchDisk, NoOrphans
<1>8. KeepsListed
  BY <1>1 DEF KeepsListed, FilesInv, LevelsMatchDisk, ListedOnDisk, DroppedApart
<1> QED BY <1>3, <1>4, <1>5, <1>6, <1>7, <1>8 DEF FilesInv, LevelsMatchDisk

LEMMA CompactPublishFiles ==
    ASSUME TypeOK, FilesInv, NEW c \in Compactors, CompactPublish(c)
    PROVE  FilesInv' /\ KeepsListed
<1>1. /\ cpc[c] = "publish" /\ cpc' = [cpc EXCEPT ![c] = Home(c)]
      /\ level0' = level0 \ job[c].inputs /\ level1' = level1 \cup job[c].outs
      /\ dropped' = dropped \cup (level0 \cap job[c].inputs)
      /\ job' = [job EXCEPT ![c] = NoJob]
      /\ UNCHANGED <<sstSeq, unremoved, file0, file1, fpc, number>>
  BY DEF CompactPublish, CompactStep, fileVars, drainVars
<1>2. /\ job'[c] = NoJob /\ cpc'[c] = Home(c)
      /\ Home(c) \notin {"run", "delete", "publish"}
      /\ \A x \in Compactors : x # c => cpc'[x] = cpc[x] /\ job'[x] = job[x]
      /\ job'[c].inputs = {} /\ job'[c].todo = {} /\ job'[c].outs = {}
      /\ job[c].todo = {} /\ job[c].inputs \cap DOMAIN file0 \subseteq unremoved
      /\ job[c].outs \subseteq DOMAIN file1
  BY <1>1 DEF TypeOK, Home, FilesInv, JobProgress, NoJob
<1>3. Numbering' /\ WrittenApart' /\ DroppedApart'
  <2>1. Numbering'
    BY <1>1, <1>2 DEF FilesInv, Numbering
  <2>2. WrittenApart'
    BY <1>1, <1>2 DEF FilesInv, WrittenApart
  <2>3. DroppedApart'
    BY <1>1 DEF FilesInv, Numbering, DroppedApart
  <2> QED BY <2>1, <2>2, <2>3
<1>4. JobProgress'
  BY <1>1, <1>2 DEF FilesInv, JobProgress, NoJob
<1>5. ListedOnDisk'
  BY <1>1, <1>2 DEF FilesInv, LevelsMatchDisk, ListedOnDisk
<1>6. NoOrphans'
  BY <1>1, <1>2 DEF FilesInv, LevelsMatchDisk, NoOrphans
<1>7. KeepsListed
  BY <1>1 DEF KeepsListed, FilesInv, LevelsMatchDisk, ListedOnDisk, DroppedApart
<1> QED BY <1>3, <1>4, <1>5, <1>6, <1>7 DEF FilesInv, LevelsMatchDisk

LEMMA FilesStep ==
    ASSUME MaxOutputs = 1, TypeOK, FilesInv, [Next]_vars
    PROVE  FilesInv' /\ KeepsListed
<1>1. ASSUME NEW w \in Writers, WriterStep(w) PROVE FilesInv' /\ KeepsListed
  BY <1>1, FilesQuiet DEF WriterStep, AppendBegin, RemoveBegin, Begin, Log, LogFails,
     Insert, Report, NullActive, levelVars, fileVars, drainVars, mergeVars
<1>2. ASSUME NEW d \in Drainers, Drain(d) PROVE FilesInv' /\ KeepsListed
  <2>1. CASE FlushWrite(d)
    BY <2>1, FlushWriteFiles
  <2>2. CASE FlushPublish(d)
    BY <2>2, FlushPublishFiles
  <2>3. CASE FlushFails(d)
    <3> DEFINE to == IF d = Closer THEN "aborted" ELSE IF d \in Background THEN "exited" ELSE "idle"
    <3>1. /\ fpc[d] = "write" /\ fpc' = [fpc EXCEPT ![d] = to] /\ to # "publish"
          /\ sstSeq' = sstSeq + 1
          /\ UNCHANGED <<level0, level1, dropped, unremoved, file1, number, job, cpc>>
      BY <2>3 DEF FlushFails, FlushStep, levelVars, mergeVars
    <3> HIDE DEF to
    <3>2. 1 .. sstSeq - 1 \subseteq 1 .. sstSeq' - 1
      BY <3>1 DEF TypeOK
    <3>3. \A e \in Drainers : fpc[e] = "publish" <=> fpc'[e] = "publish"
      BY <3>1 DEF TypeOK
    <3>4. Numbering' /\ DroppedApart'
      BY <3>1, <3>2 DEF FilesInv, Numbering, DroppedApart
    <3>5. file0' = file0
      <4>1. sstSeq \notin DOMAIN file0
        BY DEF TypeOK
      <4> QED BY <2>3, <4>1 DEF FlushFails, TypeOK
    <3> QED BY <3>1, <3>3, <3>4, <3>5 DEF FilesInv, WrittenApart, DroppedApart, JobProgress,
               LevelsMatchDisk, ListedOnDisk, NoOrphans, KeepsListed
  <2>4. CASE FlushPop(d)
    BY <2>4, FilesQuiet DEF FlushPop, FlushStep, mergeVars, TypeOK
  <2>5. CASE FlushDone(d)
    <3> DEFINE to == IF d = Closer THEN "closed" ELSE IF d \in Background THEN "check" ELSE "idle"
    <3>1. fpc[d] = "drain" /\ fpc' = [fpc EXCEPT ![d] = to] /\ to # "publish"
      BY <2>5 DEF FlushDone, FlushStep
    <3> HIDE DEF to
    <3> QED BY <2>5, <3>1, FilesQuiet DEF FlushDone, mergeVars, TypeOK
  <2> QED BY <1>2, <2>1, <2>2, <2>3, <2>4, <2>5 DEF Drain
<1>3. ASSUME NEW f \in Flushers, FlushLoop(f) \/ FlushNow(f) PROVE FilesInv' /\ KeepsListed
  BY <1>3, FilesQuiet DEF FlushLoop, FlushCheck, FlushWake, FlushNow, FlushStep, mergeVars, TypeOK
<1>4. ASSUME NEW c \in Compactors, Merge(c) PROVE FilesInv' /\ KeepsListed
  BY <1>4, CompactSnapshotFiles, CompactRunFiles, CompactThrowsFiles, CompactFailsFiles,
     CompactDeleteFiles, CompactDeleteFailsFiles, CompactPublishFiles DEF Merge
<1>5. ASSUME NEW c \in Compactors, CompactLoop(c) \/ CompactNow(c)
      PROVE  FilesInv' /\ KeepsListed
  BY <1>5, FilesQuiet DEF CompactLoop, CompactCheck, CompactWake, CompactNow, CompactStep,
     drainVars, TypeOK
<1>6. CASE CloseBegin \/ CloseStep
  BY <1>6, FilesQuiet DEF CloseBegin, CloseStep, CloseJoinFlusher, CloseJoinCompactor,
     CloseRotate, FlushStep, mergeVars, TypeOK
<1>7. CASE UNCHANGED vars
  BY <1>7, FilesQuiet DEF vars, drainVars, mergeVars
<1> QED BY <1>1, <1>2, <1>3, <1>4, <1>5, <1>6, <1>7 DEF Next

LEMMA FilesCorrect == ASSUME MaxOutputs = 1 PROVE Spec => []FilesInv
<1>1. Init => FilesInv
  <2> SUFFICES ASSUME Init PROVE FilesInv
    OBVIOUS
  <2>1. /\ level0 = {} /\ level1 = {} /\ dropped = {} /\ unremoved = {}
        /\ DOMAIN file0 = {} /\ DOMAIN file1 = {}
        /\ \A c \in Compactors : job[c] = NoJob /\ cpc[c] \in {"check", "idle"}
        /\ \A d \in Drainers : fpc[d] \in {"open", "check", "idle"}
    BY DEF Init
  <2> QED BY <2>1 DEF FilesInv, Numbering, WrittenApart, DroppedApart, JobProgress,
             LevelsMatchDisk, ListedOnDisk, NoOrphans, NoJob
<1>2. TypeOK /\ FilesInv /\ [Next]_vars => FilesInv'
  BY FilesStep
<1> QED BY <1>1, <1>2, TypeCorrect, PTL DEF Spec

(* Whatever fails, and with any number of flushing and compacting callers,  *)
(* a listed file is on disk unless a compaction is about to unlist it, and *)
(* a file on disk is listed or is about to be, unless its removal failed,  *)
(* as long as a compaction writes one file (db.cpp:405-425, 468-490).      *)
THEOREM LevelsAgree == ASSUME MaxOutputs = 1 PROVE Spec => []LevelsMatchDisk
<1>1. FilesInv => LevelsMatchDisk
  BY DEF FilesInv
<1> QED BY <1>1, FilesCorrect, PTL

(* And no step rewrites a file that a level lists or has listed, puts one  *)
(* back under its number, or lists that number again (db.cpp:283-311).     *)
THEOREM ListedFilesKept == ASSUME MaxOutputs = 1 PROVE Spec => ListedNeverRewritten
<1>1. TypeOK /\ FilesInv /\ [Next]_vars =>
        [ /\ \A n \in (level0 \cup dropped) \cap DOMAIN file0' :
                n \in DOMAIN file0 /\ file0'[n] = file0[n]
          /\ level0' \cap dropped = {}
          /\ \A n \in level1 : n \in DOMAIN file1' /\ file1'[n] = file1[n] ]_vars
  BY FilesStep DEF KeepsListed
<1> QED BY <1>1, FilesCorrect, TypeCorrect, PTL DEF Spec, ListedNeverRewritten

-----------------------------------------------------------------------------
(* The log.                                                                *)

LEMMA LogGrows ==
    ASSUME TypeOK, NEW e \in Event, WriteRecord(e)
    PROVE  InLog \subseteq InLog' /\ e \in InLog'
<1>1. Len(wal) \in Nat /\ wal \in Seq(Event)
  BY DEF TypeOK
<1>2. CASE torn
  BY <1>2 DEF WriteRecord, InLog
<1>3. CASE ~torn
  <2>1. wal' = Append(wal, e) /\ hidden' = hidden
    BY <1>3 DEF WriteRecord
  <2>2. /\ Len(wal') = Len(wal) + 1 /\ wal'[Len(wal) + 1] = e
        /\ \A i \in 1 .. Len(wal) : wal'[i] = wal[i] /\ i \in 1 .. Len(wal) + 1
        /\ Len(wal) + 1 \in 1 .. Len(wal) + 1
    BY <1>1, <2>1
  <2> QED BY <2>1, <2>2 DEF InLog
<1> QED BY <1>2, <1>3

LEMMA RecoverableStep ==
    ASSUME TypeOK, RecoverableInv, [Next]_vars
    PROVE  RecoverableInv'
<1> SUFFICES ASSUME WalEnabled
             PROVE  /\ \A w \in Writers : wpc'[w] = "insert" => op'[w] \in InLog'
                    /\ \A v \in Versions' : history'[v] \in InLog'
  BY DEF RecoverableInv
<1>0. UNCHANGED <<wal, hidden>> => InLog' = InLog
  BY DEF InLog
<1>1. CASE UNCHANGED <<wal, hidden, wpc, op, history>>
  BY <1>0, <1>1 DEF RecoverableInv, Versions
<1>2. ASSUME NEW w \in Writers, WriterStep(w), ~UNCHANGED <<wal, hidden, wpc, op, history>>
      PROVE  /\ \A x \in Writers : wpc'[x] = "insert" => op'[x] \in InLog'
             /\ \A v \in Versions' : history'[v] \in InLog'
  <2>1. ASSUME InLog \subseteq InLog', UNCHANGED history, wpc'[w] # "insert",
               \A x \in Writers : x # w => wpc'[x] = wpc[x] /\ op'[x] = op[x]
        PROVE  /\ \A x \in Writers : wpc'[x] = "insert" => op'[x] \in InLog'
               /\ \A v \in Versions' : history'[v] \in InLog'
    BY <2>1 DEF RecoverableInv, Versions
  <2>2. CASE (\E s \in Symbols : AppendBegin(w, s)) \/ (\E k \in Keys : RemoveBegin(w, k))
    BY <1>0, <2>1, <2>2 DEF AppendBegin, RemoveBegin, Begin, TypeOK
  <2>3. CASE Log(w)
    <3>1. /\ WriteRecord(op[w]) /\ op[w] \in Event /\ UNCHANGED <<op, history>>
          /\ \A x \in Writers : x # w => wpc'[x] = wpc[x]
      BY <2>3 DEF Log, TypeOK
    <3>2. InLog \subseteq InLog' /\ op[w] \in InLog'
      BY <3>1, LogGrows
    <3> QED BY <3>1, <3>2 DEF RecoverableInv, Versions
  <2>4. CASE LogFails(w)
    <3>1. /\ UNCHANGED <<wal, hidden>> \/ WriteRecord(op[w])
          /\ op[w] \in Event /\ UNCHANGED history /\ wpc'[w] = "idle"
          /\ \A x \in Writers : x # w => wpc'[x] = wpc[x] /\ op'[x] = op[x]
      BY <2>4 DEF LogFails, Leave, TypeOK
    <3>2. InLog \subseteq InLog'
      BY <1>0, <3>1, LogGrows
    <3> QED BY <2>1, <3>1, <3>2
  <2>5. CASE Insert(w)
    <3>1. /\ UNCHANGED <<wal, hidden>> /\ history' = Append(history, op[w]) /\ op[w] \in Event
          /\ wpc[w] = "insert" /\ wpc'[w] # "insert"
          /\ \A x \in Writers : x # w => wpc'[x] = wpc[x] /\ op'[x] = op[x]
      BY <2>5 DEF Insert, Leave, TypeOK
    <3>2. /\ Len(history) \in Nat /\ Len(history') = Len(history) + 1
          /\ history'[Len(history) + 1] = op[w]
          /\ \A v \in Versions : history'[v] = history[v]
      BY <3>1 DEF TypeOK, Versions
    <3>3. ASSUME NEW v \in Versions' PROVE history'[v] \in InLog'
      <4>1. v \in Versions \/ v = Len(history) + 1
        BY <3>2 DEF Versions
      <4> QED BY <1>0, <3>1, <3>2, <4>1 DEF RecoverableInv
    <3> QED BY <1>0, <3>1, <3>3 DEF RecoverableInv
  <2>6. CASE Report(w) \/ NullActive(w)
    BY <1>0, <1>2, <2>1, <2>6 DEF Report, NullActive, Leave, writerVars, TypeOK
  <2> QED BY <1>2, <2>2, <2>3, <2>4, <2>5, <2>6 DEF WriterStep
<1>3. CASE \/ \E d \in Drainers : Drain(d)
           \/ \E f \in Flushers : FlushLoop(f) \/ FlushNow(f)
  BY <1>1, <1>3 DEF Drain, FlushLoop, FlushPop, FlushWrite, FlushFails, FlushPublish,
     FlushDone, FlushCheck, FlushWake, FlushNow, writerVars
<1>4. CASE \E c \in Compactors : Merge(c) \/ CompactLoop(c) \/ CompactNow(c)
  BY <1>1, <1>4 DEF Merge, CompactLoop, CompactSnapshot, CompactRun, CompactThrows,
     CompactFails, CompactDelete, CompactDeleteFails, CompactPublish, CompactCheck, CompactWake,
     CompactNow, writerVars
<1>5. CASE CloseBegin \/ CloseStep
  BY <1>1, <1>5 DEF CloseBegin, CloseStep, CloseJoinFlusher, CloseJoinCompactor,
     CloseRotate, writerVars
<1>6. CASE UNCHANGED vars
  BY <1>1, <1>6 DEF vars, writerVars
<1> QED BY <1>1, <1>2, <1>3, <1>4, <1>5, <1>6 DEF Next

(* Whatever fails, and whatever other threads do: what memory and files no  *)
(* longer hold was written to the log, in front of or behind the bytes of  *)
(* a short write (db.cpp:159-170, 215-223).                                *)
THEOREM LogRecovers == Spec => []Recoverable
<1>1. Init => RecoverableInv
  BY DEF Init, RecoverableInv, Versions
<1>2. TypeOK /\ RecoverableInv /\ [Next]_vars => RecoverableInv'
  BY RecoverableStep
<1>3. RecoverableInv => Recoverable
  BY DEF RecoverableInv, Recoverable, InLog, Logged
<1> QED BY <1>1, <1>2, <1>3, TypeCorrect, PTL DEF Spec

(* The last version of a set of versions. *)
LEMMA ChooseLast ==
    ASSUME NEW S \in SUBSET Nat, NEW m \in S, \A u \in S : u <= m
    PROVE  (CHOOSE v \in S : \A u \in S : u <= v) = m
<1>1. \E v \in S : \A u \in S : u <= v
  OBVIOUS
<1> DEFINE n == CHOOSE v \in S : \A u \in S : u <= v
<1>2. n \in S /\ \A u \in S : u <= n
  BY <1>1
<1> HIDE DEF n
<1>3. n <= m /\ m <= n /\ m \in Nat /\ n \in Nat
  BY <1>2
<1> QED BY <1>3 DEF n

LEMMA LastOf ==
    ASSUME NEW records \in Seq(Event), NEW k,
           NEW i \in 1 .. Len(records), records[i].key = k
    PROVE  \E m \in 1 .. Len(records) :
              /\ records[m].key = k
              /\ \A j \in 1 .. Len(records) : records[j].key = k => j <= m
              /\ LastKind(records, k) = records[m].kind
<1> DEFINE at == {j \in 1 .. Len(records) : records[j].key = k}
<1>1. Len(records) \in Nat /\ at \subseteq 0 .. Len(records) /\ at # {}
  OBVIOUS
<1> HIDE DEF at
<1>2. Newest(at) \in at /\ \A j \in at : j <= Newest(at)
  BY <1>1, NewestIsMaximum
<1> DEFINE m == Newest(at)
<1>3. at \in SUBSET Nat
  BY <1>1
<1> HIDE DEF m
<1>4. m \in at /\ \A j \in at : j <= m
  BY <1>2 DEF m
<1>5. (CHOOSE v \in at : \A u \in at : u <= v) = m
  BY <1>3, <1>4, ChooseLast
<1>6. LastKind(records, k) = records[m].kind
  BY <1>1, <1>5 DEF LastKind, at
<1> QED BY <1>4, <1>6 DEF at

LEMMA LastOfLonger ==
    ASSUME NEW records \in Seq(Event), NEW e \in Event, NEW k
    PROVE  LastKind(Append(records, e), k) = IF k = e.key THEN e.kind ELSE LastKind(records, k)
<1> DEFINE longer == Append(records, e)
           n == Len(records)
<1>1. /\ longer \in Seq(Event) /\ n \in Nat /\ Len(longer) = n + 1 /\ longer[n + 1] = e
      /\ \A i \in 1 .. n : longer[i] = records[i]
  OBVIOUS
<1> HIDE DEF longer, n
<1>2. CASE k = e.key
  <2>1. PICK m \in 1 .. Len(longer) :
              /\ longer[m].key = k
              /\ \A j \in 1 .. Len(longer) : longer[j].key = k => j <= m
              /\ LastKind(longer, k) = longer[m].kind
    <3>1. n + 1 \in 1 .. Len(longer) /\ longer[n + 1].key = k
      BY <1>1, <1>2
    <3> QED BY <1>1, <3>1, LastOf
  <2>2. m = n + 1
    BY <1>1, <1>2, <2>1
  <2> QED BY <1>1, <1>2, <2>1, <2>2 DEF longer
<1>3. CASE k # e.key
  <2>1. {i \in 1 .. Len(longer) : longer[i].key = k} = {i \in 1 .. n : records[i].key = k}
    BY <1>1, <1>3
  <2> DEFINE at == {i \in 1 .. n : records[i].key = k}
  <2>2. CASE at = {}
    BY <1>3, <2>1, <2>2 DEF LastKind, longer, n
  <2>3. CASE at # {}
    <3>1. PICK i \in 1 .. n : records[i].key = k
      BY <2>3
    <3>2. PICK m \in 1 .. Len(records) :
              /\ records[m].key = k
              /\ \A j \in 1 .. Len(records) : records[j].key = k => j <= m
              /\ LastKind(records, k) = records[m].kind
      BY <3>1, LastOf DEF n
    <3>3. PICK p \in 1 .. Len(longer) :
              /\ longer[p].key = k
              /\ \A j \in 1 .. Len(longer) : longer[j].key = k => j <= p
              /\ LastKind(longer, k) = longer[p].kind
      <4>1. i \in 1 .. Len(longer) /\ longer[i].key = k
        BY <1>1, <3>1
      <4>2. longer \in Seq(Event)
        BY <1>1
      <4> QED BY ONLY <4>1, <4>2, LastOf
    <3>4. p \in 1 .. n /\ m \in 1 .. Len(longer)
      BY <1>1, <1>3, <3>2, <3>3 DEF n
    <3>5. records[p].key = k /\ longer[m].key = k
      BY <1>1, <3>2, <3>3, <3>4 DEF n
    <3>6. p = m
      BY <1>1, <3>2, <3>3, <3>4, <3>5 DEF n
    <3> QED BY <1>1, <1>3, <3>2, <3>3, <3>4, <3>6 DEF longer
  <2> QED BY <2>2, <2>3
<1> QED BY <1>2, <1>3

-----------------------------------------------------------------------------
(* The log agrees with what was inserted, whatever the order in which      *)
(* calls are logged and inserted.  Records for one key are an event and    *)
(* tombstones behind it; ...                                               *)
Recs(records) == {records[i] : i \in 1 .. Len(records)}

EventFirst(records) ==
    \A i, j \in 1 .. Len(records) :
        i < j /\ records[i].key = records[j].key => records[j].kind = "tombstone"

(* ... the key of an event that is being written is nobody else's, and was *)
(* issued to no record before; ...                                         *)
KeyIsNew(w) ==
    /\ \A e \in Recs(history) : e.key # op[w].key
    /\ wpc[w] = "log" => \A e \in Recs(wal) : e.key # op[w].key
    /\ \A u \in InFlight : u # w => op[u].key # op[w].key

(* ... a reader gets all that was written; and what is in the log and not  *)
(* yet inserted is about to be.                                            *)
LogInv ==
    /\ ~torn /\ hidden = {}
    /\ \A e \in Recs(history) \cup Recs(wal) : e.key[2] < nextSeq
    /\ \A w \in InFlight : op[w].key[2] < nextSeq
    /\ EventFirst(history) /\ EventFirst(wal)
    /\ \A w \in InFlight : op[w].kind = "event" => KeyIsNew(w)
    /\ Recs(history) \subseteq Recs(wal)
    /\ \A w \in Writers : wpc[w] = "insert" => op[w] \in Recs(wal)
    /\ \A e \in Recs(wal) \ Recs(history) : \E w \in InFlight : wpc[w] = "insert" /\ op[w] = e

LEMMA RecsAppend ==
    ASSUME NEW records \in Seq(Event), NEW e \in Event
    PROVE  /\ Recs(Append(records, e)) = Recs(records) \cup {e}
           /\ EventFirst(records) /\ (e.kind = "tombstone" \/ \A d \in Recs(records) : d.key # e.key)
                => EventFirst(Append(records, e))
<1> DEFINE longer == Append(records, e)
           n == Len(records)
<1>1. /\ n \in Nat /\ Len(longer) = n + 1 /\ longer[n + 1] = e
      /\ \A i \in 1 .. n : longer[i] = records[i]
  OBVIOUS
<1> HIDE DEF longer, n
<1>2. 1 .. n + 1 = 1 .. n \cup {n + 1}
  BY <1>1
<1>3. Recs(longer) = Recs(records) \cup {e}
  <2>1. Recs(records) = {records[i] : i \in 1 .. n}
    BY DEF Recs, n
  <2>2. Recs(longer) = {longer[i] : i \in 1 .. n + 1}
    BY <1>1 DEF Recs
  <2> QED BY <1>1, <1>2, <2>1, <2>2
<1>4. ASSUME EventFirst(records), e.kind = "tombstone" \/ \A d \in Recs(records) : d.key # e.key,
             NEW i \in 1 .. n + 1, NEW j \in 1 .. n + 1, i < j, longer[i].key = longer[j].key
      PROVE  longer[j].kind = "tombstone"
  <2>1. i \in 1 .. n
    BY <1>1, <1>4
  <2>2. CASE j = n + 1
    BY <1>1, <1>4, <2>1, <2>2 DEF Recs, n
  <2>3. CASE j \in 1 .. n
    BY <1>1, <1>4, <2>1, <2>3 DEF EventFirst, n
  <2> QED BY <1>2, <2>2, <2>3
<1>5. EventFirst(records) /\ (e.kind = "tombstone" \/ \A d \in Recs(records) : d.key # e.key)
         => EventFirst(longer)
  BY <1>1, <1>4 DEF EventFirst
<1> QED BY <1>3, <1>5 DEF longer

(* The last record of a key is a tombstone when there is one. *)
LEMMA LastKindOfRecs ==
    ASSUME NEW records \in Seq(Event), EventFirst(records), NEW k \in Keys
    PROVE  LastKind(records, k) =
              IF [key |-> k, kind |-> "tombstone"] \in Recs(records) THEN "tombstone"
              ELSE IF [key |-> k, kind |-> "event"] \in Recs(records) THEN "event"
              ELSE "none"
<1> DEFINE n == Len(records)
<1>1. n \in Nat /\ \A i \in 1 .. n : records[i] \in Event
  OBVIOUS
<1>2. \A i \in 1 .. n : /\ records[i] = [key |-> records[i].key, kind |-> records[i].kind]
                        /\ records[i].kind \in {"event", "tombstone"}
  BY <1>1 DEF Event, Kinds
<1> HIDE DEF n
<1>3. CASE \E i \in 1 .. n : records[i].key = k
  <2>1. PICK m \in 1 .. n :
              /\ records[m].key = k
              /\ \A j \in 1 .. n : records[j].key = k => j <= m
              /\ LastKind(records, k) = records[m].kind
    BY <1>3, LastOf DEF n
  <2>2. records[m] = [key |-> k, kind |-> records[m].kind] /\ records[m] \in Recs(records)
    BY <1>2, <2>1 DEF Recs, n
  <2>3. CASE records[m].kind = "tombstone"
    BY <2>1, <2>2, <2>3
  <2>4. CASE records[m].kind = "event"
    <3>1. ASSUME [key |-> k, kind |-> "tombstone"] \in Recs(records) PROVE FALSE
      <4>1. PICK i \in 1 .. n : records[i] = [key |-> k, kind |-> "tombstone"]
        BY <3>1 DEF Recs, n
      <4>2. records[i].key = k /\ records[i].kind = "tombstone"
        BY <4>1
      <4>3. i < m
        BY <1>1, <2>1, <2>4, <4>2
      <4> QED BY <2>1, <2>4, <4>2, <4>3 DEF EventFirst, n
    <3> QED BY <2>1, <2>2, <2>4, <3>1
  <2> QED BY <1>2, <2>3, <2>4
<1>4. CASE ~\E i \in 1 .. n : records[i].key = k
  <2>1. {i \in 1 .. Len(records) : records[i].key = k} = {}
    BY <1>4 DEF n
  <2>2. \A d \in Recs(records) : d.key # k
    BY <1>4 DEF Recs, n
  <2> QED BY <2>1, <2>2 DEF LastKind
<1> QED BY <1>3, <1>4

LEMMA LogInvAgrees == ASSUME TypeOK, LogInv PROVE LogAgrees
<1> SUFFICES ASSUME NEW k \in Keys, \A w \in InFlight : op[w].key # k
             PROVE  LastKind(wal, k) = LastKind(history, k)
  BY DEF LogAgrees
<1>1. wal \in Seq(Event) /\ history \in Seq(Event)
  BY DEF TypeOK
<1>2. ASSUME NEW kind
      PROVE  [key |-> k, kind |-> kind] \in Recs(wal) <=> [key |-> k, kind |-> kind] \in Recs(history)
  BY DEF LogInv
<1> QED BY <1>1, <1>2, LastKindOfRecs DEF LogInv

-----------------------------------------------------------------------------
LEMMA LogStep ==
    ASSUME WalEnabled, TypeOK, LogInv, NEW w \in Writers, Log(w)
    PROVE  LogInv'
<1>0. ~torn' /\ hidden' = {}
  BY DEF Log, WriteRecord, LogInv
<1>1. /\ wal' = Append(wal, op[w]) /\ UNCHANGED <<op, history, nextSeq>>
      /\ wpc[w] = "log" /\ wpc' = [wpc EXCEPT ![w] = "insert"]
  BY DEF Log, WriteRecord, LogInv
<1>2. wpc \in [Writers -> WriterStates] /\ op[w] \in Event /\ wal \in Seq(Event)
  BY <1>1 DEF TypeOK
<1>3. op[w].kind \in {"event", "tombstone"}
  BY <1>2 DEF Event, Kinds
<1>4. w \in InFlight /\ InFlight' = InFlight
  BY <1>1, <1>2 DEF InFlight
<1>5. op[w].kind = "event" => \A e \in Recs(wal) : e.key # op[w].key
  BY <1>1, <1>4 DEF LogInv, KeyIsNew
<1>6. Recs(wal') = Recs(wal) \cup {op[w]} /\ EventFirst(wal')
  BY <1>1, <1>2, <1>3, <1>5, RecsAppend DEF LogInv
<1>7. ASSUME NEW u \in InFlight, op[u].kind = "event" PROVE KeyIsNew(u)'
  <2>1. KeyIsNew(u)
    BY <1>7 DEF LogInv
  <2>2. CASE u = w
    BY <1>1, <1>2, <1>4, <2>1, <2>2 DEF KeyIsNew
  <2>3. CASE u # w
    <3>1. wpc'[u] = wpc[u] /\ op[w].key # op[u].key
      BY <1>1, <1>2, <1>4, <2>1, <2>3 DEF KeyIsNew, InFlight
    <3> QED BY <1>1, <1>4, <1>6, <2>1, <3>1 DEF KeyIsNew
  <2> QED BY <2>2, <2>3
<1>8. \A u \in Writers : wpc'[u] = "insert" => op'[u] \in Recs(wal')
  BY <1>1, <1>2, <1>6 DEF LogInv
<1>9. \A e \in Recs(wal') \ Recs(history') :
         \E u \in InFlight' : wpc'[u] = "insert" /\ op'[u] = e
  <2>1. wpc'[w] = "insert" /\ \A u \in InFlight : wpc[u] = "insert" => wpc'[u] = "insert"
    BY <1>1, <1>2 DEF InFlight
  <2> QED BY <1>1, <1>4, <1>6, <2>1 DEF LogInv
<1>10. /\ \A e \in Recs(history') \cup Recs(wal') : e.key[2] < nextSeq'
       /\ \A u \in InFlight' : op'[u].key[2] < nextSeq'
       /\ Recs(history') \subseteq Recs(wal') /\ EventFirst(history')
  BY <1>1, <1>4, <1>6 DEF LogInv
<1> QED BY <1>0, <1>1, <1>4, <1>6, <1>7, <1>8, <1>9, <1>10 DEF LogInv

LEMMA InsertKeepsLog ==
    ASSUME TypeOK, LogInv, NEW w \in Writers, Insert(w)
    PROVE  LogInv'
<1>0. UNCHANGED <<torn, hidden>>
  BY DEF Insert
<1>1. /\ history' = Append(history, op[w]) /\ UNCHANGED <<wal, nextSeq>>
      /\ wpc[w] = "insert" /\ w \in InFlight
      /\ wpc'[w] \notin {"log", "insert"}
      /\ \A u \in Writers : u # w => wpc'[u] = wpc[u] /\ op'[u] = op[u]
  <2>1. /\ history' = Append(history, op[w]) /\ UNCHANGED <<wal, nextSeq>>
        /\ wpc[w] = "insert"
        /\ \/ wpc' = [wpc EXCEPT ![w] = "report"] /\ op' = op
           \/ wpc' = [wpc EXCEPT ![w] = "idle"] /\ op' = [op EXCEPT ![w] = NoEvent]
    BY DEF Insert, Leave
  <2>2. wpc \in [Writers -> WriterStates] /\ op \in [Writers -> Event \cup {NoEvent}]
    BY DEF TypeOK
  <2> QED BY <2>1, <2>2 DEF InFlight
<1>2. op[w] \in Event /\ history \in Seq(Event)
  BY <1>1 DEF TypeOK
<1>3. op[w].kind \in {"event", "tombstone"}
  BY <1>2 DEF Event, Kinds
<1>4. InFlight' = InFlight \ {w}
  BY <1>1 DEF InFlight
<1>5. op[w].kind = "event" => \A e \in Recs(history) : e.key # op[w].key
  BY <1>1 DEF LogInv, KeyIsNew
<1>6. Recs(history') = Recs(history) \cup {op[w]} /\ EventFirst(history')
  BY <1>1, <1>2, <1>3, <1>5, RecsAppend DEF LogInv
<1>7. op[w] \in Recs(wal)
  BY <1>1 DEF LogInv
<1>8. \A u \in InFlight' : u \in InFlight /\ u \in Writers /\ u # w /\ wpc'[u] = wpc[u] /\ op'[u] = op[u]
  BY <1>1, <1>4 DEF InFlight
<1>9. ASSUME NEW u \in InFlight', op'[u].kind = "event" PROVE KeyIsNew(u)'
  <2>1. KeyIsNew(u) /\ op[w].key # op[u].key
    BY <1>1, <1>8, <1>9 DEF LogInv, KeyIsNew
  <2> QED BY <1>1, <1>6, <1>8, <2>1 DEF KeyIsNew
<1>10. \A e \in Recs(wal') \ Recs(history') :
         \E u \in InFlight' : wpc'[u] = "insert" /\ op'[u] = e
  <2> SUFFICES ASSUME NEW e \in Recs(wal), e \notin Recs(history), e # op[w]
               PROVE  \E u \in InFlight' : wpc'[u] = "insert" /\ op'[u] = e
    BY <1>1, <1>6
  <2>1. PICK u \in InFlight : wpc[u] = "insert" /\ op[u] = e
    BY DEF LogInv
  <2>2. u \in InFlight'
    BY <1>4, <2>1
  <2> QED BY <1>8, <2>1, <2>2
<1>11. /\ \A e \in Recs(history') \cup Recs(wal') : e.key[2] < nextSeq'
       /\ \A u \in InFlight' : op'[u].key[2] < nextSeq'
       /\ Recs(history') \subseteq Recs(wal') /\ EventFirst(wal')
       /\ \A u \in Writers : wpc'[u] = "insert" => op'[u] \in Recs(wal')
  BY <1>1, <1>6, <1>7, <1>8 DEF LogInv
<1> QED BY <1>0, <1>6, <1>9, <1>10, <1>11 DEF LogInv

(* A call begins, with a new key or one whose event is inserted. *)
LEMMA BeginStep ==
    ASSUME ~BlindRemove, TypeOK, LogInv, NEW w \in Writers,
           (\E s \in Symbols : AppendBegin(w, s)) \/ (\E k \in Keys : RemoveBegin(w, k))
    PROVE  LogInv'
<1>1. /\ UNCHANGED <<wal, torn, hidden, history>> /\ wpc[w] = "idle" /\ wpc'[w] = "log"
      /\ \A u \in Writers : u # w => wpc'[u] = wpc[u] /\ op'[u] = op[u]
      /\ nextSeq \in Nat /\ nextSeq' \in Nat /\ nextSeq <= nextSeq'
  BY NumbersAssumption DEF AppendBegin, RemoveBegin, Begin, TypeOK
<1>2. InFlight' = InFlight \cup {w} /\ w \notin InFlight
  BY <1>1 DEF InFlight
<1>3. \A u \in InFlight : u # w /\ wpc'[u] = wpc[u] /\ op'[u] = op[u]
  BY <1>1, <1>2 DEF InFlight
<1>4. /\ \A e \in Recs(history) \cup Recs(wal) : e.key[2] \in Nat
      /\ \A u \in InFlight : op[u].key[2] \in Nat
  <2>1. \A e \in Event : e.key[2] \in Nat
    BY NumbersAssumption DEF Event, Keys
  <2>2. Recs(history) \cup Recs(wal) \subseteq Event
    BY DEF Recs, TypeOK
  <2>3. \A u \in InFlight : op[u] \in Event
    BY DEF InFlight, TypeOK
  <2> QED BY <2>1, <2>2, <2>3
<1>5. /\ op'[w].key[2] < nextSeq'
      /\ op'[w].kind = "event" =>
            \A e \in Recs(history) \cup Recs(wal) : e.key # op'[w].key
      /\ \A u \in InFlight : op[u].kind = "event" \/ op'[w].kind = "event" => op[u].key # op'[w].key
  <2>1. CASE \E s \in Symbols : AppendBegin(w, s)
    <3>1. PICK s \in Symbols : AppendBegin(w, s)
      BY <2>1
    <3>2. op'[w] = [key |-> <<s, nextSeq>>, kind |-> "event"] /\ nextSeq' = nextSeq + 1
      BY <3>1 DEF AppendBegin, Begin, TypeOK
    <3>3. op'[w].key[2] = nextSeq
      BY <3>2
    <3> QED BY <1>1, <1>4, <3>2, <3>3 DEF LogInv
  <2>2. CASE \E k \in Keys : RemoveBegin(w, k)
    <3>1. PICK k \in Keys : RemoveBegin(w, k)
      BY <2>2
    <3>2. op'[w] = [key |-> k, kind |-> "tombstone"] /\ nextSeq' = nextSeq /\ Inserted(k)
      BY <3>1 DEF RemoveBegin, Begin, TypeOK
    <3>3. [key |-> k, kind |-> "event"] \in Recs(history)
      BY <3>2 DEF Inserted, Recs
    <3>4. op'[w].key = k /\ op'[w].kind # "event" /\ k[2] < nextSeq
      BY <3>2, <3>3 DEF LogInv
    <3>5. \A u \in InFlight : op[u].kind = "event" => op[u].key # k
      BY <3>3 DEF LogInv, KeyIsNew
    <3> QED BY <3>2, <3>4, <3>5
  <2> QED BY <2>1, <2>2
<1>6. ASSUME NEW u \in InFlight', op'[u].kind = "event" PROVE KeyIsNew(u)'
  <2>1. CASE u = w
    BY <1>1, <1>2, <1>3, <1>5, <1>6, <2>1 DEF KeyIsNew
  <2>2. CASE u \in InFlight
    <3>1. KeyIsNew(u) /\ op[u].key # op'[w].key
      BY <1>3, <1>5, <1>6, <2>2 DEF LogInv
    <3> QED BY <1>1, <1>2, <1>3, <2>2, <3>1 DEF KeyIsNew
  <2> QED BY <1>2, <2>1, <2>2
<1>7. /\ \A e \in Recs(history') \cup Recs(wal') : e.key[2] < nextSeq'
      /\ \A u \in InFlight' : op'[u].key[2] < nextSeq'
  BY <1>1, <1>2, <1>3, <1>4, <1>5 DEF LogInv
<1>8. /\ Recs(history') \subseteq Recs(wal') /\ EventFirst(history') /\ EventFirst(wal')
      /\ \A u \in Writers : wpc'[u] = "insert" => op'[u] \in Recs(wal')
      /\ \A e \in Recs(wal') \ Recs(history') :
            \E u \in InFlight' : wpc'[u] = "insert" /\ op'[u] = e
  BY <1>1, <1>2, <1>3 DEF LogInv
<1> QED BY <1>1, <1>6, <1>7, <1>8 DEF LogInv

(* A call ends. *)
LEMMA EndStep ==
    ASSUME TypeOK, LogInv, NEW w \in Writers, wpc[w] # "insert",
           Leave(w), UNCHANGED <<wal, torn, hidden, history, nextSeq>>
    PROVE  LogInv'
<1>1. /\ wpc'[w] = "idle" /\ \A u \in Writers : u # w => wpc'[u] = wpc[u] /\ op'[u] = op[u]
      /\ UNCHANGED <<wal, torn, hidden, history, nextSeq>>
  BY DEF Leave, TypeOK
<1>2. /\ InFlight' = InFlight \ {w}
      /\ \A u \in InFlight' : u # w /\ wpc'[u] = wpc[u] /\ op'[u] = op[u]
  BY <1>1 DEF InFlight
<1>3. ASSUME NEW u \in InFlight', op'[u].kind = "event" PROVE KeyIsNew(u)'
  <2>1. KeyIsNew(u)
    BY <1>2, <1>3 DEF LogInv
  <2> QED BY <1>1, <1>2, <2>1 DEF KeyIsNew
<1>4. \A e \in Recs(wal') \ Recs(history') :
         \E u \in InFlight' : wpc'[u] = "insert" /\ op'[u] = e
  BY <1>1, <1>2 DEF LogInv
<1> QED BY <1>1, <1>2, <1>3, <1>4 DEF LogInv

LEMMA LogInvStep ==
    ASSUME WalEnabled, ~BlindRemove, ~DiskFaults, TypeOK, LogInv, [Next]_vars
    PROVE  LogInv'
<1>1. CASE UNCHANGED <<wal, torn, hidden, wpc, op, history, nextSeq>>
  BY <1>1 DEF LogInv, KeyIsNew, InFlight
<1>2. ASSUME NEW w \in Writers, WriterStep(w) PROVE LogInv'
  <2>1. CASE (\E s \in Symbols : AppendBegin(w, s)) \/ (\E k \in Keys : RemoveBegin(w, k))
    BY <2>1, BeginStep
  <2>2. CASE Log(w)
    BY <2>2, LogStep
  <2>3. CASE LogFails(w) \/ Report(w)
    BY <2>3, EndStep DEF LogFails, Report
  <2>4. CASE Insert(w)
    BY <2>4, InsertKeepsLog
  <2>5. CASE NullActive(w)
    BY <1>1, <2>5 DEF NullActive, writerVars
  <2> QED BY <1>2, <2>1, <2>2, <2>3, <2>4, <2>5 DEF WriterStep
<1>3. CASE \/ \E d \in Drainers : Drain(d)
           \/ \E f \in Flushers : FlushLoop(f) \/ FlushNow(f)
  BY <1>1, <1>3 DEF Drain, FlushLoop, FlushPop, FlushWrite, FlushFails, FlushPublish,
     FlushDone, FlushCheck, FlushWake, FlushNow, writerVars
<1>4. CASE \E c \in Compactors : Merge(c) \/ CompactLoop(c) \/ CompactNow(c)
  BY <1>1, <1>4 DEF Merge, CompactLoop, CompactSnapshot, CompactRun, CompactThrows,
     CompactFails, CompactDelete, CompactDeleteFails, CompactPublish, CompactCheck, CompactWake,
     CompactNow, writerVars
<1>5. CASE CloseBegin \/ CloseStep
  BY <1>1, <1>5 DEF CloseBegin, CloseStep, CloseJoinFlusher, CloseJoinCompactor,
     CloseRotate, writerVars
<1>6. CASE UNCHANGED vars
  BY <1>1, <1>6 DEF vars, writerVars
<1> QED BY <1>2, <1>3, <1>4, <1>5, <1>6 DEF Next

(* Without write errors, and with callers that remove events that were     *)
(* inserted, replaying the log would leave for each key that no call is    *)
(* writing what was inserted last, although the order of two calls in the  *)
(* log and in memory may differ (db.cpp:159-177, 215-229).                 *)
THEOREM LogMatches ==
    ASSUME ~BlindRemove, ~DiskFaults
    PROVE  Spec => []LogAgrees
<1>1. CASE WalEnabled
  <2>1. Init => LogInv
    <3> SUFFICES ASSUME Init PROVE LogInv
      OBVIOUS
    <3>1. Recs(wal) = {} /\ Recs(history) = {} /\ EventFirst(wal) /\ EventFirst(history)
      BY DEF Init, Recs, EventFirst
    <3>2. InFlight = {} /\ (\A w \in Writers : wpc[w] # "insert") /\ ~torn /\ hidden = {}
      BY DEF Init, InFlight
    <3> QED BY <3>1, <3>2 DEF LogInv
  <2>2. TypeOK /\ LogInv /\ [Next]_vars => LogInv'
    BY <1>1, LogInvStep
  <2>3. TypeOK /\ LogInv => LogAgrees
    BY LogInvAgrees
  <2> QED BY <2>1, <2>2, <2>3, TypeCorrect, PTL DEF Spec
<1>2. CASE ~WalEnabled
  <2>1. LogAgrees
    BY <1>2 DEF LogAgrees
  <2> QED BY <2>1, PTL
<1> QED BY <1>1, <1>2
=============================================================================

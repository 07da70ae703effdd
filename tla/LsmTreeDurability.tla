------------------------- MODULE LsmTreeDurability -------------------------
(***************************************************************************)
(* What holds of LsmTree in the circumstances Disciplined describes, with  *)
(* any number of writers and of compactors, any memtable size, and close() *)
(* called at any moment: no write is lost (DurabilityInv), a closed        *)
(* instance is flushed (CloseInv), a row is in one place (OnePlaceInv),    *)
(* and the whole implements EventStore.  And what holds of LsmRestart,     *)
(* whoever calls what: ids are fresh (IdsInv), the log restores everything *)
(* (ReplayInv), tables are sound (SoundInv).                               *)
(***************************************************************************)
EXTENDS LsmTreeProofs, LsmRestart, FiniteSetTheorems

-----------------------------------------------------------------------------
(* Facts about tables.                                                     *)

LEMMA OlderThanEmpty == \A t : Older(t, Empty)
BY DEF Older, Empty

LEMMA EmptyIsOldest == \A t \in Table : Older(Empty, t)
BY DEF Older, Empty, Table

LEMMA EmptyFits == \A records : Fits(Empty, records)
BY DEF Fits, Empty

(* A table still fits when a record is added to the history. *)
LEMMA FitsLonger ==
    ASSUME NEW t \in Table, NEW records \in Seq(Event), NEW e \in Event, Fits(t, records)
    PROVE  Fits(t, Append(records, e))
<1> SUFFICES ASSUME NEW k \in Keys, t[k] # 0
             PROVE  /\ t[k] \in 1 .. Len(Append(records, e))
                    /\ Append(records, e)[t[k]].key = k
  BY DEF Fits
<1>1. t[k] \in 1 .. Len(records) /\ records[t[k]].key = k
  BY DEF Fits
<1>2. /\ Len(Append(records, e)) = Len(records) + 1
      /\ Append(records, e)[t[k]] = records[t[k]]
      /\ Len(records) \in Nat
  BY <1>1
<1> QED BY <1>1, <1>2

(* What memory and disk hold, in one operator. *)
Tables ==
    {active} \cup {imms[i] : i \in 1 .. Len(imms)} \cup {held[d] : d \in Drainers}
      \cup {file0[n] : n \in DOMAIN file0} \cup {file1[n] : n \in DOMAIN file1}

LEMMA StoredInTables ==
    \A v : Stored(v) <=> \E t \in Tables : t[history[v].key] = v
BY DEF Stored, Tables

LEMMA WellStoredTables == WellStored <=> \A t \in Tables : Fits(t, history)
BY DEF WellStored, Tables

LEMMA TablesType == TypeOK => Tables \subseteq Table
<1> SUFFICES ASSUME TypeOK PROVE Tables \subseteq Table
  OBVIOUS
<1>1. \A i \in 1 .. Len(imms) : imms[i] \in Table
  BY DEF TypeOK
<1> QED BY <1>1 DEF Tables, TypeOK

(* A step that inserts nothing and loses no table keeps every record.      *)
LEMMA KeepsRecords ==
    ASSUME TypeOK, WellStored, NoLostWrite, UNCHANGED history,
           \A t \in Tables : t \in Tables' \/ t = Empty
    PROVE  NoLostWrite'
<1> SUFFICES ASSUME NEW v \in Versions, ~Superseded(v) PROVE Stored(v)'
  BY DEF NoLostWrite, Versions, Superseded
<1>1. history[v] \in Event /\ v # 0
  BY DEF TypeOK, Versions
<1> history[v].key \in Keys
  BY <1>1 DEF Event
<1>2. PICK t \in Tables : t[history[v].key] = v
  BY StoredInTables DEF NoLostWrite
<1>3. t # Empty
  BY <1>1, <1>2 DEF Empty
<1>4. t \in Tables' /\ t[history'[v].key] = v
  BY <1>2, <1>3
<1> QED BY <1>4 DEF Stored, Tables

-----------------------------------------------------------------------------
(* Steps that only move a thread along its loop.                           *)

LEMMA ThreadStep ==
    ASSUME TypeOK, DurabilityInv,
           UNCHANGED <<active, imms, held, file0, file1, history, number, level0, sstSeq, job>>,
           \A d \in Drainers :
              fpc'[d] = fpc[d] \/ {fpc[d], fpc'[d]} \cap {"write", "publish"} = {},
           fpc'[Closer] \notin {"open", "join_flusher"} =>
              \A f \in Flushers : fpc'[f] = "exited",
           \A c \in Compactors : cpc'[c] = cpc[c] \/ cpc'[c] \notin {"delete", "publish"}
    PROVE  DurabilityInv'
<1>1. WellStored' /\ Numbering'
  BY DEF DurabilityInv, WellStored, Numbering
<1>2. NoLostWrite'
  BY DEF DurabilityInv, NoLostWrite, Versions, Superseded, Stored
<1>3. RecencyOrder'
  BY DEF DurabilityInv, RecencyOrder
<1>4. DrainOrder'
  BY DEF DurabilityInv, DrainOrder
<1>5. WrittenFile'
  BY DEF DurabilityInv, WrittenFile
<1>6. OutputsCover'
  BY DEF DurabilityInv, OutputsCover
<1> QED BY <1>1, <1>2, <1>3, <1>4, <1>5, <1>6 DEF DurabilityInv

LEMMA FlushLoopStep ==
    ASSUME TypeOK, DurabilityInv, NEW d \in Drainers,
           UNCHANGED <<active, imms, held, file0, file1, history, number, level0, sstSeq, mergeVars>>,
           NEW from, NEW to, FlushStep(d, from, to),
           {from, to} \cap {"write", "publish"} = {},
           from # "exited",
           d = Closer /\ to \notin {"open", "join_flusher"} =>
              from \notin {"open", "join_flusher"} \/ \A f \in Flushers : fpc[f] = "exited"
    PROVE  DurabilityInv'
<1>1. fpc' = [fpc EXCEPT ![d] = to] /\ fpc[d] = from /\ fpc \in [Drainers -> DrainStates]
  BY DEF FlushStep, TypeOK
<1>2. \A e \in Drainers :
        fpc'[e] = fpc[e] \/ {fpc[e], fpc'[e]} \cap {"write", "publish"} = {}
  BY <1>1
<1>3. ASSUME fpc'[Closer] \notin {"open", "join_flusher"}, NEW f \in Flushers
      PROVE  fpc'[f] = "exited"
  <2>1. f \in Drainers /\ Closer \in Drainers /\ f # Closer
    BY ThreadsAssumption DEF Drainers
  <2>2. fpc[f] = "exited"
    BY <1>1, <1>3, <2>1 DEF DurabilityInv, DrainOrder
  <2>3. d # f
    BY <1>1, <2>2
  <2> QED BY <1>1, <2>1, <2>2, <2>3
<1>4. \A c \in Compactors : cpc'[c] = cpc[c]
  BY DEF mergeVars
<1>5. UNCHANGED job
  BY DEF mergeVars
<1> QED BY <1>2, <1>3, <1>4, <1>5, ThreadStep

LEMMA CompactLoopStep ==
    ASSUME TypeOK, DurabilityInv, NEW c \in Compactors,
           UNCHANGED <<bufferVars, levelVars, fileVars, drainVars, history, sstSeq, job>>,
           NEW from, NEW to, CompactStep(c, from, to), to \notin {"delete", "publish"}
    PROVE  DurabilityInv'
<1>1. \A x \in Compactors : cpc'[x] = cpc[x] \/ cpc'[x] \notin {"delete", "publish"}
  BY DEF CompactStep, TypeOK
<1>2. UNCHANGED <<active, imms, held, file0, file1, history, number, level0, sstSeq, job, fpc>>
  BY DEF bufferVars, levelVars, fileVars, drainVars
<1> QED BY <1>1, <1>2, ThreadStep DEF DurabilityInv, DrainOrder

LEMMA QuietWriterStep ==
    ASSUME TypeOK, DurabilityInv,
           UNCHANGED <<bufferVars, levelVars, fileVars, drainVars, mergeVars, history, sstSeq>>
    PROVE  DurabilityInv'
<1>1. UNCHANGED <<active, imms, held, file0, file1, history, number, level0, sstSeq, job, fpc, cpc>>
  BY DEF bufferVars, levelVars, fileVars, drainVars, mergeVars
<1> QED BY <1>1, ThreadStep DEF DurabilityInv, DrainOrder

-----------------------------------------------------------------------------
(* Insertion and rotation.                                                 *)

(* The active memtable may become an immutable one, and so may any table   *)
(* that is newer than all that the active one is newer than.               *)
LEMMA RotateOrder ==
    ASSUME TypeOK, RecencyOrder, NEW t \in Table,
           \A n \in DOMAIN file0 : Older(file0[n], t),
           \A d \in Drainers : Older(held[d], t),
           \A i \in 1 .. Len(imms) : Older(imms[i], t),
           imms' = Append(imms, t), active' = Empty,
           UNCHANGED <<file0, held>>, \A d \in Drainers : fpc'[d] = "write" => fpc[d] = "write"
    PROVE  RecencyOrder'
<1>1. /\ Len(imms') = Len(imms) + 1 /\ Len(imms) \in Nat
      /\ \A i \in 1 .. Len(imms) : imms'[i] = imms[i]
      /\ imms'[Len(imms) + 1] = t
  BY DEF TypeOK
<1>2. \A i \in 1 .. Len(imms') : i \in 1 .. Len(imms) \/ (i = Len(imms) + 1 /\ imms'[i] = t)
  BY <1>1
<1>3. \A n \in DOMAIN file0, i \in 1 .. Len(imms') : Older(file0[n], imms'[i])
  BY <1>1, <1>2 DEF RecencyOrder
<1>4. \A d \in Drainers, i \in 1 .. Len(imms') : Older(held[d], imms'[i])
  BY <1>1, <1>2 DEF RecencyOrder
<1>5. \A i, j \in 1 .. Len(imms') : i < j => Older(imms'[i], imms'[j])
  <2> SUFFICES ASSUME NEW i \in 1 .. Len(imms'), NEW j \in 1 .. Len(imms'), i < j
               PROVE  Older(imms'[i], imms'[j])
    OBVIOUS
  <2>1. i \in 1 .. Len(imms) /\ imms'[i] = imms[i]
    BY <1>1
  <2>2. CASE j \in 1 .. Len(imms)
    BY <1>1, <2>1, <2>2 DEF RecencyOrder
  <2>3. CASE imms'[j] = t
    BY <2>1, <2>3
  <2> QED BY <1>2, <2>2, <2>3
<1>6. \A x : Older(x, active')
  BY OlderThanEmpty
<1> QED BY <1>3, <1>4, <1>5, <1>6 DEF RecencyOrder

(* The active memtable with the new record: a table of the new history,    *)
(* still newer than all the others.                                        *)
LEMMA NewRecord ==
    ASSUME TypeOK, DurabilityInv, NEW w \in Writers, op[w] \in Event,
           history' = Append(history, op[w])
    PROVE  /\ WithRecord(w) \in Table
           /\ \A k \in Keys : WithRecord(w)[k] = IF k = op[w].key THEN Len(history) + 1 ELSE active[k]
           /\ Fits(WithRecord(w), history')
           /\ \A t \in Tables : Fits(t, history')
           /\ \A t \in Tables : Older(t, active) => Older(t, WithRecord(w))
<1>1. op[w].key \in Keys /\ Len(history) \in Nat /\ history \in Seq(Event) /\ active \in Table
  BY DEF Event, TypeOK
<1>2. /\ WithRecord(w) \in Table
      /\ \A k \in Keys : WithRecord(w)[k] = IF k = op[w].key THEN Len(history) + 1 ELSE active[k]
  BY <1>1 DEF WithRecord, Table
<1>3. Tables \subseteq Table /\ \A t \in Tables : Fits(t, history)
  BY TablesType, WellStoredTables DEF DurabilityInv
<1>4. \A t \in Tables : Fits(t, history')
  BY <1>1, <1>3, FitsLonger
<1>5. Fits(WithRecord(w), history')
  <2> SUFFICES ASSUME NEW k \in Keys, WithRecord(w)[k] # 0
               PROVE  /\ WithRecord(w)[k] \in 1 .. Len(history')
                      /\ history'[WithRecord(w)[k]].key = k
    BY DEF Fits
  <2>1. CASE k = op[w].key
    <3>1. WithRecord(w)[k] = Len(history) + 1
      BY <1>2, <2>1
    <3>2. Len(history') = Len(history) + 1 /\ history'[Len(history) + 1] = op[w]
      BY <1>1
    <3> QED BY <1>1, <2>1, <3>1, <3>2
  <2>2. CASE k # op[w].key
    <3>1. WithRecord(w)[k] = active[k] /\ Fits(active, history')
      BY <1>2, <1>4, <2>2 DEF Tables
    <3> QED BY <3>1 DEF Fits
  <2> QED BY <2>1, <2>2
<1>6. ASSUME NEW t \in Tables, Older(t, active) PROVE Older(t, WithRecord(w))
  <2> SUFFICES ASSUME NEW k \in Keys, WithRecord(w)[k] # 0
               PROVE  t[k] < WithRecord(w)[k]
    BY DEF Older
  <2>1. t[k] \in Nat /\ (t[k] # 0 => t[k] \in 1 .. Len(history))
    BY <1>3 DEF Fits, Table
  <2>2. CASE k = op[w].key
    <3>1. WithRecord(w)[k] = Len(history) + 1
      BY <1>2, <2>2
    <3> QED BY <1>1, <2>1, <3>1
  <2>3. CASE k # op[w].key
    BY <1>2, <1>6, <2>3 DEF Older
  <2> QED BY <2>2, <2>3
<1> QED BY <1>2, <1>4, <1>5, <1>6

LEMMA InsertStep ==
    ASSUME TypeOK, DurabilityInv, NEW w \in Writers, Insert(w)
    PROVE  DurabilityInv'
<1> DEFINE N == Len(history) + 1
           T == WithRecord(w)
<1>1. /\ history' = Append(history, op[w]) /\ op[w] \in Event /\ op[w].key \in Keys
      /\ UNCHANGED <<held, file0, file1, fpc, number, level0, sstSeq, cpc, job>>
  BY DEF Insert, TypeOK, levelVars, fileVars, drainVars, mergeVars, Event
<1>2. \/ active' = T /\ imms' = imms
      \/ imms' = Append(imms, T) /\ active' = Empty
  BY DEF Insert, Rotate
<1>3. /\ T \in Table
      /\ \A k \in Keys : T[k] = IF k = op[w].key THEN N ELSE active[k]
      /\ Fits(T, history')
      /\ \A t \in Tables : Fits(t, history')
      /\ \A t \in Tables : Older(t, active) => Older(t, T)
  BY <1>1, NewRecord
<1> HIDE DEF T
<1>4. Len(imms) \in Nat /\ Len(history) \in Nat
  BY DEF TypeOK
<1>5. imms' = Append(imms, T) =>
        /\ Len(imms') = Len(imms) + 1 /\ imms'[Len(imms) + 1] = T
        /\ \A i \in 1 .. Len(imms) : imms'[i] = imms[i]
  BY <1>3 DEF TypeOK
<1>6. Tables' \subseteq Tables \cup {T, Empty}
  BY <1>1, <1>2, <1>4, <1>5 DEF Tables
<1>7. T \in Tables' /\ \A t \in Tables : t = active \/ t \in Tables'
  BY <1>1, <1>2, <1>4, <1>5 DEF Tables
<1>8. WellStored'
  <2>1. \A t \in Tables' : Fits(t, history')
    BY <1>3, <1>6, EmptyFits
  <2> QED BY <2>1 DEF WellStored, Tables
<1>9. RecencyOrder'
  <2>1. /\ \A n \in DOMAIN file0 : Older(file0[n], T)
        /\ \A d \in Drainers : Older(held[d], T)
        /\ \A i \in 1 .. Len(imms) : Older(imms[i], T)
    BY <1>3 DEF DurabilityInv, RecencyOrder, Tables
  <2>2. CASE active' = T /\ imms' = imms
    BY <1>1, <2>1, <2>2 DEF DurabilityInv, RecencyOrder
  <2>3. CASE imms' = Append(imms, T) /\ active' = Empty
    BY <1>1, <1>3, <2>1, <2>3, RotateOrder DEF DurabilityInv
  <2> QED BY <1>2, <2>2, <2>3
<1>10. NoLostWrite'
  <2> SUFFICES ASSUME NEW v \in Versions', ~Superseded(v)' PROVE Stored(v)'
    BY DEF NoLostWrite
  <2>1. Len(history') = N /\ history'[N] = op[w] /\ \A u \in Versions : history'[u] = history[u]
    BY <1>1 DEF TypeOK, Versions
  <2>2. Versions' = Versions \cup {N}
    BY <2>1, <1>4 DEF Versions
  <2>3. CASE v = N
    <3>1. T[history'[v].key] = v
      BY <1>1, <1>3, <2>1, <2>3
    <3> QED BY <3>1, <1>7 DEF Stored, Tables
  <2>4. CASE v # N
    <3>1. v \in Versions /\ history'[v] = history[v] /\ v < N
      BY <1>4, <2>1, <2>2, <2>4 DEF Versions
    <3>2. history[v].key \in Keys
      <4>1. history[v] \in Event
        BY <3>1 DEF Versions, TypeOK
      <4> QED BY <4>1 DEF Event
    <3>3. history[v].key # op[w].key
      BY <2>1, <2>2, <3>1 DEF Superseded
    <3>4. ~Superseded(v)
      BY <2>1, <2>2, <3>1 DEF Superseded
    <3>5. PICK t \in Tables : t[history[v].key] = v
      BY <3>1, <3>4, StoredInTables DEF DurabilityInv, NoLostWrite
    <3>6. CASE t = active
      <4>1. T[history[v].key] = v
        BY <1>3, <3>2, <3>3, <3>5, <3>6
      <4> QED BY <4>1, <1>7, <3>1 DEF Stored, Tables
    <3>7. CASE t \in Tables'
      BY <3>1, <3>5, <3>7 DEF Stored, Tables
    <3> QED BY <1>7, <3>6, <3>7
  <2> QED BY <2>3, <2>4
<1>11. DrainOrder' /\ WrittenFile' /\ Numbering' /\ OutputsCover'
  BY <1>1 DEF DurabilityInv, DrainOrder, WrittenFile, Numbering, OutputsCover
<1> QED BY <1>8, <1>9, <1>10, <1>11 DEF DurabilityInv

LEMMA CloseRotateStep ==
    ASSUME TypeOK, DurabilityInv, CloseRotate
    PROVE  DurabilityInv'
<1>1. /\ fpc[Closer] = "rotate" /\ fpc' = [fpc EXCEPT ![Closer] = "drain"]
      /\ UNCHANGED <<held, file0, file1, history, number, level0, sstSeq, cpc, job>>
      /\ Closer \in Drainers
  BY DEF CloseRotate, FlushStep, levelVars, fileVars, mergeVars, Drainers
<1>2. \A d \in Drainers : fpc'[d] = fpc[d] \/ (d = Closer /\ fpc'[d] = "drain")
  BY <1>1 DEF TypeOK
<1>3. \/ UNCHANGED <<active, imms>>
      \/ imms' = Append(imms, active) /\ active' = Empty
  BY DEF CloseRotate, Rotate
<1>4. active \in Table /\ Len(imms) \in Nat
  BY DEF TypeOK
<1>5. imms' = Append(imms, active) =>
        /\ Len(imms') = Len(imms) + 1 /\ imms'[Len(imms) + 1] = active
        /\ \A i \in 1 .. Len(imms) : imms'[i] = imms[i]
  BY <1>4 DEF TypeOK
<1>6. Tables' \subseteq Tables \cup {Empty} /\ Tables \subseteq Tables'
  BY <1>1, <1>3, <1>4, <1>5 DEF Tables
<1>7. NoLostWrite'
  BY <1>1, <1>6, KeepsRecords DEF DurabilityInv
<1>8. WellStored'
  <2>1. \A t \in Tables' : Fits(t, history')
    BY <1>1, <1>6, EmptyFits, WellStoredTables DEF DurabilityInv
  <2> QED BY <2>1 DEF WellStored, Tables
<1>9. RecencyOrder'
  <2>1. CASE UNCHANGED <<active, imms>>
    BY <1>1, <1>2, <2>1 DEF DurabilityInv, RecencyOrder
  <2>2. CASE imms' = Append(imms, active) /\ active' = Empty
    <3>1. \A d \in Drainers : fpc'[d] = "write" => fpc[d] = "write"
      BY <1>2
    <3> QED BY <1>1, <1>4, <2>2, <3>1, RotateOrder DEF DurabilityInv, RecencyOrder
  <2> QED BY <1>3, <2>1, <2>2
<1>10. DrainOrder'
  <2>1. \A f \in Flushers : f \in Drainers /\ f # Closer /\ fpc[f] = "exited"
    BY <1>1, ThreadsAssumption DEF Drainers, DurabilityInv, DrainOrder
  <2>2. \A d \in Drainers : fpc'[d] \notin {"write", "publish"} => held'[d] = Empty
    BY <1>1, <1>2 DEF DurabilityInv, DrainOrder
  <2> QED BY <1>2, <2>1, <2>2 DEF DrainOrder
<1>11. WrittenFile' /\ Numbering' /\ OutputsCover'
  BY <1>1, <1>2 DEF DurabilityInv, WrittenFile, Numbering, OutputsCover
<1> QED BY <1>7, <1>8, <1>9, <1>10, <1>11 DEF DurabilityInv

-----------------------------------------------------------------------------
(* Flushing.                                                               *)

(* One thread at a time holds a memtable.                                  *)
LEMMA OneDrainer ==
    ASSUME Disciplined, DrainOrder, NEW d \in Drainers, NEW e \in Drainers,
           fpc[d] \in {"write", "publish"}, fpc[e] \in {"write", "publish"}
    PROVE  d = e
<1>1. CASE d = Closer /\ e \in Flushers
  BY <1>1 DEF DrainOrder
<1>2. CASE e = Closer /\ d \in Flushers
  BY <1>2 DEF DrainOrder
<1>3. CASE d \in Flushers /\ e \in Flushers
  BY <1>3 DEF Disciplined
<1> QED BY <1>1, <1>2, <1>3 DEF Drainers

(* A drainer at work does not outlive close(). *)
LEMMA DrainStepOrder ==
    ASSUME TypeOK, DrainOrder, NEW d \in Drainers, NEW from, NEW to, FlushStep(d, from, to),
           from \in {"drain", "write", "publish"},
           fpc'[Closer] \notin {"open", "join_flusher"}
    PROVE  \A f \in Flushers : fpc'[f] = "exited"
<1> SUFFICES ASSUME NEW f \in Flushers PROVE fpc'[f] = "exited"
  OBVIOUS
<1>1. f \in Drainers /\ Closer \in Drainers /\ f # Closer
  BY ThreadsAssumption DEF Drainers
<1>2. fpc[d] = from /\ fpc' = [fpc EXCEPT ![d] = to] /\ fpc \in [Drainers -> DrainStates]
  BY DEF FlushStep, TypeOK
<1>3. fpc[Closer] \notin {"open", "join_flusher"}
  BY <1>1, <1>2
<1>4. fpc[f] = "exited"
  BY <1>3 DEF DrainOrder
<1> QED BY <1>1, <1>2, <1>4

LEMMA FlushPopStep ==
    ASSUME TypeOK, DurabilityInv, NEW d \in Drainers, FlushPop(d)
    PROVE  DurabilityInv'
<1>1. /\ fpc[d] = "drain" /\ fpc' = [fpc EXCEPT ![d] = "write"] /\ imms # <<>>
      /\ held' = [held EXCEPT ![d] = Head(imms)] /\ imms' = Tail(imms)
      /\ UNCHANGED <<active, file0, file1, history, number, level0, sstSeq, cpc, job>>
  BY DEF FlushPop, FlushStep, levelVars, fileVars, mergeVars
<1>2. /\ Len(imms) \in Nat \ {0} /\ Head(imms) = imms[1] /\ Len(imms') = Len(imms) - 1
      /\ \A i \in 1 .. Len(imms') : i + 1 \in 1 .. Len(imms) /\ imms'[i] = imms[i + 1]
      /\ 1 \in 1 .. Len(imms)
  <2>1. imms \in Seq(Table)
    BY DEF TypeOK
  <2>2. Len(imms) \in Nat \ {0}
    BY <1>1, <2>1
  <2> QED BY <1>1, <2>1, <2>2
<1>3. /\ fpc'[d] = "write" /\ held'[d] = imms[1]
      /\ \A e \in Drainers : e # d => fpc'[e] = fpc[e] /\ held'[e] = held[e]
  BY <1>1, <1>2 DEF TypeOK
<1>4. held[d] = Empty
  BY <1>1 DEF DurabilityInv, DrainOrder
<1>5. Tables' \subseteq Tables
  BY <1>1, <1>2, <1>3 DEF Tables
<1>6. \A t \in Tables : t \in Tables' \/ t = Empty
  <2>1. \A i \in 1 .. Len(imms) : imms[i] \in Tables'
    <3>1. imms[1] \in Tables'
      BY <1>3 DEF Tables
    <3>2. ASSUME NEW i \in 1 .. Len(imms), i # 1 PROVE imms[i] \in Tables'
      <4>1. i - 1 \in 1 .. Len(imms') /\ imms'[i - 1] = imms[i]
        BY <1>2, <3>2
      <4> QED BY <4>1 DEF Tables
    <3> QED BY <3>1, <3>2
  <2>2. \A e \in Drainers : held[e] \in Tables' \/ held[e] = Empty
    BY <1>3, <1>4 DEF Tables
  <2>3. active \in Tables'
    BY <1>1 DEF Tables
  <2>4. /\ \A n \in DOMAIN file0 : file0[n] \in Tables'
        /\ \A n \in DOMAIN file1 : file1[n] \in Tables'
    BY <1>1 DEF Tables
  <2> QED BY <2>1, <2>2, <2>3, <2>4 DEF Tables
<1>7. NoLostWrite'
  BY <1>1, <1>6, KeepsRecords DEF DurabilityInv
<1>8. WellStored'
  <2>1. \A t \in Tables' : Fits(t, history')
    BY <1>1, <1>5, WellStoredTables DEF DurabilityInv
  <2> QED BY <2>1 DEF WellStored, Tables
<1>9. RecencyOrder'
  <2> USE DEF DurabilityInv, RecencyOrder
  <2>1. \A n \in DOMAIN file0, e \in Drainers :
          fpc'[e] = "write" => Older(file0[n], held'[e])
    BY <1>2, <1>3
  <2>2. \A n \in DOMAIN file0, i \in 1 .. Len(imms') : Older(file0[n], imms'[i])
    BY <1>2
  <2>3. \A e \in Drainers, i \in 1 .. Len(imms') : Older(held'[e], imms'[i])
    <3> SUFFICES ASSUME NEW e \in Drainers, NEW i \in 1 .. Len(imms')
                 PROVE  Older(held'[e], imms'[i])
      OBVIOUS
    <3>1. i + 1 \in 1 .. Len(imms) /\ imms'[i] = imms[i + 1] /\ 1 < i + 1
      BY <1>2
    <3>2. CASE e = d
      BY <1>2, <1>3, <3>1, <3>2
    <3>3. CASE e # d
      BY <1>3, <3>1, <3>3
    <3> QED BY <3>2, <3>3
  <2>4. \A e \in Drainers : Older(held'[e], active)
    BY <1>2, <1>3
  <2>5. \A i, j \in 1 .. Len(imms') : i < j => Older(imms'[i], imms'[j])
    <3> SUFFICES ASSUME NEW i \in 1 .. Len(imms'), NEW j \in 1 .. Len(imms'), i < j
                 PROVE  Older(imms'[i], imms'[j])
      OBVIOUS
    <3>1. /\ i + 1 \in 1 .. Len(imms) /\ imms'[i] = imms[i + 1]
          /\ j + 1 \in 1 .. Len(imms) /\ imms'[j] = imms[j + 1]
          /\ i + 1 < j + 1
      BY <1>2
    <3> QED BY <3>1
  <2>6. \A i \in 1 .. Len(imms') : Older(imms'[i], active)
    BY <1>2
  <2> QED BY <1>1, <2>1, <2>2, <2>3, <2>4, <2>5, <2>6
<1>10. DrainOrder'
  <2>1. FlushStep(d, "drain", "write")
    BY DEF FlushPop
  <2>2. \A e \in Drainers : fpc'[e] \notin {"write", "publish"} => held'[e] = Empty
    BY <1>3 DEF DurabilityInv, DrainOrder
  <2> QED BY <2>1, <2>2, DrainStepOrder DEF DurabilityInv, DrainOrder
<1>11. WrittenFile' /\ Numbering' /\ OutputsCover'
  BY <1>1, <1>3 DEF DurabilityInv, WrittenFile, Numbering, OutputsCover
<1> QED BY <1>7, <1>8, <1>9, <1>10, <1>11 DEF DurabilityInv

LEMMA FlushWriteStep ==
    ASSUME Disciplined, TypeOK, DurabilityInv, NEW d \in Drainers, FlushWrite(d)
    PROVE  DurabilityInv'
<1>1. /\ fpc[d] = "write" /\ fpc' = [fpc EXCEPT ![d] = "publish"]
      /\ sstSeq' = sstSeq + 1 /\ number' = [number EXCEPT ![d] = sstSeq]
      /\ file0' = [n \in DOMAIN file0 \cup {sstSeq} |->
                     IF n = sstSeq THEN held[d] ELSE file0[n]]
      /\ UNCHANGED <<active, imms, held, file1, history, level0, cpc, job>>
  BY DEF FlushWrite, FlushStep, levelVars, mergeVars, bufferVars
<1>2. /\ sstSeq \in Nat \ {0} /\ \A n \in DOMAIN file0 : n \in Nat /\ n < sstSeq
      /\ DOMAIN file0' = DOMAIN file0 \cup {sstSeq}
      /\ file0'[sstSeq] = held[d] /\ \A n \in DOMAIN file0 : file0'[n] = file0[n]
  <2>1. sstSeq \in Nat \ {0} /\ \A n \in DOMAIN file0 : n \in Nat /\ n < sstSeq
    BY NumbersAssumption DEF TypeOK
  <2> QED BY <1>1, <2>1
<1>3. /\ fpc'[d] = "publish" /\ number'[d] = sstSeq
      /\ \A e \in Drainers : e # d =>
            fpc'[e] = fpc[e] /\ number'[e] = number[e] /\ fpc[e] \notin {"write", "publish"}
  BY <1>1, OneDrainer DEF TypeOK, DurabilityInv
<1>4. Tables' \subseteq Tables /\ \A t \in Tables : t \in Tables'
  <2>1. Tables' \subseteq Tables
    <3> SUFFICES ASSUME NEW n \in DOMAIN file0' PROVE file0'[n] \in Tables
      BY <1>1 DEF Tables
    <3> QED BY <1>2 DEF Tables
  <2>2. \A n \in DOMAIN file0 : file0[n] \in Tables'
    BY <1>2 DEF Tables
  <2> QED BY <1>1, <2>1, <2>2 DEF Tables
<1>5. NoLostWrite'
  BY <1>1, <1>4, KeepsRecords DEF DurabilityInv
<1>6. WellStored'
  <2>1. \A t \in Tables' : Fits(t, history')
    BY <1>1, <1>4, WellStoredTables DEF DurabilityInv
  <2> QED BY <2>1 DEF WellStored, Tables
<1>7. RecencyOrder'
  <2> USE DEF DurabilityInv, RecencyOrder
  <2>1. \A m, n \in DOMAIN file0' : m < n => Older(file0'[m], file0'[n])
    <3> SUFFICES ASSUME NEW m \in DOMAIN file0', NEW n \in DOMAIN file0', m < n
                 PROVE  Older(file0'[m], file0'[n])
      OBVIOUS
    <3>1. m \in DOMAIN file0 /\ file0'[m] = file0[m]
      BY <1>2
    <3>2. CASE n = sstSeq
      BY <1>1, <1>2, <3>1, <3>2
    <3>3. CASE n # sstSeq
      BY <1>2, <3>1, <3>3
    <3> QED BY <3>2, <3>3
  <2>2. \A e \in Drainers : fpc'[e] # "write"
    BY <1>3
  <2>3. \A n \in DOMAIN file0' : /\ \A i \in 1 .. Len(imms) : Older(file0'[n], imms[i])
                                 /\ Older(file0'[n], active)
    BY <1>2
  <2> QED BY <1>1, <2>1, <2>2, <2>3
<1>8. DrainOrder'
  <2>1. FlushStep(d, "write", "publish")
    BY DEF FlushWrite
  <2>2. \A e \in Drainers : fpc'[e] \notin {"write", "publish"} => held'[e] = Empty
    BY <1>1, <1>3 DEF DurabilityInv, DrainOrder
  <2> QED BY <2>1, <2>2, DrainStepOrder DEF DurabilityInv, DrainOrder
<1>9. sstSeq \notin level0 /\ \A c \in Compactors : sstSeq \notin job[c].inputs
  BY <1>2 DEF DurabilityInv, Numbering
<1>10. WrittenFile'
  <2> SUFFICES ASSUME NEW e \in Drainers, fpc'[e] = "publish"
               PROVE  /\ number'[e] \in DOMAIN file0' \ level0'
                      /\ file0'[number'[e]] = held'[e]
                      /\ \A c \in Compactors : number'[e] \notin job'[c].inputs
    BY DEF WrittenFile
  <2>1. e = d
    BY <1>3
  <2> QED BY <1>1, <1>2, <1>3, <1>9, <2>1
<1>11. Numbering'
  <2>1. 1 .. sstSeq - 1 \subseteq 1 .. sstSeq' - 1
    BY <1>1, <1>2
  <2> QED BY <1>1, <2>1 DEF DurabilityInv, Numbering
<1>12. OutputsCover'
  <2> SUFFICES ASSUME NEW c \in Compactors, cpc[c] \in {"delete", "publish"},
                      NEW n \in job[c].inputs \cap DOMAIN file0', NEW k \in Keys
               PROVE  \E m \in job[c].outs \cap DOMAIN file1 : file1[m][k] >= file0'[n][k]
    BY <1>1 DEF OutputsCover
  <2>1. n \in DOMAIN file0 /\ file0'[n] = file0[n]
    BY <1>2, <1>9
  <2> QED BY <2>1 DEF DurabilityInv, OutputsCover
<1> QED BY <1>5, <1>6, <1>7, <1>8, <1>10, <1>11, <1>12 DEF DurabilityInv

LEMMA FlushPublishStep ==
    ASSUME Disciplined, TypeOK, DurabilityInv, NEW d \in Drainers, FlushPublish(d)
    PROVE  DurabilityInv'
<1>1. /\ fpc[d] = "publish" /\ fpc' = [fpc EXCEPT ![d] = "drain"]
      /\ held' = [held EXCEPT ![d] = Empty] /\ level0' = level0 \cup {number[d]}
      /\ UNCHANGED <<active, imms, file0, file1, history, sstSeq, cpc, job>>
  BY DEF FlushPublish, FlushStep, fileVars, mergeVars, bufferVars
<1>2. /\ fpc'[d] = "drain" /\ held'[d] = Empty
      /\ \A e \in Drainers : e # d =>
            fpc'[e] = fpc[e] /\ held'[e] = held[e] /\ fpc[e] \notin {"write", "publish"}
  BY <1>1, OneDrainer DEF TypeOK, DurabilityInv
<1>3. number[d] \in DOMAIN file0 /\ file0[number[d]] = held[d]
  BY <1>1 DEF DurabilityInv, WrittenFile
<1>4. Tables' \subseteq Tables \cup {Empty}
  BY <1>1, <1>2 DEF Tables
<1>5. Tables \subseteq Tables'
  <2>1. \A e \in Drainers : held[e] \in Tables'
    BY <1>1, <1>2, <1>3 DEF Tables
  <2> QED BY <1>1, <2>1 DEF Tables
<1>6. NoLostWrite'
  BY <1>1, <1>5, KeepsRecords DEF DurabilityInv
<1>7. WellStored'
  <2>1. \A t \in Tables' : Fits(t, history')
    BY <1>1, <1>4, EmptyFits, WellStoredTables DEF DurabilityInv
  <2> QED BY <2>1 DEF WellStored, Tables
<1>8. RecencyOrder'
  <2> USE DEF DurabilityInv, RecencyOrder
  <2>1. \A e \in Drainers : fpc'[e] # "write"
    BY <1>2
  <2>2. active \in Table /\ \A i \in 1 .. Len(imms) : imms[i] \in Table
    BY DEF TypeOK
  <2>3. \A e \in Drainers : /\ \A i \in 1 .. Len(imms) : Older(held'[e], imms[i])
                           /\ Older(held'[e], active)
    BY <1>2, <2>2, EmptyIsOldest
  <2> QED BY <1>1, <2>1, <2>3
<1>9. DrainOrder'
  <2>1. FlushStep(d, "publish", "drain")
    BY DEF FlushPublish
  <2>2. \A e \in Drainers : fpc'[e] \notin {"write", "publish"} => held'[e] = Empty
    BY <1>2 DEF DurabilityInv, DrainOrder
  <2> QED BY <2>1, <2>2, DrainStepOrder DEF DurabilityInv, DrainOrder
<1>10. WrittenFile'
  BY <1>2 DEF WrittenFile
<1>11. number[d] \in 1 .. sstSeq - 1
  BY <1>3 DEF TypeOK
<1>12. Numbering' /\ OutputsCover'
  BY <1>1, <1>11 DEF DurabilityInv, Numbering, OutputsCover
<1> QED BY <1>6, <1>7, <1>8, <1>9, <1>10, <1>12 DEF DurabilityInv

-----------------------------------------------------------------------------
(* Compaction.                                                             *)

(* No record of an input is newer than what the merge keeps for its key,   *)
(* and what it keeps is a record of that key.                              *)
LEMMA MergedCovers ==
    ASSUME TypeOK, WellStored, RecencyOrder, NEW ns, ns \subseteq DOMAIN file0
    PROVE  /\ \A n \in ns, k \in Keys : Merged(ns)[k] >= file0[n][k]
           /\ Fits(Merged(ns), history)
<1> DEFINE having(k) == {n \in ns : file0[n][k] # 0}
<1>1. ASSUME NEW k \in Keys, having(k) # {}
      PROVE  /\ Newest(having(k)) \in having(k)
             /\ \A m \in having(k) : m <= Newest(having(k))
             /\ Merged(ns)[k] = file0[Newest(having(k))][k]
  <2>1. having(k) \subseteq 0 .. sstSeq /\ sstSeq \in Nat
    BY DEF TypeOK
  <2>2. Merged(ns)[k] = file0[Newest(having(k))][k]
    BY <1>1 DEF Merged
  <2> QED BY <1>1, <2>1, <2>2, NewestIsMaximum
<1>2. Merged(ns) \in Table
  BY MergedType
<1>3. ASSUME NEW n \in ns, NEW k \in Keys PROVE Merged(ns)[k] >= file0[n][k]
  <2>1. file0[n][k] \in Nat /\ Merged(ns)[k] \in Nat /\ n \in Nat
    <3>1. file0[n] \in Table
      BY DEF TypeOK
    <3> QED BY <1>2, <3>1 DEF Table, TypeOK
  <2>2. CASE file0[n][k] = 0
    BY <2>1, <2>2
  <2>3. CASE file0[n][k] # 0
    <3>1. n \in having(k)
      BY <2>3
    <3> DEFINE x == Newest(having(k))
    <3>2. x \in having(k) /\ n <= x /\ Merged(ns)[k] = file0[x][k]
      BY <1>1, <3>1
    <3> HIDE DEF x
    <3>5. x \in ns /\ file0[x][k] # 0 /\ x \in Nat
      BY <3>2 DEF TypeOK
    <3>3. CASE x = n
      BY <2>1, <3>2, <3>3
    <3>4. CASE x # n
      <4>1. n < x
        BY <2>1, <3>2, <3>4, <3>5
      <4>2. Older(file0[n], file0[x])
        BY <3>5, <4>1 DEF RecencyOrder
      <4> QED BY <2>1, <3>2, <3>5, <4>2 DEF Older
    <3> QED BY <3>3, <3>4
  <2> QED BY <2>2, <2>3
<1>4. ASSUME NEW k \in Keys, Merged(ns)[k] # 0
      PROVE  /\ Merged(ns)[k] \in 1 .. Len(history)
             /\ history[Merged(ns)[k]].key = k
  <2>1. having(k) # {}
    BY <1>4 DEF Merged
  <2>2. PICK x \in ns : Merged(ns)[k] = file0[x][k]
    BY <1>1, <2>1
  <2>3. Fits(file0[x], history)
    BY DEF WellStored
  <2> QED BY <1>4, <2>2, <2>3 DEF Fits
<1> QED BY <1>3, <1>4 DEF Fits

LEMMA CompactSnapshotStep ==
    ASSUME TypeOK, DurabilityInv, NEW c \in Compactors, CompactSnapshot(c)
    PROVE  DurabilityInv'
<1>1. /\ UNCHANGED <<active, imms, held, file0, file1, history, number, level0, sstSeq, fpc>>
      /\ cpc'[c] \notin {"delete", "publish"}
      /\ job'[c] = [inputs |-> level0, todo |-> level0, outs |-> {}]
      /\ \A x \in Compactors : x # c => cpc'[x] = cpc[x] /\ job'[x] = job[x]
  BY DEF CompactSnapshot, CompactStep, Home, TypeOK, bufferVars, levelVars, fileVars, drainVars
<1>2. WellStored' /\ DrainOrder' /\ RecencyOrder' /\ NoLostWrite'
  BY <1>1 DEF DurabilityInv, WellStored, DrainOrder, RecencyOrder, NoLostWrite,
              Stored, Superseded, Versions
<1>3. WrittenFile'
  BY <1>1 DEF DurabilityInv, WrittenFile
<1>4. Numbering'
  <2>1. level0' = level0 /\ file1' = file1 /\ sstSeq' = sstSeq /\ Numbering
    BY <1>1 DEF DurabilityInv
  <2>2. ASSUME NEW x \in Compactors
        PROVE  job'[x].todo \subseteq job'[x].inputs /\ job'[x].inputs \subseteq 1 .. sstSeq - 1
    <3>1. CASE x = c
      <4>1. job'[x] = [inputs |-> level0, todo |-> level0, outs |-> {}]
        BY <1>1, <3>1
      <4>2. level0 \subseteq 1 .. sstSeq - 1
        BY <2>1 DEF Numbering
      <4> QED BY ONLY <4>1, <4>2
    <3>2. CASE x # c
      BY <1>1, <2>1, <3>2 DEF Numbering
    <3> QED BY <3>1, <3>2
  <2> QED BY <2>1, <2>2 DEF Numbering
<1>5. OutputsCover'
  BY <1>1 DEF DurabilityInv, OutputsCover
<1> QED BY <1>2, <1>3, <1>4, <1>5 DEF DurabilityInv

LEMMA CompactThrowsStep ==
    ASSUME TypeOK, DurabilityInv, NEW c \in Compactors, CompactThrows(c)
    PROVE  DurabilityInv'
<1>1. /\ UNCHANGED <<active, imms, held, file0, file1, history, number, level0, fpc>>
      /\ sstSeq' = sstSeq + 1 /\ sstSeq \in Nat
      /\ cpc'[c] \notin {"delete", "publish"} /\ job'[c] = NoJob
      /\ \A x \in Compactors : x # c => cpc'[x] = cpc[x] /\ job'[x] = job[x]
  BY DEF CompactThrows, CompactStep, TypeOK, bufferVars, levelVars, fileVars, drainVars
<1>2. WellStored' /\ DrainOrder' /\ RecencyOrder' /\ NoLostWrite'
  BY <1>1 DEF DurabilityInv, WellStored, DrainOrder, RecencyOrder, NoLostWrite,
              Stored, Superseded, Versions
<1>3. WrittenFile'
  BY <1>1 DEF DurabilityInv, WrittenFile, NoJob
<1>4. Numbering'
  BY <1>1 DEF DurabilityInv, Numbering, NoJob
<1>5. OutputsCover'
  BY <1>1 DEF DurabilityInv, OutputsCover
<1> QED BY <1>2, <1>3, <1>4, <1>5 DEF DurabilityInv

(* With one output its number is the one taken from sst_seq_.              *)
LEMMA CompactRunStep ==
    ASSUME Disciplined, TypeOK, DurabilityInv, NEW c \in Compactors, CompactRun(c)
    PROVE  DurabilityInv'
<1> DEFINE merged == Merged(job[c].inputs)
<1>1. /\ UNCHANGED <<active, imms, held, file0, history, number, level0, fpc>>
      /\ job[c].inputs \subseteq DOMAIN file0 /\ sstSeq' = sstSeq + 1 /\ sstSeq \in Nat
      /\ DOMAIN file1' = DOMAIN file1 \cup {sstSeq}
      /\ \A n \in DOMAIN file1 : file1'[n] = file1[n]
      /\ \A k \in Keys : file1'[sstSeq][k] = merged[k]
      /\ cpc'[c] = "delete" /\ job'[c].inputs = job[c].inputs
      /\ job'[c].todo = job[c].todo /\ job'[c].outs = {sstSeq}
      /\ \A x \in Compactors : x # c => cpc'[x] = cpc[x] /\ job'[x] = job[x]
  BY RunEffect DEF DurabilityInv, Disciplined
<1>2. /\ \A n \in job[c].inputs, k \in Keys : merged[k] >= file0[n][k]
      /\ Fits(merged, history)
  BY <1>1, MergedCovers DEF DurabilityInv
<1> HIDE DEF merged
<1>3. NoLostWrite'
  <2>1. \A t \in Tables : t \in Tables'
    BY <1>1 DEF Tables
  <2> QED BY <1>1, <2>1, KeepsRecords DEF DurabilityInv
<1>4. WellStored'
  <2>1. Fits(file1'[sstSeq], history)
    BY <1>1, <1>2 DEF Fits
  <2>2. \A n \in DOMAIN file1' : Fits(file1'[n], history)
    BY <1>1, <2>1 DEF DurabilityInv, WellStored
  <2> QED BY <1>1, <2>2 DEF DurabilityInv, WellStored
<1>5. DrainOrder' /\ RecencyOrder'
  BY <1>1 DEF DurabilityInv, DrainOrder, RecencyOrder
<1>6. WrittenFile'
  BY <1>1 DEF DurabilityInv, WrittenFile
<1>7. Numbering'
  <2>1. 1 .. sstSeq - 1 \subseteq 1 .. sstSeq' - 1 /\ sstSeq \in 1 .. sstSeq' - 1
    BY <1>1, NumbersAssumption DEF TypeOK
  <2> QED BY <1>1, <2>1 DEF DurabilityInv, Numbering
<1>8. OutputsCover'
  <2> SUFFICES ASSUME NEW x \in Compactors, cpc'[x] \in {"delete", "publish"},
                      NEW n \in job'[x].inputs \cap DOMAIN file0, NEW k \in Keys
               PROVE  \E m \in job'[x].outs \cap DOMAIN file1' : file1'[m][k] >= file0[n][k]
    BY <1>1 DEF OutputsCover
  <2>1. CASE x = c
    BY <1>1, <1>2, <2>1
  <2>2. CASE x # c
    <3>1. PICK m \in job[x].outs \cap DOMAIN file1 : file1[m][k] >= file0[n][k]
      BY <1>1, <2>2 DEF DurabilityInv, OutputsCover
    <3> QED BY <1>1, <2>2, <3>1
  <2> QED BY <2>1, <2>2
<1> QED BY <1>3, <1>4, <1>5, <1>6, <1>7, <1>8 DEF DurabilityInv

(* An input goes only when an output has its records or newer ones.        *)
LEMMA CompactDeleteStep ==
    ASSUME TypeOK, DurabilityInv, NEW c \in Compactors, NEW gone \in job[c].todo,
           CompactDelete(c, gone)
    PROVE  DurabilityInv'
<1>1. /\ UNCHANGED <<active, imms, held, file1, history, number, level0, sstSeq, fpc>>
      /\ cpc[c] = "delete" /\ file0' = [m \in DOMAIN file0 \ {gone} |-> file0[m]]
      /\ job' = [job EXCEPT ![c].todo = @ \ {gone}]
      /\ cpc' = [cpc EXCEPT ![c] = IF job[c].todo = {gone} THEN "publish" ELSE "delete"]
  BY DEF CompactDelete, CompactStep, bufferVars, levelVars, drainVars
<1>2. DOMAIN file0' = DOMAIN file0 \ {gone} /\ \A n \in DOMAIN file0' : file0'[n] = file0[n]
  BY <1>1
<1>3. gone \in job[c].inputs
  BY DEF DurabilityInv, Numbering
<1>4. /\ cpc'[c] \in {"delete", "publish"}
      /\ \A x \in Compactors : x # c => cpc'[x] = cpc[x]
      /\ \A x \in Compactors : job'[x].inputs = job[x].inputs /\ job'[x].outs = job[x].outs
      /\ \A x \in Compactors : job'[x].todo \subseteq job[x].todo
  BY <1>1 DEF TypeOK, Job
<1>5. Tables' \subseteq Tables
  BY <1>1, <1>2 DEF Tables
<1>6. \A t \in Tables : t \in Tables' \/ (gone \in DOMAIN file0 /\ t = file0[gone])
  <2>1. \A n \in DOMAIN file0 : n = gone \/ file0[n] \in Tables'
    BY <1>2 DEF Tables
  <2> QED BY <1>1, <2>1 DEF Tables
<1>7. NoLostWrite'
  <2> SUFFICES ASSUME NEW v \in Versions, ~Superseded(v) PROVE Stored(v)'
    BY <1>1 DEF NoLostWrite, Versions, Superseded
  <2>1. PICK t \in Tables : t[history[v].key] = v
    BY StoredInTables DEF DurabilityInv, NoLostWrite
  <2>2. CASE t \in Tables'
    BY <1>1, <2>1, <2>2 DEF Stored, Tables
  <2>3. CASE gone \in DOMAIN file0 /\ t = file0[gone]
    <3> DEFINE k == history[v].key
    <3>1. k \in Keys
      <4>1. history[v] \in Event
        BY DEF Versions, TypeOK
      <4> QED BY <4>1 DEF Event
    <3>2. PICK m \in DOMAIN file1 : file1[m][k] >= v
      BY <1>1, <1>3, <2>1, <2>3, <3>1 DEF DurabilityInv, OutputsCover
    <3>3. file1[m][k] \in Nat /\ v \in Nat /\ v # 0
      BY <3>1 DEF TypeOK, Table, Versions
    <3>4. file1[m][k] \in Versions /\ history[file1[m][k]].key = k
      BY <3>1, <3>2, <3>3 DEF DurabilityInv, WellStored, Fits, Versions
    <3>5. file1[m][k] = v
      BY <3>2, <3>3, <3>4 DEF Superseded
    <3> QED BY <1>1, <3>5 DEF Stored
  <2> QED BY <1>6, <2>2, <2>3
<1>8. WellStored'
  <2>1. \A t \in Tables' : Fits(t, history')
    BY <1>1, <1>5, WellStoredTables DEF DurabilityInv
  <2> QED BY <2>1 DEF WellStored, Tables
<1>9. DrainOrder' /\ RecencyOrder'
  BY <1>1, <1>2 DEF DurabilityInv, DrainOrder, RecencyOrder
<1>10. WrittenFile'
  BY <1>1, <1>2, <1>3, <1>4 DEF DurabilityInv, WrittenFile
<1>11. Numbering'
  BY <1>1, <1>4 DEF DurabilityInv, Numbering
<1>12. OutputsCover'
  <2>1. \A x \in Compactors : cpc'[x] \in {"delete", "publish"} => cpc[x] \in {"delete", "publish"}
    BY <1>1, <1>4
  <2> QED BY <1>1, <1>2, <1>4, <2>1 DEF DurabilityInv, OutputsCover
<1> QED BY <1>7, <1>8, <1>9, <1>10, <1>11, <1>12 DEF DurabilityInv

LEMMA CompactPublishStep ==
    ASSUME TypeOK, DurabilityInv, NEW c \in Compactors, CompactPublish(c)
    PROVE  DurabilityInv'
<1>1. /\ UNCHANGED <<active, imms, held, file0, file1, history, number, sstSeq, fpc>>
      /\ level0' \subseteq level0
      /\ cpc'[c] \notin {"delete", "publish"} /\ job'[c] = NoJob
      /\ \A x \in Compactors : x # c => cpc'[x] = cpc[x] /\ job'[x] = job[x]
  BY DEF CompactPublish, CompactStep, Home, TypeOK, bufferVars, fileVars, drainVars
<1>2. WellStored' /\ DrainOrder' /\ RecencyOrder' /\ NoLostWrite'
  BY <1>1 DEF DurabilityInv, WellStored, DrainOrder, RecencyOrder, NoLostWrite,
              Stored, Superseded, Versions
<1>3. WrittenFile'
  BY <1>1 DEF DurabilityInv, WrittenFile, NoJob
<1>4. Numbering'
  BY <1>1 DEF DurabilityInv, Numbering, NoJob
<1>5. OutputsCover'
  BY <1>1 DEF DurabilityInv, OutputsCover
<1> QED BY <1>2, <1>3, <1>4, <1>5 DEF DurabilityInv

-----------------------------------------------------------------------------
(* The theorem.                                                            *)

LEMMA InitDurability == Init => DurabilityInv
<1> SUFFICES ASSUME Init PROVE DurabilityInv
  OBVIOUS
<1>1. /\ active = Empty /\ imms = <<>> /\ history = <<>> /\ level0 = {} /\ sstSeq = 1
      /\ DOMAIN file0 = {} /\ DOMAIN file1 = {} /\ fpc[Closer] = "open"
      /\ \A d \in Drainers : held[d] = Empty /\ fpc[d] \in {"open", "check", "idle"}
      /\ \A c \in Compactors : job[c] = NoJob /\ cpc[c] \in {"check", "idle"}
  BY DEF Init, Drainers
<1>2. Len(imms) = 0 /\ Len(history) = 0
  BY <1>1
<1>3. WellStored /\ DrainOrder /\ WrittenFile
  BY <1>1, <1>2, EmptyFits DEF WellStored, DrainOrder, WrittenFile
<1>4. Numbering /\ OutputsCover
  BY <1>1 DEF Numbering, OutputsCover, NoJob
<1>5. RecencyOrder /\ NoLostWrite
  BY <1>1, <1>2, OlderThanEmpty DEF RecencyOrder, NoLostWrite, Versions
<1> QED BY <1>3, <1>4, <1>5 DEF DurabilityInv

LEMMA DrainKeeps ==
    ASSUME Disciplined, TypeOK, DurabilityInv, NEW d \in Drainers, Drain(d)
    PROVE  DurabilityInv'
<1>1. CASE FlushPop(d)
  BY <1>1, FlushPopStep
<1>2. CASE FlushWrite(d)
  BY <1>2, FlushWriteStep
<1>3. CASE FlushFails(d)
  BY <1>3 DEF FlushFails, Disciplined
<1>4. CASE FlushPublish(d)
  BY <1>4, FlushPublishStep
<1>5. CASE FlushDone(d)
  <2> DEFINE to == IF d = Closer THEN "closed" ELSE IF d \in Background THEN "check" ELSE "idle"
  <2>1. /\ FlushStep(d, "drain", to)
        /\ UNCHANGED <<active, imms, held, file0, file1, history, number, level0, sstSeq, mergeVars>>
    BY <1>5 DEF FlushDone, bufferVars, levelVars, fileVars
  <2>2. /\ {"drain", to} \cap {"write", "publish"} = {}
        /\ d = Closer /\ to \notin {"open", "join_flusher"} =>
              "drain" \notin {"open", "join_flusher"} \/ \A f \in Flushers : fpc[f] = "exited"
    OBVIOUS
  <2> HIDE DEF to
  <2> QED BY <2>1, <2>2, FlushLoopStep
<1> QED BY <1>1, <1>2, <1>3, <1>4, <1>5 DEF Drain

LEMMA FlushThreadKeeps ==
    ASSUME Disciplined, TypeOK, DurabilityInv, NEW f \in Flushers,
           FlushLoop(f) \/ FlushNow(f)
    PROVE  DurabilityInv'
<1>1. f \in Drainers /\ f # Closer /\ f \in Background
  BY ThreadsAssumption DEF Drainers, Disciplined
<1>2. CASE FlushCheck(f)
  <2> DEFINE to == IF StopFlush THEN "exited" ELSE "wait"
  <2>1. /\ FlushStep(f, "check", to)
        /\ UNCHANGED <<active, imms, held, file0, file1, history, number, level0, sstSeq, mergeVars>>
    BY <1>2 DEF FlushCheck, bufferVars, levelVars, fileVars
  <2>2. {"check", to} \cap {"write", "publish"} = {}
    OBVIOUS
  <2> HIDE DEF to
  <2> QED BY <1>1, <2>1, <2>2, FlushLoopStep
<1>3. CASE FlushWake(f)
  <2>1. /\ FlushStep(f, "wait", "drain")
        /\ UNCHANGED <<active, imms, held, file0, file1, history, number, level0, sstSeq, mergeVars>>
    BY <1>3 DEF FlushWake, bufferVars, levelVars, fileVars
  <2> QED BY <1>1, <2>1, FlushLoopStep
<1>4. CASE FlushNow(f)
  BY <1>1, <1>4 DEF FlushNow
<1> QED BY <1>2, <1>3, <1>4 DEF FlushLoop

LEMMA CompactorKeeps ==
    ASSUME Disciplined, TypeOK, DurabilityInv, NEW c \in Compactors,
           Merge(c) \/ CompactLoop(c) \/ CompactNow(c)
    PROVE  DurabilityInv'
<1>1. CASE CompactSnapshot(c)
  BY <1>1, CompactSnapshotStep
<1>2. CASE CompactRun(c)
  BY <1>2, CompactRunStep
<1>3. CASE CompactThrows(c)
  BY <1>3, CompactThrowsStep
<1>4. CASE CompactFails(c)
  BY <1>4 DEF CompactFails, Disciplined
<1>5. CASE \E n \in job[c].todo : CompactDelete(c, n)
  BY <1>5, CompactDeleteStep
<1>6. CASE CompactPublish(c)
  BY <1>6, CompactPublishStep
<1>7. CASE CompactCheck(c)
  <2> DEFINE to == IF StopCompact THEN "exited" ELSE "wait"
  <2>1. /\ CompactStep(c, "check", to)
        /\ UNCHANGED <<bufferVars, levelVars, fileVars, drainVars, history, sstSeq, job>>
    BY <1>7 DEF CompactCheck
  <2>2. to \notin {"delete", "publish"}
    OBVIOUS
  <2> HIDE DEF to
  <2> QED BY <2>1, <2>2, CompactLoopStep
<1>8. CASE CompactWake(c)
  <2> DEFINE to == IF ~StopCompact /\ NeedsL0Compact THEN "snapshot" ELSE "check"
  <2>1. /\ CompactStep(c, "wait", to)
        /\ UNCHANGED <<bufferVars, levelVars, fileVars, drainVars, history, sstSeq, job>>
    BY <1>8 DEF CompactWake
  <2>2. to \notin {"delete", "publish"}
    OBVIOUS
  <2> HIDE DEF to
  <2> QED BY <2>1, <2>2, CompactLoopStep
<1>9. CASE CompactNow(c)
  <2>1. /\ CompactStep(c, "idle", "snapshot")
        /\ UNCHANGED <<bufferVars, levelVars, fileVars, drainVars, history, sstSeq, job>>
    BY <1>9 DEF CompactNow
  <2> QED BY <2>1, CompactLoopStep
<1>10. CASE \E n \in job[c].todo : CompactDeleteFails(c, n)
  BY <1>10 DEF CompactDeleteFails, Disciplined
<1> QED BY <1>1, <1>2, <1>3, <1>4, <1>5, <1>6, <1>7, <1>8, <1>9, <1>10 DEF Merge, CompactLoop

LEMMA CloseKeeps ==
    ASSUME Disciplined, TypeOK, DurabilityInv, CloseBegin \/ CloseStep
    PROVE  DurabilityInv'
<1>1. Closer \in Drainers
  BY DEF Drainers
<1>2. CASE CloseBegin
  <2>1. /\ FlushStep(Closer, "open", "join_flusher")
        /\ UNCHANGED <<active, imms, held, file0, file1, history, number, level0, sstSeq, mergeVars>>
    BY <1>2 DEF CloseBegin, bufferVars, levelVars, fileVars
  <2> QED BY <1>1, <2>1, FlushLoopStep
<1>3. CASE CloseJoinFlusher
  <2>1. /\ FlushStep(Closer, "join_flusher", "join_compactor")
        /\ UNCHANGED <<active, imms, held, file0, file1, history, number, level0, sstSeq, mergeVars>>
    BY <1>3 DEF CloseJoinFlusher, bufferVars, levelVars, fileVars
  <2>2. \A f \in Flushers : fpc[f] = "exited"
    BY <1>3 DEF CloseJoinFlusher, Disciplined
  <2> QED BY <1>1, <2>1, <2>2, FlushLoopStep
<1>4. CASE CloseJoinCompactor
  <2>1. /\ FlushStep(Closer, "join_compactor", "rotate")
        /\ UNCHANGED <<active, imms, held, file0, file1, history, number, level0, sstSeq, mergeVars>>
    BY <1>4 DEF CloseJoinCompactor, bufferVars, levelVars, fileVars
  <2> QED BY <1>1, <2>1, FlushLoopStep
<1>5. CASE CloseRotate
  BY <1>5, CloseRotateStep
<1> QED BY <1>2, <1>3, <1>4, <1>5 DEF CloseStep

LEMMA WriterKeeps ==
    ASSUME TypeOK, DurabilityInv, NEW w \in Writers, WriterStep(w)
    PROVE  DurabilityInv'
<1>1. CASE Insert(w)
  BY <1>1, InsertStep
<1>2. CASE \/ \E s \in Symbols : AppendBegin(w, s)
           \/ \E k \in Keys : RemoveBegin(w, k)
           \/ Log(w) \/ LogFails(w) \/ Report(w) \/ NullActive(w)
  BY <1>2, QuietWriterStep DEF AppendBegin, RemoveBegin, Begin, Log, LogFails, Report, NullActive
<1> QED BY <1>1, <1>2 DEF WriterStep

LEMMA DurabilityStep ==
    ASSUME Disciplined, TypeOK, DurabilityInv, [Next]_vars
    PROVE  DurabilityInv'
<1>1. ASSUME NEW w \in Writers, WriterStep(w) PROVE DurabilityInv'
  BY <1>1, WriterKeeps
<1>2. ASSUME NEW d \in Drainers, Drain(d) PROVE DurabilityInv'
  BY <1>2, DrainKeeps
<1>3. ASSUME NEW f \in Flushers, FlushLoop(f) \/ FlushNow(f) PROVE DurabilityInv'
  BY <1>3, FlushThreadKeeps
<1>4. ASSUME NEW c \in Compactors, Merge(c) \/ CompactLoop(c) \/ CompactNow(c)
      PROVE  DurabilityInv'
  BY <1>4, CompactorKeeps
<1>5. CASE CloseBegin \/ CloseStep
  BY <1>5, CloseKeeps
<1>6. CASE UNCHANGED vars
  BY <1>6, QuietWriterStep DEF vars
<1> QED BY <1>1, <1>2, <1>3, <1>4, <1>5, <1>6 DEF Next

(* With one flush thread and no caller of flush_now(), compactions that    *)
(* write one file and no write errors, every step from append() to the end *)
(* of close() keeps the invariant (db.cpp:130-233, 404-496).               *)
THEOREM Durable == ASSUME Disciplined PROVE Spec => []DurabilityInv
<1>1. Init => DurabilityInv
  BY InitDurability
<1>2. TypeOK /\ DurabilityInv /\ [Next]_vars => DurabilityInv'
  BY DurabilityStep
<1>3. Spec => []TypeOK
  BY TypeCorrect
<1> QED BY <1>1, <1>2, <1>3, PTL DEF Spec

(* In particular the last record written under a key is never lost, ...    *)
THEOREM NothingLost == ASSUME Disciplined PROVE Spec => []NoLostWrite
<1>1. DurabilityInv => NoLostWrite
  BY DEF DurabilityInv
<1> QED BY <1>1, Durable, PTL

(* ... and a merge always finds the newest record of a key where the       *)
(* deduplication of compaction.cpp:52-69 looks for it.                     *)
THEOREM MergeSafe == ASSUME Disciplined PROVE Spec => [](RecencyOrder /\ OutputsCover)
<1>1. DurabilityInv => RecencyOrder /\ OutputsCover
  BY DEF DurabilityInv
<1> QED BY <1>1, Durable, PTL

-----------------------------------------------------------------------------
(* What close() leaves.  A memtable that counts no insertion is empty, no   *)
(* call of append() or remove() outlives the beginning of close(), and     *)
(* once close() has moved the last memtable nothing fills another.         *)
CloseInv ==
    /\ used = 0 => active = Empty
    /\ Closed => \A w \in Writers : wpc[w] = "idle"
    /\ fpc[Closer] \in {"drain", "write", "publish", "closed"} => used = 0
    /\ fpc[Closer] = "closed" => imms = <<>>

LEMMA CloseInvQuiet ==
    ASSUME CloseInv, UNCHANGED <<active, used, imms, wpc>>,
           fpc'[Closer] # "open" => fpc[Closer] # "open",
           fpc'[Closer] \in {"drain", "write", "publish", "closed"} =>
              fpc[Closer] \in {"drain", "write", "publish", "closed"},
           fpc'[Closer] = "closed" => fpc[Closer] = "closed" \/ imms = <<>>
    PROVE  CloseInv'
BY DEF CloseInv, Closed

LEMMA CloseInvStep ==
    ASSUME Disciplined, QuiescentClose, TypeOK, CloseInv, [Next]_vars
    PROVE  CloseInv'
<1>0. Closer \in Drainers /\ \A f \in Flushers : f \in Drainers /\ f # Closer
  BY ThreadsAssumption DEF Drainers
<1>1. ASSUME NEW w \in Writers, WriterStep(w) PROVE CloseInv'
  <2>1. CASE Insert(w)
    <3>1. fpc' = fpc /\ fpc[Closer] = "open"
      BY <2>1 DEF Insert, CloseInv, Closed, drainVars
    <3>2. used' = 0 => active' = Empty
      BY <2>1 DEF Insert, Rotate, TypeOK
    <3> QED BY <3>1, <3>2 DEF CloseInv, Closed
  <2>2. CASE (\E s \in Symbols : AppendBegin(w, s)) \/ (\E k \in Keys : RemoveBegin(w, k))
    BY <2>2 DEF AppendBegin, RemoveBegin, Begin, bufferVars, drainVars, CloseInv, Closed
  <2>3. CASE Log(w) \/ LogFails(w) \/ Report(w) \/ NullActive(w)
    <3>1. UNCHANGED <<active, used, imms, fpc>> /\ wpc[w] # "idle"
      BY <2>3 DEF Log, LogFails, Report, NullActive, bufferVars, drainVars
    <3> QED BY <3>1 DEF CloseInv, Closed
  <2> QED BY <1>1, <2>1, <2>2, <2>3 DEF WriterStep
<1>2. ASSUME NEW d \in Drainers, Drain(d) PROVE CloseInv'
  <2>1. CASE FlushPop(d)
    <3>1. UNCHANGED <<active, used, wpc>> /\ fpc[d] = "drain" /\ fpc' = [fpc EXCEPT ![d] = "write"]
          /\ imms # <<>>
      BY <2>1 DEF FlushPop, FlushStep, writerVars
    <3>2. fpc'[Closer] = fpc[Closer] \/ (fpc[Closer] = "drain" /\ fpc'[Closer] = "write")
      BY <1>0, <3>1 DEF TypeOK
    <3> QED BY <3>1, <3>2 DEF CloseInv, Closed
  <2>2. CASE FlushWrite(d) \/ FlushPublish(d)
    <3>1. /\ UNCHANGED <<active, used, imms, wpc>>
          /\ \/ fpc[d] = "write" /\ fpc' = [fpc EXCEPT ![d] = "publish"]
             \/ fpc[d] = "publish" /\ fpc' = [fpc EXCEPT ![d] = "drain"]
      BY <2>2 DEF FlushWrite, FlushPublish, FlushStep, bufferVars, writerVars
    <3>2. \/ fpc'[Closer] = fpc[Closer]
          \/ fpc[Closer] \in {"write", "publish"} /\ fpc'[Closer] \in {"publish", "drain"}
      BY <1>0, <3>1 DEF TypeOK
    <3> QED BY <3>1, <3>2, CloseInvQuiet
  <2>3. CASE FlushFails(d)
    BY <2>3 DEF FlushFails, Disciplined
  <2>4. CASE FlushDone(d)
    <3>1. /\ UNCHANGED <<active, used, imms, wpc>> /\ imms = <<>> /\ fpc[d] = "drain"
          /\ d = Closer => fpc' = [fpc EXCEPT ![d] = "closed"]
          /\ d # Closer => fpc'[Closer] = fpc[Closer]
      BY <1>0, <2>4 DEF FlushDone, FlushStep, bufferVars, writerVars, TypeOK
    <3>2. fpc'[Closer] = fpc[Closer] \/ (fpc[Closer] = "drain" /\ fpc'[Closer] = "closed")
      BY <1>0, <3>1 DEF TypeOK
    <3> QED BY <3>1, <3>2, CloseInvQuiet
  <2> QED BY <1>2, <2>1, <2>2, <2>3, <2>4 DEF Drain
<1>3. ASSUME NEW f \in Flushers, FlushLoop(f) \/ FlushNow(f) PROVE CloseInv'
  <2>1. FlushLoop(f)
    BY <1>3 DEF FlushNow, Disciplined
  <2>2. UNCHANGED <<active, used, imms, wpc>> /\ fpc'[Closer] = fpc[Closer]
    BY <1>0, <2>1 DEF FlushLoop, FlushCheck, FlushWake, FlushStep, bufferVars, writerVars, TypeOK
  <2> QED BY <2>2, CloseInvQuiet
<1>4. ASSUME NEW c \in Compactors, Merge(c) \/ CompactLoop(c) \/ CompactNow(c) PROVE CloseInv'
  BY <1>4, CloseInvQuiet DEF Merge, CompactSnapshot, CompactRun, CompactThrows, CompactFails,
     CompactDelete, CompactDeleteFails, CompactPublish, CompactLoop, CompactCheck, CompactWake,
     CompactNow, bufferVars, writerVars, drainVars
<1>5. CASE CloseBegin
  <2>1. UNCHANGED <<active, used, imms, wpc>> /\ fpc'[Closer] = "join_flusher"
        /\ \A w \in Writers : wpc[w] = "idle"
    BY <1>0, <1>5 DEF CloseBegin, FlushStep, bufferVars, writerVars, TypeOK
  <2> QED BY <2>1 DEF CloseInv, Closed
<1>6. CASE CloseJoinFlusher \/ CloseJoinCompactor
  <2>1. UNCHANGED <<active, used, imms, wpc>> /\ fpc'[Closer] \in {"join_compactor", "rotate"}
        /\ fpc[Closer] # "open"
    BY <1>0, <1>6 DEF CloseJoinFlusher, CloseJoinCompactor, FlushStep, bufferVars, writerVars, TypeOK
  <2> QED BY <2>1, CloseInvQuiet
<1>7. CASE CloseRotate
  <2>1. /\ fpc[Closer] = "rotate" /\ fpc'[Closer] = "drain" /\ UNCHANGED wpc
        /\ IF used > 0 THEN active' = Empty /\ used' = 0 ELSE UNCHANGED <<active, used>>
    BY <1>0, <1>7 DEF CloseRotate, FlushStep, Rotate, writerVars, TypeOK
  <2> QED BY <2>1 DEF CloseInv, Closed, TypeOK
<1>8. CASE UNCHANGED vars
  BY <1>8, CloseInvQuiet DEF vars, bufferVars, writerVars, drainVars
<1> QED BY <1>1, <1>2, <1>3, <1>4, <1>5, <1>6, <1>7, <1>8 DEF Next, CloseStep

LEMMA ClosedFiles ==
    ASSUME Disciplined, TypeOK, DurabilityInv, FilesInv, CloseInv
    PROVE  ClosedMeansFlushed
<1> SUFFICES ASSUME fpc[Closer] = "closed", NEW v \in Versions, ~Superseded(v)
             PROVE  \/ \E n \in level0 \cap DOMAIN file0 : file0[n][history[v].key] = v
                    \/ \E n \in level1 \cap DOMAIN file1 : file1[n][history[v].key] = v
                    \/ \E c \in Compactors : cpc[c] \in {"delete", "publish"}
  BY DEF ClosedMeansFlushed
<1> DEFINE k == history[v].key
<1>1. k \in Keys /\ v # 0
  <2>1. history[v] \in Event /\ v # 0
    BY DEF TypeOK, Versions
  <2> QED BY <2>1 DEF Event
<1>2. active = Empty /\ Len(imms) = 0
  BY DEF CloseInv
<1>3. \A d \in Drainers : fpc[d] # "publish" /\ held[d] = Empty
  BY DEF DurabilityInv, DrainOrder, Drainers
<1>4. Empty[k] = 0
  BY <1>1 DEF Empty
<1>5. \/ \E n \in DOMAIN file0 : file0[n][k] = v
      \/ \E n \in DOMAIN file1 : file1[n][k] = v
  BY <1>1, <1>2, <1>3, <1>4 DEF DurabilityInv, NoLostWrite, Stored
<1>6. CASE \E n \in DOMAIN file0 : file0[n][k] = v
  BY <1>3, <1>6 DEF FilesInv, DroppedApart, LevelsMatchDisk, NoOrphans, Disciplined
<1>7. CASE \E n \in DOMAIN file1 : file1[n][k] = v
  <2>1. \A c \in Compactors : job[c].outs # {} => cpc[c] \in {"delete", "publish"}
    BY DEF FilesInv, JobProgress, NoJob
  <2> QED BY <1>7, <2>1 DEF FilesInv, LevelsMatchDisk, NoOrphans
<1> QED BY <1>5, <1>6, <1>7

(* When close() has returned and no write was in progress when it was      *)
(* called, the last record of every key is in a listed file, or in one     *)
(* that a compaction still running is about to list (db.cpp:92-124).       *)
THEOREM ClosedIsFlushed ==
    ASSUME Disciplined, QuiescentClose PROVE Spec => []ClosedMeansFlushed
<1>1. Init => CloseInv
  BY DEF Init, CloseInv, Closed
<1>2. TypeOK /\ CloseInv /\ [Next]_vars => CloseInv'
  BY CloseInvStep
<1>3. TypeOK /\ DurabilityInv /\ FilesInv /\ CloseInv => ClosedMeansFlushed
  BY ClosedFiles
<1>4. Spec => []TypeOK /\ []DurabilityInv /\ []FilesInv
  BY TypeCorrect, Durable, FilesCorrect DEF Disciplined
<1> QED BY <1>1, <1>2, <1>3, <1>4, PTL DEF Spec

-----------------------------------------------------------------------------
(* One place at a time.  With a single compactor, records get newer from    *)
(* L1 to L0 and on to memory, and along the files of L1 by number, except  *)
(* between an output that is not listed yet and its inputs: what a query   *)
(* that looks everywhere sees twice it could only see in passing.          *)
OneCompactor == \A c, d \in Compactors : c = d

L1Oldest ==
    /\ \A n \in DOMAIN file1, m \in DOMAIN file0 :
          \/ \E c \in Compactors : n \in job[c].outs /\ m \in job[c].inputs
          \/ Older(file1[n], file0[m])
    /\ \A n \in DOMAIN file1, d \in Drainers : fpc[d] = "write" => Older(file1[n], held[d])
    /\ \A n \in DOMAIN file1, i \in 1 .. Len(imms) : Older(file1[n], imms[i])
    /\ \A n \in DOMAIN file1 : Older(file1[n], active)
    /\ \A m, n \in DOMAIN file1 : m < n => Older(file1[m], file1[n])

(* A flush has the highest number there is until its file is listed, so    *)
(* that a snapshot of L0 has the oldest files; outputs are listed when the *)
(* job is done; close() leaves nothing in the memtable it moves.           *)
OnePlaceInv ==
    /\ L1Oldest
    /\ \A d \in Drainers : fpc[d] = "publish" => \A n \in DOMAIN file0 : n <= number[d]
    /\ \A c \in Compactors : \A i \in job[c].inputs, m \in DOMAIN file0 \ job[c].inputs : i < m
    /\ \A c \in Compactors : job[c].outs \cap level1 = {}
    /\ moved => active = Empty

(* A step that moves no table, file or job.                                *)
LEMMA OnePlaceQuiet ==
    ASSUME OnePlaceInv,
           UNCHANGED <<active, moved, imms, held, file0, file1, number, level1, job>>,
           \A d \in Drainers :
              fpc'[d] = fpc[d] \/ {fpc[d], fpc'[d]} \cap {"write", "publish"} = {}
    PROVE  OnePlaceInv'
<1>1. L1Oldest'
  BY DEF OnePlaceInv, L1Oldest
<1> QED BY <1>1 DEF OnePlaceInv

(* The active memtable may be rotated out.                                 *)
LEMMA RotateL1 ==
    ASSUME TypeOK, L1Oldest, NEW t \in Table, \A n \in DOMAIN file1 : Older(file1[n], t),
           imms' = Append(imms, t), active' = Empty,
           UNCHANGED <<file0, file1, held, job>>, \A d \in Drainers : fpc'[d] = "write" => fpc[d] = "write"
    PROVE  L1Oldest'
<1>1. /\ Len(imms') = Len(imms) + 1 /\ Len(imms) \in Nat
      /\ \A i \in 1 .. Len(imms) : imms'[i] = imms[i]
      /\ imms'[Len(imms) + 1] = t
  BY DEF TypeOK
<1>2. \A n \in DOMAIN file1, i \in 1 .. Len(imms') : Older(file1[n], imms'[i])
  <2>1. \A i \in 1 .. Len(imms') : i \in 1 .. Len(imms) \/ (i = Len(imms) + 1 /\ imms'[i] = t)
    BY <1>1
  <2> QED BY <1>1, <2>1 DEF L1Oldest
<1>3. \A x : Older(x, active')
  BY OlderThanEmpty
<1> QED BY <1>2, <1>3 DEF L1Oldest

LEMMA InsertOnePlace ==
    ASSUME TypeOK, DurabilityInv, OnePlaceInv, NEW w \in Writers, Insert(w)
    PROVE  OnePlaceInv'
<1>1. /\ history' = Append(history, op[w]) /\ op[w] \in Event
      /\ UNCHANGED <<held, file0, file1, fpc, number, level1, job, moved>> /\ ~moved
  BY DEF Insert, TypeOK, levelVars, fileVars, drainVars, mergeVars
<1>2. \/ active' = WithRecord(w) /\ imms' = imms
      \/ imms' = Append(imms, WithRecord(w)) /\ active' = Empty
  BY DEF Insert, Rotate
<1>3. /\ WithRecord(w) \in Table
      /\ \A n \in DOMAIN file1 : Older(file1[n], WithRecord(w))
  BY <1>1, NewRecord DEF Tables, OnePlaceInv, L1Oldest
<1>4. L1Oldest'
  <2>1. CASE active' = WithRecord(w) /\ imms' = imms
    BY <1>1, <1>3, <2>1 DEF OnePlaceInv, L1Oldest
  <2>2. CASE imms' = Append(imms, WithRecord(w)) /\ active' = Empty
    BY <1>1, <1>3, <2>2, RotateL1 DEF OnePlaceInv
  <2> QED BY <1>2, <2>1, <2>2
<1> QED BY <1>1, <1>4 DEF OnePlaceInv

LEMMA CloseRotateOnePlace ==
    ASSUME TypeOK, OnePlaceInv, CloseRotate
    PROVE  OnePlaceInv'
<1>1. /\ fpc[Closer] = "rotate" /\ fpc' = [fpc EXCEPT ![Closer] = "drain"]
      /\ UNCHANGED <<held, file0, file1, number, level1, job>>
      /\ Closer \in Drainers /\ active \in Table
      /\ \/ UNCHANGED <<active, imms>> /\ ~moved'
         \/ imms' = Append(imms, active) /\ active' = Empty
  BY DEF CloseRotate, Rotate, FlushStep, levelVars, fileVars, mergeVars, Drainers, TypeOK
<1>2. \A d \in Drainers : fpc'[d] = fpc[d] \/ (fpc'[d] = "drain" /\ fpc[d] = "rotate")
  BY <1>1 DEF TypeOK
<1>3. L1Oldest'
  <2>1. CASE UNCHANGED <<active, imms>> /\ ~moved'
    BY <1>1, <1>2, <2>1 DEF OnePlaceInv, L1Oldest
  <2>2. CASE imms' = Append(imms, active) /\ active' = Empty
    <3>1. \A n \in DOMAIN file1 : Older(file1[n], active)
      BY DEF OnePlaceInv, L1Oldest
    <3> QED BY <1>1, <1>2, <2>2, <3>1, RotateL1 DEF OnePlaceInv
  <2> QED BY <1>1, <2>1, <2>2
<1> QED BY <1>1, <1>2, <1>3 DEF OnePlaceInv

LEMMA FlushPopOnePlace ==
    ASSUME TypeOK, OnePlaceInv, NEW d \in Drainers, FlushPop(d)
    PROVE  OnePlaceInv'
<1>1. /\ fpc[d] = "drain" /\ fpc' = [fpc EXCEPT ![d] = "write"] /\ imms # <<>>
      /\ held' = [held EXCEPT ![d] = Head(imms)] /\ imms' = Tail(imms)
      /\ UNCHANGED <<active, moved, file0, file1, number, level1, job>>
  BY DEF FlushPop, FlushStep, levelVars, fileVars, mergeVars
<1>2. /\ Len(imms) \in Nat \ {0} /\ Head(imms) = imms[1] /\ Len(imms') = Len(imms) - 1
      /\ \A i \in 1 .. Len(imms') : imms'[i] = imms[i + 1]
  BY <1>1 DEF TypeOK
<1>3. /\ held'[d] = imms[1] /\ 1 \in 1 .. Len(imms)
      /\ \A i \in 1 .. Len(imms') : i + 1 \in 1 .. Len(imms)
      /\ \A e \in Drainers : e # d => fpc'[e] = fpc[e] /\ held'[e] = held[e]
      /\ fpc'[d] = "write"
  BY <1>1, <1>2 DEF TypeOK
<1>4. L1Oldest'
  <2>1. \A n \in DOMAIN file1, i \in 1 .. Len(imms') : Older(file1[n], imms'[i])
    BY <1>2, <1>3 DEF OnePlaceInv, L1Oldest
  <2>2. \A n \in DOMAIN file1, e \in Drainers : fpc'[e] = "write" => Older(file1[n], held'[e])
    BY <1>3 DEF OnePlaceInv, L1Oldest
  <2> QED BY <1>1, <2>1, <2>2 DEF OnePlaceInv, L1Oldest
<1> QED BY <1>1, <1>3, <1>4 DEF OnePlaceInv

LEMMA FlushWriteOnePlace ==
    ASSUME Disciplined, TypeOK, DurabilityInv, OnePlaceInv, NEW d \in Drainers, FlushWrite(d)
    PROVE  OnePlaceInv'
<1>1. /\ fpc[d] = "write" /\ fpc' = [fpc EXCEPT ![d] = "publish"]
      /\ number' = [number EXCEPT ![d] = sstSeq] /\ sstSeq \in Nat
      /\ DOMAIN file0' = DOMAIN file0 \cup {sstSeq} /\ file0'[sstSeq] = held[d]
      /\ \A n \in DOMAIN file0 : n # sstSeq => file0'[n] = file0[n]
      /\ UNCHANGED <<active, moved, imms, held, file1, level1, job>>
  BY DEF FlushWrite, FlushStep, bufferVars, levelVars, mergeVars, TypeOK
<1>2. /\ fpc'[d] = "publish" /\ number'[d] = sstSeq
      /\ \A e \in Drainers : e # d => fpc'[e] = fpc[e] /\ fpc'[e] # "publish"
  BY <1>1, OneDrainer DEF TypeOK, DurabilityInv
<1>3. /\ \A n \in DOMAIN file0 : n \in Nat /\ n < sstSeq
      /\ \A c \in Compactors : \A i \in job[c].inputs : i < sstSeq
  BY <1>1 DEF TypeOK, DurabilityInv, Numbering
<1>4. L1Oldest'
  <2>1. ASSUME NEW n \in DOMAIN file1, NEW m \in DOMAIN file0'
        PROVE  \/ \E c \in Compactors : n \in job[c].outs /\ m \in job[c].inputs
               \/ Older(file1[n], file0'[m])
    <3>1. CASE m = sstSeq
      BY <1>1, <3>1 DEF OnePlaceInv, L1Oldest
    <3>2. CASE m # sstSeq
      BY <1>1, <3>2 DEF OnePlaceInv, L1Oldest
    <3> QED BY <3>1, <3>2
  <2>2. \A n \in DOMAIN file1, e \in Drainers : fpc'[e] = "write" => Older(file1[n], held[e])
    BY <1>2 DEF OnePlaceInv, L1Oldest
  <2> QED BY <1>1, <2>1, <2>2 DEF OnePlaceInv, L1Oldest
<1>5. \A e \in Drainers : fpc'[e] = "publish" => \A n \in DOMAIN file0' : n <= number'[e]
  <2>1. \A n \in DOMAIN file0' : n <= sstSeq
    BY <1>1, <1>3
  <2> QED BY <1>2, <2>1
<1>6. \A c \in Compactors : \A i \in job[c].inputs, m \in DOMAIN file0' \ job[c].inputs : i < m
  BY <1>1, <1>3 DEF OnePlaceInv
<1> QED BY <1>1, <1>4, <1>5, <1>6 DEF OnePlaceInv

LEMMA FlushPublishOnePlace ==
    ASSUME TypeOK, OnePlaceInv, NEW d \in Drainers, FlushPublish(d)
    PROVE  OnePlaceInv'
<1>1. /\ fpc[d] = "publish" /\ fpc' = [fpc EXCEPT ![d] = "drain"]
      /\ number' = [number EXCEPT ![d] = 0] /\ held' = [held EXCEPT ![d] = Empty]
      /\ UNCHANGED <<active, moved, imms, file0, file1, level1, job>>
  BY DEF FlushPublish, FlushStep, bufferVars, fileVars, mergeVars
<1>2. /\ fpc'[d] = "drain"
      /\ \A e \in Drainers : e # d => /\ fpc'[e] = fpc[e] /\ number'[e] = number[e]
                                      /\ held'[e] = held[e]
  BY <1>1 DEF TypeOK
<1>3. L1Oldest'
  <2>1. \A n \in DOMAIN file1, e \in Drainers : fpc'[e] = "write" => Older(file1[n], held'[e])
    BY <1>1, <1>2 DEF OnePlaceInv, L1Oldest
  <2> QED BY <1>1, <2>1 DEF OnePlaceInv, L1Oldest
<1> QED BY <1>1, <1>2, <1>3 DEF OnePlaceInv

(* With one compactor, the files a snapshot of L0 misses have the highest  *)
(* numbers.                                                                *)
LEMMA SnapshotOnePlace ==
    ASSUME Disciplined, OneCompactor, TypeOK, FilesInv, OnePlaceInv, NEW c \in Compactors,
           CompactSnapshot(c)
    PROVE  OnePlaceInv'
<1>1. /\ cpc[c] = "snapshot"
      /\ job'[c].inputs = level0 /\ job'[c].outs = {}
      /\ UNCHANGED <<active, moved, imms, held, file0, file1, number, level0, level1, fpc>>
  BY DEF CompactSnapshot, CompactStep, TypeOK, bufferVars, levelVars, fileVars, drainVars
<1>2. \A x \in Compactors : x = c
  BY DEF OneCompactor
<1>3. job[c].outs = {} /\ job[c].inputs = {}
  BY <1>1 DEF FilesInv, JobProgress, NoJob
<1>4. level0 \subseteq DOMAIN file0
  BY <1>2, <1>3 DEF FilesInv, LevelsMatchDisk, ListedOnDisk
<1>5. ASSUME NEW i \in level0, NEW m \in DOMAIN file0 \ level0 PROVE i < m
  <2>1. PICK d \in Drainers : fpc[d] = "publish" /\ number[d] = m
    BY DEF FilesInv, DroppedApart, LevelsMatchDisk, NoOrphans, Disciplined
  <2>2. i <= m /\ i # m
    BY <1>4, <2>1 DEF OnePlaceInv
  <2>3. i \in Nat /\ m \in Nat
    BY DEF TypeOK
  <2> QED BY <2>2, <2>3
<1>6. L1Oldest'
  BY <1>1, <1>2, <1>3 DEF OnePlaceInv, L1Oldest
<1>7. \A x \in Compactors : \A i \in job'[x].inputs, m \in DOMAIN file0 \ job'[x].inputs : i < m
  BY <1>1, <1>2, <1>5
<1>8. \A x \in Compactors : job'[x].outs \cap level1 = {}
  BY <1>1, <1>2
<1> QED BY <1>1, <1>6, <1>7, <1>8 DEF OnePlaceInv

(* What a merge keeps is as old as its inputs are, against any other table.*)
LEMMA MergedOlder ==
    ASSUME TypeOK, NEW ns, ns \subseteq DOMAIN file0, NEW t \in Table
    PROVE  /\ (\A n \in ns : Older(file0[n], t)) => Older(Merged(ns), t)
           /\ (\A n \in ns : Older(t, file0[n])) => Older(t, Merged(ns))
<1>1. ASSUME NEW k \in Keys
      PROVE  \/ Merged(ns)[k] = 0
             \/ \E n \in ns : Merged(ns)[k] = file0[n][k] /\ file0[n][k] # 0
  <2> DEFINE having == {n \in ns : file0[n][k] # 0}
  <2>1. CASE having = {}
    BY <2>1 DEF Merged
  <2>2. CASE having # {}
    <3>1. having \subseteq 0 .. sstSeq /\ sstSeq \in Nat
      BY DEF TypeOK
    <3>2. Newest(having) \in having
      BY <2>2, <3>1, NewestIsMaximum
    <3>3. Merged(ns)[k] = file0[Newest(having)][k]
      BY <2>2 DEF Merged
    <3> QED BY <3>2, <3>3
  <2> QED BY <2>1, <2>2
<1>2. \A k \in Keys : t[k] \in Nat
  BY DEF Table
<1> QED BY <1>1, <1>2 DEF Older

LEMMA RunOnePlace ==
    ASSUME Disciplined, OneCompactor, TypeOK, DurabilityInv, FilesInv, OnePlaceInv,
           NEW c \in Compactors, CompactRun(c)
    PROVE  OnePlaceInv'
<1> DEFINE merged == Merged(job[c].inputs)
<1>1. /\ cpc[c] = "run" /\ job[c].inputs \subseteq DOMAIN file0
      /\ sstSeq \notin DOMAIN file1 /\ DOMAIN file1' = DOMAIN file1 \cup {sstSeq}
      /\ \A n \in DOMAIN file1 : file1'[n] = file1[n]
      /\ \A k \in Keys : file1'[sstSeq][k] = merged[k]
      /\ job'[c].inputs = job[c].inputs /\ job'[c].outs = {sstSeq} /\ sstSeq \in Nat
      /\ UNCHANGED <<active, moved, imms, held, file0, number, level1, fpc>>
  BY RunEffect DEF DurabilityInv, Disciplined
<1>2. \A x \in Compactors : x = c
  BY DEF OneCompactor
<1>3. job[c].outs = {} /\ level1 \subseteq DOMAIN file1
  BY <1>1 DEF FilesInv, JobProgress, LevelsMatchDisk, ListedOnDisk
<1>4. \A t \in Table : (\A n \in job[c].inputs : Older(file0[n], t)) => Older(file1'[sstSeq], t)
  BY <1>1, MergedOlder DEF Older
<1>5. \A n \in DOMAIN file1 : Older(file1[n], file1'[sstSeq])
  <2> SUFFICES ASSUME NEW n \in DOMAIN file1 PROVE Older(file1[n], merged)
    BY <1>1 DEF Older
  <2>1. file1[n] \in Table /\ \A m \in job[c].inputs : Older(file1[n], file0[m])
    BY <1>1, <1>2, <1>3 DEF TypeOK, OnePlaceInv, L1Oldest
  <2> QED BY <1>1, <2>1, MergedOlder
<1> HIDE DEF merged
<1>6. \A m \in DOMAIN file0 \ job[c].inputs : Older(file1'[sstSeq], file0[m])
  <2> SUFFICES ASSUME NEW m \in DOMAIN file0 \ job[c].inputs PROVE Older(file1'[sstSeq], file0[m])
    OBVIOUS
  <2>1. file0[m] \in Table /\ \A n \in job[c].inputs : Older(file0[n], file0[m])
    BY <1>1 DEF TypeOK, OnePlaceInv, DurabilityInv, RecencyOrder
  <2> QED BY <1>4, <2>1
<1>7. /\ \A d \in Drainers : fpc[d] = "write" => Older(file1'[sstSeq], held[d])
      /\ \A i \in 1 .. Len(imms) : Older(file1'[sstSeq], imms[i])
      /\ Older(file1'[sstSeq], active)
  <2>1. /\ active \in Table /\ \A d \in Drainers : held[d] \in Table
        /\ \A i \in 1 .. Len(imms) : imms[i] \in Table
    BY DEF TypeOK
  <2>2. /\ \A n \in job[c].inputs, d \in Drainers : fpc[d] = "write" => Older(file0[n], held[d])
        /\ \A n \in job[c].inputs, i \in 1 .. Len(imms) : Older(file0[n], imms[i])
        /\ \A n \in job[c].inputs : Older(file0[n], active)
    BY <1>1 DEF DurabilityInv, RecencyOrder
  <2> QED BY <1>4, <2>1, <2>2
<1>8. L1Oldest'
  <2>1. \A n \in DOMAIN file1', m \in DOMAIN file0 :
          \/ \E x \in Compactors : n \in job'[x].outs /\ m \in job'[x].inputs
          \/ Older(file1'[n], file0[m])
    BY <1>1, <1>2, <1>3, <1>6 DEF OnePlaceInv, L1Oldest
  <2>2. /\ \A n \in DOMAIN file1', d \in Drainers : fpc[d] = "write" => Older(file1'[n], held[d])
        /\ \A n \in DOMAIN file1', i \in 1 .. Len(imms) : Older(file1'[n], imms[i])
        /\ \A n \in DOMAIN file1' : Older(file1'[n], active)
    BY <1>1, <1>7 DEF OnePlaceInv, L1Oldest
  <2>3. \A m, n \in DOMAIN file1' : m < n => Older(file1'[m], file1'[n])
    <3>1. \A n \in DOMAIN file1 : n \in Nat /\ n < sstSeq
      BY <1>1 DEF DurabilityInv, Numbering
    <3> QED BY <1>1, <1>5, <3>1 DEF OnePlaceInv, L1Oldest
  <2> QED BY <1>1, <2>1, <2>2, <2>3 DEF L1Oldest
<1>9. \A x \in Compactors : \A i \in job'[x].inputs, m \in DOMAIN file0 \ job'[x].inputs : i < m
  BY <1>1, <1>2 DEF OnePlaceInv
<1>10. \A x \in Compactors : job'[x].outs \cap level1 = {}
  BY <1>1, <1>2, <1>3
<1> QED BY <1>1, <1>8, <1>9, <1>10 DEF OnePlaceInv

LEMMA DeleteOnePlace ==
    ASSUME TypeOK, OnePlaceInv, NEW c \in Compactors, NEW gone \in job[c].todo,
           CompactDelete(c, gone)
    PROVE  OnePlaceInv'
<1>1. /\ DOMAIN file0' = DOMAIN file0 \ {gone} /\ \A n \in DOMAIN file0' : file0'[n] = file0[n]
      /\ \A x \in Compactors : job'[x].inputs = job[x].inputs /\ job'[x].outs = job[x].outs
      /\ UNCHANGED <<active, moved, imms, held, file1, number, level1, fpc>>
  BY DEF CompactDelete, CompactStep, bufferVars, levelVars, drainVars, TypeOK, Job
<1>2. L1Oldest'
  BY <1>1 DEF OnePlaceInv, L1Oldest
<1> QED BY <1>1, <1>2 DEF OnePlaceInv

(* The end of a compaction: its inputs are gone from the disk.             *)
LEMMA JobEndOnePlace ==
    ASSUME Disciplined, OneCompactor, TypeOK, FilesInv, OnePlaceInv, NEW c \in Compactors,
           CompactPublish(c) \/ CompactThrows(c)
    PROVE  OnePlaceInv'
<1>1. /\ job'[c].inputs = {} /\ job'[c].outs = {}
      /\ UNCHANGED <<active, moved, imms, held, file0, file1, number, fpc>>
  BY DEF CompactPublish, CompactThrows, CompactStep, NoJob, bufferVars, fileVars, drainVars, TypeOK
<1>2. \A x \in Compactors : x = c
  BY DEF OneCompactor
<1>3. job[c].outs = {} \/ job[c].inputs \cap DOMAIN file0 = {}
  BY DEF CompactPublish, CompactThrows, CompactStep, FilesInv, DroppedApart, JobProgress, Disciplined
<1>4. L1Oldest'
  BY <1>1, <1>2, <1>3 DEF OnePlaceInv, L1Oldest
<1> QED BY <1>1, <1>2, <1>4 DEF OnePlaceInv

LEMMA OnePlaceStep ==
    ASSUME Disciplined, OneCompactor, TypeOK, DurabilityInv, FilesInv, OnePlaceInv, [Next]_vars
    PROVE  OnePlaceInv'
<1>1. ASSUME NEW w \in Writers, WriterStep(w) PROVE OnePlaceInv'
  <2>1. CASE Insert(w)
    BY <2>1, InsertOnePlace
  <2>2. CASE \/ \E s \in Symbols : AppendBegin(w, s)
             \/ \E k \in Keys : RemoveBegin(w, k)
             \/ Log(w) \/ LogFails(w) \/ Report(w) \/ NullActive(w)
    BY <2>2, OnePlaceQuiet DEF AppendBegin, RemoveBegin, Begin, Log, LogFails, Report,
       NullActive, bufferVars, levelVars, fileVars, drainVars, mergeVars
  <2> QED BY <1>1, <2>1, <2>2 DEF WriterStep
<1>2. ASSUME NEW d \in Drainers, Drain(d) PROVE OnePlaceInv'
  <2>1. CASE FlushPop(d)
    BY <2>1, FlushPopOnePlace
  <2>2. CASE FlushWrite(d)
    BY <2>2, FlushWriteOnePlace
  <2>3. CASE FlushFails(d)
    BY <2>3 DEF FlushFails, Disciplined
  <2>4. CASE FlushPublish(d)
    BY <2>4, FlushPublishOnePlace
  <2>5. CASE FlushDone(d)
    <3> DEFINE to == IF d = Closer THEN "closed" ELSE IF d \in Background THEN "check" ELSE "idle"
    <3>1. fpc[d] = "drain" /\ fpc' = [fpc EXCEPT ![d] = to] /\ to \notin {"write", "publish"}
      BY <2>5 DEF FlushDone, FlushStep
    <3> HIDE DEF to
    <3> QED BY <2>5, <3>1, OnePlaceQuiet DEF FlushDone, bufferVars, levelVars, fileVars,
               mergeVars, TypeOK
  <2> QED BY <1>2, <2>1, <2>2, <2>3, <2>4, <2>5 DEF Drain
<1>3. ASSUME NEW f \in Flushers, FlushLoop(f) \/ FlushNow(f) PROVE OnePlaceInv'
  <2>1. FlushLoop(f)
    BY <1>3 DEF FlushNow, Disciplined
  <2> QED BY <2>1, OnePlaceQuiet DEF FlushLoop, FlushCheck, FlushWake, FlushStep, bufferVars,
             levelVars, fileVars, mergeVars, TypeOK
<1>4. ASSUME NEW c \in Compactors, Merge(c) PROVE OnePlaceInv'
  BY <1>4, SnapshotOnePlace, RunOnePlace, DeleteOnePlace, JobEndOnePlace
     DEF Merge, CompactFails, CompactDeleteFails, Disciplined
<1>5. ASSUME NEW c \in Compactors, CompactLoop(c) \/ CompactNow(c) PROVE OnePlaceInv'
  BY <1>5, OnePlaceQuiet DEF CompactLoop, CompactCheck, CompactWake, CompactNow, bufferVars,
     levelVars, fileVars, drainVars
<1>6. CASE CloseRotate
  BY <1>6, CloseRotateOnePlace
<1>7. CASE CloseBegin \/ CloseJoinFlusher \/ CloseJoinCompactor
  BY <1>7, OnePlaceQuiet DEF CloseBegin, CloseJoinFlusher, CloseJoinCompactor, FlushStep,
     bufferVars, levelVars, fileVars, mergeVars, TypeOK
<1>8. CASE UNCHANGED vars
  BY <1>8, OnePlaceQuiet DEF vars, bufferVars, levelVars, fileVars, drainVars, mergeVars
<1> QED BY <1>1, <1>2, <1>3, <1>4, <1>5, <1>6, <1>7, <1>8 DEF Next, CloseStep

(* With one compaction at a time, L1 is older than L0 and L0 older than     *)
(* memory, and a record is listed in one file at most (db.cpp:404-490).    *)
THEOREM OnePlaceAtATime ==
    ASSUME Disciplined, OneCompactor PROVE Spec => []OnePlaceInv
<1>1. Init => OnePlaceInv
  <2> SUFFICES ASSUME Init PROVE OnePlaceInv
    OBVIOUS
  <2>1. /\ DOMAIN file0 = {} /\ DOMAIN file1 = {} /\ active = Empty /\ level1 = {}
        /\ \A c \in Compactors : job[c] = NoJob
    BY DEF Init
  <2> QED BY <2>1 DEF OnePlaceInv, L1Oldest, NoJob
<1>2. TypeOK /\ DurabilityInv /\ FilesInv /\ OnePlaceInv /\ [Next]_vars => OnePlaceInv'
  BY OnePlaceStep
<1>3. Spec => []TypeOK /\ []DurabilityInv /\ []FilesInv
  BY TypeCorrect, Durable, FilesCorrect DEF Disciplined
<1> QED BY <1>1, <1>2, <1>3, PTL DEF Spec

-----------------------------------------------------------------------------
(* What memory and disk hold of a key is the last record written under it. *)
LEMMA StoredIsLast ==
    ASSUME TypeOK, NoLostWrite, NEW k \in Keys
    PROVE  StoredKind(k) = LastKind(history, k)
<1> DEFINE at == {v \in Versions : history[v].key = k /\ Stored(v)}
<1>1. history \in Seq(Event) /\ Len(history) \in Nat
  BY DEF TypeOK
<1>2. CASE \E i \in 1 .. Len(history) : history[i].key = k
  <2>1. PICK m \in 1 .. Len(history) :
              /\ history[m].key = k
              /\ \A j \in 1 .. Len(history) : history[j].key = k => j <= m
              /\ LastKind(history, k) = history[m].kind
    BY <1>1, <1>2, LastOf
  <2>2. ~Superseded(m)
    BY <1>1, <2>1 DEF Superseded, Versions
  <2>3. m \in at /\ \A u \in at : u <= m
    BY <2>1, <2>2 DEF NoLostWrite, Versions
  <2>4. at \in SUBSET Nat
    BY <1>1 DEF Versions
  <2> HIDE DEF at
  <2>5. (CHOOSE v \in at : \A u \in at : u <= v) = m /\ at # {}
    BY <2>3, <2>4, ChooseLast
  <2> QED BY <2>1, <2>5 DEF StoredKind, at
<1>3. CASE ~\E i \in 1 .. Len(history) : history[i].key = k
  <2>1. at = {} /\ {i \in 1 .. Len(history) : history[i].key = k} = {}
    BY <1>3 DEF Versions
  <2> QED BY <2>1 DEF StoredKind, LastKind
<1> QED BY <1>2, <1>3

LEMMA AllStoredIsLast ==
    TypeOK /\ NoLostWrite => [k \in Keys |-> StoredKind(k)] = [k \in Keys |-> LastKind(history, k)]
BY StoredIsLast

-----------------------------------------------------------------------------
(* The abstract state. *)

AbstractStore == [k \in Keys |-> StoredKind(k)]

AbstractPhase == [w \in Writers |-> CASE wpc[w] = "idle" -> "none"
                                      [] wpc[w] \in {"log", "insert"} -> "begun"
                                      [] wpc[w] = "report" -> "applied"]

LEMMA InitRefines == Init => Abstract!Init
<1> SUFFICES ASSUME Init PROVE Abstract!Init
  OBVIOUS
<1>1. Versions = {} /\ ~Closed /\ 1 .. nextSeq - 1 = {}
  <2>1. history = <<>> /\ nextSeq = 1
    BY DEF Init
  <2>2. Closer \in Drainers
    BY DEF Drainers
  <2>3. fpc[Closer] = "open"
    BY <2>2 DEF Init
  <2> QED BY <2>1, <2>3 DEF Versions, Closed
<1>2. AbstractStore = [k \in Keys |-> "none"]
  BY <1>1 DEF AbstractStore, StoredKind
<1>3. AbstractPhase = [w \in Writers |-> "none"]
  BY DEF Init, AbstractPhase
<1>4. op = [w \in Writers |-> NoEvent]
  BY DEF Init
<1> QED BY <1>1, <1>2, <1>3, <1>4 DEF Abstract!Init, AbstractStore, AbstractPhase

(* A step that inserts nothing leaves the abstract store alone; an          *)
(* insertion changes it at one key.                                        *)
LEMMA StoreSteps ==
    ASSUME TypeOK, NoLostWrite, TypeOK', NoLostWrite'
    PROVE  /\ history' = history => AbstractStore' = AbstractStore
           /\ \A e \in Event : history' = Append(history, e) =>
                 AbstractStore' = [AbstractStore EXCEPT ![e.key] = e.kind]
<1>1. AbstractStore = [k \in Keys |-> LastKind(history, k)]
  BY AllStoredIsLast DEF AbstractStore
<1>2. AbstractStore' = [k \in Keys |-> LastKind(history', k)]
  <2>1. (TypeOK /\ NoLostWrite => AbstractStore = [k \in Keys |-> LastKind(history, k)])'
    BY AllStoredIsLast, PTL DEF AbstractStore
  <2> QED BY <2>1
<1>3. ASSUME NEW e \in Event, history' = Append(history, e)
      PROVE  AbstractStore' = [AbstractStore EXCEPT ![e.key] = e.kind]
  <2>1. history \in Seq(Event)
    BY DEF TypeOK
  <2>2. \A k \in Keys : LastKind(history', k) = IF k = e.key THEN e.kind ELSE LastKind(history, k)
    BY <1>3, <2>1, LastOfLonger
  <2> QED BY <1>1, <1>2, <2>2
<1> QED BY <1>1, <1>2, <1>3

(* A step that leaves every writer, and whether close() was called, alone. *)
LEMMA QuietRefines ==
    ASSUME TypeOK, NoLostWrite, TypeOK', NoLostWrite',
           UNCHANGED <<history, wpc, op, nextSeq>>, Closed' = Closed
    PROVE  UNCHANGED Abstract!vars
<1>1. AbstractStore' = AbstractStore
  BY StoreSteps
<1>2. AbstractPhase' = AbstractPhase
  BY DEF AbstractPhase
<1> QED BY <1>1, <1>2 DEF Abstract!vars, AbstractStore, AbstractPhase

LEMMA WriterRefines ==
    ASSUME TypeOK, NoLostWrite, TypeOK', NoLostWrite', NEW w \in Writers, WriterStep(w)
    PROVE  Abstract!Next \/ UNCHANGED Abstract!vars
<1>1. fpc' = fpc /\ Closed' = Closed
  BY DEF WriterStep, AppendBegin, RemoveBegin, Begin, Log, LogFails, Insert, Report,
         NullActive, drainVars, Closed
<1>2. wpc \in [Writers -> WriterStates] /\ op \in [Writers -> Event \cup {NoEvent}]
  BY DEF TypeOK
<1>3. history' = history => AbstractStore' = AbstractStore
  BY StoreSteps
<1>4. ASSUME NEW to \in WriterStates, wpc' = [wpc EXCEPT ![w] = to]
      PROVE  AbstractPhase' = [AbstractPhase EXCEPT ![w] =
                CASE to = "idle" -> "none" [] to \in {"log", "insert"} -> "begun"
                  [] to = "report" -> "applied"]
  BY <1>2, <1>4 DEF AbstractPhase, WriterStates
<1>5. ASSUME NEW s \in Symbols, AppendBegin(w, s)
      PROVE  Abstract!BeginAppend(w, <<s, nextSeq>>) /\ <<s, nextSeq>> \in Keys
  <2>1. /\ wpc[w] = "idle" /\ ~Closed /\ wpc' = [wpc EXCEPT ![w] = "log"]
        /\ op' = [op EXCEPT ![w] = [key |-> <<s, nextSeq>>, kind |-> "event"]]
        /\ nextSeq' = nextSeq + 1 /\ nextSeq <= MaxSeq /\ history' = history
    BY <1>5 DEF AppendBegin, Begin
  <2>2. nextSeq \in Nat /\ nextSeq # 0 /\ MaxSeq \in Nat
    BY NumbersAssumption DEF TypeOK
  <2>3. AbstractPhase[w] = "none" /\ AbstractPhase' = [AbstractPhase EXCEPT ![w] = "begun"]
    BY <1>4, <2>1 DEF AbstractPhase, WriterStates
  <2>4. /\ <<s, nextSeq>>[2] \notin 1 .. nextSeq - 1
        /\ 1 .. nextSeq' - 1 = (1 .. nextSeq - 1) \cup {<<s, nextSeq>>[2]}
        /\ <<s, nextSeq>> \in Keys
    BY <2>1, <2>2 DEF Keys
  <2>5. Abstract!Begin(w, [key |-> <<s, nextSeq>>, kind |-> "event"])
    BY <1>1, <1>3, <2>1, <2>3 DEF Abstract!Begin, AbstractStore, AbstractPhase
  <2> QED BY <2>4, <2>5 DEF Abstract!BeginAppend
<1>6. ASSUME NEW k \in Keys, RemoveBegin(w, k)
      PROVE  Abstract!BeginRemove(w, k)
  <2>1. /\ wpc[w] = "idle" /\ ~Closed /\ wpc' = [wpc EXCEPT ![w] = "log"]
        /\ op' = [op EXCEPT ![w] = [key |-> k, kind |-> "tombstone"]]
        /\ nextSeq' = nextSeq /\ history' = history
    BY <1>6 DEF RemoveBegin, Begin
  <2>2. AbstractPhase[w] = "none" /\ AbstractPhase' = [AbstractPhase EXCEPT ![w] = "begun"]
    BY <1>4, <2>1 DEF AbstractPhase, WriterStates
  <2>3. Abstract!Begin(w, [key |-> k, kind |-> "tombstone"])
    BY <1>1, <1>3, <2>1, <2>2 DEF Abstract!Begin, AbstractStore, AbstractPhase
  <2> QED BY <2>1, <2>3 DEF Abstract!BeginRemove
<1>7. CASE Log(w)
  <2>1. /\ wpc[w] = "log" /\ wpc' = [wpc EXCEPT ![w] = "insert"]
        /\ UNCHANGED <<op, nextSeq, history>>
    BY <1>7 DEF Log
  <2>2. AbstractPhase[w] = "begun" /\ AbstractPhase' = [AbstractPhase EXCEPT ![w] = "begun"]
    BY <1>4, <2>1 DEF AbstractPhase, WriterStates
  <2>3. AbstractPhase' = AbstractPhase
    <3>1. AbstractPhase \in [Writers -> {"none", "begun", "applied"}]
      BY <1>2 DEF AbstractPhase, WriterStates
    <3> QED BY <2>2, <3>1
  <2> QED BY <1>1, <1>3, <2>1, <2>3 DEF Abstract!vars, AbstractStore, AbstractPhase
<1>8. CASE LogFails(w)
  <2>1. /\ wpc[w] = "log" /\ Leave(w) /\ UNCHANGED <<nextSeq, history>>
    BY <1>8 DEF LogFails
  <2>2. AbstractPhase[w] = "begun" /\ AbstractPhase' = [AbstractPhase EXCEPT ![w] = "none"]
    BY <1>4, <2>1 DEF AbstractPhase, WriterStates, Leave
  <2>3. Abstract!Fail(w)
    BY <1>1, <1>3, <2>1, <2>2
    DEF Abstract!Fail, Abstract!Leave, Leave, AbstractStore, AbstractPhase
  <2> QED BY <2>3 DEF Abstract!Next
<1>9. CASE Insert(w)
  <2>1. /\ wpc[w] = "insert" /\ history' = Append(history, op[w]) /\ nextSeq' = nextSeq
        /\ \/ wpc' = [wpc EXCEPT ![w] = "report"] /\ op' = op
           \/ Leave(w)
    BY <1>9 DEF Insert
  <2>2. op[w] \in Event
    BY <2>1 DEF TypeOK
  <2>3. AbstractStore' = [AbstractStore EXCEPT ![op[w].key] = op[w].kind]
    BY <2>1, <2>2, StoreSteps
  <2>4. AbstractPhase[w] = "begun"
    BY <2>1 DEF AbstractPhase
  <2>5. \/ AbstractPhase' = [AbstractPhase EXCEPT ![w] = "applied"] /\ op' = op
        \/ /\ AbstractPhase' = [AbstractPhase EXCEPT ![w] = "none"]
           /\ op' = [op EXCEPT ![w] = NoEvent]
    BY <1>4, <2>1 DEF WriterStates, Leave
  <2>6. Abstract!Apply(w)
    BY <1>1, <2>1, <2>3, <2>4, <2>5
    DEF Abstract!Apply, Abstract!Leave, AbstractStore, AbstractPhase
  <2> QED BY <2>6 DEF Abstract!Next
<1>10. CASE Report(w)
  <2>1. /\ wpc[w] = "report" /\ Leave(w) /\ UNCHANGED <<nextSeq, history>>
    BY <1>10 DEF Report
  <2>2. AbstractPhase[w] = "applied" /\ AbstractPhase' = [AbstractPhase EXCEPT ![w] = "none"]
    BY <1>4, <2>1 DEF AbstractPhase, WriterStates, Leave
  <2>3. Abstract!Return(w)
    BY <1>1, <1>3, <2>1, <2>2
    DEF Abstract!Return, Abstract!Leave, Leave, AbstractStore, AbstractPhase
  <2> QED BY <2>3 DEF Abstract!Next
<1>11. CASE NullActive(w)
  BY <1>1, <1>11, QuietRefines DEF NullActive, writerVars
<1> QED BY <1>5, <1>6, <1>7, <1>8, <1>9, <1>10, <1>11 DEF WriterStep, Abstract!Next

LEMMA DrainerRefines ==
    ASSUME TypeOK, NoLostWrite, TypeOK', NoLostWrite', NEW d \in Drainers,
           Drain(d) \/ (d \in Flushers /\ (FlushLoop(d) \/ FlushNow(d)))
    PROVE  UNCHANGED Abstract!vars
<1>1. UNCHANGED <<history, wpc, op, nextSeq>>
  BY DEF Drain, FlushLoop, FlushPop, FlushWrite, FlushFails, FlushPublish, FlushDone,
         FlushCheck, FlushWake, FlushNow, writerVars
<1>2. fpc \in [Drainers -> DrainStates] /\ Closer \in Drainers
  BY DEF TypeOK, Drainers
<1>3. d \in Flushers => d # Closer
  BY ThreadsAssumption
<1>4. fpc'[d] = "open" <=> fpc[d] = "open"
  BY <1>2 DEF Drain, FlushLoop, FlushPop, FlushWrite, FlushFails, FlushPublish, FlushDone,
              FlushCheck, FlushWake, FlushNow, FlushStep
<1>5. \A e \in Drainers \ {d} : fpc'[e] = fpc[e]
  BY <1>2 DEF Drain, FlushLoop, FlushPop, FlushWrite, FlushFails, FlushPublish, FlushDone,
              FlushCheck, FlushWake, FlushNow, FlushStep
<1>6. Closed' = Closed
  BY <1>2, <1>4, <1>5 DEF Closed
<1> QED BY <1>1, <1>6, QuietRefines

LEMMA CompactorRefines ==
    ASSUME TypeOK, NoLostWrite, TypeOK', NoLostWrite', NEW c \in Compactors,
           Merge(c) \/ CompactLoop(c) \/ CompactNow(c)
    PROVE  UNCHANGED Abstract!vars
<1>1. UNCHANGED <<history, wpc, op, nextSeq, fpc>>
  BY DEF Merge, CompactLoop, CompactSnapshot, CompactRun, CompactThrows, CompactFails,
         CompactDelete, CompactDeleteFails, CompactPublish, CompactCheck, CompactWake,
         CompactNow, writerVars, drainVars
<1> QED BY <1>1, QuietRefines DEF Closed

LEMMA CloserRefines ==
    ASSUME TypeOK, NoLostWrite, TypeOK', NoLostWrite', CloseBegin \/ CloseStep
    PROVE  Abstract!Next \/ UNCHANGED Abstract!vars
<1>1. UNCHANGED <<history, wpc, op, nextSeq>>
  BY DEF CloseBegin, CloseStep, CloseJoinFlusher, CloseJoinCompactor, CloseRotate, writerVars
<1>2. fpc \in [Drainers -> DrainStates] /\ Closer \in Drainers
  BY DEF TypeOK, Drainers
<1>3. CASE CloseBegin
  <2>1. ~Closed /\ Closed'
    BY <1>2, <1>3 DEF CloseBegin, FlushStep, Closed
  <2>2. AbstractStore' = AbstractStore /\ AbstractPhase' = AbstractPhase
    BY <1>1, StoreSteps DEF AbstractPhase
  <2>3. Abstract!Close
    BY <1>1, <2>1, <2>2 DEF Abstract!Close, AbstractStore, AbstractPhase
  <2> QED BY <2>3 DEF Abstract!Next
<1>4. CASE CloseStep
  <2>1. Closed' = Closed
    BY <1>2, <1>4 DEF CloseStep, CloseJoinFlusher, CloseJoinCompactor, CloseRotate,
                      FlushStep, Closed
  <2> QED BY <1>1, <2>1, QuietRefines
<1> QED BY <1>3, <1>4

LEMMA NextRefines ==
    ASSUME TypeOK, NoLostWrite, TypeOK', NoLostWrite', [Next]_vars
    PROVE  [Abstract!Next]_(Abstract!vars)
<1>1. ASSUME NEW w \in Writers, WriterStep(w)
      PROVE  Abstract!Next \/ UNCHANGED Abstract!vars
  BY <1>1, WriterRefines
<1>2. ASSUME NEW d \in Drainers, Drain(d) PROVE UNCHANGED Abstract!vars
  BY <1>2, DrainerRefines
<1>3. ASSUME NEW f \in Flushers, FlushLoop(f) \/ FlushNow(f) PROVE UNCHANGED Abstract!vars
  <2>1. f \in Drainers
    BY DEF Drainers
  <2> QED BY <1>3, <2>1, DrainerRefines
<1>4. ASSUME NEW c \in Compactors, Merge(c) \/ CompactLoop(c) \/ CompactNow(c)
      PROVE  UNCHANGED Abstract!vars
  BY <1>4, CompactorRefines
<1>5. CASE CloseBegin \/ CloseStep
  BY <1>5, CloserRefines
<1>6. CASE UNCHANGED vars
  <2>1. UNCHANGED <<history, wpc, op, nextSeq>> /\ Closed' = Closed
    BY <1>6 DEF vars, writerVars, drainVars, Closed
  <2> QED BY <2>1, QuietRefines
<1> QED BY <1>1, <1>2, <1>3, <1>4, <1>5, <1>6 DEF Next

(* Behind append(), remove() and close() there is a table of the last       *)
(* record of each key, which every write changes once, between its call    *)
(* and its return, and which no flush, compaction or close changes         *)
(* (db.cpp:92-233, 404-507).                                               *)
THEOREM Implements == ASSUME Disciplined PROVE Spec => ImplementsEventStore
<1>1. TypeOK /\ NoLostWrite /\ (TypeOK /\ NoLostWrite)' /\ [Next]_vars
        => [Abstract!Next]_(Abstract!vars)
  BY NextRefines
<1>2. Spec => [](TypeOK /\ NoLostWrite)
  BY TypeCorrect, NothingLost, PTL
<1> QED BY <1>1, <1>2, InitRefines, PTL DEF Spec, ImplementsEventStore, Abstract!Spec

-----------------------------------------------------------------------------
(* The instance opened again.  Numbers start again beside the files of the  *)
(* earlier run, so that most of the above is true of one run only; what    *)
(* follows rests on the log alone, which nothing shortens.                 *)
ReopenTypes ==
    /\ history \in Seq(Event) /\ wal \in Seq(Event)
    /\ torn \in BOOLEAN /\ hidden \subseteq Event
    /\ nextSeq \in 1 .. MaxSeq + 1
    /\ wpc \in [Writers -> WriterStates]
    /\ op \in [Writers -> Event \cup {NoEvent}]
    /\ \A w \in Writers : wpc[w] # "idle" => op[w] \in Event

EventOf(k)     == [key |-> k, kind |-> "event"]
TombstoneOf(k) == [key |-> k, kind |-> "tombstone"]

LEMMA RecordIsOne ==
    ASSUME NEW e \in Event
    PROVE  /\ e.key \in Keys /\ e.key[2] \in 1 .. MaxSeq
           /\ e.kind = "event" => e = EventOf(e.key)
           /\ e.kind # "event" => e.kind = "tombstone" /\ e = TombstoneOf(e.key)
BY DEF Event, Keys, Kinds, EventOf, TombstoneOf

LEMMA RecsOf ==
    ASSUME NEW records \in Seq(Event)
    PROVE  /\ Recs(records) \subseteq Event
           /\ \A i \in 1 .. Len(records) : records[i] \in Recs(records)
           /\ \A e \in Recs(records) : \E i \in 1 .. Len(records) : records[i] = e
BY DEF Recs

(* What a step of a run does to the log and the records.                   *)
logVars == <<wal, torn, hidden>>

QuietStep == UNCHANGED <<logVars, history, nextSeq, wpc, op>>

BeginsWith(w, e) ==
    /\ UNCHANGED <<logVars, history>> /\ wpc[w] = "idle"
    /\ wpc' = [wpc EXCEPT ![w] = "log"] /\ op' = [op EXCEPT ![w] = e]
    /\ \/ e.kind = "event" /\ e.key[2] = nextSeq /\ nextSeq <= MaxSeq /\ nextSeq' = nextSeq + 1
       \/ /\ e.kind = "tombstone" /\ UNCHANGED nextSeq
          /\ ~BlindRemove => EventOf(e.key) \in Recs(history)

LogsIt(w) ==
    /\ wpc[w] = "log"
    /\ IF WalEnabled THEN WriteRecord(op[w]) ELSE UNCHANGED logVars
    /\ wpc' = [wpc EXCEPT ![w] = "insert"] /\ UNCHANGED <<op, history, nextSeq>>

InsertsIt(w) ==
    /\ wpc[w] = "insert" /\ history' = Append(history, op[w])
    /\ \/ wpc' = [wpc EXCEPT ![w] = "report"] /\ UNCHANGED op
       \/ wpc' = [wpc EXCEPT ![w] = "idle"] /\ op' = [op EXCEPT ![w] = NoEvent]
    /\ UNCHANGED <<logVars, nextSeq>>

EndsIt(w) ==
    /\ wpc[w] \in {"log", "report"}
    /\ wpc' = [wpc EXCEPT ![w] = "idle"] /\ op' = [op EXCEPT ![w] = NoEvent]
    /\ UNCHANGED <<history, nextSeq>>
    /\ \/ UNCHANGED logVars
       \/ DiskFaults /\ torn' = TRUE /\ UNCHANGED <<wal, hidden>>
       \/ DiskFaults /\ wpc[w] = "log" /\ WriteRecord(op[w])

LEMMA NextSteps ==
    ASSUME ReopenTypes, Next
    PROVE  \/ QuietStep
           \/ \E w \in Writers : \/ \E e \in Event : BeginsWith(w, e)
                                 \/ LogsIt(w) \/ InsertsIt(w) \/ EndsIt(w)
<1>1. ASSUME NEW w \in Writers, WriterStep(w)
      PROVE  \/ QuietStep
             \/ \E e \in Event : BeginsWith(w, e)
             \/ LogsIt(w) \/ InsertsIt(w) \/ EndsIt(w)
  <2>1. ASSUME NEW s \in Symbols, AppendBegin(w, s) PROVE \E e \in Event : BeginsWith(w, e)
    <3> DEFINE e == [key |-> <<s, nextSeq>>, kind |-> "event"]
    <3>1. e \in Event /\ e.kind = "event" /\ e.key[2] = nextSeq
      BY <2>1, NumbersAssumption DEF AppendBegin, ReopenTypes, Event, Keys, Kinds
    <3>2. BeginsWith(w, e)
      BY <2>1, <3>1 DEF AppendBegin, Begin, BeginsWith, logVars
    <3> QED BY <3>1, <3>2
  <2>2. ASSUME NEW k \in Keys, RemoveBegin(w, k) PROVE \E e \in Event : BeginsWith(w, e)
    <3>1. TombstoneOf(k) \in Event /\ TombstoneOf(k).kind = "tombstone" /\ TombstoneOf(k).key = k
      BY DEF TombstoneOf, Event, Kinds
    <3>2. ~BlindRemove => EventOf(k) \in Recs(history)
      BY <2>2 DEF RemoveBegin, Inserted, Recs, EventOf
    <3>3. BeginsWith(w, TombstoneOf(k))
      BY <2>2, <3>1, <3>2 DEF RemoveBegin, Begin, BeginsWith, TombstoneOf, logVars
    <3> QED BY <3>1, <3>3
  <2>3. CASE Log(w)
    BY <2>3 DEF Log, LogsIt, logVars
  <2>4. CASE LogFails(w) \/ Report(w)
    BY <2>4 DEF LogFails, Report, Leave, EndsIt, logVars
  <2>5. CASE Insert(w)
    BY <2>5 DEF Insert, Leave, InsertsIt, logVars
  <2>6. CASE NullActive(w)
    BY <2>6 DEF NullActive, writerVars, logVars, QuietStep
  <2> QED BY <1>1, <2>1, <2>2, <2>3, <2>4, <2>5, <2>6 DEF WriterStep
<1>2. CASE \/ \E d \in Drainers : Drain(d)
           \/ \E f \in Flushers : FlushLoop(f) \/ FlushNow(f)
  BY <1>2 DEF Drain, FlushLoop, FlushPop, FlushWrite, FlushFails, FlushPublish,
     FlushDone, FlushCheck, FlushWake, FlushNow, writerVars, logVars, QuietStep
<1>3. CASE \E c \in Compactors : Merge(c) \/ CompactLoop(c) \/ CompactNow(c)
  BY <1>3 DEF Merge, CompactLoop, CompactSnapshot, CompactRun, CompactThrows,
     CompactFails, CompactDelete, CompactDeleteFails, CompactPublish, CompactCheck, CompactWake, CompactNow,
     writerVars, logVars, QuietStep
<1>4. CASE CloseBegin \/ CloseStep
  BY <1>4 DEF CloseBegin, CloseStep, CloseJoinFlusher, CloseJoinCompactor, CloseRotate,
     writerVars, logVars, QuietStep
<1> QED BY <1>1, <1>2, <1>3, <1>4 DEF Next

(* Nor does a flush over a file, or a merge beside one, touch either.      *)
LEMMA BesideQuiet ==
    ASSUME Beside
    PROVE  QuietStep
BY DEF Beside, Truncate, Rewrite, CompactMixed, CompactBaffled, CompactWakeDoubled,
       writerVars, logVars, QuietStep

LEMMA RunSteps ==
    ASSUME ReopenTypes, Run
    PROVE  \/ QuietStep
           \/ \E w \in Writers : \/ \E e \in Event : BeginsWith(w, e)
                                 \/ LogsIt(w) \/ InsertsIt(w) \/ EndsIt(w)
BY NextSteps, BesideQuiet DEF Run

LEMMA ReopenStutter == UNCHANGED <<vars, reopenVars>> => QuietStep /\ UNCHANGED behind
BY DEF vars, writerVars, logVars, reopenVars, QuietStep

(* A record written to the log is in it, whether a reader gets it or not.  *)
LEMMA RecordWritten ==
    ASSUME ReopenTypes, NEW e \in Event, WriteRecord(e)
    PROVE  /\ wal' \in Seq(Event) /\ torn' \in BOOLEAN /\ hidden' \subseteq Event
           /\ InLog' = InLog \cup {e}
<1>1. torn' \in BOOLEAN
  BY DEF WriteRecord, ReopenTypes
<1>2. CASE torn
  BY <1>1, <1>2 DEF WriteRecord, ReopenTypes, InLog
<1>3. CASE ~torn
  <2>1. wal' = Append(wal, e) /\ hidden' = hidden /\ wal \in Seq(Event)
    BY <1>3 DEF WriteRecord, ReopenTypes
  <2>2. Recs(wal') = Recs(wal) \cup {e} /\ wal' \in Seq(Event)
    BY <2>1, RecsAppend
  <2>3. InLog = Recs(wal) \cup hidden /\ InLog' = Recs(wal') \cup hidden'
    BY DEF InLog, Recs
  <2> QED BY <1>1, <2>1, <2>2, <2>3 DEF ReopenTypes
<1> QED BY <1>2, <1>3

(* A sequence after another.                                               *)
LEMMA ConcatOf ==
    ASSUME NEW a \in Seq(Event), NEW b \in Seq(Event)
    PROVE  /\ a \o b \in Seq(Event) /\ Len(a \o b) = Len(a) + Len(b)
           /\ \A i \in 1 .. Len(a) : (a \o b)[i] = a[i]
           /\ \A i \in 1 .. Len(b) : Len(a) + i \in 1 .. Len(a) + Len(b) /\ (a \o b)[Len(a) + i] = b[i]
           /\ \A j \in 1 .. Len(a) + Len(b) :
                 j \in 1 .. Len(a) \/ (j - Len(a) \in 1 .. Len(b) /\ j = Len(a) + (j - Len(a)))
           /\ Recs(a \o b) = Recs(a) \cup Recs(b)
<1> DEFINE c == a \o b
<1>1. /\ c \in Seq(Event) /\ Len(c) = Len(a) + Len(b) /\ Len(a) \in Nat /\ Len(b) \in Nat
      /\ \A i \in 1 .. Len(a) : c[i] = a[i]
  OBVIOUS
<1>2. \A i \in 1 .. Len(b) : Len(a) + i \in 1 .. Len(a) + Len(b) /\ c[Len(a) + i] = b[i]
  OBVIOUS
<1> HIDE DEF c
<1>3. \A j \in 1 .. Len(a) + Len(b) :
         j \in 1 .. Len(a) \/ (j - Len(a) \in 1 .. Len(b) /\ j = Len(a) + (j - Len(a)))
  BY <1>1
<1>4. Recs(c) \subseteq Recs(a) \cup Recs(b)
  <2> SUFFICES ASSUME NEW j \in 1 .. Len(a) + Len(b) PROVE c[j] \in Recs(a) \cup Recs(b)
    BY <1>1 DEF Recs
  <2>1. CASE j \in 1 .. Len(a)
    BY <1>1, <2>1 DEF Recs
  <2>2. CASE j - Len(a) \in 1 .. Len(b) /\ j = Len(a) + (j - Len(a))
    <3>1. c[j] = b[j - Len(a)]
      BY <1>2, <2>2
    <3> QED BY <2>2, <3>1 DEF Recs
  <2> QED BY <1>3, <2>1, <2>2
<1>5. Recs(a) \subseteq Recs(c)
  <2>1. \A i \in 1 .. Len(a) : i \in 1 .. Len(a) + Len(b)
    BY <1>1
  <2> QED BY <1>1, <2>1 DEF Recs
<1>6. Recs(b) \subseteq Recs(c)
  BY <1>1, <1>2 DEF Recs
<1> QED BY <1>1, <1>2, <1>3, <1>4, <1>5, <1>6 DEF c

LEMMA ReopenTypesStep ==
    ASSUME ReopenTypes, Run \/ Restart
    PROVE  ReopenTypes'
<1>1. CASE Restart
  <2>1. /\ history' = history \o wal /\ wal' = wal /\ nextSeq' = FirstId
        /\ torn' = FALSE /\ hidden' = hidden
        /\ wpc' = [w \in Writers |-> "idle"] /\ op' = [w \in Writers |-> NoEvent]
    BY <1>1 DEF Restart
  <2>2. history' \in Seq(Event) /\ wal' \in Seq(Event)
    BY <2>1, ConcatOf DEF ReopenTypes
  <2>3. FirstId \in 1 .. MaxSeq + 1
    <3>1. CASE wal = <<>>
      BY <3>1, NumbersAssumption DEF FirstId
    <3>2. CASE wal # <<>>
      <4>1. Len(wal) \in 1 .. Len(wal)
        BY <3>2 DEF ReopenTypes
      <4>2. Last(wal) \in Event
        BY <4>1 DEF ReopenTypes, Last
      <4>3. Last(wal).key[2] \in 1 .. MaxSeq
        BY <4>2, RecordIsOne
      <4> QED BY <3>2, <4>3, NumbersAssumption DEF FirstId
    <3> QED BY <3>1, <3>2
  <2> QED BY <2>1, <2>2, <2>3 DEF ReopenTypes, WriterStates
<1>2. CASE QuietStep
  BY <1>2 DEF QuietStep, logVars, ReopenTypes
<1>3. ASSUME NEW w \in Writers, NEW e \in Event, BeginsWith(w, e) PROVE ReopenTypes'
  <2>1. nextSeq' \in 1 .. MaxSeq + 1
    BY <1>3, NumbersAssumption DEF BeginsWith, ReopenTypes
  <2> QED BY <1>3, <2>1 DEF BeginsWith, logVars, ReopenTypes, WriterStates
<1>4. ASSUME NEW w \in Writers, LogsIt(w) PROVE ReopenTypes'
  <2>1. op[w] \in Event
    BY <1>4 DEF LogsIt, ReopenTypes
  <2>2. wal' \in Seq(Event) /\ torn' \in BOOLEAN /\ hidden' \subseteq Event
    <3>1. CASE WriteRecord(op[w])
      BY <2>1, <3>1, RecordWritten
    <3>2. CASE UNCHANGED logVars
      BY <3>2 DEF logVars, ReopenTypes
    <3> QED BY <1>4, <3>1, <3>2 DEF LogsIt
  <2> QED BY <1>4, <2>1, <2>2 DEF LogsIt, ReopenTypes, WriterStates
<1>5. ASSUME NEW w \in Writers, InsertsIt(w) PROVE ReopenTypes'
  <2>1. op[w] \in Event
    BY <1>5 DEF InsertsIt, ReopenTypes
  <2> QED BY <1>5, <2>1 DEF InsertsIt, logVars, ReopenTypes, WriterStates
<1>6. ASSUME NEW w \in Writers, EndsIt(w) PROVE ReopenTypes'
  <2>1. op[w] \in Event
    BY <1>6 DEF EndsIt, ReopenTypes
  <2>2. wal' \in Seq(Event) /\ torn' \in BOOLEAN /\ hidden' \subseteq Event
    <3>1. CASE UNCHANGED logVars
      BY <3>1 DEF logVars, ReopenTypes
    <3>2. CASE torn' = TRUE /\ UNCHANGED <<wal, hidden>>
      BY <3>2 DEF ReopenTypes
    <3>3. CASE WriteRecord(op[w])
      BY <2>1, <3>3, RecordWritten
    <3> QED BY <1>6, <3>1, <3>2, <3>3 DEF EndsIt
  <2> QED BY <1>6, <2>1, <2>2 DEF EndsIt, ReopenTypes, WriterStates
<1> QED BY <1>1, <1>2, <1>3, <1>4, <1>5, <1>6, RunSteps

(* Whatever was inserted, by this run or an earlier one, was written to the *)
(* log.                                                                    *)
WrittenInv ==
    /\ Recs(history) \subseteq InLog
    /\ \A w \in Writers : wpc[w] = "insert" => op[w] \in InLog

(* What a step does to the records that were written to the log.           *)
LEMMA InLogSteps ==
    ASSUME ReopenTypes
    PROVE  /\ UNCHANGED <<wal, hidden>> => InLog' = InLog
           /\ \A w \in Writers : LogsIt(w) /\ WalEnabled => InLog' = InLog \cup {op[w]}
           /\ \A w \in Writers : EndsIt(w) =>
                 InLog' = InLog \/ (wpc[w] = "log" /\ InLog' = InLog \cup {op[w]})
<1>1. UNCHANGED <<wal, hidden>> => InLog' = InLog
  BY DEF InLog
<1>2. ASSUME NEW w \in Writers, LogsIt(w), WalEnabled PROVE InLog' = InLog \cup {op[w]}
  <2>1. op[w] \in Event /\ WriteRecord(op[w])
    BY <1>2 DEF LogsIt, ReopenTypes
  <2> QED BY <2>1, RecordWritten
<1>3. ASSUME NEW w \in Writers, EndsIt(w)
      PROVE  InLog' = InLog \/ (wpc[w] = "log" /\ InLog' = InLog \cup {op[w]})
  <2>1. op[w] \in Event
    BY <1>3 DEF EndsIt, ReopenTypes
  <2>2. CASE UNCHANGED <<wal, hidden>>
    BY <1>1, <2>2
  <2>3. CASE wpc[w] = "log" /\ WriteRecord(op[w])
    BY <2>1, <2>3, RecordWritten
  <2> QED BY <1>3, <2>2, <2>3 DEF EndsIt, logVars
<1> QED BY <1>1, <1>2, <1>3

LEMMA WrittenStep ==
    ASSUME WalEnabled, ReopenTypes, WrittenInv, Run \/ Restart
    PROVE  WrittenInv'
<1>0. history \in Seq(Event) /\ wal \in Seq(Event)
  BY DEF ReopenTypes
<1>1. CASE Restart
  <2>1. /\ history' = history \o wal /\ UNCHANGED <<wal, hidden>>
        /\ wpc' = [w \in Writers |-> "idle"]
    BY <1>1 DEF Restart
  <2>2. Recs(history') = Recs(history) \cup Recs(wal)
    BY <1>0, <2>1, ConcatOf
  <2>3. InLog' = InLog /\ Recs(wal) \subseteq InLog
    BY <2>1 DEF InLog, Recs
  <2> QED BY <2>1, <2>2, <2>3 DEF WrittenInv
<1>2. CASE QuietStep
  <2>1. InLog' = InLog
    BY <1>2, InLogSteps DEF QuietStep, logVars
  <2> QED BY <1>2, <2>1 DEF QuietStep, WrittenInv
<1>3. ASSUME NEW w \in Writers, NEW e \in Event, BeginsWith(w, e) PROVE WrittenInv'
  <2>1. InLog' = InLog
    BY <1>3, InLogSteps DEF BeginsWith, logVars
  <2> QED BY <1>3, <2>1 DEF BeginsWith, ReopenTypes, WrittenInv
<1>4. ASSUME NEW w \in Writers, LogsIt(w) PROVE WrittenInv'
  <2>1. InLog' = InLog \cup {op[w]}
    BY <1>4, InLogSteps
  <2> QED BY <1>4, <2>1 DEF LogsIt, ReopenTypes, WrittenInv
<1>5. ASSUME NEW w \in Writers, InsertsIt(w) PROVE WrittenInv'
  <2>1. Recs(history') = Recs(history) \cup {op[w]}
    BY <1>0, <1>5, RecsAppend DEF InsertsIt, ReopenTypes
  <2>2. InLog' = InLog
    BY <1>5, InLogSteps DEF InsertsIt, logVars
  <2> QED BY <1>5, <2>1, <2>2 DEF InsertsIt, ReopenTypes, WrittenInv
<1>6. ASSUME NEW w \in Writers, EndsIt(w) PROVE WrittenInv'
  <2>1. InLog \subseteq InLog'
    BY <1>6, InLogSteps
  <2> QED BY <1>6, <2>1 DEF EndsIt, ReopenTypes, WrittenInv
<1> QED BY <1>1, <1>2, <1>3, <1>4, <1>5, <1>6, RunSteps

(* Ids are below the next one, those of calls in progress too, unless the  *)
(* log had a larger id than its last when the instance was opened; an      *)
(* event that is being written has an id of this run in any case.          *)
IdsInv ==
    /\ \A w \in InFlight : op[w].kind = "event" => op[w].key[2] < nextSeq
    /\ ~behind => /\ \A e \in InLog : e.key[2] < nextSeq
                  /\ \A w \in InFlight : op[w].key[2] < nextSeq

LEMMA IdsStep ==
    ASSUME WalEnabled, ~BlindRemove, ReopenTypes, WrittenInv, IdsInv,
           Run \/ Restart \/ UNCHANGED <<vars, reopenVars>>
    PROVE  IdsInv'
<1>0. /\ InLog \subseteq Event /\ \A e \in InLog : e.key[2] \in 1 .. MaxSeq
      /\ nextSeq \in Nat /\ MaxSeq \in Nat
      /\ \A w \in InFlight : op[w] \in Event /\ op[w].key[2] \in 1 .. MaxSeq
  <2>1. InLog \subseteq Event
    BY DEF ReopenTypes, InLog
  <2>2. \A w \in InFlight : op[w] \in Event
    BY DEF ReopenTypes, InFlight
  <2> QED BY <2>1, <2>2, RecordIsOne, NumbersAssumption DEF ReopenTypes
<1>1. CASE Restart
  <2>1. /\ nextSeq' = FirstId /\ wpc' = [w \in Writers |-> "idle"] /\ InLog' = InLog
        /\ behind' = \E e \in InLog : wal = <<>> \/ e.key[2] > Last(wal).key[2]
    BY <1>1, InLogSteps DEF Restart
  <2>2. InFlight' = {}
    BY <2>1 DEF InFlight
  <2>3. FirstId \in Nat
    BY <1>1, <2>1, ReopenTypesStep, NumbersAssumption DEF ReopenTypes
  <2>4. ASSUME ~behind', NEW e \in InLog PROVE e.key[2] < FirstId
    <3>1. wal # <<>> /\ ~(e.key[2] > Last(wal).key[2])
      BY <2>1, <2>4
    <3>2. FirstId = Last(wal).key[2] + 1
      BY <3>1 DEF FirstId
    <3>3. e.key[2] \in Nat /\ Last(wal).key[2] \in Nat
      <4>1. Len(wal) \in 1 .. Len(wal)
        BY <3>1 DEF ReopenTypes
      <4>2. Last(wal) \in Event
        BY <4>1 DEF ReopenTypes, Last
      <4> QED BY <1>0, <2>4, <4>2, RecordIsOne
    <3> QED BY <3>1, <3>2, <3>3
  <2> QED BY <2>1, <2>2, <2>4 DEF IdsInv
<1>2. CASE QuietStep /\ UNCHANGED behind
  <2>1. InLog' = InLog /\ InFlight' = InFlight
    BY <1>2, InLogSteps DEF QuietStep, logVars, InFlight
  <2> QED BY <1>2, <2>1 DEF QuietStep, IdsInv
<1>3. ASSUME Run, NEW w \in Writers, NEW e \in Event, BeginsWith(w, e) PROVE IdsInv'
  <2>1. /\ InFlight' = InFlight \cup {w} /\ behind' = behind /\ InLog' = InLog
        /\ \A u \in InFlight : op'[u] = op[u]
        /\ op'[w] = e
    <3>1. InLog' = InLog
      BY <1>3, InLogSteps DEF BeginsWith, logVars
    <3> QED BY <1>3, <3>1 DEF BeginsWith, InFlight, ReopenTypes, Run
  <2>2. nextSeq \in Nat /\ nextSeq' \in Nat /\ nextSeq <= nextSeq'
    BY <1>0, <1>3 DEF BeginsWith
  <2>3. CASE e.kind = "event" /\ e.key[2] = nextSeq /\ nextSeq' = nextSeq + 1
    BY <1>0, <2>1, <2>2, <2>3 DEF IdsInv
  <2>4. CASE e.kind = "tombstone" /\ UNCHANGED nextSeq /\ EventOf(e.key) \in Recs(history)
    <3>1. EventOf(e.key) \in InLog /\ EventOf(e.key).key = e.key
      BY <2>4 DEF WrittenInv, EventOf
    <3>2. ~behind => e.key[2] < nextSeq
      BY <3>1 DEF IdsInv
    <3> QED BY <2>1, <2>4, <3>2 DEF IdsInv
  <2> QED BY <1>3, <2>3, <2>4 DEF BeginsWith
<1>4. ASSUME Run, NEW w \in Writers, LogsIt(w) PROVE IdsInv'
  <2>1. InFlight' = InFlight /\ w \in InFlight /\ behind' = behind /\ UNCHANGED <<op, nextSeq>>
    BY <1>4 DEF LogsIt, InFlight, ReopenTypes, Run
  <2>2. InLog' = InLog \cup {op[w]}
    BY <1>4, InLogSteps
  <2> QED BY <2>1, <2>2 DEF IdsInv
<1>5. ASSUME Run, NEW w \in Writers, InsertsIt(w) PROVE IdsInv'
  <2>1. /\ InFlight' = InFlight \ {w} /\ behind' = behind /\ UNCHANGED nextSeq
        /\ \A u \in InFlight' : op'[u] = op[u]
    BY <1>5 DEF InsertsIt, InFlight, ReopenTypes, Run
  <2>2. InLog' = InLog
    BY <1>5, InLogSteps DEF InsertsIt, logVars
  <2> QED BY <2>1, <2>2 DEF IdsInv
<1>6. ASSUME Run, NEW w \in Writers, EndsIt(w) PROVE IdsInv'
  <2>1. /\ InFlight' = InFlight \ {w} /\ behind' = behind /\ UNCHANGED nextSeq
        /\ \A u \in InFlight' : op'[u] = op[u]
    BY <1>6 DEF EndsIt, InFlight, ReopenTypes, Run
  <2>2. InLog' = InLog \/ (w \in InFlight /\ InLog' = InLog \cup {op[w]})
    BY <1>6, InLogSteps DEF InFlight
  <2> QED BY <2>1, <2>2 DEF IdsInv
<1>7. Run => UNCHANGED behind
  BY DEF Run
<1> QED BY <1>1, <1>2, <1>3, <1>4, <1>5, <1>6, <1>7, RunSteps, ReopenStutter

LEMMA Reopened ==
    ASSUME WalEnabled PROVE RestartSpec => [](ReopenTypes /\ WrittenInv)
<1>1. RestartInit => ReopenTypes /\ WrittenInv
  <2> SUFFICES ASSUME RestartInit PROVE ReopenTypes /\ WrittenInv
    OBVIOUS
  <2>1. Recs(history) = {} /\ <<>> \in Seq(Event) /\ 1 \in 1 .. MaxSeq + 1
    BY NumbersAssumption DEF RestartInit, Init, Recs
  <2>2. torn \in BOOLEAN
    BY DEF RestartInit, Init
  <2> QED BY <2>1, <2>2 DEF RestartInit, Init, ReopenTypes, WrittenInv, WriterStates
<1>2. ReopenTypes /\ WrittenInv /\ [RestartNext]_<<vars, reopenVars>>
      => (ReopenTypes /\ WrittenInv)'
  <2>1. UNCHANGED <<vars, reopenVars>> /\ ReopenTypes /\ WrittenInv
        => (ReopenTypes /\ WrittenInv)'
    BY DEF vars, writerVars, ReopenTypes, WrittenInv, InLog
  <2> QED BY <2>1, ReopenTypesStep, WrittenStep DEF RestartNext
<1> QED BY <1>1, <1>2, PTL DEF RestartSpec

(* While the log had, at the last restart, no larger id than its last, no   *)
(* id of a record that is in the tree is issued again, whatever writes to  *)
(* the log have failed (db.cpp:71, 153).                                   *)
THEOREM FreshIds ==
    ASSUME WalEnabled, ~BlindRemove PROVE RestartSpec => []IdsFresh
<1>1. RestartInit => IdsInv
  <2> SUFFICES ASSUME RestartInit PROVE IdsInv
    OBVIOUS
  <2>1. InLog = {} /\ InFlight = {}
    BY DEF RestartInit, Init, InLog, InFlight
  <2> QED BY <2>1 DEF IdsInv
<1>2. ReopenTypes /\ WrittenInv /\ IdsInv /\ [RestartNext]_<<vars, reopenVars>> => IdsInv'
  BY IdsStep DEF RestartNext
<1>3. ReopenTypes /\ WrittenInv /\ IdsInv => IdsFresh
  <2> SUFFICES ASSUME ReopenTypes, WrittenInv, IdsInv, ~behind, NEW v \in Versions
               PROVE  history[v].key[2] < nextSeq
    BY DEF IdsFresh
  <2>1. history[v] \in Recs(history)
    BY DEF Recs, Versions
  <2> QED BY <2>1 DEF WrittenInv, IdsInv
<1> QED BY <1>1, <1>2, <1>3, Reopened, PTL DEF RestartSpec

(* While no write fails, a reader of the log gets all of it.               *)
WholeLog == ~torn /\ hidden = {}

LoggedInv ==
    /\ Recs(history) \subseteq Recs(wal)
    /\ \A w \in Writers : wpc[w] = "insert" => op[w] \in Recs(wal)

LEMMA WholeLogged == WholeLog /\ WrittenInv => LoggedInv
BY DEF WholeLog, WrittenInv, LoggedInv, InLog, Recs

LEMMA WholeStep ==
    ASSUME ~DiskFaults, ReopenTypes, WholeLog, Run \/ Restart
    PROVE  WholeLog'
<1>1. CASE Restart
  BY <1>1 DEF Restart, WholeLog
<1>2. CASE UNCHANGED <<torn, hidden>>
  BY <1>2 DEF WholeLog
<1>3. ASSUME NEW w \in Writers, WriteRecord(op[w]) PROVE WholeLog'
  <2>1. ~torn /\ torn' \in {FALSE, torn}
    BY <1>3 DEF WriteRecord, WholeLog
  <2>2. ~torn'
    BY <2>1, Zenon
  <2>3. hidden' = {}
    BY <1>3, <2>1 DEF WriteRecord, WholeLog
  <2> QED BY <2>2, <2>3 DEF WholeLog
<1>4. QuietStep => UNCHANGED <<torn, hidden>>
  BY DEF QuietStep, logVars
<1>5. ASSUME NEW w \in Writers,
             (\E e \in Event : BeginsWith(w, e)) \/ LogsIt(w) \/ InsertsIt(w) \/ EndsIt(w)
      PROVE  WriteRecord(op[w]) \/ UNCHANGED <<torn, hidden>>
  BY <1>5 DEF BeginsWith, LogsIt, InsertsIt, EndsIt, logVars
<1> QED BY <1>1, <1>2, <1>3, <1>4, <1>5, RunSteps

(* What makes opening again harmless.  What is in the log and not inserted  *)
(* is about to be; a tombstone, logged or about to be, has its event in    *)
(* the log; two events being written have different keys; ...              *)
LogSettles ==
    /\ \A e \in Recs(wal) \ Recs(history) : \E w \in InFlight : wpc[w] = "insert" /\ op[w] = e
    /\ \A e \in Recs(wal) : e.kind = "tombstone" => EventOf(e.key) \in Recs(wal)
    /\ \A w \in InFlight : op[w].kind = "tombstone" => EventOf(op[w].key) \in Recs(wal)
    /\ \A u, w \in InFlight :
          u # w /\ op[u].kind = "event" /\ op[w].kind = "event" => op[u].key # op[w].key

(* ... and of a key whose id was issued once, the event is the first record *)
(* of the log, nothing was inserted while the event is being inserted, and  *)
(* the last record that was inserted is a tombstone if there is one.        *)
OnceIssued ==
    /\ \A i, j \in 1 .. Len(wal) : i < j /\ wal[i].key = wal[j].key =>
          Reissued(wal[j].key) \/ wal[j].kind = "tombstone"
    /\ \A w \in Writers : wpc[w] = "insert" /\ op[w].kind = "event" /\ ~Reissued(op[w].key) =>
          /\ \A e \in Recs(history) : e.key # op[w].key
          /\ \A u \in InFlight : u # w => op[u].key # op[w].key
    /\ \A k \in Keys : ~Reissued(k) /\ TombstoneOf(k) \in Recs(history) =>
          LastKind(history, k) = "tombstone"

ReplayInv == LogSettles /\ OnceIssued

LEMMA ReissuedGrows ==
    ASSUME wal \in Seq(Event), NEW e \in Event, wal' = Append(wal, e)
    PROVE  /\ \A k : Reissued(k) => Reissued(k)'
           /\ e.kind = "event" /\ e \in Recs(wal) => Reissued(e.key)'
<1>1. /\ Len(wal) \in Nat /\ DOMAIN wal = 1 .. Len(wal) /\ DOMAIN wal' = 1 .. Len(wal) + 1
      /\ \A i \in 1 .. Len(wal) : wal'[i] = wal[i] /\ i \in 1 .. Len(wal) + 1 /\ i < Len(wal) + 1
      /\ wal'[Len(wal) + 1] = e /\ Len(wal) + 1 \in 1 .. Len(wal) + 1
  OBVIOUS
<1>2. ASSUME NEW k, Reissued(k) PROVE Reissued(k)'
  <2>1. PICK i, j \in 1 .. Len(wal) :
           i < j /\ wal[i] = [key |-> k, kind |-> "event"] /\ wal[j] = wal[i]
    BY <1>1, <1>2 DEF Reissued
  <2> QED BY <1>1, <2>1 DEF Reissued
<1>3. ASSUME e.kind = "event", e \in Recs(wal) PROVE Reissued(e.key)'
  <2>1. PICK i \in 1 .. Len(wal) : wal[i] = e
    BY <1>3 DEF Recs
  <2>2. e = [key |-> e.key, kind |-> "event"]
    BY <1>3, RecordIsOne DEF EventOf
  <2> QED BY <1>1, <2>1, <2>2 DEF Reissued
<1> QED BY <1>2, <1>3

(* The last record of a key in the log. *)
LEMMA LastLogged ==
    ASSUME ReopenTypes, OnceIssued, NEW k \in Keys, ~Reissued(k), TombstoneOf(k) \in Recs(wal)
    PROVE  LastKind(wal, k) = "tombstone"
<1>1. PICK i \in 1 .. Len(wal) : wal[i] = TombstoneOf(k)
  BY DEF Recs
<1>2. wal[i].key = k /\ wal[i].kind = "tombstone" /\ wal \in Seq(Event)
  BY <1>1 DEF TombstoneOf, ReopenTypes
<1>3. PICK m \in 1 .. Len(wal) : /\ wal[m].key = k
                                 /\ \A j \in 1 .. Len(wal) : wal[j].key = k => j <= m
                                 /\ LastKind(wal, k) = wal[m].kind
  <2>1. wal \in Seq(Event) /\ i \in 1 .. Len(wal) /\ wal[i].key = k
    BY <1>2
  <2> QED BY ONLY <2>1, LastOf
<1>4. i < m \/ i = m
  BY <1>2, <1>3
<1> QED BY <1>2, <1>3, <1>4 DEF OnceIssued

LEMMA LastOfConcat ==
    ASSUME NEW a \in Seq(Event), NEW b \in Seq(Event), NEW k
    PROVE  /\ (\E e \in Recs(b) : e.key = k) => LastKind(a \o b, k) = LastKind(b, k)
           /\ (\A e \in Recs(b) : e.key # k) => LastKind(a \o b, k) = LastKind(a, k)
<1> DEFINE c == a \o b
           n == Len(a)
<1>1. /\ c \in Seq(Event) /\ Len(c) = n + Len(b) /\ n \in Nat /\ Len(b) \in Nat
      /\ \A i \in 1 .. n : c[i] = a[i]
      /\ \A i \in 1 .. Len(b) : n + i \in 1 .. n + Len(b) /\ c[n + i] = b[i]
      /\ \A j \in 1 .. n + Len(b) :
            j \in 1 .. n \/ (j - n \in 1 .. Len(b) /\ j = n + (j - n))
  BY ConcatOf
<1> HIDE DEF c, n
<1>2. ASSUME NEW e \in Recs(b), e.key = k PROVE LastKind(c, k) = LastKind(b, k)
  <2>1. PICK i \in 1 .. Len(b) : b[i].key = k
    BY <1>2 DEF Recs
  <2>2. PICK m \in 1 .. Len(b) : /\ b[m].key = k
                                 /\ \A j \in 1 .. Len(b) : b[j].key = k => j <= m
                                 /\ LastKind(b, k) = b[m].kind
    BY <2>1, LastOf
  <2>3. n + m \in 1 .. Len(c) /\ c[n + m].key = k
    BY <1>1, <2>2
  <2>4. PICK p \in 1 .. Len(c) : /\ c[p].key = k
                                 /\ \A j \in 1 .. Len(c) : c[j].key = k => j <= p
                                 /\ LastKind(c, k) = c[p].kind
    <3>1. c \in Seq(Event)
      BY <1>1
    <3> QED BY ONLY <2>3, <3>1, LastOf
  <2>5. n + m <= p
    BY <2>3, <2>4
  <2>6. p - n \in 1 .. Len(b) /\ p = n + (p - n)
    BY <1>1, <2>2, <2>5
  <2>7. b[p - n] = c[p]
    BY <1>1, <2>6
  <2>8. p - n <= m
    BY <2>2, <2>4, <2>6, <2>7
  <2>9. p = n + m
    BY <1>1, <2>5, <2>8
  <2> QED BY <1>1, <2>2, <2>4, <2>9
<1>3. ASSUME \A e \in Recs(b) : e.key # k PROVE LastKind(c, k) = LastKind(a, k)
  <2>1. \A i \in 1 .. Len(b) : b[i].key # k
    BY <1>3 DEF Recs
  <2>2. ASSUME NEW j \in 1 .. Len(c), c[j].key = k PROVE j \in 1 .. n /\ a[j].key = k
    <3>1. CASE j - n \in 1 .. Len(b) /\ j = n + (j - n)
      <4>1. c[j] = b[j - n]
        BY <1>1, <3>1
      <4> QED BY <2>1, <2>2, <3>1, <4>1
    <3> QED BY <1>1, <2>2, <3>1
  <2>3. ASSUME NEW j \in 1 .. n, a[j].key = k PROVE j \in 1 .. Len(c) /\ c[j].key = k
    BY <1>1, <2>3
  <2>4. {i \in 1 .. Len(c) : c[i].key = k} = {i \in 1 .. n : a[i].key = k}
    BY <2>2, <2>3
  <2> DEFINE at == {i \in 1 .. n : a[i].key = k}
  <2>5. CASE at = {}
    BY <2>4, <2>5 DEF LastKind, n
  <2>6. CASE at # {}
    <3>1. PICK i \in 1 .. Len(a) : a[i].key = k
      BY <2>6 DEF n
    <3>2. PICK m \in 1 .. Len(a) : /\ a[m].key = k
                                   /\ \A j \in 1 .. Len(a) : a[j].key = k => j <= m
                                   /\ LastKind(a, k) = a[m].kind
      BY <3>1, LastOf
    <3>3. m \in 1 .. n /\ m \in at /\ \A u \in at : u <= m
      BY <3>2 DEF n
    <3>4. at \in SUBSET Nat
      OBVIOUS
    <3>5. (CHOOSE v \in at : \A u \in at : u <= v) = m
      <4> HIDE DEF at
      <4> QED BY <3>3, <3>4, ChooseLast
    <3>6. LastKind(c, k) = c[m].kind
      BY <2>4, <2>6, <3>5 DEF LastKind
    <3> QED BY <1>1, <3>2, <3>3, <3>6
  <2> QED BY <2>5, <2>6
<1> QED BY <1>2, <1>3 DEF c

LEMMA BeginReplays ==
    ASSUME ~BlindRemove, ReopenTypes, LoggedInv, IdsInv, ReplayInv,
           NEW w \in Writers, NEW e \in Event, BeginsWith(w, e)
    PROVE  ReplayInv'
<1>1. /\ InFlight' = InFlight \cup {w} /\ w \notin InFlight /\ wpc'[w] = "log" /\ op'[w] = e
      /\ \A u \in Writers : u # w => wpc'[u] = wpc[u] /\ op'[u] = op[u]
      /\ wal' = wal /\ history' = history
  BY DEF BeginsWith, logVars, InFlight, ReopenTypes
<1>2. e.kind = "tombstone" => EventOf(e.key) \in Recs(history)
  BY DEF BeginsWith
<1>3. e.kind = "event" => \A u \in InFlight : op[u].kind = "event" => op[u].key # e.key
  <2> SUFFICES ASSUME e.kind = "event", NEW u \in InFlight, op[u].kind = "event"
               PROVE  op[u].key # e.key
    OBVIOUS
  <2>1. op[u].key[2] < nextSeq /\ e.key[2] = nextSeq /\ nextSeq \in Nat
    BY DEF IdsInv, BeginsWith, ReopenTypes
  <2> QED BY <2>1
<1>4. \A u \in InFlight : u \in Writers /\ u # w /\ wpc'[u] = wpc[u] /\ op'[u] = op[u]
  BY <1>1 DEF InFlight
<1>5. LogSettles'
  <2>1. \A x \in Recs(wal') \ Recs(history') : \E u \in InFlight' : wpc'[u] = "insert" /\ op'[u] = x
    BY <1>1, <1>4 DEF ReplayInv, LogSettles
  <2>2. \A x \in Recs(wal') : x.kind = "tombstone" => EventOf(x.key) \in Recs(wal')
    BY <1>1 DEF ReplayInv, LogSettles
  <2>3. \A u \in InFlight' : op'[u].kind = "tombstone" => EventOf(op'[u].key) \in Recs(wal')
    BY <1>1, <1>2, <1>4 DEF ReplayInv, LogSettles, LoggedInv
  <2>4. \A u, x \in InFlight' :
          u # x /\ op'[u].kind = "event" /\ op'[x].kind = "event" => op'[u].key # op'[x].key
    BY <1>1, <1>3, <1>4 DEF ReplayInv, LogSettles
  <2> QED BY <2>1, <2>2, <2>3, <2>4 DEF LogSettles
<1>6. OnceIssued'
  <2>1. \A k : Reissued(k)' <=> Reissued(k)
    BY <1>1 DEF Reissued
  <2>2. ASSUME NEW u \in Writers, wpc'[u] = "insert", op'[u].kind = "event", ~Reissued(op'[u].key)
        PROVE  /\ \A x \in Recs(history) : x.key # op'[u].key
               /\ \A x \in InFlight' : x # u => op'[x].key # op'[u].key
    <3>1. u # w /\ u \in InFlight /\ wpc[u] = "insert" /\ op'[u] = op[u]
      BY <1>1, <2>2 DEF InFlight
    <3>2. /\ \A x \in Recs(history) : x.key # op[u].key
          /\ \A x \in InFlight : x # u => op[x].key # op[u].key
      BY <2>2, <3>1 DEF ReplayInv, OnceIssued
    <3>3. e.key # op[u].key
      <4>1. CASE e.kind = "event"
        BY <1>3, <2>2, <3>1, <4>1
      <4>2. CASE e.kind = "tombstone"
        BY <1>2, <3>2, <4>2 DEF EventOf
      <4> QED BY <4>1, <4>2, RecordIsOne
    <3> QED BY <1>1, <1>4, <3>1, <3>2, <3>3
  <2>3. /\ \A i, j \in 1 .. Len(wal') : i < j /\ wal'[i].key = wal'[j].key =>
             Reissued(wal[j].key)' \/ wal'[j].kind = "tombstone"
        /\ \A k \in Keys : ~Reissued(k)' /\ TombstoneOf(k) \in Recs(history') =>
             LastKind(history', k) = "tombstone"
    BY <1>1, <2>1 DEF ReplayInv, OnceIssued
  <2>4. \A u \in Writers : wpc'[u] = "insert" /\ op'[u].kind = "event" /\ ~Reissued(op[u].key)' =>
           /\ \A x \in Recs(history') : x.key # op'[u].key
           /\ \A x \in InFlight' : x # u => op'[x].key # op'[u].key
    BY <1>1, <2>1, <2>2
  <2> QED BY <2>3, <2>4 DEF OnceIssued
<1> QED BY <1>5, <1>6 DEF ReplayInv

LEMMA LogReplays ==
    ASSUME WalEnabled, WholeLog, ReopenTypes, LoggedInv, ReplayInv, NEW w \in Writers, LogsIt(w)
    PROVE  ReplayInv'
<1>1. /\ InFlight' = InFlight /\ w \in InFlight /\ wpc[w] = "log" /\ wpc'[w] = "insert"
      /\ \A u \in Writers : u # w => wpc'[u] = wpc[u]
      /\ op' = op /\ history' = history /\ wal' = Append(wal, op[w])
      /\ op[w] \in Event /\ wal \in Seq(Event)
  BY DEF LogsIt, WriteRecord, WholeLog, InFlight, ReopenTypes
<1>2. Recs(wal') = Recs(wal) \cup {op[w]}
  BY <1>1, RecsAppend
<1>3. /\ \A k : Reissued(k) => Reissued(k)'
      /\ op[w].kind = "event" /\ op[w] \in Recs(wal) => Reissued(op[w].key)'
  BY <1>1, ReissuedGrows
<1>4. op[w].kind = "event" => op[w] = EventOf(op[w].key)
  BY <1>1, RecordIsOne
<1>5. \A e \in Recs(wal) \cup Recs(history) :
         /\ e.kind \in {"event", "tombstone"} /\ EventOf(e.key) \in Recs(wal)
  <2> SUFFICES ASSUME NEW e \in Recs(wal)
               PROVE  e.kind \in {"event", "tombstone"} /\ EventOf(e.key) \in Recs(wal)
    BY DEF LoggedInv
  <2>1. e \in Event
    BY RecsOf DEF ReopenTypes
  <2> QED BY <2>1, RecordIsOne DEF ReplayInv, LogSettles
<1>6. LogSettles'
  <2>1. ASSUME NEW x \in Recs(wal'), x \notin Recs(history)
        PROVE  \E u \in InFlight' : wpc'[u] = "insert" /\ op'[u] = x
    <3>1. CASE x = op[w]
      BY <1>1, <3>1
    <3>2. CASE x \in Recs(wal)
      <4>1. PICK u \in InFlight : wpc[u] = "insert" /\ op[u] = x
        BY <2>1, <3>2 DEF ReplayInv, LogSettles
      <4> QED BY <1>1, <4>1 DEF InFlight
    <3> QED BY <1>2, <2>1, <3>1, <3>2
  <2>2. \A x \in Recs(wal') : x.kind = "tombstone" => EventOf(x.key) \in Recs(wal')
    BY <1>1, <1>2 DEF ReplayInv, LogSettles
  <2> QED BY <1>1, <1>2, <2>1, <2>2 DEF ReplayInv, LogSettles
<1>7. OnceIssued'
  <2>1. ASSUME NEW i \in 1 .. Len(wal'), NEW j \in 1 .. Len(wal'), i < j,
               wal'[i].key = wal'[j].key, wal'[j].kind # "tombstone"
        PROVE  Reissued(wal[j].key)'
    <3>1. /\ Len(wal') = Len(wal) + 1 /\ Len(wal) \in Nat /\ wal'[Len(wal) + 1] = op[w]
          /\ \A m \in 1 .. Len(wal) : wal'[m] = wal[m]
      BY <1>1
    <3>2. i \in 1 .. Len(wal) /\ wal'[i] = wal[i] /\ wal[i] \in Recs(wal)
      BY <2>1, <3>1 DEF Recs
    <3>3. CASE j = Len(wal) + 1
      <4>1. op[w].kind = "event" /\ op[w].key = wal[i].key
        BY <1>1, <2>1, <3>1, <3>2, <3>3, RecordIsOne
      <4>2. EventOf(wal[i].key) \in Recs(wal)
        BY <1>5, <3>2
      <4>3. op[w] \in Recs(wal)
        BY <1>4, <4>1, <4>2
      <4>4. wal'[j].key = op'[w].key
        BY <1>1, <3>1, <3>3
      <4> QED BY <1>3, <4>1, <4>3, <4>4
    <3>4. CASE j \in 1 .. Len(wal)
      <4>1. Reissued(wal[j].key)
        BY <2>1, <3>1, <3>2, <3>4 DEF ReplayInv, OnceIssued
      <4> QED BY <1>3, <3>1, <3>4, <4>1
    <3> QED BY <3>1, <3>3, <3>4
  <2>2. ASSUME NEW u \in Writers, wpc'[u] = "insert", op'[u].kind = "event", ~Reissued(op[u].key)'
        PROVE  /\ \A x \in Recs(history) : x.key # op[u].key
               /\ \A x \in InFlight : x # u => op[x].key # op[u].key
    <3>1. CASE u = w
      <4>1. op[w] \notin Recs(wal)
        BY <1>1, <1>3, <2>2, <3>1
      <4>2. \A x \in Recs(history) : x.key # op[w].key
        BY <1>1, <1>4, <1>5, <2>2, <3>1, <4>1
      <4>3. ASSUME NEW x \in InFlight, x # w PROVE op[x].key # op[w].key
        <5>1. op[x] \in Event
          BY DEF InFlight, ReopenTypes
        <5>2. CASE op[x].kind = "event"
          BY <1>1, <2>2, <3>1, <4>3, <5>2 DEF ReplayInv, LogSettles
        <5>3. CASE op[x].kind = "tombstone"
          <6>1. EventOf(op[x].key) \in Recs(wal)
            BY <5>3 DEF ReplayInv, LogSettles
          <6> QED BY <1>1, <1>4, <2>2, <3>1, <4>1, <6>1
        <5> QED BY <5>1, <5>2, <5>3, RecordIsOne
      <4> QED BY <3>1, <4>2, <4>3
    <3>2. CASE u # w
      BY <1>1, <1>3, <2>2, <3>2 DEF ReplayInv, OnceIssued
    <3> QED BY <3>1, <3>2
  <2>3. \A k \in Keys : ~Reissued(k)' /\ TombstoneOf(k) \in Recs(history') =>
           LastKind(history', k) = "tombstone"
    BY <1>1, <1>3 DEF ReplayInv, OnceIssued
  <2>4. \A u \in Writers : wpc'[u] = "insert" /\ op'[u].kind = "event" /\ ~Reissued(op[u].key)' =>
           /\ \A x \in Recs(history') : x.key # op'[u].key
           /\ \A x \in InFlight' : x # u => op'[x].key # op'[u].key
    BY <1>1, <2>2
  <2> QED BY <2>1, <2>3, <2>4 DEF OnceIssued
<1> QED BY <1>6, <1>7 DEF ReplayInv

LEMMA InsertReplays ==
    ASSUME ReopenTypes, LoggedInv, ReplayInv, NEW w \in Writers, InsertsIt(w)
    PROVE  ReplayInv'
<1>1. /\ wpc[w] = "insert" /\ w \in InFlight /\ wpc'[w] \notin {"log", "insert"}
      /\ \A u \in Writers : u # w => wpc'[u] = wpc[u] /\ op'[u] = op[u]
      /\ wal' = wal /\ history' = Append(history, op[w])
      /\ op[w] \in Event /\ history \in Seq(Event)
  BY DEF InsertsIt, logVars, InFlight, ReopenTypes
<1>2. /\ InFlight' = InFlight \ {w}
      /\ \A u \in InFlight' : u \in InFlight /\ u # w /\ wpc'[u] = wpc[u] /\ op'[u] = op[u]
  BY <1>1 DEF InFlight
<1>3. Recs(history') = Recs(history) \cup {op[w]}
  BY <1>1, RecsAppend
<1>4. \A k : Reissued(k)' <=> Reissued(k)
  BY <1>1 DEF Reissued
<1>5. LogSettles'
  <2>1. ASSUME NEW x \in Recs(wal'), x \notin Recs(history')
        PROVE  \E u \in InFlight' : wpc'[u] = "insert" /\ op'[u] = x
    <3>1. PICK u \in InFlight : wpc[u] = "insert" /\ op[u] = x
      BY <1>1, <1>3, <2>1 DEF ReplayInv, LogSettles
    <3>2. u \in InFlight'
      BY <1>2, <1>3, <2>1, <3>1
    <3> QED BY <1>2, <3>1, <3>2
  <2>2. /\ \A x \in Recs(wal') : x.kind = "tombstone" => EventOf(x.key) \in Recs(wal')
        /\ \A u \in InFlight' : op'[u].kind = "tombstone" => EventOf(op'[u].key) \in Recs(wal')
        /\ \A u, x \in InFlight' :
              u # x /\ op'[u].kind = "event" /\ op'[x].kind = "event" => op'[u].key # op'[x].key
    BY <1>1, <1>2 DEF ReplayInv, LogSettles
  <2> QED BY <2>1, <2>2 DEF LogSettles
<1>6. OnceIssued'
  <2>1. \A i, j \in 1 .. Len(wal') : i < j /\ wal'[i].key = wal'[j].key =>
           Reissued(wal[j].key)' \/ wal'[j].kind = "tombstone"
    BY <1>1, <1>4 DEF ReplayInv, OnceIssued
  <2>2. ASSUME NEW u \in Writers, wpc'[u] = "insert", op'[u].kind = "event", ~Reissued(op'[u].key)
        PROVE  /\ \A x \in Recs(history') : x.key # op'[u].key
               /\ \A x \in InFlight' : x # u => op'[x].key # op'[u].key
    <3>1. u # w /\ wpc[u] = "insert" /\ op'[u] = op[u]
      BY <1>1, <2>2
    <3>2. /\ \A x \in Recs(history) : x.key # op[u].key
          /\ \A x \in InFlight : x # u => op[x].key # op[u].key
      BY <2>2, <3>1 DEF ReplayInv, OnceIssued
    <3> QED BY <1>1, <1>2, <1>3, <3>1, <3>2
  <2>3. ASSUME NEW k \in Keys, ~Reissued(k), TombstoneOf(k) \in Recs(history')
        PROVE  LastKind(history', k) = "tombstone"
    <3>1. LastKind(history', k) = IF k = op[w].key THEN op[w].kind ELSE LastKind(history, k)
      BY <1>1, LastOfLonger
    <3>2. CASE k = op[w].key
      <4>1. CASE op[w].kind = "tombstone"
        BY <3>1, <3>2, <4>1
      <4>2. CASE op[w].kind = "event"
        <5>1. \A x \in Recs(history) : x.key # k
          BY <1>1, <2>3, <3>2, <4>2 DEF ReplayInv, OnceIssued
        <5>2. TombstoneOf(k).key = k /\ TombstoneOf(k).kind = "tombstone"
          BY DEF TombstoneOf
        <5> QED BY <1>3, <2>3, <4>2, <5>1, <5>2
      <4> QED BY <1>1, <4>1, <4>2, RecordIsOne
    <3>3. CASE k # op[w].key
      <4>1. TombstoneOf(k) \in Recs(history)
        BY <1>3, <2>3, <3>3 DEF TombstoneOf
      <4> QED BY <2>3, <3>1, <3>3, <4>1 DEF ReplayInv, OnceIssued
    <3> QED BY <3>2, <3>3
  <2>4. \A u \in Writers : wpc'[u] = "insert" /\ op'[u].kind = "event" /\ ~Reissued(op[u].key)' =>
           /\ \A x \in Recs(history') : x.key # op'[u].key
           /\ \A x \in InFlight' : x # u => op'[x].key # op'[u].key
    BY <1>1, <2>2 DEF Reissued
  <2>5. \A k \in Keys : ~Reissued(k)' /\ TombstoneOf(k) \in Recs(history') =>
           LastKind(history', k) = "tombstone"
    BY <1>4, <2>3
  <2> QED BY <2>1, <2>4, <2>5 DEF OnceIssued
<1> QED BY <1>5, <1>6 DEF ReplayInv

LEMMA EndReplays ==
    ASSUME ~DiskFaults, ReopenTypes, ReplayInv, NEW w \in Writers, EndsIt(w)
    PROVE  ReplayInv'
<1>1. /\ wpc[w] # "insert" /\ wpc'[w] = "idle" /\ wal' = wal /\ history' = history
      /\ \A u \in Writers : u # w => wpc'[u] = wpc[u] /\ op'[u] = op[u]
  BY DEF EndsIt, logVars, ReopenTypes
<1>2. /\ InFlight' = InFlight \ {w}
      /\ \A u \in InFlight' : u \in InFlight /\ u # w /\ wpc'[u] = wpc[u] /\ op'[u] = op[u]
  BY <1>1 DEF InFlight
<1>3. LogSettles'
  <2>1. \A x \in Recs(wal') \ Recs(history') : \E u \in InFlight' : wpc'[u] = "insert" /\ op'[u] = x
    BY <1>1, <1>2 DEF ReplayInv, LogSettles
  <2> QED BY <1>1, <1>2, <2>1 DEF ReplayInv, LogSettles
<1>4. OnceIssued'
  <2>1. ASSUME NEW u \in Writers, wpc'[u] = "insert", op'[u].kind = "event", ~Reissued(op[u].key)'
        PROVE  /\ \A x \in Recs(history') : x.key # op'[u].key
               /\ \A x \in InFlight' : x # u => op'[x].key # op'[u].key
    <3>1. u # w /\ wpc[u] = "insert" /\ op'[u] = op[u] /\ ~Reissued(op[u].key)
      BY <1>1, <2>1 DEF Reissued
    <3> QED BY <1>1, <1>2, <2>1, <3>1 DEF ReplayInv, OnceIssued
  <2>2. /\ \A i, j \in 1 .. Len(wal') : i < j /\ wal'[i].key = wal'[j].key =>
             Reissued(wal[j].key)' \/ wal'[j].kind = "tombstone"
        /\ \A k \in Keys : ~Reissued(k)' /\ TombstoneOf(k) \in Recs(history') =>
             LastKind(history', k) = "tombstone"
    <3>1. \A k : Reissued(k)' <=> Reissued(k)
      BY <1>1 DEF Reissued
    <3> QED BY <1>1, <3>1 DEF ReplayInv, OnceIssued
  <2> QED BY <2>1, <2>2 DEF OnceIssued
<1> QED BY <1>3, <1>4 DEF ReplayInv

LEMMA RestartReplays ==
    ASSUME ReopenTypes, LoggedInv, ReplayInv, Restart
    PROVE  ReplayInv'
<1>1. /\ history' = history \o wal /\ wal' = wal /\ wpc' = [w \in Writers |-> "idle"]
  BY DEF Restart
<1>2. Recs(history') = Recs(wal)
  BY <1>1, ConcatOf DEF ReopenTypes, LoggedInv
<1>3. InFlight' = {} /\ \A w \in Writers : wpc'[w] # "insert"
  BY <1>1 DEF InFlight
<1>4. LogSettles'
  BY <1>1, <1>2, <1>3 DEF ReplayInv, LogSettles
<1>5. \A k : Reissued(k)' <=> Reissued(k)
  BY <1>1 DEF Reissued
<1>6. ASSUME NEW k \in Keys, ~Reissued(k), TombstoneOf(k) \in Recs(wal)
      PROVE  LastKind(history', k) = "tombstone"
  <2>1. LastKind(wal, k) = "tombstone"
    BY <1>6, LastLogged DEF ReplayInv
  <2>2. \E e \in Recs(wal) : e.key = k
    BY <1>6 DEF TombstoneOf
  <2> QED BY <1>1, <2>1, <2>2, LastOfConcat DEF ReopenTypes
<1>7. OnceIssued'
  BY <1>1, <1>2, <1>3, <1>5, <1>6 DEF ReplayInv, OnceIssued
<1> QED BY <1>4, <1>7 DEF ReplayInv

(* Every version is held after the instance was opened again, or a newer   *)
(* one of its key is: the memtable has the last record of each key.        *)
LEMMA RestartStores ==
    ASSUME ReopenTypes, LoggedInv, Restart PROVE NoLostWrite'
<1> DEFINE n == Len(history)
<1>1. /\ history' = history \o wal /\ active' = [k \in Keys |-> Replayed(k)]
      /\ history \in Seq(Event) /\ wal \in Seq(Event)
  BY DEF Restart, ReopenTypes
<1>2. /\ Len(history') = n + Len(wal) /\ n \in Nat /\ Len(wal) \in Nat
      /\ \A i \in 1 .. n : history'[i] = history[i]
      /\ \A i \in 1 .. Len(wal) : n + i \in 1 .. n + Len(wal) /\ history'[n + i] = wal[i]
      /\ \A j \in 1 .. n + Len(wal) :
            j \in 1 .. n \/ (j - n \in 1 .. Len(wal) /\ j = n + (j - n))
  BY <1>1, ConcatOf
<1> HIDE DEF n
<1>3. SUFFICES ASSUME NEW v \in 1 .. n + Len(wal) PROVE Stored(v)' \/ Superseded(v)'
  BY <1>2 DEF NoLostWrite, Versions
<1> DEFINE k == history'[v].key
           at == {i \in DOMAIN wal : wal[i].key = k}
<1>4. v \in 1 .. n => \E i \in 1 .. Len(wal) : wal[i].key = k
  <2> SUFFICES ASSUME v \in 1 .. n PROVE \E i \in 1 .. Len(wal) : wal[i].key = k
    OBVIOUS
  <2>1. history[v] \in Recs(wal)
    BY DEF LoggedInv, Recs, n
  <2> QED BY <1>2, <2>1 DEF Recs
<1>5. \A i \in 1 .. Len(wal) : v = n + i => i \in at
  BY <1>1, <1>2
<1>6. at # {} /\ at \subseteq 0 .. Len(wal) /\ at \in SUBSET Nat
  <2>1. at # {}
    BY <1>1, <1>2, <1>4, <1>5
  <2> QED BY <1>1, <1>2, <2>1
<1>7. PICK m \in at : \A j \in at : j <= m
  <2> HIDE DEF at
  <2> QED BY <1>2, <1>6, HasMaximum
<1>8. m \in 1 .. Len(wal) /\ wal[m].key = k /\ wal[m] \in Event
  <2>1. m \in DOMAIN wal /\ wal[m].key = k
    BY <1>7
  <2> HIDE DEF k
  <2> QED BY <1>1, <2>1
<1>9. k \in Keys
  BY <1>8, RecordIsOne
<1>10. active'[k] = n + m
  <2>1. (CHOOSE i \in at : \A j \in at : j <= i) = m
    <3> HIDE DEF at
    <3> QED BY <1>6, <1>7, ChooseLast
  <2>2. Replayed(k) = n + m
    BY <1>6, <2>1 DEF Replayed, n
  <2> HIDE DEF k
  <2> QED BY <1>1, <1>9, <2>2
<1>11. CASE v = n + m
  BY <1>10, <1>11 DEF Stored
<1>12. CASE v # n + m
  <2>1. v < n + m
    <3>1. CASE v \in 1 .. n
      BY <1>2, <1>8, <3>1
    <3>2. CASE v - n \in 1 .. Len(wal) /\ v = n + (v - n)
      <4>1. v - n \in at
        BY <1>5, <3>2
      <4>2. v - n <= m
        BY <1>7, <4>1
      <4> QED BY <1>2, <1>8, <1>12, <3>2, <4>2
    <3> QED BY <1>2, <3>1, <3>2
  <2>2. n + m \in 1 .. n + Len(wal) /\ history'[n + m].key = k
    BY <1>2, <1>8
  <2>3. n + m \in Versions' /\ n + m > v
    BY <1>2, <2>1, <2>2 DEF Versions
  <2> QED BY <2>2, <2>3 DEF Superseded
<1> QED BY <1>11, <1>12

(* For a key that no call was writing and whose id was issued once, the    *)
(* last record stays what it was.                                          *)
LEMMA RestartKeepsLast ==
    ASSUME ReopenTypes, LoggedInv, ReplayInv, Restart,
           NEW k \in Keys, ~Reissued(k), \A w \in InFlight : op[w].key # k
    PROVE  LastKind(history, k) = LastKind(history', k)
<1>1. /\ history' = history \o wal /\ history \in Seq(Event) /\ wal \in Seq(Event)
  BY DEF Restart, ReopenTypes
<1>2. \A e : e \in Recs(wal) /\ e.key = k => e \in Recs(history)
  BY DEF ReplayInv, LogSettles
<1>3. CASE \A e \in Recs(wal) : e.key # k
  BY <1>1, <1>3, LastOfConcat
<1>4. CASE TombstoneOf(k) \in Recs(wal)
  <2>1. TombstoneOf(k).key = k
    BY DEF TombstoneOf
  <2>2. LastKind(history, k) = "tombstone"
    BY <1>2, <1>4, <2>1 DEF ReplayInv, OnceIssued
  <2>3. LastKind(wal, k) = "tombstone"
    BY <1>4, LastLogged DEF ReplayInv
  <2> QED BY <1>1, <1>4, <2>1, <2>2, <2>3, LastOfConcat
<1>5. ASSUME TombstoneOf(k) \notin Recs(wal), NEW e \in Recs(wal), e.key = k
      PROVE  LastKind(history, k) = LastKind(history', k)
  <2>1. \A x \in Recs(wal) : x.key = k => x.kind = "event"
    BY <1>1, <1>5, RecsOf, RecordIsOne
  <2>2. LastKind(wal, k) = "event"
    <3>1. PICK i \in 1 .. Len(wal) : wal[i].key = k
      BY <1>5 DEF Recs
    <3>2. PICK m \in 1 .. Len(wal) : wal[m].key = k /\ LastKind(wal, k) = wal[m].kind
      BY ONLY <1>1, <3>1, LastOf
    <3> QED BY <2>1, <3>2 DEF Recs
  <2>3. LastKind(history, k) = "event"
    <3>1. PICK i \in 1 .. Len(history) : history[i].key = k
      BY <1>2, <1>5 DEF Recs
    <3>2. PICK m \in 1 .. Len(history) : history[m].key = k /\ LastKind(history, k) = history[m].kind
      BY ONLY <1>1, <3>1, LastOf
    <3>3. history[m] \in Recs(wal)
      BY DEF LoggedInv, Recs
    <3> QED BY <2>1, <3>2, <3>3
  <2> QED BY <1>1, <1>5, <2>2, <2>3, LastOfConcat
<1> QED BY <1>3, <1>4, <1>5

(* Opening again restores every record, and every key that no call was     *)
(* writing, whatever state the process died in, however often it is opened *)
(* again and whatever files there are (db.cpp:62-69).                      *)
THEOREM Restores ==
    ASSUME WalEnabled, ~BlindRemove, ~DiskFaults PROVE RestartSpec => RestartRestores
<1>1. RestartInit => WholeLog /\ IdsInv /\ ReplayInv
  <2> SUFFICES ASSUME RestartInit PROVE WholeLog /\ IdsInv /\ ReplayInv
    OBVIOUS
  <2>1. /\ Recs(wal) = {} /\ Recs(history) = {} /\ InFlight = {} /\ Len(wal) = 0
        /\ InLog = {} /\ \A w \in Writers : wpc[w] # "insert"
    BY DEF RestartInit, Init, Recs, InFlight, InLog
  <2>2. LogSettles /\ OnceIssued
    BY <2>1 DEF LogSettles, OnceIssued
  <2>3. WholeLog
    BY DEF RestartInit, Init, WholeLog
  <2> QED BY <2>1, <2>2, <2>3 DEF IdsInv, ReplayInv
<1>2. ReopenTypes /\ WrittenInv /\ WholeLog /\ IdsInv /\ ReplayInv
        /\ [RestartNext]_<<vars, reopenVars>>
      => (WholeLog /\ IdsInv /\ ReplayInv)'
  <2> SUFFICES ASSUME ReopenTypes, WrittenInv, WholeLog, IdsInv, ReplayInv,
                      [RestartNext]_<<vars, reopenVars>>
               PROVE  WholeLog' /\ ReplayInv'
    BY IdsStep DEF RestartNext
  <2>1. CASE QuietStep
    BY <2>1 DEF QuietStep, logVars, WholeLog, ReplayInv, LogSettles, OnceIssued, InFlight, Reissued
  <2>2. CASE Run
    BY <2>1, <2>2, WholeLogged, WholeStep, RunSteps, BeginReplays, LogReplays, InsertReplays,
       EndReplays
  <2>3. CASE Restart
    BY <2>3, WholeLogged, WholeStep, RestartReplays
  <2>4. CASE UNCHANGED <<vars, reopenVars>>
    BY <2>1, <2>4, ReopenStutter
  <2> QED BY <2>2, <2>3, <2>4 DEF RestartNext
<1>3. ReopenTypes /\ WrittenInv /\ WholeLog /\ ReplayInv /\ [RestartNext]_<<vars, reopenVars>> =>
        [ restarts' # restarts =>
            /\ NoLostWrite'
            /\ \A k \in Keys : ~Reissued(k) /\ (\A w \in InFlight : op[w].key # k)
                 => LastKind(history, k) = LastKind(history', k) ]_<<vars, reopenVars>>
  <2>1. Run => restarts' = restarts
    BY DEF Run
  <2> QED BY <2>1, WholeLogged, RestartStores, RestartKeepsLast DEF RestartNext
<1> QED BY <1>1, <1>2, <1>3, Reopened, PTL DEF RestartSpec, RestartRestores

=============================================================================

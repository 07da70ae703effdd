--------------------------- MODULE SkipListProofs ---------------------------
(***************************************************************************)
(* Theorems about SkipList, for every number of keys, levels, insertions   *)
(* and readers.                                                            *)
(***************************************************************************)
EXTENDS SkipList, TLAPS

-----------------------------------------------------------------------------
(* The inductive invariant. *)

(* prev[l] is where wkey belongs at level l. *)
Precedes(l) ==
    /\ prev[l] \in In(l) \cup {HeadNode}
    /\ prev[l] < wkey
    /\ wkey <= next[prev[l]][l]

(* What the writer has found out, which stays true until it is used. *)
WriterInv ==
    /\ height[HeadNode] = MaxHeight
    /\ \A k \in Keys : height[k] <= maxHeight /\ (value[k] = 0 <=> height[k] = 0)
    /\ wpc = "find" =>
          /\ wlvl <= maxHeight /\ wx < wkey /\ wx \in In(wlvl) \cup {HeadNode}
          /\ \A l \in Levels : wlvl < l /\ l <= maxHeight => Precedes(l)
    /\ wpc = "place" =>
          /\ wx = prev[1]
          /\ \A l \in Levels : l <= maxHeight => Precedes(l)
    /\ wpc \in {"set", "link"} =>
          /\ height[wkey] = wheight /\ wlvl <= wheight
          /\ \A l \in Levels : wlvl <= l /\ l <= wheight => Precedes(l)
    /\ wpc = "link" => next[wkey][wlvl] = next[prev[wlvl]][wlvl]

(* Reader r has had the keys of its range up to where it is. *)
HadUpTo(r, bound) ==
    \A k \in Keys : before[r][k] # 0 /\ range[r][1] <= k /\ k <= bound =>
        \E i \in 1 .. Len(got[r]) : got[r][i][1] = k

(* Where a reader is. *)
ReaderAt(r) ==
    /\ \A k \in Keys : before[r][k] # 0 => k \in In(1) /\ before[r][k] <= value[k]
    /\ rpc[r] = "idle" => rx[r] = HeadNode
    /\ rpc[r] \in {"idle", "seek"} => got[r] = <<>>
    /\ rpc[r] = "seek" => rx[r] \in In(rlvl[r]) \cup {HeadNode} /\ rx[r] < range[r][1]
    /\ rpc[r] = "at" =>
          /\ rx[r] \in In(1) \cup {Null} /\ range[r][1] <= rx[r]
          /\ \A i \in 1 .. Len(got[r]) : got[r][i][1] < rx[r]
    /\ rpc[r] = "next" =>
          /\ rx[r] \in In(1) /\ range[r][1] <= rx[r]
          /\ \A i \in 1 .. Len(got[r]) : got[r][i][1] <= rx[r]
          /\ HadUpTo(r, rx[r])

(* What a reader has had. *)
ReaderHas(r) ==
    /\ \A i \in 1 .. Len(got[r]) :
          /\ range[r][1] <= got[r][i][1] /\ got[r][i][1] <= range[r][2]
          /\ before[r][got[r][i][1]] <= got[r][i][2] /\ 0 < got[r][i][2]
          /\ got[r][i][2] <= value[got[r][i][1]]
          /\ \A j \in 1 .. i - 1 : got[r][j][1] < got[r][i][1]
    /\ rpc[r] = "at" => \A k \in Keys :
          before[r][k] # 0 /\ range[r][1] <= k /\ k < rx[r] =>
              \E i \in 1 .. Len(got[r]) : got[r][i][1] = k

SkipInv ==
    /\ LinksOrdered
    /\ WriterInv
    /\ \A r \in Readers : ReaderAt(r) /\ ReaderHas(r)

-----------------------------------------------------------------------------
(* Types, in the three parts that the variables come in. *)

ListType ==
    /\ next \in [Nodes -> Links]
    /\ height \in [Nodes -> 0 .. MaxHeight]
    /\ value \in Values
    /\ maxHeight \in Levels
    /\ count \in Nat

WriterType ==
    /\ wpc \in {"idle", "find", "place", "set", "link", "count"}
    /\ wkey \in 0 .. MaxKey /\ (wpc # "idle" => wkey \in Keys)
    /\ wx \in Nodes
    /\ wlvl \in Levels
    /\ prev \in [Levels -> Nodes]
    /\ wheight \in Levels

ReaderType ==
    /\ rpc \in [Readers -> {"idle", "seek", "at", "next"}]
    /\ range \in [Readers -> Keys \X Keys]
    /\ rx \in [Readers -> 0 .. Null]
    /\ rlvl \in [Readers -> Levels]
    /\ got \in [Readers -> Seq(Keys \X Nat)]
    /\ before \in [Readers -> Values]

LEMMA TypeParts ==
    /\ TypeOK <=> ListType /\ WriterType /\ ReaderType
    /\ TypeOK' <=> ListType' /\ WriterType' /\ ReaderType'
BY DEF TypeOK, ListType, WriterType, ReaderType

(* What a store to one link changes. *)
StoreTo(n, l, v) == next' = [next EXCEPT ![n][l] = v]

LEMMA StoreLink ==
    ASSUME next \in [Nodes -> Links]
    PROVE  \A n \in Nodes, l \in Levels, v \in 1 .. Null : StoreTo(n, l, v) =>
              /\ next' \in [Nodes -> Links]
              /\ \A x \in Nodes, m \in Levels :
                    next'[x][m] = IF x = n /\ m = l THEN v ELSE next[x][m]
<1> SUFFICES ASSUME NEW n \in Nodes, NEW l \in Levels, NEW v \in 1 .. Null, StoreTo(n, l, v)
             PROVE  /\ next' \in [Nodes -> Links]
                    /\ \A x \in Nodes, m \in Levels :
                          next'[x][m] = IF x = n /\ m = l THEN v ELSE next[x][m]
  OBVIOUS
<1>1. next[n] \in Links
  OBVIOUS
<1>2. /\ [next[n] EXCEPT ![l] = v] \in Links
      /\ \A m \in Levels : [next[n] EXCEPT ![l] = v][m] = IF m = l THEN v ELSE next[n][m]
  BY <1>1 DEF Links
<1>3. next' = [next EXCEPT ![n] = [next[n] EXCEPT ![l] = v]]
  BY DEF StoreTo
<1> QED BY <1>2, <1>3

LEMMA LinkIn ==
    ASSUME next \in [Nodes -> Links]
    PROVE  \A x \in Nodes, l \in Levels : next[x][l] \in 1 .. Null
<1> SUFFICES ASSUME NEW x \in Nodes, NEW l \in Levels PROVE next[x][l] \in 1 .. Null
  OBVIOUS
<1>1. next[x] \in Links
  OBVIOUS
<1> QED BY <1>1 DEF Links

LEMMA InitType == Init => TypeOK
BY SizesAssumption
DEF Init, TypeOK, Nodes, Levels, Keys, Null, HeadNode, Links, Values

LEMMA WriterKeepsTypes ==
    ASSUME TypeOK, wpc = "link" => wlvl <= wheight,
           (\E k \in Keys : InsertBegin(k)) \/ Insertion
    PROVE  TypeOK'
<1>1. ListType /\ WriterType /\ ReaderType
  BY TypeParts
<1>2. UNCHANGED readerVars
  BY DEF InsertBegin, Insertion, FindPrev, ReplaceValue, NewNode, SetNext, Link, Count
<1>3. ReaderType'
  BY <1>1, <1>2 DEF ReaderType, readerVars
<1> USE SizesAssumption
<1>4. HeadNode \in Nodes /\ 1 \in Levels /\ Keys \subseteq Nodes /\ Keys \subseteq 1 .. Null
  BY DEF HeadNode, Nodes, Levels, Keys, Null
<1>5. \A x \in Nodes, l \in Levels : next[x][l] \in 1 .. Null
  BY <1>1, LinkIn DEF ListType
<1>6. [l \in Levels |-> HeadNode] \in [Levels -> Nodes] /\ 0 \in 0 .. MaxKey
  BY <1>4
<1>7. ListType' /\ WriterType'
  <2>1. ASSUME NEW k \in Keys, InsertBegin(k) PROVE ListType' /\ WriterType'
    <3>1. k \in 0 .. MaxKey
      BY DEF Keys
    <3> QED BY <1>1, <1>4, <2>1, <3>1 DEF InsertBegin, ListType, WriterType, listVars, TopLevel
  <2>2. CASE FindPrev
    <3>1. ListType'
      BY <1>1, <2>2 DEF FindPrev, ListType, listVars
    <3>2. next[wx][wlvl] < wkey => next[wx][wlvl] \in Nodes
      BY <1>1, <1>5 DEF WriterType, Nodes, Null
    <3>3. wlvl # 1 => wlvl - 1 \in Levels
      BY <1>1 DEF WriterType, Levels
    <3>4. [prev EXCEPT ![wlvl] = wx] \in [Levels -> Nodes]
      BY <1>1 DEF WriterType
    <3> QED BY <1>1, <2>2, <3>1, <3>2, <3>3, <3>4 DEF FindPrev, WriterType, Lower
  <2>3. CASE ReplaceValue
    <3>1. wkey \in Keys
      BY <1>1, <2>3 DEF ReplaceValue, WriterType
    <3>2. [value EXCEPT ![wkey] = @ + 1] \in Values
      BY <1>1, <3>1 DEF ListType, Values
    <3>3. ListType'
      BY <1>1, <2>3, <3>2 DEF ReplaceValue, ListType
    <3> QED BY <1>4, <1>6, <2>3, <3>3 DEF ReplaceValue, InsertReturn, WriterType
  <2>4. ASSUME NEW h \in Levels, NewNode(h) PROVE ListType' /\ WriterType'
    <3>1. wkey \in Keys
      BY <1>1, <2>4 DEF NewNode, WriterType
    <3>2. PrevUpTo(h) \in [Levels -> Nodes]
      BY <1>1, <1>4 DEF PrevUpTo, WriterType
    <3>3. h \in 0 .. MaxHeight
      BY DEF Levels
    <3>4. NodeOfHeight(h) \in [Nodes -> 0 .. MaxHeight]
      BY <1>1, <1>4, <3>1, <3>3 DEF NodeOfHeight, ListType
    <3>5. [value EXCEPT ![wkey] = 1] \in Values
      BY <1>1, <3>1 DEF ListType, Values
    <3>6. maxHeight' \in Levels
      BY <1>1, <2>4 DEF NewNode, ListType
    <3>7. ListType'
      BY <1>1, <2>4, <3>4, <3>5, <3>6 DEF NewNode, ListType
    <3> QED BY <1>1, <1>4, <2>4, <3>1, <3>2, <3>7 DEF NewNode, WriterType
  <2>5. CASE SetNext
    <3>1. wkey \in Keys /\ wlvl \in Levels /\ prev[wlvl] \in Nodes
      BY <1>1, <2>5 DEF SetNext, WriterType
    <3>2. next' \in [Nodes -> Links]
      BY <1>1, <1>4, <1>5, <2>5, <3>1, StoreLink DEF SetNext, Successor, ListType, StoreTo
    <3>3. ListType'
      BY <1>1, <2>5, <3>2 DEF SetNext, ListType
    <3> QED BY <1>1, <2>5, <3>1, <3>3 DEF SetNext, WriterType
  <2>6. CASE Link
    <3>1. wkey \in Keys /\ wlvl \in Levels /\ prev[wlvl] \in Nodes
      BY <1>1, <2>6 DEF Link, WriterType
    <3>2. next' \in [Nodes -> Links]
      BY <1>1, <1>4, <2>6, <3>1, StoreLink DEF Link, ListType, StoreTo
    <3>3. ListType'
      BY <1>1, <2>6, <3>2 DEF Link, ListType
    <3>4. wlvl' \in Levels
      <4>1. wlvl # wheight => wlvl + 1 \in Levels
        BY <1>1, <2>6 DEF Link, WriterType, Levels
      <4> QED BY <2>6, <3>1, <4>1 DEF Link
    <3> QED BY <1>1, <2>6, <3>1, <3>3, <3>4 DEF Link, WriterType
  <2>7. CASE Count
    <3>1. ListType'
      BY <1>1, <2>7 DEF Count, ListType
    <3> QED BY <1>4, <1>6, <2>7, <3>1 DEF Count, InsertReturn, WriterType
  <2> QED BY <2>1, <2>2, <2>3, <2>4, <2>5, <2>6, <2>7 DEF Insertion
<1> QED BY <1>3, <1>7, TypeParts

LEMMA ReaderKeepsTypes ==
    ASSUME TypeOK, NEW r \in Readers,
           rpc[r] = "seek" => rx[r] \in Nodes,
           rpc[r] = "at" => rx[r] \in Keys \cup {Null},
           rpc[r] = "next" => rx[r] \in Keys,
           Scan(r) \/ \E first, last \in Keys : ScanBegin(r, first, last)
    PROVE  TypeOK'
<1>1. ListType /\ WriterType /\ ReaderType
  BY TypeParts
<1>2. UNCHANGED <<listVars, writerVars>>
  BY DEF Scan, ScanBegin, Seek, Deliver, Advance, ScanEnd, ReaderStep
<1>3. ListType' /\ WriterType'
  BY <1>1, <1>2 DEF ListType, WriterType, listVars, writerVars
<1> USE SizesAssumption
<1>4. /\ HeadNode \in Nodes /\ HeadNode \in 0 .. Null /\ 1 \in Levels /\ 1 \in Keys /\ MaxKey \in Keys
      /\ Keys \subseteq Nodes /\ 1 .. Null \subseteq 0 .. Null
  BY DEF HeadNode, Nodes, Levels, Keys, Null
<1>5. \A x \in Nodes, l \in Levels : next[x][l] \in 1 .. Null
  BY <1>1, LinkIn DEF ListType
<1>6. [k \in Keys |-> 0] \in Values /\ <<>> \in Seq(Keys \X Nat)
  BY DEF Values
<1>7. ReaderType'
  <2>1. ASSUME NEW first \in Keys, NEW last \in Keys, ScanBegin(r, first, last)
        PROVE  ReaderType'
    <3>1. Held \in Values
      BY <1>1 DEF Held, ListType, Values
    <3>2. PICK l \in 1 .. maxHeight : rlvl' = [rlvl EXCEPT ![r] = l]
      BY <2>1 DEF ScanBegin, TopLevel
    <3>3. l \in Levels
      BY <1>1 DEF ListType, Levels
    <3>4. rlvl' \in [Readers -> Levels]
      BY <1>1, <3>2, <3>3 DEF ReaderType
    <3>5. before' \in [Readers -> Values]
      BY <1>1, <2>1, <3>1 DEF ReaderType, ScanBegin
    <3> QED BY <1>1, <2>1, <3>4, <3>5 DEF ReaderType, ScanBegin, ReaderStep
  <2>2. CASE Seek(r)
    <3> DEFINE nx == next[rx[r]][rlvl[r]]
    <3>1. /\ rlvl[r] \in Levels
          /\ rlvl[r] # 1 => rlvl[r] - 1 \in Levels
      BY <1>1 DEF ReaderType, Levels
    <3>2. CASE rx[r] \in Nodes
      <4>1. nx \in 0 .. Null
        BY <1>4, <1>5, <3>1, <3>2
      <4> HIDE DEF nx
      <4>2. rx' \in [Readers -> 0 .. Null]
        BY <1>1, <2>2, <4>1 DEF ReaderType, Seek, nx
      <4>3. rlvl' \in [Readers -> Levels]
        BY <1>1, <2>2, <3>1 DEF ReaderType, Seek, Lower
      <4>4. rpc' \in [Readers -> {"idle", "seek", "at", "next"}]
        BY <1>1, <2>2 DEF ReaderType, Seek, ReaderStep
      <4> QED BY <1>1, <2>2, <4>2, <4>3, <4>4 DEF ReaderType, Seek
    <3> QED BY <2>2, <3>2 DEF Seek
  <2>3. CASE Deliver(r)
    <3>1. rx[r] \in Keys
      BY <1>1, <2>3 DEF Deliver, ReaderStep, ReaderType, Keys, Null
    <3>2. <<rx[r], value[rx[r]]>> \in Keys \X Nat
      BY <1>1, <3>1 DEF ListType, Values
    <3>3. got[r] \in Seq(Keys \X Nat)
      BY <1>1 DEF ReaderType
    <3>4. Append(got[r], <<rx[r], value[rx[r]]>>) \in Seq(Keys \X Nat)
      BY <3>2, <3>3
    <3>5. got' \in [Readers -> Seq(Keys \X Nat)]
      BY <1>1, <2>3, <3>4 DEF ReaderType, Deliver
    <3> QED BY <1>1, <2>3, <3>5 DEF ReaderType, Deliver, ReaderStep
  <2>4. CASE Advance(r)
    <3>1. next[rx[r]][1] \in 0 .. Null
      BY <1>4, <1>5, <2>4 DEF Advance, ReaderStep
    <3>2. rx' \in [Readers -> 0 .. Null]
      BY <1>1, <2>4, <3>1 DEF ReaderType, Advance
    <3> QED BY <1>1, <2>4, <3>2 DEF ReaderType, Advance, ReaderStep
  <2>5. CASE ScanEnd(r)
    BY <1>1, <1>4, <1>6, <2>5 DEF ReaderType, ScanEnd, ReaderStep
  <2> QED BY <2>1, <2>2, <2>3, <2>4, <2>5 DEF Scan
<1> QED BY <1>3, <1>7, TypeParts

-----------------------------------------------------------------------------
(* An insertion. *)

(* What is linked at a level is linked below it. *)
LEMMA InLevels ==
    ASSUME ListType, WriterType
    PROVE  /\ \A l \in Levels : In(l) \subseteq Keys
           /\ \A l, m \in Levels : l <= m => In(m) \subseteq In(l)
           /\ \A l \in Levels : \A k \in In(l) : l <= height[k]
<1>1. \A l \in Levels : In(l) \subseteq Keys /\ \A k \in In(l) : l <= height[k]
  BY DEF In
<1>2. ASSUME NEW l \in Levels, NEW m \in Levels, l <= m, NEW k \in In(m)
      PROVE  k \in In(l)
  <2>1. k \in Keys /\ height[k] \in Nat
    BY SizesAssumption DEF In, ListType, Keys, Nodes
  <2> QED BY <1>2, <2>1, SizesAssumption DEF In, WriterType, Levels
<1> QED BY <1>1, <1>2

(* The readers do not mind what an insertion does. *)
LEMMA ReadersKeep ==
    ASSUME ListType, ReaderType, ListType', UNCHANGED readerVars, SizesAssumption,
           In(1) \subseteq In(1)', \A l \in Levels : In(l) \subseteq In(l)',
           \A k \in Keys : value[k] <= value'[k],
           NEW r \in Readers, ReaderAt(r), ReaderHas(r)
    PROVE  ReaderAt(r)' /\ ReaderHas(r)'
<1>1. /\ rpc' = rpc /\ range' = range /\ rx' = rx /\ rlvl' = rlvl
      /\ got' = got /\ before' = before
  BY DEF readerVars
<1>2. \A k \in Keys : value[k] \in Nat /\ value'[k] \in Nat /\ before[r][k] \in Nat
  BY DEF ListType, ReaderType, Values
<1>3. /\ rlvl[r] \in Levels
      /\ \A i \in 1 .. Len(got[r]) : got[r][i] \in Keys \X Nat
  <2>1. got[r] \in Seq(Keys \X Nat)
    BY DEF ReaderType
  <2> QED BY <2>1 DEF ReaderType
<1>4. ReaderAt(r)'
  <2>1. HadUpTo(r, rx[r]) => HadUpTo(r, rx[r])'
    BY <1>1 DEF HadUpTo
  <2>2. \A k \in Keys : before[r][k] # 0 => k \in In(1)' /\ before[r][k] <= value'[k]
    BY <1>2 DEF ReaderAt
  <2>3. In(rlvl[r]) \subseteq In(rlvl[r])'
    BY <1>1, <1>3
  <2> HIDE DEF HadUpTo
  <2> QED BY <1>1, <2>1, <2>2, <2>3 DEF ReaderAt
<1>5. ReaderHas(r)'
  <2>1. \A i \in 1 .. Len(got[r]) : got[r][i][2] <= value'[got[r][i][1]]
    <3> SUFFICES ASSUME NEW i \in 1 .. Len(got[r])
                 PROVE  got[r][i][2] <= value'[got[r][i][1]]
      OBVIOUS
    <3>1. got[r][i][1] \in Keys /\ got[r][i][2] \in Nat
      BY <1>3
    <3>2. got[r][i][2] <= value[got[r][i][1]]
      BY DEF ReaderHas
    <3> QED BY <1>2, <3>1, <3>2
  <2> QED BY <1>1, <2>1 DEF ReaderHas
<1> QED BY <1>4, <1>5

(* Steps of an insertion that only look, and the one that allocates. *)
LEMMA FindKeeps ==
    ASSUME TypeOK, TypeOK', LinksOrdered, WriterInv,
           (\E k \in Keys : InsertBegin(k)) \/ FindPrev
    PROVE  /\ LinksOrdered' /\ WriterInv'
           /\ \A l \in Levels : In(l)' = In(l)
           /\ UNCHANGED <<listVars, readerVars>>
<1>1. ListType /\ WriterType /\ ListType' /\ WriterType'
  BY TypeParts
<1>2. UNCHANGED <<listVars, readerVars>>
  BY DEF InsertBegin, FindPrev
<1>3. wpc \in {"idle", "find"} /\ wpc' \in {"find", "place"}
  BY <1>1 DEF InsertBegin, FindPrev, WriterType
<1>4. \A l \in Levels : In(l)' = In(l)
  BY <1>2, <1>3 DEF In, listVars
<1>5. next' = next /\ height' = height /\ value' = value /\ maxHeight' = maxHeight
  BY <1>2 DEF listVars
<1>6. LinksOrdered'
  BY <1>4, <1>5 DEF LinksOrdered
<1>7. WriterInv'
  <2>1. ASSUME NEW k \in Keys, InsertBegin(k) PROVE WriterInv'
    <3>1. /\ wpc' = "find" /\ wkey' = k /\ wx' = HeadNode /\ wlvl' = maxHeight
      BY <2>1 DEF InsertBegin, TopLevel
    <3>2. HeadNode < k
      BY SizesAssumption DEF HeadNode, Keys
    <3>3. maxHeight \in Nat
      BY <1>1 DEF ListType, Levels
    <3> QED BY <1>5, <3>1, <3>2, <3>3 DEF WriterInv, Levels
  <2>2. CASE FindPrev
    <3> DEFINE nx == next[wx][wlvl]
    <3>1. /\ wpc = "find" /\ wlvl <= maxHeight /\ wx < wkey /\ wx \in In(wlvl) \cup {HeadNode}
          /\ \A l \in Levels : wlvl < l /\ l <= maxHeight => Precedes(l)
          /\ wkey \in Keys /\ wkey' = wkey /\ wlvl \in Levels
      BY <1>1, <2>2 DEF FindPrev, WriterInv, WriterType
    <3>2. nx \in In(wlvl) \cup {Null} /\ wx < nx
      BY <3>1 DEF LinksOrdered
    <3>3. ASSUME NEW l \in Levels, Precedes(l), prev'[l] = prev[l] PROVE Precedes(l)'
      BY <1>4, <1>5, <3>1, <3>3 DEF Precedes
    <3>4. CASE nx < wkey
      <4>1. wx' = nx /\ UNCHANGED <<wpc, wlvl, prev>>
        BY <2>2, <3>4 DEF FindPrev
      <4>2. nx \in In(wlvl)
        BY <3>1, <3>2, <3>4, SizesAssumption DEF Null, Keys
      <4>3. wx' \in In(wlvl)' /\ wlvl' = wlvl /\ wpc' = "find" /\ wx' < wkey'
        BY <1>4, <3>1, <3>4, <4>1, <4>2
      <4>4. \A l \in Levels : wlvl < l /\ l <= maxHeight => Precedes(l)'
        BY <3>1, <3>3, <4>1
      <4> HIDE DEF nx
      <4> QED BY <1>4, <1>5, <3>1, <4>1, <4>2, <4>3, <4>4 DEF WriterInv
    <3>5. CASE ~(nx < wkey)
      <4>1. /\ prev' = [prev EXCEPT ![wlvl] = wx] /\ wx' = wx
            /\ IF wlvl = 1 THEN wpc' = "place" /\ wlvl' = wlvl
                            ELSE wlvl' = wlvl - 1 /\ wpc' = "find"
        BY <2>2, <3>1, <3>5 DEF FindPrev, Lower
      <4>2. \A l \in Levels : prev'[l] = IF l = wlvl THEN wx ELSE prev[l]
        BY <1>1, <4>1 DEF WriterType
      <4>3. wkey <= nx
        <5>1. nx \in Nat /\ wkey \in Nat
          BY <1>1, <3>1, LinkIn, SizesAssumption DEF ListType, WriterType, Null, Keys
        <5> HIDE DEF nx
        <5> QED BY <3>5, <5>1
      <4>4. ASSUME NEW l \in Levels, l = wlvl PROVE Precedes(l)'
        BY <1>4, <1>5, <3>1, <4>2, <4>3, <4>4 DEF Precedes
      <4>5. \A l \in Levels : wlvl <= l /\ l <= maxHeight => Precedes(l)'
        <5>1. \A l \in Levels : wlvl <= l => l = wlvl \/ wlvl < l
          BY <3>1 DEF Levels
        <5> QED BY <3>1, <3>3, <4>2, <4>4, <5>1
      <4>6. CASE wlvl = 1
        <5>1. \A l \in Levels : 1 <= l
          BY DEF Levels
        <5>2. wx' = prev'[1]
          BY <3>1, <4>1, <4>2, <4>6
        <5> QED BY <1>5, <4>1, <4>5, <4>6, <5>1, <5>2 DEF WriterInv
      <4>7. CASE wlvl # 1
        <5>1. /\ wlvl' = wlvl - 1 /\ wpc' = "find" /\ wlvl' \in Levels
              /\ wlvl' < wlvl /\ wlvl' <= maxHeight
              /\ \A l \in Levels : wlvl' < l => wlvl <= l
          BY <1>1, <3>1, <4>1, <4>7, SizesAssumption DEF Levels, ListType
        <5>2. wx' \in In(wlvl') \cup {HeadNode}
          BY <1>1, <3>1, <4>1, <5>1, InLevels DEF Levels
        <5>3. wx' \in In(wlvl)' \cup {HeadNode}
          BY <1>4, <5>1, <5>2
        <5> QED BY <1>5, <3>1, <4>1, <4>5, <5>1, <5>3 DEF WriterInv
      <4> QED BY <4>6, <4>7
    <3> QED BY <3>4, <3>5
  <2> QED BY <2>1, <2>2
<1> QED BY <1>2, <1>4, <1>6, <1>7

(* A key is given a new value, or a node that is not linked yet. *)
LEMMA PlaceKeeps ==
    ASSUME TypeOK, TypeOK', LinksOrdered, WriterInv,
           ReplaceValue \/ Count \/ \E h \in Levels : NewNode(h)
    PROVE  /\ LinksOrdered' /\ WriterInv'
           /\ \A l \in Levels : In(l)' = In(l)
           /\ \A k \in Keys : value[k] <= value'[k]
<1>1. ListType /\ WriterType /\ ListType' /\ WriterType'
  BY TypeParts
<1>2. next' = next /\ wkey \in Keys /\ wkey \in Nat
  BY <1>1 DEF ReplaceValue, Count, NewNode, WriterType, Keys
<1>3. \A k \in Keys : value[k] \in Nat
  BY <1>1 DEF ListType, Values
<1>4. CASE Count
  <2>1. /\ UNCHANGED <<next, height, value, maxHeight>>
        /\ wpc = "count" /\ wpc' = "idle"
    BY <1>4 DEF Count, InsertReturn
  <2>2. \A l \in Levels : In(l)' = In(l)
    BY <2>1 DEF In
  <2>3. LinksOrdered'
    BY <2>1, <2>2 DEF LinksOrdered
  <2> QED BY <1>3, <2>1, <2>2, <2>3 DEF WriterInv
<1>5. CASE ReplaceValue
  <2>1. /\ UNCHANGED <<next, height, maxHeight>>
        /\ wpc = "place" /\ wpc' = "idle"
        /\ value' = [value EXCEPT ![wkey] = @ + 1] /\ next[wx][1] = wkey
    BY <1>5 DEF ReplaceValue, InsertReturn
  <2>2. \A l \in Levels : In(l)' = In(l)
    BY <2>1 DEF In
  <2>3. LinksOrdered'
    BY <2>1, <2>2 DEF LinksOrdered
  <2>4. \A k \in Keys : value'[k] = IF k = wkey THEN value[k] + 1 ELSE value[k]
    BY <1>1, <2>1 DEF ListType, Values
  <2>5. \A l \in {1} : l \in Levels /\ l <= maxHeight
    BY <1>1, SizesAssumption DEF ListType, Levels
  <2>6. value[wkey] # 0 /\ height[wkey] # 0
    <3>1. Precedes(1) /\ wx = prev[1]
      BY <2>1, <2>5 DEF WriterInv
    <3>2. wkey \in In(1)
      BY <1>2, <2>1, <2>5, <3>1, SizesAssumption DEF LinksOrdered, Precedes, Keys, Null
    <3>3. 1 <= height[wkey] /\ height[wkey] # 0
      BY <1>1, <2>5, <3>2, InLevels
    <3> QED BY <1>2, <3>3 DEF WriterInv
  <2> QED BY <1>2, <1>3, <2>1, <2>2, <2>3, <2>4, <2>6 DEF WriterInv
<1>6. ASSUME NEW h \in Levels, NewNode(h)
      PROVE  /\ LinksOrdered' /\ WriterInv'
             /\ \A l \in Levels : In(l)' = In(l)
             /\ \A k \in Keys : value[k] <= value'[k]
  <2>1. /\ wpc = "place" /\ wpc' = "set" /\ wlvl' = 1 /\ wheight' = h
        /\ wkey' = wkey /\ next[wx][1] # wkey
        /\ maxHeight' = IF h > maxHeight THEN h ELSE maxHeight
    BY <1>6 DEF NewNode
  <2>2. \A k \in Nodes : height'[k] = IF k = wkey THEN h ELSE height[k]
    BY <1>1, <1>6 DEF NewNode, NodeOfHeight, ListType
  <2>3. \A k \in Keys : value'[k] = IF k = wkey THEN 1 ELSE value[k]
    BY <1>1, <1>6 DEF NewNode, ListType, Values
  <2>4. \A l \in Levels : prev'[l] = IF maxHeight < l /\ l <= h THEN HeadNode ELSE prev[l]
    BY <1>6 DEF NewNode, PrevUpTo
  <2>5. /\ 1 \in Levels /\ 1 <= maxHeight /\ maxHeight \in Nat /\ h \in Nat /\ h # 0 /\ h <= MaxHeight
        /\ \A l \in Levels : 1 <= l /\ l \in Nat
        /\ \A k \in Keys : k \in Nat /\ k \in Nodes /\ k # HeadNode /\ HeadNode < k
        /\ HeadNode \in Nodes
        /\ \A k \in Nodes : height[k] \in Nat
    BY <1>1, SizesAssumption DEF ListType, Levels, Keys, Nodes, HeadNode
  <2>6. \A l \in Levels : l <= maxHeight => Precedes(l)
    BY <2>1 DEF WriterInv
  <2>7. wkey \notin In(1)
    <3>1. Precedes(1) /\ wx = prev[1]
      BY <2>1, <2>5 DEF WriterInv
    <3>2. next[wx][1] \in Nat /\ wx \in Nat
      <4>1. wx \in Nodes /\ next \in [Nodes -> Links]
        BY <1>1 DEF WriterType, ListType
      <4>2. next[wx][1] \in 1 .. Null
        BY <2>5, <4>1, LinkIn
      <4> QED BY <4>1, <4>2, SizesAssumption DEF Nodes, Null
    <3> QED BY <1>2, <2>1, <2>5, <3>1, <3>2 DEF LinksOrdered, Precedes
  <2>8. height[wkey] = 0 /\ value[wkey] = 0
    BY <1>1, <1>2, <2>1, <2>5, <2>7 DEF In, WriterInv
  <2>9. \A l \in Levels : In(l)' = In(l)
    <3> SUFFICES ASSUME NEW l \in Levels, NEW k \in Keys
                 PROVE  k \in In(l)' <=> k \in In(l)
      BY DEF In
    <3>1. CASE k = wkey
      BY <2>1, <2>5, <2>8, <3>1 DEF In
    <3>2. CASE k # wkey
      BY <2>1, <2>2, <2>5, <3>2 DEF In
    <3> QED BY <3>1, <3>2
  <2>10. LinksOrdered'
    BY <1>2, <2>9 DEF LinksOrdered
  <2>11. \A k \in Keys : value[k] <= value'[k]
    BY <1>3, <2>3, <2>8
  <2>12. /\ height'[HeadNode] = MaxHeight
         /\ \A k \in Keys : height'[k] <= maxHeight' /\ (value'[k] = 0 <=> height'[k] = 0)
    BY <1>2, <2>1, <2>2, <2>3, <2>5 DEF WriterInv
  <2>13. ASSUME NEW l \in Levels, l <= h PROVE Precedes(l)'
    <3>1. CASE l <= maxHeight
      <4>1. prev'[l] = prev[l] /\ Precedes(l)
        BY <2>4, <2>5, <2>6, <3>1
      <4> QED BY <1>2, <2>1, <2>9, <4>1 DEF Precedes
    <3>2. CASE maxHeight < l
      <4>1. prev'[l] = HeadNode
        BY <2>4, <2>13, <3>2
      <4>2. In(l) = {}
        <5> SUFFICES ASSUME NEW k \in Keys, l <= height[k] PROVE FALSE
          BY DEF In
        <5>1. height[k] <= maxHeight
          BY DEF WriterInv
        <5> QED BY <2>5, <3>2, <5>1
      <4>3. next[HeadNode][l] = Null
        BY <4>2 DEF LinksOrdered
      <4>4. wkey <= Null
        BY <1>2, SizesAssumption DEF Keys, Null
      <4> QED BY <1>2, <2>1, <2>5, <2>9, <4>1, <4>3, <4>4 DEF Precedes
    <3> QED BY <2>5, <3>1, <3>2
  <2>14. WriterInv'
    <3>1. height'[wkey] = h
      BY <1>2, <2>2, <2>5
    <3> QED BY <2>1, <2>5, <2>12, <2>13, <3>1 DEF WriterInv
  <2> QED BY <2>9, <2>10, <2>11, <2>14
<1> QED BY <1>4, <1>5, <1>6

(* A node gets its successor at a level, and then its predecessor gets it. *)
LEMMA LinkKeeps ==
    ASSUME TypeOK, TypeOK', LinksOrdered, WriterInv, SetNext \/ Link
    PROVE  /\ LinksOrdered' /\ WriterInv'
           /\ \A l \in Levels : In(l) \subseteq In(l)'
           /\ value' = value /\ UNCHANGED readerVars
<1>1. ListType /\ WriterType /\ ListType' /\ WriterType'
  BY TypeParts
<1>2. /\ wpc \in {"set", "link"} /\ wkey \in Keys /\ wlvl \in Levels
      /\ prev[wlvl] \in Nodes /\ wheight \in Levels
      /\ UNCHANGED <<height, value, maxHeight, count, wkey, wx, prev, wheight, readerVars>>
  BY <1>1 DEF SetNext, Link, WriterType
<1>3. /\ height[wkey] = wheight /\ wlvl <= wheight
      /\ \A l \in Levels : wlvl <= l /\ l <= wheight => Precedes(l)
  BY <1>2 DEF WriterInv
<1>4. /\ \A l \in Levels : l \in Nat
      /\ \A k \in Keys : k \in Nat /\ k \in Nodes /\ k # HeadNode /\ k \in 1 .. Null /\ k < Null
      /\ Null \in Nat
  BY SizesAssumption DEF Levels, Keys, Nodes, HeadNode, Null
<1>5. Precedes(wlvl) /\ wkey \notin In(wlvl)
  BY <1>2, <1>3, <1>4 DEF In
<1> DEFINE p == prev[wlvl]
           s == next[p][wlvl]
<1>6. /\ p \in In(wlvl) \cup {HeadNode} /\ p < wkey /\ wkey <= s /\ s \in In(wlvl) \cup {Null}
      /\ \A k \in In(wlvl) : k <= p \/ s <= k
  BY <1>2, <1>5 DEF Precedes, LinksOrdered
<1>7. s \in 1 .. Null /\ p \in Nat
  <2>1. s \in 1 .. Null
    BY <1>1, <1>2, LinkIn DEF ListType
  <2> QED BY <1>2, <2>1, SizesAssumption DEF Nodes
<1>8. wkey < s
  BY <1>2, <1>4, <1>5, <1>6, <1>7
<1> HIDE DEF p, s
<1>9. CASE SetNext
  <2>1. wpc = "set" /\ wpc' = "link" /\ wlvl' = wlvl
    BY <1>9 DEF SetNext
  <2>2. \A x \in Nodes, l \in Levels :
           next'[x][l] = IF x = wkey /\ l = wlvl THEN s ELSE next[x][l]
    <3>1. StoreTo(wkey, wlvl, s)
      BY <1>9 DEF SetNext, Successor, StoreTo, s, p
    <3>2. next \in [Nodes -> Links] /\ wkey \in Nodes
      BY <1>1, <1>2, <1>4 DEF ListType
    <3> QED BY <1>2, <1>7, <3>1, <3>2, StoreLink
  <2>3. \A l \in Levels : In(l)' = In(l)
    BY <1>2, <2>1 DEF In
  <2>4. ASSUME NEW l \in Levels, NEW x \in In(l) \cup {HeadNode} PROVE next'[x][l] = next[x][l]
    <3>1. x \in Nodes
      BY <1>1, <1>4, <2>4, InLevels, SizesAssumption DEF HeadNode, Nodes
    <3>2. ~(x = wkey /\ l = wlvl)
      BY <1>2, <1>4, <1>5, <2>4
    <3> QED BY <2>2, <3>1, <3>2
  <2>5. LinksOrdered'
    BY <2>3, <2>4 DEF LinksOrdered
  <2>6. ASSUME NEW l \in Levels, Precedes(l) PROVE Precedes(l)'
    <3>1. prev[l] \in In(l) \cup {HeadNode}
      BY <2>6 DEF Precedes
    <3> QED BY <1>2, <2>3, <2>4, <2>6, <3>1 DEF Precedes
  <2>7. next'[wkey][wlvl] = next'[prev[wlvl]][wlvl]
    <3>1. next'[wkey][wlvl] = s
      BY <1>2, <1>4, <2>2
    <3>2. next'[p][wlvl] = s
      BY <1>2, <1>6, <2>4 DEF s
    <3> QED BY <3>1, <3>2 DEF p
  <2>8. WriterInv'
    BY <1>2, <1>3, <2>1, <2>6, <2>7 DEF WriterInv
  <2> QED BY <1>2, <2>3, <2>5, <2>8
<1>10. CASE Link
  <2>1. /\ wpc = "link"
        /\ IF wlvl = wheight THEN wpc' = "count" /\ wlvl' = wlvl
                             ELSE wpc' = "set" /\ wlvl' = wlvl + 1
    BY <1>10 DEF Link
  <2>2. \A x \in Nodes, l \in Levels :
           next'[x][l] = IF x = p /\ l = wlvl THEN wkey ELSE next[x][l]
    <3>1. StoreTo(p, wlvl, wkey) /\ p \in Nodes
      BY <1>2, <1>10 DEF Link, StoreTo, p
    <3>2. next \in [Nodes -> Links] /\ wkey \in 1 .. Null
      BY <1>1, <1>2, <1>4 DEF ListType
    <3> QED BY <1>2, <3>1, <3>2, StoreLink
  <2>3. next[wkey][wlvl] = s
    BY <2>1 DEF WriterInv, s, p
  <2>4. \A l \in Levels : In(l)' = IF l = wlvl THEN In(l) \cup {wkey} ELSE In(l)
    <3> SUFFICES ASSUME NEW l \in Levels, NEW k \in Keys
                 PROVE  k \in In(l)' <=> k \in In(l) \/ (l = wlvl /\ k = wkey)
      BY <1>2 DEF In
    <3>1. CASE k # wkey
      BY <1>2, <3>1 DEF In
    <3>2. CASE k = wkey
      BY <1>2, <1>3, <1>4, <2>1, <3>2 DEF In
    <3> QED BY <3>1, <3>2
  <2>5. ASSUME NEW l \in Levels, NEW x \in In(l) \cup {HeadNode}, l # wlvl \/ x # p
        PROVE  next'[x][l] = next[x][l]
    <3>1. x \in Nodes
      BY <1>1, <1>4, <2>5, InLevels, SizesAssumption DEF HeadNode, Nodes
    <3> QED BY <2>2, <2>5, <3>1
  <2>6. LinksOrdered'
    <3> SUFFICES ASSUME NEW l \in Levels, NEW x \in In(l)' \cup {HeadNode}
                 PROVE  /\ next'[x][l] \in In(l)' \cup {Null}
                        /\ x < next'[x][l]
                        /\ \A k \in In(l)' : k <= x \/ next'[x][l] <= k
      BY DEF LinksOrdered
    <3>1. CASE l # wlvl
      BY <2>4, <2>5, <3>1 DEF LinksOrdered
    <3>2. CASE l = wlvl /\ x = wkey
      <4>1. next'[x][l] = s
        BY <1>2, <1>4, <1>6, <2>2, <2>3, <3>2
      <4>2. In(l)' = In(l) \cup {wkey}
        BY <2>4, <3>2
      <4>3. s \in In(l)' \cup {Null}
        BY <1>6, <3>2, <4>2
      <4>4. ASSUME NEW k \in In(l)' PROVE k <= wkey \/ s <= k
        <5>1. CASE k \in In(l)
          <6>1. k \in Nat /\ (k <= p \/ s <= k)
            BY <1>1, <1>4, <1>6, <3>2, <5>1, InLevels
          <6> QED BY <1>2, <1>4, <1>6, <1>7, <6>1
        <5> QED BY <1>2, <1>4, <4>2, <4>4, <5>1
      <4> QED BY <1>8, <3>2, <4>1, <4>3, <4>4
    <3>3. CASE l = wlvl /\ x = p /\ x # wkey
      <4>1. next'[x][l] = wkey
        BY <1>2, <2>2, <3>3 DEF p
      <4>2. In(l)' = In(l) \cup {wkey}
        BY <2>4, <3>3
      <4>3. ASSUME NEW k \in In(l)' PROVE k <= p \/ wkey <= k
        <5>1. CASE k \in In(l)
          <6>1. k \in Nat /\ (k <= p \/ s <= k)
            BY <1>1, <1>4, <1>6, <3>3, <5>1, InLevels
          <6> QED BY <1>2, <1>4, <1>7, <1>8, <6>1
        <5> QED BY <1>2, <1>4, <4>2, <4>3, <5>1
      <4> QED BY <1>6, <3>3, <4>1, <4>2, <4>3
    <3>4. CASE l = wlvl /\ x # p /\ x # wkey
      <4>1. /\ x \in In(l) \cup {HeadNode} /\ x \in Nat
        BY <1>1, <1>4, <2>4, <3>4, InLevels DEF HeadNode
      <4>2. next'[x][l] = next[x][l]
        BY <2>5, <3>4, <4>1
      <4>3. /\ next[x][l] \in In(l) \cup {Null} /\ x < next[x][l]
            /\ \A k \in In(l) : k <= x \/ next[x][l] <= k
        BY <4>1 DEF LinksOrdered
      <4>4. next[x][l] \in Nat
        BY <1>1, <1>4, <4>3, InLevels
      <4>5. wkey <= x \/ next[x][l] <= wkey
        <5>1. CASE x \in In(l)
          <6>1. x <= p \/ s <= x
            BY <1>6, <3>4, <5>1
          <6>2. CASE s <= x
            BY <1>2, <1>4, <1>7, <1>8, <4>1, <6>2
          <6>3. CASE x <= p
            <7>1. p \in In(l)
              BY <1>6, <1>7, <3>4, <4>1, <5>1, <6>3, <1>4, InLevels, <1>1 DEF HeadNode
            <7>2. next[x][l] <= p
              BY <1>7, <3>4, <4>1, <4>3, <6>3, <7>1
            <7> QED BY <1>2, <1>4, <1>6, <1>7, <4>4, <7>2
          <6> QED BY <6>1, <6>2, <6>3
        <5>2. CASE x = HeadNode
          <6>1. p \in In(l)
            BY <1>6, <3>4, <5>2
          <6>2. next[x][l] <= p
            <7>1. p # 0
              BY <3>4, <5>2 DEF HeadNode
            <7> QED BY <1>7, <4>3, <5>2, <6>1, <7>1 DEF HeadNode
          <6> QED BY <1>2, <1>4, <1>6, <1>7, <4>4, <6>2
        <5> QED BY <4>1, <5>1, <5>2
      <4> QED BY <2>4, <3>4, <4>2, <4>3, <4>5
    <3> QED BY <3>1, <3>2, <3>3, <3>4
  <2>7. ASSUME NEW l \in Levels, l # wlvl, Precedes(l) PROVE Precedes(l)'
    <3>1. prev[l] \in In(l) \cup {HeadNode}
      BY <2>7 DEF Precedes
    <3> QED BY <1>2, <2>4, <2>5, <2>7, <3>1 DEF Precedes
  <2>8. WriterInv'
    <3>1. CASE wlvl = wheight
      BY <1>2, <2>1, <3>1 DEF WriterInv
    <3>2. CASE wlvl # wheight
      <4>1. wpc' = "set" /\ wlvl' = wlvl + 1
        BY <2>1, <3>2
      <4>2. /\ wlvl' <= wheight
            /\ \A l \in Levels : wlvl' <= l => wlvl <= l /\ l # wlvl
        BY <1>2, <1>3, <1>4, <3>2, <4>1
      <4> QED BY <1>2, <1>3, <2>7, <4>1, <4>2 DEF WriterInv
    <3> QED BY <3>1, <3>2
  <2> QED BY <1>2, <2>4, <2>6, <2>8
<1> QED BY <1>9, <1>10

-----------------------------------------------------------------------------
(* A scan. *)

LEMMA ScanKeepsOthers ==
    ASSUME TypeOK, NEW r \in Readers,
           Scan(r) \/ \E first, last \in Keys : ScanBegin(r, first, last)
    PROVE  /\ UNCHANGED <<listVars, writerVars>>
           /\ \A l \in Levels : In(l)' = In(l)
           /\ \A q \in Readers \ {r} :
                 /\ rpc'[q] = rpc[q] /\ range'[q] = range[q] /\ rx'[q] = rx[q]
                 /\ rlvl'[q] = rlvl[q] /\ got'[q] = got[q] /\ before'[q] = before[q]
<1>1. UNCHANGED <<listVars, writerVars>>
  BY DEF Scan, ScanBegin, Seek, Deliver, Advance, ScanEnd, ReaderStep
<1>2. \A l \in Levels : In(l)' = In(l)
  BY <1>1 DEF In, listVars, writerVars
<1>3. ReaderType
  BY TypeParts
<1>4. ASSUME NEW q \in Readers \ {r}
      PROVE  /\ rpc'[q] = rpc[q] /\ range'[q] = range[q] /\ rx'[q] = rx[q]
             /\ rlvl'[q] = rlvl[q] /\ got'[q] = got[q] /\ before'[q] = before[q]
  <2>1. ASSUME NEW first \in Keys, NEW last \in Keys, ScanBegin(r, first, last)
        PROVE  /\ rpc'[q] = rpc[q] /\ range'[q] = range[q] /\ rx'[q] = rx[q]
               /\ rlvl'[q] = rlvl[q] /\ got'[q] = got[q] /\ before'[q] = before[q]
    BY <1>3, <2>1 DEF ReaderType, ScanBegin, ReaderStep
  <2>2. CASE Seek(r)
    BY <1>3, <2>2 DEF ReaderType, Seek, ReaderStep
  <2>3. CASE Deliver(r) \/ Advance(r) \/ ScanEnd(r)
    BY <1>3, <2>3 DEF ReaderType, Deliver, Advance, ScanEnd, ReaderStep
  <2> QED BY <2>1, <2>2, <2>3 DEF Scan
<1> QED BY <1>1, <1>2, <1>4

(* What is known of a reader depends on its own state and on the list. *)
LEMMA ReaderFrame ==
    ASSUME ReaderType, NEW q \in Readers, ReaderAt(q), ReaderHas(q), UNCHANGED listVars,
           \A l \in Levels : In(l)' = In(l), 1 \in Levels,
           rpc'[q] = rpc[q], range'[q] = range[q], rx'[q] = rx[q],
           rlvl'[q] = rlvl[q], got'[q] = got[q], before'[q] = before[q]
    PROVE  ReaderAt(q)' /\ ReaderHas(q)'
<1>1. value' = value
  BY DEF listVars
<1>2. HadUpTo(q, rx[q])' <=> HadUpTo(q, rx[q])
  BY DEF HadUpTo
<1>3. In(rlvl[q])' = In(rlvl[q]) /\ In(1)' = In(1)
  BY DEF ReaderType
<1>4. ReaderAt(q)'
  BY <1>1, <1>2, <1>3 DEF ReaderAt
<1>5. ReaderHas(q)'
  BY <1>1 DEF ReaderHas
<1> QED BY <1>4, <1>5

LEMMA ScanKeeps ==
    ASSUME TypeOK, TypeOK', LinksOrdered, WriterInv,
           NEW r \in Readers, ReaderAt(r), ReaderHas(r),
           Scan(r) \/ \E first, last \in Keys : ScanBegin(r, first, last)
    PROVE  ReaderAt(r)' /\ ReaderHas(r)'
<1>1. ListType /\ WriterType /\ ReaderType
  BY TypeParts
<1>2. /\ next' = next /\ value' = value /\ height' = height
      /\ \A l \in Levels : In(l)' = In(l)
  BY ScanKeepsOthers DEF listVars
<1>3. /\ \A l \in Levels : l \in Nat /\ 1 <= l
      /\ \A k \in Keys : k \in Nat /\ k \in Nodes /\ 1 <= k /\ k < Null
      /\ 1 \in Levels /\ Null \in Nat /\ HeadNode \in Nodes /\ HeadNode = 0
      /\ \A x \in Nodes : x \in Nat
  BY SizesAssumption DEF Levels, Keys, Nodes, HeadNode, Null
<1>4. \A k \in Keys : value[k] \in Nat /\ before[r][k] \in Nat
  BY <1>1 DEF ListType, ReaderType, Values
<1>5. /\ range[r] \in Keys \X Keys /\ range[r][1] \in Keys /\ range[r][2] \in Keys
      /\ got[r] \in Seq(Keys \X Nat) /\ rlvl[r] \in Levels
  BY <1>1 DEF ReaderType
<1>6. In(1) \subseteq Keys /\ In(1)' = In(1)
  BY <1>1, <1>2, <1>3, InLevels
<1>7. \A k \in Keys : before[r][k] # 0 => k \in In(1) /\ before[r][k] <= value[k]
  BY DEF ReaderAt
<1>8. ASSUME NEW first \in Keys, NEW last \in Keys, ScanBegin(r, first, last)
      PROVE  ReaderAt(r)' /\ ReaderHas(r)'
  <2>1. /\ rpc'[r] = "seek" /\ range'[r] = <<first, last>> /\ range'[r][1] = first
        /\ rx'[r] = HeadNode /\ got'[r] = <<>> /\ before'[r] = Held
    BY <1>1, <1>8 DEF ScanBegin, ReaderStep, ReaderType, ReaderAt
  <2>2. \A k \in Keys : before'[r][k] # 0 => k \in In(1)' /\ before'[r][k] <= value'[k]
    BY <1>2, <1>4, <1>6, <2>1 DEF Held
  <2>3. HeadNode < first
    BY <1>3
  <2> QED BY <2>1, <2>2, <2>3 DEF ReaderAt, ReaderHas
<1>9. CASE Seek(r)
  <2> DEFINE nx == next[rx[r]][rlvl[r]]
  <2>1. /\ rpc[r] = "seek" /\ got[r] = <<>>
        /\ rx[r] \in In(rlvl[r]) \cup {HeadNode} /\ rx[r] < range[r][1]
    BY <1>9 DEF Seek, ReaderAt
  <2>2. /\ nx \in In(rlvl[r]) \cup {Null} /\ rx[r] < nx
        /\ \A k \in In(rlvl[r]) : k <= rx[r] \/ nx <= k
    BY <1>5, <2>1 DEF LinksOrdered
  <2>3. In(rlvl[r]) \subseteq Keys /\ rx[r] \in Nat /\ nx \in Nat
    BY <1>1, <1>3, <1>5, <2>1, <2>2, InLevels
  <2>4. /\ range'[r] = range[r] /\ got'[r] = got[r] /\ before'[r] = before[r]
    BY <1>9 DEF Seek
  <2> HIDE DEF nx
  <2>5. CASE nx < range[r][1]
    <3>1. rpc'[r] = "seek" /\ rx'[r] = nx /\ rlvl'[r] = rlvl[r]
      BY <1>1, <1>9, <2>5 DEF Seek, ReaderStep, ReaderType, nx
    <3>2. nx \in In(rlvl[r])
      BY <1>3, <1>5, <2>2, <2>3, <2>5
    <3>3. rx'[r] \in In(rlvl[r])'
      BY <1>2, <1>5, <3>1, <3>2
    <3> QED BY <1>2, <1>6, <1>7, <2>1, <2>4, <2>5, <3>1, <3>3 DEF ReaderAt, ReaderHas
  <2>6. CASE ~(nx < range[r][1]) /\ rlvl[r] = 1
    <3>1. rpc'[r] = "at" /\ rx'[r] = nx
      BY <1>1, <1>9, <2>6 DEF Seek, ReaderStep, ReaderType, nx
    <3>2. range[r][1] <= nx
      BY <1>3, <1>5, <2>3, <2>6
    <3>3. \A k \in Keys : ~(before[r][k] # 0 /\ range[r][1] <= k /\ k < nx)
      <4> SUFFICES ASSUME NEW k \in Keys, before[r][k] # 0, range[r][1] <= k, k < nx
                   PROVE  FALSE
        OBVIOUS
      <4>1. k <= rx[r] \/ nx <= k
        BY <1>7, <2>2, <2>6
      <4> QED BY <1>3, <1>5, <2>1, <2>3, <4>1
    <3>4. ReaderAt(r)'
      BY <1>2, <1>6, <1>7, <2>1, <2>2, <2>4, <2>6, <3>1, <3>2 DEF ReaderAt
    <3> QED BY <2>1, <2>4, <3>1, <3>3, <3>4 DEF ReaderHas
  <2>7. CASE ~(nx < range[r][1]) /\ rlvl[r] # 1
    <3>1. /\ rpc'[r] = "seek" /\ rx'[r] = rx[r] /\ rlvl'[r] = rlvl[r] - 1
      BY <1>1, <1>9, <2>7 DEF Seek, ReaderStep, ReaderType, Lower, nx
    <3>2. rlvl'[r] \in Levels /\ rlvl'[r] <= rlvl[r]
      BY <1>5, <2>7, <3>1, SizesAssumption DEF Levels
    <3>3. rx'[r] \in In(rlvl'[r]) \cup {HeadNode}
      BY <1>1, <1>5, <2>1, <3>1, <3>2, InLevels
    <3>4. rx'[r] \in In(rlvl[r])' \cup {HeadNode}
      BY <1>2, <3>2, <3>3
    <3> QED BY <1>2, <1>6, <1>7, <2>1, <2>4, <3>1, <3>4 DEF ReaderAt, ReaderHas
  <2> QED BY <2>5, <2>6, <2>7
<1>10. CASE Deliver(r)
  <2>1. /\ rpc[r] = "at" /\ rpc'[r] = "next" /\ rx[r] <= range[r][2]
        /\ rx'[r] = rx[r] /\ range'[r] = range[r] /\ before'[r] = before[r]
        /\ got'[r] = Append(got[r], <<rx[r], value[rx[r]]>>)
    BY <1>1, <1>10 DEF Deliver, ReaderStep, ReaderType
  <2>2. /\ rx[r] \in In(1) \cup {Null} /\ range[r][1] <= rx[r]
        /\ \A i \in 1 .. Len(got[r]) : got[r][i][1] < rx[r]
    BY <2>1 DEF ReaderAt
  <2>3. rx[r] \in In(1) /\ rx[r] \in Keys
    BY <1>3, <1>5, <1>6, <2>1, <2>2
  <2> DEFINE n == Len(got[r])
  <2>4. /\ n \in Nat /\ Len(got'[r]) = n + 1
        /\ \A i \in 1 .. n : got'[r][i] = got[r][i] /\ got[r][i] \in Keys \X Nat
        /\ got'[r][n + 1] = <<rx[r], value[rx[r]]>>
    BY <1>4, <1>5, <2>1, <2>3
  <2>5. \A i \in 1 .. n + 1 : i \in 1 .. n \/ i = n + 1
    BY <2>4
  <2>6. ASSUME NEW k \in Keys, before[r][k] # 0, range[r][1] <= k, k <= rx[r]
        PROVE  \E i \in 1 .. n + 1 : got'[r][i][1] = k
    <3>1. CASE k = rx[r]
      BY <2>4, <3>1
    <3>2. CASE k < rx[r]
      <4>1. PICK i \in 1 .. n : got[r][i][1] = k
        BY <2>1, <2>6, <3>2 DEF ReaderHas
      <4>2. i \in 1 .. n + 1 /\ got'[r][i][1] = k
        BY <2>4, <4>1
      <4> QED BY <4>2
    <3> QED BY <1>3, <2>3, <2>6, <3>1, <3>2
  <2> HIDE DEF n
  <2>7. HadUpTo(r, rx[r])'
    BY <2>1, <2>4, <2>6 DEF HadUpTo
  <2>8. \A i \in 1 .. Len(got'[r]) : got'[r][i][1] <= rx'[r]
    BY <1>3, <2>1, <2>2, <2>3, <2>4, <2>5 DEF n
  <2>9. ReaderAt(r)'
    BY <1>2, <1>6, <1>7, <2>1, <2>2, <2>3, <2>7, <2>8 DEF ReaderAt
  <2>10. ASSUME NEW i \in 1 .. n + 1
         PROVE  /\ range[r][1] <= got'[r][i][1] /\ got'[r][i][1] <= range[r][2]
                /\ before[r][got'[r][i][1]] <= got'[r][i][2] /\ 0 < got'[r][i][2]
                /\ got'[r][i][2] <= value[got'[r][i][1]]
                /\ \A j \in 1 .. i - 1 : got'[r][j][1] < got'[r][i][1]
    <3>1. CASE i \in 1 .. n
      <4>1. \A j \in 1 .. i - 1 : j \in 1 .. n
        BY <2>4, <3>1
      <4> QED BY <2>4, <3>1, <4>1 DEF ReaderHas, n
    <3>2. CASE i = n + 1
      <4>1. got'[r][i][1] = rx[r] /\ got'[r][i][2] = value[rx[r]]
        BY <2>4, <3>2
      <4>2. value[rx[r]] # 0
        <5>1. 1 <= height[rx[r]]
          BY <1>1, <1>3, <2>3, InLevels
        <5>2. value[rx[r]] = 0 <=> height[rx[r]] = 0
          BY <2>3 DEF WriterInv
        <5> QED BY <5>1, <5>2
      <4>3. before[r][rx[r]] <= value[rx[r]] /\ 0 < value[rx[r]]
        BY <1>4, <1>7, <2>3, <4>2
      <4>4. value[rx[r]] <= value[rx[r]]
        BY <1>4, <2>3
      <4>5. \A j \in 1 .. i - 1 : got'[r][j][1] < rx[r]
        BY <2>2, <2>4, <3>2 DEF n
      <4> QED BY <2>1, <2>2, <4>1, <4>3, <4>4, <4>5
    <3> QED BY <2>5, <3>1, <3>2
  <2>11. ReaderHas(r)'
    BY <1>2, <2>1, <2>4, <2>10 DEF ReaderHas
  <2> QED BY <2>9, <2>11
<1>11. CASE Advance(r)
  <2>1. /\ rpc[r] = "next" /\ rpc'[r] = "at" /\ rx'[r] = next[rx[r]][1]
        /\ range'[r] = range[r] /\ before'[r] = before[r] /\ got'[r] = got[r]
    BY <1>1, <1>11 DEF Advance, ReaderStep, ReaderType
  <2>2. /\ rx[r] \in In(1) /\ range[r][1] <= rx[r] /\ HadUpTo(r, rx[r])
        /\ \A i \in 1 .. Len(got[r]) : got[r][i][1] <= rx[r]
    BY <2>1 DEF ReaderAt
  <2> DEFINE nx == next[rx[r]][1]
  <2>3. /\ nx \in In(1) \cup {Null} /\ rx[r] < nx
        /\ \A k \in In(1) : k <= rx[r] \/ nx <= k
    BY <1>3, <2>2 DEF LinksOrdered
  <2>4. nx \in Nat /\ rx[r] \in Nat /\ range[r][1] \in Nat
    BY <1>3, <1>5, <1>6, <2>2, <2>3
  <2>5. \A i \in 1 .. Len(got[r]) : got[r][i][1] \in Nat
    BY <1>3, <1>5
  <2> HIDE DEF nx
  <2>6. rx'[r] = nx /\ range[r][1] <= nx
    BY <2>1, <2>2, <2>3, <2>4 DEF nx
  <2>7. \A i \in 1 .. Len(got[r]) : got[r][i][1] < nx
    BY <2>2, <2>3, <2>4, <2>5
  <2>8. ReaderAt(r)'
    BY <1>2, <1>6, <1>7, <2>1, <2>3, <2>6, <2>7 DEF ReaderAt
  <2>9. ASSUME NEW k \in Keys, before[r][k] # 0, range[r][1] <= k, k < nx
        PROVE  \E i \in 1 .. Len(got[r]) : got[r][i][1] = k
    <3>1. k <= rx[r]
      BY <1>3, <1>7, <2>3, <2>4, <2>9
    <3> QED BY <2>2, <2>9, <3>1 DEF HadUpTo
  <2> QED BY <1>2, <2>1, <2>6, <2>8, <2>9 DEF ReaderHas
<1>12. CASE ScanEnd(r)
  <2>1. /\ rpc'[r] = "idle" /\ rx'[r] = HeadNode /\ got'[r] = <<>>
        /\ \A k \in Keys : before'[r][k] = 0
    BY <1>1, <1>12 DEF ScanEnd, ReaderStep, ReaderType
  <2> QED BY <2>1 DEF ReaderAt, ReaderHas
<1> QED BY <1>8, <1>9, <1>10, <1>11, <1>12 DEF Scan

-----------------------------------------------------------------------------
LEMMA InitInv == Init => SkipInv
<1> SUFFICES ASSUME Init PROVE SkipInv
  OBVIOUS
<1> USE SizesAssumption
<1>1. /\ \A x \in Nodes, l \in Levels : next[x][l] = Null
      /\ \A x \in Nodes : height[x] = IF x = HeadNode THEN MaxHeight ELSE 0
      /\ \A k \in Keys : value[k] = 0
      /\ \A r \in Readers : /\ rpc[r] = "idle" /\ rx[r] = HeadNode /\ got[r] = <<>>
                             /\ \A k \in Keys : before[r][k] = 0
      /\ maxHeight = 1 /\ wpc = "idle"
  BY DEF Init
<1>2. /\ \A k \in Keys : k \in Nodes /\ k # HeadNode
      /\ HeadNode \in Nodes /\ HeadNode < Null
      /\ \A l \in Levels : l \in Nat /\ 1 <= l
  BY DEF Keys, Nodes, HeadNode, Null, Levels
<1>3. \A l \in Levels : In(l) = {}
  BY <1>1, <1>2 DEF In
<1>4. LinksOrdered
  BY <1>1, <1>2, <1>3 DEF LinksOrdered
<1>5. WriterInv
  BY <1>1, <1>2 DEF WriterInv
<1>6. \A r \in Readers : ReaderAt(r) /\ ReaderHas(r)
  BY <1>1 DEF ReaderAt, ReaderHas
<1> QED BY <1>4, <1>5, <1>6 DEF SkipInv

LEMMA NextInv ==
    ASSUME TypeOK, SkipInv, [Next]_vars
    PROVE  TypeOK' /\ SkipInv'
<1>1. LinksOrdered /\ WriterInv /\ \A r \in Readers : ReaderAt(r) /\ ReaderHas(r)
  BY DEF SkipInv
<1>2. ListType /\ WriterType /\ ReaderType
  BY TypeParts
<1>3. 1 \in Levels
  BY SizesAssumption DEF Levels
<1>4. CASE (\E k \in Keys : InsertBegin(k)) \/ Insertion
  <2>1. TypeOK'
    BY <1>1, <1>4, WriterKeepsTypes DEF WriterInv
  <2>2. ListType'
    BY <2>1, TypeParts
  <2>3. \A k \in Keys : value[k] \in Nat
    BY <1>2 DEF ListType, Values
  <2>4. /\ LinksOrdered' /\ WriterInv' /\ UNCHANGED readerVars
        /\ \A l \in Levels : In(l) \subseteq In(l)'
        /\ \A k \in Keys : value[k] <= value'[k]
    <3>1. CASE (\E k \in Keys : InsertBegin(k)) \/ FindPrev
      BY <1>1, <2>1, <2>3, <3>1, FindKeeps DEF listVars
    <3>2. CASE ReplaceValue \/ Count \/ \E h \in Levels : NewNode(h)
      <4>1. UNCHANGED readerVars
        BY <3>2 DEF ReplaceValue, Count, NewNode
      <4> QED BY <1>1, <2>1, <3>2, <4>1, PlaceKeeps
    <3>3. CASE SetNext \/ Link
      BY <1>1, <2>1, <2>3, <3>3, LinkKeeps
    <3> QED BY <1>4, <3>1, <3>2, <3>3 DEF Insertion
  <2>5. In(1) \subseteq In(1)'
    BY <1>3, <2>4
  <2>6. \A r \in Readers : ReaderAt(r)' /\ ReaderHas(r)'
    BY <1>1, <1>2, <2>2, <2>4, <2>5, ReadersKeep, SizesAssumption
  <2> QED BY <2>1, <2>4, <2>6 DEF SkipInv
<1>5. ASSUME NEW r \in Readers, Scan(r) \/ \E first, last \in Keys : ScanBegin(r, first, last)
      PROVE  TypeOK' /\ SkipInv'
  <2>1. TypeOK'
    <3>1. \A l \in Levels : In(l) \subseteq Keys
      BY <1>2, InLevels
    <3>2. /\ rlvl[r] \in Levels /\ Keys \subseteq Nodes /\ HeadNode \in Nodes
      BY <1>2, SizesAssumption DEF ReaderType, Keys, Nodes, HeadNode
    <3>3. /\ rpc[r] = "seek" => rx[r] \in Nodes
          /\ rpc[r] = "at" => rx[r] \in Keys \cup {Null}
          /\ rpc[r] = "next" => rx[r] \in Keys
      BY <1>1, <1>3, <3>1, <3>2 DEF ReaderAt
    <3> QED BY <1>5, <3>3, ReaderKeepsTypes
  <2>2. /\ UNCHANGED <<listVars, writerVars>>
        /\ \A l \in Levels : In(l)' = In(l)
        /\ \A q \in Readers \ {r} :
              /\ rpc'[q] = rpc[q] /\ range'[q] = range[q] /\ rx'[q] = rx[q]
              /\ rlvl'[q] = rlvl[q] /\ got'[q] = got[q] /\ before'[q] = before[q]
    BY <1>5, ScanKeepsOthers
  <2>3. ReaderAt(r)' /\ ReaderHas(r)'
    BY <1>1, <1>5, <2>1, ScanKeeps
  <2>4. ASSUME NEW q \in Readers, q # r PROVE ReaderAt(q)' /\ ReaderHas(q)'
    BY <1>1, <1>2, <1>3, <2>2, <2>4, ReaderFrame
  <2>5. LinksOrdered'
    BY <1>1, <2>2 DEF LinksOrdered, listVars
  <2>6. WriterInv'
    <3>1. \A l \in Levels : Precedes(l) => Precedes(l)'
      BY <2>2 DEF Precedes, listVars, writerVars
    <3>2. wlvl \in Levels
      BY <1>2 DEF WriterType
    <3>3. /\ UNCHANGED listVars /\ UNCHANGED writerVars
          /\ In(wlvl)' = In(wlvl)
      BY <2>2, <3>2 DEF writerVars
    <3> QED BY <1>1, <3>1, <3>3 DEF WriterInv, listVars, writerVars
  <2> QED BY <2>1, <2>3, <2>4, <2>5, <2>6 DEF SkipInv
<1>6. CASE UNCHANGED vars
  <2>1. TypeOK'
    BY <1>6 DEF TypeOK, vars, listVars, writerVars, readerVars
  <2>2. \A l \in Levels : In(l)' = In(l)
    BY <1>6 DEF In, vars, listVars, writerVars
  <2>3. LinksOrdered'
    BY <1>1, <1>6, <2>2 DEF LinksOrdered, vars, listVars
  <2>4. WriterInv'
    <3>1. \A l \in Levels : Precedes(l) => Precedes(l)'
      BY <1>6, <2>2 DEF Precedes, vars, listVars, writerVars
    <3>2. In(wlvl)' = In(wlvl)
      BY <1>2, <1>6, <2>2 DEF WriterType, vars, writerVars
    <3> QED BY <1>1, <1>6, <3>1, <3>2 DEF WriterInv, vars, listVars, writerVars
  <2>5. ASSUME NEW q \in Readers PROVE ReaderAt(q)' /\ ReaderHas(q)'
    <3>1. UNCHANGED <<rpc, range, rx, rlvl, got, before, listVars>>
      BY <1>6 DEF vars, readerVars
    <3> QED BY <1>1, <1>2, <1>3, <2>2, <3>1, ReaderFrame
  <2> QED BY <2>1, <2>3, <2>4, <2>5 DEF SkipInv
<1> QED BY <1>4, <1>5, <1>6 DEF Next

LEMMA SkipInvariant == Spec => [](TypeOK /\ SkipInv)
<1>1. Init => TypeOK /\ SkipInv
  BY InitType, InitInv
<1>2. TypeOK /\ SkipInv /\ [Next]_vars => (TypeOK /\ SkipInv)'
  BY NextInv
<1> QED BY <1>1, <1>2, PTL DEF Spec

(* At every step of an insertion the links of a level run through exactly  *)
(* the keys linked there, in order (skiplist.hpp:167-193).                 *)
THEOREM ListOrdered == Spec => []LinksOrdered
<1>1. SkipInv => LinksOrdered
  BY DEF SkipInv
<1> QED BY <1>1, SkipInvariant, PTL

(* No thread follows a link that a node does not have, whatever heights    *)
(* nodes get and whichever value of max_height_ a reader loads             *)
(* (skiplist.hpp:126-154).                                                 *)
THEOREM LinksInside == Spec => []InsideNode
<1>1. TypeOK /\ SkipInv => InsideNode
  <2> SUFFICES ASSUME TypeOK, SkipInv PROVE InsideNode
    OBVIOUS
  <2>1. ListType /\ WriterType /\ ReaderType
    BY TypeParts
  <2>2. WriterInv /\ \A r \in Readers : ReaderAt(r)
    BY DEF SkipInv
  <2>3. /\ 1 \in Levels /\ \A l \in Levels : l <= MaxHeight /\ l \in Nat
        /\ \A r \in Readers : rlvl[r] \in Levels
        /\ wlvl \in Levels
    BY <2>1, SizesAssumption DEF Levels, ReaderType, WriterType
  <2>4. \A l \in Levels : \A x \in In(l) \cup {HeadNode} : l <= height[x]
    BY <2>1, <2>2, <2>3, InLevels DEF WriterInv
  <2>5. wpc = "find" => wlvl <= height[wx]
    BY <2>2, <2>3, <2>4 DEF WriterInv
  <2>6. wpc = "set" => wlvl <= height[wkey] /\ wlvl <= height[prev[wlvl]]
    <3> SUFFICES ASSUME wpc = "set" PROVE wlvl <= height[wkey] /\ wlvl <= height[prev[wlvl]]
      OBVIOUS
    <3>1. height[wkey] = wheight /\ wlvl <= wheight
      BY <2>2 DEF WriterInv
    <3>2. Precedes(wlvl)
      BY <2>2, <2>3, <3>1 DEF WriterInv
    <3> QED BY <2>3, <2>4, <3>1, <3>2 DEF Precedes
  <2>7. ASSUME NEW r \in Readers
        PROVE  /\ rpc[r] = "seek" => rlvl[r] <= height[rx[r]]
               /\ rpc[r] = "next" => 1 <= height[rx[r]]
    BY <2>2, <2>3, <2>4 DEF ReaderAt
  <2> QED BY <2>5, <2>6, <2>7 DEF InsideNode
<1> QED BY <1>1, SkipInvariant, PTL

(* Every variable keeps its type: levels stay within kMaxHeight while the  *)
(* writer links and the readers descend (skiplist.hpp:126-154, 167-189).   *)
THEOREM SkipTypes == Spec => []TypeOK
BY SkipInvariant, PTL

(* A scan beside an insertion gives keys in order, none twice, none of     *)
(* those it should give left out, each with a value no older than the one  *)
(* it had when the scan began (memtable.hpp:24, skiplist.hpp:30-32).       *)
THEOREM ScansSound == Spec => []ScanSound
<1>1. SkipInv => ScanSound
  BY DEF SkipInv, ReaderHas, ScanSound
<1> QED BY <1>1, SkipInvariant, PTL
=============================================================================

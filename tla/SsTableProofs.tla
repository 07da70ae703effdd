--------------------------- MODULE SsTableProofs ---------------------------
(***************************************************************************)
(* Theorems about SsTable and its BlockCache, for every run of events,     *)
(* block size, filter, size of the cache and number of files and readers:  *)
(* what a scan gives, what the binary search keeps, that the cache counts  *)
(* its bytes and stays within them, and how a file is cut into blocks.     *)
(***************************************************************************)
EXTENDS SsTable, SequenceTheorems, WellFoundedInduction, TLAPS

(* What add() has hashed.                                                  *)
FilterBitSet == UNION {Probes(k) : k \in Nat}

TableType ==
    [state : {"none", "open", "finished", "removed"}, builder : Seq(Nat),
     blocks : Seq(Seq(Nat)), index : Seq([first : Nat, block : Nat]),
     filter : SUBSET FilterBitSet, count : Nat, min : Nat, max : Nat]

Ascending(s) == \A a, b \in 1 .. Len(s) : a < b => s[a] < s[b]

(* The index has every block under its first key.                          *)
Indexed(f) ==
    /\ Len(f.index) = Len(f.blocks)
    /\ \A i \in 1 .. Len(f.blocks) :
          /\ Len(f.blocks[i]) > 0
          /\ f.index[i] = [first |-> f.blocks[i][1], block |-> i]

(* Keys ascend in a block, from block to block, and to the open block.     *)
InOrder(f) ==
    /\ \A i \in 1 .. Len(f.blocks) : Ascending(f.blocks[i])
    /\ Ascending(f.builder)
    /\ \A i, j \in 1 .. Len(f.blocks) : i < j =>
          \A a \in 1 .. Len(f.blocks[i]), b \in 1 .. Len(f.blocks[j]) :
             f.blocks[i][a] < f.blocks[j][b]
    /\ \A i \in 1 .. Len(f.blocks) :
          \A a \in 1 .. Len(f.blocks[i]), b \in 1 .. Len(f.builder) :
             f.blocks[i][a] < f.builder[b]

(* The first events of w, and no others, are in the blocks.                *)
Holds(f, w) ==
    /\ f.count <= Len(w)
    /\ \A n \in 1 .. f.count :
          \/ \E b \in 1 .. Len(f.builder) : f.builder[b] = w[n]
          \/ \E i \in 1 .. Len(f.blocks) : \E a \in 1 .. Len(f.blocks[i]) : f.blocks[i][a] = w[n]
    /\ \A b \in 1 .. Len(f.builder) : \E n \in 1 .. f.count : f.builder[b] = w[n]
    /\ \A i \in 1 .. Len(f.blocks) : \A a \in 1 .. Len(f.blocks[i]) :
          \E n \in 1 .. f.count : f.blocks[i][a] = w[n]

(* ... and the meta block and the filter know them.                        *)
Known(f, w) ==
    /\ f.count > 0 => f.min = w[1] /\ f.max = w[f.count]
    /\ \A n \in 1 .. f.count : Probes(w[n]) \subseteq f.filter

Sound(f, w) ==
    /\ f \in TableType
    /\ Indexed(f) /\ InOrder(f) /\ Holds(f, w) /\ Known(f, w)
    /\ f.state = "finished" => f.builder = <<>> /\ f.count = Len(w)

FilesInv ==
    /\ run \in Given
    /\ DOMAIN file = Paths
    /\ \A p \in Paths : file[p].state \in {"open", "finished"} => Sound(file[p], run[p])

-----------------------------------------------------------------------------
(* The runs that files are written from are ascending keys.                *)
LEMMA RunOfFile ==
    ASSUME SsTableAssumption, run \in Given, NEW p \in Paths
    PROVE  /\ run[p] \in Seq(Nat) /\ Len(run[p]) > 0
           /\ Ascending(run[p])
<1>1. run[p] \in Runs[p] /\ Runs[p] \in SUBSET Seq(Nat \ {0})
  BY DEF Given, SsTableAssumption
<1>2. run[p] \in Seq(Nat \ {0}) /\ run[p] # <<>>
  BY <1>1 DEF SsTableAssumption
<1>3. \A i, j \in DOMAIN run[p] : i < j => run[p][i] < run[p][j]
  BY <1>1 DEF SsTableAssumption
<1>4. run[p] \in Seq(Nat) /\ Len(run[p]) > 0 /\ DOMAIN run[p] = 1 .. Len(run[p])
  BY <1>2
<1> QED BY <1>3, <1>4 DEF Ascending

(* The open block becomes the last of the file (sstable.cpp:91-99).        *)
LEMMA FlushSound ==
    ASSUME NEW f, NEW w \in Seq(Nat), Sound(f, w), f.state = "open"
    PROVE  /\ Sound(FlushBlock(f), w)
           /\ FlushBlock(f).builder = <<>>
           /\ FlushBlock(f).count = f.count
           /\ FlushBlock(f).state = "open"
<1>1. f \in TableType
  BY DEF Sound
<1>2. CASE f.builder = <<>>
  BY <1>1, <1>2 DEF FlushBlock
<1>3. CASE f.builder # <<>>
  <2> DEFINE g == FlushBlock(f)
             m == Len(f.blocks)
             e == [first |-> Head(f.builder), block |-> m + 1]
  <2>1. /\ f.blocks \in Seq(Seq(Nat)) /\ f.builder \in Seq(Nat) /\ m \in Nat
        /\ f.index \in Seq([first : Nat, block : Nat])
        /\ Len(f.builder) \in Nat /\ Len(f.builder) > 0 /\ Head(f.builder) = f.builder[1]
        /\ Head(f.builder) \in Nat
    BY <1>1, <1>3 DEF TableType
  <2>2. e \in [first : Nat, block : Nat]
    BY <2>1
  <2>3. /\ g.blocks = Append(f.blocks, f.builder) /\ g.index = Append(f.index, e)
        /\ g.builder = <<>> /\ g.count = f.count /\ g.state = "open"
        /\ g.min = f.min /\ g.max = f.max /\ g.filter = f.filter
    BY <1>1, <1>3 DEF FlushBlock, TableType
  <2>4. g \in TableType
    <3>1. Append(f.blocks, f.builder) \in Seq(Seq(Nat)) /\ Append(f.index, e) \in Seq([first : Nat, block : Nat])
      BY <2>1, <2>2
    <3>2. g = [state |-> f.state, builder |-> <<>>, blocks |-> Append(f.blocks, f.builder),
               index |-> Append(f.index, e), filter |-> f.filter, count |-> f.count,
               min |-> f.min, max |-> f.max]
      BY <1>1, <1>3 DEF FlushBlock, TableType
    <3>3. <<>> \in Seq(Nat)
      OBVIOUS
    <3> QED BY <1>1, <3>1, <3>2, <3>3 DEF TableType
  <2>5. /\ Len(g.blocks) = m + 1 /\ g.blocks[m + 1] = f.builder
        /\ \A i \in 1 .. m : g.blocks[i] = f.blocks[i]
    BY <2>1, <2>3
  <2>6. /\ Len(f.index) = m => Len(g.index) = m + 1 /\ g.index[m + 1] = e
        /\ \A i \in 1 .. Len(f.index) : g.index[i] = f.index[i]
    BY <2>1, <2>2, <2>3
  <2>7. Len(g.builder) = 0
    BY <2>3
  <2>8. \A i \in 1 .. Len(g.blocks) : i \in 1 .. m \/ i = m + 1
    BY <2>1, <2>5
  <2> HIDE DEF g, m
  <2>9. Indexed(g)
    <3>1. /\ Len(f.index) = m
          /\ \A i \in 1 .. m : /\ Len(f.blocks[i]) > 0
                              /\ f.index[i] = [first |-> f.blocks[i][1], block |-> i]
      BY DEF Sound, Indexed, m
    <3>2. ASSUME NEW i \in 1 .. Len(g.blocks)
          PROVE  /\ Len(g.blocks[i]) > 0
                 /\ g.index[i] = [first |-> g.blocks[i][1], block |-> i]
      <4>1. CASE i \in 1 .. m
        BY <2>5, <2>6, <3>1, <4>1
      <4>2. CASE i = m + 1
        BY <2>1, <2>5, <2>6, <3>1, <4>2
      <4> QED BY <2>8, <4>1, <4>2
    <3> QED BY <2>5, <2>6, <3>1, <3>2 DEF Indexed
  <2>10. InOrder(g)
    <3>1. /\ \A i \in 1 .. m : Ascending(f.blocks[i])
          /\ Ascending(f.builder)
          /\ \A i, j \in 1 .. m : i < j =>
                \A a \in 1 .. Len(f.blocks[i]), b \in 1 .. Len(f.blocks[j]) :
                   f.blocks[i][a] < f.blocks[j][b]
          /\ \A i \in 1 .. m :
                \A a \in 1 .. Len(f.blocks[i]), b \in 1 .. Len(f.builder) :
                   f.blocks[i][a] < f.builder[b]
      BY DEF Sound, InOrder, m
    <3>2. \A i \in 1 .. Len(g.blocks) : Ascending(g.blocks[i])
      BY <2>5, <2>8, <3>1
    <3>3. Ascending(g.builder)
      BY <2>7 DEF Ascending
    <3>4. ASSUME NEW i \in 1 .. Len(g.blocks), NEW j \in 1 .. Len(g.blocks), i < j,
                 NEW a \in 1 .. Len(g.blocks[i]), NEW b \in 1 .. Len(g.blocks[j])
          PROVE  g.blocks[i][a] < g.blocks[j][b]
      <4>1. i \in 1 .. m
        BY <2>1, <2>5, <3>4
      <4>2. CASE j \in 1 .. m
        BY <2>5, <3>1, <3>4, <4>1, <4>2
      <4>3. CASE j = m + 1
        BY <2>5, <3>1, <3>4, <4>1, <4>3
      <4> QED BY <2>8, <4>2, <4>3
    <3> QED BY <2>7, <3>2, <3>3, <3>4 DEF InOrder
  <2>11. Holds(g, w)
    <3>1. g.count <= Len(w) /\ g.count = f.count
      BY <2>3 DEF Sound, Holds
    <3>2. ASSUME NEW n \in 1 .. g.count
          PROVE  \E i \in 1 .. Len(g.blocks) : \E a \in 1 .. Len(g.blocks[i]) : g.blocks[i][a] = w[n]
      <4>1. CASE \E b \in 1 .. Len(f.builder) : f.builder[b] = w[n]
        <5>1. m + 1 \in 1 .. Len(g.blocks)
          BY <2>1, <2>5
        <5> QED BY <2>5, <4>1, <5>1
      <4>2. CASE \E i \in 1 .. m : \E a \in 1 .. Len(f.blocks[i]) : f.blocks[i][a] = w[n]
        <5>1. \A i \in 1 .. m : i \in 1 .. Len(g.blocks)
          BY <2>1, <2>5
        <5> QED BY <2>5, <4>2, <5>1
      <4> QED BY <3>1, <4>1, <4>2 DEF Sound, Holds, m
    <3>3. ASSUME NEW i \in 1 .. Len(g.blocks), NEW a \in 1 .. Len(g.blocks[i])
          PROVE  \E n \in 1 .. g.count : g.blocks[i][a] = w[n]
      <4>1. /\ \A b \in 1 .. Len(f.builder) : \E n \in 1 .. f.count : f.builder[b] = w[n]
            /\ \A j \in 1 .. m : \A b \in 1 .. Len(f.blocks[j]) :
                  \E n \in 1 .. f.count : f.blocks[j][b] = w[n]
        BY DEF Sound, Holds, m
      <4>2. CASE i \in 1 .. m
        <5>1. g.blocks[i] = f.blocks[i]
          BY <2>5, <4>2
        <5>2. a \in 1 .. Len(f.blocks[i])
          BY <5>1
        <5>3. PICK n \in 1 .. f.count : f.blocks[i][a] = w[n]
          BY <4>1, <4>2, <5>2
        <5> QED BY <3>1, <5>1, <5>3
      <4>3. CASE i = m + 1
        <5>1. g.blocks[i] = f.builder
          BY <2>5, <4>3
        <5>2. a \in 1 .. Len(f.builder)
          BY <5>1
        <5>3. PICK n \in 1 .. f.count : f.builder[a] = w[n]
          BY <4>1, <5>2
        <5> QED BY <3>1, <5>1, <5>3
      <4> QED BY <2>8, <4>2, <4>3
    <3>4. \A b \in 1 .. Len(g.builder) : \E n \in 1 .. g.count : g.builder[b] = w[n]
      BY <2>7
    <3> QED BY <3>1, <3>2, <3>3, <3>4 DEF Holds
  <2>12. Known(g, w)
    BY <2>3 DEF Sound, Known
  <2> QED BY <2>3, <2>4, <2>9, <2>10, <2>11, <2>12 DEF Sound, g
<1> QED BY <1>2, <1>3

(* The next event of the run goes to the open block, behind all others     *)
(* (sstable.cpp:102-117, block.cpp:24-31).                                 *)
LEMMA AppendSound ==
    ASSUME NEW f, NEW w \in Seq(Nat), Ascending(w), Sound(f, w), f.state = "open",
           f.count < Len(w), NEW k, k = w[f.count + 1],
           NEW g, g \in TableType, g.state = "open", g.builder = Append(f.builder, k),
           g.blocks = f.blocks, g.index = f.index, g.filter = f.filter \cup Probes(k),
           g.count = f.count + 1, g.max = k,
           f.count = 0 => g.min = k, f.count # 0 => g.min = f.min
    PROVE  Sound(g, w)
<1> DEFINE m == Len(f.builder)
<1>1. f \in TableType
  BY DEF Sound
<1>2. /\ f.count \in Nat /\ f.builder \in Seq(Nat) /\ m \in Nat /\ Len(w) \in Nat
      /\ f.count + 1 \in 1 .. Len(w) /\ k \in Nat
  BY <1>1 DEF TableType
<1>7. /\ Len(g.builder) = m + 1 /\ g.builder[m + 1] = k
      /\ \A b \in 1 .. m : g.builder[b] = f.builder[b]
      /\ \A b \in 1 .. Len(g.builder) : b \in 1 .. m \/ b = m + 1
  BY <1>2
<1> HIDE DEF m
<1>8. \A n \in 1 .. f.count : w[n] < k /\ n \in 1 .. g.count
  <2> SUFFICES ASSUME NEW n \in 1 .. f.count
               PROVE  w[n] < k /\ n \in 1 .. g.count
    OBVIOUS
  <2>1. n \in 1 .. Len(w) /\ n < f.count + 1
    BY <1>2
  <2>2. w[n] < w[f.count + 1]
    BY <1>2, <2>1 DEF Ascending
  <2>3. n \in 1 .. g.count
    BY <1>2
  <2> QED BY <2>2, <2>3
<1>9. Indexed(g)
  BY DEF Sound, Indexed
<1>10. InOrder(g)
  <2>1. Ascending(g.builder)
    <3> SUFFICES ASSUME NEW a \in 1 .. Len(g.builder), NEW b \in 1 .. Len(g.builder), a < b
                 PROVE  g.builder[a] < g.builder[b]
      BY DEF Ascending
    <3>1. a \in 1 .. m
      BY <1>2, <1>7
    <3>2. CASE b \in 1 .. m
      BY <1>7, <3>1, <3>2 DEF Sound, InOrder, Ascending, m
    <3>3. CASE b = m + 1
      <4>1. \E n \in 1 .. f.count : f.builder[a] = w[n]
        BY <3>1 DEF Sound, Holds, m
      <4> QED BY <1>7, <1>8, <3>1, <3>3, <4>1
    <3> QED BY <1>7, <3>2, <3>3
  <2>2. ASSUME NEW i \in 1 .. Len(g.blocks), NEW a \in 1 .. Len(g.blocks[i]),
               NEW b \in 1 .. Len(g.builder)
        PROVE  g.blocks[i][a] < g.builder[b]
    <3>1. CASE b \in 1 .. m
      BY <1>7, <3>1 DEF Sound, InOrder, m
    <3>2. CASE b = m + 1
      <4>1. \E n \in 1 .. f.count : f.blocks[i][a] = w[n]
        BY DEF Sound, Holds
      <4> QED BY <1>7, <1>8, <3>2, <4>1
    <3> QED BY <1>7, <3>1, <3>2
  <2> QED BY <2>1, <2>2 DEF Sound, InOrder
<1>11. Holds(g, w)
  <2>1. ASSUME NEW n \in 1 .. g.count
        PROVE  \/ \E b \in 1 .. Len(g.builder) : g.builder[b] = w[n]
               \/ \E i \in 1 .. Len(g.blocks) :
                     \E a \in 1 .. Len(g.blocks[i]) : g.blocks[i][a] = w[n]
    <3>1. m + 1 \in 1 .. Len(g.builder) /\ \A b \in 1 .. m : b \in 1 .. Len(g.builder)
      BY <1>2, <1>7 DEF m
    <3>2. CASE n = f.count + 1
      BY <1>7, <3>1, <3>2
    <3>3. CASE n \in 1 .. f.count
      <4>1. CASE \E b \in 1 .. m : f.builder[b] = w[n]
        BY <1>7, <3>1, <4>1
      <4>2. CASE \E i \in 1 .. Len(f.blocks) : \E a \in 1 .. Len(f.blocks[i]) : f.blocks[i][a] = w[n]
        BY <4>2
      <4> QED BY <3>3, <4>1, <4>2 DEF Sound, Holds, m
    <3> QED BY <1>2, <3>2, <3>3
  <2>2. ASSUME NEW b \in 1 .. Len(g.builder)
        PROVE  \E n \in 1 .. g.count : g.builder[b] = w[n]
    <3>1. CASE b \in 1 .. m
      <4>1. \E n \in 1 .. f.count : f.builder[b] = w[n]
        BY <3>1 DEF Sound, Holds, m
      <4> QED BY <1>7, <1>8, <3>1, <4>1
    <3>2. CASE b = m + 1
      <4>1. g.count \in 1 .. g.count
        BY <1>2
      <4> QED BY <1>7, <3>2, <4>1
    <3> QED BY <1>7, <3>1, <3>2
  <2>3. ASSUME NEW i \in 1 .. Len(g.blocks), NEW a \in 1 .. Len(g.blocks[i])
        PROVE  \E n \in 1 .. g.count : g.blocks[i][a] = w[n]
    <3>1. \E n \in 1 .. f.count : f.blocks[i][a] = w[n]
      BY DEF Sound, Holds
    <3> QED BY <1>8, <3>1
  <2>4. g.count <= Len(w)
    BY <1>2
  <2> QED BY <2>1, <2>2, <2>3, <2>4 DEF Holds
<1>12. Known(g, w)
  <2>1. g.min = w[1] /\ g.max = w[g.count]
    <3>1. CASE f.count = 0
      BY <3>1
    <3>2. CASE f.count # 0
      <4>1. f.count > 0
        BY <1>2, <3>2
      <4> QED BY <3>2, <4>1 DEF Sound, Known
    <3> QED BY <3>1, <3>2
  <2>2. ASSUME NEW n \in 1 .. g.count
        PROVE  Probes(w[n]) \subseteq g.filter
    <3>1. CASE n = f.count + 1
      BY <3>1
    <3>2. CASE n \in 1 .. f.count
      BY <3>2 DEF Sound, Known
    <3> QED BY <1>2, <3>1, <3>2
  <2> QED BY <2>1, <2>2 DEF Known
<1> QED BY <1>9, <1>10, <1>11, <1>12 DEF Sound

LEMMA AddSound ==
    ASSUME NEW f, NEW w \in Seq(Nat), Ascending(w), Sound(f, w), f.state = "open",
           f.count < Len(w)
    PROVE  /\ Sound(WithEvent(f, w[f.count + 1]), w)
           /\ WithEvent(f, w[f.count + 1]).state = "open"
<1> DEFINE g == IF BuilderFull(f) THEN FlushBlock(f) ELSE f
           k == w[f.count + 1]
<1>1. Sound(g, w) /\ g.state = "open" /\ g.count = f.count
  BY FlushSound
<1>2. g \in TableType
  BY <1>1 DEF Sound
<1>3. /\ g.count \in Nat /\ g.builder \in Seq(Nat) /\ g.min \in Nat
      /\ g.count + 1 \in 1 .. Len(w) /\ k \in Nat /\ k = w[g.count + 1]
  <2>1. g.count \in Nat /\ g.builder \in Seq(Nat) /\ g.min \in Nat
    BY <1>2 DEF TableType
  <2> QED BY <1>1, <2>1
<1>4. Append(g.builder, k) \in Seq(Nat)
  BY <1>3
<1>5. g.filter \cup Probes(k) \in SUBSET FilterBitSet
  BY <1>2, <1>3 DEF TableType, FilterBitSet
<1> DEFINE least == IF g.count = 0 THEN k ELSE g.min
           bits == g.filter \cup Probes(k)
           run1 == Append(g.builder, k)
<1>6. least \in Nat
  BY <1>3
<1>7. WithEvent(f, k) = [g EXCEPT !.builder = run1, !.filter = bits, !.count = g.count + 1,
                                  !.min = least, !.max = k]
  BY DEF WithEvent
<1>8. least = (IF g.count = 0 THEN k ELSE g.min) /\ bits = g.filter \cup Probes(k)
      /\ run1 = Append(g.builder, k)
  OBVIOUS
<1> HIDE DEF g, k, least, bits, run1
<1>9. WithEvent(f, k) = [state |-> g.state, builder |-> run1, blocks |-> g.blocks,
                         index |-> g.index, filter |-> bits, count |-> g.count + 1,
                         min |-> least, max |-> k]
  BY <1>2, <1>7 DEF TableType
<1>10. WithEvent(f, k) \in TableType
  BY <1>2, <1>3, <1>4, <1>5, <1>6, <1>8, <1>9 DEF TableType
<1> DEFINE h == WithEvent(f, k)
<1>11. /\ h.state = "open" /\ h.builder = Append(g.builder, k) /\ h.blocks = g.blocks
       /\ h.index = g.index /\ h.filter = g.filter \cup Probes(k) /\ h.count = g.count + 1
       /\ h.max = k /\ (g.count = 0 => h.min = k) /\ (g.count # 0 => h.min = g.min)
  BY <1>1, <1>8, <1>9
<1>12. g.count < Len(w)
  BY <1>1
<1> HIDE DEF h
<1>13. Sound(h, w)
  BY <1>1, <1>3, <1>10, <1>11, <1>12, AppendSound DEF h
<1> QED BY <1>11, <1>13 DEF h, k

(* finish() leaves no open block (sstable.cpp:121-122).                    *)
LEMMA FinishSound ==
    ASSUME NEW f, NEW w \in Seq(Nat), Sound(f, w), f.state = "open", f.count = Len(w)
    PROVE  Sound([FlushBlock(f) EXCEPT !.state = "finished"], w)
<1> DEFINE h == FlushBlock(f)
           g == [h EXCEPT !.state = "finished"]
<1>1. Sound(h, w) /\ h.builder = <<>> /\ h.count = f.count
  BY FlushSound
<1>2. h \in TableType
  BY <1>1 DEF Sound
<1> HIDE DEF h
<1>4. /\ g \in TableType /\ g.state = "finished" /\ g.builder = h.builder /\ g.blocks = h.blocks /\ g.index = h.index
      /\ g.filter = h.filter /\ g.count = h.count /\ g.min = h.min /\ g.max = h.max
  BY <1>2 DEF TableType
<1> HIDE DEF g
<1>5. Indexed(g)
  BY <1>1, <1>4 DEF Sound, Indexed
<1>6. InOrder(g)
  BY <1>1, <1>4 DEF Sound, InOrder
<1>7. Holds(g, w)
  BY <1>1, <1>4 DEF Sound, Holds
<1>8. Known(g, w)
  BY <1>1, <1>4 DEF Sound, Known
<1>9. Sound(g, w)
  BY <1>1, <1>4, <1>5, <1>6, <1>7, <1>8 DEF Sound
<1> QED BY <1>9 DEF g, h

(* A new file is empty (sstable.cpp:60-69).                                *)
LEMMA NewSound ==
    ASSUME NEW w \in Seq(Nat)
    PROVE  Sound(NewTable, w)
<1>1. NewTable \in TableType
  BY DEF NewTable, TableType
<1>2. Len(NewTable.blocks) = 0 /\ Len(NewTable.index) = 0 /\ Len(NewTable.builder) = 0
      /\ NewTable.count = 0 /\ NewTable.state = "open"
  BY DEF NewTable
<1>3. Len(w) \in Nat
  OBVIOUS
<1> QED BY <1>1, <1>2, <1>3 DEF Sound, Indexed, InOrder, Holds, Known, Ascending

-----------------------------------------------------------------------------
(* A scan, from its record s, its file f and the run w of that file.       *)
Match(s, w) == {k \in ToSet(w) : s.start <= k /\ k <= s.end}

Active == {"search", "next", "missed", "decode", "events"}
Reads  == {"next", "missed", "decode", "events"}

ScanType ==
    [pc : Active \cup {"done", "failed"}, path : Paths \cup {"none"}, start : Nat,
     end : Nat, lo : Nat, hi : Nat, todo : SUBSET Nat, at : Nat, block : Seq(Nat),
     pos : Nat, rows : Seq(Nat), pointer : Addresses \cup {"null"},
     stopped : BOOLEAN, dangled : BOOLEAN]

(* The binary search has the first key of the range between lo and hi.     *)
Searching(s, f) ==
    /\ s.lo < s.hi /\ s.hi <= Len(f.index)
    /\ s.lo > 0 => f.index[s.lo + 1].first <= s.start
    /\ s.hi < Len(f.index) => f.index[s.hi + 1].first > s.start
    /\ s.rows = <<>>

(* at runs through the blocks that the index left to read.                 *)
Reading(s, f) ==
    /\ s.lo < Len(f.index)
    /\ s.lo > 0 => f.index[s.lo + 1].first <= s.start
    /\ s.todo = BlocksFrom(s.lo, f.index, s.end)
    /\ s.lo <= s.at /\ s.at <= Len(f.index)
    /\ \A j \in s.lo .. s.at - 1 : j \in s.todo
    /\ s.pc # "next" => s.at \in s.todo

InFirst(f, n, k) ==
    \E i \in 1 .. n : \E a \in 1 .. Len(f.blocks[i]) : f.blocks[i][a] = k

Passed(s, f, k) ==
    \/ InFirst(f, s.at, k)
    \/ s.pc = "events" /\ \E a \in 1 .. s.pos - 1 : s.block[a] = k

IsRow(s, k) == \E i \in 1 .. Len(s.rows) : s.rows[i] = k

(* The callback got the keys of the range among those passed, in order.    *)
Delivered(s, f, w) ==
    /\ s.pc = "events" => s.block = f.blocks[s.at + 1] /\ s.pos <= Len(s.block) + 1
    /\ Ascending(s.rows)
    /\ \A k \in Nat : IsRow(s, k) <=> k \in Match(s, w) /\ Passed(s, f, k)

(* What ScanExact says of a scan.                                          *)
Prefix(s, w) ==
    /\ Ascending(s.rows)
    /\ \A k \in Nat : IsRow(s, k) => k \in Match(s, w)
    /\ \A k \in Match(s, w) : ~IsRow(s, k) => \A i \in 1 .. Len(s.rows) : s.rows[i] < k

Complete(s, w) == \A k \in Match(s, w) : IsRow(s, k)

ScanOK(s, f, w) ==
    /\ s.pc \in Active => s.path \in Paths /\ f.state = "finished"
    /\ s.pc = "search" => Searching(s, f)
    /\ s.pc \in Reads => Reading(s, f)
    /\ s.pc = "events" => s.pos >= 1
    /\ s.pc \in Reads /\ ~s.dangled => Delivered(s, f, w)
    /\ s.pc = "done" /\ s.path # "none" /\ ~s.dangled =>
          Prefix(s, w) /\ (~s.stopped => Complete(s, w))
    /\ s.pc = "failed" => s.path = "none"

ScansInv ==
    /\ scan \in [Readers -> ScanType]
    /\ \A r \in Readers : ScanOK(scan[r], file[scan[r].path], run[scan[r].path])

(* An entry of the cache is a block of a finished file.                    *)
IsBlock(e) ==
    \E p \in Paths : /\ file[p].state = "finished"
                     /\ \E b \in 1 .. Len(file[p].blocks) :
                           e.key = <<p, b>> /\ e.data = file[p].blocks[b]

CacheInv ==
    /\ \A a \in DOMAIN memory : IsBlock(memory[a])
    /\ \A key \in DOMAIN index : index[key] \in Addresses

Inv == FilesInv /\ ScansInv /\ CacheInv

-----------------------------------------------------------------------------
(* The blocks of a file and its index.                                     *)
LEMMA BlockFacts ==
    ASSUME NEW f, NEW w \in Seq(Nat), Sound(f, w)
    PROVE  /\ Len(f.blocks) \in Nat /\ Len(f.index) = Len(f.blocks)
           /\ \A i \in 1 .. Len(f.blocks) :
                 /\ f.blocks[i] \in Seq(Nat) /\ Len(f.blocks[i]) \in Nat
                 /\ 1 \in 1 .. Len(f.blocks[i])
                 /\ f.index[i].first = f.blocks[i][1] /\ f.index[i].first \in Nat
                 /\ f.index[i].block = i
<1>1. f.blocks \in Seq(Seq(Nat))
  BY DEF Sound, TableType
<1>2. Len(f.blocks) \in Nat /\ \A i \in 1 .. Len(f.blocks) : f.blocks[i] \in Seq(Nat)
  BY <1>1
<1>3. /\ Len(f.index) = Len(f.blocks)
      /\ \A i \in 1 .. Len(f.blocks) :
            Len(f.blocks[i]) > 0 /\ f.index[i] = [first |-> f.blocks[i][1], block |-> i]
  BY DEF Sound, Indexed
<1>4. ASSUME NEW i \in 1 .. Len(f.blocks)
      PROVE  /\ f.blocks[i] \in Seq(Nat) /\ Len(f.blocks[i]) \in Nat
             /\ 1 \in 1 .. Len(f.blocks[i])
             /\ f.index[i].first = f.blocks[i][1] /\ f.index[i].first \in Nat
             /\ f.index[i].block = i
  <2>1. f.blocks[i] \in Seq(Nat) /\ Len(f.blocks[i]) > 0
    BY <1>2, <1>3
  <2>2. Len(f.blocks[i]) \in Nat /\ 1 \in 1 .. Len(f.blocks[i])
    BY <2>1
  <2>3. f.blocks[i][1] \in Nat
    BY <2>1, <2>2
  <2>4. f.index[i].first = f.blocks[i][1] /\ f.index[i].block = i
    <3>1. f.index[i] = [first |-> f.blocks[i][1], block |-> i]
      BY <1>3
    <3> QED BY <3>1
  <2> QED BY <2>1, <2>2, <2>3, <2>4
<1> QED BY <1>2, <1>3, <1>4

(* A finished file holds the keys of its run in its blocks.                *)
LEMMA FinishedHolds ==
    ASSUME NEW f, NEW w \in Seq(Nat), Sound(f, w), f.state = "finished", NEW k
    PROVE  k \in ToSet(w) <=> InFirst(f, Len(f.blocks), k)
<1>1. f.count = Len(w) /\ Len(f.builder) = 0 /\ ToSet(w) = {w[n] : n \in 1 .. Len(w)}
  <2>1. f.builder = <<>> /\ f.count = Len(w)
    BY DEF Sound
  <2> QED BY <2>1 DEF ToSet
<1>2. Holds(f, w)
  BY DEF Sound
<1>3. ASSUME k \in ToSet(w) PROVE InFirst(f, Len(f.blocks), k)
  <2>1. PICK n \in 1 .. f.count : k = w[n]
    BY <1>1, <1>3
  <2>2. ~ \E b \in 1 .. Len(f.builder) : f.builder[b] = w[n]
    BY <1>1
  <2>3. \E i \in 1 .. Len(f.blocks) : \E a \in 1 .. Len(f.blocks[i]) : f.blocks[i][a] = w[n]
    BY <1>2, <2>2 DEF Holds
  <2> QED BY <2>1, <2>3 DEF InFirst
<1>4. ASSUME InFirst(f, Len(f.blocks), k) PROVE k \in ToSet(w)
  <2>1. PICK i \in 1 .. Len(f.blocks) : \E a \in 1 .. Len(f.blocks[i]) : f.blocks[i][a] = k
    BY <1>4 DEF InFirst
  <2>2. PICK a \in 1 .. Len(f.blocks[i]) : f.blocks[i][a] = k
    BY <2>1
  <2>3. \E n \in 1 .. f.count : f.blocks[i][a] = w[n]
    BY <1>2 DEF Holds
  <2> QED BY <1>1, <2>2, <2>3
<1> QED BY <1>3, <1>4

(* Keys in earlier blocks are smaller than the first of a later one.       *)
LEMMA FirstKey ==
    ASSUME NEW f, NEW w \in Seq(Nat), Sound(f, w),
           NEW i \in 1 .. Len(f.blocks), NEW a \in 1 .. Len(f.blocks[i])
    PROVE  /\ f.blocks[i] \in Seq(Nat) /\ f.blocks[i][a] \in Nat
           /\ Len(f.index) = Len(f.blocks) /\ Len(f.blocks) \in Nat
           /\ f.index[i].first = f.blocks[i][1] /\ f.index[i].block = i
           /\ 1 \in 1 .. Len(f.blocks[i]) /\ f.index[i].first \in Nat
           /\ f.index[i].first <= f.blocks[i][a]
           /\ \A j \in 1 .. Len(f.blocks) : i < j => f.blocks[i][a] < f.index[j].first
<1>1. /\ Len(f.blocks) \in Nat /\ Len(f.index) = Len(f.blocks)
      /\ \A j \in 1 .. Len(f.blocks) :
            /\ f.blocks[j] \in Seq(Nat) /\ Len(f.blocks[j]) \in Nat
            /\ 1 \in 1 .. Len(f.blocks[j])
            /\ f.index[j].first = f.blocks[j][1] /\ f.index[j].first \in Nat
            /\ f.index[j].block = j
  BY BlockFacts
<1>2. f.blocks[i] \in Seq(Nat) /\ Len(f.blocks) \in Nat
  BY <1>1
<1>4. \A j \in 1 .. Len(f.blocks) : f.blocks[j] \in Seq(Nat) /\ 1 \in 1 .. Len(f.blocks[j])
  BY <1>1
<1>5. f.blocks[i][a] \in Nat /\ f.blocks[i][1] \in Nat
  BY <1>2, <1>4
<1>6. f.blocks[i][1] <= f.blocks[i][a]
  <2>1. Ascending(f.blocks[i])
    BY DEF Sound, InOrder
  <2>2. a = 1 \/ 1 < a
    BY <1>2
  <2> QED BY <1>4, <1>5, <2>1, <2>2 DEF Ascending
<1>7. \A j \in 1 .. Len(f.blocks) : i < j => f.blocks[i][a] < f.blocks[j][1]
  BY <1>4 DEF Sound, InOrder
<1> QED BY <1>1, <1>5, <1>6, <1>7

(* No key before the block that the search found is in the range, and none *)
(* from the first block on that begins behind it (index.cpp:46-61).        *)
LEMMA OutsideBlocks ==
    ASSUME NEW f, NEW w \in Seq(Nat), Sound(f, w), NEW start \in Nat, NEW end \in Nat,
           NEW lo \in Nat, lo < Len(f.index), lo > 0 => f.index[lo + 1].first <= start,
           NEW i \in 1 .. Len(f.blocks), NEW a \in 1 .. Len(f.blocks[i]),
           start <= f.blocks[i][a], f.blocks[i][a] <= end
    PROVE  i - 1 \in BlocksFrom(lo, f.index, end)
<1>1. i \in Nat /\ Len(f.index) = Len(f.blocks) /\ Len(f.blocks) \in Nat /\ f.blocks[i][a] \in Nat
  <2>1. Len(f.index) = Len(f.blocks) /\ Len(f.blocks) \in Nat /\ f.blocks[i][a] \in Nat
    BY FirstKey
  <2> QED BY <2>1
<1>2. lo <= i - 1
  <2> SUFFICES ASSUME i < lo + 1 PROVE FALSE
    BY <1>1
  <2>1. lo + 1 \in 1 .. Len(f.blocks) /\ lo > 0
    BY <1>1
  <2>2. f.index[lo + 1].first \in Nat
    BY <2>1, BlockFacts
  <2>3. f.blocks[i][a] < f.index[lo + 1].first
    BY <2>1, FirstKey
  <2> QED BY <1>1, <2>1, <2>2, <2>3
<1>3. ASSUME NEW j \in lo .. i - 1
      PROVE  f.index[j + 1].first <= end
  <2> DEFINE x == f.index[j + 1].first
             y == f.blocks[i][a]
             z == f.index[i].first
  <2>1. j + 1 \in 1 .. Len(f.blocks) /\ j + 1 <= i /\ j + 1 \in Nat
    BY <1>1
  <2>2. 1 \in 1 .. Len(f.blocks[j + 1]) /\ x \in Nat /\ x = f.blocks[j + 1][1]
    BY <2>1, BlockFacts
  <2>3. z \in Nat /\ z <= y /\ y \in Nat /\ y <= end
    BY <1>1, FirstKey
  <2>4. j + 1 < i => x < z
    BY <2>1, <2>2, FirstKey
  <2>5. j + 1 = i => x = z
    OBVIOUS
  <2> HIDE DEF x, y, z
  <2>6. x <= end
    BY <1>1, <2>1, <2>2, <2>3, <2>4, <2>5
  <2> QED BY <2>6 DEF x
<1>4. i - 1 \in lo .. Len(f.index) - 1
  BY <1>1, <1>2
<1> QED BY <1>3, <1>4 DEF BlocksFrom

(* A key that was passed is smaller than one of the file that was not.     *)
LEMMA PassedFirst ==
    ASSUME NEW f, NEW w \in Seq(Nat), Sound(f, w), f.state = "finished",
           NEW s \in ScanType, s.at <= Len(f.index),
           s.pc = "events" => /\ s.at < Len(f.index) /\ s.block = f.blocks[s.at + 1]
                              /\ s.pos <= Len(s.block) + 1,
           NEW k, Passed(s, f, k), NEW x \in ToSet(w), ~Passed(s, f, x)
    PROVE  k < x
<1>1. s.at \in Nat /\ s.pos \in Nat
  BY DEF ScanType
<1>2. /\ Len(f.blocks) \in Nat /\ Len(f.index) = Len(f.blocks)
      /\ \A i \in 1 .. Len(f.blocks) : f.blocks[i] \in Seq(Nat) /\ Len(f.blocks[i]) \in Nat
  BY BlockFacts
<1>3. InFirst(f, Len(f.blocks), x)
  BY FinishedHolds
<1>4. PICK j \in 1 .. Len(f.blocks) : \E b \in 1 .. Len(f.blocks[j]) : f.blocks[j][b] = x
  BY <1>3 DEF InFirst
<1>5. PICK b \in 1 .. Len(f.blocks[j]) : f.blocks[j][b] = x
  BY <1>4
<1>6. InOrder(f)
  BY DEF Sound
<1>7. s.at < j
  <2>1. ~(j \in 1 .. s.at)
    BY <1>5 DEF Passed, InFirst
  <2> QED BY <1>1, <1>2, <2>1
<1>8. CASE InFirst(f, s.at, k)
  <2>1. PICK i \in 1 .. s.at : \E a \in 1 .. Len(f.blocks[i]) : f.blocks[i][a] = k
    BY <1>8 DEF InFirst
  <2>2. PICK a \in 1 .. Len(f.blocks[i]) : f.blocks[i][a] = k
    BY <2>1
  <2>3. i \in 1 .. Len(f.blocks) /\ i < j
    BY <1>1, <1>2, <1>7
  <2> QED BY <1>5, <1>6, <2>2, <2>3 DEF InOrder
<1>9. CASE s.pc = "events" /\ \E a \in 1 .. s.pos - 1 : s.block[a] = k
  <2> DEFINE c == s.at + 1
  <2>1. PICK a \in 1 .. s.pos - 1 : s.block[a] = k
    BY <1>9
  <2>2. c \in 1 .. Len(f.blocks) /\ s.block = f.blocks[c] /\ c <= j
    <3>1. s.at < Len(f.index) /\ s.block = f.blocks[c]
      BY <1>9
    <3>2. j \in Nat
      OBVIOUS
    <3>3. c \in 1 .. Len(f.blocks)
      BY <1>1, <1>2, <3>1
    <3>4. c <= j
      BY <1>1, <1>7, <3>2
    <3> QED BY <3>1, <3>3, <3>4
  <2> HIDE DEF c
  <2>3. a \in 1 .. Len(f.blocks[c])
    BY <1>1, <1>2, <1>9, <2>2
  <2>4. CASE c < j
    BY <1>5, <1>6, <2>1, <2>2, <2>3, <2>4 DEF InOrder
  <2>5. CASE c = j
    <3>1. ~(b \in 1 .. s.pos - 1)
      BY <1>5, <1>9, <2>2, <2>5 DEF Passed
    <3>2. a < b
      BY <1>1, <1>2, <3>1
    <3>3. Ascending(f.blocks[c])
      BY <1>6, <2>2 DEF InOrder
    <3> QED BY <1>5, <2>1, <2>2, <2>3, <2>5, <3>2, <3>3 DEF Ascending
  <2> QED BY <1>2, <2>2, <2>4, <2>5
<1> QED BY <1>8, <1>9 DEF Passed

(* The callback's rows are the first keys of the range.                    *)
LEMMA DeliveredPrefix ==
    ASSUME NEW f, NEW w \in Seq(Nat), Sound(f, w), f.state = "finished",
           NEW s \in ScanType, s.pc \in Reads, Reading(s, f), Delivered(s, f, w)
    PROVE  Prefix(s, w)
<1>1. Ascending(s.rows) /\ \A k \in Nat : IsRow(s, k) => k \in Match(s, w)
  BY DEF Delivered
<1>2. s.at <= Len(f.index)
  BY DEF Reading
<1>3. s.pc = "events" => /\ s.at < Len(f.index) /\ s.block = f.blocks[s.at + 1]
                         /\ s.pos <= Len(s.block) + 1
  <2> SUFFICES ASSUME s.pc = "events" PROVE s.at < Len(f.index)
    BY DEF Delivered
  <2>1. s.at \in BlocksFrom(s.lo, f.index, s.end)
    BY DEF Reading
  <2>2. Len(f.index) \in Nat
    BY BlockFacts
  <2> QED BY <2>1, <2>2 DEF BlocksFrom, ScanType
<1>4. ASSUME NEW x \in Match(s, w), ~IsRow(s, x), NEW i \in 1 .. Len(s.rows)
      PROVE  s.rows[i] < x
  <2>1. x \in ToSet(w) /\ x \in Nat
    BY DEF Match, ToSet
  <2>2. ~Passed(s, f, x)
    BY <1>4, <2>1 DEF Delivered
  <2>3. s.rows[i] \in Nat /\ IsRow(s, s.rows[i])
    BY DEF ScanType, IsRow
  <2>4. Passed(s, f, s.rows[i])
    BY <2>3 DEF Delivered
  <2> QED BY <1>2, <1>3, <2>1, <2>2, <2>4, PassedFirst
<1> QED BY <1>1, <1>4 DEF Prefix

(* An event of a block that is neither skipped nor behind the range is its *)
(* next row (block.cpp:111-115).                                           *)
LEMMA TakeRow ==
    ASSUME NEW f, NEW w \in Seq(Nat), Sound(f, w), f.state = "finished",
           NEW s \in ScanType, s.pc = "events", Reading(s, f), Delivered(s, f, w),
           s.pos >= 1, s.pos <= Len(s.block), NEW e, e = s.block[s.pos],
           NEW t \in ScanType, t.start = s.start, t.end = s.end
    PROVE  /\ e \in Nat /\ e \in ToSet(w) /\ ~Passed(s, f, e)
           /\ \A i \in 1 .. Len(s.rows) : s.rows[i] < e
           /\ t.rows = Append(s.rows, e) =>
                 /\ Ascending(t.rows)
                 /\ \A k \in Nat : IsRow(t, k) <=> IsRow(s, k) \/ k = e
<1> DEFINE c == s.at + 1
<1>1. s.at \in Nat /\ s.pos \in Nat /\ s.rows \in Seq(Nat) /\ Len(s.rows) \in Nat
  BY DEF ScanType
<1>2. /\ Len(f.blocks) \in Nat /\ Len(f.index) = Len(f.blocks)
      /\ \A i \in 1 .. Len(f.blocks) : f.blocks[i] \in Seq(Nat) /\ Len(f.blocks[i]) \in Nat
  BY BlockFacts
<1>3. s.block = f.blocks[c] /\ c \in 1 .. Len(f.blocks)
  <2>1. s.at \in BlocksFrom(s.lo, f.index, s.end)
    BY DEF Reading
  <2>2. s.at <= Len(f.index) - 1
    BY <1>2, <2>1 DEF BlocksFrom, ScanType
  <2> QED BY <1>1, <1>2, <2>2 DEF Delivered
<1> HIDE DEF c
<1>4. s.pos \in 1 .. Len(f.blocks[c]) /\ e = f.blocks[c][s.pos] /\ e \in Nat
  BY <1>1, <1>2, <1>3
<1>5. e \in ToSet(w)
  BY <1>3, <1>4, FinishedHolds DEF InFirst
<1>6. InOrder(f)
  BY DEF Sound
<1>7. ~InFirst(f, s.at, e)
  <2> SUFFICES ASSUME NEW i \in 1 .. s.at, NEW a \in 1 .. Len(f.blocks[i]), f.blocks[i][a] = e
               PROVE  FALSE
    BY DEF InFirst
  <2>1. i \in 1 .. Len(f.blocks) /\ i < c
    BY <1>1, <1>2, <1>3 DEF c
  <2>2. f.blocks[i][a] < f.blocks[c][s.pos]
    BY <1>3, <1>4, <1>6, <2>1 DEF InOrder
  <2> QED BY <1>4, <2>2
<1>8. ~ \E a \in 1 .. s.pos - 1 : s.block[a] = e
  <2> SUFFICES ASSUME NEW a \in 1 .. s.pos - 1, s.block[a] = e
               PROVE  FALSE
    OBVIOUS
  <2>1. a \in 1 .. Len(f.blocks[c]) /\ a < s.pos
    BY <1>1, <1>2, <1>3, <1>4
  <2>2. Ascending(f.blocks[c])
    BY <1>3, <1>6 DEF InOrder
  <2>3. f.blocks[c][a] < f.blocks[c][s.pos]
    BY <1>4, <2>1, <2>2 DEF Ascending
  <2> QED BY <1>3, <1>4, <2>3
<1>9. ~Passed(s, f, e)
  BY <1>7, <1>8 DEF Passed
<1>10. ASSUME NEW i \in 1 .. Len(s.rows)
       PROVE  s.rows[i] < e
  <2>1. s.rows[i] \in Nat /\ IsRow(s, s.rows[i])
    BY <1>1 DEF IsRow
  <2>2. Passed(s, f, s.rows[i])
    BY <2>1 DEF Delivered
  <2>3. s.at <= Len(f.index) /\ s.at < Len(f.index) /\ s.block = f.blocks[s.at + 1]
    BY <1>1, <1>2, <1>3 DEF c
  <2>4. s.pos <= Len(s.block) + 1
    BY DEF Delivered
  <2> QED BY <1>5, <1>9, <2>2, <2>3, <2>4, PassedFirst
<1>11. ASSUME t.rows = Append(s.rows, e)
       PROVE  /\ Ascending(t.rows)
              /\ \A k \in Nat : IsRow(t, k) <=> IsRow(s, k) \/ k = e
  <2> DEFINE m == Len(s.rows)
  <2>1. /\ Len(t.rows) = m + 1 /\ t.rows[m + 1] = e /\ m \in Nat
        /\ \A i \in 1 .. m : t.rows[i] = s.rows[i]
    BY <1>1, <1>4, <1>11
  <2>2. \A i \in 1 .. Len(t.rows) : i \in 1 .. m \/ i = m + 1
    BY <2>1
  <2>3. m + 1 \in 1 .. Len(t.rows) /\ \A i \in 1 .. m : i \in 1 .. Len(t.rows)
    BY <2>1
  <2>4. Ascending(s.rows)
    BY DEF Delivered
  <2>5. Ascending(t.rows)
    <3> SUFFICES ASSUME NEW a \in 1 .. Len(t.rows), NEW b \in 1 .. Len(t.rows), a < b
                 PROVE  t.rows[a] < t.rows[b]
      BY DEF Ascending
    <3>1. a \in 1 .. m
      BY <2>1
    <3>2. CASE b \in 1 .. m
      BY <2>1, <2>4, <3>1, <3>2 DEF Ascending
    <3>3. CASE b = m + 1
      BY <1>10, <2>1, <3>1, <3>3
    <3> QED BY <2>2, <3>2, <3>3
  <2> HIDE DEF m
  <2>6. \A k \in Nat : IsRow(t, k) <=> IsRow(s, k) \/ k = e
    BY <2>1, <2>2, <2>3 DEF IsRow, m
  <2> QED BY <2>5, <2>6
<1> QED BY <1>4, <1>5, <1>9, <1>10, <1>11

-----------------------------------------------------------------------------
(* Scans, step by step: s is the record before a step and t after it.      *)

(* Nothing of the range is in the blocks before the one that was found.    *)
LEMMA FoundScan ==
    ASSUME NEW f, NEW w \in Seq(Nat), Sound(f, w),
           NEW s \in ScanType, ScanOK(s, f, w), s.pc = "search",
           NEW t \in ScanType, t.pc = "next", t.path = s.path, t.start = s.start,
           t.end = s.end, t.lo = s.lo, t.at = s.lo, t.rows = s.rows,
           t.todo = BlocksFrom(s.lo, f.index, s.end)
    PROVE  ScanOK(t, f, w)
<1>1. Searching(s, f) /\ s.path \in Paths /\ f.state = "finished"
  BY DEF ScanOK, Active
<1>2. s.lo \in Nat /\ s.hi \in Nat /\ s.start \in Nat /\ s.end \in Nat
  BY DEF ScanType
<1>3. /\ Len(f.blocks) \in Nat /\ Len(f.index) = Len(f.blocks)
      /\ \A i \in 1 .. Len(f.blocks) : f.blocks[i] \in Seq(Nat)
  BY BlockFacts
<1>4. s.lo < Len(f.index) /\ (s.lo > 0 => f.index[s.lo + 1].first <= s.start) /\ s.rows = <<>>
  BY <1>1, <1>2, <1>3 DEF Searching
<1>5. Reading(t, f)
  BY <1>2, <1>3, <1>4 DEF Reading
<1>6. ASSUME NEW k \in Match(t, w), Passed(t, f, k)
      PROVE  FALSE
  <2>1. PICK i \in 1 .. s.lo : \E a \in 1 .. Len(f.blocks[i]) : f.blocks[i][a] = k
    BY <1>6 DEF Passed, InFirst
  <2>2. PICK a \in 1 .. Len(f.blocks[i]) : f.blocks[i][a] = k
    BY <2>1
  <2>3. i \in 1 .. Len(f.blocks) /\ s.start <= f.blocks[i][a] /\ f.blocks[i][a] <= s.end
    BY <1>2, <1>3, <1>4, <2>2 DEF Match
  <2>4. i - 1 \in BlocksFrom(s.lo, f.index, s.end)
    BY <1>2, <1>4, <2>3, OutsideBlocks
  <2>5. i - 1 \in s.lo .. Len(f.index) - 1
    BY <2>4 DEF BlocksFrom
  <2> QED BY <1>2, <2>5
<1>7. Delivered(t, f, w)
  <2>1. Len(t.rows) = 0
    BY <1>4
  <2> QED BY <1>6, <2>1 DEF Delivered, Ascending, IsRow
<1> QED BY <1>1, <1>5, <1>7 DEF ScanOK

(* Once a block outside those to read is reached, none of the range is     *)
(* left.                                                                   *)
LEMMA ReturnScan ==
    ASSUME NEW f, NEW w \in Seq(Nat), Sound(f, w),
           NEW s \in ScanType, ScanOK(s, f, w), s.pc = "next", s.at \notin s.todo,
           NEW t \in ScanType, t.pc = "done", t.start = s.start, t.end = s.end,
           t.rows = s.rows, t.dangled = s.dangled
    PROVE  ScanOK(t, f, w)
<1> SUFFICES ASSUME ~s.dangled
             PROVE  Prefix(t, w) /\ Complete(t, w)
  BY DEF ScanOK, Active, Reads
<1>1. Reading(s, f) /\ Delivered(s, f, w) /\ f.state = "finished"
  BY DEF ScanOK, Reads, Active
<1>2. s.lo \in Nat /\ s.at \in Nat /\ s.start \in Nat /\ s.end \in Nat
  BY DEF ScanType
<1>3. /\ Len(f.blocks) \in Nat /\ Len(f.index) = Len(f.blocks)
  BY BlockFacts
<1>4. Prefix(s, w)
  BY <1>1, DeliveredPrefix DEF Reads
<1>5. Prefix(t, w)
  BY <1>4 DEF Prefix, Match, IsRow
<1>6. ASSUME NEW k \in Match(s, w)
      PROVE  IsRow(s, k)
  <2>1. InFirst(f, Len(f.blocks), k) /\ k \in Nat
    <3>1. k \in ToSet(w) /\ k \in Nat
      BY DEF Match, ToSet
    <3> QED BY <1>1, <3>1, FinishedHolds
  <2>2. PICK i \in 1 .. Len(f.blocks) : \E a \in 1 .. Len(f.blocks[i]) : f.blocks[i][a] = k
    BY <2>1 DEF InFirst
  <2>3. PICK a \in 1 .. Len(f.blocks[i]) : f.blocks[i][a] = k
    BY <2>2
  <2>4. s.start <= f.blocks[i][a] /\ f.blocks[i][a] <= s.end
    BY <2>3 DEF Match
  <2>5. i - 1 \in BlocksFrom(s.lo, f.index, s.end)
    BY <1>1, <1>2, <2>4, OutsideBlocks DEF Reading
  <2>6. i - 1 \in s.lo .. Len(f.index) - 1
        /\ \A j \in s.lo .. i - 1 : f.index[j + 1].first <= s.end
    BY <2>5 DEF BlocksFrom
  <2>7. ~(s.at <= i - 1)
    <3> SUFFICES ASSUME s.at <= i - 1 PROVE FALSE
      OBVIOUS
    <3>1. s.lo <= s.at /\ s.todo = BlocksFrom(s.lo, f.index, s.end)
      BY <1>1 DEF Reading
    <3>2. s.at \in s.lo .. Len(f.index) - 1
      BY <1>2, <1>3, <2>6, <3>1
    <3>3. \A j \in s.lo .. s.at : j \in s.lo .. i - 1
      BY <1>2
    <3>4. s.at \in BlocksFrom(s.lo, f.index, s.end)
      BY <2>6, <3>2, <3>3 DEF BlocksFrom
    <3> QED BY <3>1, <3>4
  <2>8. i \in 1 .. s.at
    BY <1>2, <2>7
  <2>9. Passed(s, f, k)
    BY <2>3, <2>8 DEF Passed, InFirst
  <2> QED BY <1>1, <2>1, <2>9 DEF Delivered
<1>7. Complete(t, w)
  BY <1>6 DEF Complete, Match, IsRow
<1> QED BY <1>5, <1>7

(* Finding out where a block is, and getting it, passes no event.          *)
LEMMA FetchScan ==
    ASSUME NEW f, NEW w \in Seq(Nat), Sound(f, w),
           NEW s \in ScanType, ScanOK(s, f, w), s.pc \in Reads \ {"events"}, s.at \in s.todo,
           NEW t \in ScanType, t.path = s.path, t.start = s.start, t.end = s.end,
           t.lo = s.lo, t.todo = s.todo, t.at = s.at, t.rows = s.rows,
           s.dangled => t.dangled,
           \/ t.pc \in Reads \ {"events"}
           \/ t.pc = "events" /\ t.pos = 1 /\ (~t.dangled => t.block = f.blocks[s.at + 1])
    PROVE  ScanOK(t, f, w)
<1>1. Reading(s, f) /\ s.path \in Paths /\ f.state = "finished"
  BY DEF ScanOK, Reads, Active
<1>2. Reading(t, f)
  BY <1>1 DEF Reading
<1>3. ASSUME ~t.dangled
      PROVE  Delivered(t, f, w)
  <2>1. Delivered(s, f, w)
    BY <1>3 DEF ScanOK
  <2>2. t.pc = "events" => t.block = f.blocks[t.at + 1] /\ t.pos = 1
    BY <1>3 DEF Reads
  <2>3. \A k : Passed(t, f, k) <=> Passed(s, f, k)
    BY <2>2 DEF Passed, Reads
  <2>4. t.pc = "events" => t.pos <= Len(t.block) + 1
    <3>1. t.block \in Seq(Nat)
      BY DEF ScanType
    <3> QED BY <2>2, <3>1
  <2> QED BY <2>1, <2>2, <2>3, <2>4 DEF Delivered, Ascending, IsRow, Match
<1> QED BY <1>1, <1>2, <1>3 DEF ScanOK, Reads

(* The next event is passed: skipped when it is before the range, a row    *)
(* when it is within (block.cpp:109-117).                                  *)
LEMMA EventScan ==
    ASSUME NEW f, NEW w \in Seq(Nat), Sound(f, w),
           NEW s \in ScanType, ScanOK(s, f, w), s.pc = "events", s.pos <= Len(s.block),
           NEW e, e = s.block[s.pos],
           NEW t \in ScanType, t.pc = "events", t.path = s.path, t.start = s.start,
           t.end = s.end, t.lo = s.lo, t.todo = s.todo, t.at = s.at, t.block = s.block,
           t.pos = s.pos + 1, t.dangled = s.dangled,
           \/ e < s.start /\ t.rows = s.rows
           \/ e >= s.start /\ e <= s.end /\ t.rows = Append(s.rows, e)
    PROVE  ScanOK(t, f, w)
<1>1. Reading(s, f) /\ s.path \in Paths /\ f.state = "finished" /\ s.pos >= 1
  BY DEF ScanOK, Reads, Active
<1>2. Reading(t, f)
  BY <1>1 DEF Reading
<1>3. s.pos \in Nat /\ s.start \in Nat /\ s.end \in Nat
  BY DEF ScanType
<1>4. ASSUME ~s.dangled
      PROVE  Delivered(t, f, w)
  <2>1. Delivered(s, f, w)
    BY <1>4 DEF ScanOK, Reads
  <2>2. /\ e \in Nat /\ e \in ToSet(w) /\ ~Passed(s, f, e)
        /\ t.rows = Append(s.rows, e) =>
              /\ Ascending(t.rows)
              /\ \A k \in Nat : IsRow(t, k) <=> IsRow(s, k) \/ k = e
    BY <1>1, <2>1, TakeRow
  <2>3. ASSUME NEW k
        PROVE  Passed(t, f, k) <=> Passed(s, f, k) \/ k = e
    <3>1. \A a : a \in 1 .. t.pos - 1 <=> a \in 1 .. s.pos - 1 \/ a = s.pos
      BY <1>1, <1>3
    <3> QED BY <3>1 DEF Passed
  <2>4. Match(t, w) = Match(s, w)
    BY DEF Match
  <2>5. t.block = f.blocks[t.at + 1] /\ t.pos <= Len(t.block) + 1
    <3>1. s.block \in Seq(Nat)
      BY DEF ScanType
    <3>2. s.block = f.blocks[s.at + 1]
      BY <2>1 DEF Delivered
    <3> QED BY <1>3, <3>1, <3>2
  <2>6. \A k \in Nat : IsRow(s, k) <=> k \in Match(s, w) /\ Passed(s, f, k)
    BY <2>1 DEF Delivered
  <2>7. CASE e < s.start /\ t.rows = s.rows
    <3>1. e \notin Match(s, w)
      BY <1>3, <2>2, <2>7 DEF Match
    <3>2. \A k : IsRow(t, k) <=> IsRow(s, k)
      BY <2>7 DEF IsRow
    <3>3. Ascending(t.rows)
      BY <2>1, <2>7 DEF Delivered
    <3> QED BY <2>3, <2>4, <2>5, <2>6, <3>1, <3>2, <3>3 DEF Delivered
  <2>8. CASE e >= s.start /\ e <= s.end /\ t.rows = Append(s.rows, e)
    <3>1. e \in Match(s, w)
      BY <2>2, <2>8 DEF Match
    <3> QED BY <2>2, <2>3, <2>4, <2>5, <2>6, <2>8, <3>1 DEF Delivered
  <2> QED BY <2>7, <2>8
<1>5. t.pos >= 1
  BY <1>1, <1>3
<1> QED BY <1>1, <1>2, <1>4, <1>5 DEF ScanOK, Reads

(* The callback stops the scan at a row.                                   *)
LEMMA LastScan ==
    ASSUME NEW f, NEW w \in Seq(Nat), Sound(f, w),
           NEW s \in ScanType, ScanOK(s, f, w), s.pc = "events", s.pos <= Len(s.block),
           NEW e, e = s.block[s.pos], e >= s.start, e <= s.end,
           NEW t \in ScanType, t.pc = "done", t.start = s.start, t.end = s.end,
           t.rows = Append(s.rows, e), t.dangled = s.dangled, t.stopped = TRUE
    PROVE  ScanOK(t, f, w)
<1> DEFINE u == [s EXCEPT !.pos = s.pos + 1, !.rows = t.rows]
<1>1. /\ u \in ScanType /\ u.pc = "events" /\ u.path = s.path /\ u.start = s.start
      /\ u.end = s.end /\ u.lo = s.lo /\ u.todo = s.todo /\ u.at = s.at /\ u.block = s.block
      /\ u.pos = s.pos + 1 /\ u.dangled = s.dangled /\ u.rows = t.rows
  <2>1. t.rows \in Seq(Nat) /\ s.pos + 1 \in Nat
    <3>1. s.pos \in Nat
      BY DEF ScanType
    <3>2. t.rows \in Seq(Nat)
      BY DEF ScanType
    <3> QED BY <3>1, <3>2
  <2>2. u \in ScanType
    BY <2>1 DEF ScanType
  <2> QED BY <2>2 DEF ScanType
<1> HIDE DEF u
<1>2. ScanOK(u, f, w)
  BY <1>1, EventScan
<1>3. ~t.dangled => Prefix(u, w)
  <2> SUFFICES ASSUME ~t.dangled PROVE Prefix(u, w)
    OBVIOUS
  <2>1. u.pc \in Reads /\ f.state = "finished" /\ Reading(u, f) /\ Delivered(u, f, w)
    BY <1>1, <1>2 DEF ScanOK, Reads, Active
  <2> QED BY <1>1, <2>1, DeliveredPrefix
<1>4. ~t.dangled => Prefix(t, w)
  BY <1>1, <1>3 DEF Prefix, Match, IsRow
<1> QED BY <1>4 DEF ScanOK, Active, Reads

(* What is left of a block when its scan ends is behind the range.         *)
LEMMA LeaveScan ==
    ASSUME NEW f, NEW w \in Seq(Nat), Sound(f, w),
           NEW s \in ScanType, ScanOK(s, f, w), s.pc = "events",
           s.pos > Len(s.block) \/ (s.pos <= Len(s.block) /\ s.block[s.pos] > s.end),
           NEW t \in ScanType, t.pc = "next", t.path = s.path, t.start = s.start,
           t.end = s.end, t.lo = s.lo, t.todo = s.todo, t.at = s.at + 1,
           t.rows = s.rows, t.dangled = s.dangled
    PROVE  ScanOK(t, f, w)
<1> DEFINE c == s.at + 1
<1>1. Reading(s, f) /\ s.path \in Paths /\ f.state = "finished" /\ s.pos >= 1
  BY DEF ScanOK, Reads, Active
<1>2. s.pos \in Nat /\ s.lo \in Nat /\ s.at \in Nat /\ s.end \in Nat /\ s.block \in Seq(Nat)
  BY DEF ScanType
<1>3. /\ Len(f.blocks) \in Nat /\ Len(f.index) = Len(f.blocks)
      /\ \A i \in 1 .. Len(f.blocks) : f.blocks[i] \in Seq(Nat) /\ Len(f.blocks[i]) \in Nat
  BY BlockFacts
<1>4. s.at \in s.todo /\ c \in 1 .. Len(f.blocks) /\ c <= Len(f.index)
  <2>1. s.at \in s.todo /\ s.at \in BlocksFrom(s.lo, f.index, s.end)
    BY <1>1 DEF Reading
  <2> QED BY <1>2, <1>3, <2>1 DEF BlocksFrom
<1>5. Reading(t, f)
  <2>1. \A j \in s.lo .. c - 1 : j \in s.todo
    <3>1. \A j \in s.lo .. c - 1 : j \in s.lo .. s.at - 1 \/ j = s.at
      BY <1>2
    <3> QED BY <1>1, <1>4, <3>1 DEF Reading
  <2> QED BY <1>1, <1>2, <1>4, <2>1 DEF Reading
<1>6. ASSUME ~s.dangled
      PROVE  Delivered(t, f, w)
  <2>1. /\ Delivered(s, f, w) /\ s.block = f.blocks[c] /\ s.pos <= Len(s.block) + 1
    BY <1>6 DEF ScanOK, Reads, Delivered
  <2>2. Ascending(s.block)
    BY <1>4, <2>1 DEF Sound, InOrder
  <2>3. ASSUME NEW k, Passed(s, f, k)
        PROVE  Passed(t, f, k)
    <3>1. \A i \in 1 .. s.at : i \in 1 .. t.at
      BY <1>2
    <3>2. CASE InFirst(f, s.at, k)
      BY <3>1, <3>2 DEF Passed, InFirst
    <3>3. CASE \E a \in 1 .. s.pos - 1 : s.block[a] = k
      <4>1. c \in 1 .. t.at
        BY <1>2
      <4>2. \A a \in 1 .. s.pos - 1 : a \in 1 .. Len(f.blocks[c])
        BY <1>2, <2>1
      <4> QED BY <2>1, <3>3, <4>1, <4>2 DEF Passed, InFirst
    <3> QED BY <2>3, <3>2, <3>3 DEF Passed
  <2>4. ASSUME NEW k \in Match(s, w), Passed(t, f, k)
        PROVE  Passed(s, f, k)
    <3>1. PICK i \in 1 .. c : \E a \in 1 .. Len(f.blocks[i]) : f.blocks[i][a] = k
      BY <2>4 DEF Passed, InFirst
    <3>2. PICK a \in 1 .. Len(f.blocks[i]) : f.blocks[i][a] = k
      BY <3>1
    <3>3. CASE i \in 1 .. s.at
      BY <3>2, <3>3 DEF Passed, InFirst
    <3>4. CASE i = c
      <4>1. a \in 1 .. Len(s.block) /\ s.block[a] = k /\ k <= s.end /\ k \in Nat
        <5>1. a \in 1 .. Len(s.block) /\ s.block[a] = k
          BY <2>1, <3>2, <3>4
        <5>2. k \in Nat
          BY <1>2, <5>1
        <5> QED BY <5>1, <5>2 DEF Match
      <4>2. ~(s.pos <= Len(s.block) /\ s.block[s.pos] > s.end /\ s.pos <= a)
        <5> SUFFICES ASSUME s.pos <= Len(s.block), s.block[s.pos] > s.end, s.pos <= a
                     PROVE  FALSE
          OBVIOUS
        <5>1. s.pos \in 1 .. Len(s.block) /\ s.block[s.pos] \in Nat
          BY <1>1, <1>2
        <5>2. s.pos < a => s.block[s.pos] < s.block[a]
          BY <2>2, <4>1, <5>1 DEF Ascending
        <5>3. s.pos = a \/ s.pos < a
          BY <1>2, <4>1
        <5> QED BY <1>2, <4>1, <5>1, <5>2, <5>3
      <4>3. a \in 1 .. s.pos - 1
        BY <1>2, <4>1, <4>2
      <4> QED BY <4>1, <4>3 DEF Passed
    <3> QED BY <1>2, <3>3, <3>4
  <2>5. Match(t, w) = Match(s, w)
    BY DEF Match
  <2> QED BY <2>1, <2>3, <2>4, <2>5 DEF Delivered, Ascending, IsRow
<1> QED BY <1>1, <1>5, <1>6 DEF ScanOK, Reads

(* A file that may not contain the range has no key of it: the meta block  *)
(* bounds its keys and the filter knows them (sstable.cpp:277-289).        *)
LEMMA StartScan ==
    ASSUME NEW f, NEW w \in Seq(Nat), Len(w) > 0, Ascending(w), Sound(f, w),
           f.state = "finished",
           NEW t \in ScanType, t.path \in Paths, t.lo = 0, t.hi = Len(f.index),
           t.rows = <<>>, t.pc = IF MayContain(f, t.start, t.end) THEN "search" ELSE "done"
    PROVE  ScanOK(t, f, w)
<1>1. Len(w) \in Nat /\ f.count = Len(w) /\ Known(f, w) /\ t.start \in Nat /\ t.end \in Nat
  BY DEF Sound, ScanType
<1>2. 1 \in 1 .. Len(w) /\ Len(w) \in 1 .. Len(w)
  BY <1>1
<1>3. CASE MayContain(f, t.start, t.end)
  <2>1. w[1] \in ToSet(w)
    BY <1>2 DEF ToSet
  <2>2. InFirst(f, Len(f.blocks), w[1])
    BY <2>1, FinishedHolds
  <2>3. Len(f.blocks) \in Nat /\ Len(f.index) = Len(f.blocks)
    BY BlockFacts
  <2>4. Len(f.index) > 0
    BY <2>2, <2>3 DEF InFirst
  <2>5. Searching(t, f)
    BY <2>3, <2>4 DEF Searching
  <2> QED BY <1>3, <2>5 DEF ScanOK, Reads
<1>4. CASE ~MayContain(f, t.start, t.end)
  <2>1. ASSUME NEW k \in Match(t, w)
        PROVE  FALSE
    <3>1. PICK n \in 1 .. Len(w) : k = w[n]
      BY DEF Match, ToSet
    <3>2. k \in Nat /\ w[1] \in Nat /\ w[Len(w)] \in Nat /\ t.start <= k /\ k <= t.end
      BY <1>2, <3>1 DEF Match
    <3>3. w[1] <= k /\ k <= w[Len(w)]
      <4>1. n = 1 \/ 1 < n
        BY <1>1
      <4>2. n = Len(w) \/ n < Len(w)
        BY <1>1
      <4>3. 1 < n => w[1] < w[n]
        BY <1>2 DEF Ascending
      <4>4. n < Len(w) => w[n] < w[Len(w)]
        BY <1>2 DEF Ascending
      <4> QED BY <3>1, <3>2, <4>1, <4>2, <4>3, <4>4
    <3>4. f.min = w[1] /\ f.max = w[Len(w)]
      BY <1>1, <1>2 DEF Known
    <3>5. ~(t.end < f.min \/ f.max < t.start)
      BY <1>1, <3>2, <3>3, <3>4
    <3>6. t.start = t.end => FilterMayContain(f.filter, t.start)
      <4> SUFFICES ASSUME t.start = t.end PROVE FilterMayContain(f.filter, t.start)
        OBVIOUS
      <4>1. t.start = k
        BY <1>1, <3>2
      <4>2. Probes(k) \subseteq f.filter
        BY <1>1, <3>1 DEF Known
      <4> QED BY <4>1, <4>2 DEF FilterMayContain
    <3> QED BY <1>4, <3>5, <3>6 DEF MayContain
  <2>2. Len(t.rows) = 0
    OBVIOUS
  <2>3. Prefix(t, w) /\ Complete(t, w)
    BY <2>1, <2>2 DEF Prefix, Complete, Ascending, IsRow
  <2> QED BY <1>4, <2>3 DEF ScanOK, Active, Reads
<1> QED BY <1>3, <1>4

(* One round of the search (index.cpp:49-55).                              *)
LEMMA SearchScan ==
    ASSUME NEW f, NEW w \in Seq(Nat), Sound(f, w),
           NEW s \in ScanType, ScanOK(s, f, w), s.pc = "search", s.lo + 1 < s.hi,
           NEW mid, mid = (s.lo + s.hi) \div 2,
           NEW t \in ScanType, t.pc = "search", t.path = s.path, t.start = s.start,
           t.rows = s.rows,
           \/ f.index[mid + 1].first <= s.start /\ t.lo = mid /\ t.hi = s.hi
           \/ ~(f.index[mid + 1].first <= s.start) /\ t.lo = s.lo /\ t.hi = mid
    PROVE  ScanOK(t, f, w)
<1>1. Searching(s, f) /\ s.path \in Paths /\ f.state = "finished"
  BY DEF ScanOK, Active
<1>2. s.lo \in Nat /\ s.hi \in Nat /\ s.start \in Nat
  BY DEF ScanType
<1>3. mid \in Nat /\ s.lo < mid /\ mid < s.hi
  BY <1>2
<1>4. Len(f.blocks) \in Nat /\ Len(f.index) = Len(f.blocks)
  BY BlockFacts
<1>5. mid < Len(f.index) /\ mid + 1 \in 1 .. Len(f.blocks)
  BY <1>1, <1>2, <1>3, <1>4 DEF Searching
<1>6. f.index[mid + 1].first \in Nat
  BY <1>5, BlockFacts
<1>7. Searching(t, f)
  <2>1. CASE f.index[mid + 1].first <= s.start /\ t.lo = mid /\ t.hi = s.hi
    BY <1>1, <1>3, <2>1 DEF Searching
  <2>2. CASE ~(f.index[mid + 1].first <= s.start) /\ t.lo = s.lo /\ t.hi = mid
    <3>1. f.index[mid + 1].first > s.start /\ mid <= Len(f.index)
      BY <1>2, <1>4, <1>5, <1>6, <2>2
    <3> QED BY <1>1, <1>3, <2>2, <3>1 DEF Searching
  <2> QED BY <2>1, <2>2
<1> QED BY <1>1, <1>7 DEF ScanOK, Reads

-----------------------------------------------------------------------------
(* The step of one reader leaves the other scans as they are.              *)
LEMMA ReaderFrame ==
    ASSUME ScansInv, UNCHANGED fileVars, NEW r \in Readers, NEW t \in ScanType,
           ScanOK(t, file[t.path], run[t.path]), scan' = [scan EXCEPT ![r] = t]
    PROVE  ScansInv'
<1>1. scan' \in [Readers -> ScanType] /\ scan'[r] = t
      /\ \A q \in Readers : q # r => scan'[q] = scan[q]
  BY DEF ScansInv
<1>2. file' = file /\ run' = run
  BY DEF fileVars
<1>3. ASSUME NEW q \in Readers
      PROVE  ScanOK(scan'[q], file'[scan'[q].path], run'[scan'[q].path])
  <2>1. CASE q = r
    BY <1>1, <1>2, <2>1
  <2>2. CASE q # r
    BY <1>1, <1>2, <2>2 DEF ScansInv
  <2> QED BY <2>1, <2>2
<1> QED BY <1>1, <1>3 DEF ScansInv

(* The step of a writer changes no finished file, so no scan and no block  *)
(* of the cache.                                                           *)
LEMMA WriterFrame ==
    ASSUME FilesInv, ScansInv, CacheInv, NEW p \in Paths,
           file[p].state # "finished", NEW g, file' = [file EXCEPT ![p] = g],
           g.state \in {"open", "finished"} => Sound(g, run[p]),
           UNCHANGED <<run, scan, cacheVars>>
    PROVE  Inv'
<1>1. DOMAIN file' = Paths /\ file'[p] = g /\ \A q \in Paths : q # p => file'[q] = file[q]
  BY DEF FilesInv
<1>2. run' = run /\ scan' = scan /\ memory' = memory /\ index' = index
  BY DEF cacheVars
<1>3. FilesInv'
  BY <1>1, <1>2 DEF FilesInv, Given
<1>4. ScansInv'
  <2>1. ASSUME NEW r \in Readers
        PROVE  ScanOK(scan[r], file'[scan[r].path], run[scan[r].path])
    <3>1. ScanOK(scan[r], file[scan[r].path], run[scan[r].path]) /\ scan[r] \in ScanType
      BY DEF ScansInv
    <3>2. CASE scan[r].pc \in Active
      <4>1. file'[scan[r].path] = file[scan[r].path]
        BY <1>1, <3>1, <3>2 DEF ScanOK
      <4> QED BY <3>1, <4>1
    <3>3. CASE scan[r].pc \in {"done", "failed"}
      BY <3>1, <3>3 DEF ScanOK, Active, Reads
    <3> QED BY <3>1, <3>2, <3>3 DEF ScanType
  <2> QED BY <1>2, <2>1 DEF ScansInv
<1>5. CacheInv'
  <2>1. ASSUME NEW e, IsBlock(e)
        PROVE  IsBlock(e)'
    BY <1>1, <2>1 DEF IsBlock
  <2> QED BY <1>2, <2>1 DEF CacheInv
<1> QED BY <1>3, <1>4, <1>5 DEF Inv

-----------------------------------------------------------------------------
(* The cache: get() changes only the order, put() adds the block given.    *)
LEMMA CacheHit ==
    ASSUME CacheInv, UNCHANGED fileVars, NEW key, GetHit(key)
    PROVE  CacheInv'
<1>1. file' = file /\ memory' = memory /\ index' = index
  BY DEF fileVars, GetHit
<1>2. ASSUME NEW e, IsBlock(e)
      PROVE  IsBlock(e)'
  BY <1>1, <1>2 DEF IsBlock
<1> QED BY <1>1, <1>2 DEF CacheInv

LEMMA CachePut ==
    ASSUME CacheInv, UNCHANGED fileVars, NEW p \in Paths, file[p].state = "finished",
           NEW b \in 1 .. Len(file[p].blocks), NEW size,
           Put(<<p, b>>, file[p].blocks[b], size)
    PROVE  CacheInv'
<1> DEFINE key == <<p, b>>
           entry == [key |-> key, data |-> file[p].blocks[b], size |-> size]
<1>1. file' = file
  BY DEF fileVars
<1>3. IsBlock(entry)
  BY DEF IsBlock
<1> DEFINE had == key \in DOMAIN index
           rest == IF had THEN Erase(lru, index[key]) ELSE lru
           other == IF had THEN Without(memory, {index[key]}) ELSE memory
           freed == IF had THEN memory[index[key]].size ELSE 0
           bytes == curBytes - freed + size
           mem(a) == With(other, a, entry)
           list(a) == <<a>> \o rest
           kept(a) == Kept(mem(a), list(a), bytes)
           gone(a) == {list(a)[n] : n \in kept(a) + 1 .. Len(list(a))}
           keys(a) == {mem(a)[c].key : c \in gone(a)}
<1>4. PICK a \in Addresses \ ToSet(rest) :
         /\ memory' = Without(mem(a), gone(a))
         /\ index' = Without(With(index, key, a), keys(a))
  BY DEF Put
<1>5. \A x \in DOMAIN other : x \in DOMAIN memory /\ other[x] = memory[x]
  BY DEF Without
<1> HIDE DEF key, entry, other, gone, keys
<1>6. ASSUME NEW x \in DOMAIN memory'
      PROVE  memory'[x] = entry \/ (x \in DOMAIN memory /\ memory'[x] = memory[x])
  <2>1. x \in DOMAIN mem(a) /\ memory'[x] = mem(a)[x]
    BY <1>4, <1>6 DEF Without
  <2> QED BY <1>5, <2>1 DEF With
<1>7. ASSUME NEW x \in DOMAIN index'
      PROVE  index'[x] = a \/ (x \in DOMAIN index /\ index'[x] = index[x])
  <2>1. x \in DOMAIN With(index, key, a) /\ index'[x] = With(index, key, a)[x]
    BY <1>4, <1>7 DEF Without
  <2> QED BY <2>1 DEF With
<1>8. ASSUME NEW x \in DOMAIN memory'
      PROVE  IsBlock(memory[x])'
  <2>1. IsBlock(memory'[x])
    BY <1>3, <1>6 DEF CacheInv
  <2> QED BY <1>1, <2>1 DEF IsBlock
<1> QED BY <1>4, <1>7, <1>8 DEF CacheInv

(* What a reader at work relies on.                                        *)
LEMMA ReaderFacts ==
    ASSUME SsTableAssumption, Inv, NEW r \in Readers, scan[r].pc \in Active
    PROVE  /\ scan[r] \in ScanType /\ scan[r].path \in Paths
           /\ file[scan[r].path].state = "finished"
           /\ run[scan[r].path] \in Seq(Nat)
           /\ Sound(file[scan[r].path], run[scan[r].path])
           /\ ScanOK(scan[r], file[scan[r].path], run[scan[r].path])
<1>1. /\ scan[r] \in ScanType /\ ScanOK(scan[r], file[scan[r].path], run[scan[r].path])
  BY DEF Inv, ScansInv
<1>2. scan[r].path \in Paths /\ file[scan[r].path].state = "finished"
  BY <1>1 DEF ScanOK
<1>3. run[scan[r].path] \in Seq(Nat) /\ Sound(file[scan[r].path], run[scan[r].path])
  BY <1>2, RunOfFile DEF Inv, FilesInv
<1> QED BY <1>1, <1>2, <1>3

LEMMA WantedFacts ==
    ASSUME SsTableAssumption, Inv, NEW r \in Readers, scan[r].pc \in Reads,
           scan[r].at \in scan[r].todo
    PROVE  /\ scan[r].at + 1 \in 1 .. Len(file[scan[r].path].blocks)
           /\ Wanted(r) = <<scan[r].path, scan[r].at + 1>>
           /\ WantedData(r) = file[scan[r].path].blocks[scan[r].at + 1]
           /\ WantedData(r) \in Seq(Nat)
<1> DEFINE s == scan[r]
           f == file[s.path]
           w == run[s.path]
<1>1. /\ s \in ScanType /\ w \in Seq(Nat) /\ Sound(f, w) /\ ScanOK(s, f, w)
  BY ReaderFacts DEF Reads, Active
<1>2. s.todo = BlocksFrom(s.lo, f.index, s.end)
  BY <1>1 DEF ScanOK, Reading
<1> HIDE DEF f, w
<1>3. Len(f.blocks) \in Nat /\ Len(f.index) = Len(f.blocks)
  BY <1>1, BlockFacts
<1>4. s.at + 1 \in 1 .. Len(f.blocks)
  BY <1>1, <1>2, <1>3 DEF BlocksFrom, ScanType
<1>5. f.index[s.at + 1].block = s.at + 1 /\ f.blocks[s.at + 1] \in Seq(Nat)
  BY <1>1, <1>4, BlockFacts
<1> QED BY <1>4, <1>5 DEF Wanted, WantedData, Index, f

(* A reader's step keeps the invariant when its scan stays sound.          *)
LEMMA ReaderStep ==
    ASSUME Inv, UNCHANGED fileVars, CacheInv', NEW r \in Readers, NEW t \in ScanType,
           ScanOK(t, file[t.path], run[t.path]), scan' = [scan EXCEPT ![r] = t]
    PROVE  Inv'
<1>1. ScansInv'
  BY ReaderFrame DEF Inv
<1>2. FilesInv'
  BY DEF Inv, FilesInv, fileVars, Given
<1> QED BY <1>1, <1>2 DEF Inv

LEMMA CacheSame ==
    ASSUME Inv, UNCHANGED <<fileVars, cacheVars>>
    PROVE  CacheInv'
<1>1. file' = file /\ memory' = memory /\ index' = index
  BY DEF fileVars, cacheVars
<1> QED BY <1>1 DEF Inv, CacheInv, IsBlock

-----------------------------------------------------------------------------
(* The steps of a reader, from the start of a scan to its first block.     *)
LEMMA SearchSteps ==
    ASSUME SsTableAssumption, Inv, NEW r \in Readers,
           \/ \E ask \in Asks[r] : Start(r, ask[1], ask[2], ask[3])
           \/ Search(r) \/ Found(r)
    PROVE  Inv'
<1> DEFINE s == scan[r]
           f == file[s.path]
           w == run[s.path]
<1>1. ASSUME NEW p \in Paths, NEW start \in Nat, NEW end \in Nat, Start(r, p, start, end)
      PROVE  Inv'
  <2> DEFINE pc == IF MayContain(file[p], start, end) THEN "search" ELSE "done"
             t == [NoScan EXCEPT !.pc = pc, !.path = p, !.start = start, !.end = end,
                                 !.hi = Len(file[p].index)]
  <2>1. file[p].state = "finished" /\ scan' = [scan EXCEPT ![r] = t]
        /\ UNCHANGED <<fileVars, cacheVars>>
    BY <1>1 DEF Start
  <2>2. /\ run[p] \in Seq(Nat) /\ Len(run[p]) > 0 /\ Ascending(run[p])
        /\ Sound(file[p], run[p])
    BY <2>1, RunOfFile DEF Inv, FilesInv
  <2>3. Len(file[p].index) \in Nat
    BY <2>2, BlockFacts
  <2>4. pc \in {"search", "done"} /\ <<>> \in Seq(Nat)
    OBVIOUS
  <2> HIDE DEF pc
  <2>5. /\ t \in ScanType /\ t.path = p /\ t.lo = 0 /\ t.hi = Len(file[p].index)
        /\ t.rows = <<>> /\ t.pc = pc /\ t.start = start /\ t.end = end
    BY <2>3, <2>4 DEF NoScan, ScanType, Active
  <2> HIDE DEF t
  <2>6. ScanOK(t, file[p], run[p])
    BY <2>1, <2>2, <2>5, StartScan DEF pc
  <2>7. ScanOK(t, file[t.path], run[t.path])
    BY <2>5, <2>6
  <2> QED BY <2>1, <2>5, <2>7, CacheSame, ReaderStep
<1>2. CASE Search(r)
  <2> DEFINE mid == (s.lo + s.hi) \div 2
             u == [s EXCEPT !.lo = mid]
             v == [s EXCEPT !.hi = mid]
  <2>1. /\ s.pc = "search" /\ s.lo + 1 < s.hi /\ UNCHANGED <<fileVars, cacheVars>>
        /\ scan' = IF f.index[mid + 1].first <= s.start
                   THEN [scan EXCEPT ![r] = u] ELSE [scan EXCEPT ![r] = v]
    BY <1>2 DEF Search, ToSearch, Index
  <2>2. /\ s \in ScanType /\ w \in Seq(Nat) /\ Sound(f, w) /\ ScanOK(s, f, w)
    BY <2>1, ReaderFacts DEF Active
  <2>3. mid \in Nat
    BY <2>2 DEF ScanType
  <2> HIDE DEF mid
  <2>4. /\ u \in ScanType /\ u.path = s.path /\ u.pc = s.pc /\ u.start = s.start
        /\ u.rows = s.rows /\ u.lo = mid /\ u.hi = s.hi
        /\ v \in ScanType /\ v.path = s.path /\ v.pc = s.pc /\ v.start = s.start
        /\ v.rows = s.rows /\ v.lo = s.lo /\ v.hi = mid
    BY <2>2, <2>3 DEF ScanType
  <2> HIDE DEF u, v
  <2>5. CASE f.index[mid + 1].first <= s.start
    <3>1. ScanOK(u, f, w)
      BY <2>1, <2>2, <2>4, <2>5, SearchScan DEF mid
    <3> QED BY <2>1, <2>4, <2>5, <3>1, CacheSame, ReaderStep
  <2>6. CASE ~(f.index[mid + 1].first <= s.start)
    <3>1. ScanOK(v, f, w)
      BY <2>1, <2>2, <2>4, <2>6, SearchScan DEF mid
    <3> QED BY <2>1, <2>4, <2>6, <3>1, CacheSame, ReaderStep
  <2> QED BY <2>5, <2>6
<1>3. CASE Found(r)
  <2> DEFINE left == BlocksFrom(s.lo, f.index, s.end)
             t == [s EXCEPT !.pc = "next", !.at = s.lo, !.todo = left]
  <2>1. s.pc = "search" /\ scan' = [scan EXCEPT ![r] = t] /\ UNCHANGED <<fileVars, cacheVars>>
    BY <1>3 DEF Found, Index
  <2>2. /\ s \in ScanType /\ w \in Seq(Nat) /\ Sound(f, w) /\ ScanOK(s, f, w)
    BY <2>1, ReaderFacts DEF Active
  <2>3. left \in SUBSET Nat
    <3>1. Len(f.index) \in Nat
      BY <2>2, BlockFacts
    <3> QED BY <2>2, <3>1 DEF BlocksFrom, ScanType
  <2> HIDE DEF left
  <2>4. /\ t \in ScanType /\ t.pc = "next" /\ t.path = s.path /\ t.start = s.start
        /\ t.end = s.end /\ t.lo = s.lo /\ t.at = s.lo /\ t.rows = s.rows /\ t.todo = left
    BY <2>2, <2>3 DEF ScanType, Active
  <2> HIDE DEF t
  <2>5. ScanOK(t, f, w)
    BY <2>1, <2>2, <2>4, FoundScan DEF left
  <2> QED BY <2>1, <2>4, <2>5, CacheSame, ReaderStep
<1>4. Asks[r] \in SUBSET (Paths \X Nat \X Nat)
  BY DEF SsTableAssumption
<1> QED BY <1>1, <1>2, <1>3, <1>4

(* ... getting a block, from the cache or the file                         *)
LEMMA FetchSteps ==
    ASSUME SsTableAssumption, Inv, NEW r \in Readers,
           ReadHit(r) \/ ReadMiss(r) \/ Load(r) \/ LoadFails(r) \/ Decode(r) \/ DecodeFails(r)
    PROVE  Inv'
<1> DEFINE s == scan[r]
           f == file[s.path]
           w == run[s.path]
<1>1. s.pc \in Reads \ {"events"}
  BY DEF ReadHit, ReadMiss, Load, LoadFails, Decode, DecodeFails, Reads
<1>2. /\ s \in ScanType /\ s.path \in Paths /\ f.state = "finished" /\ w \in Seq(Nat)
      /\ Sound(f, w) /\ ScanOK(s, f, w)
  BY <1>1, ReaderFacts DEF Active, Reads
<1>3. s.at \in s.todo
  BY <1>1, <1>2 DEF ReadHit, ReadMiss, Load, LoadFails, Decode, DecodeFails, ScanOK,
     Reading, Reads
<1> DEFINE c == s.at + 1
<1>4. /\ c \in 1 .. Len(f.blocks) /\ Wanted(r) = <<s.path, c>>
      /\ WantedData(r) = f.blocks[c] /\ WantedData(r) \in Seq(Nat)
  BY <1>1, <1>3, WantedFacts
<1>5. CASE ReadHit(r)
  <2> DEFINE a == index[Wanted(r)]
             t == [s EXCEPT !.pc = "decode", !.pointer = a]
  <2>1. /\ scan' = [scan EXCEPT ![r] = t] /\ UNCHANGED fileVars /\ GetHit(Wanted(r))
    BY <1>5 DEF ReadHit
  <2>2. a \in Addresses
    BY <2>1 DEF GetHit, Inv, CacheInv
  <2> HIDE DEF a
  <2>3. /\ t \in ScanType /\ t.pc = "decode" /\ t.path = s.path /\ t.start = s.start
        /\ t.end = s.end /\ t.lo = s.lo /\ t.todo = s.todo /\ t.at = s.at /\ t.rows = s.rows
        /\ t.dangled = s.dangled
    BY <1>2, <2>2 DEF ScanType, Active
  <2> HIDE DEF t
  <2>4. ScanOK(t, f, w)
    BY <1>1, <1>2, <1>3, <2>3, FetchScan DEF Reads
  <2>5. CacheInv'
    BY <2>1, CacheHit DEF Inv
  <2> QED BY <2>1, <2>3, <2>4, <2>5, ReaderStep
<1>6. CASE ReadMiss(r)
  <2> DEFINE t == [s EXCEPT !.pc = "missed"]
  <2>1. /\ scan' = [scan EXCEPT ![r] = t] /\ UNCHANGED <<fileVars, cacheVars>>
    BY <1>6 DEF ReadMiss, GetMiss
  <2>3. /\ t \in ScanType /\ t.pc = "missed" /\ t.path = s.path /\ t.start = s.start
        /\ t.end = s.end /\ t.lo = s.lo /\ t.todo = s.todo /\ t.at = s.at /\ t.rows = s.rows
        /\ t.dangled = s.dangled
    BY <1>2 DEF ScanType, Active
  <2> HIDE DEF t
  <2>4. ScanOK(t, f, w)
    BY <1>1, <1>2, <1>3, <2>3, FetchScan DEF Reads
  <2> QED BY <2>1, <2>3, <2>4, CacheSame, ReaderStep
<1>7. CASE Load(r)
  <2> DEFINE t == [s EXCEPT !.pc = "events", !.pos = 1, !.block = WantedData(r)]
  <2>1. /\ scan' = [scan EXCEPT ![r] = t] /\ UNCHANGED fileVars
        /\ Put(Wanted(r), WantedData(r), BlockBytes(Len(WantedData(r))))
    BY <1>7 DEF Load
  <2>3. /\ t \in ScanType /\ t.pc = "events" /\ t.path = s.path /\ t.start = s.start
        /\ t.end = s.end /\ t.lo = s.lo /\ t.todo = s.todo /\ t.at = s.at /\ t.rows = s.rows
        /\ t.dangled = s.dangled /\ t.pos = 1 /\ t.block = f.blocks[s.at + 1]
    BY <1>2, <1>4 DEF ScanType, Active
  <2> HIDE DEF t
  <2>4. ScanOK(t, f, w)
    BY <1>1, <1>2, <1>3, <2>3, FetchScan DEF Reads
  <2>5. CacheInv'
    BY <1>2, <1>4, <2>1, CachePut DEF Inv
  <2> QED BY <2>1, <2>3, <2>4, <2>5, ReaderStep
<1>8. CASE Decode(r)
  <2> DEFINE read == IF s.pointer \in DOMAIN memory THEN memory[s.pointer].data ELSE WantedData(r)
             lost == s.dangled \/ ~PointerValid(r)
             t == [s EXCEPT !.pc = "events", !.pos = 1, !.pointer = "null", !.block = read,
                            !.dangled = lost]
  <2>1. /\ scan' = [scan EXCEPT ![r] = t] /\ UNCHANGED <<fileVars, cacheVars>>
    BY <1>8 DEF Decode
  <2>2. read \in Seq(Nat) /\ (~lost => read = f.blocks[c])
    <3>1. CASE s.pointer \notin DOMAIN memory
      BY <1>4, <3>1
    <3>2. CASE s.pointer \in DOMAIN memory
      <4>1. PICK p \in Paths : /\ file[p].state = "finished"
                               /\ \E b \in 1 .. Len(file[p].blocks) :
                                     /\ memory[s.pointer].key = <<p, b>>
                                     /\ memory[s.pointer].data = file[p].blocks[b]
        BY <3>2 DEF Inv, CacheInv, IsBlock
      <4>2. PICK b \in 1 .. Len(file[p].blocks) : /\ memory[s.pointer].key = <<p, b>>
                                                  /\ memory[s.pointer].data = file[p].blocks[b]
        BY <4>1
      <4>3. run[p] \in Seq(Nat) /\ Sound(file[p], run[p])
        BY <4>1, RunOfFile DEF Inv, FilesInv
      <4>4. file[p].blocks[b] \in Seq(Nat)
        BY <4>3, BlockFacts
      <4>5. ~lost => p = s.path /\ b = c
        BY <1>4, <4>2 DEF PointerValid
      <4> QED BY <3>2, <4>2, <4>4, <4>5
    <3> QED BY <3>1, <3>2
  <2>3. lost \in BOOLEAN /\ (s.dangled => lost)
    BY <1>2 DEF ScanType
  <2> HIDE DEF read, lost
  <2>4. /\ t \in ScanType /\ t.pc = "events" /\ t.path = s.path /\ t.start = s.start
        /\ t.end = s.end /\ t.lo = s.lo /\ t.todo = s.todo /\ t.at = s.at /\ t.rows = s.rows
        /\ t.dangled = lost /\ t.pos = 1 /\ t.block = read
    BY <1>2, <2>2, <2>3 DEF ScanType, Active
  <2> HIDE DEF t
  <2>5. ScanOK(t, f, w)
    BY <1>1, <1>2, <1>3, <2>2, <2>3, <2>4, FetchScan DEF Reads
  <2> QED BY <2>1, <2>4, <2>5, CacheSame, ReaderStep
<1>9. CASE LoadFails(r) \/ DecodeFails(r)
  <2> DEFINE t == [NoScan EXCEPT !.pc = "failed"]
  <2>1. /\ scan' = [scan EXCEPT ![r] = t] /\ UNCHANGED <<fileVars, cacheVars>>
    BY <1>9 DEF LoadFails, DecodeFails
  <2>2. t \in ScanType /\ t.pc = "failed" /\ t.path = "none"
    <3>1. <<>> \in Seq(Nat)
      OBVIOUS
    <3> QED BY <3>1 DEF NoScan, ScanType, Active
  <2> HIDE DEF t
  <2>3. ScanOK(t, file[t.path], run[t.path])
    BY <2>2 DEF ScanOK, Active, Reads
  <2> QED BY <2>1, <2>2, <2>3, CacheSame, ReaderStep
<1> QED BY <1>5, <1>6, <1>7, <1>8, <1>9

(* ... its events, and the return.                                         *)
LEMMA EventSteps ==
    ASSUME SsTableAssumption, Inv, NEW r \in Readers,
           SkipEvent(r) \/ TakeEvent(r) \/ TakeLastEvent(r) \/ LeaveBlock(r) \/ Return(r)
    PROVE  Inv'
<1> DEFINE s == scan[r]
           f == file[s.path]
           w == run[s.path]
           e == s.block[s.pos]
           more == Append(s.rows, e)
<1>1. s.pc \in {"events", "next"} /\ UNCHANGED <<fileVars, cacheVars>>
  BY DEF SkipEvent, TakeEvent, TakeLastEvent, LeaveBlock, Return, InBlock
<1>2. /\ s \in ScanType /\ s.path \in Paths /\ f.state = "finished" /\ w \in Seq(Nat)
      /\ Sound(f, w) /\ ScanOK(s, f, w)
  BY <1>1, ReaderFacts DEF Active
<1>3. /\ s.pos \in Nat /\ s.at \in Nat /\ s.block \in Seq(Nat) /\ s.rows \in Seq(Nat)
      /\ s.path \in Paths \cup {"none"} /\ s.start \in Nat /\ s.end \in Nat
      /\ s.dangled \in BOOLEAN
  BY <1>2 DEF ScanType
<1>4. CacheInv'
  BY <1>1, CacheSame
<1>5. ASSUME InBlock(r)
      PROVE  s.pc = "events" /\ s.pos <= Len(s.block) /\ e \in Nat /\ more \in Seq(Nat)
  <2>1. s.pc = "events" /\ s.pos <= Len(s.block)
    BY <1>5 DEF InBlock
  <2>2. s.pos >= 1
    BY <1>2, <2>1 DEF ScanOK
  <2>3. e \in Nat
    BY <1>3, <2>1, <2>2
  <2> QED BY <1>3, <2>1, <2>3
<1>6. ASSUME SkipEvent(r) \/ TakeEvent(r)
      PROVE  Inv'
  <2> DEFINE rows == IF e < s.start THEN s.rows ELSE more
             t == [s EXCEPT !.pos = s.pos + 1, !.rows = rows]
  <2>1. s.pc = "events" /\ s.pos <= Len(s.block) /\ e \in Nat /\ more \in Seq(Nat)
    BY <1>5, <1>6 DEF SkipEvent, TakeEvent
  <2>2. scan' = [scan EXCEPT ![r] = t]
    <3>1. CASE SkipEvent(r)
      <4>1. e < s.start /\ scan' = [scan EXCEPT ![r] = [s EXCEPT !.pos = s.pos + 1]]
        BY <3>1 DEF SkipEvent, NextEvent
      <4>2. t = [s EXCEPT !.pos = s.pos + 1]
        BY <1>2, <4>1 DEF ScanType
      <4> QED BY <4>1, <4>2
    <3>2. CASE TakeEvent(r)
      <4>1. e >= s.start
            /\ scan' = [scan EXCEPT ![r] = [s EXCEPT !.pos = s.pos + 1, !.rows = more]]
        BY <3>2 DEF TakeEvent, NextEvent
      <4>2. ~(e < s.start)
        BY <1>3, <2>1, <4>1
      <4> QED BY <4>1, <4>2
    <3> QED BY <1>6, <3>1, <3>2
  <2>3. \/ e < s.start /\ rows = s.rows
        \/ e >= s.start /\ e <= s.end /\ rows = Append(s.rows, e)
    BY <1>3, <1>6, <2>1 DEF SkipEvent, TakeEvent, NextEvent
  <2>4. rows \in Seq(Nat)
    BY <1>3, <2>1
  <2> HIDE DEF rows, more, e
  <2>5. /\ t \in ScanType /\ t.pc = "events" /\ t.path = s.path /\ t.start = s.start
        /\ t.end = s.end /\ t.lo = s.lo /\ t.todo = s.todo /\ t.at = s.at
        /\ t.block = s.block /\ t.pos = s.pos + 1 /\ t.dangled = s.dangled /\ t.rows = rows
    <3>1. s.pos + 1 \in Nat
      BY <1>3
    <3>2. t \in ScanType
      BY <1>2, <2>4, <3>1 DEF ScanType
    <3> QED BY <1>2, <2>1, <3>2 DEF ScanType
  <2> HIDE DEF t
  <2>6. ScanOK(t, f, w)
    BY <1>2, <2>1, <2>3, <2>5, EventScan DEF e
  <2> QED BY <1>1, <1>4, <2>2, <2>5, <2>6, ReaderStep
<1> DEFINE ended(rows, stopped) ==
             [NoScan EXCEPT !.path = s.path, !.start = s.start, !.end = s.end,
                            !.rows = rows, !.stopped = stopped, !.dangled = s.dangled]
<1>7. ASSUME NEW rows \in Seq(Nat), NEW stopped \in BOOLEAN
      PROVE  LET t == ended(rows, stopped)
             IN  /\ t \in ScanType /\ t.pc = "done" /\ t.path = s.path /\ t.start = s.start
                 /\ t.end = s.end /\ t.rows = rows /\ t.stopped = stopped
                 /\ t.dangled = s.dangled
  <2>1. <<>> \in Seq(Nat)
    OBVIOUS
  <2> QED BY <1>3, <2>1 DEF NoScan, ScanType, Active
<1>8. CASE TakeLastEvent(r)
  <2> DEFINE t == ended(more, TRUE)
  <2>1. /\ scan' = [scan EXCEPT ![r] = t] /\ InBlock(r) /\ e >= s.start /\ e <= s.end
    BY <1>8 DEF TakeLastEvent, Ended, NextEvent
  <2>2. s.pc = "events" /\ s.pos <= Len(s.block) /\ e \in Nat /\ more \in Seq(Nat)
    BY <1>5, <2>1
  <2>3. /\ t \in ScanType /\ t.pc = "done" /\ t.path = s.path /\ t.start = s.start
        /\ t.end = s.end /\ t.rows = more /\ t.stopped = TRUE /\ t.dangled = s.dangled
    BY <1>7, <2>2
  <2> HIDE DEF t
  <2>4. ScanOK(t, f, w)
    BY <1>2, <2>1, <2>2, <2>3, LastScan
  <2> QED BY <1>1, <1>4, <2>1, <2>3, <2>4, ReaderStep
<1>9. CASE LeaveBlock(r)
  <2> DEFINE t == [s EXCEPT !.pc = "next", !.at = s.at + 1, !.block = <<>>, !.pos = 0]
  <2>1. /\ scan' = [scan EXCEPT ![r] = t] /\ s.pc = "events"
        /\ s.pos > Len(s.block) \/ (s.pos <= Len(s.block) /\ s.block[s.pos] > s.end)
    BY <1>9 DEF LeaveBlock, InBlock, NextEvent
  <2>2. s.at + 1 \in Nat /\ <<>> \in Seq(Nat)
    BY <1>3
  <2>3. /\ t \in ScanType /\ t.pc = "next" /\ t.path = s.path /\ t.start = s.start
        /\ t.end = s.end /\ t.lo = s.lo /\ t.todo = s.todo /\ t.at = s.at + 1
        /\ t.rows = s.rows /\ t.dangled = s.dangled
    BY <1>2, <2>2 DEF ScanType, Active
  <2> HIDE DEF t
  <2>4. ScanOK(t, f, w)
    BY <1>2, <2>1, <2>3, LeaveScan
  <2> QED BY <1>1, <1>4, <2>1, <2>3, <2>4, ReaderStep
<1>10. CASE Return(r)
  <2> DEFINE t == ended(s.rows, FALSE)
  <2>1. /\ scan' = [scan EXCEPT ![r] = t] /\ s.pc = "next" /\ s.at \notin s.todo
    BY <1>10 DEF Return, Ended
  <2>3. /\ t \in ScanType /\ t.pc = "done" /\ t.path = s.path /\ t.start = s.start
        /\ t.end = s.end /\ t.rows = s.rows /\ t.dangled = s.dangled
    BY <1>3, <1>7
  <2> HIDE DEF t
  <2>4. ScanOK(t, f, w)
    BY <1>2, <2>1, <2>3, ReturnScan
  <2> QED BY <1>1, <1>4, <2>1, <2>3, <2>4, ReaderStep
<1> QED BY <1>6, <1>8, <1>9, <1>10

(* The steps of a writer.                                                  *)
LEMMA WriteSteps ==
    ASSUME SsTableAssumption, Inv, NEW p \in Paths, Write(p)
    PROVE  Inv'
<1> DEFINE f == file[p]
           w == run[p]
<1>1. w \in Seq(Nat) /\ Ascending(w) /\ (f.state = "open" => Sound(f, w))
  BY RunOfFile DEF Inv, FilesInv
<1>2. CASE Create(p)
  <2>1. f.state = "none" /\ file' = [file EXCEPT ![p] = NewTable]
        /\ UNCHANGED <<run, scan, cacheVars>>
    BY <1>2 DEF Create
  <2>2. Sound(NewTable, w)
    BY <1>1, NewSound
  <2> HIDE DEF w
  <2> QED BY <2>1, <2>2, WriterFrame DEF Inv, w
<1>3. CASE Add(p)
  <2> DEFINE g == WithEvent(f, w[f.count + 1])
  <2>1. f.state = "open" /\ f.count < Len(w) /\ file' = [file EXCEPT ![p] = g]
        /\ UNCHANGED <<run, scan, cacheVars>>
    BY <1>3 DEF Add
  <2>2. Sound(g, w)
    BY <1>1, <2>1, AddSound
  <2> HIDE DEF g
  <2> QED BY <2>1, <2>2, WriterFrame DEF Inv
<1>4. CASE Finish(p)
  <2> DEFINE g == [FlushBlock(f) EXCEPT !.state = "finished"]
  <2>1. f.state = "open" /\ f.count = Len(w) /\ file' = [file EXCEPT ![p] = g]
        /\ UNCHANGED <<run, scan, cacheVars>>
    BY <1>4 DEF Finish
  <2>2. Sound(g, w)
    BY <1>1, <2>1, FinishSound
  <2> HIDE DEF g
  <2> QED BY <2>1, <2>2, WriterFrame DEF Inv
<1>5. CASE WriterFails(p)
  <2> DEFINE g == [NewTable EXCEPT !.state = "removed"]
  <2>1. f.state = "open" /\ file' = [file EXCEPT ![p] = g]
        /\ UNCHANGED <<run, scan, cacheVars>>
    BY <1>5 DEF WriterFails
  <2>2. g.state = "removed"
    BY DEF NewTable
  <2> HIDE DEF g
  <2> QED BY <2>1, <2>2, WriterFrame DEF Inv
<1> QED BY <1>2, <1>3, <1>4, <1>5 DEF Write

-----------------------------------------------------------------------------
(* The invariant, from the first state on.                                 *)
LEMMA InitInv == ASSUME Init PROVE Inv
<1>1. run \in Given /\ DOMAIN file = Paths /\ \A p \in Paths : file[p].state = "none"
  BY DEF Init, NewTable
<1>2. FilesInv
  BY <1>1 DEF FilesInv
<1>3. NoScan \in ScanType /\ NoScan.pc = "done" /\ NoScan.path = "none"
  <2>1. <<>> \in Seq(Nat)
    OBVIOUS
  <2> QED BY <2>1 DEF NoScan, ScanType, Active
<1>4. \A f, w : ScanOK(NoScan, f, w)
  BY <1>3 DEF ScanOK, Active, Reads
<1>5. ScansInv
  BY <1>3, <1>4 DEF Init, ScansInv
<1>6. CacheInv
  <2>1. DOMAIN memory = {} /\ DOMAIN index = {}
    BY DEF Init, CacheInit
  <2> QED BY <2>1 DEF CacheInv
<1> QED BY <1>2, <1>5, <1>6 DEF Inv

LEMMA StepInv == ASSUME SsTableAssumption, Inv, [Next]_vars PROVE Inv'
<1>1. ASSUME NEW p \in Paths, Write(p) PROVE Inv'
  BY <1>1, WriteSteps
<1>2. ASSUME NEW r \in Readers, NEW ask \in Asks[r], Start(r, ask[1], ask[2], ask[3])
      PROVE  Inv'
  BY <1>2, SearchSteps
<1>3. ASSUME NEW r \in Readers, ScanStep(r) PROVE Inv'
  BY <1>3, SearchSteps, FetchSteps, EventSteps DEF ScanStep
<1>4. CASE UNCHANGED vars
  <2>1. UNCHANGED <<fileVars, cacheVars>> /\ scan' = scan
    BY <1>4 DEF vars, fileVars, cacheVars
  <2>2. CacheInv'
    BY <2>1, CacheSame
  <2>3. FilesInv' /\ ScansInv'
    BY <2>1 DEF Inv, FilesInv, ScansInv, fileVars, Given
  <2> QED BY <2>2, <2>3 DEF Inv
<1> QED BY <1>1, <1>2, <1>3, <1>4 DEF Next

LEMMA Invariant == Spec => []Inv
<1>1. SsTableAssumption
  BY SsTableAssumption
<1>2. Init => Inv
  BY InitInv
<1>3. Inv /\ [Next]_vars => Inv'
  BY <1>1, StepInv
<1> QED BY <1>2, <1>3, PTL DEF Spec

(* ScanExact in every state, whatever readers and writers do: each scan    *)
(* gives the events of its range in order and passes over none, for every  *)
(* run, block size, filter and cache (sstable.cpp:291, index.cpp:42,       *)
(* block.cpp:109).                                                         *)
THEOREM ScansAreExact == Spec => []ScanExact
<1>1. Inv => ScanExact
  <2> SUFFICES ASSUME Inv, NEW r \in Readers, Scanning(r), ~scan[r].dangled
               PROVE  LET rows == scan[r].rows
                      IN  /\ \A i, j \in DOMAIN rows : i < j => rows[i] < rows[j]
                          /\ ToSet(rows) \subseteq Matching(r)
                          /\ \A k \in Matching(r) \ ToSet(rows) :
                                \A i \in DOMAIN rows : rows[i] < k
                          /\ scan[r].pc = "done" /\ ~scan[r].stopped =>
                                Matching(r) \subseteq ToSet(rows)
    BY DEF ScanExact
  <2> DEFINE s == scan[r]
             f == file[s.path]
             w == run[s.path]
  <2>1. s \in ScanType /\ ScanOK(s, f, w) /\ s.path # "none"
    BY DEF Inv, ScansInv, Scanning
  <2>2. Matching(r) = Match(s, w)
    BY DEF Matching, Match
  <2>3. Prefix(s, w) /\ (s.pc = "done" /\ ~s.stopped => Complete(s, w))
    <3>1. CASE s.pc = "search"
      <4>1. s.rows = <<>>
        BY <2>1, <3>1 DEF ScanOK, Searching
      <4>2. Len(s.rows) = 0
        BY <4>1
      <4> QED BY <3>1, <4>2 DEF Prefix, Ascending, IsRow
    <3>2. CASE s.pc \in Reads
      <4>1. /\ w \in Seq(Nat) /\ Sound(f, w) /\ f.state = "finished"
            /\ Reading(s, f) /\ Delivered(s, f, w)
        BY <2>1, <3>2, SsTableAssumption, ReaderFacts DEF Active, Reads, ScanOK
      <4> QED BY <2>1, <3>2, <4>1, DeliveredPrefix DEF Reads
    <3>3. CASE s.pc = "done"
      BY <2>1, <3>3 DEF ScanOK
    <3>4. s.pc # "failed"
      BY <2>1 DEF ScanOK
    <3> QED BY <2>1, <3>1, <3>2, <3>3, <3>4 DEF ScanType, Active, Reads
  <2>4. s.rows \in Seq(Nat)
    BY <2>1 DEF ScanType
  <2>5. /\ DOMAIN s.rows = 1 .. Len(s.rows)
        /\ \A k : k \in ToSet(s.rows) <=> IsRow(s, k)
        /\ \A k \in ToSet(s.rows) : k \in Nat
    BY <2>4 DEF ToSet, IsRow
  <2> QED BY <2>2, <2>3, <2>5 DEF Prefix, Complete, Ascending
<1> QED BY <1>1, Invariant, PTL

(* The blocks that the search leaves to read are blocks of the file, and   *)
(* all that hold an event of the range; this needs no valid pointer        *)
(* (index.cpp:42-63).                                                      *)
THEOREM SearchCorrect == Spec => []SearchKeeps
<1>1. Inv => SearchKeeps
  <2> SUFFICES ASSUME Inv, NEW r \in Readers
               PROVE  LET s == scan[r]
                          n == Len(Index(r))
                      IN  /\ s.pc = "search" =>
                                /\ s.lo < s.hi /\ s.hi <= n
                                /\ s.lo > 0 => Index(r)[s.lo + 1].first <= s.start
                                /\ s.hi < n => Index(r)[s.hi + 1].first > s.start
                          /\ s.pc \in {"next", "missed", "decode", "events"} =>
                                /\ s.todo \subseteq 0 .. n - 1
                                /\ \A i \in 1 .. n :
                                      ToSet(file[s.path].blocks[i]) \cap Matching(r) # {} =>
                                         i - 1 \in s.todo
    BY DEF SearchKeeps
  <2> DEFINE s == scan[r]
             f == file[s.path]
             w == run[s.path]
             n == Len(f.index)
  <2>1. s \in ScanType /\ ScanOK(s, f, w)
    BY DEF Inv, ScansInv
  <2>2. Matching(r) = Match(s, w)
    BY DEF Matching, Match
  <2>3. s.pc = "search" => Searching(s, f)
    BY <2>1 DEF ScanOK
  <2>4. ASSUME s.pc \in Reads
        PROVE  /\ s.todo \subseteq 0 .. n - 1
               /\ \A i \in 1 .. n :
                     ToSet(f.blocks[i]) \cap Match(s, w) # {} => i - 1 \in s.todo
    <3>1. w \in Seq(Nat) /\ Sound(f, w)
      BY <2>4, SsTableAssumption, ReaderFacts DEF Active, Reads
    <3>2. Reading(s, f) /\ s.lo \in Nat /\ s.start \in Nat /\ s.end \in Nat
      BY <2>1, <2>4 DEF ScanOK, ScanType
    <3>3. Len(f.blocks) \in Nat /\ n = Len(f.blocks)
      BY <3>1, BlockFacts
    <3>4. s.todo \subseteq 0 .. n - 1
      BY <3>2, <3>3 DEF Reading, BlocksFrom
    <3>5. ASSUME NEW i \in 1 .. n, NEW k \in ToSet(f.blocks[i]), k \in Match(s, w)
          PROVE  i - 1 \in s.todo
      <4>1. i \in 1 .. Len(f.blocks) /\ f.blocks[i] \in Seq(Nat)
        BY <3>1, <3>3, BlockFacts
      <4>2. PICK a \in 1 .. Len(f.blocks[i]) : f.blocks[i][a] = k
        BY <4>1 DEF ToSet
      <4>3. s.start <= f.blocks[i][a] /\ f.blocks[i][a] <= s.end
        BY <3>5, <4>2 DEF Match
      <4>4. /\ s.lo < Len(f.index) /\ (s.lo > 0 => f.index[s.lo + 1].first <= s.start)
            /\ s.todo = BlocksFrom(s.lo, f.index, s.end)
        BY <3>2 DEF Reading
      <4> HIDE DEF s, f, w, n
      <4>5. i - 1 \in BlocksFrom(s.lo, f.index, s.end)
        BY <3>1, <3>2, <4>1, <4>3, <4>4, OutsideBlocks
      <4> QED BY <4>4, <4>5
    <3> QED BY <3>4, <3>5
  <2> QED BY <2>2, <2>3, <2>4 DEF Searching, Reads, Index
<1> QED BY <1>1, Invariant, PTL

-----------------------------------------------------------------------------
(* The list of the cache and its bytes.                                    *)

(* A nonempty set of natural numbers has a minimum ...                     *)
LEMMA HasMinimum ==
    ASSUME NEW S, S \subseteq Nat, S # {}
    PROVE  \E n \in S : \A m \in S : n <= m
<1> DEFINE R == OpToRel(<, Nat)
<1>1. IsWellFoundedOn(R, Nat)
  BY NatLessThanWellFounded
<1>2. \A x, y \in Nat : y < x => <<y, x>> \in R
  BY DEF OpToRel
<1> HIDE DEF R
<1>3. PICK x \in S : \A y \in S : ~(<<y, x>> \in R)
  BY <1>1, WFMin
<1>4. ASSUME NEW m \in S PROVE x <= m
  <2>1. ~(m < x) /\ m \in Nat /\ x \in Nat
    BY <1>2, <1>3
  <2> QED BY <2>1
<1> QED BY <1>4

(* ... and one with a bound a maximum.                                     *)
LEMMA HasMaximum ==
    ASSUME NEW b \in Nat, NEW S, S \subseteq 0 .. b, S # {}
    PROVE  \E n \in S : \A m \in S : m <= n
<1> DEFINE T == {b - s : s \in S}
<1>1. T \subseteq Nat /\ T # {}
  <2>1. \A s \in S : b - s \in Nat
    OBVIOUS
  <2>2. \E s \in S : b - s \in T
    OBVIOUS
  <2> QED BY <2>1, <2>2
<1> HIDE DEF T
<1>2. PICK x \in T : \A y \in T : x <= y
  BY <1>1, HasMinimum
<1>3. PICK n \in S : x = b - n
  BY <1>2 DEF T
<1>4. ASSUME NEW m \in S PROVE m <= n
  <2>1. b - m \in T /\ m \in Nat /\ n \in Nat
    BY DEF T
  <2> QED BY <1>2, <1>3, <2>1
<1> QED BY <1>4

(* g counts the bytes of the first entries of a list.                      *)
Counts(mem, list, g) ==
    /\ g \in [0 .. Len(list) -> Int]
    /\ g[0] = 0
    /\ \A n \in 1 .. Len(list) : g[n] = g[n - 1] + mem[list[n]].size

(* There is one such function, and BytesOf gives it ...                    *)
LEMMA BytesCounted ==
    ASSUME NEW X, NEW list \in Seq(X), NEW mem, NEW g, Counts(mem, list, g)
    PROVE  BytesOf(mem, list) = g
<1> DEFINE L == Len(list)
           f == BytesOf(mem, list)
           rec(h) == [n \in 0 .. L |-> IF n = 0 THEN 0 ELSE h[n - 1] + mem[list[n]].size]
           wrong == {n \in 0 .. L : f[n] # g[n]}
<1>1. L \in Nat
  OBVIOUS
<1>2. f = CHOOSE h : h = rec(h)
  BY DEF BytesOf
<1>3. g = rec(g)
  <2>1. \A n \in 0 .. L : g[n] = IF n = 0 THEN 0 ELSE g[n - 1] + mem[list[n]].size
    BY <1>1 DEF Counts
  <2>2. g = [n \in 0 .. L |-> g[n]]
    BY DEF Counts
  <2> QED BY <2>1, <2>2
<1> HIDE DEF f
<1>4. f = rec(f)
  <2> HIDE DEF rec
  <2> QED BY <1>2, <1>3
<1>5. \A n \in 0 .. L : f[n] = IF n = 0 THEN 0 ELSE f[n - 1] + mem[list[n]].size
  BY <1>4
<1>6. wrong = {}
  <2> SUFFICES ASSUME wrong # {} PROVE FALSE
    OBVIOUS
  <2>1. wrong \subseteq Nat
    OBVIOUS
  <2>2. PICK n \in wrong : \A m \in wrong : n <= m
    BY <2>1, HasMinimum
  <2>3. n \in 1 .. L
    BY <1>1, <1>5, <2>2 DEF Counts
  <2>4. n - 1 \in 0 .. L /\ n - 1 \notin wrong
    BY <1>1, <2>2, <2>3
  <2>5. f[n] = f[n - 1] + mem[list[n]].size /\ g[n] = g[n - 1] + mem[list[n]].size
    BY <1>5, <2>3 DEF Counts
  <2> QED BY <2>2, <2>4, <2>5
<1>7. f = [n \in 0 .. L |-> f[n]] /\ g = [n \in 0 .. L |-> g[n]]
  BY <1>4 DEF Counts
<1> QED BY <1>6, <1>7 DEF f

(* ... and BytesWith, which counts from the end.                           *)
LEMMA BytesCountedBack ==
    ASSUME NEW X, NEW list \in Seq(X), NEW mem, NEW g, Counts(mem, list, g),
           \A n \in 1 .. Len(list) : mem[list[n]].size \in Int
    PROVE  BytesWith(mem, list, g[Len(list)]) = g
<1> DEFINE L == Len(list)
           f == BytesWith(mem, list, g[L])
           rec(h) == [n \in 0 .. L |-> IF n = L THEN g[L] ELSE h[n + 1] - mem[list[n + 1]].size]
           wrong == {n \in 0 .. L : f[n] # g[n]}
<1>1. L \in Nat
  OBVIOUS
<1>2. f = CHOOSE h : h = rec(h)
  BY DEF BytesWith
<1>3. g = rec(g)
  <2>1. ASSUME NEW n \in 0 .. L, n # L
        PROVE  g[n] = g[n + 1] - mem[list[n + 1]].size
    <3>1. n + 1 \in 1 .. L /\ n + 1 - 1 = n
      BY <1>1, <2>1
    <3>2. g[n + 1] = g[n + 1 - 1] + mem[list[n + 1]].size /\ g[n] \in Int
      BY <3>1 DEF Counts
    <3> QED BY <3>1, <3>2
  <2>2. g = [n \in 0 .. L |-> g[n]]
    BY DEF Counts
  <2> QED BY <2>1, <2>2
<1> HIDE DEF f
<1>4. f = rec(f)
  <2> HIDE DEF rec
  <2> QED BY <1>2, <1>3
<1>5. \A n \in 0 .. L : f[n] = IF n = L THEN g[L] ELSE f[n + 1] - mem[list[n + 1]].size
  BY <1>4
<1>6. wrong = {}
  <2> SUFFICES ASSUME wrong # {} PROVE FALSE
    OBVIOUS
  <2>1. wrong \subseteq 0 .. L
    OBVIOUS
  <2>2. PICK n \in wrong : \A m \in wrong : m <= n
    BY <1>1, <2>1, HasMaximum
  <2>3. n # L /\ n \in 0 .. L
    BY <1>5, <2>2
  <2>4. n + 1 \in 0 .. L /\ n + 1 \notin wrong
    BY <1>1, <2>2, <2>3
  <2>5. f[n] = f[n + 1] - mem[list[n + 1]].size
    BY <1>5, <2>3
  <2>6. g[n] = g[n + 1] - mem[list[n + 1]].size
    <3>1. rec(g)[n] = g[n + 1] - mem[list[n + 1]].size
      BY <2>3
    <3> QED BY <1>3, <3>1
  <2> QED BY <2>2, <2>4, <2>5, <2>6
<1>7. f = [n \in 0 .. L |-> f[n]] /\ g = [n \in 0 .. L |-> g[n]]
  BY <1>4 DEF Counts
<1> QED BY <1>6, <1>7 DEF f

(* Entries have no negative size, so a longer part has not fewer bytes.    *)
LEMMA CountsGrow ==
    ASSUME NEW X, NEW list \in Seq(X), NEW mem, NEW g, Counts(mem, list, g),
           \A n \in 1 .. Len(list) : mem[list[n]].size \in Nat,
           NEW i \in 0 .. Len(list)
    PROVE  \A n \in i .. Len(list) : g[i] <= g[n]
<1> DEFINE L == Len(list)
           wrong == {n \in i .. L : ~(g[i] <= g[n])}
<1>1. L \in Nat
  OBVIOUS
<1>2. wrong = {}
  <2> SUFFICES ASSUME wrong # {} PROVE FALSE
    OBVIOUS
  <2>1. wrong \subseteq Nat
    OBVIOUS
  <2>2. PICK n \in wrong : \A m \in wrong : n <= m
    BY <2>1, HasMinimum
  <2>3. n \in 1 .. L /\ n # i /\ i \in Nat
    BY <1>1, <2>2 DEF Counts
  <2>4. n - 1 \in i .. L /\ n - 1 \notin wrong
    BY <1>1, <2>2, <2>3
  <2>5. g[n] = g[n - 1] + mem[list[n]].size /\ mem[list[n]].size \in Nat
    BY <2>3 DEF Counts
  <2>6. n \in 0 .. L /\ n - 1 \in 0 .. L
    BY <1>1, <2>3, <2>4
  <2>7. g[n] \in Int /\ g[n - 1] \in Int /\ g[i] \in Int
    BY <2>6 DEF Counts
  <2>8. g[i] <= g[n - 1]
    BY <2>4
  <2> QED BY <2>2, <2>5, <2>7, <2>8
<1> QED BY <1>2

(* The list, the index and the memory of the entries agree (CacheSound).   *)
Agree(mem, list, idx) ==
    /\ list \in Seq(Addresses)
    /\ \A i, j \in 1 .. Len(list) : list[i] = list[j] => i = j
    /\ mem = [x \in DOMAIN mem |-> mem[x]] /\ idx = [k \in DOMAIN idx |-> idx[k]]
    /\ DOMAIN mem = {list[i] : i \in 1 .. Len(list)}
    /\ \A k \in DOMAIN idx : idx[k] \in DOMAIN mem /\ mem[idx[k]].key = k
    /\ \A x \in DOMAIN mem : /\ mem[x].key \in DOMAIN idx /\ idx[mem[x].key] = x
                             /\ mem[x].size \in Nat

Weighs(mem, list, bytes) == \E g : Counts(mem, list, g) /\ bytes = g[Len(list)]

(* An entry leaves all three ...                                           *)
LEMMA EraseEntry ==
    ASSUME NEW mem, NEW list, NEW idx, Agree(mem, list, idx),
           NEW bytes, Weighs(mem, list, bytes), NEW key \in DOMAIN idx, NEW e, e = idx[key],
           NEW left, left = bytes - mem[e].size
    PROVE  /\ Agree(Without(mem, {e}), Erase(list, e), Without(idx, {key}))
           /\ e \notin ToSet(Erase(list, e))
           /\ Weighs(Without(mem, {e}), Erase(list, e), left)
<1>0. PICK g : Counts(mem, list, g) /\ bytes = g[Len(list)]
  BY DEF Weighs
<1> DEFINE i == CHOOSE j \in DOMAIN list : list[j] = e
           rest == Erase(list, e)
           L == Len(list)
<1>1. /\ list \in Seq(Addresses) /\ L \in Nat /\ DOMAIN list = 1 .. L
      /\ \A m, n \in 1 .. L : list[m] = list[n] => m = n
      /\ DOMAIN mem = {list[n] : n \in 1 .. L} /\ e \in DOMAIN mem /\ mem[e].key = key
  BY DEF Agree
<1>2. i \in 1 .. L /\ list[i] = e
  <2>1. \E j \in DOMAIN list : list[j] = e
    BY <1>1
  <2> QED BY <1>1, <2>1
<1>3. rest = SubSeq(list, 1, i - 1) \o SubSeq(list, i + 1, L)
  BY DEF Erase, RemoveAt
<1> HIDE DEF i, rest
<1>4. /\ rest \in Seq(Addresses) /\ Len(rest) = L - 1 /\ DOMAIN rest = 1 .. L - 1
      /\ \A n \in 1 .. L - 1 : rest[n] = IF n < i THEN list[n] ELSE list[n + 1]
  <2> DEFINE s == SubSeq(list, 1, i - 1)
             t == SubSeq(list, i + 1, L)
  <2>1. /\ s \in Seq(Addresses) /\ Len(s) = i - 1
        /\ \A n \in 1 .. i - 1 : s[n] = list[n]
    BY <1>1, <1>2
  <2>2. /\ t \in Seq(Addresses) /\ Len(t) = L - i
        /\ \A n \in 1 .. L - i : t[n] = list[n + i]
    <3>1. \A n \in i + 1 .. L : list[n] \in Addresses
      BY <1>1, <1>2
    <3>2. i + 1 \in Int /\ L \in Int
      BY <1>1, <1>2
    <3>3. /\ t \in Seq(Addresses) /\ Len(t) = IF i + 1 <= L THEN L - (i + 1) + 1 ELSE 0
          /\ \A n \in 1 .. L - (i + 1) + 1 : t[n] = list[i + 1 + n - 1]
      BY <3>1, <3>2, SubSeqProperties
    <3>4. Len(t) = L - i
      <4>1. L \in Nat /\ i \in 1 .. L
        BY <1>1, <1>2
      <4> HIDE DEF t
      <4> QED BY ONLY <3>3, <4>1
    <3>5. ASSUME NEW n \in 1 .. L - i PROVE t[n] = list[n + i]
      <4>1. n \in 1 .. L - (i + 1) + 1 /\ i + 1 + n - 1 = n + i
        BY <1>1, <1>2
      <4>2. t[n] = list[i + 1 + n - 1]
        BY <3>3, <4>1
      <4> QED BY <4>1, <4>2
    <3> QED BY <3>3, <3>4, <3>5
  <2> HIDE DEF s, t
  <2>3. rest = s \o t
    BY <1>3 DEF s, t
  <2>4. rest \in Seq(Addresses) /\ Len(rest) = L - 1
    <3>1. rest \in Seq(Addresses) /\ Len(rest) = Len(s) + Len(t)
      BY <2>1, <2>2, <2>3, ConcatProperties
    <3> QED BY <1>1, <1>2, <2>1, <2>2, <3>1
  <2>5. ASSUME NEW n \in 1 .. L - 1
        PROVE  rest[n] = IF n < i THEN list[n] ELSE list[n + 1]
    <3>1. CASE n < i
      BY <1>1, <1>2, <2>1, <2>2, <2>3, <3>1
    <3>2. CASE ~(n < i)
      <4>1. rest[n] = t[n - (i - 1)]
        BY <1>1, <1>2, <2>1, <2>2, <2>3, <3>2
      <4>2. n - (i - 1) \in 1 .. L - i /\ n - (i - 1) + i = n + 1
        BY <1>1, <1>2, <3>2
      <4>3. t[n - (i - 1)] = list[n - (i - 1) + i]
        BY <2>2, <4>2
      <4> QED BY <3>2, <4>1, <4>2, <4>3
    <3> QED BY <3>1, <3>2
  <2> QED BY <1>1, <2>4, <2>5
<1> DEFINE other == Without(mem, {e})
           idx2 == Without(idx, {key})
<1>5. /\ DOMAIN other = DOMAIN mem \ {e} /\ other = [x \in DOMAIN other |-> other[x]]
      /\ \A x \in DOMAIN other : other[x] = mem[x]
      /\ DOMAIN idx2 = DOMAIN idx \ {key} /\ idx2 = [k \in DOMAIN idx2 |-> idx2[k]]
      /\ \A k \in DOMAIN idx2 : idx2[k] = idx[k]
  BY DEF Without
<1> HIDE DEF other, idx2
<1>6. \A n \in 1 .. L : n # i => /\ n < i => n \in 1 .. L - 1 /\ rest[n] = list[n]
                                 /\ ~(n < i) => n - 1 \in 1 .. L - 1 /\ rest[n - 1] = list[n]
  <2>1. ASSUME NEW n \in 1 .. L, n # i, ~(n < i)
        PROVE  n - 1 \in 1 .. L - 1 /\ rest[n - 1] = list[n]
    <3>1. n - 1 \in 1 .. L - 1 /\ ~(n - 1 < i) /\ n - 1 + 1 = n
      BY <1>1, <1>2, <2>1
    <3> QED BY <1>4, <3>1
  <2> QED BY <1>1, <1>2, <1>4, <2>1
<1>7. {rest[n] : n \in 1 .. L - 1} = DOMAIN mem \ {e}
  <2>1. ASSUME NEW n \in 1 .. L - 1 PROVE rest[n] \in DOMAIN mem \ {e}
    <3>1. CASE n < i
      BY <1>1, <1>2, <1>4, <3>1
    <3>2. CASE ~(n < i)
      <4>1. n + 1 \in 1 .. L /\ n + 1 # i /\ rest[n] = list[n + 1]
        BY <1>1, <1>2, <1>4, <3>2
      <4> QED BY <1>1, <1>2, <4>1
    <3> QED BY <3>1, <3>2
  <2>2. ASSUME NEW x \in DOMAIN mem \ {e} PROVE \E n \in 1 .. L - 1 : rest[n] = x
    <3>1. PICK n \in 1 .. L : list[n] = x
      BY <1>1
    <3>2. n # i
      BY <1>2, <3>1
    <3> QED BY <1>6, <3>1, <3>2
  <2> QED BY <2>1, <2>2
<1>8. Agree(other, rest, idx2)
  <2>1. ASSUME NEW m \in 1 .. L - 1, NEW n \in 1 .. L - 1, rest[m] = rest[n]
        PROVE  m = n
    <3> DEFINE at(j) == IF j < i THEN j ELSE j + 1
    <3>1. at(m) \in 1 .. L /\ at(n) \in 1 .. L
      BY <1>1, <1>2
    <3>2. list[at(m)] = list[at(n)]
      BY <1>4, <2>1
    <3>3. at(m) = at(n)
      <4> HIDE DEF at
      <4> QED BY <1>1, <3>1, <3>2
    <3> QED BY <1>1, <1>2, <3>3
  <2>2. ASSUME NEW k \in DOMAIN idx2 PROVE idx2[k] \in DOMAIN other /\ other[idx2[k]].key = k
    <3>1. k \in DOMAIN idx /\ k # key /\ idx2[k] = idx[k]
      BY <1>5
    <3>2. idx[k] \in DOMAIN mem /\ mem[idx[k]].key = k
      BY <3>1 DEF Agree
    <3>3. idx[k] # e
      BY <1>1, <3>1, <3>2
    <3> QED BY <1>5, <3>1, <3>2, <3>3
  <2>3. ASSUME NEW x \in DOMAIN other
        PROVE  other[x].key \in DOMAIN idx2 /\ idx2[other[x].key] = x /\ other[x].size \in Nat
    <3>1. x \in DOMAIN mem /\ x # e /\ other[x] = mem[x]
      BY <1>5
    <3>2. mem[x].key \in DOMAIN idx /\ idx[mem[x].key] = x /\ mem[x].size \in Nat
      BY <3>1 DEF Agree
    <3>3. mem[x].key # key
      BY <3>1, <3>2
    <3>4. mem[x].key \in DOMAIN idx2 /\ idx2[mem[x].key] = idx[mem[x].key]
      BY <1>5, <3>2, <3>3
    <3> QED BY <3>1, <3>2, <3>4
  <2> QED BY <1>4, <1>5, <1>7, <2>1, <2>2, <2>3 DEF Agree
<1>9. e \notin ToSet(rest)
  BY <1>4, <1>7 DEF ToSet
<1> DEFINE size == mem[e].size
           h == [n \in 0 .. L - 1 |-> IF n < i THEN g[n] ELSE g[n + 1] - size]
<1>10. Counts(other, rest, h) /\ h[L - 1] = g[L] - size
  <2>1. size \in Nat /\ g \in [0 .. L -> Int] /\ g[0] = 0
        /\ \A n \in 1 .. L : g[n] = g[n - 1] + mem[list[n]].size
    BY <1>0, <1>1 DEF Agree, Counts
  <2>2. g[i] = g[i - 1] + size
    BY <1>2, <2>1
  <2> HIDE DEF size
  <2>3. h \in [0 .. L - 1 -> Int] /\ h[0] = 0
    <3>1. L \in Nat /\ i \in 1 .. L
      BY <1>1, <1>2
    <3>2. 0 \in 0 .. L - 1 /\ 0 < i
      BY ONLY <3>1
    <3>3. \A n \in 0 .. L - 1 : n \in 0 .. L /\ n + 1 \in 0 .. L
      BY ONLY <3>1
    <3>4. ASSUME NEW n \in 0 .. L - 1
          PROVE  (IF n < i THEN g[n] ELSE g[n + 1] - size) \in Int
      <4>1. g[n] \in Int /\ g[n + 1] \in Int
        BY <2>1, <3>3
      <4> QED BY <2>1, <4>1
    <3> QED BY <2>1, <3>2, <3>4
  <2>4. ASSUME NEW n \in 1 .. L - 1 PROVE h[n] = h[n - 1] + other[rest[n]].size
    <3>0. rest[n] \in DOMAIN other /\ other[rest[n]] = mem[rest[n]]
      BY <1>5, <1>7
    <3>1. CASE n < i
      <4>1. h[n] = g[n] /\ h[n - 1] = g[n - 1] /\ rest[n] = list[n] /\ n \in 1 .. L
        BY <1>1, <1>2, <1>4, <3>1
      <4>2. g[n] = g[n - 1] + mem[list[n]].size
        BY <2>1, <4>1
      <4> QED BY <3>0, <4>1, <4>2
    <3>2. CASE ~(n < i)
      <4>1. h[n] = g[n + 1] - size /\ rest[n] = list[n + 1] /\ n + 1 \in 1 .. L
        BY <1>1, <1>2, <1>4, <3>2
      <4>2. g[n + 1] = g[n] + mem[list[n + 1]].size
        BY <1>1, <2>1, <4>1
      <4>3. h[n - 1] = g[n] - size
        <5>1. CASE n = i
          <6>1. h[n - 1] = g[i - 1] /\ i - 1 \in 0 .. L /\ i \in 0 .. L
            BY <1>1, <1>2, <5>1
          <6>2. g[i - 1] \in Int /\ g[i] \in Int
            BY <2>1, <6>1
          <6> QED BY <2>1, <2>2, <5>1, <6>1, <6>2
        <5>2. CASE n # i
          BY <1>1, <1>2, <3>2, <5>2
        <5> QED BY <5>1, <5>2
      <4>4. g[n] \in Int /\ g[n + 1] \in Int
        <5>1. n \in 0 .. L /\ n + 1 \in 0 .. L
          BY <1>1
        <5> QED BY <2>1, <5>1
      <4>5. mem[list[n + 1]].size \in Nat
        BY <1>1, <4>1 DEF Agree
      <4> QED BY <2>1, <3>0, <4>1, <4>2, <4>3, <4>4, <4>5
    <3> QED BY <3>1, <3>2
  <2>5. h[L - 1] = g[L] - size
    <3>1. CASE L - 1 < i
      <4>0. L = i /\ L - 1 \in 0 .. L - 1
        <5>1. L \in Nat /\ i \in 1 .. L
          BY <1>1, <1>2
        <5> QED BY ONLY <3>1, <5>1
      <4>1. L = i /\ h[L - 1] = g[L - 1]
        BY <3>1, <4>0
      <4>2. i - 1 \in 0 .. L
        BY <1>1, <1>2
      <4>3. g[i - 1] \in Int
        BY <2>1, <4>2
      <4> QED BY <2>1, <2>2, <4>1, <4>3
    <3>2. CASE ~(L - 1 < i)
      BY <1>1, <1>2, <3>2
    <3> QED BY <3>1, <3>2
  <2> HIDE DEF h
  <2> QED BY <1>4, <2>3, <2>4, <2>5 DEF Counts
<1> HIDE DEF h
<1>11. Weighs(other, rest, left)
  BY <1>0, <1>4, <1>10 DEF Weighs
<1> QED BY <1>8, <1>9, <1>11 DEF rest, other, idx2

(* ... a new one enters them ...                                           *)
LEMMA PushEntry ==
    ASSUME NEW mem, NEW list, NEW idx, Agree(mem, list, idx),
           NEW bytes, Weighs(mem, list, bytes),
           NEW a \in Addresses, a \notin ToSet(list), NEW key, key \notin DOMAIN idx,
           NEW entry, entry.key = key, entry.size \in Nat,
           NEW more, more = bytes + entry.size
    PROVE  /\ Agree(With(mem, a, entry), <<a>> \o list, With(idx, key, a))
           /\ Weighs(With(mem, a, entry), <<a>> \o list, more)
<1>0. PICK g : Counts(mem, list, g) /\ bytes = g[Len(list)]
  BY DEF Weighs
<1> DEFINE L == Len(list)
           all == <<a>> \o list
           mem2 == With(mem, a, entry)
           idx2 == With(idx, key, a)
           size == entry.size
<1>1. /\ list \in Seq(Addresses) /\ L \in Nat /\ DOMAIN list = 1 .. L
      /\ \A m, n \in 1 .. L : list[m] = list[n] => m = n
      /\ DOMAIN mem = {list[n] : n \in 1 .. L}
  BY DEF Agree
<1>2. a \notin DOMAIN mem
  BY <1>1 DEF ToSet
<1>3. /\ all \in Seq(Addresses) /\ Len(all) = L + 1 /\ all[1] = a
      /\ \A n \in 1 .. L : all[n + 1] = list[n]
      /\ \A n \in 2 .. L + 1 : all[n] = list[n - 1]
  <2>1. <<a>> \in Seq(Addresses) /\ Len(<<a>>) = 1 /\ <<a>>[1] = a
    OBVIOUS
  <2>2. /\ all \in Seq(Addresses) /\ Len(all) = 1 + L
        /\ \A n \in 1 .. 1 + L : all[n] = IF n <= 1 THEN <<a>>[n] ELSE list[n - 1]
    BY <1>1, <2>1, ConcatProperties
  <2> HIDE DEF all
  <2>3. ASSUME NEW n \in 1 .. L PROVE all[n + 1] = list[n]
    <3>1. n + 1 \in 1 .. 1 + L /\ ~(n + 1 <= 1) /\ n + 1 - 1 = n
      BY <1>1
    <3> QED BY <2>2, <3>1
  <2>4. ASSUME NEW n \in 2 .. L + 1 PROVE all[n] = list[n - 1]
    <3>1. n \in 1 .. 1 + L /\ ~(n <= 1)
      BY <1>1
    <3> QED BY <2>2, <3>1
  <2>5. all[1] = a
    <3>1. 1 \in 1 .. 1 + L /\ 1 <= 1
      BY <1>1
    <3> QED BY <2>1, <2>2, <3>1
  <2> QED BY <1>1, <2>2, <2>3, <2>4, <2>5
<1>4. /\ DOMAIN mem2 = DOMAIN mem \cup {a} /\ mem2 = [x \in DOMAIN mem2 |-> mem2[x]]
      /\ mem2[a] = entry /\ \A x \in DOMAIN mem : mem2[x] = mem[x]
      /\ DOMAIN idx2 = DOMAIN idx \cup {key} /\ idx2 = [k \in DOMAIN idx2 |-> idx2[k]]
      /\ idx2[key] = a /\ \A k \in DOMAIN idx : idx2[k] = idx[k]
  BY <1>2 DEF With
<1> HIDE DEF all, mem2, idx2, size
<1>5. \A n \in 1 .. L + 1 : n = 1 \/ (n \in 2 .. L + 1 /\ n - 1 \in 1 .. L)
  BY <1>1
<1>6. Agree(mem2, all, idx2)
  <2>1. ASSUME NEW m \in 1 .. L + 1, NEW n \in 1 .. L + 1, all[m] = all[n]
        PROVE  m = n
    <3>1. \A j \in 2 .. L + 1 : j - 1 \in 1 .. L /\ all[j] \in DOMAIN mem /\ all[j] # a
      BY <1>1, <1>2, <1>3
    <3>2. CASE m = 1 \/ n = 1
      BY <1>3, <1>5, <2>1, <3>1, <3>2
    <3>3. CASE m # 1 /\ n # 1
      <4>1. m - 1 \in 1 .. L /\ n - 1 \in 1 .. L /\ list[m - 1] = list[n - 1]
        BY <1>3, <1>5, <2>1, <3>3
      <4>2. m - 1 = n - 1
        BY <1>1, <4>1
      <4> QED BY <4>2
    <3> QED BY <3>2, <3>3
  <2>2. DOMAIN mem2 = {all[n] : n \in 1 .. L + 1}
    <3>1. ASSUME NEW n \in 1 .. L + 1 PROVE all[n] \in DOMAIN mem2
      BY <1>1, <1>3, <1>4, <1>5
    <3>2. ASSUME NEW x \in DOMAIN mem2 PROVE \E n \in 1 .. L + 1 : all[n] = x
      <4>1. CASE x = a
        <5>1. 1 \in 1 .. L + 1
          BY <1>1
        <5> QED BY <1>3, <4>1, <5>1
      <4>2. CASE x \in DOMAIN mem
        <5>1. PICK n \in 1 .. L : list[n] = x
          BY <1>1, <4>2
        <5>2. n + 1 \in 1 .. L + 1
          BY <1>1
        <5> QED BY <1>3, <5>1, <5>2
      <4> QED BY <1>4, <4>1, <4>2
    <3> QED BY <3>1, <3>2
  <2>3. ASSUME NEW k \in DOMAIN idx2 PROVE idx2[k] \in DOMAIN mem2 /\ mem2[idx2[k]].key = k
    <3>1. CASE k = key
      BY <1>4, <3>1
    <3>2. CASE k \in DOMAIN idx
      <4>1. idx[k] \in DOMAIN mem /\ mem[idx[k]].key = k
        BY <3>2 DEF Agree
      <4> QED BY <1>4, <3>2, <4>1
    <3> QED BY <1>4, <3>1, <3>2
  <2>4. ASSUME NEW x \in DOMAIN mem2
        PROVE  mem2[x].key \in DOMAIN idx2 /\ idx2[mem2[x].key] = x /\ mem2[x].size \in Nat
    <3>1. CASE x = a
      BY <1>4, <3>1
    <3>2. CASE x \in DOMAIN mem
      <4>1. mem[x].key \in DOMAIN idx /\ idx[mem[x].key] = x /\ mem[x].size \in Nat
        BY <3>2 DEF Agree
      <4> QED BY <1>4, <3>2, <4>1
    <3> QED BY <1>4, <3>1, <3>2
  <2> QED BY <1>3, <1>4, <2>1, <2>2, <2>3, <2>4 DEF Agree
<1> DEFINE h == [n \in 0 .. L + 1 |-> IF n = 0 THEN 0 ELSE g[n - 1] + size]
<1>7. Counts(mem2, all, h) /\ h[L + 1] = g[L] + size
  <2>1. size \in Nat /\ g \in [0 .. L -> Int] /\ g[0] = 0
        /\ \A n \in 1 .. L : g[n] = g[n - 1] + mem[list[n]].size
    BY <1>0 DEF Counts, size
  <2>2. h \in [0 .. L + 1 -> Int] /\ h[0] = 0
    BY <1>1, <2>1
  <2>3. h[1] = size /\ h[L + 1] = g[L] + size
    BY <1>1, <2>1
  <2>4. ASSUME NEW n \in 1 .. L + 1 PROVE h[n] = h[n - 1] + mem2[all[n]].size
    <3>1. CASE n = 1
      <4>1. mem2[all[n]].size = size
        BY <1>3, <1>4, <3>1 DEF size
      <4> QED BY <2>1, <2>2, <2>3, <3>1, <4>1
    <3>2. CASE n # 1
      <4>1. n - 1 \in 1 .. L /\ all[n] = list[n - 1]
        BY <1>3, <1>5, <3>2
      <4>2. mem2[all[n]] = mem[list[n - 1]]
        BY <1>1, <1>4, <4>1
      <4>3. g[n - 1] = g[n - 1 - 1] + mem[list[n - 1]].size
        BY <2>1, <4>1
      <4>4. h[n] = g[n - 1] + size /\ h[n - 1] = g[n - 1 - 1] + size
        BY <1>1, <3>2
      <4>5. g[n - 1] \in Int /\ g[n - 1 - 1] \in Int /\ mem[list[n - 1]].size \in Nat
        <5>1. n - 1 \in 0 .. L /\ n - 1 - 1 \in 0 .. L
          BY <1>1, <4>1
        <5>2. mem[list[n - 1]].size \in Nat
          BY <1>1, <4>1 DEF Agree
        <5> QED BY <2>1, <5>1, <5>2
      <4>6. mem2[all[n]].size = mem[list[n - 1]].size /\ size \in Nat
        BY <2>1, <4>2
      <4> HIDE DEF h
      <4> QED BY ONLY <4>3, <4>4, <4>5, <4>6
    <3> QED BY <3>1, <3>2
  <2> HIDE DEF h
  <2> QED BY <1>3, <2>2, <2>3, <2>4 DEF Counts
<1> HIDE DEF h
<1>8. Weighs(mem2, all, more)
  BY <1>0, <1>3, <1>7 DEF Weighs, size
<1> QED BY <1>6, <1>8 DEF all, mem2, idx2

(* ... and the last ones leave them.                                       *)
LEMMA KeepEntries ==
    ASSUME NEW mem, NEW list, NEW idx, Agree(mem, list, idx),
           NEW g, Counts(mem, list, g), NEW n \in 0 .. Len(list),
           NEW gone, gone = {list[i] : i \in n + 1 .. Len(list)}
    PROVE  /\ Agree(Without(mem, gone), SubSeq(list, 1, n),
                    Without(idx, {mem[b].key : b \in gone}))
           /\ Counts(Without(mem, gone), SubSeq(list, 1, n), [i \in 0 .. n |-> g[i]])
           /\ Len(SubSeq(list, 1, n)) = n
<1> DEFINE L == Len(list)
           kept == SubSeq(list, 1, n)
           mem2 == Without(mem, gone)
           keys == {mem[b].key : b \in gone}
           idx2 == Without(idx, keys)
           h == [i \in 0 .. n |-> g[i]]
<1>1. /\ list \in Seq(Addresses) /\ L \in Nat /\ n \in Nat /\ n <= L
      /\ \A i, j \in 1 .. L : list[i] = list[j] => i = j
      /\ DOMAIN mem = {list[i] : i \in 1 .. L}
  BY DEF Agree
<1>2. kept \in Seq(Addresses) /\ Len(kept) = n /\ \A i \in 1 .. n : kept[i] = list[i]
  BY <1>1
<1>3. \A i \in 1 .. L : (i \in 1 .. n \/ i \in n + 1 .. L) /\ ~(i \in 1 .. n /\ i \in n + 1 .. L)
  BY <1>1
<1>4. (\A i \in 1 .. n : i \in 1 .. L) /\ (\A i \in n + 1 .. L : i \in 1 .. L)
  BY <1>1
<1> HIDE DEF kept
<1>5. DOMAIN mem \ gone = {kept[i] : i \in 1 .. n}
  <2>1. ASSUME NEW x \in DOMAIN mem \ gone PROVE \E i \in 1 .. n : kept[i] = x
    <3>1. PICK i \in 1 .. L : list[i] = x
      BY <1>1
    <3>2. i \in 1 .. n
      BY <1>3, <3>1
    <3> QED BY <1>2, <3>1, <3>2
  <2>2. ASSUME NEW i \in 1 .. n PROVE kept[i] \in DOMAIN mem \ gone
    <3>1. i \in 1 .. L /\ kept[i] = list[i]
      BY <1>2, <1>4
    <3>2. list[i] \notin gone
      BY <1>1, <1>3, <1>4, <3>1
    <3> QED BY <1>1, <3>1, <3>2
  <2> QED BY <2>1, <2>2
<1>6. /\ DOMAIN mem2 = DOMAIN mem \ gone /\ mem2 = [x \in DOMAIN mem2 |-> mem2[x]]
      /\ \A x \in DOMAIN mem2 : mem2[x] = mem[x]
      /\ DOMAIN idx2 = DOMAIN idx \ keys /\ idx2 = [k \in DOMAIN idx2 |-> idx2[k]]
      /\ \A k \in DOMAIN idx2 : idx2[k] = idx[k]
  <2> HIDE DEF keys
  <2> QED BY DEF Without
<1>7. gone \subseteq DOMAIN mem
  BY <1>1, <1>4
<1>8. \A k \in DOMAIN idx : /\ idx[k] \in DOMAIN mem /\ mem[idx[k]].key = k
                            /\ k \in keys <=> idx[k] \in gone
  <2>1. ASSUME NEW k \in DOMAIN idx
        PROVE  idx[k] \in DOMAIN mem /\ mem[idx[k]].key = k
    BY DEF Agree
  <2>2. ASSUME NEW k \in DOMAIN idx, k \in keys PROVE idx[k] \in gone
    <3>1. PICK b \in gone : k = mem[b].key
      BY <2>2
    <3>2. idx[mem[b].key] = b
      BY <1>7 DEF Agree
    <3> QED BY <3>1, <3>2
  <2> QED BY <2>1, <2>2
<1> HIDE DEF mem2, keys, idx2
<1>9. Agree(mem2, kept, idx2)
  <2>1. ASSUME NEW k \in DOMAIN idx2 PROVE idx2[k] \in DOMAIN mem2 /\ mem2[idx2[k]].key = k
    BY <1>6, <1>8
  <2>2. ASSUME NEW x \in DOMAIN mem2
        PROVE  mem2[x].key \in DOMAIN idx2 /\ idx2[mem2[x].key] = x /\ mem2[x].size \in Nat
    <3>1. mem[x].key \in DOMAIN idx /\ idx[mem[x].key] = x /\ mem[x].size \in Nat
      BY <1>6 DEF Agree
    <3>2. mem[x].key \notin keys
      BY <1>6, <1>8, <3>1
    <3> QED BY <1>6, <3>1, <3>2
  <2>3. \A i, j \in 1 .. n : kept[i] = kept[j] => i = j
    BY <1>1, <1>2, <1>4
  <2> QED BY <1>2, <1>5, <1>6, <2>1, <2>2, <2>3 DEF Agree
<1>10. Counts(mem2, kept, h)
  <2>1. g \in [0 .. L -> Int] /\ g[0] = 0
        /\ \A i \in 1 .. L : g[i] = g[i - 1] + mem[list[i]].size
    BY DEF Counts
  <2>2. h \in [0 .. n -> Int] /\ h[0] = 0
    BY <1>1, <2>1
  <2>3. ASSUME NEW i \in 1 .. n PROVE h[i] = h[i - 1] + mem2[kept[i]].size
    <3>1. h[i] = g[i] /\ h[i - 1] = g[i - 1] /\ i \in 1 .. L
      BY <1>1
    <3>2. kept[i] = list[i] /\ mem2[kept[i]] = mem[kept[i]]
      BY <1>2, <1>5, <1>6
    <3> QED BY <2>1, <3>1, <3>2
  <2> HIDE DEF h
  <2> QED BY <1>2, <2>2, <2>3 DEF Counts
<1> QED BY <1>2, <1>9, <1>10 DEF kept, mem2, keys, idx2

(* The invariant of the cache: the three agree, cur_bytes_ is what the     *)
(* list holds, and max_bytes_ bounds it.                                   *)
CacheAgrees ==
    /\ Agree(memory, lru, index)
    /\ Weighs(memory, lru, curBytes)
    /\ curBytes \in 0 .. MaxBytes

LEMMA AgreesSound == ASSUME CacheAgrees PROVE CacheSound
<1>1. /\ lru \in Seq(Addresses) /\ DOMAIN lru = 1 .. Len(lru)
      /\ \A i, j \in 1 .. Len(lru) : lru[i] = lru[j] => i = j
      /\ DOMAIN memory = {lru[i] : i \in 1 .. Len(lru)}
      /\ \A k \in DOMAIN index : index[k] \in DOMAIN memory /\ memory[index[k]].key = k
      /\ \A x \in DOMAIN memory : memory[x].key \in DOMAIN index /\ index[memory[x].key] = x
  BY DEF CacheAgrees, Agree
<1>2. IsInjective(lru)
  BY <1>1 DEF IsInjective
<1>3. Alive = DOMAIN memory
  BY <1>1 DEF Alive, ToSet
<1>4. DOMAIN memory = {index[k] : k \in DOMAIN index}
  <2>1. \A x \in DOMAIN memory : \E k \in DOMAIN index : index[k] = x
    BY <1>1
  <2>2. \A k \in DOMAIN index : index[k] \in DOMAIN memory
    BY <1>1
  <2> QED BY <2>1, <2>2
<1>5. curBytes = BytesOf(memory, lru)[Len(lru)]
  <2>1. PICK g : Counts(memory, lru, g) /\ curBytes = g[Len(lru)]
    BY DEF CacheAgrees, Weighs
  <2>2. BytesOf(memory, lru) = g
    BY <1>1, <2>1, BytesCounted
  <2> QED BY <2>1, <2>2
<1>6. curBytes <= MaxBytes
  BY CacheAssumption DEF CacheAgrees
<1> QED BY <1>1, <1>2, <1>3, <1>4, <1>5, <1>6 DEF CacheSound

(* get() moves one entry to the front ...                                  *)
LEMMA HitAgrees ==
    ASSUME CacheAgrees, NEW key, GetHit(key)
    PROVE  CacheAgrees'
<1> DEFINE e == index[key]
           rest == Erase(lru, e)
           other == Without(memory, {e})
           idx0 == Without(index, {key})
<1>1. /\ key \in DOMAIN index /\ lru' = <<e>> \o rest
      /\ memory' = memory /\ index' = index /\ curBytes' = curBytes
  BY DEF GetHit
<1>2. Agree(memory, lru, index) /\ Weighs(memory, lru, curBytes)
  BY DEF CacheAgrees
<1>3. /\ e \in DOMAIN memory /\ memory[e].key = key /\ memory[e].size \in Nat /\ e \in Addresses
      /\ memory = [x \in DOMAIN memory |-> memory[x]]
      /\ index = [k \in DOMAIN index |-> index[k]]
  <2>1. e \in DOMAIN memory /\ DOMAIN memory = {lru[i] : i \in 1 .. Len(lru)}
        /\ lru \in Seq(Addresses)
    BY <1>1 DEF CacheAgrees, Agree
  <2>2. e \in Addresses
    BY <2>1
  <2> QED BY <1>1, <2>1, <2>2 DEF CacheAgrees, Agree
<1> DEFINE left == curBytes - memory[e].size
<1>4. /\ Agree(other, rest, idx0) /\ e \notin ToSet(rest)
      /\ Weighs(other, rest, left)
  BY <1>1, <1>2, EraseEntry
<1>5. curBytes = left + memory[e].size
  BY <1>3 DEF CacheAgrees
<1>6. key \notin DOMAIN idx0
  BY DEF Without
<1>7. With(other, e, memory[e]) = memory
  BY <1>3 DEF With, Without
<1>8. With(idx0, key, e) = index
  BY <1>1, <1>3 DEF With, Without
<1> HIDE DEF e, rest, other, idx0, left
<1>9. /\ Agree(With(other, e, memory[e]), <<e>> \o rest, With(idx0, key, e))
      /\ Weighs(With(other, e, memory[e]), <<e>> \o rest, curBytes)
  BY <1>3, <1>4, <1>5, <1>6, PushEntry
<1>10. Agree(memory', lru', index') /\ Weighs(memory', lru', curBytes')
  BY <1>1, <1>7, <1>8, <1>9
<1>11. curBytes' \in 0 .. MaxBytes
  BY <1>1 DEF CacheAgrees
<1> QED BY <1>10, <1>11 DEF CacheAgrees

(* ... and put() erases the entry that the key had, pushes a new one and   *)
(* evicts from the end, never the new one unless it is too large alone.    *)
LEMMA PutAgrees ==
    ASSUME CacheAgrees, NEW key, NEW data, NEW size \in Nat, Put(key, data, size)
    PROVE  CacheAgrees' /\ (key \in DOMAIN index' \/ size > MaxBytes)
<1> DEFINE had == key \in DOMAIN index
           rest == IF had THEN Erase(lru, index[key]) ELSE lru
           other == IF had THEN Without(memory, {index[key]}) ELSE memory
           freed == IF had THEN memory[index[key]].size ELSE 0
           bytes == curBytes - freed + size
           entry == [key |-> key, data |-> data, size |-> size]
           idx0 == Without(index, {key})
           left == curBytes - freed
<1>1. Agree(memory, lru, index) /\ Weighs(memory, lru, curBytes)
  BY DEF CacheAgrees
<1>2. Agree(other, rest, idx0) /\ Weighs(other, rest, left)
  <2>1. CASE had
    <3> DEFINE e == index[key]
               size0 == memory[e].size
    <3>1. /\ Agree(Without(memory, {e}), Erase(lru, e), idx0)
          /\ Weighs(Without(memory, {e}), Erase(lru, e), curBytes - size0)
      BY <1>1, <2>1, EraseEntry
    <3> QED BY <2>1, <3>1
  <2>2. CASE ~had
    <3>1. idx0 = index
      <4>1. index = [k \in DOMAIN index |-> index[k]]
        BY <1>1 DEF Agree
      <4>2. DOMAIN index \ {key} = DOMAIN index
        BY <2>2
      <4> QED BY <4>1, <4>2 DEF Without
    <3>2. left = curBytes
      BY <2>2 DEF CacheAgrees
    <3> QED BY <1>1, <2>2, <3>1, <3>2
  <2> QED BY <2>1, <2>2
<1>3. bytes = left + size
  OBVIOUS
<1>4. PICK a \in Addresses \ ToSet(rest) :
         LET mem  == With(other, a, entry)
             list == <<a>> \o rest
             kept == Kept(mem, list, bytes)
             gone == {list[n] : n \in kept + 1 .. Len(list)}
         IN  /\ lru' = SubSeq(list, 1, kept)
             /\ memory' = Without(mem, gone)
             /\ curBytes' = BytesWith(mem, list, bytes)[kept]
             /\ index' = Without(With(index, key, a), {mem[b].key : b \in gone})
  BY DEF Put
<1> DEFINE mem == With(other, a, entry)
           list == <<a>> \o rest
           kept == Kept(mem, list, bytes)
           gone == {list[n] : n \in kept + 1 .. Len(list)}
<1>5. /\ lru' = SubSeq(list, 1, kept) /\ memory' = Without(mem, gone)
      /\ curBytes' = BytesWith(mem, list, bytes)[kept]
      /\ index' = Without(With(index, key, a), {mem[b].key : b \in gone})
  BY <1>4
<1>6. /\ key \notin DOMAIN idx0 /\ With(idx0, key, a) = With(index, key, a)
      /\ entry.key = key /\ entry.size = size
      /\ key \in DOMAIN With(index, key, a) /\ With(index, key, a)[key] = a
  BY DEF Without, With
<1>70. a \in Addresses /\ a \notin ToSet(rest)
  OBVIOUS
<1> HIDE DEF had, rest, other, left, bytes, entry, idx0
<1>7. /\ Agree(mem, list, With(index, key, a))
      /\ Weighs(mem, list, bytes)
  BY <1>2, <1>3, <1>6, <1>70, PushEntry
<1>8. PICK f : Counts(mem, list, f) /\ bytes = f[Len(list)]
  BY <1>7 DEF Weighs
<1>9. list \in Seq(Addresses) /\ Len(list) \in Nat /\ Len(list) > 0 /\ list[1] = a
      /\ \A n \in 1 .. Len(list) : mem[list[n]].size \in Nat
  <2> HIDE DEF mem
  <2>1. list \in Seq(Addresses) /\ \A n \in 1 .. Len(list) : mem[list[n]].size \in Nat
    BY <1>7 DEF Agree
  <2>2. rest \in Seq(Addresses)
    BY <1>2 DEF Agree
  <2> QED BY <2>1, <2>2
<1>10. BytesWith(mem, list, bytes) = f
  <2> HIDE DEF mem, list
  <2> QED BY <1>8, <1>9, BytesCountedBack
<1> HIDE DEF mem, list
<1> DEFINE fit == {0} \cup {n \in 1 .. Len(list) : f[n] <= MaxBytes}
<1>11. /\ kept \in fit /\ \A n \in fit : n <= kept
  <2>1. fit \subseteq 0 .. Len(list) /\ fit # {}
    BY <1>9
  <2>2. kept = CHOOSE x \in fit : \A y \in fit : x >= y
    BY <1>10 DEF Kept, Max
  <2> HIDE DEF fit, kept
  <2>3. PICK n \in fit : \A m \in fit : m <= n
    BY <1>9, <2>1, HasMaximum
  <2>4. \A m \in fit : n >= m
    BY <1>9, <2>1, <2>3
  <2>5. kept \in fit /\ \A y \in fit : kept >= y
    BY <2>2, <2>4
  <2> QED BY <1>9, <2>1, <2>5
<1> HIDE DEF kept
<1>12. kept \in 0 .. Len(list)
  BY <1>9, <1>11
<1>13. /\ Agree(memory', lru', index') /\ Len(lru') = kept
       /\ Counts(memory', lru', [i \in 0 .. kept |-> f[i]])
  BY <1>5, <1>7, <1>8, <1>12, KeepEntries
<1>14. curBytes' = f[kept] /\ [i \in 0 .. kept |-> f[i]][Len(lru')] = f[kept]
  BY <1>5, <1>10, <1>12, <1>13
<1>15. curBytes' \in 0 .. MaxBytes
  <2>1. f \in [0 .. Len(list) -> Int] /\ f[0] = 0
    BY <1>8 DEF Counts
  <2>2. f[0] <= f[kept]
    <3>1. 0 \in 0 .. Len(list) /\ kept \in 0 .. Len(list)
      BY <1>9, <1>12
    <3> QED BY <1>8, <1>9, <3>1, CountsGrow
  <2>3. f[kept] <= MaxBytes
    BY <1>11, <2>1, CacheAssumption
  <2> QED BY <1>12, <1>14, <2>1, <2>2, <2>3, CacheAssumption
<1>16. key \in DOMAIN index' \/ size > MaxBytes
  <2> SUFFICES ASSUME size <= MaxBytes PROVE key \in DOMAIN index'
    BY CacheAssumption
  <2>1. 1 \in fit
    <3>1. 1 \in 1 .. Len(list) /\ mem[list[1]].size = size
      BY <1>6, <1>9 DEF mem, With
    <3>2. f[1] = f[1 - 1] + mem[list[1]].size /\ f[0] = 0
      BY <1>8, <3>1 DEF Counts
    <3> QED BY <3>1, <3>2
  <2>2. kept >= 1
    BY <1>9, <1>11, <1>12, <2>1
  <2>3. a \in DOMAIN memory'
    <3>1. lru'[1] = a /\ 1 \in 1 .. Len(lru')
      BY <1>5, <1>9, <1>12, <1>13, <2>2
    <3> QED BY <1>13, <3>1 DEF Agree
  <2>4. memory'[a] = mem[a]
    BY <1>5, <2>3 DEF Without
  <2>5. mem[a].key = key
    BY <1>6 DEF mem, With
  <2> QED BY <1>13, <2>3, <2>4, <2>5 DEF Agree
<1>17. Weighs(memory', lru', curBytes')
  BY <1>13, <1>14 DEF Weighs
<1> QED BY <1>13, <1>15, <1>16, <1>17 DEF CacheAgrees

LEMMA CacheStep ==
    ASSUME SsTableAssumption, Inv, CacheAgrees, [Next]_vars
    PROVE  /\ CacheAgrees'
           /\ \A r \in Readers : scan[r].pc = "missed" /\ scan'[r].pc = "events" =>
                 \/ Wanted(r) \in DOMAIN index'
                 \/ BlockBytes(Len(scan'[r].block)) > MaxBytes
<1> DEFINE Stays(r) == scan[r].pc = "missed" /\ scan'[r].pc = "events" =>
                          \/ Wanted(r) \in DOMAIN index'
                          \/ BlockBytes(Len(scan'[r].block)) > MaxBytes
<1>1. ASSUME UNCHANGED cacheVars PROVE CacheAgrees'
  BY <1>1 DEF cacheVars, CacheAgrees
<1>2. scan \in [Readers -> ScanType]
  BY DEF Inv, ScansInv
<1>3. ASSUME NEW p \in Paths, Write(p) PROVE UNCHANGED cacheVars /\ scan' = scan
  BY <1>3 DEF Write, Create, Add, Finish, WriterFails
<1>4. ASSUME NEW q \in Readers,
             \/ \E ask \in Asks[q] : Start(q, ask[1], ask[2], ask[3])
             \/ Search(q) \/ Found(q) \/ ReadMiss(q) \/ LoadFails(q) \/ Decode(q)
             \/ DecodeFails(q) \/ SkipEvent(q) \/ TakeEvent(q) \/ TakeLastEvent(q)
             \/ LeaveBlock(q) \/ Return(q)
      PROVE  UNCHANGED cacheVars /\ (scan[q].pc # "missed" \/ scan'[q].pc # "events")
  BY <1>2, <1>4 DEF Start, Search, ToSearch, Found, ReadMiss, GetMiss, LoadFails, NoScan, Decode,
     DecodeFails, SkipEvent, TakeEvent, TakeLastEvent, LeaveBlock, Return, InBlock
<1>5. ASSUME NEW q \in Readers, ReadHit(q)
      PROVE  CacheAgrees' /\ scan[q].pc # "missed"
  BY <1>5, HitAgrees DEF ReadHit
<1>6. ASSUME NEW q \in Readers, Load(q)
      PROVE  CacheAgrees' /\ Stays(q)
  <2>1. scan[q].pc \in Reads /\ scan[q] \in ScanType
    BY <1>2, <1>6 DEF Load, Reads
  <2>2. scan[q].at \in scan[q].todo
    <3>1. Reading(scan[q], file[scan[q].path])
      BY <2>1 DEF Inv, ScansInv, ScanOK
    <3> QED BY <1>6, <3>1 DEF Reading, Load
  <2>3. WantedData(q) \in Seq(Nat)
    BY <2>1, <2>2, WantedFacts
  <2> DEFINE size == BlockBytes(Len(WantedData(q)))
  <2>4. size \in Nat
    BY <2>3 DEF BlockBytes
  <2>5. Put(Wanted(q), WantedData(q), size)
    BY <1>6 DEF Load
  <2>6. scan'[q].block = WantedData(q)
    BY <1>2, <1>6, <2>1 DEF Load, ScanType
  <2> HIDE DEF size
  <2>7. CacheAgrees' /\ (Wanted(q) \in DOMAIN index' \/ size > MaxBytes)
    BY <2>4, <2>5, PutAgrees
  <2> QED BY <2>6, <2>7 DEF size
<1>7. ASSUME NEW q \in Readers, NEW r \in Readers, r # q,
             ScanStep(q) \/ \E ask \in Asks[q] : Start(q, ask[1], ask[2], ask[3])
      PROVE  scan'[r] = scan[r]
  BY <1>2, <1>7 DEF ScanStep, Start, Search, Found, ReadHit, ReadMiss, Load, LoadFails, Decode,
     DecodeFails, SkipEvent, TakeEvent, TakeLastEvent, LeaveBlock, Return
<1>8. ASSUME NEW q \in Readers,
             ScanStep(q) \/ \E ask \in Asks[q] : Start(q, ask[1], ask[2], ask[3])
      PROVE  CacheAgrees' /\ Stays(q)
  <2> HIDE DEF Stays
  <2>1. scan[q].pc # "missed" \/ scan'[q].pc # "events" => Stays(q)
    BY DEF Stays
  <2> QED BY <1>1, <1>4, <1>5, <1>6, <1>8, <2>1 DEF ScanStep
<1>9. ASSUME NEW r \in Readers, scan'[r] = scan[r] PROVE Stays(r)
  BY <1>9
<1>10. CASE UNCHANGED vars
  <2>1. UNCHANGED cacheVars /\ scan' = scan
    BY <1>10 DEF vars, cacheVars
  <2> QED BY <1>1, <1>9, <2>1
<1>11. CASE \E p \in Paths : Write(p)
  BY <1>1, <1>3, <1>9, <1>11
<1>12. ASSUME NEW q \in Readers,
             ScanStep(q) \/ \E ask \in Asks[q] : Start(q, ask[1], ask[2], ask[3])
      PROVE  CacheAgrees' /\ \A r \in Readers : Stays(r)
  <2> HIDE DEF Stays
  <2>1. ASSUME NEW r \in Readers PROVE Stays(r)
    BY <1>7, <1>8, <1>9, <1>12
  <2> QED BY <1>8, <1>12, <2>1
<1>13. CASE \E q \in Readers : \/ ScanStep(q)
                               \/ \E ask \in Asks[q] : Start(q, ask[1], ask[2], ask[3])
  BY <1>12, <1>13
<1>14. CASE Next
  BY <1>11, <1>13, <1>14 DEF Next
<1> QED BY <1>10, <1>14

LEMMA CacheCorrect == Spec => [](Inv /\ CacheAgrees)
<1>0. SsTableAssumption
  BY SsTableAssumption
<1>1. Init => CacheAgrees
  <2> SUFFICES ASSUME Init PROVE CacheAgrees
    OBVIOUS
  <2>1. memory = <<>> /\ lru = <<>> /\ index = <<>> /\ curBytes = 0
    BY DEF Init, CacheInit
  <2>2. lru \in Seq(Addresses) /\ Len(lru) = 0 /\ DOMAIN memory = {} /\ DOMAIN index = {}
    BY <2>1
  <2>3. memory = [x \in DOMAIN memory |-> memory[x]] /\ index = [k \in DOMAIN index |-> index[k]]
    BY <2>1
  <2>4. Agree(memory, lru, index)
    BY <2>2, <2>3 DEF Agree
  <2> DEFINE g == [n \in 0 .. 0 |-> 0]
  <2>5. Counts(memory, lru, g) /\ g[Len(lru)] = 0
    BY <2>2 DEF Counts
  <2> HIDE DEF g
  <2>6. Weighs(memory, lru, curBytes)
    BY <2>1, <2>5 DEF Weighs
  <2> QED BY <2>1, <2>4, <2>6, CacheAssumption DEF CacheAgrees
<1>2. Inv /\ CacheAgrees /\ [Next]_vars => CacheAgrees'
  BY <1>0, CacheStep
<1> QED BY <1>1, <1>2, Invariant, PTL DEF Spec

(* CacheSound in every state: over any get() and put() of any readers the  *)
(* list and the index of the cache have the same entries and cur_bytes_ is *)
(* what they hold, at most max_bytes_ (block_cache.cpp:15-48, 64-70).      *)
THEOREM CacheBounded == Spec => []CacheSound
<1>1. CacheAgrees => CacheSound
  BY AgreesSound
<1> QED BY <1>1, CacheCorrect, PTL

(* NewBlockStays in every step: put() never evicts the block it was given  *)
(* unless that block alone is too large (block_cache.cpp:41-47).           *)
THEOREM NewBlockKept == Spec => NewBlockStays
<1>0. SsTableAssumption
  BY SsTableAssumption
<1>1. Inv /\ CacheAgrees /\ [Next]_vars =>
        [\A r \in Readers : scan[r].pc = "missed" /\ scan'[r].pc = "events" =>
            \/ Wanted(r) \in DOMAIN index'
            \/ BlockBytes(Len(scan'[r].block)) > MaxBytes]_vars
  BY <1>0, CacheStep
<1> QED BY <1>1, CacheCorrect, PTL DEF Spec, NewBlockStays

-----------------------------------------------------------------------------
(* What is in a file, block after block, is what add() was given.          *)

(* g concatenates the first of some sequences.                             *)
Joins(ss, g) ==
    /\ g \in [0 .. Len(ss) -> Seq(Nat)]
    /\ g[0] = <<>>
    /\ \A i \in 1 .. Len(ss) : g[i] = g[i - 1] \o ss[i]

LEMMA FlattenJoins ==
    ASSUME NEW ss \in Seq(Seq(Nat)), NEW g, Joins(ss, g)
    PROVE  FlattenSeq(ss) = g[Len(ss)]
<1> DEFINE L == Len(ss)
           rec(h) == [i \in 1 .. L |-> IF i = 1 THEN ss[i] ELSE h[i - 1] \o ss[i]]
           f == CHOOSE h : h = rec(h)
           g1 == [i \in 1 .. L |-> g[i]]
           wrong == {i \in 1 .. L : f[i] # g[i]}
<1>1. L \in Nat /\ \A i \in 1 .. L : ss[i] \in Seq(Nat)
  OBVIOUS
<1>2. CASE L = 0
  BY <1>2 DEF FlattenSeq, Joins
<1>3. CASE L # 0
  <2>1. FlattenSeq(ss) = f[L]
    BY <1>3 DEF FlattenSeq
  <2>2. g1 = rec(g1)
    <3>1. ASSUME NEW i \in 1 .. L
          PROVE  g[i] = IF i = 1 THEN ss[i] ELSE g1[i - 1] \o ss[i]
      <4>1. g[i] = g[i - 1] \o ss[i] /\ g[0] = <<>>
        BY DEF Joins
      <4>2. CASE i = 1
        <5>1. ss[i] \in Seq(Nat) /\ g[i] = <<>> \o ss[i]
          <6>1. i - 1 = 0 /\ ss[i] \in Seq(Nat)
            BY <1>1, <4>2
          <6> QED BY <4>1, <6>1
        <5>2. <<>> \o ss[i] = ss[i]
          BY <5>1, ConcatEmptySeq
        <5> QED BY <4>2, <5>1, <5>2
      <4>3. CASE i # 1
        <5>1. i - 1 \in 1 .. L
          BY <1>1, <4>3
        <5> QED BY <4>1, <4>3, <5>1
      <4> QED BY <4>2, <4>3
    <3> QED BY <3>1
  <2> HIDE DEF g1
  <2>3. f = rec(f)
    <3> HIDE DEF rec
    <3> QED BY <2>2
  <2> HIDE DEF f
  <2>4. \A i \in 1 .. L : f[i] = IF i = 1 THEN ss[i] ELSE f[i - 1] \o ss[i]
    BY <2>3
  <2>5. wrong = {}
    <3> SUFFICES ASSUME wrong # {} PROVE FALSE
      OBVIOUS
    <3>1. wrong \subseteq Nat
      OBVIOUS
    <3>2. PICK i \in wrong : \A j \in wrong : i <= j
      BY <3>1, HasMinimum
    <3>3. i \in 1 .. L /\ g[i] = g[i - 1] \o ss[i] /\ g[0] = <<>>
      BY <3>2 DEF Joins
    <3>4. CASE i = 1
      <4>1. f[i] = ss[i] /\ g[i] = ss[i]
        <5>1. ss[i] \in Seq(Nat) /\ g[i] = <<>> \o ss[i] /\ f[i] = ss[i]
          <6>1. i - 1 = 0 /\ ss[i] \in Seq(Nat)
            BY <1>1, <3>3, <3>4
          <6>2. f[i] = ss[i]
            BY <2>4, <3>3, <3>4
          <6> QED BY <3>3, <6>1, <6>2
        <5>2. <<>> \o ss[i] = ss[i]
          BY <5>1, ConcatEmptySeq
        <5> QED BY <5>1, <5>2
      <4> QED BY <3>2, <4>1
    <3>5. CASE i # 1
      <4>1. i - 1 \in 1 .. L /\ ~(i <= i - 1)
        BY <1>1, <3>3, <3>5
      <4>2. i - 1 \notin wrong
        BY <3>2, <4>1
      <4>3. f[i - 1] = g[i - 1]
        BY <4>1, <4>2
      <4>4. f[i] = f[i - 1] \o ss[i]
        BY <2>4, <3>3, <3>5
      <4> QED BY <3>2, <3>3, <4>3, <4>4
    <3> QED BY <3>4, <3>5
  <2>6. L \in 1 .. L
    BY <1>1, <1>3
  <2> QED BY <2>1, <2>5, <2>6
<1> QED BY <1>2, <1>3

Joined(f, w) ==
    \E g : Joins(f.blocks, g) /\ g[Len(f.blocks)] \o f.builder = SubSeq(w, 1, f.count)

(* No block is larger than the target unless it is one event.              *)
Fits(block) == Len(block) > 1 => BlockBytes(Len(block)) <= Target

Cut(f, w) ==
    /\ Joined(f, w)
    /\ Fits(f.builder) /\ \A i \in 1 .. Len(f.blocks) : Fits(f.blocks[i])
    /\ f.filter \subseteq 0 .. FilterBits - 1

Vacant(f) == f.builder = <<>> /\ f.blocks = <<>> /\ f.index = <<>> /\ f.filter = {}

CutInv ==
    /\ file \in [Paths -> TableType]
    /\ \A p \in Paths : IF file[p].state \in {"open", "finished"}
                       THEN Cut(file[p], run[p]) ELSE Vacant(file[p])

LEMMA FlushCut ==
    ASSUME NEW f \in TableType, NEW w \in Seq(Nat), Cut(f, w)
    PROVE  Cut(FlushBlock(f), w)
<1>1. CASE f.builder = <<>>
  BY <1>1 DEF FlushBlock
<1>2. CASE f.builder # <<>>
  <2> DEFINE h == FlushBlock(f)
             m == Len(f.blocks)
  <2>1. f.blocks \in Seq(Seq(Nat)) /\ f.builder \in Seq(Nat) /\ m \in Nat
    BY DEF TableType
  <2>2. /\ h.blocks = Append(f.blocks, f.builder) /\ h.builder = <<>>
        /\ h.count = f.count /\ h.filter = f.filter
    BY <1>2 DEF FlushBlock, TableType
  <2> HIDE DEF h
  <2>3. /\ Len(h.blocks) = m + 1 /\ h.blocks[m + 1] = f.builder
        /\ \A i \in 1 .. m : h.blocks[i] = f.blocks[i]
    BY <2>1, <2>2
  <2>4. PICK g : Joins(f.blocks, g) /\ g[m] \o f.builder = SubSeq(w, 1, f.count)
    BY DEF Cut, Joined
  <2>5. /\ g \in [0 .. m -> Seq(Nat)] /\ g[0] = <<>>
        /\ \A i \in 1 .. m : g[i] = g[i - 1] \o f.blocks[i]
    BY <2>4 DEF Joins
  <2> DEFINE all == g[m] \o f.builder
             g2 == [i \in 0 .. m + 1 |-> IF i = m + 1 THEN all ELSE g[i]]
  <2>6. all \in Seq(Nat)
    <3>1. g[m] \in Seq(Nat)
      <4>1. m \in 0 .. m
        BY <2>1
      <4> QED BY <2>5, <4>1
    <3> QED BY <2>1, <3>1
  <2>7. all \o <<>> = all
    <3> HIDE DEF all
    <3> QED BY <2>6, ConcatEmptySeq
  <2>8. Joins(h.blocks, g2) /\ g2[Len(h.blocks)] = all
    <3> HIDE DEF all
    <3>1. g2 \in [0 .. m + 1 -> Seq(Nat)] /\ g2[0] = <<>> /\ g2[m + 1] = all
      BY <2>1, <2>5, <2>6
    <3>2. ASSUME NEW i \in 1 .. m + 1 PROVE g2[i] = g2[i - 1] \o h.blocks[i]
      <4>1. CASE i = m + 1
        <5>1. g2[i] = all /\ g2[i - 1] = g[m] /\ h.blocks[i] = f.builder
          BY <2>1, <2>3, <4>1
        <5> QED BY <5>1 DEF all
      <4>2. CASE i # m + 1
        <5>1. /\ i \in 1 .. m /\ g2[i] = g[i] /\ g2[i - 1] = g[i - 1]
              /\ h.blocks[i] = f.blocks[i]
          <6>1. i \in 1 .. m /\ i \in 0 .. m + 1 /\ i - 1 \in 0 .. m + 1 /\ i - 1 # m + 1
            BY <2>1, <4>2
          <6> QED BY <2>3, <4>2, <6>1
        <5> QED BY <2>5, <5>1
      <4> QED BY <4>1, <4>2
    <3> HIDE DEF g2
    <3> QED BY <2>3, <3>1, <3>2 DEF Joins
  <2> HIDE DEF all, g2
  <2>9. Joined(h, w)
    BY <2>2, <2>4, <2>7, <2>8 DEF Joined, all
  <2>10. Fits(h.builder)
    <3>1. Len(h.builder) = 0
      BY <2>2
    <3> QED BY <3>1 DEF Fits
  <2>11. ASSUME NEW i \in 1 .. Len(h.blocks) PROVE Fits(h.blocks[i])
    <3>1. i = m + 1 \/ i \in 1 .. m
      BY <2>1, <2>3
    <3> QED BY <2>3, <3>1 DEF Cut
  <2>12. h.filter \subseteq 0 .. FilterBits - 1
    BY <2>2 DEF Cut
  <2> QED BY <2>9, <2>10, <2>11, <2>12 DEF Cut, h
<1> QED BY <1>1, <1>2

LEMMA ProbesInFilter ==
    ASSUME SsTableAssumption, NEW k, Hash1[k] \in Nat, Hash2[k] \in Nat
    PROVE  Probes(k) \subseteq 0 .. FilterBits - 1
<1> SUFFICES ASSUME NEW i \in 0 .. HashCount - 1
             PROVE  ((Hash1[k] + i * Hash2[k]) % Word) % FilterBits \in 0 .. FilterBits - 1
  BY DEF Probes
<1> DEFINE x == Hash1[k] + i * Hash2[k]
<1>1. x \in Nat /\ Word \in Nat \ {0} /\ FilterBits \in Nat \ {0}
  <2>1. HashCount \in Nat /\ Word \in Nat \ {0} /\ FilterBits \in Nat \ {0}
    BY DEF SsTableAssumption
  <2>2. i \in Nat
    BY <2>1
  <2>3. i * Hash2[k] \in Nat
    BY <2>2
  <2> QED BY <2>1, <2>3
<1> HIDE DEF x
<1>2. x % Word \in Nat
  BY <1>1
<1>3. (x % Word) % FilterBits \in 0 .. FilterBits - 1
  <2> DEFINE y == x % Word
  <2> HIDE DEF y
  <2>1. y \in Nat
    BY <1>2 DEF y
  <2>2. y % FilterBits \in 0 .. FilterBits - 1
    BY <1>1, <2>1
  <2> QED BY <2>2 DEF y
<1> QED BY <1>3 DEF x

LEMMA Regroup ==
    ASSUME NEW a \in Seq(Nat), NEW b \in Seq(Nat), NEW c \in Seq(Nat)
    PROVE  (a \o b) \o c = a \o (b \o c)
BY ConcatAssociative

LEMMA AddCut ==
    ASSUME NEW f, NEW w \in Seq(Nat), Ascending(w), Sound(f, w), f.state = "open",
           f.count < Len(w), Cut(f, w),
           Probes(w[f.count + 1]) \subseteq 0 .. FilterBits - 1, Target \in Nat
    PROVE  Cut(WithEvent(f, w[f.count + 1]), w)
<1> DEFINE g == IF BuilderFull(f) THEN FlushBlock(f) ELSE f
           k == w[f.count + 1]
           h == WithEvent(f, k)
<1>1. /\ Sound(g, w) /\ g.count = f.count /\ f \in TableType
      /\ BuilderFull(f) => g.builder = <<>>
      /\ ~BuilderFull(f) => g = f
  BY FlushSound DEF Sound
<1>2. g \in TableType
  BY <1>1 DEF Sound
<1>3. Cut(g, w)
  BY <1>1, FlushCut
<1>4. /\ g.count \in Nat /\ g.count + 1 \in 1 .. Len(w) /\ k \in Nat /\ k = w[g.count + 1]
      /\ g.builder \in Seq(Nat) /\ g.blocks \in Seq(Seq(Nat)) /\ Len(g.blocks) \in Nat
  <2>1. g.count \in Nat /\ g.builder \in Seq(Nat) /\ g.blocks \in Seq(Seq(Nat))
    BY <1>2 DEF TableType
  <2>2. g.count + 1 \in 1 .. Len(w)
    BY <1>1, <2>1
  <2> QED BY <1>1, <2>1, <2>2
<1>5. g.builder = <<>> \/ BlockBytes(Len(g.builder) + 1) <= Target
  <2>1. CASE ~BuilderFull(f)
    <3>1. g = f
      BY <1>1, <2>1
    <3>2. f.builder = <<>> \/ ~(BlockBytes(Len(f.builder) + 1) > Target)
      BY <2>1 DEF BuilderFull
    <3>3. Len(f.builder) \in Nat
      BY <1>1 DEF TableType
    <3> QED BY <3>1, <3>2, <3>3 DEF BlockBytes
  <2> QED BY <1>1, <2>1
<1>6. /\ h.blocks = g.blocks /\ h.builder = Append(g.builder, k)
      /\ h.count = g.count + 1 /\ h.filter = g.filter \cup Probes(k)
  BY <1>2 DEF WithEvent, TableType
<1>60. Probes(k) \subseteq 0 .. FilterBits - 1
  OBVIOUS
<1> HIDE DEF g, k, h
<1>7. PICK j : Joins(g.blocks, j) /\ j[Len(g.blocks)] \o g.builder = SubSeq(w, 1, g.count)
  BY <1>3 DEF Cut, Joined
<1> DEFINE last == j[Len(g.blocks)]
<1>8. last \in Seq(Nat)
  <2>1. Len(g.blocks) \in 0 .. Len(g.blocks)
    BY <1>4
  <2> QED BY <1>7, <2>1 DEF Joins
<1> HIDE DEF last
<1>9. last \o Append(g.builder, k) = SubSeq(w, 1, g.count + 1)
  <2>1. <<k>> \in Seq(Nat)
    BY <1>4
  <2>2. Append(g.builder, k) = g.builder \o <<k>>
    BY <1>4, AppendIsConcat
  <2>3. (last \o g.builder) \o <<k>> = last \o (g.builder \o <<k>>)
    <3> DEFINE a == g.builder
               b == <<k>>
    <3>1. last \in Seq(Nat) /\ a \in Seq(Nat) /\ b \in Seq(Nat)
      BY <1>4, <1>8, <2>1
    <3> HIDE DEF a, b
    <3>2. (last \o a) \o b = last \o (a \o b)
      BY <3>1, Regroup
    <3> QED BY <3>2 DEF a, b
  <2> DEFINE c == g.count + 1
  <2>4. c \in 1 .. Len(w) /\ 1 \in 1 .. Len(w) /\ c \in 1 .. Len(w) /\ c - 1 = g.count
    BY <1>4
  <2> HIDE DEF c
  <2>5. SubSeq(w, 1, c) = SubSeq(w, 1, c - 1) \o <<w[c]>>
    <3>1. c \in 1 .. Len(w) /\ 1 \in 1 .. Len(w)
      BY <2>4
    <3> QED BY <3>1, SubSeqRecursiveSecond
  <2>6. w[c] = k
    BY <1>4 DEF c
  <2>7. last \o g.builder = SubSeq(w, 1, c - 1)
    BY <1>7, <2>4 DEF last
  <2> QED BY <2>2, <2>3, <2>5, <2>6, <2>7 DEF c
<1>10. Joined(h, w)
  BY <1>6, <1>7, <1>9 DEF Joined, last
<1>11. Fits(h.builder)
  <2>1. Len(h.builder) = Len(g.builder) + 1
    BY <1>4, <1>6
  <2>2. CASE g.builder = <<>>
    <3>1. Len(h.builder) = 1
      BY <2>1, <2>2
    <3> QED BY <3>1 DEF Fits
  <2>3. CASE BlockBytes(Len(g.builder) + 1) <= Target
    BY <2>1, <2>3 DEF Fits
  <2> QED BY <1>5, <2>2, <2>3
<1>12. (\A i \in 1 .. Len(h.blocks) : Fits(h.blocks[i])) /\ h.filter \subseteq 0 .. FilterBits - 1
  BY <1>3, <1>6, <1>60 DEF Cut
<1>13. Cut(h, w)
  BY <1>10, <1>11, <1>12 DEF Cut
<1> QED BY <1>13 DEF h, k

LEMMA CutStep ==
    ASSUME SsTableAssumption, Inv, CutInv, [Next]_vars
    PROVE  CutInv'
<1>1. ASSUME NEW p \in Paths, NEW g \in TableType, file' = [file EXCEPT ![p] = g], run' = run,
             IF g.state \in {"open", "finished"} THEN Cut(g, run[p]) ELSE Vacant(g)
      PROVE  CutInv'
  <2>1. file' \in [Paths -> TableType] /\ file'[p] = g
        /\ \A q \in Paths : q # p => file'[q] = file[q]
    BY <1>1 DEF CutInv
  <2>2. ASSUME NEW q \in Paths
        PROVE  IF file'[q].state \in {"open", "finished"}
               THEN Cut(file'[q], run[q]) ELSE Vacant(file'[q])
    <3>1. CASE q = p
      BY <1>1, <2>1, <3>1
    <3>2. CASE q # p
      <4>1. file'[q] = file[q]
        BY <2>1, <3>2
      <4> QED BY <4>1 DEF CutInv
    <3> QED BY <3>1, <3>2
  <2> QED BY <1>1, <2>1, <2>2 DEF CutInv
<1>2. ASSUME file' = file, run' = run PROVE CutInv'
  BY <1>2 DEF CutInv
<1>3. NewTable \in TableType /\ Vacant(NewTable)
  <2>1. <<>> \in Seq(Nat) /\ <<>> \in Seq(Seq(Nat)) /\ <<>> \in Seq([first : Nat, block : Nat])
    OBVIOUS
  <2> QED BY <2>1 DEF NewTable, TableType, Vacant
<1>4. ASSUME NEW p \in Paths, Write(p) PROVE CutInv'
  <2> DEFINE f == file[p]
             w == run[p]
  <2>1. w \in Seq(Nat) /\ Ascending(w) /\ f \in TableType
    BY RunOfFile DEF Inv, FilesInv, CutInv
  <2>2. CASE Create(p)
    <3>1. /\ NewTable.blocks = <<>> /\ NewTable.builder = <<>> /\ NewTable.count = 0
          /\ NewTable.filter = {} /\ NewTable.state = "open"
      BY DEF NewTable
    <3> DEFINE j == [i \in 0 .. 0 |-> <<>>]
    <3>2. Len(NewTable.blocks) = 0 /\ Len(NewTable.builder) = 0
      BY <3>1
    <3>3. Joins(NewTable.blocks, j) /\ j[0] = <<>>
      <4>1. <<>> \in Seq(Nat)
        OBVIOUS
      <4>2. j \in [0 .. 0 -> Seq(Nat)] /\ j[0] = <<>>
        BY <4>1
      <4> HIDE DEF j
      <4> QED BY <3>2, <4>2 DEF Joins
    <3> HIDE DEF j
    <3>4. <<>> \o <<>> = <<>> /\ SubSeq(w, 1, 0) = <<>>
      <4>1. <<>> \in Seq(Nat)
        OBVIOUS
      <4>2. <<>> \o <<>> = <<>>
        BY <4>1, ConcatEmptySeq
      <4>3. SubSeq(w, 1, 0) = <<>>
        BY <2>1, SubSeqEmpty
      <4> QED BY <4>2, <4>3
    <3>5. Joined(NewTable, w)
      BY <3>1, <3>2, <3>3, <3>4 DEF Joined
    <3>6. Cut(NewTable, w)
      BY <3>1, <3>2, <3>5 DEF Cut, Fits
    <3>7. file' = [file EXCEPT ![p] = NewTable] /\ run' = run
      BY <2>2 DEF Create
    <3> QED BY <1>1, <1>3, <3>1, <3>6, <3>7
  <2>3. CASE Add(p)
    <3> DEFINE k == w[f.count + 1]
               g == WithEvent(f, k)
    <3>1. f.state = "open" /\ f.count < Len(w) /\ file' = [file EXCEPT ![p] = g] /\ run' = run
      BY <2>3 DEF Add
    <3>2. Sound(f, w) /\ Cut(f, w)
      BY <3>1 DEF Inv, FilesInv, CutInv
    <3>3. Probes(k) \subseteq 0 .. FilterBits - 1
      <4>1. f.count + 1 \in DOMAIN run[p] /\ run[p] \in Runs[p]
        BY <2>1, <3>1 DEF Inv, FilesInv, Given, TableType
      <4>2. Hash1[k] \in Nat /\ Hash2[k] \in Nat
        BY <4>1 DEF SsTableAssumption
      <4> QED BY <4>2, ProbesInFilter
    <3>4. Target \in Nat
      BY DEF SsTableAssumption
    <3>5. Cut(g, w)
      BY <2>1, <3>1, <3>2, <3>3, <3>4, AddCut
    <3>6. g \in TableType /\ g.state = "open"
      BY <2>1, <3>1, <3>2, AddSound DEF Sound
    <3> HIDE DEF g
    <3> QED BY <1>1, <3>1, <3>5, <3>6
  <2>4. CASE Finish(p)
    <3> DEFINE h == FlushBlock(f)
               g == [h EXCEPT !.state = "finished"]
    <3>1. f.state = "open" /\ f.count = Len(w) /\ file' = [file EXCEPT ![p] = g] /\ run' = run
      BY <2>4 DEF Finish
    <3>2. Sound(f, w) /\ Cut(f, w)
      BY <3>1 DEF Inv, FilesInv, CutInv
    <3>3. h \in TableType
      BY <2>1, <3>1, <3>2, FlushSound DEF Sound
    <3>4. Cut(h, w)
      BY <2>1, <3>2, FlushCut
    <3> HIDE DEF h
    <3>5. /\ g \in TableType /\ g.state = "finished" /\ g.blocks = h.blocks
          /\ g.builder = h.builder /\ g.count = h.count /\ g.filter = h.filter
      BY <3>3 DEF TableType
    <3> HIDE DEF g
    <3>6. Cut(g, w)
      BY <3>4, <3>5 DEF Cut, Joined
    <3> QED BY <1>1, <3>1, <3>5, <3>6
  <2>5. CASE WriterFails(p)
    <3> DEFINE g == [NewTable EXCEPT !.state = "removed"]
    <3>1. file' = [file EXCEPT ![p] = g] /\ run' = run
      BY <2>5 DEF WriterFails
    <3>2. /\ g \in TableType /\ g.state = "removed" /\ Vacant(g)
      BY <1>3 DEF TableType, Vacant
    <3> HIDE DEF g
    <3> QED BY <1>1, <3>1, <3>2
  <2> QED BY <1>4, <2>2, <2>3, <2>4, <2>5 DEF Write
<1>5. ASSUME NEW q \in Readers,
             ScanStep(q) \/ \E ask \in Asks[q] : Start(q, ask[1], ask[2], ask[3])
      PROVE  file' = file /\ run' = run
  BY <1>5 DEF ScanStep, Start, Search, Found, ReadHit, ReadMiss, Load, LoadFails, Decode,
     DecodeFails, SkipEvent, TakeEvent, TakeLastEvent, LeaveBlock, Return, fileVars
<1>6. CASE UNCHANGED vars
  BY <1>2, <1>6 DEF vars
<1>7. CASE \E q \in Readers : \/ ScanStep(q)
                              \/ \E ask \in Asks[q] : Start(q, ask[1], ask[2], ask[3])
  BY <1>2, <1>5, <1>7
<1>8. CASE Next
  BY <1>4, <1>7, <1>8 DEF Next
<1> QED BY <1>6, <1>8

LEMMA CutCorrect == Spec => [](Inv /\ CutInv)
<1>0. SsTableAssumption
  BY SsTableAssumption
<1>1. Init => CutInv
  <2> SUFFICES ASSUME Init PROVE CutInv
    OBVIOUS
  <2> DEFINE f == [NewTable EXCEPT !.state = "none"]
  <2>1. <<>> \in Seq(Nat) /\ <<>> \in Seq(Seq(Nat)) /\ <<>> \in Seq([first : Nat, block : Nat])
    OBVIOUS
  <2>2. f \in TableType /\ Vacant(f) /\ f.state = "none"
    BY <2>1 DEF NewTable, TableType, Vacant
  <2>3. file = [p \in Paths |-> f]
    BY DEF Init
  <2> HIDE DEF f
  <2> QED BY <2>2, <2>3 DEF CutInv
<1>2. Inv /\ CutInv /\ [Next]_vars => CutInv'
  BY <1>0, CutStep
<1> QED BY <1>1, <1>2, Invariant, PTL DEF Spec

(* FileSound in every state: the blocks of a finished file, one after the  *)
(* other, are the run it was written from, none empty or larger than the   *)
(* target, and index, meta block and filter agree with them, for every run *)
(* and target (sstable.cpp:91-168, block.cpp:24-31).                       *)
THEOREM FilesSound == Spec => []FileSound
<1>1. Inv /\ CutInv => FileSound
  <2> SUFFICES ASSUME Inv, CutInv, NEW p \in Paths, file[p].state = "finished"
               PROVE  LET f == file[p]
                      IN  /\ FlattenSeq(f.blocks) = run[p]
                          /\ \A i \in DOMAIN f.blocks :
                                /\ f.blocks[i] # <<>>
                                /\ Len(f.blocks[i]) > 1 => BlockBytes(Len(f.blocks[i])) <= Target
                          /\ Len(f.index) = Len(f.blocks)
                          /\ \A i \in DOMAIN f.index :
                                f.index[i] = [first |-> f.blocks[i][1], block |-> i]
                          /\ f.min = run[p][1] /\ f.max = run[p][Len(run[p])]
                          /\ \A k \in ToSet(run[p]) : FilterMayContain(f.filter, k)
    BY DEF FileSound
  <2> DEFINE f == file[p]
             w == run[p]
  <2>1. w \in Seq(Nat) /\ Len(w) > 0 /\ Sound(f, w) /\ Cut(f, w) /\ f \in TableType
    BY SsTableAssumption, RunOfFile DEF Inv, FilesInv, CutInv
  <2>2. f.builder = <<>> /\ f.count = Len(w) /\ f.state = "finished"
    BY <2>1 DEF Sound
  <2> HIDE DEF f, w
  <2>3. /\ f.blocks \in Seq(Seq(Nat)) /\ DOMAIN f.blocks = 1 .. Len(f.blocks)
        /\ DOMAIN f.index = 1 .. Len(f.index)
    BY <2>1 DEF TableType
  <2>4. FlattenSeq(f.blocks) = w
    <3>1. PICK j : Joins(f.blocks, j) /\ j[Len(f.blocks)] \o <<>> = SubSeq(w, 1, Len(w))
      BY <2>1, <2>2 DEF Cut, Joined
    <3>2. j[Len(f.blocks)] \in Seq(Nat)
      <4>1. Len(f.blocks) \in 0 .. Len(f.blocks)
        BY <2>3
      <4> QED BY <3>1, <4>1 DEF Joins
    <3>3. j[Len(f.blocks)] \o <<>> = j[Len(f.blocks)]
      BY <3>2, ConcatEmptySeq
    <3>4. SubSeq(w, 1, Len(w)) = w
      BY <2>1, SubSeqFull
    <3> QED BY <2>3, <3>1, <3>3, <3>4, FlattenJoins
  <2>5. /\ Len(f.index) = Len(f.blocks)
        /\ \A i \in 1 .. Len(f.blocks) : /\ Len(f.blocks[i]) > 0
                                         /\ f.index[i] = [first |-> f.blocks[i][1], block |-> i]
    BY <2>1 DEF Sound, Indexed
  <2>6. ASSUME NEW i \in 1 .. Len(f.blocks)
        PROVE  /\ f.blocks[i] # <<>>
               /\ Len(f.blocks[i]) > 1 => BlockBytes(Len(f.blocks[i])) <= Target
    <3>1. Len(f.blocks[i]) > 0 /\ Fits(f.blocks[i])
      BY <2>1, <2>5 DEF Cut
    <3> QED BY <3>1 DEF Fits
  <2>7. f.min = w[1] /\ f.max = w[Len(w)] /\ \A n \in 1 .. Len(w) : Probes(w[n]) \subseteq f.filter
    BY <2>1, <2>2 DEF Sound, Known
  <2>8. \A k \in ToSet(w) : FilterMayContain(f.filter, k)
    BY <2>1, <2>7 DEF ToSet, FilterMayContain
  <2> QED BY <2>3, <2>4, <2>5, <2>6, <2>7, <2>8 DEF f, w
<1> QED BY <1>1, CutCorrect, PTL

-----------------------------------------------------------------------------
(* Every key in a file, in the cache or at a reader is one of the runs.    *)
LEMMA KeysOfRun ==
    ASSUME SsTableAssumption, run \in Given, NEW p \in Paths
    PROVE  \A n \in 1 .. Len(run[p]) : run[p][n] \in Keys
<1>1. run[p] \in Runs[p] /\ run[p] \in Seq(Nat)
  BY RunOfFile DEF Given
<1>2. \A n \in 1 .. Len(run[p]) : run[p][n] \in ToSet(run[p])
  BY <1>1 DEF ToSet
<1>3. ToSet(run[p]) \subseteq Keys
  BY <1>1 DEF Keys
<1> QED BY <1>2, <1>3

LEMMA SeqOfKeys ==
    ASSUME NEW T, NEW s \in Seq(T), NEW S, \A i \in 1 .. Len(s) : s[i] \in S
    PROVE  s \in Seq(S)
OBVIOUS

LEMMA KeysOfFile ==
    ASSUME SsTableAssumption, Inv, NEW p \in Paths, file[p].state \in {"open", "finished"}
    PROVE  /\ file[p].builder \in Seq(Keys)
           /\ file[p].blocks \in Seq(Seq(Keys))
           /\ file[p].index \in Seq([first : Keys, block : Nat])
           /\ \A i \in 1 .. Len(file[p].blocks) : file[p].blocks[i] \in Seq(Keys)
<1> DEFINE f == file[p]
           w == run[p]
<1>1. Sound(f, w) /\ w \in Seq(Nat) /\ \A n \in 1 .. Len(w) : w[n] \in Keys
  BY RunOfFile, KeysOfRun DEF Inv, FilesInv
<1> HIDE DEF f, w
<1>2. /\ f.builder \in Seq(Nat) /\ f.blocks \in Seq(Seq(Nat)) /\ f.count \in Nat
      /\ f.index \in Seq([first : Nat, block : Nat]) /\ f.count <= Len(w)
  BY <1>1 DEF Sound, TableType, Holds
<1>3. \A n \in 1 .. f.count : w[n] \in Keys
  BY <1>1, <1>2
<1>30. /\ \A b \in 1 .. Len(f.builder) : \E n \in 1 .. f.count : f.builder[b] = w[n]
       /\ \A i \in 1 .. Len(f.blocks) : \A a \in 1 .. Len(f.blocks[i]) :
             \E n \in 1 .. f.count : f.blocks[i][a] = w[n]
  BY <1>1 DEF Sound, Holds
<1>4. f.builder \in Seq(Keys)
  <2>1. \A b \in 1 .. Len(f.builder) : f.builder[b] \in Keys
    BY <1>3, <1>30
  <2> QED BY <1>2, <2>1, SeqOfKeys
<1>5. ASSUME NEW i \in 1 .. Len(f.blocks)
      PROVE  f.blocks[i] \in Seq(Keys) /\ \A a \in 1 .. Len(f.blocks[i]) : f.blocks[i][a] \in Keys
  <2>1. \A a \in 1 .. Len(f.blocks[i]) : f.blocks[i][a] \in Keys
    BY <1>3, <1>30
  <2>2. f.blocks[i] \in Seq(Nat)
    BY <1>2
  <2> QED BY <2>1, <2>2, SeqOfKeys
<1>6. f.blocks \in Seq(Seq(Keys))
  <2> DEFINE K == Seq(Keys)
  <2>1. \A i \in 1 .. Len(f.blocks) : f.blocks[i] \in K
    BY <1>5
  <2> HIDE DEF K
  <2>2. f.blocks \in Seq(K)
    BY <1>2, <2>1, SeqOfKeys
  <2> QED BY <2>2 DEF K
<1>7. f.index \in Seq([first : Keys, block : Nat])
  <2> DEFINE E == [first : Keys, block : Nat]
  <2>1. ASSUME NEW i \in 1 .. Len(f.index) PROVE f.index[i] \in E
    <3>0. Indexed(f)
      BY <1>1 DEF Sound
    <3>1. /\ i \in 1 .. Len(f.blocks) /\ Len(f.blocks[i]) > 0
          /\ f.index[i] = [first |-> f.blocks[i][1], block |-> i]
      BY <3>0 DEF Indexed
    <3>2. Len(f.blocks[i]) \in Nat /\ i \in Nat
      <4>1. f.blocks[i] \in Seq(Keys)
        BY <1>5, <3>1
      <4>2. i \in Nat
        BY <3>1
      <4>3. Len(f.blocks[i]) \in Nat
        BY ONLY <4>1
      <4> QED BY <4>2, <4>3
    <3>3. 1 \in 1 .. Len(f.blocks[i]) /\ i \in Nat
      BY <3>1, <3>2
    <3>4. f.blocks[i][1] \in Keys
      BY <1>5, <3>1, <3>3
    <3> QED BY <3>1, <3>3, <3>4
  <2> HIDE DEF E
  <2>2. f.index \in Seq(E)
    BY <1>2, <2>1, SeqOfKeys
  <2> QED BY <2>2 DEF E
<1> QED BY <1>4, <1>5, <1>6, <1>7 DEF f

KeysInv == \A r \in Readers : scan[r].block \in Seq(Keys) /\ scan[r].rows \in Seq(Keys)

LEMMA KeysStep ==
    ASSUME SsTableAssumption, Inv, KeysInv, [Next]_vars
    PROVE  KeysInv'
<1>1. scan \in [Readers -> ScanType] /\ <<>> \in Seq(Keys)
  BY DEF Inv, ScansInv
<1>2. NoScan.block = <<>> /\ NoScan.rows = <<>>
  BY DEF NoScan
<1>3. ASSUME NEW q \in Readers, NEW t, scan' = [scan EXCEPT ![q] = t],
             t.block \in Seq(Keys), t.rows \in Seq(Keys)
      PROVE  KeysInv'
  BY <1>1, <1>3 DEF KeysInv
<1>4. ASSUME scan' = scan PROVE KeysInv'
  BY <1>4 DEF KeysInv
<1>5. ASSUME NEW q \in Readers, ScanStep(q) \/ \E ask \in Asks[q] : Start(q, ask[1], ask[2], ask[3])
      PROVE  KeysInv'
  <2> DEFINE s == scan[q]
  <2>1. s \in ScanType /\ s.block \in Seq(Keys) /\ s.rows \in Seq(Keys)
    BY <1>1 DEF KeysInv
  <2>2. CASE \E ask \in Asks[q] : Start(q, ask[1], ask[2], ask[3])
    <3>1. PICK ask \in Asks[q] : Start(q, ask[1], ask[2], ask[3])
      BY <2>2
    <3> DEFINE t == [NoScan EXCEPT
                       !.pc = IF MayContain(file[ask[1]], ask[2], ask[3]) THEN "search" ELSE "done",
                       !.path = ask[1], !.start = ask[2], !.end = ask[3],
                       !.hi = Len(file[ask[1]].index)]
    <3>2. scan' = [scan EXCEPT ![q] = t]
      BY <3>1 DEF Start
    <3>3. t.block = <<>> /\ t.rows = <<>>
      BY DEF NoScan
    <3> HIDE DEF t
    <3> QED BY <1>1, <1>3, <3>2, <3>3
  <2>3. CASE Search(q) \/ Found(q) \/ ReadHit(q) \/ ReadMiss(q)
    <3>1. CASE Search(q)
      <4>1. \/ scan' = [scan EXCEPT ![q] = [s EXCEPT !.lo = (s.lo + s.hi) \div 2]]
            \/ scan' = [scan EXCEPT ![q] = [s EXCEPT !.hi = (s.lo + s.hi) \div 2]]
        BY <1>1, <3>1 DEF Search
      <4> QED BY <1>3, <2>1, <4>1 DEF ScanType
    <3>2. CASE Found(q)
      <4> DEFINE t == [s EXCEPT !.pc = "next", !.at = s.lo,
                                !.todo = BlocksFrom(s.lo, Index(q), s.end)]
      <4>1. scan' = [scan EXCEPT ![q] = t]
        BY <1>1, <3>2 DEF Found
      <4>2. t.block = s.block /\ t.rows = s.rows
        BY <2>1 DEF ScanType
      <4> HIDE DEF t
      <4> QED BY <1>3, <2>1, <4>1, <4>2
    <3>3. CASE ReadHit(q)
      <4> DEFINE t == [s EXCEPT !.pc = "decode", !.pointer = index[Wanted(q)]]
      <4>1. scan' = [scan EXCEPT ![q] = t]
        BY <1>1, <3>3 DEF ReadHit
      <4>2. t.block = s.block /\ t.rows = s.rows
        BY <2>1 DEF ScanType
      <4> HIDE DEF t
      <4> QED BY <1>3, <2>1, <4>1, <4>2
    <3>4. CASE ReadMiss(q)
      <4>1. scan' = [scan EXCEPT ![q] = [s EXCEPT !.pc = "missed"]]
        BY <1>1, <3>4 DEF ReadMiss
      <4> QED BY <1>3, <2>1, <4>1 DEF ScanType
    <3> QED BY <2>3, <3>1, <3>2, <3>3, <3>4
  <2>4. ASSUME s.pc \in Reads, s.at \in s.todo PROVE WantedData(q) \in Seq(Keys)
    <3>1. /\ s.at + 1 \in 1 .. Len(file[s.path].blocks)
          /\ WantedData(q) = file[s.path].blocks[s.at + 1]
          /\ s.path \in Paths /\ file[s.path].state = "finished"
      BY <2>4, WantedFacts, ReaderFacts DEF Reads, Active
    <3> QED BY <3>1, KeysOfFile
  <2>5. ASSUME s.pc \in {"missed", "decode"} PROVE s.pc \in Reads /\ s.at \in s.todo
    <3>1. s.pc \in Reads /\ s.pc # "next"
      BY <2>5 DEF Reads
    <3>2. Reading(s, file[s.path])
      BY <3>1 DEF Inv, ScansInv, ScanOK
    <3> QED BY <3>1, <3>2 DEF Reading
  <2>6. CASE Load(q)
    <3> DEFINE t == [s EXCEPT !.pc = "events", !.pos = 1, !.block = WantedData(q)]
    <3>1. scan' = [scan EXCEPT ![q] = t] /\ WantedData(q) \in Seq(Keys)
      BY <1>1, <2>4, <2>5, <2>6 DEF Load
    <3>2. t.block = WantedData(q) /\ t.rows = s.rows
      BY <2>1 DEF ScanType
    <3> HIDE DEF t
    <3> QED BY <1>3, <2>1, <3>1, <3>2
  <2>7. CASE Decode(q)
    <3> DEFINE b == IF s.pointer \in DOMAIN memory THEN memory[s.pointer].data ELSE WantedData(q)
               t == [s EXCEPT !.pc = "events", !.pos = 1, !.pointer = "null", !.block = b,
                              !.dangled = s.dangled \/ ~PointerValid(q)]
    <3>1. scan' = [scan EXCEPT ![q] = t] /\ s.pc = "decode"
      BY <1>1, <2>7 DEF Decode
    <3>2. t.block = b /\ t.rows = s.rows
      BY <2>1 DEF ScanType
    <3>3. b \in Seq(Keys)
      <4>1. CASE s.pointer \in DOMAIN memory
        <5>1. PICK p \in Paths : /\ file[p].state = "finished"
                                 /\ \E i \in 1 .. Len(file[p].blocks) :
                                       memory[s.pointer].data = file[p].blocks[i]
          BY <4>1 DEF Inv, CacheInv, IsBlock
        <5> QED BY <4>1, <5>1, KeysOfFile
      <4>2. CASE s.pointer \notin DOMAIN memory
        BY <2>4, <2>5, <3>1, <4>2
      <4> QED BY <4>1, <4>2
    <3> HIDE DEF t, b
    <3> QED BY <1>3, <2>1, <3>1, <3>2, <3>3
  <2>8. CASE LoadFails(q) \/ DecodeFails(q)
    <3> DEFINE t == [NoScan EXCEPT !.pc = "failed"]
    <3>1. scan' = [scan EXCEPT ![q] = t] /\ t.block = <<>> /\ t.rows = <<>>
      BY <2>8 DEF LoadFails, DecodeFails, NoScan
    <3> HIDE DEF t
    <3> QED BY <1>1, <1>3, <3>1
  <2>9. ASSUME InBlock(q) PROVE Append(s.rows, NextEvent(q)) \in Seq(Keys)
    <3>1. s.pc = "events" /\ s.pos <= Len(s.block) /\ s.pos \in Nat
      BY <2>1, <2>9 DEF InBlock, ScanType
    <3>2. s.pos >= 1
      BY <3>1 DEF Inv, ScansInv, ScanOK
    <3>3. s.block[s.pos] \in Keys
      BY <2>1, <3>1, <3>2
    <3> QED BY <2>1, <3>3 DEF NextEvent
  <2>10. CASE SkipEvent(q)
    <3>1. scan' = [scan EXCEPT ![q] = [s EXCEPT !.pos = s.pos + 1]]
      BY <1>1, <2>10 DEF SkipEvent
    <3> QED BY <1>3, <2>1, <3>1 DEF ScanType
  <2>11. CASE TakeEvent(q)
    <3> DEFINE t == [s EXCEPT !.pos = s.pos + 1, !.rows = Append(s.rows, NextEvent(q))]
    <3>1. scan' = [scan EXCEPT ![q] = t] /\ InBlock(q)
      BY <1>1, <2>11 DEF TakeEvent
    <3>2. t.block = s.block /\ t.rows = Append(s.rows, NextEvent(q))
      BY <2>1 DEF ScanType
    <3> HIDE DEF t
    <3> QED BY <1>3, <2>1, <2>9, <3>1, <3>2
  <2>12. CASE LeaveBlock(q)
    <3> DEFINE t == [s EXCEPT !.pc = "next", !.at = s.at + 1, !.block = <<>>, !.pos = 0]
    <3>1. scan' = [scan EXCEPT ![q] = t]
      BY <1>1, <2>12 DEF LeaveBlock
    <3>2. t.block = <<>> /\ t.rows = s.rows
      BY <2>1 DEF ScanType
    <3> HIDE DEF t
    <3> QED BY <1>1, <1>3, <2>1, <3>1, <3>2
  <2>13. ASSUME NEW rows \in Seq(Keys), NEW stopped, scan' = [scan EXCEPT ![q] = Ended(q, rows, stopped)]
         PROVE  KeysInv'
    <3>1. Ended(q, rows, stopped).block = <<>> /\ Ended(q, rows, stopped).rows = rows
      BY DEF Ended, NoScan
    <3> QED BY <1>1, <1>3, <2>13, <3>1
  <2>14. CASE TakeLastEvent(q)
    BY <2>9, <2>13, <2>14 DEF TakeLastEvent
  <2>15. CASE Return(q)
    BY <2>1, <2>13, <2>15 DEF Return
  <2> QED BY <1>5, <2>2, <2>3, <2>6, <2>7, <2>8, <2>10, <2>11, <2>12, <2>14, <2>15 DEF ScanStep
<1>6. CASE UNCHANGED vars
  BY <1>4, <1>6 DEF vars
<1>7. CASE \E p \in Paths : Write(p)
  BY <1>4, <1>7 DEF Write, Create, Add, Finish, WriterFails
<1>8. CASE \E q \in Readers : \/ ScanStep(q)
                              \/ \E ask \in Asks[q] : Start(q, ask[1], ask[2], ask[3])
  BY <1>5, <1>8
<1>9. CASE Next
  BY <1>7, <1>8, <1>9 DEF Next
<1> QED BY <1>6, <1>9

LEMMA KeysCorrect == Spec => [](Inv /\ KeysInv)
<1>0. SsTableAssumption
  BY SsTableAssumption
<1>1. Init => KeysInv
  <2>1. NoScan.block = <<>> /\ NoScan.rows = <<>> /\ <<>> \in Seq(Keys)
    BY DEF NoScan
  <2> QED BY <2>1 DEF Init, KeysInv
<1>2. Inv /\ KeysInv /\ [Next]_vars => KeysInv'
  BY <1>0, KeysStep
<1> QED BY <1>1, <1>2, Invariant, PTL DEF Spec

(* TypeOK in every state: what is read back from a file or out of the      *)
(* cache is keys of the runs, the index names blocks of files, and the     *)
(* filter stays within its bits, whatever the hashes (sstable.cpp:101-115, *)
(* 245-262, bloom_filter.cpp:65-71).                                              *)
THEOREM TableTypes == Spec => []TypeOK
<1>0. SsTableAssumption
  BY SsTableAssumption
<1>1. ASSUME Inv, CutInv, NEW p \in Paths PROVE file[p] \in Table
  <2> DEFINE f == file[p]
  <2>1. f \in TableType
    BY <1>1 DEF CutInv
  <2>2. f.filter \in SUBSET (0 .. FilterBits - 1)
    BY <1>1 DEF CutInv, Cut, Vacant
  <2>3. /\ f.builder \in Seq(Keys) /\ f.blocks \in Seq(Seq(Keys))
        /\ f.index \in Seq([first : Keys, block : Nat])
    <3>1. CASE f.state \in {"open", "finished"}
      BY <1>0, <1>1, <3>1, KeysOfFile
    <3>2. CASE f.state \notin {"open", "finished"}
      <4>1. f.builder = <<>> /\ f.blocks = <<>> /\ f.index = <<>>
        BY <1>1, <3>2 DEF CutInv, Vacant
      <4>2. \A S : <<>> \in Seq(S)
        OBVIOUS
      <4> QED BY <4>1, <4>2
    <3> QED BY <3>1, <3>2
  <2> DEFINE B == Seq(Seq(Keys))
             E == Seq([first : Keys, block : Nat])
             F == SUBSET (0 .. FilterBits - 1)
  <2> HIDE DEF f, B, E, F
  <2>4. /\ f.blocks \in B /\ f.index \in E /\ f.filter \in F
    BY <2>2, <2>3 DEF B, E, F
  <2>5. f \in [state : {"none", "open", "finished", "removed"}, builder : Seq(Keys),
               blocks : B, index : E, filter : F, count : Nat, min : Nat, max : Nat]
    BY <2>1, <2>3, <2>4 DEF TableType
  <2> QED BY <2>5 DEF Table, B, E, F, f
<1>2. ASSUME Inv, KeysInv, NEW r \in Readers PROVE scan[r] \in Scan
  <2>1. scan[r] \in ScanType /\ scan[r].block \in Seq(Keys) /\ scan[r].rows \in Seq(Keys)
    BY <1>2 DEF Inv, ScansInv, KeysInv
  <2> QED BY <2>1 DEF ScanType, Scan, Active
<1>3. ASSUME Inv, CacheAgrees
      PROVE  /\ \A a \in DOMAIN memory : a \in Addresses /\ memory[a].data \in Seq(Keys)
             /\ lru \in Seq(Addresses) /\ DOMAIN index \subseteq Paths \X Nat /\ curBytes \in Nat
  <2>1. /\ lru \in Seq(Addresses) /\ DOMAIN memory = {lru[i] : i \in 1 .. Len(lru)}
        /\ \A k \in DOMAIN index : index[k] \in DOMAIN memory /\ memory[index[k]].key = k
    BY <1>3 DEF CacheAgrees, Agree
  <2>2. curBytes \in Nat
    BY <1>3, CacheAssumption DEF CacheAgrees
  <2>3. ASSUME NEW a \in DOMAIN memory
        PROVE  a \in Addresses /\ memory[a].data \in Seq(Keys) /\ memory[a].key \in Paths \X Nat
    <3>1. PICK p \in Paths, b \in Nat :
             /\ file[p].state = "finished" /\ memory[a].key = <<p, b>>
             /\ b \in 1 .. Len(file[p].blocks) /\ memory[a].data = file[p].blocks[b]
      <4>1. IsBlock(memory[a])
        BY <1>3 DEF Inv, CacheInv
      <4> QED BY <4>1 DEF IsBlock
    <3>2. memory[a].data \in Seq(Keys)
      BY <1>0, <1>3, <3>1, KeysOfFile
    <3> QED BY <2>1, <3>1, <3>2
  <2> QED BY <2>1, <2>2, <2>3
<1>4. Inv /\ KeysInv /\ CutInv /\ CacheAgrees => TypeOK
  <2> SUFFICES ASSUME Inv, KeysInv, CutInv, CacheAgrees PROVE TypeOK
    OBVIOUS
  <2>1. file = [p \in Paths |-> file[p]] /\ scan = [r \in Readers |-> scan[r]]
    BY DEF CutInv, Inv, ScansInv
  <2>2. file \in [Paths -> Table]
    BY <1>1, <2>1
  <2>3. scan \in [Readers -> Scan]
    BY <1>2, <2>1
  <2>4. run \in Given
    BY DEF Inv, FilesInv
  <2> QED BY <1>3, <2>2, <2>3, <2>4 DEF TypeOK
<1> QED BY <1>4, KeysCorrect, CutCorrect, CacheCorrect, PTL
=============================================================================

------------------------- MODULE SymbolTableProofs -------------------------
(***************************************************************************)
(* Theorems about SymbolTable: any set of names, any number of restarts,   *)
(* with a disk that may fail.                                              *)
(***************************************************************************)
EXTENDS SymbolTable, WellFoundedInduction, TLAPS

(* A nonempty set of natural numbers has a minimum.                        *)
LEMMA HasMinimum ==
    ASSUME NEW S, S \subseteq Nat, S # {}
    PROVE  \E n \in S : \A m \in S : n <= m
<1> DEFINE R == OpToRel(<, Nat)
<1>1. IsWellFoundedOn(R, Nat)
  BY NatLessThanWellFounded
<1>2. \A x, y \in Nat : y < x => <<y, x>> \in R
  BY DEF OpToRel
<1> HIDE DEF R
<1>3. PICK x \in S : \A y \in S : ~(<<y, x>> \in R)
  BY <1>1, WFMin
<1>4. ASSUME NEW m \in S PROVE x <= m
  <2>1. ~(m < x) /\ m \in Nat /\ x \in Nat
    BY <1>2, <1>3
  <2> QED BY <2>1
<1> QED BY <1>4

LEMMA AppendRange ==
    ASSUME NEW s, s \in Seq(Range(s)), NEW x
    PROVE  Append(s, x) \in Seq(Range(Append(s, x))) /\ Range(Append(s, x)) = Range(s) \cup {x}
<1>1. Len(s) \in Nat /\ DOMAIN s = 1 .. Len(s)
  OBVIOUS
<1>2. /\ DOMAIN Append(s, x) = 1 .. Len(s) + 1
      /\ \A i \in 1 .. Len(s) : Append(s, x)[i] = s[i]
      /\ Append(s, x)[Len(s) + 1] = x
  OBVIOUS
<1>3. Range(Append(s, x)) = Range(s) \cup {x}
  <2>1. \A i \in 1 .. Len(s) + 1 : i \in 1 .. Len(s) \/ i = Len(s) + 1
    BY <1>1
  <2>2. \A i \in 1 .. Len(s) : i \in 1 .. Len(s) + 1
    BY <1>1
  <2>3. Len(s) + 1 \in 1 .. Len(s) + 1
    BY <1>1
  <2> QED BY <1>1, <1>2, <2>1, <2>2, <2>3 DEF Range
<1>4. Append(s, x) \in Seq(Range(s) \cup {x})
  <2>1. s \in Seq(Range(s) \cup {x})
    OBVIOUS
  <2> QED BY <2>1
<1> QED BY <1>3, <1>4

-----------------------------------------------------------------------------
(* The table and its file agree as long as no table was loaded without a   *)
(* name it had: ids are distinct and below the next one, what the file     *)
(* says is so, and while nothing failed the file says all of it, or the    *)
(* rest is still to be written; a torn entry is there only after a failure *)
(* or for an overlong name.                                                *)
TableInv ==
    /\ ids \in [Names -> Nat] /\ nextId \in 1 .. MaxId + 1
    /\ phase \in {"open", "flushing", "closed"}
    /\ \A n \in Names : ids[n] < nextId
    /\ \A m, n \in Names : ids[m] = ids[n] /\ ids[m] # 0 => m = n

FileInv ==
    /\ file \in Seq(Range(file))
    /\ Range(file) \subseteq Entries \cup {Torn}
    /\ todo \subseteq Entries
    /\ phase # "flushing" => todo = {}
    /\ ~failed => Torn \notin Range(file) /\ \A n \in Overlong : ids[n] = 0
    /\ phase = "flushing" /\ Torn \in Range(file) => \E n \in Overlong : ids[n] # 0
    /\ phase = "flushing" \/ ~failed =>
         \A e \in Entries : e[1] \in Overlong \/ e \in Range(file) \cup todo

UsedInv == used \subseteq Entries

NamesInv == ~lost => TableInv /\ FileInv /\ UsedInv

(* What one Enter does to the entries.                                     *)
LEMMA EnterEntries ==
    ASSUME TableInv, NEW n \in Names, Enter(n)
    PROVE  TableInv' /\ Entries' = Entries \cup {<<n, nextId>>}
<1>1. /\ phase = "open" /\ phase' = "open" /\ ids[n] = 0 /\ nextId \in Nat /\ nextId # 0
      /\ ids' = [ids EXCEPT ![n] = nextId] /\ nextId' = nextId + 1 /\ nextId' \in 1 .. MaxId + 1
  BY SymbolTableAssumption DEF Enter, TableInv
<1>2. \A m \in Names : ids[m] \in Nat /\ ids[m] < nextId /\ ids'[m] = IF m = n THEN nextId ELSE ids[m]
  BY <1>1 DEF TableInv
<1>3. TableInv'
  <2>1. ids' \in [Names -> Nat] /\ \A m \in Names : ids'[m] < nextId'
    BY <1>1, <1>2 DEF TableInv
  <2>2. ASSUME NEW a \in Names, NEW b \in Names, ids'[a] = ids'[b], ids'[a] # 0
        PROVE  a = b
    BY <1>1, <1>2, <2>2 DEF TableInv
  <2> QED BY <1>1, <2>1, <2>2 DEF TableInv
<1>4. Entries' = Entries \cup {<<n, nextId>>}
  BY <1>1, <1>2 DEF Entries
<1> QED BY <1>3, <1>4

(* A nonempty set of places in a sequence has a last one.                  *)
LEMMA HasLast ==
    ASSUME NEW len \in Nat, NEW at, at \subseteq 1 .. len, at # {}
    PROVE  \E k \in at : \A l \in at : l <= k
<1> DEFINE behind == {len - k : k \in at}
<1>0. \A k \in at : k \in 1 .. len /\ len - k \in Nat
  OBVIOUS
<1>1. behind \subseteq Nat /\ behind # {}
  BY <1>0
<1>2. PICK d \in behind : \A e \in behind : d <= e
  <2> HIDE DEF behind
  <2> QED BY <1>1, HasMinimum
<1>3. PICK k \in at : d = len - k
  OBVIOUS
<1>4. ASSUME NEW l \in at PROVE l <= k
  <2>1. d <= len - l
    BY <1>2
  <2> QED BY <1>0, <1>3, <2>1
<1> QED BY <1>4

LEMMA LoadSame ==
    ASSUME TableInv, FileInv, Load, ~lost'
    PROVE  ids' = ids /\ nextId' \in 1 .. MaxId + 1 /\ \A n \in Names : ids[n] < nextId'
<1>1. ~failed /\ phase # "flushing" /\ todo = {}
  BY DEF Load, FileInv
<1>2. Torn \notin Range(file) /\ Range(file) = Entries
  BY <1>1 DEF FileInv, Entries
<1>3. Len(file) \in Nat /\ DOMAIN file = 1 .. Len(file)
  BY DEF FileInv
<1>4. /\ \A k \in DOMAIN file : file[k] \in Entries
      /\ \A e \in Entries : \E k \in DOMAIN file : file[k] = e
  BY <1>2 DEF Range
<1>5. /\ ids' = [n \in Names |-> IdIn(file, n)]
      /\ nextId' = NextIdAfter(file)
  BY <1>2 DEF Load, Open
<1>6. ids' = ids
  <2>1. ASSUME NEW n \in Names PROVE IdIn(file, n) = ids[n]
    <3> DEFINE at == {k \in DOMAIN file : file[k][1] = n}
               last == CHOOSE k \in at : \A l \in at : l <= k
    <3>1. IdIn(file, n) = IF at = {} THEN 0 ELSE file[last][2]
      BY DEF IdIn
    <3>2. \A e \in Entries : e[1] = n <=> e = <<n, ids[n]>> /\ ids[n] # 0
      BY DEF Entries
    <3>3. CASE ids[n] = 0
      BY <1>4, <3>1, <3>2, <3>3
    <3>4. CASE ids[n] # 0
      <4>1. <<n, ids[n]>> \in Entries
        BY <3>4 DEF Entries
      <4>2. at # {} /\ at \subseteq 1 .. Len(file)
        BY <1>3, <1>4, <4>1
      <4>3. last \in at
        <5> HIDE DEF at
        <5>1. \E k \in at : \A l \in at : l <= k
          BY <1>3, <4>2, HasLast
        <5> QED BY <5>1
      <4>4. file[last] = <<n, ids[n]>>
        <5> HIDE DEF last
        <5> QED BY <1>4, <3>2, <4>3
      <4> HIDE DEF at, last
      <4>5. IdIn(file, n) = file[last][2]
        BY <3>1, <4>2
      <4> QED BY <4>4, <4>5
    <3> QED BY <3>3, <3>4
  <2> QED BY <1>5, <2>1 DEF TableInv
<1> DEFINE above == {i \in 1 .. MaxId + 1 : \A k \in DOMAIN file : file[k][2] < i}
<1>7. nextId' = CHOOSE i \in above : \A j \in above : i <= j
  BY <1>5 DEF NextIdAfter
<1>8. nextId \in above
  BY <1>4 DEF TableInv, Entries
<1>9. above \subseteq Nat
  BY SymbolTableAssumption
<1>10. nextId' \in above
  <2> HIDE DEF above
  <2>1. \E i \in above : \A j \in above : i <= j
    BY <1>8, <1>9, HasMinimum
  <2> QED BY <1>7, <2>1
<1>11. ASSUME NEW n \in Names PROVE ids[n] < nextId'
  <2>1. CASE ids[n] = 0
    BY <1>10, <2>1, SymbolTableAssumption
  <2>2. CASE ids[n] # 0
    <3>1. <<n, ids[n]>> \in Entries
      BY <2>2 DEF Entries
    <3>2. PICK k \in DOMAIN file : file[k] = <<n, ids[n]>>
      BY <1>4, <3>1
    <3> QED BY <1>10, <3>2
  <2> QED BY <2>1, <2>2
<1> QED BY <1>6, <1>10, <1>11

LEMMA NamesStep ==
    ASSUME NamesInv, [Next]_vars
    PROVE  NamesInv'
<1> SUFFICES ASSUME ~lost' PROVE TableInv' /\ FileInv' /\ UsedInv'
  BY DEF NamesInv
<1>0. ~lost /\ TableInv /\ FileInv /\ UsedInv
  <2>1. lost => lost'
    BY DEF Next, Intern, InternUnwritten, InternThrows, Enter, InternKnown, Flush, FlushEntry,
       FlushDone, FlushUnwritten, Load, LoadPart, vars
  <2> QED BY <2>1 DEF NamesInv
<1>1. \A x : /\ Append(file, x) \in Seq(Range(Append(file, x)))
             /\ Range(Append(file, x)) = Range(file) \cup {x}
  BY <1>0, AppendRange DEF FileInv
<1>2. ASSUME NEW n \in Names, Intern(n) PROVE TableInv' /\ FileInv' /\ UsedInv'
  <2>1. TableInv' /\ Entries' = Entries \cup {<<n, nextId>>}
    BY <1>0, <1>2, EnterEntries DEF Intern
  <2>2. <<n, nextId>> # Torn
    BY <1>0, SymbolTableAssumption DEF TableInv
  <2>3. /\ phase = "open" /\ phase' = "open" /\ todo' = todo
        /\ failed' = (failed \/ n \in Overlong)
        /\ file' = Append(file, Written(n, nextId)) /\ used' = used \cup {<<n, nextId>>}
    BY <1>2 DEF Intern, Enter
  <2>4. FileInv'
    <3>1. file' \in Seq(Range(file')) /\ Range(file') = Range(file) \cup {Written(n, nextId)}
      BY <1>1, <2>3
    <3>2. CASE n \in Overlong
      BY <1>0, <2>1, <2>3, <3>1, <3>2 DEF FileInv, Written
    <3>3. CASE n \notin Overlong
      <4>1. Written(n, nextId) = <<n, nextId>>
        BY <3>3 DEF Written
      <4>2. \A m \in Overlong : ids'[m] = ids[m]
        BY <1>0, <1>2, <3>3, SymbolTableAssumption DEF Intern, Enter, TableInv
      <4> QED BY <1>0, <2>1, <2>2, <2>3, <3>1, <4>1, <4>2 DEF FileInv
    <3> QED BY <3>2, <3>3
  <2> QED BY <1>0, <2>1, <2>3, <2>4 DEF UsedInv
<1>3. ASSUME NEW n \in Names, InternUnwritten(n) \/ InternThrows(n)
      PROVE  TableInv' /\ FileInv' /\ UsedInv'
  <2>1. TableInv' /\ Entries' = Entries \cup {<<n, nextId>>}
    BY <1>0, <1>3, EnterEntries DEF InternUnwritten, InternThrows
  <2>2. /\ phase = "open" /\ phase' = "open" /\ todo' = todo /\ failed'
        /\ file' \in {file, Append(file, Torn)} /\ used' \subseteq used \cup {<<n, nextId>>}
    BY <1>3 DEF InternUnwritten, InternThrows, Enter
  <2>3. FileInv'
    <3>1. file' \in Seq(Range(file')) /\ Range(file') \subseteq Range(file) \cup {Torn}
      <4>1. CASE file' = file
        BY <1>0, <4>1 DEF FileInv
      <4>2. CASE file' = Append(file, Torn)
        <5>1. /\ Append(file, Torn) \in Seq(Range(Append(file, Torn)))
              /\ Range(Append(file, Torn)) = Range(file) \cup {Torn}
          BY <1>1
        <5> QED BY <4>2, <5>1
      <4> QED BY <2>2, <4>1, <4>2
    <3> QED BY <1>0, <2>1, <2>2, <3>1 DEF FileInv
  <2> QED BY <1>0, <2>1, <2>2, <2>3 DEF UsedInv
<1>4. CASE UNCHANGED <<ids, nextId>> /\ ~Load /\ ~\E k \in 0 .. Len(file) : LoadPart(k)
  <2>1. Entries' = Entries
    BY <1>4 DEF Entries
  <2>2. ASSUME NEW n \in Names, InternKnown(n) PROVE TableInv' /\ FileInv' /\ UsedInv'
    <3>1. <<n, ids[n]>> \in Entries
      BY <2>2 DEF InternKnown, Entries
    <3> QED BY <1>0, <2>1, <2>2, <3>1 DEF InternKnown, TableInv, FileInv, UsedInv
  <2>3. CASE Flush
    <3>1. Range(<<>>) = {} /\ <<>> \in Seq(Range(<<>>))
      BY DEF Range
    <3> QED BY <1>0, <2>1, <2>3, <3>1 DEF Flush, TableInv, FileInv, UsedInv
  <2>4. ASSUME NEW e \in todo, FlushEntry(e) PROVE TableInv' /\ FileInv' /\ UsedInv'
    <3>1. PICK n \in Names : e = <<n, ids[n]>> /\ ids[n] # 0
      BY <1>0, <2>4 DEF FileInv, Entries
    <3>2. e \in Entries /\ e # Torn
      BY <1>0, <2>4, <3>1, SymbolTableAssumption DEF FileInv, TableInv
    <3>3. /\ phase = "flushing" /\ UNCHANGED <<phase, used, failed>> /\ todo' = todo \ {e}
          /\ file' = Append(file, Written(n, ids[n]))
      BY <2>4, <3>1 DEF FlushEntry
    <3>4. file' \in Seq(Range(file')) /\ Range(file') = Range(file) \cup {Written(n, ids[n])}
      BY <1>1, <3>3
    <3>5. TableInv' /\ UsedInv'
      BY <1>0, <1>4, <2>1, <3>3 DEF TableInv, UsedInv
    <3>6. CASE n \in Overlong
      <4>1. Written(n, ids[n]) = Torn /\ failed
        BY <1>0, <3>1, <3>6 DEF Written, FileInv
      <4>2. \E m \in Overlong : ids[m] # 0
        BY <3>1, <3>6
      <4> QED BY <1>0, <1>4, <2>1, <3>1, <3>3, <3>4, <3>5, <3>6, <4>1, <4>2 DEF FileInv
    <3>7. CASE n \notin Overlong
      <4>1. Written(n, ids[n]) = e
        BY <3>1, <3>7 DEF Written
      <4> QED BY <1>0, <1>4, <2>1, <3>2, <3>3, <3>4, <3>5, <4>1 DEF FileInv
    <3> QED BY <3>6, <3>7
  <2>5. CASE FlushDone
    <3>1. /\ phase = "flushing" /\ phase' = "closed" /\ todo = {} /\ UNCHANGED <<file, todo, used>>
          /\ failed' = (\E n \in Overlong : ids[n] # 0)
      BY <2>5 DEF FlushDone
    <3>2. failed' \/ Entries \subseteq Range(file)
      BY <1>0, <3>1 DEF FileInv, Entries
    <3> QED BY <1>0, <1>4, <2>1, <3>1, <3>2 DEF TableInv, FileInv, UsedInv
  <2>6. CASE FlushUnwritten
    BY <1>0, <1>1, <1>4, <2>1, <2>6 DEF FlushUnwritten, TableInv, FileInv, UsedInv
  <2>7. CASE UNCHANGED vars
    BY <1>0, <2>1, <2>7 DEF vars, TableInv, FileInv, UsedInv
  <2> QED BY <1>2, <1>3, <1>4, <2>2, <2>3, <2>4, <2>5, <2>6, <2>7 DEF Next
<1>5. CASE Load
  <2>1. ids' = ids /\ nextId' \in 1 .. MaxId + 1 /\ \A n \in Names : ids[n] < nextId'
    BY <1>0, <1>5, LoadSame
  <2>2. Entries' = Entries
    BY <2>1 DEF Entries
  <2>3. /\ phase' = "open" /\ todo' = {} /\ UNCHANGED <<file, used>> /\ ~failed
        /\ phase # "flushing" /\ failed' = (Torn \in Range(file))
    BY <1>5 DEF Load, Open
  <2> QED BY <1>0, <2>1, <2>2, <2>3 DEF TableInv, FileInv, UsedInv
<1>6. ASSUME NEW k \in 0 .. Len(file), LoadPart(k) PROVE FALSE
  BY <1>6 DEF LoadPart
<1> QED BY <1>2, <1>3, <1>4, <1>5, <1>6 DEF Next, vars, InternKnown, Flush, FlushEntry, FlushDone,
           FlushUnwritten

(* Over any number of restarts and failures, records of a name keep the id *)
(* they were written with and no two names share one, as long as no table  *)
(* was loaded without a name it had: which takes an entry not written or   *)
(* not read, a death in flush(), or a name of 65536 bytes or more, whose   *)
(* length the file cannot hold (symbol_table.cpp:24-27, 68, 71-72, 77, 93, *)
(* 104-117).                                                               *)
THEOREM NamesCorrect == Spec => []NamesKept
<1>1. Init => NamesInv
  <2> SUFFICES ASSUME Init PROVE TableInv /\ FileInv /\ UsedInv
    BY DEF NamesInv
  <2>1. Entries = {} /\ Range(<<>>) = {} /\ <<>> \in Seq(Range(<<>>))
    BY DEF Init, Entries, Range
  <2> QED BY <2>1, SymbolTableAssumption DEF Init, TableInv, FileInv, UsedInv
<1>2. NamesInv /\ [Next]_vars => NamesInv'
  BY NamesStep
<1>3. NamesInv => NamesKept
  BY DEF NamesInv, UsedInv, TableInv, Entries, NamesKept
<1> QED BY <1>1, <1>2, <1>3, PTL DEF Spec
=============================================================================

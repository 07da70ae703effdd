----------------------------- MODULE WalProofs -----------------------------
(***************************************************************************)
(* Theorems about Wal, for every segment size and every number of records, *)
(* segments, crashes and power failures.                                   *)
(***************************************************************************)
EXTENDS Wal, WellFoundedInduction, TLAPS

(* What DB::open has found out, and what the writer relies on.             *)
OpenState ==
    /\ DOMAIN segs \subseteq 1 .. MaxSegments + 1
    /\ pc \in {"truncate", "seal"} => fd
    /\ fd => pc \in {"truncate", "seal", "writing"}
    /\ fd => \A s \in DOMAIN segs : s <= segment
    /\ pc = "recovered" =>
          /\ torn <=> \E s \in DOMAIN segs : segs[s].tear
          /\ DOMAIN segs # {} => cleanEnd = Len(segs[Last(segs)].whole)
    /\ pc = "truncate" => cleanEnd = Len(segs[segment].whole)
    /\ pc = "writing" /\ fd /\ ~segs[segment].tear => offset = Len(segs[segment].whole)

(* No segment has a record that is still to be written.                    *)
Numbered ==
    \A s \in DOMAIN segs : \A i \in 1 .. Len(segs[s].whole) : segs[s].whole[i] < next

(* Without failing writes, the writer never has a tear before it.          *)
CleanTail ==
    ~DiskFaults => /\ behind = {}
                   /\ pc = "writing" /\ fd => ~segs[segment].tear

WalInv ==
    /\ TypeOK /\ OpenState /\ Numbered /\ Ordered /\ PlacedAsReported /\ CleanTail

-----------------------------------------------------------------------------
(* Every segment of old has the same records in new, and new ones are empty. *)
Same(old, new) ==
    /\ DOMAIN old \subseteq DOMAIN new
    /\ \A t \in DOMAIN new :
          new[t].whole = IF t \in DOMAIN old THEN old[t].whole ELSE <<>>

(* A nonempty set of natural numbers with a bound has a maximum.           *)
LEMMA HasMaximum ==
    ASSUME NEW b \in Nat, NEW S, S \subseteq 0 .. b, S # {}
    PROVE  \E n \in S : \A m \in S : m <= n
<1> DEFINE R == OpToRel(<, Nat)
           T == {b - s : s \in S}
<1>1. IsWellFoundedOn(R, Nat)
  BY NatLessThanWellFounded
<1>2. \A x, y \in Nat : y < x => <<y, x>> \in R
  BY DEF OpToRel
<1> HIDE DEF R
<1>3. T \subseteq Nat
  <2>1. \A s \in S : b - s \in Nat
    OBVIOUS
  <2> QED BY <2>1
<1>4. T # {}
  <2>1. PICK s \in S : TRUE
    OBVIOUS
  <2>2. b - s \in T
    OBVIOUS
  <2> QED BY <2>2
<1>5. PICK x \in T : \A y \in T : ~(<<y, x>> \in R)
  <2> HIDE DEF T
  <2> QED BY <1>1, <1>3, <1>4, WFMin
<1>6. PICK n \in S : x = b - n
  OBVIOUS
<1>7. ASSUME NEW m \in S PROVE m <= n
  <2>1. b - m \in T /\ b - m \in Nat /\ b - n \in Nat
    OBVIOUS
  <2>2. ~(b - m < b - n)
    BY <2>1, <1>2, <1>5, <1>6
  <2>3. m \in Int /\ n \in Int
    OBVIOUS
  <2> QED BY <2>2, <2>3
<1> QED BY <1>7

(* The segment with the highest number exists when there is one, so the    *)
(* reader's last and the writer's first segment are the same               *)
(* (wal.cpp:53-61, 167-176).                                               *)
LEMMA LastIsMaximum ==
    ASSUME OpenState, MaxSegments \in Nat, DOMAIN segs # {}
    PROVE  Last(segs) \in DOMAIN segs /\ \A t \in DOMAIN segs : t <= Last(segs)
<1>1. DOMAIN segs \subseteq 0 .. MaxSegments + 1
  BY DEF OpenState
<1> QED BY <1>1, HasMaximum DEF Last

(* Opening a file leaves the records of all (wal.cpp:67-75).               *)
LEMMA WithFileSame ==
    ASSUME NEW files, NEW s
    PROVE  /\ Same(files, WithFile(files, s))
           /\ DOMAIN WithFile(files, s) = DOMAIN files \cup {s}
           /\ \A t \in DOMAIN files : WithFile(files, s)[t] = files[t]
           /\ s \notin DOMAIN files => WithFile(files, s)[s] = NewFile
BY DEF WithFile, Same, NewFile

(* A typed directory stays typed when a file is opened.                    *)
LEMMA WithFileType ==
    ASSUME NEW files, files \in [DOMAIN files -> Segment], NEW s
    PROVE  WithFile(files, s) \in [DOMAIN files \cup {s} -> Segment]
<1>1. NewFile \in Segment
  BY DEF NewFile, Segment
<1> QED BY <1>1 DEF WithFile

(* A step that leaves the records of every segment keeps their order.      *)
LEMMA SameKeepsOrder ==
    ASSUME TypeOK, Numbered, Ordered, Same(segs, segs'),
           segs' \in [DOMAIN segs' -> Segment], next' \in Nat, next <= next'
    PROVE  Numbered' /\ Ordered'
<1>1. \A t \in DOMAIN segs' : t \notin DOMAIN segs => Len(segs'[t].whole) = 0
  BY DEF Same
<1>2. \A t \in DOMAIN segs' : \A i \in 1 .. Len(segs'[t].whole) :
         t \in DOMAIN segs /\ segs'[t].whole = segs[t].whole
  BY <1>1 DEF Same
<1>3. Numbered'
  <2> SUFFICES ASSUME NEW s \in DOMAIN segs', NEW i \in 1 .. Len(segs'[s].whole)
               PROVE  segs'[s].whole[i] < next'
    BY DEF Numbered
  <2>1. segs[s].whole[i] < next /\ segs[s].whole \in Seq(Records) /\ i \in 1 .. Len(segs[s].whole)
    BY <1>2 DEF Numbered, TypeOK, Segment
  <2>2. segs[s].whole[i] \in Records
    BY <2>1
  <2> QED BY <2>1, <2>2, <1>2 DEF Records, TypeOK
<1>4. Ordered'
  BY <1>2 DEF Ordered
<1> QED BY <1>3, <1>4

(* ... and every record where it was reported to be.                       *)
LEMMA SameKeepsPlaces ==
    ASSUME PlacedAsReported, Same(segs, segs'),
           \A r \in Records : place'[r] = place[r] \/ r \in behind',
           lost \subseteq lost', behind \subseteq behind'
    PROVE  PlacedAsReported'
BY DEF PlacedAsReported, Same, Acked

(* A record written at the clean end of the last segment is after all      *)
(* others (wal.cpp:100-135).                                               *)
LEMMA RecordKeepsOrder ==
    ASSUME WalAssumption, TypeOK, OpenState, Numbered, Ordered, Writing,
           ~segs[segment].tear, Same(WithRecord, segs'),
           segs' \in [DOMAIN segs' -> Segment], next' = next + 1
    PROVE  Numbered' /\ Ordered'
<1> DEFINE w == segs[segment].whole
<1>1. segment \in DOMAIN segs /\ w \in Seq(Records) /\ next \in Records
  BY DEF Writing, TypeOK, Segment, Records
<1>2. /\ DOMAIN WithRecord = DOMAIN segs
      /\ \A t \in DOMAIN segs : t # segment => WithRecord[t].whole = segs[t].whole
      /\ WithRecord[segment].whole = Append(w, next)
  BY <1>1 DEF WithRecord, TypeOK, Segment
<1>3. /\ \A t \in DOMAIN segs : t # segment => segs'[t].whole = segs[t].whole
      /\ segs'[segment].whole = Append(w, next)
      /\ \A t \in DOMAIN segs' : t \notin DOMAIN segs => Len(segs'[t].whole) = 0
  BY <1>1, <1>2 DEF Same
<1>4. \A t \in DOMAIN segs : Len(segs[t].whole) \in Nat /\ t \in Nat
  BY DEF TypeOK, Segment
<1>5. /\ Len(Append(w, next)) = Len(w) + 1
      /\ \A i \in 1 .. Len(w) : Append(w, next)[i] = w[i]
      /\ Append(w, next)[Len(w) + 1] = next
  BY <1>1
<1> HIDE DEF w
<1>6. \A t \in DOMAIN segs : \A i \in 1 .. Len(segs[t].whole) :
         segs[t].whole[i] \in Nat /\ segs[t].whole[i] < next
  <2> SUFFICES ASSUME NEW t \in DOMAIN segs, NEW i \in 1 .. Len(segs[t].whole)
               PROVE  segs[t].whole[i] \in Nat /\ segs[t].whole[i] < next
    OBVIOUS
  <2>1. segs[t].whole \in Seq(Records)
    BY DEF TypeOK, Segment
  <2>2. segs[t].whole[i] \in Records
    BY <2>1
  <2> QED BY <2>2 DEF Numbered, Records
<1>7. \A t \in DOMAIN segs' : \A i \in 1 .. Len(segs'[t].whole) :
         /\ t \in DOMAIN segs
         /\ \/ i \in 1 .. Len(segs[t].whole) /\ segs'[t].whole[i] = segs[t].whole[i]
            \/ t = segment /\ i = Len(w) + 1 /\ segs'[t].whole[i] = next
  <2> SUFFICES ASSUME NEW t \in DOMAIN segs', NEW i \in 1 .. Len(segs'[t].whole)
               PROVE  /\ t \in DOMAIN segs
                      /\ \/ i \in 1 .. Len(segs[t].whole) /\ segs'[t].whole[i] = segs[t].whole[i]
                         \/ t = segment /\ i = Len(w) + 1 /\ segs'[t].whole[i] = next
    OBVIOUS
  <2>1. t \in DOMAIN segs
    BY <1>3
  <2>2. CASE t = segment
    <3>1. Len(w) \in Nat /\ segs[t].whole = w
      BY <1>1, <1>4, <2>2 DEF w
    <3>2. i \in 1 .. Len(w) + 1
      BY <1>3, <1>5, <2>2
    <3>3. i \in 1 .. Len(w) \/ i = Len(w) + 1
      BY <3>1, <3>2
    <3> QED BY <1>3, <1>5, <2>1, <2>2, <3>1, <3>3
  <2>3. CASE t # segment
    BY <1>3, <2>1, <2>3
  <2> QED BY <2>2, <2>3
<1>8. Numbered'
  <2> SUFFICES ASSUME NEW t \in DOMAIN segs', NEW i \in 1 .. Len(segs'[t].whole)
               PROVE  segs'[t].whole[i] < next'
    BY DEF Numbered
  <2>1. next \in Nat
    BY DEF TypeOK
  <2> QED BY <1>6, <1>7, <2>1
<1>9. Ordered'
  <2> SUFFICES ASSUME NEW s \in DOMAIN segs', NEW t \in DOMAIN segs',
                      NEW i \in 1 .. Len(segs'[s].whole), NEW j \in 1 .. Len(segs'[t].whole),
                      s < t \/ (s = t /\ i < j)
               PROVE  segs'[s].whole[i] < segs'[t].whole[j]
    BY DEF Ordered
  <2>1. s \in DOMAIN segs /\ t \in DOMAIN segs
    BY <1>7
  <2>2. \A u \in DOMAIN segs : u <= segment
    BY DEF OpenState, Writing
  <2>3. i \in 1 .. Len(segs[s].whole) /\ segs'[s].whole[i] = segs[s].whole[i]
    <3>1. segment \in Nat /\ s \in Nat /\ t \in Nat /\ t <= segment
      BY <1>4, <2>1, <2>2 DEF TypeOK
    <3>2. CASE s = segment /\ i = Len(w) + 1
      <4>1. t = segment /\ i < j
        BY <3>1, <3>2
      <4>2. j \in 1 .. Len(w) + 1 /\ Len(w) \in Nat
        BY <1>1, <1>3, <1>4, <1>5, <4>1 DEF w
      <4> QED BY <3>2, <4>1, <4>2
    <3> QED BY <1>7, <3>2
  <2>4. CASE j \in 1 .. Len(segs[t].whole) /\ segs'[t].whole[j] = segs[t].whole[j]
    BY <2>1, <2>3, <2>4 DEF Ordered
  <2>5. CASE segs'[t].whole[j] = next
    BY <1>6, <2>1, <2>3, <2>5
  <2> QED BY <1>7, <2>4, <2>5
<1> QED BY <1>8, <1>9

(* The position that append() returns is that of the record it wrote, and  *)
(* the others stay where they are (wal.cpp:120-134).                       *)
LEMMA RecordKeepsPlaces ==
    ASSUME WalAssumption, TypeOK, OpenState, PlacedAsReported, Writing,
           ~segs[segment].tear, Same(WithRecord, segs'),
           lost' = lost, behind' = behind,
           place' = place \/ place' = [place EXCEPT ![next] = [segment |-> segment, offset |-> offset]]
    PROVE  PlacedAsReported'
<1> DEFINE w == segs[segment].whole
<1>1. /\ segment \in DOMAIN segs /\ w \in Seq(Records) /\ next \in Records
      /\ offset = Len(w)
  BY DEF Writing, TypeOK, Segment, Records, OpenState
<1>2. /\ DOMAIN WithRecord = DOMAIN segs
      /\ \A t \in DOMAIN segs : t # segment => WithRecord[t].whole = segs[t].whole
      /\ WithRecord[segment].whole = Append(w, next)
  BY <1>1 DEF WithRecord, TypeOK, Segment
<1>3. /\ DOMAIN segs \subseteq DOMAIN segs'
      /\ \A t \in DOMAIN segs : t # segment => segs'[t].whole = segs[t].whole
      /\ segs'[segment].whole = Append(w, next)
  BY <1>1, <1>2 DEF Same
<1>4. /\ Len(Append(w, next)) = Len(w) + 1 /\ Len(w) \in Nat
      /\ \A i \in 1 .. Len(w) : Append(w, next)[i] = w[i]
      /\ Append(w, next)[Len(w) + 1] = next
  BY <1>1
<1>5. SUFFICES ASSUME NEW r \in Acked', r \notin lost, r \notin behind
               PROVE  /\ place'[r].segment \in DOMAIN segs'
                      /\ place'[r].offset < Len(segs'[place'[r].segment].whole)
                      /\ segs'[place'[r].segment].whole[place'[r].offset + 1] = r
  BY DEF PlacedAsReported
<1>6. CASE place' # place /\ r = next
  <2>1. place'[r] = [segment |-> segment, offset |-> offset]
    BY <1>6 DEF TypeOK, Acked
  <2>2. place'[r].segment = segment /\ place'[r].offset = Len(w)
    BY <1>1, <2>1
  <2> HIDE DEF w
  <2> QED BY <1>1, <1>3, <1>4, <1>6, <2>2
<1>7. CASE place' = place \/ r # next
  <2>1. place'[r] = place[r] /\ r \in Acked /\ place[r] \in Place
    BY <1>7 DEF TypeOK, Acked
  <2>2. /\ place[r].segment \in DOMAIN segs
        /\ place[r].offset < Len(segs[place[r].segment].whole)
        /\ segs[place[r].segment].whole[place[r].offset + 1] = r
        /\ place[r].offset \in Nat
    BY <1>5, <2>1 DEF PlacedAsReported, Place
  <2>3. CASE place[r].segment = segment
    <3>1. place[r].offset < Len(w) /\ w[place[r].offset + 1] = r
      BY <2>2, <2>3
    <3> HIDE DEF w
    <3>2. place[r].offset + 1 \in 1 .. Len(w) /\ place[r].offset < Len(w) + 1
      BY <1>4, <2>2, <3>1
    <3> QED BY <1>1, <1>3, <1>4, <2>1, <2>3, <3>1, <3>2
  <2>4. CASE place[r].segment # segment
    BY <1>3, <2>1, <2>2, <2>4
  <2> QED BY <2>3, <2>4
<1> QED BY <1>6, <1>7

-----------------------------------------------------------------------------
(* One lemma per action.                                                   *)

LEMMA WalInit == ASSUME WalAssumption, Init PROVE WalInv
<1>1. DOMAIN segs = {} /\ Acked = {} /\ fd = FALSE /\ pc = "down" /\ behind = {}
  BY DEF Init, Acked
<1>2. segs \in [DOMAIN segs -> Segment]
  BY DEF Init
<1>3. place \in [Records -> Place \cup {Nowhere}] /\ next \in 1 .. MaxRecords + 1
  BY DEF Init, WalAssumption
<1>4. TypeOK
  BY <1>1, <1>2, <1>3 DEF Init, TypeOK, States
<1> QED BY <1>1, <1>4 DEF WalInv, OpenState, Numbered, Ordered, PlacedAsReported, CleanTail

LEMMA ReadAllStep == ASSUME WalAssumption, WalInv, ReadAll PROVE WalInv'
<1> USE DEF WalInv
<1>1. UNCHANGED <<segs, segment, offset, fd, next, place, lost, behind>> /\ pc = "down" /\ pc' = "recovered"
  BY DEF ReadAll
<1>2. fd = FALSE
  BY <1>1 DEF OpenState, TypeOK
<1>3. Numbered' /\ Ordered' /\ PlacedAsReported'
  BY <1>1 DEF Numbered, Ordered, PlacedAsReported, Acked
<1>4. cleanEnd' \in Nat
  <2>1. CASE DOMAIN segs = {}
    BY <2>1 DEF ReadAll
  <2>2. CASE DOMAIN segs # {}
    <3>1. segs[Last(segs)] \in Segment
      BY <2>2, LastIsMaximum DEF WalAssumption, TypeOK
    <3> QED BY <2>2, <3>1 DEF ReadAll, Segment
  <2> QED BY <2>1, <2>2
<1>5. TypeOK'
  BY <1>1, <1>4 DEF ReadAll, TypeOK, States
<1>6. OpenState'
  BY <1>1, <1>2 DEF ReadAll, OpenState, Last
<1>7. CleanTail'
  BY <1>1 DEF CleanTail
<1> QED BY <1>3, <1>5, <1>6, <1>7

LEMMA OpenWriterStep == ASSUME WalAssumption, WalInv, OpenWriter PROVE WalInv'
<1> USE DEF WalInv
<1>1. /\ UNCHANGED <<next, place, lost, behind>> /\ pc = "recovered" /\ fd' = TRUE
      /\ segs' = WithFile(segs, segment') /\ offset' = Len(segs'[segment'].whole)
  BY DEF OpenWriter
<1>2. /\ segment' \in Nat \ {0} /\ segment' \in 1 .. MaxSegments + 1
      /\ \A s \in DOMAIN segs : s <= segment'
  <2>1. CASE DOMAIN segs = {}
    BY <2>1 DEF OpenWriter, WalAssumption
  <2>2. CASE DOMAIN segs # {}
    <3>1. Last(segs) \in DOMAIN segs /\ \A s \in DOMAIN segs : s <= Last(segs)
      BY <2>2, LastIsMaximum DEF WalAssumption
    <3> QED BY <2>2, <3>1 DEF OpenWriter, TypeOK, OpenState
  <2> QED BY <2>1, <2>2
<1>3. /\ Same(segs, segs') /\ DOMAIN segs' = DOMAIN segs \cup {segment'}
      /\ \A t \in DOMAIN segs : segs'[t] = segs[t]
      /\ segment' \notin DOMAIN segs => segs'[segment'] = NewFile
  <2> DEFINE new == WithFile(segs, segment')
  <2>1. /\ Same(segs, new) /\ DOMAIN new = DOMAIN segs \cup {segment'}
        /\ \A t \in DOMAIN segs : new[t] = segs[t]
        /\ segment' \notin DOMAIN segs => new[segment'] = NewFile
    BY WithFileSame
  <2>2. segs' = new
    BY <1>1
  <2> HIDE DEF new
  <2> QED BY <2>1, <2>2
<1>4. segs' \in [DOMAIN segs' -> Segment]
  BY <1>1, <1>3, WithFileType DEF TypeOK
<1>5. segs'[segment'] \in Segment
  BY <1>3, <1>4
<1>6. Numbered' /\ Ordered'
  BY <1>1, <1>3, <1>4, SameKeepsOrder DEF TypeOK
<1>7. PlacedAsReported'
  BY <1>1, <1>3, SameKeepsPlaces
<1>8. /\ torn' \in BOOLEAN /\ cleanEnd' \in Nat
      /\ \/ torn /\ pc' = "truncate" /\ cleanEnd' = cleanEnd
         \/ ~torn /\ pc' = "writing"
  <2>1. CASE torn
    BY <2>1 DEF OpenWriter, TypeOK
  <2>2. CASE ~torn
    <3>1. pc' = "writing" /\ torn' = FALSE /\ cleanEnd' = 0
      BY <2>2, Zenon DEF OpenWriter, Opened
    <3> QED BY <2>2, <3>1
  <2> QED BY <2>1, <2>2
<1>9. TypeOK'
  <2>1. offset' \in Nat
    BY <1>1, <1>5 DEF Segment
  <2>2. DOMAIN segs' \subseteq Nat \ {0}
    BY <1>2, <1>3 DEF TypeOK
  <2> QED BY <1>1, <1>2, <1>3, <1>4, <1>8, <2>1, <2>2 DEF TypeOK, States
<1>10. OpenState'
  <2>1. DOMAIN segs' \subseteq 1 .. MaxSegments + 1
    BY <1>2, <1>3 DEF OpenState
  <2>2. \A s \in DOMAIN segs' : s <= segment'
    BY <1>2, <1>3
  <2>3. torn => cleanEnd = Len(segs'[segment'].whole)
    <3>1. SUFFICES ASSUME torn PROVE cleanEnd = Len(segs'[segment'].whole)
      OBVIOUS
    <3>2. DOMAIN segs # {} /\ cleanEnd = Len(segs[Last(segs)].whole)
      BY <1>1, <3>1 DEF OpenState
    <3>3. segment' = Last(segs) /\ Last(segs) \in DOMAIN segs
      BY <3>2, LastIsMaximum DEF OpenWriter, WalAssumption
    <3> QED BY <1>3, <3>2, <3>3
  <2> QED BY <1>1, <1>8, <2>1, <2>2, <2>3 DEF OpenState
<1>11. CleanTail'
  <2>1. ~torn => ~segs'[segment'].tear
    BY <1>1, <1>3 DEF OpenState, NewFile
  <2> QED BY <1>1, <1>8, <2>1 DEF CleanTail
<1> QED BY <1>6, <1>7, <1>9, <1>10, <1>11

LEMMA TruncateStep == ASSUME WalAssumption, WalInv, Truncate PROVE WalInv'
<1> USE DEF WalInv
<1>1. /\ UNCHANGED <<torn, cleanEnd, segment, offset, fd, next, place, lost, behind>>
      /\ pc = "truncate" /\ pc' = "seal"
  BY DEF Truncate, writerVars
<1>2. /\ segment \in DOMAIN segs /\ segs[segment] \in Segment /\ fd
      /\ cleanEnd = Len(segs[segment].whole)
  BY <1>1 DEF OpenState, TypeOK
<1>3. SubSeq(segs[segment].whole, 1, cleanEnd) = segs[segment].whole
  BY <1>2 DEF Segment
<1>4. /\ segs' \in [DOMAIN segs -> Segment]
      /\ \A t \in DOMAIN segs : segs'[t].whole = segs[t].whole
  <2>1. CASE segs' = segs
    BY <2>1 DEF TypeOK
  <2>2. CASE segs' # segs
    <3>1. PICK d \in {segs[segment].durable, cleanEnd} :
             segs' = [segs EXCEPT ![segment] = [whole |-> segs[segment].whole, tear |-> FALSE, durable |-> d]]
      BY <1>3, <2>2 DEF Truncate
    <3>2. [whole |-> segs[segment].whole, tear |-> FALSE, durable |-> d] \in Segment
      BY <1>2 DEF Segment
    <3> QED BY <1>2, <3>1, <3>2 DEF TypeOK
  <2> QED BY <2>1, <2>2
<1>5. Same(segs, segs') /\ DOMAIN segs' = DOMAIN segs
  BY <1>4 DEF Same
<1>6. segs' \in [DOMAIN segs' -> Segment]
  BY <1>4, <1>5
<1>7. Numbered' /\ Ordered' /\ PlacedAsReported'
  BY <1>1, <1>5, <1>6, SameKeepsOrder, SameKeepsPlaces DEF TypeOK
<1>8. TypeOK'
  BY <1>1, <1>5, <1>6 DEF TypeOK, States
<1>9. OpenState'
  BY <1>1, <1>2, <1>5 DEF OpenState
<1>10. CleanTail'
  BY <1>1 DEF CleanTail
<1> QED BY <1>7, <1>8, <1>9, <1>10

LEMMA SealStep == ASSUME WalAssumption, WalInv, Seal PROVE WalInv'
<1> USE DEF WalInv
<1>1. /\ UNCHANGED <<next, place, lost, behind>> /\ pc = "seal" /\ pc' = "writing"
      /\ torn' = FALSE /\ cleanEnd' = 0 /\ segment < MaxSegments /\ segment' = segment + 1
      /\ segs' = WithFile(segs, segment') /\ offset' = 0 /\ fd' = TRUE
  BY DEF Seal, Opened, Rotate
<1>2. segment \in Nat /\ fd /\ \A s \in DOMAIN segs : s \in Nat /\ s <= segment
  BY <1>1 DEF TypeOK, OpenState
<1>3. segment' \notin DOMAIN segs
  BY <1>1, <1>2
<1>4. /\ Same(segs, segs') /\ DOMAIN segs' = DOMAIN segs \cup {segment'}
      /\ segs'[segment'] = NewFile
  BY <1>1, <1>3, WithFileSame
<1>5. segs' \in [DOMAIN segs' -> Segment]
  BY <1>1, <1>4, WithFileType DEF TypeOK
<1>6. Numbered' /\ Ordered' /\ PlacedAsReported'
  BY <1>1, <1>4, <1>5, SameKeepsOrder, SameKeepsPlaces DEF TypeOK
<1>7. TypeOK'
  <2>1. segment' \in Nat \ {0} /\ DOMAIN segs' \subseteq Nat \ {0} /\ segment' \in DOMAIN segs'
    BY <1>1, <1>2, <1>4 DEF TypeOK
  <2> QED BY <1>1, <1>5, <2>1 DEF TypeOK, States
<1>8. OpenState'
  BY <1>1, <1>2, <1>4 DEF OpenState, NewFile, WalAssumption
<1>9. CleanTail'
  BY <1>1, <1>4 DEF CleanTail, NewFile
<1> QED BY <1>6, <1>7, <1>8, <1>9

(* Whatever becomes of the call, writing a record keeps what the invariant *)
(* says of records.                                                        *)
LEMMA WriteKeepsRecords ==
    ASSUME WalAssumption, WalInv, Writing, Same(WithRecord, segs'),
           segs' \in [DOMAIN segs' -> Segment], next' = next + 1,
           lost' = lost, behind' = BehindTear,
           place' = place \/ place' = [place EXCEPT ![next] = [segment |-> segment, offset |-> offset]]
    PROVE  Numbered' /\ Ordered' /\ PlacedAsReported'
<1> USE DEF WalInv
<1>1. CASE segs[segment].tear
  <2>1. Same(segs, segs') /\ behind' = behind \cup {next}
    BY <1>1 DEF WithRecord, BehindTear
  <2>2. \A r \in Records : place'[r] = place[r] \/ r \in behind'
    BY <2>1 DEF TypeOK
  <2>3. next \in Nat
    BY DEF TypeOK
  <2> QED BY <2>1, <2>2, <2>3, SameKeepsOrder, SameKeepsPlaces
<1>2. CASE ~segs[segment].tear
  <2>1. behind' = behind
    BY <1>2 DEF BehindTear
  <2> QED BY <1>2, <2>1, RecordKeepsOrder, RecordKeepsPlaces
<1> QED BY <1>1, <1>2

(* The files after the record is written are typed, and the same segments. *)
LEMMA WithRecordType ==
    ASSUME WalAssumption, WalInv, Writing
    PROVE  /\ WithRecord \in [DOMAIN segs -> Segment]
           /\ DOMAIN WithRecord = DOMAIN segs
           /\ \A t \in DOMAIN segs : WithRecord[t].tear = segs[t].tear
           /\ ~segs[segment].tear => Len(WithRecord[segment].whole) = offset + 1
<1> USE DEF WalInv
<1>1. segment \in DOMAIN segs /\ segs[segment] \in Segment /\ next \in Records
  BY DEF Writing, TypeOK, Records
<1>2. CASE segs[segment].tear
  BY <1>2 DEF WithRecord, TypeOK
<1>3. CASE ~segs[segment].tear
  <2>1. WithRecord = [segs EXCEPT ![segment] =
                        [whole |-> Append(segs[segment].whole, next),
                         tear |-> segs[segment].tear, durable |-> segs[segment].durable]]
    <3> DEFINE new == [segs[segment] EXCEPT !.whole = Append(segs[segment].whole, next)]
    <3>1. WithRecord = [segs EXCEPT ![segment] = new]
      BY <1>3 DEF WithRecord
    <3>2. new = [whole |-> Append(segs[segment].whole, next),
                 tear |-> segs[segment].tear, durable |-> segs[segment].durable]
      BY <1>1 DEF Segment
    <3> QED BY <3>1, <3>2
  <2>2. Append(segs[segment].whole, next) \in Seq(Records)
    BY <1>1 DEF Segment
  <2>3. Len(Append(segs[segment].whole, next)) = offset + 1
    BY <1>1, <1>3 DEF Segment, OpenState, Writing
  <2> QED BY <1>1, <2>1, <2>2, <2>3 DEF Segment, TypeOK
<1> QED BY <1>2, <1>3

LEMMA AppendStep == ASSUME WalAssumption, WalInv, AppendRecord PROVE WalInv'
<1> USE DEF WalInv
<1>1. /\ Writing /\ next' = next + 1 /\ behind' = BehindTear
      /\ place' = [place EXCEPT ![next] = [segment |-> segment, offset |-> offset]]
      /\ UNCHANGED <<pc, torn, cleanEnd, lost>>
  BY DEF AppendRecord
<1>2. /\ pc = "writing" /\ fd /\ segment \in DOMAIN segs /\ next \in Records
      /\ segment \in Nat /\ offset \in Nat /\ next \in Nat
      /\ \A s \in DOMAIN segs : s \in Nat \ {0} /\ s <= segment
  BY <1>1 DEF Writing, TypeOK, Records, OpenState
<1>3. /\ WithRecord \in [DOMAIN segs -> Segment] /\ DOMAIN WithRecord = DOMAIN segs
      /\ \A t \in DOMAIN segs : WithRecord[t].tear = segs[t].tear
      /\ ~segs[segment].tear => Len(WithRecord[segment].whole) = offset + 1
  BY <1>1, WithRecordType
<1>4. /\ place' \in [Records -> Place \cup {Nowhere}]
      /\ next' \in 1 .. MaxRecords + 1
      /\ behind' \subseteq Records
  BY <1>1, <1>2 DEF TypeOK, Place, Writing, BehindTear, WalAssumption, Records
<1>5. ~DiskFaults => behind' = {} /\ ~segs[segment].tear
  BY <1>1, <1>2 DEF CleanTail, BehindTear
<1>6. CASE offset + 1 >= SegmentSize
  <2>1. /\ segment < MaxSegments /\ segment' = segment + 1 /\ offset' = 0 /\ fd' = TRUE
        /\ segs' = WithFile(WithRecord, segment')
    BY <1>6 DEF AppendRecord, Rotate
  <2>2. segment' \notin DOMAIN segs /\ segment' \in Nat \ {0}
    BY <1>2, <2>1
  <2>3. /\ Same(WithRecord, segs') /\ DOMAIN segs' = DOMAIN segs \cup {segment'}
        /\ segs'[segment'] = NewFile
    BY <1>3, <2>1, <2>2, WithFileSame
  <2>4. segs' \in [DOMAIN segs' -> Segment]
    BY <1>3, <2>1, <2>3, WithFileType
  <2>5. Numbered' /\ Ordered' /\ PlacedAsReported'
    BY <1>1, <2>3, <2>4, WriteKeepsRecords
  <2>6. TypeOK'
    <3>1. DOMAIN segs' \subseteq Nat \ {0}
      BY <1>2, <2>2, <2>3
    <3> QED BY <1>1, <1>4, <2>1, <2>2, <2>3, <2>4, <3>1 DEF TypeOK
  <2>7. OpenState'
    BY <1>1, <1>2, <2>1, <2>3 DEF OpenState, NewFile, WalAssumption
  <2>8. CleanTail'
    BY <1>5, <2>3 DEF CleanTail, NewFile
  <2> QED BY <2>5, <2>6, <2>7, <2>8
<1>7. CASE ~(offset + 1 >= SegmentSize)
  <2>1. segs' = WithRecord /\ offset' = offset + 1 /\ UNCHANGED <<segment, fd>>
    BY <1>7 DEF AppendRecord
  <2>2. DOMAIN segs' = DOMAIN segs /\ segs' \in [DOMAIN segs' -> Segment]
    BY <1>3, <2>1
  <2>3. Same(WithRecord, segs')
    BY <2>1 DEF Same
  <2>4. Numbered' /\ Ordered' /\ PlacedAsReported'
    BY <1>1, <2>2, <2>3, WriteKeepsRecords
  <2>5. TypeOK'
    BY <1>1, <1>2, <1>4, <2>1, <2>2 DEF TypeOK
  <2>6. OpenState'
    BY <1>1, <1>2, <1>3, <2>1, <2>2 DEF OpenState
  <2>7. CleanTail'
    BY <1>2, <1>3, <1>5, <2>1 DEF CleanTail
  <2> QED BY <2>4, <2>5, <2>6, <2>7
<1> QED BY <1>6, <1>7

LEMMA ShortWriteStep == ASSUME WalAssumption, WalInv, ShortWrite PROVE WalInv'
<1> USE DEF WalInv
<1>1. /\ DiskFaults /\ segs' = [segs EXCEPT ![segment].tear = TRUE]
      /\ pc = "writing" /\ fd /\ segment \in DOMAIN segs /\ segs[segment] \in Segment
      /\ UNCHANGED <<pc, torn, cleanEnd, segment, offset, fd, next, place, lost, behind>>
  BY DEF ShortWrite, WithTear, Writing, writerVars, TypeOK
<1>2. /\ segs' \in [DOMAIN segs -> Segment] /\ segs'[segment].tear = TRUE
      /\ \A t \in DOMAIN segs : segs'[t].whole = segs[t].whole
  <2> DEFINE new == [segs[segment] EXCEPT !.tear = TRUE]
  <2>1. segs' = [segs EXCEPT ![segment] = new]
    BY <1>1
  <2>2. new \in Segment /\ new.whole = segs[segment].whole /\ new.tear = TRUE
    BY <1>1 DEF Segment
  <2> HIDE DEF new
  <2> QED BY <1>1, <2>1, <2>2 DEF TypeOK
<1>3. Same(segs, segs') /\ DOMAIN segs' = DOMAIN segs
  BY <1>2 DEF Same
<1>4. Numbered' /\ Ordered' /\ PlacedAsReported'
  BY <1>1, <1>2, <1>3, SameKeepsOrder, SameKeepsPlaces DEF TypeOK
<1>5. TypeOK'
  BY <1>1, <1>2, <1>3 DEF TypeOK
<1>6. OpenState'
  BY <1>1, <1>2, <1>3 DEF OpenState
<1>7. CleanTail'
  BY <1>1 DEF CleanTail
<1> QED BY <1>4, <1>5, <1>6, <1>7

LEMMA RotateFailsStep == ASSUME WalAssumption, WalInv, RotateFails PROVE WalInv'
<1> USE DEF WalInv
<1>1. /\ DiskFaults /\ Writing /\ segs' = WithRecord /\ segment' = segment + 1 /\ offset' = 0
      /\ fd' = FALSE /\ next' = next + 1 /\ behind' = BehindTear
      /\ pc = "writing" /\ UNCHANGED <<pc, torn, cleanEnd, place, lost>>
  BY DEF RotateFails, Writing
<1>2. DOMAIN segs' = DOMAIN segs /\ segs' \in [DOMAIN segs' -> Segment]
  BY <1>1, WithRecordType
<1>3. Same(WithRecord, segs')
  BY <1>1 DEF Same
<1>4. Numbered' /\ Ordered' /\ PlacedAsReported'
  BY <1>1, <1>2, <1>3, WriteKeepsRecords
<1>5. next' \in 1 .. MaxRecords + 1 /\ behind' \subseteq Records
  BY <1>1 DEF TypeOK, Writing, BehindTear, WalAssumption, Records
<1>6. TypeOK'
  <2>1. segment' \in Nat /\ offset' \in Nat
    BY <1>1 DEF TypeOK
  <2>2. DOMAIN segs' \subseteq Nat \ {0}
    BY <1>2 DEF TypeOK
  <2> QED BY <1>1, <1>2, <1>5, <2>1, <2>2 DEF TypeOK
<1>7. OpenState'
  BY <1>1, <1>2 DEF OpenState
<1>8. CleanTail'
  BY <1>1 DEF CleanTail
<1> QED BY <1>4, <1>6, <1>7, <1>8

(* The end of a process leaves what the invariant says of the files.       *)
LEMMA EndKeepsInv ==
    ASSUME WalInv, NEW state \in {"down", "off"}, Ended(state),
           DOMAIN segs' = DOMAIN segs, segs' \in [DOMAIN segs' -> Segment],
           next' \in 1 .. MaxRecords + 1, behind' \subseteq Records, UNCHANGED <<place, lost>>,
           ~DiskFaults => behind' = {}
    PROVE  TypeOK' /\ OpenState' /\ CleanTail'
<1> USE DEF WalInv
<1>1. /\ pc' \in {"down", "off"} /\ fd' = FALSE
      /\ torn' = FALSE /\ cleanEnd' = 0 /\ segment' = 0 /\ offset' = 0
  BY DEF Ended
<1>2. TypeOK'
  BY <1>1 DEF TypeOK, States
<1>3. OpenState' /\ CleanTail'
  BY <1>1 DEF OpenState, CleanTail
<1> QED BY <1>2, <1>3

LEMMA CloseStep == ASSUME WalAssumption, WalInv, Close PROVE WalInv'
<1> USE DEF WalInv
<1>1. /\ Ended("down") /\ UNCHANGED <<next, place, lost, behind>>
      /\ segs' = IF fd THEN [segs EXCEPT ![segment].durable = Len(segs[segment].whole)] ELSE segs
  BY DEF Close
<1>2. /\ segs' \in [DOMAIN segs -> Segment]
      /\ \A t \in DOMAIN segs : segs'[t].whole = segs[t].whole
  <2>1. CASE fd
    <3> DEFINE new == [segs[segment] EXCEPT !.durable = Len(segs[segment].whole)]
    <3>1. segs' = [segs EXCEPT ![segment] = new]
      BY <1>1, <2>1
    <3>2. segment \in DOMAIN segs /\ segs[segment] \in Segment
      BY <2>1 DEF TypeOK
    <3>3. new \in Segment /\ new.whole = segs[segment].whole
      BY <3>2 DEF Segment
    <3> HIDE DEF new
    <3> QED BY <3>1, <3>2, <3>3 DEF TypeOK
  <2>2. CASE ~fd
    <3>1. segs' = segs
      BY <1>1, <2>2, Zenon
    <3> QED BY <3>1 DEF TypeOK
  <2> QED BY <2>1, <2>2
<1>3. Same(segs, segs') /\ DOMAIN segs' = DOMAIN segs
  BY <1>2 DEF Same
<1>4. Numbered' /\ Ordered' /\ PlacedAsReported'
  BY <1>1, <1>2, <1>3, SameKeepsOrder, SameKeepsPlaces DEF TypeOK
<1>5. TypeOK' /\ OpenState' /\ CleanTail'
  BY <1>1, <1>2, <1>3, EndKeepsInv DEF TypeOK, CleanTail
<1> QED BY <1>4, <1>5

LEMMA CrashStep == ASSUME WalAssumption, WalInv, Crash \/ PowerFailure PROVE WalInv'
<1> USE DEF WalInv
<1>1. PICK state \in {"down", "off"} : Ended(state)
  BY DEF Crash, PowerFailure
<1>2. UNCHANGED <<segs, next, place, lost, behind>>
  BY DEF Crash, PowerFailure
<1>3. Numbered' /\ Ordered' /\ PlacedAsReported'
  BY <1>2 DEF Numbered, Ordered, PlacedAsReported, Acked
<1>4. TypeOK' /\ OpenState' /\ CleanTail'
  BY <1>1, <1>2, EndKeepsInv DEF TypeOK, CleanTail
<1> QED BY <1>3, <1>4

LEMMA CrashInAppendStep == ASSUME WalAssumption, WalInv, CrashInAppend PROVE WalInv'
<1> USE DEF WalInv
<1>1. /\ Writing /\ Ended("down") /\ segs' \in {WithRecord, WithTear}
      /\ next' = next + 1 /\ behind' = BehindTear /\ UNCHANGED <<place, lost>>
  BY DEF CrashInAppend
<1>2. /\ segment \in DOMAIN segs /\ segs[segment] \in Segment /\ next \in Nat
      /\ next' \in 1 .. MaxRecords + 1 /\ behind' \subseteq Records /\ behind \subseteq behind'
      /\ ~DiskFaults => behind' = {}
  BY <1>1 DEF TypeOK, Writing, BehindTear, WalAssumption, Records, CleanTail
<1>3. CASE segs' = WithRecord
  <2>1. DOMAIN segs' = DOMAIN segs /\ segs' \in [DOMAIN segs' -> Segment]
    BY <1>1, <1>3, WithRecordType
  <2>2. Same(WithRecord, segs')
    BY <1>3 DEF Same
  <2>3. Numbered' /\ Ordered' /\ PlacedAsReported'
    BY <1>1, <2>1, <2>2, WriteKeepsRecords
  <2> QED BY <1>1, <1>2, <2>1, <2>3, EndKeepsInv
<1>4. CASE segs' = WithTear
  <2> DEFINE new == [segs[segment] EXCEPT !.tear = TRUE]
  <2>1. segs' = [segs EXCEPT ![segment] = new]
    BY <1>4 DEF WithTear
  <2>2. new \in Segment /\ new.whole = segs[segment].whole
    BY <1>2 DEF Segment
  <2> HIDE DEF new
  <2>3. /\ segs' \in [DOMAIN segs -> Segment]
        /\ \A t \in DOMAIN segs : segs'[t].whole = segs[t].whole
    BY <1>2, <2>1, <2>2 DEF TypeOK
  <2>4. Same(segs, segs') /\ DOMAIN segs' = DOMAIN segs
    BY <2>3 DEF Same
  <2>5. Numbered' /\ Ordered' /\ PlacedAsReported'
    BY <1>1, <1>2, <2>3, <2>4, SameKeepsOrder, SameKeepsPlaces
  <2> QED BY <1>1, <1>2, <2>3, <2>4, <2>5, EndKeepsInv
<1> QED BY <1>1, <1>3, <1>4

(* Two places with the same record are one place.                          *)
LEMMA PlacesDiffer ==
    ASSUME TypeOK, Ordered, NEW s \in DOMAIN segs, NEW t \in DOMAIN segs,
           NEW i \in 1 .. Len(segs[s].whole), NEW j \in 1 .. Len(segs[t].whole),
           segs[s].whole[i] = segs[t].whole[j]
    PROVE  s = t /\ i = j
<1>1. s \in Nat /\ t \in Nat /\ segs[s].whole \in Seq(Records) /\ segs[t].whole \in Seq(Records)
  BY DEF TypeOK, Segment
<1>2. segs[s].whole[i] \in Nat /\ i \in Nat /\ j \in Nat
  <2>1. segs[s].whole[i] \in Records
    BY <1>1
  <2> QED BY <2>1 DEF Records
<1>3. ~(s < t \/ (s = t /\ i < j))
  BY <1>2 DEF Ordered
<1>4. ~(t < s \/ (t = s /\ j < i))
  BY <1>2 DEF Ordered
<1> QED BY <1>1, <1>2, <1>3, <1>4

(* A power failure takes the ends of segments and whole segments, and what *)
(* it leaves of the acknowledged records is where it was.                  *)
LEMMA CutKeepsRecords ==
    ASSUME TypeOK, Numbered, Ordered, PlacedAsReported,
           segs' \in [DOMAIN segs' -> Segment], DOMAIN segs' \subseteq DOMAIN segs,
           \A t \in DOMAIN segs' :
              /\ Len(segs'[t].whole) <= Len(segs[t].whole)
              /\ \A i \in 1 .. Len(segs'[t].whole) : segs'[t].whole[i] = segs[t].whole[i],
           lost' = lost \cup (Readable(segs) \ Readable(segs')),
           UNCHANGED <<next, place, behind>>
    PROVE  Numbered' /\ Ordered' /\ PlacedAsReported'
<1>1. \A t \in DOMAIN segs' : Len(segs'[t].whole) \in Nat /\ Len(segs[t].whole) \in Nat
  BY DEF TypeOK, Segment
<1>2. \A t \in DOMAIN segs' : \A i \in 1 .. Len(segs'[t].whole) :
         /\ t \in DOMAIN segs /\ i \in 1 .. Len(segs[t].whole)
         /\ segs'[t].whole[i] = segs[t].whole[i]
  BY <1>1
<1>3. Numbered' /\ Ordered'
  BY <1>2 DEF Numbered, Ordered
<1>4. PlacedAsReported'
  <2> SUFFICES ASSUME NEW r \in Acked, r \notin lost', r \notin behind
               PROVE  /\ place[r].segment \in DOMAIN segs'
                      /\ place[r].offset < Len(segs'[place[r].segment].whole)
                      /\ segs'[place[r].segment].whole[place[r].offset + 1] = r
    BY DEF PlacedAsReported, Acked
  <2> DEFINE s == place[r].segment
             i == place[r].offset + 1
  <2>1. /\ r \in Records /\ place[r].offset \in Nat
        /\ s \in DOMAIN segs /\ place[r].offset < Len(segs[s].whole) /\ segs[s].whole[i] = r
    BY DEF PlacedAsReported, Acked, TypeOK, Place
  <2>2. i \in 1 .. Len(segs[s].whole)
    <3>1. Len(segs[s].whole) \in Nat
      BY <2>1 DEF TypeOK, Segment
    <3> QED BY <2>1, <3>1
  <2>3. r \in Readable(segs)
    BY <2>1, <2>2 DEF Readable
  <2>4. r \in Readable(segs')
    BY <2>3
  <2>5. PICK t \in DOMAIN segs' : \E j \in 1 .. Len(segs'[t].whole) : segs'[t].whole[j] = r
    BY <2>4 DEF Readable
  <2>6. PICK j \in 1 .. Len(segs'[t].whole) : segs'[t].whole[j] = r
    BY <2>5
  <2>7. t \in DOMAIN segs /\ j \in 1 .. Len(segs[t].whole) /\ segs[t].whole[j] = r
    BY <1>2, <2>6
  <2>8. t = s /\ j = i
    BY <2>1, <2>2, <2>7, PlacesDiffer
  <2>9. place[r].offset < Len(segs'[s].whole)
    BY <1>1, <2>1, <2>6, <2>8
  <2> QED BY <2>6, <2>8, <2>9
<1> QED BY <1>3, <1>4

LEMMA LoseTailStep ==
    ASSUME WalAssumption, WalInv, NEW s \in DOMAIN segs, NEW n \in 0 .. MaxRecords,
           NEW part \in BOOLEAN, LoseTail(s, n, part)
    PROVE  WalInv'
<1> USE DEF WalInv
<1> DEFINE new == [whole |-> SubSeq(segs[s].whole, 1, n), tear |-> part, durable |-> segs[s].durable]
<1>1. /\ segs' = [segs EXCEPT ![s] = new]
      /\ lost' = lost \cup (Readable(segs) \ Readable(segs'))
      /\ UNCHANGED <<pc, torn, cleanEnd, segment, offset, fd, next, place, behind>>
      /\ pc = "off" /\ n \in segs[s].durable .. Len(segs[s].whole) - 1
  BY DEF LoseTail, TakeFrom, writerVars
<1>2. segs[s] \in Segment /\ segs[s].whole \in Seq(Records) /\ segs[s].durable \in Nat /\ n \in Nat
      /\ Len(segs[s].whole) \in Nat
  BY DEF TypeOK, Segment, WalAssumption
<1>3. n <= Len(segs[s].whole)
  BY <1>1, <1>2
<1>4. /\ SubSeq(segs[s].whole, 1, n) \in Seq(Records) /\ Len(SubSeq(segs[s].whole, 1, n)) = n
      /\ \A i \in 1 .. n : SubSeq(segs[s].whole, 1, n)[i] = segs[s].whole[i]
  BY <1>2, <1>3
<1>5. new \in Segment /\ Len(new.whole) = n /\ \A i \in 1 .. n : new.whole[i] = segs[s].whole[i]
  BY <1>2, <1>4 DEF Segment
<1> HIDE DEF new
<1>6. segs' \in [DOMAIN segs' -> Segment] /\ DOMAIN segs' = DOMAIN segs
  BY <1>1, <1>5 DEF TypeOK
<1>7. \A t \in DOMAIN segs' :
         /\ Len(segs'[t].whole) <= Len(segs[t].whole)
         /\ \A i \in 1 .. Len(segs'[t].whole) : segs'[t].whole[i] = segs[t].whole[i]
  <2>1. \A t \in DOMAIN segs : Len(segs[t].whole) \in Nat
    BY DEF TypeOK, Segment
  <2> QED BY <1>1, <1>3, <1>5, <1>6, <2>1 DEF TypeOK
<1>8. Numbered' /\ Ordered' /\ PlacedAsReported'
  BY <1>1, <1>6, <1>7, CutKeepsRecords
<1>9. lost' \subseteq Records
  BY <1>1 DEF Readable, TypeOK
<1>10. TypeOK' /\ OpenState' /\ CleanTail'
  BY <1>1, <1>6, <1>9 DEF TypeOK, OpenState, CleanTail
<1> QED BY <1>8, <1>10

LEMMA LoseFileStep ==
    ASSUME WalAssumption, WalInv, NEW s \in DOMAIN segs, LoseFile(s)
    PROVE  WalInv'
<1> USE DEF WalInv
<1>1. /\ segs' = [t \in DOMAIN segs \ {s} |-> segs[t]]
      /\ lost' = lost \cup (Readable(segs) \ Readable(segs'))
      /\ UNCHANGED <<pc, torn, cleanEnd, segment, offset, fd, next, place, behind>>
      /\ pc = "off"
  BY DEF LoseFile, TakeFrom, writerVars
<1>2. /\ segs' \in [DOMAIN segs' -> Segment] /\ DOMAIN segs' \subseteq DOMAIN segs
      /\ \A t \in DOMAIN segs' : segs'[t] = segs[t]
  BY <1>1 DEF TypeOK
<1>3. \A t \in DOMAIN segs' :
         /\ Len(segs'[t].whole) <= Len(segs[t].whole)
         /\ \A i \in 1 .. Len(segs'[t].whole) : segs'[t].whole[i] = segs[t].whole[i]
  <2>1. \A t \in DOMAIN segs : Len(segs[t].whole) \in Nat
    BY DEF TypeOK, Segment
  <2> QED BY <1>2, <2>1
<1>4. Numbered' /\ Ordered' /\ PlacedAsReported'
  BY <1>1, <1>2, <1>3, CutKeepsRecords
<1>5. lost' \subseteq Records
  BY <1>1 DEF Readable, TypeOK
<1>6. fd = FALSE
  BY <1>1 DEF TypeOK, OpenState
<1>7. TypeOK' /\ OpenState' /\ CleanTail'
  BY <1>1, <1>2, <1>5, <1>6 DEF TypeOK, OpenState, CleanTail
<1> QED BY <1>4, <1>7

LEMMA PowerBackStep == ASSUME WalAssumption, WalInv, PowerBack PROVE WalInv'
<1> USE DEF WalInv
<1>1. /\ segs' = [s \in DOMAIN segs |-> [segs[s] EXCEPT !.durable = Len(segs[s].whole)]]
      /\ UNCHANGED <<torn, cleanEnd, segment, offset, fd, next, place, lost, behind>>
      /\ pc = "off" /\ pc' = "down"
  BY DEF PowerBack, writerVars
<1>2. \A t \in DOMAIN segs : /\ [segs[t] EXCEPT !.durable = Len(segs[t].whole)] \in Segment
                             /\ [segs[t] EXCEPT !.durable = Len(segs[t].whole)].whole = segs[t].whole
  BY DEF TypeOK, Segment
<1>3. /\ segs' \in [DOMAIN segs' -> Segment] /\ DOMAIN segs' = DOMAIN segs
      /\ \A t \in DOMAIN segs : segs'[t].whole = segs[t].whole
  BY <1>1, <1>2
<1>4. Same(segs, segs')
  BY <1>3 DEF Same
<1>5. Numbered' /\ Ordered' /\ PlacedAsReported'
  BY <1>1, <1>3, <1>4, SameKeepsOrder, SameKeepsPlaces DEF TypeOK
<1>6. fd = FALSE
  BY <1>1 DEF TypeOK, OpenState
<1>7. TypeOK' /\ OpenState' /\ CleanTail'
  BY <1>1, <1>3, <1>6 DEF TypeOK, OpenState, CleanTail, States
<1> QED BY <1>5, <1>7

-----------------------------------------------------------------------------
LEMMA WalStep == ASSUME WalAssumption, WalInv, [Next]_vars PROVE WalInv'
<1>1. CASE UNCHANGED vars
  BY <1>1 DEF vars, WalInv, TypeOK, OpenState, Numbered, Ordered, PlacedAsReported, CleanTail,
              Last, Acked
<1>2. CASE Next
  <2>1. CASE \E s \in DOMAIN segs, n \in 0 .. MaxRecords, part \in BOOLEAN : LoseTail(s, n, part)
    BY <2>1, LoseTailStep
  <2>2. CASE \E s \in DOMAIN segs : LoseFile(s)
    BY <2>2, LoseFileStep
  <2> QED
    BY <1>2, <2>1, <2>2, ReadAllStep, OpenWriterStep, TruncateStep, SealStep, AppendStep,
       ShortWriteStep, RotateFailsStep, CloseStep, CrashStep, CrashInAppendStep, PowerBackStep
       DEF Next
<1> QED BY <1>1, <1>2

LEMMA WalInvariant == ASSUME WalAssumption PROVE Spec => []WalInv
BY WalInit, WalStep, PTL DEF Spec

(* An acknowledged record that is where it was reported to be is readable. *)
LEMMA PlacedIsReadable == ASSUME WalInv PROVE AckedSurvive
<1> SUFFICES ASSUME NEW r \in Acked, r \notin lost, r \notin behind
             PROVE  r \in Readable(segs)
  BY DEF AckedSurvive
<1>1. /\ r \in Records /\ place[r].offset \in Nat
      /\ place[r].segment \in DOMAIN segs
      /\ place[r].offset < Len(segs[place[r].segment].whole)
      /\ segs[place[r].segment].whole[place[r].offset + 1] = r
  BY DEF WalInv, PlacedAsReported, Acked, TypeOK, Place
<1>2. Len(segs[place[r].segment].whole) \in Nat
  BY <1>1 DEF WalInv, TypeOK, Segment
<1>3. place[r].offset + 1 \in 1 .. Len(segs[place[r].segment].whole)
  BY <1>1, <1>2
<1> QED BY <1>1, <1>3 DEF Readable

(* Whatever crashes and fails, and however often: the log keeps what it     *)
(* acknowledged, except what a power failure takes or a failed write hides *)
(* (wal.cpp:83-135).                                                       *)
THEOREM LogKeepsAcked == ASSUME WalAssumption PROVE Spec => []AckedSurvive
<1>1. WalInv => AckedSurvive
  BY PlacedIsReadable
<1> QED BY <1>1, WalInvariant, PTL

(* Every segment is read in the order of the appends (wal.cpp:167-176), ... *)
THEOREM LogInOrder == ASSUME WalAssumption PROVE Spec => []Ordered
<1>1. WalInv => Ordered
  BY DEF WalInv
<1> QED BY <1>1, WalInvariant, PTL

(* ... and every record is where append() said, over rotations, torn tails *)
(* and restarts (wal.cpp:120-134).                                         *)
THEOREM LogInPlace == ASSUME WalAssumption PROVE Spec => []PlacedAsReported
<1>1. WalInv => PlacedAsReported
  BY DEF WalInv
<1> QED BY <1>1, WalInvariant, PTL

(* Every variable keeps its type, and whatever was truncated, rotated or   *)
(* lost, an open descriptor is that of a segment on disk (wal.cpp:49-75).  *)
THEOREM LogTypes == ASSUME WalAssumption PROVE Spec => []TypeOK
<1>1. WalInv => TypeOK
  BY DEF WalInv
<1> QED BY <1>1, WalInvariant, PTL

(* Without failing writes, power failures alone cost acknowledged records: *)
(* truncate_and_seal() does prevent appending past a torn tail             *)
(* (recovery.hpp:20-21).                                                   *)
THEOREM LogReadable == ASSUME WalAssumption, ~DiskFaults PROVE Spec => []AckedReadable
<1>1. WalInv => AckedReadable
  BY PlacedIsReadable DEF WalInv, CleanTail, AckedSurvive, AckedReadable
<1> QED BY <1>1, WalInvariant, PTL
=============================================================================

-------------------------------- MODULE Wal --------------------------------
(***************************************************************************)
(* The write-ahead log over the crashes and restarts of the process:       *)
(* WALWriter and WALReader (src/src/storage/wal.cpp), as DB::open drives   *)
(* them (src/src/db/db.cpp:56-83).                                         *)
(*                                                                         *)
(* A record is a number, counted in the order of the calls of append(),    *)
(* and positions and sizes are counted in records, all of which have the   *)
(* same size.  A segment is the whole records a reader finds in it, and    *)
(* whether anything else follows them: an incomplete record has no valid   *)
(* checksum, whatever is written after it, so the reader stops there.      *)
(***************************************************************************)
EXTENDS Integers, Sequences

CONSTANTS
    SegmentSize,    \* max_segment_bytes_
    DiskFaults,     \* writes may fail, or write a part
    Nowhere         \* the place of a record that was not acknowledged

\* Bounds of the instance, in guards only.
CONSTANTS
    MaxRecords,     \* records append() may be asked to write
    MaxSegments     \* segments that may be opened

ASSUME WalAssumption ==
    /\ SegmentSize \in Nat \ {0}
    /\ DiskFaults \in BOOLEAN
    /\ MaxRecords \in Nat
    /\ MaxSegments \in Nat

VARIABLES
    \* disk
    segs,       \* the segments, by number
    \* the process
    pc,         \* how far DB::open has come; "down" when there is no process,
                \* "off" when there is no power
    torn,       \* out_torn_detected of the last read_all()
    cleanEnd,   \* out_clean_end_offset of the last read_all()
    segment,    \* segment_id_
    offset,     \* current_offset_
    fd,         \* fd_ is open
    \* specification only
    next,       \* the next record
    place,      \* the WALAppendResult of each record
    lost,       \* records that a power failure took
    behind      \* records written behind a tear

vars == <<segs, pc, torn, cleanEnd, segment, offset, fd, next, place, lost, behind>>
writerVars == <<torn, cleanEnd, segment, offset, fd>>

Records  == 1 .. MaxRecords
Place    == [segment : Nat, offset : Nat]
\* durable counts the whole records that a power failure leaves.
Segment  == [whole : Seq(Records), tear : BOOLEAN, durable : Nat]
NewFile  == [whole |-> <<>>, tear |-> FALSE, durable |-> 0]

Acked == {r \in Records : place[r] # Nowhere}

(* What read_all() returns; in the order of segments and positions.        *)
Readable(files) ==
    {r \in Records : \E s \in DOMAIN files :
        \E i \in 1 .. Len(files[s].whole) : files[s].whole[i] = r}

Init ==
    /\ segs = [s \in {} |-> NewFile]
    /\ pc = "down"
    /\ torn = FALSE /\ cleanEnd = 0 /\ segment = 0 /\ offset = 0 /\ fd = FALSE
    /\ next = 1
    /\ place = [r \in Records |-> Nowhere]
    /\ lost = {} /\ behind = {}

Last(files) == CHOOSE s \in DOMAIN files : \A t \in DOMAIN files : t <= s

(* open_segment(): the file is created, or opened at its end.              *)
WithFile(files, s) ==
    [t \in DOMAIN files \cup {s} |-> IF t \in DOMAIN files THEN files[t] ELSE NewFile]

-----------------------------------------------------------------------------
(* DB::open. *)

(* The process ends, and its variables with it.                            *)
Ended(state) ==
    /\ pc' = state
    /\ torn' = FALSE /\ cleanEnd' = 0 /\ segment' = 0 /\ offset' = 0 /\ fd' = FALSE

(* Mutant: the clean end of the first segment instead of the last. *)
ReadAllFirstEnd ==
    /\ pc = "down"
    /\ pc' = "recovered"
    /\ torn' = \E s \in DOMAIN segs : segs[s].tear
    /\ cleanEnd' = IF DOMAIN segs = {} THEN 0
                   ELSE Len(segs[CHOOSE s \in DOMAIN segs : \A t \in DOMAIN segs : s <= t].whole)
    /\ UNCHANGED <<segs, segment, offset, fd, next, place, lost, behind>>

(* read_all(): a tear anywhere counts; the clean end is that of the last   *)
(* segment read.                                                           *)
ReadAll ==
    /\ pc = "down"
    /\ pc' = "recovered"
    /\ torn' = \E s \in DOMAIN segs : segs[s].tear
    /\ cleanEnd' = IF DOMAIN segs = {} THEN 0 ELSE Len(segs[Last(segs)].whole)
    /\ UNCHANGED <<segs, segment, offset, fd, next, place, lost, behind>>

(* The end of DB::open, and of its variables.                              *)
Opened == pc' = "writing" /\ torn' = FALSE /\ cleanEnd' = 0

(* Mutant: the writer goes back to the first segment. *)
OpenWriterFirst ==
    /\ pc = "recovered"
    /\ segment' = 1
    /\ segs' = WithFile(segs, 1)
    /\ offset' = Len(segs'[1].whole)
    /\ fd' = TRUE
    /\ IF torn THEN pc' = "truncate" /\ UNCHANGED <<torn, cleanEnd>> ELSE Opened
    /\ UNCHANGED <<next, place, lost, behind>>

(* The constructor of WALWriter: the segment with the highest number.      *)
OpenWriter ==
    /\ pc = "recovered"
    /\ segment' = IF DOMAIN segs = {} THEN 1 ELSE Last(segs)
    /\ segs' = WithFile(segs, segment')
    /\ offset' = Len(segs'[segment'].whole)
    /\ fd' = TRUE
    /\ IF torn THEN pc' = "truncate" /\ UNCHANGED <<torn, cleanEnd>> ELSE Opened
    /\ UNCHANGED <<next, place, lost, behind>>

(* ftruncate() of truncate_and_seal(), when the file is longer than the    *)
(* clean end.                                                              *)
Truncate ==
    /\ pc = "truncate"
    /\ pc' = "seal"
    /\ IF cleanEnd < offset \/ (segs[segment].tear /\ cleanEnd = offset)
       THEN segs' = [segs EXCEPT ![segment] =
                       [whole |-> SubSeq(segs[segment].whole, 1, cleanEnd),
                        tear |-> FALSE,
                        durable |-> IF segs[segment].durable < cleanEnd
                                    THEN segs[segment].durable ELSE cleanEnd]]
       ELSE UNCHANGED segs
    /\ UNCHANGED <<writerVars, next, place, lost, behind>>

(* rotate(), applied to the files an append or a truncation has left.      *)
Rotate(files) ==
    /\ segment < MaxSegments
    /\ segment' = segment + 1
    /\ segs' = WithFile(files, segment + 1)
    /\ offset' = 0
    /\ fd' = TRUE

Seal ==
    /\ pc = "seal"
    /\ Opened
    /\ Rotate(segs)
    /\ UNCHANGED <<next, place, lost, behind>>

-----------------------------------------------------------------------------
(* WALWriter::append, and close(). *)

Writing == pc = "writing" /\ fd /\ next <= MaxRecords

(* The files after the whole record is written.  Behind a tear no reader   *)
(* will find it.                                                           *)
WithRecord ==
    IF segs[segment].tear THEN segs
    ELSE [segs EXCEPT ![segment].whole = Append(@, next)]

\* Those of them that no reader will find.
BehindTear == IF segs[segment].tear THEN behind \cup {next} ELSE behind

WithTear == [segs EXCEPT ![segment].tear = TRUE]

(* Mutant: the position is reported as it is after the rotation. *)
AppendReportingAfter ==
    /\ Writing
    /\ IF offset + 1 >= SegmentSize
       THEN Rotate(WithRecord)
       ELSE segs' = WithRecord /\ offset' = offset + 1 /\ UNCHANGED <<segment, fd>>
    /\ place' = [place EXCEPT ![next] = [segment |-> segment', offset |-> offset]]
    /\ next' = next + 1
    /\ behind' = BehindTear
    /\ UNCHANGED <<pc, torn, cleanEnd, lost>>

(* The write, the rotation of a full segment, and the position of the      *)
(* record, all under mu_.                                                  *)
AppendRecord ==
    /\ Writing
    /\ place' = [place EXCEPT ![next] = [segment |-> segment, offset |-> offset]]
    /\ next' = next + 1
    /\ IF offset + 1 >= SegmentSize
       THEN Rotate(WithRecord)
       ELSE segs' = WithRecord /\ offset' = offset + 1 /\ UNCHANGED <<segment, fd>>
    /\ behind' = BehindTear
    /\ UNCHANGED <<pc, torn, cleanEnd, lost>>

(* The call throws: a part was written and current_offset_ not advanced.   *)
(* (When nothing was written nothing has changed.)                         *)
ShortWrite ==
    /\ DiskFaults
    /\ Writing
    /\ segs' = WithTear
    /\ UNCHANGED <<pc, writerVars, next, place, lost, behind>>

(* Mutant: the descriptor is taken for open when open() failed. *)
RotateFailsUnnoticed ==
    /\ DiskFaults
    /\ Writing
    /\ offset + 1 >= SegmentSize
    /\ segs' = WithRecord
    /\ segment' = segment + 1
    /\ offset' = 0
    /\ UNCHANGED fd
    /\ next' = next + 1
    /\ behind' = BehindTear
    /\ UNCHANGED <<pc, torn, cleanEnd, place, lost>>

(* The call throws after the record was written: the next segment cannot   *)
(* be opened, and no later call can write.                                 *)
RotateFails ==
    /\ DiskFaults
    /\ Writing
    /\ offset + 1 >= SegmentSize
    /\ segs' = WithRecord
    /\ segment' = segment + 1
    /\ offset' = 0
    /\ fd' = FALSE
    /\ next' = next + 1
    /\ behind' = BehindTear
    /\ UNCHANGED <<pc, torn, cleanEnd, place, lost>>

(* close() syncs the open segment; rotate() has synced none before it.     *)
Close ==
    /\ pc = "writing"
    /\ Ended("down")
    /\ segs' = IF fd THEN [segs EXCEPT ![segment].durable = Len(segs[segment].whole)]
               ELSE segs
    /\ UNCHANGED <<next, place, lost, behind>>

-----------------------------------------------------------------------------
(* Crashes. *)

Up == pc \notin {"down", "off"}

(* The process is killed: what was written is with the operating system.   *)
Crash ==
    /\ Up
    /\ Ended("down")
    /\ UNCHANGED <<segs, next, place, lost, behind>>

(* It is killed in append(): the record is there in part, or wholly and    *)
(* the segment not rotated.                                                *)
CrashInAppend ==
    /\ Writing
    /\ Ended("down")
    /\ segs' \in {WithRecord, WithTear}
    /\ next' = next + 1
    /\ behind' = BehindTear
    /\ UNCHANGED <<place, lost>>

(* The machine fails.  Of each segment, a part that was not synced may be  *)
(* gone when it is back, a part of a record being left perhaps, and a      *)
(* segment of which nothing was synced may be gone altogether.             *)
PowerFailure ==
    /\ pc # "off"
    /\ Ended("off")
    /\ UNCHANGED <<segs, next, place, lost, behind>>

TakeFrom(files) ==
    /\ segs' = files
    /\ lost' = lost \cup (Readable(segs) \ Readable(files))
    /\ UNCHANGED <<pc, writerVars, next, place, behind>>

LoseTail(s, n, part) ==
    /\ pc = "off"
    /\ n \in segs[s].durable .. Len(segs[s].whole) - 1
    /\ TakeFrom([segs EXCEPT ![s] =
                   [whole |-> SubSeq(segs[s].whole, 1, n), tear |-> part, durable |-> segs[s].durable]])

LoseFile(s) ==
    /\ pc = "off"
    /\ segs[s].durable = 0
    /\ TakeFrom([t \in DOMAIN segs \ {s} |-> segs[t]])

PowerBack ==
    /\ pc = "off"
    /\ pc' = "down"
    /\ segs' = [s \in DOMAIN segs |-> [segs[s] EXCEPT !.durable = Len(segs[s].whole)]]
    /\ UNCHANGED <<writerVars, next, place, lost, behind>>

-----------------------------------------------------------------------------
Next ==
    \/ ReadAll \/ OpenWriter \/ Truncate \/ Seal
    \/ AppendRecord \/ ShortWrite \/ RotateFails \/ Close
    \/ Crash \/ CrashInAppend
    \/ PowerFailure \/ PowerBack
    \/ \E s \in DOMAIN segs : \/ LoseFile(s)
                              \/ \E n \in 0 .. MaxRecords, part \in BOOLEAN : LoseTail(s, n, part)

Spec == Init /\ [][Next]_vars

-----------------------------------------------------------------------------
(* Properties.                                                             *)

States == {"down", "off", "recovered", "truncate", "seal", "writing"}

(* Every variable has its type, and an open descriptor is that of a file.  *)
TypeOK ==
    /\ DOMAIN segs \subseteq Nat \ {0} /\ segs \in [DOMAIN segs -> Segment]
    /\ pc \in States
    /\ torn \in BOOLEAN
    /\ cleanEnd \in Nat
    /\ segment \in Nat
    /\ offset \in Nat
    /\ fd \in BOOLEAN
    /\ fd => segment \in DOMAIN segs
    /\ next \in 1 .. MaxRecords + 1
    /\ place \in [Records -> Place \cup {Nowhere}]
    /\ lost \subseteq Records
    /\ behind \subseteq Records

(* An acknowledged record is found by the next read_all(), unless the      *)
(* machine failed before it was synced or it was appended behind the       *)
(* remains of a failed write: no crash, torn tail, truncation, rotation or *)
(* sequence of restarts costs another one (wal.cpp:83-135, db.cpp:66-79).  *)
AckedSurvive == Acked \subseteq Readable(segs) \cup lost \cup behind

(* "prevent appending past the corrupt tail" (recovery.hpp:21, also        *)
(* wal.hpp:45 and db.cpp:75): whatever is acknowledged while the machine   *)
(* runs is read back.                                                      *)
AckedReadable == Acked \subseteq Readable(segs) \cup lost

(* read_all() returns records in the order in which they were appended, so *)
(* that replay leaves the newest under each key and db.cpp:71 takes the    *)
(* newest for the last (wal.cpp:60-63, 167-176).                           *)
Ordered ==
    \A s, t \in DOMAIN segs :
        \A i \in 1 .. Len(segs[s].whole), j \in 1 .. Len(segs[t].whole) :
            s < t \/ (s = t /\ i < j) => segs[s].whole[i] < segs[t].whole[j]

(* The segment and offset that append() returned are where the record is,  *)
(* for as long as it is there, over rotations and restarts                 *)
(* (wal.cpp:120-134).                                                      *)
PlacedAsReported ==
    \A r \in Acked \ (lost \cup behind) :
        LET p == place[r]
        IN  /\ p.segment \in DOMAIN segs
            /\ p.offset < Len(segs[p.segment].whole)
            /\ segs[p.segment].whole[p.offset + 1] = r
=============================================================================

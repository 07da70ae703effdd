---------------------------- MODULE SymbolTable ----------------------------
(***************************************************************************)
(* The names of symbols and their ids: intern(), which appends an entry to *)
(* the file, flush(), with which close() writes the file anew, and load()  *)
(* when the database is opened again, after close() or after the process   *)
(* died.  Source: src/src/util/symbol_table.cpp.                           *)
(*                                                                         *)
(* Records on disk hold ids alone: `used' is what ids the records of a     *)
(* name were written with.  A call keeps mu_ throughout, so that only the  *)
(* file's states in between can be seen, by the next process.              *)
(***************************************************************************)
EXTENDS Integers, Sequences, FiniteSets, SequencesExt

CONSTANTS
    Names,      \* names of symbols
    Overlong,   \* those of 65536 bytes or more, whose length the file cannot hold
    Torn,       \* an entry of the file that does not say how long its name is
    DiskFaults  \* the disk may be full, the file may not open

\* Bounds of the instance, in guards only.
CONSTANTS
    MaxId,      \* ids handed out
    MaxOpens    \* times the table is opened again

ASSUME SymbolTableAssumption ==
    /\ Overlong \subseteq Names
    /\ Torn \notin Names \X Nat
    /\ DiskFaults \in BOOLEAN
    /\ MaxId \in Nat
    /\ MaxOpens \in Nat

VARIABLES
    ids,        \* name_to_id_, 0 for a name it does not have
    nextId,     \* next_id_
    file,       \* the entries of the file
    phase,      \* "open", "flushing" while close() rewrites the file, "closed"
    todo,       \* the entries flush() has still to write
    \* specification only
    used,       \* names and ids of the records on disk
    failed,     \* the file may lack, or misspell, a name of the table
    lost,       \* the table was once loaded without a name it had
    opens       \* times it was opened again

vars == <<ids, nextId, file, phase, todo, used, failed, lost, opens>>

Init ==
    /\ ids = [n \in Names |-> 0] /\ nextId = 1
    /\ file = <<>> /\ phase = "open" /\ todo = {}
    /\ used = {} /\ failed = FALSE /\ lost = FALSE /\ opens = 0

Entries == {<<n, ids[n]>> : n \in {m \in Names : ids[m] # 0}}

(* The length is cast to uint16_t and the whole name written after it: the *)
(* rest of a longer name will be read as entries, whatever they say.       *)
Written(n, id) == IF n \in Overlong THEN Torn ELSE <<n, id>>

Enter(n) ==
    /\ phase = "open" /\ ids[n] = 0 /\ nextId <= MaxId
    /\ ids' = [ids EXCEPT ![n] = nextId]
    /\ nextId' = nextId + 1
    /\ UNCHANGED <<phase, todo, lost, opens>>

(* intern() of a new name, and the record it is for. *)
Intern(n) ==
    /\ Enter(n)
    /\ file' = Append(file, Written(n, nextId))
    /\ used' = used \cup {<<n, nextId>>}
    /\ failed' = (failed \/ n \in Overlong)

(* What write() and the destructor of the stream fail to do is not looked  *)
(* at: intern() returns, with its entry missing or torn.                   *)
InternUnwritten(n) ==
    /\ DiskFaults
    /\ Enter(n)
    /\ file' \in {file, Append(file, Torn)}
    /\ used' = used \cup {<<n, nextId>>}
    /\ failed' = TRUE

(* The file does not open: intern() throws, with the name entered. *)
InternThrows(n) ==
    /\ DiskFaults
    /\ Enter(n)
    /\ failed' = TRUE
    /\ UNCHANGED <<file, used>>

(* intern() of a name it has. *)
InternKnown(n) ==
    /\ phase = "open" /\ ids[n] # 0
    /\ used' = used \cup {<<n, ids[n]>>}
    /\ UNCHANGED <<ids, nextId, file, phase, todo, failed, lost, opens>>

(* flush(): the file is emptied, and the entries go into it in any order. *)
Flush ==
    /\ phase = "open"
    /\ phase' = "flushing"
    /\ file' = <<>>
    /\ todo' = Entries
    /\ UNCHANGED <<ids, nextId, used, failed, lost, opens>>

FlushEntry(e) ==
    /\ phase = "flushing" /\ e \in todo
    /\ file' = Append(file, Written(e[1], e[2]))
    /\ todo' = todo \ {e}
    /\ UNCHANGED <<ids, nextId, phase, used, failed, lost, opens>>

FlushDone ==
    /\ phase = "flushing" /\ todo = {}
    /\ phase' = "closed"
    /\ failed' = (\E n \in Overlong : ids[n] # 0)
    /\ UNCHANGED <<ids, nextId, file, todo, used, lost, opens>>

(* Nothing looks whether the entries were written. *)
FlushUnwritten ==
    /\ DiskFaults
    /\ phase = "flushing" /\ todo # {}
    /\ phase' = "closed"
    /\ file' \in {file, Append(file, Torn)}
    /\ todo' = {}
    /\ failed' = TRUE
    /\ UNCHANGED <<ids, nextId, used, lost, opens>>

(* Mutant: next_id_ stays where the constructor put it. *)
NextIdAfterFirst(s) == 1

(* What load() makes of entries it can read: a name has the id of the last *)
(* entry for it, and the next id is above every one of them.               *)
NextIdAfter(s) ==
    LET above == {i \in 1 .. MaxId + 1 : \A k \in DOMAIN s : s[k][2] < i}
    IN  CHOOSE i \in above : \A j \in above : i <= j

IdIn(s, n) ==
    LET at == {k \in DOMAIN s : s[k][1] = n}
    IN  IF at = {} THEN 0 ELSE s[CHOOSE k \in at : \A l \in at : l <= k][2]

(* The table is opened again, wherever the process was: its constructor    *)
(* loads what `s' holds.  What follows a torn entry is taken for the rest  *)
(* of its name, and for others, which may give any name any id.            *)
Open(s) ==
    /\ opens < MaxOpens
    /\ opens' = opens + 1
    /\ IF Torn \in Range(s)
       THEN ids' \in [Names -> 0 .. MaxId] /\ nextId' \in 1 .. MaxId + 1
       ELSE ids' = [n \in Names |-> IdIn(s, n)] /\ nextId' = NextIdAfter(s)
    /\ phase' = "open" /\ todo' = {}
    /\ failed' = (Torn \in Range(file))
    /\ UNCHANGED <<file, used>>

Load ==
    /\ Open(file)
    /\ lost' = (lost \/ failed \/ phase = "flushing")

(* The file does not open, or a read of it fails: load() returns with the  *)
(* entries it has.                                                         *)
LoadPart(k) ==
    /\ DiskFaults
    /\ k < Len(file) /\ Open(SubSeq(file, 1, k))
    /\ lost' = TRUE

Next ==
    \/ \E n \in Names : Intern(n) \/ InternUnwritten(n) \/ InternThrows(n) \/ InternKnown(n)
    \/ Flush \/ (\E e \in todo : FlushEntry(e)) \/ FlushDone \/ FlushUnwritten
    \/ Load \/ (\E k \in 0 .. Len(file) : LoadPart(k))

Spec == Init /\ [][Next]_vars

-----------------------------------------------------------------------------
(* The records of a name keep their id, and no two names share one, over   *)
(* any number of restarts, unless a table was once loaded without a name   *)
(* it had: because the process died in flush(), because an entry was not   *)
(* written or not read and nothing looked, or because a name of 65536      *)
(* bytes or more was interned, whose entry, and those behind it, load()    *)
(* does not find again.  Such a table may give the id to another name.  An *)
(* entry that was not written is made good by the next close(), one of an  *)
(* overlong name is not (symbol_table.cpp:24-27, 68, 71-72, 77, 93,        *)
(* 104-117).                                                               *)
NamesKept ==
    ~lost => /\ \A u, v \in used : u[2] = v[2] => u[1] = v[1]
             /\ \A u \in used : ids[u[1]] = u[2]
=============================================================================

------------------------------ MODULE SkipList ------------------------------
(***************************************************************************)
(* The skip list of a memtable (include/kronosdb/storage/skiplist.hpp)     *)
(* under MemTable::insert, which its write_mu_ serializes, and             *)
(* MemTable::scan and to_sorted_events, which take no lock.                *)
(*                                                                         *)
(* One action is one load or store of an atomic that another thread may    *)
(* see.  The head is 0, a node is its key, and the null pointer is         *)
(* MaxKey + 1, so that the test nx != nullptr && nx->key < target is       *)
(* nx < target.  Links and values are stored with release and loaded with  *)
(* acquire order; max_height_ is relaxed, and a reader may load any of the *)
(* values it has had.                                                      *)
(***************************************************************************)
EXTENDS Naturals, Sequences

CONSTANTS
    MaxKey,     \* keys are 1 .. MaxKey, in the order of KeyCmp
    MaxHeight,  \* kMaxHeight
    MaxVersion, \* bound: insertions under one key
    Readers     \* threads that scan

ASSUME SizesAssumption ==
    /\ MaxKey \in Nat \ {0}
    /\ MaxHeight \in Nat \ {0}
    /\ MaxVersion \in Nat

VARIABLES
    \* the list
    next,       \* next_[level] of the head and of every node
    height,     \* the length of a node's next_ array, 0 for no node
    value,      \* val_ptr, as the number of the insertion under this key
    maxHeight,  \* max_height_
    count,      \* count_
    \* insert()
    wpc,        \* where the writer is
    wkey,       \* the key it inserts
    wx, wlvl,   \* x and lvl of find_prev; wlvl is then i of the loop that links
    prev,       \* prev[]
    wheight,    \* h
    \* scans
    rpc,        \* where each reader is
    range,      \* the first and last key it asks for
    rx, rlvl,   \* x and lvl of find_first_ge, then node_ of the iterator
    got,        \* the keys and values its callback has had
    \* specification only
    before      \* the values the list held when the scan began, 0 for none

listVars   == <<next, height, value, maxHeight, count>>
writerVars == <<wpc, wkey, wx, wlvl, prev, wheight>>
readerVars == <<rpc, range, rx, rlvl, got, before>>
vars == <<listVars, writerVars, readerVars>>

HeadNode   == 0
Keys   == 1 .. MaxKey
Null   == MaxKey + 1
Levels == 1 .. MaxHeight
Nodes  == 0 .. MaxKey
Links  == [Levels -> 1 .. Null]
Values == [Keys -> Nat]

Init ==
    /\ next = [x \in Nodes |-> [l \in Levels |-> Null]]
    /\ height = [x \in Nodes |-> IF x = HeadNode THEN MaxHeight ELSE 0]
    /\ value = [k \in Keys |-> 0]
    /\ maxHeight = 1
    /\ count = 0
    /\ wpc = "idle" /\ wkey = 0 /\ wx = HeadNode /\ wlvl = 1
    /\ prev = [l \in Levels |-> HeadNode] /\ wheight = 1
    /\ rpc = [r \in Readers |-> "idle"]
    /\ range = [r \in Readers |-> <<1, MaxKey>>]
    /\ rx = [r \in Readers |-> HeadNode]
    /\ rlvl = [r \in Readers |-> 1]
    /\ got = [r \in Readers |-> <<>>]
    /\ before = [r \in Readers |-> [k \in Keys |-> 0]]

-----------------------------------------------------------------------------
(* Mutant: the height is not made an index. *)
TopLevelAbove == maxHeight + 1

(* Where find_prev and find_first_ge start; levels count from 1 here.      *)
TopLevel == maxHeight

(* Mutant: lvl is not decremented. *)
LowerStuck(l) == l

Lower(l) == l - 1

(* insert(), by the thread that holds write_mu_. *)

InsertBegin(k) ==
    /\ wpc = "idle"
    /\ value[k] < MaxVersion
    /\ wpc' = "find" /\ wkey' = k /\ wx' = HeadNode /\ wlvl' = TopLevel
    /\ UNCHANGED <<listVars, prev, wheight, readerVars>>

(* One turn of the loop of find_prev. *)
FindPrev ==
    /\ wpc = "find"
    /\ IF next[wx][wlvl] < wkey
       THEN wx' = next[wx][wlvl] /\ UNCHANGED <<wpc, wlvl, prev>>
       ELSE /\ prev' = [prev EXCEPT ![wlvl] = wx]
            /\ IF wlvl = 1 THEN wpc' = "place" /\ UNCHANGED wlvl
                           ELSE wlvl' = Lower(wlvl) /\ UNCHANGED wpc
            /\ UNCHANGED wx
    /\ UNCHANGED <<listVars, wkey, wheight, readerVars>>

InsertReturn ==
    /\ wpc' = "idle" /\ wkey' = 0 /\ wx' = HeadNode /\ wlvl' = 1
    /\ prev' = [l \in Levels |-> HeadNode] /\ wheight' = 1

(* The key is there: its value pointer is swapped. *)
ReplaceValue ==
    /\ wpc = "place"
    /\ next[wx][1] = wkey
    /\ value' = [value EXCEPT ![wkey] = @ + 1]
    /\ InsertReturn
    /\ UNCHANGED <<next, height, maxHeight, count, readerVars>>

(* Mutant: the predecessor found at the lowest level serves for the new ones. *)
PrevFound(h) == [l \in Levels |-> IF maxHeight < l /\ l <= h THEN wx ELSE prev[l]]

(* The predecessors at the levels the list has not had so far. *)
PrevUpTo(h) == [l \in Levels |-> IF maxHeight < l /\ l <= h THEN HeadNode ELSE prev[l]]

(* Mutant: the array of the node is one level short. *)
NodeOneShort(h) == [height EXCEPT ![wkey] = h - 1]

(* The array new_node allocates. *)
NodeOfHeight(h) == [height EXCEPT ![wkey] = h]

(* random_height() may be anything; the node is complete but for its links. *)
NewNode(h) ==
    /\ wpc = "place"
    /\ next[wx][1] # wkey
    /\ prev' = PrevUpTo(h)
    /\ maxHeight' = IF h > maxHeight THEN h ELSE maxHeight
    /\ height' = NodeOfHeight(h)
    /\ value' = [value EXCEPT ![wkey] = 1]
    /\ wpc' = "set" /\ wlvl' = 1 /\ wheight' = h
    /\ UNCHANGED <<next, count, wkey, wx, readerVars>>

(* Mutant: n->next is left as it is. *)
SuccessorUnset == next[wkey][wlvl]

Successor == next[prev[wlvl]][wlvl]

(* "Write n->next before linking n in" *)
SetNext ==
    /\ wpc = "set"
    /\ next' = [next EXCEPT ![wkey][wlvl] = Successor]
    /\ wpc' = "link"
    /\ UNCHANGED <<height, value, maxHeight, count, wkey, wx, wlvl, prev, wheight, readerVars>>

Link ==
    /\ wpc = "link"
    /\ next' = [next EXCEPT ![prev[wlvl]][wlvl] = wkey]
    /\ IF wlvl = wheight THEN wpc' = "count" /\ UNCHANGED wlvl
                         ELSE wpc' = "set" /\ wlvl' = wlvl + 1
    /\ UNCHANGED <<height, value, maxHeight, count, wkey, wx, prev, wheight, readerVars>>

Count ==
    /\ wpc = "count"
    /\ count' = count + 1
    /\ InsertReturn
    /\ UNCHANGED <<next, height, value, maxHeight, readerVars>>

-----------------------------------------------------------------------------
(* scan() and to_sorted_events(). *)

(* The keys linked at level l: a new node is in at the levels done with.   *)
In(l) == {k \in Keys : /\ l <= height[k]
                       /\ wpc \in {"set", "link"} /\ k = wkey => l < wlvl}

Held == [k \in Keys |-> IF k \in In(1) THEN value[k] ELSE 0]

ReaderStep(r, from, to) ==
    /\ rpc[r] = from
    /\ rpc' = [rpc EXCEPT ![r] = to]
    /\ UNCHANGED <<listVars, writerVars>>

(* Iterator::seek: max_height_ may be any value it has had. *)
ScanBegin(r, first, last) ==
    /\ ReaderStep(r, "idle", "seek")
    /\ range' = [range EXCEPT ![r] = <<first, last>>]
    /\ \E l \in 1 .. TopLevel : rlvl' = [rlvl EXCEPT ![r] = l]
    /\ UNCHANGED <<rx, got>>
    /\ before' = [before EXCEPT ![r] = Held]

(* One turn of the loop of find_first_ge. *)
Seek(r) ==
    LET nx == next[rx[r]][rlvl[r]]
    IN  /\ rpc[r] = "seek"
        /\ IF nx < range[r][1]
           THEN ReaderStep(r, "seek", "seek") /\ rx' = [rx EXCEPT ![r] = nx] /\ UNCHANGED rlvl
           ELSE IF rlvl[r] = 1
           THEN ReaderStep(r, "seek", "at") /\ rx' = [rx EXCEPT ![r] = nx] /\ UNCHANGED rlvl
           ELSE ReaderStep(r, "seek", "seek") /\ rlvl' = [rlvl EXCEPT ![r] = Lower(@)] /\ UNCHANGED rx
        /\ UNCHANGED <<range, got, before>>

(* The key is not behind the range: the callback has the event. *)
Deliver(r) ==
    /\ rx[r] <= range[r][2]
    /\ ReaderStep(r, "at", "next")
    /\ got' = [got EXCEPT ![r] = Append(@, <<rx[r], value[rx[r]]>>)]
    /\ UNCHANGED <<range, rx, rlvl, before>>

Advance(r) ==
    /\ ReaderStep(r, "next", "at")
    /\ rx' = [rx EXCEPT ![r] = next[rx[r]][1]]
    /\ UNCHANGED <<range, rlvl, got, before>>

(* The end of the list, a key behind the range, or a callback that has     *)
(* enough: MemTable::scan returns.                                         *)
ScanEnd(r) ==
    /\ \/ rx[r] > range[r][2] /\ ReaderStep(r, "at", "idle")
       \/ ReaderStep(r, "next", "idle")
    /\ range' = [range EXCEPT ![r] = <<1, MaxKey>>]
    /\ rx' = [rx EXCEPT ![r] = HeadNode]
    /\ rlvl' = [rlvl EXCEPT ![r] = 1]
    /\ got' = [got EXCEPT ![r] = <<>>]
    /\ before' = [before EXCEPT ![r] = [k \in Keys |-> 0]]

-----------------------------------------------------------------------------
Insertion == FindPrev \/ ReplaceValue \/ (\E h \in Levels : NewNode(h)) \/ SetNext \/ Link \/ Count

Scan(r) == Seek(r) \/ Deliver(r) \/ Advance(r) \/ ScanEnd(r)

Next ==
    \/ \E k \in Keys : InsertBegin(k)
    \/ Insertion
    \/ \E r \in Readers : Scan(r) \/ \E first, last \in Keys : ScanBegin(r, first, last)

Spec == Init /\ [][Next]_vars

(* A thread that has begun an insertion or a scan goes on with it.         *)
FairSpec == Spec /\ WF_vars(Insertion) /\ \A r \in Readers : WF_vars(Scan(r))

-----------------------------------------------------------------------------
(* Properties.                                                             *)

TypeOK ==
    /\ next \in [Nodes -> Links]
    /\ height \in [Nodes -> 0 .. MaxHeight]
    /\ value \in Values
    /\ maxHeight \in Levels
    /\ count \in Nat
    /\ wpc \in {"idle", "find", "place", "set", "link", "count"}
    /\ wkey \in 0 .. MaxKey /\ (wpc # "idle" => wkey \in Keys)
    /\ wx \in Nodes
    /\ wlvl \in Levels
    /\ prev \in [Levels -> Nodes]
    /\ wheight \in Levels
    /\ rpc \in [Readers -> {"idle", "seek", "at", "next"}]
    /\ range \in [Readers -> Keys \X Keys]
    /\ rx \in [Readers -> 0 .. Null]
    /\ rlvl \in [Readers -> Levels]
    /\ got \in [Readers -> Seq(Keys \X Nat)]
    /\ before \in [Readers -> Values]

(* At every level, and at every step of an insertion, the links run        *)
(* through exactly the keys linked at that level, in order: a link leads   *)
(* to the next of them (skiplist.hpp:185-189).                             *)
LinksOrdered ==
    \A l \in Levels : \A x \in In(l) \cup {HeadNode} :
        /\ next[x][l] \in In(l) \cup {Null}
        /\ x < next[x][l]
        /\ \A k \in In(l) : k <= x \/ next[x][l] <= k

(* No thread loads a link beyond the array of the node it is at, although  *)
(* nodes differ in height and max_height_ runs ahead of the links          *)
(* (skiplist.hpp:88-98, 126-154).                                          *)
InsideNode ==
    /\ wpc = "find" => wlvl <= height[wx]
    /\ wpc = "set" => wlvl <= height[wkey] /\ wlvl <= height[prev[wlvl]]
    /\ \A r \in Readers :
          /\ rpc[r] = "seek" => rlvl[r] <= height[rx[r]]
          /\ rpc[r] = "next" => 1 <= height[rx[r]]

(* A scan beside an insertion delivers keys of its range in ascending      *)
(* order, none twice, and misses none that was linked when it began; each  *)
(* with a value no older than the one it had then ("either the old or the  *)
(* new value", skiplist.hpp:30-32; memtable.hpp:24).                       *)
ScanSound ==
    \A r \in Readers :
        /\ \A i \in 1 .. Len(got[r]) :
              /\ range[r][1] <= got[r][i][1] /\ got[r][i][1] <= range[r][2]
              /\ before[r][got[r][i][1]] <= got[r][i][2] /\ 0 < got[r][i][2]
              /\ got[r][i][2] <= value[got[r][i][1]]
              /\ \A j \in 1 .. i - 1 : got[r][j][1] < got[r][i][1]
        /\ rpc[r] = "at" => \A k \in Keys :
              before[r][k] # 0 /\ range[r][1] <= k /\ k < rx[r] =>
                  \E i \in 1 .. Len(got[r]) : got[r][i][1] = k

(* An insertion and a scan end, whatever the other does. *)
Returns ==
    /\ wpc # "idle" ~> wpc = "idle"
    /\ \A r \in Readers : rpc[r] # "idle" ~> rpc[r] = "idle"
=============================================================================

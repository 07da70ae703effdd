----------------------------- MODULE BlockCache -----------------------------
(***************************************************************************)
(* The cache of blocks that all queries of an instance share               *)
(* (BlockCache, src/src/util/block_cache.cpp): a list in the order of use  *)
(* and an index of it.  get() and put() run under mu_, so each is one      *)
(* step.                                                                   *)
(*                                                                         *)
(* What get() returns is a pointer into an entry of the list, used after   *)
(* mu_ is released, so entries have addresses here, and the address of a   *)
(* freed entry may be given to a new one.                                  *)
(***************************************************************************)
EXTENDS Integers, Sequences, SequencesExt, FiniteSetsExt

CONSTANTS
    Addresses,  \* where entries may be allocated
    MaxBytes    \* max_bytes_

ASSUME CacheAssumption == MaxBytes \in Nat

VARIABLES
    memory,     \* the entries, by address
    lru,        \* lru_: addresses, the entry used last in front
    index,      \* index_: the address of the entry with each key
    curBytes    \* cur_bytes_

cacheVars == <<memory, lru, index, curBytes>>

CacheInit ==
    /\ memory = <<>>
    /\ lru = <<>>
    /\ index = <<>>
    /\ curBytes = 0

Alive == ToSet(lru)

With(f, x, v)  == [y \in DOMAIN f \cup {x} |-> IF y = x THEN v ELSE f[y]]
Without(f, S) == [x \in DOMAIN f \ S |-> f[x]]

(* lru_.erase(): the entry at address a leaves the list.                   *)
Erase(list, a) == RemoveAt(list, CHOOSE i \in DOMAIN list : list[i] = a)

(* get() finds the key: the entry becomes the one used last.               *)
GetHit(key) ==
    /\ key \in DOMAIN index
    /\ lru' = <<index[key]>> \o Erase(lru, index[key])
    /\ UNCHANGED <<memory, index, curBytes>>

(* get() returns nullptr.                                                  *)
GetMiss(key) ==
    /\ key \notin DOMAIN index
    /\ UNCHANGED cacheVars

(* The calls of evict_lru() at the end of put(): given the list and        *)
(* cur_bytes_, how many entries stay, and cur_bytes_ with the first n.     *)
BytesWith(mem, list, bytes) ==
    LET with[n \in 0 .. Len(list)] ==
            IF n = Len(list) THEN bytes
            ELSE with[n + 1] - mem[list[n + 1]].size
    IN  with

Kept(mem, list, bytes) ==
    Max({0} \cup {n \in 1 .. Len(list) : BytesWith(mem, list, bytes)[n] <= MaxBytes})

(* Mutant: cur_bytes_ does not grow. *)
PutUncounted(key, data, size) ==
    LET had   == key \in DOMAIN index
        rest  == IF had THEN Erase(lru, index[key]) ELSE lru
        other == IF had THEN Without(memory, {index[key]}) ELSE memory
        freed == IF had THEN memory[index[key]].size ELSE 0
        bytes == curBytes - freed
    IN  \E a \in Addresses \ ToSet(rest) :
            LET mem  == With(other, a, [key |-> key, data |-> data, size |-> size])
                list == <<a>> \o rest
                kept == Kept(mem, list, bytes)
                gone == {list[n] : n \in kept + 1 .. Len(list)}
            IN  /\ lru' = SubSeq(list, 1, kept)
                /\ memory' = Without(mem, gone)
                /\ curBytes' = BytesWith(mem, list, bytes)[kept]
                /\ index' = Without(With(index, key, a), {mem[b].key : b \in gone})

(* Mutant: evict_lru() leaves the key in the index. *)
PutLeavingIndex(key, data, size) ==
    LET had   == key \in DOMAIN index
        rest  == IF had THEN Erase(lru, index[key]) ELSE lru
        other == IF had THEN Without(memory, {index[key]}) ELSE memory
        freed == IF had THEN memory[index[key]].size ELSE 0
        bytes == curBytes - freed + size
    IN  \E a \in Addresses \ ToSet(rest) :
            LET mem  == With(other, a, [key |-> key, data |-> data, size |-> size])
                list == <<a>> \o rest
                kept == Kept(mem, list, bytes)
                gone == {list[n] : n \in kept + 1 .. Len(list)}
            IN  /\ lru' = SubSeq(list, 1, kept)
                /\ memory' = Without(mem, gone)
                /\ curBytes' = BytesWith(mem, list, bytes)[kept]
                /\ index' = With(index, key, a)

(* Mutant: the new entry goes to the end of the list. *)
PutBehind(key, data, size) ==
    LET had   == key \in DOMAIN index
        rest  == IF had THEN Erase(lru, index[key]) ELSE lru
        other == IF had THEN Without(memory, {index[key]}) ELSE memory
        freed == IF had THEN memory[index[key]].size ELSE 0
        bytes == curBytes - freed + size
    IN  \E a \in Addresses \ ToSet(rest) :
            LET mem  == With(other, a, [key |-> key, data |-> data, size |-> size])
                list == Append(rest, a)
                kept == Kept(mem, list, bytes)
                gone == {list[n] : n \in kept + 1 .. Len(list)}
            IN  /\ lru' = SubSeq(list, 1, kept)
                /\ memory' = Without(mem, gone)
                /\ curBytes' = BytesWith(mem, list, bytes)[kept]
                /\ index' = Without(With(index, key, a), {mem[b].key : b \in gone})

(* put(): the entry that the key had is erased, and then the entries used  *)
(* longest ago while there are too many bytes.                             *)
Put(key, data, size) ==
    LET had   == key \in DOMAIN index
        rest  == IF had THEN Erase(lru, index[key]) ELSE lru
        other == IF had THEN Without(memory, {index[key]}) ELSE memory
        freed == IF had THEN memory[index[key]].size ELSE 0
        bytes == curBytes - freed + size
    IN  \E a \in Addresses \ ToSet(rest) :
            LET mem  == With(other, a, [key |-> key, data |-> data, size |-> size])
                list == <<a>> \o rest
                kept == Kept(mem, list, bytes)
                gone == {list[n] : n \in kept + 1 .. Len(list)}
            IN  /\ lru' = SubSeq(list, 1, kept)
                /\ memory' = Without(mem, gone)
                /\ curBytes' = BytesWith(mem, list, bytes)[kept]
                /\ index' = Without(With(index, key, a), {mem[b].key : b \in gone})

-----------------------------------------------------------------------------
(* How many bytes the first n entries of a list have.                      *)
BytesOf(mem, list) ==
    LET sum[n \in 0 .. Len(list)] ==
            IF n = 0 THEN 0 ELSE sum[n - 1] + mem[list[n]].size
    IN  sum

(* The index and the list agree: each has exactly the entries of the       *)
(* other, under their keys (put, evict_lru), and cur_bytes_ is what the    *)
(* list holds and never more than max_bytes_.  An entry that one of them   *)
(* forgets is memory the bound does not count, or an iterator to a freed   *)
(* entry (block_cache.cpp:29-48, 64-70).                                   *)
CacheSound ==
    /\ IsInjective(lru)
    /\ Alive = {index[k] : k \in DOMAIN index}
    /\ DOMAIN memory = Alive
    /\ \A k \in DOMAIN index : memory[index[k]].key = k
    /\ curBytes = BytesOf(memory, lru)[Len(lru)]
    /\ curBytes <= MaxBytes
=============================================================================

----------------------------- MODULE EventStore -----------------------------
(***************************************************************************)
(* What a KronosDB instance promises about its writes, with no memtable,   *)
(* no file and no thread in sight: a table from primary keys to the kind   *)
(* of the last record written under that key, changed atomically at some   *)
(* moment between the call and the return of append() or remove(), and by  *)
(* nothing else.                                                           *)
(*                                                                         *)
(* A key is <<symbol, sequence id>>.  The timestamp, the third component   *)
(* of the code's key, is chosen by the caller and plays no part here.      *)
(***************************************************************************)
EXTENDS Naturals

CONSTANTS
    Clients,    \* threads that call append() and remove()
    Keys,       \* primary keys, <<symbol, sequence id>>
    Kinds,      \* kinds of record: an event or a tombstone
    NoEvent     \* the record of a client that is not in a call

VARIABLES
    open,       \* close() has not been called
    issued,     \* sequence ids append() has given out
    store,      \* the kind of the last record written under each key
    phase,      \* how far each client's call has come
    op          \* the record each client is writing

vars == <<open, issued, store, phase, op>>

Event == [key : Keys, kind : Kinds]

TypeOK ==
    /\ open \in BOOLEAN
    /\ issued \subseteq {k[2] : k \in Keys}
    /\ store \in [Keys -> Kinds \cup {"none"}]
    /\ phase \in [Clients -> {"none", "begun", "applied"}]
    /\ op \in [Clients -> Event \cup {NoEvent}]

Init ==
    /\ open = TRUE
    /\ issued = {}
    /\ store = [k \in Keys |-> "none"]
    /\ phase = [c \in Clients |-> "none"]
    /\ op = [c \in Clients |-> NoEvent]

Begin(c, e) ==
    /\ open
    /\ phase[c] = "none"
    /\ phase' = [phase EXCEPT ![c] = "begun"]
    /\ op' = [op EXCEPT ![c] = e]
    /\ UNCHANGED <<open, store>>

(* An append is given a sequence id that no append was given before. *)
BeginAppend(c, k) ==
    /\ Begin(c, [key |-> k, kind |-> "event"])
    /\ k[2] \notin issued
    /\ issued' = issued \cup {k[2]}

(* A remove names its key itself, whether or not it was ever written. *)
BeginRemove(c, k) ==
    /\ Begin(c, [key |-> k, kind |-> "tombstone"])
    /\ UNCHANGED issued

Leave(c) ==
    /\ phase' = [phase EXCEPT ![c] = "none"]
    /\ op' = [op EXCEPT ![c] = NoEvent]

(* The write takes effect, and the call may return with it. *)
Apply(c) ==
    /\ phase[c] = "begun"
    /\ store' = [store EXCEPT ![op[c].key] = op[c].kind]
    /\ \/ Leave(c)
       \/ phase' = [phase EXCEPT ![c] = "applied"] /\ UNCHANGED op
    /\ UNCHANGED <<open, issued>>

Return(c) ==
    /\ phase[c] = "applied"
    /\ Leave(c)
    /\ UNCHANGED <<open, issued, store>>

(* The call throws without having written anything. *)
Fail(c) ==
    /\ phase[c] = "begun"
    /\ Leave(c)
    /\ UNCHANGED <<open, issued, store>>

(* close() refuses the calls that begin after it. *)
Close ==
    /\ open
    /\ open' = FALSE
    /\ UNCHANGED <<issued, store, phase, op>>

Next ==
    \/ \E c \in Clients, k \in Keys : BeginAppend(c, k) \/ BeginRemove(c, k)
    \/ \E c \in Clients : Apply(c) \/ Return(c) \/ Fail(c)
    \/ Close

Spec == Init /\ [][Next]_vars
=============================================================================

---------------------------- MODULE ServerProofs ----------------------------
(***************************************************************************)
(* Theorems about ServerLifecycle, for any number of handlers, requests    *)
(* and events.                                                             *)
(***************************************************************************)
EXTENDS ServerLifecycle, TLAPS

(* Every variable has its type. *)
TypeOK ==
    /\ main \in {"built", "bind", "listen", "drain", "returned", "destroy", "join",
                "close", "exited"}
    /\ listening \in BOOLEAN /\ signal \in {"none", "lost", "heard"}
    /\ hpc \in [Handlers -> {"idle", "start", "stop", "join", "db"}]
    /\ calls \in Nat /\ generated \in Nat
    /\ control \in Handlers \cup {Nobody}
    /\ running \in BOOLEAN /\ joinable \in BOOLEAN
    /\ expired \in BOOLEAN /\ unstarted \in BOOLEAN
    /\ worker \in {"none", "begin", "check", "append", "leave", "ended"}
    /\ config \in Configs
    /\ fault \in {"none", "unjoined", "prologue", "empty", "close"}

(* What makes the properties inductive: the mutex is held by the handler   *)
(* that joins, requests are answered before main() goes on, and a job that *)
(* is not marked running was told to stop or has ended by its duration.    *)
ServerInv ==
    /\ WorkerGuarded
    /\ \A h \in Handlers : hpc[h] = "join" <=> control = h
    /\ main \notin {"listen", "drain"} => \A h \in Handlers : hpc[h] = "idle"
    /\ joinable /\ ~running /\ Joining = {} /\ main # "join" => expired /\ worker = "ended"
    /\ worker = "leave" /\ running => expired
    /\ worker = "ended" /\ running /\ fault = "none" => unstarted
    /\ main = "join" => ~running
    /\ CloseIsQuiet
    /\ UnjoinedOnlyExpired

LEMMA InitServer == Init => TypeOK /\ ServerInv
<1> SUFFICES ASSUME Init PROVE TypeOK /\ ServerInv
  OBVIOUS
<1> USE LifecycleAssumption DEF Init
<1>1. TypeOK
  BY DEF TypeOK, Configs
<1>2. WorkerGuarded
  BY DEF WorkerGuarded, Joining
<1>3. CloseIsQuiet /\ UnjoinedOnlyExpired
  BY DEF CloseIsQuiet, UnjoinedOnlyExpired
<1> QED BY <1>1, <1>2, <1>3 DEF ServerInv, Joining

LEMMA NextType ==
    ASSUME TypeOK, [Next]_vars
    PROVE  TypeOK'
<1> USE DEF TypeOK, httpVars, jobVars, restVars, Goto, WorkerStep, MainStep
<1>1. ASSUME NEW h \in Handlers, NEW route \in {"start", "stop", "db"}, Accept(h, route)
      PROVE  TypeOK'
  BY <1>1 DEF Accept
<1>2. ASSUME NEW h \in Handlers, HandlerStep(h) PROVE TypeOK'
  <2>1. CASE Reply(h) \/ StartRefused(h)
    BY <2>1 DEF Reply, StartRefused
  <2>4. CASE Stop(h)
    BY <2>4 DEF Stop
  <2>2. ASSUME NEW c \in Configs, Start(h, c) PROVE TypeOK'
    <3>1. CASE joinable
      BY <2>2, <3>1 DEF Start
    <3>2. CASE ~joinable
      BY <2>2, <3>2 DEF Start
    <3> QED BY <3>1, <3>2
  <2>5. ASSUME NEW c \in Configs, StartFails(h, c) PROVE TypeOK'
    BY <2>5 DEF StartFails
  <2>3. CASE StopJoin(h)
    BY <2>3 DEF StopJoin
  <2> QED BY <1>2, <2>1, <2>2, <2>3, <2>4, <2>5 DEF HandlerStep
<1>3. CASE RunLoop
  <2>1. CASE Prologue \/ PrologueThrows \/ NextEvent \/ NoSymbol \/ Count
    BY <2>1 DEF Prologue, PrologueThrows, NextEvent, NoSymbol, Count
  <2>3. CASE End
    BY <2>3 DEF End
  <2>2. CASE Leave
    <3>1. expired' \in BOOLEAN
      BY <2>2 DEF Leave
    <3> QED BY <2>2, <3>1 DEF Leave
  <2> QED BY <1>3, <2>1, <2>2, <2>3 DEF RunLoop
<1>4. CASE MainNext
  <2>1. CASE Listen \/ Returned
    <3>1. listening' \in BOOLEAN
      BY <2>1 DEF Listen, Returned
    <3> QED BY <2>1, <3>1 DEF Listen, Returned
  <2>6. CASE Bind \/ Drained
    BY <2>6 DEF Bind, Drained
  <2>2. CASE Destroy
    <3>1. main' \in {main, "join", "close"} /\ fault' \in {fault, "unjoined"}
      <4>1. CASE joinable /\ running
        BY <2>2, <4>1 DEF Destroy
      <4>2. CASE joinable /\ ~running
        BY <2>2, <4>2 DEF Destroy
      <4>3. CASE ~joinable
        BY <2>2, <4>3 DEF Destroy
      <4> QED BY <4>1, <4>2, <4>3
    <3>2. /\ running' = FALSE /\ unstarted' = FALSE
          /\ UNCHANGED <<httpVars, hpc, control, joinable, worker, config, generated, expired>>
      BY <2>2 DEF Destroy
    <3> QED BY <3>1, <3>2
  <2>3. CASE DestroyJoin
    BY <2>3 DEF DestroyJoin
  <2>4. CASE CloseDB
    BY <2>4 DEF CloseDB
  <2>5. CASE CloseThrows
    BY <2>5 DEF CloseThrows
  <2> QED BY <1>4, <2>1, <2>2, <2>3, <2>4, <2>5, <2>6 DEF MainNext
<1>5. CASE Signal
  BY <1>5 DEF Signal
<1>6. CASE UNCHANGED vars
  BY <1>6 DEF vars
<1> QED BY <1>1, <1>2, <1>3, <1>4, <1>5, <1>6 DEF Next

LEMMA NextServer ==
    ASSUME TypeOK, ServerInv, [Next]_vars
    PROVE  ServerInv'
<1> USE LifecycleAssumption
    DEF TypeOK, ServerInv, WorkerGuarded, Joining, CloseIsQuiet, UnjoinedOnlyExpired,
        httpVars, jobVars, restVars, Goto, WorkerStep, MainStep
<1>1. ASSUME NEW h \in Handlers, NEW route \in {"start", "stop", "db"}, Accept(h, route)
      PROVE  ServerInv'
  BY <1>1 DEF Accept
<1>2. ASSUME NEW h \in Handlers, fault = "none", HandlerStep(h) PROVE ServerInv'
  <2>1. CASE Reply(h)
    BY <2>1 DEF Reply
  <2>2. CASE StartRefused(h)
    BY <2>2 DEF StartRefused
  <2>3. ASSUME NEW c \in Configs, Start(h, c) PROVE ServerInv'
    <3>1. /\ ~running /\ hpc[h] = "start" /\ hpc' = [hpc EXCEPT ![h] = "idle"]
          /\ running' /\ UNCHANGED <<main, control, unstarted>>
      BY <2>3 DEF Start, JobRunning
    <3>2. /\ Joining = {} /\ Joining' = {}
          /\ main \in {"listen", "drain"}
      BY <2>3, <3>1 DEF Start
    <3>3. \A g \in Handlers : hpc'[g] = "join" <=> control' = g
      BY <2>3, <3>1 DEF Start
    <3>4. CASE joinable
      <4>1. /\ fault' = "unjoined" /\ UNCHANGED <<joinable, worker, expired>>
        BY <2>3, <3>4 DEF Start
      <4>2. expired /\ worker = "ended"
        BY <3>1, <3>2, <3>4
      <4> HIDE DEF Joining
      <4> QED BY <3>1, <3>2, <3>3, <3>4, <4>1, <4>2
    <3>5. CASE ~joinable
      <4>1. /\ joinable' /\ worker' = "begin" /\ ~expired' /\ fault' = fault
        BY <2>3, <3>5 DEF Start
      <4> HIDE DEF Joining
      <4> QED BY <1>2, <3>1, <3>2, <3>3, <4>1
    <3> QED BY <3>4, <3>5
  <2>6. ASSUME NEW c \in Configs, StartFails(h, c) PROVE ServerInv'
    <3>1. /\ ~running /\ hpc[h] = "start" /\ hpc' = [hpc EXCEPT ![h] = "idle"]
          /\ running' /\ unstarted' /\ UNCHANGED <<main, control, joinable, worker, expired, fault>>
      BY <2>6 DEF StartFails, JobRunning
    <3>2. /\ Joining = {} /\ Joining' = {}
          /\ main \in {"listen", "drain"}
      BY <2>6, <3>1 DEF StartFails
    <3>3. \A g \in Handlers : hpc'[g] = "join" <=> control' = g
      BY <2>6, <3>1 DEF StartFails
    <3>4. joinable => expired /\ worker = "ended"
      BY <3>1, <3>2
    <3> HIDE DEF Joining
    <3> QED BY <1>2, <3>1, <3>2, <3>3, <3>4
  <2>4. CASE Stop(h)
    BY <2>4 DEF Stop
  <2>5. CASE StopJoin(h)
    <3>1. /\ hpc[h] = "join" /\ hpc' = [hpc EXCEPT ![h] = "idle"]
          /\ ~joinable' /\ control' = Nobody
          /\ UNCHANGED <<main, running, expired, fault>>
      BY <2>5 DEF StopJoin
    <3>2. Joining = {h} /\ Joining' = {}
      BY <3>1
    <3>3. \A g \in Handlers : hpc'[g] # "join" /\ control' # g
      BY <3>1, <3>2
    <3>4. worker' = "none" /\ ~running /\ main \in {"listen", "drain"}
      BY <2>5, <3>1, <3>2 DEF StopJoin, Gone
    <3> HIDE DEF Joining
    <3> QED BY <1>2, <3>1, <3>2, <3>3, <3>4
  <2> QED BY <1>2, <2>1, <2>2, <2>3, <2>4, <2>5, <2>6 DEF HandlerStep
<1>3. CASE RunLoop /\ fault = "none"
  <2>1. CASE Prologue \/ NextEvent \/ Count
    BY <1>3, <2>1 DEF Prologue, NextEvent, Count
  <2>4. CASE PrologueThrows \/ NoSymbol
    BY <1>3, <2>4 DEF PrologueThrows, NoSymbol
  <2>2. CASE Leave
    BY <1>3, <2>2 DEF Leave
  <2>3. CASE End
    BY <1>3, <2>3 DEF End
  <2> QED BY <1>3, <2>1, <2>2, <2>3, <2>4 DEF RunLoop
<1>4. CASE MainNext /\ fault = "none"
  <2>1. CASE Listen \/ Bind \/ Drained \/ Returned \/ CloseDB \/ CloseThrows
    BY <1>4, <2>1 DEF Listen, Bind, Drained, Returned, CloseDB, CloseThrows
  <2>2. CASE Destroy
    BY <1>4, <2>2 DEF Destroy
  <2>3. CASE DestroyJoin
    BY <1>4, <2>3 DEF DestroyJoin
  <2> QED BY <1>4, <2>1, <2>2, <2>3 DEF MainNext
<1>5. CASE Signal
  BY <1>5 DEF Signal
<1>6. CASE UNCHANGED vars
  BY <1>6 DEF vars
<1> QED BY <1>1, <1>2, <1>3, <1>4, <1>5, <1>6 DEF Next

LEMMA ServerInvariant == Spec => [](TypeOK /\ ServerInv)
<1>1. TypeOK /\ ServerInv /\ [Next]_vars => (TypeOK /\ ServerInv)'
  BY NextType, NextServer
<1> QED BY <1>1, InitServer, PTL DEF Spec

(* The generator has at most one thread, which is joined once, by one      *)
(* thread, before another is started (synthetic.cpp:18-43).                *)
THEOREM OneWorker == Spec => []WorkerGuarded
<1>1. ServerInv => WorkerGuarded
  BY DEF ServerInv
<1> QED BY <1>1, ServerInvariant, PTL

(* close() begins when nothing uses the database any more, which append()  *)
(* and remove() rely on (server.cpp:52-65, db.cpp:108-113, 168-170).       *)
THEOREM QuietClose == Spec => []CloseIsQuiet
<1>1. ServerInv => CloseIsQuiet
  BY DEF ServerInv
<1> QED BY <1>1, ServerInvariant, PTL

(* worker_ ends the process only after a job that ended by its duration    *)
(* and was never stopped, whatever else may end it: the parameters of a    *)
(* job, a thread that cannot be created, a close() that throws             *)
(* (synthetic.cpp:14-15, 31, 146).                                         *)
THEOREM UnjoinedExpired == Spec => []UnjoinedOnlyExpired
<1>1. ServerInv => UnjoinedOnlyExpired
  BY DEF ServerInv
<1> QED BY <1>1, ServerInvariant, PTL
=============================================================================

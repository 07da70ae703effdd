-------------------------- MODULE ServerLifecycle --------------------------
(***************************************************************************)
(* The server process from main() to its end: a DB, the HTTP server over   *)
(* it, the generator of synthetic events with its thread, the requests     *)
(* that start and stop a job, and the signal that ends the process.        *)
(* Sources: src/src/main_server.cpp, src/src/net/server.cpp,               *)
(* src/src/net/synthetic.cpp.                                              *)
(*                                                                         *)
(* A handler is a thread of httplib::Server; what httplib does (a request  *)
(* is accepted while it listens, stop() ends listen(), listen() returns    *)
(* when the requests accepted are answered) is external.  Every other      *)
(* route is one call of DB and keeps nothing: it is "db" while it lasts.   *)
(* What the threads of DB itself may die of is in LsmTree.                 *)
(***************************************************************************)
EXTENDS Integers

CONSTANTS
    Handlers,   \* threads of httplib::Server
    Nobody      \* who holds control_mu_ when nobody does

\* Bounds of the instance, in guards only.
CONSTANTS
    MaxEvents,  \* events one job generates
    MaxCalls    \* requests accepted

ASSUME LifecycleAssumption ==
    /\ Nobody \notin Handlers
    /\ MaxEvents \in Nat
    /\ MaxCalls \in Nat

VARIABLES
    main,       \* where main() is
    listening,  \* Server::running_
    signal,     \* what became of the signal: "none", "lost" or "heard"
    hpc,        \* where each handler is
    calls,      \* requests accepted
    control,    \* the handler that holds control_mu_
    running,    \* SyntheticGenerator::running_
    joinable,   \* worker_ is a thread that nobody has joined
    worker,     \* where that thread is, "none" if there is none
    config,     \* config_: "huge" if there is no memory for its symbols,
                \* "empty" if it has none, otherwise "sound"
    generated,  \* events_generated_
    fault,      \* what the process died of, "none" while it runs
    \* specification only
    expired,    \* the job saw its deadline
    unstarted   \* running_ was set for a thread that could not be started

httpVars == <<listening, signal, calls>>
jobVars  == <<running, joinable, worker, config, generated, expired, unstarted>>
vars == <<main, httpVars, hpc, control, jobVars, fault>>

Init ==
    /\ main = "built"
    /\ listening = FALSE /\ signal = "none"
    /\ hpc = [h \in Handlers |-> "idle"] /\ calls = 0
    /\ control = Nobody
    /\ running = FALSE /\ joinable = FALSE /\ worker = "none"
    /\ config = "sound" /\ generated = 0 /\ expired = FALSE /\ unstarted = FALSE
    /\ fault = "none"

-----------------------------------------------------------------------------
(* Requests. *)

Accept(h, route) ==
    /\ main = "listen"
    /\ hpc[h] = "idle" /\ calls < MaxCalls
    /\ calls' = calls + 1
    /\ hpc' = [hpc EXCEPT ![h] = route]
    /\ UNCHANGED <<main, listening, signal, control, jobVars, fault>>

Goto(h, place) == hpc' = [hpc EXCEPT ![h] = place]

Reply(h) ==
    /\ hpc[h] = "db"
    /\ Goto(h, "idle")
    /\ UNCHANGED <<main, httpVars, control, jobVars, fault>>

(* Mutant: start() does not look whether a job is running. *)
Busy == FALSE

JobRunning == running

(* start() while a job runs: the exception becomes an error response. *)
StartRefused(h) ==
    /\ hpc[h] = "start" /\ control = Nobody
    /\ JobRunning
    /\ Goto(h, "idle")
    /\ UNCHANGED <<main, httpVars, control, jobVars, fault>>

Configs == {"sound", "huge", "empty"}

(* start() assigns a new thread to worker_: an assignment over a thread    *)
(* that nobody joined is std::terminate.  Its parameters are not checked.  *)
Start(h, c) ==
    /\ hpc[h] = "start" /\ control = Nobody
    /\ ~JobRunning
    /\ Goto(h, "idle")
    /\ running' = TRUE
    /\ config' = c
    /\ generated' = 0
    /\ IF joinable
       THEN fault' = "unjoined" /\ UNCHANGED <<joinable, worker, expired>>
       ELSE joinable' = TRUE /\ worker' = "begin" /\ expired' = FALSE /\ UNCHANGED fault
    /\ UNCHANGED <<main, httpVars, control, unstarted>>

(* The thread cannot be created: the exception becomes an error response,  *)
(* the job is marked running and worker_ is what it was.                   *)
StartFails(h, c) ==
    /\ hpc[h] = "start" /\ control = Nobody
    /\ ~JobRunning
    /\ Goto(h, "idle")
    /\ running' = TRUE /\ unstarted' = TRUE
    /\ config' = c
    /\ generated' = 0
    /\ UNCHANGED <<main, httpVars, control, joinable, worker, expired, fault>>

(* Every job has the same id, so any stop() after the first start() is for *)
(* the job there is.  One that comes before is refused, which leaves all   *)
(* as it was, as this does.                                                *)
Stop(h) ==
    /\ hpc[h] = "stop" /\ control = Nobody
    /\ control' = h
    /\ running' = FALSE /\ unstarted' = FALSE
    /\ Goto(h, "join")
    /\ UNCHANGED <<main, httpVars, joinable, worker, config, generated, expired, fault>>

(* Mutant: the thread is not waited for. *)
GoneOrNot == TRUE

Gone == joinable => worker = "ended"

(* The thread joined, its count returned. *)
StopJoin(h) ==
    /\ hpc[h] = "join" /\ Gone
    /\ joinable' = FALSE /\ worker' = IF worker = "ended" THEN "none" ELSE worker
    /\ control' = Nobody
    /\ Goto(h, "idle")
    /\ UNCHANGED <<main, httpVars, running, config, generated, expired, unstarted, fault>>

-----------------------------------------------------------------------------
(* run_loop(). *)

WorkerStep(from, to) == worker = from /\ worker' = to

(* The job as far as no step of the thread but its own last changes it.    *)
restVars == <<main, httpVars, hpc, control, running, joinable, config, unstarted>>

(* What run_loop() does before its loop, outside the try block: it reserves *)
(* memory for the names of the symbols.                                    *)
Prologue ==
    /\ WorkerStep("begin", "check")
    /\ UNCHANGED <<restVars, generated, expired, fault>>

PrologueThrows ==
    /\ worker = "begin" /\ config = "huge"
    /\ fault' = "prologue"
    /\ UNCHANGED <<restVars, worker, generated, expired>>

NextEvent ==
    /\ WorkerStep("check", "append")
    /\ running /\ generated < MaxEvents
    /\ UNCHANGED <<restVars, generated, expired, fault>>

(* A symbol is drawn where there is none: what lies behind the end of the  *)
(* vector may pass for a name, as in NextEvent, or not.                    *)
NoSymbol ==
    /\ worker = "check" /\ running /\ generated < MaxEvents
    /\ config = "empty"
    /\ fault' = "empty"
    /\ UNCHANGED <<restVars, worker, generated, expired>>

(* append() returned or threw, which is ignored; then the wait for the next *)
(* event's time, which ends at once when the job is stopped.               *)
Count ==
    /\ WorkerStep("append", "check")
    /\ generated' = generated + 1
    /\ UNCHANGED <<restVars, expired, fault>>

(* The loop ends, told to or, while the job runs, by its duration, ...     *)
Leave ==
    /\ WorkerStep("check", "leave")
    /\ expired' = (expired \/ running)
    /\ UNCHANGED <<restVars, generated, fault>>

(* Mutant: under the mutex. *)
EndLocked ==
    /\ WorkerStep("leave", "ended")
    /\ control = Nobody
    /\ running' = FALSE
    /\ UNCHANGED <<main, httpVars, hpc, control, joinable, config, generated, expired,
                   unstarted, fault>>

(* ... and says so itself.                                                 *)
End ==
    /\ WorkerStep("leave", "ended")
    /\ running' = FALSE
    /\ UNCHANGED <<main, httpVars, hpc, control, joinable, config, generated, expired,
                   unstarted, fault>>

-----------------------------------------------------------------------------
(* main(), and the signal. *)

MainStep(from, to) == main = from /\ main' = to

(* Server::start(): running_ is set, and then the socket is opened. *)
Listen ==
    /\ MainStep("built", "bind")
    /\ listening' = TRUE
    /\ UNCHANGED <<signal, calls, hpc, control, jobVars, fault>>

(* listen() returns at once when it cannot have the port. *)
Bind ==
    /\ MainStep("bind", "listen") \/ MainStep("bind", "returned")
    /\ UNCHANGED <<httpVars, hpc, control, jobVars, fault>>

(* The handler of SIGINT and SIGTERM.  httplib's stop() ends what listens;  *)
(* before that, and when start() has not begun, nothing happens.           *)
Signal ==
    /\ signal # "heard" /\ main # "exited"
    /\ IF listening /\ main = "listen"
       THEN signal' = "heard" /\ main' = "drain"
       ELSE signal' = "lost" /\ UNCHANGED main
    /\ UNCHANGED <<listening, calls, hpc, control, jobVars, fault>>

Drained ==
    /\ MainStep("drain", "returned")
    /\ \A h \in Handlers : hpc[h] = "idle"
    /\ UNCHANGED <<httpVars, hpc, control, jobVars, fault>>

(* start() returns, and ~Server's stop() finds nothing to stop. *)
Returned ==
    /\ MainStep("returned", "destroy")
    /\ listening' = FALSE
    /\ UNCHANGED <<signal, calls, hpc, control, jobVars, fault>>

(* Mutant: ~SyntheticGenerator detaches the thread. *)
DestroyDetached ==
    /\ MainStep("destroy", "close")
    /\ running' = FALSE /\ unstarted' = FALSE
    /\ UNCHANGED <<httpVars, hpc, control, joinable, worker, config, generated, expired,
                   fault>>

(* ~SyntheticGenerator: a job that runs is told to end and joined.  A       *)
(* thread that ended by itself is not: its destructor is std::terminate.   *)
Destroy ==
    /\ main = "destroy"
    /\ running' = FALSE /\ unstarted' = FALSE
    /\ IF running /\ joinable THEN main' = "join" /\ UNCHANGED fault
       ELSE IF joinable THEN fault' = "unjoined" /\ UNCHANGED main
       ELSE main' = "close" /\ UNCHANGED fault
    /\ UNCHANGED <<httpVars, hpc, control, joinable, worker, config, generated, expired>>

DestroyJoin ==
    /\ MainStep("join", "close")
    /\ worker = "ended"
    /\ joinable' = FALSE /\ worker' = "none"
    /\ UNCHANGED <<httpVars, hpc, control, running, config, generated, expired, unstarted,
                   fault>>

(* ~DB: close(). *)
CloseDB ==
    /\ MainStep("close", "exited")
    /\ UNCHANGED <<httpVars, hpc, control, jobVars, fault>>

(* A flush or the symbol table's file fails: an exception leaves a         *)
(* destructor.                                                             *)
CloseThrows ==
    /\ main = "close"
    /\ fault' = "close"
    /\ UNCHANGED <<main, httpVars, hpc, control, jobVars>>

-----------------------------------------------------------------------------
HandlerStep(h) ==
    \/ Reply(h) \/ StartRefused(h) \/ Stop(h) \/ StopJoin(h)
    \/ \E c \in Configs : Start(h, c) \/ StartFails(h, c)
RunLoop  == Prologue \/ PrologueThrows \/ NextEvent \/ NoSymbol \/ Count \/ Leave \/ End
MainNext ==
    Listen \/ Bind \/ Drained \/ Returned \/ Destroy \/ DestroyJoin \/ CloseDB \/ CloseThrows

Next ==
    /\ fault = "none"
    /\ \/ \E h \in Handlers, route \in {"start", "stop", "db"} : Accept(h, route)
       \/ \E h \in Handlers : HandlerStep(h)
       \/ RunLoop \/ MainNext \/ Signal

(* Threads that can run do; nothing obliges a client to ask or a signal to  *)
(* come.  A job that runs need not get on: the wait for its next event is  *)
(* as long as its rate makes it, and ends when the job is stopped.         *)
Running(A) == fault = "none" /\ A

Spec ==
    /\ Init /\ [][Next]_vars
    /\ \A h \in Handlers : WF_vars(Running(HandlerStep(h)))
    /\ WF_vars(Running(~running /\ RunLoop)) /\ WF_vars(Running(MainNext))

-----------------------------------------------------------------------------
(* The thread exists exactly while worker_ can be joined, one thread at a   *)
(* time joins it, and when it is gone the job is not marked running: what  *)
(* stop() returned is final, and start() replaces nothing that still runs  *)
(* (synthetic.cpp:17-43).  Only a thread that could not be started leaves  *)
(* a job running without one, until somebody stops it.                     *)
Joining == {h \in Handlers : hpc[h] = "join"}

WorkerGuarded ==
    /\ worker # "none" <=> joinable
    /\ ~joinable /\ running => unstarted
    /\ \A g, h \in Joining : g = h
    /\ Joining # {} => control \in Joining /\ ~running
    /\ main = "join" => Joining = {}

(* close() begins when no call of DB is in progress and none can come: all *)
(* requests are answered and the generator's thread is gone, which is what *)
(* append() relies on (server.cpp:52-65, synthetic.cpp:12-16, db.cpp:108). *)
CloseIsQuiet ==
    main \in {"close", "exited"} =>
        /\ worker = "none"
        /\ \A h \in Handlers : hpc[h] = "idle"

(* When std::terminate comes from worker_ (an assignment to it, its        *)
(* destructor), then after a job that ended by its duration and that       *)
(* nobody stopped: the next start(), or the end of the server, meets a     *)
(* thread that was never joined (synthetic.cpp:14-15, 31, 146).            *)
UnjoinedOnlyExpired == fault = "unjoined" => expired /\ joinable /\ worker = "ended"

(* stop() returns, though it holds the mutex while it waits for the thread, *)
(* unless the process dies of its job (synthetic.cpp:35-43, 56-62).        *)
StopReturns == \A h \in Handlers : hpc[h] = "join" ~> hpc[h] = "idle" \/ fault # "none"

(* A signal that finds the server listening ends the process, through the  *)
(* requests in progress, the generator and close(), unless the process     *)
(* dies (main_server.cpp:11-13, server.cpp:60-68).                         *)
SignalEnds == signal = "heard" ~> (main = "exited" \/ fault # "none")
=============================================================================

----------------------------- MODULE Iec104Client -----------------------------
(***************************************************************************)
(* IEC104Client (core/iec104/iec104Client.cc): an IEC 60870-5-104 master.  *)
(* Three threads meet in it:                                               *)
(*   - the owner (IEC104ClientManger, testFunction): start, stop, ~;       *)
(*   - the worker of run(), which polls last_event_ every 100 ms;          *)
(*   - the thread of lib60870, which calls connectionHandler.              *)
(* lib60870 is external: one thread per connection that delivers OPENED or *)
(* FAILED, then STARTDT_CON, then CLOSED, each through connectionHandler,  *)
(* and that CS104_Connection_destroy closes and joins.                     *)
(***************************************************************************)
EXTENDS Naturals

CONSTANT MaxStarts   \* bound on the calls of start()

ASSUME StartsAssumption == MaxStarts \in Nat

VARIABLES
    obj,          \* "alive", "destroying", "dead", or "aborted" (terminate)
    caller,       \* program counter of the owner
    starts,       \* calls of start() so far
    running,      \* running_
    startDtSent,  \* start_dt_sent_
    lastEvent,    \* last_event_
    sem,          \* count of last_event_lock_
    thread,       \* worker_thread_: "none" or "joinable"
    worker,       \* program counter of run()
    conn,         \* lib60870: the connection
    event,        \* lib60870: the event being delivered, or "none"
    handler,      \* program counter of connectionHandler
    sent          \* lib60870: frames it was given for this connection

vars == <<obj, caller, starts, running, startDtSent, lastEvent, sem, thread,
          worker, conn, event, handler, sent>>

libVars == <<conn, event, handler>>
ownerVars == <<obj, caller, starts, thread>>

Events == {"OPENED", "STARTDT_CON", "CLOSED", "FAILED"}
Frames == {"STARTDT", "STOPDT", "GI"}
Section == {"first", "second", "post"}      \* between Semaphore_wait and _post
WorkerPCs == {"none", "while", "wait", "sleep", "exited"} \cup Section
CallerPCs == {"idle", "spawn", "stopFlag", "join", "stopDt", "closing",
              "semDestroy", "done"}

TypeOK ==
    /\ obj \in {"alive", "destroying", "dead", "aborted"}
    /\ caller \in CallerPCs
    /\ starts \in 0 .. MaxStarts
    /\ running \in BOOLEAN
    /\ startDtSent \in BOOLEAN
    /\ lastEvent \in Events \cup {"none"}
    /\ sem \in Nat
    /\ thread \in {"none", "joinable"}
    /\ worker \in WorkerPCs
    /\ conn \in {"idle", "connecting", "open", "started", "down"}
    /\ event \in Events \cup {"none"}
    /\ handler \in {"none", "set", "post", "callback"}
    /\ sent \subseteq Frames

(* The constructor: the semaphore starts at 1, last_event_ at no event. *)
Init ==
    /\ obj = "alive"
    /\ caller = "idle"
    /\ starts = 0
    /\ running = FALSE
    /\ startDtSent = FALSE
    /\ lastEvent = "none"
    /\ sem = 1
    /\ thread = "none"
    /\ worker = "none"
    /\ conn = "idle"
    /\ event = "none"
    /\ handler = "none"
    /\ sent = {}

-----------------------------------------------------------------------------
(* The owner. *)

(* start(): refused while running_; otherwise the flag, then connectAsync. *)
(* The library's thread of an earlier connection has ended by then: what   *)
(* lib60870 does when asked to connect twice is not modelled.              *)
Start ==
    /\ obj = "alive" /\ caller = "idle"
    /\ ~running
    /\ starts < MaxStarts
    /\ conn \in {"idle", "down"} /\ event = "none"
    /\ starts' = starts + 1
    /\ running' = TRUE
    /\ conn' = "connecting"
    /\ sent' = {}
    /\ caller' = "spawn"
    /\ UNCHANGED <<obj, startDtSent, lastEvent, sem, thread, worker, event, handler>>

(* worker_thread_ = std::thread(run): assigning to a joinable std::thread  *)
(* calls std::terminate.                                                   *)
StartSpawn ==
    /\ caller = "spawn"
    /\ IF thread = "joinable"
         THEN /\ obj' = "aborted"
              /\ caller' = "done"
              /\ UNCHANGED <<thread, worker>>
         ELSE /\ thread' = "joinable"
              /\ worker' = "while"
              /\ caller' = "idle"
              /\ UNCHANGED obj
    /\ UNCHANGED <<starts, running, startDtSent, lastEvent, sem, libVars, sent>>

(* stop() does nothing unless running_. *)
Stop ==
    /\ obj = "alive" /\ caller = "idle"
    /\ running
    /\ caller' = "stopFlag"
    /\ UNCHANGED <<obj, starts, thread, running, startDtSent, lastEvent, sem, worker,
                   libVars, sent>>

(* The destructor begins with stop(). *)
Destruct ==
    /\ obj = "alive" /\ caller = "idle"
    /\ obj' = "destroying"
    /\ caller' = IF running THEN "stopFlag" ELSE "closing"
    /\ UNCHANGED <<starts, thread, running, startDtSent, lastEvent, sem, worker, libVars, sent>>

StopFlag ==
    /\ caller = "stopFlag"
    /\ running' = FALSE
    /\ caller' = IF thread = "joinable" THEN "join" ELSE "stopDt"
    /\ UNCHANGED <<obj, starts, thread, startDtSent, lastEvent, sem, worker, libVars, sent>>

(* Mutant: stop() does not wait for the worker. *)
StopDetach ==
    /\ caller = "join"
    /\ caller' = "stopDt"
    /\ UNCHANGED <<obj, starts, thread, running, startDtSent, lastEvent, sem, worker, libVars, sent>>

StopJoin ==
    /\ caller = "join"
    /\ worker = "exited"
    /\ thread' = "none"
    /\ worker' = "none"
    /\ caller' = "stopDt"
    /\ UNCHANGED <<obj, starts, running, startDtSent, lastEvent, sem, libVars, sent>>

(* sendStopDT is called if start_dt_sent_, and returns unless running_. *)
StopDt ==
    /\ caller = "stopDt"
    /\ sent' = IF startDtSent /\ running THEN sent \cup {"STOPDT"} ELSE sent
    /\ caller' = IF obj = "destroying" THEN "closing" ELSE "idle"
    /\ UNCHANGED <<obj, starts, thread, running, startDtSent, lastEvent, sem, worker, libVars>>

(* Mutant: the semaphore is destroyed before the connection. *)
CloseConnLate ==
    /\ caller = "closing"
    /\ caller' = "semDestroy"
    /\ UNCHANGED <<obj, starts, thread, running, startDtSent, lastEvent, sem, worker, libVars, sent>>

(* CS104_Connection_destroy returns when the library's thread has ended. *)
CloseConn ==
    /\ caller = "closing"
    /\ conn \in {"idle", "down"} /\ event = "none"
    /\ caller' = "semDestroy"
    /\ UNCHANGED <<obj, starts, thread, running, startDtSent, lastEvent, sem, worker, libVars, sent>>

(* Semaphore_destroy, then the members: a joinable std::thread terminates. *)
SemDestroy ==
    /\ caller = "semDestroy"
    /\ obj' = IF thread = "joinable" THEN "aborted" ELSE "dead"
    /\ caller' = "done"
    /\ UNCHANGED <<starts, thread, running, startDtSent, lastEvent, sem, worker, libVars, sent>>

OwnerStep ==
    \/ StartSpawn \/ StopFlag \/ StopJoin \/ StopDt \/ CloseConn \/ SemDestroy

-----------------------------------------------------------------------------
(* The worker: run(). *)

Goto(pc) == worker' = pc /\ UNCHANGED <<obj, caller, starts, thread, conn, event, handler>>

WorkerWhile ==
    /\ worker = "while"
    /\ Goto(IF running THEN "wait" ELSE "exited")
    /\ UNCHANGED <<running, startDtSent, lastEvent, sem, sent>>

WorkerWait ==
    /\ worker = "wait"
    /\ sem > 0
    /\ sem' = sem - 1
    /\ Goto("first")
    /\ UNCHANGED <<running, startDtSent, lastEvent, sent>>

(* Mutant: STARTDT waits for start_dt_sent_, too. *)
WorkerFirstNeedsFlag ==
    /\ worker = "first"
    /\ sent' = IF lastEvent = "OPENED" /\ startDtSent THEN sent \cup {"STARTDT"} ELSE sent
    /\ Goto(IF lastEvent = "OPENED" THEN "post" ELSE "second")
    /\ UNCHANGED <<running, startDtSent, lastEvent, sem>>

(* if (last_event_ == OPENED) sendStartDT(); it checks running_ again. *)
WorkerFirst ==
    /\ worker = "first"
    /\ sent' = IF lastEvent = "OPENED" /\ running THEN sent \cup {"STARTDT"} ELSE sent
    /\ Goto(IF lastEvent = "OPENED" THEN "post" ELSE "second")
    /\ UNCHANGED <<running, startDtSent, lastEvent, sem>>

(* Mutant: a failed connection does not end the loop. *)
WorkerSecondOnlyClosed ==
    /\ worker = "second"
    /\ running' = IF lastEvent = "CLOSED" THEN FALSE ELSE running
    /\ sent' \in {sent, IF lastEvent \in {"CLOSED", "FAILED"} \/ ~startDtSent \/ ~running
                          THEN sent ELSE sent \cup {"GI"}}
    /\ Goto("post")
    /\ UNCHANGED <<startDtSent, lastEvent, sem>>

(* Mutant: every event but OPENED ends the loop. *)
WorkerSecondAnyEvent ==
    /\ worker = "second"
    /\ running' = IF lastEvent # "none" THEN FALSE ELSE running
    /\ Goto("post")
    /\ UNCHANGED <<startDtSent, lastEvent, sem, sent>>

(* last_event_ is read again, without a lock.  The interrogation command   *)
(* is sent if start_dt_sent_, when gi_interval_ms_ has passed.             *)
WorkerSecond ==
    /\ worker = "second"
    /\ running' = IF lastEvent \in {"CLOSED", "FAILED"} THEN FALSE ELSE running
    /\ sent' \in {sent, IF lastEvent \in {"CLOSED", "FAILED"} \/ ~startDtSent \/ ~running
                          THEN sent ELSE sent \cup {"GI"}}
    /\ Goto("post")
    /\ UNCHANGED <<startDtSent, lastEvent, sem>>

(* Mutant: the early end of the loop keeps the semaphore. *)
WorkerPostForgets ==
    /\ worker = "post"
    /\ sem' = IF running THEN sem ELSE sem + 1
    /\ Goto("sleep")
    /\ UNCHANGED <<running, startDtSent, lastEvent, sent>>

WorkerPost ==
    /\ worker = "post"
    /\ sem' = sem + 1
    /\ Goto("sleep")
    /\ UNCHANGED <<running, startDtSent, lastEvent, sent>>

WorkerSleep ==
    /\ worker = "sleep"
    /\ Goto("while")
    /\ UNCHANGED <<running, startDtSent, lastEvent, sem, sent>>

WorkerStep ==
    /\ obj \notin {"dead", "aborted"}
    /\ \/ WorkerWhile \/ WorkerWait \/ WorkerFirst \/ WorkerSecond
       \/ WorkerPost \/ WorkerSleep

-----------------------------------------------------------------------------
(* lib60870 (external): what happens to the connection, and the event that *)
(* is delivered for it.  Events are delivered one after the other.         *)

LibEvent(from, to, ev) ==
    /\ obj \notin {"dead", "aborted"}
    /\ event = "none"
    /\ conn \in from
    /\ conn' = to
    /\ event' = ev
    /\ handler' = "set"
    /\ UNCHANGED <<obj, caller, starts, thread, running, startDtSent, lastEvent, sem,
                   worker, sent>>

ConnectOk == LibEvent({"connecting"}, "open", "OPENED")
ConnectFails == LibEvent({"connecting"}, "down", "FAILED")
StartDtConfirmed == "STARTDT" \in sent /\ LibEvent({"open"}, "started", "STARTDT_CON")
ConnectionLost == LibEvent({"open", "started"}, "down", "CLOSED")

(* connectionHandler: last_event_ is written before the semaphore is       *)
(* posted, not between a wait and a post; then the user's callback runs    *)
(* under event_mutex_, which only this thread and the setters take.        *)
HandlerSet ==
    /\ handler = "set"
    /\ lastEvent' = event
    /\ handler' = "post"
    /\ UNCHANGED <<obj, caller, starts, thread, running, startDtSent, sem, worker, conn,
                   event, sent>>

HandlerPost ==
    /\ handler = "post"
    /\ sem' = sem + 1
    /\ handler' = "callback"
    /\ UNCHANGED <<obj, caller, starts, thread, running, startDtSent, lastEvent, worker,
                   conn, event, sent>>

HandlerCallback ==
    /\ handler = "callback"
    /\ handler' = "none"
    /\ event' = "none"
    /\ UNCHANGED <<obj, caller, starts, thread, running, startDtSent, lastEvent, sem,
                   worker, conn, sent>>

HandlerStep ==
    /\ obj \notin {"dead", "aborted"}
    /\ (HandlerSet \/ HandlerPost \/ HandlerCallback)

LibStep == ConnectOk \/ ConnectFails \/ StartDtConfirmed \/ ConnectionLost

-----------------------------------------------------------------------------
Next == Start \/ Stop \/ Destruct \/ OwnerStep \/ WorkerStep \/ HandlerStep \/ LibStep

Spec == Init /\ [][Next]_vars

(* The threads are scheduled; a call of the owner, once begun, goes on;    *)
(* lib60870 ends a connection attempt (t0), an unconfirmed STARTDT (t1)    *)
(* and, when it is told to close, the connection.                          *)
FairSpec ==
    /\ Spec
    /\ WF_vars(OwnerStep)
    /\ WF_vars(WorkerStep)
    /\ WF_vars(HandlerStep)
    /\ WF_vars(ConnectOk \/ ConnectFails)
    /\ WF_vars("STARTDT" \in sent /\ conn = "open" /\ LibStep)
    /\ WF_vars(caller = "closing" /\ LibStep)

-----------------------------------------------------------------------------
(* Properties. *)

(* Semaphore_wait in run() finds the count positive, so the worker never   *)
(* blocks and stop() can join it: the events only add to the count.        *)
WorkerNeverBlocks == worker = "wait" => sem > 0

(* The library does not call the handler once the semaphore and the object *)
(* are gone: the destructor destroys the connection first.                 *)
NoEventAfterDestroy == event # "none" => caller # "done" \/ obj = "aborted"

(* While the connection is open and not yet started, OPENED is what the    *)
(* worker reads: no event overwrites it before STARTDT is sent.            *)
OpenNotOverwritten ==
    conn = "open" /\ handler \in {"none", "post", "callback"} => lastEvent = "OPENED"

(* In the first life of the client, the destructor goes past stop() with   *)
(* the worker unjoined, which ends in std::terminate, only if the worker   *)
(* had ended by itself because the connection was lost or refused.         *)
UnjoinedOnlyAfterLoss ==
    starts = 1 /\ caller \in {"closing", "semDestroy"} /\ thread = "joinable"
        => conn = "down"

(* In the first life of the client, only stop() or the loss of the         *)
(* connection ends it.  After a second start() this fails: last_event_ is  *)
(* not reset, and the worker acts on the event of the earlier connection.  *)
EndsForAReason ==
    [][starts = 1 /\ running /\ ~running' => caller = "stopFlag" \/ conn = "down"]_vars

(* An open connection is started, unless it is lost or the client stopped  *)
(* (or the process terminated, see NeverAborts).                           *)
OpenIsStarted == conn = "open" ~> conn # "open" \/ ~running \/ obj = "aborted"

(* A lost or refused connection ends the worker, unless the process has    *)
(* been terminated before (see NeverAborts).                               *)
LossEndsWorker == conn = "down" ~> worker \in {"none", "exited"} \/ obj = "aborted"

(* stop() and the destructor return. *)
StopReturns == caller = "stopFlag" ~> caller \in {"idle", "done"}

(* Stopping and destroying a client does not terminate the process. *)
NeverAborts == obj # "aborted"
=============================================================================

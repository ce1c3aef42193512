------------------------------ MODULE AppModbus ------------------------------
(***************************************************************************)
(* AppModbus (core/modbus/app_modbus_client.cc): run() creates one         *)
(* ModbusApi per usable device and hands runTask() to the thread pool,     *)
(* runTask() hands one endless poll task per device to the same pool, and  *)
(* stop() clears the flags and waits for the pool to drain.                *)
(* One caller calls run() and stop() in any order.                         *)
(***************************************************************************)
EXTENDS Naturals, Sequences, FiniteSets

CONSTANTS
    Devices,   \* the devices of the configuration
    Usable,    \* those that pass the checks of run()
    Workers,   \* the threads of thread_pool_
    MaxRuns    \* bound on the calls of run()

ASSUME DeviceAssumption == Usable \subseteq Devices /\ "runTask" \notin Devices
                             /\ "none" \notin Devices
ASSUME PoolAssumption == Workers # {}
ASSUME RunsAssumption == MaxRuns \in Nat

VARIABLES
    phase,    \* "new", "started", "flags", "stopping" or "stopped"
    runs,     \* calls of run() so far
    running,  \* running_
    devices,  \* keys of devices_
    loop,     \* per device: its reconnectLoop thread, "none", "alive", "ended"
    apiStop,  \* devices whose ModbusApi::stop() was called
    queue,    \* tasks waiting in the pool
    task,     \* per worker: the task it executes, or "none"
    at,       \* per worker: where in the task it is
    todo      \* per worker: devices runTask has still to submit

vars == <<phase, runs, running, devices, loop, apiStop, queue, task, at, todo>>

Tasks == Devices \cup {"runTask"}

TypeOK ==
    /\ phase \in {"new", "started", "flags", "stopping", "stopped"}
    /\ runs \in 0 .. MaxRuns
    /\ running \in BOOLEAN
    /\ devices \subseteq Usable
    /\ loop \in [Devices -> {"none", "alive", "ended"}]
    /\ apiStop \subseteq devices
    /\ queue \in Seq(Tasks)
    /\ task \in [Workers -> Tasks \cup {"none"}]
    /\ at \in [Workers -> {"none", "submit", "debug", "while", "poll"}]
    /\ todo \in [Workers -> SUBSET Devices]

Init ==
    /\ phase = "new"
    /\ runs = 0
    /\ running = TRUE
    /\ devices = {}
    /\ loop = [d \in Devices |-> "none"]
    /\ apiStop = {}
    /\ queue = << >>
    /\ task = [w \in Workers |-> "none"]
    /\ at = [w \in Workers |-> "none"]
    /\ todo = [w \in Workers |-> {}]

-----------------------------------------------------------------------------
(* The caller. *)

(* run(): devices that fail a check or already exist are skipped; the      *)
(* constructor of each new ModbusApi starts its reconnect loop.  An empty  *)
(* configuration makes run() return false and change nothing.              *)
Run ==
    /\ phase \in {"new", "started", "stopped"}
    /\ runs < MaxRuns
    /\ Devices # {}
    /\ runs' = runs + 1
    /\ devices' = devices \cup Usable
    /\ loop' = [d \in Devices |-> IF d \in Usable \ devices THEN "alive" ELSE loop[d]]
    /\ queue' = Append(queue, "runTask")
    /\ phase' = "started"
    /\ UNCHANGED <<running, apiStop, task, at, todo>>

(* stop(): first the flag of every ModbusApi, then running_, then wait().   *)
(* It may come before run() and again after it has returned.               *)
StopApis ==
    /\ phase \in {"new", "started", "stopped"}
    /\ apiStop' = devices
    /\ phase' = "flags"
    /\ UNCHANGED <<runs, running, devices, loop, queue, task, at, todo>>

(* Mutant: running_ is not cleared. *)
StopFlagKeeps ==
    /\ phase = "flags"
    /\ phase' = "stopping"
    /\ UNCHANGED <<runs, running, devices, loop, apiStop, queue, task, at, todo>>

StopFlag ==
    /\ phase = "flags"
    /\ running' = FALSE
    /\ phase' = "stopping"
    /\ UNCHANGED <<runs, devices, loop, apiStop, queue, task, at, todo>>

(* Mutant: wait() looks at the executing tasks only. *)
StopWaitRunning ==
    /\ phase = "stopping"
    /\ \A w \in Workers : task[w] = "none"
    /\ phase' = "stopped"
    /\ UNCHANGED <<runs, running, devices, loop, apiStop, queue, task, at, todo>>

(* BS::thread_pool::wait(): no task waiting, none executing. *)
StopWait ==
    /\ phase = "stopping"
    /\ queue = << >>
    /\ \A w \in Workers : task[w] = "none"
    /\ phase' = "stopped"
    /\ UNCHANGED <<runs, running, devices, loop, apiStop, queue, task, at, todo>>

-----------------------------------------------------------------------------
(* The pool. *)

FirstStep(t) == IF t = "runTask" THEN "submit" ELSE "debug"

Take(w) ==
    /\ task[w] = "none"
    /\ queue # << >>
    /\ task' = [task EXCEPT ![w] = Head(queue)]
    /\ at' = [at EXCEPT ![w] = FirstStep(Head(queue))]
    /\ todo' = [todo EXCEPT ![w] = IF Head(queue) = "runTask" THEN devices ELSE {}]
    /\ queue' = Tail(queue)
    /\ UNCHANGED <<phase, runs, running, devices, loop, apiStop>>

(* runTask: detach_task for one device after the other. *)
Submit(w) ==
    /\ at[w] = "submit"
    /\ \E d \in todo[w] :
          /\ queue' = Append(queue, d)
          /\ todo' = [todo EXCEPT ![w] = @ \ {d}]
    /\ UNCHANGED <<phase, runs, running, devices, loop, apiStop, task, at>>

(* The task of worker w returns to the pool. *)
Finish(w) ==
    /\ task' = [task EXCEPT ![w] = "none"]
    /\ at' = [at EXCEPT ![w] = "none"]

(* Mutant: runTask returns with a device left over. *)
SubmitEndEarly(w) ==
    /\ at[w] = "submit"
    /\ Cardinality(todo[w]) <= 1
    /\ Finish(w)
    /\ todo' = [todo EXCEPT ![w] = {}]
    /\ UNCHANGED <<phase, runs, running, devices, loop, apiStop, queue>>

SubmitEnd(w) ==
    /\ at[w] = "submit"
    /\ todo[w] = {}
    /\ Finish(w)
    /\ UNCHANGED <<phase, runs, running, devices, loop, apiStop, queue, todo>>

(* getDeviceApi, set_debug, getModbus: both lookups find the device, as    *)
(* devices_ was filled from the configuration.                             *)
SetDebug(w) ==
    /\ at[w] = "debug"
    /\ at' = [at EXCEPT ![w] = "while"]
    /\ UNCHANGED <<phase, runs, running, devices, loop, apiStop, queue, task, todo>>

PollWhile(w) ==
    /\ at[w] = "while"
    /\ IF running
         THEN at' = [at EXCEPT ![w] = "poll"] /\ UNCHANGED task
         ELSE Finish(w)
    /\ UNCHANGED <<phase, runs, running, devices, loop, apiStop, queue, todo>>

(* processContinuousRegisters and the sleep; see ModbusPoll. *)
Poll(w) ==
    /\ at[w] = "poll"
    /\ at' = [at EXCEPT ![w] = "while"]
    /\ UNCHANGED <<phase, runs, running, devices, loop, apiStop, queue, task, todo>>

WorkerStep(w) ==
    Take(w) \/ Submit(w) \/ SubmitEnd(w) \/ SetDebug(w) \/ PollWhile(w) \/ Poll(w)

(* The reconnect loop of a device ends after ModbusApi::stop(), or when    *)
(* its retries are used up; see ModbusApi.                                 *)
LoopEnds(d) ==
    /\ loop[d] = "alive"
    /\ loop' = [loop EXCEPT ![d] = "ended"]
    /\ UNCHANGED <<phase, runs, running, devices, apiStop, queue, task, at, todo>>

-----------------------------------------------------------------------------
Next ==
    \/ Run \/ StopApis \/ StopFlag \/ StopWait
    \/ \E w \in Workers : WorkerStep(w)
    \/ \E d \in Devices : LoopEnds(d)

Spec == Init /\ [][Next]_vars

(* The threads of the pool are scheduled, a poll ends (PollEnds of         *)
(* ModbusPoll: as long as its stores find Redis up), and stop(), once      *)
(* called, goes on.                                                        *)
FairSpec ==
    /\ Spec
    /\ \A w \in Workers : WF_vars(WorkerStep(w))
    /\ WF_vars(StopFlag \/ StopWait)
    /\ \A d \in Devices : WF_vars(LoopEnds(d) /\ d \in apiStop)

-----------------------------------------------------------------------------
(* Properties. *)

(* When stop() has returned no poll task runs or waits, even if stop() was *)
(* called while runTask had not yet submitted the poll tasks.              *)
StopWaitsForPolls ==
    phase = "stopped" => queue = << >> /\ \A w \in Workers : task[w] = "none"

(* After run() every device in devices_ gets polled, unless stop() comes   *)
(* or has come before: running_ is never set again.                        *)
RunStartsPolling ==
    \A d \in Devices :
        (phase = "started" /\ running /\ d \in devices)
            ~> (phase # "started" \/ \E w \in Workers : task[w] = d /\ at[w] = "poll")

(* stop() returns, although poll tasks may still be submitted meanwhile. *)
StopReturns == phase = "flags" ~> phase = "stopped"
=============================================================================

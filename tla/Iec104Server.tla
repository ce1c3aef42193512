----------------------------- MODULE Iec104Server -----------------------------
(***************************************************************************)
(* IEC104Server (core/iec104/iec104Service.cc): an IEC 60870-5-104 slave.  *)
(* dataPoints_ is shared, under dataPointsMutex_, by                       *)
(*   - the application (addDataPoint, updateDataPoint),                    *)
(*   - the periodic thread, which enqueues a snapshot of all points,       *)
(*   - the threads of lib60870, one per connected master, which call the   *)
(*     interrogation and command handlers.                                 *)
(* The owner starts, stops and destroys the server meanwhile.  A value is  *)
(* represented by its version: how often the point was written.            *)
(***************************************************************************)
EXTENDS Naturals, Sequences, SequencesExt, FiniteSets, FiniteSetsExt, Functions

CONSTANTS
    IOAs,       \* object addresses that masters and the application use
    Single,     \* those added as SINGLE_POINT; the others are scaled values
    Masters,    \* connected masters
    Capacity,   \* objects of one type that fit into an ASDU (external)
    QueueSize,  \* low-priority queue of the slave (external)
    MaxVer,     \* per address: bound on the writes of the point
    MaxStarts   \* bound on the calls of start()

ASSUME PointAssumption == IOAs \subseteq Nat /\ Single \subseteq IOAs
ASSUME BoundAssumption ==
    Capacity \in Nat \ {0} /\ QueueSize \in Nat \ {0} /\ MaxVer \in [IOAs -> Nat] /\
    MaxStarts \in Nat

Threads == 1 .. MaxStarts   \* the periodic thread of each start()

VARIABLES
    owner,      \* program counter of the owner
    dying,      \* the destructor has been called
    starts,     \* periodic threads created so far
    running,    \* running_
    slave,      \* slave_: "stopped", "running", "stopping" or "destroyed"
    handle,     \* periodicThread_, 0 for nullptr
    freed,      \* per thread: how often its Thread structure was freed
    per,        \* per thread: program counter of periodicSendTask
    perSnap,    \* per thread: its copy of the points
    points,     \* keys of dataPoints_
    ver,        \* version of each point
    queue,      \* ASDUs in the slave's low-priority queue
    delivered,  \* the periodic ASDU that was sent last
    mas,        \* per master: program counter of the handler called for it
    masSnap,    \* per master: copy of the points, then the ASDU sent
    command,    \* per master: object address and version of its command
    answer,     \* cause of transmission of the last answer to a master
    confirmed,  \* history: version of each point confirmed to a master
    asked       \* history, per master: points and confirmed at its request

data == <<points, ver>>
life == <<owner, dying, starts, running, slave, handle>>
perVars == <<per, perSnap, freed>>
masVars == <<mas, masSnap, command, answer, asked>>
vars == <<life, perVars, data, queue, delivered, masVars, confirmed>>

NoData == << >>
NoCommand == [ioa |-> 0, ver |-> 0]
NotAsked == [points |-> {}, confirmed |-> [i \in IOAs |-> 0]]

(* std::map iterates by address. *)
Snapshot == [i \in points |-> ver[i]]

Kind(i) == IF i \in Single THEN "single" ELSE "scaled"

(* Mutant: the last object is not added. *)
AsduShort(c) == Restrict(c, DOMAIN c \ {Max(DOMAIN c)})

(* CS101_ASDU_addInformationObject takes objects of the type of the first  *)
(* one, as long as there is room; sendDataPoints ignores its result.       *)
Asdu(c) ==
    LET first == Kind(Min(DOMAIN c))
        same == {i \in DOMAIN c : Kind(i) = first}
    IN  Restrict(c, {i \in same : Cardinality({j \in same : j < i}) < Capacity})

Versions == UNION {0 .. MaxVer[i] : i \in IOAs}
Contents == UNION {[S -> Versions] : S \in SUBSET IOAs}

TypeOK ==
    /\ owner \in {"idle", "create", "failWait", "stopThread", "stopSlave", "stopWait",
                  "slaveDestroy", "done"}
    /\ dying \in BOOLEAN
    /\ starts \in 0 .. MaxStarts
    /\ running \in BOOLEAN
    /\ slave \in {"stopped", "running", "stopping", "destroyed"}
    /\ handle \in 0 .. MaxStarts
    /\ freed \in [Threads -> 0 .. 2]
    /\ per \in [Threads -> {"none", "while", "snapshot", "send", "sleep", "ended"}]
    /\ perSnap \in [Threads -> Contents]
    /\ points \subseteq IOAs
    /\ ver \in [IOAs -> Nat] /\ \A i \in IOAs : ver[i] <= MaxVer[i]
    /\ queue \in Seq(Contents) /\ Len(queue) <= QueueSize
    /\ delivered \in Contents
    /\ mas \in [Masters -> {"idle", "snapshot", "send", "term", "confirm"}]
    /\ masSnap \in [Masters -> Contents]
    /\ command \in [Masters -> [ioa : IOAs \cup {0}, ver : Nat]]
    /\ asked \in [Masters -> [points : SUBSET IOAs, confirmed : [IOAs -> Nat]]]
    /\ answer \in {"none", "ACT_CON", "negative", "ACT_TERM", "UNKNOWN_COT", "UNKNOWN_IOA"}
    /\ confirmed \in [IOAs -> Nat]

Init ==
    /\ owner = "idle" /\ dying = FALSE /\ starts = 0 /\ running = FALSE
    /\ slave = "stopped" /\ handle = 0
    /\ freed = [t \in Threads |-> 0]
    /\ per = [t \in Threads |-> "none"]
    /\ perSnap = [t \in Threads |-> NoData]
    /\ points = {}
    /\ ver = [i \in IOAs |-> 0]
    /\ queue = << >>
    /\ delivered = NoData
    /\ mas = [m \in Masters |-> "idle"]
    /\ masSnap = [m \in Masters |-> NoData]
    /\ command = [m \in Masters |-> NoCommand]
    /\ answer = "none"
    /\ confirmed = [i \in IOAs |-> 0]
    /\ asked = [m \in Masters |-> NotAsked]

-----------------------------------------------------------------------------
(* The application. *)

Write(i) == ver[i] < MaxVer[i] /\ ver' = [ver EXCEPT ![i] = @ + 1]

addDataPoint(i) ==
    /\ owner # "done"
    /\ points' = points \cup {i}
    /\ Write(i)
    /\ UNCHANGED <<life, perVars, queue, delivered, masVars, confirmed>>

(* An unknown address, or one of the other type, is ignored. *)
updateDataPoint(i) ==
    /\ owner # "done"
    /\ i \in points
    /\ Write(i)
    /\ UNCHANGED <<life, perVars, points, queue, delivered, masVars, confirmed>>

-----------------------------------------------------------------------------
(* The owner. *)

HandlersIdle == \A m \in Masters : mas[m] = "idle"

(* start(): refused while running_; nothing happens if the slave cannot    *)
(* listen.                                                                 *)
Start ==
    /\ owner = "idle" /\ ~running
    /\ starts < MaxStarts
    /\ slave' = "running"
    /\ running' = TRUE
    /\ owner' = "create"
    /\ UNCHANGED <<dying, starts, handle, perVars, data, queue, delivered, masVars, confirmed>>

(* Thread_create(..., autodestroy = true) and Thread_start. *)
StartThread ==
    /\ owner = "create"
    /\ starts' = starts + 1
    /\ handle' = starts + 1
    /\ per' = [per EXCEPT ![starts + 1] = "while"]
    /\ owner' = "idle"
    /\ UNCHANGED <<dying, running, slave, perSnap, freed, data, queue, delivered, masVars,
                   confirmed>>

(* Thread_create returned NULL: CS104_Slave_stop, then running_ = false. *)
StartThreadFails ==
    /\ owner = "create"
    /\ slave' = "stopping"
    /\ handle' = 0
    /\ owner' = "failWait"
    /\ UNCHANGED <<dying, starts, running, perVars, data, queue, delivered, masVars, confirmed>>

StartFailed ==
    /\ owner = "failWait"
    /\ HandlersIdle
    /\ slave' = "stopped"
    /\ running' = FALSE
    /\ owner' = "idle"
    /\ UNCHANGED <<dying, starts, handle, perVars, data, queue, delivered, masVars, confirmed>>

(* stop(); the destructor calls it first. *)
Stop ==
    /\ owner = "idle" /\ running
    /\ dying' \in {dying, TRUE}
    /\ running' = FALSE
    /\ owner' = IF handle # 0 THEN "stopThread" ELSE "stopSlave"
    /\ UNCHANGED <<starts, slave, handle, perVars, data, queue, delivered, masVars, confirmed>>

(* Thread_destroy joins and frees.  The thread was detached by Thread_start*)
(* because of autodestroy, so the join does not wait for it.               *)
StopThread ==
    /\ owner = "stopThread"
    /\ freed' = [freed EXCEPT ![handle] = @ + 1]
    /\ handle' = 0
    /\ owner' = "stopSlave"
    /\ UNCHANGED <<dying, starts, running, slave, per, perSnap, data, queue, delivered,
                   masVars, confirmed>>

(* CS104_Slave_stop: no new request is taken, those under way are ended. *)
StopSlave ==
    /\ owner = "stopSlave"
    /\ slave' = "stopping"
    /\ owner' = "stopWait"
    /\ UNCHANGED <<dying, starts, running, handle, perVars, data, queue, delivered, masVars,
                   confirmed>>

StopWait ==
    /\ owner = "stopWait"
    /\ HandlersIdle
    /\ slave' = "stopped"
    /\ owner' = IF dying THEN "slaveDestroy" ELSE "idle"
    /\ UNCHANGED <<dying, starts, running, handle, perVars, data, queue, delivered, masVars,
                   confirmed>>

(* The destructor of a server that does not run. *)
DestructStopped ==
    /\ owner = "idle" /\ ~running
    /\ dying' = TRUE
    /\ owner' = "slaveDestroy"
    /\ UNCHANGED <<starts, running, slave, handle, perVars, data, queue, delivered, masVars,
                   confirmed>>

SlaveDestroy ==
    /\ owner = "slaveDestroy"
    /\ slave' = "destroyed"
    /\ owner' = "done"
    /\ UNCHANGED <<dying, starts, running, handle, perVars, data, queue, delivered, masVars,
                   confirmed>>

-----------------------------------------------------------------------------
(* periodicSendTask of thread t.  Once the object is gone its next step is *)
(* undefined, so the model stops there.                                    *)

PerWhile(t) ==
    /\ per[t] = "while" /\ owner # "done"
    /\ IF running
         THEN /\ per' = [per EXCEPT ![t] = "snapshot"]
              /\ UNCHANGED freed
         ELSE /\ per' = [per EXCEPT ![t] = "ended"]      \* autodestroy
              /\ freed' = [freed EXCEPT ![t] = @ + 1]
    /\ UNCHANGED <<life, perSnap, data, queue, delivered, masVars, confirmed>>

PerSnapshot(t) ==
    /\ per[t] = "snapshot" /\ owner # "done"
    /\ per' = [per EXCEPT ![t] = "send"]
    /\ perSnap' = [perSnap EXCEPT ![t] = Snapshot]
    /\ UNCHANGED <<life, freed, data, queue, delivered, masVars, confirmed>>

(* Mutant: a new ASDU goes to the front of the queue. *)
EnqueueFront(q, a) == IF Len(q) < QueueSize THEN <<a>> \o q ELSE <<a>> \o Front(q)

(* CS104_Slave_enqueueASDU: a full queue loses its oldest entry. *)
Enqueue(q, a) == IF Len(q) < QueueSize THEN Append(q, a) ELSE Append(Tail(q), a)

PerSend(t) ==
    /\ per[t] = "send" /\ owner # "done"
    /\ per' = [per EXCEPT ![t] = "sleep"]
    /\ queue' = IF perSnap[t] = NoData THEN queue ELSE Enqueue(queue, Asdu(perSnap[t]))
    /\ perSnap' = [perSnap EXCEPT ![t] = NoData]
    /\ UNCHANGED <<life, freed, data, delivered, masVars, confirmed>>

PerSleep(t) ==
    /\ per[t] = "sleep" /\ owner # "done"
    /\ per' = [per EXCEPT ![t] = "while"]
    /\ UNCHANGED <<life, perSnap, freed, data, queue, delivered, masVars, confirmed>>

(* The slave sends the head of its queue to the active master. *)
Deliver ==
    /\ slave = "running"
    /\ queue # << >>
    /\ delivered' = Head(queue)
    /\ queue' = Tail(queue)
    /\ UNCHANGED <<life, perVars, data, masVars, confirmed>>

-----------------------------------------------------------------------------
(* The handlers, called by the library's thread of master m. *)

(* A new request needs a running slave, one under way goes on. *)
Handle(m, from, to) ==
    /\ slave \in (IF from = "idle" THEN {"running"} ELSE {"running", "stopping"})
    /\ mas[m] = from
    /\ mas' = [mas EXCEPT ![m] = to]

Answer(c) == answer' = c

(* interrogationHandler with qoi 20: ACT_CON, ... *)
Interrogation(m) ==
    /\ Handle(m, "idle", "snapshot")
    /\ Answer("ACT_CON")
    /\ asked' = [asked EXCEPT ![m] = [points |-> points, confirmed |-> confirmed]]
    /\ UNCHANGED <<life, perVars, data, queue, delivered, masSnap, command, confirmed>>

(* ... any other group is refused. *)
InterrogationRefused(m) ==
    /\ Handle(m, "idle", "idle")
    /\ Answer("negative")
    /\ UNCHANGED <<life, perVars, data, queue, delivered, masSnap, command, asked, confirmed>>

(* Mutant: the copy made for the periodic ASDU is used. *)
InterrogationSnapshotCached(m) ==
    /\ Handle(m, "snapshot", "send")
    /\ masSnap' = [masSnap EXCEPT ![m] = IF delivered = NoData THEN Snapshot ELSE delivered]
    /\ UNCHANGED <<life, perVars, data, queue, delivered, command, answer, asked, confirmed>>

InterrogationSnapshot(m) ==
    /\ Handle(m, "snapshot", "send")
    /\ masSnap' = [masSnap EXCEPT ![m] = Snapshot]
    /\ UNCHANGED <<life, perVars, data, queue, delivered, command, answer, asked, confirmed>>

(* sendDataPoints: straight to the connection. *)
InterrogationSend(m) ==
    /\ Handle(m, "send", "term")
    /\ masSnap' = [masSnap EXCEPT ![m] = IF @ = NoData THEN @ ELSE Asdu(@)]
    /\ UNCHANGED <<life, perVars, data, queue, delivered, command, answer, asked, confirmed>>

InterrogationTerm(m) ==
    /\ Handle(m, "term", "idle")
    /\ Answer("ACT_TERM")
    /\ masSnap' = [masSnap EXCEPT ![m] = NoData]
    /\ asked' = [asked EXCEPT ![m] = NotAsked]
    /\ UNCHANGED <<life, perVars, data, queue, delivered, command, confirmed>>

(* asduHandler, C_SC_NA_1 with cause ACTIVATION: a single point is         *)
(* written; any other address is left alone ...                            *)
Command(m, i) ==
    /\ Handle(m, "idle", "confirm")
    /\ IF i \in points \cap Single THEN Write(i) ELSE UNCHANGED ver
    /\ command' = [command EXCEPT ![m] = [ioa |-> i, ver |-> ver'[i]]]
    /\ UNCHANGED <<life, perVars, points, queue, delivered, masSnap, answer, asked, confirmed>>

(* ... and the answer is ACTIVATION_CON in both cases. *)
CommandConfirm(m) ==
    /\ Handle(m, "confirm", "idle")
    /\ Answer("ACT_CON")
    /\ confirmed' = IF command[m].ioa \in points \cap Single
                      THEN [confirmed EXCEPT ![command[m].ioa] = Max({@, command[m].ver})]
                      ELSE confirmed
    /\ command' = [command EXCEPT ![m] = NoCommand]
    /\ UNCHANGED <<life, perVars, data, queue, delivered, masSnap, asked>>

(* C_SC_NA_1 whose first element cannot be decoded. *)
CommandNoElement(m) ==
    /\ Handle(m, "idle", "idle")
    /\ Answer("UNKNOWN_IOA")
    /\ UNCHANGED <<life, perVars, data, queue, delivered, masSnap, command, asked, confirmed>>

(* C_SC_NA_1 with another cause. *)
CommandUnknownCot(m) ==
    /\ Handle(m, "idle", "idle")
    /\ Answer("UNKNOWN_COT")
    /\ UNCHANGED <<life, perVars, data, queue, delivered, masSnap, command, asked, confirmed>>

-----------------------------------------------------------------------------
OwnerStep ==
    \/ StartThread \/ StartThreadFails \/ StartFailed
    \/ StopThread \/ StopSlave \/ StopWait \/ SlaveDestroy

PeriodicStep(t) == PerWhile(t) \/ PerSnapshot(t) \/ PerSend(t) \/ PerSleep(t)

HandlerStep(m) ==
    \/ InterrogationSnapshot(m) \/ InterrogationSend(m) \/ InterrogationTerm(m)
    \/ CommandConfirm(m)

Next ==
    \/ \E i \in IOAs : addDataPoint(i) \/ updateDataPoint(i)
    \/ Start \/ Stop \/ DestructStopped \/ OwnerStep
    \/ \E t \in Threads : PeriodicStep(t)
    \/ Deliver
    \/ \E m \in Masters :
          \/ Interrogation(m) \/ InterrogationRefused(m)
          \/ CommandNoElement(m) \/ CommandUnknownCot(m)
          \/ \E i \in IOAs : Command(m, i)
          \/ HandlerStep(m)

Spec == Init /\ [][Next]_vars

-----------------------------------------------------------------------------
(* Properties. *)

(* The answer to an interrogation shows every command that was confirmed   *)
(* to any master before the interrogation was accepted.                    *)
InterrogationFresh ==
    \A m \in Masters : mas[m] = "term" =>
        \A i \in DOMAIN masSnap[m] : masSnap[m][i] >= asked[m].confirmed[i]

(* The answer to a station interrogation (qoi 20) has every point there    *)
(* was when it was accepted.                                               *)
InterrogationComplete ==
    \A m \in Masters : mas[m] = "term" => asked[m].points \subseteq DOMAIN masSnap[m]

(* It has, as long as the points are of one type and fit into one ASDU,    *)
(* also when points are added while the interrogation is answered.         *)
UniformComplete ==
    /\ \A i, j \in points : Kind(i) = Kind(j)
    /\ Cardinality(points) <= Capacity
    => InterrogationComplete

(* In the first life of the server masters never see a point go back in    *)
(* time in the periodic ASDUs, also when the queue overflows or is drained *)
(* late.  After a second start() this fails: stop() does not wait for the  *)
(* first thread, which may still enqueue what it had copied.               *)
PeriodicMonotone ==
    [][starts <= 1 =>
          \A i \in DOMAIN delivered \cap DOMAIN delivered' : delivered[i] <= delivered'[i]]_vars
=============================================================================

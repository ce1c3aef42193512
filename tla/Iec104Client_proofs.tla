------------------------- MODULE Iec104Client_proofs -------------------------
(***************************************************************************)
(* Proofs about Iec104Client for any number of starts.                     *)
(*                                                                         *)
(* The count of last_event_lock_ grows with every event and is never less  *)
(* than one while the worker is outside its section; that is why the       *)
(* worker cannot block although nobody waits for it.  The other parts tie  *)
(* the library's thread to the object's life and to last_event_.           *)
(***************************************************************************)
EXTENDS Iec104Client, TLAPS

SemInv == worker \notin Section => sem >= 1

(* Without a std::thread there is no worker. *)
ThreadInv == thread = "none" => worker = "none"

(* An event is being delivered exactly while the handler runs. *)
DeliveryInv ==
    /\ event = "none" <=> handler = "none"
    /\ conn \in {"idle", "connecting"} => event = "none"

(* The destructor's last two steps come after the library's thread. *)
LifeInv ==
    /\ caller = "done" <=> obj \in {"dead", "aborted"}
    /\ caller \in {"closing", "semDestroy"} => obj = "destroying"
    /\ caller = "semDestroy" => event = "none" /\ conn \in {"idle", "down"}
    /\ obj = "dead" => event = "none"
    /\ caller \in {"idle", "spawn"} => obj = "alive"
    /\ caller \in {"join", "stopDt", "closing", "semDestroy"} => ~running

OpenInv ==
    conn = "open" =>
        /\ handler = "set" => event = "OPENED"
        /\ handler # "set" => lastEvent = "OPENED"

(* The first life of the client: before start() nothing has happened, and  *)
(* after the first one last_event_ and running_ speak of this connection.  *)
FirstLife ==
    /\ starts = 0 =>
         /\ thread = "none" /\ ~running /\ lastEvent = "none" /\ conn = "idle"
         /\ caller \in {"idle", "closing", "semDestroy", "done"}
    /\ starts = 1 =>
         /\ lastEvent \in {"CLOSED", "FAILED"} => conn = "down"
         /\ event \in {"CLOSED", "FAILED"} => conn = "down"
         /\ caller = "spawn" => thread = "none" /\ running
         /\ caller = "stopDt" => thread = "none"
         /\ thread = "joinable" /\ ~running /\ caller # "join" => conn = "down"

IInv ==
    /\ TypeOK
    /\ SemInv
    /\ ThreadInv
    /\ DeliveryInv
    /\ LifeInv
    /\ OpenInv
    /\ FirstLife

-----------------------------------------------------------------------------
LEMMA InitIInv == Init => IInv
<1> SUFFICES ASSUME Init PROVE IInv
    OBVIOUS
<1>1. TypeOK
  <2>1. starts \in 0 .. MaxStarts /\ sem \in Nat
      BY StartsAssumption DEF Init
  <2>2. running \in BOOLEAN /\ startDtSent \in BOOLEAN /\ sent \subseteq Frames
      BY Zenon DEF Init
  <2> QED
      BY <2>1, <2>2 DEF Init, TypeOK, Events, WorkerPCs, CallerPCs
<1>2. SemInv /\ ThreadInv /\ OpenInv
    BY DEF Init, SemInv, ThreadInv, OpenInv
<1>3. DeliveryInv /\ LifeInv
    BY DEF Init, DeliveryInv, LifeInv
<1>4. FirstLife
    BY DEF Init, FirstLife
<1> QED
    BY <1>1, <1>2, <1>3, <1>4 DEF IInv

LEMMA OwnerIInv == IInv /\ (Start \/ Stop \/ Destruct \/ OwnerStep) => IInv'
<1> SUFFICES ASSUME IInv, Start \/ Stop \/ Destruct \/ OwnerStep PROVE IInv'
    OBVIOUS
<1> USE StartsAssumption
        DEF IInv, TypeOK, SemInv, ThreadInv, DeliveryInv, LifeInv, OpenInv, FirstLife, Section,
            WorkerPCs, CallerPCs, libVars
<1>1. CASE Start
    BY <1>1 DEF Start
<1>2. CASE Stop
    BY <1>2 DEF Stop
<1>3. CASE Destruct
    BY <1>3 DEF Destruct
<1>4. CASE StartSpawn
  <2>1. CASE thread = "joinable"
      BY <1>4, <2>1 DEF StartSpawn
  <2>2. CASE thread # "joinable"
      BY <1>4, <2>2 DEF StartSpawn
  <2> QED
      BY <2>1, <2>2
<1>5. CASE StopFlag
  <2>1. ~running' /\ running' \in BOOLEAN
      BY <1>5, Zenon DEF StopFlag
  <2>2. CASE thread = "joinable"
    <3>1. /\ caller = "stopFlag" /\ caller' = "join"
          /\ UNCHANGED <<obj, starts, thread, lastEvent, conn, event>>
        BY <1>5, <2>2 DEF StopFlag
    <3>2. FirstLife'
        BY <2>1, <3>1
    <3>3. LifeInv'
        BY <2>1, <3>1
    <3> QED
        BY <1>5, <2>1, <3>1, <3>2, <3>3 DEF StopFlag
  <2>3. CASE thread # "joinable"
      BY <1>5, <2>1, <2>3 DEF StopFlag
  <2> QED
      BY <2>2, <2>3
<1>6. CASE StopJoin
    BY <1>6 DEF StopJoin
<1>7. CASE StopDt
    BY <1>7 DEF StopDt, Frames
<1>8. CASE CloseConn
    BY <1>8 DEF CloseConn
<1>9. CASE SemDestroy
    BY <1>9 DEF SemDestroy
<1> QED
    BY <1>1, <1>2, <1>3, <1>4, <1>5, <1>6, <1>7, <1>8, <1>9 DEF OwnerStep

LEMMA WorkerIInv == IInv /\ WorkerStep => IInv'
<1> SUFFICES ASSUME IInv, WorkerStep PROVE IInv'
    OBVIOUS
<1> USE DEF IInv, TypeOK, SemInv, ThreadInv, DeliveryInv, LifeInv, OpenInv, FirstLife, Section, WorkerPCs, Goto
<1>1. CASE WorkerWhile
    BY <1>1 DEF WorkerWhile
<1>2. CASE WorkerWait
    BY <1>2 DEF WorkerWait
<1>3. CASE WorkerFirst
    BY <1>3 DEF WorkerFirst, Frames
<1>4. CASE WorkerSecond
  <2>1. running' \in BOOLEAN /\ (running' => running)
      BY <1>4 DEF WorkerSecond
  <2>2. running' = running \/ lastEvent \in {"CLOSED", "FAILED"}
      BY <1>4 DEF WorkerSecond
  <2>3. /\ worker' = "post" /\ sent' \subseteq Frames
        /\ UNCHANGED <<obj, caller, starts, thread, conn, event, handler, startDtSent,
                       lastEvent, sem>>
      BY <1>4 DEF WorkerSecond, Frames
  <2>4. FirstLife'
      BY <1>4, <2>1, <2>2, <2>3 DEF WorkerSecond
  <2> QED
      BY <1>4, <2>1, <2>3, <2>4 DEF WorkerSecond
<1>5. CASE WorkerPost
    BY <1>5 DEF WorkerPost
<1>6. CASE WorkerSleep
    BY <1>6 DEF WorkerSleep
<1> QED
    BY <1>1, <1>2, <1>3, <1>4, <1>5, <1>6 DEF WorkerStep

LEMMA LibIInv == IInv /\ (HandlerStep \/ LibStep) => IInv'
<1> SUFFICES ASSUME IInv, HandlerStep \/ LibStep PROVE IInv'
    OBVIOUS
<1> USE DEF IInv, TypeOK, SemInv, ThreadInv, DeliveryInv, LifeInv, OpenInv, FirstLife, Section, Events
<1>1. CASE obj \notin {"dead", "aborted"} /\ HandlerSet
    BY <1>1 DEF HandlerSet
<1>2. CASE obj \notin {"dead", "aborted"} /\ HandlerPost
    BY <1>2 DEF HandlerPost
<1>3. CASE obj \notin {"dead", "aborted"} /\ HandlerCallback
    BY <1>3 DEF HandlerCallback
<1>4. CASE ConnectOk
    BY <1>4 DEF ConnectOk, LibEvent
<1>5. CASE ConnectFails
    BY <1>5 DEF ConnectFails, LibEvent
<1>6. CASE StartDtConfirmed
    BY <1>6 DEF StartDtConfirmed, LibEvent
<1>7. CASE ConnectionLost
    BY <1>7 DEF ConnectionLost, LibEvent
<1> QED
    BY <1>1, <1>2, <1>3, <1>4, <1>5, <1>6, <1>7 DEF HandlerStep, LibStep

LEMMA NextIInv == IInv /\ [Next]_vars => IInv'
<1> SUFFICES ASSUME IInv, [Next]_vars PROVE IInv'
    OBVIOUS
<1>1. CASE UNCHANGED vars
    BY <1>1 DEF vars, IInv, TypeOK, SemInv, ThreadInv, DeliveryInv, LifeInv, OpenInv,
                FirstLife
<1> QED
    BY <1>1, OwnerIInv, WorkerIInv, LibIInv DEF Next

(* IInv is an invariant of the specification. *)
THEOREM InductiveInvariant == Spec => []IInv
BY InitIInv, NextIInv, PTL DEF Spec

(* The variables keep their types; the semaphore count is not negative. *)
THEOREM TypeCorrect == Spec => []TypeOK
<1>1. IInv => TypeOK
    BY DEF IInv
<1> QED
    BY <1>1, InductiveInvariant, PTL

(* run() never blocks in Semaphore_wait. *)
THEOREM WorkerIsNotBlocked == Spec => []WorkerNeverBlocks
<1>1. IInv => WorkerNeverBlocks
    BY DEF IInv, TypeOK, SemInv, Section, WorkerNeverBlocks
<1> QED
    BY <1>1, InductiveInvariant, PTL

(* connectionHandler does not run on a destroyed client. *)
THEOREM HandlerEndsBeforeDestroy == Spec => []NoEventAfterDestroy
<1>1. IInv => NoEventAfterDestroy
    BY DEF IInv, LifeInv, NoEventAfterDestroy
<1> QED
    BY <1>1, InductiveInvariant, PTL

(* An open connection shows as OPENED in last_event_ until it is started   *)
(* or lost.                                                                *)
THEOREM OpenIsKept == Spec => []OpenNotOverwritten
<1>1. IInv => OpenNotOverwritten
    BY DEF IInv, OpenInv, OpenNotOverwritten
<1> QED
    BY <1>1, InductiveInvariant, PTL

(* The first life of the client: the destructor reaches the members with   *)
(* the worker unjoined only after the connection was lost or refused.      *)
THEOREM UnjoinedHasAReason == Spec => []UnjoinedOnlyAfterLoss
<1>1. IInv => UnjoinedOnlyAfterLoss
  <2> SUFFICES ASSUME IInv, starts = 1, caller \in {"closing", "semDestroy"},
                      thread = "joinable"
               PROVE  conn = "down"
      BY DEF UnjoinedOnlyAfterLoss
  <2>1. ~running
      BY DEF IInv, LifeInv
  <2> QED
      BY <2>1 DEF IInv, FirstLife
<1> QED
    BY <1>1, InductiveInvariant, PTL

(* In its first life the client ends only by stop() or because the         *)
(* connection is down: the worker acts on no event of another connection.  *)
THEOREM FirstLifeEndsForAReason == Spec => EndsForAReason
<1>1. IInv /\ [Next]_vars
          => [starts = 1 /\ running /\ ~running' => caller = "stopFlag" \/ conn = "down"]_vars
  <2> SUFFICES ASSUME IInv, Next, starts = 1, running, ~running'
               PROVE  caller = "stopFlag" \/ conn = "down"
      BY DEF vars
  <2>1. CASE Start \/ Stop \/ Destruct \/ OwnerStep
      BY <2>1 DEF Start, Stop, Destruct, OwnerStep, StartSpawn, StopFlag, StopJoin, StopDt,
                  CloseConn, SemDestroy
  <2>2. CASE WorkerStep
    <3>1. CASE WorkerSecond
        BY <3>1 DEF WorkerSecond, IInv, FirstLife
    <3>2. CASE WorkerWhile \/ WorkerWait \/ WorkerFirst \/ WorkerPost \/ WorkerSleep
        BY <3>2 DEF WorkerWhile, WorkerWait, WorkerFirst, WorkerPost, WorkerSleep
    <3> QED
        BY <2>2, <3>1, <3>2 DEF WorkerStep
  <2>3. CASE HandlerStep \/ LibStep
      BY <2>3 DEF HandlerStep, HandlerSet, HandlerPost, HandlerCallback, LibStep, ConnectOk,
                  ConnectFails, StartDtConfirmed, ConnectionLost, LibEvent
  <2> QED
      BY <2>1, <2>2, <2>3 DEF Next
<1> QED
    BY <1>1, InductiveInvariant, PTL DEF Spec, EndsForAReason
=============================================================================

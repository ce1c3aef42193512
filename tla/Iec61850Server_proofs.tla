------------------------ MODULE Iec61850Server_proofs ------------------------
(***************************************************************************)
(* Proofs about Iec61850Server, for any handles and any number of calls.   *)
(*                                                                         *)
(* The properties follow from who holds what.  A thread exists only while  *)
(* running_ is set or stopServer is about to join it; server_ and          *)
(* svPublisher_ never point at a released handle; and as long as init has  *)
(* not been called over a server, nothing else is allocated or listening.  *)
(***************************************************************************)
EXTENDS Iec61850Server, TLAPS

(* The two pointers are null or allocated, and different. *)
HandleInv ==
    /\ server \in alloc \cup {NULL}
    /\ svPublisher \in alloc \cup {NULL}
    /\ server = svPublisher => server = NULL

(* The update thread unlocks what it has locked before the server goes. *)
LockInv ==
    /\ locked \in alloc \cup {NULL}
    /\ locked # NULL /\ locked \in {server, svPublisher} => thr["dataUpdateThread"] = "unlock"
    /\ locked # NULL => locked # svPublisher
    /\ thr["svThread"] \notin {"lock", "unlock"}

(* Where the owner is tells which threads there are. *)
OwnerInv ==
    /\ pc \in {"idle", "stop", "publisher"} /\ ~running => \A t \in Threads : thr[t] = "none"
    /\ pc = "spawnUpdate" => \A t \in Threads : thr[t] = "none"
    /\ pc \in {"spawnSv"} => thr["svThread"] = "none"
    /\ pc \in {"joinSv", "destroy"} => thr["dataUpdateThread"] = "none"
    /\ pc = "destroy" => thr["svThread"] = "none"
    /\ pc \in {"spawnUpdate", "spawnSv"} => running
    /\ pc \in {"joinUpdate", "joinSv", "destroy"} => ~running /\ server # NULL

ObjInv ==
    /\ obj = "destroying" => pc \in Stopping
    /\ obj = "destroyed" => pc = "idle"

(* Nothing but what the members point at, unless a server was overwritten. *)
CleanInv ==
    ~overwritten =>
        /\ alloc \subseteq {server, svPublisher}
        /\ listening \subseteq {server}
        /\ running => server # NULL
        /\ ~running /\ pc \notin {"joinUpdate", "joinSv", "destroy"} => listening = {}
        /\ server = NULL /\ pc # "publisher" => svPublisher = NULL
        /\ pc = "publisher" => ~running
        /\ NULL \notin listening
        /\ obj # "terminated"
        /\ obj = "destroyed" => svPublisher = NULL /\ ~running

IInv ==
    /\ TypeOK
    /\ HandleInv
    /\ LockInv
    /\ OwnerInv
    /\ ObjInv
    /\ CleanInv

-----------------------------------------------------------------------------
LEMMA InitIInv == Init => IInv
<1> SUFFICES ASSUME Init PROVE IInv
    OBVIOUS
<1>0. running \in BOOLEAN /\ overwritten \in BOOLEAN
    BY Zenon DEF Init
<1>1. TypeOK
    BY <1>0, InitsAssumption DEF Init, TypeOK, OwnerPCs, Stopping, ThreadPCs
<1>2. HandleInv /\ LockInv
    BY DEF Init, HandleInv, LockInv, Threads
<1>3. OwnerInv
    BY DEF Init, OwnerInv, Threads
<1>4. ObjInv /\ CleanInv
    BY DEF Init, ObjInv, CleanInv
<1> QED
    BY <1>1, <1>2, <1>3, <1>4 DEF IInv

(* init, startServer and their failures. *)
LEMMA StartIInv ==
    ASSUME IInv, InitServer \/ StartServer \/ SpawnUpdate \/ SpawnSv \/ SpawnFails \/ StopServer
    PROVE  IInv'
<1> USE HandleAssumption, InitsAssumption
        DEF IInv, TypeOK, HandleInv, LockInv, OwnerInv, ObjInv, CleanInv, OwnerPCs,
            Stopping, ThreadPCs, Threads
<1>1. CASE InitServer
  <2>0. overwritten' \in BOOLEAN /\ inits' \in 0 .. MaxInits
    <3>1. overwritten' \in BOOLEAN
        BY <1>1, Zenon DEF InitServer
    <3> QED
        BY <1>1, <3>1 DEF InitServer
  <2>1. TypeOK'
      BY <1>1, <2>0 DEF InitServer
  <2>2. HandleInv' /\ LockInv'
      BY <1>1 DEF InitServer
  <2>3. OwnerInv' /\ ObjInv'
      BY <1>1 DEF InitServer
  <2>4. CleanInv'
    <3>1. ~overwritten' => ~overwritten /\ server = NULL
        BY <1>1, Zenon DEF InitServer
    <3>2. ~overwritten' => alloc = {} /\ svPublisher = NULL /\ ~running /\ listening = {}
        BY <1>1, <3>1 DEF InitServer
    <3> QED
        BY <1>1, <3>1, <3>2 DEF InitServer
  <2> QED
      BY <2>1, <2>2, <2>3, <2>4
<1>2. CASE StartServer
    BY <1>2 DEF StartServer
<1>3. CASE SpawnUpdate
    BY <1>3 DEF SpawnUpdate, Spawn
<1>4. CASE SpawnSv
    BY <1>4 DEF SpawnSv, Spawn
<1>5. CASE SpawnFails
    BY <1>5 DEF SpawnFails
<1>6. CASE StopServer
    BY <1>6 DEF StopServer
<1> QED
    BY <1>1, <1>2, <1>3, <1>4, <1>5, <1>6

(* The steps of stopServer. *)
LEMMA StopIInv ==
    ASSUME IInv, StopFlag \/ JoinUpdate \/ JoinSv \/ DestroyServer \/ DestroyPublisher
    PROVE  IInv'
<1> USE HandleAssumption, InitsAssumption
        DEF IInv, TypeOK, HandleInv, LockInv, OwnerInv, ObjInv, CleanInv, OwnerPCs,
            Stopping, ThreadPCs, Threads, At, goto, Up
<1>1. CASE StopFlag
  <2>1. CASE server # NULL /\ running
      BY <1>1, <2>1 DEF StopFlag
  <2>2. CASE ~(server # NULL /\ running)
      BY <1>1, <2>2 DEF StopFlag
  <2> QED
      BY <2>1, <2>2
<1>2. CASE JoinUpdate
    BY <1>2 DEF JoinUpdate, Join
<1>3. CASE JoinSv
    BY <1>3 DEF JoinSv, Join
<1>4. CASE DestroyServer
    BY <1>4 DEF DestroyServer
<1>5. CASE DestroyPublisher
  <2>1. TypeOK' /\ ObjInv'
      BY <1>5 DEF DestroyPublisher
  <2>2. HandleInv' /\ LockInv' /\ OwnerInv'
      BY <1>5 DEF DestroyPublisher
  <2>3. CleanInv'
      BY <1>5 DEF DestroyPublisher
  <2> QED
      BY <2>1, <2>2, <2>3
<1> QED
    BY <1>1, <1>2, <1>3, <1>4, <1>5

LEMMA ThreadIInv ==
    ASSUME IInv, NEW t \in Threads, ThreadStep(t)
    PROVE  IInv'
<1> USE HandleAssumption, InitsAssumption
        DEF IInv, TypeOK, HandleInv, LockInv, OwnerInv, ObjInv, CleanInv, OwnerPCs,
            Stopping, ThreadPCs, Threads, ThreadGoes, Up
<1>1. CASE ThreadWhile(t)
    BY <1>1 DEF ThreadWhile
<1>2. CASE ThreadLock(t)
    BY <1>2 DEF ThreadLock
<1>3. CASE ThreadUnlock(t)
    BY <1>3 DEF ThreadUnlock
<1>4. CASE ThreadSleep(t)
    BY <1>4 DEF ThreadSleep
<1> QED
    BY <1>1, <1>2, <1>3, <1>4 DEF ThreadStep

LEMMA NextIInv == IInv /\ [Next]_vars => IInv'
<1> SUFFICES ASSUME IInv, [Next]_vars PROVE IInv'
    OBVIOUS
<1>1. CASE InitServer \/ StartServer \/ StopServer \/ OwnerStep
    BY <1>1, StartIInv, StopIInv DEF OwnerStep
<1>2. CASE \E t \in Threads : ThreadStep(t)
    BY <1>2, ThreadIInv
<1>3. CASE UNCHANGED vars
    BY <1>3 DEF vars, IInv, TypeOK, HandleInv, LockInv, OwnerInv, ObjInv, CleanInv
<1> QED
    BY <1>1, <1>2, <1>3 DEF Next

(* IInv is an invariant of the specification. *)
THEOREM InductiveInvariant == Spec => []IInv
BY InitIInv, NextIInv, PTL DEF Spec

(* The variables keep their types. *)
THEOREM TypeCorrect == Spec => []TypeOK
<1>1. IInv => TypeOK
    BY DEF IInv
<1> QED
    BY <1>1, InductiveInvariant, PTL

(* updateServerData never works on a server that stopServer has destroyed. *)
THEOREM UpdateIsSafe == Spec => []UpdateUsesLiveServer
<1>1. IInv => UpdateUsesLiveServer
    BY DEF IInv, HandleInv, LockInv, UpdateUsesLiveServer
<1> QED
    BY <1>1, InductiveInvariant, PTL

(* A service that is not running has no thread and accepts no client. *)
THEOREM StopIsClean == Spec => []StoppedIsClean
<1>1. IInv => StoppedIsClean
    BY DEF IInv, OwnerInv, CleanInv, StoppedIsClean
<1> QED
    BY <1>1, InductiveInvariant, PTL

(* The destructor joins the threads and releases what was started. *)
THEOREM DestructorIsClean == Spec => []DestructorReleases
<1>1. IInv => DestructorReleases
    BY HandleAssumption DEF IInv, TypeOK, ObjInv, CleanInv, DestructorReleases
<1> QED
    BY <1>1, InductiveInvariant, PTL
=============================================================================

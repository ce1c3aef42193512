--------------------------- MODULE Iec61850Server ---------------------------
(***************************************************************************)
(* ice61850Service (core/iec61850/ice61850Service.cc): an owner calls      *)
(* init, startServer, stopServer and the destructor, in any order the      *)
(* class allows, while the data update thread and the sampled value thread *)
(* run.  server_, running_ and svPublisher_ are plain members that the     *)
(* threads read without a lock; each loop calls a sleep between two reads  *)
(* of running_, so the builds read it afresh.  connectionIndicationHandler *)
(* changes nothing: no code ever makes a client the controlling one.       *)
(***************************************************************************)
EXTENDS Integers, FiniteSets

CONSTANTS
    Handles,   \* identities of IedServer and SVPublisher objects
    NULL,      \* the null pointer
    MaxInits   \* bound on the calls of init

ASSUME HandleAssumption == NULL \notin Handles
ASSUME InitsAssumption == MaxInits \in Nat

VARIABLES
    obj,          \* "alive", "destroying", "destroyed", or "terminated"
    server,       \* server_
    svPublisher,  \* svPublisher_
    running,      \* running_
    alloc,        \* handles that are allocated
    listening,    \* servers between IedServer_start and IedServer_stop
    thr,          \* program counters of the two threads
    locked,       \* the server whose data model the update thread has locked
    pc,           \* what the owner does
    inits,        \* calls of init so far
    overwritten   \* history: init was called while server_ was set

vars == <<obj, server, svPublisher, running, alloc, listening, thr, locked, pc,
          inits, overwritten>>

Threads == {"dataUpdateThread", "svThread"}

(* A std::thread is joinable from its start until it has been joined. *)
ThreadPCs == {"none", "while", "lock", "unlock", "sleep", "ended"}

(* The owner is in startServer, or in stopServer; the destructor calls     *)
(* stopServer, too (obj is "destroying" then).                             *)
Stopping == {"stop", "joinUpdate", "joinSv", "destroy", "publisher"}
OwnerPCs == {"idle", "spawnUpdate", "spawnSv"} \cup Stopping

(* The threads run as long as the process does. *)
Up == obj \in {"alive", "destroying"}

TypeOK ==
    /\ obj \in {"alive", "destroying", "destroyed", "terminated"}
    /\ server \in Handles \cup {NULL}
    /\ svPublisher \in Handles \cup {NULL}
    /\ running \in BOOLEAN
    /\ alloc \subseteq Handles
    /\ listening \subseteq Handles
    /\ thr \in [Threads -> ThreadPCs]
    /\ locked \in Handles \cup {NULL}
    /\ pc \in OwnerPCs
    /\ inits \in 0 .. MaxInits
    /\ overwritten \in BOOLEAN

Init ==
    /\ obj = "alive"
    /\ server = NULL
    /\ svPublisher = NULL
    /\ running = FALSE
    /\ alloc = {}
    /\ listening = {}
    /\ thr = [t \in Threads |-> "none"]
    /\ locked = NULL
    /\ pc = "idle"
    /\ inits = 0
    /\ overwritten = FALSE

-----------------------------------------------------------------------------
(* init: a new server and a new publisher; the old ones are not released.  *)
(* Either may fail to be created.                                          *)
InitServer ==
    /\ obj = "alive" /\ pc = "idle" /\ inits < MaxInits
    /\ inits' = inits + 1
    /\ overwritten' = (overwritten \/ server # NULL)
    /\ \/ /\ server' = NULL
          /\ UNCHANGED <<svPublisher, alloc>>
       \/ \E s \in Handles \ alloc, p \in (Handles \ alloc) \cup {NULL} :
             /\ p # s
             /\ server' = s
             /\ svPublisher' = p
             /\ alloc' = alloc \cup ({s, p} \ {NULL})
    /\ UNCHANGED <<obj, running, listening, thr, locked, pc>>

(* Mutant: a server that runs is started again. *)
StartServerTwice ==
    /\ obj = "alive" /\ pc = "idle" /\ server # NULL
    /\ listening' = listening \cup {server}
    /\ running' = TRUE
    /\ pc' = "spawnUpdate"
    /\ UNCHANGED <<obj, server, svPublisher, alloc, thr, locked, inits, overwritten>>

(* startServer up to the threads.  When IedServer_start fails, it returns  *)
(* with nothing changed.                                                   *)
StartServer ==
    /\ obj = "alive" /\ pc = "idle" /\ server # NULL /\ ~running
    /\ listening' = listening \cup {server}
    /\ running' = TRUE
    /\ pc' = "spawnUpdate"
    /\ UNCHANGED <<obj, server, svPublisher, alloc, thr, locked, inits, overwritten>>

(* Assigning to a joinable std::thread terminates the process. *)
Spawn(t, next) ==
    /\ IF thr[t] = "none"
         THEN thr' = [thr EXCEPT ![t] = "while"] /\ UNCHANGED obj
         ELSE obj' = "terminated" /\ UNCHANGED thr
    /\ pc' = next
    /\ UNCHANGED <<server, svPublisher, running, alloc, listening, locked, inits, overwritten>>

SpawnUpdate == obj = "alive" /\ pc = "spawnUpdate" /\ Spawn("dataUpdateThread", "spawnSv")

SpawnSv == obj = "alive" /\ pc = "spawnSv" /\ Spawn("svThread", "idle")

(* Mutant: the exception handler takes running_ back and nothing else. *)
SpawnFailsClears ==
    /\ obj = "alive" /\ pc \in {"spawnUpdate", "spawnSv"}
    /\ running' = FALSE
    /\ pc' = "idle"
    /\ UNCHANGED <<obj, server, svPublisher, alloc, listening, thr, locked, inits, overwritten>>

(* No thread can be created: the exception is caught and startServer       *)
(* returns false, with running_ set and the server listening.              *)
SpawnFails ==
    /\ obj = "alive" /\ pc \in {"spawnUpdate", "spawnSv"}
    /\ pc' = "idle"
    /\ UNCHANGED <<obj, server, svPublisher, running, alloc, listening, thr, locked, inits,
                   overwritten>>

-----------------------------------------------------------------------------
(* stopServer is called, or the destructor, which calls it. *)
StopServer ==
    /\ obj = "alive" /\ pc = "idle"
    /\ obj' \in {"alive", "destroying"}
    /\ pc' = "stop"
    /\ UNCHANGED <<server, svPublisher, running, alloc, listening, thr, locked, inits,
                   overwritten>>

At(step) == Up /\ pc = step

goto(step) == pc' = step

(* Mutant: the flag is left alone, so the threads go on. *)
StopFlagKeeps ==
    /\ At("stop")
    /\ goto(IF server # NULL /\ running THEN "joinUpdate" ELSE "publisher")
    /\ UNCHANGED running
    /\ UNCHANGED <<obj, server, svPublisher, alloc, listening, thr, locked, inits, overwritten>>

StopFlag ==
    /\ At("stop")
    /\ IF server # NULL /\ running
         THEN running' = FALSE /\ goto("joinUpdate")
         ELSE goto("publisher") /\ UNCHANGED running
    /\ UNCHANGED <<obj, server, svPublisher, alloc, listening, thr, locked, inits, overwritten>>

(* Mutant: the update thread is detached instead of joined. *)
JoinDetaches(t, here, next) ==
    /\ At(here)
    /\ thr' = [thr EXCEPT ![t] = IF t = "svThread" THEN "none" ELSE @]
    /\ goto(next)
    /\ UNCHANGED <<obj, server, svPublisher, running, alloc, listening, locked, inits,
                   overwritten>>

(* joinable() and join() of one thread. *)
Join(t, here, next) ==
    /\ At(here)
    /\ thr[t] \in {"none", "ended"}
    /\ thr' = [thr EXCEPT ![t] = "none"]
    /\ goto(next)
    /\ UNCHANGED <<obj, server, svPublisher, running, alloc, listening, locked, inits,
                   overwritten>>

JoinUpdate == Join("dataUpdateThread", "joinUpdate", "joinSv")

JoinSv == Join("svThread", "joinSv", "destroy")

(* IedServer_stop, IedServer_destroy, server_ = nullptr. *)
DestroyServer ==
    /\ At("destroy")
    /\ listening' = listening \ {server}
    /\ alloc' = alloc \ {server}
    /\ server' = NULL
    /\ goto("publisher")
    /\ UNCHANGED <<obj, svPublisher, running, thr, locked, inits, overwritten>>

(* The end of stopServer; in the destructor the members are destroyed      *)
(* after it, and a joinable thread then terminates the process.            *)
DestroyPublisher ==
    /\ At("publisher")
    /\ alloc' = alloc \ {svPublisher}
    /\ svPublisher' = NULL
    /\ obj' = IF obj = "alive" THEN obj
              ELSE IF \A t \in Threads : thr[t] = "none" THEN "destroyed" ELSE "terminated"
    /\ pc' = "idle"
    /\ UNCHANGED <<server, running, listening, thr, locked, inits, overwritten>>

OwnerStep ==
    \/ SpawnUpdate \/ SpawnSv \/ SpawnFails
    \/ StopFlag \/ JoinUpdate \/ JoinSv \/ DestroyServer \/ DestroyPublisher

-----------------------------------------------------------------------------
(* The two threads. *)
ThreadGoes(t, here, next) == Up /\ thr[t] = here /\ thr' = [thr EXCEPT ![t] = next]

ThreadWhile(t) ==
    /\ ThreadGoes(t, "while", IF ~running THEN "ended"
                              ELSE IF t = "svThread" THEN "sleep" ELSE "lock")
    /\ UNCHANGED <<obj, server, svPublisher, running, alloc, listening, locked, pc, inits,
                   overwritten>>

(* updateServerData reads server_ once for the lock and once for the       *)
(* unlock; a null server_ ends the process.                                *)
ThreadLock(t) ==
    /\ IF server = NULL
         THEN Up /\ thr[t] = "lock" /\ obj' = "terminated" /\ UNCHANGED <<thr, locked>>
         ELSE ThreadGoes(t, "lock", "unlock") /\ locked' = server /\ UNCHANGED obj
    /\ UNCHANGED <<server, svPublisher, running, alloc, listening, pc, inits, overwritten>>

ThreadUnlock(t) ==
    /\ IF server = NULL
         THEN Up /\ thr[t] = "unlock" /\ obj' = "terminated" /\ UNCHANGED <<thr, locked>>
         ELSE /\ ThreadGoes(t, "unlock", "sleep")
              /\ locked' = IF server = locked THEN NULL ELSE locked
              /\ UNCHANGED obj
    /\ UNCHANGED <<server, svPublisher, running, alloc, listening, pc, inits, overwritten>>

ThreadSleep(t) ==
    /\ ThreadGoes(t, "sleep", "while")
    /\ UNCHANGED <<obj, server, svPublisher, running, alloc, listening, locked, pc, inits,
                   overwritten>>

ThreadStep(t) == ThreadWhile(t) \/ ThreadLock(t) \/ ThreadUnlock(t) \/ ThreadSleep(t)

Next == InitServer \/ StartServer \/ StopServer \/ OwnerStep \/ \E t \in Threads : ThreadStep(t)

Spec == Init /\ [][Next]_vars

(* A call that was made goes on, and the threads are scheduled. *)
Fairness == WF_vars(OwnerStep) /\ \A t \in Threads : WF_vars(ThreadStep(t))

FairSpec == Spec /\ Fairness

-----------------------------------------------------------------------------
(* Properties. *)

(* While the update thread is inside updateServerData, server_ is not a    *)
(* server that has been destroyed, and the one it has locked is still      *)
(* allocated: stopServer joins the thread before it destroys the server.   *)
UpdateUsesLiveServer ==
    thr["dataUpdateThread"] \in {"lock", "unlock"} =>
        server \in alloc \cup {NULL} /\ locked \in alloc \cup {NULL}

(* When no call is in progress and running_ is false, no thread is left    *)
(* and no server accepts clients, however often the service was started,   *)
(* failed to start or was stopped.  The only way around this is an init    *)
(* over a server that is still there.                                      *)
StoppedIsClean ==
    pc = "idle" /\ obj = "alive" /\ ~running =>
        /\ \A t \in Threads : thr[t] = "none"
        /\ overwritten \/ listening = {}

(* The destructor releases everything but a server that was never started  *)
(* or failed to start, and the process is not terminated by a thread that  *)
(* was not joined, unless init was called over an earlier server.          *)
DestructorReleases ==
    ~overwritten =>
        /\ obj # "terminated"
        /\ obj = "destroyed" => alloc \subseteq {server} /\ listening = {}

(* stopServer and the destructor return: the joins end, as both loops look *)
(* at running_ again.                                                      *)
StopReturns == pc \in Stopping ~> pc = "idle" \/ obj = "terminated"

=============================================================================

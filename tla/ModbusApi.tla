------------------------------ MODULE ModbusApi ------------------------------
(***************************************************************************)
(* One ModbusApi object (core/modbus/modbus_api.cc): the connection of one *)
(* Modbus device.  The libmodbus context ctx_ is shared by                 *)
(*   - the user threads (poll tasks of AppModbus, writers), which hold     *)
(*     ctxMutex_ through readRegisters, writeRegister and writeRegisters   *)
(*     but not through set_debug, and                                      *)
(*   - the detached thread of reconnectLoop, which never takes ctxMutex_.  *)
(* ctx_ is a plain pointer, so the unlocked accesses are data races; an    *)
(* aligned pointer is read and written whole by the builds of this         *)
(* repository, and every access to it is a step of its own here.           *)
(***************************************************************************)
EXTENDS Integers, FiniteSets

CONSTANTS
    Users,       \* threads that call the public operations
    Ctxs,        \* identities of modbus_t contexts
    NULL,        \* the null pointer, and "no thread" for the mutex
    MaxRetries,  \* maxRetries_; zero or less means "retry for ever"
    Configs      \* which device configurations are considered

ASSUME NullAssumption == NULL \notin Ctxs /\ NULL \notin Users
ASSUME RetryAssumption == MaxRetries \in Int
ASSUME ConfigAssumption == Configs \subseteq {"ok", "badNew", "badSlave"}

VARIABLES
    config,     \* "badNew": modbus_new_* refuses; "badSlave": set_slave does
    reachable,  \* environment: the device accepts connections now
    obj,        \* the ModbusApi object: "alive" or "destroyed"
    ctx,        \* ctx_
    heap,       \* each context: "free", "live", or "lost" (live, no owner)
    mutex,      \* ctxMutex_: its holder or NULL
    runing,     \* runing_
    user,       \* program counter of each user thread
    loop,       \* program counter of the reconnectLoop thread
    retries,    \* its local retry counter
    newCtx      \* local ctx of createModbusContext

vars == <<config, reachable, obj, ctx, heap, mutex, runing, user, loop,
          retries, newCtx>>

(***************************************************************************)
(* User program counters: "idle"; "check", "io", "close", "free", "null"   *)
(* inside the mutex; "debug" between the test and the use in set_debug.    *)
(***************************************************************************)
InMutex == {"check", "io", "close", "free", "null"}
UserPCs == {"idle", "debug"} \cup InMutex

(***************************************************************************)
(* Reconnect program counters.  "done" is the exit through runing_,        *)
(* "exhausted" the break after maxRetries_ failures, "ub" a step taken on  *)
(* an object that is already destroyed: anything may happen from there.    *)
(***************************************************************************)
Creating == {"new", "connect", "publish", "destroy"}
LoopPCs == {"while", "test", "failed", "sleep", "done", "exhausted", "ub"}
             \cup Creating
LoopEnded == {"done", "exhausted", "ub"}

TypeOK ==
    /\ config \in Configs
    /\ reachable \in BOOLEAN
    /\ obj \in {"alive", "destroyed"}
    /\ ctx \in Ctxs \cup {NULL}
    /\ heap \in [Ctxs -> {"free", "live", "lost"}]
    /\ mutex \in Users \cup {NULL}
    /\ runing \in BOOLEAN
    /\ user \in [Users -> UserPCs]
    /\ loop \in LoopPCs
    /\ retries \in Nat
    /\ newCtx \in Ctxs \cup {NULL}

(***************************************************************************)
(* The constructor: one attempt to connect, then the loop is spawned.  No  *)
(* other thread can reach the object before that.  A failed attempt leaves *)
(* its context behind (see LoopDestroy), unless modbus_new_* gave none.    *)
(***************************************************************************)
Init ==
    /\ config \in Configs
    /\ reachable \in BOOLEAN
    /\ obj = "alive"
    /\ \/ /\ config = "badNew"
          /\ ctx = NULL
          /\ heap = [c \in Ctxs |-> "free"]
       \/ /\ config # "badNew"
          /\ \E c \in Ctxs :
                IF config = "ok" /\ reachable
                  THEN /\ ctx = c
                       /\ heap = [d \in Ctxs |-> IF d = c THEN "live" ELSE "free"]
                  ELSE /\ ctx = NULL
                       /\ heap = [d \in Ctxs |-> IF d = c THEN "lost" ELSE "free"]
    /\ mutex = NULL
    /\ runing = TRUE
    /\ user = [u \in Users |-> "idle"]
    /\ loop = "while"
    /\ retries = 0
    /\ newCtx = NULL

-----------------------------------------------------------------------------
(* User threads.  readRegisters, writeRegister and writeRegisters have one *)
(* control flow; they differ in the libmodbus request only.                *)

goto(u, pc) == user' = [user EXCEPT ![u] = pc]

(* Mutant: the operations do not exclude each other. *)
LockNoWait(u) ==
    /\ obj = "alive"
    /\ user[u] = "idle"
    /\ mutex' = u
    /\ goto(u, "check")
    /\ UNCHANGED <<config, reachable, obj, ctx, heap, runing, loop, retries, newCtx>>

Lock(u) ==
    /\ obj = "alive"
    /\ user[u] = "idle"
    /\ mutex = NULL
    /\ mutex' = u
    /\ goto(u, "check")
    /\ UNCHANGED <<config, reachable, obj, ctx, heap, runing, loop, retries, newCtx>>

(* The scope of lock_guard ends with the call. *)
Return(u) == mutex' = NULL /\ goto(u, "idle")

CheckCtx(u) ==
    /\ user[u] = "check"
    /\ IF ctx = NULL
         THEN Return(u)
         ELSE goto(u, "io") /\ UNCHANGED mutex
    /\ UNCHANGED <<config, reachable, obj, ctx, heap, runing, loop, retries, newCtx>>

(* The request may succeed only while the device answers; it may fail at   *)
(* any time: time-out, reset, or a Modbus exception response.              *)
Transfer(u) ==
    /\ user[u] = "io"
    /\ \/ reachable /\ Return(u)
       \/ goto(u, "close") /\ UNCHANGED mutex
    /\ UNCHANGED <<config, reachable, obj, ctx, heap, runing, loop, retries, newCtx>>

(* destroy() after a failed request: test, modbus_close, modbus_free,      *)
(* ctx_ = NULL, each visible to the reconnect thread.                      *)
Close(u) ==
    /\ user[u] = "close"
    /\ IF ctx = NULL
         THEN Return(u)
         ELSE goto(u, "free") /\ UNCHANGED mutex
    /\ UNCHANGED <<config, reachable, obj, ctx, heap, runing, loop, retries, newCtx>>

Free(u) ==
    /\ user[u] = "free"
    /\ heap' = [c \in Ctxs |-> IF c = ctx THEN "free" ELSE heap[c]]
    /\ goto(u, "null")
    /\ UNCHANGED <<config, reachable, obj, ctx, mutex, runing, loop, retries, newCtx>>

ClearCtx(u) ==
    /\ user[u] = "null"
    /\ ctx' = NULL
    /\ Return(u)
    /\ UNCHANGED <<config, reachable, obj, heap, runing, loop, retries, newCtx>>

(* set_debug: tests ctx_, then reads it again for modbus_set_debug, with   *)
(* no lock in between.                                                     *)
SetDebugTest(u) ==
    /\ obj = "alive"
    /\ user[u] = "idle"
    /\ ctx # NULL
    /\ goto(u, "debug")
    /\ UNCHANGED <<config, reachable, obj, ctx, heap, mutex, runing, loop, retries, newCtx>>

SetDebugUse(u) ==
    /\ user[u] = "debug"
    /\ goto(u, "idle")
    /\ UNCHANGED <<config, reachable, obj, ctx, heap, mutex, runing, loop, retries, newCtx>>

UserStep(u) ==
    \/ CheckCtx(u) \/ Transfer(u) \/ Close(u) \/ Free(u) \/ ClearCtx(u)
    \/ SetDebugUse(u)

-----------------------------------------------------------------------------
(* The reconnect thread. *)

(* Mutant: stop() is not looked at. *)
LoopWhileForever ==
    /\ loop = "while" /\ obj = "alive"
    /\ loop' = "test"
    /\ UNCHANGED <<config, reachable, obj, ctx, heap, mutex, runing, user, retries, newCtx>>

LoopWhile ==
    /\ loop = "while" /\ obj = "alive"
    /\ loop' = IF runing THEN "test" ELSE "done"
    /\ UNCHANGED <<config, reachable, obj, ctx, heap, mutex, runing, user, retries, newCtx>>

(* Mutant: the loop connects again without looking at ctx_. *)
LoopTestAlways ==
    /\ loop = "test" /\ obj = "alive"
    /\ loop' = IF MaxRetries > 0 /\ retries >= MaxRetries THEN "exhausted" ELSE "new"
    /\ UNCHANGED <<config, reachable, obj, ctx, heap, mutex, runing, user, retries, newCtx>>

LoopTest ==
    /\ loop = "test" /\ obj = "alive"
    /\ loop' = CASE ctx # NULL -> "sleep"
                 [] ctx = NULL /\ MaxRetries > 0 /\ retries >= MaxRetries -> "exhausted"
                 [] OTHER -> "new"
    /\ UNCHANGED <<config, reachable, obj, ctx, heap, mutex, runing, user, retries, newCtx>>

(* modbus_new_tcp or modbus_new_rtu.  Lost contexts are never touched      *)
(* again, so their identities may be used again.                           *)
LoopNew ==
    /\ loop = "new" /\ obj = "alive"
    /\ \/ /\ config = "badNew"
          /\ loop' = "failed"
          /\ UNCHANGED <<heap, newCtx>>
       \/ /\ config # "badNew"
          /\ \E c \in {d \in Ctxs : heap[d] # "live"} :
                /\ heap' = [heap EXCEPT ![c] = "live"]
                /\ newCtx' = c
          /\ loop' = "connect"
    /\ UNCHANGED <<config, reachable, obj, ctx, mutex, runing, user, retries>>

(* modbus_set_slave and modbus_connect. *)
LoopConnect ==
    /\ loop = "connect" /\ obj = "alive"
    /\ loop' = IF config = "ok" /\ reachable THEN "publish" ELSE "destroy"
    /\ UNCHANGED <<config, reachable, obj, ctx, heap, mutex, runing, user, retries, newCtx>>

(* The failure paths of createModbusContext call destroy(), which closes   *)
(* the member ctx_ and not the local context that failed to connect.       *)
LoopDestroy ==
    /\ loop = "destroy" /\ obj = "alive"
    /\ heap' = [c \in Ctxs |-> IF c = newCtx THEN "lost"
                               ELSE IF c = ctx THEN "free" ELSE heap[c]]
    /\ ctx' = NULL
    /\ newCtx' = NULL
    /\ loop' = "failed"
    /\ UNCHANGED <<config, reachable, obj, mutex, runing, user, retries>>

(* Mutant: a connection does not end the loop's work, so the counter goes  *)
(* on and the loop gives up while ctx_ is in use.                          *)
LoopPublishGivesUp ==
    /\ loop = "publish" /\ obj = "alive"
    /\ ctx' = newCtx
    /\ newCtx' = NULL
    /\ loop' = IF MaxRetries > 0 /\ retries >= MaxRetries - 1 THEN "exhausted" ELSE "while"
    /\ UNCHANGED <<config, reachable, obj, heap, mutex, runing, user, retries>>

(* Mutant: the new context is not assigned to ctx_. *)
LoopPublishNothing ==
    /\ loop = "publish" /\ obj = "alive"
    /\ newCtx' = NULL
    /\ retries' = 0
    /\ loop' = "while"
    /\ UNCHANGED <<config, reachable, obj, ctx, heap, mutex, runing, user>>

LoopPublish ==
    /\ loop = "publish" /\ obj = "alive"
    /\ ctx' = newCtx
    /\ newCtx' = NULL
    /\ retries' = 0
    /\ loop' = "while"
    /\ UNCHANGED <<config, reachable, obj, heap, mutex, runing, user>>

(* createModbusContext returned nullptr: it is assigned to ctx_, too.  The *)
(* counter is only compared when maxRetries_ is positive.                  *)
LoopFailed ==
    /\ loop = "failed" /\ obj = "alive"
    /\ ctx' = NULL
    /\ retries' = IF MaxRetries > 0 THEN retries + 1 ELSE retries
    /\ loop' = "sleep"
    /\ UNCHANGED <<config, reachable, obj, heap, mutex, runing, user, newCtx>>

LoopSleep ==
    /\ loop = "sleep"
    /\ loop' = "while"
    /\ UNCHANGED <<config, reachable, obj, ctx, heap, mutex, runing, user, retries, newCtx>>

(* Every other step reads or writes members of the object. *)
LoopAfterDestroy ==
    /\ obj = "destroyed"
    /\ loop \notin LoopEnded \cup {"sleep"}
    /\ loop' = "ub"
    /\ UNCHANGED <<config, reachable, obj, ctx, heap, mutex, runing, user, retries, newCtx>>

LoopStep ==
    \/ LoopWhile \/ LoopTest \/ LoopNew \/ LoopConnect \/ LoopDestroy
    \/ LoopPublish \/ LoopFailed \/ LoopSleep \/ LoopAfterDestroy

-----------------------------------------------------------------------------
Stop ==
    /\ obj = "alive" /\ runing
    /\ runing' = FALSE
    /\ UNCHANGED <<config, reachable, obj, ctx, heap, mutex, user, loop, retries, newCtx>>

(* The destructor runs when the last shared_ptr goes, so after the last    *)
(* call of every user thread; the detached loop owns no shared_ptr.        *)
Destruct ==
    /\ obj = "alive"
    /\ \A u \in Users : user[u] = "idle"
    /\ heap' = [c \in Ctxs |-> IF c = ctx THEN "free" ELSE heap[c]]
    /\ ctx' = NULL
    /\ obj' = "destroyed"
    /\ UNCHANGED <<config, reachable, mutex, runing, user, loop, retries, newCtx>>

(* Environment: the device or the network comes and goes. *)
DeviceFlips ==
    /\ reachable' = ~reachable
    /\ UNCHANGED <<config, obj, ctx, heap, mutex, runing, user, loop, retries, newCtx>>

Next ==
    \/ \E u \in Users : Lock(u) \/ SetDebugTest(u) \/ UserStep(u)
    \/ LoopStep
    \/ Stop
    \/ Destruct
    \/ DeviceFlips

Spec == Init /\ [][Next]_vars

(* Threads are scheduled and libmodbus calls time out, so a started call   *)
(* and the reconnect loop keep moving.  Nothing obliges a user to call.    *)
Fairness == WF_vars(LoopStep) /\ \A u \in Users : WF_vars(UserStep(u))

FairSpec == Spec /\ Fairness

-----------------------------------------------------------------------------
(* Properties. *)

(* A locked operation that is past its NULL test works on an allocated     *)
(* context until its own destroy() frees it, although the reconnect thread *)
(* reads, replaces and may free ctx_ without the lock.                     *)
LockedCallsSafe ==
    \A u \in Users : user[u] \in {"io", "close", "free"} =>
        ctx # NULL /\ heap[ctx] = "live"

(* A published context is taken away only by a user thread whose request   *)
(* failed, or by the destructor: the reconnect thread, which looks at ctx_ *)
(* and assigns it without the lock, never replaces or clears one that is   *)
(* in use.  set_debug, which takes no lock either, is safe because of this *)
(* as long as one thread uses the object.                                  *)
PublishedCtxKept ==
    [][ctx # NULL /\ ctx' # ctx
          => obj' = "destroyed" \/ \E u \in Users : user[u] = "null"]_vars

(* A context that is neither freed nor given up by a failed attempt is     *)
(* owned: it is ctx_ or the local of createModbusContext.  Losing the race *)
(* between destroy() and a reconnect would leak an open connection.        *)
NoOrphanContext ==
    \A c \in Ctxs : heap[c] = "live" => c \in {ctx, newCtx}

(* The gateway never holds two contexts of one device: the reconnect loop  *)
(* only creates one while ctx_ is NULL, and nobody else publishes one.     *)
(* (A serial port can be opened once; a TCP slave may accept one master.)  *)
OneConnection ==
    \A c, d \in Ctxs : heap[c] = "live" /\ heap[d] = "live" => c = d

(* Once the loop has broken out after maxRetries_ failures the device      *)
(* stays disconnected: no other code publishes a context.                  *)
ExhaustedMeansDown == loop = "exhausted" => ctx = NULL

(* Seen from its users, the object is one link that is opened, established *)
(* and dropped, one connection after the other, and given up for good: the *)
(* racing steps of the threads on ctx_ are steps of DeviceLink or none.    *)
(* The link is up while ctx_ points at an allocated context; closing it in *)
(* three steps counts as dropped with modbus_free.                         *)
Live == {c \in Ctxs : heap[c] = "live"}

Link == INSTANCE DeviceLink WITH
    Conns  <- Ctxs,
    opened <- Live,
    link   <- IF ctx \in Live THEN "up"
              ELSE IF loop = "exhausted" THEN "gaveUp" ELSE "down"

ImplementsDeviceLink == Link!Spec

(* While the device stays reachable and the object is in use, a lost       *)
(* connection is established again, unless the loop has given up.          *)
Reconnects ==
    config = "ok" /\ <>[](reachable /\ runing /\ obj = "alive")
        => <>(loop = "exhausted") \/ []<>(ctx # NULL)

(* stop() makes the detached loop end, wherever it is. *)
StopEndsLoop == ~runing ~> loop \in LoopEnded

=============================================================================

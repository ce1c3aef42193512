# A TLA+ model of IEC61850DataGateway

The gateway collects data points from field devices (Modbus, IEC 60870-5-104,
IEC 61850), keeps them in Redis and offers them over IEC 60870-5-104 and
IEC 61850. It is C++ with many threads: thread pools, detached threads and
callbacks of protocol libraries. This directory models its core, checks the
models with TLC on small instances and proves the most important invariants
with TLAPS for every instance. Paths below are relative to the repository.

## Inventory

| part | state | operations | interaction | what is hard |
|---|---|---|---|---|
| `ModbusApi` (`core/modbus/modbus_api.*`) | `ctx_`, `ctxMutex_`, `runing_`, retry counter | read and write registers, `set_debug`, `stop`, destructor, `reconnectLoop` | libmodbus; called by poll tasks | the detached loop shares `ctx_` without the mutex |
| Modbus poll (`app_modbus_client.cc`) | sorted points, range, buffer | `processContinuousRegisters`, `findContinuousRegisters`, `processUserData` | reads through `ModbusApi`, writes to Redis | range boundaries, partial failure |
| `AppModbus` (`app_modbus_client.*`) | `devices_`, `running_`, pool | `run`, `runTask`, `stop` | creates `ModbusApi` objects, uses `BS::thread_pool` | stop during start, repeated calls, pool size |
| `IEC104Client` (`core/iec104/iec104Client.*`) | `running_`, `start_dt_sent_`, `last_event_`, semaphore, worker thread | `start`, `stop`, destructor, `run`, `connectionHandler` | lib60870 calls back on its own thread | lost events, join, destruction order |
| `IEC104ClientManger` | list of clients | `initClients`, destructor | owns the clients | none of its own |
| `IEC104Server` (`core/iec104/iec104Service.*`) | `dataPoints_`, `running_`, periodic thread, slave | add, update, `start`, `stop`, periodic sending, interrogation, commands | lib60870 calls handlers per master | shared points, thread ownership |
| Redis client (`core/redis-api`) | `context_`, `initialized` | store, load, pipelines, reconnect | hiredis | context after a failed reconnect, lost replies |
| IEC 61850 client and manager (`core/iec61850`) | `clients_`, per client `con_`, a detached reader | `initClients`, `addClient`, `removeClient`, `init`, `connect`, `disconnect`, destructors | libiec61850; takes its devices from Config, stores in Redis | a reader that outlives its client, two connects |
| IEC 61850 server (`ice61850Service.*`) | `server_`, `svPublisher_`, `running_`, two threads | `init`, `startServer`, `stopServer`, destructor | libiec61850 | join before destroy, a start that fails half-way, repeated `init` |
| Config (`common/config`) | devices per protocol | `init`, `loadConfig`, one parser per section | read by all at start | faults in the middle of a file |
| Logger and rotating sink (`common/log`, spdlog's `file_helper`) | log file, its size, renamed files | log, flush, rotate, `Uinit` | stdio, the file system | crashes and failures inside a rotation, writes that fail in the middle, equal file names |
| ICD parser | - | parse | used by the IEC 61850 client | - |
| `main.cc` | - | loads the configuration, creates the parts | - | at this commit it starts the 104 server and client and logs to the console; the calls of `AppModbus` and IEC 61850 are commented out |

What makes the parts correct:

- `ModbusApi`: no use of a freed context, no leaked or second connection,
  reconnection while the device can be reached, an end after `stop`.
- poll: every configured register is requested, exactly once and whatever fails;
  what is stored under a name comes from that point's registers.
- `AppModbus`: every usable device is polled after `run`, quiet after `stop`.
- `IEC104Client`: an open connection is started, a lost one noticed; `stop` and
  the destructor return, and no event reaches a destroyed object.
- `IEC104Server`: answers are complete and not older than what was confirmed;
  periodic values never go back.
- Redis client: replies go to the commands they answer, what is reported is what
  happened, the context is freed once, a broken connection is replaced.
- IEC 61850 client manager: a sound device is tried whatever else is wrong in the
  file; clients that are kept stay usable; nothing is left open without a reason.
- IEC 61850 server: its threads never meet a destroyed server; after `stopServer`
  nothing runs or listens; the destructor releases everything.
- log sink: size and number of files are bounded, the oldest go first, messages
  are not lost but in known ways, whatever fails and wherever the process dies.

`PROJECT.json` lists the hazards with their lines, and the properties for each.

## Modules

| module | models | checked by |
|---|---|---|
| `ModbusApi` | one `ModbusApi` object, its users and its reconnect thread | run `ModbusApi`, `ModbusApi_proofs` |
| `DeviceLink` | abstract specification: what `ModbusApi` promises its users | `ModbusApi` refines it: run `ModbusApi`, `ModbusApi_proofs` |
| `ModbusPoll` | the poll of one device | runs `ModbusPoll`, `ModbusPollGap` (with `MCModbusPoll`), `AppModbus_proofs` |
| `AppModbus` | start and stop of all polls, with the pool | run `AppModbus`, `AppModbus_proofs` |
| `Iec104Client` | one client: owner, worker, library thread | runs `Iec104Client*`, `Iec104Client_proofs` |
| `Iec104Server` | one server: application, owner, periodic thread, masters | runs `Iec104Server*` (with `MCIec104Server`), `Iec104Server_proofs` |
| `RedisClient` | one `DRDSDataRedis` object, the connection and the server | run `RedisClient`, `RedisClient_proofs` |
| `Config` | loading of the configuration, as operators | through `Iec61850Client` |
| `Iec61850Client` | start of the gateway, client manager, clients and readers | run `Iec61850Client` (with `MCIec61850Client`), `Iec61850Client_proofs` |
| `Iec61850Server` | one server: owner and two threads | run `Iec61850Server`, `Iec61850Server_proofs` |
| `LogSink` | the rotating log file, on disk and in memory | run `LogSink`, `LogSink_proofs` |

Definitions whose comment begins with "Mutant" are faulty variants of the
definition that follows; they are used by no specification. Each property is
paired in `PROJECT.json` with a mutant that breaks it.

### ModbusApi

`ctx`, `mutex`, `runing` are the members of those names, `heap` tells which
libmodbus contexts are allocated, `user` and `loop` are program counters.
`readRegisters`, `writeRegister` and `writeRegisters` have one control flow:
`Lock`, `CheckCtx`, `Transfer`, and after a failure `destroy()` in three steps
(`Close`, `Free`, `ClearCtx`), since the loop can look at `ctx_` between them.
`set_debug` is two steps without a lock. The loop is one action per access:
`LoopWhile`, `LoopTest`, `LoopNew`, `LoopConnect`, `LoopDestroy`, `LoopPublish`,
`LoopFailed`, `LoopSleep`. The failure path of `createModbusContext` destroys
the member and not its local context; such a context becomes `lost`. Each failed
attempt leaks one. After the destructor, any step of the loop but its sleep is
undefined (`LoopAfterDestroy`).

`ctx_` is not atomic. The model lets every access be atomic and sequentially
consistent, which is what aligned pointer accesses are on the target builds up
to caching by the compiler; a compiler that hoists the read of `ctx_` out of the
loop is not modelled.

`DeviceLink` says the same with two variables: which connections are open, and
whether the link is down, up or given up. The mapping takes the live contexts as
the open connections, and calls the link up when `ctx_` is one of them.

### ModbusPoll

A register word is represented by the address it was read from, so a stored
value shows which registers it came from. `Sorted` allows any order among equal
addresses (`std::sort` is not stable). `processUserData` gets the words of one
range and the whole list, as in the code, reads past the buffer where the code
does (`JUNK`). It opens a Redis connection of its own and ignores all results. What
this means while Redis goes up and down (`server`) is summarised from `RedisClient`:
with Redis up any of the stores may still be lost, unnoticed (`made` are the others,
`Process`); with Redis down, or going down in the middle, hiredis gets a NULL or freed
context or a reply never comes, after any part of the stores (`ProcessFaults`, `pc` is
then `"fault"` for good). `ReadOk`
and `ReadFails` summarise `ModbusApi::readRegisters`, `Reconnect` the loop.
The counts of a range are C++ `int`s and do not wrap; addresses have 16 bits.
Point types that the configuration parser rejects are not in the lists of the run;
the proofs allow them. One list of the run uses a name twice, which the parser accepts.
The specification is `PollSpec`, with `PollInit` and `PollNext`, so that one proof
module can extend it together with `AppModbus`, whose poll task it details.

### AppModbus

`Run` is one action: it is called by one thread, and the pool cannot act on the
new task before it is queued. The device constructor's blocking connect is inside
it. `stop()` is `StopApis`, `StopFlag`, `StopWait`; it may be called before `run()`
and again after it has returned. The pool is the one whose header the repository has:
`Take` and `Finish` are the two halves of `BS::thread_pool::worker`, `StopWait` is its
`wait()`. `runTask` submits one device
per step, so that `stop()` can come in between. `Poll` stands for a whole poll that ends
(see ModbusPoll; a poll that meets Redis down does not, and is left out here), `LoopEnds` for the end of a reconnect thread (see ModbusApi).

### Iec104Client

The owner (`caller`), the worker (`worker`) and the library's thread (`conn`,
`event`, `handler`) interleave at every access to shared members. The worker
reads `last_event_` twice (`WorkerFirst`, `WorkerSecond`) because the handler
writes it without taking the semaphore. `start` assigns a new `std::thread`:
over a joinable one this is `std::terminate`, shown as `obj = "aborted"`, and so
is the destruction of a joinable thread. lib60870 is external: one thread per
connection, events one after the other, and `CS104_Connection_destroy` joins
that thread. Not modelled: what lib60870 does when `connectAsync` is called
while an earlier connection is still up.

### Iec104Server

A value is its version number. Handlers for a master run one at a time on the
library's thread of that master; taking the copy of the points and sending it are
two steps. The periodic thread is created with `autodestroy`, so lib60870
detaches it: `Thread_destroy` in `stop()` frees the structure and does not wait.
`freed` counts how often; after a `stop()` it is freed twice, once by each. lib60870's ASDU and queue rules are external (`Asdu`
keeps the objects of the first one's type, up to `Capacity`; `Enqueue` drops the
oldest of a full queue). The clock, connection and raw message handlers change
nothing in the server, and ASDUs of other types are left to the library.

### RedisClient

An object belongs to one thread, so its operations are one action each; the
connection may be cut between any two, and during a command after the server has
executed any part of what was sent (`Lost`). `ctx` tells what `context_` points
to, `contexts` counts the allocated ones, `out` and `in` are the buffers of
hiredis, which is external: a command appends to `out` and takes the next reply,
sending first only if none has been read already. The typed stores differ in the
format only and are one action; the values are the texts that Redis keeps. The
getters differ in what they make of a reply: the numeric ones parse the text of
any reply and throw on anything but a number (`NONE`), `getString` takes the text
of an error as the value, `getBinary` accepts string replies only. `asked`,
`mixed`, `dropped`, `failed` and `last` are history for the properties.
`Create` covers both kinds of owner found in the code: `readAllValues` looks at
`isInitialized()`, `processUserData` does not. A NULL or freed context handed to
hiredis ends the behaviour as a fault, as does a wait without end (no read time-out is
set). Not modelled: failing allocations, a server that loses its data, and a server that
keeps the connection open and never answers.

### Config and Iec61850Client

`Config` takes a file as three sections of device nodes and tells what each parse
function stores: it stops at the first node with a fault, what it stored before
stays, a fault that throws ends the whole load, one that returns false only its
section. Of the faults only the way out matters: an absent key throws (also the
ones a comment calls optional), an empty one or an unsupported value returns false.

`Iec61850Client` begins with `main()`: it exits when `init()` fails (`Start`).
Then `initClients` makes a client per device (`Construct`), calls its `init`
(`InitClient`: connect, and a detached reader), and connects again
(`SecondConnect`). libiec61850 refuses to connect a connection that is up, so the
second connect succeeds only if the first failed or was lost in between; otherwise
the client is dropped, freed and its connection left open while its reader runs.
The reader's accesses to the freed object or to a destroyed connection are shown as
`"ub"`. One more client belongs to the application, which uses `addClient`,
`removeClient` and its own `shared_ptr`. The order of devices is left open. The
parsing of MMS structures, reports and control are not modelled: the first is data,
the others have no caller.

### Iec61850Server

The owner's calls are split where another thread can look: `startServer` into the
start and the creation of each thread, which may throw (`SpawnFails`), `stopServer`
into the flag, the two joins, the destruction of the server and of the publisher.
The update thread reads `server_` once to lock and once to unlock the data model.
Assigning to, or destroying, a joinable `std::thread` terminates the process.
`init` does not look at `server_`; `overwritten` remembers a call over a server.
GOOSE and connection handlers change nothing that is kept.

### LogSink

The file has three parts: what is on disk (`base`), what stdio holds (`buf`) and
the copy of the size that decides on rotation (`current`). A rotation is one step per system call: flush and close,
rename, one step for each removed file, reopen. Each may fail the way the code
handles it, and the process may die between any two; the next sink
starts on what is on disk. A tick is a second, the resolution of the names of
renamed files; their `last_write_time` is the tick of the last write, so ties
occur. Sizes are abstract units.

spdlog's `file_helper`, whose source is in the repository, is part of the model, and so
are its failures. A write that fails throws, after any part of the message has reached
the file; `torn` counts those parts, as `current_size_` does not. When stdio cannot write
its buffer out, any first part of it may be in the file. `flush()` then throws and the
rest is discarded or kept, as C allows both (`FlushFails`). `close()` does not look at
what `fclose` returns, and after it the rest is gone (`CloseWrites`); this is how
`rotate_now`, which does not flush, and `Uinit` can lose messages without an error. For
`Uinit` the messages that a failed flush keeps are counted as written or lost at once,
as nothing but the release of the old sink can still write them. `failures` counts both. Not modelled:
other programs' files that match the prefix, the asynchronous logger, level setters,
a clock that goes back.

## Runs

| run | instance | checks | result |
|---|---|---|---|
| `ModbusApi` | 3 threads, 3 contexts, 2 retries, 3 kinds of configuration | `LockedCallsSafe`, `NoOrphanContext`, `PublishedCtxKept`, `Reconnects`, `StopEndsLoop`, `ImplementsDeviceLink` | holds |
| `ModbusPoll` | lists of 2 and 3 points, any order, gaps, overlaps, a name twice; at most 4 registers per request; Redis up and down | `RangeExact`, `EveryPointAsked`, `OneBlockStored`, `PollEnds` | holds |
| `ModbusPollGap` | two points with a gap | `StoredOwnRegisters` | violated |
| `AppModbus` | 2 usable devices of 3, 4 pool threads, 2 calls of `run`, any number of `stop` | `StopWaitsForPolls`, `RunStartsPolling`, `StopReturns` | holds |
| `Iec104Client` | 3 calls of `start` | `WorkerNeverBlocks`, `NoEventAfterDestroy`, `UnjoinedOnlyAfterLoss`, `EndsForAReason`, `OpenIsStarted`, `LossEndsWorker`, `StopReturns` | holds |
| `Iec104ClientAbort` | 1 start | `NeverAborts` | violated |
| `Iec104Server` | 2 masters, 2 points of one type, one of them written again, queue of 2 | `InterrogationFresh`, `UniformComplete`, `PeriodicMonotone` | holds |
| `Iec104ServerMixed` | 1 master, both types | `InterrogationComplete` | violated |
| `RedisClient` | 1 key, 2 texts, 2 pipelined commands | `FaultsExplained`, `OneContext`, `ReplyOwn`, `AckHonest`, `Recovers` | holds |
| `Iec61850Client` | 2 devices, 13 files with faults in the Modbus and IEC 61850 sections, 1 client of the application | `GoodDevicesTried`, `KeptClientsUsable`, `LeftOpenExplained` | holds |
| `Iec61850Server` | 2 calls of `init`, any number of starts and stops | `UpdateUsesLiveServer`, `StoppedIsClean`, `DestructorReleases`, `StopReturns` | holds |
| `LogSink` | files of 3 units, 1 kept; 3 messages of 1, 2 or 4 units; 3 seconds; 2 interrupted rotations in a row, 2 failures to write the buffer out | `SizeBounded`, `FilesBounded`, `OldestDeleted`, `LossExplained` | holds |

The type invariants are proved where there is a proof module, and not repeated in
the runs. Run one with `tlc -config <run>.cfg <module>`; `PROJECT.json` names the
modules.

Why the bounds suffice. `ModbusApi`: two users are needed for every race between
users, a third for one to wait while two race; at most two contexts are ever in
play (`ctx_` and the local one), a third lets an identity be used again; two
retries reach both outcomes of the comparison, and zero retries only removes the
break. `ModbusPoll`: three points make a range in the middle, with one before and
one after; the limit of 4 replaces the protocol's 125 so that requests above it
occur. `AppModbus`: two devices and two runs give four poll tasks and so four
threads (the code has 1024); with fewer threads than tasks `RunStartsPolling`
fails, as each task keeps its thread. `Iec104Client`: a second start meets what
the first left, a third what a restarted one left. `Iec104Server`: two masters
for commands and interrogations to cross, a point that is written twice for an old
and a new value, and a second one that may be added while an interrogation is
answered; the masters are interchangeable, and the run uses that symmetry. One start,
as a second periodic thread is an effect of its own (below).
`RedisClient`: two texts tell an old value from a new one and a number from other
text, and two pipelined commands show a shift by one both at the head and inside
the queue; operations on different keys do not influence each other.
`Iec61850Client`: two devices are one that is in work and one that is kept or was
dropped before. The files have a fault
before, at or after a device, of each way out, and one id twice; the IEC 104 section is
parsed last and acts on the others only through `init()`, which a throw anywhere fails. `Iec61850Server`: a second `init` meets each state the
first can lead to; four handles serve both. `LogSink`: the sizes fit, fill up or
exceed a file; three messages are two that fill files and one that rotates, and `rotate_now`
adds rotations without a message. Three seconds give three names, so that with one file
kept and two interrupted rotations two excess files pile up before one rotation has to
remove both. A second failure to write out meets a buffer that the first one left.

### What the violated properties show

- `ModbusPollGap`: `processContinuousRegisters` passes the words of one range
  with all points, and offsets are counted from the first point. With a gap a
  point gets another point's words, or memory past the buffer.
- `Iec104ClientAbort`: the worker clears `running_` when the connection is lost;
  `stop()` then does nothing, and a joinable thread is destroyed.
- `Iec104ServerMixed`: an ASDU holds objects of one type; the others are dropped.

The models show more that no run is spent on, because nothing in the repository
states the contrary precisely or because it is the same cause: 32-bit integers
are stored from one of their two registers, and of two points with one name the
last that is stored wins (`OneBlockStored` excludes both);
blocks of more than 125 registers are always refused; a second `run()` adds a
second poller per device, `run()` after `stop()`
polls nothing (`RunStartsPolling` needs `running`), reconnect threads may be alive
when `AppModbus::stop()` returns and after `~ModbusApi`; `start_dt_sent_` of
`IEC104Client` is never set, so neither the general interrogation nor STOPDT is sent; a restarted `IEC104Client` can be ended by the event of its earlier
connection (`EndsForAReason` is about the first); nothing reconnects it; the
server's periodic thread may outlive `stop()`, a restart and the object, its
structure is freed twice, and after a restart it may send values older than those
of the new thread (`PeriodicMonotone` is about the first life); commands
for unknown addresses are confirmed; a Redis store that lost its connection
reports success whether the value was stored or not (`AckHonest` excludes it), the
operation after a failed reconnect uses freed memory and `processUserData` a NULL
context while Redis is down (`FaultsExplained` is tight); a plain command issued
before the pipeline is drained takes a wrong reply (`ReplyOwn` excludes it);
an IEC 61850 device that can be reached is connected, dropped by the second connect
and read from freed memory (`KeptClientsUsable` is about the kept ones); `init` over
a server that runs leaks it (`StoppedIsClean` and `DestructorReleases` exclude it);
a log sink whose scan of the directory fails has no file from then on; on a full disk the
parts of failed writes let a file outgrow `max_size_` (`SizeBounded` allows for them), and
buffered messages go without an error when a file is closed (`LossExplained` names this).

### Fairness

Weak fairness only. Threads that exist are scheduled by the operating system, so
each thread's steps are fair, and calls that have begun go on. libmodbus requests
and connects have time-outs; Redis commands have none, so `PollEnds` promises an end only
to polls whose stores find Redis up, and `AppModbus!StopReturns` rests on that. lib60870 ends a connection attempt (t0), an
unconfirmed STARTDT (t1) and a connection it is told to close. Nothing obliges a
user to call an operation, a device to answer, or a connection to stay up:
`Reconnects` assumes that the device stays reachable from some point on.
`Iec61850Server!StopReturns` needs its two threads to be scheduled and no more. The
safety runs `Iec104Server`, `Iec61850Client` and `LogSink` state no fairness.
`Recovers` assumes that the owner of a Redis object stores again and again, as the
loops of `readAllValues` and of the poll tasks do.

## Proofs

All proofs are for every value of the constants that satisfies the named
assumptions (`NULL` is no context and no thread, limits are numbers, the pool has
a thread, the usable devices are devices, the texts of Redis are no Booleans, a list of points
is a sequence of points with 16-bit addresses).

- `ModbusApi_proofs`: `IInv` adds to the type invariant who may change `ctx_`:
  `MutexInv` (the threads in a locked operation are the mutex holder), `HolderInv`
  (past its test the holder sees a context), `CreatingInv` (while the loop builds
  a context `ctx_` is NULL), `PointerInv` and `FreedInv` (`ctx_` is live except in
  the last step of `destroy`), `DestroyedInv`. `LockedCallsSafe` alone is not
  inductive, since the loop publishes without the mutex; it is `CreatingInv`
  that makes this harmless. From it: `LockedCallsSafe`, `NoOrphanContext`,
  `OneConnection`, `ExhaustedMeansDown`, the action property `PublishedCtxKept`, and
  `ModbusApiImplementsLink`: with `IInv` each step maps to a step of `DeviceLink` or
  to a stutter (`LoopNew` opens, `LoopPublish` establishes, `Free` and a failed attempt drop, the
  break of the loop gives up).
- `AppModbus_proofs`: `IInv` adds which devices are submitted, that an idle thread
  is nowhere in a task, and that `running_` stays false. From it
  `StopWaitsForPolls`: once `stop()` has returned nothing can bring a task back
  but a new `run()`.
- `AppModbus_proofs`, second part, on `ModbusPoll`: `PollIInv` says that the points of
  a poll are a sorted copy of the list (`ListInv`), that the range in work is the one
  that starts at `i` and the buffer holds its words (`RangeInv`), that the points
  before `i` have been asked for (`AskedInv`), and that a list which is one block is
  read from its start, so that only right values are stored (`StoreInv`). The three
  invariants of the run follow for lists of any length and order, with gaps, overlaps
  and unknown types. They are facts about all points of a list; instead of an induction,
  the proofs take the first point where the claim fails, which exists as the
  indices are well-founded (`LeastExists`), and refute it from the point before:
  addresses ascend in a block (`Ascending`), a block covers its registers
  and no other (`BlockCovered`, `BlockExact`), and the running offset of `processUserData`
  is the distance from the first register (`OffsetInBlock`). `std::sort` may
  return any sorted order, but a block has only one (`SortedUnique`), so a later poll does not
  store something else; this one is a counting argument on injections of indices.
  Which stores of a call are made does not matter (`StoresIInv`), so the same holds when
  a call ends in a fault.
  The proof showed that `OneBlockStored` needs distinct names and known types, which
  the lists of the run had happened to have.
- `Iec104Client_proofs`: `IInv` relates the semaphore's count to the position of
  the worker, the life of the worker to `thread`, and the delivered event to the
  state of the connection. From it `WorkerNeverBlocks`, `NoEventAfterDestroy`,
  `OpenNotOverwritten`. `FirstLife` adds that until a second `start()` a recorded
  or pending `CLOSED` or `FAILED` means the connection is down, since `last_event_`
  starts out empty and is not reset; from it `UnjoinedOnlyAfterLoss` and the action property
  `EndsForAReason`.
- `Iec104Server_proofs`: `IInv` has four parts. `LifeInv` tells which threads exist
  and how often each was freed. `FreshInv`: what is confirmed, or about to be, is
  not ahead of the data, and a copy is not behind what was confirmed at the request;
  `InterrogationFresh` follows, as the update precedes the confirmation in one handler.
  `CompleteInv`: points are never removed, so the copy has those of the request, and
  the lemmas `AsduPart` and `AsduComplete` say when an ASDU takes all of a copy;
  `UniformComplete` follows. `PeriodicInv`: what was delivered, each entry of the
  queue, the thread's copy and the data are in this order of versions, and dropping
  the oldest entry keeps it; from it the action property `PeriodicMonotone`, for any
  number of points and any queue limit.
- `RedisClient_proofs`: `IInv` adds `PointerInv` (a dangling `context_` comes from
  a failed reconnect, a NULL one has a careless owner or none) and `Balance` (on a
  working context the owner waits for as many replies as are to come), which needs
  the lemma that taking a reply consumes exactly one (`GetReplyType`). From it
  `FaultsExplained` and `OneContext`. `OrderInv`, inductive under `IInv`, says whose
  the replies are: the buffers hold no more than the owner waits for (`Bound`), and as
  long as no plain command and no reconnect came between, in its order (`InOrder`).
  `Balance` counts on a working context only, hence `Bound`: a broken connection must not leave a
  reply too many. From it `ReplyOwn` and, with the lemmas on what the server
  does with a lone command (`LoneReply`, `LoneEffect`), `AckHonest`.
- `Iec61850Client_proofs`: `IInv` says who keeps a client alive (`OwnerInv`,
  `CurInv`, `TodoInv`), that only the destructor destroys connections (`ConnInv`),
  that a connection belongs to a client that is kept, in work or let go
  (`HeldInv`), that a reader in trouble has lost what it uses (`ReaderInv`), and
  that each loaded device has had its turn or waits for it (`LoadInv`). All three properties
  of the run follow, for any file.
- `Iec61850Server_proofs`: `IInv` relates the owner's position to the threads that
  exist (`OwnerInv`), the locked server to the allocated ones (`LockInv`), and says
  that nothing but what the members point to is allocated unless a server was overwritten (`CleanInv`).
  All three invariants of the run follow.
- `LogSink_proofs`: `IInv` ties `current_size_` to the file (`SizeInv`: it is not too
  small by more than failed writes left), the stream
  to the file (`FileInv`), write times to the clock and to the deleted files
  (`TimeInv`), and the number of renamed files to the interrupted rotations
  (`CountInv`, with the theorems on finite sets). A buffer that is written out, as a whole
  or in part, is one argument for all flushes and closes: the lemma
  `WriteOut` gives what it does to sizes and times, `TornWrite` the same for a failed
  write. All four properties follow, the action property `LossExplained` with its five
  ways included, for any limits.

The invariants `IInv` are proved and not checked by the runs.

Every invariant and action property of the passing runs is proved. Only
model-checked: the liveness properties (`Reconnects`, `StopEndsLoop`, `PollEnds`,
`RunStartsPolling`, `StopReturns`, `OpenIsStarted`, `LossEndsWorker`, `Recovers`),
since the prover has no fairness.

## Plan

Done: the modules above, in the order of the table, and the refinement of
`DeviceLink`. Left:

1. `DeviceLink` in place of `connected` in `ModbusPoll`, and `RedisClient` in place
   of the summary in `Process` and `ProcessFaults`.
2. The loop of `IEC104ClientManger` over several clients.

## Not modelled

- The ICD parser: a walk over an XML document that keeps no state; a model would
  repeat it line by line.
- `parseStructure` of the IEC 61850 client: it formats values.
- `controlObjects`, `subscribeToReports`, `publishGooseLoop`: no caller.
- Logger levels, patterns and the asynchronous logger: settings of spdlog.
- Generated IEC 61850 models, samples, and third-party code but for the thread pool's worker
  and spdlog's `file_helper`.

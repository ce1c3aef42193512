------------------------------ MODULE ModbusPoll ------------------------------
(***************************************************************************)
(* The poll task of one Modbus device: AppModbus::runTask calling          *)
(* processContinuousRegisters, findContinuousRegisters and processUserData *)
(* (core/modbus/app_modbus_client.cc).                                     *)
(*                                                                         *)
(* A register word is represented by the address it was read from, so a    *)
(* stored value, a sequence of words, tells which registers it came from.  *)
(***************************************************************************)
EXTENDS Integers, Sequences, SequencesExt, FiniteSetsExt

CONSTANTS
    PointLists,  \* the data_points lists considered, one chosen per behaviour
    MaxRead,     \* most registers one read request may ask for (external)
    NONE,        \* a key that is not in Redis
    JUNK         \* the content of memory past the end of the buffer

VARIABLES
    conf,       \* config->data_points
    points,     \* the sorted copy of this poll
    pc,         \* program counter of the poll task; "fault": hiredis was given a
                \* NULL or freed context, or waits for ever
    i,          \* index of the first point that is not handled
    range,      \* the range found last
    buffer,     \* the words read last
    connected,  \* ModbusApi holds a context
    server,     \* environment: the Redis server, "up" or "down"
    redis,      \* name |-> value stored under modbus_data:<device>:<name>
    attempted   \* history: ranges requested in this poll

pollVars == <<conf, points, pc, i, range, buffer, connected, server, redis, attempted>>

Types16 == {"INT16", "UINT16"}
Types32 == {"INT32", "UINT32", "FLOAT32"}
DataTypes == Types16 \cup Types32 \cup {"UNKNOWN"}
Addresses == 0 .. 2^16 - 1   \* uint16_t
Point == [name : STRING, address : Addresses, data_type : DataTypes]

ASSUME ListAssumption == PointLists \subseteq Seq(Point)

Names(s) == {s[k].name : k \in DOMAIN s}

(* Number of registers of a point; 0 in the default branches. *)
RegCount(p) ==
    IF p.data_type \in Types16 THEN 1 ELSE IF p.data_type \in Types32 THEN 2 ELSE 0

(* The addresses a point stands for. *)
Registers(p) == p.address .. (p.address + RegCount(p) - 1)

(* Points s[a] .. s[b] follow each other without a gap and have known      *)
(* types: the while loop of findContinuousRegisters goes from a to b.      *)
Contiguous(s, a, b) ==
    \A k \in a .. b - 1 :
        /\ RegCount(s[k + 1]) > 0
        /\ s[k + 1].address = s[k].address + RegCount(s[k])

(* Mutant: the range reaches one point too far. *)
FindTooFar(s, start) ==
    LET last == Min({Len(s), 1 + Max({e \in start .. Len(s) : Contiguous(s, start, e)})})
    IN  [start_addr |-> s[start].address,
         count      |-> s[last].address + RegCount(s[last]) - s[start].address,
         end_index  |-> last]

(* The points are numbered from 1 here.  As the range has no gap, the sum  *)
(* of its register counts is the distance from its first to its last       *)
(* register.                                                               *)
findContinuousRegisters(s, start) ==
    LET last == Max({e \in start .. Len(s) : Contiguous(s, start, e)})
    IN  IF RegCount(s[start]) = 0
          THEN [start_addr |-> s[start].address, count |-> 0, end_index |-> start]
          ELSE [start_addr |-> s[start].address,
                count      |-> s[last].address + RegCount(s[last]) - s[start].address,
                end_index  |-> last]

(* std::sort by address: points with one address come in any order.  A     *)
(* list that is strictly ascending has one sorted order, itself.           *)
Sorted(s) ==
    IF \A k \in 1 .. Len(s) - 1 : s[k].address < s[k + 1].address
      THEN {s}
      ELSE LET orders == {f \in [DOMAIN s -> DOMAIN s] : IsInjective(f)}
           IN  {t \in {[k \in DOMAIN s |-> s[f[k]]] : f \in orders} :
                  \A k \in 1 .. Len(t) - 1 : t[k].address <= t[k + 1].address}

(* uOffset when processUserData reaches point k: it counts the registers   *)
(* of all points before k in the list.                                     *)
Offset(s, k) ==
    LET off[n \in 1 .. Len(s)] == IF n = 1 THEN 0 ELSE off[n - 1] + RegCount(s[n - 1])
    IN  off[k]

(* dataBuffer[o]; the index is not checked. *)
Word(buf, o) == IF o < Len(buf) THEN buf[o + 1] ELSE JUNK

(* Mutant: a FLOAT32 takes its second word from the wrong register. *)
StoredShifted(s, buf, k) ==
    LET o == Offset(s, k)
    IN  IF s[k].data_type = "FLOAT32" THEN <<Word(buf, o), Word(buf, o)>>
                                      ELSE <<Word(buf, o)>>

(* The value stored for point k.  INT32 and UINT32 widen one word, FLOAT32 *)
(* reinterprets two.                                                       *)
Stored(s, buf, k) ==
    LET o == Offset(s, k)
    IN  IF s[k].data_type = "FLOAT32" THEN <<Word(buf, o), Word(buf, o + 1)>>
                                      ELSE <<Word(buf, o)>>

(* The stores of one call, in list order, of which those for the points in *)
(* made have an effect: the last of them of a name wins.  Points of        *)
(* unknown type are not stored.                                            *)
processUserData(store, s, buf, made) ==
    [n \in DOMAIN store |->
        LET mine == {k \in made : s[k].name = n /\ RegCount(s[k]) > 0}
        IN  IF mine = {} THEN store[n] ELSE Stored(s, buf, Max(mine))]

NoRange == [start_addr |-> 0, count |-> 0, end_index |-> 0]

-----------------------------------------------------------------------------
PollInit ==
    /\ conf \in PointLists
    /\ points = << >>
    /\ pc = "loop"
    /\ i = 1
    /\ range = NoRange
    /\ buffer = << >>
    /\ connected \in BOOLEAN
    /\ server \in {"up", "down"}
    /\ redis = [n \in Names(conf) |-> NONE]
    /\ attempted = {}

(* while (running_): the list is copied and sorted again on every poll. *)
StartPoll ==
    /\ pc = "loop"
    /\ conf # << >>
    /\ points' \in Sorted(conf)
    /\ pc' = "find"
    /\ i' = 1
    /\ attempted' = {}
    /\ UNCHANGED <<conf, range, buffer, connected, server, redis>>

(* Mutant: the loop stops before the last point. *)
FindRangeEarly ==
    /\ pc = "find"
    /\ IF i < Len(points)
         THEN /\ range' = findContinuousRegisters(points, i)
              /\ pc' = "read"
         ELSE /\ pc' = "loop"
              /\ UNCHANGED range
    /\ UNCHANGED <<conf, points, i, buffer, connected, server, redis, attempted>>

FindRange ==
    /\ pc = "find"
    /\ IF i <= Len(points)
         THEN /\ range' = findContinuousRegisters(points, i)
              /\ pc' = "read"
         ELSE /\ pc' = "loop"
              /\ UNCHANGED range
    /\ UNCHANGED <<conf, points, i, buffer, connected, server, redis, attempted>>

(* modbusApi->readRegisters.  libmodbus refuses a count out of its bounds, *)
(* and a device may fail any request; both drop the connection.            *)
ReadOk ==
    /\ pc = "read"
    /\ connected
    /\ range.count \in 1 .. MaxRead
    /\ buffer' = [k \in 1 .. range.count |-> range.start_addr + k - 1]
    /\ attempted' = attempted \cup {range}
    /\ pc' = "process"
    /\ UNCHANGED <<conf, points, i, range, connected, server, redis>>

(* Mutant: the failed range is tried again at once. *)
ReadFailsStays ==
    /\ pc = "read"
    /\ connected' = FALSE
    /\ attempted' = attempted \cup {range}
    /\ pc' = "find"
    /\ UNCHANGED <<conf, points, i, range, buffer, server, redis>>

ReadFails ==
    /\ pc = "read"
    /\ connected' = FALSE
    /\ attempted' = attempted \cup {range}
    /\ i' = range.end_index + 1
    /\ pc' = "find"
    /\ UNCHANGED <<conf, points, range, buffer, server, redis>>

(* processUserData is given the words of this range and the whole list.    *)
(* It opens a Redis connection of its own and ignores the results: stores  *)
(* that are refused, or lost with a connection that could be replaced, go  *)
(* unnoticed.                                                              *)
Process ==
    /\ pc = "process"
    /\ server = "up"
    /\ \E made \in SUBSET DOMAIN points :
          redis' = processUserData(redis, points, buffer, made)
    /\ i' = range.end_index + 1
    /\ pc' = "find"
    /\ UNCHANGED <<conf, points, range, buffer, connected, server, attempted>>

(* It does not look at isInitialized().  With Redis down its first store   *)
(* gets a NULL context; with Redis going down later, a store or the        *)
(* destructor gets one that was freed, or a reply never comes; see         *)
(* RedisClient.                                                            *)
ProcessFaults ==
    /\ pc = "process"
    /\ \E made \in SUBSET (IF server = "up" THEN DOMAIN points ELSE {}) :
          redis' = processUserData(redis, points, buffer, made)
    /\ server' = "down"
    /\ pc' = "fault"
    /\ UNCHANGED <<conf, points, i, range, buffer, connected, attempted>>

(* ModbusApi::reconnectLoop has published a context. *)
Reconnect ==
    /\ ~connected
    /\ connected' = TRUE
    /\ UNCHANGED <<conf, points, pc, i, range, buffer, server, redis, attempted>>

(* Redis, or the way to it, goes and comes back. *)
ServerFlips ==
    /\ server' = IF server = "up" THEN "down" ELSE "up"
    /\ UNCHANGED <<conf, points, pc, i, range, buffer, connected, redis, attempted>>

TaskStep == StartPoll \/ FindRange \/ ReadOk \/ ReadFails \/ Process \/ ProcessFaults

PollNext == TaskStep \/ Reconnect \/ ServerFlips

PollSpec == PollInit /\ [][PollNext]_pollVars

(* The pool thread of the task is scheduled. *)
PollFairSpec == PollSpec /\ WF_pollVars(TaskStep)

-----------------------------------------------------------------------------
(* Properties. *)

PollTypeOK ==
    /\ conf \in PointLists
    /\ points \in Seq(Point) /\ (points = << >> \/ Len(points) = Len(conf))
    /\ pc \in {"loop", "find", "read", "process", "fault"}
    /\ i \in 1 .. Len(conf) + 1
    /\ range \in [start_addr : Addresses, count : Nat, end_index : 0 .. Len(conf)]
    /\ buffer \in Seq(0 .. 2^16)   \* a register past the last address, if a point says so
    /\ connected \in BOOLEAN
    /\ server \in {"up", "down"}
    /\ DOMAIN redis = Names(conf)

(* A request asks for exactly the registers of the points it is for: no    *)
(* gap register, none that no point names, none twice.                     *)
RangeExact ==
    pc = "read" =>
        /\ i <= range.end_index
        /\ range.start_addr .. (range.start_addr + range.count - 1)
             = UNION {Registers(points[k]) : k \in i .. range.end_index}
        /\ \A k, l \in i .. range.end_index :
              k # l => Registers(points[k]) \cap Registers(points[l]) = {}

(* When a poll is over, every register of every configured point has been  *)
(* asked for, also when requests failed on the way.                        *)
EveryPointAsked ==
    pc = "loop" /\ points # << >> =>
        \A k \in DOMAIN conf : \E r \in attempted :
            Registers(conf[k]) \subseteq r.start_addr .. (r.start_addr + r.count - 1)

(* What is stored under a point's name is what the registers at the        *)
(* point's address hold.                                                   *)
StoredOwnRegisters ==
    \A k \in DOMAIN conf :
        redis[conf[k].name] \in
            {NONE, [j \in 1 .. RegCount(conf[k]) |-> conf[k].address + j - 1]}

(* This holds, whatever requests and stores fail, for a list that makes    *)
(* one range, has no 32-bit integer and no name twice: the offsets of      *)
(* processUserData, counted over the whole list, are then those of the     *)
(* range.                                                                  *)
OneBlock ==
    /\ points # << >>
    /\ Contiguous(points, 1, Len(points))
    /\ \A k \in DOMAIN conf : conf[k].data_type \in Types16 \cup {"FLOAT32"}
    /\ \A k, l \in DOMAIN conf : conf[k].name = conf[l].name => k = l

OneBlockStored == OneBlock => StoredOwnRegisters

(* A poll ends, whatever requests to the device fail or are refused during *)
(* it, unless its stores meet Redis down: nothing in it is tried again.    *)
PollEnds ==
    pc \in {"find", "read", "process"} ~> pc = "loop" \/ (pc = "fault" /\ server = "down")
=============================================================================

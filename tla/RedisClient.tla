----------------------------- MODULE RedisClient -----------------------------
(***************************************************************************)
(* One DRDSDataRedis object (core/redis-api/app_redis.cc) and the Redis    *)
(* server it talks to.  The object belongs to one thread; what makes it    *)
(* hard is the connection: it may be cut at any time, a reply may be lost  *)
(* after the server has done the work, and pipelined commands share one    *)
(* stream of replies with the plain ones.                                  *)
(*                                                                         *)
(* hiredis is external.  A plain command appends to the output buffer and  *)
(* takes the next reply: one that has already been read if there is one    *)
(* (then nothing is sent), otherwise it sends the whole buffer and reads.  *)
(* A failed context stays failed.  NULL and freed contexts are faults.     *)
(* Values are the texts Redis keeps; Numbers are those std::sto* accepts.  *)
(***************************************************************************)
EXTENDS Integers, Sequences

CONSTANTS
    Keys,         \* keys
    Vals,         \* texts stored under keys
    Numbers,      \* the texts that a numeric getter can parse
    NONE,         \* no value, no reply
    MaxPipeline   \* bound: pipelined commands the owner keeps unanswered

ASSUME NumberAssumption == Numbers \subseteq Vals
ASSUME NoneAssumption == NONE \notin Vals
ASSUME TextAssumption == Vals \cap BOOLEAN = {}   \* results that are no text
ASSUME PipelineAssumption == MaxPipeline \in Nat

VARIABLES
    server,       \* environment: "up" or "down"
    db,           \* environment: what the server keeps
    obj,          \* the object: "none" or "live"
    careful,      \* made by the default constructor, for an owner that
                  \* looks at isInitialized() before it uses the object
    initialized,  \* initialized
    ctx,          \* context_: "null", "ok", "cut" (broken, not noticed),
                  \*           "err" (context_->err) or "freed" (dangling)
    contexts,     \* number of allocated redisContext structures
    out,          \* output buffer of the context: commands not sent
    in,           \* replies to sent commands, not taken yet
    asked,        \* the owner's pipelined commands it has no result for
    mixed,        \* a plain command was issued while asked was not empty
    dropped,      \* a reconnect threw away replies the owner still expects
    failed,       \* a reconnect failed
    fault,        \* "none", "null", "freed", or "hang" (waits for ever)
    last          \* what the last operation did

conn == <<server, obj, careful, initialized>>
vars == <<server, db, obj, careful, initialized, ctx, contexts, out, in,
          asked, mixed, dropped, failed, fault, last>>

Cmds == [op : {"set", "get", "exists"}, key : Keys, val : Vals \cup {NONE}]
Replies == [cmd : Cmds, is : {"status", "error", "nil", "string", "integer"},
            val : Vals \cup {NONE}]
Contexts == {"null", "ok", "cut", "err", "freed"}
Allocated == {"ok", "cut", "err"}

(* The last operation: ret is what the owner was told; own: the reply was  *)
(* the one to its command; did: the server did what ret says; alone: no    *)
(* pipelined command stood before it; re: it reconnected.                  *)
Results == [op : {"none", "store", "get", "exists", "append", "process"},
            ret : BOOLEAN \cup Vals \cup {NONE}, own : BOOLEAN,
            did : BOOLEAN, alone : BOOLEAN, re : BOOLEAN]
NoResult == [op |-> "none", ret |-> NONE, own |-> TRUE, did |-> TRUE,
             alone |-> FALSE, re |-> FALSE]

TypeOK ==
    /\ server \in {"up", "down"}
    /\ db \in [Keys -> Vals \cup {NONE}]
    /\ obj \in {"none", "live"}
    /\ careful \in BOOLEAN
    /\ initialized \in BOOLEAN
    /\ ctx \in Contexts
    /\ contexts \in Nat
    /\ out \in Seq(Cmds)
    /\ in \in Seq(Replies)
    /\ asked \in Seq(Cmds)
    /\ mixed \in BOOLEAN
    /\ dropped \in BOOLEAN
    /\ failed \in BOOLEAN
    /\ fault \in {"none", "null", "freed", "hang"}
    /\ last \in Results

Init ==
    /\ server \in {"up", "down"}
    /\ db = [k \in Keys |-> NONE]
    /\ obj = "none"
    /\ careful = TRUE
    /\ initialized = FALSE
    /\ ctx = "null"
    /\ contexts = 0
    /\ out = <<>>
    /\ in = <<>>
    /\ asked = <<>>
    /\ mixed = FALSE
    /\ dropped = FALSE
    /\ failed = FALSE
    /\ fault = "none"
    /\ last = NoResult

-----------------------------------------------------------------------------
(* The server: it executes the commands it receives in order and may       *)
(* refuse any of them (no memory, read-only replica).                      *)

(* The contents d after the commands s, of which those in ok are accepted. *)
After(d, s, ok) ==
    [k \in Keys |->
        LET Sets  == {i \in DOMAIN s : i \in ok /\ s[i].op = "set" /\ s[i].key = k}
            Final == {i \in Sets : \A j \in Sets : j <= i}
        IN  IF Final = {} THEN d[k] ELSE s[CHOOSE i \in Final : TRUE].val]

(* The reply to the i-th of them. *)
ReplyTo(d, s, ok, i) ==
    LET found == After(d, SubSeq(s, 1, i - 1), ok)[s[i].key]
    IN  [cmd |-> s[i],
         is  |-> IF i \notin ok THEN "error"
                 ELSE CASE s[i].op = "set"    -> "status"
                        [] s[i].op = "exists" -> "integer"
                        [] s[i].op = "get"    -> IF found = NONE THEN "nil" ELSE "string",
         val |-> IF i \in ok /\ s[i].op # "set" THEN found ELSE NONE]

(* hiredis: how redisGetReply can end when s is in the output buffer.      *)
Gets(reply, o, i, c, d) == [reply |-> reply, out |-> o, in |-> i, ctx |-> c, db |-> d]

(* A reply that was read together with an earlier one is handed out. *)
Buffered(s) == IF in = <<>> \/ ctx = "err" THEN {}
               ELSE {Gets(Head(in), s, Tail(in), ctx, db)}

Answered(s) ==
    IF ctx # "ok" \/ (s = <<>> /\ in = <<>>) THEN {}
    ELSE { LET rs == in \o [i \in DOMAIN s |-> ReplyTo(db, s, ok, i)]
           IN  Gets(Head(rs), <<>>, Tail(rs), "ok", After(db, s, ok))
             : ok \in SUBSET DOMAIN s }

(* The connection breaks; the server has executed the first n commands. *)
Lost(s) ==
    IF ctx # "ok" THEN {}
    ELSE { Gets(NONE, <<>>, <<>>, "err", After(db, SubSeq(s, 1, n), ok))
             : n \in 0 .. Len(s), ok \in SUBSET DOMAIN s }

(* The connection was broken before. *)
Broken(s) ==
    IF ctx = "err" \/ (ctx = "cut" /\ in = <<>>)
      THEN {Gets(NONE, <<>>, <<>>, "err", db)} ELSE {}

redisGetReply(s) == Buffered(s) \cup Answered(s) \cup Lost(s) \cup Broken(s)

-----------------------------------------------------------------------------
(* Construction.  A context whose connect failed is freed and cleared.     *)
(* Only the default constructor sets initialized before it connects; after *)
(* the others a failed connect leaves it with any value.                   *)

(* Mutant: initialized is set whatever the connect gave. *)
checkRedisConnectionAlways(m) ==
    /\ initialized' = TRUE
    /\ IF server = "up" THEN ctx' = "ok" /\ contexts' = 1
                        ELSE ctx' = "null" /\ contexts' = 0

checkRedisConnection(m) ==
    IF server = "up"
      THEN ctx' = "ok" /\ contexts' = 1 /\ initialized' = TRUE
      ELSE /\ ctx' = "null" /\ contexts' = 0
           /\ initialized' \in IF m = "default" THEN {FALSE} ELSE BOOLEAN

(* An owner that checks (readAllValues) returns at once, and destroys the  *)
(* object again, if it is not initialized; processUserData does not check. *)
Create(m, c) ==
    /\ obj = "none" /\ fault = "none"
    /\ checkRedisConnection(m)
    /\ obj' = IF c /\ ~initialized' THEN "none" ELSE "live"
    /\ careful' = (c /\ m = "default")
    /\ out' = <<>> /\ in' = <<>> /\ asked' = <<>>
    /\ mixed' = FALSE /\ dropped' = FALSE /\ failed' = FALSE
    /\ last' = NoResult
    /\ UNCHANGED <<server, db, fault>>

(* ~DRDSDataRedis frees what context_ points to, also when it is dangling. *)
Destroy ==
    /\ obj = "live" /\ fault = "none"
    /\ obj' = "none"
    /\ fault' = IF ctx = "freed" THEN "freed" ELSE "none"
    /\ contexts' = IF ctx \in Allocated THEN contexts - 1 ELSE contexts
    /\ ctx' = "null"
    /\ last' = NoResult
    /\ UNCHANGED <<server, db, careful, initialized, out, in, asked, mixed,
                   dropped, failed>>

Calling == obj = "live" /\ fault = "none"

(* The operation hands a NULL or a freed context to hiredis. *)
BadContext ==
    /\ Calling
    /\ ctx \in {"null", "freed"}
    /\ fault' = ctx
    /\ UNCHANGED <<conn, db, ctx, contexts, out, in, asked, mixed, dropped,
                   failed, last>>

-----------------------------------------------------------------------------
(* reconnectIfNeeded frees the old context and connects again.  If that    *)
(* fails it frees the new context, too, and leaves context_ as it is.      *)

(* Mutant: the old context is not freed. *)
reconnectKeepsOld ==
    /\ IF server = "up" THEN ctx' = "ok" /\ contexts' = contexts + 1
                        ELSE ctx' = "freed" /\ contexts' = contexts
    /\ failed' = (failed \/ server = "down")
    /\ out' = <<>> /\ in' = <<>>
    /\ dropped' = (asked # <<>>)

reconnectIfNeeded ==
    /\ IF server = "up" THEN ctx' = "ok" /\ contexts' = contexts
                        ELSE ctx' = "freed" /\ contexts' = contexts - 1
    /\ failed' = (failed \/ server = "down")
    /\ out' = <<>> /\ in' = <<>>
    /\ dropped' = (asked # <<>>)

(* The context goes on as hiredis left it. *)
Keep(o) ==
    /\ out' = o.out /\ in' = o.in /\ ctx' = o.ctx
    /\ UNCHANGED <<contexts, failed, dropped>>

(* Mutant: the error is logged and nothing else is done. *)
handleConnectionErrorsLogs(o) == Keep(o)

(* Called with no reply, hence with context_->err set. *)
handleConnectionErrors(o) == reconnectIfNeeded

(* A plain command c: op reports it, ret is what the owner is told. *)
redisCommand(op, c, o, ret, did, reconnects) ==
    /\ Calling
    /\ ctx \in Allocated
    /\ db' = o.db
    /\ IF o.reply = NONE /\ reconnects THEN handleConnectionErrors(o) ELSE Keep(o)
    /\ mixed' = (mixed \/ asked # <<>>)
    /\ last' = [op |-> op, ret |-> ret, own |-> o.reply = NONE \/ o.reply.cmd = c,
                did |-> did, alone |-> asked = <<>>,
                re |-> o.reply = NONE /\ reconnects]
    /\ UNCHANGED <<conn, asked, fault>>

-----------------------------------------------------------------------------
(* storeValue, storeBinary and the typed wrappers.  With no reply the      *)
(* result is that of reconnectIfNeeded, which is always true.              *)

Set(k, v) == [op |-> "set", key |-> k, val |-> v]

(* Mutant: an error reply counts as success. *)
StoreResultAny(reply) == TRUE

StoreResult(reply) == reply = NONE \/ reply.is # "error"

Store(k, v) ==
    \E o \in redisGetReply(Append(out, Set(k, v))) :
        redisCommand("store", Set(k, v), o, StoreResult(o.reply),
                     StoreResult(o.reply) => o.db[k] = v, TRUE)

(* storeChar and storeBinary without data return before they do anything. *)
StoreNothing ==
    /\ Calling
    /\ last' = [NoResult EXCEPT !.op = "store", !.ret = FALSE]
    /\ UNCHANGED <<conn, db, ctx, contexts, out, in, asked, mixed, dropped,
                   failed, fault>>

isKeyExist(k) ==
    LET c == [op |-> "exists", key |-> k, val |-> NONE]
    IN  \E o \in redisGetReply(Append(out, c)) :
            LET found == o.reply # NONE /\ o.reply.is = "integer" /\ o.reply.val # NONE
            IN  redisCommand("exists", c, o, found, found => o.db[k] # NONE, FALSE)

(* The numeric getters parse the text of any reply: anything that is not a *)
(* number throws (NONE).  With no reply they return their default, FALSE.  *)
NumberOf(reply) ==
    IF reply = NONE THEN FALSE
    ELSE IF reply.is = "string" /\ reply.val \in Numbers THEN reply.val ELSE NONE

(* getBinary takes string replies only, and returns true with no reply.    *)
BinaryOf(reply) ==
    IF reply = NONE THEN TRUE ELSE IF reply.is = "string" THEN reply.val ELSE FALSE

(* getString takes the text of any reply, that of an error included        *)
(* (FALSE: no stored text); a missing key has none and throws.             *)
StringOf(reply) ==
    IF reply = NONE THEN FALSE
    ELSE CASE reply.is = "string" -> reply.val
           [] reply.is = "nil"    -> NONE
           [] OTHER               -> FALSE

Get(k, Of(_)) ==
    LET c == [op |-> "get", key |-> k, val |-> NONE]
    IN  \E o \in redisGetReply(Append(out, c)) :
            redisCommand("get", c, o, Of(o.reply),
                         Of(o.reply) \in Vals => o.db[k] = Of(o.reply), TRUE)

getNumber(k) == Get(k, NumberOf)
getString(k) == Get(k, StringOf)
getBinary(k) == Get(k, BinaryOf)

-----------------------------------------------------------------------------
(* The pipeline: redisAppendCommand puts the command into the buffer only. *)
storeBinaryForPipline(k, v) ==
    /\ Calling
    /\ ctx \in Allocated
    /\ Len(asked) < MaxPipeline
    /\ out' = Append(out, Set(k, v))
    /\ asked' = Append(asked, Set(k, v))
    /\ last' = [NoResult EXCEPT !.op = "append"]
    /\ UNCHANGED <<conn, db, ctx, contexts, in, mixed, dropped, failed, fault>>

(* Mutant: the result is reported without taking the reply. *)
processSetRedisReplyNoRead ==
    /\ Calling
    /\ ctx \in Allocated
    /\ asked # <<>>
    /\ asked' = Tail(asked)
    /\ mixed' = (mixed /\ Tail(asked) # <<>>)
    /\ last' = NoResult
    /\ UNCHANGED <<conn, db, ctx, contexts, out, in, dropped, failed, fault>>

(* The owner asks for the result of its oldest pipelined command.  There   *)
(* is no reconnect here, whatever comes back.                              *)
processSetRedisReply ==
    /\ Calling
    /\ ctx \in Allocated
    /\ asked # <<>>
    /\ \E o \in redisGetReply(out) :
          /\ db' = o.db
          /\ Keep(o)
          /\ last' = [op |-> "process", ret |-> o.reply # NONE /\ o.reply.is = "status",
                      own |-> o.reply = NONE \/ o.reply.cmd = Head(asked),
                      did |-> TRUE, alone |-> ~mixed /\ ~dropped, re |-> FALSE]
    /\ asked' = Tail(asked)
    /\ mixed' = (mixed /\ Tail(asked) # <<>>)
    /\ UNCHANGED <<conn, fault>>

(* Nothing was sent and nothing will come: there is no read timeout. *)
ProcessHangs ==
    /\ Calling
    /\ ctx = "ok" /\ asked # <<>> /\ out = <<>> /\ in = <<>>
    /\ fault' = "hang"
    /\ UNCHANGED <<conn, db, ctx, contexts, out, in, asked, mixed, dropped,
                   failed, last>>

-----------------------------------------------------------------------------
(* The environment.  When the connection is cut, replies that the client   *)
(* has not read from the socket may be lost with it.                       *)
Cut(s) ==
    /\ server = "up" /\ fault = "none"
    /\ server' = s
    /\ IF ctx = "ok"
         THEN ctx' = "cut" /\ \E n \in 0 .. Len(in) : in' = SubSeq(in, 1, n)
         ELSE s = "down" /\ UNCHANGED <<ctx, in>>
    /\ UNCHANGED <<db, obj, careful, initialized, contexts, out, asked,
                   mixed, dropped, failed, fault, last>>

ServerUp ==
    /\ server = "down" /\ fault = "none"
    /\ server' = "up"
    /\ UNCHANGED <<db, obj, careful, initialized, ctx, contexts, out, in,
                   asked, mixed, dropped, failed, fault, last>>

Environment == Cut("up") \/ Cut("down") \/ ServerUp

Owner ==
    \/ \E m \in {"default", "explicit"}, c \in BOOLEAN : Create(m, c)
    \/ Destroy
    \/ BadContext
    \/ \E k \in Keys, v \in Vals : Store(k, v)
    \/ StoreNothing
    \/ \E k \in Keys : isKeyExist(k)
    \/ \E k \in Keys : getNumber(k)
    \/ \E k \in Keys : getString(k)
    \/ \E k \in Keys : getBinary(k)
    \/ \E k \in Keys, v \in Vals : storeBinaryForPipline(k, v)
    \/ processSetRedisReply
    \/ ProcessHangs

Next == Environment \/ Owner

Spec == Init /\ [][Next]_vars

(* readAllValues and the poll loop store again and again, for ever. *)
FairSpec == Spec /\ WF_vars(\E k \in Keys, v \in Vals : Store(k, v))

-----------------------------------------------------------------------------
(* hiredis is handed a NULL context only by an owner that does not look at *)
(* isInitialized() or used a constructor that leaves it unset, a freed one *)
(* only after a reconnect failed, and processSetRedisReply waits for ever  *)
(* only after a reconnect threw the pipeline away.                         *)
FaultsExplained ==
    /\ fault = "null" => ~careful
    /\ fault = "freed" => failed
    /\ fault = "hang" => dropped

(* Exactly the context that context_ points to is allocated: no reconnect, *)
(* failed or not, and no destruction leaks one.                            *)
OneContext == contexts = IF ctx \in Allocated THEN 1 ELSE 0

(* An operation takes the reply to its own command: a plain one if every   *)
(* pipelined command was answered before, processSetRedisReply if no plain *)
(* command came between.  Lost connections and reconnects do not shift it. *)
ReplyOwn == last.alone => last.own

(* A plain operation that neither reconnected nor overtook the pipeline    *)
(* tells the truth: a store that returns true has stored the value, a text *)
(* that a getter returns is the stored one, and so on.                     *)
AckHonest == last.alone /\ ~last.re => last.did

(* While the server stays up and the owner keeps storing, a broken         *)
(* connection is replaced.                                                 *)
Recovers ==
    (ctx \in {"cut", "err"} /\ server = "up")
        ~> (ctx = "ok" \/ server = "down" \/ obj = "none" \/ fault # "none")
=============================================================================

-------------------------- MODULE RedisClient_proofs --------------------------
(***************************************************************************)
(* Proofs about RedisClient, for any keys, any texts and any pipeline.     *)
(***************************************************************************)
EXTENDS RedisClient, SequenceTheorems, TLAPS

Texts == Vals \cup {NONE}

(* A dangling context_ comes from a failed reconnect, a NULL one belongs   *)
(* to no object, or to one whose owner does not check.                     *)
PointerInv ==
    /\ obj = "none" => ctx = "null"
    /\ obj = "live" /\ ctx = "null" => ~careful
    /\ ctx = "freed" => failed

(* As long as the context works, the owner waits for as many replies as    *)
(* are still to come, unless a reconnect has dropped some.                 *)
Balance == ctx = "ok" /\ ~dropped => Len(in) + Len(out) = Len(asked)

IInv == TypeOK /\ OneContext /\ PointerInv /\ Balance /\ FaultsExplained

-----------------------------------------------------------------------------
(* The server keeps texts. *)
LEMMA AfterType ==
    ASSUME NEW d \in [Keys -> Texts], NEW s \in Seq(Cmds), NEW ok
    PROVE  After(d, s, ok) \in [Keys -> Texts]
<1>1. \A i \in DOMAIN s : s[i] \in Cmds
    OBVIOUS
<1>2. \A c \in Cmds : c.val \in Texts
    BY DEF Cmds, Texts
<1> QED BY <1>1, <1>2 DEF After

(* Every reply of the server is well formed. *)
LEMMA ReplyType ==
    ASSUME NEW d \in [Keys -> Texts], NEW s \in Seq(Cmds), NEW ok, NEW i \in DOMAIN s
    PROVE  ReplyTo(d, s, ok, i) \in Replies
<1>0. s[i] \in Cmds
    OBVIOUS
<1>1. s[i] \in Cmds /\ s[i].key \in Keys /\ s[i].op \in {"set", "get", "exists"}
    BY <1>0 DEF Cmds
<1>2. SubSeq(s, 1, i - 1) \in Seq(Cmds)
    OBVIOUS
<1> DEFINE found == After(d, SubSeq(s, 1, i - 1), ok)[s[i].key]
<1>3. found \in Texts
    BY <1>1, <1>2, AfterType
<1> HIDE DEF found
<1>4. (IF i \in ok /\ s[i].op # "set" THEN found ELSE NONE) \in Vals \cup {NONE}
    BY <1>3 DEF Texts
<1>5. (IF i \notin ok THEN "error"
       ELSE CASE s[i].op = "set"    -> "status"
              [] s[i].op = "exists" -> "integer"
              [] s[i].op = "get"    -> IF found = NONE THEN "nil" ELSE "string")
       \in {"status", "error", "nil", "string", "integer"}
    BY <1>1
<1> QED BY <1>1, <1>4, <1>5 DEF ReplyTo, Replies, found

(* What redisGetReply leaves behind; on a working context it has consumed  *)
(* exactly one of the replies that were to come.                           *)
LEMMA GetReplyType ==
    ASSUME TypeOK, NEW s \in Seq(Cmds), NEW o \in redisGetReply(s), ctx \in Allocated
    PROVE  /\ o.out \in Seq(Cmds)
           /\ o.in \in Seq(Replies)
           /\ o.reply \in Replies \cup {NONE}
           /\ o.db \in [Keys -> Texts]
           /\ o.ctx \in Allocated
           /\ o.ctx = "ok" => ctx = "ok" /\ Len(o.in) + Len(o.out) + 1 = Len(in) + Len(s)
<1>0. db \in [Keys -> Texts] /\ in \in Seq(Replies)
    BY DEF TypeOK, Texts
<1>1. CASE o \in Buffered(s)
    <2>1. in # <<>> /\ o = Gets(Head(in), s, Tail(in), ctx, db)
        BY <1>1 DEF Buffered
    <2>2. Head(in) \in Replies /\ Tail(in) \in Seq(Replies) /\ Len(Tail(in)) = Len(in) - 1
        BY <1>0, <2>1, HeadTailProperties
    <2> QED BY <1>0, <2>1, <2>2 DEF Gets
<1>2. CASE o \in Answered(s)
    <2>1. PICK ok \in SUBSET DOMAIN s :
             LET rs == in \o [i \in DOMAIN s |-> ReplyTo(db, s, ok, i)]
             IN  o = Gets(Head(rs), <<>>, Tail(rs), "ok", After(db, s, ok))
        BY <1>2 DEF Answered
    <2>2. ctx = "ok" /\ ~(s = <<>> /\ in = <<>>)
        BY <1>2 DEF Answered
    <2> DEFINE new == [i \in DOMAIN s |-> ReplyTo(db, s, ok, i)]
               rs == in \o new
    <2>3. new \in Seq(Replies) /\ Len(new) = Len(s)
        <3>1. \A i \in DOMAIN s : ReplyTo(db, s, ok, i) \in Replies
            BY <1>0, ReplyType
        <3>2. new \in [1 .. Len(s) -> Replies]
            BY <3>1
        <3> QED BY <3>2
    <2>4. rs \in Seq(Replies) /\ Len(rs) = Len(in) + Len(s)
        <3> HIDE DEF new
        <3> QED BY <1>0, <2>3
    <2>5. Len(rs) > 0
        BY <2>2, <2>4, <1>0
    <2>6. o = Gets(Head(rs), <<>>, Tail(rs), "ok", After(db, s, ok))
        BY <2>1
    <2>7. After(db, s, ok) \in [Keys -> Texts]
        BY <1>0, AfterType
    <2> HIDE DEF rs, new
    <2>8. rs # <<>>
        BY <2>5
    <2>9. Head(rs) \in Replies /\ Tail(rs) \in Seq(Replies) /\ Len(Tail(rs)) = Len(rs) - 1
        BY <2>4, <2>8, HeadTailProperties
    <2> QED BY <1>0, <2>2, <2>4, <2>6, <2>7, <2>9 DEF Gets, Allocated
<1>3. CASE o \in Lost(s)
    <2>1. PICK n \in 0 .. Len(s), ok \in SUBSET DOMAIN s :
             o = Gets(NONE, <<>>, <<>>, "err", After(db, SubSeq(s, 1, n), ok))
        BY <1>3 DEF Lost
    <2>2. SubSeq(s, 1, n) \in Seq(Cmds)
        OBVIOUS
    <2>3. After(db, SubSeq(s, 1, n), ok) \in [Keys -> Texts]
        BY <1>0, <2>2, AfterType
    <2> QED BY <2>1, <2>3 DEF Gets, Allocated
<1>4. CASE o \in Broken(s)
    <2>1. o = Gets(NONE, <<>>, <<>>, "err", db)
        BY <1>4 DEF Broken
    <2> QED BY <1>0, <2>1 DEF Gets, Allocated
<1> QED BY <1>1, <1>2, <1>3, <1>4 DEF redisGetReply

-----------------------------------------------------------------------------
LEMMA NoResultType == NoResult \in Results
BY DEF NoResult, Results

LEMMA InitIInv == Init => IInv
<1> SUFFICES ASSUME Init PROVE IInv
    OBVIOUS
<1>1. TypeOK
    <2>1. NoResult \in Results
        BY NoResultType
    <2>2. <<>> \in Seq(Cmds) /\ <<>> \in Seq(Replies)
        OBVIOUS
    <2> QED BY <2>1, <2>2 DEF Init, TypeOK, Contexts
<1>2. OneContext /\ PointerInv /\ Balance /\ FaultsExplained
    BY DEF Init, OneContext, PointerInv, Balance, FaultsExplained, Allocated
<1> QED BY <1>1, <1>2 DEF IInv

(* reconnectIfNeeded either installs a fresh context or leaves a dangling  *)
(* one behind; in both cases no reply is to come.                          *)
LEMMA ReconnectStep ==
    ASSUME IInv, Calling, ctx \in Allocated, reconnectIfNeeded, UNCHANGED <<conn, asked, fault>>
    PROVE  /\ OneContext' /\ PointerInv' /\ Balance' /\ FaultsExplained'
           /\ ctx' \in Contexts /\ contexts' \in Nat /\ failed' \in BOOLEAN
           /\ dropped' \in BOOLEAN /\ out' \in Seq(Cmds) /\ in' \in Seq(Replies)
<1>1. contexts = 1
    BY DEF IInv, OneContext
<1>2. /\ \/ ctx' = "ok" /\ contexts' = 1
         \/ ctx' = "freed" /\ contexts' = 0 /\ failed'
      /\ failed' \in BOOLEAN /\ dropped' \in BOOLEAN
    <2>1. server \in {"up", "down"} /\ failed \in BOOLEAN
        BY DEF IInv, TypeOK
    <2>2. failed' \in BOOLEAN /\ dropped' \in BOOLEAN
        BY Zenon DEF reconnectIfNeeded
    <2>3. CASE server = "up"
        BY <1>1, <2>2, <2>3 DEF reconnectIfNeeded
    <2>4. CASE server = "down"
        <3>1. ctx' = "freed" /\ contexts' = 0
            BY <1>1, <2>4 DEF reconnectIfNeeded
        <3>2. failed'
            BY <2>4, Zenon DEF reconnectIfNeeded
        <3> QED BY <2>2, <3>1, <3>2
    <2> QED BY <2>1, <2>3, <2>4
<1>3. OneContext' /\ PointerInv'
    BY <1>2 DEF OneContext, PointerInv, Calling, conn, Allocated
<1>4. FaultsExplained'
    BY DEF FaultsExplained, Calling
<1>5. Balance'
    <2>1. out' = <<>> /\ in' = <<>>
        BY DEF reconnectIfNeeded
    <2>2. ~dropped' => asked' = <<>>
        BY DEF reconnectIfNeeded
    <2> QED BY <2>1, <2>2 DEF Balance
<1>6. out' \in Seq(Cmds) /\ in' \in Seq(Replies)
    BY DEF reconnectIfNeeded
<1> QED BY <1>2, <1>3, <1>4, <1>5, <1>6 DEF Contexts

(* Taking a reply from a context that is kept balances one command sent or *)
(* one reply less to wait for.                                             *)
LEMMA KeepStep ==
    ASSUME IInv, NEW s \in Seq(Cmds), NEW o \in redisGetReply(s), ctx \in Allocated,
           Keep(o), asked' \in Seq(Cmds),
           Len(s) + Len(asked) = Len(out) + Len(asked') + 1
    PROVE  Balance'
<1> SUFFICES ASSUME ctx' = "ok", ~dropped' PROVE Len(in') + Len(out') = Len(asked')
    BY DEF Balance
<1>1. in' = o.in /\ out' = o.out /\ o.ctx = "ok" /\ ~dropped
    BY DEF Keep
<1>2. /\ o.out \in Seq(Cmds) /\ o.in \in Seq(Replies) /\ ctx = "ok"
      /\ Len(o.in) + Len(o.out) + 1 = Len(in) + Len(s)
    BY <1>1, GetReplyType DEF IInv
<1>3. Len(in) + Len(out) = Len(asked)
    BY <1>1, <1>2 DEF IInv, Balance
<1>4. /\ Len(in) \in Nat /\ Len(out) \in Nat /\ Len(asked) \in Nat /\ Len(s) \in Nat
      /\ Len(asked') \in Nat /\ Len(o.in) \in Nat /\ Len(o.out) \in Nat
    BY <1>2 DEF IInv, TypeOK
<1> DEFINE i == Len(o.in)  u == Len(o.out)  n == Len(s)  q == Len(asked')
<1>5. i \in Nat /\ u \in Nat /\ n \in Nat /\ q \in Nat
    BY <1>4
<1>6. i + u + 1 = Len(in) + n
    BY <1>2
<1>7. n + Len(asked) = Len(out) + q + 1
    OBVIOUS
<1>8. i + u = q
    <2> HIDE DEF i, u, n, q
    <2> QED BY <1>3, <1>4, <1>5, <1>6, <1>7
<1> QED BY <1>1, <1>8

(* A plain command keeps the invariant. *)
LEMMA CommandStep ==
    ASSUME IInv, NEW c \in Cmds, NEW o \in redisGetReply(Append(out, c)),
           NEW op \in {"store", "get", "exists"},
           NEW ret \in BOOLEAN \cup Vals \cup {NONE},
           NEW did \in BOOLEAN, NEW reconnects \in BOOLEAN,
           redisCommand(op, c, o, ret, did, reconnects)
    PROVE  IInv'
<1>0. /\ Calling /\ ctx \in Allocated /\ db' = o.db /\ UNCHANGED <<conn, asked, fault>>
      /\ mixed' = (mixed \/ asked # <<>>)
    BY DEF redisCommand
<1>1. Append(out, c) \in Seq(Cmds) /\ Len(Append(out, c)) = Len(out) + 1
    BY DEF IInv, TypeOK
<1>2. /\ o.out \in Seq(Cmds) /\ o.in \in Seq(Replies) /\ o.reply \in Replies \cup {NONE}
      /\ o.db \in [Keys -> Texts] /\ o.ctx \in Allocated
      /\ o.ctx = "ok" => ctx = "ok" /\ Len(o.in) + Len(o.out) + 1 = Len(in) + Len(Append(out, c))
    BY <1>0, <1>1, GetReplyType DEF IInv
<1>3. last' \in Results
    <2>1. last' = [op |-> op, ret |-> ret, own |-> o.reply = NONE \/ o.reply.cmd = c,
                   did |-> did, alone |-> asked = <<>>,
                   re |-> o.reply = NONE /\ reconnects]
        BY DEF redisCommand
    <2> QED BY <2>1 DEF Results
<1>4. /\ OneContext' /\ PointerInv' /\ Balance' /\ FaultsExplained'
      /\ ctx' \in Contexts /\ contexts' \in Nat /\ failed' \in BOOLEAN
      /\ dropped' \in BOOLEAN /\ out' \in Seq(Cmds) /\ in' \in Seq(Replies)
    <2>1. CASE reconnectIfNeeded
        BY <1>0, <2>1, ReconnectStep
    <2>2. CASE Keep(o)
        <3>1. OneContext' /\ PointerInv' /\ FaultsExplained'
            BY <1>0, <1>2, <2>2 DEF IInv, OneContext, PointerInv, FaultsExplained, Keep, conn, Calling, Allocated
        <3>2. asked \in Seq(Cmds) /\ out \in Seq(Cmds)
            BY DEF IInv, TypeOK
        <3>3. Len(Append(out, c)) + Len(asked) = Len(out) + Len(asked') + 1
            BY <1>0, <1>1, <3>2
        <3>4. Balance'
            BY <1>0, <1>1, <2>2, <3>2, <3>3, KeepStep
        <3> QED BY <1>2, <2>2, <3>1, <3>4 DEF Keep, IInv, TypeOK, Contexts, Allocated
    <2> QED BY <2>1, <2>2 DEF redisCommand, handleConnectionErrors
<1>5. TypeOK'
    BY <1>0, <1>2, <1>3, <1>4 DEF IInv, TypeOK, conn, Texts
<1> QED BY <1>4, <1>5 DEF IInv

LEMMA StoreStep ==
    ASSUME IInv, NEW k \in Keys, NEW v \in Vals, Store(k, v)
    PROVE  IInv'
<1>1. Set(k, v) \in Cmds
    BY DEF Set, Cmds
<1>2. PICK o \in redisGetReply(Append(out, Set(k, v))) :
          redisCommand("store", Set(k, v), o, StoreResult(o.reply),
                       StoreResult(o.reply) => o.db[k] = v, TRUE)
    BY DEF Store
<1>3. StoreResult(o.reply) \in BOOLEAN
    BY DEF StoreResult
<1> QED BY <1>1, <1>2, <1>3, CommandStep

LEMMA ExistsStep ==
    ASSUME IInv, NEW k \in Keys, isKeyExist(k)
    PROVE  IInv'
<1> DEFINE c == [op |-> "exists", key |-> k, val |-> NONE]
<1>1. c \in Cmds
    BY DEF Cmds
<1>2. PICK o \in redisGetReply(Append(out, c)) :
          LET found == o.reply # NONE /\ o.reply.is = "integer" /\ o.reply.val # NONE
          IN  redisCommand("exists", c, o, found, found => o.db[k] # NONE, FALSE)
    BY DEF isKeyExist
<1> DEFINE found == o.reply # NONE /\ o.reply.is = "integer" /\ o.reply.val # NONE
<1>3. found \in BOOLEAN /\ (found => o.db[k] # NONE) \in BOOLEAN
    OBVIOUS
<1>4. redisCommand("exists", c, o, found, found => o.db[k] # NONE, FALSE)
    BY <1>2
<1> HIDE DEF c, found
<1> QED BY <1>1, <1>3, <1>4, CommandStep

(* The same for the three kinds of getters. *)
LEMMA GetStep ==
    ASSUME IInv, NEW k \in Keys, getNumber(k) \/ getString(k) \/ getBinary(k)
    PROVE  IInv'
<1> DEFINE c == [op |-> "get", key |-> k, val |-> NONE]
<1>1. c \in Cmds
    BY DEF Cmds
<1>0. PICK o \in redisGetReply(Append(out, c)) :
          \E ret \in {NumberOf(o.reply), StringOf(o.reply), BinaryOf(o.reply)} :
              redisCommand("get", c, o, ret, ret \in Vals => o.db[k] = ret, TRUE)
    BY Zenon DEF getNumber, getString, getBinary, Get
<1>2. PICK ret \in {NumberOf(o.reply), StringOf(o.reply), BinaryOf(o.reply)} :
          redisCommand("get", c, o, ret, ret \in Vals => o.db[k] = ret, TRUE)
    BY <1>0
<1>3. o.reply \in Replies \cup {NONE}
    <2>1. Append(out, c) \in Seq(Cmds)
        BY <1>1 DEF IInv, TypeOK
    <2>2. ctx \in Allocated
        BY <1>2 DEF redisCommand
    <2> QED BY <2>1, <2>2, GetReplyType DEF IInv
<1>4. ret \in BOOLEAN \cup Vals \cup {NONE}
    <2>1. o.reply # NONE => o.reply.val \in Vals \cup {NONE}
        BY <1>3 DEF Replies
    <2>2. NumberOf(o.reply) \in BOOLEAN \cup Vals \cup {NONE}
        BY <2>1 DEF NumberOf
    <2>3. StringOf(o.reply) \in BOOLEAN \cup Vals \cup {NONE}
        BY <2>1 DEF StringOf
    <2>4. BinaryOf(o.reply) \in BOOLEAN \cup Vals \cup {NONE}
        BY <2>1 DEF BinaryOf
    <2> QED BY <2>2, <2>3, <2>4
<1>5. (ret \in Vals => o.db[k] = ret) \in BOOLEAN
    OBVIOUS
<1> HIDE DEF c
<1> QED BY <1>1, <1>2, <1>4, <1>5, CommandStep

LEMMA CreateStep ==
    ASSUME IInv, NEW m \in {"default", "explicit"}, NEW c \in BOOLEAN, Create(m, c)
    PROVE  IInv'
<1>1. \/ ctx' = "ok" /\ contexts' = 1 /\ initialized' = TRUE
      \/ ctx' = "null" /\ contexts' = 0 /\ initialized' \in BOOLEAN
                /\ (m = "default" => initialized' = FALSE)
    BY DEF Create, checkRedisConnection
<1>2. /\ obj' = IF c /\ ~initialized' THEN "none" ELSE "live"
      /\ careful' = (c /\ m = "default") /\ UNCHANGED <<server, db, fault>>
      /\ out' = <<>> /\ in' = <<>> /\ asked' = <<>> /\ fault = "none"
      /\ mixed' = FALSE /\ dropped' = FALSE /\ failed' = FALSE /\ last' = NoResult
    BY DEF Create
<1>3. careful' \in BOOLEAN
    BY <1>2, Zenon
<1>4. TypeOK'
    <2>1. /\ out' \in Seq(Cmds) /\ in' \in Seq(Replies) /\ asked' \in Seq(Cmds)
          /\ last' \in Results
        BY <1>2, NoResultType
    <2>2. ctx' \in Contexts /\ contexts' \in Nat
        BY <1>1 DEF Contexts
    <2>3. initialized' \in BOOLEAN
        BY <1>1, Zenon
    <2>4. obj' \in {"none", "live"}
        BY <1>2, Zenon
    <2> QED BY <1>2, <1>3, <2>1, <2>2, <2>3, <2>4 DEF IInv, TypeOK
<1>5. OneContext' /\ FaultsExplained'
    BY <1>1, <1>2 DEF OneContext, FaultsExplained, Allocated
<1>6. PointerInv'
    <2>1. ctx' = "ok" => obj' = "live"
        BY <1>1, <1>2
    <2>2. obj' = "live" /\ ctx' = "null" => ~careful'
        <3> SUFFICES ASSUME obj' = "live", ctx' = "null", careful' PROVE FALSE
            OBVIOUS
        <3>1. c /\ m = "default"
            BY <1>2, Zenon
        <3>2. initialized' = FALSE
            BY <1>1, <3>1
        <3> QED BY <1>2, <3>1, <3>2
    <2>3. obj' = "none" => ctx' = "null"
        BY <1>1, <1>2, <2>1
    <2> QED BY <1>1, <2>2, <2>3 DEF PointerInv
<1>7. Balance'
    <2>1. Len(in') = 0 /\ Len(out') = 0 /\ Len(asked') = 0
        BY <1>2
    <2> QED BY <2>1 DEF Balance
<1> QED BY <1>4, <1>5, <1>6, <1>7 DEF IInv

LEMMA DestroyStep == ASSUME IInv, Destroy PROVE IInv'
<1>1. TypeOK'
    <2>1. contexts' \in Nat
        BY DEF IInv, TypeOK, OneContext, Destroy
    <2> QED BY <2>1, NoResultType DEF IInv, TypeOK, Destroy, Contexts
<1>2. OneContext' /\ PointerInv' /\ Balance'
    BY DEF IInv, TypeOK, OneContext, PointerInv, Balance, Destroy, Allocated
<1>3. FaultsExplained'
    BY DEF IInv, PointerInv, FaultsExplained, Destroy
<1> QED BY <1>1, <1>2, <1>3 DEF IInv

LEMMA BadContextStep == ASSUME IInv, BadContext PROVE IInv'
<1>1. FaultsExplained'
    BY DEF IInv, PointerInv, FaultsExplained, BadContext, Calling, conn
<1>2. TypeOK' /\ OneContext' /\ PointerInv' /\ Balance'
    BY DEF IInv, TypeOK, OneContext, PointerInv, Balance, BadContext, conn
<1> QED BY <1>1, <1>2 DEF IInv

LEMMA StoreNothingStep == ASSUME IInv, StoreNothing PROVE IInv'
<1>1. last' \in Results
    BY DEF StoreNothing, NoResult, Results
<1> QED
    BY <1>1 DEF IInv, TypeOK, OneContext, PointerInv, Balance, FaultsExplained,
                StoreNothing, conn

LEMMA AppendStep ==
    ASSUME IInv, NEW k \in Keys, NEW v \in Vals, storeBinaryForPipline(k, v)
    PROVE  IInv'
<1>1. last' \in Results
    BY DEF storeBinaryForPipline, NoResult, Results
<1>2. Set(k, v) \in Cmds
    BY DEF Set, Cmds
<1>3. out \in Seq(Cmds) /\ asked \in Seq(Cmds) /\ in \in Seq(Replies)
    BY DEF IInv, TypeOK
<1>4. /\ out' \in Seq(Cmds) /\ asked' \in Seq(Cmds)
      /\ Len(out') = Len(out) + 1 /\ Len(asked') = Len(asked) + 1
    BY <1>2, <1>3 DEF storeBinaryForPipline
<1>5. TypeOK' /\ OneContext' /\ PointerInv' /\ FaultsExplained'
    BY <1>1, <1>4 DEF IInv, TypeOK, OneContext, PointerInv, FaultsExplained,
                      storeBinaryForPipline, conn
<1>6. Balance'
    <2> SUFFICES ASSUME ctx = "ok", ~dropped PROVE Len(in') + Len(out') = Len(asked')
        BY DEF Balance, storeBinaryForPipline
    <2>1. Len(in) + Len(out) = Len(asked) /\ in' = in
        BY DEF IInv, Balance, storeBinaryForPipline
    <2> DEFINE i == Len(in)  u == Len(out)
    <2>2. i \in Nat /\ u \in Nat /\ Len(asked) = i + u
        BY <1>3, <2>1
    <2>3. Len(asked') = i + (u + 1)
        <3> HIDE DEF i, u
        <3> QED BY <1>4, <2>2
    <2> QED BY <1>4, <2>1, <2>3
<1> QED BY <1>5, <1>6 DEF IInv

LEMMA ProcessStep == ASSUME IInv, processSetRedisReply PROVE IInv'
<1>1. PICK o \in redisGetReply(out) :
          /\ db' = o.db
          /\ Keep(o)
          /\ last' = [op |-> "process", ret |-> o.reply # NONE /\ o.reply.is = "status",
                      own |-> o.reply = NONE \/ o.reply.cmd = Head(asked),
                      did |-> TRUE, alone |-> ~mixed /\ ~dropped, re |-> FALSE]
    BY DEF processSetRedisReply
<1>2. /\ Calling /\ ctx \in Allocated /\ asked # <<>> /\ asked' = Tail(asked)
      /\ mixed' = (mixed /\ Tail(asked) # <<>>) /\ UNCHANGED <<conn, fault>>
    BY DEF processSetRedisReply
<1>3. out \in Seq(Cmds) /\ asked \in Seq(Cmds)
    BY DEF IInv, TypeOK
<1>4. /\ o.out \in Seq(Cmds) /\ o.in \in Seq(Replies)
      /\ o.db \in [Keys -> Texts] /\ o.ctx \in Allocated
    BY <1>2, <1>3, GetReplyType DEF IInv
<1>5. last' \in Results
    BY <1>1 DEF Results
<1>6. asked' \in Seq(Cmds) /\ Len(asked') = Len(asked) - 1 /\ Len(asked) \in Nat
    BY <1>2, <1>3, HeadTailProperties
<1>7. Len(out) + Len(asked) = Len(out) + Len(asked') + 1
    <2>1. Len(out) \in Nat
        BY <1>3
    <2> QED BY <1>6, <2>1
<1>8. Balance'
    BY <1>1, <1>2, <1>3, <1>6, <1>7, KeepStep
<1>9. mixed' \in BOOLEAN
    BY <1>2, Zenon
<1>10. TypeOK'
    BY <1>1, <1>2, <1>4, <1>5, <1>6, <1>9 DEF IInv, TypeOK, Keep, conn, Texts, Contexts, Allocated
<1>11. OneContext' /\ PointerInv' /\ FaultsExplained'
    BY <1>1, <1>2, <1>4 DEF IInv, OneContext, PointerInv, FaultsExplained, Keep, conn, Calling, Allocated
<1> QED BY <1>8, <1>10, <1>11 DEF IInv

LEMMA HangStep == ASSUME IInv, ProcessHangs PROVE IInv'
<1>1. dropped
    <2> SUFFICES ASSUME ~dropped PROVE FALSE
        OBVIOUS
    <2>1. Len(in) + Len(out) = Len(asked) /\ in = <<>> /\ out = <<>>
        BY DEF IInv, Balance, ProcessHangs
    <2>2. asked \in Seq(Cmds) /\ Len(asked) = 0
        BY <2>1 DEF IInv, TypeOK
    <2> QED BY <2>2 DEF ProcessHangs
<1>2. FaultsExplained'
    BY <1>1 DEF FaultsExplained, ProcessHangs
<1>3. TypeOK' /\ OneContext' /\ PointerInv' /\ Balance'
    BY DEF IInv, TypeOK, OneContext, PointerInv, Balance, ProcessHangs, conn
<1> QED BY <1>2, <1>3 DEF IInv

LEMMA EnvironmentStep == ASSUME IInv, Environment PROVE IInv'
<1>1. ASSUME NEW s \in {"up", "down"}, Cut(s) PROVE IInv'
    <2>1. in' \in Seq(Replies)
        BY <1>1 DEF IInv, TypeOK, Cut
    <2>2. ctx' # "ok" /\ (ctx' \in Allocated <=> ctx \in Allocated) /\ ctx' \in Contexts
          /\ (ctx' = "null" <=> ctx = "null") /\ (ctx' = "freed" <=> ctx = "freed")
        BY <1>1 DEF IInv, TypeOK, Cut, Allocated, Contexts
    <2> QED BY <1>1, <2>1, <2>2 DEF IInv, TypeOK, OneContext, PointerInv, Balance, FaultsExplained, Cut
<1>2. CASE ServerUp
    BY <1>2 DEF IInv, TypeOK, OneContext, PointerInv, Balance, FaultsExplained, ServerUp
<1> QED BY <1>1, <1>2 DEF Environment

LEMMA NextIInv == IInv /\ [Next]_vars => IInv'
<1> SUFFICES ASSUME IInv, [Next]_vars PROVE IInv'
    OBVIOUS
<1>1. CASE UNCHANGED vars
    BY <1>1 DEF vars, IInv, TypeOK, OneContext, PointerInv, Balance, FaultsExplained
<1>2. CASE Owner
    BY <1>2, CreateStep, DestroyStep, BadContextStep, StoreStep, StoreNothingStep,
       ExistsStep, GetStep, AppendStep, ProcessStep, HangStep DEF Owner
<1>3. CASE Environment
    BY <1>3, EnvironmentStep
<1> QED BY <1>1, <1>2, <1>3 DEF Next

(* IInv is an invariant of the specification. *)
THEOREM InductiveInvariant == Spec => []IInv
BY InitIInv, NextIInv, PTL DEF Spec

(* The variables keep their types: whatever is pipelined and however the   *)
(* connection breaks, the buffers hold commands and replies only.          *)
THEOREM TypeCorrect == Spec => []TypeOK
<1>1. IInv => TypeOK
    BY DEF IInv
<1> QED BY <1>1, InductiveInvariant, PTL

(* DRDSDataRedis hands hiredis a bad context, or waits for ever, only for  *)
(* the reasons FaultsExplained names.                                      *)
THEOREM FaultsAreExplained == Spec => []FaultsExplained
<1>1. IInv => FaultsExplained
    BY DEF IInv
<1> QED BY <1>1, InductiveInvariant, PTL

(* No reconnect and no destruction leaks a redisContext. *)
THEOREM NoContextLeaks == Spec => []OneContext
<1>1. IInv => OneContext
    BY DEF IInv
<1> QED BY <1>1, InductiveInvariant, PTL

-----------------------------------------------------------------------------
(* Whose reply it is.  On top of IInv: an allocated context never holds    *)
(* more commands and replies than the owner waits for, and as long as no   *)
(* plain command and no reconnect came between, they are in its order.     *)

Bound == ctx \in Allocated => Len(in) + Len(out) <= Len(asked)

InOrder ==
    ~mixed /\ ~dropped /\ ctx \in {"ok", "cut"} =>
        /\ \A j \in 1 .. Len(in) : in[j].cmd = asked[j]
        /\ ctx = "ok" => \A j \in 1 .. Len(out) : out[j] = asked[Len(in) + j]

OrderInv == Bound /\ InOrder /\ ReplyOwn /\ AckHonest

(* How redisGetReply ends: it hands out the first of the replies that were *)
(* read, or sends all and hands out the first of the old and new replies,  *)
(* or gives none and forgets everything.                                   *)
LEMMA ReplyShapes ==
    ASSUME TypeOK, ctx \in Allocated, NEW s \in Seq(Cmds), NEW o \in redisGetReply(s)
    PROVE  \/ /\ ctx \in {"ok", "cut"} /\ in # <<>>
              /\ o = Gets(Head(in), s, Tail(in), ctx, db)
           \/ /\ ctx = "ok"
              /\ \E ok \in SUBSET DOMAIN s, rs \in Seq(Replies) :
                    /\ rs # <<>> /\ Len(rs) = Len(in) + Len(s)
                    /\ \A j \in 1 .. Len(in) : rs[j] = in[j]
                    /\ \A j \in 1 .. Len(s) : rs[Len(in) + j] = ReplyTo(db, s, ok, j)
                    /\ o = Gets(Head(rs), <<>>, Tail(rs), "ok", After(db, s, ok))
           \/ o.reply = NONE /\ o.out = <<>> /\ o.in = <<>> /\ o.ctx = "err"
<1>0. db \in [Keys -> Texts] /\ in \in Seq(Replies)
    BY DEF TypeOK, Texts
<1>1. CASE o \in Buffered(s)
    BY <1>1 DEF Buffered, Allocated
<1>2. CASE o \in Answered(s)
    <2>1. PICK ok \in SUBSET DOMAIN s :
             LET rs == in \o [i \in DOMAIN s |-> ReplyTo(db, s, ok, i)]
             IN  o = Gets(Head(rs), <<>>, Tail(rs), "ok", After(db, s, ok))
        BY <1>2 DEF Answered
    <2>2. ctx = "ok" /\ ~(s = <<>> /\ in = <<>>)
        BY <1>2 DEF Answered
    <2> DEFINE new == [i \in DOMAIN s |-> ReplyTo(db, s, ok, i)]
               rs == in \o new
    <2>3. /\ new \in Seq(Replies) /\ Len(new) = Len(s)
          /\ \A j \in 1 .. Len(s) : new[j] = ReplyTo(db, s, ok, j)
        <3>1. \A i \in DOMAIN s : ReplyTo(db, s, ok, i) \in Replies
            BY <1>0, ReplyType
        <3>2. new \in [1 .. Len(s) -> Replies]
            BY <3>1
        <3> QED BY <3>2
    <2>4. /\ rs \in Seq(Replies) /\ Len(rs) = Len(in) + Len(s)
          /\ \A j \in 1 .. Len(in) : rs[j] = in[j]
          /\ \A j \in 1 .. Len(s) : rs[Len(in) + j] = new[j]
        <3> HIDE DEF new
        <3> QED BY <1>0, <2>3
    <2>5. o = Gets(Head(rs), <<>>, Tail(rs), "ok", After(db, s, ok))
        BY <2>1
    <2>6. rs # <<>>
        <3> HIDE DEF new, rs
        <3> QED BY <1>0, <2>2, <2>4
    <2> HIDE DEF new, rs
    <2> QED BY <2>2, <2>3, <2>4, <2>5, <2>6
<1>3. CASE o \in Lost(s) \cup Broken(s)
    BY <1>3 DEF Lost, Broken, Gets
<1> QED BY <1>1, <1>2, <1>3 DEF redisGetReply

(* The reply to a command is labelled with it. *)
LEMMA ReplyLabel ==
    ASSUME NEW d, NEW s, NEW ok, NEW i
    PROVE  ReplyTo(d, s, ok, i).cmd = s[i]
BY DEF ReplyTo

(* Taking a reply leaves nothing, or one less. *)
LEMMA OneTaken ==
    ASSUME TypeOK, ctx \in Allocated, NEW s \in Seq(Cmds), NEW o \in redisGetReply(s)
    PROVE  \/ o.in = <<>> /\ o.out = <<>>
           \/ Len(o.in) + Len(o.out) + 1 = Len(in) + Len(s)
<1>0. in \in Seq(Replies) /\ Len(in) \in Nat /\ Len(s) \in Nat
    BY DEF TypeOK
<1>1. CASE in # <<>> /\ o = Gets(Head(in), s, Tail(in), ctx, db)
    <2>1. Len(Tail(in)) = Len(in) - 1
        BY <1>0, <1>1, HeadTailProperties
    <2>2. Len(o.in) = Len(in) - 1 /\ Len(o.out) = Len(s)
        BY <1>1, <2>1 DEF Gets
    <2> DEFINE i == Len(in)  n == Len(s)  oi == Len(o.in)  ou == Len(o.out)
    <2>3. oi + ou + 1 = i + n
        <3>1. oi = i - 1 /\ ou = n /\ i \in Nat /\ n \in Nat
            BY <1>0, <2>2
        <3> HIDE DEF i, n, oi, ou
        <3> QED BY <3>1
    <2> QED BY <2>3
<1>2. ASSUME NEW rs \in Seq(Replies), NEW d, rs # <<>>, Len(rs) = Len(in) + Len(s),
             o = Gets(Head(rs), <<>>, Tail(rs), "ok", d)
      PROVE  Len(o.in) + Len(o.out) + 1 = Len(in) + Len(s)
    <2>1. Len(Tail(rs)) = Len(rs) - 1
        BY <1>2, HeadTailProperties
    <2>2. Len(o.in) = Len(rs) - 1 /\ Len(o.out) = 0
        BY <1>2, <2>1 DEF Gets
    <2> DEFINE i == Len(in)  n == Len(s)  oi == Len(o.in)  ou == Len(o.out)
    <2>3. oi + ou + 1 = i + n
        <3>1. oi = i + n - 1 /\ ou = 0 /\ i \in Nat /\ n \in Nat
            BY <1>0, <1>2, <2>2
        <3> HIDE DEF i, n, oi, ou
        <3> QED BY <3>1
    <2> QED BY <2>3
<1> QED BY <1>1, <1>2, ReplyShapes

(* A plain command that is alone gets its own reply, or none. *)
LEMMA LoneReply ==
    ASSUME IInv, Bound, ctx \in Allocated, asked = <<>>, NEW c \in Cmds,
           NEW o \in redisGetReply(Append(out, c))
    PROVE  \/ o.reply = NONE
           \/ \E ok : o.reply = ReplyTo(db, <<c>>, ok, 1) /\ o.db = After(db, <<c>>, ok)
<1>1. in \in Seq(Replies) /\ out \in Seq(Cmds) /\ TypeOK
    BY DEF IInv, TypeOK
<1>2. in = <<>> /\ out = <<>>
    <2>1. Len(in) + Len(out) <= 0 /\ Len(in) \in Nat /\ Len(out) \in Nat
        BY <1>1 DEF Bound
    <2>2. Len(in) = 0 /\ Len(out) = 0
        BY <2>1
    <2> QED BY <1>1, <2>2
<1>3. Append(out, c) = <<c>> /\ <<c>> \in Seq(Cmds) /\ Len(<<c>>) = 1 /\ Len(in) = 0
    BY <1>2
<1>4. ASSUME NEW ok, NEW rs \in Seq(Replies), rs # <<>>,
             \A j \in 1 .. Len(<<c>>) : rs[Len(in) + j] = ReplyTo(db, <<c>>, ok, j),
             o = Gets(Head(rs), <<>>, Tail(rs), "ok", After(db, <<c>>, ok))
      PROVE  o.reply = ReplyTo(db, <<c>>, ok, 1) /\ o.db = After(db, <<c>>, ok)
    <2>1. rs[0 + 1] = ReplyTo(db, <<c>>, ok, 1)
        BY <1>3, <1>4
    <2>2. Head(rs) = rs[1]
        BY <1>4
    <2> QED BY <1>4, <2>1, <2>2 DEF Gets
<1>5. o \in redisGetReply(<<c>>)
    BY <1>3
<1>6. \/ in # <<>>
      \/ \E ok \in SUBSET DOMAIN <<c>>, rs \in Seq(Replies) :
            /\ rs # <<>>
            /\ \A j \in 1 .. Len(<<c>>) : rs[Len(in) + j] = ReplyTo(db, <<c>>, ok, j)
            /\ o = Gets(Head(rs), <<>>, Tail(rs), "ok", After(db, <<c>>, ok))
      \/ o.reply = NONE
    <2>1. ASSUME NEW s, s = <<c>>
          PROVE  \/ in # <<>>
                 \/ \E ok \in SUBSET DOMAIN s, rs \in Seq(Replies) :
                       /\ rs # <<>>
                       /\ \A j \in 1 .. Len(s) : rs[Len(in) + j] = ReplyTo(db, s, ok, j)
                       /\ o = Gets(Head(rs), <<>>, Tail(rs), "ok", After(db, s, ok))
                 \/ o.reply = NONE
        <3>1. s \in Seq(Cmds) /\ o \in redisGetReply(s)
            BY <1>3, <1>5, <2>1
        <3> QED BY <1>1, <3>1, ReplyShapes, Zenon
    <2> QED BY <2>1
<1> QED BY <1>2, <1>4, <1>6, Zenon

(* What a lone command does to the contents. *)
LEMMA LoneEffect ==
    ASSUME NEW d \in [Keys -> Texts], NEW c \in Cmds, NEW ok
    PROVE  /\ c.op # "set" => After(d, <<c>>, ok) = d
           /\ c.op = "set" /\ 1 \in ok => After(d, <<c>>, ok)[c.key] = c.val
           /\ c.op # "set" /\ 1 \in ok => ReplyTo(d, <<c>>, ok, 1).val = d[c.key]
           /\ 1 \notin ok => ReplyTo(d, <<c>>, ok, 1).is = "error"
<1>0. c.key \in Keys /\ DOMAIN <<c>> = {1} /\ <<c>>[1] = c
    BY DEF Cmds
<1>1. ASSUME c.op # "set" PROVE After(d, <<c>>, ok) = d
    BY <1>0, <1>1 DEF After
<1>2. ASSUME c.op = "set", 1 \in ok PROVE After(d, <<c>>, ok)[c.key] = c.val
    <2> DEFINE Sets == {i \in DOMAIN <<c>> : i \in ok /\ <<c>>[i].op = "set"
                                             /\ <<c>>[i].key = c.key}
               Final == {i \in Sets : \A j \in Sets : j <= i}
    <2>1. Sets = {1}
        BY <1>0, <1>2
    <2>2. Final = {1}
        BY <2>1
    <2>3. After(d, <<c>>, ok)[c.key]
            = IF Final = {} THEN d[c.key] ELSE <<c>>[CHOOSE i \in Final : TRUE].val
        BY <1>0 DEF After
    <2> HIDE DEF Final
    <2>4. (CHOOSE i \in Final : TRUE) = 1
        BY <2>2
    <2> QED BY <1>0, <2>2, <2>3, <2>4
<1>3. ASSUME c.op # "set", 1 \in ok PROVE ReplyTo(d, <<c>>, ok, 1).val = d[c.key]
    <2>1. SubSeq(<<c>>, 1, 1 - 1) = <<>>
        OBVIOUS
    <2>2. After(d, <<>>, ok)[c.key] = d[c.key]
        BY <1>0 DEF After
    <2> QED BY <1>0, <1>3, <2>1, <2>2 DEF ReplyTo
<1>4. ASSUME 1 \notin ok PROVE ReplyTo(d, <<c>>, ok, 1).is = "error"
    BY <1>0, <1>4 DEF ReplyTo
<1> QED BY <1>1, <1>2, <1>3, <1>4

(* Nothing is in disorder when the owner waits for nothing. *)
LEMMA NothingAsked ==
    ASSUME in' \in Seq(Replies), out' \in Seq(Cmds), asked' = <<>>, Bound'
    PROVE  InOrder'
<1> SUFFICES ASSUME ctx' \in {"ok", "cut"}
             PROVE  /\ \A j \in 1 .. Len(in') : in'[j].cmd = asked'[j]
                    /\ \A j \in 1 .. Len(out') : out'[j] = asked'[Len(in') + j]
    BY DEF InOrder
<1>1. Len(in') + Len(out') <= 0 /\ Len(in') \in Nat /\ Len(out') \in Nat
    BY DEF Bound, Allocated
<1>2. Len(in') = 0 /\ Len(out') = 0
    BY <1>1
<1> QED BY <1>2

(* A plain command keeps the order, provided it tells the truth when it is *)
(* alone.                                                                  *)
LEMMA CommandOrder ==
    ASSUME IInv, IInv', OrderInv, NEW c \in Cmds, NEW o \in redisGetReply(Append(out, c)),
           NEW op, NEW ret, NEW did \in BOOLEAN, NEW reconnects \in BOOLEAN,
           redisCommand(op, c, o, ret, did, reconnects),
           asked = <<>> /\ ~(o.reply = NONE /\ reconnects) => did
    PROVE  OrderInv'
<1>0. /\ ctx \in Allocated /\ asked' = asked /\ mixed' = (mixed \/ asked # <<>>)
      /\ last' = [op |-> op, ret |-> ret, own |-> o.reply = NONE \/ o.reply.cmd = c,
                  did |-> did, alone |-> asked = <<>>,
                  re |-> o.reply = NONE /\ reconnects]
    BY DEF redisCommand
<1>1. /\ out \in Seq(Cmds) /\ in \in Seq(Replies) /\ asked \in Seq(Cmds) /\ TypeOK
      /\ Append(out, c) \in Seq(Cmds) /\ Len(Append(out, c)) = Len(out) + 1
    BY DEF IInv, TypeOK
<1>2. Bound'
    <2> DEFINE oi == Len(in')  ou == Len(out')  i == Len(in)  u == Len(out)  q == Len(asked)
    <2>1. i \in Nat /\ u \in Nat /\ q \in Nat /\ i + u <= q
        BY <1>0, <1>1 DEF OrderInv, Bound
    <2>2. oi \in Nat /\ ou \in Nat
        BY DEF IInv, TypeOK
    <2>3. (oi = 0 /\ ou = 0) \/ oi + ou + 1 = i + (u + 1)
        <3>1. CASE reconnectIfNeeded
            BY <3>1 DEF reconnectIfNeeded
        <3>2. CASE Keep(o)
            <4>1. in' = o.in /\ out' = o.out
                BY <3>2 DEF Keep
            <4>2. \/ o.in = <<>> /\ o.out = <<>>
                  \/ Len(o.in) + Len(o.out) + 1 = Len(in) + Len(Append(out, c))
                BY <1>0, <1>1, OneTaken
            <4> QED BY <1>1, <4>1, <4>2
        <3> QED BY <3>1, <3>2 DEF redisCommand, handleConnectionErrors
    <2>4. oi + ou <= q
        <3> HIDE DEF oi, ou, i, u, q
        <3> QED BY <2>1, <2>2, <2>3
    <2> QED BY <1>0, <2>4 DEF Bound
<1>3. InOrder'
    <2>1. CASE asked = <<>>
        <3>1. in' \in Seq(Replies) /\ out' \in Seq(Cmds) /\ asked' = <<>>
            BY <1>0, <2>1 DEF IInv, TypeOK
        <3> QED BY <1>2, <3>1, NothingAsked
    <2>2. CASE asked # <<>>
        BY <1>0, <2>2 DEF InOrder
    <2> QED BY <2>1, <2>2
<1>4. ReplyOwn'
    <2> SUFFICES ASSUME asked = <<>> PROVE o.reply = NONE \/ o.reply.cmd = c
        BY <1>0 DEF ReplyOwn
    <2>1. \/ o.reply = NONE
          \/ \E ok : o.reply = ReplyTo(db, <<c>>, ok, 1) /\ o.db = After(db, <<c>>, ok)
        BY <1>0, LoneReply DEF OrderInv
    <2>2. <<c>>[1] = c
        OBVIOUS
    <2> QED BY <2>1, <2>2, ReplyLabel
<1>5. AckHonest'
    BY <1>0 DEF AckHonest
<1> QED BY <1>2, <1>3, <1>4, <1>5 DEF OrderInv

(* storeValue: true without a reconnect means stored. *)
LEMMA StoreOrder ==
    ASSUME IInv, IInv', OrderInv, NEW k \in Keys, NEW v \in Vals, Store(k, v)
    PROVE  OrderInv'
<1>1. Set(k, v) \in Cmds
    BY DEF Set, Cmds
<1>2. PICK o \in redisGetReply(Append(out, Set(k, v))) :
          redisCommand("store", Set(k, v), o, StoreResult(o.reply),
                       StoreResult(o.reply) => o.db[k] = v, TRUE)
    BY DEF Store
<1>3. ASSUME asked = <<>>, o.reply # NONE, StoreResult(o.reply) PROVE o.db[k] = v
    <2>1. ctx \in Allocated /\ db \in [Keys -> Texts]
        BY <1>2 DEF redisCommand, IInv, TypeOK, Texts
    <2>2. PICK ok : /\ o.reply = ReplyTo(db, <<Set(k, v)>>, ok, 1)
                    /\ o.db = After(db, <<Set(k, v)>>, ok)
        BY <1>1, <1>2, <1>3, <2>1, LoneReply DEF OrderInv
    <2>3. o.reply.is # "error"
        BY <1>3 DEF StoreResult
    <2>4. 1 \in ok
        BY <1>1, <2>1, <2>2, <2>3, LoneEffect
    <2>5. Set(k, v).op = "set" /\ Set(k, v).key = k /\ Set(k, v).val = v
        BY DEF Set
    <2> QED BY <1>1, <2>1, <2>2, <2>4, <2>5, LoneEffect
<1>4. (StoreResult(o.reply) => o.db[k] = v) \in BOOLEAN
    BY DEF StoreResult
<1>5. asked = <<>> /\ ~(o.reply = NONE /\ TRUE) => (StoreResult(o.reply) => o.db[k] = v)
    BY <1>3
<1> QED BY <1>1, <1>2, <1>4, <1>5, CommandOrder

(* isKeyExist: true means that the key is there. *)
LEMMA ExistsOrder ==
    ASSUME IInv, IInv', OrderInv, NEW k \in Keys, isKeyExist(k)
    PROVE  OrderInv'
<1> DEFINE c == [op |-> "exists", key |-> k, val |-> NONE]
<1>1. c \in Cmds /\ c.op # "set" /\ c.key = k
    BY DEF Cmds
<1>2. PICK o \in redisGetReply(Append(out, c)) :
          LET found == o.reply # NONE /\ o.reply.is = "integer" /\ o.reply.val # NONE
          IN  redisCommand("exists", c, o, found, found => o.db[k] # NONE, FALSE)
    BY DEF isKeyExist
<1> DEFINE found == o.reply # NONE /\ o.reply.is = "integer" /\ o.reply.val # NONE
<1>3. found \in BOOLEAN /\ (found => o.db[k] # NONE) \in BOOLEAN
    OBVIOUS
<1>4. redisCommand("exists", c, o, found, found => o.db[k] # NONE, FALSE)
    BY <1>2
<1> HIDE DEF c
<1>5. ASSUME asked = <<>>, found PROVE o.db[k] # NONE
    <2>1. ctx \in Allocated /\ db \in [Keys -> Texts]
        BY <1>4 DEF redisCommand, IInv, TypeOK, Texts
    <2>2. PICK ok : o.reply = ReplyTo(db, <<c>>, ok, 1) /\ o.db = After(db, <<c>>, ok)
        BY <1>1, <1>5, <2>1, LoneReply DEF OrderInv
    <2>3. 1 \in ok
        BY <1>1, <1>5, <2>1, <2>2, LoneEffect
    <2>4. o.reply.val = db[k] /\ o.db = db
        BY <1>1, <2>1, <2>2, <2>3, LoneEffect
    <2> QED BY <1>5, <2>4
<1> HIDE DEF found
<1> QED BY <1>1, <1>3, <1>4, <1>5, CommandOrder

(* A text that a getter returns is the stored one. *)
LEMMA GetOrder ==
    ASSUME IInv, IInv', OrderInv, NEW k \in Keys, getNumber(k) \/ getString(k) \/ getBinary(k)
    PROVE  OrderInv'
<1> DEFINE c == [op |-> "get", key |-> k, val |-> NONE]
<1>1. c \in Cmds /\ c.op # "set" /\ c.key = k
    BY DEF Cmds
<1>0. PICK o \in redisGetReply(Append(out, c)) :
          \E ret \in {NumberOf(o.reply), StringOf(o.reply), BinaryOf(o.reply)} :
              redisCommand("get", c, o, ret, ret \in Vals => o.db[k] = ret, TRUE)
    BY Zenon DEF getNumber, getString, getBinary, Get
<1>2. PICK ret \in {NumberOf(o.reply), StringOf(o.reply), BinaryOf(o.reply)} :
          redisCommand("get", c, o, ret, ret \in Vals => o.db[k] = ret, TRUE)
    BY <1>0
<1> HIDE DEF c
<1>3. ASSUME asked = <<>>, o.reply # NONE, ret \in Vals PROVE o.db[k] = ret
    <2>1. ctx \in Allocated /\ db \in [Keys -> Texts]
        BY <1>2 DEF redisCommand, IInv, TypeOK, Texts
    <2>2. PICK ok : o.reply = ReplyTo(db, <<c>>, ok, 1) /\ o.db = After(db, <<c>>, ok)
        BY <1>1, <1>3, <2>1, LoneReply DEF OrderInv
    <2>3. o.reply.is = "string" /\ ret = o.reply.val
        <3>1. TRUE \notin Vals /\ FALSE \notin Vals /\ NONE \notin Vals
            BY TextAssumption, NoneAssumption
        <3>2. CASE ret = NumberOf(o.reply)
            BY <1>3, <3>1, <3>2 DEF NumberOf
        <3>3. CASE ret = StringOf(o.reply)
            BY <1>3, <3>1, <3>3 DEF StringOf
        <3>4. CASE ret = BinaryOf(o.reply)
            BY <1>3, <3>1, <3>4 DEF BinaryOf
        <3> QED BY <3>2, <3>3, <3>4
    <2>4. 1 \in ok
        BY <1>1, <2>1, <2>2, <2>3, LoneEffect
    <2>5. o.reply.val = db[k] /\ o.db = db
        BY <1>1, <2>1, <2>2, <2>4, LoneEffect
    <2> QED BY <2>3, <2>5
<1>4. (ret \in Vals => o.db[k] = ret) \in BOOLEAN
    OBVIOUS
<1>5. asked = <<>> /\ ~(o.reply = NONE /\ TRUE) => (ret \in Vals => o.db[k] = ret)
    BY <1>3
<1> QED BY <1>1, <1>2, <1>4, <1>5, CommandOrder

(* processSetRedisReply takes the oldest reply, and the others keep their  *)
(* order.                                                                  *)
LEMMA ProcessOrder ==
    ASSUME IInv, IInv', OrderInv, processSetRedisReply
    PROVE  OrderInv'
<1>1. PICK o \in redisGetReply(out) :
          /\ Keep(o)
          /\ last' = [op |-> "process", ret |-> o.reply # NONE /\ o.reply.is = "status",
                      own |-> o.reply = NONE \/ o.reply.cmd = Head(asked),
                      did |-> TRUE, alone |-> ~mixed /\ ~dropped, re |-> FALSE]
    BY DEF processSetRedisReply
<1>2. /\ ctx \in Allocated /\ asked # <<>> /\ asked' = Tail(asked)
      /\ mixed' = (mixed /\ Tail(asked) # <<>>) /\ dropped' = dropped
      /\ in' = o.in /\ out' = o.out /\ ctx' = o.ctx
    BY <1>1 DEF processSetRedisReply, Keep
<1>3. /\ TypeOK /\ out \in Seq(Cmds) /\ in \in Seq(Replies) /\ asked \in Seq(Cmds)
      /\ out' \in Seq(Cmds) /\ in' \in Seq(Replies) /\ asked' \in Seq(Cmds)
    BY DEF IInv, TypeOK
<1>4. /\ Len(asked') = Len(asked) - 1 /\ Len(asked) \in Nat \ {0}
      /\ Head(asked) = asked[1]
      /\ \A j \in 1 .. Len(asked) - 1 : asked'[j] = asked[j + 1]
    BY <1>2, <1>3, HeadTailProperties
<1>5. Bound'
    <2> DEFINE oi == Len(in')  ou == Len(out')  i == Len(in)  u == Len(out)
               q == Len(asked)  r == Len(asked')
    <2>1. i + u <= q /\ r = q - 1 /\ q \in Nat \ {0} /\ i \in Nat /\ u \in Nat
        BY <1>2, <1>3, <1>4 DEF OrderInv, Bound
    <2>2. oi \in Nat /\ ou \in Nat
        BY <1>3
    <2>3. (oi = 0 /\ ou = 0) \/ oi + ou + 1 = i + u
        <3>1. \/ o.in = <<>> /\ o.out = <<>>
              \/ Len(o.in) + Len(o.out) + 1 = Len(in) + Len(out)
            BY <1>2, <1>3, OneTaken
        <3> QED BY <1>2, <3>1
    <2>4. oi + ou <= r
        <3> HIDE DEF oi, ou, i, u, q, r
        <3> QED BY <2>1, <2>2, <2>3
    <2> QED BY <2>4 DEF Bound
<1>6. CASE asked' = <<>> /\ (mixed \/ dropped)
    <2>1. InOrder'
        BY <1>3, <1>5, <1>6, NothingAsked
    <2>2. ReplyOwn' /\ AckHonest'
        BY <1>1, <1>6 DEF ReplyOwn, AckHonest
    <2> QED BY <1>5, <2>1, <2>2 DEF OrderInv
<1>7. CASE asked' # <<>> /\ (mixed \/ dropped)
    <2>1. InOrder'
        BY <1>2, <1>7 DEF InOrder
    <2>2. ReplyOwn' /\ AckHonest'
        BY <1>1, <1>7 DEF ReplyOwn, AckHonest
    <2> QED BY <1>5, <2>1, <2>2 DEF OrderInv
<1>8. CASE ~mixed /\ ~dropped
    <2>0. AckHonest'
        BY <1>1 DEF AckHonest
    <2>1. CASE o.reply = NONE /\ o.out = <<>> /\ o.in = <<>> /\ o.ctx = "err"
        BY <1>1, <1>2, <1>5, <2>0, <2>1 DEF OrderInv, InOrder, ReplyOwn
    <2>2. CASE ctx \in {"ok", "cut"} /\ in # <<>> /\ o = Gets(Head(in), out, Tail(in), ctx, db)
        <3>1. /\ o.reply = Head(in) /\ out' = out /\ in' = Tail(in) /\ ctx' = ctx
            BY <1>2, <2>2 DEF Gets
        <3>2. /\ Len(in') = Len(in) - 1 /\ Len(in) \in Nat \ {0} /\ Head(in) = in[1]
              /\ \A j \in 1 .. Len(in) - 1 : in'[j] = in[j + 1]
            BY <1>3, <2>2, <3>1, HeadTailProperties
        <3>3. /\ \A j \in 1 .. Len(in) : in[j].cmd = asked[j]
              /\ ctx = "ok" => \A j \in 1 .. Len(out) : out[j] = asked[Len(in) + j]
            BY <1>8, <2>2 DEF OrderInv, InOrder
        <3>4. ReplyOwn'
            <4>1. 1 \in 1 .. Len(in)
                BY <3>2
            <4>2. o.reply.cmd = Head(asked)
                BY <1>4, <3>1, <3>2, <3>3, <4>1
            <4> QED BY <1>1, <4>2 DEF ReplyOwn
        <3>5. Len(in) + Len(out) <= Len(asked) /\ Len(out) \in Nat
            BY <1>2, <1>3 DEF OrderInv, Bound
        <3>6. \A j \in 1 .. Len(in') : in'[j].cmd = asked'[j]
            <4> SUFFICES ASSUME NEW j \in 1 .. Len(in') PROVE in'[j].cmd = asked'[j]
                OBVIOUS
            <4>1. j \in 1 .. Len(in) - 1 /\ j + 1 \in 1 .. Len(in) /\ j \in 1 .. Len(asked) - 1
                BY <1>4, <3>2, <3>5
            <4> QED BY <1>4, <3>2, <3>3, <4>1
        <3>7. ASSUME ctx = "ok", NEW j \in 1 .. Len(out')
              PROVE  out'[j] = asked'[Len(in') + j]
            <4>1. /\ j \in 1 .. Len(out) /\ Len(in') + j = Len(in) - 1 + j
                  /\ Len(in) - 1 + j \in 1 .. Len(asked) - 1 /\ (Len(in) - 1 + j) + 1 = Len(in) + j
                BY <1>4, <3>1, <3>2, <3>5, <3>7
            <4>2. asked'[Len(in) - 1 + j] = asked[(Len(in) - 1 + j) + 1]
                BY <1>4, <4>1
            <4> QED BY <3>1, <3>3, <3>7, <4>1, <4>2
        <3>8. InOrder'
            BY <3>1, <3>6, <3>7 DEF InOrder
        <3> QED BY <1>5, <2>0, <3>4, <3>8 DEF OrderInv
    <2>3. ASSUME ctx = "ok", NEW ok, NEW rs \in Seq(Replies),
                 rs # <<>>, Len(rs) = Len(in) + Len(out),
                 \A j \in 1 .. Len(in) : rs[j] = in[j],
                 \A j \in 1 .. Len(out) : rs[Len(in) + j] = ReplyTo(db, out, ok, j),
                 o = Gets(Head(rs), <<>>, Tail(rs), "ok", After(db, out, ok))
          PROVE  OrderInv'
        <3>1. /\ o.reply = Head(rs) /\ out' = <<>> /\ in' = Tail(rs) /\ ctx' = "ok"
            BY <1>2, <2>3 DEF Gets
        <3>2. /\ Len(in') = Len(rs) - 1 /\ Len(rs) \in Nat \ {0} /\ Head(rs) = rs[1]
              /\ \A j \in 1 .. Len(rs) - 1 : in'[j] = rs[j + 1]
            BY <2>3, <3>1, HeadTailProperties
        <3>3. /\ \A j \in 1 .. Len(in) : in[j].cmd = asked[j]
              /\ \A j \in 1 .. Len(out) : out[j] = asked[Len(in) + j]
            BY <1>8, <2>3 DEF OrderInv, InOrder
        <3>4. \A j \in 1 .. Len(rs) : rs[j].cmd = asked[j]
            <4> SUFFICES ASSUME NEW j \in 1 .. Len(rs) PROVE rs[j].cmd = asked[j]
                OBVIOUS
            <4>0. Len(in) \in Nat /\ Len(out) \in Nat
                BY <1>3
            <4>1. CASE j <= Len(in)
                <5>1. j \in 1 .. Len(in)
                    BY <4>0, <4>1
                <5> QED BY <2>3, <3>3, <5>1
            <4>2. CASE ~(j <= Len(in))
                <5> DEFINE h == j - Len(in)
                <5>1. h \in 1 .. Len(out) /\ Len(in) + h = j
                    BY <2>3, <4>0, <4>2
                <5>2. rs[Len(in) + h] = ReplyTo(db, out, ok, h) /\ out[h] = asked[Len(in) + h]
                    BY <2>3, <3>3, <5>1
                <5>3. ReplyTo(db, out, ok, h).cmd = out[h]
                    BY ReplyLabel
                <5> QED BY <5>1, <5>2, <5>3
            <4> QED BY <4>1, <4>2
        <3>5. ReplyOwn'
            <4>1. 1 \in 1 .. Len(rs)
                BY <3>2
            <4>2. o.reply.cmd = Head(asked)
                BY <1>4, <3>1, <3>2, <3>4, <4>1
            <4> QED BY <1>1, <4>2 DEF ReplyOwn
        <3>6. Len(rs) <= Len(asked)
            BY <1>2, <2>3 DEF OrderInv, Bound
        <3>7. \A j \in 1 .. Len(in') : in'[j].cmd = asked'[j]
            <4> SUFFICES ASSUME NEW j \in 1 .. Len(in') PROVE in'[j].cmd = asked'[j]
                OBVIOUS
            <4>1. j \in 1 .. Len(rs) - 1 /\ j + 1 \in 1 .. Len(rs) /\ j \in 1 .. Len(asked) - 1
                BY <1>4, <3>2, <3>6
            <4> QED BY <1>4, <3>2, <3>4, <4>1
        <3>8. InOrder'
            <4>1. \A j \in 1 .. Len(out') : out'[j] = asked'[Len(in') + j]
                BY <3>1
            <4> QED BY <3>7, <4>1 DEF InOrder
        <3> QED BY <1>5, <2>0, <3>5, <3>8 DEF OrderInv
    <2> QED BY <1>2, <1>3, <2>1, <2>2, <2>3, ReplyShapes
<1> QED BY <1>6, <1>7, <1>8

(* redisAppendCommand puts the command behind the others, here as there. *)
LEMMA AppendOrder ==
    ASSUME IInv, OrderInv, NEW k \in Keys, NEW v \in Vals, storeBinaryForPipline(k, v)
    PROVE  OrderInv'
<1>1. /\ ctx \in Allocated /\ out' = Append(out, Set(k, v)) /\ asked' = Append(asked, Set(k, v))
      /\ UNCHANGED <<ctx, in, mixed, dropped>>
      /\ last'.alone = FALSE
    BY DEF storeBinaryForPipline, NoResult
<1>2. /\ Set(k, v) \in Cmds /\ out \in Seq(Cmds) /\ in \in Seq(Replies)
      /\ asked \in Seq(Cmds)
    BY DEF Set, Cmds, IInv, TypeOK
<1> DEFINE i == Len(in)  u == Len(out)  q == Len(asked)
<1>3. i \in Nat /\ u \in Nat /\ q \in Nat /\ i + u <= q
    BY <1>1, <1>2 DEF OrderInv, Bound
<1>4. Len(out') = u + 1 /\ Len(asked') = q + 1 /\ Len(in') = i
    BY <1>1, <1>2
<1>5. /\ \A j \in 1 .. q : asked'[j] = asked[j]
      /\ asked'[q + 1] = Set(k, v)
      /\ \A j \in 1 .. u : out'[j] = out[j]
      /\ out'[u + 1] = Set(k, v)
    BY <1>1, <1>2
<1>6. Bound'
    <2>1. i + (u + 1) <= q + 1
        <3> HIDE DEF i, u, q
        <3> QED BY <1>3
    <2> QED BY <1>4, <2>1 DEF Bound
<1>7. ASSUME ~mixed, ~dropped, ctx \in {"ok", "cut"}, NEW j \in 1 .. i
      PROVE  in[j].cmd = asked'[j]
    <2>1. j \in 1 .. q
        <3> HIDE DEF i, u, q
        <3> QED BY <1>3, <1>7
    <2>2. in[j].cmd = asked[j]
        BY <1>7 DEF OrderInv, InOrder
    <2> QED BY <1>5, <2>1, <2>2
<1>8. ASSUME ~mixed, ~dropped, ctx = "ok", NEW j \in 1 .. u + 1
      PROVE  out'[j] = asked'[i + j]
    <2>1. i + u = q
        BY <1>8 DEF IInv, Balance
    <2>2. CASE j = u + 1
        <3>1. i + j = q + 1
            <4> HIDE DEF i, u, q
            <4> QED BY <1>3, <2>1, <2>2
        <3> QED BY <1>5, <2>2, <3>1
    <2>3. CASE j # u + 1
        <3>1. j \in 1 .. u /\ i + j \in 1 .. q
            <4> HIDE DEF i, u, q
            <4> QED BY <1>3, <2>1, <2>3
        <3>2. out[j] = asked[i + j]
            BY <1>8, <3>1 DEF OrderInv, InOrder
        <3> QED BY <1>5, <3>1, <3>2
    <2> QED BY <2>2, <2>3
<1>9. InOrder'
    <2> HIDE DEF i, u, q
    <2> QED BY <1>1, <1>4, <1>7, <1>8 DEF InOrder
<1>10. ReplyOwn' /\ AckHonest'
    BY <1>1 DEF ReplyOwn, AckHonest
<1> QED BY <1>6, <1>9, <1>10 DEF OrderInv

(* A cut connection loses the last replies, never one in the middle. *)
LEMMA CutOrder ==
    ASSUME IInv, OrderInv, NEW s, Cut(s)
    PROVE  OrderInv'
<1>1. /\ UNCHANGED <<out, asked, mixed, dropped, last>>
      /\ ctx' # "ok" /\ (ctx' \in Allocated => ctx \in Allocated)
      /\ ctx' \in {"ok", "cut"} => ctx \in {"ok", "cut"}
    BY DEF Cut, Allocated
<1>2. in \in Seq(Replies) /\ out \in Seq(Cmds) /\ asked \in Seq(Cmds)
    BY DEF IInv, TypeOK
<1>3. Len(in') \in Nat /\ Len(in') <= Len(in) /\ \A j \in 1 .. Len(in') : in'[j] = in[j]
    BY <1>2 DEF Cut
<1>4. Bound'
    <2> DEFINE i == Len(in)  n == Len(in')  u == Len(out)  q == Len(asked)
    <2>1. i \in Nat /\ n \in Nat /\ u \in Nat /\ q \in Nat /\ n <= i
        BY <1>2, <1>3
    <2>2. i + u <= q => n + u <= q
        <3> HIDE DEF i, n, u, q
        <3> QED BY <2>1
    <2> QED BY <1>1, <2>2 DEF OrderInv, Bound
<1>5. InOrder'
    <2>1. \A j \in 1 .. Len(in') : j \in 1 .. Len(in)
        BY <1>2, <1>3
    <2> QED BY <1>1, <1>3, <2>1 DEF OrderInv, InOrder
<1>6. ReplyOwn' /\ AckHonest'
    BY <1>1 DEF OrderInv, ReplyOwn, AckHonest
<1> QED BY <1>4, <1>5, <1>6 DEF OrderInv

(* Construction starts anew, and destruction leaves nothing. *)
LEMMA LifeOrder ==
    ASSUME IInv', OrderInv, NEW m, NEW c, Create(m, c) \/ Destroy
    PROVE  OrderInv'
<1>1. CASE Create(m, c)
    <2>1. in' = <<>> /\ out' = <<>> /\ asked' = <<>> /\ last' = NoResult
        BY <1>1 DEF Create
    <2>2. Len(in') = 0 /\ Len(out') = 0 /\ Len(asked') = 0
        BY <2>1
    <2>3. Bound' /\ InOrder'
        BY <2>2 DEF Bound, InOrder
    <2> QED BY <2>1, <2>3 DEF OrderInv, ReplyOwn, AckHonest, NoResult
<1>2. CASE Destroy
    BY <1>2 DEF Destroy, OrderInv, Bound, InOrder, ReplyOwn, AckHonest, NoResult, Allocated
<1> QED BY <1>1, <1>2

LEMMA NextOrder == IInv /\ IInv' /\ OrderInv /\ [Next]_vars => OrderInv'
<1> SUFFICES ASSUME IInv, IInv', OrderInv, [Next]_vars PROVE OrderInv'
    OBVIOUS
<1>1. CASE UNCHANGED <<ctx, out, in, asked, mixed, dropped, last>>
    BY <1>1 DEF OrderInv, Bound, InOrder, ReplyOwn, AckHonest
<1>2. CASE BadContext \/ ProcessHangs \/ ServerUp \/ UNCHANGED vars
    BY <1>1, <1>2 DEF BadContext, ProcessHangs, ServerUp, vars
<1>3. CASE StoreNothing
    BY <1>3 DEF StoreNothing, NoResult, OrderInv, Bound, InOrder, ReplyOwn, AckHonest
<1>4. CASE Cut("up") \/ Cut("down")
    BY <1>4, CutOrder
<1> QED
    BY <1>2, <1>3, <1>4, LifeOrder, StoreOrder, ExistsOrder, GetOrder, AppendOrder, ProcessOrder
    DEF Next, Owner, Environment

LEMMA InitOrder == Init => OrderInv
BY DEF Init, OrderInv, Bound, InOrder, ReplyOwn, AckHonest, NoResult, Allocated

(* OrderInv is an invariant of the specification, inductive under IInv. *)
THEOREM OrderInvariant == Spec => []OrderInv
BY InitOrder, NextOrder, InductiveInvariant, PTL DEF Spec

(* Every operation that is not mixed with the pipeline takes the reply to  *)
(* its own command, however often the connection breaks.                   *)
THEOREM RepliesAreOwn == Spec => []ReplyOwn
<1>1. OrderInv => ReplyOwn
    BY DEF OrderInv
<1> QED BY <1>1, OrderInvariant, PTL

(* A plain operation that did not reconnect tells the truth about the      *)
(* contents of the server.                                                 *)
THEOREM AcksAreHonest == Spec => []AckHonest
<1>1. OrderInv => AckHonest
    BY DEF OrderInv
<1> QED BY <1>1, OrderInvariant, PTL
=============================================================================

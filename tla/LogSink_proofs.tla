---------------------------- MODULE LogSink_proofs ----------------------------
(***************************************************************************)
(* Proofs about LogSink, for any limits, message sizes, failures and       *)
(* restarts.                                                               *)
(*                                                                         *)
(* The bound on the size needs that current_size_, while a file is open,   *)
(* leaves out only what failed writes put there (SizeInv); the order of    *)
(* deletion needs that every renamed file was written before the file that *)
(* followed it was created (TimeInv).                                      *)
(***************************************************************************)
EXTENDS LogSink, FiniteSetTheorems, TLAPS

(* The stream and the file belong together. *)
FileInv ==
    /\ file = "open" => pc = "idle"
    /\ file # "open" => buf = NoBuf
    /\ file = "absent" => base.msgs = {} /\ base.size = 0
    /\ pc \in {"delete", "reopen"} => file = "absent"
    /\ base.size = 0 => base.msgs = {}
    /\ buf.size = 0 => buf = NoBuf

SizeInv ==
    /\ file = "open" => base.size + buf.size <= current + base.torn
    /\ WithinSize(base)
    /\ SizeBounded

TimeInv ==
    /\ gone <= clock
    /\ base.mtime <= clock
    /\ \A f \in old : f.mtime <= clock
    /\ file # "absent" => \A f \in old : f.mtime <= base.mtime
    /\ OldestDeleted

CountInv ==
    /\ IsFiniteSet(old)
    /\ FilesBounded

IInv == TypeOK /\ FileInv /\ SizeInv /\ TimeInv /\ CountInv

-----------------------------------------------------------------------------
LEMMA InitIInv == Init => IInv
<1> SUFFICES ASSUME Init PROVE IInv
    OBVIOUS
<1> USE SizeAssumption, FilesAssumption DEF Init, Empty, NoBuf
<1>1. TypeOK
    BY DEF TypeOK, Content
<1>2. FileInv
    BY DEF FileInv
<1>3. SizeInv
    BY DEF SizeInv, SizeBounded, WithinSize, Flushed, Written
<1>4. TimeInv
    BY DEF TimeInv, OldestDeleted
<1>5. CountInv
    BY FS_EmptySet DEF CountInv, FilesBounded
<1> QED
    BY <1>1, <1>2, <1>3, <1>4, <1>5 DEF IInv

Buffers == [msgs : SUBSET Nat, size : Nat]

(* Types of the expressions that actions assign. *)
LEMMA Types ==
    ASSUME TypeOK
    PROVE  /\ Flushed \in Content /\ Empty \in Content /\ Opened \in Content
           /\ NoBuf \in Buffers
           /\ \A m, s \in Nat : Buffered(buf, m, s) \in Buffers
           /\ \A m, s \in Nat : Buffered(NoBuf, m, s) \in Buffers
           /\ \A p \in Nat : Torn(base, p) \in Content /\ Torn(Empty, p) \in Content
BY DEF TypeOK, Flushed, Written, Empty, Opened, NoBuf, Buffered, Torn, Content, Buffers

LEMMA Fields ==
    ASSUME TypeOK
    PROVE  /\ base.size \in Nat /\ base.torn \in Nat /\ base.mtime \in Nat /\ buf.size \in Nat
           /\ \A f \in old : f.size \in Nat /\ f.torn \in Nat /\ f.mtime \in Nat
BY DEF TypeOK, Content, Renamed

LEMMA FlushedParts ==
    ASSUME TypeOK
    PROVE  /\ Flushed.size = base.size + buf.size /\ Flushed.msgs = base.msgs \cup buf.msgs
           /\ Flushed.torn = base.torn
BY DEF Flushed, Written

(* A file with fewer messages and less in it is within its size, too. *)
LEMMA WithinLess ==
    ASSUME NEW f, NEW g, f.size \in Nat, g.size \in Nat, f.torn \in Nat, g.torn \in Nat,
           WithinSize(f), g.msgs \subseteq f.msgs, g.size <= f.size + (g.torn - f.torn),
           f.torn <= g.torn
    PROVE  WithinSize(g)
BY SizeAssumption DEF WithinSize

(* A flush, a failed one, and close() all write a first part of the buffer *)
(* or all of it.                                                           *)
LEMMA WriteOutCases ==
    ASSUME IInv, pc = "idle",
           (base' = Flushed /\ buf' = NoBuf) \/ FlushFails \/ CloseWrites
    PROVE  \E K \in SUBSET buf.msgs, w \in 0 .. buf.size :
              /\ K = {} \/ w > 0
              /\ K = buf.msgs <=> w = buf.size
              /\ base' = Written(K, w)
              /\ buf' \in {NoBuf, [msgs |-> buf.msgs \ K, size |-> buf.size - w]}
<1>1. CASE base' = Flushed /\ buf' = NoBuf
  <2>1. buf.msgs \in SUBSET buf.msgs /\ buf.size \in 0 .. buf.size
      BY DEF IInv, TypeOK
  <2>2. buf.msgs = {} \/ buf.size > 0
      BY DEF IInv, TypeOK, FileInv, NoBuf
  <2>3. base' = Written(buf.msgs, buf.size)
      BY <1>1 DEF Flushed
  <2> QED BY <1>1, <2>1, <2>2, <2>3
<1>2. CASE FlushFails
    BY <1>2 DEF FlushFails, Part
<1>3. CASE CloseWrites /\ ~(base' = Flushed /\ buf' = NoBuf)
    BY <1>3 DEF CloseWrites, Part
<1> QED BY <1>1, <1>2, <1>3

(* They keep the invariant, whatever becomes of the rest. *)
LEMMA WriteOut ==
    ASSUME IInv, pc = "idle",
           (base' = Flushed /\ buf' = NoBuf) \/ FlushFails \/ CloseWrites,
           \/ file' = Closed /\ buf' = NoBuf /\ pc' \in {"rename", "off"}
           \/ file' = file /\ pc' = pc,
           UNCHANGED <<current, old, clock, gone, interrupted>>
    PROVE  /\ base' \in Content /\ buf' \in Buffers
           /\ FileInv' /\ SizeInv' /\ TimeInv' /\ CountInv'
<1>p. PICK K \in SUBSET buf.msgs, w \in 0 .. buf.size :
         /\ K = {} \/ w > 0
         /\ K = buf.msgs <=> w = buf.size
         /\ base' = Written(K, w)
         /\ buf' \in {NoBuf, [msgs |-> buf.msgs \ K, size |-> buf.size - w]}
    BY WriteOutCases
<1> USE SizeAssumption, FilesAssumption DEF IInv
<1>0. /\ base'.msgs = base.msgs \cup K /\ base'.size = base.size + w /\ base'.torn = base.torn
      /\ base'.mtime = IF w = 0 THEN base.mtime ELSE clock
    BY <1>p DEF Written
<1>1. /\ w \in Nat /\ buf.size \in Nat /\ w <= buf.size /\ base.size \in Nat
      /\ base.torn \in Nat /\ base.mtime \in Nat /\ clock \in Nat /\ gone \in Nat
      /\ current \in Nat /\ base.msgs \subseteq Nat /\ buf.msgs \subseteq Nat
    BY DEF TypeOK, Content
<1>2. base' \in Content
    BY <1>p, <1>1 DEF Written, Content
<1>3. /\ buf' \in Buffers
      /\ buf'.msgs \subseteq buf.msgs \ K
      /\ buf'.size \in Nat /\ buf'.size <= buf.size - w
    BY <1>p, <1>1 DEF NoBuf, Buffers
<1>4. buf'.size = 0 => buf' = NoBuf
    BY <1>p, <1>1 DEF NoBuf
<1>5. FileInv'
  <2>1. file' = "absent" => file = "absent" /\ buf = NoBuf
      BY DEF FileInv, Closed
  <2>2. file' = "absent" => base'.msgs = {} /\ base'.size = 0
    <3> SUFFICES ASSUME file' = "absent" PROVE base'.msgs = {} /\ base'.size = 0
        OBVIOUS
    <3>1. K = {} /\ w = 0 /\ base.msgs = {} /\ base.size = 0
        BY <1>p, <2>1 DEF FileInv, NoBuf
    <3> QED BY <1>0, <3>1
  <2>3. base'.size = 0 => base'.msgs = {}
    <3> SUFFICES ASSUME base'.size = 0 PROVE base'.msgs = {}
        OBVIOUS
    <3>1. w = 0 /\ base.size = 0
        BY <1>0, <1>1
    <3>2. K = {} /\ base.msgs = {}
        BY <1>p, <3>1 DEF FileInv
    <3> QED BY <1>0, <3>2
  <2>4. (file # "open" => buf = NoBuf)'
    <3>1. CASE file' = Closed /\ buf' = NoBuf
        BY <3>1
    <3>2. CASE file' = file
      <4>1. file # "open" => buf.msgs = {} /\ buf.size = 0 /\ w = 0
          BY <1>1 DEF FileInv, NoBuf
      <4> QED BY <1>3, <1>4, <3>2, <4>1
    <3> QED BY <3>1, <3>2
  <2>5. (file = "open" => pc = "idle")' /\ pc' \notin {"delete", "reopen"}
      BY DEF Closed
  <2> QED BY <1>4, <2>2, <2>3, <2>4, <2>5 DEF FileInv
<1>6. SizeInv'
  <2>1. (file = "open" => base.size + buf.size <= current + base.torn)'
    <3> SUFFICES ASSUME file' = "open"
                 PROVE  base'.size + buf'.size <= current' + base'.torn
        OBVIOUS
    <3>1. file = "open"
        BY DEF Closed
    <3>2. base.size + buf.size <= current + base.torn
        BY <3>1 DEF SizeInv
    <3> QED BY <1>0, <1>1, <1>3, <3>2
  <2>2. /\ Flushed.size = base.size + buf.size /\ Flushed.msgs = base.msgs \cup buf.msgs
        /\ Flushed.torn = base.torn
      BY FlushedParts
  <2>3. WithinSize(Flushed) /\ \A f \in old : WithinSize(f)
      BY DEF SizeInv, SizeBounded
  <2>4. WithinSize(base')
    <3>1. base'.msgs \subseteq Flushed.msgs /\ base'.size <= Flushed.size
        BY <1>0, <1>1, <2>2
    <3> QED BY <1>0, <1>1, <2>2, <2>3, <3>1, WithinLess
  <2>5. WithinSize(Flushed')
    <3>1. /\ Flushed'.size = base'.size + buf'.size /\ Flushed'.msgs = base'.msgs \cup buf'.msgs
          /\ Flushed'.torn = base'.torn
        BY DEF Flushed, Written
    <3>2. Flushed'.msgs \subseteq Flushed.msgs /\ Flushed'.size <= Flushed.size
        BY <1>0, <1>1, <1>3, <2>2, <3>1
    <3> QED BY <1>0, <1>1, <1>3, <2>2, <2>3, <3>1, <3>2, WithinLess
  <2> QED BY <2>1, <2>3, <2>4, <2>5 DEF SizeInv, SizeBounded, WithinSize
<1>7. TimeInv'
  <2>1. base'.mtime \in {base.mtime, clock}
      BY <1>0
  <2>2. file' # "absent" => file # "absent"
      BY DEF Closed
  <2>3. file # "absent" => gone <= base'.mtime /\ \A f \in old : f.mtime <= base'.mtime
      BY <1>1, <2>1, Fields DEF TimeInv, OldestDeleted
  <2>4. base'.mtime <= clock
      BY <1>1, <2>1 DEF TimeInv
  <2> QED BY <2>2, <2>3, <2>4 DEF TimeInv, OldestDeleted
<1>8. CountInv'
    BY DEF CountInv, FilesBounded
<1> QED BY <1>2, <1>3, <1>5, <1>6, <1>7, <1>8

(* A write that fails leaves a part of the message in the file. *)
LEMMA TornWrite ==
    ASSUME IInv, file = "open", NEW p \in Nat, base' = Torn(base, p),
           UNCHANGED <<pc, file, buf, current, old, clock, gone, interrupted>>
    PROVE  base' \in Content /\ FileInv' /\ SizeInv' /\ TimeInv' /\ CountInv'
<1> USE DEF IInv
<1>0. /\ base'.msgs = base.msgs /\ base'.size = base.size + p
      /\ base'.torn = base.torn + p
      /\ base'.mtime = IF p = 0 THEN base.mtime ELSE clock
    BY DEF Torn
<1>1. /\ buf.size \in Nat /\ base.size \in Nat /\ base.torn \in Nat /\ base.mtime \in Nat
      /\ clock \in Nat /\ gone \in Nat /\ current \in Nat
    BY DEF TypeOK, Content
<1>2. base' \in Content
    BY Types
<1>3. FileInv'
    BY <1>0, <1>1 DEF FileInv
<1>4. SizeInv'
  <2>1. base'.size + buf'.size <= current' + base'.torn
      BY <1>0, <1>1 DEF SizeInv
  <2>2. WithinSize(base')
      BY <1>0, <1>1, WithinLess DEF SizeInv
  <2>3. WithinSize(Flushed')
    <3>1. /\ Flushed'.size = base'.size + buf.size /\ Flushed'.msgs = base'.msgs \cup buf.msgs
          /\ Flushed'.torn = base'.torn
        BY DEF Flushed, Written
    <3>2. WithinSize(Flushed)
        BY DEF SizeInv, SizeBounded
    <3> QED BY <1>0, <1>1, <3>1, <3>2, FlushedParts, WithinLess
  <2>4. \A f \in old' : WithinSize(f)
      BY DEF SizeInv, SizeBounded
  <2> QED BY <2>1, <2>2, <2>3, <2>4 DEF SizeInv, SizeBounded, WithinSize
<1>5. TimeInv'
  <2>1. base'.mtime \in {base.mtime, clock}
      BY <1>0
  <2>2. gone <= base'.mtime /\ base'.mtime <= clock /\ \A f \in old : f.mtime <= base'.mtime
      BY <1>1, <2>1, Fields DEF TimeInv, OldestDeleted
  <2> QED BY <2>2 DEF TimeInv, OldestDeleted
<1>6. CountInv'
    BY DEF CountInv, FilesBounded
<1> QED BY <1>2, <1>3, <1>4, <1>5, <1>6

(* Logging. *)
LEMMA SinkIInv ==
    ASSUME IInv, NEW s \in Sizes,
           SinkFits(s) \/ SinkOversize(s) \/ SinkRotates(s) \/ SinkThrows(s)
    PROVE  IInv'
<1> USE SizeAssumption, FilesAssumption, BoundAssumption, Types, FlushedParts DEF IInv
<1>0. s \in Nat \ {0} /\ logged + 1 \in Nat /\ current + s \in Nat
    BY DEF TypeOK
<1>a. Buffered(buf, logged + 1, s) \in Buffers /\ Buffered(NoBuf, logged + 1, s) \in Buffers
    BY <1>0
<1>b. ASSUME file = "open", UNCHANGED <<pc, file, buf, current, msg, old, clock, interrupted,
                                        gone, failures>>,
             logged' = logged + 1, NEW p \in 0 .. s - 1, base' = Torn(base, p)
      PROVE  IInv'
  <2>1. p \in Nat
      BY <1>0
  <2>2. base' \in Content /\ FileInv' /\ SizeInv' /\ TimeInv' /\ CountInv'
      BY <1>b, <2>1, TornWrite
  <2>3. TypeOK'
      BY <1>0, <1>b, <2>2 DEF TypeOK
  <2> QED BY <2>2, <2>3
<1>1. CASE SinkFits(s)
  <2>1. CASE /\ file = "open" /\ buf' = Buffered(buf, logged', s) /\ current' = current + s
             /\ UNCHANGED base
    <3>1. TypeOK'
        BY <1>0, <1>a, <1>1, <2>1 DEF TypeOK, SinkFits, Buffers
    <3>2. FileInv'
        BY <1>0, <1>1, <2>1, <3>1 DEF FileInv, TypeOK, SinkFits, Buffered, NoBuf
    <3>3. /\ buf'.size = buf.size + s /\ base' = base /\ current + s <= MaxSize
          /\ base.size + buf.size <= current + base.torn
        BY <1>1, <2>1 DEF SinkFits, Buffered, SizeInv
    <3>4. Flushed'.size = base.size + buf.size + s /\ Flushed'.torn = base.torn
        BY <3>3, <1>0, Fields DEF Flushed, Written
    <3>5. SizeInv'
      <4>1. WithinSize(Flushed)'
          BY <1>0, <3>3, <3>4, Fields DEF WithinSize, TypeOK
      <4>2. (file = "open" => base.size + buf.size <= current + base.torn)'
          BY <1>0, <2>1, <3>3, Fields DEF TypeOK
      <4>3. (\A f \in old : WithinSize(f))' /\ WithinSize(base)'
          BY <1>1, <3>3 DEF SizeInv, SizeBounded, SinkFits, WithinSize
      <4> QED
          BY <4>1, <4>2, <4>3 DEF SizeInv, SizeBounded
    <3>6. TimeInv' /\ CountInv'
        BY <1>1, <2>1 DEF TimeInv, OldestDeleted, CountInv, FilesBounded, SinkFits
    <3> QED
        BY <3>1, <3>2, <3>5, <3>6
  <2>2. CASE file # "open" /\ current' = current + s /\ UNCHANGED <<base, buf>>
    <3>1. TypeOK'
        BY <1>0, <1>1, <2>2 DEF TypeOK, SinkFits
    <3>2. FileInv' /\ TimeInv' /\ CountInv'
        BY <1>1, <2>2 DEF FileInv, TimeInv, OldestDeleted, CountInv, FilesBounded, SinkFits
    <3>3. SizeInv'
        BY <1>1, <2>2 DEF SizeInv, SizeBounded, WithinSize, Flushed, Written, SinkFits
    <3> QED
        BY <3>1, <3>2, <3>3
  <2>3. CASE /\ file = "open" /\ \E p \in 0 .. s - 1 : base' = Torn(base, p)
             /\ UNCHANGED <<buf, current>>
      BY <1>b, <1>1, <2>3 DEF SinkFits
  <2> QED
      BY <1>1, <2>1, <2>2, <2>3 DEF SinkFits
<1>2. CASE SinkOversize(s)
  <2>0. base.size = 0 /\ buf.size = 0 /\ base.msgs = {} /\ buf = NoBuf
      BY <1>2, Fields DEF SinkOversize, FileInv
  <2>1. CASE /\ buf' = Buffered(NoBuf, logged', s) /\ current' = current + s
             /\ UNCHANGED base
    <3>1. TypeOK'
        BY <1>0, <1>a, <1>2, <2>1 DEF TypeOK, SinkOversize, Buffers
    <3>2. buf' = [msgs |-> {logged'}, size |-> s] /\ base' = base
      <4>1. 0 + s = s
          BY <1>0
      <4> QED
          BY <2>1, <4>1 DEF Buffered, NoBuf
    <3>3. FileInv'
      <4>1. buf'.size = s /\ UNCHANGED <<pc, file, base>> /\ file = "open"
          BY <1>2, <3>2 DEF SinkOversize
      <4> QED
          BY <1>0, <4>1 DEF FileInv
    <3>4. Flushed'.msgs = {logged'}
        BY <2>0, <3>2 DEF Flushed, Written
    <3>5. SizeInv'
      <4>1. WithinSize(Flushed)'
          BY <3>4 DEF WithinSize
      <4>2. (file = "open" => base.size + buf.size <= current + base.torn)'
          BY <1>0, <2>0, <2>1, <3>2, Fields DEF TypeOK
      <4>3. (\A f \in old : WithinSize(f))'
          BY <1>2 DEF SizeInv, SizeBounded, SinkOversize, WithinSize
      <4> QED
          BY <3>2, <4>1, <4>2, <4>3 DEF SizeInv, SizeBounded, WithinSize
    <3>6. TimeInv' /\ CountInv'
        BY <1>2, <2>1 DEF TimeInv, OldestDeleted, CountInv, FilesBounded, SinkOversize
    <3> QED
        BY <3>1, <3>3, <3>5, <3>6
  <2>2. CASE (\E p \in 0 .. s - 1 : base' = Torn(base, p)) /\ UNCHANGED <<buf, current>>
      BY <1>b, <1>2, <2>2 DEF SinkOversize
  <2> QED
      BY <1>2, <2>1, <2>2 DEF SinkOversize
<1>3. CASE SinkRotates(s) \/ (SinkThrows(s) /\ file = "open")
  <2>1. /\ pc = "idle" /\ logged' = logged + 1 /\ msg' \in Nat /\ failures' \in Nat
        /\ UNCHANGED <<current, old, clock, gone, interrupted>>
      BY <1>0, <1>3 DEF SinkRotates, SinkThrows, TypeOK, FlushFails, Failure
  <2>2. (base' = Flushed /\ buf' = NoBuf) \/ FlushFails
      BY <1>3 DEF SinkRotates, SinkThrows
  <2>3. \/ file' = Closed /\ buf' = NoBuf /\ pc' = "rename"
        \/ file' = file /\ pc' = pc
      BY <1>3 DEF SinkRotates, SinkThrows
  <2>4. base' \in Content /\ buf' \in Buffers /\ FileInv' /\ SizeInv' /\ TimeInv' /\ CountInv'
      BY <2>1, <2>2, <2>3, WriteOut
  <2>5. TypeOK'
      BY <1>0, <2>1, <2>3, <2>4 DEF TypeOK, Closed, Buffers
  <2> QED
      BY <2>4, <2>5
<1>4. CASE SinkThrows(s) /\ file # "open"
  <2>0. UNCHANGED <<base, buf, failures>>
      BY <1>4 DEF SinkThrows
  <2>1. TypeOK'
      BY <1>0, <1>4, <2>0 DEF TypeOK, SinkThrows
  <2>2. FileInv' /\ TimeInv' /\ CountInv'
      BY <1>4, <2>0 DEF FileInv, TimeInv, OldestDeleted, CountInv, FilesBounded, SinkThrows
  <2>3. SizeInv'
      BY <1>4, <2>0 DEF SizeInv, SizeBounded, WithinSize, Flushed, Written, SinkThrows
  <2> QED
      BY <2>1, <2>2, <2>3
<1> QED
    BY <1>1, <1>2, <1>3, <1>4

(* Starting, flushing and stopping. *)
LEMMA LifeIInv ==
    ASSUME IInv, Construct \/ rotate_now \/ Flush \/ Uinit
    PROVE  IInv'
<1> USE SizeAssumption, FilesAssumption, BoundAssumption DEF IInv
<1>1. CASE Construct
  <2>1. TypeOK'
      BY <1>1, Types DEF TypeOK, Construct, Content, Buffers
  <2>2. FileInv'
      BY <1>1 DEF FileInv, Construct, NoBuf, Opened, Empty
  <2>3. SizeInv'
    <3>0. Opened.size \in Nat /\ Opened.torn \in Nat
        BY Types DEF Content
    <3>1. WithinSize(Opened)
        BY DEF SizeInv, WithinSize, Opened, Empty
    <3>2. (file = "open" => base.size + buf.size <= current + base.torn)'
        BY <1>1, <3>0 DEF Construct, NoBuf
    <3>3. WithinSize(Flushed')
        BY <1>1, <3>0, <3>1 DEF Construct, WithinSize, Flushed, Written, NoBuf
    <3> QED
        BY <1>1, <3>1, <3>2, <3>3 DEF SizeInv, SizeBounded, WithinSize, Construct
  <2>4. TimeInv'
      BY <1>1 DEF TimeInv, OldestDeleted, Construct, Opened, Empty, TypeOK, Content
  <2>5. CountInv'
      BY <1>1 DEF CountInv, FilesBounded, Construct
  <2> QED
      BY <2>1, <2>2, <2>3, <2>4, <2>5
<1>2. CASE rotate_now \/ Flush \/ Uinit
  <2>1. /\ pc = "idle" /\ logged' = logged /\ msg' \in Nat /\ failures' \in Nat
        /\ UNCHANGED <<current, old, clock, gone, interrupted>>
      BY <1>2 DEF rotate_now, Flush, Uinit, TypeOK, CloseWrites, FlushFails, Failure
  <2>2. (base' = Flushed /\ buf' = NoBuf) \/ FlushFails \/ CloseWrites
      BY <1>2 DEF rotate_now, Flush, Uinit
  <2>3. \/ file' = Closed /\ buf' = NoBuf /\ pc' \in {"rename", "off"}
        \/ file' = file /\ pc' = pc
      BY <1>2 DEF rotate_now, Flush, Uinit, CloseWrites
  <2>4. base' \in Content /\ buf' \in Buffers /\ FileInv' /\ SizeInv' /\ TimeInv' /\ CountInv'
      BY <2>1, <2>2, <2>3, WriteOut
  <2>5. TypeOK'
      BY <2>1, <2>3, <2>4 DEF TypeOK, Closed, Buffers
  <2> QED
      BY <2>4, <2>5
<1> QED
    BY <1>1, <1>2

(* What the environment does. *)
LEMMA WorldIInv ==
    ASSUME IInv, Crash \/ Tick
    PROVE  IInv'
<1> USE SizeAssumption, FilesAssumption, BoundAssumption DEF IInv
<1>1. CASE Crash
  <2>1. TypeOK'
    <3>1. interrupted' \in Nat /\ file' \in {"absent", "closed", "open"} /\ msg' \in Nat
        BY <1>1 DEF TypeOK, Crash, Closed
    <3> QED
        BY <1>1, <3>1, Types DEF TypeOK, Crash, Buffers
  <2>2. FileInv'
      BY <1>1 DEF FileInv, Crash, Closed, NoBuf
  <2>3. SizeInv'
    <3>1. WithinSize(Flushed')
        BY <1>1, Fields DEF SizeInv, WithinSize, Flushed, Written, Crash, NoBuf
    <3> QED
        BY <1>1, <3>1 DEF SizeInv, SizeBounded, WithinSize, Crash, Closed
  <2>4. TimeInv'
      BY <1>1 DEF TimeInv, OldestDeleted, Crash, Closed
  <2>5. CountInv'
      BY <1>1 DEF CountInv, FilesBounded, Crash, TypeOK
  <2> QED
      BY <2>1, <2>2, <2>3, <2>4, <2>5
<1>2. CASE Tick
  <2>1. TypeOK'
      BY <1>2 DEF TypeOK, Tick
  <2>2. FileInv' /\ CountInv'
      BY <1>2 DEF FileInv, CountInv, FilesBounded, Tick
  <2>3. SizeInv'
      BY <1>2 DEF SizeInv, SizeBounded, WithinSize, Flushed, Written, Tick
  <2>4. TimeInv'
      BY <1>2 DEF TimeInv, OldestDeleted, Tick, TypeOK, Content, Renamed
  <2> QED
      BY <2>1, <2>2, <2>3, <2>4
<1> QED
    BY <1>1, <1>2

(* rotate_: renaming. *)
LEMMA RenameIInv ==
    ASSUME IInv, Rename \/ RenameFails
    PROVE  IInv'
<1> USE SizeAssumption, FilesAssumption, BoundAssumption DEF IInv
<1>0. buf = NoBuf /\ file # "open"
    BY DEF Rename, RenameFails, FileInv
<1>1. CASE Rename
  <2> DEFINE new == [name |-> clock, msgs |-> base.msgs, size |-> base.size,
                     torn |-> base.torn, mtime |-> base.mtime]
             kept == {f \in old : f.name # clock}
  <2>0. old' = kept \cup {new} /\ new \in Renamed
      BY <1>1 DEF Rename, TypeOK, Content, Renamed
  <2>1. TypeOK'
      BY <1>1, <2>0, Types DEF TypeOK, Rename
  <2>2. FileInv'
      BY <1>0, <1>1 DEF FileInv, Rename, Empty
  <2>3. SizeInv'
    <3>1. WithinSize(new)
        BY DEF SizeInv, WithinSize
    <3>2. WithinSize(base)' /\ WithinSize(Flushed)'
        BY <1>0, <1>1 DEF Rename, WithinSize, Flushed, Written, Empty, NoBuf
    <3> QED
        BY <1>0, <1>1, <2>0, <3>1, <3>2 DEF SizeInv, SizeBounded, WithinSize, Rename
  <2>4. TimeInv'
    <3>1. /\ gone <= clock /\ base'.mtime <= clock
          /\ \A f \in old' : f.mtime <= clock /\ gone <= f.mtime
        BY <1>1, <2>0 DEF TimeInv, OldestDeleted, Rename, Empty, TypeOK
    <3> QED
        BY <1>1, <3>1 DEF TimeInv, OldestDeleted, Rename
  <2>5. CountInv'
    <3>1. IsFiniteSet(kept) /\ Cardinality(kept) <= Cardinality(old)
        BY FS_Subset DEF CountInv
    <3>2. /\ IsFiniteSet(old')
          /\ Cardinality(old') = Cardinality(kept) \/ Cardinality(old') = Cardinality(kept) + 1
        BY <2>0, <3>1, FS_AddElement
    <3>3. Cardinality(old) \in Nat /\ Cardinality(kept) \in Nat
        BY <3>1, FS_CardinalityType DEF CountInv
    <3> QED
        BY <1>1, <3>1, <3>2, <3>3 DEF CountInv, FilesBounded, Rename, TypeOK
  <2> QED
      BY <2>1, <2>2, <2>3, <2>4, <2>5
<1>2. CASE RenameFails
  <2>1. TypeOK'
    <3>1. base' \in Content
        BY <1>2, Types DEF TypeOK, RenameFails
    <3>2. current' \in Nat /\ file' \in {"absent", "closed", "open"}
        BY <1>2 DEF TypeOK, RenameFails
    <3> QED
        BY <1>2, <3>1, <3>2 DEF TypeOK, RenameFails
  <2>2. FileInv'
      BY <1>0, <1>2 DEF FileInv, RenameFails, Empty
  <2>3. SizeInv'
    <3>1. \/ base' = Empty /\ (file' = "open" => current' = 0)
          \/ base' = base /\ file' = file
        BY <1>2 DEF RenameFails
    <3>2. WithinSize(base')
        BY <3>1 DEF SizeInv, WithinSize, Empty
    <3>3. buf' = NoBuf /\ old' = old
        BY <1>0, <1>2 DEF RenameFails
    <3>4. base'.size \in Nat /\ base'.torn \in Nat
        BY <2>1 DEF TypeOK, Content
    <3>5. WithinSize(Flushed')
        BY <3>2, <3>3, <3>4 DEF WithinSize, Flushed, Written, NoBuf
    <3>6. (file = "open" => base.size + buf.size <= current + base.torn)'
        BY <1>0, <3>1, <3>3 DEF Empty, NoBuf
    <3> QED
        BY <3>2, <3>3, <3>5, <3>6 DEF SizeInv, SizeBounded, WithinSize
  <2>4. TimeInv'
    <3>1. /\ UNCHANGED <<old, gone, clock>>
          /\ base'.mtime = clock \/ (base' = base /\ file' = file)
        BY <1>2 DEF RenameFails, Empty
    <3>2. clock \in Nat /\ gone \in Nat
        BY DEF TypeOK
    <3> QED
        BY <3>1, <3>2, Fields DEF TimeInv, OldestDeleted
  <2>5. CountInv'
      BY <1>2 DEF CountInv, FilesBounded, RenameFails
  <2> QED
      BY <2>1, <2>2, <2>3, <2>4, <2>5
<1> QED
    BY <1>1, <1>2

(* rotate_: deleting and opening again. *)
LEMMA DeleteIInv ==
    ASSUME IInv, DeleteOldest \/ DeleteEnds \/ DeleteFails \/ Reopen \/ ReopenFails
    PROVE  IInv'
<1> USE SizeAssumption, FilesAssumption, BoundAssumption DEF IInv
<1>0. buf = NoBuf /\ file = "absent" /\ base.msgs = {} /\ base.size = 0
    BY DEF DeleteOldest, DeleteEnds, DeleteFails, Reopen, ReopenFails, FileInv
<1>1. CASE DeleteOldest
  <2>0. PICK f \in old : /\ \A g \in old : f.mtime <= g.mtime
                         /\ old' = old \ {f}
                         /\ gone' = Later(gone, f.mtime)
      BY <1>1 DEF DeleteOldest
  <2>1. TypeOK'
      BY <1>1, <2>0, Fields DEF TypeOK, DeleteOldest, Later
  <2>2. FileInv'
      BY <1>1 DEF FileInv, DeleteOldest
  <2>3. SizeInv'
      BY <1>1, <2>0 DEF SizeInv, SizeBounded, WithinSize, Flushed, Written, DeleteOldest
  <2>4. TimeInv'
    <3>1. gone' = f.mtime
        BY <2>0, Fields DEF TimeInv, OldestDeleted, Later, TypeOK
    <3> QED
        BY <1>0, <1>1, <2>0, <3>1 DEF TimeInv, OldestDeleted, DeleteOldest
  <2>5. CountInv'
    <3>1. IsFiniteSet(old') /\ Cardinality(old') = Cardinality(old) - 1
        BY <2>0, FS_RemoveElement DEF CountInv
    <3>2. Cardinality(old) \in Nat
        BY FS_CardinalityType DEF CountInv
    <3> QED
        BY <1>1, <3>1, <3>2 DEF CountInv, FilesBounded, DeleteOldest, TypeOK
  <2> QED
      BY <2>1, <2>2, <2>3, <2>4, <2>5
<1>2. CASE DeleteEnds \/ DeleteFails \/ ReopenFails
  <2>0. UNCHANGED <<file, base, buf, current, old, clock, logged, gone, failures>>
      BY <1>2 DEF DeleteEnds, DeleteFails, ReopenFails
  <2>1. TypeOK'
    <3>1. interrupted' \in Nat /\ msg' \in Nat /\ pc' \in {"idle", "reopen"}
        BY <1>2 DEF TypeOK, DeleteEnds, DeleteFails, ReopenFails
    <3> QED
        BY <2>0, <3>1 DEF TypeOK
  <2>2. FileInv'
      BY <1>0, <2>0 DEF FileInv
  <2>3. SizeInv'
      BY <2>0 DEF SizeInv, SizeBounded, WithinSize, Flushed, Written
  <2>4. TimeInv'
      BY <2>0 DEF TimeInv, OldestDeleted
  <2>5. CountInv'
    <3>1. Cardinality(old) \in Nat
        BY FS_CardinalityType DEF CountInv
    <3> QED
        BY <1>2, <2>0, <3>1 DEF CountInv, FilesBounded, DeleteEnds, DeleteFails, ReopenFails, TypeOK
  <2> QED
      BY <2>1, <2>2, <2>3, <2>4, <2>5
<1>3. CASE Reopen
  <2>0. /\ file' = "open" /\ pc' = "idle" /\ msg \in Nat /\ msg' = 0
        /\ UNCHANGED <<old, clock, logged, interrupted, gone, failures>>
      BY <1>3 DEF Reopen, TypeOK
  <2>1. \/ /\ buf' = NoBuf /\ current' = 0
           /\ \E p \in Nat : base' = [msgs |-> {}, size |-> p, torn |-> p, mtime |-> clock]
        \/ /\ buf' = [msgs |-> {logged}, size |-> msg] /\ current' = msg /\ msg \in Nat \ {0}
           /\ base' = [msgs |-> {}, size |-> 0, torn |-> 0, mtime |-> clock]
    <3>1. CASE base' = Empty /\ msg > 0 /\ buf' = Buffered(NoBuf, logged, msg) /\ current' = msg
        BY <2>0, <3>1 DEF Buffered, NoBuf, Empty
    <3>2. CASE base' = Empty /\ buf' = NoBuf /\ current' = 0
        BY <3>2 DEF Empty
    <3>3. CASE /\ \E p \in 0 .. msg - 1 : base' = Torn(Empty, p)
               /\ buf' = NoBuf /\ current' = 0
      <4>1. PICK p \in 0 .. msg - 1 : base' = Torn(Empty, p)
          BY <3>3
      <4>2. p \in Nat
          BY <2>0
      <4>3. base' = [msgs |-> {}, size |-> p, torn |-> p, mtime |-> clock]
          BY <4>1, <4>2 DEF Torn, Empty
      <4> QED
          BY <3>3, <4>2, <4>3
    <3> QED
        BY <1>3, <3>1, <3>2, <3>3 DEF Reopen
  <2>2. base' \in Content /\ buf' \in Buffers /\ current' \in Nat
      BY <2>0, <2>1 DEF TypeOK, NoBuf, Content, Buffers
  <2>3. TypeOK'
      BY <2>0, <2>2 DEF TypeOK, Buffers
  <2>4. base'.msgs = {} /\ base'.mtime = clock /\ (buf'.size = 0 => buf' = NoBuf)
      BY <2>1 DEF NoBuf
  <2>5. FileInv'
      BY <2>0, <2>4 DEF FileInv
  <2>6. SizeInv'
    <3>1. WithinSize(base') /\ base'.size + buf'.size <= current' + base'.torn
        BY <2>1 DEF WithinSize, NoBuf
    <3>2. Flushed'.msgs = buf'.msgs
        BY <2>4 DEF Flushed, Written
    <3>3. WithinSize(Flushed')
        BY <2>1, <3>2 DEF WithinSize, NoBuf
    <3> QED
        BY <2>0, <3>1, <3>3 DEF SizeInv, SizeBounded, WithinSize
  <2>7. TimeInv'
      BY <2>0, <2>4 DEF TimeInv, OldestDeleted, TypeOK
  <2>8. CountInv'
      BY <1>3, <2>0 DEF CountInv, FilesBounded, Reopen
  <2> QED
      BY <2>3, <2>5, <2>6, <2>7, <2>8
<1> QED
    BY <1>1, <1>2, <1>3

LEMMA NextIInv == IInv /\ [Next]_vars => IInv'
<1> SUFFICES ASSUME IInv, [Next]_vars PROVE IInv'
    OBVIOUS
<1>1. CASE SinkIt
    BY <1>1, SinkIInv DEF SinkIt
<1>2. CASE Rotation
    BY <1>2, RenameIInv, DeleteIInv DEF Rotation
<1>3. CASE UNCHANGED vars
    BY <1>3 DEF vars, IInv, TypeOK, FileInv, SizeInv, SizeBounded, WithinSize, Flushed, Written, TimeInv,
                OldestDeleted, CountInv, FilesBounded
<1> QED
    BY <1>1, <1>2, <1>3, LifeIInv, WorldIInv DEF Next

-----------------------------------------------------------------------------
(* The strengthened invariant of the sink holds in every reachable state,  *)
(* whichever calls fail and whenever the process dies.                     *)
THEOREM InductiveInvariant == Spec => []IInv
<1>1. Init => IInv
    BY InitIInv
<1>2. IInv /\ [Next]_vars => IInv'
    BY NextIInv
<1> QED
    BY <1>1, <1>2, PTL DEF Spec

(* The state of the sink, its files and its history stay well typed. *)
THEOREM TypeCorrect == Spec => []TypeOK
<1>1. IInv => TypeOK
    BY DEF IInv
<1> QED
    BY <1>1, InductiveInvariant, PTL

(* No log file outgrows max_size_ by more than one message that alone is   *)
(* larger or by what failed writes left: sink_it_ trusts current_size_,    *)
(* which counts everything else, also after flushes that failed.           *)
THEOREM SizeIsBounded == Spec => []SizeBounded
<1>1. IInv => SizeBounded
    BY DEF IInv, SizeInv
<1> QED
    BY <1>1, InductiveInvariant, PTL

(* The number of renamed files is bounded by max_files_ and the rotations  *)
(* that were cut short since rotate_ last deleted old files.               *)
THEOREM FilesAreBounded == Spec => []FilesBounded
<1>1. IInv => FilesBounded
    BY DEF IInv, CountInv
<1> QED
    BY <1>1, InductiveInvariant, PTL

(* rotate_ deletes no file that is newer than one it keeps. *)
THEOREM OldestAreDeleted == Spec => []OldestDeleted
<1>1. IInv => OldestDeleted
    BY DEF IInv, TimeInv
<1> QED
    BY <1>1, InductiveInvariant, PTL

(* What a step may take from the files and the buffer. *)
Explained(m) ==
    \/ m \in buf.msgs /\ pc' = "down"
    \/ m \in buf.msgs /\ failures' > failures
    \/ /\ pc = "delete" /\ Cardinality(old) > MaxFiles
       /\ \E f \in old : m \in f.msgs /\ \A g \in old : f.mtime <= g.mtime
    \/ pc = "rename" /\ \E f \in old : f.name = clock /\ m \in f.msgs
    \/ pc = "rename" /\ pc' = "idle" /\ m \in base.msgs

LEMMA StepLoss ==
    ASSUME IInv, Next, NEW m \in Held \ Held'
    PROVE  Explained(m)
<1> USE DEF IInv
<1>0. m \in base.msgs \/ m \in buf.msgs \/ \E f \in old : m \in f.msgs
    BY DEF Held
<1>a. m \notin base'.msgs /\ m \notin buf'.msgs /\ \A f \in old' : m \notin f.msgs
    BY DEF Held
<1>b. ASSUME pc = "idle", (base' = Flushed /\ buf' = NoBuf) \/ FlushFails \/ CloseWrites,
             UNCHANGED old
      PROVE  Explained(m)
  <2>1. CASE base' = Flushed
      BY <1>0, <1>a, <1>b, <2>1, FlushedParts
  <2>2. CASE Failure /\ \E K, w : base' = Written(K, w)
    <3>1. base.msgs \subseteq base'.msgs
        BY <2>2 DEF Written
    <3>2. failures' > failures
        BY <2>2 DEF Failure, TypeOK
    <3> QED
        BY <1>0, <1>a, <1>b, <3>1, <3>2 DEF Explained
  <2> QED
      BY <1>b, <2>1, <2>2 DEF FlushFails, CloseWrites
<1>1. CASE SinkIt
  <2>1. PICK s \in Sizes : SinkFits(s) \/ SinkOversize(s) \/ SinkRotates(s) \/ SinkThrows(s)
      BY <1>1 DEF SinkIt
  <2>2. CASE SinkFits(s)
      BY <1>0, <1>a, <2>2 DEF SinkFits, Buffered, Torn
  <2>3. CASE SinkOversize(s)
    <3>1. buf = NoBuf
        BY <2>3, FlushedParts, Fields DEF SinkOversize, FileInv
    <3> QED
        BY <1>0, <1>a, <2>3, <3>1 DEF SinkOversize, NoBuf, Torn
  <2>4. CASE SinkRotates(s)
      BY <1>b, <2>4 DEF SinkRotates
  <2>5. CASE SinkThrows(s)
      BY <1>0, <1>a, <1>b, <2>5 DEF SinkThrows
  <2> QED
      BY <2>1, <2>2, <2>3, <2>4, <2>5
<1>2. CASE rotate_now \/ Flush \/ Uinit
    BY <1>b, <1>2 DEF rotate_now, Flush, Uinit
<1>3. CASE Construct
    BY <1>0, <1>a, <1>3 DEF Construct, FileInv, Opened, NoBuf
<1>4. CASE Rename
  <2>1. buf.msgs = {}
      BY <1>4 DEF Rename, FileInv, NoBuf
  <2>2. m \notin base.msgs
    <3> DEFINE new == [name |-> clock, msgs |-> base.msgs, size |-> base.size,
                       torn |-> base.torn, mtime |-> base.mtime]
    <3>1. new \in old'
        BY <1>4 DEF Rename
    <3>2. m \notin new.msgs
        BY <1>a, <3>1
    <3> QED
        BY <3>2
  <2> QED
      BY <1>0, <1>a, <1>4, <2>1, <2>2 DEF Rename, Explained
<1>5. CASE RenameFails
  <2>1. buf.msgs = {}
      BY <1>5 DEF RenameFails, FileInv, NoBuf
  <2> QED
      BY <1>0, <1>a, <1>5, <2>1 DEF RenameFails, Explained
<1>6. CASE DeleteOldest
  <2>1. PICK f \in old : (\A g \in old : f.mtime <= g.mtime) /\ old' = old \ {f}
      BY <1>6 DEF DeleteOldest
  <2>2. m \in f.msgs
      BY <1>0, <1>a, <1>6, <2>1 DEF DeleteOldest
  <2> QED
      BY <1>6, <2>1, <2>2 DEF DeleteOldest, Explained
<1>7. CASE DeleteEnds \/ DeleteFails \/ ReopenFails \/ Tick
    BY <1>0, <1>a, <1>7 DEF DeleteEnds, DeleteFails, ReopenFails, Tick
<1>8. CASE Reopen
    BY <1>0, <1>a, <1>8 DEF Reopen, FileInv, NoBuf
<1>9. CASE Crash
    BY <1>0, <1>a, <1>9 DEF Crash, Explained
<1> QED
    BY <1>1, <1>2, <1>3, <1>4, <1>5, <1>6, <1>7, <1>8, <1>9 DEF Next, Rotation

(* A message that the sink has written leaves the files and the buffer in  *)
(* five ways only; restarts, reopening and a buffer that is written out    *)
(* lose nothing.                                                           *)
THEOREM LossIsExplained == Spec => LossExplained
<1>1. IInv /\ [Next]_vars => [\A m \in Held \ Held' : Explained(m)]_vars
    BY StepLoss
<1> QED
    BY <1>1, InductiveInvariant, PTL DEF Spec, LossExplained, Explained
=============================================================================

------------------------------- MODULE LogSink -------------------------------
(***************************************************************************)
(* custom_rotating_file_sink, the log file of the gateway                  *)
(* (common/log/custom_rotating_file_sink-inl.h): one file that grows up to *)
(* max_size_, is then renamed to <process>_<second>.log, and at most       *)
(* max_files_ renamed files are kept.  The sink works under its mutex; the *)
(* process may die between any two of its system calls, and comes back     *)
(* with a new sink on what is left on disk.  Each of those calls may fail; *)
(* the exception ends the call and the message is lost.  When stdio cannot *)
(* write its buffer out, a first part of it may have reached the file, and *)
(* the rest is discarded or, as C leaves this open, kept.                  *)
(*                                                                         *)
(* A message is a number with a size; one tick of the clock is a second.   *)
(***************************************************************************)
EXTENDS Naturals, FiniteSets

CONSTANTS
    MaxSize,         \* max_size_
    MaxFiles,        \* max_files_
    Sizes,           \* sizes of formatted messages
    MaxMsgs,         \* bound: messages that are logged
    MaxTime,         \* bound: seconds that go by
    MaxInterrupted,  \* bound: rotations in a row that do not finish deleting
    MaxFailures      \* bound: failures to write the buffer out

ASSUME SizeAssumption == MaxSize \in Nat \ {0} /\ Sizes \subseteq Nat \ {0}
ASSUME FilesAssumption == MaxFiles \in Nat
ASSUME BoundAssumption ==
    MaxMsgs \in Nat /\ MaxTime \in Nat /\ MaxInterrupted \in Nat /\ MaxFailures \in Nat

VARIABLES
    pc,           \* what the sink does; "down" died, "off" was shut down
    file,         \* the file base_filename_: "absent", "closed", or "open" as fd_
    base,         \* its content
    buf,          \* what stdio has not written yet
    current,      \* current_size_
    msg,          \* size of the message that waits for the rotation, 0 if none
    old,          \* the renamed files
    clock,
    logged,       \* messages so far
    interrupted,  \* history: rotations since the last that deleted what it should
    gone,         \* history: the newest last_write_time among the deleted files
    failures      \* history: how often the buffer could not be written out

vars == <<pc, file, base, buf, current, msg, old, clock, logged, interrupted, gone,
          failures>>

(* The whole messages in a file, its size, and how much of that are parts  *)
(* of messages whose write failed.                                         *)
Content == [msgs : SUBSET Nat, size : Nat, torn : Nat, mtime : Nat]
Renamed == [name : Nat, msgs : SUBSET Nat, size : Nat, torn : Nat, mtime : Nat]
Empty == [msgs |-> {}, size |-> 0, torn |-> 0, mtime |-> clock]

TypeOK ==
    /\ pc \in {"idle", "rename", "delete", "reopen", "down", "off"}
    /\ file \in {"absent", "closed", "open"}
    /\ base \in Content
    /\ buf \in [msgs : SUBSET Nat, size : Nat]
    /\ current \in Nat
    /\ msg \in Nat
    /\ old \subseteq Renamed
    /\ clock \in Nat
    /\ logged \in Nat
    /\ interrupted \in Nat
    /\ gone \in Nat
    /\ failures \in Nat

NoBuf == [msgs |-> {}, size |-> 0]

Init ==
    /\ pc = "off"
    /\ file = "absent"
    /\ clock = 0
    /\ base = Empty
    /\ buf = NoBuf
    /\ current = 0
    /\ msg = 0
    /\ old = {}
    /\ logged = 0
    /\ interrupted = 0
    /\ gone = 0
    /\ failures = 0

-----------------------------------------------------------------------------
(* file_helper. *)

(* The file when the messages K, w units, of the buffer have reached it. *)
Written(K, w) ==
    [msgs |-> base.msgs \cup K, size |-> base.size + w, torn |-> base.torn,
     mtime |-> IF w = 0 THEN base.mtime ELSE clock]

Flushed == Written(buf.msgs, buf.size)

(* What may have reached it when the buffer could not be written out: any  *)
(* first part, which may end within a message.                             *)
Part(K, w) ==
    /\ \E n \in 0 .. logged : K = {m \in buf.msgs : m <= n}
    /\ K = {} \/ w > 0
    /\ K = buf.msgs <=> w = buf.size

Failure == failures < MaxFailures /\ failures' = failures + 1

(* flush() throws; the rest is discarded or stays in the buffer. *)
FlushFails ==
    /\ Failure
    /\ \E K \in SUBSET buf.msgs, w \in 0 .. buf.size :
          /\ Part(K, w)
          /\ base' = Written(K, w)
          /\ buf' \in {NoBuf, [msgs |-> buf.msgs \ K, size |-> buf.size - w]}

(* close() writes the buffer out, too; it does not look at what fclose     *)
(* returns, and after it there is no buffer.                               *)
CloseWrites ==
    /\ \/ base' = Flushed /\ UNCHANGED failures
       \/ Failure /\ \E K \in SUBSET buf.msgs, w \in 0 .. buf.size :
                        Part(K, w) /\ base' = Written(K, w)
    /\ buf' = NoBuf

(* The first p units of a message whose write fails are in file b. *)
Torn(b, p) ==
    [msgs |-> b.msgs, size |-> b.size + p, torn |-> b.torn + p,
     mtime |-> IF p = 0 THEN b.mtime ELSE clock]

(* A message of size s, the one that was logged last, goes to stdio. *)
Buffered(b, m, s) == [msgs |-> b.msgs \cup {m}, size |-> b.size + s]

(* Opening for append, and close(). *)
Opened == IF file = "absent" THEN Empty ELSE base

Closed == IF file = "open" THEN "closed" ELSE file

-----------------------------------------------------------------------------
(* Mutant: the constructor takes the file for empty. *)
ConstructForgetsSize ==
    /\ pc \in {"down", "off"}
    /\ file' = "open"
    /\ base' = Opened
    /\ buf' = NoBuf
    /\ current' = 0
    /\ pc' = "idle"
    /\ UNCHANGED <<msg, old, clock, logged, interrupted, gone, failures>>

(* Mutant: the constructor opens a new file. *)
ConstructTruncates ==
    /\ pc \in {"down", "off"}
    /\ file' = "open"
    /\ base' = Empty
    /\ buf' = NoBuf
    /\ current' = 0
    /\ pc' = "idle"
    /\ UNCHANGED <<msg, old, clock, logged, interrupted, gone, failures>>

(* The constructor; when the file cannot be opened it throws and there is  *)
(* no sink.  The logger does not ask for rotate_on_open.                   *)
Construct ==
    /\ pc \in {"down", "off"}
    /\ file' = "open"
    /\ base' = Opened
    /\ buf' = NoBuf
    /\ current' = Opened.size
    /\ pc' = "idle"
    /\ UNCHANGED <<msg, old, clock, logged, interrupted, gone, failures>>

(* sink_it_: the message fits.  A sink without a file drops it silently    *)
(* and counts it.  A write that fails throws; what there is of the message *)
(* in the file is not counted.                                             *)
SinkFits(s) ==
    /\ pc = "idle" /\ logged < MaxMsgs
    /\ logged' = logged + 1
    /\ current + s <= MaxSize
    /\ \/ /\ file = "open" /\ buf' = Buffered(buf, logged', s) /\ current' = current + s
          /\ UNCHANGED base
       \/ file # "open" /\ current' = current + s /\ UNCHANGED <<base, buf>>
       \/ /\ file = "open" /\ \E p \in 0 .. s - 1 : base' = Torn(base, p)
          /\ UNCHANGED <<buf, current>>
    /\ UNCHANGED <<pc, file, msg, old, clock, interrupted, gone, failures>>

(* It does not fit, and the file is empty: it is written all the same. *)
SinkOversize(s) ==
    /\ pc = "idle" /\ logged < MaxMsgs
    /\ logged' = logged + 1
    /\ current + s > MaxSize
    /\ file = "open" /\ Flushed.size = 0
    /\ \/ /\ buf' = Buffered(NoBuf, logged', s) /\ current' = current + s
          /\ UNCHANGED base
       \/ /\ \E p \in 0 .. s - 1 : base' = Torn(base, p)
          /\ UNCHANGED <<buf, current>>
    /\ UNCHANGED <<pc, file, msg, old, clock, interrupted, gone, failures>>

(* It does not fit: flush, and rotate_() begins with close(). *)
SinkRotates(s) ==
    /\ pc = "idle" /\ logged < MaxMsgs
    /\ logged' = logged + 1
    /\ current + s > MaxSize
    /\ file = "open" /\ Flushed.size > 0
    /\ base' = Flushed /\ buf' = NoBuf
    /\ file' = Closed
    /\ msg' = s
    /\ pc' = "rename"
    /\ UNCHANGED <<current, old, clock, interrupted, gone, failures>>

(* flush() fails, or size() throws, always so if there is no file. *)
SinkThrows(s) ==
    /\ pc = "idle" /\ logged < MaxMsgs
    /\ logged' = logged + 1
    /\ current + s > MaxSize
    /\ \/ file # "open" /\ UNCHANGED <<base, buf, failures>>
       \/ file = "open" /\ FlushFails
       \/ file = "open" /\ base' = Flushed /\ buf' = NoBuf /\ UNCHANGED failures
    /\ UNCHANGED <<pc, file, current, msg, old, clock, interrupted, gone>>

(* No flush here: what is in the buffer depends on close(). *)
rotate_now ==
    /\ pc = "idle"
    /\ CloseWrites
    /\ file' = Closed
    /\ msg' = 0
    /\ pc' = "rename"
    /\ UNCHANGED <<current, old, clock, logged, interrupted, gone>>

-----------------------------------------------------------------------------
(* rotate_, after close(). *)

(* A file that has this second's name already is replaced. *)
Rename ==
    /\ pc = "rename" /\ file # "absent"
    /\ old' = {f \in old : f.name # clock} \cup
              {[name |-> clock, msgs |-> base.msgs, size |-> base.size,
                torn |-> base.torn, mtime |-> base.mtime]}
    /\ file' = "absent"
    /\ base' = Empty
    /\ pc' = "delete"
    /\ UNCHANGED <<buf, current, msg, clock, logged, interrupted, gone, failures>>

(* reopen(true) truncates the file, or fails before or after it has; then  *)
(* rotate_ throws.                                                         *)
RenameFails ==
    /\ pc = "rename"
    /\ \/ base' = Empty /\ file' = "open" /\ current' = 0
       \/ base' = Empty /\ file' = "closed" /\ UNCHANGED current
       \/ UNCHANGED <<base, file, current>>
    /\ msg' = 0
    /\ pc' = "idle"
    /\ UNCHANGED <<buf, old, clock, logged, interrupted, gone, failures>>

Later(t, u) == IF t >= u THEN t ELSE u

(* Mutant: the newest file goes. *)
DeleteNewest ==
    /\ pc = "delete" /\ Cardinality(old) > MaxFiles
    /\ \E f \in old :
          /\ \A g \in old : f.mtime >= g.mtime
          /\ old' = old \ {f}
          /\ gone' = Later(gone, f.mtime)
    /\ UNCHANGED <<pc, file, base, buf, current, msg, clock, logged, interrupted, failures>>

(* Files are deleted by last_write_time; any of several that tie. *)
DeleteOldest ==
    /\ pc = "delete" /\ Cardinality(old) > MaxFiles
    /\ \E f \in old :
          /\ \A g \in old : f.mtime <= g.mtime
          /\ old' = old \ {f}
          /\ gone' = Later(gone, f.mtime)
    /\ UNCHANGED <<pc, file, base, buf, current, msg, clock, logged, interrupted, failures>>

(* Mutant: one file is deleted, and no more. *)
DeleteEndsEarly ==
    /\ pc = "delete"
    /\ pc' = "reopen"
    /\ interrupted' = 0
    /\ UNCHANGED <<file, base, buf, current, msg, old, clock, logged, gone, failures>>

DeleteEnds ==
    /\ pc = "delete" /\ Cardinality(old) <= MaxFiles
    /\ pc' = "reopen"
    /\ interrupted' = 0
    /\ UNCHANGED <<file, base, buf, current, msg, old, clock, logged, gone, failures>>

(* The directory cannot be read, or a file not be removed: the exception   *)
(* leaves the sink without a file.                                         *)
DeleteFails ==
    /\ pc = "delete" /\ interrupted < MaxInterrupted
    /\ interrupted' = interrupted + 1
    /\ msg' = 0
    /\ pc' = "idle"
    /\ UNCHANGED <<file, base, buf, current, old, clock, logged, gone, failures>>

(* The new file, and the message that waited for it; the write may fail. *)
Reopen ==
    /\ pc = "reopen"
    /\ file' = "open"
    /\ \/ base' = Empty /\ msg > 0 /\ buf' = Buffered(NoBuf, logged, msg) /\ current' = msg
       \/ base' = Empty /\ msg = 0 /\ buf' = NoBuf /\ current' = 0
       \/ /\ msg > 0 /\ \E p \in 0 .. msg - 1 : base' = Torn(Empty, p)
          /\ buf' = NoBuf /\ current' = 0
    /\ msg' = 0
    /\ pc' = "idle"
    /\ UNCHANGED <<old, clock, logged, interrupted, gone, failures>>

ReopenFails ==
    /\ pc = "reopen"
    /\ msg' = 0
    /\ pc' = "idle"
    /\ UNCHANGED <<file, base, buf, current, old, clock, logged, interrupted, gone, failures>>

-----------------------------------------------------------------------------
(* flush_, from flush_on, flush_every or a full stdio buffer. *)
Flush ==
    /\ pc = "idle" /\ buf # NoBuf
    /\ \/ base' = Flushed /\ buf' = NoBuf /\ UNCHANGED failures
       \/ FlushFails
    /\ UNCHANGED <<pc, file, current, msg, old, clock, logged, interrupted, gone>>

(* Uinit: flush, whose exception the logger swallows, and the logger goes. *)
(* file_sink_ keeps the file open until a new sink takes its place, but    *)
(* nothing more can be logged to it.                                       *)
Uinit ==
    /\ pc = "idle"
    /\ CloseWrites
    /\ file' = Closed
    /\ pc' = "off"
    /\ UNCHANGED <<current, msg, old, clock, logged, interrupted, gone>>

(* Environment: the process dies, and time goes by. *)
Crash ==
    /\ pc \notin {"down", "off"}
    /\ \/ pc # "delete" /\ UNCHANGED interrupted
       \/ pc = "delete" /\ interrupted < MaxInterrupted /\ interrupted' = interrupted + 1
    /\ buf' = NoBuf
    /\ file' = Closed
    /\ msg' = 0
    /\ pc' = "down"
    /\ UNCHANGED <<base, current, old, clock, logged, gone, failures>>

Tick ==
    /\ clock < MaxTime
    /\ clock' = clock + 1
    /\ UNCHANGED <<pc, file, base, buf, current, msg, old, logged, interrupted, gone, failures>>

SinkIt == \E s \in Sizes : SinkFits(s) \/ SinkOversize(s) \/ SinkRotates(s) \/ SinkThrows(s)

Rotation == Rename \/ RenameFails \/ DeleteOldest \/ DeleteEnds \/ DeleteFails \/ Reopen \/ ReopenFails

Next == Construct \/ SinkIt \/ rotate_now \/ Rotation \/ Flush \/ Uinit \/ Crash \/ Tick

Spec == Init /\ [][Next]_vars

-----------------------------------------------------------------------------
(* Properties. *)

(* No log file is larger than max_size_, but for what failed writes left   *)
(* in it, unless it holds one message only: current_size_ is never too     *)
(* small by more, after every rotation, every failure and every restart.   *)
WithinSize(f) == f.size <= MaxSize + f.torn \/ \A m, n \in f.msgs : m = n

SizeBounded == WithinSize(Flushed) /\ \A f \in old : WithinSize(f)

(* More than max_files_ renamed files are there only while a rotation is   *)
(* under way, or as many more as rotations in a row were cut short by a    *)
(* failure or the death of the process; the next one makes up for them.    *)
FilesBounded ==
    Cardinality(old) <= MaxFiles + interrupted + (IF pc = "delete" THEN 1 ELSE 0)

(* No file that was deleted was newer than a file that is kept. *)
OldestDeleted ==
    /\ \A f \in old : gone <= f.mtime
    /\ file # "absent" => gone <= base.mtime

(* A message that was written is lost only in five ways: the process died *)
(* before it was flushed; stdio could not write it to the file; its file   *)
(* was the oldest of too many; a second rotation in one second replaced    *)
(* its file; or renaming failed, which empties the file.                   *)
Held == base.msgs \cup buf.msgs \cup UNION {f.msgs : f \in old}

LossExplained ==
    [][\A m \in Held \ Held' :
          \/ m \in buf.msgs /\ pc' = "down"
          \/ m \in buf.msgs /\ failures' > failures
          \/ /\ pc = "delete" /\ Cardinality(old) > MaxFiles
             /\ \E f \in old : m \in f.msgs /\ \A g \in old : f.mtime <= g.mtime
          \/ pc = "rename" /\ \E f \in old : f.name = clock /\ m \in f.msgs
          \/ pc = "rename" /\ pc' = "idle" /\ m \in base.msgs]_vars
=============================================================================

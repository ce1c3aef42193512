-------------------------- MODULE ModbusApi_proofs --------------------------
(***************************************************************************)
(* Proofs about ModbusApi, for any number of user threads and contexts,    *)
(* any retry limit and any configuration.                                  *)
(*                                                                         *)
(* LockedCallsSafe is not inductive: it has to be known who may change     *)
(* ctx_ at each point.  The argument is an ownership argument.  Only the   *)
(* holder of the mutex takes ctx_ from a context to NULL, and only the     *)
(* loop takes it from NULL to a context, which it does having seen NULL;   *)
(* nobody else can have changed it since.                                  *)
(***************************************************************************)
EXTENDS ModbusApi, TLAPS

(* The threads inside a locked operation are exactly the mutex holder. *)
MutexInv == \A u \in Users : user[u] \in InMutex <=> mutex = u

(* Past its test the holder sees a context that stays in place. *)
HolderInv == \A u \in Users :
    user[u] \in {"io", "close", "free", "null"} => ctx # NULL

(* While the loop builds a context, ctx_ is NULL. *)
CreatingInv ==
    /\ loop \in Creating \cup {"failed", "exhausted"} => ctx = NULL
    /\ loop \in {"connect", "publish", "destroy"} =>
          newCtx # NULL /\ heap[newCtx] = "live"
    /\ newCtx # NULL => loop \in {"connect", "publish", "destroy", "ub"}

(* ctx_ points at a live context, except in the last step of destroy(). *)
PointerInv ==
    ctx # NULL => heap[ctx] = "live" \/ \E u \in Users : user[u] = "null"

FreedInv == \A u \in Users : user[u] = "null" => heap[ctx] = "free"

(* The destructor has taken the context with it. *)
DestroyedInv ==
    /\ obj = "destroyed" => ctx = NULL /\ \A u \in Users : user[u] = "idle"
    /\ loop = "ub" => obj = "destroyed"

IInv ==
    /\ TypeOK
    /\ MutexInv
    /\ HolderInv
    /\ CreatingInv
    /\ PointerInv
    /\ FreedInv
    /\ DestroyedInv
    /\ NoOrphanContext

-----------------------------------------------------------------------------
LEMMA InitIInv == Init => IInv
<1> SUFFICES ASSUME Init PROVE IInv
    OBVIOUS
<1> USE NullAssumption DEF Init
<1>1. TypeOK
    BY DEF TypeOK, UserPCs, LoopPCs
<1>2. MutexInv /\ HolderInv /\ FreedInv
    BY DEF MutexInv, HolderInv, FreedInv, InMutex
<1>3. CreatingInv /\ DestroyedInv
    BY DEF CreatingInv, DestroyedInv, Creating
<1>4. PointerInv /\ NoOrphanContext
    BY DEF PointerInv, NoOrphanContext
<1> QED
    BY <1>1, <1>2, <1>3, <1>4 DEF IInv

(* Steps of the user threads. *)
LEMMA UserIInv ==
    ASSUME IInv, NEW u \in Users, Lock(u) \/ SetDebugTest(u) \/ UserStep(u)
    PROVE  IInv'
<1> USE NullAssumption
           DEF IInv, TypeOK, MutexInv, HolderInv, CreatingInv, PointerInv, FreedInv,
               DestroyedInv, NoOrphanContext, InMutex, UserPCs, Creating, goto, Return
<1>1. CASE Lock(u)
    BY <1>1 DEF Lock
<1>2. CASE SetDebugTest(u)
    BY <1>2 DEF SetDebugTest
<1>3. CASE CheckCtx(u)
    BY <1>3 DEF CheckCtx
<1>4. CASE Transfer(u)
    BY <1>4 DEF Transfer
<1>5. CASE Close(u)
    BY <1>5 DEF Close
<1>6. CASE Free(u)
    BY <1>6 DEF Free
<1>7. CASE ClearCtx(u)
    BY <1>7 DEF ClearCtx
<1>8. CASE SetDebugUse(u)
    BY <1>8 DEF SetDebugUse
<1> QED
    BY <1>1, <1>2, <1>3, <1>4, <1>5, <1>6, <1>7, <1>8 DEF UserStep

(* Steps of the reconnect thread. *)
LEMMA LoopIInv == IInv /\ LoopStep => IInv'
<1> SUFFICES ASSUME IInv, LoopStep PROVE IInv'
    OBVIOUS
<1> USE NullAssumption, RetryAssumption
           DEF IInv, TypeOK, MutexInv, HolderInv, CreatingInv, PointerInv, FreedInv,
               DestroyedInv, NoOrphanContext, InMutex, LoopPCs, LoopEnded, Creating
<1>1. CASE LoopWhile
    BY <1>1 DEF LoopWhile
<1>2. CASE LoopTest
    BY <1>2 DEF LoopTest
<1>3. CASE LoopNew
    BY <1>3 DEF LoopNew
<1>4. CASE LoopConnect
    BY <1>4 DEF LoopConnect
<1>5. CASE LoopDestroy
    BY <1>5 DEF LoopDestroy
<1>6. CASE LoopPublish
    BY <1>6 DEF LoopPublish
<1>7. CASE LoopFailed
    BY <1>7 DEF LoopFailed
<1>8. CASE LoopSleep
    BY <1>8 DEF LoopSleep
<1>9. CASE LoopAfterDestroy
    BY <1>9 DEF LoopAfterDestroy
<1> QED
    BY <1>1, <1>2, <1>3, <1>4, <1>5, <1>6, <1>7, <1>8, <1>9 DEF LoopStep

LEMMA NextIInv == IInv /\ [Next]_vars => IInv'
<1> SUFFICES ASSUME IInv, [Next]_vars PROVE IInv'
    OBVIOUS
<1>1. ASSUME NEW u \in Users, Lock(u) \/ SetDebugTest(u) \/ UserStep(u)
      PROVE  IInv'
    BY <1>1, UserIInv
<1>2. CASE LoopStep
    BY <1>2, LoopIInv
<1> USE NullAssumption
           DEF IInv, TypeOK, MutexInv, HolderInv, CreatingInv, PointerInv, FreedInv,
               DestroyedInv, NoOrphanContext, InMutex, Creating
<1>3. CASE Stop
    BY <1>3 DEF Stop
<1>4. CASE Destruct
    BY <1>4 DEF Destruct
<1>5. CASE DeviceFlips
    BY <1>5 DEF DeviceFlips
<1>6. CASE UNCHANGED vars
    BY <1>6 DEF vars
<1> QED
    BY <1>1, <1>2, <1>3, <1>4, <1>5, <1>6 DEF Next

(* IInv is an invariant of the specification. *)
THEOREM InductiveInvariant == Spec => []IInv
BY InitIInv, NextIInv, PTL DEF Spec

(* The variables keep their types, the retry counter and the two program   *)
(* counters included.                                                      *)
THEOREM TypeCorrect == Spec => []TypeOK
<1>1. IInv => TypeOK
    BY DEF IInv
<1> QED
    BY <1>1, InductiveInvariant, PTL

(* No locked operation touches a context that has been freed, whatever the *)
(* unlocked reconnect thread does meanwhile.                               *)
THEOREM LockedCallsAreSafe == Spec => []LockedCallsSafe
<1>1. IInv => LockedCallsSafe
  <2> SUFFICES ASSUME IInv, NEW u \in Users, user[u] \in {"io", "close", "free"}
               PROVE  ctx # NULL /\ heap[ctx] = "live"
      BY DEF LockedCallsSafe
  <2>1. ctx # NULL
      BY DEF IInv, HolderInv
  <2>2. \A v \in Users : user[v] # "null"
      BY NullAssumption DEF IInv, TypeOK, MutexInv, InMutex
  <2> QED
      BY <2>1, <2>2 DEF IInv, PointerInv
<1> QED
    BY <1>1, InductiveInvariant, PTL

(* Every live context has an owner. *)
THEOREM NoContextIsOrphaned == Spec => []NoOrphanContext
<1>1. IInv => NoOrphanContext
    BY DEF IInv
<1> QED
    BY <1>1, InductiveInvariant, PTL

(* At most one context of a device is live. *)
THEOREM AtMostOneConnection == Spec => []OneConnection
<1>1. IInv => OneConnection
  <2> SUFFICES ASSUME IInv, NEW c \in Ctxs, NEW d \in Ctxs,
                      heap[c] = "live", heap[d] = "live"
               PROVE  c = d
      BY DEF OneConnection
  <2>1. c \in {ctx, newCtx} /\ d \in {ctx, newCtx} /\ c # NULL /\ d # NULL
      BY NullAssumption DEF IInv, NoOrphanContext
  <2>2. newCtx = NULL \/ ctx = NULL
      BY DEF IInv, CreatingInv, DestroyedInv, Creating
  <2> QED
      BY <2>1, <2>2
<1> QED
    BY <1>1, InductiveInvariant, PTL

(* After the loop has given up, ctx_ is NULL for good. *)
THEOREM GivingUpIsFinal == Spec => []ExhaustedMeansDown
<1>1. IInv => ExhaustedMeansDown
    BY DEF IInv, CreatingInv, ExhaustedMeansDown
<1> QED
    BY <1>1, InductiveInvariant, PTL

(* The unlocked reconnect thread never replaces or clears a published      *)
(* context: only the last step of a user's destroy() and the destructor    *)
(* change a ctx_ that is not NULL.                                         *)
THEOREM PublishedContextIsKept == Spec => PublishedCtxKept
<1> DEFINE Kept == ctx # NULL /\ ctx' # ctx
                     => obj' = "destroyed" \/ \E u \in Users : user[u] = "null"
<1>1. IInv /\ [Next]_vars => [Kept]_vars
  <2> SUFFICES ASSUME IInv, Next, ctx # NULL, ctx' # ctx
               PROVE  obj' = "destroyed" \/ \E u \in Users : user[u] = "null"
      OBVIOUS
  <2>1. CASE \E u \in Users : Lock(u) \/ SetDebugTest(u) \/ UserStep(u)
      BY <2>1 DEF Lock, SetDebugTest, UserStep, CheckCtx, Transfer, Close, Free, ClearCtx,
                  SetDebugUse
  <2>2. CASE LoopStep
      BY <2>2 DEF LoopStep, LoopWhile, LoopTest, LoopNew, LoopConnect, LoopDestroy,
                  LoopPublish, LoopFailed, LoopSleep, LoopAfterDestroy,
                  IInv, CreatingInv, Creating
  <2>3. CASE Stop \/ Destruct \/ DeviceFlips
      BY <2>3 DEF Stop, Destruct, DeviceFlips
  <2> QED
      BY <2>1, <2>2, <2>3 DEF Next
<1> QED
    BY <1>1, InductiveInvariant, PTL DEF Spec, PublishedCtxKept

-----------------------------------------------------------------------------
(* ModbusApi implements DeviceLink.  The invariant is needed twice: to     *)
(* know that a context is only created when none is live, and that the     *)
(* loop gives up with no context left.                                     *)

LEMMA LinkInit == Init => Link!Init
BY NullAssumption DEF Init, Link!Init, Live

(* ctx_ and the local context are never live together. *)
LEMMA LiveOne ==
    ASSUME IInv
    PROVE  /\ ctx \in Live => Live = {ctx}
           /\ loop \in {"connect", "publish", "destroy"} => Live = {newCtx}
           /\ newCtx = NULL /\ ctx \notin Live => Live = {}
<1>1. Live \subseteq {ctx, newCtx}
    BY DEF IInv, NoOrphanContext, Live
<1>2. NULL \notin Live /\ (newCtx = NULL \/ ctx = NULL)
    BY NullAssumption DEF IInv, CreatingInv, DestroyedInv, Creating, Live
<1>3. loop \in {"connect", "publish", "destroy"} => newCtx \in Live
    BY NullAssumption DEF IInv, TypeOK, CreatingInv, Live
<1> QED
    BY <1>1, <1>2, <1>3

LEMMA UserLink ==
    ASSUME IInv, NEW u \in Users, Lock(u) \/ SetDebugTest(u) \/ UserStep(u)
    PROVE  [Link!Next]_(Link!vars)
<1>1. CASE Free(u)
  <2>1. ctx \in Live /\ Live = {ctx}
      BY <1>1, LiveOne, NullAssumption
         DEF Free, IInv, TypeOK, HolderInv, PointerInv, MutexInv, InMutex, Live
  <2>2. Live' = {} /\ ctx' = ctx
      BY <1>1, <2>1 DEF Free, IInv, TypeOK, Live
  <2>3. loop # "exhausted" /\ loop' = loop
      BY <1>1, <2>1, NullAssumption DEF Free, IInv, CreatingInv, Live
  <2> QED
      BY <2>1, <2>2, <2>3 DEF Link!Next, Link!Drop
<1>2. CASE ClearCtx(u)
  <2>1. ctx \notin Live /\ Live' = Live
      BY <1>2, NullAssumption DEF ClearCtx, IInv, TypeOK, FreedInv, Live
  <2>2. ctx' \notin Live'
      BY <1>2, <2>1, NullAssumption DEF ClearCtx, Live
  <2> QED
      BY <1>2, <2>1, <2>2 DEF ClearCtx, Link!vars
<1>3. CASE \/ Lock(u) \/ SetDebugTest(u) \/ CheckCtx(u) \/ Transfer(u) \/ Close(u)
           \/ SetDebugUse(u)
  <2>1. UNCHANGED <<heap, ctx, loop>>
      BY <1>3 DEF Lock, SetDebugTest, CheckCtx, Transfer, Close, SetDebugUse
  <2> QED
      BY <2>1 DEF Link!vars, Live
<1> QED
    BY <1>1, <1>2, <1>3 DEF UserStep

LEMMA LoopLink ==
    ASSUME IInv, LoopStep
    PROVE  [Link!Next]_(Link!vars)
<1>1. CASE LoopNew
  <2>1. CASE heap' = heap
    <3>1. ctx' = ctx /\ Live' = Live /\ loop # "exhausted" /\ loop' # "exhausted"
        BY <1>1, <2>1, NullAssumption DEF LoopNew, Live, IInv, TypeOK
    <3> QED
        BY <3>1 DEF Link!vars
  <2>2. CASE heap' # heap
    <3>1. PICK c \in Ctxs : heap' = [heap EXCEPT ![c] = "live"]
        BY <1>1, <2>2 DEF LoopNew
    <3>2. newCtx = NULL /\ ctx = NULL /\ Live = {}
        BY <1>1, LiveOne, NullAssumption DEF LoopNew, IInv, CreatingInv, Creating, Live
    <3>3. Live' = {c} /\ ctx' \notin Live'
        BY <1>1, <3>1, <3>2, NullAssumption DEF LoopNew, Live, IInv, TypeOK
    <3>4. loop # "exhausted" /\ loop' # "exhausted"
        BY <1>1 DEF LoopNew
    <3> QED
        BY <3>2, <3>3, <3>4 DEF Link!Next, Link!Open
  <2> QED
      BY <2>1, <2>2
<1>2. CASE LoopPublish
  <2>1. Live = {newCtx} /\ ctx = NULL /\ newCtx # NULL
      BY <1>2, LiveOne DEF LoopPublish, IInv, CreatingInv, Creating
  <2>2. Live' = Live /\ ctx' \in Live' /\ ctx \notin Live
      BY <1>2, <2>1 DEF LoopPublish, Live
  <2> QED
      BY <1>2, <2>1, <2>2 DEF LoopPublish, Link!Next, Link!Establish
<1>3. CASE LoopDestroy
  <2>1. Live = {newCtx} /\ ctx = NULL /\ ctx \notin Live
      BY <1>3, LiveOne, NullAssumption DEF LoopDestroy, IInv, CreatingInv, Creating, Live
  <2>2. Live' = {} /\ ctx' = NULL
      BY <1>3, <2>1 DEF LoopDestroy, IInv, TypeOK, Live
  <2> QED
      BY <1>3, <2>1, <2>2 DEF LoopDestroy, Link!Next, Link!Drop
<1>4. CASE LoopTest
  <2>1. newCtx = NULL /\ Live' = Live /\ ctx' = ctx
      BY <1>4 DEF LoopTest, IInv, CreatingInv, Live
  <2>2. CASE loop' = "exhausted"
    <3>1. ctx = NULL /\ ctx \notin Live
        BY <1>4, <2>2, NullAssumption DEF LoopTest, Live
    <3> QED
        BY <1>4, <2>1, <2>2, <3>1, LiveOne DEF LoopTest, Link!Next, Link!GiveUp
  <2>3. CASE loop' # "exhausted"
      BY <1>4, <2>1, <2>3 DEF LoopTest, Link!vars
  <2> QED
      BY <2>2, <2>3
<1>5. CASE LoopFailed
  <2>1. ctx = NULL /\ ctx' = NULL /\ Live' = Live
      BY <1>5 DEF LoopFailed, IInv, CreatingInv, Live
  <2> QED
      BY <1>5, <2>1 DEF LoopFailed, Link!vars
<1>6. CASE LoopWhile \/ LoopConnect \/ LoopSleep \/ LoopAfterDestroy
  <2>1. UNCHANGED <<heap, ctx>> /\ loop # "exhausted" /\ loop' # "exhausted"
      BY <1>6 DEF LoopWhile, LoopConnect, LoopSleep, LoopAfterDestroy, LoopEnded
  <2> QED
      BY <2>1 DEF Link!vars, Live
<1> QED
    BY <1>1, <1>2, <1>3, <1>4, <1>5, <1>6 DEF LoopStep

LEMMA DestructLink ==
    ASSUME IInv, Destruct
    PROVE  [Link!Next]_(Link!vars)
<1>1. ctx' \notin Live' /\ loop' = loop
    BY NullAssumption DEF Destruct, Live
<1>2. CASE ctx \in Live
  <2>1. Live = {ctx} /\ Live' = {} /\ loop # "exhausted"
      BY <1>2, LiveOne, NullAssumption DEF Destruct, IInv, TypeOK, CreatingInv, Live
  <2> QED
      BY <1>1, <1>2, <2>1 DEF Link!Next, Link!Drop
<1>3. CASE ctx \notin Live
  <2>1. Live' = Live
      BY <1>3 DEF Destruct, IInv, TypeOK, Live
  <2> QED
      BY <1>1, <1>3, <2>1 DEF Link!vars
<1> QED
    BY <1>2, <1>3

(* Every behaviour of the object, with any number of threads, is one of    *)
(* DeviceLink: connections come one after the other, and giving up is for  *)
(* good.                                                                   *)
THEOREM ModbusApiImplementsLink == Spec => ImplementsDeviceLink
<1>1. IInv /\ [Next]_vars => [Link!Next]_(Link!vars)
  <2> SUFFICES ASSUME IInv, [Next]_vars PROVE [Link!Next]_(Link!vars)
      OBVIOUS
  <2>1. CASE \E u \in Users : Lock(u) \/ SetDebugTest(u) \/ UserStep(u)
      BY <2>1, UserLink
  <2>2. CASE LoopStep
      BY <2>2, LoopLink
  <2>3. CASE Destruct
      BY <2>3, DestructLink
  <2>4. CASE Stop \/ DeviceFlips \/ UNCHANGED vars
    <3>1. UNCHANGED <<heap, ctx, loop>>
        BY <2>4 DEF Stop, DeviceFlips, vars
    <3> QED
        BY <3>1 DEF Link!vars, Live
  <2> QED
      BY <2>1, <2>2, <2>3, <2>4 DEF Next
<1> QED
    BY <1>1, LinkInit, InductiveInvariant, PTL DEF Spec, ImplementsDeviceLink, Link!Spec
=============================================================================

------------------------- MODULE Iec104Server_proofs -------------------------
(***************************************************************************)
(* Proofs about Iec104Server, for any points, masters, queue and number of *)
(* starts.                                                                 *)
(***************************************************************************)
EXTENDS Iec104Server, FiniteSetTheorems, SequenceTheorems, WellFoundedInduction, TLAPS

(* What the owner has created, and who has released it: the structure of a *)
(* thread is freed at most once by stop() and once by the thread itself.   *)
OwnerInv ==
    /\ owner = "create" => starts < MaxStarts
    /\ handle <= starts
    /\ \A t \in Threads : t > starts => per[t] = "none" /\ perSnap[t] = NoData

Kept == {t \in Threads : t = handle \/ t > starts}   \* not released by stop()

FreedInv ==
    \A t \in Threads :
        /\ t \in Kept /\ per[t] # "ended" => freed[t] = 0
        /\ t \in Kept \/ per[t] # "ended" => freed[t] <= 1

LifeInv == TypeOK /\ OwnerInv /\ FreedInv

(* No version that was confirmed, or is about to be, is ahead of the data; *)
(* the answer under way has what had been confirmed at the request.        *)
FreshInv ==
    /\ \A i \in IOAs : confirmed[i] <= ver[i]
    /\ \A m \in Masters :
          /\ command[m].ioa \in IOAs => command[m].ver <= ver[command[m].ioa]
          /\ \A i \in IOAs : asked[m].confirmed[i] <= ver[i]
          /\ mas[m] \in {"send", "term"} =>
                \A i \in DOMAIN masSnap[m] : asked[m].confirmed[i] <= masSnap[m][i]

(* The points are of one type and fit into an ASDU. *)
Uniform ==
    /\ \A i, j \in points : Kind(i) = Kind(j)
    /\ Cardinality(points) <= Capacity

(* Points are never removed: what was there at the request is in the copy. *)
CompleteInv ==
    /\ IsFiniteSet(points)
    /\ \A m \in Masters :
          /\ asked[m].points \subseteq points
          /\ mas[m] = "send" => /\ asked[m].points \subseteq DOMAIN masSnap[m]
                                /\ DOMAIN masSnap[m] \subseteq points
          /\ mas[m] = "term" /\ Uniform => asked[m].points \subseteq DOMAIN masSnap[m]

(* c is not newer than the versions v; a is not newer than b. *)
Past(c, v) == \A i \in DOMAIN c : c[i] <= v[i]
NotAfter(a, b) == \A i \in DOMAIN a \cap DOMAIN b : a[i] <= b[i]

(* In the first life all copies, sent, queued or in work, are in order. *)
PeriodicInv ==
    starts <= 1 =>
        /\ Past(delivered, ver)
        /\ \A p \in 1 .. Len(queue) : Past(queue[p], ver) /\ NotAfter(delivered, queue[p])
        /\ \A p, q \in 1 .. Len(queue) : p < q => NotAfter(queue[p], queue[q])
        /\ \A t \in Threads :
              /\ Past(perSnap[t], ver) /\ NotAfter(delivered, perSnap[t])
              /\ \A p \in 1 .. Len(queue) : NotAfter(queue[p], perSnap[t])

IInv == LifeInv /\ FreshInv /\ CompleteInv /\ PeriodicInv

-----------------------------------------------------------------------------
(* The ASDU. *)

(* A set of addresses that is not empty has a smallest one. *)
LEMMA MinExists ==
    ASSUME NEW S \in SUBSET Nat, S # {}
    PROVE  Min(S) \in S
<1>1. IsWellFoundedOn(OpToRel(<, Nat), Nat)
    BY NatLessThanWellFounded
<1> DEFINE R == OpToRel(<, Nat)
<1>2. \E x \in S : \A y \in S : ~(<<y, x>> \in R)
    <2> HIDE DEF R
    <2>1. IsWellFoundedOn(R, Nat)
        BY <1>1 DEF R
    <2> QED BY <2>1, WFMin
<1>3. \A x \in S, y \in S : <<y, x>> \notin R => x <= y
    BY DEF OpToRel
<1>4. \E x \in S : \A y \in S : x <= y
    <2> HIDE DEF R
    <2> QED BY <1>2, <1>3
<1> QED BY <1>4 DEF Min

(* sendDataPoints sends a part of the copy, with its values. *)
LEMMA AsduPart ==
    ASSUME NEW c
    PROVE  /\ DOMAIN Asdu(c) \subseteq DOMAIN c
           /\ \A i \in DOMAIN Asdu(c) : Asdu(c)[i] = c[i]
BY DEF Asdu, Restrict

(* It sends all of it if the points are of one type and fit. *)
LEMMA AsduComplete ==
    ASSUME NEW c, DOMAIN c \subseteq Nat, DOMAIN c # {}, IsFiniteSet(DOMAIN c),
           Cardinality(DOMAIN c) <= Capacity,
           \A i, j \in DOMAIN c : Kind(i) = Kind(j)
    PROVE  DOMAIN Asdu(c) = DOMAIN c
<1> DEFINE S == DOMAIN c
           same == {i \in S : Kind(i) = Kind(Min(S))}
<1>1. Min(S) \in S
    BY MinExists
<1>2. same = S
    BY <1>1
<1>3. ASSUME NEW i \in S PROVE Cardinality({j \in S : j < i}) < Capacity
    <2> DEFINE T == {j \in S : j < i}
    <2>1. T \in SUBSET S /\ i \notin T /\ i \in S
        BY <1>3
    <2>2. /\ Cardinality(T) <= Cardinality(S) /\ Cardinality(T) # Cardinality(S)
          /\ IsFiniteSet(T)
        BY <2>1, FS_Subset
    <2>3. Cardinality(T) \in Nat /\ Cardinality(S) \in Nat /\ Capacity \in Nat
        BY <2>2, FS_CardinalityType, BoundAssumption
    <2> QED BY <2>2, <2>3
<1>4. DOMAIN Asdu(c) = {i \in same : Cardinality({j \in same : j < i}) < Capacity}
    BY DEF Asdu, Restrict
<1> HIDE DEF same
<1> QED BY <1>2, <1>3, <1>4

-----------------------------------------------------------------------------
(* Types. *)

LEMMA CopyType ==
    ASSUME NEW S \in SUBSET IOAs, NEW c \in [S -> Versions]
    PROVE  c \in Contents
BY DEF Contents

LEMMA CopyDomain ==
    ASSUME NEW c \in Contents
    PROVE  DOMAIN c \subseteq IOAs /\ c \in [DOMAIN c -> Versions]
BY DEF Contents

LEMMA VersionsNat == Versions \subseteq Nat
BY BoundAssumption DEF Versions

LEMMA NoDataType == NoData \in Contents /\ DOMAIN NoData = {}
<1>1. DOMAIN NoData = {}
    BY DEF NoData
<1>2. NoData \in [{} -> Versions]
    BY DEF NoData
<1> QED BY <1>1, <1>2, CopyType

LEMMA SnapshotType == TypeOK => Snapshot \in Contents
<1> SUFFICES ASSUME TypeOK PROVE Snapshot \in Contents
    OBVIOUS
<1>1. \A i \in points : ver[i] \in Versions
    BY BoundAssumption DEF TypeOK, Versions
<1>2. Snapshot \in [points -> Versions] /\ points \in SUBSET IOAs
    BY <1>1 DEF Snapshot, TypeOK
<1> QED BY <1>2, CopyType

LEMMA AsduType ==
    ASSUME NEW c \in Contents
    PROVE  Asdu(c) \in Contents
<1>1. PICK T \in SUBSET DOMAIN c : Asdu(c) = [i \in T |-> c[i]]
    BY DEF Asdu, Restrict
<1>2. T \in SUBSET IOAs /\ Asdu(c) \in [T -> Versions]
    BY <1>1, CopyDomain
<1> QED BY <1>2, CopyType

(* The queue takes a new ASDU at its end, and loses its oldest when full. *)
LEMMA EnqueueShape ==
    ASSUME NEW q \in Seq(Contents), Len(q) <= QueueSize, NEW a \in Contents
    PROVE  /\ Enqueue(q, a) \in Seq(Contents) /\ Len(Enqueue(q, a)) <= QueueSize
           /\ \E d \in {0, 1} :
                 /\ d <= Len(q) /\ Len(Enqueue(q, a)) = Len(q) + 1 - d
                 /\ Enqueue(q, a)[Len(q) + 1 - d] = a
                 /\ \A p \in 1 .. Len(q) - d : Enqueue(q, a)[p] = q[p + d]
<1>0. Len(q) \in Nat /\ QueueSize \in Nat /\ QueueSize > 0
    BY BoundAssumption
<1>1. CASE Len(q) < QueueSize
    <2>1. Enqueue(q, a) = Append(q, a)
        BY <1>1 DEF Enqueue
    <2>2. /\ Append(q, a) \in Seq(Contents) /\ Len(Append(q, a)) = Len(q) + 1
          /\ Append(q, a)[Len(q) + 1] = a
          /\ \A p \in 1 .. Len(q) : Append(q, a)[p] = q[p]
        OBVIOUS
    <2> QED BY <1>0, <1>1, <2>1, <2>2
<1>2. CASE ~(Len(q) < QueueSize)
    <2> DEFINE r == Tail(q)
    <2>1. Enqueue(q, a) = Append(r, a) /\ q # <<>> /\ Len(q) > 0 /\ Len(q) = QueueSize
        BY <1>0, <1>2 DEF Enqueue
    <2>2. /\ r \in Seq(Contents) /\ Len(r) = Len(q) - 1
          /\ \A p \in 1 .. Len(q) - 1 : r[p] = q[p + 1]
        BY <2>1, HeadTailProperties
    <2> HIDE DEF r
    <2>3. /\ Append(r, a) \in Seq(Contents) /\ Len(Append(r, a)) = Len(r) + 1
          /\ Append(r, a)[Len(r) + 1] = a
          /\ \A p \in 1 .. Len(r) : Append(r, a)[p] = r[p]
        BY <2>2
    <2>4. Len(r) + 1 = Len(q) /\ Len(q) + 1 - 1 = Len(q)
        BY <1>0, <2>2
    <2> QED BY <1>0, <2>1, <2>2, <2>3, <2>4
<1> QED BY <1>1, <1>2

-----------------------------------------------------------------------------
(* The life of the server and of its threads. *)

LEMMA InitLife == Init => LifeInv
<1> SUFFICES ASSUME Init PROVE LifeInv
    OBVIOUS
<1>1. freed \in [Threads -> 0 .. 2] /\ perSnap \in [Threads -> Contents]
    BY NoDataType DEF Init
<1>2. <<>> \in Seq(Contents) /\ Len(<<>>) <= QueueSize
    BY BoundAssumption
<1>3. /\ ver \in [IOAs -> Nat] /\ \A i \in IOAs : ver[i] <= MaxVer[i]
      /\ confirmed \in [IOAs -> Nat]
    BY BoundAssumption DEF Init
<1>4. /\ masSnap \in [Masters -> Contents]
      /\ command \in [Masters -> [ioa : IOAs \cup {0}, ver : Nat]]
      /\ asked \in [Masters -> [points : SUBSET IOAs, confirmed : [IOAs -> Nat]]]
    BY NoDataType DEF Init, NoCommand, NotAsked
<1>5. dying \in BOOLEAN /\ running \in BOOLEAN
    BY Zenon DEF Init
<1>6. TypeOK
    BY <1>1, <1>2, <1>3, <1>4, <1>5, NoDataType, BoundAssumption DEF Init, TypeOK
<1>7. OwnerInv /\ FreedInv
    BY BoundAssumption DEF Init, OwnerInv, FreedInv, Kept, Threads
<1> QED BY <1>6, <1>7 DEF LifeInv

(* start(), stop() and the destructor. *)
LEMMA OwnerLife ==
    ASSUME LifeInv, Start \/ Stop \/ DestructStopped \/ OwnerStep
    PROVE  LifeInv'
<1> USE BoundAssumption DEF LifeInv, life, perVars, data, masVars
<1>1. CASE Start
    BY <1>1 DEF Start, TypeOK, OwnerInv, FreedInv, Kept
<1>2. CASE Stop
    <2>1. dying' \in BOOLEAN /\ running' \in BOOLEAN
        BY <1>2, Zenon DEF Stop, TypeOK
    <2> QED BY <1>2, <2>1 DEF Stop, TypeOK, OwnerInv, FreedInv, Kept
<1>3. CASE DestructStopped
    BY <1>3 DEF DestructStopped, TypeOK, OwnerInv, FreedInv, Kept
<1>4. CASE StartThread
    <2>1. starts + 1 \in Threads /\ starts \in Nat /\ handle \in Nat /\ handle <= starts
        BY <1>4 DEF StartThread, TypeOK, OwnerInv, Threads
    <2>2. TypeOK'
        BY <1>4, <2>1 DEF StartThread, TypeOK, Threads
    <2>3. OwnerInv'
        BY <1>4, <2>1 DEF StartThread, TypeOK, OwnerInv, Threads
    <2>4. \A t \in Threads : t \in Kept' => t \in Kept
        BY <1>4, <2>1 DEF StartThread, Kept, Threads
    <2>5. \A t \in Threads : per'[t] = "ended" <=> per[t] = "ended"
        <3>1. per[starts + 1] = "none"
            BY <2>1 DEF OwnerInv
        <3>2. /\ per \in [Threads -> {"none", "while", "snapshot", "send", "sleep", "ended"}]
              /\ per' = [per EXCEPT ![starts + 1] = "while"]
            BY <1>4 DEF StartThread, TypeOK
        <3> QED BY <2>1, <3>1, <3>2
    <2>6. FreedInv'
        BY <1>4, <2>4, <2>5 DEF StartThread, FreedInv
    <2> QED BY <2>2, <2>3, <2>6
<1>5. CASE StartThreadFails
    <2>1. TypeOK' /\ OwnerInv'
        BY <1>5 DEF StartThreadFails, TypeOK, OwnerInv
    <2>2. \A t \in Threads : t \in Kept' => t \in Kept
        BY <1>5 DEF StartThreadFails, Kept, Threads
    <2>3. FreedInv'
        BY <1>5, <2>2 DEF StartThreadFails, FreedInv
    <2> QED BY <2>1, <2>3
<1>6. CASE StartFailed
    BY <1>6 DEF StartFailed, TypeOK, OwnerInv, FreedInv, Kept
<1>7. CASE StopThread
    <2>1. /\ freed' = [freed EXCEPT ![handle] = @ + 1] /\ handle' = 0 /\ owner' = "stopSlave"
          /\ UNCHANGED <<dying, starts, running, slave, per, perSnap, data, queue, delivered,
                         masVars, confirmed>>
        BY <1>7 DEF StopThread
    <2>0. freed \in [Threads -> 0 .. 2]
        BY DEF TypeOK
    <2>2. starts \in 0 .. MaxStarts /\ handle \in 0 .. MaxStarts /\ handle <= starts
        BY DEF TypeOK, OwnerInv
    <2>3. \A t \in Threads : freed'[t] = IF t = handle THEN freed[t] + 1 ELSE freed[t]
        BY <2>1 DEF TypeOK
    <2>4. FreedInv'
        <3>1. handle \in Threads => handle \in Kept
            BY DEF Kept
        <3>2. \A t \in Threads : t # handle /\ t \in Kept' => t \in Kept
            BY <2>1, <2>2 DEF Kept, Threads
        <3>3. handle \notin Kept'
            BY <2>1, <2>2 DEF Kept, Threads
        <3>4. \A t \in Threads : freed[t] \in Nat
            BY <2>0
        <3> QED BY <2>1, <2>3, <3>1, <3>2, <3>3, <3>4 DEF FreedInv
    <2>5. freed' \in [Threads -> 0 .. 2]
        <3>1. \A t \in Threads : freed[t] \in 0 .. 2 /\ (t = handle => freed[t] <= 1)
            BY <2>0 DEF FreedInv, Kept
        <3>2. \A t \in Threads : freed'[t] \in 0 .. 2
            BY <2>3, <3>1
        <3>3. freed' = [t \in Threads |-> freed'[t]]
            BY <2>0, <2>1
        <3> QED BY <3>2, <3>3
    <2>6. TypeOK'
        BY <2>1, <2>5 DEF TypeOK
    <2>7. OwnerInv'
        BY <2>1, <2>2 DEF OwnerInv
    <2> QED BY <2>4, <2>6, <2>7
<1>8. CASE StopSlave
    BY <1>8 DEF StopSlave, TypeOK, OwnerInv, FreedInv, Kept
<1>9. CASE StopWait
    BY <1>9 DEF StopWait, TypeOK, OwnerInv, FreedInv, Kept
<1>10. CASE SlaveDestroy
    BY <1>10 DEF SlaveDestroy, TypeOK, OwnerInv, FreedInv, Kept
<1> QED
    BY <1>1, <1>2, <1>3, <1>4, <1>5, <1>6, <1>7, <1>8, <1>9, <1>10 DEF OwnerStep

(* periodicSendTask. *)
LEMMA PeriodicLife ==
    ASSUME LifeInv, NEW t \in Threads, PeriodicStep(t)
    PROVE  LifeInv'
<1> USE BoundAssumption DEF LifeInv, life, data, masVars
<1>0. t \in Nat /\ (per[t] # "none" => t <= starts) /\ starts \in Nat
    BY DEF OwnerInv, TypeOK, Threads
<1>1. CASE PerWhile(t)
    <2>1. CASE running
        BY <1>1, <2>1 DEF PerWhile, TypeOK, OwnerInv, FreedInv, Kept, Threads
    <2>2. CASE ~running
        <3>1. /\ per' = [per EXCEPT ![t] = "ended"] /\ freed' = [freed EXCEPT ![t] = @ + 1]
              /\ UNCHANGED <<life, perSnap, data, queue, delivered, masVars, confirmed>>
              /\ per[t] = "while"
            BY <1>1, <2>2 DEF PerWhile
        <3>2. freed[t] \in 0 .. 2 /\ freed[t] <= 1
            BY <3>1 DEF TypeOK, FreedInv
        <3>3. TypeOK'
            BY <3>1, <3>2 DEF TypeOK
        <3>4. OwnerInv'
            BY <1>0, <3>1 DEF TypeOK, OwnerInv, Threads
        <3>5. FreedInv'
            <4>1. Kept' = Kept
                BY <3>1 DEF Kept
            <4>2. freed'[t] = freed[t] + 1 /\ per'[t] = "ended"
                BY <3>1 DEF TypeOK
            <4>3. \A u \in Threads \ {t} : freed'[u] = freed[u] /\ per'[u] = per[u]
                BY <3>1 DEF TypeOK
            <4>4. t \in Kept => freed[t] = 0
                BY <3>1 DEF FreedInv
            <4> QED BY <3>2, <4>1, <4>2, <4>3, <4>4 DEF FreedInv
        <3> QED BY <3>3, <3>4, <3>5
    <2> QED BY <2>1, <2>2
<1>2. CASE PerSnapshot(t)
    <2>1. Snapshot \in Contents
        BY SnapshotType
    <2> HIDE DEF Snapshot
    <2>2. TypeOK'
        BY <1>2, <2>1 DEF PerSnapshot, TypeOK
    <2>3. OwnerInv' /\ FreedInv'
        BY <1>0, <1>2 DEF PerSnapshot, TypeOK, OwnerInv, FreedInv, Kept, Threads
    <2> QED BY <2>2, <2>3
<1>3. CASE PerSend(t)
    <2>1. perSnap[t] \in Contents /\ queue \in Seq(Contents) /\ Len(queue) <= QueueSize
        BY DEF TypeOK
    <2>2. queue' \in Seq(Contents) /\ Len(queue') <= QueueSize
        <3>1. Asdu(perSnap[t]) \in Contents
            BY <2>1, AsduType
        <3> QED BY <1>3, <2>1, <3>1, EnqueueShape DEF PerSend
    <2>3. TypeOK'
        BY <1>3, <2>2, NoDataType DEF PerSend, TypeOK
    <2>4. OwnerInv' /\ FreedInv'
        BY <1>0, <1>3 DEF PerSend, TypeOK, OwnerInv, FreedInv, Kept, Threads
    <2> QED BY <2>3, <2>4
<1>4. CASE PerSleep(t)
    BY <1>0, <1>4 DEF PerSleep, TypeOK, OwnerInv, FreedInv, Kept, Threads
<1> QED BY <1>1, <1>2, <1>3, <1>4 DEF PeriodicStep

(* A write takes one version further. *)
LEMMA WriteStep ==
    ASSUME TypeOK, NEW i \in IOAs, Write(i)
    PROVE  /\ ver' \in [IOAs -> Nat]
           /\ \A j \in IOAs : ver[j] <= ver'[j] /\ ver'[j] <= MaxVer[j]
<1>1. ver \in [IOAs -> Nat] /\ \A j \in IOAs : ver[j] <= MaxVer[j]
    BY DEF TypeOK
<1>2. ver[i] < MaxVer[i] /\ ver' = [ver EXCEPT ![i] = ver[i] + 1] /\ ver[i] + 1 \in Nat
    BY <1>1 DEF Write
<1>3. ver' \in [IOAs -> Nat] /\ ver'[i] = ver[i] + 1 /\ \A j \in IOAs \ {i} : ver'[j] = ver[j]
    BY <1>1, <1>2
<1>4. ver[i] <= ver'[i] /\ ver'[i] <= MaxVer[i]
    BY <1>1, <1>2, <1>3, BoundAssumption
<1> QED BY <1>1, <1>3, <1>4

(* The application, and the slave that empties its queue. *)
LEMMA DataLife ==
    ASSUME LifeInv, (\E i \in IOAs : addDataPoint(i) \/ updateDataPoint(i)) \/ Deliver
    PROVE  LifeInv'
<1> USE DEF LifeInv, life, perVars, data, masVars
<1>1. ASSUME NEW i \in IOAs, addDataPoint(i) \/ updateDataPoint(i) PROVE LifeInv'
    <2>1. /\ Write(i) /\ points' \subseteq IOAs
          /\ UNCHANGED <<life, perVars, queue, delivered, masVars, confirmed>>
        BY <1>1 DEF addDataPoint, updateDataPoint, TypeOK
    <2>2. ver' \in [IOAs -> Nat] /\ \A j \in IOAs : ver'[j] <= MaxVer[j]
        BY <2>1, WriteStep
    <2> QED BY <2>1, <2>2 DEF TypeOK, OwnerInv, FreedInv, Kept
<1>2. CASE Deliver
    <2>1. /\ queue \in Seq(Contents) /\ queue # <<>> /\ Len(queue) <= QueueSize
          /\ delivered' = Head(queue) /\ queue' = Tail(queue)
          /\ UNCHANGED <<life, perVars, data, masVars, confirmed>>
        BY <1>2 DEF Deliver, TypeOK
    <2>2. /\ delivered' \in Contents /\ queue' \in Seq(Contents)
          /\ Len(queue') = Len(queue) - 1 /\ Len(queue) \in Nat
        BY <2>1, HeadTailProperties
    <2>3. Len(queue') <= QueueSize
        BY <2>1, <2>2, BoundAssumption
    <2> QED BY <2>1, <2>2, <2>3 DEF TypeOK, OwnerInv, FreedInv, Kept
<1> QED BY <1>1, <1>2

(* The handlers called for a master. *)
MasterStep(m) ==
    \/ Interrogation(m) \/ InterrogationRefused(m)
    \/ CommandNoElement(m) \/ CommandUnknownCot(m)
    \/ \E i \in IOAs : Command(m, i)
    \/ HandlerStep(m)

LEMMA MasterLife ==
    ASSUME LifeInv, NEW m \in Masters, MasterStep(m)
    PROVE  LifeInv'
<1> USE DEF LifeInv, life, perVars, data, Handle, Answer
<1>0. /\ mas \in [Masters -> {"idle", "snapshot", "send", "term", "confirm"}]
      /\ masSnap \in [Masters -> Contents]
      /\ command \in [Masters -> [ioa : IOAs \cup {0}, ver : Nat]]
      /\ asked \in [Masters -> [points : SUBSET IOAs, confirmed : [IOAs -> Nat]]]
      /\ ver \in [IOAs -> Nat] /\ confirmed \in [IOAs -> Nat] /\ points \subseteq IOAs
    BY DEF TypeOK
<1>1. CASE Interrogation(m)
    BY <1>1 DEF Interrogation, TypeOK, OwnerInv, FreedInv, Kept
<1>2. CASE InterrogationRefused(m) \/ CommandNoElement(m) \/ CommandUnknownCot(m)
    BY <1>2 DEF InterrogationRefused, CommandNoElement, CommandUnknownCot, TypeOK, OwnerInv,
                FreedInv, Kept
<1>3. ASSUME NEW i \in IOAs, Command(m, i) PROVE LifeInv'
    <2>1. ver' \in [IOAs -> Nat] /\ \A j \in IOAs : ver'[j] <= MaxVer[j]
        <3>1. Write(i) \/ ver' = ver
            BY <1>3 DEF Command
        <3> QED BY <3>1, WriteStep DEF TypeOK
    <2>2. command' \in [Masters -> [ioa : IOAs \cup {0}, ver : Nat]]
        BY <1>0, <1>3, <2>1 DEF Command
    <2>3. /\ mas' = [mas EXCEPT ![m] = "confirm"]
          /\ UNCHANGED <<life, perVars, points, queue, delivered, masSnap, answer, asked,
                         confirmed>>
        BY <1>3 DEF Command
    <2> QED BY <1>0, <2>1, <2>2, <2>3 DEF TypeOK, OwnerInv, FreedInv, Kept
<1>4. CASE InterrogationSnapshot(m)
    <2>1. Snapshot \in Contents
        BY SnapshotType
    <2> QED BY <1>0, <1>4, <2>1 DEF InterrogationSnapshot, TypeOK, OwnerInv, FreedInv, Kept
<1>5. CASE InterrogationSend(m)
    <2>1. Asdu(masSnap[m]) \in Contents
        BY <1>0, AsduType
    <2> QED BY <1>0, <1>5, <2>1 DEF InterrogationSend, TypeOK, OwnerInv, FreedInv, Kept
<1>6. CASE InterrogationTerm(m)
    <2>1. NotAsked \in [points : SUBSET IOAs, confirmed : [IOAs -> Nat]]
        BY DEF NotAsked
    <2> QED BY <1>0, <1>6, <2>1, NoDataType
            DEF InterrogationTerm, TypeOK, OwnerInv, FreedInv, Kept
<1>7. CASE CommandConfirm(m)
    <2>1. NoCommand \in [ioa : IOAs \cup {0}, ver : Nat]
        BY DEF NoCommand
    <2>2. confirmed' \in [IOAs -> Nat]
        <3>1. ASSUME NEW a \in Nat, NEW b \in Nat PROVE Max({a, b}) \in Nat
            BY DEF Max
        <3>2. command[m].ver \in Nat
            BY <1>0
        <3> QED BY <1>0, <1>7, <3>1, <3>2 DEF CommandConfirm
    <2> QED BY <1>0, <1>7, <2>1, <2>2 DEF CommandConfirm, TypeOK, OwnerInv, FreedInv, Kept
<1> QED
    BY <1>1, <1>2, <1>3, <1>4, <1>5, <1>6, <1>7 DEF MasterStep, HandlerStep

LEMMA NextLife == LifeInv /\ [Next]_vars => LifeInv'
<1> SUFFICES ASSUME LifeInv, [Next]_vars PROVE LifeInv'
    OBVIOUS
<1>1. CASE UNCHANGED vars
    BY <1>1 DEF vars, life, perVars, data, masVars, LifeInv, TypeOK, OwnerInv, FreedInv, Kept
<1> QED BY <1>1, OwnerLife, PeriodicLife, DataLife, MasterLife DEF Next, MasterStep

(* The variables keep their types: the queue its limit, and the structure  *)
(* of a thread is freed at most twice.                                     *)
THEOREM TypeCorrect == Spec => []TypeOK
<1>1. Spec => []LifeInv
    BY InitLife, NextLife, PTL DEF Spec
<1>2. LifeInv => TypeOK
    BY DEF LifeInv
<1> QED BY <1>1, <1>2, PTL

-----------------------------------------------------------------------------
(* What the owner and the periodic threads leave alone. *)

LEMMA OwnerFrame ==
    ASSUME LifeInv, Start \/ Stop \/ DestructStopped \/ OwnerStep
    PROVE  /\ UNCHANGED <<points, ver, mas, masSnap, command, asked, confirmed, perSnap, queue,
                          delivered>>
           /\ starts \in Nat /\ starts' \in Nat /\ starts <= starts'
<1>1. UNCHANGED <<points, ver, mas, masSnap, command, asked, confirmed, perSnap, queue,
                  delivered>>
    BY DEF Start, Stop, DestructStopped, OwnerStep, StartThread, StartThreadFails, StartFailed,
           StopThread, StopSlave, StopWait, SlaveDestroy, perVars, data, masVars
<1>2. starts' = starts \/ starts' = starts + 1
    BY DEF Start, Stop, DestructStopped, OwnerStep, StartThread, StartThreadFails, StartFailed,
           StopThread, StopSlave, StopWait, SlaveDestroy
<1>3. starts \in Nat
    BY BoundAssumption DEF LifeInv, TypeOK
<1> QED BY <1>1, <1>2, <1>3

LEMMA PeriodicFrame ==
    ASSUME NEW t, PeriodicStep(t)
    PROVE  UNCHANGED <<points, ver, mas, masSnap, command, asked, confirmed, starts, delivered>>
BY DEF PeriodicStep, PerWhile, PerSnapshot, PerSend, PerSleep, life, data, masVars

-----------------------------------------------------------------------------
(* Freshness. *)

(* A handler keeps the answers fresh. *)
LEMMA MasterFresh ==
    ASSUME LifeInv, FreshInv, NEW m \in Masters, MasterStep(m)
    PROVE  FreshInv'
<1> USE DEF Handle, data
<1>0. /\ mas \in [Masters -> {"idle", "snapshot", "send", "term", "confirm"}]
      /\ masSnap \in [Masters -> Contents]
      /\ command \in [Masters -> [ioa : IOAs \cup {0}, ver : Nat]]
      /\ asked \in [Masters -> [points : SUBSET IOAs, confirmed : [IOAs -> Nat]]]
      /\ ver \in [IOAs -> Nat] /\ confirmed \in [IOAs -> Nat] /\ points \subseteq IOAs
    BY DEF LifeInv, TypeOK
<1>1. CASE Interrogation(m)
    BY <1>0, <1>1 DEF Interrogation, FreshInv
<1>2. CASE InterrogationRefused(m) \/ CommandNoElement(m) \/ CommandUnknownCot(m)
    BY <1>0, <1>2 DEF InterrogationRefused, CommandNoElement, CommandUnknownCot, FreshInv
<1>3. ASSUME NEW i \in IOAs, Command(m, i) PROVE FreshInv'
    <2>1. ver' \in [IOAs -> Nat] /\ \A j \in IOAs : ver[j] <= ver'[j]
        <3>1. Write(i) \/ ver' = ver
            BY <1>3 DEF Command
        <3> QED BY <1>0, <3>1, WriteStep DEF LifeInv
    <2>2. /\ UNCHANGED <<masSnap, asked, confirmed>>
          /\ command' = [command EXCEPT ![m] = [ioa |-> i, ver |-> ver'[i]]]
          /\ mas' = [mas EXCEPT ![m] = "confirm"]
        BY <1>3 DEF Command
    <2>3. \A j \in IOAs : confirmed'[j] <= ver'[j]
        BY <1>0, <2>1, <2>2 DEF FreshInv
    <2>4. ASSUME NEW n \in Masters
          PROVE  command'[n].ioa \in IOAs => command'[n].ver <= ver'[command'[n].ioa]
        <3>1. CASE n = m
            BY <1>0, <2>1, <2>2, <3>1
        <3>2. CASE n # m
            <4>1. command'[n] = command[n] /\ command[n].ver \in Nat
                BY <1>0, <2>2, <3>2
            <4> QED BY <1>0, <2>1, <4>1 DEF FreshInv
        <3> QED BY <3>1, <3>2
    <2>5. ASSUME NEW n \in Masters, NEW j \in IOAs PROVE asked'[n].confirmed[j] <= ver'[j]
        <3>1. asked[n].confirmed[j] \in Nat /\ asked[n].confirmed[j] <= ver[j]
            BY <1>0 DEF FreshInv
        <3> QED BY <1>0, <2>1, <2>2, <3>1
    <2>6. ASSUME NEW n \in Masters, mas'[n] \in {"send", "term"}
          PROVE  \A j \in DOMAIN masSnap'[n] : asked'[n].confirmed[j] <= masSnap'[n][j]
        BY <1>0, <2>2, <2>6 DEF FreshInv
    <2> QED BY <2>3, <2>4, <2>5, <2>6 DEF FreshInv
<1>4. CASE InterrogationSnapshot(m)
    <2>1. \A j \in DOMAIN Snapshot : asked[m].confirmed[j] <= Snapshot[j]
        BY <1>0 DEF Snapshot, FreshInv
    <2>2. /\ UNCHANGED <<ver, command, asked, confirmed>>
          /\ mas' = [mas EXCEPT ![m] = "send"] /\ masSnap' = [masSnap EXCEPT ![m] = Snapshot]
        BY <1>4 DEF InterrogationSnapshot
    <2> HIDE DEF Snapshot
    <2> QED BY <1>0, <2>1, <2>2 DEF FreshInv
<1>5. CASE InterrogationSend(m)
    <2> DEFINE sent == IF masSnap[m] = NoData THEN masSnap[m] ELSE Asdu(masSnap[m])
    <2>1. /\ UNCHANGED <<ver, command, asked, confirmed>> /\ mas[m] = "send"
          /\ mas' = [mas EXCEPT ![m] = "term"] /\ masSnap' = [masSnap EXCEPT ![m] = sent]
        BY <1>0, <1>5 DEF InterrogationSend
    <2>2. \A j \in DOMAIN sent : j \in DOMAIN masSnap[m] /\ sent[j] = masSnap[m][j]
        BY AsduPart
    <2> HIDE DEF sent
    <2>3. \A j \in DOMAIN sent : asked[m].confirmed[j] <= sent[j]
        BY <2>1, <2>2 DEF FreshInv
    <2> QED BY <1>0, <2>1, <2>3 DEF FreshInv
<1>6. CASE InterrogationTerm(m)
    <2>1. /\ UNCHANGED <<ver, command, confirmed>> /\ mas' = [mas EXCEPT ![m] = "idle"]
          /\ masSnap' = [masSnap EXCEPT ![m] = NoData]
          /\ asked' = [asked EXCEPT ![m] = NotAsked]
        BY <1>6 DEF InterrogationTerm
    <2>2. \A j \in IOAs : NotAsked.confirmed[j] <= ver[j]
        BY <1>0 DEF NotAsked
    <2> QED BY <1>0, <2>1, <2>2 DEF FreshInv
<1>7. CASE CommandConfirm(m)
    <2> DEFINE a == command[m].ioa  v == command[m].ver
    <2>1. /\ UNCHANGED <<ver, masSnap, asked, points>> /\ mas' = [mas EXCEPT ![m] = "idle"]
          /\ command' = [command EXCEPT ![m] = NoCommand]
        BY <1>7 DEF CommandConfirm
    <2>2. \A j \in IOAs : confirmed'[j] <= ver[j]
        <3>1. CASE a \notin points \cap Single
            <4>1. confirmed' = confirmed
                BY <1>7, <3>1 DEF CommandConfirm
            <4> QED BY <4>1 DEF FreshInv
        <3>2. CASE a \in points \cap Single
            <4>1. a \in IOAs /\ v \in Nat /\ v <= ver[a] /\ confirmed[a] <= ver[a]
                BY <1>0, <3>2 DEF FreshInv
            <4>2. confirmed' = [confirmed EXCEPT ![a] = Max({confirmed[a], v})]
                BY <1>7, <3>2 DEF CommandConfirm
            <4>3. Max({confirmed[a], v}) \in {confirmed[a], v}
                <5>1. ASSUME NEW x \in Nat, NEW y \in Nat PROVE Max({x, y}) \in {x, y}
                    BY DEF Max
                <5> QED BY <1>0, <4>1, <5>1
            <4> QED BY <1>0, <4>1, <4>2, <4>3 DEF FreshInv
        <3> QED BY <3>1, <3>2
    <2>3. NoCommand.ioa \in IOAs => NoCommand.ver <= ver[NoCommand.ioa]
        BY <1>0 DEF NoCommand
    <2> QED BY <1>0, <2>1, <2>2, <2>3 DEF FreshInv
<1> QED
    BY <1>1, <1>2, <1>3, <1>4, <1>5, <1>6, <1>7 DEF MasterStep, HandlerStep

LEMMA NextFresh == LifeInv /\ FreshInv /\ [Next]_vars => FreshInv'
<1> SUFFICES ASSUME LifeInv, FreshInv, [Next]_vars PROVE FreshInv'
    OBVIOUS
<1>1. CASE UNCHANGED <<ver, mas, masSnap, command, asked, confirmed>>
    BY <1>1 DEF FreshInv
<1>2. CASE Start \/ Stop \/ DestructStopped \/ OwnerStep
    BY <1>1, <1>2, OwnerFrame
<1>3. CASE \E t \in Threads : PeriodicStep(t)
    BY <1>1, <1>3, PeriodicFrame
<1>4. CASE Deliver \/ UNCHANGED vars
    BY <1>1, <1>4 DEF Deliver, vars, data, masVars
<1>5. ASSUME NEW i \in IOAs, addDataPoint(i) \/ updateDataPoint(i) PROVE FreshInv'
    <2>1. Write(i) /\ UNCHANGED <<mas, masSnap, command, asked, confirmed>>
        BY <1>5 DEF addDataPoint, updateDataPoint, masVars
    <2>2. ver' \in [IOAs -> Nat] /\ \A j \in IOAs : ver[j] <= ver'[j]
        BY <2>1, WriteStep DEF LifeInv
    <2>3. /\ ver \in [IOAs -> Nat] /\ confirmed \in [IOAs -> Nat]
          /\ command \in [Masters -> [ioa : IOAs \cup {0}, ver : Nat]]
          /\ asked \in [Masters -> [points : SUBSET IOAs, confirmed : [IOAs -> Nat]]]
        BY DEF LifeInv, TypeOK
    <2>4. \A j \in IOAs : confirmed[j] <= ver'[j]
        BY <2>2, <2>3 DEF FreshInv
    <2>5. ASSUME NEW m \in Masters, command[m].ioa \in IOAs
          PROVE  command[m].ver <= ver'[command[m].ioa]
        <3>1. command[m].ver \in Nat /\ command[m].ver <= ver[command[m].ioa]
            BY <2>3, <2>5 DEF FreshInv
        <3> QED BY <2>2, <2>3, <2>5, <3>1
    <2>6. ASSUME NEW m \in Masters, NEW j \in IOAs PROVE asked[m].confirmed[j] <= ver'[j]
        <3>1. asked[m].confirmed[j] \in Nat /\ asked[m].confirmed[j] <= ver[j]
            BY <2>3 DEF FreshInv
        <3> QED BY <2>2, <2>3, <3>1
    <2> QED BY <2>1, <2>4, <2>5, <2>6 DEF FreshInv
<1> QED
    BY <1>2, <1>3, <1>4, <1>5, MasterFresh DEF Next, MasterStep

-----------------------------------------------------------------------------
(* Completeness. *)

(* Points that are of one type and fit were so before others were added. *)
LEMMA UniformBefore ==
    ASSUME CompleteInv, points \subseteq points', IsFiniteSet(points'), Uniform'
    PROVE  Uniform
<1>1. \A i, j \in points : Kind(i) = Kind(j)
    BY DEF Uniform, Kind
<1>2. Cardinality(points) <= Cardinality(points') /\ Cardinality(points') <= Capacity
    BY FS_Subset DEF Uniform
<1>3. Cardinality(points) \in Nat /\ Cardinality(points') \in Nat /\ Capacity \in Nat
    BY FS_CardinalityType, BoundAssumption DEF CompleteInv
<1> QED BY <1>1, <1>2, <1>3 DEF Uniform

(* The copy of an interrogation is sent whole, if the points are uniform. *)
LEMMA SentWhole ==
    ASSUME LifeInv, CompleteInv, Uniform, NEW m \in Masters, mas[m] = "send",
           masSnap[m] # NoData
    PROVE  DOMAIN Asdu(masSnap[m]) = DOMAIN masSnap[m]
<1> DEFINE S == DOMAIN masSnap[m]
<1>0. S \subseteq points /\ points \subseteq Nat /\ masSnap[m] \in [S -> Versions]
    BY CopyDomain, PointAssumption DEF LifeInv, TypeOK, CompleteInv
<1>1. S # {}
    <2> SUFFICES ASSUME S = {} PROVE FALSE
        OBVIOUS
    <2>1. masSnap[m] \in [{} -> Versions] /\ NoData \in [{} -> Versions]
        BY <1>0 DEF NoData
    <2> QED BY <2>1
<1>2. /\ IsFiniteSet(S) /\ Cardinality(S) <= Cardinality(points)
      /\ IsFiniteSet(points) /\ Cardinality(points) <= Capacity
    BY <1>0, FS_Subset DEF CompleteInv, Uniform
<1>3. Cardinality(S) <= Capacity
    <2>1. Cardinality(S) \in Nat /\ Cardinality(points) \in Nat /\ Capacity \in Nat
        BY <1>2, FS_CardinalityType, BoundAssumption
    <2> QED BY <1>2, <2>1
<1>4. \A i, j \in S : Kind(i) = Kind(j)
    BY <1>0 DEF Uniform
<1> QED BY <1>0, <1>1, <1>2, <1>3, <1>4, AsduComplete

LEMMA MasterComplete ==
    ASSUME LifeInv, CompleteInv, NEW m \in Masters, MasterStep(m)
    PROVE  CompleteInv'
<1> USE DEF Handle, data
<1>0. /\ mas \in [Masters -> {"idle", "snapshot", "send", "term", "confirm"}]
      /\ masSnap \in [Masters -> Contents]
      /\ asked \in [Masters -> [points : SUBSET IOAs, confirmed : [IOAs -> Nat]]]
      /\ points \subseteq IOAs
    BY DEF LifeInv, TypeOK
<1>1. points' = points
    BY DEF MasterStep, HandlerStep, Interrogation, InterrogationRefused, CommandNoElement,
           CommandUnknownCot, Command, InterrogationSnapshot, InterrogationSend,
           InterrogationTerm, CommandConfirm
<1>2. (Uniform' <=> Uniform) /\ IsFiniteSet(points')
    BY <1>1 DEF Uniform, CompleteInv
<1>3. CASE Interrogation(m)
    BY <1>0, <1>1, <1>2, <1>3 DEF Interrogation, CompleteInv
<1>4. CASE \/ InterrogationRefused(m) \/ CommandNoElement(m) \/ CommandUnknownCot(m)
           \/ CommandConfirm(m) \/ \E i \in IOAs : Command(m, i)
    <2>1. UNCHANGED <<masSnap, asked>> /\ \E pc \in {"idle", "confirm"} : mas' = [mas EXCEPT ![m] = pc]
        BY <1>4 DEF InterrogationRefused, CommandNoElement, CommandUnknownCot, CommandConfirm,
                    Command
    <2> QED BY <1>0, <1>1, <1>2, <2>1 DEF CompleteInv
<1>5. CASE InterrogationSnapshot(m)
    <2>1. /\ UNCHANGED asked /\ mas' = [mas EXCEPT ![m] = "send"]
          /\ masSnap' = [masSnap EXCEPT ![m] = Snapshot]
        BY <1>5 DEF InterrogationSnapshot
    <2>2. DOMAIN Snapshot = points
        BY DEF Snapshot
    <2> HIDE DEF Snapshot
    <2> QED BY <1>0, <1>1, <1>2, <2>1, <2>2 DEF CompleteInv
<1>6. CASE InterrogationSend(m)
    <2> DEFINE sent == IF masSnap[m] = NoData THEN masSnap[m] ELSE Asdu(masSnap[m])
    <2>1. /\ UNCHANGED asked /\ mas[m] = "send"
          /\ mas' = [mas EXCEPT ![m] = "term"] /\ masSnap' = [masSnap EXCEPT ![m] = sent]
        BY <1>0, <1>6 DEF InterrogationSend
    <2>2. Uniform => DOMAIN sent = DOMAIN masSnap[m]
        BY <2>1, SentWhole
    <2> HIDE DEF sent
    <2> QED BY <1>0, <1>1, <1>2, <2>1, <2>2 DEF CompleteInv
<1>7. CASE InterrogationTerm(m)
    <2>1. /\ mas' = [mas EXCEPT ![m] = "idle"] /\ masSnap' = [masSnap EXCEPT ![m] = NoData]
          /\ asked' = [asked EXCEPT ![m] = NotAsked]
        BY <1>7 DEF InterrogationTerm
    <2>2. NotAsked.points = {}
        BY DEF NotAsked
    <2> QED BY <1>0, <1>1, <1>2, <2>1, <2>2 DEF CompleteInv
<1> QED
    BY <1>3, <1>4, <1>5, <1>6, <1>7 DEF MasterStep, HandlerStep

LEMMA NextComplete == LifeInv /\ CompleteInv /\ [Next]_vars => CompleteInv'
<1> SUFFICES ASSUME LifeInv, CompleteInv, [Next]_vars PROVE CompleteInv'
    OBVIOUS
<1>1. CASE UNCHANGED <<points, mas, masSnap, asked>>
    <2>1. Uniform' <=> Uniform
        BY <1>1 DEF Uniform
    <2> QED BY <1>1, <2>1 DEF CompleteInv
<1>2. CASE Start \/ Stop \/ DestructStopped \/ OwnerStep
    BY <1>1, <1>2, OwnerFrame
<1>3. CASE \E t \in Threads : PeriodicStep(t)
    BY <1>1, <1>3, PeriodicFrame
<1>4. CASE Deliver \/ UNCHANGED vars
    BY <1>1, <1>4 DEF Deliver, vars, data, masVars
<1>5. ASSUME NEW i \in IOAs, addDataPoint(i) PROVE CompleteInv'
    <2>1. points' = points \cup {i} /\ UNCHANGED <<mas, masSnap, asked>>
        BY <1>5 DEF addDataPoint, masVars
    <2>2. IsFiniteSet(points')
        BY <2>1, FS_AddElement DEF CompleteInv
    <2>3. Uniform' => Uniform
        BY <2>1, <2>2, UniformBefore
    <2> QED BY <2>1, <2>2, <2>3 DEF CompleteInv
<1>6. ASSUME NEW i \in IOAs, updateDataPoint(i) PROVE CompleteInv'
    BY <1>1, <1>6 DEF updateDataPoint, masVars
<1> QED
    BY <1>2, <1>3, <1>4, <1>5, <1>6, MasterComplete DEF Next, MasterStep

-----------------------------------------------------------------------------
(* The order of the periodic ASDUs. *)

LEMMA PastGrows ==
    ASSUME NEW c \in Contents, NEW v \in [IOAs -> Nat], NEW w \in [IOAs -> Nat],
           Past(c, v), \A i \in IOAs : v[i] <= w[i]
    PROVE  Past(c, w)
<1>1. ASSUME NEW i \in DOMAIN c PROVE i \in IOAs /\ c[i] \in Nat /\ c[i] <= v[i]
    BY CopyDomain, VersionsNat DEF Past
<1> QED BY <1>1 DEF Past

LEMMA AsduOrder ==
    ASSUME NEW c
    PROVE  /\ \A v : Past(c, v) => Past(Asdu(c), v)
           /\ \A a : NotAfter(a, c) => NotAfter(a, Asdu(c))
BY AsduPart DEF Past, NotAfter

LEMMA NoDataOrder ==
    /\ \A v : Past(NoData, v)
    /\ \A a : NotAfter(a, NoData) /\ NotAfter(NoData, a)
BY NoDataType DEF Past, NotAfter

(* A new copy is not older than anything that is not newer than the data. *)
LEMMA SnapshotOrder ==
    ASSUME LifeInv
    PROVE  /\ Past(Snapshot, ver)
           /\ \A a : Past(a, ver) => NotAfter(a, Snapshot)
<1>1. \A i \in points : Snapshot[i] = ver[i] /\ ver[i] \in Nat
    BY DEF Snapshot, LifeInv, TypeOK
<1>2. DOMAIN Snapshot = points
    BY DEF Snapshot
<1> QED BY <1>1, <1>2 DEF Past, NotAfter

(* Writing points keeps the order. *)
LEMMA WriteOrder ==
    ASSUME LifeInv, PeriodicInv, UNCHANGED <<starts, perSnap, queue, delivered>>,
           ver' \in [IOAs -> Nat], \A j \in IOAs : ver[j] <= ver'[j]
    PROVE  PeriodicInv'
<1>1. /\ delivered \in Contents /\ queue \in Seq(Contents)
      /\ perSnap \in [Threads -> Contents] /\ ver \in [IOAs -> Nat]
    BY DEF LifeInv, TypeOK
<1>2. \A c \in Contents : Past(c, ver) => Past(c, ver')
    BY <1>1, PastGrows
<1>3. \A p \in 1 .. Len(queue) : queue[p] \in Contents
    BY <1>1
<1> QED BY <1>1, <1>2, <1>3 DEF PeriodicInv

LEMMA PeriodicOrder ==
    ASSUME LifeInv, PeriodicInv, NEW t \in Threads, PeriodicStep(t)
    PROVE  PeriodicInv'
<1>1. UNCHANGED <<starts, ver, delivered>>
    BY PeriodicFrame
<1>2. /\ delivered \in Contents /\ queue \in Seq(Contents) /\ Len(queue) <= QueueSize
      /\ perSnap \in [Threads -> Contents] /\ starts \in Nat /\ Threads \subseteq Nat \ {0}
      /\ per \in [Threads -> {"none", "while", "snapshot", "send", "sleep", "ended"}]
    BY BoundAssumption DEF LifeInv, TypeOK, Threads
<1>3. CASE PerWhile(t) \/ PerSleep(t)
    <2>1. UNCHANGED <<perSnap, queue>>
        BY <1>3 DEF PerWhile, PerSleep
    <2> QED BY <1>1, <2>1 DEF PeriodicInv
<1> SUFFICES ASSUME starts <= 1, PerSnapshot(t) \/ PerSend(t) PROVE PeriodicInv'
    BY <1>1, <1>3 DEF PeriodicInv, PeriodicStep
<1>4. CASE PerSnapshot(t)
    <2>1. queue' = queue /\ perSnap' = [perSnap EXCEPT ![t] = Snapshot]
        BY <1>4 DEF PerSnapshot
    <2>2. /\ Past(Snapshot, ver) /\ NotAfter(delivered, Snapshot)
          /\ \A p \in 1 .. Len(queue) : NotAfter(queue[p], Snapshot)
        BY SnapshotOrder DEF PeriodicInv
    <2> HIDE DEF Snapshot
    <2>3. \A u \in Threads : perSnap'[u] = IF u = t THEN Snapshot ELSE perSnap[u]
        BY <1>2, <2>1
    <2> QED BY <1>1, <2>1, <2>2, <2>3 DEF PeriodicInv
<1>5. CASE PerSend(t)
    <2>1. \A u \in Threads : u # t => perSnap[u] = NoData
        <3>1. per[t] = "send" /\ t <= starts
            BY <1>2, <1>5 DEF PerSend, LifeInv, OwnerInv
        <3>2. \A u \in Threads : u # t => u > starts
            BY <1>2, <3>1
        <3> QED BY <3>2 DEF LifeInv, OwnerInv
    <2>2. \A u \in Threads : perSnap'[u] = NoData
        BY <1>2, <1>5, <2>1 DEF PerSend
    <2>3. CASE perSnap[t] = NoData
        <3>1. queue' = queue
            BY <1>5, <2>3 DEF PerSend
        <3> QED BY <1>1, <2>2, <3>1, NoDataOrder DEF PeriodicInv
    <2>4. CASE perSnap[t] # NoData
        <3> DEFINE a == Asdu(perSnap[t])
        <3>1. queue' = Enqueue(queue, a)
            BY <1>5, <2>4 DEF PerSend
        <3>2. a \in Contents
            BY <1>2, AsduType
        <3>3. /\ Past(a, ver) /\ NotAfter(delivered, a)
              /\ \A p \in 1 .. Len(queue) : NotAfter(queue[p], a)
            BY AsduOrder DEF PeriodicInv
        <3> HIDE DEF a
        <3>4. PICK d \in {0, 1} :
                 /\ d <= Len(queue) /\ Len(queue') = Len(queue) + 1 - d
                 /\ queue'[Len(queue) + 1 - d] = a
                 /\ \A p \in 1 .. Len(queue) - d : queue'[p] = queue[p + d]
            <4>1. \E d \in {0, 1} :
                     /\ d <= Len(queue) /\ Len(Enqueue(queue, a)) = Len(queue) + 1 - d
                     /\ Enqueue(queue, a)[Len(queue) + 1 - d] = a
                     /\ \A p \in 1 .. Len(queue) - d : Enqueue(queue, a)[p] = queue[p + d]
                BY <1>2, <3>2, EnqueueShape
            <4> QED BY <3>1, <4>1, Zenon
        <3> DEFINE n == Len(queue) + 1 - d
        <3>5. n \in Nat /\ Len(queue) \in Nat /\ Len(queue') = n /\ queue'[n] = a
            BY <1>2, <3>4
        <3>6. \A p \in 1 .. n : p # n => /\ p + d \in 1 .. Len(queue)
                                          /\ queue'[p] = queue[p + d]
            BY <3>4, <3>5
        <3>7. \A p, q \in 1 .. n : p < q => p # n /\ (q # n => p + d < q + d)
            BY <3>5
        <3> HIDE DEF n
        <3>8. \A p \in 1 .. n : Past(queue'[p], ver) /\ NotAfter(delivered, queue'[p])
            BY <3>3, <3>5, <3>6 DEF PeriodicInv
        <3>9. ASSUME NEW p \in 1 .. n, NEW q \in 1 .. n, p < q
              PROVE  NotAfter(queue'[p], queue'[q])
            <4>1. p + d \in 1 .. Len(queue) /\ queue'[p] = queue[p + d]
                BY <3>6, <3>7, <3>9
            <4>2. CASE q = n
                BY <3>3, <3>5, <4>1, <4>2
            <4>3. CASE q # n
                <5>1. q + d \in 1 .. Len(queue) /\ queue'[q] = queue[q + d] /\ p + d < q + d
                    BY <3>6, <3>7, <3>9, <4>3
                <5> QED BY <4>1, <5>1 DEF PeriodicInv
            <4> QED BY <4>2, <4>3
        <3> QED BY <1>1, <2>2, <3>5, <3>8, <3>9, NoDataOrder DEF PeriodicInv
    <2> QED BY <2>3, <2>4
<1> QED BY <1>4, <1>5

LEMMA DeliverOrder ==
    ASSUME LifeInv, PeriodicInv, Deliver
    PROVE  PeriodicInv'
<1>1. /\ queue # <<>> /\ delivered' = Head(queue) /\ queue' = Tail(queue)
      /\ UNCHANGED <<starts, ver, perSnap>>
    BY DEF Deliver, life, perVars, data
<1>2. queue \in Seq(Contents)
    BY DEF LifeInv, TypeOK
<1>3. /\ Len(queue') = Len(queue) - 1 /\ Len(queue) \in Nat \ {0} /\ delivered' = queue[1]
      /\ \A p \in 1 .. Len(queue) - 1 : queue'[p] = queue[p + 1]
    BY <1>1, <1>2, HeadTailProperties
<1>4. /\ 1 \in 1 .. Len(queue)
      /\ \A p \in 1 .. Len(queue') : p + 1 \in 1 .. Len(queue) /\ queue'[p] = queue[p + 1] /\ 1 < p + 1
    BY <1>3
<1>5. \A p, q \in 1 .. Len(queue') : p < q => p + 1 < q + 1
    OBVIOUS
<1> QED BY <1>1, <1>3, <1>4, <1>5 DEF PeriodicInv

LEMMA NextOrder == LifeInv /\ PeriodicInv /\ [Next]_vars => PeriodicInv'
<1> SUFFICES ASSUME LifeInv, PeriodicInv, [Next]_vars PROVE PeriodicInv'
    OBVIOUS
<1>0. ver \in [IOAs -> Nat] /\ \A j \in IOAs : ver[j] <= ver[j]
    BY DEF LifeInv, TypeOK
<1>1. CASE Start \/ Stop \/ DestructStopped \/ OwnerStep
    <2>1. UNCHANGED <<ver, perSnap, queue, delivered>> /\ (starts' <= 1 => starts <= 1)
        BY <1>1, OwnerFrame
    <2> QED BY <2>1 DEF PeriodicInv
<1>2. CASE UNCHANGED vars
    BY <1>2 DEF vars, life, perVars, data, PeriodicInv
<1>3. ASSUME NEW i \in IOAs, addDataPoint(i) \/ updateDataPoint(i) PROVE PeriodicInv'
    <2>1. Write(i) /\ UNCHANGED <<starts, perSnap, queue, delivered>>
        BY <1>3 DEF addDataPoint, updateDataPoint, life, perVars
    <2> QED BY <2>1, WriteStep, WriteOrder DEF LifeInv
<1>4. ASSUME NEW m \in Masters, MasterStep(m) PROVE PeriodicInv'
    <2>1. UNCHANGED <<starts, perSnap, queue, delivered>>
        BY <1>4 DEF MasterStep, HandlerStep, Interrogation, InterrogationRefused,
                    CommandNoElement, CommandUnknownCot, Command, InterrogationSnapshot,
                    InterrogationSend, InterrogationTerm, CommandConfirm, life, perVars
    <2>2. ver' = ver \/ \E i \in IOAs : Write(i)
        BY <1>4 DEF MasterStep, HandlerStep, Interrogation, InterrogationRefused,
                    CommandNoElement, CommandUnknownCot, Command, InterrogationSnapshot,
                    InterrogationSend, InterrogationTerm, CommandConfirm, data
    <2>3. ver' \in [IOAs -> Nat] /\ \A j \in IOAs : ver[j] <= ver'[j]
        BY <1>0, <2>2, WriteStep DEF LifeInv
    <2> QED BY <2>1, <2>3, WriteOrder
<1> QED
    BY <1>1, <1>2, <1>3, <1>4, PeriodicOrder, DeliverOrder DEF Next, MasterStep

-----------------------------------------------------------------------------
LEMMA InitIInv == Init => IInv
<1> SUFFICES ASSUME Init PROVE IInv
    OBVIOUS
<1>1. LifeInv
    BY InitLife
<1>2. FreshInv
    BY DEF Init, FreshInv, NoCommand, NotAsked
<1>3. CompleteInv
    BY FS_EmptySet DEF Init, CompleteInv, NotAsked
<1>4. PeriodicInv
    BY NoDataOrder DEF Init, PeriodicInv
<1> QED BY <1>1, <1>2, <1>3, <1>4 DEF IInv

(* IInv is an invariant of the specification. *)
THEOREM InductiveInvariant == Spec => []IInv
<1>1. IInv /\ [Next]_vars => IInv'
    BY NextLife, NextFresh, NextComplete, NextOrder DEF IInv
<1> QED BY <1>1, InitIInv, PTL DEF Spec

(* interrogationHandler answers with every command that was confirmed to   *)
(* any master before the interrogation was accepted.                       *)
THEOREM InterrogationIsFresh == Spec => []InterrogationFresh
<1>1. IInv => InterrogationFresh
    <2> SUFFICES ASSUME IInv, NEW m \in Masters, mas[m] = "term", NEW i \in DOMAIN masSnap[m]
                 PROVE  masSnap[m][i] >= asked[m].confirmed[i]
        BY DEF InterrogationFresh
    <2>1. asked[m].confirmed[i] <= masSnap[m][i]
        BY DEF IInv, FreshInv
    <2>2. masSnap[m] \in Contents /\ asked[m].confirmed \in [IOAs -> Nat]
        BY DEF IInv, LifeInv, TypeOK
    <2>3. i \in IOAs /\ masSnap[m][i] \in Nat
        BY <2>2, CopyDomain, VersionsNat
    <2> QED BY <2>1, <2>2, <2>3
<1> QED BY <1>1, InductiveInvariant, PTL

(* It has every point there was, as long as the points are of one type and *)
(* fit into one ASDU.                                                      *)
THEOREM UniformIsComplete == Spec => []UniformComplete
<1>1. IInv => UniformComplete
    BY DEF IInv, CompleteInv, Uniform, UniformComplete, InterrogationComplete
<1> QED BY <1>1, InductiveInvariant, PTL

(* In the first life of the server no periodic ASDU takes a point back to  *)
(* an earlier version.                                                     *)
THEOREM PeriodicIsMonotone == Spec => PeriodicMonotone
<1>1. IInv /\ [Next]_vars =>
        [starts <= 1 => \A i \in DOMAIN delivered \cap DOMAIN delivered' :
                          delivered[i] <= delivered'[i]]_vars
    <2> SUFFICES ASSUME IInv, Next, starts <= 1
                 PROVE  NotAfter(delivered, delivered')
        BY DEF NotAfter
    <2>1. CASE Deliver
        <3>1. queue \in Seq(Contents) /\ queue # <<>> /\ delivered' = Head(queue)
            BY <2>1 DEF Deliver, IInv, LifeInv, TypeOK
        <3>2. 1 \in 1 .. Len(queue) /\ delivered' = queue[1]
            BY <3>1
        <3> QED BY <3>2 DEF IInv, PeriodicInv
    <2>2. CASE delivered' = delivered
        <3>1. \A i \in DOMAIN delivered : delivered[i] \in Nat
            BY CopyDomain, VersionsNat DEF IInv, LifeInv, TypeOK
        <3> QED BY <2>2, <3>1 DEF NotAfter
    <2>3. CASE Start \/ Stop \/ DestructStopped \/ OwnerStep
        BY <2>2, <2>3, OwnerFrame DEF IInv
    <2>4. CASE \E t \in Threads : PeriodicStep(t)
        BY <2>2, <2>4, PeriodicFrame
    <2>5. CASE \E i \in IOAs : addDataPoint(i) \/ updateDataPoint(i)
        BY <2>2, <2>5 DEF addDataPoint, updateDataPoint
    <2>6. CASE \E m \in Masters : MasterStep(m)
        BY <2>2, <2>6 DEF MasterStep, HandlerStep, Interrogation, InterrogationRefused,
                    CommandNoElement, CommandUnknownCot, Command, InterrogationSnapshot,
                    InterrogationSend, InterrogationTerm, CommandConfirm
    <2> QED BY <2>1, <2>3, <2>4, <2>5, <2>6 DEF Next, MasterStep
<1> QED BY <1>1, InductiveInvariant, PTL DEF Spec, PeriodicMonotone
=============================================================================

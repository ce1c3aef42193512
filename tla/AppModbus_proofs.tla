--------------------------- MODULE AppModbus_proofs ---------------------------
(***************************************************************************)
(* Proofs about core/modbus/app_modbus_client.cc: AppModbus, for any       *)
(* devices, any pool and any number of calls of run(), and ModbusPoll, the *)
(* poll of one device, for any list of points.                             *)
(***************************************************************************)
EXTENDS AppModbus, ModbusPoll, FiniteSetTheorems, FunctionTheorems,
        NaturalsInduction, WellFoundedInduction, TLAPS

-----------------------------------------------------------------------------
(* AppModbus. *)

(* The worker of runTask submits devices that run() has created. *)
TodoInv == \A w \in Workers : todo[w] \subseteq Usable

(* A thread of the pool that has no task is nowhere in one. *)
IdleInv == \A w \in Workers : task[w] = "none" <=> at[w] = "none"

(* running_ is never set again once stop() has cleared it. *)
FlagInv == phase \in {"stopping", "stopped"} => ~running

IInv == TypeOK /\ TodoInv /\ IdleInv /\ FlagInv /\ StopWaitsForPolls

-----------------------------------------------------------------------------
LEMMA InitIInv == Init => IInv
<1> SUFFICES ASSUME Init PROVE IInv
    OBVIOUS
<1>1. TypeOK
    BY RunsAssumption DEF Init, TypeOK, Tasks
<1> QED
    BY <1>1 DEF Init, IInv, TodoInv, IdleInv, FlagInv, StopWaitsForPolls

LEMMA CallerIInv == IInv /\ (Run \/ StopApis \/ StopFlag \/ StopWait) => IInv'
<1> SUFFICES ASSUME IInv, Run \/ StopApis \/ StopFlag \/ StopWait PROVE IInv'
    OBVIOUS
<1> USE RunsAssumption, DeviceAssumption
        DEF IInv, TypeOK, TodoInv, IdleInv, FlagInv, StopWaitsForPolls, Tasks
<1>1. CASE Run
    BY <1>1 DEF Run
<1>2. CASE StopApis
    BY <1>2 DEF StopApis
<1>3. CASE StopFlag
    BY <1>3 DEF StopFlag
<1>4. CASE StopWait
    BY <1>4 DEF StopWait
<1> QED
    BY <1>1, <1>2, <1>3, <1>4

LEMMA WorkerIInv ==
    ASSUME IInv, NEW w \in Workers, WorkerStep(w)
    PROVE  IInv'
<1> USE RunsAssumption, DeviceAssumption
        DEF IInv, TypeOK, TodoInv, IdleInv, FlagInv, StopWaitsForPolls, Tasks, Finish, FirstStep
<1>1. CASE Take(w)
    BY <1>1 DEF Take
<1>2. CASE Submit(w)
    BY <1>2 DEF Submit
<1>3. CASE SubmitEnd(w)
    BY <1>3 DEF SubmitEnd
<1>4. CASE SetDebug(w)
    BY <1>4 DEF SetDebug
<1>5. CASE PollWhile(w)
    BY <1>5 DEF PollWhile
<1>6. CASE Poll(w)
    BY <1>6 DEF Poll
<1> QED
    BY <1>1, <1>2, <1>3, <1>4, <1>5, <1>6 DEF WorkerStep

LEMMA NextIInv == IInv /\ [Next]_vars => IInv'
<1> SUFFICES ASSUME IInv, [Next]_vars PROVE IInv'
    OBVIOUS
<1>1. ASSUME NEW d \in Devices, LoopEnds(d) PROVE IInv'
    BY <1>1 DEF LoopEnds, IInv, TypeOK, TodoInv, IdleInv, FlagInv, StopWaitsForPolls
<1>2. CASE UNCHANGED vars
    BY <1>2 DEF vars, IInv, TypeOK, TodoInv, IdleInv, FlagInv, StopWaitsForPolls
<1> QED
    BY <1>1, <1>2, CallerIInv, WorkerIInv DEF Next

(* IInv is an invariant of the specification. *)
THEOREM InductiveInvariant == Spec => []IInv
BY InitIInv, NextIInv, PTL DEF Spec

(* The variables keep their types. *)
THEOREM TypeCorrect == Spec => []TypeOK
<1>1. IInv => TypeOK
    BY DEF IInv
<1> QED
    BY <1>1, InductiveInvariant, PTL

(* After stop() has returned no poll task waits or runs. *)
THEOREM StopIsComplete == Spec => []StopWaitsForPolls
<1>1. IInv => StopWaitsForPolls
    BY DEF IInv
<1> QED
    BY <1>1, InductiveInvariant, PTL

-----------------------------------------------------------------------------
(* ModbusPoll: what holds of numbers and of blocks of points. *)

(* A set of numbers that is not empty has a smallest one. *)
LEMMA LeastExists ==
    ASSUME NEW S \in SUBSET Nat, S # {}
    PROVE  \E x \in S : \A y \in S : x <= y
<1>1. IsWellFoundedOn(OpToRel(<, Nat), Nat)
    BY NatLessThanWellFounded, Zenon
<1> DEFINE R == OpToRel(<, Nat)
<1>2. \E x \in S : \A y \in S : ~(<<y, x>> \in R)
    <2> HIDE DEF R
    <2>1. IsWellFoundedOn(R, Nat)
        BY <1>1 DEF R
    <2> QED BY <2>1, WFMin
<1>3. \A x \in S, y \in S : <<y, x>> \notin R => x <= y
    BY DEF OpToRel
<1> HIDE DEF R
<1> QED BY <1>2, <1>3

(* A bounded one that is not empty has a greatest, and Max finds it. *)
LEMMA GreatestExists ==
    ASSUME NEW S \in SUBSET Nat, S # {}, NEW b \in Nat, \A x \in S : x <= b
    PROVE  Max(S) \in S /\ \A y \in S : y <= Max(S)
<1> DEFINE B == {c \in Nat : \A x \in S : x <= c}
<1>1. PICK c \in B : \A d \in B : c <= d
    <2>1. B \in SUBSET Nat /\ b \in B
        OBVIOUS
    <2> HIDE DEF B
    <2> QED BY <2>1, LeastExists
<1>2. c \in S
    <2> SUFFICES ASSUME c \notin S PROVE FALSE
        OBVIOUS
    <2>1. c # 0
        <3>1. PICK x \in S : TRUE
            OBVIOUS
        <3>2. x \in Nat /\ x <= c
            BY <1>1
        <3> QED BY <3>2
    <2>2. c - 1 \in B
        BY <1>1, <2>1
    <2> QED BY <1>1, <2>2
<1>3. \A y \in S : c >= y
    BY <1>1
<1>4. \E x \in S : \A y \in S : x >= y
    BY <1>2, <1>3
<1>5. Max(S) \in S /\ \A y \in S : Max(S) >= y
    BY <1>4 DEF Max
<1> QED BY <1>5
-----------------------------------------------------------------------------
LEMMA PointType ==
    ASSUME NEW p \in Point
    PROVE  RegCount(p) \in 0 .. 2 /\ p.address \in Addresses
<1>1. p.address \in Addresses
    BY DEF Point
<1>2. RegCount(p) \in 0 .. 2
    BY DEF RegCount
<1> QED BY <1>1, <1>2

LEMMA ListType ==
    ASSUME NEW s \in Seq(Point), NEW n \in 1 .. Len(s)
    PROVE  RegCount(s[n]) \in Nat /\ s[n].address \in Nat
<1>1. s[n] \in Point
    OBVIOUS
<1>2. RegCount(s[n]) \in 0 .. 2 /\ s[n].address \in Addresses
    BY <1>1, PointType
<1>3. \A a \in Addresses : a \in Nat
    BY DEF Addresses
<1> QED BY <1>2, <1>3

(* Points that follow each other without a gap do not overlap. *)
LEMMA Ascending ==
    ASSUME NEW s \in Seq(Point), NEW a \in 1 .. Len(s), NEW b \in a .. Len(s),
           Contiguous(s, a, b), NEW k \in a .. b, NEW l \in a .. b, k < l
    PROVE  s[k].address + RegCount(s[k]) <= s[l].address
<1> DEFINE Good(m) == s[k].address + RegCount(s[k]) <= s[m].address
           Bad == {m \in k + 1 .. b : ~Good(m)}
<1> SUFFICES ASSUME Bad # {} PROVE FALSE
    OBVIOUS
<1>1. PICK m \in Bad : \A n \in Bad : m <= n
    <2>1. Bad \in SUBSET Nat
        OBVIOUS
    <2> HIDE DEF Bad
    <2> QED BY <2>1, LeastExists
<1>2. \A n \in a .. b : RegCount(s[n]) \in Nat /\ s[n].address \in Nat
    BY ListType
<1>3. s[m].address = s[m - 1].address + RegCount(s[m - 1])
    <2>1. m - 1 \in a .. b - 1 /\ (m - 1) + 1 = m
        BY <1>1
    <2> QED BY <2>1 DEF Contiguous
<1>4. m - 1 = k \/ Good(m - 1)
    BY <1>1
<1>5. m - 1 \in a .. b
    BY <1>1
<1>6. m \in a .. b /\ ~Good(m)
    BY <1>1
<1> HIDE DEF Bad
<1> QED BY <1>2, <1>3, <1>4, <1>5, <1>6, SMTT(40)

(* The while loop of findContinuousRegisters goes as far as it can. *)
LEMMA FindLast ==
    ASSUME NEW s \in Seq(Point), NEW a \in 1 .. Len(s)
    PROVE  LET S == {e \in a .. Len(s) : Contiguous(s, a, e)}
           IN  Max(S) \in S /\ \A e \in S : e <= Max(S)
<1> DEFINE S == {e \in a .. Len(s) : Contiguous(s, a, e)}
<1>1. a \in S
    BY DEF Contiguous
<1>2. S \in SUBSET Nat /\ Len(s) \in Nat /\ \A e \in S : e <= Len(s)
    OBVIOUS
<1> HIDE DEF S
<1>3. Max(S) \in S /\ \A e \in S : e <= Max(S)
    BY <1>1, <1>2, GreatestExists
<1> QED BY <1>3 DEF S

(* Every register from the first to the last of a block is one of a point. *)
LEMMA BlockCovered ==
    ASSUME NEW s \in Seq(Point), NEW a \in 1 .. Len(s), NEW b \in a .. Len(s),
           Contiguous(s, a, b),
           NEW x \in s[a].address .. (s[b].address + RegCount(s[b]) - 1)
    PROVE  \E k \in a .. b : x \in Registers(s[k])
<1>1. \A n \in a .. b : RegCount(s[n]) \in Nat /\ s[n].address \in Nat
    BY ListType
<1> DEFINE S == {n \in a .. b : s[n].address <= x}
<1>2. a \in a .. b /\ b \in a .. b /\ x \in Nat /\ s[a].address <= x
    BY <1>1
<1>3. Max(S) \in S /\ \A n \in S : n <= Max(S)
    <2>1. S \in SUBSET Nat /\ b \in Nat /\ a \in S /\ \A n \in S : n <= b
        BY <1>2
    <2> HIDE DEF S
    <2> QED BY <2>1, GreatestExists
<1> DEFINE k == Max(S)
<1>4. k \in a .. b /\ s[k].address <= x
    BY <1>3
<1>5. x < s[k].address + RegCount(s[k])
    <2>1. CASE k = b
        BY <2>1, <1>1, <1>2
    <2>2. CASE k # b
        <3>1. k + 1 \in a .. b /\ k \in a .. b - 1
            BY <2>2, <1>4
        <3>2. s[k + 1].address = s[k].address + RegCount(s[k])
            BY <3>1 DEF Contiguous
        <3>3. ~(s[k + 1].address <= x)
            BY <3>1, <1>3
        <3> QED BY <3>1, <3>2, <3>3, <1>1, <1>2, SMTT(40)
    <2> QED BY <2>1, <2>2
<1> HIDE DEF k
<1>6. /\ s[k].address \in Nat /\ RegCount(s[k]) \in Nat /\ x \in Nat
      /\ s[k].address <= x /\ x < s[k].address + RegCount(s[k])
    BY <1>1, <1>2, <1>4, <1>5
<1>7. x \in Registers(s[k])
    BY ONLY <1>6 DEF Registers
<1> QED BY <1>4, <1>7

LEMMA Within ==
    ASSUME NEW lo \in Nat, NEW p \in Nat, NEW n \in Nat, NEW hi \in Nat,
           lo <= p, p + n <= hi, NEW x \in p .. (p + n - 1)
    PROVE  x \in lo .. (hi - 1)
OBVIOUS

LEMMA Apart ==
    ASSUME NEW p \in Nat, NEW m \in Nat, NEW q \in Nat, NEW n \in Nat, p + m <= q
    PROVE  /\ (p .. (p + m - 1)) \cap (q .. (q + n - 1)) = {}
           /\ (q .. (q + n - 1)) \cap (p .. (p + m - 1)) = {}
OBVIOUS

(* A block has the registers of its points and no others, each once. *)
LEMMA BlockExact ==
    ASSUME NEW s \in Seq(Point), NEW a \in 1 .. Len(s), NEW b \in a .. Len(s),
           Contiguous(s, a, b)
    PROVE  /\ s[a].address .. (s[b].address + RegCount(s[b]) - 1)
                = UNION {Registers(s[k]) : k \in a .. b}
           /\ \A k, l \in a .. b : k # l => Registers(s[k]) \cap Registers(s[l]) = {}
<1>1. \A n \in a .. b : RegCount(s[n]) \in Nat /\ s[n].address \in Nat
    BY ListType
<1>2. \A k, l \in a .. b : k < l => s[k].address + RegCount(s[k]) <= s[l].address
    BY Ascending
<1> DEFINE block == s[a].address .. (s[b].address + RegCount(s[b]) - 1)
<1>3. ASSUME NEW x \in block PROVE x \in UNION {Registers(s[k]) : k \in a .. b}
    BY <1>3, BlockCovered
<1>4. ASSUME NEW k \in a .. b, NEW x \in Registers(s[k]) PROVE x \in block
    <2>1. a \in a .. b /\ b \in a .. b /\ a <= k /\ k <= b
        OBVIOUS
    <2>2. s[a].address <= s[k].address
        <3>1. CASE a = k
            BY <3>1, <1>1
        <3>2. CASE a < k
            BY <3>2, <2>1, <1>1, <1>2
        <3> QED BY <3>1, <3>2
    <2>3. s[k].address + RegCount(s[k]) <= s[b].address + RegCount(s[b])
        <3>1. CASE k = b
            BY <3>1, <1>1
        <3>2. CASE k < b
            <4>1. s[k].address + RegCount(s[k]) <= s[b].address
                BY <3>2, <2>1, <1>2
            <4> QED BY <4>1, <2>1, <1>1
        <3> QED BY <3>1, <3>2
    <2>4. /\ s[k].address \in Nat /\ RegCount(s[k]) \in Nat /\ s[a].address \in Nat
          /\ s[b].address + RegCount(s[b]) \in Nat
        BY <1>1, <2>1
    <2>5. x \in s[k].address .. (s[k].address + RegCount(s[k]) - 1)
        BY <1>4 DEF Registers
    <2>6. x \in s[a].address .. ((s[b].address + RegCount(s[b])) - 1)
        BY ONLY <2>2, <2>3, <2>4, <2>5, Within
    <2> QED BY <1>1, <2>1, <2>6
<1>5. block = UNION {Registers(s[k]) : k \in a .. b}
    <2> HIDE DEF block
    <2> QED BY <1>3, <1>4
<1>6. ASSUME NEW k \in a .. b, NEW l \in a .. b, k # l
      PROVE  Registers(s[k]) \cap Registers(s[l]) = {}
    <2>1. \/ s[k].address + RegCount(s[k]) <= s[l].address
          \/ s[l].address + RegCount(s[l]) <= s[k].address
        BY <1>2, <1>6
    <2>2. /\ s[k].address \in Nat /\ RegCount(s[k]) \in Nat
          /\ s[l].address \in Nat /\ RegCount(s[l]) \in Nat
        BY <1>1
    <2> QED BY ONLY <2>1, <2>2, Apart DEF Registers
<1> QED BY <1>5, <1>6

(* What findContinuousRegisters returns. *)
LEMMA FindRangeExact ==
    ASSUME NEW s \in Seq(Point), NEW a \in 1 .. Len(s)
    PROVE  LET r == findContinuousRegisters(s, a)
           IN  /\ r \in [start_addr : Addresses, count : Nat, end_index : a .. Len(s)]
               /\ r.start_addr + r.count <= 2^16 + 1
               /\ r.start_addr .. (r.start_addr + r.count - 1)
                    = UNION {Registers(s[k]) : k \in a .. r.end_index}
               /\ \A k, l \in a .. r.end_index :
                     k # l => Registers(s[k]) \cap Registers(s[l]) = {}
<1> DEFINE r == findContinuousRegisters(s, a)
           b == Max({e \in a .. Len(s) : Contiguous(s, a, e)})
<1>1. b \in a .. Len(s) /\ Contiguous(s, a, b)
    BY FindLast
<1>2. \A n \in a .. Len(s) : /\ RegCount(s[n]) \in 0 .. 2
                             /\ s[n].address \in Addresses
    <2>1. \A n \in a .. Len(s) : s[n] \in Point
        OBVIOUS
    <2> QED BY <2>1, PointType
<1>3. a \in a .. Len(s)
    OBVIOUS
<1>4. CASE RegCount(s[a]) = 0
    <2>1. r = [start_addr |-> s[a].address, count |-> 0, end_index |-> a]
        BY <1>4 DEF findContinuousRegisters
    <2>2. a .. a = {a}
        OBVIOUS
    <2>3. /\ s[a].address \in Addresses
          /\ s[a].address .. (s[a].address - 1) = {} /\ Registers(s[a]) = {}
          /\ s[a].address + 0 <= 2^16 + 1
        BY <1>2, <1>3, <1>4 DEF Registers, Addresses
    <2>4. s[a].address .. (s[a].address + 0 - 1) = UNION {Registers(s[k]) : k \in a .. a}
        BY <2>2, <2>3, <1>2, <1>3 DEF Addresses
    <2> HIDE DEF r
    <2> QED BY <2>1, <2>2, <2>3, <2>4, <1>3 DEF r
<1>5. CASE RegCount(s[a]) # 0
    <2> DEFINE n == s[b].address + RegCount(s[b]) - s[a].address
    <2>1. r = [start_addr |-> s[a].address, count |-> n, end_index |-> b]
        BY <1>5 DEF findContinuousRegisters
    <2> HIDE DEF b
    <2>2. /\ s[a].address \in Addresses /\ s[b].address \in Addresses
          /\ RegCount(s[a]) \in 0 .. 2 /\ RegCount(s[b]) \in 0 .. 2
        BY <1>1, <1>2, <1>3
    <2>3. a = b \/ s[a].address + RegCount(s[a]) <= s[b].address
        <3>1. CASE a < b
            <4>1. a \in a .. b /\ b \in a .. b
                BY <1>1
            <4> QED BY <1>1, <3>1, <4>1, Ascending
        <3> QED BY <3>1, <1>1
    <2>4. n \in Nat /\ s[a].address + n <= 2^16 + 1
        BY <2>2, <2>3, SMTT(40) DEF Addresses
    <2>5. s[a].address + n - 1 = s[b].address + RegCount(s[b]) - 1
        BY <2>2 DEF Addresses
    <2>6. /\ s[a].address .. (s[a].address + n - 1) = UNION {Registers(s[k]) : k \in a .. b}
          /\ \A k, l \in a .. b : k # l => Registers(s[k]) \cap Registers(s[l]) = {}
        BY <1>1, <2>5, BlockExact
    <2> HIDE DEF r, n
    <2>7. r.start_addr = s[a].address /\ r.count = n /\ r.end_index = b
        BY <2>1
    <2>8. r \in [start_addr : Addresses, count : Nat, end_index : a .. Len(s)]
        BY <2>1, <2>2, <2>4, <1>1
    <2> QED BY <2>7, <2>8, <2>4, <2>6 DEF r
<1> QED BY <1>4, <1>5

-----------------------------------------------------------------------------
(* std::sort. *)

(* t lists the points of s in the order g. *)
Arranged(s, t, g) ==
    /\ g \in [1 .. Len(s) -> 1 .. Len(s)]
    /\ IsInjective(g)
    /\ t = [k \in 1 .. Len(s) |-> s[g[k]]]

(* Each point of s is one of t and back. *)
OneToOne(s, t, g) ==
    /\ \A k \in 1 .. Len(s) : g[k] \in 1 .. Len(s) /\ t[k] = s[g[k]]
    /\ \A k, l \in 1 .. Len(s) : g[k] = g[l] => k = l
    /\ \A j \in 1 .. Len(s) : \E k \in 1 .. Len(s) : g[k] = j

(* It rearranges the points, and their addresses ascend. *)
LEMMA SortedShape ==
    ASSUME NEW s \in Seq(Point), NEW t \in Sorted(s)
    PROVE  /\ \E g : Arranged(s, t, g)
           /\ \A k \in 1 .. Len(t) - 1 : t[k].address <= t[k + 1].address
<1>1. DOMAIN s = 1 .. Len(s) /\ Len(s) \in Nat /\ s = [k \in 1 .. Len(s) |-> s[k]]
    OBVIOUS
<1>2. CASE \A k \in 1 .. Len(s) - 1 : s[k].address < s[k + 1].address
    <2>1. t = s
        BY <1>2 DEF Sorted
    <2> DEFINE g == [k \in 1 .. Len(s) |-> k]
    <2>2. g \in [1 .. Len(s) -> 1 .. Len(s)] /\ \A k \in 1 .. Len(s) : g[k] = k
        OBVIOUS
    <2>3. IsInjective(g)
        BY DEF IsInjective
    <2>4. s = [k \in 1 .. Len(s) |-> s[g[k]]]
        BY <1>1
    <2>5. Arranged(s, t, g)
        BY <2>1, <2>2, <2>3, <2>4 DEF Arranged
    <2>6. \A k \in 1 .. Len(s) - 1 : s[k] \in Point /\ s[k + 1] \in Point
        BY <1>1
    <2>7. \A k \in 1 .. Len(s) - 1 : s[k].address <= s[k + 1].address
        BY <1>2, <2>6, PointType DEF Addresses
    <2> QED BY <2>1, <2>5, <2>7
<1>3. CASE ~\A k \in 1 .. Len(s) - 1 : s[k].address < s[k + 1].address
    <2>1. /\ t \in {[k \in DOMAIN s |-> s[f[k]]] :
                      f \in {h \in [DOMAIN s -> DOMAIN s] : IsInjective(h)}}
          /\ \A k \in 1 .. Len(t) - 1 : t[k].address <= t[k + 1].address
        BY <1>3 DEF Sorted
    <2>2. PICK f \in [DOMAIN s -> DOMAIN s] :
                IsInjective(f) /\ t = [k \in DOMAIN s |-> s[f[k]]]
        BY <2>1
    <2>3. Arranged(s, t, f)
        BY <2>2, <1>1 DEF Arranged
    <2> QED BY <2>1, <2>3
<1> QED BY <1>2, <1>3

(* Every point of the configuration is in the sorted list, and back. *)
LEMMA SortedOrder ==
    ASSUME NEW s \in Seq(Point), NEW t \in Sorted(s)
    PROVE  t \in Seq(Point) /\ Len(t) = Len(s) /\ \E g : OneToOne(s, t, g)
<1> DEFINE D == 1 .. Len(s)
<1>1. PICK g : Arranged(s, t, g)
    BY SortedShape
<1>2. Len(s) \in Nat /\ \A k \in D : s[k] \in Point
    OBVIOUS
<1>3. g \in [D -> D] /\ t = [k \in D |-> s[g[k]]]
    BY <1>1 DEF Arranged
<1>4. t \in Seq(Point) /\ Len(t) = Len(s)
    BY <1>2, <1>3
<1>5. IsFiniteSet(D)
    BY <1>2, FS_Interval
<1>6. g \in Injection(D, D)
    BY <1>1, <1>3 DEF Arranged, Injection, IsInjective
<1>7. g \in Surjection(D, D)
    <2> HIDE DEF D
    <2> QED BY <1>5, <1>6, FS_Injection
<1>8. \A k \in D : g[k] \in D /\ t[k] = s[g[k]]
    BY <1>3
<1>9. \A k, l \in D : g[k] = g[l] => k = l
    BY <1>3, <1>6 DEF Injection, IsInjective
<1>10. \A j \in D : \E k \in D : g[k] = j
    BY <1>7 DEF Surjection
<1>11. OneToOne(s, t, g)
    BY <1>8, <1>9, <1>10 DEF OneToOne
<1> QED BY <1>4, <1>11

LEMMA AscendingAll ==
    ASSUME NEW t \in Seq(Point),
           \A k \in 1 .. Len(t) - 1 : t[k].address <= t[k + 1].address,
           NEW k \in 1 .. Len(t), NEW l \in 1 .. Len(t), k < l
    PROVE  t[k].address <= t[l].address
<1> DEFINE Bad == {m \in k + 1 .. Len(t) : ~(t[k].address <= t[m].address)}
<1> SUFFICES ASSUME Bad # {} PROVE FALSE
    OBVIOUS
<1>1. PICK m \in Bad : \A n \in Bad : m <= n
    <2>1. Bad \in SUBSET Nat
        OBVIOUS
    <2> HIDE DEF Bad
    <2> QED BY <2>1, LeastExists
<1>2. \A n \in 1 .. Len(t) : t[n].address \in Nat
    BY ListType
<1>3. m - 1 \in 1 .. Len(t) - 1 /\ (m - 1) + 1 = m /\ m \in 1 .. Len(t)
    BY <1>1
<1>4. t[m - 1].address <= t[m].address
    BY <1>3
<1>5. m - 1 = k \/ t[k].address <= t[m - 1].address
    BY <1>1
<1>6. ~(t[k].address <= t[m].address) /\ m - 1 \in 1 .. Len(t)
    BY <1>1, <1>3
<1> HIDE DEF Bad
<1> QED BY <1>2, <1>3, <1>4, <1>5, <1>6

(* Without equal addresses there is one order only. *)
LEMMA SortedUnique ==
    ASSUME NEW s \in Seq(Point), NEW t \in Sorted(s), NEW u \in Sorted(s),
           \A k, l \in 1 .. Len(t) : k < l => t[k].address < t[l].address
    PROVE  u = t
<1> DEFINE D == 1 .. Len(s)
<1>1. t \in Seq(Point) /\ Len(t) = Len(s) /\ u \in Seq(Point) /\ Len(u) = Len(s)
    BY SortedOrder
<1>2. PICK g : OneToOne(s, t, g)
    BY SortedOrder
<1>3. PICK h : OneToOne(s, u, h)
    BY SortedOrder
<1>4. /\ \A k \in D : g[k] \in D /\ t[k] = s[g[k]]
      /\ \A j \in D : \E k \in D : g[k] = j
      /\ \A k \in D : h[k] \in D /\ u[k] = s[h[k]]
      /\ \A j \in D : \E k \in D : h[k] = j
    BY <1>2, <1>3 DEF OneToOne
<1>5. /\ \A k, l \in D : g[k] = g[l] => k = l
      /\ \A k, l \in D : h[k] = h[l] => k = l
    BY <1>2, <1>3 DEF OneToOne
<1> DEFINE m == [k \in D |-> CHOOSE j \in D : g[j] = h[k]]
<1>6. \A k \in D : m[k] \in D /\ g[m[k]] = h[k] /\ u[k] = t[m[k]]
    <2> TAKE k \in D
    <2>1. \E j \in D : g[j] = h[k]
        BY <1>4
    <2>2. m[k] = CHOOSE j \in D : g[j] = h[k]
        OBVIOUS
    <2> HIDE DEF m
    <2>3. m[k] \in D /\ g[m[k]] = h[k]
        BY <2>1, <2>2
    <2> QED BY <2>3, <1>4
<1> HIDE DEF m
<1>7. \A k, l \in D : m[k] = m[l] => k = l
    BY <1>5, <1>6
<1>8. \A j \in D : \E k \in D : m[k] = j
    <2> TAKE j \in D
    <2>1. PICK k \in D : h[k] = g[j]
        BY <1>4
    <2>2. m[k] = j
        BY <2>1, <1>5, <1>6
    <2> QED BY <2>2
<1>9. \A k, l \in D : k < l => u[k].address <= u[l].address
    <2>1. \A k \in 1 .. Len(u) - 1 : u[k].address <= u[k + 1].address
        BY SortedShape
    <2> QED BY <2>1, <1>1, AscendingAll
<1>10. \A k \in D : t[k].address \in Nat
    BY <1>1, ListType
<1>11. \A k, l \in D : k < l => m[k] < m[l]
    <2> TAKE k, l \in D
    <2> HAVE k < l
    <2>1. m[k] \in D /\ m[l] \in D /\ m[k] # m[l]
        BY <1>6, <1>7
    <2>2. t[m[k]].address <= t[m[l]].address
        BY <1>6, <1>9
    <2>3. m[l] < m[k] => t[m[l]].address < t[m[k]].address
        BY <2>1, <1>1
    <2> QED BY <2>1, <2>2, <2>3, <1>10
<1>12. \A k \in D : m[k] = k
    <2> DEFINE Bad == {k \in D : m[k] # k}
    <2> SUFFICES ASSUME Bad # {} PROVE FALSE
        OBVIOUS
    <2>1. PICK k \in Bad : \A n \in Bad : k <= n
        <3>1. Bad \in SUBSET Nat
            OBVIOUS
        <3> HIDE DEF Bad
        <3> QED BY <3>1, LeastExists
    <2>2. k \in D /\ m[k] # k /\ \A n \in D : n < k => m[n] = n
        BY <2>1
    <2> HIDE DEF Bad
    <2>3. m[k] \in D /\ ~(m[k] < k)
        BY <2>2, <1>6, <1>7
    <2>4. PICK j \in D : m[j] = k
        BY <2>2, <1>8
    <2>5. ~(j < k) /\ j # k
        BY <2>2, <2>4
    <2>6. k < j
        BY <2>2, <2>5
    <2>7. m[k] < m[j]
        BY <2>2, <2>6, <1>11
    <2> QED BY <2>2, <2>3, <2>4, <2>7
<1>13. \A k \in D : u[k] = t[k]
    BY <1>6, <1>12
<1> QED BY <1>1, <1>13

-----------------------------------------------------------------------------
(* processUserData. *)

(* In a list without gaps the offset of a point is its distance from the   *)
(* first address.                                                          *)
LEMMA OffsetInBlock ==
    ASSUME NEW s \in Seq(Point), Contiguous(s, 1, Len(s)), NEW k \in 1 .. Len(s)
    PROVE  Offset(s, k) = s[k].address - s[1].address
<1> DEFINE D == 1 .. Len(s)
           Step(f) == [n \in D |-> IF n = 1 THEN 0 ELSE f[n - 1] + RegCount(s[n - 1])]
           off == CHOOSE f : f = Step(f)
           dist == [n \in D |-> s[n].address - s[1].address]
<1>1. Offset(s, k) = off[k]
    BY DEF Offset
<1>2. \A n \in D : RegCount(s[n]) \in Nat /\ s[n].address \in Nat
    BY ListType
<1>3. \A n \in D : n # 1 => /\ n - 1 \in D
                            /\ s[n].address = s[n - 1].address + RegCount(s[n - 1])
    <2> TAKE n \in D
    <2> HAVE n # 1
    <2>1. n - 1 \in 1 .. Len(s) - 1 /\ (n - 1) + 1 = n
        OBVIOUS
    <2>2. s[(n - 1) + 1].address = s[n - 1].address + RegCount(s[n - 1])
        BY <2>1 DEF Contiguous
    <2> QED BY <2>1, <2>2
<1>4. 1 \in D
    OBVIOUS
<1>5. dist = Step(dist)
    <2>1. ASSUME NEW n \in D
          PROVE  dist[n] = IF n = 1 THEN 0 ELSE dist[n - 1] + RegCount(s[n - 1])
        <3>1. CASE n = 1
            BY <3>1, <1>2
        <3>2. CASE n # 1
            <4>1. /\ n - 1 \in D
                  /\ s[n].address = s[n - 1].address + RegCount(s[n - 1])
                BY <3>2, <1>3
            <4>2. /\ dist[n] = s[n].address - s[1].address
                  /\ dist[n - 1] = s[n - 1].address - s[1].address
                BY <4>1
            <4> HIDE DEF dist
            <4> QED BY <3>2, <4>1, <4>2, <1>2, <1>4, SMTT(40)
        <3> QED BY <3>1, <3>2
    <2>2. dist = [n \in D |-> dist[n]]
        OBVIOUS
    <2> HIDE DEF dist
    <2> QED BY <2>1, <2>2
<1>6. off = Step(off)
    <2> HIDE DEF dist, Step
    <2> QED BY <1>5
<1>7. \A n \in D : off[n] = IF n = 1 THEN 0 ELSE off[n - 1] + RegCount(s[n - 1])
    <2> HIDE DEF off
    <2> QED BY <1>6
<1> HIDE DEF off
<1>8. \A n \in D : off[n] = s[n].address - s[1].address
    <2> DEFINE Bad == {n \in D : off[n] # s[n].address - s[1].address}
    <2> SUFFICES ASSUME Bad # {} PROVE FALSE
        OBVIOUS
    <2>1. PICK n \in Bad : \A l \in Bad : n <= l
        <3>1. Bad \in SUBSET Nat
            OBVIOUS
        <3> HIDE DEF Bad
        <3> QED BY <3>1, LeastExists
    <2>2. n \in D /\ off[n] # s[n].address - s[1].address
        BY <2>1
    <2>3. n # 1 => off[n - 1] = s[n - 1].address - s[1].address
        BY <1>3, <2>1
    <2> HIDE DEF Bad
    <2>4. CASE n = 1
        BY <2>2, <2>4, <1>2, <1>7
    <2>5. CASE n # 1
        <3>1. n - 1 \in D /\ s[n].address = s[n - 1].address + RegCount(s[n - 1])
            BY <1>3, <2>2, <2>5
        <3>2. off[n] = off[n - 1] + RegCount(s[n - 1])
            BY <1>7, <2>2, <2>5
        <3> QED BY <3>1, <3>2, <2>2, <2>3, <2>5, <1>2, <1>4, SMTT(40)
    <2> QED BY <2>4, <2>5
<1> QED BY <1>1, <1>8

(* The words of the registers of point p. *)
Own(p) == [j \in 1 .. RegCount(p) |-> p.address + j - 1]

(* Given the words of the whole list, processUserData stores under each    *)
(* name the words of its point.                                            *)
LEMMA StoredInBlock ==
    ASSUME NEW s \in Seq(Point), Contiguous(s, 1, Len(s)), NEW k \in 1 .. Len(s),
           s[k].data_type \in Types16 \cup {"FLOAT32"},
           NEW c \in Nat, c = s[Len(s)].address + RegCount(s[Len(s)]) - s[1].address,
           NEW buf, buf = [j \in 1 .. c |-> s[1].address + j - 1]
    PROVE  Stored(s, buf, k) = Own(s[k])
<1> DEFINE o == s[k].address - s[1].address
           N == Len(s)
<1>1. Offset(s, k) = o
    BY OffsetInBlock
<1>2. 1 \in 1 .. N /\ N \in 1 .. N
    OBVIOUS
<1>3. \A n \in 1 .. N : RegCount(s[n]) \in Nat /\ s[n].address \in Nat
    BY ListType
<1>4. \A m, l \in 1 .. N : m < l => s[m].address + RegCount(s[m]) <= s[l].address
    BY <1>2, Ascending
<1>5. s[1].address <= s[k].address
    <2>1. CASE k = 1
        BY <2>1, <1>3
    <2>2. CASE 1 < k
        BY <2>2, <1>2, <1>3, <1>4
    <2> QED BY <2>1, <2>2
<1>6. s[k].address + RegCount(s[k]) <= s[N].address + RegCount(s[N])
    <2>1. CASE k = N
        BY <2>1, <1>3
    <2>2. CASE k < N
        <3>1. s[k].address + RegCount(s[k]) <= s[N].address
            BY <2>2, <1>2, <1>4
        <3> QED BY <3>1, <1>2, <1>3
    <2> QED BY <2>1, <2>2
<1>7. /\ s[1].address \in Nat /\ s[k].address \in Nat /\ RegCount(s[k]) \in Nat
      /\ s[N].address \in Nat /\ RegCount(s[N]) \in Nat
    BY <1>2, <1>3
<1>8. o \in Nat /\ o + RegCount(s[k]) <= c
    BY ONLY <1>5, <1>6, <1>7, c = s[N].address + RegCount(s[N]) - s[1].address, SMTT(40)
<1>9. Len(buf) = c
    OBVIOUS
<1>10. \A j \in 0 .. c - 1 : Word(buf, j) = s[1].address + j
    <2> TAKE j \in 0 .. c - 1
    <2>1. j + 1 \in 1 .. c /\ j < Len(buf)
        BY <1>9
    <2>2. buf[j + 1] = s[1].address + (j + 1) - 1
        BY <2>1
    <2> QED BY <2>1, <2>2, <1>7 DEF Word
<1>11. CASE s[k].data_type \in Types16
    <2>1. RegCount(s[k]) = 1 /\ s[k].data_type # "FLOAT32"
        BY <1>11 DEF RegCount, Types16
    <2>2. Stored(s, buf, k) = <<Word(buf, o)>>
        BY <1>1, <2>1 DEF Stored
    <2>3. o \in 0 .. c - 1 /\ s[1].address + o = s[k].address
        BY ONLY <1>7, <1>8, <2>1, c \in Nat
    <2>4. Word(buf, o) = s[k].address
        BY <1>10, <2>3
    <2>5. Own(s[k]) = <<s[k].address>>
        BY <2>1, <1>7 DEF Own
    <2> QED BY <2>2, <2>4, <2>5
<1>12. CASE s[k].data_type = "FLOAT32"
    <2>1. RegCount(s[k]) = 2
        BY <1>12 DEF RegCount, Types16, Types32
    <2>2. Stored(s, buf, k) = <<Word(buf, o), Word(buf, o + 1)>>
        BY <1>1, <1>12 DEF Stored
    <2>3. /\ o \in 0 .. c - 1 /\ s[1].address + o = s[k].address
          /\ o + 1 \in 0 .. c - 1 /\ s[1].address + (o + 1) = s[k].address + 1
        <3>1. o \in Nat /\ o + 2 <= c /\ s[1].address + o = s[k].address
            BY ONLY <1>7, <1>8, <2>1, c \in Nat
        <3>3. s[1].address + (o + 1) = s[k].address + 1
            BY ONLY <1>7
        <3> HIDE DEF o
        <3>2. o \in 0 .. c - 1 /\ o + 1 \in 0 .. c - 1
            BY ONLY <3>1, c \in Nat
        <3> QED BY <3>1, <3>2, <3>3
    <2>4. Word(buf, o) = s[k].address /\ Word(buf, o + 1) = s[k].address + 1
        BY <1>10, <2>3
    <2>5. Own(s[k]) = <<s[k].address, s[k].address + 1>>
        BY <2>1, <1>7 DEF Own
    <2> QED BY <2>2, <2>4, <2>5
<1> QED BY <1>11, <1>12

(* Such a list makes one range. *)
LEMMA BlockFind ==
    ASSUME NEW s \in Seq(Point), s # << >>, Contiguous(s, 1, Len(s)), RegCount(s[1]) > 0
    PROVE  findContinuousRegisters(s, 1) =
              [start_addr |-> s[1].address,
               count      |-> s[Len(s)].address + RegCount(s[Len(s)]) - s[1].address,
               end_index  |-> Len(s)]
<1> DEFINE S == {e \in 1 .. Len(s) : Contiguous(s, 1, e)}
<1>1. Len(s) \in S /\ 1 \in 1 .. Len(s)
    OBVIOUS
<1>2. Max(S) \in S /\ \A e \in S : e <= Max(S)
    BY <1>1, FindLast
<1>3. Max(S) = Len(s)
    <2>1. Max(S) \in 1 .. Len(s) /\ Len(s) <= Max(S)
        BY <1>1, <1>2
    <2> QED BY <2>1
<1>4. RegCount(s[1]) # 0
    <2>1. s[1] \in Point
        BY <1>1
    <2> QED BY <2>1, PointType
<1> HIDE DEF S
<1> QED BY <1>3, <1>4 DEF findContinuousRegisters, S

-----------------------------------------------------------------------------
(* The inductive invariant. *)

Covers(r, p) == Registers(p) \subseteq r.start_addr .. (r.start_addr + r.count - 1)

(* During a poll and after it the points are sorted; the poll ends behind  *)
(* the last point.                                                         *)
ListInv ==
    /\ points # << >> => points \in Sorted(conf)
    /\ pc # "loop" => points # << >>
    /\ pc = "loop" /\ points # << >> => i = Len(points) + 1

(* The range in work was found at i, the buffer holds its words. *)
RangeInv ==
    /\ pc \in {"read", "process"} =>
          i \in 1 .. Len(points) /\ range = findContinuousRegisters(points, i)
    /\ pc = "process" =>
          /\ range \in attempted
          /\ buffer = [k \in 1 .. range.count |-> range.start_addr + k - 1]

(* The points before i have been asked for. *)
AskedInv ==
    \A k \in 1 .. Len(points) : k < i => \E r \in attempted : Covers(r, points[k])

(* A list that is one block is read from its start, and only what is right *)
(* has been stored.                                                        *)
StoreInv ==
    /\ points = << >> => \A n \in Names(conf) : redis[n] = NONE
    /\ OneBlock => i \in {1, Len(points) + 1} /\ StoredOwnRegisters

PollIInv == PollTypeOK /\ ListInv /\ RangeInv /\ AskedInv /\ StoreInv

LEMMA PollInitIInv == PollInit => PollIInv
<1> SUFFICES ASSUME PollInit PROVE PollIInv
    OBVIOUS
<1> USE DEF PollInit
<1>1. PollTypeOK
    <2>1. conf \in Seq(Point)
        BY ListAssumption
    <2>2. 0 \in Addresses
        BY DEF Addresses
    <2> QED BY <2>1, <2>2 DEF PollTypeOK, NoRange
<1>2. ListInv /\ RangeInv /\ AskedInv
    BY DEF ListInv, RangeInv, AskedInv
<1>3. StoreInv
    BY DEF StoreInv, OneBlock
<1> QED BY <1>1, <1>2, <1>3 DEF PollIInv

(* What the steps use of the sorted list. *)
LEMMA SortedList ==
    ASSUME NEW s \in Seq(Point), NEW t \in Sorted(s)
    PROVE  /\ t \in Seq(Point) /\ Len(t) = Len(s)
           /\ \A k \in 1 .. Len(t) : \E j \in 1 .. Len(s) : t[k] = s[j]
           /\ \A j \in 1 .. Len(s) : \E k \in 1 .. Len(t) : t[k] = s[j]
<1>1. t \in Seq(Point) /\ Len(t) = Len(s)
    BY SortedOrder
<1>2. PICK g : OneToOne(s, t, g)
    BY SortedOrder
<1>3. \A k \in 1 .. Len(t) : \E j \in 1 .. Len(s) : t[k] = s[j]
    BY <1>1, <1>2 DEF OneToOne
<1>4. ASSUME NEW j \in 1 .. Len(s) PROVE \E k \in 1 .. Len(t) : t[k] = s[j]
    <2>1. PICK k \in 1 .. Len(s) : g[k] = j
        BY <1>2 DEF OneToOne
    <2>2. t[k] = s[j]
        BY <1>2, <2>1 DEF OneToOne
    <2> QED BY <1>1, <2>2
<1> QED BY <1>1, <1>3, <1>4

(* A list that is one block can be sorted in one way only. *)
LEMMA BlockUnique ==
    ASSUME NEW s \in Seq(Point), NEW t \in Sorted(s), NEW u \in Sorted(s),
           t # << >>, Contiguous(t, 1, Len(t)),
           \A k \in DOMAIN s : s[k].data_type \in Types16 \cup {"FLOAT32"}
    PROVE  u = t
<1>1. /\ t \in Seq(Point) /\ Len(t) = Len(s)
      /\ \A k \in 1 .. Len(t) : \E j \in 1 .. Len(s) : t[k] = s[j]
    BY SortedList
<1>2. \A k \in 1 .. Len(t) : RegCount(t[k]) \in {1, 2} /\ t[k].address \in Nat
    <2> TAKE k \in 1 .. Len(t)
    <2>1. t[k].data_type \in Types16 \cup {"FLOAT32"}
        BY <1>1
    <2>2. t[k] \in Point
        BY <1>1
    <2>3. t[k].address \in Nat
        BY <2>2, PointType DEF Addresses
    <2> QED BY <2>1, <2>3 DEF RegCount, Types16, Types32
<1>3. 1 \in 1 .. Len(t) /\ Len(t) \in 1 .. Len(t)
    BY <1>1
<1>4. \A k, l \in 1 .. Len(t) : k < l => t[k].address + RegCount(t[k]) <= t[l].address
    BY <1>1, <1>3, Ascending
<1>5. \A k, l \in 1 .. Len(t) : k < l => t[k].address < t[l].address
    BY <1>2, <1>4
<1> QED BY <1>5, SortedUnique

-----------------------------------------------------------------------------
(* The steps. *)

LEMMA StartPollIInv == PollIInv /\ StartPoll => PollIInv'
<1> SUFFICES ASSUME PollIInv, StartPoll PROVE PollIInv'
    OBVIOUS
<1>1. /\ conf' = conf /\ conf # << >> /\ points' \in Sorted(conf) /\ pc' = "find"
      /\ i' = 1 /\ attempted' = {} /\ range' = range /\ buffer' = buffer
      /\ connected' = connected /\ server' = server /\ redis' = redis
    BY DEF StartPoll
<1>2. conf \in Seq(Point) /\ conf \in PointLists
    BY ListAssumption DEF PollIInv, PollTypeOK
<1>3. points' \in Seq(Point) /\ Len(points') = Len(conf)
    BY <1>1, <1>2, SortedList
<1>4. points' # << >>
    BY <1>1, <1>2, <1>3
<1>5. PollTypeOK'
    <2>1. i' \in 1 .. Len(conf') + 1
        BY <1>1, <1>2
    <2>2. range' \in [start_addr : Addresses, count : Nat, end_index : 0 .. Len(conf')]
        BY <1>1 DEF PollIInv, PollTypeOK
    <2>3. /\ DOMAIN redis' = Names(conf') /\ connected' \in BOOLEAN
          /\ server' \in {"up", "down"} /\ buffer' \in Seq(0 .. 2^16)
        BY <1>1 DEF PollIInv, PollTypeOK
    <2> QED BY <1>1, <1>2, <1>3, <2>1, <2>2, <2>3 DEF PollTypeOK
<1>6. ListInv' /\ RangeInv' /\ AskedInv'
    BY <1>1, <1>3, <1>4 DEF ListInv, RangeInv, AskedInv
<1>7. ASSUME OneBlock' PROVE StoredOwnRegisters'
    <2>1. /\ Contiguous(points', 1, Len(points'))
          /\ \A k \in DOMAIN conf : conf[k].data_type \in Types16 \cup {"FLOAT32"}
          /\ \A k, l \in DOMAIN conf : conf[k].name = conf[l].name => k = l
        BY <1>1, <1>7 DEF OneBlock
    <2>2. CASE points = << >>
        <3>1. \A k \in DOMAIN conf : redis[conf[k].name] = NONE
            BY <2>2 DEF PollIInv, StoreInv, Names
        <3> QED BY <3>1, <1>1 DEF StoredOwnRegisters
    <2>3. CASE points # << >>
        <3>1. points \in Sorted(conf)
            BY <2>3 DEF PollIInv, ListInv
        <3>2. points = points'
            BY <3>1, <2>1, <1>1, <1>2, <1>4, BlockUnique
        <3>3. OneBlock
            BY <2>1, <2>3, <3>2 DEF OneBlock
        <3>4. StoredOwnRegisters
            BY <3>3 DEF PollIInv, StoreInv
        <3> QED BY <3>4, <1>1 DEF StoredOwnRegisters
    <2> QED BY <2>2, <2>3
<1>8. StoreInv'
    BY <1>1, <1>4, <1>7 DEF StoreInv
<1> QED BY <1>5, <1>6, <1>8 DEF PollIInv

LEMMA FindRangeIInv == PollIInv /\ FindRange => PollIInv'
<1> SUFFICES ASSUME PollIInv, FindRange PROVE PollIInv'
    OBVIOUS
<1>1. /\ pc = "find" /\ conf' = conf /\ points' = points /\ i' = i /\ buffer' = buffer
      /\ connected' = connected /\ server' = server /\ redis' = redis
      /\ attempted' = attempted
    BY DEF FindRange
<1>2. points \in Seq(Point) /\ points # << >> /\ Len(points) = Len(conf) /\ i \in 1 .. Len(conf) + 1
    BY <1>1 DEF PollIInv, PollTypeOK, ListInv
<1>3. AskedInv' /\ StoreInv'
    BY <1>1 DEF PollIInv, AskedInv, StoreInv, OneBlock, StoredOwnRegisters
<1>4. CASE i <= Len(points)
    <2>1. pc' = "read" /\ range' = findContinuousRegisters(points, i) /\ i \in 1 .. Len(points)
        BY <1>2, <1>4 DEF FindRange
    <2>2. range' \in [start_addr : Addresses, count : Nat, end_index : i .. Len(points)]
        BY <1>2, <2>1, FindRangeExact
    <2>3. range' \in [start_addr : Addresses, count : Nat, end_index : 0 .. Len(conf)]
        BY <1>2, <2>2
    <2>4. PollTypeOK'
        BY <1>1, <2>1, <2>3 DEF PollIInv, PollTypeOK
    <2>5. ListInv' /\ RangeInv'
        BY <1>1, <2>1 DEF PollIInv, ListInv, RangeInv
    <2> QED BY <1>3, <2>4, <2>5 DEF PollIInv
<1>5. CASE ~(i <= Len(points))
    <2>1. pc' = "loop" /\ range' = range /\ i = Len(points) + 1
        BY <1>2, <1>5 DEF FindRange
    <2>2. PollTypeOK'
        BY <1>1, <2>1, Zenon DEF PollIInv, PollTypeOK
    <2>3. ListInv' /\ RangeInv'
        BY <1>1, <2>1 DEF PollIInv, ListInv, RangeInv
    <2> QED BY <1>3, <2>2, <2>3 DEF PollIInv
<1> QED BY <1>4, <1>5

(* The range in work is for the points from i on. *)
LEMMA RangeFacts ==
    ASSUME PollIInv, pc \in {"read", "process"}
    PROVE  /\ points \in Seq(Point) /\ points # << >> /\ Len(points) = Len(conf)
           /\ i \in 1 .. Len(points)
           /\ range \in [start_addr : Addresses, count : Nat, end_index : i .. Len(points)]
           /\ range.start_addr + range.count <= 2^16 + 1
           /\ \A k \in i .. range.end_index : Covers(range, points[k])
           /\ range.end_index + 1 \in 1 .. Len(conf) + 1
           /\ OneBlock => /\ i = 1 /\ range.end_index = Len(points)
                          /\ range.start_addr = points[1].address
                          /\ range.count = points[Len(points)].address
                               + RegCount(points[Len(points)]) - points[1].address
<1>1. points \in Seq(Point) /\ points # << >> /\ Len(points) = Len(conf)
    BY DEF PollIInv, PollTypeOK, ListInv
<1>2. i \in 1 .. Len(points) /\ range = findContinuousRegisters(points, i)
    BY DEF PollIInv, RangeInv
<1>3. /\ range \in [start_addr : Addresses, count : Nat, end_index : i .. Len(points)]
      /\ range.start_addr + range.count <= 2^16 + 1
      /\ range.start_addr .. (range.start_addr + range.count - 1)
             = UNION {Registers(points[k]) : k \in i .. range.end_index}
    BY <1>1, <1>2, FindRangeExact
<1>4. \A k \in i .. range.end_index : Covers(range, points[k])
    BY <1>3 DEF Covers
<1>5. range.end_index + 1 \in 1 .. Len(conf) + 1
    <2>1. range.end_index \in i .. Len(points)
        BY <1>3
    <2> QED BY <2>1, <1>1, <1>2
<1>6. ASSUME OneBlock
      PROVE  /\ i = 1 /\ range.end_index = Len(points)
             /\ range.start_addr = points[1].address
             /\ range.count = points[Len(points)].address
                  + RegCount(points[Len(points)]) - points[1].address
    <2>1. i = 1
        BY <1>1, <1>2, <1>6 DEF PollIInv, StoreInv
    <2>2. RegCount(points[1]) > 0
        <3>1. conf \in Seq(Point) /\ points \in Sorted(conf)
            BY <1>1, ListAssumption DEF PollIInv, PollTypeOK, ListInv
        <3>2. PICK j \in 1 .. Len(conf) : points[1] = conf[j]
            BY <1>2, <2>1, <3>1, SortedList
        <3>3. conf[j].data_type \in Types16 \cup {"FLOAT32"}
            BY <3>1, <1>6 DEF OneBlock
        <3> QED BY <3>2, <3>3 DEF RegCount, Types16, Types32
    <2>3. Contiguous(points, 1, Len(points))
        BY <1>6 DEF OneBlock
    <2>4. range = [start_addr |-> points[1].address,
                   count |-> points[Len(points)].address
                               + RegCount(points[Len(points)]) - points[1].address,
                   end_index |-> Len(points)]
        BY <1>1, <1>2, <2>1, <2>2, <2>3, BlockFind
    <2> QED BY <2>1, <2>4
<1> QED BY <1>1, <1>2, <1>3, <1>4, <1>5, <1>6

LEMMA FunctionIsSequence ==
    ASSUME NEW S, NEW n \in Nat, NEW f \in [1 .. n -> S]
    PROVE  f \in Seq(S)
OBVIOUS

LEMMA WordsType ==
    ASSUME NEW a \in Nat, NEW n \in Nat, a + n <= 2^16 + 1
    PROVE  [k \in 1 .. n |-> a + k - 1] \in Seq(0 .. 2^16)
<1>1. \A k \in 1 .. n : a + k - 1 \in 0 .. 2^16
    OBVIOUS
<1>2. [k \in 1 .. n |-> a + k - 1] \in [1 .. n -> 0 .. 2^16]
    BY <1>1, Zenon
<1> QED BY <1>2, FunctionIsSequence, Zenon

LEMMA ReadOkIInv == PollIInv /\ ReadOk => PollIInv'
<1> SUFFICES ASSUME PollIInv, ReadOk PROVE PollIInv'
    OBVIOUS
<1>1. /\ pc = "read" /\ pc' = "process" /\ conf' = conf /\ points' = points /\ i' = i
      /\ range' = range /\ connected' = connected /\ server' = server /\ redis' = redis
      /\ buffer' = [k \in 1 .. range.count |-> range.start_addr + k - 1]
      /\ attempted' = attempted \cup {range}
    BY DEF ReadOk
<1>2. buffer' \in Seq(0 .. 2^16)
    <2>1. /\ range.start_addr \in Nat /\ range.count \in Nat
          /\ range.start_addr + range.count <= 2^16 + 1
        <3>1. /\ range \in [start_addr : Addresses, count : Nat, end_index : i .. Len(points)]
              /\ range.start_addr + range.count <= 2^16 + 1
            BY <1>1, RangeFacts
        <3>2. range.start_addr \in Addresses /\ range.count \in Nat
            BY <3>1
        <3>3. \A a \in Addresses : a \in Nat
            BY DEF Addresses
        <3> QED BY <3>1, <3>2, <3>3
    <2> QED BY ONLY <1>1, <2>1, WordsType, Zenon
<1>3. PollTypeOK'
    BY <1>1, <1>2, Zenon DEF PollIInv, PollTypeOK
<1>4. ListInv' /\ RangeInv'
    BY <1>1 DEF PollIInv, ListInv, RangeInv
<1>5. AskedInv'
    BY <1>1 DEF PollIInv, AskedInv
<1>6. StoreInv'
    BY <1>1 DEF PollIInv, StoreInv, OneBlock, StoredOwnRegisters
<1> QED BY <1>3, <1>4, <1>5, <1>6 DEF PollIInv

(* After a range, read or not, i is behind it. *)
LEMMA NextRange ==
    ASSUME PollIInv, pc \in {"read", "process"}, range \in attempted',
           attempted \subseteq attempted', i' = range.end_index + 1, pc' = "find",
           UNCHANGED <<conf, points, range>>
    PROVE  /\ ListInv' /\ RangeInv' /\ AskedInv' /\ i' \in 1 .. Len(conf') + 1
           /\ OneBlock' => i' = Len(points') + 1
<1>1. ListInv' /\ RangeInv'
    BY RangeFacts DEF PollIInv, ListInv, RangeInv
<1>2. AskedInv'
    <2> SUFFICES ASSUME NEW k \in 1 .. Len(points), k < range.end_index + 1
                 PROVE  \E r \in attempted' : Covers(r, points[k])
        BY DEF AskedInv
    <2>1. CASE k < i
        BY <2>1 DEF PollIInv, AskedInv
    <2>2. CASE ~(k < i)
        <3>1. range.end_index \in i .. Len(points) /\ i \in 1 .. Len(points)
            BY RangeFacts
        <3>2. k \in i .. range.end_index
            BY <2>2, <3>1
        <3>3. Covers(range, points[k])
            BY <3>2, RangeFacts
        <3> QED BY <3>3
    <2> QED BY <2>1, <2>2
<1>3. i' \in 1 .. Len(conf') + 1
    BY RangeFacts
<1>4. OneBlock' => i' = Len(points') + 1
    <2>1. OneBlock' => OneBlock
        BY DEF OneBlock
    <2> QED BY <2>1, RangeFacts
<1> QED BY <1>1, <1>2, <1>3, <1>4

LEMMA ReadFailsIInv == PollIInv /\ ReadFails => PollIInv'
<1> SUFFICES ASSUME PollIInv, ReadFails PROVE PollIInv'
    OBVIOUS
<1>1. /\ pc = "read" /\ pc' = "find" /\ conf' = conf /\ points' = points
      /\ i' = range.end_index + 1 /\ range' = range /\ connected' = FALSE
      /\ server' = server /\ redis' = redis /\ buffer' = buffer
      /\ attempted' = attempted \cup {range}
    BY DEF ReadFails
<1>2. /\ ListInv' /\ RangeInv' /\ AskedInv' /\ i' \in 1 .. Len(conf') + 1
      /\ OneBlock' => i' = Len(points') + 1
    BY <1>1, NextRange
<1>3. PollTypeOK'
    BY <1>1, <1>2 DEF PollIInv, PollTypeOK
<1>4. StoreInv'
    <2>1. OneBlock' => OneBlock
        BY <1>1 DEF OneBlock
    <2>2. StoredOwnRegisters => StoredOwnRegisters'
        BY <1>1 DEF StoredOwnRegisters
    <2> QED BY <1>1, <1>2, <2>1, <2>2 DEF PollIInv, StoreInv
<1> QED BY <1>2, <1>3, <1>4 DEF PollIInv

(* The stores of one call under OneBlock, whichever of them are made. *)
LEMMA ProcessStores ==
    ASSUME PollIInv, OneBlock, pc = "process", NEW made \in SUBSET DOMAIN points,
           NEW j \in DOMAIN conf
    PROVE  processUserData(redis, points, buffer, made)[conf[j].name] \in {NONE, Own(conf[j])}
<1> DEFINE n == conf[j].name
           mine == {k \in made : points[k].name = n /\ RegCount(points[k]) > 0}
           s == points
<1>1. /\ s \in Seq(Point) /\ s # << >> /\ Len(s) = Len(conf)
      /\ range \in [start_addr : Addresses, count : Nat, end_index : i .. Len(s)]
      /\ range.start_addr = s[1].address
      /\ range.count = s[Len(s)].address + RegCount(s[Len(s)]) - s[1].address
    BY RangeFacts
<1>2. buffer = [k \in 1 .. range.count |-> s[1].address + k - 1]
    BY <1>1 DEF PollIInv, RangeInv
<1>3. conf \in Seq(Point) /\ s \in Sorted(conf) /\ n \in DOMAIN redis
    BY <1>1, ListAssumption DEF PollIInv, PollTypeOK, ListInv, Names
<1>4. /\ DOMAIN s = 1 .. Len(s) /\ DOMAIN conf = 1 .. Len(conf)
      /\ \A k \in 1 .. Len(s) : \E l \in 1 .. Len(conf) : s[k] = conf[l]
      /\ \E k \in 1 .. Len(s) : s[k] = conf[j]
    <2>1. DOMAIN s = 1 .. Len(s) /\ DOMAIN conf = 1 .. Len(conf)
        BY <1>1, <1>3
    <2> QED BY <2>1, <1>3, SortedList
<1>5. /\ Contiguous(s, 1, Len(s))
      /\ \A k \in DOMAIN conf : conf[k].data_type \in Types16 \cup {"FLOAT32"}
      /\ \A k, l \in DOMAIN conf : conf[k].name = conf[l].name => k = l
    BY DEF OneBlock
<1>6. \A k \in mine : k \in 1 .. Len(s) /\ s[k] = conf[j]
    BY <1>4, <1>5
<1>7. processUserData(redis, s, buffer, made)[n] =
         IF mine = {} THEN redis[n] ELSE Stored(s, buffer, Max(mine))
    BY <1>3 DEF processUserData
<1>8. redis[n] \in {NONE, Own(conf[j])}
    BY DEF PollIInv, StoreInv, StoredOwnRegisters, Own
<1>9. CASE mine = {}
    BY <1>7, <1>8, <1>9
<1>10. CASE mine # {}
  <2>1. Max(mine) \in mine
    <3>1. mine \in SUBSET Nat /\ Len(s) \in Nat /\ \A k \in mine : k <= Len(s)
        BY <1>1, <1>6
    <3> HIDE DEF mine
    <3> QED BY <1>10, <3>1, GreatestExists
  <2>2. Max(mine) \in 1 .. Len(s) /\ s[Max(mine)] = conf[j]
    BY <1>6, <2>1
  <2> HIDE DEF mine
  <2>3. s[Max(mine)].data_type \in Types16 \cup {"FLOAT32"}
    BY <1>5, <2>2
  <2> DEFINE m == Max(mine)
             c == range.count
  <2>4. /\ points \in Seq(Point) /\ Contiguous(points, 1, Len(points))
        /\ m \in 1 .. Len(points) /\ points[m].data_type \in Types16 \cup {"FLOAT32"}
        /\ c \in Nat
        /\ c = points[Len(points)].address + RegCount(points[Len(points)])
                 - points[1].address
        /\ buffer = [k \in 1 .. c |-> points[1].address + k - 1]
    BY <1>1, <1>2, <1>5, <2>2, <2>3
  <2> HIDE DEF m, c
  <2>5. Stored(points, buffer, m) = Own(points[m])
    BY ONLY <2>4, StoredInBlock
  <2> QED BY <1>7, <1>10, <2>2, <2>5 DEF m
<1> QED BY <1>9, <1>10

(* Whatever is stored, the invariant on the stores is kept. *)
LEMMA StoresIInv ==
    ASSUME PollIInv, pc = "process", NEW made \in SUBSET DOMAIN points,
           redis' = processUserData(redis, points, buffer, made),
           UNCHANGED <<conf, points>>
    PROVE  /\ DOMAIN redis' = DOMAIN redis
           /\ points' # << >>
           /\ OneBlock' => StoredOwnRegisters'
<1>1. DOMAIN redis' = DOMAIN redis
    BY DEF processUserData
<1>2. points' # << >>
    BY DEF PollIInv, ListInv
<1>3. ASSUME OneBlock' PROVE StoredOwnRegisters'
    <2>1. OneBlock
        BY <1>3 DEF OneBlock
    <2>2. \A j \in DOMAIN conf : redis'[conf[j].name] \in {NONE, Own(conf[j])}
        BY <2>1, ProcessStores
    <2> QED BY <2>2 DEF StoredOwnRegisters, Own
<1> QED BY <1>1, <1>2, <1>3

LEMMA ProcessIInv == PollIInv /\ Process => PollIInv'
<1> SUFFICES ASSUME PollIInv, Process PROVE PollIInv'
    OBVIOUS
<1>1. PICK made \in SUBSET DOMAIN points :
            redis' = processUserData(redis, points, buffer, made)
    BY DEF Process
<1>2. /\ pc = "process" /\ pc' = "find" /\ conf' = conf /\ points' = points
      /\ i' = range.end_index + 1 /\ range' = range /\ connected' = connected
      /\ server' = server /\ buffer' = buffer /\ attempted' = attempted
    BY DEF Process
<1>3. range \in attempted
    BY <1>2 DEF PollIInv, RangeInv
<1>4. /\ ListInv' /\ RangeInv' /\ AskedInv' /\ i' \in 1 .. Len(conf') + 1
      /\ OneBlock' => i' = Len(points') + 1
    BY <1>2, <1>3, NextRange
<1>5. /\ DOMAIN redis' = DOMAIN redis /\ points' # << >>
      /\ OneBlock' => StoredOwnRegisters'
    BY <1>1, <1>2, StoresIInv
<1>6. PollTypeOK'
    BY <1>2, <1>4, <1>5 DEF PollIInv, PollTypeOK
<1>7. StoreInv'
    BY <1>4, <1>5 DEF StoreInv
<1> QED BY <1>4, <1>6, <1>7 DEF PollIInv

LEMMA ProcessFaultsIInv == PollIInv /\ ProcessFaults => PollIInv'
<1> SUFFICES ASSUME PollIInv, ProcessFaults PROVE PollIInv'
    OBVIOUS
<1>1. PICK made \in SUBSET DOMAIN points :
            redis' = processUserData(redis, points, buffer, made)
    BY DEF ProcessFaults
<1>2. /\ pc = "process" /\ pc' = "fault" /\ conf' = conf /\ points' = points
      /\ i' = i /\ range' = range /\ connected' = connected
      /\ server' = "down" /\ buffer' = buffer /\ attempted' = attempted
    BY DEF ProcessFaults
<1>3. ListInv' /\ RangeInv' /\ AskedInv'
    BY <1>2 DEF PollIInv, ListInv, RangeInv, AskedInv
<1>4. /\ DOMAIN redis' = DOMAIN redis /\ points' # << >>
      /\ OneBlock' => StoredOwnRegisters'
    BY <1>1, <1>2, StoresIInv
<1>5. PollTypeOK'
    BY <1>2, <1>4 DEF PollIInv, PollTypeOK
<1>6. StoreInv'
    BY <1>2, <1>4 DEF PollIInv, StoreInv, OneBlock
<1> QED BY <1>3, <1>5, <1>6 DEF PollIInv

LEMMA PollNextIInv == PollIInv /\ [PollNext]_pollVars => PollIInv'
<1> SUFFICES ASSUME PollIInv, [PollNext]_pollVars PROVE PollIInv'
    OBVIOUS
<1>1. ASSUME UNCHANGED <<conf, points, pc, i, range, buffer, redis, attempted>>,
             connected' \in BOOLEAN, server' \in {"up", "down"}
      PROVE  PollIInv'
    <2>1. PollTypeOK'
        BY <1>1 DEF PollIInv, PollTypeOK
    <2>2. ListInv' /\ RangeInv' /\ AskedInv'
        BY <1>1 DEF PollIInv, ListInv, RangeInv, AskedInv
    <2>3. StoreInv'
        BY <1>1 DEF PollIInv, StoreInv, OneBlock, StoredOwnRegisters
    <2> QED BY <2>1, <2>2, <2>3 DEF PollIInv
<1>2. connected \in BOOLEAN /\ server \in {"up", "down"}
    BY DEF PollIInv, PollTypeOK
<1>3. CASE Reconnect
    BY <1>1, <1>2, <1>3, Zenon DEF Reconnect
<1>4. CASE ServerFlips
    BY <1>1, <1>2, <1>4, Zenon DEF ServerFlips
<1>5. CASE UNCHANGED pollVars
    BY <1>1, <1>2, <1>5, Zenon DEF pollVars
<1> QED
    BY <1>3, <1>4, <1>5, StartPollIInv, FindRangeIInv, ReadOkIInv, ReadFailsIInv,
       ProcessIInv, ProcessFaultsIInv
    DEF PollNext, TaskStep

(* PollIInv is an invariant of the poll of one device. *)
THEOREM PollInductiveInvariant == PollSpec => []PollIInv
BY PollInitIInv, PollNextIInv, PTL DEF PollSpec

(* The variables keep their types: in particular the words that are read   *)
(* have addresses of at most 16 bits, up to one behind the last.           *)
THEOREM PollTypeCorrect == PollSpec => []PollTypeOK
<1>1. PollIInv => PollTypeOK
    BY DEF PollIInv
<1> QED BY <1>1, PollInductiveInvariant, PTL

(* findContinuousRegisters asks for exactly the registers of the points it *)
(* covers, whatever the list: none in a gap, none twice.                   *)
THEOREM RangesAreExact == PollSpec => []RangeExact
<1>1. PollIInv => RangeExact
    <2> SUFFICES ASSUME PollIInv, pc = "read" PROVE RangeExact
        BY DEF RangeExact
    <2>1. points \in Seq(Point) /\ i \in 1 .. Len(points)
        BY RangeFacts
    <2>2. range = findContinuousRegisters(points, i)
        BY DEF PollIInv, RangeInv
    <2>3. /\ range \in [start_addr : Addresses, count : Nat, end_index : i .. Len(points)]
          /\ range.start_addr .. (range.start_addr + range.count - 1)
               = UNION {Registers(points[k]) : k \in i .. range.end_index}
          /\ \A k, l \in i .. range.end_index :
                k # l => Registers(points[k]) \cap Registers(points[l]) = {}
        BY <2>1, <2>2, FindRangeExact
    <2>4. i <= range.end_index
        <3>1. range.end_index \in i .. Len(points)
            BY <2>3
        <3> QED BY <3>1, <2>1
    <2> QED BY <2>3, <2>4 DEF RangeExact
<1> QED BY <1>1, PollInductiveInvariant, PTL

(* When processContinuousRegisters returns it has asked for all registers  *)
(* of all points, although it goes on after failed reads.                  *)
THEOREM EveryPointIsAsked == PollSpec => []EveryPointAsked
<1>1. PollIInv => EveryPointAsked
    <2> SUFFICES ASSUME PollIInv, pc = "loop", points # << >>, NEW j \in DOMAIN conf
                 PROVE  \E r \in attempted : Covers(r, conf[j])
        BY DEF EveryPointAsked, Covers
    <2>1. conf \in Seq(Point) /\ points \in Sorted(conf) /\ i = Len(points) + 1
        BY ListAssumption DEF PollIInv, PollTypeOK, ListInv
    <2>2. j \in 1 .. Len(conf)
        BY <2>1
    <2>3. points \in Seq(Point) /\ \E k \in 1 .. Len(points) : points[k] = conf[j]
        BY <2>1, <2>2, SortedList
    <2>4. PICK k \in 1 .. Len(points) : points[k] = conf[j]
        BY <2>3
    <2>5. k < i
        BY <2>1, <2>3
    <2>6. \E r \in attempted : Covers(r, points[k])
        BY <2>5 DEF PollIInv, AskedInv
    <2> QED BY <2>4, <2>6
<1> QED BY <1>1, PollInductiveInvariant, PTL

(* A list that makes one block is stored right, in every poll and whatever *)
(* reads and stores fail: the offsets of processUserData, counted over the *)
(* whole list, are those of the range.                                     *)
THEOREM OneBlockIsStored == PollSpec => []OneBlockStored
<1>1. PollIInv => OneBlockStored
    BY DEF PollIInv, StoreInv, OneBlockStored
<1> QED BY <1>1, PollInductiveInvariant, PTL
=============================================================================

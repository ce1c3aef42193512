------------------------ MODULE Iec61850Client_proofs ------------------------
(***************************************************************************)
(* Proofs about Iec61850Client, for any configuration files, devices and   *)
(* clients of the application.                                             *)
(*                                                                         *)
(* The argument follows the ownership of the client objects: each one that *)
(* was made is held by initClients (cur), by clients_ or by the            *)
(* application, or it was let go in one of the two recorded ways.          *)
(***************************************************************************)
EXTENDS Iec61850Client, TLAPS

Starting == {"next", "init", "connect"}

(* The client that initClients works on is its own. *)
CurInv ==
    pc \in {"init", "connect"} =>
        /\ cur \in Devices
        /\ cur \notin clients \cup todo
        /\ obj[cur] = "alive"

(* initClients, or the destructor, has not come to these yet. *)
TodoInv ==
    /\ pc = "start" => \A d \in Devices : obj[d] = "none"
    /\ pc \in Starting => todo \subseteq Devices /\ \A d \in todo : obj[d] = "none"
    /\ pc = "disconnect" => todo \subseteq clients

(* Who holds a client keeps it alive. *)
OwnerInv ==
    /\ \A d \in clients \cup app : obj[d] = "alive"
    /\ \A d \in Clients : obj[d] = "none" => con[d] = "none" /\ reader[d] = "none"
    /\ pc \in {"start", "exit"} => clients = {} /\ app = {}

(* Only the manager's destructor destroys connections, of what it keeps. *)
ConnInv ==
    /\ \A d \in Clients : con[d] = "destroyed" => pc \in {"disconnect", "gone"}
    /\ pc = "disconnect" => \A d \in clients \ todo : con[d] = "destroyed"
    /\ pc = "gone" => clients = {}

(* A reader only meets what is gone for good. *)
ReaderInv == \A d \in Clients : reader[d] = "ub" => ~Usable(d)

(* A connection belongs to a client that is kept, in work, or let go. *)
HeldInv == \A d \in Clients :
    \/ con[d] \in {"none", "destroyed"}
    \/ d \in clients \cup dropped \cup removed
    \/ d = cur /\ pc \in {"init", "connect"}

(* Every loaded device has a client or is still to come. *)
Configured == loadConfig(file)["IEC61850Devices"]

LoadInv ==
    pc \notin {"start", "exit"} =>
        /\ init(file)
        /\ \A d \in Configured : obj[d] # "none" \/ (d \in todo /\ pc \in Starting)

IInv ==
    /\ TypeOK
    /\ CurInv
    /\ TodoInv
    /\ OwnerInv
    /\ ConnInv
    /\ ReaderInv
    /\ HeldInv
    /\ LoadInv

-----------------------------------------------------------------------------
(* The devices that are loaded are named in the file. *)
LEMMA LoadedType ==
    ASSUME TypeOK
    PROVE  Configured \subseteq Devices
<1> DEFINE nodes == file.section["IEC61850Devices"]
<1>1. nodes \in Seq(Nodes)
    BY FileAssumption DEF TypeOK, Sections
<1>2. \A i \in DOMAIN nodes : nodes[i].id \in Devices
  <2> SUFFICES ASSUME NEW i \in DOMAIN nodes PROVE nodes[i].id \in Devices
      OBVIOUS
  <2>1. nodes[i] \in Nodes
      BY <1>1
  <2> QED
      BY <2>1 DEF Nodes
<1>3. Stored(nodes) \subseteq Devices
    BY <1>2 DEF Stored
<1> QED
    BY <1>3 DEF Configured, loadConfig, Sections

LEMMA InitIInv == Init => IInv
<1> SUFFICES ASSUME Init PROVE IInv
    OBVIOUS
<1>1. TypeOK
    BY DEF Init, TypeOK, ManagerPCs, Conns, ReaderPCs
<1> QED
    BY <1>1 DEF Init, IInv, CurInv, TodoInv, OwnerInv, ConnInv, ReaderInv, HeldInv,
                LoadInv, Starting, Clients

(* A client of initClients is none of the application's. *)
LEMMA Disjoint == Devices \subseteq Clients /\ AppClients \subseteq Clients
                    /\ \A d \in Devices : d \notin AppClients
BY ClientAssumption DEF Clients

(* initClients. *)
LEMMA StartIInv ==
    ASSUME IInv, Start \/ Construct \/ InitEnds \/ InitClient \/ SecondConnect
    PROVE  IInv'
<1> USE Disjoint
        DEF IInv, TypeOK, CurInv, TodoInv, OwnerInv, ConnInv, ReaderInv, HeldInv, LoadInv,
            Usable, ManagerPCs, Conns, ReaderPCs, Starting
<1>0. file' = file /\ Configured' = Configured /\ init(file)' = init(file)
    BY DEF Start, Construct, InitEnds, InitClient, SecondConnect, Configured
<1>1. CASE Start
  <2>1. Configured \subseteq Devices
      BY LoadedType
  <2>2. CASE init(file)
    <3>1. pc' = "next" /\ todo' = Configured /\ \A d \in Devices : obj[d] = "none"
        BY <1>1, <2>2, <2>1 DEF Start, Configured
    <3> QED
        BY <1>0, <1>1, <2>1, <2>2, <3>1 DEF Start
  <2>3. CASE ~init(file)
      BY <1>0, <1>1, <2>3 DEF Start
  <2> QED
      BY <2>2, <2>3
<1>2. CASE Construct
    BY <1>0, <1>2 DEF Construct
<1>3. CASE InitEnds
    BY <1>0, <1>3 DEF InitEnds
<1>4. CASE InitClient
    BY <1>0, <1>4 DEF InitClient
<1>5. CASE SecondConnect
  <2>1. CASE Drop
      BY <1>0, <1>5, <2>1 DEF SecondConnect, Drop
  <2>2. CASE /\ con' = [con EXCEPT ![cur] = "connected"]
             /\ clients' = clients \cup {cur}
             /\ UNCHANGED <<obj, dropped>>
      BY <1>0, <1>5, <2>2 DEF SecondConnect
  <2> QED
      BY <1>5, <2>1, <2>2 DEF SecondConnect
<1> QED
    BY <1>1, <1>2, <1>3, <1>4, <1>5

(* The destructor of the manager. *)
LEMMA DestructIInv ==
    ASSUME IInv, Destruct \/ Disconnect \/ Clear
    PROVE  IInv'
<1> USE Disjoint
        DEF IInv, TypeOK, CurInv, TodoInv, OwnerInv, ConnInv, ReaderInv, HeldInv, LoadInv,
            Usable, ManagerPCs, Conns, ReaderPCs, Starting
<1>0. file' = file /\ Configured' = Configured /\ init(file)' = init(file)
    BY DEF Destruct, Disconnect, Clear, Configured
<1>1. CASE Destruct
    BY <1>0, <1>1 DEF Destruct
<1>2. CASE Disconnect
  <2>1. PICK d \in todo : con' = [con EXCEPT ![d] = "destroyed"] /\ todo' = todo \ {d}
      BY <1>2 DEF Disconnect
  <2>2. TypeOK' /\ CurInv' /\ TodoInv' /\ LoadInv'
      BY <1>0, <1>2, <2>1 DEF Disconnect
  <2>3. OwnerInv'
      BY <1>2, <2>1 DEF Disconnect
  <2>4. ConnInv'
      BY <1>2, <2>1 DEF Disconnect
  <2>5. ReaderInv' /\ HeldInv'
      BY <1>2, <2>1 DEF Disconnect
  <2> QED
      BY <2>2, <2>3, <2>4, <2>5
<1>3. CASE Clear
  <2>1. TypeOK' /\ CurInv' /\ TodoInv'
      BY <1>3 DEF Clear
  <2>2. LoadInv'
      BY <1>0, <1>3, LoadedType DEF Clear
  <2>3. OwnerInv'
      BY <1>3 DEF Clear
  <2>4. ConnInv'
      BY <1>3 DEF Clear
  <2>5. ReaderInv'
      BY <1>3 DEF Clear
  <2>6. HeldInv'
      BY <1>3 DEF Clear
  <2> QED
      BY <2>1, <2>2, <2>3, <2>4, <2>5, <2>6
<1> QED
    BY <1>1, <1>2, <1>3

LEMMA AppIInv ==
    ASSUME IInv, NEW d \in AppClients,
           AddClient(d) \/ RemoveClient(d) \/ AppDrops(d) \/ AppInit(d)
    PROVE  IInv'
<1> USE Disjoint
        DEF IInv, TypeOK, CurInv, TodoInv, OwnerInv, ConnInv, ReaderInv, HeldInv, LoadInv,
            Usable, ManagerPCs, Conns, ReaderPCs, Starting
<1>0. file' = file /\ Configured' = Configured /\ init(file)' = init(file)
    BY DEF AddClient, RemoveClient, AppDrops, AppInit, Configured
<1>1. CASE AddClient(d)
    BY <1>0, <1>1 DEF AddClient
<1>2. CASE RemoveClient(d)
    BY <1>0, <1>2 DEF RemoveClient
<1>3. CASE AppDrops(d)
    BY <1>0, <1>3 DEF AppDrops, Release
<1>4. CASE AppInit(d)
    BY <1>0, <1>4 DEF AppInit
<1> QED
    BY <1>1, <1>2, <1>3, <1>4

LEMMA ReaderIInv ==
    ASSUME IInv, NEW d \in Clients, ReaderStep(d) \/ ConnectionLost(d)
    PROVE  IInv'
<1> USE Disjoint
        DEF IInv, TypeOK, CurInv, TodoInv, OwnerInv, ConnInv, ReaderInv, HeldInv, LoadInv,
            Usable, ManagerPCs, Conns, ReaderPCs, Starting
<1>0. file' = file /\ Configured' = Configured /\ init(file)' = init(file)
    BY DEF ReaderStep, ReaderEnds, ReaderStarts, ReaderWhile, ReaderRead, ReaderSleep,
           readerGoes, ConnectionLost, Configured
<1>1. CASE ReaderEnds(d) \/ ReaderStarts(d)
    BY <1>0, <1>1 DEF ReaderEnds, ReaderStarts, readerGoes
<1>2. CASE ReaderWhile(d) \/ ReaderSleep(d)
    BY <1>0, <1>2 DEF ReaderWhile, ReaderSleep, readerGoes
<1>3. CASE ReaderRead(d)
    BY <1>0, <1>3 DEF ReaderRead, readerGoes
<1>4. CASE ConnectionLost(d)
    BY <1>0, <1>4 DEF ConnectionLost
<1> QED
    BY <1>1, <1>2, <1>3, <1>4 DEF ReaderStep

LEMMA NextIInv == IInv /\ [Next]_vars => IInv'
<1> SUFFICES ASSUME IInv, [Next]_vars PROVE IInv'
    OBVIOUS
<1>1. CASE ManagerStep \/ Destruct
    BY <1>1, StartIInv, DestructIInv DEF ManagerStep
<1>2. CASE \E d \in AppClients : AddClient(d) \/ RemoveClient(d) \/ AppDrops(d) \/ AppInit(d)
    BY <1>2, AppIInv
<1>3. CASE \E d \in Clients : ReaderStep(d) \/ ConnectionLost(d)
    BY <1>3, ReaderIInv
<1>4. CASE UNCHANGED vars
  <2>1. Configured' = Configured /\ init(file)' = init(file)
      BY <1>4 DEF vars, Configured
  <2> QED
      BY <1>4, <2>1 DEF vars, IInv, TypeOK, CurInv, TodoInv, OwnerInv, ConnInv, ReaderInv,
                        HeldInv, LoadInv, Usable
<1> QED
    BY <1>1, <1>2, <1>3, <1>4 DEF Next

(* IInv is an invariant of the specification. *)
THEOREM InductiveInvariant == Spec => []IInv
BY InitIInv, NextIInv, PTL DEF Spec

(* The variables keep their types. *)
THEOREM TypeCorrect == Spec => []TypeOK
<1>1. IInv => TypeOK
    BY DEF IInv
<1> QED
    BY <1>1, InductiveInvariant, PTL

(* Until the manager is destroyed, what it keeps is alive and connected or *)
(* at least not destroyed, and no reader of a kept client has gone wrong.  *)
THEOREM KeptClientsAreUsable == Spec => []KeptClientsUsable
<1>1. IInv => KeptClientsUsable
    BY DEF IInv, TypeOK, OwnerInv, ConnInv, ReaderInv, Usable, KeptClientsUsable
<1> QED
    BY <1>1, InductiveInvariant, PTL

(* The destructor disconnects every client that is in clients_. *)
THEOREM OnlyDroppedStayOpen == Spec => []LeftOpenExplained
<1>1. IInv => LeftOpenExplained
    BY DEF IInv, ConnInv, HeldInv, LeftOpenExplained
<1> QED
    BY <1>1, InductiveInvariant, PTL

(* Every sound device node of the section is tried, whatever the other     *)
(* sections and the other devices are like.                                *)
THEOREM GoodDevicesAreTried == Spec => []GoodDevicesTried
<1>1. IInv => GoodDevicesTried
  <2> DEFINE nodes == file.section["IEC61850Devices"]
  <2> SUFFICES ASSUME IInv, pc \in {"ready", "disconnect", "gone"}, NEW i \in DOMAIN nodes,
                      \A j \in 1 .. i : nodes[j].fault = "none"
               PROVE  obj[nodes[i].id] # "none"
      BY DEF GoodDevicesTried
  <2>1. nodes[i].id \in Stored(nodes)
      BY DEF Stored
  <2>2. file.readable /\ \A p \in ParsedBefore("IEC61850Devices") : ~Throws(file.section[p])
      BY DEF IInv, LoadInv, init, ParsedBefore
  <2>3. Configured = Stored(nodes)
      BY <2>2 DEF Configured, loadConfig, Sections
  <2> QED
      BY <2>1, <2>3 DEF IInv, LoadInv, Starting
<1> QED
    BY <1>1, InductiveInvariant, PTL
=============================================================================

--------------------------- MODULE Iec61850Client ---------------------------
(***************************************************************************)
(* iec61850ClientManger and its clients (core/iec61850), from the start of *)
(* the gateway: main() loads the configuration, then initClients() makes   *)
(* one client per loaded device and connects it, twice.  A successful      *)
(* init() detaches a reader thread that uses the client's members for ever *)
(* and owns no shared_ptr.  A client is named by its device_id, or is one  *)
(* that the application makes itself.                                      *)
(***************************************************************************)
EXTENDS Config, FiniteSets

CONSTANTS
    Files,       \* the configuration files considered
    AppClients,  \* clients the application makes and adds itself
    NULL         \* no client

ASSUME FileAssumption ==
    Files \subseteq [readable : BOOLEAN, section : [Sections -> Seq(Nodes)]]
ASSUME ClientAssumption == AppClients \cap Devices = {} /\ NULL \notin AppClients \cup Devices

Clients == Devices \cup AppClients

VARIABLES
    file,     \* the configuration file
    pc,       \* what the manager does
    cur,      \* the device initClients is at
    todo,     \* configured devices it has not come to yet
    clients,  \* clients_
    app,      \* clients the application holds a shared_ptr to
    obj,      \* each client object: "none", "alive" or "freed"
    con,      \* its IedConnection, con_
    reader,   \* program counter of its detached reader
    dropped,  \* history: clients that a failed second connect let go
    removed   \* history: clients taken out with removeClient

vars == <<file, pc, cur, todo, clients, app, obj, con, reader, dropped, removed>>

ManagerPCs == {"start", "exit", "next", "init", "connect", "ready", "disconnect", "gone"}

(* "idle" is created and not connected, "closed" was connected before.     *)
Conns == {"none", "idle", "connected", "closed", "destroyed"}

(* "done" left readAllValues early; "ub" used a freed object or connection *)
ReaderPCs == {"none", "start", "while", "read", "sleep", "done", "ub"}

TypeOK ==
    /\ file \in Files
    /\ pc \in ManagerPCs
    /\ cur \in Devices \cup {NULL}
    /\ todo \subseteq Clients
    /\ clients \subseteq Clients
    /\ app \subseteq AppClients
    /\ obj \in [Clients -> {"none", "alive", "freed"}]
    /\ con \in [Clients -> Conns]
    /\ reader \in [Clients -> ReaderPCs]
    /\ dropped \subseteq Devices
    /\ removed \subseteq AppClients

Init ==
    /\ file \in Files
    /\ pc = "start"
    /\ cur = NULL
    /\ todo = {}
    /\ clients = {}
    /\ app = {}
    /\ obj = [d \in Clients |-> "none"]
    /\ con = [d \in Clients |-> "none"]
    /\ reader = [d \in Clients |-> "none"]
    /\ dropped = {}
    /\ removed = {}

-----------------------------------------------------------------------------
(* main(): the gateway exits when init() returns false; otherwise          *)
(* initClients() goes over the configured devices, in no fixed order.      *)
Start ==
    /\ pc = "start"
    /\ IF init(file)
         THEN pc' = "next" /\ todo' = loadConfig(file)["IEC61850Devices"]
         ELSE pc' = "exit" /\ UNCHANGED todo
    /\ UNCHANGED <<file, cur, clients, app, obj, con, reader, dropped, removed>>

(* make_shared: the constructor creates a connection. *)
Construct ==
    /\ pc = "next"
    /\ \E d \in todo :
          /\ cur' = d
          /\ todo' = todo \ {d}
          /\ obj' = [obj EXCEPT ![d] = "alive"]
          /\ con' = [con EXCEPT ![d] = "idle"]
    /\ pc' = "init"
    /\ UNCHANGED <<file, clients, app, reader, dropped, removed>>

InitEnds ==
    /\ pc = "next" /\ todo = {}
    /\ pc' = "ready"
    /\ cur' = NULL
    /\ UNCHANGED <<file, todo, clients, app, obj, con, reader, dropped, removed>>

(* iec61850Client::init: the first connect, and a reader if it succeeds. *)
InitClient ==
    /\ pc = "init"
    /\ \/ /\ con' = [con EXCEPT ![cur] = "connected"]
          /\ reader' = [reader EXCEPT ![cur] = "start"]
       \/ UNCHANGED <<con, reader>>
    /\ pc' = "connect"
    /\ UNCHANGED <<file, cur, todo, clients, app, obj, dropped, removed>>

(* The shared_ptr of initClients goes; the destructor leaves con_ alone. *)
Drop ==
    /\ obj' = [obj EXCEPT ![cur] = "freed"]
    /\ dropped' = dropped \cup {cur}
    /\ UNCHANGED <<con, clients>>

(* Mutant: a client whose connect fails is kept, and closed at once. *)
SecondConnectCloses ==
    /\ pc = "connect"
    /\ clients' = clients \cup {cur}
    /\ \/ con[cur] # "connected" /\ con' = [con EXCEPT ![cur] = "connected"]
       \/ con' = [con EXCEPT ![cur] = "destroyed"]
    /\ pc' = "next"
    /\ UNCHANGED <<file, cur, todo, app, obj, reader, dropped, removed>>

(* Mutant: a client is kept only as long as no other one is. *)
SecondConnectReplaces ==
    /\ pc = "connect"
    /\ \/ /\ con[cur] # "connected"
          /\ con' = [con EXCEPT ![cur] = "connected"]
          /\ clients' = {cur}
          /\ UNCHANGED <<obj, dropped>>
       \/ Drop
    /\ pc' = "next"
    /\ UNCHANGED <<file, cur, todo, app, reader, removed>>

(* The second connect.  It fails when the connection of the first one is   *)
(* still there (IED_ERROR_ALREADY_CONNECTED), and may fail otherwise.      *)
SecondConnect ==
    /\ pc = "connect"
    /\ \/ /\ con[cur] # "connected"
          /\ con' = [con EXCEPT ![cur] = "connected"]
          /\ clients' = clients \cup {cur}
          /\ UNCHANGED <<obj, dropped>>
       \/ Drop
    /\ pc' = "next"
    /\ UNCHANGED <<file, cur, todo, app, reader, removed>>

-----------------------------------------------------------------------------
(* The application's own clients: it makes one, hands it to addClient, and *)
(* may take it back; it lets go of its own shared_ptr at any time.  It     *)
(* does not use a client again that the manager has disconnected.          *)
AddClient(d) ==
    /\ pc \in {"next", "ready"} /\ obj[d] = "none"
    /\ obj' = [obj EXCEPT ![d] = "alive"]
    /\ con' = [con EXCEPT ![d] = "idle"]
    /\ clients' = clients \cup {d}
    /\ app' = app \cup {d}
    /\ UNCHANGED <<file, pc, cur, todo, reader, dropped, removed>>

Release(d, owners) == IF d \in owners THEN obj ELSE [obj EXCEPT ![d] = "freed"]

RemoveClient(d) ==
    /\ pc \in {"next", "ready"} /\ d \in clients /\ d \in app
    /\ clients' = clients \ {d}
    /\ removed' = removed \cup {d}
    /\ UNCHANGED <<file, pc, cur, todo, app, obj, con, reader, dropped>>

AppDrops(d) ==
    /\ d \in app
    /\ app' = app \ {d}
    /\ obj' = Release(d, clients)
    /\ UNCHANGED <<file, pc, cur, todo, clients, con, reader, dropped, removed>>

(* init() of a client that is not connected, called by its owner.  When    *)
(* the connect fails nothing changes.                                      *)
AppInit(d) ==
    /\ d \in app /\ con[d] \in {"idle", "closed"} /\ reader[d] = "none"
    /\ con' = [con EXCEPT ![d] = "connected"]
    /\ reader' = [reader EXCEPT ![d] = "start"]
    /\ UNCHANGED <<file, pc, cur, todo, clients, app, obj, dropped, removed>>

-----------------------------------------------------------------------------
(* ~iec61850ClientManger. *)
Destruct ==
    /\ pc = "ready"
    /\ pc' = "disconnect"
    /\ todo' = clients
    /\ UNCHANGED <<file, cur, clients, app, obj, con, reader, dropped, removed>>

(* disconnect() closes and destroys the connection; con_ keeps its value. *)
Disconnect ==
    /\ pc = "disconnect"
    /\ \E d \in todo :
          /\ con' = [con EXCEPT ![d] = "destroyed"]
          /\ todo' = todo \ {d}
    /\ UNCHANGED <<file, pc, cur, clients, app, obj, reader, dropped, removed>>

Clear ==
    /\ pc = "disconnect" /\ todo = {}
    /\ obj' = [d \in Clients |-> IF d \in clients \ app THEN "freed" ELSE obj[d]]
    /\ clients' = {}
    /\ pc' = "gone"
    /\ UNCHANGED <<file, cur, todo, app, con, reader, dropped, removed>>

ManagerStep ==
    Start \/ Construct \/ InitEnds \/ InitClient \/ SecondConnect \/ Disconnect \/ Clear

-----------------------------------------------------------------------------
(* The detached reader of one client.  running_ is never cleared. *)
Usable(d) == obj[d] = "alive" /\ con[d] # "destroyed"

readerGoes(d, here, next) ==
    /\ reader[d] = here
    /\ reader' = [reader EXCEPT ![d] = next]
    /\ UNCHANGED <<file, pc, cur, todo, clients, app, obj, con, dropped, removed>>

(* Redis is not there, or the ICD file has no nodes. *)
ReaderEnds(d) == readerGoes(d, "start", "done")

ReaderStarts(d) == readerGoes(d, "start", IF obj[d] = "alive" THEN "while" ELSE "ub")

ReaderWhile(d) == readerGoes(d, "while", IF obj[d] = "alive" THEN "read" ELSE "ub")

(* One object is read through con_; what fails is logged.  The values go   *)
(* to the reader's own Redis client.                                       *)
ReaderRead(d) ==
    \/ readerGoes(d, "read", IF Usable(d) THEN "read" ELSE "ub")
    \/ Usable(d) /\ readerGoes(d, "read", "sleep")

ReaderSleep(d) == readerGoes(d, "sleep", "while")

ReaderStep(d) ==
    ReaderEnds(d) \/ ReaderStarts(d) \/ ReaderWhile(d) \/ ReaderRead(d) \/ ReaderSleep(d)

(* Environment: the server or the network closes the association. *)
ConnectionLost(d) ==
    /\ con[d] = "connected"
    /\ con' = [con EXCEPT ![d] = "closed"]
    /\ UNCHANGED <<file, pc, cur, todo, clients, app, obj, reader, dropped, removed>>

Next ==
    \/ ManagerStep
    \/ Destruct
    \/ \E d \in AppClients : AddClient(d) \/ RemoveClient(d) \/ AppDrops(d) \/ AppInit(d)
    \/ \E d \in Clients : ReaderStep(d) \/ ConnectionLost(d)

Spec == Init /\ [][Next]_vars

-----------------------------------------------------------------------------
(* Properties. *)

(* Once initClients has returned, every device node that is sound, with    *)
(* sound nodes before it in its own section, has been tried: neither a     *)
(* fault in another section nor a device that cannot be reached prevents   *)
(* it, and the gateway has not started on a file that was cut short.       *)
GoodDevicesTried ==
    LET nodes == file.section["IEC61850Devices"] IN
    pc \in {"ready", "disconnect", "gone"} =>
        \A i \in DOMAIN nodes :
            (\A j \in 1 .. i : nodes[j].fault = "none") =>
                obj[nodes[i].id] # "none"

(* A client in clients_ is alive and has its connection until the          *)
(* destructor of the manager disconnects it, and its reader, which holds   *)
(* no shared_ptr, has met no freed object: the unsafe readers are those of *)
(* the clients that initClients dropped after their second connect, of     *)
(* removed clients, and of all clients once the manager is destroyed.      *)
KeptClientsUsable ==
    pc \notin {"disconnect", "gone"} =>
        \A d \in clients : Usable(d) /\ reader[d] # "ub"

(* After the manager's destructor the only connections that are left are   *)
(* those of dropped or removed clients: each client in clients_ has been   *)
(* disconnected.                                                           *)
LeftOpenExplained ==
    pc = "gone" => \A d \in Clients :
        con[d] \in {"none", "destroyed"} \/ d \in dropped \cup removed

=============================================================================

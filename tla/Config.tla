------------------------------- MODULE Config -------------------------------
(***************************************************************************)
(* Config (common/config/config.cc): what is loaded from config.yaml, and  *)
(* what init() answers.  Loading is done once, before any thread starts,   *)
(* so it is an operator on the file.                                       *)
(*                                                                         *)
(* A file has three sections, in the order in which they are parsed.  A    *)
(* section is the sequence of its device nodes: an absent section is the   *)
(* empty sequence, one that is not a YAML sequence acts as one node that   *)
(* is not supported.  Of a node only its device_id and its first fault     *)
(* matter:                                                                 *)
(*   "none"        everything is there;                                    *)
(*   "missing"     a key is absent or has a value of another type: both    *)
(*                 as<T>() and IsNull() throw on an absent node;           *)
(*   "null"        a key of IEC61850Devices or IEC104Devices that must not *)
(*                 be empty is: the parse function returns false;          *)
(*   "unsupported" an unknown Modbus type or data_type, no TCP, RTU or     *)
(*                 data_points: the parse function returns false.          *)
(***************************************************************************)
EXTENDS Integers, Sequences

CONSTANT Devices  \* device_id values

Faults == {"none", "missing", "null", "unsupported"}

Nodes == [id : Devices, fault : Faults]

(* loadConfig calls the parse functions in this order. *)
Order == [ModbusDevices |-> 1, IEC61850Devices |-> 2, IEC104Devices |-> 3]

Sections == {"ModbusDevices", "IEC61850Devices", "IEC104Devices"}

ParsedBefore(s) == {p \in Sections : Order[p] < Order[s]}

(* The devices a parse function stores in its map: it stops at the first   *)
(* node with a fault, and what it stored before stays.                     *)
Stored(nodes) ==
    {nodes[i].id : i \in {k \in DOMAIN nodes : \A j \in 1 .. k : nodes[j].fault = "none"}}

Throws(nodes) ==
    \E k \in DOMAIN nodes :
        nodes[k].fault = "missing" /\ \A j \in 1 .. k - 1 : nodes[j].fault = "none"

(* Mutant: a section whose parse function returns false ends the loading. *)
LoadedUntilFault(file) ==
    [s \in Sections |->
        IF file.readable /\ \A p \in ParsedBefore(s) :
                                \A i \in DOMAIN file.section[p] : file.section[p][i].fault = "none"
          THEN Stored(file.section[s]) ELSE {}]

(* loadConfig: a parse function that returns false is only logged; one     *)
(* that throws ends the loading, and init() returns false.                 *)
loadConfig(file) ==
    [s \in Sections |->
        IF file.readable /\ \A p \in ParsedBefore(s) : ~Throws(file.section[p])
          THEN Stored(file.section[s]) ELSE {}]

init(file) == file.readable /\ \A s \in Sections : ~Throws(file.section[s])
=============================================================================

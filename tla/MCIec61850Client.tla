-------------------------- MODULE MCIec61850Client --------------------------
(* Files with sound and faulty sections, and a duplicate device_id. *)
EXTENDS Iec61850Client

CONSTANTS d1, d2

File(modbus, iec61850) ==
    [readable |-> TRUE,
     section |-> [s \in Sections |-> CASE s = "ModbusDevices" -> modbus
                                       [] s = "IEC61850Devices" -> iec61850
                                       [] OTHER -> <<>>]]

Node(d, f) == [id |-> d, fault |-> f]

MCFiles ==
    {File(m, i) : m \in {<<>>, <<Node(d1, "unsupported")>>, <<Node(d1, "missing")>>},
                  i \in {<<Node(d1, "none"), Node(d2, "none")>>,
                         <<Node(d1, "none"), Node(d2, "null")>>,
                         <<Node(d1, "none"), Node(d1, "none")>>,
                         <<Node(d1, "missing"), Node(d2, "none")>>}}
    \cup {[File(<<>>, <<>>) EXCEPT !.readable = FALSE]}
=============================================================================

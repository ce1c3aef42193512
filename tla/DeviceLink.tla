----------------------------- MODULE DeviceLink -----------------------------
(***************************************************************************)
(* What ModbusApi promises its users about one device, with no threads,    *)
(* mutex or pointers: at most one connection at a time is opened, it is    *)
(* used once it is established and until it is dropped, a new one is only  *)
(* opened after the old one has gone, and giving up is for good.           *)
(***************************************************************************)
CONSTANT Conns  \* identities of connections

VARIABLES
    opened,  \* connections that hold a socket or a serial port
    link     \* what a caller of readRegisters finds

vars == <<opened, link>>

Init ==
    \/ opened = {} /\ link = "down"
    \/ \E c \in Conns : opened = {c} /\ link = "up"

Open ==
    /\ link = "down" /\ opened = {}
    /\ \E c \in Conns : opened' = {c}
    /\ UNCHANGED link

Establish ==
    /\ link = "down" /\ opened # {}
    /\ link' = "up"
    /\ UNCHANGED opened

(* An attempt fails, or the device is dropped after a failed request. *)
Drop ==
    /\ link \in {"down", "up"} /\ opened # {}
    /\ opened' = {}
    /\ link' = "down"

GiveUp ==
    /\ link = "down" /\ opened = {}
    /\ link' = "gaveUp"
    /\ UNCHANGED opened

Next == Open \/ Establish \/ Drop \/ GiveUp

Spec == Init /\ [][Next]_vars
=============================================================================

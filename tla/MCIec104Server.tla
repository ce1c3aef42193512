--------------------------- MODULE MCIec104Server ---------------------------
(* Instances of Iec104Server for TLC. *)
EXTENDS Iec104Server

(* 200 can be added and written once more, the others only added. *)
MCMaxVer == [i \in IOAs |-> IF i = 200 THEN 2 ELSE 1]

MasterSymmetry == Permutations(Masters)
=============================================================================

---------------------------- MODULE MCPacketPath ---------------------------
(* Instances of PacketPath: one NIC queue and one virtual interface. *)
EXTENDS PacketPath

CONSTANTS nic, veth

Across == [p \in {nic, veth} |-> IF p = nic THEN {veth} ELSE {nic}]
=============================================================================

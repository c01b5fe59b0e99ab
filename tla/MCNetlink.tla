----------------------------- MODULE MCNetlink ------------------------------
(* An instance of Netlink: two pods whose veth names are the same once cut. *)
EXTENDS Netlink

MCOrdinary == <<"o1", "o2">>
MCBridged == <<"b1", "b2">>
MCBridge == [p \in {"b1", "b2"} |-> IF p = "b1" THEN "br1" ELSE "br2"]
MCHostName == [p \in {"o1", "o2", "b1", "b2"} |-> IF p \in {"b1", "b2"} THEN "veth-b" ELSE "veth-o"]
=============================================================================

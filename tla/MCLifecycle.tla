---------------------------- MODULE MCLifecycle ----------------------------
(* Small instances of Lifecycle. *)
EXTENDS Lifecycle, TLC

Scan    == "scan"
Receive == "receive"

MCKind   == [w \in Workers |-> IF w = Scan THEN "discover" ELSE "receive"]
SamePort == [w \in Workers |-> 9090]
TwoPorts == [w \in Workers |-> IF w = Scan THEN 9090 ELSE 9091]
=============================================================================

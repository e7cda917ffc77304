----------------------------- MODULE TransportMC -----------------------------
(* Two outgoing connections to one listening address and an accepted one.  *)
EXTENDS Transport

MCAddrOf == [c \in Conn |-> IF c \in Outgoing THEN "listener" ELSE "remote"]
=============================================================================

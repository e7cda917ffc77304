----------------------------- MODULE PeerTableMC -----------------------------
(* Outgoing connections go to one listening address of node "p"; accepted  *)
(* ones come from node "q", each from an address of its own.               *)
EXTENDS PeerTable

MCAddrOf == [c \in Conn |-> IF c \in Outgoing THEN "listener" ELSE "remote"]
MCEndOf == [c \in Conn |-> IF c \in Outgoing THEN "p" ELSE "q"]
=============================================================================

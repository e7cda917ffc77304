------------------------------ MODULE Broadcast ------------------------------
(***************************************************************************)
(* What flooding promises: a message reaches nodes one at a time, each at  *)
(* most once, and only after its origin has sent it.  It may fail to reach *)
(* some.                                                                   *)
(***************************************************************************)
CONSTANTS Node, Message, From   \* From[m]: the node message m comes from

VARIABLES sentMessages,  \* messages their origin has sent
          reached        \* reached[n]: messages delivered at node n

broadcastVars == <<sentMessages, reached>>

BroadcastInit ==
    /\ sentMessages = {}
    /\ reached = [n \in Node |-> {}]

SendMessage(m) ==
    /\ m \notin sentMessages
    /\ sentMessages' = sentMessages \cup {m}
    /\ UNCHANGED reached

DeliverMessage(n, m) ==
    /\ m \in sentMessages
    /\ n # From[m]
    /\ m \notin reached[n]
    /\ reached' = [reached EXCEPT ![n] = @ \cup {m}]
    /\ UNCHANGED sentMessages

BroadcastNext ==
    \E m \in Message : SendMessage(m) \/ \E n \in Node : DeliverMessage(n, m)

BroadcastSpec == BroadcastInit /\ [][BroadcastNext]_broadcastVars
=============================================================================

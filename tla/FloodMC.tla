------------------------------- MODULE FloodMC -------------------------------
(* A kite: the triangle a - b - c with the tail c - d - e.  Packet "m" is  *)
(* a message of a, "n" one of d, "v" a LEAVE of b and "k" an acknowledge-  *)
(* ment of c for a.  e is three links away from b, one more than the TTL   *)
(* of v.  The Bloom filter of c is full after one message.                 *)
EXTENDS Flood

Edge == {<<"a", "b">>, <<"b", "c">>, <<"a", "c">>, <<"c", "d">>, <<"d", "e">>}
Kite == Edge \cup {<<p[2], p[1]>> : p \in Edge}

MCKind == [m |-> "message", n |-> "message", v |-> "leave", k |-> "ack"]
MCOrigin == [m |-> "a", n |-> "d", v |-> "b", k |-> "c"]
MCRecipient == [x \in Packet |-> "a"]
MCTTL == [m |-> 3, n |-> 2, v |-> 2, k |-> 2]
MCCapacity == [x \in Node |-> IF x = "c" THEN 0 ELSE 5000]

TailLink == {<<"c", "d">>}
DBlocksA == {<<"d", "a">>}
=============================================================================

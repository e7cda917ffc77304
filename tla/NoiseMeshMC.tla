---------------------------- MODULE NoiseMeshMC ----------------------------
(* Two neighbours, 1 with the lower peer id.  With c1 and c2, opened by 1  *)
(* and by 2, both nodes list each other as bootstrap peers; with AllByOne  *)
(* only node 1 dials.                                                      *)
EXTENDS NoiseMesh

MCNode == {1, 2}
OpenedBy == [c1 |-> 1, c2 |-> 2]
MCOpener == [c \in Conn |-> OpenedBy[c]]
MCAcceptor == [c \in Conn |-> 3 - OpenedBy[c]]
AllByOne == [c \in Conn |-> 1]
AllToTwo == [c \in Conn |-> 2]
OneBlocksTwo == [n \in Node |-> IF n = 1 THEN {2} ELSE {}]
NoneBlocked == [n \in Node |-> {}]
=============================================================================

------------------------------ MODULE PeerTable ------------------------------
(***************************************************************************)
(* The peer table of daemon/mesh.py on top of Transport: the mesh          *)
(* callbacks are conjoined with the transport actions that fire them, and  *)
(* the packet handlers run as tasks in the order they were created.  The   *)
(* table is what GET /peers shows; the joined and left events are what a   *)
(* WebSocket subscriber sees.                                              *)
(***************************************************************************)
EXTENDS Transport, Sequences, SequencesExt

CONSTANTS
    Peer,       \* ids of the other nodes
    EndOf,      \* EndOf[c]: the node at the other end of c
    Relayed,    \* ids whose packets can reach us through another node
    Nick,       \* nicknames announced: "named", "nameless" (empty)
    MaxReady    \* bound: handler tasks waiting at once

ASSUME PeerTableAssumption ==
    /\ EndOf \in [Conn -> Peer]
    /\ Relayed \subseteq Peer
    /\ Nick \subseteq {"named", "nameless"}
    /\ MaxReady \in Nat

VARIABLES
    peers,          \* peers[p]: "absent", or the nickname of the entry
    peerAddresses,  \* peer_addresses: pairs <<p, a>> in insertion order
    ready,          \* tasks and callbacks the event loop has to run
    shown,          \* peers a subscriber was told of and not told to have left
    heard           \* heard[a]: ids whose packets came in over address a since
                    \* peer_addresses last had no entry for a

tableVars == <<peers, peerAddresses, ready, shown, heard>>
peerVars == <<server, phase, connections, closed, lost, held, ups, downs, strayed,
              peers, peerAddresses, ready, shown, heard>>

Task == [kind : Nick \cup {"leave"}, of : Peer]
           \cup [kind : {"readDone"}, of : Conn]

PeerTypeOK ==
    /\ TransportTypeOK
    /\ peers \in [Peer -> {"absent"} \cup Nick]
    /\ peerAddresses \in Seq(Peer \X Addr)
    /\ \A i, j \in DOMAIN peerAddresses :
         peerAddresses[i][1] = peerAddresses[j][1] => i = j
    /\ ready \in Seq(Task)
    /\ shown \in SUBSET Peer
    /\ heard \in [Addr -> SUBSET Peer]

PeerInit ==
    /\ TransportInit
    /\ peers = [p \in Peer |-> "absent"]
    /\ peerAddresses = <<>>
    /\ ready = <<>>
    /\ shown = {}
    /\ heard = [a \in Addr |-> {}]

Present == {p \in Peer : peers[p] # "absent"}

RouteAt(a) == \E i \in DOMAIN peerAddresses : peerAddresses[i][2] = a

(* The history after a step, with now[a] the ids heard over a with it      *)
Recalls(now) == heard' = [a \in Addr |-> IF RouteAt(a)' THEN now[a] ELSE {}]

----------------------------------------------------------------------------
LocatedTwice(p, a) == Append(peerAddresses, <<p, a>>)

(* _on_packet_received, line 197: a dict keeps the place of a key that is  *)
(* written again.                                                          *)
Located(p, a) ==
    IF \E i \in DOMAIN peerAddresses : peerAddresses[i][1] = p
    THEN [i \in DOMAIN peerAddresses |->
            IF peerAddresses[i][1] = p THEN <<p, a>> ELSE peerAddresses[i]]
    ELSE Append(peerAddresses, <<p, a>>)

(* The dict without the key p: peer_addresses.pop(p, None).                *)
Unlocated(p) ==
    IF \E i \in DOMAIN peerAddresses : peerAddresses[i][1] = p
    THEN RemoveAt(peerAddresses,
                  CHOOSE i \in DOMAIN peerAddresses : peerAddresses[i][1] = p)
    ELSE peerAddresses

RemovePeerQuietly(p) ==
    /\ peers' = [peers EXCEPT ![p] = "absent"]
    /\ peerAddresses' = Unlocated(p)
    /\ UNCHANGED shown

RemovePeerFromPeers(p) ==
    /\ peers' = [peers EXCEPT ![p] = "absent"]
    /\ UNCHANGED peerAddresses
    /\ shown' = IF peers[p] \in {"absent", "nameless"} THEN shown ELSE shown \ {p}

(* _remove_peer; on_peer_left fires unless the nickname is empty.          *)
RemovePeer(p) ==
    /\ peers' = [peers EXCEPT ![p] = "absent"]
    /\ peerAddresses' = Unlocated(p)
    /\ shown' = IF peers[p] \in {"absent", "nameless"} THEN shown ELSE shown \ {p}

(* _on_peer_disconnected: the first id found at the address is removed.    *)
OnPeerDisconnected(c) ==
    LET at == {i \in DOMAIN peerAddresses : peerAddresses[i][2] = AddrOf[c]}
    IN  \/ at = {} /\ UNCHANGED <<peers, peerAddresses, shown>>
        \/ \E i \in at : /\ \A j \in at : i <= j
                         /\ RemovePeer(peerAddresses[i][1])

(* _handle_announce and _handle_noise_identity_announce                    *)
Announced(p, n) ==
    /\ peers' = [peers EXCEPT ![p] = n]
    /\ shown' = IF p \in Present THEN shown ELSE shown \cup {p}
    /\ UNCHANGED peerAddresses

----------------------------------------------------------------------------
(* _on_packet_received.  The stream still holds packets after the other    *)
(* end has closed it.  A node announces itself; every other packet may     *)
(* have been relayed.  "other" stands for the packets that only touch the  *)
(* address, among them a LEAVE that names a channel.                       *)
PacketReceived(c, p, kind) ==
    /\ phase[c] = "open"
    /\ \/ kind \in Nick /\ p = EndOf[c]
       \/ kind \in {"leave", "other"} /\ p \in {EndOf[c]} \cup Relayed
    /\ Len(ready) < MaxReady
    /\ peerAddresses' = Located(p, AddrOf[c])
    /\ ready' = IF kind = "other" THEN ready
                ELSE Append(ready, [kind |-> kind, of |-> p])
    /\ Recalls([heard EXCEPT ![AddrOf[c]] = heard[AddrOf[c]] \cup {p}])
    /\ UNCHANGED <<peers, shown>>
    /\ UNCHANGED transportVars

(* The handler that was scheduled first runs up to its first await, after  *)
(* which it does not touch the table.                                      *)
HandlerRuns ==
    /\ ready # <<>> /\ Head(ready).kind # "readDone"
    /\ \/ Head(ready).kind = "leave" /\ RemovePeer(Head(ready).of)
       \/ Head(ready).kind \in Nick /\ Announced(Head(ready).of, Head(ready).kind)
    /\ ready' = Tail(ready)
    /\ Recalls(heard)
    /\ UNCHANGED transportVars

TableReadLoopEnds(c) ==
    /\ ReadLoopEnds(c)
    /\ ready' = Append(ready, [kind |-> "readDone", of |-> c])
    /\ UNCHANGED <<peers, peerAddresses, shown, heard>>

TableReadDone ==
    /\ ready # <<>> /\ Head(ready).kind = "readDone"
    /\ OnReadDone(Head(ready).of)
    /\ OnPeerDisconnected(Head(ready).of)
    /\ ready' = Tail(ready)
    /\ Recalls(heard)

(* The other ways a connection is dropped call the mesh at once.           *)
TableDrop(c) ==
    /\ \/ ClientEnds(c) \/ SendFails(c)
       \/ \E b \in Broadcast : BroadcastSendFails(b, c)
       \/ \E a \in Addr : Disconnect(a, c)
    /\ OnPeerDisconnected(c)
    /\ Recalls(heard)
    /\ UNCHANGED ready

(* _on_peer_connected only logs, and _on_peer_disconnected raises on None. *)
TransportOnly ==
    /\ \/ StartServer \/ Stop
       \/ \E a \in Addr : DisconnectUnknown(a)
       \/ \E b \in Broadcast : BroadcastPacket(b) \/ \E c \in Conn : BroadcastSend(b, c)
       \/ \E c \in Conn :
            \/ Accepted(c) \/ Connect(c) \/ ConnectSucceeds(c) \/ ConnectFails(c)
            \/ RemoteCloses(c)
    /\ UNCHANGED tableVars

PeerNext ==
    \/ TransportOnly
    \/ HandlerRuns
    \/ TableReadDone
    \/ \E c \in Conn : TableReadLoopEnds(c) \/ TableDrop(c)
    \/ \E c \in Conn, p \in Peer, kind \in Nick \cup {"leave", "other"} :
         PacketReceived(c, p, kind)

PeerSpec == PeerInit /\ [][PeerNext]_peerVars

(* The event loop runs its tasks and sees the end of every stream.         *)
PeerFairness ==
    /\ WF_peerVars(HandlerRuns \/ TableReadDone)
    /\ \A c \in Conn : /\ WF_peerVars(TableReadLoopEnds(c))
                       /\ WF_peerVars(ClientEnds(c) /\ TableDrop(c))

FairPeerSpec == PeerSpec /\ PeerFairness

----------------------------------------------------------------------------
(* Properties                                                              *)

(* README.md:83-84 and ws.py:12-13, the peer_joined and peer_left events:  *)
(* a subscriber who follows them has the peers of the table (mesh.py:288,  *)
(* 327, 572), through repeated announcements and removals.                 *)
ViewExact == shown = Present

(* README.md:178, "tracks peer_id -> address / connection": an address in  *)
(* peer_addresses belongs to a connection that is still being read, so     *)
(* _send_to_peer (mesh.py:230-240) is not left with a dead route.  Relayed *)
(* packets and a restarted node can put a second id at an address, and the *)
(* end of a connection removes one (mesh.py:165): only those are left.     *)
RouteInSight ==
    \A i \in DOMAIN peerAddresses :
      LET a == peerAddresses[i][2]
      IN  \/ \E c \in Conn : AddrOf[c] = a /\ phase[c] \in {"open", "ended"}
          \/ heard[a] # {peerAddresses[i][1]}

(* Once every connection at an address has broken, the routes through it   *)
(* go away (mesh.py:159-169), unless several ids were heard over it.       *)
RoutesGoAway ==
    \A a \in Addr :
      (\A c \in Conn : AddrOf[c] = a => c \in lost \/ phase[c] = "gone")
        ~> (~RouteAt(a) \/ \E p, q \in heard[a] : p # q)
=============================================================================

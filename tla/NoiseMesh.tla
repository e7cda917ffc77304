----------------------------- MODULE NoiseMesh -----------------------------
(***************************************************************************)
(* The encrypted-session layer of the daemon: the EncryptionService of     *)
(* every node (bitchat/encryption.py) driven by the handlers of its        *)
(* MeshNode (daemon/mesh.py) over TCP connections between neighbours.      *)
(*                                                                         *)
(* One asyncio event loop per node: reading a frame only schedules its     *)
(* handler (ready), a handler runs to its end between two suspension       *)
(* points, and the two places that sleep (the announcement after a new     *)
(* connection, the flush of queued private messages) are steps of their    *)
(* own.  Cryptography is symbolic.  An ephemeral key is <<n, k>>, the k-th *)
(* key node n generated; index 0 is 32 bytes that are nobody's key.  A     *)
(* ciphertext opens only under the key pair, direction and nonce it was    *)
(* made with.                                                              *)
(***************************************************************************)
EXTENDS Naturals, Sequences

CONSTANTS
    Node,           \* peer ids, ordered like the equally long hex strings
    Msg,            \* private messages the local user may submit, each once
    Conn,           \* TCP connections that may come up during a behaviour
    Opener,         \* Opener[c]: the node that called transport.connect
    Acceptor,       \* Acceptor[c]: the node whose server accepted c
    Fragile,        \* the connections the network may cut
    Leaver,         \* the nodes that may shut down
    BlockedPeers    \* BlockedPeers[n]: peers whose fingerprint n blocks

ASSUME NodeAssumption == Node \subseteq Nat
ASSUME ConnAssumption ==
    /\ Opener \in [Conn -> Node]
    /\ Acceptor \in [Conn -> Node]
    /\ \A c \in Conn : Opener[c] # Acceptor[c]
    /\ Fragile \subseteq Conn
    /\ Leaver \subseteq Node
ASSUME BlockedAssumption == BlockedPeers \in [Node -> SUBSET Node]

VARIABLES
    opened,         \* connections ever established
    open,           \* open[c]: the ends that still hold c in _connections
    net,            \* net[c][n]: frames on their way to n over c
    ready,          \* ready[n]: packets whose handler task is scheduled
    announce_due,   \* announce_due[n]: on_connect_transport tasks asleep
    left,           \* nodes whose shutdown has sent its LEAVE packet
    peer_addresses, \* peer_addresses[n][p]: {} or {c}
    handshake_states,
    sessions,
    eph,            \* eph[n]: number of ephemeral keys n has generated
    pending_private_messages,
    handshake_attempt_times,  \* handshake_attempt_times[n]: peers with an entry
    auth_tasks,     \* auth_tasks[n]: scheduled by _on_peer_authenticated
    flushes,        \* flushes[n]: running _send_pending_private_messages
    submitted,      \* messages handed to send_private_message so far
    tracked,        \* tracked[n]: delivery_tracker.pending_messages
    processed_messages,
    sent_acks,
    acked,          \* acked[n]: messages for which on_delivery_ack fired
    emitted         \* history: every packet a node has built and sent

linkVars == <<opened, open, announce_due, left>>
pendingVars == <<pending_private_messages, handshake_attempt_times,
                 auth_tasks, flushes>>
deliveryVars == <<submitted, tracked, processed_messages, sent_acks, acked>>
vars == <<linkVars, net, ready, peer_addresses, handshake_states, sessions,
          eph, pendingVars, deliveryVars, emitted>>

----------------------------------------------------------------------------
(* Data                                                                    *)

Eph == Node \X Nat
Garbage(n) == <<n, 0>>

Role == {"initiator", "responder"}

(* Between two calls an initiator's state waits for message 2 and a        *)
(* responder's for message 3, so the role stands for current_pattern too.  *)
HandshakeState == [role : Role \cup {"none"}, le : Eph, re : Eph]
Session == [role : Role \cup {"none"}, i : Eph, r : Eph, sn : Nat, rn : Nat]

NoHandshake(n) == [role |-> "none", le |-> Garbage(n), re |-> Garbage(n)]
NoSession(n) ==
    [role |-> "none", i |-> Garbage(n), r |-> Garbage(n), sn |-> 0, rn |-> 0]

HandshakeMessage == [kind : {"m1", "m2", "m3"}, i : Eph, r : Eph]
Ciphertext == [role : Role, i : Eph, r : Eph, nonce : Nat, id : Msg]

Packet ==
    [type : {"announce", "leave"}, src : Node]
      \cup [type : {"init", "resp"}, src : Node, dst : Node,
            m : HandshakeMessage]
      \cup [type : {"encrypted", "ack"}, src : Node, dst : Node,
            c : Ciphertext]

(* What a running _send_pending_private_messages has still to send.        *)
Flush == [to : Node, msgs : Seq(Msg)]

Established(n, p) == sessions[n][p].role # "none"

(* NoiseCipherState.decrypt: the receiving direction is the other role's,  *)
(* under the receiver's own nonce counter.                                 *)
Opens(s, c) ==
    /\ c.i = s.i /\ c.r = s.r
    /\ c.role # s.role
    /\ c.nonce = s.rn

(* read_message succeeds: message 2 authenticates the initiator's key,     *)
(* message 3 the whole transcript.                                         *)
Fits2(h, m) == h.role = "initiator" /\ m.kind = "m2" /\ m.i = h.le
Fits3Unbound(h, m) == h.role = "responder" /\ m.kind = "m3"
Fits3(h, m) ==
    h.role = "responder" /\ m.kind = "m3" /\ m.i = h.re /\ m.r = h.le

----------------------------------------------------------------------------
TypeOK ==
    /\ opened \in SUBSET Conn
    /\ open \in [Conn -> SUBSET Node]
    /\ net \in [Conn -> [Node -> Seq(Packet)]]
    /\ ready \in [Node -> Seq(Packet)]
    /\ announce_due \in [Node -> SUBSET Conn]
    /\ left \in SUBSET Leaver
    /\ peer_addresses \in [Node -> [Node -> SUBSET Conn]]
    /\ handshake_states \in [Node -> [Node -> HandshakeState]]
    /\ sessions \in [Node -> [Node -> Session]]
    /\ eph \in [Node -> Nat]
    /\ pending_private_messages \in [Node -> [Node -> Seq(Msg)]]
    /\ handshake_attempt_times \in [Node -> SUBSET Node]
    /\ auth_tasks \in [Node -> SUBSET Node]
    /\ flushes \in [Node -> Seq(Flush)]
    /\ submitted \in SUBSET Msg
    /\ tracked \in [Node -> SUBSET Msg]
    /\ processed_messages \in [Node -> SUBSET Msg]
    /\ sent_acks \in [Node -> SUBSET Msg]
    /\ acked \in [Node -> SUBSET Msg]
    /\ emitted \in SUBSET Packet

Init ==
    /\ opened = {}
    /\ open = [c \in Conn |-> {}]
    /\ net = [c \in Conn |-> [n \in Node |-> <<>>]]
    /\ ready = [n \in Node |-> <<>>]
    /\ announce_due = [n \in Node |-> {}]
    /\ left = {}
    /\ peer_addresses = [n \in Node |-> [p \in Node |-> {}]]
    /\ handshake_states = [n \in Node |-> [p \in Node |-> NoHandshake(n)]]
    /\ sessions = [n \in Node |-> [p \in Node |-> NoSession(n)]]
    /\ eph = [n \in Node |-> 0]
    /\ pending_private_messages = [n \in Node |-> [p \in Node |-> <<>>]]
    /\ handshake_attempt_times = [n \in Node |-> {}]
    /\ auth_tasks = [n \in Node |-> {}]
    /\ flushes = [n \in Node |-> <<>>]
    /\ submitted = {}
    /\ tracked = [n \in Node |-> {}]
    /\ processed_messages = [n \in Node |-> {}]
    /\ sent_acks = [n \in Node |-> {}]
    /\ acked = [n \in Node |-> {}]
    /\ emitted = {}

----------------------------------------------------------------------------
(* Sending                                                                 *)

(* The frames in flight after n wrote pkt to the connections in cs.  What  *)
(* is written to a connection whose other end is gone is lost.             *)
Written(n, cs, pkt) ==
    [c \in Conn |-> [m \in Node |->
        IF c \in cs /\ n \in open[c] /\ m \in open[c] \ {n}
          THEN Append(net[c][m], pkt)
          ELSE net[c][m]]]

(* _send_to_peer: nothing is sent when the peer has no address or the      *)
(* address no connection.                                                  *)
SendToPeer(n, p, pkt) ==
    /\ net' = Written(n, peer_addresses[n][p], pkt)
    /\ emitted' = emitted \cup {pkt}

(* initiate_handshake: drops the state and the session there were, makes a *)
(* new initiator state and sends message 1.                                *)
InitiateHandshake(n, p) ==
    LET e == <<n, eph[n] + 1>> IN
    /\ eph' = [eph EXCEPT ![n] = eph[n] + 1]
    /\ handshake_states' = [handshake_states EXCEPT
         ![n][p] = [role |-> "initiator", le |-> e, re |-> Garbage(p)]]
    /\ sessions' = [sessions EXCEPT ![n][p] = NoSession(n)]
    /\ SendToPeer(n, p, [type |-> "init", src |-> n, dst |-> p,
                         m |-> [kind |-> "m1", i |-> e, r |-> Garbage(p)]])

SealedSharedCounter(n, p, id) ==
    [role |-> sessions[n][p].role, i |-> sessions[n][p].i,
     r |-> sessions[n][p].r, nonce |-> sessions[n][p].rn, id |-> id]

(* session.encrypt: seal id under the next send nonce.                     *)
Sealed(n, p, id) ==
    [role |-> sessions[n][p].role, i |-> sessions[n][p].i,
     r |-> sessions[n][p].r, nonce |-> sessions[n][p].sn, id |-> id]

----------------------------------------------------------------------------
(* Connections                                                             *)

(* transport.connect and the _handle_client it meets.  connect returns the *)
(* existing connection when there is one; on both ends on_connected starts *)
(* an on_connect_transport task.                                           *)
Connect(c) ==
    /\ c \notin opened
    /\ \A d \in opened : Opener[d] = Opener[c] /\ Acceptor[d] = Acceptor[c]
                           => Opener[c] \notin open[d]
    /\ opened' = opened \cup {c}
    /\ open' = [open EXCEPT ![c] = {Opener[c], Acceptor[c]}]
    /\ announce_due' = [n \in Node |->
         IF n \in {Opener[c], Acceptor[c]}
           THEN announce_due[n] \cup {c} ELSE announce_due[n]]
    /\ UNCHANGED <<left, net, ready, peer_addresses, handshake_states, sessions,
                   eph, pendingVars, deliveryVars, emitted>>

(* _remove_peer on the state this module keeps.                            *)
RemovePeer(n, p) ==
    /\ peer_addresses' = [peer_addresses EXCEPT ![n][p] = {}]
    /\ pending_private_messages' =
         [pending_private_messages EXCEPT ![n][p] = <<>>]
    /\ sessions' = [sessions EXCEPT ![n][p] = NoSession(n)]
    /\ handshake_states' = [handshake_states EXCEPT ![n][p] = NoHandshake(n)]

(* The read loop of n's end of c stops: the connection leaves the table,   *)
(* unread frames are lost, and the peer found at the address is removed.   *)
(* Handlers already scheduled still run.  A node that has sent its LEAVE   *)
(* closes its connections and ends.                                        *)
ConnectionLost(n, c) ==
    /\ n \in open[c]
    /\ c \in Fragile \/ open[c] = {n} \/ n \in left
    /\ open' = [open EXCEPT ![c] = open[c] \ {n}]
    /\ net' = [net EXCEPT ![c][n] = <<>>]
    /\ \/ \E p \in Node : /\ peer_addresses[n][p] = {c}
                          /\ RemovePeer(n, p)
       \/ /\ \A p \in Node : peer_addresses[n][p] # {c}
          /\ UNCHANGED <<peer_addresses, pending_private_messages, sessions,
                         handshake_states>>
    /\ UNCHANGED <<opened, announce_due, left, ready, eph, handshake_attempt_times,
                   auth_tasks, flushes, deliveryVars, emitted>>

(* on_connect_transport after its sleep: the announcement goes to every    *)
(* connection of n, not only to the new one.                               *)
SendIdentityAnnounce(n, c) ==
    /\ c \in announce_due[n]
    /\ announce_due' = [announce_due EXCEPT ![n] = announce_due[n] \ {c}]
    /\ LET pkt == [type |-> "announce", src |-> n] IN
         /\ net' = Written(n, Conn, pkt)
         /\ emitted' = emitted \cup {pkt}
    /\ UNCHANGED <<opened, open, left, ready, peer_addresses, handshake_states,
                   sessions, eph, pendingVars, deliveryVars>>

Leave(n) == [type |-> "leave", src |-> n]

(* send_leave, at the begin of the shutdown.                               *)
SendLeave(n) ==
    /\ n \in Leaver \ left
    /\ left' = left \cup {n}
    /\ net' = Written(n, Conn, Leave(n))
    /\ emitted' = emitted \cup {Leave(n)}
    /\ UNCHANGED <<opened, open, announce_due, ready, peer_addresses,
                   handshake_states, sessions, eph, pendingVars, deliveryVars>>

(* _on_packet_received: our own packets are ignored; for any other the     *)
(* sender's address is noted and its handler scheduled.                    *)
Receive(n, c) ==
    /\ n \in open[c]
    /\ net[c][n] # <<>>
    /\ net' = [net EXCEPT ![c][n] = Tail(net[c][n])]
    /\ LET pkt == Head(net[c][n]) IN
         IF pkt.src = n
           THEN UNCHANGED <<peer_addresses, ready>>
           ELSE /\ peer_addresses' =
                     [peer_addresses EXCEPT ![n][pkt.src] = {c}]
                /\ ready' = [ready EXCEPT ![n] = Append(ready[n], pkt)]
    /\ UNCHANGED <<linkVars, handshake_states, sessions, eph, pendingVars,
                   deliveryVars, emitted>>

----------------------------------------------------------------------------
(* Handlers: each takes the oldest scheduled packet of its node.           *)

RunsInSession(n, types) ==
    /\ ready[n] # <<>>
    /\ Head(ready[n]).type \in types
    /\ "encrypted" \in types => Established(n, Head(ready[n]).src)
    /\ ready' = [ready EXCEPT ![n] = Tail(ready[n])]

Runs(n, types) ==
    /\ ready[n] # <<>>
    /\ Head(ready[n]).type \in types
    /\ ready' = [ready EXCEPT ![n] = Tail(ready[n])]

(* The tie-breaker, and no handshake where there is a session.             *)
InitiatesAlways(n, p) == n < p
InitiatesUntied(n, p) == ~Established(n, p)
Initiates(n, p) == n < p /\ ~Established(n, p)

(* _handle_noise_identity_announce                                         *)
HandleIdentityAnnounce(n) ==
    /\ Runs(n, {"announce"})
    /\ LET p == Head(ready[n]).src IN
         IF Initiates(n, p)
           THEN InitiateHandshake(n, p)
           ELSE UNCHANGED <<eph, handshake_states, sessions, net, emitted>>
    /\ UNCHANGED <<linkVars, peer_addresses, pendingVars, deliveryVars>>

TakePendingCopy(n, p) ==
    /\ flushes' = [flushes EXCEPT ![n] = Append(flushes[n],
         [to |-> p, msgs |-> pending_private_messages[n][p]])]
    /\ UNCHANGED pending_private_messages

(* _send_pending_private_messages up to its first sleep: the queued        *)
(* messages leave the table for the running flush.                         *)
TakePending(n, p) ==
    IF pending_private_messages[n][p] = <<>>
      THEN UNCHANGED <<flushes, pending_private_messages>>
      ELSE /\ flushes' = [flushes EXCEPT ![n] = Append(flushes[n],
                [to |-> p, msgs |-> pending_private_messages[n][p]])]
           /\ pending_private_messages' =
                [pending_private_messages EXCEPT ![n][p] = <<>>]

(* The tail of both handshake handlers: with a session in place the        *)
(* attempt is forgotten and the queued messages are flushed.               *)
AfterHandshake(n, p) ==
    IF sessions'[n][p].role = "none"
      THEN UNCHANGED <<handshake_attempt_times, flushes,
                       pending_private_messages>>
      ELSE /\ handshake_attempt_times' = [handshake_attempt_times EXCEPT
                ![n] = handshake_attempt_times[n] \ {p}]
           /\ TakePending(n, p)

(* The init handler answers with a resp packet, the resp handler with an   *)
(* init packet.                                                            *)
Answer(n, pkt, m) ==
    [type |-> IF pkt.type = "init" THEN "resp" ELSE "init",
     src |-> n, dst |-> pkt.src, m |-> m]

(* No state for the sender: whatever arrives is read as message 1, its     *)
(* first 32 bytes as the remote ephemeral key, and answered by message 2.  *)
StartAsResponder(n) ==
    /\ Runs(n, {"init", "resp"})
    /\ LET pkt == Head(ready[n])
           p == pkt.src
           e == <<n, eph[n] + 1>>
           re == IF pkt.m.kind = "m1" THEN pkt.m.i ELSE Garbage(p)
       IN /\ pkt.dst = n
          /\ handshake_states[n][p].role = "none"
          /\ eph' = [eph EXCEPT ![n] = eph[n] + 1]
          /\ handshake_states' = [handshake_states EXCEPT
               ![n][p] = [role |-> "responder", le |-> e, re |-> re]]
          /\ SendToPeer(n, p,
               Answer(n, pkt, [kind |-> "m2", i |-> re, r |-> e]))
          /\ UNCHANGED sessions
          /\ AfterHandshake(n, p)
    /\ UNCHANGED <<linkVars, peer_addresses, auth_tasks, deliveryVars>>

(* An initiator reads the message 2 made for its key, answers with message *)
(* 3 and has a session.                                                    *)
FinishAsInitiator(n) ==
    /\ Runs(n, {"init", "resp"})
    /\ LET pkt == Head(ready[n])
           p == pkt.src
           h == handshake_states[n][p]
       IN /\ pkt.dst = n
          /\ Fits2(h, pkt.m)
          /\ handshake_states' =
               [handshake_states EXCEPT ![n][p] = NoHandshake(n)]
          /\ sessions' = [sessions EXCEPT ![n][p] =
               [role |-> "initiator", i |-> h.le, r |-> pkt.m.r,
                sn |-> 0, rn |-> 0]]
          /\ SendToPeer(n, p,
               Answer(n, pkt, [kind |-> "m3", i |-> h.le, r |-> pkt.m.r]))
          /\ auth_tasks' = [auth_tasks EXCEPT ![n] = auth_tasks[n] \cup {p}]
          /\ AfterHandshake(n, p)
    /\ UNCHANGED <<linkVars, peer_addresses, eph, deliveryVars>>

(* A responder reads the message 3 that completes its transcript.          *)
FinishAsResponder(n) ==
    /\ Runs(n, {"init", "resp"})
    /\ LET pkt == Head(ready[n])
           p == pkt.src
           h == handshake_states[n][p]
       IN /\ pkt.dst = n
          /\ Fits3(h, pkt.m)
          /\ handshake_states' =
               [handshake_states EXCEPT ![n][p] = NoHandshake(n)]
          /\ sessions' = [sessions EXCEPT ![n][p] =
               [role |-> "responder", i |-> h.re, r |-> h.le,
                sn |-> 0, rn |-> 0]]
          /\ auth_tasks' = [auth_tasks EXCEPT ![n] = auth_tasks[n] \cup {p}]
          /\ AfterHandshake(n, p)
    /\ UNCHANGED <<linkVars, net, peer_addresses, eph, deliveryVars, emitted>>

(* Any other message does not fit the state it meets: NoiseError, and the  *)
(* state is cleared.                                                       *)
HandshakeFails(n) ==
    /\ Runs(n, {"init", "resp"})
    /\ LET pkt == Head(ready[n])
           p == pkt.src
           h == handshake_states[n][p]
       IN /\ pkt.dst = n
          /\ h.role # "none" /\ ~Fits2(h, pkt.m) /\ ~Fits3(h, pkt.m)
          /\ handshake_states' =
               [handshake_states EXCEPT ![n][p] = NoHandshake(n)]
    /\ UNCHANGED <<linkVars, net, peer_addresses, sessions, eph, pendingVars,
                   deliveryVars, emitted>>

ReceivedBackwards(s) == [s EXCEPT !.rn = s.rn - 1]
ReceivedStuck(s) == s

(* decrypt_from_peer: the receive nonce advances whether or not the        *)
(* ciphertext opens.                                                       *)
Received(s) == [s EXCEPT !.rn = s.rn + 1]

(* _handle_noise_encrypted with _send_delivery_ack.                        *)
HandleNoiseEncrypted(n) ==
    /\ Runs(n, {"encrypted"})
    /\ LET pkt == Head(ready[n])
           p == pkt.src
           id == pkt.c.id
           s == sessions[n][p]
           new == /\ Established(n, p) /\ Opens(s, pkt.c)
                  /\ id \notin processed_messages[n]
           ack == new /\ id \notin sent_acks[n]
       IN IF ~Established(n, p) \/ p \in BlockedPeers[n]
            THEN UNCHANGED <<sessions, processed_messages, sent_acks, net,
                             emitted>>
            ELSE /\ processed_messages' = [processed_messages EXCEPT ![n] =
                      IF new THEN processed_messages[n] \cup {id}
                             ELSE processed_messages[n]]
                 /\ IF ack
                      THEN /\ sent_acks' = [sent_acks EXCEPT
                                ![n] = sent_acks[n] \cup {id}]
                           /\ sessions' = [sessions EXCEPT ![n][p] =
                                [Received(s) EXCEPT !.sn = s.sn + 1]]
                           /\ SendToPeer(n, p, [type |-> "ack", src |-> n,
                                dst |-> p, c |-> Sealed(n, p, id)])
                      ELSE /\ sessions' = [sessions EXCEPT
                                ![n][p] = Received(s)]
                           /\ UNCHANGED <<sent_acks, net, emitted>>
    /\ UNCHANGED <<linkVars, peer_addresses, handshake_states, eph,
                   pendingVars, submitted, tracked, acked>>

(* _handle_delivery_ack on an ack that came directly (ttl 3): a payload    *)
(* that does not open is no JSON and is dropped.                           *)
HandleDeliveryAck(n) ==
    /\ Runs(n, {"ack"})
    /\ LET pkt == Head(ready[n])
           p == pkt.src
           id == pkt.c.id
           s == sessions[n][p]
       IN /\ pkt.dst = n
          /\ sessions' = IF Established(n, p)
               THEN [sessions EXCEPT ![n][p] = Received(s)] ELSE sessions
          /\ IF Established(n, p) /\ Opens(s, pkt.c) /\ id \in tracked[n]
               THEN /\ tracked' = [tracked EXCEPT ![n] = tracked[n] \ {id}]
                    /\ acked' = [acked EXCEPT ![n] = acked[n] \cup {id}]
               ELSE UNCHANGED <<tracked, acked>>
    /\ UNCHANGED <<linkVars, net, peer_addresses, handshake_states, eph,
                   pendingVars, submitted, processed_messages, sent_acks,
                   emitted>>

(* _handle_leave: the sender is removed, with its session; a nickname that *)
(* begins with # makes the packet one about a channel, which is ignored.   *)
(* What it relays (564) is in Flood: a neighbour has its own copy.         *)
HandleLeave(n) ==
    /\ Runs(n, {"leave"})
    /\ \/ RemovePeer(n, Head(ready[n]).src)
       \/ UNCHANGED <<peer_addresses, pending_private_messages, sessions,
                      handshake_states>>
    /\ UNCHANGED <<linkVars, net, eph, handshake_attempt_times, auth_tasks,
                   flushes, deliveryVars, emitted>>

----------------------------------------------------------------------------
(* Private messages                                                        *)

(* send_private_message.  Without a session the message is queued and a    *)
(* handshake started, unless one was tried within handshake_timeout        *)
(* (elapsed is false then); the tie-breaker plays no part.                 *)
SendPrivateMessage(n, p, id, elapsed) ==
    IF Established(n, p)
      THEN /\ tracked' = [tracked EXCEPT ![n] = tracked[n] \cup {id}]
           /\ sessions' = [sessions EXCEPT ![n][p].sn = sessions[n][p].sn + 1]
           /\ SendToPeer(n, p, [type |-> "encrypted", src |-> n, dst |-> p,
                                c |-> Sealed(n, p, id)])
           /\ UNCHANGED <<eph, handshake_states, pending_private_messages,
                          handshake_attempt_times>>
      ELSE /\ pending_private_messages' = [pending_private_messages EXCEPT
                ![n][p] = Append(pending_private_messages[n][p], id)]
           /\ UNCHANGED tracked
           /\ IF p \in handshake_attempt_times[n] /\ ~elapsed
                THEN UNCHANGED <<eph, handshake_states, sessions, net,
                                 emitted, handshake_attempt_times>>
                ELSE /\ handshake_attempt_times' =
                          [handshake_attempt_times EXCEPT ![n] =
                             handshake_attempt_times[n] \cup {p}]
                     /\ InitiateHandshake(n, p)

(* The local user submits a message.                                       *)
Submit(n, p, id, elapsed) ==
    /\ n # p
    /\ id \notin submitted
    /\ submitted' = submitted \cup {id}
    /\ SendPrivateMessage(n, p, id, elapsed)
    /\ UNCHANGED <<linkVars, ready, peer_addresses, auth_tasks, flushes,
                   processed_messages, sent_acks, acked>>

(* The task _on_peer_authenticated created runs: it takes the whole queue. *)
StartFlush(n, p) ==
    /\ p \in auth_tasks[n]
    /\ auth_tasks' = [auth_tasks EXCEPT ![n] = auth_tasks[n] \ {p}]
    /\ TakePending(n, p)
    /\ UNCHANGED <<linkVars, net, ready, peer_addresses, handshake_states,
                   sessions, eph, handshake_attempt_times, deliveryVars,
                   emitted>>

(* One round of the loop of _send_pending_private_messages: after the      *)
(* sleep the next message of a running flush is sent, or queued again.     *)
FlushOne(n, k, elapsed) ==
    /\ k \in 1..Len(flushes[n])
    /\ LET f == flushes[n][k] IN
         /\ f.msgs # <<>>
         /\ flushes' = [flushes EXCEPT
              ![n][k] = [to |-> f.to, msgs |-> Tail(f.msgs)]]
         /\ SendPrivateMessage(n, f.to, Head(f.msgs), elapsed)
    /\ UNCHANGED <<linkVars, ready, peer_addresses, auth_tasks, submitted,
                   processed_messages, sent_acks, acked>>

----------------------------------------------------------------------------
Handle(n) ==
    \/ HandleIdentityAnnounce(n)
    \/ StartAsResponder(n) \/ FinishAsInitiator(n)
    \/ FinishAsResponder(n) \/ HandshakeFails(n)
    \/ HandleNoiseEncrypted(n) \/ HandleDeliveryAck(n) \/ HandleLeave(n)

Step(n) ==
    \/ \E c \in Conn : Receive(n, c) \/ SendIdentityAnnounce(n, c)
    \/ Handle(n)
    \/ \E p \in Node : StartFlush(n, p)
    \/ \E k \in DOMAIN flushes[n], elapsed \in BOOLEAN :
         FlushOne(n, k, elapsed)

Next ==
    \/ \E c \in Conn : Connect(c)
    \/ \E n \in Node, c \in Conn : ConnectionLost(n, c)
    \/ \E n \in Node : Step(n) \/ SendLeave(n)
    \/ \E n, p \in Node, id \in Msg, elapsed \in BOOLEAN :
         Submit(n, p, id, elapsed)

Spec == Init /\ [][Next]_vars

(* What the event loop and TCP guarantee: frames that arrived are read,    *)
(* scheduled tasks run, sleeping tasks wake.  Nothing forces a connection  *)
(* to come up, to break, or the user to write, and a node that is shutting *)
(* down may end at any moment.                                             *)
Fairness == \A n \in Node :
    /\ WF_vars(n \notin left /\ \E c \in Conn : Receive(n, c))
    /\ WF_vars(n \notin left /\ \E c \in Conn : SendIdentityAnnounce(n, c))
    /\ WF_vars(n \notin left /\ Handle(n))
    /\ WF_vars(n \notin left /\ \E p \in Node : StartFlush(n, p))
    /\ WF_vars(n \notin left /\ \E k \in DOMAIN flushes[n], elapsed \in BOOLEAN :
                                  FlushOne(n, k, elapsed))

FairSpec == Spec /\ Fairness

----------------------------------------------------------------------------
(* Properties                                                              *)

Ciphertexts == {pkt.c : pkt \in {x \in emitted : x.type \in {"encrypted", "ack"}}}

(* The ephemeral key its own side contributed to a session or ciphertext.  *)
Own(x) == IF x.role = "initiator" THEN x.i ELSE x.r

(* No two ciphertexts are ever made under the same key and nonce, through  *)
(* re-handshakes, lost connections and replaced sessions: the counter of   *)
(* NoiseCipherState (encryption.py:378) is never restarted under a key     *)
(* that was already used.                                                  *)
NonceUnique ==
    \A c, d \in Ciphertexts :
      c.role = d.role /\ c.i = d.i /\ c.r = d.r /\ c.nonce = d.nonce => c = d

(* A session that process_handshake_message files under a peer             *)
(* (encryption.py:580) joins a key of this node with a key of exactly that *)
(* peer, and the peer took part in that very handshake: it made the        *)
(* message 2 or the message 3 of this pair of keys.                        *)
SessionAuthentic ==
    \A n, p \in Node : LET s == sessions[n][p] IN Established(n, p) =>
      /\ s.i[1] = IF s.role = "initiator" THEN n ELSE p
      /\ s.r[1] = IF s.role = "initiator" THEN p ELSE n
      /\ \E pkt \in emitted :
           /\ pkt.type \in {"init", "resp"} /\ pkt.src = p /\ pkt.dst = n
           /\ pkt.m = [kind |-> IF s.role = "initiator" THEN "m2" ELSE "m3",
                       i |-> s.i, r |-> s.r]

(* A queued private message is encrypted at most once, although both the   *)
(* handshake handler and the task of _on_peer_authenticated flush the      *)
(* queue (mesh.py:174 and 372) and a flush may put messages back.          *)
EncryptedOnce ==
    \A x, y \in {pkt \in emitted : pkt.type = "encrypted"} :
      x.c.id = y.c.id => x = y

(* A session ends only with the connection the peer was last heard on or   *)
(* with a LEAVE of the peer: neither an announcement nor a failed or       *)
(* competing handshake leaves a node that had a session without one        *)
(* (mesh.py:334 and 718 guard initiate_handshake, which drops it; 166-169  *)
(* and 562 remove it).                                                     *)
SessionStable ==
    [][\A n, p \in Node :
         Established(n, p) /\ ~Established(n, p)' =>
           \/ \E c \in Conn : peer_addresses[n][p] = {c} /\ n \in open[c] \ open'[c]
           \/ /\ ready[n] # <<>> /\ Head(ready[n]) = Leave(p)
              /\ ready'[n] = Tail(ready[n])
              /\ p \in left]_vars

(* mesh.py:332, "Tie-breaker: lower peer ID initiates handshake": as long  *)
(* as no private message has forced a handshake, two nodes that know each  *)
(* other's address are never both waiting for an answer to their own       *)
(* message 1.                                                              *)
OneInitiator ==
    submitted = {} =>
      \A n, p \in Node : peer_addresses[n][p] # {} /\ peer_addresses[p][n] # {} =>
        ~ /\ handshake_states[n][p].role = "initiator"
          /\ handshake_states[p][n].role = "initiator"

(* Nothing is left to be read, handled, announced or flushed.              *)
Quiet ==
    \A n \in Node \ left :
      /\ ready[n] = <<>> /\ announce_due[n] = {} /\ auth_tasks[n] = {}
      /\ \A c \in Conn : net[c][n] = <<>>
      /\ \A k \in DOMAIN flushes[n] : flushes[n][k].msgs = <<>>

(* mesh.py:337, "Waiting for {peer_id} to initiate handshake": the wait is *)
(* not in vain; when all there was to do is done, connected nodes have a   *)
(* session with each other.                                                *)
NoVainWait ==
    Quiet => \A c \in Conn : LET n == Opener[c]  p == Acceptor[c] IN
      open[c] = {n, p} /\ left = {} => Established(n, p) /\ Established(p, n)

(* Handshake traffic dies out: no exchange of misread handshake messages   *)
(* (a message 3 taken for a message 1, answered by a message 2, ...) goes  *)
(* on for ever, and no scheduled packet is left without a handler.         *)
TrafficDies == <>[]Quiet

(* The network cuts nothing and nobody leaves.                             *)
Lasting == left = {} /\ \A c \in opened : open[c] = {Opener[c], Acceptor[c]}

(* Over lasting connections, when no message has to wait for a session,    *)
(* every message sent is acknowledged in the end: messages and acks cross  *)
(* in both directions and the nonce counters stay in step.                 *)
SentMeansAcked ==
    [](Lasting /\ \A n, p \in Node : pending_private_messages[n][p] = <<>>) =>
      \A n \in Node, id \in Msg : id \in tracked[n] ~> id \in acked[n]

(* Over lasting connections, without messages forcing handshakes, the      *)
(* announcements lead to a session on both ends (mesh.py:333).             *)
LoneHandshakeCompletes ==
    [](Lasting /\ submitted = {}) =>
      \A c \in Conn : c \in opened ~>
        Established(Opener[c], Acceptor[c]) /\ Established(Acceptor[c], Opener[c])

=============================================================================

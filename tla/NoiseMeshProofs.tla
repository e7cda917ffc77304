-------------------------- MODULE NoiseMeshProofs --------------------------
(* Machine-checked facts about NoiseMesh for any set of nodes, connections *)
(* and messages: type correctness; no nonce is used twice; a session is    *)
(* with the peer it is filed under and lasts until its connection ends or  *)
(* the peer leaves; no message is encrypted twice; the tie-breaker holds.  *)
EXTENDS NoiseMesh, TLAPS

USE NodeAssumption, ConnAssumption, BlockedAssumption

----------------------------------------------------------------------------
(* Type correctness                                                        *)

(* The packets the handlers build are packets.                             *)
LEMMA HandshakePacketType ==
    ASSUME NEW n \in Node, NEW p \in Node, NEW t \in {"init", "resp"},
           NEW m \in HandshakeMessage
    PROVE  [type |-> t, src |-> n, dst |-> p, m |-> m] \in Packet
BY DEF Packet

LEMMA CipherPacketType ==
    ASSUME NEW n \in Node, NEW p \in Node, NEW t \in {"encrypted", "ack"},
           NEW c \in Ciphertext
    PROVE  [type |-> t, src |-> n, dst |-> p, c |-> c] \in Packet
BY DEF Packet

LEMMA AnnouncePacketType ==
    ASSUME NEW n \in Node
    PROVE  [type |-> "announce", src |-> n] \in Packet /\ Leave(n) \in Packet
BY DEF Packet, Leave

(* Conversely the type of a packet says which other fields it has.         *)
LEMMA PacketFields ==
    ASSUME NEW pkt \in Packet
    PROVE  /\ pkt.src \in Node
           /\ pkt.type \in {"init", "resp"} =>
                pkt.dst \in Node /\ pkt.m \in HandshakeMessage
           /\ pkt.type \in {"encrypted", "ack"} =>
                pkt.dst \in Node /\ pkt.c \in Ciphertext
BY DEF Packet

LEMMA EphType ==
    /\ \A n \in Node : Garbage(n) \in Eph /\ NoHandshake(n) \in HandshakeState
                         /\ NoSession(n) \in Session
    /\ \A n \in Node, k \in Nat : <<n, k>> \in Eph
BY DEF Eph, Garbage, NoHandshake, NoSession, HandshakeState, Session

(* A session stays one when a nonce counter is set.                        *)
LEMMA SessionUpdate ==
    ASSUME NEW s \in Session, NEW k \in Nat
    PROVE  [s EXCEPT !.sn = k] \in Session /\ [s EXCEPT !.rn = k] \in Session
BY DEF Session

LEMMA ReceivedType ==
    ASSUME NEW s \in Session
    PROVE  /\ Received(s) \in Session
           /\ s.sn + 1 \in Nat
           /\ [Received(s) EXCEPT !.sn = s.sn + 1] \in Session
<1>1. s.sn + 1 \in Nat /\ s.rn + 1 \in Nat
  BY DEF Session
<1>2. Received(s) \in Session
  BY <1>1, SessionUpdate DEF Received
<1> QED
  BY <1>1, <1>2, SessionUpdate

LEMMA WrittenType ==
    ASSUME TypeOK, NEW n \in Node, NEW cs, NEW pkt \in Packet
    PROVE  Written(n, cs, pkt) \in [Conn -> [Node -> Seq(Packet)]]
BY DEF TypeOK, Written

LEMMA SendToPeerType ==
    ASSUME TypeOK, NEW n \in Node, NEW p \in Node, NEW pkt \in Packet,
           SendToPeer(n, p, pkt)
    PROVE  /\ net' \in [Conn -> [Node -> Seq(Packet)]]
           /\ emitted' \in SUBSET Packet
BY WrittenType DEF TypeOK, SendToPeer

LEMMA InitiateHandshakeType ==
    ASSUME TypeOK, NEW n \in Node, NEW p \in Node, InitiateHandshake(n, p)
    PROVE  /\ net' \in [Conn -> [Node -> Seq(Packet)]]
           /\ emitted' \in SUBSET Packet
           /\ eph' \in [Node -> Nat]
           /\ handshake_states' \in [Node -> [Node -> HandshakeState]]
           /\ sessions' \in [Node -> [Node -> Session]]
<1> DEFINE e == <<n, eph[n] + 1>>
           m == [kind |-> "m1", i |-> e, r |-> Garbage(p)]
           pkt == [type |-> "init", src |-> n, dst |-> p, m |-> m]
<1>1. eph[n] + 1 \in Nat
  BY DEF TypeOK
<1>2. e \in Eph /\ Garbage(p) \in Eph
  BY <1>1, EphType
<1>3. m \in HandshakeMessage
  BY <1>2 DEF HandshakeMessage
<1>4. pkt \in Packet
  BY <1>3, HandshakePacketType
<1>5. SendToPeer(n, p, pkt)
  BY DEF InitiateHandshake
<1>6. net' \in [Conn -> [Node -> Seq(Packet)]] /\ emitted' \in SUBSET Packet
  BY <1>4, <1>5, SendToPeerType
<1>7. eph' \in [Node -> Nat]
  BY <1>1 DEF InitiateHandshake, TypeOK
<1>8. [role |-> "initiator", le |-> e, re |-> Garbage(p)] \in HandshakeState
  BY <1>2 DEF HandshakeState, Role
<1>9. handshake_states' \in [Node -> [Node -> HandshakeState]]
  BY <1>8 DEF InitiateHandshake, TypeOK
<1>10. sessions' \in [Node -> [Node -> Session]]
  BY EphType DEF InitiateHandshake, TypeOK
<1> QED
  BY <1>6, <1>7, <1>9, <1>10

LEMMA SealedType ==
    ASSUME TypeOK, NEW n \in Node, NEW p \in Node, NEW id \in Msg,
           Established(n, p)
    PROVE  Sealed(n, p, id) \in Ciphertext
<1>1. sessions[n][p] \in Session
  BY DEF TypeOK
<1>2. sessions[n][p].role # "none"
  BY DEF Established
<1> QED
  BY <1>1, <1>2 DEF Sealed, Session, Ciphertext

LEMMA TakePendingType ==
    ASSUME TypeOK, NEW n \in Node, NEW p \in Node, TakePending(n, p)
    PROVE  /\ flushes' \in [Node -> Seq(Flush)]
           /\ pending_private_messages' \in [Node -> [Node -> Seq(Msg)]]
<1> DEFINE f == [to |-> p, msgs |-> pending_private_messages[n][p]]
<1>1. /\ flushes \in [Node -> Seq(Flush)]
      /\ pending_private_messages \in [Node -> [Node -> Seq(Msg)]]
  BY DEF TypeOK
<1>2. f \in Flush
  BY <1>1 DEF Flush
<1>3. \/ UNCHANGED <<flushes, pending_private_messages>>
      \/ /\ flushes' = [flushes EXCEPT ![n] = Append(flushes[n], f)]
         /\ pending_private_messages' =
              [pending_private_messages EXCEPT ![n][p] = <<>>]
  BY DEF TakePending
<1> HIDE DEF f
<1>4. flushes[n] \in Seq(Flush) /\ Append(flushes[n], f) \in Seq(Flush)
  BY <1>1, <1>2
<1>5. [flushes EXCEPT ![n] = Append(flushes[n], f)] \in [Node -> Seq(Flush)]
  BY <1>1, <1>4
<1>6. [pending_private_messages EXCEPT ![n][p] = <<>>]
        \in [Node -> [Node -> Seq(Msg)]]
  BY <1>1
<1> QED
  BY <1>1, <1>3, <1>5, <1>6

LEMMA AfterHandshakeType ==
    ASSUME TypeOK, NEW n \in Node, NEW p \in Node, AfterHandshake(n, p)
    PROVE  /\ flushes' \in [Node -> Seq(Flush)]
           /\ pending_private_messages' \in [Node -> [Node -> Seq(Msg)]]
           /\ handshake_attempt_times' \in [Node -> SUBSET Node]
<1>0. handshake_attempt_times \in [Node -> SUBSET Node]
  BY DEF TypeOK
<1>1. CASE sessions'[n][p].role = "none"
  BY <1>1 DEF TypeOK, AfterHandshake
<1>2. CASE sessions'[n][p].role # "none"
  <2>1. TakePending(n, p)
    BY <1>2 DEF AfterHandshake
  <2>2. handshake_attempt_times' = [handshake_attempt_times EXCEPT
          ![n] = handshake_attempt_times[n] \ {p}]
    BY <1>2 DEF AfterHandshake
  <2>3. handshake_attempt_times' \in [Node -> SUBSET Node]
    BY <1>0, <2>2
  <2> QED
    BY <2>1, <2>3, TakePendingType
<1> QED
  BY <1>1, <1>2

(* The packet a handler works on.                                          *)
LEMMA RunsType ==
    ASSUME TypeOK, NEW n \in Node, NEW types, Runs(n, types)
    PROVE  /\ Head(ready[n]) \in Packet
           /\ Head(ready[n]).type \in types
           /\ Head(ready[n]).src \in Node
           /\ ready' \in [Node -> Seq(Packet)]
<1>1. ready[n] \in Seq(Packet) /\ ready[n] # <<>>
  BY DEF TypeOK, Runs
<1>2. Head(ready[n]) \in Packet /\ Tail(ready[n]) \in Seq(Packet)
  BY <1>1
<1>3. Head(ready[n]).src \in Node
  BY <1>2, PacketFields
<1> QED
  BY <1>2, <1>3 DEF TypeOK, Runs
(* What a private message does to the tables, sent or queued.              *)
LEMMA SendPrivateMessageType ==
    ASSUME TypeOK, NEW n \in Node, NEW p \in Node, NEW id \in Msg,
           NEW elapsed \in BOOLEAN, SendPrivateMessage(n, p, id, elapsed)
    PROVE  /\ net' \in [Conn -> [Node -> Seq(Packet)]]
           /\ emitted' \in SUBSET Packet
           /\ eph' \in [Node -> Nat]
           /\ handshake_states' \in [Node -> [Node -> HandshakeState]]
           /\ sessions' \in [Node -> [Node -> Session]]
           /\ tracked' \in [Node -> SUBSET Msg]
           /\ pending_private_messages' \in [Node -> [Node -> Seq(Msg)]]
           /\ handshake_attempt_times' \in [Node -> SUBSET Node]
<1>1. CASE Established(n, p)
  <2> DEFINE pkt == [type |-> "encrypted", src |-> n, dst |-> p,
                     c |-> Sealed(n, p, id)]
  <2>1. pkt \in Packet
    BY <1>1, SealedType, CipherPacketType
  <2>2. SendToPeer(n, p, pkt)
    BY <1>1 DEF SendPrivateMessage
  <2>3. net' \in [Conn -> [Node -> Seq(Packet)]] /\ emitted' \in SUBSET Packet
    BY <2>1, <2>2, SendToPeerType
  <2>4. sessions \in [Node -> [Node -> Session]]
    BY DEF TypeOK
  <2>5. [sessions EXCEPT ![n][p].sn = sessions[n][p].sn + 1]
          \in [Node -> [Node -> Session]]
    <3>1. /\ sessions[n][p].sn + 1 \in Nat
          /\ [sessions[n][p] EXCEPT !.sn = sessions[n][p].sn + 1] \in Session
      BY <2>4, SessionUpdate, ReceivedType
    <3> QED
      BY <2>4, <3>1
  <2>6. tracked \in [Node -> SUBSET Msg]
    BY DEF TypeOK
  <2>7. [tracked EXCEPT ![n] = tracked[n] \cup {id}] \in [Node -> SUBSET Msg]
    BY <2>6
  <2>8. /\ sessions' \in [Node -> [Node -> Session]]
        /\ tracked' \in [Node -> SUBSET Msg]
    BY <1>1, <2>5, <2>7 DEF SendPrivateMessage
  <2>9. /\ eph' \in [Node -> Nat]
        /\ handshake_states' \in [Node -> [Node -> HandshakeState]]
        /\ pending_private_messages' \in [Node -> [Node -> Seq(Msg)]]
        /\ handshake_attempt_times' \in [Node -> SUBSET Node]
    BY <1>1 DEF SendPrivateMessage, TypeOK
  <2> QED
    BY <2>3, <2>8, <2>9
<1>2. CASE ~Established(n, p)
  <2>1. /\ pending_private_messages \in [Node -> [Node -> Seq(Msg)]]
        /\ handshake_attempt_times \in [Node -> SUBSET Node]
    BY DEF TypeOK
  <2>2. Append(pending_private_messages[n][p], id) \in Seq(Msg)
    BY <2>1
  <2>3. [pending_private_messages EXCEPT
           ![n][p] = Append(pending_private_messages[n][p], id)]
          \in [Node -> [Node -> Seq(Msg)]]
    BY <2>1, <2>2
  <2>4. /\ pending_private_messages' \in [Node -> [Node -> Seq(Msg)]]
        /\ tracked' \in [Node -> SUBSET Msg]
    BY <1>2, <2>3 DEF SendPrivateMessage, TypeOK
  <2>5. [handshake_attempt_times EXCEPT
           ![n] = handshake_attempt_times[n] \cup {p}] \in [Node -> SUBSET Node]
    BY <2>1
  <2>6. CASE InitiateHandshake(n, p)
    <3>1. handshake_attempt_times' \in [Node -> SUBSET Node]
      BY <1>2, <2>1, <2>5 DEF SendPrivateMessage
    <3> QED
      BY <2>4, <2>6, <3>1, InitiateHandshakeType
  <2>7. CASE UNCHANGED <<eph, handshake_states, sessions, net, emitted,
                         handshake_attempt_times>>
    BY <2>4, <2>7 DEF TypeOK
  <2> QED
    BY <1>2, <2>6, <2>7 DEF SendPrivateMessage
<1> QED
  BY <1>1, <1>2

LEMMA AnswerType ==
    ASSUME NEW n \in Node, NEW pkt \in Packet, NEW m \in HandshakeMessage
    PROVE  Answer(n, pkt, m) \in Packet
<1>1. pkt.src \in Node
  BY PacketFields
<1> QED
  BY <1>1, HandshakePacketType DEF Answer

(* The initial state, then one step per action.                            *)
LEMMA InitType == Init => TypeOK
BY EphType DEF Init, TypeOK

LEMMA RemovePeerType ==
    ASSUME TypeOK, NEW n \in Node, NEW p \in Node, RemovePeer(n, p)
    PROVE  /\ peer_addresses' \in [Node -> [Node -> SUBSET Conn]]
           /\ pending_private_messages' \in [Node -> [Node -> Seq(Msg)]]
           /\ sessions' \in [Node -> [Node -> Session]]
           /\ handshake_states' \in [Node -> [Node -> HandshakeState]]
<1>1. /\ peer_addresses \in [Node -> [Node -> SUBSET Conn]]
      /\ pending_private_messages \in [Node -> [Node -> Seq(Msg)]]
      /\ sessions \in [Node -> [Node -> Session]]
      /\ handshake_states \in [Node -> [Node -> HandshakeState]]
  BY DEF TypeOK
<1>2. NoSession(n) \in Session /\ NoHandshake(n) \in HandshakeState
  BY EphType
<1> QED
  BY <1>1, <1>2 DEF RemovePeer

LEMMA LeaveStepType ==
    ASSUME TypeOK, NEW n \in Node
    PROVE  /\ SendLeave(n) => TypeOK'
           /\ HandleLeave(n) => TypeOK'
<1>1. ASSUME SendLeave(n) PROVE TypeOK'
  <2>1. Leave(n) \in Packet
    BY AnnouncePacketType
  <2>2. Written(n, Conn, Leave(n)) \in [Conn -> [Node -> Seq(Packet)]]
    BY <2>1, WrittenType
  <2>3. left' \in SUBSET Leaver
    BY <1>1 DEF SendLeave, TypeOK
  <2> QED
    BY <1>1, <2>1, <2>2, <2>3 DEF SendLeave, TypeOK, pendingVars, deliveryVars
<1>2. ASSUME HandleLeave(n) PROVE TypeOK'
  <2>1. Head(ready[n]).src \in Node /\ ready' \in [Node -> Seq(Packet)]
    BY <1>2, RunsType DEF HandleLeave
  <2>2. /\ peer_addresses' \in [Node -> [Node -> SUBSET Conn]]
        /\ pending_private_messages' \in [Node -> [Node -> Seq(Msg)]]
        /\ sessions' \in [Node -> [Node -> Session]]
        /\ handshake_states' \in [Node -> [Node -> HandshakeState]]
    BY <1>2, <2>1, RemovePeerType DEF HandleLeave, TypeOK
  <2> QED
    BY <1>2, <2>1, <2>2 DEF HandleLeave, TypeOK, linkVars, deliveryVars
<1> QED
  BY <1>1, <1>2

LEMMA LinkStepType ==
    ASSUME TypeOK
    PROVE  /\ \A c \in Conn : Connect(c) => TypeOK'
           /\ \A n \in Node, c \in Conn : ConnectionLost(n, c) => TypeOK'
           /\ \A n \in Node, c \in Conn : SendIdentityAnnounce(n, c) => TypeOK'
           /\ \A n \in Node, c \in Conn : Receive(n, c) => TypeOK'
<1>1. ASSUME NEW c \in Conn, Connect(c) PROVE TypeOK'
  <2>1. Opener[c] \in Node /\ Acceptor[c] \in Node
    OBVIOUS
  <2>2. /\ opened' \in SUBSET Conn
        /\ open' \in [Conn -> SUBSET Node]
        /\ announce_due' \in [Node -> SUBSET Conn]
    BY <1>1, <2>1 DEF Connect, TypeOK
  <2> QED
    BY <1>1, <2>2 DEF Connect, TypeOK, pendingVars, deliveryVars
<1>2. ASSUME NEW n \in Node, NEW c \in Conn, ConnectionLost(n, c) PROVE TypeOK'
  <2>1. /\ open \in [Conn -> SUBSET Node]
        /\ net \in [Conn -> [Node -> Seq(Packet)]]
    BY DEF TypeOK
  <2>2. /\ [open EXCEPT ![c] = open[c] \ {n}] \in [Conn -> SUBSET Node]
        /\ [net EXCEPT ![c][n] = <<>>] \in [Conn -> [Node -> Seq(Packet)]]
    BY <2>1
  <2>3. /\ peer_addresses' \in [Node -> [Node -> SUBSET Conn]]
        /\ pending_private_messages' \in [Node -> [Node -> Seq(Msg)]]
        /\ sessions' \in [Node -> [Node -> Session]]
        /\ handshake_states' \in [Node -> [Node -> HandshakeState]]
    BY <1>2, RemovePeerType DEF ConnectionLost, TypeOK
  <2> QED
    BY <1>2, <2>2, <2>3 DEF ConnectionLost, TypeOK, deliveryVars
<1>3. ASSUME NEW n \in Node, NEW c \in Conn, SendIdentityAnnounce(n, c)
      PROVE  TypeOK'
  <2> DEFINE pkt == [type |-> "announce", src |-> n]
  <2>1. pkt \in Packet
    BY AnnouncePacketType
  <2>2. Written(n, Conn, pkt) \in [Conn -> [Node -> Seq(Packet)]]
    BY <2>1, WrittenType
  <2>3. net' = Written(n, Conn, pkt) /\ emitted' = emitted \cup {pkt}
    BY <1>3 DEF SendIdentityAnnounce
  <2> HIDE DEF pkt
  <2>4. announce_due' \in [Node -> SUBSET Conn]
    BY <1>3 DEF SendIdentityAnnounce, TypeOK
  <2> QED
    BY <1>3, <2>1, <2>2, <2>3, <2>4
    DEF SendIdentityAnnounce, TypeOK, pendingVars, deliveryVars
<1>4. ASSUME NEW n \in Node, NEW c \in Conn, Receive(n, c) PROVE TypeOK'
  <2> DEFINE pkt == Head(net[c][n])
  <2>1. net \in [Conn -> [Node -> Seq(Packet)]] /\ net[c][n] # <<>>
    BY <1>4 DEF TypeOK, Receive
  <2>2. net[c][n] \in Seq(Packet)
    BY <2>1
  <2>3. pkt \in Packet /\ Tail(net[c][n]) \in Seq(Packet)
    BY <2>1, <2>2
  <2>4. [net EXCEPT ![c][n] = Tail(net[c][n])]
          \in [Conn -> [Node -> Seq(Packet)]]
    BY <2>1, <2>3
  <2>5. pkt.src \in Node
    BY <2>3, PacketFields
  <2>6. /\ ready \in [Node -> Seq(Packet)]
        /\ peer_addresses \in [Node -> [Node -> SUBSET Conn]]
    BY DEF TypeOK
  <2> HIDE DEF pkt
  <2>7. ready[n] \in Seq(Packet) /\ Append(ready[n], pkt) \in Seq(Packet)
    BY <2>3, <2>6
  <2>8. /\ [ready EXCEPT ![n] = Append(ready[n], pkt)] \in [Node -> Seq(Packet)]
        /\ [peer_addresses EXCEPT ![n][pkt.src] = {c}]
             \in [Node -> [Node -> SUBSET Conn]]
    BY <2>5, <2>6, <2>7
  <2>9. /\ net' \in [Conn -> [Node -> Seq(Packet)]]
        /\ ready' \in [Node -> Seq(Packet)]
        /\ peer_addresses' \in [Node -> [Node -> SUBSET Conn]]
    BY <1>4, <2>4, <2>6, <2>8 DEF Receive, pkt
  <2> QED
    BY <1>4, <2>9 DEF Receive, TypeOK, linkVars, pendingVars, deliveryVars
<1> QED
  BY <1>1, <1>2, <1>3, <1>4

LEMMA HandshakeStepType ==
    ASSUME TypeOK, NEW n \in Node
    PROVE  /\ HandleIdentityAnnounce(n) => TypeOK'
           /\ StartAsResponder(n) => TypeOK'
           /\ FinishAsInitiator(n) => TypeOK'
           /\ FinishAsResponder(n) => TypeOK'
           /\ HandshakeFails(n) => TypeOK'
<1> DEFINE pkt == Head(ready[n])
           p == pkt.src
           h == handshake_states[n][p]
<1>a. /\ handshake_states \in [Node -> [Node -> HandshakeState]]
      /\ sessions \in [Node -> [Node -> Session]]
      /\ eph \in [Node -> Nat]
      /\ auth_tasks \in [Node -> SUBSET Node]
  BY DEF TypeOK
<1>b. NoHandshake(n) \in HandshakeState
  BY EphType
<1>c. ASSUME Runs(n, {"init", "resp"})
      PROVE  /\ pkt \in Packet /\ p \in Node
             /\ ready' \in [Node -> Seq(Packet)]
             /\ pkt.m \in HandshakeMessage
             /\ h \in HandshakeState
             /\ pkt.m.i \in Eph /\ pkt.m.r \in Eph
             /\ h.le \in Eph /\ h.re \in Eph
  <2>1. /\ pkt \in Packet /\ p \in Node /\ pkt.type \in {"init", "resp"}
        /\ ready' \in [Node -> Seq(Packet)]
    BY <1>c, RunsType
  <2>2. pkt.m \in HandshakeMessage
    BY <2>1, PacketFields
  <2>3. h \in HandshakeState
    <3>1. \A q \in Node : handshake_states[n][q] \in HandshakeState
      BY <1>a
    <3> QED
      BY <2>1, <3>1
  <2>4. pkt.m.i \in Eph /\ pkt.m.r \in Eph
    BY <2>2 DEF HandshakeMessage
  <2>5. h.le \in Eph /\ h.re \in Eph
    BY <2>3 DEF HandshakeState
  <2> QED
    BY <2>1, <2>2, <2>3, <2>4, <2>5
<1>1. ASSUME HandleIdentityAnnounce(n) PROVE TypeOK'
  <2>1. p \in Node /\ ready' \in [Node -> Seq(Packet)]
    BY <1>1, RunsType DEF HandleIdentityAnnounce
  <2>2. /\ net' \in [Conn -> [Node -> Seq(Packet)]]
        /\ emitted' \in SUBSET Packet
        /\ eph' \in [Node -> Nat]
        /\ handshake_states' \in [Node -> [Node -> HandshakeState]]
        /\ sessions' \in [Node -> [Node -> Session]]
    <3>1. CASE InitiateHandshake(n, p)
      BY <2>1, <3>1, InitiateHandshakeType
    <3>2. CASE UNCHANGED <<eph, handshake_states, sessions, net, emitted>>
      BY <3>2 DEF TypeOK
    <3> QED
      BY <1>1, <3>1, <3>2 DEF HandleIdentityAnnounce
  <2> QED
    BY <1>1, <2>1, <2>2
    DEF HandleIdentityAnnounce, TypeOK, linkVars, pendingVars, deliveryVars
<1>2. ASSUME StartAsResponder(n) PROVE TypeOK'
  <2> DEFINE e == <<n, eph[n] + 1>>
             re == IF pkt.m.kind = "m1" THEN pkt.m.i ELSE Garbage(p)
             m == [kind |-> "m2", i |-> re, r |-> e]
             hs == [role |-> "responder", le |-> e, re |-> re]
  <2>1. /\ Runs(n, {"init", "resp"})
        /\ eph' = [eph EXCEPT ![n] = eph[n] + 1]
        /\ handshake_states' = [handshake_states EXCEPT ![n][p] = hs]
        /\ SendToPeer(n, p, Answer(n, pkt, m))
        /\ sessions' = sessions
        /\ AfterHandshake(n, p)
        /\ UNCHANGED <<linkVars, peer_addresses, auth_tasks, deliveryVars>>
    BY <1>2 DEF StartAsResponder
  <2>2. /\ pkt \in Packet /\ p \in Node /\ pkt.m.i \in Eph
        /\ ready' \in [Node -> Seq(Packet)]
    BY <1>c, <2>1
  <2>3. eph[n] + 1 \in Nat
    BY <1>a
  <2>4. e \in Eph /\ re \in Eph
    BY <2>2, <2>3, EphType
  <2> HIDE DEF e, re, pkt, p
  <2>5. m \in HandshakeMessage
    BY <2>4 DEF HandshakeMessage
  <2>6. hs \in HandshakeState
    BY <2>4 DEF HandshakeState, Role
  <2> HIDE DEF m, hs
  <2>7. eph' \in [Node -> Nat]
    BY <1>a, <2>1, <2>3
  <2>8. handshake_states' \in [Node -> [Node -> HandshakeState]]
    BY <1>a, <2>1, <2>2, <2>6
  <2>9. net' \in [Conn -> [Node -> Seq(Packet)]] /\ emitted' \in SUBSET Packet
    BY <2>1, <2>2, <2>5, AnswerType, SendToPeerType
  <2>10. /\ flushes' \in [Node -> Seq(Flush)]
         /\ pending_private_messages' \in [Node -> [Node -> Seq(Msg)]]
         /\ handshake_attempt_times' \in [Node -> SUBSET Node]
    BY <2>1, <2>2, AfterHandshakeType
  <2> QED
    BY <2>1, <2>2, <2>7, <2>8, <2>9, <2>10
    DEF TypeOK, linkVars, deliveryVars
<1>3. ASSUME FinishAsInitiator(n) PROVE TypeOK'
  <2> DEFINE s == [role |-> "initiator", i |-> h.le, r |-> pkt.m.r,
                   sn |-> 0, rn |-> 0]
             m == [kind |-> "m3", i |-> h.le, r |-> pkt.m.r]
  <2>1. /\ Runs(n, {"init", "resp"})
        /\ handshake_states' =
             [handshake_states EXCEPT ![n][p] = NoHandshake(n)]
        /\ sessions' = [sessions EXCEPT ![n][p] = s]
        /\ SendToPeer(n, p, Answer(n, pkt, m))
        /\ auth_tasks' = [auth_tasks EXCEPT ![n] = auth_tasks[n] \cup {p}]
        /\ AfterHandshake(n, p)
        /\ UNCHANGED <<linkVars, peer_addresses, eph, deliveryVars>>
    BY <1>3 DEF FinishAsInitiator
  <2>2. /\ pkt \in Packet /\ p \in Node /\ pkt.m.r \in Eph /\ h.le \in Eph
        /\ ready' \in [Node -> Seq(Packet)]
    BY <1>c, <2>1
  <2>3. s \in Session /\ m \in HandshakeMessage
    BY <2>2 DEF Session, Role, HandshakeMessage
  <2> HIDE DEF s, m, pkt, p, h
  <2>4. /\ handshake_states' \in [Node -> [Node -> HandshakeState]]
        /\ sessions' \in [Node -> [Node -> Session]]
        /\ auth_tasks' \in [Node -> SUBSET Node]
    BY <1>a, <1>b, <2>1, <2>2, <2>3
  <2>5. net' \in [Conn -> [Node -> Seq(Packet)]] /\ emitted' \in SUBSET Packet
    BY <2>1, <2>2, <2>3, AnswerType, SendToPeerType
  <2>6. /\ flushes' \in [Node -> Seq(Flush)]
        /\ pending_private_messages' \in [Node -> [Node -> Seq(Msg)]]
        /\ handshake_attempt_times' \in [Node -> SUBSET Node]
    BY <2>1, <2>2, AfterHandshakeType
  <2> QED
    BY <2>1, <2>2, <2>4, <2>5, <2>6 DEF TypeOK, linkVars, deliveryVars
<1>4. ASSUME FinishAsResponder(n) PROVE TypeOK'
  <2> DEFINE s == [role |-> "responder", i |-> h.re, r |-> h.le,
                   sn |-> 0, rn |-> 0]
  <2>1. /\ Runs(n, {"init", "resp"})
        /\ handshake_states' =
             [handshake_states EXCEPT ![n][p] = NoHandshake(n)]
        /\ sessions' = [sessions EXCEPT ![n][p] = s]
        /\ auth_tasks' = [auth_tasks EXCEPT ![n] = auth_tasks[n] \cup {p}]
        /\ AfterHandshake(n, p)
        /\ UNCHANGED <<linkVars, net, peer_addresses, eph, deliveryVars, emitted>>
    BY <1>4 DEF FinishAsResponder
  <2>2. /\ p \in Node /\ h.re \in Eph /\ h.le \in Eph
        /\ ready' \in [Node -> Seq(Packet)]
    BY <1>c, <2>1
  <2>3. s \in Session
    BY <2>2 DEF Session, Role
  <2> HIDE DEF s, pkt, p, h
  <2>4. /\ handshake_states' \in [Node -> [Node -> HandshakeState]]
        /\ sessions' \in [Node -> [Node -> Session]]
        /\ auth_tasks' \in [Node -> SUBSET Node]
    BY <1>a, <1>b, <2>1, <2>2, <2>3
  <2>5. /\ flushes' \in [Node -> Seq(Flush)]
        /\ pending_private_messages' \in [Node -> [Node -> Seq(Msg)]]
        /\ handshake_attempt_times' \in [Node -> SUBSET Node]
    BY <2>1, <2>2, AfterHandshakeType
  <2> QED
    BY <2>1, <2>2, <2>4, <2>5 DEF TypeOK, linkVars, deliveryVars
<1>5. ASSUME HandshakeFails(n) PROVE TypeOK'
  <2>1. /\ Runs(n, {"init", "resp"})
        /\ handshake_states' =
             [handshake_states EXCEPT ![n][p] = NoHandshake(n)]
        /\ UNCHANGED <<linkVars, net, peer_addresses, sessions, eph,
                       pendingVars, deliveryVars, emitted>>
    BY <1>5 DEF HandshakeFails
  <2>2. p \in Node /\ ready' \in [Node -> Seq(Packet)]
    BY <1>c, <2>1
  <2> HIDE DEF pkt, p, h
  <2>3. handshake_states' \in [Node -> [Node -> HandshakeState]]
    BY <1>a, <1>b, <2>1, <2>2
  <2> QED
    BY <2>1, <2>2, <2>3 DEF TypeOK, linkVars, pendingVars, deliveryVars
<1> QED
  BY <1>1, <1>2, <1>3, <1>4, <1>5

LEMMA DeliveryStepType ==
    ASSUME TypeOK, NEW n \in Node
    PROVE  /\ HandleNoiseEncrypted(n) => TypeOK'
           /\ HandleDeliveryAck(n) => TypeOK'
<1> DEFINE pkt == Head(ready[n])
           p == pkt.src
           id == pkt.c.id
           s == sessions[n][p]
<1>a. /\ sessions \in [Node -> [Node -> Session]]
      /\ processed_messages \in [Node -> SUBSET Msg]
      /\ sent_acks \in [Node -> SUBSET Msg]
      /\ tracked \in [Node -> SUBSET Msg]
      /\ acked \in [Node -> SUBSET Msg]
  BY DEF TypeOK
<1>b. ASSUME NEW types \in SUBSET {"encrypted", "ack"}, Runs(n, types)
      PROVE  /\ p \in Node /\ id \in Msg /\ s \in Session
             /\ ready' \in [Node -> Seq(Packet)]
             /\ [sessions EXCEPT ![n][p] = Received(s)]
                  \in [Node -> [Node -> Session]]
             /\ [sessions EXCEPT ![n][p] =
                    [Received(s) EXCEPT !.sn = s.sn + 1]]
                  \in [Node -> [Node -> Session]]
  <2>1. /\ pkt \in Packet /\ p \in Node /\ pkt.type \in {"encrypted", "ack"}
        /\ ready' \in [Node -> Seq(Packet)]
    BY <1>b, RunsType
  <2>2. pkt.c \in Ciphertext
    BY <2>1, PacketFields
  <2>3. id \in Msg
    BY <2>2 DEF Ciphertext
  <2>4. s \in Session
    BY <1>a, <2>1
  <2> HIDE DEF s, p, pkt
  <2>5. /\ Received(s) \in Session
        /\ [Received(s) EXCEPT !.sn = s.sn + 1] \in Session
    BY <2>4, ReceivedType
  <2> QED
    BY <1>a, <2>1, <2>3, <2>4, <2>5
<1>1. ASSUME HandleNoiseEncrypted(n) PROVE TypeOK'
  <2>1. Runs(n, {"encrypted"})
    BY <1>1 DEF HandleNoiseEncrypted
  <2>2. /\ p \in Node /\ id \in Msg /\ s \in Session
        /\ ready' \in [Node -> Seq(Packet)]
        /\ [sessions EXCEPT ![n][p] = Received(s)]
             \in [Node -> [Node -> Session]]
        /\ [sessions EXCEPT ![n][p] = [Received(s) EXCEPT !.sn = s.sn + 1]]
             \in [Node -> [Node -> Session]]
    BY <1>b, <2>1
  <2> DEFINE out == [type |-> "ack", src |-> n, dst |-> p,
                     c |-> Sealed(n, p, id)]
             Tables == <<sessions, processed_messages, sent_acks, net, emitted>>
  <2>3. \/ UNCHANGED Tables
        \/ /\ Established(n, p)
           /\ \E x \in {processed_messages[n], processed_messages[n] \cup {id}} :
                processed_messages' = [processed_messages EXCEPT ![n] = x]
           /\ \/ /\ sent_acks' =
                     [sent_acks EXCEPT ![n] = sent_acks[n] \cup {id}]
                 /\ sessions' = [sessions EXCEPT ![n][p] =
                      [Received(s) EXCEPT !.sn = s.sn + 1]]
                 /\ SendToPeer(n, p, out)
              \/ /\ sessions' = [sessions EXCEPT ![n][p] = Received(s)]
                 /\ UNCHANGED <<sent_acks, net, emitted>>
    BY <1>1 DEF HandleNoiseEncrypted
  <2> HIDE DEF pkt, p, id, s
  <2>4. Established(n, p) => out \in Packet
    BY <2>2, SealedType, CipherPacketType
  <2> HIDE DEF out
  <2>5. /\ sessions' \in [Node -> [Node -> Session]]
        /\ processed_messages' \in [Node -> SUBSET Msg]
        /\ sent_acks' \in [Node -> SUBSET Msg]
    <3>1. \A x \in {processed_messages[n], processed_messages[n] \cup {id}} :
            [processed_messages EXCEPT ![n] = x] \in [Node -> SUBSET Msg]
      BY <1>a, <2>2
    <3>2. [sent_acks EXCEPT ![n] = sent_acks[n] \cup {id}]
            \in [Node -> SUBSET Msg]
      BY <1>a, <2>2
    <3>3. sessions' \in [Node -> [Node -> Session]]
      BY <1>a, <2>2, <2>3
    <3>4. processed_messages' \in [Node -> SUBSET Msg]
      BY <1>a, <2>3, <3>1
    <3>5. sent_acks' \in [Node -> SUBSET Msg]
      BY <1>a, <2>3, <3>2
    <3> QED
      BY <3>3, <3>4, <3>5
  <2>6. net' \in [Conn -> [Node -> Seq(Packet)]] /\ emitted' \in SUBSET Packet
    <3>1. UNCHANGED <<net, emitted>>
            \/ (Established(n, p) /\ SendToPeer(n, p, out))
      BY <2>3
    <3>2. CASE UNCHANGED <<net, emitted>>
      BY <3>2 DEF TypeOK
    <3>3. CASE Established(n, p) /\ SendToPeer(n, p, out)
      BY <2>2, <2>4, <3>3, SendToPeerType
    <3> QED
      BY <3>1, <3>2, <3>3
  <2>7. UNCHANGED <<linkVars, peer_addresses, handshake_states, eph,
                    pendingVars, submitted, tracked, acked>>
    BY <1>1 DEF HandleNoiseEncrypted
  <2> QED
    BY <2>2, <2>5, <2>6, <2>7 DEF TypeOK, linkVars, pendingVars
<1>2. ASSUME HandleDeliveryAck(n) PROVE TypeOK'
  <2>1. /\ Runs(n, {"ack"})
        /\ \/ sessions' = [sessions EXCEPT ![n][p] = Received(s)]
           \/ sessions' = sessions
        /\ \/ /\ tracked' = [tracked EXCEPT ![n] = tracked[n] \ {id}]
              /\ acked' = [acked EXCEPT ![n] = acked[n] \cup {id}]
           \/ UNCHANGED <<tracked, acked>>
        /\ UNCHANGED <<linkVars, net, peer_addresses, handshake_states, eph,
                       pendingVars, submitted, processed_messages, sent_acks,
                       emitted>>
    BY <1>2 DEF HandleDeliveryAck
  <2>2. /\ p \in Node /\ id \in Msg
        /\ ready' \in [Node -> Seq(Packet)]
        /\ [sessions EXCEPT ![n][p] = Received(s)]
             \in [Node -> [Node -> Session]]
    BY <1>b, <2>1
  <2> HIDE DEF pkt, p, id, s
  <2>3. /\ sessions' \in [Node -> [Node -> Session]]
        /\ tracked' \in [Node -> SUBSET Msg]
        /\ acked' \in [Node -> SUBSET Msg]
    <3>1. /\ [tracked EXCEPT ![n] = tracked[n] \ {id}] \in [Node -> SUBSET Msg]
          /\ [acked EXCEPT ![n] = acked[n] \cup {id}] \in [Node -> SUBSET Msg]
      BY <1>a, <2>2
    <3> QED
      BY <1>a, <2>1, <2>2, <3>1
  <2> QED
    BY <2>1, <2>2, <2>3 DEF TypeOK, linkVars, pendingVars
<1> QED
  BY <1>1, <1>2

LEMMA MessageStepType ==
    ASSUME TypeOK, NEW n \in Node
    PROVE  /\ \A p \in Node, id \in Msg, elapsed \in BOOLEAN :
                Submit(n, p, id, elapsed) => TypeOK'
           /\ \A p \in Node : StartFlush(n, p) => TypeOK'
           /\ \A k \in DOMAIN flushes[n], elapsed \in BOOLEAN :
                FlushOne(n, k, elapsed) => TypeOK'
<1>1. ASSUME NEW p \in Node, NEW id \in Msg, NEW elapsed \in BOOLEAN,
             Submit(n, p, id, elapsed)
      PROVE  TypeOK'
  <2>0. SendPrivateMessage(n, p, id, elapsed)
    BY <1>1 DEF Submit
  <2>1. /\ submitted' = submitted \cup {id}
        /\ UNCHANGED <<linkVars, ready, peer_addresses, auth_tasks, flushes,
                       processed_messages, sent_acks, acked>>
    BY <1>1 DEF Submit
  <2>2. submitted' \in SUBSET Msg
    BY <2>1 DEF TypeOK
  <2>3. /\ net' \in [Conn -> [Node -> Seq(Packet)]]
        /\ emitted' \in SUBSET Packet
        /\ eph' \in [Node -> Nat]
        /\ handshake_states' \in [Node -> [Node -> HandshakeState]]
        /\ sessions' \in [Node -> [Node -> Session]]
        /\ tracked' \in [Node -> SUBSET Msg]
        /\ pending_private_messages' \in [Node -> [Node -> Seq(Msg)]]
        /\ handshake_attempt_times' \in [Node -> SUBSET Node]
    BY <2>0, SendPrivateMessageType, SMTT(30)
  <2>4. /\ opened' \in SUBSET Conn
        /\ open' \in [Conn -> SUBSET Node]
        /\ ready' \in [Node -> Seq(Packet)]
        /\ announce_due' \in [Node -> SUBSET Conn]
        /\ left' \in SUBSET Leaver
        /\ peer_addresses' \in [Node -> [Node -> SUBSET Conn]]
        /\ auth_tasks' \in [Node -> SUBSET Node]
        /\ flushes' \in [Node -> Seq(Flush)]
        /\ processed_messages' \in [Node -> SUBSET Msg]
        /\ sent_acks' \in [Node -> SUBSET Msg]
        /\ acked' \in [Node -> SUBSET Msg]
    BY <2>1 DEF TypeOK, linkVars
  <2> QED
    BY <2>2, <2>3, <2>4 DEF TypeOK
<1>2. ASSUME NEW p \in Node, StartFlush(n, p) PROVE TypeOK'
  <2>1. /\ auth_tasks \in [Node -> SUBSET Node]
        /\ auth_tasks' = [auth_tasks EXCEPT ![n] = auth_tasks[n] \ {p}]
        /\ TakePending(n, p)
    BY <1>2 DEF StartFlush, TypeOK
  <2>2. auth_tasks' \in [Node -> SUBSET Node]
    BY <2>1
  <2>3. /\ flushes' \in [Node -> Seq(Flush)]
        /\ pending_private_messages' \in [Node -> [Node -> Seq(Msg)]]
    BY <2>1, TakePendingType
  <2> QED
    BY <1>2, <2>2, <2>3 DEF StartFlush, TypeOK, linkVars, deliveryVars
<1>3. ASSUME NEW k \in DOMAIN flushes[n], NEW elapsed \in BOOLEAN,
             FlushOne(n, k, elapsed)
      PROVE  TypeOK'
  <2> DEFINE f == flushes[n][k]
             rest == [to |-> f.to, msgs |-> Tail(f.msgs)]
  <2>1. /\ f.msgs # <<>>
        /\ flushes' = [flushes EXCEPT ![n][k] = rest]
        /\ SendPrivateMessage(n, f.to, Head(f.msgs), elapsed)
        /\ UNCHANGED <<linkVars, ready, peer_addresses, auth_tasks, submitted,
                       processed_messages, sent_acks, acked>>
    BY <1>3 DEF FlushOne
  <2>2. flushes \in [Node -> Seq(Flush)]
    BY DEF TypeOK
  <2>3. flushes[n] \in Seq(Flush)
    BY <2>2
  <2>4. f \in Flush
    BY <2>3
  <2>5. f.to \in Node /\ f.msgs \in Seq(Msg)
    BY <2>4 DEF Flush
  <2>6. Head(f.msgs) \in Msg /\ Tail(f.msgs) \in Seq(Msg)
    BY <2>1, <2>5
  <2>7. rest \in Flush
    BY <2>5, <2>6 DEF Flush
  <2> HIDE DEF rest
  <2>8. [flushes[n] EXCEPT ![k] = rest] \in Seq(Flush)
    BY <2>3, <2>7
  <2>9. flushes' \in [Node -> Seq(Flush)]
    <3>1. flushes' = [flushes EXCEPT ![n] = [flushes[n] EXCEPT ![k] = rest]]
      BY <2>1
    <3> QED
      BY <2>2, <2>8, <3>1
  <2> HIDE DEF f
  <2>10. /\ net' \in [Conn -> [Node -> Seq(Packet)]]
         /\ emitted' \in SUBSET Packet
         /\ eph' \in [Node -> Nat]
         /\ handshake_states' \in [Node -> [Node -> HandshakeState]]
         /\ sessions' \in [Node -> [Node -> Session]]
         /\ tracked' \in [Node -> SUBSET Msg]
         /\ pending_private_messages' \in [Node -> [Node -> Seq(Msg)]]
         /\ handshake_attempt_times' \in [Node -> SUBSET Node]
    BY <2>1, <2>5, <2>6, SendPrivateMessageType
  <2> QED
    BY <2>1, <2>9, <2>10 DEF TypeOK, linkVars
<1> QED
  BY <1>1, <1>2, <1>3

(* Every table of every node keeps its shape, whatever the nodes, messages *)
(* and connections are.                                                    *)
THEOREM TypeCorrect == Spec => []TypeOK
<1>1. TypeOK /\ [Next]_vars => TypeOK'
  <2> SUFFICES ASSUME TypeOK, [Next]_vars PROVE TypeOK'
    OBVIOUS
  <2>1. CASE UNCHANGED vars
    BY <2>1 DEF TypeOK, vars, linkVars, pendingVars, deliveryVars
  <2>2. CASE \E c \in Conn : Connect(c)
    BY <2>2, LinkStepType
  <2>3. CASE \E n \in Node, c \in Conn : ConnectionLost(n, c)
    BY <2>3, LinkStepType
  <2>4. ASSUME NEW n \in Node, Step(n) PROVE TypeOK'
    <3>1. CASE \E c \in Conn : Receive(n, c) \/ SendIdentityAnnounce(n, c)
      BY <3>1, LinkStepType
    <3>2. CASE Handle(n)
      BY <3>2, HandshakeStepType, DeliveryStepType, LeaveStepType DEF Handle
    <3>3. CASE \/ \E p \in Node : StartFlush(n, p)
               \/ \E k \in DOMAIN flushes[n], elapsed \in BOOLEAN :
                    FlushOne(n, k, elapsed)
      BY <3>3, MessageStepType
    <3> QED
      BY <2>4, <3>1, <3>2, <3>3 DEF Step
  <2>5. CASE \E n, p \in Node, id \in Msg, elapsed \in BOOLEAN :
               Submit(n, p, id, elapsed)
    BY <2>5, MessageStepType
  <2>6. CASE \E n \in Node : SendLeave(n)
    BY <2>6, LeaveStepType
  <2> QED
    BY <2>1, <2>2, <2>3, <2>4, <2>5, <2>6 DEF Next
<1> QED
  BY <1>1, InitType, PTL DEF Spec

----------------------------------------------------------------------------
(* No nonce is used twice                                                  *)

(* NonceUnique is not inductive: that the counter of a new session starts  *)
(* at 0 is harmless only because its key is new.  NonceInv follows every   *)
(* ephemeral key through its life.  It is generated into one handshake     *)
(* state; a handshake that completes moves it into one session; a session  *)
(* has counted past every ciphertext made with its key; and no key comes   *)
(* back.                                                                   *)
Spent == {k \in Eph : k[2] <= eph[k[1]]}

HandshakeKeys ==
    \A n, p \in Node : LET k == handshake_states[n][p].le IN
      handshake_states[n][p].role # "none" =>
        /\ k[1] = n /\ k \in Spent
        /\ \A q \in Node : handshake_states[n][q].role # "none"
                            /\ handshake_states[n][q].le = k => q = p
        /\ \A q \in Node : Established(n, q) => Own(sessions[n][q]) # k
        /\ \A c \in Ciphertexts : Own(c) # k

SessionKeys ==
    \A n, p \in Node : LET s == sessions[n][p] IN
      Established(n, p) =>
        /\ Own(s)[1] = n /\ Own(s) \in Spent
        /\ \A q \in Node : Established(n, q) /\ Own(sessions[n][q]) = Own(s)
                            => q = p
        /\ \A c \in Ciphertexts : Own(c) = Own(s) =>
             c.role = s.role /\ c.i = s.i /\ c.r = s.r /\ c.nonce < s.sn

NonceInv ==
    /\ \A c \in Ciphertexts : Own(c) \in Spent
    /\ HandshakeKeys
    /\ SessionKeys
    /\ NonceUnique

(* What has to be shown of a step for the two to hold after it.            *)
LEMMA HandshakeKeysNext ==
    ASSUME \A a, b \in Node : handshake_states'[a][b].role # "none" =>
             LET k == handshake_states'[a][b].le IN
             /\ k[1] = a /\ k \in Spent'
             /\ \A q \in Node : handshake_states'[a][q].role # "none"
                  /\ handshake_states'[a][q].le = k => q = b
             /\ \A q \in Node : sessions'[a][q].role # "none"
                  => Own(sessions'[a][q]) # k
             /\ \A c \in Ciphertexts' : Own(c) # k
    PROVE  HandshakeKeys'
BY DEF HandshakeKeys, Established, Own

LEMMA SessionKeysNext ==
    ASSUME \A a, b \in Node : sessions'[a][b].role # "none" =>
             LET t == sessions'[a][b] IN
             /\ Own(t)[1] = a /\ Own(t) \in Spent'
             /\ \A q \in Node : sessions'[a][q].role # "none"
                  /\ Own(sessions'[a][q]) = Own(t) => q = b
             /\ \A c \in Ciphertexts' : Own(c) = Own(t) =>
                  c.role = t.role /\ c.i = t.i /\ c.r = t.r /\ c.nonce < t.sn
    PROVE  SessionKeys'
BY DEF SessionKeys, Established, Own

LEMMA FreshKey ==
    ASSUME TypeOK, NEW n \in Node, eph' = [eph EXCEPT ![n] = eph[n] + 1]
    PROVE  /\ <<n, eph[n] + 1>> \notin Spent
           /\ <<n, eph[n] + 1>> \in Spent'
           /\ \A k \in Spent : k \in Spent'
<1>1. eph \in [Node -> Nat]
  BY DEF TypeOK
<1> QED
  BY <1>1 DEF Spent, Eph

LEMMA CiphertextsType ==
    ASSUME TypeOK
    PROVE  Ciphertexts \in SUBSET Ciphertext
<1>1. emitted \in SUBSET Packet
  BY DEF TypeOK
<1> QED
  BY <1>1, PacketFields DEF Ciphertexts

(* Packets without a ciphertext leave Ciphertexts alone.                   *)
LEMMA PlainPacket ==
    ASSUME NEW pkt, pkt.type \notin {"encrypted", "ack"},
           emitted' = emitted \cup {pkt}
    PROVE  Ciphertexts' = Ciphertexts
BY DEF Ciphertexts

LEMMA CipherPacket ==
    ASSUME NEW pkt, pkt.type \in {"encrypted", "ack"},
           emitted' = emitted \cup {pkt}
    PROVE  Ciphertexts' = Ciphertexts \cup {pkt.c}
BY DEF Ciphertexts

(* What the tables look like after an assignment to one entry.             *)
LEMMA EntryUpdate ==
    ASSUME NEW S, NEW f \in [Node -> [Node -> S]], NEW n \in Node,
           NEW p \in Node, NEW x
    PROVE  LET g == [f EXCEPT ![n][p] = x] IN
           \A a, b \in Node : g[a][b] = IF a = n /\ b = p THEN x ELSE f[a][b]
OBVIOUS

(* A new key in a handshake state, the session there was kept or dropped.  *)
LEMMA NewKeyStep ==
    ASSUME TypeOK, NonceInv, NEW n \in Node, NEW p \in Node, NEW h, NEW s,
           h.le = <<n, eph[n] + 1>>,
           s = sessions[n][p] \/ s.role = "none",
           eph' = [eph EXCEPT ![n] = eph[n] + 1],
           handshake_states' = [handshake_states EXCEPT ![n][p] = h],
           sessions' = [sessions EXCEPT ![n][p] = s],
           Ciphertexts' = Ciphertexts
    PROVE  NonceInv'
<1>1. /\ \A a, b \in Node : handshake_states'[a][b] =
             IF a = n /\ b = p THEN h ELSE handshake_states[a][b]
      /\ \A a, b \in Node : sessions'[a][b] =
             IF a = n /\ b = p THEN s ELSE sessions[a][b]
  <2>1. /\ handshake_states \in [Node -> [Node -> HandshakeState]]
        /\ sessions \in [Node -> [Node -> Session]]
    BY DEF TypeOK
  <2> QED
    BY <2>1, EntryUpdate
<1> DEFINE e == <<n, eph[n] + 1>>
<1>2. e \notin Spent /\ e \in Spent' /\ \A k \in Spent : k \in Spent'
  BY FreshKey
<1>3. e[1] = n /\ h.le = e
  OBVIOUS
<1> HIDE DEF e
<1>4. \A a, b \in Node : sessions'[a][b].role # "none" =>
        Established(a, b) /\ sessions'[a][b] = sessions[a][b]
  BY <1>1 DEF Established
<1>5. (\A c \in Ciphertexts : Own(c) \in Spent)'
  BY <1>2 DEF NonceInv, Own
<1>6. HandshakeKeys'
  <2> SUFFICES ASSUME NEW a \in Node, NEW b \in Node,
                      handshake_states'[a][b].role # "none"
               PROVE  LET k == handshake_states'[a][b].le IN
                      /\ k[1] = a /\ k \in Spent'
                      /\ \A q \in Node : handshake_states'[a][q].role # "none"
                            /\ handshake_states'[a][q].le = k => q = b
                      /\ \A q \in Node : sessions'[a][q].role # "none"
                            => Own(sessions'[a][q]) # k
                      /\ \A c \in Ciphertexts : Own(c) # k
    BY DEF HandshakeKeys, Established, Own
  <2> DEFINE k == handshake_states'[a][b].le
  <2>1. CASE a = n /\ b = p
    <3>1. k = e
      BY <1>1, <1>3, <2>1
    <3>2. \A q \in Node : q # p /\ handshake_states'[n][q].role # "none"
            => handshake_states'[n][q].le \in Spent
      BY <1>1 DEF NonceInv, HandshakeKeys
    <3>3. \A q \in Node : sessions'[n][q].role # "none"
            => Own(sessions'[n][q]) \in Spent
      BY <1>4 DEF NonceInv, SessionKeys
    <3>4. \A c \in Ciphertexts : Own(c) \in Spent
      BY DEF NonceInv
    <3> QED
      BY <1>2, <1>3, <2>1, <3>1, <3>2, <3>3, <3>4
  <2>2. CASE ~(a = n /\ b = p)
    <3>1. k = handshake_states[a][b].le /\ handshake_states[a][b].role # "none"
      BY <1>1, <2>2
    <3>2. /\ k[1] = a /\ k \in Spent
          /\ \A q \in Node : handshake_states[a][q].role # "none"
               /\ handshake_states[a][q].le = k => q = b
          /\ \A q \in Node : Established(a, q) => Own(sessions[a][q]) # k
          /\ \A c \in Ciphertexts : Own(c) # k
      BY <3>1 DEF NonceInv, HandshakeKeys
    <3>3. k # e
      BY <1>2, <3>2
    <3> QED
      BY <1>1, <1>2, <1>3, <1>4, <3>2, <3>3
  <2> QED
    BY <2>1, <2>2
<1>7. SessionKeys'
  <2> SUFFICES ASSUME NEW a \in Node, NEW b \in Node,
                      sessions'[a][b].role # "none"
               PROVE  LET t == sessions'[a][b] IN
                      /\ Own(t)[1] = a /\ Own(t) \in Spent'
                      /\ \A q \in Node : sessions'[a][q].role # "none"
                           /\ Own(sessions'[a][q]) = Own(t) => q = b
                      /\ \A c \in Ciphertexts' : Own(c) = Own(t) =>
                           /\ c.role = t.role /\ c.i = t.i /\ c.r = t.r
                           /\ c.nonce < t.sn
    BY SessionKeysNext
  <2>1. Established(a, b) /\ sessions'[a][b] = sessions[a][b]
    BY <1>4
  <2>2. /\ Own(sessions[a][b])[1] = a /\ Own(sessions[a][b]) \in Spent
        /\ \A q \in Node : Established(a, q)
             /\ Own(sessions[a][q]) = Own(sessions[a][b]) => q = b
        /\ \A c \in Ciphertexts : Own(c) = Own(sessions[a][b]) =>
             /\ c.role = sessions[a][b].role /\ c.i = sessions[a][b].i
             /\ c.r = sessions[a][b].r /\ c.nonce < sessions[a][b].sn
    BY <2>1 DEF NonceInv, SessionKeys
  <2> QED
    BY <1>2, <1>4, <2>1, <2>2
<1>8. NonceUnique'
  BY DEF NonceInv, NonceUnique
<1> QED
  BY <1>5, <1>6, <1>7, <1>8 DEF NonceInv

(* Nothing new: entries stay, disappear, or count a received nonce.        *)
LEMMA DropStep ==
    ASSUME NonceInv, eph' = eph, Ciphertexts' = Ciphertexts,
           \A a, b \in Node :
             \/ handshake_states'[a][b] = handshake_states[a][b]
             \/ handshake_states'[a][b].role = "none",
           \A a, b \in Node : LET s == sessions[a][b]  t == sessions'[a][b] IN
             \/ t.role = "none"
             \/ t.role = s.role /\ t.i = s.i /\ t.r = s.r /\ t.sn = s.sn
    PROVE  NonceInv'
<1>1. Spent' = Spent
  BY DEF Spent
<1>2. \A a, b \in Node : sessions'[a][b].role # "none" =>
        /\ Established(a, b) /\ Own(sessions'[a][b]) = Own(sessions[a][b])
        /\ sessions'[a][b].role = sessions[a][b].role
        /\ sessions'[a][b].i = sessions[a][b].i
        /\ sessions'[a][b].r = sessions[a][b].r
        /\ sessions'[a][b].sn = sessions[a][b].sn
  <2> SUFFICES ASSUME NEW a \in Node, NEW b \in Node,
                      sessions'[a][b].role # "none"
               PROVE  /\ Established(a, b)
                      /\ Own(sessions'[a][b]) = Own(sessions[a][b])
                      /\ sessions'[a][b].role = sessions[a][b].role
                      /\ sessions'[a][b].i = sessions[a][b].i
                      /\ sessions'[a][b].r = sessions[a][b].r
                      /\ sessions'[a][b].sn = sessions[a][b].sn
    OBVIOUS
  <2>1. /\ sessions'[a][b].role = sessions[a][b].role
        /\ sessions'[a][b].i = sessions[a][b].i
        /\ sessions'[a][b].r = sessions[a][b].r
        /\ sessions'[a][b].sn = sessions[a][b].sn
    OBVIOUS
  <2> QED
    BY <2>1 DEF Established, Own
<1>3. (\A c \in Ciphertexts : Own(c) \in Spent)'
  BY <1>1 DEF NonceInv, Own
<1>4. HandshakeKeys'
  <2> SUFFICES ASSUME NEW a \in Node, NEW b \in Node,
                      handshake_states'[a][b].role # "none"
               PROVE  LET k == handshake_states'[a][b].le IN
                      /\ k[1] = a /\ k \in Spent'
                      /\ \A q \in Node : handshake_states'[a][q].role # "none"
                            /\ handshake_states'[a][q].le = k => q = b
                      /\ \A q \in Node : sessions'[a][q].role # "none"
                            => Own(sessions'[a][q]) # k
                      /\ \A c \in Ciphertexts' : Own(c) # k
    BY HandshakeKeysNext
  <2> DEFINE k == handshake_states'[a][b].le
  <2>1. k = handshake_states[a][b].le /\ handshake_states[a][b].role # "none"
    OBVIOUS
  <2>2. /\ k[1] = a /\ k \in Spent
        /\ \A q \in Node : handshake_states[a][q].role # "none"
             /\ handshake_states[a][q].le = k => q = b
        /\ \A q \in Node : Established(a, q) => Own(sessions[a][q]) # k
        /\ \A c \in Ciphertexts : Own(c) # k
    BY <2>1 DEF NonceInv, HandshakeKeys
  <2> HIDE DEF k
  <2>3. \A q \in Node : sessions'[a][q].role # "none"
          => Own(sessions'[a][q]) # k
    BY <1>2, <2>2
  <2>4. ASSUME NEW q \in Node, handshake_states'[a][q].role # "none",
               handshake_states'[a][q].le = k
        PROVE  q = b
    <3>1. handshake_states'[a][q] = handshake_states[a][q]
      BY <2>4
    <3> QED
      BY <2>2, <2>4, <3>1
  <2> QED
    BY <1>1, <2>2, <2>3, <2>4 DEF k
<1>5. SessionKeys'
  <2> SUFFICES ASSUME NEW a \in Node, NEW b \in Node,
                      sessions'[a][b].role # "none"
               PROVE  LET t == sessions'[a][b] IN
                      /\ Own(t)[1] = a /\ Own(t) \in Spent'
                      /\ \A q \in Node : sessions'[a][q].role # "none"
                           /\ Own(sessions'[a][q]) = Own(t) => q = b
                      /\ \A c \in Ciphertexts' : Own(c) = Own(t) =>
                           /\ c.role = t.role /\ c.i = t.i /\ c.r = t.r
                           /\ c.nonce < t.sn
    BY SessionKeysNext
  <2>1. /\ Own(sessions[a][b])[1] = a /\ Own(sessions[a][b]) \in Spent
        /\ \A q \in Node : Established(a, q)
             /\ Own(sessions[a][q]) = Own(sessions[a][b]) => q = b
        /\ \A c \in Ciphertexts : Own(c) = Own(sessions[a][b]) =>
             /\ c.role = sessions[a][b].role /\ c.i = sessions[a][b].i
             /\ c.r = sessions[a][b].r /\ c.nonce < sessions[a][b].sn
    BY <1>2 DEF NonceInv, SessionKeys
  <2>2. ASSUME NEW q \in Node, sessions'[a][q].role # "none",
               Own(sessions'[a][q]) = Own(sessions[a][b])
        PROVE  q = b
    <3>1. Established(a, q) /\ Own(sessions'[a][q]) = Own(sessions[a][q])
      BY <1>2, <2>2
    <3> QED
      BY <2>1, <2>2, <3>1
  <2>3. /\ Own(sessions'[a][b]) = Own(sessions[a][b])
        /\ sessions'[a][b].role = sessions[a][b].role
        /\ sessions'[a][b].i = sessions[a][b].i
        /\ sessions'[a][b].r = sessions[a][b].r
        /\ sessions'[a][b].sn = sessions[a][b].sn
    BY <1>2
  <2> QED
    BY <1>1, <2>1, <2>2, <2>3
<1>6. NonceUnique'
  BY DEF NonceInv, NonceUnique
<1> QED
  BY <1>3, <1>4, <1>5, <1>6 DEF NonceInv

(* A handshake completes: its key moves from the state to the session.     *)
LEMMA FinishStep ==
    ASSUME TypeOK, NonceInv, NEW n \in Node, NEW p \in Node, NEW h, NEW s,
           handshake_states[n][p].role # "none", h.role = "none",
           s.role # "none", Own(s) = handshake_states[n][p].le,
           eph' = eph, Ciphertexts' = Ciphertexts,
           handshake_states' = [handshake_states EXCEPT ![n][p] = h],
           sessions' = [sessions EXCEPT ![n][p] = s]
    PROVE  NonceInv'
<1> DEFINE e == handshake_states[n][p].le
<1>1. /\ \A a, b \in Node : handshake_states'[a][b] =
             IF a = n /\ b = p THEN h ELSE handshake_states[a][b]
      /\ \A a, b \in Node : sessions'[a][b] =
             IF a = n /\ b = p THEN s ELSE sessions[a][b]
  <2>1. /\ handshake_states \in [Node -> [Node -> HandshakeState]]
        /\ sessions \in [Node -> [Node -> Session]]
    BY DEF TypeOK
  <2> QED
    BY <2>1, EntryUpdate
<1>2. Spent' = Spent
  BY DEF Spent
<1>3. /\ e[1] = n /\ e \in Spent
      /\ \A q \in Node : handshake_states[n][q].role # "none"
           /\ handshake_states[n][q].le = e => q = p
      /\ \A q \in Node : Established(n, q) => Own(sessions[n][q]) # e
      /\ \A c \in Ciphertexts : Own(c) # e
  BY DEF NonceInv, HandshakeKeys
<1>4. (\A c \in Ciphertexts : Own(c) \in Spent)'
  BY <1>2 DEF NonceInv, Own
<1>5. HandshakeKeys'
  <2> SUFFICES ASSUME NEW a \in Node, NEW b \in Node,
                      handshake_states'[a][b].role # "none"
               PROVE  LET k == handshake_states'[a][b].le IN
                      /\ k[1] = a /\ k \in Spent
                      /\ \A q \in Node : handshake_states'[a][q].role # "none"
                            /\ handshake_states'[a][q].le = k => q = b
                      /\ \A q \in Node : sessions'[a][q].role # "none"
                            => Own(sessions'[a][q]) # k
                      /\ \A c \in Ciphertexts : Own(c) # k
    BY <1>2, HandshakeKeysNext
  <2> DEFINE k == handshake_states'[a][b].le
  <2>1. /\ ~(a = n /\ b = p)
        /\ k = handshake_states[a][b].le /\ handshake_states[a][b].role # "none"
    BY <1>1
  <2>2. /\ k[1] = a /\ k \in Spent
        /\ \A q \in Node : handshake_states[a][q].role # "none"
             /\ handshake_states[a][q].le = k => q = b
        /\ \A q \in Node : Established(a, q) => Own(sessions[a][q]) # k
        /\ \A c \in Ciphertexts : Own(c) # k
    BY <2>1 DEF NonceInv, HandshakeKeys
  <2>3. k # e
    BY <1>3, <2>1, <2>2
  <2> HIDE DEF k, e
  <2>4. \A q \in Node : sessions'[a][q].role # "none"
          => Own(sessions'[a][q]) # k
    BY <1>1, <2>2, <2>3 DEF Established, e
  <2>5. \A q \in Node : handshake_states'[a][q].role # "none"
          /\ handshake_states'[a][q].le = k => q = b
    BY <1>1, <2>2
  <2> QED
    BY <2>2, <2>4, <2>5 DEF k
<1>6. SessionKeys'
  <2> SUFFICES ASSUME NEW a \in Node, NEW b \in Node,
                      sessions'[a][b].role # "none"
               PROVE  LET t == sessions'[a][b] IN
                      /\ Own(t)[1] = a /\ Own(t) \in Spent
                      /\ \A q \in Node : sessions'[a][q].role # "none"
                           /\ Own(sessions'[a][q]) = Own(t) => q = b
                      /\ \A c \in Ciphertexts : Own(c) = Own(t) =>
                           /\ c.role = t.role /\ c.i = t.i /\ c.r = t.r
                           /\ c.nonce < t.sn
    BY <1>2, SessionKeysNext
  <2>1. CASE a = n /\ b = p
    <3>1. sessions'[a][b] = s
      BY <1>1, <2>1
    <3>2. \A q \in Node : q # p => sessions'[n][q] = sessions[n][q]
      BY <1>1
    <3> QED
      BY <1>3, <2>1, <3>1, <3>2 DEF Established
  <2>2. CASE ~(a = n /\ b = p)
    <3>1. sessions'[a][b] = sessions[a][b] /\ Established(a, b)
      BY <1>1, <2>2 DEF Established
    <3>2. /\ Own(sessions[a][b])[1] = a /\ Own(sessions[a][b]) \in Spent
          /\ \A q \in Node : Established(a, q)
               /\ Own(sessions[a][q]) = Own(sessions[a][b]) => q = b
          /\ \A c \in Ciphertexts : Own(c) = Own(sessions[a][b]) =>
               /\ c.role = sessions[a][b].role /\ c.i = sessions[a][b].i
               /\ c.r = sessions[a][b].r /\ c.nonce < sessions[a][b].sn
      BY <3>1 DEF NonceInv, SessionKeys
    <3>3. Own(sessions[a][b]) # e
      BY <1>3, <2>2, <3>1, <3>2
    <3>4. \A q \in Node : sessions'[a][q].role # "none"
            /\ Own(sessions'[a][q]) = Own(sessions[a][b]) => q = b
      BY <1>1, <3>2, <3>3 DEF Established
    <3> QED
      BY <3>1, <3>2, <3>4
  <2> QED
    BY <2>1, <2>2
<1>7. NonceUnique'
  BY DEF NonceInv, NonceUnique
<1> QED
  BY <1>4, <1>5, <1>6, <1>7 DEF NonceInv

(* A session seals one more ciphertext.                                    *)
LEMMA SealStep ==
    ASSUME TypeOK, NonceInv, NEW n \in Node, NEW p \in Node, NEW id, NEW s,
           Established(n, p),
           s.role = sessions[n][p].role, s.i = sessions[n][p].i,
           s.r = sessions[n][p].r, s.sn = sessions[n][p].sn + 1,
           eph' = eph, handshake_states' = handshake_states,
           sessions' = [sessions EXCEPT ![n][p] = s],
           Ciphertexts' = Ciphertexts \cup {Sealed(n, p, id)}
    PROVE  NonceInv'
<1> DEFINE c0 == Sealed(n, p, id)
           s0 == sessions[n][p]
<1>1. \A a, b \in Node : sessions'[a][b] =
        IF a = n /\ b = p THEN s ELSE sessions[a][b]
  <2>1. sessions \in [Node -> [Node -> Session]]
    BY DEF TypeOK
  <2> QED
    BY <2>1, EntryUpdate
<1>2. Spent' = Spent
  BY DEF Spent
<1>3. /\ Own(s) = Own(s0) /\ Own(c0) = Own(s0)
      /\ c0.role = s.role /\ c0.i = s.i /\ c0.r = s.r /\ c0.nonce = s0.sn
  BY DEF Own, Sealed
<1>4. /\ s0.sn \in Nat /\ s0.role # "none"
      /\ \A c \in Ciphertexts : c.nonce \in Nat
  <2>1. s0 \in Session
    BY DEF TypeOK
  <2>2. s0.sn \in Nat
    BY <2>1 DEF Session
  <2>3. \A c \in Ciphertext : c.nonce \in Nat
    BY DEF Ciphertext
  <2> QED
    BY <2>2, <2>3, CiphertextsType DEF Established
<1>5. /\ Own(s0)[1] = n /\ Own(s0) \in Spent
      /\ \A q \in Node : Established(n, q) /\ Own(sessions[n][q]) = Own(s0)
                          => q = p
      /\ \A c \in Ciphertexts : Own(c) = Own(s0) =>
           /\ c.role = s0.role /\ c.i = s0.i /\ c.r = s0.r /\ c.nonce < s0.sn
  BY DEF NonceInv, SessionKeys
<1>6. Ciphertexts' = Ciphertexts \cup {c0}
  OBVIOUS
<1> HIDE DEF c0, s0
<1>7. \A a, b \in Node : sessions'[a][b].role # "none" =>
        Established(a, b) /\ Own(sessions'[a][b]) = Own(sessions[a][b])
  BY <1>1, <1>3 DEF Established, s0
<1>8. (\A c \in Ciphertexts : Own(c) \in Spent)'
  <2>1. \A c \in Ciphertexts' : Own(c) \in Spent
    BY <1>3, <1>5, <1>6 DEF NonceInv
  <2> QED
    BY <1>2, <2>1 DEF Own
<1>9. HandshakeKeys'
  <2> SUFFICES ASSUME NEW a \in Node, NEW b \in Node,
                      handshake_states[a][b].role # "none"
               PROVE  LET k == handshake_states[a][b].le IN
                      /\ k[1] = a /\ k \in Spent
                      /\ \A q \in Node : handshake_states[a][q].role # "none"
                            /\ handshake_states[a][q].le = k => q = b
                      /\ \A q \in Node : sessions'[a][q].role # "none"
                            => Own(sessions'[a][q]) # k
                      /\ \A c \in Ciphertexts' : Own(c) # k
    BY <1>2, HandshakeKeysNext
  <2> DEFINE k == handshake_states[a][b].le
  <2>1. /\ k[1] = a /\ k \in Spent
        /\ \A q \in Node : handshake_states[a][q].role # "none"
             /\ handshake_states[a][q].le = k => q = b
        /\ \A q \in Node : Established(a, q) => Own(sessions[a][q]) # k
        /\ \A c \in Ciphertexts : Own(c) # k
    BY DEF NonceInv, HandshakeKeys
  <2>2. Own(s0) # k
    BY <1>5, <2>1 DEF s0
  <2> QED
    BY <1>3, <1>6, <1>7, <2>1, <2>2
<1>10. SessionKeys'
  <2> SUFFICES ASSUME NEW a \in Node, NEW b \in Node,
                      sessions'[a][b].role # "none"
               PROVE  LET t == sessions'[a][b] IN
                      /\ Own(t)[1] = a /\ Own(t) \in Spent
                      /\ \A q \in Node : sessions'[a][q].role # "none"
                           /\ Own(sessions'[a][q]) = Own(t) => q = b
                      /\ \A c \in Ciphertexts' : Own(c) = Own(t) =>
                           /\ c.role = t.role /\ c.i = t.i /\ c.r = t.r
                           /\ c.nonce < t.sn
    BY <1>2, SessionKeysNext
  <2> DEFINE t0 == sessions[a][b]
  <2>1. /\ Own(t0)[1] = a /\ Own(t0) \in Spent
        /\ \A q \in Node : Established(a, q)
             /\ Own(sessions[a][q]) = Own(t0) => q = b
        /\ \A c \in Ciphertexts : Own(c) = Own(t0) =>
             /\ c.role = t0.role /\ c.i = t0.i /\ c.r = t0.r
             /\ c.nonce < t0.sn
    BY <1>7 DEF NonceInv, SessionKeys
  <2>2. Own(sessions'[a][b]) = Own(t0)
    BY <1>7
  <2>3. \A c \in Ciphertexts' : Own(c) = Own(t0) =>
          /\ c.role = sessions'[a][b].role /\ c.i = sessions'[a][b].i
          /\ c.r = sessions'[a][b].r /\ c.nonce < sessions'[a][b].sn
    <3>1. CASE a = n /\ b = p
      <4>1. sessions'[a][b] = s /\ t0 = s0
        BY <1>1, <3>1 DEF s0
      <4>2. s.sn = s0.sn + 1 /\ s.role = s0.role /\ s.i = s0.i /\ s.r = s0.r
        BY DEF s0
      <4>3. \A c \in Ciphertexts : Own(c) = Own(t0) => c.nonce < s0.sn + 1
        BY <1>4, <1>5, <4>1
      <4>4. c0.nonce < s0.sn + 1
        BY <1>3, <1>4
      <4> QED
        BY <1>3, <1>5, <1>6, <4>1, <4>2, <4>3, <4>4
    <3>2. CASE ~(a = n /\ b = p)
      <4>1. sessions'[a][b] = t0
        BY <1>1, <3>2
      <4>2. Own(s0) # Own(t0)
        BY <1>5, <1>7, <2>1, <3>2
      <4> QED
        BY <1>3, <1>6, <2>1, <4>1, <4>2
    <3> QED
      BY <3>1, <3>2
  <2> QED
    BY <1>7, <2>1, <2>2, <2>3
<1>11. NonceUnique'
  <2> SUFFICES ASSUME NEW c \in Ciphertexts', NEW d \in Ciphertexts',
                      c.role = d.role, c.i = d.i, c.r = d.r, c.nonce = d.nonce
               PROVE  c = d
    BY DEF NonceUnique
  <2>1. Own(c) = Own(d)
    BY DEF Own
  <2>2. \A x \in Ciphertexts : Own(x) = Own(c0) => x.nonce # c0.nonce
    BY <1>3, <1>4, <1>5
  <2>3. CASE c \in Ciphertexts /\ d \in Ciphertexts
    BY <2>3 DEF NonceInv, NonceUnique
  <2>4. CASE c = c0 \/ d = c0
    BY <1>6, <2>1, <2>2, <2>4
  <2> QED
    BY <1>6, <2>3, <2>4
<1> QED
  BY <1>8, <1>9, <1>10, <1>11 DEF NonceInv

(* Which of these each action is.                                          *)
LEMMA InitiateNonce ==
    ASSUME TypeOK, NonceInv, NEW n \in Node, NEW p \in Node,
           InitiateHandshake(n, p)
    PROVE  NonceInv'
<1> DEFINE h == [role |-> "initiator", le |-> <<n, eph[n] + 1>>,
                 re |-> Garbage(p)]
           pkt == [type |-> "init", src |-> n, dst |-> p,
                   m |-> [kind |-> "m1", i |-> <<n, eph[n] + 1>>,
                          r |-> Garbage(p)]]
<1>1. /\ eph' = [eph EXCEPT ![n] = eph[n] + 1]
      /\ handshake_states' = [handshake_states EXCEPT ![n][p] = h]
      /\ sessions' = [sessions EXCEPT ![n][p] = NoSession(n)]
      /\ emitted' = emitted \cup {pkt}
  BY DEF InitiateHandshake, SendToPeer
<1>2. Ciphertexts' = Ciphertexts
  <2>1. pkt.type \notin {"encrypted", "ack"}
    OBVIOUS
  <2> QED
    BY <1>1, <2>1, PlainPacket
<1>3. h.le = <<n, eph[n] + 1>> /\ NoSession(n).role = "none"
  BY DEF NoSession
<1> HIDE DEF h
<1> QED
  BY <1>1, <1>2, <1>3, NewKeyStep

LEMMA QuietNonce ==
    ASSUME NonceInv, UNCHANGED <<eph, handshake_states, sessions, emitted>>
    PROVE  NonceInv'
<1>1. Ciphertexts' = Ciphertexts
  BY DEF Ciphertexts
<1> QED
  BY <1>1, DropStep

LEMMA RemovePeerNonce ==
    ASSUME TypeOK, NonceInv, NEW n \in Node, NEW p \in Node, RemovePeer(n, p),
           UNCHANGED <<eph, emitted>>
    PROVE  NonceInv'
<1>1. /\ sessions' = [sessions EXCEPT ![n][p] = NoSession(n)]
      /\ handshake_states' = [handshake_states EXCEPT ![n][p] = NoHandshake(n)]
  BY DEF RemovePeer
<1>2. /\ handshake_states \in [Node -> [Node -> HandshakeState]]
      /\ sessions \in [Node -> [Node -> Session]]
  BY DEF TypeOK
<1>3. NoSession(n).role = "none" /\ NoHandshake(n).role = "none"
  BY DEF NoSession, NoHandshake
<1>4. Ciphertexts' = Ciphertexts
  BY DEF Ciphertexts
<1>5. \A a, b \in Node :
        \/ handshake_states'[a][b] = handshake_states[a][b]
        \/ handshake_states'[a][b].role = "none"
  BY <1>1, <1>2, <1>3, EntryUpdate
<1>6. \A a, b \in Node :
        \/ sessions'[a][b] = sessions[a][b]
        \/ sessions'[a][b].role = "none"
  BY <1>1, <1>2, <1>3, EntryUpdate
<1> QED
  BY <1>4, <1>5, <1>6, DropStep

LEMMA LeaveStepNonce ==
    ASSUME TypeOK, NonceInv, NEW n \in Node
    PROVE  /\ SendLeave(n) => NonceInv'
           /\ HandleLeave(n) => NonceInv'
<1>1. ASSUME SendLeave(n) PROVE NonceInv'
  <2>1. /\ emitted' = emitted \cup {Leave(n)}
        /\ UNCHANGED <<eph, handshake_states, sessions>>
    BY <1>1 DEF SendLeave
  <2>2. Leave(n).type \notin {"encrypted", "ack"}
    BY DEF Leave
  <2>3. Ciphertexts' = Ciphertexts
    BY <2>1, <2>2, PlainPacket
  <2> QED
    BY <2>1, <2>3, DropStep
<1>2. ASSUME HandleLeave(n) PROVE NonceInv'
  <2>1. Head(ready[n]).src \in Node
    BY <1>2, RunsType DEF HandleLeave
  <2> QED
    BY <1>2, <2>1, RemovePeerNonce, QuietNonce DEF HandleLeave
<1> QED
  BY <1>1, <1>2

LEMMA LinkStepNonce ==
    ASSUME TypeOK, NonceInv
    PROVE  /\ \A c \in Conn : Connect(c) => NonceInv'
           /\ \A n \in Node, c \in Conn : ConnectionLost(n, c) => NonceInv'
           /\ \A n \in Node, c \in Conn :
                SendIdentityAnnounce(n, c) => NonceInv'
           /\ \A n \in Node, c \in Conn : Receive(n, c) => NonceInv'
<1>1. ASSUME NEW c \in Conn, Connect(c) PROVE NonceInv'
  BY <1>1, QuietNonce DEF Connect
<1>2. ASSUME NEW n \in Node, NEW c \in Conn, ConnectionLost(n, c)
      PROVE  NonceInv'
  <2>1. ASSUME NEW p \in Node, RemovePeer(n, p) PROVE NonceInv'
    BY <1>2, <2>1, RemovePeerNonce DEF ConnectionLost
  <2>2. CASE UNCHANGED <<peer_addresses, pending_private_messages, sessions,
                         handshake_states>>
    BY <1>2, <2>2, QuietNonce DEF ConnectionLost
  <2> QED
    BY <1>2, <2>1, <2>2 DEF ConnectionLost
<1>3. ASSUME NEW n \in Node, NEW c \in Conn, SendIdentityAnnounce(n, c)
      PROVE  NonceInv'
  <2> DEFINE pkt == [type |-> "announce", src |-> n]
  <2>1. /\ emitted' = emitted \cup {pkt}
        /\ UNCHANGED <<eph, handshake_states, sessions>>
    BY <1>3 DEF SendIdentityAnnounce
  <2>2. pkt.type \notin {"encrypted", "ack"}
    OBVIOUS
  <2>3. Ciphertexts' = Ciphertexts
    BY <2>1, <2>2, PlainPacket
  <2> QED
    BY <2>1, <2>3, DropStep
<1>4. ASSUME NEW n \in Node, NEW c \in Conn, Receive(n, c) PROVE NonceInv'
  BY <1>4, QuietNonce DEF Receive
<1> QED
  BY <1>1, <1>2, <1>3, <1>4

LEMMA HandshakeStepNonce ==
    ASSUME TypeOK, NonceInv, NEW n \in Node
    PROVE  /\ HandleIdentityAnnounce(n) => NonceInv'
           /\ StartAsResponder(n) => NonceInv'
           /\ FinishAsInitiator(n) => NonceInv'
           /\ FinishAsResponder(n) => NonceInv'
           /\ HandshakeFails(n) => NonceInv'
<1> DEFINE pkt == Head(ready[n])
           p == pkt.src
           h == handshake_states[n][p]
           e == <<n, eph[n] + 1>>
<1>a. /\ handshake_states \in [Node -> [Node -> HandshakeState]]
      /\ sessions \in [Node -> [Node -> Session]]
  BY DEF TypeOK
<1>b. NoHandshake(n).role = "none"
  BY DEF NoHandshake
<1>c. \A types : Runs(n, types) => p \in Node
  BY RunsType
<1>d. ASSUME NEW m, emitted' = emitted \cup {Answer(n, pkt, m)}
      PROVE  Ciphertexts' = Ciphertexts
  <2>1. Answer(n, pkt, m).type \notin {"encrypted", "ack"}
    BY DEF Answer
  <2> QED
    BY <1>d, <2>1, PlainPacket
<1>1. ASSUME HandleIdentityAnnounce(n) PROVE NonceInv'
  <2>1. p \in Node
    BY <1>1, <1>c DEF HandleIdentityAnnounce
  <2>2. CASE InitiateHandshake(n, p)
    BY <2>1, <2>2, InitiateNonce
  <2>3. CASE UNCHANGED <<eph, handshake_states, sessions, net, emitted>>
    BY <2>3, QuietNonce
  <2> QED
    BY <1>1, <2>2, <2>3 DEF HandleIdentityAnnounce
<1>2. ASSUME StartAsResponder(n) PROVE NonceInv'
  <2> DEFINE re == IF pkt.m.kind = "m1" THEN pkt.m.i ELSE Garbage(p)
             hs == [role |-> "responder", le |-> e, re |-> re]
             m == [kind |-> "m2", i |-> re, r |-> e]
  <2>1. /\ Runs(n, {"init", "resp"})
        /\ eph' = [eph EXCEPT ![n] = eph[n] + 1]
        /\ handshake_states' = [handshake_states EXCEPT ![n][p] = hs]
        /\ emitted' = emitted \cup {Answer(n, pkt, m)}
        /\ sessions' = sessions
    BY <1>2 DEF StartAsResponder, SendToPeer
  <2>2. p \in Node
    BY <1>c, <2>1
  <2>3. hs.le = e
    OBVIOUS
  <2>4. Ciphertexts' = Ciphertexts
    BY <1>d, <2>1
  <2> HIDE DEF hs, m, p
  <2>5. sessions' = [sessions EXCEPT ![n][p] = sessions[n][p]]
    BY <1>a, <2>1, <2>2
  <2> QED
    BY <2>1, <2>2, <2>3, <2>4, <2>5, NewKeyStep
<1>3. ASSUME FinishAsInitiator(n) PROVE NonceInv'
  <2> DEFINE s == [role |-> "initiator", i |-> h.le, r |-> pkt.m.r,
                   sn |-> 0, rn |-> 0]
             m == [kind |-> "m3", i |-> h.le, r |-> pkt.m.r]
  <2>1. /\ Runs(n, {"init", "resp"}) /\ h.role = "initiator"
        /\ handshake_states' =
             [handshake_states EXCEPT ![n][p] = NoHandshake(n)]
        /\ sessions' = [sessions EXCEPT ![n][p] = s]
        /\ emitted' = emitted \cup {Answer(n, pkt, m)}
        /\ eph' = eph
    BY <1>3 DEF FinishAsInitiator, Fits2, SendToPeer
  <2>2. p \in Node /\ Ciphertexts' = Ciphertexts
    BY <1>c, <1>d, <2>1
  <2>3. s.role # "none" /\ Own(s) = h.le
    BY DEF Own
  <2> HIDE DEF s, m, p
  <2> QED
    BY <1>b, <2>1, <2>2, <2>3, FinishStep
<1>4. ASSUME FinishAsResponder(n) PROVE NonceInv'
  <2> DEFINE s == [role |-> "responder", i |-> h.re, r |-> h.le,
                   sn |-> 0, rn |-> 0]
  <2>1. /\ Runs(n, {"init", "resp"}) /\ h.role = "responder"
        /\ handshake_states' =
             [handshake_states EXCEPT ![n][p] = NoHandshake(n)]
        /\ sessions' = [sessions EXCEPT ![n][p] = s]
        /\ emitted' = emitted /\ eph' = eph
    BY <1>4 DEF FinishAsResponder, Fits3
  <2>2. p \in Node /\ Ciphertexts' = Ciphertexts
    BY <1>c, <2>1 DEF Ciphertexts
  <2>3. s.role # "none" /\ Own(s) = h.le
    BY DEF Own
  <2> HIDE DEF s, p
  <2> QED
    BY <1>b, <2>1, <2>2, <2>3, FinishStep
<1>5. ASSUME HandshakeFails(n) PROVE NonceInv'
  <2>1. /\ Runs(n, {"init", "resp"})
        /\ handshake_states' =
             [handshake_states EXCEPT ![n][p] = NoHandshake(n)]
        /\ UNCHANGED <<sessions, eph, emitted>>
    BY <1>5 DEF HandshakeFails
  <2>2. p \in Node /\ Ciphertexts' = Ciphertexts
    BY <1>c, <2>1 DEF Ciphertexts
  <2> HIDE DEF p
  <2>3. \A a, b \in Node :
          \/ handshake_states'[a][b] = handshake_states[a][b]
          \/ handshake_states'[a][b].role = "none"
    BY <1>a, <1>b, <2>1, <2>2, EntryUpdate
  <2> QED
    BY <2>1, <2>2, <2>3, DropStep
<1> QED
  BY <1>1, <1>2, <1>3, <1>4, <1>5

(* Counting a received nonce, with or without an answer.                   *)
LEMMA ReceivedNonce ==
    ASSUME TypeOK, NonceInv, NEW n \in Node, NEW p \in Node,
           sessions' = [sessions EXCEPT ![n][p] = Received(sessions[n][p])],
           UNCHANGED <<eph, handshake_states, emitted>>
    PROVE  NonceInv'
<1> DEFINE s == sessions[n][p]
           t == Received(s)
<1>1. sessions \in [Node -> [Node -> Session]] /\ s \in Session
  BY DEF TypeOK
<1>2. t.role = s.role /\ t.i = s.i /\ t.r = s.r /\ t.sn = s.sn
  BY <1>1 DEF Received, Session
<1> HIDE DEF t
<1>3. \A a, b \in Node : sessions'[a][b] =
        IF a = n /\ b = p THEN t ELSE sessions[a][b]
  BY <1>1, EntryUpdate DEF t
<1>4. Ciphertexts' = Ciphertexts
  BY DEF Ciphertexts
<1> QED
  BY <1>2, <1>3, <1>4, DropStep

LEMMA DeliveryStepNonce ==
    ASSUME TypeOK, NonceInv, NEW n \in Node
    PROVE  /\ HandleNoiseEncrypted(n) => NonceInv'
           /\ HandleDeliveryAck(n) => NonceInv'
<1> DEFINE pkt == Head(ready[n])
           p == pkt.src
           id == pkt.c.id
           s == sessions[n][p]
<1>1. ASSUME HandleNoiseEncrypted(n) PROVE NonceInv'
  <2> DEFINE t == [Received(s) EXCEPT !.sn = s.sn + 1]
             out == [type |-> "ack", src |-> n, dst |-> p,
                     c |-> Sealed(n, p, id)]
  <2>1. p \in Node /\ UNCHANGED <<eph, handshake_states>>
    BY <1>1, RunsType DEF HandleNoiseEncrypted
  <2>2. \/ UNCHANGED <<sessions, emitted>>
        \/ /\ sessions' = [sessions EXCEPT ![n][p] = Received(s)]
           /\ UNCHANGED emitted
        \/ /\ Established(n, p)
           /\ sessions' = [sessions EXCEPT ![n][p] = t]
           /\ emitted' = emitted \cup {out}
    BY <1>1 DEF HandleNoiseEncrypted, SendToPeer
  <2>3. CASE UNCHANGED <<sessions, emitted>>
    BY <2>1, <2>3, QuietNonce
  <2>4. CASE /\ sessions' = [sessions EXCEPT ![n][p] = Received(s)]
             /\ UNCHANGED emitted
    BY <2>1, <2>4, ReceivedNonce
  <2>5. CASE /\ Established(n, p)
             /\ sessions' = [sessions EXCEPT ![n][p] = t]
             /\ emitted' = emitted \cup {out}
    <3>1. Ciphertexts' = Ciphertexts \cup {Sealed(n, p, id)}
      <4>1. out.type \in {"encrypted", "ack"} /\ out.c = Sealed(n, p, id)
        OBVIOUS
      <4>2. emitted' = emitted \cup {out}
        BY <2>5
      <4> HIDE DEF out
      <4>3. Ciphertexts' = Ciphertexts \cup {out.c}
        BY <4>1, <4>2, CipherPacket
      <4> QED
        BY <4>1, <4>3
    <3>2. s \in Session
      <4>1. sessions \in [Node -> [Node -> Session]]
        BY DEF TypeOK
      <4> HIDE DEF p
      <4> QED
        BY <2>1, <4>1
    <3>3. t.role = s.role /\ t.i = s.i /\ t.r = s.r /\ t.sn = s.sn + 1
      BY <3>2 DEF Received, Session
    <3> HIDE DEF t, p, id
    <3> QED
      BY <2>1, <2>5, <3>1, <3>3, SealStep
  <2> QED
    BY <2>2, <2>3, <2>4, <2>5
<1>2. ASSUME HandleDeliveryAck(n) PROVE NonceInv'
  <2>1. p \in Node /\ UNCHANGED <<eph, handshake_states, emitted>>
    BY <1>2, RunsType DEF HandleDeliveryAck
  <2>2. CASE sessions' = [sessions EXCEPT ![n][p] = Received(s)]
    BY <2>1, <2>2, ReceivedNonce
  <2>3. CASE sessions' = sessions
    BY <2>1, <2>3, QuietNonce
  <2> QED
    BY <1>2, <2>2, <2>3 DEF HandleDeliveryAck
<1> QED
  BY <1>1, <1>2

LEMMA SendPrivateMessageNonce ==
    ASSUME TypeOK, NonceInv, NEW n \in Node, NEW p \in Node, NEW id, NEW elapsed,
           SendPrivateMessage(n, p, id, elapsed)
    PROVE  NonceInv'
<1> DEFINE s == sessions[n][p]
           t == [s EXCEPT !.sn = s.sn + 1]
           out == [type |-> "encrypted", src |-> n, dst |-> p,
                   c |-> Sealed(n, p, id)]
<1>1. CASE Established(n, p)
  <2>1. /\ sessions' = [sessions EXCEPT ![n][p].sn = s.sn + 1]
        /\ emitted' = emitted \cup {out}
        /\ UNCHANGED <<eph, handshake_states>>
    BY <1>1 DEF SendPrivateMessage, SendToPeer
  <2>2. Ciphertexts' = Ciphertexts \cup {Sealed(n, p, id)}
    <3>1. out.type \in {"encrypted", "ack"} /\ out.c = Sealed(n, p, id)
      OBVIOUS
    <3> HIDE DEF out
    <3>2. Ciphertexts' = Ciphertexts \cup {out.c}
      BY <2>1, <3>1, CipherPacket
    <3> QED
      BY <3>1, <3>2
  <2>3. sessions' = [sessions EXCEPT ![n][p] = t]
    BY <2>1 DEF TypeOK
  <2>4. s \in Session
    BY DEF TypeOK
  <2>5. t.role = s.role /\ t.i = s.i /\ t.r = s.r /\ t.sn = s.sn + 1
    BY <2>4 DEF Session
  <2> HIDE DEF t
  <2> QED
    BY <1>1, <2>1, <2>2, <2>3, <2>5, SealStep
<1>2. CASE ~Established(n, p)
  <2>1. \/ UNCHANGED <<eph, handshake_states, sessions, emitted>>
        \/ InitiateHandshake(n, p)
    BY <1>2 DEF SendPrivateMessage
  <2> QED
    BY <2>1, QuietNonce, InitiateNonce
<1> QED
  BY <1>1, <1>2

LEMMA MessageStepNonce ==
    ASSUME TypeOK, NonceInv, NEW n \in Node
    PROVE  /\ \A p \in Node, id \in Msg, elapsed \in BOOLEAN :
                Submit(n, p, id, elapsed) => NonceInv'
           /\ \A p \in Node : StartFlush(n, p) => NonceInv'
           /\ \A k \in DOMAIN flushes[n], elapsed \in BOOLEAN :
                FlushOne(n, k, elapsed) => NonceInv'
<1>1. ASSUME NEW p \in Node, NEW id \in Msg, NEW elapsed \in BOOLEAN,
             Submit(n, p, id, elapsed)
      PROVE  NonceInv'
  BY <1>1, SendPrivateMessageNonce DEF Submit
<1>2. ASSUME NEW p \in Node, StartFlush(n, p) PROVE NonceInv'
  BY <1>2, QuietNonce DEF StartFlush
<1>3. ASSUME NEW k \in DOMAIN flushes[n], NEW elapsed \in BOOLEAN,
             FlushOne(n, k, elapsed)
      PROVE  NonceInv'
  <2>1. flushes[n] \in Seq(Flush)
    BY DEF TypeOK
  <2>2. flushes[n][k] \in Flush
    BY <2>1
  <2>3. flushes[n][k].to \in Node
    BY <2>2 DEF Flush
  <2> QED
    BY <1>3, <2>3, SendPrivateMessageNonce DEF FlushOne
<1> QED
  BY <1>1, <1>2, <1>3

(* The inductive invariant behind NonceUnique: every ephemeral key has one *)
(* owner from its generation on, and no counter falls behind its key.      *)
THEOREM NonceInvariant == Spec => []NonceInv
<1>1. Init => NonceInv
  <2> SUFFICES ASSUME Init PROVE NonceInv
    OBVIOUS
  <2>1. Ciphertexts = {}
    BY DEF Init, Ciphertexts
  <2>2. \A n, p \in Node : /\ handshake_states[n][p].role = "none"
                            /\ sessions[n][p].role = "none"
    BY DEF Init, NoHandshake, NoSession
  <2> QED
    BY <2>1, <2>2
    DEF NonceInv, HandshakeKeys, SessionKeys, NonceUnique, Established
<1>2. TypeOK /\ NonceInv /\ [Next]_vars => NonceInv'
  <2> SUFFICES ASSUME TypeOK, NonceInv, [Next]_vars PROVE NonceInv'
    OBVIOUS
  <2>1. CASE UNCHANGED vars
    BY <2>1, QuietNonce DEF vars
  <2>2. CASE \E c \in Conn : Connect(c)
    BY <2>2, LinkStepNonce
  <2>3. CASE \E n \in Node, c \in Conn : ConnectionLost(n, c)
    BY <2>3, LinkStepNonce
  <2>4. ASSUME NEW n \in Node, Step(n) PROVE NonceInv'
    <3>1. CASE \E c \in Conn : Receive(n, c) \/ SendIdentityAnnounce(n, c)
      BY <3>1, LinkStepNonce
    <3>2. CASE Handle(n)
      BY <3>2, HandshakeStepNonce, DeliveryStepNonce, LeaveStepNonce DEF Handle
    <3>3. CASE \/ \E p \in Node : StartFlush(n, p)
               \/ \E k \in DOMAIN flushes[n], elapsed \in BOOLEAN :
                    FlushOne(n, k, elapsed)
      BY <3>3, MessageStepNonce
    <3> QED
      BY <2>4, <3>1, <3>2, <3>3 DEF Step
  <2>5. CASE \E n, p \in Node, id \in Msg, elapsed \in BOOLEAN :
               Submit(n, p, id, elapsed)
    BY <2>5, MessageStepNonce
  <2>6. CASE \E n \in Node : SendLeave(n)
    BY <2>6, LeaveStepNonce
  <2> QED
    BY <2>1, <2>2, <2>3, <2>4, <2>5, <2>6 DEF Next
<1> QED
  BY <1>1, <1>2, TypeCorrect, PTL DEF Spec

(* NonceUnique for any number of nodes, connections and messages: through  *)
(* restarted, crossed and failed handshakes and lost connections, no       *)
(* ChaCha20-Poly1305 key ever seals two packets under one nonce.           *)
THEOREM NoncesUnique == Spec => []NonceUnique
BY NonceInvariant, PTL DEF NonceInv

----------------------------------------------------------------------------
(* What ends a session                                                     *)

(* What no step but the loss of a connection and the handling of a LEAVE   *)
(* fails to do.                                                            *)
SessionsLast ==
    \A a, b \in Node : Established(a, b) => sessions'[a][b].role # "none"

LEMMA EntryLasts ==
    ASSUME TypeOK, NEW n \in Node, NEW p \in Node, NEW s,
           sessions' = [sessions EXCEPT ![n][p] = s],
           s.role # "none" \/ ~Established(n, p)
    PROVE  SessionsLast
<1>1. sessions \in [Node -> [Node -> Session]]
  BY DEF TypeOK
<1>2. \A a, b \in Node : sessions'[a][b] =
        IF a = n /\ b = p THEN s ELSE sessions[a][b]
  BY <1>1, EntryUpdate
<1> QED
  BY <1>2 DEF SessionsLast, Established

LEMMA SameLasts == ASSUME sessions' = sessions PROVE SessionsLast
BY DEF SessionsLast, Established

LEMMA CountedLasts ==
    ASSUME TypeOK, NEW n \in Node, NEW p \in Node, Established(n, p)
    PROVE  LET s == sessions[n][p]
           IN /\ [s EXCEPT !.sn = s.sn + 1].role # "none"
              /\ Received(s).role # "none"
              /\ [Received(s) EXCEPT !.sn = s.sn + 1].role # "none"
<1>1. sessions[n][p] \in Session
  BY DEF TypeOK
<1> QED
  BY <1>1 DEF Established, Received, Session

LEMMA SendPrivateMessageLasts ==
    ASSUME TypeOK, NEW n \in Node, NEW p \in Node, NEW id, NEW elapsed,
           SendPrivateMessage(n, p, id, elapsed)
    PROVE  SessionsLast
<1> DEFINE t == [sessions[n][p] EXCEPT !.sn = sessions[n][p].sn + 1]
<1>1. CASE Established(n, p)
  <2>1. sessions' = [sessions EXCEPT ![n][p].sn = sessions[n][p].sn + 1]
    BY <1>1 DEF SendPrivateMessage
  <2>2. sessions' = [sessions EXCEPT ![n][p] = t]
    BY <2>1 DEF TypeOK
  <2>3. t.role # "none"
    BY <1>1, CountedLasts
  <2> HIDE DEF t
  <2> QED
    BY <2>2, <2>3, EntryLasts
<1>2. CASE ~Established(n, p)
  <2>1. \/ sessions' = sessions
        \/ sessions' = [sessions EXCEPT ![n][p] = NoSession(n)]
    BY <1>2 DEF SendPrivateMessage, InitiateHandshake
  <2> QED
    BY <1>2, <2>1, SameLasts, EntryLasts
<1> QED
  BY <1>1, <1>2

LEMMA HandleLasts ==
    ASSUME TypeOK, NEW n \in Node, Handle(n), ~HandleLeave(n)
    PROVE  SessionsLast
<1> DEFINE pkt == Head(ready[n])
           p == pkt.src
           s == sessions[n][p]
<1>1. p \in Node
  BY RunsType DEF Handle, HandleIdentityAnnounce, StartAsResponder,
     FinishAsInitiator, FinishAsResponder, HandshakeFails,
     HandleNoiseEncrypted, HandleDeliveryAck, HandleLeave
<1>2. CASE HandleIdentityAnnounce(n)
  <2>1. \/ sessions' = sessions
        \/ /\ ~Established(n, p)
           /\ sessions' = [sessions EXCEPT ![n][p] = NoSession(n)]
    BY <1>2 DEF HandleIdentityAnnounce, Initiates, InitiateHandshake
  <2> HIDE DEF p
  <2> QED
    BY <1>1, <2>1, SameLasts, EntryLasts
<1>3. CASE StartAsResponder(n) \/ HandshakeFails(n)
  BY <1>3, SameLasts DEF StartAsResponder, HandshakeFails
<1>4. CASE FinishAsInitiator(n) \/ FinishAsResponder(n)
  <2>1. PICK t : t.role # "none" /\ sessions' = [sessions EXCEPT ![n][p] = t]
    BY <1>4 DEF FinishAsInitiator, FinishAsResponder
  <2> HIDE DEF p
  <2> QED
    BY <1>1, <2>1, EntryLasts
<1>5. CASE HandleNoiseEncrypted(n) \/ HandleDeliveryAck(n)
  <2>1. \/ sessions' = sessions
        \/ /\ Established(n, p)
           /\ \/ sessions' = [sessions EXCEPT ![n][p] = Received(s)]
              \/ sessions' = [sessions EXCEPT ![n][p] =
                                [Received(s) EXCEPT !.sn = s.sn + 1]]
    BY <1>5 DEF HandleNoiseEncrypted, HandleDeliveryAck
  <2>2. Established(n, p) =>
          /\ Received(s).role # "none"
          /\ [Received(s) EXCEPT !.sn = s.sn + 1].role # "none"
    BY <1>1, CountedLasts
  <2> HIDE DEF p
  <2> QED
    BY <1>1, <2>1, <2>2, SameLasts, EntryLasts
<1> QED
  BY <1>2, <1>3, <1>4, <1>5 DEF Handle

----------------------------------------------------------------------------
(* Whom a session is with                                                  *)

(* SessionAuthentic needs the way of the message that completed the        *)
(* handshake: what is in flight or scheduled was sent by somebody (the     *)
(* network loses frames and makes up none), and a message 2 or 3 carries   *)
(* the key of the node it comes from.                                      *)
InFlight ==
    /\ net \in [Conn -> [Node -> Seq(emitted)]]
    /\ ready \in [Node -> Seq(emitted)]

Honest(pkt) ==
    pkt.type \in {"init", "resp"} =>
      /\ pkt.m.kind = "m2" => pkt.m.r[1] = pkt.src
      /\ pkt.m.kind = "m3" => pkt.m.i[1] = pkt.src

Vouched(n, p, s) ==
    /\ s.i[1] = IF s.role = "initiator" THEN n ELSE p
    /\ s.r[1] = IF s.role = "initiator" THEN p ELSE n
    /\ \E pkt \in emitted :
         /\ pkt.type \in {"init", "resp"} /\ pkt.src = p /\ pkt.dst = n
         /\ pkt.m = [kind |-> IF s.role = "initiator" THEN "m2" ELSE "m3",
                     i |-> s.i, r |-> s.r]

AuthInv ==
    /\ InFlight
    /\ \A pkt \in emitted : Honest(pkt)
    /\ \A n, p \in Node : Established(n, p) => Vouched(n, p, sessions[n][p])

LEMMA SeqGrows ==
    ASSUME NEW S, NEW T, S \subseteq T, NEW s \in Seq(S)
    PROVE  s \in Seq(T)
OBVIOUS

LEMMA InFlightGrows ==
    ASSUME InFlight, emitted \subseteq emitted'
    PROVE  /\ net \in [Conn -> [Node -> Seq(emitted')]]
           /\ ready \in [Node -> Seq(emitted')]
<1>1. \A c \in Conn, n \in Node : net[c][n] \in Seq(emitted')
  BY SeqGrows DEF InFlight
<1>2. \A n \in Node : ready[n] \in Seq(emitted')
  BY SeqGrows DEF InFlight
<1> QED
  BY <1>1, <1>2 DEF InFlight

LEMMA WrittenInFlight ==
    ASSUME InFlight, NEW n \in Node, NEW cs, NEW pkt,
           net' = Written(n, cs, pkt), emitted' = emitted \cup {pkt}
    PROVE  net' \in [Conn -> [Node -> Seq(emitted')]]
<1>1. net \in [Conn -> [Node -> Seq(emitted')]]
  BY InFlightGrows
<1>2. \A c \in Conn, m \in Node : Append(net[c][m], pkt) \in Seq(emitted')
  BY <1>1
<1> QED
  BY <1>1, <1>2 DEF Written

LEMMA RunsInFlight ==
    ASSUME InFlight, NEW n \in Node, NEW types, Runs(n, types),
           emitted \subseteq emitted'
    PROVE  /\ Head(ready[n]) \in emitted
           /\ ready' \in [Node -> Seq(emitted')]
<1>1. ready[n] # <<>> /\ ready' = [ready EXCEPT ![n] = Tail(ready[n])]
  BY DEF Runs
<1>2. ready \in [Node -> Seq(emitted')]
  BY InFlightGrows
<1>3. ready[n] \in Seq(emitted)
  BY DEF InFlight
<1> QED
  BY <1>1, <1>2, <1>3

(* What has to be shown of a step besides InFlight.                        *)
LEMMA AuthNext ==
    ASSUME AuthInv, InFlight', emitted \subseteq emitted',
           \A pkt \in emitted' : pkt \in emitted \/ Honest(pkt),
           \A a, b \in Node : LET s == sessions[a][b]  t == sessions'[a][b] IN
             \/ t.role = "none"
             \/ t.role = s.role /\ t.i = s.i /\ t.r = s.r
             \/ Vouched(a, b, t)
    PROVE  AuthInv'
<1>1. \A pkt \in emitted' : Honest(pkt)
  BY DEF AuthInv
<1>2. ASSUME NEW a \in Node, NEW b \in Node, Established(a, b)'
      PROVE  Vouched(a, b, sessions[a][b])'
  <2> DEFINE s == sessions[a][b]
             t == sessions'[a][b]
  <2>1. t.role # "none"
    BY <1>2 DEF Established
  <2>2. CASE t.role = s.role /\ t.i = s.i /\ t.r = s.r
    <3>1. Vouched(a, b, s)
      BY <2>1, <2>2 DEF AuthInv, Established
    <3> QED
      BY <2>2, <3>1 DEF Vouched
  <2>3. CASE Vouched(a, b, t)
    BY <2>3 DEF Vouched
  <2> QED
    BY <2>1, <2>2, <2>3
<1> QED
  BY <1>1, <1>2 DEF AuthInv, Honest

(* Only the tables other than sessions and emitted change.                 *)
LEMMA QuietAuth ==
    ASSUME AuthInv, InFlight', UNCHANGED <<sessions, emitted>>
    PROVE  AuthInv'
BY AuthNext

(* One more packet, the sessions keep their keys or go.                    *)
LEMMA SendAuth ==
    ASSUME TypeOK, AuthInv, NEW n \in Node, NEW p \in Node, NEW s, NEW pkt,
           s.role = "none" \/ ( /\ s.role = sessions[n][p].role
                                /\ s.i = sessions[n][p].i
                                /\ s.r = sessions[n][p].r ),
           sessions' = [sessions EXCEPT ![n][p] = s],
           Honest(pkt), SendToPeer(n, p, pkt),
           ready' \in [Node -> Seq(emitted')]
    PROVE  AuthInv'
<1>1. sessions \in [Node -> [Node -> Session]]
  BY DEF TypeOK
<1>2. \A a, b \in Node : sessions'[a][b] =
        IF a = n /\ b = p THEN s ELSE sessions[a][b]
  BY <1>1, EntryUpdate
<1>3. emitted' = emitted \cup {pkt}
  BY DEF SendToPeer
<1>4. InFlight'
  BY <1>3, WrittenInFlight DEF AuthInv, InFlight, SendToPeer
<1> QED
  BY <1>2, <1>3, <1>4, AuthNext

LEMMA InitiateAuth ==
    ASSUME TypeOK, AuthInv, NEW n \in Node, NEW p \in Node,
           InitiateHandshake(n, p), ready' \in [Node -> Seq(emitted')]
    PROVE  AuthInv'
<1> DEFINE pkt == [type |-> "init", src |-> n, dst |-> p,
                   m |-> [kind |-> "m1", i |-> <<n, eph[n] + 1>>,
                          r |-> Garbage(p)]]
<1>1. /\ sessions' = [sessions EXCEPT ![n][p] = NoSession(n)]
      /\ SendToPeer(n, p, pkt)
  BY DEF InitiateHandshake
<1>2. Honest(pkt) /\ NoSession(n).role = "none"
  BY DEF Honest, NoSession
<1> HIDE DEF pkt
<1> QED
  BY <1>1, <1>2, SendAuth

LEMMA SendPrivateMessageAuth ==
    ASSUME TypeOK, AuthInv, NEW n \in Node, NEW p \in Node, NEW id, NEW elapsed,
           SendPrivateMessage(n, p, id, elapsed), ready' = ready
    PROVE  AuthInv'
<1> DEFINE s == sessions[n][p]
           t == [s EXCEPT !.sn = s.sn + 1]
           out == [type |-> "encrypted", src |-> n, dst |-> p,
                   c |-> Sealed(n, p, id)]
<1>0. emitted \subseteq emitted' => ready' \in [Node -> Seq(emitted')]
  BY InFlightGrows DEF AuthInv
<1>1. CASE Established(n, p)
  <2>1. /\ sessions' = [sessions EXCEPT ![n][p].sn = s.sn + 1]
        /\ SendToPeer(n, p, out)
    BY <1>1 DEF SendPrivateMessage
  <2>2. sessions' = [sessions EXCEPT ![n][p] = t]
    BY <2>1 DEF TypeOK
  <2>3. s \in Session
    BY DEF TypeOK
  <2>4. t.role = s.role /\ t.i = s.i /\ t.r = s.r
    BY <2>3 DEF Session
  <2>5. Honest(out)
    BY DEF Honest
  <2> HIDE DEF t, out
  <2>6. emitted \subseteq emitted'
    BY <2>1 DEF SendToPeer
  <2> QED
    BY <1>0, <2>1, <2>2, <2>4, <2>5, <2>6, SendAuth
<1>2. CASE ~Established(n, p) /\ InitiateHandshake(n, p)
  <2>1. emitted \subseteq emitted'
    BY <1>2 DEF InitiateHandshake, SendToPeer
  <2> QED
    BY <1>0, <1>2, <2>1, InitiateAuth
<1>3. CASE UNCHANGED <<sessions, net, emitted>>
  BY <1>0, <1>3, QuietAuth DEF AuthInv, InFlight
<1> QED
  BY <1>1, <1>2, <1>3 DEF SendPrivateMessage

LEMMA RemovePeerAuth ==
    ASSUME TypeOK, AuthInv, NEW n \in Node, NEW p \in Node, RemovePeer(n, p),
           InFlight', emitted' = emitted
    PROVE  AuthInv'
<1>1. sessions' = [sessions EXCEPT ![n][p] = NoSession(n)]
  BY DEF RemovePeer
<1>2. sessions \in [Node -> [Node -> Session]]
  BY DEF TypeOK
<1>3. NoSession(n).role = "none"
  BY DEF NoSession
<1>4. \A a, b \in Node : \/ sessions'[a][b] = sessions[a][b]
                         \/ sessions'[a][b].role = "none"
  BY <1>1, <1>2, <1>3, EntryUpdate
<1> QED
  BY <1>4, AuthNext

LEMMA LeaveStepAuth ==
    ASSUME TypeOK, AuthInv, NEW n \in Node
    PROVE  /\ SendLeave(n) => AuthInv'
           /\ HandleLeave(n) => AuthInv'
<1>0. InFlight
  BY DEF AuthInv
<1>1. ASSUME SendLeave(n) PROVE AuthInv'
  <2>1. /\ net' = Written(n, Conn, Leave(n)) /\ emitted' = emitted \cup {Leave(n)}
        /\ ready' = ready /\ sessions' = sessions
    BY <1>1 DEF SendLeave
  <2>2. Honest(Leave(n))
    BY DEF Honest, Leave
  <2>3. InFlight'
    BY <1>0, <2>1, WrittenInFlight, InFlightGrows DEF InFlight
  <2> QED
    BY <2>1, <2>2, <2>3, AuthNext
<1>2. ASSUME HandleLeave(n) PROVE AuthInv'
  <2>1. Runs(n, {"leave"}) /\ net' = net /\ emitted' = emitted
    BY <1>2 DEF HandleLeave
  <2>2. InFlight'
    BY <1>0, <2>1, RunsInFlight DEF InFlight
  <2>3. Head(ready[n]).src \in Node
    BY <2>1, RunsType
  <2> QED
    BY <1>2, <2>1, <2>2, <2>3, RemovePeerAuth, QuietAuth DEF HandleLeave
<1> QED
  BY <1>1, <1>2

LEMMA LinkStepAuth ==
    ASSUME TypeOK, AuthInv
    PROVE  /\ \A c \in Conn : Connect(c) => AuthInv'
           /\ \A n \in Node, c \in Conn : ConnectionLost(n, c) => AuthInv'
           /\ \A n \in Node, c \in Conn : SendIdentityAnnounce(n, c) => AuthInv'
           /\ \A n \in Node, c \in Conn : Receive(n, c) => AuthInv'
<1>0. InFlight
  BY DEF AuthInv
<1>1. ASSUME NEW c \in Conn, Connect(c) PROVE AuthInv'
  BY <1>1, QuietAuth DEF Connect, AuthInv, InFlight
<1>2. ASSUME NEW n \in Node, NEW c \in Conn, ConnectionLost(n, c)
      PROVE  AuthInv'
  <2>1. /\ net' = [net EXCEPT ![c][n] = <<>>]
        /\ ready' = ready /\ emitted' = emitted
    BY <1>2 DEF ConnectionLost
  <2>2. InFlight'
    BY <1>0, <2>1 DEF InFlight
  <2>3. ASSUME NEW p \in Node, RemovePeer(n, p) PROVE AuthInv'
    BY <2>1, <2>2, <2>3, RemovePeerAuth
  <2> QED
    BY <1>2, <2>1, <2>2, <2>3, QuietAuth DEF ConnectionLost
<1>3. ASSUME NEW n \in Node, NEW c \in Conn, SendIdentityAnnounce(n, c)
      PROVE  AuthInv'
  <2> DEFINE pkt == [type |-> "announce", src |-> n]
  <2>1. /\ net' = Written(n, Conn, pkt) /\ emitted' = emitted \cup {pkt}
        /\ ready' = ready /\ sessions' = sessions
    BY <1>3 DEF SendIdentityAnnounce
  <2>2. Honest(pkt)
    BY DEF Honest
  <2> HIDE DEF pkt
  <2>3. InFlight'
    BY <1>0, <2>1, WrittenInFlight, InFlightGrows DEF InFlight
  <2> QED
    BY <2>1, <2>2, <2>3, AuthNext
<1>4. ASSUME NEW n \in Node, NEW c \in Conn, Receive(n, c) PROVE AuthInv'
  <2> DEFINE pkt == Head(net[c][n])
  <2>1. /\ net[c][n] # <<>>
        /\ net' = [net EXCEPT ![c][n] = Tail(net[c][n])]
        /\ \/ ready' = ready
           \/ ready' = [ready EXCEPT ![n] = Append(ready[n], pkt)]
        /\ sessions' = sessions /\ emitted' = emitted
    BY <1>4 DEF Receive
  <2>2. net[c][n] \in Seq(emitted) /\ ready[n] \in Seq(emitted)
    BY <1>0 DEF InFlight
  <2>3. pkt \in emitted /\ Tail(net[c][n]) \in Seq(emitted)
    BY <2>1, <2>2
  <2> HIDE DEF pkt
  <2>4. Append(ready[n], pkt) \in Seq(emitted)
    BY <2>2, <2>3
  <2>5. net' \in [Conn -> [Node -> Seq(emitted)]]
    BY <1>0, <2>1, <2>3 DEF InFlight
  <2>6. ready' \in [Node -> Seq(emitted)]
    BY <1>0, <2>1, <2>4 DEF InFlight
  <2>7. InFlight'
    BY <2>1, <2>5, <2>6 DEF InFlight
  <2> QED
    BY <2>1, <2>7, QuietAuth
<1> QED
  BY <1>1, <1>2, <1>3, <1>4

(* A session the handshake has just completed with the message x.          *)
LEMMA FinishAuth ==
    ASSUME TypeOK, AuthInv, NEW n \in Node, NEW p \in Node, NEW s,
           Vouched(n, p, s), sessions' = [sessions EXCEPT ![n][p] = s],
           InFlight', emitted \subseteq emitted',
           \A pkt \in emitted' : pkt \in emitted \/ Honest(pkt)
    PROVE  AuthInv'
<1>1. sessions \in [Node -> [Node -> Session]]
  BY DEF TypeOK
<1>2. \A a, b \in Node : sessions'[a][b] =
        IF a = n /\ b = p THEN s ELSE sessions[a][b]
  BY <1>1, EntryUpdate
<1> QED
  BY <1>2, AuthNext

(* The keys of a handshake message are all of it but its kind.             *)
LEMMA MessageIs ==
    ASSUME NEW m \in HandshakeMessage, NEW k, NEW i, NEW r,
           m.kind = k, m.i = i, m.r = r
    PROVE  m = [kind |-> k, i |-> i, r |-> r]
BY DEF HandshakeMessage

LEMMA HandshakeStepAuth ==
    ASSUME TypeOK, NonceInv, AuthInv, NEW n \in Node
    PROVE  /\ HandleIdentityAnnounce(n) => AuthInv'
           /\ StartAsResponder(n) => AuthInv'
           /\ FinishAsInitiator(n) => AuthInv'
           /\ FinishAsResponder(n) => AuthInv'
           /\ HandshakeFails(n) => AuthInv'
<1> DEFINE pkt == Head(ready[n])
           p == pkt.src
           h == handshake_states[n][p]
           e == <<n, eph[n] + 1>>
<1>0. InFlight
  BY DEF AuthInv
<1>1. ASSUME NEW types, Runs(n, types)
      PROVE  /\ p \in Node /\ pkt \in Packet /\ pkt \in emitted /\ Honest(pkt)
             /\ pkt.type \in types
             /\ emitted \subseteq emitted' => ready' \in [Node -> Seq(emitted')]
  <2>1. p \in Node /\ pkt \in Packet /\ pkt.type \in types
    BY <1>1, RunsType
  <2>2. emitted \subseteq emitted' => ready' \in [Node -> Seq(emitted')]
    BY <1>0, <1>1, RunsInFlight
  <2>3. pkt \in emitted
    <3>1. ready[n] # <<>> /\ ready[n] \in Seq(emitted)
      BY <1>0, <1>1 DEF Runs, InFlight
    <3> QED
      BY <3>1
  <2> QED
    BY <2>1, <2>2, <2>3 DEF AuthInv
<1>2. ASSUME HandleIdentityAnnounce(n) PROVE AuthInv'
  <2>1. Runs(n, {"announce"})
    BY <1>2 DEF HandleIdentityAnnounce
  <2>2. CASE InitiateHandshake(n, p)
    <3>1. emitted \subseteq emitted'
      BY <2>2 DEF InitiateHandshake, SendToPeer
    <3>2. p \in Node /\ ready' \in [Node -> Seq(emitted')]
      BY <1>1, <2>1, <3>1
    <3> QED
      BY <2>2, <3>2, InitiateAuth
  <2>3. CASE UNCHANGED <<eph, handshake_states, sessions, net, emitted>>
    BY <1>0, <1>1, <2>1, <2>3, QuietAuth DEF InFlight
  <2> QED
    BY <1>2, <2>2, <2>3 DEF HandleIdentityAnnounce
<1>3. ASSUME StartAsResponder(n) PROVE AuthInv'
  <2> DEFINE re == IF pkt.m.kind = "m1" THEN pkt.m.i ELSE Garbage(p)
             m == [kind |-> "m2", i |-> re, r |-> e]
             out == Answer(n, pkt, m)
  <2>1. /\ Runs(n, {"init", "resp"})
        /\ SendToPeer(n, p, out)
        /\ sessions' = sessions
    BY <1>3 DEF StartAsResponder
  <2>2. Honest(out)
    BY DEF Honest, Answer
  <2> HIDE DEF out
  <2>3. emitted \subseteq emitted'
    BY <2>1 DEF SendToPeer
  <2>4. p \in Node /\ ready' \in [Node -> Seq(emitted')]
    BY <1>1, <2>1, <2>3
  <2> HIDE DEF p
  <2>5. sessions' = [sessions EXCEPT ![n][p] = sessions[n][p]]
    BY <2>1, <2>4 DEF TypeOK
  <2> QED
    BY <2>1, <2>2, <2>4, <2>5, SendAuth
<1>4. ASSUME FinishAsInitiator(n) PROVE AuthInv'
  <2> DEFINE s == [role |-> "initiator", i |-> h.le, r |-> pkt.m.r,
                   sn |-> 0, rn |-> 0]
             m == [kind |-> "m3", i |-> h.le, r |-> pkt.m.r]
             out == Answer(n, pkt, m)
  <2>1. /\ Runs(n, {"init", "resp"}) /\ pkt.dst = n
        /\ h.role = "initiator" /\ pkt.m.kind = "m2" /\ pkt.m.i = h.le
        /\ sessions' = [sessions EXCEPT ![n][p] = s]
        /\ SendToPeer(n, p, out)
    BY <1>4 DEF FinishAsInitiator, Fits2
  <2>2. emitted' = emitted \cup {out} /\ emitted \subseteq emitted'
    BY <2>1 DEF SendToPeer
  <2>3. /\ p \in Node /\ pkt \in Packet /\ pkt \in emitted /\ Honest(pkt)
        /\ pkt.type \in {"init", "resp"}
        /\ ready' \in [Node -> Seq(emitted')]
    BY <1>1, <2>1, <2>2
  <2>4. h.le[1] = n
    BY <2>1, <2>3 DEF NonceInv, HandshakeKeys
  <2>5. pkt.m.r[1] = p
    BY <2>1, <2>3 DEF Honest
  <2>6. Honest(out)
    BY <2>4 DEF Honest, Answer
  <2>7. pkt.m = [kind |-> "m2", i |-> h.le, r |-> pkt.m.r]
    BY <2>1, <2>3, PacketFields, MessageIs
  <2>8. Vouched(n, p, s)
    BY <2>1, <2>3, <2>4, <2>5, <2>7 DEF Vouched
  <2> HIDE DEF out, s
  <2>9. InFlight'
    BY <1>0, <2>1, <2>2, <2>3, WrittenInFlight DEF InFlight, SendToPeer
  <2> QED
    BY <2>1, <2>2, <2>3, <2>6, <2>8, <2>9, FinishAuth
<1>5. ASSUME FinishAsResponder(n) PROVE AuthInv'
  <2> DEFINE s == [role |-> "responder", i |-> h.re, r |-> h.le,
                   sn |-> 0, rn |-> 0]
  <2>1. /\ Runs(n, {"init", "resp"}) /\ pkt.dst = n
        /\ h.role = "responder" /\ pkt.m.kind = "m3"
        /\ pkt.m.i = h.re /\ pkt.m.r = h.le
        /\ sessions' = [sessions EXCEPT ![n][p] = s]
        /\ net' = net /\ emitted' = emitted
    BY <1>5 DEF FinishAsResponder, Fits3
  <2>2. /\ p \in Node /\ pkt \in Packet /\ pkt \in emitted /\ Honest(pkt)
        /\ pkt.type \in {"init", "resp"}
        /\ ready' \in [Node -> Seq(emitted')]
    BY <1>1, <2>1
  <2>3. h.le[1] = n
    BY <2>1, <2>2 DEF NonceInv, HandshakeKeys
  <2>4. h.re[1] = p
    BY <2>1, <2>2 DEF Honest
  <2>5. pkt.m = [kind |-> "m3", i |-> h.re, r |-> h.le]
    <3>1. pkt.m \in HandshakeMessage
      BY <2>2, PacketFields
    <3> HIDE DEF h
    <3> QED
      BY <2>1, <3>1, MessageIs
  <2>6. Vouched(n, p, s)
    BY <2>1, <2>2, <2>3, <2>4, <2>5 DEF Vouched
  <2> HIDE DEF s
  <2>7. InFlight'
    BY <1>0, <2>1, <2>2 DEF InFlight
  <2> QED
    BY <2>1, <2>2, <2>6, <2>7, FinishAuth
<1>6. ASSUME HandshakeFails(n) PROVE AuthInv'
  <2>1. Runs(n, {"init", "resp"}) /\ UNCHANGED <<sessions, net, emitted>>
    BY <1>6 DEF HandshakeFails
  <2> QED
    BY <1>0, <1>1, <2>1, QuietAuth DEF InFlight
<1> QED
  BY <1>2, <1>3, <1>4, <1>5, <1>6

LEMMA DeliveryStepAuth ==
    ASSUME TypeOK, AuthInv, NEW n \in Node
    PROVE  /\ HandleNoiseEncrypted(n) => AuthInv'
           /\ HandleDeliveryAck(n) => AuthInv'
<1> DEFINE pkt == Head(ready[n])
           p == pkt.src
           id == pkt.c.id
           s == sessions[n][p]
           t == [Received(s) EXCEPT !.sn = s.sn + 1]
           out == [type |-> "ack", src |-> n, dst |-> p,
                   c |-> Sealed(n, p, id)]
<1>0. InFlight
  BY DEF AuthInv
<1>1. ASSUME NEW types, Runs(n, types)
      PROVE  /\ p \in Node
             /\ emitted \subseteq emitted' => ready' \in [Node -> Seq(emitted')]
  BY <1>0, <1>1, RunsType, RunsInFlight
<1>2. ASSUME p \in Node
      PROVE  /\ Received(s).role = s.role /\ Received(s).i = s.i
             /\ Received(s).r = s.r
             /\ t.role = s.role /\ t.i = s.i /\ t.r = s.r
  <2>1. s \in Session
    <3> HIDE DEF p
    <3> QED
      BY <1>2 DEF TypeOK
  <2> QED
    BY <2>1 DEF Received, Session
<1>3. ASSUME NEW types, Runs(n, types), UNCHANGED <<net, emitted>>,
             \/ sessions' = sessions
             \/ sessions' = [sessions EXCEPT ![n][p] = Received(s)]
      PROVE  AuthInv'
  <2>1. p \in Node /\ InFlight'
    BY <1>0, <1>1, <1>3 DEF InFlight
  <2> DEFINE u == Received(s)
  <2>2. sessions \in [Node -> [Node -> Session]]
    BY DEF TypeOK
  <2>3. u.role = s.role /\ u.i = s.i /\ u.r = s.r
    BY <1>2, <2>1
  <2> HIDE DEF u, p
  <2>4. sessions' = [sessions EXCEPT ![n][p] = u] =>
          \A a, b \in Node : sessions'[a][b] =
            IF a = n /\ b = p THEN u ELSE sessions[a][b]
    BY <2>1, <2>2, EntryUpdate
  <2>5. \A a, b \in Node : /\ sessions'[a][b].role = sessions[a][b].role
                           /\ sessions'[a][b].i = sessions[a][b].i
                           /\ sessions'[a][b].r = sessions[a][b].r
    BY <1>3, <2>3, <2>4 DEF u
  <2> QED
    BY <1>3, <2>1, <2>5, AuthNext
<1>4. ASSUME HandleNoiseEncrypted(n) PROVE AuthInv'
  <2>1. Runs(n, {"encrypted"})
    BY <1>4 DEF HandleNoiseEncrypted
  <2>2. \/ UNCHANGED <<sessions, net, emitted>>
        \/ /\ sessions' = [sessions EXCEPT ![n][p] = Received(s)]
           /\ UNCHANGED <<net, emitted>>
        \/ /\ sessions' = [sessions EXCEPT ![n][p] = t]
           /\ SendToPeer(n, p, out)
    BY <1>4 DEF HandleNoiseEncrypted
  <2>3. CASE /\ sessions' = [sessions EXCEPT ![n][p] = t]
             /\ SendToPeer(n, p, out)
    <3>1. Honest(out)
      BY DEF Honest
    <3> HIDE DEF out
    <3>2. emitted \subseteq emitted'
      BY <2>3 DEF SendToPeer
    <3>3. p \in Node /\ ready' \in [Node -> Seq(emitted')]
      BY <1>1, <2>1, <3>2
    <3>4. t.role = s.role /\ t.i = s.i /\ t.r = s.r
      BY <1>2, <3>3
    <3> HIDE DEF t, p
    <3> QED
      BY <2>3, <3>1, <3>3, <3>4, SendAuth
  <2> QED
    BY <1>3, <2>1, <2>2, <2>3
<1>5. ASSUME HandleDeliveryAck(n) PROVE AuthInv'
  <2>1. /\ Runs(n, {"ack"}) /\ UNCHANGED <<net, emitted>>
        /\ \/ sessions' = sessions
           \/ sessions' = [sessions EXCEPT ![n][p] = Received(s)]
    BY <1>5 DEF HandleDeliveryAck
  <2> QED
    BY <1>3, <2>1
<1> QED
  BY <1>4, <1>5

LEMMA MessageStepAuth ==
    ASSUME TypeOK, AuthInv, NEW n \in Node
    PROVE  /\ \A p \in Node, id \in Msg, elapsed \in BOOLEAN :
                Submit(n, p, id, elapsed) => AuthInv'
           /\ \A p \in Node : StartFlush(n, p) => AuthInv'
           /\ \A k \in DOMAIN flushes[n], elapsed \in BOOLEAN :
                FlushOne(n, k, elapsed) => AuthInv'
<1>1. ASSUME NEW p \in Node, NEW id \in Msg, NEW elapsed \in BOOLEAN,
             Submit(n, p, id, elapsed)
      PROVE  AuthInv'
  BY <1>1, SendPrivateMessageAuth DEF Submit
<1>2. ASSUME NEW p \in Node, StartFlush(n, p) PROVE AuthInv'
  BY <1>2, QuietAuth DEF StartFlush, AuthInv, InFlight
<1>3. ASSUME NEW k \in DOMAIN flushes[n], NEW elapsed \in BOOLEAN,
             FlushOne(n, k, elapsed)
      PROVE  AuthInv'
  <2>1. flushes[n] \in Seq(Flush)
    BY DEF TypeOK
  <2>2. flushes[n][k] \in Flush
    BY <2>1
  <2>3. flushes[n][k].to \in Node
    BY <2>2 DEF Flush
  <2> QED
    BY <1>3, <2>3, SendPrivateMessageAuth DEF FlushOne
<1> QED
  BY <1>1, <1>2, <1>3

(* Whoever a session is filed under vouched for its keys.                  *)
THEOREM AuthInvariant == Spec => []AuthInv
<1>1. Init => AuthInv
  <2> SUFFICES ASSUME Init PROVE AuthInv
    OBVIOUS
  <2>1. InFlight
    BY DEF Init, InFlight
  <2>2. \A n, p \in Node : ~Established(n, p)
    BY DEF Init, NoSession, Established
  <2> QED
    BY <2>1, <2>2 DEF Init, AuthInv
<1>2. TypeOK /\ NonceInv /\ AuthInv /\ [Next]_vars => AuthInv'
  <2> SUFFICES ASSUME TypeOK, NonceInv, AuthInv, [Next]_vars PROVE AuthInv'
    OBVIOUS
  <2>1. CASE UNCHANGED vars
    BY <2>1, QuietAuth DEF vars, AuthInv, InFlight
  <2>2. CASE \E c \in Conn : Connect(c)
    BY <2>2, LinkStepAuth
  <2>3. CASE \E n \in Node, c \in Conn : ConnectionLost(n, c)
    BY <2>3, LinkStepAuth
  <2>4. ASSUME NEW n \in Node, Step(n) PROVE AuthInv'
    <3>1. CASE \E c \in Conn : Receive(n, c) \/ SendIdentityAnnounce(n, c)
      BY <3>1, LinkStepAuth
    <3>2. CASE Handle(n)
      BY <3>2, HandshakeStepAuth, DeliveryStepAuth, LeaveStepAuth DEF Handle
    <3>3. CASE \/ \E p \in Node : StartFlush(n, p)
               \/ \E k \in DOMAIN flushes[n], elapsed \in BOOLEAN :
                    FlushOne(n, k, elapsed)
      BY <3>3, MessageStepAuth
    <3> QED
      BY <2>4, <3>1, <3>2, <3>3 DEF Step
  <2>5. CASE \E n, p \in Node, id \in Msg, elapsed \in BOOLEAN :
               Submit(n, p, id, elapsed)
    BY <2>5, MessageStepAuth
  <2>6. CASE \E n \in Node : SendLeave(n)
    BY <2>6, LeaveStepAuth
  <2> QED
    BY <2>1, <2>2, <2>3, <2>4, <2>5, <2>6 DEF Next
<1> QED
  BY <1>1, <1>2, TypeCorrect, NonceInvariant, PTL DEF Spec

(* SessionAuthentic for any number of nodes and connections: whoever a     *)
(* session is filed under took part in that very handshake, however the    *)
(* handshakes were crossed, restarted and misread (encryption.py:580).     *)
THEOREM SessionsAreAuthentic == Spec => []SessionAuthentic
<1>1. AuthInv => SessionAuthentic
  BY DEF AuthInv, Vouched, SessionAuthentic
<1> QED
  BY <1>1, AuthInvariant, PTL

----------------------------------------------------------------------------
(* A session ends only with its connection or its peer                     *)

(* A LEAVE in the name of a node was sent by that node's shutdown.         *)
LeaveInv == \A pkt \in emitted : pkt.type = "leave" => pkt.src \in left

(* A step that sends at most one packet, no LEAVE, and no node leaves.     *)
StaysStep ==
    /\ left' = left
    /\ emitted' = emitted \/ \E x : /\ emitted' = emitted \cup {x}
                                    /\ x.type # "leave"

LEMMA StaysLeave == ASSUME LeaveInv, StaysStep PROVE LeaveInv'
BY DEF LeaveInv, StaysStep

LEMMA SendPrivateMessageStays ==
    ASSUME NEW n, NEW p, NEW id, NEW elapsed,
           SendPrivateMessage(n, p, id, elapsed), left' = left
    PROVE  StaysStep
<1>1. CASE Established(n, p)
  BY <1>1 DEF SendPrivateMessage, SendToPeer, StaysStep
<1>2. CASE ~Established(n, p)
  <2>1. InitiateHandshake(n, p) => StaysStep
    BY DEF InitiateHandshake, SendToPeer, StaysStep
  <2> QED
    BY <1>2, <2>1 DEF SendPrivateMessage, StaysStep
<1> QED
  BY <1>1, <1>2

LEMMA HandleStays == ASSUME NEW n \in Node, Handle(n) PROVE StaysStep
<1>1. \A pkt, m : Answer(n, pkt, m).type # "leave"
  BY DEF Answer
<1>2. CASE HandleIdentityAnnounce(n)
  <2>1. \A p : InitiateHandshake(n, p) /\ left' = left => StaysStep
    BY DEF InitiateHandshake, SendToPeer, StaysStep
  <2> QED
    BY <1>2, <2>1 DEF HandleIdentityAnnounce, linkVars, StaysStep
<1>3. CASE StartAsResponder(n) \/ FinishAsInitiator(n)
  <2>1. left' = left
    BY <1>3 DEF StartAsResponder, FinishAsInitiator, linkVars
  <2>2. \E pkt, m : emitted' = emitted \cup {Answer(n, pkt, m)}
    BY <1>3 DEF StartAsResponder, FinishAsInitiator, SendToPeer
  <2> QED
    BY <1>1, <2>1, <2>2 DEF StaysStep
<1>4. CASE \/ FinishAsResponder(n) \/ HandshakeFails(n)
           \/ HandleDeliveryAck(n) \/ HandleLeave(n)
  BY <1>4 DEF FinishAsResponder, HandshakeFails, HandleDeliveryAck,
              HandleLeave, linkVars, StaysStep
<1>5. CASE HandleNoiseEncrypted(n)
  BY <1>5 DEF HandleNoiseEncrypted, SendToPeer, linkVars, StaysStep
<1> QED
  BY <1>2, <1>3, <1>4, <1>5 DEF Handle

(* No node is taken for gone that has not left.                            *)
THEOREM LeaveInvariant == Spec => []LeaveInv
<1>1. Init => LeaveInv
  BY DEF Init, LeaveInv
<1>2. LeaveInv /\ [Next]_vars => LeaveInv'
  <2> SUFFICES ASSUME LeaveInv, [Next]_vars PROVE LeaveInv'
    OBVIOUS
  <2>1. CASE UNCHANGED vars
    BY <2>1, StaysLeave DEF vars, linkVars, StaysStep
  <2>2. CASE \/ \E c \in Conn : Connect(c)
             \/ \E n \in Node, c \in Conn : ConnectionLost(n, c)
    BY <2>2, StaysLeave DEF Connect, ConnectionLost, StaysStep
  <2>3. ASSUME NEW n \in Node, SendLeave(n) PROVE LeaveInv'
    BY <2>3 DEF SendLeave, LeaveInv, Leave
  <2>4. ASSUME NEW n \in Node, Step(n) PROVE LeaveInv'
    <3>1. CASE \E c \in Conn : Receive(n, c)
      BY <3>1, StaysLeave DEF Receive, linkVars, StaysStep
    <3>2. ASSUME NEW c \in Conn, SendIdentityAnnounce(n, c) PROVE LeaveInv'
      <4> DEFINE pkt == [type |-> "announce", src |-> n]
      <4>1. emitted' = emitted \cup {pkt} /\ left' = left /\ pkt.type # "leave"
        BY <3>2 DEF SendIdentityAnnounce
      <4> HIDE DEF pkt
      <4> QED
        BY <4>1, StaysLeave DEF StaysStep
    <3>3. CASE Handle(n)
      BY <3>3, HandleStays, StaysLeave
    <3>4. CASE \E p \in Node : StartFlush(n, p)
      BY <3>4, StaysLeave DEF StartFlush, linkVars, StaysStep
    <3>5. CASE \E k \in DOMAIN flushes[n], elapsed \in BOOLEAN :
                 FlushOne(n, k, elapsed)
      BY <3>5, SendPrivateMessageStays, StaysLeave DEF FlushOne, linkVars
    <3> QED
      BY <2>4, <3>1, <3>2, <3>3, <3>4, <3>5 DEF Step
  <2>5. CASE \E n, p \in Node, id \in Msg, elapsed \in BOOLEAN :
               Submit(n, p, id, elapsed)
    BY <2>5, SendPrivateMessageStays, StaysLeave DEF Submit, linkVars
  <2> QED
    BY <2>1, <2>2, <2>3, <2>4, <2>5 DEF Next
<1> QED
  BY <1>1, <1>2, PTL DEF Spec

(* The two ways a session of n with p may end.                             *)
Excused(n, p) ==
    \/ \E c \in Conn : peer_addresses[n][p] = {c} /\ n \in open[c] \ open'[c]
    \/ /\ ready[n] # <<>> /\ Head(ready[n]) = Leave(p)
       /\ ready'[n] = Tail(ready[n])
       /\ p \in left

(* RemovePeer takes no session but the one with the peer it removes.       *)
LEMMA RemovePeerLasts ==
    ASSUME TypeOK, NEW n \in Node, NEW p \in Node, RemovePeer(n, p),
           NEW a \in Node, NEW b \in Node, Established(a, b),
           sessions'[a][b].role = "none"
    PROVE  a = n /\ b = p
<1>1. sessions \in [Node -> [Node -> Session]]
  BY DEF TypeOK
<1>2. sessions' = [sessions EXCEPT ![n][p] = NoSession(n)]
  BY DEF RemovePeer
<1>3. sessions'[a][b] =
        IF a = n /\ b = p THEN NoSession(n) ELSE sessions[a][b]
  BY <1>1, <1>2, EntryUpdate
<1> QED
  BY <1>3 DEF Established

LEMMA ConnectionLostExcused ==
    ASSUME TypeOK, NEW n \in Node, NEW c \in Conn, ConnectionLost(n, c),
           NEW a \in Node, NEW b \in Node, Established(a, b),
           sessions'[a][b].role = "none"
    PROVE  Excused(a, b)
<1>1. sessions' # sessions
  BY DEF Established
<1>2. PICK p \in Node : peer_addresses[n][p] = {c} /\ RemovePeer(n, p)
  BY <1>1 DEF ConnectionLost
<1>3. a = n /\ b = p
  BY <1>2, RemovePeerLasts
<1>4. n \in open[c] /\ n \notin open'[c]
  BY DEF ConnectionLost, TypeOK
<1> QED
  BY <1>2, <1>3, <1>4 DEF Excused

LEMMA HandleLeaveExcused ==
    ASSUME TypeOK, AuthInv, LeaveInv, NEW n \in Node, HandleLeave(n),
           NEW a \in Node, NEW b \in Node, Established(a, b),
           sessions'[a][b].role = "none"
    PROVE  Excused(a, b)
<1> DEFINE pkt == Head(ready[n])
<1>1. Runs(n, {"leave"})
  BY DEF HandleLeave
<1>2. pkt \in Packet /\ pkt.type = "leave" /\ pkt.src \in Node
  <2>1. pkt \in Packet /\ pkt.type \in {"leave"} /\ pkt.src \in Node
    BY <1>1, RunsType, Zenon
  <2> QED
    BY <2>1
<1>3. ready[n] # <<>> /\ ready'[n] = Tail(ready[n])
  BY <1>1 DEF Runs, TypeOK
<1>4. pkt \in emitted
  <2>1. ready[n] \in Seq(emitted)
    BY DEF AuthInv, InFlight
  <2> QED
    BY <1>3, <2>1
<1> HIDE DEF pkt
<1>5. pkt.src \in left
  BY <1>2, <1>4 DEF LeaveInv
<1>6. pkt = Leave(pkt.src)
  BY <1>2 DEF Packet, Leave
<1>7. sessions' # sessions
  BY DEF Established
<1>8. RemovePeer(n, pkt.src)
  BY <1>7 DEF HandleLeave, pkt
<1>9. a = n /\ b = pkt.src
  BY <1>2, <1>8, RemovePeerLasts
<1>10. Head(ready[n]) = Leave(b)
  BY <1>6, <1>9 DEF pkt
<1> QED
  BY <1>3, <1>5, <1>9, <1>10 DEF Excused

(* SessionStable: whatever announcements, crossing handshakes and failed   *)
(* messages arrive, a node loses the session with a peer only by losing    *)
(* the connection it last heard the peer on, or by handling a LEAVE that   *)
(* this very peer sent (mesh.py:334, 718, 166-169 and 562).                *)
THEOREM SessionsAreStable == Spec => SessionStable
<1> DEFINE Stable == \A n, p \in Node :
              Established(n, p) /\ ~Established(n, p)' => Excused(n, p)
<1>1. TypeOK /\ AuthInv /\ LeaveInv /\ [Next]_vars => [Stable]_vars
  <2> SUFFICES ASSUME TypeOK, AuthInv, LeaveInv, Next PROVE Stable
    OBVIOUS
  <2>1. SessionsLast => Stable
    BY DEF SessionsLast, Established
  <2>2. ASSUME NEW n \in Node, NEW c \in Conn, ConnectionLost(n, c) PROVE Stable
    BY <2>2, ConnectionLostExcused DEF Established
  <2>3. ASSUME NEW n \in Node, HandleLeave(n) PROVE Stable
    BY <2>3, HandleLeaveExcused DEF Established
  <2> HIDE DEF Stable
  <2>4. CASE \/ \E c \in Conn : Connect(c)
             \/ \E n \in Node : SendLeave(n)
    BY <2>1, <2>4, SameLasts DEF Connect, SendLeave
  <2>5. ASSUME NEW n \in Node, Step(n) PROVE Stable
    <3>1. CASE \E c \in Conn : Receive(n, c) \/ SendIdentityAnnounce(n, c)
      BY <2>1, <3>1, SameLasts DEF Receive, SendIdentityAnnounce
    <3>2. CASE Handle(n)
      BY <2>1, <2>3, <3>2, HandleLasts
    <3>3. CASE \E p \in Node : StartFlush(n, p)
      BY <2>1, <3>3, SameLasts DEF StartFlush
    <3>4. ASSUME NEW k \in DOMAIN flushes[n], NEW elapsed \in BOOLEAN,
                 FlushOne(n, k, elapsed)
          PROVE  Stable
      <4>1. flushes[n] \in Seq(Flush)
        BY DEF TypeOK
      <4>2. flushes[n][k] \in Flush
        BY <4>1
      <4>3. flushes[n][k].to \in Node
        BY <4>2 DEF Flush
      <4> QED
        BY <2>1, <3>4, <4>3, SendPrivateMessageLasts DEF FlushOne
    <3> QED
      BY <2>5, <3>1, <3>2, <3>3, <3>4 DEF Step
  <2>6. CASE \E n, p \in Node, id \in Msg, elapsed \in BOOLEAN :
               Submit(n, p, id, elapsed)
    BY <2>1, <2>6, SendPrivateMessageLasts DEF Submit
  <2> QED
    BY <2>2, <2>4, <2>5, <2>6 DEF Next
<1> QED
  BY <1>1, TypeCorrect, AuthInvariant, LeaveInvariant, PTL
  DEF Spec, SessionStable, Excused

----------------------------------------------------------------------------
(* Each message is encrypted at most once                                  *)

(* A submitted message is in at most one place: one queue, one running     *)
(* flush or one encrypted packet.  EncryptedOnce alone is not inductive:   *)
(* a message queued twice, or both queued and in a flush, would still      *)
(* satisfy it.                                                             *)
Items(s) == {s[i] : i \in 1..Len(s)}
Distinct(s) == \A i, j \in 1..Len(s) : s[i] = s[j] => i = j

EncryptedPackets == {pkt \in emitted : pkt.type = "encrypted"}
EncryptedIds == {pkt.c.id : pkt \in EncryptedPackets}

Queued(n, p) == Items(pending_private_messages[n][p])
Flushing(n, k) == Items(flushes[n][k].msgs)

QueuesApart ==
    \A n, p \in Node :
      /\ Distinct(pending_private_messages[n][p])
      /\ \A x \in Queued(n, p) :
           /\ x \in submitted /\ x \notin EncryptedIds
           /\ \A m, q \in Node : x \in Queued(m, q) => m = n /\ q = p
           /\ \A m \in Node : \A k \in 1..Len(flushes[m]) : x \notin Flushing(m, k)

FlushesApart ==
    \A n \in Node : \A k \in 1..Len(flushes[n]) :
      /\ Distinct(flushes[n][k].msgs)
      /\ \A x \in Flushing(n, k) :
           /\ x \in submitted /\ x \notin EncryptedIds
           /\ \A m \in Node : \A l \in 1..Len(flushes[m]) :
                x \in Flushing(m, l) => m = n /\ l = k

OnceInv ==
    /\ QueuesApart
    /\ FlushesApart
    /\ EncryptedIds \subseteq submitted
    /\ EncryptedOnce

LEMMA AppendItems ==
    ASSUME NEW s \in Seq(Msg), NEW x \in Msg
    PROVE  /\ Items(Append(s, x)) = Items(s) \cup {x}
           /\ Distinct(s) /\ x \notin Items(s) => Distinct(Append(s, x))
<1> DEFINE t == Append(s, x)
<1>1. /\ Len(t) = Len(s) + 1 /\ Len(s) \in Nat
      /\ t[Len(s) + 1] = x /\ \A i \in 1..Len(s) : t[i] = s[i]
  OBVIOUS
<1> HIDE DEF t
<1>2. \A i \in 1..Len(t) : i \in 1..Len(s) \/ i = Len(s) + 1
  BY <1>1
<1>3. Len(s) + 1 \in 1..Len(t) /\ \A i \in 1..Len(s) : i \in 1..Len(t)
  BY <1>1
<1>4. Items(t) = Items(s) \cup {x}
  BY <1>1, <1>2, <1>3 DEF Items
<1>5. ASSUME Distinct(s), x \notin Items(s) PROVE Distinct(t)
  <2>1. \A i \in 1..Len(s) : s[i] # x
    BY <1>5 DEF Items
  <2> QED
    BY <1>1, <1>2, <1>5, <2>1 DEF Distinct
<1> QED
  BY <1>4, <1>5 DEF t

LEMMA TailItems ==
    ASSUME NEW s \in Seq(Msg), s # <<>>, Distinct(s)
    PROVE  /\ Head(s) \in Items(s)
           /\ Items(Tail(s)) = Items(s) \ {Head(s)}
           /\ Distinct(Tail(s))
<1> DEFINE t == Tail(s)
<1>1. /\ Len(s) \in Nat /\ Len(s) > 0 /\ Len(t) = Len(s) - 1
      /\ Head(s) = s[1] /\ \A i \in 1..Len(t) : t[i] = s[i + 1]
  OBVIOUS
<1> HIDE DEF t
<1>2. \A i \in 2..Len(s) : i - 1 \in 1..Len(t) /\ t[i - 1] = s[i]
  BY <1>1
<1>3. Items(t) = Items(s) \ {s[1]}
  BY <1>1, <1>2 DEF Items, Distinct
<1>4. Distinct(t)
  BY <1>1 DEF Distinct
<1>5. s[1] \in Items(s)
  BY <1>1 DEF Items
<1> QED
  BY <1>1, <1>3, <1>4, <1>5 DEF t

LEMMA EmptyItems == Items(<<>>) = {} /\ Distinct(<<>>)
BY DEF Items, Distinct

(* What has to be shown of the queues and of the flushes after a step.     *)
LEMMA QueuesApartNext ==
    ASSUME \A n, p \in Node : Distinct(pending_private_messages'[n][p]),
           \A n, p \in Node : \A x \in Items(pending_private_messages'[n][p]) :
             /\ x \in submitted' /\ x \notin EncryptedIds'
             /\ \A m, q \in Node : x \in Items(pending_private_messages'[m][q])
                                     => m = n /\ q = p
             /\ \A m \in Node : \A k \in 1..Len(flushes'[m]) :
                  x \notin Items(flushes'[m][k].msgs)
    PROVE  QueuesApart'
BY DEF QueuesApart, Queued, Flushing

LEMMA FlushesApartNext ==
    ASSUME \A n \in Node : \A k \in 1..Len(flushes'[n]) :
             Distinct(flushes'[n][k].msgs),
           \A n \in Node : \A k \in 1..Len(flushes'[n]) :
             \A x \in Items(flushes'[n][k].msgs) :
               /\ x \in submitted' /\ x \notin EncryptedIds'
               /\ \A m \in Node : \A l \in 1..Len(flushes'[m]) :
                    x \in Items(flushes'[m][l].msgs) => m = n /\ l = k
    PROVE  FlushesApart'
BY DEF FlushesApart, Flushing

LEMMA EncryptedSame ==
    ASSUME emitted' = emitted \/ \E pkt : /\ emitted' = emitted \cup {pkt}
                                          /\ pkt.type # "encrypted"
    PROVE  /\ EncryptedIds' = EncryptedIds
           /\ EncryptedOnce => EncryptedOnce'
<1>1. EncryptedPackets' = EncryptedPackets
  BY DEF EncryptedPackets
<1> QED
  BY <1>1 DEF EncryptedPackets, EncryptedIds, EncryptedOnce

(* Queues stay or are dropped, nothing else moves.                         *)
LEMMA DropOnce ==
    ASSUME OnceInv,
           emitted' = emitted \/ \E pkt : /\ emitted' = emitted \cup {pkt}
                                          /\ pkt.type # "encrypted",
           flushes' = flushes, submitted' = submitted,
           \A a, b \in Node :
             \/ pending_private_messages'[a][b] = pending_private_messages[a][b]
             \/ pending_private_messages'[a][b] = <<>>
    PROVE  OnceInv'
<1>1. EncryptedIds' = EncryptedIds /\ EncryptedOnce'
  BY EncryptedSame DEF OnceInv
<1>2. \A a, b \in Node :
        /\ Items(pending_private_messages'[a][b]) \subseteq Queued(a, b)
        /\ Distinct(pending_private_messages'[a][b])
  BY EmptyItems DEF OnceInv, QueuesApart, Queued
<1>3. QueuesApart'
  <2>1. QueuesApart
    BY DEF OnceInv
  <2> QED
    BY <1>1, <1>2, <2>1, QueuesApartNext DEF QueuesApart, Flushing
<1>4. FlushesApart'
  <2>1. FlushesApart
    BY DEF OnceInv
  <2>2. ASSUME NEW n \in Node, NEW k \in 1..Len(flushes'[n])
        PROVE  Distinct(flushes'[n][k].msgs)
    BY <2>1 DEF FlushesApart
  <2>3. ASSUME NEW n \in Node, NEW k \in 1..Len(flushes'[n]),
               NEW x \in Items(flushes'[n][k].msgs)
        PROVE  /\ x \in submitted' /\ x \notin EncryptedIds'
               /\ \A m \in Node : \A l \in 1..Len(flushes'[m]) :
                    x \in Items(flushes'[m][l].msgs) => m = n /\ l = k
    BY <1>1, <2>1 DEF FlushesApart, Flushing
  <2> QED
    BY <2>2, <2>3, FlushesApartNext
<1> QED
  BY <1>1, <1>3, <1>4 DEF OnceInv

LEMMA QuietOnce ==
    ASSUME OnceInv,
           emitted' = emitted \/ \E pkt : /\ emitted' = emitted \cup {pkt}
                                          /\ pkt.type # "encrypted",
           UNCHANGED <<pending_private_messages, flushes, submitted>>
    PROVE  OnceInv'
BY DropOnce

(* A queue becomes a flush.                                                *)
LEMMA TakePendingOnce ==
    ASSUME TypeOK, OnceInv, NEW n \in Node, NEW p \in Node, TakePending(n, p),
           submitted' = submitted,
           emitted' = emitted \/ \E pkt : /\ emitted' = emitted \cup {pkt}
                                          /\ pkt.type # "encrypted"
    PROVE  OnceInv'
<1> DEFINE q == pending_private_messages[n][p]
           f == [to |-> p, msgs |-> q]
           L == Len(flushes[n])
<1>1. CASE UNCHANGED <<flushes, pending_private_messages>>
  BY <1>1, QuietOnce
<1>2. CASE /\ flushes' = [flushes EXCEPT ![n] = Append(flushes[n], f)]
           /\ pending_private_messages' =
                [pending_private_messages EXCEPT ![n][p] = <<>>]
  <2>0. f.msgs = q
    OBVIOUS
  <2> HIDE DEF f
  <2>1. /\ flushes \in [Node -> Seq(Flush)]
        /\ pending_private_messages \in [Node -> [Node -> Seq(Msg)]]
    BY DEF TypeOK
  <2>2. /\ \A a \in Node : a # n => flushes'[a] = flushes[a]
        /\ flushes'[n] = Append(flushes[n], f)
        /\ flushes[n] \in Seq(Flush)
    BY <1>2, <2>1
  <2>3. /\ L \in Nat /\ Len(flushes'[n]) = L + 1
        /\ flushes'[n][L + 1] = f
        /\ \A k \in 1..L : flushes'[n][k] = flushes[n][k]
    BY <2>2
  <2>4. \A k \in 1..Len(flushes'[n]) :
          \/ k \in 1..L /\ flushes'[n][k] = flushes[n][k]
          \/ k = L + 1 /\ flushes'[n][k] = f
    <3> HIDE DEF L
    <3> QED
      BY <2>3
  <2>5. \A a, b \in Node : pending_private_messages'[a][b] =
          IF a = n /\ b = p THEN <<>> ELSE pending_private_messages[a][b]
    BY <1>2, <2>1
  <2>6. EncryptedIds' = EncryptedIds /\ EncryptedOnce'
    BY EncryptedSame DEF OnceInv
  <2>7. QueuesApart /\ FlushesApart
    BY DEF OnceInv
  <2>8. Items(f.msgs) = Queued(n, p) /\ Distinct(f.msgs)
    BY <2>0, <2>7 DEF Queued, QueuesApart
  <2> HIDE DEF q
  <2>9. \A a, b \in Node :
          /\ Distinct(pending_private_messages'[a][b])
          /\ \A x \in Items(pending_private_messages'[a][b]) :
               x \in Queued(a, b) /\ ~(a = n /\ b = p)
    BY <2>5, <2>7, EmptyItems DEF QueuesApart, Queued
  <2>10. \A a \in Node : \A k \in 1..Len(flushes'[a]) :
          \/ /\ k \in 1..Len(flushes[a])
             /\ Items(flushes'[a][k].msgs) = Flushing(a, k)
             /\ Distinct(flushes'[a][k].msgs)
          \/ /\ a = n /\ k = L + 1
             /\ Items(flushes'[a][k].msgs) = Queued(n, p)
             /\ Distinct(flushes'[a][k].msgs)
    BY <2>2, <2>4, <2>7, <2>8 DEF Flushing, FlushesApart
  <2> HIDE DEF L
  <2>11. QueuesApart'
    <3>1. ASSUME NEW a \in Node, NEW b \in Node,
                 NEW x \in Items(pending_private_messages'[a][b])
          PROVE  /\ x \in submitted' /\ x \notin EncryptedIds'
                 /\ \A m, r \in Node :
                      x \in Items(pending_private_messages'[m][r])
                        => m = a /\ r = b
                 /\ \A m \in Node : \A k \in 1..Len(flushes'[m]) :
                      x \notin Items(flushes'[m][k].msgs)
      <4>1. x \in Queued(a, b) /\ ~(a = n /\ b = p)
        BY <2>9
      <4>2. /\ x \in submitted /\ x \notin EncryptedIds
            /\ \A m, r \in Node : x \in Queued(m, r) => m = a /\ r = b
            /\ \A m \in Node : \A k \in 1..Len(flushes[m]) : x \notin Flushing(m, k)
        BY <2>7, <4>1 DEF QueuesApart
      <4> QED
        BY <2>6, <2>9, <2>10, <4>1, <4>2
    <3> QED
      BY <2>9, <3>1, QueuesApartNext
  <2>12. FlushesApart'
    <3>1. ASSUME NEW a \in Node, NEW k \in 1..Len(flushes'[a]),
                 NEW x \in Items(flushes'[a][k].msgs)
          PROVE  /\ x \in submitted' /\ x \notin EncryptedIds'
                 /\ \A m \in Node : \A l \in 1..Len(flushes'[m]) :
                      x \in Items(flushes'[m][l].msgs) => m = a /\ l = k
      <4>1. CASE a = n /\ k = L + 1 /\ x \in Queued(n, p)
        <5>1. /\ x \in submitted /\ x \notin EncryptedIds
              /\ \A m \in Node : \A l \in 1..Len(flushes[m]) : x \notin Flushing(m, l)
          BY <2>7, <4>1 DEF QueuesApart
        <5> QED
          BY <2>6, <2>10, <4>1, <5>1
      <4>2. CASE k \in 1..Len(flushes[a]) /\ x \in Flushing(a, k)
        <5>1. /\ x \in submitted /\ x \notin EncryptedIds
              /\ \A m \in Node : \A l \in 1..Len(flushes[m]) :
                   x \in Flushing(m, l) => m = a /\ l = k
          BY <2>7, <4>2 DEF FlushesApart
        <5>2. x \notin Queued(n, p)
          BY <2>7, <4>2 DEF QueuesApart
        <5> QED
          BY <2>6, <2>10, <4>2, <5>1, <5>2
      <4> QED
        BY <2>10, <4>1, <4>2
    <3> QED
      BY <2>10, <3>1, FlushesApartNext
  <2> QED
    BY <2>6, <2>11, <2>12 DEF OnceInv
<1> QED
  BY <1>1, <1>2 DEF TakePending

(* A message that is in no queue and no longer in a flush is queued or     *)
(* encrypted.                                                              *)
LEMMA HandOverOnce ==
    ASSUME TypeOK, OnceInv, NEW n \in Node, NEW p \in Node, NEW x \in Msg,
           NEW elapsed, SendPrivateMessage(n, p, x, elapsed),
           submitted' = submitted \cup {x},
           \A a, b \in Node : x \notin Queued(a, b),
           x \notin EncryptedIds,
           \A a \in Node : \A k \in 1..Len(flushes'[a]) :
             /\ k \in 1..Len(flushes[a])
             /\ Distinct(flushes'[a][k].msgs)
             /\ x \notin Items(flushes'[a][k].msgs)
             /\ Items(flushes'[a][k].msgs) \subseteq Flushing(a, k)
    PROVE  OnceInv'
<1>1. QueuesApart /\ FlushesApart
  BY DEF OnceInv
<1>a. \A a, b \in Node : \A y \in Queued(a, b) :
        /\ y # x /\ y \in submitted' /\ y \notin EncryptedIds
        /\ \A m, r \in Node : y \in Queued(m, r) => m = a /\ r = b
        /\ \A m \in Node : \A k \in 1..Len(flushes[m]) : y \notin Flushing(m, k)
  BY <1>1 DEF QueuesApart
<1>b. \A y : \A m \in Node : \A k \in 1..Len(flushes'[m]) :
        y \in Items(flushes'[m][k].msgs) =>
          y # x /\ k \in 1..Len(flushes[m]) /\ y \in Flushing(m, k)
  OBVIOUS
<1>c. \A a \in Node : \A k \in 1..Len(flushes'[a]) :
        \A y \in Items(flushes'[a][k].msgs) :
          /\ y \in submitted' /\ y \notin EncryptedIds /\ y # x
          /\ \A m \in Node : \A l \in 1..Len(flushes'[m]) :
               y \in Items(flushes'[m][l].msgs) => m = a /\ l = k
  <2> SUFFICES ASSUME NEW a \in Node, NEW k \in 1..Len(flushes'[a]),
                      NEW y \in Items(flushes'[a][k].msgs)
               PROVE  /\ y \in submitted' /\ y \notin EncryptedIds /\ y # x
                      /\ \A m \in Node : \A l \in 1..Len(flushes'[m]) :
                           y \in Items(flushes'[m][l].msgs) => m = a /\ l = k
    OBVIOUS
  <2>1. y # x /\ k \in 1..Len(flushes[a]) /\ y \in Flushing(a, k)
    BY <1>b
  <2>2. /\ y \in submitted /\ y \notin EncryptedIds
        /\ \A m \in Node : \A l \in 1..Len(flushes[m]) :
             y \in Flushing(m, l) => m = a /\ l = k
    BY <1>1, <2>1 DEF FlushesApart
  <2> QED
    BY <1>b, <2>1, <2>2
<1>2. CASE Established(n, p)
  <2> DEFINE out == [type |-> "encrypted", src |-> n, dst |-> p,
                     c |-> Sealed(n, p, x)]
  <2>1. /\ emitted' = emitted \cup {out}
        /\ pending_private_messages' = pending_private_messages
    BY <1>2 DEF SendPrivateMessage, SendToPeer
  <2>2. out.type = "encrypted" /\ out.c.id = x
    BY DEF Sealed
  <2> HIDE DEF out
  <2>3. EncryptedPackets' = EncryptedPackets \cup {out}
    BY <2>1, <2>2 DEF EncryptedPackets
  <2>4. EncryptedIds' = EncryptedIds \cup {x}
    BY <2>2, <2>3 DEF EncryptedIds
  <2>5. EncryptedOnce'
    <3>1. \A y \in EncryptedPackets : y.c.id # x
      BY DEF EncryptedIds
    <3>2. \A y, z \in EncryptedPackets : y.c.id = z.c.id => y = z
      BY DEF OnceInv, EncryptedOnce, EncryptedPackets
    <3>3. \A y, z \in EncryptedPackets' : y.c.id = z.c.id => y = z
      BY <2>2, <2>3, <3>1, <3>2
    <3> QED
      BY <3>3 DEF EncryptedOnce, EncryptedPackets
  <2>6. QueuesApart'
    <3>1. \A a, b \in Node : /\ Distinct(pending_private_messages'[a][b])
                             /\ Items(pending_private_messages'[a][b]) = Queued(a, b)
      BY <1>1, <2>1 DEF QueuesApart, Queued
    <3>2. ASSUME NEW a \in Node, NEW b \in Node,
                 NEW y \in Items(pending_private_messages'[a][b])
          PROVE  /\ y \in submitted' /\ y \notin EncryptedIds'
                 /\ \A m, r \in Node :
                      y \in Items(pending_private_messages'[m][r])
                        => m = a /\ r = b
                 /\ \A m \in Node : \A k \in 1..Len(flushes'[m]) :
                      y \notin Items(flushes'[m][k].msgs)
      BY <1>a, <1>b, <2>4, <3>1
    <3> QED
      BY <3>1, <3>2, QueuesApartNext
  <2>7. FlushesApart'
    <3>1. ASSUME NEW a \in Node, NEW k \in 1..Len(flushes'[a])
          PROVE  Distinct(flushes'[a][k].msgs)
      OBVIOUS
    <3>2. ASSUME NEW a \in Node, NEW k \in 1..Len(flushes'[a]),
                 NEW y \in Items(flushes'[a][k].msgs)
          PROVE  /\ y \in submitted' /\ y \notin EncryptedIds'
                 /\ \A m \in Node : \A l \in 1..Len(flushes'[m]) :
                      y \in Items(flushes'[m][l].msgs) => m = a /\ l = k
      <4>1. /\ y \in submitted' /\ y \notin EncryptedIds /\ y # x
            /\ \A m \in Node : \A l \in 1..Len(flushes'[m]) :
                 y \in Items(flushes'[m][l].msgs) => m = a /\ l = k
        BY <1>c
      <4>2. y \notin EncryptedIds'
        BY <2>4, <4>1
      <4> QED
        BY <4>1, <4>2
    <3> QED
      BY <3>1, <3>2, FlushesApartNext
  <2> QED
    BY <2>4, <2>5, <2>6, <2>7 DEF OnceInv
<1>3. CASE ~Established(n, p)
  <2> DEFINE q == pending_private_messages[n][p]
  <2>1. /\ pending_private_messages' =
             [pending_private_messages EXCEPT ![n][p] = Append(q, x)]
        /\ emitted' = emitted \/ \E pkt : /\ emitted' = emitted \cup {pkt}
                                          /\ pkt.type # "encrypted"
    <3> DEFINE out == [type |-> "init", src |-> n, dst |-> p,
                       m |-> [kind |-> "m1", i |-> <<n, eph[n] + 1>>,
                              r |-> Garbage(p)]]
    <3>1. ASSUME InitiateHandshake(n, p)
          PROVE  \E pkt : emitted' = emitted \cup {pkt} /\ pkt.type # "encrypted"
      <4>1. emitted' = emitted \cup {out} /\ out.type # "encrypted"
        BY <3>1 DEF InitiateHandshake, SendToPeer
      <4> HIDE DEF out
      <4> QED
        BY <4>1
    <3> QED
      BY <1>3, <3>1 DEF SendPrivateMessage
  <2>2. EncryptedIds' = EncryptedIds /\ EncryptedOnce'
    BY <2>1, EncryptedSame DEF OnceInv
  <2>3. pending_private_messages \in [Node -> [Node -> Seq(Msg)]]
    BY DEF TypeOK
  <2>4. /\ Items(Append(q, x)) = Queued(n, p) \cup {x}
        /\ Distinct(Append(q, x))
    BY <1>1, <2>3, AppendItems DEF QueuesApart, Queued
  <2>5. \A a, b \in Node : pending_private_messages'[a][b] =
          IF a = n /\ b = p THEN Append(q, x) ELSE pending_private_messages[a][b]
    BY <2>1, <2>3
  <2>6. \A a, b \in Node :
          /\ Distinct(pending_private_messages'[a][b])
          /\ \A y : y \in Items(pending_private_messages'[a][b]) <=>
                    y \in Queued(a, b) \/ (y = x /\ a = n /\ b = p)
    BY <1>1, <2>4, <2>5 DEF QueuesApart, Queued
  <2>7. QueuesApart'
    <3>1. ASSUME NEW a \in Node, NEW b \in Node,
                 NEW y \in Items(pending_private_messages'[a][b])
          PROVE  /\ y \in submitted' /\ y \notin EncryptedIds'
                 /\ \A m, r \in Node :
                      y \in Items(pending_private_messages'[m][r])
                        => m = a /\ r = b
                 /\ \A m \in Node : \A k \in 1..Len(flushes'[m]) :
                      y \notin Items(flushes'[m][k].msgs)
      <4>1. CASE y = x
        <5>1. \A m, r \in Node : x \in Items(pending_private_messages'[m][r])
                => m = n /\ r = p
          BY <2>6
        <5> QED
          BY <1>b, <2>2, <4>1, <5>1
      <4>2. CASE y # x
        <5>1. \A m, r \in Node : y \in Items(pending_private_messages'[m][r])
                => y \in Queued(m, r)
          BY <2>6, <4>2
        <5>2. y \in Queued(a, b)
          BY <5>1
        <5>3. /\ y \in submitted' /\ y \notin EncryptedIds'
              /\ \A m, r \in Node : y \in Queued(m, r) => m = a /\ r = b
              /\ \A m \in Node : \A k \in 1..Len(flushes[m]) :
                   y \notin Flushing(m, k)
          BY <1>a, <2>2, <5>2
        <5> QED
          BY <1>b, <5>1, <5>3
      <4> QED
        BY <4>1, <4>2
    <3> QED
      BY <2>6, <3>1, QueuesApartNext
  <2>8. FlushesApart'
    <3>1. ASSUME NEW a \in Node, NEW k \in 1..Len(flushes'[a])
          PROVE  Distinct(flushes'[a][k].msgs)
      OBVIOUS
    <3>2. ASSUME NEW a \in Node, NEW k \in 1..Len(flushes'[a]),
                 NEW y \in Items(flushes'[a][k].msgs)
          PROVE  /\ y \in submitted' /\ y \notin EncryptedIds'
                 /\ \A m \in Node : \A l \in 1..Len(flushes'[m]) :
                      y \in Items(flushes'[m][l].msgs) => m = a /\ l = k
      BY <1>c, <2>2
    <3> QED
      BY <3>1, <3>2, FlushesApartNext
  <2> QED
    BY <2>2, <2>7, <2>8 DEF OnceInv
<1> QED
  BY <1>2, <1>3

LEMMA SubmitOnce ==
    ASSUME TypeOK, OnceInv, NEW n \in Node, NEW p \in Node, NEW id \in Msg,
           NEW elapsed, Submit(n, p, id, elapsed)
    PROVE  OnceInv'
<1>1. /\ id \notin submitted /\ submitted' = submitted \cup {id}
      /\ SendPrivateMessage(n, p, id, elapsed) /\ flushes' = flushes
  BY DEF Submit
<1>2. /\ \A a, b \in Node : id \notin Queued(a, b)
      /\ id \notin EncryptedIds
  BY <1>1 DEF OnceInv, QueuesApart
<1>3. \A a \in Node : \A k \in 1..Len(flushes[a]) :
        Distinct(flushes[a][k].msgs) /\ id \notin Flushing(a, k)
  BY <1>1 DEF OnceInv, FlushesApart
<1>4. \A a \in Node : \A k \in 1..Len(flushes'[a]) :
        /\ k \in 1..Len(flushes[a])
        /\ Distinct(flushes'[a][k].msgs)
        /\ id \notin Items(flushes'[a][k].msgs)
        /\ Items(flushes'[a][k].msgs) \subseteq Flushing(a, k)
  BY <1>1, <1>3 DEF Flushing
<1> QED
  BY <1>1, <1>2, <1>4, HandOverOnce

LEMMA FlushOneOnce ==
    ASSUME TypeOK, OnceInv, NEW n \in Node, NEW k \in 1..Len(flushes[n]),
           NEW elapsed, FlushOne(n, k, elapsed)
    PROVE  /\ OnceInv'
           /\ submitted # {}
<1> DEFINE f == flushes[n][k]
           x == Head(f.msgs)
           rest == [to |-> f.to, msgs |-> Tail(f.msgs)]
<1>1. /\ f.msgs # <<>>
      /\ flushes' = [flushes EXCEPT ![n][k] = rest]
      /\ SendPrivateMessage(n, f.to, x, elapsed)
      /\ submitted' = submitted
  BY DEF FlushOne
<1>2. flushes \in [Node -> Seq(Flush)] /\ flushes[n] \in Seq(Flush)
  BY DEF TypeOK
<1>3. f \in Flush
  BY <1>2
<1>4. f.to \in Node /\ f.msgs \in Seq(Msg)
  BY <1>3 DEF Flush
<1>5. QueuesApart /\ FlushesApart
  BY DEF OnceInv
<1>6. Distinct(f.msgs)
  BY <1>5 DEF FlushesApart
<1>7. /\ x \in Items(f.msgs)
      /\ Items(rest.msgs) = Items(f.msgs) \ {x}
      /\ Distinct(rest.msgs)
  BY <1>1, <1>4, <1>6, TailItems
<1>8. x \in Msg
  BY <1>1, <1>4
<1>9. x \in Flushing(n, k)
  BY <1>7 DEF Flushing
<1>10. /\ x \in submitted /\ x \notin EncryptedIds
       /\ \A m \in Node : \A l \in 1..Len(flushes[m]) :
            x \in Flushing(m, l) => m = n /\ l = k
  BY <1>5, <1>9 DEF FlushesApart
<1>11. \A a, b \in Node : x \notin Queued(a, b)
  BY <1>5, <1>9 DEF QueuesApart
<1>12. Items(f.msgs) = Flushing(n, k)
  BY DEF Flushing
<1> HIDE DEF x, rest, f
<1>13. /\ \A a \in Node : a # n => flushes'[a] = flushes[a]
       /\ flushes'[n] = [flushes[n] EXCEPT ![k] = rest]
  BY <1>1, <1>2
<1>14. /\ Len(flushes'[n]) = Len(flushes[n])
       /\ \A l \in 1..Len(flushes[n]) :
            flushes'[n][l] = IF l = k THEN rest ELSE flushes[n][l]
  BY <1>2, <1>13
<1>15. \A a \in Node : \A l \in 1..Len(flushes'[a]) :
         /\ l \in 1..Len(flushes[a])
         /\ Distinct(flushes'[a][l].msgs)
         /\ x \notin Items(flushes'[a][l].msgs)
         /\ Items(flushes'[a][l].msgs) \subseteq Flushing(a, l)
  <2> SUFFICES ASSUME NEW a \in Node, NEW l \in 1..Len(flushes'[a])
               PROVE  /\ l \in 1..Len(flushes[a])
                      /\ Distinct(flushes'[a][l].msgs)
                      /\ x \notin Items(flushes'[a][l].msgs)
                      /\ Items(flushes'[a][l].msgs) \subseteq Flushing(a, l)
    OBVIOUS
  <2>1. l \in 1..Len(flushes[a])
    BY <1>13, <1>14
  <2>2. CASE a = n /\ l = k
    <3>1. flushes'[a][l] = rest
      BY <1>14, <2>1, <2>2
    <3> QED
      BY <1>7, <1>12, <2>1, <2>2, <3>1
  <2>3. CASE ~(a = n /\ l = k)
    <3>1. flushes'[a][l] = flushes[a][l]
      BY <1>13, <1>14, <2>1, <2>3
    <3>2. Distinct(flushes[a][l].msgs) /\ x \notin Flushing(a, l)
      BY <1>5, <1>10, <2>1, <2>3 DEF FlushesApart
    <3> QED
      BY <2>1, <3>1, <3>2 DEF Flushing
  <2> QED
    BY <2>2, <2>3
<1>16. submitted' = submitted \cup {x}
  BY <1>1, <1>10
<1>17. SendPrivateMessage(n, f.to, x, elapsed)
  BY <1>1
<1> QED
  BY <1>4, <1>8, <1>10, <1>11, <1>15, <1>16, <1>17, HandOverOnce

LEMMA RemovePeerOnce ==
    ASSUME TypeOK, OnceInv, NEW n \in Node, NEW p \in Node, RemovePeer(n, p),
           UNCHANGED <<flushes, submitted, emitted>>
    PROVE  OnceInv'
<1>1. /\ pending_private_messages' =
           [pending_private_messages EXCEPT ![n][p] = <<>>]
      /\ pending_private_messages \in [Node -> [Node -> Seq(Msg)]]
  BY DEF RemovePeer, TypeOK
<1>2. \A a, b \in Node :
        \/ pending_private_messages'[a][b] = pending_private_messages[a][b]
        \/ pending_private_messages'[a][b] = <<>>
  BY <1>1
<1> QED
  BY <1>2, DropOnce

LEMMA LeaveStepOnce ==
    ASSUME TypeOK, OnceInv, NEW n \in Node
    PROVE  /\ SendLeave(n) => OnceInv'
           /\ HandleLeave(n) => OnceInv'
<1>1. ASSUME SendLeave(n) PROVE OnceInv'
  <2>1. emitted' = emitted \cup {Leave(n)} /\ Leave(n).type # "encrypted"
    BY <1>1 DEF SendLeave, Leave
  <2> QED
    BY <1>1, <2>1, QuietOnce DEF SendLeave, pendingVars, deliveryVars
<1>2. ASSUME HandleLeave(n) PROVE OnceInv'
  <2>1. UNCHANGED <<flushes, submitted, emitted>>
    BY <1>2 DEF HandleLeave, deliveryVars
  <2>2. Head(ready[n]).src \in Node
    BY <1>2, RunsType DEF HandleLeave
  <2> QED
    BY <1>2, <2>1, <2>2, RemovePeerOnce, QuietOnce DEF HandleLeave
<1> QED
  BY <1>1, <1>2

LEMMA LinkStepOnce ==
    ASSUME TypeOK, OnceInv
    PROVE  /\ \A c \in Conn : Connect(c) => OnceInv'
           /\ \A n \in Node, c \in Conn : ConnectionLost(n, c) => OnceInv'
           /\ \A n \in Node, c \in Conn : SendIdentityAnnounce(n, c) => OnceInv'
           /\ \A n \in Node, c \in Conn : Receive(n, c) => OnceInv'
<1>1. ASSUME NEW c \in Conn, Connect(c) PROVE OnceInv'
  BY <1>1, QuietOnce DEF Connect, pendingVars, deliveryVars
<1>2. ASSUME NEW n \in Node, NEW c \in Conn, ConnectionLost(n, c)
      PROVE  OnceInv'
  <2>1. flushes' = flushes /\ submitted' = submitted /\ emitted' = emitted
    BY <1>2 DEF ConnectionLost, deliveryVars
  <2>2. ASSUME NEW p \in Node, RemovePeer(n, p) PROVE OnceInv'
    BY <2>1, <2>2, RemovePeerOnce
  <2> QED
    BY <1>2, <2>1, <2>2, QuietOnce DEF ConnectionLost
<1>3. ASSUME NEW n \in Node, NEW c \in Conn, SendIdentityAnnounce(n, c)
      PROVE  OnceInv'
  <2> DEFINE pkt == [type |-> "announce", src |-> n]
  <2>1. emitted' = emitted \cup {pkt} /\ pkt.type # "encrypted"
    BY <1>3 DEF SendIdentityAnnounce
  <2> QED
    BY <1>3, <2>1, QuietOnce DEF SendIdentityAnnounce, pendingVars, deliveryVars
<1>4. ASSUME NEW n \in Node, NEW c \in Conn, Receive(n, c) PROVE OnceInv'
  BY <1>4, QuietOnce DEF Receive, pendingVars, deliveryVars
<1> QED
  BY <1>1, <1>2, <1>3, <1>4

LEMMA HandleOnce ==
    ASSUME TypeOK, OnceInv, NEW n \in Node, Handle(n)
    PROVE  OnceInv'
<1> DEFINE pkt == Head(ready[n])
           p == pkt.src
           Plain == emitted' = emitted \/ \E x : /\ emitted' = emitted \cup {x}
                                                 /\ x.type # "encrypted"
<1>1. p \in Node
  BY RunsType DEF Handle, HandleIdentityAnnounce, StartAsResponder,
     FinishAsInitiator, FinishAsResponder, HandshakeFails,
     HandleNoiseEncrypted, HandleDeliveryAck, HandleLeave
<1>2. \A m : Answer(n, pkt, m).type # "encrypted"
  BY DEF Answer
<1>3. CASE HandleIdentityAnnounce(n)
  <2>1. InitiateHandshake(n, p) => Plain
    BY DEF InitiateHandshake, SendToPeer
  <2>2. Plain
    BY <1>3, <2>1 DEF HandleIdentityAnnounce
  <2>3. UNCHANGED <<pending_private_messages, flushes, submitted>>
    BY <1>3 DEF HandleIdentityAnnounce, pendingVars, deliveryVars
  <2> QED
    BY <2>2, <2>3, QuietOnce
<1>4. CASE StartAsResponder(n) \/ FinishAsInitiator(n) \/ FinishAsResponder(n)
  <2>1. Plain
    BY <1>2, <1>4 DEF StartAsResponder, FinishAsInitiator, FinishAsResponder,
                      SendToPeer
  <2>2. AfterHandshake(n, p) /\ submitted' = submitted
    BY <1>4 DEF StartAsResponder, FinishAsInitiator, FinishAsResponder,
                deliveryVars
  <2>3. \/ UNCHANGED <<flushes, pending_private_messages>>
        \/ TakePending(n, p)
    BY <2>2 DEF AfterHandshake
  <2> HIDE DEF p
  <2> QED
    BY <1>1, <2>1, <2>2, <2>3, QuietOnce, TakePendingOnce
<1>5. CASE HandshakeFails(n) \/ HandleDeliveryAck(n)
  BY <1>5, QuietOnce DEF HandshakeFails, HandleDeliveryAck, pendingVars,
                         deliveryVars
<1>6. CASE HandleNoiseEncrypted(n)
  <2>1. Plain
    BY <1>6 DEF HandleNoiseEncrypted, SendToPeer
  <2>2. UNCHANGED <<pending_private_messages, flushes, submitted>>
    BY <1>6 DEF HandleNoiseEncrypted, pendingVars
  <2> QED
    BY <2>1, <2>2, QuietOnce
<1>7. CASE HandleLeave(n)
  BY <1>7, LeaveStepOnce
<1> QED
  BY <1>3, <1>4, <1>5, <1>6, <1>7 DEF Handle

LEMMA SeqDomain ==
    ASSUME TypeOK, NEW n \in Node
    PROVE  DOMAIN flushes[n] = 1..Len(flushes[n])
<1>1. flushes[n] \in Seq(Flush)
  BY DEF TypeOK
<1> QED
  BY <1>1

(* Every message is in one place at most, whatever the nodes do.           *)
THEOREM OnceInvariant == Spec => []OnceInv
<1>1. Init => OnceInv
  <2> SUFFICES ASSUME Init PROVE OnceInv
    OBVIOUS
  <2>1. EncryptedPackets = {} /\ EncryptedIds = {} /\ EncryptedOnce
    BY DEF Init, EncryptedPackets, EncryptedIds, EncryptedOnce
  <2>2. \A n, p \in Node : pending_private_messages[n][p] = <<>>
    BY DEF Init
  <2>3. \A n \in Node : Len(flushes[n]) = 0
    BY DEF Init
  <2>4. QueuesApart
    BY <2>2, EmptyItems DEF QueuesApart, Queued
  <2>5. FlushesApart
    BY <2>3 DEF FlushesApart
  <2> QED
    BY <2>1, <2>4, <2>5 DEF OnceInv
<1>2. TypeOK /\ OnceInv /\ [Next]_vars => OnceInv'
  <2> SUFFICES ASSUME TypeOK, OnceInv, [Next]_vars PROVE OnceInv'
    OBVIOUS
  <2>1. CASE UNCHANGED vars
    BY <2>1, QuietOnce DEF vars, pendingVars, deliveryVars
  <2>2. CASE \E c \in Conn : Connect(c)
    BY <2>2, LinkStepOnce
  <2>3. CASE \E n \in Node, c \in Conn : ConnectionLost(n, c)
    BY <2>3, LinkStepOnce
  <2>4. ASSUME NEW n \in Node, Step(n) PROVE OnceInv'
    <3>1. CASE \E c \in Conn : Receive(n, c) \/ SendIdentityAnnounce(n, c)
      BY <3>1, LinkStepOnce
    <3>2. CASE Handle(n)
      BY <3>2, HandleOnce
    <3>3. ASSUME NEW p \in Node, StartFlush(n, p) PROVE OnceInv'
      BY <3>3, TakePendingOnce DEF StartFlush, deliveryVars
    <3>4. CASE \E k \in DOMAIN flushes[n], elapsed \in BOOLEAN :
                 FlushOne(n, k, elapsed)
      BY <3>4, SeqDomain, FlushOneOnce
    <3> QED
      BY <2>4, <3>1, <3>2, <3>3, <3>4 DEF Step
  <2>5. CASE \E n, p \in Node, id \in Msg, elapsed \in BOOLEAN :
               Submit(n, p, id, elapsed)
    BY <2>5, SubmitOnce
  <2>6. CASE \E n \in Node : SendLeave(n)
    BY <2>6, LeaveStepOnce
  <2> QED
    BY <2>1, <2>2, <2>3, <2>4, <2>5, <2>6 DEF Next
<1> QED
  BY <1>1, <1>2, TypeCorrect, PTL DEF Spec

(* EncryptedOnce for any number of nodes and messages: although two tasks  *)
(* flush a queue and a flush may put messages back, no message is          *)
(* encrypted twice (mesh.py:174 and 372).                                  *)
THEOREM MessagesEncryptedOnce == Spec => []EncryptedOnce
BY OnceInvariant, PTL DEF OnceInv

----------------------------------------------------------------------------
(* The tie-breaker                                                         *)

(* Without submitted messages a node waits for a message 2 only from a     *)
(* peer with a higher id; that no message is left in a flush by then is    *)
(* OnceInv.                                                                *)
LowerInv ==
    submitted = {} => \A n, p \in Node :
      handshake_states[n][p].role = "initiator" => n < p

LEMMA LowerNext ==
    ASSUME TypeOK, LowerInv, submitted' = submitted,
           \/ handshake_states' = handshake_states
           \/ \E n, p \in Node : \E h :
                /\ h.role # "initiator" \/ n < p
                /\ handshake_states' = [handshake_states EXCEPT ![n][p] = h]
    PROVE  LowerInv'
<1>1. CASE handshake_states' = handshake_states
  BY <1>1 DEF LowerInv
<1>2. ASSUME NEW n \in Node, NEW p \in Node, NEW h,
             h.role # "initiator" \/ n < p,
             handshake_states' = [handshake_states EXCEPT ![n][p] = h]
      PROVE  LowerInv'
  <2>1. handshake_states \in [Node -> [Node -> HandshakeState]]
    BY DEF TypeOK
  <2>2. \A a, b \in Node : handshake_states'[a][b] =
          IF a = n /\ b = p THEN h ELSE handshake_states[a][b]
    BY <1>2, <2>1, EntryUpdate
  <2> QED
    BY <1>2, <2>2 DEF LowerInv
<1> QED
  BY <1>1, <1>2

LEMMA HandleLower ==
    ASSUME TypeOK, LowerInv, NEW n \in Node, Handle(n)
    PROVE  LowerInv'
<1> DEFINE p == Head(ready[n]).src
<1>1. p \in Node
  BY RunsType DEF Handle, HandleIdentityAnnounce, StartAsResponder,
     FinishAsInitiator, FinishAsResponder, HandshakeFails,
     HandleNoiseEncrypted, HandleDeliveryAck, HandleLeave
<1>2. CASE HandleIdentityAnnounce(n)
  <2>1. /\ submitted' = submitted
        /\ \/ handshake_states' = handshake_states
           \/ n < p /\ \E h : handshake_states' =
                [handshake_states EXCEPT ![n][p] = h]
    BY <1>2 DEF HandleIdentityAnnounce, Initiates, InitiateHandshake,
                deliveryVars
  <2> HIDE DEF p
  <2> QED
    BY <1>1, <2>1, LowerNext
<1>3. CASE StartAsResponder(n)
  <2>1. /\ submitted' = submitted
        /\ \E h : /\ h.role # "initiator"
                  /\ handshake_states' = [handshake_states EXCEPT ![n][p] = h]
    BY <1>3 DEF StartAsResponder, deliveryVars
  <2> HIDE DEF p
  <2> QED
    BY <1>1, <2>1, LowerNext
<1>4. CASE FinishAsInitiator(n) \/ FinishAsResponder(n) \/ HandshakeFails(n)
  <2>1. /\ submitted' = submitted
        /\ handshake_states' =
             [handshake_states EXCEPT ![n][p] = NoHandshake(n)]
    BY <1>4 DEF FinishAsInitiator, FinishAsResponder, HandshakeFails,
                deliveryVars
  <2>2. NoHandshake(n).role # "initiator"
    BY DEF NoHandshake
  <2> HIDE DEF p
  <2> QED
    BY <1>1, <2>1, <2>2, LowerNext
<1>5. CASE HandleNoiseEncrypted(n) \/ HandleDeliveryAck(n)
  BY <1>5, LowerNext DEF HandleNoiseEncrypted, HandleDeliveryAck
<1>6. CASE HandleLeave(n)
  <2>1. NoHandshake(n).role # "initiator"
    BY DEF NoHandshake
  <2>2. /\ submitted' = submitted
        /\ \/ handshake_states' = handshake_states
           \/ handshake_states' =
                [handshake_states EXCEPT ![n][p] = NoHandshake(n)]
    BY <1>6 DEF HandleLeave, RemovePeer, deliveryVars
  <2> HIDE DEF p
  <2> QED
    BY <1>1, <2>1, <2>2, LowerNext
<1> QED
  BY <1>2, <1>3, <1>4, <1>5, <1>6 DEF Handle

(* OneInitiator for any number of nodes: as long as no private message     *)
(* forces a handshake, two nodes are never both waiting for an answer to   *)
(* their own message 1 (mesh.py:332).                                      *)
THEOREM TieBreakerHolds == Spec => []OneInitiator
<1>1. Init => LowerInv
  BY DEF Init, LowerInv, NoHandshake
<1>2. TypeOK /\ OnceInv /\ LowerInv /\ [Next]_vars => LowerInv'
  <2> SUFFICES ASSUME TypeOK, OnceInv, LowerInv, [Next]_vars PROVE LowerInv'
    OBVIOUS
  <2>1. CASE UNCHANGED vars
    BY <2>1, LowerNext DEF vars, deliveryVars
  <2>2. CASE \E c \in Conn : Connect(c)
    BY <2>2, LowerNext DEF Connect, deliveryVars
  <2>3. ASSUME NEW n \in Node, NEW c \in Conn, ConnectionLost(n, c)
        PROVE  LowerInv'
    <3>1. NoHandshake(n).role # "initiator"
      BY DEF NoHandshake
    <3>2. /\ submitted' = submitted
          /\ \/ handshake_states' = handshake_states
             \/ \E p \in Node : handshake_states' =
                  [handshake_states EXCEPT ![n][p] = NoHandshake(n)]
      BY <2>3 DEF ConnectionLost, RemovePeer, deliveryVars
    <3> QED
      BY <3>1, <3>2, LowerNext
  <2>4. ASSUME NEW n \in Node, Step(n) PROVE LowerInv'
    <3>1. CASE \E c \in Conn : Receive(n, c) \/ SendIdentityAnnounce(n, c)
      BY <3>1, LowerNext DEF Receive, SendIdentityAnnounce, deliveryVars
    <3>2. CASE Handle(n)
      BY <3>2, HandleLower
    <3>3. CASE \E p \in Node : StartFlush(n, p)
      BY <3>3, LowerNext DEF StartFlush, deliveryVars
    <3>4. ASSUME NEW k \in DOMAIN flushes[n], NEW elapsed \in BOOLEAN,
                 FlushOne(n, k, elapsed)
          PROVE  LowerInv'
      <4>1. submitted # {} /\ submitted' = submitted
        BY <3>4, SeqDomain, FlushOneOnce DEF FlushOne
      <4> QED
        BY <4>1 DEF LowerInv
    <3> QED
      BY <2>4, <3>1, <3>2, <3>3, <3>4 DEF Step
  <2>5. CASE \E n, p \in Node, id \in Msg, elapsed \in BOOLEAN :
               Submit(n, p, id, elapsed)
    BY <2>5 DEF Submit, LowerInv
  <2>6. CASE \E n \in Node : SendLeave(n)
    BY <2>6, LowerNext DEF SendLeave, deliveryVars
  <2> QED
    BY <2>1, <2>2, <2>3, <2>4, <2>5, <2>6 DEF Next
<1>3. LowerInv => OneInitiator
  <2> SUFFICES ASSUME LowerInv, submitted = {}, NEW n \in Node, NEW p \in Node,
                      handshake_states[n][p].role = "initiator",
                      handshake_states[p][n].role = "initiator"
               PROVE  FALSE
    BY DEF OneInitiator
  <2>1. n < p /\ p < n
    BY DEF LowerInv
  <2> QED
    BY <2>1
<1> QED
  BY <1>1, <1>2, <1>3, TypeCorrect, OnceInvariant, PTL DEF Spec
=============================================================================

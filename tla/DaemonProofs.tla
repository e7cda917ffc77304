---------------------------- MODULE DaemonProofs ----------------------------
(* Machine-checked facts about three independent parts of the daemon.      *)
(* Flood, for any graph of nodes, any packets and any TTLs, with links     *)
(* that break: every message is taken once, nothing acts beyond its TTL,   *)
(* and flooding implements Broadcast.  Lifecycle, for any bootstrap list,  *)
(* any number of WebSocket clients and of signals: no connection of the    *)
(* start is silent, and run_forever returns saved.  Persistence, for       *)
(* any channels and nicknames and any number of restarts, failed saves and *)
(* crashes: what a save is to keep of the channels is on disk, and the     *)
(* node keeps its identity key.                                            *)
EXTENDS Flood, Lifecycle, Persistence, FiniteSetTheorems, TLAPS

(***************************************************************************)
(* Relaying: Flood                                                         *)
(***************************************************************************)
USE FloodAssumption

----------------------------------------------------------------------------
(* Distances                                                               *)

LEMMA BallStart ==
    ASSUME NEW o \in Node
    PROVE  o \in Ball(o, 0)
<1> DEFINE path == [i \in 0..0 |-> o]
<1>1. path \in [0..0 -> Node] /\ path[0] = o
  OBVIOUS
<1>2. \A i \in 1..0 : path[i] = path[i - 1] \/ <<path[i - 1], path[i]>> \in Link
  OBVIOUS
<1> HIDE DEF path
<1> QED
  BY <1>1, <1>2 DEF Ball

(* A path may be followed by one more link, or by waiting.                 *)
LEMMA BallStep ==
    ASSUME NEW o \in Node, NEW d \in Nat, NEW n \in Ball(o, d), NEW m \in Node,
           <<n, m>> \in Link
    PROVE  m \in Ball(o, d + 1)
<1>1. PICK p \in [0..d -> Node] :
        /\ p[0] = o /\ p[d] = n
        /\ \A i \in 1..d : p[i] = p[i - 1] \/ <<p[i - 1], p[i]>> \in Link
  BY DEF Ball
<1> DEFINE q == [i \in 0..(d + 1) |-> IF i <= d THEN p[i] ELSE m]
<1>2. q \in [0..(d + 1) -> Node] /\ q[0] = o /\ q[d + 1] = m
  BY <1>1
<1>3. ASSUME NEW i \in 1..(d + 1)
      PROVE  q[i] = q[i - 1] \/ <<q[i - 1], q[i]>> \in Link
  <2>1. CASE i <= d
    BY <1>1, <2>1
  <2>2. CASE i = d + 1
    <3>1. q[d] = n
      BY <1>1
    <3>2. i - 1 = d
      BY <2>2
    <3> QED
      BY <1>2, <2>2, <3>1, <3>2
  <2> QED
    BY <2>1, <2>2
<1> HIDE DEF q
<1> QED
  BY <1>2, <1>3 DEF Ball

LEMMA BallGrows ==
    ASSUME NEW o \in Node, NEW d \in Nat, NEW e \in Nat, d <= e, NEW n \in Ball(o, d)
    PROVE  n \in Ball(o, e)
<1>1. PICK p \in [0..d -> Node] :
        /\ p[0] = o /\ p[d] = n
        /\ \A i \in 1..d : p[i] = p[i - 1] \/ <<p[i - 1], p[i]>> \in Link
  BY DEF Ball
<1>2. n \in Node
  BY DEF Ball
<1> DEFINE q == [i \in 0..e |-> IF i <= d THEN p[i] ELSE n]
<1>3. q \in [0..e -> Node] /\ q[0] = o /\ q[e] = n
  BY <1>1, <1>2
<1>4. ASSUME NEW i \in 1..e
      PROVE  q[i] = q[i - 1] \/ <<q[i - 1], q[i]>> \in Link
  <2>1. CASE i <= d
    BY <1>1, <2>1
  <2>2. CASE i = d + 1
    BY <1>1, <2>2
  <2>3. CASE i > d + 1
    BY <2>3
  <2> QED
    BY <2>1, <2>2, <2>3
<1> HIDE DEF q
<1> QED
  BY <1>2, <1>3, <1>4 DEF Ball

----------------------------------------------------------------------------
(* What flooding keeps                                                     *)

(* A copy with TTL t has come FirstTTL - t links from the origin, a relay  *)
(* that is asleep has one more behind it.                                  *)
CopiesInReach ==
    \A l \in Link, k \in Packet, t \in TTLs :
      flight[<<l, k, t>>] > 0 =>
        t <= FirstTTL[k] /\ l[1] \in Ball(Origin[k], FirstTTL[k] - t)

RelaysInReach ==
    \A n \in Node, k \in Packet, t \in TTLs :
      relaying[<<n, k, t>>] > 0 =>
        k \in sent /\ 1 < t /\ t <= FirstTTL[k] /\ n \in Ball(Origin[k], FirstTTL[k] - t + 1)

FloodInv == /\ FloodTypeOK
            /\ MessageOnce
            /\ CopiesInReach
            /\ RelaysInReach
            /\ TTLRange

LEMMA TTLType == TTLs \subseteq Nat \ {0}
BY DEF TTLs

LEMMA LinkEnds ==
    ASSUME NEW l \in Link
    PROVE  l[1] \in Node /\ l[2] \in Node /\ l = <<l[1], l[2]>>
OBVIOUS

(* Copies written with a TTL that is in reach keep all copies in reach.    *)
LEMMA WrittenFlight ==
    ASSUME FloodTypeOK, CopiesInReach, NEW n \in Node, NEW k \in Packet, NEW t \in Nat,
           NEW links \in SUBSET LinksOf(n),
           t <= FirstTTL[k], n \in Ball(Origin[k], FirstTTL[k] - t),
           flight' = Written(links, k, t), up' = up, sent' = sent \cup {k}
    PROVE  /\ flight' \in [Link \X Packet \X TTLs -> Nat]
           /\ \A x \in DOMAIN flight' : flight'[x] > 0 => x[1] \in up' /\ x[2] \in sent'
           /\ CopiesInReach'
<1>1. flight \in [Link \X Packet \X TTLs -> Nat]
  BY DEF FloodTypeOK
<1>2. flight' \in [Link \X Packet \X TTLs -> Nat]
  BY <1>1 DEF Written
<1>3. ASSUME NEW x \in Link \X Packet \X TTLs, flight'[x] > 0
      PROVE  \/ flight[x] > 0
             \/ x[1] \in links /\ x[2] = k /\ x[3] = t
  BY <1>1, <1>3 DEF Written
<1>4. links \subseteq up /\ \A l \in links : l[1] = n
  BY DEF LinksOf
<1>5. ASSUME NEW x \in DOMAIN flight', flight'[x] > 0
      PROVE  x[1] \in up' /\ x[2] \in sent'
  BY <1>1, <1>2, <1>3, <1>4, <1>5 DEF FloodTypeOK
<1>6. ASSUME NEW l \in Link, NEW j \in Packet, NEW u \in TTLs, flight'[<<l, j, u>>] > 0
      PROVE  u <= FirstTTL[j] /\ l[1] \in Ball(Origin[j], FirstTTL[j] - u)
  <2>1. <<l, j, u>> \in Link \X Packet \X TTLs
    OBVIOUS
  <2>2. flight[<<l, j, u>>] > 0 \/ (l \in links /\ j = k /\ u = t)
    BY <1>3, <1>6, <2>1
  <2> QED
    BY <1>4, <2>2 DEF CopiesInReach
<1> QED
  BY <1>2, <1>5, <1>6 DEF CopiesInReach

LEMMA SendStep ==
    ASSUME FloodInv, NEW k \in Packet, Send(k)
    PROVE  FloodInv'
<1>1. FloodTypeOK /\ CopiesInReach
  BY DEF FloodInv
<1>2. PICK links \in SUBSET LinksOf(Origin[k]) : flight' = Written(links, k, FirstTTL[k])
  BY DEF Send
<1>3. /\ Origin[k] \in Node /\ FirstTTL[k] \in Nat /\ FirstTTL[k] <= FirstTTL[k]
      /\ Origin[k] \in Ball(Origin[k], FirstTTL[k] - FirstTTL[k])
  <2>1. Origin[k] \in Node /\ FirstTTL[k] \in Nat
    OBVIOUS
  <2>2. FirstTTL[k] - FirstTTL[k] = 0
    BY <2>1
  <2> QED
    BY <2>1, <2>2, BallStart
<1>4. sent' = sent \cup {k} /\ up' = up /\ UNCHANGED <<relaying, processed, handled>>
  BY DEF Send
<1>5. /\ flight' \in [Link \X Packet \X TTLs -> Nat]
      /\ \A x \in DOMAIN flight' : flight'[x] > 0 => x[1] \in up' /\ x[2] \in sent'
      /\ CopiesInReach'
  BY <1>1, <1>2, <1>3, <1>4, WrittenFlight
<1>6. FloodTypeOK'
  BY <1>1, <1>4, <1>5 DEF FloodTypeOK
<1> QED
  BY <1>4, <1>5, <1>6 DEF FloodInv, MessageOnce, RelaysInReach, TTLRange

(* A copy that is taken off a link brings it no new ones.                  *)
LEMMA TakenOffFlight ==
    ASSUME FloodTypeOK, CopiesInReach, NEW l \in Link, NEW k \in Packet, NEW t \in TTLs,
           TakenOff(l, k, t)
    PROVE  /\ flight' \in [Link \X Packet \X TTLs -> Nat]
           /\ \A x \in DOMAIN flight' : flight'[x] > 0 => x[1] \in up' /\ x[2] \in sent'
           /\ CopiesInReach'
           /\ up' = up /\ sent' = sent
           /\ k \in sent
           /\ t <= FirstTTL[k] /\ l[2] \in Ball(Origin[k], FirstTTL[k] - t + 1)
<1>1. flight \in [Link \X Packet \X TTLs -> Nat] /\ <<l, k, t>> \in Link \X Packet \X TTLs
  BY DEF FloodTypeOK
<1>2. /\ flight[<<l, k, t>>] > 0 /\ up' = up /\ sent' = sent
      /\ flight' = [flight EXCEPT ![<<l, k, t>>] = flight[<<l, k, t>>] - 1]
  BY DEF TakenOff
<1>3. flight' \in [Link \X Packet \X TTLs -> Nat]
  BY <1>1, <1>2
<1>4. \A x \in Link \X Packet \X TTLs : flight'[x] > 0 => flight[x] > 0
  BY <1>1, <1>2
<1>5. k \in sent
  <2>1. <<l, k, t>> \in DOMAIN flight /\ <<l, k, t>>[2] = k
    BY <1>1
  <2> QED
    BY <1>2, <2>1 DEF FloodTypeOK
<1>6. t <= FirstTTL[k] /\ l[1] \in Ball(Origin[k], FirstTTL[k] - t)
  BY <1>2 DEF CopiesInReach
<1>7. l[2] \in Ball(Origin[k], FirstTTL[k] - t + 1)
  <2>1. Origin[k] \in Node /\ FirstTTL[k] \in Nat /\ t \in Nat
    BY TTLType
  <2>2. FirstTTL[k] - t \in Nat
    BY <1>6, <2>1
  <2>3. <<l[1], l[2]>> \in Link /\ l[2] \in Node
    BY LinkEnds
  <2> QED
    BY <1>6, <2>1, <2>2, <2>3, BallStep
<1>8. CopiesInReach'
  <2> SUFFICES ASSUME NEW m \in Link, NEW j \in Packet, NEW u \in TTLs,
                      flight'[<<m, j, u>>] > 0
               PROVE  u <= FirstTTL[j] /\ m[1] \in Ball(Origin[j], FirstTTL[j] - u)
    BY DEF CopiesInReach
  <2>1. flight[<<m, j, u>>] > 0
    BY <1>4
  <2> QED
    BY <2>1 DEF CopiesInReach
<1>9. \A x \in DOMAIN flight' : flight'[x] > 0 => x[1] \in up' /\ x[2] \in sent'
  BY <1>1, <1>2, <1>3, <1>4 DEF FloodTypeOK
<1> QED
  BY <1>2, <1>3, <1>5, <1>6, <1>7, <1>8, <1>9

(* A relay is scheduled only with a TTL to spare.                          *)
LEMMA ScheduledRelays ==
    ASSUME FloodTypeOK, RelaysInReach, NEW n \in Node, NEW k \in Packet, NEW t \in TTLs,
           t <= FirstTTL[k], n \in Ball(Origin[k], FirstTTL[k] - t + 1),
           Scheduled(n, k, t), k \in sent, sent' = sent
    PROVE  relaying' \in [Node \X Packet \X TTLs -> Nat] /\ RelaysInReach'
<1>1. /\ relaying \in [Node \X Packet \X TTLs -> Nat]
      /\ <<n, k, t>> \in Node \X Packet \X TTLs
  BY DEF FloodTypeOK
<1>2. relaying' \in [Node \X Packet \X TTLs -> Nat]
  BY <1>1 DEF Scheduled
<1>3. ASSUME NEW m \in Node, NEW j \in Packet, NEW u \in TTLs, relaying'[<<m, j, u>>] > 0
      PROVE  relaying[<<m, j, u>>] > 0 \/ (1 < t /\ m = n /\ j = k /\ u = t)
  BY <1>1, <1>3 DEF Scheduled
<1> QED
  BY <1>2, <1>3 DEF RelaysInReach

(* A handler acts on a packet one link further than the copy had come,     *)
(* which its TTL of at least one allows.                                   *)
LEMMA ActedInRange ==
    ASSUME FloodTypeOK, TTLRange, NEW n \in Node, NEW k \in Packet, NEW t \in TTLs,
           t <= FirstTTL[k], n \in Ball(Origin[k], FirstTTL[k] - t + 1), Acted(n, k)
    PROVE  /\ handled' \in [Node -> [Packet -> 0..2]]
           /\ TTLRange'
           /\ handled'[n][k] = IF handled[n][k] < 2 THEN handled[n][k] + 1 ELSE handled[n][k]
           /\ \A m \in Node, j \in Packet :
                handled'[m][j] = handled[m][j] \/ (m = n /\ j = k)
<1>1. handled \in [Node -> [Packet -> 0..2]]
  BY DEF FloodTypeOK
<1>2. handled' = [handled EXCEPT ![n][k] = IF handled[n][k] < 2
                                           THEN handled[n][k] + 1 ELSE handled[n][k]]
  BY DEF Acted
<1>3. /\ handled' \in [Node -> [Packet -> 0..2]]
      /\ handled'[n][k] = IF handled[n][k] < 2 THEN handled[n][k] + 1 ELSE handled[n][k]
      /\ \A m \in Node, j \in Packet :
           handled'[m][j] = handled[m][j] \/ (m = n /\ j = k)
  BY <1>1, <1>2
<1>4. n \in Ball(Origin[k], FirstTTL[k])
  <2>1. /\ Origin[k] \in Node /\ FirstTTL[k] \in Nat
        /\ t \in Nat \ {0}
    BY TTLType
  <2>2. FirstTTL[k] - t + 1 \in Nat /\ FirstTTL[k] - t + 1 <= FirstTTL[k]
    BY <2>1
  <2> QED
    BY <2>1, <2>2, BallGrows
<1>5. TTLRange'
  <2> SUFFICES ASSUME NEW m \in Node, NEW j \in Packet, handled'[m][j] > 0
               PROVE  m \in Ball(Origin[j], FirstTTL[j])
    BY DEF TTLRange, InRange
  <2>1. CASE m = n /\ j = k
    BY <1>4, <2>1
  <2>2. CASE handled'[m][j] = handled[m][j]
    BY <2>2 DEF TTLRange, InRange
  <2> QED
    BY <1>3, <2>1, <2>2
<1> QED
  BY <1>3, <1>5

LEMMA ArrivalStep ==
    ASSUME FloodInv, NEW l \in Link, NEW k \in Packet, NEW t \in TTLs, Arrives(l, k, t)
    PROVE  FloodInv'
<1>1. FloodTypeOK /\ MessageOnce /\ CopiesInReach /\ RelaysInReach /\ TTLRange
  BY DEF FloodInv
<1>2. TakenOff(l, k, t)
  BY DEF Arrives, DropPacket, HandleMessage, HandleLeave, HandleDeliveryAck
<1>3. /\ flight' \in [Link \X Packet \X TTLs -> Nat]
      /\ \A x \in DOMAIN flight' : flight'[x] > 0 => x[1] \in up' /\ x[2] \in sent'
      /\ CopiesInReach'
      /\ up' = up /\ sent' = sent /\ k \in sent
      /\ t <= FirstTTL[k] /\ l[2] \in Ball(Origin[k], FirstTTL[k] - t + 1)
  BY <1>1, <1>2, TakenOffFlight
<1>4. l[2] \in Node
  BY LinkEnds
<1>5. relaying' \in [Node \X Packet \X TTLs -> Nat] /\ RelaysInReach'
  <2>1. CASE Scheduled(l[2], k, t)
    BY <1>1, <1>3, <1>4, <2>1, ScheduledRelays
  <2>2. CASE UNCHANGED relaying
    BY <1>1, <1>3, <2>2 DEF FloodTypeOK, RelaysInReach
  <2> QED
    BY <2>1, <2>2 DEF Arrives, DropPacket, HandleMessage, HandleLeave, HandleDeliveryAck
<1>6. /\ handled' \in [Node -> [Packet -> 0..2]]
      /\ TTLRange'
  <2>1. CASE Acted(l[2], k)
    BY <1>1, <1>3, <1>4, <2>1, ActedInRange
  <2>2. CASE UNCHANGED handled
    BY <1>1, <2>2 DEF FloodTypeOK, TTLRange
  <2> QED
    BY <2>1, <2>2 DEF Arrives, DropPacket, HandleMessage, HandleLeave, HandleDeliveryAck
<1>7. processed' \in [Node -> SUBSET Packet] /\ MessageOnce'
  <2>1. CASE HandleMessage(l, k, t)
    <3>1. /\ processed' = [processed EXCEPT ![l[2]] = processed[l[2]] \cup {k}]
          /\ Acted(l[2], k) /\ k \in Messages /\ k \notin processed[l[2]]
      BY <2>1 DEF HandleMessage, Discards, Messages
    <3>2. /\ handled[l[2]][k] = 0 /\ handled'[l[2]][k] = 1
          /\ \A m \in Node, j \in Packet :
               handled'[m][j] = handled[m][j] \/ (m = l[2] /\ j = k)
      BY <1>1, <1>3, <1>4, <3>1, ActedInRange DEF MessageOnce
    <3>3. processed \in [Node -> SUBSET Packet]
      BY <1>1 DEF FloodTypeOK
    <3>4. processed' \in [Node -> SUBSET Packet]
      BY <1>4, <3>1, <3>3
    <3>5. ASSUME NEW m \in Node, NEW j \in Messages
          PROVE  handled'[m][j] = IF j \in processed'[m] THEN 1 ELSE 0
      <4>1. j \in Packet
        BY DEF Messages
      <4>2. CASE m = l[2] /\ j = k
        BY <1>4, <3>1, <3>2, <3>3, <4>2
      <4>3. CASE ~(m = l[2] /\ j = k)
        BY <1>1, <1>4, <3>1, <3>2, <3>3, <4>1, <4>3 DEF MessageOnce
      <4> QED
        BY <4>2, <4>3
    <3> QED
      BY <3>4, <3>5 DEF MessageOnce
  <2>2. CASE ~HandleMessage(l, k, t)
    <3>1. processed' = processed
      BY <2>2 DEF Arrives, DropPacket, HandleLeave, HandleDeliveryAck
    <3>2. UNCHANGED handled \/ (Acted(l[2], k) /\ k \notin Messages)
      BY <2>2 DEF Arrives, DropPacket, HandleLeave, HandleDeliveryAck, Messages
    <3>3. \A m \in Node, j \in Messages : handled'[m][j] = handled[m][j]
      BY <1>1, <1>3, <1>4, <3>2, ActedInRange DEF Messages
    <3> QED
      BY <1>1, <3>1, <3>3 DEF MessageOnce, FloodTypeOK
  <2> QED
    BY <2>1, <2>2
<1> QED
  BY <1>1, <1>3, <1>5, <1>6, <1>7 DEF FloodInv, FloodTypeOK

LEMMA RelayStep ==
    ASSUME FloodInv, NEW n \in Node, NEW k \in Packet, NEW t \in TTLs, Relay(n, k, t)
    PROVE  FloodInv'
<1>1. FloodTypeOK /\ CopiesInReach /\ RelaysInReach
  BY DEF FloodInv
<1>2. /\ relaying[<<n, k, t>>] > 0
      /\ relaying' = [relaying EXCEPT ![<<n, k, t>>] = relaying[<<n, k, t>>] - 1]
      /\ flight' = Written(LinksOf(n), k, t - 1)
      /\ up' = up /\ sent' = sent /\ UNCHANGED <<processed, handled>>
  BY DEF Relay
<1>3. k \in sent /\ 1 < t /\ t <= FirstTTL[k] /\ n \in Ball(Origin[k], FirstTTL[k] - t + 1)
  BY <1>1, <1>2 DEF RelaysInReach
<1>4. /\ t - 1 \in Nat /\ t - 1 <= FirstTTL[k]
      /\ n \in Ball(Origin[k], FirstTTL[k] - (t - 1))
  <2>1. t \in Nat /\ FirstTTL[k] \in Nat
    BY TTLType
  <2>2. FirstTTL[k] - (t - 1) = FirstTTL[k] - t + 1
    BY <2>1
  <2> QED
    BY <1>3, <2>1, <2>2
<1>5. /\ flight' \in [Link \X Packet \X TTLs -> Nat]
      /\ \A x \in DOMAIN flight' : flight'[x] > 0 => x[1] \in up' /\ x[2] \in sent'
      /\ CopiesInReach'
  <2>1. sent' = sent \cup {k} /\ LinksOf(n) \in SUBSET LinksOf(n)
    BY <1>2, <1>3
  <2> QED
    BY <1>1, <1>2, <1>4, <2>1, WrittenFlight
<1>6. relaying' \in [Node \X Packet \X TTLs -> Nat] /\ RelaysInReach'
  <2>1. /\ relaying \in [Node \X Packet \X TTLs -> Nat]
        /\ <<n, k, t>> \in Node \X Packet \X TTLs
    BY <1>1 DEF FloodTypeOK
  <2>2. relaying' \in [Node \X Packet \X TTLs -> Nat]
    BY <1>2, <2>1
  <2>3. \A x \in Node \X Packet \X TTLs : relaying'[x] > 0 => relaying[x] > 0
    BY <1>2, <2>1
  <2> QED
    BY <1>1, <1>2, <2>2, <2>3 DEF RelaysInReach
<1> QED
  BY <1>2, <1>5, <1>6 DEF FloodInv, FloodTypeOK, MessageOnce, TTLRange

LEMMA CutStep ==
    ASSUME FloodInv, NEW l \in Link, Cut(l)
    PROVE  FloodInv'
<1>1. FloodTypeOK /\ CopiesInReach /\ RelaysInReach
  BY DEF FloodInv
<1>2. /\ up' \in SUBSET up
      /\ flight' = [x \in DOMAIN flight |-> IF x[1] \in up' THEN flight[x] ELSE 0]
      /\ UNCHANGED <<sent, relaying, processed, handled>>
  BY DEF Cut
<1>3. flight \in [Link \X Packet \X TTLs -> Nat]
  BY <1>1 DEF FloodTypeOK
<1>4. flight' \in [Link \X Packet \X TTLs -> Nat]
  BY <1>2, <1>3
<1>5. \A x \in Link \X Packet \X TTLs :
        flight'[x] > 0 => flight[x] > 0 /\ x[1] \in up'
  BY <1>2, <1>3
<1>6. CopiesInReach'
  <2> SUFFICES ASSUME NEW m \in Link, NEW j \in Packet, NEW u \in TTLs,
                      flight'[<<m, j, u>>] > 0
               PROVE  u <= FirstTTL[j] /\ m[1] \in Ball(Origin[j], FirstTTL[j] - u)
    BY DEF CopiesInReach
  <2>1. flight[<<m, j, u>>] > 0
    BY <1>5
  <2> QED
    BY <1>1, <2>1 DEF CopiesInReach
<1>7. FloodTypeOK'
  BY <1>1, <1>2, <1>3, <1>4, <1>5 DEF FloodTypeOK
<1> QED
  BY <1>2, <1>6, <1>7 DEF FloodInv, MessageOnce, RelaysInReach, TTLRange

(* The invariant holds of every reachable state.                           *)
THEOREM FloodInvariant == FloodSpec => []FloodInv
<1>1. FloodInit => FloodInv
  <2> SUFFICES ASSUME FloodInit PROVE FloodInv
    OBVIOUS
  <2>1. FloodTypeOK
    BY DEF FloodInit, FloodTypeOK
  <2>2. CopiesInReach /\ RelaysInReach
    BY DEF FloodInit, CopiesInReach, RelaysInReach
  <2>3. MessageOnce /\ TTLRange
    BY DEF FloodInit, MessageOnce, TTLRange, Messages
  <2> QED
    BY <2>1, <2>2, <2>3 DEF FloodInv
<1>2. FloodInv /\ [FloodNext]_floodVars => FloodInv'
  <2> SUFFICES ASSUME FloodInv, [FloodNext]_floodVars PROVE FloodInv'
    OBVIOUS
  <2>1. CASE UNCHANGED floodVars
    BY <2>1 DEF floodVars, FloodInv, FloodTypeOK, MessageOnce, CopiesInReach,
                RelaysInReach, TTLRange
  <2>2. CASE \E k \in Packet : Send(k)
    BY <2>2, SendStep
  <2>3. CASE Arrival
    <3>1. PICK x \in DOMAIN flight : Arrives(x[1], x[2], x[3])
      BY <2>3 DEF Arrival
    <3>2. x[1] \in Link /\ x[2] \in Packet /\ x[3] \in TTLs
      BY DEF FloodInv, FloodTypeOK
    <3> QED
      BY <3>1, <3>2, ArrivalStep
  <2>4. CASE Wakeup
    <3>1. PICK x \in DOMAIN relaying : Relay(x[1], x[2], x[3])
      BY <2>4 DEF Wakeup
    <3>2. x[1] \in Node /\ x[2] \in Packet /\ x[3] \in TTLs
      BY DEF FloodInv, FloodTypeOK
    <3> QED
      BY <3>1, <3>2, RelayStep
  <2>5. CASE \E l \in Link : Cut(l)
    BY <2>5, CutStep
  <2> QED
    BY <2>1, <2>2, <2>3, <2>4, <2>5 DEF FloodNext
<1> QED
  BY <1>1, <1>2, PTL DEF FloodSpec

----------------------------------------------------------------------------
(* The state of the flood is well typed, and a copy travels only on a link *)
(* that is up and only after its packet was sent.                          *)
THEOREM FloodTypeCorrect == FloodSpec => []FloodTypeOK
BY FloodInvariant, PTL DEF FloodInv

(* MessageOnce for any graph and any delays: a node acts on a chat message *)
(* exactly when it enters it into processed_messages (mesh.py:455-457).    *)
THEOREM MessagesOnce == FloodSpec => []MessageOnce
BY FloodInvariant, PTL DEF FloodInv

(* TTLRange for any graph and any TTL: a packet that has crossed as many   *)
(* links as its TTL is relayed no further (mesh.py:542-549).               *)
THEOREM NothingBeyondTTL == FloodSpec => []TTLRange
BY FloodInvariant, PTL DEF FloodInv

(* Flooding implements Broadcast: the first copy a node takes is the       *)
(* delivery, the sending of a chat message is the abstract send, and every *)
(* other step changes nothing the abstract specification sees.             *)
THEOREM FloodImplementsBroadcast == FloodSpec => ImplementsBroadcast
<1>1. FloodInit => Promise!BroadcastInit
  BY DEF FloodInit, Promise!BroadcastInit
<1>2. FloodInv /\ [FloodNext]_floodVars
        => [Promise!BroadcastNext]_(Promise!broadcastVars)
  <2> SUFFICES ASSUME FloodInv, [FloodNext]_floodVars
               PROVE  \/ Promise!BroadcastNext
                      \/ UNCHANGED <<sent \cap Messages, processed>>
    BY DEF Promise!broadcastVars
  <2>1. CASE UNCHANGED floodVars
    BY <2>1 DEF floodVars
  <2>2. ASSUME NEW k \in Packet, Send(k)
        PROVE  \/ Promise!BroadcastNext
               \/ UNCHANGED <<sent \cap Messages, processed>>
    <3>1. k \notin sent /\ sent' = sent \cup {k} /\ processed' = processed
      BY <2>2 DEF Send
    <3>2. CASE k \in Messages
      <4>1. Promise!SendMessage(k)
        BY <3>1, <3>2 DEF Promise!SendMessage
      <4> QED
        BY <3>2, <4>1 DEF Promise!BroadcastNext
    <3>3. CASE k \notin Messages
      BY <3>1, <3>3
    <3> QED
      BY <3>2, <3>3
  <2>3. ASSUME NEW l \in Link, NEW k \in Packet, NEW t \in TTLs, Arrives(l, k, t)
        PROVE  \/ Promise!BroadcastNext
               \/ UNCHANGED <<sent \cap Messages, processed>>
    <3>1. TakenOff(l, k, t)
      BY <2>3 DEF Arrives, DropPacket, HandleMessage, HandleLeave, HandleDeliveryAck
    <3>2. sent' = sent /\ k \in sent
      BY <3>1, TakenOffFlight DEF FloodInv
    <3>3. CASE HandleMessage(l, k, t)
      <4>1. l[2] \in Node
        BY LinkEnds
      <4>2. /\ k \in Messages /\ l[2] # Origin[k] /\ k \notin processed[l[2]]
            /\ processed' = [processed EXCEPT ![l[2]] = processed[l[2]] \cup {k}]
        BY <3>3 DEF HandleMessage, Discards, Messages
      <4>3. Promise!DeliverMessage(l[2], k)
        BY <3>2, <4>2 DEF Promise!DeliverMessage
      <4> QED
        BY <4>1, <4>2, <4>3 DEF Promise!BroadcastNext
    <3>4. CASE ~HandleMessage(l, k, t)
      <4>1. processed' = processed
        BY <2>3, <3>4 DEF Arrives, DropPacket, HandleLeave, HandleDeliveryAck
      <4> QED
        BY <3>2, <4>1
    <3> QED
      BY <3>3, <3>4
  <2>4. CASE Arrival
    <3>1. PICK x \in DOMAIN flight : Arrives(x[1], x[2], x[3])
      BY <2>4 DEF Arrival
    <3>2. x[1] \in Link /\ x[2] \in Packet /\ x[3] \in TTLs
      BY DEF FloodInv, FloodTypeOK
    <3> QED
      BY <2>3, <3>1, <3>2
  <2>5. CASE Wakeup \/ \E l \in Link : Cut(l)
    BY <2>5 DEF Wakeup, Relay, Cut
  <2> QED
    BY <2>1, <2>2, <2>4, <2>5 DEF FloodNext
<1> QED
  BY <1>1, <1>2, FloodInvariant, PTL
  DEF FloodSpec, ImplementsBroadcast, Promise!BroadcastSpec

HIDE FloodAssumption

(***************************************************************************)
(* Start and end: Lifecycle                                                *)
(***************************************************************************)
USE LifecycleAssumption

(* Without an mDNS browser start does not suspend between the first dial   *)
(* and the wiring of on_connected: what is dialled is dialled by a start   *)
(* that has come to its end, or that has raised and ended the process.     *)
StartsWired ==
    /\ main \in {"waiting", "exited"} => wired
    /\ main = "starting" => dialled = {}
    /\ mdns # "browsing" => main # "browsing" /\ silent = {}

(* A shutdown task past the components has saved; only such a task sets    *)
(* the event, and only the event lets run_forever return.  Only such a     *)
(* task ends a search in the mDNS browser, and with it the wait of start.  *)
SavedFirst ==
    /\ \A s \in Signal : stop[s] \in {"draining", "done"} => saved
    /\ stopEvent => saved
    /\ main = "exited" => stopEvent
    /\ main = "browsing" => discovering \/ saved
    /\ main = "raised" => saved \/ connected = {}

LifecycleInv == LifecycleTypeOK /\ StartsWired /\ SavedFirst

----------------------------------------------------------------------------
(* Starting, browsing, and the connections that come up                    *)
LEMMA StartingStep ==
    ASSUME LifecycleInv, Start \/ PortTaken \/ BrowsingEnds \/ Exit
    PROVE  LifecycleInv'
<1>1. LifecycleTypeOK'
  BY DEF LifecycleInv, LifecycleTypeOK, StartsWired, Start, PortTaken, BrowsingEnds, Exit,
         WiredAndServing, peerVars, stopVars, Address
<1>2. StartsWired'
  BY DEF LifecycleInv, LifecycleTypeOK, StartsWired, Start, PortTaken, BrowsingEnds, Exit,
         WiredAndServing, peerVars, stopVars
<1>3. main = "starting" => connected = {}
  BY DEF LifecycleInv, LifecycleTypeOK, StartsWired
<1>4. SavedFirst'
  BY <1>3 DEF LifecycleInv, SavedFirst, Start, PortTaken, BrowsingEnds, Exit,
         WiredAndServing, peerVars, stopVars
<1> QED
  BY <1>1, <1>2, <1>4 DEF LifecycleInv

LEMMA PeerStep ==
    ASSUME LifecycleInv, NEW a \in Address, MdnsFound(a) \/ ConnectToPeer(a)
    PROVE  LifecycleInv'
<1>1. LifecycleTypeOK'
  BY DEF LifecycleInv, LifecycleTypeOK, MdnsFound, ConnectToPeer, stopVars
<1>2. StartsWired'
  BY DEF LifecycleInv, LifecycleTypeOK, StartsWired, MdnsFound, ConnectToPeer, Running
<1>3. SavedFirst'
  BY DEF LifecycleInv, SavedFirst, MdnsFound, ConnectToPeer, Running, stopVars
<1> QED
  BY <1>1, <1>2, <1>3 DEF LifecycleInv

LEMMA StallStep ==
    ASSUME LifecycleInv, PeersStallOrRead
    PROVE  LifecycleInv'
<1>1. LifecycleTypeOK'
  BY DEF LifecycleInv, LifecycleTypeOK, PeersStallOrRead, stopVars
<1>2. StartsWired'
  BY DEF LifecycleInv, StartsWired, PeersStallOrRead
<1>3. SavedFirst'
  BY DEF LifecycleInv, SavedFirst, PeersStallOrRead, stopVars
<1> QED
  BY <1>1, <1>2, <1>3 DEF LifecycleInv

LEMMA WebSocketStep ==
    ASSUME LifecycleInv, NEW w \in Ws, HandleWs(w) \/ WsEnds(w)
    PROVE  LifecycleInv'
<1>1. LifecycleTypeOK'
  BY DEF LifecycleInv, LifecycleTypeOK, HandleWs, WsEnds, peerVars, stopVars
<1>2. StartsWired'
  BY DEF LifecycleInv, StartsWired, HandleWs, WsEnds, peerVars
<1>3. SavedFirst'
  BY DEF LifecycleInv, SavedFirst, HandleWs, WsEnds, peerVars, stopVars
<1> QED
  BY <1>1, <1>2, <1>3 DEF LifecycleInv

----------------------------------------------------------------------------
(* The shutdown tasks                                                      *)

LEMMA ClientCount ==
    ASSUME LifecycleTypeOK
    PROVE  Cardinality(wsClients) \in 0..Cardinality(Ws)
<1>1. wsClients \subseteq Ws /\ IsFiniteSet(Ws)
  BY DEF LifecycleTypeOK
<1>2. IsFiniteSet(wsClients) /\ Cardinality(wsClients) <= Cardinality(Ws)
  BY <1>1, FS_Subset
<1> QED
  BY <1>1, <1>2, FS_CardinalityType

LEMMA NextWsType ==
    ASSUME LifecycleTypeOK, NEW s \in Signal, NEW left \in SUBSET Ws, NextWs(s, left)
    PROVE  /\ stop' \in [Signal -> StopPhase]
           /\ todo' \in [Signal -> SUBSET Ws]
           /\ api' \in {"off", "on", "cleaned"}
           /\ wsClients' \subseteq Ws /\ (wsClients' # {} => api' = "on")
           /\ \A t \in Signal : stop'[t] \in {"draining", "done"} => stop'[t] = stop[t]
BY DEF LifecycleTypeOK, NextWs, StopPhase

LEMMA StoppingStep ==
    ASSUME LifecycleInv, NEW s \in Signal, Shutdown(s) \/ StopStep(s)
    PROVE  LifecycleInv'
<1>1. LifecycleTypeOK /\ StartsWired /\ SavedFirst
  BY DEF LifecycleInv
<1>2. CASE Shutdown(s)
  <2>1. LifecycleTypeOK'
    BY <1>1, <1>2 DEF LifecycleTypeOK, Shutdown, peerVars, StopPhase
  <2>2. StartsWired' /\ SavedFirst'
    BY <1>1, <1>2 DEF LifecycleTypeOK, StartsWired, SavedFirst, Shutdown, peerVars
  <2> QED
    BY <2>1, <2>2 DEF LifecycleInv
<1>3. CASE LeaveSent(s) \/ WsClosed(s)
  <2>1. /\ stop' \in [Signal -> StopPhase] /\ todo' \in [Signal -> SUBSET Ws]
        /\ api' \in {"off", "on", "cleaned"}
        /\ wsClients' \subseteq Ws /\ (wsClients' # {} => api' = "on")
        /\ \A t \in Signal : stop'[t] \in {"draining", "done"} => stop'[t] = stop[t]
    <3>1. CASE \E left \in SUBSET Ws : NextWs(s, left)
      BY <1>1, <3>1, NextWsType
    <3>2. CASE stop' = [stop EXCEPT ![s] = "failed"] /\ UNCHANGED <<todo, wsClients, api>>
      BY <1>1, <3>2 DEF LifecycleTypeOK, StopPhase
    <3>3. wsClients \in SUBSET Ws /\ todo[s] \in SUBSET Ws
      BY <1>1 DEF LifecycleTypeOK
    <3> QED
      BY <1>3, <3>1, <3>2, <3>3 DEF LeaveSent, WsClosed
  <2>2. size' \in [Signal -> 0..Cardinality(Ws)]
    BY <1>1, <1>3, ClientCount DEF LifecycleTypeOK, LeaveSent, WsClosed
  <2>3. /\ UNCHANGED <<main, listening, discovering, wired, saved, stopEvent>>
        /\ UNCHANGED <<mdns, known, dialled, connected, silent, unread>>
    BY <1>3 DEF LeaveSent, WsClosed, peerVars
  <2>4. LifecycleTypeOK'
    BY <1>1, <2>1, <2>2, <2>3 DEF LifecycleTypeOK
  <2>5. StartsWired' /\ SavedFirst'
    BY <1>1, <2>1, <2>3 DEF StartsWired, SavedFirst
  <2> QED
    BY <2>4, <2>5 DEF LifecycleInv
<1>4. CASE ComponentsStopped(s) \/ StopDone(s)
  <2>1. LifecycleTypeOK'
    BY <1>1, <1>4 DEF LifecycleTypeOK, ComponentsStopped, StopDone, peerVars, StopPhase
  <2>2. StartsWired' /\ SavedFirst'
    BY <1>1, <1>4
    DEF LifecycleTypeOK, StartsWired, SavedFirst, ComponentsStopped, StopDone, peerVars
  <2> QED
    BY <2>1, <2>2 DEF LifecycleInv
<1> QED
  BY <1>2, <1>3, <1>4 DEF StopStep

(* The invariant holds of every reachable state.                           *)
THEOREM LifecycleInvariant == LifecycleSpec => []LifecycleInv
<1>1. LifecycleInit => LifecycleInv
  <2> SUFFICES ASSUME LifecycleInit PROVE LifecycleInv
    OBVIOUS
  <2>1. 0 \in 0..Cardinality(Ws)
    BY FS_CardinalityType
  <2>2. LifecycleTypeOK
    BY <2>1 DEF LifecycleInit, LifecycleTypeOK, StopPhase
  <2> QED
    BY <2>2 DEF LifecycleInit, LifecycleInv, StartsWired, SavedFirst
<1>2. LifecycleInv /\ [LifecycleNext]_lifecycleVars => LifecycleInv'
  <2> SUFFICES ASSUME LifecycleInv, [LifecycleNext]_lifecycleVars
               PROVE  LifecycleInv'
    OBVIOUS
  <2>1. CASE UNCHANGED lifecycleVars
    BY <2>1 DEF lifecycleVars, LifecycleInv, LifecycleTypeOK, StartsWired, SavedFirst
  <2>2. CASE LifecycleNext
    BY <2>2, StartingStep, PeerStep, StallStep, WebSocketStep, StoppingStep
    DEF LifecycleNext
  <2> QED
    BY <2>1, <2>2
<1> QED
  BY <1>1, <1>2, PTL DEF LifecycleSpec

----------------------------------------------------------------------------
(* The state of the daemon is well typed; WebSocket clients are there only *)
(* while the HTTP server is.                                               *)
THEOREM LifecycleTypeCorrect == LifecycleSpec => []LifecycleTypeOK
BY LifecycleInvariant, PTL DEF LifecycleInv

(* NoSilentPeer for any bootstrap list: a connection made at the start     *)
(* gets its announcement (__main__.py:67), unless start waits in the mDNS  *)
(* browser.                                                                *)
THEOREM NoPeerIsSilent == LifecycleSpec => []NoSilentPeer
<1>1. LifecycleInv => NoSilentPeer
  BY DEF LifecycleInv, StartsWired, NoSilentPeer
<1> QED
  BY <1>1, LifecycleInvariant, PTL

(* ExitSaved for any number of signals and WebSocket clients: run_forever  *)
(* returns (__main__.py:119-121) only after save_state, and where start    *)
(* raises without it (58, 73) no dialled peer had been connected.          *)
THEOREM ExitIsSaved == LifecycleSpec => []ExitSaved
<1>1. LifecycleInv => ExitSaved
  BY DEF LifecycleInv, SavedFirst, ExitSaved, Running
<1> QED
  BY <1>1, LifecycleInvariant, PTL

HIDE LifecycleAssumption

(***************************************************************************)
(* The state file: Persistence                                             *)
(***************************************************************************)
USE PersistenceAssumption

(* As long as no save was cut short: a process that is down has left no    *)
(* file at all or what it saved last, with the first identity key; a       *)
(* process that runs has that key, and once it serves, the file agrees     *)
(* with its memory.  While a save is under way the file is torn, and what  *)
(* will be written has the protected channels of the mesh.                 *)
Unharmed ==
    ~harmed =>
      /\ process = "down" =>
           \/ file.form = "absent" /\ identities = 0
           \/ file = Whole(lastSaved) /\ lastSaved.identity = 1
      /\ process # "down" => app.identity = 1
      /\ process = "up" =>
           /\ file = Whole(lastSaved) /\ lastSaved.identity = 1
           /\ lastSaved.protected = protected
           /\ lastSaved.commitments = app.commitments
           /\ lastSaved.creators = app.creators
      /\ process \in {"saving", "stopping"} => app.protected = protected

(* A process that is not there has no keys in memory.                      *)
Forgetful == process = "down" => keys = {}

PersistenceInv == PersistenceTypeOK /\ Unharmed /\ Forgetful

----------------------------------------------------------------------------
(* The states the actions build are states.                                *)
LEMMA StateTypes ==
    /\ Fresh \in AppState
    /\ Torn \in [form : {"absent", "torn", "whole"}, state : AppState]
    /\ \A s \in AppState :
         Whole(s) \in [form : {"absent", "torn", "whole"}, state : AppState]
<1>1. [c \in Channel |-> NoName] \in [Channel -> Creator \cup {NoName}]
  OBVIOUS
<1>2. Fresh \in AppState
  BY <1>1 DEF Fresh, AppState
<1> QED
  BY <1>2 DEF Torn, Whole

LEMMA ParsedType ==
    ASSUME PersistenceTypeOK
    PROVE  Parsed \in AppState
BY StateTypes DEF PersistenceTypeOK, Parsed

LEMMA RestoredType ==
    ASSUME NEW s \in AppState, Restored(s)
    PROVE  /\ nickname' \in Nickname \cup {ConfigName, NoName}
           /\ protected' \subseteq Channel /\ protected' = s.protected
           /\ keys' \subseteq s.passwords
           /\ discovered' = {}
BY DEF Restored, AppState

LEMMA ForgottenType ==
    ASSUME Forgotten
    PROVE  /\ app' \in AppState /\ process' = "down"
           /\ nickname' \in Nickname \cup {ConfigName, NoName}
           /\ protected' \subseteq Channel /\ keys' \subseteq app'.passwords
           /\ discovered' = {}
BY StateTypes DEF Forgotten

LEMMA WithCreatorType ==
    ASSUME PersistenceTypeOK, NEW c \in Channel, NEW p \in Creator \cup {NoName}
    PROVE  WithCreator(c, p) \in [Channel -> Creator \cup {NoName}]
<1>1. app.creators \in [Channel -> Creator \cup {NoName}]
  BY DEF PersistenceTypeOK, AppState
<1> QED
  BY <1>1 DEF WithCreator

----------------------------------------------------------------------------
(* Loading                                                                 *)
LEMMA LoadingStep ==
    ASSUME PersistenceInv, LoadState \/ LoadFreshState \/ FreshStateSaved
    PROVE  PersistenceInv'
<1>1. PersistenceTypeOK /\ Unharmed /\ Forgetful
  BY DEF PersistenceInv
<1>2. CASE LoadState
  <2>1. PersistenceTypeOK'
    BY <1>1, <1>2, ParsedType, RestoredType DEF LoadState, PersistenceTypeOK
  <2>2. ASSUME ~harmed PROVE Parsed = lastSaved /\ file = Whole(lastSaved)
    BY <1>1, <1>2, <2>2 DEF LoadState, Unharmed, Parsed, Fresh, Whole
  <2>3. Unharmed'
    BY <1>1, <1>2, <2>2 DEF LoadState, Unharmed, Restored, Whole
  <2> QED
    BY <1>2, <2>1, <2>3 DEF LoadState, PersistenceInv, Forgetful
<1>3. CASE LoadFreshState
  <2> DEFINE a == [Parsed EXCEPT !.identity = identities + 1]
  <2>1. identities + 1 \in 0..MaxIdentity
    BY <1>1, <1>3 DEF LoadFreshState, PersistenceTypeOK
  <2>2. a \in AppState /\ a.identity = identities + 1 /\ a.passwords = Parsed.passwords
    BY <1>1, <2>1, ParsedType DEF AppState
  <2>3. PersistenceTypeOK'
    BY <1>1, <1>3, <2>1, <2>2, StateTypes DEF LoadFreshState, PersistenceTypeOK, Forgetful
  <2>4. ASSUME ~harmed PROVE identities = 0
    BY <1>1, <1>3, <2>4 DEF LoadFreshState, Unharmed, Parsed, Whole
  <2>5. Unharmed'
    BY <1>1, <1>3, <2>2, <2>4 DEF LoadFreshState, Unharmed
  <2> QED
    BY <1>3, <2>3, <2>5 DEF LoadFreshState, PersistenceInv, Forgetful
<1>4. CASE FreshStateSaved
  <2>1. PersistenceTypeOK'
    BY <1>1, <1>4, StateTypes, RestoredType DEF FreshStateSaved, PersistenceTypeOK
  <2>2. Unharmed'
    BY <1>1, <1>4 DEF FreshStateSaved, Unharmed, Restored, PersistenceTypeOK
  <2> QED
    BY <1>4, <2>1, <2>2 DEF FreshStateSaved, PersistenceInv, Forgetful
<1> QED
  BY <1>2, <1>3, <1>4

----------------------------------------------------------------------------
(* Saving                                                                  *)
LEMMA SaveStarts ==
    ASSUME PersistenceInv, process = "up",
           \/ StopSaving
           \/ \E n \in Nickname : SetName(n)
           \/ \E c \in Channel, p \in Creator \cup {NoName} :
                \/ HandleOpenAnnounce(c, p)
                \/ \E b \in BOOLEAN : HandleProtectedAnnounce(c, p, b)
    PROVE  PersistenceInv'
<1>1. PersistenceTypeOK /\ Unharmed /\ Forgetful
  BY DEF PersistenceInv
<1>2. app \in AppState /\ app.commitments \in SUBSET Channel
  BY <1>1 DEF PersistenceTypeOK, AppState
<1>3. ASSUME NEW n \in Nickname \cup {ConfigName, NoName}, NEW next \in {"saving", "stopping"},
             SaveBegins(n, protected, next), nickname' = n,
             UNCHANGED <<protected, keys, discovered, identities, lastSaved, harmed>>
      PROVE  PersistenceInv'
  <2>1. /\ app' \in AppState /\ app'.protected = protected
        /\ app'.identity = app.identity /\ app'.passwords = app.passwords
    BY <1>1, <1>2, <1>3 DEF SaveBegins, PersistenceTypeOK, AppState
  <2>2. PersistenceTypeOK'
    BY <1>1, <1>3, <2>1, StateTypes DEF SaveBegins, PersistenceTypeOK
  <2>3. Unharmed'
    BY <1>1, <1>3, <2>1 DEF SaveBegins, Unharmed
  <2> QED
    BY <1>3, <2>2, <2>3 DEF SaveBegins, PersistenceInv, Forgetful
<1>4. ASSUME NEW c \in Channel, NEW p \in Creator \cup {NoName},
             NEW P \in SUBSET Channel, NEW C \in SUBSET Channel, NEW K,
             Announced(c, p, P, C, K), UNCHANGED <<nickname, identities, lastSaved, harmed>>
      PROVE  PersistenceInv'
  <2>1. /\ app' \in AppState /\ app'.protected = P
        /\ app'.identity = app.identity /\ app'.passwords = app.passwords
    <3>1. WithCreator(c, p) \in [Channel -> Creator \cup {NoName}]
      BY <1>1, WithCreatorType
    <3> QED
      BY <1>1, <1>2, <1>4, <3>1 DEF Announced, PersistenceTypeOK, AppState
  <2>2. PersistenceTypeOK'
    BY <1>1, <1>4, <2>1, StateTypes DEF Announced, PersistenceTypeOK
  <2>3. Unharmed'
    BY <1>1, <1>4, <2>1 DEF Announced, Unharmed
  <2> QED
    BY <1>4, <2>2, <2>3 DEF Announced, PersistenceInv, Forgetful
<1>5. CASE StopSaving
  BY <1>1, <1>3, <1>5 DEF StopSaving, PersistenceTypeOK
<1>6. ASSUME NEW n \in Nickname, SetName(n) PROVE PersistenceInv'
  BY <1>3, <1>6 DEF SetName
<1>7. ASSUME NEW c \in Channel, NEW p \in Creator \cup {NoName}, HandleOpenAnnounce(c, p)
      PROVE  PersistenceInv'
  <2>1. protected \ {c} \in SUBSET Channel /\ app.commitments \ {c} \in SUBSET Channel
    BY <1>1, <1>2 DEF PersistenceTypeOK
  <2> QED
    BY <1>4, <1>7, <2>1 DEF HandleOpenAnnounce
<1>8. ASSUME NEW c \in Channel, NEW p \in Creator \cup {NoName}, NEW b \in BOOLEAN,
             HandleProtectedAnnounce(c, p, b)
      PROVE  PersistenceInv'
  <2> DEFINE C == IF b THEN app.commitments \cup {c} ELSE app.commitments
  <2>1. protected \cup {c} \in SUBSET Channel /\ C \in SUBSET Channel
    BY <1>1, <1>2 DEF PersistenceTypeOK
  <2> HIDE DEF C
  <2>2. /\ Announced(c, p, protected \cup {c}, C, {})
        /\ UNCHANGED <<nickname, identities, lastSaved, harmed>>
    BY <1>8 DEF HandleProtectedAnnounce, C
  <2> QED
    BY <1>4, <2>1, <2>2
<1> QED
  BY <1>5, <1>6, <1>7, <1>8

LEMMA SaveStops ==
    ASSUME PersistenceInv, SaveEnds \/ SaveFails \/ Crash
    PROVE  PersistenceInv'
<1>1. PersistenceTypeOK /\ Unharmed /\ Forgetful
  BY DEF PersistenceInv
<1>2. CASE SaveEnds
  <2>1. PersistenceTypeOK'
    BY <1>1, <1>2, StateTypes, ForgottenType DEF SaveEnds, AfterSave, PersistenceTypeOK
  <2>2. Unharmed'
    BY <1>1, <1>2 DEF SaveEnds, AfterSave, Forgotten, Unharmed
  <2> QED
    BY <1>2, <2>1, <2>2 DEF SaveEnds, AfterSave, Forgotten, PersistenceInv, Forgetful
<1>3. CASE SaveFails
  <2>1. PersistenceTypeOK'
    BY <1>1, <1>3, ForgottenType DEF SaveFails, AfterSave, PersistenceTypeOK
  <2> QED
    BY <1>3, <2>1
    DEF SaveFails, AfterSave, Forgotten, Unharmed, Forgetful, PersistenceInv
<1>4. CASE Crash
  <2>1. PersistenceTypeOK'
    BY <1>1, <1>4, ForgottenType DEF Crash, PersistenceTypeOK
  <2>2. Unharmed'
    BY <1>1, <1>4 DEF Crash, Forgotten, Unharmed, PersistenceTypeOK
  <2> QED
    BY <1>4, <2>1, <2>2 DEF Crash, Forgotten, PersistenceInv, Forgetful
<1> QED
  BY <1>2, <1>3, <1>4

(* The invariant holds of every reachable state.                           *)
THEOREM PersistenceInvariant == PersistenceSpec => []PersistenceInv
<1>1. PersistenceInit => PersistenceInv
  <2> SUFFICES ASSUME PersistenceInit PROVE PersistenceInv
    OBVIOUS
  <2>1. /\ process = "down" /\ app = Fresh /\ harmed = FALSE
        /\ nickname = NoName /\ protected = {} /\ keys = {} /\ discovered = {}
    BY DEF PersistenceInit
  <2>2. Fresh.passwords = {} /\ {0, 1} \subseteq 0..MaxIdentity
    BY DEF Fresh
  <2>3. CASE /\ file = [form |-> "absent", state |-> Fresh]
             /\ identities = 0 /\ lastSaved = Fresh
    <3>1. file \in [form : {"absent", "torn", "whole"}, state : AppState]
      BY <2>3, StateTypes
    <3>2. PersistenceTypeOK
      BY <2>1, <2>2, <2>3, <3>1, StateTypes DEF PersistenceTypeOK
    <3> QED
      BY <2>1, <2>3, <3>2 DEF PersistenceInv, Unharmed, Forgetful
  <2>4. ASSUME NEW C \in SUBSET Channel,
               lastSaved = [Fresh EXCEPT !.protected = C, !.passwords = C, !.identity = 1],
               file = Whole(lastSaved), identities = 1
        PROVE  PersistenceInv
    <3>1. lastSaved = [nickname |-> NoName, protected |-> C, commitments |-> {},
                       passwords |-> C, creators |-> [c \in Channel |-> NoName],
                       identity |-> 1]
      BY <2>4 DEF Fresh
    <3>2. lastSaved \in AppState /\ lastSaved.identity = 1
      BY <2>2, <3>1 DEF AppState
    <3>3. PersistenceTypeOK
      BY <2>1, <2>2, <2>4, <3>2, StateTypes DEF PersistenceTypeOK
    <3> QED
      BY <2>1, <2>4, <3>2, <3>3 DEF PersistenceInv, Unharmed, Forgetful
  <2> QED
    BY <2>3, <2>4 DEF PersistenceInit
<1>2. PersistenceInv /\ [PersistenceNext]_persistenceVars => PersistenceInv'
  <2> SUFFICES ASSUME PersistenceInv, [PersistenceNext]_persistenceVars
               PROVE  PersistenceInv'
    OBVIOUS
  <2>1. CASE UNCHANGED persistenceVars
    BY <2>1 DEF persistenceVars, PersistenceInv, PersistenceTypeOK, Unharmed, Forgetful
  <2>2. CASE PersistenceNext
    BY <2>2, LoadingStep, SaveStarts, SaveStops
    DEF PersistenceNext, StopSaving, SetName, HandleOpenAnnounce, HandleProtectedAnnounce
  <2> QED
    BY <2>1, <2>2
<1> QED
  BY <1>1, <1>2, PTL DEF PersistenceSpec

----------------------------------------------------------------------------
(* The state of the node and of its file is well typed, and channel keys   *)
(* come from saved passwords only.                                         *)
THEOREM PersistenceTypeCorrect == PersistenceSpec => []PersistenceTypeOK
BY PersistenceInvariant, PTL DEF PersistenceInv

(* ChannelsOnDisk for any number of channels and creators: between saves   *)
(* the file has protection, commitment and creator of every channel as the *)
(* node has them (mesh.py:590-603), unless a save was cut short.           *)
THEOREM ChannelsAreOnDisk == PersistenceSpec => []ChannelsOnDisk
<1>1. PersistenceInv => ChannelsOnDisk
  BY DEF PersistenceInv, Unharmed, ChannelsOnDisk, Whole
<1> QED
  BY <1>1, PersistenceInvariant, PTL

(* IdentityKept through any number of restarts and crashes: the identity   *)
(* key is generated once (persistence.py:79-87), unless a save was cut     *)
(* short.                                                                  *)
THEOREM IdentityIsKept == PersistenceSpec => []IdentityKept
<1>1. PersistenceInv => IdentityKept
  BY DEF PersistenceInv, Unharmed, IdentityKept, Whole
<1> QED
  BY <1>1, PersistenceInvariant, PTL
=============================================================================

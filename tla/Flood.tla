-------------------------------- MODULE Flood --------------------------------
(***************************************************************************)
(* Flooding in daemon/mesh.py: a packet that a node passes on is written   *)
(* to all its connections after a short random delay, with its TTL one     *)
(* lower.  Chat messages are recognised by their id when they come again;  *)
(* LEAVE packets and acknowledgements for others are not.  A copy stays on *)
(* a link for as long as TCP takes, so copies overtake each other on       *)
(* different paths.                                                        *)
(***************************************************************************)
EXTENDS Naturals, FiniteSets

CONSTANTS
    Node,       \* daemons
    Link,       \* pairs <<m, n>> with a connection, both ways
    Packet,     \* packets, told apart by message id
    Kind,       \* Kind[k]: "message" (to everyone), "leave" or "ack"
    Origin,     \* Origin[k]: its sender_id
    Recipient,  \* Recipient[k]: whom an acknowledgement is for
    FirstTTL,   \* FirstTTL[k]: 7 for messages and LEAVE, 3 for acknowledgements
    Blocks,     \* pairs <<n, o>>: o's fingerprint is in n's blocked_peers
    Fragile,    \* the links that may break
    Capacity,   \* Capacity[n]: what the Bloom filter of n is made for, 5000
    MaxSent     \* bound: packets sent in one behaviour

TTLs == UNION {1..FirstTTL[k] : k \in Packet}

ASSUME FloodAssumption ==
    /\ Link \subseteq Node \X Node
    /\ \A m, n \in Node : <<m, n>> \in Link => m # n /\ <<n, m>> \in Link
    /\ Kind \in [Packet -> {"message", "leave", "ack"}]
    /\ Origin \in [Packet -> Node]
    /\ Recipient \in [Packet -> Node]
    /\ FirstTTL \in [Packet -> Nat \ {0}]
    /\ Blocks \subseteq Node \X Node
    /\ Fragile \subseteq Link
    /\ Capacity \in [Node -> Nat]
    /\ MaxSent \in Nat

VARIABLES
    up,         \* the links that are up
    sent,       \* packets their origin has sent
    flight,     \* flight[<<l, k, t>>]: copies of k with TTL t on link l
    relaying,   \* relaying[<<n, k, t>>]: calls of _relay asleep at n
    processed,  \* processed[n]: processed_messages
    handled     \* handled[n][k]: how often a handler of n acted on k, 0..2

floodVars == <<up, sent, flight, relaying, processed, handled>>

FloodTypeOK ==
    /\ up \in SUBSET Link
    /\ sent \in SUBSET Packet
    /\ flight \in [Link \X Packet \X TTLs -> Nat]
    /\ relaying \in [Node \X Packet \X TTLs -> Nat]
    /\ processed \in [Node -> SUBSET Packet]
    /\ handled \in [Node -> [Packet -> 0..2]]
    /\ \A x \in DOMAIN flight : flight[x] > 0 => x[1] \in up /\ x[2] \in sent

FloodInit ==
    /\ up = Link
    /\ sent = {}
    /\ flight = [x \in Link \X Packet \X TTLs |-> 0]
    /\ relaying = [x \in Node \X Packet \X TTLs |-> 0]
    /\ processed = [n \in Node |-> {}]
    /\ handled = [n \in Node |-> [k \in Packet |-> 0]]

----------------------------------------------------------------------------
(* flight with one more copy of k on each link of a set                    *)
Written(links, k, t) ==
    [x \in DOMAIN flight |->
       IF x[1] \in links /\ x[2] = k /\ x[3] = t THEN flight[x] + 1 ELSE flight[x]]

LinksOf(n) == {l \in up : l[1] = n}

(* send_public_message and send_leave write to every connection, an        *)
(* acknowledgement goes to the one its recipient was last heard on.        *)
Send(k) ==
    /\ k \notin sent /\ Cardinality(sent) < MaxSent
    /\ sent' = sent \cup {k}
    /\ \/ /\ Kind[k] # "ack"
          /\ flight' = Written(LinksOf(Origin[k]), k, FirstTTL[k])
       \/ /\ Kind[k] = "ack"
          /\ \E l \in LinksOf(Origin[k]) : flight' = Written({l}, k, FirstTTL[k])
    /\ UNCHANGED <<up, relaying, processed, handled>>

TakenOff(l, k, t) ==
    /\ flight[<<l, k, t>>] > 0
    /\ flight' = [flight EXCEPT ![<<l, k, t>>] = @ - 1]
    /\ UNCHANGED <<up, sent>>

(* The relay at the end of a handler: packet.ttl > 1.                      *)
Scheduled(n, k, t) ==
    relaying' = IF t > 1 THEN [relaying EXCEPT ![<<n, k, t>>] = @ + 1] ELSE relaying

(* The count stops at two: the properties only ask whether it passes one.  *)
Acted(n, k) ==
    handled' = [handled EXCEPT ![n][k] = IF @ < 2 THEN @ + 1 ELSE @]

DiscardsSelfOnly(n, k) == n = Origin[k]

DiscardsAllButSelf(n, k) ==
    \/ Kind[k] = "message" /\ <<n, Origin[k]>> \in Blocks
    \/ Kind[k] = "message" /\ k \in processed[n]

(* BloomFilter.add raises once its count has passed the capacity.          *)
BloomFull(n) == Cardinality(processed[n]) > Capacity[n]

(* A packet that comes back to its sender, a message of a blocked peer, a  *)
(* message whose id is known and, for the exception is caught and ignored, *)
(* every message once the Bloom filter is full are dropped.                *)
Discards(n, k) ==
    \/ n = Origin[k]
    \/ Kind[k] = "message" /\ <<n, Origin[k]>> \in Blocks
    \/ Kind[k] = "message" /\ k \in processed[n]
    \/ Kind[k] = "message" /\ BloomFull(n)

DropPacket(l, k, t) ==
    /\ Discards(l[2], k)
    /\ TakenOff(l, k, t)
    /\ UNCHANGED <<relaying, processed, handled>>

(* _handle_message for a message to everyone                               *)
HandleMessage(l, k, t) ==
    /\ Kind[k] = "message" /\ ~Discards(l[2], k)
    /\ TakenOff(l, k, t)
    /\ processed' = [processed EXCEPT ![l[2]] = @ \cup {k}]
    /\ Acted(l[2], k)
    /\ Scheduled(l[2], k, t)

(* _handle_leave                                                           *)
HandleLeave(l, k, t) ==
    /\ Kind[k] = "leave" /\ ~Discards(l[2], k)
    /\ TakenOff(l, k, t)
    /\ Acted(l[2], k)
    /\ Scheduled(l[2], k, t)
    /\ UNCHANGED processed

(* _handle_delivery_ack                                                    *)
HandleDeliveryAck(l, k, t) ==
    /\ Kind[k] = "ack" /\ ~Discards(l[2], k)
    /\ TakenOff(l, k, t)
    /\ \/ l[2] = Recipient[k] /\ Acted(l[2], k) /\ UNCHANGED relaying
       \/ l[2] # Recipient[k] /\ Scheduled(l[2], k, t) /\ UNCHANGED handled
    /\ UNCHANGED processed

RelaySameTTL(n, k, t) ==
    /\ relaying[<<n, k, t>>] > 0
    /\ relaying' = [relaying EXCEPT ![<<n, k, t>>] = @ - 1]
    /\ flight' = Written(LinksOf(n), k, t)
    /\ UNCHANGED <<up, sent, processed, handled>>

(* _relay after its sleep; the connection the copy came by is not left out.*)
Relay(n, k, t) ==
    /\ relaying[<<n, k, t>>] > 0
    /\ relaying' = [relaying EXCEPT ![<<n, k, t>>] = @ - 1]
    /\ flight' = Written(LinksOf(n), k, t - 1)
    /\ UNCHANGED <<up, sent, processed, handled>>

(* A connection breaks and loses what it carries.                          *)
Cut(l) ==
    /\ l \in Fragile \cap up
    /\ up' = up \ {l, <<l[2], l[1]>>}
    /\ flight' = [x \in DOMAIN flight |-> IF x[1] \in up' THEN flight[x] ELSE 0]
    /\ UNCHANGED <<sent, relaying, processed, handled>>

Arrives(l, k, t) ==
    \/ DropPacket(l, k, t) \/ HandleMessage(l, k, t)
    \/ HandleLeave(l, k, t) \/ HandleDeliveryAck(l, k, t)

(* Any copy on a link may be the next that arrives, any sleeping relay the *)
(* next that wakes up.                                                     *)
Arrival == \E x \in {y \in DOMAIN flight : flight[y] > 0} : Arrives(x[1], x[2], x[3])

Wakeup == \E x \in {y \in DOMAIN relaying : relaying[y] > 0} : Relay(x[1], x[2], x[3])

FloodNext ==
    \/ \E k \in Packet : Send(k)
    \/ Arrival
    \/ Wakeup
    \/ \E l \in Link : Cut(l)

FloodSpec == FloodInit /\ [][FloodNext]_floodVars

(* TCP brings what it carries or a sleeping task wakes up, as long as      *)
(* there is either; nothing is said about which is first.                  *)
FloodFairness ==
    WF_floodVars(Arrival \/ Wakeup)

FairFloodSpec == FloodSpec /\ FloodFairness

----------------------------------------------------------------------------
(* Properties                                                              *)

Messages == {k \in Packet : Kind[k] = "message"}

(* Every node hands a chat message on at most once, however many copies    *)
(* arrive and whichever is first (mesh.py:455-457).                        *)
MessageOnce ==
    \A n \in Node, k \in Messages :
      handled[n][k] = IF k \in processed[n] THEN 1 ELSE 0

(* The nodes at most d links away from o                                   *)
Ball(o, d) ==
    {n \in Node :
       \E path \in [0..d -> Node] :
         /\ path[0] = o /\ path[d] = n
         /\ \A i \in 1..d : path[i] = path[i - 1] \/ <<path[i - 1], path[i]>> \in Link}

InRange == [k \in Packet |-> Ball(Origin[k], FirstTTL[k])]

(* A packet acts only on nodes within its TTL of the origin, through all   *)
(* relays (mesh.py:542-549).                                               *)
TTLRange ==
    \A n \in Node, k \in Packet :
      handled[n][k] > 0 => n \in InRange[k]

Settled == /\ \A x \in DOMAIN flight : flight[x] = 0
           /\ \A x \in DOMAIN relaying : relaying[x] = 0

(* All traffic dies out, that of packets without duplicate detection too.  *)
FloodSettles == <>[]Settled

(* Flooding implements the broadcast that Broadcast specifies.             *)
Promise ==
    INSTANCE Broadcast WITH Message <- Messages, From <- Origin,
                            sentMessages <- sent \cap Messages,
                            reached <- processed

ImplementsBroadcast == Promise!BroadcastSpec
=============================================================================

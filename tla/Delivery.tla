------------------------------ MODULE Delivery ------------------------------
(***************************************************************************)
(* A node receives packets that other nodes made in the formats of Wire,   *)
(* whole or in fragments, relayed and so repeated, in any order and with   *)
(* gaps.  The node is either the daemon (daemon/mesh.py) or the chat       *)
(* client (bitchat.py); both parse, ignore their own packets, tell         *)
(* messages apart by id and learn peers from announcements, and only the   *)
(* client manages to put fragments together.  A frame that never leaves    *)
(* the air is a lost one.                                                  *)
(***************************************************************************)
EXTENDS Wire, SequencesExt

CONSTANTS
    Item,      \* what is sent, by name
    Kind,      \* Kind[x]: "message" or "identity"
    Sender,    \* Sender[x]: the 8-byte id of the node that sends x
    Body,      \* Body[x]: the fields of the message or of the announcement
    FragmentId, \* FragmentId[x]: os.urandom(8) of x, should it be cut
    Me,        \* my_peer_id
    Program,   \* what the node may run: "daemon", "client"
    MaxRelays  \* bound: copies other nodes relay

ASSUME DeliveryAssumption ==
    /\ Kind \in [Item -> {"message", "identity"}]
    /\ Sender \in [Item -> Id]
    /\ \A x \in Item :
         Body[x] \in IF Kind[x] = "message" THEN ChatMessage ELSE Announcement
    /\ FragmentId \in [Item -> Id]
    /\ \A x, y \in Item : FragmentId[x] = FragmentId[y] => x = y
    /\ Me \in Id
    /\ Program \subseteq {"daemon", "client"}
    /\ MaxRelays \in Nat

VARIABLES
    program,    \* the program that runs
    sent,       \* items whose sender has tried to send them
    air,        \* frames under way: <<item, part, ttl>>, part 0 the whole
    relays,     \* copies relayed so far
    fragments,  \* fragment_collector.fragments: parts by id and index
    shown,      \* the messages handed to on_message or displayed, in order
    processed,  \* processed_messages
    learned,    \* peers: ids and nicknames
    located,    \* keys of peer_addresses, of the daemon only
    handled     \* history: <<item, part>> of the frames handled

receiverVars == <<fragments, shown, processed, learned, located>>
deliveryVars == <<program, sent, air, relays, receiverVars, handled>>

----------------------------------------------------------------------------
(* Senders                                                                 *)

(* id.hex().encode()                                                       *)
Hex(id) ==
    [i \in 1..(2 * Len(id)) |->
       LET b == id[(i + 1) \div 2]
           n == IF i % 2 = 1 THEN b \div 16 ELSE b % 16
       IN  IF n < 10 THEN 48 + n ELSE 87 + n]

(* A message goes out unsigned, an announcement with its signature.        *)
Whole(x) ==
    IF Kind[x] = "message"
    THEN CreatePacket(Sender[x], {}, MESSAGE,
                      MessagePayload(Body[x], Hex(Sender[x])), <<>>, 7)
    ELSE CreatePacket(Sender[x], {}, ANNOUNCEMENT, EncodeIdentity(Body[x]),
                      Body[x].signature, 7)

CanSend(x) ==
    IF Kind[x] = "message"
    THEN CanCreateMessage(Body[x]) /\ CanCreate(MessagePayload(Body[x], Hex(Sender[x])))
    ELSE CanEncodeIdentity(Body[x])

Sendable == {x \in Item : CanSend(x)}

(* os.urandom(8) gives every fragmented packet an id of its own.           *)
Parts == [x \in {y \in Sendable : ShouldFragment(Whole(y))} |->
            FragmentPackets(Sender[x], Whole(x), FragmentId[x], 9)]

Frame(f) ==
    LET made == IF f[2] = 0 THEN Whole(f[1]) ELSE Parts[f[1]][f[2]]
    IN  [made EXCEPT ![3] = f[3]]

----------------------------------------------------------------------------
DeliveryTypeOK ==
    /\ program \in Program
    /\ sent \in SUBSET Item
    /\ \A f \in air : f[1] \in sent \cap Sendable /\ f[3] \in 1..7 /\ CanParse(Frame(f))
    /\ relays \in 0..MaxRelays
    /\ \A e \in fragments : Len(e.id) = 8 /\ Len(e.data) \in 1..FragmentSize
    /\ \A i \in DOMAIN shown : shown[i].message.id \in processed
    /\ \A a \in learned : Len(a.id) = IdSize
    /\ \A id \in located : Len(id) <= IdSize
    /\ \A h \in handled : h[1] \in sent

DeliveryInit ==
    /\ program \in Program
    /\ sent = {} /\ air = {} /\ relays = 0
    /\ fragments = {}
    /\ shown = <<>> /\ processed = {}
    /\ learned = {} /\ located = {}
    /\ handled = {}

(* Transport.send_packet has two bytes for the length of a packet.         *)
Framed == {x \in Sendable : Len(Whole(x)) < 65536}

(* The client cuts what is too long for one write.  A daemon never does,   *)
(* another implementation of the protocol it talks to may.  A message that *)
(* cannot be packed or framed raises before anything is sent.              *)
Send(x) ==
    /\ x \notin sent
    /\ sent' = sent \cup {x}
    /\ \/ /\ IF program = "daemon" THEN x \in Framed ELSE x \in Sendable \ DOMAIN Parts
          /\ air' = air \cup {<<x, 0, 7>>}
       \/ /\ x \in DOMAIN Parts
          /\ air' = air \cup {<<x, i, 7>> : i \in DOMAIN Parts[x]}
       \/ /\ IF program = "daemon" THEN x \notin Framed ELSE x \notin Sendable
          /\ UNCHANGED air
    /\ UNCHANGED <<program, relays, receiverVars, handled>>

(* Another node hears a frame and writes it again with its TTL lowered,    *)
(* unless it is spent.                                                     *)
Relay(f) ==
    /\ f[3] > 1
    /\ relays < MaxRelays
    /\ relays' = relays + 1
    /\ air' = air \cup {<<f[1], f[2], f[3] - 1>>}
    /\ UNCHANGED <<program, sent, receiverVars, handled>>

----------------------------------------------------------------------------
(* The node                                                                *)

(* A message to everyone is shown unless its id is known.                  *)
HandleMessage(p) ==
    LET m == ParseMessagePayload(p.payload)
    IN  IF m.id \in processed THEN UNCHANGED <<processed, shown>>
        ELSE /\ processed' = processed \cup {m.id}
             /\ shown' = Append(shown, [from |-> p.sender, message |-> m])

(* The announced id, not the sender of the packet, names the peer.         *)
HandleIdentityAnnounce(p) ==
    LET a == ParseIdentity(p.payload)
    IN  learned' = {e \in learned : e.id # a.peerId}
                     \cup {[id |-> a.peerId, nickname |-> a.nickname]}

HandlePacket(p) ==
    \/ p.type = MESSAGE /\ HandleMessage(p) /\ UNCHANGED learned
    \/ p.type = ANNOUNCEMENT /\ HandleIdentityAnnounce(p)
         /\ UNCHANGED <<processed, shown>>

(* The parts of one packet, joined by index                                *)
Joined(parts, total) ==
    FlattenSeq([i \in 1..total |->
      (CHOOSE e \in parts : e.index = i - 1).data])

StoredByIndex(part) == {e \in fragments : e.index # part.index} \cup {part}

(* fragment_map[index] = data                                              *)
Stored(part) ==
    {e \in fragments : ~(e.id = part.id /\ e.index = part.index)} \cup {part}

(* FragmentCollector.add_fragment, and the handling of the packet that is  *)
(* complete with this part.                                                *)
AddFragment(f) ==
    LET all == Stored([id |-> f.id, index |-> f.index, data |-> f.data])
        mine == {e \in all : e.id = f.id}
    IN  \/ /\ Cardinality(mine) = f.total
           /\ fragments' = all \ mine
           /\ HandlePacket(ParsePacket(Joined(mine, f.total)))
        \/ /\ Cardinality(mine) # f.total
           /\ fragments' = all
           /\ UNCHANGED <<processed, shown, learned>>

(* The daemon's handler stops with NameError: mesh.py does not import      *)
(* struct.                                                                 *)
HandleFragment(p) ==
    \/ program = "client" /\ AddFragment(ParseFragment(p.payload))
    \/ program = "daemon" /\ UNCHANGED <<fragments, processed, shown, learned>>

Ignores(p) == p.sender = Me

(* _on_packet_received of the daemon, notification_handler of the client.  *)
(* What the node has sent itself comes back only from a relay.             *)
Receive(f) ==
    LET p == ParsePacket(Frame(f))
    IN  /\ Sender[f[1]] = Me => f[3] < 7
        /\ air' = air \ {f}
        /\ handled' = handled \cup {<<f[1], f[2]>>}
        /\ located' = IF program = "client" \/ Ignores(p) THEN located
                      ELSE located \cup {p.sender}
        /\ \/ Ignores(p) /\ UNCHANGED <<fragments, processed, shown, learned>>
           \/ ~Ignores(p) /\ p.type \notin FRAGMENTS
                /\ HandlePacket(p) /\ UNCHANGED fragments
           \/ ~Ignores(p) /\ p.type \in FRAGMENTS /\ HandleFragment(p)
        /\ UNCHANGED <<program, sent, relays>>

DeliveryNext ==
    \/ \E x \in Item : Send(x)
    \/ \E f \in air : Relay(f) \/ Receive(f)

DeliverySpec == DeliveryInit /\ [][DeliveryNext]_deliveryVars

----------------------------------------------------------------------------
(* Properties                                                              *)

(* What is shown was sent by another node, to the byte, and is shown once: *)
(* id, text, channel and encryption flag come through packing, padding,    *)
(* cutting, relays, reordering and joining, under the id of the node that  *)
(* sent it; frames that come again, whole or in parts, and what comes back *)
(* from relays are recognised (protocol.py:221-344, mesh.py:192, 455-457,  *)
(* bitchat.py:604, 741-744).                                               *)
ShownExact ==
    /\ \A i \in DOMAIN shown : \E x \in sent :
         LET m == shown[i].message IN
         /\ Kind[x] = "message"
         /\ Sender[x] # Me
         /\ shown[i].from = Stripped(Sender[x])
         /\ m.id = Body[x].id /\ m.channel = Body[x].channel
         /\ m.encrypted = Body[x].encrypted
         /\ (IF m.encrypted THEN m.cipher ELSE m.content) = Text(Body[x])
    /\ \A i, j \in DOMAIN shown :
         shown[i].message.id = shown[j].message.id => i = j

(* README.md:13, "large messages are fragmented and reassembled            *)
(* automatically", for the client: a message of another node is shown, and *)
(* an announcement known, by the time each of its parts was handled, in    *)
(* whatever order and with repetitions (protocol.py:168-205,               *)
(* bitchat.py:822-838).                                                    *)
LargeShown ==
    program = "client" =>
      \A x \in DOMAIN Parts :
        Sender[x] # Me /\ (\A i \in DOMAIN Parts[x] : <<x, i>> \in handled) =>
          IF Kind[x] = "message" THEN Body[x].id \in processed
          ELSE \E a \in learned : a.id = Body[x].peerId

(* README.md:178, "Peer Table: tracks peer_id -> address": a peer that the *)
(* daemon lists after an announcement has an address under the very id it  *)
(* is listed with (mesh.py:197, 319-325), so that _send_to_peer finds it.  *)
PeerAddressed ==
    program = "daemon" => \A a \in learned : a.id \in located
=============================================================================

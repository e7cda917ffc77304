--------------------------- MODULE DeliveryProofs ---------------------------
(* Machine-checked facts about Delivery, for any items of any size, any    *)
(* number of relays, and frames that come in any order, again or never:    *)
(* what is shown is what was sent, large packets are put together, and a   *)
(* listed peer has an address.                                             *)
EXTENDS Delivery, WireProofs

----------------------------------------------------------------------------
(* Items and what is made of them                                          *)

(* Type, payload and signature of the packet of an item                    *)
TypeOf(x) == IF Kind[x] = "message" THEN MESSAGE ELSE ANNOUNCEMENT
Payload(x) ==
    IF Kind[x] = "message" THEN MessagePayload(Body[x], Hex(Sender[x]))
    ELSE EncodeIdentity(Body[x])
Signature(x) == IF Kind[x] = "message" THEN <<>> ELSE Body[x].signature

(* The parts of an item as fragment_collector keeps them                   *)
Entry(x, i) ==
    [id |-> FragmentId[x], index |-> i - 1, data |-> Chunks(Whole(x))[i]]
Entries(x) == {Entry(x, i) : i \in 1..Count(Whole(x))}

(* id.hex() has 16 characters.                                             *)
LEMMA HexSeq ==
    ASSUME NEW id \in Id
    PROVE  Hex(id) \in Seq(Byte) /\ Len(Hex(id)) \in Byte
<1>1. id \in [1..8 -> 0..255] /\ Len(id) = 8
  BY PaddedId DEF Id, IdSize, Byte
<1> DEFINE H(i) == LET b == id[(i + 1) \div 2]
                       n == IF i % 2 = 1 THEN b \div 16 ELSE b % 16
                   IN  IF n < 10 THEN 48 + n ELSE 87 + n
           h == [i \in 1..16 |-> H(i)]
<1>2. ASSUME NEW i \in 1..16 PROVE H(i) \in Byte
  <2> DEFINE j == (i + 1) \div 2
             b == id[j]
             n == IF i % 2 = 1 THEN b \div 16 ELSE b % 16
  <2>1. j \in 1..8
    OBVIOUS
  <2> HIDE DEF j
  <2>2. b \in 0..255
    BY <1>1, <2>1
  <2> HIDE DEF b
  <2>3. n \in 0..15
    BY <2>2
  <2> HIDE DEF n
  <2>4. (IF n < 10 THEN 48 + n ELSE 87 + n) \in 0..255
    BY <2>3
  <2> QED
    BY <2>4 DEF n, b, j, Byte
<1>3. Hex(id) = h
  <2>1. 2 * Len(id) = 16
    BY <1>1
  <2> QED
    BY <2>1, Zenon DEF Hex
<1> HIDE DEF H
<1>4. h = [i \in 1..16 |-> h[i]] /\ \A i \in 1..16 : h[i] \in Byte
  BY <1>2
<1> HIDE DEF h
<1>5. 16 \in Nat /\ 16 \in Byte
  BY DEF Byte
<1>6. h \in Seq(Byte) /\ Len(h) = 16
  BY <1>4, <1>5, Table
<1> QED
  BY <1>3, <1>5, <1>6, Zenon

(* What the assumption says of one item                                    *)
LEMMA ItemFacts ==
    ASSUME NEW x \in Item
    PROVE  /\ Sender[x] \in Id /\ FragmentId[x] \in Id
           /\ Kind[x] = "message" => Body[x] \in ChatMessage
           /\ Kind[x] # "message" => Kind[x] = "identity" /\ Body[x] \in Announcement
           /\ \A y \in Item : FragmentId[x] = FragmentId[y] => x = y
<1>1. Kind[x] = "message" \/ Kind[x] = "identity"
  BY DeliveryAssumption
<1>2. Body[x] \in IF Kind[x] = "message" THEN ChatMessage ELSE Announcement
  BY DeliveryAssumption, Zenon
<1>3. Sender[x] \in Id /\ FragmentId[x] \in Id
  BY DeliveryAssumption
<1>4. \A y \in Item : FragmentId[x] = FragmentId[y] => x = y
  BY DeliveryAssumption, Zenon
<1> QED
  BY <1>1, <1>2, <1>3, <1>4, Zenon

(* What a sendable item is made into fits the formats.                     *)
LEMMA PayloadFacts ==
    ASSUME NEW x \in Sendable
    PROVE  /\ x \in Item /\ Sender[x] \in Id /\ TypeOf(x) \in MessageType \ FRAGMENTS
           /\ Payload(x) \in Seq(Byte) /\ CanCreate(Payload(x))
           /\ Signature(x) \in Seq(Byte) /\ Len(Signature(x)) <= 64
           /\ Whole(x) = CreatePacket(Sender[x], {}, TypeOf(x), Payload(x), Signature(x), 7)
<1>1. x \in Item /\ CanSend(x)
  BY DEF Sendable
<1>2. TypeOf(x) \in MessageType \ FRAGMENTS
  BY DEF TypeOf, MessageType, FRAGMENTS, MESSAGE, ANNOUNCEMENT
<1>3. CASE Kind[x] = "message"
  <2>1. Body[x] \in ChatMessage /\ Sender[x] \in Id
    BY <1>1, <1>3, ItemFacts, Zenon
  <2>2. Hex(Sender[x]) \in Seq(Byte) /\ Len(Hex(Sender[x])) \in Byte
    BY <2>1, HexSeq, Zenon
  <2>3. CanCreateMessage(Body[x]) /\ CanCreate(MessagePayload(Body[x], Hex(Sender[x])))
    BY <1>1, <1>3, Zenon DEF CanSend
  <2>4. MessagePayload(Body[x], Hex(Sender[x])) \in Seq(Byte)
    BY <2>1, <2>2, <2>3, MessageLaid, Zenon
  <2>5. /\ TypeOf(x) = MESSAGE /\ Payload(x) = MessagePayload(Body[x], Hex(Sender[x]))
        /\ Signature(x) = <<>>
    BY <1>3, Zenon DEF TypeOf, Payload, Signature
  <2>6. Whole(x) = CreatePacket(Sender[x], {}, TypeOf(x), Payload(x), Signature(x), 7)
    BY <1>3, <2>5, Zenon DEF Whole
  <2>7. Signature(x) \in Seq(Byte) /\ Len(Signature(x)) <= 64
    BY <2>5
  <2> QED
    BY <1>1, <1>2, <2>1, <2>3, <2>4, <2>5, <2>6, <2>7, Zenon
<1>4. CASE Kind[x] # "message"
  <2>1. Body[x] \in Announcement /\ Sender[x] \in Id
    BY <1>1, <1>4, ItemFacts, Zenon
  <2>2. CanEncodeIdentity(Body[x])
    BY <1>1, <1>4, Zenon DEF CanSend
  <2>3. EncodeIdentity(Body[x]) \in Seq(Byte) /\ CanCreate(EncodeIdentity(Body[x]))
    BY <2>1, <2>2, IdentityLaid, Zenon
  <2>5. /\ TypeOf(x) = ANNOUNCEMENT /\ Payload(x) = EncodeIdentity(Body[x])
        /\ Signature(x) = Body[x].signature
    BY <1>4, Zenon DEF TypeOf, Payload, Signature
  <2>6. Whole(x) = CreatePacket(Sender[x], {}, TypeOf(x), Payload(x), Signature(x), 7)
    BY <1>4, <2>5, Zenon DEF Whole
  <2>7. Signature(x) \in Seq(Byte) /\ Len(Signature(x)) <= 64
    <3>1. Body[x].signature \in Seq(Byte) /\ Len(Body[x].signature) = 64
      BY <2>1, <2>2, IdentityFacts
    <3> QED
      BY <2>5, <3>1
  <2> QED
    BY <1>1, <1>2, <2>1, <2>3, <2>5, <2>6, <2>7, Zenon
<1> QED
  BY <1>3, <1>4, Zenon

(* The packet of an item is laid out by the format and can be cut.         *)
LEMMA WholeLaid ==
    ASSUME NEW x \in Sendable
    PROVE  /\ PacketLaid(Whole(x), Sender[x], To({}, TypeOf(x)), TypeOf(x), Payload(x),
                         Signature(x))
           /\ Whole(x)[3] = 7 /\ Whole(x) \in Seq(Byte)
           /\ Len(Whole(x)) > 0 /\ CanCount(Whole(x))
<1> DEFINE s == Sender[x]
           y == TypeOf(x)
           p == Payload(x)
           g == Signature(x)
           w == Whole(x)
           r == 7
<1>1. s \in Id /\ y \in MessageType /\ p \in Seq(Byte) /\ CanCreate(p) /\ g \in Seq(Byte)
      /\ w = CreatePacket(s, {}, y, p, g, r) /\ y \notin FRAGMENTS
  BY PayloadFacts, Zenon
<1>2. Len(g) <= 64 /\ Len(g) \in Nat /\ Len(p) \in Nat
  BY PayloadFacts
<1>3. y \in Byte /\ r \in Byte
  <2>1. r \in Byte
    BY DEF Byte
  <2> QED
    BY <1>1, <2>1, TypeByte
<1> HIDE DEF s, y, p, g, w, r
<1>4. PacketLaid(w, s, To({}, y), y, p, g) /\ w[3] = 7
  BY <1>1, <1>3, NoRecipient, CreateLays
<1>5. w \in Seq(Byte) /\ Len(w) \in Nat
      /\ Len(w) >= Start(To({}, y)) - 1 + Len(p) + Len(g)
      /\ Len(w) <= Start(To({}, y)) - 1 + Len(p) + Len(g) + 255
  BY <1>4, Zenon DEF PacketLaid
<1>6. Start(To({}, y)) = 31
  <2>1. To({}, y) = BROADCAST
    BY <1>1, ToAll, Zenon
  <2>2. Start(BROADCAST) = 31
    <3>1. Len(BROADCAST) = 8
      BY BroadcastSeq, Zenon
    <3> QED
      BY <3>1, SMT DEF Start
  <2> QED
    BY <2>1, <2>2, Zenon
<1>7. Len(p) < 65536
  BY <1>1, SMT DEF CanCreate
<1> DEFINE L == Len(w)
           lp == Len(p)
           lg == Len(g)
<1>8. L \in Nat /\ L > 0 /\ L < 150 * 65535
  <2>1. L \in Nat /\ lp \in Nat /\ lg \in Nat /\ L >= 31 - 1 + lp + lg
        /\ L <= 31 - 1 + lp + lg + 255 /\ lg <= 64 /\ lp < 65536
    BY <1>2, <1>5, <1>6, <1>7, SMT
  <2> HIDE DEF L, lp, lg
  <2> QED
    BY <2>1, SMT
<1>9. CanCount(w)
  <2>1. Count(w) = (L + 150 - 1) \div 150
    BY SMT DEF Count, FragmentSize
  <2> HIDE DEF L
  <2>2. Count(w) < 65536
    BY <1>8, <2>1, SMT
  <2> QED
    BY <2>2, SMT DEF CanCount
<1>10. Len(w) > 0
  BY <1>8, SMT
<1>11. w \in Seq(Byte)
  BY <1>5, Zenon
<1> QED
  BY <1>4, <1>9, <1>10, <1>11, Zenon DEF s, y, p, g, w

(* What a node reads from a whole packet, relayed or put together again    *)
LEMMA WholeRead ==
    ASSUME NEW x \in Sendable
    PROVE  /\ ParsePacket(Whole(x)) = Parsed(Sender[x], {}, TypeOf(x), Payload(x), 7)
           /\ \A ttl \in Byte :
                Reads(WithTTL(Whole(x), ttl), Parsed(Sender[x], {}, TypeOf(x), Payload(x), ttl))
<1> DEFINE s == Sender[x]
           y == TypeOf(x)
           p == Payload(x)
           g == Signature(x)
           w == Whole(x)
<1>1. s \in Id /\ y \in MessageType /\ y \in Byte /\ p \in Seq(Byte) /\ CanCreate(p)
      /\ g \in Seq(Byte)
  BY PayloadFacts, TypeByte
<1>2. PacketLaid(w, s, To({}, y), y, p, g) /\ w[3] = 7
  BY WholeLaid, Zenon
<1> HIDE DEF s, y, p, g, w
<1>a. {} \in Recipients /\ To({}, y) \in Seq(Byte)
  BY NoRecipient, ToSeq, Zenon
<1>3. ParsePacket(w) = Parsed(s, {}, y, p, 7)
  <2>1. ParsePacket(w) = Parsed(s, {}, y, p, w[3])
    BY <1>1, <1>2, <1>a, PacketRead
  <2> QED
    BY <1>2, <2>1, Zenon
<1>4. ASSUME NEW ttl \in Byte
      PROVE  Reads(WithTTL(w, ttl), Parsed(s, {}, y, p, ttl))
  <2> DEFINE e == WithTTL(w, ttl)
  <2>1. PacketLaid(e, s, To({}, y), y, p, g) /\ e[3] = ttl
    BY <1>1, <1>2, <1>a, RelayLays
  <2> HIDE DEF e
  <2>2. CanParse(e) /\ ParsePacket(e) = Parsed(s, {}, y, p, e[3])
    BY <1>1, <1>a, <2>1, PacketRead
  <2> QED
    BY <2>1, <2>2, Zenon DEF Reads, e
<1> QED
  BY <1>3, <1>4, Zenon DEF s, y, p, w

(* A node reads each fragment of an item as that part, after any relays.   *)
LEMMA PartRead ==
    ASSUME NEW x \in DOMAIN Parts
    PROVE  /\ x \in Sendable /\ DOMAIN Parts[x] = 1..Count(Whole(x))
           /\ Count(Whole(x)) \in Nat \ {0}
           /\ \A i \in DOMAIN Parts[x], ttl \in Byte :
                FragmentReads(WithTTL(Parts[x][i], ttl), Sender[x],
                              Part(Whole(x), FragmentId[x], i))
<1> DEFINE w == Whole(x)
           s == Sender[x]
           g == FragmentId[x]
           r == 9
           made == FragmentPackets(s, w, g, r)
<1>1. x \in Sendable
  BY DEF Parts
<1>2. Parts[x] = made
  BY Zenon DEF Parts
<1>3. w \in Seq(Byte) /\ Len(w) > 0 /\ CanCount(w)
  BY <1>1, WholeLaid, Zenon
<1>4. s \in Id /\ g \in Id
  BY <1>1, ItemFacts, PayloadFacts, Zenon
<1>5. r \in Byte
  BY DEF Byte
<1>6. Count(w) \in Nat \ {0}
  BY <1>3, ChunkEnds
<1> HIDE DEF w, s, g, r
<1>7. DOMAIN made = 1..Count(w)
  <2>1. DOMAIN Chunks(w) = 1..Count(w)
    BY <1>3, ChunkParts, Zenon
  <2> QED
    BY <2>1, Zenon DEF FragmentPackets
<1>8. ASSUME NEW i \in 1..Count(w), NEW ttl \in Byte
      PROVE  FragmentReads(WithTTL(made[i], ttl), s, Part(w, g, i))
  BY <1>3, <1>4, <1>5, FragmentRoundTrip, Zenon
<1> HIDE DEF made
<1> QED
  BY <1>1, <1>2, <1>6, <1>7, <1>8, Zenon DEF w, s, g

(* All parts, joined by index, are the packet.                             *)
LEMMA EntriesJoin ==
    ASSUME NEW x \in DOMAIN Parts
    PROVE  /\ Joined(Entries(x), Count(Whole(x))) = Whole(x)
           /\ IsFiniteSet(Entries(x)) /\ Cardinality(Entries(x)) = Count(Whole(x))
<1> DEFINE w == Whole(x)
           n == Count(w)
<1>1. x \in Sendable /\ n \in Nat \ {0}
  BY PartRead, Zenon
<1>2. w \in Seq(Byte) /\ Len(w) > 0
  BY <1>1, WholeLaid, Zenon
<1>3. \A i \in 1..n : /\ Entry(x, i) \in Entries(x) /\ Entry(x, i).index = i - 1
                      /\ Entry(x, i).data = Chunks(w)[i]
  BY DEF Entries, Entry
<1>4. \A i, j \in 1..n : i - 1 = j - 1 => i = j
  BY <1>1
<1>5. ASSUME NEW i \in 1..n
      PROVE  (CHOOSE e \in Entries(x) : e.index = i - 1).data = Chunks(w)[i]
  <2>1. \A e \in Entries(x) : e.index = i - 1 => e = Entry(x, i)
    <3> SUFFICES ASSUME NEW j \in 1..n, Entry(x, j).index = i - 1
                 PROVE  Entry(x, j) = Entry(x, i)
      BY DEF Entries
    <3>1. j - 1 = i - 1
      BY <1>3
    <3>2. j = i
      BY <1>4, <3>1, Zenon
    <3> QED
      BY <3>2
  <2>2. (CHOOSE e \in Entries(x) : e.index = i - 1) = Entry(x, i)
    BY <1>3, <2>1, Zenon
  <2> QED
    BY <1>3, <2>2, Zenon
<1>6. [i \in 1..n |-> (CHOOSE e \in Entries(x) : e.index = i - 1).data] = Chunks(w)
  <2>1. Chunks(w) = [i \in 1..n |-> Chunks(w)[i]]
    BY <1>2, ChunkParts, Zenon
  <2> QED
    BY <1>5, <2>1, Zenon
<1>7. Joined(Entries(x), n) = w
  <2>1. FlattenSeq(Chunks(w)) = w
    BY <1>2, ChunksJoin, Zenon
  <2> QED
    BY <1>6, <2>1, Zenon DEF Joined
<1>8. IsFiniteSet(Entries(x)) /\ Cardinality(Entries(x)) = n
  <2> DEFINE f == [i \in 1..n |-> Entry(x, i)]
  <2>1. IsFiniteSet(1..n) /\ Cardinality(1..n) = n
    <3>1. 1 \in Int /\ n \in Int /\ ~(1 > n) /\ n - 1 + 1 = n
      BY <1>1
    <3> HIDE DEF n
    <3> QED
      BY <3>1, FS_Interval
  <2>2. f \in Bijection(1..n, Entries(x))
    <3>1. f \in Surjection(1..n, Entries(x))
      BY DEF Surjection, Entries
    <3>2. \A i, j \in 1..n : f[i] = f[j] => i = j
      BY <1>3, <1>4
    <3> QED
      BY <3>1, <3>2 DEF Bijection, Injection, Surjection, IsInjective
  <2>3. IsFiniteSet(Entries(x)) /\ Cardinality(1..n) = Cardinality(Entries(x))
    <3> HIDE DEF n, f
    <3> QED
      BY <2>1, <2>2, FS_Bijection DEF ExistsBijection
  <2> QED
    BY <2>1, <2>3, Zenon
<1> QED
  BY <1>7, <1>8, Zenon

----------------------------------------------------------------------------
(* The inductive invariant                                                 *)

(* The node does not take x for one of its own packets.                    *)
Heard(x) == Stripped(Sender[x]) # Me

(* x has been shown, or the peer it announces is known.                    *)
Known(x) ==
    IF Kind[x] = "message" THEN Body[x].id \in processed
    ELSE \E a \in learned : a.id = Body[x].peerId

(* What is shown of message x                                              *)
ShownOf(x) == [from |-> Stripped(Sender[x]), message |-> ParsedMessage(Body[x])]

(* Frames in the air are whole packets or parts of what was sent.          *)
AirInv ==
    \A f \in air :
      /\ f = <<f[1], f[2], f[3]>>
      /\ f[1] \in sent \cap Sendable /\ f[3] \in 1..7
      /\ f[2] = 0 \/ (f[1] \in DOMAIN Parts /\ f[2] \in DOMAIN Parts[f[1]])

(* The collector holds parts of packets that other nodes have cut.         *)
StoreInv ==
    \A e \in fragments :
      \E x \in DOMAIN Parts : x \in sent /\ Heard(x) /\ e \in Entries(x)

(* A part that was handled is in the collector, or its packet is known.    *)
KeptInv ==
    program = "client" =>
      \A x \in DOMAIN Parts : \A i \in DOMAIN Parts[x] :
        <<x, i>> \in handled /\ Heard(x) => Entry(x, i) \in fragments \/ Known(x)

(* No packet is complete in the collector.                                 *)
IncompleteInv == \A x \in DOMAIN Parts : ~(Entries(x) \subseteq fragments)

(* Shown messages came from items heard, with ids known and all different. *)
ShownInv ==
    /\ shown \in Seq({ShownOf(x) : x \in Item})
    /\ \A i \in DOMAIN shown :
         /\ shown[i].message.id \in processed
         /\ \E x \in sent \cap Sendable :
              Kind[x] = "message" /\ Heard(x) /\ shown[i] = ShownOf(x)
    /\ \A i, j \in DOMAIN shown :
         shown[i].message.id = shown[j].message.id => i = j

(* The inductive invariant                                                 *)
DeliveryInv ==
    /\ program \in Program /\ sent \subseteq Item
    /\ AirInv /\ StoreInv /\ KeptInv /\ IncompleteInv /\ ShownInv

(* What a node reads from a frame in the air                               *)
LEMMA FrameRead ==
    ASSUME AirInv, NEW f \in air
    PROVE  /\ f[1] \in Sendable /\ f[1] \in sent
           /\ f[2] = 0 => Reads(Frame(f), Parsed(Sender[f[1]], {}, TypeOf(f[1]), Payload(f[1]), f[3]))
           /\ f[2] # 0 => /\ f[1] \in DOMAIN Parts /\ f[2] \in 1..Count(Whole(f[1]))
                          /\ FragmentReads(Frame(f), Sender[f[1]],
                               Part(Whole(f[1]), FragmentId[f[1]], f[2]))
<1>1. /\ f[1] \in sent /\ f[1] \in Sendable /\ f[3] \in 1..7
      /\ f[2] = 0 \/ (f[1] \in DOMAIN Parts /\ f[2] \in DOMAIN Parts[f[1]])
  BY DEF AirInv
<1>2. f[3] \in Byte
  <2>1. 1..7 \subseteq Byte
    BY DEF Byte
  <2> QED
    BY <1>1, <2>1
<1>3. ASSUME f[2] = 0
      PROVE  Reads(Frame(f), Parsed(Sender[f[1]], {}, TypeOf(f[1]), Payload(f[1]), f[3]))
  <2>1. Frame(f) = WithTTL(Whole(f[1]), f[3])
    BY <1>3, Zenon DEF Frame, WithTTL
  <2> QED
    BY <1>1, <1>2, <2>1, WholeRead, Zenon
<1>4. ASSUME f[2] # 0
      PROVE  /\ f[1] \in DOMAIN Parts /\ f[2] \in 1..Count(Whole(f[1]))
             /\ FragmentReads(Frame(f), Sender[f[1]],
                              Part(Whole(f[1]), FragmentId[f[1]], f[2]))
  <2>1. Frame(f) = WithTTL(Parts[f[1]][f[2]], f[3])
    BY <1>4, Zenon DEF Frame, WithTTL
  <2>2. f[1] \in DOMAIN Parts /\ f[2] \in DOMAIN Parts[f[1]]
    BY <1>1, <1>4, Zenon
  <2> QED
    BY <1>2, <2>1, <2>2, PartRead, Zenon
<1> QED
  BY <1>1, <1>3, <1>4, Zenon

(* Handling a message that came through shows it, unless it was shown      *)
(* before; handling an announcement makes its peer known.                  *)
LEMMA HandleKnown ==
    ASSUME NEW x \in Sendable, x \in sent, Heard(x), ShownInv, sent' = sent,
           NEW p, p.type = TypeOf(x), p.sender = Stripped(Sender[x]), p.payload = Payload(x),
           HandlePacket(p)
    PROVE  ShownInv' /\ Known(x)' /\ \A y \in Item : Known(y) => Known(y)'
<1>1. x \in Item /\ CanSend(x)
  BY DEF Sendable
<1>2. CASE Kind[x] = "message"
  <2> DEFINE m == ParsedMessage(Body[x])
  <2>1. p.type = MESSAGE /\ p.type # ANNOUNCEMENT
    BY <1>2 DEF TypeOf, MESSAGE, ANNOUNCEMENT
  <2>2. ParseMessagePayload(p.payload) = m
    <3>1. Body[x] \in ChatMessage /\ Sender[x] \in Id
      BY <1>1, <1>2, ItemFacts, Zenon
    <3>2. Hex(Sender[x]) \in Seq(Byte) /\ Len(Hex(Sender[x])) \in Byte
      BY <3>1, HexSeq, Zenon
    <3>3. CanCreateMessage(Body[x])
      BY <1>1, <1>2, Zenon DEF CanSend
    <3>4. p.payload = MessagePayload(Body[x], Hex(Sender[x]))
      BY <1>2, Zenon DEF Payload
    <3> QED
      BY <3>1, <3>2, <3>3, <3>4, MessageRoundTrip, Zenon
  <2>3. m.id = Body[x].id /\ ShownOf(x).message = m
    BY DEF ParsedMessage, ShownOf
  <2>4. HandleMessage(p) /\ learned' = learned
    BY <2>1, Zenon DEF HandlePacket
  <2>5. IF m.id \in processed THEN processed' = processed /\ shown' = shown
        ELSE processed' = processed \cup {m.id}
             /\ shown' = Append(shown, [from |-> p.sender, message |-> m])
    BY <2>2, <2>4, Zenon DEF HandleMessage
  <2>6. [from |-> p.sender, message |-> m] = ShownOf(x)
    BY Zenon DEF ShownOf
  <2> HIDE DEF m
  <2>7. processed \subseteq processed' /\ Body[x].id \in processed'
    BY <2>3, <2>5
  <2>8. Known(x)' /\ \A y \in Item : Known(y) => Known(y)'
    <3>1. Known(x)'
      BY <1>2, <2>7 DEF Known
    <3>2. \A y \in Item : Known(y) => Known(y)'
      <4> SUFFICES ASSUME NEW y \in Item, Known(y) PROVE Known(y)'
        OBVIOUS
      <4>1. CASE Kind[y] = "message"
        BY <2>7, <4>1 DEF Known
      <4>2. CASE Kind[y] # "message"
        BY <2>4, <4>2 DEF Known
      <4> QED
        BY <4>1, <4>2
    <3> QED
      BY <3>1, <3>2
  <2>9. CASE m.id \in processed
    <3>1. ShownInv'
      BY <2>5, <2>9 DEF ShownInv
    <3> QED
      BY <2>8, <3>1
  <2>10. CASE m.id \notin processed
    <3> DEFINE S == {ShownOf(y) : y \in Item}
               o == ShownOf(x)
    <3>1. shown \in Seq(S) /\ o \in S
      BY <1>1 DEF ShownInv
    <3>2. shown' = Append(shown, o)
      BY <2>5, <2>6, <2>10, Zenon
    <3>3. o.message = m
      BY <2>3
    <3> HIDE DEF S, o
    <3>4. /\ shown' \in Seq(S)
          /\ DOMAIN shown = 1..Len(shown) /\ DOMAIN shown' = 1..(Len(shown) + 1)
          /\ Len(shown) \in Nat
          /\ \A i \in 1..Len(shown) : shown'[i] = shown[i]
          /\ shown'[Len(shown) + 1] = o
      BY <3>1, <3>2
    <3> DEFINE l == Len(shown) + 1
    <3>5. \A i \in DOMAIN shown' : i = l \/ (i \in DOMAIN shown /\ shown'[i] = shown[i])
      BY <3>4
    <3>6. shown'[l] = o
      BY <3>4
    <3> HIDE DEF l
    <3>7. ASSUME NEW i \in DOMAIN shown'
          PROVE  /\ shown'[i].message.id \in processed'
                 /\ \E y \in sent' \cap Sendable :
                      Kind[y] = "message" /\ Heard(y) /\ shown'[i] = ShownOf(y)
      <4>1. CASE i = l
        <5>1. shown'[i].message.id = m.id /\ shown'[i] = ShownOf(x)
          BY <3>3, <3>6, <4>1 DEF o
        <5>2. m.id \in processed'
          BY <2>3, <2>7
        <5> QED
          BY <1>2, <5>1, <5>2, Zenon
      <4>2. CASE i \in DOMAIN shown /\ shown'[i] = shown[i]
        BY <2>7, <4>2 DEF ShownInv
      <4> QED
        BY <3>5, <4>1, <4>2
    <3>8. ASSUME NEW i \in DOMAIN shown', NEW j \in DOMAIN shown',
                 shown'[i].message.id = shown'[j].message.id
          PROVE  i = j
      <4>1. \A k \in DOMAIN shown : shown[k].message.id # m.id
        BY <2>10 DEF ShownInv
      <4>2. shown'[l].message.id = m.id
        BY <3>3, <3>6
      <4>3. CASE i = l /\ j = l
        BY <4>3
      <4>4. CASE i = l /\ j \in DOMAIN shown /\ shown'[j] = shown[j]
        BY <3>8, <4>1, <4>2, <4>4
      <4>5. CASE j = l /\ i \in DOMAIN shown /\ shown'[i] = shown[i]
        BY <3>8, <4>1, <4>2, <4>5
      <4>6. CASE /\ i \in DOMAIN shown /\ shown'[i] = shown[i]
                 /\ j \in DOMAIN shown /\ shown'[j] = shown[j]
        BY <3>8, <4>6 DEF ShownInv
      <4> QED
        BY <3>5, <4>3, <4>4, <4>5, <4>6
    <3>9. ShownInv'
      BY <3>4, <3>7, <3>8, Zenon DEF ShownInv, S
    <3> QED
      BY <2>8, <3>9
  <2> QED
    BY <2>8, <2>9, <2>10
<1>3. CASE Kind[x] # "message"
  <2> DEFINE a == Body[x]
  <2>1. p.type # MESSAGE /\ p.type = ANNOUNCEMENT
    BY <1>3 DEF TypeOf, MESSAGE, ANNOUNCEMENT
  <2>2. ParseIdentity(p.payload) = a
    <3>1. Body[x] \in Announcement
      BY <1>1, <1>3, ItemFacts, Zenon
    <3>2. CanEncodeIdentity(Body[x])
      BY <1>1, <1>3, Zenon DEF CanSend
    <3>3. p.payload = EncodeIdentity(Body[x])
      BY <1>3, Zenon DEF Payload
    <3> QED
      BY <3>1, <3>2, <3>3, IdentityRoundTrip, Zenon
  <2>3. HandleIdentityAnnounce(p) /\ processed' = processed /\ shown' = shown
    BY <2>1 DEF HandlePacket
  <2>4. learned' = {e \in learned : e.id # a.peerId}
                     \cup {[id |-> a.peerId, nickname |-> a.nickname]}
    BY <2>2, <2>3, Zenon DEF HandleIdentityAnnounce
  <2> DEFINE n == [id |-> a.peerId, nickname |-> a.nickname]
  <2>5. n \in learned' /\ n.id = a.peerId
    BY <2>4
  <2>6. \A e \in learned : e \in learned' \/ e.id = n.id
    BY <2>4, <2>5
  <2> HIDE DEF n
  <2>7. Known(x)'
    BY <1>3, <2>5 DEF Known
  <2>8. \A y \in Item : Known(y) => Known(y)'
    <3> SUFFICES ASSUME NEW y \in Item, Known(y) PROVE Known(y)'
      OBVIOUS
    <3>1. CASE Kind[y] = "message"
      BY <2>3, <3>1 DEF Known
    <3>2. CASE Kind[y] # "message"
      <4>1. PICK e \in learned : e.id = Body[y].peerId
        BY <3>2 DEF Known
      <4>2. \E b \in learned' : b.id = Body[y].peerId
        BY <2>5, <2>6, <4>1
      <4> QED
        BY <3>2, <4>2 DEF Known
    <3> QED
      BY <3>1, <3>2
  <2>9. ShownInv'
    BY <2>3 DEF ShownInv
  <2> QED
    BY <2>7, <2>8, <2>9
<1> QED
  BY <1>2, <1>3

----------------------------------------------------------------------------
(* The fragment collector                                                  *)

(* An entry tells its item and its index.                                  *)
LEMMA EntryFacts ==
    ASSUME NEW x \in DOMAIN Parts
    PROVE  /\ x \in Item
           /\ \A i \in 1..Count(Whole(x)) :
                /\ Entry(x, i) \in Entries(x) /\ Entry(x, i).id = FragmentId[x]
                /\ \A e \in Entries(x) : e.index = i - 1 => e = Entry(x, i)
           /\ \A y \in DOMAIN Parts : \A e \in Entries(y) :
                e.id = FragmentId[x] => y = x
<1>1. x \in Item /\ \A y \in DOMAIN Parts : y \in Item
  BY PartRead, PayloadFacts, Zenon
<1>2. ASSUME NEW y \in DOMAIN Parts, NEW e \in Entries(y), e.id = FragmentId[x]
      PROVE  y = x
  <2>1. e.id = FragmentId[y]
    BY DEF Entries, Entry
  <2> QED
    BY <1>1, <1>2, <2>1, ItemFacts, Zenon
<1>3. ASSUME NEW i \in 1..Count(Whole(x))
      PROVE  Entry(x, i) \in Entries(x) /\ Entry(x, i).id = FragmentId[x]
  BY DEF Entries, Entry
<1>4. ASSUME NEW i \in 1..Count(Whole(x)), NEW e \in Entries(x), e.index = i - 1
      PROVE  e = Entry(x, i)
  <2>1. PICK j \in 1..Count(Whole(x)) : e = Entry(x, j)
    BY DEF Entries
  <2>2. j - 1 = i - 1
    BY <1>4, <2>1 DEF Entry
  <2>3. Count(Whole(x)) \in Nat
    BY PartRead, Zenon
  <2>4. i = j
    BY <2>2, <2>3
  <2> QED
    BY <2>1, <2>4
<1> QED
  BY <1>1, <1>2, <1>3, <1>4, Zenon

(* Storing a part replaces no other part, and what is stored under its id  *)
(* are parts of the same packet.                                           *)
LEMMA StoredParts ==
    ASSUME StoreInv, NEW x \in DOMAIN Parts, NEW i \in 1..Count(Whole(x))
    PROVE  /\ Stored(Entry(x, i)) = fragments \cup {Entry(x, i)}
           /\ {e \in Stored(Entry(x, i)) : e.id = FragmentId[x]}
                = Stored(Entry(x, i)) \cap Entries(x)
<1> DEFINE n == Entry(x, i)
           g == FragmentId[x]
<1>1. n \in Entries(x) /\ n.id = g /\ n.index = i - 1
  BY EntryFacts DEF Entry
<1>2. \A e \in fragments : e.id = g => e \in Entries(x)
  BY EntryFacts DEF StoreInv
<1>3. \A e \in Entries(x) : e.id = g
  BY DEF Entries, Entry
<1>4. \A e \in Entries(x) : e.index = n.index => e = n
  BY <1>1, EntryFacts
<1> HIDE DEF n, g
<1>5. Stored(n) = fragments \cup {n}
  BY <1>1, <1>2, <1>4 DEF Stored
<1>6. {e \in Stored(n) : e.id = g} = Stored(n) \cap Entries(x)
  BY <1>1, <1>2, <1>3, <1>5
<1> QED
  BY <1>5, <1>6 DEF n, g

(* The step of the fragment collector                                      *)
LEMMA AddPart ==
    ASSUME StoreInv, IncompleteInv, ShownInv, sent' = sent,
           NEW x \in DOMAIN Parts, x \in sent, Heard(x), NEW i \in 1..Count(Whole(x)),
           AddFragment(Part(Whole(x), FragmentId[x], i))
    PROVE  /\ StoreInv' /\ IncompleteInv' /\ ShownInv'
           /\ Entry(x, i) \in fragments' \/ Known(x)'
           /\ \A y \in Item : Known(y) => Known(y)'
           /\ \A y \in DOMAIN Parts : \A e \in fragments \cap Entries(y) :
                e \in fragments' \/ Known(y)'
           /\ learned' = learned \/ HandlePacket(ParsePacket(Whole(x)))
<1> DEFINE f == Part(Whole(x), FragmentId[x], i)
           n == Count(Whole(x))
           all == fragments \cup {Entry(x, i)}
           mine == all \cap Entries(x)
<1>1. f.id = FragmentId[x] /\ f.total = n
      /\ [id |-> f.id, index |-> f.index, data |-> f.data] = Entry(x, i)
  BY DEF Part, Entry
<1>a. AddFragment(f)
  OBVIOUS
<1> HIDE DEF f
<1>2. \/ /\ Cardinality(mine) = n
         /\ fragments' = all \ mine
         /\ HandlePacket(ParsePacket(Joined(mine, n)))
      \/ /\ Cardinality(mine) # n
         /\ fragments' = all
         /\ UNCHANGED <<processed, shown, learned>>
  <2>1. \/ /\ Cardinality({e \in Stored(Entry(x, i)) : e.id = f.id}) = f.total
           /\ fragments' = Stored(Entry(x, i)) \ {e \in Stored(Entry(x, i)) : e.id = f.id}
           /\ HandlePacket(ParsePacket(Joined({e \in Stored(Entry(x, i)) : e.id = f.id}, f.total)))
        \/ /\ Cardinality({e \in Stored(Entry(x, i)) : e.id = f.id}) # f.total
           /\ fragments' = Stored(Entry(x, i))
           /\ UNCHANGED <<processed, shown, learned>>
    BY <1>1, <1>a, Zenon DEF AddFragment
  <2>2. Stored(Entry(x, i)) = all
    BY StoredParts, Zenon
  <2>3. {e \in Stored(Entry(x, i)) : e.id = f.id} = mine
    <3>1. {e \in Stored(Entry(x, i)) : e.id = FragmentId[x]}
            = Stored(Entry(x, i)) \cap Entries(x)
      BY StoredParts, Zenon
    <3> HIDE DEF all
    <3> QED
      BY <1>1, <2>2, <3>1
  <2> HIDE DEF n, all, mine
  <2> QED
    BY <1>1, <2>1, <2>2, <2>3, Zenon
<1>3. /\ IsFiniteSet(Entries(x)) /\ Cardinality(Entries(x)) = n
      /\ Joined(Entries(x), n) = Whole(x)
  BY EntriesJoin, Zenon
<1>4. x \in Item /\ x \in Sendable /\ Entry(x, i) \in Entries(x)
  BY EntryFacts, PartRead, Zenon
<1>5. StoreInv'
  <2>1. \A e \in fragments' : e \in fragments \/ e = Entry(x, i)
    BY <1>2
  <2> SUFFICES ASSUME NEW e \in fragments'
               PROVE  \E y \in DOMAIN Parts : y \in sent /\ Heard(y) /\ e \in Entries(y)
    BY DEF StoreInv
  <2> QED
    BY <1>4, <2>1, Zenon DEF StoreInv
<1>6. \A y \in DOMAIN Parts : \A e \in Entries(y) : e \in Entries(x) => y = x
  <2>1. \A e \in Entries(x) : e.id = FragmentId[x]
    BY DEF Entries, Entry
  <2> QED
    BY <2>1, EntryFacts, Zenon
<1>7. CASE /\ Cardinality(mine) = n
           /\ fragments' = all \ mine
           /\ HandlePacket(ParsePacket(Joined(mine, n)))
  <2>1. mine = Entries(x)
    <3>1. mine \in SUBSET Entries(x)
      OBVIOUS
    <3>2. Cardinality(Entries(x)) = Cardinality(mine)
      BY <1>3, <1>7
    <3> QED
      BY <1>3, <3>1, <3>2, FS_Subset, Zenon
  <2> DEFINE p == ParsePacket(Whole(x))
  <2>2. HandlePacket(p)
    BY <1>3, <1>7, <2>1, Zenon
  <2>3. p.type = TypeOf(x) /\ p.sender = Stripped(Sender[x]) /\ p.payload = Payload(x)
    <3>1. p = Parsed(Sender[x], {}, TypeOf(x), Payload(x), 7)
      BY <1>4, WholeRead, Zenon
    <3> HIDE DEF p
    <3> QED
      BY <3>1, ParsedFields
  <2> HIDE DEF p
  <2>4. ShownInv' /\ Known(x)' /\ \A y \in Item : Known(y) => Known(y)'
    BY <1>4, <2>2, <2>3, HandleKnown, Zenon
  <2>5. \A e \in fragments : e \in fragments' \/ e \in Entries(x)
    BY <1>7, <2>1
  <2>6. IncompleteInv'
    <3> SUFFICES ASSUME NEW y \in DOMAIN Parts, Entries(y) \subseteq fragments'
                 PROVE  FALSE
      BY DEF IncompleteInv
    <3>1. 1 \in 1..Count(Whole(y))
      BY PartRead
    <3>2. Entry(y, 1) \in Entries(y)
      BY <3>1, EntryFacts, Zenon
    <3>3. y # x
      BY <1>7, <2>1, <3>2
    <3>4. Entries(y) \subseteq fragments
      BY <1>4, <1>6, <1>7, <3>3
    <3> QED
      BY <3>4 DEF IncompleteInv
  <2>7. ASSUME NEW y \in DOMAIN Parts, NEW e \in fragments \cap Entries(y)
        PROVE  e \in fragments' \/ Known(y)'
    <3>1. CASE e \in Entries(x)
      <4>1. y = x
        BY <1>6, <3>1
      <4> QED
        BY <2>4, <4>1, Zenon
    <3>2. CASE e \in fragments'
      BY <3>2
    <3> QED
      BY <2>5, <3>1, <3>2
  <2> QED
    BY <1>5, <2>2, <2>4, <2>6, <2>7, Zenon DEF p
<1>8. CASE /\ Cardinality(mine) # n
           /\ fragments' = all
           /\ UNCHANGED <<processed, shown, learned>>
  <2>1. processed' = processed /\ shown' = shown /\ learned' = learned
    BY <1>8
  <2>2. ShownInv'
    BY <2>1 DEF ShownInv
  <2>3. \A y \in Item : Known(y) => Known(y)'
    BY <2>1 DEF Known
  <2>4. IncompleteInv'
    <3> SUFFICES ASSUME NEW y \in DOMAIN Parts, Entries(y) \subseteq fragments'
                 PROVE  FALSE
      BY DEF IncompleteInv
    <3>1. CASE y = x
      <4>1. mine = Entries(x)
        BY <1>8, <3>1
      <4> QED
        BY <1>3, <1>8, <4>1, Zenon
    <3>2. CASE y # x
      <4>1. Entries(y) \subseteq fragments
        BY <1>4, <1>6, <1>8, <3>2
      <4> QED
        BY <4>1 DEF IncompleteInv
    <3> QED
      BY <3>1, <3>2
  <2>5. fragments \subseteq fragments' /\ Entry(x, i) \in fragments'
    BY <1>8
  <2> QED
    BY <1>5, <2>1, <2>2, <2>3, <2>4, <2>5
<1> QED
  BY <1>2, <1>7, <1>8, Zenon

----------------------------------------------------------------------------
(* Steps                                                                   *)

(* The invariant holds at the start.                                       *)
LEMMA DeliveryStart == DeliveryInit => DeliveryInv
<1> SUFFICES ASSUME DeliveryInit PROVE DeliveryInv
  OBVIOUS
<1> USE DEF DeliveryInit
<1>1. program \in Program /\ sent \subseteq Item /\ AirInv /\ StoreInv /\ KeptInv
  BY DEF AirInv, StoreInv, KeptInv
<1>2. IncompleteInv
  <2> SUFFICES ASSUME NEW x \in DOMAIN Parts PROVE ~(Entries(x) \subseteq fragments)
    BY DEF IncompleteInv
  <2>1. 1 \in 1..Count(Whole(x))
    BY PartRead
  <2> QED
    BY <2>1, EntryFacts
<1>3. ShownInv
  BY DEF ShownInv
<1> QED
  BY <1>1, <1>2, <1>3 DEF DeliveryInv

(* The invariant is kept by Send.                                          *)
LEMMA SendKeeps ==
    ASSUME DeliveryInv, NEW x \in Item, Send(x)
    PROVE  DeliveryInv'
<1>1. /\ sent' = sent \cup {x} /\ program' = program
      /\ fragments' = fragments /\ shown' = shown /\ processed' = processed
      /\ learned' = learned /\ handled' = handled
  BY DEF Send, receiverVars
<1>2. ASSUME NEW f \in air', f \notin air
      PROVE  /\ f = <<f[1], f[2], f[3]>> /\ f[1] = x /\ f[1] \in Sendable /\ f[3] = 7
             /\ f[2] = 0 \/ (f[1] \in DOMAIN Parts /\ f[2] \in DOMAIN Parts[f[1]])
  <2>1. CASE x \in Sendable /\ air' = air \cup {<<x, 0, 7>>}
    BY <1>2, <2>1
  <2>2. CASE x \in DOMAIN Parts /\ air' = air \cup {<<x, i, 7>> : i \in DOMAIN Parts[x]}
    <3>1. PICK i \in DOMAIN Parts[x] : f = <<x, i, 7>>
      BY <1>2, <2>2
    <3>2. x \in Sendable
      BY <2>2, PartRead, Zenon
    <3> QED
      BY <2>2, <3>1, <3>2
  <2>3. CASE air' = air
    BY <1>2, <2>3
  <2> QED
    BY <2>1, <2>2, <2>3 DEF Send, Framed
<1>3. AirInv'
  <2> SUFFICES ASSUME NEW f \in air'
               PROVE  /\ f = <<f[1], f[2], f[3]>>
                      /\ f[1] \in sent' \cap Sendable /\ f[3] \in 1..7
                      /\ f[2] = 0 \/ (f[1] \in DOMAIN Parts /\ f[2] \in DOMAIN Parts[f[1]])
    BY DEF AirInv
  <2>1. CASE f \in air
    BY <1>1, <2>1 DEF DeliveryInv, AirInv
  <2>2. CASE f \notin air
    <3>1. 7 \in 1..7
      OBVIOUS
    <3> QED
      BY <1>1, <1>2, <2>2, <3>1, Zenon
  <2> QED
    BY <2>1, <2>2
<1>4. StoreInv' /\ KeptInv' /\ IncompleteInv' 
  BY <1>1 DEF DeliveryInv, StoreInv, KeptInv, IncompleteInv, Known
<1>5. ShownInv'
  BY <1>1 DEF DeliveryInv, ShownInv
<1> QED
  BY <1>1, <1>3, <1>4, <1>5 DEF DeliveryInv

(* The invariant is kept by Relay.                                         *)
LEMMA RelayKeeps ==
    ASSUME DeliveryInv, NEW f \in air, Relay(f)
    PROVE  DeliveryInv'
<1> DEFINE n == <<f[1], f[2], f[3] - 1>>
<1>1. /\ program' = program /\ sent' = sent /\ fragments' = fragments /\ shown' = shown
      /\ processed' = processed /\ learned' = learned /\ handled' = handled
      /\ air' = air \cup {n} /\ f[3] > 1
  BY DEF Relay, receiverVars
<1>2. /\ f[1] \in sent \cap Sendable /\ f[3] \in 1..7
      /\ f[2] = 0 \/ (f[1] \in DOMAIN Parts /\ f[2] \in DOMAIN Parts[f[1]])
  BY DEF DeliveryInv, AirInv
<1>3. /\ n = <<n[1], n[2], n[3]>> /\ n[1] = f[1] /\ n[2] = f[2] /\ n[3] = f[3] - 1
  OBVIOUS
<1>4. n[3] \in 1..7
  BY <1>1, <1>2, <1>3
<1> HIDE DEF n
<1>5. AirInv'
  BY <1>1, <1>2, <1>3, <1>4 DEF DeliveryInv, AirInv
<1>6. StoreInv' /\ KeptInv' /\ IncompleteInv' 
  BY <1>1 DEF DeliveryInv, StoreInv, KeptInv, IncompleteInv, Known
<1>7. ShownInv'
  BY <1>1 DEF DeliveryInv, ShownInv
<1> QED
  BY <1>1, <1>5, <1>6, <1>7 DEF DeliveryInv

(* What a node does with the frame it takes from the air                   *)
LEMMA ReceiveReads ==
    ASSUME DeliveryInv, NEW f \in air, Receive(f)
    PROVE  /\ program' = program /\ sent' = sent /\ air' = air \ {f}
           /\ handled' = handled \cup {<<f[1], f[2]>>}
           /\ f[1] \in sent /\ f[1] \in Sendable
           /\ located' = IF program = "client" \/ ~Heard(f[1]) THEN located
                         ELSE located \cup {Stripped(Sender[f[1]])}
           /\ \/ /\ ~Heard(f[1])
                 /\ UNCHANGED <<fragments, processed, shown, learned>>
              \/ /\ Heard(f[1]) /\ f[2] = 0 /\ fragments' = fragments
                 /\ HandlePacket(Parsed(Sender[f[1]], {}, TypeOf(f[1]), Payload(f[1]), f[3]))
              \/ /\ Heard(f[1]) /\ program = "daemon"
                 /\ UNCHANGED <<fragments, processed, shown, learned>>
              \/ /\ Heard(f[1]) /\ program = "client" /\ f[1] \in DOMAIN Parts
                 /\ f[2] \in 1..Count(Whole(f[1]))
                 /\ AddFragment(Part(Whole(f[1]), FragmentId[f[1]], f[2]))
<1> DEFINE p == ParsePacket(Frame(f))
           x == f[1]
           q == Parsed(Sender[x], {}, TypeOf(x), Payload(x), f[3])
<1>1. AirInv
  BY DEF DeliveryInv
<1>2. x \in Sendable /\ x \in sent
  BY <1>1, FrameRead, Zenon
<1>3. f[2] = 0 => p = q
  BY <1>1, FrameRead, Zenon DEF Reads
<1>4. f[2] # 0 => /\ x \in DOMAIN Parts /\ f[2] \in 1..Count(Whole(x))
                  /\ p.type \in FRAGMENTS /\ p.sender = Stripped(Sender[x])
                  /\ ParseFragment(p.payload) = Part(Whole(x), FragmentId[x], f[2])
  BY <1>1, FrameRead, Zenon DEF FragmentReads
<1>5. q.type \notin FRAGMENTS /\ q.sender = Stripped(Sender[x])
  <2>1. TypeOf(x) \notin FRAGMENTS
    BY <1>2, PayloadFacts, Zenon
  <2> QED
    BY <2>1, ParsedFields
<1>6. /\ program' = program /\ sent' = sent /\ air' = air \ {f}
      /\ handled' = handled \cup {<<x, f[2]>>}
  BY DEF Receive
<1>7. /\ located' = IF program = "client" \/ Ignores(p) THEN located
                      ELSE located \cup {p.sender}
      /\ \/ Ignores(p) /\ UNCHANGED <<fragments, processed, shown, learned>>
         \/ ~Ignores(p) /\ p.type \notin FRAGMENTS
              /\ HandlePacket(p) /\ UNCHANGED fragments
         \/ ~Ignores(p) /\ p.type \in FRAGMENTS /\ HandleFragment(p)
  BY Zenon DEF Receive
<1> HIDE DEF p, q
<1>8. p.sender = Stripped(Sender[x])
  BY <1>3, <1>4, <1>5, Zenon
<1>9. Ignores(p) <=> ~Heard(x)
  BY <1>8, Zenon DEF Ignores, Heard
<1>10. located' = IF program = "client" \/ ~Heard(x) THEN located
                  ELSE located \cup {Stripped(Sender[x])}
  BY <1>7, <1>8, <1>9, Zenon
<1>11. CASE f[2] = 0
  BY <1>2, <1>3, <1>5, <1>6, <1>7, <1>9, <1>10, <1>11, Zenon DEF q
<1>12. CASE f[2] # 0
  BY <1>2, <1>4, <1>6, <1>7, <1>9, <1>10, <1>12, Zenon DEF HandleFragment
<1> QED
  BY <1>11, <1>12, Zenon

(* The invariant is kept by Receive.                                       *)
LEMMA ReceiveKeeps ==
    ASSUME DeliveryInv, NEW f \in air, Receive(f)
    PROVE  DeliveryInv'
<1> DEFINE x == f[1]
           i == f[2]
           q == Parsed(Sender[x], {}, TypeOf(x), Payload(x), f[3])
<1>1. /\ program' = program /\ sent' = sent /\ air' = air \ {f}
      /\ handled' = handled \cup {<<x, i>>} /\ x \in sent /\ x \in Sendable
  BY ReceiveReads, Zenon
<1>2. \/ ~Heard(x) /\ UNCHANGED <<fragments, processed, shown, learned>>
      \/ Heard(x) /\ i = 0 /\ fragments' = fragments /\ HandlePacket(q)
      \/ /\ Heard(x) /\ program = "daemon"
         /\ UNCHANGED <<fragments, processed, shown, learned>>
      \/ /\ Heard(x) /\ program = "client" /\ x \in DOMAIN Parts
         /\ i \in 1..Count(Whole(x))
         /\ AddFragment(Part(Whole(x), FragmentId[x], i))
  BY ReceiveReads, Zenon
<1>3. program \in Program /\ sent \subseteq Item
      /\ AirInv /\ StoreInv /\ KeptInv /\ IncompleteInv /\ ShownInv
  BY DEF DeliveryInv
<1>4. q.type = TypeOf(x) /\ q.sender = Stripped(Sender[x]) /\ q.payload = Payload(x)
  BY ParsedFields
<1> HIDE DEF x, i, q
<1>5. AirInv'
  BY <1>1, <1>3 DEF AirInv
<1>6. \A y \in DOMAIN Parts :
        /\ y \in Item
        /\ \A j \in DOMAIN Parts[y] : j # 0 /\ Entry(y, j) \in Entries(y)
  <2> SUFFICES ASSUME NEW y \in DOMAIN Parts
               PROVE  /\ y \in Item
                      /\ \A j \in DOMAIN Parts[y] : j # 0 /\ Entry(y, j) \in Entries(y)
    OBVIOUS
  <2>1. DOMAIN Parts[y] = 1..Count(Whole(y)) /\ Count(Whole(y)) \in Nat
    BY PartRead, Zenon
  <2>2. \A j \in DOMAIN Parts[y] : j # 0
    BY <2>1
  <2> QED
    BY <2>1, <2>2, EntryFacts, Zenon
<1>7. ASSUME /\ StoreInv' /\ IncompleteInv' /\ ShownInv'
             /\ Heard(x) /\ i # 0 /\ program = "client" => Entry(x, i) \in fragments' \/ Known(x)'
             /\ \A y \in Item : Known(y) => Known(y)'
             /\ \A y \in DOMAIN Parts : \A e \in fragments \cap Entries(y) :
                  e \in fragments' \/ Known(y)'
      PROVE  DeliveryInv'
  <2>1. KeptInv'
    <3> SUFFICES ASSUME program' = "client", NEW y \in DOMAIN Parts, NEW j \in DOMAIN Parts[y],
                        <<y, j>> \in handled', Heard(y)
                 PROVE  Entry(y, j) \in fragments' \/ Known(y)'
      BY DEF KeptInv
    <3>1. CASE <<y, j>> \in handled
      <4>1. Entry(y, j) \in fragments \/ Known(y)
        BY <1>1, <1>3, <3>1, Zenon DEF KeptInv
      <4> QED
        BY <1>6, <1>7, <4>1, Zenon
    <3>2. CASE <<y, j>> = <<x, i>>
      <4>1. y = x /\ j = i
        BY <3>2
      <4> QED
        BY <1>1, <1>6, <1>7, <4>1, Zenon
    <3> QED
      BY <1>1, <3>1, <3>2
  <2> QED
    BY <1>1, <1>3, <1>5, <1>7, <2>1 DEF DeliveryInv
<1>8. CASE /\ UNCHANGED <<fragments, processed, shown, learned>>
           /\ ~Heard(x) \/ program = "daemon"
  <2>1. /\ fragments' = fragments /\ processed' = processed /\ shown' = shown
        /\ learned' = learned
    BY <1>8
  <2>2. StoreInv' /\ IncompleteInv' /\ ShownInv'
    BY <1>1, <1>3, <2>1 DEF StoreInv, IncompleteInv, ShownInv
  <2>3. \A y \in Item : Known(y) => Known(y)'
    BY <2>1 DEF Known
  <2>4. ~(Heard(x) /\ i # 0 /\ program = "client")
    BY <1>8
  <2> QED
    BY <1>7, <2>1, <2>2, <2>3, <2>4, Zenon
<1>9. CASE Heard(x) /\ i = 0 /\ fragments' = fragments /\ HandlePacket(q)
  <2>1. ShownInv' /\ Known(x)' /\ \A y \in Item : Known(y) => Known(y)'
    BY <1>1, <1>3, <1>4, <1>9, HandleKnown, Zenon
  <2>2. StoreInv' /\ IncompleteInv'
    BY <1>1, <1>3, <1>9 DEF StoreInv, IncompleteInv
  <2> QED
    BY <1>7, <1>9, <2>1, <2>2, Zenon
<1>10. CASE /\ Heard(x) /\ program = "client" /\ x \in DOMAIN Parts
            /\ i \in 1..Count(Whole(x))
            /\ AddFragment(Part(Whole(x), FragmentId[x], i))
  <2>1. /\ StoreInv' /\ IncompleteInv' /\ ShownInv'
        /\ Entry(x, i) \in fragments' \/ Known(x)'
        /\ \A y \in Item : Known(y) => Known(y)'
        /\ \A y \in DOMAIN Parts : \A e \in fragments \cap Entries(y) :
             e \in fragments' \/ Known(y)'
    BY <1>1, <1>3, <1>10, AddPart, Zenon
  <2> QED
    BY <1>7, <2>1, Zenon
<1> QED
  BY <1>2, <1>8, <1>9, <1>10, Zenon

(* The invariant is kept by every step.                                    *)
LEMMA DeliveryStep == DeliveryInv /\ [DeliveryNext]_deliveryVars => DeliveryInv'
<1> SUFFICES ASSUME DeliveryInv, [DeliveryNext]_deliveryVars PROVE DeliveryInv'
  OBVIOUS
<1>1. CASE \E x \in Item : Send(x)
  BY <1>1, SendKeeps, Zenon
<1>2. CASE \E f \in air : Relay(f)
  BY <1>2, RelayKeeps, Zenon
<1>3. CASE \E f \in air : Receive(f)
  BY <1>3, ReceiveKeeps, Zenon
<1>4. CASE UNCHANGED deliveryVars
  <2>1. /\ program' = program /\ sent' = sent /\ air' = air /\ fragments' = fragments
        /\ shown' = shown /\ processed' = processed /\ learned' = learned
        /\ handled' = handled
    BY <1>4 DEF deliveryVars, receiverVars
  <2>2. AirInv' /\ StoreInv' /\ KeptInv' /\ IncompleteInv'
    BY <2>1 DEF DeliveryInv, AirInv, StoreInv, KeptInv, IncompleteInv, Known
  <2>3. ShownInv'
    BY <2>1 DEF DeliveryInv, ShownInv
  <2> QED
    BY <2>1, <2>2, <2>3 DEF DeliveryInv
<1> QED
  BY <1>1, <1>2, <1>3, <1>4, Zenon DEF DeliveryNext

(* DeliveryInv is an invariant: every frame stays readable through relays, *)
(* the collector holds only parts of one packet under an id, keeps each    *)
(* part until the packet is handled, and never holds a complete one        *)
(* (protocol.py:168-205, bitchat.py:822-838).                              *)
THEOREM DeliveryInvariant == DeliverySpec => []DeliveryInv
BY DeliveryStart, DeliveryStep, PTL DEF DeliverySpec

----------------------------------------------------------------------------
(* What the node shows and knows                                           *)

(* Ignoring the own packets by comparing stripped ids ignores no other     *)
(* node's, and all own ones if the own id does not end in zero             *)
(* (mesh.py:192, bitchat.py:604).                                          *)
LEMMA HeardOther ==
    ASSUME NEW x \in Item
    PROVE  /\ Sender[x] # Me => Heard(x)
           /\ Me[IdSize] # 0 /\ Heard(x) => Sender[x] # Me
<1>1. Sender[x] \in Id /\ Me \in Id
  BY ItemFacts, DeliveryAssumption, Zenon
<1>2. Sender[x] # Me => Heard(x)
  BY <1>1, StrippedSame, Zenon DEF Heard
<1>3. Me[IdSize] # 0 /\ Heard(x) => Sender[x] # Me
  BY <1>1, StrippedId, Zenon DEF Heard
<1> QED
  BY <1>2, <1>3

(* The invariant gives ShownExact.                                         *)
LEMMA ShownGives ==
    ASSUME Me[IdSize] # 0, DeliveryInv
    PROVE  ShownExact
<1>1. ASSUME NEW i \in DOMAIN shown
      PROVE  \E x \in sent :
               LET m == shown[i].message IN
               /\ Kind[x] = "message"
               /\ Sender[x] # Me
               /\ shown[i].from = Stripped(Sender[x])
               /\ m.id = Body[x].id /\ m.channel = Body[x].channel
               /\ m.encrypted = Body[x].encrypted
               /\ (IF m.encrypted THEN m.cipher ELSE m.content) = Text(Body[x])
  <2>1. PICK x \in sent \cap Sendable :
               Kind[x] = "message" /\ Heard(x) /\ shown[i] = ShownOf(x)
    BY DEF DeliveryInv, ShownInv
  <2>2. x \in Item /\ x \in sent
    BY DEF Sendable
  <2>3. Sender[x] # Me
    BY <2>1, <2>2, HeardOther, Zenon
  <2> DEFINE m == ParsedMessage(Body[x])
  <2>4. shown[i].message = m /\ shown[i].from = Stripped(Sender[x])
    BY <2>1 DEF ShownOf
  <2>5. /\ m.id = Body[x].id /\ m.channel = Body[x].channel
        /\ m.encrypted = Body[x].encrypted
        /\ (IF m.encrypted THEN m.cipher ELSE m.content) = Text(Body[x])
    BY DEF ParsedMessage
  <2> HIDE DEF m
  <2> QED
    BY <2>1, <2>2, <2>3, <2>4, <2>5, Zenon
<1>2. \A i, j \in DOMAIN shown : shown[i].message.id = shown[j].message.id => i = j
  BY DEF DeliveryInv, ShownInv
<1> QED
  BY <1>1, <1>2, Zenon DEF ShownExact

(* What a node shows was sent by another, to the byte, and is shown once,  *)
(* through padding, cutting, relays, repetition, reordering and loss       *)
(* (protocol.py:221-344, mesh.py:455-457, bitchat.py:741-744), if the id   *)
(* of the node does not end in a zero byte, which rstrip in                *)
(* parse_bitchat_packet would take away.                                   *)
THEOREM DeliveryShownExact ==
    ASSUME Me[IdSize] # 0
    PROVE  DeliverySpec => []ShownExact
<1>1. DeliveryInv => ShownExact
  BY ShownGives
<1> QED
  BY <1>1, DeliveryInvariant, PTL

(* The invariant gives LargeShown.                                         *)
LEMMA KeptGives ==
    ASSUME DeliveryInv
    PROVE  LargeShown
<1> SUFFICES ASSUME program = "client", NEW x \in DOMAIN Parts, Sender[x] # Me,
                    \A i \in DOMAIN Parts[x] : <<x, i>> \in handled
             PROVE  Known(x)
  BY Zenon DEF LargeShown, Known
<1>1. x \in Item /\ DOMAIN Parts[x] = 1..Count(Whole(x))
  BY PartRead, EntryFacts, Zenon
<1>2. Heard(x)
  BY <1>1, HeardOther, Zenon
<1>3. \A i \in DOMAIN Parts[x] : Entry(x, i) \in fragments \/ Known(x)
  BY <1>2, Zenon DEF DeliveryInv, KeptInv
<1>4. ~Known(x) => Entries(x) \subseteq fragments
  BY <1>1, <1>3, Zenon DEF Entries
<1> QED
  BY <1>4, Zenon DEF DeliveryInv, IncompleteInv

(* A client that has handled each fragment of a packet has shown the       *)
(* message or knows the peer, in whatever order and however often the      *)
(* fragments came (protocol.py:168-205, bitchat.py:822-838).               *)
THEOREM DeliveryLargeShown == DeliverySpec => []LargeShown
<1>1. DeliveryInv => LargeShown
  BY KeptGives
<1> QED
  BY <1>1, DeliveryInvariant, PTL

(* Only an announcement adds to the peers, under the id it announces.      *)
LEMMA HandleLearns ==
    ASSUME NEW x \in Sendable, NEW p, p.type = TypeOf(x), p.payload = Payload(x),
           HandlePacket(p), NEW a \in learned', a \notin learned
    PROVE  /\ Kind[x] = "identity" /\ Body[x] \in Announcement
           /\ a = [id |-> Body[x].peerId, nickname |-> Body[x].nickname]
<1>1. x \in Item /\ CanSend(x)
  BY DEF Sendable
<1>2. p.type = ANNOUNCEMENT /\ HandleIdentityAnnounce(p)
  BY Zenon DEF HandlePacket
<1>3. Kind[x] # "message"
  BY <1>2 DEF TypeOf, MESSAGE, ANNOUNCEMENT
<1>4. Kind[x] = "identity" /\ Body[x] \in Announcement
  BY <1>1, <1>3, ItemFacts, Zenon
<1>5. CanEncodeIdentity(Body[x]) /\ p.payload = EncodeIdentity(Body[x])
  BY <1>1, <1>3, Zenon DEF CanSend, Payload
<1>6. ParseIdentity(p.payload) = Body[x]
  BY <1>4, <1>5, IdentityRoundTrip, Zenon
<1>7. a = [id |-> Body[x].peerId, nickname |-> Body[x].nickname]
  BY <1>2, <1>6 DEF HandleIdentityAnnounce
<1> QED
  BY <1>4, <1>7

(* A peer that is learned has an address in the same step.                 *)
LEMMA AddressStep ==
    ASSUME \A x \in Item : Kind[x] = "identity" =>
             Body[x].peerId = Sender[x] /\ Sender[x][IdSize] # 0,
           DeliveryInv, PeerAddressed, [DeliveryNext]_deliveryVars
    PROVE  PeerAddressed'
<1>1. CASE \E x \in Item : Send(x)
  BY <1>1 DEF Send, receiverVars, PeerAddressed
<1>2. CASE \E f \in air : Relay(f)
  BY <1>2 DEF Relay, receiverVars, PeerAddressed
<1>3. CASE \E f \in air : Receive(f)
  <2>1. PICK f \in air : Receive(f)
    BY <1>3
  <2> DEFINE x == f[1]
             q == Parsed(Sender[x], {}, TypeOf(x), Payload(x), f[3])
  <2>2. /\ program' = program /\ x \in Sendable
        /\ located' = IF program = "client" \/ ~Heard(x) THEN located
                      ELSE located \cup {Stripped(Sender[x])}
        /\ \/ learned' = learned
           \/ Heard(x) /\ HandlePacket(q)
           \/ program = "client"
    BY <2>1, ReceiveReads
  <2>3. q.type = TypeOf(x) /\ q.payload = Payload(x)
    BY ParsedFields
  <2> HIDE DEF x, q
  <2>4. x \in Item
    BY <2>2 DEF Sendable
  <2> SUFFICES ASSUME program = "daemon", NEW a \in learned' PROVE a.id \in located'
    BY <2>2 DEF PeerAddressed
  <2>5. located \subseteq located' /\ \A b \in learned : b.id \in located
    BY <2>2 DEF PeerAddressed
  <2>6. CASE a \in learned
    BY <2>5, <2>6
  <2>7. CASE a \notin learned
    <3>1. Heard(x) /\ HandlePacket(q)
      BY <2>2, <2>7
    <3>2. /\ Kind[x] = "identity"
          /\ a = [id |-> Body[x].peerId, nickname |-> Body[x].nickname]
      BY <2>2, <2>3, <2>7, <3>1, HandleLearns, Zenon
    <3>3. Sender[x] \in Id
      BY <2>4, ItemFacts, Zenon
    <3>4. a.id = Sender[x]
      BY <2>4, <3>2
    <3>5. Stripped(Sender[x]) = Sender[x]
      BY <2>4, <3>2, <3>3, StrippedId, Zenon
    <3>6. Stripped(Sender[x]) \in located'
      BY <2>2, <3>1
    <3> QED
      BY <3>4, <3>5, <3>6
  <2> QED
    BY <2>6, <2>7
<1>4. CASE UNCHANGED deliveryVars
  BY <1>4 DEF deliveryVars, receiverVars, PeerAddressed
<1> QED
  BY <1>1, <1>2, <1>3, <1>4, Zenon DEF DeliveryNext

(* A peer the daemon lists after an announcement has an address under the  *)
(* id it is listed with (mesh.py:197, 319-325), if a node announces the id *)
(* it sends under and that id does not end in a zero byte.                 *)
THEOREM DeliveryPeerAddressed ==
    ASSUME \A x \in Item : Kind[x] = "identity" =>
             Body[x].peerId = Sender[x] /\ Sender[x][IdSize] # 0
    PROVE  DeliverySpec => []PeerAddressed
<1>1. DeliveryInit => PeerAddressed
  BY DEF DeliveryInit, PeerAddressed
<1>2. DeliveryInv /\ PeerAddressed /\ [DeliveryNext]_deliveryVars => PeerAddressed'
  BY AddressStep
<1> QED
  BY <1>1, <1>2, DeliveryInvariant, PTL DEF DeliverySpec

(* What DeliveryTypeOK needs besides DeliveryInv                           *)
CountInv ==
    /\ relays \in 0..MaxRelays
    /\ \A a \in learned : a.id \in Id
    /\ \A id \in located : Len(id) <= IdSize
    /\ \A h \in handled : h[1] \in sent

(* Peers are learned under ids of eight bytes.                             *)
LEMMA ReceiveLearns ==
    ASSUME DeliveryInv, NEW f \in air, Receive(f), NEW a \in learned', a \notin learned
    PROVE  a.id \in Id
<1> DEFINE x == f[1]
           i == f[2]
           q == Parsed(Sender[x], {}, TypeOf(x), Payload(x), f[3])
           w == ParsePacket(Whole(x))
<1>1. /\ sent' = sent /\ x \in sent /\ x \in Sendable
      /\ \/ learned' = learned
         \/ HandlePacket(q)
         \/ /\ Heard(x) /\ x \in DOMAIN Parts /\ i \in 1..Count(Whole(x))
            /\ AddFragment(Part(Whole(x), FragmentId[x], i))
  BY ReceiveReads
<1>2. StoreInv /\ IncompleteInv /\ ShownInv
  BY DEF DeliveryInv
<1>3. q.type = TypeOf(x) /\ q.payload = Payload(x)
  BY ParsedFields
<1>4. w.type = TypeOf(x) /\ w.payload = Payload(x)
  <2>1. w = Parsed(Sender[x], {}, TypeOf(x), Payload(x), 7)
    BY <1>1, WholeRead, Zenon
  <2> HIDE DEF w
  <2> QED
    BY <2>1, ParsedFields
<1> HIDE DEF x, i, q
<1>5. HandlePacket(q) \/ HandlePacket(w)
  BY <1>1, <1>2, AddPart, Zenon
<1> HIDE DEF w
<1>6. Body[x] \in Announcement /\ a = [id |-> Body[x].peerId, nickname |-> Body[x].nickname]
  BY <1>1, <1>3, <1>4, <1>5, HandleLearns, Zenon
<1> QED
  BY <1>6 DEF Announcement

(* CountInv is kept by every step.                                         *)
LEMMA CountStep ==
    ASSUME DeliveryInv, CountInv, [DeliveryNext]_deliveryVars
    PROVE  CountInv'
<1>0. MaxRelays \in Nat
  BY DeliveryAssumption
<1>1. CASE \E x \in Item : Send(x)
  BY <1>1 DEF Send, receiverVars, CountInv
<1>2. CASE \E f \in air : Relay(f)
  <2>1. /\ relays' = relays + 1 /\ relays < MaxRelays /\ learned' = learned
        /\ located' = located /\ handled' = handled /\ sent' = sent
    BY <1>2 DEF Relay, receiverVars
  <2> QED
    BY <1>0, <2>1 DEF CountInv
<1>3. CASE \E f \in air : Receive(f)
  <2>1. PICK f \in air : Receive(f)
    BY <1>3
  <2> DEFINE s == Stripped(Sender[f[1]])
  <2>2. /\ sent' = sent /\ handled' = handled \cup {<<f[1], f[2]>>} /\ f[1] \in sent
        /\ f[1] \in Sendable /\ (located' = located \/ located' = located \cup {s})
    BY <2>1, ReceiveReads
  <2>3. relays' = relays
    BY <2>1 DEF Receive
  <2>4. Len(s) <= IdSize
    BY <2>2, PayloadFacts, StrippedShort, Zenon
  <2>5. \A a \in learned' : a \in learned \/ a.id \in Id
    BY <2>1, ReceiveLearns, Zenon
  <2> HIDE DEF s
  <2>6. \A id \in located' : Len(id) <= IdSize
    BY <2>2, <2>4 DEF CountInv
  <2> QED
    BY <2>2, <2>3, <2>5, <2>6 DEF CountInv
<1>4. CASE UNCHANGED deliveryVars
  BY <1>4 DEF deliveryVars, receiverVars, CountInv
<1> QED
  BY <1>1, <1>2, <1>3, <1>4, Zenon DEF DeliveryNext

(* The two invariants give the type invariant.                             *)
LEMMA TypeGives == DeliveryInv /\ CountInv => DeliveryTypeOK
<1> SUFFICES ASSUME DeliveryInv, CountInv PROVE DeliveryTypeOK
  OBVIOUS
<1>1. program \in Program /\ sent \in SUBSET Item /\ relays \in 0..MaxRelays
      /\ (\A id \in located : Len(id) <= IdSize) /\ \A h \in handled : h[1] \in sent
  BY DEF DeliveryInv, CountInv
<1>2. ASSUME NEW f \in air
      PROVE  f[1] \in sent \cap Sendable /\ f[3] \in 1..7 /\ CanParse(Frame(f))
  <2>1. AirInv
    BY DEF DeliveryInv
  <2>2. f[1] \in sent \cap Sendable /\ f[3] \in 1..7
    BY <2>1 DEF AirInv
  <2>3. CanParse(Frame(f))
    BY <2>1, FrameRead, Zenon DEF Reads, FragmentReads
  <2> QED
    BY <2>2, <2>3
<1>3. ASSUME NEW e \in fragments
      PROVE  Len(e.id) = 8 /\ Len(e.data) \in 1..FragmentSize
  <2>1. PICK x \in DOMAIN Parts : e \in Entries(x)
    BY DEF DeliveryInv, StoreInv
  <2>2. PICK i \in 1..Count(Whole(x)) : e = Entry(x, i)
    BY <2>1 DEF Entries
  <2>3. x \in Sendable /\ x \in Item
    BY PartRead, EntryFacts, Zenon
  <2>4. FragmentId[x] \in Id
    BY <2>3, ItemFacts, Zenon
  <2>5. Len(FragmentId[x]) = 8
    BY <2>4, PaddedId DEF IdSize
  <2>6. Whole(x) \in Seq(Byte) /\ Len(Whole(x)) > 0
    BY <2>3, WholeLaid, Zenon
  <2>7. Len(Chunks(Whole(x))[i]) \in 1..FragmentSize
    BY <2>6, ChunkSeq, Zenon
  <2>8. e.id = FragmentId[x] /\ e.data = Chunks(Whole(x))[i]
    BY <2>2 DEF Entry
  <2> QED
    BY <2>5, <2>7, <2>8, Zenon
<1>4. \A i \in DOMAIN shown : shown[i].message.id \in processed
  BY DEF DeliveryInv, ShownInv
<1>5. \A a \in learned : Len(a.id) = IdSize
  BY PaddedId, Zenon DEF CountInv
<1> QED
  BY <1>1, <1>2, <1>3, <1>4, <1>5, Zenon DEF DeliveryTypeOK

(* Every frame in the air can be parsed, fragments have the sizes of the   *)
(* code, peers have ids of eight bytes and addresses at most that          *)
(* (protocol.py:221-344, 526-643).                                         *)
THEOREM DeliveryTypeCorrect == DeliverySpec => []DeliveryTypeOK
<1>1. DeliveryInit => CountInv
  BY DeliveryAssumption DEF DeliveryInit, CountInv
<1>2. DeliveryInv /\ CountInv /\ [DeliveryNext]_deliveryVars => CountInv'
  BY CountStep
<1> QED
  BY <1>1, <1>2, TypeGives, DeliveryInvariant, PTL DEF DeliverySpec
=============================================================================

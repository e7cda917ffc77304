-------------------------------- MODULE Wire --------------------------------
(***************************************************************************)
(* The formats of bitchat/protocol.py: the packet with its padding, the    *)
(* payload of a chat message, the payload of an identity announcement and  *)
(* that of a fragment.  A byte is a number below 256 and bytes objects are *)
(* sequences of them, with the sizes of the code.  Texts are the bytes of  *)
(* their UTF-8 form, ids the bytes of their hexadecimal form.  None is {}, *)
(* a value v that may be None is {v}.                                      *)
(***************************************************************************)
EXTENDS Naturals, Sequences, FiniteSetsExt

Byte == 0..255
IdSize == 8
Id == [1..IdSize -> Byte]

ANNOUNCEMENT == 19     \* NOISE_IDENTITY_ANNOUNCE
MESSAGE == 4
FRAGMENTS == {5, 6, 7} \* FRAGMENT_START, FRAGMENT_CONTINUE, FRAGMENT_END
MessageType == 1..12 \cup 16..23 \cup {32, 33}

Repeat(b, n) == [i \in 1..n |-> b]

(* struct.pack('>H', n), and its inverse at position i                     *)
U16(n) == <<n \div 256, n % 256>>
U16At(d, i) == 256 * d[i] + d[i + 1]

(* A field with its length in one byte                                     *)
Short(s) == <<Len(s)>> \o s

(* d[i:i+n]: a slice stops at the end of the data.                         *)
Slice(d, i, n) == SubSeq(d, i, Min({Len(d), i + n - 1}))

Bit(weight, isSet) == IF isSet THEN weight ELSE 0
HasBit(flags, weight) == (flags \div weight) % 2 = 1

Timestamp == Repeat(0, 8)
BROADCAST == Repeat(255, IdSize)

----------------------------------------------------------------------------
(* Packets                                                                 *)

(* bytes.fromhex(id)[:8], filled up with zeros                             *)
Padded(id) == [i \in 1..IdSize |-> IF i <= Len(id) THEN id[i] ELSE 0]

StrippedEverywhere(d) == SelectSeq(d, LAMBDA b : b # 0)

(* rstrip(b'\x00')                                                         *)
Stripped(d) == SubSeq(d, 1, Max({0} \cup {i \in DOMAIN d : d[i] # 0}))

BlockSizes == {256, 512, 1024, 2048}

(* Padding to the next block size, given up when its length does not fit   *)
(* into a byte.  Its random bytes are all filler here.                     *)
Padding(n, filler) ==
    LET blocks == {b \in BlockSizes : n + 16 <= b}
        needed == IF blocks = {} THEN 0 ELSE Min(blocks) - n
    IN  IF needed > 255 THEN <<>>
        ELSE [i \in 1..needed |-> IF i = needed THEN needed ELSE filler]

(* create_bitchat_packet_with_recipient raises struct.error otherwise.     *)
CanCreate(payload) == Len(payload) < 65536

CreatePacket(sender, recipient, type, payload, signature, filler) ==
    LET to == recipient # {} \/ type \notin FRAGMENTS
        packet ==
          <<1, type, 7>> \o Timestamp
            \o <<Bit(1, to) + Bit(2, signature # <<>>)>>
            \o U16(Len(payload))
            \o Padded(sender)
            \o (IF ~to THEN <<>>
                ELSE IF recipient \in {{}, {<<>>}} THEN BROADCAST
                ELSE Padded(CHOOSE id \in recipient : TRUE))
            \o payload
            \o signature
    IN  packet \o Padding(Len(packet), filler)

(* parse_bitchat_packet raises ValueError otherwise.                       *)
CanParse(d) == Len(d) >= 13 + IdSize /\ d[1] = 1 /\ d[2] \in MessageType

ParsePacketPadded(d) ==
    LET to == HasBit(d[12], 1)
        start == IF to THEN 31 ELSE 23
    IN  [type |-> d[2], ttl |-> d[3],
         sender |-> Stripped(SubSeq(d, 15, 22)),
         recipient |-> IF to THEN {Stripped(SubSeq(d, 23, 30))} ELSE {},
         payload |-> SubSeq(d, start, Len(d))]

(* The signature and the padding are left behind; no packet of this code   *)
(* is compressed.                                                          *)
ParsePacket(d) ==
    LET to == HasBit(d[12], 1)
        start == IF to THEN 31 ELSE 23
    IN  [type |-> d[2], ttl |-> d[3],
         sender |-> Stripped(SubSeq(d, 15, 22)),
         recipient |-> IF to THEN {Stripped(SubSeq(d, 23, 30))} ELSE {},
         payload |-> Slice(d, start, U16At(d, 13))]

----------------------------------------------------------------------------
(* Chat messages: id, nickname, content, channel (empty for none), whether *)
(* the message is private or encrypted, and the ciphertext if it is.       *)

(* The id is the text of a UUID.                                           *)
ChatMessage ==
    [id : [1..36 -> Byte], nickname : Seq(Byte), content : Seq(Byte),
     channel : Seq(Byte), private : BOOLEAN, encrypted : BOOLEAN, cipher : Seq(Byte)]

Text(m) == IF m.encrypted /\ m.cipher # <<>> THEN m.cipher ELSE m.content

(* data.append raises ValueError beyond 255, struct.pack beyond 65535.     *)
CanCreateMessage(m) ==
    Len(m.nickname) < 256 /\ Len(m.channel) < 256 /\ Len(Text(m)) < 65536

(* create_bitchat_message_payload_full; the sender's id goes in as text.   *)
MessagePayload(m, peerId) ==
    <<Bit(2, m.private) + Bit(16, peerId # <<>>) + Bit(64, m.channel # <<>>)
        + Bit(128, m.encrypted)>>
      \o Timestamp
      \o Short(m.id) \o Short(m.nickname)
      \o U16(Len(Text(m))) \o Text(m)
      \o (IF peerId = <<>> THEN <<>> ELSE Short(peerId))
      \o (IF m.channel = <<>> THEN <<>> ELSE Short(m.channel))

(* parse_bitchat_message_payload                                           *)
ParseMessagePayload(d) ==
    LET idAt == 10
        nickAt == idAt + 1 + d[idAt]
        textAt == nickAt + 1 + d[nickAt]
        text == Slice(d, textAt + 2, U16At(d, textAt))
        peerAt == textAt + 2 + U16At(d, textAt)
        channelAt == IF HasBit(d[1], 16) THEN peerAt + 1 + d[peerAt] ELSE peerAt
        encrypted == HasBit(d[1], 128)
    IN  [id |-> Slice(d, idAt + 1, d[idAt]),
         content |-> IF encrypted THEN <<>> ELSE text,
         channel |-> IF HasBit(d[1], 64) THEN Slice(d, channelAt + 1, d[channelAt])
                     ELSE <<>>,
         encrypted |-> encrypted,
         cipher |-> IF encrypted THEN text ELSE <<>>]

----------------------------------------------------------------------------
(* Identity announcements: peer id, public key, signing key, nickname,     *)
(* signature, previous peer id (or None).                                  *)

Announcement ==
    [peerId : Id, publicKey : [1..32 -> Byte], signingKey : [1..32 -> Byte],
     nickname : Seq(Byte), signature : [1..64 -> Byte],
     previous : {S \in SUBSET Id : \A i, j \in S : i = j}]

CanEncodeIdentity(a) == Len(a.nickname) < 256

EncodeIdentity(a) ==
    <<Bit(1, a.previous # {})>>
      \o Padded(a.peerId)
      \o Short(a.publicKey) \o Short(a.signingKey) \o Short(a.nickname)
      \o Timestamp
      \o (IF a.previous = {} THEN <<>>
          ELSE Padded(CHOOSE id \in a.previous : TRUE))
      \o Short(a.signature)

(* parse_noise_identity_announcement_binary of complete data               *)
ParseIdentity(d) ==
    LET keyAt == 10
        signingAt == keyAt + 1 + d[keyAt]
        nickAt == signingAt + 1 + d[signingAt]
        previousAt == nickAt + 1 + d[nickAt] + 8
        signatureAt == IF HasBit(d[1], 1) THEN previousAt + IdSize ELSE previousAt
    IN  [peerId |-> SubSeq(d, 2, 9),
         publicKey |-> Slice(d, keyAt + 1, d[keyAt]),
         signingKey |-> Slice(d, signingAt + 1, d[signingAt]),
         nickname |-> Slice(d, nickAt + 1, d[nickAt]),
         previous |-> IF HasBit(d[1], 1) THEN {Slice(d, previousAt, IdSize)} ELSE {},
         signature |-> Slice(d, signatureAt + 1, d[signatureAt])]

----------------------------------------------------------------------------
(* Fragments                                                               *)

FragmentSize == 150
ShouldFragment(packet) == Len(packet) > 500

Chunks(packet) ==
    [i \in 1..((Len(packet) + FragmentSize - 1) \div FragmentSize) |->
       Slice(packet, (i - 1) * FragmentSize + 1, FragmentSize)]

FragmentType(i, total) == IF i = 1 THEN 5 ELSE IF i = total THEN 7 ELSE 6

(* send_packet_with_fragmentation: index and total, then the type of what  *)
(* is fragmented, which is always given as MESSAGE.                        *)
FragmentPackets(sender, packet, fragmentId, filler) ==
    LET chunks == Chunks(packet)
    IN  [i \in DOMAIN chunks |->
           CreatePacket(sender, {}, FragmentType(i, Len(chunks)),
                        fragmentId \o U16(i - 1) \o U16(Len(chunks))
                          \o <<MESSAGE>> \o chunks[i],
                        <<>>, filler)]

(* What a fragment handler reads from a payload of 13 bytes or more        *)
ParseFragment(payload) ==
    [id |-> SubSeq(payload, 1, 8), index |-> U16At(payload, 9),
     total |-> U16At(payload, 11), data |-> SubSeq(payload, 14, Len(payload))]
=============================================================================

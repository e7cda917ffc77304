----------------------------- MODULE DeliveryMC -----------------------------
(* Two long messages of different nodes (one encrypted for a channel), a   *)
(* message of the node itself, an announcement with the longest nickname   *)
(* and a message one byte too long for a packet.  No id ends in a zero     *)
(* byte: parse_bitchat_packet strips those, and PeerAddressed fails.       *)
EXTENDS Delivery

Bytes(n, k) == [i \in 1..n |-> (i * k) % 251]
IdText(k) == Repeat(k, 36)

Me1 == <<17, 2, 0, 3, 0, 0, 4, 5>>
Node1 == <<33, 0, 250, 9, 12, 77, 8, 1>>
Node2 == <<129, 14, 6, 0, 200, 31, 0, 66>>

Plain(k, content) ==
    [id |-> IdText(k), nickname |-> Bytes(2, k), content |-> content, channel |-> <<>>,
     private |-> FALSE, encrypted |-> FALSE, cipher |-> <<>>]
InChannel(k, cipher) ==
    [Plain(k, <<1>>) EXCEPT !.channel = <<35, 97>>, !.encrypted = TRUE, !.cipher = cipher]
Announce(id, nickname) ==
    [peerId |-> id, publicKey |-> Bytes(32, 3), signingKey |-> Bytes(32, 5),
     nickname |-> nickname, signature |-> Bytes(64, 7), previous |-> {}]

MCFragmentId ==
    [x \in Item |-> CASE x = "plain" -> Repeat(1, 8) [] x = "coded" -> Repeat(2, 8)
                      [] x = "own" -> Repeat(3, 8) [] x = "huge" -> Repeat(4, 8)
                      [] OTHER -> Repeat(0, 8)]
MCKind == [x \in Item |-> IF x = "ident" THEN "identity" ELSE "message"]
MCSender ==
    [x \in Item |-> CASE x = "own" -> Me1 [] x \in {"plain", "huge"} -> Node1 [] OTHER -> Node2]
MCBody ==
    [x \in Item |-> CASE x = "plain" -> Plain(1, Bytes(403, 1))
                      [] x = "coded" -> InChannel(2, Bytes(452, 2))
                      [] x = "own" -> Plain(3, <<>>)
                      [] x = "huge" -> Plain(4, Repeat(9, 65536 - 68))
                      [] OTHER -> Announce(MCSender[x], Bytes(255, 11))]
=============================================================================

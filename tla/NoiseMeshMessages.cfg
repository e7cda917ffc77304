SPECIFICATION FairSpec
CONSTANTS
    Node <- MCNode
    Msg = {m1, m2}
    Conn = {"c1"}
    Opener <- MCOpener
    Acceptor <- MCAcceptor
    Fragile = {"c1"}
    Leaver = {}
    BlockedPeers <- NoneBlocked
INVARIANTS
    TypeOK
    NonceUnique
    EncryptedOnce
PROPERTIES TrafficDies LoneHandshakeCompletes SentMeansAcked
CHECK_DEADLOCK FALSE

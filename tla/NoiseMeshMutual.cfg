SPECIFICATION Spec
CONSTANTS
    Node <- MCNode
    Msg = {}
    Conn = {"c1", "c2"}
    Opener <- MCOpener
    Acceptor <- MCAcceptor
    Fragile = {}
    Leaver = {}
    BlockedPeers <- NoneBlocked
INVARIANT NoVainWait
CHECK_DEADLOCK FALSE

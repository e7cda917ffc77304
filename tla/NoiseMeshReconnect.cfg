SPECIFICATION Spec
CONSTANTS
    Node <- MCNode
    Msg = {}
    Conn = {"c", "d"}
    Opener <- AllByOne
    Acceptor <- AllToTwo
    Fragile = {"c","d"}
    Leaver = {2}
    BlockedPeers <- OneBlocksTwo
INVARIANTS
    SessionAuthentic OneInitiator
PROPERTY SessionStable
CHECK_DEADLOCK FALSE

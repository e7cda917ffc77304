SPECIFICATION FairPeerSpec
CONSTANTS
    Conn = {"out1", "in1"}
    Addr = {"listener", "remote"}
    Outgoing = {"out1"}
    AddrOf <- MCAddrOf
    Broadcast = {"b1"}
    MaxOpening = 1
    Peer = {"p", "q"}
    EndOf <- MCEndOf
    Relayed = {"q"}
    Nick = {"named"}
    MaxReady = 1
INVARIANTS PeerTypeOK ViewExact RouteInSight
PROPERTIES RoutesGoAway
CHECK_DEADLOCK FALSE

SPECIFICATION FairLifecycleSpec
CONSTANTS
    Mdns = {"off", "failing", "browsing"}
    Bootstrap = {"b1", "b2"}
    Nearby = {"n1"}
    Ws = {"w1", "w2"}
    Signal = {"int", "term"}
INVARIANTS NoSilentPeer 
PROPERTIES SignalExits
CHECK_DEADLOCK FALSE

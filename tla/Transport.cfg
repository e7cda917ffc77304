SPECIFICATION FairTransportSpec
CONSTANTS
    Conn = {"out1", "out2", "in1"}
    Addr = {"listener", "remote"}
    Outgoing = {"out1", "out2"}
    AddrOf <- MCAddrOf
    Broadcast = {"b1"}
    MaxOpening = 2
INVARIANTS NoDeadEntry DownsMatchUps
PROPERTIES EvictionReported LossReported
CHECK_DEADLOCK FALSE

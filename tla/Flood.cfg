SPECIFICATION FairFloodSpec
CONSTANTS
    Node = {"a", "b", "c", "d", "e"}
    Link <- Kite
    Packet = {"m", "n", "v", "k"}
    Kind <- MCKind
    Origin <- MCOrigin
    Recipient <- MCRecipient
    FirstTTL <- MCTTL
    Blocks <- DBlocksA
    Fragile <- TailLink
    Capacity <- MCCapacity
    MaxSent = 2
INVARIANTS MessageOnce TTLRange
PROPERTIES ImplementsBroadcast FloodSettles
CHECK_DEADLOCK FALSE

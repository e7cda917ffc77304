SPECIFICATION DeliverySpec
CONSTANTS
    Item = {"plain", "coded", "own", "ident", "huge"}
    Kind <- MCKind
    Sender <- MCSender
    Body <- MCBody
    FragmentId <- MCFragmentId
    Me <- Me1
    Program = {"daemon", "client"}
    MaxRelays = 1
INVARIANTS ShownExact LargeShown PeerAddressed
CHECK_DEADLOCK FALSE

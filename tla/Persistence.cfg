SPECIFICATION PersistenceSpec
CONSTANTS
    Channel = {"c1", "c2"}
    Creator = {"p1", "p2"}
    Nickname = {"alice"}
    ConfigName = "bitchat-node"
    MaxIdentity = 3
INVARIANTS ChannelsOnDisk IdentityKept
CHECK_DEADLOCK FALSE

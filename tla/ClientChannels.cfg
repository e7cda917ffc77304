SPECIFICATION Spec
CONSTANTS
    Client = {a, b}
    Channel = {c}
    Password = {p, q}
    None = None
    MaxRuns = 2
    MaxStarts = 3
    MaxPackets = 2
SYMMETRY Alike
INVARIANTS
    OwnerReady
    NoPlaintext

    
CHECK_DEADLOCK FALSE

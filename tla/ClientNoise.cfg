SPECIFICATION Spec
CONSTANTS
    Mine = {m, n}
    Theirs = {v}
    MaxKeys = 2
    MaxTasks = 3
SYMMETRY Alike
INVARIANTS
    SentOnce
    ClientNoncesUnique
    QueueServed
PROPERTY
    KeptUntilSent
CHECK_DEADLOCK FALSE

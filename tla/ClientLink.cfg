SPECIFICATION Spec
CONSTANTS
    Link = {l1, l2}
    None = None
INVARIANTS
    NeverStranded
    Introduced
PROPERTIES
    QuitEnds
    ScansAgain

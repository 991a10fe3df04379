CONSTANTS
    w1 = w1
    w2 = w2
    w3 = w3
    r1 = r1
    Writers <- ThreeWriters
    Readers <- OneReader
    Ops <- MCOps
    Names = {"m", "rpc.x"}
    Reserved = {"rpc.x"}
    Codes = {"7", "-32600"}
    Predefined = {"-32600"}
    Settings = {"enforced"}
    Values = {"h1", "h2", "mw1", "mw2"}
    Nobody = Nobody
SYMMETRY Symmetry
SPECIFICATION Spec
INVARIANT
    ComposedInStep
PROPERTIES
    SnapshotsAreImmutable
    AtomicRegistry

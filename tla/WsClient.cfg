CONSTANTS
    c1 = c1
    b1 = b1
    Procs <- TwoProcs
    Plans <- MCPlans
    maxBatchSize = 3
    Reader = Reader
    Closer = Closer
    None = None
    PeerFrames <- MCFrames
    MaxSeq = 3
    MaxFrames = 2
SPECIFICATION Spec
INVARIANTS
    ResultsAlign
    NoPendingLeak
    LossReleasesEveryone
PROPERTY
    AnswersDelivered

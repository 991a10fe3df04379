CONSTANTS
    Ids <- MCIds
    Methods <- MCMethods
    MaxEntries = 3
    Payloads <- FramePayloads
    Configs <- FrameConfigs
    Outcomes <- FrameOutcomes
    ParentEnds = {}
    Forms = {"lbrace", "lbracket"}
    maxBatchSize = 2
    MaxDepth = 4
    MaxElements = 4
    Messages <- MCMessages
    Noise <- MCNoise
    maxSize = 5
    maxHeaderBytes = 11
    BufferSize = 5
    MaxSent = 2
    Ops <- MCOps
    maxBatchSpecs = 5
    maxBodySize = 4
    maxServerBatch = 3
    ForeignReplies <- MCReplies
    MaxSeq = 6
SPECIFICATION WireSpec
INVARIANTS
    ReplyMatchesRequests
    SilenceRule
    BatchLimitExact
    SplitMatchesJSON
    ElementsCompose
    SilenceIsExact
    FramesAreMessages
    EndIsTruthful
    LimitExact
    ResultsLineUp
    HandlerIsUnderstood

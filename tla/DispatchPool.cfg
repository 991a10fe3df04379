CONSTANTS
    Ids <- MCIds
    Methods <- MCMethods
    MaxEntries = 3
    Payloads <- PoolPayloads
    Configs <- PoolConfigs
    Outcomes <- OneOutcome
    ParentEnds = {"canceled"}
SPECIFICATION FairSpec
INVARIANTS
    ObservedOncePerEntry
    InlineVerdict
    EnforcedVerdict
PROPERTIES
    CallReturns
    OneAnswerEach
    NoGoroutineLeak

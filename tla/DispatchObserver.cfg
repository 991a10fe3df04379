CONSTANTS
    Ids <- MCIds
    Methods <- MCMethods
    MaxEntries = 3
    Payloads <- PoolPayloads
    Configs <- PoolConfigs
    Outcomes <- PoolOutcomes
    ParentEnds = {}
SPECIFICATION Spec
INVARIANT
    ObservedCodeIsReceived

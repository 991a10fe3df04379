CONSTANTS
    p1 = p1
    MaxCalls = {1, 2}
    Pushers <- OnePusher
    None = None
    MaxMessages = 3
SPECIFICATION FairSpec
PROPERTY
    DisconnectCancels

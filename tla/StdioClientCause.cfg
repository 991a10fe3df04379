CONSTANTS
    c1 = c1
    c2 = c2
    n1 = n1
    Calls <- TwoCalls
    Notifies = {}
    Reader = Reader
    Closer = Closer
    None = None
    PeerFrames <- LiveFrames
    MaxFrames = 2
SPECIFICATION Spec
INVARIANT
    CauseObservable

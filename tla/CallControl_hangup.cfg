SPECIFICATION Spec
CONSTANTS
    Calls = {c1, c2}
    NoCall = NoCall
    MaxQueries = 3
    Reentrant = FALSE
    PeerReplaces = FALSE
PROPERTY HangUpKeepsRunning
CHECK_DEADLOCK FALSE

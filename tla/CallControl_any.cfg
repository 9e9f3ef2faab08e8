SPECIFICATION FairSpec
CONSTANTS
    Calls = {c1, c2}
    NoCall = NoCall
    MaxQueries = 3
    Reentrant = TRUE
    PeerReplaces = TRUE
INVARIANTS TypeOK RingingCallIsAsked CallKeyHasNumber
PROPERTIES AnsweredAsAsked EndedCallReleased
CHECK_DEADLOCK FALSE

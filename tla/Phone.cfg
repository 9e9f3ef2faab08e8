SPECIFICATION PhoneSpec
CONSTANTS
    Calls = {c1, c2}
    NoCall = NoCall
    MaxQueries = 2
    Reentrant = FALSE
    PeerReplaces = FALSE
    MaxAccs = 3
    Domains <- MCDomains
INVARIANTS
    LiveCallIsGlobal AcceptFindsCall
    StackTypeOK GlobalAccountExists TwoAccounts OneRegistration CallsFromSettings
    HandlesFollowLibrary
    CallKeepsAccount
PROPERTY OneLine
CHECK_DEADLOCK FALSE

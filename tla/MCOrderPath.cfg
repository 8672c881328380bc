CONSTANTS
    Nobody = Nobody
    SeqLimit = 4
    MaxConn = 10
    MaxDown = 2
    OrderAddr = 0
    UserAddrs = {1, 2}
    UserIds = {1}
    KnownUsers = {1}
    FirstOrder = 1001
    FirstId = 2000
    RrLimit = 2
    AskedIds = {1001}
    MaxAsk = 2
    MaxAll = 3
SPECIFICATION PathSpec
PROPERTIES PeersFollow RequestsEnd
INVARIANTS AnswerIsOwn MadeTwiceOnlyIfLost PeersOpen TraceFollows
CHECK_DEADLOCK FALSE

CONSTANTS
    MAX_BUFFER_NUM = 2
    SndBuf = 3
    ReConnectDelay = 2
    MaxMsgs = 3
    MaxSockets = 3
    MaxNow = 3
    Never = 50
SPECIFICATION FairSpec
CHECK_DEADLOCK FALSE
INVARIANTS SentInOrder
PROPERTIES OutputIsWritten ReconnectsOnUsedLoop

CONSTANTS
    Never = 30
    Delays = {1, 2}
    Intervals = {2}
    MaxNow = 3
    MaxTimers = 6
SPECIFICATION FairSpec
CHECK_DEADLOCK FALSE
PROPERTIES ImplementsTimers DisorderOnlyByRisingRear EarlyOnlyAfterEmptying PendingTimersFire

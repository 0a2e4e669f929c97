CONSTANTS
    ThreadCnt = 2
    Acceptor = Acceptor
    Nobody = Nobody
    Conns = {c1, c2, c3}
    Tasks = {t1}
    Posters = {p1}
SPECIFICATION FairSpec
CHECK_DEADLOCK FALSE
INVARIANTS NoLostWakeup
PROPERTIES ImplementsHandoff ImplementsLiveHandoff

CONSTANTS
    MAX_BUFFER_NUM = 2
    Messages <- MCMessages
    SndBuf = 2
    Clients = 2
    MaxMsgs = 2
    MaxSends = 3
    Peers = {c1, c2}
    Server = Server
    Stranger = Stranger
    MSG_LENGTH_LIMIT = 7
    MaxDatagram = 6
    Lengths = {1, 2}
    Strange <- MCStrange
    MaxSent = 4
    MaxFaults = 1
SPECIFICATION TransportsSpec
CHECK_DEADLOCK FALSE
INVARIANTS FramedWhenFed NoCrossTalk MessagesWhole ExchangeGoesOn

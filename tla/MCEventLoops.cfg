CHECK_DEADLOCK FALSE
SPECIFICATION Spec
CONSTANTS
    Fds = {fd1, fd2}
    Backends = {"epoll", "poll", "libevent"}
    MAX_EVENTS = 2
    MaxActive = 2
    MaxTasks = 2
    MaxOpens = 2
    MaxCalls = 2
SYMMETRY Symmetry
INVARIANTS MapIsKernelSet TasksInOrder
PROPERTIES MisdirectedOnlyWhenStale

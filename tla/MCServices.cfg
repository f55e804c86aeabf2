CONSTANTS
    \* ThreadPool
    Workers = {w1, w2}
    Producers = {main, p1}
    Main = main
    Tasks = {t1}
    max_task_size_ = 2
    AnyTime = FALSE
    Repeats = {1, 2}
    MaxRun = 4
    MaxStarts = 2
    \* EventLoopPool
    MaxThreads = 3
    Quits = {TRUE, FALSE}
    \* BlockingQueue
    Pushers = {p1, p2}
    Poppers = {c1, c2}
    Watchers = {w1}
    NoThread = NoThread
    Bounds = {0, 1, 2}
    Calls = 2
    MaxSpurious = 1
    \* Protorpc
    Clients = {1, 2}
    Methods = {"Solve", "Later", "Unknown"}
    Async = {"Later"}
    Faulty = {"Unknown"}
    MaxCalls = 2
    NoConn = NoConn
    \* Signals
    Signos = {2, 15}
    Helpers = {h1}
    NoSignal = NoSignal
    MaxKills = 2
    MaxRequests = 3
    \* Acceptor
    Peers = {c1, c2, c3}
    MaxFiles = 3
    MaxBorrows = 2
    MaxFaults = 2
SPECIFICATION ServicesSpec
INVARIANTS TasksServed LoopsHandedOut QueueChecksHold RpcAnswers
PROPERTIES PoolReturns LoopsEnd QueueServes CallEnds SignalsHandled AcceptorServes
CHECK_DEADLOCK FALSE

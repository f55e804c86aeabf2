CONSTANTS
    \* Values
    Characters <- Letters
    MaxText = 4
    PathCharacters <- PathLetters
    MaxPath = 5
    Contents <- Bytes
    MaxContent = 3
    kMaxUniqueFiles = 2
    Instants <- AllInstants
    Int64Max = 199
    IntMax = 7
    kNanosecondsPerMicrosecond = 3
    kMicrosecondsPerMillisecond = 2
    kMillisecondsPerSecond = 3
    SecondsPerMinute = 2
    MinutesPerHour = 2
    kHoursPerDay = 2
    MonthDays <- ShortYear
    Zone = 3
    MaxYear = 1972
    Ports <- SomePorts
    Ips = {"any", "loopback", "host"}
    Malformed = {"malformed"}
    StackBuf = 8
    MemLimit = 32
    \* Files
    Procs = {1, 2}
    Scenarios <- FileScenarios
    MaxRoom = 9
    Mounts <- TreeMounts
    MaxHops = 2
    kBufferSize = 2
    kDefaultChunkSize = 2
    \* Handles
    Slots = {f1, f2, f3}
    MaxFd = 3
    \* Buffering
    Byte <- MCByte
    Zero = 0
    kExtraBytes = 2
    Names = {1, 2}
    Limits <- MCLimits
    InitSize = 1
    Chunks <- MCChunks
    MaxSize = 3
    \* LogFile
    Lengths = {1, 2}
    rotate_size_b_ = 3
    check_every_n_ = 2
    DaySeconds = 2
    MaxSecond = 5
    MaxBytes = 10
    \* Poller
    Channels = {c1, c2, c3}
    Fds = {3, 4}
    NoChannel = NoChannel
    \* Streams
    Base = 8
    kChecksumBytes = 1
    Types = {"Query", "Answer"}
    TypeBytes <- MCTypeBytes
    CodecKinds <- MCCodecs
    Messages <- MCMessages
    Handled = {"Query"}
    MaxSent = 3
    \* Lifetime
    Classes = {"a", "b", "c", "d"}
    Needs <- NeedsDef
    OtherThreads = {t1}
    main = main
    MaxGets = 2
SPECIFICATION LibrarySpec
INVARIANTS StringsAgree PathsRebuild ContentsReadBack ConversionsAgree FilesAgree HandlesOwned PollersAgree StreamsCarry LivesMatchUses
PROPERTIES BuffersAreQueues LogFilesBounded
CHECK_DEADLOCK FALSE

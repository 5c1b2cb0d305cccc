SPECIFICATION IpcSpec
CONSTANTS
    IpcThreads = {"t1", "t2"}
    Handlers = {"p", "q"}
    UpstreamOf <- MCUpstreamOf
    Regions = {"r"}
    MaxOpened = 1
    Entries = {1, 2}
    Windows = {1, 2}
    MaxHandles = 2
    MaxFailedOpens = 1
    IpcFails = {"get", "insert", "entry", "open", "segment"}
    FreesShared = FALSE
INVARIANTS
    OpenStaysMapped
    NothingLost
PROPERTIES
    IpcCallsReturn
CHECK_DEADLOCK FALSE

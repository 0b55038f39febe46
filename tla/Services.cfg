SPECIFICATION Spec
CONSTANTS
    fifoSize = 10
    fifoMessages <- SomeMessages
    fifoCapacities <- SomeCapacities
    dutyBands = {"b1", "b2"}
    dutySlots = 2
    dutyUnit = 2
    dutyLimit = 1
    dutyToas = {1}
    dutyWrap = 7
    roseSize = 9
    roseWindows = {2, 4}
    roseVectorLen <- Vectors
    roseRates = {0, 110, 200}
    roseRecords = {2, 3}
    roseRooms = {1, 2, 5}
    roseMaxSysc = 3
    roseWrap = 65536
    roseMaxOctets = 7
    upLengths = {1, 4, 13}
    upCounters = 3
    upRooms = {10, 27}
    upMaxSessions = 4
    cmdRequests = {"LINK_CHECK", "DEVICE_TIME"}
    cmdSetups = {"RX_PARAM_SETUP", "RX_TIMING_SETUP"}
    cmdCommands <- Lists
    cmdMaxPayloads = {11, 51}
    cmdMaxSticky = 3
    cmdInstants = 2
    clkPeriods = {1}
    clkDelays = {2}
    clkRetries <- SomeRetries
    clkRequests1 = 1
    clkRequests2 = 0
    clkJitter = 1
    clkJoinDelay = 1
    clkTokens = 2
    clkErrors = {1}
    clkInFlight = 2
    planBanks = 2
    planPerBank = 2
    planNarrowRates = {0, 1}
    planWideRates = {2, 3}
    planFhssRates = {3}
    planLowerRate <- BackOff
    planMobileRates = {1}
    planCustomRates = {3}
    planNarrowStart = 9
    planNarrowStep = 2
    planWideStart = 10
    planWrap = 64
    planLists = {{0, 1, 4}}
    planRequests <- SomeMasks
    ccGroups = {1, 2}
    ccParams = {"p", "q"}
    ccMaxCount = 2
INVARIANTS WaitFrees FrameDecodable ConfirmedIsComplete NetworkTimeRight
    ParametersAgreed SyncedIsRight LapseNoticed ChannelsHopped BackoffRecovers
    DownlinkOnce SessionsHeard SessionFound
PROPERTIES ImplementsQueue BandWithinLimit
CHECK_DEADLOCK FALSE

SPECIFICATION HalSpec
CONSTANTS
    NbHooks = 2
    Margin = 2
    AsapTrig = 2
    Resched = 3
    Offers <- HalOffers
    Aborters = {0}
    SuspendOffers = {}
    ReadsFifo = FALSE
    PastCrossing = TRUE
    MayOverwrite = FALSE
    MaxDur = 4
    Latency = 0
    HookCalls = 1
    MaxDepth = 5
    MaxLag = 0
PROPERTIES CriticalSectionsExclude

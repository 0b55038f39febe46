SPECIFICATION FairSpec
CONSTANTS
    NbHooks = 2
    Margin = 2
    AsapTrig = 3
    Resched = 3
    Offers <- StarvingOffers
    Aborters = {0}
    MayOverwrite = FALSE
    MaxDur = 4
    Latency = 1
    HookCalls = 1
    MaxDepth = 5
    MaxLag = 1
PROPERTIES EveryTaskResolved

SPECIFICATION HalSpec
CONSTANTS
    NbHooks = 2
    Margin = 2
    AsapTrig = 2
    Resched = 3
    Offers <- TypeOffers
    Aborters = {0}
    SuspendOffers <- Suspension
    ReadsFifo = TRUE
    PastCrossing = FALSE
    MayOverwrite = FALSE
    MaxDur = 3
    Latency = 1
    HookCalls = 1
    MaxDepth = 5
    MaxLag = 0
INVARIANTS OneUserUnlessCrossed SemaphoreUnlessCrossed WakeupUnlessMasked
PROPERTIES ResultsUnlessCrossed

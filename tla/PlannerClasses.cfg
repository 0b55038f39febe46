SPECIFICATION Spec
CONSTANTS
    NbHooks = 3
    Margin = 2
    AsapTrig = 2
    Resched = 3
    Offers <- ClassOffers
    Aborters <- ClassAborters
    MayOverwrite = TRUE
    MaxDur = 5
    Latency = 0
    HookCalls = 1
    MaxDepth = 5
    MaxLag = 0
INVARIANTS TypeOK NoLostWakeup
PROPERTIES TopTaskNeverLost ImplementsGrant

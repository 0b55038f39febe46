SPECIFICATION FairSpec
CONSTANTS
    MaxNonce = 2
    Wrap = 2
    MaxTrans = 2
    MaxDown = 3
    MaxUp = 2
    MaxBuilt = 2
INVARIANTS InterruptExpected
PROPERTIES CounterNamesOneFrame NonceUsedOnce AnsweredNotRepeated DownlinkNewer
    HandedUpOnce MacReturnsIdle

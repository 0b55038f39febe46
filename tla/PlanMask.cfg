SPECIFICATION Spec
CONSTANTS
    Banks = 2
    PerBank = 2
    NarrowRates = {0, 1}
    WideRates = {2, 3}
    FhssRates = {3}
    LowerRate <- BackOff
    MobileRates = {1}
    CustomRates = {2, 3}
    NarrowStart = 9
    NarrowStep = 2
    WideStart = 10
    Wrap = 64
    Lists <- FirstBank
    Requests <- AllOff
INVARIANTS ChannelsLeft

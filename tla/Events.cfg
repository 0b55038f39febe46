SPECIFICATION FairSpec
CONSTANTS
    MainTypes <- OneType
    RadioTypes <- UserRadio
    DmTypes <- OneType
    Uses <- SomeUses
    Capacity = 2
    Lengths = {1, 2}
    MaxNumber = 4
    MaxCount = 2
INVARIANTS NoEventStranded MissedAreStored MainEventsKept
PROPERTIES EventReported DownlinkReported

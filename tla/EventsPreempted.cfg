SPECIFICATION Spec
CONSTANTS
    MainTypes <- OneType
    RadioTypes <- UserRadio
    DmTypes <- OneType
    Uses <- RadioAccess
    Capacity = 2
    Lengths = {1, 2}
    MaxNumber = 5
    MaxCount = 2
INVARIANTS OneMsgPerType

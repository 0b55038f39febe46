SPECIFICATION FairSpec
CONSTANTS
    Uses <- Features
    Later = 2
    Parts = 2
INVARIANTS ServicesKept NothingOverslept
PROPERTIES DebtsKept UplinkReported JoinAnswered

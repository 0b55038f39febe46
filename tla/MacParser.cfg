SPECIFICATION FairSpec
CONSTANTS
    Requests = {"LINK_CHECK", "DEVICE_TIME"}
    Setups = {"RX_PARAM_SETUP", "RX_TIMING_SETUP"}
    Commands <- Lists
    MaxPayloads = {11, 51}
    MaxSticky = 15
    Instants = 2
PROPERTY ParserEnds
CHECK_DEADLOCK FALSE

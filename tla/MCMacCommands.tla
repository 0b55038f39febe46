--------------------------- MODULE MCMacCommands ---------------------------
EXTENDS MacCommands
C(cid, ok, val) == [cid |-> cid, ok |-> ok, val |-> val]
Lists == {<<>>, <<C("LINK_ADR", TRUE, 2)>>, <<C("RX_TIMING_SETUP", TRUE, 1)>>,
          <<C("RX_PARAM_SETUP", FALSE, 1)>>,
          <<C("DEV_STATUS", TRUE, 0), C("DEV_STATUS", TRUE, 0), C("DEV_STATUS", TRUE, 0),
            C("RX_TIMING_SETUP", TRUE, 0), C("RX_PARAM_SETUP", FALSE, 0)>>}
=============================================================================

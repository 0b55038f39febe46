----------------------------- MODULE MCServices -----------------------------
(* Small instances of the components of Services: the values that a configuration *)
(* cannot write.                                                                 *)
EXTENDS Services, TLC

\* Messages of several lengths, one longer than the ring, so that every length, metadata
\* and data wrap at every offset.
Message(byte, data, meta) ==
    [data |-> [i \in 1 .. data |-> byte + i], meta |-> [i \in 1 .. meta |-> byte + 10 + i]]

SomeMessages ==
    { Message(20, 0, 1), Message(40, 2, 1), Message(60, 2, 0), Message(80, 4, 2),
      Message(100, 9, 2) }
SomeCapacities == { [data |-> 4, meta |-> 2], [data |-> 2, meta |-> 1] }

\* The octets of the random vector of each window.
Vectors == 2 :> 1 @@ 4 :> 2

\* Commands accepted and refused, whose answers have one octet or two and fit together or
\* not, in a frame and among those kept.
C(cid, ok, val) == [cid |-> cid, ok |-> ok, val |-> val]
Lists == {<<>>, <<C("LINK_ADR", TRUE, 2)>>, <<C("RX_TIMING_SETUP", TRUE, 1)>>,
          <<C("RX_PARAM_SETUP", FALSE, 1)>>,
          <<C("RX_TIMING_SETUP", TRUE, 1), C("RX_PARAM_SETUP", TRUE, 1),
            C("RX_TIMING_SETUP", TRUE, 0)>>,
          <<C("DEV_STATUS", TRUE, 0), C("DEV_STATUS", TRUE, 0), C("DEV_STATUS", TRUE, 0),
            C("RX_TIMING_SETUP", TRUE, 0), C("RX_PARAM_SETUP", FALSE, 0)>>}

\* The waits after few, some and many requests.
SomeRetries == <<0, 1, 1>>

\* Masks of the network: LR-FHSS alone, a lone narrow channel, none, refused.
ALL == 0 .. 5
Mask(about, on, rate, fits) == [about |-> about, on |-> on, rate |-> rate, fits |-> fits]
SomeMasks == {Mask(ALL, {4, 5}, 3, TRUE), Mask({0, 1}, {0}, 4, TRUE), Mask(ALL, {}, 4, TRUE),
              Mask(ALL, {0, 1, 4}, 4, FALSE)}
BackOff == 0 :> 0 @@ 1 :> 0 @@ 2 :> 1 @@ 3 :> 0

=============================================================================

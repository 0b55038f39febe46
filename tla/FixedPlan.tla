----------------------------- MODULE FixedPlan -----------------------------
(***************************************************************************)
(* The channels of the regions with a fixed plan (region_us_915.c; au_915 is *)
(* alike) and the data rates that the MAC draws for them (smtc_real.c): the  *)
(* network's masks, the sub-band phases that follow a join without a mask,   *)
(* the hopping that uses every channel once before it uses one twice, and    *)
(* the back-off of the adaptive data rate.  Banks of narrow channels come    *)
(* with one wide channel each.                                               *)
(***************************************************************************)
EXTENDS Integers, FiniteSets, FiniteSetsExt

CONSTANTS
    Banks, PerBank,            \* the banks of narrow channels, the channels of each
    NarrowRates, WideRates,    \* the data rates of a channel
    FhssRates,                 \* those of the wide rates that are LR-FHSS
    LowerRate,                 \* datarate_backoff_us_915
    MobileRates, CustomRates,  \* the rates of the user's two kinds of distribution
    NarrowStart, NarrowStep, WideStart,   \* the frequencies
    Wrap,                      \* the frequencies are unsigned
    Lists,                     \* the channels that a CFList may enable
    Requests                   \* the LinkADRReq of the network

Rates == NarrowRates \cup WideRates
Narrow == 0 .. Banks * PerBank - 1
Wide == Banks * PerBank .. Banks * PerBank + Banks - 1
Channels == Narrow \cup Wide
WideOf(b) == Banks * PerBank + b
BankChannels(b) == {c \in Narrow : c \div PerBank = b}
Block(b) == BankChannels(b) \cup {WideOf(b)}

LowestWide == Min(WideRates)

\* The rate of a request that leaves the rate alone (15).
Keep == Max(Rates) + 1

FixedPlanAssumption ==
    /\ Banks \in Nat \ {0, 1} /\ PerBank \in Nat \ {0, 1}
    /\ NarrowRates \subseteq 0 .. 14 /\ WideRates \subseteq 0 .. 14 /\ 0 \in NarrowRates
    /\ FhssRates \subseteq WideRates /\ \A n \in NarrowRates, w \in WideRates : n < w
    /\ WideRates \ FhssRates \subseteq {LowestWide}
    /\ LowerRate \in [Rates -> Rates] /\ \A r \in Rates \ {0} : LowerRate[r] < r
    /\ {MobileRates, CustomRates} \subseteq (SUBSET Rates) \ {{}}
    /\ Lists \subseteq SUBSET Channels
    /\ Requests \subseteq [about : SUBSET Channels, on : SUBSET Channels,
                           rate : Rates \cup {Keep}, fits : BOOLEAN]
    /\ NarrowStart \in Nat /\ WideStart \in NarrowStart .. Wrap - 1
    /\ NarrowStep \in Nat \ {0} /\ WideStart - NarrowStart < PerBank * NarrowStep
    /\ Wrap \in Nat

VARIABLES
    \* the region's context and the MAC's: enabled, unwrapped and snapshot are
    \* channel_index_enabled, unwrapped_channel_mask and snapshot_channel_tx_mask, phase
    \* first_ch_mask_received, bank snapshot_bank_tx_mask, mode and saved adr_mode_select
    \* and adr_mode_select_tmp, custom the rates of adr_custom, retried retry_join_cpt # 0,
    \* rate and adr tx_data_rate and tx_data_rate_adr, last the channel of tx_frequency
    \* while a phase may need it.  History: taken, how often each channel was chosen since
    \* the mask was set, over the least chosen of its bandwidth.
    dev

vars == <<dev>>

\* The code's values of first_ch_mask_received, in order.
Init0 == 0
Eight == 1
FiftySix == 2
Full == 3

RatesOf(c) == IF c \in Narrow THEN NarrowRates ELSE WideRates
MaskRates(mask) == UNION {RatesOf(c) : c \in mask}

Init ==
    /\ dev = [enabled |-> Channels, unwrapped |-> Channels, snapshot |-> Channels,
              phase |-> Init0, bank |-> 0, mode |-> "STATIC", saved |-> "STATIC",
              custom |-> CustomRates, retried |-> FALSE, rate |-> 0, adr |-> 0, last |-> 0,
              join |-> "NOT_JOINED", busy |-> FALSE, panic |-> "none",
              taken |-> [c \in Channels |-> 0]]

-----------------------------------------------------------------------------
(* The data rate. *)

\* smtc_real_set_dr_distribution: the rates that may be drawn.
Distribution(d) ==
    CASE d.mode = "STATIC" -> {0}
      [] d.mode = "JOIN"   -> {0, LowestWide}
      [] d.mode = "MOBILE" -> MobileRates
      [] d.mode = "USER"   -> d.custom

\* smtc_real_get_next_dr: every rate of the distribution comes within the 224 trials, so
\* they fail only when no enabled channel has one of them.
NextDr(d) ==
    LET drawn == Distribution(d) \cap MaskRates(d.enabled)
    IN IF d.mode = "STATIC" /\ d.join = "JOINED" THEN {[d EXCEPT !.rate = d.adr]}
       ELSE IF drawn = {} THEN {[d EXCEPT !.mode = "STATIC", !.rate = d.adr]}
       ELSE {[d EXCEPT !.rate = r] : r \in drawn}

\* region_us_915_is_acceptable_tx_dr: narrow channels are hopped on, two at least.
Acceptable(mask, r) ==
    /\ r \in MaskRates(mask)
    /\ r < LowestWide => Cardinality(mask \cap Narrow) >= 2

\* smtc_real_get_min_tx_channel_dr.
MinRate(mask) == Min(MaskRates(mask) \cup {Max(Rates)})

\* smtc_real_decrement_dr_simulation: the first rate of the table that is acceptable.
Below[r \in Rates] == IF r = 0 THEN {} ELSE {LowerRate[r]} \cup Below[LowerRate[r]]
Lowered(mask, r) ==
    LET down == {s \in Below[r] : Acceptable(mask, s)} IN IF down = {} THEN r ELSE Max(down)

\* Channels that are enabled beside the snapshot wait for its renewal, as if used.
AllEnabled(d) ==
    [d EXCEPT !.enabled = Channels,
              !.taken = [c \in Channels |-> IF c \in d.snapshot THEN 0 ELSE 1]]

\* Mutant: the lowest rate is that of the region.
DecrementedToZero(d) ==
    IF d.mode # "STATIC" THEN d
    ELSE IF d.adr # 0 THEN [d EXCEPT !.adr = Lowered(d.enabled, d.adr)]
    ELSE [AllEnabled(d) EXCEPT !.adr = Lowered(Channels, d.adr)]

\* smtc_real_decrement_dr, of a device that the network controls and whose power is back
\* to its maximum.
Decremented(d) ==
    IF d.mode # "STATIC" THEN d
    ELSE IF d.adr # MinRate(d.enabled) THEN [d EXCEPT !.adr = Lowered(d.enabled, d.adr)]
    ELSE [AllEnabled(d) EXCEPT !.adr = Lowered(Channels, d.adr)]

-----------------------------------------------------------------------------
(* The channel. *)

Freq(c) ==
    IF c \in Narrow THEN NarrowStart + c * NarrowStep
    ELSE WideStart + (c - WideOf(0)) * PerBank * NarrowStep

\* The block of the frequency last used, computed with the bandwidth of the rate of the
\* next frame.
LastBlock(d) ==
    IF d.rate \in NarrowRates
      THEN (Freq(d.last) - NarrowStart) \div (PerBank * NarrowStep)
      ELSE (((Freq(d.last) - WideStart) % Wrap) \div (PerBank * NarrowStep)) % Banks

\* region_us_915_set_channel_mask.
MaskSet(d, mask) ==
    [d EXCEPT !.unwrapped = mask, !.enabled = mask, !.snapshot = mask, !.phase = Full,
              !.taken = [c \in Channels |-> 0]]

\* region_us_915_init_after_join_snapshot_channel_mask: after a join the block it was
\* sent on, then the others; an LR-FHSS rate has no bandwidth to compute it with.
BlockMask(d) ==
    IF d.phase = Init0 THEN Block(LastBlock(d)) ELSE Channels \ Block(LastBlock(d))
AfterJoin(d) ==
    IF d.rate \in FhssRates THEN [d EXCEPT !.panic = "rate"]
    ELSE [MaskSet(d, BlockMask(d)) EXCEPT !.phase = d.phase + 1]

\* Mutant: the channels of both bandwidths are renewed together.
RenewedTogether(d) ==
    IF \E c \in d.enabled : \A e \in d.snapshot : RatesOf(e) # RatesOf(c)
      THEN [d EXCEPT !.snapshot = d.enabled] ELSE d

\* In the nominal phase, the channels of a bandwidth that have all been used.
Renewed(d) ==
    LET used == {c \in d.enabled : \A e \in d.snapshot : RatesOf(e) # RatesOf(c)}
    IN [d EXCEPT !.snapshot = @ \cup used]

\* The beginning of region_us_915_get_next_channel: the phase goes on as soon as the
\* channels of a bandwidth have been used.
Exhausted(d) == d.snapshot \cap Narrow = {} \/ d.snapshot \cap Wide = {}
Prepared(d) ==
    CASE d.phase = Full -> Renewed(d)
      [] d.phase = FiftySix /\ Exhausted(d) -> MaskSet(d, Channels)
      [] d.phase < FiftySix /\ Exhausted(d) -> AfterJoin(d)
      [] OTHER -> d

\* The uses of the channels of a mask once c is taken, over the least used of the same
\* bandwidth.
Fair(taken, c, mask) ==
    LET uses == [taken EXCEPT ![c] = @ + 1]
    IN [e \in Channels |->
          IF e \notin mask THEN 0
          ELSE uses[e] - Min({uses[f] : f \in {f \in mask : RatesOf(f) = RatesOf(e)}})]

\* The end of region_us_915_get_next_channel.
Candidates(d) == {c \in d.snapshot \cap d.enabled : d.rate \in RatesOf(c)}
Using(d, c) ==
    [d EXCEPT !.snapshot = @ \ {c}, !.busy = TRUE, !.last = IF d.phase = Full THEN 0 ELSE c,
              !.taken = Fair(@, c, d.enabled)]
Taken(d) ==
    IF d.panic # "none" THEN {d}
    ELSE IF Candidates(d) = {} THEN {[d EXCEPT !.panic = "channel"]}
    ELSE {Using(d, c) : c \in Candidates(d)}

NextChannel(d) == Taken(Prepared(d))

\* region_us_915_get_join_next_channel: bank after bank, the wide channels last and in
\* order; all channels are enabled, so the first bank it comes to has one.
JoinBank(d) == IF d.bank > Banks THEN 0 ELSE d.bank
JoinLeft(d) ==
    LET all == IF JoinBank(d) = Banks THEN Wide ELSE BankChannels(JoinBank(d))
    IN IF d.snapshot \cap all = {} THEN all ELSE d.snapshot \cap all
JoinOn(d, c) ==
    [d EXCEPT !.snapshot = (@ \cup JoinLeft(d)) \ {c}, !.bank = JoinBank(d) + 1, !.last = c,
              !.rate = IF JoinBank(d) = Banks THEN LowestWide ELSE 0]
JoinChannel(d) ==
    {JoinOn(d, c) : c \in IF JoinBank(d) = Banks THEN {Min(JoinLeft(d))} ELSE JoinLeft(d)}

-----------------------------------------------------------------------------
(* The MAC. *)

\* A frame is given a channel.
Sends(d) == dev' \in NextChannel(d)

\* An exchange ends; no frame is to send.
Ends(d) == dev' = [d EXCEPT !.busy = FALSE]

Runs == dev.panic = "none"

\* lr1mac_core_join: the profile is kept aside, unless it is that of a join that failed.
Joining(d) ==
    [d EXCEPT !.enabled = Channels, !.phase = Init0, !.adr = 0, !.join = "JOINING",
              !.saved = IF d.mode = "JOIN" /\ d.retried THEN @ ELSE d.mode,
              !.mode = "JOIN", !.busy = TRUE]
Join ==
    /\ Runs /\ ~dev.busy /\ dev.join # "JOINED"
    /\ dev' \in JoinChannel(Joining(dev))

\* lr1_stack_mac_join_accept: the channels are set before the accept is found invalid.
\* A CFList of another region's type, or without channel, is ignored.
\* What only another join reads is forgotten, as Leave comes before.
Configured(d) ==
    {AfterJoin(d)} \cup {MaskSet(d, l) : l \in Lists}
    \cup {[AllEnabled(d) EXCEPT !.unwrapped = u] : u \in {{}, d.unwrapped}}
NotJoined(d) == [d EXCEPT !.join = "NOT_JOINED", !.retried = TRUE]
Joined(d) ==
    [d EXCEPT !.join = "JOINED", !.mode = d.saved, !.saved = "STATIC", !.retried = FALSE,
              !.bank = 0]
Accepted(a) ==
    \/ a.panic # "none" /\ Ends(a)
    \/ a.panic = "none" /\ Ends(NotJoined(a))
    \/ a.panic = "none" /\ \E d \in NextDr(Joined(a)) : Ends(d)
JoinAccept ==
    /\ Runs /\ dev.busy /\ dev.join = "JOINING"
    /\ \E a \in Configured(dev) : Accepted(a)

\* No accept came.
JoinFailed ==
    /\ Runs /\ dev.busy /\ dev.join = "JOINING"
    /\ Ends(NotJoined(dev))

\* lr1mac_core_join_status_clear, between two exchanges; what the next join sets anew
\* before it is read is forgotten.
Leave ==
    /\ Runs /\ ~dev.busy
    /\ dev' = [dev EXCEPT !.join = "NOT_JOINED", !.snapshot = Channels, !.bank = 0,
                          !.retried = FALSE, !.rate = 0, !.adr = 0, !.last = 0,
                          !.phase = Init0, !.taken = [c \in Channels |-> 0]]

\* lr1mac_core_payload_send; the duty cycle is asked when the channel is already taken.
Send ==
    /\ Runs /\ ~dev.busy /\ dev.join = "JOINED"
    /\ \/ Sends(dev)
       \/ \E d \in NextChannel(dev) : Ends(d)

\* lr1mac_mac_update after a frame without answer: repeated, on another channel, or not;
\* in both cases the back-off may be due.
Repeat ==
    /\ Runs /\ dev.busy /\ dev.join = "JOINED"
    /\ \E d \in {dev, Decremented(dev)} : Sends(d)
Unanswered ==
    /\ Runs /\ dev.busy /\ dev.join = "JOINED"
    /\ \E d \in {dev, Decremented(dev)} : \E e \in NextDr(d) : Ends(e)

\* region_us_915_build_channel_mask: the channels that a mask control is about (a group of
\* narrow ones, the wide ones, banks, all) are those it enables.
Built(d, k) == [d EXCEPT !.unwrapped = (@ \ k.about) \cup (k.on \cap k.about)]

\* smtc_real_is_channel_mask_for_mobile_mode: the search of the highest rate of the
\* distribution never runs, so only the lowest one counts.
ForMobile(d) == \E r \in MaskRates(d.unwrapped) : r >= Min(Distribution(d))

\* link_adr_parser; fits: the mask controls and the power are valid.
Parsed(d, k) ==
    IF d.mode # "STATIC" THEN IF k.fits /\ ForMobile(d) THEN MaskSet(d, d.unwrapped) ELSE d
    ELSE IF k.fits /\ (k.rate \in Rates => Acceptable(d.unwrapped, k.rate))
      THEN [MaskSet(d, d.unwrapped) EXCEPT !.adr = IF k.rate \in Rates THEN k.rate ELSE @]
    ELSE d

\* A LinkADRReq comes with the answer to a frame; it is answered in a frame of its own.
LinkAdr ==
    /\ Runs /\ dev.busy /\ dev.join = "JOINED"
    /\ \E k \in Requests : \E e \in NextDr(Parsed(Built(dev, k), k)) : Sends(e)

\* lr1mac_core_dr_strategy_set, by the user at any time; a custom distribution is built
\* from the rates of the enabled channels (set_modem_adr_profile).
Strategy(d, mode) ==
    [d EXCEPT !.mode = mode,
              !.custom = IF mode = "USER" THEN CustomRates \cap MaskRates(d.enabled) ELSE @,
              !.adr = IF mode = "STATIC" THEN MinRate(d.enabled) ELSE @]
DrStrategySet ==
    /\ Runs
    /\ \E mode \in {"STATIC", "MOBILE", "USER"} :
         /\ mode = "USER" => Strategy(dev, mode).custom # {}
         /\ dev' \in NextDr(Strategy(dev, mode))

Next ==
    \/ Join \/ JoinAccept \/ JoinFailed \/ Leave \/ Send \/ Repeat \/ Unanswered \/ LinkAdr
    \/ DrStrategySet

Spec == Init /\ [][Next]_vars

-----------------------------------------------------------------------------
\* Every channel of the mask is used once before one of its bandwidth is used twice, in
\* each phase, whatever the masks, the repetitions and the back-off in between; and a
\* panic of the search of a channel is never due to the channels already used, only to a
\* rate that no enabled channel has: one that the network told to keep, or the rate of
\* the network that a distribution gives way to.  The other panic is that of the LR-FHSS
\* rates in the phases that follow a join.
ChannelsHopped ==
    /\ dev.join = "JOINED" => \A c \in dev.enabled : dev.taken[c] <= 1
    /\ dev.panic = "channel" => dev.rate \notin MaskRates(dev.enabled) /\ dev.mode = "STATIC"
    /\ dev.panic = "rate" => dev.rate \in FhssRates /\ dev.phase < FiftySix

\* A mask is set with an active channel at least.
ChannelsLeft == dev.enabled # {}

\* Whatever the network asked for, the back-off of a device that is not answered any more
\* ends up enabling all the channels again -- unless a lone narrow channel, or LR-FHSS on
\* wide channels only, leaves no lower rate acceptable while one is enabled.
Backed[k \in 0 .. Cardinality(Rates)] ==
    IF k = 0 THEN dev ELSE Decremented(Backed[k - 1])
BackoffRecovers ==
    dev.join = "JOINED" /\ dev.panic = "none" /\ dev.mode = "STATIC" /\ dev.adr \in MaskRates(dev.enabled) =>
        \/ Backed[Cardinality(Rates)].enabled = Channels
        \/ Cardinality(dev.enabled \cap Narrow) = 1
        \/ dev.enabled \cap Narrow = {} /\ dev.adr \in FhssRates

=============================================================================

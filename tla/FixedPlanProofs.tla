--------------------------- MODULE FixedPlanProofs ---------------------------
(***************************************************************************)
(* The channels of a fixed plan, for any banks, rates, masks and requests:   *)
(* a channel is used once before one of its bandwidth is used twice, and a   *)
(* channel is found for every rate that an enabled one supports.             *)
(*                                                                         *)
(* The two lean on each other.  A search fails only if the snapshot lacks    *)
(* the channels of a bandwidth that the mask has, which the renewal excludes *)
(* as long as the snapshot is part of the mask; and the uses counted are     *)
(* those that the snapshot tells, up to a turn (Hopped).  That a             *)
(* distribution's rate always finds a channel rests on the blocks of the     *)
(* phases that follow a join having both bandwidths, whichever channel the   *)
(* join was sent on (LastBlockInRange).                                      *)
(***************************************************************************)
EXTENDS FixedPlan, FiniteSetTheorems, WellFoundedInduction, TLAPS

\* A device's record.
Fields == {"enabled", "unwrapped", "snapshot", "phase", "bank", "mode", "saved", "custom",
           "retried", "rate", "adr", "last", "join", "busy", "panic", "taken"}
IsDev(d) == d = [f \in Fields |-> d[f]]

\* The masks are sets of channels, and none was used twice more than another.
Typed(d) ==
    /\ IsDev(d)
    /\ d.enabled \subseteq Channels /\ d.unwrapped \subseteq Channels
    /\ d.snapshot \subseteq Channels /\ d.last \in Channels /\ d.phase \in 0 .. 3
    /\ d.taken \in [Channels -> {0, 1}]

Bandwidths == {Narrow, Wide}

\* The channels of a bandwidth that were used once more than the others are those that
\* have left the snapshot; when all have, the count starts again, or all wait for the
\* renewal.
HoppedOn(d, K) ==
    \/ \A c \in d.enabled \cap K : d.taken[c] = IF c \in d.snapshot THEN 0 ELSE 1
    \/ d.snapshot \cap K = {} /\ \A c \in d.enabled \cap K : d.taken[c] = 0
Hopped(d) == d.snapshot \subseteq d.enabled /\ \A K \in Bandwidths : HoppedOn(d, K)

\* A rate drawn from a distribution has a channel.
Drawn(d) == d.mode # "STATIC" => d.rate \in MaskRates(d.enabled)

\* The inductive invariant, of the present device.
Kept(d) ==
    /\ Typed(d)
    /\ d.panic = "none" /\ d.join = "JOINING" => d.phase = Init0
    /\ d.panic = "none" /\ d.join = "JOINED" => Hopped(d) /\ Drawn(d)
    /\ d.panic = "channel" => d.rate \notin MaskRates(d.enabled) /\ d.mode = "STATIC"
    /\ d.panic = "rate" => d.rate \in FhssRates /\ d.phase < FiftySix
PlanInv == Kept(dev)

-----------------------------------------------------------------------------
(* Arithmetic. *)

\* The quotient of a number between two multiples.
LEMMA Quotient ==
    ASSUME NEW a \in Nat, NEW c \in Nat \ {0}, NEW q \in Nat, NEW r \in 0 .. c - 1,
           a = c * q + r
    PROVE  a \div c = q
<1> DEFINE p == a \div c  s == a % c
<1>1. p \in Nat /\ s \in 0 .. c - 1 /\ a = c * p + s OBVIOUS
<1> HIDE DEF p, s
<1>2. CASE p > q
  <2>1. p - q - 1 \in Nat BY <1>1, <1>2
  <2>2. c * (p - q - 1) \in Nat BY <2>1
  <2>3. c * (p - q - 1) = c * p - c * q - c BY <1>1
  <2>4. c * p \in Nat /\ c * q \in Nat BY <1>1
  <2> QED BY <1>1, <2>2, <2>3, <2>4
<1>3. CASE q > p
  <2>1. q - p - 1 \in Nat BY <1>1, <1>3
  <2>2. c * (q - p - 1) \in Nat BY <2>1
  <2>3. c * (q - p - 1) = c * q - c * p - c BY <1>1
  <2>4. c * p \in Nat /\ c * q \in Nat BY <1>1
  <2> QED BY <1>1, <2>2, <2>3, <2>4
<1> QED BY <1>1, <1>2, <1>3 DEF p

\* A product grows with its factors.
LEMMA Times ==
    ASSUME NEW a \in Nat, NEW b \in Nat, NEW c \in Nat, a <= b
    PROVE  a * c \in Nat /\ b * c \in Nat /\ a * c <= b * c
<1>1. b - a \in Nat OBVIOUS
<1>2. (b - a) * c \in Nat BY <1>1
<1>3. (b - a) * c = b * c - a * c OBVIOUS
<1>4. a * c \in Nat /\ b * c \in Nat OBVIOUS
<1> QED BY <1>2, <1>3, <1>4

\* The least of numbers of which one is at most one more than another.
LEMMA LeastOfTwo ==
    ASSUME NEW t \in Int, NEW V \in SUBSET {t, t + 1}, V # {}
    PROVE  /\ t \in V => Min(V) = t
           /\ t \notin V => Min(V) = t + 1
<1>1. CASE t \in V
  <2>1. \A x \in V : t <= x OBVIOUS
  <2>2. \A m \in V : (\A x \in V : m <= x) => m = t BY <1>1
  <2> QED BY <1>1, <2>1, <2>2 DEF Min
<1>2. CASE t \notin V
  <2>1. V = {t + 1} BY <1>2
  <2> QED BY <1>2, <2>1 DEF Min
<1> QED BY <1>1, <1>2

\* The least of a set of naturals.
LEMMA LeastIn ==
    ASSUME NEW S \in SUBSET Nat, S # {}
    PROVE  Min(S) \in S /\ \A n \in S : Min(S) <= n
<1> DEFINE Lt == {ss \in Nat \X Nat : ss[1] < ss[2]}
<1>1. IsWellFoundedOn(Lt, Nat) BY NatLessThanWellFounded DEF OpToRel
<1>2. PICK m \in S : \A n \in S : <<n, m>> \notin Lt
  <2> HIDE DEF Lt
  <2> QED BY <1>1, WFMin, Zenon
<1>3. \A n \in S : ~(n < m) BY <1>2
<1>4. \A n \in S : m <= n BY <1>3
<1> QED BY <1>4 DEF Min

-----------------------------------------------------------------------------
(* The plan. *)

\* The channels are numbered, and those of the two bandwidths have other rates.
LEMMA TwoBandwidths ==
    ASSUME FixedPlanAssumption
    PROVE  /\ \A c \in Narrow : RatesOf(c) = NarrowRates
           /\ \A c \in Wide : RatesOf(c) = WideRates
           /\ Narrow \cap Wide = {} /\ NarrowRates \cap WideRates = {}
           /\ NarrowRates # WideRates
<1>1. Banks * PerBank \in Nat BY DEF FixedPlanAssumption
<1>2. Narrow \cap Wide = {} BY <1>1 DEF Narrow, Wide, FixedPlanAssumption
<1>3. NarrowRates \cap WideRates = {} /\ NarrowRates # WideRates
  BY DEF FixedPlanAssumption
<1> QED BY <1>2, <1>3 DEF RatesOf

\* The first channel.
LEMMA ChannelZero == ASSUME FixedPlanAssumption PROVE 0 \in Channels /\ 0 \in Narrow
<1>1. Banks * PerBank \in Nat /\ Banks * PerBank > 0
  <2>1. \A a, b \in Nat \ {0} : a * b \in Nat /\ a * b > 0 OBVIOUS
  <2> QED BY <2>1 DEF FixedPlanAssumption
<1> QED BY <1>1 DEF Narrow, Channels

\* The bandwidth of a channel, by its rates.
LEMMA SameBandwidth ==
    ASSUME FixedPlanAssumption, NEW K \in Bandwidths, NEW c \in K, NEW e \in Channels
    PROVE  RatesOf(e) = RatesOf(c) <=> e \in K
BY TwoBandwidths DEF Bandwidths, Channels

\* A rate that a channel of a set supports is one of its bandwidth.
LEMMA RatesOfMask ==
    ASSUME FixedPlanAssumption, NEW mask \in SUBSET Channels, NEW r, NEW K \in Bandwidths
    PROVE  /\ r \in MaskRates(mask) => \E c \in mask : r \in RatesOf(c)
           /\ mask \cap Narrow # {} /\ mask \cap Wide # {} => MaskRates(mask) = Rates
           /\ MaskRates(mask) \subseteq Rates
<1>1. \A c \in mask : RatesOf(c) \in {NarrowRates, WideRates} BY DEF RatesOf
<1>2. MaskRates(mask) \subseteq Rates BY <1>1 DEF MaskRates, Rates
<1>3. r \in MaskRates(mask) => \E c \in mask : r \in RatesOf(c) BY DEF MaskRates
<1>4. ASSUME mask \cap Narrow # {}, mask \cap Wide # {} PROVE Rates \subseteq MaskRates(mask)
  <2>1. PICK n \in mask : RatesOf(n) = NarrowRates BY <1>4, TwoBandwidths
  <2>2. PICK w \in mask : RatesOf(w) = WideRates BY <1>4, TwoBandwidths
  <2> QED BY <2>1, <2>2 DEF MaskRates, Rates
<1> QED BY <1>2, <1>3, <1>4

\* The block of the channel last used is one of the plan's, whatever the bandwidth of the
\* next frame: the wide channels lie within their banks.
LEMMA LastBlockInRange ==
    ASSUME FixedPlanAssumption, NEW d, d.last \in Channels
    PROVE  LastBlock(d) \in 0 .. Banks - 1
<1> USE DEF FixedPlanAssumption
<1> DEFINE step == PerBank * NarrowStep
<1>1. step \in Nat \ {0} /\ Banks \in Nat \ {0} /\ PerBank \in Nat \ {0}
  <2>1. \A a, b \in Nat \ {0} : a * b \in Nat \ {0} OBVIOUS
  <2> QED BY <2>1
<1>2. CASE d.rate \in NarrowRates /\ d.last \in Narrow
  <2> DEFINE q == d.last \div PerBank  r == d.last % PerBank
  <2>1. d.last \in Nat /\ d.last < Banks * PerBank BY <1>2 DEF Narrow
  <2>2. q \in Nat /\ r \in 0 .. PerBank - 1 /\ d.last = PerBank * q + r BY <1>1, <2>1
  <2> HIDE DEF q, r
  <2>3. q < Banks
    <3> SUFFICES ASSUME Banks <= q PROVE FALSE BY <2>2
    <3>1. Banks * PerBank <= q * PerBank BY <2>2, Times
    <3>2. q * PerBank = PerBank * q BY <2>2
    <3> QED BY <2>1, <2>2, <3>1, <3>2
  <2>4. d.last * NarrowStep = step * q + r * NarrowStep
    <3>1. (PerBank * q + r) * NarrowStep = PerBank * q * NarrowStep + r * NarrowStep
      BY <2>2
    <3>2. PerBank * q * NarrowStep = PerBank * NarrowStep * q BY <2>2
    <3> QED BY <2>2, <3>1, <3>2
  <2>5. r * NarrowStep \in 0 .. step - 1
    <3>1. r + 1 \in Nat /\ r + 1 <= PerBank BY <2>2
    <3>2. (r + 1) * NarrowStep <= PerBank * NarrowStep /\ r * NarrowStep \in Nat
      BY <2>2, <3>1, Times
    <3>3. (r + 1) * NarrowStep = r * NarrowStep + NarrowStep BY <2>2
    <3> QED BY <1>1, <3>2, <3>3
  <2>6. d.last * NarrowStep \in Nat BY <2>1
  <2>7. (d.last * NarrowStep) \div step = q
    BY <1>1, <2>2, <2>4, <2>5, <2>6, Quotient
  <2>8. Freq(d.last) - NarrowStart = d.last * NarrowStep BY <1>2, <2>6 DEF Freq
  <2>9. LastBlock(d) = q BY <1>2, <2>7, <2>8 DEF LastBlock
  <2> QED BY <2>2, <2>3, <2>9
<1>3. CASE d.rate \in NarrowRates /\ d.last \notin Narrow
  <2> DEFINE q == d.last - WideOf(0)  r == WideStart - NarrowStart
  <2>1. Banks * PerBank \in Nat BY <1>1
  <2>2. d.last \in Wide BY <1>3 DEF Channels
  <2>3. q \in 0 .. Banks - 1 BY <1>1, <2>1, <2>2 DEF Wide, WideOf
  <2>4. r \in 0 .. step - 1 BY <1>1
  <2> HIDE DEF q
  <2>5. q * PerBank * NarrowStep = step * q BY <1>1, <2>3
  <2>6. step * q \in Nat BY <1>1, <2>3
  <2>7. Freq(d.last) = WideStart + q * PerBank * NarrowStep BY <1>3 DEF Freq, q
  <2>8. Freq(d.last) - NarrowStart = step * q + r
    BY <2>4, <2>5, <2>6, <2>7
  <2>9. step * q + r \in Nat BY <2>4, <2>6
  <2>10. (Freq(d.last) - NarrowStart) \div step = q
    BY <1>1, <2>3, <2>4, <2>8, <2>9, Quotient
  <2>11. LastBlock(d) = q BY <1>3, <2>10 DEF LastBlock
  <2> QED BY <2>3, <2>11
<1>4. CASE d.rate \notin NarrowRates
  <2> DEFINE a == ((Freq(d.last) - WideStart) % Wrap) \div step
  <2>1. NarrowStart * 1 \in Nat /\ WideStart \in Nat /\ Wrap \in Nat \ {0} OBVIOUS
  <2>2. Freq(d.last) \in Int
    <3>1. Banks * PerBank \in Nat BY <1>1
    <3>2. d.last \in Nat BY <1>1, <3>1 DEF Channels, Narrow, Wide
    <3>3. WideOf(0) \in Int BY <3>1 DEF WideOf
    <3>4. d.last * NarrowStep \in Int /\ (d.last - WideOf(0)) * PerBank \in Int
      BY <3>2, <3>3
    <3>5. (d.last - WideOf(0)) * PerBank * NarrowStep \in Int BY <3>4
    <3> QED BY <2>1, <3>4, <3>5 DEF Freq
  <2>3. (Freq(d.last) - WideStart) % Wrap \in Nat BY <2>1, <2>2
  <2>4. a \in Int BY <1>1, <2>3
  <2>5. a % Banks \in 0 .. Banks - 1 BY <1>1, <2>4
  <2>6. LastBlock(d) = a % Banks BY <1>4 DEF LastBlock
  <2> QED BY <2>5, <2>6
<1> QED BY <1>2, <1>3, <1>4

\* A block and the others have channels of both bandwidths.
LEMMA BlocksAreWhole ==
    ASSUME FixedPlanAssumption, NEW b \in 0 .. Banks - 1
    PROVE  /\ Block(b) \subseteq Channels
           /\ Block(b) \cap Narrow # {} /\ Block(b) \cap Wide # {}
           /\ (Channels \ Block(b)) \cap Narrow # {} /\ (Channels \ Block(b)) \cap Wide # {}
<1> USE DEF FixedPlanAssumption
<1>1. Banks \in Nat \ {0, 1} /\ PerBank \in Nat \ {0} /\ Banks * PerBank \in Nat OBVIOUS
<1>2. ASSUME NEW k \in 0 .. Banks - 1
      PROVE  k * PerBank \in Narrow /\ (k * PerBank) \div PerBank = k /\ WideOf(k) \in Wide
             /\ WideOf(k) \notin Narrow /\ k * PerBank \in Nat
  <2>1. k + 1 \in Nat /\ k + 1 <= Banks BY <1>1
  <2>2. (k + 1) * PerBank <= Banks * PerBank /\ k * PerBank \in Nat BY <1>1, <2>1, Times
  <2>3. (k + 1) * PerBank = k * PerBank + PerBank BY <1>1
  <2>4. k * PerBank < Banks * PerBank BY <1>1, <2>2, <2>3
  <2>5. k * PerBank = PerBank * k + 0 /\ 0 \in 0 .. PerBank - 1 BY <1>1
  <2>6. (k * PerBank) \div PerBank = k BY <1>1, <2>2, <2>5, Quotient
  <2> QED BY <1>1, <2>2, <2>4, <2>6 DEF Narrow, Wide, WideOf
<1>3. PICK o \in 0 .. Banks - 1 : o # b
  <2>1. 0 \in 0 .. Banks - 1 /\ 1 \in 0 .. Banks - 1 BY <1>1
  <2> QED BY <2>1
<1>4. Block(b) \subseteq Channels BY <1>2 DEF Block, BankChannels, Channels
<1>5. b * PerBank \in Block(b) \cap Narrow /\ WideOf(b) \in Block(b) \cap Wide
  BY <1>2 DEF Block, BankChannels
<1>6. o * PerBank \notin Block(b)
  <2>1. o * PerBank \notin BankChannels(b) BY <1>2, <1>3 DEF BankChannels
  <2>2. o * PerBank # WideOf(b) BY <1>2
  <2> QED BY <2>1, <2>2 DEF Block
<1>7. WideOf(o) \notin Block(b)
  <2>1. WideOf(o) \notin BankChannels(b) BY <1>2 DEF BankChannels
  <2>2. WideOf(o) # WideOf(b) BY <1>1, <1>3 DEF WideOf
  <2> QED BY <2>1, <2>2 DEF Block
<1>8. /\ o * PerBank \in (Channels \ Block(b)) \cap Narrow
      /\ WideOf(o) \in (Channels \ Block(b)) \cap Wide
  BY <1>2, <1>6, <1>7 DEF Channels
<1> QED BY <1>4, <1>5, <1>8

-----------------------------------------------------------------------------
(* The masks. *)

\* Channels counted from the beginning have hopped.
LEMMA FreshHopped ==
    ASSUME NEW d, d.snapshot = d.enabled, d.taken = [c \in Channels |-> 0],
           d.enabled \subseteq Channels
    PROVE  Hopped(d)
BY DEF Hopped, HoppedOn

\* A mask is set.
LEMMA MaskSetTyped ==
    ASSUME NEW d, Typed(d), NEW mask \in SUBSET Channels
    PROVE  LET e == MaskSet(d, mask)
           IN  /\ Typed(e) /\ Hopped(e) /\ e.enabled = mask /\ e.phase = Full
               /\ e.rate = d.rate /\ e.mode = d.mode /\ e.panic = d.panic /\ e.join = d.join
               /\ e.snapshot = mask
<1> DEFINE e == MaskSet(d, mask)
<1>1. /\ IsDev(e) /\ e.unwrapped = mask /\ e.enabled = mask /\ e.snapshot = mask
      /\ e.phase = Full /\ e.taken = [c \in Channels |-> 0] /\ e.last = d.last
      /\ e.rate = d.rate /\ e.mode = d.mode /\ e.panic = d.panic /\ e.join = d.join
  BY DEF Typed, IsDev, Fields, MaskSet
<1> HIDE DEF e
<1>2. Typed(e) BY <1>1 DEF Typed, Full
<1>3. Hopped(e) BY <1>1, FreshHopped
<1> QED BY <1>1, <1>2, <1>3 DEF e

\* All channels are enabled; those beside the snapshot wait for its renewal.
LEMMA AllEnabledTyped ==
    ASSUME NEW d, Typed(d)
    PROVE  LET e == AllEnabled(d)
           IN  /\ Typed(e) /\ Hopped(e) /\ e.enabled = Channels /\ e.phase = d.phase
               /\ e.rate = d.rate /\ e.mode = d.mode /\ e.panic = d.panic /\ e.join = d.join
<1> DEFINE e == AllEnabled(d)
<1>1. /\ IsDev(e) /\ e.unwrapped = d.unwrapped /\ e.enabled = Channels
      /\ e.snapshot = d.snapshot /\ e.phase = d.phase
      /\ e.taken = [c \in Channels |-> IF c \in d.snapshot THEN 0 ELSE 1] /\ e.last = d.last
      /\ e.rate = d.rate /\ e.mode = d.mode /\ e.panic = d.panic /\ e.join = d.join
  BY DEF Typed, IsDev, Fields, AllEnabled
<1> HIDE DEF e
<1>2. Typed(e) BY <1>1 DEF Typed
<1>3. Hopped(e) BY <1>1 DEF Hopped, HoppedOn, Typed
<1> QED BY <1>1, <1>2, <1>3 DEF e

\* The phases that follow a join: a block, the others, then all; an LR-FHSS rate panics.
LEMMA AfterJoinTyped ==
    ASSUME FixedPlanAssumption, NEW d, Typed(d), d.phase < FiftySix, d.panic = "none"
    PROVE  LET e == AfterJoin(d)
           IN  /\ Typed(e)
               /\ e.rate = d.rate /\ e.mode = d.mode /\ e.join = d.join
               /\ \/ e.panic = "rate" /\ e.rate \in FhssRates /\ e.phase < FiftySix
                  \/ /\ e.panic = "none" /\ Hopped(e) /\ e.snapshot = e.enabled
                     /\ MaskRates(e.enabled) = Rates
<1> DEFINE e == AfterJoin(d)
<1>1. CASE d.rate \in FhssRates
  <2>1. e = [d EXCEPT !.panic = "rate"] BY <1>1 DEF AfterJoin
  <2>2. /\ IsDev(e) /\ e.unwrapped = d.unwrapped /\ e.enabled = d.enabled
        /\ e.snapshot = d.snapshot /\ e.phase = d.phase /\ e.taken = d.taken
        /\ e.last = d.last /\ e.rate = d.rate /\ e.mode = d.mode /\ e.panic = "rate"
        /\ e.join = d.join
    BY <2>1 DEF Typed, IsDev, Fields
  <2> HIDE DEF e
  <2>3. Typed(e) BY <2>2 DEF Typed
  <2> QED BY <1>1, <2>2, <2>3 DEF e
<1>2. CASE d.rate \notin FhssRates
  <2> DEFINE mask == BlockMask(d)  f == MaskSet(d, mask)
  <2>1. LastBlock(d) \in 0 .. Banks - 1 BY LastBlockInRange DEF Typed
  <2>2. mask \in SUBSET Channels /\ mask \cap Narrow # {} /\ mask \cap Wide # {}
    BY <2>1, BlocksAreWhole DEF BlockMask
  <2>3. e = [f EXCEPT !.phase = d.phase + 1] BY <1>2 DEF AfterJoin
  <2> HIDE DEF mask, f
  <2>4. /\ Typed(f) /\ Hopped(f) /\ f.enabled = mask /\ f.snapshot = mask
        /\ f.rate = d.rate /\ f.mode = d.mode /\ f.panic = d.panic /\ f.join = d.join
    BY <2>2, MaskSetTyped DEF f
  <2>5. /\ IsDev(e) /\ e.unwrapped = f.unwrapped /\ e.enabled = f.enabled
        /\ e.snapshot = f.snapshot /\ e.phase = d.phase + 1 /\ e.taken = f.taken
        /\ e.last = f.last /\ e.rate = f.rate /\ e.mode = f.mode /\ e.panic = f.panic
        /\ e.join = f.join
    BY <2>3, <2>4 DEF Typed, IsDev, Fields
  <2> HIDE DEF e
  <2>6. d.phase + 1 \in 0 .. 3 BY DEF Typed, FiftySix
  <2>7. Typed(e) BY <2>4, <2>5, <2>6 DEF Typed
  <2>8. Hopped(e) BY <2>4, <2>5 DEF Hopped, HoppedOn
  <2>9. MaskRates(e.enabled) = Rates BY <2>2, <2>4, <2>5, RatesOfMask DEF Bandwidths
  <2> QED BY <2>4, <2>5, <2>7, <2>8, <2>9 DEF e
<1> QED BY <1>1, <1>2

-----------------------------------------------------------------------------
(* The choice of a channel. *)

\* Before a channel is taken the uses are those that the snapshot tells, up to a turn, and
\* every bandwidth of the mask has a channel left.
Ready(d) ==
    /\ d.snapshot \subseteq d.enabled
    /\ \A K \in Bandwidths :
          /\ d.enabled \cap K # {} => d.snapshot \cap K # {}
          /\ \E t \in Int : \A c \in d.enabled \cap K :
                d.taken[c] = IF c \in d.snapshot THEN t ELSE t + 1

\* Channels that have hopped and of which some are left on every bandwidth are ready.
LEMMA HoppedReady ==
    ASSUME NEW d, Hopped(d),
           \A K \in Bandwidths : d.enabled \cap K # {} => d.snapshot \cap K # {}
    PROVE  Ready(d)
<1>1. ASSUME NEW K \in Bandwidths
      PROVE  \E t \in Int : \A c \in d.enabled \cap K :
                d.taken[c] = IF c \in d.snapshot THEN t ELSE t + 1
  <2>1. CASE \A c \in d.enabled \cap K : d.taken[c] = IF c \in d.snapshot THEN 0 ELSE 1
    <3>1. \A c \in d.enabled \cap K : d.taken[c] = IF c \in d.snapshot THEN 0 ELSE 0 + 1
      BY <2>1
    <3> QED BY <3>1
  <2>2. CASE d.snapshot \cap K = {} /\ \A c \in d.enabled \cap K : d.taken[c] = 0
    BY <2>2, 0 \in Int
  <2> QED BY <2>1, <2>2 DEF Hopped, HoppedOn
<1> QED BY <1>1 DEF Ready, Hopped

\* The renewal of the bandwidths that have all been used.
LEMMA RenewedReady ==
    ASSUME FixedPlanAssumption, NEW d, Typed(d), Hopped(d)
    PROVE  LET e == Renewed(d)
           IN  /\ Typed(e) /\ Ready(e) /\ e.enabled = d.enabled /\ e.phase = d.phase
               /\ e.rate = d.rate /\ e.mode = d.mode /\ e.panic = d.panic /\ e.join = d.join
<1> DEFINE e == Renewed(d)
           used == {c \in d.enabled : \A s \in d.snapshot : RatesOf(s) # RatesOf(c)}
<1>1. e = [d EXCEPT !.snapshot = @ \cup used] BY DEF Renewed
<1>2. used \subseteq d.enabled OBVIOUS
<1>3. ASSUME NEW K \in Bandwidths
      PROVE  used \cap K = IF d.snapshot \cap K = {} THEN d.enabled \cap K ELSE {}
  <2>1. \A c \in K, s \in d.snapshot : RatesOf(s) = RatesOf(c) <=> s \in K
    BY SameBandwidth DEF Typed
  <2> QED BY <2>1
<1> HIDE DEF used
<1>4. /\ IsDev(e) /\ e.unwrapped = d.unwrapped /\ e.enabled = d.enabled
      /\ e.snapshot = d.snapshot \cup used /\ e.phase = d.phase /\ e.taken = d.taken
      /\ e.last = d.last /\ e.rate = d.rate /\ e.mode = d.mode /\ e.panic = d.panic
      /\ e.join = d.join
  BY <1>1 DEF Typed, IsDev, Fields
<1> HIDE DEF e
<1>5. Typed(e) BY <1>2, <1>4 DEF Typed
<1>6. ASSUME NEW K \in Bandwidths
      PROVE  /\ e.enabled \cap K # {} => e.snapshot \cap K # {}
             /\ \E t \in Int : \A c \in e.enabled \cap K :
                   e.taken[c] = IF c \in e.snapshot THEN t ELSE t + 1
  <2>1. CASE d.snapshot \cap K = {}
    <3>1. e.snapshot \cap K = e.enabled \cap K BY <1>3, <1>4, <2>1
    <3>2. \E t \in {0, 1} : \A c \in d.enabled \cap K : d.taken[c] = t
      <4>1. HoppedOn(d, K) BY DEF Hopped
      <4> QED BY <2>1, <4>1 DEF HoppedOn
    <3> QED BY <1>4, <3>1, <3>2
  <2>2. CASE d.snapshot \cap K # {}
    <3>1. e.snapshot \cap K = d.snapshot \cap K BY <1>3, <1>4, <2>2
    <3>2. \A c \in d.enabled \cap K : d.taken[c] = IF c \in d.snapshot THEN 0 ELSE 0 + 1
      BY <2>2 DEF Hopped, HoppedOn
    <3>3. \A c \in e.enabled \cap K : e.taken[c] = IF c \in e.snapshot THEN 0 ELSE 0 + 1
      BY <1>4, <3>1, <3>2
    <3> QED BY <2>2, <3>1, <3>3
  <2> QED BY <2>1, <2>2
<1>7. e.snapshot \subseteq e.enabled BY <1>2, <1>4 DEF Hopped
<1>8. Ready(e) BY <1>6, <1>7 DEF Ready
<1> QED BY <1>4, <1>5, <1>8 DEF e

\* The beginning of the search: the phase goes on, or a bandwidth is renewed.
LEMMA PreparedReady ==
    ASSUME FixedPlanAssumption, NEW d, Typed(d), Hopped(d), Drawn(d), d.panic = "none"
    PROVE  LET e == Prepared(d)
           IN  /\ Typed(e) /\ e.join = d.join
               /\ \/ e.panic = "rate" /\ e.rate \in FhssRates /\ e.phase < FiftySix
                  \/ e.panic = "none" /\ Ready(e) /\ Drawn(e)
<1> DEFINE e == Prepared(d)
<1>1. CASE d.phase = Full
  <2>1. e = Renewed(d) BY <1>1 DEF Prepared, FiftySix, Full
  <2> HIDE DEF e
  <2>2. /\ Typed(e) /\ Ready(e) /\ e.enabled = d.enabled /\ e.rate = d.rate
        /\ e.mode = d.mode /\ e.panic = d.panic /\ e.join = d.join
    BY <2>1, RenewedReady
  <2>3. Drawn(e) BY <2>2 DEF Drawn
  <2> QED BY <2>2, <2>3 DEF e
<1>2. CASE d.phase # Full /\ ~Exhausted(d)
  <2>1. e = d BY <1>2 DEF Prepared
  <2>2. \A K \in Bandwidths : d.snapshot \cap K # {} BY <1>2 DEF Exhausted, Bandwidths
  <2>3. Ready(d) BY <2>2, HoppedReady
  <2> QED BY <2>1, <2>3
<1>3. CASE d.phase = FiftySix /\ Exhausted(d)
  <2>1. e = MaskSet(d, Channels) BY <1>3 DEF Prepared, FiftySix, Full
  <2> HIDE DEF e
  <2>2. /\ Typed(e) /\ Hopped(e) /\ e.enabled = Channels /\ e.snapshot = Channels
        /\ e.rate = d.rate /\ e.mode = d.mode /\ e.panic = d.panic /\ e.join = d.join
    BY <2>1, MaskSetTyped
  <2>3. Ready(e) BY <2>2, HoppedReady
  <2>4. MaskRates(d.enabled) \subseteq MaskRates(Channels) BY DEF Typed, MaskRates
  <2>5. Drawn(e) BY <2>2, <2>4 DEF Drawn
  <2> QED BY <2>2, <2>3, <2>5 DEF e
<1>4. CASE d.phase < FiftySix /\ Exhausted(d)
  <2>1. e = AfterJoin(d) BY <1>4 DEF Prepared, FiftySix, Full, Typed
  <2> HIDE DEF e
  <2>2. /\ Typed(e) /\ e.rate = d.rate /\ e.mode = d.mode /\ e.join = d.join
        /\ \/ e.panic = "rate" /\ e.rate \in FhssRates /\ e.phase < FiftySix
           \/ /\ e.panic = "none" /\ Hopped(e) /\ e.snapshot = e.enabled
              /\ MaskRates(e.enabled) = Rates
    BY <1>4, <2>1, AfterJoinTyped
  <2>3. MaskRates(d.enabled) \subseteq Rates BY RatesOfMask DEF Typed, Bandwidths
  <2>4. e.panic = "none" => Ready(e) BY <2>2, HoppedReady
  <2>5. e.panic = "none" => Drawn(e) BY <2>2, <2>3 DEF Drawn
  <2> QED BY <2>2, <2>4, <2>5 DEF e
<1>5. d.phase \in 0 .. 3 BY DEF Typed
<1> QED BY <1>1, <1>2, <1>3, <1>4, <1>5 DEF FiftySix, Full

\* The uses of the channels once one that was left is taken.
LEMMA FairHopped ==
    ASSUME FixedPlanAssumption, NEW d, Typed(d), Ready(d), NEW c \in d.snapshot,
           NEW e, e.enabled = d.enabled, e.snapshot = d.snapshot \ {c},
           e.taken = Fair(d.taken, c, d.enabled)
    PROVE  Hopped(e) /\ e.taken \in [Channels -> {0, 1}]
<1> DEFINE uses == [d.taken EXCEPT ![c] = @ + 1]
           in(x) == {f \in d.enabled : RatesOf(f) = RatesOf(x)}
<1>1. c \in Channels /\ e.snapshot \subseteq e.enabled /\ e.enabled \subseteq Channels
  BY DEF Typed, Ready
<1>2. e.taken = [x \in Channels |-> IF x \notin d.enabled THEN 0
                                    ELSE uses[x] - Min({uses[f] : f \in in(x)})]
  BY DEF Fair
<1>3. ASSUME NEW K \in Bandwidths
      PROVE  /\ HoppedOn(e, K) /\ \A x \in e.enabled \cap K : e.taken[x] \in {0, 1}
  <2>1. PICK t \in Int : \A x \in d.enabled \cap K :
              d.taken[x] = IF x \in d.snapshot THEN t ELSE t + 1
    BY DEF Ready
  <2>2. \A x \in d.enabled \cap K : uses[x] = IF x \in e.snapshot THEN t ELSE t + 1
    BY <1>1, <2>1 DEF Typed
  <2>3. ASSUME NEW x \in d.enabled \cap K PROVE in(x) = d.enabled \cap K
    <3>1. \A f \in d.enabled : RatesOf(f) = RatesOf(x) <=> f \in K
      BY SameBandwidth DEF Typed
    <3> QED BY <3>1
  <2> DEFINE V == {uses[f] : f \in d.enabled \cap K}
  <2> HIDE DEF uses, in
  <2>4. \A x \in d.enabled \cap K : e.taken[x] = uses[x] - Min(V)
    BY <1>1, <1>2, <2>3
  <2>5. V \in SUBSET {t, t + 1} BY <2>2
  <2>6. CASE e.snapshot \cap K # {}
    <3>1. PICK y \in e.snapshot \cap K : TRUE BY <2>6
    <3>2. y \in d.enabled \cap K /\ uses[y] = t BY <1>1, <2>2, <3>1
    <3>3. t \in V /\ V # {} BY <3>2
    <3> HIDE DEF V
    <3>4. Min(V) = t BY <2>5, <3>3, LeastOfTwo
    <3>5. \A x \in e.enabled \cap K : e.taken[x] = IF x \in e.snapshot THEN 0 ELSE 1
      BY <2>2, <2>4, <3>4
    <3> QED BY <3>5 DEF HoppedOn
  <2>7. CASE e.snapshot \cap K = {}
    <3>1. \A x \in d.enabled \cap K : uses[x] = t + 1 BY <2>2, <2>7
    <3>2. t \notin V BY <3>1
    <3>3. ASSUME NEW x \in d.enabled \cap K PROVE e.taken[x] = 0
      <4>1. V # {} BY <3>3
      <4> HIDE DEF V
      <4>2. Min(V) = t + 1 BY <2>5, <3>2, <4>1, LeastOfTwo
      <4> QED BY <2>4, <3>1, <4>2
    <3> QED BY <2>7, <3>3 DEF HoppedOn
  <2> QED BY <2>6, <2>7
<1>4. ASSUME NEW x \in Channels PROVE e.taken[x] \in {0, 1}
  <2>1. CASE x \notin d.enabled BY <1>2, <2>1
  <2>2. CASE x \in d.enabled BY <1>3, <2>2 DEF Bandwidths, Channels
  <2> QED BY <2>1, <2>2
<1>5. DOMAIN e.taken = Channels /\ e.taken = [x \in Channels |-> e.taken[x]]
  <2> HIDE DEF uses, in
  <2> QED BY <1>2
<1> QED BY <1>1, <1>3, <1>4, <1>5 DEF Hopped

\* A channel is taken, or the rate has none.
LEMMA TakenKept ==
    ASSUME FixedPlanAssumption, NEW d, Typed(d), Ready(d), Drawn(d), d.panic = "none",
           d.join = "JOINED", NEW e \in Taken(d)
    PROVE  Kept(e) /\ e.join = "JOINED"
<1>1. CASE Candidates(d) = {}
  <2>1. e = [d EXCEPT !.panic = "channel"] BY <1>1 DEF Taken
  <2>2. /\ IsDev(e) /\ e.unwrapped = d.unwrapped /\ e.enabled = d.enabled
        /\ e.snapshot = d.snapshot /\ e.phase = d.phase /\ e.taken = d.taken
        /\ e.last = d.last /\ e.rate = d.rate /\ e.mode = d.mode /\ e.panic = "channel"
        /\ e.join = d.join
    BY <2>1 DEF Typed, IsDev, Fields
  <2>3. Typed(e) BY <2>2 DEF Typed
  <2>4. d.rate \notin MaskRates(d.enabled)
    <3> SUFFICES ASSUME d.rate \in MaskRates(d.enabled) PROVE FALSE OBVIOUS
    <3>1. PICK c \in d.enabled : d.rate \in RatesOf(c) BY DEF MaskRates
    <3>2. PICK K \in Bandwidths : c \in K BY DEF Typed, Channels, Bandwidths
    <3>3. PICK s \in d.snapshot : s \in K BY <3>2 DEF Ready
    <3>4. RatesOf(s) = RatesOf(c) BY <3>2, <3>3, SameBandwidth DEF Typed
    <3>5. s \in Candidates(d) BY <3>1, <3>3, <3>4 DEF Candidates, Ready
    <3> QED BY <1>1, <3>5
  <2> QED BY <2>2, <2>3, <2>4 DEF Kept, Drawn
<1>2. CASE Candidates(d) # {}
  <2>1. PICK c \in Candidates(d) : e = Using(d, c) BY <1>2 DEF Taken
  <2>2. /\ IsDev(e) /\ e.unwrapped = d.unwrapped /\ e.enabled = d.enabled
        /\ e.snapshot = d.snapshot \ {c} /\ e.phase = d.phase
        /\ e.taken = Fair(d.taken, c, d.enabled)
        /\ e.last \in {0, c} /\ e.rate = d.rate /\ e.mode = d.mode /\ e.panic = "none"
        /\ e.join = d.join
    BY <2>1 DEF Using, Typed, IsDev, Fields
  <2>3. c \in d.snapshot BY DEF Candidates
  <2>4. Hopped(e) /\ e.taken \in [Channels -> {0, 1}] BY <2>2, <2>3, FairHopped
  <2>5. 0 \in Channels /\ c \in Channels BY <2>3, ChannelZero DEF Typed
  <2>6. Typed(e) BY <2>2, <2>4, <2>5 DEF Typed
  <2> QED BY <2>2, <2>4, <2>6 DEF Kept, Drawn
<1> QED BY <1>1, <1>2

\* A frame is given a channel, or the device panics as it may.
LEMMA NextChannelKept ==
    ASSUME FixedPlanAssumption, NEW d, Typed(d), Hopped(d), Drawn(d), d.panic = "none",
           d.join = "JOINED", NEW e \in NextChannel(d)
    PROVE  Kept(e) /\ e.join = "JOINED"
<1> DEFINE p == Prepared(d)
<1>1. e \in Taken(p) BY DEF NextChannel
<1>2. /\ Typed(p) /\ p.join = "JOINED"
      /\ \/ p.panic = "rate" /\ p.rate \in FhssRates /\ p.phase < FiftySix
         \/ p.panic = "none" /\ Ready(p) /\ Drawn(p)
  BY PreparedReady
<1> HIDE DEF p
<1>3. CASE p.panic = "rate"
  <2>1. e = p BY <1>1, <1>3 DEF Taken
  <2> QED BY <1>2, <1>3, <2>1 DEF Kept
<1>4. CASE p.panic = "none" BY <1>1, <1>2, <1>4, TakenKept
<1> QED BY <1>2, <1>3, <1>4

-----------------------------------------------------------------------------
(* The MAC. *)

\* A device that runs, whatever its rate.
Fit(d) ==
    /\ Typed(d) /\ d.panic = "none"
    /\ d.join = "JOINING" => d.phase = Init0
    /\ d.join = "JOINED" => Hopped(d)

\* Only the rate may be missing.
LEMMA FitKept ==
    ASSUME NEW d, Fit(d), d.join = "JOINED" => Drawn(d)
    PROVE  Kept(d)
BY DEF Fit, Kept

LEMMA KeptFit ==
    ASSUME NEW d, Kept(d), d.panic = "none"
    PROVE  Fit(d) /\ (d.join = "JOINED" => Drawn(d))
BY DEF Fit, Kept

\* An exchange ends.
LEMMA EndsKept ==
    ASSUME NEW d, Kept(d)
    PROVE  Kept([d EXCEPT !.busy = FALSE])
<1> DEFINE e == [d EXCEPT !.busy = FALSE]
<1>1. /\ IsDev(e) /\ e.unwrapped = d.unwrapped /\ e.enabled = d.enabled
      /\ e.snapshot = d.snapshot /\ e.phase = d.phase /\ e.taken = d.taken
      /\ e.last = d.last /\ e.rate = d.rate /\ e.mode = d.mode /\ e.panic = d.panic
      /\ e.join = d.join
  BY DEF Kept, Typed, IsDev, Fields
<1> HIDE DEF e
<1>2. Typed(e) BY <1>1 DEF Kept, Typed
<1>3. /\ Hopped(d) => Hopped(e)
      /\ Drawn(d) => Drawn(e)
  BY <1>1 DEF Hopped, HoppedOn, Drawn
<1>4. Kept(e) BY <1>1, <1>2, <1>3 DEF Kept
<1> QED BY <1>4 DEF e

\* A rate is chosen among those that an enabled channel has, or the network's.
LEMMA NextDrFit ==
    ASSUME NEW d, Fit(d), NEW e \in NextDr(d)
    PROVE  Fit(e) /\ e.join = d.join /\ (e.join = "JOINED" => Drawn(e))
<1>1. /\ IsDev(e) /\ e.unwrapped = d.unwrapped /\ e.enabled = d.enabled
      /\ e.snapshot = d.snapshot /\ e.phase = d.phase /\ e.taken = d.taken
      /\ e.last = d.last /\ e.panic = d.panic /\ e.join = d.join
      /\ \/ e.mode = "STATIC" \/ d.join # "JOINED" \/ e.rate \in MaskRates(d.enabled)
  <2> DEFINE drawn == Distribution(d) \cap MaskRates(d.enabled)
  <2>1. CASE d.mode = "STATIC" /\ d.join = "JOINED"
    <3>1. e = [d EXCEPT !.rate = d.adr] BY <2>1 DEF NextDr
    <3> QED BY <2>1, <3>1 DEF Fit, Typed, IsDev, Fields
  <2>2. CASE ~(d.mode = "STATIC" /\ d.join = "JOINED") /\ drawn = {}
    <3>1. e = [d EXCEPT !.mode = "STATIC", !.rate = d.adr] BY <2>2 DEF NextDr
    <3> QED BY <3>1 DEF Fit, Typed, IsDev, Fields
  <2>3. CASE ~(d.mode = "STATIC" /\ d.join = "JOINED") /\ drawn # {}
    <3>1. PICK r \in drawn : e = [d EXCEPT !.rate = r] BY <2>3 DEF NextDr
    <3> QED BY <3>1 DEF Fit, Typed, IsDev, Fields
  <2> QED BY <2>1, <2>2, <2>3
<1>2. Typed(e) BY <1>1 DEF Fit, Typed
<1>3. Hopped(d) => Hopped(e) BY <1>1 DEF Hopped, HoppedOn
<1>4. e.join = "JOINED" => Drawn(e) BY <1>1 DEF Drawn
<1> QED BY <1>1, <1>2, <1>3, <1>4 DEF Fit

\* The back-off.
LEMMA DecrementedFit ==
    ASSUME NEW d, Fit(d), d.join = "JOINED", Drawn(d)
    PROVE  LET e == Decremented(d) IN Fit(e) /\ e.join = "JOINED" /\ Drawn(e)
<1> DEFINE e == Decremented(d)
<1>1. CASE d.mode # "STATIC" BY <1>1 DEF Decremented
<1>2. CASE d.mode = "STATIC"
  <2>1. PICK f \in {d, AllEnabled(d)} : \E r : e = [f EXCEPT !.adr = r]
    BY <1>2 DEF Decremented
  <2> HIDE DEF e
  <2>2. /\ Typed(f) /\ Hopped(f) /\ f.mode = "STATIC" /\ f.panic = "none"
        /\ f.join = "JOINED"
    BY <1>2, <2>1, AllEnabledTyped DEF Fit
  <2>3. /\ IsDev(e) /\ e.unwrapped = f.unwrapped /\ e.enabled = f.enabled
        /\ e.snapshot = f.snapshot /\ e.phase = f.phase /\ e.taken = f.taken
        /\ e.last = f.last /\ e.mode = f.mode /\ e.panic = f.panic /\ e.join = f.join
    BY <2>1, <2>2 DEF Typed, IsDev, Fields
  <2>4. Typed(e) BY <2>2, <2>3 DEF Typed
  <2>5. Hopped(e) BY <2>2, <2>3 DEF Hopped, HoppedOn
  <2> QED BY <2>2, <2>3, <2>4, <2>5 DEF Fit, Drawn, e
<1> QED BY <1>1, <1>2

\* The request of the network.
LEMMA ParsedFit ==
    ASSUME FixedPlanAssumption, NEW d, Fit(d), d.join = "JOINED", NEW k \in Requests
    PROVE  LET e == Parsed(Built(d, k), k) IN Fit(e) /\ e.join = "JOINED"
<1> DEFINE b == Built(d, k)  e == Parsed(b, k)
<1>1. k.on \subseteq Channels BY DEF FixedPlanAssumption
<1>2. /\ IsDev(b) /\ b.unwrapped = (d.unwrapped \ k.about) \cup (k.on \cap k.about)
      /\ b.enabled = d.enabled /\ b.snapshot = d.snapshot /\ b.phase = d.phase
      /\ b.taken = d.taken /\ b.last = d.last /\ b.panic = d.panic /\ b.join = d.join
  BY DEF Built, Fit, Typed, IsDev, Fields
<1> HIDE DEF b
<1>3. Typed(b) BY <1>1, <1>2 DEF Fit, Typed
<1>4. Hopped(b) BY <1>2 DEF Fit, Hopped, HoppedOn
<1>5. Fit(b) /\ b.join = "JOINED" BY <1>2, <1>3, <1>4 DEF Fit
<1> DEFINE f == MaskSet(b, b.unwrapped)
<1>6. Typed(f) /\ Hopped(f) /\ f.panic = "none" /\ f.join = "JOINED"
  <2>1. b.unwrapped \in SUBSET Channels BY <1>3 DEF Typed
  <2> QED BY <1>2, <1>3, <2>1, MaskSetTyped DEF Fit
<1>7. e \in {b, f} \/ \E r : e = [f EXCEPT !.adr = r] BY DEF Parsed
<1> HIDE DEF e, f
<1>8. CASE e \in {b, f} BY <1>5, <1>6, <1>8 DEF Fit, e, b
<1>9. CASE \E r : e = [f EXCEPT !.adr = r]
  <2>1. /\ IsDev(e) /\ e.unwrapped = f.unwrapped /\ e.enabled = f.enabled
        /\ e.snapshot = f.snapshot /\ e.phase = f.phase /\ e.taken = f.taken
        /\ e.last = f.last /\ e.panic = f.panic /\ e.join = f.join
    BY <1>6, <1>9 DEF Typed, IsDev, Fields
  <2>2. Typed(e) BY <1>6, <2>1 DEF Typed
  <2>3. Hopped(e) BY <1>6, <2>1 DEF Hopped, HoppedOn
  <2> QED BY <1>6, <2>1, <2>2, <2>3 DEF Fit, e, b
<1> QED BY <1>7, <1>8, <1>9

-----------------------------------------------------------------------------
(* The steps. *)

\* The channel of a join.
LEMMA JoinChannelTyped ==
    ASSUME FixedPlanAssumption, NEW d, Typed(d), NEW e \in JoinChannel(d)
    PROVE  Typed(e) /\ e.join = d.join /\ e.phase = d.phase /\ e.panic = d.panic
<1> DEFINE left == JoinLeft(d)
<1>1. PICK c \in IF JoinBank(d) = Banks THEN {Min(left)} ELSE left : e = JoinOn(d, c)
  BY DEF JoinChannel
<1>2. left \subseteq Channels BY DEF BankChannels, Channels, JoinLeft
<1>3. c \in Channels
  <2>1. CASE JoinBank(d) = Banks
    <3>1. Banks * PerBank \in Nat /\ Banks * PerBank \in Wide
      <4>1. \A a, b \in Nat : a * b \in Nat OBVIOUS
      <4> QED BY <4>1 DEF FixedPlanAssumption, Wide
    <3>2. left \subseteq Wide /\ left # {} BY <2>1, <3>1 DEF JoinLeft
    <3>3. Wide \subseteq Nat BY <3>1 DEF Wide, FixedPlanAssumption
    <3> HIDE DEF left
    <3>4. Min(left) \in left BY <3>2, <3>3, LeastIn
    <3> QED BY <1>1, <1>2, <2>1, <3>4
  <2>2. CASE JoinBank(d) # Banks BY <1>1, <1>2, <2>2
  <2> QED BY <2>1, <2>2
<1>4. /\ IsDev(e) /\ e.unwrapped = d.unwrapped /\ e.enabled = d.enabled
      /\ e.snapshot = (d.snapshot \cup left) \ {c} /\ e.phase = d.phase
      /\ e.taken = d.taken /\ e.last = c /\ e.panic = d.panic /\ e.join = d.join
  BY <1>1 DEF JoinOn, Typed, IsDev, Fields
<1> HIDE DEF left
<1>5. (d.snapshot \cup left) \ {c} \subseteq Channels BY <1>2 DEF Typed
<1> QED BY <1>3, <1>4, <1>5 DEF Typed

LEMMA JoinKept ==
    ASSUME FixedPlanAssumption, PlanInv, Join
    PROVE  PlanInv'
<1> DEFINE d == Joining(dev)
<1>1. dev' \in JoinChannel(d) /\ dev.panic = "none" BY DEF Join, Runs
<1>2. /\ IsDev(d) /\ d.unwrapped = dev.unwrapped /\ d.enabled = Channels
      /\ d.snapshot = dev.snapshot /\ d.phase = Init0 /\ d.taken = dev.taken
      /\ d.last = dev.last /\ d.panic = "none" /\ d.join = "JOINING"
  BY <1>1 DEF Joining, PlanInv, Kept, Typed, IsDev, Fields
<1> HIDE DEF d
<1>3. Typed(d) BY <1>2 DEF PlanInv, Kept, Typed, Init0
<1>4. Typed(dev') /\ dev'.join = "JOINING" /\ dev'.phase = Init0 /\ dev'.panic = "none"
  BY <1>1, <1>2, <1>3, JoinChannelTyped
<1> QED BY <1>4 DEF PlanInv, Kept

\* A device that is kept, after the step.
LEMMA PlanOf == ASSUME Kept(dev') PROVE PlanInv'
BY DEF PlanInv, Kept, Typed, Hopped, HoppedOn, Drawn

LEMMA EndsPlan == ASSUME NEW d, Kept(d), dev' = [d EXCEPT !.busy = FALSE] PROVE PlanInv'
<1>1. Kept(dev') BY EndsKept
<1> QED BY <1>1, PlanOf

LEMMA NotJoinedKept ==
    ASSUME NEW d, Typed(d), d.panic = "none"
    PROVE  Kept(NotJoined(d))
<1> DEFINE e == NotJoined(d)
<1>1. /\ IsDev(e) /\ e.unwrapped = d.unwrapped /\ e.enabled = d.enabled
      /\ e.snapshot = d.snapshot /\ e.phase = d.phase /\ e.taken = d.taken
      /\ e.last = d.last /\ e.panic = "none" /\ e.join = "NOT_JOINED"
  BY DEF NotJoined, Typed, IsDev, Fields
<1> HIDE DEF e
<1>2. Kept(e) BY <1>1 DEF Kept, Typed
<1> QED BY <1>2 DEF e

\* What an accept sets.
LEMMA ConfiguredFit ==
    ASSUME FixedPlanAssumption, NEW d, Typed(d), d.panic = "none", d.phase = Init0,
           NEW a \in Configured(d)
    PROVE  /\ Typed(a) /\ a.join = d.join
           /\ \/ a.panic = "rate" /\ a.rate \in FhssRates /\ a.phase < FiftySix
              \/ a.panic = "none" /\ Hopped(a)
<1>1. CASE a = AfterJoin(d)
  <2>1. d.phase < FiftySix BY DEF Init0, FiftySix
  <2> QED BY <1>1, <2>1, AfterJoinTyped
<1>2. CASE \E l \in Lists : a = MaskSet(d, l)
  <2>1. PICK l \in SUBSET Channels : a = MaskSet(d, l) BY <1>2 DEF FixedPlanAssumption
  <2> QED BY <2>1, MaskSetTyped
<1>3. CASE \E u \in {{}, d.unwrapped} : a = [AllEnabled(d) EXCEPT !.unwrapped = u]
  <2> DEFINE f == AllEnabled(d)
  <2>1. PICK u \in {{}, d.unwrapped} : a = [f EXCEPT !.unwrapped = u] BY <1>3
  <2>2. Typed(f) /\ Hopped(f) /\ f.panic = "none" /\ f.join = d.join BY AllEnabledTyped
  <2> HIDE DEF f
  <2>3. /\ IsDev(a) /\ a.unwrapped = u /\ a.enabled = f.enabled
        /\ a.snapshot = f.snapshot /\ a.phase = f.phase /\ a.taken = f.taken
        /\ a.last = f.last /\ a.panic = f.panic /\ a.join = f.join
    BY <2>1, <2>2 DEF Typed, IsDev, Fields
  <2>4. u \subseteq Channels BY DEF Typed
  <2>5. Typed(a) BY <2>2, <2>3, <2>4 DEF Typed
  <2>6. Hopped(a) BY <2>2, <2>3 DEF Hopped, HoppedOn
  <2> QED BY <2>2, <2>3, <2>5, <2>6
<1> QED BY <1>1, <1>2, <1>3 DEF Configured

LEMMA JoinAcceptKept ==
    ASSUME FixedPlanAssumption, PlanInv, JoinAccept
    PROVE  PlanInv'
<1>1. Typed(dev) /\ dev.panic = "none" /\ dev.phase = Init0
  BY DEF PlanInv, Kept, JoinAccept, Runs
<1>2. PICK a \in Configured(dev) : Accepted(a) BY DEF JoinAccept
<1>3. /\ Typed(a)
      /\ \/ a.panic = "rate" /\ a.rate \in FhssRates /\ a.phase < FiftySix
         \/ a.panic = "none" /\ Hopped(a)
  BY <1>1, ConfiguredFit
<1>4. CASE a.panic # "none" /\ Ends(a)
  <2>1. Kept(a) BY <1>3, <1>4 DEF Kept
  <2>2. dev' = [a EXCEPT !.busy = FALSE] BY <1>4 DEF Ends
  <2> QED BY <2>1, <2>2, EndsPlan
<1>5. CASE a.panic = "none" /\ Ends(NotJoined(a))
  <2>1. Kept(NotJoined(a)) BY <1>3, <1>5, NotJoinedKept
  <2> QED BY <1>5, <2>1, EndsPlan DEF Ends
<1>6. CASE a.panic = "none" /\ \E d \in NextDr(Joined(a)) : Ends(d)
  <2> DEFINE d == Joined(a)
  <2>1. PICK e \in NextDr(d) : Ends(e) BY <1>6
  <2>2. /\ IsDev(d) /\ d.unwrapped = a.unwrapped /\ d.enabled = a.enabled
        /\ d.snapshot = a.snapshot /\ d.phase = a.phase /\ d.taken = a.taken
        /\ d.last = a.last /\ d.panic = "none" /\ d.join = "JOINED"
    BY <1>3, <1>6 DEF Joined, Typed, IsDev, Fields
  <2> HIDE DEF d
  <2>3. Typed(d) BY <1>3, <2>2 DEF Typed
  <2>4. Hopped(d) BY <1>3, <1>6, <2>2 DEF Hopped, HoppedOn
  <2>5. Fit(d) BY <2>2, <2>3, <2>4 DEF Fit
  <2>6. Kept(e) BY <2>1, <2>5, NextDrFit, FitKept
  <2> QED BY <2>1, <2>6, EndsPlan DEF Ends
<1> QED BY <1>2, <1>4, <1>5, <1>6 DEF Accepted

\* No accept came.
LEMMA JoinFailedKept ==
    ASSUME PlanInv, JoinFailed
    PROVE  PlanInv'
<1>1. Typed(dev) /\ dev.panic = "none" /\ Ends(NotJoined(dev))
  BY DEF PlanInv, Kept, JoinFailed, Runs
<1>2. Kept(NotJoined(dev)) BY <1>1, NotJoinedKept
<1> QED BY <1>1, <1>2, EndsPlan DEF Ends

\* The session is left.
LEMMA LeaveKept ==
    ASSUME FixedPlanAssumption, PlanInv, Leave
    PROVE  PlanInv'
<1> DEFINE e == dev'
<1>1. /\ IsDev(e) /\ e.unwrapped = dev.unwrapped /\ e.enabled = dev.enabled
      /\ e.snapshot = Channels /\ e.phase = Init0 /\ e.taken = [c \in Channels |-> 0]
      /\ e.last = 0 /\ e.panic = "none" /\ e.join = "NOT_JOINED"
  <2>1. IsDev(dev) BY DEF PlanInv, Kept, Typed
  <2> DEFINE zero == [c \in Channels |-> 0]
             f == [dev EXCEPT !.join = "NOT_JOINED", !.snapshot = Channels, !.bank = 0,
                              !.retried = FALSE]
  <2>2. e = [f EXCEPT !.rate = 0, !.adr = 0, !.last = 0, !.phase = Init0, !.taken = zero]
    BY DEF Leave
  <2> HIDE DEF zero
  <2>3. /\ IsDev(f) /\ f.unwrapped = dev.unwrapped /\ f.enabled = dev.enabled
        /\ f.snapshot = Channels /\ f.panic = "none" /\ f.join = "NOT_JOINED"
    BY <2>1 DEF IsDev, Fields, Leave, Runs
  <2> HIDE DEF f
  <2>4. /\ IsDev(e) /\ e.unwrapped = f.unwrapped /\ e.enabled = f.enabled
        /\ e.snapshot = f.snapshot /\ e.phase = Init0 /\ e.taken = zero /\ e.last = 0
        /\ e.panic = f.panic /\ e.join = f.join
    BY <2>2, <2>3 DEF IsDev, Fields
  <2> QED BY <2>3, <2>4 DEF zero
<1>2. Typed(e) BY <1>1, ChannelZero DEF PlanInv, Kept, Typed, Init0
<1>3. Kept(e) BY <1>1, <1>2 DEF Kept
<1> QED BY <1>3, PlanOf

\* A frame is sent, or was to be.
LEMMA SendKept ==
    ASSUME FixedPlanAssumption, PlanInv, Send
    PROVE  PlanInv'
<1>1. Fit(dev) /\ Drawn(dev) /\ dev.join = "JOINED" BY KeptFit DEF PlanInv, Send, Runs
<1>2. \A e \in NextChannel(dev) : Kept(e) BY <1>1, NextChannelKept DEF Fit
<1>3. CASE Sends(dev) BY <1>2, <1>3, PlanOf DEF Sends
<1>4. CASE \E d \in NextChannel(dev) : Ends(d) BY <1>2, <1>4, EndsPlan DEF Ends
<1> QED BY <1>3, <1>4 DEF Send

LEMMA RepeatKept ==
    ASSUME FixedPlanAssumption, PlanInv, Repeat
    PROVE  PlanInv'
<1>1. Fit(dev) /\ Drawn(dev) /\ dev.join = "JOINED" BY KeptFit DEF PlanInv, Repeat, Runs
<1>2. PICK d \in {dev, Decremented(dev)} : Sends(d) BY DEF Repeat
<1>3. Fit(d) /\ Drawn(d) /\ d.join = "JOINED" BY <1>1, DecrementedFit
<1>4. dev' \in NextChannel(d) BY <1>2 DEF Sends
<1>5. Kept(dev') BY <1>3, <1>4, NextChannelKept DEF Fit
<1> QED BY <1>5, PlanOf

LEMMA UnansweredKept ==
    ASSUME PlanInv, Unanswered
    PROVE  PlanInv'
<1>1. Fit(dev) /\ Drawn(dev) /\ dev.join = "JOINED"
  BY KeptFit DEF PlanInv, Unanswered, Runs
<1>2. PICK d \in {dev, Decremented(dev)} : \E e \in NextDr(d) : Ends(e) BY DEF Unanswered
<1>3. PICK e \in NextDr(d) : Ends(e) BY <1>2
<1>4. Fit(d) BY <1>1, DecrementedFit
<1>5. Kept(e) BY <1>4, NextDrFit, FitKept
<1> QED BY <1>3, <1>5, EndsPlan DEF Ends

LEMMA LinkAdrKept ==
    ASSUME FixedPlanAssumption, PlanInv, LinkAdr
    PROVE  PlanInv'
<1>1. Fit(dev) /\ dev.join = "JOINED" BY KeptFit DEF PlanInv, LinkAdr, Runs
<1>2. PICK k \in Requests : \E e \in NextDr(Parsed(Built(dev, k), k)) : Sends(e)
  BY DEF LinkAdr
<1> DEFINE d == Parsed(Built(dev, k), k)
<1>3. Fit(d) /\ d.join = "JOINED" BY <1>1, ParsedFit
<1>4. PICK e \in NextDr(d) : Sends(e) BY <1>2
<1> HIDE DEF d
<1>5. Fit(e) /\ Drawn(e) /\ e.join = "JOINED" BY <1>3, NextDrFit
<1>6. dev' \in NextChannel(e) BY <1>4 DEF Sends
<1>7. Kept(dev') BY <1>5, <1>6, NextChannelKept DEF Fit
<1> QED BY <1>7, PlanOf

\* The user's strategy, at any time.
LEMMA DrStrategySetKept ==
    ASSUME PlanInv, DrStrategySet
    PROVE  PlanInv'
<1>1. Fit(dev) BY KeptFit DEF PlanInv, DrStrategySet, Runs
<1>2. PICK mode : dev' \in NextDr(Strategy(dev, mode)) BY DEF DrStrategySet
<1> DEFINE d == Strategy(dev, mode)
<1>3. /\ IsDev(d) /\ d.unwrapped = dev.unwrapped /\ d.enabled = dev.enabled
      /\ d.snapshot = dev.snapshot /\ d.phase = dev.phase /\ d.taken = dev.taken
      /\ d.last = dev.last /\ d.panic = dev.panic /\ d.join = dev.join
  BY <1>1 DEF Strategy, Fit, Typed, IsDev, Fields
<1> HIDE DEF d
<1>4. Typed(d) BY <1>1, <1>3 DEF Fit, Typed
<1>5. Hopped(dev) => Hopped(d) BY <1>3 DEF Hopped, HoppedOn
<1>6. Fit(d) BY <1>1, <1>3, <1>4, <1>5 DEF Fit
<1>7. dev' \in NextDr(d) BY <1>2 DEF d
<1>8. Kept(dev') BY <1>6, <1>7, NextDrFit, FitKept
<1> QED BY <1>8, PlanOf

-----------------------------------------------------------------------------
(* The theorems. *)

LEMMA PlanInit == ASSUME FixedPlanAssumption, Init PROVE PlanInv
<1>1. /\ IsDev(dev) /\ dev.unwrapped = Channels /\ dev.enabled = Channels
      /\ dev.snapshot = Channels /\ dev.phase = Init0 /\ dev.taken = [c \in Channels |-> 0]
      /\ dev.last = 0 /\ dev.panic = "none" /\ dev.join = "NOT_JOINED"
  BY DEF Init, IsDev, Fields
<1>2. Typed(dev) BY <1>1, ChannelZero DEF Typed, Init0
<1> QED BY <1>1, <1>2 DEF PlanInv, Kept

\* A step keeps the invariant.
LEMMA PlanNext == ASSUME FixedPlanAssumption, PlanInv, [Next]_vars PROVE PlanInv'
<1>1. CASE UNCHANGED vars BY <1>1 DEF vars, PlanInv, Kept, Typed, Hopped, HoppedOn, Drawn
<1> QED
  BY <1>1, JoinKept, JoinAcceptKept, JoinFailedKept, LeaveKept, SendKept, RepeatKept,
     UnansweredKept, LinkAdrKept, DrStrategySetKept DEF Next

\* The masks are sets of channels, the snapshot is part of the mask, the uses of the
\* channels of a bandwidth are told by the snapshot, and a panic of the search of a
\* channel is due to the rate (region_us_915_get_next_channel, smtc_real_get_next_dr).
THEOREM PlanInvariant == ASSUME FixedPlanAssumption PROVE Spec => []PlanInv
BY PlanInit, PlanNext, PTL DEF Spec

\* The hopping and the panics are what the invariant says of them.
LEMMA PlanHops == ASSUME PlanInv PROVE ChannelsHopped
<1>1. \A c \in dev.enabled : dev.taken[c] <= 1 BY DEF PlanInv, Kept, Typed
<1> QED BY <1>1 DEF PlanInv, Kept, ChannelsHopped

\* A channel is used once before another of its bandwidth is used twice, whatever the masks
\* and the repetitions (region_us_915_get_next_channel).
THEOREM PlanChannelsHopped == ASSUME FixedPlanAssumption PROVE Spec => []ChannelsHopped
BY PlanHops, PlanInvariant, PTL

-----------------------------------------------------------------------------
(* The back-off.  The rates below a rate are those that its steps come to; two *)
(* narrow channels make the lowest of them acceptable, so every back-off but   *)
(* the one at the lowest rate leaves fewer rates below (Recovering).           *)

\* What holds at first and is passed on holds up to any number.
LEMMA UpTo ==
    ASSUME NEW n \in Nat, NEW S, 0 \in S, \A k \in 1 .. n : k - 1 \in S => k \in S
    PROVE  0 .. n \subseteq S
<1> DEFINE T == (0 .. n) \ S
           m == Min(T)
<1> SUFFICES ASSUME T # {} PROVE FALSE OBVIOUS
<1>1. T \subseteq Nat OBVIOUS
<1>2. m \in T /\ \A k \in T : m <= k
  <2> HIDE DEF T
  <2> QED BY <1>1, LeastIn
<1> HIDE DEF m
<1>3. m \in 1 .. n /\ m - 1 \in 0 .. n BY <1>2
<1>4. m - 1 \notin T
  <2> HIDE DEF T
  <2> QED BY <1>2, <1>3
<1> QED BY <1>2, <1>3, <1>4

\* The greatest of numbers that have a bound.
LEMMA GreatestIn ==
    ASSUME NEW n \in Nat, NEW S \in SUBSET (0 .. n), S # {}
    PROVE  Max(S) \in S /\ \A k \in S : k <= Max(S)
<1> DEFINE T == {n - k : k \in S}
           m == n - Min(T)
<1>1. T \in SUBSET Nat /\ T # {}
  <2>1. \A k \in S : k \in 0 .. n /\ n - k \in Nat OBVIOUS
  <2> QED BY <2>1
<1>2. Min(T) \in T /\ \A k \in T : Min(T) <= k
  <2> HIDE DEF T
  <2> QED BY <1>1, LeastIn
<1>3. PICK t \in S : Min(T) = n - t BY <1>2
<1>4. \A k \in S : n - t <= n - k BY <1>2, <1>3
<1>5. \A k \in S : t >= k BY <1>4
<1> QED BY <1>5 DEF Max

\* The rates are few.
LEMMA RatesFinite ==
    ASSUME FixedPlanAssumption
    PROVE  /\ Rates \subseteq 0 .. 14 /\ 0 \in Rates /\ Max(Rates) \in Rates
           /\ \A r \in Rates : r <= Max(Rates)
           /\ IsFiniteSet(Rates) /\ Cardinality(Rates) \in Nat \ {0}
<1>1. Rates \subseteq 0 .. 14 /\ 0 \in Rates BY DEF FixedPlanAssumption, Rates
<1>2. Max(Rates) \in Rates /\ \A r \in Rates : r <= Max(Rates) BY <1>1, GreatestIn
<1>3. IsFiniteSet(Rates) BY <1>1, FS_BoundedSetOfNaturals
<1>4. Cardinality(Rates) \in Nat /\ Cardinality(Rates) # 0
  BY <1>1, <1>3, FS_CardinalityType, FS_EmptySet
<1> QED BY <1>1, <1>2, <1>3, <1>4

\* The rates that the steps from a rate come to: the least set closed under them.
Closed(r) ==
    {S \in SUBSET Rates :
       (r # 0 => LowerRate[r] \in S) /\ \A s \in S \ {0} : LowerRate[s] \in S}
Steps(r) == {s \in Rates : \A S \in Closed(r) : s \in S}

\* They are the function of the model.
LEMMA BelowIs ==
    ASSUME FixedPlanAssumption
    PROVE  \A r \in Rates :
             Below[r] = IF r = 0 THEN {} ELSE {LowerRate[r]} \cup Below[LowerRate[r]]
<1> DEFINE Is(f) ==
        f = [r \in Rates |-> IF r = 0 THEN {} ELSE {LowerRate[r]} \cup f[LowerRate[r]]]
           g == [r \in Rates |-> Steps(r)]
<1>1. \A r \in Rates : LowerRate[r] \in Rates BY DEF FixedPlanAssumption
<1>2. Steps(0) = {}
  <2>1. {} \in Closed(0) BY DEF Closed
  <2> QED BY <2>1 DEF Steps
<1>3. ASSUME NEW r \in Rates \ {0}
      PROVE  Steps(r) = {LowerRate[r]} \cup Steps(LowerRate[r])
  <2> DEFINE l == LowerRate[r]
             T == {l} \cup Steps(l)
  <2>0. l \in Rates BY <1>1
  <2>1. T \in Closed(r)
    <3>1. T \subseteq Rates BY <2>0 DEF Steps
    <3>2. ASSUME NEW s \in T \ {0} PROVE LowerRate[s] \in Steps(l)
      <4>1. LowerRate[s] \in Rates BY <1>1, <3>1
      <4>2. ASSUME NEW S \in Closed(l) PROVE LowerRate[s] \in S
        <5>1. s = l \/ s \in S BY <3>2 DEF Steps
        <5> QED BY <3>2, <5>1 DEF Closed
      <4> QED BY <4>1, <4>2 DEF Steps
    <3> QED BY <3>1, <3>2 DEF Closed
  <2>2. Steps(r) \subseteq T BY <2>1 DEF Steps
  <2>3. ASSUME NEW S \in Closed(r) PROVE T \subseteq S
    <3>1. l \in S BY <2>3 DEF Closed
    <3>2. S \in Closed(l) BY <2>3, <3>1 DEF Closed
    <3> QED BY <3>1, <3>2 DEF Steps
  <2>4. T \subseteq Steps(r)
    <3>1. T \subseteq Rates BY <2>0 DEF Steps
    <3> HIDE DEF T
    <3> QED BY <2>3, <3>1 DEF Steps
  <2> QED BY <2>2, <2>4
<1>4. Is(g) BY <1>1, <1>2, <1>3
<1>5. Below = CHOOSE f : Is(f) BY DEF Below
<1>6. Is(Below)
  <2> HIDE DEF Is
  <2> QED BY <1>4, <1>5
<1> QED BY <1>6

\* They are lower rates, and the lowest one is among them.
LEMMA BelowDown ==
    ASSUME FixedPlanAssumption, NEW r \in Rates
    PROVE  /\ \A s \in Below[r] : s \in Rates /\ s < r
           /\ r # 0 => 0 \in Below[r]
<1> DEFINE Down(q) == /\ \A s \in Below[q] : s \in Rates /\ s < q
                      /\ q # 0 => 0 \in Below[q]
           T == {q \in Rates : ~Down(q)}
           m == Min(T)
<1> SUFFICES ASSUME T # {} PROVE FALSE OBVIOUS
<1>1. T \subseteq Nat BY RatesFinite
<1>2. m \in T /\ \A k \in T : m <= k
  <2> HIDE DEF T
  <2> QED BY <1>1, LeastIn
<1> HIDE DEF m
<1>3. m \in Rates /\ m \in Nat /\ ~Down(m) BY <1>2, RatesFinite
<1>4. CASE m = 0
  <2>1. Below[m] = {} BY <1>3, <1>4, BelowIs
  <2> QED BY <1>3, <1>4, <2>1
<1>5. CASE m # 0
  <2> DEFINE l == LowerRate[m]
  <2>1. l \in Rates /\ l \in Nat /\ l < m
    <3>1. l \in Rates /\ l < m BY <1>3, <1>5 DEF FixedPlanAssumption
    <3> HIDE DEF l
    <3> QED BY <3>1, RatesFinite
  <2>2. l \notin T
    <3> HIDE DEF T, l
    <3> QED BY <1>2, <1>3, <2>1
  <2>3. Down(l) BY <2>1, <2>2
  <2>4. Below[m] = {l} \cup Below[l] BY <1>3, <1>5, BelowIs
  <2>5. ASSUME NEW s \in Below[m] PROVE s \in Rates /\ s < m
    <3>1. CASE s = l BY <2>1, <3>1
    <3>2. CASE s # l
      <4>1. s \in Rates /\ s < l BY <2>3, <2>4, <2>5, <3>2
      <4>2. s \in Nat BY <4>1, RatesFinite
      <4> HIDE DEF l
      <4> QED BY <1>3, <2>1, <4>1, <4>2
    <3> QED BY <3>1, <3>2
  <2>6. 0 \in Below[m] BY <2>3, <2>4
  <2> QED BY <1>3, <2>5, <2>6
<1> QED BY <1>4, <1>5

\* A step of the back-off lowers the rate while two narrow channels are enabled; there is
\* nothing below the lowest one.
LEMMA LoweredDown ==
    ASSUME FixedPlanAssumption, NEW mask \in SUBSET Channels, NEW r \in Rates
    PROVE  /\ r = 0 => Lowered(mask, r) = 0
           /\ r # 0 /\ Cardinality(mask \cap Narrow) >= 2 =>
                Lowered(mask, r) \in Rates /\ Lowered(mask, r) < r
           /\ Cardinality(mask \cap Narrow) >= 2 => 0 \in MaskRates(mask)
<1> DEFINE down == {s \in Below[r] : Acceptable(mask, s)}
<1>1. ASSUME r = 0 PROVE Lowered(mask, r) = 0
  <2>1. down = {} BY <1>1, BelowIs
  <2> QED BY <1>1, <2>1 DEF Lowered
<1>2. ASSUME Cardinality(mask \cap Narrow) >= 2 PROVE 0 \in MaskRates(mask)
  <2>1. mask \cap Narrow # {} BY <1>2, FS_EmptySet
  <2> QED BY <2>1 DEF MaskRates, RatesOf, FixedPlanAssumption
<1>3. ASSUME r # 0, Cardinality(mask \cap Narrow) >= 2
      PROVE  Lowered(mask, r) \in Rates /\ Lowered(mask, r) < r
  <2>1. 0 \in down BY <1>2, <1>3, BelowDown DEF Acceptable
  <2>2. \A s \in down : s \in Rates /\ s < r BY BelowDown
  <2>3. down \subseteq 0 .. 14 BY <2>2, RatesFinite
  <2>4. Lowered(mask, r) = Max(down) BY <2>1 DEF Lowered
  <2> HIDE DEF down
  <2>5. Max(down) \in down BY <2>1, <2>3, GreatestIn
  <2> QED BY <2>2, <2>4, <2>5
<1> HIDE DEF down
<1> QED BY <1>1, <1>2, <1>3

\* The lowest rate: that of the region with two narrow channels, the lowest wide one
\* without narrow channel.
LEMMA MinRateIs ==
    ASSUME FixedPlanAssumption, NEW mask \in SUBSET Channels
    PROVE  /\ Cardinality(mask \cap Narrow) >= 2 => MinRate(mask) = 0
           /\ MaskRates(mask) # {} /\ mask \cap Narrow = {} =>
                MaskRates(mask) = WideRates /\ MinRate(mask) = LowestWide
<1> DEFINE K == MaskRates(mask) \cup {Max(Rates)}
<1>0. MinRate(mask) = Min(K) BY DEF MinRate
<1>1. K \subseteq Rates BY RatesOfMask, RatesFinite DEF Bandwidths
<1>2. K \subseteq Nat /\ K # {} BY <1>1, RatesFinite
<1> HIDE DEF K
<1>3. Min(K) \in K /\ \A k \in K : Min(K) <= k BY <1>2, LeastIn
<1>4. ASSUME Cardinality(mask \cap Narrow) >= 2 PROVE MinRate(mask) = 0
  <2>1. 0 \in K BY <1>4, LoweredDown, RatesFinite DEF K
  <2>2. Min(K) \in Nat /\ Min(K) <= 0 BY <1>2, <1>3, <2>1
  <2> QED BY <1>0, <2>2
<1>5. ASSUME MaskRates(mask) # {}, mask \cap Narrow = {}
      PROVE  MaskRates(mask) = WideRates /\ MinRate(mask) = LowestWide
  <2>1. \A c \in mask : RatesOf(c) = WideRates BY <1>5, TwoBandwidths DEF Channels
  <2>2. MaskRates(mask) = WideRates /\ WideRates # {} BY <1>5, <2>1 DEF MaskRates
  <2>3. Max(Rates) \in WideRates
    <3>1. SUFFICES ASSUME Max(Rates) \in NarrowRates, NEW w \in WideRates PROVE FALSE
      BY <2>2, RatesFinite DEF Rates
    <3>2. Max(Rates) < w BY <3>1 DEF FixedPlanAssumption
    <3>3. w <= Max(Rates) BY RatesFinite DEF Rates
    <3>4. w \in Nat /\ Max(Rates) \in Nat BY RatesFinite DEF Rates
    <3> QED BY <3>2, <3>3, <3>4
  <2>4. K = WideRates BY <2>2, <2>3 DEF K
  <2> QED BY <1>0, <2>2, <2>4 DEF LowestWide
<1> QED BY <1>4, <1>5

\* The devices that the back-off goes through.
LEMMA BackedIs ==
    ASSUME FixedPlanAssumption
    PROVE  /\ Backed[0] = dev
           /\ \A k \in 1 .. Cardinality(Rates) : Backed[k] = Decremented(Backed[k - 1])
<1> DEFINE n == Cardinality(Rates)
           Next1(f, k) == IF k = 0 THEN dev ELSE Decremented(f[k - 1])
           Is(f, m) == f = [k \in 0 .. m |-> Next1(f, k)]
           S == {m \in 0 .. n : \E f : Is(f, m)}
<1>1. n \in Nat BY RatesFinite
<1>0. Backed = CHOOSE f : Is(f, n) BY DEF Backed
<1> HIDE DEF n
<1>2. 0 \in S
  <2>1. Is([k \in 0 .. 0 |-> dev], 0) OBVIOUS
  <2> HIDE DEF Is
  <2> QED BY <1>1, <2>1
<1>3. ASSUME NEW m \in 1 .. n, m - 1 \in S PROVE m \in S
  <2>1. PICK f : Is(f, m - 1) BY <1>3
  <2> DEFINE g == [k \in 0 .. m |-> IF k = m THEN Decremented(f[m - 1]) ELSE f[k]]
  <2>2. ASSUME NEW k \in 0 .. m PROVE g[k] = Next1(g, k)
    <3>1. CASE k = m
      <4>1. m # 0 /\ m - 1 # m /\ m - 1 \in 0 .. m OBVIOUS
      <4> QED BY <3>1, <4>1
    <3>2. CASE k # m
      <4>1. k \in 0 .. m - 1 /\ (k # 0 => k - 1 \in 0 .. m /\ k - 1 # m) BY <3>2
      <4>2. f[k] = Next1(f, k) BY <2>1, <4>1
      <4> QED BY <3>2, <4>1, <4>2
    <3> QED BY <3>1, <3>2
  <2>3. g = [k \in 0 .. m |-> g[k]] OBVIOUS
  <2> HIDE DEF g, Next1
  <2>4. Is(g, m) BY <2>2, <2>3
  <2> QED BY <2>4
<1> HIDE DEF Is, S
<1>4. 0 .. n \subseteq S BY <1>1, <1>2, <1>3, UpTo
<1>5. \E f : Is(f, n) BY <1>1, <1>4 DEF S
<1>6. Is(Backed, n) BY <1>0, <1>5
<1>7. \A k \in 0 .. n : Backed[k] = Next1(Backed, k)
  <2> HIDE DEF Next1
  <2> QED BY <1>6 DEF Is
<1>8. 0 \in 0 .. n /\ \A k \in 1 .. n : k \in 0 .. n /\ k # 0 BY <1>1
<1> QED BY <1>7, <1>8 DEF n

\* A device whose channels are all enabled, for good.
Recovered(d) == IsDev(d) /\ d.mode = "STATIC" /\ d.enabled = Channels
LEMMA RecoveredStays == ASSUME NEW d, Recovered(d) PROVE Recovered(Decremented(d))
BY DEF Recovered, IsDev, Fields, Decremented, AllEnabled

\* A device that the back-off has lowered k times and that has more than one narrow
\* channel: there are fewer rates below its rate.
LowerRates(r) == {s \in Rates : s < r}
Recovering(d, k) ==
    /\ IsDev(d) /\ d.mode = "STATIC" /\ d.enabled \subseteq Channels
    /\ Cardinality(d.enabled \cap Narrow) >= 2
    /\ d.adr \in Rates
    /\ Cardinality(LowerRates(d.adr)) + k < Cardinality(Rates)

\* Fewer rates are below a lower rate.
LEMMA FewerBelow ==
    ASSUME FixedPlanAssumption, NEW r \in Rates
    PROVE  /\ Cardinality(LowerRates(r)) \in Nat
           /\ Cardinality(LowerRates(r)) < Cardinality(Rates)
           /\ \A s \in LowerRates(r) : Cardinality(LowerRates(s)) < Cardinality(LowerRates(r))
<1>1. ASSUME NEW A \in SUBSET Rates, NEW B \in SUBSET A, NEW x \in A, x \notin B
      PROVE  Cardinality(B) < Cardinality(A) /\ Cardinality(A) \in Nat
  <2>1. IsFiniteSet(A) /\ IsFiniteSet(B) BY RatesFinite, FS_Subset
  <2>2. Cardinality(B) <= Cardinality(A) /\ Cardinality(B) # Cardinality(A)
    BY <1>1, <2>1, FS_Subset
  <2>3. Cardinality(B) \in Nat /\ Cardinality(A) \in Nat BY <2>1, FS_CardinalityType
  <2> QED BY <2>2, <2>3
<1>2. \A s \in Rates : s \in Nat /\ s \notin LowerRates(s) BY RatesFinite DEF LowerRates
<1>3. Cardinality(LowerRates(r)) < Cardinality(Rates) BY <1>1, <1>2 DEF LowerRates
<1>4. Cardinality(LowerRates(r)) \in Nat
  BY RatesFinite, FS_Subset, FS_CardinalityType DEF LowerRates
<1>5. ASSUME NEW s \in LowerRates(r)
      PROVE  Cardinality(LowerRates(s)) < Cardinality(LowerRates(r))
  <2>1. s \in Rates /\ s < r BY DEF LowerRates
  <2>2. \A t \in LowerRates(s) : t \in Rates /\ t < r
    <3> TAKE t \in LowerRates(s)
    <3>1. t \in Rates /\ t < s BY DEF LowerRates
    <3>2. t \in Nat /\ s \in Nat /\ r \in Nat BY <1>2, <2>1, <3>1
    <3> QED BY <2>1, <3>1, <3>2
  <2>3. LowerRates(s) \in SUBSET LowerRates(r) BY <2>2 DEF LowerRates
  <2> QED BY <1>1, <1>2, <2>1, <2>3 DEF LowerRates
<1> QED BY <1>3, <1>4, <1>5

\* A step of the back-off lowers the rate, or enables the channels.
LEMMA RecoveringStep ==
    ASSUME FixedPlanAssumption, NEW k \in Nat, NEW d, Recovering(d, k)
    PROVE  Recovered(Decremented(d)) \/ Recovering(Decremented(d), k + 1)
<1> DEFINE e == Decremented(d)
           low == Lowered(d.enabled, d.adr)
<1>1. MinRate(d.enabled) = 0 BY MinRateIs DEF Recovering
<1>2. CASE d.adr = 0
  <2>1. \E r : e = [AllEnabled(d) EXCEPT !.adr = r] BY <1>1, <1>2 DEF Decremented, Recovering
  <2> QED BY <2>1 DEF Recovered, Recovering, AllEnabled, IsDev, Fields
<1>3. CASE d.adr # 0
  <2>1. low \in Rates /\ low < d.adr BY <1>3, LoweredDown DEF Recovering
  <2>2. e = [d EXCEPT !.adr = low] BY <1>1, <1>3 DEF Decremented, Recovering
  <2> HIDE DEF e, low
  <2>3. IsDev(e) /\ e.mode = "STATIC" /\ e.enabled = d.enabled /\ e.adr = low
    BY <2>2 DEF Recovering, IsDev, Fields
  <2>4. low \in LowerRates(d.adr) BY <2>1 DEF LowerRates
  <2>5. /\ Cardinality(LowerRates(low)) < Cardinality(LowerRates(d.adr))
        /\ Cardinality(LowerRates(low)) \in Nat /\ Cardinality(LowerRates(d.adr)) \in Nat
    BY <2>1, <2>4, FewerBelow DEF Recovering
  <2>6. Cardinality(LowerRates(low)) + (k + 1) < Cardinality(Rates)
    BY <2>5, RatesFinite DEF Recovering
  <2>7. Recovering(e, k + 1) BY <2>1, <2>3, <2>6 DEF Recovering
  <2> QED BY <2>7 DEF e
<1> QED BY <1>2, <1>3

\* The back-off of a device with more than one narrow channel, or with none.
LEMMA PlanRecovers == ASSUME FixedPlanAssumption, PlanInv PROVE BackoffRecovers
<1> DEFINE n == Cardinality(Rates)
           m == dev.enabled
           narrow == Cardinality(m \cap Narrow)
<1> SUFFICES ASSUME dev.mode = "STATIC", dev.adr \in MaskRates(m), narrow # 1,
                    m \cap Narrow # {} \/ dev.adr \notin FhssRates
             PROVE  Backed[n].enabled = Channels
  BY DEF BackoffRecovers
<1>1. n \in Nat \ {0} BY RatesFinite
<1>2. IsDev(dev) /\ m \subseteq Channels BY DEF PlanInv, Kept, Typed
<1>3. dev.adr \in Rates BY <1>2, RatesOfMask DEF Bandwidths
<1>4. CASE m \cap Narrow = {}
  <2> DEFINE S == {k \in 0 .. n : k # 0 => Recovered(Backed[k])}
  <2>2. MaskRates(m) = WideRates /\ MinRate(m) = LowestWide BY <1>2, <1>4, MinRateIs
  <2>3. dev.adr = LowestWide BY <1>4, <2>2 DEF FixedPlanAssumption
  <2>4. \E r : Decremented(dev) = [AllEnabled(dev) EXCEPT !.adr = r]
    BY <2>2, <2>3 DEF Decremented
  <2>5. Recovered(Decremented(dev)) BY <1>2, <2>4 DEF Recovered, AllEnabled, IsDev, Fields
  <2>6. ASSUME NEW k \in 1 .. n, k - 1 \in S PROVE k \in S
    <3>1. Backed[k] = Decremented(Backed[k - 1]) BY BackedIs
    <3>2. CASE k - 1 = 0 BY <2>5, <3>1, <3>2, BackedIs
    <3>3. CASE k - 1 # 0 BY <2>6, <3>1, <3>3, RecoveredStays
    <3> QED BY <3>2, <3>3
  <2>7. 0 \in S BY <1>1
  <2>8. 0 .. n \subseteq S
    <3> HIDE DEF S, n
    <3> QED BY <1>1, <2>6, <2>7, UpTo
  <2> QED BY <1>1, <2>8 DEF Recovered
<1>5. CASE m \cap Narrow # {}
  <2> DEFINE S == {k \in 0 .. n : Recovered(Backed[k]) \/ Recovering(Backed[k], k)}
  <2>1. narrow >= 2
    <3>1. IsFiniteSet(Narrow) BY FS_Interval, TwoBandwidths DEF Narrow, FixedPlanAssumption
    <3>2. IsFiniteSet(m \cap Narrow) BY <3>1, FS_Subset
    <3>3. narrow \in Nat /\ narrow # 0 BY <1>5, <3>2, FS_CardinalityType, FS_EmptySet
    <3> HIDE DEF narrow
    <3> QED BY <3>3
  <2>2. Recovering(dev, 0)
    <3>1. Cardinality(LowerRates(dev.adr)) + 0 < n BY <1>3, FewerBelow
    <3> QED BY <1>2, <1>3, <2>1, <3>1 DEF Recovering
  <2>3. 0 \in S BY <1>1, <2>2, BackedIs
  <2>4. ASSUME NEW k \in 1 .. n, k - 1 \in S PROVE k \in S
    <3>1. Backed[k] = Decremented(Backed[k - 1]) BY BackedIs
    <3>2. k - 1 \in Nat /\ (k - 1) + 1 = k OBVIOUS
    <3>3. CASE Recovered(Backed[k - 1]) BY <3>1, <3>3, RecoveredStays
    <3>4. CASE Recovering(Backed[k - 1], k - 1) BY <3>1, <3>2, <3>4, RecoveringStep
    <3> QED BY <2>4, <3>3, <3>4
  <2>5. 0 .. n \subseteq S
    <3> HIDE DEF S, n
    <3> QED BY <1>1, <2>3, <2>4, UpTo
  <2>6. ~Recovering(Backed[n], n)
    <3>1. ASSUME NEW r \in Rates PROVE ~(Cardinality(LowerRates(r)) + n < n)
      <4>1. Cardinality(LowerRates(r)) \in Nat BY FewerBelow
      <4> HIDE DEF n
      <4> QED BY <1>1, <4>1
    <3> QED BY <3>1 DEF Recovering
  <2> QED BY <1>1, <2>5, <2>6 DEF Recovered
<1> QED BY <1>4, <1>5

\* The back-off of a device that is not answered any more enables all the channels again,
\* but for a lone narrow channel or LR-FHSS on wide channels only
\* (smtc_real_decrement_dr).
THEOREM PlanBackoffRecovers == ASSUME FixedPlanAssumption PROVE Spec => []BackoffRecovers
BY PlanRecovers, PlanInvariant, PTL
=============================================================================

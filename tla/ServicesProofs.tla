---------------------------- MODULE ServicesProofs ----------------------------
(***************************************************************************)
(* The services for any instance that ServicesAssumption allows.  A step is  *)
(* one of the component that runs, so what a component keeps of its own is   *)
(* kept: the ring, the fixed plan and class C by the proofs about them, the   *)
(* upload, the duty cycle, the stream, the clock and the MAC commands by     *)
(* those below.                                                              *)
(***************************************************************************)
EXTENDS Services, FiniteSetTheorems, SequenceTheorems, WellFoundedInduction, TLAPS

\* A step of the services is one of the component that runs, or leaves it alone.
LEMMA StepsOfOne ==
    ASSUME [Next]_vars
    PROVE  /\ which' = which
           /\ which = "Ring" => Ring!Next \/ UNCHANGED fifoVars
           /\ which = "Duty" => Duty!Next \/ UNCHANGED dutyVars
           /\ which = "Rose" => Rose!Next \/ UNCHANGED roseVars
           /\ which = "Upload" => Upload!Next \/ UNCHANGED upVars
           /\ which = "Cmd" => Cmd!Next \/ UNCHANGED cmdVars
           /\ which = "Clock" => Clock!Next \/ UNCHANGED clkVars
           /\ which = "Plan" => Plan!Next \/ UNCHANGED planVars
           /\ which = "ClassC" => ClassC!Next \/ UNCHANGED ccVars
BY DEF Next, vars, RingStep, DutyStep, RoseStep, UploadStep, CmdStep, ClockStep, PlanStep,
    ClassCStep

-----------------------------------------------------------------------------
(* The file upload. *)

\* A FILEDONE names its session modulo the width of the counter only, and may come long
\* after the file was cancelled: the sessions of those in the network are complete at the
\* server, and young enough that no two of them share a counter.

\* What the FILEDONEs in the network say is true, and they are younger than a turn of the
\* session counter.
DoneInv ==
    /\ upSession \in Nat
    /\ upDone \subseteq upServer.complete
    /\ \A s \in upDone : s \in Nat /\ s <= upSession /\ upSession - s < upCounters

\* The inductive invariant.
UploadInv == DoneInv /\ Upload!ConfirmedIsComplete

\* The quotient and the remainder of a number.
LEMMA Division ==
    ASSUME NEW a \in Nat, NEW c \in Nat \ {0}
    PROVE  /\ a \div c \in Nat /\ a % c \in 0 .. c - 1
           /\ a = c * (a \div c) + (a % c)
OBVIOUS

\* A positive multiple of a number is not below it.
LEMMA Multiple ==
    ASSUME NEW c \in Nat, NEW q \in Nat, q # 0
    PROVE  c * q >= c
OBVIOUS

\* Numbers less than c apart with the same remainder are the same.
LEMMA SameRemainder ==
    ASSUME NEW a \in Nat, NEW b \in Nat, NEW c \in Nat \ {0},
           a <= b, b - a < c, a % c = b % c
    PROVE  a = b
<1> DEFINE p == a \div c
           q == b \div c
<1>1. p \in Nat /\ a = c * p + (a % c) /\ a % c \in 0 .. c - 1
  BY Division
<1>2. q \in Nat /\ b = c * q + (b % c)
  BY Division
<1> HIDE DEF p, q
<1>3. CASE q > p
  <2>1. q - p \in Nat /\ q - p # 0 BY <1>1, <1>2, <1>3
  <2>2. c * (q - p) >= c BY <2>1, Multiple
  <2>3. c * (q - p) = c * q - c * p BY <1>1, <1>2
  <2>4. c * q \in Nat /\ c * p \in Nat BY <1>1, <1>2
  <2> QED BY <1>1, <1>2, <2>2, <2>3, <2>4
<1>4. CASE p > q
  <2>1. p - q \in Nat /\ p - q # 0 BY <1>1, <1>2, <1>4
  <2>2. c * (p - q) >= c BY <2>1, Multiple
  <2>3. c * (p - q) = c * p - c * q BY <1>1, <1>2
  <2>4. c * q \in Nat /\ c * p \in Nat BY <1>1, <1>2
  <2> QED BY <1>1, <1>2, <2>2, <2>3, <2>4
<1>5. CASE p = q BY <1>1, <1>2, <1>5
<1> QED BY <1>1, <1>2, <1>3, <1>4, <1>5

\* The invariant holds at first.
LEMMA InitUpload == ASSUME Upload!UploadAssumption, Upload!Init PROVE UploadInv
BY DEF Upload!UploadAssumption, Upload!Init, UploadInv, DoneInv, Upload!ConfirmedIsComplete

\* The server forgets no file it has put together.
LEMMA ReceivedKeeps ==
    ASSUME Upload!UploadAssumption, UploadInv,
           NEW n, Upload!Received(n), UNCHANGED <<upSession, upConfirmed>>
    PROVE  UploadInv'
<1>1. PICK complete :
         /\ upServer.complete \subseteq complete
         /\ upServer'.complete = complete /\ upDone' = upDone \cup (complete \cap {upSession})
  BY DEF Upload!Received
<1>2. 0 < upCounters BY DEF Upload!UploadAssumption
<1>3. \A s \in upDone' : s \in upDone \/ s = upSession BY <1>1
<1> QED
  BY <1>1, <1>2, <1>3 DEF Upload!UploadAssumption, UploadInv, DoneInv, Upload!ConfirmedIsComplete

\* Every step keeps the invariant.
LEMMA NextUpload ==
    ASSUME Upload!UploadAssumption, UploadInv, [Upload!Next]_upVars
    PROVE  UploadInv'
<1> USE DEF Upload!UploadAssumption, UploadInv, DoneInv, Upload!ConfirmedIsComplete
<1>1. CASE Upload!UploadInit /\ \A s \in upDone : upSession - s < upCounters - 1
  BY <1>1 DEF Upload!UploadInit
<1>2. CASE Upload!UploadStart BY <1>2 DEF Upload!UploadStart
<1>3. CASE Upload!UploadReset BY <1>3 DEF Upload!UploadReset
<1>4. CASE Upload!SendFragment
  <2>1. PICK room \in upRooms : \/ Upload!Received(Upload!Fit(room))
                              \/ UNCHANGED <<upServer, upDone>>
    BY <1>4 DEF Upload!SendFragment
  <2>2. UNCHANGED <<upSession, upConfirmed>> BY <1>4 DEF Upload!SendFragment
  <2>3. CASE Upload!Received(Upload!Fit(room)) BY <2>2, <2>3, ReceivedKeeps
  <2>4. CASE UNCHANGED <<upServer, upDone>> BY <2>2, <2>4
  <2> QED BY <2>1, <2>3, <2>4
<1>5. CASE Upload!UpdateFile BY <1>5 DEF Upload!UpdateFile
<1>6. CASE Upload!FileDone
  <2>1. PICK s \in upDone :
           /\ upDone' = upDone \ {s}
           /\ \/ Upload!SameCounter(s) /\ upConfirmed' = upConfirmed \cup {upSession}
              \/ UNCHANGED upConfirmed
    BY <1>6 DEF Upload!FileDone
  <2>2. UNCHANGED <<upSession, upServer>> BY <1>6 DEF Upload!FileDone
  <2>3. ASSUME Upload!SameCounter(s) PROVE upSession \in upServer.complete
    <3>1. s % upCounters = upSession % upCounters BY <2>3 DEF Upload!SameCounter, Upload!Counter
    <3>2. s = upSession BY <3>1, SameRemainder
    <3> QED BY <3>2
  <2> QED BY <2>1, <2>2, <2>3
<1>7. CASE Upload!Expire BY <1>7 DEF Upload!Expire
<1>8. CASE UNCHANGED upVars BY <1>8 DEF upVars
<1> QED BY <1>1, <1>2, <1>3, <1>4, <1>5, <1>6, <1>7, <1>8 DEF Upload!Next

\* The upload's invariant while the upload runs.
UploadRuns == which = "Upload" => UploadInv

\* A file reported as uploaded is whole at the server (file_upload.c).
THEOREM ServicesConfirmed == Spec => []ConfirmedIsComplete
<1>0. Upload!UploadAssumption BY ServicesAssumption DEF ServicesAssumption
<1>1. Init => UploadRuns BY <1>0, InitUpload DEF Init, UploadRuns
<1>2. UploadRuns /\ [Next]_vars => UploadRuns'
  <2> SUFFICES ASSUME UploadRuns, [Next]_vars, which' = "Upload" PROVE UploadInv'
    BY DEF UploadRuns
  <2>1. which = "Upload" /\ (Upload!Next \/ UNCHANGED upVars) BY StepsOfOne
  <2> QED BY <1>0, <2>1, NextUpload DEF UploadRuns
<1>3. UploadRuns => ConfirmedIsComplete BY DEF UploadRuns, UploadInv, ConfirmedIsComplete
<1> QED BY <1>1, <1>2, <1>3, PTL DEF Spec

-----------------------------------------------------------------------------
(* The ring of bytes. *)

RingP == INSTANCE FifoProofs WITH
    Size <- fifoSize, Messages <- fifoMessages, Capacities <- fifoCapacities,
    buffer <- fifoBuffer, readOffset <- fifoReadOffset,
    writeOffset <- fifoWriteOffset, freeSpace <- fifoFreeSpace,
    nbElement <- fifoNbElement, answer <- fifoAnswer

\* What the ring and its proofs read of the stored messages is the same.
SameLeft == Ring!Left = RingP!Left /\ Ring!Stored = RingP!Stored
LEMMA LeftSame == SameLeft
<1>1. Ring!Left = RingP!Left
  BY DEF Ring!Left, RingP!Left, Ring!Length, RingP!Length, Ring!MetaLen, RingP!MetaLen,
    Ring!DataLen, RingP!DataLen, Ring!At, RingP!At, Ring!Header, RingP!Header
<1>2. Ring!Stored = RingP!Stored
  BY <1>1 DEF Ring!Stored, RingP!Stored, Ring!Slice, RingP!Slice, Ring!MetaLen,
    RingP!MetaLen, Ring!DataLen, RingP!DataLen, Ring!At, RingP!At, Ring!Header, RingP!Header
<1> QED BY <1>1, <1>2 DEF SameLeft
LEMMA LeftSamePrimed == SameLeft' BY LeftSame, PTL

\* The ring of Services and of its proofs are the same.
LEMMA SameRing ==
    /\ Ring!FifoAssumption <=> RingP!FifoAssumption
    /\ Ring!Init <=> RingP!Init
    /\ Ring!Next <=> RingP!Next
    /\ Ring!QueueInit <=> RingP!QueueInit
    /\ Ring!QueueStep <=> RingP!QueueStep
<1>1. Ring!FifoAssumption <=> RingP!FifoAssumption
  BY DEF Ring!FifoAssumption, RingP!FifoAssumption, Ring!Octets, RingP!Octets,
    Ring!Countable, RingP!Countable
<1>2. Ring!Init <=> RingP!Init
  BY DEF Ring!Init, RingP!Init, Ring!Answer, RingP!Answer
<1>3. ASSUME NEW m PROVE Ring!Set(m) <=> RingP!Set(m)
  BY LeftSame DEF SameLeft, Ring!Set, RingP!Set, Ring!Encode, RingP!Encode, Ring!Return,
    RingP!Return, Ring!Answer, RingP!Answer, Ring!Room, RingP!Room
<1>4. ASSUME NEW c PROVE Ring!Get(c) <=> RingP!Get(c)
  BY LeftSame DEF SameLeft, Ring!Get, RingP!Get, Ring!Return, RingP!Return, Ring!Answer,
    RingP!Answer, Ring!DataLen, RingP!DataLen, Ring!MetaLen, RingP!MetaLen, Ring!At,
    RingP!At, Ring!Slice, RingP!Slice, Ring!Header, RingP!Header
<1>5. Ring!Clear <=> RingP!Clear
  BY DEF Ring!Clear, RingP!Clear, Ring!Return, RingP!Return, Ring!Answer, RingP!Answer
<1>6. Ring!Next <=> RingP!Next BY <1>3, <1>4, <1>5 DEF Ring!Next, RingP!Next
<1>7. Ring!QueueInit <=> RingP!QueueInit
  BY LeftSame DEF SameLeft, Ring!QueueInit, RingP!QueueInit, Ring!Fifo!Init,
    RingP!Fifo!Init, Ring!Fifo!Answer, RingP!Fifo!Answer, Ring!Fifo!Nothing,
    RingP!Fifo!Nothing
<1>8. Ring!QueueStep <=> RingP!QueueStep
  BY LeftSame, LeftSamePrimed DEF SameLeft, Ring!QueueStep, RingP!QueueStep,
    Ring!Fifo!Next, RingP!Fifo!Next, Ring!Fifo!Put, RingP!Fifo!Put, Ring!Fifo!Get,
    RingP!Fifo!Get, Ring!Fifo!Clear, RingP!Fifo!Clear, Ring!Fifo!Bytes, RingP!Fifo!Bytes,
    Ring!Fifo!Used, RingP!Fifo!Used, Ring!Fifo!From, RingP!Fifo!From, Ring!Fifo!Answer,
    RingP!Fifo!Answer, Ring!Fifo!Nothing, RingP!Fifo!Nothing, Ring!Header, RingP!Header
<1> QED BY <1>1, <1>2, <1>6, <1>7, <1>8

\* The ring's invariant while the ring runs.
RingRuns == which = "Ring" => RingP!FifoInv
\* A step of the ring is one of the queue.
QueueRuns == which = "Ring" => Ring!QueueStep

\* The ring of bytes is a queue of messages that forgets its oldest (fifo_ctrl.c).
THEOREM ServicesImplementsQueue == Spec => ImplementsQueue
<1>0. RingP!FifoAssumption BY ServicesAssumption, SameRing DEF ServicesAssumption
<1>1. Init => RingRuns /\ (which = "Ring" => Ring!QueueInit)
  BY <1>0, SameRing, RingP!InitFifo DEF Init, RingRuns
<1>2. RingRuns /\ [Next]_vars => RingRuns' /\ [QueueRuns]_fifoVars
  <2> SUFFICES ASSUME RingRuns, [Next]_vars, which = "Ring"
               PROVE  RingP!FifoInv' /\ Ring!QueueStep
    BY StepsOfOne DEF RingRuns, QueueRuns
  <2>1. Ring!Next \/ UNCHANGED fifoVars BY StepsOfOne
  <2>2. [RingP!Next]_(RingP!vars) BY <2>1, SameRing DEF fifoVars, RingP!vars
  <2> QED BY <1>0, <2>2, SameRing, RingP!NextFifo DEF RingRuns
<1> QED BY <1>1, <1>2, PTL DEF Spec, ImplementsQueue, QueueRuns

-----------------------------------------------------------------------------
(* The duty cycle. *)

\* What was sent since the time stamp of a ring is nothing, and before it is told by the
\* slots: the newest j count all that was sent since j slots before the one of the stamp
\* began.  A tick makes it all older, a frame is added to both, and an update erases only
\* slots that no longer tell of the period.

\* s[k] is what the first k entries of f add up to.
Adds(s, f, n) ==
    /\ s \in [0 .. n -> Nat]
    /\ \A k \in 0 .. n : s[k] = IF k = 0 THEN 0 ELSE s[k - 1] + f[k - 1]

\* There is one such function, and it is the sums of the model.
LEMMA SpentAdds ==
    ASSUME NEW N \in Nat, NEW f \in [0 .. N - 1 -> Nat]
    PROVE  \E s : Adds(s, f, N) /\ \A n \in 0 .. N : Duty!Spent(f, n) = s[n]
<1>1. \E s : Adds(s, f, N)
  <2> DEFINE S == {m \in 0 .. N : \E s : Adds(s, f, m)}
  <2>1. 0 \in S
    <3>1. Adds([k \in 0 .. 0 |-> 0], f, 0) BY DEF Adds
    <3> QED BY <3>1
  <2>2. ASSUME NEW m \in 1 .. N, m - 1 \in S PROVE m \in S
    <3>1. PICK s : Adds(s, f, m - 1) BY <2>2
    <3> DEFINE g == [k \in 0 .. m |-> IF k = m THEN s[m - 1] + f[m - 1] ELSE s[k]]
    <3>2. m - 1 \in 0 .. m - 1 /\ m - 1 \in 0 .. N - 1 /\ s \in [0 .. m - 1 -> Nat]
      BY <3>1 DEF Adds
    <3>3. s[m - 1] \in Nat /\ f[m - 1] \in Nat BY <3>2
    <3>4. g \in [0 .. m -> Nat]
      <4>1. \A k \in 0 .. m : k # m => k \in 0 .. m - 1 OBVIOUS
      <4> QED BY <3>2, <3>3, <4>1
    <3>5. \A k \in 0 .. m : g[k] = IF k = 0 THEN 0 ELSE g[k - 1] + f[k - 1]
      <4> TAKE k \in 0 .. m
      <4>1. CASE k = m
        <5>1. m # 0 /\ m - 1 # m /\ m - 1 \in 0 .. m /\ m \in 0 .. m OBVIOUS
        <5> QED BY <4>1, <5>1
      <4>2. CASE k # m
        <5>1. k \in 0 .. m - 1 /\ (k # 0 => k - 1 \in 0 .. m /\ k - 1 # m) BY <4>2
        <5>2. s[k] = IF k = 0 THEN 0 ELSE s[k - 1] + f[k - 1] BY <3>1, <5>1 DEF Adds
        <5> QED BY <4>2, <5>1, <5>2
      <4> QED BY <4>1, <4>2
    <3> HIDE DEF g
    <3>6. Adds(g, f, m) BY <3>4, <3>5 DEF Adds
    <3> QED BY <3>6
  <2> HIDE DEF S
  <2>3. 0 .. N \subseteq S BY <2>1, <2>2, RingP!UpTo
  <2>4. N \in S BY <2>3
  <2> QED BY <2>4 DEF S
<1>2. PICK s : Adds(s, f, N) BY <1>1
<1>3. ASSUME NEW n \in 0 .. N PROVE Duty!Spent(f, n) = s[n]
  <2> DEFINE Sum(g, k) == IF k = 0 THEN 0 ELSE g[k - 1] + f[k - 1]
             Sums(g) == g = [k \in 0 .. n |-> Sum(g, k)]
             t == [k \in 0 .. n |-> s[k]]
             upTo == CHOOSE g : Sums(g)
  <2>1. Duty!Spent(f, n) = upTo[n] BY DEF Duty!Spent
  <2>2. Sums(t)
    <3>1. \A k \in 0 .. n : k \in 0 .. N /\ (k # 0 => k - 1 \in 0 .. n) OBVIOUS
    <3>2. \A k \in 0 .. n : s[k] = IF k = 0 THEN 0 ELSE s[k - 1] + f[k - 1]
      BY <1>2, <3>1 DEF Adds
    <3>3. \A k \in 0 .. n : s[k] = Sum(t, k) BY <3>1, <3>2
    <3> QED BY <3>3
  <2> HIDE DEF t, Sum
  <2>3. Sums(upTo)
    <3> HIDE DEF Sums
    <3> QED BY <2>2
  <2> HIDE DEF upTo
  <2>4. \A k \in 0 .. n : upTo[k] = Sum(upTo, k) BY <2>3
  <2> DEFINE S == {k \in 0 .. n : upTo[k] = s[k]}
  <2>5. 0 \in S
    <3>1. s[0] = 0 BY <1>2 DEF Adds
    <3> QED BY <2>4, <3>1 DEF Sum
  <2>6. ASSUME NEW k \in 1 .. n, k - 1 \in S PROVE k \in S
    <3>1. k \in 0 .. n /\ k \in 0 .. N /\ k # 0 OBVIOUS
    <3>2. s[k] = s[k - 1] + f[k - 1] BY <1>2, <3>1 DEF Adds
    <3>3. upTo[k] = upTo[k - 1] + f[k - 1] BY <2>4, <3>1 DEF Sum
    <3> QED BY <2>6, <3>1, <3>2, <3>3
  <2>7. 0 .. n \subseteq S
    <3>1. n \in Nat OBVIOUS
    <3> HIDE DEF S
    <3> QED BY <2>5, <2>6, <3>1, RingP!UpTo
  <2> QED BY <2>1, <2>7
<1> QED BY <1>2, <1>3

\* What it takes to reckon with sums.
LEMMA SpentFacts ==
    ASSUME NEW N \in Nat, NEW f \in [0 .. N - 1 -> Nat]
    PROVE  /\ \A n \in 0 .. N : Duty!Spent(f, n) \in Nat
           /\ Duty!Spent(f, 0) = 0
           /\ \A n \in 1 .. N : Duty!Spent(f, n) = Duty!Spent(f, n - 1) + f[n - 1]
<1>1. PICK s : Adds(s, f, N) /\ \A n \in 0 .. N : Duty!Spent(f, n) = s[n] BY SpentAdds
<1>2. \A n \in 1 .. N : n \in 0 .. N /\ n - 1 \in 0 .. N /\ n # 0 OBVIOUS
<1>3. \A n \in 1 .. N : s[n] = s[n - 1] + f[n - 1] BY <1>1, <1>2 DEF Adds
<1>4. 0 \in 0 .. N /\ s[0] = 0 BY <1>1 DEF Adds
<1>5. \A n \in 0 .. N : s[n] \in Nat BY <1>1 DEF Adds
<1> QED BY <1>1, <1>2, <1>3, <1>4, <1>5

\* Sums of what is no more are no more.
LEMMA SpentLess ==
    ASSUME NEW N \in Nat, NEW f \in [0 .. N - 1 -> Nat], NEW g \in [0 .. N - 1 -> Nat],
           NEW n \in 0 .. N, \A i \in 0 .. n - 1 : f[i] <= g[i]
    PROVE  Duty!Spent(f, n) <= Duty!Spent(g, n)
<1> DEFINE F(k) == Duty!Spent(f, k)
           G(k) == Duty!Spent(g, k)
           S == {k \in 0 .. n : F(k) <= G(k)}
<1>1. /\ \A k \in 0 .. N : F(k) \in Nat /\ G(k) \in Nat
      /\ F(0) = 0 /\ G(0) = 0
      /\ \A k \in 1 .. N : F(k) = F(k - 1) + f[k - 1] /\ G(k) = G(k - 1) + g[k - 1]
  BY SpentFacts
<1> HIDE DEF F, G
<1>2. 0 \in S BY <1>1
<1>3. ASSUME NEW k \in 1 .. n, k - 1 \in S PROVE k \in S
  <2>1. k \in 1 .. N /\ k - 1 \in 0 .. N /\ k - 1 \in 0 .. n - 1 /\ k - 1 \in 0 .. N - 1 OBVIOUS
  <2>2. f[k - 1] \in Nat /\ g[k - 1] \in Nat /\ f[k - 1] <= g[k - 1] BY <2>1
  <2>3. F(k - 1) \in Nat /\ G(k - 1) \in Nat /\ F(k - 1) <= G(k - 1) BY <1>1, <1>3, <2>1
  <2> QED BY <1>1, <2>1, <2>2, <2>3
<1>4. 0 .. n \subseteq S
  <2>1. n \in Nat OBVIOUS
  <2> HIDE DEF S
  <2> QED BY <1>2, <1>3, <2>1, RingP!UpTo
<1> QED BY <1>4 DEF F, G

\* Sums of nothing are nothing.
LEMMA SpentNothing ==
    ASSUME NEW N \in Nat, NEW f \in [0 .. N - 1 -> Nat], NEW n \in 0 .. N,
           \A i \in 0 .. n - 1 : f[i] = 0
    PROVE  Duty!Spent(f, n) = 0
<1> DEFINE F(k) == Duty!Spent(f, k)
           S == {k \in 0 .. n : F(k) = 0}
<1>1. F(0) = 0 /\ \A k \in 1 .. N : F(k) = F(k - 1) + f[k - 1] BY SpentFacts
<1> HIDE DEF F
<1>2. 0 \in S BY <1>1
<1>3. ASSUME NEW k \in 1 .. n, k - 1 \in S PROVE k \in S
  <2>1. k \in 1 .. N /\ k - 1 \in 0 .. n - 1 OBVIOUS
  <2> QED BY <1>1, <1>3, <2>1
<1>4. 0 .. n \subseteq S
  <2>1. n \in Nat OBVIOUS
  <2> HIDE DEF S
  <2> QED BY <1>2, <1>3, <2>1, RingP!UpTo
<1> QED BY <1>4 DEF F

\* What is added to an entry is added to the sums that include it.
LEMMA SpentAdded ==
    ASSUME NEW N \in Nat, NEW f \in [0 .. N - 1 -> Nat], NEW x \in 0 .. N - 1, NEW t \in Nat,
           NEW n \in x + 1 .. N
    PROVE  Duty!Spent([f EXCEPT ![x] = @ + t], n) = Duty!Spent(f, n) + t
<1> DEFINE g == [f EXCEPT ![x] = @ + t]
           F(k) == Duty!Spent(f, k)
           G(k) == Duty!Spent(g, k)
           S == {k \in 0 .. n : G(k) = IF k <= x THEN F(k) ELSE F(k) + t}
<1>1. g \in [0 .. N - 1 -> Nat] /\ g[x] = f[x] + t /\ \A i \in 0 .. N - 1 : i # x => g[i] = f[i]
  OBVIOUS
<1> HIDE DEF g
<1>2. /\ \A k \in 0 .. N : F(k) \in Nat /\ G(k) \in Nat
      /\ F(0) = 0 /\ G(0) = 0
      /\ \A k \in 1 .. N : F(k) = F(k - 1) + f[k - 1] /\ G(k) = G(k - 1) + g[k - 1]
  BY <1>1, SpentFacts
<1> HIDE DEF F, G
<1>3. 0 \in S BY <1>2
<1>4. ASSUME NEW k \in 1 .. n, k - 1 \in S PROVE k \in S
  <2>1. k \in 1 .. N /\ k - 1 \in 0 .. N /\ k - 1 \in 0 .. N - 1 OBVIOUS
  <2>2. f[k - 1] \in Nat /\ F(k - 1) \in Nat BY <1>2, <2>1
  <2>3. G(k - 1) = IF k - 1 <= x THEN F(k - 1) ELSE F(k - 1) + t BY <1>4
  <2>4. g[k - 1] = IF k - 1 = x THEN f[k - 1] + t ELSE f[k - 1] BY <1>1, <2>1
  <2> QED BY <1>2, <2>1, <2>2, <2>3, <2>4
<1>5. 0 .. n \subseteq S
  <2>1. n \in Nat OBVIOUS
  <2> HIDE DEF S
  <2> QED BY <1>3, <1>4, <2>1, RingP!UpTo
<1>6. n \in S /\ ~(n <= x) BY <1>5
<1> QED BY <1>6 DEF F, G, g

\* When everything is a tick older and nothing is new, sums over a tick more are the same.
LEMMA SpentOlder ==
    ASSUME NEW N \in Nat, NEW f \in [0 .. N - 1 -> Nat], NEW g \in [0 .. N - 1 -> Nat],
           \A i \in 0 .. N - 1 : g[i] = IF i = 0 THEN 0 ELSE f[i - 1], NEW n \in 1 .. N
    PROVE  Duty!Spent(g, n) = Duty!Spent(f, n - 1)
<1> DEFINE F(k) == Duty!Spent(f, k)
           G(k) == Duty!Spent(g, k)
           S == {k \in 0 .. n - 1 : G(k + 1) = F(k)}
<1>1. /\ \A k \in 0 .. N : F(k) \in Nat /\ G(k) \in Nat
      /\ F(0) = 0 /\ G(0) = 0
      /\ \A k \in 1 .. N : F(k) = F(k - 1) + f[k - 1] /\ G(k) = G(k - 1) + g[k - 1]
  BY SpentFacts
<1> HIDE DEF F, G
<1>2. 0 \in S
  <2>1. 1 \in 1 .. N /\ 0 \in 0 .. N - 1 /\ 0 \in 0 .. n - 1 OBVIOUS
  <2>2. G(1) = G(1 - 1) + g[1 - 1] /\ g[0] = 0 BY <1>1, <2>1
  <2> QED BY <1>1, <2>1, <2>2
<1>3. ASSUME NEW k \in 1 .. n - 1, k - 1 \in S PROVE k \in S
  <2>1. k \in 1 .. N /\ k + 1 \in 1 .. N /\ k \in 0 .. N - 1 /\ k # 0 /\ (k + 1) - 1 = k OBVIOUS
  <2>2. G(k + 1) = G(k) + g[k] BY <1>1, <2>1
  <2>3. g[k] = f[k - 1] BY <2>1
  <2>4. F(k) = F(k - 1) + f[k - 1] BY <1>1, <2>1
  <2>5. G(k) = F(k - 1) BY <1>3
  <2> QED BY <2>2, <2>3, <2>4, <2>5
<1>4. n - 1 \in Nat OBVIOUS
<1>5. 0 .. n - 1 \subseteq S
  <2> HIDE DEF S
  <2> QED BY <1>2, <1>3, <1>4, RingP!UpTo
<1>6. n - 1 \in S BY <1>4, <1>5
<1> QED BY <1>6 DEF F, G

\* The remainder of a number not far from the range.
LEMMA Wrapped ==
    ASSUME NEW w \in Nat \ {0}, NEW x \in Int, -w <= x, x < 2 * w
    PROVE  x % w = IF x < 0 THEN x + w ELSE IF x < w THEN x ELSE x - w
<1>1. CASE x < 0
  <2>1. x = w * (-1) + (x + w) /\ x + w \in 0 .. w - 1 BY <1>1
  <2> QED BY <1>1, <2>1, RingP!Remainder
<1>2. CASE 0 <= x /\ x < w
  <2>1. x = w * 0 + x /\ x \in 0 .. w - 1 BY <1>2
  <2> QED BY <1>2, <2>1, RingP!Remainder
<1>3. CASE w <= x
  <2>1. x = w * 1 + (x - w) /\ x - w \in 0 .. w - 1 BY <1>3
  <2> QED BY <1>3, <2>1, RingP!Remainder
<1> QED BY <1>1, <1>2, <1>3

\* Multiples in their order.
LEMMA Multiples ==
    ASSUME NEW u \in Nat \ {0}, NEW a \in Int, NEW b \in Int
    PROVE  /\ a * u \in Int /\ (a + b) * u = a * u + b * u /\ u * a = a * u
           /\ a <= b => a * u <= b * u
           /\ a < b => a * u + u <= b * u
<1>1. a * u \in Int /\ b * u \in Int /\ (a + b) * u = a * u + b * u /\ u * a = a * u OBVIOUS
<1>2. (b - a) * u = b * u - a * u OBVIOUS
<1>3. \A c \in Nat : c * u >= 0 /\ (c # 0 => c * u >= u) OBVIOUS
<1>4. ASSUME a <= b PROVE a * u <= b * u
  <2>1. b - a \in Nat BY <1>4
  <2> QED BY <1>1, <1>2, <1>3, <2>1
<1>5. ASSUME a < b PROVE a * u + u <= b * u
  <2>1. b - a \in Nat /\ b - a # 0 BY <1>5
  <2> QED BY <1>1, <1>2, <1>3, <2>1
<1> QED BY <1>1, <1>4, <1>5

\* The constants.
LEMMA DutyConstants ==
    /\ dutySlots \in Nat \ {0, 1} /\ dutyUnit \in Nat \ {0} /\ dutyWrap \in Nat
    /\ Duty!Period \in Nat /\ Duty!Period = dutySlots * dutyUnit
    /\ dutyWrap > Duty!Period + dutyUnit
    /\ Duty!Period >= dutyUnit
    /\ Duty!Indices = 0 .. dutySlots - 1 /\ Duty!Ages = 0 .. Duty!Period - 1
<1>1. Duty!DutyAssumption BY ServicesAssumption DEF ServicesAssumption
<1>2. dutySlots \in Nat \ {0, 1} /\ dutyUnit \in Nat \ {0} /\ dutyWrap \in Nat
      /\ dutyWrap > Duty!Period + dutyUnit
  BY <1>1 DEF Duty!DutyAssumption
<1>3. Duty!Period \in Nat /\ Duty!Period = dutySlots * dutyUnit
  <2>1. \A a, b \in Nat : a * b \in Nat OBVIOUS
  <2> QED BY <1>2, <2>1 DEF Duty!Period
<1>4. 1 * dutyUnit = dutyUnit BY <1>2
<1>5. Duty!Period >= dutyUnit
  <2>1. 1 \in Int /\ dutySlots \in Int /\ 1 <= dutySlots BY <1>2
  <2>2. 1 * dutyUnit <= dutySlots * dutyUnit BY <1>2, <2>1, Multiples
  <2> QED BY <1>3, <1>4, <2>2
<1> QED BY <1>2, <1>3, <1>5 DEF Duty!Indices, Duty!Ages

\* The beginning of the slot of a date, and the time since a date.
Beginning(t) == t - (t % dutyUnit)
Since(t, stamp) == IF stamp <= t THEN t - stamp ELSE t + dutyWrap - stamp

\* Less than a turn of the clock went by since the slot of the stamp began.
InTurn(t, stamp) == stamp > t => t < Beginning(stamp)

\* How long ago that is.
LEMMA DiffIs ==
    ASSUME NEW t \in 0 .. dutyWrap - 1, NEW stamp \in 0 .. dutyWrap - 1, InTurn(t, stamp)
    PROVE  /\ Duty!TimeDiff(t, stamp) \in 0 .. dutyWrap - 1
           /\ stamp % dutyUnit \in 0 .. dutyUnit - 1
           /\ Duty!TimeDiff(t, stamp) - (stamp % dutyUnit) = Since(t, stamp)
           /\ Duty!TimeDiff(t, stamp) = IF stamp <= t THEN t - Beginning(stamp)
                                        ELSE t + dutyWrap - Beginning(stamp)
           /\ stamp <= t => Duty!TimeDiff(t, stamp) % dutyUnit = t % dutyUnit
<1> DEFINE q == stamp \div dutyUnit
           r == stamp % dutyUnit
           p == t \div dutyUnit
           s == t % dutyUnit
           b == Beginning(stamp)
<1>0. dutyUnit \in Nat \ {0} /\ dutyWrap \in Nat \ {0} /\ t \in Nat /\ stamp \in Nat
  BY DutyConstants
<1>1. /\ q \in Nat /\ r \in 0 .. dutyUnit - 1 /\ stamp = dutyUnit * q + r
      /\ p \in Nat /\ s \in 0 .. dutyUnit - 1 /\ t = dutyUnit * p + s
  BY <1>0, Division
<1>2. b = stamp - r BY DEF Beginning
<1>3. dutyUnit * q \in Nat /\ dutyUnit * p \in Nat /\ dutyUnit * (p - q) = dutyUnit * p - dutyUnit * q
  BY <1>0, <1>1
<1>4. b = dutyUnit * q /\ b \in 0 .. dutyWrap - 1 /\ b <= stamp
  BY <1>0, <1>1, <1>2, <1>3
<1>5. Duty!TimeDiff(t, stamp) = (t - b) % dutyWrap BY DEF Duty!TimeDiff, Beginning
<1>6. InTurn(t, stamp) <=> (stamp > t => t < b) BY DEF InTurn
<1>7. Since(t, stamp) = IF stamp <= t THEN t - stamp ELSE t + dutyWrap - stamp BY DEF Since
<1>8. (t - b) % dutyUnit = s
  <2>1. t - b = dutyUnit * (p - q) + s /\ p - q \in Int BY <1>1, <1>3, <1>4
  <2>2. t - b \in Int BY <1>4
  <2> HIDE DEF p, q, s, b
  <2> QED BY <1>0, <1>1, <2>1, <2>2, RingP!Remainder
<1> HIDE DEF q, r, p, s, b
<1>9. t - b \in Int /\ -dutyWrap <= t - b /\ t - b < 2 * dutyWrap BY <1>0, <1>4
<1>10. (t - b) % dutyWrap = IF t - b < 0 THEN t - b + dutyWrap ELSE t - b
  <2>1. t - b < dutyWrap BY <1>0, <1>4
  <2> QED BY <1>0, <1>9, <2>1, Wrapped
<1>11. stamp <= t <=> t - b >= 0 BY <1>0, <1>4, <1>6
<1>12. Duty!TimeDiff(t, stamp) = IF stamp <= t THEN t - b ELSE t + dutyWrap - b
  BY <1>0, <1>4, <1>5, <1>10, <1>11
<1>13. r = stamp % dutyUnit /\ s = t % dutyUnit /\ b = Beginning(stamp) BY DEF r, s, b
<1>14. Duty!TimeDiff(t, stamp) \in 0 .. dutyWrap - 1 BY <1>0, <1>4, <1>6, <1>12
<1>15. Duty!TimeDiff(t, stamp) - r = Since(t, stamp) BY <1>0, <1>1, <1>2, <1>7, <1>12
<1>16. stamp <= t => Duty!TimeDiff(t, stamp) % dutyUnit = s BY <1>8, <1>12
<1> QED BY <1>1, <1>12, <1>13, <1>14, <1>15, <1>16

\* A slot before another one, and after it, counted around the ring.
Behind(p, i) == (p - i) % dutySlots
Ahead(p, k) == (k + p) % dutySlots
LEMMA SlotBehind ==
    ASSUME NEW p \in 0 .. dutySlots - 1, NEW i \in 0 .. dutySlots - 1
    PROVE  /\ (p - i) % dutySlots = IF p < i THEN p - i + dutySlots ELSE p - i
           /\ (p - i) % dutySlots \in 0 .. dutySlots - 1
           /\ (p - p) % dutySlots = 0
<1>1. dutySlots \in Nat \ {0} BY DutyConstants
<1>2. p - i \in Int /\ -dutySlots <= p - i /\ p - i < dutySlots /\ p - i < 2 * dutySlots
  BY <1>1
<1>3. (p - i) % dutySlots = IF p - i < 0 THEN p - i + dutySlots ELSE p - i
  BY <1>1, <1>2, Wrapped
<1>4. p - p = 0 /\ 0 \in Int /\ -dutySlots <= 0 /\ 0 < dutySlots /\ 0 < 2 * dutySlots BY <1>1
<1>5. 0 % dutySlots = 0 BY <1>1, <1>4, Wrapped
<1> DEFINE m == (p - i) % dutySlots
<1> HIDE DEF m
<1>6. m = (IF p < i THEN p - i + dutySlots ELSE p - i) /\ m \in 0 .. dutySlots - 1
  BY <1>1, <1>2, <1>3 DEF m
<1> QED BY <1>4, <1>5, <1>6 DEF m

LEMMA SlotAhead ==
    ASSUME NEW p \in 0 .. dutySlots - 1, NEW k \in 0 .. dutySlots - 1
    PROVE  /\ Ahead(p, k) = IF p + k < dutySlots THEN p + k ELSE p + k - dutySlots
           /\ Ahead(p, k) \in 0 .. dutySlots - 1
<1>1. dutySlots \in Nat \ {0} BY DutyConstants
<1> DEFINE y == k + p
<1>2. y \in Int /\ -dutySlots <= y /\ y < 2 * dutySlots /\ ~(y < 0) /\ y = p + k BY <1>1
<1>3. y % dutySlots = Ahead(p, k) BY DEF Ahead
<1> HIDE DEF y
<1>4. y % dutySlots = IF y < dutySlots THEN y ELSE y - dutySlots BY <1>1, <1>2, Wrapped
<1> DEFINE m == Ahead(p, k)
<1>5. m = IF y < dutySlots THEN y ELSE y - dutySlots BY <1>3, <1>4
<1> HIDE DEF m
<1>6. m = (IF p + k < dutySlots THEN p + k ELSE p + k - dutySlots) /\ m \in 0 .. dutySlots - 1
  BY <1>1, <1>2, <1>5
<1> QED BY <1>6 DEF m

\* So many slots later a slot is more behind by as many, and was not passed over.
LEMMA SlotKept ==
    ASSUME NEW p \in 0 .. dutySlots - 1, NEW i \in 0 .. dutySlots - 1,
           NEW k \in 0 .. dutySlots - 1, Behind(p, i) + k < dutySlots
    PROVE  /\ Behind(Ahead(p, k), i) = Behind(p, i) + k
           /\ \A m \in 1 .. k : Ahead(p, m) # i
<1>1. dutySlots \in Nat \ {0} BY DutyConstants
<1>2. Behind(p, i) = IF p < i THEN p - i + dutySlots ELSE p - i BY SlotBehind DEF Behind
<1>3. Ahead(p, k) \in 0 .. dutySlots - 1 BY SlotAhead
<1>4. Behind(Ahead(p, k), i) =
         IF Ahead(p, k) < i THEN Ahead(p, k) - i + dutySlots ELSE Ahead(p, k) - i
  BY <1>3, SlotBehind DEF Behind
<1>5. ASSUME NEW m \in 1 .. k
      PROVE  Ahead(p, m) = IF p + m < dutySlots THEN p + m ELSE p + m - dutySlots
  <2>1. m \in 0 .. dutySlots - 1 BY <1>1
  <2> QED BY <2>1, SlotAhead
<1>6. Ahead(p, k) = IF p + k < dutySlots THEN p + k ELSE p + k - dutySlots BY SlotAhead
<1>7. Behind(Ahead(p, k), i) = Behind(p, i) + k BY <1>1, <1>2, <1>4, <1>6
<1>8. ASSUME NEW m \in 1 .. k PROVE Ahead(p, m) # i BY <1>1, <1>2, <1>5
<1> QED BY <1>7, <1>8

\* The ring of a band, and the times on air of its newest slots: the slot of the stamp,
\* and j slots before it.
DutyRing == [sums : [0 .. dutySlots - 1 -> Nat], previous : 0 .. dutySlots - 1,
             stamp : 0 .. dutyWrap - 1]
Newest(r, j) ==
    [i \in 0 .. dutySlots - 1 |-> IF (r.previous - i) % dutySlots <= j THEN r.sums[i] ELSE 0]
InNewest(r, j) == Duty!Spent(Newest(r, j), dutySlots)

\* What was sent in the last n ticks is in these slots: they are still in the ring and
\* reach that far back, and a slot less if the clock wrapped since.
Told(t, r, j, n) ==
    LET d == Duty!TimeDiff(t, r.stamp) + j * dutyUnit
    IN  /\ d < Duty!Period /\ n <= d + 1
        /\ r.stamp > t \/ n <= t + 1 \/ n + dutyUnit <= d + 1

\* Of one band: nothing was sent since the stamp, and the newest slots count at least what
\* they tell of.
BandInv(t, r, f) ==
    /\ t \in 0 .. dutyWrap - 1 /\ r \in DutyRing /\ f \in [0 .. Duty!Period - 1 -> Nat]
    /\ InTurn(t, r.stamp)
    /\ \A a \in 0 .. Duty!Period - 1 : a < Since(t, r.stamp) => f[a] = 0
    /\ \A j \in 0 .. dutySlots - 1, n \in 0 .. Duty!Period :
          Told(t, r, j, n) => Duty!Spent(f, n) <= InNewest(r, j)

\* The sums of a ring.
LEMMA RingSums ==
    ASSUME NEW r \in DutyRing, NEW j \in 0 .. dutySlots - 1
    PROVE  /\ r.sums \in [0 .. dutySlots - 1 -> Nat] /\ r.previous \in 0 .. dutySlots - 1
           /\ r.stamp \in 0 .. dutyWrap - 1
           /\ Newest(r, j) \in [0 .. dutySlots - 1 -> Nat]
           /\ InNewest(r, j) \in Nat /\ Duty!Consumed(r) \in Nat
           /\ InNewest(r, j) <= Duty!Consumed(r)
<1>1. /\ r.sums \in [0 .. dutySlots - 1 -> Nat] /\ r.previous \in 0 .. dutySlots - 1
      /\ r.stamp \in 0 .. dutyWrap - 1
  BY DEF DutyRing
<1>2. dutySlots \in Nat /\ dutySlots \in 0 .. dutySlots BY DutyConstants
<1>3. Newest(r, j) \in [0 .. dutySlots - 1 -> Nat] BY <1>1 DEF Newest
<1>4. \A i \in 0 .. dutySlots - 1 : Newest(r, j)[i] <= r.sums[i]
  <2> TAKE i \in 0 .. dutySlots - 1
  <2>1. r.sums[i] \in Nat BY <1>1
  <2>2. Newest(r, j)[i] = r.sums[i] \/ Newest(r, j)[i] = 0 BY DEF Newest
  <2> QED BY <2>1, <2>2
<1>5. InNewest(r, j) \in Nat /\ Duty!Consumed(r) \in Nat
  BY <1>1, <1>2, <1>3, SpentFacts DEF InNewest, Duty!Consumed
<1>6. InNewest(r, j) <= Duty!Consumed(r)
  BY <1>1, <1>2, <1>3, <1>4, SpentLess DEF InNewest, Duty!Consumed
<1> QED BY <1>1, <1>3, <1>5, <1>6

\* A tick makes everything that was sent older.
LEMMA BandTick ==
    ASSUME NEW t, NEW r, NEW f, BandInv(t, r, f),
           Duty!TimeDiff(t, r.stamp) < dutyWrap - dutyUnit,
           NEW g \in [0 .. Duty!Period - 1 -> Nat],
           \A a \in 0 .. Duty!Period - 1 : g[a] = IF a = 0 THEN 0 ELSE f[a - 1]
    PROVE  BandInv((t + 1) % dutyWrap, r, g)
<1> DEFINE u == (t + 1) % dutyWrap
           s == r.stamp
           D == Duty!TimeDiff(t, s)
           E == Duty!TimeDiff(u, s)
           b == Beginning(s)
           m == s % dutyUnit
           P == Duty!Period
<1>1. dutyUnit \in Nat \ {0} /\ dutyWrap \in Nat \ {0} /\ P \in Nat /\ dutyWrap > P + dutyUnit
  BY DutyConstants
<1>2. /\ t \in 0 .. dutyWrap - 1 /\ r \in DutyRing /\ f \in [0 .. P - 1 -> Nat]
      /\ InTurn(t, s) /\ s \in 0 .. dutyWrap - 1
      /\ \A a \in 0 .. P - 1 : a < Since(t, s) => f[a] = 0
  BY DEF BandInv, DutyRing
<1>3. u = IF t = dutyWrap - 1 THEN 0 ELSE t + 1
  <2> DEFINE y == t + 1
  <2>1. y \in Int /\ -dutyWrap <= y /\ y < 2 * dutyWrap /\ ~(y < 0) BY <1>1, <1>2
  <2> HIDE DEF y
  <2>2. y % dutyWrap = IF y < dutyWrap THEN y ELSE y - dutyWrap BY <1>1, <2>1, Wrapped
  <2> QED BY <1>1, <1>2, <2>2 DEF y
<1>4. u \in 0 .. dutyWrap - 1 BY <1>1, <1>2, <1>3
<1>5. /\ D \in 0 .. dutyWrap - 1 /\ m \in 0 .. dutyUnit - 1
      /\ D - m = Since(t, s)
      /\ D = IF s <= t THEN t - b ELSE t + dutyWrap - b
  BY <1>2, DiffIs
<1>6. b = s - m /\ D < dutyWrap - dutyUnit BY DEF Beginning
<1> HIDE DEF u, s, D, E, b, m, P
<1>7. b \in Int /\ b <= s /\ s \in Int /\ t \in Int BY <1>1, <1>2, <1>5, <1>6
<1>8. s > u => u < b
  <2>1. CASE t = dutyWrap - 1 BY <1>1, <1>2, <1>3, <1>5, <1>6, <1>7, <2>1
  <2>2. CASE t # dutyWrap - 1 BY <1>1, <1>2, <1>3, <1>5, <1>6, <1>7, <2>2
  <2> QED BY <2>1, <2>2
<1>9. InTurn(u, s) BY <1>8 DEF InTurn, b
<1>10. E - m = Since(u, s) /\ E = IF s <= u THEN u - b ELSE u + dutyWrap - b
  BY <1>2, <1>4, <1>9, DiffIs DEF b, m, E
<1>11. E = D + 1
  <2>1. CASE t = dutyWrap - 1 BY <1>1, <1>2, <1>3, <1>5, <1>6, <1>7, <1>8, <1>10, <2>1
  <2>2. CASE t # dutyWrap - 1 BY <1>1, <1>2, <1>3, <1>5, <1>6, <1>7, <1>8, <1>10, <2>2
  <2> QED BY <2>1, <2>2
<1>12. Since(u, s) = Since(t, s) + 1 BY <1>5, <1>10, <1>11
<1>13. ASSUME NEW a \in 0 .. P - 1, a < Since(u, s) PROVE g[a] = 0
  <2>1. CASE a = 0 BY <2>1 DEF P
  <2>2. CASE a # 0
    <3>1. a - 1 \in 0 .. P - 1 /\ a - 1 < Since(t, s) BY <1>1, <1>5, <1>12, <1>13, <2>2
    <3> QED BY <1>2, <2>2, <3>1 DEF P
  <2> QED BY <2>1, <2>2
<1>14. ASSUME NEW j \in 0 .. dutySlots - 1, NEW n \in 0 .. P, Told(u, r, j, n)
       PROVE  Duty!Spent(g, n) <= InNewest(r, j)
  <2>1. InNewest(r, j) \in Nat BY <1>2, RingSums
  <2>2. CASE n = 0
    <3>1. Duty!Spent(g, 0) = 0 BY <1>1, SpentFacts DEF P
    <3> QED BY <2>1, <2>2, <3>1
  <2>3. CASE n # 0
    <3>1. n \in 1 .. P /\ n - 1 \in 0 .. P BY <1>1, <2>3
    <3>2. Duty!Spent(g, n) = Duty!Spent(f, n - 1)
      BY <1>1, <1>2, <3>1, SpentOlder DEF P
    <3> DEFINE x == j * dutyUnit
    <3>3. x \in Int BY <1>1, DutyConstants, Multiples
    <3>4. /\ E + x < P /\ n <= E + x + 1
          /\ s > u \/ n <= u + 1 \/ n + dutyUnit <= E + x + 1
      BY <1>14 DEF Told, E, P, s, u
    <3> HIDE DEF x
    <3>5. D \in Int /\ P \in Int /\ E = D + 1 /\ n \in Int /\ t \in Int /\ dutyUnit \in Int
      BY <1>1, <1>2, <1>5, <1>11
    <3>6. D + x < P /\ n - 1 <= D + x + 1 BY <3>3, <3>4, <3>5
    <3>7. s > t \/ n - 1 <= t + 1 \/ n - 1 + dutyUnit <= D + x + 1
      <4>1. CASE t = dutyWrap - 1 BY <1>1, <3>1, <4>1
      <4>2. CASE t # dutyWrap - 1
        <5>1. u = t + 1 BY <1>3, <4>2
        <5>2. s > u => s > t BY <1>7, <5>1, <3>5
        <5> QED BY <3>3, <3>4, <3>5, <5>1, <5>2
      <4> QED BY <4>1, <4>2
    <3>8. Told(t, r, j, n - 1) BY <3>6, <3>7 DEF Told, D, P, s, x
    <3> QED BY <3>1, <3>2, <3>8 DEF BandInv, P
  <2> QED BY <2>2, <2>3
<1> QED BY <1>2, <1>4, <1>9, <1>13, <1>14 DEF BandInv, P, s, u

\* The whole slots since the one of the stamp began.
Passed(t, r) == Duty!TimeDiff(t, r.stamp) \div dutyUnit

\* The slots of a band: as many as have passed.
LEMMA SlotsPassed ==
    ASSUME NEW t \in 0 .. dutyWrap - 1, NEW r \in DutyRing, InTurn(t, r.stamp)
    PROVE  LET D == Duty!TimeDiff(t, r.stamp)
               k == Passed(t, r)
           IN /\ D \in 0 .. dutyWrap - 1 /\ k \in Nat /\ D % dutyUnit \in 0 .. dutyUnit - 1
              /\ k * dutyUnit \in Nat /\ D = k * dutyUnit + (D % dutyUnit)
              /\ D < Duty!Period <=> k < dutySlots
              /\ r.stamp <= t => D % dutyUnit = t % dutyUnit
              /\ t % dutyUnit \in 0 .. dutyUnit - 1
              /\ Since(t, r.stamp) \in Int /\ Since(t, r.stamp) > D - dutyUnit
              /\ r.stamp > t => Since(t, r.stamp) > t
<1> DEFINE D == Duty!TimeDiff(t, r.stamp)
           k == Passed(t, r)
           e == D % dutyUnit
           m == r.stamp % dutyUnit
           x == k * dutyUnit
<1>1. /\ dutyUnit \in Nat \ {0} /\ dutySlots \in Nat /\ dutyWrap \in Nat /\ t \in Nat
      /\ Duty!Period = dutySlots * dutyUnit
  BY DutyConstants
<1>2. r.stamp \in 0 .. dutyWrap - 1 BY DEF DutyRing
<1>3. /\ D \in 0 .. dutyWrap - 1 /\ m \in 0 .. dutyUnit - 1 /\ D - m = Since(t, r.stamp)
      /\ r.stamp <= t => e = t % dutyUnit
  BY <1>2, DiffIs
<1>4. k \in Nat /\ e \in 0 .. dutyUnit - 1 /\ D = dutyUnit * k + e
  <2>1. D \in Nat BY <1>1, <1>3
  <2> HIDE DEF D
  <2> QED BY <1>1, <2>1, Division DEF Passed, D
<1>5. t % dutyUnit \in 0 .. dutyUnit - 1 BY <1>1, Division
<1>6. Since(t, r.stamp) = IF r.stamp <= t THEN t - r.stamp ELSE t + dutyWrap - r.stamp
  BY DEF Since
<1> HIDE DEF D, k, e, m, x
<1>7. x \in Nat /\ dutyUnit * k = x
  <2>1. \A a, b \in Nat : a * b \in Nat /\ b * a = a * b OBVIOUS
  <2> QED BY <1>1, <1>4, <2>1 DEF x
<1>8. D < Duty!Period <=> k < dutySlots
  <2>1. k < dutySlots => x + dutyUnit <= Duty!Period BY <1>1, <1>4, Multiples DEF x
  <2>2. dutySlots <= k => Duty!Period <= x BY <1>1, <1>4, Multiples DEF x
  <2>3. Duty!Period \in Nat BY DutyConstants
  <2> QED BY <1>1, <1>4, <1>7, <2>1, <2>2, <2>3
<1>9. Since(t, r.stamp) \in Int /\ Since(t, r.stamp) > D - dutyUnit BY <1>1, <1>3
<1>10. r.stamp > t => Since(t, r.stamp) > t BY <1>1, <1>2, <1>6
<1> QED BY <1>3, <1>4, <1>5, <1>7, <1>8, <1>9, <1>10 DEF D, k, e, x

\* Nothing was sent in the ticks that slots begun after the stamp tell of.
LEMMA Quiet ==
    ASSUME NEW t, NEW r, NEW f, BandInv(t, r, f), NEW j \in 0 .. dutySlots - 1,
           j < Passed(t, r), NEW n \in 0 .. Duty!Period,
           n <= (t % dutyUnit) + j * dutyUnit + 1,
           n <= t + 1 \/ n + dutyUnit <= (t % dutyUnit) + j * dutyUnit + 1
    PROVE  Duty!Spent(f, n) = 0
<1> DEFINE D == Duty!TimeDiff(t, r.stamp)
           k == Passed(t, r)
           e == D % dutyUnit
           c == t % dutyUnit
           y == j * dutyUnit
           x == k * dutyUnit
           z == Since(t, r.stamp)
<1>1. /\ t \in 0 .. dutyWrap - 1 /\ r \in DutyRing /\ f \in [0 .. Duty!Period - 1 -> Nat]
      /\ InTurn(t, r.stamp) /\ r.stamp \in 0 .. dutyWrap - 1
      /\ \A a \in 0 .. Duty!Period - 1 : a < z => f[a] = 0
  BY DEF BandInv, DutyRing
<1>2. dutyUnit \in Nat \ {0} /\ Duty!Period \in Nat /\ dutyWrap \in Nat BY DutyConstants
<1>3. /\ D \in 0 .. dutyWrap - 1 /\ k \in Nat /\ e \in 0 .. dutyUnit - 1
      /\ x \in Nat /\ D = x + e
      /\ r.stamp <= t => e = c
      /\ c \in 0 .. dutyUnit - 1
      /\ z \in Int /\ z > D - dutyUnit
      /\ r.stamp > t => z > t
  BY <1>1, SlotsPassed
<1>4. y \in Int /\ y + dutyUnit <= x BY <1>2, <1>3, Multiples
<1>5. n <= c + y + 1 /\ (n <= t + 1 \/ n + dutyUnit <= c + y + 1) OBVIOUS
<1>6. t \in Int /\ r.stamp \in Int /\ n \in Int BY <1>1, <1>2
<1> HIDE DEF D, k, e, c, y, x, z
<1>7. n <= z
  <2>1. CASE r.stamp <= t BY <1>2, <1>3, <1>4, <1>5, <1>6, <2>1
  <2>2. CASE r.stamp > t BY <1>2, <1>3, <1>4, <1>5, <1>6, <2>2
  <2> QED BY <1>6, <2>1, <2>2
<1>8. \A i \in 0 .. n - 1 : f[i] = 0
  <2> TAKE i \in 0 .. n - 1
  <2>1. i \in 0 .. Duty!Period - 1 /\ i < z BY <1>2, <1>3, <1>6, <1>7
  <2> QED BY <1>1, <2>1
<1> QED BY <1>1, <1>2, <1>8, SpentNothing

\* The slots told of are not erased.
LEMMA ToldOfKept ==
    ASSUME NEW t \in 0 .. dutyWrap - 1, NEW r \in DutyRing, InTurn(t, r.stamp),
           NEW j \in 0 .. dutySlots - 1
    PROVE  Duty!TimeDiff(t, r.stamp) + j * dutyUnit < Duty!Period <=> j + Passed(t, r) < dutySlots
<1> DEFINE D == Duty!TimeDiff(t, r.stamp)
           k == Passed(t, r)
           e == D % dutyUnit
           x == k * dutyUnit
           y == j * dutyUnit
           z == (j + k) * dutyUnit
<1>1. dutyUnit \in Nat \ {0} /\ dutySlots \in Nat /\ Duty!Period = dutySlots * dutyUnit
      /\ Duty!Period \in Nat
  BY DutyConstants
<1>2. k \in Nat /\ e \in 0 .. dutyUnit - 1 /\ x \in Nat /\ D = x + e
  BY SlotsPassed
<1> HIDE DEF D, k, e
<1>3. j \in Nat /\ y \in Int /\ z = y + x
  <2>1. j \in Int /\ k \in Int /\ j \in Nat BY <1>1, <1>2
  <2> QED BY <1>1, <2>1, Multiples
<1>4. j + k < dutySlots => z + dutyUnit <= Duty!Period BY <1>1, <1>2, <1>3, Multiples
<1>5. dutySlots <= j + k => Duty!Period <= z BY <1>1, <1>2, <1>3, Multiples
<1> HIDE DEF x, y, z
<1>6. D + y < Duty!Period <=> j + k < dutySlots BY <1>1, <1>2, <1>3, <1>4, <1>5
<1> QED BY <1>6 DEF D, k, y

\* The slot of a date, and the ring of a date that is its stamp.
LEMMA IndexIn ==
    ASSUME NEW d \in Nat, NEW p \in 0 .. dutySlots - 1
    PROVE  /\ Duty!Index(d, p) \in 0 .. dutySlots - 1
           /\ d < Duty!Period => Duty!Index(d, p) = ((d \div dutyUnit) + p) % dutySlots
<1> DEFINE V == Duty!Period + dutyUnit
           o == d % V
           w == (o \div dutyUnit) + p
<1>1. /\ dutyUnit \in Nat \ {0} /\ Duty!Period \in Nat /\ dutySlots \in Nat \ {0}
      /\ V \in Nat \ {0}
  BY DutyConstants
<1>2. Duty!Index(d, p) = w % dutySlots BY DEF Duty!Index
<1> HIDE DEF V
<1>3. o \in Nat BY <1>1, Division
<1>4. d < V => o = d BY <1>1, Wrapped
<1>5. d < Duty!Period => d < V BY <1>1 DEF V
<1> HIDE DEF o
<1>6. w \in Int
  <2>1. o \div dutyUnit \in Nat BY <1>1, <1>3, Division
  <2> QED BY <1>1, <2>1
<1>7. d < Duty!Period => w = (d \div dutyUnit) + p BY <1>4, <1>5
<1> HIDE DEF w
<1>8. w % dutySlots \in 0 .. dutySlots - 1 BY <1>1, <1>6
<1> QED BY <1>2, <1>7, <1>8

LEMMA Fresh ==
    ASSUME NEW t \in 0 .. dutyWrap - 1
    PROVE  /\ InTurn(t, t) /\ Since(t, t) = 0 /\ ~(t > t)
           /\ Duty!TimeDiff(t, t) = t % dutyUnit
           /\ t % dutyUnit \in 0 .. dutyUnit - 1 /\ t % dutyUnit < Duty!Period
<1>1. dutyUnit \in Nat \ {0} /\ t \in Nat /\ dutyWrap \in Nat /\ Duty!Period \in Nat
      /\ Duty!Period >= dutyUnit
  BY DutyConstants
<1>2. InTurn(t, t) /\ Since(t, t) = 0 /\ ~(t > t) BY <1>1 DEF InTurn, Since
<1>3. Duty!TimeDiff(t, t) - (t % dutyUnit) = Since(t, t) /\ Duty!TimeDiff(t, t) \in Int
  BY <1>2, DiffIs
<1>4. t % dutyUnit \in 0 .. dutyUnit - 1 BY <1>1, Division
<1> QED BY <1>1, <1>2, <1>3, <1>4

\* Erasing the slots that have begun leaves those told of.
LEMMA BandUpdated ==
    ASSUME NEW t, NEW r, NEW f, BandInv(t, r, f)
    PROVE  /\ BandInv(t, Duty!Updated(r, t), f)
           /\ Duty!TimeDiff(t, Duty!Updated(r, t).stamp) < Duty!Period
<1> DEFINE D == Duty!TimeDiff(t, r.stamp)
           R == Duty!Updated(r, t)
           N == dutySlots
           P == Duty!Period
           k == Passed(t, r)
           c == t % dutyUnit
<1>1. /\ t \in 0 .. dutyWrap - 1 /\ r \in DutyRing /\ f \in [0 .. P - 1 -> Nat]
      /\ InTurn(t, r.stamp) /\ r.stamp \in 0 .. dutyWrap - 1
      /\ r.sums \in [0 .. N - 1 -> Nat] /\ r.previous \in 0 .. N - 1
      /\ r = [sums |-> r.sums, previous |-> r.previous, stamp |-> r.stamp]
  BY DEF BandInv, DutyRing
<1>2. /\ dutyUnit \in Nat \ {0} /\ P \in Nat /\ dutyWrap \in Nat /\ N \in Nat \ {0}
      /\ P >= dutyUnit /\ Duty!Indices = 0 .. N - 1
  BY DutyConstants
<1>3. /\ D \in 0 .. dutyWrap - 1 /\ k \in Nat /\ (D < P <=> k < N)
      /\ c \in 0 .. dutyUnit - 1
  BY <1>1, SlotsPassed
<1>4. CASE D >= P
  <2> DEFINE p == Duty!Index(D, r.previous)
             zero == [i \in 0 .. N - 1 |-> 0]
  <2>1. R = [sums |-> zero, previous |-> p, stamp |-> t]
    BY <1>1, <1>2, <1>4 DEF Duty!Updated, Duty!Erased
  <2>2. p \in 0 .. N - 1
    <3>1. D \in Nat BY <1>2, <1>3
    <3> HIDE DEF D
    <3> QED BY <1>1, <3>1, IndexIn
  <2> HIDE DEF p, R
  <2>3. R \in DutyRing /\ R.stamp = t /\ R.sums = zero BY <1>1, <2>1, <2>2 DEF DutyRing
  <2>4. InTurn(t, t) /\ Since(t, t) = 0 BY <1>1, Fresh
  <2>5. Duty!TimeDiff(t, t) = c BY <1>1, Fresh
  <2>6. ASSUME NEW j \in 0 .. N - 1, NEW n \in 0 .. P, Told(t, R, j, n)
        PROVE  Duty!Spent(f, n) <= InNewest(R, j)
    <3>1. j < k BY <1>2, <1>3, <1>4
    <3>2. /\ n <= c + j * dutyUnit + 1
          /\ t > t \/ n <= t + 1 \/ n + dutyUnit <= c + j * dutyUnit + 1
      BY <2>3, <2>5, <2>6 DEF Told
    <3>3. Duty!Spent(f, n) = 0
      <4>1. ~(t > t) BY <1>1, <1>2
      <4> QED BY <3>1, <3>2, <4>1, Quiet
    <3>4. InNewest(R, j) \in Nat BY <2>3, RingSums
    <3> QED BY <3>3, <3>4
  <2>7. \A a \in 0 .. P - 1 : ~(a < Since(t, t)) BY <1>2, <2>4
  <2>8. Duty!TimeDiff(t, R.stamp) < P BY <1>2, <1>3, <2>3, <2>5
  <2>9. BandInv(t, R, f) BY <1>1, <2>3, <2>4, <2>6, <2>7 DEF BandInv
  <2> QED BY <2>8, <2>9 DEF R
<1>5. CASE D < P
  <2> DEFINE B == Duty!Begun(r, D)
             kept == [i \in 0 .. N - 1 |-> IF i \in B THEN 0 ELSE r.sums[i]]
  <2>1. R = [sums |-> kept, previous |-> r.previous, stamp |-> r.stamp]
    <3>1. ~(D >= P) BY <1>2, <1>3, <1>5
    <3> QED BY <1>1, <1>2, <3>1 DEF Duty!Updated, Duty!Erased
  <2>2. B = {(r.previous + m) % N : m \in 1 .. k} BY DEF Duty!Begun, Passed
  <2> HIDE DEF B, R
  <2>3. kept \in [0 .. N - 1 -> Nat]
    <3>1. \A i \in 0 .. N - 1 : r.sums[i] \in Nat BY <1>1
    <3> QED BY <3>1
  <2>4. R \in DutyRing /\ R.stamp = r.stamp /\ R.sums = kept /\ R.previous = r.previous
    BY <1>1, <2>1, <2>3 DEF DutyRing
  <2>5. ASSUME NEW j \in 0 .. N - 1, NEW n \in 0 .. P, Told(t, R, j, n)
        PROVE  Duty!Spent(f, n) <= InNewest(R, j)
    <3>1. Told(t, r, j, n) BY <2>4, <2>5 DEF Told
    <3>2. j + k < N BY <1>1, <3>1, ToldOfKept DEF Told
    <3>3. \A i \in 0 .. N - 1 : Newest(r, j)[i] <= Newest(R, j)[i]
      <4> TAKE i \in 0 .. N - 1
      <4>1. r.sums[i] \in Nat BY <1>1
      <4>2. CASE (r.previous - i) % N <= j
        <5>1. k \in 0 .. N - 1 BY <1>2, <1>3, <1>5
        <5> DEFINE o == Behind(r.previous, i)
        <5>2. o \in 0 .. N - 1 /\ o <= j BY <1>1, <4>2, SlotBehind DEF Behind
        <5> HIDE DEF o, k
        <5>3. o + k < N BY <1>2, <3>2, <5>1, <5>2
        <5>4. \A m \in 1 .. k : Ahead(r.previous, m) # i
          BY <1>1, <5>1, <5>3, SlotKept DEF o
        <5>5. \A m \in 1 .. k : Ahead(r.previous, m) = (r.previous + m) % N
          BY <1>1, <1>2, <5>1 DEF Ahead
        <5>6. i \notin B BY <2>2, <5>4, <5>5
        <5>7. R.sums[i] = r.sums[i] BY <2>4, <5>6
        <5> QED BY <2>4, <4>1, <5>7 DEF Newest
      <4>3. CASE ~((r.previous - i) % N <= j) BY <2>4, <4>3 DEF Newest
      <4> QED BY <4>2, <4>3
    <3>4. InNewest(r, j) <= InNewest(R, j)
      <4>1. Newest(r, j) \in [0 .. N - 1 -> Nat] BY <1>1, RingSums
      <4>2. Newest(R, j) \in [0 .. N - 1 -> Nat] BY <2>4, RingSums
      <4>3. N \in Nat /\ N \in 0 .. N BY <1>2
      <4> QED BY <3>3, <4>1, <4>2, <4>3, SpentLess DEF InNewest
    <3>5. Duty!Spent(f, n) <= InNewest(r, j) BY <3>1 DEF BandInv
    <3>6. InNewest(r, j) \in Nat BY <1>1, RingSums
    <3>7. InNewest(R, j) \in Nat BY <2>4, RingSums
    <3>8. Duty!Spent(f, n) \in Nat BY <1>1, <1>2, SpentFacts
    <3> QED BY <3>4, <3>5, <3>6, <3>7, <3>8
  <2>6. BandInv(t, R, f) BY <2>4, <2>5 DEF BandInv
  <2>7. Duty!TimeDiff(t, R.stamp) < P BY <1>5, <2>4
  <2> QED BY <2>6, <2>7 DEF R
<1> QED BY <1>2, <1>3, <1>4, <1>5

\* What is spent apart from one entry.
LEMMA SpentBeside ==
    ASSUME NEW N \in Nat, NEW f \in [0 .. N - 1 -> Nat], NEW g \in [0 .. N - 1 -> Nat],
           NEW x \in 0 .. N - 1, NEW t \in Nat,
           \A i \in 0 .. N - 1 : f[i] + (IF i = x THEN t ELSE 0) <= g[i]
    PROVE  Duty!Spent(f, N) + t <= Duty!Spent(g, N)
<1> DEFINE h == [f EXCEPT ![x] = @ + t]
<1>1. N \in x + 1 .. N /\ N \in 0 .. N OBVIOUS
<1>2. \A i \in 0 .. N - 1 : f[i] \in Nat OBVIOUS
<1>3. h \in [0 .. N - 1 -> Nat] BY <1>2
<1>4. \A i \in 0 .. N - 1 : h[i] <= g[i]
  <2> TAKE i \in 0 .. N - 1
  <2>1. h[i] = IF i = x THEN f[i] + t ELSE f[i] OBVIOUS
  <2>2. f[i] + (IF i = x THEN t ELSE 0) <= g[i] /\ f[i] \in Nat /\ g[i] \in Nat OBVIOUS
  <2> HIDE DEF h
  <2> QED BY <2>1, <2>2
<1>5. Duty!Spent(h, N) = Duty!Spent(f, N) + t BY <1>1, SpentAdded
<1> HIDE DEF h
<1>6. Duty!Spent(h, N) <= Duty!Spent(g, N)
  <2>1. \A i \in 0 .. N - 1 : h[i] <= g[i] BY <1>4
  <2> QED BY <1>1, <1>3, <2>1, SpentLess
<1> QED BY <1>5, <1>6

\* A frame that was sent is counted in the newest slot.
LEMMA BandAdded ==
    ASSUME NEW t, NEW r, NEW f, BandInv(t, r, f), NEW toa \in Nat,
           NEW g \in [0 .. Duty!Period - 1 -> Nat],
           \A n \in 1 .. Duty!Period : Duty!Spent(g, n) = Duty!Spent(f, n) + toa
    PROVE  BandInv(t, Duty!Added(r, toa, t), g)
<1> DEFINE D == Duty!TimeDiff(t, r.stamp)
           A == Duty!Added(r, toa, t)
           N == dutySlots
           P == Duty!Period
           k == Passed(t, r)
           c == t % dutyUnit
           e == D % dutyUnit
           x == k * dutyUnit
           p == Duty!Index(D, r.previous)
           B == Duty!Begun(r, D)
           kept == [i \in 0 .. N - 1 |-> IF D >= P \/ i \in B THEN 0 ELSE r.sums[i]]
<1>1. /\ t \in 0 .. dutyWrap - 1 /\ r \in DutyRing /\ f \in [0 .. P - 1 -> Nat]
      /\ InTurn(t, r.stamp) /\ r.stamp \in 0 .. dutyWrap - 1
      /\ r.sums \in [0 .. N - 1 -> Nat] /\ r.previous \in 0 .. N - 1
      /\ \A a \in 0 .. P - 1 : a < Since(t, r.stamp) => f[a] = 0
  BY DEF BandInv, DutyRing
<1>2. /\ dutyUnit \in Nat \ {0} /\ P \in Nat /\ dutyWrap \in Nat /\ N \in Nat \ {0}
      /\ P >= dutyUnit /\ Duty!Indices = 0 .. N - 1
  BY DutyConstants
<1>3. /\ D \in 0 .. dutyWrap - 1 /\ k \in Nat /\ (D < P <=> k < N)
      /\ c \in 0 .. dutyUnit - 1 /\ e \in 0 .. dutyUnit - 1
      /\ x \in Nat /\ D = x + e
      /\ r.stamp <= t => e = c
      /\ r.stamp > t => Since(t, r.stamp) > t
      /\ Since(t, r.stamp) \in Int
  BY <1>1, SlotsPassed
<1>4. p \in 0 .. N - 1 /\ (D < P => p = (k + r.previous) % N)
  <2>1. D \in Nat BY <1>2, <1>3
  <2> HIDE DEF D
  <2> QED BY <1>1, <2>1, IndexIn DEF Passed, D
<1>5. \A i \in 0 .. N - 1 : r.sums[i] \in Nat BY <1>1
<1>6. kept \in [0 .. N - 1 -> Nat] BY <1>5
<1>7. A = [sums |-> [kept EXCEPT ![p] = @ + toa], previous |-> p, stamp |-> t]
  <2>1. D >= P => Duty!Erased(r, Duty!Indices).sums = kept BY <1>1, <1>2 DEF Duty!Erased
  <2>2. ~(D >= P) => Duty!Erased(r, B).sums = kept BY <1>1, <1>2 DEF Duty!Erased
  <2> HIDE DEF kept, p
  <2> QED BY <2>1, <2>2 DEF Duty!Added, p, D, B
<1>8. B = {(r.previous + m) % N : m \in 1 .. k} BY DEF Duty!Begun, Passed
<1> HIDE DEF p, B, A, D, k, c, e, x
<1>9. \A i \in 0 .. N - 1 : i \notin B /\ D < P => kept[i] = r.sums[i]
  <2>1. D < P => ~(D >= P) BY <1>2, <1>3
  <2> QED BY <2>1
<1> HIDE DEF kept
<1>10. A \in DutyRing /\ A.stamp = t /\ A.previous = p
  <2>1. [kept EXCEPT ![p] = @ + toa] \in [0 .. N - 1 -> Nat]
    <3>1. \A i \in 0 .. N - 1 : kept[i] \in Nat BY <1>6
    <3> QED BY <1>4, <1>6, <3>1
  <2> QED BY <1>1, <1>4, <1>7, <2>1 DEF DutyRing
<1>11. \A i \in 0 .. N - 1 : A.sums[i] = kept[i] + (IF i = p THEN toa ELSE 0) /\ kept[i] \in Nat
  <2> TAKE i \in 0 .. N - 1
  <2>1. kept[i] \in Nat BY <1>6
  <2>2. A.sums[i] = IF i = p THEN kept[i] + toa ELSE kept[i] BY <1>6, <1>7
  <2> QED BY <2>1, <2>2
<1>12. g \in [0 .. P - 1 -> Nat] /\ \A n \in 1 .. P : Duty!Spent(g, n) = Duty!Spent(f, n) + toa
  OBVIOUS
<1>13. InTurn(t, A.stamp) /\ Since(t, A.stamp) = 0 /\ ~(A.stamp > t) /\ Duty!TimeDiff(t, A.stamp) = c
  BY <1>1, <1>10, Fresh DEF c
<1>14. ASSUME NEW j \in 0 .. N - 1, NEW n \in 0 .. P, Told(t, A, j, n)
       PROVE  Duty!Spent(g, n) <= InNewest(A, j)
  <2>1. Newest(A, j) \in [0 .. N - 1 -> Nat] /\ InNewest(A, j) \in Nat BY <1>10, RingSums
  <2>2. CASE n = 0
    <3>1. Duty!Spent(g, 0) = 0 BY <1>2, <1>12, SpentFacts
    <3> QED BY <2>1, <2>2, <3>1
  <2>3. CASE n # 0
    <3> DEFINE y == j * dutyUnit
    <3>1. y \in Int /\ j \in Int BY <1>2, Multiples
    <3>2. n <= c + y + 1 /\ (n <= t + 1 \/ n + dutyUnit <= c + y + 1)
      BY <1>13, <1>14 DEF Told
    <3> HIDE DEF y
    <3>3. Duty!Spent(g, n) = Duty!Spent(f, n) + toa
      <4>1. n \in 1 .. P BY <1>2, <2>3
      <4> QED BY <1>12, <4>1
    <3>4. Duty!Spent(f, n) \in Nat BY <1>1, <1>2, SpentFacts
    <3>5. Newest(A, j)[p] = kept[p] + toa /\ kept[p] \in Nat
      <4>1. 0 \in 0 .. N - 1 BY <1>2
      <4>2. (p - p) % N = 0 BY <1>4, <4>1, SlotBehind
      <4>3. 0 <= j BY <1>2
      <4>4. Newest(A, j)[p] = A.sums[p] BY <1>4, <1>10, <4>2, <4>3 DEF Newest
      <4> QED BY <1>4, <1>11, <4>4
    <3>6. ASSUME NEW h \in [0 .. N - 1 -> Nat],
                 Duty!Spent(f, n) <= Duty!Spent(h, N),
                 \A i \in 0 .. N - 1 : h[i] # 0 => h[i] = kept[i] /\ (p - i) % N <= j
          PROVE  Duty!Spent(g, n) <= InNewest(A, j)
      <4>1. ASSUME NEW i \in 0 .. N - 1
            PROVE  h[i] + (IF i = p THEN toa ELSE 0) <= Newest(A, j)[i]
        <5>1. h[i] \in Nat /\ Newest(A, j)[i] \in Nat /\ kept[i] \in Nat BY <1>11, <2>1
        <5>2. CASE h[i] = 0 BY <3>5, <5>1, <5>2
        <5>3. CASE h[i] # 0
          <6>1. Newest(A, j)[i] = A.sums[i] BY <1>10, <3>6, <5>3 DEF Newest
          <6> QED BY <1>11, <3>6, <5>1, <5>3, <6>1
        <5> QED BY <5>2, <5>3
      <4> DEFINE w == Newest(A, j)
      <4>2. w \in [0 .. N - 1 -> Nat] BY <2>1
      <4>3. \A i \in 0 .. N - 1 : h[i] + (IF i = p THEN toa ELSE 0) <= w[i] BY <4>1
      <4> HIDE DEF w
      <4>4. Duty!Spent(h, N) + toa <= Duty!Spent(w, N)
        BY <1>2, <1>4, <4>2, <4>3, SpentBeside
      <4>5. Duty!Spent(w, N) = InNewest(A, j) BY DEF w, InNewest
      <4>6. Duty!Spent(h, N) \in Nat
        <5>1. N \in 0 .. N /\ N \in Nat BY <1>2
        <5> QED BY <5>1, SpentFacts
      <4> QED BY <2>1, <3>3, <3>4, <3>6, <4>4, <4>5, <4>6
    <3>7. CASE j < k
      <4> DEFINE h == [i \in 0 .. N - 1 |-> 0]
      <4>1. Duty!Spent(f, n) = 0
        <5>1. /\ n <= c + j * dutyUnit + 1
              /\ n <= t + 1 \/ n + dutyUnit <= c + j * dutyUnit + 1
          BY <3>2 DEF y
        <5> QED BY <3>7, <5>1, Quiet DEF c, k
      <4>2. h \in [0 .. N - 1 -> Nat] /\ \A i \in 0 .. N - 1 : h[i] = 0 OBVIOUS
      <4> HIDE DEF h
      <4>3. Duty!Spent(h, N) \in Nat
        <5>1. N \in 0 .. N /\ N \in Nat BY <1>2
        <5> QED BY <4>2, <5>1, SpentFacts
      <4>4. Duty!Spent(f, n) <= Duty!Spent(h, N) BY <4>1, <4>3
      <4> QED BY <3>6, <4>2, <4>4
    <3>8. CASE k <= j
      <4> DEFINE i == j - k
                 h == Newest(r, i)
                 z == i * dutyUnit
      <4>1. k \in 0 .. N - 1 /\ i \in 0 .. N - 1 /\ D < P /\ i + k = j
        BY <1>2, <1>3, <3>8
      <4> HIDE DEF i
      <4>2. h \in [0 .. N - 1 -> Nat] BY <1>1, <4>1, RingSums
      <4>3. x \in Nat /\ z \in Int /\ z + x = y /\ D = x + e
        <5>1. i \in Int /\ k \in Int BY <4>1
        <5>2. (i + k) * dutyUnit = i * dutyUnit + k * dutyUnit /\ i * dutyUnit \in Int
          BY <1>2, <5>1, Multiples
        <5> QED BY <1>3, <4>1, <5>2 DEF x, y
      <4>4. InNewest(r, i) = Duty!Spent(h, N) /\ InNewest(r, i) \in Nat
        BY <1>1, <4>1, RingSums DEF InNewest
      <4>5. ASSUME NEW q \in 0 .. N - 1, h[q] # 0
            PROVE  h[q] = kept[q] /\ (p - q) % N <= j
        <5>1. h[q] = r.sums[q] /\ (r.previous - q) % N <= i BY <4>5 DEF Newest
        <5>2. (r.previous - q) % N \in 0 .. N - 1 BY <1>1, <4>1, SlotBehind
        <5>3. ((r.previous - q) % N) + k < N /\ ((r.previous - q) % N) + k <= j
          <6> DEFINE o == (r.previous - q) % N
          <6>1. o \in Int /\ o <= i BY <5>1, <5>2
          <6> HIDE DEF o
          <6>2. o + k < N /\ o + k <= j BY <1>2, <1>3, <4>1, <6>1
          <6> QED BY <6>2 DEF o
        <5>4. /\ (((k + r.previous) % N) - q) % N = ((r.previous - q) % N) + k
              /\ \A m \in 1 .. k : (r.previous + m) % N # q
          <6>1. Behind(r.previous, q) + k < N BY <5>3 DEF Behind
          <6>2. /\ Behind(Ahead(r.previous, k), q) = Behind(r.previous, q) + k
                /\ \A m \in 1 .. k : Ahead(r.previous, m) # q
            BY <1>1, <4>1, <6>1, SlotKept
          <6>3. \A m \in 1 .. k : Ahead(r.previous, m) = (r.previous + m) % N
            BY <1>1, <1>2 DEF Ahead
          <6> QED BY <6>2, <6>3 DEF Behind, Ahead
        <5>5. (p - q) % N <= j BY <1>4, <4>1, <5>3, <5>4
        <5>6. kept[q] = r.sums[q] BY <1>8, <1>9, <4>1, <5>4
        <5> QED BY <5>1, <5>5, <5>6
      <4>6. Duty!Spent(f, n) <= InNewest(r, i)
        <5>1. CASE r.stamp > t /\ n <= t + 1
          <6>1. \A a \in 0 .. n - 1 : f[a] = 0
            <7> TAKE a \in 0 .. n - 1
            <7>1. a \in 0 .. P - 1 /\ a < Since(t, r.stamp) BY <1>1, <1>2, <1>3, <5>1
            <7> QED BY <1>1, <7>1
          <6>2. Duty!Spent(f, n) = 0 BY <1>1, <1>2, <6>1, SpentNothing
          <6> QED BY <4>4, <6>2
        <5>2. CASE ~(r.stamp > t /\ n <= t + 1)
          <6>1. D + z < P
            <7>1. D + i * dutyUnit < P <=> i + k < N BY <1>1, <4>1, ToldOfKept DEF D, k
            <7>2. i + k < N BY <1>2, <4>1
            <7> QED BY <7>1, <7>2
          <6> HIDE DEF z
          <6> DEFINE d == D + z
          <6>2. d = y + e /\ t \in Int /\ n \in Int /\ r.stamp \in Int /\ d \in Int
            BY <1>1, <1>2, <1>3, <3>1, <4>3
          <6>3. n <= d + 1 /\ (r.stamp > t \/ n <= t + 1 \/ n + dutyUnit <= d + 1)
            <7> HIDE DEF d
            <7>1. CASE r.stamp > t BY <1>2, <1>3, <3>1, <3>2, <5>2, <6>2, <7>1
            <7>2. CASE ~(r.stamp > t) BY <1>2, <1>3, <3>1, <3>2, <5>2, <6>2, <7>2
            <7> QED BY <7>1, <7>2
          <6>4. Told(t, r, i, n) BY <6>1, <6>3 DEF Told, D, z
          <6> QED BY <4>1, <6>4 DEF BandInv
        <5> QED BY <5>1, <5>2
      <4> HIDE DEF h
      <4>7. Duty!Spent(f, n) <= Duty!Spent(h, N) BY <4>4, <4>6
      <4>8. \A q \in 0 .. N - 1 : h[q] # 0 => h[q] = kept[q] /\ (p - q) % N <= j BY <4>5
      <4> QED BY <3>6, <4>2, <4>7, <4>8
    <3>9. j < k \/ k <= j BY <1>3, <3>1
    <3> QED BY <3>7, <3>8, <3>9
  <2> QED BY <2>2, <2>3
<1>15. \A a \in 0 .. P - 1 : ~(a < Since(t, A.stamp)) BY <1>2, <1>13
<1>16. BandInv(t, A, g) BY <1>1, <1>10, <1>12, <1>13, <1>14, <1>15 DEF BandInv
<1> QED BY <1>16 DEF A

LEMMA BandSent ==
    ASSUME NEW t, NEW r, NEW f, BandInv(t, r, f), NEW toa \in Nat
    PROVE  BandInv(t, Duty!Added(r, toa, t), [f EXCEPT ![0] = @ + toa])
<1> DEFINE N == Duty!Period
<1>1. N \in Nat \ {0} /\ f \in [0 .. N - 1 -> Nat] BY DutyConstants DEF BandInv
<1> HIDE DEF N
<1>2. PICK x \in 0 .. N - 1 : x = 0 BY <1>1
<1> DEFINE g == [f EXCEPT ![x] = @ + toa]
<1>3. g \in [0 .. N - 1 -> Nat]
  <2>1. \A i \in 0 .. N - 1 : f[i] \in Nat BY <1>1
  <2> QED BY <1>1, <2>1
<1>4. \A n \in x + 1 .. N : Duty!Spent(g, n) = Duty!Spent(f, n) + toa BY <1>1, SpentAdded
<1>5. \A n \in 1 .. N : Duty!Spent(g, n) = Duty!Spent(f, n) + toa
  <2>1. x + 1 = 1 BY <1>2
  <2> HIDE DEF g
  <2> QED BY <1>4, <2>1
<1>6. g = [f EXCEPT ![0] = @ + toa] BY <1>2
<1> HIDE DEF g
<1>7. BandInv(t, Duty!Added(r, toa, t), g) BY <1>3, <1>5, BandAdded DEF N
<1> QED BY <1>6, <1>7

\* The windows remembered are told of by the newest slots up to the one that begins last.
LEMMA BandWindow ==
    ASSUME NEW t, NEW r, NEW f, BandInv(t, r, f), Duty!TimeDiff(t, r.stamp) < Duty!Period,
           NEW n \in 0 .. Duty!Period - dutyUnit,
           n <= t + 1 \/ n <= Duty!Period - 2 * dutyUnit
    PROVE  Duty!Spent(f, n) <= Duty!Consumed(r)
<1> DEFINE D == Duty!TimeDiff(t, r.stamp)
           N == dutySlots
           P == Duty!Period
           k == Passed(t, r)
           e == D % dutyUnit
           x == k * dutyUnit
           j == N - 1 - k
           y == j * dutyUnit
<1>1. /\ t \in 0 .. dutyWrap - 1 /\ r \in DutyRing /\ f \in [0 .. P - 1 -> Nat]
      /\ InTurn(t, r.stamp)
  BY DEF BandInv
<1>2. dutyUnit \in Nat \ {0} /\ P \in Nat /\ N \in Nat \ {0} /\ P = N * dutyUnit /\ P >= dutyUnit
      /\ dutyWrap \in Nat
  BY DutyConstants
<1>3. /\ D \in 0 .. dutyWrap - 1 /\ k \in Nat /\ (D < P <=> k < N)
      /\ e \in 0 .. dutyUnit - 1 /\ x \in Nat /\ D = x + e
  BY <1>1, SlotsPassed
<1>4. D < P OBVIOUS
<1> HIDE DEF D, k, e, x
<1>5. k \in 0 .. N - 1 /\ j \in 0 .. N - 1 /\ j + k + 1 = N BY <1>2, <1>3, <1>4
<1>6. x + y + dutyUnit = P /\ y \in Int
  <2>1. j \in Int /\ k \in Int /\ 1 \in Int /\ j + k \in Int BY <1>5
  <2>2. /\ (j + k + 1) * dutyUnit = (j + k) * dutyUnit + 1 * dutyUnit
        /\ (j + k) * dutyUnit = j * dutyUnit + k * dutyUnit /\ y \in Int
    BY <1>2, <2>1, Multiples
  <2>3. (j + k + 1) * dutyUnit = P BY <1>2, <1>5
  <2>4. 1 * dutyUnit = dutyUnit BY <1>2
  <2> HIDE DEF j, P
  <2> QED BY <1>2, <1>3, <2>2, <2>3, <2>4 DEF x
<1> HIDE DEF j, y, P
<1>7. D + y < P /\ n \in 0 .. P /\ n <= D + y + 1
  BY <1>2, <1>3, <1>6 DEF P
<1>8. n <= t + 1 \/ n + dutyUnit <= D + y + 1
  <2>1. n <= t + 1 \/ n <= P - 2 * dutyUnit BY DEF P
  <2> QED BY <1>2, <1>3, <1>6, <1>7, <2>1
<1>9. Told(t, r, j, n) BY <1>7, <1>8 DEF Told, D, y, P
<1>10. Duty!Spent(f, n) <= InNewest(r, j) BY <1>5, <1>7, <1>9 DEF BandInv, P
<1>11. InNewest(r, j) \in Nat /\ Duty!Consumed(r) \in Nat /\ InNewest(r, j) <= Duty!Consumed(r)
  BY <1>1, <1>5, RingSums
<1>12. Duty!Spent(f, n) \in Nat BY <1>1, <1>2, <1>7, SpentFacts
<1> QED BY <1>10, <1>11, <1>12

\* The inductive invariant of the duty cycle.
DutyInv ==
    /\ dutyNow \in 0 .. dutyWrap - 1
    /\ dutyRing \in [dutyBands -> DutyRing]
    /\ dutySent \in [dutyBands -> [0 .. Duty!Period - 1 -> Nat]]
    /\ dutyFrame \subseteq [band : dutyBands, toa : dutyToas, late : BOOLEAN]
    /\ \A b \in dutyBands : BandInv(dutyNow, dutyRing[b], dutySent[b])

LEMMA InitDuty == Duty!Init => DutyInv
<1> SUFFICES ASSUME Duty!Init PROVE DutyInv OBVIOUS
<1> DEFINE r == [sums |-> [i \in Duty!Indices |-> 0], previous |-> 0, stamp |-> 0]
           f == [a \in Duty!Ages |-> 0]
           P == Duty!Period
<1>1. /\ dutyNow = 0 /\ dutyFrame = {} /\ dutyRing = [b \in dutyBands |-> r]
      /\ dutySent = [b \in dutyBands |-> f]
  BY DEF Duty!Init
<1>2. /\ dutyUnit \in Nat \ {0} /\ P \in Nat /\ dutySlots \in Nat \ {0} /\ dutyWrap \in Nat \ {0}
      /\ Duty!Indices = 0 .. dutySlots - 1 /\ Duty!Ages = 0 .. P - 1
  BY DutyConstants
<1>3. 0 \in 0 .. dutyWrap - 1 /\ 0 \in 0 .. dutySlots - 1 BY <1>2
<1>4. r \in DutyRing /\ f \in [0 .. P - 1 -> Nat] /\ r.stamp = 0 BY <1>2, <1>3 DEF DutyRing
<1>5. InTurn(0, 0) /\ Since(0, 0) = 0 BY <1>3, Fresh
<1>6. \A a \in 0 .. P - 1 : f[a] = 0 BY <1>2
<1> HIDE DEF r, f
<1>7. ASSUME NEW j \in 0 .. dutySlots - 1, NEW n \in 0 .. P
      PROVE  Duty!Spent(f, n) <= InNewest(r, j)
  <2>1. \A i \in 0 .. n - 1 : f[i] = 0 BY <1>2, <1>6
  <2>2. Duty!Spent(f, n) = 0 BY <1>2, <1>4, <2>1, SpentNothing
  <2>3. InNewest(r, j) \in Nat BY <1>4, RingSums
  <2> QED BY <2>2, <2>3
<1>8. BandInv(0, r, f) BY <1>3, <1>4, <1>5, <1>6, <1>7 DEF BandInv
<1> QED BY <1>1, <1>3, <1>4, <1>8 DEF DutyInv

LEMMA NextDuty == DutyInv /\ (Duty!Next \/ UNCHANGED dutyVars) => DutyInv'
<1> SUFFICES ASSUME DutyInv, Duty!Next \/ UNCHANGED dutyVars PROVE DutyInv' OBVIOUS
<1> DEFINE P == Duty!Period
<1>1. /\ dutyNow \in 0 .. dutyWrap - 1
      /\ dutyRing \in [dutyBands -> DutyRing]
      /\ dutySent \in [dutyBands -> [0 .. P - 1 -> Nat]]
      /\ dutyFrame \subseteq [band : dutyBands, toa : dutyToas, late : BOOLEAN]
      /\ \A b \in dutyBands : BandInv(dutyNow, dutyRing[b], dutySent[b])
  BY DEF DutyInv
<1>2. dutyToas \subseteq Nat
  <2>1. Duty!DutyAssumption BY ServicesAssumption DEF ServicesAssumption
  <2> QED BY <2>1 DEF Duty!DutyAssumption
<1>3. CASE UNCHANGED dutyVars BY <1>3, <1>1 DEF dutyVars, DutyInv
<1>4. CASE Duty!Ask
  <2>1. /\ dutyRing' = [b \in dutyBands |-> Duty!Updated(dutyRing[b], dutyNow)]
        /\ dutyNow' = dutyNow /\ dutySent' = dutySent
    BY <1>4 DEF Duty!Ask
  <2>2. \A b \in dutyBands :
           BandInv(dutyNow, Duty!Updated(dutyRing[b], dutyNow), dutySent[b])
    BY <1>1, BandUpdated
  <2>3. \A b \in dutyBands : Duty!Updated(dutyRing[b], dutyNow) \in DutyRing
    BY <2>2 DEF BandInv
  <2>4. dutyFrame' \subseteq [band : dutyBands, toa : dutyToas, late : BOOLEAN]
    <3>1. dutyFrame' = {} \/ \E b \in dutyBands, t \in dutyToas :
                                 dutyFrame' = {[band |-> b, toa |-> t, late |-> FALSE]}
      BY <1>4 DEF Duty!Ask
    <3>2. ASSUME NEW b \in dutyBands, NEW t \in dutyToas
          PROVE  [band |-> b, toa |-> t, late |-> FALSE]
                    \in [band : dutyBands, toa : dutyToas, late : BOOLEAN]
      OBVIOUS
    <3> DEFINE T == [band : dutyBands, toa : dutyToas, late : BOOLEAN]
    <3>3. ASSUME NEW b \in dutyBands, NEW t \in dutyToas,
                 dutyFrame' = {[band |-> b, toa |-> t, late |-> FALSE]}
          PROVE  dutyFrame' \subseteq T
      <4> DEFINE x == [band |-> b, toa |-> t, late |-> FALSE]
      <4>1. x \in T /\ dutyFrame' = {x} BY <3>2, <3>3
      <4> HIDE DEF x, T
      <4> QED BY <4>1
    <3>4. dutyFrame' = {} => dutyFrame' \subseteq T OBVIOUS
    <3> HIDE DEF T
    <3>5. dutyFrame' \subseteq T BY <3>1, <3>3, <3>4
    <3> QED BY <3>5 DEF T
  <2>5. dutyRing' \in [dutyBands -> DutyRing] BY <2>1, <2>3
  <2>6. \A b \in dutyBands : BandInv(dutyNow', dutyRing'[b], dutySent'[b]) BY <2>1, <2>2
  <2> QED BY <1>1, <2>1, <2>4, <2>5, <2>6 DEF DutyInv
<1>5. CASE Duty!Sent
  <2>1. dutyNow' = dutyNow /\ dutyFrame' = {} BY <1>5 DEF Duty!Sent
  <2>2. PICK f \in dutyFrame :
           IF dutyEnabled = "FULL" THEN dutyRing' = dutyRing /\ dutySent' = dutySent
           ELSE /\ dutyRing' = [dutyRing EXCEPT ![f.band] = Duty!Added(@, f.toa, dutyNow)]
                /\ dutySent' = [dutySent EXCEPT ![f.band][0] = @ + f.toa]
    BY <1>5 DEF Duty!Sent
  <2> DEFINE b == f.band
             r == Duty!Added(dutyRing[b], f.toa, dutyNow)
             s == [dutySent[b] EXCEPT ![0] = @ + f.toa]
  <2>3. b \in dutyBands /\ f.toa \in Nat BY <1>1, <1>2
  <2>4. BandInv(dutyNow, r, s) BY <1>1, <2>3, BandSent
  <2>5. r \in DutyRing /\ s \in [0 .. P - 1 -> Nat] BY <2>4 DEF BandInv
  <2>6. CASE dutyEnabled = "FULL" BY <1>1, <2>1, <2>2, <2>6 DEF DutyInv
  <2>7. CASE dutyEnabled # "FULL"
    <3>1. dutyRing' = [dutyRing EXCEPT ![b] = r] /\ dutySent' = [dutySent EXCEPT ![b] = s]
      BY <2>2, <2>7
    <3> HIDE DEF b, r, s
    <3>2. /\ dutyRing' \in [dutyBands -> DutyRing]
          /\ dutySent' \in [dutyBands -> [0 .. P - 1 -> Nat]]
      BY <1>1, <2>5, <3>1
    <3>3. \A c \in dutyBands : BandInv(dutyNow', dutyRing'[c], dutySent'[c])
      <4> TAKE c \in dutyBands
      <4>1. CASE c = b
        <5>1. dutyRing'[c] = r /\ dutySent'[c] = s BY <1>1, <2>3, <3>1, <4>1
        <5> QED BY <2>1, <2>4, <5>1
      <4>2. CASE c # b
        <5>1. dutyRing'[c] = dutyRing[c] /\ dutySent'[c] = dutySent[c]
          BY <1>1, <3>1, <4>2
        <5> QED BY <1>1, <2>1, <5>1
      <4> QED BY <4>1, <4>2
    <3> QED BY <1>1, <2>1, <3>2, <3>3 DEF DutyInv
  <2> QED BY <2>6, <2>7
<1>6. CASE Duty!EnableSet
  BY <1>1, <1>6 DEF Duty!EnableSet, DutyInv
<1>7. CASE Duty!Tick
  <2> DEFINE g(b) == [a \in Duty!Ages |-> IF a = 0 THEN 0 ELSE dutySent[b][a - 1]]
  <2>1. /\ \A b \in dutyBands :
              Duty!TimeDiff(dutyNow, dutyRing[b].stamp) < dutyWrap - dutyUnit
        /\ dutyFrame' = {[f EXCEPT !.late = TRUE] : f \in dutyFrame}
        /\ dutyNow' = (dutyNow + 1) % dutyWrap
        /\ dutySent' = [b \in dutyBands |-> g(b)]
        /\ dutyRing' = dutyRing
    BY <1>7 DEF Duty!Tick
  <2>2. Duty!Ages = 0 .. P - 1 /\ P \in Nat BY DutyConstants
  <2>3. ASSUME NEW b \in dutyBands
        PROVE  /\ g(b) \in [0 .. P - 1 -> Nat]
               /\ BandInv((dutyNow + 1) % dutyWrap, dutyRing[b], g(b))
    <3>1. dutySent[b] \in [0 .. P - 1 -> Nat] BY <1>1
    <3>2. \A a \in 0 .. P - 1 : a # 0 => dutySent[b][a - 1] \in Nat
      <4> TAKE a \in 0 .. P - 1
      <4>1. a # 0 => a - 1 \in 0 .. P - 1 BY <2>2
      <4> QED BY <3>1, <4>1
    <3>3. g(b) \in [0 .. P - 1 -> Nat] BY <2>2, <3>2
    <3>4. \A a \in 0 .. P - 1 : g(b)[a] = IF a = 0 THEN 0 ELSE dutySent[b][a - 1]
      BY <2>2
    <3> HIDE DEF g
    <3>5. BandInv(dutyNow, dutyRing[b], dutySent[b]) BY <1>1
    <3> QED BY <2>1, <3>3, <3>4, <3>5, BandTick
  <2>4. (dutyNow + 1) % dutyWrap \in 0 .. dutyWrap - 1
    <3> DEFINE t == dutyNow + 1
    <3>1. t \in Nat /\ dutyWrap \in Nat \ {0} BY <1>1, DutyConstants
    <3> HIDE DEF t
    <3>2. t % dutyWrap \in 0 .. dutyWrap - 1 BY <3>1, Division
    <3> QED BY <3>2 DEF t
  <2>5. dutyFrame' \subseteq [band : dutyBands, toa : dutyToas, late : BOOLEAN]
    <3>1. ASSUME NEW f \in dutyFrame
          PROVE  [f EXCEPT !.late = TRUE] \in [band : dutyBands, toa : dutyToas, late : BOOLEAN]
      <4>1. f \in [band : dutyBands, toa : dutyToas, late : BOOLEAN] BY <1>1
      <4> QED BY <4>1
    <3> QED BY <2>1, <3>1
  <2> HIDE DEF g
  <2>6. \A b \in dutyBands : BandInv(dutyNow', dutyRing'[b], dutySent'[b])
    BY <2>1, <2>3
  <2>7. dutySent' \in [dutyBands -> [0 .. P - 1 -> Nat]] BY <2>1, <2>3
  <2> QED BY <1>1, <2>1, <2>4, <2>5, <2>6, <2>7 DEF DutyInv
<1> QED BY <1>3, <1>4, <1>5, <1>6, <1>7 DEF Duty!Next

\* The frame that is let through finds its band below the limit.
LEMMA DutyWithin ==
    ASSUME DutyInv, Duty!Next \/ UNCHANGED dutyVars
    PROVE  [Duty!WithinLimit]_dutyVars
<1> DEFINE P == Duty!Period
<1> SUFFICES ASSUME ~UNCHANGED dutyVars, dutyFrame = {}, dutyEnabled = "NONE",
                    NEW f \in dutyFrame', NEW n \in Duty!Remembered
             PROVE  Duty!Window(f.band, n) < dutyLimit
  BY DEF Duty!WithinLimit
<1>1. Duty!Next OBVIOUS
<1>2. Duty!Ask
  <2>1. ~Duty!Sent BY DEF Duty!Sent
  <2>2. ~Duty!EnableSet BY DEF Duty!EnableSet
  <2>3. ~Duty!Tick BY DEF Duty!Tick
  <2> QED BY <1>1, <2>1, <2>2, <2>3 DEF Duty!Next
<1> DEFINE b == f.band
           r == Duty!Updated(dutyRing[b], dutyNow)
<1>3. b \in dutyBands /\ Duty!Free(dutyRing'[b])
  BY <1>2 DEF Duty!Ask
<1>4. dutyRing'[b] = r BY <1>2, <1>3 DEF Duty!Ask
<1>5. dutyEnabled = "NONE" => dutyLimit - Duty!Consumed(r) > 0
  BY <1>3, <1>4 DEF Duty!Free, Duty!Available
<1>6. BandInv(dutyNow, r, dutySent[b]) /\ Duty!TimeDiff(dutyNow, r.stamp) < P
  BY <1>3, BandUpdated DEF DutyInv
<1>7. /\ n \in 0 .. P - dutyUnit
      /\ n <= dutyNow + 1 \/ n <= P - 2 * dutyUnit
  BY DEF Duty!Remembered
<1> HIDE DEF b, r
<1>8. Duty!Spent(dutySent[b], n) <= Duty!Consumed(r) BY <1>6, <1>7, BandWindow
<1>9. Duty!Consumed(r) \in Nat
  <2>1. r \in DutyRing BY <1>6 DEF BandInv
  <2>2. 0 \in 0 .. dutySlots - 1 BY DutyConstants
  <2> QED BY <2>1, <2>2, RingSums
<1>10. Duty!Spent(dutySent[b], n) \in Nat
  <2>1. dutySent[b] \in [0 .. P - 1 -> Nat] BY <1>6 DEF BandInv
  <2>2. P \in Nat /\ n \in 0 .. P BY <1>7, DutyConstants
  <2> QED BY <2>1, <2>2, SpentFacts
<1>11. dutyLimit \in Nat
  <2>1. Duty!DutyAssumption BY ServicesAssumption DEF ServicesAssumption
  <2> QED BY <2>1 DEF Duty!DutyAssumption
<1> QED BY <1>5, <1>8, <1>9, <1>10, <1>11 DEF Duty!Window, b

\* The least of some numbers.
LEMMA LeastOf ==
    ASSUME NEW S, S \subseteq Nat, S # {}
    PROVE  \E m \in S : \A k \in S : m <= k
<1> DEFINE Lt == {ss \in Nat \X Nat : ss[1] < ss[2]}
<1>1. IsWellFoundedOn(Lt, Nat) BY NatLessThanWellFounded DEF OpToRel
<1>2. PICK m \in S : \A k \in S : <<k, m>> \notin Lt
  <2> HIDE DEF Lt
  <2> QED BY <1>1, WFMin, Zenon
<1>3. \A k \in S : m <= k
  <2> TAKE k \in S
  <2>1. k \in Nat /\ m \in Nat OBVIOUS
  <2>2. ~(k < m) BY <1>2, <2>1
  <2> QED BY <2>1, <2>2
<1> QED BY <1>3

\* The quotient of a number between two multiples.
LEMMA QuotientIs ==
    ASSUME NEW u \in Nat \ {0}, NEW d \in Nat, NEW a \in Nat
    PROVE  /\ d < a * u => d \div u < a
           /\ d = a * u => d \div u = a
           /\ d \div u \in Nat
<1> DEFINE q == d \div u  s == d % u  x == q * u  y == a * u
<1>1. q \in Nat /\ s \in 0 .. u - 1 /\ d = u * q + s BY Division
<1> HIDE DEF q, s
<1>2. u * q = x /\ x \in Int /\ y \in Int BY <1>1, Multiples
<1>3. (a <= q => y <= x) /\ (q < a => x + u <= y) /\ (a < q => y + u <= x) BY <1>1, Multiples
<1> HIDE DEF x, y
<1>4. d < y => q < a BY <1>1, <1>2, <1>3
<1>5. d = y => q = a BY <1>1, <1>2, <1>3
<1> QED BY <1>1, <1>4, <1>5 DEF q, y

\* A ring that is up to date.
LEMMA RingUpdated ==
    ASSUME NEW t \in 0 .. dutyWrap - 1, NEW r \in DutyRing, r.stamp <= t
    PROVE  LET R == Duty!Updated(r, t)
           IN /\ R \in DutyRing /\ R.stamp <= t
              /\ Duty!TimeDiff(t, R.stamp) < Duty!Period
              /\ \A m \in 1 .. Passed(t, R) : R.sums[Ahead(R.previous, m)] = 0
<1> DEFINE D == Duty!TimeDiff(t, r.stamp)
           R == Duty!Updated(r, t)
           N == dutySlots
           P == Duty!Period
<1>1. /\ r.stamp \in 0 .. dutyWrap - 1 /\ InTurn(t, r.stamp)
      /\ r.sums \in [0 .. N - 1 -> Nat] /\ r.previous \in 0 .. N - 1
      /\ r = [sums |-> r.sums, previous |-> r.previous, stamp |-> r.stamp]
  <2>1. /\ r.stamp \in 0 .. dutyWrap - 1
        /\ r.sums \in [0 .. N - 1 -> Nat] /\ r.previous \in 0 .. N - 1
        /\ r = [sums |-> r.sums, previous |-> r.previous, stamp |-> r.stamp]
    BY DEF DutyRing
  <2>2. dutyWrap \in Nat BY DutyConstants
  <2> QED BY <2>1, <2>2 DEF InTurn
<1>2. /\ dutyUnit \in Nat \ {0} /\ P \in Nat /\ dutyWrap \in Nat /\ N \in Nat \ {0}
      /\ Duty!Indices = 0 .. N - 1
  BY DutyConstants
<1>3. D \in 0 .. dutyWrap - 1 /\ D \in Nat
  <2>1. D \in 0 .. dutyWrap - 1 BY <1>1, SlotsPassed
  <2> HIDE DEF D
  <2> QED BY <1>2, <2>1
<1>4. CASE D >= P
  <2> DEFINE p == Duty!Index(D, r.previous)
             zero == [i \in 0 .. N - 1 |-> 0]
  <2>1. R = [sums |-> zero, previous |-> p, stamp |-> t]
    BY <1>1, <1>2, <1>4 DEF Duty!Updated, Duty!Erased
  <2>2. p \in 0 .. N - 1
    <3> HIDE DEF D
    <3> QED BY <1>1, <1>3, IndexIn
  <2> HIDE DEF p, R
  <2>3. R \in DutyRing /\ R.stamp = t /\ R.sums = zero /\ R.previous = p
    BY <2>1, <2>2 DEF DutyRing
  <2>4. Duty!TimeDiff(t, R.stamp) = t % dutyUnit /\ t % dutyUnit < P
        /\ t % dutyUnit \in 0 .. dutyUnit - 1
    BY <2>3, Fresh
  <2>5. Passed(t, R) = 0
    <3> DEFINE c == t % dutyUnit
    <3>1. c \in Nat /\ c < 1 * dutyUnit BY <1>2, <2>4
    <3>2. Passed(t, R) = c \div dutyUnit BY <2>4 DEF Passed
    <3> HIDE DEF c
    <3>3. c \div dutyUnit < 1 /\ c \div dutyUnit \in Nat BY <1>2, <3>1, QuotientIs
    <3> DEFINE q == c \div dutyUnit
    <3> HIDE DEF q
    <3>4. q = 0 BY <3>3 DEF q
    <3> QED BY <3>2, <3>4 DEF q
  <2>6. R.stamp <= t BY <1>2, <2>3
  <2> QED BY <2>3, <2>4, <2>5, <2>6 DEF R
<1>5. CASE ~(D >= P)
  <2> DEFINE B == Duty!Begun(r, D)
             kept == [i \in 0 .. N - 1 |-> IF i \in B THEN 0 ELSE r.sums[i]]
             k == Passed(t, r)
  <2>1. R = [sums |-> kept, previous |-> r.previous, stamp |-> r.stamp]
    BY <1>1, <1>2, <1>5 DEF Duty!Updated, Duty!Erased
  <2>2. B = {(r.previous + m) % N : m \in 1 .. k} BY DEF Duty!Begun, Passed
  <2> HIDE DEF B, R
  <2>3. kept \in [0 .. N - 1 -> Nat]
    <3>1. \A i \in 0 .. N - 1 : r.sums[i] \in Nat BY <1>1
    <3> QED BY <3>1
  <2>4. R \in DutyRing /\ R.stamp = r.stamp /\ R.sums = kept /\ R.previous = r.previous
    BY <1>1, <2>1, <2>3 DEF DutyRing
  <2>5. Passed(t, R) = k BY <2>4 DEF Passed
  <2>6. k \in Nat /\ (D < P <=> k < N) BY <1>1, SlotsPassed
  <2>7. D < P BY <1>2, <1>3, <1>5
  <2> HIDE DEF k, D
  <2>8. ASSUME NEW m \in 1 .. k PROVE R.sums[Ahead(R.previous, m)] = 0
    <3>1. m \in 0 .. N - 1 BY <1>2, <2>6, <2>7
    <3>2. Ahead(r.previous, m) \in 0 .. N - 1 BY <1>1, <3>1, SlotAhead
    <3>3. Ahead(r.previous, m) \in B
      <4>1. (r.previous + m) % N = Ahead(r.previous, m) BY <1>1, <1>2, <3>1 DEF Ahead
      <4> QED BY <2>2, <4>1
    <3> QED BY <2>4, <3>2, <3>3
  <2> QED BY <2>4, <2>5, <2>7, <2>8 DEF R, D
<1> QED BY <1>4, <1>5

\* What an update drops.
LEMMA Dropped ==
    ASSUME NEW t \in 0 .. dutyWrap - 1, NEW r \in DutyRing,
           NEW d \in Nat, d = Duty!TimeDiff(t, r.stamp)
    PROVE  LET R == Duty!Updated(r, t)
               q == d \div dutyUnit
           IN /\ Duty!Consumed(r) \in Nat /\ Duty!Consumed(R) \in Nat
              /\ d >= Duty!Period => Duty!Consumed(R) = 0
              /\ d < Duty!Period =>
                    /\ (\A m \in 1 .. q : r.sums[Ahead(r.previous, m)] = 0) =>
                          Duty!Consumed(R) = Duty!Consumed(r)
                    /\ (\E m \in 1 .. q : r.sums[Ahead(r.previous, m)] # 0) =>
                          Duty!Consumed(R) < Duty!Consumed(r)
<1> DEFINE R == Duty!Updated(r, t)
           N == dutySlots
           P == Duty!Period
           q == d \div dutyUnit
           B == Duty!Begun(r, d)
           zero == [i \in 0 .. N - 1 |-> 0]
           kept == [i \in 0 .. N - 1 |-> IF i \in B THEN 0 ELSE r.sums[i]]
<1>1. r.sums \in [0 .. N - 1 -> Nat] /\ r.previous \in 0 .. N - 1 BY DEF DutyRing
<1>2. /\ dutyUnit \in Nat \ {0} /\ P \in Nat /\ N \in Nat \ {0} /\ N \in 0 .. N
      /\ Duty!Indices = 0 .. N - 1
  BY DutyConstants
<1>3. \A i \in 0 .. N - 1 : r.sums[i] \in Nat BY <1>1
<1>4. R.sums = IF d >= P THEN zero ELSE kept
  BY <1>1, <1>2 DEF Duty!Updated, Duty!Erased, DutyRing
<1>5. kept \in [0 .. N - 1 -> Nat] /\ zero \in [0 .. N - 1 -> Nat] BY <1>3
<1>6. \A m \in 1 .. q : Ahead(r.previous, m) = (r.previous + m) % N
  <2>1. q \in Nat BY <1>2, QuotientIs
  <2> HIDE DEF q
  <2> QED BY <1>1, <1>2, <2>1 DEF Ahead
<1>7. B = {Ahead(r.previous, m) : m \in 1 .. q} BY <1>6 DEF Duty!Begun
<1> HIDE DEF B, R, q
<1>9. Duty!Consumed(r) \in Nat /\ Duty!Consumed(R) \in Nat
  <2>1. R.sums \in [0 .. N - 1 -> Nat] BY <1>4, <1>5
  <2> QED BY <1>1, <1>2, <2>1, SpentFacts DEF Duty!Consumed
<1>10. ASSUME d >= P PROVE Duty!Consumed(R) = 0
  <2>1. R.sums = zero BY <1>4, <1>10
  <2>2. \A i \in 0 .. N - 1 : zero[i] = 0 OBVIOUS
  <2> HIDE DEF zero
  <2> QED BY <1>2, <1>5, <2>1, <2>2, SpentNothing DEF Duty!Consumed
<1>11. ASSUME d < P PROVE R.sums = kept
  <2>1. ~(d >= P) BY <1>2, <1>11
  <2> QED BY <1>4, <2>1
<1>12. ASSUME d < P, \A m \in 1 .. q : r.sums[Ahead(r.previous, m)] = 0
       PROVE  Duty!Consumed(R) = Duty!Consumed(r)
  <2>1. \A i \in 0 .. N - 1 : i \in B => r.sums[i] = 0 BY <1>7, <1>12
  <2>2. kept = r.sums BY <1>1, <2>1
  <2> QED BY <1>11, <1>12, <2>2 DEF Duty!Consumed
<1>13. ASSUME d < P, NEW m \in 1 .. q, r.sums[Ahead(r.previous, m)] # 0
       PROVE  Duty!Consumed(R) < Duty!Consumed(r)
  <2> DEFINE x == Ahead(r.previous, m)
             y == r.sums[x]
  <2>1. x \in B /\ x \in 0 .. N - 1
    <3>1. q \in Nat /\ q < N
      <4>1. P = N * dutyUnit /\ d < N * dutyUnit BY <1>13, DutyConstants
      <4> QED BY <1>2, <4>1, QuotientIs DEF q
    <3>2. m \in 0 .. N - 1 BY <1>2, <3>1
    <3> QED BY <1>1, <1>7, <3>2, SlotAhead
  <2>2. y \in Nat /\ y # 0 BY <1>3, <1>13, <2>1
  <2>3. \A i \in 0 .. N - 1 : kept[i] + (IF i = x THEN y ELSE 0) <= r.sums[i]
    <3> TAKE i \in 0 .. N - 1
    <3>1. r.sums[i] \in Nat BY <1>3
    <3>2. CASE i = x
      <4>1. kept[i] = 0 BY <2>1, <3>2
      <4> QED BY <3>1, <3>2, <4>1
    <3>3. CASE i # x
      <4>1. kept[i] = 0 \/ kept[i] = r.sums[i] OBVIOUS
      <4> QED BY <3>1, <3>3, <4>1
    <3> QED BY <3>2, <3>3
  <2> HIDE DEF kept, x, y
  <2>4. Duty!Spent(kept, N) + y <= Duty!Spent(r.sums, N)
    BY <1>1, <1>2, <1>5, <2>1, <2>2, <2>3, SpentBeside
  <2>5. Duty!Consumed(R) = Duty!Spent(kept, N) /\ Duty!Consumed(r) = Duty!Spent(r.sums, N)
    BY <1>11, <1>13 DEF Duty!Consumed
  <2> QED BY <1>9, <2>2, <2>4, <2>5
<1> QED BY <1>9, <1>10, <1>12, <1>13 DEF R, q

\* The empty slots after the one that has begun: there are m of them, and then comes one
\* that is not empty, or the ring has turned.
EmptyAfter(r, k, m) ==
    /\ m \in Nat /\ k + m < dutySlots
    /\ \A q \in 1 .. m : r.sums[Ahead(r.previous, k + q)] = 0
    /\ k + m + 1 = dutySlots \/ r.sums[Ahead(r.previous, k + m + 1)] # 0

LEMMA EmptyRunIs ==
    ASSUME NEW t \in 0 .. dutyWrap - 1, NEW r \in DutyRing, r.stamp <= t,
           Duty!TimeDiff(t, r.stamp) < Duty!Period
    PROVE  /\ Passed(t, r) \in 0 .. dutySlots - 1
           /\ \E m : EmptyAfter(r, Passed(t, r), m) /\ Duty!EmptyRun(r, t) = 1 .. m
<1> DEFINE D == Duty!TimeDiff(t, r.stamp)
           N == dutySlots
           k == Passed(t, r)
           index == Duty!Index(D, r.previous)
           last == (r.previous - index) % N
           z(n) == r.sums[Ahead(r.previous, k + n)]
           S == {n \in 1 .. N - k : n = N - k \/ z(n) # 0}
<1>1. /\ r.stamp \in 0 .. dutyWrap - 1 /\ InTurn(t, r.stamp)
      /\ r.sums \in [0 .. N - 1 -> Nat] /\ r.previous \in 0 .. N - 1
  <2>1. /\ r.stamp \in 0 .. dutyWrap - 1
        /\ r.sums \in [0 .. N - 1 -> Nat] /\ r.previous \in 0 .. N - 1
    BY DEF DutyRing
  <2>2. dutyWrap \in Nat BY DutyConstants
  <2> QED BY <2>1, <2>2 DEF InTurn
<1>2. N \in Nat \ {0} /\ dutyWrap \in Nat BY DutyConstants
<1>3. k \in 0 .. N - 1 /\ D \in Nat
  <2>1. k \in Nat /\ (D < Duty!Period <=> k < N) /\ D \in 0 .. dutyWrap - 1 BY <1>1, SlotsPassed
  <2> HIDE DEF D, k
  <2> QED BY <1>2, <2>1 DEF D
<1>4. index = Ahead(r.previous, k)
  <2> HIDE DEF D
  <2> QED BY <1>1, <1>3, IndexIn DEF Ahead, Passed, D
<1> HIDE DEF k, D, index
<1>5. index \in 0 .. N - 1
      /\ index = IF r.previous + k < N THEN r.previous + k ELSE r.previous + k - N
  BY <1>1, <1>3, <1>4, SlotAhead
<1>6. last = IF k = 0 THEN 0 ELSE N - k
  <2>1. last = IF r.previous < index THEN r.previous - index + N ELSE r.previous - index
    BY <1>1, <1>5, SlotBehind
  <2> DEFINE p == r.previous
  <2>2. p \in 0 .. N - 1 BY <1>1
  <2>3. index = IF p + k < N THEN p + k ELSE p + k - N BY <1>5
  <2>4. last = IF p < index THEN p - index + N ELSE p - index BY <2>1
  <2> HIDE DEF last, p
  <2> QED BY <1>2, <1>3, <2>2, <2>3, <2>4
<1>7. ASSUME NEW n \in 1 .. N - 1 - k PROVE r.sums[(index + n) % N] = z(n)
  <2> DEFINE y == index + n
             x == k + n
  <2>1. x \in 0 .. N - 1 /\ n \in 0 .. N - 1 BY <1>2, <1>3
  <2>2. y \in Int /\ -N <= y /\ y < 2 * N /\ ~(y < 0) BY <1>2, <1>5, <2>1
  <2>3. Ahead(r.previous, x) = IF r.previous + x < N THEN r.previous + x ELSE r.previous + x - N
    BY <1>1, <2>1, SlotAhead
  <2> HIDE DEF y
  <2>4. y % N = IF y < N THEN y ELSE y - N BY <1>2, <2>2, Wrapped
  <2> DEFINE w == y % N
             p == r.previous
             v == Ahead(p, x)
  <2>5. /\ v = IF p + x < N THEN p + x ELSE p + x - N
        /\ p \in 0 .. N - 1 /\ index = IF p + k < N THEN p + k ELSE p + k - N
        /\ w = IF y < N THEN y ELSE y - N
    BY <1>1, <1>5, <2>3, <2>4
  <2> HIDE DEF w, p, v
  <2>6. w = v BY <1>2, <1>3, <2>1, <2>5 DEF y
  <2> QED BY <2>6 DEF w, y, v, p
<1> HIDE DEF z, last
<1>8. PICK a \in S : \A n \in S : a <= n
  <2>1. N - k \in S /\ S \subseteq Nat BY <1>2, <1>3
  <2> HIDE DEF S
  <2> QED BY <2>1, LeastOf
<1> DEFINE m == a - 1
<1>9. m \in Nat /\ k + m < N BY <1>2, <1>3, <1>8
<1>10. \A q \in 1 .. m : z(q) = 0
  <2> TAKE q \in 1 .. m
  <2>1. q \in 1 .. N - k /\ q < a BY <1>2, <1>3, <1>8
  <2>2. q \notin S BY <1>8, <2>1
  <2> QED BY <2>1, <2>2
<1>11. k + m + 1 = N \/ z(m + 1) # 0
  <2>1. m + 1 = a BY <1>8
  <2> QED BY <1>2, <1>3, <1>8, <2>1
<1>12. Duty!EmptyRun(r, t) =
          {n \in 1 .. N - 1 : /\ \A q \in 1 .. n : r.sums[(index + q) % N] = 0
                              /\ last # 0 => n < last}
  BY DEF Duty!EmptyRun, index, D, last
<1>13. ASSUME NEW n \in 1 .. m PROVE n \in Duty!EmptyRun(r, t)
  <2>1. n \in 1 .. N - 1 /\ (last # 0 => n < last) BY <1>2, <1>3, <1>6, <1>9
  <2>2. \A q \in 1 .. n : q \in 1 .. N - 1 - k /\ q \in 1 .. m BY <1>2, <1>3, <1>9
  <2>3. \A q \in 1 .. n : r.sums[(index + q) % N] = 0 BY <1>7, <1>10, <2>2
  <2> QED BY <1>12, <2>1, <2>3
<1>14. ASSUME NEW n \in Duty!EmptyRun(r, t) PROVE n \in 1 .. m
  <2>1. n \in 1 .. N - 1 /\ (last # 0 => n < last) BY <1>12
  <2>2. n \in 1 .. N - 1 - k BY <1>2, <1>3, <1>6, <2>1
  <2>3. CASE n > m
    <3>1. m + 1 \in 1 .. n /\ m + 1 \in 1 .. N - 1 - k /\ k + m + 1 # N
      BY <1>2, <1>3, <1>9, <2>2, <2>3
    <3>2. r.sums[(index + (m + 1)) % N] = 0 BY <1>12, <3>1
    <3> QED BY <1>7, <1>11, <3>1, <3>2
  <2>4. CASE ~(n > m) BY <1>9, <2>1, <2>4
  <2> QED BY <2>3, <2>4
<1>15. Duty!EmptyRun(r, t) = 1 .. m BY <1>13, <1>14
<1>16. EmptyAfter(r, k, m)
  <2>1. k + m + 1 = k + (m + 1) BY <1>2, <1>3, <1>9
  <2> QED BY <1>9, <1>10, <1>11, <2>1 DEF EmptyAfter, z
<1> QED BY <1>3, <1>15, <1>16 DEF k

\* The time until the slot after those begins.
LEMMA SlotTimeIs ==
    ASSUME NEW t \in 0 .. dutyWrap - 1, NEW r \in DutyRing, r.stamp <= t,
           Duty!TimeDiff(t, r.stamp) < Duty!Period
    PROVE  \E m : /\ EmptyAfter(r, Passed(t, r), m)
                  /\ Duty!SlotTime(r, t) \in Nat \ {0}
                  /\ Duty!TimeDiff(t, r.stamp) + Duty!SlotTime(r, t)
                        = (Passed(t, r) + m + 1) * dutyUnit
<1> DEFINE D == Duty!TimeDiff(t, r.stamp)
           k == Passed(t, r)
           e == D % dutyUnit
           x == k * dutyUnit
           w == Duty!SlotTime(r, t)
<1>1. PICK m : EmptyAfter(r, k, m) /\ Duty!EmptyRun(r, t) = 1 .. m BY EmptyRunIs
<1>2. dutyUnit \in Nat \ {0} /\ dutyWrap \in Nat /\ dutySlots \in Nat BY DutyConstants
<1>3. /\ k \in Nat /\ D = x + e /\ x \in Nat /\ e = t % dutyUnit /\ e \in 0 .. dutyUnit - 1
  <2>1. InTurn(t, r.stamp)
    <3>1. r.stamp \in 0 .. dutyWrap - 1 BY DEF DutyRing
    <3> QED BY <1>2, <3>1 DEF InTurn
  <2> QED BY <2>1, SlotsPassed
<1>4. Duty!Cardinality(1 .. m) = m /\ m \in Nat
  <2>1. m \in Nat BY <1>1 DEF EmptyAfter
  <2>2. Cardinality(1 .. m) = IF 1 > m THEN 0 ELSE m - 1 + 1 BY <2>1, FS_Interval
  <2>3. Duty!Cardinality(1 .. m) = Cardinality(1 .. m) BY DEF Duty!Cardinality, Cardinality
  <2> QED BY <2>1, <2>2, <2>3
<1>5. w = dutyUnit - e + dutyUnit * m
  BY <1>1, <1>3, <1>4 DEF Duty!SlotTime
<1> HIDE DEF D, k, e, x, w
<1> DEFINE y == m * dutyUnit
<1>6. /\ y \in Int /\ dutyUnit * m = y /\ y >= 0
      /\ (k + m + 1) * dutyUnit = x + y + dutyUnit
  <2>1. k \in Int /\ m \in Int /\ k + m \in Int /\ 1 \in Int /\ 0 \in Int /\ 0 <= m
    BY <1>3, <1>4
  <2>2. /\ (k + m + 1) * dutyUnit = (k + m) * dutyUnit + 1 * dutyUnit
        /\ (k + m) * dutyUnit = k * dutyUnit + m * dutyUnit
        /\ y \in Int /\ dutyUnit * m = y /\ 0 * dutyUnit <= y
    BY <1>2, <2>1, Multiples
  <2>3. 1 * dutyUnit = dutyUnit /\ 0 * dutyUnit = 0 BY <1>2
  <2> QED BY <2>2, <2>3 DEF x
<1> HIDE DEF y
<1>7. w \in Nat \ {0} /\ D + w = x + y + dutyUnit BY <1>2, <1>3, <1>5, <1>6
<1> QED BY <1>1, <1>6, <1>7 DEF D, k, w

\* A band drops nothing until then, and something then.
LEMMA BandFrees ==
    ASSUME NEW t \in 0 .. dutyWrap - 1, NEW r \in DutyRing, r.stamp <= t,
           Duty!TimeDiff(t, r.stamp) < Duty!Period,
           \A m \in 1 .. Passed(t, r) : r.sums[Ahead(r.previous, m)] = 0,
           Duty!Consumed(r) > 0,
           NEW x \in 0 .. Duty!SlotTime(r, t), t + x < dutyWrap
    PROVE  LET R == Duty!Updated(r, (t + x) % dutyWrap)
           IN IF x = Duty!SlotTime(r, t) THEN Duty!Consumed(R) < Duty!Consumed(r)
              ELSE Duty!Consumed(R) = Duty!Consumed(r)
<1> DEFINE D == Duty!TimeDiff(t, r.stamp)
           k == Passed(t, r)
           w == Duty!SlotTime(r, t)
           P == Duty!Period
           N == dutySlots
           u == t + x
           d == D + x
           q == d \div dutyUnit
           R == Duty!Updated(r, u)
<1>1. PICK m : EmptyAfter(r, k, m) /\ w \in Nat \ {0} /\ D + w = (k + m + 1) * dutyUnit
  BY SlotTimeIs
<1>2. /\ dutyUnit \in Nat \ {0} /\ dutyWrap \in Nat \ {0} /\ N \in Nat /\ P = N * dutyUnit
      /\ P \in Nat
  BY DutyConstants
<1>3. r.stamp \in 0 .. dutyWrap - 1 /\ t \in Nat BY <1>2 DEF DutyRing
<1>4. x \in Nat /\ x <= w BY <1>1
<1>5. u \in 0 .. dutyWrap - 1 /\ r.stamp <= u BY <1>2, <1>3, <1>4
<1>6. u % dutyWrap = u
  <2>1. u \in Int /\ -dutyWrap <= u /\ u < 2 * dutyWrap /\ ~(u < 0) /\ u < dutyWrap
    BY <1>2, <1>5
  <2> HIDE DEF u
  <2> QED BY <1>2, <2>1, Wrapped
<1>7. D \in Nat /\ Duty!TimeDiff(u, r.stamp) = d
  <2>1. InTurn(t, r.stamp) /\ InTurn(u, r.stamp) BY <1>2, <1>3, <1>5 DEF InTurn
  <2>2. D \in 0 .. dutyWrap - 1 /\ D = t - Beginning(r.stamp) BY <1>3, <2>1, DiffIs
  <2> DEFINE v == Duty!TimeDiff(u, r.stamp)
  <2>3. v = u - Beginning(r.stamp) BY <1>3, <1>5, <2>1, DiffIs
  <2>4. Beginning(r.stamp) \in Int
    <3>1. r.stamp \in Nat BY <1>2, <1>3
    <3> DEFINE s == r.stamp
    <3>2. s \in Nat BY <3>1
    <3> HIDE DEF s
    <3>3. s % dutyUnit \in 0 .. dutyUnit - 1 BY <1>2, <3>2, Division
    <3> QED BY <1>2, <3>2, <3>3 DEF Beginning, s
  <2> HIDE DEF D, v
  <2>5. v = D + x /\ D \in Nat BY <1>2, <1>3, <1>4, <2>2, <2>3, <2>4
  <2> QED BY <2>5 DEF v, D
<1> HIDE DEF D, k, w, u
<1>8. d \in Nat /\ d = Duty!TimeDiff(u, r.stamp) BY <1>4, <1>7
<1>9. k \in Nat /\ m \in Nat /\ k + m + 1 \in Nat /\ k + m < N
  <2>1. k \in 0 .. N - 1 BY EmptyRunIs DEF k
  <2> QED BY <1>1, <1>2, <2>1 DEF EmptyAfter
<1> DEFINE a == k + m + 1
           y == a * dutyUnit
<1>10. /\ y \in Int /\ y <= P /\ (a < N => y < P) /\ (a = N => y = P)
  <2>1. a \in Int /\ N \in Int /\ a <= N BY <1>2, <1>9
  <2> HIDE DEF a
  <2>2. y \in Int /\ y <= P /\ (a < N => y + dutyUnit <= P) /\ (a = N => y = P)
    BY <1>2, <2>1, Multiples
  <2> QED BY <1>2, <2>2
<1>11. D + w = y BY <1>1
<1> HIDE DEF d, y, P, R, q
<1>12. /\ Duty!Consumed(r) \in Nat /\ Duty!Consumed(R) \in Nat
       /\ d >= P => Duty!Consumed(R) = 0
       /\ d < P =>
             /\ (\A n \in 1 .. q : r.sums[Ahead(r.previous, n)] = 0) =>
                   Duty!Consumed(R) = Duty!Consumed(r)
             /\ (\E n \in 1 .. q : r.sums[Ahead(r.previous, n)] # 0) =>
                   Duty!Consumed(R) < Duty!Consumed(r)
  BY <1>5, <1>8, Dropped DEF P, q, R
<1>13. q \in Nat /\ (d < y => q < a) /\ (d = y => q = a)
  <2> HIDE DEF a
  <2>1. a \in Nat BY <1>9 DEF a
  <2> QED BY <1>2, <1>8, <2>1, QuotientIs DEF q, y
<1>14. CASE x = w
  <2>1. d = y BY <1>11, <1>14 DEF d
  <2>2. CASE a = N
    <3>1. d >= P BY <1>10, <2>1, <2>2
    <3> QED BY <1>6, <1>12, <1>14, <3>1 DEF R, u, w
  <2>3. CASE a # N
    <3>1. d < P BY <1>2, <1>9, <1>10, <2>1, <2>3
    <3>2. r.sums[Ahead(r.previous, a)] # 0 BY <1>1, <2>3 DEF EmptyAfter
    <3>3. a \in 1 .. q BY <1>9, <1>13, <2>1
    <3>4. Duty!Consumed(R) < Duty!Consumed(r) BY <1>12, <3>1, <3>2, <3>3
    <3> QED BY <1>6, <1>14, <3>4 DEF R, u, w
  <2> QED BY <2>2, <2>3
<1>15. CASE x # w
  <2>1. d < y BY <1>1, <1>4, <1>7, <1>10, <1>11, <1>15 DEF d
  <2>2. d < P BY <1>2, <1>8, <1>10, <2>1 DEF P
  <2>3. ASSUME NEW n \in 1 .. q PROVE r.sums[Ahead(r.previous, n)] = 0
    <3>1. n < a BY <1>9, <1>13, <2>1
    <3>2. CASE n <= k
      <4>1. n \in 1 .. k BY <1>9, <1>13, <3>2
      <4> QED BY <4>1 DEF k
    <3>3. CASE n > k
      <4>1. n - k \in 1 .. m /\ k + (n - k) = n BY <1>9, <1>13, <3>1, <3>3
      <4>2. r.sums[Ahead(r.previous, k + (n - k))] = 0 BY <1>1, <4>1 DEF EmptyAfter
      <4> QED BY <4>1, <4>2
    <3> QED BY <1>9, <1>13, <3>2, <3>3
  <2>4. Duty!Consumed(R) = Duty!Consumed(r) BY <1>12, <2>2, <2>3
  <2> QED BY <1>6, <1>15, <2>4 DEF R, u, w
<1> QED BY <1>14, <1>15

\* The wait that is announced frees a band, and nothing is dropped before.
LEMMA DutyWaits == DutyInv => Duty!WaitFrees
<1> DEFINE updated == [b \in dutyBands |-> Duty!Updated(dutyRing[b], dutyNow)]
           wait == Duty!NextFreeTime(updated, dutyNow, dutyBands)
           W(b) == Duty!SlotTime(updated[b], dutyNow)
           later(b, t) == Duty!Updated(updated[b], (dutyNow + t) % dutyWrap)
           T == {W(b) : b \in dutyBands}
<1> SUFFICES ASSUME DutyInv, dutyNow + wait < dutyWrap,
                    \A b \in dutyBands : ~Duty!Free(updated[b]) /\ dutyRing[b].stamp <= dutyNow
             PROVE  /\ \E b \in dutyBands :
                          Duty!Consumed(later(b, wait)) < Duty!Consumed(updated[b])
                    /\ \A b \in dutyBands, t \in 0 .. wait - 1 :
                          ~(Duty!Consumed(later(b, t)) < Duty!Consumed(updated[b]))
  BY DEF Duty!WaitFrees
<1>1. dutyBands # {} /\ dutyLimit \in Nat \ {0}
  <2>1. Duty!DutyAssumption BY ServicesAssumption DEF ServicesAssumption
  <2> QED BY <2>1 DEF Duty!DutyAssumption
<1>2. dutyNow \in 0 .. dutyWrap - 1 /\ dutyWrap \in Nat BY DutyConstants DEF DutyInv
<1>3. ASSUME NEW b \in dutyBands
      PROVE  /\ updated[b] \in DutyRing /\ updated[b].stamp <= dutyNow
             /\ Duty!TimeDiff(dutyNow, updated[b].stamp) < Duty!Period
             /\ \A m \in 1 .. Passed(dutyNow, updated[b]) :
                   updated[b].sums[Ahead(updated[b].previous, m)] = 0
             /\ Duty!Consumed(updated[b]) \in Nat /\ Duty!Consumed(updated[b]) > 0
             /\ dutyEnabled = "NONE" /\ ~(Duty!Available(updated[b]) > 0)
             /\ W(b) \in Nat
  <2>1. updated[b] = Duty!Updated(dutyRing[b], dutyNow) OBVIOUS
  <2>2. dutyRing[b] \in DutyRing BY DEF DutyInv
  <2>3. /\ updated[b] \in DutyRing /\ updated[b].stamp <= dutyNow
        /\ Duty!TimeDiff(dutyNow, updated[b].stamp) < Duty!Period
        /\ \A m \in 1 .. Passed(dutyNow, updated[b]) :
              updated[b].sums[Ahead(updated[b].previous, m)] = 0
    BY <1>2, <2>1, <2>2, RingUpdated
  <2>4. dutyEnabled = "NONE" /\ ~(Duty!Available(updated[b]) > 0) BY DEF Duty!Free
  <2> HIDE DEF updated
  <2>5. Duty!Consumed(updated[b]) \in Nat
    <3>1. 0 \in 0 .. dutySlots - 1 BY DutyConstants
    <3> QED BY <2>3, <3>1, RingSums
  <2>6. Duty!Consumed(updated[b]) > 0 BY <1>1, <2>4, <2>5 DEF Duty!Available
  <2>7. W(b) \in Nat BY <1>2, <2>3, SlotTimeIs
  <2> QED BY <2>3, <2>4, <2>5, <2>6, <2>7
<1> HIDE DEF updated, W
<1>4. wait \in T /\ \A y \in T : wait <= y
  <2>1. dutyEnabled = "NONE" /\ {b \in dutyBands : Duty!Available(updated[b]) > 0} = {}
    BY <1>1, <1>3
  <2>2. wait = Duty!Min(T) BY <2>1 DEF Duty!NextFreeTime, W
  <2>3. T \subseteq Nat /\ T # {} BY <1>1, <1>3
  <2> HIDE DEF T, wait
  <2>4. \E y \in T : \A z \in T : y <= z BY <2>3, LeastOf
  <2> QED BY <2>2, <2>4 DEF Duty!Min
<1>5. wait \in Nat /\ \A b \in dutyBands : wait <= W(b) BY <1>3, <1>4
<1>6. PICK b \in dutyBands : wait = W(b) BY <1>4
<1> HIDE DEF T, wait
<1>7. \A t \in 0 .. wait : dutyNow + t < dutyWrap BY <1>2, <1>5
<1>8. ASSUME NEW c \in dutyBands, NEW t \in 0 .. wait
      PROVE  IF t = W(c) THEN Duty!Consumed(later(c, t)) < Duty!Consumed(updated[c])
             ELSE Duty!Consumed(later(c, t)) = Duty!Consumed(updated[c])
  <2>1. t \in 0 .. Duty!SlotTime(updated[c], dutyNow) BY <1>3, <1>5 DEF W
  <2>2. dutyNow + t < dutyWrap BY <1>7
  <2> DEFINE r == updated[c]
  <2>3. /\ r \in DutyRing /\ r.stamp <= dutyNow
        /\ Duty!TimeDiff(dutyNow, r.stamp) < Duty!Period
        /\ \A m \in 1 .. Passed(dutyNow, r) : r.sums[Ahead(r.previous, m)] = 0
        /\ Duty!Consumed(r) > 0
    BY <1>3
  <2>4. t \in 0 .. Duty!SlotTime(r, dutyNow) BY <2>1
  <2> HIDE DEF r
  <2> QED BY <1>2, <2>2, <2>3, <2>4, BandFrees DEF r, W
<1>9. Duty!Consumed(later(b, wait)) < Duty!Consumed(updated[b]) BY <1>5, <1>6, <1>8
<1>10. ASSUME NEW c \in dutyBands, NEW t \in 0 .. wait - 1
       PROVE  ~(Duty!Consumed(later(c, t)) < Duty!Consumed(updated[c]))
  <2>1. t \in 0 .. wait /\ t # W(c) BY <1>3, <1>5
  <2>2. Duty!Consumed(later(c, t)) = Duty!Consumed(updated[c]) BY <1>8, <2>1
  <2>3. Duty!Consumed(updated[c]) \in Nat BY <1>3
  <2> DEFINE v == Duty!Consumed(later(c, t))
  <2> HIDE DEF v
  <2> QED BY <2>2, <2>3 DEF v
<1> QED BY <1>9, <1>10

\* The duty cycle's invariant while it runs.
DutyRuns == which = "Duty" => DutyInv
DutyStepRuns == which = "Duty" => Duty!WithinLimit

LEMMA InitDutyRuns == Init => DutyRuns
BY InitDuty DEF Init, DutyRuns

LEMMA NextDutyRuns == DutyRuns /\ [Next]_vars => DutyRuns' /\ [DutyStepRuns]_dutyVars
<1> SUFFICES ASSUME DutyRuns, [Next]_vars, which = "Duty"
             PROVE  DutyInv' /\ [Duty!WithinLimit]_dutyVars
  BY StepsOfOne DEF DutyRuns, DutyStepRuns
<1>1. Duty!Next \/ UNCHANGED dutyVars BY StepsOfOne
<1>2. DutyInv BY DEF DutyRuns
<1> QED BY <1>1, <1>2, NextDuty, DutyWithin

\* No band sends more than its share of the period (smtc_duty_cycle.c).
THEOREM ServicesBandWithinLimit == Spec => BandWithinLimit
BY InitDutyRuns, NextDutyRuns, PTL DEF Spec, BandWithinLimit, DutyStepRuns

\* The wait that the duty cycle announces is the one it takes (smtc_duty_cycle.c).
THEOREM ServicesWaitFrees == Spec => []WaitFrees
<1>1. DutyRuns => WaitFrees BY DutyWaits DEF DutyRuns, WaitFrees
<1> QED BY <1>1, InitDutyRuns, NextDutyRuns, PTL DEF Spec

-----------------------------------------------------------------------------
(* The channels of a fixed plan. *)

PlanP == INSTANCE FixedPlanProofs WITH
    Banks <- planBanks, PerBank <- planPerBank, NarrowRates <- planNarrowRates,
    WideRates <- planWideRates, FhssRates <- planFhssRates, LowerRate <- planLowerRate,
    MobileRates <- planMobileRates, CustomRates <- planCustomRates,
    NarrowStart <- planNarrowStart, NarrowStep <- planNarrowStep,
    WideStart <- planWideStart, Wrap <- planWrap, Lists <- planLists,
    Requests <- planRequests, dev <- planDev

\* The back-off of Services and of its proofs are the same.
LEMMA PlanDecremented == \A d : Plan!Decremented(d) = PlanP!Decremented(d)
BY DEF Plan!Decremented, PlanP!Decremented, Plan!MinRate, PlanP!MinRate, Plan!Lowered,
  PlanP!Lowered, Plan!AllEnabled, PlanP!AllEnabled, Plan!Channels, PlanP!Channels,
  Plan!Min, PlanP!Min, Plan!MaskRates, PlanP!MaskRates, Plan!Max, PlanP!Max, Plan!Rates,
  PlanP!Rates, Plan!Below, PlanP!Below, Plan!Acceptable, PlanP!Acceptable, Plan!Narrow,
  PlanP!Narrow, Plan!Wide, PlanP!Wide, Plan!RatesOf, PlanP!RatesOf, Plan!LowestWide,
  PlanP!LowestWide, Plan!Cardinality, PlanP!Cardinality

\* The plan of Services and of its proofs are the same.
LEMMA SamePlan ==
    /\ Plan!FixedPlanAssumption <=> PlanP!FixedPlanAssumption
    /\ Plan!Init <=> PlanP!Init
    /\ Plan!Next <=> PlanP!Next
<1>1. Plan!FixedPlanAssumption <=> PlanP!FixedPlanAssumption
  BY DEF Plan!FixedPlanAssumption, PlanP!FixedPlanAssumption, Plan!Rates, PlanP!Rates,
    Plan!Channels, PlanP!Channels, Plan!Keep, PlanP!Keep, Plan!Narrow, PlanP!Narrow,
    Plan!Wide, PlanP!Wide, Plan!Max, PlanP!Max, Plan!LowestWide, PlanP!LowestWide,
    Plan!Min, PlanP!Min
<1>2. Plan!Init <=> PlanP!Init
  BY DEF Plan!Init, PlanP!Init, Plan!Channels, PlanP!Channels, Plan!Init0, PlanP!Init0,
    Plan!Narrow, PlanP!Narrow, Plan!Wide, PlanP!Wide
<1>3. \A m : Plan!MaskRates(m) = PlanP!MaskRates(m)
  BY DEF Plan!MaskRates, PlanP!MaskRates, Plan!RatesOf, PlanP!RatesOf, Plan!Narrow,
    PlanP!Narrow
<1>4. \A d : Plan!NextDr(d) = PlanP!NextDr(d)
  BY DEF Plan!NextDr, PlanP!NextDr, Plan!Distribution, PlanP!Distribution, Plan!MaskRates,
    PlanP!MaskRates, Plan!LowestWide, PlanP!LowestWide, Plan!RatesOf, PlanP!RatesOf,
    Plan!Min, PlanP!Min, Plan!Narrow, PlanP!Narrow
<1>5. \A d : Plan!Decremented(d) = PlanP!Decremented(d) BY PlanDecremented
<1>6. \A d : Plan!Prepared(d) = PlanP!Prepared(d)
  BY DEF Plan!Prepared, PlanP!Prepared, Plan!Full, PlanP!Full, Plan!Renewed, PlanP!Renewed,
    Plan!FiftySix, PlanP!FiftySix, Plan!Exhausted, PlanP!Exhausted, Plan!MaskSet,
    PlanP!MaskSet, Plan!Channels, PlanP!Channels, Plan!AfterJoin, PlanP!AfterJoin,
    Plan!RatesOf, PlanP!RatesOf, Plan!Narrow, PlanP!Narrow, Plan!Wide, PlanP!Wide,
    Plan!BlockMask, PlanP!BlockMask, Plan!Init0, PlanP!Init0, Plan!Block, PlanP!Block,
    Plan!LastBlock, PlanP!LastBlock, Plan!BankChannels, PlanP!BankChannels, Plan!WideOf,
    PlanP!WideOf, Plan!Freq, PlanP!Freq
<1>7. \A d : Plan!Taken(d) = PlanP!Taken(d)
  BY DEF Plan!Taken, PlanP!Taken, Plan!Candidates, PlanP!Candidates, Plan!Using,
    PlanP!Using, Plan!RatesOf, PlanP!RatesOf, Plan!Full, PlanP!Full, Plan!Fair, PlanP!Fair,
    Plan!Narrow, PlanP!Narrow, Plan!Channels, PlanP!Channels, Plan!Min, PlanP!Min,
    Plan!Wide, PlanP!Wide
<1>8. \A d : Plan!JoinChannel(d) = PlanP!JoinChannel(d)
  BY DEF Plan!JoinChannel, PlanP!JoinChannel, Plan!JoinOn, PlanP!JoinOn, Plan!JoinBank,
    PlanP!JoinBank, Plan!Min, PlanP!Min, Plan!JoinLeft, PlanP!JoinLeft, Plan!LowestWide,
    PlanP!LowestWide, Plan!Wide, PlanP!Wide, Plan!BankChannels, PlanP!BankChannels,
    Plan!Narrow, PlanP!Narrow
<1>9. \A d : Plan!Configured(d) = PlanP!Configured(d)
  BY DEF Plan!Configured, PlanP!Configured, Plan!AfterJoin, PlanP!AfterJoin, Plan!MaskSet,
    PlanP!MaskSet, Plan!AllEnabled, PlanP!AllEnabled, Plan!BlockMask, PlanP!BlockMask,
    Plan!Full, PlanP!Full, Plan!Channels, PlanP!Channels, Plan!Init0, PlanP!Init0,
    Plan!Block, PlanP!Block, Plan!LastBlock, PlanP!LastBlock, Plan!Narrow, PlanP!Narrow,
    Plan!Wide, PlanP!Wide, Plan!BankChannels, PlanP!BankChannels, Plan!WideOf, PlanP!WideOf,
    Plan!Freq, PlanP!Freq
<1>10. \A d, k : Plan!Parsed(d, k) = PlanP!Parsed(d, k)
  BY DEF Plan!Parsed, PlanP!Parsed, Plan!ForMobile, PlanP!ForMobile, Plan!MaskSet,
    PlanP!MaskSet, Plan!Rates, PlanP!Rates, Plan!Acceptable, PlanP!Acceptable,
    Plan!MaskRates, PlanP!MaskRates, Plan!Min, PlanP!Min, Plan!Distribution,
    PlanP!Distribution, Plan!Full, PlanP!Full, Plan!Channels, PlanP!Channels,
    Plan!LowestWide, PlanP!LowestWide, Plan!Cardinality, PlanP!Cardinality, Plan!Narrow,
    PlanP!Narrow, Plan!RatesOf, PlanP!RatesOf, Plan!Wide, PlanP!Wide
<1>11. Plan!Join <=> PlanP!Join
  BY <1>8 DEF Plan!Join, PlanP!Join, Plan!Runs, PlanP!Runs, Plan!Joining, PlanP!Joining,
    Plan!Channels, PlanP!Channels, Plan!Init0, PlanP!Init0, Plan!Narrow, PlanP!Narrow,
    Plan!Wide, PlanP!Wide
<1>12. Plan!JoinAccept <=> PlanP!JoinAccept
  <2>1. \A d : Plan!Joined(d) = PlanP!Joined(d) /\ Plan!NotJoined(d) = PlanP!NotJoined(d)
    BY DEF Plan!Joined, PlanP!Joined, Plan!NotJoined, PlanP!NotJoined
  <2>2. \A d : Plan!Ends(d) <=> PlanP!Ends(d) BY DEF Plan!Ends, PlanP!Ends
  <2>3. \A a : Plan!Accepted(a) <=> PlanP!Accepted(a)
    BY <1>4, <2>1, <2>2 DEF Plan!Accepted, PlanP!Accepted
  <2> QED BY <1>9, <2>3 DEF Plan!JoinAccept, PlanP!JoinAccept, Plan!Runs, PlanP!Runs
<1>13. Plan!JoinFailed <=> PlanP!JoinFailed
  BY DEF Plan!JoinFailed, PlanP!JoinFailed, Plan!Runs, PlanP!Runs, Plan!Ends, PlanP!Ends,
    Plan!NotJoined, PlanP!NotJoined
<1>14. Plan!Leave <=> PlanP!Leave
  BY DEF Plan!Leave, PlanP!Leave, Plan!Runs, PlanP!Runs, Plan!Channels, PlanP!Channels,
    Plan!Init0, PlanP!Init0, Plan!Narrow, PlanP!Narrow, Plan!Wide, PlanP!Wide
<1>15. Plan!Send <=> PlanP!Send
  BY <1>6, <1>7 DEF Plan!Send, PlanP!Send, Plan!Runs, PlanP!Runs, Plan!Sends, PlanP!Sends,
    Plan!NextChannel, PlanP!NextChannel, Plan!Ends, PlanP!Ends
<1>16. Plan!Repeat <=> PlanP!Repeat
  BY <1>5, <1>6, <1>7 DEF Plan!Repeat, PlanP!Repeat, Plan!Runs, PlanP!Runs, Plan!Sends,
    PlanP!Sends, Plan!NextChannel, PlanP!NextChannel
<1>17. Plan!Unanswered <=> PlanP!Unanswered
  BY <1>4, <1>5 DEF Plan!Unanswered, PlanP!Unanswered, Plan!Runs, PlanP!Runs, Plan!Ends,
    PlanP!Ends
<1>18. Plan!LinkAdr <=> PlanP!LinkAdr
  BY <1>4, <1>6, <1>7, <1>10 DEF Plan!LinkAdr, PlanP!LinkAdr, Plan!Runs, PlanP!Runs,
    Plan!Built, PlanP!Built, Plan!Sends, PlanP!Sends, Plan!NextChannel, PlanP!NextChannel
<1>19. Plan!DrStrategySet <=> PlanP!DrStrategySet
  BY <1>3, <1>4 DEF Plan!DrStrategySet, PlanP!DrStrategySet, Plan!Runs, PlanP!Runs,
    Plan!Strategy, PlanP!Strategy, Plan!MinRate, PlanP!MinRate, Plan!Min, PlanP!Min,
    Plan!Max, PlanP!Max, Plan!Rates, PlanP!Rates
<1> QED BY <1>1, <1>2, <1>11, <1>12, <1>13, <1>14, <1>15, <1>16, <1>17, <1>18, <1>19
    DEF Plan!Next, PlanP!Next

\* The plan's invariant while the plan runs.
PlanRuns == which = "Plan" => PlanP!PlanInv

LEMMA PlanRunsInit == Init => PlanRuns
BY ServicesAssumption, SamePlan, PlanP!PlanInit DEF Init, PlanRuns, ServicesAssumption

LEMMA PlanRunsNext == PlanRuns /\ [Next]_vars => PlanRuns'
<1> SUFFICES ASSUME PlanRuns, [Next]_vars, which' = "Plan" PROVE PlanP!PlanInv'
  BY DEF PlanRuns
<1>1. which = "Plan" /\ (Plan!Next \/ UNCHANGED planVars) BY StepsOfOne
<1>2. [PlanP!Next]_PlanP!vars BY <1>1, SamePlan DEF planVars, PlanP!vars
<1>3. PlanP!PlanInv BY <1>1 DEF PlanRuns
<1>4. PlanP!FixedPlanAssumption BY ServicesAssumption, SamePlan DEF ServicesAssumption
<1> QED BY <1>2, <1>3, <1>4, PlanP!PlanNext

\* A channel is used once before one of its bandwidth is used twice, and the search of a
\* channel panics for a rate that none has only (region_us_915.c, smtc_real.c).
THEOREM ServicesChannelsHopped == Spec => []ChannelsHopped
<1>1. PlanRuns => ChannelsHopped
  <2> SUFFICES ASSUME PlanP!PlanInv PROVE Plan!ChannelsHopped BY DEF PlanRuns, ChannelsHopped
  <2>1. PlanP!ChannelsHopped BY PlanP!PlanHops
  <2> QED BY <2>1 DEF PlanP!ChannelsHopped, Plan!ChannelsHopped, Plan!MaskRates,
      PlanP!MaskRates, Plan!RatesOf, PlanP!RatesOf, Plan!Narrow, PlanP!Narrow,
      Plan!FiftySix, PlanP!FiftySix
<1> QED BY <1>1, PlanRunsInit, PlanRunsNext, PTL DEF Spec

\* The back-off of a device that is not answered any more enables all the channels again,
\* but for a lone narrow channel or LR-FHSS on wide channels only
\* (smtc_real_decrement_dr).
THEOREM ServicesBackoffRecovers == Spec => []BackoffRecovers
<1>1. PlanRuns => BackoffRecovers
  <2> SUFFICES ASSUME PlanP!PlanInv PROVE Plan!BackoffRecovers
    BY DEF PlanRuns, BackoffRecovers
  <2>1. PlanP!FixedPlanAssumption BY ServicesAssumption, SamePlan DEF ServicesAssumption
  <2>2. PlanP!BackoffRecovers BY <2>1, PlanP!PlanRecovers
  <2>3. \A d : Plan!Decremented(d) = PlanP!Decremented(d) BY PlanDecremented
  <2>4. /\ Plan!Rates = PlanP!Rates /\ Plan!Narrow = PlanP!Narrow
        /\ Plan!Channels = PlanP!Channels
        /\ \A S : Plan!Cardinality(S) = PlanP!Cardinality(S)
        /\ \A m : Plan!MaskRates(m) = PlanP!MaskRates(m)
    BY DEF Plan!Rates, PlanP!Rates, Plan!Narrow, PlanP!Narrow, Plan!Channels,
      PlanP!Channels, Plan!Wide, PlanP!Wide, Plan!MaskRates, PlanP!MaskRates,
      Plan!RatesOf, PlanP!RatesOf, Plan!Cardinality, PlanP!Cardinality
  <2>5. Plan!Backed = PlanP!Backed BY <2>3, <2>4 DEF Plan!Backed, PlanP!Backed
  <2> QED BY <2>2, <2>4, <2>5 DEF PlanP!BackoffRecovers, Plan!BackoffRecovers
<1> QED BY <1>1, PlanRunsInit, PlanRunsNext, PTL DEF Spec

-----------------------------------------------------------------------------
(* Class C. *)

ClassCP == INSTANCE ClassCProofs WITH
    Groups <- ccGroups, Params <- ccParams, MaxCount <- ccMaxCount,
    joined <- ccJoined, rx2 <- ccRx2, fcnt <- ccFcnt, enabled <- ccEnabled,
    started <- ccStarted, table <- ccTable, hook <- ccHook, main <- ccMain,
    seen <- ccSeen, past <- ccPast

\* Class C of Services and of its proofs are the same.
LEMMA SameClassC ==
    /\ ClassC!ClassCAssumption <=> ClassCP!ClassCAssumption
    /\ ClassC!Init <=> ClassCP!Init
    /\ ClassC!Next <=> ClassCP!Next
<1>1. ClassC!ClassCAssumption <=> ClassCP!ClassCAssumption
  BY DEF ClassC!ClassCAssumption, ClassCP!ClassCAssumption, ClassC!None, ClassCP!None,
    ClassC!IsFiniteSet, ClassCP!IsFiniteSet
<1>2. ClassC!Init <=> ClassCP!Init
  BY DEF ClassC!Init, ClassCP!Init, ClassC!Sessions, ClassCP!Sessions, ClassC!None,
    ClassCP!None, ClassC!Idle, ClassCP!Idle, ClassC!Unicast, ClassCP!Unicast,
    ClassC!NoFault, ClassCP!NoFault
<1>3. ClassC!Next <=> ClassCP!Next
  BY DEF ClassC!Next, ClassCP!Next, ClassC!Callback, ClassCP!Callback,
    ClassC!CallbackFrame, ClassCP!CallbackFrame, ClassC!CallbackEmpty,
    ClassCP!CallbackEmpty, ClassC!Take, ClassCP!Take, ClassC!TakeStray,
    ClassCP!TakeStray, ClassC!Taken, ClassCP!Taken, ClassC!Counters, ClassCP!Counters,
    ClassC!Ready, ClassCP!Ready, ClassC!MainIdle, ClassCP!MainIdle, ClassC!Join,
    ClassCP!Join, ClassC!SetClassC, ClassCP!SetClassC, ClassC!WriteStarted,
    ClassCP!WriteStarted, ClassC!SetOtherClass, ClassCP!SetOtherClass, ClassC!Leave,
    ClassCP!Leave, ClassC!LeaveEnd, ClassCP!LeaveEnd, ClassC!RxParamSetup,
    ClassCP!RxParamSetup, ClassC!Compatible, ClassCP!Compatible, ClassC!StartMulticast,
    ClassCP!StartMulticast, ClassC!StopMulticast, ClassCP!StopMulticast,
    ClassC!StopMulticastB, ClassCP!StopMulticastB, ClassC!StopEnd, ClassCP!StopEnd,
    ClassC!ClassARead, ClassCP!ClassARead, ClassC!ClassAWrite, ClassCP!ClassAWrite,
    ClassC!Disable, ClassCP!Disable, ClassC!Restored, ClassCP!Restored, ClassC!Off,
    ClassCP!Off, ClassC!Start, ClassCP!Start, ClassC!Abort, ClassCP!Abort,
    ClassC!EndOfTask, ClassCP!EndOfTask, ClassC!Launch, ClassCP!Launch,
    ClassC!Refreshed, ClassCP!Refreshed, ClassC!On, ClassCP!On, ClassC!OnGroups,
    ClassCP!OnGroups, ClassC!Min, ClassCP!Min, ClassC!Sessions, ClassCP!Sessions,
    ClassC!None, ClassCP!None, ClassC!Idle, ClassCP!Idle, ClassC!Unicast,
    ClassCP!Unicast, ClassC!NoFault, ClassCP!NoFault
<1> QED BY <1>1, <1>2, <1>3

\* Class C's invariant while class C runs.
ClassCRuns == which = "ClassC" => ClassCP!ClassCInv

\* It holds of every behaviour.
LEMMA ClassCRunsInvariant == Spec => []ClassCRuns
<1>0. ClassCP!ClassCAssumption BY ServicesAssumption, SameClassC DEF ServicesAssumption
<1>1. Init => ClassCRuns
  <2> SUFFICES ASSUME Init, which = "ClassC" PROVE ClassCP!ClassCInv BY DEF ClassCRuns
  <2>1. ClassCP!Init BY SameClassC DEF Init
  <2> QED BY <1>0, <2>1, ClassCP!InitClassC
<1>2. ClassCRuns /\ [Next]_vars => ClassCRuns'
  <2> SUFFICES ASSUME ClassCRuns, [Next]_vars, which' = "ClassC" PROVE ClassCP!ClassCInv'
    BY DEF ClassCRuns
  <2>1. which = "ClassC" /\ (ClassC!Next \/ UNCHANGED ccVars) BY StepsOfOne
  <2>2. [ClassCP!Next]_ClassCP!vars BY <2>1, SameClassC DEF ccVars, ClassCP!vars
  <2>3. ClassCP!ClassCInv BY <2>1 DEF ClassCRuns
  <2> QED BY <1>0, <2>2, <2>3, ClassCP!NextClassC
<1> QED BY <1>1, <1>2, PTL DEF Spec

\* No downlink is taken twice by class A and class C (lr1mac_class_c.c).
THEOREM ServicesDownlinkOnce == Spec => []DownlinkOnce
<1>1. ClassCRuns => DownlinkOnce
  BY DEF ClassCRuns, ClassCP!ClassCInv, DownlinkOnce, ClassC!DownlinkOnce,
    ClassCP!DownlinkOnce
<1> QED BY <1>1, ClassCRunsInvariant, PTL

\* Class C listens to every session enabled (lr1mac_class_c.c).
THEOREM ServicesSessionsHeard == Spec => []SessionsHeard
<1>1. ClassCRuns => SessionsHeard
  <2> SUFFICES ASSUME ClassCP!ClassCInv PROVE ClassC!SessionsHeard
    BY DEF ClassCRuns, SessionsHeard
  <2>1. ClassCP!SessionsHeard BY ClassCP!HeardByInvariant
  <2> QED
    BY <2>1 DEF ClassC!SessionsHeard, ClassCP!SessionsHeard, ClassC!Idle, ClassCP!Idle,
      ClassC!Ready, ClassCP!Ready, ClassC!NoFault, ClassCP!NoFault, ClassC!None,
      ClassCP!None, ClassC!OnGroups, ClassCP!OnGroups, ClassC!On, ClassCP!On,
      ClassC!Unicast, ClassCP!Unicast
<1> QED BY <1>1, ClassCRunsInvariant, PTL

\* Class C's callback finds a session to launch or to decode for (lr1mac_class_c.c).
THEOREM ServicesSessionFound == Spec => []SessionFound
<1>1. ClassCRuns => SessionFound
  BY DEF ClassCRuns, ClassCP!ClassCInv, SessionFound, ClassC!SessionFound,
    ClassCP!SessionFound
<1> QED BY <1>1, ClassCRunsInvariant, PTL

-----------------------------------------------------------------------------
(* Sets of numbers. *)

\* The members of S above x.
Above(S, x) == {y \in S : y > x}

\* A finite set of numbers has a greatest member.
LEMMA HasGreatest ==
    ASSUME NEW S \in SUBSET Int, IsFiniteSet(S), S # {}
    PROVE  \E x \in S : \A y \in S : x >= y
<1> DEFINE T == {Above(S, x) : x \in S}
<1>1. T \subseteq FiniteSubsetsOf(S) /\ T # {}
  <2>1. \A x \in S : Above(S, x) \in SUBSET S BY DEF Above
  <2>2. T \subseteq SUBSET S BY <2>1
  <2>3. T # {} OBVIOUS
  <2>4. FiniteSubsetsOf(S) = SUBSET S BY FS_FiniteSubsetsOfFinite
  <2> HIDE DEF T
  <2> QED BY <2>2, <2>3, <2>4
<1>2. PICK R \in T : \A Q \in T : <<Q, R>> \notin StrictSubsetOrdering(S)
  <2> HIDE DEF T
  <2> QED BY <1>1, FS_StrictSubsetOrderingWellFounded, WFMin, Zenon
<1>3. PICK x \in S : R = Above(S, x) BY <1>2
<1>4. ASSUME NEW y \in S, y > x PROVE FALSE
  <2>1. x \in Int /\ y \in Int /\ \A z \in S : z \in Int OBVIOUS
  <2>4. y \in R /\ y \notin Above(S, y) BY <1>3, <1>4, <2>1 DEF Above
  <2>5. \A z \in Above(S, y) : z \in R BY <1>3, <1>4, <2>1 DEF Above
  <2>2. Above(S, y) \in T /\ Above(S, y) \in SUBSET S /\ R \in SUBSET S
    BY <1>3 DEF Above
  <2>3. <<Above(S, y), R>> \in StrictSubsetOrdering(S)
    BY <2>2, <2>4, <2>5 DEF StrictSubsetOrdering
  <2> QED BY <1>2, <2>2, <2>3
<1> QED BY <1>3, <1>4

-----------------------------------------------------------------------------
(* The stream. *)

\* The greater of two, as rose.c takes it.
LEMMA RoseMax2 ==
    ASSUME NEW a \in Int, NEW b \in Int
    PROVE  Rose!Max({a, b}) = IF a >= b THEN a ELSE b
<1>1. \E x \in {a, b} : \A y \in {a, b} : x >= y OBVIOUS
<1>2. Rose!Max({a, b}) \in {a, b} /\ \A y \in {a, b} : Rose!Max({a, b}) >= y
  BY <1>1 DEF Rose!Max
<1> QED BY <1>2

\* The smaller of two.
LEMMA RoseMin2 ==
    ASSUME NEW a \in Int, NEW b \in Int
    PROVE  Rose!Min({a, b}) = IF a <= b THEN a ELSE b
<1>1. \E x \in {a, b} : \A y \in {a, b} : x <= y OBVIOUS
<1>2. Rose!Min({a, b}) \in {a, b} /\ \A y \in {a, b} : Rose!Min({a, b}) <= y
  BY <1>1 DEF Rose!Min
<1> QED BY <1>2

\* The smallest of three.
LEMMA RoseMin3 ==
    ASSUME NEW a \in Int, NEW b \in Int, NEW c \in Int
    PROVE  /\ Rose!Min({a, b, c}) \in {a, b, c}
           /\ Rose!Min({a, b, c}) <= a /\ Rose!Min({a, b, c}) <= b
           /\ Rose!Min({a, b, c}) <= c
<1>1. \E x \in {a, b, c} : \A y \in {a, b, c} : x <= y OBVIOUS
<1>2. Rose!Min({a, b, c}) \in {a, b, c} /\ \A y \in {a, b, c} : Rose!Min({a, b, c}) <= y
  BY <1>1 DEF Rose!Min
<1> QED BY <1>2

\* The largest window is one of them.
LEMMA RoseDefault == Rose!StreamAssumption => Rose!DefaultWindow \in roseWindows
<1> SUFFICES ASSUME Rose!StreamAssumption PROVE Rose!DefaultWindow \in roseWindows
  OBVIOUS
<1>1. roseWindows \in SUBSET Int /\ IsFiniteSet(roseWindows) /\ roseWindows # {}
  BY DEF Rose!StreamAssumption, Rose!IsFiniteSet, IsFiniteSet
<1> QED BY <1>1, HasGreatest DEF Rose!DefaultWindow, Rose!Max

\* And no other is larger.
LEMMA RoseDefaultLargest ==
    ASSUME Rose!StreamAssumption, NEW w \in roseWindows
    PROVE  w <= Rose!DefaultWindow
<1>1. roseWindows \in SUBSET Int /\ IsFiniteSet(roseWindows) /\ roseWindows # {}
  BY DEF Rose!StreamAssumption, Rose!IsFiniteSet, IsFiniteSet
<1> QED BY <1>1, HasGreatest DEF Rose!DefaultWindow, Rose!Max

\* A sequence of consecutive offsets is a run of them.
LEMMA IsRun ==
    ASSUME NEW s \in Seq(Int), NEW a \in Int, \A i \in 1 .. Len(s) : s[i] = a + i - 1
    PROVE  s = Rose!Offsets(a, Len(s))
<1>1. s = [i \in 1 .. Len(s) |-> s[i]] OBVIOUS
<1> QED BY <1>1 DEF Rose!Offsets

\* A run of offsets is a sequence.
LEMMA RunOfOffsets ==
    ASSUME NEW a \in Int, NEW n \in Nat
    PROVE  /\ Rose!Offsets(a, n) \in Seq(Int) /\ Len(Rose!Offsets(a, n)) = n
           /\ \A i \in 1 .. n : Rose!Offsets(a, n)[i] = a + i - 1
BY DEF Rose!Offsets

\* No offset.
LEMMA EmptyRun == <<>> = Rose!Offsets(0, 0)
<1>1. Rose!Offsets(0, 0) \in Seq(Int) /\ Len(Rose!Offsets(0, 0)) = 0 BY RunOfOffsets
<1> QED BY <1>1, EmptySeq

\* Each part of a run is one.
LEMMA PartOfRun ==
    ASSUME NEW a \in Int, NEW n \in Nat, NEW j \in Nat, NEW k \in Nat, j <= k, k <= n
    PROVE  SubSeq(Rose!Offsets(a, n), j + 1, k) = Rose!Offsets(a + j, k - j)
<1> DEFINE s == Rose!Offsets(a, n)
<1>1. s \in Seq(Int) /\ Len(s) = n /\ \A i \in 1 .. n : s[i] = a + i - 1 BY RunOfOffsets
<1> HIDE DEF s
<1>2. SubSeq(s, j + 1, k) = Rose!Offsets(a + j, k - j) BY <1>1 DEF Rose!Offsets
<1> QED BY <1>2 DEF s

\* A run goes on where it ended.
LEMMA RunGoesOn ==
    ASSUME NEW a \in Int, NEW n \in Nat, NEW m \in Nat
    PROVE  Rose!Offsets(a, n) \o [i \in 1 .. m |-> a + n + i - 1] = Rose!Offsets(a, n + m)
<1> DEFINE s == Rose!Offsets(a, n)
           t == [i \in 1 .. m |-> a + n + i - 1]
<1>1. s \in Seq(Int) /\ Len(s) = n /\ \A i \in 1 .. n : s[i] = a + i - 1 BY RunOfOffsets
<1>2. t \in Seq(Int) /\ Len(t) = m /\ \A i \in 1 .. m : t[i] = a + n + i - 1 OBVIOUS
<1> HIDE DEF s, t
<1>3. /\ Len(s \o t) = n + m /\ s \o t \in Seq(Int)
      /\ \A i \in 1 .. n + m : (s \o t)[i] = IF i <= n THEN s[i] ELSE t[i - n]
  BY <1>1, <1>2, ConcatProperties, ZenonT(60)
<1>4. \A i \in 1 .. n + m : (s \o t)[i] = a + i - 1 BY <1>1, <1>2, <1>3
<1>5. s \o t = Rose!Offsets(a, n + m) BY <1>3, <1>4, IsRun
<1> QED BY <1>5 DEF s, t

\* Types, and the window is no longer than its length: it is shorter only while it
\* grows, when nothing is drawn from it.
RoseTypes ==
    /\ roseWl \in roseWindows /\ roseUnsent \in 0 .. roseWl /\ roseSoff \in Int
    /\ roseFifo \in Seq(Int) /\ roseUnsent <= Len(roseFifo)
    /\ roseRedcnt \in Int /\ roseRr \in roseRates

\* The stream until a window is shortened by more than it holds.
RoseSteady == RoseTypes /\ Rose!Decodable /\ Rose!Followed

\* The inductive invariant of the stream.
RoseInv == RoseSteady \/ (Rose!Astray /\ Rose!Decodable)

\* The count of redundancy stays a number when it is diluted.
LEMMA DilutedIsNumber ==
    ASSUME NEW count \in Int, NEW w \in Nat \ {0}, NEW n \in Int
    PROVE  Rose!Diluted(count, w, n) \in Int
<1>1. count * (w - n) \in Int OBVIOUS
<1>2. \A a \in Int : a \div w \in Int OBVIOUS
<1> QED BY <1>1, <1>2 DEF Rose!Diluted, Rose!Quotient

\* What the assumption says of a window.
LEMMA WindowFacts ==
    ASSUME Rose!StreamAssumption
    PROVE  /\ roseSize \in Nat /\ roseMaxSysc \in Nat \ {0} /\ roseRates \subseteq Nat
           /\ roseRooms \subseteq Nat /\ roseRecords \subseteq Nat \ {0}
           /\ \A w \in roseWindows : w \in Nat \ {0} /\ roseVectorLen[w] \in Nat
           /\ \A v, w \in roseWindows : v <= w => roseVectorLen[v] <= roseVectorLen[w]
           /\ Rose!DefaultWindow \in roseWindows
           /\ roseSize > Rose!DefaultWindow + roseVectorLen[Rose!DefaultWindow]
           /\ roseWrap \in Nat /\ roseSize < roseWrap
BY RoseDefault DEF Rose!StreamAssumption

\* A stream begins with a window of zeros.
LEMMA RoseBegins ==
    ASSUME Rose!StreamAssumption, NEW w, w = Rose!DefaultWindow,
           NEW f, f = [i \in 1 .. w |-> i - 1 - w]
    PROVE  /\ w \in roseWindows /\ w \in Nat \ {0}
           /\ f \in Seq(Int) /\ Len(f) = w /\ f = Rose!Offsets(0 - w, w)
           /\ w <= roseSize - roseVectorLen[w]
           /\ Rose!Target(w, 110) \in Int
           /\ <<>> = Rose!Offsets(0, 0) /\ Len(<<>>) = 0
<1>1. w \in roseWindows /\ w \in Nat \ {0} /\ roseVectorLen[w] \in Nat /\ roseSize \in Nat
      /\ roseSize > w + roseVectorLen[w]
  BY WindowFacts
<1>2. f \in Seq(Int) /\ Len(f) = w /\ \A i \in 1 .. w : f[i] = (0 - w) + i - 1
  BY <1>1
<1>3. f = Rose!Offsets(0 - w, w) BY <1>1, <1>2, IsRun
<1>4. Rose!Target(w, 110) \in Int BY <1>1 DEF Rose!Target
<1>5. <<>> = Rose!Offsets(0, 0) BY EmptyRun
<1> QED BY <1>1, <1>2, <1>3, <1>4, <1>5

\* The stream at first.
LEMMA InitRose == ASSUME Rose!StreamAssumption, Rose!Init PROVE RoseSteady
<1>1. /\ roseWl = Rose!DefaultWindow /\ roseUnsent = roseWl /\ roseSoff = 0
      /\ roseFifo = [i \in 1 .. roseWl |-> i - 1 - roseWl] /\ roseRr \in roseRates
      /\ roseRedcnt = Rose!Target(roseWl, 110) /\ roseFrame = Rose!NoFrame
  BY DEF Rose!Init
<1>2. /\ roseWl \in roseWindows /\ roseWl \in Nat \ {0}
      /\ roseFifo \in Seq(Int) /\ Len(roseFifo) = roseWl
      /\ roseFifo = Rose!Offsets(0 - roseWl, roseWl)
      /\ roseWl <= roseSize - roseVectorLen[roseWl]
      /\ Rose!Target(roseWl, 110) \in Int
      /\ <<>> = Rose!Offsets(0, 0) /\ Len(<<>>) = 0
  BY <1>1, RoseBegins
<1> QED
  BY <1>1, <1>2 DEF RoseSteady, RoseTypes, Rose!Decodable, Rose!Followed, Rose!NoFrame, Rose!Fill

\* The octets up to fill after the first n have left, with as many or fewer pending.
LEMMA ShiftedRun ==
    ASSUME RoseSteady, NEW n \in 0 .. Len(roseFifo)
    PROVE  /\ Rose!Shifted(roseFifo, n)
                 = Rose!Offsets(roseSoff - roseUnsent + n, Len(roseFifo) - n)
           /\ Rose!Shifted(roseFifo, n) \in Seq(Int)
           /\ Len(Rose!Shifted(roseFifo, n)) = Len(roseFifo) - n
<1> DEFINE a == roseSoff - roseUnsent
           m == Len(roseFifo)
<1>1. a \in Int /\ m \in Nat /\ roseFifo = Rose!Offsets(a, m)
  BY DEF RoseSteady, RoseTypes, Rose!Decodable, Rose!Followed, Rose!Fill
<1> HIDE DEF a, m
<1>2. SubSeq(Rose!Offsets(a, m), n + 1, m) = Rose!Offsets(a + n, m - n)
  <2>1. n \in Nat /\ n <= m /\ m <= m BY <1>1 DEF m
  <2> QED BY <1>1, <2>1, PartOfRun, Zenon
<1>3. Rose!Shifted(roseFifo, n) = Rose!Offsets(a + n, m - n)
  BY <1>1, <1>2 DEF Rose!Shifted, m
<1>4. a + n \in Int /\ m - n \in Nat BY <1>1 DEF m
<1>5. Rose!Offsets(a + n, m - n) \in Seq(Int) /\ Len(Rose!Offsets(a + n, m - n)) = m - n
  BY <1>4, RunOfOffsets
<1> QED BY <1>3, <1>5 DEF a, m

\* Systematic data: a run of the pending octets.
LEMMA PendingRun ==
    ASSUME RoseSteady, NEW n \in 0 .. Len(roseFifo) - roseUnsent
    PROVE  LET s == SubSeq(roseFifo, roseUnsent + 1, roseUnsent + n)
           IN  s = Rose!Offsets(roseSoff, n) /\ Len(s) = n
<1> DEFINE a == roseSoff - roseUnsent
           m == Len(roseFifo)
           u == roseUnsent
<1>1. /\ a \in Int /\ m \in Nat /\ roseFifo = Rose!Offsets(a, m) /\ u \in Nat /\ u <= m
      /\ a + u = roseSoff /\ roseSoff \in Int
  <2>1. roseWl \in roseWindows /\ roseUnsent \in 0 .. roseWl /\ roseSoff \in Int
        /\ roseFifo = Rose!Offsets(a, m) /\ roseFifo \in Seq(Int) /\ u <= m
    BY DEF RoseSteady, RoseTypes, Rose!Decodable, Rose!Followed, Rose!Fill
  <2> QED BY <2>1
<1>2. n \in Nat /\ u + n <= m BY <1>1
<1> HIDE DEF a, m, u
<1>3. SubSeq(Rose!Offsets(a, m), u + 1, u + n) = Rose!Offsets(roseSoff, n)
  <2> DEFINE k == u + n
  <2>1. a \in Int /\ m \in Nat /\ u \in Nat /\ k \in Nat /\ u <= k /\ k <= m
    BY <1>1, <1>2
  <2>3. k = u + n /\ k - u = n BY <1>1, <1>2
  <2> HIDE DEF k
  <2>2. SubSeq(Rose!Offsets(a, m), u + 1, k) = Rose!Offsets(a + u, k - u)
    BY <2>1, PartOfRun, ZenonT(60)
  <2>4. SubSeq(Rose!Offsets(a, m), u + 1, u + n) = Rose!Offsets(a + u, n)
    BY <2>1, <2>2, <2>3, SMTT(40)
  <2> QED BY <1>1, <2>4, ZenonT(60)
<1>5. Len(Rose!Offsets(roseSoff, n)) = n BY <1>1, <1>2, RunOfOffsets
<1> QED BY <1>1, <1>3, <1>5 DEF u

\* Records that are added follow those before them.
LEMMA AddKeeps ==
    ASSUME Rose!StreamAssumption, RoseSteady, Rose!AddRecord
    PROVE  RoseSteady'
<1>1. PICK n \in roseRecords :
        /\ n <= Rose!FreeToVector
        /\ roseFifo' = roseFifo
             \o [i \in 1 .. n |-> roseSoff + (Rose!Fill - roseUnsent) + i - 1]
  BY DEF Rose!AddRecord
<1>2. UNCHANGED <<roseWl, roseUnsent, roseSoff, roseRedcnt, roseRr, roseFrame>>
  BY DEF Rose!AddRecord
<1> DEFINE a == roseSoff - roseUnsent
           m == Len(roseFifo)
<1>3. /\ a \in Int /\ m \in Nat /\ n \in Nat /\ roseFifo = Rose!Offsets(a, m)
      /\ roseSoff \in Int /\ roseUnsent \in Int /\ roseUnsent <= m
  BY WindowFacts DEF RoseSteady, RoseTypes, Rose!Decodable, Rose!Followed, Rose!Fill
<1>4. [i \in 1 .. n |-> roseSoff + (Rose!Fill - roseUnsent) + i - 1]
        = [i \in 1 .. n |-> a + m + i - 1]
  BY <1>3 DEF Rose!Fill
<1>5. a' = a BY <1>2
<1> HIDE DEF a
<1>6. Rose!Offsets(a, m) \o [i \in 1 .. n |-> a + m + i - 1] = Rose!Offsets(a, m + n)
  <2> HIDE DEF m
  <2> QED BY <1>3, RunGoesOn
<1>7. roseFifo' = Rose!Offsets(a, m + n)
  BY <1>1, <1>3, <1>4, <1>6, Zenon
<1>8. roseFifo' \in Seq(Int) /\ Len(roseFifo') = m + n
  <2>1. m + n \in Nat BY <1>3
  <2> QED BY <1>3, <1>7, <2>1, RunOfOffsets
<1>9. m + n <= roseSize - roseVectorLen[roseWl]
  <2>1. n <= roseSize - roseVectorLen[roseWl] - m BY <1>1 DEF Rose!FreeToVector, Rose!Fill
  <2>2. roseSize \in Nat /\ roseVectorLen[roseWl] \in Nat
    BY WindowFacts DEF RoseSteady, RoseTypes
  <2> QED BY <1>3, <2>1, <2>2
<1>10. roseUnsent' <= m + n BY <1>2, <1>3
<1>11. roseFifo' = Rose!Offsets((roseSoff - roseUnsent)', Len(roseFifo'))
  BY <1>5, <1>7, <1>8 DEF a
<1> QED
  BY <1>2, <1>8, <1>9, <1>10, <1>11
  DEF RoseSteady, RoseTypes, Rose!Decodable, Rose!Followed, Rose!Fill

\* A frame of systematic data alone, while the window is not full.
LEMMA OverrunKeeps ==
    ASSUME Rose!StreamAssumption, RoseSteady, NEW room \in roseRooms, Rose!GetOverrun(room)
    PROVE  RoseSteady'
<1> DEFINE m == Len(roseFifo)
           sysc == Rose!Min({m - roseUnsent, room, roseMaxSysc})
           shift == Rose!Max({roseUnsent + sysc - roseWl, 0})
<1>1. /\ roseWl \in roseWindows /\ roseWl \in Nat \ {0} /\ roseVectorLen[roseWl] \in Nat
      /\ roseUnsent \in 0 .. roseWl /\ m \in Nat /\ roseUnsent <= m /\ roseSoff \in Int
      /\ room \in Nat /\ roseMaxSysc \in Nat /\ roseSize \in Nat
      /\ m <= roseSize - roseVectorLen[roseWl]
      /\ roseRedcnt \in Int /\ roseRr \in roseRates
  BY WindowFacts DEF RoseSteady, RoseTypes, Rose!Decodable, Rose!Followed, Rose!Fill
<1>2. /\ roseFrame' = [soff |-> roseSoff,
                       sys |-> SubSeq(roseFifo, roseUnsent + 1, roseUnsent + sysc),
                       window |-> <<>>]
      /\ roseSoff' = roseSoff + sysc /\ roseUnsent' = roseUnsent + sysc - shift
      /\ roseFifo' = Rose!Shifted(roseFifo, shift)
      /\ roseRedcnt' = IF shift > 0 THEN Rose!Diluted(roseRedcnt, roseWl, shift) ELSE roseRedcnt
      /\ UNCHANGED <<roseWl, roseRr>>
  BY DEF Rose!GetOverrun, Rose!Fill
<1>3. sysc \in 0 .. m - roseUnsent
  <2>1. m - roseUnsent \in Nat /\ m - roseUnsent \in Int /\ room \in Int /\ roseMaxSysc \in Int
    BY <1>1
  <2>2. /\ sysc \in {m - roseUnsent, room, roseMaxSysc} /\ sysc <= m - roseUnsent
    BY <2>1, RoseMin3, Zenon
  <2> HIDE DEF sysc
  <2> QED BY <1>1, <2>1, <2>2
<1>4. shift \in 0 .. m /\ roseUnsent + sysc - shift \in 0 .. roseWl
      /\ roseUnsent + sysc <= m
  <2>1. roseUnsent + sysc - roseWl \in Int /\ 0 \in Int
    <3> HIDE DEF sysc
    <3> QED BY <1>1, <1>3
  <2>2. shift = IF roseUnsent + sysc - roseWl >= 0 THEN roseUnsent + sysc - roseWl ELSE 0
    BY <2>1, RoseMax2, Zenon
  <2> HIDE DEF shift, sysc, m
  <2> QED BY <1>1, <1>3, <2>2
<1> HIDE DEF shift, sysc
<1>5. /\ roseFifo' = Rose!Offsets(roseSoff - roseUnsent + shift, m - shift)
      /\ roseFifo' \in Seq(Int) /\ Len(roseFifo') = m - shift
  BY <1>2, <1>4, ShiftedRun
<1>6. /\ SubSeq(roseFifo, roseUnsent + 1, roseUnsent + sysc) = Rose!Offsets(roseSoff, sysc)
      /\ Len(SubSeq(roseFifo, roseUnsent + 1, roseUnsent + sysc)) = sysc
  BY <1>3, PendingRun
<1> HIDE DEF m
<1>7. roseSoff' - roseUnsent' = roseSoff - roseUnsent + shift /\ roseUnsent' <= m - shift
  BY <1>1, <1>2, <1>3, <1>4
<1>8. roseRedcnt' \in Int BY <1>1, <1>2, <1>4, DilutedIsNumber
<1>9. roseSoff' \in Int /\ roseUnsent' \in 0 .. roseWl
      /\ m - shift <= roseSize - roseVectorLen[roseWl]
  BY <1>1, <1>2, <1>3, <1>4
<1>10. /\ roseFrame'.soff = roseSoff /\ roseFrame'.window = <<>>
       /\ roseFrame'.sys = Rose!Offsets(roseSoff, sysc) /\ Len(roseFrame'.sys) = sysc
  BY <1>2, <1>6
<1> QED
  BY <1>1, <1>2, <1>5, <1>7, <1>8, <1>9, <1>10
  DEF RoseSteady, RoseTypes, Rose!Decodable, Rose!Followed, Rose!Fill

\* A frame of redundancy, then systematic data.
LEMMA FrameKeeps ==
    ASSUME Rose!StreamAssumption, RoseSteady, NEW room \in roseRooms, Rose!GetFrame(room)
    PROVE  RoseSteady'
<1> DEFINE m == Len(roseFifo)
           goal == Rose!Target(roseWl, roseRr)
           owed == Rose!Min({roseWl, Rose!Max({0, goal - roseRedcnt})})
           redc == Rose!Min({owed, room})
           sysc == IF owed > room THEN 0
                   ELSE Rose!Min({m - roseUnsent, roseMaxSysc, room - redc})
           count == IF redc > 0 THEN Rose!Min({goal, roseRedcnt + redc}) ELSE roseRedcnt
           wind == IF redc > 0 THEN Rose!WindowBefore(sysc) ELSE <<>>
<1>1. /\ roseWl \in roseWindows /\ roseWl \in Nat \ {0} /\ roseVectorLen[roseWl] \in Nat
      /\ roseUnsent \in 0 .. roseWl /\ m \in Nat /\ roseUnsent <= m /\ roseSoff \in Int
      /\ room \in Nat /\ roseMaxSysc \in Nat /\ roseSize \in Nat
      /\ m <= roseSize - roseVectorLen[roseWl]
      /\ roseRedcnt \in Int /\ roseRr \in roseRates /\ roseRr \in Nat
      /\ roseFifo = Rose!Offsets(roseSoff - roseUnsent, m)
  BY WindowFacts DEF RoseSteady, RoseTypes, Rose!Decodable, Rose!Followed, Rose!Fill
<1>2. /\ roseUnsent >= roseWl
      /\ roseFrame' = [soff |-> roseSoff,
                       sys |-> SubSeq(roseFifo, roseUnsent + 1, roseUnsent + sysc),
                       window |-> wind]
      /\ roseSoff' = roseSoff + sysc
      /\ roseFifo' = Rose!Shifted(roseFifo, sysc)
      /\ roseRedcnt' = IF sysc > 0 THEN Rose!Diluted(count, roseWl, sysc) ELSE count
      /\ UNCHANGED <<roseWl, roseUnsent, roseRr>>
  BY DEF Rose!GetFrame, Rose!Fill
<1>3. roseUnsent = roseWl BY <1>1, <1>2
<1>4. goal \in Int BY <1>1 DEF Rose!Target
<1> HIDE DEF goal
<1>5. owed \in Int
  <2>1. goal - roseRedcnt \in Int /\ 0 \in Int BY <1>1, <1>4
  <2> DEFINE lack == Rose!Max({0, goal - roseRedcnt})
  <2>2. lack = IF 0 >= goal - roseRedcnt THEN 0 ELSE goal - roseRedcnt
    BY <2>1, RoseMax2, Zenon
  <2>3. lack \in Int BY <2>1, <2>2
  <2> HIDE DEF lack
  <2>4. Rose!Min({roseWl, lack}) = IF roseWl <= lack THEN roseWl ELSE lack
    BY <1>1, <2>3, RoseMin2
  <2>5. Rose!Min({roseWl, lack}) \in Int BY <1>1, <2>3, <2>4
  <2> QED BY <2>5 DEF lack
<1> HIDE DEF owed
<1>6. redc \in Int /\ redc <= room
  <2>1. room \in Int BY <1>1
  <2>2. redc = IF owed <= room THEN owed ELSE room BY <1>5, <2>1, RoseMin2, Zenon
  <2> HIDE DEF redc
  <2> QED BY <1>1, <1>5, <2>2
<1> HIDE DEF redc
<1>7. sysc \in 0 .. m - roseUnsent
  <2>1. m - roseUnsent \in Nat BY <1>1
  <2>2. CASE owed > room BY <2>1, <2>2
  <2>3. CASE owed <= room
    <3>1. /\ room - redc \in Nat /\ room - redc \in Int /\ m - roseUnsent \in Int
          /\ roseMaxSysc \in Int
      BY <1>1, <1>6, <2>3
    <3>2. sysc = Rose!Min({m - roseUnsent, roseMaxSysc, room - redc}) BY <1>1, <1>5, <2>3
    <3> HIDE DEF sysc
    <3>3. sysc \in {m - roseUnsent, roseMaxSysc, room - redc} /\ sysc <= m - roseUnsent
      BY <3>1, <3>2, RoseMin3, Zenon
    <3> QED BY <1>1, <2>1, <3>1, <3>3
  <2> QED BY <1>1, <1>5, <2>2, <2>3
<1>8. count \in Int
  <2>1. roseRedcnt + redc \in Int BY <1>1, <1>6
  <2>2. Rose!Min({goal, roseRedcnt + redc})
          = IF goal <= roseRedcnt + redc THEN goal ELSE roseRedcnt + redc
    BY <1>4, <2>1, RoseMin2, Zenon
  <2> QED BY <1>1, <1>4, <2>1, <2>2
<1> HIDE DEF sysc, count
<1>9. sysc \in 0 .. m BY <1>1, <1>7
<1>10. /\ roseFifo' = Rose!Offsets(roseSoff - roseUnsent + sysc, m - sysc)
       /\ roseFifo' \in Seq(Int) /\ Len(roseFifo') = m - sysc
  BY <1>2, <1>9, ShiftedRun
<1>11. /\ SubSeq(roseFifo, roseUnsent + 1, roseUnsent + sysc) = Rose!Offsets(roseSoff, sysc)
       /\ Len(SubSeq(roseFifo, roseUnsent + 1, roseUnsent + sysc)) = sysc
  BY <1>7, PendingRun
<1> HIDE DEF m
<1>12. wind = <<>> \/ wind = Rose!Offsets(roseSoff - roseWl, roseWl)
  <2>1. Rose!WindowBefore(sysc) = SubSeq(roseFifo, 1, roseWl) BY DEF Rose!WindowBefore
  <2>2. SubSeq(Rose!Offsets(roseSoff - roseWl, m), 1, roseWl)
          = Rose!Offsets(roseSoff - roseWl, roseWl)
    <3> DEFINE a == roseSoff - roseWl
               j == 0
    <3>1. /\ a \in Int /\ j \in Nat /\ roseWl \in Nat /\ m \in Nat
          /\ j <= roseWl /\ roseWl <= m /\ a + j = a /\ j + 1 = 1 /\ roseWl - j = roseWl
      BY <1>1, <1>3
    <3> HIDE DEF a, j
    <3>2. SubSeq(Rose!Offsets(a, m), j + 1, roseWl) = Rose!Offsets(a + j, roseWl - j)
      BY <3>1, PartOfRun, ZenonT(60)
    <3>3. SubSeq(Rose!Offsets(a, m), 1, roseWl) = Rose!Offsets(a, roseWl)
      BY <3>1, <3>2, Zenon
    <3> QED BY <3>3 DEF a
  <2> QED BY <1>1, <1>3, <2>1, <2>2
<1>13. roseSoff' - roseUnsent' = roseSoff - roseUnsent + sysc /\ roseUnsent' <= m - sysc
  BY <1>1, <1>2, <1>7
<1>14. roseRedcnt' \in Int BY <1>1, <1>2, <1>8, <1>9, DilutedIsNumber
<1>15. roseSoff' \in Int /\ roseUnsent' \in 0 .. roseWl
       /\ m - sysc <= roseSize - roseVectorLen[roseWl]
  BY <1>1, <1>2, <1>7
<1>16. /\ roseFrame'.soff = roseSoff /\ roseFrame'.window = wind
       /\ roseFrame'.sys = Rose!Offsets(roseSoff, sysc) /\ Len(roseFrame'.sys) = sysc
  BY <1>2, <1>11
<1> HIDE DEF wind
<1> QED
  BY <1>1, <1>2, <1>10, <1>12, <1>13, <1>14, <1>15, <1>16
  DEF RoseSteady, RoseTypes, Rose!Decodable, Rose!Followed, Rose!Fill

\* A number within the range of an unsigned variable is its own remainder.
LEMMA SmallRemainder ==
    ASSUME NEW k \in Nat, NEW x \in 0 .. k - 1
    PROVE  x % k = x
OBVIOUS

\* And one that is below it by less than the range wraps.
LEMMA WrappedRemainder ==
    ASSUME NEW k \in Nat, NEW x \in Int, x + k \in 0 .. k - 1
    PROVE  x % k = x + k
OBVIOUS

\* A shorter window: its oldest octets are dropped, and the start of the pending ones
\* wraps when they are among them.
LEMMA ShrinkKeeps ==
    ASSUME Rose!StreamAssumption, RoseSteady, Rose!Shrink
    PROVE  RoseInv'
<1>1. PICK w \in roseWindows :
        /\ w < roseWl
        /\ roseFifo' = Rose!Shifted(roseFifo, Rose!Shift(w))
        /\ roseUnsent' = (roseUnsent - Rose!Shift(w)) % roseWrap
        /\ roseRedcnt' = Rose!Diluted(roseRedcnt, roseWl, Rose!Shift(w))
        /\ roseWl' = w
  BY DEF Rose!Shrink
<1>2. UNCHANGED <<roseSoff, roseRr, roseFrame>> BY DEF Rose!Shrink
<1> DEFINE m == Len(roseFifo)
           n == roseWl - w
<1>3. Rose!Shift(w) = n BY DEF Rose!Shift
<1>4. /\ roseWl \in roseWindows /\ roseWl \in Nat \ {0} /\ w \in Nat \ {0}
      /\ roseUnsent \in 0 .. roseWl /\ m \in Nat /\ roseUnsent <= m
      /\ roseSoff \in Int /\ roseSize \in Nat /\ m <= roseSize - roseVectorLen[roseWl]
      /\ roseVectorLen[w] \in Nat /\ roseVectorLen[roseWl] \in Nat
      /\ roseVectorLen[w] <= roseVectorLen[roseWl] /\ roseRedcnt \in Int
      /\ roseWrap \in Nat /\ roseSize < roseWrap /\ roseWl < roseSize
  <2>1. roseWl \in roseWindows /\ roseUnsent \in 0 .. roseWl /\ m \in Nat
        /\ roseUnsent <= m /\ roseSoff \in Int /\ m <= roseSize - roseVectorLen[roseWl]
        /\ roseRedcnt \in Int
    BY DEF RoseSteady, RoseTypes, Rose!Decodable, Rose!Followed, Rose!Fill
  <2>2. roseWl \in Nat /\ w \in Nat /\ w <= roseWl BY <1>1, <2>1, WindowFacts
  <2>3. roseWl <= Rose!DefaultWindow BY <2>1, RoseDefaultLargest
  <2>4. roseWl < roseSize
    <3> DEFINE d == Rose!DefaultWindow
    <3>1. d \in Nat /\ roseVectorLen[d] \in Nat /\ roseSize \in Nat
          /\ roseSize > d + roseVectorLen[d]
      BY WindowFacts
    <3> HIDE DEF d
    <3>2. d < roseSize BY <3>1
    <3> QED BY <2>2, <2>3, <3>1, <3>2 DEF d
  <2> QED BY <2>1, <2>2, <2>4, WindowFacts
<1>5. n \in Nat /\ n < roseWrap /\ n <= roseWl BY <1>1, <1>4
<1>6. roseRedcnt' \in Int BY <1>1, <1>3, <1>4, <1>5, DilutedIsNumber
<1> HIDE DEF n
<1>7. CASE n <= roseUnsent
  <2>1. n \in 0 .. m BY <1>4, <1>5, <1>7
  <2>2. /\ roseFifo' = Rose!Offsets(roseSoff - roseUnsent + n, m - n)
        /\ roseFifo' \in Seq(Int) /\ Len(roseFifo') = m - n
    BY <1>1, <1>3, <2>1, ShiftedRun
  <2> HIDE DEF m
  <2>3. roseUnsent - n \in 0 .. roseWrap - 1 BY <1>4, <1>5, <1>7
  <2>4. (roseUnsent - n) % roseWrap = roseUnsent - n BY <1>4, <2>3, SmallRemainder
  <2>5. /\ roseUnsent' = roseUnsent - n /\ roseSoff' = roseSoff
        /\ roseSoff' - roseUnsent' = roseSoff - roseUnsent + n
    BY <1>1, <1>2, <1>3, <1>4, <1>5, <2>4
  <2>6. roseUnsent' \in 0 .. roseWl' /\ roseUnsent' <= m - n
        /\ m - n <= roseSize - roseVectorLen[roseWl']
    BY <1>1, <1>4, <1>5, <1>7, <2>5 DEF n
  <2>7. RoseSteady'
    BY <1>1, <1>2, <1>4, <1>6, <2>2, <2>5, <2>6
    DEF RoseSteady, RoseTypes, Rose!Decodable, Rose!Followed, Rose!Fill
  <2> QED BY <2>7 DEF RoseInv
<1>8. CASE n > roseUnsent
  <2>1. (roseUnsent - n) % roseWrap = roseUnsent - n + roseWrap
    <3> DEFINE x == roseUnsent - n
    <3>1. x \in Int /\ x + roseWrap \in 0 .. roseWrap - 1 BY <1>4, <1>5, <1>8
    <3> HIDE DEF x
    <3>2. x % roseWrap = x + roseWrap BY <1>4, <3>1, WrappedRemainder
    <3> QED BY <3>2 DEF x
  <2>2. roseUnsent' = roseUnsent - n + roseWrap BY <1>1, <1>3, <2>1
  <2>3. roseFifo' = SubSeq(roseFifo, n + 1, m) BY <1>1, <1>3 DEF Rose!Shifted
  <2>4. Len(roseFifo') = IF n + 1 <= m THEN m - n ELSE 0
    BY <1>4, <1>5, <2>3 DEF RoseSteady, RoseTypes
  <2>5. Rose!Astray'
    <3>1. m < roseWrap BY <1>4
    <3> HIDE DEF m
    <3>2. roseUnsent' > IF n + 1 <= m THEN m - n ELSE 0
      BY <1>4, <1>5, <1>8, <2>2, <3>1
    <3> QED BY <2>4, <3>2 DEF Rose!Astray, Rose!Fill
  <2>6. Rose!Decodable' BY <1>2 DEF RoseSteady, Rose!Decodable
  <2> QED BY <2>5, <2>6 DEF RoseInv
<1> QED BY <1>4, <1>5, <1>7, <1>8

\* A longer window, which the pending octets fill.
LEMMA GrowKeeps ==
    ASSUME Rose!StreamAssumption, RoseSteady, Rose!Grow
    PROVE  RoseSteady'
<1>1. PICK w \in roseWindows : w >= roseWl /\ Rose!FitsVector(w) /\ roseWl' = w
  BY DEF Rose!Grow
<1>2. UNCHANGED <<roseFifo, roseUnsent, roseSoff, roseRedcnt, roseRr, roseFrame>>
  BY DEF Rose!Grow
<1>3. roseWl \in Nat /\ w \in Nat BY WindowFacts DEF RoseSteady, RoseTypes
<1>4. roseUnsent' \in 0 .. roseWl' BY <1>1, <1>2, <1>3 DEF RoseSteady, RoseTypes
<1> QED
  BY <1>1, <1>2, <1>4
  DEF RoseSteady, RoseTypes, Rose!Decodable, Rose!Followed, Rose!Fill, Rose!FitsVector

\* A stream that is begun again.
LEMMA RestartKeeps ==
    ASSUME Rose!StreamAssumption, Rose!StreamInit
    PROVE  RoseSteady'
<1>1. /\ roseWl' = Rose!DefaultWindow /\ roseUnsent' = roseWl' /\ roseSoff' = 0
      /\ roseFifo' = [i \in 1 .. roseWl' |-> i - 1 - roseWl'] /\ roseRr' \in roseRates
      /\ roseRedcnt' = Rose!Target(roseWl', 110) /\ roseFrame' = Rose!NoFrame
  BY DEF Rose!StreamInit
<1>2. /\ roseWl' \in roseWindows /\ roseWl' \in Nat \ {0}
      /\ roseFifo' \in Seq(Int) /\ Len(roseFifo') = roseWl'
      /\ roseFifo' = Rose!Offsets(0 - roseWl', roseWl')
      /\ roseWl' <= roseSize - roseVectorLen[roseWl']
      /\ Rose!Target(roseWl', 110) \in Int
      /\ <<>> = Rose!Offsets(0, 0) /\ Len(<<>>) = 0
  BY <1>1, RoseBegins
<1> QED
  BY <1>1, <1>2 DEF RoseSteady, RoseTypes, Rose!Decodable, Rose!Followed, Rose!NoFrame, Rose!Fill

\* Every step of the stream keeps the invariant.
LEMMA NextRose ==
    ASSUME Rose!StreamAssumption, RoseInv, Rose!Next \/ UNCHANGED roseVars
    PROVE  RoseInv'
<1> USE DEF RoseInv
<1>0. ASSUME ~Rose!Astray PROVE RoseSteady BY <1>0
<1>1. CASE Rose!StreamInit BY <1>1, RestartKeeps
<1>2. CASE ~Rose!Astray /\ Rose!AddRecord BY <1>0, <1>2, AddKeeps
<1>3. CASE ~Rose!Astray /\ Rose!GetInfo
  <2>1. /\ UNCHANGED <<roseWl, roseUnsent, roseSoff, roseFifo, roseRedcnt, roseRr>>
        /\ roseFrame' = Rose!NoFrame
    BY <1>3 DEF Rose!GetInfo
  <2>2. roseFrame'.sys = Rose!Offsets(roseFrame'.soff, Len(roseFrame'.sys))
        /\ roseFrame'.window = <<>>
    BY <2>1, EmptyRun DEF Rose!NoFrame
  <2> QED BY <1>0, <1>3, <2>1, <2>2 DEF RoseSteady, RoseTypes, Rose!Decodable, Rose!Followed, Rose!Fill
<1>4. CASE ~Rose!Astray /\ Rose!GetData
  <2>1. PICK room \in roseRooms : Rose!GetOverrun(room) \/ Rose!GetFrame(room)
    BY <1>4 DEF Rose!GetData
  <2> QED BY <1>0, <1>4, <2>1, OverrunKeeps, FrameKeeps
<1>5. CASE ~Rose!Astray /\ Rose!Command
  <2>1. /\ UNCHANGED <<roseWl, roseUnsent, roseSoff, roseFifo, roseRedcnt, roseFrame>>
        /\ roseRr' \in roseRates
    BY <1>0, <1>5 DEF Rose!Command, RoseSteady, RoseTypes
  <2> QED BY <1>0, <1>5, <2>1 DEF RoseSteady, RoseTypes, Rose!Decodable, Rose!Followed, Rose!Fill
<1>6. CASE ~Rose!Astray /\ Rose!Shrink BY <1>0, <1>6, ShrinkKeeps
<1>7. CASE ~Rose!Astray /\ Rose!Grow BY <1>0, <1>7, GrowKeeps
<1>8. CASE UNCHANGED roseVars
  BY <1>8 DEF roseVars, RoseSteady, RoseTypes, Rose!Decodable, Rose!Followed, Rose!Fill, Rose!Astray
<1> QED BY <1>1, <1>2, <1>3, <1>4, <1>5, <1>6, <1>7, <1>8 DEF Rose!Next

\* The stream's invariant while the stream runs.
RoseRuns == which = "Rose" => RoseInv

\* What a frame of a stream carries is what the server needs to decode it (rose.c).
THEOREM ServicesFrameDecodable == Spec => []FrameDecodable
<1>0. Rose!StreamAssumption BY ServicesAssumption DEF ServicesAssumption
<1>1. Init => RoseRuns BY <1>0, InitRose DEF Init, RoseRuns, RoseInv
<1>2. RoseRuns /\ [Next]_vars => RoseRuns'
  <2> SUFFICES ASSUME RoseRuns, [Next]_vars, which' = "Rose" PROVE RoseInv'
    BY DEF RoseRuns
  <2>1. /\ which = "Rose" /\ (Rose!Next \/ UNCHANGED roseVars) BY StepsOfOne
  <2> QED BY <1>0, <2>1, NextRose DEF RoseRuns
<1>3. RoseRuns => FrameDecodable
  BY DEF RoseRuns, RoseInv, RoseSteady, FrameDecodable, Rose!FrameDecodable
<1> QED BY <1>1, <1>2, <1>3, PTL DEF Spec

-----------------------------------------------------------------------------
(* The clock. *)

\* The sooner of two dates of the clock.
LEMMA ClockMin2 ==
    ASSUME NEW a \in Int, NEW b \in Int
    PROVE  Clock!Min({a, b}) = IF a <= b THEN a ELSE b
<1>1. \E x \in {a, b} : \A y \in {a, b} : x <= y OBVIOUS
<1>2. Clock!Min({a, b}) \in {a, b} /\ \A y \in {a, b} : Clock!Min({a, b}) <= y
  BY <1>1 DEF Clock!Min
<1> QED BY <1>2

\* The later of two.
LEMMA ClockMax2 ==
    ASSUME NEW a \in Int, NEW b \in Int
    PROVE  Clock!Max({a, b}) = IF a >= b THEN a ELSE b
<1>1. \E x \in {a, b} : \A y \in {a, b} : x >= y OBVIOUS
<1>2. Clock!Max({a, b}) \in {a, b} /\ \A y \in {a, b} : Clock!Max({a, b}) >= y
  BY <1>1 DEF Clock!Max
<1> QED BY <1>2

\* What the assumption says of the clock.
LEMMA ClockFacts ==
    ASSUME Clock!ClockAssumption
    PROVE  /\ Clock!Default \in Nat \ {0} /\ clkPeriods \subseteq Nat
           /\ \A d \in clkDelays : d \in Nat /\ d <= Clock!Default
           /\ Clock!Min(clkPeriods) \in Nat
           /\ clkJitter \in Nat /\ clkJoinDelay \in Nat \ {0} /\ clkTokens \in Nat \ {0, 1}
           /\ clkErrors \subseteq Int
           /\ \A n \in Int : Clock!RetryDelay(n) \in Nat
           /\ clkRetries[1] \in Nat
<1>1. clkDelays \in SUBSET Int /\ IsFiniteSet(clkDelays) /\ clkDelays # {}
      /\ clkDelays \subseteq Nat \ {0} /\ clkPeriods \in SUBSET Nat /\ clkPeriods # {}
      /\ clkRetries \in [1 .. 3 -> Nat] /\ clkRequests1 \in Nat /\ clkRequests2 \in Nat
  BY DEF Clock!ClockAssumption, Clock!IsFiniteSet, IsFiniteSet
<1>2. Clock!Default \in clkDelays /\ \A d \in clkDelays : Clock!Default >= d
  BY <1>1, HasGreatest DEF Clock!Default, Clock!Max
<1>3. ClassCP!Min(clkPeriods) \in clkPeriods BY <1>1, ClassCP!MinOfNaturals
<1>4. Clock!Min(clkPeriods) \in Nat BY <1>1, <1>3 DEF Clock!Min, ClassCP!Min
<1>5. \A n \in Int : Clock!RetryDelay(n) \in Nat BY <1>1 DEF Clock!RetryDelay
<1> QED BY <1>1, <1>2, <1>4, <1>5 DEF Clock!ClockAssumption

\* The state of a service.
ClockEntry == [status : {"NO", "NETWORK", "MANUAL"},
               age : {Clock!Never} \cup (0 .. Clock!Default + 1),
               period : Nat, delay : 0 .. Clock!Default]

\* Types.
ClockTypes ==
    /\ clkSync \in [Clock!Services -> ClockEntry] /\ clkService \in Clock!Services
    /\ clkErr \in Int /\ clkDue \in {Clock!Never} \cup Nat
    /\ clkNbReq \in Int
    /\ \A a \in clkFlight : a.corr \in Int

\* A correction taken from the server is right, and so is every answer to the request
\* that is outstanding.
RightInv ==
    /\ clkSync["ALC"].status = "NETWORK" /\ clkSync["ALC"].age \in 0 .. Clock!Default
          => clkErr = 0 \/ clkMixed
    /\ clkMixed \/ \A a \in clkFlight : a.token = clkToken => clkErr + a.corr = 0

\* A synchronised modem has a request planned, and none is planned without the service.
Slack == Clock!Max({clkJitter, clkJoinDelay})
ClockLeft(x) == IF Clock!Valid(clkService, x) THEN x.delay - x.age ELSE 0
LapseInv ==
    /\ ~clkEnabled => clkDue = Clock!Never
    /\ clkEnabled /\ clkJoined /\ clkBusy # "REQ" =>
          /\ clkDue # Clock!Never
          /\ clkSync[clkService].status = "NETWORK" /\ ~clkReplan
                => clkDue <= ClockLeft(clkSync[clkService]) + Slack

\* The inductive invariant of the clock.
ClockInv == ClockTypes /\ RightInv /\ LapseInv

\* The invariant has the two properties.
LEMMA ClockProperties ==
    ASSUME Clock!ClockAssumption, ClockInv PROVE Clock!SyncedIsRight /\ Clock!LapseNoticed
<1>1. Clock!SyncedIsRight
  <2>1. clkSync["ALC"] \in ClockEntry BY DEF ClockInv, ClockTypes, Clock!Services
  <2>2. Clock!Valid("ALC", clkSync["ALC"]) => clkSync["ALC"].age \in 0 .. Clock!Default
    BY <2>1, ClockFacts DEF Clock!Valid, ClockEntry, Clock!Never
  <2> QED BY <2>2 DEF Clock!SyncedIsRight, ClockInv, RightInv
<1>2. Clock!LapseNoticed
  BY DEF Clock!LapseNoticed, ClockInv, LapseInv, ClockLeft, Slack
<1> QED BY <1>1, <1>2

\* A date is spread by no more than the jitter.
LEMMA SpreadBounds ==
    ASSUME Clock!ClockAssumption, NEW w \in Nat, NEW d \in Clock!Spread(w)
    PROVE  d \in Nat /\ d <= w + clkJitter /\ d <= w + Slack
<1>1. clkJitter \in Nat /\ clkJoinDelay \in Nat BY ClockFacts
<1>2. Clock!Min({clkJitter, w}) = IF clkJitter <= w THEN clkJitter ELSE w
  BY <1>1, ClockMin2
<1>3. Slack = IF clkJitter >= clkJoinDelay THEN clkJitter ELSE clkJoinDelay
  BY <1>1, ClockMax2 DEF Slack
<1>4. PICK j \in - Clock!Min({clkJitter, w}) .. clkJitter : d = w + j BY DEF Clock!Spread
<1>5. j \in Int /\ j <= clkJitter /\ 0 <= w + j BY <1>1, <1>2, <1>4
<1> QED BY <1>1, <1>3, <1>4, <1>5

\* The slack has room for the first request after a join.
LEMMA SlackBounds ==
    ASSUME Clock!ClockAssumption PROVE Slack \in Nat /\ 1 <= Slack /\ clkJoinDelay <= Slack
<1>1. clkJitter \in Nat /\ clkJoinDelay \in Nat \ {0} BY ClockFacts
<1> QED BY <1>1, ClockMax2 DEF Slack

\* What is left of a service's time.
LEMMA LeftBounds ==
    ASSUME Clock!ClockAssumption, NEW x \in ClockEntry
    PROVE  /\ ClockLeft(x) \in Nat /\ Clock!TimeLeft(x) \in Nat
           /\ Clock!Valid(clkService, x) => Clock!TimeLeft(x) = ClockLeft(x)
BY ClockFacts DEF ClockLeft, ClockEntry, Clock!Valid, Clock!TimeLeft, Clock!Never

\* The initial state.
LEMMA InitClock == ASSUME Clock!ClockAssumption, Clock!Init PROVE ClockInv
<1>1. Clock!Unset \in ClockEntry /\ Clock!Unset.status = "NO"
  BY ClockFacts DEF Clock!Unset, ClockEntry
<1> QED
  BY <1>1, ClockFacts DEF Clock!Init, ClockInv, ClockTypes, RightInv, LapseInv,
    Clock!Services

\* A step that leaves the correction and what is on its way alone, and does not take
\* ALCSync for synchronised.
LEMMA RightKept ==
    ASSUME RightInv, UNCHANGED <<clkErr, clkToken, clkFlight, clkMixed>>,
           clkSync'["ALC"].status = "NETWORK" =>
              /\ clkSync["ALC"].status = "NETWORK"
              /\ clkSync'["ALC"].age = clkSync["ALC"].age
    PROVE  RightInv'
BY DEF RightInv, Clock!Default

\* A step that leaves the plan alone, and does not take the service for synchronised.
LEMMA LapseKept ==
    ASSUME LapseInv, UNCHANGED <<clkDue, clkService, clkEnabled, clkJoined>>,
           clkBusy = "REQ" => clkBusy' = "REQ",
           ~clkReplan' => ~clkReplan,
           clkSync'[clkService].status = "NETWORK" /\ ~clkReplan' =>
              /\ clkSync[clkService].status = "NETWORK"
              /\ clkSync'[clkService].age = clkSync[clkService].age
              /\ clkSync'[clkService].delay = clkSync[clkService].delay
    PROVE  LapseInv'
BY DEF LapseInv, ClockLeft, Clock!Valid, Slack, Clock!Never

\* A synchronisation lost is the state of a service.
LEMMA LostEntry ==
    ASSUME NEW s \in Clock!Services, NEW x \in ClockEntry
    PROVE  /\ Clock!Lost(s, x) \in ClockEntry /\ Clock!Lost(s, x).status = "NO"
           /\ Clock!Lost(s, x).period = x.period /\ Clock!Lost(s, x).delay = x.delay
BY DEF Clock!Lost, ClockEntry, Clock!Never

-----------------------------------------------------------------------------
\* The user starts the service.
LEMMA ClockStart ==
    ASSUME Clock!ClockAssumption, ClockInv, NEW s \in Clock!Services, Clock!Start(s)
    PROVE  ClockInv'
<1> DEFINE reset == [clkSync EXCEPT !["MAC"].status = "NO"]
           first == clkJoined /\ clkDue = Clock!Never
<1>1. /\ ~clkEnabled /\ clkEnabled' = TRUE /\ clkService' = s /\ clkNbReq' = 0
      /\ clkSync' = IF first THEN [reset EXCEPT ![s] = Clock!Lost(s, @)] ELSE reset
      /\ clkDue' = IF first THEN 1 ELSE clkDue
      /\ UNCHANGED <<clkJoined, clkErr, clkToken, clkFlight, clkMixed, clkBusy>>
  BY DEF Clock!Start
<1>2. /\ reset \in [Clock!Services -> ClockEntry] /\ reset["ALC"] = clkSync["ALC"]
  BY DEF ClockInv, ClockTypes, Clock!Services, ClockEntry
<1> HIDE DEF reset
<1>3. Clock!Lost(s, reset[s]) \in ClockEntry /\ Clock!Lost(s, reset[s]).status = "NO"
  BY <1>2, LostEntry
<1>4. /\ clkSync' \in [Clock!Services -> ClockEntry]
      /\ first => clkSync'[s].status = "NO"
      /\ clkSync'["ALC"].status = "NETWORK" => clkSync'["ALC"] = clkSync["ALC"]
  BY <1>1, <1>2, <1>3 DEF Clock!Services
<1>5. ClockTypes' BY <1>1, <1>4 DEF ClockInv, ClockTypes
<1>6. RightInv' BY <1>1, <1>4, RightKept DEF ClockInv
<1>7. LapseInv' BY <1>1, <1>4 DEF ClockInv, LapseInv, Clock!Never
<1> QED BY <1>5, <1>6, <1>7 DEF ClockInv

\* The user stops the service.
LEMMA ClockStop == ASSUME Clock!ClockAssumption, ClockInv, Clock!Stop PROVE ClockInv'
<1> DEFINE reset == [clkSync EXCEPT !["MAC"].status = "NO"]
<1>1. /\ clkEnabled' = FALSE /\ clkNbReq' = 0 /\ clkDue' = Clock!Never
      /\ clkSync' = [clkSync EXCEPT !["MAC"].status = "NO", ![clkService] = Clock!Lost(clkService, @)]
      /\ UNCHANGED <<clkService, clkErr, clkToken, clkFlight, clkMixed>>
  BY DEF Clock!Stop
<1>2. reset \in [Clock!Services -> ClockEntry] /\ reset["ALC"] = clkSync["ALC"]
      /\ clkService \in Clock!Services
  BY DEF ClockInv, ClockTypes, Clock!Services, ClockEntry
<1>3. clkSync' = [reset EXCEPT ![clkService] = Clock!Lost(clkService, reset[clkService])]
  <2>1. CASE clkService = "MAC"
    BY <1>1, <1>2, <2>1 DEF ClockInv, ClockTypes, Clock!Services, ClockEntry, Clock!Lost
  <2>2. CASE clkService = "ALC"
    BY <1>1, <1>2, <2>2 DEF ClockInv, ClockTypes, Clock!Services, ClockEntry
  <2> QED BY <1>2, <2>1, <2>2 DEF Clock!Services
<1> HIDE DEF reset
<1>4. Clock!Lost(clkService, reset[clkService]) \in ClockEntry
      /\ Clock!Lost(clkService, reset[clkService]).status = "NO"
  BY <1>2, LostEntry
<1>5. /\ clkSync' \in [Clock!Services -> ClockEntry]
      /\ clkSync'["ALC"].status = "NETWORK" => clkSync'["ALC"] = clkSync["ALC"]
  BY <1>2, <1>3, <1>4 DEF Clock!Services
<1>6. ClockTypes' BY <1>1, <1>2, <1>5 DEF ClockInv, ClockTypes
<1>7. RightInv' BY <1>1, <1>5, RightKept DEF ClockInv
<1>8. LapseInv' BY <1>1 DEF LapseInv, Clock!Never
<1> QED BY <1>6, <1>7, <1>8 DEF ClockInv

\* The user sets the time.
LEMMA ClockSetTime == ASSUME Clock!ClockAssumption, ClockInv, Clock!SetTime PROVE ClockInv'
<1>1. CASE /\ clkService = "MAC"
           /\ clkSync' = [clkSync EXCEPT !["MAC"].status = "MANUAL"]
           /\ UNCHANGED <<clkService, clkEnabled, clkNbReq, clkJoined, clkDue, clkAns,
                 clkBusy, clkForced, clkToken, clkErr, clkFlight, clkMixed, clkReplan>>
  <2>1. clkSync' \in [Clock!Services -> ClockEntry] /\ clkSync'["ALC"] = clkSync["ALC"]
        /\ clkSync'["MAC"].status = "MANUAL"
    BY <1>1 DEF ClockInv, ClockTypes, Clock!Services, ClockEntry
  <2>2. ClockTypes' BY <1>1, <2>1 DEF ClockInv, ClockTypes
  <2>3. RightInv' BY <1>1, <2>1, RightKept DEF ClockInv
  <2>4. LapseInv' BY <1>1, <2>1, LapseKept DEF ClockInv
  <2> QED BY <2>2, <2>3, <2>4 DEF ClockInv
<1>2. CASE /\ clkService = "ALC"
           /\ clkSync' = [clkSync EXCEPT !["ALC"].status = "MANUAL", !["ALC"].age = 0]
           /\ clkErr' \in clkErrors
           /\ clkMixed' = \E a \in clkFlight : a.token = clkToken /\ clkErr' + a.corr # 0
           /\ UNCHANGED <<clkService, clkEnabled, clkNbReq, clkJoined, clkDue, clkAns,
                 clkBusy, clkForced, clkToken, clkFlight, clkReplan>>
  <2>1. clkSync' \in [Clock!Services -> ClockEntry] /\ clkSync'["ALC"].status = "MANUAL"
    <3>1. 0 \in {Clock!Never} \cup (0 .. Clock!Default + 1) BY ClockFacts
    <3>2. clkSync["ALC"] \in ClockEntry /\ clkSync \in [Clock!Services -> ClockEntry]
      BY DEF ClockInv, ClockTypes, Clock!Services
    <3>3. [clkSync["ALC"] EXCEPT !.status = "MANUAL", !.age = 0] \in ClockEntry
      BY <3>1, <3>2 DEF ClockEntry
    <3>4. clkSync' = [clkSync EXCEPT !["ALC"] = [clkSync["ALC"] EXCEPT !.status = "MANUAL", !.age = 0]]
      BY <1>2, <3>2 DEF Clock!Services
    <3>5. [clkSync["ALC"] EXCEPT !.status = "MANUAL", !.age = 0].status = "MANUAL"
      BY <3>2 DEF ClockEntry
    <3> HIDE DEF ClockEntry
    <3> QED BY <3>2, <3>3, <3>4, <3>5 DEF Clock!Services
  <2>2. ClockTypes' BY <1>2, <2>1, ClockFacts DEF ClockInv, ClockTypes
  <2>3. RightInv' BY <1>2, <2>1 DEF RightInv
  <2>4. LapseInv' BY <1>2, <2>1, LapseKept DEF ClockInv
  <2> QED BY <2>2, <2>3, <2>4 DEF ClockInv
<1> QED BY <1>1, <1>2 DEF Clock!SetTime

\* The user sets the period.
LEMMA ClockSetPeriod ==
    ASSUME Clock!ClockAssumption, ClockInv, NEW p \in clkPeriods, Clock!SetPeriod(p)
    PROVE  ClockInv'
<1>1. /\ clkSync' = [s \in Clock!Services |->
            IF p < clkSync[s].delay THEN [clkSync[s] EXCEPT !.period = p] ELSE clkSync[s]]
      /\ UNCHANGED <<clkService, clkEnabled, clkNbReq, clkJoined, clkDue, clkBusy,
            clkToken, clkErr, clkFlight, clkMixed, clkReplan>>
  BY DEF Clock!SetPeriod
<1>2. p \in Nat BY ClockFacts
<1>3. \A s \in Clock!Services :
         /\ clkSync'[s] \in ClockEntry /\ clkSync'[s].status = clkSync[s].status
         /\ clkSync'[s].age = clkSync[s].age /\ clkSync'[s].delay = clkSync[s].delay
  BY <1>1, <1>2 DEF ClockInv, ClockTypes, ClockEntry
<1>4. clkSync' \in [Clock!Services -> ClockEntry] BY <1>1, <1>3
<1>5. "ALC" \in Clock!Services /\ clkService \in Clock!Services
  BY DEF ClockInv, ClockTypes, Clock!Services
<1>6. ClockTypes' BY <1>1, <1>4 DEF ClockInv, ClockTypes
<1>7. RightInv' BY <1>1, <1>3, <1>5, RightKept DEF ClockInv
<1>8. LapseInv' BY <1>1, <1>3, <1>5, LapseKept DEF ClockInv
<1> QED BY <1>6, <1>7, <1>8 DEF ClockInv

\* The user sets the delay after which the time is invalid.
LEMMA ClockSetDelay ==
    ASSUME Clock!ClockAssumption, ClockInv, NEW d \in clkDelays, Clock!SetDelay(d)
    PROVE  ClockInv'
<1>1. /\ clkSync' = [s \in Clock!Services |->
            [clkSync[s] EXCEPT !.delay = d, !.age = Clock!Min({@, Clock!Default + 1})]]
      /\ clkReplan' = (clkReplan \/ d # clkSync[clkService].delay)
      /\ UNCHANGED <<clkService, clkEnabled, clkNbReq, clkJoined, clkDue, clkBusy,
            clkToken, clkErr, clkFlight, clkMixed>>
  BY DEF Clock!SetDelay
<1>2. d \in 0 .. Clock!Default BY ClockFacts
<1>3. ASSUME NEW s \in Clock!Services
      PROVE  /\ clkSync'[s] \in ClockEntry /\ clkSync'[s].status = clkSync[s].status
             /\ clkSync'[s].age = clkSync[s].age /\ clkSync'[s].delay = d
  <2>1. clkSync[s] \in ClockEntry BY DEF ClockInv, ClockTypes
  <2>2. /\ clkSync[s].age \in Int /\ clkSync[s].age <= Clock!Default + 1
        /\ Clock!Default + 1 \in Int
    BY <2>1, ClockFacts DEF ClockEntry, Clock!Never
  <2>3. Clock!Min({clkSync[s].age, Clock!Default + 1}) = clkSync[s].age
    BY <2>2, ClockMin2
  <2>4. clkSync'[s] = [clkSync[s] EXCEPT !.delay = d, !.age = clkSync[s].age]
    BY <1>1, <2>3
  <2> QED BY <1>2, <2>1, <2>4 DEF ClockEntry
<1>4. clkSync' \in [Clock!Services -> ClockEntry] BY <1>1, <1>3
<1>5. "ALC" \in Clock!Services /\ clkService \in Clock!Services
  BY DEF ClockInv, ClockTypes, Clock!Services
<1>6. ClockTypes' BY <1>1, <1>4 DEF ClockInv, ClockTypes
<1>7. RightInv' BY <1>1, <1>3, <1>5, RightKept DEF ClockInv
<1>8. LapseInv' BY <1>1, <1>3, <1>5, LapseKept DEF ClockInv
<1> QED BY <1>6, <1>7, <1>8 DEF ClockInv
-----------------------------------------------------------------------------
\* What the entry of the service is, wherever its sort is needed.
LEMMA ServiceEntry ==
    ASSUME ClockTypes
    PROVE  /\ clkService \in Clock!Services /\ "ALC" \in Clock!Services /\ "MAC" \in Clock!Services
           /\ \A s \in Clock!Services : clkSync[s] \in ClockEntry
           /\ clkSync[clkService] \in ClockEntry
BY DEF ClockTypes, Clock!Services

\* A request of the current token: its answer corrects the clock.
LEMMA AskedKeeps ==
    ASSUME ClockTypes, RightInv, Clock!Asked, UNCHANGED <<clkErr, clkToken, clkMixed,
          clkSync>>
    PROVE  (\A a \in clkFlight' : a.corr \in Int) /\ RightInv'
<1>1. CASE clkFlight' = clkFlight BY <1>1 DEF ClockTypes, RightInv, Clock!Default
<1>2. CASE clkFlight' = clkFlight \cup
             {[nr |-> Cardinality(Clock!Same(clkToken, 0 - clkErr)) + 1,
               token |-> clkToken, corr |-> 0 - clkErr]}
  <2> DEFINE new == [nr |-> Cardinality(Clock!Same(clkToken, 0 - clkErr)) + 1,
                     token |-> clkToken, corr |-> 0 - clkErr]
  <2>1. new.corr = 0 - clkErr OBVIOUS
  <2>2. clkErr \in Int /\ \A a \in clkFlight : a.corr \in Int BY DEF ClockTypes
  <2>3. clkFlight' = clkFlight \cup {new} BY <1>2
  <2> HIDE DEF new
  <2>4. new.corr \in Int /\ clkErr + new.corr = 0 BY <2>1, <2>2
  <2> QED BY <2>2, <2>3, <2>4 DEF RightInv, Clock!Default
<1> QED BY <1>1, <1>2 DEF Clock!Asked, Clock!Cardinality, Cardinality

\* The request is sent.
LEMMA ClockLaunchReq ==
    ASSUME Clock!ClockAssumption, ClockInv, Clock!LaunchReq PROVE ClockInv'
<1>1. /\ clkBusy' = "REQ" /\ clkDue' = Clock!Never
      /\ UNCHANGED <<clkService, clkEnabled, clkSync, clkJoined, clkToken, clkErr,
            clkMixed>>
      /\ \/ clkNbReq' = clkNbReq
         \/ clkNbReq' = Clock!Min({clkNbReq + 1, clkRequests1 + clkRequests2})
      /\ clkFlight' = clkFlight \/ Clock!Asked
  BY DEF Clock!LaunchReq, Clock!AppTimeReq
<1>2. ClockTypes /\ RightInv BY DEF ClockInv
<1>3. clkNbReq' \in Int
  <2>1. clkNbReq + 1 \in Int /\ clkRequests1 + clkRequests2 \in Int
    BY <1>2 DEF ClockTypes, Clock!ClockAssumption
  <2>2. Clock!Min({clkNbReq + 1, clkRequests1 + clkRequests2}) \in Int
    BY <2>1, ClockMin2
  <2> QED BY <1>1, <1>2, <2>2 DEF ClockTypes
<1>4. (\A a \in clkFlight' : a.corr \in Int) /\ RightInv'
  <2>1. CASE clkFlight' = clkFlight
    BY <1>1, <1>2, <2>1 DEF ClockTypes, RightInv, Clock!Default
  <2>2. CASE Clock!Asked BY <1>1, <1>2, <2>2, AskedKeeps
  <2> QED BY <1>1, <2>1, <2>2
<1>5. ClockTypes'
  BY <1>1, <1>2, <1>3, <1>4 DEF ClockTypes
<1>6. LapseInv' BY <1>1 DEF LapseInv, Clock!Never
<1> QED BY <1>4, <1>5, <1>6 DEF ClockInv

\* The answer to the server is sent.
LEMMA ClockLaunchAns ==
    ASSUME Clock!ClockAssumption, ClockInv, Clock!LaunchAns PROVE ClockInv'
<1>1. /\ clkBusy = "NONE" /\ clkBusy' = "ANS"
      /\ UNCHANGED <<clkService, clkEnabled, clkSync, clkNbReq, clkJoined, clkDue,
            clkToken,
            clkErr, clkMixed, clkReplan>>
      /\ clkFlight' = clkFlight \/ Clock!Asked
  BY DEF Clock!LaunchAns, Clock!AppTimeReq
<1>2. ClockTypes /\ RightInv /\ LapseInv BY DEF ClockInv
<1>3. (\A a \in clkFlight' : a.corr \in Int) /\ RightInv'
  <2>1. CASE clkFlight' = clkFlight
    BY <1>1, <1>2, <2>1 DEF ClockTypes, RightInv, Clock!Default
  <2>2. CASE Clock!Asked BY <1>1, <1>2, <2>2, AskedKeeps
  <2> QED BY <1>1, <2>1, <2>2
<1>4. ClockTypes'
  BY <1>1, <1>2, <1>3 DEF ClockTypes
<1>5. LapseInv' BY <1>1, <1>2, LapseKept
<1> QED BY <1>3, <1>4, <1>5 DEF ClockInv

\* The network's answer.
LEMMA ClockDeviceTimeAns ==
    ASSUME Clock!ClockAssumption, ClockInv, Clock!DeviceTimeAns PROVE ClockInv'
<1>1. /\ clkBusy = "REQ" /\ clkBusy' = "REQ"
      /\ clkSync' = [clkSync EXCEPT !["MAC"].age = 0]
      /\ UNCHANGED <<clkService, clkEnabled, clkNbReq, clkJoined, clkDue, clkToken,
            clkErr,
            clkFlight, clkMixed, clkReplan>>
  BY DEF Clock!DeviceTimeAns
<1>2. ClockTypes /\ RightInv /\ LapseInv BY DEF ClockInv
<1>3. 0 \in {Clock!Never} \cup (0 .. Clock!Default + 1) BY ClockFacts
<1>4. clkSync' \in [Clock!Services -> ClockEntry] /\ clkSync'["ALC"] = clkSync["ALC"]
  BY <1>1, <1>2, <1>3 DEF ClockTypes, ClockEntry, Clock!Services
<1>5. ClockTypes'
  BY <1>1, <1>2, <1>4 DEF ClockTypes
<1>6. RightInv' BY <1>1, <1>2, <1>4, RightKept
<1>7. LapseInv' BY <1>1, <1>2 DEF LapseInv
<1> QED BY <1>5, <1>6, <1>7 DEF ClockInv

\* What clock_sync_callback makes of the state of the service.
LEMMA CallbackResult ==
    ASSUME Clock!ClockAssumption, ClockInv, NEW c, c = Clock!Callback
    PROVE  /\ c.sync \in ClockEntry /\ c.nbReq \in Int /\ c.wait \in Nat
           /\ clkService = "ALC" /\ c.sync.status = "NETWORK" => c.sync = clkSync["ALC"]
           /\ c.sync.status = "NETWORK" => c.wait <= ClockLeft(c.sync)
<1> DEFINE x == IF clkService = "MAC" THEN [clkSync[clkService] EXCEPT !.status = "NETWORK"]
                ELSE clkSync[clkService]
           lost == x.status # "NO" /\ ~Clock!Valid(clkService, x)
           y == IF lost THEN Clock!Lost(clkService, x) ELSE x
           interval == IF lost THEN Clock!Min({clkRetries[1], x.period})
                       ELSE IF x.status # "NO" THEN x.period
                       ELSE Clock!Min({Clock!RetryDelay(clkNbReq), x.period})
           n == IF lost THEN 1 ELSE clkNbReq
           w == Clock!Min({interval, Clock!TimeLeft(y)})
<1>1. c = [sync |-> y, nbReq |-> n, wait |-> w] BY DEF Clock!Callback
<1>2. clkSync[clkService] \in ClockEntry /\ clkService \in Clock!Services /\ clkNbReq \in Int
  BY ServiceEntry DEF ClockInv, ClockTypes
<1>3. x \in ClockEntry /\ (clkService = "ALC" => x = clkSync["ALC"])
  BY <1>2 DEF ClockEntry
<1> HIDE DEF x
<1>4. y \in ClockEntry /\ (lost => y.status = "NO") BY <1>2, <1>3, LostEntry
<1>5. y.status = "NETWORK" => y = x /\ Clock!Valid(clkService, y) BY <1>4
<1>6. n \in Int BY <1>2
<1>7. interval \in Nat
  <2>1. x.period \in Nat /\ clkRetries[1] \in Nat /\ Clock!RetryDelay(clkNbReq) \in Nat
    BY <1>2, <1>3, ClockFacts DEF ClockEntry
  <2>2. x.period \in Int /\ clkRetries[1] \in Int /\ Clock!RetryDelay(clkNbReq) \in Int
    BY <2>1
  <2>3. Clock!Min({clkRetries[1], x.period}) \in Nat BY <2>1, <2>2, ClockMin2
  <2>4. Clock!Min({Clock!RetryDelay(clkNbReq), x.period}) \in Nat BY <2>1, <2>2, ClockMin2
  <2> QED BY <2>1, <2>3, <2>4
<1> HIDE DEF interval, lost, y, n
<1>8. Clock!TimeLeft(y) \in Nat
      /\ (Clock!Valid(clkService, y) => Clock!TimeLeft(y) = ClockLeft(y))
  BY <1>4, LeftBounds
<1>9. w \in Nat /\ w <= Clock!TimeLeft(y)
  <2>1. interval \in Int /\ Clock!TimeLeft(y) \in Int BY <1>7, <1>8
  <2>2. w = IF interval <= Clock!TimeLeft(y) THEN interval ELSE Clock!TimeLeft(y)
    BY <2>1, ClockMin2
  <2> QED BY <1>7, <1>8, <2>2
<1> HIDE DEF w
<1> QED BY <1>1, <1>3, <1>4, <1>5, <1>6, <1>8, <1>9

\* The end of the exchange of a request.
LEMMA ClockUpdateReq ==
    ASSUME Clock!ClockAssumption, ClockInv, Clock!UpdateReq PROVE ClockInv'
<1> DEFINE c == Clock!Callback
<1>1. /\ clkBusy' = "NONE" /\ clkSync' = [clkSync EXCEPT ![clkService] = c.sync]
      /\ clkNbReq' = c.nbReq
      /\ IF clkEnabled THEN clkDue' \in Clock!Spread(c.wait) /\ clkReplan' = FALSE
         ELSE UNCHANGED <<clkDue, clkReplan>>
      /\ UNCHANGED <<clkService, clkEnabled, clkJoined, clkToken, clkErr, clkFlight,
            clkMixed>>
  BY DEF Clock!UpdateReq
<1>2. /\ c.sync \in ClockEntry /\ c.nbReq \in Int /\ c.wait \in Nat
      /\ clkService = "ALC" /\ c.sync.status = "NETWORK" => c.sync = clkSync["ALC"]
      /\ c.sync.status = "NETWORK" => c.wait <= ClockLeft(c.sync)
  BY CallbackResult
<1> HIDE DEF c
<1>3. ClockTypes /\ RightInv /\ LapseInv BY DEF ClockInv
<1>4. /\ clkSync' \in [Clock!Services -> ClockEntry] /\ clkSync'[clkService] = c.sync
      /\ clkSync'["ALC"].status = "NETWORK" => clkSync'["ALC"] = clkSync["ALC"]
  BY <1>1, <1>2, <1>3 DEF ClockTypes, Clock!Services
<1>5. clkEnabled => clkDue' \in Nat /\ clkDue' <= c.wait + Slack
  BY <1>1, <1>2, SpreadBounds
<1>6. ClockTypes'
  BY <1>1, <1>2, <1>3, <1>4, <1>5 DEF ClockTypes
<1>7. RightInv' BY <1>1, <1>3, <1>4, RightKept
<1>8. LapseInv'
  <2>1. CASE ~clkEnabled BY <1>1, <1>3, <2>1 DEF LapseInv, Clock!Never
  <2>2. CASE clkEnabled
    <3>1. clkDue' # Clock!Never BY <1>5, <2>2 DEF Clock!Never
    <3>2. ASSUME c.sync.status = "NETWORK" PROVE clkDue' <= ClockLeft(c.sync) + Slack
      <4>1. ClockLeft(c.sync) \in Nat BY <1>2, LeftBounds
      <4>2. Slack \in Nat BY SlackBounds
      <4> QED BY <1>2, <1>5, <2>2, <3>2, <4>1, <4>2
    <3>3. ClockLeft(c.sync)' = ClockLeft(c.sync)' /\ Slack' = Slack BY DEF Slack
    <3>4. clkSync'[clkService'].status = "NETWORK"
             => clkDue' <= (ClockLeft(clkSync[clkService]))' + Slack'
      BY <1>1, <1>4, <3>2, <3>3 DEF ClockLeft, Clock!Valid, Clock!Never
    <3> QED BY <1>1, <2>2, <3>1, <3>4 DEF LapseInv, Clock!Never
  <2> QED BY <2>1, <2>2
<1> QED BY <1>6, <1>7, <1>8 DEF ClockInv

\* The end of the exchange of an answer.
LEMMA ClockUpdateAns ==
    ASSUME Clock!ClockAssumption, ClockInv, Clock!UpdateAns PROVE ClockInv'
<1>1. /\ clkBusy = "ANS"
      /\ UNCHANGED <<clkService, clkEnabled, clkSync, clkNbReq, clkJoined, clkDue,
            clkToken,
            clkErr, clkFlight, clkMixed, clkReplan>>
  BY DEF Clock!UpdateAns
<1>2. ClockTypes /\ RightInv /\ LapseInv BY DEF ClockInv
<1>3. ClockTypes' BY <1>1, <1>2 DEF ClockTypes
<1>4. RightInv' BY <1>1, <1>2, RightKept
<1>5. LapseInv' BY <1>1, <1>2, LapseKept
<1> QED BY <1>3, <1>4, <1>5 DEF ClockInv

-----------------------------------------------------------------------------
\* A request planned from what is left of a valid time, or in a period.
LEMMA PlannedKeeps ==
    ASSUME Clock!ClockAssumption, LapseInv, NEW x \in ClockEntry, Clock!PlannedIfEnabled(x),
           clkSync'[clkService] = x, UNCHANGED <<clkService, clkEnabled>>
    PROVE  /\ clkEnabled => clkDue' \in Nat
           /\ ~clkEnabled => clkDue' = clkDue
           /\ LapseInv'
<1>1. CASE ~clkEnabled
  BY <1>1 DEF Clock!PlannedIfEnabled, LapseInv, Clock!Never
<1>2. CASE clkEnabled
  <2> DEFINE w == Clock!Min({x.period, Clock!TimeLeft(x)})
  <2>1. clkDue' \in Clock!Spread(w) /\ clkReplan' = ~Clock!Valid(clkService, x)
    BY <1>2 DEF Clock!PlannedIfEnabled
  <2>2. /\ x.period \in Nat /\ Clock!TimeLeft(x) \in Nat /\ ClockLeft(x) \in Nat
        /\ (Clock!Valid(clkService, x) => Clock!TimeLeft(x) = ClockLeft(x))
    BY LeftBounds DEF ClockEntry
  <2>3. w \in Nat /\ w <= Clock!TimeLeft(x)
    <3>1. w = IF x.period <= Clock!TimeLeft(x) THEN x.period ELSE Clock!TimeLeft(x)
      BY <2>2, ClockMin2
    <3> QED BY <2>2, <3>1
  <2> HIDE DEF w
  <2>4. clkDue' \in Nat /\ clkDue' <= w + Slack BY <2>1, <2>3, SpreadBounds
  <2>5. ~clkReplan' => clkDue' <= ClockLeft(x) + Slack
    <3>1. SUFFICES ASSUME ~clkReplan' PROVE clkDue' <= ClockLeft(x) + Slack OBVIOUS
    <3>2. Clock!Valid(clkService, x) BY <2>1, <3>1, Zenon
    <3>3. Clock!TimeLeft(x) = ClockLeft(x) BY <2>2, <3>2, Zenon
    <3> QED BY <2>2, <2>3, <2>4, <3>3, SlackBounds
  <2>6. (ClockLeft(clkSync[clkService]))' = ClockLeft(x) /\ Slack' = Slack
    BY DEF ClockLeft, Clock!Valid, Clock!Never, Slack
  <2> QED BY <1>2, <2>4, <2>5, <2>6 DEF LapseInv, Clock!Never
<1> QED BY <1>1, <1>2

\* An answer of the application server.
LEMMA ClockAppTimeAns ==
    ASSUME Clock!ClockAssumption, ClockInv, Clock!AppTimeAns PROVE ClockInv'
<1>1. PICK a \in clkFlight :
        IF Clock!Matches(a)
        THEN /\ clkToken' = Clock!NextToken /\ clkErr' = clkErr + a.corr
             /\ clkMixed' = (clkMixed /\ clkErr' # 0)
             /\ clkSync' = [clkSync EXCEPT !["ALC"].status = "NETWORK", !["ALC"].age = 0]
             /\ clkFlight' = {b \in clkFlight \ {a} : b.token # (clkToken + 1) % clkTokens}
        ELSE /\ clkFlight' = clkFlight \ {a}
             /\ UNCHANGED <<clkToken, clkErr, clkMixed, clkSync>>
  BY DEF Clock!AppTimeAns
<1>2. /\ IF clkEnabled THEN Clock!PlannedIfEnabled(clkSync'[clkService])
         ELSE clkDue' = Clock!Never
      /\ UNCHANGED <<clkService, clkEnabled, clkNbReq, clkJoined>>
  BY DEF Clock!AppTimeAns
<1>3. ClockTypes /\ RightInv /\ LapseInv BY DEF ClockInv
<1>6. /\ clkSync' \in [Clock!Services -> ClockEntry] /\ RightInv'
      /\ clkErr' \in Int /\ \A b \in clkFlight' : b.corr \in Int
  <2>1. CASE Clock!Matches(a)
    <3>1. 0 \in {Clock!Never} \cup (0 .. Clock!Default + 1) BY ClockFacts
    <3>2. clkSync["ALC"] \in ClockEntry /\ clkSync \in [Clock!Services -> ClockEntry]
      BY <1>3 DEF ClockTypes, Clock!Services
    <3> DEFINE y == [clkSync["ALC"] EXCEPT !.status = "NETWORK", !.age = 0]
    <3>3. y \in ClockEntry BY <3>1, <3>2 DEF ClockEntry
    <3>4. clkSync' = [clkSync EXCEPT !["ALC"] = y]
      BY <1>1, <2>1, <3>2 DEF Clock!Services
    <3> HIDE DEF y
    <3>5. clkSync' \in [Clock!Services -> ClockEntry] BY <3>2, <3>3, <3>4
    <3>6. a.token = clkToken /\ clkErr \in Int /\ a.corr \in Int
      BY <1>3, <2>1 DEF Clock!Matches, ClockTypes
    <3>7. /\ clkErr' = clkErr + a.corr /\ clkMixed' = (clkMixed /\ clkErr' # 0)
          /\ clkToken' = (clkToken + 1) % clkTokens
          /\ clkFlight' = {b \in clkFlight \ {a} : b.token # (clkToken + 1) % clkTokens}
      BY <1>1, <2>1 DEF Clock!NextToken
    <3>8. clkErr' = 0 \/ clkMixed' BY <1>3, <3>6, <3>7 DEF RightInv
    <3>9. \A b \in clkFlight' : b.token # clkToken' BY <3>7
    <3>10. RightInv' BY <3>8, <3>9 DEF RightInv
    <3>11. clkErr' \in Int /\ \A b \in clkFlight' : b.corr \in Int
      BY <1>3, <3>6, <3>7 DEF ClockTypes
    <3> QED BY <3>5, <3>10, <3>11
  <2>2. CASE ~Clock!Matches(a)
    <3>1. clkFlight' = clkFlight \ {a} /\ UNCHANGED <<clkToken, clkErr, clkMixed,
          clkSync>>
      BY <1>1, <2>2
    <3> QED
      BY <1>3, <3>1 DEF ClockTypes, RightInv, Clock!Default, Clock!Services, ClockEntry
  <2> QED BY <2>1, <2>2
<1>7. clkService \in Clock!Services /\ clkSync'[clkService] \in ClockEntry
  BY <1>3, <1>6 DEF ClockTypes
<1>8. (clkEnabled => clkDue' \in Nat) /\ (~clkEnabled => clkDue' = Clock!Never) /\ LapseInv'
  <2>1. CASE clkEnabled BY <1>2, <1>3, <1>7, <2>1, PlannedKeeps
  <2>2. CASE ~clkEnabled BY <1>2, <2>2 DEF LapseInv, Clock!Never
  <2> QED BY <2>1, <2>2
<1>9. ClockTypes'
  BY <1>2, <1>3, <1>6, <1>8 DEF ClockTypes
<1> QED BY <1>6, <1>8, <1>9 DEF ClockInv

\* The server sets the period.
LEMMA ClockPeriodicityReq ==
    ASSUME Clock!ClockAssumption, ClockInv, NEW p \in clkPeriods, Clock!PeriodicityReq(p)
    PROVE  ClockInv'
<1> DEFINE d == Clock!Min({3 * p, Clock!Default})
<1>1. /\ clkSync' = [clkSync EXCEPT !["ALC"].period = p, !["ALC"].delay = d]
      /\ Clock!PlannedIfEnabled(clkSync'[clkService])
      /\ UNCHANGED <<clkService, clkEnabled, clkNbReq, clkJoined, clkToken, clkErr,
            clkFlight, clkMixed>>
  BY DEF Clock!PeriodicityReq
<1>2. p \in Nat /\ d \in 0 .. Clock!Default
  <2>1. p \in Nat /\ 3 * p \in Nat /\ 3 * p \in Int /\ Clock!Default \in Nat
    BY ClockFacts
  <2>2. d = IF 3 * p <= Clock!Default THEN 3 * p ELSE Clock!Default BY <2>1, ClockMin2
  <2> QED BY <2>1, <2>2
<1> HIDE DEF d
<1>3. ClockTypes /\ RightInv /\ LapseInv BY DEF ClockInv
<1>4. clkSync["ALC"] \in ClockEntry /\ clkSync \in [Clock!Services -> ClockEntry]
      /\ clkService \in Clock!Services
  BY <1>3 DEF ClockTypes, Clock!Services
<1> DEFINE y == [clkSync["ALC"] EXCEPT !.period = p, !.delay = d]
<1>5. /\ y \in ClockEntry /\ y.status = clkSync["ALC"].status /\ y.age = clkSync["ALC"].age
  BY <1>2, <1>4 DEF ClockEntry
<1>6. clkSync' = [clkSync EXCEPT !["ALC"] = y] BY <1>1, <1>4 DEF Clock!Services
<1> HIDE DEF y
<1>7. clkSync' \in [Clock!Services -> ClockEntry] /\ clkSync'["ALC"] = y
      /\ clkSync'[clkService] \in ClockEntry
  BY <1>4, <1>5, <1>6 DEF Clock!Services
<1>8. RightInv' BY <1>1, <1>3, <1>5, <1>7, RightKept
<1>9. (clkEnabled => clkDue' \in Nat) /\ (~clkEnabled => clkDue' = clkDue) /\ LapseInv'
  BY <1>1, <1>3, <1>7, PlannedKeeps
<1>10. ClockTypes'
  BY <1>1, <1>3, <1>7, <1>9 DEF ClockTypes
<1> QED BY <1>8, <1>9, <1>10 DEF ClockInv

\* The server forces requests.
LEMMA ClockForceResync ==
    ASSUME Clock!ClockAssumption, ClockInv, NEW n, Clock!ForceResync(n) PROVE ClockInv'
<1>1. UNCHANGED <<clkService, clkEnabled, clkSync, clkNbReq, clkJoined, clkDue, clkBusy,
          clkToken, clkErr, clkFlight, clkMixed, clkReplan>>
  BY DEF Clock!ForceResync
<1>2. ClockTypes /\ RightInv /\ LapseInv BY DEF ClockInv
<1>3. ClockTypes' BY <1>1, <1>2 DEF ClockTypes
<1>4. RightInv' BY <1>1, <1>2, RightKept
<1>5. LapseInv' BY <1>1, <1>2, LapseKept
<1> QED BY <1>3, <1>4, <1>5 DEF ClockInv

\* The modem joins.
LEMMA ClockJoin == ASSUME Clock!ClockAssumption, ClockInv, Clock!Join PROVE ClockInv'
<1>1. /\ IF clkEnabled THEN clkDue' = clkJoinDelay /\ clkNbReq' = 0 ELSE UNCHANGED <<clkDue, clkNbReq>>
      /\ UNCHANGED <<clkService, clkEnabled, clkSync, clkToken, clkErr, clkFlight,
            clkMixed>>
  BY DEF Clock!Join
<1>2. ClockTypes /\ RightInv /\ LapseInv BY DEF ClockInv
<1>3. /\ clkJoinDelay \in Nat /\ Slack \in Nat /\ clkJoinDelay <= Slack
  BY ClockFacts, SlackBounds
<1>4. ClockTypes'
  BY <1>1, <1>2, <1>3 DEF ClockTypes
<1>5. RightInv' BY <1>1, <1>2, RightKept
<1>6. LapseInv'
  <2>1. CASE ~clkEnabled BY <1>1, <1>2, <2>1 DEF LapseInv, Clock!Never
  <2>2. CASE clkEnabled
    <3>1. ClockLeft(clkSync[clkService]) \in Nat BY <1>2, ServiceEntry, LeftBounds
    <3>2. /\ (ClockLeft(clkSync[clkService]))' = ClockLeft(clkSync[clkService])
          /\ Slack' = Slack
      BY <1>1 DEF ClockLeft, Clock!Valid, Clock!Never, Slack
    <3>3. clkDue' <= ClockLeft(clkSync[clkService]) + Slack BY <1>1, <1>3, <2>2, <3>1
    <3>4. clkDue' # Clock!Never BY <1>1, <1>3, <2>2 DEF Clock!Never
    <3> QED BY <1>1, <2>2, <3>2, <3>3, <3>4 DEF LapseInv, Clock!Never
  <2> QED BY <2>1, <2>2
<1> QED BY <1>4, <1>5, <1>6 DEF ClockInv

\* The user asks for the time.
LEMMA ClockTrigger == ASSUME Clock!ClockAssumption, ClockInv, Clock!Trigger PROVE ClockInv'
<1>1. /\ clkEnabled /\ clkDue' = 1
      /\ UNCHANGED <<clkService, clkEnabled, clkSync, clkNbReq, clkJoined, clkBusy,
            clkToken,
            clkErr, clkFlight, clkMixed, clkReplan>>
  BY DEF Clock!Trigger
<1>2. ClockTypes /\ RightInv /\ LapseInv BY DEF ClockInv
<1>3. ClockTypes' BY <1>1, <1>2 DEF ClockTypes
<1>4. RightInv' BY <1>1, <1>2, RightKept
<1>5. LapseInv'
  <2>1. ClockLeft(clkSync[clkService]) \in Nat BY <1>2, ServiceEntry, LeftBounds
  <2>2. Slack \in Nat /\ 1 <= Slack BY SlackBounds
  <2>3. /\ (ClockLeft(clkSync[clkService]))' = ClockLeft(clkSync[clkService]) /\ Slack' = Slack
    BY <1>1 DEF ClockLeft, Clock!Valid, Clock!Never, Slack
  <2>4. clkDue' <= ClockLeft(clkSync[clkService]) + Slack BY <1>1, <2>1, <2>2
  <2> QED BY <1>1, <2>3, <2>4 DEF LapseInv, Clock!Never
<1> QED BY <1>3, <1>4, <1>5 DEF ClockInv

\* The modem leaves.
LEMMA ClockLeave == ASSUME Clock!ClockAssumption, ClockInv, Clock!Leave PROVE ClockInv'
<1>1. /\ clkJoined' = FALSE /\ clkDue' = Clock!Never
      /\ UNCHANGED <<clkService, clkEnabled, clkSync, clkNbReq, clkToken, clkErr,
            clkFlight,
            clkMixed>>
  BY DEF Clock!Leave
<1>2. ClockTypes /\ RightInv BY DEF ClockInv
<1>3. ClockTypes' BY <1>1, <1>2 DEF ClockTypes
<1>4. RightInv' BY <1>1, <1>2, RightKept
<1>5. LapseInv' BY <1>1 DEF LapseInv, Clock!Never
<1> QED BY <1>3, <1>4, <1>5 DEF ClockInv

\* What a tick makes of a service: an age up to the longest delay grows by one.
LEMMA OlderEntry ==
    ASSUME Clock!ClockAssumption, NEW x \in ClockEntry, NEW y, y = Clock!Older(x)
    PROVE  /\ y \in ClockEntry /\ y.status = x.status /\ y.delay = x.delay
           /\ x.age = Clock!Never => y.age = Clock!Never
           /\ x.age # Clock!Never =>
                 y.age = IF x.age + 1 <= Clock!Default + 1 THEN x.age + 1 ELSE Clock!Default + 1
<1>1. /\ x.age \in Int /\ x.age + 1 \in Int /\ Clock!Default + 1 \in Int /\ Clock!Default \in Nat
      /\ x.age <= Clock!Default + 1 /\ (x.age = Clock!Never \/ x.age \in Nat)
  BY ClockFacts DEF ClockEntry, Clock!Never
<1>2. Clock!Min({x.age + 1, Clock!Default + 1})
        = IF x.age + 1 <= Clock!Default + 1 THEN x.age + 1 ELSE Clock!Default + 1
  BY <1>1, ClockMin2
<1> DEFINE older == IF x.age = Clock!Never THEN x.age ELSE Clock!Min({x.age + 1, Clock!Default + 1})
<1>3. y = [x EXCEPT !.age = older] BY DEF Clock!Older
<1>4. older \in {Clock!Never} \cup (0 .. Clock!Default + 1) BY <1>1, <1>2
<1>5. y.age = older /\ y.status = x.status /\ y.delay = x.delay /\ y \in ClockEntry
  <2> HIDE DEF older
  <2> QED BY <1>3, <1>4 DEF ClockEntry
<1> QED BY <1>2, <1>5

\* Time passes.
LEMMA ClockTick == ASSUME Clock!ClockAssumption, ClockInv, Clock!Tick PROVE ClockInv'
<1>1. /\ clkBusy = "NONE"
      /\ clkDue' = IF clkDue = Clock!Never THEN Clock!Never ELSE Clock!Max({clkDue - 1, 0})
      /\ clkSync' = [s \in Clock!Services |-> Clock!Older(clkSync[s])]
      /\ clkErr' \in {clkErr} \cup
            {e \in clkErrors : clkSync'["ALC"].age \notin 0 .. Clock!Default /\ ~Clock!Outstanding}
      /\ UNCHANGED <<clkService, clkEnabled, clkNbReq, clkJoined, clkBusy, clkToken,
            clkFlight, clkMixed, clkReplan>>
  BY DEF Clock!Tick
<1>2. ClockTypes /\ RightInv /\ LapseInv BY DEF ClockInv
<1>3. \A s \in Clock!Services : clkSync[s] \in ClockEntry /\ clkSync'[s] = Clock!Older(clkSync[s])
  BY <1>1, <1>2 DEF ClockTypes
<1>4. \A s \in Clock!Services : clkSync'[s] \in ClockEntry BY <1>3, OlderEntry
<1>5. clkSync' \in [Clock!Services -> ClockEntry] BY <1>1, <1>4
<1>6. clkService \in Clock!Services /\ "ALC" \in Clock!Services BY <1>2, ServiceEntry
<1>7. /\ clkDue = Clock!Never => clkDue' = Clock!Never
      /\ clkDue # Clock!Never =>
            /\ clkDue \in Nat /\ clkDue' \in Nat
            /\ clkDue' = IF clkDue - 1 >= 0 THEN clkDue - 1 ELSE 0
  <2>1. clkDue # Clock!Never => clkDue \in Nat BY <1>2 DEF ClockTypes
  <2>2. ASSUME clkDue \in Nat
        PROVE Clock!Max({clkDue - 1, 0}) = IF clkDue - 1 >= 0 THEN clkDue - 1 ELSE 0
    BY <2>2, ClockMax2
  <2> QED BY <1>1, <2>1, <2>2
<1>8. ClockTypes'
  <2>1. clkErr' \in Int BY <1>1, <1>2, ClockFacts DEF ClockTypes
  <2> QED
    BY <1>1, <1>2, <1>5, <1>7, <2>1 DEF ClockTypes
<1>9. RightInv'
  <2> DEFINE x == clkSync["ALC"]
             y == clkSync'["ALC"]
  <2>1. /\ x \in ClockEntry /\ y = Clock!Older(x) BY <1>3, <1>6
  <2>2. y.status = x.status /\ (y.age \in 0 .. Clock!Default => x.age \in 0 .. Clock!Default)
    <3>1. Clock!Default \in Nat BY ClockFacts
    <3>2. x.age = Clock!Never \/ x.age \in Nat BY <2>1 DEF ClockEntry
    <3>3. /\ y.status = x.status /\ (x.age = Clock!Never => y.age = Clock!Never)
          /\ x.age # Clock!Never =>
               y.age = IF x.age + 1 <= Clock!Default + 1 THEN x.age + 1 ELSE Clock!Default + 1
      BY <2>1, OlderEntry
    <3> HIDE DEF x, y
    <3> QED BY <3>1, <3>2, <3>3 DEF Clock!Never
  <2>3. CASE clkErr' = clkErr
    BY <1>1, <1>2, <2>2, <2>3 DEF RightInv, Clock!Default
  <2>4. CASE y.age \notin 0 .. Clock!Default /\ ~Clock!Outstanding
    BY <1>1, <2>4 DEF RightInv, Clock!Outstanding, Clock!Default
  <2> QED BY <1>1, <2>3, <2>4
<1>10. LapseInv'
  <2> DEFINE x == clkSync[clkService]
             y == clkSync'[clkService]
  <2>1. x \in ClockEntry /\ y = Clock!Older(x) BY <1>3, <1>6
  <2>2. CASE ~clkEnabled BY <1>1, <1>2, <1>7, <2>2 DEF LapseInv, Clock!Never
  <2>3. CASE ~clkJoined BY <1>1, <1>2, <1>7, <2>3 DEF LapseInv, Clock!Never
  <2>4. CASE clkEnabled /\ clkJoined
    <3>1. /\ clkDue # Clock!Never
          /\ x.status = "NETWORK" /\ ~clkReplan => clkDue <= ClockLeft(x) + Slack
      BY <1>1, <1>2, <2>4 DEF LapseInv
    <3>2. clkDue \in Nat /\ clkDue' \in Nat /\ clkDue' = IF clkDue - 1 >= 0 THEN clkDue - 1 ELSE 0
      BY <1>7, <3>1
    <3>3. y.status = x.status BY <2>1, OlderEntry
    <3>4. Slack \in Nat /\ 1 <= Slack BY SlackBounds
    <3>5. y.status = "NETWORK" => ClockLeft(x) <= ClockLeft(y) + 1 /\ ClockLeft(x) \in Nat
             /\ ClockLeft(y) \in Nat
      <4>1. Clock!Default \in Nat BY ClockFacts
      <4>2. /\ x.age = Clock!Never \/ x.age \in Nat
            /\ x.delay \in 0 .. Clock!Default /\ x.age <= Clock!Default + 1
        BY <2>1, <4>1 DEF ClockEntry, Clock!Never
      <4>3. /\ y.status = x.status /\ y.delay = x.delay
            /\ (x.age = Clock!Never => y.age = Clock!Never)
            /\ x.age # Clock!Never =>
                 y.age = IF x.age + 1 <= Clock!Default + 1 THEN x.age + 1 ELSE Clock!Default + 1
        BY <2>1, OlderEntry
      <4> HIDE DEF x, y
      <4>4. CASE x.age = Clock!Never BY <4>1, <4>2, <4>3, <4>4 DEF ClockLeft, Clock!Valid
      <4>5. CASE x.age # Clock!Never
        BY <4>1, <4>2, <4>3, <4>5 DEF ClockLeft, Clock!Valid, Clock!Never
      <4> QED BY <4>4, <4>5
    <3>6. (ClockLeft(clkSync[clkService]))' = ClockLeft(y) /\ Slack' = Slack
      BY <1>1 DEF ClockLeft, Clock!Valid, Clock!Never, Slack
    <3>7. y.status = "NETWORK" /\ ~clkReplan => clkDue' <= ClockLeft(y) + Slack
      BY <3>1, <3>2, <3>3, <3>4, <3>5
    <3>8. clkDue' # Clock!Never BY <3>2 DEF Clock!Never
    <3> QED BY <1>1, <2>4, <3>6, <3>7, <3>8 DEF LapseInv, Clock!Never
  <2> QED BY <2>2, <2>3, <2>4
<1> QED BY <1>8, <1>9, <1>10 DEF ClockInv

\* Every step of the clock keeps the invariant.
LEMMA NextClock ==
    ASSUME Clock!ClockAssumption, ClockInv, Clock!Next \/ UNCHANGED clkVars
    PROVE  ClockInv'
<1>1. CASE \E s \in Clock!Services : Clock!Start(s) BY <1>1, ClockStart
<1>2. CASE Clock!Stop BY <1>2, ClockStop
<1>3. CASE Clock!Trigger BY <1>3, ClockTrigger
<1>4. CASE Clock!SetTime BY <1>4, ClockSetTime
<1>5. CASE \E p \in clkPeriods : Clock!SetPeriod(p) \/ Clock!PeriodicityReq(p)
  BY <1>5, ClockSetPeriod, ClockPeriodicityReq
<1>6. CASE \E d \in clkDelays : Clock!SetDelay(d) BY <1>6, ClockSetDelay
<1>7. CASE Clock!LaunchReq BY <1>7, ClockLaunchReq
<1>8. CASE Clock!LaunchAns BY <1>8, ClockLaunchAns
<1>9. CASE Clock!DeviceTimeAns BY <1>9, ClockDeviceTimeAns
<1>10. CASE Clock!UpdateReq BY <1>10, ClockUpdateReq
<1>11. CASE Clock!UpdateAns BY <1>11, ClockUpdateAns
<1>12. CASE Clock!AppTimeAns BY <1>12, ClockAppTimeAns
<1>13. CASE \E n \in 0 .. 1 : Clock!ForceResync(n) BY <1>13, ClockForceResync
<1>14. CASE Clock!Join BY <1>14, ClockJoin
<1>15. CASE Clock!Leave BY <1>15, ClockLeave
<1>16. CASE Clock!Tick BY <1>16, ClockTick
<1>17. CASE UNCHANGED clkVars
  <2>1. UNCHANGED <<clkService, clkEnabled, clkSync, clkNbReq, clkJoined, clkDue, clkBusy,
            clkToken, clkErr, clkFlight, clkMixed, clkReplan>>
    BY <1>17 DEF clkVars
  <2>2. ClockTypes /\ RightInv /\ LapseInv BY DEF ClockInv
  <2>3. ClockTypes' BY <2>1, <2>2 DEF ClockTypes
  <2>4. RightInv' BY <2>1, <2>2, RightKept
  <2>5. LapseInv' BY <2>1, <2>2, LapseKept
  <2> QED BY <2>3, <2>4, <2>5 DEF ClockInv
<1> QED
  BY <1>1, <1>2, <1>3, <1>4, <1>5, <1>6, <1>7, <1>8, <1>9, <1>10, <1>11, <1>12, <1>13,
    <1>14, <1>15, <1>16, <1>17 DEF Clock!Next

\* The clock's invariant while the clock runs.
ClockRuns == which = "Clock" => ClockInv

\* It holds of every behaviour.
LEMMA ClockRunsInvariant == Spec => []ClockRuns
<1>0. Clock!ClockAssumption BY ServicesAssumption DEF ServicesAssumption
<1>1. Init => ClockRuns BY <1>0, InitClock DEF Init, ClockRuns
<1>2. ClockRuns /\ [Next]_vars => ClockRuns'
  <2> SUFFICES ASSUME ClockRuns, [Next]_vars, which' = "Clock" PROVE ClockInv'
    BY DEF ClockRuns
  <2>1. /\ which = "Clock" /\ (Clock!Next \/ UNCHANGED clkVars) BY StepsOfOne
  <2> QED BY <1>0, <2>1, NextClock DEF ClockRuns
<1> QED BY <1>1, <1>2, PTL DEF Spec

\* A time taken from the server and called valid is right (alc_sync.c).
THEOREM ServicesSyncedIsRight == Spec => []SyncedIsRight
<1>1. ClockRuns => SyncedIsRight
  BY ServicesAssumption, ClockProperties DEF ServicesAssumption, ClockRuns, SyncedIsRight
<1> QED BY <1>1, ClockRunsInvariant, PTL

\* The modem asks for the time before, or as soon as, it becomes invalid
\* (smtc_clock_sync.c).
THEOREM ServicesLapseNoticed == Spec => []LapseNoticed
<1>1. ClockRuns => LapseNoticed
  BY ServicesAssumption, ClockProperties DEF ServicesAssumption, ClockRuns, LapseNoticed
<1> QED BY <1>1, ClockRunsInvariant, PTL

-----------------------------------------------------------------------------
(* The MAC commands. *)

\* The answers to the requests, and the commands.
CmdNames == {"LINK_CHECK", "DEVICE_TIME", "PING_SLOT_INFO"} \cup Cmd!Sticky \cup Cmd!Plain
CmdAnswer == [cid : CmdNames, ok : BOOLEAN, val : Nat]

\* Those that tell the present time, if they tell one.
Timely == {c \in CmdAnswer : c.cid = "DEVICE_TIME" => c.val = cmdNow}

\* The requests of a frame.
CmdTypes ==
    /\ cmdPhase \in {"IDLE", "SEND", "WINDOWS", "PARSE"}
    /\ cmdFrame.asks \subseteq cmdRequests /\ cmdNow \in Nat
    /\ DOMAIN cmdReq = cmdRequests

\* The answers that are left are those of the last transmission, whose end is the time
\* noted if the request went with it.
TimeInv ==
    /\ cmdTodo \in Seq(Timely)
    /\ cmdPhase # "PARSE" => cmdTodo = <<>>
    /\ "DEVICE_TIME" \in cmdRequests /\ cmdReq["DEVICE_TIME"] = "SENT" =>
          cmdPhase \in {"WINDOWS", "PARSE"} /\ cmdSent = cmdNow
    /\ Cmd!NetworkTimeRight

CmdInv == CmdTypes /\ TimeInv

\* A set of a few requests is finite, and so is the set of their answers.
LEMMA AnswersFinite ==
    ASSUME Cmd!CommandsAssumption, NEW asks \in SUBSET cmdRequests
    PROVE  IsFiniteSet({[cid |-> k, ok |-> TRUE, val |-> cmdNow] : k \in asks})
<1>1. IsFiniteSet({"LINK_CHECK", "DEVICE_TIME", "PING_SLOT_INFO"})
  <2>1. IsFiniteSet({}) BY FS_EmptySet
  <2>2. IsFiniteSet({} \cup {"LINK_CHECK"}) BY <2>1, FS_AddElement
  <2>3. IsFiniteSet({} \cup {"LINK_CHECK"} \cup {"DEVICE_TIME"}) BY <2>2, FS_AddElement
  <2>4. IsFiniteSet({} \cup {"LINK_CHECK"} \cup {"DEVICE_TIME"} \cup {"PING_SLOT_INFO"})
    BY <2>3, FS_AddElement
  <2>5. {"LINK_CHECK", "DEVICE_TIME", "PING_SLOT_INFO"}
          = {} \cup {"LINK_CHECK"} \cup {"DEVICE_TIME"} \cup {"PING_SLOT_INFO"}
    OBVIOUS
  <2> QED BY <2>4, <2>5, Zenon
<1>2. asks \in SUBSET {"LINK_CHECK", "DEVICE_TIME", "PING_SLOT_INFO"}
  BY DEF Cmd!CommandsAssumption
<1>3. IsFiniteSet(asks) BY <1>1, <1>2, FS_Subset, Zenon
<1> DEFINE f == [k \in asks |-> [cid |-> k, ok |-> TRUE, val |-> cmdNow]]
           T == {[cid |-> k, ok |-> TRUE, val |-> cmdNow] : k \in asks}
<1>4. f \in Surjection(asks, T) BY DEF Surjection
<1> QED BY <1>3, <1>4, FS_Surjection

\* The answers to the requests tell the time of their transmission.
LEMMA AnswersAreTimely ==
    ASSUME Cmd!CommandsAssumption, CmdTypes, NEW asks \in SUBSET cmdRequests
    PROVE  Cmd!AnswersTo(asks) \in Seq(Timely)
<1> DEFINE T == {[cid |-> k, ok |-> TRUE, val |-> cmdNow] : k \in asks}
           n == Cardinality(T)
<1>1. IsFiniteSet(T) BY AnswersFinite
<1>2. T \subseteq Timely
  <2>1. \A k \in asks : k \in CmdNames BY DEF Cmd!CommandsAssumption, CmdNames
  <2>2. cmdNow \in Nat BY DEF CmdTypes
  <2>3. \A k \in asks : [cid |-> k, ok |-> TRUE, val |-> cmdNow] \in Timely
    BY <2>1, <2>2 DEF Timely, CmdAnswer
  <2> QED BY <2>3
<1> HIDE DEF T
<1>3. n \in Nat /\ \E f \in Bijection(1 .. n, T) : TRUE
  BY <1>1, FS_CardinalityType DEF ExistsBijection
<1>4. \E f \in [1 .. n -> T] : Cmd!IsInjective(f)
  BY <1>3 DEF Bijection, Injection, IsInjective, Cmd!IsInjective
<1>5. Cmd!Cardinality(T) = n BY DEF Cmd!Cardinality, Cardinality
<1> HIDE DEF n
<1>6. Cmd!SetToSeq(T) \in [1 .. n -> T] BY <1>4, <1>5 DEF Cmd!SetToSeq
<1>7. Cmd!SetToSeq(T) \in Seq(Timely) BY <1>2, <1>3, <1>6
<1> QED BY <1>7 DEF T, Cmd!AnswersTo
\* A list of commands tells no time.
LEMMA ListIsTimely ==
    ASSUME Cmd!CommandsAssumption, NEW list \in cmdCommands
    PROVE  list \in Seq(Timely)
<1> DEFINE C == [cid : cmdSetups \cup Cmd!Plain, ok : BOOLEAN, val : Nat]
<1>1. list \in Seq(C) BY DEF Cmd!CommandsAssumption
<1>2. C \subseteq Timely
  <2>1. \A k \in Cmd!Sticky \cup Cmd!Plain : k \in CmdNames /\ k # "DEVICE_TIME"
    BY DEF Cmd!Sticky, Cmd!Plain, CmdNames
  <2>2. cmdSetups \subseteq Cmd!Sticky BY DEF Cmd!CommandsAssumption
  <2>3. \A k \in cmdSetups \cup Cmd!Plain : k \in CmdNames /\ k # "DEVICE_TIME"
    BY <2>1, <2>2
  <2>4. ASSUME NEW c \in C PROVE c \in Timely
    <3>1. c.cid \in CmdNames /\ c.cid # "DEVICE_TIME" /\ c.ok \in BOOLEAN /\ c.val \in Nat
          /\ c = [cid |-> c.cid, ok |-> c.ok, val |-> c.val]
      BY <2>3, <2>4
    <3> HIDE DEF C
    <3>2. c \in CmdAnswer BY <3>1 DEF CmdAnswer
    <3> QED BY <3>1, <3>2 DEF Timely
  <2> QED BY <2>4
<1> HIDE DEF C
<1>3. /\ Len(list) \in Nat /\ list = [i \in 1 .. Len(list) |-> list[i]]
      /\ \A i \in 1 .. Len(list) : list[i] \in C
  BY <1>1
<1>4. \A i \in 1 .. Len(list) : list[i] \in Timely BY <1>2, <1>3
<1> QED BY <1>3, <1>4

\* Without a transmission the time stays, and what is timely.
LEMMA TimelyKept == ASSUME UNCHANGED cmdNow PROVE Timely' = Timely
BY DEF Timely, CmdAnswer

\* At first.
LEMMA InitCmd == ASSUME Cmd!CommandsAssumption, Cmd!Init PROVE CmdInv
<1>1. /\ cmdPhase = "IDLE" /\ cmdFrame.asks = {} /\ cmdNow = 0 /\ cmdTodo = <<>>
      /\ cmdReq = [k \in cmdRequests |-> "NOT_REQUESTED"]
      /\ cmdClock = Cmd!NoClock
  BY DEF Cmd!Init
<1>2. cmdTodo \in Seq(Timely) BY <1>1
<1>3. CmdTypes BY <1>1 DEF CmdTypes
<1>4. Cmd!NetworkTimeRight BY <1>1 DEF Cmd!NetworkTimeRight, Cmd!NoClock
<1>5. "DEVICE_TIME" \in cmdRequests => cmdReq["DEVICE_TIME"] # "SENT" BY <1>1
<1> QED BY <1>1, <1>2, <1>3, <1>4, <1>5 DEF CmdInv, TimeInv

\* A step that neither transmits nor receives.
LEMMA CmdQuiet ==
    ASSUME CmdInv, UNCHANGED <<cmdNow, cmdTodo, cmdSent, cmdClock>>,
           cmdPhase' \in {"IDLE", "SEND", "WINDOWS", "PARSE"},
           cmdFrame'.asks \subseteq cmdRequests, DOMAIN cmdReq' = cmdRequests,
           cmdPhase' # "PARSE" => cmdTodo = <<>>,
           "DEVICE_TIME" \in cmdRequests /\ cmdReq'["DEVICE_TIME"] = "SENT" =>
              cmdReq["DEVICE_TIME"] = "SENT" /\ cmdPhase' \in {"WINDOWS", "PARSE"}
    PROVE  CmdInv'
<1>1. CmdTypes /\ TimeInv BY DEF CmdInv
<1>2. Timely' = Timely BY TimelyKept
<1>3. CmdTypes' BY <1>1 DEF CmdTypes
<1>4. TimeInv' BY <1>1, <1>2 DEF TimeInv, Cmd!NetworkTimeRight
<1> QED BY <1>3, <1>4 DEF CmdInv

\* Every step of the MAC commands keeps the invariant.
LEMMA NextCmd ==
    ASSUME Cmd!CommandsAssumption, CmdInv, Cmd!Next \/ UNCHANGED cmdVars
    PROVE  CmdInv'
<1>0. CmdTypes /\ TimeInv BY DEF CmdInv
<1>1. ASSUME NEW k \in cmdRequests, Cmd!Ask(k) PROVE CmdInv'
  <2>1. /\ cmdPhase = "IDLE" /\ cmdReq' = [cmdReq EXCEPT ![k] = "REQUESTED"]
        /\ cmdPhase' \in {"IDLE", "SEND"}
        /\ UNCHANGED <<cmdNow, cmdTodo, cmdSent, cmdClock>>
    BY <1>1 DEF Cmd!Ask
  <2>2. cmdFrame'.asks \subseteq cmdRequests
    BY <1>0, <1>1 DEF Cmd!Ask, Cmd!Build, CmdTypes
  <2>3. /\ DOMAIN cmdReq' = cmdRequests
        /\ "DEVICE_TIME" \in cmdRequests => cmdReq'["DEVICE_TIME"] # "SENT"
    BY <1>0, <2>1 DEF CmdTypes, TimeInv
  <2>4. cmdTodo = <<>> BY <1>0, <2>1 DEF TimeInv
  <2> QED BY <2>1, <2>2, <2>3, <2>4, CmdQuiet
<1>2. CASE Cmd!UserFrame
  <2>1. /\ cmdPhase = "IDLE" /\ cmdPhase' = "SEND" /\ cmdFrame'.asks = {}
        /\ UNCHANGED <<cmdReq, cmdNow, cmdTodo, cmdSent, cmdClock>>
    BY <1>2 DEF Cmd!UserFrame, Cmd!Build
  <2>2. cmdTodo = <<>> /\ DOMAIN cmdReq' = cmdRequests
        /\ ("DEVICE_TIME" \in cmdRequests => cmdReq'["DEVICE_TIME"] # "SENT")
    BY <1>0, <2>1 DEF CmdTypes, TimeInv
  <2> QED BY <2>1, <2>2, CmdQuiet
<1>3. CASE Cmd!TxDone
  <2>1. /\ cmdPhase = "SEND" /\ cmdPhase' = "WINDOWS" /\ cmdNow' = (cmdNow + 1) % cmdInstants
        /\ cmdReq' = [k \in cmdRequests |->
                        IF cmdReq[k] = "REQUESTED" THEN "SENT" ELSE cmdReq[k]]
        /\ cmdSent' = IF "DEVICE_TIME" \in cmdRequests /\ cmdReq["DEVICE_TIME"] = "REQUESTED"
                      THEN cmdNow' ELSE cmdSent
        /\ UNCHANGED <<cmdFrame, cmdTodo, cmdClock>>
    BY <1>3 DEF Cmd!TxDone
  <2>2. cmdTodo = <<>> BY <1>0, <2>1 DEF TimeInv
  <2>3. "DEVICE_TIME" \in cmdRequests => cmdReq["DEVICE_TIME"] # "SENT"
    BY <1>0, <2>1 DEF TimeInv
  <2>4. cmdNow' \in Nat BY <1>0, <2>1 DEF CmdTypes, Cmd!CommandsAssumption
  <2>5. CmdTypes' BY <1>0, <2>1, <2>4 DEF CmdTypes
  <2>6. "DEVICE_TIME" \in cmdRequests /\ cmdReq'["DEVICE_TIME"] = "SENT" => cmdSent' = cmdNow'
    BY <2>1, <2>3
  <2>7. cmdTodo' \in Seq(Timely') BY <2>1, <2>2
  <2> QED BY <1>0, <2>1, <2>2, <2>5, <2>6, <2>7 DEF CmdInv, TimeInv, Cmd!NetworkTimeRight
<1>4. CASE Cmd!Aborted
  <2>1. /\ cmdPhase' = "PARSE"
        /\ UNCHANGED <<cmdFrame, cmdReq, cmdNow, cmdTodo, cmdSent, cmdClock>>
    BY <1>4 DEF Cmd!Aborted
  <2>2. cmdFrame'.asks \subseteq cmdRequests /\ DOMAIN cmdReq' = cmdRequests
    BY <1>0, <2>1 DEF CmdTypes
  <2> QED BY <2>1, <2>2, CmdQuiet
<1>5. CASE Cmd!RxEnd
  <2>1. /\ cmdPhase = "WINDOWS" /\ cmdPhase' = "PARSE"
        /\ cmdTodo' = cmdTodo \/ \E list \in cmdCommands : cmdTodo' = Cmd!AnswersTo(cmdFrame.asks) \o list
        /\ UNCHANGED <<cmdFrame, cmdReq, cmdNow, cmdSent, cmdClock>>
    BY <1>5 DEF Cmd!RxEnd
  <2>2. Timely' = Timely BY <2>1, TimelyKept
  <2>3. cmdTodo' \in Seq(Timely)
    <3>1. CASE cmdTodo' = cmdTodo BY <1>0, <3>1 DEF TimeInv
    <3>2. ASSUME NEW list \in cmdCommands, cmdTodo' = Cmd!AnswersTo(cmdFrame.asks) \o list
          PROVE  cmdTodo' \in Seq(Timely)
      <4>1. list \in Seq(Timely) BY ListIsTimely
      <4>2. Cmd!AnswersTo(cmdFrame.asks) \in Seq(Timely)
        BY <1>0, AnswersAreTimely DEF CmdTypes
      <4> QED BY <3>2, <4>1, <4>2, ConcatProperties
    <3> QED BY <2>1, <3>1, <3>2
  <2>4. CmdTypes' BY <1>0, <2>1 DEF CmdTypes
  <2>5. TimeInv' BY <1>0, <2>1, <2>2, <2>3 DEF TimeInv, Cmd!NetworkTimeRight
  <2> QED BY <2>4, <2>5 DEF CmdInv
<1>6. CASE Cmd!Parse
  <2>1. /\ cmdPhase = "PARSE" /\ cmdTodo # <<>>
        /\ UNCHANGED <<cmdPhase, cmdFrame, cmdNow, cmdSent>>
    BY <1>6 DEF Cmd!Parse
  <2> DEFINE c == Head(cmdTodo)
  <2>2. cmdTodo \in Seq(Timely) BY <1>0 DEF TimeInv
  <2>3. c \in Timely /\ Tail(cmdTodo) \in Seq(Timely) BY <2>1, <2>2, HeadTailProperties
  <2>4. Timely' = Timely BY <2>1, TimelyKept
  <2> HIDE DEF c
  <2>5. CASE Cmd!StickyCommand(c) \/ Cmd!PlainCommand(c)
    <3>1. UNCHANGED <<cmdReq, cmdClock>> /\ cmdTodo' = Tail(cmdTodo)
      BY <2>5 DEF Cmd!StickyCommand, Cmd!PlainCommand
    <3>2. CmdTypes' BY <1>0, <2>1, <3>1 DEF CmdTypes
    <3>3. TimeInv' BY <1>0, <2>1, <2>3, <2>4, <3>1 DEF TimeInv, Cmd!NetworkTimeRight
    <3> QED BY <3>2, <3>3 DEF CmdInv
  <2>6. CASE Cmd!RequestAnswer(c)
    <3>1. CASE cmdReq[c.cid] = "SENT"
      <4>1. /\ c.cid \in cmdRequests /\ cmdReq' = [cmdReq EXCEPT ![c.cid] = "ACKED"]
            /\ cmdClock' = IF c.cid = "DEVICE_TIME" THEN [epoch |-> c.val, stamp |-> cmdSent]
                           ELSE cmdClock
            /\ cmdTodo' = Tail(cmdTodo)
        BY <2>6, <3>1 DEF Cmd!RequestAnswer, Cmd!Expected
      <4>2. Cmd!NetworkTimeRight'
        <5>1. CASE c.cid # "DEVICE_TIME"
          BY <1>0, <4>1, <5>1 DEF TimeInv, Cmd!NetworkTimeRight
        <5>2. CASE c.cid = "DEVICE_TIME"
          <6>1. c.val = cmdNow BY <2>3, <5>2 DEF Timely
          <6>2. cmdSent = cmdNow BY <1>0, <3>1, <4>1, <5>2 DEF TimeInv
          <6> QED BY <4>1, <5>2, <6>1, <6>2 DEF Cmd!NetworkTimeRight
        <5> QED BY <5>1, <5>2
      <4>3. CmdTypes' BY <1>0, <2>1, <4>1 DEF CmdTypes
      <4>4. "DEVICE_TIME" \in cmdRequests /\ cmdReq'["DEVICE_TIME"] = "SENT" =>
               cmdReq["DEVICE_TIME"] = "SENT"
        BY <1>0, <4>1 DEF CmdTypes
      <4>5. TimeInv' BY <1>0, <2>1, <2>3, <2>4, <4>1, <4>2, <4>4 DEF TimeInv
      <4> QED BY <4>3, <4>5 DEF CmdInv
    <3>2. CASE cmdReq[c.cid] # "SENT"
      <4>1. UNCHANGED <<cmdReq, cmdClock, cmdTodo>>
        BY <2>6, <3>2 DEF Cmd!RequestAnswer, Cmd!Expected
      <4>2. CmdTypes' BY <1>0, <2>1, <4>1 DEF CmdTypes
      <4>3. TimeInv' BY <1>0, <2>1, <2>4, <4>1 DEF TimeInv, Cmd!NetworkTimeRight
      <4> QED BY <4>2, <4>3 DEF CmdInv
    <3> QED BY <3>1, <3>2
  <2> QED BY <1>6, <2>5, <2>6 DEF Cmd!Parse, c
<1>7. CASE Cmd!Update
  <2>1. /\ cmdPhase = "PARSE" /\ cmdTodo = <<>> /\ cmdPhase' \in {"IDLE", "SEND"}
        /\ cmdReq' = [k \in cmdRequests |-> Cmd!Closed(cmdReq[k])]
        /\ UNCHANGED <<cmdNow, cmdTodo, cmdSent, cmdClock>>
    BY <1>7 DEF Cmd!Update
  <2>2. cmdFrame'.asks \subseteq cmdRequests
    <3>1. \/ UNCHANGED cmdFrame
          \/ \E max \in cmdMaxPayloads : LET fits == Cmd!Octets(cmdAns) <= max IN
                Cmd!Build({}, IF fits THEN cmdAns ELSE Cmd!Cut(cmdAns, max - Cmd!Header),
                          ~fits)
      BY <1>7, Zenon DEF Cmd!Update
    <3>2. \A answers, omits : Cmd!Build({}, answers, omits) => cmdFrame'.asks = {}
      BY DEF Cmd!Build
    <3>3. UNCHANGED cmdFrame \/ cmdFrame'.asks = {} BY <3>1, <3>2, Zenon
    <3> QED BY <1>0, <3>3 DEF CmdTypes
  <2>3. /\ DOMAIN cmdReq' = cmdRequests
        /\ "DEVICE_TIME" \in cmdRequests => cmdReq'["DEVICE_TIME"] # "SENT"
    BY <2>1 DEF Cmd!Closed
  <2> QED BY <2>1, <2>2, <2>3, CmdQuiet
<1>8. CASE UNCHANGED cmdVars
  <2>1. UNCHANGED <<cmdPhase, cmdFrame, cmdReq, cmdNow, cmdTodo, cmdSent, cmdClock>>
    BY <1>8 DEF cmdVars
  <2>2. Timely' = Timely BY <2>1, TimelyKept
  <2> QED BY <1>0, <2>1, <2>2 DEF CmdInv, CmdTypes, TimeInv, Cmd!NetworkTimeRight
<1> QED BY <1>1, <1>2, <1>3, <1>4, <1>5, <1>6, <1>7, <1>8 DEF Cmd!Next

\* The MAC commands' invariant while they run.
CmdRuns == which = "Cmd" => CmdInv

\* It holds of every behaviour.
LEMMA CmdRunsInvariant == Spec => []CmdRuns
<1>0. Cmd!CommandsAssumption BY ServicesAssumption DEF ServicesAssumption
<1>1. Init => CmdRuns BY <1>0, InitCmd DEF Init, CmdRuns
<1>2. CmdRuns /\ [Next]_vars => CmdRuns'
  <2> SUFFICES ASSUME CmdRuns, [Next]_vars, which' = "Cmd" PROVE CmdInv'
    BY DEF CmdRuns
  <2>1. /\ which = "Cmd" /\ (Cmd!Next \/ UNCHANGED cmdVars) BY StepsOfOne
  <2> QED BY <1>0, <2>1, NextCmd DEF CmdRuns
<1> QED BY <1>1, <1>2, PTL DEF Spec

\* The network's time is paired with the transmission it answers (lr1_stack_mac_layer.c).
THEOREM ServicesNetworkTimeRight == Spec => []NetworkTimeRight
<1>1. CmdRuns => NetworkTimeRight BY DEF CmdRuns, CmdInv, TimeInv, NetworkTimeRight
<1> QED BY <1>1, CmdRunsInvariant, PTL

\* What the network believes of the parameters is a setting of them.
IsSetting(view) == view = [k \in cmdSetups |-> view[k]]

\* The answers that tell a parameter.
Said(answers, k) == {i \in DOMAIN answers : answers[i].cid = k /\ answers[i].ok}

\* What a list of answers makes believe, by the answers that tell each parameter.
LEMMA BelievesSaid ==
    ASSUME NEW view, NEW answers
    PROVE  Cmd!Believes(view, answers) =
              [k \in cmdSetups |-> IF Said(answers, k) = {} THEN view[k]
                                   ELSE answers[Cmd!Max(Said(answers, k))].val]
BY DEF Cmd!Believes, Said

\* The same answers heard again change nothing.
LEMMA BelievesTwice ==
    ASSUME NEW view, NEW answers
    PROVE  /\ Cmd!Believes(Cmd!Believes(view, answers), answers) = Cmd!Believes(view, answers)
           /\ IsSetting(Cmd!Believes(view, answers))
<1>1. \A v : Cmd!Believes(v, answers) =
              [k \in cmdSetups |-> IF Said(answers, k) = {} THEN v[k]
                                   ELSE answers[Cmd!Max(Said(answers, k))].val]
  BY BelievesSaid
<1> QED BY <1>1 DEF IsSetting

\* Nor do no answers.
LEMMA BelievesNothing ==
    ASSUME NEW view, IsSetting(view) PROVE Cmd!Believes(view, <<>>) = view
<1>1. \A k : Said(<<>>, k) = {} BY DEF Said
<1>2. Cmd!Believes(view, <<>>) =
        [k \in cmdSetups |-> IF Said(<<>>, k) = {} THEN view[k]
                             ELSE <<>>[Cmd!Max(Said(<<>>, k))].val]
  BY BelievesSaid
<1>3. Cmd!Believes(view, <<>>) = [k \in cmdSetups |-> view[k]] BY <1>1, <1>2, Zenon
<1> QED BY <1>3, Zenon DEF IsSetting

\* A set of places of a list has a greatest one.
LEMMA LastPlace ==
    ASSUME NEW n \in Nat, NEW S \in SUBSET (1 .. n), S # {}
    PROVE  Cmd!Max(S) \in S /\ \A i \in S : Cmd!Max(S) >= i
<1> DEFINE Lt == {p \in Nat \X Nat : p[1] < p[2]}
           T == {k \in Nat : k < n /\ n - k \in S}
<1>1. IsWellFoundedOn(Lt, Nat) BY NatLessThanWellFounded DEF OpToRel
<1>2. T \in SUBSET Nat /\ T # {}
  <2>1. PICK i \in S : TRUE OBVIOUS
  <2>2. n - i \in Nat /\ n - i < n /\ n - (n - i) = i BY <2>1
  <2> QED BY <2>1, <2>2
<1>3. PICK m \in T : \A k \in T : <<k, m>> \notin Lt
  <2> HIDE DEF Lt, T
  <2> QED BY <1>1, <1>2, WFMin, Zenon
<1>4. ASSUME NEW i \in S PROVE n - i \in T
  <2>1. n - i \in Nat /\ n - i < n /\ n - (n - i) = i BY <1>4
  <2> QED BY <1>4, <2>1
<1>5. ASSUME NEW k \in T PROVE k >= m
  <2>1. <<k, m>> \notin Lt /\ k \in Nat /\ m \in Nat BY <1>3, <1>5
  <2> QED BY <2>1
<1>6. n - m \in S /\ \A i \in S : n - m >= i
  <2>1. m \in Nat /\ n - m \in S BY <1>3
  <2>2. \A i \in S : n - i >= m BY <1>4, <1>5
  <2> QED BY <2>1, <2>2
<1> QED BY <1>6 DEF Cmd!Max

\* The setting once a command is answered, if it was accepted.
SetBy(c, view) == [k \in cmdSetups |-> IF c.ok /\ c.cid = k THEN c.val ELSE view[k]]

\* One answer more tells its own parameter.
LEMMA BelievesMore ==
    ASSUME NEW view, NEW s \in Seq(CmdAnswer), NEW c
    PROVE  Cmd!Believes(view, Append(s, c)) = SetBy(c, Cmd!Believes(view, s))
<1> DEFINE t == Append(s, c)  n == Len(s)
<1>1. /\ n \in Nat /\ DOMAIN s = 1 .. n /\ DOMAIN t = 1 .. n + 1 /\ t[n + 1] = c
      /\ \A i \in 1 .. n : t[i] = s[i]
  OBVIOUS
<1> HIDE DEF t, n
<1>2. ASSUME NEW k \in cmdSetups, c.ok /\ c.cid = k
      PROVE  Said(t, k) # {} /\ t[Cmd!Max(Said(t, k))].val = c.val
  <2>1. Said(t, k) \in SUBSET (1 .. n + 1) /\ n + 1 \in Said(t, k)
    BY <1>1, <1>2 DEF Said
  <2>2. n + 1 \in Nat /\ Said(t, k) # {} BY <1>1, <2>1
  <2>3. /\ Cmd!Max(Said(t, k)) \in Said(t, k)
        /\ \A i \in Said(t, k) : Cmd!Max(Said(t, k)) >= i
    BY <2>1, <2>2, LastPlace, Zenon
  <2>4. Cmd!Max(Said(t, k)) = n + 1 BY <1>1, <2>1, <2>3
  <2> QED BY <1>1, <2>1, <2>4
<1>3. ASSUME NEW k \in cmdSetups, ~(c.ok /\ c.cid = k)
      PROVE  /\ Said(t, k) = Said(s, k)
             /\ Said(s, k) # {} => t[Cmd!Max(Said(t, k))] = s[Cmd!Max(Said(s, k))]
  <2>1. Said(t, k) = Said(s, k) BY <1>1, <1>3 DEF Said
  <2>2. Said(s, k) \in SUBSET (1 .. n) BY <1>1 DEF Said
  <2>3. Said(s, k) # {} => Cmd!Max(Said(s, k)) \in 1 .. n BY <1>1, <2>2, LastPlace
  <2> QED BY <1>1, <2>1, <2>3
<1>4. Cmd!Believes(view, t) = [k \in cmdSetups |-> IF Said(t, k) = {} THEN view[k]
                                        ELSE t[Cmd!Max(Said(t, k))].val]
  BY BelievesSaid
<1>5. Cmd!Believes(view, s) = [k \in cmdSetups |-> IF Said(s, k) = {} THEN view[k]
                                        ELSE s[Cmd!Max(Said(s, k))].val]
  BY BelievesSaid
<1>6. \A k \in cmdSetups : Cmd!Believes(view, t)[k] =
         IF c.ok /\ c.cid = k THEN c.val ELSE Cmd!Believes(view, s)[k]
  BY <1>2, <1>3, <1>4, <1>5
<1>7. Cmd!Believes(view, t) = [k \in cmdSetups |-> Cmd!Believes(view, t)[k]]
  BY BelievesTwice DEF IsSetting
<1> QED BY <1>6, <1>7 DEF t, SetBy
\* The shape of the network's record and of the lists, and the phases of a frame.
AgreeTypes ==
    /\ cmdNet = [heard |-> cmdNet.heard, view |-> cmdNet.view, told |-> cmdNet.told,
                 gap |-> cmdNet.gap]
    /\ IsSetting(cmdNet.view) /\ IsSetting(cmdDev)
    /\ cmdAns \in Seq(CmdAnswer) /\ cmdSticky \in Seq(CmdAnswer)

\* A frame may still be transmitted.
ToTransmit == cmdPhase \in {"SEND", "WINDOWS"} \/ (cmdPhase = "PARSE" /\ ~(cmdCpt <= 1))

\* Unless answers were left out, what the network believes becomes what the device has
\* set as soon as it hears the frame being transmitted, the answers being prepared, or
\* those kept for the next frames; and nothing is to be parsed or answered while the
\* frame may be repeated.
Agreement ==
    /\ cmdTodo # <<>> => ~cmdNet.told
    /\ cmdPhase # "PARSE" \/ ~(cmdCpt <= 1) => cmdTodo = <<>> /\ cmdAns = <<>>
    /\ ~cmdNet.gap =>
          /\ cmdNet.told => cmdNet.view = cmdDev
          /\ cmdPhase = "WINDOWS" /\ cmdNet.heard => cmdNet.view = cmdDev
          /\ cmdPhase = "IDLE" => cmdCurrent = cmdSticky
          /\ Cmd!Believes(cmdNet.view, cmdSticky) = cmdDev
          /\ ToTransmit => Cmd!Believes(cmdNet.view, cmdFrame.answers) = cmdDev
          /\ cmdTodo # <<>> \/ cmdAns # <<>> => Cmd!Believes(cmdNet.view, cmdAns) = cmdDev

AgreeInv == AgreeTypes /\ Agreement

\* At first.
LEMMA InitAgree == ASSUME Cmd!Init PROVE AgreeInv
<1>1. /\ cmdPhase = "IDLE" /\ cmdTodo = <<>> /\ cmdAns = <<>> /\ cmdSticky = <<>>
      /\ cmdCurrent = <<>> /\ cmdDev = [c \in cmdSetups |-> 0]
      /\ cmdNet = [heard |-> FALSE, view |-> cmdDev, told |-> TRUE, gap |-> FALSE]
  BY DEF Cmd!Init
<1>2. IsSetting(cmdDev) BY <1>1 DEF IsSetting
<1>3. Cmd!Believes(cmdDev, <<>>) = cmdDev BY <1>2, BelievesNothing
<1>4. AgreeTypes BY <1>1, <1>2 DEF AgreeTypes
<1>5. Agreement BY <1>1, <1>3 DEF Agreement, ToTransmit
<1> QED BY <1>4, <1>5 DEF AgreeInv

\* A frame is built with the answers kept for it, or with some left out.
LEMMA BuildAgrees ==
    ASSUME NEW asks, NEW answers, NEW omits, Cmd!Build(asks, answers, omits), AgreeInv
    PROVE  /\ cmdFrame'.answers = answers
           /\ cmdNet' = [heard |-> cmdNet.heard, view |-> cmdNet.view, told |-> cmdNet.told,
                         gap |-> cmdNet.gap \/ omits]
BY DEF Cmd!Build, AgreeInv, AgreeTypes

\* A frame built from the answers kept, unless some are left out, keeps the agreement.
LEMMA UplinkAgrees ==
    ASSUME AgreeInv, cmdPhase = "IDLE", cmdPhase' = "SEND",
           NEW asks, NEW answers, NEW omits, Cmd!Build(asks, answers, omits),
           omits \/ answers = cmdCurrent,
           UNCHANGED <<cmdTodo, cmdAns, cmdSticky, cmdCurrent, cmdDev>>
    PROVE  AgreeInv'
<1>1. AgreeTypes /\ Agreement BY DEF AgreeInv
<1>2. /\ cmdFrame'.answers = answers
      /\ cmdNet' = [heard |-> cmdNet.heard, view |-> cmdNet.view, told |-> cmdNet.told,
                    gap |-> cmdNet.gap \/ omits]
  BY BuildAgrees
<1>3. /\ cmdNet'.view = cmdNet.view /\ cmdNet'.told = cmdNet.told
      /\ ~cmdNet'.gap => ~cmdNet.gap /\ ~omits
  BY <1>2
<1>4. AgreeTypes' BY <1>1, <1>2, <1>3 DEF AgreeTypes, IsSetting
<1>5. cmdTodo = <<>> /\ cmdAns = <<>> BY <1>1 DEF Agreement
<1>6. ~cmdNet'.gap => answers = cmdSticky BY <1>1, <1>3 DEF Agreement
<1>7. Agreement' BY <1>1, <1>2, <1>3, <1>5, <1>6 DEF Agreement, ToTransmit
<1> QED BY <1>4, <1>7 DEF AgreeInv

\* The network hears the frame, or does not.
LEMMA TxDoneAgrees == ASSUME AgreeInv, Cmd!TxDone PROVE AgreeInv'
<1>1. AgreeTypes /\ Agreement BY DEF AgreeInv
<1>2. /\ cmdPhase = "SEND" /\ cmdPhase' = "WINDOWS" /\ Cmd!Hears
      /\ UNCHANGED <<cmdFrame, cmdTodo, cmdAns, cmdSticky, cmdCurrent, cmdDev>>
  BY DEF Cmd!TxDone
<1> DEFINE view == Cmd!Believes(cmdNet.view, cmdFrame.answers)
<1>3. cmdTodo = <<>> /\ cmdAns = <<>> BY <1>1, <1>2 DEF Agreement
<1>4. CASE cmdNet' = [cmdNet EXCEPT !.heard = FALSE]
  <2>1. cmdNet' = [heard |-> FALSE, view |-> cmdNet.view, told |-> cmdNet.told,
                   gap |-> cmdNet.gap]
    BY <1>1, <1>4 DEF AgreeTypes
  <2>2. AgreeTypes' BY <1>1, <1>2, <2>1 DEF AgreeTypes, IsSetting
  <2>3. Agreement' BY <1>1, <1>2, <1>3, <2>1 DEF Agreement, ToTransmit
  <2> QED BY <2>2, <2>3 DEF AgreeInv
<1>5. CASE cmdNet' = [cmdNet EXCEPT !.heard = TRUE, !.view = view, !.told = TRUE,
                        !.gap = @ /\ (view # cmdDev \/ Cmd!Believes(cmdDev, cmdSticky) # cmdDev)]
  <2> HIDE DEF view
  <2>1. cmdNet' = [heard |-> TRUE, view |-> view, told |-> TRUE,
                   gap |-> cmdNet.gap /\ (view # cmdDev
                                            \/ Cmd!Believes(cmdDev, cmdSticky) # cmdDev)]
    BY <1>1, <1>5 DEF AgreeTypes
  <2>2. /\ cmdNet'.view = view
        /\ ~cmdNet'.gap => ~cmdNet.gap
                             \/ (view = cmdDev /\ Cmd!Believes(cmdDev, cmdSticky) = cmdDev)
    BY <2>1
  <2>3. IsSetting(view) /\ Cmd!Believes(view, cmdFrame.answers) = view
    BY BelievesTwice DEF view
  <2>4. AgreeTypes' BY <1>1, <1>2, <2>1, <2>2, <2>3 DEF AgreeTypes, IsSetting
  <2>5. ~cmdNet.gap => view = cmdDev /\ Cmd!Believes(cmdDev, cmdSticky) = cmdDev
    <3>1. ~cmdNet.gap => view = cmdDev BY <1>1, <1>2 DEF Agreement, ToTransmit, view
    <3>2. ~cmdNet.gap => Cmd!Believes(cmdNet.view, cmdSticky) = cmdDev
      BY <1>1 DEF Agreement
    <3>3. Cmd!Believes(Cmd!Believes(cmdNet.view, cmdSticky), cmdSticky)
            = Cmd!Believes(cmdNet.view, cmdSticky)
      BY BelievesTwice
    <3> QED BY <3>1, <3>2, <3>3
  <2>6. ~cmdNet'.gap => view = cmdDev /\ Cmd!Believes(cmdDev, cmdSticky) = cmdDev
    BY <2>2, <2>5
  <2>7. Agreement' BY <1>2, <1>3, <2>2, <2>3, <2>6 DEF Agreement, ToTransmit
  <2> QED BY <2>4, <2>7 DEF AgreeInv
<1> QED BY <1>2, <1>4, <1>5 DEF Cmd!Hears, view

\* A downlink ends the repetitions, so the answers kept may go.
LEMMA RxEndAgrees == ASSUME AgreeInv, Cmd!RxEnd PROVE AgreeInv'
<1>1. AgreeTypes /\ Agreement BY DEF AgreeInv
<1>2. /\ cmdPhase = "WINDOWS" /\ cmdPhase' = "PARSE" /\ UNCHANGED <<cmdFrame, cmdAns, cmdDev>>
      /\ \/ UNCHANGED <<cmdTodo, cmdSticky, cmdCurrent, cmdCpt, cmdNet>>
         \/ /\ cmdNet.heard /\ cmdSticky' = <<>> /\ cmdCurrent' = <<>> /\ cmdCpt' = 1
            /\ cmdNet' = [cmdNet EXCEPT !.told = @ /\ cmdTodo' = <<>>]
  BY DEF Cmd!RxEnd
<1>3. cmdTodo = <<>> /\ cmdAns = <<>> BY <1>1, <1>2 DEF Agreement
<1>4. CASE UNCHANGED <<cmdTodo, cmdSticky, cmdCurrent, cmdCpt, cmdNet>>
  <2>1. AgreeTypes' BY <1>1, <1>2, <1>4 DEF AgreeTypes, IsSetting
  <2>2. Agreement' BY <1>1, <1>2, <1>3, <1>4 DEF Agreement, ToTransmit
  <2> QED BY <2>1, <2>2 DEF AgreeInv
<1>5. CASE /\ cmdNet.heard /\ cmdSticky' = <<>> /\ cmdCurrent' = <<>> /\ cmdCpt' = 1
           /\ cmdNet' = [cmdNet EXCEPT !.told = @ /\ cmdTodo' = <<>>]
  <2>1. cmdNet' = [heard |-> cmdNet.heard, view |-> cmdNet.view,
                   told |-> cmdNet.told /\ cmdTodo' = <<>>, gap |-> cmdNet.gap]
    BY <1>1, <1>5 DEF AgreeTypes
  <2>2. AgreeTypes' BY <1>1, <1>2, <1>5, <2>1 DEF AgreeTypes, IsSetting
  <2>3. /\ cmdNet'.view = cmdNet.view /\ cmdNet'.gap = cmdNet.gap
        /\ cmdNet'.told => cmdTodo' = <<>>
    BY <2>1
  <2>4. ~cmdNet.gap => cmdNet.view = cmdDev BY <1>1, <1>2, <1>5 DEF Agreement
  <2>5. Cmd!Believes(cmdNet.view, <<>>) = cmdNet.view
    BY <1>1, BelievesNothing DEF AgreeTypes
  <2>6. Agreement' BY <1>2, <1>3, <1>5, <2>3, <2>4, <2>5 DEF Agreement, ToTransmit
  <2> QED BY <2>2, <2>6 DEF AgreeInv
<1> QED BY <1>2, <1>4, <1>5

\* A command answered twice sets its parameter as its answer says.
LEMMA StickyAgrees ==
    ASSUME AgreeInv, NEW c \in CmdAnswer, cmdPhase = "PARSE", cmdTodo # <<>>,
           Cmd!StickyCommand(c), UNCHANGED <<cmdPhase, cmdFrame, cmdCpt, cmdCurrent>>
    PROVE  AgreeInv'
<1>1. AgreeTypes /\ Agreement BY DEF AgreeInv
<1>2. /\ cmdDev' = IF c.ok THEN [cmdDev EXCEPT ![c.cid] = c.val] ELSE cmdDev
      /\ cmdAns' = Append(cmdAns, c)
      /\ \/ cmdSticky' = Append(cmdSticky, c) /\ cmdNet' = [cmdNet EXCEPT !.gap = @ \/ FALSE]
         \/ cmdSticky' = cmdSticky /\ cmdNet' = [cmdNet EXCEPT !.gap = @ \/ c.ok]
  <2>1. CASE Cmd!Octets(cmdSticky) + Cmd!AnswerSize(c) <= cmdMaxSticky
    BY <2>1 DEF Cmd!StickyCommand
  <2>2. CASE ~(Cmd!Octets(cmdSticky) + Cmd!AnswerSize(c) <= cmdMaxSticky)
    BY <2>2 DEF Cmd!StickyCommand
  <2> QED BY <2>1, <2>2
<1>3. cmdDev' = SetBy(c, cmdDev) BY <1>1, <1>2 DEF AgreeTypes, IsSetting, SetBy
<1>4. ~cmdNet.told /\ (cmdPhase = "PARSE" => cmdCpt <= 1) BY <1>1 DEF Agreement
<1>5. /\ cmdNet'.view = cmdNet.view /\ cmdNet'.told = cmdNet.told
      /\ ~cmdNet'.gap => ~cmdNet.gap
      /\ cmdNet' = [heard |-> cmdNet'.heard, view |-> cmdNet'.view, told |-> cmdNet'.told,
                    gap |-> cmdNet'.gap]
      /\ cmdSticky' # Append(cmdSticky, c) =>
            cmdSticky' = cmdSticky /\ (~cmdNet'.gap => ~c.ok)
  BY <1>1, <1>2 DEF AgreeTypes
<1>6. AgreeTypes'
  <2>1. cmdAns' \in Seq(CmdAnswer) /\ cmdSticky' \in Seq(CmdAnswer)
    <3>1. cmdAns \in Seq(CmdAnswer) /\ cmdSticky \in Seq(CmdAnswer)
      BY <1>1 DEF AgreeTypes
    <3>2. \A s \in Seq(CmdAnswer) : Append(s, c) \in Seq(CmdAnswer)
      BY AppendProperties, Zenon
    <3>3. cmdSticky' \in {cmdSticky, Append(cmdSticky, c)} BY <1>2
    <3> QED BY <1>2, <3>1, <3>2, <3>3
  <2>2. IsSetting(cmdDev)' BY <1>3 DEF IsSetting, SetBy
  <2> QED BY <1>1, <1>5, <2>1, <2>2 DEF AgreeTypes, IsSetting
<1>7. ~cmdNet'.gap => Cmd!Believes(cmdNet.view, cmdSticky') = cmdDev'
  <2>1. ~cmdNet.gap => Cmd!Believes(cmdNet.view, cmdSticky) = cmdDev BY <1>1 DEF Agreement
  <2>2. CASE cmdSticky' = Append(cmdSticky, c)
    <3>1. cmdSticky \in Seq(CmdAnswer) BY <1>1 DEF AgreeTypes
    <3>2. Cmd!Believes(cmdNet.view, cmdSticky')
            = SetBy(c, Cmd!Believes(cmdNet.view, cmdSticky))
      BY <2>2, <3>1, BelievesMore, Zenon
    <3> QED BY <1>3, <1>5, <2>1, <3>2
  <2>3. CASE cmdSticky' # Append(cmdSticky, c)
    <3>1. ~c.ok => cmdDev' = cmdDev BY <1>2
    <3> QED BY <1>5, <2>1, <2>3, <3>1
  <2> QED BY <2>2, <2>3
<1>8. ~cmdNet'.gap => Cmd!Believes(cmdNet.view, cmdAns') = cmdDev'
  <2>1. ~cmdNet.gap => Cmd!Believes(cmdNet.view, cmdAns) = cmdDev BY <1>1 DEF Agreement
  <2>2. cmdAns \in Seq(CmdAnswer) BY <1>1 DEF AgreeTypes
  <2>3. Cmd!Believes(cmdNet.view, cmdAns') = SetBy(c, Cmd!Believes(cmdNet.view, cmdAns))
    BY <1>2, <2>2, BelievesMore, Zenon
  <2> QED BY <1>3, <1>5, <2>1, <2>3
<1>9. Agreement'
  <2>1. ~ToTransmit' /\ ~cmdNet'.told /\ cmdPhase' = "PARSE" /\ cmdCpt' <= 1
    BY <1>4, <1>5 DEF ToTransmit
  <2> QED BY <1>5, <1>7, <1>8, <2>1 DEF Agreement
<1> QED BY <1>6, <1>9 DEF AgreeInv

\* The answers to the other commands tell no parameter.
LEMMA PlainAgrees ==
    ASSUME AgreeInv, Cmd!CommandsAssumption, NEW c \in CmdAnswer, cmdPhase = "PARSE",
           cmdTodo # <<>>, Cmd!PlainCommand(c) \/ Cmd!RequestAnswer(c),
           UNCHANGED <<cmdPhase, cmdFrame, cmdCpt, cmdCurrent>>
    PROVE  AgreeInv'
<1>1. AgreeTypes /\ Agreement BY DEF AgreeInv
<1>2. ~cmdNet.told /\ cmdCpt <= 1 BY <1>1 DEF Agreement
<1>3. UNCHANGED <<cmdDev, cmdSticky, cmdNet>>
  BY DEF Cmd!PlainCommand, Cmd!RequestAnswer
<1>4. /\ cmdAns' \in Seq(CmdAnswer)
      /\ Cmd!Believes(cmdNet.view, cmdAns') = Cmd!Believes(cmdNet.view, cmdAns)
  <2>1. CASE Cmd!PlainCommand(c)
    <3>1. c.cid \in Cmd!Plain /\ cmdAns' = Append(cmdAns, c) BY <2>1 DEF Cmd!PlainCommand
    <3>2. \A k \in cmdSetups : c.cid # k
      BY <3>1 DEF Cmd!CommandsAssumption, Cmd!Sticky, Cmd!Plain
    <3>3. cmdAns \in Seq(CmdAnswer) BY <1>1 DEF AgreeTypes
    <3>4. Cmd!Believes(cmdNet.view, cmdAns') = SetBy(c, Cmd!Believes(cmdNet.view, cmdAns))
      BY <3>1, <3>3, BelievesMore, Zenon
    <3>5. IsSetting(Cmd!Believes(cmdNet.view, cmdAns)) BY BelievesTwice
    <3>6. Cmd!Believes(cmdNet.view, cmdAns') = Cmd!Believes(cmdNet.view, cmdAns)
      BY <3>2, <3>4, <3>5 DEF IsSetting, SetBy
    <3> QED BY <3>1, <3>3, <3>6, AppendProperties
  <2>2. CASE Cmd!RequestAnswer(c)
    BY <1>1, <2>2 DEF Cmd!RequestAnswer, AgreeTypes
  <2> QED BY <2>1, <2>2
<1>5. AgreeTypes' BY <1>1, <1>3, <1>4 DEF AgreeTypes, IsSetting
<1>6. ~ToTransmit' BY <1>2 DEF ToTransmit
<1>7. ~cmdNet.gap => Cmd!Believes(cmdNet.view, cmdAns) = cmdDev BY <1>1 DEF Agreement
<1>8. Agreement' BY <1>1, <1>2, <1>3, <1>4, <1>6, <1>7 DEF Agreement
<1> QED BY <1>5, <1>8 DEF AgreeInv

\* The end of an exchange: the answers prepared are sent, or the frame is repeated, or the
\* next frame takes the answers kept.
LEMMA UpdateAgrees == ASSUME AgreeInv, Cmd!Update PROVE AgreeInv'
<1>1. AgreeTypes /\ Agreement BY DEF AgreeInv
<1>2. /\ cmdPhase = "PARSE" /\ cmdTodo = <<>> /\ cmdAns' = <<>>
      /\ UNCHANGED <<cmdTodo, cmdSticky, cmdDev>>
  BY DEF Cmd!Update
<1>3. ~cmdNet.gap => Cmd!Believes(cmdNet.view, cmdSticky) = cmdDev BY <1>1 DEF Agreement
<1>4. CASE cmdAns # <<>> /\ Cmd!Octets(cmdAns) >= Cmd!Octets(cmdSticky)
  <2>1. CASE /\ cmdPhase' = "SEND"
             /\ \E max \in cmdMaxPayloads : LET fits == Cmd!Octets(cmdAns) <= max IN
                  Cmd!Build({}, IF fits THEN cmdAns ELSE Cmd!Cut(cmdAns, max - Cmd!Header),
                            ~fits)
    <3>1. PICK max \in cmdMaxPayloads : LET fits == Cmd!Octets(cmdAns) <= max IN
            Cmd!Build({}, IF fits THEN cmdAns ELSE Cmd!Cut(cmdAns, max - Cmd!Header), ~fits)
      BY <2>1
    <3> DEFINE fits == Cmd!Octets(cmdAns) <= max
               answers == IF fits THEN cmdAns ELSE Cmd!Cut(cmdAns, max - Cmd!Header)
               omits == ~fits
    <3>2. Cmd!Build({}, answers, omits) /\ (fits => answers = cmdAns) BY <3>1
    <3> HIDE DEF answers, omits
    <3>3. /\ cmdFrame'.answers = answers
          /\ cmdNet' = [heard |-> cmdNet.heard, view |-> cmdNet.view, told |-> cmdNet.told,
                        gap |-> cmdNet.gap \/ omits]
      BY <3>2, BuildAgrees
    <3>4. /\ cmdNet'.view = cmdNet.view /\ cmdNet'.told = cmdNet.told
          /\ ~cmdNet'.gap => ~cmdNet.gap /\ cmdFrame'.answers = cmdAns
      BY <3>2, <3>3 DEF omits
    <3>5. AgreeTypes' BY <1>1, <1>2, <3>3, <3>4 DEF AgreeTypes, IsSetting
    <3>6. ~cmdNet.gap => Cmd!Believes(cmdNet.view, cmdAns) = cmdDev
      BY <1>1, <1>4 DEF Agreement
    <3>7. Agreement' BY <1>1, <1>2, <1>3, <2>1, <3>4, <3>6 DEF Agreement, ToTransmit
    <3> QED BY <3>5, <3>7 DEF AgreeInv
  <2>2. CASE cmdPhase' = "IDLE" /\ cmdNet' = [cmdNet EXCEPT !.gap = TRUE]
    <3>1. cmdNet' = [heard |-> cmdNet.heard, view |-> cmdNet.view, told |-> cmdNet.told,
                     gap |-> TRUE]
      BY <1>1, <2>2 DEF AgreeTypes
    <3>2. AgreeTypes' BY <1>1, <1>2, <3>1 DEF AgreeTypes, IsSetting
    <3>3. Agreement' BY <1>2, <3>1 DEF Agreement
    <3> QED BY <3>2, <3>3 DEF AgreeInv
  <2> QED BY <1>4, <2>1, <2>2 DEF Cmd!Update
<1>5. CASE ~(cmdAns # <<>> /\ Cmd!Octets(cmdAns) >= Cmd!Octets(cmdSticky))
  <2>1. /\ cmdCurrent' = cmdSticky /\ UNCHANGED <<cmdFrame, cmdNet>>
        /\ cmdPhase' \in IF cmdCpt <= 1 THEN {"IDLE"} ELSE {"SEND", "IDLE"}
    BY <1>5 DEF Cmd!Update, Cmd!Repeated
  <2>2. AgreeTypes' BY <1>1, <1>2, <2>1 DEF AgreeTypes, IsSetting
  <2>3. cmdPhase' = "SEND" => ToTransmit BY <1>2, <2>1 DEF ToTransmit
  <2>4. cmdPhase' \in {"IDLE", "SEND"} BY <2>1
  <2>5. Agreement' BY <1>1, <1>2, <1>3, <2>1, <2>3, <2>4 DEF Agreement, ToTransmit
  <2> QED BY <2>2, <2>5 DEF AgreeInv
<1> QED BY <1>4, <1>5

\* Every step of the MAC commands keeps the agreement.
LEMMA NextAgree ==
    ASSUME Cmd!CommandsAssumption, CmdInv, AgreeInv, Cmd!Next \/ UNCHANGED cmdVars
    PROVE  AgreeInv'
<1>1. ASSUME NEW k \in cmdRequests, Cmd!Ask(k) PROVE AgreeInv'
  <2>1. cmdPhase = "IDLE" /\ UNCHANGED <<cmdTodo, cmdAns, cmdSticky, cmdCurrent, cmdDev>>
    BY <1>1 DEF Cmd!Ask
  <2>2. CASE UNCHANGED <<cmdFrame, cmdNet, cmdPhase, cmdCpt>>
    BY <2>1, <2>2 DEF AgreeInv, AgreeTypes, Agreement, ToTransmit, IsSetting
  <2>3. CASE /\ Cmd!Build(IF cmdReq[k] = "REQUESTED" THEN {} ELSE {k},
                          IF Cmd!Pending THEN <<>> ELSE cmdCurrent,
                          Cmd!Pending /\ cmdCurrent # <<>>)
             /\ cmdPhase' = "SEND"
    <3>1. (Cmd!Pending /\ cmdCurrent # <<>>)
             \/ (IF Cmd!Pending THEN <<>> ELSE cmdCurrent) = cmdCurrent
      OBVIOUS
    <3> QED BY <2>1, <2>3, <3>1, UplinkAgrees
  <2> QED BY <1>1, <2>2, <2>3 DEF Cmd!Ask
<1>2. CASE Cmd!UserFrame
  <2>1. /\ cmdPhase = "IDLE" /\ cmdPhase' = "SEND" /\ Cmd!Build({}, cmdCurrent, FALSE)
        /\ UNCHANGED <<cmdTodo, cmdAns, cmdSticky, cmdCurrent, cmdDev>>
    BY <1>2 DEF Cmd!UserFrame
  <2> QED BY <2>1, UplinkAgrees
<1>3. CASE Cmd!TxDone BY <1>3, TxDoneAgrees
<1>4. CASE Cmd!Aborted
  <2>1. /\ cmdPhase \in {"SEND", "WINDOWS"} /\ cmdPhase' = "PARSE"
        /\ UNCHANGED <<cmdFrame, cmdCpt, cmdTodo, cmdAns, cmdSticky, cmdCurrent, cmdDev,
                       cmdNet>>
    BY <1>4 DEF Cmd!Aborted
  <2> QED BY <2>1 DEF AgreeInv, AgreeTypes, Agreement, ToTransmit, IsSetting
<1>5. CASE Cmd!RxEnd BY <1>5, RxEndAgrees
<1>6. CASE Cmd!Parse
  <2> DEFINE c == Head(cmdTodo)
  <2>1. /\ cmdPhase = "PARSE" /\ cmdTodo # <<>>
        /\ UNCHANGED <<cmdPhase, cmdFrame, cmdCpt, cmdCurrent>>
        /\ Cmd!StickyCommand(c) \/ Cmd!PlainCommand(c) \/ Cmd!RequestAnswer(c)
    BY <1>6 DEF Cmd!Parse
  <2>2. cmdTodo \in Seq(Timely) BY DEF CmdInv, TimeInv
  <2>3. c \in Timely BY <2>1, <2>2, HeadTailProperties
  <2>4. c \in CmdAnswer BY <2>3 DEF Timely
  <2> HIDE DEF c
  <2> QED BY <2>1, <2>4, StickyAgrees, PlainAgrees
<1>7. CASE Cmd!Update BY <1>7, UpdateAgrees
<1>8. CASE UNCHANGED cmdVars
  BY <1>8 DEF cmdVars, AgreeInv, AgreeTypes, Agreement, ToTransmit, IsSetting
<1> QED BY <1>1, <1>2, <1>3, <1>4, <1>5, <1>6, <1>7, <1>8 DEF Cmd!Next

\* The agreement while the MAC commands run.
AgreeRuns == which = "Cmd" => AgreeInv

\* The network and the device agree on the parameters once a frame is heard after the
\* network's commands, unless answers were left out (lr1_stack_mac_layer.c).
THEOREM ServicesParametersAgreed == Spec => []ParametersAgreed
<1>0. Cmd!CommandsAssumption BY ServicesAssumption DEF ServicesAssumption
<1>1. Init => AgreeRuns BY <1>0, InitAgree DEF Init, AgreeRuns
<1>2. CmdRuns /\ AgreeRuns /\ [Next]_vars => AgreeRuns'
  <2> SUFFICES ASSUME CmdRuns, AgreeRuns, [Next]_vars, which' = "Cmd" PROVE AgreeInv'
    BY DEF AgreeRuns
  <2>1. /\ which = "Cmd" /\ (Cmd!Next \/ UNCHANGED cmdVars) BY StepsOfOne
  <2> QED BY <1>0, <2>1, NextAgree DEF CmdRuns, AgreeRuns
<1>3. AgreeRuns => ParametersAgreed
  BY DEF AgreeRuns, AgreeInv, Agreement, ParametersAgreed, Cmd!ParametersAgreed
<1> QED BY <1>1, <1>2, <1>3, CmdRunsInvariant, PTL DEF Spec
===============================================================================

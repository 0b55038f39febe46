---------------------------- MODULE Lr1MacProofs ----------------------------
(***************************************************************************)
(* What the MAC keeps for any size of the counters, any number of            *)
(* repetitions and any downlinks: its callback's panic is not reached, a     *)
(* frame counter names one frame, a DevNonce one request, an answered frame  *)
(* is not repeated, an old downlink is refused, a packet is handed up once.  *)
(*                                                                         *)
(* InterruptExpected is not inductive: a join held back sends the MAC to     *)
(* idle, which must not happen while its task is in the planner, and an idle *)
(* MAC must not have a radio state left from an exchange.  The action        *)
(* properties rest on MacInv, whose parts relate the frame under way, the    *)
(* last one on the air and the session's keys and counters.                  *)
(***************************************************************************)
EXTENDS Lr1Mac, TLAPS

\* An exchange that ends leaves no task: each branch of process that calls
\* lr1mac_mac_update does so after the planner's report.
LEMMA MacUpdateKeeps ==
    ASSUME ExchangeInv, task = "NONE", NEW h, MacUpdate(h)
    PROVE  ExchangeInv'
BY DEF ExchangeInv, InterruptExpected, HeldBack, Tasks, MacUpdate, UpdateJoin

\* No exchange is going on at first.
LEMMA InitExchange == Init => ExchangeInv
BY DEF Init, ExchangeInv, InterruptExpected, HeldBack, Tasks

\* Every step keeps an exchange, its windows and its task in the planner together.
LEMMA NextExchange == ExchangeInv /\ [Next]_vars => ExchangeInv'
<1> SUFFICES ASSUME ExchangeInv, [Next]_vars PROVE ExchangeInv'
  OBVIOUS
<1> USE DEF ExchangeInv, InterruptExpected, HeldBack, Tasks
<1>1. CASE Join BY <1>1 DEF Join
<1>2. CASE Send BY <1>2 DEF Send
<1>3. CASE DrStrategySet BY <1>3 DEF DrStrategySet
<1>4. CASE JoinStatusClear BY <1>4 DEF JoinStatusClear, Opening
<1>5. CASE ProcessTooSoon BY <1>5 DEF ProcessTooSoon
<1>6. CASE ProcessAborted
  <2>1. task = "NONE" BY <1>6 DEF ProcessAborted
  <2> QED BY <1>6, <2>1, MacUpdateKeeps DEF ProcessAborted
<1>7. CASE ProcessSend BY <1>7 DEF ProcessSend
<1>8. CASE ProcessTxFinished
  <2>1. task = "NONE" /\ ~HeldBack BY <1>8 DEF ProcessTxFinished
  <2>2. OpenWindow /\ UNCHANGED <<join, tooSoon>> /\ mac' = "RX1" /\ rps = "TX_FINISHED"
    BY <1>8 DEF ProcessTxFinished
  <2> QED BY <2>1, <2>2 DEF OpenWindow
<1>9. CASE ProcessRx1
  <2>1. task = "NONE" /\ ~HeldBack BY <1>9 DEF ProcessRx1
  <2>2. CASE MacUpdate(heard) BY <2>1, <2>2, MacUpdateKeeps
  <2>3. CASE OpenWindow /\ mac' = "RX2" /\ UNCHANGED <<join, tooSoon>>
    BY <1>9, <2>1, <2>3 DEF ProcessRx1, OpenWindow
  <2> QED BY <1>9, <2>2, <2>3 DEF ProcessRx1
<1>10. CASE ProcessRx2 /\ ~Opening
  <2>1. task = "NONE" BY <1>10 DEF ProcessRx2, Opening
  <2> QED BY <1>10, <2>1, MacUpdateKeeps DEF ProcessRx2
<1>11. CASE ProcessTxWait BY <1>11 DEF ProcessTxWait
<1>12. CASE ReportTx BY <1>12 DEF ReportTx
<1>13. CASE ReportRx BY <1>13 DEF ReportRx
<1>14. CASE ReportAborted BY <1>14 DEF ReportAborted, Opening
<1>15. CASE TimeToJoin BY <1>15 DEF TimeToJoin
<1>16. CASE Boot BY <1>16 DEF Boot
<1>17. CASE UNCHANGED vars BY <1>17 DEF vars, ram
<1>18. CASE WriteRxOn BY <1>18 DEF WriteRxOn, Opening
<1>19. CASE EarlyAbort BY <1>19 DEF EarlyAbort, Opening
<1> QED
  BY <1>1, <1>2, <1>3, <1>4, <1>5, <1>6, <1>7, <1>8, <1>9, <1>10, <1>11, <1>12,
     <1>13, <1>14, <1>15, <1>16, <1>17, <1>18, <1>19
     DEF Next, Process, Reset, Failsafe, EarlyEnd

\* The invariant of an exchange.
THEOREM MacExchange == Spec => []ExchangeInv
BY InitExchange, NextExchange, PTL DEF Spec

\* The panic of lr1_stack_mac_rp_callback is not reached, whatever the commands,
\* the planner and the network do.
THEOREM MacInterruptExpected == Spec => []InterruptExpected
<1>1. ExchangeInv => InterruptExpected BY DEF ExchangeInv
<1> QED BY <1>1, MacExchange, PTL

-----------------------------------------------------------------------------
(* The inductive invariant of the MAC's counters, one part for each property. *)

Heards == {Silence} \cup JoinAccepts \cup Downlinks
Frames == [kind : {"NONE", "JOIN", "APP", "NWK"}, keys : 0 .. MaxNonce,
           n : Nat, id : 0 .. MaxBuilt]

\* The type of what the observer remembers.
SeenTypeOK ==
    seen \in [built : 0 .. MaxBuilt, aired : Frames, answered : BOOLEAN,
              pushes : 0 .. 2, got : BOOLEAN, spent : 0 .. MaxNonce]

Receiving == mac \in {"RX1", "RX2"}

\* A window starts with nothing heard, a join accept is heard only after a join
\* request, and a downlink only with session keys.
HeardInv ==
    /\ rps = "TX_FINISHED" => heard = Silence
    /\ Receiving /\ heard.kind = "JOIN_ACCEPT" => frame.kind = "JOIN"
    /\ Receiving /\ heard.kind = "DATA" =>
          keys # 0 /\ ("CMD" \in heard.has => seen.built < MaxBuilt)

\* A downlink that answers the frame leaves it no repetition, and it cannot be
\* waiting for one.
AnswerInv == seen.answered => cpt = 1 /\ mac \notin {"SEND", "TX_WAIT"}

\* The packet handed up last is forgotten when a transmission ends.
AvailInv == Receiving \/ rps = "TX_FINISHED" => ~avail

\* A nonce the network may have answered is in the non volatile memory.
NonceInv == seen.spent <= nvm.nonce /\ nvm.nonce <= nonce

\* The keys come from an earlier DevNonce, unless it has saturated.
Older(k) == k < nonce \/ nonce = MaxNonce

\* While a join request is under way, the keys and the last frame on the air are
\* those of an earlier DevNonce: the accept starts a new session.
JoinInv ==
    /\ keys <= nonce /\ seen.aired.keys <= nonce
    /\ join = "JOINED" => keys # 0
    /\ mac # "IDLE" /\ join = "JOINING" => frame.kind = "JOIN"
    /\ mac # "IDLE" /\ frame.kind = "JOIN" =>
          cpt = 1 /\ nonce # 0 /\ Older(keys) /\ Older(seen.aired.keys)

InSession == seen.aired.keys = keys /\ keys # 0 /\ keys < MaxNonce

\* The frame under way has the current counter, and either is the last one on the
\* air or is newer; between two frames the counter is past the last one.
CounterInv ==
    /\ seen.aired.keys = 0 => seen.aired = NoFrame
    /\ InSession /\ (mac = "IDLE" \/ frame.kind = "JOIN") => fcntUp > seen.aired.n
    /\ mac # "IDLE" /\ frame.kind # "JOIN" =>
          /\ frame.keys = keys /\ keys # 0 /\ frame.n = fcntUp
          /\ InSession /\ frame # seen.aired => frame.n > seen.aired.n

\* The inductive invariant.
MacInv ==
    /\ TypeOK /\ SeenTypeOK /\ ExchangeInv
    /\ HeardInv /\ AnswerInv /\ AvailInv /\ NonceInv /\ JoinInv /\ CounterInv

\* A boot without a context establishes it.
LEMMA InitMacInv == Init => MacInv
<1> SUFFICES ASSUME Init PROVE MacInv
  OBVIOUS
<1> USE Lr1MacAssumption DEF Init, NoFrame, Silence
<1>1. TypeOK
  <2>1. /\ mac \in States /\ rps \in RadioStates
        /\ heard \in {Silence} \cup JoinAccepts \cup Downlinks
        /\ fcntDwn \in {NoCounter} \cup 0 .. MaxDown
    BY DEF States, RadioStates
  <2>2. frame \in [kind : {"NONE", "JOIN", "APP", "NWK"}, keys : 0 .. MaxNonce,
                    n : Nat, id : 0 .. MaxBuilt]
    OBVIOUS
  <2>3. /\ nvm \in [nonce : 0 .. MaxNonce, jn : JoinNonces \cup {NoNonce}]
        /\ nonce \in 0 .. MaxNonce /\ joinNonce \in JoinNonces \cup {NoNonce}
    BY DEF NoNonce
  <2>4. /\ cpt \in 0 .. MaxTrans /\ nbTrans \in 1 .. MaxTrans
        /\ keys \in 0 .. MaxNonce /\ fcntUp \in Nat
    OBVIOUS
  <2>5. /\ join \in {"NOT_JOINED", "JOINING", "JOINED"}
        /\ task \in Tasks
        /\ avail \in BOOLEAN /\ tooSoon \in BOOLEAN /\ atTime \in BOOLEAN
    BY DEF Tasks
  <2> HIDE DEF Init, Silence
  <2> QED BY <2>1, <2>2, <2>3, <2>4, <2>5, Zenon DEF TypeOK
<1>2. SeenTypeOK BY DEF SeenTypeOK, Frames
<1>3. HeardInv /\ AnswerInv /\ AvailInv /\ NonceInv
  BY DEF HeardInv, AnswerInv, AvailInv, NonceInv, Receiving
<1>4. JoinInv /\ CounterInv BY DEF JoinInv, CounterInv, InSession
<1> QED BY <1>1, <1>2, <1>3, <1>4, InitExchange DEF MacInv

\* What is heard is of one sort, and silence is no downlink.
LEMMA HeardSorts ==
    ASSUME NEW h \in Heards
    PROVE  /\ ValidData(h) => h.fcnt \in 0 .. MaxDown /\ MicOk(h)
           /\ NewNonce(h) => h.jn \in JoinNonces
           /\ h.kind = "JOIN_ACCEPT" \/ h.kind = "DATA" \/ h = Silence
           /\ MicOk(h) => h.kind = "DATA"
           /\ ~Has(Silence, "CMD") /\ ~ValidData(Silence) /\ ~ValidJoinAccept(Silence)
BY DEF Heards, Silence, JoinAccepts, Downlinks, ValidData, NewNonce, ValidJoinAccept,
       MicOk, Has

\* What the end of an exchange needs to know of what was heard.
Usable(h) ==
    /\ h \in Heards
    /\ h.kind = "JOIN_ACCEPT" => frame.kind = "JOIN"
    /\ Has(h, "CMD") => seen.built < MaxBuilt

\* What the observer remembers of an exchange that ends.
LEMMA MacUpdateObserved ==
    ASSUME SeenTypeOK, avail \in BOOLEAN, NEW h, Usable(h), MacUpdate(h)
    PROVE  /\ seen' = [built |-> seen'.built, aired |-> seen.aired,
                       answered |-> seen'.answered, pushes |-> seen'.pushes,
                       got |-> seen'.got, spent |-> seen'.spent]
           /\ seen'.built = IF Joins(h) THEN 0
                            ELSE IF Has(h, "CMD") THEN seen.built + 1 ELSE seen.built
           /\ seen'.answered = (~Has(h, "CMD") /\ (seen.answered \/ MicOk(h)))
           /\ seen'.pushes = IF Has(h, "APP") THEN 1
                             ELSE IF avail THEN 2 ELSE seen.pushes
           /\ seen'.got = IF ValidData(h) THEN ~seen.got ELSE seen.got
           /\ seen'.spent = IF Joins(h) THEN nonce ELSE seen.spent
           /\ seen'.aired = seen.aired
<1>1. Observe(h) BY DEF MacUpdate
<1>2. seen = [built |-> seen.built, aired |-> seen.aired, answered |-> seen.answered,
              pushes |-> seen.pushes, got |-> seen.got, spent |-> seen.spent]
  BY DEF SeenTypeOK
<1>3. seen' = [built |-> IF Joins(h) THEN 0
                         ELSE IF Has(h, "CMD") THEN seen.built + 1 ELSE seen.built,
               aired |-> seen.aired,
               answered |-> ~Has(h, "CMD") /\ (seen.answered \/ MicOk(h)),
               pushes |-> IF Has(h, "APP") THEN 1
                          ELSE IF avail THEN 2 ELSE seen.pushes,
               got |-> IF ValidData(h) THEN ~seen.got ELSE seen.got,
               spent |-> IF Joins(h) THEN nonce ELSE seen.spent]
  BY <1>1, <1>2, Zenon DEF Observe
<1> QED BY <1>3

\* The end of an exchange keeps the types.
LEMMA MacUpdateTypes ==
    ASSUME TypeOK, SeenTypeOK, NEW h, Usable(h), MacUpdate(h)
    PROVE  TypeOK' /\ SeenTypeOK'
<1> USE Lr1MacAssumption
<1>1. TypeOK'
  <2>1. /\ mac' \in States /\ rps' \in RadioStates
        /\ task' \in Tasks
        /\ heard' \in {Silence} \cup JoinAccepts \cup Downlinks
        /\ join' \in {"NOT_JOINED", "JOINING", "JOINED"}
    BY DEF TypeOK, MacUpdate, UpdateJoin, States, RadioStates
  <2>2. frame' \in Frames /\ cpt' \in 0 .. MaxTrans /\ nbTrans' \in 1 .. MaxTrans
    BY DEF TypeOK, SeenTypeOK, MacUpdate, UpdateFrame, Frames, Frame, CptDecoded,
           CptLeft, Usable
  <2>3. fcntUp' \in Nat
    BY DEF TypeOK, MacUpdate, CounterGivenUp
  <2>4. fcntDwn' \in {NoCounter} \cup 0 .. MaxDown
    BY HeardSorts DEF TypeOK, MacUpdate, UpdateJoin, FcntDwnDecoded, Usable
  <2>5. /\ nonce' \in 0 .. MaxNonce /\ joinNonce' \in JoinNonces \cup {NoNonce}
        /\ keys' \in 0 .. MaxNonce
        /\ nvm' \in [nonce : 0 .. MaxNonce, jn : JoinNonces \cup {NoNonce}]
    BY HeardSorts DEF TypeOK, MacUpdate, UpdateJoin, Joins, Usable
  <2>6. avail' \in BOOLEAN /\ tooSoon' \in BOOLEAN /\ atTime' \in BOOLEAN
    BY DEF TypeOK, MacUpdate, UpdateJoin, Has, ValidData
  <2> QED BY <2>1, <2>2, <2>3, <2>4, <2>5, <2>6 DEF TypeOK, Frames
<1>2. SeenTypeOK'
  <2> USE DEF SeenTypeOK
  <2>1. avail \in BOOLEAN BY DEF TypeOK
  <2>2. seen'.built \in 0 .. MaxBuilt BY <2>1, MacUpdateObserved DEF Usable
  <2>3. seen'.pushes \in 0 .. 2 BY <2>1, MacUpdateObserved
  <2>4. seen'.spent \in 0 .. MaxNonce BY <2>1, MacUpdateObserved DEF TypeOK
  <2>5. seen'.aired \in Frames BY <2>1, MacUpdateObserved
  <2>6. seen'.answered \in BOOLEAN BY <2>1, MacUpdateObserved, Zenon
  <2>7. seen'.got \in BOOLEAN BY <2>1, MacUpdateObserved
  <2> QED BY <2>1, <2>2, <2>3, <2>4, <2>5, <2>6, <2>7, MacUpdateObserved
<1> QED BY <1>1, <1>2

\* An exchange that ends keeps what the action properties rest on: an answered
\* frame has no repetition left, and the counter moves past the frame that was sent.
LEMMA MacUpdateParts ==
    ASSUME MacInv, NEW h, Usable(h), MacUpdate(h), mac # "IDLE"
    PROVE  /\ HeardInv' /\ AnswerInv' /\ AvailInv' /\ NonceInv' /\ JoinInv' /\ CounterInv'
<1> USE Lr1MacAssumption
<1> DEFINE c == CptDecoded(h)
           repeats == c > 1
           up == (IF Joins(h) THEN 0 ELSE fcntUp) + IF repeats THEN 0 ELSE 1
<1>0. /\ seen \in [built : 0 .. MaxBuilt, aired : Frames, answered : BOOLEAN,
                   pushes : 0 .. 2, got : BOOLEAN, spent : 0 .. MaxNonce]
      /\ seen.aired.n \in Nat /\ seen.aired.keys \in 0 .. MaxNonce
      /\ fcntUp \in Nat /\ cpt \in 0 .. MaxTrans /\ nonce \in 0 .. MaxNonce
      /\ keys \in 0 .. MaxNonce /\ nvm.nonce \in 0 .. MaxNonce
      /\ avail \in BOOLEAN /\ frame \in Frames /\ fcntUp' \in Nat /\ up \in Nat
  BY MacUpdateTypes DEF MacInv, TypeOK, SeenTypeOK, Frames
<1>1. /\ seen'.answered = (~Has(h, "CMD") /\ (seen.answered \/ MicOk(h)))
      /\ seen'.spent = IF Joins(h) THEN nonce ELSE seen.spent
      /\ seen'.aired = seen.aired
  BY <1>0, MacUpdateObserved DEF MacInv
<1>2. /\ mac' \in {"IDLE", "TX_WAIT"} /\ rps' = "IDLE"
      /\ mac' = "TX_WAIT" => (repeats \/ Has(h, "CMD")) /\ fcntUp' = up
      /\ mac' = "IDLE" => fcntUp' >= up /\ (repeats => fcntUp' > up)
  BY <1>0 DEF MacUpdate, CounterGivenUp, CptDecoded
<1>3. HeardInv' /\ AvailInv' BY <1>2 DEF HeardInv, AvailInv, Receiving
<1>8. NonceInv'
  BY <1>0, <1>1 DEF MacInv, NonceInv, MacUpdate, UpdateJoin
<1>4. /\ Joins(h) => NewNonce(h)
      /\ NewNonce(h) => frame.kind = "JOIN"
      /\ keys' = IF NewNonce(h) THEN nonce ELSE keys
      /\ nonce' = nonce
      /\ join' = "JOINED" => NewNonce(h) \/ join = "JOINED"
      /\ join' # "JOINING"
  BY DEF MacUpdate, UpdateJoin, Joins, NewNonce, ValidJoinAccept, Usable
<1>5. CASE Has(h, "CMD")
  <2>1a. MicOk(h) /\ ~NewNonce(h) /\ keys # 0
    BY <1>5 DEF Has, ValidData, MicOk, NewNonce, ValidJoinAccept
  <2>1b. frame' = Frame("NWK", keys, up, seen.built + 1)
    BY <1>5 DEF MacUpdate, UpdateFrame
  <2>1. /\ MicOk(h) /\ ~NewNonce(h) /\ keys # 0
        /\ frame' = Frame("NWK", keys, up, seen.built + 1) /\ ~repeats
        /\ ~seen'.answered
    <3>1. ~repeats BY <2>1a DEF CptDecoded
    <3>2. ~seen'.answered BY <1>1, <1>5
    <3> QED BY <2>1a, <2>1b, <3>1, <3>2
  <2>2. AnswerInv' BY <2>1 DEF AnswerInv
  <2>3. JoinInv' BY <1>0, <1>1, <1>4, <2>1 DEF MacInv, JoinInv, Frame, Older
  <2>4. up > seen.aired.n \/ ~InSession
    BY <1>0, <1>4, <2>1 DEF MacInv, CounterInv, InSession
  <2>5. CounterInv'
    BY <1>0, <1>1, <1>2, <1>4, <2>1, <2>4 DEF MacInv, CounterInv, InSession, Frame
  <2> QED BY <1>3, <1>8, <2>2, <2>3, <2>5
<1>6. CASE ~Has(h, "CMD")
  <2>1. /\ frame' = frame /\ cpt' = IF c > 1 THEN c - 1 ELSE 1
    BY <1>6 DEF MacUpdate, UpdateFrame, CptLeft
  <2>2. mac' = "TX_WAIT" => repeats /\ c = cpt /\ ~MicOk(h)
    BY <1>2, <1>6 DEF CptDecoded
  <2>3. AnswerInv'
    <3>1. CASE MicOk(h)
      <4>1. c = 1 BY <3>1 DEF CptDecoded
      <4> QED BY <1>2, <2>1, <2>2, <3>1, <4>1 DEF AnswerInv
    <3>2. CASE ~MicOk(h) /\ seen.answered
      <4>1. c = 1 BY <3>2 DEF CptDecoded, MacInv, AnswerInv
      <4> QED BY <1>2, <2>1, <2>2, <4>1 DEF AnswerInv
    <3>3. CASE ~MicOk(h) /\ ~seen.answered
      <4>1. ~seen'.answered BY <1>1, <3>3
      <4> QED BY <4>1 DEF AnswerInv
    <3> QED BY <3>1, <3>2, <3>3
  <2>4. frame.kind = "JOIN" => mac' = "IDLE" /\ ~repeats
    BY <1>0, <1>2, <2>2 DEF MacInv, JoinInv, CptDecoded
  <2>5. JoinInv'
    BY <1>0, <1>1, <1>2, <1>4, <2>1, <2>4 DEF MacInv, JoinInv, Older
  <2>6. CASE frame.kind = "JOIN"
    <3>1. InSession' => ~NewNonce(h)
      BY <1>0, <1>1, <1>4, <2>6 DEF MacInv, JoinInv, Older, InSession
    <3>2. CounterInv'
      BY <1>0, <1>1, <1>2, <1>4, <2>1, <2>4, <2>6, <3>1
      DEF MacInv, CounterInv, InSession
    <3> QED BY <1>3, <1>8, <2>3, <2>5, <3>2
  <2>7. CASE frame.kind # "JOIN"
    <3>1. ~NewNonce(h) /\ ~Joins(h) /\ keys' = keys BY <1>4, <2>7
    <3>2. /\ frame.keys = keys /\ keys # 0 /\ frame.n = fcntUp
          /\ InSession => fcntUp >= seen.aired.n
          /\ InSession /\ frame # seen.aired => frame.n > seen.aired.n
      BY <1>0, <2>7 DEF MacInv, CounterInv
    <3>3. up = IF repeats THEN fcntUp ELSE fcntUp + 1 BY <1>0, <3>1
    <3>4. mac' = "IDLE" => (InSession => fcntUp' > seen.aired.n)
      BY <1>0, <1>2, <3>2, <3>3
    <3>5. mac' = "TX_WAIT" => fcntUp' = fcntUp BY <1>2, <2>2, <3>3
    <3>6. InSession' <=> InSession BY <1>1, <3>1 DEF InSession
    <3>7. CounterInv'
      BY <1>1, <1>2, <2>1, <2>7, <3>1, <3>2, <3>4, <3>5, <3>6 DEF MacInv, CounterInv
    <3> QED BY <1>3, <1>8, <2>3, <2>5, <3>7
  <2> QED BY <2>6, <2>7
<1> QED BY <1>5, <1>6

\* The parts of the invariant that are not types.
MacParts == HeardInv /\ AnswerInv /\ AvailInv /\ NonceInv /\ JoinInv /\ CounterInv

\* In a window the MAC finds what its update may be given.
LEMMA HeardUsable == MacInv /\ Receiving => Usable(heard)
BY DEF MacInv, TypeOK, HeardInv, Usable, Heards, Has, ValidData, MicOk

\* Each action keeps the invariant.
LEMMA NextMacInv == MacInv /\ [Next]_vars => MacInv'
<1> SUFFICES ASSUME MacInv, [Next]_vars PROVE TypeOK' /\ SeenTypeOK' /\ MacParts'
  BY NextExchange DEF MacInv, MacParts
<1> USE Lr1MacAssumption
<1>0. Receiving => Usable(heard) BY HeardUsable
<1>1. CASE Join
  <2>1. TypeOK'
    BY <1>1 DEF MacInv, TypeOK, States, Join, NextNonce, Frame
  <2>2. SeenTypeOK'
    BY <1>1 DEF MacInv, SeenTypeOK, Join
  <2>3. HeardInv' /\ AvailInv'
    BY <1>1 DEF MacInv, HeardInv, AvailInv, Receiving, SeenTypeOK, Join
  <2>4. AnswerInv' /\ NonceInv'
    BY <1>1 DEF MacInv, TypeOK, SeenTypeOK, AnswerInv, NonceInv, Join, NextNonce
  <2>5. JoinInv'
    BY <1>1
       DEF MacInv, TypeOK, SeenTypeOK, Frames, JoinInv, Older, Join, NextNonce, Frame
  <2>6. CounterInv'
    BY <1>1 DEF MacInv, TypeOK, SeenTypeOK, Frames, CounterInv, InSession, Join, Frame
  <2> QED BY <2>1, <2>2, <2>3, <2>4, <2>5, <2>6 DEF MacParts
<1>2. CASE Send
  <2>1. TypeOK'
    <3>1. frame' \in [kind : {"NONE", "JOIN", "APP", "NWK"}, keys : 0 .. MaxNonce,
                      n : Nat, id : 0 .. MaxBuilt]
      BY <1>2 DEF MacInv, TypeOK, SeenTypeOK, Send, Frame
    <3>2. mac' \in States /\ cpt' \in 0 .. MaxTrans
      BY <1>2 DEF MacInv, TypeOK, States, Send
    <3>3. atTime' \in BOOLEAN
      BY <1>2, Zenon DEF MacInv, TypeOK, Send
    <3> QED BY <1>2, <3>1, <3>2, <3>3, Zenon DEF MacInv, TypeOK, Send
  <2>2. SeenTypeOK'
    <3>1. seen.built + 1 \in 0 .. MaxBuilt BY <1>2 DEF MacInv, SeenTypeOK, Send
    <3> QED BY <1>2, <3>1 DEF MacInv, SeenTypeOK, Send
  <2>3. HeardInv' /\ AvailInv'
    BY <1>2 DEF MacInv, HeardInv, AvailInv, Receiving, SeenTypeOK, Send
  <2>4. AnswerInv' /\ NonceInv'
    BY <1>2 DEF MacInv, TypeOK, SeenTypeOK, AnswerInv, NonceInv, Send
  <2>5. JoinInv'
    BY <1>2 DEF MacInv, JoinInv, Older, SeenTypeOK, Send, Frame
  <2>6. CounterInv'
    BY <1>2
       DEF MacInv, TypeOK, SeenTypeOK, Frames, CounterInv, InSession, JoinInv, Send,
           Frame
  <2> QED BY <2>1, <2>2, <2>3, <2>4, <2>5, <2>6 DEF MacParts
<1>3. CASE DrStrategySet
  <2>1. TypeOK'
    BY <1>3 DEF MacInv, TypeOK, DrStrategySet
  <2>2. SeenTypeOK'
    BY <1>3 DEF MacInv, SeenTypeOK, DrStrategySet
  <2>3. HeardInv' /\ AvailInv'
    BY <1>3 DEF MacInv, HeardInv, AvailInv, Receiving, DrStrategySet
  <2>4. AnswerInv' /\ NonceInv'
    BY <1>3 DEF MacInv, AnswerInv, NonceInv, DrStrategySet
  <2>5. JoinInv'
    BY <1>3 DEF MacInv, JoinInv, Older, DrStrategySet
  <2>6. CounterInv'
    BY <1>3 DEF MacInv, CounterInv, InSession, DrStrategySet
  <2> QED BY <2>1, <2>2, <2>3, <2>4, <2>5, <2>6 DEF MacParts
<1>4. CASE JoinStatusClear
  <2>1. TypeOK'
    <3>1. /\ join' \in {"NOT_JOINED", "JOINING", "JOINED"} /\ cpt' \in 0 .. MaxTrans
          /\ task' \in Tasks
      BY <1>4 DEF JoinStatusClear, MacInv, TypeOK, Tasks
    <3> QED BY <1>4, <3>1, Zenon DEF MacInv, TypeOK, JoinStatusClear
  <2>2. SeenTypeOK'
    BY <1>4 DEF MacInv, SeenTypeOK, JoinStatusClear
  <2>3. HeardInv' /\ AvailInv'
    BY <1>4 DEF MacInv, HeardInv, AvailInv, Receiving, JoinStatusClear
  <2>4. AnswerInv' /\ NonceInv'
    BY <1>4 DEF MacInv, AnswerInv, NonceInv, JoinStatusClear
  <2>5. JoinInv'
    BY <1>4 DEF MacInv, JoinInv, Older, JoinStatusClear
  <2>6. CounterInv'
    BY <1>4 DEF MacInv, CounterInv, InSession, JoinStatusClear
  <2> QED BY <2>1, <2>2, <2>3, <2>4, <2>5, <2>6 DEF MacParts
<1>5. CASE ProcessTooSoon
  <2>1. TypeOK'
    BY <1>5 DEF MacInv, TypeOK, States, ProcessTooSoon
  <2>2. SeenTypeOK'
    BY <1>5 DEF MacInv, SeenTypeOK, ProcessTooSoon
  <2>3. HeardInv' /\ AvailInv'
    BY <1>5 DEF MacInv, HeardInv, AvailInv, Receiving, ProcessTooSoon
  <2>4. AnswerInv' /\ NonceInv'
    BY <1>5 DEF MacInv, AnswerInv, NonceInv, ProcessTooSoon
  <2>5. JoinInv'
    BY <1>5 DEF MacInv, JoinInv, Older, ProcessTooSoon
  <2>6. CounterInv'
    BY <1>5 DEF MacInv, CounterInv, InSession, JoinInv, HeldBack, ProcessTooSoon
  <2> QED BY <2>1, <2>2, <2>3, <2>4, <2>5, <2>6 DEF MacParts
<1>6. CASE ProcessSend
  <2>1. TypeOK'
    <3>1. rps' \in RadioStates /\ task' \in Tasks
      BY <1>6 DEF MacInv, TypeOK, RadioStates, Tasks, ProcessSend
    <3> QED BY <1>6, <3>1, ZenonT(40) DEF MacInv, TypeOK, ProcessSend
  <2>2. SeenTypeOK'
    BY <1>6 DEF MacInv, TypeOK, SeenTypeOK, Frames, ProcessSend
  <2>3. HeardInv' /\ AvailInv'
    BY <1>6 DEF MacInv, HeardInv, AvailInv, Receiving, SeenTypeOK, ProcessSend
  <2>4. AnswerInv' /\ NonceInv'
    BY <1>6 DEF MacInv, TypeOK, SeenTypeOK, AnswerInv, NonceInv, ProcessSend
  <2>5. JoinInv'
    BY <1>6
       DEF MacInv, TypeOK, SeenTypeOK, Frames, JoinInv, CounterInv, Older, ProcessSend
  <2>6. CounterInv'
    BY <1>6 DEF MacInv, TypeOK, SeenTypeOK, Frames, CounterInv, InSession, ProcessSend
  <2> QED BY <2>1, <2>2, <2>3, <2>4, <2>5, <2>6 DEF MacParts
<1>7. CASE ProcessTxFinished
  <2>1. TypeOK'
    BY <1>7
       DEF MacInv, TypeOK, States, RadioStates, Tasks, ProcessTxFinished, OpenWindow,
           StoredAfterTx
  <2>2. SeenTypeOK'
    BY <1>7 DEF MacInv, TypeOK, SeenTypeOK, ProcessTxFinished
  <2>3. HeardInv' /\ AvailInv'
    BY <1>7
       DEF MacInv, SeenTypeOK, HeardInv, AvailInv, Receiving, Silence,
           ProcessTxFinished, OpenWindow
  <2>4. AnswerInv' /\ NonceInv'
    BY <1>7
       DEF MacInv, TypeOK, SeenTypeOK, AnswerInv, NonceInv, ProcessTxFinished,
           StoredAfterTx
  <2>5. JoinInv'
    BY <1>7 DEF MacInv, SeenTypeOK, JoinInv, Older, ProcessTxFinished
  <2>6. CounterInv'
    BY <1>7 DEF MacInv, SeenTypeOK, CounterInv, InSession, ProcessTxFinished
  <2> QED BY <2>1, <2>2, <2>3, <2>4, <2>5, <2>6 DEF MacParts
<1>8. CASE ProcessTxWait
  <2>1. TypeOK'
    BY <1>8 DEF MacInv, TypeOK, States, ProcessTxWait
  <2>2. SeenTypeOK'
    BY <1>8 DEF MacInv, SeenTypeOK, ProcessTxWait
  <2>3. HeardInv' /\ AvailInv'
    BY <1>8 DEF MacInv, HeardInv, AvailInv, Receiving, ProcessTxWait
  <2>4. AnswerInv' /\ NonceInv'
    BY <1>8 DEF MacInv, AnswerInv, NonceInv, ProcessTxWait
  <2>5. JoinInv'
    BY <1>8 DEF MacInv, JoinInv, Older, ProcessTxWait
  <2>6. CounterInv'
    BY <1>8 DEF MacInv, CounterInv, InSession, ProcessTxWait
  <2> QED BY <2>1, <2>2, <2>3, <2>4, <2>5, <2>6 DEF MacParts
<1>9. CASE ReportTx
  <2>1. TypeOK'
    BY <1>9 DEF MacInv, TypeOK, RadioStates, Tasks, ReportTx, AvailAfterTx
  <2>2. SeenTypeOK'
    BY <1>9 DEF MacInv, SeenTypeOK, ReportTx
  <2>3. HeardInv' /\ AvailInv'
    BY <1>9 DEF MacInv, HeardInv, AvailInv, Receiving, ReportTx, AvailAfterTx, Silence
  <2>4. AnswerInv' /\ NonceInv'
    BY <1>9 DEF MacInv, AnswerInv, NonceInv, ReportTx
  <2>5. JoinInv'
    BY <1>9 DEF MacInv, JoinInv, Older, ReportTx
  <2>6. CounterInv'
    BY <1>9 DEF MacInv, CounterInv, InSession, ReportTx
  <2> QED BY <2>1, <2>2, <2>3, <2>4, <2>5, <2>6 DEF MacParts
<1>10. CASE ReportRx
  <2>1. TypeOK'
    <3>1. heard' \in Heards BY <1>10 DEF ReportRx, Heard, Heards
    <3>2. rps' \in RadioStates /\ task' \in Tasks
      BY <1>10 DEF RadioStates, Tasks, ReportRx
    <3> QED BY <1>10, <3>1, <3>2 DEF MacInv, TypeOK, Heards, ReportRx
  <2>2. SeenTypeOK'
    BY <1>10 DEF MacInv, SeenTypeOK, ReportRx
  <2>3. HeardInv' /\ AvailInv'
    BY <1>10
       DEF MacInv, HeardInv, AvailInv, Receiving, ExchangeInv, InterruptExpected,
           ReportRx
  <2>4. AnswerInv' /\ NonceInv'
    BY <1>10 DEF MacInv, AnswerInv, NonceInv, ReportRx
  <2>5. JoinInv'
    BY <1>10 DEF MacInv, JoinInv, Older, ReportRx
  <2>6. CounterInv'
    BY <1>10 DEF MacInv, CounterInv, InSession, ReportRx
  <2> QED BY <2>1, <2>2, <2>3, <2>4, <2>5, <2>6 DEF MacParts
<1>11. CASE ReportAborted
  <2>1. TypeOK'
    BY <1>11, ZenonT(40) DEF MacInv, TypeOK, RadioStates, Tasks, ReportAborted, AvailAfterTx
  <2>2. SeenTypeOK'
    BY <1>11 DEF MacInv, SeenTypeOK, ReportAborted
  <2>3. HeardInv' /\ AvailInv'
    BY <1>11
       DEF MacInv, HeardInv, AvailInv, Receiving, ReportAborted, AvailAfterTx, Silence
  <2>4. AnswerInv' /\ NonceInv'
    BY <1>11 DEF MacInv, AnswerInv, NonceInv, ReportAborted
  <2>5. JoinInv'
    BY <1>11 DEF MacInv, JoinInv, Older, ReportAborted
  <2>6. CounterInv'
    BY <1>11 DEF MacInv, CounterInv, InSession, ReportAborted
  <2> QED BY <2>1, <2>2, <2>3, <2>4, <2>5, <2>6 DEF MacParts
<1>12. CASE TimeToJoin
  <2>1. TypeOK'
    <3>1. tooSoon' \in BOOLEAN BY <1>12 DEF TimeToJoin
    <3>2. /\ mac' \in States /\ rps' \in RadioStates
          /\ heard' \in {Silence} \cup JoinAccepts \cup Downlinks
          /\ frame' \in [kind : {"NONE", "JOIN", "APP", "NWK"}, keys : 0 .. MaxNonce,
                         n : Nat, id : 0 .. MaxBuilt]
      BY <1>12 DEF MacInv, TypeOK, TimeToJoin
    <3>3. /\ cpt' \in 0 .. MaxTrans /\ nbTrans' \in 1 .. MaxTrans
          /\ keys' \in 0 .. MaxNonce /\ fcntUp' \in Nat
          /\ fcntDwn' \in {NoCounter} \cup 0 .. MaxDown
      BY <1>12 DEF MacInv, TypeOK, TimeToJoin
    <3>4. /\ nonce' \in 0 .. MaxNonce /\ joinNonce' \in JoinNonces \cup {NoNonce}
          /\ nvm' = nvm
      BY <1>12 DEF MacInv, TypeOK, TimeToJoin
    <3>5. /\ join' \in {"NOT_JOINED", "JOINING", "JOINED"}
          /\ task' \in Tasks
          /\ avail' \in BOOLEAN /\ atTime' \in BOOLEAN
      BY <1>12 DEF MacInv, TypeOK, TimeToJoin
    <3> QED BY <3>1, <3>2, <3>3, <3>4, <3>5, Zenon DEF MacInv, TypeOK
  <2>2. SeenTypeOK'
    BY <1>12 DEF MacInv, SeenTypeOK, TimeToJoin
  <2>3. HeardInv' /\ AvailInv'
    BY <1>12 DEF MacInv, HeardInv, AvailInv, Receiving, TimeToJoin
  <2>4. AnswerInv' /\ NonceInv'
    BY <1>12 DEF MacInv, AnswerInv, NonceInv, TimeToJoin
  <2>5. JoinInv'
    BY <1>12 DEF MacInv, JoinInv, Older, TimeToJoin
  <2>6. CounterInv'
    BY <1>12 DEF MacInv, CounterInv, InSession, TimeToJoin
  <2> QED BY <2>1, <2>2, <2>3, <2>4, <2>5, <2>6 DEF MacParts
<1>13. CASE Boot
  <2>1. TypeOK'
    <3>1. /\ mac' \in States /\ rps' \in RadioStates
          /\ fcntDwn' \in {NoCounter} \cup 0 .. MaxDown
          /\ heard' \in {Silence} \cup JoinAccepts \cup Downlinks
          /\ frame' \in [kind : {"NONE", "JOIN", "APP", "NWK"}, keys : 0 .. MaxNonce,
                         n : Nat, id : 0 .. MaxBuilt]
      BY <1>13 DEF States, RadioStates, Boot, NoFrame
    <3>2. /\ cpt' \in 0 .. MaxTrans /\ nbTrans' \in 1 .. MaxTrans
          /\ keys' \in 0 .. MaxNonce /\ fcntUp' \in Nat
      BY <1>13 DEF Boot, Tasks
    <3>3. /\ nonce' \in 0 .. MaxNonce /\ joinNonce' \in JoinNonces \cup {NoNonce}
          /\ nvm' = nvm
      BY <1>13 DEF Boot, MacInv, TypeOK
    <3>4. /\ join' \in {"NOT_JOINED", "JOINING", "JOINED"}
          /\ task' \in Tasks
          /\ avail' \in BOOLEAN /\ tooSoon' \in BOOLEAN /\ atTime' \in BOOLEAN
      BY <1>13 DEF Boot, Tasks
    <3> QED BY <3>1, <3>2, <3>3, <3>4, Zenon DEF MacInv, TypeOK
  <2>2. SeenTypeOK'
    <3>1. NoFrame \in Frames BY DEF Frames, NoFrame
    <3>2. seen' = [built |-> 0, aired |-> NoFrame, answered |-> FALSE, pushes |-> 0,
                   got |-> seen.got, spent |-> seen.spent]
      BY <1>13, Zenon DEF MacInv, SeenTypeOK, Boot
    <3> QED BY <3>1, <3>2 DEF MacInv, SeenTypeOK
  <2>3. HeardInv' /\ AvailInv'
    BY <1>13 DEF MacInv, HeardInv, AvailInv, Receiving, Boot, NoFrame
  <2>4. AnswerInv' /\ NonceInv'
    BY <1>13 DEF MacInv, TypeOK, SeenTypeOK, AnswerInv, NonceInv, Boot
  <2>5. JoinInv'
    BY <1>13 DEF MacInv, TypeOK, SeenTypeOK, JoinInv, Boot, NoFrame
  <2>6. CounterInv'
    BY <1>13 DEF MacInv, CounterInv, InSession, Boot, NoFrame
  <2> QED BY <2>1, <2>2, <2>3, <2>4, <2>5, <2>6 DEF MacParts
<1>14. CASE ProcessAborted
  <2>1. Usable(Silence) /\ mac # "IDLE"
    BY <1>14, HeardSorts
       DEF MacInv, ExchangeInv, ProcessAborted, Usable, Heards, Silence
  <2> QED BY <1>14, <2>1, MacUpdateTypes, MacUpdateParts
        DEF MacInv, MacParts, ProcessAborted
<1>15. CASE ProcessRx2
  BY <1>0, <1>15, MacUpdateTypes, MacUpdateParts
     DEF MacInv, MacParts, ProcessRx2, Receiving
<1>16. CASE ProcessRx1
  <2>1. CASE MacUpdate(heard)
    BY <1>0, <1>16, <2>1, MacUpdateTypes, MacUpdateParts
       DEF MacInv, MacParts, ProcessRx1, Receiving
  <2>2. CASE ~MacUpdate(heard)
    <3>1. /\ mac = "RX1" /\ mac' = "RX2" /\ OpenWindow
          /\ ~ValidData(heard) /\ ~ValidJoinAccept(heard)
          /\ cpt' = CptDecoded(heard)
          /\ fcntDwn' = FcntDwnDecoded(heard)
          /\ seen' = [seen EXCEPT !.answered = @ \/ MicOk(heard)]
          /\ UNCHANGED <<join, heard, frame, nbTrans, fcntUp, avail, nonce, joinNonce,
                         keys, tooSoon, atTime, nvm>>
      BY <1>16, <2>2 DEF ProcessRx1
    <3>2. TypeOK'
      <4>1. mac' \in States /\ cpt' \in 0 .. MaxTrans
        BY <3>1 DEF MacInv, TypeOK, States, CptDecoded
      <4>2. rps' \in RadioStates /\ task' \in Tasks
        BY <3>1 DEF MacInv, TypeOK, RadioStates, Tasks, OpenWindow
      <4>3. fcntDwn' \in {NoCounter} \cup 0 .. MaxDown
        BY <3>1 DEF MacInv, TypeOK, FcntDwnDecoded
      <4> QED BY <3>1, <4>1, <4>2, <4>3, ZenonT(40) DEF MacInv, TypeOK
    <3>3. SeenTypeOK'
      <4>1. MicOk(heard) \in BOOLEAN BY DEF MicOk
      <4> QED BY <3>1, <4>1 DEF MacInv, SeenTypeOK
    <3>4. HeardInv' /\ AvailInv'
      BY <3>1 DEF MacInv, SeenTypeOK, HeardInv, AvailInv, Receiving, OpenWindow
    <3>5. AnswerInv' /\ NonceInv'
      <4>1. seen'.answered = (seen.answered \/ MicOk(heard)) /\ seen'.spent = seen.spent
        BY <3>1 DEF MacInv, SeenTypeOK
      <4>2. CptDecoded(heard) = IF MicOk(heard) THEN 1 ELSE cpt BY DEF CptDecoded
      <4> QED BY <3>1, <4>1, <4>2, Zenon DEF MacInv, AnswerInv, NonceInv
    <3>6. JoinInv'
      BY <3>1 DEF MacInv, SeenTypeOK, JoinInv, Older, CptDecoded
    <3>7. CounterInv'
      BY <3>1 DEF MacInv, SeenTypeOK, CounterInv, InSession
    <3> QED BY <3>2, <3>3, <3>4, <3>5, <3>6, <3>7 DEF MacParts
  <2> QED BY <2>1, <2>2
<1>17. CASE UNCHANGED vars
  <2>1. TypeOK' /\ SeenTypeOK'
    <3>1. UNCHANGED <<mac, rps, join, task, heard, frame, cpt, nbTrans, fcntUp, fcntDwn,
                      avail, nonce, joinNonce, keys, tooSoon, atTime, nvm, seen>>
      BY <1>17 DEF vars, ram
    <3>2. TypeOK' BY <3>1, SMT DEF MacInv, TypeOK
    <3>3. SeenTypeOK' BY <3>1, Zenon DEF MacInv, SeenTypeOK
    <3> QED BY <3>2, <3>3
  <2>2. HeardInv' /\ AnswerInv' /\ AvailInv' /\ NonceInv'
    BY <1>17 DEF MacInv, vars, ram, HeardInv, Receiving, AnswerInv, AvailInv, NonceInv
  <2>3. JoinInv' /\ CounterInv'
    BY <1>17 DEF MacInv, vars, ram, JoinInv, Older, CounterInv, InSession
  <2> QED BY <2>1, <2>2, <2>3 DEF MacParts
<1>18. CASE WriteRxOn
  <2>1. TypeOK'
    <3>1. rps' \in RadioStates /\ task' \in Tasks BY <1>18 DEF WriteRxOn, RadioStates, Tasks
    <3> QED BY <1>18, <3>1, ZenonT(40) DEF MacInv, TypeOK, WriteRxOn
  <2>2. SeenTypeOK' BY <1>18 DEF MacInv, SeenTypeOK, WriteRxOn
  <2>3. HeardInv' /\ AvailInv'
    BY <1>18 DEF MacInv, HeardInv, AvailInv, Receiving, WriteRxOn
  <2>4. AnswerInv' /\ NonceInv' BY <1>18 DEF MacInv, AnswerInv, NonceInv, WriteRxOn
  <2>5. JoinInv' BY <1>18 DEF MacInv, JoinInv, Older, WriteRxOn
  <2>6. CounterInv' BY <1>18 DEF MacInv, CounterInv, InSession, WriteRxOn
  <2> QED BY <2>1, <2>2, <2>3, <2>4, <2>5, <2>6 DEF MacParts
<1>19. CASE EarlyAbort
  <2>1. TypeOK'
    <3>1. rps' \in RadioStates /\ task' \in Tasks
      BY <1>19 DEF EarlyAbort, RadioStates, Tasks
    <3>2. heard' \in {Silence} \cup JoinAccepts \cup Downlinks BY <1>19 DEF EarlyAbort
    <3> QED BY <1>19, <3>1, <3>2, ZenonT(40) DEF MacInv, TypeOK, EarlyAbort
  <2>2. SeenTypeOK' BY <1>19 DEF MacInv, SeenTypeOK, EarlyAbort
  <2>3. HeardInv' /\ AvailInv'
    BY <1>19 DEF MacInv, HeardInv, AvailInv, Receiving, EarlyAbort, Silence
  <2>4. AnswerInv' /\ NonceInv' BY <1>19 DEF MacInv, AnswerInv, NonceInv, EarlyAbort
  <2>5. JoinInv' BY <1>19 DEF MacInv, JoinInv, Older, EarlyAbort
  <2>6. CounterInv' BY <1>19 DEF MacInv, CounterInv, InSession, EarlyAbort
  <2> QED BY <2>1, <2>2, <2>3, <2>4, <2>5, <2>6 DEF MacParts
<1> QED
  BY <1>1, <1>2, <1>3, <1>4, <1>5, <1>6, <1>7, <1>8, <1>9, <1>10, <1>11, <1>12,
     <1>13, <1>14, <1>15, <1>16, <1>17, <1>18, <1>19
     DEF Next, Process, Reset, Failsafe, EarlyEnd

\* The invariant holds through joins, sessions, aborts and resets.
THEOREM MacInvariant == Spec => []MacInv
BY InitMacInv, NextMacInv, PTL DEF Spec

\* Every variable keeps its type.
THEOREM MacTypeOK == Spec => []TypeOK
<1>1. MacInv => TypeOK BY DEF MacInv
<1> QED BY <1>1, MacInvariant, PTL

-----------------------------------------------------------------------------
(* The action properties.                                                    *)

\* An exchange ends with what was heard.
Ending(h) == Usable(h) /\ MacUpdate(h) /\ mac # "IDLE"

\* Which step can do what the action properties are about.
LEMMA WhichStep ==
    ASSUME MacInv, [Next]_vars
    PROVE  /\ task = "NONE" /\ task' = "TX" => ProcessSend
           /\ mac = "IDLE" /\ mac' = "SEND" => Join \/ Send
           /\ seen'.aired # seen.aired => ProcessSend \/ Boot
           /\ seen'.got # seen.got \/ seen'.pushes # seen.pushes =>
                 \/ Boot
                 \/ ProcessAborted /\ Ending(Silence)
                 \/ rps = "RX_FINISHED" /\ Receiving /\ Ending(heard)
<1>1. seen \in [built : 0 .. MaxBuilt, aired : Frames, answered : BOOLEAN,
                pushes : 0 .. 2, got : BOOLEAN, spent : 0 .. MaxNonce]
  BY DEF MacInv, SeenTypeOK
<1>2. CASE Join \/ Send
  BY <1>1, <1>2 DEF Join, Send
<1>3. CASE DrStrategySet \/ JoinStatusClear \/ TimeToJoin \/ UNCHANGED vars
  BY <1>3 DEF DrStrategySet, JoinStatusClear, TimeToJoin, vars, ram
<1>4. CASE ReportTx \/ ReportRx \/ ReportAborted \/ WriteRxOn \/ EarlyAbort
  BY <1>4 DEF ReportTx, ReportRx, ReportAborted, WriteRxOn, EarlyAbort
<1>5. CASE ProcessTooSoon \/ ProcessSend \/ ProcessTxFinished \/ ProcessTxWait
  BY <1>1, <1>5
     DEF ProcessTooSoon, ProcessSend, ProcessTxFinished, ProcessTxWait, OpenWindow
<1>6. CASE ProcessAborted
  <2>1. Ending(Silence)
    BY <1>6, HeardSorts
       DEF MacInv, ExchangeInv, ProcessAborted, Usable, Heards, Silence, Ending
  <2>2. task' = task /\ mac # "IDLE" /\ seen'.aired = seen.aired
    BY <1>1, <1>6, <2>1, MacUpdateObserved DEF MacInv, TypeOK, Ending, MacUpdate
  <2> QED BY <1>6, <2>1, <2>2
<1>7. CASE (ProcessRx1 \/ ProcessRx2) /\ MacUpdate(heard)
  <2>1. Receiving /\ rps = "RX_FINISHED" BY <1>7 DEF ProcessRx1, ProcessRx2, Receiving
  <2>2. Ending(heard)
    BY <1>7, <2>1, HeardUsable DEF Ending, Receiving
  <2>3. task' = task /\ mac # "IDLE" /\ seen'.aired = seen.aired
    BY <1>1, <1>7, <2>2, MacUpdateObserved DEF MacInv, TypeOK, Ending, MacUpdate
  <2> QED BY <2>1, <2>2, <2>3
<1>8. CASE ProcessRx1 /\ ~MacUpdate(heard)
  BY <1>1, <1>8 DEF ProcessRx1, OpenWindow
<1>9. CASE Boot BY <1>9 DEF Boot
<1> QED
  BY <1>2, <1>3, <1>4, <1>5, <1>6, <1>7, <1>8, <1>9
     DEF Next, Process, Reset, Failsafe, EarlyEnd, ProcessRx2

\* A frame that a downlink answered is not given to the radio again: its count of
\* repetitions is used up and it is not waiting to be sent.
THEOREM MacAnsweredNotRepeated == Spec => AnsweredNotRepeated
<1>1. MacInv /\ [Next]_vars => [task = "NONE" /\ task' = "TX" => ~seen.answered]_vars
  BY WhichStep DEF MacInv, AnswerInv, ProcessSend
<1> QED BY <1>1, MacInvariant, PTL DEF Spec, AnsweredNotRepeated

\* available_app_packet is raised a second time for a downlink only when the
\* planner refused or aborted the exchange.
THEOREM MacHandedUpOnce == Spec => HandedUpOnce
<1>1. ASSUME MacInv, [Next]_vars, seen.pushes = 1, seen'.pushes = 2, rps # "ABORTED_BY_RP"
      PROVE  FALSE
  <2>1. ~Boot
    <3>1. Boot => seen'.pushes = 0 BY <1>1 DEF Boot, MacInv, SeenTypeOK
    <3> QED BY <1>1, <3>1
  <2>2. Receiving /\ Ending(heard) BY <1>1, <2>1, WhichStep DEF ProcessAborted
  <2>3. ~avail BY <2>2, <1>1 DEF MacInv, AvailInv
  <2> QED BY <1>1, <2>2, <2>3, MacUpdateObserved DEF MacInv, TypeOK, Ending
<1>2. MacInv /\ [Next]_vars =>
         [seen.pushes = 1 /\ seen'.pushes = 2 => rps = "ABORTED_BY_RP"]_vars
  BY <1>1
<1> QED BY <1>2, MacInvariant, PTL DEF Spec, HandedUpOnce

\* The 16 bits of a counter on the air.
LEMMA RemainderBelow == ASSUME NEW n \in Nat PROVE n % Wrap \in 0 .. Wrap - 1
BY Lr1MacAssumption

\* lr1mac_fcnt_dwn_accept only guesses counters above the last one.
LEMMA AcceptedIsNewer ==
    ASSUME TypeOK, NEW h \in Heards, ValidData(h)
    PROVE  h.fcnt > fcntDwn
<1> USE Lr1MacAssumption
<1>1. h.fcnt \in 0 .. MaxDown /\ FcntAccept(h.fcnt % Wrap) = h.fcnt
  BY HeardSorts DEF MicOk
<1>2. CASE fcntDwn = NoCounter BY <1>1, <1>2 DEF NoCounter
<1>3. CASE fcntDwn # NoCounter
  <2>1. fcntDwn \in Nat BY <1>3 DEF TypeOK
  <2>2. Lsb \in 0 .. Wrap - 1 /\ h.fcnt % Wrap \in 0 .. Wrap - 1
    BY <1>1, <2>1, RemainderBelow DEF Lsb
  <2> QED BY <1>1, <1>3, <2>1, <2>2 DEF FcntAccept, Msb, NoCounter
<1> QED BY <1>2, <1>3

\* A downlink accepted in a session has a counter above all those accepted
\* before, also across the roll-over of the 16 bits on the air.
THEOREM MacDownlinkNewer == Spec => DownlinkNewer
<1>1. ASSUME MacInv, [Next]_vars, seen'.got # seen.got, join = "JOINED"
      PROVE  fcntDwn' > fcntDwn
  <2>1. ~Boot BY <1>1 DEF Boot, MacInv, SeenTypeOK
  <2>2. PICK h : Ending(h) BY <1>1, <2>1, WhichStep
  <2>3. ValidData(h) BY <1>1, <2>2, MacUpdateObserved DEF MacInv, TypeOK, Ending
  <2>4. h \in Heards BY <2>2 DEF Ending, Usable
  <2>5. fcntDwn' = h.fcnt
    BY <2>2, <2>3 DEF Ending, MacUpdate, UpdateJoin, FcntDwnDecoded, Joins, NewNonce,
                      ValidJoinAccept, ValidData, MicOk
  <2> QED BY <1>1, <2>3, <2>4, <2>5, AcceptedIsNewer DEF MacInv
<1>2. MacInv /\ [Next]_vars =>
         [seen'.got # seen.got /\ join = "JOINED" => fcntDwn' > fcntDwn]_vars
  BY <1>1
<1> QED BY <1>2, MacInvariant, PTL DEF Spec, DownlinkNewer

\* A join request never has a DevNonce that the network may have answered,
\* through any resets, until the nonce saturates.
THEOREM MacNonceUsedOnce == Spec => NonceUsedOnce
<1>1. ASSUME MacInv, [Next]_vars, mac = "IDLE", mac' = "SEND", join' = "JOINING"
      PROVE  nonce' > seen.spent \/ nonce' = MaxNonce
  <2>1. Join BY <1>1, WhichStep DEF Send
  <2>2. nonce' = NextNonce BY <1>1, <2>1 DEF Join
  <2> QED BY <1>1, <2>2, Lr1MacAssumption
          DEF NextNonce, MacInv, NonceInv, TypeOK, SeenTypeOK
<1>2. MacInv /\ [Next]_vars =>
         [mac = "IDLE" /\ mac' = "SEND" /\ join' = "JOINING" =>
              nonce' > seen.spent \/ nonce' = MaxNonce]_vars
  BY <1>1
<1> QED BY <1>2, MacInvariant, PTL DEF Spec, NonceUsedOnce

\* Under one set of keys no two different frames go on the air with the same
\* counter, through repetitions, refusals, aborts, answers and new sessions.
THEOREM MacCounterNamesOneFrame == Spec => CounterNamesOneFrame
<1> DEFINE Newer(old, new) ==
        new # old /\ new.keys = old.keys /\ new.keys < MaxNonce => new.n > old.n
<1>1. ASSUME MacInv, [Next]_vars
      PROVE  Newer(seen.aired, seen'.aired)
  <2>1. CASE seen'.aired = seen.aired BY <2>1
  <2>2. CASE Boot BY <1>1, <2>2 DEF MacInv, SeenTypeOK, CounterInv, Boot, NoFrame
  <2>3. CASE ProcessSend /\ seen'.aired # seen.aired
    <3>1. seen'.aired = frame /\ frame.kind # "JOIN" /\ mac # "IDLE"
      BY <1>1, <2>3 DEF ProcessSend, MacInv, SeenTypeOK
    <3> QED BY <1>1, <3>1 DEF MacInv, CounterInv, InSession
  <2> QED BY <1>1, <2>1, <2>2, <2>3, WhichStep
<1>2. MacInv /\ [Next]_vars =>
         [LET old == seen.aired
              new == seen'.aired
          IN  new # old /\ new.keys = old.keys /\ new.keys < MaxNonce => new.n > old.n]_vars
  BY <1>1
<1> QED BY <1>2, MacInvariant, PTL DEF Spec, CounterNamesOneFrame

=============================================================================

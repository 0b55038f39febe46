------------------------------- MODULE Lr1Mac -------------------------------
(***************************************************************************)
(* The class A MAC of LoRa Basics Modem (lr1mac_core.c and                   *)
(* lr1_stack_mac_layer.c): joining, transmissions and their repetitions, the *)
(* two reception windows, the MAC's answers, and what survives a reset.      *)
(*                                                                         *)
(* Three actors take turns: the main thread calls lr1mac_core_process and    *)
(* the functions behind the modem's commands; the radio planner reports the  *)
(* end of the MAC's task, possibly from the work queue; the network sends    *)
(* what the windows receive.  The planner is seen through its promises (see  *)
(* RadioPlanner): each task is reported once, as done or as aborted.         *)
(***************************************************************************)
EXTENDS Integers

CONSTANTS
    MaxNonce,     \* 0xFFFF, the last DevNonce
    Wrap,         \* 2^16, the range of a frame counter on the air
    MaxTrans,     \* bound: repetitions the network or the profile asks for
    MaxDown,      \* bound: downlink counters
    MaxUp,        \* bound: an exchange starts below this frame counter
    MaxBuilt      \* bound: frames built in a session

ASSUME Lr1MacAssumption ==
    /\ MaxNonce \in Nat \ {0} /\ Wrap \in Nat \ {0} /\ MaxTrans \in Nat \ {0}
    /\ MaxDown \in Nat /\ MaxUp \in Nat /\ MaxBuilt \in Nat

VARIABLES
    mac,        \* lr1mac_state
    rps,        \* radio_process_state
    join,       \* join_status
    task,       \* the MAC's task in the radio planner; OPENING: a window that the
                \* planner holds while the main thread has not written RX_ON yet
    heard,      \* what the planner reported last (planner_status, rx_payload)
    frame,      \* tx_payload: the frame being sent
    cpt,        \* nb_trans_cpt
    nbTrans,    \* nb_trans
    fcntUp,     \* fcnt_up
    fcntDwn,    \* fcnt_dwn
    avail,      \* available_app_packet
    nonce,      \* dev_nonce
    joinNonce,  \* join_nonce
    keys,       \* the DevNonce the session keys derive from, 0 without keys
    tooSoon,    \* next_time_to_join_seconds is ahead
    atTime,     \* send_at_time
    nvm,        \* CONTEXT_DEVNONCE in the non volatile memory
    seen        \* what an observer remembers, which the code does not read:
                \* built, the frames of the session; aired, the last data frame
                \* given to the radio; answered, a downlink answered `frame';
                \* pushes, how often the last downlink was handed up; got, a bit
                \* flipped by each accepted downlink; spent, the last DevNonce
                \* the network may have answered

ram == <<mac, rps, join, task, heard, frame, cpt, nbTrans, fcntUp, fcntDwn, avail,
         nonce, joinNonce, keys, tooSoon, atTime>>
vars == <<ram, nvm, seen>>

NoCounter == -1      \* 0xFFFFFFFF, before the first downlink of a session
JoinNonces == 0 .. 1 \* two values of the network's nonce: the last one or another
NoNonce == 2         \* 0xFFFFFF

\* What a window can end with: nothing usable, a join accept (mic: its MIC is
\* right; params: its reception parameters are supported), a data frame with
\* its counter and its contents; BAD is a frame on port 0 that also has FOpts.
Silence == [kind |-> "SILENCE"]
JoinAccepts == [kind : {"JOIN_ACCEPT"}, mic : BOOLEAN, jn : JoinNonces, params : BOOLEAN]
Contents == SUBSET {"APP", "CMD"} \cup {{"BAD"}}
Downlinks == [kind : {"DATA"}, fcnt : 0 .. MaxDown, has : Contents]

NoFrame == [kind |-> "NONE", keys |-> 0, n |-> 0, id |-> 0]
Frame(kind, k, n, id) == [kind |-> kind, keys |-> k, n |-> n, id |-> id]

\* The first boot finds no valid context: "use default (0)".
Init ==
    /\ nvm = [nonce |-> 0, jn |-> NoNonce]
    /\ mac = "IDLE" /\ rps = "IDLE" /\ join = "NOT_JOINED"
    /\ task = "NONE" /\ heard = Silence /\ frame = NoFrame
    /\ cpt = 0 /\ nbTrans = 1 /\ fcntUp = 0 /\ fcntDwn = NoCounter
    /\ avail = FALSE /\ tooSoon = FALSE /\ atTime = FALSE /\ keys = 0
    /\ nonce = nvm.nonce /\ joinNonce = nvm.jn
    /\ seen = [built |-> 0, aired |-> NoFrame, answered |-> FALSE, pushes |-> 0,
               got |-> FALSE, spent |-> 0]

-----------------------------------------------------------------------------
(* Decoding a downlink (lr1_stack_mac_rx_frame_decode).                      *)

Lsb == fcntDwn % Wrap
Msb == fcntDwn - Lsb

\* Mutant: the counter of the last downlink is accepted again.
AcceptsEqual(f) ==
    CASE fcntDwn = NoCounter \/ f = Lsb -> IF fcntDwn = NoCounter THEN f ELSE fcntDwn
      [] f > Lsb -> Msb + f
      [] OTHER -> Msb + Wrap + f

\* lr1mac_fcnt_dwn_accept: the 32 bit counter guessed from the 16 bits received,
\* a roll-over assumed when they went back; NoCounter when they are the last ones.
FcntAccept(f) ==
    CASE fcntDwn = NoCounter -> f
      [] fcntDwn # NoCounter /\ f > Lsb -> Msb + f
      [] fcntDwn # NoCounter /\ f < Lsb -> Msb + Wrap + f
      [] OTHER -> NoCounter

\* The MIC is computed over the whole counter, so it is right iff the guess is.
MicOk(h) == h.kind = "DATA" /\ keys # 0 /\ FcntAccept(h.fcnt % Wrap) = h.fcnt
ValidData(h) == MicOk(h) /\ h.has # {"BAD"}
ValidJoinAccept(h) == h.kind = "JOIN_ACCEPT" /\ h.mic
Has(h, content) == ValidData(h) /\ content \in h.has

\* Mutant: a downlink does not stop the repetitions.
CptKept(h) == cpt

\* "reset retransmission counter if received on RX1 or RX2".
CptDecoded(h) == IF MicOk(h) THEN 1 ELSE cpt

\* A frame of type join accept ends like a valid one even when its MIC is wrong.
FcntDwnDecoded(h) ==
    IF h.kind = "JOIN_ACCEPT" THEN 0 ELSE IF ValidData(h) THEN h.fcnt ELSE fcntDwn

-----------------------------------------------------------------------------
(* The end of an exchange (lr1mac_mac_update, lr1_stack_mac_join_accept,     *)
(* lr1_stack_mac_update).                                                    *)

NewNonce(h) == ValidJoinAccept(h) /\ h.jn # joinNonce
Joins(h) == NewNonce(h) /\ h.params

\* Mutant: a repetition that finds no channel leaves the frame counter.
CounterIfRefused(up, repeats) == up

\* "increment adr counter each new uplink frame", when it is given up too.
CounterGivenUp(up, repeats) == IF repeats THEN up + 1 ELSE up

\* Mutant: the count of repetitions is not decremented.
CptRepeats(c) == c

CptLeft(c) == c - 1

\* The join accept commits its nonce and keys before it is validated.
UpdateJoin(h) ==
    /\ joinNonce' = IF NewNonce(h) THEN h.jn ELSE joinNonce
    /\ keys' = IF NewNonce(h) THEN nonce ELSE keys
    /\ join' = IF Joins(h) THEN "JOINED"
               ELSE IF join = "JOINING" THEN "NOT_JOINED" ELSE join
    /\ tooSoon' = (tooSoon \/ (join = "JOINING" /\ ~Joins(h)))
    /\ fcntDwn' = IF Joins(h) THEN NoCounter ELSE FcntDwnDecoded(h)
    /\ nvm' = IF Joins(h) THEN [nonce |-> nonce, jn |-> h.jn] ELSE nvm

\* Commands are answered in a frame of their own, before the application's turn;
\* LinkADRReq, or the profile restored after a join, sets the repetitions, and
\* the back-off of a device that hears nothing resets them.
UpdateFrame(h, up, c) ==
    IF Has(h, "CMD")
      THEN /\ nbTrans' \in 1 .. MaxTrans
           /\ cpt' = nbTrans'
           /\ frame' = Frame("NWK", keys, up, seen.built + 1)
      ELSE /\ nbTrans' \in IF Joins(h) THEN 1 .. MaxTrans ELSE {1, nbTrans}
           /\ cpt' = IF c > 1 THEN CptLeft(c) ELSE 1
           /\ frame' = frame

Observe(h) ==
    seen' = [seen EXCEPT
        !.built = IF Joins(h) THEN 0 ELSE IF Has(h, "CMD") THEN @ + 1 ELSE @,
        !.answered = ~Has(h, "CMD") /\ (@ \/ MicOk(h)),
        !.pushes = IF Has(h, "APP") THEN 1 ELSE IF avail THEN 2 ELSE @,
        !.got = IF ValidData(h) THEN ~@ ELSE @,
        !.spent = IF Joins(h) THEN nonce ELSE @]

MacUpdate(h) ==
    LET c == CptDecoded(h)
        repeats == c > 1
        up == (IF Joins(h) THEN 0 ELSE fcntUp) + IF repeats THEN 0 ELSE 1
        toSend == repeats \/ Has(h, "CMD")
    IN  /\ rps' = "IDLE"
        /\ UpdateJoin(h)
        /\ UpdateFrame(h, up, c)
        /\ avail' = (avail \/ Has(h, "APP"))
        /\ \/ ~toSend /\ mac' = "IDLE" /\ fcntUp' = up
           \/ toSend /\ mac' = "TX_WAIT" /\ fcntUp' = up
           \/ /\ toSend /\ mac' = "IDLE"          \* no channel is free
              /\ fcntUp' = CounterGivenUp(up, repeats)
        /\ Observe(h)
        /\ UNCHANGED <<task, heard, nonce, atTime>>

-----------------------------------------------------------------------------
(* The functions behind the modem's commands.                                *)

NextNonce == IF nonce < MaxNonce THEN nonce + 1 ELSE nonce

\* lr1mac_core_join; the modem joins only when it is not joined.  Without a free
\* channel it fails after join_status was set.
Join ==
    /\ mac = "IDLE" /\ join # "JOINED" /\ fcntUp < MaxUp
    /\ join' = "JOINING"
    /\ \/ /\ mac' = "SEND"
          /\ nonce' = NextNonce
          /\ cpt' = 1
          /\ frame' = Frame("JOIN", 0, nonce', 0)
          /\ seen' = [seen EXCEPT !.answered = FALSE]
       \/ UNCHANGED <<mac, nonce, cpt, frame, seen>>
    /\ nbTrans' = 1
    /\ UNCHANGED <<rps, task, heard, fcntUp, fcntDwn, avail, joinNonce, keys, tooSoon,
                   atTime, nvm>>

\* lr1mac_core_payload_send and lr1mac_core_payload_send_at_time, when they do
\* not refuse: a refusal changes nothing here.
Send ==
    /\ mac = "IDLE" /\ join = "JOINED"
    /\ fcntUp < MaxUp /\ seen.built < MaxBuilt
    /\ mac' = "SEND"
    /\ frame' = Frame("APP", keys, fcntUp, seen.built + 1)
    /\ \/ cpt' = nbTrans /\ atTime' = atTime
       \/ cpt' = 1 /\ atTime' = TRUE
    /\ seen' = [seen EXCEPT !.built = @ + 1, !.answered = FALSE]
    /\ UNCHANGED <<rps, join, task, heard, nbTrans, fcntUp, fcntDwn, avail, nonce,
                   joinNonce, keys, tooSoon, nvm>>

\* The main thread is inside lr1_stack_mac_rx_radio_start.
Opening == task = "OPENING"

\* lr1mac_core_dr_strategy_set: each profile has its number of transmissions,
\* which the user can also set (lr1_stack_nb_trans_set).
DrStrategySet ==
    /\ ~Opening
    /\ nbTrans' \in 1 .. MaxTrans
    /\ UNCHANGED <<mac, rps, join, task, heard, frame, cpt, fcntUp, fcntDwn, avail, nonce,
                   joinNonce, keys, tooSoon, atTime, nvm, seen>>

\* Mutant: the exchange is forgotten while its task is still in the planner.
ForgetExchange ==
    /\ ~Opening
    /\ join' = "NOT_JOINED" /\ cpt' = 1 /\ mac' = "IDLE" /\ rps' = "IDLE"
    /\ UNCHANGED <<task, heard, frame, nbTrans, fcntUp, fcntDwn, avail, nonce,
                   joinNonce, keys, tooSoon, atTime, nvm, seen>>

\* lr1mac_core_join_status_clear, at any time: a task in the planner is aborted
\* and reported later; a frame that waits in the MAC for its repetition stays.
JoinStatusClear ==
    /\ ~Opening
    /\ join' = "NOT_JOINED" /\ cpt' = 1
    /\ task' = IF task = "NONE" THEN "NONE" ELSE "ABORTED"
    /\ UNCHANGED <<mac, rps, heard, frame, nbTrans, fcntUp, fcntDwn, avail, nonce,
                   joinNonce, keys, tooSoon, atTime, nvm, seen>>

-----------------------------------------------------------------------------
(* lr1mac_core_process.                                                      *)

HeldBack == join = "JOINING" /\ tooSoon

\* "TOO SOON TO JOIN": the state goes back to idle and JOINING stays.
ProcessTooSoon ==
    /\ HeldBack /\ mac # "IDLE" /\ rps # "ABORTED_BY_RP"
    /\ mac' = "IDLE"
    /\ UNCHANGED <<rps, join, task, heard, frame, cpt, nbTrans, fcntUp, fcntDwn, avail,
                   nonce, joinNonce, keys, tooSoon, atTime, nvm, seen>>

ProcessAborted == rps = "ABORTED_BY_RP" /\ MacUpdate(Silence)

\* lr1_stack_mac_tx_radio_start.  Only a frame with a date can be refused, when
\* the date has passed.
ProcessSend ==
    /\ ~HeldBack /\ mac = "SEND" /\ rps = "IDLE"
    /\ \/ /\ rps' = "TX_ON" /\ task' = "TX"
          /\ seen' = IF frame.kind = "JOIN" THEN seen ELSE [seen EXCEPT !.aired = frame]
       \/ /\ atTime
          /\ rps' = "ABORTED_BY_RP"
          /\ UNCHANGED <<task, seen>>
    /\ atTime' = FALSE
    /\ UNCHANGED <<mac, join, heard, frame, cpt, nbTrans, fcntUp, fcntDwn, avail, nonce,
                   joinNonce, keys, tooSoon, nvm>>

\* lr1_stack_mac_rx_timer_configure and lr1_stack_mac_rx_radio_start, up to the return of
\* rp_task_enqueue: too late, with the last report left in place; accepted; or refused.
OpenWindow ==
    \/ rps' = "RX_FINISHED" /\ task' = task
    \/ rps' = rps /\ task' = "OPENING"
    \/ rps' = "ABORTED_BY_RP" /\ task' = task

\* The main thread goes on before the planner reports anything.
WriteRxOn ==
    /\ Opening
    /\ rps' = "RX_ON" /\ task' = "RX"
    /\ UNCHANGED <<mac, join, heard, frame, cpt, nbTrans, fcntUp, fcntDwn, avail, nonce,
                   joinNonce, keys, tooSoon, atTime, nvm, seen>>

\* Mutant: the DevNonce is not stored after the transmission.
NothingStored == nvm

\* "save devnonce after the end of TX".
StoredAfterTx ==
    IF join = "JOINING" THEN [nonce |-> nonce, jn |-> joinNonce] ELSE nvm

ProcessTxFinished ==
    /\ mac = "SEND" /\ rps = "TX_FINISHED"
    /\ mac' = "RX1"
    /\ nvm' = StoredAfterTx
    /\ seen' = [seen EXCEPT !.spent = IF join = "JOINING" THEN nonce ELSE @]
    /\ OpenWindow
    /\ UNCHANGED <<join, heard, frame, cpt, nbTrans, fcntUp, fcntDwn, avail, nonce,
                   joinNonce, keys, tooSoon, atTime>>

ProcessRx1 ==
    /\ mac = "RX1" /\ rps = "RX_FINISHED"
    /\ \/ (ValidData(heard) \/ ValidJoinAccept(heard)) /\ MacUpdate(heard)
       \/ /\ ~ValidData(heard) /\ ~ValidJoinAccept(heard)
          /\ mac' = "RX2"
          /\ cpt' = CptDecoded(heard)
          /\ fcntDwn' = FcntDwnDecoded(heard)
          /\ seen' = [seen EXCEPT !.answered = @ \/ MicOk(heard)]
          /\ OpenWindow
          /\ UNCHANGED <<join, heard, frame, nbTrans, fcntUp, avail, nonce, joinNonce,
                         keys, tooSoon, atTime, nvm>>

ProcessRx2 == mac = "RX2" /\ rps = "RX_FINISHED" /\ MacUpdate(heard)

\* The date of the repetition or of the answer has come.
ProcessTxWait ==
    /\ mac = "TX_WAIT"
    /\ mac' = "SEND"
    /\ UNCHANGED <<rps, join, task, heard, frame, cpt, nbTrans, fcntUp, fcntDwn, avail,
                   nonce, joinNonce, keys, tooSoon, atTime, nvm, seen>>

Process == \/ /\ ~Opening
              /\ \/ ProcessTooSoon \/ ProcessAborted \/ ProcessSend \/ ProcessTxFinished
                 \/ ProcessRx1 \/ ProcessRx2 \/ ProcessTxWait
           \/ WriteRxOn

-----------------------------------------------------------------------------
(* The planner's reports (lr1_stack_mac_rp_callback), time and resets.       *)

\* Mutant: the packet handed up last stays available.
AvailKept == avail

AvailAfterTx == FALSE

ReportTx ==
    /\ task = "TX"
    /\ rps' = "TX_FINISHED"
    /\ avail' = AvailAfterTx
    /\ heard' = Silence /\ task' = "NONE"
    /\ UNCHANGED <<mac, join, frame, cpt, nbTrans, fcntUp, fcntDwn, nonce, joinNonce,
                   keys, tooSoon, atTime, nvm, seen>>

\* lr1_stack_mac_downlink_check_under_it: once joined, only frames with the
\* device's address pass, which those of type join accept do not have.
Heard == IF join = "JOINED" THEN {Silence} \cup Downlinks
         ELSE {Silence} \cup JoinAccepts \cup Downlinks

ReportRx ==
    /\ task = "RX"
    /\ \E h \in Heard :
          /\ h.kind = "DATA" => keys # 0 /\ ("CMD" \in h.has => seen.built < MaxBuilt)
          /\ h.kind = "JOIN_ACCEPT" => frame.kind = "JOIN"
          /\ heard' = h
    /\ rps' = "RX_FINISHED" /\ task' = "NONE"
    /\ UNCHANGED <<mac, join, frame, cpt, nbTrans, fcntUp, fcntDwn, avail, nonce,
                   joinNonce, keys, tooSoon, atTime, nvm, seen>>

\* A better ranked task took the radio, or the MAC aborted its task.
ReportAborted ==
    /\ task # "NONE" /\ ~Opening
    /\ rps' = "ABORTED_BY_RP"
    /\ avail' = IF rps = "TX_ON" THEN AvailAfterTx ELSE avail
    /\ heard' = Silence /\ task' = "NONE"
    /\ UNCHANGED <<mac, join, frame, cpt, nbTrans, fcntUp, fcntDwn, nonce, joinNonce,
                   keys, tooSoon, atTime, nvm, seen>>

\* The same before the main thread has written RX_ON, which overwrites the report.
EarlyAbort ==
    /\ Opening
    /\ rps' = "RX_ON"
    /\ heard' = Silence /\ task' = "NONE"
    /\ UNCHANGED <<mac, join, frame, cpt, nbTrans, fcntUp, fcntDwn, avail, nonce, joinNonce,
                   keys, tooSoon, atTime, nvm, seen>>

TimeToJoin ==
    /\ tooSoon
    /\ tooSoon' = FALSE
    /\ UNCHANGED <<mac, rps, join, task, heard, frame, cpt, nbTrans, fcntUp, fcntDwn,
                   avail, nonce, joinNonce, keys, atTime, nvm, seen>>

\* lr1mac_core_init: only CONTEXT_DEVNONCE survives.
Boot ==
    /\ mac' = "IDLE" /\ rps' = "IDLE" /\ join' = "NOT_JOINED"
    /\ task' = "NONE" /\ heard' = Silence /\ frame' = NoFrame
    /\ cpt' = 0 /\ nbTrans' = 1 /\ fcntUp' = 0 /\ fcntDwn' = NoCounter
    /\ avail' = FALSE /\ tooSoon' = FALSE /\ atTime' = FALSE /\ keys' = 0
    /\ nonce' = nvm.nonce /\ joinNonce' = nvm.jn
    /\ seen' = [seen EXCEPT !.built = 0, !.aired = NoFrame, !.answered = FALSE,
                             !.pushes = 0]
    /\ UNCHANGED nvm

Reset == Boot

\* The window ends, with a packet or a timeout, before the main thread has written RX_ON:
\* the callback finds the end of the last task in radio_process_state and panics.
EarlyEnd == Opening /\ Boot

\* After FAILSAFE_DURATION without an end the MAC panics, which resets the MCU.
Failsafe == mac # "IDLE" /\ rps = "RX_ON" /\ task = "NONE" /\ Boot

Next == \/ Join \/ Send \/ DrStrategySet \/ JoinStatusClear \/ Process
        \/ ReportTx \/ ReportRx \/ ReportAborted \/ EarlyAbort \/ EarlyEnd
        \/ TimeToJoin \/ Reset \/ Failsafe

Spec == Init /\ [][Next]_vars

Fairness == WF_vars(Process) /\ WF_vars(ReportAborted \/ ReportTx \/ ReportRx)
            /\ WF_vars(Failsafe)
FairSpec == Spec /\ Fairness

-----------------------------------------------------------------------------
(* Properties. *)

States == {"IDLE", "SEND", "RX1", "RX2", "TX_WAIT"}
RadioStates == {"IDLE", "TX_ON", "TX_FINISHED", "RX_ON", "RX_FINISHED", "ABORTED_BY_RP"}
Tasks == {"NONE", "TX", "OPENING", "RX", "ABORTED"}

\* The type invariant.
TypeOK ==
    /\ mac \in States /\ rps \in RadioStates
    /\ join \in {"NOT_JOINED", "JOINING", "JOINED"}
    /\ task \in Tasks
    /\ heard \in {Silence} \cup JoinAccepts \cup Downlinks
    /\ frame \in [kind : {"NONE", "JOIN", "APP", "NWK"}, keys : 0 .. MaxNonce,
                  n : Nat, id : 0 .. MaxBuilt]
    /\ cpt \in 0 .. MaxTrans /\ nbTrans \in 1 .. MaxTrans
    /\ fcntUp \in Nat /\ fcntDwn \in {NoCounter} \cup 0 .. MaxDown
    /\ nonce \in 0 .. MaxNonce /\ joinNonce \in JoinNonces \cup {NoNonce}
    /\ keys \in 0 .. MaxNonce
    /\ nvm \in [nonce : 0 .. MaxNonce, jn : JoinNonces \cup {NoNonce}]
    /\ avail \in BOOLEAN /\ tooSoon \in BOOLEAN /\ atTime \in BOOLEAN

\* "You should not receive an IT in this radio state" (lr1_stack_mac_layer.c:712): whatever
\* the user aborted meanwhile, a task that ends finds the MAC in the state its callback
\* expects, and does not panic, with one exception: a window may end between the return of
\* rp_task_enqueue and the write of RX_ON (line 589), while the state is still that of the
\* end of the transmission or of the first window; the comment is wrong there (EarlyEnd).
InterruptExpected ==
    /\ task = "TX" => mac = "SEND" /\ rps = "TX_ON"
    /\ task = "RX" => mac \in {"RX1", "RX2"} /\ rps = "RX_ON"
    /\ task = "ABORTED" => rps \in {"TX_ON", "RX_ON"}
    /\ task = "OPENING" => \/ mac = "RX1" /\ rps = "TX_FINISHED"
                           \/ mac = "RX2" /\ rps = "RX_FINISHED"

\* Within a session a frame counter stands for one frame: what goes on the air is
\* a repetition of the last frame or has a larger counter, through repetitions,
\* refusals, aborts and answers (the payload is encrypted with the counter).
CounterNamesOneFrame ==
    [][LET old == seen.aired
           new == seen'.aired
       IN  new # old /\ new.keys = old.keys /\ new.keys < MaxNonce => new.n > old.n]_vars

\* A DevNonce is used by one join request: once the windows of a request still
\* wanted have opened, or it has keyed a session, no later request has it, until
\* it saturates.  Resets may come at any time; one before the windows open, or
\* after the user cancelled the request, does lose the nonce.
NonceUsedOnce ==
    [][mac = "IDLE" /\ mac' = "SEND" /\ join' = "JOINING" =>
           nonce' > seen.spent \/ nonce' = MaxNonce]_vars

\* A frame that a downlink answered is not sent again, not even when that
\* downlink is discarded after its MIC was checked.
AnsweredNotRepeated == [][task = "NONE" /\ task' = "TX" => ~seen.answered]_vars

\* Once joined, a downlink is accepted only with a counter larger than all those
\* accepted in the session: duplicates and late frames are refused, also across
\* the roll-over of the 16 bits on the air.
DownlinkNewer == [][seen'.got # seen.got /\ join = "JOINED" => fcntDwn' > fcntDwn]_vars

\* A downlink handed to the application is handed up a second time only by an
\* exchange that the planner refused or aborted, and never after a reception.
HandedUpOnce == [][seen.pushes = 1 /\ seen'.pushes = 2 => rps = "ABORTED_BY_RP"]_vars

\* The strengthening of InterruptExpected that is inductive: what the MAC's state
\* says of its task, and no exchange is under way while a join is held back.
ExchangeInv ==
    /\ InterruptExpected
    /\ task \in Tasks
    /\ task = "ABORTED" => mac # "IDLE"
    /\ mac = "IDLE" => rps = "IDLE"
    /\ HeldBack => rps = "IDLE"

\* Every exchange ends: the MAC becomes idle again, with or without answers,
\* repetitions, aborts, and the report that the write of RX_ON may overwrite.
MacReturnsIdle == (mac # "IDLE") ~> (mac = "IDLE")

=============================================================================

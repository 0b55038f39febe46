------------------------------- MODULE Services -------------------------------
(***************************************************************************)
(* The components that work on their own between two calls of the engine:    *)
(* the downlink FIFO, the duty cycle, the stream, the file upload, the MAC   *)
(* commands, the clock synchronisation, the channels of a fixed plan and     *)
(* class C.  They do not meet, so a behaviour is one of one component,       *)
(* `which', while the others are off.                                        *)
(***************************************************************************)
EXTENDS Integers, Sequences, FiniteSets

CONSTANTS
    fifoSize, fifoMessages, fifoCapacities,
    dutyBands, dutySlots, dutyUnit, dutyLimit, dutyToas, dutyWrap,
    roseSize, roseWindows, roseVectorLen, roseRates, roseRecords, roseRooms,
    roseMaxSysc, roseWrap, roseMaxOctets,
    upLengths, upCounters, upRooms, upMaxSessions,
    cmdRequests, cmdSetups, cmdCommands, cmdMaxPayloads, cmdMaxSticky, cmdInstants,
    clkPeriods, clkDelays, clkRetries, clkRequests1, clkRequests2, clkJitter,
    clkJoinDelay, clkTokens, clkErrors, clkInFlight,
    planBanks, planPerBank, planNarrowRates, planWideRates, planFhssRates,
    planLowerRate, planMobileRates, planCustomRates, planNarrowStart,
    planNarrowStep, planWideStart, planWrap, planLists, planRequests,
    ccGroups, ccParams, ccMaxCount

VARIABLES which,
    fifoBuffer, fifoReadOffset, fifoWriteOffset, fifoFreeSpace, fifoNbElement,
    fifoAnswer,
    dutyNow, dutyEnabled, dutyRing, dutyFrame, dutySent,
    roseFifo, roseWl, roseUnsent, roseSoff, roseRedcnt, roseRr, rosePending, roseFrame,
    upState, upSession, upLen, upCntx, upFntx, upLaunched, upServer, upDone,
    upConfirmed,
    cmdPhase, cmdFrame, cmdCpt, cmdNbTrans, cmdReq, cmdTodo, cmdAns, cmdSticky,
    cmdCurrent, cmdDev, cmdNow, cmdSent, cmdClock, cmdNet,
    clkService, clkEnabled, clkSync, clkNbReq, clkJoined, clkDue, clkAns, clkBusy,
    clkForced, clkToken, clkErr, clkFlight, clkMixed, clkReplan,
    planDev,
    ccJoined, ccRx2, ccFcnt, ccEnabled, ccStarted, ccTable, ccHook, ccMain, ccSeen, ccPast

fifoVars == <<fifoBuffer, fifoReadOffset, fifoWriteOffset, fifoFreeSpace, fifoNbElement,
    fifoAnswer>>
dutyVars == <<dutyNow, dutyEnabled, dutyRing, dutyFrame, dutySent>>
roseVars == <<roseFifo, roseWl, roseUnsent, roseSoff, roseRedcnt, roseRr, rosePending,
    roseFrame>>
upVars == <<upState, upSession, upLen, upCntx, upFntx, upLaunched, upServer, upDone,
    upConfirmed>>
cmdVars == <<cmdPhase, cmdFrame, cmdCpt, cmdNbTrans, cmdReq, cmdTodo, cmdAns, cmdSticky,
    cmdCurrent, cmdDev, cmdNow, cmdSent, cmdClock, cmdNet>>
clkVars == <<clkService, clkEnabled, clkSync, clkNbReq, clkJoined, clkDue, clkAns,
    clkBusy, clkForced, clkToken, clkErr, clkFlight, clkMixed, clkReplan>>
planVars == <<planDev>>
ccVars == <<ccJoined, ccRx2, ccFcnt, ccEnabled, ccStarted, ccTable, ccHook, ccMain, ccSeen,
    ccPast>>

\* The downlink FIFO.
Ring == INSTANCE FifoCtrl WITH
    Size <- fifoSize, Messages <- fifoMessages, Capacities <- fifoCapacities,
    buffer <- fifoBuffer, readOffset <- fifoReadOffset,
    writeOffset <- fifoWriteOffset, freeSpace <- fifoFreeSpace,
    nbElement <- fifoNbElement, answer <- fifoAnswer

\* The duty cycle.
Duty == INSTANCE DutyCycle WITH
    Bands <- dutyBands, Slots <- dutySlots, Unit <- dutyUnit, Limit <- dutyLimit,
    Toas <- dutyToas, Wrap <- dutyWrap, now <- dutyNow, enabled <- dutyEnabled,
    ring <- dutyRing, frame <- dutyFrame, sent <- dutySent

\* The stream.
Rose == INSTANCE Stream WITH
    Size <- roseSize, Windows <- roseWindows, VectorLen <- roseVectorLen,
    Rates <- roseRates, Records <- roseRecords, Rooms <- roseRooms,
    MaxSysc <- roseMaxSysc, Wrap <- roseWrap, MaxOctets <- roseMaxOctets, fifo <- roseFifo,
    wl <- roseWl, unsent <- roseUnsent, soff <- roseSoff, redcnt <- roseRedcnt,
    rr <- roseRr, pending <- rosePending, frame <- roseFrame

\* The file upload.
Upload == INSTANCE FileUpload WITH
    Lengths <- upLengths, Counters <- upCounters, Rooms <- upRooms,
    MaxSessions <- upMaxSessions, state <- upState, session <- upSession,
    len <- upLen, cntx <- upCntx, fntx <- upFntx, launched <- upLaunched,
    server <- upServer, done <- upDone, confirmed <- upConfirmed

\* The MAC commands.
Cmd == INSTANCE MacCommands WITH
    Requests <- cmdRequests, Setups <- cmdSetups, Commands <- cmdCommands,
    MaxPayloads <- cmdMaxPayloads, MaxSticky <- cmdMaxSticky,
    Instants <- cmdInstants, phase <- cmdPhase, frame <- cmdFrame, cpt <- cmdCpt,
    nbTrans <- cmdNbTrans, req <- cmdReq, todo <- cmdTodo, ans <- cmdAns,
    sticky <- cmdSticky, current <- cmdCurrent, dev <- cmdDev, now <- cmdNow,
    sent <- cmdSent, clock <- cmdClock, net <- cmdNet

\* The clock synchronisation.
Clock == INSTANCE ClockSync WITH
    Periods <- clkPeriods, Delays <- clkDelays, Retries <- clkRetries,
    Requests1 <- clkRequests1, Requests2 <- clkRequests2, Jitter <- clkJitter,
    JoinDelay <- clkJoinDelay, Tokens <- clkTokens, Errors <- clkErrors,
    InFlight <- clkInFlight, service <- clkService, enabled <- clkEnabled,
    sync <- clkSync, nbReq <- clkNbReq, joined <- clkJoined, due <- clkDue,
    ans <- clkAns, busy <- clkBusy, forced <- clkForced, token <- clkToken,
    err <- clkErr, flight <- clkFlight, mixed <- clkMixed, replan <- clkReplan

\* The channels of a fixed plan.
Plan == INSTANCE FixedPlan WITH
    Banks <- planBanks, PerBank <- planPerBank, NarrowRates <- planNarrowRates,
    WideRates <- planWideRates, FhssRates <- planFhssRates,
    LowerRate <- planLowerRate, MobileRates <- planMobileRates,
    CustomRates <- planCustomRates, NarrowStart <- planNarrowStart,
    NarrowStep <- planNarrowStep, WideStart <- planWideStart, Wrap <- planWrap,
    Lists <- planLists, Requests <- planRequests, dev <- planDev

\* Class C and its multicast sessions.
ClassC == INSTANCE ClassC WITH
    Groups <- ccGroups, Params <- ccParams, MaxCount <- ccMaxCount,
    joined <- ccJoined, rx2 <- ccRx2, fcnt <- ccFcnt, enabled <- ccEnabled,
    started <- ccStarted, table <- ccTable, hook <- ccHook, main <- ccMain,
    seen <- ccSeen, past <- ccPast

ASSUME ServicesAssumption ==
    /\ Ring!FifoAssumption /\ Duty!DutyAssumption /\ Rose!StreamAssumption
    /\ Upload!UploadAssumption /\ Cmd!CommandsAssumption /\ Clock!ClockAssumption
    /\ Plan!FixedPlanAssumption /\ ClassC!ClassCAssumption

-----------------------------------------------------------------------------
Components == {"Ring", "Duty", "Rose", "Upload", "Cmd", "Clock", "Plan", "ClassC"}

\* The variables of the components that do not run.
Off == 0
RingOff ==
    /\ fifoBuffer = Off /\ fifoReadOffset = Off /\ fifoWriteOffset = Off
    /\ fifoFreeSpace = Off /\ fifoNbElement = Off /\ fifoAnswer = Off
DutyOff ==
    /\ dutyNow = Off /\ dutyEnabled = Off /\ dutyRing = Off /\ dutyFrame = Off
    /\ dutySent = Off
RoseOff ==
    /\ roseFifo = Off /\ roseWl = Off /\ roseUnsent = Off /\ roseSoff = Off
    /\ roseRedcnt = Off /\ roseRr = Off /\ rosePending = Off /\ roseFrame = Off
UploadOff ==
    /\ upState = Off /\ upSession = Off /\ upLen = Off /\ upCntx = Off
    /\ upFntx = Off /\ upLaunched = Off /\ upServer = Off /\ upDone = Off
    /\ upConfirmed = Off
CmdOff ==
    /\ cmdPhase = Off /\ cmdFrame = Off /\ cmdCpt = Off /\ cmdNbTrans = Off
    /\ cmdReq = Off /\ cmdTodo = Off /\ cmdAns = Off /\ cmdSticky = Off
    /\ cmdCurrent = Off /\ cmdDev = Off /\ cmdNow = Off /\ cmdSent = Off
    /\ cmdClock = Off /\ cmdNet = Off
ClockOff ==
    /\ clkService = Off /\ clkEnabled = Off /\ clkSync = Off /\ clkNbReq = Off
    /\ clkJoined = Off /\ clkDue = Off /\ clkAns = Off /\ clkBusy = Off
    /\ clkForced = Off /\ clkToken = Off /\ clkErr = Off /\ clkFlight = Off
    /\ clkMixed = Off /\ clkReplan = Off
PlanOff == planDev = Off
ClassCOff ==
    /\ ccJoined = Off /\ ccRx2 = Off /\ ccFcnt = Off /\ ccEnabled = Off
    /\ ccStarted = Off /\ ccTable = Off /\ ccHook = Off /\ ccMain = Off /\ ccSeen = Off
    /\ ccPast = Off

Init ==
    /\ which \in Components
    /\ IF which = "Ring" THEN Ring!Init ELSE RingOff
    /\ IF which = "Duty" THEN Duty!Init ELSE DutyOff
    /\ IF which = "Rose" THEN Rose!Init ELSE RoseOff
    /\ IF which = "Upload" THEN Upload!Init ELSE UploadOff
    /\ IF which = "Cmd" THEN Cmd!Init ELSE CmdOff
    /\ IF which = "Clock" THEN Clock!Init ELSE ClockOff
    /\ IF which = "Plan" THEN Plan!Init ELSE PlanOff
    /\ IF which = "ClassC" THEN ClassC!Init ELSE ClassCOff

\* A step of one component.
RingStep ==
    /\ which = "Ring" /\ Ring!Next
    /\ UNCHANGED <<which, dutyVars, roseVars, upVars, cmdVars, clkVars, planVars, ccVars>>
DutyStep ==
    /\ which = "Duty" /\ Duty!Next
    /\ UNCHANGED <<which, fifoVars, roseVars, upVars, cmdVars, clkVars, planVars, ccVars>>
RoseStep ==
    /\ which = "Rose" /\ Rose!Next
    /\ UNCHANGED <<which, fifoVars, dutyVars, upVars, cmdVars, clkVars, planVars, ccVars>>
UploadStep ==
    /\ which = "Upload" /\ Upload!Next
    /\ UNCHANGED <<which, fifoVars, dutyVars, roseVars, cmdVars, clkVars, planVars, ccVars>>
CmdStep ==
    /\ which = "Cmd" /\ Cmd!Next
    /\ UNCHANGED <<which, fifoVars, dutyVars, roseVars, upVars, clkVars, planVars, ccVars>>
ClockStep ==
    /\ which = "Clock" /\ Clock!Next
    /\ UNCHANGED <<which, fifoVars, dutyVars, roseVars, upVars, cmdVars, planVars,
        ccVars>>

PlanStep ==
    /\ which = "Plan" /\ Plan!Next
    /\ UNCHANGED <<which, fifoVars, dutyVars, roseVars, upVars, cmdVars, clkVars, ccVars>>
ClassCStep ==
    /\ which = "ClassC" /\ ClassC!Next
    /\ UNCHANGED <<which, fifoVars, dutyVars, roseVars, upVars, cmdVars, clkVars,
        planVars>>

Next == RingStep \/ DutyStep \/ RoseStep \/ UploadStep \/ CmdStep \/ ClockStep
        \/ PlanStep \/ ClassCStep

vars == <<which, fifoVars, dutyVars, roseVars, upVars, cmdVars, clkVars,
    planVars, ccVars>>
Spec == Init /\ [][Next]_vars

-----------------------------------------------------------------------------
(* The properties of the components. *)

\* The ring of bytes is a queue of messages that forgets its oldest (fifo_ctrl.c).
ImplementsQueue == (which = "Ring" => Ring!QueueInit) /\ [][which = "Ring" => Ring!QueueStep]_fifoVars

\* No band sends more than its share of the period (smtc_duty_cycle.c).
BandWithinLimit == [][which = "Duty" => Duty!WithinLimit]_dutyVars

\* The wait that the duty cycle announces is the one it takes (smtc_duty_cycle.c).
WaitFrees == which = "Duty" => Duty!WaitFrees

\* What a frame of a stream carries is what the server needs to decode it (rose.c).
FrameDecodable == which = "Rose" => Rose!FrameDecodable

\* A file reported as uploaded is whole at the server (file_upload.c).
ConfirmedIsComplete == which = "Upload" => Upload!ConfirmedIsComplete

\* The network's time is paired with the transmission it answers (lr1_stack_mac_layer.c).
NetworkTimeRight == which = "Cmd" => Cmd!NetworkTimeRight

\* The device and the network agree on the parameters set (lr1_stack_mac_layer.c).
ParametersAgreed == which = "Cmd" => Cmd!ParametersAgreed

\* A time taken from the server and called valid is right (alc_sync.c).
SyncedIsRight == which = "Clock" => Clock!SyncedIsRight

\* The modem asks for the time before, or as soon as, it becomes invalid
\* (smtc_clock_sync.c).
LapseNoticed == which = "Clock" => Clock!LapseNoticed

\* The channels are hopped on one after the other, and one is found for every rate that
\* one supports (region_us_915.c).
ChannelsHopped == which = "Plan" => Plan!ChannelsHopped

\* The back-off enables all the channels again (smtc_real.c).
BackoffRecovers == which = "Plan" => Plan!BackoffRecovers

\* No downlink is taken twice by class A and class C (lr1mac_class_c.c).
DownlinkOnce == which = "ClassC" => ClassC!DownlinkOnce

\* Class C listens to every session enabled (lr1mac_class_c.c).
SessionsHeard == which = "ClassC" => ClassC!SessionsHeard

\* Class C's callback finds a session to launch or to decode for (lr1mac_class_c.c).
SessionFound == which = "ClassC" => ClassC!SessionFound

=============================================================================

---------------------------- MODULE MacCommands ----------------------------
(***************************************************************************)
(* The MAC commands of the LoRaWAN stack (lr1_stack_mac_layer.c,             *)
(* lr1mac_core.c): the requests the modem sends (LinkCheckReq,               *)
(* DeviceTimeReq, PingSlotInfoReq), the loop that parses the network's       *)
(* commands, and the answers, of which some are "sticky": they are repeated  *)
(* in every frame until a downlink shows that the network has heard them.    *)
(* Frames are lost in both directions, and repeated nb_trans times.          *)
(***************************************************************************)
EXTENDS Integers, Sequences, SequencesExt, FiniteSetsExt

CONSTANTS
    Requests,     \* the requests in use, of LINK_CHECK, DEVICE_TIME, PING_SLOT_INFO
    Commands,     \* the lists of commands a downlink may carry
    Setups,       \* the parameters the network sets, named by their command
    MaxPayloads,  \* the largest payloads of the data rates in use
    MaxSticky,    \* 15, "Max byte in sticky command"
    Instants      \* bound: the clock counts transmissions modulo this

Sticky == {"RX_PARAM_SETUP", "RX_TIMING_SETUP", "TX_PARAM_SETUP", "DL_CHANNEL",
           "PING_SLOT_CHANNEL"}
Plain == {"LINK_ADR", "DUTY_CYCLE", "DEV_STATUS", "NEW_CHANNEL", "BEACON_FREQ"}
Header == 8     \* FHDROFFSET

\* A command of the network: ok when the device accepts it, val what it sets.
CommandsAssumption ==
    /\ Requests \subseteq {"LINK_CHECK", "DEVICE_TIME", "PING_SLOT_INFO"}
    /\ Setups \subseteq Sticky /\ MaxPayloads \subseteq Nat
    /\ MaxSticky \in Nat /\ Instants \in Nat \ {0, 1}
    /\ Commands \subseteq Seq([cid : Setups \cup Plain, ok : BOOLEAN, val : Nat])

VARIABLES
    phase,      \* lr1mac_state, with the parsing of a downlink apart
    frame,      \* tx_payload: the requests and the answers of the frame
    cpt,        \* nb_trans_cpt
    nbTrans,    \* nb_trans
    req,        \* link_check_user_req, device_time_user_req, ping_slot_info_user_req
    todo,       \* nwk_payload, what is not parsed yet
    ans,        \* tx_fopts_data
    sticky,     \* tx_fopts_datasticky
    current,    \* tx_fopts_current_data
    dev,        \* the parameters set by the network's commands
    now,        \* the time, which the network and the device share but do not agree on
    sent,       \* timestamp_tx_done_device_time_req_ms_tmp
    clock,      \* seconds_since_epoch and timestamp_tx_done_device_time_req_ms
    net         \* the network: heard, this transmission; view, the parameters it
                \* believes in; told, it heard a frame since its last commands; gap,
                \* answers were left out for a reason the code accepts

vars == <<phase, frame, cpt, nbTrans, req, todo, ans, sticky, current, dev, now, sent,
          clock, net>>

NoClock == [epoch |-> 0, stamp |-> 0]
Init ==
    /\ phase = "IDLE" /\ frame = [asks |-> {}, answers |-> <<>>]
    /\ cpt = 1 /\ nbTrans = 1
    /\ req = [k \in Requests |-> "NOT_REQUESTED"]
    /\ todo = <<>> /\ ans = <<>> /\ sticky = <<>> /\ current = <<>>
    /\ dev = [c \in Setups |-> 0]
    /\ now = 0 /\ sent = 0 /\ clock = NoClock
    /\ net = [heard |-> FALSE, view |-> dev, told |-> TRUE, gap |-> FALSE]

AnswerSize(a) ==
    CASE a.cid = "DEV_STATUS" -> 3
      [] a.cid \in {"RX_TIMING_SETUP", "TX_PARAM_SETUP", "DUTY_CYCLE"} -> 1
      [] OTHER -> 2
Octets(s) == FoldLeft(LAMBDA n, a : n + AnswerSize(a), 0, s)

\* lr1_stack_mac_cmd_ans_cut: as many whole answers as fit.
Cut(s, room) ==
    SubSeq(s, 1, Max({n \in 0 .. Len(s) : Octets(SubSeq(s, 1, n)) <= room}))

-----------------------------------------------------------------------------
(* The uplinks. *)

\* A frame is built.
Build(asks, answers, omits) ==
    /\ frame' = [asks |-> asks, answers |-> answers]
    /\ net' = [net EXCEPT !.gap = @ \/ omits]

Pending == \E k \in Requests : req[k] = "REQUESTED"

\* lr1mac_core_send_stack_cid_req: a frame on port 0 for the request and the
\* sticky answers.  Nothing is added for a request that waits since an attempt
\* that was refused, nor are the sticky answers then.
Ask(k) ==
    /\ phase = "IDLE"
    /\ req' = [req EXCEPT ![k] = "REQUESTED"]
    /\ \/ /\ Build(IF req[k] = "REQUESTED" THEN {} ELSE {k},
                   IF Pending THEN <<>> ELSE current, Pending /\ current # <<>>)
          /\ phase' = "SEND" /\ cpt' = nbTrans
       \/ UNCHANGED <<frame, net, phase, cpt>>   \* no channel, duty cycle full
    /\ UNCHANGED <<nbTrans, todo, ans, sticky, current, dev, now, sent, clock>>

\* lr1mac_core_payload_send for the user: the sticky answers go in FOpts.
UserFrame ==
    /\ phase = "IDLE"
    /\ Build({}, current, FALSE)
    /\ phase' = "SEND" /\ cpt' = nbTrans
    /\ UNCHANGED <<nbTrans, req, todo, ans, sticky, current, dev, now, sent, clock>>

\* What the network believes once it heard the answers.
Believes(view, answers) ==
    [c \in Setups |->
        LET said == {i \in DOMAIN answers : answers[i].cid = c /\ answers[i].ok}
        IN IF said = {} THEN view[c] ELSE answers[Max(said)].val]

\* It may hear nothing; a gap is closed once it believes what the device has set, and
\* the answers still to be repeated say so too.
Hears == LET view == Believes(net.view, frame.answers) IN
    \/ net' = [net EXCEPT !.heard = FALSE]
    \/ net' = [net EXCEPT !.heard = TRUE, !.view = view, !.told = TRUE,
                          !.gap = @ /\ (view # dev \/ Believes(dev, sticky) # dev)]

\* The end of a transmission (lr1_stack_mac_update_tx_done).  Each transmission takes one
\* unit of time.
TxDone ==
    /\ phase = "SEND"
    /\ phase' = "WINDOWS"
    /\ now' = (now + 1) % Instants
    /\ req' = [k \in Requests |-> IF req[k] = "REQUESTED" THEN "SENT" ELSE req[k]]
    /\ sent' = IF "DEVICE_TIME" \in Requests /\ req["DEVICE_TIME"] = "REQUESTED"
               THEN now' ELSE sent
    /\ Hears
    /\ UNCHANGED <<frame, cpt, nbTrans, todo, ans, sticky, current, dev, clock>>

\* The radio planner aborted the transmission: the update follows all the same.
Aborted ==
    /\ phase \in {"SEND", "WINDOWS"}
    /\ phase' = "PARSE"
    /\ UNCHANGED <<frame, cpt, nbTrans, req, todo, ans, sticky, current, dev, now, sent,
                   clock, net>>

-----------------------------------------------------------------------------
(* The downlinks. *)

\* The answer to a request tells its time: the end of the transmission heard.
AnswersTo(asks) == SetToSeq({[cid |-> k, ok |-> TRUE, val |-> now] : k \in asks})

\* Both windows end without a frame, or a valid one is decoded: it stops the
\* repetitions and the sticky answers.  The network answers the requests of a
\* frame it heard, be it the first transmission or a repetition.
RxEnd ==
    /\ phase = "WINDOWS"
    /\ phase' = "PARSE"
    /\ \/ UNCHANGED <<todo, sticky, current, cpt, net>>
       \/ /\ net.heard
          /\ \E list \in Commands : todo' = AnswersTo(frame.asks) \o list
          /\ sticky' = <<>> /\ current' = <<>> /\ cpt' = 1
          /\ net' = [net EXCEPT !.told = @ /\ todo' = <<>>]
    /\ UNCHANGED <<frame, nbTrans, req, ans, dev, now, sent, clock>>

\* The parsers of the sticky commands: the parameters change when the command
\* is accepted, and the answer is kept twice while there is room.
StickyCommand(c) == LET fits == Octets(sticky) + AnswerSize(c) <= MaxSticky IN
    /\ c.cid \in Sticky
    /\ dev' = IF c.ok THEN [dev EXCEPT ![c.cid] = c.val] ELSE dev
    /\ ans' = Append(ans, c)
    /\ sticky' = IF fits THEN Append(sticky, c) ELSE sticky
    /\ net' = [net EXCEPT !.gap = @ \/ (c.ok /\ ~fits)]
    /\ todo' = Tail(todo)
    /\ UNCHANGED <<nbTrans, req, clock>>

\* The other commands: only the number of transmissions matters here, which
\* LinkADRReq sets outside the mobile modes.
PlainCommand(c) ==
    /\ c.cid \in Plain
    /\ ans' = Append(ans, c)
    /\ \/ c.cid = "LINK_ADR" /\ c.ok /\ nbTrans' = Max({c.val, 1})
       \/ UNCHANGED nbTrans
    /\ todo' = Tail(todo)
    /\ UNCHANGED <<dev, sticky, req, clock, net>>

\* Mutant: an answer is taken whatever the state of its request.
Always(k) == TRUE

\* "if( lr1_mac->device_time_user_req == USER_MAC_REQ_SENT )"
Expected(k) == req[k] = "SENT"

\* The answer to a request.  When it is not expected its parser, which moves
\* nwk_payload_index, is not called: the loop finds it again.
RequestAnswer(c) ==
    /\ c.cid \in Requests
    /\ IF Expected(c.cid)
       THEN /\ req' = [req EXCEPT ![c.cid] = "ACKED"]
            /\ clock' = IF c.cid = "DEVICE_TIME" THEN [epoch |-> c.val, stamp |-> sent]
                        ELSE clock
            /\ todo' = Tail(todo)
       ELSE UNCHANGED <<req, clock, todo>>
    /\ UNCHANGED <<ans, dev, nbTrans, sticky, net>>

\* A pass of the loop of lr1_stack_mac_cmd_parse.
Parse ==
    /\ phase = "PARSE" /\ todo # <<>>
    /\ StickyCommand(Head(todo)) \/ PlainCommand(Head(todo)) \/ RequestAnswer(Head(todo))
    /\ UNCHANGED <<phase, frame, cpt, current, now, sent>>

\* "If those MAC commands are not acked, set as not requested".
Closed(s) == IF s = "SENT" THEN "NOT_REQUESTED" ELSE s

\* Mutant: the sticky answers are sent once.
NoRepetition == <<>>

\* What the next frames carry in FOpts.
Repeated == sticky

\* The end of the exchange (lr1_stack_mac_update, lr1mac_mac_update): new
\* answers are sent on port 0, else the frame is repeated, if a channel is free.
Update ==
    /\ phase = "PARSE" /\ todo = <<>>
    /\ req' = [k \in Requests |-> Closed(req[k])]
    /\ ans' = <<>>
    /\ IF ans # <<>> /\ Octets(ans) >= Octets(sticky)
       THEN /\ \/ /\ phase' = "SEND"
                  /\ \E max \in MaxPayloads : LET fits == Octets(ans) <= max IN
                       Build({}, IF fits THEN ans ELSE Cut(ans, max - Header), ~fits)
               \/ /\ phase' = "IDLE"      \* no channel: the frame is dropped
                  /\ net' = [net EXCEPT !.gap = TRUE] /\ UNCHANGED frame
            /\ cpt' = nbTrans
            /\ UNCHANGED current
       ELSE /\ current' = Repeated
            /\ cpt' = Max({cpt - 1, 1})
            /\ phase' \in IF cpt <= 1 THEN {"IDLE"} ELSE {"SEND", "IDLE"}
            /\ UNCHANGED <<frame, net>>
    /\ UNCHANGED <<nbTrans, todo, sticky, dev, now, sent, clock>>

Next ==
    \/ \E k \in Requests : Ask(k)
    \/ UserFrame \/ TxDone \/ Aborted \/ RxEnd \/ Parse \/ Update

Spec == Init /\ [][Next]_vars

\* The parser runs in the main thread, without waiting for anything.
FairSpec == Spec /\ WF_vars(Parse) /\ WF_vars(Update)

-----------------------------------------------------------------------------

\* The time the device computes from a DeviceTimeAns is the network's: the
\* answer is paired with the transmission it is an answer to, although the
\* frame is repeated, requests are refused and answers are lost.
NetworkTimeRight == clock.epoch = clock.stamp

\* The network and the device agree on the parameters the network has set once
\* it heard any frame since, the first answer or a later one, whichever frames
\* were lost; unless answers were left out: the first answer found no channel or
\* was cut to the payload, a frame was built while a refused request was pending,
\* or there was no room to keep an answer for its repetition.
ParametersAgreed == net.told /\ ~net.gap => net.view = dev

\* Each pass of the parser's loop takes a command ("MacNwkPayloadSize and
\* lr1_mac->nwk_payload[0] are updated in Parser's method"), so it ends.
ParserEnds == (phase = "PARSE") ~> (phase # "PARSE")
=============================================================================

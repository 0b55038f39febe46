----------------------------- MODULE Supervisor -----------------------------
(***************************************************************************)
(* The modem's supervisor (modem_supervisor.c): the tasks of the services    *)
(* (modem_context.c), the engine that elects, launches and updates them, the *)
(* user's commands that create them (smtc_modem.c) and the device management *)
(* downlinks that do (dm_downlink.c).                                        *)
(*                                                                         *)
(* The main thread runs the engine and, called back by it, the application;  *)
(* a class C downlink is handled on the work queue between any two of its    *)
(* steps.  Dates are relative to now.  The MAC is seen through its promises  *)
(* (see Lr1Mac): an exchange is accepted or refused, and ends.               *)
(***************************************************************************)
EXTENDS Integers, Sequences, FiniteSets, FiniteSetsExt

CONSTANTS
    Uses,     \* the sets of features an application may turn on
    Later,    \* bound: the longest delay, in ticks; 1 is a short one
    Parts     \* bound: the fragments of a file or of a stream

ASSUME SupervisorAssumption ==
    /\ Later \in Nat \ {0, 1} /\ Parts \in Nat \ {0}
    /\ Uses \subseteq SUBSET {"UPLINK", "EXTENDED", "DM", "FILE", "STREAM", "CLOCK",
                              "REQUEST", "MUTE", "SUSPEND", "ALARM", "CLASS_C"}

\* task_id_t in its order.
Tasks == {"SEND", "JOIN", "DM", "DM_NOW", "FILE_UPLOAD", "MUTE", "RETRIEVE_DL", "STREAM",
          "CLOCK_SYNC_TIME_REQ", "ALC_SYNC_ANS", "REQUEST", "SEND_EXTENDED"}
Id == [t \in Tasks |->
         CASE t = "SEND" -> 0 [] t = "JOIN" -> 1 [] t = "DM" -> 2 [] t = "DM_NOW" -> 3
           [] t = "FILE_UPLOAD" -> 4 [] t = "MUTE" -> 6 [] t = "RETRIEVE_DL" -> 7
           [] t = "STREAM" -> 8 [] t = "CLOCK_SYNC_TIME_REQ" -> 9 [] t = "ALC_SYNC_ANS" -> 10
           [] t = "REQUEST" -> 15 [] t = "SEND_EXTENDED" -> 18]
Idle == "IDLE"

VARIABLES
    tasks,      \* time_to_execute_s of each task, or Off: TASK_FINISH
    urgent,     \* the SEND task has TASK_VERY_HIGH_PRIORITY
    elected,    \* next_task_id
    main,       \* the main thread: its place, the task it launches, its sleep
    mac,        \* lr1mac_state and what is being sent
    joined,     \* join_status is JOINED
    joining,    \* the JOINING bit of the modem's status
    announced,  \* the JOINED bit of the modem's status
    sendOk,     \* send_task_update_needed
    suspended,  \* is_modem_suspend
    days,       \* number_of_muted_day
    upCount,    \* dm_pending_dl.up_count
    dm,         \* the reports of the device management
    file,       \* the file upload: its state, the fragments left
    stream,     \* the stream: its state, the fragments left
    clock,      \* the clock synchronisation is enabled
    duty,       \* smtc_duty_cycle_enable
    wait,       \* ticks until the band is free
    alarm,      \* the user's alarm, or Off
    events,     \* the types of the pending events
    uses        \* what the application has turned on, once and for all

sched == <<tasks, urgent, elected>>
link == <<mac, joined, joining, announced>>
limits == <<suspended, days, duty, wait>>
services == <<dm, file, stream, clock>>
vars == <<sched, main, link, sendOk, limits, upCount, services, alarm, events, uses>>

Off == Later + 1
Infinite == Later + 2     \* MODEM_INFINITE_MUTE
Soon == 1

Live(t) == tasks[t] # Off
At(pc) == main.pc = pc
Goto(pc) == main' = [main EXCEPT !.pc = pc]
\* smtc_modem_run_engine returns how long the main thread may sleep.
Return(time) == main' = [pc |-> "sleep", id |-> Idle, sleep |-> Min({time, alarm})]
Raise(event) == events' = events \cup {event}

Temporary(d) == d \in 1 .. Later
JoinState == IF joining THEN "ONGOING" ELSE IF joined THEN "JOINED" ELSE "NOT_JOINED"
Connected == days = 0 /\ ~suspended /\ JoinState = "JOINED"

\* modem_supervisor_add_task, and the tasks that are only added once joined.
With(ts, t, delay) == [ts EXCEPT ![t] = delay]
WithJoined(ts, t, delay) == IF JoinState = "JOINED" THEN With(ts, t, delay) ELSE ts
Without(ts, gone) == [t \in Tasks |-> IF t \in gone THEN Off ELSE ts[t]]

Init ==
    /\ uses \in Uses
    /\ tasks = [t \in Tasks |-> Off] /\ urgent = FALSE /\ elected = Idle
    /\ main = [pc |-> "sleep", id |-> Idle, sleep |-> 0]
    /\ mac = [state |-> "IDLE", job |-> "DATA"]
    /\ joined = FALSE /\ joining = FALSE /\ announced = FALSE /\ sendOk = FALSE
    /\ suspended = FALSE /\ days = 0 /\ upCount = 0 /\ wait = 0 /\ duty = "ENABLED"
    /\ dm = [on |-> "DM" \in uses, first |-> TRUE, more |-> TRUE, moreNow |-> FALSE]
    /\ file = [state |-> "NOT_INIT", left |-> 0]
    /\ stream = [init |-> FALSE, left |-> 0]
    /\ clock = FALSE /\ alarm = Off /\ events = {"RESET"}

-----------------------------------------------------------------------------
(* Leaving and joining. *)

\* lr1mac_core_abort: the task in the planner is aborted; a frame the MAC has not
\* given it yet stays, and so does what was received and is not processed yet.
MacAbort ==
    IF mac.state = "AIR" THEN mac' \in {mac, [mac EXCEPT !.state = "ABORTED"]}
    ELSE mac' = mac

\* modem_leave.
Leave ==
    /\ announced' = FALSE /\ joined' = FALSE
    /\ file' = [file EXCEPT !.state = "NOT_INIT"]
    /\ stream' = [stream EXCEPT !.init = FALSE]
    /\ elected' = Idle

LeaveNetwork == Leave /\ joining' = FALSE /\ tasks' = [t \in Tasks |-> Off]

\* dm_downlink's DM_REJOIN: modem_leave, then modem_supervisor_add_task_join.
Rejoin ==
    /\ Leave /\ joining' = TRUE
    /\ \E delay \in 0 .. Soon : tasks' = With([t \in Tasks |-> Off], "JOIN", delay)

-----------------------------------------------------------------------------
(* The downlinks of the device management, on the main thread at the end of   *)
(* an exchange or on the work queue.                                          *)

\* set_dm_retrieve_pending_dl and, if joined, the task that retrieves them.
Opportunity(ts, count) ==
    /\ upCount' = count
    /\ tasks' = IF count > 0 THEN WithJoined(ts, "RETRIEVE_DL", Soon) ELSE ts

\* modem_supervisor_update_downlink_frame's ack_requested.
AckRequested ==
    /\ Opportunity(tasks, Max({upCount, 1}))
    /\ UNCHANGED <<urgent, elected, joined, joining, announced, suspended, days, services, events>>

GetInfo ==
    /\ "DM" \in uses
    /\ dm' = [dm EXCEPT !.moreNow = TRUE]
    /\ \E count \in 0 .. 1 : Opportunity(With(tasks, "DM_NOW", Soon), count)
    /\ UNCHANGED <<urgent, elected, joined, joining, announced, suspended, days, file, stream,
                   clock, events>>

FileDone ==
    /\ file.state = "ON_GOING"
    /\ Raise("UPLOADDONE") /\ file' = [file EXCEPT !.state = "FINISHED"]
    /\ \E count \in 0 .. 1 : Opportunity(Without(tasks, {"FILE_UPLOAD"}), count)
    /\ UNCHANGED <<urgent, elected, joined, joining, announced, suspended, days, dm, stream, clock>>

Mute ==
    /\ "MUTE" \in uses
    /\ \E d \in {0, 1, Infinite}, count \in 0 .. 1 :
          /\ days' = d
          /\ Opportunity(IF Temporary(d) THEN With(tasks, "MUTE", Later) ELSE tasks, count)
    /\ Raise("MUTE")
    /\ UNCHANGED <<urgent, elected, joined, joining, announced, suspended, services>>

\* Mutant: an answer stops the synchronisation.
TimeAnswerStops ==
    /\ clock
    /\ Raise("TIME")
    /\ \E count \in 0 .. 1 :
          Opportunity(Without(tasks, {"CLOCK_SYNC_TIME_REQ", "ALC_SYNC_ANS"}), count)
    /\ UNCHANGED <<urgent, elected, joined, joining, announced, suspended, days, services>>

\* DM_ALC_SYNC with the time, and maybe with a request to answer.
TimeAnswer ==
    /\ "CLOCK" \in uses
    /\ Raise("TIME")
    /\ \E count \in 0 .. 1, answer \in {Off, Soon} :
          LET rest == Without(tasks, {"CLOCK_SYNC_TIME_REQ", "ALC_SYNC_ANS"})
              next == IF clock THEN With(rest, "CLOCK_SYNC_TIME_REQ", Later) ELSE rest
          IN Opportunity(WithJoined(next, "ALC_SYNC_ANS", answer), count)
    /\ UNCHANGED <<urgent, elected, joined, joining, announced, suspended, days, services>>

\* DM_SET_CONF of the reports' interval.
SetConf ==
    /\ "DM" \in uses
    /\ \E on \in BOOLEAN, count \in 0 .. 1 :
          /\ dm' = [dm EXCEPT !.on = on]
          /\ Opportunity(WithJoined(tasks, "DM", IF on THEN Later ELSE 0), count)
    /\ Raise("SETCONF")
    /\ UNCHANGED <<urgent, elected, joined, joining, announced, suspended, days, file, stream, clock>>

\* The downlinks that leave mac alone.
Command == AckRequested \/ GetInfo \/ FileDone \/ Mute \/ TimeAnswer \/ SetConf

\* DM_REJOIN, whose caller sees to the MAC; a device that is joining adds no other
\* task.
RejoinCommand ==
    /\ "MUTE" \in uses /\ Rejoin
    /\ upCount' \in 0 .. 1
    /\ UNCHANGED <<urgent, suspended, days, dm, clock, events>>

-----------------------------------------------------------------------------
(* The user's commands, from the application's callback. *)

Calling == At("call") \/ At("alarmCall")

JoinNetwork ==
    /\ JoinState = "NOT_JOINED" /\ days # Infinite /\ ~suspended
    /\ joining' = TRUE
    /\ \E delay \in 0 .. Soon : tasks' = With(tasks, "JOIN", delay)
    /\ UNCHANGED <<urgent, elected, mac, joined, announced, sendOk, limits, upCount, services, alarm>>

LeaveCommand ==
    /\ LeaveNetwork /\ MacAbort
    /\ UNCHANGED <<urgent, sendOk, limits, upCount, dm, clock, alarm>>

\* smtc_modem_send_tx and smtc_modem_send_empty_tx, for the modem's buffer.
RequestUplink ==
    /\ "UPLINK" \in uses /\ Connected
    /\ tasks' = With(tasks, "SEND", 0)
    /\ \/ urgent' = FALSE /\ duty' = duty
       \/ urgent' = TRUE /\ duty' = "PARTIAL_DISABLED"
    /\ UNCHANGED <<elected, link, sendOk, suspended, days, wait, upCount, services, alarm>>

RequestExtended ==
    /\ "EXTENDED" \in uses /\ Connected
    /\ tasks' \in {With(tasks, "SEND_EXTENDED", 0), Without(tasks, {"SEND_EXTENDED"})}
    /\ UNCHANGED <<urgent, elected, link, sendOk, limits, upCount, services, alarm>>

RequestCid ==
    /\ "REQUEST" \in uses /\ Connected
    /\ tasks' = With(tasks, "REQUEST", 0)
    /\ UNCHANGED <<urgent, elected, link, sendOk, limits, upCount, services, alarm>>

Suspend ==
    /\ "SUSPEND" \in uses
    /\ suspended' \in BOOLEAN
    /\ UNCHANGED <<sched, link, sendOk, days, duty, wait, upCount, services, alarm>>

SetAlarm ==
    /\ "ALARM" \in uses
    /\ alarm' \in {Soon, Off}
    /\ UNCHANGED <<sched, link, sendOk, limits, upCount, services>>

FileInit ==
    /\ "FILE" \in uses /\ file.state \in {"NOT_INIT", "FINISHED"}
    /\ file' = [state |-> "FILLED", left |-> Parts]
    /\ UNCHANGED <<sched, link, sendOk, limits, upCount, dm, stream, clock, alarm>>

FileStart ==
    /\ Connected /\ file.state = "FILLED"
    /\ \E delay \in 0 .. Soon : tasks' = With(tasks, "FILE_UPLOAD", delay)
    /\ file' = [file EXCEPT !.state = "ON_GOING"]
    /\ UNCHANGED <<urgent, elected, link, sendOk, limits, upCount, dm, stream, clock, alarm>>

\* The FILE_UPLOAD task stays.
FileReset ==
    /\ file.state \in {"FILLED", "ON_GOING"}
    /\ file' = [file EXCEPT !.state = "NOT_INIT"]
    /\ UNCHANGED <<sched, link, sendOk, limits, upCount, dm, stream, clock, alarm>>

StreamInit ==
    /\ "STREAM" \in uses
    /\ stream' = [init |-> TRUE, left |-> 0]
    /\ tasks' = Without(tasks, {"STREAM"})
    /\ UNCHANGED <<urgent, elected, link, sendOk, limits, upCount, dm, file, clock, alarm>>

\* stream_add_data; without a stream it starts one.
StreamAdd ==
    /\ "STREAM" \in uses /\ Connected
    /\ stream' = [init |-> TRUE, left |-> Parts]
    /\ tasks' = With(tasks, "STREAM", Soon)
    /\ UNCHANGED <<urgent, elected, link, sendOk, limits, upCount, dm, file, clock, alarm>>

SetInterval ==
    /\ "DM" \in uses
    /\ \E on \in BOOLEAN :
          /\ dm' = [dm EXCEPT !.on = on]
          /\ tasks' = WithJoined(tasks, "DM", IF on THEN Later ELSE 0)
    /\ UNCHANGED <<urgent, elected, link, sendOk, limits, upCount, file, stream, clock, alarm>>

RequestSingleUplink ==
    /\ "DM" \in uses /\ Connected
    /\ tasks' = With(tasks, "DM_NOW", Soon)
    /\ UNCHANGED <<urgent, elected, link, sendOk, limits, upCount, services, alarm>>

StartSync ==
    /\ "CLOCK" \in uses /\ ~clock
    /\ clock' = TRUE
    /\ tasks' = IF Live("CLOCK_SYNC_TIME_REQ") THEN tasks
                ELSE WithJoined(tasks, "CLOCK_SYNC_TIME_REQ", Soon)
    /\ UNCHANGED <<urgent, elected, link, sendOk, limits, upCount, dm, file, stream, alarm>>

StopSync ==
    /\ clock /\ clock' = FALSE
    /\ tasks' = Without(tasks, {"CLOCK_SYNC_TIME_REQ", "ALC_SYNC_ANS"})
    /\ UNCHANGED <<urgent, elected, link, sendOk, limits, upCount, dm, file, stream, alarm>>

TriggerSync ==
    /\ clock /\ Connected
    /\ tasks' = With(tasks, "CLOCK_SYNC_TIME_REQ", Soon)
    /\ UNCHANGED <<urgent, elected, link, sendOk, limits, upCount, services, alarm>>

UserCommand ==
    /\ Calling
    /\ \/ JoinNetwork \/ LeaveCommand \/ RequestUplink \/ RequestExtended \/ RequestCid
       \/ Suspend \/ SetAlarm \/ FileInit \/ FileStart \/ FileReset \/ StreamInit \/ StreamAdd
       \/ SetInterval \/ RequestSingleUplink \/ StartSync \/ StopSync \/ TriggerSync
    /\ UNCHANGED <<main, events, uses>>

\* The application has drained the events and returns.
CallReturns ==
    /\ Calling
    /\ events' = {}
    /\ Goto(IF At("call") THEN "schedule" ELSE "stack")
    /\ UNCHANGED <<sched, link, sendOk, limits, upCount, services, alarm, uses>>

-----------------------------------------------------------------------------
(* modem_supervisor_engine. *)

\* smtc_modem_run_engine, up to the alarm: it is reported even if the MAC is busy.
EngineStart ==
    /\ At("sleep") /\ main.sleep = 0
    /\ IF alarm = 0 THEN Raise("ALARM") /\ alarm' = Off /\ Goto("alarmCall")
       ELSE Goto("stack") /\ UNCHANGED <<events, alarm>>
    /\ UNCHANGED <<sched, link, sendOk, limits, upCount, services, uses>>

\* lorawan_api_process while an exchange is prepared, in the air or aborted; what
\* it receives may be a command of the device management.
MacStarts ==
    /\ mac.state = "SEND"
    /\ mac' \in {[mac EXCEPT !.state = s] : s \in {"AIR", "IDLE"}}
    /\ UNCHANGED <<sched, joined, joining, announced, limits, upCount, services, events>>

MacEnds ==
    /\ mac.state \in {"AIR", "ABORTED"}
    /\ mac' = [mac EXCEPT !.state = "IDLE"]
    /\ wait' \in {wait, Soon} /\ UNCHANGED <<suspended, days, duty>>
    /\ joined' \in (IF mac = [state |-> "AIR", job |-> "JOIN"] THEN {joined, TRUE} ELSE {joined})
    /\ UNCHANGED <<sched, joining, announced, upCount, services, events>>

MacReceives ==
    /\ mac = [state |-> "AIR", job |-> "DATA"]
    /\ wait' \in {wait, Soon} /\ UNCHANGED duty
    /\ mac' = [mac EXCEPT !.state = "IDLE"]
    /\ Command \/ RejoinCommand

Process ==
    /\ At("stack") /\ mac.state # "IDLE"
    /\ \/ MacStarts \/ MacEnds \/ MacReceives
       \/ mac.state = "AIR" /\ UNCHANGED <<sched, link, limits, upCount, services, events>>
    /\ Return(0)
    /\ UNCHANGED <<sendOk, alarm, uses>>

\* check_class_b_to_generate_event is left out, as is backoff_mobile_static: they
\* raise events of their own.
StackIdle ==
    /\ At("stack") /\ mac.state = "IDLE"
    /\ Goto("update")
    /\ UNCHANGED <<sched, link, sendOk, limits, upCount, services, alarm, events, uses>>

(* modem_supervisor_update_task: what the elected task has become. *)

\* Mutant: a join that failed is not tried again.
JoinOnce(delay) == Off

JoinAgain(delay) == delay

\* A join that succeeded starts the services; one that failed is tried again.
UpdateJoin ==
    /\ elected = "JOIN"
    /\ IF joining /\ joined
         THEN /\ joining' = FALSE /\ announced' = TRUE /\ UNCHANGED joined
              /\ dm' = [dm EXCEPT !.first = TRUE, !.more = TRUE]
              /\ tasks' = [tasks EXCEPT !["DM"] = 0,
                             !["CLOCK_SYNC_TIME_REQ"] = IF clock THEN Soon ELSE @]
              /\ Raise("JOINED")
         ELSE IF joining
         THEN /\ \E delay \in 0 .. Soon : tasks' = With(tasks, "JOIN", JoinAgain(delay))
              /\ Raise("JOINFAIL")
              /\ UNCHANGED <<joined, joining, announced, dm>>
         ELSE joined' = FALSE /\ UNCHANGED <<tasks, joining, announced, dm, events>>
    /\ UNCHANGED <<mac, duty, upCount, file, stream>>

\* Mutant: the duty cycle stays as the emergency left it.
KeepDuty == duty

RestoredDuty == "ENABLED"

\* Mutant: only a frame the MAC has accepted is reported.
ReportedIfSent == sendOk

\* A frame the MAC refused is reported too, as not sent.
ReportsSend == TRUE

\* send_task_update.
UpdateSend ==
    /\ elected = "SEND"
    /\ duty' = RestoredDuty
    /\ IF ReportsSend THEN Raise("TXDONE") ELSE UNCHANGED events
    /\ UNCHANGED <<tasks, link, upCount, dm, file, stream>>

UpdateDm ==
    /\ elected = "DM"
    /\ tasks' = IF dm.on THEN WithJoined(tasks, "DM", IF dm.first THEN Soon ELSE Later) ELSE tasks
    /\ UNCHANGED <<link, duty, upCount, dm, file, stream, events>>

UpdateDmNow ==
    /\ elected = "DM_NOW"
    /\ tasks' = IF dm.moreNow THEN With(tasks, "DM_NOW", Soon) ELSE tasks
    /\ UNCHANGED <<link, duty, upCount, dm, file, stream, events>>

UpdateFile ==
    /\ elected = "FILE_UPLOAD"
    /\ IF file.state # "ON_GOING" THEN UNCHANGED <<tasks, file, events>>
       ELSE IF file.left > 0 THEN tasks' = With(tasks, "FILE_UPLOAD", Soon) /\ UNCHANGED <<file, events>>
       ELSE Raise("UPLOADDONE") /\ file' = [file EXCEPT !.state = "FINISHED"] /\ UNCHANGED tasks
    /\ UNCHANGED <<link, duty, upCount, dm, stream>>

UpdateStream ==
    /\ elected = "STREAM"
    /\ IF stream.left > 0 THEN tasks' = With(tasks, "STREAM", Soon) /\ UNCHANGED events
       ELSE Raise("STREAMDONE") /\ UNCHANGED tasks
    /\ UNCHANGED <<link, duty, upCount, dm, file, stream>>

UpdateMute ==
    /\ elected = "MUTE"
    /\ tasks' = IF Temporary(days) THEN With(tasks, "MUTE", Later) ELSE tasks
    /\ UNCHANGED <<link, duty, upCount, dm, file, stream, events>>

UpdateRetrieve ==
    /\ elected = "RETRIEVE_DL"
    /\ tasks' = IF upCount > 0 THEN WithJoined(tasks, "RETRIEVE_DL", Soon) ELSE tasks
    /\ UNCHANGED <<link, duty, upCount, dm, file, stream, events>>

\* clock_sync_callback asks again after a while; an application layer request that
\* is not answered yet makes an opportunity for the answer.
UpdateClock ==
    /\ elected = "CLOCK_SYNC_TIME_REQ"
    /\ \E delay \in {Soon, Later}, unanswered \in BOOLEAN :
          LET next == IF clock THEN With(tasks, elected, delay) ELSE tasks
          IN IF unanswered /\ upCount = 0 THEN Opportunity(next, 1)
             ELSE tasks' = next /\ UNCHANGED upCount
    /\ Raise("TIME")
    /\ UNCHANGED <<link, duty, dm, file, stream>>

UpdateAlc ==
    /\ elected = "ALC_SYNC_ANS"
    /\ tasks' \in {tasks, WithJoined(tasks, elected, Later)}
    /\ UNCHANGED <<link, duty, upCount, dm, file, stream, events>>

UpdateRequest ==
    /\ elected = "REQUEST"
    /\ Raise("LINK_CHECK")
    /\ UNCHANGED <<tasks, link, duty, upCount, dm, file, stream>>

\* An extended uplink calls the middleware back; no task is elected at all.
UpdateOther ==
    /\ elected \in {"SEND_EXTENDED", Idle}
    /\ UNCHANGED <<tasks, link, duty, upCount, dm, file, stream, events>>

Update ==
    /\ At("update")
    /\ \/ UpdateJoin \/ UpdateSend \/ UpdateDm \/ UpdateDmNow \/ UpdateFile \/ UpdateStream
       \/ UpdateMute \/ UpdateRetrieve \/ UpdateClock \/ UpdateAlc \/ UpdateRequest \/ UpdateOther
    /\ elected' = Idle
    /\ Goto("events")
    /\ UNCHANGED <<urgent, sendOk, suspended, days, wait, clock, alarm, uses>>

\* The application is called back while events are pending.
Events ==
    /\ At("events")
    /\ Goto(IF events = {} THEN "schedule" ELSE "call")
    /\ UNCHANGED <<sched, link, sendOk, limits, upCount, services, alarm, events, uses>>

-----------------------------------------------------------------------------
(* modem_supervisor_scheduler and modem_supervisor_launch_task. *)

Waits == wait > 0 /\ duty = "ENABLED"
Halted == suspended \/ days = Infinite

\* eTask_priority, the smallest first.
Priority(t) ==
    CASE t = "SEND" -> IF urgent THEN 0 ELSE 1
      [] t = "MUTE" -> 2
      [] t \in {"DM", "DM_NOW", "RETRIEVE_DL"} -> 3
      [] OTHER -> 1

Due == {t \in Tasks : tasks[t] = 0}

\* The best priority first, then the order of the task ids.
Precedes(t, u) ==
    \/ Priority(t) < Priority(u)
    \/ Priority(t) = Priority(u) /\ Id[t] < Id[u]

\* Mutant: the main thread sleeps until the last task.
Latest == Max({tasks[t] : t \in Tasks})

Soonest == Min({tasks[t] : t \in Tasks})

Sleep ==
    /\ At("schedule")
    /\ \/ Waits /\ Return(wait)
       \/ ~Waits /\ Halted /\ Return(Off)
       \/ ~Waits /\ ~Halted /\ Due = {} /\ Return(Soonest)
    /\ UNCHANGED <<sched, link, sendOk, limits, upCount, services, alarm, events, uses>>

Elect ==
    /\ At("schedule") /\ ~Waits /\ ~Halted
    /\ \E t \in Due :
          /\ \A u \in Due \ {t} : Precedes(t, u)
          /\ elected' = t
          /\ main' = [main EXCEPT !.pc = "launch", !.id = t]
    /\ UNCHANGED <<tasks, urgent, link, sendOk, limits, upCount, services, alarm, events, uses>>

\* lorawan_api_payload_send: refused by the size, the channels or the band, or
\* accepted, which counts as an opportunity for a downlink.
Send(ok) ==
    /\ ok => joined
    /\ mac' = IF ok THEN [state |-> "SEND", job |-> "DATA"] ELSE mac
    /\ upCount' = IF ok /\ upCount > 0 THEN upCount - 1 ELSE upCount
    /\ UNCHANGED <<joined, joining, announced>>
SendNothing == UNCHANGED <<link, upCount>>

\* lorawan_api_join; whatever becomes of it, join_status is JOINING.
LaunchJoin ==
    /\ main.id = "JOIN"
    /\ IF joining
         THEN /\ joined' = FALSE
              /\ mac' \in {mac, [state |-> "SEND", job |-> "JOIN"]}
              /\ UNCHANGED elected
         ELSE UNCHANGED <<joined, mac>> /\ elected' = IF joined THEN Idle ELSE elected
    /\ UNCHANGED <<joining, announced, upCount, sendOk, days, services>>

LaunchSend ==
    /\ main.id \in {"SEND", "SEND_EXTENDED"}
    /\ \E ok \in BOOLEAN : Send(ok) /\ sendOk' = ok
    /\ UNCHANGED <<elected, days, services>>

\* The first report after a join is complete once a payload held the whole of it.
LaunchDm ==
    /\ main.id = "DM"
    /\ IF JoinState # "JOINED" \/ ~dm.on THEN SendNothing /\ UNCHANGED dm
       ELSE \E ok, more \in BOOLEAN :
              /\ Send(ok)
              /\ dm' = [dm EXCEPT !.more = more,
                                  !.first = @ /\ ~(dm.more /\ ok /\ ~more)]
    /\ UNCHANGED <<elected, sendOk, days, file, stream, clock>>

LaunchDmNow ==
    /\ main.id = "DM_NOW"
    /\ IF JoinState # "JOINED" THEN SendNothing /\ UNCHANGED dm
       ELSE \E ok, more \in BOOLEAN : Send(ok) /\ dm' = [dm EXCEPT !.moreNow = more]
    /\ UNCHANGED <<elected, sendOk, days, file, stream, clock>>

\* A fragment is consumed even if the MAC refuses it; none may fit.
LaunchFile ==
    /\ main.id = "FILE_UPLOAD"
    /\ IF JoinState # "JOINED" \/ file.state # "ON_GOING" THEN SendNothing /\ UNCHANGED file
       ELSE /\ \E ok \in BOOLEAN : Send(ok)
            /\ file' \in {file, [file EXCEPT !.left = Max({@ - 1, 0})]}
    /\ UNCHANGED <<elected, sendOk, days, dm, stream, clock>>

LaunchStream ==
    /\ main.id = "STREAM"
    /\ IF JoinState # "JOINED" \/ ~stream.init \/ stream.left = 0
         THEN SendNothing /\ UNCHANGED stream
         ELSE (\E ok \in BOOLEAN : Send(ok)) /\ stream' = [stream EXCEPT !.left = @ - 1]
    /\ UNCHANGED <<elected, sendOk, days, dm, file, clock>>

OneDayLess == IF Temporary(days) THEN days - 1 ELSE days

LaunchMute ==
    /\ main.id = "MUTE"
    /\ days' = OneDayLess
    /\ SendNothing
    /\ UNCHANGED <<elected, sendOk, services>>

LaunchRetrieve ==
    /\ main.id = "RETRIEVE_DL"
    /\ IF upCount > 0 THEN \E ok \in BOOLEAN : Send(ok) ELSE SendNothing
    /\ UNCHANGED <<elected, sendOk, days, services>>

\* Requests to the network and to the time server; lorawan_api_send_stack_cid_req
\* does not count as an opportunity.
LaunchRequest ==
    /\ main.id \in {"CLOCK_SYNC_TIME_REQ", "ALC_SYNC_ANS", "REQUEST"}
    /\ mac' \in {mac} \cup (IF joined THEN {[state |-> "SEND", job |-> "DATA"]} ELSE {})
    /\ UNCHANGED <<elected, joined, joining, announced, upCount, sendOk, days, services>>

Launch ==
    /\ At("launch")
    /\ \/ LaunchJoin \/ LaunchSend \/ LaunchDm \/ LaunchDmNow \/ LaunchFile \/ LaunchStream
       \/ LaunchMute \/ LaunchRetrieve \/ LaunchRequest
    /\ Goto("remove")
    /\ UNCHANGED <<tasks, urgent, suspended, duty, wait, alarm, events, uses>>

\* The launched task is removed, whatever was added under its id meanwhile.
Remove ==
    /\ At("remove")
    /\ tasks' = Without(tasks, {main.id})
    /\ Return(0)
    /\ UNCHANGED <<urgent, elected, link, sendOk, limits, upCount, services, alarm, events, uses>>

-----------------------------------------------------------------------------
(* The work queue, and time. *)

Subtract(date) == IF date \in 1 .. Later THEN date - 1 ELSE date

\* A class C downlink for the device management.
WorkCommand ==
    /\ "CLASS_C" \in uses /\ announced
    /\ \/ Command /\ UNCHANGED mac
       \/ RejoinCommand /\ MacAbort
    /\ UNCHANGED <<main, sendOk, duty, wait, alarm, uses>>

\* A tick passes while the main thread sleeps, or between two calls of a busy MAC.
Tick ==
    /\ At("sleep")
    /\ main.sleep > 0 \/ mac.state # "IDLE"
    /\ main' = [main EXCEPT !.sleep = Subtract(@)]
    /\ tasks' = [t \in Tasks |-> Subtract(tasks[t])]
    /\ wait' = Subtract(wait) /\ alarm' = Subtract(alarm)
    /\ UNCHANGED <<urgent, elected, link, sendOk, suspended, days, duty, upCount, services,
                   events, uses>>

Engine == EngineStart \/ Process \/ StackIdle \/ Update \/ Events \/ Sleep \/ Elect
          \/ Launch \/ Remove
Next == Engine \/ UserCommand \/ CallReturns \/ WorkCommand \/ Tick

Spec == Init /\ [][Next]_vars

-----------------------------------------------------------------------------
(* Properties. *)

\* The task of a service is pending, or was launched and waits for its update.
Kept(t) == Live(t) \/ elected = t

\* A service that is turned on keeps its task, whatever the order of the user's
\* commands, the downlinks and the ends of exchanges; without it the service would
\* stop for good, and nothing would tell the user.  A device that joined through
\* an accept nobody waited for (see LeaveCancels) has no services at all.
ServicesKept ==
    /\ joining => Kept("JOIN")
    /\ announced => /\ file.state = "ON_GOING" => Kept("FILE_UPLOAD")
                    /\ stream.init /\ stream.left > 0 => Kept("STREAM")
                    /\ clock => Kept("CLOCK_SYNC_TIME_REQ")
                    /\ dm.on => Kept("DM")

\* "task managed by the modem to un-mute the modem" (modem_supervisor.h:96): a modem
\* muted for days keeps the task that counts them.
MuteCounted == Temporary(days) => Kept("MUTE")

\* "Re-enable the duty cycle in case of Emergency Tx was sent": until then the
\* emergency, or the uplink that replaced it, is still to be sent.
DutyRestored == duty # "ENABLED" => Kept("SEND")

\* modem_leave and the rejoin of the device management clear every task.
Left == ~announced' /\ elected' = Idle /\ \A t \in Tasks \ {"JOIN"} : tasks'[t] = Off

\* What the modem owes, the end of a mute and the duty cycle after an emergency, is
\* lost by no step but a leave, which clears the tasks that owe it (the code keeps
\* days and duty through it, so a left modem stays muted, or off the duty cycle).
DebtsKept == [][MuteCounted /\ DutyRestored /\ ~Left => (MuteCounted /\ DutyRestored)']_vars

\* "Leave an already joined network or cancels on ongoing join process"
\* (smtc_modem_api.h:1345): the device joins only while a join is asked for.
LeaveCancels == [][~joined /\ joined' => joining]_vars

\* Nothing is overslept: while the main thread sleeps and the modem may send, it is
\* woken no later than the first task, but for those the work queue has added.
NothingOverslept ==
    At("sleep") /\ ~Waits /\ ~Halted /\ "CLASS_C" \notin uses =>
        \A t \in Tasks : Live(t) => main.sleep <= tasks[t]

\* The application runs the engine again when its sleep is over and its callback
\* returns, time passes, and an exchange of the MAC ends (MacReturnsIdle in Lr1Mac)
\* provided the engine keeps calling it.
Fairness ==
    /\ WF_vars(Engine) /\ WF_vars(CallReturns) /\ WF_vars(Tick)
    /\ SF_vars(Process /\ mac'.state # mac.state)

FairSpec == Spec /\ Fairness

\* Liveness: an uplink that was accepted is reported by TXDONE, whatever the other
\* tasks, unless the device leaves, is suspended or is muted for good.
UplinkReported == Live("SEND") ~> "TXDONE" \in events \/ ~announced \/ Halted

\* Liveness: a join that was asked for is answered by JOINED or JOINFAIL, unless it is
\* cancelled or the modem may not send.  Class C is excepted: a rejoin that the work
\* queue adds while the main thread sleeps for ever does not wake it.
JoinAnswered ==
    joining /\ "CLASS_C" \notin uses
        ~> events \cap {"JOINED", "JOINFAIL"} # {} \/ ~joining \/ Halted

=============================================================================

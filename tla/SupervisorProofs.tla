--------------------------- MODULE SupervisorProofs ---------------------------
(* The supervisor, for every set of features an application may turn on, every *)
(* delay and every number of fragments: no service loses its task, no debt is  *)
(* forgotten and nothing is overslept.                                         *)
EXTENDS Supervisor, WellFoundedInduction, TLAPS

Places == {"sleep", "alarmCall", "stack", "update", "events", "call", "schedule", "launch",
           "remove"}
MainRecord == [pc : Places, id : Tasks \cup {Idle}, sleep : 0 .. Off]
MacRecord == [state : {"IDLE", "SEND", "AIR", "ABORTED"}, job : {"DATA", "JOIN"}]

Table == [Tasks -> 0 .. Off]

\* What the commands and the tasks work on.
ServiceTypes ==
    /\ tasks \in Table /\ elected \in Tasks \cup {Idle} /\ urgent \in BOOLEAN
    /\ joined \in BOOLEAN /\ joining \in BOOLEAN /\ announced \in BOOLEAN
    /\ suspended \in BOOLEAN /\ days \in 0 .. Later \cup {Infinite} /\ upCount \in Nat
    /\ dm \in [on : BOOLEAN, first : BOOLEAN, more : BOOLEAN, moreNow : BOOLEAN]
    /\ file \in [state : {"NOT_INIT", "FILLED", "ON_GOING", "FINISHED"}, left : Nat]
    /\ stream \in [init : BOOLEAN, left : Nat] /\ clock \in BOOLEAN

SupervisorTypeOK ==
    /\ ServiceTypes
    /\ uses \in Uses /\ main \in MainRecord /\ mac \in MacRecord
    /\ duty \in {"ENABLED", "PARTIAL_DISABLED"} /\ wait \in 0 .. Later /\ alarm \in 0 .. Off
    /\ sendOk \in BOOLEAN

\* A device that is joined joins no more; the task that joins is there for a join.
JoinInv ==
    /\ announced => joined /\ ~joining
    /\ Live("JOIN") \/ elected = "JOIN" => joining
    /\ file.state = "ON_GOING" \/ (stream.init /\ stream.left > 0) => joined /\ ~joining

\* A task is elected and not removed yet.
Launching == main.pc \in {"launch", "remove"}
\* What a leave, or the rejoin of the device management, leaves behind.
Cleared == ~announced /\ elected = Idle /\ \A t \in Tasks \ {"JOIN"} : ~Live(t)

\* The task that is launched is the elected one, unless a leave came between.
PlaceInv ==
    /\ Launching => /\ main.id \in Tasks
                    /\ elected = main.id \/ (Cleared /\ main.id # "JOIN")
    /\ main.pc \in {"events", "call", "schedule"} => elected = Idle
    /\ elected = "JOIN" /\ ~Launching => ~Live("JOIN")

\* What the main thread sleeps for.
SleepInv ==
    At("sleep") /\ "CLASS_C" \notin uses =>
        \/ Halted
        \/ duty = "ENABLED" /\ main.sleep <= wait
        \/ \A t \in Tasks : Live(t) => main.sleep <= tasks[t]

SupervisorInv == SupervisorTypeOK /\ JoinInv /\ PlaceInv /\ ServicesKept /\ SleepInv

-----------------------------------------------------------------------------
(* Tables of tasks, and the least and the greatest. *)

\* What the tasks are.
LEMMA TheTasks ==
    /\ {"SEND", "JOIN", "DM", "DM_NOW", "FILE_UPLOAD", "MUTE", "RETRIEVE_DL", "STREAM",
        "CLOCK_SYNC_TIME_REQ", "ALC_SYNC_ANS", "REQUEST", "SEND_EXTENDED"} = Tasks
    /\ Idle \notin Tasks
  BY DEF Tasks, Idle

\* Delays that are pending, and the two values that are not delays.
LEMMA Delays ==
    /\ Later \in Nat /\ Off \in Nat /\ Soon \in 0 .. Later /\ Soon # Off /\ Later # Off
    /\ Later \in 0 .. Off /\ 0 \in 0 .. Off /\ Off \in 0 .. Off /\ Soon \in 0 .. Off
    /\ 0 # Off /\ Infinite \notin 0 .. Off /\ Off > Later
  BY SupervisorAssumption DEF Off, Soon, Infinite

\* A task is added.
LEMMA Adds ==
    ASSUME NEW ts \in Table, NEW t \in Tasks, NEW d \in 0 .. Off
    PROVE  /\ With(ts, t, d) \in Table /\ With(ts, t, d)[t] = d
           /\ \A u \in Tasks \ {t} : With(ts, t, d)[u] = ts[u]
  BY DEF With, Table

\* A task is added once the device is joined.
LEMMA AddsJoined ==
    ASSUME NEW ts \in Table, NEW t \in Tasks, NEW d \in 0 .. Off
    PROVE  /\ WithJoined(ts, t, d) \in Table
           /\ joined /\ ~joining => WithJoined(ts, t, d)[t] = d
           /\ \A u \in Tasks \ {t} : WithJoined(ts, t, d)[u] = ts[u]
  BY Adds DEF WithJoined, JoinState

\* The same, in a step.
LEMMA AddsNow ==
    ASSUME tasks \in Table, NEW t \in Tasks, NEW d \in 0 .. Off, tasks' = With(tasks, t, d)
    PROVE  tasks'[t] = d /\ \A u \in Tasks \ {t} : tasks'[u] = tasks[u]
  BY Adds

\* The same for a task that is added once the device is joined.
LEMMA AddsJoinedNow ==
    ASSUME tasks \in Table, NEW t \in Tasks, NEW d \in 0 .. Off, tasks' = WithJoined(tasks, t, d)
    PROVE  /\ joined /\ ~joining => tasks'[t] = d
           /\ \A u \in Tasks \ {t} : tasks'[u] = tasks[u]
  BY AddsJoined

\* Tasks are removed.
LEMMA Removes ==
    ASSUME NEW ts \in Table, NEW gone
    PROVE  /\ Without(ts, gone) \in Table
           /\ \A u \in Tasks : /\ u \in gone => Without(ts, gone)[u] = Off
                              /\ u \notin gone => Without(ts, gone)[u] = ts[u]
  BY Delays DEF Without, Table

\* The opportunities a count asks for.
LEMMA Asks ==
    ASSUME NEW ts \in Table, NEW n, Opportunity(ts, n)
    PROVE  /\ tasks' \in Table /\ upCount' = n
           /\ \A u \in Tasks \ {"RETRIEVE_DL"} : tasks'[u] = ts[u]
<1>1. "RETRIEVE_DL" \in Tasks /\ Soon \in 0 .. Off
  BY Delays, TheTasks
<1>2. CASE n > 0
  <2>1. tasks' = WithJoined(ts, "RETRIEVE_DL", Soon) /\ upCount' = n
    BY <1>2 DEF Opportunity
  <2> QED
    BY <1>1, <2>1, AddsJoined
<1>3. CASE ~(n > 0)
  BY <1>3 DEF Opportunity
<1> QED
  BY <1>2, <1>3

\* The greater of two.
LEMMA MaxOfTwo ==
    ASSUME NEW a \in Int, NEW b \in Int
    PROVE  Max({a, b}) \in {a, b} /\ Max({a, b}) >= a /\ Max({a, b}) >= b
<1>1. \E x \in {a, b} : \A y \in {a, b} : x >= y
  OBVIOUS
<1> QED
  BY <1>1 DEF Max

\* The lesser of two.
LEMMA MinOfTwo ==
    ASSUME NEW a \in Int, NEW b \in Int
    PROVE  Min({a, b}) \in {a, b} /\ Min({a, b}) <= a /\ Min({a, b}) <= b
<1>1. \E x \in {a, b} : \A y \in {a, b} : x =< y
  OBVIOUS
<1> QED
  BY <1>1 DEF Min

\* Of the dates of all the tasks, one is the soonest.
LEMMA SoonestIs ==
    ASSUME tasks \in Table
    PROVE  Soonest \in 0 .. Off /\ \A t \in Tasks : Soonest <= tasks[t]
<1> DEFINE Below == {p \in Nat \X Nat : p[1] < p[2]}
           Dates == {tasks[t] : t \in Tasks}
<1>1. IsWellFoundedOn(Below, Nat)
  <2>1. Below = OpToRel(<, Nat)
    BY Zenon DEF OpToRel
  <2> QED
    BY <2>1, NatLessThanWellFounded
<1>2. Dates \in SUBSET Nat /\ Dates # {}
  BY Delays, TheTasks DEF Table
<1>3. PICK m \in Dates : \A k \in Dates : <<k, m>> \notin Below
  <2> HIDE DEF Below, Dates
  <2> QED
    BY <1>1, <1>2, WFMin, Zenon
<1>4. \A k \in Dates : m =< k
  <2> HIDE DEF Dates
  <2>1. SUFFICES ASSUME NEW k \in Dates
                 PROVE  m =< k
    OBVIOUS
  <2>2. k \in Nat /\ m \in Nat
    BY <1>2
  <2>3. <<k, m>> \in Nat \X Nat /\ ~(k < m)
    BY <1>3, <2>2
  <2> QED
    BY <2>2, <2>3
<1>5. Soonest \in Dates /\ \A k \in Dates : Soonest =< k
  BY <1>3, <1>4 DEF Soonest, Min
<1> QED
  BY <1>5, Delays DEF Table

\* The main thread goes on, or sleeps.
LEMMA Goes ==
    ASSUME main \in MainRecord, NEW pc \in Places, Goto(pc)
    PROVE  /\ main' \in MainRecord
           /\ main'.pc = pc /\ main'.id = main.id /\ main'.sleep = main.sleep
  BY DEF Goto, MainRecord

\* The main thread sleeps no longer than the engine lets it.
LEMMA Returns ==
    ASSUME NEW time \in 0 .. Off, alarm \in 0 .. Off, Return(time)
    PROVE  /\ main' \in MainRecord
           /\ main'.pc = "sleep" /\ main'.id = Idle /\ main'.sleep <= time
<1>1. /\ Min({time, alarm}) \in {time, alarm} /\ Min({time, alarm}) <= time
  <2>1. time \in Int /\ alarm \in Int
    BY Delays
  <2> QED
    BY <2>1, MinOfTwo
<1> QED
  BY <1>1, Delays DEF Return, MainRecord, Places

-----------------------------------------------------------------------------
(* Types. *)

\* A leave ends the file upload and the stream.
LEMMA LeaveTypes ==
    ASSUME ServiceTypes, Leave
    PROVE  /\ announced' = FALSE /\ joined' = FALSE /\ elected' = Idle
           /\ file' \in [state : {"NOT_INIT", "FILLED", "ON_GOING", "FINISHED"}, left : Nat]
           /\ stream' \in [init : BOOLEAN, left : Nat]
           /\ file'.state = "NOT_INIT" /\ stream'.init = FALSE
  BY DEF Leave, ServiceTypes

\* A downlink of the device management keeps the types.
LEMMA CommandTypes ==
    ASSUME ServiceTypes, Command \/ RejoinCommand
    PROVE  ServiceTypes'
<1> USE Delays, TheTasks
<1>1. CASE AckRequested
  <2>1. Max({upCount, 1}) \in Nat
    <3>1. upCount \in Int /\ upCount \in Nat /\ 1 \in Int
      BY DEF ServiceTypes
    <3>2. Max({upCount, 1}) \in {upCount, 1}
      BY <3>1, MaxOfTwo, Zenon
    <3> QED
      BY <3>1, <3>2
  <2> QED
    BY <1>1, <2>1, Asks DEF AckRequested, ServiceTypes, services
<1>2. CASE GetInfo
  <2>1. dm' \in [on : BOOLEAN, first : BOOLEAN, more : BOOLEAN, moreNow : BOOLEAN]
    BY <1>2 DEF GetInfo, ServiceTypes
  <2>2. With(tasks, "DM_NOW", Soon) \in Table
    BY Adds DEF ServiceTypes
  <2>3. tasks' \in Table /\ upCount' \in Nat
    BY <1>2, <2>2, Asks DEF GetInfo
  <2> QED
    BY <1>2, <2>1, <2>3 DEF GetInfo, ServiceTypes
<1>3. CASE FileDone
  <2>1. file' \in [state : {"NOT_INIT", "FILLED", "ON_GOING", "FINISHED"}, left : Nat]
    BY <1>3 DEF FileDone, ServiceTypes
  <2>2. Without(tasks, {"FILE_UPLOAD"}) \in Table
    BY Removes DEF ServiceTypes
  <2>3. tasks' \in Table /\ upCount' \in Nat
    BY <1>3, <2>2, Asks DEF FileDone
  <2> QED
    BY <1>3, <2>1, <2>3 DEF FileDone, ServiceTypes
<1>4. CASE Mute
  <2>1. PICK d \in {0, 1, Infinite}, n \in 0 .. 1 :
          /\ days' = d
          /\ Opportunity(IF Temporary(d) THEN With(tasks, "MUTE", Later) ELSE tasks, n)
    BY <1>4 DEF Mute
  <2>2. (IF Temporary(d) THEN With(tasks, "MUTE", Later) ELSE tasks) \in Table
    BY Adds DEF ServiceTypes
  <2>3. tasks' \in Table /\ upCount' \in Nat
    BY <2>1, <2>2, Asks
  <2>4. days' \in 0 .. Later \cup {Infinite}
    BY <2>1 DEF Soon
  <2> QED
    BY <1>4, <2>3, <2>4 DEF Mute, ServiceTypes, services
<1>5. CASE TimeAnswer
  <2> DEFINE Rest == Without(tasks, {"CLOCK_SYNC_TIME_REQ", "ALC_SYNC_ANS"})
             Following == IF clock THEN With(Rest, "CLOCK_SYNC_TIME_REQ", Later) ELSE Rest
  <2>1. PICK n \in 0 .. 1, answer \in {Off, Soon} :
          Opportunity(WithJoined(Following, "ALC_SYNC_ANS", answer), n)
    BY <1>5 DEF TimeAnswer
  <2>2. Rest \in Table /\ Following \in Table
    BY Removes, Adds DEF ServiceTypes
  <2>3. WithJoined(Following, "ALC_SYNC_ANS", answer) \in Table
    BY <2>2, AddsJoined
  <2>4. tasks' \in Table /\ upCount' \in Nat
    BY <2>1, <2>3, Asks
  <2> QED
    BY <1>5, <2>4 DEF TimeAnswer, ServiceTypes, services
<1>6. CASE SetConf
  <2>1. PICK on \in BOOLEAN, n \in 0 .. 1 :
          /\ dm' = [dm EXCEPT !.on = on]
          /\ Opportunity(WithJoined(tasks, "DM", IF on THEN Later ELSE 0), n)
    BY <1>6 DEF SetConf
  <2>2. WithJoined(tasks, "DM", IF on THEN Later ELSE 0) \in Table
    BY AddsJoined DEF ServiceTypes
  <2>3. tasks' \in Table /\ upCount' \in Nat
    BY <2>1, <2>2, Asks
  <2>4. dm' \in [on : BOOLEAN, first : BOOLEAN, more : BOOLEAN, moreNow : BOOLEAN]
    BY <2>1 DEF ServiceTypes
  <2> QED
    BY <1>6, <2>3, <2>4 DEF SetConf, ServiceTypes
<1>7. CASE RejoinCommand
  <2>1. [t \in Tasks |-> Off] \in Table
    BY DEF Table
  <2>2. PICK delay \in 0 .. Soon : tasks' = With([t \in Tasks |-> Off], "JOIN", delay)
    BY <1>7 DEF RejoinCommand, Rejoin
  <2>3. delay \in 0 .. Off
    BY DEF Soon
  <2>4. tasks' \in Table
    BY <2>1, <2>2, <2>3, Adds
  <2>5. /\ joining' = TRUE /\ Leave /\ upCount' \in Nat
        /\ UNCHANGED <<urgent, suspended, days, dm, clock>>
    BY <1>7 DEF RejoinCommand, Rejoin
  <2>6. ServiceTypes /\ "JOIN" \in Tasks
    OBVIOUS
  <2> QED
    BY <2>4, <2>5, LeaveTypes DEF ServiceTypes
<1> QED
  BY <1>1, <1>2, <1>3, <1>4, <1>5, <1>6, <1>7 DEF Command

\* The user's commands keep the types.
LEMMA UserTypes ==
    ASSUME ServiceTypes, mac \in MacRecord, sendOk \in BOOLEAN, wait \in 0 .. Later,
           alarm \in 0 .. Off, duty \in {"ENABLED", "PARTIAL_DISABLED"}, UserCommand
    PROVE  /\ ServiceTypes' /\ mac' \in MacRecord /\ sendOk' \in BOOLEAN /\ wait' \in 0 .. Later
           /\ alarm' \in 0 .. Off /\ duty' \in {"ENABLED", "PARTIAL_DISABLED"}
<1> USE Delays, TheTasks
<1>0. \A delay \in 0 .. Soon : delay \in 0 .. Off
  BY DEF Soon
<1>1. CASE JoinNetwork
  <2>1. PICK delay \in 0 .. Soon : tasks' = With(tasks, "JOIN", delay)
    BY <1>1 DEF JoinNetwork
  <2>2. tasks' \in Table
    BY <1>0, <2>1, Adds DEF ServiceTypes
  <2> QED
    BY <1>1, <2>2 DEF JoinNetwork, ServiceTypes, limits, services
<1>2. CASE LeaveCommand
  <2>1. mac' \in MacRecord
    BY <1>2 DEF LeaveCommand, MacAbort, MacRecord
  <2>2. tasks' \in Table /\ Leave /\ joining' = FALSE
    BY <1>2 DEF LeaveCommand, LeaveNetwork, Table
  <2> QED
    BY <1>2, <2>1, <2>2, LeaveTypes, ZenonT(40) DEF LeaveCommand, ServiceTypes, limits
<1>3. CASE RequestUplink
  <2>1. With(tasks, "SEND", 0) \in Table
    BY Adds DEF ServiceTypes
  <2>2. tasks' \in Table
    BY <1>3, <2>1 DEF RequestUplink
  <2>3. urgent' \in BOOLEAN /\ duty' \in {"ENABLED", "PARTIAL_DISABLED"}
    BY <1>3 DEF RequestUplink
  <2> QED
    BY <1>3, <2>2, <2>3 DEF RequestUplink, ServiceTypes, link, services
<1>4. CASE RequestExtended
  <2>1. With(tasks, "SEND_EXTENDED", 0) \in Table
    BY Adds DEF ServiceTypes
  <2>2. tasks' \in Table
    BY <1>4, <2>1, Removes DEF RequestExtended, ServiceTypes
  <2> QED
    BY <1>4, <2>2 DEF RequestExtended, ServiceTypes, link, limits, services
<1>5. CASE RequestCid
  <2>1. With(tasks, "REQUEST", 0) \in Table
    BY Adds DEF ServiceTypes
  <2>2. tasks' \in Table
    BY <1>5, <2>1 DEF RequestCid
  <2> QED
    BY <1>5, <2>2 DEF RequestCid, ServiceTypes, link, limits, services
<1>6. CASE Suspend
  BY <1>6 DEF Suspend, ServiceTypes, sched, link, services
<1>7. CASE SetAlarm
  BY <1>7 DEF SetAlarm, ServiceTypes, sched, link, limits, services
<1>8. CASE FileInit
  BY <1>8, SupervisorAssumption DEF FileInit, ServiceTypes, sched, link, limits
<1>9. CASE FileStart
  <2>1. file' \in [state : {"NOT_INIT", "FILLED", "ON_GOING", "FINISHED"}, left : Nat]
    BY <1>9 DEF FileStart, ServiceTypes
  <2>2. tasks' \in Table
    <3>1. PICK delay \in 0 .. Soon : tasks' = With(tasks, "FILE_UPLOAD", delay)
      BY <1>9 DEF FileStart
    <3> QED
      BY <1>0, <3>1, Adds DEF ServiceTypes
  <2> QED
    BY <1>9, <2>1, <2>2 DEF FileStart, ServiceTypes, link, limits
<1>10. CASE FileReset
  <2>1. file' \in [state : {"NOT_INIT", "FILLED", "ON_GOING", "FINISHED"}, left : Nat]
    BY <1>10 DEF FileReset, ServiceTypes
  <2> QED
    BY <1>10, <2>1 DEF FileReset, ServiceTypes, sched, link, limits
<1>11. CASE StreamInit
  BY <1>11, Removes DEF StreamInit, ServiceTypes, link, limits
<1>12. CASE StreamAdd
  <2>1. With(tasks, "STREAM", Soon) \in Table
    BY Adds DEF ServiceTypes
  <2>2. tasks' \in Table /\ stream' \in [init : BOOLEAN, left : Nat]
    BY <1>12, <2>1, SupervisorAssumption DEF StreamAdd
  <2> QED
    BY <1>12, <2>2 DEF StreamAdd, ServiceTypes, link, limits
<1>13. CASE SetInterval
  <2>1. PICK on \in BOOLEAN : /\ dm' = [dm EXCEPT !.on = on]
                             /\ tasks' = WithJoined(tasks, "DM", IF on THEN Later ELSE 0)
    BY <1>13 DEF SetInterval
  <2>2. tasks' \in Table
    BY <2>1, AddsJoined DEF ServiceTypes
  <2>3. dm' \in [on : BOOLEAN, first : BOOLEAN, more : BOOLEAN, moreNow : BOOLEAN]
    BY <2>1 DEF ServiceTypes
  <2> QED
    BY <1>13, <2>2, <2>3 DEF SetInterval, ServiceTypes, link, limits
<1>14. CASE RequestSingleUplink
  <2>1. With(tasks, "DM_NOW", Soon) \in Table
    BY Adds DEF ServiceTypes
  <2>2. tasks' \in Table
    BY <1>14, <2>1 DEF RequestSingleUplink
  <2> QED
    BY <1>14, <2>2 DEF RequestSingleUplink, ServiceTypes, link, limits, services
<1>15. CASE StartSync
  <2>1. WithJoined(tasks, "CLOCK_SYNC_TIME_REQ", Soon) \in Table
    BY AddsJoined DEF ServiceTypes
  <2>2. tasks' \in Table
    BY <1>15, <2>1 DEF StartSync, ServiceTypes
  <2> QED
    BY <1>15, <2>2 DEF StartSync, ServiceTypes, link, limits
<1>16. CASE StopSync
  <2>1. Without(tasks, {"CLOCK_SYNC_TIME_REQ", "ALC_SYNC_ANS"}) \in Table
    BY Removes DEF ServiceTypes
  <2>2. tasks' \in Table
    BY <1>16, <2>1 DEF StopSync
  <2>4. clock' \in BOOLEAN
    BY <1>16 DEF StopSync
  <2>3. UNCHANGED <<urgent, elected, link, sendOk, limits, upCount, dm, file, stream,
                                    alarm>>
    BY <1>16 DEF StopSync
  <2> QED
    BY <2>2, <2>3, <2>4, SMTT(30) DEF ServiceTypes, link, limits
<1>17. CASE TriggerSync
  <2>1. With(tasks, "CLOCK_SYNC_TIME_REQ", Soon) \in Table
    BY Adds DEF ServiceTypes
  <2>2. tasks' \in Table
    BY <1>17, <2>1 DEF TriggerSync
  <2> QED
    BY <1>17, <2>2 DEF TriggerSync, ServiceTypes, link, limits, services
<1> QED
  BY <1>1, <1>2, <1>3, <1>4, <1>5, <1>6, <1>7, <1>8, <1>9, <1>10, <1>11, <1>12, <1>13, <1>14,
     <1>15, <1>16, <1>17
  DEF UserCommand

\* The update of the elected task keeps the types.
LEMMA UpdateTypes ==
    ASSUME ServiceTypes, mac \in MacRecord, duty \in {"ENABLED", "PARTIAL_DISABLED"}, Update
    PROVE  ServiceTypes' /\ mac' \in MacRecord /\ duty' \in {"ENABLED", "PARTIAL_DISABLED"}
<1> USE Delays, TheTasks
<1>0. \A delay \in 0 .. Soon : delay \in 0 .. Off
  BY DEF Soon
<1>u. elected' = Idle /\ UNCHANGED <<urgent, suspended, days, clock>>
  BY DEF Update
<1>1. CASE UpdateJoin
  <2>1. CASE joining /\ joined
    <3>1. dm' \in [on : BOOLEAN, first : BOOLEAN, more : BOOLEAN, moreNow : BOOLEAN]
      BY <1>1, <2>1 DEF UpdateJoin, ServiceTypes
    <3>2. tasks' \in Table
      BY <1>1, <2>1 DEF UpdateJoin, ServiceTypes, Table
    <3> QED
      BY <1>1, <1>u, <2>1, <3>1, <3>2 DEF UpdateJoin, ServiceTypes
  <2>2. CASE joining /\ ~joined
    BY <1>0, <1>1, <1>u, <2>2, Adds DEF UpdateJoin, JoinAgain, ServiceTypes
  <2>3. CASE ~joining
    BY <1>1, <1>u, <2>3 DEF UpdateJoin, ServiceTypes
  <2> QED
    BY <2>1, <2>2, <2>3
<1>2. CASE UpdateSend
  BY <1>2, <1>u DEF UpdateSend, RestoredDuty, ServiceTypes, link
<1>3. CASE UpdateDm
  BY <1>3, <1>u, AddsJoined DEF UpdateDm, ServiceTypes, link
<1>4. CASE UpdateDmNow
  BY <1>4, <1>u, Adds DEF UpdateDmNow, ServiceTypes, link
<1>5. CASE UpdateFile
  <2>1. file' \in [state : {"NOT_INIT", "FILLED", "ON_GOING", "FINISHED"}, left : Nat]
    BY <1>5 DEF UpdateFile, ServiceTypes
  <2>2. tasks' \in Table
    BY <1>5, Adds DEF UpdateFile, ServiceTypes
  <2> QED
    BY <1>5, <1>u, <2>1, <2>2 DEF UpdateFile, ServiceTypes, link
<1>6. CASE UpdateStream
  BY <1>6, <1>u, Adds DEF UpdateStream, ServiceTypes, link
<1>7. CASE UpdateMute
  BY <1>7, <1>u, Adds DEF UpdateMute, ServiceTypes, link
<1>8. CASE UpdateRetrieve
  BY <1>8, <1>u, AddsJoined DEF UpdateRetrieve, ServiceTypes, link
<1>9. CASE UpdateClock
  <2>1. PICK delay \in {Soon, Later}, unanswered \in BOOLEAN :
          LET next == IF clock THEN With(tasks, elected, delay) ELSE tasks
          IN IF unanswered /\ upCount = 0 THEN Opportunity(next, 1)
             ELSE tasks' = next /\ UNCHANGED upCount
    BY <1>9 DEF UpdateClock
  <2>2. (IF clock THEN With(tasks, elected, delay) ELSE tasks) \in Table
    BY <1>9, Adds DEF UpdateClock, ServiceTypes
  <2>3. tasks' \in Table /\ upCount' \in Nat
    BY <2>1, <2>2, Asks DEF ServiceTypes
  <2> QED
    BY <1>9, <1>u, <2>3 DEF UpdateClock, ServiceTypes, link
<1>10. CASE UpdateAlc
  BY <1>10, <1>u, AddsJoined DEF UpdateAlc, ServiceTypes, link
<1>11. CASE UpdateRequest
  BY <1>11, <1>u DEF UpdateRequest, ServiceTypes, link
<1>12. CASE UpdateOther
  BY <1>12, <1>u DEF UpdateOther, ServiceTypes, link
<1> QED
  BY <1>1, <1>2, <1>3, <1>4, <1>5, <1>6, <1>7, <1>8, <1>9, <1>10, <1>11, <1>12 DEF Update

\* What the MAC accepts, or refuses.
LEMMA SendTypes ==
    ASSUME ServiceTypes, mac \in MacRecord, NEW ok \in BOOLEAN, Send(ok)
    PROVE  /\ mac' \in MacRecord /\ upCount' \in Nat
           /\ UNCHANGED <<joined, joining, announced>>
<1>1. upCount' \in Nat
  BY DEF Send, ServiceTypes
<1>2. mac' \in MacRecord
  BY DEF Send, MacRecord
<1> QED
  BY <1>1, <1>2 DEF Send

\* The launch of a task keeps the types.
LEMMA LaunchTypes ==
    ASSUME ServiceTypes, mac \in MacRecord, sendOk \in BOOLEAN, Launch
    PROVE  ServiceTypes' /\ mac' \in MacRecord /\ sendOk' \in BOOLEAN
<1>u. UNCHANGED <<tasks, urgent, suspended, duty, wait, alarm, events, uses>>
  BY DEF Launch
<1>1. CASE LaunchJoin
  <2>1. mac' \in MacRecord /\ elected' \in Tasks \cup {Idle} /\ joined' \in BOOLEAN
    <3>1. [state |-> "SEND", job |-> "JOIN"] \in MacRecord
      BY DEF MacRecord
    <3>2. CASE joining
      BY <1>1, <3>1, <3>2 DEF LaunchJoin, ServiceTypes
    <3>3. CASE ~joining
      BY <1>1, <3>3, Zenon DEF LaunchJoin, ServiceTypes
    <3> QED
      BY <3>2, <3>3
  <2> QED
    BY <1>1, <1>u, <2>1 DEF LaunchJoin, ServiceTypes, services
<1>2. CASE LaunchSend
  BY <1>2, <1>u, SendTypes DEF LaunchSend, ServiceTypes, services
<1>3. CASE LaunchDm
  <2>1. mac' \in MacRecord /\ upCount' \in Nat /\ UNCHANGED <<joined, joining, announced>>
    BY <1>3, SendTypes DEF LaunchDm, SendNothing, ServiceTypes, link
  <2>2. dm' \in [on : BOOLEAN, first : BOOLEAN, more : BOOLEAN, moreNow : BOOLEAN]
    <3>1. CASE UNCHANGED dm
      BY <3>1 DEF ServiceTypes
    <3>2. ASSUME NEW more \in BOOLEAN, NEW first \in BOOLEAN,
                 dm' = [dm EXCEPT !.more = more, !.first = first]
          PROVE  dm' \in [on : BOOLEAN, first : BOOLEAN, more : BOOLEAN, moreNow : BOOLEAN]
      BY <3>2 DEF ServiceTypes
    <3>3. \A ok, more \in BOOLEAN : (dm.first /\ ~(dm.more /\ ok /\ ~more)) \in BOOLEAN
      OBVIOUS
    <3> QED
      BY <1>3, <3>1, <3>2, <3>3 DEF LaunchDm
  <2> QED
    BY <1>3, <1>u, <2>1, <2>2, ZenonT(40) DEF LaunchDm, ServiceTypes
<1>4. CASE LaunchDmNow
  <2>1. mac' \in MacRecord /\ upCount' \in Nat /\ UNCHANGED <<joined, joining, announced>>
    BY <1>4, SendTypes DEF LaunchDmNow, SendNothing, ServiceTypes, link
  <2>2. dm' \in [on : BOOLEAN, first : BOOLEAN, more : BOOLEAN, moreNow : BOOLEAN]
    BY <1>4 DEF LaunchDmNow, ServiceTypes
  <2> QED
    BY <1>4, <1>u, <2>1, <2>2 DEF LaunchDmNow, ServiceTypes
<1>5. CASE LaunchFile
  <2>1. mac' \in MacRecord /\ upCount' \in Nat /\ UNCHANGED <<joined, joining, announced>>
    BY <1>5, SendTypes DEF LaunchFile, SendNothing, ServiceTypes, link
  <2>2. Max({file.left - 1, 0}) \in Nat
    <3>1. file.left - 1 \in Int /\ 0 \in Int
      BY DEF ServiceTypes
    <3>2. Max({file.left - 1, 0}) \in {file.left - 1, 0} /\ Max({file.left - 1, 0}) >= 0
      BY <3>1, MaxOfTwo, Zenon
    <3> QED
      BY <3>1, <3>2
  <2>3. file' \in [state : {"NOT_INIT", "FILLED", "ON_GOING", "FINISHED"}, left : Nat]
    BY <1>5, <2>2 DEF LaunchFile, ServiceTypes
  <2> QED
    BY <1>5, <1>u, <2>1, <2>3 DEF LaunchFile, ServiceTypes
<1>6. CASE LaunchStream
  <2>1. mac' \in MacRecord /\ upCount' \in Nat /\ UNCHANGED <<joined, joining, announced>>
    BY <1>6, SendTypes DEF LaunchStream, SendNothing, ServiceTypes, link
  <2>2. stream' \in [init : BOOLEAN, left : Nat]
    BY <1>6 DEF LaunchStream, ServiceTypes
  <2> QED
    BY <1>6, <1>u, <2>1, <2>2 DEF LaunchStream, ServiceTypes
<1>7. CASE LaunchMute
  <2>1. days' \in 0 .. Later \cup {Infinite}
    BY <1>7, Delays DEF LaunchMute, OneDayLess, Temporary, ServiceTypes
  <2> QED
    BY <1>7, <1>u, <2>1 DEF LaunchMute, SendNothing, ServiceTypes, link, services
<1>8. CASE LaunchRetrieve
  <2>1. mac' \in MacRecord /\ upCount' \in Nat /\ UNCHANGED <<joined, joining, announced>>
    BY <1>8, SendTypes DEF LaunchRetrieve, SendNothing, ServiceTypes, link
  <2> QED
    BY <1>8, <1>u, <2>1 DEF LaunchRetrieve, ServiceTypes, services
<1>9. CASE LaunchRequest
  <2>1. mac' \in MacRecord
    BY <1>9 DEF LaunchRequest, MacRecord
  <2> QED
    BY <1>9, <1>u, <2>1 DEF LaunchRequest, ServiceTypes, services
<1> QED
  BY <1>1, <1>2, <1>3, <1>4, <1>5, <1>6, <1>7, <1>8, <1>9 DEF Launch

\* Time passes.
LEMMA Passes ==
    ASSUME NEW n \in 0 .. Off
    PROVE  /\ Subtract(n) \in 0 .. Off /\ (Subtract(n) = Off <=> n = Off)
           /\ n \in 0 .. Later => Subtract(n) \in 0 .. Later
           /\ n = 0 => Subtract(n) = 0
  BY Delays DEF Subtract, Off

\* Every step keeps the types.
LEMMA TypeStep ==
    ASSUME SupervisorTypeOK, [Next]_vars
    PROVE  SupervisorTypeOK'
<1>0. /\ main \in MainRecord /\ alarm \in 0 .. Off /\ wait \in 0 .. Later /\ tasks \in Table
      /\ mac \in MacRecord /\ elected \in Tasks \cup {Idle}
  BY DEF SupervisorTypeOK, ServiceTypes
<1>k. ASSUME UNCHANGED <<sched, link, sendOk, limits, upCount, services, uses>>, alarm' \in 0 .. Off,
             main' \in MainRecord
      PROVE  SupervisorTypeOK'
  BY <1>k DEF SupervisorTypeOK, ServiceTypes, sched, link, limits, services
<1>1. CASE EngineStart
  BY <1>0, <1>1, <1>k, Goes, Delays DEF EngineStart, Places
<1>2. CASE Process
  <2>1. main' \in MainRecord
    BY <1>0, <1>2, Returns, Delays DEF Process
  <2>2. UNCHANGED <<sendOk, alarm, uses>>
    BY <1>2 DEF Process
  <2>3. CASE MacStarts
    <3>1. mac' \in MacRecord
      BY <1>0, <2>3 DEF MacStarts, MacRecord
    <3> QED
      BY <2>1, <2>2, <2>3, <3>1
      DEF MacStarts, SupervisorTypeOK, ServiceTypes, sched, limits, services
  <2>4. CASE MacEnds
    <3>1. mac' \in MacRecord /\ wait' \in 0 .. Later
      BY <1>0, <2>4, Delays DEF MacEnds, MacRecord
    <3>2. joined' \in BOOLEAN
      BY <2>4 DEF MacEnds, SupervisorTypeOK, ServiceTypes
    <3> QED
      BY <2>1, <2>2, <2>4, <3>1, <3>2
      DEF MacEnds, SupervisorTypeOK, ServiceTypes, sched, services
  <2>5. CASE MacReceives
    <3>1. mac' \in MacRecord /\ wait' \in 0 .. Later /\ duty' = duty
      BY <1>0, <2>5, Delays DEF MacReceives, MacRecord
    <3>2. ServiceTypes'
      BY <2>5, CommandTypes DEF MacReceives, SupervisorTypeOK
    <3> QED
      BY <2>1, <2>2, <3>1, <3>2 DEF SupervisorTypeOK
  <2>6. CASE UNCHANGED <<sched, link, limits, upCount, services, events>>
    BY <1>0, <1>k, <2>1, <2>2, <2>6
  <2> QED
    BY <1>2, <2>3, <2>4, <2>5, <2>6 DEF Process
<1>3. CASE StackIdle
  BY <1>0, <1>3, <1>k, Goes DEF StackIdle, Places
<1>4. CASE Update
  <2>1. main' \in MainRecord
    BY <1>0, <1>4, Goes DEF Update, Places
  <2>2. UNCHANGED <<sendOk, wait, alarm, uses>>
    BY <1>4 DEF Update
  <2> QED
    BY <1>4, <2>1, <2>2, UpdateTypes DEF SupervisorTypeOK
<1>5. CASE Events
  BY <1>0, <1>5, <1>k, Goes DEF Events, Places
<1>6. CASE Sleep
  <2>1. main' \in MainRecord
    BY <1>0, <1>6, Returns, SoonestIs, Delays DEF Sleep
  <2> QED
    BY <1>0, <1>6, <1>k, <2>1 DEF Sleep
<1>7. CASE Elect
  <2>1. main' \in MainRecord /\ elected' \in Tasks \cup {Idle}
    BY <1>0, <1>7 DEF Elect, Due, MainRecord, Places
  <2> QED
    BY <1>7, <2>1 DEF Elect, SupervisorTypeOK, ServiceTypes, link, limits, services
<1>8. CASE Launch
  <2>1. main' \in MainRecord
    BY <1>0, <1>8, Goes DEF Launch, Places
  <2> QED
    BY <1>8, <2>1, LaunchTypes DEF Launch, SupervisorTypeOK
<1>9. CASE Remove
  <2>1. main' \in MainRecord
    BY <1>0, <1>9, Returns, Delays DEF Remove
  <2>2. tasks' \in Table
    BY <1>0, <1>9, Removes DEF Remove
  <2> QED
    BY <1>9, <2>1, <2>2 DEF Remove, SupervisorTypeOK, ServiceTypes, link, limits, services
<1>10. CASE UserCommand
  <2>1. UNCHANGED <<main, uses>>
    BY <1>10 DEF UserCommand
  <2> QED
    BY <1>10, <2>1, UserTypes DEF SupervisorTypeOK
<1>11. CASE CallReturns
  BY <1>0, <1>11, <1>k, Goes DEF CallReturns, Places
<1>12. CASE WorkCommand
  <2>1. UNCHANGED <<main, sendOk, duty, wait, alarm, uses>>
    BY <1>12 DEF WorkCommand
  <2>2. mac' \in MacRecord
    BY <1>0, <1>12 DEF WorkCommand, MacAbort, MacRecord
  <2>3. ServiceTypes'
    BY <1>12, CommandTypes DEF WorkCommand, SupervisorTypeOK
  <2> QED
    BY <2>1, <2>2, <2>3 DEF SupervisorTypeOK
<1>13. CASE Tick
  <2>1. main.sleep \in 0 .. Off
    BY <1>0 DEF MainRecord
  <2>2. main' \in MainRecord
    BY <1>0, <1>13, <2>1, Passes DEF Tick, MainRecord, Places
  <2>3. tasks' \in Table
    <3>1. \A t \in Tasks : Subtract(tasks[t]) \in 0 .. Off
      BY <1>0, Passes DEF Table
    <3> QED
      BY <1>13, <3>1 DEF Tick, Table
  <2>4. wait' \in 0 .. Later /\ alarm' \in 0 .. Off
    <3>1. wait \in 0 .. Off
      BY <1>0, Delays
    <3>2. Subtract(wait) \in 0 .. Later /\ Subtract(alarm) \in 0 .. Off
      BY <1>0, <3>1, Passes
    <3> QED
      BY <1>13, <3>2 DEF Tick
  <2> QED
    BY <1>13, <2>2, <2>3, <2>4 DEF Tick, SupervisorTypeOK, ServiceTypes, link, services
<1>14. CASE UNCHANGED vars
  BY <1>0, <1>14, <1>k DEF vars
<1> QED
  BY <1>1, <1>2, <1>3, <1>4, <1>5, <1>6, <1>7, <1>8, <1>9, <1>10, <1>11, <1>12, <1>13, <1>14
  DEF Next, Engine

-----------------------------------------------------------------------------
(* The services and their tasks. *)

\* A step that takes no task away, but those of services it turns off, and turns no
\* service on without its task.
LEMMA StillKept ==
    ASSUME JoinInv, ServicesKept, UNCHANGED <<elected, joined, joining, announced>>,
           Live("JOIN")' <=> Live("JOIN"),
           file'.state = "ON_GOING" => file.state = "ON_GOING" \/ (joined /\ ~joining),
           stream'.init /\ stream'.left > 0 =>
              (stream.init /\ stream.left > 0) \/ (joined /\ ~joining),
           file'.state = "ON_GOING" =>
              \/ Live("FILE_UPLOAD")' \/ ~announced
              \/ file.state = "ON_GOING" /\ (Live("FILE_UPLOAD") => Live("FILE_UPLOAD")'),
           stream'.init /\ stream'.left > 0 =>
              \/ Live("STREAM")' \/ ~announced
              \/ stream.init /\ stream.left > 0 /\ (Live("STREAM") => Live("STREAM")'),
           clock' =>
              \/ Live("CLOCK_SYNC_TIME_REQ")' \/ ~announced
              \/ clock /\ (Live("CLOCK_SYNC_TIME_REQ") => Live("CLOCK_SYNC_TIME_REQ")'),
           dm'.on => \/ Live("DM")' \/ ~announced
                     \/ dm.on /\ (Live("DM") => Live("DM")')
    PROVE  /\ JoinInv' /\ ServicesKept'
           /\ UNCHANGED <<elected, announced>> /\ (Live("JOIN")' <=> Live("JOIN"))
  BY DEF JoinInv, ServicesKept, Kept

\* A downlink of the device management leaves every service its task, or adds it again.
LEMMA CommandKept ==
    ASSUME ServiceTypes, JoinInv, ServicesKept, Command
    PROVE  /\ JoinInv' /\ ServicesKept'
           /\ UNCHANGED <<elected, announced>> /\ (Live("JOIN")' <=> Live("JOIN"))
<1>0. tasks \in Table /\ (announced => joined /\ ~joining)
  BY DEF ServiceTypes, JoinInv
<1>t. /\ "DM_NOW" \in Tasks /\ "MUTE" \in Tasks /\ "CLOCK_SYNC_TIME_REQ" \in Tasks
      /\ "ALC_SYNC_ANS" \in Tasks /\ "DM" \in Tasks /\ "JOIN" \in Tasks
      /\ "FILE_UPLOAD" \in Tasks /\ "STREAM" \in Tasks
  BY TheTasks
<1>d. /\ Soon \in 0 .. Off /\ Later \in 0 .. Off /\ 0 \in 0 .. Off /\ Off \in 0 .. Off
      /\ Later # Off /\ Off # 0
  BY Delays
<1>1. CASE AckRequested
  <2>1. \A t \in Tasks \ {"RETRIEVE_DL"} : tasks'[t] = tasks[t]
    BY <1>t, <1>d, <1>0, <1>1, Asks DEF AckRequested
  <2> QED
    BY <1>t, <1>d, <1>1, <2>1, StillKept DEF AckRequested, services, Live
<1>2. CASE GetInfo
  <2>1. With(tasks, "DM_NOW", Soon) \in Table
        /\ \A t \in Tasks \ {"DM_NOW"} : With(tasks, "DM_NOW", Soon)[t] = tasks[t]
    BY <1>t, <1>d, <1>0, Adds
  <2>2. \A t \in Tasks \ {"RETRIEVE_DL", "DM_NOW"} : tasks'[t] = tasks[t]
    BY <1>t, <1>d, <1>2, <2>1, Asks DEF GetInfo
  <2>3. dm'.on = dm.on
    BY <1>2 DEF GetInfo, ServiceTypes
  <2> QED
    BY <1>t, <1>d, <1>2, <2>2, <2>3, StillKept DEF GetInfo, Live
<1>3. CASE FileDone
  <2>1. Without(tasks, {"FILE_UPLOAD"}) \in Table
        /\ \A t \in Tasks \ {"FILE_UPLOAD"} : Without(tasks, {"FILE_UPLOAD"})[t] = tasks[t]
    BY <1>t, <1>d, <1>0, Removes
  <2>2. \A t \in Tasks \ {"RETRIEVE_DL", "FILE_UPLOAD"} : tasks'[t] = tasks[t]
    BY <1>t, <1>d, <1>3, <2>1, Asks DEF FileDone
  <2>3. file'.state = "FINISHED"
    BY <1>3 DEF FileDone, ServiceTypes
  <2> QED
    BY <1>t, <1>d, <1>3, <2>2, <2>3, StillKept DEF FileDone, Live
<1>4. CASE Mute
  <2>1. PICK d \in {0, 1, Infinite}, n \in 0 .. 1 :
          Opportunity(IF Temporary(d) THEN With(tasks, "MUTE", Later) ELSE tasks, n)
    BY <1>4 DEF Mute
  <2> DEFINE ts == IF Temporary(d) THEN With(tasks, "MUTE", Later) ELSE tasks
  <2>2. ts \in Table /\ \A t \in Tasks \ {"MUTE"} : ts[t] = tasks[t]
    BY <1>t, <1>d, <1>0, Adds
  <2>3. \A t \in Tasks \ {"RETRIEVE_DL", "MUTE"} : tasks'[t] = tasks[t]
    BY <1>t, <1>d, <2>1, <2>2, Asks
  <2> QED
    BY <1>t, <1>d, <1>4, <2>3, StillKept DEF Mute, Live, services
<1>5. CASE TimeAnswer
  <2> DEFINE Rest == Without(tasks, {"CLOCK_SYNC_TIME_REQ", "ALC_SYNC_ANS"})
             Following == IF clock THEN With(Rest, "CLOCK_SYNC_TIME_REQ", Later) ELSE Rest
             Touched == {"CLOCK_SYNC_TIME_REQ", "ALC_SYNC_ANS"}
  <2>1. PICK n \in 0 .. 1, answer \in {Off, Soon} :
          Opportunity(WithJoined(Following, "ALC_SYNC_ANS", answer), n)
    BY <1>5 DEF TimeAnswer
  <2>2. Rest \in Table /\ \A t \in Tasks \ Touched : Rest[t] = tasks[t]
    BY <1>t, <1>d, <1>0, Removes
  <2>3. /\ Following \in Table /\ (clock => Following["CLOCK_SYNC_TIME_REQ"] = Later)
        /\ \A t \in Tasks \ Touched : Following[t] = tasks[t]
    BY <1>t, <1>d, <2>2, Adds
  <2> DEFINE Answered == WithJoined(Following, "ALC_SYNC_ANS", answer)
  <2> HIDE DEF Rest, Following
  <2>4. Answered \in Table /\ \A t \in Tasks \ {"ALC_SYNC_ANS"} : Answered[t] = Following[t]
    <3>1. answer \in 0 .. Off
      BY <1>d
    <3> QED
      BY <1>t, <2>3, <3>1, AddsJoined
  <2>5. \A t \in Tasks \ {"RETRIEVE_DL"} : tasks'[t] = Answered[t]
    BY <1>t, <1>d, <2>1, <2>4, Asks
  <2> HIDE DEF Answered
  <2>6. /\ clock => tasks'["CLOCK_SYNC_TIME_REQ"] = Later
        /\ \A t \in {"JOIN", "FILE_UPLOAD", "STREAM", "DM"} : tasks'[t] = tasks[t]
    BY <1>t, <1>d, <2>3, <2>4, <2>5
  <2> QED
    BY <1>t, <1>d, <1>5, <2>6, StillKept DEF TimeAnswer, Live, services
<1>6. CASE SetConf
  <2>1. PICK on \in BOOLEAN, n \in 0 .. 1 :
          /\ dm' = [dm EXCEPT !.on = on]
          /\ Opportunity(WithJoined(tasks, "DM", IF on THEN Later ELSE 0), n)
    BY <1>6 DEF SetConf
  <2> DEFINE delay == IF on THEN Later ELSE 0
             ts == WithJoined(tasks, "DM", delay)
  <2>2. /\ ts \in Table /\ (announced => ts["DM"] = delay)
        /\ \A t \in Tasks \ {"DM"} : ts[t] = tasks[t]
    <3>1. delay \in 0 .. Off
      BY <1>d
    <3> HIDE DEF delay
    <3> QED
      BY <1>t, <1>0, <3>1, AddsJoined
  <2> HIDE DEF ts
  <2>3. \A t \in Tasks \ {"RETRIEVE_DL"} : tasks'[t] = ts[t]
    BY <1>t, <1>d, <2>1, <2>2, Asks DEF ts
  <2>4. /\ \A t \in {"JOIN", "FILE_UPLOAD", "STREAM", "CLOCK_SYNC_TIME_REQ"} : tasks'[t] = tasks[t]
        /\ announced => tasks'["DM"] # Off
    BY <1>t, <1>d, <2>2, <2>3
  <2> QED
    BY <1>t, <1>d, <1>6, <2>4, StillKept DEF SetConf, Live
<1> QED
  BY <1>1, <1>2, <1>3, <1>4, <1>5, <1>6 DEF Command

\* A leave keeps nothing, and a rejoin has the task that joins.
LEMMA RejoinKept ==
    ASSUME ServiceTypes, RejoinCommand
    PROVE  JoinInv' /\ ServicesKept' /\ Cleared'
<1>1. PICK delay \in 0 .. Soon : tasks' = With([t \in Tasks |-> Off], "JOIN", delay)
  BY DEF RejoinCommand, Rejoin
<1>2. [t \in Tasks |-> Off] \in Table /\ delay \in 0 .. Off /\ delay # Off /\ "JOIN" \in Tasks
  BY Delays, TheTasks DEF Table, Soon
<1>3. tasks'["JOIN"] # Off /\ \A t \in Tasks \ {"JOIN"} : tasks'[t] = Off
  BY <1>1, <1>2, Adds
<1>4. /\ announced' = FALSE /\ joining' = TRUE /\ elected' = Idle
      /\ file'.state = "NOT_INIT" /\ stream'.init = FALSE
  BY LeaveTypes DEF RejoinCommand, Rejoin
<1> QED
  BY <1>3, <1>4 DEF JoinInv, ServicesKept, Cleared, Kept, Live

\* The user's commands.
LEMMA UserKept ==
    ASSUME ServiceTypes, JoinInv, ServicesKept, UserCommand
    PROVE  /\ JoinInv' /\ ServicesKept'
           /\ \/ elected' = Idle
              \/ elected' = elected /\ (elected = "JOIN" /\ Live("JOIN")' => Live("JOIN"))
<1>0. tasks \in Table /\ (announced => joined /\ ~joining)
  BY DEF ServiceTypes, JoinInv
<1>t. /\ "DM_NOW" \in Tasks /\ "SEND" \in Tasks /\ "CLOCK_SYNC_TIME_REQ" \in Tasks
      /\ "ALC_SYNC_ANS" \in Tasks /\ "DM" \in Tasks /\ "JOIN" \in Tasks
      /\ "FILE_UPLOAD" \in Tasks /\ "STREAM" \in Tasks /\ "SEND_EXTENDED" \in Tasks
      /\ "REQUEST" \in Tasks
  BY TheTasks
<1>d. /\ Soon \in 0 .. Off /\ Later \in 0 .. Off /\ 0 \in 0 .. Off
      /\ Later # Off /\ Off # 0 /\ Soon # Off
  BY Delays
<1>e. \A delay \in 0 .. Soon : delay \in 0 .. Off /\ delay # Off
  BY Delays DEF Soon
<1>1. CASE JoinNetwork
  <2>1. PICK delay \in 0 .. Soon : tasks' = With(tasks, "JOIN", delay)
    BY <1>1 DEF JoinNetwork
  <2>2. tasks'["JOIN"] # Off /\ \A t \in Tasks \ {"JOIN"} : tasks'[t] = tasks[t]
    BY <1>t, <1>e, <1>0, <2>1, AddsNow, Zenon
  <2>3. ~joined /\ ~joining
    BY <1>1 DEF JoinNetwork, JoinState
  <2>4. /\ joining' = TRUE /\ UNCHANGED <<elected, joined, announced>> /\ elected # "JOIN"
        /\ file'.state # "ON_GOING" /\ ~(stream'.init /\ stream'.left > 0)
    BY <1>1, <2>3 DEF JoinNetwork, JoinInv, services
  <2>5. ~announced'
    BY <1>0, <2>3, <2>4
  <2> QED
    BY <2>2, <2>3, <2>4, <2>5 DEF JoinInv, ServicesKept, Kept, Live
<1>2. CASE LeaveCommand
  <2>1. /\ announced' = FALSE /\ joining' = FALSE /\ elected' = Idle
        /\ tasks' = [t \in Tasks |-> Off]
        /\ file'.state = "NOT_INIT" /\ stream'.init = FALSE
    BY <1>2, LeaveTypes DEF LeaveCommand, LeaveNetwork
  <2> QED
    BY <1>t, <2>1, TheTasks DEF JoinInv, ServicesKept, Kept, Live
<1>3. CASE RequestUplink
  <2>1. \A t \in Tasks \ {"SEND"} : tasks'[t] = tasks[t]
    <3>1. tasks' = With(tasks, "SEND", 0)
      BY <1>3 DEF RequestUplink
    <3> QED
      BY <1>t, <1>d, <1>0, <3>1, AddsNow, Zenon
  <2> QED
    BY <1>t, <1>3, <2>1, StillKept DEF RequestUplink, link, services, Live
<1>4. CASE RequestExtended
  <2>1. \A t \in Tasks \ {"SEND_EXTENDED"} : tasks'[t] = tasks[t]
    <3>1. CASE tasks' = With(tasks, "SEND_EXTENDED", 0)
      BY <1>t, <1>d, <1>0, <3>1, AddsNow, Zenon
    <3>2. CASE tasks' = Without(tasks, {"SEND_EXTENDED"})
      BY <1>0, <3>2, Removes
    <3> QED
      BY <1>4, <3>1, <3>2 DEF RequestExtended
  <2> QED
    BY <1>t, <1>4, <2>1, StillKept DEF RequestExtended, link, services, Live
<1>5. CASE RequestCid
  <2>1. \A t \in Tasks \ {"REQUEST"} : tasks'[t] = tasks[t]
    <3>1. tasks' = With(tasks, "REQUEST", 0)
      BY <1>5 DEF RequestCid
    <3> QED
      BY <1>t, <1>d, <1>0, <3>1, AddsNow, Zenon
  <2> QED
    BY <1>t, <1>5, <2>1, StillKept DEF RequestCid, link, services, Live
<1>6. CASE Suspend
  BY <1>6, StillKept DEF Suspend, sched, link, services, Live
<1>7. CASE SetAlarm
  BY <1>7, StillKept DEF SetAlarm, sched, link, services, Live
<1>8. CASE FileInit
  <2>1. file'.state # "ON_GOING"
    BY <1>8 DEF FileInit
  <2> QED
    BY <1>8, <2>1, StillKept DEF FileInit, sched, link, Live
<1>9. CASE FileStart
  <2>1. PICK delay \in 0 .. Soon : tasks' = With(tasks, "FILE_UPLOAD", delay)
    BY <1>9 DEF FileStart
  <2>2. /\ tasks'["FILE_UPLOAD"] # Off
        /\ \A t \in Tasks \ {"FILE_UPLOAD"} : tasks'[t] = tasks[t]
    BY <1>t, <1>e, <1>0, <2>1, AddsNow, Zenon
  <2> QED
    BY <1>t, <1>9, <2>2, StillKept DEF FileStart, link, Live, Connected, JoinState
<1>10. CASE FileReset
  <2>1. file'.state # "ON_GOING"
    BY <1>10 DEF FileReset, ServiceTypes
  <2> QED
    BY <1>10, <2>1, StillKept DEF FileReset, sched, link, Live
<1>11. CASE StreamInit
  <2>1. \A t \in Tasks \ {"STREAM"} : tasks'[t] = tasks[t]
    BY <1>t, <1>d, <1>0, <1>11, Removes DEF StreamInit
  <2>2. ~(stream'.left > 0)
    BY <1>11 DEF StreamInit
  <2> QED
    BY <1>t, <1>11, <2>1, <2>2, StillKept DEF StreamInit, link, Live
<1>12. CASE StreamAdd
  <2>1. tasks'["STREAM"] # Off /\ \A t \in Tasks \ {"STREAM"} : tasks'[t] = tasks[t]
    <3>1. tasks' = With(tasks, "STREAM", Soon)
      BY <1>12 DEF StreamAdd
    <3> QED
      BY <1>t, <1>d, <1>0, <3>1, AddsNow, Zenon
  <2> QED
    BY <1>t, <1>12, <2>1, StillKept DEF StreamAdd, link, Live, Connected, JoinState
<1>13. CASE SetInterval
  <2>1. PICK on \in BOOLEAN : tasks' = WithJoined(tasks, "DM", IF on THEN Later ELSE 0)
    BY <1>13 DEF SetInterval
  <2>2. (IF on THEN Later ELSE 0) \in 0 .. Off /\ (IF on THEN Later ELSE 0) # Off
    BY <1>d
  <2>3. /\ announced => tasks'["DM"] # Off
        /\ \A t \in Tasks \ {"DM"} : tasks'[t] = tasks[t]
    <3>1. PICK d \in 0 .. Off : d # Off /\ tasks' = WithJoined(tasks, "DM", d)
      BY <2>1, <2>2
    <3> QED
      BY <1>t, <1>0, <3>1, AddsJoinedNow, Zenon
  <2> QED
    BY <1>t, <1>13, <2>3, StillKept DEF SetInterval, link, Live
<1>14. CASE RequestSingleUplink
  <2>1. \A t \in Tasks \ {"DM_NOW"} : tasks'[t] = tasks[t]
    <3>1. tasks' = With(tasks, "DM_NOW", Soon)
      BY <1>14 DEF RequestSingleUplink
    <3> QED
      BY <1>t, <1>d, <1>0, <3>1, AddsNow, Zenon
  <2> QED
    BY <1>t, <1>14, <2>1, StillKept DEF RequestSingleUplink, link, services, Live
<1>15. CASE StartSync
  <2>1. /\ announced => tasks'["CLOCK_SYNC_TIME_REQ"] # Off
        /\ \A t \in Tasks \ {"CLOCK_SYNC_TIME_REQ"} : tasks'[t] = tasks[t]
    <3>1. CASE Live("CLOCK_SYNC_TIME_REQ")
      BY <1>15, <3>1 DEF StartSync, Live
    <3>2. CASE ~Live("CLOCK_SYNC_TIME_REQ")
      <4>1. tasks' = WithJoined(tasks, "CLOCK_SYNC_TIME_REQ", Soon)
        BY <1>15, <3>2 DEF StartSync
      <4> QED
        BY <1>t, <1>d, <1>0, <4>1, AddsJoinedNow, Zenon
    <3> QED
      BY <3>1, <3>2
  <2> QED
    BY <1>t, <1>15, <2>1, StillKept DEF StartSync, link, Live
<1>16. CASE StopSync
  <2>1. \A t \in Tasks \ {"CLOCK_SYNC_TIME_REQ", "ALC_SYNC_ANS"} : tasks'[t] = tasks[t]
    BY <1>0, <1>16, Removes DEF StopSync
  <2>2. ~clock'
    BY <1>16 DEF StopSync
  <2> QED
    BY <1>t, <1>16, <2>1, <2>2, StillKept DEF StopSync, link, Live
<1>17. CASE TriggerSync
  <2>1. /\ tasks'["CLOCK_SYNC_TIME_REQ"] # Off
        /\ \A t \in Tasks \ {"CLOCK_SYNC_TIME_REQ"} : tasks'[t] = tasks[t]
    <3>1. tasks' = With(tasks, "CLOCK_SYNC_TIME_REQ", Soon)
      BY <1>17 DEF TriggerSync
    <3> QED
      BY <1>t, <1>d, <1>0, <3>1, AddsNow, Zenon
  <2> QED
    BY <1>t, <1>17, <2>1, StillKept DEF TriggerSync, link, services, Live
<1> QED
  BY <1>1, <1>2, <1>3, <1>4, <1>5, <1>6, <1>7, <1>8, <1>9, <1>10, <1>11, <1>12, <1>13, <1>14,
     <1>15, <1>16, <1>17
  DEF UserCommand

\* An update that leaves the elected task without its service, or adds it again.
LEMMA StillLive ==
    ASSUME JoinInv, ServicesKept, elected # "JOIN", elected' = Idle,
           UNCHANGED <<joined, joining, announced>>, Live("JOIN")' <=> Live("JOIN"),
           file'.state = "ON_GOING" => file.state = "ON_GOING" \/ (joined /\ ~joining),
           stream'.init /\ stream'.left > 0 =>
              (stream.init /\ stream.left > 0) \/ (joined /\ ~joining),
           file'.state = "ON_GOING" =>
              \/ Live("FILE_UPLOAD")' \/ ~announced
              \/ /\ file.state = "ON_GOING" /\ elected # "FILE_UPLOAD"
                 /\ Live("FILE_UPLOAD") => Live("FILE_UPLOAD")',
           stream'.init /\ stream'.left > 0 =>
              \/ Live("STREAM")' \/ ~announced
              \/ /\ stream.init /\ stream.left > 0 /\ elected # "STREAM"
                 /\ Live("STREAM") => Live("STREAM")',
           clock' =>
              \/ Live("CLOCK_SYNC_TIME_REQ")' \/ ~announced
              \/ /\ clock /\ elected # "CLOCK_SYNC_TIME_REQ"
                 /\ Live("CLOCK_SYNC_TIME_REQ") => Live("CLOCK_SYNC_TIME_REQ")',
           dm'.on => \/ Live("DM")' \/ ~announced
                     \/ dm.on /\ elected # "DM" /\ (Live("DM") => Live("DM")')
    PROVE  JoinInv' /\ ServicesKept'
  BY DEF JoinInv, ServicesKept, Kept, Idle

\* The update of the elected task adds it again while its service is on; a service
\* would stop for good if it did not.
LEMMA UpdateKept ==
    ASSUME ServiceTypes, JoinInv, PlaceInv, ServicesKept, Update
    PROVE  JoinInv' /\ ServicesKept'
<1>0. /\ tasks \in Table /\ (announced => joined /\ ~joining) /\ elected \in Tasks \cup {Idle}
      /\ elected' = Idle /\ clock' = clock
  BY DEF ServiceTypes, JoinInv, Update
<1>t. /\ "DM_NOW" \in Tasks /\ "SEND" \in Tasks /\ "CLOCK_SYNC_TIME_REQ" \in Tasks
      /\ "ALC_SYNC_ANS" \in Tasks /\ "DM" \in Tasks /\ "JOIN" \in Tasks
      /\ "FILE_UPLOAD" \in Tasks /\ "STREAM" \in Tasks /\ "MUTE" \in Tasks
      /\ "RETRIEVE_DL" \in Tasks
  BY TheTasks
<1>d. /\ Soon \in 0 .. Off /\ Later \in 0 .. Off /\ 0 \in 0 .. Off
      /\ Later # Off /\ Off # 0 /\ Soon # Off
  BY Delays
<1>e. \A delay \in 0 .. Soon : delay \in 0 .. Off /\ delay # Off
  BY Delays DEF Soon
<1>1. CASE UpdateJoin
  <2>1. joining /\ ~announced /\ ~Live("JOIN")
    BY <1>1 DEF UpdateJoin, Update, JoinInv, PlaceInv, Launching, At
  <2>2. CASE joined
    <3>1. /\ joining' = FALSE /\ announced' = TRUE /\ joined' = joined
          /\ dm'.on = dm.on /\ UNCHANGED <<file, stream>>
          /\ file.state # "ON_GOING" /\ ~(stream.init /\ stream.left > 0)
      BY <1>1, <2>1, <2>2 DEF UpdateJoin, ServiceTypes, JoinInv
    <3>2. /\ tasks'["DM"] = 0 /\ (clock => tasks'["CLOCK_SYNC_TIME_REQ"] = Soon)
          /\ tasks'["JOIN"] = tasks["JOIN"]
      BY <1>0, <1>1, <1>t, <2>1, <2>2 DEF UpdateJoin, Table
    <3> QED
      BY <1>0, <1>d, <2>1, <2>2, <3>1, <3>2 DEF JoinInv, ServicesKept, Kept, Live, Idle
  <2>3. CASE ~joined
    <3>1. PICK delay \in 0 .. Soon : tasks' = With(tasks, "JOIN", delay)
      BY <1>1, <2>1, <2>3 DEF UpdateJoin, JoinAgain
    <3>2. tasks'["JOIN"] # Off
      BY <1>0, <1>t, <1>e, <3>1, AddsNow, Zenon
    <3> QED
      BY <1>1, <2>1, <2>3, <3>2 DEF UpdateJoin, JoinInv, ServicesKept, Kept, Live
  <2> QED
    BY <2>2, <2>3
<1>2. CASE UpdateSend
  BY <1>0, <1>2, StillLive DEF UpdateSend, link, Live
<1>3. CASE UpdateDm
  <2>1. PICK d \in 0 .. Off : /\ d # Off
                             /\ tasks' = IF dm.on THEN WithJoined(tasks, "DM", d) ELSE tasks
    BY <1>3, <1>d DEF UpdateDm
  <2>2. /\ dm.on /\ announced => tasks'["DM"] # Off
        /\ \A t \in Tasks \ {"DM"} : tasks'[t] = tasks[t]
    <3>1. CASE dm.on
      BY <1>0, <1>t, <2>1, <3>1, AddsJoinedNow, Zenon
    <3>2. CASE ~dm.on
      BY <2>1, <3>2
    <3> QED
      BY <3>1, <3>2
  <2> QED
    BY <1>0, <1>t, <1>3, <2>2, StillLive DEF UpdateDm, link, Live
<1>4. CASE UpdateDmNow
  <2>1. \A t \in Tasks \ {"DM_NOW"} : tasks'[t] = tasks[t]
    <3>1. CASE tasks' = tasks
      BY <3>1
    <3>2. CASE tasks' = With(tasks, "DM_NOW", Soon)
      BY <1>0, <1>t, <1>d, <3>2, AddsNow, Zenon
    <3> QED
      BY <1>4, <3>1, <3>2 DEF UpdateDmNow
  <2> QED
    BY <1>0, <1>t, <1>4, <2>1, StillLive DEF UpdateDmNow, link, Live
<1>5. CASE UpdateFile
  <2>1. CASE file.state = "ON_GOING" /\ file.left > 0
    <3>1. tasks' = With(tasks, "FILE_UPLOAD", Soon) /\ UNCHANGED file
      BY <1>5, <2>1 DEF UpdateFile
    <3>2. /\ tasks'["FILE_UPLOAD"] # Off
          /\ \A t \in Tasks \ {"FILE_UPLOAD"} : tasks'[t] = tasks[t]
      BY <1>0, <1>t, <1>d, <3>1, AddsNow, Zenon
    <3> QED
      BY <1>0, <1>t, <1>5, <3>1, <3>2, StillLive DEF UpdateFile, link, Live
  <2>2. CASE ~(file.state = "ON_GOING" /\ file.left > 0)
    <3>1. tasks' = tasks /\ file'.state # "ON_GOING"
      BY <1>5, <2>2 DEF UpdateFile, ServiceTypes
    <3> QED
      BY <1>0, <1>5, <3>1, StillLive DEF UpdateFile, link, Live
  <2> QED
    BY <2>1, <2>2
<1>6. CASE UpdateStream
  <2>1. CASE stream.left > 0
    <3>1. tasks' = With(tasks, "STREAM", Soon)
      BY <1>6, <2>1 DEF UpdateStream
    <3>2. tasks'["STREAM"] # Off /\ \A t \in Tasks \ {"STREAM"} : tasks'[t] = tasks[t]
      BY <1>0, <1>t, <1>d, <3>1, AddsNow, Zenon
    <3> QED
      BY <1>0, <1>t, <1>6, <3>2, StillLive DEF UpdateStream, link, Live
  <2>2. CASE ~(stream.left > 0)
    <3>1. tasks' = tasks /\ ~(stream'.left > 0)
      BY <1>6, <2>2 DEF UpdateStream
    <3> QED
      BY <1>0, <1>6, <3>1, StillLive DEF UpdateStream, link, Live
  <2> QED
    BY <2>1, <2>2
<1>7. CASE UpdateMute
  <2>1. \A t \in Tasks \ {"MUTE"} : tasks'[t] = tasks[t]
    <3>1. CASE tasks' = tasks
      BY <3>1
    <3>2. CASE tasks' = With(tasks, "MUTE", Later)
      BY <1>0, <1>t, <1>d, <3>2, AddsNow, Zenon
    <3> QED
      BY <1>7, <3>1, <3>2 DEF UpdateMute
  <2> QED
    BY <1>0, <1>t, <1>7, <2>1, StillLive DEF UpdateMute, link, Live
<1>8. CASE UpdateRetrieve
  <2>1. \A t \in Tasks \ {"RETRIEVE_DL"} : tasks'[t] = tasks[t]
    <3>1. CASE tasks' = tasks
      BY <3>1
    <3>2. CASE tasks' = WithJoined(tasks, "RETRIEVE_DL", Soon)
      BY <1>0, <1>t, <1>d, <3>2, AddsJoinedNow, Zenon
    <3> QED
      BY <1>8, <3>1, <3>2 DEF UpdateRetrieve
  <2> QED
    BY <1>0, <1>t, <1>8, <2>1, StillLive DEF UpdateRetrieve, link, Live
<1>9. CASE UpdateClock
  <2>1. PICK delay \in {Soon, Later}, unanswered \in BOOLEAN :
          LET next == IF clock THEN With(tasks, elected, delay) ELSE tasks
          IN IF unanswered /\ upCount = 0 THEN Opportunity(next, 1)
             ELSE tasks' = next /\ UNCHANGED upCount
    BY <1>9 DEF UpdateClock
  <2>2. delay \in 0 .. Off /\ delay # Off /\ elected = "CLOCK_SYNC_TIME_REQ"
    BY <1>9, <1>d DEF UpdateClock
  <2> DEFINE Following == IF clock THEN With(tasks, elected, delay) ELSE tasks
  <2>3. /\ Following \in Table /\ (clock => Following["CLOCK_SYNC_TIME_REQ"] # Off)
        /\ \A t \in Tasks \ {"CLOCK_SYNC_TIME_REQ"} : Following[t] = tasks[t]
    <3>1. CASE clock
      <4>1. Following = With(tasks, "CLOCK_SYNC_TIME_REQ", delay)
        BY <2>2, <3>1
      <4>2. /\ With(tasks, "CLOCK_SYNC_TIME_REQ", delay) \in Table
            /\ With(tasks, "CLOCK_SYNC_TIME_REQ", delay)["CLOCK_SYNC_TIME_REQ"] = delay
            /\ \A t \in Tasks \ {"CLOCK_SYNC_TIME_REQ"} :
                  With(tasks, "CLOCK_SYNC_TIME_REQ", delay)[t] = tasks[t]
        BY <1>0, <1>t, <2>2 DEF With, Table
      <4> HIDE DEF Following
      <4> QED
        BY <2>2, <4>1, <4>2
    <3>2. CASE ~clock
      BY <1>0, <3>2
    <3> QED
      BY <3>1, <3>2
  <2>4. \A t \in Tasks \ {"RETRIEVE_DL"} : tasks'[t] = Following[t]
    <3>1. tasks' = Following \/ Opportunity(Following, 1)
      BY <2>1
    <3> HIDE DEF Following
    <3> QED
      BY <2>3, <3>1, Asks
  <2> HIDE DEF Following
  <2>5. /\ clock => tasks'["CLOCK_SYNC_TIME_REQ"] # Off
        /\ \A t \in {"JOIN", "FILE_UPLOAD", "STREAM", "DM"} : tasks'[t] = tasks[t]
    BY <1>t, <2>3, <2>4
  <2> QED
    BY <1>0, <1>t, <1>9, <2>2, <2>5, StillLive DEF UpdateClock, link, Live
<1>10. CASE UpdateAlc
  <2>1. \A t \in Tasks \ {"ALC_SYNC_ANS"} : tasks'[t] = tasks[t]
    <3>1. CASE tasks' = tasks
      BY <3>1
    <3>2. CASE tasks' = WithJoined(tasks, "ALC_SYNC_ANS", Later)
      BY <1>0, <1>t, <1>d, <3>2, AddsJoinedNow, Zenon
    <3> QED
      BY <1>10, <3>1, <3>2 DEF UpdateAlc
  <2> QED
    BY <1>0, <1>t, <1>10, <2>1, StillLive DEF UpdateAlc, link, Live
<1>11. CASE UpdateRequest
  BY <1>0, <1>11, StillLive DEF UpdateRequest, link, Live
<1>12. CASE UpdateOther
  BY <1>0, <1>12, StillLive DEF UpdateOther, link, Live, Idle
<1> QED
  BY <1>1, <1>2, <1>3, <1>4, <1>5, <1>6, <1>7, <1>8, <1>9, <1>10, <1>11, <1>12 DEF Update

\* A launch leaves the tasks alone, and the services as they are.
LEMMA LaunchKept ==
    ASSUME ServiceTypes, JoinInv, PlaceInv, ServicesKept, Launch
    PROVE  JoinInv' /\ ServicesKept' /\ UNCHANGED <<tasks, elected, announced, joining>>
<1>u. tasks' = tasks
  BY DEF Launch
<1>1. CASE LaunchJoin
  <2>1. elected = "JOIN" \/ Cleared
    BY <1>1 DEF LaunchJoin, Launch, PlaceInv, Launching, At
  <2>2. elected = "JOIN"
    BY <1>1, <2>1 DEF LaunchJoin, Launch, PlaceInv, Launching, At
  <2>3. joining
    BY <2>2 DEF JoinInv
  <2>4. ~announced /\ file.state # "ON_GOING" /\ ~(stream.init /\ stream.left > 0)
    BY <2>3 DEF JoinInv
  <2>5. UNCHANGED <<elected, joining, announced, services>>
    BY <1>1, <2>3 DEF LaunchJoin
  <2> QED
    BY <1>u, <2>3, <2>4, <2>5 DEF JoinInv, ServicesKept, Kept, Live, services
<1>2. CASE LaunchSend
  BY <1>2, <1>u, StillKept DEF LaunchSend, Send, services, Live
<1>3. CASE LaunchDm
  <2>1. UNCHANGED <<elected, joined, joining, announced, file, stream, clock>>
    BY <1>3 DEF LaunchDm, Send, SendNothing, link
  <2>2. dm'.on = dm.on
    BY <1>3 DEF LaunchDm, ServiceTypes
  <2> QED
    BY <1>u, <2>1, <2>2, StillKept DEF Live
<1>4. CASE LaunchDmNow
  <2>1. UNCHANGED <<elected, joined, joining, announced, file, stream, clock>>
    BY <1>4 DEF LaunchDmNow, Send, SendNothing, link
  <2>2. dm'.on = dm.on
    BY <1>4 DEF LaunchDmNow, ServiceTypes
  <2> QED
    BY <1>u, <2>1, <2>2, StillKept DEF Live
<1>5. CASE LaunchFile
  <2>1. UNCHANGED <<elected, joined, joining, announced, dm, stream, clock>>
    BY <1>5 DEF LaunchFile, Send, SendNothing, link
  <2>2. file'.state = file.state
    BY <1>5 DEF LaunchFile, ServiceTypes
  <2> QED
    BY <1>u, <2>1, <2>2, StillKept DEF Live
<1>6. CASE LaunchStream
  <2>1. UNCHANGED <<elected, joined, joining, announced, dm, file, clock>>
    BY <1>6 DEF LaunchStream, Send, SendNothing, link
  <2>2. stream'.init = stream.init /\ (stream'.left > 0 => stream.left > 0)
    BY <1>6 DEF LaunchStream, ServiceTypes
  <2> QED
    BY <1>u, <2>1, <2>2, StillKept DEF Live
<1>7. CASE LaunchMute
  BY <1>7, <1>u, StillKept DEF LaunchMute, SendNothing, link, services, Live
<1>8. CASE LaunchRetrieve
  <2>1. UNCHANGED <<elected, joined, joining, announced, services>>
    BY <1>8 DEF LaunchRetrieve, Send, SendNothing, link
  <2> QED
    BY <1>u, <2>1, StillKept DEF Live, services
<1>9. CASE LaunchRequest
  BY <1>9, <1>u, StillKept DEF LaunchRequest, services, Live
<1> QED
  BY <1>1, <1>2, <1>3, <1>4, <1>5, <1>6, <1>7, <1>8, <1>9 DEF Launch

\* The launched task is removed; until its update it is kept by being elected.
LEMMA RemoveKept ==
    ASSUME ServiceTypes, JoinInv, PlaceInv, ServicesKept, Remove
    PROVE  JoinInv' /\ ServicesKept'
<1>0. /\ tasks \in Table /\ tasks' = Without(tasks, {main.id}) /\ main.id \in Tasks
      /\ UNCHANGED <<elected, joined, joining, announced, dm, file, stream, clock>>
      /\ elected = main.id \/ (Cleared /\ main.id # "JOIN")
  BY DEF Remove, ServiceTypes, PlaceInv, Launching, At, link, services
<1>1. \A t \in Tasks : (t = main.id => tasks'[t] = Off) /\ (t # main.id => tasks'[t] = tasks[t])
  BY <1>0 DEF Without
<1>2. \A t \in Tasks : Kept(t) /\ (announced \/ t = "JOIN") => Kept(t)'
  BY <1>0, <1>1 DEF Kept, Live, Cleared
<1>3. "JOIN" \in Tasks /\ "DM" \in Tasks /\ "FILE_UPLOAD" \in Tasks /\ "STREAM" \in Tasks
      /\ "CLOCK_SYNC_TIME_REQ" \in Tasks
  BY TheTasks
<1>4. ServicesKept'
  BY <1>0, <1>2, <1>3 DEF ServicesKept
<1>5. JoinInv'
  BY <1>0, <1>1, <1>3 DEF JoinInv, Live
<1> QED
  BY <1>4, <1>5

\* The soonest task is elected; no other is at that time.
LEMMA ElectKept ==
    ASSUME ServiceTypes, JoinInv, PlaceInv, ServicesKept, Elect
    PROVE  JoinInv' /\ ServicesKept' /\ PlaceInv'
<1>1. /\ elected = Idle /\ elected' \in Tasks /\ tasks[elected'] = 0
      /\ UNCHANGED <<tasks, link, services>>
  BY DEF Elect, PlaceInv, At, Due
<1>2. JoinInv'
  BY <1>1, Delays DEF JoinInv, Live, link, services
<1>3. ServicesKept'
  BY <1>1, TheTasks DEF ServicesKept, Kept, Live, link, services
<1>4. main'.pc = "launch" /\ main'.id = elected'
  BY DEF Elect
<1> QED
  BY <1>1, <1>2, <1>3, <1>4 DEF PlaceInv, Launching

-----------------------------------------------------------------------------
(* The steps. *)

\* Every step leaves the services their tasks.
LEMMA ServiceStep ==
    ASSUME SupervisorTypeOK, JoinInv, PlaceInv, ServicesKept, [Next]_vars
    PROVE  JoinInv' /\ ServicesKept'
<1>0. ServiceTypes
  BY DEF SupervisorTypeOK
<1>k. ASSUME UNCHANGED <<sched, joined, joining, announced, services>>
      PROVE  JoinInv' /\ ServicesKept'
  BY <1>k, StillKept DEF sched, services, Live
<1>1. CASE EngineStart \/ StackIdle \/ Events \/ Sleep \/ CallReturns
  BY <1>1, <1>k DEF EngineStart, StackIdle, Events, Sleep, CallReturns, link
<1>2. CASE Process
  <2>1. CASE MacStarts
    BY <1>k, <2>1 DEF MacStarts
  <2>2. CASE MacEnds
    <3>1. /\ UNCHANGED <<tasks, elected, joining, announced, dm, file, stream, clock>>
          /\ joined => joined'
      BY <1>0, <2>2 DEF MacEnds, sched, services, ServiceTypes
    <3> QED
      BY <3>1 DEF JoinInv, ServicesKept, Kept, Live
  <2>3. CASE MacReceives
    BY <1>0, <2>3, CommandKept, RejoinKept DEF MacReceives
  <2>4. CASE UNCHANGED <<sched, link, limits, upCount, services, events>>
    BY <1>k, <2>4 DEF link
  <2> QED
    BY <1>2, <2>1, <2>2, <2>3, <2>4 DEF Process
<1>3. CASE Update
  BY <1>0, <1>3, UpdateKept
<1>4. CASE Elect
  BY <1>0, <1>4, ElectKept
<1>5. CASE Launch
  BY <1>0, <1>5, LaunchKept
<1>6. CASE Remove
  BY <1>0, <1>6, RemoveKept
<1>7. CASE UserCommand
  BY <1>0, <1>7, UserKept
<1>8. CASE WorkCommand
  BY <1>0, <1>8, CommandKept, RejoinKept DEF WorkCommand
<1>9. CASE Tick
  <2>1. \A t \in Tasks : Live(t)' <=> Live(t)
    <3>1. \A t \in Tasks : tasks[t] \in 0 .. Off /\ tasks'[t] = Subtract(tasks[t])
      BY <1>0, <1>9 DEF Tick, ServiceTypes, Table
    <3> QED
      BY <3>1, Passes DEF Live
  <2>2. UNCHANGED <<elected, joined, joining, announced, dm, file, stream, clock>>
    BY <1>9 DEF Tick, link, services
  <2> QED
    BY <2>1, <2>2, StillKept, TheTasks
<1>10. CASE UNCHANGED vars
  BY <1>10, <1>k DEF vars, link
<1> QED
  BY <1>1, <1>2, <1>3, <1>4, <1>5, <1>6, <1>7, <1>8, <1>9, <1>10 DEF Next, Engine

\* Every step leaves the launched task the elected one, unless it is a leave.
LEMMA PlaceStep ==
    ASSUME SupervisorTypeOK, JoinInv, PlaceInv, ServicesKept, [Next]_vars
    PROVE  PlaceInv'
<1>0. ServiceTypes /\ main \in MainRecord /\ alarm \in 0 .. Off /\ tasks \in Table /\ "JOIN" \in Tasks
  BY TheTasks DEF SupervisorTypeOK, ServiceTypes
<1>p. \A pc \in Places : Goto(pc) => main'.pc = pc /\ main'.id = main.id
  BY <1>0, Goes
<1>1. CASE EngineStart
  BY <1>1, <1>p DEF EngineStart, PlaceInv, Launching, At, Places, sched, Live
<1>2. CASE Process
  <2>1. main'.pc = "sleep" /\ main.pc = "stack"
    BY <1>0, <1>2, Returns, Delays DEF Process, At
  <2>2. CASE UNCHANGED sched
    BY <2>1, <2>2 DEF PlaceInv, Launching, sched, Live
  <2>3. CASE Command
    <3>1. elected' = elected /\ (Live("JOIN")' <=> Live("JOIN"))
      BY <1>0, <2>3, CommandKept
    <3> QED
      BY <2>1, <3>1 DEF PlaceInv, Launching
  <2>4. CASE RejoinCommand
    BY <1>0, <2>1, <2>4, RejoinKept DEF PlaceInv, Launching, Cleared, Idle
  <2> QED
    BY <1>2, <2>2, <2>3, <2>4 DEF Process, MacStarts, MacEnds, MacReceives
<1>3. CASE StackIdle
  BY <1>3, <1>p DEF StackIdle, PlaceInv, Launching, At, Places, sched, Live
<1>4. CASE Update
  BY <1>4, <1>p DEF Update, PlaceInv, Launching, At, Places, Idle
<1>5. CASE Events
  BY <1>5, <1>p DEF Events, PlaceInv, Launching, At, Places, sched, Idle
<1>6. CASE Sleep
  <2>1. main'.pc = "sleep"
    BY <1>0, <1>6, Returns, SoonestIs, Delays DEF Sleep, SupervisorTypeOK
  <2> QED
    BY <1>6, <2>1 DEF Sleep, PlaceInv, Launching, At, sched, Idle
<1>7. CASE Elect
  BY <1>0, <1>7, ElectKept
<1>8. CASE Launch
  <2>1. main'.pc = "remove" /\ main'.id = main.id /\ main.pc = "launch"
    BY <1>8, <1>p DEF Launch, At, Places
  <2>2. UNCHANGED <<tasks, elected, announced, joining>>
    BY <1>0, <1>8, LaunchKept
  <2> QED
    BY <2>1, <2>2 DEF PlaceInv, Launching, Cleared, Live
<1>9. CASE Remove
  <2>1. main'.pc = "sleep" /\ main.pc = "remove" /\ elected' = elected
    BY <1>0, <1>9, Returns, Delays DEF Remove, At
  <2>2. elected = "JOIN" => main.id = "JOIN"
    BY <2>1 DEF PlaceInv, Launching, Cleared, Idle
  <2>3. tasks'[main.id] = Off \/ main.id # "JOIN"
    BY <1>0, <1>9 DEF Remove, Without
  <2> QED
    BY <2>1, <2>2, <2>3 DEF PlaceInv, Launching, Live
<1>10. CASE UserCommand
  <2>1. \/ elected' = Idle
        \/ elected' = elected /\ (elected = "JOIN" /\ Live("JOIN")' => Live("JOIN"))
    BY <1>0, <1>10, UserKept
  <2>2. main' = main /\ main.pc \in {"call", "alarmCall"}
    BY <1>10 DEF UserCommand, Calling, At
  <2> QED
    BY <2>1, <2>2 DEF PlaceInv, Launching, Idle
<1>11. CASE CallReturns
  BY <1>11, <1>p DEF CallReturns, Calling, PlaceInv, Launching, At, Places, sched, Live
<1>12. CASE WorkCommand
  <2>1. main' = main /\ announced /\ ~Cleared /\ elected # "JOIN"
    BY <1>12 DEF WorkCommand, Cleared, JoinInv
  <2>2. CASE Command
    <3>1. elected' = elected
      BY <1>0, <2>2, CommandKept
    <3> QED
      BY <2>1, <3>1 DEF PlaceInv, Launching
  <2>3. CASE RejoinCommand
    <3>1. Cleared'
      BY <1>0, <2>3, RejoinKept
    <3> QED
      BY <2>1, <3>1 DEF PlaceInv, Launching, Cleared, Idle
  <2> QED
    BY <1>12, <2>2, <2>3 DEF WorkCommand
<1>13. CASE Tick
  <2>1. Live("JOIN")' => Live("JOIN")
    <3>1. tasks["JOIN"] \in 0 .. Off /\ tasks'["JOIN"] = Subtract(tasks["JOIN"])
      BY <1>0, <1>13 DEF Tick, Table
    <3> QED
      BY <3>1, Passes DEF Live
  <2>2. main'.pc = "sleep" /\ main.pc = "sleep" /\ elected' = elected
    BY <1>0, <1>13 DEF Tick, At, MainRecord
  <2> QED
    BY <2>1, <2>2 DEF PlaceInv, Launching
<1>14. CASE UNCHANGED vars
  BY <1>14 DEF vars, sched, link, PlaceInv, Launching, Cleared, Live
<1> QED
  BY <1>1, <1>2, <1>3, <1>4, <1>5, <1>6, <1>7, <1>8, <1>9, <1>10, <1>11, <1>12, <1>13, <1>14
  DEF Next, Engine

\* While the main thread sleeps only time passes, and time passes for all alike.
LEMMA SleepStep ==
    ASSUME SupervisorTypeOK, SleepInv, [Next]_vars
    PROVE  SleepInv'
<1>0. /\ main \in MainRecord /\ alarm \in 0 .. Off /\ tasks \in Table /\ wait \in 0 .. Later
  BY DEF SupervisorTypeOK, ServiceTypes
<1>p. \A pc \in Places : Goto(pc) => main'.pc = pc
  BY <1>0, Goes
<1>z. ASSUME Return(0)
      PROVE  SleepInv'
  <2>1. main'.sleep <= 0 /\ tasks' \in Table
    BY <1>0, <1>z, Returns, Delays, TypeStep DEF SupervisorTypeOK, ServiceTypes
  <2>2. main'.sleep \in Int /\ \A t \in Tasks : tasks'[t] \in Int /\ tasks'[t] >= 0
    BY <1>0, <1>z, <2>1, Returns, Delays DEF Table, MainRecord
  <2>3. \A t \in Tasks : main'.sleep <= tasks'[t]
    BY <2>1, <2>2
  <2> QED
    BY <2>3 DEF SleepInv
<1>1. CASE EngineStart
  BY <1>1, <1>p DEF EngineStart, SleepInv, At, Places
<1>2. CASE Process \/ Remove
  BY <1>2, <1>z DEF Process, Remove
<1>3. CASE StackIdle \/ Update \/ Events \/ Launch
  BY <1>3, <1>p DEF StackIdle, Update, Events, Launch, SleepInv, At, Places
<1>4. CASE Sleep
  <2>1. CASE Waits /\ Return(wait)
    <3>1. main'.sleep <= wait
      BY <1>0, <2>1, Returns, Delays
    <3> QED
      BY <1>4, <2>1, <3>1 DEF Sleep, SleepInv, Waits, limits
  <2>2. CASE Halted
    BY <1>4, <2>2 DEF Sleep, SleepInv, Halted, limits
  <2>3. CASE Return(Soonest)
    <3>1. Soonest \in 0 .. Off /\ \A t \in Tasks : Soonest <= tasks[t]
      BY <1>0, SoonestIs
    <3>2. main'.sleep \in Int /\ main'.sleep <= Soonest
      BY <1>0, <2>3, <3>1, Returns, Delays DEF MainRecord
    <3>3. \A t \in Tasks : tasks[t] \in Int
      BY <1>0, Delays DEF Table
    <3>4. \A t \in Tasks : main'.sleep <= tasks[t]
      BY <3>1, <3>2, <3>3
    <3>5. tasks' = tasks
      BY <1>4 DEF Sleep, sched
    <3> QED
      BY <3>4, <3>5 DEF SleepInv
  <2> QED
    BY <1>4, <2>1, <2>2, <2>3 DEF Sleep
<1>5. CASE Elect
  BY <1>0, <1>5 DEF Elect, SleepInv, At, MainRecord
<1>6. CASE UserCommand
  BY <1>6 DEF UserCommand, Calling, SleepInv, At
<1>7. CASE CallReturns
  BY <1>7, <1>p DEF CallReturns, SleepInv, At, Places
<1>8. CASE WorkCommand
  BY <1>8 DEF WorkCommand, SleepInv
<1>9. CASE Tick
  <2>1. /\ main.pc = "sleep" /\ main'.sleep = Subtract(main.sleep) /\ wait' = Subtract(wait)
        /\ UNCHANGED <<uses, duty, suspended, days>>
        /\ \A t \in Tasks : tasks'[t] = Subtract(tasks[t])
    BY <1>0, <1>9 DEF Tick, At, MainRecord
  <2>2. main.sleep \in 0 .. Off /\ \A t \in Tasks : tasks[t] \in 0 .. Off
    BY <1>0 DEF MainRecord, Table
  <2>3. \A m, n \in 0 .. Off : n # Off /\ m <= n => Subtract(m) <= Subtract(n)
    BY Delays DEF Subtract, Off
  <2>4. wait \in 0 .. Off /\ wait # Off
    BY <1>0, Delays DEF Off
  <2>5. CASE duty = "ENABLED" /\ main.sleep <= wait
    BY <2>1, <2>2, <2>3, <2>4, <2>5 DEF SleepInv
  <2>6. CASE \A t \in Tasks : Live(t) => main.sleep <= tasks[t]
    <3>1. \A t \in Tasks : tasks'[t] # Off => tasks[t] # Off
      BY <2>1, <2>2, Passes
    <3>2. \A t \in Tasks : Live(t)' => main'.sleep <= tasks'[t]
      BY <2>1, <2>2, <2>3, <2>6, <3>1 DEF Live
    <3> QED
      BY <3>2 DEF SleepInv
  <2>7. CASE Halted
    BY <2>1, <2>7 DEF SleepInv, Halted
  <2> QED
    BY <2>1, <2>5, <2>6, <2>7 DEF SleepInv, At
<1>10. CASE UNCHANGED vars
  BY <1>10 DEF vars, sched, limits, SleepInv, At, Halted, Live
<1> QED
  BY <1>1, <1>2, <1>3, <1>4, <1>5, <1>6, <1>7, <1>8, <1>9, <1>10 DEF Next, Engine

\* The modem starts with no task and no service.
LEMMA SupervisorInit ==
    ASSUME Init
    PROVE  SupervisorInv
<1> USE Delays, SupervisorAssumption
<1>1. /\ tasks \in Table /\ \A t \in Tasks : ~Live(t)
      /\ Idle \notin Tasks /\ "JOIN" \in Tasks /\ "DM" \in Tasks
  BY TheTasks DEF Init, Table, Live
<1>2. dm \in [on : BOOLEAN, first : BOOLEAN, more : BOOLEAN, moreNow : BOOLEAN]
  BY DEF Init
<1>3. /\ file \in [state : {"NOT_INIT", "FILLED", "ON_GOING", "FINISHED"}, left : Nat]
      /\ stream \in [init : BOOLEAN, left : Nat]
      /\ mac \in MacRecord /\ main \in MainRecord
  BY DEF Init, MacRecord, MainRecord, Places
<1>4. SupervisorTypeOK
  <2>1. /\ days = 0 /\ upCount = 0 /\ wait = 0 /\ alarm = Off /\ duty = "ENABLED" /\ uses \in Uses
        /\ elected = Idle /\ urgent = FALSE /\ joined = FALSE /\ joining = FALSE
        /\ announced = FALSE /\ suspended = FALSE /\ clock = FALSE /\ sendOk = FALSE
    BY DEF Init
  <2>2. 0 \in 0 .. Later
    OBVIOUS
  <2> QED
    BY <1>1, <1>2, <1>3, <2>1, <2>2, Zenon DEF SupervisorTypeOK, ServiceTypes
<1>5. JoinInv /\ ServicesKept
  BY <1>1 DEF Init, JoinInv, ServicesKept, Idle
<1>6. PlaceInv /\ SleepInv
  BY <1>1 DEF Init, PlaceInv, SleepInv, Launching, Idle
<1> QED
  BY <1>4, <1>5, <1>6 DEF SupervisorInv

\* Every step keeps the inductive invariant.
LEMMA SupervisorStep ==
    ASSUME SupervisorInv, [Next]_vars
    PROVE  SupervisorInv'
  BY TypeStep, ServiceStep, PlaceStep, SleepStep DEF SupervisorInv

\* The inductive invariant.
THEOREM SupervisorInvariant == Spec => []SupervisorInv
  BY SupervisorInit, SupervisorStep, PTL DEF Spec

\* A service that is turned on keeps its task: no order of the user's commands, the
\* downlinks and the ends of exchanges stops it for good.
THEOREM SupervisorServicesKept == Spec => []ServicesKept
<1>1. SupervisorInv => ServicesKept
  BY DEF SupervisorInv
<1> QED
  BY <1>1, SupervisorInvariant, PTL

\* The main thread is woken no later than the first task it may launch.
THEOREM SupervisorNothingOverslept == Spec => []NothingOverslept
<1>1. ASSUME SupervisorInv
      PROVE  NothingOverslept
  <2>1. /\ SleepInv /\ wait \in Nat /\ main.sleep \in Int
        /\ \A t \in Tasks : tasks[t] \in Int /\ tasks[t] >= 0
    BY <1>1, Delays DEF SupervisorInv, SupervisorTypeOK, ServiceTypes, MainRecord, Table
  <2>2. SUFFICES ASSUME At("sleep"), ~Waits, ~Halted, "CLASS_C" \notin uses, NEW t \in Tasks, Live(t)
                 PROVE  main.sleep <= tasks[t]
    BY DEF NothingOverslept
  <2>3. CASE duty = "ENABLED" /\ main.sleep <= wait
    BY <2>1, <2>2, <2>3 DEF Waits
  <2> QED
    BY <2>1, <2>2, <2>3 DEF SleepInv
<1> QED
  BY <1>1, SupervisorInvariant, PTL

-----------------------------------------------------------------------------
(* What the modem owes: the end of a mute, the duty cycle after an emergency. *)

Debtors == {"MUTE", "SEND"}

\* A step that adds or removes another task leaves those that owe something.
LEMMA OtherTask ==
    ASSUME tasks \in Table, NEW t \in Tasks \ Debtors, NEW d,
           tasks' \in {tasks, With(tasks, t, d), WithJoined(tasks, t, d), Without(tasks, {t})}
    PROVE  tasks'["MUTE"] = tasks["MUTE"] /\ tasks'["SEND"] = tasks["SEND"]
<1>1. "MUTE" \in Tasks /\ "SEND" \in Tasks /\ t # "MUTE" /\ t # "SEND"
  BY TheTasks DEF Debtors
<1> QED
  BY <1>1 DEF Table, With, WithJoined, Without

\* The same of a table that is being built.
LEMMA OtherAdded ==
    ASSUME NEW ts \in Table, NEW t \in Tasks \ Debtors, NEW d \in 0 .. Off
    PROVE  /\ With(ts, t, d) \in Table /\ WithJoined(ts, t, d) \in Table
           /\ \A u \in Debtors : With(ts, t, d)[u] = ts[u] /\ WithJoined(ts, t, d)[u] = ts[u]
<1>1. Debtors \subseteq Tasks \ {t}
  BY TheTasks DEF Debtors
<1> QED
  BY <1>1, Adds, AddsJoined

\* A downlink of the device management that mutes for days adds the task that counts
\* them; the others leave the tasks that owe something.
LEMMA CommandOwes ==
    ASSUME ServiceTypes, Command
    PROVE  /\ elected' = elected /\ tasks'["SEND"] = tasks["SEND"]
           /\ \/ Temporary(days') => tasks'["MUTE"] # Off
              \/ days' = days /\ tasks'["MUTE"] = tasks["MUTE"]
<1>0. tasks \in Table
  BY DEF ServiceTypes
<1>t. /\ "DM_NOW" \in Tasks /\ "CLOCK_SYNC_TIME_REQ" \in Tasks /\ "ALC_SYNC_ANS" \in Tasks
      /\ "DM" \in Tasks /\ "FILE_UPLOAD" \in Tasks /\ "SEND" \in Tasks /\ "MUTE" \in Tasks
      /\ Debtors \subseteq Tasks \ {"RETRIEVE_DL"}
  BY TheTasks DEF Debtors
<1>d. /\ Soon \in 0 .. Off /\ Later \in 0 .. Off /\ 0 \in 0 .. Off /\ Off \in 0 .. Off
      /\ Later # Off
  BY Delays
<1>o. "DM" \in Tasks \ Debtors /\ "DM_NOW" \in Tasks \ Debtors
      /\ "ALC_SYNC_ANS" \in Tasks \ Debtors /\ "CLOCK_SYNC_TIME_REQ" \in Tasks \ Debtors
  BY TheTasks DEF Debtors
<1>a. ASSUME NEW ts \in Table, NEW n, Opportunity(ts, n)
      PROVE  tasks'["SEND"] = ts["SEND"] /\ tasks'["MUTE"] = ts["MUTE"]
  BY <1>a, <1>t, Asks DEF Debtors
<1>1. CASE AckRequested
  BY <1>0, <1>1, <1>a DEF AckRequested
<1>2. CASE GetInfo
  <2>1. /\ With(tasks, "DM_NOW", Soon) \in Table
        /\ \A t \in Debtors : With(tasks, "DM_NOW", Soon)[t] = tasks[t]
    BY <1>0, <1>o, <1>d, OtherAdded
  <2>2. \E n : Opportunity(With(tasks, "DM_NOW", Soon), n)
    BY <1>2 DEF GetInfo
  <2> QED
    BY <1>2, <1>a, <2>1, <2>2 DEF GetInfo, Debtors
<1>3. CASE FileDone
  <2>1. /\ Without(tasks, {"FILE_UPLOAD"}) \in Table
        /\ \A t \in Debtors : Without(tasks, {"FILE_UPLOAD"})[t] = tasks[t]
    BY <1>0, <1>t, Removes DEF Debtors
  <2>2. \E n : Opportunity(Without(tasks, {"FILE_UPLOAD"}), n)
    BY <1>3 DEF FileDone
  <2> QED
    BY <1>3, <1>a, <2>1, <2>2 DEF FileDone, Debtors
<1>4. CASE Mute
  <2>1. PICK d \in {0, 1, Infinite}, n \in 0 .. 1 :
          /\ days' = d
          /\ Opportunity(IF Temporary(d) THEN With(tasks, "MUTE", Later) ELSE tasks, n)
    BY <1>4 DEF Mute
  <2> DEFINE ts == IF Temporary(d) THEN With(tasks, "MUTE", Later) ELSE tasks
  <2>2. ts \in Table /\ ts["SEND"] = tasks["SEND"] /\ (Temporary(d) => ts["MUTE"] = Later)
    BY <1>0, <1>t, <1>d, Adds
  <2>3. tasks'["SEND"] = ts["SEND"] /\ tasks'["MUTE"] = ts["MUTE"]
    BY <1>a, <2>1, <2>2
  <2>4. elected' = elected
    BY <1>4 DEF Mute
  <2> HIDE DEF ts
  <2> QED
    BY <1>d, <2>1, <2>2, <2>3, <2>4
<1>5. CASE TimeAnswer
  <2> DEFINE Rest == Without(tasks, {"CLOCK_SYNC_TIME_REQ", "ALC_SYNC_ANS"})
             Following == IF clock THEN With(Rest, "CLOCK_SYNC_TIME_REQ", Later) ELSE Rest
  <2>1. PICK n \in 0 .. 1, answer \in {Off, Soon} :
          Opportunity(WithJoined(Following, "ALC_SYNC_ANS", answer), n)
    BY <1>5 DEF TimeAnswer
  <2>2. Rest \in Table /\ \A t \in Debtors : Rest[t] = tasks[t]
    BY <1>0, <1>t, Removes DEF Debtors
  <2>3. Following \in Table /\ \A t \in Debtors : Following[t] = tasks[t]
    BY <1>o, <1>d, <2>2, OtherAdded
  <2> DEFINE Answered == WithJoined(Following, "ALC_SYNC_ANS", answer)
  <2> HIDE DEF Rest, Following
  <2>4. Answered \in Table /\ \A t \in Debtors : Answered[t] = tasks[t]
    <3>1. answer \in 0 .. Off
      BY <1>d
    <3> QED
      BY <1>o, <2>3, <3>1, OtherAdded
  <2>5. tasks'["SEND"] = Answered["SEND"] /\ tasks'["MUTE"] = Answered["MUTE"]
    BY <1>a, <2>1, <2>4
  <2> HIDE DEF Answered
  <2> QED
    BY <1>5, <2>4, <2>5 DEF TimeAnswer, Debtors
<1>6. CASE SetConf
  <2>1. PICK on \in BOOLEAN, n \in 0 .. 1 :
          Opportunity(WithJoined(tasks, "DM", IF on THEN Later ELSE 0), n)
    BY <1>6 DEF SetConf
  <2> DEFINE ts == WithJoined(tasks, "DM", IF on THEN Later ELSE 0)
  <2>2. ts \in Table /\ \A t \in Debtors : ts[t] = tasks[t]
    <3>1. (IF on THEN Later ELSE 0) \in 0 .. Off
      BY <1>d
    <3> QED
      BY <1>0, <1>o, <3>1, OtherAdded, ZenonT(40)
  <2>3. tasks'["SEND"] = ts["SEND"] /\ tasks'["MUTE"] = ts["MUTE"]
    BY <1>a, <2>1, <2>2
  <2> HIDE DEF ts
  <2> QED
    BY <1>6, <2>2, <2>3 DEF SetConf, Debtors
<1> QED
  BY <1>1, <1>2, <1>3, <1>4, <1>5, <1>6 DEF Command

\* A rejoin is a leave that clears what is owed.
LEMMA RejoinLeaves ==
    ASSUME ServiceTypes, RejoinCommand
    PROVE  Left
  BY RejoinKept DEF Cleared, Left, Live

\* The user's commands leave what is owed, but for a leave; an emergency uplink is a
\* debt with its task.
LEMMA UserOwes ==
    ASSUME ServiceTypes, UserCommand, ~Left
    PROVE  /\ UNCHANGED <<elected, days>> /\ tasks'["MUTE"] = tasks["MUTE"]
           /\ \/ tasks'["SEND"] = 0
              \/ duty' = duty /\ tasks'["SEND"] = tasks["SEND"]
<1>0. tasks \in Table
  BY DEF ServiceTypes
<1>t. /\ "JOIN" \in Tasks \ Debtors /\ "SEND_EXTENDED" \in Tasks \ Debtors
      /\ "REQUEST" \in Tasks \ Debtors /\ "FILE_UPLOAD" \in Tasks \ Debtors
      /\ "STREAM" \in Tasks \ Debtors /\ "DM" \in Tasks \ Debtors
      /\ "DM_NOW" \in Tasks \ Debtors /\ "CLOCK_SYNC_TIME_REQ" \in Tasks \ Debtors
  BY TheTasks DEF Debtors
<1>1. CASE JoinNetwork
  <2>1. PICK d : tasks' \in {tasks, With(tasks, "JOIN", d), WithJoined(tasks, "JOIN", d),
                            Without(tasks, {"JOIN"})}
    BY <1>1 DEF JoinNetwork
  <2>2. "JOIN" \in Tasks \ Debtors
    BY <1>t
  <2>3. tasks'["MUTE"] = tasks["MUTE"] /\ tasks'["SEND"] = tasks["SEND"]
    BY <1>0, <2>1, <2>2, OtherTask
  <2> QED
    BY <1>1, <2>3 DEF JoinNetwork, limits
<1>2. CASE LeaveCommand
  BY <1>2 DEF LeaveCommand, LeaveNetwork, Leave, Left
<1>3. CASE RequestUplink
  <2>1. tasks' = With(tasks, "SEND", 0) /\ "SEND" \in Tasks /\ "MUTE" \in Tasks /\ 0 \in 0 .. Off
    BY <1>3, TheTasks, Delays DEF RequestUplink
  <2>2. tasks'["SEND"] = 0 /\ tasks'["MUTE"] = tasks["MUTE"]
    BY <1>0, <2>1, AddsNow
  <2> QED
    BY <1>3, <2>2 DEF RequestUplink
<1>4. CASE RequestExtended
  <2>1. PICK d : tasks' \in {tasks, With(tasks, "SEND_EXTENDED", d), 
                            WithJoined(tasks, "SEND_EXTENDED", d),
                            Without(tasks, {"SEND_EXTENDED"})}
    BY <1>4 DEF RequestExtended
  <2>2. "SEND_EXTENDED" \in Tasks \ Debtors
    BY <1>t
  <2>3. tasks'["MUTE"] = tasks["MUTE"] /\ tasks'["SEND"] = tasks["SEND"]
    BY <1>0, <2>1, <2>2, OtherTask
  <2> QED
    BY <1>4, <2>3 DEF RequestExtended, limits
<1>5. CASE RequestCid
  <2>1. PICK d : tasks' \in {tasks, With(tasks, "REQUEST", d), WithJoined(tasks, "REQUEST", d),
                            Without(tasks, {"REQUEST"})}
    BY <1>5 DEF RequestCid
  <2>2. "REQUEST" \in Tasks \ Debtors
    BY <1>t
  <2>3. tasks'["MUTE"] = tasks["MUTE"] /\ tasks'["SEND"] = tasks["SEND"]
    BY <1>0, <2>1, <2>2, OtherTask
  <2> QED
    BY <1>5, <2>3 DEF RequestCid, limits
<1>6. CASE Suspend
  BY <1>6 DEF Suspend, sched, limits
<1>7. CASE SetAlarm
  BY <1>7 DEF SetAlarm, sched, limits
<1>8. CASE FileInit
  BY <1>8 DEF FileInit, sched, limits
<1>9. CASE FileStart
  <2>1. PICK d : tasks' \in {tasks, With(tasks, "FILE_UPLOAD", d), WithJoined(tasks, "FILE_UPLOAD", d),
                            Without(tasks, {"FILE_UPLOAD"})}
    BY <1>9 DEF FileStart
  <2>2. "FILE_UPLOAD" \in Tasks \ Debtors
    BY <1>t
  <2>3. tasks'["MUTE"] = tasks["MUTE"] /\ tasks'["SEND"] = tasks["SEND"]
    BY <1>0, <2>1, <2>2, OtherTask
  <2> QED
    BY <1>9, <2>3 DEF FileStart, limits
<1>10. CASE FileReset
  BY <1>10 DEF FileReset, sched, limits
<1>11. CASE StreamInit
  <2>1. PICK d : tasks' \in {tasks, With(tasks, "STREAM", d), WithJoined(tasks, "STREAM", d),
                            Without(tasks, {"STREAM"})}
    BY <1>11 DEF StreamInit
  <2>2. "STREAM" \in Tasks \ Debtors
    BY <1>t
  <2>3. tasks'["MUTE"] = tasks["MUTE"] /\ tasks'["SEND"] = tasks["SEND"]
    BY <1>0, <2>1, <2>2, OtherTask
  <2> QED
    BY <1>11, <2>3 DEF StreamInit, limits
<1>12. CASE StreamAdd
  <2>1. PICK d : tasks' \in {tasks, With(tasks, "STREAM", d), WithJoined(tasks, "STREAM", d),
                            Without(tasks, {"STREAM"})}
    BY <1>12 DEF StreamAdd
  <2>2. "STREAM" \in Tasks \ Debtors
    BY <1>t
  <2>3. tasks'["MUTE"] = tasks["MUTE"] /\ tasks'["SEND"] = tasks["SEND"]
    BY <1>0, <2>1, <2>2, OtherTask
  <2> QED
    BY <1>12, <2>3 DEF StreamAdd, limits
<1>13. CASE SetInterval
  <2>1. PICK d : tasks' \in {tasks, With(tasks, "DM", d), WithJoined(tasks, "DM", d),
                            Without(tasks, {"DM"})}
    BY <1>13 DEF SetInterval
  <2>2. "DM" \in Tasks \ Debtors
    BY <1>t
  <2>3. tasks'["MUTE"] = tasks["MUTE"] /\ tasks'["SEND"] = tasks["SEND"]
    BY <1>0, <2>1, <2>2, OtherTask
  <2> QED
    BY <1>13, <2>3 DEF SetInterval, limits
<1>14. CASE RequestSingleUplink
  <2>1. PICK d : tasks' \in {tasks, With(tasks, "DM_NOW", d), WithJoined(tasks, "DM_NOW", d),
                            Without(tasks, {"DM_NOW"})}
    BY <1>14 DEF RequestSingleUplink
  <2>2. "DM_NOW" \in Tasks \ Debtors
    BY <1>t
  <2>3. tasks'["MUTE"] = tasks["MUTE"] /\ tasks'["SEND"] = tasks["SEND"]
    BY <1>0, <2>1, <2>2, OtherTask
  <2> QED
    BY <1>14, <2>3 DEF RequestSingleUplink, limits
<1>15. CASE StartSync
  <2>1. PICK d : tasks' \in {tasks, With(tasks, "CLOCK_SYNC_TIME_REQ", d), 
                            WithJoined(tasks, "CLOCK_SYNC_TIME_REQ", d),
                            Without(tasks, {"CLOCK_SYNC_TIME_REQ"})}
    BY <1>15 DEF StartSync
  <2>2. "CLOCK_SYNC_TIME_REQ" \in Tasks \ Debtors
    BY <1>t
  <2>3. tasks'["MUTE"] = tasks["MUTE"] /\ tasks'["SEND"] = tasks["SEND"]
    BY <1>0, <2>1, <2>2, OtherTask
  <2> QED
    BY <1>15, <2>3 DEF StartSync, limits
<1>16. CASE StopSync
  <2>1. "SEND" \in Tasks /\ "MUTE" \in Tasks
    BY TheTasks
  <2> QED
    BY <1>16, <2>1 DEF StopSync, Without, limits
<1>17. CASE TriggerSync
  <2>1. PICK d : tasks' \in {tasks, With(tasks, "CLOCK_SYNC_TIME_REQ", d), 
                            WithJoined(tasks, "CLOCK_SYNC_TIME_REQ", d),
                            Without(tasks, {"CLOCK_SYNC_TIME_REQ"})}
    BY <1>17 DEF TriggerSync
  <2>2. "CLOCK_SYNC_TIME_REQ" \in Tasks \ Debtors
    BY <1>t
  <2>3. tasks'["MUTE"] = tasks["MUTE"] /\ tasks'["SEND"] = tasks["SEND"]
    BY <1>0, <2>1, <2>2, OtherTask
  <2> QED
    BY <1>17, <2>3 DEF TriggerSync, limits
<1> QED
  BY <1>1, <1>2, <1>3, <1>4, <1>5, <1>6, <1>7, <1>8, <1>9, <1>10, <1>11, <1>12, <1>13, <1>14,
     <1>15, <1>16, <1>17
  DEF UserCommand

\* An update settles what the elected task owed; an update of another task leaves
\* what is owed.
LEMMA UpdateOwes ==
    ASSUME ServiceTypes, Update
    PROVE  /\ days' = days /\ elected' = Idle
           /\ \/ tasks'["MUTE"] = tasks["MUTE"] /\ elected # "MUTE"
              \/ Temporary(days) => tasks'["MUTE"] # Off
           /\ \/ duty' = duty /\ tasks'["SEND"] = tasks["SEND"] /\ elected # "SEND"
              \/ duty' = "ENABLED"
<1>0. tasks \in Table /\ elected' = Idle /\ days' = days /\ Idle # "MUTE" /\ Idle # "SEND"
  BY DEF ServiceTypes, Update, Idle
<1>t. /\ "JOIN" \in Tasks \ Debtors /\ "FILE_UPLOAD" \in Tasks \ Debtors
      /\ "STREAM" \in Tasks \ Debtors /\ "DM" \in Tasks \ Debtors
      /\ "RETRIEVE_DL" \in Tasks \ Debtors /\ "ALC_SYNC_ANS" \in Tasks \ Debtors
      /\ "DM_NOW" \in Tasks \ Debtors /\ "CLOCK_SYNC_TIME_REQ" \in Tasks \ Debtors
  BY TheTasks DEF Debtors
<1>k. ASSUME duty' = duty, elected \notin Debtors, tasks'["MUTE"] = tasks["MUTE"],
             tasks'["SEND"] = tasks["SEND"]
      PROVE  /\ \/ tasks'["MUTE"] = tasks["MUTE"] /\ elected # "MUTE"
                \/ Temporary(days) => tasks'["MUTE"] # Off
             /\ \/ duty' = duty /\ tasks'["SEND"] = tasks["SEND"] /\ elected # "SEND"
                \/ duty' = "ENABLED"
  BY <1>k DEF Debtors
<1>o. ASSUME NEW t \in Tasks \ Debtors, NEW d, duty' = duty, elected = t,
             tasks' \in {tasks, With(tasks, t, d), WithJoined(tasks, t, d)}
      PROVE  /\ \/ tasks'["MUTE"] = tasks["MUTE"] /\ elected # "MUTE"
                \/ Temporary(days) => tasks'["MUTE"] # Off
             /\ \/ duty' = duty /\ tasks'["SEND"] = tasks["SEND"] /\ elected # "SEND"
                \/ duty' = "ENABLED"
  <2>1. tasks' \in {tasks, With(tasks, t, d), WithJoined(tasks, t, d), Without(tasks, {t})}
    BY <1>o
  <2>2. tasks'["MUTE"] = tasks["MUTE"] /\ tasks'["SEND"] = tasks["SEND"]
    BY <1>0, <2>1, OtherTask
  <2>3. elected \notin Debtors /\ duty' = duty
    BY <1>o
  <2> QED
    BY <1>k, <2>2, <2>3
<1>1. CASE UpdateJoin
  <2>1. tasks'["MUTE"] = tasks["MUTE"] /\ tasks'["SEND"] = tasks["SEND"]
    <3>1. "MUTE" \in Tasks /\ "SEND" \in Tasks
      BY TheTasks
    <3> QED
      BY <1>0, <1>1, <3>1 DEF UpdateJoin, With, Table
  <2>2. duty' = duty /\ elected \notin Debtors
    BY <1>1 DEF UpdateJoin, Debtors
  <2> QED
    BY <1>0, <1>k, <2>1, <2>2, Zenon
<1>2. CASE UpdateSend
  BY <1>0, <1>2 DEF UpdateSend, RestoredDuty
<1>3. CASE UpdateDm
  BY <1>0, <1>t, <1>o, <1>3 DEF UpdateDm
<1>4. CASE UpdateDmNow
  BY <1>0, <1>t, <1>o, <1>4 DEF UpdateDmNow
<1>5. CASE UpdateFile
  BY <1>0, <1>t, <1>o, <1>5 DEF UpdateFile
<1>6. CASE UpdateStream
  BY <1>0, <1>t, <1>o, <1>6 DEF UpdateStream
<1>7. CASE UpdateMute
  <2>1. CASE Temporary(days)
    <3>1. tasks' = With(tasks, "MUTE", Later) /\ "MUTE" \in Tasks /\ "SEND" \in Tasks
      BY <1>7, <2>1, TheTasks DEF UpdateMute
    <3>2. tasks'["MUTE"] # Off /\ tasks'["SEND"] = tasks["SEND"]
      BY <1>0, <3>1, Delays DEF With, Table
    <3> QED
      BY <1>0, <1>7, <3>2 DEF UpdateMute
  <2>2. CASE ~Temporary(days)
    BY <1>0, <1>7, <2>2 DEF UpdateMute
  <2> QED
    BY <2>1, <2>2
<1>8. CASE UpdateRetrieve
  BY <1>0, <1>t, <1>o, <1>8 DEF UpdateRetrieve
<1>9. CASE UpdateClock
  <2>1. PICK delay \in {Soon, Later}, unanswered \in BOOLEAN :
          LET next == IF clock THEN With(tasks, elected, delay) ELSE tasks
          IN IF unanswered /\ upCount = 0 THEN Opportunity(next, 1)
             ELSE tasks' = next /\ UNCHANGED upCount
    BY <1>9 DEF UpdateClock
  <2> DEFINE next == IF clock THEN With(tasks, elected, delay) ELSE tasks
  <2>2. next \in Table /\ \A u \in Debtors : next[u] = tasks[u]
    <3>1. elected \in Tasks \ Debtors /\ delay \in 0 .. Off
      BY <1>t, <1>9, Delays DEF UpdateClock
    <3> QED
      BY <1>0, <3>1, OtherAdded
  <2>3. \A u \in Debtors : tasks'[u] = next[u]
    <3>1. Debtors \subseteq Tasks \ {"RETRIEVE_DL"}
      BY TheTasks DEF Debtors
    <3> HIDE DEF next
    <3> QED
      BY <2>1, <2>2, <3>1, Asks DEF next
  <2>4. duty' = duty /\ elected \notin Debtors
    BY <1>9 DEF UpdateClock, Debtors
  <2> HIDE DEF next
  <2> QED
    BY <1>0, <1>k, <2>2, <2>3, <2>4 DEF Debtors
<1>10. CASE UpdateAlc
  BY <1>0, <1>t, <1>o, <1>10 DEF UpdateAlc
<1>11. CASE UpdateRequest
  BY <1>0, <1>k, <1>11 DEF UpdateRequest, Debtors
<1>12. CASE UpdateOther
  BY <1>0, <1>k, <1>12 DEF UpdateOther, Debtors, Idle
<1> QED
  BY <1>0, <1>1, <1>2, <1>3, <1>4, <1>5, <1>6, <1>7, <1>8, <1>9, <1>10, <1>11, <1>12 DEF Update

\* A launch takes a day off the mute, and leaves the rest of what is owed.
LEMMA LaunchOwes ==
    ASSUME SupervisorInv, Launch
    PROVE  UNCHANGED <<tasks, elected, duty>> /\ (Temporary(days') => Temporary(days))
<1>1. UNCHANGED <<tasks, elected, duty>>
  BY LaunchKept DEF Launch, SupervisorInv, SupervisorTypeOK
<1>2. days' \in {days, OneDayLess}
  BY DEF Launch, LaunchJoin, LaunchSend, LaunchDm, LaunchDmNow, LaunchFile, LaunchStream,
         LaunchMute, LaunchRetrieve, LaunchRequest
<1>3. Temporary(days') => Temporary(days)
  BY <1>2, Delays DEF OneDayLess, Temporary
<1> QED
  BY <1>1, <1>3

\* Every step but a leave keeps what is owed.
LEMMA DebtStep ==
    ASSUME SupervisorInv, [Next]_vars, MuteCounted, DutyRestored, ~Left
    PROVE  MuteCounted' /\ DutyRestored'
<1>0. /\ ServiceTypes /\ tasks \in Table /\ "MUTE" \in Tasks /\ "SEND" \in Tasks
      /\ Idle # "MUTE" /\ Idle # "SEND"
  BY TheTasks DEF SupervisorInv, SupervisorTypeOK, ServiceTypes
<1>k. ASSUME UNCHANGED <<tasks, elected, days, duty>>
      PROVE  MuteCounted' /\ DutyRestored'
  BY <1>k DEF MuteCounted, DutyRestored, Kept, Live, Temporary
<1>c. ASSUME Command, duty' = duty
      PROVE  MuteCounted' /\ DutyRestored'
  BY <1>0, <1>c, CommandOwes DEF MuteCounted, DutyRestored, Kept, Live, Temporary
<1>1. CASE EngineStart \/ StackIdle \/ Events \/ Sleep \/ CallReturns
  BY <1>1, <1>k DEF EngineStart, StackIdle, Events, Sleep, CallReturns, sched, limits
<1>2. CASE Process
  BY <1>0, <1>2, <1>k, <1>c, RejoinLeaves
  DEF Process, MacStarts, MacEnds, MacReceives, sched, limits
<1>3. CASE Update
  BY <1>0, <1>3, UpdateOwes DEF MuteCounted, DutyRestored, Kept, Live, Temporary
<1>4. CASE Elect
  <2>1. elected = Idle /\ UNCHANGED <<tasks, days, duty>>
    BY <1>4 DEF Elect, SupervisorInv, PlaceInv, At, limits
  <2> QED
    BY <1>0, <2>1 DEF MuteCounted, DutyRestored, Kept, Live, Temporary
<1>5. CASE Launch
  BY <1>0, <1>5, LaunchOwes DEF MuteCounted, DutyRestored, Kept, Live
<1>6. CASE Remove
  <2>1. /\ main.id \in Tasks /\ (elected = main.id \/ (Cleared /\ main.id # "JOIN"))
        /\ UNCHANGED <<elected, days, duty>> /\ tasks' = Without(tasks, {main.id})
    BY <1>6 DEF Remove, SupervisorInv, PlaceInv, Launching, At, limits
  <2>2. \A t \in Debtors : Kept(t) => Kept(t)'
    <3>1. SUFFICES ASSUME NEW t \in Debtors, Kept(t)
                   PROVE  Kept(t)'
      OBVIOUS
    <3>2. t \in Tasks /\ t # "JOIN" /\ t # Idle
      BY TheTasks DEF Debtors, Idle
    <3>3. CASE elected = t
      BY <2>1, <3>3 DEF Kept
    <3>4. CASE Live(t) /\ elected # t
      <4>1. ~Cleared /\ main.id # t
        BY <2>1, <3>2, <3>4 DEF Cleared
      <4>2. tasks'[t] = tasks[t]
        BY <1>0, <2>1, <3>2, <4>1, Removes
      <4> QED
        BY <3>4, <4>2 DEF Kept, Live
    <3> QED
      BY <3>1, <3>3, <3>4 DEF Kept
  <2> QED
    BY <2>1, <2>2 DEF MuteCounted, DutyRestored, Debtors, Temporary
<1>7. CASE UserCommand
  BY <1>0, <1>7, UserOwes, Delays DEF MuteCounted, DutyRestored, Kept, Live, Temporary
<1>8. CASE WorkCommand
  BY <1>0, <1>8, <1>c, RejoinLeaves DEF WorkCommand
<1>9. CASE Tick
  <2>1. \A t \in Tasks : Live(t)' <=> Live(t)
    <3>1. \A t \in Tasks : tasks[t] \in 0 .. Off /\ tasks'[t] = Subtract(tasks[t])
      BY <1>0, <1>9 DEF Tick, Table
    <3> QED
      BY <3>1, Passes DEF Live
  <2>2. UNCHANGED <<elected, days, duty>>
    BY <1>9 DEF Tick
  <2> QED
    BY <1>0, <2>1, <2>2 DEF MuteCounted, DutyRestored, Kept, Temporary
<1>10. CASE UNCHANGED vars
  BY <1>10, <1>k DEF vars, sched, limits
<1> QED
  BY <1>1, <1>2, <1>3, <1>4, <1>5, <1>6, <1>7, <1>8, <1>9, <1>10 DEF Next, Engine

\* What the modem owes, the end of a mute and the duty cycle after an emergency uplink,
\* is lost by no step but a leave.
THEOREM SupervisorDebtsKept == Spec => DebtsKept
<1>1. ASSUME SupervisorInv, [Next]_vars
      PROVE  [MuteCounted /\ DutyRestored /\ ~Left => (MuteCounted /\ DutyRestored)']_vars
  BY <1>1, DebtStep
<1> QED
  BY <1>1, SupervisorInvariant, PTL DEF Spec, DebtsKept

====

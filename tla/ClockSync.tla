----------------------------- MODULE ClockSync -----------------------------
(***************************************************************************)
(* The time of the modem (modem_services/smtc_clock_sync.c and               *)
(* smtc_modem_services/src/alc_sync/alc_sync.c): the service asks the network *)
(* with the MAC's DeviceTimeReq or the application server with AppTimeReq,    *)
(* plans its next request, and declares the time invalid when no answer came  *)
(* for too long.  The supervisor is seen through the two tasks it runs for    *)
(* the service, Lr1Mac through the exchange of a task; class A.               *)
(***************************************************************************)
EXTENDS Integers, FiniteSets, FiniteSetsExt

CONSTANTS
    Periods,   \* the periods that may be set
    Delays,    \* the delays after which the time is invalid that may be set
    Retries,   \* how long to wait after few, some and many requests, in ticks
    Requests1, \* CLOCK_SYNC_NB_REQ_PERIOD1
    Requests2, \* CLOCK_SYNC_NB_REQ_PERIOD2
    Jitter,    \* the dates are spread by so much, 30 s
    JoinDelay, \* the first request after a join
    Tokens,    \* the values of the token, 2^4
    Errors,    \* the errors of a clock that was never set, or not for too long
    InFlight   \* bound: the answers of the server on their way

ClockAssumption ==
    /\ Periods \subseteq Nat /\ Periods # {}
    /\ Delays \subseteq Nat \ {0} /\ IsFiniteSet(Delays) /\ Delays # {}
    /\ Retries \in [1 .. 3 -> Nat] /\ Requests1 \in Nat /\ Requests2 \in Nat
    /\ Jitter \in Nat /\ JoinDelay \in Nat \ {0} /\ Tokens \in Nat \ {0, 1}
    /\ Errors \subseteq Int /\ InFlight \in Nat

Services == {"MAC", "ALC"}
Default == Max(Delays)       \* ALC_SYNC_DEFAULT_S_SINCE_LAST_CORRECTION
Never == 0 - 1               \* no correction yet, or no task

VARIABLES
    service,   \* sync_service_type
    enabled,   \* clock_sync_ctx.enabled
    sync,      \* per service: sync_status, the age of its correction, its period and
               \* the delay after which its time is invalid
    nbReq,     \* nb_time_req
    joined,    \* the modem is joined
    due,       \* when CLOCK_SYNC_TIME_REQ_TASK is due, if it waits
    ans,       \* ALC_SYNC_ANS_TASK waits
    busy,      \* the task whose exchange is under way
    forced,    \* nb_transmission
    token,     \* token_req
    err,       \* the time of ALCSync less the true time
    flight,    \* the answers of the application server on their way: token, correction
    mixed,     \* history: the time was set by hand while an answer that corrects the time
               \* before was on its way, and was not right since
    replan     \* history: the delay was changed after the next request was planned,
               \* or the request was put off by a downlink once the time was invalid

vars == <<service, enabled, sync, nbReq, joined, due, ans, busy, forced, token, err, flight, mixed, replan>>

Unset == [status |-> "NO", age |-> Never, period |-> Min(Periods), delay |-> Default]
Init ==
    /\ service = "MAC" /\ enabled = FALSE /\ joined = FALSE /\ nbReq = 0
    /\ sync = [s \in Services |-> Unset]
    /\ due = Never /\ ans = FALSE /\ busy = "NONE"
    /\ forced = 0 /\ token = 0 /\ err \in Errors /\ flight = {} /\ mixed = FALSE /\ replan = FALSE

-----------------------------------------------------------------------------
\* is_alc_sync_time_valid, lr1mac_core_is_time_valid; a time set by hand is never valid
\* for the MAC's service (the result is overwritten in clock_sync_is_time_valid).
Valid(s, x) ==
    IF s = "ALC" THEN x.age # Never /\ x.age <= x.delay
    ELSE x.status # "MANUAL" /\ x.age # Never /\ x.age < x.delay

\* Mutant: the time left is the whole delay, however old the last answer.
AlwaysWhole(x) == x.delay

\* lorawan_api_get_time_left_connection_lost, alc_sync_get_time_left_connection_lost.
TimeLeft(x) == IF x.age = Never \/ x.age > x.delay THEN x.delay ELSE x.delay - x.age

\* clock_sync_set_sync_lost.
Lost(s, x) == [x EXCEPT !.status = "NO", !.age = IF s = "ALC" THEN Never ELSE @]

\* The dates a task may be given: never in the past.
Spread(wait) == {wait + j : j \in - Min({Jitter, wait}) .. Jitter}

\* How long clock_sync_callback waits while the time is not synchronised.
RetryDelay(n) ==
    IF n < Requests1 THEN Retries[1]
    ELSE IF n < Requests1 + Requests2 THEN Retries[2] ELSE Retries[3]

\* clock_sync_callback: what it makes of the state of the service, the number of
\* requests, and the delay until the next one.  The MAC's service takes itself for
\* synchronised whether or not an answer came.
Callback ==
    LET x == IF service = "MAC" THEN [sync[service] EXCEPT !.status = "NETWORK"] ELSE sync[service]
        lost == x.status # "NO" /\ ~Valid(service, x)
        y == IF lost THEN Lost(service, x) ELSE x
        interval == IF lost THEN Min({Retries[1], x.period})
                    ELSE IF x.status # "NO" THEN x.period
                    ELSE Min({RetryDelay(nbReq), x.period})
    IN [sync |-> y, nbReq |-> IF lost THEN 1 ELSE nbReq, wait |-> Min({interval, TimeLeft(y)})]

\* The end of an AppTimeAns or of a DeviceAppTimePeriodicityReq: a request that a time
\* no longer valid has made urgent is put off by a period.
PlannedIfEnabled(x) ==
    IF enabled THEN /\ due' \in Spread(Min({x.period, TimeLeft(x)}))
                    /\ replan' = ~Valid(service, x)
    ELSE UNCHANGED <<due, replan>>

-----------------------------------------------------------------------------
(* The user. *)

\* smtc_modem_time_start_sync_service.
Start(s) ==
    /\ ~enabled /\ enabled' = TRUE /\ service' = s /\ nbReq' = 0
    /\ LET reset == [sync EXCEPT !["MAC"].status = "NO"]
           first == joined /\ due = Never
       IN /\ sync' = IF first THEN [reset EXCEPT ![s] = Lost(s, @)] ELSE reset
          /\ due' = IF first THEN 1 ELSE due
    /\ UNCHANGED <<joined, ans, busy, forced, token, err, flight, mixed, replan>>

\* smtc_modem_time_stop_sync_service.
Stop ==
    /\ enabled /\ enabled' = FALSE /\ nbReq' = 0
    /\ due' = Never /\ ans' = FALSE
    /\ sync' = [sync EXCEPT !["MAC"].status = "NO", ![service] = Lost(service, @)]
    /\ UNCHANGED <<service, joined, busy, forced, token, err, flight, mixed, replan>>

\* smtc_modem_time_trigger_sync_request.
Trigger ==
    /\ joined /\ enabled
    /\ due' = 1
    /\ UNCHANGED <<service, enabled, sync, nbReq, joined, ans, busy, forced, token, err, flight, mixed, replan>>

\* smtc_modem_set_time.  With ALCSync a correction on its way is still that of the time
\* before.
SetTime ==
    \/ /\ service = "MAC"
       /\ sync' = [sync EXCEPT !["MAC"].status = "MANUAL"]
       /\ UNCHANGED <<service, enabled, nbReq, joined, due, ans, busy, forced, token, err, flight, mixed, replan>>
    \/ /\ service = "ALC"
       /\ sync' = [sync EXCEPT !["ALC"].status = "MANUAL", !["ALC"].age = 0]
       /\ err' \in Errors
       /\ mixed' = \E a \in flight : a.token = token /\ err' + a.corr # 0
       /\ UNCHANGED <<service, enabled, nbReq, joined, due, ans, busy, forced, token, flight, replan>>

\* clock_sync_set_interval_second: each service takes it if its own delay is longer.
SetPeriod(p) ==
    /\ sync' = [s \in Services |-> IF p < sync[s].delay THEN [sync[s] EXCEPT !.period = p] ELSE sync[s]]
    /\ UNCHANGED <<service, enabled, nbReq, joined, due, ans, busy, forced, token, err, flight, mixed, replan>>

\* clock_sync_set_invalid_time_delay_s; the next request stays where it is planned.
SetDelay(d) ==
    /\ d > sync[service].period
    /\ sync' = [s \in Services |-> [sync[s] EXCEPT !.delay = d, !.age = Min({@, Default + 1})]]
    /\ replan' = (replan \/ d # sync[service].delay)
    /\ UNCHANGED <<service, enabled, nbReq, joined, due, ans, busy, forced, token, err, flight, mixed>>

-----------------------------------------------------------------------------
(* The supervisor's tasks. *)

\* The answers on their way that are alike are numbered, and the last comes first.
Same(t, c) == {a \in flight : a.token = t /\ a.corr = c}
Last(a) == a.nr = Cardinality(Same(a.token, a.corr))

\* An AppTimeReq of the current token and the correction the server answers with, if it
\* answers and the answer is not lost.
Asked ==
    \/ flight' = flight
    \/ /\ Cardinality(flight) < InFlight
       /\ flight' = flight \cup {[nr |-> Cardinality(Same(token, 0 - err)) + 1,
                                 token |-> token, corr |-> 0 - err]}

\* alc_sync_create_uplink_payload: one of the requests that the server has forced is
\* used up by a request, even in a frame that is then refused or lost; or the request
\* finds no room beside the answers.
AppTimeReq ==
    \/ forced' = Max({forced - 1, 0}) /\ Asked
    \/ UNCHANGED <<forced, flight>>

\* CLOCK_SYNC_TIME_REQ_TASK is launched; a frame that is refused is not counted.
\* Bound: the requests are not counted past the last class of retries.
LaunchReq ==
    /\ busy = "NONE" /\ due = 0 /\ joined
    /\ busy' = "REQ" /\ due' = Never
    /\ IF service = "MAC" THEN UNCHANGED <<forced, flight>> ELSE AppTimeReq
    /\ \/ nbReq' = nbReq /\ flight' = flight
       \/ nbReq' = Min({nbReq + 1, Requests1 + Requests2})
    /\ UNCHANGED <<service, enabled, sync, joined, ans, token, err, mixed, replan>>

\* ALC_SYNC_ANS_TASK is launched: it asks for the time only if the server has forced it to.
LaunchAns ==
    /\ busy = "NONE" /\ ans /\ joined
    /\ busy' = "ANS" /\ ans' = FALSE
    /\ IF forced > 0 THEN AppTimeReq ELSE UNCHANGED <<forced, flight>>
    /\ UNCHANGED <<service, enabled, sync, nbReq, joined, due, token, err, mixed, replan>>

\* The network answers DeviceTimeReq within the exchange.
DeviceTimeAns ==
    /\ busy = "REQ" /\ service = "MAC"
    /\ sync' = [sync EXCEPT !["MAC"].age = 0]
    /\ UNCHANGED <<service, enabled, nbReq, joined, due, ans, busy, forced, token, err, flight, mixed, replan>>

\* modem_supervisor_update_task at the end of the exchange.
UpdateReq ==
    /\ busy = "REQ" /\ busy' = "NONE"
    /\ LET c == Callback
       IN /\ sync' = [sync EXCEPT ![service] = c.sync] /\ nbReq' = c.nbReq
          /\ IF enabled THEN due' \in Spread(c.wait) /\ replan' = FALSE
             ELSE UNCHANGED <<due, replan>>
    /\ UNCHANGED <<service, enabled, joined, ans, forced, token, err, flight, mixed>>

UpdateAns ==
    /\ busy = "ANS" /\ busy' = "NONE"
    /\ ans' = (ans \/ forced > 0)
    /\ UNCHANGED <<service, enabled, sync, nbReq, joined, due, forced, token, err, flight, mixed, replan>>

-----------------------------------------------------------------------------
(* The application server's downlinks: dm_downlink's DM_ALC_SYNC, or              *)
(* modem_supervisor_update_downlink_frame on the port of ALCSync.                 *)

\* Mutant: the token is not compared.
AnyToken(a) == TRUE

Matches(a) == a.token = token
NextToken == (token + 1) % Tokens

\* An answer with another token still takes the tasks off and is taken for a
\* synchronisation; only the time is not corrected.  Bound: an answer does not come so
\* late that its token is used again.
AppTimeAns ==
    /\ joined
    /\ \E a \in {b \in flight : Last(b)} :
          IF Matches(a)
          THEN /\ token' = NextToken /\ err' = err + a.corr /\ mixed' = (mixed /\ err' # 0) /\ forced' = 0
               /\ sync' = [sync EXCEPT !["ALC"].status = "NETWORK", !["ALC"].age = 0]
               /\ flight' = {b \in flight \ {a} : b.token # (token + 1) % Tokens}
          ELSE /\ flight' = flight \ {a}
               /\ UNCHANGED <<token, err, mixed, forced, sync>>
    /\ ans' = FALSE
    /\ IF enabled THEN PlannedIfEnabled(sync'[service]) ELSE due' = Never /\ UNCHANGED replan
    /\ UNCHANGED <<service, enabled, nbReq, joined, busy>>

\* DeviceAppTimePeriodicityReq, which sets the delay along.
PeriodicityReq(p) ==
    /\ joined
    /\ sync' = [sync EXCEPT !["ALC"].period = p, !["ALC"].delay = Min({3 * p, Default})]
    /\ PlannedIfEnabled(sync'[service])
    /\ ans' = TRUE
    /\ UNCHANGED <<service, enabled, nbReq, joined, busy, forced, token, err, flight, mixed>>

\* ForceDeviceResyncReq; none is discarded.
ForceResync(n) ==
    /\ joined
    /\ forced' = n
    /\ ans' = (ans \/ n > 0)
    /\ UNCHANGED <<service, enabled, sync, nbReq, joined, due, busy, token, err, flight, mixed, replan>>

-----------------------------------------------------------------------------
\* The end of JOIN_TASK, and modem_leave, which takes off every task.
Join ==
    /\ ~joined /\ joined' = TRUE
    /\ IF enabled THEN due' = JoinDelay /\ nbReq' = 0 ELSE UNCHANGED <<due, nbReq>>
    /\ UNCHANGED <<service, enabled, sync, ans, busy, forced, token, err, flight, mixed, replan>>

Leave ==
    /\ joined /\ joined' = FALSE
    /\ due' = Never /\ ans' = FALSE /\ busy' = "NONE"
    /\ UNCHANGED <<service, enabled, sync, nbReq, forced, token, err, flight, mixed, replan>>

\* Time passes between exchanges; a task that is due may wait for others.  A clock that
\* has not been corrected for longer than the longest delay may be wrong; an answer is
\* faster than that.
Outstanding == \E a \in flight : a.token = token
Older(x) == [x EXCEPT !.age = IF @ = Never THEN @ ELSE Min({@ + 1, Default + 1})]
Tick ==
    /\ busy = "NONE"
    /\ due' = IF due = Never THEN Never ELSE Max({due - 1, 0})
    /\ sync' = [s \in Services |-> Older(sync[s])]
    /\ err' \in {err} \cup {e \in Errors : sync'["ALC"].age \notin 0 .. Default /\ ~Outstanding}
    /\ UNCHANGED <<service, enabled, nbReq, joined, ans, busy, forced, token, flight, mixed, replan>>

Next ==
    \/ (\E s \in Services : Start(s)) \/ Stop \/ Trigger \/ SetTime
    \/ (\E p \in Periods : SetPeriod(p) \/ PeriodicityReq(p))
    \/ (\E d \in Delays : SetDelay(d))
    \/ LaunchReq \/ LaunchAns \/ DeviceTimeAns \/ UpdateReq \/ UpdateAns
    \/ AppTimeAns \/ (\E n \in 0 .. 1 : ForceResync(n))
    \/ Join \/ Leave \/ Tick

Spec == Init /\ [][Next]_vars

-----------------------------------------------------------------------------
\* A time that ALCSync took from the server and calls valid is the true time, although
\* answers are lost, late and come after the clock was corrected by another one; unless
\* the user set the time while a request was outstanding, whose answer is then added to it.
SyncedIsRight ==
    sync["ALC"].status = "NETWORK" /\ Valid("ALC", sync["ALC"]) => err = 0 \/ mixed

\* A synchronised modem asks again before its time becomes invalid, or at once when it
\* has become so: between exchanges a request is planned no later than the delay leaves,
\* but for the spreading of the dates and for the first request after a join.
LapseNoticed ==
    enabled /\ joined /\ busy = "NONE" =>
        /\ due # Never
        /\ LET x == sync[service]
               left == IF Valid(service, x) THEN x.delay - x.age ELSE 0
           IN x.status = "NETWORK" /\ ~replan => due <= left + Max({Jitter, JoinDelay})

=============================================================================

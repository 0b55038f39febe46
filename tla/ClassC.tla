------------------------------- MODULE ClassC -------------------------------
(***************************************************************************)
(* Class C and its multicast sessions (lr1mac_class_c.c, smtc_multicast.c):  *)
(* one continuous reception, for the unicast session or for the multicast    *)
(* ones, opened again by its own callback.  The callback runs in the work    *)
(* queue, between any two steps of the main thread, which changes the        *)
(* sessions and, in class A, the same downlink counter.  Class B keeps its   *)
(* multicast sessions in the same table (smtc_ping_slot.c).                  *)
(*                                                                           *)
(* Radio parameters are members of Params; the planner is seen through its   *)
(* promise that a task held is reported.  Counters are shifted by one, so    *)
(* that 0 is the code's ~0, and have no roll-over: a frame older than the    *)
(* last is taken for the next turn and fails its MIC.                        *)
(***************************************************************************)
EXTENDS Integers, FiniteSets, FiniteSetsExt

CONSTANTS
    Groups,    \* the multicast groups, 1 .. LR1MAC_MC_NUMBER_OF_SESSION
    Params,    \* pairs of a frequency and a data rate
    MaxCount   \* bound: the downlink counter of a session

None == "none"

ClassCAssumption ==
    /\ Groups \subseteq Nat \ {0} /\ IsFiniteSet(Groups)
    /\ None \notin Params /\ MaxCount \in Nat

VARIABLES
    joined,    \* lr1_mac->join_status is JOINED
    rx2,       \* lr1_mac->rx2_frequency and rx2_data_rate
    fcnt,      \* lr1_mac->fcnt_dwn
    enabled,   \* class_c_obj->enabled
    started,   \* class_c_obj->started
    table,     \* class_c_obj->rx_session_param: enabled, param, fcnt
    hook,      \* the parameters of class C's task in the planner, or None
    main,      \* what the main thread is in the middle of
    seen,      \* history: the counters taken in each session
    past       \* history: what happened that the properties except

vars == <<joined, rx2, fcnt, enabled, started, table, hook, main, seen, past>>

Unicast == 0               \* RX_SESSION_UNICAST
Sessions == Groups \cup {Unicast}
Idle == [at |-> "Idle"]
NoFault == "none"

Init ==
    /\ joined = FALSE /\ rx2 \in Params /\ fcnt = 0
    /\ enabled = FALSE /\ started = FALSE /\ hook = None /\ main = Idle
    /\ table = [s \in Sessions |-> [enabled |-> s = Unicast, param |-> None, fcnt |-> 0]]
    /\ seen = [s \in Sessions |-> {}]
    /\ past = [moved |-> FALSE, deaf |-> FALSE, crossed |-> FALSE, overtaken |-> FALSE,
               again |-> FALSE, fault |-> NoFault]

-----------------------------------------------------------------------------
On(t) == {s \in DOMAIN t : t[s].enabled}
OnGroups(t) == On(t) \ {Unicast}

\* The unicast session takes the parameters of the second window of class A.
Refreshed(t) == [t EXCEPT ![Unicast].param = rx2']

\* lr1mac_class_c_launch on the table t: the first session enabled is listened to.
Launch(t, history) ==
    LET fresh == Refreshed(t) IN
    /\ table' = fresh
    /\ hook' = IF On(fresh) = {} THEN None ELSE fresh[Min(On(fresh))].param
    /\ past' = [history EXCEPT
            !.fault = IF On(fresh) = {} THEN "no session" ELSE @,
            !.moved = @ /\ OnGroups(fresh) # {}]

\* lr1mac_class_c_rp_callback, after the frame: the reception is launched again.
EndOfTask(t, history) ==
    IF started THEN Launch(t, history)
    ELSE /\ table' = t /\ hook' = None
         /\ past' = [history EXCEPT !.deaf = main.at = "Started"]

\* rp_task_abort of class C's task, whose callback is called before it returns.
Abort(t, history) ==
    IF hook # None THEN EndOfTask(t, history)
    ELSE table' = t /\ past' = history /\ UNCHANGED hook

\* lr1mac_class_c_start in the main thread: the task is in the planner before `started'
\* is written.
Start(t, history) ==
    IF enabled' /\ joined' /\ ~started
    THEN Launch(t, history) /\ main' = [at |-> "Started"]
    ELSE table' = t /\ past' = history /\ main' = Idle /\ UNCHANGED hook

\* A session that is stopped has neither frequency nor rate.
Off(t, stopped) ==
    [s \in DOMAIN t |->
        IF s \in stopped THEN [t[s] EXCEPT !.enabled = FALSE, !.param = None] ELSE t[s]]

\* Mutant: unicast stays off.
RestoredOff(t) == Off(t, OnGroups(t))

\* lr1mac_class_c_multicast_stop_all_sessions: unicast comes back if a session was stopped.
Restored(t) ==
    IF OnGroups(t) = {} THEN t ELSE [Off(t, OnGroups(t)) EXCEPT ![Unicast].enabled = TRUE]

\* lr1mac_class_c_enabled( false ).  In one step: `started' is FALSE before the rest, so
\* that a callback in between launches nothing.
Disable ==
    /\ enabled' = FALSE /\ started' = FALSE /\ main' = Idle
    /\ IF enabled
       THEN /\ table' = Restored(table) /\ hook' = None
            /\ past' = [past EXCEPT !.deaf = FALSE,
                                    !.crossed = @ /\ ~table'[Unicast].enabled]
       ELSE UNCHANGED <<table, hook, past>>

-----------------------------------------------------------------------------
(* The work queue. *)

Ready == past.fault = NoFault

\* The reception ends without a frame for this device: timeout, error, a frame of someone
\* else, or a task of a better rank.
CallbackEmpty ==
    /\ Ready /\ hook # None
    /\ UNCHANGED <<joined, rx2, fcnt, enabled, started, main, seen>>
    /\ EndOfTask(table, past)

\* Mutant: the unicast counter of the last frame of class C.
CountersKept == table

\* The counters a frame is checked with: the unicast one is read from class A first.
Counters == [table EXCEPT ![Unicast].fcnt = fcnt]

\* What lr1mac_class_c_mac_rx_frame_decode leaves in the table; class A then gets the
\* unicast counter back, whatever the session of the frame.
Taken(s, c) == [Counters EXCEPT ![s].fcnt = c]

Take(s, c) ==
    /\ table[s].enabled /\ c > Counters[s].fcnt
    /\ fcnt' = Taken(s, c)[Unicast].fcnt
    /\ seen' = [seen EXCEPT ![s] = @ \cup {c}]
    /\ EndOfTask(Taken(s, c),
           [past EXCEPT !.again = @ \/ c \in seen[s],
                        !.overtaken = @ \/ (main.at = "ClassA" /\ s = Unicast)])

\* A device that left looks for no session and decodes with one past the end of the table.
TakeStray ==
    /\ past' = [past EXCEPT !.fault = "no such session"]
    /\ UNCHANGED <<fcnt, seen, table, hook>>

\* A frame of session s, sent with its parameters and the counter c.
CallbackFrame(s, c) ==
    /\ Ready /\ hook # None
    /\ hook = IF s = Unicast THEN rx2 ELSE table[s].param
    /\ UNCHANGED <<joined, rx2, enabled, started, main>>
    /\ IF joined THEN Take(s, c) ELSE TakeStray

-----------------------------------------------------------------------------
(* The main thread. *)

MainIdle == main = Idle /\ Ready

\* The join accept, then modem_supervisor_update_task_join.
Join(p) ==
    /\ MainIdle /\ ~joined
    /\ joined' = TRUE /\ rx2' = p /\ fcnt' = 0 /\ seen' = [seen EXCEPT ![Unicast] = {}]
    /\ UNCHANGED <<enabled, started>>
    /\ Start(table, [past EXCEPT !.moved = @ \/ p # rx2])

\* smtc_modem_set_class( SMTC_MODEM_CLASS_C ).
SetClassC ==
    /\ MainIdle
    /\ enabled' = TRUE /\ UNCHANGED <<joined, rx2, fcnt, seen, started>>
    /\ Start(table, past)

\* The rest of lr1mac_class_c_launch, after rp_task_enqueue.
WriteStarted ==
    /\ main.at = "Started" /\ Ready
    /\ started' = TRUE /\ main' = Idle
    /\ UNCHANGED <<joined, rx2, fcnt, enabled, table, hook, seen, past>>

\* smtc_modem_set_class of the other classes.
SetOtherClass ==
    /\ MainIdle /\ Disable /\ UNCHANGED <<joined, rx2, fcnt, seen>>

\* modem_leave: the network first, then class C.
Leave ==
    /\ MainIdle
    /\ joined' = FALSE /\ main' = [at |-> "Leaving"]
    /\ UNCHANGED <<rx2, fcnt, enabled, started, table, hook, seen, past>>

LeaveEnd ==
    /\ main.at = "Leaving" /\ Ready
    /\ Disable /\ UNCHANGED <<joined, rx2, fcnt, seen>>

\* The network moves the second window.
RxParamSetup(p) ==
    /\ MainIdle /\ joined /\ p # rx2
    /\ rx2' = p /\ past' = [past EXCEPT !.moved = TRUE]
    /\ UNCHANGED <<joined, fcnt, enabled, started, table, hook, main, seen>>

\* Mutant: they agree with those of unicast.
CompatibleWithUnicast(p) == OnGroups(table) # {} => table[Unicast].param = p

\* The parameters of a new session agree with those of the first one enabled.
Compatible(p) == OnGroups(table) # {} => table[Min(OnGroups(table))].param = p

\* lr1mac_class_c_multicast_start_session: unicast gives way if its parameters differ.
StartMulticast(g, p) ==
    LET begun == [table EXCEPT ![g] = [enabled |-> TRUE, param |-> p, fcnt |-> 0]] IN
    /\ MainIdle /\ enabled /\ ~table[g].enabled /\ Compatible(p)
    /\ seen' = [seen EXCEPT ![g] = {}]
    /\ UNCHANGED <<joined, rx2, fcnt, enabled, started, main>>
    /\ IF table[Unicast].param # p
       THEN Abort([begun EXCEPT ![Unicast].enabled = FALSE], past)
       ELSE table' = begun /\ UNCHANGED <<hook, past>>

\* lr1mac_class_c_multicast_stop_session and stop_all_sessions, until the sessions are
\* stopped.
StopMulticast(stopped) ==
    /\ MainIdle
    /\ table' = Off(table, stopped)
    /\ main' = IF OnGroups(table') = {} THEN [at |-> "Stopping"] ELSE Idle
    /\ UNCHANGED <<joined, rx2, fcnt, enabled, started, hook, seen, past>>

\* The rest of both: unicast again.
StopEnd ==
    /\ main.at = "Stopping" /\ Ready /\ main' = Idle
    /\ UNCHANGED <<joined, rx2, fcnt, enabled, started, seen>>
    /\ Abort([table EXCEPT ![Unicast].enabled = TRUE], [past EXCEPT !.crossed = FALSE])

\* smtc_ping_slot_multicast_b_stop_session, which asks neither for the class nor for the
\* owner of the session.
StopMulticastB(g) ==
    /\ MainIdle
    /\ table' = Off(table, {g})
    /\ past' = [past EXCEPT !.crossed = @ \/ On(table') = {}]
    /\ UNCHANGED <<joined, rx2, fcnt, enabled, started, hook, main, seen>>

\* lr1_stack_mac_rx_frame_decode of a class A downlink: the counter is read, the MIC
\* computed, and the counter written.
ClassARead(c) ==
    /\ MainIdle /\ joined /\ c > fcnt
    /\ main' = [at |-> "ClassA", count |-> c]
    /\ UNCHANGED <<joined, rx2, fcnt, enabled, started, table, hook, seen, past>>

ClassAWrite ==
    /\ main.at = "ClassA" /\ Ready /\ main' = Idle
    /\ fcnt' = main.count
    /\ seen' = [seen EXCEPT ![Unicast] = @ \cup {main.count}]
    /\ past' = [past EXCEPT !.again = @ \/ main.count \in seen[Unicast]]
    /\ UNCHANGED <<joined, rx2, enabled, started, table, hook>>

Callback ==
    \/ CallbackEmpty
    \/ \E s \in Sessions, c \in 1 .. MaxCount : CallbackFrame(s, c)

Next ==
    \/ Callback
    \/ \E p \in Params : Join(p) \/ RxParamSetup(p)
    \/ SetClassC \/ WriteStarted \/ SetOtherClass \/ Leave \/ LeaveEnd
    \/ \E g \in Groups, p \in Params : StartMulticast(g, p)
    \/ \E g \in Groups : StopMulticast({g}) \/ StopMulticastB(g)
    \/ StopMulticast(OnGroups(table)) \/ StopEnd
    \/ \E c \in 1 .. MaxCount : ClassARead(c)
    \/ ClassAWrite

Spec == Init /\ [][Next]_vars

-----------------------------------------------------------------------------
(* Properties. *)

\* No downlink is taken twice in a session, by class A or by class C, although both write
\* the same counter and every multicast frame writes it as well: except after a unicast
\* frame of class C came between the read and the write of class A.
DownlinkOnce == past.again => past.overtaken

\* Once class C is on, the radio listens, and to every session enabled, unless the second
\* window moved since the sessions were alone: the unicast session, which is first, then
\* takes the radio away with it; or a command of class B stopped the last session, whose
\* reception then goes on beside the next one.  A reception that ends before `started' is written is
\* never launched again.
SessionsHeard ==
    (started /\ main = Idle /\ Ready) =>
        IF past.deaf THEN hook = None
        ELSE /\ hook # None
             /\ \A g \in OnGroups(table) : hook = table[g].param \/ past.moved \/ past.crossed

\* The callback never finds every session disabled, nor decodes for a session that does
\* not exist, but in the middle of a stop, of a leave, or after a command of class B
\* stopped the session that class C listened to.
SessionFound ==
    /\ past.fault = "no session" => main.at = "Stopping" \/ past.crossed
    /\ past.fault = "no such session" => main.at = "Leaving"
=============================================================================

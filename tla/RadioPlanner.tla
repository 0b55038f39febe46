---------------------------- MODULE RadioPlanner ----------------------------
(***************************************************************************)
(* The radio planner (radio_planner/src/radio_planner.c): the arbiter that  *)
(* shares one radio between the hooks of the modem.  Each hook owns at most *)
(* one task; the planner decides which task runs, preempts, aborts the      *)
(* tasks that missed their start, and arms one timer for the next start.    *)
(*                                                                         *)
(* Control.  The planner is re-entrant: hook and launch callbacks call      *)
(* rp_task_enqueue and rp_task_abort, which call the arbiter again.  The C  *)
(* call stack is the variable `stack'; its head is the code to run next:    *)
(*   arbiter   rp_task_arbiter, from its first line to the launch           *)
(*   launch    the launch callback of task h                                *)
(*   expire    the arbiter after the launch ("Timer has expired ...")       *)
(*   rearm     the arbiter's rp_task_get_next and rp_set_alarm              *)
(*   collect   the loop of rp_task_call_aborted, from index n               *)
(*   hook      the callback of hook h, with n planner calls left to make    *)
(*   irqEnd    rp_radio_irq after its callbacks (semaphore, arbiter)        *)
(*   leave     rp_hal_critical_section_end of an API call                   *)
(*                                                                         *)
(* Time.  Every time is kept relative to now and saturates where the code   *)
(* can no longer tell the difference, so the clock needs no bound: `due' is *)
(* start_time_ms - now, `age' is now - start_time_init_ms (read for ASAP    *)
(* tasks only), `alarm' is what is left of the armed timer.                 *)
(***************************************************************************)
EXTENDS Integers, Sequences, FiniteSets, SequencesExt, FiniteSetsExt

CONSTANTS
    NbHooks,      \* RP_NB_HOOKS; the hook's number is also its rank
    Margin,       \* RP_MARGIN_DELAY
    AsapTrig,     \* RP_TASK_ASAP_TO_SCHEDULE_TRIG_TIME
    Resched,      \* RP_TASK_RE_SCHEDULE_OFFSET_TIME
    Offers,       \* the tasks the hooks' owners may enqueue
    Aborters,     \* the hooks whose owner may call rp_task_abort
    MayOverwrite, \* owners may enqueue over a task that is not finished
    MaxDur,       \* bound: longest duration and latest start offered
    Latency,      \* bound: how late an idle processor serves the timer
    HookCalls,    \* bound: planner calls one hook callback makes
    MaxDepth,     \* bound: hook callbacks call the planner below this depth
    MaxLag        \* bound: time callbacks may take in one activation

Hooks == 0 .. NbHooks - 1
NoHook == NbHooks

Waiting == {"SCHEDULE", "ASAP"}                \* state < RP_TASK_STATE_RUNNING
States == Waiting \cup {"RUNNING", "ABORTED", "FINISHED"}
Types == {"RX", "TX", "LR_FHSS", "CAD_TO_TX", "CAD_TO_RX", "LBT", "NONE", "USER"}
Irqs == {"DONE", "HOP", "CAD_NEGATIVE", "CAD_POSITIVE"}
Statuses == Irqs \cup {"INIT", "ABORTED", "LBT_FREE", "LBT_BUSY"}
Ops == {"arbiter", "launch", "expire", "rearm", "collect", "hook", "irqEnd", "leave"}

Offer == [h : Hooks, type : Types, state : Waiting, due : 0 .. MaxDur,
          dur : 0 .. MaxDur, low : BOOLEAN]

ASSUME PlannerAssumption ==
    /\ NbHooks \in Nat \ {0}
    /\ Margin \in Nat /\ AsapTrig \in Nat /\ Resched \in Nat
    /\ MaxDur \in Nat /\ Resched <= MaxDur
    /\ Latency \in Nat /\ HookCalls \in Nat /\ MaxDepth \in Nat /\ MaxLag \in Nat
    /\ Offers \subseteq Offer
    /\ Aborters \subseteq Hooks
    /\ MayOverwrite \in BOOLEAN

NoAlarm == MaxDur + 2      \* no timer armed (an armed one is at most MaxDur)
Floor == MaxDur + 1        \* a start further back than any duration

VARIABLES
    tasks,        \* rp->tasks: hook -> its task
    status,       \* rp->status: hook -> what its callback will read
    radioTask,    \* rp->radio_task_id
    priorityHook, \* rp->priority_task.hook_id
    timerHook,    \* rp->timer_hook_id
    nextSet,      \* rp->next_state_status = RP_STATUS_HAVE_TO_SET_TIMER
    semaphore,    \* rp->semaphore_radio # 0
    alarm,        \* the MCU timer
    chip,         \* the hook whose operation the radio chip executes
    chipIrq,      \* the irq status register of the chip, and whose it is
    irqPending,   \* a radio interrupt reached the MCU and is not served
    stack,        \* the call stack
    lag           \* time spent in the callbacks of this activation

planner == <<tasks, status, radioTask, priorityHook, timerHook, nextSet, semaphore>>
radio == <<chip, chipIrq, irqPending>>
vars == <<planner, alarm, radio, stack, lag>>

NoIrq == [kind |-> "NONE", of |-> NoHook]
Frame(op, h, n) == [op |-> op, h |-> h, n |-> n]
Call(op) == <<Frame(op, NoHook, 0)>>
Idle == stack = <<>>
Top == Head(stack)
At(op) == stack # <<>> /\ Top.op = op
Rest == Tail(stack)

Running(t) == t[radioTask].state = "RUNNING"
Priority(h, state, low) ==
    IF low \/ state = "ASAP" THEN NbHooks + h ELSE h
TaskFree(task) == [task EXCEPT !.state = "FINISHED", !.due = 0, !.age = 0,
                               !.dur = 0, !.low = FALSE]
Abort(t, S) == [h \in Hooks |-> IF h \in S THEN [t[h] EXCEPT !.state = "ABORTED"] ELSE t[h]]

-----------------------------------------------------------------------------
(* The pure part of the arbiter: functions of the task table. *)

\* Mutant: an ASAP task never becomes a scheduled one.
NeverTooOld(task) == FALSE

TooOld(task) == task.state = "ASAP" /\ task.age > AsapTrig

\* rp_task_update_time: an ASAP task starts now, or, once it has waited too
\* long, at a fixed time; the task that is receiving is extended.
UpdateTime(t) ==
    [h \in Hooks |->
        IF TooOld(t[h])
          THEN [t[h] EXCEPT !.state = "SCHEDULE", !.due = Resched, !.age = 0,
                            !.prio = Priority(h, "SCHEDULE", t[h].low)]
        ELSE IF t[h].state = "ASAP" /\ t[h].age > 0
          THEN [t[h] EXCEPT !.due = 0]
        ELSE IF h = radioTask /\ Running(t) /\ t[h].type = "RX"
          THEN [t[h] EXCEPT !.dur = Margin + 2 - t[h].due]
        ELSE t[h]]

\* The garbage collector of rp_task_select_next and rp_task_get_next.
AbortPast(t) == Abort(t, {h \in Hooks : t[h].state = "SCHEDULE" /\ t[h].due < 0})

Startable(t) == {h \in Hooks : t[h].state \in Waiting /\ t[h].due >= 0}
Eligible(t) == Startable(t) \cup {h \in Hooks : t[h].state = "RUNNING"}
End(task) == task.due + task.dur

\* rp_task_compute_ranking restricted to the tasks that count: those of a rank.
Ranked(t, rank) == {h \in Eligible(t) : t[h].prio = rank}

\* Mutant: a task that ends exactly when the better one starts is let through.
EndsNotAfter(t, h, best) == End(t[h]) <= t[best].due /\ End(t[h]) >= 0

EndsBefore(t, h, best) == End(t[h]) < t[best].due /\ End(t[h]) >= 0

\* rp_task_select_next: the best ranked task, unless a lower ranked one ends
\* before the task retained so far starts.
Better(t, best, h) == IF best = NoHook \/ EndsBefore(t, h, best) THEN h ELSE best
Retained(t, best, rank) ==
    IF Ranked(t, rank) = {} THEN best
    ELSE Better(t, best, CHOOSE h \in Ranked(t, rank) : TRUE)
SelectNext(t) ==
    LET hook[rank \in 0 .. 2 * NbHooks - 1] ==
            Retained(t, IF rank = 0 THEN NoHook ELSE hook[rank - 1], rank)
    IN  hook[2 * NbHooks - 1]

\* Mutant: the timer is set for the first waiting hook, not the earliest start.
FirstWaiting(t) == CHOOSE h \in Startable(t) : \A g \in Startable(t) : h <= g

\* rp_task_get_next: the waiting task that starts first.
GetNext(t) == CHOOSE h \in Startable(t) :
                 \A g \in Startable(t) :
                    t[h].due < t[g].due \/ (t[h].due = t[g].due /\ h <= g)

\* Mutant: the delay is shortened by the margin even when it is shorter.
UncheckedDelay(delay) == delay - Margin

\* The timer is set the margin ahead of the start, or to 1 ms.
AlarmDelay(delay) == IF delay > Margin THEN delay - Margin ELSE 1

-----------------------------------------------------------------------------
(* What the API calls do, as conditions on the step; `rest' is the stack     *)
(* they return to.                                                           *)

Init ==
    /\ tasks = [h \in Hooks |-> [state |-> "FINISHED", type |-> "NONE", due |-> 0,
                                 age |-> 0, dur |-> 0, prio |-> 0, low |-> FALSE]]
    /\ status = [h \in Hooks |-> "INIT"]
    /\ radioTask = 0 /\ priorityHook = 0 /\ timerHook = 0
    /\ nextSet = FALSE /\ semaphore = FALSE
    /\ alarm = NoAlarm
    /\ chip = NoHook /\ chipIrq = NoIrq /\ irqPending = FALSE
    /\ stack = <<>> /\ lag = 0

\* Mutant: the refusal of a task whose hook is running is dropped.
AcceptedWhileRunning(k) ==
    /\ k.state = "SCHEDULE" => k.due > 0
    /\ MayOverwrite \/ tasks[k.h].state \in {"FINISHED", "RUNNING"}

Accepted(k) ==
    /\ tasks[k.h].state # "RUNNING"          \* RP_TASK_STATUS_ALREADY_RUNNING
    /\ k.state = "SCHEDULE" => k.due > 0     \* ..._SCHEDULE_TASK_IN_PAST
    /\ MayOverwrite \/ tasks[k.h].state = "FINISHED"

Enqueue(k, rest) ==
    /\ Accepted(k)
    /\ tasks' = [tasks EXCEPT ![k.h] =
                    [state |-> k.state, type |-> k.type, due |-> k.due,
                     age |-> IF k.state = "ASAP" THEN 0 - k.due ELSE 0,
                     dur |-> k.dur, prio |-> Priority(k.h, k.state, k.low),
                     low |-> k.low]]
    /\ status' = [status EXCEPT ![k.h] = "INIT"]
    /\ stack' = (IF semaphore THEN <<>> ELSE Call("arbiter")) \o Call("leave") \o rest
    /\ UNCHANGED <<radioTask, priorityHook, timerHook, nextSet, semaphore, alarm, radio>>

\* rp_irq_get_status: the status the radio task gets from the irq register.
IrqStatus ==
    IF tasks[radioTask].type = "LBT" THEN status[radioTask]
    ELSE IF chipIrq.kind = "NONE" THEN "ABORTED" ELSE chipIrq.kind

ClearedIrq == IF tasks[radioTask].type = "LBT" THEN chipIrq ELSE NoIrq

\* What is left of rp_radio_irq: a frequency hop or a first CAD result leaves
\* the task running and the semaphore taken.
AfterIrq(st) ==
    CASE st = "HOP" -> <<>>
      [] \/ st = "CAD_NEGATIVE" /\ tasks[radioTask].type = "CAD_TO_TX"
         \/ st = "CAD_POSITIVE" /\ tasks[radioTask].type = "CAD_TO_RX" ->
            <<Frame("hook", radioTask, HookCalls)>>
      [] OTHER -> <<Frame("hook", radioTask, HookCalls),
                    Frame("collect", NoHook, 0), Frame("irqEnd", NoHook, 0)>>

EndsTask(st) == "irqEnd" \in {f.op : f \in ToSet(AfterIrq(st))}

\* rp_radio_irq when the radio task is not aborted or finished; st is what
\* rp_irq_get_status stores.
ServeIrq(st, rest) ==
    /\ tasks[radioTask].state \in Waiting \cup {"RUNNING"}
    /\ semaphore' = TRUE
    /\ status' = [status EXCEPT ![radioTask] = st]
    /\ chipIrq' = ClearedIrq
    /\ IF EndsTask(st)
         THEN /\ tasks' = [tasks EXCEPT ![radioTask] = TaskFree(@)]
              /\ chip' = NoHook
         ELSE UNCHANGED <<tasks, chip>>
    /\ stack' = AfterIrq(st) \o rest
    /\ UNCHANGED <<radioTask, priorityHook, timerHook, nextSet, alarm>>

AbortTask(h, rest) ==
    \/ /\ tasks[h].state = "RUNNING"
       /\ ServeIrq(IrqStatus, Call("leave") \o rest)
       /\ UNCHANGED irqPending
    \/ /\ tasks[h].state \in Waiting \cup {"ABORTED"}
       /\ tasks' = Abort(tasks, {h})
       /\ stack' = (IF semaphore THEN <<>> ELSE Call("arbiter")) \o Call("leave") \o rest
       /\ UNCHANGED <<status, radioTask, priorityHook, timerHook, nextSet, semaphore,
                      alarm, radio>>

-----------------------------------------------------------------------------
(* The planner's own code, one action per piece that runs without a call     *)
(* back.                                                                     *)

\* Mutant: the irq status of the preempted operation is not cleared.
StopRadioKeepsIrq == chip' = NoHook /\ UNCHANGED <<chipIrq, irqPending>>

StopRadio == chip' = NoHook /\ chipIrq' = NoIrq /\ irqPending' = FALSE

ArbiterStart(h) ==
    /\ radioTask' = h
    /\ stack' = <<Frame("launch", h, 0), Frame("expire", NoHook, lag)>> \o Rest

\* The arbiter up to the launch of the selected task.  A selected task in the
\* past is necessarily the running one, so the "error case" of the code changes
\* nothing.
Select(t, best) ==
    /\ priorityHook' = best
    /\ \/ /\ t[best].due \in 0 .. Margin
          /\ ~Running(t)
          /\ tasks' = [t EXCEPT ![best].state = "RUNNING"]
          /\ ArbiterStart(best)
          /\ UNCHANGED radio
       \/ /\ t[best].due \in 0 .. Margin
          /\ Running(t) /\ radioTask # best
          /\ tasks' = [t EXCEPT ![radioTask].state = "ABORTED", ![best].state = "RUNNING"]
          /\ StopRadio
          /\ ArbiterStart(best)
       \/ /\ t[best].due \notin 0 .. Margin \/ (Running(t) /\ radioTask = best)
          /\ tasks' = t
          /\ stack' = <<Frame("expire", NoHook, lag)>> \o Rest
          /\ UNCHANGED <<radioTask, radio>>

Arbiter ==
    /\ At("arbiter")
    /\ LET t == AbortPast(UpdateTime(tasks))
       IN  \/ /\ Eligible(t) = {}
              /\ tasks' = t
              /\ stack' = Call("collect") \o Rest
              /\ UNCHANGED <<radioTask, priorityHook, radio>>
           \/ \E best \in Eligible(t) : best = SelectNext(t) /\ Select(t, best)
    /\ UNCHANGED <<status, timerHook, nextSet, semaphore, alarm, lag>>

\* The launch callback.  A beacon task of type NONE aborts itself; a listen
\* before talk task samples the channel, stores its status and calls
\* rp_radio_irq_callback; the empty callback of a suspension leaves the radio to
\* its user; the others wait for the exact start, then start the radio.
WaitsForStart(task) == task.type \notin {"NONE", "LBT", "USER"} /\ task.due > 0

Launch ==
    /\ At("launch")
    /\ LET h == Top.h
       IN  \/ /\ tasks[h].type = "NONE"
              /\ AbortTask(h, Rest)
           \/ /\ tasks[h].type = "LBT"
              /\ \E st \in {"LBT_FREE", "LBT_BUSY"} : ServeIrq(st, Rest)
              /\ UNCHANGED irqPending
           \/ /\ tasks[h].type \notin {"NONE", "LBT"} /\ ~WaitsForStart(tasks[h])
              /\ chip' = h
              /\ stack' = Rest
              /\ UNCHANGED <<planner, alarm, chipIrq, irqPending>>
    /\ UNCHANGED lag

\* "Execute the garbage collection if the radio isn't running".
GarbageCollection(t) == IF Running(t) THEN <<>> ELSE Call("collect")

\* "Timer has expired on a not priority task => Have to abort this task", with
\* the time the arbiter read when it started; then the garbage collection.
Expire ==
    /\ At("expire")
    /\ LET tmp == tasks[timerHook].due + (lag - Top.n)
           lost == IF /\ nextSet /\ timerHook # priorityHook
                      /\ tasks[timerHook].state = "SCHEDULE"
                      /\ 0 < tmp /\ tmp < Margin
                   THEN {timerHook} ELSE {}
       IN  tasks' = Abort(tasks, lost)
    /\ stack' = GarbageCollection(tasks') \o Call("rearm") \o Rest
    /\ UNCHANGED <<status, radioTask, priorityHook, timerHook, nextSet, semaphore,
                   alarm, radio, lag>>

Rearm ==
    /\ At("rearm")
    /\ tasks' = AbortPast(tasks)
    /\ nextSet' = (Startable(tasks') # {})
    /\ IF Startable(tasks') # {}
         THEN /\ timerHook' = GetNext(tasks')
              /\ alarm' = AlarmDelay(tasks'[timerHook'].due)
         ELSE UNCHANGED <<timerHook, alarm>>
    /\ stack' = Rest
    /\ UNCHANGED <<status, radioTask, priorityHook, semaphore, radio, lag>>

\* rp_task_call_aborted from index Top.n on.
Collect ==
    /\ At("collect")
    /\ LET aborted == {h \in Hooks : h >= Top.n /\ tasks[h].state = "ABORTED"}
       IN  \/ /\ aborted = {}
              /\ stack' = Rest
              /\ UNCHANGED <<tasks, status>>
           \/ \E h \in aborted :
              /\ \A g \in aborted : h <= g
              /\ tasks' = [tasks EXCEPT ![h] = TaskFree(@)]
              /\ status' = [status EXCEPT ![h] = "ABORTED"]
              /\ stack' = <<Frame("hook", h, HookCalls), Frame("collect", NoHook, h + 1)>>
                          \o Rest
    /\ UNCHANGED <<radioTask, priorityHook, timerHook, nextSet, semaphore, alarm,
                   radio, lag>>

\* Mutant: the semaphore is not released.
IrqEndKeepsSemaphore ==
    /\ At("irqEnd")
    /\ stack' = Call("arbiter") \o Rest
    /\ UNCHANGED <<planner, alarm, radio, lag>>

IrqEnd ==
    /\ At("irqEnd")
    /\ semaphore' = FALSE
    /\ stack' = Call("arbiter") \o Rest
    /\ UNCHANGED <<tasks, status, radioTask, priorityHook, timerHook, nextSet, alarm,
                   radio, lag>>

Leave ==
    /\ At("leave")
    /\ stack' = Rest
    /\ UNCHANGED <<planner, alarm, radio, lag>>

-----------------------------------------------------------------------------
(* The owners of the hooks, the radio chip, the timer and time. *)

HookReturn ==
    /\ At("hook")
    /\ stack' = Rest
    /\ UNCHANGED <<planner, alarm, radio, lag>>

\* A hook callback enqueues its next task or drives another hook (the beacon
\* starts or stops the ping slots, listen before talk enqueues the uplink).
HookCall ==
    /\ At("hook") /\ Top.n > 0 /\ Len(stack) < MaxDepth
    /\ LET rest == <<Frame("hook", Top.h, Top.n - 1)>> \o Rest
       IN  \/ \E k \in Offers : Enqueue(k, rest)
           \/ \E h \in Aborters : AbortTask(h, rest)
    /\ UNCHANGED lag

\* The main thread calls the planner.
MainEnqueue == Idle /\ lag' = 0 /\ \E k \in Offers : Enqueue(k, <<>>)
MainAbort == Idle /\ lag' = 0 /\ \E h \in Aborters : AbortTask(h, <<>>)

IrqsOf(type) ==
    CASE type \in {"RX", "TX"} -> {"DONE"}
      [] type = "LR_FHSS" -> {"HOP", "DONE"}
      [] type \in {"CAD_TO_TX", "CAD_TO_RX"} -> {"CAD_NEGATIVE", "CAD_POSITIVE", "DONE"}
      [] OTHER -> {}

\* The radio chip raises an interrupt at any time of its operation.
ChipRaises ==
    /\ chip # NoHook /\ chipIrq = NoIrq
    /\ \E irq \in IrqsOf(tasks[chip].type) : chipIrq' = [kind |-> irq, of |-> chip]
    /\ irqPending' = TRUE
    /\ UNCHANGED <<planner, alarm, chip, stack, lag>>

\* rp_radio_irq_callback, run by the work queue once the planner is left.
RadioIrq ==
    /\ Idle /\ irqPending
    /\ irqPending' = FALSE
    /\ lag' = 0
    /\ \/ ServeIrq(IrqStatus, <<>>)
       \/ /\ tasks[radioTask].state \in {"ABORTED", "FINISHED"}
          /\ UNCHANGED <<planner, alarm, chip, chipIrq, stack>>

\* rp_timer_irq_callback.
TimerIrq ==
    /\ Idle /\ alarm <= 0
    /\ alarm' = NoAlarm
    /\ stack' = Call("arbiter")
    /\ lag' = 0
    /\ UNCHANGED <<planner, radio>>

Later(task) ==
    IF task.state \notin Waiting \cup {"RUNNING"} THEN task
    ELSE [task EXCEPT !.due = Max({@ - 1, 0 - Floor}),
                      !.age = IF task.state = "ASAP" THEN Min({@ + 1, AsapTrig + 1}) ELSE @]

\* Time passes when the planner is idle, when a launch callback waits for the
\* start of its task, and, up to MaxLag per activation, in any callback.
Tick ==
    /\ \/ Idle /\ alarm > 0 - Latency /\ lag' = 0
       \/ At("launch") /\ WaitsForStart(tasks[Top.h]) /\ lag' = lag + 1
       \/ (At("hook") \/ At("launch")) /\ lag < MaxLag /\ lag' = lag + 1
    /\ tasks' = [h \in Hooks |-> Later(tasks[h])]
    /\ alarm' = IF alarm = NoAlarm THEN alarm ELSE Max({alarm - 1, 0 - Latency})
    /\ UNCHANGED <<status, radioTask, priorityHook, timerHook, nextSet, semaphore,
                   radio, stack>>

Planner == \/ Arbiter \/ Launch \/ Expire \/ Rearm \/ Collect \/ IrqEnd \/ Leave
           \/ HookReturn \/ HookCall
Environment == MainEnqueue \/ MainAbort \/ ChipRaises \/ RadioIrq \/ TimerIrq \/ Tick

Next == Planner \/ Environment

Spec == Init /\ [][Next]_vars

-----------------------------------------------------------------------------
(* Properties. *)

TaskType == [state : States, type : Types, due : (0 - Floor) .. MaxDur,
             age : (0 - MaxDur) .. (AsapTrig + 1), dur : 0 .. (Margin + 2 + Floor),
             prio : 0 .. (2 * NbHooks - 1), low : BOOLEAN]
FrameType == [op : Ops, h : Hooks \cup {NoHook}, n : Nat]

TypeOK ==
    /\ tasks \in [Hooks -> TaskType]
    /\ status \in [Hooks -> Statuses]
    /\ radioTask \in Hooks /\ priorityHook \in Hooks /\ timerHook \in Hooks
    /\ nextSet \in BOOLEAN /\ semaphore \in BOOLEAN
    /\ alarm \in (0 - Latency) .. NoAlarm
    /\ chip \in Hooks \cup {NoHook}
    /\ chipIrq \in [kind : Irqs \cup {"NONE"}, of : Hooks \cup {NoHook}]
    /\ irqPending \in BOOLEAN
    /\ stack \in Seq(FrameType)
    /\ lag \in Nat

\* The radio executes the operation of one hook only: at most the radio task is
\* RUNNING, and the chip works for nobody but a running task, through every
\* preemption, abort and re-entrant call of the arbiter.
OneRadioUser ==
    /\ \A h \in Hooks : tasks[h].state = "RUNNING" => h = radioTask
    /\ chip # NoHook => chip = radioTask /\ tasks[chip].state = "RUNNING"

\* The inductive invariant behind OneRadioUser: a launch callback is the code
\* that runs next and belongs to the running radio task, and no task runs before
\* the margin ahead of its start.
NoLaunch(frames) == \A i \in 1 .. Len(frames) : frames[i].op # "launch"
LaunchOnTop ==
    ~Idle => /\ NoLaunch(Rest)
             /\ Top.op = "launch" => Top.h = radioTask /\ Running(tasks)
StartedInTime == \A h \in Hooks : tasks[h].state = "RUNNING" => tasks[h].due <= Margin
IInv == TypeOK /\ OneRadioUser /\ LaunchOnTop /\ StartedInTime

\* No lost wake-up: whenever the planner is left, every scheduled task has the
\* timer armed early enough to launch it on its start, and every ASAP task has
\* the timer or the end of the running task to wait for; unless rp_radio_irq has
\* kept the semaphore for a running task (a frequency hop, a CAD) and will call
\* the arbiter itself when that task ends.
NoLostWakeup ==
    Idle /\ ~semaphore =>
        \A h \in Hooks :
            /\ tasks[h].state = "SCHEDULE" => alarm <= Max({tasks[h].due - Margin, 1})
            /\ tasks[h].state = "ASAP" => alarm # NoAlarm \/ Running(tasks)

\* The semaphore, which keeps rp_task_enqueue and rp_task_abort from calling
\* the arbiter, is never left behind: some task is still running to release it.
SemaphoreHeldByTask == Idle /\ semaphore => Running(tasks)

\* A hook only ever reads a radio result that the chip raised for its own
\* operation: the result of a preempted task is never handed to the task that
\* replaced it.
OwnResults ==
    \A h \in Hooks :
        status'[h] # status[h] /\ status'[h] \in Irqs =>
            chip = h /\ chipIrq = [kind |-> status'[h], of |-> h]
ResultBelongsToTask == [][OwnResults]_vars

\* The task of the first hook, scheduled at a fixed time, is given up by the
\* planner in one case only: the running task was selected before it because
\* it is due to end first, but no more than the margin before ("Timer has
\* expired on a not priority task").  Otherwise it is launched unless its owner aborts
\* it, whatever the other hooks do (the timer being served on time: Latency = 0).
TopTaskNeverLost ==
    [][tasks[0].state = "SCHEDULE" /\ tasks'[0].state = "ABORTED"
          => \/ Idle \/ Top.op = "hook"
             \/ /\ At("expire") /\ Running(tasks) /\ radioTask # 0
                /\ End(tasks[radioTask]) \in tasks[0].due - Margin .. tasks[0].due - 1]_vars

\* The planner keeps the promise of RadioGrant: seen by the owners, the radio is
\* held by one task at a time and a task that loses it, or its turn, is aborted
\* and reported before it is finished.
Phase(state) ==
    CASE state \in Waiting -> "waiting" [] state = "RUNNING" -> "running"
      [] state = "ABORTED" -> "aborted" [] OTHER -> "idle"
Grant == INSTANCE RadioGrant WITH phase <- [h \in Hooks |-> Phase(tasks[h].state)]
ImplementsGrant == Grant!Spec

\* Every task that waits is eventually launched, or given up and its owner
\* called: the switch from ASAP to SCHEDULE keeps better ranked hooks from
\* starving it, the collection of aborted tasks from forgetting it.
EveryTaskResolved ==
    \A h \in Hooks :
        tasks[h].state \in Waiting \cup {"ABORTED"} ~>
            tasks[h].state \in {"RUNNING", "FINISHED"}

\* The processor runs the planner to its end; the work queue outranks the main
\* thread, so a main thread that keeps calling the planner holds off neither the
\* interrupts nor time (strong fairness: they are enabled between two calls);
\* the chip ends the operations that end by themselves.
ChipEnds == ChipRaises /\ chipIrq'.kind = "DONE"
FairSpec == Spec /\ WF_vars(Planner) /\ WF_vars(ChipEnds)
                 /\ SF_vars(RadioIrq) /\ SF_vars(TimerIrq) /\ SF_vars(Tick)

=============================================================================

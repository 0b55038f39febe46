---------------------------- MODULE PlannerOnHal ----------------------------
(***************************************************************************)
(* The radio planner on the Zephyr port (smtc_modem_hal_impl/                *)
(* smtc_modem_hal.c): where RadioPlanner runs each interrupt only once the   *)
(* planner is left, here the system work queue preempts the main thread      *)
(* whenever the modem interrupts are enabled.                                *)
(*                                                                         *)
(* The work queue outranks the main thread and runs one item at a time: its  *)
(* frames lie on top of the main thread's, `base' of them, in the one stack. *)
(* RadioPlanner's irqPending stays what an ideal MCU layer would have        *)
(* pending; `event' is what the driver really has.                           *)
(***************************************************************************)
EXTENDS RadioPlanner

CONSTANTS
    SuspendOffers,   \* the suspensions main may ask for: at most one task
    ReadsFifo,       \* main reads downlinks (fifo_ctrl_get masks interrupts)
    PastCrossing     \* bound: what follows a crossing is explored

ASSUME HalAssumption ==
    /\ SuspendOffers \subseteq Offer
    /\ ReadsFifo \in BOOLEAN /\ PastCrossing \in BOOLEAN

VARIABLES
    irqEnabled,      \* prv_modem_irq_enabled
    skipNext,        \* prv_skip_next_radio_irq
    event,           \* the lr11xx driver has an event to call back
    timerWork,       \* prv_smtc_modem_hal_timer_work is submitted
    suspended,       \* the radio is suspended by main
    base,            \* frames of the main thread below the work queue's
    dropped,         \* (history) the last expiry of the timer was not submitted
    crossed          \* (history) the work queue entered under a launch of main

hal == <<irqEnabled, skipNext, event, timerWork, suspended, base, dropped, crossed>>
halVars == <<vars, hal>>

NoBase == 0 - 1                     \* the work queue is idle
WorkqIdle == base = NoBase
\* The main thread runs when the work queue has nothing to run.
MainRuns == WorkqIdle /\ ~timerWork /\ ~(irqEnabled /\ event)
\* A work item starts on top of st; main may have chosen a task and not finished
\* its launch callback, which reads the planner's data again.
Enters(st) == base' = Len(st) /\ crossed' = (crossed \/ At("launch"))

\* No activation of the arbiter is waiting for the end of a launch.
Fresh == \A i \in 1 .. Len(stack) : stack[i].op # "expire"

\* Open critical sections in a stack.
Sections(st) == {i \in 1 .. Len(st) : st[i].op = "leave"}

\* The lr11xx interrupt is enabled by smtc_modem_hal_irq_config_radio_irq; the
\* flag itself is set by the end of the first rp_task_enqueue, before which no
\* timer is armed.
HalInit ==
    /\ Init
    /\ irqEnabled = TRUE /\ skipNext = FALSE /\ event = FALSE
    /\ timerWork = FALSE /\ suspended = FALSE /\ base = NoBase
    /\ dropped = FALSE /\ crossed = FALSE

\* rp_hal_critical_section_begin and _end do not nest: the end of an inner
\* section enables the interrupts under an outer one.
IrqGate ==
    irqEnabled' = IF At("leave") THEN TRUE
                  ELSE IF Cardinality(Sections(stack')) > Cardinality(Sections(stack))
                  THEN FALSE ELSE irqEnabled

\* smtc_modem_hal_radio_irq_clear_pending, called when the arbiter preempts.
ClearsPending == At("arbiter") /\ Running(tasks) /\ tasks'[radioTask].state = "ABORTED"
SkipGate == skipNext' = (skipNext \/ ClearsPending)

\* The planner's code, on the main thread or on the work queue.
HalPlanner ==
    /\ Planner
    /\ MainRuns \/ (~WorkqIdle /\ Len(stack) > base)
    /\ IrqGate /\ SkipGate
    /\ UNCHANGED <<event, timerWork, suspended, base, dropped, crossed>>

WorkDone ==
    /\ ~WorkqIdle /\ Len(stack) = base
    /\ base' = NoBase
    /\ UNCHANGED <<vars, irqEnabled, skipNext, event, timerWork, suspended, dropped, crossed>>

HalMain ==
    /\ MainRuns
    /\ MainEnqueue \/ MainAbort
    /\ IrqGate
    /\ UNCHANGED <<skipNext, event, timerWork, suspended, base, dropped, crossed>>

\* fifo_ctrl_get, by the application that reads a downlink.
ReadFifo ==
    /\ ReadsFifo /\ MainRuns /\ Idle
    /\ stack' = Call("leave")
    /\ IrqGate
    /\ UNCHANGED <<planner, alarm, radio, lag, skipNext, event, timerWork, suspended, base,
                   dropped, crossed>>

\* modem_context_suspend_radio_access: the interrupts are masked, then the
\* suspension is enqueued, whose critical section enables them on its way out.
Suspend ==
    /\ MainRuns /\ Idle /\ ~suspended
    /\ \E k \in SuspendOffers : Enqueue(k, <<>>)
    /\ irqEnabled' = FALSE /\ suspended' = TRUE /\ lag' = 0
    /\ UNCHANGED <<skipNext, event, timerWork, base, dropped, crossed>>

\* modem_context_resume_radio_access; rp_task_abort fails when the suspension
\* is over already.
Resume ==
    /\ MainRuns /\ Idle /\ suspended
    /\ \E k \in SuspendOffers :
          \/ AbortTask(k.h, <<>>)
          \/ tasks[k.h].state = "FINISHED" /\ stack' = Call("leave")
             /\ UNCHANGED <<planner, alarm, radio>>
    /\ irqEnabled' = FALSE /\ suspended' = FALSE /\ lag' = 0
    /\ UNCHANGED <<skipNext, event, timerWork, base, dropped, crossed>>

HalChip ==
    /\ ChipRaises
    /\ event' = TRUE
    /\ UNCHANGED <<irqEnabled, skipNext, timerWork, suspended, base, dropped, crossed>>

\* prv_lr11xx_event_cb on the work queue: skipped, or rp_radio_irq_callback.
SkipEvent ==
    /\ WorkqIdle /\ irqEnabled /\ event /\ skipNext
    /\ event' = FALSE /\ skipNext' = FALSE
    /\ UNCHANGED <<vars, irqEnabled, timerWork, suspended, base, dropped, crossed>>

CallEvent ==
    /\ WorkqIdle /\ irqEnabled /\ event /\ ~skipNext
    /\ event' = FALSE /\ irqPending' = FALSE
    /\ lag' = IF Fresh THEN 0 ELSE lag
    /\ Enters(stack)
    /\ \/ ServeIrq(IrqStatus, stack)
       \/ /\ tasks[radioTask].state \in {"ABORTED", "FINISHED"}
          /\ UNCHANGED <<planner, alarm, chip, chipIrq, stack>>
    /\ UNCHANGED <<irqEnabled, skipNext, timerWork, suspended, dropped>>

\* Mutant: the expiry is lost when the work queue is busy with another item.
SubmitsIfIdle == timerWork' = (timerWork \/ (irqEnabled /\ WorkqIdle))
\* prv_smtc_modem_hal_timer_handler, from the timer's interrupt.
TimerSubmits == timerWork' = (timerWork \/ irqEnabled)

TimerExpires ==
    /\ alarm <= 0
    /\ alarm' = NoAlarm
    /\ TimerSubmits
    /\ dropped' = ~irqEnabled
    /\ UNCHANGED <<planner, radio, stack, lag, irqEnabled, skipNext, event, suspended, base,
                   crossed>>

\* prv_smtc_modem_hal_timer_work_handler: rp_timer_irq_callback.
CallTimer ==
    /\ WorkqIdle /\ timerWork
    /\ timerWork' = FALSE
    /\ stack' = Call("arbiter") \o stack
    /\ lag' = IF Fresh THEN 0 ELSE lag
    /\ Enters(stack)
    /\ UNCHANGED <<planner, alarm, radio, irqEnabled, skipNext, event, suspended, dropped>>

\* The timer's interrupt is served whatever runs, and the submitted work before
\* main goes on.
HalTick == Tick /\ alarm > 0 - Latency /\ (WorkqIdle => ~timerWork) /\ UNCHANGED hal

\* After a crossing two activations write each other's data.
Explored == crossed => PastCrossing
Stop == ~Explored /\ UNCHANGED halVars

HalStep ==
    \/ HalPlanner \/ WorkDone \/ HalMain \/ ReadFifo \/ Suspend \/ Resume
    \/ HalChip \/ SkipEvent \/ CallEvent \/ TimerExpires \/ CallTimer \/ HalTick

HalNext == (Explored /\ HalStep) \/ Stop

HalSpec == HalInit /\ [][HalNext]_halVars

-----------------------------------------------------------------------------
(* Properties. *)

\* "This is set by the libraray during critical sections"
\* (smtc_modem_hal.c:46): no interrupt enters the planner while the main
\* thread is inside a critical section.
CriticalSectionsExclude ==
    [][WorkqIdle /\ base' # NoBase => Sections(stack) = {}]_halVars

\* What RadioPlanner promises its owners holds on the port until the work queue
\* enters under a launch of main: the arbiter that it runs may then preempt the task
\* that main is launching, and main starts it on the radio all the same. The gate is
\* closed during the launches of rp_task_enqueue, but not during the one that ends
\* rp_radio_irq, in an rp_task_abort of main or under a launch callback of listen
\* before talk: the hook's callback has enqueued, and its section has opened the gate.
OneUserUnlessCrossed == ~crossed => OneRadioUser

\* The semaphore of the planner is held by a task that is running
\* (radio_planner.c:387), whoever was in the middle of rp_radio_irq.
SemaphoreUnlessCrossed == ~crossed => SemaphoreHeldByTask

\* A hook reads the results of its own operation only, although events reach the
\* work queue late, are skipped, or come while the gate is closed.
ResultsUnlessCrossed == [][~crossed => OwnResults]_halVars

\* "Callback that will be called in case of timer irq" (smtc_modem_hal.h:215):
\* while no section is open, a scheduled task has its timer armed or the callback
\* on the way, although the work queue enters the arbiter wherever it is
\* enabled. The one way to lose it before a crossing is an expiry that finds the
\* interrupts masked: prv_smtc_modem_hal_timer_handler drops it and nothing replays it.
WakeupUnlessMasked ==
    Idle /\ WorkqIdle /\ ~semaphore /\ ~timerWork /\ ~dropped /\ ~crossed =>
        \A h \in Hooks : tasks[h].state = "SCHEDULE" => alarm # NoAlarm

=============================================================================

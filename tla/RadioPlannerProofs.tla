------------------------- MODULE RadioPlannerProofs -------------------------
(***************************************************************************)
(* Proofs about RadioPlanner for any number of hooks, any offers and any    *)
(* bounds: type correctness, one user of the radio at a time, the           *)
(* implementation of RadioGrant, the results of the radio and the semaphore *)
(* that go with the running task, the wake-ups that are never lost and the  *)
(* first hook's task that is not given up; and what of it PlannerOnHal      *)
(* keeps when interrupts enter the planner.                                 *)
(***************************************************************************)
EXTENDS PlannerOnHal, WellFoundedInduction, TLAPS

USE PlannerAssumption

-----------------------------------------------------------------------------
(* Sets of numbers and stacks of frames. *)

\* A non-empty set of natural numbers has a least element.
LEMMA LeastNat ==
  ASSUME NEW S \in SUBSET Nat, S # {}
  PROVE  \E m \in S : \A n \in S : m <= n
<1> DEFINE Lt == {ss \in Nat \X Nat : ss[1] < ss[2]}
<1>1. IsWellFoundedOn(Lt, Nat)
  BY NatLessThanWellFounded DEF OpToRel
<1>2. PICK m \in S : \A n \in S : <<n, m>> \notin Lt
  <2> HIDE DEF Lt
  <2>. QED BY <1>1, WFMin, Zenon
<1>3. \A n \in S : ~(n < m)
  BY <1>2
<1>. QED BY <1>3

\* The larger and the smaller of two integers.
LEMMA MaxMinOfTwo ==
  ASSUME NEW a \in Int, NEW b \in Int
  PROVE  /\ Max({a, b}) \in {a, b} /\ Max({a, b}) >= a /\ Max({a, b}) >= b
         /\ Min({a, b}) \in {a, b} /\ Min({a, b}) <= a /\ Min({a, b}) <= b
<1>1. \E m \in {a, b} : \A x \in {a, b} : m >= x
  OBVIOUS
<1>2. \E m \in {a, b} : \A x \in {a, b} : m <= x
  OBVIOUS
<1>. QED BY <1>1, <1>2 DEF Max, Min

\* A stack that holds no launch frame.
Quiet(frames) == frames \in Seq(FrameType) /\ NoLaunch(frames)

\* A frame that is not a launch frame makes a quiet stack.
LEMMA QuietFrame ==
  ASSUME NEW op \in Ops, op # "launch", NEW h \in Hooks \cup {NoHook}, NEW n \in Nat
  PROVE  Quiet(<<Frame(op, h, n)>>)
BY DEF Quiet, NoLaunch, Frame, FrameType

\* ... and so does the call of any other piece of the planner.
LEMMA QuietCall ==
  ASSUME NEW op \in Ops, op # "launch"
  PROVE  Quiet(Call(op))
BY QuietFrame DEF Call, NoHook

\* Nor does an empty stack of calls.
LEMMA QuietEmpty == Quiet(<<>>)
BY DEF Quiet, NoLaunch

\* Pushing quiet frames on a quiet stack leaves it quiet.
LEMMA QuietConcat ==
  ASSUME NEW s, NEW t, Quiet(s), Quiet(t)
  PROVE  Quiet(s \o t)
<1>1. s \o t \in Seq(FrameType) /\ Len(s \o t) = Len(s) + Len(t)
  BY DEF Quiet
<1>2. ASSUME NEW i \in 1 .. Len(s \o t) PROVE (s \o t)[i].op # "launch"
  <2>1. CASE i <= Len(s)
    BY <2>1, <1>1 DEF Quiet, NoLaunch
  <2>2. CASE i > Len(s)
    <3>1. i - Len(s) \in 1 .. Len(t) /\ (s \o t)[i] = t[i - Len(s)]
      BY <2>2, <1>1 DEF Quiet
    <3>. QED BY <3>1 DEF Quiet, NoLaunch
  <2>. QED BY <2>1, <2>2, <1>1 DEF Quiet
<1>. QED BY <1>1, <1>2 DEF Quiet, NoLaunch

\* A quiet stack satisfies the stack part of the invariant.
LEMMA QuietStack ==
  ASSUME NEW s, Quiet(s), s # <<>>
  PROVE  Quiet(Tail(s)) /\ Head(s) \in FrameType /\ Head(s).op # "launch"
<1>1. Tail(s) \in Seq(FrameType) /\ Len(Tail(s)) = Len(s) - 1 /\ Len(s) >= 1
  BY DEF Quiet
<1>2. \A i \in 1 .. Len(Tail(s)) : Tail(s)[i] = s[i + 1]
  BY DEF Quiet
<1>. QED BY <1>1, <1>2 DEF Quiet, NoLaunch

\* What the code below the head of the stack is, in a state of the invariant.
LEMMA RestQuiet ==
  ASSUME IInv, ~Idle
  PROVE  Quiet(Rest) /\ Top \in FrameType
BY DEF IInv, TypeOK, LaunchOnTop, Quiet, Rest, Top, Idle

-----------------------------------------------------------------------------
(* The task table. *)

TaskTable == [Hooks -> TaskType]

\* Aborting a set of tasks changes nothing else.
LEMMA AbortTable ==
  ASSUME NEW t \in TaskTable, NEW S
  PROVE  /\ Abort(t, S) \in TaskTable
         /\ \A h \in Hooks : h \in S => Abort(t, S)[h].state = "ABORTED"
         /\ \A h \in Hooks : h \notin S => Abort(t, S)[h] = t[h]
BY DEF TaskTable, TaskType, Abort, States

\* A rank computed by the planner is a rank.
LEMMA PriorityType ==
  ASSUME NEW h \in Hooks, NEW state, NEW low
  PROVE  Priority(h, state, low) \in 0 .. 2 * NbHooks - 1
BY DEF Priority, Hooks

\* rp_task_free yields a finished task.
LEMMA TaskFreeType ==
  ASSUME NEW r \in TaskType
  PROVE  TaskFree(r) \in TaskType /\ TaskFree(r).state = "FINISHED"
<1> DEFINE r1 == [r EXCEPT !.state = "FINISHED"]
           r2 == [r1 EXCEPT !.due = 0]
           r3 == [r2 EXCEPT !.age = 0]
           r4 == [r3 EXCEPT !.dur = 0]
           r5 == [r4 EXCEPT !.low = FALSE]
<1>1. r1 \in TaskType /\ r1.state = "FINISHED"
  BY DEF TaskType, States
<1>2. r2 \in TaskType /\ r2.state = "FINISHED"
  <2> HIDE DEF r1
  <2>. QED BY <1>1 DEF TaskType, Floor
<1>3. r3 \in TaskType /\ r3.state = "FINISHED"
  <2> HIDE DEF r2
  <2>. QED BY <1>2 DEF TaskType
<1>4. r4 \in TaskType /\ r4.state = "FINISHED"
  <2> HIDE DEF r3
  <2>. QED BY <1>3 DEF TaskType, Floor
<1>5. r5 \in TaskType /\ r5.state = "FINISHED"
  <2> HIDE DEF r4
  <2>. QED BY <1>4 DEF TaskType
<1>. QED BY <1>5, Zenon DEF TaskFree

\* An ASAP task that waited too long becomes a scheduled one.
LEMMA ReschedType ==
  ASSUME NEW r \in TaskType, NEW p \in 0 .. (2 * NbHooks - 1)
  PROVE  \A q : q = [r EXCEPT !.state = "SCHEDULE", !.due = Resched, !.age = 0, !.prio = p]
                  => q \in TaskType /\ q.state = "SCHEDULE"
<1> DEFINE r1 == [r EXCEPT !.state = "SCHEDULE"]
           r2 == [r1 EXCEPT !.due = Resched]
           r3 == [r2 EXCEPT !.age = 0]
           r4 == [r3 EXCEPT !.prio = p]
<1>1. r1 \in TaskType /\ r1.state = "SCHEDULE"
  BY DEF TaskType, States, Waiting
<1>2. r2 \in TaskType /\ r2.state = "SCHEDULE"
  <2> HIDE DEF r1
  <2>. QED BY <1>1 DEF TaskType, Floor
<1>3. r3 \in TaskType /\ r3.state = "SCHEDULE"
  <2> HIDE DEF r2
  <2>. QED BY <1>2 DEF TaskType
<1>4. r4 \in TaskType /\ r4.state = "SCHEDULE"
  <2> HIDE DEF r3
  <2>. QED BY <1>3 DEF TaskType
<1>. QED BY <1>4, Zenon

\* rp_task_update_time keeps the running task running and its start.
LEMMA UpdateTable ==
  ASSUME IInv
  PROVE  /\ UpdateTime(tasks) \in TaskTable
         /\ \A h \in Hooks :
              /\ UpdateTime(tasks)[h].state = "RUNNING" <=> tasks[h].state = "RUNNING"
              /\ tasks[h].state = "RUNNING" => UpdateTime(tasks)[h].due = tasks[h].due
<1>1. tasks \in TaskTable /\ radioTask \in Hooks
  BY DEF IInv, TypeOK, TaskTable
<1>2. ASSUME NEW h \in Hooks
      PROVE  /\ UpdateTime(tasks)[h] \in TaskType
             /\ UpdateTime(tasks)[h].state = "RUNNING" <=> tasks[h].state = "RUNNING"
             /\ tasks[h].state = "RUNNING" => UpdateTime(tasks)[h].due = tasks[h].due
  <2>1. tasks[h] \in TaskType
    BY <1>1 DEF TaskTable
  <2>2. CASE TooOld(tasks[h])
    <3>1. UpdateTime(tasks)[h] = [tasks[h] EXCEPT !.state = "SCHEDULE", !.due = Resched,
                !.age = 0, !.prio = Priority(h, "SCHEDULE", tasks[h].low)]
      BY <2>2, Zenon DEF UpdateTime
    <3>2. Priority(h, "SCHEDULE", tasks[h].low) \in 0 .. (2 * NbHooks - 1)
      BY PriorityType
    <3>3. UpdateTime(tasks)[h] \in TaskType /\ UpdateTime(tasks)[h].state = "SCHEDULE"
      BY <3>1, <3>2, <2>1, ReschedType, ZenonT(40)
    <3>4. tasks[h].state = "ASAP"
      BY <2>2 DEF TooOld
    <3>. QED BY <3>3, <3>4
  <2>3. CASE ~TooOld(tasks[h]) /\ tasks[h].state = "ASAP" /\ tasks[h].age > 0
    <3>1. UpdateTime(tasks)[h] = [tasks[h] EXCEPT !.due = 0]
      BY <2>3 DEF UpdateTime
    <3>. QED BY <3>1, <2>1, <2>3 DEF TaskType, Floor
  <2>4. CASE /\ ~TooOld(tasks[h]) /\ ~(tasks[h].state = "ASAP" /\ tasks[h].age > 0)
             /\ h = radioTask /\ Running(tasks) /\ tasks[h].type = "RX"
    <3>1. UpdateTime(tasks)[h] = [tasks[h] EXCEPT !.dur = Margin + 2 - tasks[h].due]
      BY <2>4 DEF UpdateTime
    <3>2. tasks[h].due <= Margin
      BY <2>4 DEF IInv, StartedInTime, Running
    <3>. QED BY <3>1, <3>2, <2>1 DEF TaskType, Floor
  <2>5. CASE /\ ~TooOld(tasks[h]) /\ ~(tasks[h].state = "ASAP" /\ tasks[h].age > 0)
             /\ ~(h = radioTask /\ Running(tasks) /\ tasks[h].type = "RX")
    <3>1. UpdateTime(tasks)[h] = tasks[h]
      BY <2>5 DEF UpdateTime
    <3>. QED BY <3>1, <2>1
  <2>. QED BY <2>2, <2>3, <2>4, <2>5
<1>. QED BY <1>2 DEF UpdateTime, TaskTable

-----------------------------------------------------------------------------
(* Preservation of the inductive invariant, one lemma per operation. *)

\* A stack that became quiet satisfies the stack part of the invariant.
LEMMA NewStack ==
  ASSUME Quiet(stack')
  PROVE  LaunchOnTop' /\ stack' \in Seq(FrameType)
BY QuietStack DEF LaunchOnTop, Idle, Rest, Top, Quiet

\* The initial states.
LEMMA InitInv == Init => IInv
<1> SUFFICES ASSUME Init PROVE IInv
  OBVIOUS
<1>1. tasks \in [Hooks -> TaskType]
  BY DEF Init, TaskType, States, Types, Hooks, Floor
<1>2. 0 \in Hooks /\ NoAlarm \in (0 - Latency) .. NoAlarm /\ <<>> \in Seq(FrameType)
  BY DEF Hooks, NoAlarm
<1>3. chipIrq \in [kind : Irqs \cup {"NONE"}, of : Hooks \cup {NoHook}]
  BY DEF Init, NoIrq
<1>4. status \in [Hooks -> Statuses]
  BY DEF Init, Statuses
<1>5. TypeOK
  BY <1>1, <1>2, <1>3, <1>4 DEF Init, TypeOK
<1>6. OneRadioUser /\ LaunchOnTop /\ StartedInTime
  BY DEF Init, OneRadioUser, LaunchOnTop, StartedInTime, Idle, NoHook
<1>. QED BY <1>5, <1>6 DEF IInv

\* rp_task_enqueue never replaces the running task.
LEMMA EnqueueInv ==
  ASSUME IInv, NEW k \in Offer, NEW rest, Quiet(rest), Enqueue(k, rest), lag' \in Nat
  PROVE  IInv'
<1> DEFINE task == [state |-> k.state, type |-> k.type, due |-> k.due,
                    age |-> IF k.state = "ASAP" THEN 0 - k.due ELSE 0,
                    dur |-> k.dur, prio |-> Priority(k.h, k.state, k.low), low |-> k.low]
<1>1. k \in Offer
  OBVIOUS
<1>2. k.h \in Hooks /\ tasks[k.h].state # "RUNNING"
  BY <1>1 DEF Enqueue, Accepted, Offer
<1>3. task \in TaskType /\ task.state # "RUNNING"
  BY <1>1, PriorityType DEF Offer, TaskType, States, Waiting, Floor
<1>4. tasks' = [tasks EXCEPT ![k.h] = task]
  BY DEF Enqueue
<1>5. tasks \in [Hooks -> TaskType]
  BY DEF IInv, TypeOK
<1> HIDE DEF task
<1>6. tasks' \in [Hooks -> TaskType]
  BY <1>2, <1>3, <1>4, <1>5
<1>7. \A h \in Hooks : tasks'[h].state = "RUNNING" => h # k.h /\ tasks'[h] = tasks[h]
  BY <1>2, <1>3, <1>4, <1>5
<1>8. \A h \in Hooks : tasks[h].state = "RUNNING" => tasks'[h] = tasks[h]
  BY <1>2, <1>4, <1>5
<1>9. Quiet(stack')
  <2>1. Quiet(Call("leave") \o rest)
    BY QuietCall, QuietConcat DEF Ops
  <2>2. CASE semaphore
    <3>1. Quiet(<<>> \o Call("leave") \o rest)
      BY QuietCall, QuietEmpty, QuietConcat DEF Ops
    <3>. QED BY <2>2, <3>1 DEF Enqueue
  <2>3. CASE ~semaphore
    <3>1. Quiet(Call("arbiter") \o Call("leave") \o rest)
      BY QuietCall, QuietConcat DEF Ops
    <3>. QED BY <2>3, <3>1 DEF Enqueue
  <2>. QED BY <2>2, <2>3
<1>10. status' \in [Hooks -> Statuses]
  BY <1>2 DEF Enqueue, IInv, TypeOK, Statuses
<1>11. TypeOK'
  BY <1>6, <1>9, <1>10, NewStack DEF Enqueue, IInv, TypeOK, radio
<1>12. OneRadioUser'
  BY <1>7, <1>8 DEF Enqueue, IInv, OneRadioUser, TypeOK, radio
<1>13. StartedInTime'
  BY <1>7 DEF IInv, StartedInTime
<1>. QED BY <1>9, <1>11, <1>12, <1>13, NewStack DEF IInv

\* What rp_radio_irq pushes on the stack is quiet.
LEMMA AfterIrqQuiet ==
  ASSUME IInv, NEW st
  PROVE  Quiet(AfterIrq(st))
<1>1. radioTask \in Hooks /\ HookCalls \in Nat
  BY DEF IInv, TypeOK
<1>2. Quiet(<<Frame("hook", radioTask, HookCalls)>>)
  BY <1>1, QuietFrame DEF Ops
<1>3. Quiet(<<Frame("hook", radioTask, HookCalls), Frame("collect", NoHook, 0),
              Frame("irqEnd", NoHook, 0)>>)
  BY <1>1 DEF Quiet, NoLaunch, Frame, FrameType, Ops
<1>. QED BY <1>2, <1>3, QuietEmpty DEF AfterIrq

\* rp_radio_irq puts the radio to sleep when it ends the radio task.
LEMMA ServeIrqInv ==
  ASSUME IInv, NEW st \in Statuses, NEW rest, Quiet(rest), ServeIrq(st, rest),
         irqPending' \in BOOLEAN, lag' \in Nat
  PROVE  IInv'
<1>1. tasks \in [Hooks -> TaskType] /\ radioTask \in Hooks
  BY DEF IInv, TypeOK
<1>2. radioTask' = radioTask
  BY DEF ServeIrq
<1>3. Quiet(stack')
  BY AfterIrqQuiet, QuietConcat DEF ServeIrq
<1>4. chipIrq' \in [kind : Irqs \cup {"NONE"}, of : Hooks \cup {NoHook}]
  BY DEF ServeIrq, ClearedIrq, NoIrq, IInv, TypeOK
<1>5. status' \in [Hooks -> Statuses]
  BY DEF ServeIrq, IInv, TypeOK
<1>6. CASE EndsTask(st)
  <2>1. tasks' = [tasks EXCEPT ![radioTask] = TaskFree(tasks[radioTask])] /\ chip' = NoHook
    BY <1>6 DEF ServeIrq
  <2>2. TaskFree(tasks[radioTask]) \in TaskType
        /\ TaskFree(tasks[radioTask]).state = "FINISHED"
    BY <1>1, TaskFreeType
  <2>3. tasks' \in [Hooks -> TaskType]
        /\ \A h \in Hooks : tasks'[h].state # "RUNNING"
    BY <1>1, <2>1, <2>2 DEF IInv, OneRadioUser
  <2>4. TypeOK'
    BY <1>2, <1>3, <1>4, <1>5, <2>1, <2>3, NewStack DEF ServeIrq, IInv, TypeOK
  <2>. QED BY <1>3, <2>1, <2>3, <2>4, NewStack DEF IInv, OneRadioUser, StartedInTime
<1>7. CASE ~EndsTask(st)
  <2>1. UNCHANGED <<tasks, chip>>
    BY <1>7 DEF ServeIrq
  <2>2. TypeOK'
    BY <1>2, <1>3, <1>4, <1>5, <2>1, NewStack DEF ServeIrq, IInv, TypeOK
  <2>. QED BY <1>2, <1>3, <2>1, <2>2, NewStack DEF IInv, OneRadioUser, StartedInTime
<1>. QED BY <1>6, <1>7

\* The status read from the irq register is a status.
LEMMA IrqStatusType == IInv => IrqStatus \in Statuses
BY DEF IInv, TypeOK, IrqStatus, Statuses, Irqs

\* rp_task_abort.
LEMMA AbortTaskInv ==
  ASSUME IInv, NEW h \in Hooks, NEW rest, Quiet(rest), AbortTask(h, rest), lag' \in Nat
  PROVE  IInv'
<1>1. CASE tasks[h].state = "RUNNING"
  <2>1. ServeIrq(IrqStatus, Call("leave") \o rest) /\ UNCHANGED irqPending
    BY <1>1 DEF AbortTask, Waiting
  <2>2. Quiet(Call("leave") \o rest)
    BY QuietCall, QuietConcat DEF Ops
  <2>3. irqPending' \in BOOLEAN
    BY <2>1 DEF IInv, TypeOK
  <2>. QED BY <2>1, <2>2, <2>3, ServeIrqInv, IrqStatusType
<1>2. CASE tasks[h].state # "RUNNING"
  <2>1. /\ tasks' = Abort(tasks, {h})
        /\ stack' = (IF semaphore THEN <<>> ELSE Call("arbiter")) \o Call("leave") \o rest
        /\ UNCHANGED <<status, radioTask, priorityHook, timerHook, nextSet, semaphore,
                       alarm, radio>>
    BY <1>2 DEF AbortTask
  <2>2. tasks \in TaskTable
    BY DEF IInv, TypeOK, TaskTable
  <2>3. /\ tasks' \in TaskTable
        /\ \A g \in Hooks : tasks'[g].state = "RUNNING" => tasks'[g] = tasks[g]
        /\ \A g \in Hooks : tasks[g].state = "RUNNING" => tasks'[g] = tasks[g]
    BY <1>2, <2>1, <2>2, AbortTable
  <2>4. Quiet(stack')
    <3>1. Quiet(<<>> \o Call("leave") \o rest)
      BY QuietCall, QuietEmpty, QuietConcat DEF Ops
    <3>2. Quiet(Call("arbiter") \o Call("leave") \o rest)
      BY QuietCall, QuietConcat DEF Ops
    <3>. QED BY <2>1, <3>1, <3>2
  <2>5. TypeOK'
    BY <2>1, <2>3, <2>4, NewStack DEF IInv, TypeOK, TaskTable, radio
  <2>6. OneRadioUser' /\ StartedInTime'
    BY <2>1, <2>3 DEF IInv, OneRadioUser, StartedInTime, TypeOK, radio
  <2>. QED BY <2>4, <2>5, <2>6, NewStack DEF IInv
<1>. QED BY <1>1, <1>2

-----------------------------------------------------------------------------
(* The arbiter. *)

\* The task table from which the arbiter selects.
LEMMA PastTable ==
  ASSUME NEW t \in TaskTable
  PROVE  /\ AbortPast(t) \in TaskTable
         /\ \A h \in Hooks : AbortPast(t)[h].state # "ABORTED" => AbortPast(t)[h] = t[h]
         /\ \A h \in Hooks : t[h].state = "RUNNING" => AbortPast(t)[h] = t[h]
         /\ \A h \in Hooks : AbortPast(t)[h].state = "SCHEDULE" => AbortPast(t)[h].due >= 0
BY AbortTable DEF AbortPast, TaskTable, TaskType

\* A step of the planner that keeps the running task, if any, and the chip.
LEMMA KeepsRadioUser ==
  ASSUME IInv, tasks' \in TaskTable, UNCHANGED <<radioTask, radio>>,
         \A h \in Hooks : /\ tasks'[h].state = "RUNNING" <=> tasks[h].state = "RUNNING"
                          /\ tasks[h].state = "RUNNING" => tasks'[h].due = tasks[h].due
  PROVE  OneRadioUser' /\ StartedInTime'
BY DEF IInv, TypeOK, OneRadioUser, StartedInTime, radio

\* The selected task becomes the radio task, or nothing is launched.
LEMMA SelectInv ==
  ASSUME IInv, At("arbiter"), NEW t \in TaskTable, NEW best \in Eligible(t), Select(t, best),
         \A h \in Hooks : /\ t[h].state = "RUNNING" <=> tasks[h].state = "RUNNING"
                          /\ tasks[h].state = "RUNNING" => t[h].due = tasks[h].due,
         UNCHANGED <<status, timerHook, nextSet, semaphore, alarm, lag>>
  PROVE  IInv'
<1>1. best \in Hooks /\ radioTask \in Hooks /\ lag \in Nat /\ priorityHook' = best
  BY DEF Eligible, Startable, IInv, TypeOK, Select
<1>2. Quiet(Rest)
  BY RestQuiet DEF At, Idle
<1>3. Quiet(<<Frame("expire", NoHook, lag)>> \o Rest)
  BY <1>1, <1>2, QuietFrame, QuietConcat DEF Ops
<1>4. CASE t[best].due \notin 0 .. Margin \/ (Running(t) /\ radioTask = best)
  <2>1. tasks' = t /\ stack' = <<Frame("expire", NoHook, lag)>> \o Rest
        /\ UNCHANGED <<radioTask, radio>>
    BY <1>4 DEF Select
  <2>2. TypeOK'
    BY <2>1, <1>1, <1>3, NewStack DEF IInv, TypeOK, TaskTable, radio
  <2>. QED BY <2>1, <2>2, <1>3, NewStack, KeepsRadioUser DEF IInv
<1>5. CASE t[best].due \in 0 .. Margin /\ ~(Running(t) /\ radioTask = best)
  <2>1. /\ radioTask' = best
        /\ stack' = <<Frame("launch", best, 0), Frame("expire", NoHook, lag)>> \o Rest
    BY <1>5 DEF Select, ArbiterStart
  <2>2. /\ tasks' \in TaskTable
        /\ tasks'[best].state = "RUNNING" /\ tasks'[best].due \in 0 .. Margin
        /\ \A h \in Hooks : tasks'[h].state = "RUNNING" => h = best
    <3>1. CASE ~Running(t)
      <4>1. tasks' = [t EXCEPT ![best].state = "RUNNING"]
        BY <1>5, <3>1 DEF Select
      <4>2. \A h \in Hooks : t[h].state # "RUNNING"
        BY <3>1 DEF Running, IInv, OneRadioUser
      <4>. QED BY <4>1, <4>2, <1>1, <1>5 DEF TaskTable, TaskType, States
    <3>2. CASE Running(t)
      <4>1. tasks' = [t EXCEPT ![radioTask].state = "ABORTED", ![best].state = "RUNNING"]
            /\ radioTask # best
        BY <1>5, <3>2 DEF Select
      <4> DEFINE u == [t EXCEPT ![radioTask].state = "ABORTED"]
      <4>2. u \in TaskTable /\ u[best] = t[best] /\ \A h \in Hooks : u[h].state # "RUNNING"
        BY <4>1, <1>1 DEF TaskTable, TaskType, States, IInv, OneRadioUser
      <4>3. tasks' = [u EXCEPT ![best].state = "RUNNING"]
        BY <4>1
      <4> HIDE DEF u
      <4>. QED BY <4>2, <4>3, <1>1, <1>5 DEF TaskTable, TaskType, States
    <3>. QED BY <3>1, <3>2
  <2>3. /\ chip' = NoHook
        /\ chipIrq' \in [kind : Irqs \cup {"NONE"}, of : Hooks \cup {NoHook}]
        /\ irqPending' \in BOOLEAN
    <3>1. CASE ~Running(t)
      <4>1. UNCHANGED radio
        BY <1>5, <3>1 DEF Select
      <4>. QED BY <4>1, <3>1, <1>1 DEF radio, IInv, TypeOK, OneRadioUser, Running
    <3>2. CASE Running(t)
      <4>1. StopRadio
        BY <1>5, <3>2 DEF Select
      <4>2. NoIrq \in [kind : Irqs \cup {"NONE"}, of : Hooks \cup {NoHook}]
        BY DEF NoIrq
      <4>. QED BY <4>1, <4>2 DEF StopRadio
    <3>. QED BY <3>1, <3>2
  <2>4. stack' \in Seq(FrameType) /\ LaunchOnTop'
    <3>1. stack' = <<Frame("launch", best, 0)>> \o (<<Frame("expire", NoHook, lag)>> \o Rest)
      <4>1. Rest \in Seq(FrameType)
        BY <1>2 DEF Quiet
      <4>. QED BY <2>1, <4>1
    <3> DEFINE below == <<Frame("expire", NoHook, lag)>> \o Rest
    <3>2. stack' = <<Frame("launch", best, 0)>> \o below /\ Quiet(below)
      BY <3>1, <1>3
    <3> HIDE DEF below
    <3>3. Frame("launch", best, 0) \in FrameType
      BY <1>1 DEF Frame, FrameType, Ops
    <3>4. /\ stack' \in Seq(FrameType) /\ Head(stack') = Frame("launch", best, 0)
          /\ Tail(stack') = below
      BY <3>2, <3>3 DEF Quiet
    <3>5. NoLaunch(Tail(stack'))
      BY <3>2, <3>4 DEF Quiet
    <3>6. Head(stack').op = "launch" /\ Head(stack').h = radioTask' /\ Running(tasks)'
      BY <3>4, <2>1, <2>2 DEF Running, Frame
    <3>. QED BY <3>4, <3>5, <3>6 DEF LaunchOnTop, Rest, Top
  <2>5. TypeOK'
    BY <2>1, <2>2, <2>3, <2>4, <1>1 DEF IInv, TypeOK, TaskTable
  <2>6. OneRadioUser' /\ StartedInTime'
    BY <2>1, <2>2, <2>3, <1>1 DEF OneRadioUser, StartedInTime
  <2>. QED BY <2>4, <2>5, <2>6 DEF IInv
<1>. QED BY <1>4, <1>5

\* rp_task_arbiter up to the launch.
LEMMA ArbiterInv == IInv /\ Arbiter => IInv'
<1> SUFFICES ASSUME IInv, Arbiter PROVE IInv'
  OBVIOUS
<1> DEFINE t == AbortPast(UpdateTime(tasks))
<1>1. UNCHANGED <<status, timerHook, nextSet, semaphore, alarm, lag>> /\ At("arbiter")
  BY DEF Arbiter
<1>2. /\ t \in TaskTable
      /\ \A h \in Hooks : /\ t[h].state = "RUNNING" <=> tasks[h].state = "RUNNING"
                          /\ tasks[h].state = "RUNNING" => t[h].due = tasks[h].due
  <2> DEFINE u == UpdateTime(tasks)
  <2>1. /\ u \in TaskTable
        /\ \A h \in Hooks : /\ u[h].state = "RUNNING" <=> tasks[h].state = "RUNNING"
                            /\ tasks[h].state = "RUNNING" => u[h].due = tasks[h].due
    BY UpdateTable
  <2> HIDE DEF u
  <2>2. /\ AbortPast(u) \in TaskTable
        /\ \A h \in Hooks : AbortPast(u)[h].state # "ABORTED" => AbortPast(u)[h] = u[h]
        /\ \A h \in Hooks : u[h].state = "RUNNING" => AbortPast(u)[h] = u[h]
    BY <2>1, PastTable
  <2>3. \A h \in Hooks : /\ AbortPast(u)[h].state = "RUNNING" <=> tasks[h].state = "RUNNING"
                         /\ tasks[h].state = "RUNNING" => AbortPast(u)[h].due = tasks[h].due
    BY <2>1, <2>2
  <2>. QED BY <2>2, <2>3 DEF u
<1>3. CASE Eligible(t) = {}
  <2>1. CASE /\ tasks' = t /\ stack' = Call("collect") \o Rest
             /\ UNCHANGED <<radioTask, priorityHook, radio>>
    <3>1. Quiet(stack')
      BY <2>1, <1>1, RestQuiet, QuietCall, QuietConcat DEF At, Idle, Ops
    <3> HIDE DEF t
    <3>2. TypeOK'
      BY <2>1, <3>1, <1>1, <1>2, NewStack DEF IInv, TypeOK, TaskTable, radio
    <3>. QED BY <2>1, <3>1, <3>2, <1>2, NewStack, KeepsRadioUser DEF IInv
  <2>. QED BY <2>1, <1>3 DEF Arbiter
<1>4. CASE Eligible(t) # {}
  <2>1. PICK best \in Eligible(t) : Select(t, best)
    BY <1>4 DEF Arbiter
  <2> HIDE DEF t
  <2>. QED BY <2>1, <1>1, <1>2, SelectInv
<1>. QED BY <1>3, <1>4

\* The launch callbacks.
LEMMA LaunchInv == IInv /\ Launch => IInv'
<1> SUFFICES ASSUME IInv, Launch PROVE IInv'
  OBVIOUS
<1>1. Quiet(Rest) /\ Top.h = radioTask /\ Running(tasks) /\ radioTask \in Hooks
  BY RestQuiet DEF Launch, At, Idle, IInv, LaunchOnTop, TypeOK
<1>2. lag' = lag /\ lag' \in Nat
  BY DEF Launch, IInv, TypeOK
<1>3. CASE AbortTask(Top.h, Rest)
  BY <1>1, <1>2, <1>3, AbortTaskInv
<1>4. CASE \E st \in {"LBT_FREE", "LBT_BUSY"} : ServeIrq(st, Rest) /\ UNCHANGED irqPending
  <2>1. PICK st \in {"LBT_FREE", "LBT_BUSY"} : ServeIrq(st, Rest) /\ UNCHANGED irqPending
    BY <1>4
  <2>2. st \in Statuses /\ irqPending' \in BOOLEAN
    BY <2>1 DEF Statuses, IInv, TypeOK
  <2>. QED BY <2>1, <2>2, <1>1, <1>2, ServeIrqInv
<1>5. CASE /\ chip' = Top.h /\ stack' = Rest
           /\ UNCHANGED <<planner, alarm, chipIrq, irqPending>>
  <2>1. TypeOK'
    BY <1>1, <1>2, <1>5, NewStack DEF IInv, TypeOK, planner
  <2>2. OneRadioUser' /\ StartedInTime'
    BY <1>1, <1>5 DEF IInv, OneRadioUser, StartedInTime, planner, Running
  <2>. QED BY <2>1, <2>2, <1>1, <1>5, NewStack DEF IInv
<1>. QED BY <1>3, <1>4, <1>5 DEF Launch

\* The loss of a lower ranked task to the timer, or of none.
LEMMA ExpireInv == IInv /\ Expire => IInv'
<1> SUFFICES ASSUME IInv, Expire PROVE IInv'
  OBVIOUS
<1>1. Quiet(Rest) /\ tasks \in TaskTable /\ timerHook \in Hooks
  BY RestQuiet DEF Expire, At, Idle, IInv, TypeOK, TaskTable
<1>2. PICK lost : /\ tasks' = Abort(tasks, lost)
                  /\ \A h \in lost : tasks[h].state = "SCHEDULE"
  BY DEF Expire
<1>3. /\ tasks' \in TaskTable
      /\ \A h \in Hooks : /\ tasks'[h].state = "RUNNING" <=> tasks[h].state = "RUNNING"
                          /\ tasks[h].state = "RUNNING" => tasks'[h].due = tasks[h].due
  BY <1>1, <1>2, AbortTable
<1>4. Quiet(stack')
  <2>1. Quiet(Call("rearm") \o Rest)
    BY <1>1, QuietCall, QuietConcat DEF Ops
  <2>2. Quiet(Call("collect") \o Call("rearm") \o Rest)
    BY <1>1, QuietCall, QuietConcat DEF Ops
  <2>3. Quiet(<<>> \o Call("rearm") \o Rest)
    BY <1>1, QuietCall, QuietEmpty, QuietConcat DEF Ops
  <2>4. stack' = GarbageCollection(tasks') \o Call("rearm") \o Rest
    BY DEF Expire
  <2>. QED BY <2>2, <2>3, <2>4 DEF GarbageCollection
<1>5. UNCHANGED <<status, radioTask, priorityHook, timerHook, nextSet, semaphore,
                  alarm, radio, lag>>
  BY DEF Expire
<1>6. TypeOK'
  BY <1>3, <1>4, <1>5, NewStack DEF IInv, TypeOK, TaskTable, radio
<1>. QED BY <1>3, <1>4, <1>5, <1>6, NewStack, KeepsRadioUser DEF IInv

\* The earliest waiting task is one of the waiting tasks, and none starts before it.
LEMMA GetNextType ==
  ASSUME NEW t \in TaskTable, Startable(t) # {}
  PROVE  /\ GetNext(t) \in Startable(t)
         /\ \A g \in Startable(t) : t[GetNext(t)].due <= t[g].due
<1> DEFINE D == {t[h].due : h \in Startable(t)}
<1>1. Startable(t) \subseteq Nat /\ \A h \in Startable(t) : t[h].due \in Nat
  <2>1. Startable(t) \subseteq Hooks /\ Hooks \subseteq Nat
    BY DEF Startable, Hooks
  <2>2. \A h \in Startable(t) : t[h] \in TaskType /\ t[h].due >= 0
    BY DEF Startable, TaskTable
  <2>3. \A h \in Startable(t) : t[h].due \in Nat
    BY <2>2 DEF TaskType, Floor
  <2>. QED BY <2>1, <2>3
<1>2. D \in SUBSET Nat /\ D # {}
  BY <1>1
<1>3. PICK m \in D : \A n \in D : m <= n
  <2> HIDE DEF D
  <2>. QED BY <1>2, LeastNat
<1> DEFINE S == {h \in Startable(t) : t[h].due = m}
<1>4. S \in SUBSET Nat /\ S # {}
  BY <1>1, <1>3
<1>5. PICK h \in S : \A g \in S : h <= g
  <2> HIDE DEF S
  <2>. QED BY <1>4, LeastNat
<1>8. h \in Startable(t)
  BY <1>5
<1>6. \A g \in Startable(t) : t[h].due < t[g].due \/ (t[h].due = t[g].due /\ h <= g)
  <2> SUFFICES ASSUME NEW g \in Startable(t)
               PROVE  t[h].due < t[g].due \/ (t[h].due = t[g].due /\ h <= g)
    OBVIOUS
  <2>1. m <= t[g].due /\ t[h].due = m /\ m \in Nat /\ t[g].due \in Nat
    BY <1>1, <1>3, <1>5
  <2>2. t[g].due = m => h <= g
    BY <1>5
  <2> QED
    BY <2>1, <2>2
<1> HIDE DEF S, D
<1>7. /\ GetNext(t) \in Startable(t)
      /\ \A g \in Startable(t) :
            t[GetNext(t)].due < t[g].due \/ (t[GetNext(t)].due = t[g].due /\ GetNext(t) <= g)
  BY <1>6, <1>8 DEF GetNext
<1>. QED BY <1>1, <1>7

\* rp_task_get_next and rp_set_alarm.
LEMMA RearmInv == IInv /\ Rearm => IInv'
<1> SUFFICES ASSUME IInv, Rearm PROVE IInv'
  OBVIOUS
<1>1. Quiet(Rest) /\ tasks \in TaskTable
  BY RestQuiet DEF Rearm, At, Idle, IInv, TypeOK, TaskTable
<1>2. tasks' = AbortPast(tasks)
  BY DEF Rearm
<1>3. /\ tasks' \in TaskTable
      /\ \A h \in Hooks : /\ tasks'[h].state = "RUNNING" <=> tasks[h].state = "RUNNING"
                          /\ tasks[h].state = "RUNNING" => tasks'[h].due = tasks[h].due
  BY <1>1, <1>2, PastTable
<1>4. timerHook' \in Hooks /\ alarm' \in (0 - Latency) .. NoAlarm
  <2>1. CASE Startable(tasks') # {}
    <3>1. timerHook' = GetNext(tasks') /\ alarm' = AlarmDelay(tasks'[timerHook'].due)
      BY <2>1 DEF Rearm
    <3>2. timerHook' \in Hooks /\ tasks'[timerHook'].due \in 0 .. MaxDur
      BY <2>1, <3>1, <1>3, GetNextType DEF Startable, TaskTable, TaskType
    <3>. QED BY <3>1, <3>2 DEF AlarmDelay, NoAlarm
  <2>2. CASE Startable(tasks') = {}
    BY <2>2 DEF Rearm, IInv, TypeOK
  <2>. QED BY <2>1, <2>2
<1>5. UNCHANGED <<status, radioTask, priorityHook, semaphore, radio, lag>> /\ stack' = Rest
      /\ nextSet' \in BOOLEAN
  BY DEF Rearm
<1>6. TypeOK'
  BY <1>1, <1>3, <1>4, <1>5, NewStack DEF IInv, TypeOK, TaskTable, radio
<1>. QED BY <1>1, <1>3, <1>5, <1>6, NewStack, KeepsRadioUser DEF IInv

\* rp_task_call_aborted.
LEMMA CollectInv == IInv /\ Collect => IInv'
<1> SUFFICES ASSUME IInv, Collect PROVE IInv'
  OBVIOUS
<1>1. Quiet(Rest) /\ tasks \in TaskTable
  BY RestQuiet DEF Collect, At, Idle, IInv, TypeOK, TaskTable
<1>2. UNCHANGED <<radioTask, priorityHook, timerHook, nextSet, semaphore, alarm, radio, lag>>
  BY DEF Collect
<1>3. CASE stack' = Rest /\ UNCHANGED <<tasks, status>>
  <2>1. TypeOK'
    BY <1>1, <1>2, <1>3, NewStack DEF IInv, TypeOK, TaskTable, radio
  <2>. QED BY <1>1, <1>2, <1>3, <2>1, NewStack, KeepsRadioUser DEF IInv
<1>4. ASSUME NEW h \in Hooks, tasks[h].state = "ABORTED",
             tasks' = [tasks EXCEPT ![h] = TaskFree(tasks[h])],
             status' = [status EXCEPT ![h] = "ABORTED"],
             stack' = <<Frame("hook", h, HookCalls), Frame("collect", NoHook, h + 1)>> \o Rest
      PROVE  IInv'
  <2>1. TaskFree(tasks[h]) \in TaskType /\ TaskFree(tasks[h]).state = "FINISHED"
    BY <1>1, TaskFreeType DEF TaskTable
  <2>2. /\ tasks' \in TaskTable
        /\ \A g \in Hooks : /\ tasks'[g].state = "RUNNING" <=> tasks[g].state = "RUNNING"
                            /\ tasks[g].state = "RUNNING" => tasks'[g].due = tasks[g].due
    BY <1>1, <1>4, <2>1 DEF TaskTable
  <2>3. Quiet(stack')
    <3>1. h + 1 \in Nat
      BY DEF Hooks
    <3>2. Quiet(<<Frame("hook", h, HookCalls), Frame("collect", NoHook, h + 1)>>)
      BY <3>1 DEF Quiet, NoLaunch, Frame, FrameType, Ops
    <3>. QED BY <3>2, <1>1, <1>4, QuietConcat
  <2>4. status' \in [Hooks -> Statuses]
    BY <1>4 DEF IInv, TypeOK, Statuses
  <2>5. TypeOK'
    BY <1>2, <2>2, <2>3, <2>4, NewStack DEF IInv, TypeOK, TaskTable, radio
  <2>. QED BY <1>2, <2>2, <2>3, <2>5, NewStack, KeepsRadioUser DEF IInv
<1>. QED BY <1>3, <1>4 DEF Collect

-----------------------------------------------------------------------------
(* The end of an interrupt, the callbacks, the main thread, time. *)

\* The steps that leave the tasks and the radio alone.
LEMMA StackInv ==
  ASSUME IInv, Quiet(stack'), UNCHANGED <<tasks, status, radioTask, priorityHook, timerHook,
         nextSet, radio>>, semaphore' \in BOOLEAN, alarm' \in (0 - Latency) .. NoAlarm, lag' \in Nat
  PROVE  IInv'
<1>1. TypeOK'
  BY NewStack DEF IInv, TypeOK, radio
<1>2. OneRadioUser' /\ StartedInTime'
  BY DEF IInv, TypeOK, OneRadioUser, StartedInTime, radio
<1>. QED BY <1>1, <1>2, NewStack DEF IInv

\* The end of rp_radio_irq, of an API call and of a callback.
LEMMA ReturnInv == IInv /\ (IrqEnd \/ Leave \/ HookReturn) => IInv'
<1> SUFFICES ASSUME IInv, IrqEnd \/ Leave \/ HookReturn PROVE IInv'
  OBVIOUS
<1>1. Quiet(Rest)
  BY RestQuiet DEF IrqEnd, Leave, HookReturn, At, Idle
<1>2. Quiet(stack')
  BY <1>1, QuietCall, QuietConcat DEF IrqEnd, Leave, HookReturn, Ops
<1>3. UNCHANGED <<tasks, status, radioTask, priorityHook, timerHook, nextSet, radio, alarm, lag>>
  BY DEF IrqEnd, Leave, HookReturn, planner
<1>4. semaphore' \in BOOLEAN /\ alarm' \in (0 - Latency) .. NoAlarm /\ lag' \in Nat
  BY <1>3 DEF IrqEnd, Leave, HookReturn, planner, IInv, TypeOK
<1>. QED BY <1>2, <1>3, <1>4, StackInv

\* The planner calls of a hook callback.
LEMMA HookCallInv == IInv /\ HookCall => IInv'
<1> SUFFICES ASSUME IInv, HookCall PROVE IInv'
  OBVIOUS
<1> DEFINE rest == <<Frame("hook", Top.h, Top.n - 1)>> \o Rest
<1>1. Quiet(Rest) /\ Top \in FrameType /\ Top.n > 0 /\ lag' \in Nat
  BY RestQuiet DEF HookCall, At, Idle, IInv, TypeOK
<1>2. Quiet(rest)
  <2>1. Quiet(<<Frame("hook", Top.h, Top.n - 1)>>)
    BY <1>1, QuietFrame DEF FrameType, Ops
  <2>. QED BY <2>1, <1>1, QuietConcat
<1>3. (\E k \in Offers : Enqueue(k, rest)) \/ (\E h \in Aborters : AbortTask(h, rest))
  BY DEF HookCall
<1> HIDE DEF rest
<1>. QED BY <1>1, <1>2, <1>3, EnqueueInv, AbortTaskInv

\* The planner calls of the main thread.
LEMMA MainInv == IInv /\ (MainEnqueue \/ MainAbort) => IInv'
BY QuietEmpty, EnqueueInv, AbortTaskInv DEF MainEnqueue, MainAbort

\* The radio chip and the interrupts.
LEMMA InterruptInv == IInv /\ (ChipRaises \/ RadioIrq \/ TimerIrq) => IInv'
<1>1. ASSUME IInv, ChipRaises PROVE IInv'
  <2>1. chip \in Hooks /\ UNCHANGED <<planner, alarm, chip, stack, lag>> /\ irqPending' = TRUE
    BY <1>1 DEF ChipRaises, IInv, TypeOK
  <2>2. chipIrq' \in [kind : Irqs \cup {"NONE"}, of : Hooks \cup {NoHook}]
    BY <1>1, <2>1 DEF ChipRaises, IrqsOf, Irqs
  <2>3. TypeOK'
    BY <1>1, <2>1, <2>2 DEF IInv, TypeOK, planner
  <2>4. OneRadioUser' /\ StartedInTime' /\ LaunchOnTop'
    BY <1>1, <2>1 DEF IInv, OneRadioUser, StartedInTime, LaunchOnTop, NoLaunch, Idle, Rest, Top,
                      Running, planner
  <2>. QED BY <2>3, <2>4 DEF IInv
<1>2. ASSUME IInv, RadioIrq PROVE IInv'
  <2>1. irqPending' \in BOOLEAN /\ lag' \in Nat
    BY <1>2 DEF RadioIrq
  <2>2. CASE ServeIrq(IrqStatus, <<>>)
    BY <1>2, <2>1, <2>2, QuietEmpty, IrqStatusType, ServeIrqInv
  <2>3. CASE UNCHANGED <<planner, alarm, chip, chipIrq, stack>>
    <3>1. TypeOK'
      BY <1>2, <2>1, <2>3 DEF IInv, TypeOK, planner
    <3>2. OneRadioUser' /\ StartedInTime' /\ LaunchOnTop'
      BY <1>2, <2>3 DEF IInv, OneRadioUser, StartedInTime, LaunchOnTop, NoLaunch, Idle, Rest, Top,
                        Running, planner
    <3>. QED BY <3>1, <3>2 DEF IInv
  <2>. QED BY <1>2, <2>2, <2>3 DEF RadioIrq
<1>3. ASSUME IInv, TimerIrq PROVE IInv'
  <2>1. Quiet(stack')
    BY <1>3, QuietCall DEF TimerIrq, Ops
  <2>2. alarm' \in (0 - Latency) .. NoAlarm /\ lag' \in Nat
    BY <1>3 DEF TimerIrq, NoAlarm
  <2>3. UNCHANGED <<planner, radio>>
    BY <1>3 DEF TimerIrq
  <2>4. semaphore' \in BOOLEAN
    BY <1>3, <2>3 DEF planner, IInv, TypeOK
  <2>. QED BY <1>3, <2>1, <2>2, <2>3, <2>4, StackInv DEF planner
<1>. QED BY <1>1, <1>2, <1>3

\* A millisecond brings a task closer to its start.
LEMMA LaterType ==
  ASSUME NEW r \in TaskType
  PROVE  /\ Later(r) \in TaskType /\ Later(r).state = r.state
         /\ Later(r).due <= r.due
<1>1. CASE r.state \notin Waiting \cup {"RUNNING"}
  BY <1>1 DEF Later, TaskType
<1>2. CASE r.state \in Waiting \cup {"RUNNING"}
  <2> DEFINE d == Max({r.due - 1, 0 - Floor})
             a == IF r.state = "ASAP" THEN Min({r.age + 1, AsapTrig + 1}) ELSE r.age
             q == [r EXCEPT !.due = d]
  <2>1. d \in (0 - Floor) .. MaxDur /\ d <= r.due
    <3>1. r.due \in (0 - Floor) .. MaxDur /\ Floor \in Nat
      BY DEF TaskType, Floor
    <3>2. d \in {r.due - 1, 0 - Floor} /\ d >= 0 - Floor
      BY <3>1, MaxMinOfTwo
    <3>. QED BY <3>1, <3>2
  <2>2. a \in (0 - MaxDur) .. (AsapTrig + 1)
    <3>1. r.age \in (0 - MaxDur) .. (AsapTrig + 1)
      BY DEF TaskType
    <3> DEFINE m == Min({r.age + 1, AsapTrig + 1})
    <3>2. m \in {r.age + 1, AsapTrig + 1} /\ m <= AsapTrig + 1
      <4>1. r.age + 1 \in Int /\ AsapTrig + 1 \in Int
        BY <3>1
      <4>. QED BY <4>1, MaxMinOfTwo, Zenon
    <3>3. a = m \/ a = r.age
      OBVIOUS
    <3> HIDE DEF m, a
    <3>. QED BY <3>1, <3>2, <3>3
  <2>3. Later(r) = [q EXCEPT !.age = a]
    BY <1>2, Zenon DEF Later
  <2> HIDE DEF d, a
  <2>4. q \in TaskType /\ q.state = r.state /\ q.due = d
    BY <2>1 DEF TaskType
  <2> HIDE DEF q
  <2>. QED BY <2>1, <2>2, <2>3, <2>4 DEF TaskType
<1>. QED BY <1>1, <1>2

\* Time passes.
LEMMA TickInv == IInv /\ Tick => IInv'
<1> SUFFICES ASSUME IInv, Tick PROVE IInv'
  OBVIOUS
<1>1. tasks \in TaskTable /\ lag \in Nat /\ alarm \in (0 - Latency) .. NoAlarm
  BY DEF IInv, TypeOK, TaskTable
<1>2. UNCHANGED <<status, radioTask, priorityHook, timerHook, nextSet, semaphore, radio, stack>>
  BY DEF Tick
<1>3. tasks' = [h \in Hooks |-> Later(tasks[h])] /\ lag' \in Nat
  BY <1>1 DEF Tick
<1>4. /\ tasks' \in TaskTable
      /\ \A h \in Hooks : tasks'[h].state = tasks[h].state /\ tasks'[h].due <= tasks[h].due
  BY <1>1, <1>3, LaterType DEF TaskTable
<1>5. alarm' \in (0 - Latency) .. NoAlarm
  <2>1. Max({alarm - 1, 0 - Latency}) \in (0 - Latency) .. NoAlarm
    <3> DEFINE m == Max({alarm - 1, 0 - Latency})
    <3>1. m \in {alarm - 1, 0 - Latency} /\ m >= 0 - Latency
      <4>1. alarm - 1 \in Int /\ 0 - Latency \in Int
        BY <1>1 DEF NoAlarm
      <4>. QED BY <4>1, MaxMinOfTwo, Zenon
    <3> HIDE DEF m
    <3>2. m \in (0 - Latency) .. NoAlarm
      BY <1>1, <3>1 DEF NoAlarm
    <3>. QED BY <3>2 DEF m
  <2>. QED BY <1>1, <2>1 DEF Tick
<1>6. TypeOK'
  BY <1>2, <1>3, <1>4, <1>5 DEF IInv, TypeOK, TaskTable, radio
<1>7. OneRadioUser'
  BY <1>2, <1>4 DEF IInv, OneRadioUser, TypeOK, radio
<1>8. StartedInTime'
  BY <1>1, <1>4 DEF IInv, StartedInTime, TaskTable, TaskType
<1>9. LaunchOnTop'
  BY <1>2, <1>4 DEF IInv, TypeOK, LaunchOnTop, NoLaunch, Idle, Rest, Top, Running
<1>. QED BY <1>6, <1>7, <1>8, <1>9 DEF IInv

-----------------------------------------------------------------------------
(* The theorems. *)

\* Every step of the planner and of its environment keeps the invariant.
LEMMA NextInv == IInv /\ [Next]_vars => IInv'
<1>1. ASSUME IInv, UNCHANGED vars PROVE IInv'
  BY <1>1 DEF vars, planner, radio, IInv, TypeOK, OneRadioUser, StartedInTime, LaunchOnTop,
              NoLaunch, Idle, Rest, Top, Running
<1>. QED BY <1>1, ArbiterInv, LaunchInv, ExpireInv, RearmInv, CollectInv, ReturnInv,
            HookCallInv, MainInv, InterruptInv, TickInv DEF Next, Planner, Environment

\* The strengthened invariant holds in every reachable state.
THEOREM PlannerInvariant == Spec => []IInv
BY InitInv, NextInv, PTL DEF Spec

\* Every variable of the planner keeps its type, for any number of hooks.
THEOREM PlannerTypeOK == Spec => []TypeOK
<1>1. IInv => TypeOK
  BY DEF IInv
<1>. QED BY <1>1, PlannerInvariant, PTL

\* One hook at a time uses the radio: at most the radio task is RUNNING and
\* the chip works for a running task only, for any number of hooks, any tasks
\* their owners enqueue or abort and any nesting of the callbacks.
THEOREM PlannerOneRadioUser == Spec => []OneRadioUser
<1>1. IInv => OneRadioUser
  BY DEF IInv
<1>. QED BY <1>1, PlannerInvariant, PTL

-----------------------------------------------------------------------------
(* The planner implements RadioGrant. *)

\* The abstract state of the planner, and an abstract step or a stutter.
Phases == [h \in Hooks |-> Phase(tasks[h].state)]
GrantStep == [Grant!Next]_Phases

\* The phase of every state of a task.
LEMMA PhaseOf ==
  /\ \A s \in Waiting : Phase(s) = "waiting"
  /\ Phase("RUNNING") = "running" /\ Phase("ABORTED") = "aborted" /\ Phase("FINISHED") = "idle"
BY DEF Phase, Waiting

\* Steps that only give up waiting tasks.
LEMMA GiveUpStep ==
  ASSUME \A h \in Hooks : \/ Phase(tasks'[h].state) = Phase(tasks[h].state)
                          \/ tasks[h].state \in Waiting /\ tasks'[h].state = "ABORTED"
  PROVE  GrantStep
<1> DEFINE S == {h \in Hooks : Phase(tasks'[h].state) # Phase(tasks[h].state)}
<1>1. CASE S = {}
  BY <1>1 DEF GrantStep, Phases
<1>2. CASE S # {}
  <2>1. \A h \in S : Phase(tasks[h].state) = "waiting" /\ Phase(tasks'[h].state) = "aborted"
    BY PhaseOf
  <2>2. Phases' = [h \in Hooks |-> IF h \in S THEN "aborted" ELSE Phases[h]]
    BY <2>1 DEF Phases
  <2>3. Grant!GiveUp(S)
    BY <1>2, <2>1, <2>2 DEF Grant!GiveUp, Grant!In, Grant!Set, Phases
  <2>. QED BY <2>3 DEF Grant!Next, GrantStep
<1>. QED BY <1>1, <1>2

\* Steps that change the task of one hook.
LEMMA OneHookStep ==
  ASSUME NEW h \in Hooks, \A g \in Hooks \ {h} : tasks'[g] = tasks[g],
         \/ tasks[h].state # "RUNNING" /\ tasks[h].state \in States /\ tasks'[h].state \in Waiting
         \/ tasks[h].state \in Waiting \cup {"RUNNING", "ABORTED"} /\ tasks'[h].state = "FINISHED"
  PROVE  GrantStep
<1>1. \A p : Phase(tasks'[h].state) = p =>
         Phases' = [g \in Hooks |-> IF g \in {h} THEN p ELSE Phases[g]]
  BY DEF Phases
<1>2. CASE tasks[h].state # "RUNNING" /\ tasks[h].state \in States /\ tasks'[h].state \in Waiting
  <2>1. Phases[h] # "running" /\ Phase(tasks'[h].state) = "waiting"
    BY <1>2, PhaseOf DEF Phases, States
  <2>2. Grant!Request(h)
    BY <1>1, <2>1 DEF Grant!Request, Grant!Set, Phases
  <2>. QED BY <2>2 DEF Grant!Next, GrantStep
<1>3. CASE /\ tasks[h].state \in Waiting \cup {"RUNNING", "ABORTED"}
           /\ tasks'[h].state = "FINISHED"
  <2>1. Phases[h] \in {"waiting", "running", "aborted"} /\ Phase(tasks'[h].state) = "idle"
    BY <1>3, PhaseOf DEF Phases
  <2>2. Grant!Complete(h) \/ Grant!Report(h)
    BY <1>1, <2>1 DEF Grant!Complete, Grant!Report, Grant!Set, Phases
  <2>. QED BY <2>2 DEF Grant!Next, GrantStep
<1>. QED BY <1>2, <1>3

\* rp_task_enqueue asks for the radio.
LEMMA EnqueueGrant ==
  ASSUME IInv, NEW k \in Offers, NEW rest, Enqueue(k, rest)
  PROVE  GrantStep
<1>1. k.h \in Hooks /\ k.state \in Waiting /\ tasks[k.h].state # "RUNNING"
  BY DEF Enqueue, Accepted, Offer
<1>2. tasks \in [Hooks -> TaskType]
  BY DEF IInv, TypeOK
<1>3. tasks'[k.h].state = k.state /\ \A g \in Hooks \ {k.h} : tasks'[g] = tasks[g]
  BY <1>1, <1>2 DEF Enqueue
<1>. QED BY <1>1, <1>2, <1>3, OneHookStep DEF TaskType

\* rp_radio_irq completes the request of the radio task, if it ends it.
LEMMA ServeIrqGrant ==
  ASSUME IInv, NEW st, NEW rest, ServeIrq(st, rest)
  PROVE  GrantStep
<1>1. tasks \in [Hooks -> TaskType] /\ radioTask \in Hooks
  BY DEF IInv, TypeOK
<1>2. CASE EndsTask(st)
  <2>1. tasks' = [tasks EXCEPT ![radioTask] = TaskFree(tasks[radioTask])]
        /\ tasks[radioTask].state \in Waiting \cup {"RUNNING"}
    BY <1>2 DEF ServeIrq
  <2>2. TaskFree(tasks[radioTask]).state = "FINISHED"
    BY <1>1, TaskFreeType
  <2>. QED BY <1>1, <2>1, <2>2, OneHookStep
<1>3. CASE ~EndsTask(st)
  BY <1>3, GiveUpStep DEF ServeIrq
<1>. QED BY <1>2, <1>3

\* rp_task_abort completes a running request and gives up a waiting one.
LEMMA AbortTaskGrant ==
  ASSUME IInv, NEW h \in Hooks, NEW rest, AbortTask(h, rest)
  PROVE  GrantStep
<1>1. CASE tasks[h].state = "RUNNING"
  BY <1>1, ServeIrqGrant DEF AbortTask, Waiting
<1>2. CASE tasks[h].state # "RUNNING"
  <2>1. tasks' = Abort(tasks, {h}) /\ tasks[h].state \in Waiting \cup {"ABORTED"}
    BY <1>2 DEF AbortTask
  <2>2. tasks \in TaskTable
    BY DEF IInv, TypeOK, TaskTable
  <2>3. \A g \in Hooks : IF g = h THEN tasks'[g].state = "ABORTED" ELSE tasks'[g] = tasks[g]
    BY <2>1, <2>2, AbortTable
  <2>. QED BY <2>1, <2>3, GiveUpStep
<1>. QED BY <1>1, <1>2

\* The task table from which the arbiter selects differs from the one it
\* found by tasks that are given up.
LEMMA ArbiterTable ==
  ASSUME IInv, NEW h \in Hooks
  PROVE  \/ Phase(AbortPast(UpdateTime(tasks))[h].state) = Phase(tasks[h].state)
         \/ /\ tasks[h].state \in Waiting
            /\ AbortPast(UpdateTime(tasks))[h].state = "ABORTED"
<1> DEFINE u == UpdateTime(tasks)
<1>1. tasks \in TaskTable /\ tasks[h] \in TaskType /\ u \in TaskTable
  BY UpdateTable DEF IInv, TypeOK, TaskTable
<1>2. u[h].state = tasks[h].state \/ (u[h].state = "SCHEDULE" /\ tasks[h].state = "ASAP")
  <2>1. CASE TooOld(tasks[h])
    <3>1. u[h] = [tasks[h] EXCEPT !.state = "SCHEDULE", !.due = Resched,
                !.age = 0, !.prio = Priority(h, "SCHEDULE", tasks[h].low)]
      BY <2>1, Zenon DEF UpdateTime
    <3>2. u[h] \in TaskType /\ u[h].state = "SCHEDULE"
      <4>1. Priority(h, "SCHEDULE", tasks[h].low) \in 0 .. (2 * NbHooks - 1)
        BY PriorityType
      <4>2. tasks[h] \in TaskType
        BY <1>1
      <4> HIDE DEF u
      <4>. QED BY <3>1, <4>1, <4>2, ReschedType, ZenonT(40)
    <3>. QED BY <2>1, <3>2 DEF TooOld
  <2>2. CASE ~TooOld(tasks[h])
    BY <1>1, <2>2 DEF UpdateTime, TaskType
  <2>. QED BY <2>1, <2>2
<1> HIDE DEF u
<1>3. AbortPast(u)[h] = u[h] \/ (u[h].state = "SCHEDULE" /\ AbortPast(u)[h].state = "ABORTED")
  BY <1>1, AbortTable DEF AbortPast
<1>4. Phase(AbortPast(u)[h].state) = Phase(tasks[h].state)
      \/ (tasks[h].state \in Waiting /\ AbortPast(u)[h].state = "ABORTED")
  BY <1>2, <1>3, PhaseOf DEF Waiting
<1>. QED BY <1>4 DEF u

\* rp_task_arbiter grants the radio to the selected task, if it launches it.
LEMMA ArbiterGrant == IInv /\ Arbiter => GrantStep
<1> SUFFICES ASSUME IInv, Arbiter PROVE GrantStep
  OBVIOUS
<1> DEFINE t == AbortPast(UpdateTime(tasks))
<1>1. /\ t \in TaskTable
      /\ \A h \in Hooks : \/ Phase(t[h].state) = Phase(tasks[h].state)
                          \/ tasks[h].state \in Waiting /\ t[h].state = "ABORTED"
  BY UpdateTable, PastTable, ArbiterTable
<1>2. CASE tasks' = t
  BY <1>1, <1>2, GiveUpStep
<1>3. CASE tasks' # t
  <2>1. PICK best \in Eligible(t) : Select(t, best)
    BY <1>3 DEF Arbiter
  <2>2. /\ tasks' = IF Running(t) THEN [t EXCEPT ![radioTask].state = "ABORTED",
                                                ![best].state = "RUNNING"]
                                  ELSE [t EXCEPT ![best].state = "RUNNING"]
        /\ Running(t) => radioTask # best
    BY <1>3, <2>1 DEF Select
  <2> HIDE DEF t
  <2>3. best \in Hooks /\ radioTask \in Hooks /\ tasks \in TaskTable
    BY DEF Eligible, Startable, IInv, TypeOK, TaskTable
  <2>4. \A h \in Hooks : t[h].state = "RUNNING" => h = radioTask
    <3>1. \A h \in Hooks : t[h].state = "RUNNING" => tasks[h].state = "RUNNING"
      BY <1>1, <2>3, PhaseOf DEF TaskTable, TaskType, States
    <3>. QED BY <3>1 DEF IInv, OneRadioUser
  <2>5. t[best].state \in Waiting
    <3>1. t[best].state # "RUNNING"
      BY <2>2, <2>3, <2>4 DEF Running
    <3>. QED BY <3>1 DEF Eligible, Startable
  <2>6. /\ tasks'[best].state = "RUNNING"
        /\ \A h \in Hooks \ {best} : IF t[h].state = "RUNNING" THEN tasks'[h].state = "ABORTED"
                                                             ELSE tasks'[h] = t[h]
    <3>1. CASE Running(t)
      <4> DEFINE u == [t EXCEPT ![radioTask].state = "ABORTED"]
      <4>1. /\ u \in TaskTable /\ u[best] = t[best] /\ u[radioTask].state = "ABORTED"
            /\ \A h \in Hooks \ {radioTask} : u[h] = t[h]
        BY <1>1, <2>2, <2>3, <3>1 DEF TaskTable, TaskType, States
      <4>2. tasks' = [u EXCEPT ![best].state = "RUNNING"]
        BY <2>2, <3>1
      <4> HIDE DEF u
      <4>3. tasks'[best].state = "RUNNING" /\ \A h \in Hooks \ {best} : tasks'[h] = u[h]
        BY <4>1, <4>2, <2>3 DEF TaskTable, TaskType
      <4>. QED BY <4>1, <4>3, <2>3, <2>4, <3>1 DEF Running
    <3>2. CASE ~Running(t)
      BY <1>1, <2>2, <2>3, <2>4, <3>2 DEF Running, TaskTable, TaskType
    <3>. QED BY <3>1, <3>2
  <2> DEFINE S == {h \in Hooks : tasks[h].state \in Waiting /\ t[h].state = "ABORTED"}
  <2>7. S \subseteq Grant!In("waiting") \ {best} /\ best \in Grant!In("waiting")
    BY <1>1, <2>3, <2>5, PhaseOf DEF Grant!In, Waiting
  <2>8. ASSUME NEW h \in Hooks \ {best}
        PROVE  Phases'[h] = IF h \in S \cup Grant!In("running") THEN "aborted" ELSE Phases[h]
    <3>1. CASE h \in S
      <4>1. tasks'[h].state = "ABORTED"
        BY <2>6, <3>1
      <4>. QED BY <3>1, <4>1, PhaseOf DEF Phases
    <3>2. CASE h \in Grant!In("running")
      <4>1. Phase(tasks[h].state) = "running" /\ tasks[h].state = "RUNNING"
        BY <3>2, <2>3, PhaseOf DEF Grant!In, TaskTable, TaskType, States
      <4>2. Phase(t[h].state) = "running"
        BY <1>1, <4>1 DEF Waiting
      <4>3. t[h].state = "RUNNING"
        BY <4>2, <1>1, PhaseOf DEF TaskTable, TaskType, States
      <4>. QED BY <3>2, <4>3, <2>6, PhaseOf DEF Phases
    <3>3. CASE h \notin S \cup Grant!In("running")
      <4>1. Phase(t[h].state) = Phase(tasks[h].state) /\ Phase(tasks[h].state) # "running"
        BY <1>1, <3>3 DEF Grant!In
      <4>2. tasks'[h] = t[h]
        BY <4>1, <2>6, PhaseOf
      <4>. QED BY <3>3, <4>1, <4>2 DEF Phases
    <3>. QED BY <3>1, <3>2, <3>3
  <2>9. Phases'[best] = "running"
    BY <2>3, <2>6, PhaseOf DEF Phases
  <2>10. Phases' = [[h \in Hooks |-> IF h \in S \cup Grant!In("running") THEN "aborted"
                                     ELSE Phases[h]] EXCEPT ![best] = "running"]
    <3> DEFINE f == [[h \in Hooks |-> IF h \in S \cup Grant!In("running") THEN "aborted"
                                     ELSE Phases[h]] EXCEPT ![best] = "running"]
    <3>1. \A h \in Hooks : f[h] = IF h = best THEN "running"
                   ELSE IF h \in S \cup Grant!In("running") THEN "aborted" ELSE Phases[h]
      BY <2>3
    <3>2. \A h \in Hooks : Phases'[h] = f[h]
      BY <2>8, <2>9, <3>1
    <3>3. f = [h \in Hooks |-> f[h]]
      OBVIOUS
    <3>4. Phases' = [h \in Hooks |-> Phases'[h]]
      BY DEF Phases
    <3> HIDE DEF f
    <3>5. Phases' = f
      BY <3>2, <3>3, <3>4
    <3>. QED BY <3>5 DEF f
  <2>11. Grant!Grant(S, best)
    BY <2>7, <2>10 DEF Grant!Grant, Grant!Set, Phases
  <2>12. S \in SUBSET Hooks
    OBVIOUS
  <2>. QED BY <2>3, <2>11, <2>12 DEF Grant!Next, GrantStep
<1>. QED BY <1>2, <1>3

\* Every step of the planner and of its environment is a step of RadioGrant,
\* or none.
LEMMA NextGrant == IInv /\ [Next]_vars => GrantStep
<1> SUFFICES ASSUME IInv, [Next]_vars PROVE GrantStep
  OBVIOUS
<1>1. tasks \in TaskTable
  BY DEF IInv, TypeOK, TaskTable
<1>2. CASE UNCHANGED tasks
  BY <1>2, GiveUpStep
<1>3. CASE Arbiter
  BY <1>3, ArbiterGrant
<1>4. CASE Launch
  <2>1. At("launch") /\ Top.h \in Hooks
    BY <1>4 DEF Launch, At, Idle, IInv, LaunchOnTop, TypeOK
  <2>. QED BY <1>2, <1>4, <2>1, AbortTaskGrant, ServeIrqGrant DEF Launch, planner
<1>5. CASE Expire
  <2>1. PICK lost : /\ tasks' = Abort(tasks, lost)
                    /\ \A h \in lost : tasks[h].state = "SCHEDULE"
    BY <1>5 DEF Expire
  <2>. QED BY <1>1, <2>1, AbortTable, GiveUpStep DEF Waiting
<1>6. CASE Rearm
  <2>1. tasks' = Abort(tasks, {h \in Hooks : tasks[h].state = "SCHEDULE" /\ tasks[h].due < 0})
    BY <1>6 DEF Rearm, AbortPast
  <2>. QED BY <1>1, <2>1, AbortTable, GiveUpStep DEF Waiting
<1>7. CASE Collect
  <2>1. CASE \E h \in Hooks : /\ tasks[h].state = "ABORTED"
                              /\ tasks' = [tasks EXCEPT ![h] = TaskFree(tasks[h])]
    <3>1. PICK h \in Hooks : /\ tasks[h].state = "ABORTED"
                             /\ tasks' = [tasks EXCEPT ![h] = TaskFree(tasks[h])]
      BY <2>1
    <3>2. TaskFree(tasks[h]).state = "FINISHED"
      BY <1>1, TaskFreeType DEF TaskTable
    <3>. QED BY <1>1, <3>1, <3>2, OneHookStep DEF TaskTable
  <2>. QED BY <1>2, <1>7, <2>1 DEF Collect
<1>8. CASE HookCall
  BY <1>8, EnqueueGrant, AbortTaskGrant DEF HookCall
<1>9. CASE MainEnqueue \/ MainAbort
  BY <1>9, EnqueueGrant, AbortTaskGrant DEF MainEnqueue, MainAbort
<1>10. CASE RadioIrq
  BY <1>2, <1>10, ServeIrqGrant DEF RadioIrq, planner
<1>11. CASE Tick
  <2>1. \A h \in Hooks : tasks'[h].state = tasks[h].state
    BY <1>1, <1>11, LaterType DEF Tick, TaskTable
  <2>. QED BY <2>1, GiveUpStep
<1>12. CASE IrqEnd \/ Leave \/ HookReturn \/ ChipRaises \/ TimerIrq
  BY <1>2, <1>12 DEF IrqEnd, Leave, HookReturn, ChipRaises, TimerIrq, planner
<1>. QED BY <1>2, <1>3, <1>4, <1>5, <1>6, <1>7, <1>8, <1>9, <1>10, <1>11, <1>12
         DEF Next, Planner, Environment, vars, planner

\* The planner keeps the promise of RadioGrant for any number of hooks: one
\* grant at a time, and no request that is dropped without a report.
THEOREM PlannerImplementsGrant == Spec => ImplementsGrant
<1>1. Init => Grant!Init
  BY PhaseOf DEF Init, Grant!Init
<1>2. IInv /\ [Next]_vars => [Grant!Next]_[h \in Hooks |-> Phase(tasks[h].state)]
  BY NextGrant DEF GrantStep, Phases
<1>. QED BY <1>1, <1>2, PlannerInvariant, PTL DEF Spec, ImplementsGrant, Grant!Spec

\* The promise made to the owners of the hooks implies that the radio serves one of them
\* at a time.
THEOREM GrantExclusive == Grant!Spec => []Grant!Exclusive
<1> DEFINE Inv == /\ Grant!Exclusive
                  /\ Phases \in [Hooks -> {"idle", "waiting", "running", "aborted"}]
<1>1. Grant!Init => Inv
  BY DEF Grant!Init, Grant!Exclusive, Phases
<1>2. Inv /\ GrantStep => Inv'
  <2> SUFFICES ASSUME Inv, GrantStep PROVE Inv'
    OBVIOUS
  <2> USE DEF Phases, GrantStep
  <2>1. CASE UNCHANGED Phases
    BY <2>1 DEF Grant!Exclusive
  <2>2. CASE \E h \in Hooks : Grant!Request(h) \/ Grant!Complete(h) \/ Grant!Report(h)
    BY <2>2 DEF Grant!Request, Grant!Complete, Grant!Report, Grant!Set, Grant!Exclusive
  <2>3. CASE \E S \in SUBSET Hooks : Grant!GiveUp(S)
    BY <2>3 DEF Grant!GiveUp, Grant!Set, Grant!Exclusive
  <2>4. ASSUME NEW S \in SUBSET Hooks, NEW h \in Hooks, Grant!Grant(S, h) PROVE Inv'
    BY <2>4 DEF Grant!Grant, Grant!Set, Grant!In, Grant!Exclusive
  <2>. QED BY <2>1, <2>2, <2>3, <2>4 DEF Grant!Next
<1>3. Grant!Spec => [][Grant!Next]_Phases /\ Grant!Init
  BY PTL DEF Grant!Spec, Phases
<1>. QED BY <1>1, <1>2, <1>3, PTL DEF GrantStep

-----------------------------------------------------------------------------
(* The radio results, the semaphore and the wake-ups. *)

\* The call stack holds a piece of code of one of the kinds in O.
Has(s, O) == \E i \in 1 .. Len(s) : s[i].op \in O

\* The irq register of the chip holds a result of the operation it executes,
\* which is one that raises interrupts, and a listen before talk task never
\* reads a frequency hop.
IrqInv ==
    /\ chipIrq # NoIrq => chip # NoHook /\ chipIrq.of = chip /\ chipIrq.kind \in Irqs
    /\ chip # NoHook => tasks[chip].type \notin {"NONE", "LBT"}
    /\ \A h \in Hooks : tasks[h].type = "LBT" => status[h] # "HOP"

\* The semaphore is taken for a running task, or by a rp_radio_irq that is
\* about to release it.
SemInv == semaphore => Has(stack, {"irqEnd"}) \/ Running(tasks)

RadioInv == IInv /\ IrqInv /\ SemInv

\* A waiting ASAP task starts no earlier than it was enqueued.
AgeInv ==
    \A h \in Hooks :
        tasks[h].state = "ASAP" /\ tasks[h].age <= 0 => tasks[h].due + tasks[h].age >= 0

\* The timer is armed early enough for every scheduled task, unless a piece of
\* the arbiter that will arm it is still to run.
Arming == {"arbiter", "expire", "rearm", "irqEnd"}
TimerInv ==
    ~semaphore /\ ~Has(stack, Arming) =>
        \A h \in Hooks : tasks[h].state = "SCHEDULE" => alarm <= Max({tasks[h].due - Margin, 1})

\* An ASAP task with neither timer, nor running task, nor arbiter to come is met
\* only between the selection and rp_task_get_next, and then the selected task
\* still waits for its start and outlasts what is left of the activation.
AsapInv ==
    /\ \E h \in Hooks : tasks[h].state = "ASAP"
    /\ ~Has(stack, {"arbiter", "irqEnd"}) /\ ~Running(tasks) /\ alarm = NoAlarm
    => /\ Has(stack, {"expire", "rearm"})
       /\ tasks[priorityHook].state \in Waiting
       /\ tasks[priorityHook].due >= 0 /\ tasks[priorityHook].due + lag >= MaxLag

WakeInv == RadioInv /\ AgeInv /\ TimerInv /\ AsapInv

\* Pushing code on the stack.
LEMMA HasConcat ==
  ASSUME NEW s \in Seq(FrameType), NEW t \in Seq(FrameType), NEW O
  PROVE  Has(s \o t, O) <=> (Has(s, O) \/ Has(t, O))
<1>1. Len(s \o t) = Len(s) + Len(t) /\ Len(s) \in Nat /\ Len(t) \in Nat
  OBVIOUS
<1>2. ASSUME Has(s \o t, O) PROVE Has(s, O) \/ Has(t, O)
  <2>1. PICK i \in 1 .. Len(s \o t) : (s \o t)[i].op \in O
    BY <1>2 DEF Has
  <2>2. CASE i <= Len(s)
    BY <1>1, <2>1, <2>2 DEF Has
  <2>3. CASE i > Len(s)
    <3>1. i - Len(s) \in 1 .. Len(t) /\ (s \o t)[i] = t[i - Len(s)]
      BY <1>1, <2>1, <2>3
    <3>. QED BY <2>1, <3>1 DEF Has
  <2>. QED BY <2>2, <2>3, <1>1
<1>3. ASSUME Has(s, O) PROVE Has(s \o t, O)
  <2>1. PICK i \in 1 .. Len(s) : s[i].op \in O
    BY <1>3 DEF Has
  <2>2. i \in 1 .. Len(s \o t) /\ (s \o t)[i] = s[i]
    BY <1>1, <2>1
  <2>. QED BY <2>1, <2>2 DEF Has
<1>4. ASSUME Has(t, O) PROVE Has(s \o t, O)
  <2>1. PICK i \in 1 .. Len(t) : t[i].op \in O
    BY <1>4 DEF Has
  <2>2. Len(s) + i \in 1 .. Len(s \o t) /\ (s \o t)[Len(s) + i] = t[i]
    BY <1>1, <2>1
  <2>. QED BY <2>1, <2>2 DEF Has
<1>. QED BY <1>2, <1>3, <1>4

\* A stack of one frame, and the empty stack.
LEMMA HasCall ==
  ASSUME NEW op \in Ops, NEW h \in Hooks \cup {NoHook}, NEW n \in Nat, NEW O
  PROVE  /\ <<Frame(op, h, n)>> \in Seq(FrameType) /\ Call(op) \in Seq(FrameType)
         /\ Has(<<Frame(op, h, n)>>, O) <=> (op \in O)
         /\ Has(Call(op), O) <=> (op \in O)
         /\ ~Has(<<>>, O)
<1>1. <<Frame(op, h, n)>> \in Seq(FrameType)
  BY DEF Frame, FrameType
<1>2. <<Frame(op, NoHook, 0)>> \in Seq(FrameType)
  BY DEF Frame, FrameType
<1>3. Has(<<Frame(op, h, n)>>, O) <=> (op \in O)
  BY DEF Has, Frame
<1>4. Has(<<Frame(op, NoHook, 0)>>, O) <=> (op \in O)
  BY DEF Has, Frame
<1>5. ~Has(<<>>, O)
  BY DEF Has
<1>. QED BY <1>1, <1>2, <1>3, <1>4, <1>5 DEF Call

\* A call is a stack, and so is no call.
LEMMA CallSeq ==
  ASSUME NEW op \in Ops
  PROVE  Call(op) \in Seq(FrameType) /\ <<>> \in Seq(FrameType)
BY DEF Call, Frame, FrameType

\* The first of three pieces of a stack.
LEMMA HasFirst ==
  ASSUME NEW a \in Seq(FrameType), NEW b \in Seq(FrameType), NEW c \in Seq(FrameType),
         NEW O, Has(a, O)
  PROVE  Has(a \o b \o c, O)
<1>1. a \o b \in Seq(FrameType)
  OBVIOUS
<1>2. Has(a \o b, O)
  BY HasConcat
<1> DEFINE ab == a \o b
<1> HIDE DEF ab
<1>3. Has(ab \o c, O)
  BY <1>1, <1>2, HasConcat DEF ab
<1>. QED BY <1>3 DEF ab

\* The code below the head of the stack.
LEMMA HasRest ==
  ASSUME stack \in Seq(FrameType), ~Idle, NEW O, Top.op \notin O
  PROVE  /\ Rest \in Seq(FrameType)
         /\ Has(Rest, O) <=> Has(stack, O)
<1>1. /\ Rest \in Seq(FrameType) /\ Len(Rest) = Len(stack) - 1 /\ Len(stack) \in Nat
      /\ \A i \in 1 .. Len(Rest) : Rest[i] = stack[i + 1]
  BY DEF Rest, Idle
<1>2. Top = stack[1]
  BY DEF Top, Idle
<1>3. ASSUME Has(stack, O) PROVE Has(Rest, O)
  <2>1. PICK i \in 1 .. Len(stack) : stack[i].op \in O
    BY <1>3 DEF Has
  <2>2. i # 1
    BY <1>2, <2>1
  <2>3. i - 1 \in 1 .. Len(Rest) /\ Rest[i - 1] = stack[i]
    BY <1>1, <2>1, <2>2
  <2>. QED BY <2>1, <2>3 DEF Has
<1>4. ASSUME Has(Rest, O) PROVE Has(stack, O)
  <2>1. PICK i \in 1 .. Len(Rest) : Rest[i].op \in O
    BY <1>4 DEF Has
  <2>2. i + 1 \in 1 .. Len(stack) /\ stack[i + 1] = Rest[i]
    BY <1>1, <2>1
  <2>. QED BY <2>1, <2>2 DEF Has
<1>. QED BY <1>1, <1>3, <1>4

\* The statuses after which rp_radio_irq leaves its task running.
LEMMA EndsUnless ==
  ASSUME IInv, NEW st
  PROVE  /\ AfterIrq(st) \in Seq(FrameType)
         /\ EndsTask(st) => Has(AfterIrq(st), {"irqEnd"})
         /\ ~EndsTask(st) => \/ st = "HOP"
                             \/ st = "CAD_NEGATIVE" /\ tasks[radioTask].type = "CAD_TO_TX"
                             \/ st = "CAD_POSITIVE" /\ tasks[radioTask].type = "CAD_TO_RX"
<1> DEFINE ends == <<Frame("hook", radioTask, HookCalls), Frame("collect", NoHook, 0),
                     Frame("irqEnd", NoHook, 0)>>
<1>1. AfterIrq(st) \in Seq(FrameType)
  BY AfterIrqQuiet DEF Quiet
<1>2. "irqEnd" \in {f.op : f \in ToSet(ends)}
  <2>1. 3 \in DOMAIN ends /\ ends[3].op = "irqEnd"
    BY DEF Frame
  <2>. QED BY <2>1 DEF ToSet
<1>3. ASSUME EndsTask(st) PROVE Has(AfterIrq(st), {"irqEnd"})
  <2>1. PICK f \in ToSet(AfterIrq(st)) : f.op = "irqEnd"
    BY <1>3 DEF EndsTask
  <2>2. PICK i \in DOMAIN AfterIrq(st) : AfterIrq(st)[i].op = "irqEnd"
    BY <2>1 DEF ToSet
  <2>3. i \in 1 .. Len(AfterIrq(st))
    BY <1>1, <2>2
  <2>. QED BY <2>2, <2>3 DEF Has
<1> HIDE DEF ends
<1>4. ASSUME ~EndsTask(st)
      PROVE  \/ st = "HOP"
             \/ st = "CAD_NEGATIVE" /\ tasks[radioTask].type = "CAD_TO_TX"
             \/ st = "CAD_POSITIVE" /\ tasks[radioTask].type = "CAD_TO_RX"
  <2>1. AfterIrq(st) # ends
    BY <1>2, <1>4 DEF EndsTask
  <2>. QED BY <2>1 DEF AfterIrq, ends
<1>. QED BY <1>1, <1>3, <1>4

\* rp_radio_irq leaves its task running only for a result that the chip raised
\* for the running task.
LEMMA KeptTaskRuns ==
  ASSUME IInv, IrqInv, ~EndsTask(IrqStatus)
  PROVE  Running(tasks)
<1>1. radioTask \in Hooks
  BY DEF IInv, TypeOK
<1>2. tasks[radioTask].type # "LBT"
  BY <1>1, EndsUnless DEF IrqStatus, IrqInv
<1>3. IrqStatus # "ABORTED"
  BY EndsUnless
<1>4. chipIrq.kind # "NONE"
  BY <1>2, <1>3 DEF IrqStatus
<1>5. chip # NoHook
  BY <1>4 DEF IrqInv, NoIrq
<1>. QED BY <1>5 DEF IInv, OneRadioUser, Running

\* A step that neither enqueues, nor selects, nor lets time pass: tasks keep
\* their type, the waiting ones and the running one are left as they were.
Still ==
    /\ \A h \in Hooks : /\ tasks'[h].type = tasks[h].type
                        /\ tasks[h].state = "RUNNING" <=> tasks'[h].state = "RUNNING"
                        /\ tasks'[h].state \in Waiting => tasks'[h] = tasks[h]
    /\ UNCHANGED radioTask

\* The task tables that the planner's functions return keep the types.
LEMMA TypesKept ==
  ASSUME NEW t \in TaskTable, NEW S
  PROVE  /\ \A h \in Hooks : Abort(t, S)[h].type = t[h].type
         /\ \A h \in Hooks : TaskFree(t[h]).type = t[h].type
<1>1. \A h \in Hooks : Abort(t, S)[h].type = t[h].type
  BY DEF TaskTable, TaskType, Abort
<1>2. ASSUME NEW r \in TaskType PROVE TaskFree(r).type = r.type
  <2> DEFINE r1 == [r EXCEPT !.state = "FINISHED"]
             r2 == [r1 EXCEPT !.due = 0]
             r3 == [r2 EXCEPT !.age = 0]
             r4 == [r3 EXCEPT !.dur = 0]
             r5 == [r4 EXCEPT !.low = FALSE]
  <2>1. r5.type = r.type
    BY DEF TaskType
  <2>. QED BY <2>1, Zenon DEF TaskFree
<1>. QED BY <1>1, <1>2 DEF TaskTable

\* The timer gives up the task it was set for, never the selected one.
LEMMA ExpireStill ==
  ASSUME IInv, Expire
  PROVE  /\ Still
         /\ \A h \in Hooks : tasks'[h] # tasks[h] => h = timerHook /\ timerHook # priorityHook
<1>1. tasks \in TaskTable /\ timerHook \in Hooks
  BY DEF IInv, TypeOK, TaskTable
<1>2. PICK lost \in {{}, {timerHook}} :
            /\ tasks' = Abort(tasks, lost)
            /\ lost # {} => tasks[timerHook].state = "SCHEDULE" /\ timerHook # priorityHook
  BY DEF Expire
<1>3. /\ tasks' \in TaskTable
      /\ \A h \in Hooks : h \in lost => tasks'[h].state = "ABORTED"
      /\ \A h \in Hooks : h \notin lost => tasks'[h] = tasks[h]
      /\ \A h \in Hooks : tasks'[h].type = tasks[h].type
  BY <1>1, <1>2, AbortTable, TypesKept
<1>4. radioTask' = radioTask
  BY DEF Expire
<1>. QED BY <1>1, <1>2, <1>3, <1>4 DEF Still, Waiting

\* rp_task_get_next gives up the tasks of the past only.
LEMMA RearmStill ==
  ASSUME IInv, Rearm
  PROVE  /\ Still
         /\ \A h \in Hooks : tasks[h].state \in Waiting /\ tasks[h].due >= 0 => tasks'[h] = tasks[h]
         /\ \A h \in Hooks : tasks'[h].state = "SCHEDULE" => h \in Startable(tasks')
<1>1. tasks \in TaskTable /\ tasks' = AbortPast(tasks) /\ radioTask' = radioTask
  BY DEF IInv, TypeOK, TaskTable, Rearm
<1> DEFINE S == {h \in Hooks : tasks[h].state = "SCHEDULE" /\ tasks[h].due < 0}
<1>2. tasks' = Abort(tasks, S)
  BY <1>1 DEF AbortPast
<1>3. /\ tasks' \in TaskTable
      /\ \A h \in Hooks : h \in S => tasks'[h].state = "ABORTED"
      /\ \A h \in Hooks : h \notin S => tasks'[h] = tasks[h]
      /\ \A h \in Hooks : tasks'[h].type = tasks[h].type
  <2> HIDE DEF S
  <2>. QED BY <1>1, <1>2, AbortTable, TypesKept
<1>4. \A h \in Hooks : h \in S => tasks[h].state = "SCHEDULE" /\ tasks[h].due < 0
  OBVIOUS
<1>5. \A h \in Hooks : tasks[h].due \in Int
  BY <1>1 DEF TaskTable, TaskType, Floor
<1>6. \A h \in Hooks : h \notin S /\ tasks[h].state = "SCHEDULE" => tasks[h].due >= 0
  BY <1>5
<1> HIDE DEF S
<1>7. Still
  BY <1>1, <1>3, <1>4 DEF Still, Waiting
<1>8. \A h \in Hooks : tasks[h].state \in Waiting /\ tasks[h].due >= 0 => tasks'[h] = tasks[h]
  BY <1>3, <1>4, <1>5
<1>9. ASSUME NEW h \in Hooks, tasks'[h].state = "SCHEDULE" PROVE h \in Startable(tasks')
  <2>1. h \notin S /\ tasks'[h] = tasks[h]
    BY <1>3, <1>9
  <2>2. tasks'[h].due >= 0
    BY <2>1, <1>6, <1>9
  <2>. QED BY <2>2, <1>9 DEF Startable, Waiting
<1>. QED BY <1>7, <1>8, <1>9

\* rp_task_call_aborted frees an aborted task and calls its hook.
LEMMA CollectStill ==
  ASSUME IInv, Collect
  PROVE  /\ Still
         /\ \A h \in Hooks : tasks[h].state # "ABORTED" => tasks'[h] = tasks[h]
         /\ \A h \in Hooks : status'[h] # status[h] => status'[h] = "ABORTED"
         /\ stack' \in Seq(FrameType)
         /\ \A O : "collect" \notin O /\ "hook" \notin O => (Has(stack', O) <=> Has(stack, O))
<1>1. tasks \in TaskTable /\ status \in [Hooks -> Statuses] /\ radioTask' = radioTask
  BY DEF IInv, TypeOK, TaskTable, Collect
<1>2. Rest \in Seq(FrameType)
      /\ \A O : "collect" \notin O => (Has(Rest, O) <=> Has(stack, O))
  BY HasRest DEF IInv, TypeOK, Collect, At, Idle
<1>3. CASE stack' = Rest /\ UNCHANGED <<tasks, status>>
  BY <1>1, <1>2, <1>3 DEF Still
<1>4. ASSUME NEW h \in Hooks, tasks[h].state = "ABORTED",
             tasks' = [tasks EXCEPT ![h] = TaskFree(tasks[h])],
             status' = [status EXCEPT ![h] = "ABORTED"],
             stack' = <<Frame("hook", h, HookCalls), Frame("collect", NoHook, h + 1)>> \o Rest
      PROVE  /\ Still
             /\ \A g \in Hooks : tasks[g].state # "ABORTED" => tasks'[g] = tasks[g]
             /\ \A g \in Hooks : status'[g] # status[g] => status'[g] = "ABORTED"
             /\ stack' \in Seq(FrameType)
             /\ \A O : "collect" \notin O /\ "hook" \notin O => (Has(stack', O) <=> Has(stack, O))
  <2>1. TaskFree(tasks[h]).state = "FINISHED" /\ TaskFree(tasks[h]).type = tasks[h].type
    BY <1>1, TaskFreeType, TypesKept DEF TaskTable
  <2>2. tasks'[h] = TaskFree(tasks[h]) /\ \A g \in Hooks : g # h => tasks'[g] = tasks[g]
    BY <1>1, <1>4 DEF TaskTable
  <2>3. Still /\ \A g \in Hooks : tasks[g].state # "ABORTED" => tasks'[g] = tasks[g]
    BY <1>1, <1>4, <2>1, <2>2 DEF Still, Waiting
  <2>4. \A g \in Hooks : status'[g] # status[g] => status'[g] = "ABORTED"
    BY <1>1, <1>4
  <2> DEFINE top == <<Frame("hook", h, HookCalls), Frame("collect", NoHook, h + 1)>>
  <2>5. top \in Seq(FrameType)
        /\ \A O : "collect" \notin O /\ "hook" \notin O => ~Has(top, O)
    BY DEF Has, Frame, FrameType, Ops, Hooks
  <2> HIDE DEF top
  <2>6. stack' = top \o Rest
    BY <1>4 DEF top
  <2>. QED BY <1>2, <2>3, <2>4, <2>5, <2>6, HasConcat
<1>. QED BY <1>3, <1>4 DEF Collect

\* The running task keeps running through a still step, and so does the
\* absence of one.
LEMMA StillRunning ==
  ASSUME IInv, Still
  PROVE  Running(tasks)' <=> Running(tasks)
BY DEF IInv, TypeOK, Still, Running

\* A step that keeps the types of the tasks, the statuses and the chip.
LEMMA IrqKept ==
  ASSUME IInv, IrqInv, \A h \in Hooks : tasks'[h].type = tasks[h].type,
         UNCHANGED <<chip, chipIrq>>, \A h \in Hooks : status'[h] = status[h] \/ status'[h] # "HOP"
  PROVE  IrqInv'
BY DEF IInv, TypeOK, IrqInv

\* rp_task_enqueue: the new task is not the running one, and the arbiter is
\* called unless the semaphore is taken.
LEMMA EnqueueRadio ==
  ASSUME RadioInv, NEW k \in Offer, NEW rest \in Seq(FrameType), Enqueue(k, rest),
         Has(stack, {"irqEnd"}) => Has(rest, {"irqEnd"})
  PROVE  IrqInv' /\ SemInv'
<1>1. k \in Offer /\ k.h \in Hooks /\ tasks[k.h].state # "RUNNING"
  BY DEF Offer, Enqueue, Accepted
<1>2. /\ tasks \in [Hooks -> TaskType] /\ status \in [Hooks -> Statuses] /\ radioTask \in Hooks
      /\ chip \in Hooks \cup {NoHook}
  BY DEF RadioInv, IInv, TypeOK
<1>3. /\ \A h \in Hooks : h # k.h => tasks'[h] = tasks[h] /\ status'[h] = status[h]
      /\ status'[k.h] = "INIT"
      /\ UNCHANGED <<chip, chipIrq, radioTask, semaphore>>
  BY <1>1, <1>2 DEF Enqueue, radio
<1>4. chip # NoHook => chip # k.h
  BY <1>1 DEF RadioInv, IInv, OneRadioUser
<1>5. IrqInv'
  BY <1>2, <1>3, <1>4 DEF RadioInv, IrqInv
<1>6. Running(tasks) => Running(tasks)'
  BY <1>1, <1>2, <1>3 DEF Running
<1>7. Has(rest, {"irqEnd"}) => Has(stack', {"irqEnd"})
  <2> DEFINE call == IF semaphore THEN <<>> ELSE Call("arbiter")
  <2>1. call \in Seq(FrameType) /\ Call("leave") \in Seq(FrameType)
    BY CallSeq DEF Ops
  <2>2. stack' = call \o Call("leave") \o rest
    BY DEF Enqueue
  <2> HIDE DEF call
  <2>3. call \o Call("leave") \in Seq(FrameType)
    BY <2>1
  <2>. QED BY <2>1, <2>2, <2>3, HasConcat
<1>8. SemInv'
  BY <1>3, <1>6, <1>7 DEF RadioInv, SemInv
<1>. QED BY <1>5, <1>8

\* rp_radio_irq: a task that it ends leaves the chip without a result.
LEMMA ServeIrqRadio ==
  ASSUME RadioInv, NEW st \in Statuses, NEW rest \in Seq(FrameType), ServeIrq(st, rest),
         \/ st = IrqStatus
         \/ tasks[radioTask].type = "LBT" /\ st \in {"LBT_FREE", "LBT_BUSY"}
  PROVE  IrqInv' /\ SemInv'
<1>1. /\ tasks \in TaskTable /\ status \in [Hooks -> Statuses] /\ radioTask \in Hooks
      /\ chip \in Hooks \cup {NoHook}
  BY DEF RadioInv, IInv, TypeOK, TaskTable
<1>2. /\ semaphore' = TRUE /\ chipIrq' = ClearedIrq /\ radioTask' = radioTask
      /\ status' = [status EXCEPT ![radioTask] = st]
      /\ stack' = AfterIrq(st) \o rest
  BY DEF ServeIrq
<1>3. tasks[radioTask].type = "LBT" => chipIrq = NoIrq /\ chip = NoHook
  BY <1>1 DEF RadioInv, IInv, OneRadioUser, IrqInv
<1>4. chipIrq' = NoIrq
  BY <1>2, <1>3 DEF ClearedIrq
<1>5. \A h \in Hooks : tasks[h].type = "LBT" => status'[h] # "HOP"
  <2>1. tasks[radioTask].type = "LBT" => st # "HOP"
    BY <1>1 DEF RadioInv, IrqInv, IrqStatus
  <2>. QED BY <1>1, <1>2, <2>1 DEF RadioInv, IrqInv
<1>6. CASE EndsTask(st)
  <2>1. tasks' = [tasks EXCEPT ![radioTask] = TaskFree(tasks[radioTask])] /\ chip' = NoHook
    BY <1>6 DEF ServeIrq
  <2>2. \A h \in Hooks : tasks'[h].type = tasks[h].type
    BY <1>1, <2>1, TypesKept DEF TaskTable
  <2>3. IrqInv'
    BY <1>4, <1>5, <2>1, <2>2 DEF IrqInv
  <2>4. AfterIrq(st) \in Seq(FrameType) /\ Has(AfterIrq(st), {"irqEnd"})
    BY <1>6, EndsUnless DEF RadioInv
  <2>5. Has(stack', {"irqEnd"})
    BY <1>2, <2>4, HasConcat
  <2>. QED BY <2>3, <2>5 DEF SemInv
<1>7. CASE ~EndsTask(st)
  <2>1. UNCHANGED <<tasks, chip>>
    BY <1>7 DEF ServeIrq
  <2>2. IrqInv'
    BY <1>4, <1>5, <2>1 DEF IrqInv, RadioInv
  <2>3. st = IrqStatus
    BY <1>7, EndsUnless DEF RadioInv
  <2>4. Running(tasks)
    BY <1>7, <2>3, KeptTaskRuns DEF RadioInv
  <2>. QED BY <1>2, <2>1, <2>2, <2>4 DEF SemInv, Running
<1>. QED BY <1>6, <1>7

\* rp_task_abort.
LEMMA AbortTaskRadio ==
  ASSUME RadioInv, NEW h \in Hooks, NEW rest \in Seq(FrameType), AbortTask(h, rest),
         Has(stack, {"irqEnd"}) => Has(rest, {"irqEnd"})
  PROVE  IrqInv' /\ SemInv'
<1>1. CASE tasks[h].state = "RUNNING"
  <2>1. ServeIrq(IrqStatus, Call("leave") \o rest)
    BY <1>1 DEF AbortTask, Waiting
  <2>2. Call("leave") \o rest \in Seq(FrameType)
    <3>1. Call("leave") \in Seq(FrameType)
      BY CallSeq DEF Ops
    <3>. QED BY <3>1
  <2>3. IrqStatus \in Statuses
    BY IrqStatusType DEF RadioInv
  <2>. QED BY <2>1, <2>2, <2>3, ServeIrqRadio
<1>2. CASE tasks[h].state # "RUNNING"
  <2>1. /\ tasks' = Abort(tasks, {h})
        /\ stack' = (IF semaphore THEN <<>> ELSE Call("arbiter")) \o Call("leave") \o rest
        /\ UNCHANGED <<status, radioTask, semaphore, radio>>
    BY <1>2 DEF AbortTask
  <2>2. tasks \in TaskTable /\ radioTask \in Hooks
    BY DEF RadioInv, IInv, TypeOK, TaskTable
  <2>3. /\ \A g \in Hooks : tasks'[g].type = tasks[g].type
        /\ \A g \in Hooks : g # h => tasks'[g] = tasks[g]
    BY <2>1, <2>2, AbortTable, TypesKept
  <2>4. IrqInv'
    BY <2>1, <2>3, IrqKept DEF RadioInv, radio
  <2>5. Running(tasks) => Running(tasks)'
    BY <1>2, <2>1, <2>2, <2>3 DEF Running
  <2>6. Has(rest, {"irqEnd"}) => Has(stack', {"irqEnd"})
    <3> DEFINE call == IF semaphore THEN <<>> ELSE Call("arbiter")
    <3>1. call \in Seq(FrameType) /\ Call("leave") \in Seq(FrameType)
      BY CallSeq DEF Ops
    <3>2. stack' = call \o Call("leave") \o rest
      BY <2>1
    <3> HIDE DEF call
    <3>3. call \o Call("leave") \in Seq(FrameType)
      BY <3>1
    <3>. QED BY <3>1, <3>2, <3>3, HasConcat
  <2>7. SemInv'
    BY <2>1, <2>5, <2>6 DEF RadioInv, SemInv
  <2>. QED BY <2>4, <2>7
<1>. QED BY <1>1, <1>2

\* What the arbiter makes of the task table before it selects.
LEMMA ArbiterTypes ==
  ASSUME IInv, NEW t, t = AbortPast(UpdateTime(tasks))
  PROVE  /\ t \in TaskTable
         /\ \A h \in Hooks : /\ t[h].type = tasks[h].type
                             /\ t[h].state = "RUNNING" <=> tasks[h].state = "RUNNING"
                             /\ t[h].state = "ASAP" => tasks[h].state = "ASAP"
                             /\ t[h].state = "SCHEDULE" => h \in Startable(t)
         /\ Running(t) <=> Running(tasks)
<1> DEFINE u == UpdateTime(tasks)
<1>1. /\ tasks \in TaskTable /\ u \in TaskTable /\ radioTask \in Hooks
      /\ \A h \in Hooks : u[h].state = "RUNNING" <=> tasks[h].state = "RUNNING"
  BY UpdateTable DEF IInv, TypeOK, TaskTable
<1>2. ASSUME NEW h \in Hooks
      PROVE  /\ u[h].type = tasks[h].type
             /\ u[h].state = "ASAP" => tasks[h].state = "ASAP"
  <2>1. tasks[h] \in TaskType
    BY <1>1 DEF TaskTable
  <2>2. u[h] = IF TooOld(tasks[h])
          THEN [tasks[h] EXCEPT !.state = "SCHEDULE", !.due = Resched, !.age = 0,
                            !.prio = Priority(h, "SCHEDULE", tasks[h].low)]
        ELSE IF tasks[h].state = "ASAP" /\ tasks[h].age > 0
          THEN [tasks[h] EXCEPT !.due = 0]
        ELSE IF h = radioTask /\ Running(tasks) /\ tasks[h].type = "RX"
          THEN [tasks[h] EXCEPT !.dur = Margin + 2 - tasks[h].due]
        ELSE tasks[h]
    BY Zenon DEF UpdateTime
  <2>3. CASE TooOld(tasks[h])
    <3>1. tasks[h].state = "ASAP"
      BY <2>3 DEF TooOld
    <3>2. u[h].type = tasks[h].type
      <4> DEFINE p == Priority(h, "SCHEDULE", tasks[h].low)
                 r1 == [tasks[h] EXCEPT !.state = "SCHEDULE"]
                 r2 == [r1 EXCEPT !.due = Resched]
                 r3 == [r2 EXCEPT !.age = 0]
                 r4 == [r3 EXCEPT !.prio = p]
      <4>1. u[h] = r4
        BY <2>2, <2>3, Zenon
      <4> HIDE DEF p
      <4>2. r4.type = tasks[h].type
        BY <2>1 DEF TaskType
      <4>. QED BY <4>1, <4>2
    <3>. QED BY <3>1, <3>2
  <2>4. CASE ~TooOld(tasks[h])
    BY <2>1, <2>2, <2>4 DEF TaskType
  <2>. QED BY <2>3, <2>4
<1>3. t = AbortPast(u)
  OBVIOUS
<1> HIDE DEF u
<1>4. /\ t \in TaskTable
      /\ \A h \in Hooks : t[h].state # "ABORTED" => t[h] = u[h]
      /\ \A h \in Hooks : u[h].state = "RUNNING" => t[h] = u[h]
      /\ \A h \in Hooks : t[h].state = "SCHEDULE" => t[h].due >= 0
      /\ \A h \in Hooks : t[h].type = u[h].type
  <2>1. \A h \in Hooks : t[h].type = u[h].type
    BY <1>1, <1>3, TypesKept DEF AbortPast
  <2>. QED BY <1>1, <1>3, <2>1, PastTable
<1>5. ASSUME NEW h \in Hooks
      PROVE  /\ t[h].type = tasks[h].type
             /\ t[h].state = "RUNNING" <=> tasks[h].state = "RUNNING"
             /\ t[h].state = "ASAP" => tasks[h].state = "ASAP"
             /\ t[h].state = "SCHEDULE" => h \in Startable(t)
  <2>1. t[h].type = tasks[h].type /\ (t[h].state = "RUNNING" <=> tasks[h].state = "RUNNING")
    BY <1>1, <1>2, <1>4
  <2>2. t[h].state = "ASAP" => tasks[h].state = "ASAP"
    BY <1>2, <1>4
  <2>3. t[h].state = "SCHEDULE" => h \in Startable(t)
    BY <1>4 DEF Startable, Waiting
  <2>. QED BY <2>1, <2>2, <2>3
<1>. QED BY <1>1, <1>4, <1>5 DEF Running

\* A task that is selected for launch runs; otherwise the running task stays.
LEMMA SelectTypes ==
  ASSUME IInv, NEW t \in TaskTable, NEW best \in Eligible(t), Select(t, best)
  PROVE  /\ \A h \in Hooks : tasks'[h].type = t[h].type
         /\ \/ Running(tasks)'
            \/ /\ tasks' = t /\ UNCHANGED <<radioTask, radio>>
               /\ Running(t) \/ t[best].due \notin 0 .. Margin
         /\ \/ UNCHANGED radio
            \/ StopRadio
<1>1. best \in Hooks /\ radioTask \in Hooks
  BY DEF Eligible, Startable, IInv, TypeOK
<1>2. CASE tasks' = [t EXCEPT ![best].state = "RUNNING"] /\ radioTask' = best /\ UNCHANGED radio
  BY <1>1, <1>2 DEF TaskTable, TaskType, Running
<1>3. CASE /\ tasks' = [t EXCEPT ![radioTask].state = "ABORTED", ![best].state = "RUNNING"]
           /\ radioTask' = best /\ StopRadio
  <2> DEFINE u == [t EXCEPT ![radioTask].state = "ABORTED"]
  <2>1. u \in TaskTable /\ \A h \in Hooks : u[h].type = t[h].type
    BY <1>1 DEF TaskTable, TaskType, States
  <2>2. tasks' = [u EXCEPT ![best].state = "RUNNING"]
    BY <1>3
  <2> HIDE DEF u
  <2>3. tasks'[best].state = "RUNNING" /\ \A h \in Hooks : tasks'[h].type = u[h].type
    BY <1>1, <2>1, <2>2 DEF TaskTable, TaskType
  <2>. QED BY <1>3, <2>1, <2>3 DEF Running
<1>4. CASE /\ tasks' = t /\ UNCHANGED <<radioTask, radio>>
           /\ Running(t) \/ t[best].due \notin 0 .. Margin
  BY <1>4
<1>. QED BY <1>2, <1>3, <1>4 DEF Select, ArbiterStart

\* The stack that the arbiter leaves.
LEMMA ArbiterStack ==
  ASSUME IInv, Arbiter
  PROVE  /\ stack' \in Seq(FrameType)
         /\ \A O : "arbiter" \notin O /\ Has(stack, O) => Has(stack', O)
         /\ \A O : O \cap {"arbiter", "launch", "expire", "collect"} = {} /\ Has(stack', O)
                   => Has(stack, O)
         /\ Eligible(AbortPast(UpdateTime(tasks))) = {} \/ Has(stack', {"expire"})
<1>1. Rest \in Seq(FrameType) /\ \A O : "arbiter" \notin O => (Has(Rest, O) <=> Has(stack, O))
  BY HasRest DEF IInv, TypeOK, Arbiter, At, Idle
<1>2. lag \in Nat
  BY DEF IInv, TypeOK
<1>3. ASSUME NEW top \in Seq(FrameType), stack' = top \o Rest,
             \A i \in 1 .. Len(top) : top[i].op \in {"launch", "expire", "collect"}
      PROVE  /\ stack' \in Seq(FrameType)
             /\ \A O : "arbiter" \notin O /\ Has(stack, O) => Has(stack', O)
             /\ \A O : O \cap {"arbiter", "launch", "expire", "collect"} = {} /\ Has(stack', O)
                       => Has(stack, O)
  <2>1. \A O : Has(stack', O) <=> (Has(top, O) \/ Has(Rest, O))
    BY <1>1, <1>3, HasConcat
  <2>2. \A O : "launch" \notin O /\ "expire" \notin O /\ "collect" \notin O => ~Has(top, O)
    <3>1. ASSUME NEW O, "launch" \notin O, "expire" \notin O, "collect" \notin O, Has(top, O)
          PROVE  FALSE
      <4>1. PICK i \in 1 .. Len(top) : top[i].op \in O
        BY <3>1 DEF Has
      <4>2. top[i].op \in {"launch", "expire", "collect"}
        BY <1>3, <4>1
      <4>. QED BY <3>1, <4>1, <4>2
    <3>. QED BY <3>1
  <2>3. stack' \in Seq(FrameType)
    BY <1>1, <1>3
  <2>4. ASSUME NEW O, "arbiter" \notin O, Has(stack, O) PROVE Has(stack', O)
    BY <1>1, <2>1, <2>4
  <2>5. ASSUME NEW O, O \cap {"arbiter", "launch", "expire", "collect"} = {}, Has(stack', O)
        PROVE  Has(stack, O)
    BY <1>1, <2>1, <2>2, <2>5
  <2>. QED BY <2>3, <2>4, <2>5
<1>4. ASSUME stack' = Call("collect") \o Rest
      PROVE  /\ stack' \in Seq(FrameType)
             /\ \A O : "arbiter" \notin O /\ Has(stack, O) => Has(stack', O)
             /\ \A O : O \cap {"arbiter", "launch", "expire", "collect"} = {} /\ Has(stack', O)
                       => Has(stack, O)
  <2>1. Call("collect") \in Seq(FrameType)
        /\ \A i \in 1 .. Len(Call("collect")) : Call("collect")[i].op = "collect"
    BY DEF Call, Frame, FrameType, Ops
  <2>. QED BY <1>3, <1>4, <2>1
<1>5. CASE stack' = <<Frame("expire", NoHook, lag)>> \o Rest
  <2>1. <<Frame("expire", NoHook, lag)>> \in Seq(FrameType)
        /\ \A i \in 1 .. Len(<<Frame("expire", NoHook, lag)>>) : 
              <<Frame("expire", NoHook, lag)>>[i].op = "expire"
    BY <1>2 DEF Frame, FrameType, Ops
  <2>2. Has(<<Frame("expire", NoHook, lag)>>, {"expire"})
    BY DEF Has, Frame
  <2>3. Has(stack', {"expire"})
    BY <1>1, <1>5, <2>1, <2>2, HasConcat
  <2>. QED BY <1>3, <1>5, <2>1, <2>3
<1>6. ASSUME NEW h \in Hooks,
             stack' = <<Frame("launch", h, 0), Frame("expire", NoHook, lag)>> \o Rest
      PROVE  /\ stack' \in Seq(FrameType)
             /\ \A O : "arbiter" \notin O /\ Has(stack, O) => Has(stack', O)
             /\ \A O : O \cap {"arbiter", "launch", "expire", "collect"} = {} /\ Has(stack', O)
                       => Has(stack, O)
             /\ Has(stack', {"expire"})
  <2> DEFINE top == <<Frame("launch", h, 0), Frame("expire", NoHook, lag)>>
  <2>1. top \in Seq(FrameType)
        /\ \A i \in 1 .. Len(top) : top[i].op \in {"launch", "expire", "collect"}
    BY <1>2 DEF Frame, FrameType, Ops
  <2>2. Has(top, {"expire"})
    <3>1. 2 \in 1 .. Len(top) /\ top[2].op = "expire"
      BY DEF Frame
    <3>. QED BY <3>1 DEF Has
  <2>3. stack' = top \o Rest
    BY <1>6
  <2> HIDE DEF top
  <2>4. Has(stack', {"expire"})
    BY <1>1, <2>1, <2>2, <2>3, HasConcat
  <2>. QED BY <1>3, <2>1, <2>3, <2>4
<1>7. \A t : Eligible(t) \subseteq Hooks
  BY DEF Eligible, Startable
<1>. QED BY <1>4, <1>5, <1>6, <1>7 DEF Arbiter, Select, ArbiterStart

\* The stack of a hook callback that calls the planner.
LEMMA HookRest ==
  ASSUME IInv, At("hook"), Top.n > 0,
         NEW rest, rest = <<Frame("hook", Top.h, Top.n - 1)>> \o Rest
  PROVE  /\ rest \in Seq(FrameType)
         /\ \A O : "hook" \notin O => (Has(rest, O) <=> Has(stack, O))
<1>1. Rest \in Seq(FrameType) /\ \A O : "hook" \notin O => (Has(Rest, O) <=> Has(stack, O))
  BY HasRest DEF IInv, TypeOK, At, Idle
<1>2. Top \in FrameType
  BY RestQuiet DEF At, Idle
<1>3. Top.h \in Hooks \cup {NoHook} /\ Top.n - 1 \in Nat
  BY <1>2 DEF FrameType
<1> DEFINE top == <<Frame("hook", Top.h, Top.n - 1)>>
<1>4. top \in Seq(FrameType) /\ \A O : "hook" \notin O => ~Has(top, O)
  BY <1>3, HasCall DEF Ops
<1> HIDE DEF top
<1>5. rest = top \o Rest
  BY DEF top
<1>6. ASSUME NEW O, "hook" \notin O PROVE Has(rest, O) <=> Has(stack, O)
  BY <1>1, <1>4, <1>5, <1>6, HasConcat
<1>7. top \in Seq(FrameType) /\ Rest \in Seq(FrameType) /\ rest = top \o Rest
  BY <1>1, <1>4, <1>5
<1>8. rest \in Seq(FrameType)
  BY ONLY <1>7
<1>. QED BY <1>6, <1>8

\* Every step keeps the radio's results with their task, and the semaphore with
\* a task that releases it.
LEMMA RadioNext == RadioInv /\ [Next]_vars => IrqInv' /\ SemInv'
<1> SUFFICES ASSUME RadioInv, [Next]_vars PROVE IrqInv' /\ SemInv'
  OBVIOUS
<1>1. /\ IInv /\ IrqInv /\ SemInv /\ stack \in Seq(FrameType) /\ tasks \in TaskTable
      /\ status \in [Hooks -> Statuses] /\ radioTask \in Hooks /\ chip \in Hooks \cup {NoHook}
  BY DEF RadioInv, IInv, TypeOK, TaskTable
<1>2. ASSUME UNCHANGED <<tasks, status, radioTask, semaphore, chip, chipIrq>>,
             Has(stack, {"irqEnd"}) => Has(stack', {"irqEnd"})
      PROVE  IrqInv' /\ SemInv'
  BY <1>1, <1>2 DEF IrqInv, SemInv, Running
<1>3. CASE Arbiter
  <2> DEFINE t == AbortPast(UpdateTime(tasks))
  <2>1. /\ t \in TaskTable
        /\ \A h \in Hooks : t[h].type = tasks[h].type
        /\ Running(t) <=> Running(tasks)
    BY <1>1, ArbiterTypes
  <2>2. UNCHANGED <<status, semaphore>>
    BY <1>3 DEF Arbiter
  <2>3. Has(stack, {"irqEnd"}) => Has(stack', {"irqEnd"})
    BY <1>1, <1>3, ArbiterStack
  <2>4. CASE Eligible(t) = {} /\ tasks' = t /\ UNCHANGED <<radioTask, radio>>
    <3> HIDE DEF t
    <3>1. IrqInv'
      BY <1>1, <2>1, <2>2, <2>4, IrqKept DEF radio
    <3>. QED BY <3>1, <1>1, <2>1, <2>2, <2>3, <2>4 DEF SemInv, Running
  <2>5. ASSUME NEW best \in Eligible(t), Select(t, best)
        PROVE  IrqInv' /\ SemInv'
    <3> HIDE DEF t
    <3>1. /\ \A h \in Hooks : tasks'[h].type = tasks[h].type
          /\ \/ Running(tasks)'
             \/ tasks' = t /\ UNCHANGED <<radioTask, radio>>
          /\ UNCHANGED radio \/ StopRadio
      BY <1>1, <2>1, <2>5, SelectTypes
    <3>2. IrqInv'
      <4>1. CASE UNCHANGED radio
        BY <1>1, <2>2, <3>1, <4>1, IrqKept DEF radio
      <4>2. CASE StopRadio
        BY <1>1, <2>2, <3>1, <4>2 DEF IrqInv, StopRadio
      <4>. QED BY <3>1, <4>1, <4>2
    <3>3. SemInv'
      BY <1>1, <2>1, <2>2, <2>3, <3>1 DEF SemInv, Running
    <3>. QED BY <3>2, <3>3
  <2>. QED BY <1>3, <2>4, <2>5 DEF Arbiter
<1>4. CASE Launch
  <2>1. /\ Rest \in Seq(FrameType) /\ (Has(Rest, {"irqEnd"}) <=> Has(stack, {"irqEnd"}))
        /\ Top.h = radioTask /\ Running(tasks)
    BY <1>1, <1>4, HasRest DEF Launch, At, Idle, IInv, LaunchOnTop
  <2>2. CASE AbortTask(Top.h, Rest)
    BY <1>1, <2>1, <2>2, AbortTaskRadio
  <2>3. ASSUME tasks[Top.h].type = "LBT", NEW st \in {"LBT_FREE", "LBT_BUSY"}, ServeIrq(st, Rest)
        PROVE  IrqInv' /\ SemInv'
    <3>1. st \in Statuses
      BY DEF Statuses
    <3>. QED BY <2>1, <2>3, <3>1, ServeIrqRadio
  <2>4. CASE /\ tasks[Top.h].type \notin {"NONE", "LBT"} /\ chip' = Top.h /\ stack' = Rest
             /\ UNCHANGED <<planner, alarm, chipIrq, irqPending>>
    <3>1. IrqInv'
      BY <1>1, <2>1, <2>4 DEF IInv, OneRadioUser, IrqInv, planner
    <3>. QED BY <2>1, <2>4, <3>1 DEF SemInv, Running, planner
  <2>. QED BY <1>4, <2>2, <2>3, <2>4 DEF Launch
<1>5. CASE Expire \/ Rearm
  <2>1. Still
    BY <1>1, <1>5, ExpireStill, RearmStill
  <2>2. UNCHANGED <<status, semaphore, chip, chipIrq>>
    BY <1>5 DEF Expire, Rearm, radio
  <2>3. IrqInv'
    BY <1>1, <2>1, <2>2, IrqKept DEF Still
  <2>4. /\ Rest \in Seq(FrameType) /\ (Has(Rest, {"irqEnd"}) <=> Has(stack, {"irqEnd"}))
    BY <1>1, <1>5, HasRest DEF Expire, Rearm, At, Idle
  <2>5. Has(stack, {"irqEnd"}) => Has(stack', {"irqEnd"})
    <3>1. CASE Rearm
      BY <3>1, <2>4 DEF Rearm
    <3>2. CASE Expire
      <4> DEFINE gc == GarbageCollection(tasks')
      <4>1. stack' = gc \o Call("rearm") \o Rest
        BY <3>2 DEF Expire
      <4>2. gc \in Seq(FrameType) /\ Call("rearm") \in Seq(FrameType)
        BY CallSeq DEF Ops, GarbageCollection
      <4> HIDE DEF gc
      <4>3. gc \o Call("rearm") \in Seq(FrameType)
        BY <4>2
      <4>. QED BY <2>4, <4>1, <4>2, <4>3, HasConcat
    <3>. QED BY <1>5, <3>1, <3>2
  <2>. QED BY <1>1, <2>1, <2>2, <2>3, <2>5, StillRunning DEF SemInv
<1>6. CASE Collect
  <2>1. /\ Still /\ (Has(stack', {"irqEnd"}) <=> Has(stack, {"irqEnd"}))
        /\ \A h \in Hooks : status'[h] # status[h] => status'[h] = "ABORTED"
    BY <1>1, <1>6, CollectStill
  <2>2. UNCHANGED <<semaphore, chip, chipIrq>>
    BY <1>6 DEF Collect, radio
  <2>3. IrqInv'
    BY <1>1, <2>1, <2>2, IrqKept DEF Still
  <2>. QED BY <1>1, <2>1, <2>2, <2>3, StillRunning DEF SemInv
<1>7. CASE IrqEnd
  <2>1. IrqInv' /\ semaphore' = FALSE
    BY <1>1, <1>7 DEF IrqEnd, radio, IrqInv
  <2>. QED BY <2>1 DEF SemInv
<1>8. CASE Leave \/ HookReturn
  <2>1. Has(Rest, {"irqEnd"}) <=> Has(stack, {"irqEnd"})
    BY <1>1, <1>8, HasRest DEF Leave, HookReturn, At, Idle
  <2>. QED BY <1>2, <1>8, <2>1 DEF Leave, HookReturn, planner, radio
<1>9. CASE HookCall
  <2> DEFINE rest == <<Frame("hook", Top.h, Top.n - 1)>> \o Rest
  <2>1. rest \in Seq(FrameType) /\ (Has(rest, {"irqEnd"}) <=> Has(stack, {"irqEnd"}))
    BY <1>1, <1>9, HookRest DEF HookCall
  <2>2. (\E k \in Offers : Enqueue(k, rest)) \/ (\E h \in Aborters : AbortTask(h, rest))
    BY <1>9 DEF HookCall
  <2> HIDE DEF rest
  <2>. QED BY <2>1, <2>2, EnqueueRadio, AbortTaskRadio
<1>10. CASE MainEnqueue \/ MainAbort
  <2>1. <<>> \in Seq(FrameType) /\ ~Has(stack, {"irqEnd"})
    BY <1>10 DEF MainEnqueue, MainAbort, Idle, Has
  <2>. QED BY <1>10, <2>1, EnqueueRadio, AbortTaskRadio DEF MainEnqueue, MainAbort
<1>11. CASE ChipRaises
  <2>1. UNCHANGED <<planner, chip, stack>> /\ chip # NoHook
    BY <1>11 DEF ChipRaises
  <2>2. PICK irq \in IrqsOf(tasks[chip].type) : chipIrq' = [kind |-> irq, of |-> chip]
    BY <1>11 DEF ChipRaises
  <2>3. irq \in Irqs
    BY DEF IrqsOf, Irqs
  <2>4. IrqInv'
    BY <1>1, <2>1, <2>2, <2>3 DEF IrqInv, planner
  <2>. QED BY <1>1, <2>1, <2>4 DEF SemInv, planner, Running
<1>12. CASE RadioIrq
  <2>1. CASE ServeIrq(IrqStatus, <<>>)
    <3>1. <<>> \in Seq(FrameType) /\ IrqStatus \in Statuses
      BY <1>1, IrqStatusType
    <3>. QED BY <2>1, <3>1, ServeIrqRadio
  <2>2. CASE UNCHANGED <<planner, alarm, chip, chipIrq, stack>>
    BY <1>2, <2>2 DEF planner
  <2>. QED BY <1>12, <2>1, <2>2 DEF RadioIrq
<1>13. CASE TimerIrq
  <2>1. ~Has(stack, {"irqEnd"})
    BY <1>13 DEF TimerIrq, Idle, Has
  <2>. QED BY <1>2, <1>13, <2>1 DEF TimerIrq, planner, radio
<1>14. CASE Tick
  <2>1. UNCHANGED <<status, radioTask, semaphore, radio, stack>>
        /\ tasks' = [h \in Hooks |-> Later(tasks[h])]
    BY <1>14 DEF Tick
  <2>2. \A h \in Hooks : tasks'[h].state = tasks[h].state /\ tasks'[h].type = tasks[h].type
    <3>1. \A r \in TaskType : Later(r).type = r.type
      BY DEF Later, TaskType
    <3>. QED BY <1>1, <2>1, <3>1, LaterType DEF TaskTable
  <2>3. IrqInv'
    BY <1>1, <2>1, <2>2, IrqKept DEF radio
  <2>. QED BY <1>1, <2>1, <2>2, <2>3 DEF SemInv, Running
<1>15. CASE UNCHANGED vars
  BY <1>2, <1>15 DEF vars, planner, radio
<1>. QED BY <1>3, <1>4, <1>5, <1>6, <1>7, <1>8, <1>9, <1>10, <1>11, <1>12, <1>13, <1>14, <1>15
         DEF Next, Planner, Environment

\* The strengthened invariant holds in every reachable state.
LEMMA RadioInvariant == Spec => []RadioInv
<1>1. Init => RadioInv
  <2>1. Init => IrqInv /\ SemInv
    BY DEF Init, IrqInv, SemInv, NoIrq
  <2>. QED BY <2>1, InitInv DEF RadioInv
<1>2. RadioInv /\ [Next]_vars => RadioInv'
  BY RadioNext, NextInv DEF RadioInv
<1>. QED BY <1>1, <1>2, PTL DEF Spec

\* The semaphore is held by a running task whenever the planner is left.
THEOREM PlannerSemaphoreHeldByTask == Spec => []SemaphoreHeldByTask
<1>1. RadioInv => SemaphoreHeldByTask
  BY DEF RadioInv, SemInv, SemaphoreHeldByTask, Idle, Has
<1>. QED BY <1>1, RadioInvariant, PTL

\* rp_radio_irq reads the result of the radio task's own operation.
LEMMA ServeIrqBelongs ==
  ASSUME RadioInv, NEW rest, ServeIrq(IrqStatus, rest)
  PROVE  OwnResults
<1>1. /\ status \in [Hooks -> Statuses] /\ radioTask \in Hooks /\ chip \in Hooks \cup {NoHook}
      /\ chipIrq \in [kind : Irqs \cup {"NONE"}, of : Hooks \cup {NoHook}]
  BY DEF RadioInv, IInv, TypeOK
<1>2. \A h \in Hooks : status'[h] # status[h] => h = radioTask /\ status'[h] = IrqStatus
  BY <1>1 DEF ServeIrq
<1>3. ASSUME IrqStatus # status[radioTask], IrqStatus \in Irqs
      PROVE  chip = radioTask /\ chipIrq = [kind |-> IrqStatus, of |-> radioTask]
  <2>1. tasks[radioTask].type # "LBT"
    BY <1>3 DEF IrqStatus
  <2>2. IrqStatus = chipIrq.kind /\ chipIrq.kind # "NONE"
    BY <1>3, <2>1 DEF IrqStatus, Irqs
  <2>3. chip # NoHook /\ chipIrq.of = chip
    BY <2>2 DEF RadioInv, IrqInv, NoIrq
  <2>4. chip = radioTask
    BY <2>3 DEF RadioInv, IInv, OneRadioUser
  <2>. QED BY <1>1, <2>2, <2>3, <2>4
<1>. QED BY <1>1, <1>2, <1>3 DEF OwnResults

\* rp_task_enqueue and rp_task_abort give no hook a result of another one.
LEMMA CallBelongs ==
  ASSUME RadioInv, NEW rest,
         (\E k \in Offer : Enqueue(k, rest)) \/ (\E h \in Hooks : AbortTask(h, rest))
  PROVE  OwnResults
<1>1. ASSUME NEW k \in Offer, Enqueue(k, rest) PROVE OwnResults
  <2>1. \A h \in Hooks : status'[h] # status[h] => status'[h] = "INIT"
    BY <1>1 DEF Enqueue, RadioInv, IInv, TypeOK
  <2>. QED BY <2>1 DEF OwnResults, Irqs
<1>2. ASSUME NEW h \in Hooks, AbortTask(h, rest) PROVE OwnResults
  <2>1. CASE status' = status
    BY <2>1 DEF OwnResults
  <2>2. CASE ServeIrq(IrqStatus, Call("leave") \o rest)
    BY <2>2, ServeIrqBelongs
  <2>. QED BY <1>2, <2>1, <2>2 DEF AbortTask
<1>. QED BY <1>1, <1>2

\* Every step of the planner gives a hook a result of its own operation only.
LEMMA NextOwnResults ==
  ASSUME RadioInv, [Next]_vars
  PROVE  OwnResults
<1>1. CASE UNCHANGED status
  BY <1>1 DEF OwnResults
<1>2. CASE Launch
  <2>1. Top.h \in Hooks /\ status \in [Hooks -> Statuses]
    BY <1>2 DEF Launch, At, Idle, RadioInv, IInv, LaunchOnTop, TypeOK
  <2>2. ASSUME NEW st \in {"LBT_FREE", "LBT_BUSY"}, ServeIrq(st, Rest) PROVE OwnResults
    <3>1. \A h \in Hooks : status'[h] # status[h] => status'[h] = st
      BY <2>1, <2>2 DEF ServeIrq
    <3>. QED BY <3>1 DEF OwnResults, Irqs
  <2>. QED BY <1>1, <1>2, <2>1, <2>2, CallBelongs DEF Launch, planner
<1>3. CASE Collect
  <2>1. \A h \in Hooks : status'[h] # status[h] => status'[h] = "ABORTED"
    BY <1>3, CollectStill DEF RadioInv
  <2>. QED BY <2>1 DEF OwnResults, Irqs
<1>4. CASE HookCall \/ MainEnqueue \/ MainAbort
  BY <1>4, CallBelongs DEF HookCall, MainEnqueue, MainAbort
<1>5. CASE RadioIrq
  BY <1>1, <1>5, ServeIrqBelongs DEF RadioIrq, planner
<1>6. CASE \/ Arbiter \/ Expire \/ Rearm \/ IrqEnd \/ Leave \/ HookReturn \/ ChipRaises
           \/ TimerIrq \/ Tick \/ UNCHANGED vars
  BY <1>1, <1>6 DEF Arbiter, Expire, Rearm, IrqEnd, Leave, HookReturn, ChipRaises, TimerIrq,
                    Tick, vars, planner
<1>. QED BY <1>2, <1>3, <1>4, <1>5, <1>6 DEF Next, Planner, Environment

\* The radio result a hook reads was raised by the chip for its own operation.
THEOREM PlannerResultBelongsToTask == Spec => ResultBelongsToTask
BY NextOwnResults, RadioInvariant, PTL DEF Spec, ResultBelongsToTask

\* A larger set of kinds.
LEMMA HasMore ==
  ASSUME NEW s, NEW O, NEW P, O \subseteq P, Has(s, O)
  PROVE  Has(s, P)
BY DEF Has

\* With the arbiter still to run, or the semaphore taken, nothing can be late.
LEMMA ArbiterToCome ==
  ASSUME SemInv', Has(stack', {"arbiter"}) \/ semaphore' = TRUE
  PROVE  TimerInv' /\ AsapInv'
<1>1. CASE Has(stack', {"arbiter"})
  <2>1. Has(stack', Arming) /\ Has(stack', {"arbiter", "irqEnd"})
    BY <1>1, HasMore DEF Arming
  <2>. QED BY <2>1 DEF TimerInv, AsapInv
<1>2. CASE semaphore' = TRUE
  <2>1. Has(stack', {"irqEnd"}) => Has(stack', {"arbiter", "irqEnd"})
    BY HasMore
  <2>. QED BY <1>2, <2>1 DEF SemInv, TimerInv, AsapInv
<1>. QED BY <1>1, <1>2

\* A step after which every waiting task waited before, unchanged.
LEMMA AgeKept ==
  ASSUME AgeInv, \A h \in Hooks : tasks'[h].state = "ASAP" => tasks'[h] = tasks[h]
  PROVE  AgeInv'
BY DEF AgeInv

\* rp_task_enqueue.
LEMMA EnqueueWake ==
  ASSUME WakeInv, SemInv', NEW k \in Offers, NEW rest \in Seq(FrameType), Enqueue(k, rest)
  PROVE  AgeInv' /\ TimerInv' /\ AsapInv'
<1>1. k \in Offer /\ k.h \in Hooks /\ tasks \in [Hooks -> TaskType]
  BY DEF Offer, WakeInv, RadioInv, IInv, TypeOK
<1> DEFINE task == [state |-> k.state, type |-> k.type, due |-> k.due,
                    age |-> IF k.state = "ASAP" THEN 0 - k.due ELSE 0,
                    dur |-> k.dur, prio |-> Priority(k.h, k.state, k.low), low |-> k.low]
<1>2. tasks' = [tasks EXCEPT ![k.h] = task]
  BY DEF Enqueue
<1>3. task.state = "ASAP" => task.due + task.age >= 0
  BY <1>1 DEF Offer
<1> HIDE DEF task
<1>4. AgeInv'
  BY <1>1, <1>2, <1>3 DEF WakeInv, AgeInv
<1>5. CASE semaphore
  BY <1>4, <1>5, ArbiterToCome DEF Enqueue
<1>6. CASE ~semaphore
  <2>1. /\ Call("arbiter") \in Seq(FrameType) /\ Call("leave") \in Seq(FrameType)
        /\ stack' = Call("arbiter") \o Call("leave") \o rest
    BY <1>6, CallSeq DEF Ops, Enqueue
  <2>2. Has(Call("arbiter"), {"arbiter"})
    BY DEF Call, Frame, Has
  <2>3. Has(stack', {"arbiter"})
    BY <2>1, <2>2, HasFirst, Zenon
  <2>. QED BY <1>4, <2>3, ArbiterToCome
<1>. QED BY <1>5, <1>6

\* rp_radio_irq.
LEMMA ServeIrqWake ==
  ASSUME WakeInv, SemInv', NEW st, NEW rest, ServeIrq(st, rest)
  PROVE  AgeInv' /\ TimerInv' /\ AsapInv'
<1>1. tasks \in TaskTable /\ radioTask \in Hooks
  BY DEF WakeInv, RadioInv, IInv, TypeOK, TaskTable
<1>2. \A h \in Hooks : tasks'[h].state = "ASAP" => tasks'[h] = tasks[h]
  <2>1. CASE EndsTask(st)
    <3>1. tasks' = [tasks EXCEPT ![radioTask] = TaskFree(tasks[radioTask])]
      BY <2>1 DEF ServeIrq
    <3>2. TaskFree(tasks[radioTask]).state = "FINISHED"
      BY <1>1, TaskFreeType DEF TaskTable
    <3>. QED BY <1>1, <3>1, <3>2 DEF TaskTable
  <2>2. CASE ~EndsTask(st)
    BY <2>2 DEF ServeIrq
  <2>. QED BY <2>1, <2>2
<1>3. AgeInv'
  BY <1>2, AgeKept DEF WakeInv
<1>. QED BY <1>3, ArbiterToCome DEF ServeIrq

\* rp_task_abort.
LEMMA AbortTaskWake ==
  ASSUME WakeInv, SemInv', NEW h \in Hooks, NEW rest \in Seq(FrameType), AbortTask(h, rest)
  PROVE  AgeInv' /\ TimerInv' /\ AsapInv'
<1>1. CASE tasks[h].state = "RUNNING"
  BY <1>1, ServeIrqWake DEF AbortTask, Waiting
<1>2. CASE tasks[h].state # "RUNNING"
  <2>1. /\ tasks' = Abort(tasks, {h}) /\ semaphore' = semaphore
        /\ stack' = (IF semaphore THEN <<>> ELSE Call("arbiter")) \o Call("leave") \o rest
    BY <1>2 DEF AbortTask
  <2>2. tasks \in TaskTable
    BY DEF WakeInv, RadioInv, IInv, TypeOK, TaskTable
  <2>3. \A g \in Hooks : tasks'[g].state = "ASAP" => tasks'[g] = tasks[g]
    BY <2>1, <2>2, AbortTable
  <2>4. AgeInv'
    BY <2>3, AgeKept DEF WakeInv
  <2>5. CASE semaphore
    BY <2>1, <2>4, <2>5, ArbiterToCome
  <2>6. CASE ~semaphore
    <3>1. /\ Call("arbiter") \in Seq(FrameType) /\ Call("leave") \in Seq(FrameType)
          /\ stack' = Call("arbiter") \o Call("leave") \o rest
      BY <2>1, <2>6, CallSeq DEF Ops
    <3>2. Has(Call("arbiter"), {"arbiter"})
      BY DEF Call, Frame, Has
    <3>3. Has(stack', {"arbiter"})
      BY <3>1, <3>2, HasFirst, Zenon
    <3>. QED BY <2>4, <3>3, ArbiterToCome
  <2>. QED BY <2>5, <2>6
<1>. QED BY <1>1, <1>2

\* An ASAP task that waited too long is scheduled.
LEMMA ReschedState ==
  ASSUME NEW r \in TaskType, NEW h \in Hooks
  PROVE  [r EXCEPT !.state = "SCHEDULE", !.due = Resched, !.age = 0,
                   !.prio = Priority(h, "SCHEDULE", r.low)].state = "SCHEDULE"
<1>1. Priority(h, "SCHEDULE", r.low) \in 0 .. (2 * NbHooks - 1)
  BY PriorityType
<1>2. \A q : q = [r EXCEPT !.state = "SCHEDULE", !.due = Resched, !.age = 0,
                   !.prio = Priority(h, "SCHEDULE", r.low)] => q.state = "SCHEDULE"
  BY <1>1, ReschedType, Zenon
<1>. QED BY <1>2

\* Before it selects, the arbiter makes every ASAP task startable.
LEMMA ArbiterAsap ==
  ASSUME IInv, AgeInv, NEW t, t = AbortPast(UpdateTime(tasks)), NEW h \in Hooks,
         t[h].state = "ASAP"
  PROVE  h \in Startable(t) /\ (t[h].age <= 0 => t[h].due + t[h].age >= 0)
<1> DEFINE u == UpdateTime(tasks)
<1>1. tasks \in TaskTable /\ tasks[h] \in TaskType /\ u \in TaskTable /\ t = AbortPast(u)
  BY UpdateTable DEF IInv, TypeOK, TaskTable
<1>2. u[h] = IF TooOld(tasks[h])
        THEN [tasks[h] EXCEPT !.state = "SCHEDULE", !.due = Resched, !.age = 0,
                          !.prio = Priority(h, "SCHEDULE", tasks[h].low)]
      ELSE IF tasks[h].state = "ASAP" /\ tasks[h].age > 0
        THEN [tasks[h] EXCEPT !.due = 0]
      ELSE IF h = radioTask /\ Running(tasks) /\ tasks[h].type = "RX"
        THEN [tasks[h] EXCEPT !.dur = Margin + 2 - tasks[h].due]
      ELSE tasks[h]
  BY Zenon DEF UpdateTime
<1> HIDE DEF u
<1>3. u[h] = t[h] /\ u[h].state = "ASAP"
  BY <1>1, PastTable
<1>4. ~TooOld(tasks[h])
  <2>1. ASSUME TooOld(tasks[h]) PROVE FALSE
    <3>1. u[h] = [tasks[h] EXCEPT !.state = "SCHEDULE", !.due = Resched, !.age = 0,
                          !.prio = Priority(h, "SCHEDULE", tasks[h].low)]
      BY <1>2, <2>1, Zenon
    <3>2. tasks[h] \in TaskType
      BY <1>1
    <3>3. u[h].state = "SCHEDULE"
      BY <3>1, <3>2, ReschedState, Zenon
    <3>. QED BY <1>3, <3>3
  <2>. QED BY <2>1
<1>5. CASE tasks[h].state = "ASAP" /\ tasks[h].age > 0
  <2>1. u[h] = [tasks[h] EXCEPT !.due = 0]
    BY <1>2, <1>4, <1>5
  <2>2. u[h].due = 0 /\ u[h].age > 0
    <3>1. \A r \in TaskType : [r EXCEPT !.due = 0].due = 0 /\ [r EXCEPT !.due = 0].age = r.age
      BY DEF TaskType
    <3>. QED BY <1>1, <1>5, <2>1, <3>1
  <2>3. t[h].due = 0 /\ t[h].age > 0 /\ t[h].age \in Int
    BY <1>1, <1>3, <2>2 DEF TaskTable, TaskType
  <2>. QED BY <1>3, <2>3 DEF Startable, Waiting
<1>6. CASE ~(tasks[h].state = "ASAP" /\ tasks[h].age > 0)
  <2>1. ~(h = radioTask /\ Running(tasks))
    <3>1. ASSUME h = radioTask /\ Running(tasks) PROVE FALSE
      <4>1. u[h] = tasks[h] \/ u[h] = [tasks[h] EXCEPT !.dur = Margin + 2 - tasks[h].due]
        BY <1>2, <1>4, <1>6
      <4>2. u[h].state = tasks[h].state
        BY <1>1, <4>1 DEF TaskType
      <4>. QED BY <1>3, <3>1, <4>2 DEF Running
    <3>. QED BY <3>1
  <2>2. u[h] = tasks[h]
    BY <1>2, <1>4, <1>6, <2>1
  <2>3. tasks[h].age <= 0 /\ tasks[h].due + tasks[h].age >= 0
    BY <1>1, <1>3, <1>6, <2>2 DEF AgeInv, TaskType
  <2>4. tasks[h].due >= 0
    BY <1>1, <2>3 DEF TaskType, Floor
  <2>. QED BY <1>3, <2>2, <2>3, <2>4 DEF Startable, Waiting
<1>. QED BY <1>5, <1>6

\* The arbiter.
LEMMA ArbiterWake ==
  ASSUME MaxLag <= Margin, WakeInv, SemInv', IInv', Arbiter
  PROVE  AgeInv' /\ TimerInv' /\ AsapInv'
<1> DEFINE t == AbortPast(UpdateTime(tasks))
<1>1. /\ IInv /\ AgeInv /\ radioTask \in Hooks
      /\ t \in TaskTable
      /\ \A h \in Hooks : t[h].state = "RUNNING" <=> tasks[h].state = "RUNNING"
      /\ Running(t) <=> Running(tasks)
      /\ \A h \in Hooks : t[h].state = "SCHEDULE" => h \in Startable(t)
  BY ArbiterTypes DEF WakeInv, RadioInv, IInv, TypeOK
<1>2. \A h \in Hooks : t[h].state = "ASAP" =>
         h \in Startable(t) /\ (t[h].age <= 0 => t[h].due + t[h].age >= 0)
  BY <1>1, ArbiterAsap
<1>3. Eligible(t) = {} \/ Has(stack', {"expire"})
  BY <1>1, ArbiterStack
<1>4. CASE Eligible(t) = {} /\ tasks' = t
  <2> HIDE DEF t
  <2>1. \A h \in Hooks : tasks'[h].state \notin Waiting
    BY <1>1, <1>2, <1>4 DEF Eligible, Waiting
  <2>. QED BY <2>1 DEF AgeInv, TimerInv, AsapInv, Waiting
<1>5. ASSUME NEW best \in Eligible(t), Select(t, best) PROVE AgeInv' /\ TimerInv' /\ AsapInv'
  <2> HIDE DEF t
  <2>1. best \in Hooks /\ lag \in Nat /\ lag' = lag /\ priorityHook' = best
    BY <1>5 DEF Eligible, Startable, WakeInv, RadioInv, IInv, TypeOK, Select, Arbiter
  <2>2. \A h \in Hooks : tasks'[h].state \in Waiting => tasks'[h] = t[h]
    <3>1. CASE tasks' = [t EXCEPT ![best].state = "RUNNING"]
      BY <1>1, <2>1, <3>1 DEF TaskTable, TaskType, Waiting
    <3>2. CASE tasks' = [t EXCEPT ![radioTask].state = "ABORTED", ![best].state = "RUNNING"]
      <4> DEFINE w == [t EXCEPT ![radioTask].state = "ABORTED"]
      <4>1. w \in TaskTable /\ \A h \in Hooks : w[h].state \in Waiting => w[h] = t[h]
        BY <1>1 DEF TaskTable, TaskType, States, Waiting
      <4>2. tasks' = [w EXCEPT ![best].state = "RUNNING"]
        BY <3>2
      <4> HIDE DEF w
      <4>3. \A h \in Hooks : tasks'[h].state \in Waiting => tasks'[h] = w[h]
        BY <2>1, <4>1, <4>2 DEF TaskTable, TaskType, Waiting
      <4>. QED BY <4>1, <4>3
    <3>. QED BY <1>5, <3>1, <3>2 DEF Select
  <2>3. AgeInv'
    BY <1>2, <2>2 DEF AgeInv, Waiting
  <2>4. Has(stack', {"expire"}) /\ Has(stack', Arming) /\ Has(stack', {"expire", "rearm"})
    BY <1>3, <1>5, HasMore DEF Arming
  <2>5. TimerInv'
    BY <2>4 DEF TimerInv
  <2>6. AsapInv'
    <3>1. CASE Running(tasks)'
      BY <3>1 DEF AsapInv
    <3>2. CASE /\ ~Running(tasks)'
               /\ tasks' = t /\ UNCHANGED radioTask
               /\ Running(t) \/ t[best].due \notin 0 .. Margin
      <4>1. ~Running(t) /\ t[best].due \notin 0 .. Margin
        BY <3>2 DEF Running
      <4>2. t[best].state # "RUNNING"
        BY <1>1, <2>1, <4>1 DEF IInv, OneRadioUser, Running
      <4>3. best \in Startable(t)
        BY <4>2 DEF Eligible
      <4>4. t[best].state \in Waiting /\ t[best].due > Margin /\ t[best].due \in Int
        BY <1>1, <2>1, <4>1, <4>3 DEF Startable, TaskTable, TaskType, Floor
      <4>5. t[best].due >= 0 /\ t[best].due + lag >= MaxLag
        BY <2>1, <4>4
      <4>. QED BY <2>1, <2>4, <3>2, <4>4, <4>5 DEF AsapInv
    <3>. QED BY <1>1, <1>5, <3>1, <3>2, SelectTypes
  <2>. QED BY <2>3, <2>5, <2>6
<1>. QED BY <1>4, <1>5 DEF Arbiter

\* The other pieces of the planner: nothing is scheduled any earlier, no timer is
\* stopped and no selected task given up before rp_task_get_next has run.
LEMMA ReturnWake ==
  ASSUME WakeInv, UNCHANGED <<tasks, radioTask, priorityHook, semaphore, alarm, lag>>,
         Has(stack, Arming) => Has(stack', Arming),
         Has(stack, {"arbiter", "irqEnd"}) => Has(stack', {"arbiter", "irqEnd"}),
         Has(stack, {"expire", "rearm"}) => Has(stack', {"expire", "rearm"})
  PROVE  AgeInv' /\ TimerInv' /\ AsapInv'
<1>1. AgeInv /\ TimerInv /\ AsapInv
  BY DEF WakeInv
<1>2. AgeInv'
  BY <1>1 DEF AgeInv
<1>3. TimerInv'
  BY <1>1 DEF TimerInv
<1>4. AsapInv'
  BY <1>1 DEF AsapInv, Running
<1>. QED BY <1>2, <1>3, <1>4

\* "Timer has expired on a not priority task" never gives up the selected task.
LEMMA ExpireWake ==
  ASSUME WakeInv, Expire
  PROVE  AgeInv' /\ TimerInv' /\ AsapInv'
<1>1. /\ IInv /\ AgeInv /\ AsapInv /\ Still
      /\ \A h \in Hooks : tasks'[h] # tasks[h] => h = timerHook /\ timerHook # priorityHook
      /\ priorityHook \in Hooks
      /\ UNCHANGED <<priorityHook, alarm, lag, semaphore>>
  BY ExpireStill DEF WakeInv, RadioInv, IInv, TypeOK, Expire
<1>2. AgeInv'
  BY <1>1, AgeKept DEF Still, Waiting
<1>3. Rest \in Seq(FrameType)
      /\ (Has(Rest, {"arbiter", "irqEnd"}) <=> Has(stack, {"arbiter", "irqEnd"}))
  BY HasRest DEF WakeInv, RadioInv, IInv, TypeOK, Expire, At, Idle
<1> DEFINE gc == GarbageCollection(tasks')
<1>4. gc \in Seq(FrameType) /\ Call("rearm") \in Seq(FrameType)
  BY CallSeq DEF Ops, GarbageCollection
<1>5. stack' = gc \o Call("rearm") \o Rest
  BY DEF Expire
<1> HIDE DEF gc
<1>6. gc \o Call("rearm") \in Seq(FrameType)
  BY <1>4
<1>7. Has(Call("rearm"), {"expire", "rearm"}) /\ Has(Call("rearm"), Arming)
  BY DEF Call, Frame, Has, Arming
<1>8. Has(stack', {"expire", "rearm"}) /\ Has(stack', Arming)
      /\ (Has(Rest, {"arbiter", "irqEnd"}) => Has(stack', {"arbiter", "irqEnd"}))
  BY <1>3, <1>4, <1>5, <1>6, <1>7, HasConcat
<1>9. TimerInv'
  BY <1>8 DEF TimerInv
<1>10. Running(tasks)' <=> Running(tasks)
  BY <1>1, StillRunning
<1>11. AsapInv'
  <2>1. SUFFICES ASSUME NEW h \in Hooks, tasks'[h].state = "ASAP",
                        ~Has(stack', {"arbiter", "irqEnd"}), ~Running(tasks)', alarm' = NoAlarm
        PROVE  /\ tasks'[priorityHook].state \in Waiting
               /\ tasks'[priorityHook].due >= 0
               /\ tasks'[priorityHook].due + lag >= MaxLag
    BY <1>1, <1>8 DEF AsapInv
  <2>2. tasks[h].state = "ASAP"
    BY <1>1, <2>1 DEF Still, Waiting
  <2>3. tasks'[priorityHook] = tasks[priorityHook]
    BY <1>1
  <2>. QED BY <1>1, <1>3, <1>8, <1>10, <2>1, <2>2, <2>3 DEF AsapInv
<1>. QED BY <1>2, <1>9, <1>11

\* rp_task_get_next and rp_set_alarm arm the timer for the earliest start.
LEMMA RearmWake ==
  ASSUME WakeInv, Rearm
  PROVE  AgeInv' /\ TimerInv' /\ AsapInv'
<1>1. /\ IInv /\ AgeInv /\ AsapInv /\ Still /\ tasks \in TaskTable /\ alarm \in Int
      /\ priorityHook \in Hooks
      /\ \A h \in Hooks : tasks[h].state \in Waiting /\ tasks[h].due >= 0 => tasks'[h] = tasks[h]
      /\ \A h \in Hooks : tasks'[h].state = "SCHEDULE" => h \in Startable(tasks')
  BY RearmStill DEF WakeInv, RadioInv, IInv, TypeOK, TaskTable, NoAlarm
<1>2. UNCHANGED <<radioTask, priorityHook, semaphore, lag>> /\ stack' = Rest
  BY DEF Rearm
<1>3. tasks' \in TaskTable
  BY <1>1, PastTable DEF Rearm
<1>4. AgeInv'
  BY <1>1, AgeKept DEF Still, Waiting
<1>5. ASSUME Startable(tasks') # {}
      PROVE  /\ \A h \in Startable(tasks') : alarm' <= Max({tasks'[h].due - Margin, 1})
             /\ alarm' # NoAlarm
  <2> DEFINE g == GetNext(tasks')
  <2>1. /\ alarm' = AlarmDelay(tasks'[g].due)
        /\ g \in Startable(tasks') /\ \A h \in Startable(tasks') : tasks'[g].due <= tasks'[h].due
    BY <1>3, <1>5, GetNextType DEF Rearm
  <2> HIDE DEF g
  <2>2. \A h \in Startable(tasks') : h \in Hooks /\ tasks'[h].due \in 0 .. MaxDur
    BY <1>3 DEF Startable, TaskTable, TaskType
  <2>3. ASSUME NEW h \in Startable(tasks') PROVE alarm' <= Max({tasks'[h].due - Margin, 1})
    <3>1. tasks'[g].due \in 0 .. MaxDur /\ tasks'[h].due \in 0 .. MaxDur
          /\ tasks'[g].due <= tasks'[h].due
      BY <2>1, <2>2
    <3> DEFINE m == Max({tasks'[h].due - Margin, 1})
    <3>2. m >= tasks'[h].due - Margin /\ m >= 1 /\ m \in Int
      <4>1. tasks'[h].due - Margin \in Int /\ 1 \in Int
        BY <3>1
      <4>2. m \in {tasks'[h].due - Margin, 1} /\ m >= tasks'[h].due - Margin /\ m >= 1
        BY <4>1, MaxMinOfTwo, Zenon
      <4> HIDE DEF m
      <4>. QED BY <4>1, <4>2
    <3> HIDE DEF m
    <3>3. alarm' <= m
      BY <2>1, <3>1, <3>2 DEF AlarmDelay
    <3>. QED BY <3>3 DEF m
  <2>4. alarm' # NoAlarm
    BY <2>1, <2>2 DEF AlarmDelay, NoAlarm
  <2>. QED BY <2>3, <2>4
<1>6. TimerInv'
  <2>1. \A h \in Hooks : tasks'[h].state = "SCHEDULE"
          => alarm' <= Max({tasks'[h].due - Margin, 1})
    BY <1>1, <1>5
  <2>. QED BY <2>1 DEF TimerInv
<1>7. AsapInv'
  <2>1. (Has(Rest, {"arbiter", "irqEnd"}) <=> Has(stack, {"arbiter", "irqEnd"}))
    BY HasRest DEF WakeInv, RadioInv, IInv, TypeOK, Rearm, At, Idle
  <2>2. Running(tasks)' <=> Running(tasks)
    BY <1>1, StillRunning
  <2>3. ASSUME NEW h \in Hooks, tasks'[h].state = "ASAP",
               ~Has(stack', {"arbiter", "irqEnd"}), ~Running(tasks)', alarm' = NoAlarm
        PROVE  FALSE
    <3>1. Startable(tasks') = {}
      BY <1>5, <2>3
    <3>2. alarm = NoAlarm
      BY <2>3, <3>1 DEF Rearm
    <3>3. tasks[h].state = "ASAP"
      BY <1>1, <2>3 DEF Still, Waiting
    <3>4. tasks[priorityHook].state \in Waiting /\ tasks[priorityHook].due >= 0
      BY <1>1, <1>2, <2>1, <2>2, <2>3, <3>2, <3>3 DEF AsapInv
    <3>5. priorityHook \in Startable(tasks')
      BY <1>1, <3>4 DEF Startable
    <3>. QED BY <3>1, <3>5
  <2>. QED BY <2>3 DEF AsapInv
<1>. QED BY <1>4, <1>6, <1>7

\* rp_task_call_aborted frees aborted tasks only.
LEMMA CollectWake ==
  ASSUME WakeInv, Collect
  PROVE  AgeInv' /\ TimerInv' /\ AsapInv'
<1>1. /\ IInv /\ AgeInv /\ TimerInv /\ AsapInv /\ Still /\ priorityHook \in Hooks
      /\ \A h \in Hooks : tasks[h].state # "ABORTED" => tasks'[h] = tasks[h]
      /\ \A O : "collect" \notin O /\ "hook" \notin O => (Has(stack', O) <=> Has(stack, O))
  BY CollectStill DEF WakeInv, RadioInv, IInv, TypeOK
<1>2. UNCHANGED <<priorityHook, semaphore, alarm, lag>>
  BY DEF Collect
<1>3. /\ Has(stack', Arming) <=> Has(stack, Arming)
      /\ Has(stack', {"arbiter", "irqEnd"}) <=> Has(stack, {"arbiter", "irqEnd"})
      /\ Has(stack', {"expire", "rearm"}) <=> Has(stack, {"expire", "rearm"})
  <2>1. \A O \in {Arming, {"arbiter", "irqEnd"}, {"expire", "rearm"}} :
           "collect" \notin O /\ "hook" \notin O
    BY DEF Arming
  <2>. QED BY <1>1, <2>1
<1>4. Running(tasks)' <=> Running(tasks)
  BY <1>1, StillRunning
<1>5. AgeInv'
  BY <1>1, AgeKept DEF Still, Waiting
<1>6. TimerInv'
  BY <1>1, <1>2, <1>3 DEF TimerInv, Still, Waiting
<1>7. AsapInv'
  BY <1>1, <1>2, <1>3, <1>4 DEF AsapInv, Still, Waiting
<1>. QED BY <1>5, <1>6, <1>7

\* A millisecond for a waiting task.
LEMMA LaterWaits ==
  ASSUME NEW r \in TaskType, r.state \in Waiting
  PROVE  /\ Later(r).due \in Int /\ Later(r).due >= r.due - 1
         /\ Later(r).state = "ASAP" /\ Later(r).age <= 0 => Later(r).age = r.age + 1
<1> DEFINE d == Max({r.due - 1, 0 - Floor})
           a == IF r.state = "ASAP" THEN Min({r.age + 1, AsapTrig + 1}) ELSE r.age
           q == [r EXCEPT !.due = d]
<1>1. d \in Int /\ d >= r.due - 1
  <2>1. r.due - 1 \in Int /\ 0 - Floor \in Int
    BY DEF TaskType, Floor
  <2>2. d \in {r.due - 1, 0 - Floor} /\ d >= r.due - 1
    BY <2>1, MaxMinOfTwo, Zenon
  <2> HIDE DEF d
  <2>. QED BY <2>1, <2>2
<1>2. r.state = "ASAP" => a \in {r.age + 1, AsapTrig + 1}
  <2>1. r.age + 1 \in Int /\ AsapTrig + 1 \in Int
    BY DEF TaskType
  <2>2. Min({r.age + 1, AsapTrig + 1}) \in {r.age + 1, AsapTrig + 1}
    BY <2>1, MaxMinOfTwo, Zenon
  <2>. QED BY <2>2
<1>3. Later(r) = [q EXCEPT !.age = a]
  BY Zenon DEF Later
<1> HIDE DEF d, a
<1>4. q.state = r.state /\ q.due = d /\ "age" \in DOMAIN q /\ q.age = r.age
      /\ [q EXCEPT !.age = a].age = a /\ [q EXCEPT !.age = a].due = d
      /\ [q EXCEPT !.age = a].state = r.state
  BY DEF TaskType
<1> HIDE DEF q
<1>5. Later(r).state = r.state /\ Later(r).due = d /\ Later(r).age = a
  BY <1>3, <1>4
<1>6. a > 0 \/ r.state # "ASAP" \/ a = r.age + 1
  BY <1>2
<1>7. r.state = "ASAP" => a \in Int
  <2>1. r.age \in Int
    BY DEF TaskType
  <2>. QED BY <1>2, <2>1
<1>. QED BY <1>1, <1>5, <1>6, <1>7

\* Time brings a start closer by as much as the timer; the callbacks that pass it
\* leave what is left of the activation to the selected task.
LEMMA TickWake ==
  ASSUME WakeInv, Tick
  PROVE  AgeInv' /\ TimerInv' /\ AsapInv'
<1>1. /\ IInv /\ AgeInv /\ TimerInv /\ AsapInv /\ LaunchOnTop /\ tasks \in TaskTable
      /\ alarm \in (0 - Latency) .. NoAlarm /\ priorityHook \in Hooks /\ radioTask \in Hooks
      /\ lag \in Nat
  BY DEF WakeInv, RadioInv, IInv, TypeOK, TaskTable
<1>2. /\ UNCHANGED <<radioTask, priorityHook, semaphore, stack>>
      /\ tasks' = [h \in Hooks |-> Later(tasks[h])]
      /\ alarm' = IF alarm = NoAlarm THEN alarm ELSE Max({alarm - 1, 0 - Latency})
  BY DEF Tick
<1>3. ASSUME NEW h \in Hooks
      PROVE  /\ tasks[h] \in TaskType /\ tasks'[h] = Later(tasks[h])
             /\ tasks'[h].state = tasks[h].state
             /\ tasks[h].due \in (0 - Floor) .. MaxDur /\ tasks[h].age \in Int
             /\ tasks'[h].due \in Int
             /\ tasks[h].state \in Waiting => tasks'[h].due >= tasks[h].due - 1
             /\ tasks[h].state = "ASAP" /\ tasks'[h].age <= 0
                   => tasks'[h].age = tasks[h].age + 1
  <2>1. tasks[h] \in TaskType /\ tasks'[h] = Later(tasks[h])
    BY <1>1, <1>2 DEF TaskTable
  <2>2. tasks'[h] \in TaskType /\ tasks'[h].state = tasks[h].state
    BY <2>1, LaterType
  <2>3. /\ tasks[h].due \in (0 - Floor) .. MaxDur /\ tasks[h].age \in Int
        /\ tasks'[h].due \in Int
    BY <2>1, <2>2 DEF TaskType, Floor
  <2>4. tasks[h].state \in Waiting =>
          /\ Later(tasks[h]).due >= tasks[h].due - 1
          /\ tasks[h].state = "ASAP" /\ Later(tasks[h]).age <= 0
                => Later(tasks[h]).age = tasks[h].age + 1
    BY <2>1, <2>2, LaterWaits
  <2>. QED BY <2>1, <2>2, <2>3, <2>4 DEF Waiting
<1>4. AgeInv'
  <2>1. ASSUME NEW h \in Hooks, tasks'[h].state = "ASAP", tasks'[h].age <= 0
        PROVE  tasks'[h].due + tasks'[h].age >= 0
    <3>1. tasks[h].state = "ASAP" /\ tasks[h].state \in Waiting
      BY <1>3, <2>1 DEF Waiting
    <3>2. tasks'[h].age = tasks[h].age + 1 /\ tasks'[h].due >= tasks[h].due - 1
      BY <1>3, <2>1, <3>1
    <3>3. tasks[h].age <= 0
      BY <1>3, <2>1, <3>2
    <3>4. tasks[h].due + tasks[h].age >= 0
      BY <1>1, <3>1, <3>3 DEF AgeInv
    <3>5. tasks[h].due \in Int
      BY <1>3 DEF Floor
    <3>. QED BY <1>3, <3>2, <3>4, <3>5
  <2>. QED BY <2>1 DEF AgeInv
<1>5. /\ alarm = NoAlarm => alarm' = NoAlarm
      /\ alarm # NoAlarm => alarm' \in {alarm - 1, 0 - Latency} /\ alarm' \in Int
  <2>1. alarm - 1 \in Int /\ 0 - Latency \in Int
    BY <1>1 DEF NoAlarm
  <2>2. Max({alarm - 1, 0 - Latency}) \in {alarm - 1, 0 - Latency}
    BY <2>1, MaxMinOfTwo, Zenon
  <2>. QED BY <1>2, <2>1, <2>2
<1>6. TimerInv'
  <2>1. ASSUME NEW h \in Hooks, tasks'[h].state = "SCHEDULE",
               ~semaphore', ~Has(stack, Arming)'
        PROVE  alarm' <= Max({tasks'[h].due - Margin, 1})
    <3>1. tasks[h].state = "SCHEDULE" /\ tasks[h].state \in Waiting
      BY <1>3, <2>1 DEF Waiting
    <3>2. alarm <= Max({tasks[h].due - Margin, 1})
      BY <1>1, <1>2, <2>1, <3>1 DEF TimerInv
    <3>3. tasks[h].due \in Int /\ tasks'[h].due \in Int /\ tasks[h].due <= MaxDur
          /\ tasks'[h].due >= tasks[h].due - 1
      BY <1>3, <3>1 DEF Floor
    <3> DEFINE m == Max({tasks[h].due - Margin, 1})
               n == Max({tasks'[h].due - Margin, 1})
    <3>4. m \in {tasks[h].due - Margin, 1}
      <4>1. tasks[h].due - Margin \in Int /\ 1 \in Int
        BY <3>3
      <4>. QED BY <4>1, MaxMinOfTwo, Zenon
    <3>5. n \in Int /\ n >= tasks'[h].due - Margin /\ n >= 1
      <4>1. tasks'[h].due - Margin \in Int /\ 1 \in Int
        BY <3>3
      <4>2. n \in {tasks'[h].due - Margin, 1} /\ n >= tasks'[h].due - Margin /\ n >= 1
        BY <4>1, MaxMinOfTwo, Zenon
      <4> HIDE DEF n
      <4>. QED BY <4>1, <4>2
    <3> HIDE DEF m, n
    <3>6. alarm <= m
      BY <3>2 DEF m
    <3>7. alarm # NoAlarm
      BY <3>3, <3>4, <3>6 DEF NoAlarm
    <3>8. alarm' <= n
      BY <1>1, <1>5, <3>3, <3>4, <3>5, <3>6, <3>7 DEF NoAlarm
    <3>. QED BY <3>8 DEF n
  <2>. QED BY <2>1 DEF TimerInv
<1>7. AsapInv'
  <2> SUFFICES ASSUME NEW h \in Hooks, tasks'[h].state = "ASAP", alarm' = NoAlarm,
                      ~Has(stack', {"arbiter", "irqEnd"}), ~Running(tasks)'
               PROVE  /\ Has(stack', {"expire", "rearm"})
                      /\ tasks'[priorityHook'].state \in Waiting
                      /\ tasks'[priorityHook'].due >= 0
                      /\ tasks'[priorityHook'].due + lag' >= MaxLag
    BY DEF AsapInv
  <2>1. alarm = NoAlarm
    BY <1>1, <1>5 DEF NoAlarm
  <2>2. tasks[h].state = "ASAP" /\ ~Running(tasks)
    BY <1>1, <1>2, <1>3 DEF Running
  <2>3. /\ Has(stack, {"expire", "rearm"})
        /\ tasks[priorityHook].state \in Waiting
        /\ tasks[priorityHook].due >= 0 /\ tasks[priorityHook].due + lag >= MaxLag
    BY <1>1, <1>2, <2>1, <2>2 DEF AsapInv
  <2>4. stack # <<>>
    BY <2>3 DEF Has
  <2>5. ~At("launch")
    BY <1>1, <2>2 DEF LaunchOnTop, At, Idle
  <2>6. lag < MaxLag /\ lag' = lag + 1
    BY <2>4, <2>5 DEF Tick, Idle
  <2>7. /\ tasks'[priorityHook].state \in Waiting
        /\ tasks'[priorityHook].due >= tasks[priorityHook].due - 1
        /\ tasks'[priorityHook].due \in Int /\ tasks[priorityHook].due \in Int
    BY <1>1, <1>3, <2>3 DEF Floor
  <2>8. tasks'[priorityHook].due >= 0 /\ tasks'[priorityHook].due + lag' >= MaxLag
    BY <1>1, <2>3, <2>6, <2>7
  <2>. QED BY <1>2, <2>3, <2>7, <2>8
<1>. QED BY <1>4, <1>6, <1>7

\* Every step keeps the wake-ups, if the callbacks of one activation last no
\* longer than the margin.
LEMMA WakeNext ==
  ASSUME MaxLag <= Margin, WakeInv, [Next]_vars
  PROVE  WakeInv'
<1>1. RadioInv' /\ SemInv' /\ IInv'
  BY NextInv, RadioNext DEF WakeInv, RadioInv
<1>2. IInv /\ stack \in Seq(FrameType)
  BY DEF WakeInv, RadioInv, IInv, TypeOK
<1>3. CASE Arbiter
  BY <1>1, <1>3, ArbiterWake DEF WakeInv
<1>4. CASE Launch
  <2>1. /\ Rest \in Seq(FrameType) /\ Top.h \in Hooks
        /\ \A O : "launch" \notin O => (Has(Rest, O) <=> Has(stack, O))
    BY <1>2, <1>4, HasRest DEF Launch, At, Idle, IInv, LaunchOnTop, TypeOK
  <2>2. CASE stack' = Rest /\ lag' = lag /\ UNCHANGED <<planner, alarm, chipIrq, irqPending>>
    <3>1. /\ Has(stack, Arming) => Has(stack', Arming)
          /\ Has(stack, {"arbiter", "irqEnd"}) => Has(stack', {"arbiter", "irqEnd"})
          /\ Has(stack, {"expire", "rearm"}) => Has(stack', {"expire", "rearm"})
      BY <2>1, <2>2 DEF Arming
    <3>. QED BY <1>1, <2>2, <3>1, ReturnWake DEF WakeInv, planner
  <2>3. CASE AbortTask(Top.h, Rest)
    BY <1>1, <2>1, <2>3, AbortTaskWake DEF WakeInv
  <2>4. CASE \E st \in {"LBT_FREE", "LBT_BUSY"} : ServeIrq(st, Rest)
    BY <1>1, <2>4, ServeIrqWake DEF WakeInv
  <2>. QED BY <1>4, <2>2, <2>3, <2>4 DEF Launch
<1>5. CASE Expire
  BY <1>1, <1>5, ExpireWake DEF WakeInv
<1>6. CASE Rearm
  BY <1>1, <1>6, RearmWake DEF WakeInv
<1>7. CASE Collect
  BY <1>1, <1>7, CollectWake DEF WakeInv
<1>8. CASE IrqEnd \/ TimerIrq
  <2>1. UNCHANGED tasks
    BY <1>8 DEF IrqEnd, TimerIrq, planner
  <2>2. AgeInv'
    BY <2>1 DEF WakeInv, AgeInv
  <2>3. Has(stack', {"arbiter"})
    <3>1. Call("arbiter") \in Seq(FrameType) /\ Has(Call("arbiter"), {"arbiter"})
      BY CallSeq DEF Ops, Call, Frame, Has
    <3>2. CASE TimerIrq
      BY <3>1, <3>2 DEF TimerIrq
    <3>3. CASE IrqEnd
      <4>1. Rest \in Seq(FrameType) /\ stack' = Call("arbiter") \o Rest
        BY <1>2, <3>3 DEF IrqEnd, At, Rest
      <4>. QED BY <3>1, <4>1, HasConcat
    <3>. QED BY <1>8, <3>2, <3>3
  <2>. QED BY <1>1, <2>2, <2>3, ArbiterToCome DEF WakeInv
<1>9. CASE Leave \/ HookReturn
  <2>1. /\ Has(Rest, Arming) <=> Has(stack, Arming)
        /\ Has(Rest, {"arbiter", "irqEnd"}) <=> Has(stack, {"arbiter", "irqEnd"})
        /\ Has(Rest, {"expire", "rearm"}) <=> Has(stack, {"expire", "rearm"})
    <3>1. Top.op \in {"leave", "hook"} /\ ~Idle
      BY <1>9 DEF Leave, HookReturn, At, Idle
    <3>2. /\ Top.op \notin Arming /\ Top.op \notin {"arbiter", "irqEnd"}
          /\ Top.op \notin {"expire", "rearm"}
      BY <3>1 DEF Arming
    <3>. QED BY <1>2, <3>1, <3>2, HasRest
  <2>. QED BY <1>1, <1>9, <2>1, ReturnWake DEF WakeInv, Leave, HookReturn, planner
<1>10. CASE HookCall
  <2> DEFINE rest == <<Frame("hook", Top.h, Top.n - 1)>> \o Rest
  <2>1. rest \in Seq(FrameType)
    BY <1>2, <1>10, HookRest DEF HookCall
  <2>2. (\E k \in Offers : Enqueue(k, rest)) \/ (\E h \in Aborters : AbortTask(h, rest))
    BY <1>10 DEF HookCall
  <2> HIDE DEF rest
  <2>. QED BY <1>1, <2>1, <2>2, EnqueueWake, AbortTaskWake DEF WakeInv
<1>11. CASE MainEnqueue \/ MainAbort
  <2>1. <<>> \in Seq(FrameType)
    OBVIOUS
  <2>. QED BY <1>1, <1>11, <2>1, EnqueueWake, AbortTaskWake DEF WakeInv, MainEnqueue, MainAbort
<1>12. CASE ChipRaises
  BY <1>1, <1>12, ReturnWake DEF WakeInv, ChipRaises, planner
<1>13. CASE RadioIrq
  <2>1. CASE ServeIrq(IrqStatus, <<>>)
    BY <1>1, <2>1, ServeIrqWake DEF WakeInv
  <2>2. CASE UNCHANGED <<planner, alarm, chip, chipIrq, stack>>
    <3>1. /\ ~Has(stack, {"expire", "rearm"})
          /\ UNCHANGED <<tasks, radioTask, semaphore, alarm, stack>>
      BY <1>13, <2>2 DEF RadioIrq, Idle, Has, planner
    <3>2. AgeInv' /\ TimerInv'
      BY <3>1 DEF WakeInv, AgeInv, TimerInv
    <3>3. AsapInv'
      BY <3>1 DEF WakeInv, AsapInv, Running
    <3>. QED BY <1>1, <3>2, <3>3 DEF WakeInv
  <2>. QED BY <1>13, <2>1, <2>2 DEF RadioIrq
<1>14. CASE Tick
  BY <1>1, <1>14, TickWake DEF WakeInv
<1>15. CASE UNCHANGED vars
  BY <1>1, <1>15, ReturnWake DEF WakeInv, vars, planner
<1>. QED BY <1>3, <1>4, <1>5, <1>6, <1>7, <1>8, <1>9, <1>10, <1>11, <1>12, <1>13, <1>14, <1>15
         DEF Next, Planner, Environment

\* No wake-up is lost: when the planner is left, every scheduled task has its
\* timer and every ASAP task a timer or a running task to wait for.  The
\* hypothesis is that the callbacks of one activation last no longer than
\* RP_MARGIN_DELAY, which is what the margin is for.
THEOREM PlannerNoLostWakeup ==
  ASSUME MaxLag <= Margin
  PROVE  Spec => []NoLostWakeup
<1>1. Init => WakeInv
  <2>1. Init => RadioInv
    <3>1. Init => IrqInv /\ SemInv
      BY DEF Init, IrqInv, SemInv, NoIrq
    <3>. QED BY <3>1, InitInv DEF RadioInv
  <2>2. Init => AgeInv /\ TimerInv /\ AsapInv
    BY DEF Init, AgeInv, TimerInv, AsapInv
  <2>. QED BY <2>1, <2>2 DEF WakeInv
<1>2. WakeInv /\ [Next]_vars => WakeInv'
  BY WakeNext
<1>3. WakeInv => NoLostWakeup
  <2>1. Idle => ~Has(stack, Arming) /\ ~Has(stack, {"arbiter", "irqEnd"})
                /\ ~Has(stack, {"expire", "rearm"})
    BY DEF Idle, Has
  <2>. QED BY <2>1 DEF WakeInv, TimerInv, AsapInv, NoLostWakeup
<1>. QED BY <1>1, <1>2, <1>3, PTL DEF Spec

-----------------------------------------------------------------------------
(* The task of the first hook (TopTaskNeverLost).  It cannot be late: the       *)
(* arbiter selects before it only a task that ends before it starts, time       *)
(* passes only while such a task waits for its start or while the planner is    *)
(* idle and the timer is armed, and at its start it is selected.                *)

\* What the property asks of the instance: a timer that is served on time, callbacks
\* that take no time, and tasks that neither call back from their launch nor keep the
\* semaphore; the tasks of the first hook are of normal priority.
Plain == {"RX", "TX", "USER"}
TopAssumption ==
    /\ Latency = 0 /\ MaxLag = 0
    /\ \A k \in Offers : k.type \in Plain /\ (k.h = 0 => ~k.low)

\* The rank of the first hook's task is the best, and no other has it.
Fit(h, r) ==
    r.state \in Waiting \cup {"RUNNING"} =>
        /\ r.type \in Plain
        /\ h # 0 => r.prio # 0
        /\ h = 0 /\ r.state \in Waiting => ~r.low /\ (r.state = "SCHEDULE" => r.prio = 0)
FitTop ==
    /\ \A h \in Hooks : Fit(h, tasks[h])
    /\ chipIrq.kind \in {"NONE", "DONE"}
    /\ semaphore => Has(stack, {"irqEnd"})

\* The arbiter comes before any code that lets time pass or arms the timer.
Comes(s) ==
    \E i \in 1 .. Len(s) : /\ s[i].op \in {"arbiter", "irqEnd"}
                           /\ \A j \in 1 .. i - 1 : s[j].op \in {"hook", "collect", "leave"}

TopWaits == tasks[0].state = "SCHEDULE"
Due == tasks[0].due

\* The start of the first hook's task is not past, and it is now only if the timer has
\* expired or the arbiter comes.
DueTop == TopWaits => Due >= 0 /\ (Due = 0 => IF Idle THEN alarm <= 0 ELSE Comes(stack))

\* A task whose launch waits ends before the first hook's task starts.
LaunchTop == At("launch") /\ TopWaits => End(tasks[radioTask]) < Due

\* If the arbiter is about to give up the first hook's task, the running one ends before
\* it starts, no more than the margin before.
ExpireTop ==
    \A i \in 1 .. Len(stack) :
        stack[i].op = "expire" =>
            /\ i = 1 \/ (i = 2 /\ At("launch"))
            /\ TopWaits /\ priorityHook # 0 /\ Due + (lag - stack[i].n) < Margin =>
                 /\ Running(tasks) /\ radioTask # 0
                 /\ End(tasks[radioTask]) \in Due - Margin .. Due - 1

TopInv == FitTop /\ DueTop /\ LaunchTop /\ ExpireTop

\* What holds at first and is passed on holds up to any number.
LEMMA UpTo ==
  ASSUME NEW n \in Nat, NEW S, 0 \in S, \A k \in 1 .. n : k - 1 \in S => k \in S
  PROVE  0 .. n \subseteq S
<1> DEFINE T == (0 .. n) \ S
<1> SUFFICES ASSUME T # {} PROVE FALSE
  OBVIOUS
<1>1. T \subseteq Nat
  OBVIOUS
<1>2. PICK m \in T : \A k \in T : m <= k
  <2> HIDE DEF T
  <2>. QED BY <1>1, LeastNat
<1>3. m \in 1 .. n /\ m - 1 \in 0 .. n
  BY <1>2
<1>4. m - 1 \notin T
  <2> HIDE DEF T
  <2>. QED BY <1>2, <1>3
<1>. QED BY <1>2, <1>3, <1>4

\* The loop of rp_task_select_next, from the best rank to the worst.
Loop(f, t, n) ==
    f = [rank \in 0 .. n |-> Retained(t, IF rank = 0 THEN NoHook ELSE f[rank - 1], rank)]
LEMMA SelectLoops ==
  ASSUME NEW t
  PROVE  \E f : Loop(f, t, 2 * NbHooks - 1) /\ SelectNext(t) = f[2 * NbHooks - 1]
<1> DEFINE n == 2 * NbHooks - 1
           S == {m \in 0 .. n : \E f : Loop(f, t, m)}
           g == CHOOSE f : Loop(f, t, n)
<1>1. n \in Nat
  OBVIOUS
<1>2. SelectNext(t) = g[n]
  BY DEF SelectNext, Loop
<1> HIDE DEF n
<1>3. 0 \in S
  <2>1. Loop([rank \in 0 .. 0 |-> Retained(t, NoHook, 0)], t, 0)
    BY DEF Loop
  <2>. QED BY <1>1, <2>1
<1>4. ASSUME NEW m \in 1 .. n, m - 1 \in S PROVE m \in S
  <2>1. PICK f : Loop(f, t, m - 1)
    BY <1>4
  <2> DEFINE Next1(e, k) == Retained(t, IF k = 0 THEN NoHook ELSE e[k - 1], k)
             e2 == [k \in 0 .. m |-> IF k = m THEN Next1(f, m) ELSE f[k]]
  <2>2. ASSUME NEW k \in 0 .. m PROVE e2[k] = Next1(e2, k)
    <3>1. CASE k = m
      <4>1. m # 0 /\ m - 1 # m /\ m - 1 \in 0 .. m
        OBVIOUS
      <4>. QED BY <3>1, <4>1
    <3>2. CASE k # m
      <4>1. k \in 0 .. m - 1 /\ (k # 0 => k - 1 \in 0 .. m /\ k - 1 # m)
        BY <3>2
      <4>2. f[k] = Next1(f, k)
        BY <2>1, <4>1 DEF Loop
      <4>. QED BY <3>2, <4>1, <4>2
    <3>. QED BY <3>1, <3>2
  <2>3. e2 = [k \in 0 .. m |-> e2[k]]
    OBVIOUS
  <2> HIDE DEF e2
  <2>4. Loop(e2, t, m)
    BY <2>2, <2>3 DEF Loop
  <2>. QED BY <2>4
<1> HIDE DEF S
<1>5. 0 .. n \subseteq S
  BY <1>1, <1>3, <1>4, UpTo
<1>6. \E f : Loop(f, t, n)
  BY <1>1, <1>5 DEF S
<1>7. Loop(g, t, n)
  <2> HIDE DEF Loop
  <2>. QED BY <1>6
<1>. QED BY <1>2, <1>7 DEF n

\* The first hook's task has the best rank: what is selected before it ends, from now on,
\* before it starts.
LEMMA SelectTop ==
  ASSUME NEW t \in TaskTable, 0 \in Eligible(t), t[0].prio = 0,
         \A h \in Eligible(t) : h # 0 => t[h].prio # 0
  PROVE  \/ SelectNext(t) = 0
         \/ End(t[SelectNext(t)]) >= 0 /\ End(t[SelectNext(t)]) < t[0].due
<1> DEFINE n == 2 * NbHooks - 1
           Ahead(h) == h = 0 \/ (End(t[h]) >= 0 /\ End(t[h]) < t[0].due)
<1>1. PICK f : Loop(f, t, n) /\ SelectNext(t) = f[n]
  BY SelectLoops
<1> DEFINE S == {rank \in 0 .. n : f[rank] \in Hooks /\ Ahead(f[rank])}
<1>2. n \in Nat
  OBVIOUS
<1>3. \A rank \in 0 .. n : f[rank] = Retained(t, IF rank = 0 THEN NoHook ELSE f[rank - 1], rank)
  <2> HIDE DEF n
  <2>. QED BY <1>1 DEF Loop
<1> HIDE DEF n
<1>4. Eligible(t) \subseteq Hooks /\ NoHook \notin Hooks /\ 0 \in Hooks
  BY DEF Eligible, Startable, Hooks, NoHook
<1>5. 0 \in S
  <2>1. Ranked(t, 0) = {0}
    BY DEF Ranked
  <2>2. f[0] = 0
    BY <1>2, <1>3, <2>1 DEF Retained, Better
  <2>. QED BY <1>2, <1>4, <2>2
<1>6. ASSUME NEW rank \in 1 .. n, rank - 1 \in S PROVE rank \in S
  <2> DEFINE b == f[rank - 1]
             h == CHOOSE g \in Ranked(t, rank) : TRUE
  <2>1. b \in Hooks /\ b # NoHook /\ Ahead(b)
    BY <1>4, <1>6
  <2>2. rank \in 0 .. n /\ rank # 0
    BY <1>2
  <2>3. f[rank] = Retained(t, b, rank)
    BY <1>3, <2>2
  <2>4. CASE f[rank] = b
    BY <1>6, <2>2, <2>4
  <2>5. CASE f[rank] # b
    <3>1. Ranked(t, rank) # {} /\ f[rank] = h /\ EndsBefore(t, h, b)
      BY <2>1, <2>3, <2>5 DEF Retained, Better
    <3>2. h \in Hooks
      BY <1>4, <3>1 DEF Ranked
    <3> HIDE DEF h, b
    <3>3. t[h] \in TaskType /\ t[b] \in TaskType /\ t[0] \in TaskType
      BY <1>4, <2>1, <3>2 DEF TaskTable
    <3>4. /\ t[h].due \in Int /\ t[h].dur \in Nat /\ t[b].due \in Int /\ t[b].dur \in Nat
          /\ t[0].due \in Int
      BY <3>3 DEF TaskType, Floor
    <3>5. End(t[h]) < t[b].due /\ End(t[h]) >= 0
      BY <3>1 DEF EndsBefore
    <3>6. b = 0 \/ t[b].due < t[0].due
      BY <2>1, <3>4 DEF End
    <3>7. Ahead(h)
      BY <3>4, <3>5, <3>6 DEF End
    <3>. QED BY <2>2, <3>1, <3>2, <3>7
  <2>. QED BY <2>4, <2>5
<1> HIDE DEF S
<1>7. 0 .. n \subseteq S
  BY <1>2, <1>5, <1>6, UpTo
<1>8. n \in S
  BY <1>2, <1>7
<1>. QED BY <1>1, <1>8 DEF S

\* Code that comes.
LEMMA ComesFirst ==
  ASSUME NEW s \in Seq(FrameType), NEW r \in Seq(FrameType), Comes(s)
  PROVE  Comes(s \o r)
<1>1. PICK i \in 1 .. Len(s) : /\ s[i].op \in {"arbiter", "irqEnd"}
                               /\ \A j \in 1 .. i - 1 : s[j].op \in {"hook", "collect", "leave"}
  BY DEF Comes
<1>2. i \in 1 .. Len(s \o r) /\ \A j \in 1 .. i : (s \o r)[j] = s[j]
  BY <1>1
<1>3. i \in 1 .. i /\ \A j \in 1 .. i - 1 : j \in 1 .. i
  BY <1>1
<1>. QED BY <1>1, <1>2, <1>3 DEF Comes

LEMMA ComesAfter ==
  ASSUME NEW s \in Seq(FrameType), NEW r \in Seq(FrameType), Comes(r),
         \A j \in 1 .. Len(s) : s[j].op \in {"hook", "collect", "leave"}
  PROVE  Comes(s \o r)
<1>1. PICK i \in 1 .. Len(r) : /\ r[i].op \in {"arbiter", "irqEnd"}
                               /\ \A j \in 1 .. i - 1 : r[j].op \in {"hook", "collect", "leave"}
  BY DEF Comes
<1> DEFINE l == Len(s)
           p == s \o r
<1>2. l \in Nat /\ Len(p) = l + Len(r) /\ Len(r) \in Nat
  OBVIOUS
<1>3. /\ \A j \in 1 .. l : p[j] = s[j]
      /\ \A j \in 1 .. Len(r) : p[l + j] = r[j]
  OBVIOUS
<1> HIDE DEF p, l
<1>4. l + i \in 1 .. Len(p) /\ p[l + i].op \in {"arbiter", "irqEnd"}
  BY <1>1, <1>2, <1>3
<1>5. ASSUME NEW j \in 1 .. (l + i) - 1 PROVE p[j].op \in {"hook", "collect", "leave"}
  <2>1. CASE j <= l
    <3>1. j \in 1 .. l
      BY <1>2, <2>1
    <3>. QED BY <1>3, <3>1 DEF l
  <2>2. CASE j > l
    <3>1. j - l \in 1 .. i - 1 /\ j - l \in 1 .. Len(r) /\ l + (j - l) = j
      BY <1>1, <1>2, <2>2
    <3>. QED BY <1>1, <1>3, <3>1
  <2>. QED BY <1>2, <2>1, <2>2
<1>. QED BY <1>4, <1>5 DEF Comes, p

LEMMA ComesRest ==
  ASSUME stack \in Seq(FrameType), ~Idle, Comes(stack), Top.op \notin {"arbiter", "irqEnd"}
  PROVE  Top.op \in {"hook", "collect", "leave"} /\ Comes(Rest)
<1>1. PICK i \in 1 .. Len(stack) :
         /\ stack[i].op \in {"arbiter", "irqEnd"}
         /\ \A j \in 1 .. i - 1 : stack[j].op \in {"hook", "collect", "leave"}
  BY DEF Comes
<1>2. /\ Rest \in Seq(FrameType) /\ Len(Rest) = Len(stack) - 1 /\ Len(stack) \in Nat
      /\ \A j \in 1 .. Len(Rest) : Rest[j] = stack[j + 1]
      /\ Top = stack[1]
  BY DEF Rest, Idle, Top
<1>3. i # 1 /\ 1 \in 1 .. i - 1
  BY <1>1, <1>2
<1>4. i - 1 \in 1 .. Len(Rest) /\ (i - 1) + 1 = i
  BY <1>1, <1>2, <1>3
<1>5. ASSUME NEW j \in 1 .. (i - 1) - 1 PROVE Rest[j].op \in {"hook", "collect", "leave"}
  <2>1. j + 1 \in 1 .. i - 1 /\ j \in 1 .. Len(Rest)
    BY <1>1, <1>2
  <2>. QED BY <1>1, <1>2, <2>1
<1>. QED BY <1>1, <1>2, <1>3, <1>4, <1>5 DEF Comes

LEMMA ComesCall ==
  /\ Comes(Call("arbiter"))
  /\ \A h, n : Comes(<<Frame("hook", h, n), Frame("collect", NoHook, 0),
                       Frame("irqEnd", NoHook, 0)>>)
<1>1. Comes(Call("arbiter"))
  <2>1. Len(Call("arbiter")) = 1 /\ Call("arbiter")[1].op = "arbiter"
    BY DEF Call, Frame
  <2>2. \A j \in 1 .. 1 - 1 : FALSE
    OBVIOUS
  <2>. QED BY <2>1, <2>2 DEF Comes
<1>2. ASSUME NEW h, NEW n
      PROVE  Comes(<<Frame("hook", h, n), Frame("collect", NoHook, 0),
                     Frame("irqEnd", NoHook, 0)>>)
  <2> DEFINE s == <<Frame("hook", h, n), Frame("collect", NoHook, 0),
                    Frame("irqEnd", NoHook, 0)>>
  <2>1. Len(s) = 3 /\ s[1].op = "hook" /\ s[2].op = "collect" /\ s[3].op = "irqEnd"
    BY DEF Frame
  <2> HIDE DEF s
  <2>2. 3 \in 1 .. Len(s) /\ \A j \in 1 .. 3 - 1 : j = 1 \/ j = 2
    BY <2>1
  <2>3. Comes(s)
    BY <2>1, <2>2 DEF Comes
  <2>. QED BY <2>3 DEF s
<1>. QED BY <1>1, <1>2

\* ... and it is there.
LEMMA ComesThere ==
  ASSUME NEW s, Comes(s)
  PROVE  s # <<>>
<1>1. \E i \in 1 .. Len(s) : TRUE
  BY DEF Comes
<1>. QED BY <1>1

\* At the launch callback, the expired timer or the arming no arbiter comes first.
LEMMA ComesNow ==
  ASSUME stack \in Seq(FrameType), tasks \in TaskTable, ~Idle, DueTop, TopWaits,
         Top.op \in {"launch", "expire", "rearm"}
  PROVE  Due > 0
<1>1. Due >= 0 /\ Due # 0
  <2>1. Due = 0 => Comes(stack)
    BY DEF DueTop
  <2>2. Top.op \notin {"arbiter", "irqEnd"} /\ Top.op \notin {"hook", "collect", "leave"}
    OBVIOUS
  <2>. QED BY <2>1, <2>2, ComesRest DEF DueTop
<1>2. Due \in Int
  <2>1. 0 \in Hooks
    BY DEF Hooks
  <2>. QED BY <2>1 DEF TaskTable, TaskType, Floor, Due
<1> HIDE DEF Due
<1>. QED BY <1>1, <1>2

\* A stack without a launch callback or an arbiter that waits for one.
Clean(s) == s \in Seq(FrameType) /\ ~Has(s, {"launch", "expire"})

LEMMA CleanTop ==
  ASSUME Clean(stack')
  PROVE  LaunchTop' /\ ExpireTop'
<1>1. stack' \in Seq(FrameType)
      /\ \A i \in 1 .. Len(stack') : stack'[i].op # "launch" /\ stack'[i].op # "expire"
  BY DEF Clean, Has
<1>2. ~At("launch")'
  <2>1. stack' # <<>> => 1 \in 1 .. Len(stack') /\ Head(stack') = stack'[1]
    BY <1>1
  <2>. QED BY <1>1, <2>1 DEF At, Top
<1>. QED BY <1>1, <1>2 DEF LaunchTop, ExpireTop

LEMMA CleanRest ==
  ASSUME IInv, TopInv, ~Idle, Top.op # "launch"
  PROVE  Clean(Rest)
<1>1. stack \in Seq(FrameType) /\ stack # <<>> /\ NoLaunch(Rest)
  BY DEF IInv, TypeOK, Idle, LaunchOnTop
<1>2. /\ Rest \in Seq(FrameType) /\ Len(Rest) = Len(stack) - 1 /\ Len(stack) \in Nat
      /\ \A i \in 1 .. Len(Rest) : Rest[i] = stack[i + 1]
  BY <1>1 DEF Rest
<1>3. ~At("launch")
  BY DEF At
<1>4. ASSUME NEW i \in 1 .. Len(Rest) PROVE Rest[i].op \notin {"launch", "expire"}
  <2>1. i + 1 \in 1 .. Len(stack) /\ i + 1 # 1 /\ Rest[i] = stack[i + 1]
    BY <1>2
  <2>2. stack[i + 1].op # "expire"
    BY <1>3, <2>1 DEF TopInv, ExpireTop
  <2>. QED BY <1>1, <2>1, <2>2 DEF NoLaunch
<1>. QED BY <1>2, <1>4 DEF Clean, Has

LEMMA CleanConcat ==
  ASSUME NEW s, NEW r, Clean(s), Clean(r)
  PROVE  Clean(s \o r)
<1>1. s \in Seq(FrameType) /\ r \in Seq(FrameType) /\ s \o r \in Seq(FrameType)
  BY DEF Clean
<1>. QED BY <1>1, HasConcat DEF Clean

LEMMA CleanCall ==
  /\ \A op \in Ops \ {"launch", "expire"} : Clean(Call(op))
  /\ \A h \in Hooks, n \in Nat : Clean(<<Frame("hook", h, n)>>)
  /\ Clean(<<>>)
<1>1. NoHook \in Hooks \cup {NoHook} /\ 0 \in Nat
  OBVIOUS
<1>2. ASSUME NEW op \in Ops \ {"launch", "expire"} PROVE Clean(Call(op))
  BY <1>1, <1>2, HasCall DEF Clean
<1>3. ASSUME NEW h \in Hooks, NEW n \in Nat PROVE Clean(<<Frame("hook", h, n)>>)
  <2>1. "hook" \in Ops
    BY DEF Ops
  <2>. QED BY <2>1, HasCall DEF Clean
<1>4. Clean(<<>>)
  BY DEF Clean, Has
<1>. QED BY <1>2, <1>3, <1>4

\* A step after which every task that waits or runs was there before.
LEMMA FitKept ==
  ASSUME FitTop, \A h \in Hooks : \/ tasks'[h] = tasks[h]
                                  \/ tasks'[h].state \notin Waiting \cup {"RUNNING"},
         chipIrq' = chipIrq \/ chipIrq' = NoIrq,
         semaphore' => Has(stack', {"irqEnd"})
  PROVE  FitTop'
<1>1. \A h \in Hooks : Fit(h, tasks'[h])
  BY DEF FitTop, Fit
<1>2. chipIrq'.kind \in {"NONE", "DONE"}
  BY DEF FitTop, NoIrq
<1>. QED BY <1>1, <1>2 DEF FitTop

\* The first hook's task as it was, and the arbiter still to come.
LEMMA DueKept ==
  ASSUME DueTop, TopWaits' => tasks'[0] = tasks[0],
         TopWaits /\ Due = 0 => Comes(stack')
  PROVE  DueTop'
<1>1. TopWaits' => TopWaits /\ Due' = Due
  BY DEF TopWaits, Due
<1>2. Comes(stack') => ~Idle'
  BY ComesThere DEF Idle
<1>. QED BY <1>1, <1>2 DEF DueTop

\* What the code below a call of the planner must be like.
Below(rest) ==
    /\ Clean(rest)
    /\ semaphore => Has(rest, {"irqEnd"})
    /\ TopWaits /\ Due = 0 /\ semaphore => Comes(rest)

\* The stack of a call that returns through the arbiter, unless the semaphore is taken.
LEMMA CallTop ==
  ASSUME NEW rest, Below(rest), UNCHANGED semaphore,
         stack' = (IF semaphore THEN <<>> ELSE Call("arbiter")) \o Call("leave") \o rest
  PROVE  /\ Clean(stack')
         /\ semaphore' => Has(stack', {"irqEnd"})
         /\ TopWaits /\ Due = 0 => Comes(stack')
<1> DEFINE call == IF semaphore THEN <<>> ELSE Call("arbiter")
<1>1. Clean(call) /\ Clean(Call("leave")) /\ Clean(rest)
  BY CleanCall DEF Ops, Below
<1> DEFINE front == call \o Call("leave")
<1>2. /\ call \in Seq(FrameType) /\ Call("leave") \in Seq(FrameType)
      /\ rest \in Seq(FrameType) /\ front \in Seq(FrameType)
  BY <1>1 DEF Clean
<1>3. /\ semaphore => front = Call("leave")
      /\ ~semaphore => Comes(call)
  <2>1. <<>> \o Call("leave") = Call("leave")
    BY DEF Call, Frame
  <2>. QED BY <2>1, ComesCall
<1>4. stack' = front \o rest
  OBVIOUS
<1> HIDE DEF call
<1>5. Clean(front)
  BY <1>1, CleanConcat
<1>6. ~semaphore => Comes(front)
  BY <1>2, <1>3, ComesFirst
<1> HIDE DEF front
<1>7. Clean(stack')
  BY <1>1, <1>4, <1>5, CleanConcat
<1>8. semaphore' => Has(stack', {"irqEnd"})
  BY <1>2, <1>4, HasConcat DEF Below
<1>9. TopWaits /\ Due = 0 => Comes(stack')
  <2>1. CASE semaphore /\ TopWaits /\ Due = 0
    <3>1. \A j \in 1 .. Len(Call("leave")) : Call("leave")[j].op \in {"hook", "collect", "leave"}
      BY DEF Call, Frame
    <3>2. Comes(rest)
      BY <2>1 DEF Below
    <3>3. front = Call("leave")
      BY <1>3, <2>1
    <3>. QED BY <1>2, <1>4, <3>1, <3>2, <3>3, ComesAfter
  <2>2. CASE ~semaphore
    BY <1>2, <1>4, <1>6, <2>2, ComesFirst
  <2>. QED BY <2>1, <2>2
<1>. QED BY <1>7, <1>8, <1>9

\* rp_task_enqueue: the new task of the first hook starts later than now.
LEMMA EnqueueTop ==
  ASSUME TopAssumption, IInv, TopInv, NEW k \in Offers, NEW rest, Below(rest), Enqueue(k, rest)
  PROVE  TopInv'
<1>1. /\ k \in Offer /\ k.h \in Hooks /\ k.type \in Plain /\ (k.h = 0 => ~k.low)
      /\ tasks \in [Hooks -> TaskType] /\ 0 \in Hooks
  BY DEF Offer, TopAssumption, IInv, TypeOK, Hooks
<1> DEFINE task == [state |-> k.state, type |-> k.type, due |-> k.due,
                    age |-> IF k.state = "ASAP" THEN 0 - k.due ELSE 0,
                    dur |-> k.dur, prio |-> Priority(k.h, k.state, k.low), low |-> k.low]
<1>2. tasks' = [tasks EXCEPT ![k.h] = task]
  BY DEF Enqueue
<1>3. /\ task.type \in Plain /\ task.state \in Waiting
      /\ task.due = k.due /\ task.low = k.low /\ task.state = k.state
      /\ task.prio = Priority(k.h, k.state, k.low)
  BY <1>1 DEF Offer
<1> HIDE DEF task
<1>4. Fit(k.h, task)
  <2>1. k.h \in Nat /\ NbHooks \in Nat \ {0}
    BY <1>1 DEF Hooks
  <2>2. k.h # 0 => task.prio # 0
    BY <1>3, <2>1 DEF Priority
  <2>3. k.h = 0 => ~task.low /\ (task.state = "SCHEDULE" => task.prio = 0)
    BY <1>1, <1>3, <2>1 DEF Priority
  <2>. QED BY <1>3, <2>2, <2>3 DEF Fit
<1>5. tasks'[k.h] = task /\ \A h \in Hooks : h # k.h => tasks'[h] = tasks[h]
  BY <1>1, <1>2
<1>6. UNCHANGED <<semaphore, chipIrq>>
  BY DEF Enqueue, radio
<1>7. /\ Clean(stack')
      /\ semaphore' => Has(stack', {"irqEnd"})
      /\ TopWaits /\ Due = 0 => Comes(stack')
  BY <1>6, CallTop DEF Enqueue
<1>8. FitTop'
  <2>1. \A h \in Hooks : Fit(h, tasks'[h])
    BY <1>4, <1>5 DEF TopInv, FitTop
  <2>. QED BY <1>6, <1>7, <2>1 DEF TopInv, FitTop
<1>9. DueTop'
  <2>1. CASE k.h = 0
    <3>1. k.state = "SCHEDULE" => k.due > 0 /\ k.due \in Nat
      BY <1>1 DEF Enqueue, Accepted, Offer
    <3>2. TopWaits' => Due' > 0 /\ Due' \in Nat
      BY <1>3, <1>5, <2>1, <3>1 DEF TopWaits, Due
    <3>3. TopWaits' => Due' >= 0 /\ Due' # 0
      BY <3>2
    <3>. QED BY <3>3 DEF DueTop
  <2>2. CASE k.h # 0
    BY <1>1, <1>5, <1>7, <2>2, DueKept DEF TopInv
  <2>. QED BY <2>1, <2>2
<1>. QED BY <1>7, <1>8, <1>9, CleanTop DEF TopInv

\* The result that rp_radio_irq reads for a plain task ends it.
LEMMA PlainEnds ==
  ASSUME IInv, TopInv, tasks[radioTask].state \in Waiting \cup {"RUNNING"}
  PROVE  LET ends == <<Frame("hook", radioTask, HookCalls), Frame("collect", NoHook, 0),
                       Frame("irqEnd", NoHook, 0)>>
         IN  /\ AfterIrq(IrqStatus) = ends /\ EndsTask(IrqStatus)
             /\ Clean(ends) /\ Comes(ends) /\ Has(ends, {"irqEnd"})
             /\ ClearedIrq = NoIrq
<1> DEFINE ends == <<Frame("hook", radioTask, HookCalls), Frame("collect", NoHook, 0),
                     Frame("irqEnd", NoHook, 0)>>
<1>1. radioTask \in Hooks /\ tasks[radioTask].type \in Plain /\ chipIrq.kind \in {"NONE", "DONE"}
  BY DEF IInv, TypeOK, TopInv, FitTop, Fit
<1>2. tasks[radioTask].type # "LBT"
  BY <1>1 DEF Plain
<1>3. IrqStatus \in {"ABORTED", "DONE"} /\ ClearedIrq = NoIrq
  BY <1>1, <1>2 DEF IrqStatus, ClearedIrq
<1>4. AfterIrq(IrqStatus) = ends
  BY <1>3 DEF AfterIrq
<1>5. "irqEnd" \in {f.op : f \in ToSet(ends)}
  <2>1. 3 \in DOMAIN ends /\ ends[3].op = "irqEnd"
    BY DEF Frame
  <2>. QED BY <2>1 DEF ToSet
<1>6. Comes(ends)
  BY ComesCall
<1>7. /\ Len(ends) = 3 /\ ends[1].op = "hook" /\ ends[2].op = "collect"
      /\ ends[3].op = "irqEnd"
  BY DEF Frame
<1>8. ends \in Seq(FrameType)
  <2>1. AfterIrq(IrqStatus) \in Seq(FrameType)
    BY EndsUnless
  <2> HIDE DEF ends
  <2>. QED BY <1>4, <2>1
<1> HIDE DEF ends
<1>9. EndsTask(IrqStatus)
  BY <1>4, <1>5 DEF EndsTask
<1>10. Clean(ends)
  <2>1. \A i \in 1 .. 3 : i = 1 \/ i = 2 \/ i = 3
    OBVIOUS
  <2>. QED BY <1>7, <1>8, <2>1 DEF Clean, Has
<1>11. Has(ends, {"irqEnd"})
  <2>1. 3 \in 1 .. Len(ends)
    BY <1>7
  <2>. QED BY <1>7, <2>1 DEF Has
<1>. QED BY <1>3, <1>4, <1>6, <1>9, <1>10, <1>11 DEF ends

\* rp_radio_irq.
LEMMA ServeIrqTop ==
  ASSUME IInv, TopInv, NEW rest, Clean(rest), ServeIrq(IrqStatus, rest)
  PROVE  TopInv'
<1> DEFINE ends == <<Frame("hook", radioTask, HookCalls), Frame("collect", NoHook, 0),
                     Frame("irqEnd", NoHook, 0)>>
<1>1. tasks[radioTask].state \in Waiting \cup {"RUNNING"}
  BY DEF ServeIrq
<1>2. /\ AfterIrq(IrqStatus) = ends /\ EndsTask(IrqStatus)
      /\ Clean(ends) /\ Comes(ends) /\ Has(ends, {"irqEnd"})
      /\ ClearedIrq = NoIrq
  BY <1>1, PlainEnds
<1> HIDE DEF ends
<1>3. /\ tasks' = [tasks EXCEPT ![radioTask] = TaskFree(tasks[radioTask])]
      /\ chipIrq' = NoIrq /\ stack' = ends \o rest
  BY <1>2 DEF ServeIrq
<1>4. tasks \in TaskTable /\ radioTask \in Hooks /\ 0 \in Hooks
  BY DEF IInv, TypeOK, TaskTable, Hooks
<1>5. ends \in Seq(FrameType) /\ rest \in Seq(FrameType)
  BY <1>2 DEF Clean
<1>6. Clean(stack') /\ Comes(stack') /\ Has(stack', {"irqEnd"})
  BY <1>2, <1>3, <1>5, CleanConcat, ComesFirst, HasConcat
<1>7. TaskFree(tasks[radioTask]).state = "FINISHED"
  BY <1>4, TaskFreeType DEF TaskTable
<1>8. \A h \in Hooks : \/ tasks'[h] = tasks[h]
                       \/ tasks'[h].state = "FINISHED"
  BY <1>3, <1>4, <1>7 DEF TaskTable
<1>9. FitTop'
  <2>1. \A h \in Hooks : tasks'[h] = tasks[h] \/ tasks'[h].state \notin Waiting \cup {"RUNNING"}
    BY <1>8 DEF Waiting
  <2>. QED BY <1>3, <1>6, <2>1, FitKept DEF TopInv
<1>10. DueTop'
  <2>1. TopWaits' => tasks'[0] = tasks[0]
    BY <1>4, <1>8 DEF TopWaits
  <2>. QED BY <1>6, <2>1, DueKept DEF TopInv
<1>. QED BY <1>6, <1>9, <1>10, CleanTop DEF TopInv

\* rp_task_abort.
LEMMA AbortTaskTop ==
  ASSUME IInv, TopInv, NEW h \in Hooks, NEW rest, Below(rest), AbortTask(h, rest)
  PROVE  TopInv'
<1>1. CASE tasks[h].state = "RUNNING"
  <2>1. ServeIrq(IrqStatus, Call("leave") \o rest)
    BY <1>1 DEF AbortTask, Waiting
  <2>2. Clean(Call("leave") \o rest)
    BY CleanCall, CleanConcat DEF Below, Ops
  <2>. QED BY <2>1, <2>2, ServeIrqTop
<1>2. CASE tasks[h].state # "RUNNING"
  <2>1. /\ tasks' = Abort(tasks, {h})
        /\ stack' = (IF semaphore THEN <<>> ELSE Call("arbiter")) \o Call("leave") \o rest
        /\ UNCHANGED <<semaphore, chipIrq>>
    BY <1>2 DEF AbortTask, radio
  <2>2. tasks \in TaskTable /\ 0 \in Hooks
    BY DEF IInv, TypeOK, TaskTable, Hooks
  <2>3. /\ tasks'[h].state = "ABORTED"
        /\ \A g \in Hooks : g # h => tasks'[g] = tasks[g]
    BY <2>1, <2>2, AbortTable
  <2>4. /\ Clean(stack')
        /\ semaphore' => Has(stack', {"irqEnd"})
        /\ TopWaits /\ Due = 0 => Comes(stack')
    BY <2>1, CallTop
  <2>5. FitTop'
    <3>1. "ABORTED" \notin Waiting \cup {"RUNNING"}
      BY DEF Waiting
    <3>. QED BY <2>1, <2>3, <2>4, <3>1, FitKept DEF TopInv
  <2>6. DueTop'
    <3>1. TopWaits' => tasks'[0] = tasks[0]
      BY <2>2, <2>3 DEF TopWaits
    <3>. QED BY <2>4, <3>1, DueKept DEF TopInv
  <2>. QED BY <2>4, <2>5, <2>6, CleanTop DEF TopInv
<1>. QED BY <1>1, <1>2

\* rp_task_update_time and the garbage collector leave the first hook's scheduled task
\* alone, and an ASAP task of that hook that becomes a scheduled one gets the best rank.
LEMMA UpdateTop ==
  ASSUME IInv, FitTop, NEW t, t = AbortPast(UpdateTime(tasks))
  PROVE  /\ \A h \in Hooks : Fit(h, t[h])
         /\ TopWaits /\ Due >= 0 => t[0] = tasks[0]
         /\ t[0].state = "SCHEDULE" => t[0].due >= 0 /\ 0 \in Eligible(t)
<1> DEFINE u == UpdateTime(tasks)
<1>1. tasks \in TaskTable /\ u \in TaskTable /\ radioTask \in Hooks /\ 0 \in Hooks
  BY UpdateTable DEF IInv, TypeOK, TaskTable, Hooks
<1>2. ASSUME NEW h \in Hooks
      PROVE  Fit(h, u[h]) /\ (h = 0 /\ tasks[h].state = "SCHEDULE" => u[h] = tasks[h])
  <2>1. tasks[h] \in TaskType /\ Fit(h, tasks[h])
    BY <1>1 DEF TaskTable, FitTop
  <2>2. u[h] = IF TooOld(tasks[h])
          THEN [tasks[h] EXCEPT !.state = "SCHEDULE", !.due = Resched, !.age = 0,
                            !.prio = Priority(h, "SCHEDULE", tasks[h].low)]
        ELSE IF tasks[h].state = "ASAP" /\ tasks[h].age > 0
          THEN [tasks[h] EXCEPT !.due = 0]
        ELSE IF h = radioTask /\ Running(tasks) /\ tasks[h].type = "RX"
          THEN [tasks[h] EXCEPT !.dur = Margin + 2 - tasks[h].due]
        ELSE tasks[h]
    BY Zenon DEF UpdateTime
  <2>3. CASE TooOld(tasks[h])
    <3> DEFINE p == Priority(h, "SCHEDULE", tasks[h].low)
               r1 == [tasks[h] EXCEPT !.state = "SCHEDULE"]
               r2 == [r1 EXCEPT !.due = Resched]
               r3 == [r2 EXCEPT !.age = 0]
               r4 == [r3 EXCEPT !.prio = p]
    <3>1. tasks[h].state = "ASAP" /\ tasks[h].state \in Waiting
      BY <2>3 DEF TooOld, Waiting
    <3>2. u[h] = r4
      BY <2>2, <2>3, Zenon
    <3>3. (h # 0 => p # 0) /\ (h = 0 /\ ~tasks[h].low => p = 0)
      BY DEF Priority, Hooks
    <3> HIDE DEF p
    <3>4. r4.type = tasks[h].type /\ r4.low = tasks[h].low /\ r4.prio = p
      BY <2>1 DEF TaskType
    <3> HIDE DEF r4
    <3>5. Fit(h, u[h])
      BY <2>1, <3>1, <3>2, <3>3, <3>4 DEF Fit
    <3>. QED BY <3>1, <3>5
  <2>4. CASE ~TooOld(tasks[h]) /\ tasks[h].state = "ASAP" /\ tasks[h].age > 0
    <3>1. u[h] = [tasks[h] EXCEPT !.due = 0]
      BY <2>2, <2>4
    <3>. QED BY <2>1, <2>4, <3>1 DEF Fit, TaskType
  <2>5. CASE /\ ~TooOld(tasks[h]) /\ ~(tasks[h].state = "ASAP" /\ tasks[h].age > 0)
             /\ h = radioTask /\ Running(tasks) /\ tasks[h].type = "RX"
    <3>1. u[h] = [tasks[h] EXCEPT !.dur = Margin + 2 - tasks[h].due]
      BY <2>2, <2>5
    <3>2. tasks[h].state = "RUNNING"
      BY <2>5 DEF Running
    <3>. QED BY <2>1, <3>1, <3>2 DEF Fit, TaskType
  <2>6. CASE u[h] = tasks[h]
    BY <2>1, <2>6
  <2>. QED BY <2>2, <2>3, <2>4, <2>5, <2>6
<1>3. t = AbortPast(u)
  OBVIOUS
<1> HIDE DEF u
<1> DEFINE S == {h \in Hooks : u[h].state = "SCHEDULE" /\ u[h].due < 0}
<1>4. t = Abort(u, S)
  BY <1>3 DEF AbortPast
<1>5. 0 \in S => u[0].state = "SCHEDULE" /\ u[0].due < 0
  OBVIOUS
<1>6. t \in TaskTable /\ (t[0].state = "SCHEDULE" => t[0].due >= 0)
  BY <1>1, <1>3, PastTable
<1> HIDE DEF S
<1>7. \A h \in Hooks : IF h \in S THEN t[h].state = "ABORTED" ELSE t[h] = u[h]
  BY <1>1, <1>4, AbortTable
<1>8. \A h \in Hooks : Fit(h, t[h])
  BY <1>2, <1>7 DEF Fit, Waiting
<1>9. TopWaits /\ Due >= 0 => t[0] = tasks[0]
  <2>1. tasks[0].due \in Int
    BY <1>1 DEF TaskTable, TaskType, Floor
  <2>2. ASSUME TopWaits, Due >= 0 PROVE t[0] = tasks[0]
    <3>1. u[0] = tasks[0]
      BY <1>1, <1>2, <2>2 DEF TopWaits
    <3>2. 0 \notin S
      BY <1>5, <2>1, <2>2, <3>1 DEF Due
    <3>. QED BY <1>1, <1>7, <3>1, <3>2
  <2>. QED BY <2>2
<1>10. t[0].state = "SCHEDULE" => 0 \in Eligible(t)
  BY <1>1, <1>6 DEF Eligible, Startable, Waiting
<1>. QED BY <1>6, <1>8, <1>9, <1>10

\* A piece of code pushed on another.
LEMMA Pushed ==
  ASSUME NEW s \in Seq(FrameType), NEW r \in Seq(FrameType)
  PROVE  /\ s \o r \in Seq(FrameType) /\ Len(s \o r) = Len(s) + Len(r)
         /\ Len(s) \in Nat /\ Len(r) \in Nat
         /\ \A j \in 1 .. Len(s) : (s \o r)[j] = s[j]
         /\ \A j \in 1 .. Len(r) : (s \o r)[Len(s) + j] = r[j]
OBVIOUS

\* The stack after the arbiter has selected.
LEMMA SelectStack ==
  ASSUME Clean(Rest), NEW h \in Hooks, lag \in Nat
  PROVE  LET s == <<Frame("expire", NoHook, lag)>> \o Rest
             l == <<Frame("launch", h, 0), Frame("expire", NoHook, lag)>> \o Rest
         IN  /\ s # <<>> /\ Head(s).op = "expire"
             /\ \A i \in 1 .. Len(s) : s[i].op = "expire" => i = 1
             /\ s[1].n = lag
             /\ l # <<>> /\ Head(l).op = "launch"
             /\ \A i \in 1 .. Len(l) : l[i].op = "expire" => i = 2
             /\ l[2].n = lag
<1> DEFINE one == <<Frame("expire", NoHook, lag)>>
           two == <<Frame("launch", h, 0), Frame("expire", NoHook, lag)>>
           s == one \o Rest
           l == two \o Rest
<1>1. /\ Rest \in Seq(FrameType) /\ Len(Rest) \in Nat
      /\ \A i \in 1 .. Len(Rest) : Rest[i].op # "expire"
  BY DEF Clean, Has
<1>2. /\ one \in Seq(FrameType) /\ two \in Seq(FrameType)
      /\ Len(one) = 1 /\ Len(two) = 2
      /\ one[1].op = "expire" /\ one[1].n = lag
      /\ two[1].op = "launch" /\ two[2].op = "expire" /\ two[2].n = lag
  BY DEF Frame, FrameType, Ops
<1> HIDE DEF one, two
<1>3. /\ s \in Seq(FrameType) /\ Len(s) = 1 + Len(Rest) /\ s[1] = one[1]
      /\ \A i \in 1 .. Len(s) : i # 1 => i - 1 \in 1 .. Len(Rest) /\ s[i] = Rest[i - 1]
  <2>1. s \in Seq(FrameType) /\ Len(s) = 1 + Len(Rest) /\ s[1] = one[1]
        /\ \A i \in 1 .. Len(Rest) : s[1 + i] = Rest[i]
    <3>1. 1 \in 1 .. Len(one)
      BY <1>2
    <3>. QED BY <1>1, <1>2, <3>1, Pushed
  <2> HIDE DEF s
  <2>2. ASSUME NEW i \in 1 .. Len(s), i # 1
        PROVE  i - 1 \in 1 .. Len(Rest) /\ s[i] = Rest[i - 1]
    <3>1. i - 1 \in 1 .. Len(Rest) /\ 1 + (i - 1) = i
      BY <1>1, <2>1, <2>2
    <3>. QED BY <2>1, <3>1
  <2>. QED BY <2>1, <2>2
<1>4. /\ l \in Seq(FrameType) /\ Len(l) = 2 + Len(Rest) /\ l[1] = two[1] /\ l[2] = two[2]
      /\ \A i \in 1 .. Len(l) : i # 1 /\ i # 2 => i - 2 \in 1 .. Len(Rest) /\ l[i] = Rest[i - 2]
  <2>1. l \in Seq(FrameType) /\ Len(l) = 2 + Len(Rest) /\ l[1] = two[1] /\ l[2] = two[2]
        /\ \A i \in 1 .. Len(Rest) : l[2 + i] = Rest[i]
    <3>1. 1 \in 1 .. Len(two) /\ 2 \in 1 .. Len(two)
      BY <1>2
    <3>2. /\ l \in Seq(FrameType) /\ Len(l) = Len(two) + Len(Rest)
          /\ \A i \in 1 .. Len(two) : l[i] = two[i]
          /\ \A i \in 1 .. Len(Rest) : l[Len(two) + i] = Rest[i]
      BY <1>1, <1>2, Pushed
    <3> HIDE DEF l
    <3>. QED BY <1>1, <1>2, <3>1, <3>2
  <2> HIDE DEF l
  <2>2. ASSUME NEW i \in 1 .. Len(l), i # 1, i # 2
        PROVE  i - 2 \in 1 .. Len(Rest) /\ l[i] = Rest[i - 2]
    <3>1. i - 2 \in 1 .. Len(Rest) /\ 2 + (i - 2) = i
      BY <1>1, <2>1, <2>2
    <3>. QED BY <2>1, <3>1
  <2>. QED BY <2>1, <2>2
<1> HIDE DEF s, l
<1>5. s # <<>> /\ l # <<>> /\ Head(s) = s[1] /\ Head(l) = l[1]
  BY <1>1, <1>3, <1>4
<1>6. /\ s # <<>> /\ Head(s).op = "expire"
      /\ \A i \in 1 .. Len(s) : s[i].op = "expire" => i = 1
      /\ s[1].n = lag
  BY <1>1, <1>2, <1>3, <1>5
<1>7. /\ l # <<>> /\ Head(l).op = "launch"
      /\ \A i \in 1 .. Len(l) : l[i].op = "expire" => i = 2
      /\ l[2].n = lag
  BY <1>1, <1>2, <1>4, <1>5
<1>. QED BY <1>6, <1>7 DEF s, l, one, two

\* The arbiter selects the first hook's task, or one that ends before it starts.
LEMMA SelectKeepsTop ==
  ASSUME IInv, TopInv, Clean(Rest), NEW t, t = AbortPast(UpdateTime(tasks)),
         NEW best \in Eligible(t), best = SelectNext(t), Select(t, best), lag' = lag
  PROVE  /\ DueTop' /\ LaunchTop' /\ ExpireTop'
         /\ \A h \in Hooks : Fit(h, tasks'[h])
         /\ t[0].state = "SCHEDULE" => tasks'[0].state # "ABORTED"
<1>1. /\ t \in TaskTable /\ best \in Hooks /\ radioTask \in Hooks /\ 0 \in Hooks /\ lag \in Nat
      /\ \A h \in Hooks : t[h].state = "RUNNING" <=> tasks[h].state = "RUNNING"
      /\ \A h \in Hooks : t[h].state = "RUNNING" => h = radioTask
      /\ \A h \in Hooks : Fit(h, t[h])
      /\ t[0].state = "SCHEDULE" => 0 \in Eligible(t)
  <2>1. best \in Hooks /\ radioTask \in Hooks /\ 0 \in Hooks /\ lag \in Nat
    BY DEF Eligible, Startable, IInv, TypeOK, Hooks
  <2>2. /\ t \in TaskTable
        /\ \A h \in Hooks : t[h].state = "RUNNING" <=> tasks[h].state = "RUNNING"
    BY ArbiterTypes
  <2>3. \A h \in Hooks : t[h].state = "RUNNING" => h = radioTask
    BY <2>2 DEF IInv, OneRadioUser
  <2>4. /\ \A h \in Hooks : Fit(h, t[h])
        /\ t[0].state = "SCHEDULE" => 0 \in Eligible(t)
    BY UpdateTop DEF TopInv
  <2>. QED BY <2>1, <2>2, <2>3, <2>4
<1>2. /\ t[best].state \in Waiting \cup {"RUNNING"}
      /\ t[best].state \in Waiting => t[best].due >= 0
      /\ \A h \in Eligible(t) : h \in Hooks /\ t[h].state \in Waiting \cup {"RUNNING"}
  BY DEF Eligible, Startable, Waiting
<1>3. /\ t[best].due \in Int /\ t[best].dur \in Nat /\ t[0].due \in Int
      /\ t[best] \in TaskType
  BY <1>1 DEF TaskTable, TaskType, Floor
<1>4. t[0].state = "SCHEDULE" =>
         best = 0 \/ (End(t[best]) >= 0 /\ End(t[best]) < t[0].due)
  <2>1. ASSUME t[0].state = "SCHEDULE"
        PROVE  best = 0 \/ (End(t[best]) >= 0 /\ End(t[best]) < t[0].due)
    <3>1. 0 \in Eligible(t) /\ t[0].prio = 0
      BY <1>1, <2>1 DEF Fit, Waiting
    <3>2. \A h \in Eligible(t) : h # 0 => t[h].prio # 0
      BY <1>1, <1>2 DEF Fit
    <3>. QED BY <1>1, <3>1, <3>2, SelectTop
  <2>. QED BY <2>1
<1>5. priorityHook' = best
  BY DEF Select
<1>6. ASSUME NEW w \in TaskTable,
             \A h \in Hooks : w[h] = t[h] \/ (h = radioTask /\ w[h].state = "ABORTED" /\ Running(t)),
             w[best] = t[best], tasks' = [w EXCEPT ![best].state = "RUNNING"],
             ArbiterStart(best)
      PROVE  /\ DueTop' /\ LaunchTop' /\ ExpireTop'
             /\ \A h \in Hooks : Fit(h, tasks'[h])
             /\ t[0].state = "SCHEDULE" => tasks'[0].state # "ABORTED"
  <2>1. /\ \A h \in Hooks : h # best => tasks'[h] = w[h]
        /\ tasks'[best] = [t[best] EXCEPT !.state = "RUNNING"]
    BY <1>1, <1>6 DEF TaskTable
  <2>2. /\ tasks'[best].state = "RUNNING"
        /\ tasks'[best].due = t[best].due /\ tasks'[best].dur = t[best].dur
        /\ tasks'[best].type = t[best].type /\ tasks'[best].prio = t[best].prio
    BY <1>3, <2>1 DEF TaskType
  <2>3. \A h \in Hooks : Fit(h, tasks'[h])
    <3>1. Fit(best, tasks'[best])
      BY <1>1, <1>2, <2>2 DEF Fit, Waiting
    <3>2. \A h \in Hooks : w[h].state = "ABORTED" => Fit(h, w[h])
      BY DEF Fit, Waiting
    <3>. QED BY <1>1, <1>6, <2>1, <3>1, <3>2
  <2>4. t[0].state = "SCHEDULE" => w[0] = t[0]
    <3>1. Running(t) => t[radioTask].state = "RUNNING"
      BY DEF Running
    <3>. QED BY <1>1, <1>6, <3>1
  <2>5. t[0].state = "SCHEDULE" => tasks'[0].state # "ABORTED"
    <3>1. CASE best = 0
      BY <2>2, <3>1
    <3>2. CASE best # 0
      BY <1>1, <2>1, <2>4, <3>2
    <3>. QED BY <3>1, <3>2
  <2>6. ASSUME TopWaits'
        PROVE  /\ best # 0 /\ tasks'[0] = t[0]
               /\ End(t[best]) >= 0 /\ End(t[best]) < t[0].due
    <3>1. best # 0
      BY <2>2, <2>6 DEF TopWaits
    <3>2. tasks'[0] = w[0] /\ w[0].state = "SCHEDULE"
      BY <1>1, <2>1, <2>6, <3>1 DEF TopWaits
    <3>3. w[0] = t[0]
      BY <1>1, <1>6, <3>2
    <3>. QED BY <1>4, <3>1, <3>2, <3>3
  <2>7. End(tasks'[best]) = End(t[best]) /\ End(t[best]) \in Int
    BY <1>3, <2>2 DEF End
  <2>8. radioTask' = best
        /\ stack' = <<Frame("launch", best, 0), Frame("expire", NoHook, lag)>> \o Rest
    BY <1>6 DEF ArbiterStart
  <2>9. /\ stack' # <<>> /\ Head(stack').op = "launch"
        /\ \A i \in 1 .. Len(stack') : stack'[i].op = "expire" => i = 2
        /\ stack'[2].n = lag
    BY <1>1, <2>8, SelectStack
  <2>10. DueTop'
    <3>1. TopWaits' => Due' >= 0 /\ Due' # 0
      BY <1>3, <2>6, <2>7 DEF Due
    <3>. QED BY <3>1 DEF DueTop
  <2>11. LaunchTop'
    BY <2>6, <2>7, <2>8 DEF LaunchTop, Due
  <2>12. ExpireTop'
    <3>1. At("launch")'
      BY <2>9 DEF At, Top
    <3>2. ASSUME TopWaits', Due' + (lag - lag) < Margin
          PROVE  /\ Running(tasks)' /\ radioTask' # 0
                 /\ End(tasks'[radioTask']) \in Due' - Margin .. Due' - 1
      <4>1. Due' \in Int /\ Due' < Margin /\ End(t[best]) >= 0 /\ End(t[best]) < Due'
        BY <1>1, <1>3, <2>6, <3>2 DEF Due
      <4> HIDE DEF Due
      <4>2. End(t[best]) \in Due' - Margin .. Due' - 1
        BY <2>7, <4>1
      <4>. QED BY <2>2, <2>6, <2>7, <2>8, <3>2, <4>2 DEF Running
    <3>. QED BY <2>9, <3>1, <3>2 DEF ExpireTop
  <2>. QED BY <2>3, <2>5, <2>10, <2>11, <2>12
<1>7. CASE tasks' = [t EXCEPT ![best].state = "RUNNING"] /\ ArbiterStart(best)
  BY <1>1, <1>6, <1>7
<1>8. CASE /\ tasks' = [t EXCEPT ![radioTask].state = "ABORTED", ![best].state = "RUNNING"]
           /\ Running(t) /\ radioTask # best /\ ArbiterStart(best)
  <2> DEFINE w == [t EXCEPT ![radioTask].state = "ABORTED"]
  <2>1. /\ w \in TaskTable /\ w[radioTask].state = "ABORTED"
        /\ \A h \in Hooks : h # radioTask => w[h] = t[h]
    BY <1>1 DEF TaskTable, TaskType, States
  <2>2. tasks' = [w EXCEPT ![best].state = "RUNNING"]
    BY <1>8
  <2> HIDE DEF w
  <2>3. /\ \A h \in Hooks : w[h] = t[h] \/ (h = radioTask /\ w[h].state = "ABORTED" /\ Running(t))
        /\ w[best] = t[best]
    BY <1>1, <1>8, <2>1
  <2>. QED BY <1>6, <1>8, <2>1, <2>2, <2>3, Zenon
<1>9. CASE /\ t[best].due \notin 0 .. Margin \/ (Running(t) /\ radioTask = best)
           /\ tasks' = t /\ stack' = <<Frame("expire", NoHook, lag)>> \o Rest
           /\ UNCHANGED radioTask
  <2>1. /\ stack' # <<>> /\ Head(stack').op = "expire"
        /\ \A i \in 1 .. Len(stack') : stack'[i].op = "expire" => i = 1
        /\ stack'[1].n = lag
    BY <1>1, <1>9, SelectStack
  <2>2. TopWaits' => t[0].state = "SCHEDULE" /\ Due' = t[0].due
    BY <1>9 DEF TopWaits, Due
  <2>3. End(t[best]) \in Int /\ End(t[best]) >= t[best].due
    BY <1>3 DEF End
  <2>4. DueTop'
    <3>1. ASSUME TopWaits' PROVE Due' >= 0 /\ Due' # 0
      <4>1. CASE best = 0
        <5>1. t[best].state = "SCHEDULE" /\ t[best].state \in Waiting
          BY <2>2, <3>1, <4>1 DEF Waiting
        <5>2. t[best].due \notin 0 .. Margin
          BY <1>9, <5>1 DEF Running
        <5>3. t[best].due > 0
          BY <1>2, <1>3, <5>1, <5>2
        <5>. QED BY <1>3, <2>2, <3>1, <4>1, <5>3
      <4>2. CASE best # 0
        BY <1>3, <1>4, <2>2, <2>3, <3>1, <4>2
      <4>. QED BY <4>1, <4>2
    <3>. QED BY <3>1 DEF DueTop
  <2>5. LaunchTop'
    BY <2>1 DEF LaunchTop, At, Top
  <2>6. ExpireTop'
    <3>1. ASSUME TopWaits', best # 0, Due' + (lag - lag) < Margin
          PROVE  /\ Running(tasks)' /\ radioTask' # 0
                 /\ End(tasks'[radioTask']) \in Due' - Margin .. Due' - 1
      <4>1. Due' \in Int /\ Due' < Margin /\ End(t[best]) >= 0 /\ End(t[best]) < Due'
        BY <1>1, <1>3, <1>4, <2>2, <3>1
      <4> HIDE DEF Due
      <4>2. End(t[best]) \in Due' - Margin .. Due' - 1
        BY <2>3, <4>1
      <4>3. Running(t) /\ radioTask = best
        <5>1. CASE t[best].state = "RUNNING"
          BY <1>1, <5>1 DEF Running
        <5>2. CASE t[best].state \in Waiting
          <6>1. t[best].due <= Margin
            BY <1>3, <2>3, <4>1
          <6>. QED BY <1>2, <1>3, <1>9, <5>2, <6>1
        <5>. QED BY <1>2, <5>1, <5>2
      <4>. QED BY <1>9, <3>1, <4>2, <4>3 DEF Running
    <3>. QED BY <1>5, <2>1, <3>1 DEF ExpireTop
  <2>. QED BY <1>1, <1>9, <2>4, <2>5, <2>6
<1>. QED BY <1>7, <1>8, <1>9 DEF Select

\* What the property says of a step.
TopKept ==
    tasks[0].state = "SCHEDULE" /\ tasks'[0].state = "ABORTED"
        => \/ Idle \/ Top.op = "hook"
           \/ /\ At("expire") /\ Running(tasks) /\ radioTask # 0
              /\ End(tasks[radioTask]) \in tasks[0].due - Margin .. tasks[0].due - 1

\* rp_task_arbiter.
LEMMA ArbiterTop ==
  ASSUME IInv, TopInv, Arbiter
  PROVE  TopInv' /\ TopKept
<1> DEFINE t == AbortPast(UpdateTime(tasks))
<1>1. /\ \A h \in Hooks : Fit(h, t[h])
      /\ TopWaits => t[0] = tasks[0]
      /\ t[0].state = "SCHEDULE" => 0 \in Eligible(t)
  BY UpdateTop DEF TopInv, DueTop
<1>2. Clean(Rest)
  BY CleanRest DEF Arbiter, At, Idle
<1>3. /\ UNCHANGED <<semaphore, lag>> /\ 0 \in Hooks
      /\ chipIrq' = chipIrq \/ chipIrq' = NoIrq
  BY DEF Arbiter, Select, StopRadio, radio, Hooks
<1>4. semaphore' => Has(stack', {"irqEnd"})
  <2>1. Has(stack, {"irqEnd"}) => Has(stack', {"irqEnd"})
    BY ArbiterStack
  <2>. QED BY <1>3, <2>1 DEF TopInv, FitTop
<1>5. ASSUME \A h \in Hooks : Fit(h, tasks'[h])
      PROVE  FitTop'
  <2>1. chipIrq'.kind \in {"NONE", "DONE"}
    BY <1>3 DEF TopInv, FitTop, NoIrq
  <2>. QED BY <1>4, <1>5, <2>1 DEF FitTop
<1>6. CASE Eligible(t) = {} /\ tasks' = t /\ stack' = Call("collect") \o Rest
  <2> HIDE DEF t
  <2>1. tasks'[0].state # "SCHEDULE" /\ ~TopWaits
    BY <1>1, <1>6 DEF TopWaits
  <2>2. Clean(stack')
    BY <1>2, <1>6, CleanCall, CleanConcat DEF Ops
  <2>3. DueTop'
    BY <2>1 DEF DueTop, TopWaits
  <2>. QED BY <1>1, <1>5, <1>6, <2>1, <2>2, <2>3, CleanTop DEF TopInv, TopKept, TopWaits
<1>7. ASSUME NEW best \in Eligible(t), best = SelectNext(t), Select(t, best)
      PROVE  TopInv' /\ TopKept
  <2>1. /\ DueTop' /\ LaunchTop' /\ ExpireTop'
        /\ \A h \in Hooks : Fit(h, tasks'[h])
        /\ t[0].state = "SCHEDULE" => tasks'[0].state # "ABORTED"
    BY <1>2, <1>3, <1>7, SelectKeepsTop
  <2> HIDE DEF t
  <2>. QED BY <1>1, <1>5, <2>1 DEF TopInv, TopKept, TopWaits
<1>. QED BY <1>6, <1>7 DEF Arbiter

\* A plain task's launch callback waits for its start and starts the radio.
LEMMA LaunchTopStep ==
  ASSUME IInv, TopInv, Launch
  PROVE  TopInv' /\ TopKept
<1>1. /\ stack \in Seq(FrameType) /\ ~Idle /\ Top.op = "launch" /\ Top.h = radioTask
      /\ Running(tasks) /\ NoLaunch(Rest) /\ radioTask \in Hooks /\ tasks \in TaskTable
  BY DEF IInv, TypeOK, TaskTable, Launch, At, Idle, LaunchOnTop
<1>2. tasks[radioTask].type \in Plain
  BY <1>1 DEF TopInv, FitTop, Fit, Running
<1>3. stack' = Rest /\ lag' = lag /\ UNCHANGED <<planner, alarm, chipIrq>>
  BY <1>1, <1>2 DEF Launch, Plain
<1>4. /\ Rest \in Seq(FrameType) /\ (Has(Rest, {"irqEnd"}) <=> Has(stack, {"irqEnd"}))
  BY <1>1, HasRest
<1>5. FitTop'
  BY <1>3, <1>4, FitKept DEF TopInv, FitTop, planner
<1>6. DueTop'
  <2>1. TopWaits => Due > 0
    BY <1>1, ComesNow DEF TopInv
  <2>2. TopWaits => ~(Due = 0)
    BY <2>1
  <2>. QED BY <1>3, <2>2, DueKept DEF TopInv, planner
<1>7. LaunchTop'
  <2>1. stack' # <<>> => 1 \in 1 .. Len(stack') /\ Head(stack') = stack'[1]
    BY <1>3, <1>4
  <2>2. ~At("launch")'
    BY <1>1, <1>3, <2>1 DEF At, Top, NoLaunch
  <2>. QED BY <2>2 DEF LaunchTop
<1>8. ExpireTop'
  <2>1. ASSUME NEW i \in 1 .. Len(stack'), stack'[i].op = "expire"
        PROVE  /\ i = 1
               /\ i + 1 \in 1 .. Len(stack) /\ stack[i + 1] = stack'[i]
    <3>1. /\ Len(Rest) = Len(stack) - 1 /\ Len(stack) \in Nat
          /\ \A j \in 1 .. Len(Rest) : Rest[j] = stack[j + 1]
      BY <1>1 DEF Rest, Idle
    <3>2. i + 1 \in 1 .. Len(stack) /\ stack[i + 1] = stack'[i] /\ i \in Nat \ {0}
      BY <1>3, <3>1
    <3>3. i + 1 = 1 \/ i + 1 = 2
      BY <2>1, <3>2 DEF TopInv, ExpireTop
    <3>. QED BY <3>2, <3>3
  <2>2. UNCHANGED <<tasks, radioTask, priorityHook, lag>>
    BY <1>3 DEF planner
  <2>. QED BY <2>1, <2>2 DEF TopInv, ExpireTop, TopWaits, Due, Running
<1>9. TopKept
  BY <1>3 DEF TopKept, planner
<1>. QED BY <1>5, <1>6, <1>7, <1>8, <1>9 DEF TopInv

\* "Timer has expired on a not priority task": the first hook's task is given up only
\* for the running task that ends before it.
LEMMA ExpireTopStep ==
  ASSUME IInv, TopInv, Expire
  PROVE  TopInv' /\ TopKept
<1>1. /\ stack \in Seq(FrameType) /\ ~Idle /\ Top.op = "expire" /\ tasks \in TaskTable
      /\ timerHook \in Hooks /\ 0 \in Hooks /\ lag \in Nat /\ Top.n \in Nat
      /\ Top = stack[1] /\ 1 \in 1 .. Len(stack)
  <2>1. /\ stack \in Seq(FrameType) /\ ~Idle /\ Top.op = "expire" /\ tasks \in TaskTable
        /\ timerHook \in Hooks /\ 0 \in Hooks /\ lag \in Nat
    BY DEF IInv, TypeOK, TaskTable, Expire, At, Idle, Hooks
  <2>2. Top = stack[1] /\ 1 \in 1 .. Len(stack)
    BY <2>1 DEF Top, Idle
  <2>3. Top.n \in Nat
    BY <2>1, RestQuiet DEF FrameType
  <2>. QED BY <2>1, <2>2, <2>3
<1>2. PICK lost \in {{}, {timerHook}} :
            /\ tasks' = Abort(tasks, lost)
            /\ lost # {} => /\ timerHook # priorityHook
                            /\ tasks[timerHook].due + (lag - Top.n) < Margin
  BY DEF Expire
<1>3. /\ \A h \in Hooks : h \in lost => tasks'[h].state = "ABORTED"
      /\ \A h \in Hooks : h \notin lost => tasks'[h] = tasks[h]
  BY <1>1, <1>2, AbortTable
<1>4. Clean(Rest) /\ Rest \in Seq(FrameType)
      /\ (Has(Rest, {"irqEnd"}) <=> Has(stack, {"irqEnd"}))
  BY <1>1, CleanRest, HasRest
<1> DEFINE gc == GarbageCollection(tasks')
<1>5. stack' = gc \o Call("rearm") \o Rest /\ UNCHANGED <<semaphore, chipIrq>>
  BY DEF Expire, radio
<1>6. Clean(gc) /\ Clean(Call("rearm"))
  BY CleanCall DEF Ops, GarbageCollection
<1> HIDE DEF gc
<1>7. Clean(gc \o Call("rearm"))
  BY <1>6, CleanConcat
<1>8. Clean(stack')
  BY <1>4, <1>5, <1>7, CleanConcat
<1>9. Has(Rest, {"irqEnd"}) => Has(stack', {"irqEnd"})
  BY <1>4, <1>5, <1>7, HasConcat DEF Clean
<1>10. FitTop'
  <2>1. "ABORTED" \notin Waiting \cup {"RUNNING"}
    BY DEF Waiting
  <2>2. \A h \in Hooks : tasks'[h] = tasks[h] \/ tasks'[h].state = "ABORTED"
    BY <1>3
  <2>. QED BY <1>4, <1>5, <1>9, <2>1, <2>2, FitKept DEF TopInv, FitTop
<1>11. DueTop'
  <2>1. TopWaits => Due > 0
    BY <1>1, ComesNow DEF TopInv
  <2>2. TopWaits => ~(Due = 0)
    BY <2>1
  <2>3. TopWaits' => tasks'[0] = tasks[0]
    BY <1>1, <1>3 DEF TopWaits
  <2>. QED BY <2>2, <2>3, DueKept DEF TopInv
<1>12. TopKept
  <2>1. SUFFICES ASSUME TopWaits, tasks'[0].state = "ABORTED"
        PROVE  /\ Running(tasks) /\ radioTask # 0
               /\ End(tasks[radioTask]) \in Due - Margin .. Due - 1
    BY DEF TopKept, TopWaits, Due, Expire
  <2>2. 0 \in lost
    BY <1>1, <1>3, <2>1 DEF TopWaits
  <2>3. timerHook = 0 /\ priorityHook # 0 /\ Due + (lag - Top.n) < Margin
    BY <1>2, <2>2 DEF Due
  <2>. QED BY <1>1, <2>1, <2>3 DEF TopInv, ExpireTop
<1>. QED BY <1>8, <1>10, <1>11, <1>12, CleanTop DEF TopInv

\* rp_task_get_next never finds the first hook's task in the past.
LEMMA RearmTop ==
  ASSUME IInv, TopInv, Rearm
  PROVE  TopInv' /\ TopKept
<1>1. /\ stack \in Seq(FrameType) /\ ~Idle /\ Top.op = "rearm" /\ tasks \in TaskTable
      /\ 0 \in Hooks /\ tasks' = AbortPast(tasks) /\ stack' = Rest
      /\ UNCHANGED <<semaphore, chipIrq>>
  BY DEF IInv, TypeOK, TaskTable, Rearm, At, Idle, Hooks, radio
<1>2. Clean(Rest) /\ (Has(Rest, {"irqEnd"}) <=> Has(stack, {"irqEnd"}))
  BY <1>1, CleanRest, HasRest
<1>3. \A h \in Hooks : tasks'[h] = tasks[h] \/ tasks'[h].state = "ABORTED"
  BY <1>1, PastTable
<1>4. TopWaits => tasks'[0] = tasks[0]
  <2>1. TopWaits => tasks[0].state \in Waiting /\ tasks[0].due >= 0
    BY DEF TopWaits, Waiting, TopInv, DueTop, Due
  <2>. QED BY <1>1, <2>1, RearmStill
<1>5. FitTop'
  <2>1. "ABORTED" \notin Waiting \cup {"RUNNING"}
    BY DEF Waiting
  <2>. QED BY <1>1, <1>2, <1>3, <2>1, FitKept DEF TopInv, FitTop
<1>6. DueTop'
  <2>1. TopWaits => Due > 0
    BY <1>1, ComesNow DEF TopInv
  <2>2. TopWaits => ~(Due = 0)
    BY <2>1
  <2>3. TopWaits' => tasks'[0] = tasks[0]
    BY <1>1, <1>3 DEF TopWaits
  <2>. QED BY <2>2, <2>3, DueKept DEF TopInv
<1>. QED BY <1>1, <1>2, <1>4, <1>5, <1>6, CleanTop DEF TopInv, TopKept, TopWaits

\* rp_task_call_aborted.
LEMMA CollectTop ==
  ASSUME IInv, TopInv, Collect
  PROVE  TopInv' /\ TopKept
<1>1. /\ stack \in Seq(FrameType) /\ ~Idle /\ Top.op = "collect" /\ 0 \in Hooks
      /\ UNCHANGED <<semaphore, chipIrq>>
  BY DEF IInv, TypeOK, Collect, At, Idle, Hooks, radio
<1>2. Clean(Rest) /\ Rest \in Seq(FrameType)
  BY <1>1, CleanRest DEF Clean
<1>3. /\ \A h \in Hooks : tasks[h].state # "ABORTED" => tasks'[h] = tasks[h]
      /\ stack' \in Seq(FrameType)
      /\ Has(stack', {"irqEnd"}) <=> Has(stack, {"irqEnd"})
      /\ \A h \in Hooks : tasks'[h].state \in Waiting \cup {"RUNNING"} => tasks'[h] = tasks[h]
  <2>1. /\ \A h \in Hooks : tasks[h].state # "ABORTED" => tasks'[h] = tasks[h]
        /\ stack' \in Seq(FrameType)
        /\ \A O : "collect" \notin O /\ "hook" \notin O => (Has(stack', O) <=> Has(stack, O))
        /\ Still
    BY CollectStill
  <2>2. "collect" \notin {"irqEnd"} /\ "hook" \notin {"irqEnd"}
    OBVIOUS
  <2>3. \A h \in Hooks : tasks'[h].state \in Waiting \cup {"RUNNING"} => tasks'[h] = tasks[h]
    BY <2>1 DEF Still
  <2>. QED BY <2>1, <2>2, <2>3
<1>4. Clean(stack') /\ (Comes(Rest) => Comes(stack'))
  <2>1. CASE stack' = Rest
    BY <1>2, <2>1
  <2>2. ASSUME NEW h \in Hooks,
               stack' = <<Frame("hook", h, HookCalls), Frame("collect", NoHook, h + 1)>> \o Rest
        PROVE  Clean(stack') /\ (Comes(Rest) => Comes(stack'))
    <3> DEFINE top == <<Frame("hook", h, HookCalls), Frame("collect", NoHook, h + 1)>>
    <3>1. /\ top \in Seq(FrameType)
          /\ \A i \in 1 .. Len(top) : top[i].op \in {"hook", "collect"}
      BY DEF Frame, FrameType, Ops, Hooks
    <3>2. stack' = top \o Rest
      BY <2>2
    <3> HIDE DEF top
    <3>3. Clean(top)
      BY <3>1 DEF Clean, Has
    <3>4. \A i \in 1 .. Len(top) : top[i].op \in {"hook", "collect", "leave"}
      BY <3>1
    <3>. QED BY <1>2, <3>1, <3>2, <3>3, <3>4, CleanConcat, ComesAfter
  <2>. QED BY <2>1, <2>2 DEF Collect
<1>5. TopWaits /\ Due = 0 => Comes(stack')
  <2>1. TopWaits /\ Due = 0 => Comes(stack)
    BY <1>1 DEF TopInv, DueTop
  <2>. QED BY <1>1, <1>4, <2>1, ComesRest
<1>6. FitTop'
  BY <1>1, <1>3, FitKept DEF TopInv, FitTop
<1>7. DueTop'
  <2>1. TopWaits' => tasks'[0] = tasks[0]
    BY <1>1, <1>3 DEF TopWaits, Waiting
  <2>. QED BY <1>5, <2>1, DueKept DEF TopInv
<1>8. TopKept
  BY <1>1, <1>3 DEF TopKept
<1>. QED BY <1>4, <1>6, <1>7, <1>8, CleanTop DEF TopInv

\* The end of an interrupt, of a call and of a callback.
LEMMA ReturnTop ==
  ASSUME IInv, TopInv, IrqEnd \/ Leave \/ HookReturn
  PROVE  TopInv' /\ TopKept
<1>1. /\ stack \in Seq(FrameType) /\ ~Idle /\ Top.op \in {"irqEnd", "leave", "hook"}
      /\ UNCHANGED <<tasks, chipIrq>>
  BY DEF IInv, TypeOK, IrqEnd, Leave, HookReturn, At, Idle, planner, radio
<1>2. Clean(Rest) /\ Rest \in Seq(FrameType)
  BY <1>1, CleanRest DEF Clean
<1>3. Clean(stack') /\ (semaphore' => Has(stack', {"irqEnd"}))
      /\ (TopWaits /\ Due = 0 => Comes(stack'))
  <2>1. CASE IrqEnd
    <3>1. stack' = Call("arbiter") \o Rest /\ semaphore' = FALSE
      BY <2>1 DEF IrqEnd
    <3>2. Clean(Call("arbiter")) /\ Comes(Call("arbiter")) /\ Call("arbiter") \in Seq(FrameType)
      BY CleanCall, ComesCall, CallSeq DEF Ops
    <3>. QED BY <1>2, <3>1, <3>2, CleanConcat, ComesFirst
  <2>2. CASE Leave \/ HookReturn
    <3>1. stack' = Rest /\ UNCHANGED semaphore /\ Top.op \in {"leave", "hook"}
      BY <2>2 DEF Leave, HookReturn, At, planner
    <3>2. Has(Rest, {"irqEnd"}) <=> Has(stack, {"irqEnd"})
      BY <1>1, <3>1, HasRest
    <3>3. TopWaits /\ Due = 0 => Comes(stack)
      BY <1>1 DEF TopInv, DueTop
    <3>4. TopWaits /\ Due = 0 => Comes(Rest)
      BY <1>1, <3>1, <3>3, ComesRest
    <3>. QED BY <1>2, <3>1, <3>2, <3>4 DEF TopInv, FitTop
  <2>. QED BY <2>1, <2>2
<1>4. FitTop' /\ DueTop'
  BY <1>1, <1>3, FitKept, DueKept DEF TopInv
<1>. QED BY <1>1, <1>3, <1>4, CleanTop DEF TopInv, TopKept

\* A hook callback that calls the planner.
LEMMA HookCallTop ==
  ASSUME TopAssumption, IInv, TopInv, HookCall
  PROVE  TopInv' /\ TopKept
<1> DEFINE top == <<Frame("hook", Top.h, Top.n - 1)>>
           rest == top \o Rest
<1>1. /\ stack \in Seq(FrameType) /\ ~Idle /\ Top.op = "hook" /\ At("hook") /\ Top.n > 0
      /\ Top \in FrameType
  BY RestQuiet DEF IInv, TypeOK, HookCall, At, Idle
<1>2. Clean(Rest) /\ Rest \in Seq(FrameType)
  BY <1>1, CleanRest DEF Clean
<1>3. rest \in Seq(FrameType) /\ (Has(rest, {"irqEnd"}) <=> Has(stack, {"irqEnd"}))
      /\ (Has(rest, {"launch", "expire"}) <=> Has(stack, {"launch", "expire"}))
  <2>1. \A O : "hook" \notin O => (Has(rest, O) <=> Has(stack, O))
    BY <1>1, HookRest
  <2>2. rest \in Seq(FrameType)
    BY <1>1, HookRest
  <2> HIDE DEF rest
  <2>. QED BY <2>1, <2>2
<1>4. ~Has(rest, {"launch", "expire"})
  <2>1. Has(stack, {"launch", "expire"}) <=> Has(Rest, {"launch", "expire"})
    BY <1>1, HasRest
  <2> HIDE DEF rest
  <2>. QED BY <1>2, <1>3, <2>1 DEF Clean
<1>5. Comes(Rest) => Comes(rest)
  <2>1. /\ top \in Seq(FrameType)
        /\ \A i \in 1 .. Len(top) : top[i].op \in {"hook", "collect", "leave"}
    <3>1. Top.h \in Hooks \cup {NoHook} /\ Top.n - 1 \in Nat
      BY <1>1 DEF FrameType
    <3>. QED BY <3>1 DEF Frame, FrameType, Ops
  <2> HIDE DEF top
  <2>. QED BY <1>2, <2>1, ComesAfter
<1>6. (\E k \in Offers : Enqueue(k, rest)) \/ (\E h \in Aborters : AbortTask(h, rest))
  BY DEF HookCall
<1> HIDE DEF rest, top
<1>7. Below(rest)
  <2>1. TopWaits /\ Due = 0 => Comes(stack)
    BY <1>1 DEF TopInv, DueTop
  <2>2. TopWaits /\ Due = 0 => Comes(rest)
    BY <1>1, <1>5, <2>1, ComesRest
  <2>. QED BY <1>3, <1>4, <2>2 DEF Below, Clean, TopInv, FitTop
<1>8. TopInv'
  BY <1>6, <1>7, EnqueueTop, AbortTaskTop
<1>. QED BY <1>1, <1>8 DEF TopKept

\* The main thread and the interrupts, from the planner left.
LEMMA IdleTop ==
  ASSUME TopAssumption, IInv, TopInv, MainEnqueue \/ MainAbort \/ RadioIrq \/ TimerIrq
  PROVE  TopInv' /\ TopKept
<1>1. Idle /\ ~semaphore
  <2>1. Idle
    BY DEF MainEnqueue, MainAbort, RadioIrq, TimerIrq
  <2>. QED BY <2>1 DEF TopInv, FitTop, Idle, Has
<1>2. Below(<<>>) /\ Clean(<<>>)
  BY <1>1, CleanCall DEF Below
<1>3. CASE MainEnqueue \/ MainAbort
  BY <1>1, <1>2, <1>3, EnqueueTop, AbortTaskTop DEF MainEnqueue, MainAbort, TopKept
<1>4. CASE RadioIrq
  <2>1. CASE ServeIrq(IrqStatus, <<>>)
    BY <1>1, <1>2, <2>1, ServeIrqTop DEF TopKept
  <2>2. CASE UNCHANGED <<planner, alarm, chipIrq, stack>>
    <3>1. FitTop' /\ DueTop'
      BY <2>2 DEF TopInv, FitTop, DueTop, TopWaits, Due, Idle, planner
    <3>2. Clean(stack')
      BY <1>1, <1>2, <2>2 DEF Idle
    <3>. QED BY <1>1, <3>1, <3>2, CleanTop DEF TopInv, TopKept
  <2>. QED BY <1>4, <2>1, <2>2 DEF RadioIrq
<1>5. CASE TimerIrq
  <2>1. stack' = Call("arbiter") /\ UNCHANGED <<tasks, semaphore, chipIrq>>
    BY <1>5 DEF TimerIrq, planner, radio
  <2>2. Clean(stack') /\ Comes(stack')
    BY <2>1, CleanCall, ComesCall DEF Ops
  <2>3. FitTop' /\ DueTop'
    BY <1>1, <2>1, <2>2, FitKept, DueKept DEF TopInv
  <2>. QED BY <1>1, <2>2, <2>3, CleanTop DEF TopInv, TopKept
<1>. QED BY <1>3, <1>4, <1>5

\* A millisecond changes only the start and the age of a task.
LEMMA LaterKeeps ==
  ASSUME NEW r \in TaskType
  PROVE  /\ Later(r).state = r.state /\ Later(r).type = r.type /\ Later(r).dur = r.dur
         /\ Later(r).prio = r.prio /\ Later(r).low = r.low
         /\ r.state \in Waiting \cup {"RUNNING"} /\ r.due > 0 => Later(r).due = r.due - 1
<1> DEFINE d == Max({r.due - 1, 0 - Floor})
           a == IF r.state = "ASAP" THEN Min({r.age + 1, AsapTrig + 1}) ELSE r.age
           q == [r EXCEPT !.due = d]
<1>1. CASE r.state \notin Waiting \cup {"RUNNING"}
  BY <1>1 DEF Later
<1>2. CASE r.state \in Waiting \cup {"RUNNING"}
  <2>1. r.due > 0 => d = r.due - 1
    <3>1. r.due \in Int /\ Floor \in Nat
      BY DEF TaskType, Floor
    <3> HIDE DEF Floor
    <3>2. r.due - 1 \in Int /\ 0 - Floor \in Int
      BY <3>1
    <3>3. d \in {r.due - 1, 0 - Floor} /\ d >= r.due - 1 /\ d >= 0 - Floor
      BY <3>2, MaxMinOfTwo, Zenon
    <3> HIDE DEF d
    <3>. QED BY <3>1, <3>3
  <2>2. Later(r) = [q EXCEPT !.age = a]
    BY <1>2, Zenon DEF Later
  <2> HIDE DEF d, a
  <2>3. /\ [q EXCEPT !.age = a].state = r.state /\ [q EXCEPT !.age = a].type = r.type
        /\ [q EXCEPT !.age = a].dur = r.dur /\ [q EXCEPT !.age = a].prio = r.prio
        /\ [q EXCEPT !.age = a].low = r.low /\ [q EXCEPT !.age = a].due = d
    BY DEF TaskType
  <2> HIDE DEF q
  <2>. QED BY <2>1, <2>2, <2>3
<1>. QED BY <1>1, <1>2

\* Time passes only before the first hook's task starts: the timer, armed at the latest
\* one millisecond before, has not expired, or the launched task has not started.
LEMMA TickTop ==
  ASSUME TopAssumption, IInv, NoLostWakeup, TopInv, Tick
  PROVE  TopInv' /\ TopKept
<1>1. /\ tasks \in TaskTable /\ radioTask \in Hooks /\ 0 \in Hooks /\ lag \in Nat
      /\ stack \in Seq(FrameType) /\ alarm \in (0 - Latency) .. NoAlarm
  BY DEF IInv, TypeOK, TaskTable, Hooks
<1>2. /\ UNCHANGED <<radioTask, priorityHook, semaphore, stack, chipIrq>>
      /\ tasks' = [h \in Hooks |-> Later(tasks[h])]
      /\ alarm' = IF alarm = NoAlarm THEN alarm ELSE Max({alarm - 1, 0 - Latency})
  BY DEF Tick, radio
<1>3. ASSUME NEW h \in Hooks
      PROVE  /\ tasks'[h].state = tasks[h].state /\ tasks'[h].type = tasks[h].type
             /\ tasks'[h].dur = tasks[h].dur /\ tasks'[h].prio = tasks[h].prio
             /\ tasks'[h].low = tasks[h].low
             /\ tasks[h].state \in Waiting \cup {"RUNNING"} /\ tasks[h].due > 0
                  => tasks'[h].due = tasks[h].due - 1
             /\ tasks[h].due \in Int /\ tasks[h].dur \in Nat
  <2>1. tasks[h] \in TaskType
    BY <1>1 DEF TaskTable
  <2>2. tasks'[h] = Later(tasks[h])
    BY <1>2
  <2>3. tasks[h].due \in Int /\ tasks[h].dur \in Nat
    BY <2>1 DEF TaskType, Floor
  <2>. QED BY <2>1, <2>2, <2>3, LaterKeeps
<1>4. FitTop'
  <2>1. \A h \in Hooks : Fit(h, tasks'[h])
    BY <1>3 DEF TopInv, FitTop, Fit
  <2>. QED BY <1>2, <2>1 DEF TopInv, FitTop
<1>5. TopKept
  BY <1>1, <1>3 DEF TopKept
<1>6. Due \in Int /\ (TopWaits /\ Due > 0 => Due' = Due - 1) /\ (TopWaits' <=> TopWaits)
  BY <1>1, <1>3 DEF Due, TopWaits, Waiting
<1>7. CASE Idle /\ alarm > 0 - Latency
  <2>1. Clean(stack')
    BY <1>2, <1>7, CleanCall DEF Idle
  <2>2. ASSUME TopWaits PROVE Due' >= 0 /\ (Due' = 0 => alarm' <= 0)
    <3>1. Latency = 0 /\ alarm > 0 /\ alarm \in Int
      BY <1>1, <1>7 DEF TopAssumption, NoAlarm
    <3>2. Due > 0
      <4>1. Due >= 0 /\ Due # 0
        BY <1>7, <2>2, <3>1 DEF TopInv, DueTop
      <4> HIDE DEF Due
      <4>. QED BY <1>6, <4>1
    <3>3. Due' = Due - 1
      BY <1>6, <2>2, <3>2
    <3>4. ~semaphore
      BY <1>7 DEF TopInv, FitTop, Idle, Has
    <3>5. alarm <= Max({Due - Margin, 1})
      BY <1>1, <1>7, <2>2, <3>4 DEF NoLostWakeup, TopWaits, Due
    <3> HIDE DEF Due
    <3>6. ASSUME Due = 1 PROVE alarm' <= 0
      <4>1. Due - Margin \in Int /\ 1 \in Int
        BY <1>6
      <4>2. Max({Due - Margin, 1}) \in {Due - Margin, 1}
        BY <4>1, MaxMinOfTwo, Zenon
      <4>3. alarm = 1
        BY <1>6, <3>1, <3>5, <3>6, <4>2
      <4>4. alarm # NoAlarm
        BY <4>3 DEF NoAlarm
      <4>5. Max({alarm - 1, 0 - Latency}) \in {alarm - 1, 0 - Latency}
        <5>1. alarm - 1 \in Int /\ 0 - Latency \in Int
          BY <3>1
        <5>. QED BY <5>1, MaxMinOfTwo, Zenon
      <4>. QED BY <1>2, <3>1, <4>3, <4>4, <4>5
    <3>. QED BY <1>6, <3>2, <3>3, <3>6
  <2>3. DueTop'
    <3>1. Idle'
      BY <1>2, <1>7 DEF Idle
    <3>. QED BY <1>6, <2>2, <3>1 DEF DueTop
  <2>. QED BY <1>4, <1>5, <2>1, <2>3, CleanTop DEF TopInv
<1>8. CASE At("launch") /\ WaitsForStart(tasks[Top.h]) /\ lag' = lag + 1
  <2>1. ~Idle /\ Top.op = "launch" /\ Top.h = radioTask /\ Running(tasks)
    BY <1>8 DEF At, Idle, IInv, LaunchOnTop
  <2>2. tasks[radioTask].due > 0
    BY <1>8, <2>1 DEF WaitsForStart
  <2>3. /\ tasks'[radioTask].due = tasks[radioTask].due - 1
        /\ tasks'[radioTask].dur = tasks[radioTask].dur
        /\ tasks[radioTask].due \in Int /\ tasks[radioTask].dur \in Nat
    BY <1>1, <1>3, <2>1, <2>2 DEF Running
  <2>4. End(tasks'[radioTask]) = End(tasks[radioTask]) - 1 /\ End(tasks[radioTask]) \in Int
        /\ End(tasks[radioTask]) >= 1
    BY <2>2, <2>3 DEF End
  <2>5. TopWaits => End(tasks[radioTask]) < Due
    BY <1>8 DEF TopInv, LaunchTop
  <2>6. TopWaits => Due > 1 /\ Due' = Due - 1
    <3> HIDE DEF Due
    <3>. QED BY <1>6, <2>4, <2>5
  <2> HIDE DEF Due
  <2>7. DueTop'
    <3>1. TopWaits' => Due' >= 0 /\ Due' # 0
      BY <1>6, <2>6
    <3>. QED BY <3>1 DEF DueTop
  <2>8. LaunchTop'
    <3>1. TopWaits' => End(tasks[radioTask]) - 1 < Due'
      BY <1>6, <2>4, <2>5, <2>6
    <3>. QED BY <1>2, <2>4, <3>1 DEF LaunchTop
  <2>9. ExpireTop'
    <3>1. SUFFICES ASSUME NEW i \in 1 .. Len(stack), stack[i].op = "expire"
          PROVE  /\ i = 1 \/ (i = 2 /\ At("launch"))
                 /\ TopWaits' /\ priorityHook # 0 /\ Due' + (lag' - stack[i].n) < Margin =>
                      /\ Running(tasks)' /\ radioTask # 0
                      /\ End(tasks'[radioTask]) \in Due' - Margin .. Due' - 1
      BY <1>2 DEF ExpireTop, At, Top
    <3> DEFINE n == stack[i].n
    <3>2. n \in Nat
      <4>1. stack[i] \in FrameType
        BY <1>1
      <4>. QED BY <4>1 DEF FrameType
    <3>3. ASSUME TopWaits', priorityHook # 0, Due' + (lag' - stack[i].n) < Margin
          PROVE  /\ Running(tasks)' /\ radioTask # 0
                 /\ End(tasks'[radioTask]) \in Due' - Margin .. Due' - 1
      <4>1. TopWaits /\ Due' = Due - 1
        BY <1>6, <2>6, <3>3
      <4>2. Due + (lag - n) < Margin
        <5>1. Due' + (lag' - n) = Due + (lag - n)
          <6> HIDE DEF n
          <6>. QED BY <1>1, <1>6, <1>8, <3>2, <4>1
        <5>. QED BY <3>3, <5>1
      <4>3. radioTask # 0 /\ End(tasks[radioTask]) \in Due - Margin .. Due - 1
        BY <3>1, <3>3, <4>1, <4>2 DEF TopInv, ExpireTop
      <4>4. End(tasks[radioTask]) - 1 \in Due' - Margin .. Due' - 1
        BY <1>6, <2>4, <4>1, <4>3
      <4>5. Running(tasks)'
        BY <1>1, <1>2, <1>3, <2>1 DEF Running
      <4>. QED BY <2>4, <4>3, <4>4, <4>5
    <3>. QED BY <3>1, <3>3 DEF TopInv, ExpireTop
  <2>. QED BY <1>4, <1>5, <2>7, <2>8, <2>9 DEF TopInv
<1>9. CASE lag < MaxLag
  BY <1>1, <1>9 DEF TopAssumption
<1>. QED BY <1>7, <1>8, <1>9 DEF Tick

\* Every step.
LEMMA TopNext ==
  ASSUME TopAssumption, IInv, NoLostWakeup, TopInv, [Next]_vars
  PROVE  TopInv' /\ (TopKept \/ UNCHANGED vars)
<1>1. CASE ChipRaises
  <2>1. /\ chip # NoHook /\ UNCHANGED <<planner, alarm, stack, lag>>
        /\ \E irq \in IrqsOf(tasks[chip].type) : chipIrq' = [kind |-> irq, of |-> chip]
    BY <1>1 DEF ChipRaises
  <2>2. tasks[chip].state = "RUNNING" /\ chip \in Hooks
    BY <2>1 DEF IInv, TypeOK, OneRadioUser
  <2>3. tasks[chip].type \in Plain
    BY <2>2 DEF TopInv, FitTop, Fit
  <2>4. IrqsOf(tasks[chip].type) \subseteq {"DONE"}
    BY <2>3 DEF IrqsOf, Plain
  <2>5. chipIrq'.kind = "DONE"
    BY <2>1, <2>4
  <2>6. UNCHANGED <<tasks, semaphore, radioTask, priorityHook>>
    BY <2>1 DEF planner
  <2>7. FitTop'
    BY <2>1, <2>5, <2>6 DEF TopInv, FitTop
  <2>8. DueTop' /\ LaunchTop' /\ ExpireTop'
    BY <2>1, <2>6
       DEF TopInv, DueTop, LaunchTop, ExpireTop, TopWaits, Due, Idle, At, Top, Running
  <2>. QED BY <2>6, <2>7, <2>8 DEF TopInv, TopKept
<1>2. CASE UNCHANGED vars
  <2>1. UNCHANGED <<tasks, semaphore, radioTask, priorityHook, stack, chipIrq, lag, alarm>>
    BY <1>2 DEF vars, planner, radio
  <2>. QED BY <1>2, <2>1
       DEF TopInv, FitTop, DueTop, LaunchTop, ExpireTop, TopWaits, Due, Idle, At, Top, Running
<1>. QED BY <1>1, <1>2, ArbiterTop, LaunchTopStep, ExpireTopStep, RearmTop, CollectTop,
            ReturnTop, HookCallTop, IdleTop, TickTop DEF Next, Planner, Environment

\* The first hook's task, of normal priority and scheduled at a fixed time, is given up
\* only for the running task that ends before it, no more than the margin before, or
\* by its owner; for any tasks of the types RX, TX and USER that the other hooks enqueue
\* and abort, with the timer served on time and callbacks that take no time.
THEOREM PlannerTopTaskNeverLost ==
  ASSUME TopAssumption
  PROVE  Spec => TopTaskNeverLost
<1>1. Spec => []NoLostWakeup
  <2>1. MaxLag <= Margin
    BY DEF TopAssumption
  <2>. QED BY <2>1, PlannerNoLostWakeup
<1>2. Init => TopInv
  <2>1. ASSUME Init PROVE TopInv
    <3>1. \A h \in Hooks : tasks[h].state = "FINISHED"
      BY <2>1 DEF Init
    <3>2. 0 \in Hooks /\ ~TopWaits
      BY <3>1 DEF Hooks, TopWaits
    <3>3. FitTop
      BY <2>1, <3>1 DEF Init, FitTop, Fit, Waiting, NoIrq
    <3>. QED BY <2>1, <3>2, <3>3 DEF Init, TopInv, DueTop, LaunchTop, ExpireTop, At
  <2>. QED BY <2>1
<1>3. IInv /\ NoLostWakeup /\ TopInv /\ [Next]_vars => TopInv' /\ [TopKept]_vars
  BY TopNext
<1>4. [TopKept]_vars <=> [tasks[0].state = "SCHEDULE" /\ tasks'[0].state = "ABORTED"
          => \/ Idle \/ Top.op = "hook"
             \/ /\ At("expire") /\ Running(tasks) /\ radioTask # 0
                /\ End(tasks[radioTask]) \in tasks[0].due - Margin .. tasks[0].due - 1]_vars
  BY DEF TopKept
<1>. QED BY <1>1, <1>2, <1>3, <1>4, PlannerInvariant, PTL DEF Spec, TopTaskNeverLost

-----------------------------------------------------------------------------
(* The planner on the Zephyr port (PlannerOnHal), where the work queue enters   *)
(* it on top of the main thread.                                               *)

\* While no section of the planner is left to run, a scheduled task has its timer.
Timed ==
    ~semaphore /\ ~Has(stack, Arming) =>
        \A h \in Hooks : tasks[h].state = "SCHEDULE" => alarm # NoAlarm

\* What holds on the port until the work queue enters under a launch.  The timer
\* may be missing while its callback is on the way, and after an expiry that
\* found the interrupts masked.
HalInv ==
    ~crossed => /\ RadioInv
                /\ ~timerWork /\ ~dropped => Timed

\* A stack with no launch frame on top is quiet: a work item may enter there.
LEMMA EntersQuiet ==
  ASSUME IInv, ~At("launch")
  PROVE  Quiet(stack)
<1>1. CASE Idle
  BY <1>1, QuietEmpty DEF Idle
<1>2. CASE ~Idle
  <2>1. stack \in Seq(FrameType) /\ stack # <<>> /\ Head(stack).op # "launch"
        /\ NoLaunch(Tail(stack))
    BY <1>2 DEF IInv, TypeOK, LaunchOnTop, Idle, At, Top, Rest
  <2>2. ASSUME NEW i \in 1 .. Len(stack) PROVE stack[i].op # "launch"
    <3>1. CASE i = 1
      BY <2>1, <3>1
    <3>2. CASE i # 1
      <4>1. i - 1 \in 1 .. Len(Tail(stack)) /\ Tail(stack)[i - 1] = stack[i]
        BY <2>1, <3>2
      <4>. QED BY <2>1, <4>1 DEF NoLaunch
    <3>. QED BY <3>1, <3>2
  <2>. QED BY <2>1, <2>2 DEF Quiet, NoLaunch
<1>. QED BY <1>1, <1>2

\* rp_task_enqueue and rp_task_abort leave the semaphore taken or call the arbiter.
LEMMA CallArms ==
  ASSUME NEW rest \in Seq(FrameType),
         (\E k \in Offer : Enqueue(k, rest)) \/ (\E h \in Hooks : AbortTask(h, rest))
  PROVE  semaphore' \/ Has(stack', Arming)
<1>1. \/ semaphore' = TRUE
      \/ ~semaphore /\ stack' = Call("arbiter") \o Call("leave") \o rest
      \/ semaphore /\ semaphore' = semaphore
  BY DEF Enqueue, AbortTask, ServeIrq
<1>2. Call("arbiter") \in Seq(FrameType) /\ Call("leave") \in Seq(FrameType)
      /\ Has(Call("arbiter"), Arming)
  <2>1. Has(Call("arbiter"), Arming)
    BY DEF Call, Frame, Has, Arming
  <2>. QED BY <2>1, CallSeq DEF Ops
<1>3. Has(Call("arbiter") \o Call("leave") \o rest, Arming)
  BY <1>2, HasFirst
<1>4. CASE stack' = Call("arbiter") \o Call("leave") \o rest
  BY <1>3, <1>4
<1>5. CASE semaphore' = TRUE \/ (semaphore /\ semaphore' = semaphore)
  BY <1>5
<1>. QED BY <1>1, <1>4, <1>5

\* A call of the arbiter arms whatever it lies on.
LEMMA ArbiterArms ==
  ASSUME NEW rest \in Seq(FrameType), stack' = Call("arbiter") \o rest
  PROVE  Has(stack', Arming)
<1>1. Call("arbiter") \in Seq(FrameType) /\ Has(Call("arbiter"), Arming)
  BY CallSeq DEF Ops, Call, Frame, Has, Arming
<1>. QED BY <1>1, HasConcat

\* The steps of the planner keep the timers of the scheduled tasks.
LEMMA PlannerTimed ==
  ASSUME RadioInv, Timed, Planner
  PROVE  Timed'
<1>1. /\ IInv /\ stack \in Seq(FrameType) /\ tasks \in TaskTable /\ radioTask \in Hooks
      /\ alarm \in (0 - Latency) .. NoAlarm
  BY DEF RadioInv, IInv, TypeOK, TaskTable
<1>2. ASSUME Has(stack, Arming) => Has(stack', Arming), UNCHANGED <<semaphore, alarm>>,
             \A h \in Hooks : tasks'[h].state = "SCHEDULE" => tasks[h].state = "SCHEDULE"
      PROVE  Timed'
  BY <1>2 DEF Timed
<1>3. CASE Arbiter
  <2> DEFINE t == AbortPast(UpdateTime(tasks))
  <2>1. CASE Has(stack', {"expire"})
    <3>1. Has(stack', Arming)
      BY <2>1, HasMore DEF Arming
    <3>. QED BY <3>1 DEF Timed
  <2>2. CASE ~Has(stack', {"expire"})
    <3>1. Eligible(t) = {}
      BY <1>1, <1>3, <2>2, ArbiterStack
    <3>2. tasks' = t
      BY <1>3, <3>1 DEF Arbiter
    <3>3. \A h \in Hooks : t[h].state = "SCHEDULE" => h \in Startable(t)
      BY <1>1, ArbiterTypes
    <3>. QED BY <3>1, <3>2, <3>3 DEF Timed, Eligible
  <2>. QED BY <2>1, <2>2
<1>4. CASE Launch
  <2>1. /\ Rest \in Seq(FrameType) /\ Top.h \in Hooks
        /\ Has(Rest, Arming) <=> Has(stack, Arming)
    BY <1>1, <1>4, HasRest DEF Launch, At, Idle, IInv, LaunchOnTop, TypeOK, Arming
  <2>2. CASE AbortTask(Top.h, Rest)
    BY <2>1, <2>2, CallArms DEF Timed
  <2>3. CASE \E st \in {"LBT_FREE", "LBT_BUSY"} : ServeIrq(st, Rest)
    BY <2>3 DEF Timed, ServeIrq
  <2>4. CASE stack' = Rest /\ UNCHANGED <<planner, alarm, chipIrq, irqPending>>
    BY <1>2, <2>1, <2>4 DEF planner
  <2>. QED BY <1>4, <2>2, <2>3, <2>4 DEF Launch
<1>5. CASE Expire
  <2> DEFINE gc == GarbageCollection(tasks')
  <2>1. stack' = gc \o Call("rearm") \o Rest
    BY <1>5 DEF Expire
  <2>2. gc \in Seq(FrameType) /\ Call("rearm") \in Seq(FrameType) /\ Rest \in Seq(FrameType)
    BY <1>1, <1>5, CallSeq, HasRest DEF Ops, GarbageCollection, Expire, At, Idle
  <2>3. Has(Call("rearm"), Arming)
    BY DEF Call, Frame, Has, Arming
  <2> HIDE DEF gc
  <2>4. Has(gc \o Call("rearm"), Arming) /\ gc \o Call("rearm") \in Seq(FrameType)
    BY <2>2, <2>3, HasConcat
  <2>5. Has(stack', Arming)
    BY <2>1, <2>2, <2>4, HasConcat
  <2>. QED BY <2>5 DEF Timed
<1>6. CASE Rearm
  <2>1. \A h \in Hooks : tasks'[h].state = "SCHEDULE" => h \in Startable(tasks')
    BY <1>1, <1>6, RearmStill
  <2>2. tasks' \in TaskTable
    BY <1>1, <1>6, PastTable DEF Rearm
  <2>3. ASSUME Startable(tasks') # {} PROVE alarm' # NoAlarm
    <3> DEFINE g == GetNext(tasks')
    <3>1. alarm' = AlarmDelay(tasks'[g].due) /\ g \in Startable(tasks')
      BY <1>6, <2>2, <2>3, GetNextType DEF Rearm
    <3> HIDE DEF g
    <3>2. tasks'[g].due \in 0 .. MaxDur
      BY <2>2, <3>1 DEF Startable, TaskTable, TaskType
    <3>. QED BY <3>1, <3>2 DEF AlarmDelay, NoAlarm
  <2>. QED BY <2>1, <2>3 DEF Timed
<1>7. CASE Collect
  <2>1. Has(stack', Arming) <=> Has(stack, Arming)
    BY <1>1, <1>7, CollectStill DEF Arming
  <2>2. \A h \in Hooks : tasks'[h].state = "SCHEDULE" => tasks[h].state = "SCHEDULE"
    BY <1>1, <1>7, CollectStill DEF Still, Waiting
  <2>. QED BY <1>2, <1>7, <2>1, <2>2 DEF Collect
<1>8. CASE IrqEnd
  <2>1. Rest \in Seq(FrameType) /\ stack' = Call("arbiter") \o Rest
    BY <1>1, <1>8 DEF IrqEnd, At, Rest
  <2>. QED BY <2>1, ArbiterArms DEF Timed
<1>9. CASE Leave \/ HookReturn
  <2>1. Has(Rest, Arming) <=> Has(stack, Arming)
    <3>1. Top.op \in {"leave", "hook"} /\ ~Idle
      BY <1>9 DEF Leave, HookReturn, At, Idle
    <3>. QED BY <1>1, <3>1, HasRest DEF Arming
  <2>. QED BY <1>2, <1>9, <2>1 DEF Leave, HookReturn, planner
<1>10. CASE HookCall
  <2> DEFINE rest == <<Frame("hook", Top.h, Top.n - 1)>> \o Rest
  <2>1. rest \in Seq(FrameType)
    BY <1>1, <1>10, HookRest DEF HookCall
  <2>2. (\E k \in Offer : Enqueue(k, rest)) \/ (\E h \in Hooks : AbortTask(h, rest))
    BY <1>10 DEF HookCall
  <2> HIDE DEF rest
  <2>. QED BY <2>1, <2>2, CallArms DEF Timed
<1>. QED BY <1>3, <1>4, <1>5, <1>6, <1>7, <1>8, <1>9, <1>10 DEF Planner

\* A step that is one of RadioPlanner keeps RadioInv.
LEMMA NextRadio == RadioInv /\ [Next]_vars => RadioInv'
BY RadioNext, NextInv DEF RadioInv

\* A step that leaves the tasks and the chip alone.
LEMMA StackRadio ==
  ASSUME RadioInv, Quiet(stack'), Has(stack, {"irqEnd"}) => Has(stack', {"irqEnd"}),
         UNCHANGED <<planner, radio>>, alarm' \in (0 - Latency) .. NoAlarm, lag' \in Nat
  PROVE  RadioInv'
<1>1. semaphore' \in BOOLEAN
  BY DEF RadioInv, IInv, TypeOK, planner
<1>2. IInv'
  BY <1>1, StackInv DEF RadioInv, planner
<1>3. IrqInv' /\ SemInv'
  BY DEF RadioInv, IrqInv, SemInv, Running, planner, radio
<1>. QED BY <1>2, <1>3 DEF RadioInv

\* The calls of the main thread, and of the suspension.
LEMMA CallRadio ==
  ASSUME RadioInv, Idle, lag' \in Nat,
         (\E k \in Offer : Enqueue(k, <<>>)) \/ (\E h \in Hooks : AbortTask(h, <<>>))
  PROVE  RadioInv'
<1>1. <<>> \in Seq(FrameType) /\ ~Has(stack, {"irqEnd"}) /\ Quiet(<<>>)
  BY QuietEmpty DEF Idle, Has
<1>2. IInv'
  BY <1>1, EnqueueInv, AbortTaskInv DEF RadioInv
<1>3. IrqInv' /\ SemInv'
  BY <1>1, EnqueueRadio, AbortTaskRadio
<1>. QED BY <1>2, <1>3 DEF RadioInv

\* rp_radio_irq_callback, wherever the work queue enters but under a launch.
LEMMA EventRadio ==
  ASSUME RadioInv, CallEvent, ~crossed'
  PROVE  RadioInv'
<1>1. ~At("launch") /\ Quiet(stack) /\ irqPending' = FALSE /\ lag' \in Nat
      /\ stack \in Seq(FrameType)
  BY EntersQuiet DEF CallEvent, Enters, RadioInv, IInv, TypeOK
<1>2. CASE ServeIrq(IrqStatus, stack)
  <2>1. IrqStatus \in Statuses
    BY IrqStatusType DEF RadioInv
  <2>2. IInv'
    BY <1>1, <1>2, <2>1, ServeIrqInv DEF RadioInv
  <2>. QED BY <1>1, <1>2, <2>1, <2>2, ServeIrqRadio DEF RadioInv
<1>3. CASE UNCHANGED <<planner, alarm, chip, chipIrq, stack>>
  <2>1. TypeOK'
    BY <1>1, <1>3 DEF RadioInv, IInv, TypeOK, planner
  <2>2. OneRadioUser' /\ StartedInTime' /\ LaunchOnTop'
    BY <1>3 DEF RadioInv, IInv, OneRadioUser, StartedInTime, LaunchOnTop, NoLaunch, Idle, Rest,
                Top, Running, planner
  <2>3. IrqInv' /\ SemInv'
    BY <1>3 DEF RadioInv, IrqInv, SemInv, Running, planner
  <2>. QED BY <2>1, <2>2, <2>3 DEF RadioInv, IInv
<1>. QED BY <1>2, <1>3 DEF CallEvent

\* The suspension that main enqueues or aborts.
LEMMA SuspendRadio ==
  ASSUME RadioInv, Suspend \/ Resume
  PROVE  RadioInv'
<1>1. Idle /\ lag' = 0
  BY DEF Suspend, Resume
<1>2. \A k \in SuspendOffers : k \in Offer /\ k.h \in Hooks
  BY HalAssumption DEF Offer
<1>3. CASE stack' = Call("leave") /\ UNCHANGED <<planner, alarm, radio>>
  <2>1. Quiet(stack') /\ ~Has(stack, {"irqEnd"})
    BY <1>1, <1>3, QuietCall DEF Ops, Idle, Has
  <2>. QED BY <1>1, <1>3, <2>1, StackRadio DEF RadioInv, IInv, TypeOK
<1>. QED BY <1>1, <1>2, <1>3, CallRadio DEF Suspend, Resume

\* Every step on the port keeps the invariant until it crosses a launch.
LEMMA HalStepRadio ==
  ASSUME RadioInv, HalStep, ~crossed'
  PROVE  RadioInv'
<1>1. stack \in Seq(FrameType) /\ lag \in Nat /\ alarm \in (0 - Latency) .. NoAlarm
      /\ NoAlarm \in (0 - Latency) .. NoAlarm
  BY DEF RadioInv, IInv, TypeOK, NoAlarm
<1>2. CASE HalPlanner
  BY <1>2, NextRadio DEF HalPlanner, Next
<1>3. CASE HalMain
  BY <1>3, NextRadio DEF HalMain, Next, Environment
<1>4. CASE WorkDone \/ SkipEvent
  BY <1>4, NextRadio DEF WorkDone, SkipEvent
<1>5. CASE ReadFifo
  <2>1. Quiet(stack') /\ ~Has(stack, {"irqEnd"})
    BY <1>5, QuietCall DEF ReadFifo, Ops, Idle, Has
  <2>. QED BY <1>1, <1>5, <2>1, StackRadio DEF ReadFifo
<1>6. CASE Suspend \/ Resume
  BY <1>6, SuspendRadio
<1>7. CASE HalChip
  BY <1>7, NextRadio DEF HalChip, Next, Environment
<1>8. CASE CallEvent
  BY <1>8, EventRadio
<1>9. CASE TimerExpires
  <2>1. CASE At("launch")
    <3>1. UNCHANGED <<planner, radio, stack, lag>> /\ alarm' = NoAlarm
      BY <1>9 DEF TimerExpires
    <3>2. TypeOK'
      BY <1>1, <3>1 DEF RadioInv, IInv, TypeOK, planner, radio
    <3>3. OneRadioUser' /\ StartedInTime' /\ LaunchOnTop'
      BY <3>1 DEF RadioInv, IInv, OneRadioUser, StartedInTime, LaunchOnTop, NoLaunch, Idle, Rest,
                  Top, Running, planner, radio
    <3>4. IrqInv' /\ SemInv'
      BY <3>1 DEF RadioInv, IrqInv, SemInv, Running, planner, radio
    <3>. QED BY <3>2, <3>3, <3>4 DEF RadioInv, IInv
  <2>2. CASE ~At("launch")
    <3>1. Quiet(stack) /\ stack' = stack
      BY <1>9, <2>2, EntersQuiet DEF RadioInv, TimerExpires
    <3>2. Quiet(stack')
      BY <3>1
    <3>. QED BY <1>1, <1>9, <3>1, <3>2, StackRadio DEF TimerExpires
  <2>. QED BY <2>1, <2>2
<1>10. CASE CallTimer
  <2>1. Quiet(stack) /\ stack' = Call("arbiter") \o stack /\ lag' \in Nat
        /\ UNCHANGED <<planner, alarm, radio>>
    BY <1>1, <1>10, EntersQuiet DEF CallTimer, Enters, RadioInv
  <2>2. Quiet(stack')
    BY <2>1, QuietCall, QuietConcat DEF Ops
  <2>3. Has(stack, {"irqEnd"}) => Has(stack', {"irqEnd"})
    <3>1. Call("arbiter") \in Seq(FrameType)
      BY CallSeq DEF Ops
    <3>. QED BY <1>1, <2>1, <3>1, HasConcat
  <2>. QED BY <1>1, <2>1, <2>2, <2>3, StackRadio
<1>11. CASE HalTick
  BY <1>11, NextRadio DEF HalTick, Next, Environment
<1>. QED BY <1>2, <1>3, <1>4, <1>5, <1>6, <1>7, <1>8, <1>9, <1>10, <1>11 DEF HalStep

\* ... and the timers of the scheduled tasks.
LEMMA HalStepTimed ==
  ASSUME RadioInv, ~timerWork /\ ~dropped => Timed, HalStep, ~timerWork', ~dropped'
  PROVE  Timed'
<1>1. stack \in Seq(FrameType) /\ <<>> \in Seq(FrameType)
  BY DEF RadioInv, IInv, TypeOK
<1>2. ASSUME Has(stack, Arming) => Has(stack', Arming), UNCHANGED <<semaphore, alarm, tasks>>,
             Timed
      PROVE  Timed'
  BY <1>2 DEF Timed
<1>3. CASE HalPlanner
  BY <1>3, PlannerTimed DEF HalPlanner
<1>4. CASE HalMain
  <2>1. (\E k \in Offer : Enqueue(k, <<>>)) \/ (\E h \in Hooks : AbortTask(h, <<>>))
    BY <1>4 DEF HalMain, MainEnqueue, MainAbort
  <2>. QED BY <1>1, <2>1, CallArms DEF Timed
<1>5. CASE WorkDone \/ SkipEvent \/ HalChip
  BY <1>2, <1>5 DEF WorkDone, SkipEvent, HalChip, ChipRaises, vars, planner
<1>6. CASE ReadFifo
  <2>1. ~Has(stack, Arming)
    BY <1>6 DEF ReadFifo, Idle, Has
  <2>. QED BY <1>2, <1>6, <2>1 DEF ReadFifo, planner
<1>7. CASE Suspend \/ Resume
  <2>1. \A k \in SuspendOffers : k \in Offer /\ k.h \in Hooks
    BY HalAssumption DEF Offer
  <2>2. CASE UNCHANGED <<planner, alarm>>
    <3>1. ~Has(stack, Arming) /\ Timed
      BY <1>7 DEF Suspend, Resume, Idle, Has
    <3>. QED BY <1>2, <2>2, <3>1 DEF planner
  <2>. QED BY <1>1, <1>7, <2>1, <2>2, CallArms DEF Suspend, Resume, Timed
<1>8. CASE CallEvent
  <2>1. CASE ServeIrq(IrqStatus, stack)
    BY <2>1 DEF ServeIrq, Timed
  <2>2. CASE UNCHANGED <<planner, alarm, chip, chipIrq, stack>>
    BY <1>2, <1>8, <2>2 DEF CallEvent, planner
  <2>. QED BY <1>8, <2>1, <2>2 DEF CallEvent
<1>9. CASE TimerExpires
  BY <1>9 DEF TimerExpires, TimerSubmits
<1>10. CASE CallTimer
  BY <1>1, <1>10, ArbiterArms DEF CallTimer, Timed
<1>11. CASE HalTick
  <2>1. /\ UNCHANGED <<stack, semaphore>> /\ tasks' = [h \in Hooks |-> Later(tasks[h])]
        /\ alarm' = IF alarm = NoAlarm THEN alarm ELSE Max({alarm - 1, 0 - Latency})
        /\ Timed
    BY <1>11 DEF HalTick, Tick, hal
  <2>2. \A h \in Hooks : tasks'[h].state = tasks[h].state
    BY <2>1, LaterType DEF RadioInv, IInv, TypeOK
  <2>3. alarm # NoAlarm => alarm' # NoAlarm
    <3>1. alarm \in Int /\ alarm <= NoAlarm /\ alarm - 1 \in Int /\ 0 - Latency \in Int
          /\ NoAlarm \in Nat
      BY DEF RadioInv, IInv, TypeOK, NoAlarm
    <3>2. Max({alarm - 1, 0 - Latency}) \in {alarm - 1, 0 - Latency}
      BY <3>1, MaxMinOfTwo, Zenon
    <3>. QED BY <2>1, <3>1, <3>2 DEF NoAlarm
  <2>. QED BY <2>1, <2>2, <2>3 DEF Timed
<1>. QED BY <1>3, <1>4, <1>5, <1>6, <1>7, <1>8, <1>9, <1>10, <1>11 DEF HalStep

\* The invariant of the port holds in every reachable state.
LEMMA HalInvariant == HalSpec => []HalInv
<1>1. HalInit => HalInv
  <2>1. Init => IrqInv /\ SemInv /\ Timed
    BY DEF Init, IrqInv, SemInv, NoIrq, Timed
  <2>. QED BY <2>1, InitInv DEF HalInit, HalInv, RadioInv
<1>2. ASSUME HalInv, [HalNext]_halVars PROVE HalInv'
  <2>1. CASE HalStep
    <3>1. crossed => crossed'
      BY <2>1 DEF HalStep, HalPlanner, WorkDone, HalMain, ReadFifo, Suspend, Resume, HalChip,
                  SkipEvent, CallEvent, TimerExpires, CallTimer, HalTick, Enters, hal
    <3>. QED BY <1>2, <2>1, <3>1, HalStepRadio, HalStepTimed DEF HalInv
  <2>2. CASE UNCHANGED halVars
    <3>1. ~crossed => RadioInv'
      BY <1>2, <2>2, NextRadio DEF HalInv, halVars
    <3>2. Timed => Timed'
      BY <2>2 DEF halVars, vars, planner, Timed
    <3>. QED BY <1>2, <2>2, <3>1, <3>2 DEF HalInv, halVars, hal
  <2>. QED BY <1>2, <2>1, <2>2 DEF HalNext, Stop
<1>. QED BY <1>1, <1>2, PTL DEF HalSpec

\* One hook at a time uses the radio on the port too, wherever the work queue
\* enters the planner, as long as it is not under a launch of the main thread.
THEOREM HalOneUserUnlessCrossed == HalSpec => []OneUserUnlessCrossed
<1>1. HalInv => OneUserUnlessCrossed
  BY DEF HalInv, RadioInv, IInv, OneUserUnlessCrossed
<1>. QED BY <1>1, HalInvariant, PTL

\* The semaphore of the planner is held by a task that is running, whenever both
\* threads have left the planner.
THEOREM HalSemaphoreUnlessCrossed == HalSpec => []SemaphoreUnlessCrossed
<1>1. HalInv => SemaphoreUnlessCrossed
  BY DEF HalInv, RadioInv, SemInv, SemaphoreHeldByTask, SemaphoreUnlessCrossed, Idle, Has
<1>. QED BY <1>1, HalInvariant, PTL

\* A scheduled task has its timer armed or the timer's callback on the way: on
\* the port a wake-up is lost by an expiry that the masked interrupts drop, in no
\* other way.
THEOREM HalWakeupUnlessMasked == HalSpec => []WakeupUnlessMasked
<1>1. HalInv => WakeupUnlessMasked
  BY DEF HalInv, Timed, WakeupUnlessMasked, Idle, Has
<1>. QED BY <1>1, HalInvariant, PTL

\* The radio result a hook reads was raised by the chip for its own operation,
\* although the port delivers events late, skips them or finds the gate closed.
THEOREM HalResultsUnlessCrossed == HalSpec => ResultsUnlessCrossed
<1>1. ASSUME RadioInv, HalStep PROVE OwnResults
  <2>1. CASE UNCHANGED status
    BY <2>1 DEF OwnResults
  <2>2. CASE HalPlanner \/ HalMain
    BY <1>1, <2>2, NextOwnResults DEF HalPlanner, HalMain, Next, Environment
  <2>3. CASE Suspend \/ Resume
    <3>1. \A k \in SuspendOffers : k \in Offer /\ k.h \in Hooks
      BY HalAssumption DEF Offer
    <3>. QED BY <1>1, <2>1, <2>3, <3>1, CallBelongs DEF Suspend, Resume, planner
  <2>4. CASE CallEvent
    BY <1>1, <2>1, <2>4, ServeIrqBelongs DEF CallEvent, planner
  <2>5. CASE \/ WorkDone \/ ReadFifo \/ HalChip \/ SkipEvent \/ TimerExpires \/ CallTimer
             \/ HalTick
    BY <2>1, <2>5 DEF WorkDone, ReadFifo, HalChip, ChipRaises, SkipEvent, TimerExpires,
                      CallTimer, HalTick, Tick, vars, planner
  <2>. QED BY <1>1, <2>2, <2>3, <2>4, <2>5 DEF HalStep
<1>2. ASSUME HalInv, [HalNext]_halVars PROVE [~crossed => OwnResults]_halVars
  BY <1>1, <1>2 DEF HalInv, HalNext, Stop
<1>. QED BY <1>2, HalInvariant, PTL DEF HalSpec, ResultsUnlessCrossed

=============================================================================

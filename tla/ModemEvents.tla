----------------------------- MODULE ModemEvents -----------------------------
(***************************************************************************)
(* The asynchronous events of the modem (modem_context.c), from their        *)
(* producers to smtc_modem_get_event and the application that drains them.   *)
(*                                                                         *)
(* The main thread runs smtc_modem_run_engine and, called back by it, the    *)
(* application.  The work queue, where the class B and C receptions and the  *)
(* user's radio callbacks run, preempts it between any two of its steps and  *)
(* runs to completion.  `main' is the main thread: its program counter and   *)
(* the local variables that outlive a step.                                  *)
(***************************************************************************)
EXTENDS Integers, Sequences, FiniteSets, SequencesExt

CONSTANTS
    MainTypes,    \* the events raised on the main thread
    RadioTypes,   \* the events of the user's radio callbacks
    DmTypes,      \* the events of the device management's downlinks, in class C
    Uses,         \* the sets of features an application may turn on
    Capacity,     \* the octets of the FIFO
    Lengths,      \* bound: the octets a stored downlink takes, its header included
    MaxNumber,    \* MODEM_NUMBER_OF_EVENTS
    MaxCount      \* 255, where a count saturates

DOWNDATA == "DOWNDATA"
ALARM == "ALARM"
WorkTypes == RadioTypes \cup DmTypes
Types == MainTypes \cup WorkTypes \cup {DOWNDATA, ALARM}

ASSUME EventsAssumption ==
    /\ Uses \subseteq SUBSET {"CLASS_C", "CLASS_C_DM", "USER_RADIO"}
    /\ Capacity \in Nat /\ Lengths \subseteq 1 .. Capacity /\ MaxCount \in Nat \ {0}
    /\ MaxNumber \in Nat /\ IsFiniteSet(Types) /\ Cardinality(Types) <= MaxNumber
    /\ DOWNDATA \notin MainTypes \cup WorkTypes /\ ALARM \notin WorkTypes

VARIABLES
    number,     \* asynchronous_msgnumber
    msg,        \* asynch_msg, used from index 1 on, and what lies behind it
    count,      \* modem_event_count
    downlinks,  \* the lengths of the downlinks in the FIFO, oldest first
    lost,       \* history: a downlink was dropped for a newer one since the engine
                \* last counted them
    busy,       \* lorawan_api_state_get is neither idle, error nor invalid
    main,       \* the main thread
    uses        \* what the application has turned on, once and for all

vars == <<number, msg, count, downlinks, lost, busy, main, uses>>
events == <<number, msg, count>>
fifo == <<downlinks, lost>>

Places == {"sleep", "raise", "slot", "bump", "setCount", "alarm", "stack", "events",
           "recheck", "compare", "called", "launch", "get", "take", "reset", "pop"}

At(pc) == main.pc = pc
Goto(pc) == main' = [main EXCEPT !.pc = pc]
\* Raise an event of type t, or call the application, and go on at `then'.
GoRaise(t, then) == main' = [main EXCEPT !.pc = "raise", !.type = t, !.then = then]
GoCall(then) == main' = [main EXCEPT !.pc = "get", !.then = then]

\* The engine has returned; its local variables are gone.
Asleep == [pc |-> "sleep", type |-> DOWNDATA, then |-> "sleep", missed |-> 0, more |-> 0]

Init ==
    /\ number = 1                            \* modem_supervisor_init: RESET
    /\ \E reset \in MainTypes :
          /\ msg = [i \in 1 .. MaxNumber + 2 |-> reset]
          /\ count = [t \in Types |-> IF t = reset THEN 1 ELSE 0]
    /\ downlinks = <<>> /\ lost = FALSE /\ busy = FALSE
    /\ uses \in Uses
    /\ main = Asleep

Saturate(n) == IF n < MaxCount THEN n + 1 ELSE n

\* Mutant: the event is stacked again while one is pending.
StackedTwice(t) == count[t] <= 1

\* Mutant: an event is stacked only while no other one is pending.
OnlyWhenEmpty(t) == count[t] = 0 /\ number = 0

NotStacked(t) == count[t] = 0

\* The FIFO without its k oldest downlinks has room for n octets.
Kept(k) == SubSeq(downlinks, k + 1, Len(downlinks))
Room(k, n) == FoldLeft(+, n, Kept(k)) <= Capacity

\* fifo_ctrl_set: the oldest downlinks are dropped until the new one fits.
Store ==
    \E n \in Lengths, k \in 0 .. Len(downlinks) :
       /\ Room(k, n) /\ \A j \in 0 .. k - 1 : ~Room(j, n)
       /\ downlinks' = Append(Kept(k), n)
       /\ lost' = (lost \/ k > 0)

-----------------------------------------------------------------------------
(* increment_asynchronous_msgnumber on the main thread, in the steps the work *)
(* queue can come between.                                                    *)

RaiseTest ==
    /\ At("raise")
    /\ IF number > MaxNumber THEN Goto(main.then)
       ELSE IF NotStacked(main.type) THEN Goto("slot") ELSE Goto("bump")
    /\ UNCHANGED <<events, fifo, busy, uses>>

RaiseSlot ==
    /\ At("slot")
    /\ number' = number + 1
    /\ msg' = [msg EXCEPT ![number + 1] = main.type]
    /\ Goto("bump")
    /\ UNCHANGED <<count, fifo, busy, uses>>

RaiseBump ==
    /\ At("bump")
    /\ count' = [count EXCEPT ![main.type] = Saturate(@)]
    /\ Goto(main.then)
    /\ UNCHANGED <<number, msg, fifo, busy, uses>>

-----------------------------------------------------------------------------
(* smtc_modem_run_engine and modem_supervisor_engine. *)

\* Mutant: a single stored downlink is not noticed.
SeveralStored == Len(downlinks) > 1

DownlinkStored == downlinks # <<>>

EngineStart ==
    /\ At("sleep")
    /\ IF DownlinkStored
         THEN main' = [main EXCEPT !.pc = "raise", !.type = DOWNDATA,
                                   !.then = "setCount", !.more = Len(downlinks)]
         ELSE Goto("alarm")
    /\ lost' = FALSE
    /\ UNCHANGED <<events, downlinks, busy, uses>>

\* Mutant: the count of the event is left to count the passes of the engine.
KeepCount ==
    /\ At("setCount")
    /\ Goto("alarm")
    /\ UNCHANGED <<events, fifo, busy, uses>>

\* The count of DOWNDATA is the number of downlinks seen above.
SetCount ==
    /\ At("setCount")
    /\ count' = [count EXCEPT ![DOWNDATA] = main.more]
    /\ Goto("alarm")
    /\ UNCHANGED <<number, msg, fifo, busy, uses>>

\* The user's alarm: raised and reported at once, even if the stack is busy.
Alarm ==
    /\ At("alarm")
    /\ GoRaise(ALARM, "called") \/ Goto("stack")
    /\ UNCHANGED <<events, fifo, busy, uses>>

AlarmCall ==
    /\ At("called")
    /\ GoCall("stack")
    /\ UNCHANGED <<events, fifo, busy, uses>>

\* The stack is in use: lorawan_api_process, which may hand down a downlink (its
\* parser may raise events) and may go back to idle; then the engine returns.
Process ==
    /\ At("stack") /\ busy
    /\ \/ \E t \in MainTypes : GoRaise(t, "stack") /\ UNCHANGED <<fifo, busy>>
       \/ /\ main' = Asleep
          /\ busy' \in BOOLEAN
          /\ Store \/ UNCHANGED fifo
    /\ UNCHANGED <<events, uses>>

\* The stack is idle: the supervisor updates its tasks, which raises events.
Update ==
    /\ At("stack") /\ ~busy
    /\ (\E t \in MainTypes : GoRaise(t, "stack")) \/ Goto("events")
    /\ UNCHANGED <<events, fifo, busy, uses>>

Events ==
    /\ At("events")
    /\ IF number > 0 THEN GoCall("recheck") ELSE Goto("recheck")
    /\ UNCHANGED <<events, fifo, busy, uses>>

\* "while( msgnumber_tmp < get_asynchronous_msgnumber( ) )": the loop goes on
\* only if the work queue raises an event between the two reads.
Recheck ==
    /\ At("recheck")
    /\ main' = [main EXCEPT !.pc = "compare", !.more = number]
    /\ UNCHANGED <<events, fifo, busy, uses>>

Compare ==
    /\ At("compare")
    /\ IF main.more < number THEN Goto("events") ELSE Goto("launch")
    /\ UNCHANGED <<events, fifo, busy, uses>>

\* modem_supervisor_scheduler launches a task that uses the stack, or not.
Launch ==
    /\ At("launch")
    /\ busy' \in BOOLEAN
    /\ main' = Asleep
    /\ UNCHANGED <<events, fifo, uses>>

-----------------------------------------------------------------------------
(* The application: smtc_modem_get_event as long as events are pending. *)

\* smtc_modem_get_event up to its switch.
GetEvent ==
    /\ At("get") /\ number \in 1 .. MaxNumber
    /\ main' = [main EXCEPT !.type = msg[number],
                            !.missed = (count[msg[number]] - 1) % (MaxCount + 1),
                            !.more = number - 1,
                            !.pc = IF msg[number] = DOWNDATA THEN "take" ELSE "reset"]
    /\ UNCHANGED <<events, fifo, busy, uses>>

\* "asynchronous_msgnumber overlap": the device starts again.
Panic ==
    /\ At("get") /\ number > MaxNumber
    /\ number' = 1
    /\ \E reset \in MainTypes :
          /\ msg' = [msg EXCEPT ![1] = reset]
          /\ count' = [t \in Types |-> IF t = reset THEN 1 ELSE 0]
    /\ downlinks' = <<>> /\ lost' = FALSE /\ busy' = FALSE /\ main' = Asleep
    /\ UNCHANGED uses

TakeDownlink ==
    /\ At("take")
    /\ downlinks' = IF downlinks = <<>> THEN <<>> ELSE Tail(downlinks)
    /\ Goto("reset")
    /\ UNCHANGED <<events, lost, busy, uses>>

\* Mutant: one of the events counted is taken off instead of all.
Decrement ==
    /\ At("reset")
    /\ count' = [count EXCEPT ![main.type] = @ - 1]
    /\ Goto("pop")
    /\ UNCHANGED <<number, msg, fifo, busy, uses>>

ResetCount ==
    /\ At("reset")
    /\ count' = [count EXCEPT ![main.type] = 0]
    /\ Goto("pop")
    /\ UNCHANGED <<number, msg, fifo, busy, uses>>

MorePending == main.more > 0

\* decrement_asynchronous_msgnumber, then the application's loop.
Pop ==
    /\ At("pop")
    /\ number' = IF number > 0 THEN number - 1 ELSE 0
    /\ Goto(IF MorePending THEN "get" ELSE main.then)
    /\ UNCHANGED <<msg, count, fifo, busy, uses>>

-----------------------------------------------------------------------------
(* The work queue. *)

WorkRaised == (IF "USER_RADIO" \in uses THEN RadioTypes ELSE {})
                \cup (IF "CLASS_C_DM" \in uses THEN DmTypes ELSE {})

WorkRaise ==
    /\ \E t \in WorkRaised :
          /\ number <= MaxNumber
          /\ IF NotStacked(t)
               THEN number' = number + 1 /\ msg' = [msg EXCEPT ![number + 1] = t]
               ELSE UNCHANGED <<number, msg>>
          /\ count' = [count EXCEPT ![t] = Saturate(@)]
    /\ UNCHANGED <<fifo, busy, main, uses>>

WorkDownlink ==
    /\ "CLASS_C" \in uses
    /\ Store
    /\ UNCHANGED <<events, busy, main, uses>>

Raise == RaiseTest \/ RaiseSlot \/ RaiseBump
Engine == EngineStart \/ SetCount \/ Alarm \/ AlarmCall \/ Process \/ Update \/ Events
          \/ Recheck \/ Compare \/ Launch
Application == GetEvent \/ Panic \/ TakeDownlink \/ ResetCount \/ Pop
Work == WorkRaise \/ WorkDownlink

Next == Raise \/ Engine \/ Application \/ Work

Spec == Init /\ [][Next]_vars

-----------------------------------------------------------------------------
(* Properties. *)

Stacked == {msg[i] : i \in 1 .. number}

\* "Next condition should never append because only one asynch msg by type of
\* message" (modem_context.c:490): no type is stacked twice, so the stack can not
\* outgrow its array and get_event can not panic.
OneMsgPerType ==
    /\ number <= MaxNumber
    /\ \A i, j \in 1 .. number : msg[i] = msg[j] => i = j

\* No event is stranded while all of them are raised on the main thread:
\* whenever the engine has returned, the types with a count are the types on the
\* stack.  A counted type that is not stacked would never be stacked, hence never
\* reported, again.
NoEventStranded ==
    uses = {} => /\ OneMsgPerType
                 /\ At("sleep") => Stacked = {t \in Types : count[t] > 0}

\* The part of NoEventStranded that survives the preemption by the work queue:
\* an event raised on the main thread is never stranded, though the work queue
\* may come between the reset of a count and the decrement of the number.  (Once the
\* stack is past its array, DOWNDATA is counted but not stacked; the next get_event
\* panics then.)
MainEventsKept ==
    At("sleep") /\ number <= MaxNumber =>
        {t \in Types \ WorkRaised : count[t] > 0} \subseteq Stacked

\* get_event never asks an empty FIFO for a downlink, which would report the event
\* with metadata that fifo_ctrl_get has not written, and the count of downlinks it is
\* reported with is never more than what is stored, whatever the number of passes
\* since it was set.  One case is left out of the count, not of the rest: a class C
\* downlink that arrives when the FIFO is full drops as many old ones as it needs, and
\* the engine counts again only when it runs; get_event, called before, reports some of
\* those dropped as still to come.  (With user radio accesses all may fail: the
\* wrong entry is popped and DOWNDATA is reported once more.)
MissedAreStored ==
    At("take") /\ WorkRaised = {} =>
        /\ downlinks # <<>>
        /\ ~lost => main.missed < Len(downlinks)

\* Every event raised is eventually reported, whatever the main thread raises on top
\* of it.
EventReported ==
    \A t \in Types : count[t] > 0 /\ uses = {} ~> At("reset") /\ main.type = t

\* Every downlink stored brings the application to read the FIFO.
DownlinkReported ==
    downlinks # <<>> /\ WorkRaised = {} ~> At("take")

\* The main thread is never starved and is woken when its sleep ends; one pass
\* of the engine raises finitely many events; the stack comes back to idle
\* (FAILSAFE_DURATION panics otherwise).
EndsUpdate == Update /\ main'.pc = "events"
EndsProcess == Process /\ main'.pc = "sleep" /\ ~busy'
FairSpec == Spec /\ WF_vars(Raise \/ Engine \/ Application)
                 /\ SF_vars(EndsUpdate) /\ SF_vars(EndsProcess)

=============================================================================

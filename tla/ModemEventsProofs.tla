-------------------------- MODULE ModemEventsProofs --------------------------
(* The stack of the modem's events, for every set of event types, every size of *)
(* the FIFO and of the counts, and every use of the work queue.                 *)
EXTENDS ModemEvents, FiniteSetTheorems, TLAPS

\* The types with a count.
Counted == {t \in Types : count[t] > 0}

\* The main thread is inside increment_asynchronous_msgnumber.
Raising == main.pc \in {"raise", "slot", "bump"}

\* The main thread is inside smtc_modem_get_event.
Reporting == main.pc \in {"take", "reset", "pop"}

\* An entry of the stack whose count is not there yet, or not there any more.
Owed == (At("bump") /\ count[main.type] = 0) \/ At("pop")

\* The two threads raise different types.
Apart == MainTypes \cap WorkRaised = {}

\* The type has a count, or is about to get one.
Pending(t) == \/ count[t] > 0
              \/ At("bump") /\ main.type = t
              \/ At("setCount") /\ t = DOWNDATA

MainRecord == [pc : Places, type : Types, then : Places, missed : Nat, more : Nat]

EventsTypeOK ==
    /\ number \in 0 .. MaxNumber + 2 /\ msg \in [1 .. MaxNumber + 2 -> Types]
    /\ count \in [Types -> Nat] /\ busy \in BOOLEAN /\ uses \in Uses
    /\ downlinks \in Seq(Lengths) /\ lost \in BOOLEAN
    /\ main \in MainRecord

\* There are n downlinks in the FIFO, or there were when the engine last counted; it is
\* not empty.
StoredInv(n) == downlinks # <<>> /\ (lost \/ n <= Len(downlinks))

\* The engine is about to write the count of DOWNDATA, or get_event to reset it.
Recounting == At("setCount") \/ ((Raising \/ At("reset")) /\ main.type = DOWNDATA)

\* What the main thread is called for, and what it still knows.
CallInv ==
    /\ Raising => /\ main.then \in {"setCount", "called", "stack"}
                  /\ main.type \in MainTypes \cup {DOWNDATA, ALARM}
                  /\ main.then = "setCount" <=> main.type = DOWNDATA
                  /\ main.then = "called" => main.type = ALARM
    /\ At("get") \/ Reporting => main.then \in {"stack", "recheck"}
    /\ At("slot") => count[main.type] = 0 \/ main.type \in WorkRaised
    /\ At("take") => main.type = DOWNDATA
    /\ At("setCount") \/ (Raising /\ main.type = DOWNDATA) => /\ main.more > 0
                                                             /\ StoredInv(main.more)
    /\ At("pop") => count[main.type] = 0 \/ main.type \in WorkRaised

\* Where the number may stand, at each place.
PlaceInv ==
    /\ At("slot") => number <= MaxNumber + 1
    /\ At("get") \/ At("called") => number > 0
    /\ Reporting => number > main.more

\* Two threads that raise different types stack no type twice.
HeightInv == Apart => number <= Cardinality(Counted) + (IF Owed THEN 1 ELSE 0)

\* What the main thread raises is on the stack, under what the work queue raises.
KeptInv ==
    /\ \A t \in Types \ WorkRaised :
          Pending(t) => t \in Stacked \/ (number > MaxNumber /\ ~Reporting)
    /\ Reporting => msg[number] \in WorkRaised \cup {main.type}

\* While the work queue raises nothing, the stack and the counts agree.
QuietInv ==
    WorkRaised = {} =>
        /\ \A i, j \in 1 .. number : msg[i] = msg[j] => i = j
        /\ \A i \in 1 .. number : \/ count[msg[i]] > 0
                                  \/ At("bump") /\ msg[i] = main.type
                                  \/ At("pop") /\ i = number
        /\ At("take") => StoredInv(main.missed + 1)
        /\ count[DOWNDATA] > 0 => Recounting \/ StoredInv(count[DOWNDATA])

EventsInv == EventsTypeOK /\ CallInv /\ PlaceInv /\ HeightInv /\ KeptInv /\ QuietInv

-----------------------------------------------------------------------------
(* The sets of types and the counts. *)

\* What the work queue raises are types of its own.
LEMMA TypesApart ==
    /\ WorkRaised \subseteq WorkTypes /\ WorkRaised \subseteq Types
    /\ DOWNDATA \in Types \ WorkRaised /\ ALARM \in Types \ WorkRaised
    /\ MainTypes \subseteq Types /\ DOWNDATA \notin MainTypes /\ DOWNDATA # ALARM
  BY EventsAssumption DEF WorkRaised, WorkTypes, Types, DOWNDATA, ALARM

\* No more types have a count than there are types.
LEMMA CountedBounded ==
    /\ IsFiniteSet(Counted) /\ Cardinality(Counted) \in Nat
    /\ Cardinality(Counted) <= MaxNumber
<1>1. Counted \subseteq Types /\ IsFiniteSet(Types)
  BY EventsAssumption DEF Counted
<1>2. /\ IsFiniteSet(Counted) /\ Cardinality(Counted) <= Cardinality(Types)
  BY <1>1, FS_Subset
<1>3. Cardinality(Counted) \in Nat /\ Cardinality(Types) \in Nat
  BY <1>1, <1>2, FS_CardinalityType
<1> QED
  BY <1>2, <1>3, EventsAssumption

\* A type of count 0 is one more type than those with a count.
LEMMA CountedRoom ==
    ASSUME NEW t \in Types, count[t] = 0, count \in [Types -> Nat]
    PROVE  Cardinality(Counted) + 1 <= MaxNumber
<1>1. t \notin Counted /\ Counted \cup {t} \subseteq Types /\ IsFiniteSet(Types)
  BY EventsAssumption DEF Counted
<1>2. Cardinality(Counted \cup {t}) = Cardinality(Counted) + 1
  BY <1>1, CountedBounded, FS_AddElement
<1>3. Cardinality(Counted \cup {t}) <= Cardinality(Types)
  BY <1>1, FS_Subset
<1>4. Cardinality(Types) \in Nat
  BY <1>1, FS_CardinalityType
<1> QED
  BY <1>2, <1>3, <1>4, CountedBounded, EventsAssumption

\* A type gets a count.
LEMMA CountedGrows ==
    ASSUME count \in [Types -> Nat], NEW t \in Types, NEW n \in Nat \ {0},
           count' = [count EXCEPT ![t] = n]
    PROVE  /\ Cardinality(Counted') \in Nat
           /\ Cardinality(Counted') = Cardinality(Counted) + (IF count[t] = 0 THEN 1 ELSE 0)
<1>1. Counted' = Counted \cup {t}
  BY DEF Counted
<1>2. t \in Counted <=> count[t] # 0
  BY DEF Counted
<1>3. CASE t \in Counted
  <2>1. Counted' = Counted
    BY <1>1, <1>3
  <2> QED
    BY <2>1, <1>2, <1>3, CountedBounded
<1>4. CASE t \notin Counted
  <2>1. Cardinality(Counted') = Cardinality(Counted) + 1
    BY <1>1, <1>4, CountedBounded, FS_AddElement
  <2> QED
    BY <2>1, <1>2, <1>4, CountedBounded
<1> QED
  BY <1>3, <1>4

\* A type loses its count.
LEMMA CountedShrinks ==
    ASSUME count \in [Types -> Nat], NEW t \in Types, count' = [count EXCEPT ![t] = 0]
    PROVE  /\ Cardinality(Counted') \in Nat
           /\ Cardinality(Counted) <= Cardinality(Counted') + 1
<1>1. Counted' = Counted \ {t}
  BY DEF Counted
<1>2. CASE t \in Counted
  <2>1. Cardinality(Counted \ {t}) = Cardinality(Counted) - 1
    BY <1>2, CountedBounded, FS_RemoveElement
  <2>2. Counted' \subseteq Counted /\ IsFiniteSet(Counted')
    BY <1>1, CountedBounded, FS_Subset
  <2> QED
    BY <1>1, <2>1, <2>2, CountedBounded, FS_CardinalityType
<1>3. CASE t \notin Counted
  BY <1>1, <1>3, CountedBounded
<1> QED
  BY <1>2, <1>3

\* A count saturates, and is never 0 then.
LEMMA Saturates ==
    ASSUME NEW n \in Nat
    PROVE  Saturate(n) \in Nat \ {0} /\ Saturate(n) <= n + 1
  BY EventsAssumption DEF Saturate

\* The missed events are one less than the events.
LEMMA OneLess ==
    ASSUME NEW n \in Nat
    PROVE  /\ (n - 1) % (MaxCount + 1) \in Nat
           /\ n > 0 => (n - 1) % (MaxCount + 1) < n
  BY EventsAssumption

-----------------------------------------------------------------------------
(* The FIFO. *)

\* A new downlink makes the FIFO longer, unless it drops an old one; none is dropped
\* that the invariant does not say may be.
LEMMA Stores ==
    ASSUME downlinks \in Seq(Lengths), lost \in BOOLEAN, Store
    PROVE  /\ downlinks' \in Seq(Lengths) /\ lost' \in BOOLEAN
           /\ \A n \in Nat : StoredInv(n) => StoredInv(n)'
<1>1. PICK n \in Lengths, k \in 0 .. Len(downlinks) :
         downlinks' = Append(Kept(k), n) /\ lost' = (lost \/ k > 0)
  BY Zenon DEF Store
<1>2. Kept(k) \in Seq(Lengths) /\ Len(Kept(k)) = Len(downlinks) - k
  BY DEF Kept
<1>3. /\ downlinks' \in Seq(Lengths) /\ downlinks' # <<>>
      /\ Len(downlinks') = Len(downlinks) - k + 1
  BY <1>1, <1>2
<1>4. lost' \in BOOLEAN /\ (lost' <=> lost \/ k > 0)
  BY <1>1
<1>5. ASSUME NEW m \in Nat, StoredInv(m)
      PROVE  StoredInv(m)'
  <2>1. lost \/ m <= Len(downlinks)
    BY <1>5 DEF StoredInv
  <2>2. lost' \/ m <= Len(downlinks')
    BY <1>3, <1>4, <2>1
  <2> QED
    BY <1>3, <2>2 DEF StoredInv
<1> QED
  BY <1>3, <1>4, <1>5

-----------------------------------------------------------------------------
(* The record of the main thread. *)

\* Going on at another place changes nothing else.
LEMMA Goes ==
    ASSUME main \in MainRecord, NEW pc \in Places, Goto(pc)
    PROVE  /\ main' \in MainRecord
           /\ main'.pc = pc /\ main'.type = main.type /\ main'.then = main.then
           /\ main'.missed = main.missed /\ main'.more = main.more
  BY DEF Goto, MainRecord

\* An event to raise.
LEMMA GoesRaise ==
    ASSUME main \in MainRecord, NEW t \in Types, NEW then \in Places, GoRaise(t, then)
    PROVE  /\ main' \in MainRecord
           /\ main'.pc = "raise" /\ main'.type = t /\ main'.then = then
           /\ main'.missed = main.missed /\ main'.more = main.more
  BY DEF GoRaise, MainRecord, Places

\* The application is called.
LEMMA GoesCall ==
    ASSUME main \in MainRecord, NEW then \in Places, GoCall(then)
    PROVE  /\ main' \in MainRecord
           /\ main'.pc = "get" /\ main'.type = main.type /\ main'.then = then
           /\ main'.missed = main.missed /\ main'.more = main.more
  BY DEF GoCall, MainRecord, Places

-----------------------------------------------------------------------------
(* What the steps do, for the invariant. *)

\* Nothing the application turned on is turned off.
LEMMA UsesKept ==
    ASSUME [Next]_vars
    PROVE  uses' = uses /\ WorkRaised' = WorkRaised
<1>1. uses' = uses
  BY DEF Next, vars, Raise, Engine, Application, Work, RaiseTest, RaiseSlot, RaiseBump,
         EngineStart, SetCount, Alarm, AlarmCall, Process, Update, Events, Recheck, Compare,
         Launch, GetEvent, Panic, TakeDownlink, ResetCount, Pop, WorkRaise, WorkDownlink
<1> QED
  BY <1>1 DEF WorkRaised

\* Every step keeps the types.
LEMMA TypeStep ==
    ASSUME EventsTypeOK, CallInv, PlaceInv, [Next]_vars
    PROVE  EventsTypeOK'
<1>0. main \in MainRecord /\ main.pc \in Places /\ main.then \in Places /\ main.type \in Types
      /\ main.more \in Nat
  BY DEF EventsTypeOK, MainRecord
<1>a. main' = Asleep => main' \in MainRecord
  BY TypesApart DEF Asleep, MainRecord, Places
<1> USE DEF fifo
<1>1. CASE RaiseTest
  BY <1>0, <1>1, Goes DEF RaiseTest, EventsTypeOK, events, Places
<1>2. CASE RaiseSlot
  <2>1. number + 1 \in 1 .. MaxNumber + 2
    BY <1>2, EventsAssumption DEF RaiseSlot, PlaceInv, EventsTypeOK
  <2>2. msg' \in [1 .. MaxNumber + 2 -> Types]
    BY <1>0, <1>2, <2>1 DEF RaiseSlot, EventsTypeOK
  <2>3. number' \in 0 .. MaxNumber + 2
    BY <1>2, <2>1 DEF RaiseSlot
  <2> QED
    BY <1>0, <1>2, <2>2, <2>3, Goes DEF RaiseSlot, EventsTypeOK, Places
<1>3. CASE RaiseBump
  BY <1>0, <1>3, Goes, Saturates DEF RaiseBump, EventsTypeOK
<1>4. CASE EngineStart
  <2>1. lost' \in BOOLEAN /\ UNCHANGED <<events, downlinks, busy, uses>>
    BY <1>4 DEF EngineStart
  <2>2. Len(downlinks) \in Nat
    BY DEF EventsTypeOK
  <2>3. main' \in MainRecord
    BY <1>0, <1>4, <2>2, Goes, TypesApart DEF EngineStart, MainRecord, Places
  <2> QED
    BY <2>1, <2>3 DEF EventsTypeOK, events
<1>5. CASE SetCount
  BY <1>0, <1>5, Goes DEF SetCount, EventsTypeOK, Places
<1>6. CASE Alarm
  BY <1>0, <1>6, Goes, GoesRaise, TypesApart DEF Alarm, EventsTypeOK, Places, events
<1>7. CASE AlarmCall
  BY <1>0, <1>7, GoesCall DEF AlarmCall, EventsTypeOK, Places, events
<1>8. CASE Process
  <2>1. busy' \in BOOLEAN /\ (Store \/ UNCHANGED fifo)
    BY <1>8, Zenon DEF Process, EventsTypeOK
  <2>2. downlinks' \in Seq(Lengths) /\ lost' \in BOOLEAN
    BY <2>1, Stores DEF EventsTypeOK
  <2>3. main' \in MainRecord
    BY <1>0, <1>8, <1>a, GoesRaise, TypesApart DEF Process, Places
  <2> QED
    BY <1>8, <2>1, <2>2, <2>3 DEF Process, EventsTypeOK, events
<1>9. CASE Update
  BY <1>0, <1>9, Goes, GoesRaise, TypesApart DEF Update, EventsTypeOK, Places, events
<1>10. CASE Events
  BY <1>0, <1>10, Goes, GoesCall DEF Events, EventsTypeOK, Places, events
<1>11. CASE Recheck
  <2>2. number \in Nat
    BY EventsAssumption DEF EventsTypeOK
  <2>1. main' \in MainRecord
    BY <1>0, <1>11, <2>2 DEF Recheck, MainRecord, Places
  <2> QED
    BY <1>11, <2>1 DEF Recheck, EventsTypeOK, events
<1>12. CASE Compare
  BY <1>0, <1>12, Goes DEF Compare, EventsTypeOK, Places, events
<1>13. CASE Launch
  BY <1>13, <1>a DEF Launch, EventsTypeOK, Places, events
<1>14. CASE GetEvent
  <2>1. msg[number] \in Types /\ number - 1 \in Nat
    BY <1>14, EventsAssumption DEF GetEvent, EventsTypeOK
  <2>2. (count[msg[number]] - 1) % (MaxCount + 1) \in Nat
    BY <2>1, OneLess DEF EventsTypeOK
  <2>3. main' \in MainRecord
    BY <1>0, <1>14, <2>1, <2>2 DEF GetEvent, MainRecord, Places
  <2> QED
    BY <1>14, <2>3 DEF GetEvent, EventsTypeOK, events
<1>15. CASE Panic
  <2>1. number' \in 0 .. MaxNumber + 2 /\ count' \in [Types -> Nat]
    BY <1>15, EventsAssumption DEF Panic
  <2>0. PICK reset \in MainTypes : msg' = [msg EXCEPT ![1] = reset]
    BY <1>15 DEF Panic
  <2>2. msg' \in [1 .. MaxNumber + 2 -> Types]
    BY <2>0, TypesApart DEF EventsTypeOK
  <2>4. /\ downlinks' = <<>> /\ <<>> \in Seq(Lengths)
        /\ lost' \in BOOLEAN /\ busy' \in BOOLEAN /\ uses' \in Uses
    <3>1. downlinks' = <<>> /\ lost' = FALSE /\ busy' = FALSE /\ uses' = uses
      BY <1>15 DEF Panic
    <3>2. <<>> \in Seq(Lengths)
      OBVIOUS
    <3> QED
      BY <3>1, <3>2, Zenon DEF EventsTypeOK
  <2>3. main' \in MainRecord
    BY <1>15, TypesApart DEF Panic, Asleep, MainRecord, Places
  <2> QED
    BY <2>1, <2>2, <2>3, <2>4 DEF EventsTypeOK
<1>16. CASE TakeDownlink
  BY <1>0, <1>16, Goes DEF TakeDownlink, EventsTypeOK, Places, events
<1>17. CASE ResetCount
  BY <1>0, <1>17, Goes DEF ResetCount, EventsTypeOK, Places
<1>18. CASE Pop
  <2>1. number' \in 0 .. MaxNumber + 2
    BY <1>18, EventsAssumption DEF Pop, EventsTypeOK
  <2>2. main' \in MainRecord
    BY <1>0, <1>18, Goes DEF Pop, Places
  <2> QED
    BY <1>18, <2>1, <2>2 DEF Pop, EventsTypeOK
<1>19. CASE WorkRaise
  <2>1. PICK t \in WorkRaised :
          /\ number <= MaxNumber
          /\ IF NotStacked(t)
               THEN number' = number + 1 /\ msg' = [msg EXCEPT ![number + 1] = t]
               ELSE UNCHANGED <<number, msg>>
          /\ count' = [count EXCEPT ![t] = Saturate(@)]
    BY <1>19 DEF WorkRaise
  <2>2. t \in Types /\ count[t] \in Nat
    BY TypesApart DEF EventsTypeOK
  <2>3. number' \in 0 .. MaxNumber + 2
    BY <2>1, EventsAssumption DEF EventsTypeOK
  <2>4. msg' \in [1 .. MaxNumber + 2 -> Types]
    BY <2>1, <2>2 DEF EventsTypeOK
  <2>5. count' \in [Types -> Nat]
    BY <2>1, <2>2, Saturates DEF EventsTypeOK
  <2> QED
    BY <1>19, <2>3, <2>4, <2>5 DEF WorkRaise, EventsTypeOK
<1>20. CASE WorkDownlink
  BY <1>20, Stores DEF WorkDownlink, EventsTypeOK, events
<1>21. CASE UNCHANGED vars
  BY <1>21 DEF vars, EventsTypeOK
<1> QED
  BY <1>1, <1>2, <1>3, <1>4, <1>5, <1>6, <1>7, <1>8, <1>9, <1>10, <1>11, <1>12, <1>13, <1>14,
     <1>15, <1>16, <1>17, <1>18, <1>19, <1>20, <1>21
  DEF Next, Raise, Engine, Application, Work

\* Every step keeps what the main thread knows of its call.
LEMMA CallStep ==
    ASSUME EventsTypeOK, CallInv, PlaceInv, [Next]_vars
    PROVE  CallInv'
<1>0. /\ main \in MainRecord /\ main.pc \in Places /\ main.then \in Places /\ main.type \in Types
      /\ main.more \in Nat
  BY DEF EventsTypeOK, MainRecord
<1> USE DEF At, fifo, StoredInv
<1>1. CASE RaiseTest
  BY <1>0, <1>1, UsesKept, TypesApart, Goes, GoesRaise, GoesCall
  DEF RaiseTest, CallInv, EventsTypeOK, Raising, Reporting, Places, NotStacked, events
<1>2. CASE RaiseSlot
  BY <1>0, <1>2, UsesKept, TypesApart, Goes, GoesRaise, GoesCall
  DEF RaiseSlot, CallInv, EventsTypeOK, Raising, Reporting, Places
<1>3. CASE RaiseBump
  BY <1>0, <1>3, UsesKept, TypesApart, Goes, GoesRaise, GoesCall
  DEF RaiseBump, CallInv, EventsTypeOK, Raising, Reporting, Places
<1>4. CASE EngineStart
  <2>1. CASE DownlinkStored
    <3>1. /\ main'.pc = "raise" /\ main'.type = DOWNDATA /\ main'.then = "setCount"
          /\ main'.more = Len(downlinks)
      BY <1>0, <1>4, <2>1 DEF EngineStart, MainRecord
    <3>2. downlinks' # <<>> /\ main'.more > 0 /\ main'.more <= Len(downlinks')
      BY <1>4, <2>1, <3>1 DEF EngineStart, DownlinkStored, EventsTypeOK
    <3> QED
      BY <3>1, <3>2, TypesApart DEF CallInv, Raising, Reporting
  <2>2. CASE ~DownlinkStored
    BY <1>0, <1>4, <2>2, Goes DEF EngineStart, CallInv, Raising, Reporting, Places
  <2> QED
    BY <2>1, <2>2
<1>5. CASE SetCount
  BY <1>0, <1>5, UsesKept, TypesApart, Goes, GoesRaise, GoesCall
  DEF SetCount, CallInv, EventsTypeOK, Raising, Reporting, Places
<1>6. CASE Alarm
  BY <1>0, <1>6, UsesKept, TypesApart, Goes, GoesRaise, GoesCall
  DEF Alarm, CallInv, EventsTypeOK, Raising, Reporting, Places, events
<1>7. CASE AlarmCall
  BY <1>0, <1>7, UsesKept, TypesApart, Goes, GoesRaise, GoesCall
  DEF AlarmCall, CallInv, EventsTypeOK, Raising, Reporting, Places, events
<1>8. CASE Process
  <2>1. CASE main' = Asleep
    BY <2>1 DEF Asleep, CallInv, Raising, Reporting
  <2>2. ASSUME NEW t \in MainTypes, GoRaise(t, "stack")
        PROVE  CallInv'
    <3>1. main'.pc = "raise" /\ main'.type = t /\ main'.then = "stack"
      BY <1>0, <2>2, TypesApart, GoesRaise DEF Places
    <3> QED
      BY <2>2, <3>1, TypesApart DEF CallInv, Raising, Reporting
  <2> QED
    BY <1>0, <1>8, <2>1, <2>2 DEF Process
<1>9. CASE Update
  <2>1. CASE main'.pc \in {"sleep", "events"}
    BY <2>1 DEF CallInv, Raising, Reporting
  <2>2. ASSUME NEW t \in MainTypes, GoRaise(t, "stack")
        PROVE  CallInv'
    <3>1. main'.pc = "raise" /\ main'.type = t /\ main'.then = "stack"
      BY <1>0, <2>2, TypesApart, GoesRaise DEF Places
    <3> QED
      BY <2>2, <3>1, TypesApart DEF CallInv, Raising, Reporting
  <2> QED
    BY <1>0, <1>9, <2>1, <2>2, Goes DEF Update, Places
<1>10. CASE Events
  BY <1>0, <1>10, UsesKept, TypesApart, Goes, GoesRaise, GoesCall
  DEF Events, CallInv, EventsTypeOK, Raising, Reporting, Places, events
<1>11. CASE Recheck
  BY <1>0, <1>11, UsesKept, TypesApart, Goes, GoesRaise, GoesCall
  DEF Recheck, CallInv, EventsTypeOK, Raising, Reporting, Places, events
<1>12. CASE Compare
  BY <1>0, <1>12, UsesKept, TypesApart, Goes, GoesRaise, GoesCall
  DEF Compare, CallInv, EventsTypeOK, Raising, Reporting, Places, events
<1>13. CASE Launch
  BY <1>13 DEF Launch, Asleep, CallInv, Raising, Reporting
<1>14. CASE GetEvent
  BY <1>0, <1>14, UsesKept, TypesApart, Goes, GoesRaise, GoesCall
  DEF GetEvent, CallInv, EventsTypeOK, Raising, Reporting, Places, events
<1>15. CASE Panic
  BY <1>0, <1>15, UsesKept, TypesApart, Goes, GoesRaise, GoesCall
  DEF Panic, CallInv, EventsTypeOK, Raising, Reporting, Places, Asleep
<1>16. CASE TakeDownlink
  BY <1>0, <1>16, UsesKept, TypesApart, Goes, GoesRaise, GoesCall
  DEF TakeDownlink, CallInv, EventsTypeOK, Raising, Reporting, Places, events
<1>17. CASE ResetCount
  BY <1>0, <1>17, UsesKept, TypesApart, Goes, GoesRaise, GoesCall
  DEF ResetCount, CallInv, EventsTypeOK, Raising, Reporting, Places
<1>18. CASE Pop
  BY <1>0, <1>18, UsesKept, TypesApart, Goes, GoesRaise, GoesCall
  DEF Pop, CallInv, EventsTypeOK, Raising, Reporting, Places
<1>19. CASE WorkRaise
  BY <1>0, <1>19, UsesKept, TypesApart, Goes, GoesRaise, GoesCall
  DEF WorkRaise, CallInv, EventsTypeOK, Raising, Reporting, Places, NotStacked
<1>20. CASE WorkDownlink
  <2>1. Store /\ UNCHANGED <<events, main>>
    BY <1>20 DEF WorkDownlink
  <2>2. \A n \in Nat : StoredInv(n) => StoredInv(n)'
    BY <2>1, Stores DEF EventsTypeOK
  <2> HIDE DEF StoredInv
  <2> QED
    BY <1>0, <2>1, <2>2, UsesKept DEF CallInv, Raising, Reporting, events
<1>21. CASE UNCHANGED vars
  BY <1>21, UsesKept DEF vars, CallInv, Raising, Reporting
<1> QED
  BY <1>1, <1>2, <1>3, <1>4, <1>5, <1>6, <1>7, <1>8, <1>9, <1>10, <1>11, <1>12, <1>13, <1>14,
     <1>15, <1>16, <1>17, <1>18, <1>19, <1>20, <1>21
  DEF Next, Raise, Engine, Application, Work

\* Every step keeps the number of events where it may stand.
LEMMA PlaceStep ==
    ASSUME EventsTypeOK, CallInv, PlaceInv, KeptInv, [Next]_vars
    PROVE  PlaceInv'
<1>0. /\ main \in MainRecord /\ main.pc \in Places /\ main.then \in Places /\ main.type \in Types
      /\ main.more \in Nat /\ MaxNumber \in Nat /\ number \in Nat
  BY EventsAssumption DEF EventsTypeOK, MainRecord
<1> USE DEF At, fifo
<1>1. CASE RaiseTest
  BY <1>0, <1>1, UsesKept, TypesApart, Goes, GoesRaise, GoesCall
  DEF RaiseTest, PlaceInv, CallInv, MainRecord, Raising, Reporting, Places, NotStacked, events
<1>2. CASE RaiseSlot
  BY <1>0, <1>2, UsesKept, TypesApart, Goes, GoesRaise, GoesCall
  DEF RaiseSlot, PlaceInv, CallInv, MainRecord, Raising, Reporting, Places
<1>3. CASE RaiseBump
  <2>1. main'.pc = main.then /\ number' = number
    BY <1>0, <1>3, Goes DEF RaiseBump
  <2>2. main.then = "called" => number > 0
    BY <1>0, <1>3, TypesApart DEF RaiseBump, CallInv, KeptInv, Raising, Pending, Stacked
  <2> QED
    BY <1>3, <2>1, <2>2 DEF RaiseBump, PlaceInv, CallInv, Raising, Reporting
<1>4. CASE EngineStart
  <2>1. main'.pc \in {"raise", "alarm"}
    BY <1>0, <1>4, Goes DEF EngineStart, MainRecord, Places
  <2> QED
    BY <1>0, <2>1 DEF PlaceInv, Reporting
<1>5. CASE SetCount
  BY <1>0, <1>5, UsesKept, TypesApart, Goes, GoesRaise, GoesCall
  DEF SetCount, PlaceInv, CallInv, MainRecord, Raising, Reporting, Places
<1>6. CASE Alarm
  <2>1. main'.pc \in {"raise", "stack", "sleep", "events"}
    BY <1>0, <1>6, TypesApart, Goes, GoesRaise DEF Alarm, Places
  <2> QED
    BY <1>0, <2>1 DEF PlaceInv, Reporting
<1>7. CASE AlarmCall
  BY <1>0, <1>7, UsesKept, TypesApart, Goes, GoesRaise, GoesCall
  DEF AlarmCall, PlaceInv, CallInv, MainRecord, Raising, Reporting, Places, events
<1>8. CASE Process
  <2>0. main' = Asleep \/ \E t \in MainTypes : GoRaise(t, "stack")
    BY <1>8, Zenon DEF Process
  <2>1. main'.pc \in {"raise", "sleep"}
    BY <1>0, <2>0, TypesApart, GoesRaise DEF Asleep, Places
  <2> QED
    BY <1>0, <2>1 DEF PlaceInv, Reporting
<1>9. CASE Update
  <2>1. main'.pc \in {"raise", "stack", "sleep", "events"}
    BY <1>0, <1>9, TypesApart, Goes, GoesRaise DEF Update, Places
  <2> QED
    BY <1>0, <2>1 DEF PlaceInv, Reporting
<1>10. CASE Events
  BY <1>0, <1>10, UsesKept, TypesApart, Goes, GoesRaise, GoesCall
  DEF Events, PlaceInv, CallInv, MainRecord, Raising, Reporting, Places, events
<1>11. CASE Recheck
  BY <1>0, <1>11, UsesKept, TypesApart, Goes, GoesRaise, GoesCall
  DEF Recheck, PlaceInv, CallInv, MainRecord, Raising, Reporting, Places, events
<1>12. CASE Compare
  BY <1>0, <1>12, UsesKept, TypesApart, Goes, GoesRaise, GoesCall
  DEF Compare, PlaceInv, CallInv, MainRecord, Raising, Reporting, Places, events
<1>13. CASE Launch
  BY <1>0, <1>13, UsesKept, TypesApart, Goes, GoesRaise, GoesCall
  DEF Launch, Asleep, PlaceInv, CallInv, MainRecord, Raising, Reporting, Places, events
<1>14. CASE GetEvent
  <2>1. main'.pc \in {"take", "reset"} /\ main'.more = number - 1 /\ number' = number
    BY <1>0, <1>14 DEF GetEvent, MainRecord, events
  <2> QED
    BY <1>0, <2>1 DEF PlaceInv, Reporting
<1>15. CASE Panic
  BY <1>0, <1>15, UsesKept, TypesApart, Goes, GoesRaise, GoesCall
  DEF Panic, PlaceInv, CallInv, MainRecord, Raising, Reporting, Places, Asleep
<1>16. CASE TakeDownlink
  BY <1>0, <1>16, UsesKept, TypesApart, Goes, GoesRaise, GoesCall
  DEF TakeDownlink, PlaceInv, CallInv, MainRecord, Raising, Reporting, Places, events
<1>17. CASE ResetCount
  BY <1>0, <1>17, UsesKept, TypesApart, Goes, GoesRaise, GoesCall
  DEF ResetCount, PlaceInv, CallInv, MainRecord, Raising, Reporting, Places
<1>18. CASE Pop
  <2>1. number > main.more /\ number' = number - 1
    BY <1>0, <1>18 DEF Pop, PlaceInv, Reporting
  <2>2. \/ main'.pc = "get" /\ main.more > 0
        \/ main'.pc \in {"stack", "recheck"}
    BY <1>0, <1>18, Goes DEF Pop, MorePending, CallInv, Reporting, Places
  <2> QED
    BY <1>0, <2>1, <2>2 DEF PlaceInv, Reporting
<1>19. CASE WorkRaise
  BY <1>0, <1>19, UsesKept, TypesApart, Goes, GoesRaise, GoesCall
  DEF WorkRaise, PlaceInv, CallInv, MainRecord, Raising, Reporting, Places, NotStacked
<1>20. CASE WorkDownlink
  BY <1>0, <1>20, UsesKept, TypesApart, Goes, GoesRaise, GoesCall
  DEF WorkDownlink, PlaceInv, CallInv, MainRecord, Raising, Reporting, Places, events, Store
<1>21. CASE UNCHANGED vars
  BY <1>21 DEF vars, PlaceInv, Reporting
<1> QED
  BY <1>1, <1>2, <1>3, <1>4, <1>5, <1>6, <1>7, <1>8, <1>9, <1>10, <1>11, <1>12, <1>13, <1>14,
     <1>15, <1>16, <1>17, <1>18, <1>19, <1>20, <1>21
  DEF Next, Raise, Engine, Application, Work

\* Every step keeps the stack no higher than the types that are counted.
LEMMA HeightStep ==
    ASSUME EventsTypeOK, CallInv, PlaceInv, HeightInv, [Next]_vars
    PROVE  HeightInv'
<1>0. /\ main \in MainRecord /\ main.pc \in Places /\ main.then \in Places /\ main.type \in Types
      /\ main.more \in Nat /\ MaxNumber \in Nat /\ number \in Nat /\ count \in [Types -> Nat]
      /\ Cardinality(Counted) \in Nat
  BY EventsAssumption, CountedBounded DEF EventsTypeOK, MainRecord
<1>a. Apart' <=> Apart
  BY UsesKept DEF Apart
<1>b. ASSUME number' = number, count' = count, ~Owed \/ Owed'
      PROVE  HeightInv'
  <2>1. Counted' = Counted
    BY <1>b DEF Counted
  <2> QED
    BY <1>0, <1>a, <1>b, <2>1 DEF HeightInv
<1> USE DEF At, fifo
<1>1. CASE RaiseTest
  BY <1>0, <1>1, <1>b, Goes, GoesRaise, GoesCall
  DEF RaiseTest, Owed, MainRecord, CallInv, Raising, Reporting, Places, NotStacked, events
<1>2. CASE RaiseSlot
  <2>1. main'.pc = "bump" /\ main'.type = main.type /\ Counted' = Counted
    BY <1>0, <1>2, Goes DEF RaiseSlot, Places, Counted
  <2>2. Apart => count[main.type] = 0
    BY <1>2, TypesApart DEF RaiseSlot, CallInv, Raising, Apart
  <2> QED
    BY <1>0, <1>2, <1>a, <2>1, <2>2 DEF RaiseSlot, HeightInv, Owed
<1>3. CASE RaiseBump
  <2>1. main'.pc = main.then /\ number' = number
    BY <1>0, <1>3, Goes DEF RaiseBump
  <2>2. ~Owed'
    BY <1>3, <2>1 DEF RaiseBump, CallInv, Raising, Owed
  <2>3. /\ Cardinality(Counted') \in Nat
        /\ Cardinality(Counted')
             = Cardinality(Counted) + (IF count[main.type] = 0 THEN 1 ELSE 0)
    BY <1>0, <1>3, Saturates, CountedGrows DEF RaiseBump
  <2> QED
    BY <1>0, <1>3, <1>a, <2>1, <2>2, <2>3 DEF RaiseBump, HeightInv, Owed
<1>4. CASE EngineStart
  BY <1>0, <1>4, <1>b, Goes, GoesRaise, GoesCall
  DEF EngineStart, Owed, MainRecord, CallInv, Raising, Reporting, Places, events, DownlinkStored
<1>5. CASE SetCount
  <2>1. ~Owed /\ ~Owed' /\ number' = number
    BY <1>0, <1>5, Goes DEF SetCount, Owed, Places
  <2>2. main.more \in Nat \ {0}
    BY <1>0, <1>5 DEF SetCount, CallInv
  <2>3. /\ Cardinality(Counted') \in Nat
        /\ Cardinality(Counted')
             = Cardinality(Counted) + (IF count[DOWNDATA] = 0 THEN 1 ELSE 0)
    BY <1>0, <1>5, <2>2, TypesApart, CountedGrows DEF SetCount
  <2> QED
    BY <1>0, <1>a, <2>1, <2>3 DEF HeightInv
<1>6. CASE Alarm
  <2>1. main'.pc \in {"raise", "stack", "sleep", "events"}
    BY <1>0, <1>6, TypesApart, Goes, GoesRaise DEF Alarm, Places
  <2> QED
    BY <1>6, <1>b, <2>1 DEF Alarm, Owed, events
<1>7. CASE AlarmCall
  BY <1>0, <1>7, <1>b, Goes, GoesRaise, GoesCall
  DEF AlarmCall, Owed, MainRecord, CallInv, Raising, Reporting, Places, events
<1>8. CASE Process
  <2>0. main' = Asleep \/ \E t \in MainTypes : GoRaise(t, "stack")
    BY <1>8, Zenon DEF Process
  <2>1. main'.pc \in {"raise", "sleep"}
    BY <1>0, <2>0, TypesApart, GoesRaise DEF Asleep, Places
  <2> QED
    BY <1>8, <1>b, <2>1 DEF Process, Owed, events
<1>9. CASE Update
  <2>1. main'.pc \in {"raise", "stack", "sleep", "events"}
    BY <1>0, <1>9, TypesApart, Goes, GoesRaise DEF Update, Places
  <2> QED
    BY <1>9, <1>b, <2>1 DEF Update, Owed, events
<1>10. CASE Events
  BY <1>0, <1>10, <1>b, Goes, GoesRaise, GoesCall
  DEF Events, Owed, MainRecord, CallInv, Raising, Reporting, Places, events
<1>11. CASE Recheck
  BY <1>0, <1>11, <1>b, Goes, GoesRaise, GoesCall
  DEF Recheck, Owed, MainRecord, CallInv, Raising, Reporting, Places, events
<1>12. CASE Compare
  BY <1>0, <1>12, <1>b, Goes, GoesRaise, GoesCall
  DEF Compare, Owed, MainRecord, CallInv, Raising, Reporting, Places, events
<1>13. CASE Launch
  BY <1>0, <1>13, <1>b, Goes, GoesRaise, GoesCall
  DEF Launch, Asleep, Owed, MainRecord, CallInv, Raising, Reporting, Places, events
<1>14. CASE GetEvent
  BY <1>0, <1>14, <1>b, Goes, GoesRaise, GoesCall
  DEF GetEvent, Owed, MainRecord, CallInv, Raising, Reporting, Places, events
<1>15. CASE Panic
  <2>1. PICK reset \in MainTypes : count' = [t \in Types |-> IF t = reset THEN 1 ELSE 0]
    BY <1>15 DEF Panic
  <2>2. Counted' = {reset}
    BY <2>1, TypesApart DEF Counted
  <2>3. Cardinality(Counted') = 1
    BY <2>2, FS_Singleton
  <2> QED
    BY <1>15, <2>3 DEF Panic, Asleep, HeightInv, Owed
<1>16. CASE TakeDownlink
  BY <1>0, <1>16, <1>b, Goes, GoesRaise, GoesCall
  DEF TakeDownlink, Owed, MainRecord, CallInv, Raising, Reporting, Places, events
<1>17. CASE ResetCount
  <2>1. ~Owed /\ Owed' /\ number' = number
    BY <1>0, <1>17, Goes DEF ResetCount, Owed, Places
  <2>2. Cardinality(Counted') \in Nat /\ Cardinality(Counted) <= Cardinality(Counted') + 1
    BY <1>0, <1>17, CountedShrinks DEF ResetCount
  <2> QED
    BY <1>0, <1>a, <2>1, <2>2 DEF HeightInv
<1>18. CASE Pop
  <2>1. Owed /\ ~Owed' /\ number' = number - 1 /\ Counted' = Counted
    BY <1>0, <1>18, Goes DEF Pop, Owed, PlaceInv, CallInv, Reporting, Counted, Places
  <2> QED
    BY <1>0, <1>a, <2>1 DEF HeightInv
<1>19. CASE WorkRaise
  <2>1. PICK t \in WorkRaised :
          /\ number' = number + (IF count[t] = 0 THEN 1 ELSE 0)
          /\ count' = [count EXCEPT ![t] = Saturate(@)]
    <3>1. PICK t \in WorkRaised :
            /\ IF NotStacked(t) THEN number' = number + 1 /\ msg' = [msg EXCEPT ![number + 1] = t]
                                ELSE UNCHANGED <<number, msg>>
            /\ count' = [count EXCEPT ![t] = Saturate(@)]
      BY <1>19 DEF WorkRaise
    <3>2. number' = number + (IF count[t] = 0 THEN 1 ELSE 0)
      BY <1>0, <3>1 DEF NotStacked
    <3> QED
      BY <3>1, <3>2
  <2>2. t \in Types /\ count[t] \in Nat /\ Saturate(count[t]) \in Nat \ {0}
    BY <1>0, TypesApart, Saturates
  <2>3. /\ Cardinality(Counted') \in Nat
        /\ Cardinality(Counted') = Cardinality(Counted) + (IF count[t] = 0 THEN 1 ELSE 0)
    BY <1>0, <2>1, <2>2, CountedGrows
  <2>4. ASSUME Apart
        PROVE  Owed' <=> Owed
    <3>1. At("bump") => main.type # t
      BY <2>4, TypesApart DEF CallInv, Raising, Apart
    <3> QED
      BY <1>0, <1>19, <2>1, <2>2, <3>1 DEF WorkRaise, Owed
  <2> QED
    BY <1>0, <1>a, <2>1, <2>3, <2>4 DEF HeightInv
<1>20. CASE WorkDownlink
  BY <1>0, <1>20, <1>b, Goes, GoesRaise, GoesCall
  DEF WorkDownlink, Owed, MainRecord, CallInv, Raising, Reporting, Places, events, Store
<1>21. CASE UNCHANGED vars
  BY <1>21, <1>b DEF vars, Owed
<1> QED
  BY <1>1, <1>2, <1>3, <1>4, <1>5, <1>6, <1>7, <1>8, <1>9, <1>10, <1>11, <1>12, <1>13, <1>14,
     <1>15, <1>16, <1>17, <1>18, <1>19, <1>20, <1>21
  DEF Next, Raise, Engine, Application, Work

\* Every step keeps what the main thread raised on the stack.
LEMMA KeptStep ==
    ASSUME EventsTypeOK, CallInv, PlaceInv, KeptInv, [Next]_vars
    PROVE  KeptInv'
<1>0. /\ main \in MainRecord /\ main.pc \in Places /\ main.then \in Places /\ main.type \in Types
      /\ main.more \in Nat /\ MaxNumber \in Nat /\ number \in Nat /\ count \in [Types -> Nat]
      /\ WorkRaised' = WorkRaised
  BY EventsAssumption, UsesKept DEF EventsTypeOK, MainRecord
<1>b. ASSUME UNCHANGED <<number, msg>>, ~Reporting', \A t \in Types \ WorkRaised : Pending(t)' => Pending(t)
      PROVE  KeptInv'
  BY <1>0, <1>b DEF KeptInv, Stacked
<1>c. ASSUME UNCHANGED <<number, msg>>, Reporting, main'.type = main.type,
             \A t \in Types \ WorkRaised : Pending(t)' => Pending(t)
      PROVE  KeptInv'
  BY <1>0, <1>c DEF KeptInv, Stacked
<1> USE DEF At, fifo
<1>1. CASE RaiseTest
  <2>1. CASE number > MaxNumber
    <3>1. main'.pc \in {"setCount", "called", "stack"} /\ UNCHANGED <<number, msg>>
      BY <1>0, <1>1, <2>1, Goes DEF RaiseTest, CallInv, Raising, events
    <3> QED
      BY <1>0, <2>1, <3>1 DEF KeptInv, Reporting
  <2>2. CASE number <= MaxNumber
    <3>1. /\ main'.type = main.type
          /\ main'.pc = "slot" \/ (main'.pc = "bump" /\ count[main.type] > 0)
      BY <1>0, <1>1, <2>2, Goes DEF RaiseTest, NotStacked, Places
    <3> QED
      BY <1>1, <1>b, <3>1 DEF RaiseTest, Pending, Reporting, events
  <2> QED
    BY <1>0, <2>1, <2>2
<1>2. CASE RaiseSlot
  <2>1. main'.pc = "bump" /\ main'.type = main.type
    BY <1>0, <1>2, Goes DEF RaiseSlot, Places
  <2>2. number + 1 \in 1 .. MaxNumber + 2
    BY <1>0, <1>2 DEF RaiseSlot, PlaceInv
  <2>3. msg'[number'] = main.type /\ \A i \in 1 .. number : msg'[i] = msg[i]
    BY <1>0, <1>2, <2>2 DEF RaiseSlot, EventsTypeOK
  <2>4. Stacked \cup {main.type} \subseteq Stacked'
    BY <1>0, <1>2, <2>3 DEF RaiseSlot, Stacked
  <2>5. ASSUME NEW t \in Types \ WorkRaised, Pending(t)'
        PROVE  Pending(t) \/ t = main.type
    BY <1>2, <2>1, <2>5 DEF RaiseSlot, Pending
  <2> QED
    BY <1>0, <1>2, <2>1, <2>4, <2>5 DEF RaiseSlot, KeptInv, Reporting
<1>3. CASE RaiseBump
  <2>1. main'.pc = main.then /\ main'.type = main.type /\ main.then \in {"setCount", "called", "stack"}
    BY <1>0, <1>3, Goes DEF RaiseBump, CallInv, Raising
  <2>2. ASSUME NEW t \in Types \ WorkRaised, Pending(t)'
        PROVE  Pending(t)
    BY <1>0, <1>3, <2>1, <2>2 DEF RaiseBump, Pending, CallInv, Raising
  <2> QED
    BY <1>3, <1>b, <2>1, <2>2 DEF RaiseBump, Reporting
<1>4. CASE EngineStart
  <2>1. main'.pc \in {"raise", "alarm"}
    BY <1>0, <1>4, Goes DEF EngineStart, MainRecord, Places
  <2> QED
    BY <1>4, <1>b, <2>1 DEF EngineStart, Pending, Reporting, events
<1>5. CASE SetCount
  <2>1. main'.pc = "alarm"
    BY <1>0, <1>5, Goes DEF SetCount, Places
  <2>2. ASSUME NEW t \in Types \ WorkRaised, Pending(t)'
        PROVE  Pending(t)
    BY <1>0, <1>5, <2>1, <2>2 DEF SetCount, Pending
  <2> QED
    BY <1>5, <1>b, <2>1, <2>2 DEF SetCount, Reporting
<1>6. CASE Alarm
  <2>1. main'.pc \in {"raise", "stack", "sleep", "events"}
    BY <1>0, <1>6, TypesApart, Goes, GoesRaise DEF Alarm, Places
  <2> QED
    BY <1>6, <1>b, <2>1 DEF Alarm, Pending, Reporting, events
<1>7. CASE AlarmCall
  BY <1>0, <1>7, <1>b, Goes, GoesRaise, GoesCall
  DEF AlarmCall, Pending, MainRecord, Reporting, Places, events
<1>8. CASE Process
  <2>0. main' = Asleep \/ \E t \in MainTypes : GoRaise(t, "stack")
    BY <1>8, Zenon DEF Process
  <2>1. main'.pc \in {"raise", "sleep"}
    BY <1>0, <2>0, TypesApart, GoesRaise DEF Asleep, Places
  <2> QED
    BY <1>8, <1>b, <2>1 DEF Process, Pending, Reporting, events
<1>9. CASE Update
  <2>1. main'.pc \in {"raise", "stack", "sleep", "events"}
    BY <1>0, <1>9, TypesApart, Goes, GoesRaise DEF Update, Places
  <2> QED
    BY <1>9, <1>b, <2>1 DEF Update, Pending, Reporting, events
<1>10. CASE Events
  BY <1>0, <1>10, <1>b, Goes, GoesRaise, GoesCall
  DEF Events, Pending, MainRecord, Reporting, Places, events
<1>11. CASE Recheck
  BY <1>0, <1>11, <1>b, Goes, GoesRaise, GoesCall
  DEF Recheck, Pending, MainRecord, Reporting, Places, events
<1>12. CASE Compare
  BY <1>0, <1>12, <1>b, Goes, GoesRaise, GoesCall
  DEF Compare, Pending, MainRecord, Reporting, Places, events
<1>13. CASE Launch
  BY <1>0, <1>13, <1>b, Goes, GoesRaise, GoesCall
  DEF Launch, Asleep, Pending, MainRecord, Reporting, Places, events
<1>14. CASE GetEvent
  <2>1. /\ main'.pc \in {"take", "reset"} /\ main'.type = msg[number]
        /\ UNCHANGED <<number, msg, count>>
    BY <1>0, <1>14 DEF GetEvent, MainRecord, events
  <2>2. \A t \in Types \ WorkRaised : Pending(t)' => t \in Stacked
    BY <1>0, <1>14, <2>1 DEF GetEvent, KeptInv, Pending
  <2> QED
    BY <1>0, <2>1, <2>2 DEF KeptInv, Stacked
<1>15. CASE Panic
  <2>1. PICK reset \in MainTypes : /\ msg' = [msg EXCEPT ![1] = reset]
                                  /\ count' = [t \in Types |-> IF t = reset THEN 1 ELSE 0]
    BY <1>15 DEF Panic
  <2>2. msg'[1] = reset
    BY <1>0, <2>1 DEF EventsTypeOK
  <2>3. main'.pc = "sleep" /\ reset \in Stacked'
    BY <1>15, <2>2 DEF Panic, Asleep, Stacked
  <2>4. ASSUME NEW t \in Types \ WorkRaised, Pending(t)'
        PROVE  t = reset
    BY <2>1, <2>3, <2>4 DEF Pending
  <2> QED
    BY <1>0, <2>3, <2>4 DEF KeptInv, Reporting
<1>16. CASE TakeDownlink
  <2>1. main'.pc \in {"reset", "pop"} /\ main'.type = main.type /\ Reporting
    BY <1>0, <1>16, Goes DEF TakeDownlink, Places, Reporting
  <2>2. ASSUME NEW t \in Types \ WorkRaised, Pending(t)'
        PROVE  Pending(t)
    BY <1>0, <1>16, <2>1, <2>2 DEF TakeDownlink, Pending, events
  <2> QED
    BY <1>16, <1>c, <2>1, <2>2 DEF TakeDownlink, events
<1>17. CASE ResetCount
  <2>1. main'.pc \in {"reset", "pop"} /\ main'.type = main.type /\ Reporting
    BY <1>0, <1>17, Goes DEF ResetCount, Places, Reporting
  <2>2. ASSUME NEW t \in Types \ WorkRaised, Pending(t)'
        PROVE  Pending(t)
    BY <1>0, <1>17, <2>1, <2>2 DEF ResetCount, Pending, events
  <2> QED
    BY <1>17, <1>c, <2>1, <2>2 DEF ResetCount, events
<1>18. CASE Pop
  <2>1. /\ main'.pc \in {"get", "stack", "recheck"} /\ UNCHANGED <<msg, count>>
        /\ number' = number - 1
    BY <1>0, <1>18, Goes DEF Pop, PlaceInv, CallInv, Reporting, Places
  <2>2. ASSUME NEW t \in Types \ WorkRaised, Pending(t)'
        PROVE  t \in Stacked'
    <3>1. count[t] > 0 /\ t \in Stacked
      BY <1>0, <1>18, <2>1, <2>2 DEF Pop, KeptInv, Pending, Reporting
    <3>2. msg[number] # t
      BY <1>0, <1>18, <2>2, <3>1 DEF Pop, KeptInv, CallInv, Reporting
    <3> QED
      BY <1>0, <2>1, <3>1, <3>2 DEF Stacked
  <2> QED
    BY <1>0, <2>1, <2>2 DEF KeptInv, Reporting
<1>19. CASE WorkRaise
  <2>1. PICK t \in WorkRaised :
            /\ number <= MaxNumber
            /\ IF NotStacked(t) THEN number' = number + 1 /\ msg' = [msg EXCEPT ![number + 1] = t]
                                ELSE UNCHANGED <<number, msg>>
            /\ count' = [count EXCEPT ![t] = Saturate(@)]
    BY <1>19 DEF WorkRaise
  <2>2. number + 1 \in 1 .. MaxNumber + 2 /\ t \in Types /\ main' = main
    BY <1>0, <1>19, <2>1, TypesApart DEF WorkRaise
  <2>3. /\ number' >= number
        /\ \A i \in 1 .. number : msg'[i] = msg[i]
        /\ msg'[number'] \in {t, msg[number]}
    <3>1. CASE NotStacked(t)
      <4>1. number' = number + 1 /\ msg' = [msg EXCEPT ![number + 1] = t]
        BY <2>1, <3>1
      <4> QED
        BY <1>0, <2>2, <4>1 DEF EventsTypeOK
    <3>2. CASE ~NotStacked(t)
      <4>1. number' = number /\ msg' = msg
        BY <2>1, <3>2
      <4> QED
        BY <1>0, <4>1
    <3> QED
      BY <3>1, <3>2
  <2>4. number' \in Nat
    BY <1>0, <2>1
  <2>5. Stacked \subseteq Stacked'
    BY <1>0, <2>3, <2>4 DEF Stacked
  <2>6. ASSUME NEW u \in Types \ WorkRaised, Pending(u)'
        PROVE  Pending(u)
    BY <1>0, <2>1, <2>2, <2>6 DEF Pending
  <2> QED
    BY <1>0, <2>2, <2>3, <2>4, <2>5, <2>6 DEF KeptInv, Reporting
<1>20. CASE WorkDownlink
  BY <1>0, <1>20 DEF WorkDownlink, KeptInv, Pending, Reporting, Stacked, events
<1>21. CASE UNCHANGED vars
  BY <1>0, <1>21 DEF vars, KeptInv, Pending, Reporting, Stacked
<1> QED
  BY <1>1, <1>2, <1>3, <1>4, <1>5, <1>6, <1>7, <1>8, <1>9, <1>10, <1>11, <1>12, <1>13, <1>14,
     <1>15, <1>16, <1>17, <1>18, <1>19, <1>20, <1>21
  DEF Next, Raise, Engine, Application, Work

\* Every step keeps the stack and the counts together while the main thread is alone.
LEMMA QuietStep ==
    ASSUME EventsTypeOK, CallInv, PlaceInv, KeptInv, QuietInv, [Next]_vars
    PROVE  QuietInv'
<1> SUFFICES ASSUME WorkRaised = {}
             PROVE  QuietInv'
  BY UsesKept DEF QuietInv
<1>0. /\ main \in MainRecord /\ main.pc \in Places /\ main.then \in Places /\ main.type \in Types
      /\ main.more \in Nat /\ MaxNumber \in Nat /\ number \in Nat /\ count \in [Types -> Nat]
      /\ count[DOWNDATA] \in Nat /\ main.missed + 1 \in Nat
  BY EventsAssumption, TypesApart DEF EventsTypeOK, MainRecord
<1>m. \A i \in 1 .. number : msg[i] \in Types
  BY EventsAssumption DEF EventsTypeOK
<1>b. ASSUME UNCHANGED <<number, msg, count>>, main.pc \notin {"bump", "pop"},
             main'.pc # "take", Recounting => Recounting',
             \A n \in Nat : StoredInv(n) => StoredInv(n)'
      PROVE  QuietInv'
  BY <1>0, <1>b, TypesApart DEF QuietInv, At
<1>u. UNCHANGED fifo => \A n \in Nat : StoredInv(n) => StoredInv(n)'
  BY DEF fifo, StoredInv
<1> USE DEF At, fifo
<1>1. CASE RaiseTest
  <2>1. main'.pc \in {"setCount", "called", "stack", "slot", "bump"} /\ main'.type = main.type
    BY <1>0, <1>1, Goes DEF RaiseTest, CallInv, Raising, Places
  <2>2. main.type = DOWNDATA => main'.pc # "called" /\ main'.pc # "stack"
    BY <1>0, <1>1, Goes DEF RaiseTest, CallInv, Raising, Places
  <2> QED
    BY <1>1, <1>b, <1>u, <2>1, <2>2 DEF RaiseTest, events, Recounting, Raising
<1>2. CASE RaiseSlot
  <2>1. main'.pc = "bump" /\ main'.type = main.type
    BY <1>0, <1>2, Goes DEF RaiseSlot, Places
  <2>2. number + 1 \in 1 .. MaxNumber + 2
    BY <1>0, <1>2 DEF RaiseSlot, PlaceInv
  <2>3. msg'[number + 1] = main.type /\ \A i \in 1 .. number : msg'[i] = msg[i]
    BY <1>0, <1>2, <2>2 DEF RaiseSlot, EventsTypeOK
  <2>4. \A i \in 1 .. number : count[msg[i]] > 0 /\ msg[i] # main.type
    BY <1>0, <1>2 DEF RaiseSlot, CallInv, QuietInv
  <2>5. number' = number + 1 /\ UNCHANGED <<count, fifo>>
    BY <1>2 DEF RaiseSlot
  <2>6. \A i, j \in 1 .. number' : msg'[i] = msg'[j] => i = j
    <3>1. SUFFICES ASSUME NEW i \in 1 .. number', NEW j \in 1 .. number', msg'[i] = msg'[j]
                   PROVE  i = j
      OBVIOUS
    <3>2. CASE i \in 1 .. number /\ j \in 1 .. number
      BY <2>3, <3>1, <3>2 DEF QuietInv
    <3>3. CASE i = number + 1 \/ j = number + 1
      BY <1>0, <2>3, <2>4, <2>5, <3>1, <3>3
    <3> QED
      BY <1>0, <2>5, <3>2, <3>3
  <2>7. \A i \in 1 .. number' : count[msg'[i]] > 0 \/ msg'[i] = main.type
    BY <1>0, <2>3, <2>4, <2>5
  <2>8. count[DOWNDATA] > 0 => Recounting' \/ StoredInv(count[DOWNDATA])
    BY <1>2, <2>1 DEF RaiseSlot, QuietInv, Recounting, Raising
  <2> QED
    BY <2>1, <2>5, <2>6, <2>7, <2>8 DEF QuietInv, StoredInv
<1>3. CASE RaiseBump
  <2>1. /\ main'.pc = main.then /\ main.then \in {"setCount", "called", "stack"}
        /\ main.then = "setCount" <=> main.type = DOWNDATA
    BY <1>0, <1>3, Goes DEF RaiseBump, CallInv, Raising
  <2>2. \A t \in Types : /\ t # main.type => count'[t] = count[t]
                         /\ t = main.type => count'[t] > 0
    BY <1>0, <1>3, Saturates DEF RaiseBump
  <2>3. \A i \in 1 .. number : count'[msg[i]] > 0
    BY <1>3, <1>m, <2>2 DEF RaiseBump, QuietInv
  <2>4. count'[DOWNDATA] > 0 => Recounting' \/ StoredInv(count'[DOWNDATA])
    BY <1>3, <2>1, <2>2, TypesApart DEF RaiseBump, QuietInv, Recounting
  <2> QED
    BY <1>3, <2>1, <2>3, <2>4 DEF RaiseBump, QuietInv, StoredInv
<1>4. CASE EngineStart
  <2>1. main'.pc \in {"raise", "alarm"}
    BY <1>0, <1>4, Goes DEF EngineStart, MainRecord, Places
  <2>2. downlinks' = downlinks /\ lost' = FALSE /\ UNCHANGED events
    BY <1>4 DEF EngineStart
  <2>3. CASE DownlinkStored
    <3>1. main'.pc = "raise" /\ main'.type = DOWNDATA
      BY <1>0, <1>4, <2>3 DEF EngineStart, MainRecord
    <3> QED
      BY <1>4, <2>2, <3>1 DEF EngineStart, QuietInv, Recounting, Raising, events
  <2>4. CASE ~DownlinkStored
    <3>1. count[DOWNDATA] = 0
      BY <1>0, <1>4, <2>4
      DEF EngineStart, DownlinkStored, QuietInv, StoredInv, Recounting, Raising
    <3> QED
      BY <1>0, <1>4, <2>1, <2>2, <3>1 DEF EngineStart, QuietInv, events
  <2> QED
    BY <2>3, <2>4
<1>5. CASE SetCount
  <2>1. main'.pc = "alarm" /\ main.more > 0 /\ StoredInv(main.more)
    BY <1>0, <1>5, Goes DEF SetCount, CallInv, Places
  <2>2. \A t \in Types : /\ t # DOWNDATA => count'[t] = count[t]
                         /\ t = DOWNDATA => count'[t] = main.more
    BY <1>0, <1>5 DEF SetCount
  <2>3. \A i \in 1 .. number : count'[msg[i]] > 0
    BY <1>0, <1>5, <1>m, <2>1, <2>2 DEF SetCount, QuietInv
  <2>4. StoredInv(count'[DOWNDATA])
    BY <2>1, <2>2, TypesApart
  <2> QED
    BY <1>5, <2>1, <2>3, <2>4 DEF SetCount, QuietInv, StoredInv
<1>6. CASE Alarm
  <2>1. main'.pc \in {"raise", "stack", "sleep", "events"}
    BY <1>0, <1>6, TypesApart, Goes, GoesRaise DEF Alarm, Places
  <2>2. UNCHANGED <<events, fifo>> /\ ~Recounting
    BY <1>6 DEF Alarm, Recounting, Raising
  <2> QED
    BY <1>6, <1>b, <1>u, <2>1, <2>2 DEF Alarm, events
<1>7. CASE AlarmCall
  BY <1>0, <1>7, <1>b, <1>u, Goes, GoesRaise, GoesCall
  DEF AlarmCall, MainRecord, Places, events, Recounting, Raising
<1>8. CASE Process
  <2>0. main' = Asleep \/ \E t \in MainTypes : GoRaise(t, "stack")
    BY <1>8, Zenon DEF Process
  <2>1. main'.pc \in {"raise", "sleep"}
    BY <1>0, <2>0, TypesApart, GoesRaise DEF Asleep, Places
  <2>2. UNCHANGED events /\ ~Recounting /\ (Store \/ UNCHANGED fifo)
    BY <1>8 DEF Process, Recounting, Raising
  <2>3. \A n \in Nat : StoredInv(n) => StoredInv(n)'
    BY <1>u, <2>2, Stores DEF EventsTypeOK
  <2> QED
    BY <1>8, <1>b, <2>1, <2>2, <2>3 DEF Process, events
<1>9. CASE Update
  <2>1. main'.pc \in {"raise", "stack", "sleep", "events"}
    BY <1>0, <1>9, TypesApart, Goes, GoesRaise DEF Update, Places
  <2>2. UNCHANGED <<events, fifo>> /\ ~Recounting
    BY <1>9 DEF Update, Recounting, Raising
  <2> QED
    BY <1>9, <1>b, <1>u, <2>1, <2>2 DEF Update, events
<1>10. CASE Events
  BY <1>0, <1>10, <1>b, <1>u, Goes, GoesRaise, GoesCall
  DEF Events, MainRecord, Places, events, Recounting, Raising
<1>11. CASE Recheck
  BY <1>0, <1>11, <1>b, <1>u, Goes, GoesRaise, GoesCall
  DEF Recheck, MainRecord, Places, events, Recounting, Raising
<1>12. CASE Compare
  BY <1>0, <1>12, <1>b, <1>u, Goes, GoesRaise, GoesCall
  DEF Compare, MainRecord, Places, events, Recounting, Raising
<1>13. CASE Launch
  BY <1>0, <1>13, <1>b, <1>u, Goes, GoesRaise, GoesCall
  DEF Launch, Asleep, MainRecord, Places, events, Recounting, Raising
<1>14. CASE GetEvent
  <2>1. /\ main'.pc \in {"take", "reset"} /\ main'.type = msg[number]
        /\ main'.pc = "take" => msg[number] = DOWNDATA
        /\ main'.missed = (count[msg[number]] - 1) % (MaxCount + 1)
        /\ UNCHANGED <<number, msg, count, fifo>>
    BY <1>0, <1>14 DEF GetEvent, MainRecord, events
  <2>2. number \in 1 .. number /\ msg[number] \in Types /\ count[msg[number]] > 0
    BY <1>0, <1>14, <1>m DEF GetEvent, QuietInv
  <2>3. main'.missed < count[msg[number]] /\ main'.missed \in Nat
    BY <1>0, <2>1, <2>2, OneLess
  <2>4. count[DOWNDATA] > 0 => StoredInv(count[DOWNDATA])
    BY <1>14 DEF GetEvent, QuietInv, Recounting, Raising
  <2>5. main'.pc = "take" => StoredInv(main'.missed + 1)
    BY <1>0, <2>1, <2>2, <2>3, <2>4 DEF EventsTypeOK, StoredInv
  <2> QED
    BY <1>14, <2>1, <2>4, <2>5 DEF GetEvent, QuietInv, StoredInv
<1>15. CASE Panic
  <2>1. PICK reset \in MainTypes : /\ msg' = [msg EXCEPT ![1] = reset]
                                  /\ count' = [t \in Types |-> IF t = reset THEN 1 ELSE 0]
    BY <1>15 DEF Panic
  <2>2. msg'[1] = reset /\ count'[reset] = 1 /\ count'[DOWNDATA] = 0
    BY <1>0, <2>1, TypesApart DEF EventsTypeOK
  <2>3. number' = 1 /\ main'.pc = "sleep"
    BY <1>15 DEF Panic, Asleep
  <2> QED
    BY <2>2, <2>3 DEF QuietInv
<1>16. CASE TakeDownlink
  <2>1. main'.pc = "reset" /\ main'.type = DOWNDATA
    BY <1>0, <1>16, Goes DEF TakeDownlink, CallInv, Places
  <2> QED
    BY <1>16, <2>1 DEF TakeDownlink, QuietInv, Recounting, events
<1>17. CASE ResetCount
  <2>1. main'.pc = "pop" /\ UNCHANGED <<number, msg, fifo>>
    BY <1>0, <1>17, Goes DEF ResetCount, Places
  <2>2. \A t \in Types : /\ t # main.type => count'[t] = count[t]
                         /\ t = main.type => count'[t] = 0
    BY <1>0, <1>17 DEF ResetCount
  <2>3. number \in 1 .. number /\ msg[number] = main.type
    BY <1>0, <1>17 DEF ResetCount, KeptInv, PlaceInv, Reporting
  <2>4. \A i \in 1 .. number : count'[msg[i]] > 0 \/ i = number
    BY <1>17, <1>m, <2>2, <2>3 DEF ResetCount, QuietInv
  <2>5. count'[DOWNDATA] > 0 => StoredInv(count'[DOWNDATA])
    BY <1>0, <1>17, <2>2, TypesApart DEF ResetCount, QuietInv, Recounting, Raising
  <2> QED
    BY <2>1, <2>4, <2>5 DEF QuietInv, StoredInv
<1>18. CASE Pop
  <2>1. /\ main'.pc \in {"get", "stack", "recheck"} /\ UNCHANGED <<msg, count, fifo>>
        /\ number' = number - 1
    BY <1>0, <1>18, Goes DEF Pop, PlaceInv, CallInv, Reporting, Places
  <2>2. \A i \in 1 .. number' : i \in 1 .. number /\ i # number
    BY <1>0, <2>1
  <2>3. count[DOWNDATA] > 0 => StoredInv(count[DOWNDATA])
    BY <1>18 DEF Pop, QuietInv, Recounting, Raising
  <2> QED
    BY <1>18, <2>1, <2>2, <2>3 DEF Pop, QuietInv, StoredInv
<1>19. CASE WorkRaise
  BY <1>19 DEF WorkRaise
<1>20. CASE WorkDownlink
  <2>1. Store /\ UNCHANGED <<events, main>>
    BY <1>20 DEF WorkDownlink
  <2>2. \A n \in Nat : StoredInv(n) => StoredInv(n)'
    BY <2>1, Stores DEF EventsTypeOK
  <2> QED
    BY <1>0, <2>1, <2>2 DEF QuietInv, Recounting, Raising, events
<1>21. CASE UNCHANGED vars
  BY <1>21 DEF vars, QuietInv, StoredInv, Recounting, Raising
<1> QED
  BY <1>1, <1>2, <1>3, <1>4, <1>5, <1>6, <1>7, <1>8, <1>9, <1>10, <1>11, <1>12, <1>13, <1>14,
     <1>15, <1>16, <1>17, <1>18, <1>19, <1>20, <1>21
  DEF Next, Raise, Engine, Application, Work

-----------------------------------------------------------------------------
(* The theorems. *)

\* No event is pending when the modem starts.
LEMMA EventsInit == Init => EventsInv
<1> SUFFICES ASSUME Init
             PROVE  EventsInv
  OBVIOUS
<1>1. PICK reset \in MainTypes : /\ msg = [i \in 1 .. MaxNumber + 2 |-> reset]
                                /\ count = [t \in Types |-> IF t = reset THEN 1 ELSE 0]
  BY DEF Init
<1>2. /\ number = 1 /\ main.pc = "sleep" /\ main \in MainRecord
      /\ MaxNumber \in Nat
  BY TypesApart, EventsAssumption DEF Init, Asleep, MainRecord, Places
<1>3. EventsTypeOK
  <2>1. msg \in [1 .. MaxNumber + 2 -> Types] /\ count \in [Types -> Nat]
    BY <1>1, TypesApart
  <2>2. busy \in BOOLEAN /\ uses \in Uses /\ downlinks = <<>> /\ lost \in BOOLEAN
    BY DEF Init
  <2> QED
    BY <1>2, <2>1, <2>2 DEF EventsTypeOK
<1>4. CallInv /\ PlaceInv
  BY <1>2 DEF CallInv, PlaceInv, Raising, Reporting, At
<1>5. HeightInv
  <2>1. Counted = {reset}
    BY <1>1, TypesApart DEF Counted
  <2>2. Cardinality(Counted) = 1 /\ ~Owed
    BY <1>2, <2>1, FS_Singleton DEF Owed, At
  <2> QED
    BY <1>2, <2>2 DEF HeightInv
<1>6. msg[1] = reset /\ count[reset] = 1 /\ count[DOWNDATA] = 0
  BY <1>1, <1>2, TypesApart
<1>7. KeptInv
  <2>1. reset \in Stacked
    BY <1>2, <1>6 DEF Stacked
  <2> QED
    BY <1>1, <1>2, <2>1 DEF KeptInv, Pending, Reporting, At
<1>8. QuietInv
  BY <1>2, <1>6 DEF QuietInv, At
<1> QED
  BY <1>3, <1>4, <1>5, <1>7, <1>8 DEF EventsInv

\* The invariant the other theorems follow from: the stack, the counts and what
\* the main thread still knows of them agree, wherever the work queue preempts it.
THEOREM EventsInvariant == Spec => []EventsInv
<1>1. ASSUME EventsInv, [Next]_vars
      PROVE  EventsInv'
  BY <1>1, TypeStep, CallStep, PlaceStep, HeightStep, KeptStep, QuietStep DEF EventsInv
<1> QED
  BY <1>1, EventsInit, PTL DEF Spec

\* get_event never panics over the number of events, as long as the two threads
\* raise different types: the stack has one entry per counted type.
NoPanic == Apart /\ At("get") => number <= MaxNumber

\* The panic of get_event is never reached, see NoPanic.
THEOREM EventsNoPanic == Spec => []NoPanic
<1>1. EventsInv => NoPanic
  BY CountedBounded, EventsAssumption
  DEF EventsInv, HeightInv, EventsTypeOK, NoPanic, Owed, At
<1> QED
  BY <1>1, EventsInvariant, PTL

\* An event of the main thread whose type the work queue does not raise is never
\* counted but not stacked when the engine has returned, unless the stack is past
\* its array.
THEOREM EventsMainEventsKept == Spec => []MainEventsKept
<1>1. EventsInv => MainEventsKept
  BY EventsAssumption DEF EventsInv, EventsTypeOK, KeptInv, Pending, MainEventsKept
<1> QED
  BY <1>1, EventsInvariant, PTL

\* get_event never asks an empty FIFO for a downlink nor counts more of them than there
\* are, as long as the work queue raises nothing; only downlinks dropped since the
\* engine counted may be counted still.
THEOREM EventsMissedAreStored == Spec => []MissedAreStored
<1>1. ASSUME EventsInv, At("take"), WorkRaised = {}
      PROVE  downlinks # <<>> /\ (~lost => main.missed < Len(downlinks))
  <2>1. StoredInv(main.missed + 1) /\ main.missed \in Nat /\ Len(downlinks) \in Nat
    BY <1>1 DEF EventsInv, QuietInv, EventsTypeOK, MainRecord
  <2> QED
    BY <2>1 DEF StoredInv
<1>2. EventsInv => MissedAreStored
  BY <1>1 DEF MissedAreStored
<1> QED
  BY <1>2, EventsInvariant, PTL

\* Class A without the user's radio: one entry of the stack per type, never more
\* than the array holds, and after each pass of the engine the types counted are
\* the types stacked.
THEOREM EventsNoEventStranded == Spec => []NoEventStranded
<1>1. ASSUME EventsInv, uses = {}
      PROVE  /\ OneMsgPerType
             /\ At("sleep") => Stacked = {t \in Types : count[t] > 0}
  <2>0. /\ WorkRaised = {} /\ Apart /\ number \in Nat /\ MaxNumber \in Nat
        /\ count \in [Types -> Nat] /\ main.type \in Types
        /\ \A i \in 1 .. number : msg[i] \in Types
    BY <1>1, EventsAssumption
    DEF WorkRaised, Apart, EventsInv, EventsTypeOK, MainRecord
  <2>1. number <= Cardinality(Counted) + (IF Owed THEN 1 ELSE 0)
    BY <1>1, <2>0 DEF EventsInv, HeightInv
  <2>2. Owed => count[main.type] = 0
    BY <1>1, <2>0 DEF EventsInv, CallInv, Owed
  <2>3. number <= MaxNumber
    BY <2>0, <2>1, <2>2, CountedRoom, CountedBounded
  <2>4. \A i, j \in 1 .. number : msg[i] = msg[j] => i = j
    BY <1>1, <2>0 DEF EventsInv, QuietInv
  <2>5. ASSUME At("sleep")
        PROVE  Stacked = {t \in Types : count[t] > 0}
    <3>1. \A i \in 1 .. number : count[msg[i]] > 0
      BY <1>1, <2>0, <2>5 DEF EventsInv, QuietInv, At
    <3>2. {t \in Types : count[t] > 0} \subseteq Stacked
      BY <1>1, <2>0, <2>3 DEF EventsInv, KeptInv, Pending
    <3> QED
      BY <2>0, <3>1, <3>2 DEF Stacked
  <2> QED
    BY <2>3, <2>4, <2>5 DEF OneMsgPerType
<1>2. EventsInv => NoEventStranded
  BY <1>1 DEF NoEventStranded
<1> QED
  BY <1>2, EventsInvariant, PTL

=============================================================================

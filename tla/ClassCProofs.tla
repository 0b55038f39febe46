---------------------------- MODULE ClassCProofs ----------------------------
(***************************************************************************)
(* Class C for any set of multicast groups, any parameters and any bound on  *)
(* the counters: no downlink twice, every session enabled is listened to,    *)
(* and the callback finds a session.                                         *)
(*                                                                           *)
(* None of the three is inductive.  That a frame is new rests on the counter *)
(* of its session being at least every counter taken (CounterInv), also      *)
(* while class A holds one it has not written; that the radio listens rests  *)
(* on which steps of the launch are done (LaunchInv), that the sessions      *)
(* agree on their parameters (SessionInv), and what the task in the planner  *)
(* was launched with (HookInv).                                              *)
(***************************************************************************)
EXTENDS ClassC, WellFoundedInduction, TLAPS

-----------------------------------------------------------------------------
(* The first session enabled is the least of a set of numbers.                *)

\* The order of the numbers, as a relation.
Below == {p \in Nat \X Nat : p[1] < p[2]}

\* It has no infinite descent.
LEMMA BelowIsWellFounded == IsWellFoundedOn(Below, Nat)
<1>1. Below = OpToRel(<, Nat) BY Zenon DEF Below, OpToRel
<1> QED BY <1>1, NatLessThanWellFounded

\* A set of numbers has a least member, which Min returns.
LEMMA MinOfNaturals ==
    ASSUME NEW T \in SUBSET Nat, T # {}
    PROVE  Min(T) \in T /\ \A k \in T : Min(T) <= k
<1>1. PICK m \in T : \A k \in T : <<k, m>> \notin Below
  BY BelowIsWellFounded, WFMin, Zenon
<1>2. ASSUME NEW k \in T PROVE m <= k
  <2>1. k \in Nat /\ m \in Nat OBVIOUS
  <2>2. <<k, m>> \in Nat \X Nat /\ ~ (k < m) BY <1>1, <2>1 DEF Below
  <2> QED BY <2>1, <2>2
<1> QED BY <1>2 DEF Min

-----------------------------------------------------------------------------
(* The inductive invariant. *)

\* Sorts of the compound variables.
Tables == [Sessions -> [enabled : BOOLEAN, param : Params \cup {None}, fcnt : 0 .. MaxCount]]
Pasts == [moved : BOOLEAN, deaf : BOOLEAN, crossed : BOOLEAN, overtaken : BOOLEAN,
          again : BOOLEAN, fault : {NoFault, "no session", "no such session"}]
Mains == {[at |-> a] : a \in {"Idle", "Started", "Leaving", "Stopping"}}
            \cup [at : {"ClassA"}, count : 1 .. MaxCount]

\* Types.
ClassCTypeOK ==
    /\ joined \in BOOLEAN /\ enabled \in BOOLEAN /\ started \in BOOLEAN
    /\ rx2 \in Params /\ fcnt \in 0 .. MaxCount /\ hook \in Params \cup {None}
    /\ table \in Tables /\ main \in Mains /\ past \in Pasts
    /\ seen \in [Sessions -> SUBSET (1 .. MaxCount)]

\* The counter of a session is the greatest taken in it; class A holds a greater one.
CounterInv ==
    /\ \A g \in Groups : \A c \in seen[g] : c <= table[g].fcnt
    /\ past.overtaken \/ \A c \in seen[Unicast] : c <= fcnt
    /\ main.at = "ClassA" => main.count > fcnt \/ past.overtaken

\* What is in the planner at each step of a launch: `started' is written last, and is
\* cleared before the task is aborted; a reception that ends in between leaves no task.
LaunchInv ==
    /\ started => enabled /\ main.at # "Started"
    /\ main.at = "Started" => enabled /\ joined
    /\ past.deaf => started \/ main.at = "Started"
    /\ started \/ main.at = "Started" \/ hook = None
    /\ Ready /\ (started \/ main.at = "Started") => (past.deaf <=> hook = None)
    /\ started => joined \/ main.at = "Leaving"

\* The multicast sessions have the same parameters.
Agreed(t) ==
    /\ \A g \in OnGroups(t) : t[g].param \in Params
    /\ \A g, h \in OnGroups(t) : t[g].param = t[h].param

\* Beside a unicast session, they have p.
AgreedWith(t, p) == t[Unicast].enabled => \A g \in OnGroups(t) : t[g].param = p

\* A session is enabled, and the multicast ones agree.
SessionInv ==
    /\ On(table) = {} => main.at = "Stopping" \/ past.crossed
    /\ main.at = "Stopping" => OnGroups(table) = {}
    /\ Agreed(table)

\* The task listens with the parameters of the sessions enabled.
HookInv == ~past.moved =>
    /\ table[Unicast].param \in {None, rx2}
    /\ AgreedWith(table, rx2)
    /\ hook # None /\ table[Unicast].enabled => hook = rx2 /\ table[Unicast].param = rx2
    /\ hook # None /\ ~past.crossed => \A g \in OnGroups(table) : hook = table[g].param

\* All of it.
ClassCInv ==
    /\ ClassCTypeOK /\ CounterInv /\ LaunchInv /\ SessionInv /\ HookInv
    /\ DownlinkOnce /\ SessionFound

-----------------------------------------------------------------------------
(* The table. *)

\* Unicast is no group, and the sessions enabled are sessions.
LEMMA SessionSets ==
    ASSUME ClassCAssumption
    PROVE  /\ Sessions \in SUBSET Nat /\ Unicast \in Sessions /\ Unicast \notin Groups
           /\ \A s \in Sessions : s = Unicast \/ s \in Groups
           /\ \A t \in Tables : On(t) \in SUBSET Sessions /\ OnGroups(t) \in SUBSET Groups
           /\ \A t \in Tables : Unicast \in On(t) <=> t[Unicast].enabled
           /\ None \notin Params
BY DEF ClassCAssumption, Sessions, Unicast, Tables, On, OnGroups

\* The same sessions, with the same parameters and counters but for unicast's parameters.
SameGroups(t, u) ==
    /\ On(t) = On(u) /\ OnGroups(t) = OnGroups(u)
    /\ \A g \in Groups : t[g] = u[g]
    /\ \A s \in Sessions : t[s].enabled = u[s].enabled /\ t[s].fcnt = u[s].fcnt

\* The unicast session's new parameters leave every other field alone.
LEMMA RefreshedTable ==
    ASSUME ClassCAssumption, NEW t \in Tables, rx2' \in Params
    PROVE  /\ Refreshed(t) \in Tables /\ Refreshed(t)[Unicast].param = rx2'
           /\ SameGroups(Refreshed(t), t)
<1>1. /\ t \in [Sessions -> [enabled : BOOLEAN, param : Params \cup {None},
                             fcnt : 0 .. MaxCount]]
      /\ Unicast \in Sessions /\ Unicast \notin Groups /\ Groups \subseteq Sessions
  BY SessionSets DEF Tables, Sessions
<1>2. Refreshed(t) = [t EXCEPT ![Unicast] = [t[Unicast] EXCEPT !.param = rx2']]
  BY DEF Refreshed
<1>3. Refreshed(t) \in Tables /\ Refreshed(t)[Unicast].param = rx2'
  BY <1>1, <1>2 DEF Tables
<1>4. \A s \in Sessions : /\ Refreshed(t)[s].enabled = t[s].enabled
                          /\ Refreshed(t)[s].fcnt = t[s].fcnt
                          /\ s # Unicast => Refreshed(t)[s] = t[s]
  BY <1>1, <1>2
<1>5. On(Refreshed(t)) = On(t) BY <1>1, <1>2, <1>4 DEF On
<1> QED BY <1>1, <1>3, <1>4, <1>5 DEF SameGroups, OnGroups

\* A launch (lr1mac_class_c_launch) listens with the parameters of the sessions enabled.
LEMMA LaunchKeeps ==
    ASSUME ClassCAssumption, NEW t \in Tables, NEW h \in Pasts, rx2' \in Params,
           Agreed(t), h.moved \/ AgreedWith(t, rx2'), Launch(t, h)
    PROVE  /\ table' \in Tables /\ hook' \in Params \cup {None} /\ past' \in Pasts
           /\ SameGroups(table', t) /\ Agreed(table') /\ HookInv'
           /\ On(t) = {} => hook' = None /\ past'.fault = "no session"
           /\ On(t) # {} => hook' # None /\ past'.fault = h.fault
           /\ past'.deaf = h.deaf /\ past'.crossed = h.crossed
           /\ past'.overtaken = h.overtaken /\ past'.again = h.again
<1> DEFINE u == Refreshed(t)
<1>1. u \in Tables /\ u[Unicast].param = rx2' /\ SameGroups(u, t) BY RefreshedTable
<1>2. /\ table' = u
      /\ hook' = IF On(u) = {} THEN None ELSE u[Min(On(u))].param
      /\ past' = [h EXCEPT !.fault = IF On(u) = {} THEN "no session" ELSE @,
                           !.moved = @ /\ OnGroups(u) # {}]
  BY DEF Launch
<1>3. /\ past' \in Pasts
      /\ past'.fault = IF On(u) = {} THEN "no session" ELSE h.fault
      /\ past'.moved = (h.moved /\ OnGroups(u) # {})
      /\ past'.deaf = h.deaf /\ past'.crossed = h.crossed
      /\ past'.overtaken = h.overtaken /\ past'.again = h.again
  BY <1>2 DEF Pasts
<1>4. Agreed(u) BY <1>1, SessionSets DEF Agreed, SameGroups
<1>5. ASSUME On(u) # {}
      PROVE  /\ Min(On(u)) \in On(u) /\ hook' = u[Min(On(u))].param
             /\ Unicast \in On(u) => Min(On(u)) = Unicast
  BY <1>1, <1>2, <1>5, MinOfNaturals, SessionSets DEF Unicast
<1>6. On(u) # {} =>
         /\ hook' \in Params
         /\ u[Unicast].enabled => hook' = rx2'
         /\ ~u[Unicast].enabled => \A g \in OnGroups(u) : hook' = u[g].param
  <2>1. CASE u[Unicast].enabled BY <1>1, <1>5, <2>1, SessionSets
  <2>2. CASE ~u[Unicast].enabled
    <3>1. On(u) = OnGroups(u) BY <1>1, <2>2, SessionSets DEF OnGroups
    <3> QED BY <1>4, <1>5, <2>2, <3>1 DEF Agreed
  <2> QED BY <2>1, <2>2
<1>7. HookInv'
  <2>1. ~past'.moved => AgreedWith(u, rx2')
    BY <1>1, <1>3, SessionSets DEF AgreedWith, SameGroups
  <2>2. On(u) = {} => hook' = None /\ ~u[Unicast].enabled /\ OnGroups(u) = {}
    BY <1>1, <1>2, SessionSets DEF OnGroups
  <2> QED BY <1>1, <1>2, <1>6, <2>1, <2>2 DEF HookInv, AgreedWith
<1> QED BY <1>1, <1>2, <1>3, <1>4, <1>6, <1>7, SessionSets DEF SameGroups

\* What a reception that ends or a task that is aborted leaves.
Outcome(t, h) ==
    /\ table' \in Tables /\ hook' \in Params \cup {None} /\ past' \in Pasts
    /\ SameGroups(table', t) /\ Agreed(table') /\ HookInv'
    /\ past'.crossed = h.crossed
    /\ past'.overtaken = h.overtaken /\ past'.again = h.again
    /\ past'.fault \in {h.fault, "no session"}
    /\ past'.fault # h.fault => On(t) = {}

\* The table and the history that a launch starts from.
Launchable(t, h) ==
    /\ t \in Tables /\ h \in Pasts /\ rx2' \in Params /\ Agreed(t)
    /\ h.moved \/ (AgreedWith(t, rx2') /\ t[Unicast].param \in {None, rx2'})

\* A table is like itself.
LEMMA SameTable ==
    ASSUME NEW t
    PROVE  SameGroups(t, t)
BY DEF SameGroups

\* The end of a reception launches the next one exactly if class C is started, and is
\* lost between the launch and the write of `started'.
LEMMA EndOfTaskKeeps ==
    ASSUME ClassCAssumption, ClassCTypeOK, LaunchInv, Ready,
           NEW t, NEW h, Launchable(t, h), h.deaf = past.deaf, h.fault = NoFault,
           \/ EndOfTask(t, h) /\ hook # None
           \/ Abort(t, h)
    PROVE  /\ Outcome(t, h)
           /\ past'.deaf => started \/ main.at = "Started"
           /\ started \/ main.at = "Started" \/ hook' = None
           /\ past'.fault = NoFault /\ (started \/ main.at = "Started") =>
                 (past'.deaf <=> hook' = None)
<1>0. /\ t \in Tables /\ h \in Pasts /\ SameGroups(t, t)
      /\ past.deaf \in BOOLEAN
  BY SameTable DEF Launchable, ClassCTypeOK, Pasts
<1>1. CASE hook = None
  <2>1. table' = t /\ past' = h /\ hook' = None BY <1>1 DEF Abort
  <2>2. HookInv' BY <2>1 DEF HookInv, Launchable
  <2> QED BY <1>0, <1>1, <2>1, <2>2 DEF Outcome, Launchable, LaunchInv
<1>2. CASE hook # None /\ started
  <2>1. Launch(t, h) BY <1>2 DEF Abort, EndOfTask
  <2>2. ~past.deaf BY <1>2 DEF LaunchInv
  <2>3. Outcome(t, h) BY <2>1, LaunchKeeps DEF Outcome, Launchable
  <2>4. /\ past'.deaf = h.deaf
        /\ On(t) = {} => hook' = None /\ past'.fault = "no session"
        /\ On(t) # {} => hook' # None
    BY <2>1, LaunchKeeps DEF Launchable
  <2> QED BY <1>0, <1>2, <2>2, <2>3, <2>4 DEF NoFault
<1>3. CASE hook # None /\ ~started
  <2>1. main.at = "Started" BY <1>3 DEF LaunchInv
  <2>2. table' = t /\ hook' = None /\ past' = [h EXCEPT !.deaf = TRUE]
    BY <1>3, <2>1 DEF Abort, EndOfTask
  <2>3. /\ past' \in Pasts /\ past'.deaf = TRUE /\ past'.moved = h.moved
        /\ past'.crossed = h.crossed /\ past'.overtaken = h.overtaken
        /\ past'.again = h.again /\ past'.fault = h.fault
    BY <1>0, <2>2 DEF Pasts
  <2>4. HookInv' BY <2>2, <2>3 DEF HookInv, Launchable
  <2> QED BY <1>0, <2>1, <2>2, <2>3, <2>4 DEF Outcome, Launchable
<1> QED BY <1>1, <1>2, <1>3

\* The invariant from its pieces.
LEMMA Reassemble ==
    ASSUME ClassCAssumption, NEW t \in Tables, NEW h \in Pasts, Outcome(t, h), LaunchInv',
           /\ joined' \in BOOLEAN /\ enabled' \in BOOLEAN /\ started' \in BOOLEAN
           /\ rx2' \in Params /\ fcnt' \in 0 .. MaxCount /\ main' \in Mains
           /\ seen' \in [Sessions -> SUBSET (1 .. MaxCount)],
           \A g \in Groups : \A c \in seen'[g] : c <= t[g].fcnt,
           h.overtaken \/ \A c \in seen'[Unicast] : c <= fcnt',
           main'.at = "ClassA" => main'.count > fcnt' \/ h.overtaken,
           h.again => h.overtaken,
           On(t) = {} => main'.at = "Stopping" \/ h.crossed,
           main'.at = "Stopping" => OnGroups(t) = {},
           h.fault = NoFault
    PROVE  ClassCInv'
<1>1. ClassCTypeOK' BY DEF ClassCTypeOK, Outcome
<1>2. CounterInv' BY DEF CounterInv, Outcome, SameGroups
<1>3. SessionInv' BY DEF SessionInv, Outcome, SameGroups
<1>4. DownlinkOnce' /\ SessionFound' BY DEF DownlinkOnce, SessionFound, Outcome, NoFault
<1>5. HookInv' BY DEF Outcome
<1> QED BY <1>1, <1>2, <1>3, <1>4, <1>5 DEF ClassCInv

-----------------------------------------------------------------------------
\* The invariant allows a launch from the table as it is.
LEMMA TableLaunchable ==
    ASSUME ClassCInv, rx2' = rx2
    PROVE  Launchable(table, past)
<1>1. table \in Tables /\ past \in Pasts /\ rx2' \in Params /\ Agreed(table)
  BY DEF ClassCInv, ClassCTypeOK, SessionInv
<1>2. past.moved \/ (AgreedWith(table, rx2') /\ table[Unicast].param \in {None, rx2'})
  BY DEF ClassCInv, HookInv
<1> QED BY <1>1, <1>2 DEF Launchable

\* A frame changes the counter of its session, and unicast's to that of class A.
LEMMA TableAfterFrame ==
    ASSUME ClassCAssumption, ClassCTypeOK, NEW s \in Sessions, NEW c \in 1 .. MaxCount
    PROVE  /\ Taken(s, c) \in Tables
           /\ On(Taken(s, c)) = On(table) /\ OnGroups(Taken(s, c)) = OnGroups(table)
           /\ \A r \in Sessions : /\ Taken(s, c)[r].enabled = table[r].enabled
                                  /\ Taken(s, c)[r].param = table[r].param
                                  /\ Taken(s, c)[r].fcnt =
                                       IF r = s THEN c
                                       ELSE IF r = Unicast THEN fcnt ELSE table[r].fcnt
           /\ Counters[s].fcnt = IF s = Unicast THEN fcnt ELSE table[s].fcnt
<1> DEFINE u == Counters
<1>1. /\ Unicast \in Sessions
      /\ table \in [Sessions -> [enabled : BOOLEAN, param : Params \cup {None},
                                 fcnt : 0 .. MaxCount]]
      /\ fcnt \in 0 .. MaxCount /\ c \in 0 .. MaxCount
  BY SessionSets DEF ClassCTypeOK, Tables, ClassCAssumption
<1>2. u = [table EXCEPT ![Unicast] = [table[Unicast] EXCEPT !.fcnt = fcnt]]
  BY DEF Counters
<1>3. /\ u \in Tables
      /\ \A r \in Sessions : /\ u[r].enabled = table[r].enabled
                             /\ u[r].param = table[r].param
                             /\ u[r].fcnt = IF r = Unicast THEN fcnt ELSE table[r].fcnt
  BY <1>1, <1>2 DEF Tables
<1>4. Taken(s, c) = [u EXCEPT ![s] = [u[s] EXCEPT !.fcnt = c]] BY DEF Taken
<1> HIDE DEF u
<1>5. /\ Taken(s, c) \in Tables
      /\ \A r \in Sessions : /\ Taken(s, c)[r].enabled = u[r].enabled
                             /\ Taken(s, c)[r].param = u[r].param
                             /\ Taken(s, c)[r].fcnt = IF r = s THEN c ELSE u[r].fcnt
  BY <1>1, <1>3, <1>4 DEF Tables
<1>6. On(Taken(s, c)) = On(table)
  BY <1>1, <1>3, <1>5 DEF On, Tables
<1> QED BY <1>1, <1>3, <1>5, <1>6 DEF OnGroups, u

\* The work queue: a reception ends, with a frame or without.
LEMMA CallbackKeeps == ASSUME ClassCAssumption, ClassCInv, Callback PROVE ClassCInv'
<1>0. /\ ClassCTypeOK /\ CounterInv /\ LaunchInv /\ SessionInv /\ HookInv
      /\ DownlinkOnce /\ SessionFound
  BY DEF ClassCInv
<1>1. CASE CallbackEmpty
  <2>1. Launchable(table, past) BY <1>1, TableLaunchable DEF CallbackEmpty
  <2>2. /\ Ready /\ hook # None /\ EndOfTask(table, past) /\ past.fault = NoFault
        /\ UNCHANGED <<joined, rx2, fcnt, enabled, started, main, seen>>
    BY <1>1 DEF CallbackEmpty, Ready
  <2>3. /\ Outcome(table, past)
        /\ past'.deaf => started \/ main.at = "Started"
        /\ started \/ main.at = "Started" \/ hook' = None
        /\ past'.fault = NoFault /\ (started \/ main.at = "Started") =>
              (past'.deaf <=> hook' = None)
    BY <1>0, <2>1, <2>2, EndOfTaskKeeps
  <2>4. LaunchInv' BY <1>0, <2>2, <2>3 DEF LaunchInv, Ready
  <2> QED
    BY <1>0, <2>2, <2>3, <2>4, Reassemble
       DEF ClassCTypeOK, CounterInv, SessionInv, DownlinkOnce
<1>2. ASSUME NEW s \in Sessions, NEW c \in 1 .. MaxCount, CallbackFrame(s, c), joined
      PROVE  ClassCInv'
  <2> DEFINE t == Taken(s, c)
             h == [past EXCEPT !.again = @ \/ c \in seen[s],
                               !.overtaken = @ \/ (main.at = "ClassA" /\ s = Unicast)]
  <2>1. /\ Ready /\ hook # None /\ past.fault = NoFault
        /\ UNCHANGED <<joined, rx2, enabled, started, main>>
        /\ table[s].enabled /\ c > Counters[s].fcnt
        /\ fcnt' = t[Unicast].fcnt
        /\ seen' = [seen EXCEPT ![s] = @ \cup {c}]
        /\ EndOfTask(t, h)
    BY <1>2 DEF CallbackFrame, Take, Ready
  <2>2. /\ h \in Pasts /\ h.fault = past.fault /\ h.deaf = past.deaf
        /\ h.moved = past.moved /\ h.crossed = past.crossed
        /\ h.again = (past.again \/ c \in seen[s])
        /\ h.overtaken = (past.overtaken \/ (main.at = "ClassA" /\ s = Unicast))
    BY <1>0 DEF ClassCTypeOK, Pasts
  <2>3. /\ t \in Tables /\ On(t) = On(table) /\ OnGroups(t) = OnGroups(table)
        /\ OnGroups(t) \subseteq Sessions /\ Unicast \in Sessions /\ Unicast \notin Groups
        /\ \A r \in Sessions : /\ t[r].enabled = table[r].enabled
                               /\ t[r].param = table[r].param
                               /\ t[r].fcnt = IF r = s THEN c
                                              ELSE IF r = Unicast THEN fcnt
                                              ELSE table[r].fcnt
    BY <1>0, <1>2, TableAfterFrame, SessionSets DEF OnGroups
  <2>4. Counters[s].fcnt = IF s = Unicast THEN fcnt ELSE table[s].fcnt
    BY <1>0, <1>2, TableAfterFrame
  <2> HIDE DEF t, h
  <2>5. Launchable(t, h)
    BY <1>0, <2>1, <2>2, <2>3, TableLaunchable
       DEF Launchable, Agreed, AgreedWith, ClassCInv
  <2>6. /\ Outcome(t, h)
        /\ past'.deaf => started \/ main.at = "Started"
        /\ started \/ main.at = "Started" \/ hook' = None
        /\ past'.fault = NoFault /\ (started \/ main.at = "Started") =>
              (past'.deaf <=> hook' = None)
    BY <1>0, <2>1, <2>2, <2>5, EndOfTaskKeeps
  <2>7. LaunchInv' BY <1>0, <2>1, <2>6 DEF LaunchInv, Ready
  <2>8. fcnt' \in 0 .. MaxCount /\ fcnt' = IF s = Unicast THEN c ELSE fcnt
    BY <1>0, <1>2, <2>1, <2>3 DEF ClassCTypeOK
  <2>9. /\ seen' \in [Sessions -> SUBSET (1 .. MaxCount)]
        /\ \A r \in Sessions : seen'[r] = IF r = s THEN seen[r] \cup {c} ELSE seen[r]
    BY <1>0, <1>2, <2>1 DEF ClassCTypeOK
  <2>10. \A g \in Groups : \A d \in seen'[g] : d <= t[g].fcnt
    BY <1>0, <1>2, <2>1, <2>3, <2>4, <2>9, SessionSets
       DEF CounterInv, ClassCTypeOK, Sessions, Tables
  <2>11. h.overtaken \/ \A d \in seen'[Unicast] : d <= fcnt'
    <3>1. fcnt \in 0 .. MaxCount /\ seen[Unicast] \in SUBSET (1 .. MaxCount)
      BY <1>0, <2>3 DEF ClassCTypeOK
    <3>2. CASE s = Unicast
      <4> SUFFICES ASSUME ~h.overtaken, NEW d \in seen'[Unicast] PROVE d <= fcnt'
        OBVIOUS
      <4>1. ~past.overtaken BY <2>2
      <4>2. c > fcnt /\ fcnt' = c BY <2>1, <2>4, <2>8, <3>2
      <4>3. d \in seen[Unicast] \/ d = c BY <2>3, <2>9, <3>2
      <4>4. d \in seen[Unicast] => d <= fcnt BY <1>0, <4>1 DEF CounterInv
      <4> QED BY <3>1, <4>2, <4>3, <4>4
    <3>3. CASE s # Unicast
      BY <1>0, <2>2, <2>3, <2>8, <2>9, <3>3 DEF CounterInv
    <3> QED BY <3>2, <3>3
  <2>12. main'.at = "ClassA" => main'.count > fcnt' \/ h.overtaken
    BY <1>0, <2>1, <2>2, <2>8 DEF CounterInv
  <2>13. h.again => h.overtaken
    BY <1>0, <1>2, <2>1, <2>2, <2>4
       DEF CounterInv, DownlinkOnce, ClassCTypeOK, Sessions, Tables
  <2> QED
    BY <1>0, <2>1, <2>2, <2>3, <2>6, <2>7, <2>8, <2>9, <2>10, <2>11, <2>12, <2>13,
       Reassemble
       DEF ClassCTypeOK, SessionInv
<1>3. ASSUME NEW s \in Sessions, NEW c \in 1 .. MaxCount, CallbackFrame(s, c), ~joined
      PROVE  ClassCInv'
  <2>1. /\ Ready /\ hook # None
        /\ past' = [past EXCEPT !.fault = "no such session"]
        /\ UNCHANGED <<joined, rx2, fcnt, enabled, started, main, seen, table, hook>>
    BY <1>3 DEF CallbackFrame, TakeStray
  <2>2. /\ past' \in Pasts /\ past'.fault = "no such session" /\ past'.deaf = past.deaf
        /\ past'.moved = past.moved /\ past'.crossed = past.crossed
        /\ past'.again = past.again /\ past'.overtaken = past.overtaken
    BY <1>0, <2>1 DEF ClassCTypeOK, Pasts
  <2>3. main.at = "Leaving" BY <1>0, <1>3, <2>1 DEF LaunchInv
  <2> QED
    BY <1>0, <2>1, <2>2, <2>3
       DEF ClassCInv, ClassCTypeOK, CounterInv, LaunchInv, Ready, NoFault, SessionInv, HookInv,
           DownlinkOnce, SessionFound
<1> QED BY <1>1, <1>2, <1>3 DEF Callback

-----------------------------------------------------------------------------
\* Stopping sessions takes their parameters and leaves the counters.
LEMMA OffTable ==
    ASSUME ClassCAssumption, NEW t \in Tables, NEW stopped \in SUBSET Groups
    PROVE  /\ Off(t, stopped) \in Tables
           /\ On(Off(t, stopped)) = On(t) \ stopped
           /\ OnGroups(Off(t, stopped)) = OnGroups(t) \ stopped
           /\ Off(t, stopped)[Unicast] = t[Unicast]
           /\ \A g \in Groups : /\ Off(t, stopped)[g].fcnt = t[g].fcnt
                                /\ g \notin stopped => Off(t, stopped)[g] = t[g]
<1>1. /\ t \in [Sessions -> [enabled : BOOLEAN, param : Params \cup {None},
                             fcnt : 0 .. MaxCount]]
      /\ DOMAIN t = Sessions /\ Unicast \in Sessions /\ Unicast \notin stopped
      /\ Groups \subseteq Sessions
  BY SessionSets DEF Tables, Sessions
<1>2. \A s \in Sessions :
         Off(t, stopped)[s] = IF s \in stopped
                              THEN [t[s] EXCEPT !.enabled = FALSE, !.param = None]
                              ELSE t[s]
  BY <1>1 DEF Off
<1>3. Off(t, stopped) \in Tables BY <1>1, <1>2 DEF Off, Tables
<1>4. \A s \in Sessions : /\ Off(t, stopped)[s].enabled <=> (s \notin stopped /\ t[s].enabled)
                          /\ Off(t, stopped)[s].fcnt = t[s].fcnt
  <2> SUFFICES ASSUME NEW s \in Sessions
               PROVE  /\ Off(t, stopped)[s].enabled <=> (s \notin stopped /\ t[s].enabled)
                      /\ Off(t, stopped)[s].fcnt = t[s].fcnt
    OBVIOUS
  <2>1. t[s] \in [enabled : BOOLEAN, param : Params \cup {None}, fcnt : 0 .. MaxCount]
    BY <1>1
  <2> HIDE DEF Off
  <2> QED BY <1>2, <2>1
<1>6. DOMAIN Off(t, stopped) = Sessions BY <1>3 DEF Tables
<1>5. On(Off(t, stopped)) = On(t) \ stopped
  <2> HIDE DEF Off
  <2> QED BY <1>1, <1>4, <1>6, ZenonT(40) DEF On
<1> QED BY <1>1, <1>2, <1>3, <1>4, <1>5 DEF OnGroups

\* Every multicast session stopped, and unicast back.
LEMMA RestoredTable ==
    ASSUME ClassCAssumption, NEW t \in Tables
    PROVE  /\ Restored(t) \in Tables /\ OnGroups(Restored(t)) = {}
           /\ Restored(t)[Unicast].param = t[Unicast].param
           /\ On(Restored(t)) = {} => On(t) = {}
           /\ \A s \in Sessions : Restored(t)[s].fcnt = t[s].fcnt
<1>1. CASE OnGroups(t) = {} BY <1>1 DEF Restored
<1>2. CASE OnGroups(t) # {}
  <2> DEFINE u == Off(t, OnGroups(t))
  <2>1. /\ u \in Tables /\ OnGroups(u) = {} /\ u[Unicast] = t[Unicast]
        /\ \A s \in Sessions : u[s].fcnt = t[s].fcnt
    BY OffTable, SessionSets
  <2>2. Restored(t) = [u EXCEPT ![Unicast] = [u[Unicast] EXCEPT !.enabled = TRUE]]
    BY <1>2 DEF Restored
  <2> HIDE DEF u
  <2>3. /\ Restored(t) \in Tables
        /\ \A s \in Sessions : /\ Restored(t)[s].fcnt = u[s].fcnt
                               /\ Restored(t)[s].param = u[s].param
                               /\ s # Unicast => Restored(t)[s].enabled = u[s].enabled
        /\ Restored(t)[Unicast].enabled
    <3>1. Unicast \in Sessions BY SessionSets
    <3>2. u \in [Sessions -> [enabled : BOOLEAN, param : Params \cup {None},
                             fcnt : 0 .. MaxCount]]
      BY <2>1 DEF Tables
    <3>3. [u[Unicast] EXCEPT !.enabled = TRUE] \in
             [enabled : BOOLEAN, param : Params \cup {None}, fcnt : 0 .. MaxCount]
      BY <3>1, <3>2
    <3>4. Restored(t) \in Tables BY <2>2, <3>2, <3>3 DEF Tables
    <3>5. \A s \in Sessions :
             Restored(t)[s] = IF s = Unicast THEN [u[Unicast] EXCEPT !.enabled = TRUE] ELSE u[s]
      BY <2>2, <3>1, <3>2
    <3>6. /\ [u[Unicast] EXCEPT !.enabled = TRUE].enabled
          /\ [u[Unicast] EXCEPT !.enabled = TRUE].fcnt = u[Unicast].fcnt
          /\ [u[Unicast] EXCEPT !.enabled = TRUE].param = u[Unicast].param
      BY <3>1, <3>2
    <3> HIDE <2>2
    <3> QED BY <3>1, <3>4, <3>5, <3>6
  <2>4. OnGroups(Restored(t)) = {}
    BY <2>1, <2>3, SessionSets DEF OnGroups, On, Tables
  <2>5. On(Restored(t)) # {} BY <2>3, SessionSets
  <2> QED BY <2>1, <2>3, <2>4, <2>5, SessionSets
<1> QED BY <1>1, <1>2

\* A step that leaves the task in the planner alone.
LEMMA SelfOutcome ==
    ASSUME table' \in Tables, hook' \in Params \cup {None}, past' \in Pasts,
           Agreed(table'), HookInv'
    PROVE  Outcome(table', past')
BY DEF Outcome, SameGroups

\* lr1mac_class_c_enabled( false ).
LEMMA DisableKeeps ==
    ASSUME ClassCAssumption, ClassCInv, Ready, main.at \in {"Idle", "Leaving"}, Disable,
           UNCHANGED <<joined, rx2, fcnt, seen>>
    PROVE  ClassCInv'
<1>0. /\ ClassCTypeOK /\ CounterInv /\ LaunchInv /\ SessionInv /\ HookInv
      /\ DownlinkOnce /\ SessionFound /\ past.fault = NoFault
      /\ table \in Tables /\ past \in Pasts
      /\ Groups \subseteq Sessions /\ Unicast \in Sessions
  BY SessionSets DEF ClassCInv, ClassCTypeOK, Ready, Sessions
<1>1. enabled' = FALSE /\ started' = FALSE /\ main' = Idle /\ main'.at = "Idle"
      /\ main' \in Mains
  BY DEF Disable, Idle, Mains
<1>2. CASE enabled
  <2>1. /\ table' = Restored(table) /\ hook' = None
        /\ past' = [past EXCEPT !.deaf = FALSE, !.crossed = @ /\ ~table'[Unicast].enabled]
    BY <1>2 DEF Disable
  <2>2. /\ past' \in Pasts /\ past'.deaf = FALSE /\ past'.fault = past.fault
        /\ past'.moved = past.moved /\ past'.again = past.again
        /\ past'.overtaken = past.overtaken
        /\ past'.crossed = (past.crossed /\ ~table'[Unicast].enabled)
    BY <1>0, <2>1 DEF Pasts
  <2>3. /\ table' \in Tables /\ OnGroups(table') = {}
        /\ table'[Unicast].param = table[Unicast].param
        /\ On(table') = {} => On(table) = {}
        /\ \A s \in Sessions : table'[s].fcnt = table[s].fcnt
    BY <1>0, <2>1, RestoredTable
  <2>4. HookInv' BY <1>0, <2>1, <2>2, <2>3 DEF HookInv, AgreedWith
  <2>5. Agreed(table') BY <2>3 DEF Agreed
  <2>6. Outcome(table', past') BY <2>1, <2>2, <2>3, <2>4, <2>5, SelfOutcome
  <2>7. LaunchInv' BY <1>1, <2>1, <2>2 DEF LaunchInv
  <2>8. On(table') = {} => past'.crossed
    BY <1>0, <2>2, <2>3, SessionSets DEF SessionInv
  <2>9. /\ joined' \in BOOLEAN /\ enabled' \in BOOLEAN /\ started' \in BOOLEAN
        /\ rx2' \in Params /\ fcnt' \in 0 .. MaxCount
        /\ seen' \in [Sessions -> SUBSET (1 .. MaxCount)]
    BY <1>0, <1>1 DEF ClassCTypeOK
  <2> QED
    BY <1>0, <1>1, <2>2, <2>3, <2>6, <2>7, <2>8, <2>9, Reassemble
       DEF CounterInv, DownlinkOnce
<1>3. CASE ~enabled
  <2>1. UNCHANGED <<table, hook, past>> BY <1>3 DEF Disable
  <2>2. ~started /\ hook = None /\ ~past.deaf BY <1>0, <1>3 DEF LaunchInv
  <2>3. LaunchInv' BY <1>1, <2>1, <2>2 DEF LaunchInv
  <2> QED
    BY <1>0, <1>1, <2>1, <2>3
       DEF ClassCInv, ClassCTypeOK, CounterInv, SessionInv, HookInv, DownlinkOnce,
           SessionFound, NoFault
<1> QED BY <1>2, <1>3

\* lr1mac_class_c_start, after a join or a change of class.
LEMMA StartKeeps ==
    ASSUME ClassCAssumption, ClassCInv, MainIdle, NEW h \in Pasts,
           rx2' \in Params, h.moved \/ (~past.moved /\ rx2' = rx2),
           h.deaf = past.deaf, h.fault = past.fault, h.crossed = past.crossed,
           h.again = past.again, h.overtaken = past.overtaken,
           Start(table, h), started' = started, enabled' \in BOOLEAN, joined' \in BOOLEAN,
           enabled => enabled', joined => joined',
           fcnt' \in 0 .. MaxCount, seen' \in [Sessions -> SUBSET (1 .. MaxCount)],
           \A g \in Groups : seen'[g] = seen[g],
           past.overtaken \/ \A c \in seen'[Unicast] : c <= fcnt'
    PROVE  ClassCInv'
<1>0. /\ ClassCTypeOK /\ CounterInv /\ LaunchInv /\ SessionInv /\ HookInv
      /\ DownlinkOnce /\ SessionFound /\ past.fault = NoFault
      /\ table \in Tables /\ past \in Pasts /\ started \in BOOLEAN
      /\ main = Idle /\ main.at = "Idle" /\ SameGroups(table, table)
  BY SameTable DEF ClassCInv, ClassCTypeOK, MainIdle, Ready, Idle
<1>1. /\ \A g \in Groups : \A c \in seen'[g] : c <= table[g].fcnt
      /\ On(table) = {} => h.crossed
      /\ h.again => h.overtaken
  BY <1>0 DEF CounterInv, SessionInv, DownlinkOnce
<1>2. CASE enabled' /\ joined' /\ ~started
  <2>1. Launch(table, h) /\ main' = [at |-> "Started"] BY <1>2 DEF Start
  <2>2. main' \in Mains /\ main'.at = "Started" BY <2>1 DEF Mains
  <2>3. h.moved \/ AgreedWith(table, rx2') BY <1>0 DEF HookInv
  <2>4. /\ Outcome(table, h) /\ past'.deaf = h.deaf
        /\ past'.fault = NoFault => hook' # None
    BY <1>0, <2>1, <2>3, LaunchKeeps DEF Outcome, SessionInv, NoFault
  <2>5. ~h.deaf BY <1>0, <1>2 DEF LaunchInv
  <2>6. LaunchInv' BY <1>2, <2>2, <2>4, <2>5 DEF LaunchInv, Ready
  <2> QED BY <1>0, <1>1, <1>2, <2>2, <2>4, <2>6, Reassemble
<1>3. CASE ~(enabled' /\ joined' /\ ~started)
  <2>1. table' = table /\ past' = h /\ main' = Idle /\ hook' = hook BY <1>3 DEF Start
  <2>2. main' \in Mains /\ main'.at = "Idle" BY <2>1 DEF Mains, Idle
  <2>3. HookInv' BY <1>0, <2>1 DEF HookInv
  <2>4. Outcome(table, h)
    BY <1>0, <2>1, <2>3 DEF Outcome, SessionInv, ClassCTypeOK
  <2>5. LaunchInv' BY <1>0, <2>1, <2>2 DEF LaunchInv, Ready
  <2> QED BY <1>0, <1>1, <2>2, <2>4, <2>5, Reassemble
<1> QED BY <1>2, <1>3

\* lr1mac_class_c_multicast_start_session, the table with the new session.
Begun(t, g, p) == [t EXCEPT ![g] = [enabled |-> TRUE, param |-> p, fcnt |-> 0]]

\* The new session agrees with the others (Compatible looks at the first only).
LEMMA StartedTable ==
    ASSUME ClassCAssumption, NEW t \in Tables, NEW g \in Groups, NEW p \in Params,
           Agreed(t), OnGroups(t) # {} => t[Min(OnGroups(t))].param = p,
           NEW u, u = Begun(t, g, p)
    PROVE  /\ u \in Tables /\ u[Unicast] = t[Unicast] /\ g \in OnGroups(u)
           /\ OnGroups(u) = OnGroups(t) \cup {g}
           /\ \A k \in OnGroups(u) : u[k].param = p
           /\ \A k \in OnGroups(t) : t[k].param = p
           /\ \A k \in Groups : u[k].fcnt = IF k = g THEN 0 ELSE t[k].fcnt
<1>0. u = [t EXCEPT ![g] = [enabled |-> TRUE, param |-> p, fcnt |-> 0]] BY DEF Begun
<1>1. /\ g \in Sessions /\ g # Unicast /\ Groups \subseteq Sessions /\ Unicast \in Sessions
      /\ OnGroups(t) \in SUBSET Nat
  BY SessionSets DEF Sessions
<1>2. u \in Tables /\ \A k \in Sessions : k # g => u[k] = t[k]
  BY <1>0, <1>1 DEF Tables, ClassCAssumption
<1>3. u[g] = [enabled |-> TRUE, param |-> p, fcnt |-> 0] BY <1>0, <1>1 DEF Tables
<1>4. OnGroups(u) = OnGroups(t) \cup {g}
  <2>1. \A k \in Sessions : k \in On(u) <=> k = g \/ k \in On(t)
    BY <1>1, <1>2, <1>3 DEF On, Tables
  <2> QED BY <1>1, <1>2, <2>1, SessionSets DEF OnGroups
<1>5. \A k \in OnGroups(t) : t[k].param = p
  BY <1>1, MinOfNaturals DEF Agreed
<1>6. \A k \in OnGroups(u) : u[k].param = p
  <2> SUFFICES ASSUME NEW k \in OnGroups(u) PROVE u[k].param = p
    OBVIOUS
  <2>1. CASE k = g BY <1>3, <2>1
  <2>2. CASE k # g
    <3>1. k \in OnGroups(t) BY <1>4, <2>2
    <3>2. k \in Sessions BY <1>1, <3>1, SessionSets
    <3> QED BY <1>2, <1>5, <2>2, <3>1, <3>2
  <2> QED BY <2>1, <2>2
<1>7. \A k \in Groups : u[k].fcnt = IF k = g THEN 0 ELSE t[k].fcnt
  <2> SUFFICES ASSUME NEW k \in Groups PROVE u[k].fcnt = IF k = g THEN 0 ELSE t[k].fcnt
    OBVIOUS
  <2>1. CASE k = g BY <1>3, <2>1
  <2>2. CASE k # g
    <3>1. u[k] = t[k] BY <1>1, <1>2, <2>2
    <3> QED BY <2>2, <3>1
  <2> QED BY <2>1, <2>2
<1>8. u[Unicast] = t[Unicast] BY <1>1, <1>2
<1> QED BY <1>2, <1>4, <1>5, <1>6, <1>7, <1>8, Zenon

-----------------------------------------------------------------------------
\* The invariant holds at first.
LEMMA InitClassC == ASSUME ClassCAssumption, Init PROVE ClassCInv
<1>1. /\ Unicast \in Sessions /\ Unicast \notin Groups /\ None \notin Params
      /\ Groups \subseteq Sessions
  BY SessionSets DEF Sessions
<1>2. table \in Tables /\ Unicast \in On(table) /\ OnGroups(table) = {}
  <2>1. /\ DOMAIN table = Sessions
        /\ \A s \in Sessions : /\ table[s].enabled <=> s = Unicast
                               /\ table[s] \in [enabled : BOOLEAN,
                                               param : Params \cup {None},
                                               fcnt : 0 .. MaxCount]
    <3>1. table = [s \in Sessions |-> [enabled |-> s = Unicast, param |-> None, fcnt |-> 0]]
      BY DEF Init
    <3>2. 0 \in 0 .. MaxCount BY DEF ClassCAssumption
    <3>3. \A s \in Sessions : table[s] = [enabled |-> s = Unicast, param |-> None, fcnt |-> 0]
      BY <3>1
    <3>4. \A s \in Sessions : table[s].enabled <=> s = Unicast
      <4> SUFFICES ASSUME NEW s \in Sessions PROVE table[s].enabled <=> s = Unicast
        OBVIOUS
      <4>1. table[s] = [enabled |-> s = Unicast, param |-> None, fcnt |-> 0] BY <3>3
      <4>2. ASSUME NEW b \in BOOLEAN, b = (s = Unicast) PROVE table[s].enabled = b
        <5>1. table[s] = [enabled |-> b, param |-> None, fcnt |-> 0] BY <4>1, <4>2, Zenon
        <5> QED BY <5>1
      <4>3. table[s].enabled = (s = Unicast) BY <4>2, Zenon
      <4> QED BY <4>3
    <3>5. \A s \in Sessions : table[s] \in [enabled : BOOLEAN, param : Params \cup {None},
                                            fcnt : 0 .. MaxCount]
      <4> SUFFICES ASSUME NEW s \in Sessions
                   PROVE  table[s] \in [enabled : BOOLEAN, param : Params \cup {None},
                                         fcnt : 0 .. MaxCount]
        OBVIOUS
      <4>1. table[s] = [enabled |-> s = Unicast, param |-> None, fcnt |-> 0] BY <3>3
      <4>2. (s = Unicast) \in BOOLEAN OBVIOUS
      <4> QED BY <3>2, <4>1, <4>2
    <3> QED BY <3>1, <3>4, <3>5
  <2>2. table \in Tables
    <3>1. table = [s \in Sessions |-> table[s]] BY DEF Init
    <3> QED BY <2>1, <3>1 DEF Tables
  <2>3. On(table) = {Unicast} BY <1>1, <2>1 DEF On
  <2> QED BY <2>2, <2>3 DEF OnGroups
<1>3. past \in Pasts /\ main \in Mains BY DEF Init, Pasts, Mains, Idle
<1>4. ClassCTypeOK
  <2>1. joined \in BOOLEAN /\ enabled \in BOOLEAN /\ started \in BOOLEAN BY DEF Init
  <2>2. seen \in [Sessions -> SUBSET (1 .. MaxCount)] BY DEF Init
  <2>3. rx2 \in Params /\ fcnt \in 0 .. MaxCount /\ hook \in Params \cup {None}
    BY DEF Init, ClassCAssumption
  <2> QED BY <1>2, <1>3, <2>1, <2>2, <2>3 DEF ClassCTypeOK
<1>5. CounterInv BY <1>1 DEF Init, CounterInv, Idle
<1>6. LaunchInv BY DEF Init, LaunchInv, Idle
<1>7. SessionInv /\ HookInv
  BY <1>1, <1>2 DEF Init, SessionInv, HookInv, Agreed, AgreedWith, Idle
<1>8. DownlinkOnce /\ SessionFound BY DEF Init, DownlinkOnce, SessionFound, NoFault
<1> QED BY <1>4, <1>5, <1>6, <1>7, <1>8 DEF ClassCInv

\* Every step keeps it.
LEMMA NextClassC == ASSUME ClassCAssumption, ClassCInv, [Next]_vars PROVE ClassCInv'
<1>0. /\ ClassCTypeOK /\ CounterInv /\ LaunchInv /\ SessionInv /\ HookInv
      /\ DownlinkOnce /\ SessionFound
      /\ table \in Tables /\ past \in Pasts /\ started \in BOOLEAN
      /\ Groups \subseteq Sessions /\ Unicast \in Sessions /\ Unicast \notin Groups
      /\ None \notin Params
  BY SessionSets DEF ClassCInv, ClassCTypeOK, Sessions
<1>1. ASSUME MainIdle PROVE main.at = "Idle" /\ past.fault = NoFault /\ Ready
  BY <1>1 DEF MainIdle, Idle, Ready
<1>2. CASE Callback BY <1>2, CallbackKeeps
<1>3. ASSUME NEW p \in Params, Join(p) PROVE ClassCInv'
  <2> DEFINE h == [past EXCEPT !.moved = @ \/ p # rx2]
  <2>1. /\ h \in Pasts /\ h.moved = (past.moved \/ p # rx2)
        /\ h.deaf = past.deaf /\ h.fault = past.fault /\ h.crossed = past.crossed
        /\ h.again = past.again /\ h.overtaken = past.overtaken
    BY <1>0 DEF Pasts
  <2>2. /\ MainIdle /\ joined' = TRUE /\ rx2' = p /\ fcnt' = 0
        /\ seen' = [seen EXCEPT ![Unicast] = {}]
        /\ enabled' = enabled /\ started' = started /\ Start(table, h)
    BY <1>3 DEF Join
  <2>3. /\ seen' \in [Sessions -> SUBSET (1 .. MaxCount)] /\ seen'[Unicast] = {}
        /\ \A g \in Groups : seen'[g] = seen[g]
    BY <1>0, <2>2 DEF ClassCTypeOK
  <2>4. fcnt' \in 0 .. MaxCount /\ enabled' \in BOOLEAN /\ joined' \in BOOLEAN
    BY <1>0, <2>2 DEF ClassCTypeOK, ClassCAssumption
  <2> HIDE DEF h
  <2> QED BY <2>1, <2>2, <2>3, <2>4, StartKeeps
<1>4. CASE SetClassC
  <2>1. /\ MainIdle /\ enabled' = TRUE /\ Start(table, past)
        /\ UNCHANGED <<joined, rx2, fcnt, seen, started>>
    BY <1>4 DEF SetClassC
  <2> QED BY <1>0, <2>1, StartKeeps DEF ClassCTypeOK, CounterInv
<1>5. ASSUME NEW p \in Params, RxParamSetup(p) PROVE ClassCInv'
  <2>1. /\ rx2' = p /\ past' = [past EXCEPT !.moved = TRUE]
        /\ UNCHANGED <<joined, fcnt, enabled, started, table, hook, main, seen>>
    BY <1>5 DEF RxParamSetup
  <2>2. /\ past' \in Pasts /\ past'.moved = TRUE /\ past'.deaf = past.deaf
        /\ past'.fault = past.fault /\ past'.crossed = past.crossed
        /\ past'.again = past.again /\ past'.overtaken = past.overtaken
    BY <1>0, <2>1 DEF Pasts
  <2> QED
    BY <1>0, <2>1, <2>2
       DEF ClassCInv, ClassCTypeOK, CounterInv, LaunchInv, Ready, SessionInv, HookInv,
           DownlinkOnce, SessionFound
<1>6. CASE WriteStarted
  <2>1. /\ main.at = "Started" /\ Ready /\ started' = TRUE /\ main' = Idle
        /\ main'.at = "Idle" /\ main' \in Mains
        /\ UNCHANGED <<joined, rx2, fcnt, enabled, table, hook, seen, past>>
    BY <1>6 DEF WriteStarted, Idle, Mains
  <2> QED
    BY <1>0, <2>1
       DEF ClassCInv, ClassCTypeOK, CounterInv, LaunchInv, Ready, SessionInv, HookInv,
           DownlinkOnce, SessionFound, NoFault
<1>7. CASE SetOtherClass BY <1>1, <1>7, DisableKeeps DEF SetOtherClass
<1>8. CASE LeaveEnd BY <1>8, DisableKeeps DEF LeaveEnd
<1>9. CASE Leave
  <2>1. /\ main.at = "Idle" /\ past.fault = NoFault /\ joined' = FALSE
        /\ main'.at = "Leaving" /\ main' \in Mains
        /\ UNCHANGED <<rx2, fcnt, enabled, started, table, hook, seen, past>>
    BY <1>1, <1>9 DEF Leave, Mains
  <2> QED
    BY <1>0, <2>1
       DEF ClassCInv, ClassCTypeOK, CounterInv, LaunchInv, Ready, SessionInv, HookInv,
           DownlinkOnce, SessionFound, NoFault
<1>10. ASSUME NEW g \in Groups, NEW p \in Params, StartMulticast(g, p) PROVE ClassCInv'
  <2> DEFINE u == Begun(table, g, p)
  <2>1. /\ MainIdle /\ enabled /\ Compatible(p) /\ seen' = [seen EXCEPT ![g] = {}]
        /\ UNCHANGED <<joined, rx2, fcnt, enabled, started, main>>
        /\ IF table[Unicast].param # p
           THEN Abort([u EXCEPT ![Unicast].enabled = FALSE], past)
           ELSE table' = u /\ UNCHANGED <<hook, past>>
    BY <1>10 DEF StartMulticast, Begun
  <2>2. /\ u \in Tables /\ u[Unicast] = table[Unicast] /\ g \in OnGroups(u)
        /\ OnGroups(u) = OnGroups(table) \cup {g}
        /\ \A k \in OnGroups(u) : u[k].param = p
        /\ \A k \in OnGroups(table) : table[k].param = p
        /\ \A k \in Groups : u[k].fcnt = IF k = g THEN 0 ELSE table[k].fcnt
    <3>1. Agreed(table) /\ (OnGroups(table) # {} => table[Min(OnGroups(table))].param = p)
      BY <1>0, <2>1 DEF SessionInv, Compatible
    <3>2. u = Begun(table, g, p) OBVIOUS
    <3> HIDE DEF u
    <3> QED BY <1>0, <3>1, <3>2, StartedTable
  <2>3. /\ seen' \in [Sessions -> SUBSET (1 .. MaxCount)] /\ seen'[g] = {}
        /\ \A s \in Sessions : s # g => seen'[s] = seen[s]
    BY <1>0, <2>1 DEF ClassCTypeOK
  <2> HIDE DEF u
  <2>4. \A k \in Groups : \A c \in seen'[k] : c <= u[k].fcnt
    BY <1>0, <2>2, <2>3 DEF CounterInv
  <2>5. past.overtaken \/ \A c \in seen'[Unicast] : c <= fcnt'
    BY <1>0, <2>1, <2>3 DEF CounterInv
  <2>6. CASE table[Unicast].param # p
    <3> DEFINE t == [u EXCEPT ![Unicast].enabled = FALSE]
    <3>1. /\ t \in Tables /\ t[Unicast].enabled = FALSE /\ t[Unicast].param = u[Unicast].param
          /\ \A k \in Sessions : k # Unicast => t[k] = u[k]
      BY <1>0, <2>2, ZenonT(60) DEF Tables
    <3>2. OnGroups(t) = OnGroups(u)
      BY <1>0, <2>2, <3>1 DEF OnGroups, On, Tables
    <3>3. Abort(t, past) BY <2>1, <2>6
    <3> HIDE DEF t
    <3>4. Launchable(t, past)
      BY <1>0, <2>1, <2>2, <3>1, <3>2, SessionSets
         DEF Launchable, Agreed, AgreedWith, HookInv, ClassCTypeOK
    <3>5. /\ Outcome(t, past)
          /\ past'.deaf => started \/ main.at = "Started"
          /\ started \/ main.at = "Started" \/ hook' = None
          /\ past'.fault = NoFault /\ (started \/ main.at = "Started") =>
                (past'.deaf <=> hook' = None)
      BY <1>0, <1>1, <2>1, <3>3, <3>4, EndOfTaskKeeps
    <3>6. LaunchInv' BY <1>0, <2>1, <3>5 DEF LaunchInv, Ready
    <3>7. On(t) # {} BY <2>2, <3>2 DEF OnGroups
    <3>8. \A k \in Groups : t[k].fcnt = u[k].fcnt BY <1>0, <3>1
    <3> QED
      BY <1>0, <1>1, <2>1, <2>3, <2>4, <2>5, <3>1, <3>5, <3>6, <3>7, <3>8, Reassemble
         DEF ClassCTypeOK, CounterInv, DownlinkOnce
  <2>7. CASE table[Unicast].param = p
    <3>1. table' = u /\ UNCHANGED <<hook, past>> BY <2>1, <2>7
    <3>2. On(u) # {} BY <2>2 DEF OnGroups
    <3>3. table[Unicast].enabled => u[Unicast].enabled BY <2>2
    <3>4. HookInv'
      <4> SUFFICES ASSUME ~past.moved
                   PROVE  /\ u[Unicast].param \in {None, rx2} /\ AgreedWith(u, rx2)
                          /\ hook # None /\ u[Unicast].enabled =>
                                hook = rx2 /\ u[Unicast].param = rx2
                          /\ hook # None /\ ~past.crossed =>
                                \A k \in OnGroups(u) : hook = u[k].param
        BY <2>1, <3>1 DEF HookInv
      <4>1. p = rx2 BY <1>0, <2>7 DEF HookInv
      <4>2. hook # None /\ u[Unicast].enabled => hook = rx2 /\ u[Unicast].param = rx2
        BY <1>0, <2>2 DEF HookInv
      <4>3. hook # None /\ ~past.crossed => hook = p
        <5>1. On(table) # {} \/ past.crossed BY <1>0, <1>1, <2>1 DEF SessionInv
        <5>2. table[Unicast].enabled \/ OnGroups(table) # {} \/ past.crossed
          BY <1>0, <5>1, SessionSets DEF OnGroups
        <5> QED BY <1>0, <2>2, <4>1, <5>2 DEF HookInv
      <4> QED BY <2>2, <2>7, <4>1, <4>2, <4>3 DEF AgreedWith
    <3>5. Agreed(u) BY <2>2 DEF Agreed
    <3>6. Outcome(table', past')
      BY <1>0, <2>2, <3>1, <3>4, <3>5, SelfOutcome DEF ClassCTypeOK
    <3>7. LaunchInv' BY <1>0, <2>1, <3>1 DEF LaunchInv, Ready
    <3> QED
      BY <1>0, <1>1, <2>1, <2>2, <2>3, <2>4, <2>5, <3>1, <3>2, <3>6, <3>7, Reassemble
         DEF ClassCTypeOK, CounterInv, DownlinkOnce
  <2> QED BY <2>6, <2>7
<1>11. ASSUME NEW stopped \in SUBSET Groups, StopMulticast(stopped) PROVE ClassCInv'
  <2>1. /\ main.at = "Idle" /\ past.fault = NoFault /\ table' = Off(table, stopped)
        /\ main' = IF OnGroups(table') = {} THEN [at |-> "Stopping"] ELSE Idle
        /\ UNCHANGED <<joined, rx2, fcnt, enabled, started, hook, seen, past>>
    BY <1>1, <1>11 DEF StopMulticast
  <2>2. /\ main' \in Mains /\ main'.at \in {"Idle", "Stopping"}
        /\ main'.at = "Stopping" <=> OnGroups(table') = {}
    BY <2>1 DEF Mains, Idle
  <2>3. /\ table' \in Tables /\ table'[Unicast] = table[Unicast]
        /\ OnGroups(table') = OnGroups(table) \ stopped
        /\ \A k \in Groups : /\ table'[k].fcnt = table[k].fcnt
                             /\ k \notin stopped => table'[k] = table[k]
    BY <1>0, <2>1, OffTable
  <2>4. \A k \in OnGroups(table') : k \in OnGroups(table) /\ table'[k] = table[k]
    BY <1>0, <2>3, SessionSets
  <2> HIDE <2>1
  <2>5. HookInv' BY <1>0, <2>1, <2>3, <2>4 DEF HookInv, AgreedWith
  <2>6. Agreed(table') BY <1>0, <2>4 DEF Agreed, SessionInv
  <2>7. Outcome(table', past')
    BY <1>0, <2>1, <2>3, <2>5, <2>6, SelfOutcome DEF ClassCTypeOK
  <2>8. LaunchInv' BY <1>0, <2>1, <2>2 DEF LaunchInv, Ready
  <2>9. On(table') = {} => OnGroups(table') = {} BY DEF OnGroups
  <2> QED
    BY <1>0, <2>1, <2>2, <2>3, <2>7, <2>8, <2>9, Reassemble
       DEF ClassCTypeOK, CounterInv, DownlinkOnce
<1>12. ASSUME NEW g \in Groups, StopMulticastB(g) PROVE ClassCInv'
  <2>1. /\ main.at = "Idle" /\ past.fault = NoFault /\ table' = Off(table, {g})
        /\ past' = [past EXCEPT !.crossed = @ \/ On(table') = {}]
        /\ UNCHANGED <<joined, rx2, fcnt, enabled, started, hook, main, seen>>
    BY <1>1, <1>12 DEF StopMulticastB
  <2>2. /\ past' \in Pasts /\ past'.moved = past.moved /\ past'.deaf = past.deaf
        /\ past'.fault = past.fault
        /\ past.crossed \/ On(table') = {} => past'.crossed
        /\ past'.again = past.again /\ past'.overtaken = past.overtaken
    BY <1>0, <2>1 DEF Pasts
  <2>3. /\ table' \in Tables /\ table'[Unicast] = table[Unicast]
        /\ OnGroups(table') = OnGroups(table) \ {g}
        /\ \A k \in Groups : /\ table'[k].fcnt = table[k].fcnt
                             /\ k \notin {g} => table'[k] = table[k]
    BY <1>0, <2>1, OffTable
  <2>4. \A k \in OnGroups(table') : k \in OnGroups(table) /\ table'[k] = table[k]
    BY <1>0, <2>3, SessionSets
  <2> HIDE <2>1
  <2>5. HookInv'
    <3> SUFFICES ASSUME ~past'.moved
                 PROVE  /\ table'[Unicast].param \in {None, rx2'}
                        /\ AgreedWith(table', rx2')
                        /\ hook' # None /\ table'[Unicast].enabled =>
                              hook' = rx2' /\ table'[Unicast].param = rx2'
                        /\ hook' # None /\ ~past'.crossed =>
                              \A k \in OnGroups(table') : hook' = table'[k].param
      BY DEF HookInv
    <3>1. /\ ~past.moved /\ rx2' = rx2 /\ hook' = hook
          /\ ~past'.crossed => ~past.crossed
      BY <2>1, <2>2
    <3>2. /\ table'[Unicast].param \in {None, rx2'}
          /\ hook' # None /\ table'[Unicast].enabled =>
                hook' = rx2' /\ table'[Unicast].param = rx2'
      BY <1>0, <2>3, <3>1 DEF HookInv
    <3>3. AgreedWith(table', rx2') BY <1>0, <2>3, <2>4, <3>1 DEF HookInv, AgreedWith
    <3>4. hook' # None /\ ~past'.crossed =>
             \A k \in OnGroups(table') : hook' = table'[k].param
      BY <1>0, <2>4, <3>1 DEF HookInv
    <3> QED BY <3>2, <3>3, <3>4
  <2>6. Agreed(table') BY <1>0, <2>4 DEF Agreed, SessionInv
  <2>7. Outcome(table', past')
    BY <1>0, <2>1, <2>2, <2>3, <2>5, <2>6, SelfOutcome DEF ClassCTypeOK
  <2>8. LaunchInv' BY <1>0, <2>1, <2>2 DEF LaunchInv, Ready
  <2> QED
    BY <1>0, <2>1, <2>2, <2>3, <2>7, <2>8, Reassemble, ZenonT(60)
       DEF ClassCTypeOK, CounterInv, DownlinkOnce
<1>13. CASE StopEnd
  <2> DEFINE t == [table EXCEPT ![Unicast].enabled = TRUE]
             h == [past EXCEPT !.crossed = FALSE]
  <2>1. /\ main.at = "Stopping" /\ Ready /\ past.fault = NoFault
        /\ main'.at = "Idle" /\ main' \in Mains /\ Abort(t, h)
        /\ UNCHANGED <<joined, rx2, fcnt, enabled, started, seen>>
    BY <1>13 DEF StopEnd, Idle, Mains, Ready
  <2>2. /\ h \in Pasts /\ h.fault = past.fault /\ h.deaf = past.deaf
        /\ h.moved = past.moved /\ h.crossed = FALSE
        /\ h.again = past.again /\ h.overtaken = past.overtaken
    BY <1>0 DEF Pasts
  <2>3. /\ t \in Tables /\ t[Unicast].enabled /\ t[Unicast].param = table[Unicast].param
        /\ \A k \in Sessions : k # Unicast => t[k] = table[k]
    BY <1>0 DEF Tables
  <2> HIDE DEF t, h
  <2>4. OnGroups(t) = {} /\ On(t) # {}
    BY <1>0, <2>1, <2>3, SessionSets DEF SessionInv, OnGroups, On, Tables
  <2>5. Launchable(t, h)
    BY <1>0, <2>1, <2>2, <2>3, <2>4
       DEF Launchable, Agreed, AgreedWith, HookInv, ClassCTypeOK
  <2>6. /\ Outcome(t, h)
        /\ past'.deaf => started \/ main.at = "Started"
        /\ started \/ main.at = "Started" \/ hook' = None
        /\ past'.fault = NoFault /\ (started \/ main.at = "Started") =>
              (past'.deaf <=> hook' = None)
    BY <1>0, <2>1, <2>2, <2>5, EndOfTaskKeeps
  <2>7. LaunchInv' BY <1>0, <2>1, <2>6 DEF LaunchInv, Ready
  <2>8. \A k \in Groups : t[k].fcnt = table[k].fcnt BY <1>0, <2>3
  <2> QED
    BY <1>0, <2>1, <2>2, <2>3, <2>4, <2>6, <2>7, <2>8, Reassemble
       DEF ClassCTypeOK, CounterInv, DownlinkOnce
<1>14. ASSUME NEW c \in 1 .. MaxCount, ClassARead(c) PROVE ClassCInv'
  <2>1. /\ main.at = "Idle" /\ past.fault = NoFault /\ c > fcnt
        /\ main'.at = "ClassA" /\ main'.count = c /\ main' \in Mains
        /\ UNCHANGED <<joined, rx2, fcnt, enabled, started, table, hook, seen, past>>
    BY <1>1, <1>14 DEF ClassARead, Mains
  <2> QED
    BY <1>0, <2>1
       DEF ClassCInv, ClassCTypeOK, CounterInv, LaunchInv, Ready, SessionInv, HookInv,
           DownlinkOnce, SessionFound, NoFault
<1>15. CASE ClassAWrite
  <2>1. /\ main.at = "ClassA" /\ past.fault = NoFault
        /\ main'.at = "Idle" /\ main' \in Mains /\ fcnt' = main.count
        /\ seen' = [seen EXCEPT ![Unicast] = @ \cup {main.count}]
        /\ past' = [past EXCEPT !.again = @ \/ main.count \in seen[Unicast]]
        /\ UNCHANGED <<joined, rx2, enabled, started, table, hook>>
    BY <1>15 DEF ClassAWrite, Idle, Mains, Ready
  <2>2. main.count \in 1 .. MaxCount BY <1>0, <2>1 DEF ClassCTypeOK, Mains
  <2>3. /\ past' \in Pasts /\ past'.moved = past.moved /\ past'.deaf = past.deaf
        /\ past'.fault = past.fault /\ past'.crossed = past.crossed
        /\ past'.again = (past.again \/ main.count \in seen[Unicast])
        /\ past'.overtaken = past.overtaken
    BY <1>0, <2>1 DEF Pasts
  <2>4. /\ seen' \in [Sessions -> SUBSET (1 .. MaxCount)]
        /\ seen'[Unicast] = seen[Unicast] \cup {main.count}
        /\ \A k \in Groups : seen'[k] = seen[k]
    BY <1>0, <2>1, <2>2 DEF ClassCTypeOK
  <2>5. ~past.overtaken => main.count > fcnt /\ \A c \in seen[Unicast] : c <= fcnt
    BY <1>0, <2>1 DEF CounterInv
  <2>6. seen[Unicast] \in SUBSET (1 .. MaxCount) /\ fcnt \in 0 .. MaxCount
    BY <1>0 DEF ClassCTypeOK
  <2>7. past.overtaken \/ \A c \in seen'[Unicast] : c <= fcnt'
    BY <2>1, <2>2, <2>4, <2>5, <2>6
  <2>8. past'.again => past'.overtaken
    <3>1. main.count \in seen[Unicast] => past.overtaken BY <2>2, <2>5, <2>6
    <3> QED BY <1>0, <2>3, <3>1 DEF DownlinkOnce
  <2>9. HookInv' BY <1>0, <2>1, <2>3 DEF HookInv
  <2>10. LaunchInv' BY <1>0, <2>1, <2>3 DEF LaunchInv, Ready
  <2>11. ClassCTypeOK'
    <3>1. fcnt' \in 0 .. MaxCount BY <2>1, <2>2
    <3> QED BY <1>0, <2>1, <2>3, <2>4, <3>1 DEF ClassCTypeOK
  <2>12. CounterInv'
    <3>1. \A g \in Groups : \A c \in seen'[g] : c <= table'[g].fcnt
      BY <1>0, <2>1, <2>4 DEF CounterInv
    <3> QED BY <2>1, <2>7, <3>1 DEF CounterInv
  <2>13. SessionInv' BY <1>0, <2>1, <2>3 DEF SessionInv
  <2>14. DownlinkOnce' /\ SessionFound'
    <3>1. past'.fault = NoFault BY <2>1, <2>3
    <3> QED BY <2>8, <3>1 DEF DownlinkOnce, SessionFound, NoFault
  <2> QED BY <2>9, <2>10, <2>11, <2>12, <2>13, <2>14 DEF ClassCInv
<1>16. CASE UNCHANGED vars
  <2>1. UNCHANGED <<joined, rx2, fcnt, enabled, started, hook, table, main, past, seen>>
    BY <1>16 DEF vars
  <2>2. ClassCTypeOK' /\ CounterInv' BY <1>0, <2>1 DEF ClassCTypeOK, CounterInv
  <2>3. LaunchInv' /\ SessionInv' BY <1>0, <2>1 DEF LaunchInv, Ready, SessionInv
  <2>4. HookInv' BY <1>0, <2>1 DEF HookInv
  <2>5. DownlinkOnce' /\ SessionFound' BY <1>0, <2>1 DEF ClassCInv, DownlinkOnce, SessionFound
  <2> QED BY <2>2, <2>3, <2>4, <2>5 DEF ClassCInv
<1>17. {g \in Groups : TRUE} = Groups /\ OnGroups(table) \in SUBSET Groups
       /\ \A g \in Groups : {g} \in SUBSET Groups
  BY <1>0, SessionSets
<1> QED
  BY <1>2, <1>3, <1>4, <1>5, <1>6, <1>7, <1>8, <1>9, <1>10, <1>11, <1>12, <1>13, <1>14,
     <1>15, <1>16, <1>17
     DEF Next

-----------------------------------------------------------------------------
\* ClassCInv is an invariant of class C beside the main thread.
THEOREM ClassCInvariant == ASSUME ClassCAssumption PROVE Spec => []ClassCInv
<1>1. Init => ClassCInv BY InitClassC
<1>2. ClassCInv /\ [Next]_vars => ClassCInv' BY NextClassC
<1> QED BY <1>1, <1>2, PTL DEF Spec

\* DownlinkOnce: no downlink is taken twice in a session, although class A and every frame
\* of class C write the same counter, unless a unicast frame of class C came between the
\* read and the write of class A (lr1mac_class_c_mac_rx_frame_decode).
THEOREM ClassCDownlinkOnce == ASSUME ClassCAssumption PROVE Spec => []DownlinkOnce
<1>1. ClassCInv => DownlinkOnce BY DEF ClassCInv
<1> QED BY <1>1, ClassCInvariant, PTL

\* A task in the planner that agrees with every session hears them.
LEMMA HeardByInvariant == ASSUME ClassCInv PROVE SessionsHeard
<1> SUFFICES ASSUME started, main = Idle, Ready, ~past.deaf
             PROVE  /\ hook # None
                    /\ \A g \in OnGroups(table) :
                           hook = table[g].param \/ past.moved \/ past.crossed
  BY DEF ClassCInv, LaunchInv, SessionsHeard
<1> QED BY DEF ClassCInv, LaunchInv, HookInv

\* SessionsHeard: once class C is on the radio listens, and to every session enabled, with
\* the exceptions SessionsHeard names (lr1mac_class_c_launch, lr1mac_class_c_multicast_*).
THEOREM ClassCSessionsHeard == ASSUME ClassCAssumption PROVE Spec => []SessionsHeard
<1>1. ClassCInv => SessionsHeard BY HeardByInvariant
<1> QED BY <1>1, ClassCInvariant, PTL

\* SessionFound: the callback never finds every session disabled but in the middle of a
\* stop or after class B stopped the last one, and decodes for a session that does not
\* exist only in the middle of a leave (lr1mac_class_c_rp_callback).
THEOREM ClassCSessionFound == ASSUME ClassCAssumption PROVE Spec => []SessionFound
<1>1. ClassCInv => SessionFound BY DEF ClassCInv
<1> QED BY <1>1, ClassCInvariant, PTL
=============================================================================

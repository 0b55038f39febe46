----------------------------- MODULE DutyCycle -----------------------------
(***************************************************************************)
(* The duty cycle of the ETSI bands (smtc_duty_cycle.c): the time on air of  *)
(* the last hour, summed by slots of two minutes in a ring, per band.  The   *)
(* clock counts milliseconds on 32 bits; here it has Wrap ticks, which, as   *)
(* there, is no multiple of a slot.  Times on air are in units of their      *)
(* resolution, rounded up.                                                   *)
(***************************************************************************)
EXTENDS Integers, FiniteSets, FiniteSetsExt, Folds, Functions

CONSTANTS
    Bands,    \* the ETSI bands
    Slots,    \* SMTC_DTC_TOA_BUFF_SIZE
    Unit,     \* the ticks of a slot, SMTC_DTC_SECONDS_BY_UNIT
    Limit,    \* the time on air a period allows
    Toas,     \* the times on air of a frame
    Wrap      \* the ticks of the clock

Period == Slots * Unit
DutyAssumption ==
    /\ Bands # {} /\ Slots \in Nat \ {0, 1} /\ Unit \in Nat \ {0} /\ Limit \in Nat \ {0}
    /\ Toas \subseteq Nat \ {0} /\ Wrap \in Nat /\ Wrap > Period + Unit

VARIABLES
    now,       \* the clock
    enabled,   \* NONE, PARTIAL or FULL: what is disabled
    ring,      \* per band: toa_sum_ms, index_previous and toa_timestamp_ms
    frame,     \* the band and the time on air of the frame being sent, if any
    sent       \* history: what was counted on each band, by age

vars == <<now, enabled, ring, frame, sent>>

Indices == 0 .. Slots - 1
Ages == 0 .. Period - 1
Total(f, S) == FoldFunctionOnSet(+, 0, f, S)

\* What the first n entries of f add up to.
Spent(f, n) ==
    LET upTo[k \in 0 .. n] == IF k = 0 THEN 0 ELSE upTo[k - 1] + f[k - 1]
    IN upTo[n]

Init ==
    /\ now = 0 /\ enabled = "NONE" /\ frame = {}
    /\ ring = [b \in Bands |-> [sums |-> [i \in Indices |-> 0], previous |-> 0, stamp |-> 0]]
    /\ sent = [b \in Bands |-> [a \in Ages |-> 0]]

\* smtc_duty_cycle_time_diff: since the beginning of the slot of the time stamp.
TimeDiff(t, stamp) == (t - (stamp - (stamp % Unit))) % Wrap

\* smtc_duty_cycle_compute_index.
Index(diff, previous) == (((diff % (Period + Unit)) \div Unit) + previous) % Slots

\* Mutant: the slot of the last frame is erased too.
BegunOrLast(r, diff) ==
    {(r.previous + k) % Slots : k \in 0 .. diff \div Unit}

\* The slots that have begun since the last frame.
Begun(r, diff) == {(r.previous + k) % Slots : k \in 1 .. diff \div Unit}

Erased(r, S) == [r EXCEPT !.sums = [i \in Indices |-> IF i \in S THEN 0 ELSE @[i]]]

\* smtc_duty_cycle_update, of one band.
Updated(r, t) ==
    LET diff == TimeDiff(t, r.stamp)
    IN IF diff >= Period
         THEN [Erased(r, Indices) EXCEPT !.previous = Index(diff, r.previous), !.stamp = t]
         ELSE Erased(r, Begun(r, diff))

\* smtc_duty_cycle_sum.
Added(r, toa, t) ==
    LET diff == TimeDiff(t, r.stamp)
        index == Index(diff, r.previous)
        kept == IF diff >= Period THEN Erased(r, Indices) ELSE Erased(r, Begun(r, diff))
    IN [sums |-> [kept.sums EXCEPT ![index] = @ + toa], previous |-> index, stamp |-> t]

Consumed(r) == Spent(r.sums, Slots)

\* smtc_duty_cycle_band_get_available_toa_ms, smtc_duty_cycle_is_channel_free.
Available(r) == Limit - Consumed(r)
Free(r) == enabled # "NONE" \/ Available(r) > 0

\* Mutant: the slot that has begun is taken for the oldest.
EmptyFromCurrent(r, t) ==
    LET index == Index(TimeDiff(t, r.stamp), r.previous)
    IN {n \in 1 .. Slots - 1 : \A k \in 1 .. n : r.sums[(index + k - 1) % Slots] = 0}

\* The slots that are empty after the one that has begun, oldest first, up to the
\* slot of the last frame.
EmptyRun(r, t) ==
    LET index == Index(TimeDiff(t, r.stamp), r.previous)
        last == (r.previous - index) % Slots
    IN {n \in 1 .. Slots - 1 :
          /\ \A k \in 1 .. n : r.sums[(index + k) % Slots] = 0
          /\ last # 0 => n < last}

\* smtc_duty_cycle_get_next_free_time_ms, of the bands of the channels that may be
\* used: what is left, negated, or the time until a slot of one of them is dropped.
SlotTime(r, t) == Unit - (t % Unit) + Unit * Cardinality(EmptyRun(r, t))
NextFreeTime(rings, t, used) ==
    LET free == {b \in used : Available(rings[b]) > 0}
    IN IF enabled # "NONE" THEN 0
       ELSE IF free # {} THEN - Total([b \in Bands |-> Available(rings[b])], free)
       ELSE Min({SlotTime(rings[b], t) : b \in used})

-----------------------------------------------------------------------------
\* lr1mac_core_join, lr1mac_core_payload_send and a repetition: the rings are updated,
\* then a channel is chosen among those whose band is free.  Bound: a frame per tick.
Ask ==
    /\ frame = {} /\ \A b \in Bands : sent[b][0] = 0
    /\ ring' = [b \in Bands |-> Updated(ring[b], now)]
    /\ frame' \in {{}} \cup {{[band |-> b, toa |-> t, late |-> FALSE]} : b \in {c \in Bands : Free(ring'[c])}, t \in Toas}
    /\ UNCHANGED <<now, enabled, sent>>

\* The frame has been sent: smtc_duty_cycle_sum, unless all is disabled.
Sent ==
    /\ frame' = {}
    /\ \E f \in frame :
          IF enabled = "FULL" THEN UNCHANGED <<ring, sent>>
          ELSE /\ ring' = [ring EXCEPT ![f.band] = Added(@, f.toa, now)]
               /\ sent' = [sent EXCEPT ![f.band][0] = @ + f.toa]
    /\ UNCHANGED <<now, enabled>>

\* lorawan_api_duty_cycle_enable_set.
EnableSet ==
    /\ enabled' \in {"NONE", "PARTIAL", "FULL"}
    /\ UNCHANGED <<now, ring, frame, sent>>

\* Bounds: a frame takes at most a tick, a fraction of a slot, and the modem asks for
\* a channel at least once in a turn of the clock, 49 days.
Tick ==
    /\ \A f \in frame : ~f.late
    /\ \A b \in Bands : TimeDiff(now, ring[b].stamp) < Wrap - Unit
    /\ frame' = {[f EXCEPT !.late = TRUE] : f \in frame}
    /\ now' = (now + 1) % Wrap
    /\ sent' = [b \in Bands |-> [a \in Ages |-> IF a = 0 THEN 0 ELSE sent[b][a - 1]]]
    /\ UNCHANGED <<enabled, ring>>

Next == Ask \/ Sent \/ EnableSet \/ Tick

Spec == Init /\ [][Next]_vars

-----------------------------------------------------------------------------
\* What was sent on a band in the last n ticks.
Window(b, n) == Spent(sent[b], n)

\* The windows of time that the ring remembers whole: it is coarse by a slot and, since
\* the slots shift when the clock wraps, by another for what was sent before that.
Remembered == {n \in 0 .. Period - Unit : n <= now + 1 \/ n <= Period - 2 * Unit}

\* The regulation: a frame is let through only if its band has spent less than its
\* limit in the period that ends now, as far as the ring remembers.
WithinLimit ==
    frame = {} /\ enabled = "NONE" =>
        \A f \in frame', n \in Remembered : Window(f.band, n) < Limit
BandWithinLimit == [][WithinLimit]_vars

\* What the modem is told to wait when no band is free is what it takes: until then no
\* slot of the bands is dropped, and then one is.  When the clock wraps, every 49 days,
\* the slots shift and the first wait may be off by less than a slot.
WaitFrees ==
    LET updated == [b \in Bands |-> Updated(ring[b], now)]
        wait == NextFreeTime(updated, now, Bands)
        dropped(b, t) == Consumed(Updated(updated[b], (now + t) % Wrap)) < Consumed(updated[b])
    IN (\A b \in Bands : ~Free(updated[b]) /\ ring[b].stamp <= now) /\ now + wait < Wrap =>
       /\ \E b \in Bands : dropped(b, wait)
       /\ \A b \in Bands, t \in 0 .. wait - 1 : ~dropped(b, t)

=============================================================================

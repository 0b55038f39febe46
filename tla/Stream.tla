------------------------------- MODULE Stream -------------------------------
(***************************************************************************)
(* The stream service (stream.c, rose.c): the octets of the user's records   *)
(* enter a buffer, leave it once as systematic data, and then stay in a      *)
(* window from which the redundancy of the next frames is drawn, so that the *)
(* server can recover a frame that was lost.                                 *)
(*                                                                         *)
(*    fifo    | redundancy window |  pending  |  free  | random vector |     *)
(*                                ^unsent     ^fill                          *)
(*                                                                         *)
(* An octet is its offset in the stream; the zeros the window begins with    *)
(* have negative offsets.  Units are octets, as stream_init chooses.         *)
(***************************************************************************)
EXTENDS Integers, Sequences, FiniteSets, FiniteSetsExt

CONSTANTS
    Size,        \* ROSE_FIFO_SIZE
    Windows,     \* the window lengths the server may set; the largest is the default
    VectorLen,   \* ROSE_rvec_len: the octets of the random vector of each window
    Rates,       \* the redundancy rates, in percent
    Records,     \* the lengths of a record, encoded
    Rooms,       \* the octets a frame has for systematic data and redundancy
    MaxSysc,     \* MAX_SYSC
    Wrap,        \* 2^16, the range of unsent
    MaxOctets    \* bound: the octets of a stream

DefaultWindow == Max(Windows)
StreamAssumption ==
    /\ Windows \subseteq Nat \ {0} /\ IsFiniteSet(Windows) /\ Windows # {}
    /\ Size \in Nat /\ Size > DefaultWindow + VectorLen[DefaultWindow]
    /\ Wrap \in Nat /\ Size < Wrap
    /\ \A v, w \in Windows : v <= w => VectorLen[v] <= VectorLen[w]
    /\ Rates \subseteq Nat /\ Records \subseteq Nat \ {0} /\ Rooms \subseteq Nat
    /\ MaxSysc \in Nat \ {0} /\ VectorLen \in [Windows -> Nat] /\ MaxOctets \in Nat

VARIABLES
    fifo,      \* the octets up to fill
    wl,        \* the window length
    unsent,    \* the start of the pending octets
    soff,      \* the offset of the octet at unsent
    redcnt,    \* the redundancy sent for the window
    rr,        \* the redundancy rate
    pending,   \* ROSE_PEND_SINFO and ROSE_PEND_WLACK
    frame      \* the last frame: its offset, its octets, the window of its redundancy

vars == <<fifo, wl, unsent, soff, redcnt, rr, pending, frame>>

NoFrame == [soff |-> 0, sys |-> <<>>, window |-> <<>>]
Fill == Len(fifo)
Target(w, rate) == (w * rate + 99) \div 100

Init ==
    /\ wl = DefaultWindow /\ unsent = wl /\ soff = 0
    /\ fifo = [i \in 1 .. wl |-> i - 1 - wl]
    /\ rr \in Rates /\ redcnt = Target(wl, 110)
    /\ pending = {} /\ frame = NoFrame

\* smtc_modem_stream_init: stream_reset, stream_init, stream_set_rr.
StreamInit ==
    /\ wl' = DefaultWindow /\ unsent' = wl' /\ soff' = 0
    /\ fifo' = [i \in 1 .. wl' |-> i - 1 - wl']
    /\ rr' \in Rates /\ redcnt' = Target(wl', 110)
    /\ pending' = {} /\ frame' = NoFrame

FreeToVector == Size - VectorLen[wl] - Fill

\* ROSE_addRecord, whose octets follow those of the records before it.
AddRecord ==
    /\ \E n \in Records :
          /\ n <= FreeToVector
          /\ soff + (Fill - unsent) + n <= MaxOctets
          /\ fifo' = fifo \o [i \in 1 .. n |-> soff + (Fill - unsent) + i - 1]
    /\ UNCHANGED <<wl, unsent, soff, redcnt, rr, pending, frame>>

\* ROSE_getData while an answer to the server is owed: an SINFO frame.
GetInfo ==
    /\ pending # {}
    /\ pending' = pending \ {"SINFO"} /\ frame' = NoFrame
    /\ UNCHANGED <<fifo, wl, unsent, soff, redcnt, rr>>

\* C divides towards zero.
Quotient(a, b) == IF a >= 0 THEN a \div b ELSE - (- a \div b)

\* diluteRedCnt.
Diluted(count, w, n) == Quotient(count * (w - n), w)

\* The octets that have been sent leave the window at its other end.
Shifted(queue, n) == SubSeq(queue, n + 1, Len(queue))

\* ROSE_getData when the window has grown and is not full again: systematic data
\* alone.
GetOverrun(room) ==
    LET sysc == Min({Fill - unsent, room, MaxSysc})
        shift == Max({unsent + sysc - wl, 0})
    IN /\ pending = {} /\ unsent < wl
       /\ frame' = [soff |-> soff, sys |-> SubSeq(fifo, unsent + 1, unsent + sysc), window |-> <<>>]
       /\ soff' = soff + sysc
       /\ unsent' = unsent + sysc - shift
       /\ fifo' = Shifted(fifo, shift)
       /\ redcnt' = IF shift > 0 THEN Diluted(redcnt, wl, shift) ELSE redcnt
       /\ UNCHANGED <<wl, rr, pending>>

\* Mutant: the window is shifted before the redundancy is drawn from it.
WindowAfter(sysc) == SubSeq(fifo, sysc + 1, sysc + wl)

WindowBefore(sysc) == SubSeq(fifo, 1, wl)

\* ROSE_getData: redundancy until the window has its target, then systematic data.
GetFrame(room) ==
    LET owed == Min({wl, Max({0, Target(wl, rr) - redcnt})})
        redc == Min({owed, room})
        sysc == IF owed > room THEN 0 ELSE Min({Fill - unsent, MaxSysc, room - redc})
        count == IF redc > 0 THEN Min({Target(wl, rr), redcnt + redc}) ELSE redcnt
    IN /\ pending = {} /\ unsent >= wl
       /\ frame' = [soff |-> soff, sys |-> SubSeq(fifo, unsent + 1, unsent + sysc),
                    window |-> IF redc > 0 THEN WindowBefore(sysc) ELSE <<>>]
       /\ soff' = soff + sysc
       /\ fifo' = Shifted(fifo, sysc)
       /\ redcnt' = IF sysc > 0 THEN Diluted(count, wl, sysc) ELSE count
       /\ UNCHANGED <<wl, unsent, rr, pending>>

GetData == \E room \in Rooms \ {0} : GetOverrun(room) \/ GetFrame(room)

\* ROSE_processDnFrame: SINFO, UPDRR and ACKWL.
Command ==
    /\ \/ pending' = pending \cup {"SINFO"} /\ UNCHANGED rr
       \/ rr' \in Rates /\ UNCHANGED pending
       \/ pending' = pending \ {"WLACK"} /\ UNCHANGED rr
    /\ UNCHANGED <<fifo, wl, unsent, soff, redcnt, frame>>

\* "Ignore change request if bigger WL would lead to overwriting FIFO contents".
FitsVector(w) == Fill <= Size - VectorLen[w]

Shift(w) == wl - w

\* UPDWL to a shorter window, whose oldest octets are dropped, the pending ones too if
\* the window has fewer octets that were sent: unsent, of 16 bits, wraps then.
Shrink ==
    /\ \E w \in Windows :
          /\ w < wl /\ FitsVector(w)
          /\ fifo' = Shifted(fifo, Shift(w))
          /\ unsent' = (unsent - Shift(w)) % Wrap
          /\ redcnt' = Diluted(redcnt, wl, Shift(w))
          /\ wl' = w /\ pending' = pending \cup {"WLACK"}
    /\ UNCHANGED <<soff, rr, frame>>

\* UPDWL to a longer window, or the same: the pending octets fill it.
Grow ==
    /\ \E w \in Windows :
          w >= wl /\ FitsVector(w) /\ wl' = w /\ pending' = pending \cup {"WLACK"}
    /\ UNCHANGED <<fifo, unsent, soff, redcnt, rr, frame>>

\* The start of the pending octets has wrapped.  The code then copies and moves memory
\* with negative lengths, beyond its buffer: only what begins a stream anew is modelled.
Astray == unsent > Fill

Next == \/ StreamInit
        \/ /\ ~Astray
           /\ AddRecord \/ GetInfo \/ GetData \/ Command \/ Shrink \/ Grow

Spec == Init /\ [][Next]_vars

-----------------------------------------------------------------------------
Offsets(first, n) == [i \in 1 .. n |-> first + i - 1]

\* A frame is made of the octets that follow its offset and of redundancy over the
\* whole window of octets before it.
Decodable ==
    /\ frame.sys = Offsets(frame.soff, Len(frame.sys))
    /\ frame.window = <<>> \/ \E w \in Windows : frame.window = Offsets(frame.soff - w, w)

\* The buffer holds the octets around soff, none missing, and leaves the vector alone.
Followed == fifo = Offsets(soff - unsent, Fill) /\ Fill <= Size - VectorLen[wl]

\* What the server needs to put the stream together: a frame carries the octets that
\* follow its offset, none is skipped or repeated by the next, and its redundancy is
\* drawn from the whole window of octets before its offset, although the window is
\* moved, shortened and lengthened while octets are pending.  There is one exception: a
\* window that was lengthened and is shortened, before it is full again, by more octets
\* than it holds of those sent.  "Here we decrease WL, we can always do it"
\* (rose.c:594) is wrong there: octets that were never sent are dropped, and the start
\* of the pending ones wraps.
FrameDecodable == Decodable /\ (Astray \/ Followed)

=============================================================================

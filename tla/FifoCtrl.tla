------------------------------ MODULE FifoCtrl ------------------------------
(***************************************************************************)
(* The downlink FIFO (modem_services/fifo_ctrl.c): variable-length messages  *)
(* in a ring of bytes, written by the downlink callbacks and read by         *)
(* smtc_modem_get_event.  Both sides mask the modem interrupts, so each       *)
(* operation is one step.                                                    *)
(***************************************************************************)
EXTENDS Integers, Sequences

CONSTANTS Size, Messages, Capacities

\* Data and metadata are octets, of lengths that total_write_len, a uint16_t, can add up.
Octets == 0 .. 255
Countable(m) == Len(m.meta) < 256 /\ 3 + Len(m.meta) + Len(m.data) < 256 * 256
FifoAssumption ==
    /\ Size \in Nat \ {0}
    /\ Messages \subseteq [data : Seq(Octets), meta : Seq(Octets)]
    /\ \A m \in Messages : Countable(m)

Header == 2 + 1                       \* LEN_DATA_SIZE + LEN_METADATA_SIZE

VARIABLES
    buffer,      \* ctrl->buffer, a byte per index 0 .. Size - 1
    readOffset,  \* ctrl->read_offset
    writeOffset, \* ctrl->write_offset
    freeSpace,   \* ctrl->free_space
    nbElement,   \* ctrl->nb_element
    answer       \* what the last operation returned to its caller

vars == <<buffer, readOffset, writeOffset, freeSpace, nbElement, answer>>

Answer(status, data, meta) == [status |-> status, data |-> data, meta |-> meta]
Return(status) == answer' = Answer(status, <<>>, <<>>)

\* The bytes of a message as they lie in the ring: the length of the data, high
\* byte first, the length of the metadata, the metadata, the data.
Encode(m) == <<Len(m.data) \div 256, Len(m.data) % 256, Len(m.meta)>> \o m.meta \o m.data

At(offset) == buffer[offset % Size]
Slice(offset, n) == [i \in 1 .. n |-> At(offset + i - 1)]
DataLen(offset) == At(offset) * 256 + At(offset + 1)
MetaLen(offset) == At(offset + 2)

Length(offset) == Header + MetaLen(offset) + DataLen(offset)

\* The read offset and the free space once the k oldest messages are gone (ctrl_get with
\* NULL buffers).
Left[k \in 0 .. nbElement] ==
    IF k = 0 THEN [read |-> readOffset, free |-> freeSpace]
    ELSE LET l == Left[k - 1]
         IN [read |-> (l.read + Length(l.read)) % Size, free |-> l.free + Length(l.read)]

Init ==
    /\ buffer = [i \in 0 .. Size - 1 |-> 0]
    /\ readOffset = 0 /\ writeOffset = 0 /\ freeSpace = Size /\ nbElement = 0
    /\ answer = Answer("OK", <<>>, <<>>)

\* Mutant: a message that fills the space left to the last byte is not taken
\* to fit.
NotRoom(k, n) == Left[k].free > n \/ k = nbElement

Room(k, n) == Left[k].free >= n

\* fifo_ctrl_set: the oldest messages are dropped until the new one fits.
Set(m) ==
    LET bytes == Encode(m)
        n == Len(bytes)
    IN  \/ /\ n > Size
           /\ Return("BUFFER_TOO_SMALL")
           /\ UNCHANGED <<buffer, readOffset, writeOffset, freeSpace, nbElement>>
        \/ /\ n <= Size
           /\ \E k \in 0 .. nbElement :
                 /\ Room(k, n) /\ \A j \in 0 .. k - 1 : ~Room(j, n)
                 /\ readOffset' = Left[k].read
                 /\ freeSpace' = Left[k].free - n
                 /\ nbElement' = nbElement - k + 1
           /\ buffer' = [i \in 0 .. Size - 1 |->
                            LET d == (i - writeOffset) % Size
                            IN  IF d < n THEN bytes[d + 1] ELSE buffer[i]]
           /\ writeOffset' = (writeOffset + n) % Size
           /\ Return("OK")

\* fifo_ctrl_get: a message too long for the caller's buffers stays.
Get(cap) ==
    LET data == DataLen(readOffset)
        meta == MetaLen(readOffset)
        start == readOffset + Header
    IN  \/ /\ nbElement = 0
           /\ Return("BUFFER_EMPTY")
           /\ UNCHANGED <<buffer, readOffset, writeOffset, freeSpace, nbElement>>
        \/ /\ nbElement > 0 /\ (data > cap.data \/ meta > cap.meta)
           /\ Return("BUFFER_TOO_SMALL")
           /\ UNCHANGED <<buffer, readOffset, writeOffset, freeSpace, nbElement>>
        \/ /\ nbElement > 0 /\ data <= cap.data /\ meta <= cap.meta
           /\ answer' = Answer("OK", Slice(start + meta, data), Slice(start, meta))
           /\ readOffset' = Left[1].read /\ freeSpace' = Left[1].free
           /\ nbElement' = nbElement - 1
           /\ UNCHANGED <<buffer, writeOffset>>

\* fifo_ctrl_clear.
Clear ==
    /\ readOffset' = 0 /\ writeOffset' = 0 /\ nbElement' = 0 /\ freeSpace' = Size
    /\ Return("OK")
    /\ UNCHANGED buffer

Next == (\E m \in Messages : Set(m)) \/ (\E c \in Capacities : Get(c)) \/ Clear

Spec == Init /\ [][Next]_vars

-----------------------------------------------------------------------------
(* Properties. *)

\* The messages in the ring, oldest first.
Stored == [k \in 1 .. nbElement |->
              LET o == Left[k - 1].read
              IN  [data |-> Slice(o + Header + MetaLen(o), DataLen(o)),
                   meta |-> Slice(o + Header, MetaLen(o))]]

\* The ring is a FIFO of messages: what is read is what was written, in order,
\* across the wrap of lengths, metadata and data, and a new message drops as few
\* of the oldest as it needs.
Fifo == INSTANCE FifoQueue WITH queue <- Stored
QueueInit == Fifo!Init
QueueStep == [Fifo!Next]_<<Stored, answer>>
ImplementsQueue == Fifo!Spec

=============================================================================

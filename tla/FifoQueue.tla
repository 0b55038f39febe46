----------------------------- MODULE FifoQueue -----------------------------
(***************************************************************************)
(* What the downlink FIFO promises (modem_services/fifo_ctrl.h): a queue of  *)
(* messages in a buffer of Size bytes that makes room for a new message by   *)
(* dropping the oldest ones, as few as possible.  FifoCtrl implements it.    *)
(***************************************************************************)
EXTENDS Naturals, Sequences

CONSTANTS
    Size,        \* bytes of the buffer
    Header,      \* bytes stored in front of each message
    Messages,    \* the messages that may be stored: [data, meta]
    Capacities   \* the buffers readers may offer: [data, meta] lengths

VARIABLES
    queue,       \* the messages stored, oldest first
    answer       \* what the last operation returned

Bytes(m) == Header + Len(m.data) + Len(m.meta)
Used(q) ==
    LET first[n \in 0 .. Len(q)] == IF n = 0 THEN 0 ELSE first[n - 1] + Bytes(q[n])
    IN first[Len(q)]
From(k) == SubSeq(queue, k + 1, Len(queue))
Answer(status, m) == [status |-> status, data |-> m.data, meta |-> m.meta]
Nothing == [data |-> <<>>, meta |-> <<>>]

Init == queue = <<>> /\ answer = Answer("OK", Nothing)

Put(m) ==
    \/ /\ Bytes(m) > Size
       /\ answer' = Answer("BUFFER_TOO_SMALL", Nothing)
       /\ UNCHANGED queue
    \/ /\ Bytes(m) <= Size
       /\ \E k \in 0 .. Len(queue) :
             /\ Used(From(k)) + Bytes(m) <= Size
             /\ \A j \in 0 .. k - 1 : Used(From(j)) + Bytes(m) > Size
             /\ queue' = Append(From(k), m)
       /\ answer' = Answer("OK", Nothing)

Get(cap) ==
    \/ queue = <<>> /\ answer' = Answer("BUFFER_EMPTY", Nothing) /\ UNCHANGED queue
    \/ /\ queue # <<>>
       /\ Len(Head(queue).data) > cap.data \/ Len(Head(queue).meta) > cap.meta
       /\ answer' = Answer("BUFFER_TOO_SMALL", Nothing)
       /\ UNCHANGED queue
    \/ /\ queue # <<>>
       /\ Len(Head(queue).data) <= cap.data /\ Len(Head(queue).meta) <= cap.meta
       /\ answer' = Answer("OK", Head(queue))
       /\ queue' = Tail(queue)

Clear == queue' = <<>> /\ answer' = Answer("OK", Nothing)

Next == (\E m \in Messages : Put(m)) \/ (\E c \in Capacities : Get(c)) \/ Clear

Spec == Init /\ [][Next]_<<queue, answer>>

=============================================================================

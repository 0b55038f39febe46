----------------------------- MODULE FileUpload -----------------------------
(***************************************************************************)
(* The file upload service (file_upload.c): a file is cut in chunks, frames  *)
(* of random combinations of chunks are sent until the server has enough of  *)
(* them and says so, or until twice the chunks were sent.  The user may      *)
(* cancel a file and begin the next at any time, while frames are lost and   *)
(* the server's FILEDONE waits in the network.                               *)
(***************************************************************************)
EXTENDS Integers, Sequences, FiniteSets, FiniteSetsExt

CONSTANTS
    Lengths,      \* the lengths of a file, in octets; FILE_UPLOAD_MAX_SIZE bounds them
    Counters,     \* the values of the session counter, 2^4
    Rooms,        \* the octets a frame has
    MaxSessions   \* bound: the files uploaded

HeaderWords == 3          \* FILE_UPLOAD_HEADER_SIZE is 12
Word == 4
ChunkWords == 2           \* CHUNK_NW
ChunkSize == ChunkWords * Word
MinFrames == 3

UploadAssumption ==
    /\ Lengths \subseteq Nat \ {0} /\ Counters \in Nat \ {0, 1}
    /\ Rooms \subseteq Nat /\ MaxSessions \in Nat

VARIABLES
    state,      \* modem_upload_state
    session,    \* history: the number of the session; its counter is kept modulo
    len,        \* file_len
    cntx,       \* the chunks sent
    fntx,       \* the frames sent
    launched,   \* the FILE_UPLOAD task was launched and not updated
    server,     \* the server: the session it collects, its chunks, those it has done
    done,       \* the FILEDONEs in the network: their session
    confirmed   \* history: the sessions reported as confirmed to the user

vars == <<state, session, len, cntx, fntx, launched, server, done, confirmed>>

\* modem_context_compute_and_get_next_dm_upload_sctr.
Counter(s) == s % Counters

\* cct of file_upload_init.
Chunks(n) == (n + HeaderWords * Word + ChunkSize - 1) \div ChunkSize

Init ==
    /\ state = "NOT_INIT" /\ session = 0 /\ len \in Lengths /\ cntx = 0 /\ fntx = 0
    /\ launched = FALSE
    /\ server = [session |-> 0, chunks |-> 0, complete |-> {}]
    /\ done = {} /\ confirmed = {}

\* smtc_modem_file_upload_init.
UploadInit ==
    /\ state \notin {"FILLED", "ON_GOING"} /\ session < MaxSessions
    /\ state' = "FILLED" /\ session' = session + 1
    /\ len' \in Lengths /\ cntx' = 0 /\ fntx' = 0
    /\ UNCHANGED <<launched, server, done, confirmed>>

\* smtc_modem_file_upload_start.
UploadStart ==
    /\ state = "FILLED" /\ state' = "ON_GOING"
    /\ UNCHANGED <<session, len, cntx, fntx, launched, server, done, confirmed>>

\* smtc_modem_file_upload_reset, and modem_leave.
UploadReset ==
    /\ state \in {"FILLED", "ON_GOING"} /\ state' = "NOT_INIT"
    /\ UNCHANGED <<session, len, cntx, fntx, launched, server, done, confirmed>>

\* file_upload_get_fragment: the whole chunks that fit after three octets.
Fit(room) == IF room - 3 < ChunkSize THEN 0 ELSE (room - 3) \div ChunkSize

\* The server takes the frame of a new session for the start of a file, and knows a
\* session by its counter and its chunk count.  External: it says FILEDONE for every
\* frame of a file that it could put together from as many chunks.
Received(n) ==
    LET chunks == IF server.session = session THEN server.chunks + n ELSE n
        complete == server.complete \cup (IF chunks >= Chunks(len) THEN {session} ELSE {})
    IN /\ server' = [session |-> session, chunks |-> Min({chunks, Chunks(len)}), complete |-> complete]
       /\ done' = done \cup (complete \cap {session})

\* file_upload_is_data_remaining.
Remaining(c, f) == f < MinFrames \/ c < 2 * Chunks(len)

\* The FILE_UPLOAD task is launched; the frame may be refused by the MAC, or lost.
SendFragment ==
    /\ state = "ON_GOING" /\ ~launched /\ launched' = TRUE
    /\ \E room \in Rooms :
          LET n == Fit(room)
          IN /\ cntx' = cntx + n
             /\ fntx' = IF n > 0 THEN fntx + 1 ELSE fntx
             /\ \/ n > 0 /\ Received(n)
                \/ UNCHANGED <<server, done>>
    /\ UNCHANGED <<state, session, len, confirmed>>

\* Once the frame is over the task comes back while data remain.
UpdateFile ==
    /\ launched /\ launched' = FALSE
    /\ state' = IF state = "ON_GOING" /\ ~Remaining(cntx, fntx) THEN "FINISHED" ELSE state
    /\ UNCHANGED <<session, len, cntx, fntx, server, done, confirmed>>

\* Mutant: the session counter of a FILEDONE is not looked at ("TODO: check if session
\* id is also present").
AnySession(s) == TRUE

\* file_upload_process_file_done_frame.
SameCounter(s) == Counter(s) = Counter(session)

\* DM_FILE_DONE, or a FILEDONE that the network has lost.
FileDone ==
    /\ \E s \in done :
          /\ done' = done \ {s}
          /\ IF state = "ON_GOING" /\ SameCounter(s)
               THEN state' = "FINISHED" /\ confirmed' = confirmed \cup {session}
               ELSE UNCHANGED <<state, confirmed>>
    /\ UNCHANGED <<session, len, cntx, fntx, launched, server>>

\* Bound: the network keeps a downlink for fewer sessions than there are counters.
Expire ==
    /\ done' = {s \in done : session - s < Counters - 1} /\ done' # done
    /\ UNCHANGED <<state, session, len, cntx, fntx, launched, server, confirmed>>

Next ==
    \/ UploadInit /\ (\A s \in done : session - s < Counters - 1)
    \/ UploadStart \/ UploadReset \/ SendFragment \/ UpdateFile \/ FileDone \/ Expire

Spec == Init /\ [][Next]_vars

-----------------------------------------------------------------------------
\* A file is reported as received only if the server has that file, whatever files
\* were cancelled before, while a FILEDONE is late by fewer sessions than the counter
\* has values and the device, which does not store the counter, is not reset.
ConfirmedIsComplete == confirmed \subseteq server.complete

=============================================================================

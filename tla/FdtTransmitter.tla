--------------------------- MODULE FdtTransmitter ---------------------------
(***************************************************************************)
(* The transmitter (src/src/transmitter): it subscribes to the events that *)
(* FzWriter publishes, puts each into an MFM frame and sends it over a TCP *)
(* connection to an FDT server.  After an error it opens a new connection; *)
(* the event at hand is not sent again.                                    *)
(*                                                                         *)
(* Events are numbered as published.  A unit <<e, k>> is the k-th byte of  *)
(* the frame of e; the first carries the length that the receiver goes by. *)
(***************************************************************************)
EXTENDS Integers, Sequences, FiniteSets

CONSTANTS
    ByteSize,     \* the serialised size of each event
    Unparsable,   \* the events that ParseFromArray() refuses
    HEADER,       \* bytes in front of the data (24 in the code)
    FrameMod,     \* values of the length field (2^24 in the code)
    TcpWind,      \* bytes in one send() or recv() (32768 in the code)
    SocketBuffer, \* bytes a connection holds
    SpyHWM,       \* events the subscriber's queue holds
    Fortified,    \* FD_SET(-1) ends the program (a build with _FORTIFY_SOURCE)
    MaxFaults     \* bound: crashes and stalls of the server

ASSUME TransmitterAssumption ==
    /\ ByteSize \in Seq(Nat) /\ Unparsable \subseteq DOMAIN ByteSize
    /\ HEADER \in Nat /\ HEADER > 1 /\ HEADER % 2 = 0
    /\ FrameMod \in Nat /\ TcpWind \in Nat \ {0}
    /\ SocketBuffer \in Nat \ {0} /\ SpyHWM \in Nat \ {0}
    /\ Fortified \in BOOLEAN /\ MaxFaults \in Nat

Events == DOMAIN ByteSize
Connections == 1..(Len(ByteSize) + 1)   \* at most one for each event, and the first
NoSocket == 0                           \* ConnectionSocket = -1
NoFrame  == 0                           \* what arrives when the frames are out of step

VARIABLES
    published, queue,  \* events published, those in the subscriber's queue
    pc, ev,            \* the transmitter: where it is, the event at hand
    ecrit, chunk,      \* bytes of the frame that send() took, and is to take
    ConnectionSocket,
    nconn,             \* connections opened
    up, stalled,       \* the server: it runs; it has stopped reading
    faults

\* The connections and the server.
VARIABLES
    stream,            \* the bytes that each connection was given
    broken,            \* connections that the server has lost
    start, pos,        \* the receiver: bytes before the current frame, bytes read
    delivered          \* the events it got

server == <<up, stalled, faults>>
receiver == <<start, pos, delivered>>
vars == <<published, queue, pc, ev, ecrit, chunk, ConnectionSocket, nconn, server, stream, broken,
          receiver>>

Init ==
    /\ published = 0 /\ queue = <<>>
    /\ pc = "start" /\ ev = 0 /\ ecrit = 0 /\ chunk = 0 /\ ConnectionSocket = NoSocket /\ nconn = 0
    /\ up \in BOOLEAN /\ stalled = FALSE /\ faults = 0
    /\ stream = [c \in Connections |-> <<>>] /\ broken = {}
    /\ start = [c \in Connections |-> 0] /\ pos = [c \in Connections |-> 0]
    /\ delivered = <<>>

-----------------------------------------------------------------------------
(* The frame.                                                              *)

\* Mutant: no padding.
mfmeventsize_odd(e) == HEADER + ByteSize[e]
\* Header and data, padded to 16 bit words.
mfmeventsize(e) == HEADER + ByteSize[e] + ((HEADER + ByteSize[e]) % 2)

\* The length in the header counts 16 bit words.
frameSize(e) == (mfmeventsize(e) \div 2) % FrameMod

-----------------------------------------------------------------------------
(* The transmitter.                                                        *)

Goto(l) == pc' = l

\* pub->send() in FzWriter: with the queue full, the event is dropped.
Publish ==
    /\ published < Len(ByteSize)
    /\ published' = published + 1
    /\ queue' = IF Len(queue) < SpyHWM THEN Append(queue, published') ELSE queue
    /\ UNCHANGED <<pc, ev, ecrit, chunk, ConnectionSocket, nconn, server, stream, broken, receiver>>

\* sub->recv() and ParseFromArray().
Recv ==
    /\ pc = "recv" /\ queue # <<>>
    /\ queue' = Tail(queue)
    /\ ev' = Head(queue) /\ ecrit' = 0 /\ chunk' = 0
    /\ Goto(IF ev' \in Unparsable THEN "recv" ELSE "select")
    /\ UNCHANGED <<published, ConnectionSocket, nconn, server, stream, broken, receiver>>

InFlight(c) == Len(stream[c]) - pos[c]
Bytes(e, from, n) == [k \in 1..n |-> <<e, from + k>>]

\* Mutant: the last piece is not shortened.
LongEnUneFois_whole == TcpWind
\* The bytes given to one send().
LongEnUneFois ==
    LET left == mfmeventsize(ev) - ecrit IN IF left > TcpWind THEN TcpWind ELSE left

\* TcpWrite(), an iteration: select() finds some room (or an error).
Select ==
    /\ pc = "select" /\ ConnectionSocket # NoSocket
    /\ ConnectionSocket \in broken \/ InFlight(ConnectionSocket) < SocketBuffer
    /\ chunk' = ecrit + LongEnUneFois
    /\ Goto("send")
    /\ UNCHANGED <<published, queue, ev, ecrit, ConnectionSocket, nconn, server, stream, broken,
                   receiver>>

\* send() on a blocking socket: it returns when it has placed all its bytes,
\* as room for them appears.  On a connection that the server has lost they
\* may be taken in vain.
Send(n) ==
    /\ pc = "send" /\ n \in 1..(chunk - ecrit)
    /\ \/ /\ ConnectionSocket \notin broken
          /\ InFlight(ConnectionSocket) + n <= SocketBuffer
          /\ stream' = [stream EXCEPT ![ConnectionSocket] = @ \o Bytes(ev, ecrit, n)]
       \/ /\ ConnectionSocket \in broken
          /\ UNCHANGED stream
    /\ ecrit' = ecrit + n
    /\ Goto(CASE ecrit' = mfmeventsize(ev) -> "recv"
              [] ecrit' # mfmeventsize(ev) /\ ecrit' = chunk -> "select"
              [] OTHER -> "send")
    /\ UNCHANGED <<published, queue, ev, chunk, ConnectionSocket, nconn, server, broken, receiver>>

\* Mutant: the error is not returned, the loop goes on.
WriteFailed_ignored == "select"
WriteFailed == "connect"

\* R_TCP_TIMEOUT: select() finds no room in time.  R_TCP_WRITE: send()
\* fails.  Without a socket select() looks at nothing, and one of them fails.
WriteFails ==
    /\ \/ pc = "select" /\ ConnectionSocket = NoSocket
       \/ pc = "select" /\ ConnectionSocket # NoSocket
          /\ InFlight(ConnectionSocket) = SocketBuffer
       \/ pc = "send" /\ ConnectionSocket \in broken
    /\ Goto(WriteFailed)
    /\ UNCHANGED <<published, queue, ev, ecrit, chunk, ConnectionSocket, nconn, server, stream,
                   broken, receiver>>

\* FD_SET(-1, ...) is undefined: a checked build ends here.
Abort ==
    /\ pc = "select" /\ ConnectionSocket = NoSocket /\ Fortified
    /\ Goto("ended")
    /\ UNCHANGED <<published, queue, ev, ecrit, chunk, ConnectionSocket, nconn, server, stream,
                   broken, receiver>>

\* Mutant: a socket that is there is kept.
Opened_keeps == IF ConnectionSocket # NoSocket THEN ConnectionSocket ELSE nconn + 1
\* disconnect() and TcpOpen(): always another connection.
Opened == nconn + 1

\* TcpOpen() as a client.  It fails if the server is down (R_TCP_CONNECT),
\* and may fail at any time (R_TCP_DNS, R_TCP_SOCKET).
TcpOpen(err) == err \/ up

\* connect(): at the start a failure ends the program, later it goes on
\* without a socket until the next event.
Connect ==
    /\ pc \in {"start", "connect"}
    /\ \/ /\ TcpOpen(FALSE)
          /\ ConnectionSocket' = Opened /\ nconn' = nconn + 1
          /\ Goto("recv")
       \/ /\ TcpOpen(TRUE)
          /\ ConnectionSocket' = NoSocket /\ UNCHANGED nconn
          /\ Goto(IF pc = "start" THEN "ended" ELSE "recv")
    /\ UNCHANGED <<published, queue, ev, ecrit, chunk, server, stream, broken, receiver>>

-----------------------------------------------------------------------------
(* The server.                                                             *)

\* It crashes with its connections and what they held.
Crash ==
    /\ up /\ faults < MaxFaults
    /\ up' = FALSE /\ faults' = faults + 1
    /\ broken' = 1..nconn
    /\ UNCHANGED <<published, queue, pc, ev, ecrit, chunk, ConnectionSocket, nconn, stalled, stream,
                   receiver>>

Restart ==
    /\ ~up
    /\ up' = TRUE
    /\ UNCHANGED <<published, queue, pc, ev, ecrit, chunk, ConnectionSocket, nconn, stalled, faults,
                   stream, broken, receiver>>

\* It stops reading, perhaps for good.
Stall ==
    /\ faults < MaxFaults /\ ~stalled
    /\ stalled' = TRUE /\ faults' = faults + 1
    /\ UNCHANGED <<published, queue, pc, ev, ecrit, chunk, ConnectionSocket, nconn, up, stream, broken,
                   receiver>>

Resume ==
    /\ stalled
    /\ stalled' = FALSE
    /\ UNCHANGED <<published, queue, pc, ev, ecrit, chunk, ConnectionSocket, nconn, up, faults, stream,
                   broken, receiver>>

\* The bytes the receiver waits for: the header, then what it says.
FirstByte(c) == stream[c][start[c] + 1]
Wanted(c) == IF pos[c] < start[c] + HEADER THEN HEADER ELSE 2 * frameSize(FirstByte(c)[1])

\* TcpRead(), one recv(), of a receiver that reads frame by frame.  A
\* connection that the transmitter has closed is read to its end.
Read(c, n) ==
    /\ c \notin broken /\ ~stalled
    /\ n \in 1..TcpWind /\ n <= InFlight(c) /\ pos[c] + n <= start[c] + Wanted(c)
    /\ pos' = [pos EXCEPT ![c] = @ + n]
    /\ IF pos'[c] >= start[c] + HEADER /\ pos'[c] = start[c] + 2 * frameSize(FirstByte(c)[1])
       THEN /\ start' = [start EXCEPT ![c] = pos'[c]]
            /\ delivered' = Append(delivered,
                                   IF SubSeq(stream[c], start[c] + 1, pos'[c])
                                        = Bytes(FirstByte(c)[1], 0, mfmeventsize(FirstByte(c)[1]))
                                   THEN FirstByte(c)[1] ELSE NoFrame)
       ELSE UNCHANGED <<start, delivered>>
    /\ UNCHANGED <<published, queue, pc, ev, ecrit, chunk, ConnectionSocket, nconn, server, stream, broken>>

-----------------------------------------------------------------------------
Transmitter ==
    Recv \/ Select \/ (\E n \in 1..TcpWind : Send(n)) \/ WriteFails \/ Abort \/ Connect

Next ==
    \/ Publish \/ Transmitter
    \/ Crash \/ Restart \/ Stall \/ Resume
    \/ \E c \in Connections, n \in 1..TcpWind : Read(c, n)

Spec == Init /\ [][Next]_vars

ReadSome == \E c \in Connections, n \in 1..TcpWind : Read(c, n)

\* The transmitter runs.  A server that has stopped reading goes on at some
\* time (or crashes); nothing in the transmitter could make up for it.
FairSpec == Spec /\ WF_vars(Transmitter) /\ WF_vars(Resume) /\ WF_vars(ReadSome)

-----------------------------------------------------------------------------
(* Properties.                                                             *)

\* Types; no connection holds more than its buffer; a frame is never
\* overrun; there is a socket or a failed connection behind every frame.
TypeOK ==
    /\ published \in 0..Len(ByteSize) /\ Len(queue) <= SpyHWM
    /\ pc \in {"start", "recv", "select", "send", "connect", "ended"}
    /\ ev \in {0} \cup Events
    /\ nconn \in 0..(Len(ByteSize) + 1) /\ ConnectionSocket \in 0..nconn
    /\ pc \in {"select", "send", "connect"} => ev \in Events /\ ecrit < mfmeventsize(ev)
    /\ pc = "send" => ecrit < chunk /\ chunk <= mfmeventsize(ev) /\ ConnectionSocket # NoSocket
    /\ \A c \in Connections : InFlight(c) \in 0..SocketBuffer

\* Every connection carries whole frames of later and later events; only
\* the last one may be cut.
WholeFrames ==
    \A c \in Connections : \A k \in DOMAIN stream[c] :
        LET byte == stream[c][k]
        IN  /\ byte[2] > 1 => k > 1 /\ stream[c][k - 1] = <<byte[1], byte[2] - 1>>
            /\ byte[2] = 1 /\ k > 1 =>
                  /\ stream[c][k - 1][1] < byte[1]
                  /\ stream[c][k - 1][2] = mfmeventsize(stream[c][k - 1][1])

\* An event that arrives was published, is whole and arrives once, however
\* often the connection was lost in the middle of a frame.
Link == INSTANCE SpyLink WITH published <- published, delivered <- delivered
Delivery == Link!Spec

\* A server that is down, crashes or pauses never holds up the transmitter
\* for good: every event that is queued for it leaves its queue.
Drains == queue # <<>> ~> (queue = <<>> \/ pc = "ended")
=============================================================================

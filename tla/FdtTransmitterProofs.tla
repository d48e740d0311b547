------------------------ MODULE FdtTransmitterProofs ------------------------
(***************************************************************************)
(* Proofs about FdtTransmitter, for all sizes of events, windows, buffers  *)
(* and queues and any number of faults.  The last part shows that the      *)
(* transmitter, its connections and the receiver implement SpyLink,        *)
(* provided that the length of every frame fits the field of its header.   *)
(***************************************************************************)
EXTENDS FdtTransmitter, NaturalsInduction, WellFoundedInduction, SequenceTheorems, TLAPS

Labels == {"start", "recv", "select", "send", "connect", "ended"}
Writing == pc \in {"select", "send"}

\* The transmitter.  Events come in the order of their numbers, and an event
\* brings about one connection at most.
SenderInv ==
    /\ published \in 0..Len(ByteSize)
    /\ queue \in Seq(Events) /\ Len(queue) <= SpyHWM
    /\ \A k \in 1..Len(queue) : ev < queue[k] /\ queue[k] <= published
    /\ \A j, k \in 1..Len(queue) : j < k => queue[j] < queue[k]
    /\ pc \in Labels /\ ev \in 0..Len(ByteSize) /\ ev <= published
    /\ ecrit \in Nat /\ chunk \in Nat
    /\ pc \in {"select", "send", "connect"} => ev \in Events /\ ecrit < mfmeventsize(ev)
    /\ pc = "send" => ecrit < chunk /\ chunk <= mfmeventsize(ev) /\ ConnectionSocket # NoSocket
    /\ nconn \in Nat /\ ConnectionSocket \in 0..nconn
    /\ pc = "start" => nconn = 0 /\ ev = 0
    /\ nconn <= ev + 1 /\ (pc \in {"select", "send", "connect"} => nconn <= ev)

Bytestrings == Seq(Events \X Nat)

\* The connections and what they hold.
StreamInv ==
    /\ stream \in [Connections -> Bytestrings] /\ pos \in [Connections -> Nat]
    /\ \A c \in Connections : InFlight(c) \in 0..SocketBuffer
    /\ \A c \in Connections : c > nconn => stream[c] = <<>>
    /\ broken \subseteq 1..nconn

\* How the stream s of an open connection ends: behind ecrit bytes of the
\* frame at hand, or behind a whole frame of an earlier event.
EndsWell(s) ==
    IF Writing /\ ecrit > 0
    THEN s # <<>> /\ s[Len(s)] = <<ev, ecrit>>
    ELSE s # <<>> => /\ s[Len(s)][2] = mfmeventsize(s[Len(s)][1])
                     /\ s[Len(s)][1] <= ev /\ (Writing => s[Len(s)][1] < ev)

TailInv ==
    (pc \in {"recv", "select", "send"} /\ ConnectionSocket # NoSocket
       /\ ConnectionSocket \notin broken) => EndsWell(stream[ConnectionSocket])

\* Whole frames on one connection.
WholeStream(s) ==
    \A k \in 1..Len(s) :
        /\ s[k][2] > 1 => k > 1 /\ s[k - 1] = <<s[k][1], s[k][2] - 1>>
        /\ s[k][2] = 1 /\ k > 1 => s[k - 1][1] < s[k][1] /\ s[k - 1][2] = mfmeventsize(s[k - 1][1])

FramesInv == \A c \in Connections : WholeStream(stream[c])

LinkInv == SenderInv /\ StreamInv /\ TailInv /\ FramesInv

-----------------------------------------------------------------------------
(* The constants and the frames.                                           *)

LEMMA Constants ==
    /\ Len(ByteSize) \in Nat /\ Events = 1..Len(ByteSize)
    /\ Connections = 1..(Len(ByteSize) + 1)
    /\ TcpWind \in Nat /\ TcpWind > 0
    /\ SocketBuffer \in Nat /\ SpyHWM \in Nat
    /\ NoSocket = 0
  BY TransmitterAssumption DEF Events, Connections, NoSocket

\* A frame has a length, which is not zero.
LEMMA FrameSize == \A e \in Events : mfmeventsize(e) \in Nat /\ mfmeventsize(e) > 0
<1> SUFFICES ASSUME NEW e \in Events PROVE mfmeventsize(e) \in Nat /\ mfmeventsize(e) > 0
  OBVIOUS
<1>1. HEADER \in Nat /\ HEADER > 1 /\ ByteSize[e] \in Nat
  BY TransmitterAssumption DEF Events
<1>2. (HEADER + ByteSize[e]) % 2 \in Nat
  BY <1>1
<1> QED
  BY <1>1, <1>2 DEF mfmeventsize

LEMMA InitInv == Init => LinkInv
<1> SUFFICES ASSUME Init PROVE LinkInv
  OBVIOUS
<1> USE Constants
<1>0. /\ published = 0 /\ queue = <<>> /\ pc = "start" /\ ev = 0 /\ ecrit = 0 /\ chunk = 0
      /\ ConnectionSocket = NoSocket /\ nconn = 0 /\ broken = {}
      /\ stream = [c \in Connections |-> <<>>] /\ pos = [c \in Connections |-> 0]
  BY Zenon DEF Init
<1>1. SenderInv
  BY <1>0 DEF SenderInv, Labels
<1>2. StreamInv
  BY <1>0 DEF StreamInv, InFlight, Bytestrings
<1>3. TailInv
  BY <1>0 DEF TailInv
<1>4. FramesInv
  BY <1>0 DEF FramesInv, WholeStream
<1> QED
  BY <1>1, <1>2, <1>3, <1>4 DEF LinkInv

\* The socket is one of the connections.
LEMMA SocketIsOne ==
    ASSUME LinkInv, ConnectionSocket # NoSocket
    PROVE  ConnectionSocket \in Connections /\ ConnectionSocket <= nconn
  BY Constants DEF LinkInv, SenderInv

-----------------------------------------------------------------------------
(* Steps that give nothing to a connection.                                *)

\* With the streams and the socket as they are, only the end of the stream
\* can be disturbed.
LEMMA QuietStep ==
    ASSUME LinkInv, SenderInv', UNCHANGED <<stream, pos, broken, nconn>>,
           TailInv'
    PROVE  LinkInv'
<1>1. StreamInv'
  BY DEF LinkInv, StreamInv, InFlight
<1>2. FramesInv'
  BY DEF LinkInv, FramesInv, WholeStream
<1> QED
  BY <1>1, <1>2 DEF LinkInv

LEMMA PublishInv == ASSUME LinkInv, Publish PROVE LinkInv'
<1> USE Constants
<1>1. published' = published + 1 /\ published + 1 \in Events
  BY DEF LinkInv, SenderInv, Publish
<1>2. /\ queue' \in Seq(Events) /\ Len(queue') <= SpyHWM
      /\ \A k \in 1..Len(queue') : ev < queue'[k] /\ queue'[k] <= published'
      /\ \A j, k \in 1..Len(queue') : j < k => queue'[j] < queue'[k]
  <2>0. \A k \in 1..Len(queue) : queue[k] \in Nat
    BY DEF LinkInv, SenderInv
  <2>1. CASE queue' = queue
    BY <1>1, <2>0, <2>1 DEF LinkInv, SenderInv
  <2>2. CASE queue' = Append(queue, published') /\ Len(queue) < SpyHWM
    <3>1. /\ queue' \in Seq(Events) /\ Len(queue') = Len(queue) + 1 /\ Len(queue) \in Nat
          /\ \A k \in 1..Len(queue) : queue'[k] = queue[k]
          /\ queue'[Len(queue) + 1] = published + 1
      BY <1>1, <2>2, AppendProperties DEF LinkInv, SenderInv
    <3> QED
      BY <1>1, <2>0, <2>2, <3>1 DEF LinkInv, SenderInv
  <2> QED
    BY <2>1, <2>2 DEF Publish
<1>3. SenderInv'
  BY <1>1, <1>2 DEF LinkInv, SenderInv, Publish
<1>4. TailInv'
  BY DEF LinkInv, TailInv, EndsWell, Writing, Publish
<1> QED
  BY <1>3, <1>4, QuietStep DEF Publish, receiver

LEMMA RecvInv == ASSUME LinkInv, Recv PROVE LinkInv'
<1> USE Constants
<1>1. /\ queue # <<>> /\ queue' = Tail(queue) /\ ev' = queue[1] /\ ecrit' = 0 /\ chunk' = 0
      /\ pc = "recv" /\ pc' \in {"recv", "select"}
      /\ UNCHANGED <<published, ConnectionSocket, nconn, stream, broken, pos>>
  BY DEF Recv, Goto, receiver, LinkInv, SenderInv
<1>2. /\ Len(queue) \in Nat /\ Len(queue) > 0
      /\ queue' \in Seq(Events) /\ Len(queue') = Len(queue) - 1
      /\ \A k \in 1..Len(queue') : queue'[k] = queue[k + 1]
      /\ \A k \in 1..Len(queue) : queue[k] \in Events
  BY <1>1, HeadTailProperties, EmptySeq DEF LinkInv, SenderInv
<1>3. ev' \in Events /\ ev < ev' /\ ev' <= published
  BY <1>1, <1>2 DEF LinkInv, SenderInv
<1>4. /\ \A k \in 1..Len(queue') : ev' < queue'[k] /\ queue'[k] <= published
      /\ \A j, k \in 1..Len(queue') : j < k => queue'[j] < queue'[k]
  BY <1>1, <1>2 DEF LinkInv, SenderInv
<1>5. SenderInv'
  BY <1>1, <1>2, <1>3, <1>4, FrameSize DEF LinkInv, SenderInv, Labels
<1>6. TailInv'
  <2> SUFFICES ASSUME ConnectionSocket # NoSocket, ConnectionSocket \notin broken
               PROVE  EndsWell(stream[ConnectionSocket])'
    BY <1>1 DEF TailInv
  <2> DEFINE s == stream[ConnectionSocket]
  <2>1. ConnectionSocket \in Connections
    BY SocketIsOne
  <2>2. s \in Seq(Events \X Nat)
    BY <2>1 DEF LinkInv, StreamInv, Bytestrings
  <2>3. s # <<>> => s[Len(s)][1] \in Events
    BY <2>2
  <2>4. s # <<>> => s[Len(s)][2] = mfmeventsize(s[Len(s)][1]) /\ s[Len(s)][1] <= ev
    BY <1>1 DEF LinkInv, TailInv, EndsWell, Writing
  <2>5. s # <<>> => s[Len(s)][1] < ev'
    BY <1>3, <2>3, <2>4 DEF LinkInv, SenderInv
  <2>6. s' = s /\ ~(ecrit' > 0)
    BY <1>1
  <2> QED
    BY <1>3, <2>3, <2>4, <2>5, <2>6 DEF EndsWell
<1> QED
  BY <1>1, <1>5, <1>6, QuietStep

LEMMA SelectInv == ASSUME LinkInv, Select PROVE LinkInv'
<1> USE Constants
<1>1. /\ ev \in Events /\ ecrit < mfmeventsize(ev) /\ mfmeventsize(ev) \in Nat /\ ecrit \in Nat
  BY FrameSize DEF LinkInv, SenderInv, Select
<1>2. /\ LongEnUneFois \in Nat /\ LongEnUneFois > 0 /\ ecrit + LongEnUneFois <= mfmeventsize(ev)
  BY <1>1 DEF LongEnUneFois
<1>3. SenderInv'
  BY <1>1, <1>2 DEF LinkInv, SenderInv, Select, Goto, Labels
<1>4. TailInv'
  BY DEF LinkInv, TailInv, EndsWell, Writing, Select, Goto
<1> QED
  BY <1>3, <1>4, QuietStep DEF Select, receiver

\* The stream may end anywhere now: this connection will not be used again.
LEMMA WriteFailsInv == ASSUME LinkInv, WriteFails \/ Abort PROVE LinkInv'
<1> USE Constants
<1>1. /\ pc' \in {"connect", "ended"} /\ pc \in {"select", "send"}
      /\ UNCHANGED <<published, queue, ev, ecrit, chunk, ConnectionSocket, nconn, stream, broken, pos>>
  BY DEF WriteFails, WriteFailed, Abort, Goto, receiver
<1>2. SenderInv'
  BY <1>1 DEF LinkInv, SenderInv, Labels
<1>3. TailInv'
  BY <1>1 DEF TailInv
<1> QED
  BY <1>1, <1>2, <1>3, QuietStep

\* A new connection has an empty stream and is behind all broken ones.
LEMMA ConnectInv == ASSUME LinkInv, Connect PROVE LinkInv'
<1> USE Constants
<1>1. /\ pc \in {"start", "connect"} /\ pc' \in {"recv", "ended"}
      /\ UNCHANGED <<published, queue, ev, ecrit, chunk, stream, broken, pos>>
      /\ \/ ConnectionSocket' = nconn + 1 /\ nconn' = nconn + 1
         \/ ConnectionSocket' = NoSocket /\ nconn' = nconn
  BY DEF Connect, Opened, Goto, receiver
<1>2. nconn' <= ev + 1 /\ nconn' \in Nat /\ nconn <= nconn'
  BY <1>1 DEF LinkInv, SenderInv
<1>3. SenderInv'
  BY <1>1, <1>2 DEF LinkInv, SenderInv, Labels
<1>4. StreamInv'
  BY <1>1, <1>2 DEF LinkInv, SenderInv, StreamInv, InFlight
<1>5. TailInv'
  <2>1. CASE ConnectionSocket' = NoSocket
    BY <2>1 DEF TailInv
  <2>2. CASE ConnectionSocket' = nconn + 1
    <3>1. nconn + 1 \in Connections
      BY <1>1 DEF LinkInv, SenderInv
    <3>2. stream'[ConnectionSocket'] = <<>>
      BY <1>1, <2>2, <3>1 DEF LinkInv, SenderInv, StreamInv
    <3>3. ~Writing'
      BY <1>1 DEF Writing
    <3> QED
      BY <3>2, <3>3 DEF TailInv, EndsWell
  <2> QED
    BY <1>1, <2>1, <2>2
<1>6. FramesInv'
  BY <1>1 DEF LinkInv, FramesInv, WholeStream
<1> QED
  BY <1>3, <1>4, <1>5, <1>6 DEF LinkInv

-----------------------------------------------------------------------------
(* The server.                                                             *)

LEMMA ServerInv == ASSUME LinkInv, Crash \/ Restart \/ Stall \/ Resume PROVE LinkInv'
<1> USE Constants
<1>1. /\ UNCHANGED <<published, queue, pc, ev, ecrit, chunk, ConnectionSocket, nconn, stream, pos>>
      /\ broken' = broken \/ broken' = 1..nconn
  BY DEF Crash, Restart, Stall, Resume, receiver
<1>2. SenderInv'
  BY <1>1 DEF LinkInv, SenderInv
<1>3. StreamInv'
  BY <1>1 DEF LinkInv, StreamInv, InFlight
<1>4. TailInv'
  BY <1>1 DEF LinkInv, SenderInv, TailInv, EndsWell, Writing
<1>5. FramesInv'
  BY <1>1 DEF LinkInv, FramesInv, WholeStream
<1> QED
  BY <1>2, <1>3, <1>4, <1>5 DEF LinkInv

LEMMA ReadInv ==
    ASSUME LinkInv, NEW c \in Connections, NEW n \in 1..TcpWind, Read(c, n) PROVE LinkInv'
<1> USE Constants
<1>1. /\ UNCHANGED <<published, queue, pc, ev, ecrit, chunk, ConnectionSocket, nconn, stream, broken>>
      /\ pos' = [pos EXCEPT ![c] = pos[c] + n] /\ n <= Len(stream[c]) - pos[c]
  BY DEF Read, InFlight
<1>2. SenderInv'
  BY <1>1 DEF LinkInv, SenderInv
<1>3. StreamInv'
  <2>1. \A k \in Connections : Len(stream[k]) \in Nat /\ pos[k] \in Nat
    BY DEF LinkInv, StreamInv, Bytestrings
  <2>2. pos' \in [Connections -> Nat]
    BY <1>1, <2>1 DEF LinkInv, StreamInv
  <2>3. ASSUME NEW k \in Connections PROVE Len(stream[k]) - pos'[k] \in 0..SocketBuffer
    <3>1. Len(stream[k]) - pos[k] \in 0..SocketBuffer
      BY DEF LinkInv, StreamInv, InFlight
    <3>2. pos'[k] = IF k = c THEN pos[k] + n ELSE pos[k]
      BY <1>1 DEF LinkInv, StreamInv
    <3> QED
      BY <1>1, <2>1, <3>1, <3>2
  <2> QED
    BY <1>1, <2>2, <2>3 DEF LinkInv, StreamInv, InFlight
<1>4. TailInv'
  BY <1>1 DEF LinkInv, TailInv, EndsWell, Writing
<1>5. FramesInv'
  BY <1>1 DEF LinkInv, FramesInv, WholeStream
<1> QED
  BY <1>2, <1>3, <1>4, <1>5 DEF LinkInv

-----------------------------------------------------------------------------
(* send().                                                                 *)

\* Behind s there may follow byte from + 1 of the frame of e.
Continues(s, e, from) ==
    /\ from > 0 => s # <<>> /\ s[Len(s)] = <<e, from>>
    /\ from = 0 /\ s # <<>> => s[Len(s)][2] = mfmeventsize(s[Len(s)][1]) /\ s[Len(s)][1] < e

\* t is whole, n bytes longer than s and ends behind byte from + n of e.
Extends(t, s, e, from, n) ==
    /\ t \in Bytestrings /\ Len(t) = Len(s) + n
    /\ t[Len(s) + n] = <<e, from + n>>
    /\ WholeStream(t)

\* More bytes of the frame at hand, behind a stream that ends well: the
\* stream is whole again and ends with the last of them.
LEMMA BytesFollow ==
    ASSUME NEW s \in Bytestrings, NEW e \in Events, NEW from \in Nat, NEW n \in Nat \ {0},
           WholeStream(s), Continues(s, e, from),
           NEW t, t = s \o Bytes(e, from, n)
    PROVE  Extends(t, s, e, from, n)
<1> DEFINE B == Events \X Nat
           b == Bytes(e, from, n)
<1>1. b \in Seq(B) /\ Len(b) = n /\ \A k \in 1..n : b[k] = <<e, from + k>>
  BY DEF Bytes
<1>0. s \in Seq(B) /\ Len(s) \in Nat
  BY DEF Bytestrings
<1> HIDE DEF b, B
<1>2. /\ t \in Seq(B) /\ Len(t) = Len(s) + n /\ Len(s) \in Nat
      /\ \A k \in 1..(Len(s) + n) : t[k] = IF k <= Len(s) THEN s[k] ELSE b[k - Len(s)]
  BY <1>0, <1>1, ConcatProperties DEF b
<1>3. \A k \in 1..Len(s) : t[k] = s[k]
  BY <1>2
<1>4. ASSUME NEW j \in 1..n PROVE t[Len(s) + j] = <<e, from + j>>
  <2>1. Len(s) + j \in 1..(Len(s) + n) /\ ~(Len(s) + j <= Len(s)) /\ (Len(s) + j) - Len(s) = j
    BY <1>0
  <2> QED
    BY <1>1, <1>2, <2>1
<1>5. WholeStream(t)
  <2> SUFFICES ASSUME NEW k \in 1..Len(t)
               PROVE  /\ t[k][2] > 1 => k > 1 /\ t[k - 1] = <<t[k][1], t[k][2] - 1>>
                      /\ t[k][2] = 1 /\ k > 1 => /\ t[k - 1][1] < t[k][1]
                                                 /\ t[k - 1][2] = mfmeventsize(t[k - 1][1])
    BY DEF WholeStream
  <2>1. CASE k <= Len(s)
    <3>1. t[k] = s[k] /\ (k > 1 => t[k - 1] = s[k - 1])
      BY <1>2, <1>3, <2>1
    <3> QED
      BY <2>1, <3>1, <1>2 DEF WholeStream
  <2>2. CASE k = Len(s) + 1
    <3>1. t[k] = <<e, from + 1>>
      BY <1>4, <2>2
    <3>2. CASE from > 0
      <4>1. s # <<>> /\ s[Len(s)] = <<e, from>>
        BY <3>2 DEF Continues
      <4>2. Len(s) > 0
        BY <1>0, <4>1, EmptySeq
      <4>3. k > 1 /\ t[k - 1] = <<e, from>>
        BY <1>0, <1>3, <2>2, <4>1, <4>2
      <4> QED
        BY <3>1, <3>2, <4>3
    <3>3. CASE from = 0
      <4>1. ASSUME k > 1 PROVE t[k - 1] = s[Len(s)] /\ s # <<>>
        <5>1. Len(s) > 0 /\ k - 1 = Len(s)
          BY <1>0, <2>2, <4>1
        <5> QED
          BY <1>0, <1>3, <5>1
      <4> QED
        BY <3>1, <3>3, <4>1 DEF Continues
    <3> QED
      BY <3>2, <3>3
  <2>3. CASE k > Len(s) + 1
    <3> DEFINE j == k - Len(s)
    <3>1. j \in 1..n /\ j - 1 \in 1..n /\ j > 1 /\ k > 1
          /\ k = Len(s) + j /\ k - 1 = Len(s) + (j - 1)
      BY <1>0, <1>2, <2>3
    <3> HIDE DEF j
    <3>2. t[k] = <<e, from + j>> /\ t[k - 1] = <<e, from + (j - 1)>>
      BY <1>4, <3>1
    <3>3. from + j > 1 /\ (from + j) - 1 = from + (j - 1)
      BY <3>1
    <3> QED
      BY <3>1, <3>2, <3>3
  <2> QED
    BY <1>2, <2>1, <2>2, <2>3
<1>6. t[Len(s) + n] = <<e, from + n>>
  <2>1. n \in 1..n
    OBVIOUS
  <2> QED
    BY <1>4, <2>1, Zenon
<1> QED
  BY <1>2, <1>5, <1>6 DEF Bytestrings, B, Extends

LEMMA SendInv == ASSUME LinkInv, NEW n \in 1..TcpWind, Send(n) PROVE LinkInv'
<1> USE Constants
<1> DEFINE c == ConnectionSocket
<1>1. /\ c \in Connections /\ c <= nconn /\ c # NoSocket
      /\ ev \in Events /\ ecrit \in Nat /\ mfmeventsize(ev) \in Nat /\ n \in Nat \ {0}
      /\ ecrit + n <= chunk /\ chunk <= mfmeventsize(ev) /\ chunk \in Nat
  <2>1. pc = "send" /\ n \in 1..(chunk - ecrit)
    BY DEF Send
  <2>2. c # NoSocket /\ ev \in Events /\ ecrit \in Nat /\ chunk \in Nat /\ chunk <= mfmeventsize(ev)
    BY <2>1 DEF LinkInv, SenderInv
  <2>3. c \in Connections /\ c <= nconn
    BY <2>2, SocketIsOne
  <2>4. mfmeventsize(ev) \in Nat
    BY <2>2, FrameSize
  <2> QED
    BY <2>1, <2>2, <2>3, <2>4
<1>2. /\ UNCHANGED <<published, queue, ev, chunk, ConnectionSocket, nconn, broken, pos>>
      /\ ecrit' = ecrit + n /\ pc = "send"
  BY DEF Send, receiver
<1>3. /\ ecrit' = mfmeventsize(ev) => pc' = "recv"
      /\ ecrit' # mfmeventsize(ev) => pc' \in {"select", "send"}
      /\ pc' = "send" => ecrit' # chunk
  BY <1>1, <1>2 DEF Send, Goto
<1>4. SenderInv'
  BY <1>1, <1>2, <1>3 DEF LinkInv, SenderInv, Labels
<1>5. CASE c \in broken /\ UNCHANGED stream
  <2>1. StreamInv'
    BY <1>2, <1>5 DEF LinkInv, StreamInv, InFlight
  <2>2. TailInv'
    BY <1>2, <1>5 DEF TailInv
  <2>3. FramesInv'
    BY <1>5 DEF LinkInv, FramesInv, WholeStream
  <2> QED
    BY <1>4, <2>1, <2>2, <2>3 DEF LinkInv
<1>6. CASE /\ c \notin broken /\ InFlight(c) + n <= SocketBuffer
           /\ stream' = [stream EXCEPT ![c] = @ \o Bytes(ev, ecrit, n)]
  <2> DEFINE s == stream[c]
             t == s \o Bytes(ev, ecrit, n)
  <2>1. EndsWell(s)
    BY <1>1, <1>2, <1>6 DEF LinkInv, TailInv
  <2>2. s \in Bytestrings /\ WholeStream(s)
    BY <1>1 DEF LinkInv, StreamInv, FramesInv
  <2>3. Continues(s, ev, ecrit)
    BY <1>1, <1>2, <2>1 DEF EndsWell, Writing, Continues
  <2> HIDE DEF s
  <2>4. /\ t \in Bytestrings /\ Len(t) = Len(s) + n /\ t[Len(s) + n] = <<ev, ecrit + n>>
        /\ WholeStream(t)
    <3>1. ev \in Events /\ ecrit \in Nat /\ n \in Nat \ {0}
      BY <1>1
    <3>2. t = s \o Bytes(ev, ecrit, n)
      OBVIOUS
    <3> HIDE Constants DEF t
    <3>3. Extends(t, s, ev, ecrit, n)
      BY <2>2, <2>3, <3>1, <3>2, BytesFollow, Zenon
    <3> QED
      BY <3>3 DEF Extends
  <2> HIDE DEF t
  <2>5. stream'[c] = t /\ \A k \in Connections : k # c => stream'[k] = stream[k]
    BY <1>1, <1>6 DEF LinkInv, StreamInv, s, t
  <2>6. StreamInv'
    <3>1. stream' \in [Connections -> Bytestrings]
      BY <1>6, <2>4 DEF LinkInv, StreamInv, s, t
    <3>2. ASSUME NEW k \in Connections PROVE Len(stream'[k]) - pos[k] \in 0..SocketBuffer
      <4>1. Len(stream[k]) \in Nat /\ pos[k] \in Nat
            /\ Len(stream[k]) - pos[k] \in 0..SocketBuffer
        BY DEF LinkInv, StreamInv, InFlight, Bytestrings
      <4>2. CASE k = c
        <5>1. Len(stream'[k]) = Len(stream[k]) + n
          BY <2>4, <2>5, <4>2 DEF s
        <5>2. Len(stream[k]) - pos[k] + n <= SocketBuffer
          BY <1>6, <4>2 DEF InFlight
        <5>3. \A l, p \in Nat : l - p \in 0..SocketBuffer /\ l - p + n <= SocketBuffer
                                   => (l + n) - p \in 0..SocketBuffer
          OBVIOUS
        <5> QED
          BY <4>1, <5>1, <5>2, <5>3
      <4>3. CASE k # c
        BY <2>5, <4>1, <4>3
      <4> QED
        BY <4>2, <4>3
    <3>3. \A k \in Connections : k > nconn => stream'[k] = <<>>
      BY <1>1, <2>5 DEF LinkInv, StreamInv, SenderInv
    <3> QED
      BY <1>2, <3>1, <3>2, <3>3 DEF LinkInv, StreamInv, InFlight
  <2>7. TailInv'
    <3>1. t # <<>> /\ t[Len(t)] = <<ev, ecrit'>>
      <4>0. Len(s) \in Nat
        BY <2>2 DEF Bytestrings
      <4>1. Len(t) > 0
        BY <1>1, <2>4, <4>0
      <4> QED
        BY <1>2, <2>4, <4>0, <4>1
    <3>2. EndsWell(stream[c])'
      <4>1. CASE pc' = "recv"
        <5>1. ecrit' = mfmeventsize(ev)
          BY <1>3, <4>1
        <5>2. ~Writing' /\ ev' = ev /\ ev <= ev
          BY <1>1, <1>2, <4>1 DEF Writing
        <5> QED
          BY <1>2, <2>5, <3>1, <5>1, <5>2 DEF EndsWell
      <4>2. CASE pc' # "recv"
        <5>1. Writing' /\ ecrit' > 0
          BY <1>1, <1>2, <1>3, <4>2 DEF Writing
        <5> QED
          BY <1>2, <2>5, <3>1, <5>1 DEF EndsWell
      <4> QED
        BY <4>1, <4>2
    <3> QED
      BY <3>2 DEF TailInv
  <2>8. FramesInv'
    <3> SUFFICES ASSUME NEW k \in Connections PROVE WholeStream(stream'[k])
      BY DEF FramesInv, WholeStream
    <3> QED
      BY <2>4, <2>5 DEF LinkInv, FramesInv
  <2> QED
    BY <1>4, <2>6, <2>7, <2>8 DEF LinkInv
<1> QED
  BY <1>5, <1>6 DEF Send

-----------------------------------------------------------------------------
LEMMA NextInv == LinkInv /\ [Next]_vars => LinkInv'
<1> SUFFICES ASSUME LinkInv, [Next]_vars PROVE LinkInv'
  OBVIOUS
<1>1. CASE UNCHANGED vars
  <2>1. SenderInv' /\ StreamInv'
    BY <1>1 DEF vars, receiver, LinkInv, SenderInv, StreamInv, InFlight
  <2>2. TailInv' /\ FramesInv'
    BY <1>1 DEF vars, LinkInv, TailInv, EndsWell, Writing, FramesInv, WholeStream
  <2> QED
    BY <2>1, <2>2 DEF LinkInv
<1>2. CASE Publish
  BY <1>2, PublishInv
<1>3. CASE Transmitter
  BY <1>3, RecvInv, SelectInv, SendInv, WriteFailsInv, ConnectInv DEF Transmitter
<1>4. CASE Crash \/ Restart \/ Stall \/ Resume
  BY <1>4, ServerInv
<1>5. CASE \E c \in Connections, n \in 1..TcpWind : Read(c, n)
  BY <1>5, ReadInv
<1> QED
  BY <1>1, <1>2, <1>3, <1>4, <1>5 DEF Next

LEMMA InvHolds == Spec => []LinkInv
  BY InitInv, NextInv, PTL DEF Spec

\* TcpWrite() never overruns its frame or the window it has, and there is at
\* most one connection for each event, for every size of events and buffers.
THEOREM TransmitterTypes == Spec => []TypeOK
<1>1. LinkInv => TypeOK
  BY Constants DEF LinkInv, SenderInv, StreamInv, Labels, TypeOK
<1> QED
  BY <1>1, InvHolds, PTL

\* What a connection to the FDT server carries is whole frames of later and
\* later events with at most the last one cut, wherever the server crashes,
\* stalls or comes back and however TcpWrite() cuts the frames into pieces.
THEOREM FramesAreWhole == Spec => []WholeFrames
<1>1. LinkInv => WholeFrames
  <2> SUFFICES ASSUME LinkInv, NEW c \in Connections, NEW k \in DOMAIN stream[c]
               PROVE  /\ stream[c][k][2] > 1 =>
                            k > 1 /\ stream[c][k - 1] = <<stream[c][k][1], stream[c][k][2] - 1>>
                      /\ stream[c][k][2] = 1 /\ k > 1 =>
                            /\ stream[c][k - 1][1] < stream[c][k][1]
                            /\ stream[c][k - 1][2] = mfmeventsize(stream[c][k - 1][1])
    BY DEF WholeFrames
  <2>1. k \in 1..Len(stream[c])
    BY DEF LinkInv, StreamInv, Bytestrings
  <2> QED
    BY <2>1 DEF LinkInv, FramesInv, WholeStream
<1> QED
  BY <1>1, InvHolds, PTL

-----------------------------------------------------------------------------
(* What arrives.                                                           *)

\* The length in 16 bit words fits the field (24 bits in the code).
FramesFit == \A e \in Events : mfmeventsize(e) \div 2 < FrameMod

\* One connection: bytes within their frames, of later and later events.
InRange(s) == \A k \in 1..Len(s) : s[k][2] \in 1..mfmeventsize(s[k][1])
Rising(s) == \A k, l \in 1..Len(s) : k <= l => s[k][1] <= s[l][1]

\* The event at hand is the last one sent, and only on the present socket.
Recent(c) ==
    \A k \in 1..Len(stream[c]) :
        stream[c][k][1] <= ev /\ (Writing /\ stream[c][k][1] = ev => c = ConnectionSocket)

BytesInv == \A c \in Connections : InRange(stream[c]) /\ Rising(stream[c]) /\ Recent(c)

\* No event is sent, in part, on two connections.
ApartInv ==
    \A c, d \in Connections : \A k \in 1..Len(stream[c]), l \in 1..Len(stream[d]) :
        stream[c][k][1] = stream[d][l][1] => c = d

\* The receiver is at the end of a frame.
AtFrameEnd(c) ==
    start[c] > 0 => stream[c][start[c]][2] = mfmeventsize(stream[c][start[c]][1])

\* What it has delivered is behind it on some connection.
Passed(e) == \E c \in Connections : \E j \in 1..start[c] : stream[c][j][1] = e

ReceiverInv ==
    /\ start \in [Connections -> Nat] /\ delivered \in Seq(Events)
    /\ \A c \in Connections : start[c] <= pos[c] /\ AtFrameEnd(c)
    /\ \A k \in 1..Len(delivered) : Passed(delivered[k])

DeliveryInv == BytesInv /\ ApartInv /\ ReceiverInv

-----------------------------------------------------------------------------
(* Frames and streams.                                                     *)

LEMMA StreamTypes ==
    ASSUME LinkInv, NEW c \in Connections
    PROVE  /\ stream[c] \in Bytestrings /\ Len(stream[c]) \in Nat
           /\ pos[c] \in Nat /\ pos[c] <= Len(stream[c])
           /\ \A k \in 1..Len(stream[c]) :
                 /\ stream[c][k] \in Events \X Nat
                 /\ stream[c][k][1] \in Events /\ stream[c][k][2] \in Nat
                 /\ stream[c][k][1] \in Nat
<1>1. stream[c] \in Seq(Events \X Nat) /\ pos[c] \in Nat /\ InFlight(c) \in 0..SocketBuffer
  BY DEF LinkInv, StreamInv, Bytestrings
<1>2. Len(stream[c]) \in Nat /\ \A k \in 1..Len(stream[c]) : stream[c][k] \in Events \X Nat
  BY <1>1
<1>3. pos[c] <= Len(stream[c])
  BY <1>1, <1>2, Constants DEF InFlight
<1>4. \A e \in Events : e \in Nat
  BY Constants
<1> QED
  BY <1>1, <1>2, <1>3, <1>4 DEF Bytestrings

\* The length that the receiver goes by is that of the frame.
LEMMA LengthIsRight ==
    ASSUME FramesFit, NEW e \in Events PROVE 2 * frameSize(e) = mfmeventsize(e)
<1> DEFINE x == HEADER + ByteSize[e]
<1>1. x \in Nat
  BY TransmitterAssumption DEF Events
<1>2. mfmeventsize(e) = x + (x % 2)
  BY DEF mfmeventsize
<1> HIDE DEF x
<1>3. x = 2 * (x \div 2) + (x % 2) /\ x \div 2 \in Nat /\ x % 2 \in 0..1
  BY <1>1
<1>4. PICK w \in Nat : mfmeventsize(e) = 2 * w
  <2>1. CASE x % 2 = 0
    BY <1>2, <1>3, <2>1
  <2>2. CASE x % 2 = 1
    <3>1. mfmeventsize(e) = 2 * (x \div 2 + 1) /\ x \div 2 + 1 \in Nat
      BY <1>2, <1>3, <2>2
    <3> QED
      BY <3>1
  <2> QED
    BY <1>3, <2>1, <2>2
<1>5. mfmeventsize(e) \div 2 = w
  BY <1>4
<1>6. w < FrameMod /\ FrameMod \in Nat
  BY <1>5, TransmitterAssumption DEF FramesFit
<1>7. w % FrameMod = w
  BY <1>6
<1> QED
  BY <1>4, <1>5, <1>7 DEF frameSize

LEMMA LeastNumber ==
    ASSUME NEW S \in SUBSET Nat, S # {} PROVE \E m \in S : \A k \in S : m <= k
<1>1. \E m \in S : \A k \in S : ~(<<k, m>> \in OpToRel(<, Nat))
  BY WFMin, NatLessThanWellFounded
<1>2. ASSUME NEW k \in Nat, NEW m \in Nat, k < m PROVE <<k, m>> \in OpToRel(<, Nat)
  BY <1>2, Zenon DEF OpToRel
<1>3. \E m \in S : \A k \in S : ~(k < m)
  BY <1>1, <1>2, Zenon
<1> QED
  BY <1>3

\* Behind the end of a frame there begins a frame, of a later event.
LEMMA FrameBegins ==
    ASSUME LinkInv, BytesInv, ReceiverInv, NEW c \in Connections, start[c] < Len(stream[c])
    PROVE  /\ FirstByte(c)[2] = 1 /\ FirstByte(c)[1] \in Events
           /\ \A j \in 1..start[c] : stream[c][j][1] < FirstByte(c)[1]
<1> DEFINE s == stream[c]
           p == start[c]
<1>1. /\ s \in Bytestrings /\ Len(s) \in Nat
      /\ \A k \in 1..Len(s) : /\ s[k] \in Events \X Nat /\ s[k][1] \in Events /\ s[k][2] \in Nat
                              /\ s[k][1] \in Nat
  BY StreamTypes
<1>2. p \in Nat /\ p < Len(s) /\ p + 1 \in 1..Len(s)
  BY <1>1 DEF ReceiverInv
<1>3. WholeStream(s) /\ InRange(s) /\ Rising(s)
  BY DEF LinkInv, FramesInv, BytesInv
<1>4. FirstByte(c) = s[p + 1]
  BY DEF FirstByte
<1>5. p > 0 => s[p][2] = mfmeventsize(s[p][1])
  BY DEF ReceiverInv, AtFrameEnd
<1> HIDE DEF s, p
<1>6. s[p + 1][2] \in 1..mfmeventsize(s[p + 1][1]) /\ mfmeventsize(s[p + 1][1]) \in Nat
  BY <1>1, <1>2, <1>3, FrameSize DEF InRange
<1>7. s[p + 1][2] = 1
  <2> SUFFICES ASSUME s[p + 1][2] > 1 PROVE FALSE
    BY <1>1, <1>2, <1>6
  <2>1. p + 1 > 1 /\ s[p] = <<s[p + 1][1], s[p + 1][2] - 1>>
    <3>1. (p + 1) - 1 = p
      BY <1>2
    <3> QED
      BY <1>2, <1>3, <3>1 DEF WholeStream
  <2>2. s[p][2] = s[p + 1][2] - 1 /\ s[p][1] = s[p + 1][1]
    BY <2>1
  <2>3. s[p + 1][2] - 1 = mfmeventsize(s[p + 1][1])
    BY <1>2, <1>5, <2>1, <2>2
  <2> QED
    BY <1>6, <2>3
<1>8. ASSUME NEW j \in 1..p PROVE s[j][1] < s[p + 1][1]
  <2>1. p \in 1..Len(s) /\ j \in 1..Len(s) /\ j <= p /\ p + 1 > 1 /\ (p + 1) - 1 = p
    BY <1>2
  <2>2. s[j][1] <= s[p][1]
    BY <1>3, <2>1 DEF Rising
  <2>3. s[p][1] < s[p + 1][1]
    BY <1>2, <1>3, <1>7, <2>1 DEF WholeStream
  <2>4. s[j][1] \in Nat /\ s[p][1] \in Nat /\ s[p + 1][1] \in Nat
    BY <1>1, <1>2, <2>1
  <2> QED
    BY <2>2, <2>3, <2>4
<1>9. s[p + 1][1] \in Events
  BY <1>1, <1>2
<1> QED
  BY <1>4, <1>7, <1>8, <1>9 DEF s, p

\* From there on the bytes of that frame follow in their order, up to its
\* end: there is no first one that does not.
LEMMA FrameFollows ==
    ASSUME LinkInv, BytesInv, ReceiverInv, NEW c \in Connections,
           start[c] + mfmeventsize(FirstByte(c)[1]) <= Len(stream[c]),
           start[c] < Len(stream[c])
    PROVE  \A k \in 1..mfmeventsize(FirstByte(c)[1]) : stream[c][start[c] + k] = <<FirstByte(c)[1], k>>
<1> DEFINE s == stream[c]
           p == start[c]
           e == FirstByte(c)[1]
           Odd == {k \in 1..mfmeventsize(e) : s[p + k] # <<e, k>>}
<1>1. /\ Len(s) \in Nat
      /\ \A k \in 1..Len(s) : s[k] \in Events \X Nat /\ s[k][1] \in Events /\ s[k][2] \in Nat
  BY StreamTypes
<1>2. p \in Nat
  BY DEF ReceiverInv
<1>3. WholeStream(s) /\ InRange(s)
  BY DEF LinkInv, FramesInv, BytesInv
<1>4. FirstByte(c) = s[p + 1] /\ FirstByte(c)[2] = 1 /\ e \in Events
  BY FrameBegins DEF FirstByte
<1>5. mfmeventsize(e) \in Nat /\ p + mfmeventsize(e) <= Len(s) /\ p + 1 \in 1..Len(s)
  BY <1>1, <1>2, <1>4, FrameSize
<1>6. s[p + 1] = <<e, 1>>
  BY <1>1, <1>4, <1>5
<1> HIDE DEF s, p, e
<1> SUFFICES ASSUME Odd # {} PROVE FALSE
  BY DEF s, p, e
<1>7. PICK m \in Odd : \A k \in Odd : m <= k
  <2>1. Odd \in SUBSET Nat
    BY <1>5
  <2> HIDE DEF Odd
  <2> QED
    BY <2>1, LeastNumber, Zenon
<1>8. m \in 1..mfmeventsize(e) /\ s[p + m] # <<e, m>> /\ m # 1
  BY <1>6
<1>9. s[p + (m - 1)] = <<e, m - 1>>
  <2>1. m - 1 \in 1..mfmeventsize(e) /\ ~(m <= m - 1)
    BY <1>5, <1>8
  <2> QED
    BY <1>7, <2>1
<1>10. p + m \in 1..Len(s) /\ (p + m) - 1 = p + (m - 1) /\ p + m > 1
  BY <1>1, <1>2, <1>5, <1>8
<1>11. s[p + m] = <<s[p + m][1], s[p + m][2]>> /\ s[p + m][2] \in Nat /\ s[p + m][2] > 0
  <2>1. mfmeventsize(s[p + m][1]) \in Nat
    BY <1>1, <1>10, FrameSize
  <2>2. s[p + m][2] \in 1..mfmeventsize(s[p + m][1])
    BY <1>3, <1>10 DEF InRange
  <2>3. s[p + m] \in Events \X Nat
    BY <1>1, <1>10
  <2> QED
    BY <2>1, <2>2, <2>3
<1>12. CASE s[p + m][2] > 1
  <2>1. s[p + (m - 1)] = <<s[p + m][1], s[p + m][2] - 1>>
    BY <1>3, <1>10, <1>12 DEF WholeStream
  <2>2. s[p + m][1] = e /\ s[p + m][2] - 1 = m - 1
    BY <1>9, <2>1
  <2>3. s[p + m][2] = m
    BY <1>8, <1>11, <2>2
  <2> QED
    BY <1>8, <1>11, <2>2, <2>3
<1>13. CASE s[p + m][2] = 1
  <2>1. s[p + (m - 1)][2] = mfmeventsize(s[p + (m - 1)][1])
    BY <1>3, <1>10, <1>13 DEF WholeStream
  <2>2. m - 1 = mfmeventsize(e)
    BY <1>9, <2>1
  <2> QED
    BY <1>5, <1>8, <2>2
<1> QED
  BY <1>11, <1>12, <1>13

-----------------------------------------------------------------------------
(* The receiver.                                                           *)

\* A read that ends a frame delivers the event that the frame is of.
Delivers(c) ==
    /\ FirstByte(c)[1] \in Events
    /\ start' = [start EXCEPT ![c] = start[c] + mfmeventsize(FirstByte(c)[1])]
    /\ pos'[c] = start[c] + mfmeventsize(FirstByte(c)[1])
    /\ start[c] + mfmeventsize(FirstByte(c)[1]) <= Len(stream[c])
    /\ start[c] < Len(stream[c])
    /\ delivered' = Append(delivered, FirstByte(c)[1])

LEMMA ReadDelivers ==
    ASSUME FramesFit, LinkInv, BytesInv, ReceiverInv,
           NEW c \in Connections, NEW n \in 1..TcpWind, Read(c, n)
    PROVE  UNCHANGED <<start, delivered>> \/ Delivers(c)
<1> DEFINE s == stream[c]
           p == start[c]
           e == FirstByte(c)[1]
<1>1. /\ s \in Bytestrings /\ Len(s) \in Nat /\ pos[c] \in Nat
      /\ \A k \in 1..Len(s) : s[k] \in Events \X Nat
  BY StreamTypes
<1>2. p \in Nat /\ p <= pos[c]
  BY DEF ReceiverInv
<1>3. pos'[c] = pos[c] + n /\ pos'[c] <= Len(s) /\ p < pos'[c] /\ pos'[c] \in Nat
  <2>1. pos' = [pos EXCEPT ![c] = pos[c] + n] /\ n <= Len(s) - pos[c]
    BY DEF Read, InFlight
  <2>2. pos'[c] = pos[c] + n
    BY <2>1 DEF LinkInv, StreamInv
  <2> QED
    BY <1>1, <1>2, <2>1, <2>2, Constants
<1>4. start[c] < Len(stream[c])
  BY <1>1, <1>2, <1>3
<1>5. e \in Events
  BY <1>4, FrameBegins
<1>6. 2 * frameSize(e) = mfmeventsize(e) /\ mfmeventsize(e) \in Nat
  BY <1>5, LengthIsRight, FrameSize
<1>7. CASE pos'[c] >= start[c] + HEADER /\ pos'[c] = start[c] + 2 * frameSize(FirstByte(c)[1])
  <2>1. /\ start' = [start EXCEPT ![c] = pos'[c]]
        /\ delivered' = Append(delivered,
                               IF SubSeq(s, p + 1, pos'[c]) = Bytes(e, 0, mfmeventsize(e))
                               THEN e ELSE NoFrame)
    BY <1>7 DEF Read
  <2>2. pos'[c] = start[c] + mfmeventsize(e)
    BY <1>6, <1>7
  <2>3. \A k \in 1..mfmeventsize(e) : s[p + k] = <<e, k>>
    BY <1>3, <1>4, <2>2, FrameFollows
  <2> DEFINE sub == SubSeq(s, p + 1, pos'[c])
             b == Bytes(e, 0, mfmeventsize(e))
  <2>4. /\ b \in Seq(Events \X Nat) /\ Len(b) = mfmeventsize(e)
        /\ \A k \in 1..mfmeventsize(e) : b[k] = <<e, k>>
    <3> HIDE DEF e
    <3> QED
      BY <1>5, <1>6 DEF Bytes
  <2>5. /\ sub \in Seq(Events \X Nat) /\ Len(sub) = mfmeventsize(e)
        /\ \A k \in 1..mfmeventsize(e) : sub[k] = s[p + k]
    <3>1. /\ p + 1 \in Int /\ pos'[c] \in Int /\ pos'[c] - (p + 1) + 1 = mfmeventsize(e)
          /\ p + 1 <= pos'[c]
      BY <1>2, <1>3, <1>6, <2>2
    <3>2. \A k \in (p + 1)..pos'[c] : s[k] \in Events \X Nat
      BY <1>1, <1>2, <1>3
    <3>3. ASSUME NEW k \in 1..mfmeventsize(e) PROVE (p + 1) + k - 1 = p + k
      BY <1>2, <1>6
    <3> HIDE DEF s, p, e
    <3> QED
      BY <3>1, <3>2, <3>3, SubSeqProperties
  <2>6. sub = b
    <3> HIDE DEF sub, b
    <3> QED
      BY <2>3, <2>4, <2>5, SeqEqual
  <2> QED
    BY <1>3, <1>4, <1>5, <2>1, <2>2, <2>6 DEF Delivers
<1>8. CASE ~(pos'[c] >= start[c] + HEADER /\ pos'[c] = start[c] + 2 * frameSize(FirstByte(c)[1]))
  BY <1>8 DEF Read
<1> QED
  BY <1>7, <1>8

\* It had not delivered that event before, on this connection or another.
LEMMA DeliversNew ==
    ASSUME LinkInv, DeliveryInv, NEW c \in Connections, Delivers(c)
    PROVE  \A k \in 1..Len(delivered) : delivered[k] # FirstByte(c)[1]
<1> SUFFICES ASSUME NEW k \in 1..Len(delivered), delivered[k] = FirstByte(c)[1] PROVE FALSE
  OBVIOUS
<1>0. BytesInv /\ ApartInv /\ ReceiverInv
  BY DEF DeliveryInv
<1>1. PICK d \in Connections : \E j \in 1..start[d] : stream[d][j][1] = FirstByte(c)[1]
  BY <1>0 DEF ReceiverInv, Passed
<1>2. PICK j \in 1..start[d] : stream[d][j][1] = FirstByte(c)[1]
  BY <1>1
<1>3. j \in 1..Len(stream[d]) /\ start[c] + 1 \in 1..Len(stream[c])
  <2>1. start[d] \in Nat /\ start[c] \in Nat /\ start[d] <= pos[d]
    BY <1>0 DEF ReceiverInv
  <2>2. Len(stream[d]) \in Nat /\ Len(stream[c]) \in Nat /\ pos[d] \in Nat /\ pos[d] <= Len(stream[d])
    BY StreamTypes
  <2>3. start[c] < Len(stream[c])
    BY DEF Delivers
  <2> QED
    BY <2>1, <2>2, <2>3
<1>4. d = c
  BY <1>0, <1>2, <1>3 DEF ApartInv, FirstByte
<1>5. stream[c][j][1] < FirstByte(c)[1]
  BY <1>0, <1>2, <1>4, FrameBegins DEF Delivers
<1>6. FirstByte(c)[1] \in Nat
  BY Constants DEF Delivers
<1> QED
  BY <1>2, <1>4, <1>5, <1>6

LEMMA ReadDelivery ==
    ASSUME FramesFit, LinkInv, DeliveryInv, NEW c \in Connections, NEW n \in 1..TcpWind, Read(c, n)
    PROVE  DeliveryInv'
<1>0. BytesInv /\ ApartInv /\ ReceiverInv
  BY DEF DeliveryInv
<1>1. /\ UNCHANGED <<pc, ev, ConnectionSocket, stream>>
      /\ pos' = [pos EXCEPT ![c] = pos[c] + n] /\ n \in Nat
  BY Constants DEF Read
<1>2. BytesInv' /\ ApartInv'
  BY <1>0, <1>1 DEF BytesInv, ApartInv, InRange, Rising, Recent, Writing
<1>3. /\ pos \in [Connections -> Nat] /\ start \in [Connections -> Nat]
      /\ \A d \in Connections : start[d] <= pos[d] /\ pos[d] <= pos'[d] /\ pos'[d] \in Nat
  <2>1. pos \in [Connections -> Nat] /\ start \in [Connections -> Nat]
        /\ \A d \in Connections : start[d] <= pos[d]
    BY <1>0 DEF LinkInv, StreamInv, ReceiverInv
  <2>2. \A d \in Connections : pos'[d] = IF d = c THEN pos[d] + n ELSE pos[d]
    BY <1>1, <2>1
  <2> QED
    BY <1>1, <2>1, <2>2
<1>4. CASE UNCHANGED <<start, delivered>>
  <2>1. \A d \in Connections : start[d] <= pos'[d]
    BY <1>3
  <2>2. ReceiverInv'
    BY <1>0, <1>1, <1>4, <2>1 DEF ReceiverInv, AtFrameEnd, Passed
  <2> QED
    BY <1>2, <2>2 DEF DeliveryInv
<1>5. CASE Delivers(c)
  <2> DEFINE e == FirstByte(c)[1]
             q == start[c] + mfmeventsize(e)
  <2>1. /\ e \in Events /\ start' = [start EXCEPT ![c] = q] /\ pos'[c] = q
        /\ q <= Len(stream[c]) /\ start[c] < Len(stream[c])
        /\ delivered' = Append(delivered, e)
    BY <1>5 DEF Delivers
  <2>2. mfmeventsize(e) \in Nat /\ mfmeventsize(e) > 0
    BY <2>1, FrameSize
  <2>3. stream[c][q] = <<e, mfmeventsize(e)>> /\ stream[c][start[c] + 1][1] = e
    <3>1. mfmeventsize(e) \in 1..mfmeventsize(e)
      BY <2>2
    <3> QED
      BY <1>0, <2>1, <3>1, FrameFollows DEF FirstByte
  <2>4. q \in Nat /\ start[c] < q /\ start[c] \in Nat
    BY <1>3, <2>2
  <2> HIDE DEF e, q
  <2>5. start' \in [Connections -> Nat] /\ \A d \in Connections : start'[d] = IF d = c THEN q ELSE start[d]
    BY <1>3, <2>1, <2>4
  <2>6. ASSUME NEW d \in Connections PROVE start'[d] <= pos'[d] /\ AtFrameEnd(d)'
    <3>1. CASE d = c
      <4>1. stream[c][q][2] = mfmeventsize(stream[c][q][1])
        BY <2>3
      <4> QED
        BY <1>1, <2>1, <2>4, <2>5, <3>1, <4>1 DEF AtFrameEnd
    <3>2. CASE d # c
      <4>1. start'[d] = start[d]
        BY <2>5, <3>2
      <4> QED
        BY <1>0, <1>1, <1>3, <4>1 DEF AtFrameEnd, ReceiverInv
    <3> QED
      BY <3>1, <3>2
  <2>7. \A f \in Events : Passed(f) => Passed(f)'
    <3> SUFFICES ASSUME NEW f \in Events, NEW d \in Connections, NEW j \in 1..start[d],
                        stream[d][j][1] = f
                 PROVE  Passed(f)'
      BY DEF Passed
    <3>1. j \in 1..start'[d]
      BY <1>3, <2>4, <2>5
    <3> QED
      BY <1>1, <3>1 DEF Passed
  <2>8. ASSUME NEW f \in Events, f = e PROVE Passed(f)'
    <3>1. start[c] + 1 \in 1..start'[c]
      BY <2>4, <2>5
    <3> QED
      BY <1>1, <2>3, <2>8, <3>1 DEF Passed
  <2>9. /\ delivered' \in Seq(Events) /\ Len(delivered') = Len(delivered) + 1
        /\ Len(delivered) \in Nat /\ delivered'[Len(delivered) + 1] = e
        /\ \A k \in 1..Len(delivered) : delivered'[k] = delivered[k] /\ delivered[k] \in Events
    BY <1>0, <2>1, AppendProperties DEF ReceiverInv
  <2>10. ASSUME NEW k \in 1..Len(delivered') PROVE Passed(delivered[k])'
    <3>0. PICK f \in Events : f = delivered'[k]
      BY <2>9
    <3>1. CASE k \in 1..Len(delivered)
      <4>1. Passed(f)
        BY <1>0, <2>9, <3>0, <3>1 DEF ReceiverInv
      <4>2. Passed(f)'
        BY <2>7, <4>1
      <4> QED
        BY <3>0, <4>2 DEF Passed
    <3>2. CASE k = Len(delivered) + 1
      <4>1. Passed(f)'
        BY <2>8, <2>9, <3>0, <3>2
      <4> QED
        BY <3>0, <4>1 DEF Passed
    <3> QED
      BY <2>9, <3>1, <3>2
  <2>11. ReceiverInv'
    BY <2>5, <2>6, <2>9, <2>10 DEF ReceiverInv
  <2> QED
    BY <1>2, <2>11 DEF DeliveryInv
<1> QED
  BY <1>0, <1>4, <1>5, ReadDelivers

-----------------------------------------------------------------------------
(* The transmitter.                                                        *)

LEMMA InitDelivery == Init => DeliveryInv
<1> SUFFICES ASSUME Init PROVE DeliveryInv
  OBVIOUS
<1>1. /\ stream = [c \in Connections |-> <<>>] /\ start = [c \in Connections |-> 0]
      /\ pos = [c \in Connections |-> 0] /\ delivered = <<>>
  BY Zenon DEF Init
<1>2. BytesInv /\ ApartInv
  BY <1>1 DEF BytesInv, ApartInv, InRange, Rising, Recent
<1>3. ReceiverInv
  BY <1>1 DEF ReceiverInv, AtFrameEnd
<1> QED
  BY <1>2, <1>3 DEF DeliveryInv

\* A step that gives no connection anything: another event at hand is a
\* later one, and the socket is changed only between two events.
LEMMA QuietDelivery ==
    ASSUME LinkInv, DeliveryInv, UNCHANGED <<stream, start, pos, delivered>>, ev' \in Nat,
           ev < ev' \/ (ev' = ev /\ (Writing' => Writing /\ ConnectionSocket' = ConnectionSocket))
    PROVE  DeliveryInv'
<1>1. ApartInv' /\ ReceiverInv'
  BY DEF DeliveryInv, ApartInv, ReceiverInv, AtFrameEnd, Passed
<1>2. ASSUME NEW c \in Connections PROVE Recent(c)'
  <2> SUFFICES ASSUME NEW k \in 1..Len(stream[c])
               PROVE  /\ stream[c][k][1] <= ev'
                      /\ Writing' /\ stream[c][k][1] = ev' => c = ConnectionSocket'
    BY DEF Recent, Writing
  <2>1. stream[c][k][1] \in Nat /\ ev \in Nat
    <3>1. ev \in Nat
      BY Constants DEF LinkInv, SenderInv
    <3> QED
      BY <3>1, StreamTypes
  <2>2. stream[c][k][1] <= ev /\ (Writing /\ stream[c][k][1] = ev => c = ConnectionSocket)
    BY DEF DeliveryInv, BytesInv, Recent
  <2> QED
    BY <2>1, <2>2
<1>3. BytesInv'
  BY <1>2 DEF DeliveryInv, BytesInv, InRange, Rising
<1> QED
  BY <1>1, <1>3 DEF DeliveryInv

LEMMA SendDelivery ==
    ASSUME LinkInv, DeliveryInv, NEW n \in 1..TcpWind, Send(n) PROVE DeliveryInv'
<1> DEFINE c == ConnectionSocket
           s == stream[c]
           b == Bytes(ev, ecrit, n)
<1>0. BytesInv /\ ApartInv /\ ReceiverInv
  BY DEF DeliveryInv
<1>1. /\ c \in Connections /\ ev \in Events /\ ev \in Nat /\ ecrit \in Nat /\ n \in Nat \ {0}
      /\ mfmeventsize(ev) \in Nat /\ ecrit + n <= mfmeventsize(ev) /\ Writing
  <2>1. pc = "send" /\ n \in 1..(chunk - ecrit)
    BY Constants DEF Send
  <2>2. c # NoSocket /\ ev \in Events /\ ecrit \in Nat /\ chunk \in Nat /\ chunk <= mfmeventsize(ev)
    BY <2>1 DEF LinkInv, SenderInv
  <2>3. c \in Connections
    BY <2>2, SocketIsOne
  <2>4. mfmeventsize(ev) \in Nat
    BY <2>2, FrameSize
  <2> QED
    BY <2>1, <2>2, <2>3, <2>4, Constants DEF Writing
<1>2. UNCHANGED <<ev, ConnectionSocket, start, pos, delivered>>
  BY DEF Send, receiver
<1>3. CASE UNCHANGED stream
  BY <1>1, <1>2, <1>3, QuietDelivery
<1>4. CASE stream' = [stream EXCEPT ![c] = @ \o Bytes(ev, ecrit, n)]
  <2> DEFINE t == stream'[c]
  <2>1. t = s \o b /\ \A d \in Connections : d # c => stream'[d] = stream[d]
    BY <1>1, <1>4 DEF LinkInv, StreamInv
  <2>2. /\ s \in Seq(Events \X Nat) /\ Len(s) \in Nat /\ start[c] \in Nat /\ start[c] <= Len(s)
        /\ \A k \in 1..Len(s) : s[k][1] \in Nat /\ s[k][1] <= ev
    <3>1. start[c] \in Nat /\ start[c] <= pos[c]
      BY <1>0, <1>1 DEF ReceiverInv
    <3>2. /\ s \in Seq(Events \X Nat) /\ Len(s) \in Nat /\ pos[c] \in Nat /\ pos[c] <= Len(s)
          /\ \A k \in 1..Len(s) : s[k][1] \in Nat
      BY <1>1, StreamTypes DEF Bytestrings
    <3>3. \A k \in 1..Len(s) : s[k][1] <= ev
      BY <1>0, <1>1 DEF BytesInv, Recent
    <3> HIDE DEF s
    <3> QED
      BY <3>1, <3>2, <3>3
  <2>3. b \in Seq(Events \X Nat) /\ Len(b) = n /\ \A k \in 1..n : b[k] = <<ev, ecrit + k>>
    BY <1>1 DEF Bytes
  <2> HIDE DEF s, b, t
  <2>4. /\ Len(t) = Len(s) + n
        /\ \A k \in 1..(Len(s) + n) : t[k] = IF k <= Len(s) THEN s[k] ELSE b[k - Len(s)]
    BY <2>1, <2>2, <2>3, ConcatProperties
  <2>5. ASSUME NEW k \in 1..Len(t)
        PROVE  \/ k \in 1..Len(s) /\ t[k] = s[k]
               \/ k > Len(s) /\ t[k][1] = ev /\ t[k][2] \in 1..mfmeventsize(ev)
    <3>1. CASE k <= Len(s)
      BY <1>1, <2>2, <2>4, <3>1
    <3>2. CASE k > Len(s)
      <4>1. k - Len(s) \in 1..n /\ ~(k <= Len(s)) /\ k \in 1..(Len(s) + n)
        BY <1>1, <2>2, <2>4, <3>2
      <4>2. t[k] = <<ev, ecrit + (k - Len(s))>>
        BY <2>3, <2>4, <4>1
      <4>3. ecrit + (k - Len(s)) \in 1..mfmeventsize(ev)
        BY <1>1, <2>2, <4>1
      <4> QED
        BY <3>2, <4>2, <4>3
    <3> QED
      BY <2>2, <2>4, <3>1, <3>2
  <2>6. ASSUME NEW k \in 1..Len(t) PROVE t[k][1] <= ev
    <3>1. CASE k \in 1..Len(s) /\ t[k] = s[k]
      BY <2>2, <3>1
    <3>2. CASE t[k][1] = ev
      BY <1>1, <3>2
    <3> QED
      BY <2>5, <3>1, <3>2
  <2>7. InRange(t) /\ Rising(t)
    <3>1. InRange(s) /\ Rising(s)
      BY <1>0, <1>1 DEF BytesInv, s
    <3>2. InRange(t)
      BY <2>5, <3>1 DEF InRange
    <3>3. ASSUME NEW k \in 1..Len(t), NEW l \in 1..Len(t), k <= l PROVE t[k][1] <= t[l][1]
      <4>1. CASE l \in 1..Len(s) /\ t[l] = s[l]
        <5>1. k \in 1..Len(s) /\ t[k] = s[k]
          BY <2>2, <2>4, <2>5, <3>3, <4>1
        <5> QED
          BY <3>1, <3>3, <4>1, <5>1 DEF Rising
      <4>2. CASE t[l][1] = ev
        <5>1. t[k][1] <= ev
          BY <2>6
        <5> QED
          BY <4>2, <5>1
      <4> QED
        BY <2>5, <4>1, <4>2
    <3> QED
      BY <3>2, <3>3 DEF Rising
  <2>8. BytesInv'
    <3> SUFFICES ASSUME NEW d \in Connections
                 PROVE  InRange(stream'[d]) /\ Rising(stream'[d]) /\ Recent(d)'
      BY DEF BytesInv, InRange, Rising
    <3>1. CASE d = c
      BY <1>2, <2>6, <2>7, <3>1 DEF Recent, t
    <3>2. CASE d # c
      BY <1>0, <1>1, <1>2, <2>1, <3>2 DEF BytesInv, Recent
    <3> QED
      BY <3>1, <3>2
  \* Those of the event at hand are on this connection; the others were there.
  <2>9. ApartInv'
    <3>1. ASSUME NEW d \in Connections, d # c,
                 NEW k \in 1..Len(t), NEW l \in 1..Len(stream[d]), t[k][1] = stream[d][l][1]
          PROVE  FALSE
      <4>1. CASE k \in 1..Len(s) /\ t[k] = s[k]
        BY <1>0, <1>1, <3>1, <4>1 DEF ApartInv, s
      <4>2. CASE t[k][1] = ev
        BY <1>0, <1>1, <3>1, <4>2 DEF BytesInv, Recent
      <4> QED
        BY <2>5, <4>1, <4>2
    <3> SUFFICES ASSUME NEW d \in Connections, NEW f \in Connections,
                        NEW k \in 1..Len(stream'[d]), NEW l \in 1..Len(stream'[f]),
                        stream'[d][k][1] = stream'[f][l][1], d # f
                 PROVE  FALSE
      BY DEF ApartInv
    <3>2. CASE d = c
      <4>1. stream'[f] = stream[f] /\ stream'[d] = t /\ f # c
        BY <2>1, <3>2 DEF t
      <4> QED
        BY <3>1, <4>1
    <3>3. CASE f = c
      <4>1. stream'[d] = stream[d] /\ stream'[f] = t /\ d # c
        BY <2>1, <3>3 DEF t
      <4> QED
        BY <3>1, <4>1
    <3>4. CASE d # c /\ f # c
      <4>1. stream'[d] = stream[d] /\ stream'[f] = stream[f]
        BY <2>1, <3>4
      <4> QED
        BY <1>0, <4>1 DEF ApartInv
    <3> QED
      BY <3>2, <3>3, <3>4
  <2>10. ASSUME NEW d \in Connections, NEW j \in 1..start[d] PROVE stream'[d][j] = stream[d][j]
    <3>1. CASE d = c
      <4>1. j \in 1..(Len(s) + n) /\ j <= Len(s)
        BY <1>1, <2>2, <3>1
      <4> QED
        BY <2>4, <3>1, <4>1 DEF s, t
    <3>2. CASE d # c
      BY <2>1, <3>2
    <3> QED
      BY <3>1, <3>2
  <2>11. ASSUME NEW d \in Connections PROVE AtFrameEnd(d)'
    <3>1. start[d] \in Nat
      BY <1>0 DEF ReceiverInv
    <3>2. ASSUME start[d] > 0 PROVE stream'[d][start[d]] = stream[d][start[d]]
      <4>1. start[d] \in 1..start[d]
        BY <3>1, <3>2
      <4> QED
        BY <2>10, <4>1
    <3> QED
      BY <1>0, <1>2, <3>2 DEF AtFrameEnd, ReceiverInv
  <2>12. ASSUME NEW f, Passed(f) PROVE Passed(f)'
    BY <1>2, <2>10, <2>12 DEF Passed
  <2>13. ReceiverInv'
    <3>1. ASSUME NEW k \in 1..Len(delivered) PROVE Passed(delivered[k])'
      <4>1. PICK f : f = delivered[k]
        OBVIOUS
      <4>2. Passed(f)'
        BY <1>0, <2>12, <4>1 DEF ReceiverInv
      <4> QED
        BY <1>2, <4>1, <4>2 DEF Passed
    <3> QED
      BY <1>0, <1>2, <2>11, <3>1 DEF ReceiverInv, Passed
  <2> QED
    BY <2>8, <2>9, <2>13 DEF DeliveryInv
<1> QED
  BY <1>3, <1>4 DEF Send

\* The other steps of the transmitter and of the server.
LEMMA OtherDelivery ==
    ASSUME LinkInv, DeliveryInv,
           Publish \/ Recv \/ Select \/ WriteFails \/ Abort \/ Connect
             \/ Crash \/ Restart \/ Stall \/ Resume \/ UNCHANGED vars
    PROVE  DeliveryInv'
<1>0. ev \in Nat
  BY Constants DEF LinkInv, SenderInv
<1>1. CASE Publish \/ Crash \/ Restart \/ Stall \/ Resume \/ UNCHANGED vars
  <2>1. UNCHANGED <<stream, start, pos, delivered, ev, pc, ConnectionSocket>>
    BY <1>1 DEF Publish, Crash, Restart, Stall, Resume, vars, receiver
  <2> QED
    BY <1>0, <2>1, QuietDelivery DEF Writing
<1>2. CASE Recv
  <2>1. UNCHANGED <<stream, start, pos, delivered>> /\ ev' = queue[1] /\ queue # <<>>
    BY <1>2 DEF Recv, receiver, LinkInv, SenderInv
  <2>2. 1 \in 1..Len(queue) /\ \A k \in 1..Len(queue) : queue[k] \in Events /\ ev < queue[k]
    BY <2>1, EmptySeq DEF LinkInv, SenderInv
  <2>3. ev' \in Nat /\ ev < ev'
    BY <2>1, <2>2, Constants
  <2> QED
    BY <2>1, <2>3, QuietDelivery
<1>3. CASE Select \/ WriteFails \/ Abort
  <2>1. /\ UNCHANGED <<stream, start, pos, delivered, ev, ConnectionSocket>>
        /\ Writing
    BY <1>3 DEF Select, WriteFails, Abort, receiver, Writing
  <2> QED
    BY <1>0, <2>1, QuietDelivery
<1>4. CASE Connect
  <2>1. UNCHANGED <<stream, start, pos, delivered, ev>> /\ ~Writing'
    BY <1>4 DEF Connect, receiver, Goto, Writing
  <2> QED
    BY <1>0, <2>1, QuietDelivery
<1> QED
  BY <1>1, <1>2, <1>3, <1>4

LEMMA NextDelivery == FramesFit /\ LinkInv /\ DeliveryInv /\ [Next]_vars => DeliveryInv'
<1> SUFFICES ASSUME FramesFit, LinkInv, DeliveryInv, [Next]_vars PROVE DeliveryInv'
  OBVIOUS
<1>1. CASE \E n \in 1..TcpWind : Send(n)
  BY <1>1, SendDelivery
<1>2. CASE \E c \in Connections, n \in 1..TcpWind : Read(c, n)
  BY <1>2, ReadDelivery
<1>3. CASE Publish \/ Recv \/ Select \/ WriteFails \/ Abort \/ Connect
             \/ Crash \/ Restart \/ Stall \/ Resume \/ UNCHANGED vars
  BY <1>3, OtherDelivery
<1> QED
  BY <1>1, <1>2, <1>3 DEF Next, Transmitter

-----------------------------------------------------------------------------
(* The refinement.                                                         *)

\* Publish is Publish, a read that ends a frame is Deliver, and nothing else
\* changes what SpyLink sees.
LEMMA StepIsLinkStep ==
    FramesFit /\ LinkInv /\ DeliveryInv /\ [Next]_vars => [Link!Next]_<<published, delivered>>
<1> SUFFICES ASSUME FramesFit, LinkInv, DeliveryInv, [Next]_vars
             PROVE  Link!Next \/ UNCHANGED <<published, delivered>>
  OBVIOUS
<1>1. CASE Publish
  BY <1>1 DEF Publish, receiver, Link!Next, Link!Publish
<1>2. CASE \E c \in Connections, n \in 1..TcpWind : Read(c, n)
  <2>1. PICK c \in Connections, n \in 1..TcpWind : Read(c, n)
    BY <1>2
  <2>2. UNCHANGED published
    BY <2>1 DEF Read
  <2>3. CASE Delivers(c)
    <3> DEFINE e == FirstByte(c)[1]
    <3>1. \A k \in 1..Len(delivered) : delivered[k] # e
      BY <2>3, DeliversNew
    <3>2. DOMAIN delivered = 1..Len(delivered)
      BY DEF DeliveryInv, ReceiverInv
    <3>3. delivered' = Append(delivered, e) /\ e \in Events /\ start[c] < Len(stream[c])
      BY <2>3 DEF Delivers
    <3>4. e <= ev
      <4>1. start[c] + 1 \in 1..Len(stream[c])
        BY <3>3, StreamTypes DEF DeliveryInv, ReceiverInv
      <4> QED
        BY <4>1 DEF DeliveryInv, BytesInv, Recent, FirstByte
    <3>5. ev <= published /\ published \in Nat /\ ev \in Nat
      BY Constants DEF LinkInv, SenderInv
    <3> HIDE DEF e
    <3>6. e \in 1..published
      BY <3>3, <3>4, <3>5, Constants
    <3>7. Link!Deliver(e)
      BY <2>2, <3>1, <3>2, <3>3 DEF Link!Deliver
    <3> QED
      BY <3>6, <3>7 DEF Link!Next
  <2> QED
    BY <2>1, <2>2, <2>3, ReadDelivers DEF DeliveryInv
<1>3. CASE Transmitter \/ Crash \/ Restart \/ Stall \/ Resume \/ UNCHANGED vars
  BY <1>3 DEF Transmitter, Recv, Select, Send, WriteFails, Abort, Connect,
              Crash, Restart, Stall, Resume, vars, receiver
<1> QED
  BY <1>1, <1>2, <1>3 DEF Next

\* The path from the spy socket of FzWriter through TcpWrite(), reconnections
\* and TcpRead() implements SpyLink: an event that arrives was published, is
\* whole and arrives once, for all sizes of events, windows and buffers and
\* any number of crashes and stalls of the server.  It needs frames whose
\* length fits the field of the header (FramesFit).
THEOREM LinkKeepsItsPromise == ASSUME FramesFit PROVE Spec => Delivery
<1>1. Init => Link!Init
  BY DEF Init, Link!Init
<1>2. LinkInv /\ DeliveryInv /\ [Next]_vars => DeliveryInv'
  BY NextDelivery
<1>3. LinkInv /\ DeliveryInv /\ [Next]_vars => [Link!Next]_<<published, delivered>>
  BY StepIsLinkStep
<1> QED
  BY <1>1, <1>2, <1>3, InitDelivery, InvHolds, PTL DEF Spec, Delivery, Link!Spec
=============================================================================

------------------------------ MODULE FzReader ------------------------------
(***************************************************************************)
(* FzReader (src/src/reader/FzReader.cpp): UDP datagrams of the regional   *)
(* board are put together to raw events, which end at a REGID word, and    *)
(* forwarded to FzParser.  The datagrams come through the poll loop of     *)
(* src/src/utils/fossa.c, whose only connection here is a UDP socket.      *)
(*                                                                         *)
(* The board (external) sends a fixed sequence of words, cut into          *)
(* datagrams anywhere; a datagram is a header of two words, the sequence   *)
(* number, and data words.  The network may lose a datagram, and the       *)
(* socket buffer one that comes while the reader is not polling it.        *)
(***************************************************************************)
EXTENDS Integers, Sequences, SequencesExt

CONSTANTS
    Stream,          \* the words the board sends
    MaxDatagram,     \* bound: data words in a datagram
    WordMod,         \* one word of the sequence number: 2^16
    FirstSeq,        \* the sequence number the board is at
    PAD,             \* 0x8080, the empty word
    MAX_EVENT_SIZE,  \* the size at which a partial event is discarded
    SocketBuffer,    \* datagrams that the socket holds
    ReceiveBuffer,   \* NS_UDP_RECEIVE_BUFFER_SIZE, in words
    Lossy,           \* whether the network loses or damages datagrams
    MaxSwitches      \* bound: changes of the run control state

\* A 16 bit word: whether it matches REGHDR_FMT, and what it is.
Word == [reg : BOOLEAN, n : Nat]

\* The empty word, 0x8080, does not match 0xC800 under the mask 0xF800.
ASSUME ReaderAssumption ==
    /\ Stream \in Seq(Word)
    /\ \A i \in 1..Len(Stream) : Stream[i].reg => Stream[i].n # PAD
    /\ MaxDatagram \in Nat \ {0} /\ WordMod \in Nat \ {0} /\ FirstSeq \in Nat
    /\ PAD \in Nat /\ MAX_EVENT_SIZE \in Nat \ {0} /\ SocketBuffer \in Nat \ {0}
    /\ ReceiveBuffer \in Nat /\ ReceiveBuffer > 2
    /\ Lossy \in BOOLEAN /\ MaxSwitches \in Nat

VARIABLES
    sent,       \* words sent by the board
    seqno,      \* the sequence number of the next datagram
    socket,     \* the socket buffer: datagrams not read yet
    running,    \* rcstate == RUNNING
    chunk,      \* the raw event being put together
    out,        \* the raw events forwarded
    report,     \* the counters in_events, out_events, out_bytes
    switches,
    arrived,    \* history: the data words that recvfrom() returned
    discarded   \* history: whether a partial event was discarded

vars == <<sent, seqno, socket, running, chunk, out, report, switches, arrived, discarded>>

IsRegid(w) == w.reg

Init ==
    /\ sent = 0
    /\ seqno = FirstSeq
    /\ socket = <<>>
    /\ running = FALSE
    /\ chunk = <<>>
    /\ out = <<>>
    /\ report = [in_events |-> 0, out_events |-> 0, out_bytes |-> 0]
    /\ switches = 0
    /\ arrived = <<>>
    /\ discarded = FALSE

-----------------------------------------------------------------------------
(* The network.                                                            *)

\* The next n words in a datagram, which the socket keeps, or which is lost.
Transmit(n) ==
    LET datagram == [head |-> <<seqno \div WordMod, seqno % WordMod>>,
                     data |-> SubSeq(Stream, sent + 1, sent + n)]
    IN  /\ sent + n <= Len(Stream)
        /\ sent' = sent + n
        /\ seqno' = seqno + 1
        /\ \/ Len(socket) < SocketBuffer /\ socket' = Append(socket, datagram)
           \/ (Lossy \/ Len(socket) = SocketBuffer) /\ UNCHANGED socket
        /\ UNCHANGED <<running, chunk, out, report, switches, arrived, discarded>>

-----------------------------------------------------------------------------
(* The callback.                                                           *)

\* Mutant: one word too many is skipped where an empty word precedes data.
Payload_skips_two(d) ==
    IF d.data # <<>> /\ d.data[1].n = PAD THEN SubSeq(d.data, 3, Len(d.data)) ELSE d.data

\* The data words that are taken.  An empty word among the first three makes
\* the handler skip the third word, whichever of the three it was.
Payload(d) ==
    LET third == IF d.data = <<>> THEN <<>> ELSE <<d.data[1].n>>
    IN  IF PAD \in {d.head[1], d.head[2]} \cup ToSet(third) THEN Tail(d.data) ELSE d.data

\* Mutant: the REGID opens the next raw event.
TakeWord_regid_opens(acc, w) ==
    IF IsRegid(w) THEN [chunk |-> <<w>>, sends |-> Append(acc.sends, acc.chunk)]
    ELSE [acc EXCEPT !.chunk = Append(@, w)]

\* One word of the for loop: it joins the chunk; a REGID sends it off.
TakeWord(acc, w) ==
    IF IsRegid(w)
    THEN [chunk |-> <<>>, sends |-> Append(acc.sends, Append(acc.chunk, w))]
    ELSE [acc EXCEPT !.chunk = Append(@, w)]

\* The for loop over the words of a datagram.
TakeWords(acc, words) ==
    LET take[i \in 0..Len(words)] ==
            IF i = 0 THEN acc ELSE TakeWord(take[i - 1], words[i])
    IN  take[Len(words)]

\* Mutant: only above the limit.
TooLong_above(s) == Len(s) > MAX_EVENT_SIZE
\* A chunk that has grown too long is dropped.
TooLong(s) == Len(s) >= MAX_EVENT_SIZE

\* NS_RECV: the whole datagram, then the test of the size.
udp_handler(d) ==
    LET words == Payload(d)
        acc   == TakeWords([chunk |-> chunk, sends |-> <<>>], words)
        sends == acc.sends
    IN  /\ out' = out \o sends
        /\ chunk' = IF TooLong(acc.chunk) THEN <<>> ELSE acc.chunk
        /\ report' = [in_events  |-> report.in_events + Len(sends),
                      out_events |-> report.out_events + Len(sends),
                      out_bytes  |-> report.out_bytes + 2 * Len(FlattenSeq(sends))]
        /\ arrived' = arrived \o d.data
        /\ discarded' = (discarded \/ TooLong(acc.chunk))

-----------------------------------------------------------------------------
(* The poll loop of fossa.                                                 *)

\* recvfrom() cuts off what does not fit into the buffer.
recvfrom(d) == [d EXCEPT !.data =
                    SubSeq(@, 1, IF Len(@) > ReceiveBuffer - 2 THEN ReceiveBuffer - 2 ELSE Len(@))]

\* ns_call(): the handler of the connection; there is no protocol handler.
ns_call(d) == udp_handler(d)

\* One datagram.  With n <= 0, as for a datagram whose checksum is wrong, the
\* handler is not called.
ns_handle_udp(d) ==
    \/ Lossy /\ UNCHANGED <<chunk, out, report, arrived, discarded>>
    \/ ns_call(recvfrom(d))

\* select() finds the socket readable: one datagram is read, others stay.
Readable == socket # <<>>
ns_mgr_poll ==
    /\ Readable
    /\ ns_handle_udp(Head(socket))
    /\ socket' = Tail(socket)

\* process(): one call of ns_mgr_poll().
Poll ==
    /\ running
    /\ ns_mgr_poll
    /\ UNCHANGED <<sent, seqno, running, switches>>

\* Nothing to read within 5 ms, or not running: one second of sleep.
Wait ==
    /\ ~running \/ ~Readable
    /\ UNCHANGED vars

set_rcstate(s) ==
    /\ s # running
    /\ switches < MaxSwitches
    /\ switches' = switches + 1
    /\ running' = s
    /\ UNCHANGED <<sent, seqno, socket, chunk, out, report, arrived, discarded>>

Next ==
    \/ \E n \in 1..MaxDatagram : Transmit(n)
    \/ Poll
    \/ Wait
    \/ \E s \in BOOLEAN : set_rcstate(s)

Spec == Init /\ [][Next]_vars

-----------------------------------------------------------------------------
(* Properties.                                                             *)

\* Types; the partial event stays below the limit (FzReader.cpp 209).
TypeOK ==
    /\ sent \in 0..Len(Stream)
    /\ seqno \in Nat
    /\ Len(socket) <= SocketBuffer
    /\ running \in BOOLEAN
    /\ Len(chunk) < MAX_EVENT_SIZE
    /\ \A c \in DOMAIN report : report[c] \in Nat
    /\ discarded \in BOOLEAN

\* A sequence of words without the empty ones.
NoPad(s) ==
    LET kept[i \in 0..Len(s)] ==
            IF i = 0 THEN <<>>
            ELSE IF s[i].n = PAD THEN kept[i - 1] ELSE Append(kept[i - 1], s[i])
    IN  kept[Len(s)]

\* No sequence number so far has had the empty word as one of its words.
SeqnoFree == \A q \in FirstSeq..(seqno - 1) : PAD \notin {q \div WordMod, q % WordMod}

\* However the events are cut into datagrams, and whatever datagrams are
\* lost, no data word that recvfrom() returns is lost, doubled or moved: the
\* raw events in the order they were forwarded, with the chunk behind them,
\* are the words that arrived, empty words aside.
Reassembly ==
    ~discarded /\ SeqnoFree => NoPad(FlattenSeq(out) \o chunk) = NoPad(arrived)

\* The data words in the socket buffer.
InSocket == FlattenSeq([i \in DOMAIN socket |-> socket[i].data])
\* Nothing that was sent has been lost.
Lossless == sent = Len(arrived) + Len(InSocket)

\* Without loss every raw event is an event as the board sent it.
Whole(s) == \E i, j \in 1..Len(Stream) :
    /\ i <= j /\ IsRegid(Stream[j]) /\ (i = 1 \/ IsRegid(Stream[i - 1]))
    /\ \A k \in i..(j - 1) : ~IsRegid(Stream[k])
    /\ NoPad(SubSeq(Stream, i, j)) = NoPad(s)
WholeEvents ==
    Lossless /\ ~discarded /\ SeqnoFree => \A k \in DOMAIN out : Whole(out[k])
=============================================================================

# A TLA+ model of FzDAQ

FzDAQ is the acquisition system of the FAZIA detector array. Regional boards
send their data as UDP datagrams; on every machine one FzDAQ process puts the
datagrams together to raw events, analyses them with a state machine, and
stores them in run directories; one FzController commands all machines. This
directory holds TLA+ modules that model these programs, the TLC runs that
check them on small instances, and TLAPS proofs, for instances of any size, about
what the parser does with words of any kind, where data goes on disk, that no
event is lost between the threads, whether the nodes follow the controller, what
the clients of run control are told, what the web server is sent, and what
arrives at other acquisition systems.

Paths are relative to the repository, `src/src/...` being its `src/` directory.

## 1. The system

| Component | State | Operations | Talks to |
|---|---|---|---|
| FzReader (`reader/FzReader.cpp`) | the chunk, static over datagrams and stops; counters | UDP callback, `set_rcstate` | board (UDP), FzParser (0MQ PUSH, blocks when full) |
| FzParser (`parser/FzParser.cpp`) | an FzFSM that lives as long as the thread; counters | receive, analyse, forward | FzReader, FzWriter (0MQ) |
| FzFSM (`parser/FzFSM.cpp`) | state, word index, lengths, CRC registers, pointers into the event tree | 19 transitions, several with one body for each event format | - |
| FzWriter (`writer/FzWriter.cpp`) | run number, file stream, sizes of file and directory, store flag | `process`, `set_rcstate`, `set_store`, `setup_newdir`, `setup_newfile` | FzParser, disk |
| RCFSM (`rc/RCFSM.cpp`) | the run control state | `try_process`, `process` | - |
| FzDAQ-mt (`main/FzDAQ-mt.cpp`) | threads, pipes | command loop, shutdown | all threads of the node |
| FzNodeManager (`nodemanager/FzNodeManager.cpp`) | run control state, node report | `rc_process`, `rc_event_do`, `rc_state_do`, requests, reports | threads of the node, FzController |
| FzController run control (`controller/rcs.cpp`) | RCFSM | requests, broadcast, routing with timeout | nodes, clients |
| FzController collector (`controller/collector.cpp`, `map.cpp`) | map of reports, deque of ages | insert, clean | nodes, the run control and weblog threads (shared map) |
| FzController weblog (`controller/weblog.cpp`, `logger/FzHttpPost.cpp`) | iterator, copied report, the post being filled | two loops over the map, `NewLine`, `SendPost` | the shared map, a web server |
| FzController command line (`controller/cli.cpp`) | the command, the answer | commands, quit | run control (0MQ REQ, 3 s) |
| ECC plugin (`plugins/ganil-ecc`) | `eccState` | SOAP calls | run control (0.1 s) |
| EPICS plugin (`plugins/epics`) | `RC:transition` | process variables | run control (0.1 s) |
| fdt transmitter (`transmitter/`) | socket, bytes written of a frame | receive, `TcpWrite`, reconnect | FzWriter's spy socket, FDT server (TCP) |
| fossa (`utils/fossa.c`, UDP path) | socket, receive buffer | `ns_mgr_poll`, `ns_handle_udp`, `ns_call` | board, FzReader's callback |

What is hard in it:

* **threads without locks**: the control thread changes the state of the
  reader, the parsers and the writer one after the other while they work
  (`FzNodeManager.cpp` 546), and runs `setup_newdir()` and `setup_newfile()` on
  the writer's own stream (`FzWriter.cpp` 296); the controller walks the map
  without the mutex (`rcs.cpp` 213);
* **state that outlives its use**: the machine between two events, the chunk
  between two runs, events in the pipes between stop and start;
* **damaged input**: lost datagrams and altered words, in front of a state
  machine that keeps raw pointers into a tree it may free in mid event;
* **restarts**: the run number must be found again from the names on the disk;
  a node that comes back has another state than the controller believes;
* **messages and timeouts**: commands on separate connections overtake each
  other; a request that timed out is delivered later; a TCP connection is
  replaced in the middle of a frame (`Tcp.cpp` 218);
* **several masters**: the command line, ECC and EPICS command one state
  machine, each with its own idea of its state (`eccservice.py` 167), across
  restarts of the controller;
* **limits**: bounded pipes and blocking `send()`, lengths modulo 4096, sizes
  that wrap, sizes that are never initialised.

`PROJECT.json` lists these as hazards, each at its line.

Not modelled: FzLogger and FzConfig (input and output, no state of the
acquisition), the stand-alone utilities (they read a file or send one request),
`zmq.hpp` and the parts of fossa that nothing calls (TCP, HTTP, MQTT, DNS,
JSON). What 0MQ sockets do (bounded pipes, blocking, one connection per socket)
is modelled where the program relies on it. Of modelled components, read
requests, displays, statistics tables, performance counters, the mirror
variables and the single-node server of EPICS, the header words that carry the
CENTRUM time stamp, and the raw recording of FzReader are left out: they change
nothing a property is about. The profiles "compute" and "storage" of FzDAQ-mt,
which put the same threads on different machines, are left out too.

## 2. The modules

| Module | Models | Extends |
|---|---|---|
| `RCFSM` | the run control table and its two operations | |
| `FzFSM` | the machine as a record; each transition an operator from machine to machine | |
| `FzParser` | one parser thread: one step per word of `process()` | `FzFSM` |
| `FzEvents` | *reference*: events as the front-end sends them, their words and their tree; cut and altered events | `FzFSM` |
| `MCFzParser` | the inputs, and the properties that compare the tree with the event sent | `FzParser`, `FzEvents` |
| `FzReader`, `MCFzReader` | network, socket buffer, fossa's poll, UDP callback | |
| `FzWriter`, `MCFzWriter` | writer thread, control thread, disk, restarts | `RCFSM` |
| `FzNode` | the process as a whole: threads, pipes, run control, quit | `RCFSM` |
| `RunControl` | *abstract*: what run control over several machines promises | `RCFSM` |
| `FzController` | controller threads and the nodes' managers; implements `RunControl` | `RCFSM`, instance of `RunControl` |
| `FzMonitor` | the weblog thread on top of the controller's map | `FzController` |
| `RunControlClients` | command line, ECC and EPICS in front of one controller | `RCFSM` |
| `SpyLink` | *abstract*: what the way of an event to the FDT server promises | |
| `FdtTransmitter`, `MCFdtTransmitter` | spy queue, transmitter, TCP, server; implements `SpyLink` | instance of `SpyLink` |
| `FzParserProofs` | theorems about `FzFSM` and `FzParser` | `FzParser`, TLAPS |
| `FzReaderProofs` | theorems about `FzReader` | `FzReader`, TLAPS |
| `FzWriterProofs` | theorems about `FzWriter` | `FzWriter`, TLAPS |
| `FzNodeProofs` | theorems about `FzNode` | `FzNode`, TLAPS |
| `FzControllerProofs` | theorems about `FzController` | `FzController`, TLAPS |
| `FzMonitorProofs` | theorems about the weblog thread | `FzMonitor`, `FzControllerProofs` |
| `RunControlClientsProofs` | theorems about the clients | `RunControlClients`, TLAPS |
| `FdtTransmitterProofs` | theorems about the transmitter | `FdtTransmitter`, TLAPS |

**FzFSM and FzParser.** A word is a class (EC, TELID, DETID, DATA, ... as
`ttable` distinguishes them), a value and an identity. A CRC is the set of
identities folded in an odd number of times: XOR keeps exactly that apart, and
two different sets are two different checksums (a collision of real 8 bit
checksums is outside the model). Lengths are counted modulo `LengthMod`, 4096
in the code. Registers that no constructor sets start with any member of
`Garbage`. The tree is nested sequences; a pointer of the code is the last
element of its sequence, and `PointersLive` says that this element exists.
`FzEvents` states independently what an event is on the wire (`Encode`) and
which tree it stands for (`Tree`); the properties compare the two.

The event format, a setting of the machine, is chosen at the start. A `recv()` that
throws leaves `rc` as the call before set it (`RecvError`): if that call got a
message, the empty one of this call is analysed. The sample loops may read behind the
end of a raw event; what is there is some word (`Word`), and that such a read may end
the process is not modelled.

**FzReader.** The board sends one fixed word sequence, cut into datagrams at
any place. The network may lose a datagram; the socket loses what its buffer
does not hold, which is how data of a stopped run disappears. The callback is
one step; a word is a pair of "is a REGID" and a number, so that the sequence
number, whose two words the code inspects like data, is represented. The loop over
the words of a datagram is a recursive function (`TakeWords`). Between
socket and callback is fossa: one datagram a poll, cut off at the receive
buffer, and nothing for one that cannot be read.

**FzWriter.** `setup_newdir()` and `setup_newfile()` are split where the other
thread may come in: `mkdir`, `dirid++`, close, open, reset of the sizes. A
stream remembers whether it is open and whether it is good, as `fstream` does:
opening an open stream fails, and nothing clears the error but a successful
open. `mkdir`, `open` and `write` may fail when `Faults` says so. `Restart` ends
the process anywhere and runs the constructor on the disk it left. History
variables record which process wrote where.

**FzNode.** Events are numbers. Up to `Burst` of them end in one datagram: the UDP
callback hands each to `send()`, which may block, and goes on with the next without a
look at the state of the reader (`more`, `NextInDatagram`); only when the callback is
through does the thread come to the check of its state. Each thread is at the check of its state, in
`recv()`, or in `send()` with an event in its hands. `SetRcstate` hands the new
state to one thread; everything else may happen between two of them. Run control
is local (a command through RCFSM) or remote (any state, as it comes). `Quit`
is the shutdown of `main()`: close the manager, stop, then interrupt and join
reader, parsers and writer in that order. `boost::thread` interruption acts in
the loop, not in a blocked `send()`.

**FzController.** The collector inserts a report, then walks its deque by index,
one iteration a step, erasing stale nodes; the run control thread walks the map
at the same time. Of a report only the name of its node is kept, which is the key
of the map. `dangling` says that the element under the iterator of the broadcast was
erased; from then on its name may be that of any node or none, and `it++` may lead to
any element or the end, also when the node has an element again: undefined behaviour,
of which a crash of the controller is the behaviour that stops. Each of `it++`, `insert`
and `erase` is one step; a tree that is seen with half of its pointers changed is not
modelled. The answer to a client is sent when the broadcast has been handed to the
sockets, and the next request may come at once, as the two halves of the command line's
"start" do: any message on its way to a node may arrive next, because each has a socket
of its own. Nodes crash, with any of the messages for them, and restart. Time is the
age of a report in seconds, capped behind `EXPIRY`.

Four history variables: `race`, the states that were under way to a node when the last
one was sent to it, with that one; `heard`, the nodes to which the last broadcast was the
last thing sent; `cast`, the nodes that a broadcast has to reach and those that it has
pushed to; `late`. `RunControl` says what it all amounts to without messages and maps:
the controller goes on whatever is under way; a state that it has, or that one node is to
take, joins the race of a node, from which those that have arrived or are lost drop out;
a node takes a state of its race, or restarts in IDLE. Its `rc`, `state` and `race` are
those of the detailed module.

**FzMonitor.** One step is one iteration of a loop of the weblog thread, with
the row it posts. Its iterator behaves like the one of the run control thread
(`wdangling`, `Copied`, `Advance`).
A post is its rows, each with the array index it gets, and the number of pairs;
the limit at which `NewLine()` sends a post and begins another is that of
`FZHttpPost`. The second loop posts what `rep` holds, which it does not read
again.

**RunControlClients.** The controller is reduced to its state, to whether it has
nodes, and to the rule that every request gets an answer. Requests carry the
client and a number. A client waits for one answer; when it gives up, its next
request goes through another socket, and the old request stays in the set from
which the controller takes them in any order. The command line's "start" is two
requests. ECC changes its state first and does not look at the answer. `Quit`
ends the controller and starts a new one: requests that had reached it are gone,
those that clients still hold reach the new one. History variables record what
was carried out, and whether anything has come between ECC and the controller.

**FdtTransmitter and SpyLink.** A byte is the number of its event and its place
in the frame. `Select` and `Send` are the iterations of `TcpWrite()`; `Send`
places some bytes at a time, so a crash, a stall or the time limit can fall
between any two of them. The connection holds a bounded number of bytes. The
server reads with `TcpRead()`: a header, then as many bytes as it says. It
crashes with its connections, restarts, stops reading and resumes. The link
variables are mapped by name: `published` and `delivered` of `SpyLink` are those
of the detailed module; every other step is a stutter.

## 3. The runs

Passing runs, with deadlock checking unless it says otherwise below:

| Run | Instance | Shows |
|---|---|---|
| `parser_events` | both formats. Tag: any run of lost words and any altered word of two one-block events, two events of two blocks joined by a lost REGID, and six whole events (two hits, two cards, two blocks, trigger info, no hits), each followed by an event that is whole, truncated or altered. Basic: all combinations of five kinds of data in two telescopes, the ADC card, an empty block, and one event with words lost or one data word altered to zero | `RoundTrip`: a tag event that arrives whole is parsed into its tree and counted good, whatever the machine went through before. `StructureRoundTrip`: the same for the basic format, CRC flags aside. `DamageIsNoticed`: what is counted good although it is damaged consists of whole blocks that were sent. `GoodIsClean`: what is counted good has no block and no card that is flagged, whichever of its blocks, and whatever the machine went through before. `PointersLive`: no transition uses a freed object, or a submessage that was not allocated. `ForwardedAreCounted`: the counters of machine and thread agree. `Advances`: `process()`, which steps the word index back in its sample loops, comes nearer to its end with every iteration, except at the word that `SampleOfNone` names. |
| `writer_runs` | one process, a disk that works, local control; four events of two sizes, two runs, store on and off | `FreshDirectory`: `setup_newdir()` never gets an existing name. `Writable`: outside the setup functions the stream takes events, in the current directory. `StartIsFresh`: a run that stores begins in a directory without events. `FileBound`: files exceed their limit by two events at most, also with uninitialised sizes. `CountedIsStored`: the report is true. |
| `writer_restart` | three processes on one disk, failing `mkdir`, `open` and `write`, remote control, starts that overlap with the writer's work | `EpochsApart`: no directory ever holds events of two processes. |
| `reader_events` | three events in datagrams of up to four words, loss, a socket buffer of two datagrams, a receive buffer that cuts the longest, three switches of the state, a limit of four words, sequence numbers that come to the empty word behind five datagrams | `Reassembly`: what arrived is forwarded word by word, in order. `WholeEvents`: without loss, event by event. Both until a partial event is discarded or a sequence number has the empty word in it (`SeqnoFree`). |
| `node_runs` | one parser, pipes of one message, four events in datagrams of one or two, two commands, both control modes, quit at any time | `EventsConserved`: every event is at exactly one place. `LateBounded`: after its state has left RUNNING a parser or the writer takes at most one event, and the reader at most those of the one datagram whose callback it is in or waits for. `Flows`: while the acquisition runs, the reader does not stay blocked in `send()`. |
| `controller_sync` | two nodes, two requests that follow each other at once (any event, broadcast, or RUNNING for one node, with timeout), one crash or erased element under the iterator, reports that expire at once | `MapMatchesDeque`: map and deque name the same nodes, each once (iterators of one are used to erase from the other). `InSync`: a node to which nothing is on its way has the state that was sent to it last or one that was under way with it, and the controller's if the last broadcast was alone. `BroadcastReaches`: a broadcast pushes once to each node that stays in the map, though others come and go under the walk. `NodesFollow`: controller and nodes implement `RunControl`. |
| `monitor` | two nodes, one crash, one erased element under the iterator, limits at which one and two reader rows fit into a post | `OneRowEach`: unless the iterator was on an erased element, every reader that stays in the map has one row, none two. `PostsFit`: no post exceeds the limit or uses an index twice. `GoneNodesLeave`: a node that is gone for good leaves the map, although `map_clean()` skips the element behind an erased one. |
| `transmitter` | events of odd and even size, one unparsable, frames longer than the window and the window longer than the socket buffer, a spy queue of two, three crashes or stalls, FD_SET(-1) fatal or not | `WholeFrames`: each connection carries whole frames of later and later events, only its last may be cut. `Delivery`: the transmitter implements `SpyLink`; an event that arrives was published, is whole, and arrives once. `Drains`: a server that is down, crashes or pauses for a time does not hold up the transmitter for good (one that pauses for good does, see Fairness). |
| `clients` | two requests of the command line, five of ECC, one of EPICS, two late answers or restarts of the controller | `OkIsDone`: what is reported as carried out was carried out, both halves of a start included. `EccInStep`: ECC is in step with the controller until something comes between them (an answer not waited for, a request refused or lost, a change by another client, a restart that forgets the state), and again after a reset that gets through. |

`transmitter` and `clients` are run without deadlock checking: the published
events, or the requests, are used up and everything may come to rest.

Runs in which TLC finds what a line of the repository says violated:

| Run | Statement | What happens |
|---|---|---|
| `node_mixed` | `FzWriter.cpp` 302 "at every start a new run must be allocated" | Stop does not empty the pipes; events of the old run are written into the directory of the new one. |
| `node_quit` | `FzDAQ-mt.cpp` 406 "quit from FzDAQ" | The reader is joined while it is blocked in `send()` to parsers that have been stopped: the program does not end. |
| `controller_late` | `rcs.cpp` 158 "destination hostname not available" | The request answered with this error is delivered and executed afterwards. |

### Bounds

Two events in a row are enough for the parser because the machine's memory of
an event is overwritten or reset at the next EC; the second event meets every
leftover of the first. `LengthMod` is 32: the larger blocks of both formats wrap, and no block of
the tag format has one of the two lengths that the code gets wrong (`LengthsFit`), so
every whole event is compared, and two events whose blocks are joined can be counted
good.
The writer needs two starts and enough events to rotate a file twice and the
directory once: the sizes 1 and 2, and the limits 1 and 5, make both happen in
every order; in the restart run every event rotates and `Garbage` is above the
limits, so that the setup steps of both threads meet. Three processes let a
directory of the first survive a second one that may have failed to make its
own. One message in a pipe makes every `send()` a candidate to block. With one
parser events keep their order; more parsers behave like each other, and
`LateBound` holds for any number of them. `Burst` 2 lets the state change in the
middle of a datagram. Two nodes are the fewest for which
`map_clean()` skips one and for which a broadcast has an element before and
behind the erased one; `EXPIRY` 0 makes reports expire between any two steps. Two
requests are the fewest that overtake each other, a "start" of the command line among
them. `MaxFaults` counts crashes and the erased elements that a broadcast meets,
`MaxStrays` those that a round of the weblog thread meets: one leads the iterator to
every element or the end already.
`Tick` caps the age behind `EXPIRY`, which the code cannot tell apart.
For the transmitter, the window of 4, the buffer of 3 and frames of 4 to 6 bytes
let a frame take two windows and a window two rounds of the buffer; three
faults are a stall and a crash on top of another crash. A client needs two
requests for one to overtake the other, and ECC five to be described, prepared,
configured, started and stopped.

### Fairness

* `FzNode`: weak fairness of every thread's local steps and of the control
  thread (the operating system schedules threads); strong fairness of receiving
  and of sending into a given pipe, since a thread that polls with a timeout
  comes back to `recv()` for ever, and 0MQ queues fairly over its pipes. Commands
  and quit have no fairness. Nothing is assumed of the board.
* `FzController`: weak fairness of the collector thread and of time, strong
  fairness of taking a given node's report (the PULL socket queues fairly),
  weak fairness of the reports of a node that is up. Crashes, restarts and
  requests have none. `FzMonitor` adds nothing to it: the weblog thread may sleep
  for ever.
* `FdtTransmitter`: weak fairness of the transmitter's loop and of the server's
  reading, and of `Resume`: `send()` blocks without a time limit while the server
  keeps the connection and does not read, and nothing in the transmitter ends
  that. A server that is down need not come back.

## 4. The proofs

All theorems hold for every value of the constants that the assumptions of the
modules allow: any words in any order, any number of events, runs, processes,
parsers, nodes, requests and faults, any capacity of pipes and buffers, any sizes.
What the modules assume of their constants:

* `FzParser`: a REGID is only the last word of a raw event, because `FzReader`
  ends an event at the first one it meets. Nothing else is assumed of the words.
* `FzReader`: the board sends words, and the empty word is not a REGID (0x8080 does
  not match 0xC800 under the mask 0xF800). Nothing is assumed of their order, of the
  datagrams or of the first sequence number.
* `FzWriter`: events have sizes, and the limit of a file with the largest event
  is below the modulus of the counters (the limit is a product of 32 bit numbers,
  the counter has 64 bits).
* `FzController`: fewer nodes than the 8 bit index of `map_clean()` counts.
* `FzMonitor`: the limit of a post is 11 pairs or more, so that the header and one
  row fit in; `FZHttpPost` sends a row that does not fit all the same.
* `FdtTransmitter`: the header has an even length and every buffer holds something.

| Theorem | Statement | Under |
|---|---|---|
| `ParserTypes` | `Spec => []TypeOK` of `FzParser` | - |
| `NoDanglingPointer` | `Spec => []PointersLive` | - |
| `CountedAreForwarded` | `Spec => []ForwardedAreCounted` | - |
| `GoodEventsAreClean` | `Spec => []GoodIsClean` | - |
| `ProcessAdvances` | `Spec => Advances` | - |
| `TypeCorrect` | `Spec => []TypeOK` of `FzReader` | - |
| `ReassemblyCorrect` | `Spec => []Reassembly` | - |
| `WholeEventsCorrect` | `Spec => []WholeEvents` | - |
| `TypeCorrect` | `Spec => []TypeOK` of `FzWriter` | - |
| `ProcessesApart` | `Spec => []EpochsApart` | the tag has no digits |
| `NamesAreFresh` | `Spec => []FreshDirectory` | the tag has no digits, starts do not overlap |
| `StreamIsWritable` | `Spec => []Writable` | no faults, no overlap |
| `ReportIsTrue` | `Spec => []CountedIsStored` | no faults, no overlap |
| `RunsStartFresh` | `Spec => StartIsFresh` | the tag has no digits, no faults, no overlap, local run control |
| `FilesAreBounded` | `Spec => []FileBound` | no faults, no overlap |
| `NodeTypes` | `Spec => []TypeOK` of `FzNode` | - |
| `LateBound` | `Spec => []LateBounded` | - |
| `NothingIsLost` | `Spec => []EventsConserved` | - |
| `ControllerTypes` | `Spec => []TypeOK` of `FzController` | - |
| `MapAndDequeAgree` | `Spec => []MapMatchesDeque` | - |
| `NodesSettle` | `Spec => []InSync` | - |
| `EveryTargetIsTold` | `Spec => []BroadcastReaches` | - |
| `NodesFollowController` | `Spec => NodesFollow`, which is `RC!Spec` | - |
| `EveryPostFits` | `MonitorSpec => []PostsFit` | - |
| `EveryReaderOnce` | `MonitorSpec => []OneRowEach` | - |
| `ClientTypes` | `Spec => []TypeOK` of `RunControlClients` | - |
| `ReportedIsDone` | `Spec => []OkIsDone` | - |
| `EccFollows` | `Spec => []EccInStep` | - |
| `TransmitterTypes` | `Spec => []TypeOK` of `FdtTransmitter` | - |
| `FramesAreWhole` | `Spec => []WholeFrames` | - |
| `LinkKeepsItsPromise` | `Spec => Delivery`, which is `Link!Spec` | the length of every frame fits its field (`FramesFit`) |

The conditions in the last column are those that the code does not ensure by itself;
section 5 says what happens without them. `FramesFit` holds for every event that
fits the transmitter's buffer of 4 MB.

*NoDanglingPointer, ParserTypes.* A pointer is the last element of a list, so
`PointersLive` is about which lists are empty. `Live` strengthens it to what the
transitions need: besides the lists, the members of the objects at their ends, and
for the tag format, in S5, the submessage that the tag at hand announced. There is
one lemma for each transition: from a live machine in the state where `ttable`
admits it, and whatever the word, to a live machine (`LeadsTo`); `Matrix` is the
table read row by row. The lengths stay natural although the sample loops
decrement them, because each transition has counted its own word before.

*CountedAreForwarded.* `VerdictOk`: once `trans18` has run, the words are used up,
because a REGID is the last one; so an event is counted once, and what `process()`
returns and the emptiness that it left in the machine are those of this count.

*GoodEventsAreClean.* `GoodIsClean` speaks of the end of an event; `CleanInv` says what
holds before. `Marks` is the tree reduced to the flags of blocks and cards. `Within`:
the transitions inside a card leave the marks alone and forget no error. `Sound`: while
no error is remembered, all blocks but the last and all cards of it but the one at hand
are clean; between two cards all cards are, between two blocks all blocks. So `trans16`,
which drops the fake block, leaves clean blocks, and `trans18` reads the verdict off.
In S0 the tree has no blocks, so `trans02`, which clears the flag, forgets nothing of it.

*ProcessAdvances.* `Stays`: no transition but `trans08` touches the word index.
For `trans08` the index behind the samples is computed: a type with an energy has
at least the word it entered with (`RunOfDataPositive`), the ADC card has read six
words before, and in the tag format only a waveform without samples steps back, and
then ends its tag.

*Induction in FzReaderProofs.* The callback is a recursive function over the words of
a datagram, and `NoPad` and `FlattenSeq` are recursive functions in the properties.
The library's induction rule takes an operator, which the provers cannot instantiate;
but induction over a set needs none. `UpTo` says that a set of indices that has 0, and
with an index below n the next one, has all up to n; it follows from the
well-foundedness of the natural numbers (`WFMin`), stated for sets. `IterationExists`
gives, in the same way, the recursive function of a given step as a set of pairs. The
lemmas on the operators (`NoPadConcat`, `FlattenConcat`, `TakeWordsKeeps`,
`AlignedWords`) each prove one formula about all indices of one sequence with `UpTo`.

*TypeCorrect, ReassemblyCorrect, WholeEventsCorrect of FzReader.* `TypeInv` adds to the
types that every sequence consists of words, which the lemmas on sequences need.
`HeadInv`: the datagrams in the socket carry sequence numbers already used, so that
`SeqnoFree` speaks of them. `CopyInv` is `Reassembly`; it is inductive given these,
because the callback appends the words it takes to what is behind `out` and `chunk`
(`TakeWordsKeeps`), and what it skips is an empty word. For `WholeEvents` one must know
where in the stream the reader is. `LossInv`: what arrived and what is in the socket
never exceed what was sent, so once something is lost it stays lost, and without loss
they are a prefix of the stream. `EventInv`: the chunk holds the words
behind the last REGID that arrived, and each raw event those between two of them;
it is this, not `WholeEvents`, that a datagram in mid event preserves.

*ProcessesApart.* `EpochsApart` is not inductive: it does not say that the next
process stays clear of what is there. `EpochInv` adds that every directory
an event went to exists, that the open file and all names of this process are at
or above the first name of this process, and that everything written earlier is
below it. The constructor establishes this because `get_max_runid()` is above
every number it reads, which is every run number when the tag has none of its
own. No condition on faults or overlap is needed: a failed `mkdir` leaves a
number unused or a stream closed, never a smaller number.

*NamesAreFresh.* `Excl` says that the control thread is in the setup functions
only while the writer thread sleeps; it is inductive because `set_rcstate()`
assigns the state last. Under it `DiridInv` holds: every directory is below
`dirid`, but for the one between `mkdir` and `dirid++`.

*StreamIsWritable.* `StreamInv` follows the stream through the setup labels: it
is closed exactly at "open", and its directory is the one named last unless a
thread is between naming and opening.

*ReportIsTrue.* `CountInv` relates the events on disk to the counter and the
position of the writer thread; it needs `StreamInv`, because an event handed to
a stream that is not good is counted all the same.

*RunsStartFresh.* `FreshInv`: as long as `start_newdir` is set nothing was written
to the directory of the constructor, and while `set_rcstate()` is between `mkdir`
and the new file nothing is in the directory it has named. The last needs
`DiridInv` (the name is new) and `EpochInv` (events are only in directories that
exist). `LocalStart` says that RCFSM leads to RUNNING only from the states for which
`set_rcstate()` allocates a run.

*FilesAreBounded.* `Tracks`: `esize` misses at most one event of the file, and is
above the limit only as garbage, with the file empty. An event that makes the
garbage wrap is the one it misses; the rotation sets both to zero.

*NodeTypes, LateBound.* That a stopped thread takes few events more is not
inductive: it must not wait for another. `LateInv` adds that a thread that is in
`recv()`, or that is RUNNING, has taken none since it left RUNNING; so it must
pass the check of its state, where it stays, before it could take more. For the
reader the check is behind the callback: what it has taken since and what is left
of its datagram do not exceed a datagram.
`ThreadType` and `PipeType` say that a thread has an event in its hands exactly
while it sends, and that pipes hold events, within their capacity; `DatagramType`
that between two datagrams nothing is left.

*NothingIsLost.* `EventsConserved` counts places, which is not a form to reason
in. `PlaceInv` says the same as a partition: threads' hands, the two kinds of pipes,
dropped and stored are disjoint and make up all events, and no event is twice in
hands or pipes. Every step moves one event from a part to another (`Moved`), or
adds the next one.

*MapAndDequeAgree.* `MapInv`: every node in the map has exactly one entry in the
deque, and no other node has one. `DequeSize` turns it into the equality of sizes.

*NodesSettle.* `InSync` speaks of nodes to which nothing is on its way. `RaceInv` says
what holds before: every message on its way to a node carries a state of the node's
race, so the state it takes from the last of them is one, whatever the order and
whatever a crash has taken away; and the controller's state is in the race of every
node that has heard the last broadcast, because a command that changes it forgets
who has heard. Nothing is assumed of the clients.

*EveryTargetIsTold.* `WalkInv`: the nodes that a broadcast has pushed to are before the
iterator, each once, and every target before it is among them. `After` passes no
element, so a step of the walk keeps it; an insertion does not add to the targets,
and an erasure takes away the target, so that targets stay in the map.

*NodesFollowController.* Every step has its counterpart in `RunControl`: the write of an
event is `Command`, a push and a request to one node are `Send`, a node that takes a
message `Take`, a restart `Restart`, all else a stutter. `RaceInv` is what is needed:
what is under way is a part of the race, so a message can be taken, and a `Send` only
drops from the race what has arrived or is lost.

*EveryPostFits, EveryReaderOnce.* `PostInv`: a post that was begun has room for one
more row and the header. `LoopInv`: as long as the iterator was on no erased element the
rows sent and begun so far are, each once, of nodes before the iterator, and all readers
before it that are in the map since the start have theirs. The map may grow and shrink
meanwhile: an element that comes is not among those at the start, and one that goes is
not among them any more.

*ReportedIsDone.* `Unique`: no two requests have the same client and number.
`AnswerInv`: an answer is that of the request waited for, which the controller
has taken, and "OK" means that it was carried out. A request that was given up
can then not be mistaken for a later one, because the number waited for is always
the last. `CliInv` carries the configure of a "start" to its second half.

*EccFollows.* `EccInv` names, for the request that ECC waits for, the SOAP call
that sent it: ECC is already where the call leads, and the controller, if nothing
came between, still where the call began. Every call's command leads the
controller from behind the one state to behind the other; that is a finite table.

*TransmitterTypes, FramesAreWhole.* `SenderInv`: events in the queue are later
than the one at hand, and connections are counted by events, so that there is
always another one. `StreamInv`: no connection holds more than its buffer.
`TailInv`, the strengthening that matters: the open connection ends behind
`ecrit` bytes of the frame at hand, or behind a whole frame of an earlier event.
It is re-established by `Connect`, because a new connection is empty, and needs
nothing of a connection that is broken.

*LinkKeepsItsPromise.* The variables of `SpyLink` are mapped by name, so it remains
that every step is one of its steps or a stutter. Only `Publish` and the end of a
frame at the receiver are not stutters. For the latter `DeliveryInv` must exclude
that an event arrives twice or in part: the bytes of a connection rise
through the frames, no event has bytes on two connections, and the receiver of each
connection stands at the end of a frame, with what it has delivered behind it. That
the header announces the true length is where `FramesFit` is used.

Only model-checked:

* liveness (`Flows`, `GoneNodesLeave`, `Drains`, and the violated `QuitEnds`), which
  is out of the prover's reach;
* `RoundTrip`, `StructureRoundTrip` and `DamageIsNoticed`: they compare the tree with
  one that `FzEvents` builds by folds over the blocks, cards, telescopes and fields of
  the event. A proof is an induction nested over these four levels, each with the
  transitions of the machine at that level; it has not been attempted. What
  `GoodEventsAreClean` proves is the half of `DamageIsNoticed` that lies in the machine:
  an error that a trailer found is not lost on the way to the verdict.

## 5. Disagreements

Besides the three runs above, the following came up while modelling. Each can be
reproduced by changing the constant or the formula named here.

* **FzFSM, basic format, CRC** (`FzFSM.cpp` 666): at the first sample the CRC
  registers are overwritten with saved ones that an earlier waveform, or nothing,
  has set. A whole event with a waveform is counted bad: `RoundTrip` with
  `FMT_BASIC` in the place of `FMT_TAG`.
* **FzFSM, basic format, length zero** (`FzFSM.cpp` 823): a waveform length that
  is altered to zero in front of samples makes `process()` return to the same
  word for ever: `Advances` without `~SampleOfNone`.
* **FzFSM, tag format, length zero** (`FzFSM.cpp` 959): a waveform of length zero
  in front of another data word makes the machine read that word again, and leaves in
  the CRC registers what an earlier waveform has saved; the event is counted bad.
  `Advances` without its second disjunct shows the step back.
* **FzFSM, lengths** (`FzFSM.cpp` 1749): the two trailer words are added after
  the reduction to 12 bit, so a block of 4096k or 4096k+1 words is counted bad:
  `RoundTrip` without `LengthsFit`.
* **FzFSM, several blocks** (`FzFSM.cpp` 137): an altered word makes the machine
  drop a block and start over at the EC of the next one, with the error flag
  cleared; the rest is counted good: `DamageIsNoticed` for two blocks.
* **FzReader, sequence number** (`FzReader.cpp` 156): a sequence number with a
  word 0x8080 costs the datagram its first data word: `Reassembly` without
  `SeqnoFree`.
* **FzReader, limit** (`FzReader.cpp` 209): the limit, "10 megabyte" in
  `FzTypedef.h` 6, counts 16 bit words.
* **FzWriter, tag with digits** (`FzWriter.cpp` 203): the first number of a
  directory name is taken for the run number: `EpochsApart` with
  `TagNumber = 3`.
* **FzWriter, remote start** (`FzWriter.cpp` 298): IDLE to RUNNING, which remote
  mode accepts, allocates no directory: `StartIsFresh` with `Remote = TRUE`.
* **FzWriter, nostore** (`FzWriter.cpp` 306): a run started with nostore
  allocates no directory; events stored after a later `store` go to the one of
  the run before.
* **FzWriter, overlap** (`FzWriter.cpp` 149): a start that meets a rotation of
  the writer thread names a directory twice and may leave a stream that takes no
  event any more: `FreshDirectory` and `Writable`
  with `Overlap = TRUE`.
* **FzWriter, failed write** (`FzWriter.cpp` 149): `setup_newfile()` does not
  close a stream that is not good, and opening an open one fails, at every later
  start: `Writable` with `Faults = {"write"}`.
* **FzController, overtaking** (`rcs.cpp` 198): two broadcasts in quick
  succession, such as the configure and the start of one "start" of the command line
  (`cli.cpp` 93), may arrive in the other order, a reset too; the node is then left in
  the state of the earlier one: `InSync` with `n \in heard => state[n] = rc` in the place
  of its second conjunct.
* **FzController, nodes that join** (`rcs.cpp` 206): a node that starts, or starts again,
  behind a broadcast is in IDLE until the next one, and the controller does not tell it:
  `InSync` with `n \in map /\ pc = "recv" => state[n] = rc` as its second conjunct and
  `Routes = {}`.
* **FzController, erased element** (`rcs.cpp` 222): a broadcast whose current
  element the collector erases is undefined behaviour and may miss nodes or reach one
  twice; `BroadcastReaches` says nothing of it.
* **FzController, 256 nodes** (`map.cpp` 33): the 8 bit index of `map_clean()`
  wraps, and the loop goes round with the mutex locked until entries expire.
* **FzController, store** (`cli.cpp` 259): the answer to "store" and "nostore" is
  not looked at, success is printed in any case: `OkIsDone` without
  `line \in RCcommand`.
* **FzController, weblog** (`weblog.cpp` 122): the second loop does not read the
  report of its element; it posts the last node's writer once for every element.
* **fdt transmitter** (`Tcp.cpp` 212, `main.cpp` 109): the event at hand when a
  connection is lost is not sent again; without a connection `FD_SET` gets -1; an
  event is copied into a buffer of 4 MB without a test of its size.
* **status** (`cli.cpp` 215): "Run Control sync problem !!! reset FzDAQ !!!" is
  printed for a node whose report is older than the last command, or when the
  status of the controller could not be read. Found by reading; displays are not
  modelled.
* **read-fazia-pb, publish-fazia-pb** (`read-fazia-pb.cpp` 86): the loop compares
  `parse_delimited()`, which returns the state of the stream, with the state of
  the stream; the cut event at the end of a file is shown or published like a
  whole one, and a file that cannot be opened is read for ever. Found by reading.
* **ECC, EPICS**: a request that was given up after 0.1 s is still carried out,
  perhaps behind later ones, and ECC does not notice: `EccInStep` without
  `inStep`.

## 6. The plan

The modules and runs above were built in the order writer, parser, reader, node,
controller, clients, monitor, transmitter, and proved in the order writer, node,
clients, transmitter, controller, monitor, parser, reader.

Next, in this order:

1. `RoundTrip` for events of any shape, by the induction of `FzReaderProofs` over
   blocks, cards, telescopes and fields.
2. `FzNode` with the profiles "compute" and "storage".

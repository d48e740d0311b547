----------------------------- MODULE MCFzParser -----------------------------
(***************************************************************************)
(* FzParser over the events of FzEvents: the properties of the analysis    *)
(* and the small sets of raw events that TLC runs it on.                   *)
(***************************************************************************)
EXTENDS FzParser, FzEvents

-----------------------------------------------------------------------------
(* Events.                                                                 *)

Telescope(f, t, trigpat, items) ==
    [fee |-> f, tel |-> t, gttag |-> 11, dettag |-> 12, trigpat |-> trigpat, items |-> items]
Block(id, fees) == [ec |-> 5, blkid |-> id, fees |-> fees]
Event(blocks)   == [blocks |-> blocks, regid |-> 9]

\* A current signal: pretrigger and n samples.
Current(n) == [det |-> 0, dtype |-> 1,
               fields |-> <<<<"PRETRIGGER", <<6>>>>, <<"WAVEFORM", [k \in 1..n |-> k]>>>>]
\* A charge signal with both energies, a baseline and a void tag.
Charge == [det |-> 2, dtype |-> 0,
           fields |-> <<<<"SLOW", <<2, 7, 8>>>>, <<"VOID", <<>>>>, <<"FAST", <<3, 9, 4>>>>,
                        <<"BASELINE", <<1, 2>>>>>>]
\* The trigger info of the regional board.
Trigger == [det |-> 0, dtype |-> 1,
            fields |-> <<<<"COUNTERS", <<1, 2>>>>, <<"TIME", <<3, 4>>>>, <<"GTTAG", <<5, 6>>>>,
                         <<"EC", <<7, 8>>>>, <<"TRIGPAT", <<9>>>>, <<"TEMP", <<10>>>>,
                         <<"CENTRUM", <<1, 2, 3, 4, 5, 6, 7>>>>>>]

OneHit    == Event(<<Block(1, <<<<Telescope(0, 0, 0, <<Current(2)>>)>>>>)>>)
TwoHits   == Event(<<Block(1, <<<<Telescope(0, 0, 7, <<Current(1), Charge>>)>>>>)>>)
TwoCards  == Event(<<Block(1, <<<<Telescope(0, 0, 0, <<Charge>>), Telescope(0, 1, 7, <<Current(2)>>)>>,
                               <<Telescope(2, 1, 0, <<Current(3)>>)>>>>)>>)
TwoBlocks == Event(<<Block(1, <<<<Telescope(0, 0, 0, <<Current(1)>>)>>>>),
                     Block(2, <<<<Telescope(1, 1, 0, <<Current(2)>>)>>>>)>>)
WithInfo  == Event(<<Block(1, <<<<Telescope(0, 0, 0, <<Current(1)>>)>>>>),
                     Block(FAKE_BLOCK, <<<<Telescope(0, 0, 0, <<Trigger>>)>>>>)>>)
NoHits    == Event(<<Block(1, <<>>), Block(2, <<>>)>>)

Base == 100

TagEvents(base, events) == Intact(FMT_TAG, base, events)

\* The same event with another event counter.
Later(e) == [e EXCEPT !.blocks = [k \in DOMAIN @ |-> [@[k] EXCEPT !.ec = 6]]]

\* Damaged events of one block, two events of two blocks joined, and the
\* whole events.
AnyEvent ==
    UNION {Cut(x) \cup Corrupt(x) \cup Zeroed(x) : x \in TagEvents(Base, {OneHit, TwoHits})}
      \cup UNION {Joined(x, y) : x \in TagEvents(Base, {TwoBlocks}),
                                 y \in TagEvents(2 * Base, {Later(TwoBlocks)})}
      \cup TagEvents(Base, {OneHit, TwoHits, TwoCards, TwoBlocks, WithInfo, NoHits})

\* Behind any of them a whole event, or one that is truncated, or has a header
\* or a trailer word where none belongs.
NextEvent == UNION {{x} \cup Truncate(x) \cup CorruptAs({"EC", "DETID"}, x) :
                        x \in TagEvents(Base, {OneHit})}

\* Basic format: every kind of data; the ADC card; two telescopes; samples or none.
BasicCurrent(n) == [Current(n) EXCEPT !.dtype = 2]
BasicCharge(n)  == [det |-> 0, dtype |-> 0,
                    fields |-> <<<<"SLOW", <<7, 8>>>>, <<"PRETRIGGER", <<6>>>>,
                                 <<"WAVEFORM", [k \in 1..n |-> k]>>>>]
BasicCharge2(n) == [det |-> 2, dtype |-> 0,
                    fields |-> <<<<"SLOW", <<7, 8>>>>, <<"FAST", <<9, 4>>>>,
                                 <<"PRETRIGGER", <<6>>>>, <<"WAVEFORM", [k \in 1..n |-> k]>>>>]
BasicAdc(n)     == [Current(n) EXCEPT !.fields =
                        Append(@, <<"SINCOS", <<1, 2, 3, 4, 5, 6>>>>)]

BasicItems == {BasicCurrent(0), BasicCurrent(2), BasicCharge(0), BasicCharge(3), BasicCharge2(1)}
BasicEvents ==
    {Event(<<Block(1, <<<<Telescope(0, 0, 0, <<x, y>>), Telescope(0, 1, 0, <<z>>)>>>>)>>) :
        x \in BasicItems, y \in BasicItems, z \in BasicItems}
    \cup {Event(<<Block(1, <<<<Telescope(ADCF, 0, 0, <<BasicAdc(n)>>)>>,
                             <<Telescope(1, 0, 0, <<x>>)>>>>), Block(2, <<>>)>>) :
            n \in 0..2, x \in BasicItems}

\* The whole events, and one from which words are lost or in which one is
\* zero; behind any of them a whole event or one that is truncated.
BasicOneHit == Event(<<Block(1, <<<<Telescope(0, 0, 0, <<BasicCurrent(2)>>)>>>>)>>)
AnyBasicEvent ==
    Intact(FMT_BASIC, Base, BasicEvents)
      \cup UNION {Cut(x) \cup Zeroed(x) : x \in Intact(FMT_BASIC, Base, {BasicOneHit})}
NextBasicEvent == UNION {{x} \cup Truncate(x) : x \in Intact(FMT_BASIC, Base, {BasicOneHit})}

RawEvents(f, k) ==
    CASE f = FMT_TAG /\ k = 1   -> AnyEvent
      [] f = FMT_TAG /\ k = 2   -> NextEvent
      [] f = FMT_BASIC /\ k = 1 -> AnyBasicEvent
      [] f = FMT_BASIC /\ k = 2 -> NextBasicEvent

-----------------------------------------------------------------------------
(* Properties.                                                             *)

\* Lengths whose block trailer can be represented: FzFSM.cpp 1749 adds the
\* two trailer words after the reduction to 12 bit.
BlockLength(b) == Len(BlockWords(m.evformat, 0, b))
LengthsFit(e) == \A k \in DOMAIN e.blocks : BlockLength(e.blocks[k]) % LengthMod \notin {0, 1}

Accepted(e) ==
    /\ retval = PARSE_OK
    /\ m.ev = Tree(FMT_TAG, e)
    /\ verdict = IF EventIsEmpty(m.ev) THEN "empty" ELSE "good"

\* Tag format: an event that arrives as it was sent is parsed into its tree,
\* without an error flag, and counted good - whatever the machine parsed
\* before it.
RoundTrip ==
    Parsed /\ m.evformat = FMT_TAG /\ raw.intact /\ LengthsFit(raw.sent) => Accepted(raw.sent)

\* "able to analyze and validate each acquired event": what is counted good
\* although words were lost or altered has lost whole blocks only, so an event
\* of one block is never good.  Each of its blocks is one that was sent, never
\* the head of one with the tail of another, be it of the event before: the
\* CRC sees to that, not the event counters, which trans13 stores and does
\* not compare.
DamageIsNoticed ==
    Parsed /\ verdict = "good" /\ ~raw.intact =>
      /\ Len(raw.sent.blocks) > 1
      /\ \A k \in DOMAIN m.ev.block :
           \E j \in DOMAIN raw.sent.blocks : m.ev.block[k] = BlockOf(m.evformat, raw.sent.blocks[j])

\* Basic format: the tree of an intact event, its length checks included, is
\* the one sent; the CRC flags are left out of the comparison.
NoCrc(e) == [e EXCEPT !.block = [b \in DOMAIN @ |->
                [@[b] EXCEPT !.crc_error = FALSE,
                             !.fee = [f \in DOMAIN @ |-> [@[f] EXCEPT !.crc_error = FALSE]]]]]
StructureRoundTrip ==
    Parsed /\ m.evformat = FMT_BASIC /\ raw.intact /\ LengthsFit(raw.sent) =>
      retval = PARSE_OK /\ NoCrc(m.ev) = Tree(FMT_BASIC, raw.sent)
=============================================================================

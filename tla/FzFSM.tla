------------------------------- MODULE FzFSM -------------------------------
(***************************************************************************)
(* The finite state machine of src/src/parser/FzFSM.{h,cpp}, which turns   *)
(* the 16 bit words of one acquired event into the tree of blocks,         *)
(* front-end cards (fee), hits and data that FzParser forwards.            *)
(*                                                                         *)
(* The machine is a record m of the class members; every transNN of the    *)
(* source is an operator from the machine and the event c (a sequence of   *)
(* words) to the machine, so a whole loop iteration of process() is one    *)
(* step.  A word is [id, cls, v, crc]: its class (the switch of            *)
(* getword_id), its payload, the CRC it carries and the identity that      *)
(* stands for its bits in a CRC.  A CRC, the XOR of the words it covers    *)
(* folded to 8 bits, is the set of the identities that occur in it an odd  *)
(* number of times: a CRC check then succeeds when the same words were     *)
(* folded; accidental collisions of the 8 bit code are abstracted away.    *)
(*                                                                         *)
(* The pointers blk, fee, hit, d (and en, wf inside d) always designate    *)
(* the object added last, so they are "the last of" the enclosing list.    *)
(***************************************************************************)
EXTENDS Integers, Sequences, FiniteSets, SequencesExt, FiniteSetsExt

CONSTANT
    LengthMod   \* 2^w for the w bit LENGTH words; 0xFFF + 1 in the code

FMT_BASIC == 0
FMT_TAG   == 1

ASSUME LengthAssumption == LengthMod \in Nat /\ LengthMod > 2

PARSE_OK   == 1
PARSE_FAIL == 0

TAG_VOID        == 12336    \* 0x3030
TAG_SLOW        == 28673    \* 0x7001
TAG_FAST        == 28674    \* 0x7002
TAG_BASELINE    == 28675    \* 0x7003
TAG_PRETRIGGER  == 28676    \* 0x7004
TAG_WAVEFORM    == 28677    \* 0x7005
TAG_RB_COUNTERS == 28928    \* 0x7100
TAG_RB_TIME     == 28929    \* 0x7101
TAG_RB_GTTAG    == 28944    \* 0x7110
TAG_RB_EC       == 28945    \* 0x7111
TAG_RB_TRIGPAT  == 28946    \* 0x7112
TAG_RB_TEMP     == 28947    \* 0x7113
TAG_RB_CENTRUM  == 29184    \* 0x7200

ADCF      == 15             \* the feeid of the ADC card
FAKE_BLOCK == 2047          \* 0x7FF, the block that carries trigger info

-----------------------------------------------------------------------------
(* Word classes and the transition matrix.                                 *)

\* EMPTY words are skipped by process() before the matrix is consulted.
WordClass == {"DATA", "EMPTY", "TELID", "LENGTH", "CRCFE", "REGID", "CRCBL",
              "EC", "EOE", "DETID", "BLKID"}

\* ttable[class][state_id + 1] is a transition: 0 is "not valid", 1 is the
\* idle loop, the others are numbered as the transNN functions.
ttable ==
  [ DATA   |-> <<1,  0, 4, 5, 7,  8,  0,  0,  0,  0,  0>>,
    TELID  |-> <<1,  3, 0, 0, 0, 10,  0,  0,  0,  0,  0>>,
    LENGTH |-> <<1,  0, 0, 0, 0, 11,  0,  0, 15,  0,  0>>,
    CRCFE  |-> <<1,  0, 0, 0, 0,  0, 12,  0,  0,  0,  0>>,
    REGID  |-> <<1,  0, 0, 0, 0,  0,  0,  0,  0,  0, 18>>,
    CRCBL  |-> <<1,  0, 0, 0, 0,  0,  0,  0,  0, 16,  0>>,
    EC     |-> <<2,  0, 0, 0, 0,  0,  0, 13,  0,  0, 17>>,
    EOE    |-> <<1,  0, 0, 0, 0,  0,  0,  0,  0,  0,  0>>,
    DETID  |-> <<1,  0, 0, 6, 0,  9,  0,  0,  0,  0,  0>>,
    BLKID  |-> <<1, 14, 0, 0, 0,  0,  0,  0,  0,  0,  0>> ]

\* The bit fields of a telescope or detector header.
TelId(v) == v % 2
FeeId(v) == (v \div 2) % 16
DetId(v) == (v \div 32) % 8
DType(v) == (v \div 256) % 8

-----------------------------------------------------------------------------
(* The event tree (FzEventSet.proto) and its last element at each level.   *)

NoEvent   == [ec |-> 0, regid |-> 0, block |-> <<>>, trinfo |-> <<>>]
NewBlock  == [blkid |-> 0, len_error |-> TRUE, crc_error |-> TRUE, fee |-> <<>>]
NewFee(f) == [feeid |-> f, len_error |-> TRUE, crc_error |-> TRUE, hit |-> <<>>]
NewHit(ec, f, t) == [ec |-> ec, feeid |-> f, telid |-> t, detid |-> 0,
                     gttag |-> 0, dettag |-> 0, trigpat |-> 0, data |-> <<>>]
NewWf     == [pretrig |-> 0, sample |-> <<>>, len_error |-> TRUE]
NewEn(e)  == [value |-> <<>>, len_error |-> e]
NewData(type) == [type |-> type, energy |-> <<>>, waveform |-> <<>>,
                  baseline |-> <<>>, sincos |-> <<>>]

OnLast(s, Op(_)) == [s EXCEPT ![Len(s)] = Op(@)]
OnBlk(m, Op(_))  == [m EXCEPT !.ev.block = OnLast(@, Op)]
OnFee(m, Op(_))  == OnBlk(m, LAMBDA b : [b EXCEPT !.fee = OnLast(@, Op)])
OnHit(m, Op(_))  == OnFee(m, LAMBDA f : [f EXCEPT !.hit = OnLast(@, Op)])
OnData(m, Op(_)) == OnHit(m, LAMBDA h : [h EXCEPT !.data = OnLast(@, Op)])
\* An optional submessage is a sequence of at most one element.
OnWf(m, Op(_))   == OnData(m, LAMBDA d : [d EXCEPT !.waveform = OnLast(@, Op)])
OnEn(m, Op(_))   == OnData(m, LAMBDA d : [d EXCEPT !.energy = OnLast(@, Op)])

blk(m) == Last(m.ev.block)
fee(m) == Last(blk(m).fee)
hit(m) == Last(fee(m).hit)
d(m)   == Last(hit(m).data)
wf(m)  == Last(d(m).waveform)
en(m)  == Last(d(m).energy)

-----------------------------------------------------------------------------
(* Lengths and CRCs.                                                       *)

\* The word at event_index k.  The words behind the event are whatever the
\* message buffer is followed by; a machine that reads them has run over the
\* REGID that ends the event, returns PARSE_FAIL and its tree is cleared.
Word(c, k) == IF k \in DOMAIN c THEN c[k] ELSE [id |-> -2, cls |-> "DATA", v |-> 0, crc |-> {}]

\* crc XORed with the words lo..hi of the event.
Xor(crc, c, lo, hi) ==
    LET ids == {Word(c, k).id : k \in lo..hi}
    IN  SymDiff(crc, {x \in ids : Cardinality({k \in lo..hi : Word(c, k).id = x}) % 2 = 1})

\* update_blk() and update_fee() on the words lo..hi.
update_blk(m, c, lo, hi) ==
    [m EXCEPT !.blklen = @ + (hi - lo + 1), !.blkcrc = Xor(@, c, lo, hi)]
update_fee(m, c, lo, hi) ==
    [m EXCEPT !.feelen = @ + (hi - lo + 1), !.feecrc = Xor(@, c, lo, hi)]
\* Both, on the current word (the first two calls of most transitions).
update(m, c) == update_fee(update_blk(m, c, m.i, m.i), c, m.i, m.i)
\* next_event_word(), n times.
next_event_word(m, c, n) ==
    LET lo == m.i + 1
        hi == m.i + n
    IN  [update_fee(update_blk(m, c, lo, hi), c, lo, hi) EXCEPT !.i = hi]

\* The members that an object of the class starts with: the event format of
\* the configuration is given to the constructor, which initialises none of
\* the CRC registers: garbage is their content.
Machine(format, garbage) ==
    [ evformat |-> format, st |-> 0, i |-> 1, ev |-> NoEvent, tmp_ec |-> 0, tmp_rawec |-> 0,
      tag |-> 0, tag_done |-> FALSE, dettag_done |-> FALSE,
      energy1_done |-> FALSE, energy2_done |-> FALSE, pretrig_done |-> FALSE,
      wflen_done |-> FALSE, rd_wflen |-> 0,
      blklen |-> 0, rd_blklen |-> 0, feelen |-> 0, rd_feelen |-> 0,
      blkcrc |-> {}, feecrc |-> {}, save_blkcrc |-> garbage, save_feecrc |-> garbage,
      err_in_event |-> FALSE, event_is_empty |-> TRUE ]

\* init() and import(): a new event for the machine; the other members keep
\* what the previous event left in them.
import(m) == [m EXCEPT !.st = 0, !.i = 1, !.ev = NoEvent]

-----------------------------------------------------------------------------
(* The transitions up to the detector header.                              *)

\* Mutant: the tree is cleared, the state is not.
trans00_keeps_state(m) == [m EXCEPT !.ev = NoEvent]
\* A transition that the matrix does not allow drops the partial event.
trans00(m) == [m EXCEPT !.st = 0, !.ev = NoEvent]

\* EC starts a block: idle -> S1 (trans02) and S10 -> S1 (trans17).
StartBlock(m, c) ==
    LET w == c[m.i]
    IN  [m EXCEPT !.ev.block = Append(@, NewBlock), !.ev.ec = w.v,
                  !.blklen = 1, !.blkcrc = {w.id}, !.tmp_rawec = w.id, !.tmp_ec = w.v]

\* Mutant: the error flag of an abandoned event stays.
trans02_keeps_error(m, c) == [StartBlock(m, c) EXCEPT !.st = 1]
trans02(m, c) == [StartBlock(m, c) EXCEPT !.err_in_event = FALSE, !.st = 1]

\* TELID opens a fee and its first hit; the EC before it counts for the fee.
trans03(m, c) ==
    LET w  == c[m.i]
        m1 == [update_blk(m, c, m.i, m.i) EXCEPT
                 !.feelen = 2, !.feecrc = SymDiff({m.tmp_rawec}, {w.id}), !.st = 2]
    IN  OnBlk(m1, LAMBDA b : [b EXCEPT !.fee =
            Append(@, [NewFee(FeeId(w.v)) EXCEPT !.hit = <<NewHit(m.tmp_ec, FeeId(w.v), TelId(w.v))>>])])

trans04(m, c) ==
    [OnHit(update(m, c), LAMBDA h : [h EXCEPT !.gttag = c[m.i].v])
        EXCEPT !.dettag_done = FALSE, !.st = 3]

trans05(m, c) ==
    [OnHit(update(m, c), LAMBDA h : IF m.dettag_done THEN [h EXCEPT !.trigpat = c[m.i].v]
                                    ELSE [h EXCEPT !.dettag = c[m.i].v])
        EXCEPT !.dettag_done = TRUE, !.st = 3]

\* The data type announced by a detector header.
DataType(v) ==
    LET x == <<DetId(v), DType(v)>>
    IN  CASE FeeId(v) = ADCF -> "ADC"
          [] FeeId(v) # ADCF /\ x = <<0, 0>> -> "QH1"
          [] FeeId(v) # ADCF /\ x = <<0, 1>> -> "I1"
          [] FeeId(v) # ADCF /\ x = <<0, 2>> -> "QL1"
          [] FeeId(v) # ADCF /\ x = <<1, 0>> -> "Q2"
          [] FeeId(v) # ADCF /\ x = <<1, 1>> -> "I2"
          [] FeeId(v) # ADCF /\ x = <<2, 0>> -> "Q3"
          [] OTHER -> "UNKDT"

WithEnergy(type) == type \in {"QH1", "Q2", "Q3"}

\* The data of the basic format with the submessages of its type.  A new
\* energy is marked wrong (enerr) by trans09_basic only.
BasicData(t, enerr) ==
    [NewData(t) EXCEPT !.energy   = IF WithEnergy(t) THEN <<NewEn(enerr)>> ELSE <<>>,
                       !.waveform = <<NewWf>>]

\* add_data(): the basic format allocates the submessages with the header,
\* the tag format with their tags.  An unknown type is an error of the event.
AddData(m, v, enerr) ==
    LET t  == DataType(v)
        nd == IF m.evformat = FMT_TAG THEN NewData(t) ELSE BasicData(t, enerr)
    IN  [OnHit(m, LAMBDA h : [h EXCEPT !.detid = DetId(v), !.data = Append(@, nd)])
            EXCEPT !.err_in_event = @ \/ t = "UNKDT", !.st = 4]

trans06(m, c) == AddData(update(m, c), c[m.i].v, FALSE)

-----------------------------------------------------------------------------
(* Data words, basic format.  Energies keep the words they are made of.    *)

trans07_basic(m, c) ==
    LET m1 == [update(m, c) EXCEPT !.energy1_done = FALSE, !.energy2_done = FALSE,
                 !.wflen_done = FALSE, !.rd_wflen = 0, !.st = 5,
                 !.pretrig_done = ~WithEnergy(d(m).type)]
    IN  IF WithEnergy(d(m).type)
        THEN OnEn(m1, LAMBDA e : [e EXCEPT !.value = Append(@, <<c[m.i].v>>)])
        ELSE OnWf(m1, LAMBDA f : [f EXCEPT !.pretrig = c[m.i].v])

\* Mutant: the last sample stays behind.
GatherSamples_short(m, c, lo, n) ==
    LET hi == lo + n - 1
    IN  OnWf([update_fee(update_blk(m, c, lo, hi), c, lo, hi) EXCEPT
                !.i = hi, !.blklen = @ - 1, !.feelen = @ - 1],
             LAMBDA f : [f EXCEPT !.sample = @ \o [k \in 1..(n - 1) |-> Word(c, lo + k - 1).v]])

\* Mutant: the word index is stepped back behind the last sample but one.
GatherSamples_back(m, c, lo, n) ==
    LET hi == lo + n - 1
    IN  OnWf([update_fee(update_blk(m, c, lo, hi), c, lo, hi) EXCEPT
                !.i = IF hi > lo THEN hi - 2 ELSE hi, !.blklen = @ - 1, !.feelen = @ - 1],
             LAMBDA f : [f EXCEPT !.sample = @ \o [k \in 1..n |-> Word(c, lo + k - 1).v]])

\* The n samples from word lo on, folded one by one; save_*crc keep the CRCs
\* before the last of them.  The word that entered the transition is counted
\* twice, hence the decrements at the end of the code.
GatherSamples(m, c, lo, n) ==
    LET hi == lo + n - 1
        m1 == update_fee(update_blk(m, c, lo, hi), c, lo, hi)
        m2 == [m1 EXCEPT !.i = hi, !.blklen = @ - 1, !.feelen = @ - 1,
                 !.save_blkcrc = IF n = 0 THEN @ ELSE Xor(m.blkcrc, c, lo, hi - 1),
                 !.save_feecrc = IF n = 0 THEN @ ELSE Xor(m.feecrc, c, lo, hi - 1)]
    IN  OnWf(m2, LAMBDA f : [f EXCEPT !.sample = @ \o [k \in 1..n |-> Word(c, lo + k - 1).v]])

\* The CRCs go back to the saved ones before the samples are folded.
RestoreCrc(m) == [m EXCEPT !.blkcrc = m.save_blkcrc, !.feecrc = m.save_feecrc]

\* Types with an energy take every DATA word up to the next header.
RunOfData(c, lo) ==
    Cardinality({k \in lo..Len(c) : \A j \in lo..k : c[j].cls = "DATA"})

\* The ADC card sends sine and cosine, three words each, before its samples.
SineCosine(m, c) ==
    LET lo == m.i
        m1 == update_fee(update_blk(m, c, lo, lo + 5), c, lo, lo + 5)
        m2 == [m1 EXCEPT !.i = lo + 6, !.save_blkcrc = m1.blkcrc, !.save_feecrc = m1.feecrc]
    IN  OnData(m2, LAMBDA x : [x EXCEPT !.sincos = [k \in 1..6 |-> Word(c, lo + k - 1).v]])

trans08_basic(m, c) ==
    LET w    == c[m.i]
        type == d(m).type
        m1   == [update(m, c) EXCEPT !.st = 5]
        m2   == RestoreCrc(m1)
        m3   == IF type = "ADC" THEN SineCosine(m2, c) ELSE m2
    IN  CASE WithEnergy(type) /\ ~m.energy1_done ->
               [OnEn(m1, LAMBDA e : [e EXCEPT !.value[1] = Append(@, w.v)])
                   EXCEPT !.energy1_done = TRUE]
          [] type = "Q3" /\ m.energy1_done /\ ~m.energy2_done ->
               IF Len(en(m).value) = 1
               THEN OnEn(m1, LAMBDA e : [e EXCEPT !.value = Append(@, <<w.v>>)])
               ELSE [OnEn(m1, LAMBDA e : [e EXCEPT !.value[2] = Append(@, w.v)])
                        EXCEPT !.energy2_done = TRUE]
          [] /\ WithEnergy(type) /\ m.energy1_done /\ (type = "Q3" => m.energy2_done)
             /\ ~m.pretrig_done ->
               [OnWf(m1, LAMBDA f : [f EXCEPT !.pretrig = w.v]) EXCEPT !.pretrig_done = TRUE]
          [] OTHER ->
               IF ~m.wflen_done THEN [m1 EXCEPT !.rd_wflen = w.v, !.wflen_done = TRUE]
               ELSE GatherSamples(m3, c, m3.i,
                        IF WithEnergy(type) THEN RunOfData(c, m.i) ELSE m.rd_wflen)

-----------------------------------------------------------------------------
(* Data words, tag format: a tag, its length, its values.                  *)

\* A tag allocates the submessage it fills; the void tag is skipped.
StoreTag(m, v) ==
    LET m1 == [m EXCEPT !.tag = v, !.tag_done = (v # TAG_VOID)]
    IN  CASE v \in {TAG_PRETRIGGER, TAG_WAVEFORM} ->
               OnData(m1, LAMBDA x : IF x.waveform = <<>> THEN [x EXCEPT !.waveform = <<NewWf>>]
                                     ELSE x)
          [] v \in {TAG_SLOW, TAG_FAST} ->
               OnData(m1, LAMBDA x : IF x.energy = <<>> THEN [x EXCEPT !.energy = <<NewEn(FALSE)>>]
                                     ELSE [x EXCEPT !.energy[1].len_error = FALSE])
          [] OTHER -> m1

trans07_tag(m, c) ==
    LET m1 == [update(m, c) EXCEPT !.tag_done = FALSE, !.wflen_done = FALSE, !.rd_wflen = 0,
                                   !.st = 5]
    IN  StoreTag(m1, c[m.i].v)

\* add_value() of the high word, then value(k) completed by the low word and
\* divided by the rise time.  A FAST tag without a SLOW one sets a second
\* value of an energy that has one: the write is lost.
Energy(m, c, k) ==
    LET low == <<Word(c, m.i + 2).v, c[m.i].v>>
        Set(vs) == IF k \in DOMAIN vs THEN [vs EXCEPT ![k] = @ \o low] ELSE vs
    IN  OnEn(next_event_word(m, c, 2),
             LAMBDA e : [e EXCEPT !.value = Set(Append(@, <<Word(c, m.i + 1).v>>))])

\* n samples; the word behind them is folded and taken back: its count is
\* decremented, the CRCs return to the ones saved before it.
Waveform(m, c) ==
    LET n  == m.rd_wflen
        m1 == next_event_word(m, c, n)
        m2 == IF n = 0 THEN m1 ELSE
              [m1 EXCEPT !.save_blkcrc = Xor(m.blkcrc, c, m.i + 1, m.i + n - 1),
                         !.save_feecrc = Xor(m.feecrc, c, m.i + 1, m.i + n - 1)]
        m3 == RestoreCrc([m2 EXCEPT !.i = @ - 1, !.blklen = @ - 1, !.feelen = @ - 1])
    IN  OnWf(m3, LAMBDA f : [f EXCEPT !.sample = @ \o [k \in 1..n |-> Word(c, m.i + k - 1).v]])

\* Behind the values: the length of a waveform is verified, the next word is
\* a tag.
EndTag(m) ==
    LET ok == m.tag = TAG_WAVEFORM => m.rd_wflen = Len(wf(m).sample)
        m1 == IF m.tag # TAG_WAVEFORM THEN m
              ELSE OnWf(m, LAMBDA f : [f EXCEPT !.len_error = ~ok])
    IN  [m1 EXCEPT !.err_in_event = @ \/ ~ok, !.tag_done = FALSE, !.wflen_done = FALSE,
                   !.rd_wflen = 0]

\* Trigger info of the regional board: entries of an attribute and the words
\* its value is made of; n is the number of words it reads.
TrigInfo(m, c, entries, n) ==
    [next_event_word(m, c, n - 1) EXCEPT !.ev.trinfo = @ \o entries]

TagValues(m, c) ==
    LET w(k) == Word(c, m.i + k).v
    IN  CASE m.tag = TAG_PRETRIGGER -> OnWf(m, LAMBDA f : [f EXCEPT !.pretrig = w(0)])
          [] m.tag = TAG_WAVEFORM   -> Waveform(m, c)
          [] m.tag = TAG_SLOW       -> Energy(m, c, 1)
          [] m.tag = TAG_FAST       -> Energy(m, c, 2)
          [] m.tag = TAG_BASELINE   -> OnData(next_event_word(m, c, 1),
                                         LAMBDA x : [x EXCEPT !.baseline = <<w(0), w(1)>>])
          [] m.tag = TAG_RB_COUNTERS ->
               IF m.rd_wflen = 0 THEN m
               ELSE TrigInfo(m, c, [k \in 1..m.rd_wflen |-> <<256 + k - 1, w(k - 1)>>], m.rd_wflen)
          [] m.tag = TAG_RB_TIME    -> TrigInfo(m, c, <<<<268, w(0), w(1)>>>>, 2)
          [] m.tag = TAG_RB_GTTAG   -> TrigInfo(m, c, <<<<269, w(0), w(1), hit(m).gttag>>>>, 2)
          [] m.tag = TAG_RB_EC      -> TrigInfo(m, c, <<<<270, w(0), w(1), hit(m).ec>>>>, 2)
          [] m.tag = TAG_RB_TRIGPAT -> TrigInfo(m, c, <<<<271, w(0)>>>>, 1)
          [] m.tag = TAG_RB_TEMP    -> TrigInfo(m, c, <<<<272, w(0)>>>>, 1)
          [] m.tag = TAG_RB_CENTRUM -> TrigInfo(m, c, <<<<512, w(0)>>, <<513, w(1), w(2)>>,
                                                   <<514, w(3), w(4)>>, <<515, w(5), w(6)>>>>, 7)
          [] OTHER -> m

trans08_tag(m, c) ==
    LET w  == c[m.i]
        m1 == [update(m, c) EXCEPT !.st = 5]
    IN  CASE ~m.tag_done                  -> StoreTag(m1, w.v)
          [] m.tag_done /\ ~m.wflen_done  -> [m1 EXCEPT !.rd_wflen = w.v, !.wflen_done = TRUE]
          [] m.tag_done /\ m.wflen_done   -> EndTag(TagValues(m1, c))

-----------------------------------------------------------------------------
(* The end of a data item: detector header, telescope header, fee length.  *)

\* Basic format: the waveform and energy lengths of the data just acquired.
CheckData(m) ==
    LET wfok == m.rd_wflen = Len(wf(m).sample)
        want == IF d(m).type = "Q3" THEN 2 ELSE 1
        enok == WithEnergy(d(m).type) => Len(en(m).value) = want
        m1   == OnWf(m, LAMBDA f : [f EXCEPT !.len_error = ~wfok])
        m2   == IF WithEnergy(d(m).type) THEN OnEn(m1, LAMBDA e : [e EXCEPT !.len_error = ~enok])
                ELSE m1
    IN  [m2 EXCEPT !.err_in_event = @ \/ ~wfok \/ ~enok]

AddHit(m, h) == OnFee(m, LAMBDA f : [f EXCEPT !.hit = Append(@, h)])

\* DETID: one more hit of the same telescope, with the tags of the previous one.
trans09_basic(m, c) ==
    LET v  == c[m.i].v
        m1 == CheckData(update(m, c))
        h  == [NewHit(m.ev.ec, FeeId(v), TelId(v)) EXCEPT
                 !.gttag = hit(m).gttag, !.dettag = hit(m).dettag]
    IN  AddData(AddHit(m1, h), v, TRUE)

trans09_tag(m, c) ==
    LET v == c[m.i].v
        h == [NewHit(m.ev.ec, FeeId(v), TelId(v)) EXCEPT
                !.gttag = hit(m).gttag, !.dettag = hit(m).dettag, !.trigpat = hit(m).trigpat]
    IN  AddData(AddHit(update(m, c), h), v, TRUE)

\* TELID: a hit of the other telescope of the card.
trans10_tag(m, c) ==
    [AddHit(update(m, c), NewHit(m.ev.ec, FeeId(c[m.i].v), TelId(c[m.i].v))) EXCEPT !.st = 2]

trans10_basic(m, c) ==
    [AddHit(CheckData(update(m, c)), NewHit(m.ev.ec, FeeId(c[m.i].v), TelId(c[m.i].v))) EXCEPT !.st = 2]

trans11_tag(m, c) ==
    [update_blk(m, c, m.i, m.i) EXCEPT !.rd_feelen = c[m.i].v, !.st = 6]

trans11_basic(m, c) == CheckData(trans11_tag(m, c))

-----------------------------------------------------------------------------
(* Trailers: fee CRC, block identifier, block length and CRC, REGID.       *)

trans12(m, c) ==
    LET lenok == m.feelen % LengthMod = m.rd_feelen
        crcok == m.feecrc = c[m.i].crc
    IN  [OnFee(update_blk(m, c, m.i, m.i),
               LAMBDA f : [f EXCEPT !.len_error = ~lenok, !.crc_error = ~crcok])
            EXCEPT !.err_in_event = @ \/ ~lenok \/ ~crcok, !.st = 7]

trans13(m, c) ==
    [update_blk(m, c, m.i, m.i) EXCEPT !.tmp_ec = c[m.i].v, !.tmp_rawec = c[m.i].id, !.st = 1]

trans14(m, c) ==
    [OnBlk(update_blk(m, c, m.i, m.i), LAMBDA b : [b EXCEPT !.blkid = c[m.i].v]) EXCEPT !.st = 8]

trans15(m, c) ==
    [m EXCEPT !.rd_blklen = c[m.i].v, !.blkcrc = Xor(@, c, m.i, m.i), !.st = 9]

\* Basic format: the samples of the fake block are triples of an attribute
\* and the two words of its value.
read_triggerinfo(b) ==
    LET h    == b.fee[1].hit[1]
        s    == h.data[1].waveform[1].sample
        extra(id) == IF id = 269 THEN <<h.gttag>> ELSE IF id = 270 THEN <<h.ec>> ELSE <<>>
    IN  [k \in 1..((Len(s) + 2) \div 3) |->
            SubSeq(s, 3 * k - 2, Min({3 * k, Len(s)})) \o extra(s[3 * k - 2])]

\* The length in the trailer counts the two trailer words themselves.
BlockLengthOk(m) == (m.blklen % LengthMod) + 2 = m.rd_blklen

\* Mutant: a wrong block CRC is flagged in the block but is no event error.
trans16_crc_unnoticed(m, c) ==
    LET lenok == BlockLengthOk(m)
        crcok == m.blkcrc = c[m.i].crc
        m1 == OnBlk(m, LAMBDA b : [b EXCEPT !.len_error = ~lenok, !.crc_error = ~crcok])
    IN  [m1 EXCEPT !.err_in_event = @ \/ ~lenok, !.st = 10]

\* A fake block with a correct CRC leaves the event.
trans16(m, c) ==
    LET lenok == BlockLengthOk(m)
        crcok == m.blkcrc = c[m.i].crc
        fake  == crcok /\ blk(m).blkid = FAKE_BLOCK
        m1 == OnBlk(m, LAMBDA b : [b EXCEPT !.len_error = ~lenok, !.crc_error = ~crcok])
    IN  [m1 EXCEPT !.err_in_event = @ \/ ~lenok \/ ~crcok, !.st = 10,
                   !.ev.trinfo = IF fake /\ m.evformat = FMT_BASIC /\ blk(m).fee # <<>>
                                 THEN @ \o read_triggerinfo(blk(m)) ELSE @,
                   !.ev.block  = IF fake THEN Front(@) ELSE @]

\* Mutant: the next block clears the error flag, as the first does.
trans17_clears_error(m, c) == [StartBlock(m, c) EXCEPT !.err_in_event = FALSE, !.st = 1]
trans17(m, c) == [StartBlock(m, c) EXCEPT !.st = 1]

\* An event with trigger info or with a fee is not empty.
EventIsEmpty(ev) == ev.trinfo = <<>> /\ \A k \in DOMAIN ev.block : ev.block[k].fee = <<>>

\* Mutant: the state after REGID is the next one of the list.
trans18_next_state(m, c) ==
    LET e == EventIsEmpty(m.ev)
    IN  [m EXCEPT !.ev.regid = c[m.i].v, !.event_is_empty = e, !.st = @ + 1,
                  !.err_in_event = IF e THEN @ ELSE FALSE]

trans18(m, c) ==
    LET e == EventIsEmpty(m.ev)
    IN  [m EXCEPT !.ev.regid = c[m.i].v, !.event_is_empty = e, !.st = 0,
                  !.err_in_event = IF e THEN @ ELSE FALSE]
=============================================================================

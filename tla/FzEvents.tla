------------------------------ MODULE FzEvents ------------------------------
(***************************************************************************)
(* The events of the FAZIA front-end, as far as FzFSM tells them apart:    *)
(* how an event is laid out in words (Encode), the tree a correct parser   *)
(* makes of it (Tree), and what transmission does to the words (Cut,       *)
(* Corrupt).  The firmware that lays the events out is not in the          *)
(* repository: the layout is the one FzFSM.cpp accepts and checks.         *)
(*                                                                         *)
(*   event     [blocks, regid]                                             *)
(*   block     [ec, blkid, fees]         fees: a sequence of cards, a card *)
(*                                       is a sequence of telescopes       *)
(*   telescope [fee, tel, gttag, dettag, trigpat, items]                   *)
(*   item      [det, dtype, fields]      the data of one detector          *)
(*   field     <<name, values>>          a tag of the tag format; the      *)
(*                                       basic format has no tags, only an *)
(*                                       order of the fields               *)
(***************************************************************************)
EXTENDS FzFSM

W(cls, v)     == [cls |-> cls, v |-> v, crc |-> {}]
CrcWord(cls, crc) == [cls |-> cls, v |-> 0, crc |-> crc]
DataWord(v)   == W("DATA", v)
DataWords(vs) == [k \in DOMAIN vs |-> DataWord(vs[k])]
Concat(Op(_), s) == FoldLeft(LAMBDA acc, x : acc \o Op(x), <<>>, s)

Tag == [ SLOW |-> TAG_SLOW, FAST |-> TAG_FAST, BASELINE |-> TAG_BASELINE,
         PRETRIGGER |-> TAG_PRETRIGGER, WAVEFORM |-> TAG_WAVEFORM,
         COUNTERS |-> TAG_RB_COUNTERS, TIME |-> TAG_RB_TIME, GTTAG |-> TAG_RB_GTTAG,
         EC |-> TAG_RB_EC, TRIGPAT |-> TAG_RB_TRIGPAT, TEMP |-> TAG_RB_TEMP,
         CENTRUM |-> TAG_RB_CENTRUM ]

\* The values of the field called name, or <<>>.
Field(item, name) ==
    LET s == SelectSeq(item.fields, LAMBDA f : f[1] = name)
    IN  IF s = <<>> THEN <<>> ELSE s[1][2]
Has(item, name) == \E k \in DOMAIN item.fields : item.fields[k][1] = name

-----------------------------------------------------------------------------
(* Layout.                                                                 *)

TelHeader(t) == t.tel + 2 * t.fee
DetHeader(t, item) == TelHeader(t) + 32 * item.det + 256 * item.dtype

\* Tag format: tag, length, values; a void tag may stand anywhere.
TagWords(item) ==
    Concat(LAMBDA f : IF f[1] = "VOID" THEN <<TAG_VOID>>
                      ELSE <<Tag[f[1]], Len(f[2])>> \o f[2], item.fields)

\* Basic format: energies, pretrigger, waveform length, (sine, cosine,) samples.
BasicWords(item) ==
    Field(item, "SLOW") \o Field(item, "FAST") \o Field(item, "PRETRIGGER")
      \o <<Len(Field(item, "WAVEFORM"))>> \o Field(item, "SINCOS") \o Field(item, "WAVEFORM")

ItemWords(f, t, item) ==
    <<W("DETID", DetHeader(t, item))>>
      \o DataWords(IF f = FMT_TAG THEN TagWords(item) ELSE BasicWords(item))

TelescopeWords(f, t) ==
    <<W("TELID", TelHeader(t))>>
      \o DataWords(<<t.gttag, t.dettag>> \o (IF t.trigpat = 0 THEN <<>> ELSE <<t.trigpat>>))
      \o Concat(LAMBDA item : ItemWords(f, t, item), t.items)

\* The words of a card, the first of which has the identity from.
CardWords(f, from, ec, card) ==
    LET body == <<W("EC", ec)>> \o Concat(LAMBDA t : TelescopeWords(f, t), card)
        n    == Len(body)
    IN  body \o <<W("LENGTH", n % LengthMod),
                  CrcWord("CRCFE", from .. (from + n - 1))>>

BlockWords(f, from, b) ==
    LET cards == FoldLeft(LAMBDA acc, x : acc \o CardWords(f, from + Len(acc), b.ec, x), <<>>, b.fees)
        n     == Len(cards) + 4
    IN  cards \o <<W("EC", b.ec), W("BLKID", b.blkid),
                   W("LENGTH", n % LengthMod),
                   CrcWord("CRCBL", from .. (from + n - 2))>>

\* The words of an event of format f, numbered from base on.  Empty words fill up between
\* the blocks and are not part of any length or CRC.
Encode(f, base, e) ==
    LET blocks == FoldLeft(LAMBDA acc, b : acc \o BlockWords(f, base + Len(acc), b)
                                               \o <<W("EMPTY", 0)>>, <<>>, e.blocks)
        ws     == blocks \o <<W("REGID", e.regid)>>
    IN  [k \in DOMAIN ws |-> [id |-> base + k - 1, cls |-> ws[k].cls, v |-> ws[k].v,
                            crc |-> ws[k].crc]]

-----------------------------------------------------------------------------
(* The reference: the tree of an event.                                    *)

\* Energies keep the words of the value: high, low and, with tags, rise time.
EnergyOf(f, item) ==
    LET one(name) == LET x == Field(item, name)
                     IN  IF f = FMT_TAG THEN <<x[2], x[3], x[1]>> ELSE x
    IN  [value |-> (IF Has(item, "SLOW") THEN <<one("SLOW")>> ELSE <<>>)
                     \o (IF Has(item, "FAST") THEN <<one("FAST")>> ELSE <<>>),
         len_error |-> FALSE]

DataOf(f, t, item) ==
    [type     |-> DataType(DetHeader(t, item)),
     energy   |-> IF Has(item, "SLOW") THEN <<EnergyOf(f, item)>> ELSE <<>>,
     waveform |-> IF Has(item, "WAVEFORM")
                  THEN <<[pretrig |-> Field(item, "PRETRIGGER")[1],
                          sample |-> Field(item, "WAVEFORM"), len_error |-> FALSE]>>
                  ELSE <<>>,
     baseline |-> Field(item, "BASELINE"),
     sincos   |-> Field(item, "SINCOS")]

HitsOf(f, ec, t) ==
    [k \in DOMAIN t.items |->
        [ec |-> ec, feeid |-> t.fee, telid |-> t.tel, detid |-> t.items[k].det,
         gttag |-> t.gttag, dettag |-> t.dettag, trigpat |-> t.trigpat,
         data |-> <<DataOf(f, t, t.items[k])>>]]

CardOf(f, ec, card) ==
    [feeid |-> card[1].fee, len_error |-> FALSE, crc_error |-> FALSE,
     hit |-> Concat(LAMBDA t : HitsOf(f, ec, t), card)]

BlockOf(f, b) ==
    [blkid |-> b.blkid, len_error |-> FALSE, crc_error |-> FALSE,
     fee |-> [k \in DOMAIN b.fees |-> CardOf(f, b.ec, b.fees[k])]]

\* Trigger info: the attribute (FzTriggerInfoBasic_str, FzCentrumInfo_str)
\* and the words of its value.
TrigInfoOf(ec, t, f) ==
    LET v == f[2]
    IN  CASE f[1] = "COUNTERS" -> [k \in DOMAIN v |-> <<256 + k - 1, v[k]>>]
          [] f[1] = "TIME"     -> <<<<268>> \o v>>
          [] f[1] = "GTTAG"    -> <<<<269>> \o v \o <<t.gttag>>>>
          [] f[1] = "EC"       -> <<<<270>> \o v \o <<ec>>>>
          [] f[1] = "TRIGPAT"  -> <<<<271>> \o v>>
          [] f[1] = "TEMP"     -> <<<<272>> \o v>>
          [] f[1] = "CENTRUM"  -> <<<<512, v[1]>>, <<513, v[2], v[3]>>,
                                    <<514, v[4], v[5]>>, <<515, v[6], v[7]>>>>
          [] OTHER             -> <<>>

TrigInfoOfBlock(b) ==
    Concat(LAMBDA card : Concat(LAMBDA t : Concat(LAMBDA item :
        Concat(LAMBDA f : TrigInfoOf(b.ec, t, f), item.fields), t.items), card), b.fees)

\* The fake block is not part of the tree; its trigger info is.
Tree(f, e) ==
    LET real == SelectSeq(e.blocks, LAMBDA b : b.blkid # FAKE_BLOCK)
    IN  [ec |-> Last(e.blocks).ec, regid |-> e.regid,
         block  |-> [k \in DOMAIN real |-> BlockOf(f, real[k])],
         trinfo |-> Concat(TrigInfoOfBlock, e.blocks)]

-----------------------------------------------------------------------------
(* Transmission.                                                           *)

\* Raw events: the words, the event they were sent as, and whether they are
\* the words sent.  The events, undamaged, numbered from base on:
Intact(f, base, events) == {[words |-> Encode(f, base, e), sent |-> e, intact |-> TRUE] : e \in events}

Damaged(raw, words) == [raw EXCEPT !.words = words, !.intact = FALSE]

\* The places of the words, empty ones and the REGID, which makes FzReader
\* deliver, aside.
Places(raw) == {k \in 1..(Len(raw.words) - 1) : raw.words[k].cls # "EMPTY"}

\* A run of words is lost.
Cut(raw) ==
    {Damaged(raw, SubSeq(raw.words, 1, i - 1) \o SubSeq(raw.words, j + 1, Len(raw.words))) :
        <<i, j>> \in {p \in Places(raw) \X (1..(Len(raw.words) - 1)) : p[1] <= p[2]}}

\* The words from one of x on to one of y are lost, the REGID of x among them:
\* the reader delivers the blocks of two events as those of one.
Joined(x, y) ==
    {[words  |-> SubSeq(x.words, 1, i) \o SubSeq(y.words, j, Len(y.words)),
      sent   |-> [y.sent EXCEPT !.blocks = x.sent.blocks \o @],
      intact |-> FALSE] : i \in 1..(Len(x.words) - 1), j \in DOMAIN y.words}

\* One word arrives as another one: as a word of another class, or as one of
\* its own class with another content.
OtherWord(cls) ==
    [id |-> -1, cls |-> cls,
     v   |-> IF cls \in {"TELID", "DETID"} THEN 259 ELSE 3,
     crc |-> IF cls \in {"CRCFE", "CRCBL"} THEN {-1} ELSE {}]

CorruptAs(classes, raw) ==
    {Damaged(raw, [raw.words EXCEPT ![k] = OtherWord(cls)]) : k \in Places(raw), cls \in classes}
Corrupt(raw) == CorruptAs(WordClass \ {"REGID"}, raw)

\* One DATA word arrives as zero.
Zeroed(raw) ==
    {Damaged(raw, [raw.words EXCEPT ![k] = [@ EXCEPT !.id = -1, !.v = 0]]) :
        k \in {j \in DOMAIN raw.words : raw.words[j].cls = "DATA"}}

\* All words from one on are lost, up to the REGID.
Truncate(raw) ==
    {Damaged(raw, Append(SubSeq(raw.words, 1, k), Last(raw.words))) : k \in 0..(Len(raw.words) - 3)}
=============================================================================

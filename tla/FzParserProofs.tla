--------------------------- MODULE FzParserProofs ---------------------------
(***************************************************************************)
(* Proofs about FzParser and its FzFSM, for both formats, words of any     *)
(* kind in any order and any number of events.                             *)
(*                                                                         *)
(* The pointers of the machine are "the last of" a list of the tree, so    *)
(* the invariant (Live) says which lists have a last element in which      *)
(* state.  Every transition is shown to lead from a live machine to a      *)
(* live one (LeadsTo), whatever word makes it fire.                        *)
(***************************************************************************)
EXTENDS FzParser, SequenceTheorems, FiniteSetTheorems, TLAPS

-----------------------------------------------------------------------------
(* Lists of any elements.                                                  *)

IsSeq(s) == \E S : s \in Seq(S)
Put(s, x) == [s EXCEPT ![Len(s)] = x]

LEMMA EmptyIsSeq == IsSeq(<<>>)
<1>1. <<>> \in Seq({})
  OBVIOUS
<1> QED
  BY <1>1 DEF IsSeq

LEMMA OneIsSeq == ASSUME NEW x PROVE IsSeq(<<x>>) /\ <<x>> # <<>> /\ Last(<<x>>) = x
<1>1. <<x>> \in Seq({x}) /\ <<x>> # <<>> /\ Len(<<x>>) = 1
  OBVIOUS
<1> QED
  BY <1>1 DEF IsSeq, Last

LEMMA AppendIsSeq ==
    ASSUME NEW s, IsSeq(s), NEW x
    PROVE  IsSeq(Append(s, x)) /\ Append(s, x) # <<>> /\ Last(Append(s, x)) = x
<1>1. PICK S : s \in Seq(S)
  BY DEF IsSeq
<1>2. s \in Seq(S \cup {x}) /\ x \in S \cup {x}
  BY <1>1
<1>3. /\ Append(s, x) \in Seq(S \cup {x}) /\ Append(s, x) # <<>>
      /\ Append(s, x)[Len(Append(s, x))] = x
  BY <1>2, AppendProperties
<1> QED
  BY <1>3 DEF IsSeq, Last

LEMMA PutIsSeq ==
    ASSUME NEW s, IsSeq(s), NEW x
    PROVE  IsSeq(Put(s, x)) /\ (s # <<>> => Put(s, x) # <<>> /\ Last(Put(s, x)) = x)
<1>1. PICK S : s \in Seq(S)
  BY DEF IsSeq
<1>2. PICK T : s \in Seq(T) /\ x \in T
  <2>1. s \in Seq(S \cup {x}) /\ x \in S \cup {x}
    BY <1>1
  <2> QED
    BY <2>1
<1>3. CASE s = <<>>
  <2>1. Put(s, x) = <<>>
    BY <1>3 DEF Put
  <2> QED
    BY <1>3, <2>1, EmptyIsSeq
<1>4. CASE s # <<>>
  <2>1. Len(s) \in Nat /\ Len(s) \in 1..Len(s)
    BY <1>2, <1>4, EmptySeq
  <2>2. Put(s, x) \in Seq(T) /\ Len(Put(s, x)) = Len(s) /\ Put(s, x)[Len(s)] = x
    BY <1>2, <2>1, ExceptSeq DEF Put
  <2>3. Put(s, x) # <<>>
    BY <2>1, <2>2, EmptySeq
  <2> QED
    BY <2>2, <2>3 DEF IsSeq, Last
<1> QED
  BY <1>3, <1>4

LEMMA PutParts ==
    ASSUME NEW s, IsSeq(s), s # <<>>, NEW x
    PROVE  /\ Len(s) \in DOMAIN s /\ DOMAIN Put(s, x) = DOMAIN s /\ Len(Put(s, x)) = Len(s)
           /\ \A k \in DOMAIN s : Put(s, x)[k] = IF k = Len(s) THEN x ELSE s[k]
<1>1. PICK S : s \in Seq(S)
  BY DEF IsSeq
<1>2. Len(s) \in Nat /\ DOMAIN s = 1..Len(s) /\ Len(s) # 0
  BY <1>1, EmptySeq
<1>3. DOMAIN Put(s, x) = DOMAIN s /\ Put(s, x) \in Seq(S \cup {x})
  BY <1>1, <1>2 DEF Put
<1>4. Len(Put(s, x)) = Len(s)
  BY <1>2, <1>3
<1> QED
  BY <1>2, <1>3, <1>4 DEF Put

LEMMA FrontIsSeq == ASSUME NEW s, IsSeq(s) PROVE IsSeq(Front(s))
<1>1. PICK S : s \in Seq(S)
  BY DEF IsSeq
<1>2. Len(s) \in Nat /\ \A k \in 1..(Len(s) - 1) : s[k] \in S
  BY <1>1
<1>3. Front(s) \in Seq(S)
  BY <1>2, SubSeqProperties DEF Front
<1> QED
  BY <1>3 DEF IsSeq

-----------------------------------------------------------------------------
(* The machine.                                                            *)

Fields ==
    {"evformat", "st", "i", "ev", "tmp_ec", "tmp_rawec", "tag", "tag_done", "dettag_done",
     "energy1_done", "energy2_done", "pretrig_done", "wflen_done", "rd_wflen", "blklen",
     "rd_blklen", "feelen", "rd_feelen", "blkcrc", "feecrc", "save_blkcrc", "save_feecrc",
     "err_in_event", "event_is_empty"}

\* Its members and the numbers among them.
Flat(x) ==
    /\ DOMAIN x = Fields
    /\ x.i \in Nat /\ x.blklen \in Nat /\ x.feelen \in Nat /\ x.rd_wflen \in Nat

\* The objects that its pointers designate.
DataOk(t) ==
    /\ DOMAIN t = {"type", "energy", "waveform", "baseline", "sincos"}
    /\ IsSeq(t.waveform) /\ IsSeq(t.energy)
HitOk(h) ==
    /\ DOMAIN h = {"ec", "feeid", "telid", "detid", "gttag", "dettag", "trigpat", "data"}
    /\ IsSeq(h.data)
FeeOk(f) == DOMAIN f = {"feeid", "len_error", "crc_error", "hit"} /\ IsSeq(f.hit)
BlkOk(b) == DOMAIN b = {"blkid", "len_error", "crc_error", "fee"} /\ IsSeq(b.fee)

HasEv(x)  == DOMAIN x.ev = {"ec", "regid", "block", "trinfo"} /\ IsSeq(x.ev.block)
HasBlk(x) == HasEv(x) /\ x.ev.block # <<>> /\ BlkOk(blk(x))
HasFee(x) == HasBlk(x) /\ blk(x).fee # <<>> /\ FeeOk(fee(x))
HasHit(x) == HasFee(x) /\ fee(x).hit # <<>> /\ HitOk(hit(x))
HasData(x) == HasHit(x) /\ hit(x).data # <<>> /\ DataOk(d(x))

\* The submessages of the data at hand.
BasicParts(t) == t.waveform # <<>> /\ (WithEnergy(t.type) => t.energy # <<>>)
TagParts(t, tag) ==
    /\ tag \in {TAG_PRETRIGGER, TAG_WAVEFORM} => t.waveform # <<>>
    /\ tag \in {TAG_SLOW, TAG_FAST} => t.energy # <<>>
HasParts(x) ==
    /\ x.evformat = FMT_BASIC => BasicParts(d(x))
    /\ x.evformat = FMT_TAG /\ x.st = 5 /\ x.tag_done => TagParts(d(x), x.tag)

Live(x) ==
    /\ Flat(x) /\ x.st \in 0..10 /\ HasEv(x)
    /\ x.st \in 1..9 => HasBlk(x)
    /\ x.st \in 2..7 => HasHit(x)
    /\ x.st \in 4..5 => HasData(x) /\ HasParts(x)

\* The members that no transition but trans18 touches.
Kept(x, y) == y.evformat = x.evformat /\ y.event_is_empty = x.event_is_empty

LeadsTo(x, y) == Live(y) /\ Kept(x, y)

\* What the trailers of cards and blocks have found, and how many there are.
FeeMark(f) == [len |-> f.len_error, crc |-> f.crc_error]
BlkMark(b) == [len |-> b.len_error, crc |-> b.crc_error, n |-> Len(b.fee),
               fee |-> [j \in DOMAIN b.fee |-> FeeMark(b.fee[j])]]
Marks(x)   == [n |-> Len(x.ev.block),
               blk |-> [k \in DOMAIN x.ev.block |-> BlkMark(x.ev.block[k])]]

\* No mark is set or cleared, no error forgotten, and a card at hand stays at
\* hand (its states are S2 to S6).
Within(x, y) ==
    /\ Marks(y) = Marks(x) /\ (x.err_in_event => y.err_in_event)
    /\ x.st \in 2..6 => y.st \in 2..6

\* All members but the tree are the same.
SameButEv(x, y) ==
    /\ DOMAIN y = DOMAIN x
    /\ \A f \in DOMAIN x : f # "ev" => y[f] = x[f]

-----------------------------------------------------------------------------
(* Another block, fee, hit or data in the place of the last.               *)

SetBlk(x, b)  == [x EXCEPT !.ev.block = Put(@, b)]
SetFee(x, f)  == SetBlk(x, [blk(x) EXCEPT !.fee = Put(@, f)])
SetHit(x, h)  == SetFee(x, [fee(x) EXCEPT !.hit = Put(@, h)])
SetData(x, t) == SetHit(x, [hit(x) EXCEPT !.data = Put(@, t)])

LEMMA SetBlkLive ==
    ASSUME NEW x, Flat(x), HasBlk(x), NEW b, BlkOk(b)
    PROVE  SameButEv(x, SetBlk(x, b)) /\ HasBlk(SetBlk(x, b)) /\ blk(SetBlk(x, b)) = b
<1> DEFINE y == SetBlk(x, b)
<1>1. SameButEv(x, y) /\ y.ev = [x.ev EXCEPT !.block = Put(x.ev.block, b)]
  BY DEF Flat, Fields, SetBlk, SameButEv
<1>2. DOMAIN y.ev = DOMAIN x.ev /\ y.ev.block = Put(x.ev.block, b)
  BY <1>1 DEF HasBlk, HasEv
<1>3. IsSeq(y.ev.block) /\ y.ev.block # <<>> /\ Last(y.ev.block) = b
  BY <1>2, PutIsSeq DEF HasBlk, HasEv
<1> QED
  BY <1>1, <1>2, <1>3 DEF HasBlk, HasEv, blk

LEMMA SetFeeLive ==
    ASSUME NEW x, Flat(x), HasFee(x), NEW f, FeeOk(f)
    PROVE  SameButEv(x, SetFee(x, f)) /\ HasFee(SetFee(x, f)) /\ fee(SetFee(x, f)) = f
<1> DEFINE b == [blk(x) EXCEPT !.fee = Put(@, f)]
<1>1. HasBlk(x) /\ BlkOk(blk(x)) /\ blk(x).fee # <<>>
  BY DEF HasFee, HasBlk
<1>2. BlkOk(b) /\ b.fee # <<>> /\ Last(b.fee) = f
  <2>1. DOMAIN b = DOMAIN blk(x) /\ b.fee = Put(blk(x).fee, f)
    BY <1>1 DEF BlkOk
  <2> QED
    BY <1>1, <2>1, PutIsSeq DEF BlkOk
<1> HIDE DEF b
<1>3. SameButEv(x, SetBlk(x, b)) /\ HasBlk(SetBlk(x, b)) /\ blk(SetBlk(x, b)) = b
  BY <1>1, <1>2, SetBlkLive
<1>4. SetFee(x, f) = SetBlk(x, b)
  BY DEF SetFee, b
<1> QED
  BY <1>2, <1>3, <1>4 DEF HasFee, fee

LEMMA SetHitLive ==
    ASSUME NEW x, Flat(x), HasHit(x), NEW h, HitOk(h)
    PROVE  SameButEv(x, SetHit(x, h)) /\ HasHit(SetHit(x, h)) /\ hit(SetHit(x, h)) = h
<1> DEFINE f == [fee(x) EXCEPT !.hit = Put(@, h)]
<1>1. HasFee(x) /\ FeeOk(fee(x)) /\ fee(x).hit # <<>>
  BY DEF HasHit, HasFee
<1>2. FeeOk(f) /\ f.hit # <<>> /\ Last(f.hit) = h
  <2>1. DOMAIN f = DOMAIN fee(x) /\ f.hit = Put(fee(x).hit, h)
    BY <1>1 DEF FeeOk
  <2> QED
    BY <1>1, <2>1, PutIsSeq DEF FeeOk
<1> HIDE DEF f
<1>3. SameButEv(x, SetFee(x, f)) /\ HasFee(SetFee(x, f)) /\ fee(SetFee(x, f)) = f
  BY <1>1, <1>2, SetFeeLive
<1>4. SetHit(x, h) = SetFee(x, f)
  BY DEF SetHit, f
<1> QED
  BY <1>2, <1>3, <1>4 DEF HasHit, hit

LEMMA SetDataLive ==
    ASSUME NEW x, Flat(x), HasData(x), NEW t, DataOk(t)
    PROVE  SameButEv(x, SetData(x, t)) /\ HasData(SetData(x, t)) /\ d(SetData(x, t)) = t
<1> DEFINE h == [hit(x) EXCEPT !.data = Put(@, t)]
<1>1. HasHit(x) /\ HitOk(hit(x)) /\ hit(x).data # <<>>
  BY DEF HasData, HasHit
<1>2. HitOk(h) /\ h.data # <<>> /\ Last(h.data) = t
  <2>1. DOMAIN h = DOMAIN hit(x) /\ h.data = Put(hit(x).data, t)
    BY <1>1 DEF HitOk
  <2> QED
    BY <1>1, <2>1, PutIsSeq DEF HitOk
<1> HIDE DEF h
<1>3. SameButEv(x, SetHit(x, h)) /\ HasHit(SetHit(x, h)) /\ hit(SetHit(x, h)) = h
  BY <1>1, <1>2, SetHitLive
<1>4. SetData(x, t) = SetHit(x, h)
  BY DEF SetData, h
<1> QED
  BY <1>2, <1>3, <1>4 DEF HasData, d

\* The marks of the tree, when those of the new element are those of the old.
LEMMA SetBlkMarks ==
    ASSUME NEW x, Flat(x), HasBlk(x), NEW b, BlkMark(b) = BlkMark(blk(x))
    PROVE  Marks(SetBlk(x, b)) = Marks(x)
<1> DEFINE y == SetBlk(x, b)
           s == x.ev.block
<1>1. y.ev.block = Put(s, b)
  BY DEF Flat, Fields, SetBlk, HasBlk, HasEv
<1>2. IsSeq(s) /\ s # <<>> /\ blk(x) = s[Len(s)]
  BY DEF HasBlk, HasEv, blk, Last
<1> HIDE DEF y, s
<1>3. /\ Len(s) \in DOMAIN s /\ DOMAIN Put(s, b) = DOMAIN s /\ Len(Put(s, b)) = Len(s)
      /\ \A k \in DOMAIN s : Put(s, b)[k] = IF k = Len(s) THEN b ELSE s[k]
  BY <1>2, PutParts
<1>4. \A k \in DOMAIN s : BlkMark(Put(s, b)[k]) = BlkMark(s[k])
  BY <1>2, <1>3
<1> QED
  BY <1>1, <1>3, <1>4 DEF Marks, y, s

LEMMA SetFeeMarks ==
    ASSUME NEW x, Flat(x), HasFee(x), NEW f, FeeMark(f) = FeeMark(fee(x))
    PROVE  Marks(SetFee(x, f)) = Marks(x)
<1> DEFINE s == blk(x).fee
           b == [blk(x) EXCEPT !.fee = Put(@, f)]
<1>1. b.fee = Put(s, f) /\ b.len_error = blk(x).len_error /\ b.crc_error = blk(x).crc_error
  BY DEF HasFee, HasBlk, BlkOk
<1>2. IsSeq(s) /\ s # <<>> /\ fee(x) = s[Len(s)] /\ HasBlk(x)
  BY DEF HasFee, HasBlk, BlkOk, fee, Last
<1>3. SetFee(x, f) = SetBlk(x, b)
  BY DEF SetFee
<1> HIDE DEF b
<1>4. BlkMark(b) = BlkMark(blk(x))
  <2> HIDE DEF s
  <2>1. /\ Len(s) \in DOMAIN s /\ DOMAIN Put(s, f) = DOMAIN s /\ Len(Put(s, f)) = Len(s)
        /\ \A k \in DOMAIN s : Put(s, f)[k] = IF k = Len(s) THEN f ELSE s[k]
    BY <1>2, PutParts
  <2>2. \A k \in DOMAIN s : FeeMark(Put(s, f)[k]) = FeeMark(s[k])
    BY <1>2, <2>1
  <2> QED
    BY <1>1, <2>1, <2>2 DEF BlkMark, s
<1> QED
  BY <1>2, <1>3, <1>4, SetBlkMarks

LEMMA SetHitMarks ==
    ASSUME NEW x, Flat(x), HasHit(x), NEW h PROVE Marks(SetHit(x, h)) = Marks(x)
<1> DEFINE f == [fee(x) EXCEPT !.hit = Put(@, h)]
<1>1. FeeMark(f) = FeeMark(fee(x)) /\ HasFee(x)
  BY DEF HasHit, HasFee, FeeOk, FeeMark
<1>2. SetHit(x, h) = SetFee(x, f)
  BY DEF SetHit
<1> HIDE DEF f
<1> QED
  BY <1>1, <1>2, SetFeeMarks

LEMMA SetDataMarks ==
    ASSUME NEW x, Flat(x), HasData(x), NEW t PROVE Marks(SetData(x, t)) = Marks(x)
  BY SetHitMarks DEF SetData, HasData

-----------------------------------------------------------------------------
(* Steps that leave the tree alone.                                        *)

\* The members that Live depends on, the blocks, the numbers and st aside.
SameMode(x, y) ==
    /\ Kept(x, y) /\ y.tag = x.tag /\ y.tag_done = x.tag_done
    /\ x.err_in_event => y.err_in_event
SameTree(x, y) == DOMAIN y.ev = DOMAIN x.ev /\ y.ev.block = x.ev.block
SameNumbers(x, y) ==
    y.i = x.i /\ y.blklen = x.blklen /\ y.feelen = x.feelen /\ y.rd_wflen = x.rd_wflen

LEMMA TreeIsEv ==
    ASSUME NEW x, NEW y, SameTree(x, y)
    PROVE  /\ HasEv(x) => HasEv(y)
           /\ HasBlk(x) => HasBlk(y) /\ blk(y) = blk(x)
           /\ HasFee(x) => HasFee(y) /\ fee(y) = fee(x)
           /\ HasHit(x) => HasHit(y) /\ hit(y) = hit(x)
           /\ HasData(x) => HasData(y) /\ d(y) = d(x)
  BY DEF SameTree, HasEv, HasBlk, HasFee, HasHit, HasData, blk, fee, hit, d

LEMMA TreeIsMarks == ASSUME NEW x, NEW y, SameTree(x, y) PROVE Marks(y) = Marks(x)
  BY DEF SameTree, Marks

LEMMA ButEv ==
    ASSUME NEW x, NEW y, Flat(x), SameButEv(x, y)
    PROVE  Flat(y) /\ SameMode(x, y) /\ SameNumbers(x, y) /\ y.st = x.st
  BY DEF Flat, Fields, SameButEv, SameMode, Kept, SameNumbers

LEMMA WordValue == ASSUME NEW c \in Seq(RawWord), NEW k PROVE Word(c, k).v \in Nat
<1>1. CASE k \in DOMAIN c
  <2>1. c[k] \in RawWord
    BY <1>1
  <2>2. c[k].v \in Nat
    BY <2>1 DEF RawWord
  <2> QED
    BY <1>1, <2>2 DEF Word
<1>2. CASE k \notin DOMAIN c
  BY <1>2 DEF Word
<1> QED
  BY <1>1, <1>2

\* update_blk() and update_fee() on n words, next_event_word() n times.
LEMMA UpdateBlk ==
    ASSUME NEW x, Flat(x), NEW c, NEW lo, NEW hi, NEW n \in Nat, hi - lo + 1 = n,
           NEW y, y = update_blk(x, c, lo, hi)
    PROVE  /\ Flat(y) /\ SameMode(x, y) /\ SameTree(x, y) /\ y.st = x.st
           /\ y.i = x.i /\ y.rd_wflen = x.rd_wflen
           /\ y.blklen = x.blklen + n /\ y.feelen = x.feelen
  BY DEF update_blk, Flat, Fields, SameMode, Kept, SameTree

LEMMA UpdateFee ==
    ASSUME NEW x, Flat(x), NEW c, NEW lo, NEW hi, NEW n \in Nat, hi - lo + 1 = n,
           NEW y, y = update_fee(x, c, lo, hi)
    PROVE  /\ Flat(y) /\ SameMode(x, y) /\ SameTree(x, y) /\ y.st = x.st
           /\ y.i = x.i /\ y.rd_wflen = x.rd_wflen
           /\ y.blklen = x.blklen /\ y.feelen = x.feelen + n
  BY DEF update_fee, Flat, Fields, SameMode, Kept, SameTree

LEMMA UpdateBoth ==
    ASSUME NEW x, Flat(x), NEW c, NEW lo, NEW hi, NEW n \in Nat, hi - lo + 1 = n,
           NEW y, y = update_fee(update_blk(x, c, lo, hi), c, lo, hi)
    PROVE  /\ Flat(y) /\ SameMode(x, y) /\ SameTree(x, y) /\ y.st = x.st
           /\ y.i = x.i /\ y.rd_wflen = x.rd_wflen
           /\ y.blklen = x.blklen + n /\ y.feelen = x.feelen + n
<1> DEFINE z == update_blk(x, c, lo, hi)
<1>1. /\ Flat(z) /\ SameMode(x, z) /\ SameTree(x, z) /\ z.st = x.st
      /\ z.i = x.i /\ z.rd_wflen = x.rd_wflen /\ z.blklen = x.blklen + n /\ z.feelen = x.feelen
  BY UpdateBlk
<1> HIDE DEF z
<1>2. /\ Flat(y) /\ SameMode(z, y) /\ SameTree(z, y) /\ y.st = z.st
      /\ y.i = z.i /\ y.rd_wflen = z.rd_wflen /\ y.blklen = z.blklen /\ y.feelen = z.feelen + n
  BY <1>1, UpdateFee DEF z
<1> QED
  BY <1>1, <1>2 DEF SameMode, Kept, SameTree

\* update_blk(); update_fee(); on the current word.
Updated(x, u) ==
    /\ Flat(u) /\ SameMode(x, u) /\ SameTree(x, u) /\ u.st = x.st
    /\ u.i = x.i /\ u.rd_wflen = x.rd_wflen
    /\ u.blklen = x.blklen + 1 /\ u.feelen = x.feelen + 1

LEMMA Update == ASSUME NEW x, Flat(x), NEW c PROVE Updated(x, update(x, c))
<1>1. x.i - x.i + 1 = 1 /\ 1 \in Nat
  BY DEF Flat
<1> QED
  BY <1>1, UpdateBoth DEF update, Updated

LEMMA NextWord ==
    ASSUME NEW x, Flat(x), NEW c, NEW n \in Nat, NEW y, y = next_event_word(x, c, n)
    PROVE  /\ Flat(y) /\ SameMode(x, y) /\ SameTree(x, y) /\ y.st = x.st
           /\ y.i = x.i + n /\ y.rd_wflen = x.rd_wflen
           /\ y.blklen = x.blklen + n /\ y.feelen = x.feelen + n
<1> DEFINE lo == x.i + 1
           hi == x.i + n
           z == update_fee(update_blk(x, c, lo, hi), c, lo, hi)
<1>1. hi - lo + 1 = n /\ hi \in Nat
  BY DEF Flat
<1>2. y = [z EXCEPT !.i = hi]
  BY DEF next_event_word
<1> HIDE DEF lo, hi
<1>3. /\ Flat(z) /\ SameMode(x, z) /\ SameTree(x, z) /\ z.st = x.st
      /\ z.i = x.i /\ z.rd_wflen = x.rd_wflen
      /\ z.blklen = x.blklen + n /\ z.feelen = x.feelen + n
  BY <1>1, UpdateBoth
<1> HIDE DEF z
<1>4. Flat(y) /\ SameMode(z, y) /\ SameTree(z, y) /\ y.st = z.st /\ y.i = hi
      /\ y.rd_wflen = z.rd_wflen /\ y.blklen = z.blklen /\ y.feelen = z.feelen
  BY <1>1, <1>2, <1>3 DEF Flat, Fields, SameMode, Kept, SameTree
<1> QED
  BY <1>3, <1>4 DEF SameMode, Kept, SameTree, hi

-----------------------------------------------------------------------------
(* The transitions that open blocks, fees and hits.                        *)

LEMMA NewBlkOk == BlkOk(NewBlock)
  BY EmptyIsSeq DEF BlkOk, NewBlock

LEMMA NewHitOk == ASSUME NEW e, NEW f, NEW t PROVE HitOk(NewHit(e, f, t))
  BY EmptyIsSeq DEF HitOk, NewHit

LEMMA StartBlockLive ==
    ASSUME NEW x, Live(x), NEW c
    PROVE  /\ Flat(StartBlock(x, c)) /\ Kept(x, StartBlock(x, c)) /\ HasBlk(StartBlock(x, c))
<1> DEFINE y == StartBlock(x, c)
<1>1. Flat(x) /\ HasEv(x)
  BY DEF Live
<1>2. Flat(y) /\ Kept(x, y)
  BY <1>1 DEF StartBlock, Flat, Fields, Kept
<1>3. DOMAIN y.ev = DOMAIN x.ev /\ y.ev.block = Append(x.ev.block, NewBlock)
  BY <1>1 DEF StartBlock, Flat, Fields, HasEv
<1>4. IsSeq(y.ev.block) /\ y.ev.block # <<>> /\ Last(y.ev.block) = NewBlock
  BY <1>1, <1>3, AppendIsSeq DEF HasEv
<1> QED
  BY <1>1, <1>2, <1>3, <1>4, NewBlkOk DEF HasBlk, HasEv, blk

\* Only st and other flat members are set behind y.
LEMMA Trans02Live == ASSUME NEW x, Live(x), NEW c PROVE LeadsTo(x, trans02(x, c))
<1> DEFINE y == StartBlock(x, c)
           z == trans02(x, c)
<1>1. Flat(y) /\ Kept(x, y) /\ HasBlk(y)
  BY StartBlockLive
<1>2. z = [y EXCEPT !.err_in_event = FALSE, !.st = 1]
  BY DEF trans02
<1> HIDE DEF y, z
<1>3. Flat(z) /\ Kept(y, z) /\ SameTree(y, z) /\ z.st = 1
  BY <1>1, <1>2 DEF Flat, Fields, Kept, SameTree
<1>4. HasBlk(z)
  BY <1>1, <1>3, TreeIsEv
<1> QED
  BY <1>1, <1>3, <1>4 DEF z, LeadsTo, Live, Kept, HasBlk

LEMMA Trans17Live == ASSUME NEW x, Live(x), NEW c PROVE LeadsTo(x, trans17(x, c))
<1> DEFINE y == StartBlock(x, c)
           z == trans17(x, c)
<1>1. Flat(y) /\ Kept(x, y) /\ HasBlk(y)
  BY StartBlockLive
<1>2. z = [y EXCEPT !.st = 1]
  BY DEF trans17
<1> HIDE DEF y, z
<1>3. Flat(z) /\ Kept(y, z) /\ SameTree(y, z) /\ z.st = 1
  BY <1>1, <1>2 DEF Flat, Fields, Kept, SameTree
<1>4. HasBlk(z)
  BY <1>1, <1>3, TreeIsEv
<1> QED
  BY <1>1, <1>3, <1>4 DEF z, LeadsTo, Live, Kept, HasBlk

\* TELID opens a fee with a hit.
LEMMA Trans03Live ==
    ASSUME NEW x, Live(x), x.st = 1, NEW c PROVE LeadsTo(x, trans03(x, c))
<1> DEFINE w == c[x.i]
           u == update_blk(x, c, x.i, x.i)
           y == [u EXCEPT !.feelen = 2, !.feecrc = SymDiff({x.tmp_rawec}, {w.id}), !.st = 2]
           h == NewHit(x.tmp_ec, FeeId(w.v), TelId(w.v))
           f == [NewFee(FeeId(w.v)) EXCEPT !.hit = <<h>>]
           b == [blk(y) EXCEPT !.fee = Append(@, f)]
           z == trans03(x, c)
<1>0. Flat(x) /\ HasBlk(x)
  BY DEF Live
<1>1. Flat(u) /\ SameMode(x, u) /\ SameTree(x, u)
  <2>1. x.i - x.i + 1 = 1 /\ 1 \in Nat
    BY <1>0 DEF Flat
  <2> QED
    BY <1>0, <2>1, UpdateBlk
<1>2. z = SetBlk(y, b)
  BY DEF trans03, OnBlk, OnLast, SetBlk, Put, blk, Last
<1>3. f.hit = <<h>> /\ FeeOk(f)
  <2>1. f.hit = <<h>> /\ DOMAIN f = {"feeid", "len_error", "crc_error", "hit"}
    BY DEF NewFee
  <2> QED
    BY <2>1, OneIsSeq DEF FeeOk
<1>4. HitOk(h)
  BY NewHitOk
<1> HIDE DEF u, h, f
<1>5. Flat(y) /\ SameMode(u, y) /\ SameTree(u, y) /\ y.st = 2
  BY <1>1 DEF Flat, Fields, SameMode, Kept, SameTree
<1>6. HasBlk(y)
  BY <1>0, <1>1, <1>5, TreeIsEv
<1> HIDE DEF y
<1>7. BlkOk(b) /\ b.fee # <<>> /\ Last(b.fee) = f
  <2>1. DOMAIN b = DOMAIN blk(y) /\ b.fee = Append(blk(y).fee, f)
    BY <1>6 DEF HasBlk, BlkOk
  <2> QED
    BY <1>6, <2>1, AppendIsSeq DEF HasBlk, BlkOk
<1> HIDE DEF b, z
<1>8. SameButEv(y, z) /\ HasBlk(z) /\ blk(z) = b
  BY <1>2, <1>5, <1>6, <1>7, SetBlkLive
<1>9. Flat(z) /\ SameMode(y, z) /\ z.st = 2
  BY <1>5, <1>8, ButEv
<1>10. HasFee(z) /\ fee(z) = f
  BY <1>3, <1>7, <1>8 DEF HasFee, fee
<1>11. HasHit(z)
  <2>1. fee(z).hit # <<>> /\ Last(fee(z).hit) = h
    BY <1>3, <1>10, OneIsSeq
  <2> QED
    BY <1>4, <1>10, <2>1 DEF HasHit, hit
<1>12. Kept(x, z)
  BY <1>1, <1>5, <1>9 DEF SameMode, Kept
<1> QED
  BY <1>8, <1>9, <1>11, <1>12 DEF z, LeadsTo, Live, HasBlk

\* A hit with other members.
LEMMA ChangedHit ==
    ASSUME NEW x, Live(x), x.st \in 2..7, NEW c, NEW u, u = update(x, c),
           NEW h, HitOk(h), NEW y, y = SetHit(u, h),
           NEW z, Flat(z), SameMode(y, z), SameTree(y, z), z.st \in 2..3
    PROVE  LeadsTo(x, z) /\ Within(x, z)
<1>0. Flat(x) /\ HasHit(x)
  BY DEF Live
<1>1. Updated(x, u)
  BY <1>0, Update
<1>2. Flat(u) /\ HasHit(u)
  BY <1>0, <1>1, TreeIsEv DEF Updated
<1>3. SameButEv(u, y) /\ HasHit(y)
  BY <1>2, SetHitLive
<1>4. SameMode(u, y)
  BY <1>2, <1>3, ButEv
<1>5. HasHit(z) /\ Kept(x, z) /\ (x.err_in_event => z.err_in_event)
  BY <1>1, <1>3, <1>4, TreeIsEv DEF Updated, SameMode, Kept
<1>6. Marks(z) = Marks(x)
  BY <1>1, <1>2, SetHitMarks, TreeIsMarks DEF Updated
<1> QED
  BY <1>5, <1>6 DEF LeadsTo, Within, Live, HasHit, HasFee, HasBlk

LEMMA Trans04Live ==
    ASSUME NEW x, Live(x), x.st = 2, NEW c
    PROVE  LeadsTo(x, trans04(x, c)) /\ Within(x, trans04(x, c))
<1> DEFINE u == update(x, c)
           h == [hit(u) EXCEPT !.gttag = c[x.i].v]
           y == SetHit(u, h)
           z == trans04(x, c)
<1>1. z = [y EXCEPT !.dettag_done = FALSE, !.st = 3]
  BY DEF trans04, OnHit, OnFee, OnBlk, OnLast, SetHit, SetFee, SetBlk, Put, hit, fee, blk, Last
<1>2. Flat(u) /\ HasHit(u)
  BY Update, TreeIsEv DEF Live, Updated
<1>3. HitOk(h)
  BY <1>2 DEF HasHit, HitOk
<1> HIDE DEF h
<1>4. Flat(y)
  BY <1>2, <1>3, SetHitLive, ButEv
<1> HIDE DEF u, y, z
<1>5. Flat(z) /\ SameMode(y, z) /\ SameTree(y, z) /\ z.st = 3
  BY <1>1, <1>4 DEF Flat, Fields, SameMode, Kept, SameTree
<1> QED
  BY <1>3, <1>5, ChangedHit DEF u, y, z

LEMMA Trans05Live ==
    ASSUME NEW x, Live(x), x.st = 3, NEW c
    PROVE  LeadsTo(x, trans05(x, c)) /\ Within(x, trans05(x, c))
<1> DEFINE u == update(x, c)
           h == IF x.dettag_done THEN [hit(u) EXCEPT !.trigpat = c[x.i].v]
                ELSE [hit(u) EXCEPT !.dettag = c[x.i].v]
           y == SetHit(u, h)
           z == trans05(x, c)
<1>1. z = [y EXCEPT !.dettag_done = TRUE, !.st = 3]
  BY DEF trans05, OnHit, OnFee, OnBlk, OnLast, SetHit, SetFee, SetBlk, Put, hit, fee, blk, Last
<1>2. Flat(u) /\ HasHit(u)
  BY Update, TreeIsEv DEF Live, Updated
<1>3. HitOk(h)
  BY <1>2 DEF HasHit, HitOk
<1> HIDE DEF h
<1>4. Flat(y)
  BY <1>2, <1>3, SetHitLive, ButEv
<1> HIDE DEF u, y, z
<1>5. Flat(z) /\ SameMode(y, z) /\ SameTree(y, z) /\ z.st = 3
  BY <1>1, <1>4 DEF Flat, Fields, SameMode, Kept, SameTree
<1> QED
  BY <1>3, <1>5, ChangedHit DEF u, y, z

\* The new data of a hit, with the submessages of the basic format.
LEMMA AddDataLive ==
    ASSUME NEW x, Flat(x), HasHit(x), NEW v, NEW e, NEW y, y = AddData(x, v, e)
    PROVE  LeadsTo(x, y) /\ Within(x, y) /\ y.st = 4
<1> DEFINE t == DataType(v)
           n == IF x.evformat = FMT_TAG THEN NewData(t) ELSE BasicData(t, e)
           h == [hit(x) EXCEPT !.detid = DetId(v), !.data = Append(@, n)]
           z == SetHit(x, h)
<1>1. y = [z EXCEPT !.err_in_event = @ \/ t = "UNKDT", !.st = 4]
  BY DEF AddData, OnHit, OnFee, OnBlk, OnLast, SetHit, SetFee, SetBlk, Put, hit, fee, blk, Last
<1>2. DataOk(n) /\ (x.evformat = FMT_BASIC => BasicParts(n))
  <2> HIDE DEF t
  <2>1. DataOk(NewData(t)) /\ NewData(t).type = t
    BY EmptyIsSeq DEF DataOk, NewData
  <2>2. DataOk(BasicData(t, e)) /\ BasicParts(BasicData(t, e))
    <3> DEFINE b == BasicData(t, e)
    <3>1. /\ DOMAIN b = {"type", "energy", "waveform", "baseline", "sincos"} /\ b.type = t
          /\ b.waveform = <<NewWf>>
          /\ b.energy = IF WithEnergy(t) THEN <<NewEn(e)>> ELSE <<>>
      BY DEF BasicData, NewData
    <3> QED
      BY <3>1, OneIsSeq, EmptyIsSeq DEF DataOk, BasicParts
  <2>3. FMT_BASIC # FMT_TAG
    BY DEF FMT_BASIC, FMT_TAG
  <2> QED
    BY <2>1, <2>2, <2>3
<1> HIDE DEF t, n
<1>3. HitOk(h) /\ h.data # <<>> /\ Last(h.data) = n
  <2>1. DOMAIN h = DOMAIN hit(x) /\ h.data = Append(hit(x).data, n)
    BY DEF HasHit, HitOk
  <2> QED
    BY <2>1, AppendIsSeq DEF HasHit, HitOk
<1> HIDE DEF h
<1>4. SameButEv(x, z) /\ HasHit(z) /\ hit(z) = h
  BY <1>3, SetHitLive
<1>5. Flat(z) /\ SameMode(x, z)
  BY <1>4, ButEv
<1>6. HasData(z) /\ d(z) = n
  BY <1>2, <1>3, <1>4 DEF HasData, d
<1>11. Marks(z) = Marks(x)
  BY SetHitMarks
<1> HIDE DEF z
<1>7. Flat(y) /\ SameMode(z, y) /\ SameTree(z, y) /\ y.st = 4
  <2>1. DOMAIN y = DOMAIN z /\ \A f \in Fields \ {"err_in_event", "st"} : y[f] = z[f]
    BY <1>1, <1>5 DEF Flat
  <2>2. y.err_in_event = (z.err_in_event \/ t = "UNKDT") /\ y.st = 4
    BY <1>1, <1>5 DEF Flat, Fields
  <2>3. /\ y.i = z.i /\ y.blklen = z.blklen /\ y.feelen = z.feelen
        /\ y.rd_wflen = z.rd_wflen /\ y.ev = z.ev
    BY <2>1 DEF Fields
  <2>4. /\ y.evformat = z.evformat /\ y.event_is_empty = z.event_is_empty
        /\ y.tag = z.tag /\ y.tag_done = z.tag_done
    BY <2>1 DEF Fields
  <2>5. Flat(y)
    BY <1>5, <2>1, <2>3 DEF Flat
  <2> QED
    BY <2>2, <2>3, <2>4, <2>5 DEF SameMode, Kept, SameTree
<1>8. HasData(y) /\ d(y) = n
  BY <1>6, <1>7, TreeIsEv
<1>9. Kept(x, y)
  BY <1>5, <1>7 DEF SameMode, Kept
<1>10. HasParts(y)
  BY <1>2, <1>7, <1>8, <1>9 DEF HasParts, Kept
<1>12. Within(x, y)
  BY <1>5, <1>7, <1>11, TreeIsMarks DEF Within, SameMode
<1> QED
  BY <1>7, <1>8, <1>9, <1>10, <1>12 DEF LeadsTo, Live, HasData, HasHit, HasFee, HasBlk

LEMMA Trans06Live ==
    ASSUME NEW x, Live(x), x.st = 3, NEW c
    PROVE  LeadsTo(x, trans06(x, c)) /\ Within(x, trans06(x, c))
<1> DEFINE u == update(x, c)
<1>1. Flat(u) /\ HasHit(u) /\ Kept(x, u) /\ Within(x, u)
  BY Update, TreeIsEv, TreeIsMarks DEF Live, Updated, SameMode, Within
<1> HIDE DEF u
<1>2. trans06(x, c) = AddData(u, c[x.i].v, FALSE)
  BY DEF trans06, u
<1>3. LeadsTo(u, trans06(x, c)) /\ Within(u, trans06(x, c))
  BY <1>1, <1>2, AddDataLive
<1> QED
  BY <1>1, <1>3 DEF LeadsTo, Kept, Within

-----------------------------------------------------------------------------
(* Data words.                                                             *)

\* Another state of the same data: no submessage goes away.
Refits(t, u) ==
    /\ DataOk(u) /\ u.type = t.type
    /\ t.waveform # <<>> => u.waveform # <<>>
    /\ t.energy # <<>> => u.energy # <<>>

\* The data at hand is worked upon.
Works(x, y) == /\ Flat(y) /\ SameMode(x, y) /\ y.st = x.st
               /\ HasData(y) /\ Refits(d(x), d(y)) /\ Marks(y) = Marks(x)

SetWf(x, w) == SetData(x, [d(x) EXCEPT !.waveform = Put(@, w)])
SetEn(x, e) == SetData(x, [d(x) EXCEPT !.energy = Put(@, e)])

LEMMA SetDataWorks ==
    ASSUME NEW x, Flat(x), HasData(x), NEW t, Refits(d(x), t), NEW y, y = SetData(x, t)
    PROVE  Works(x, y) /\ SameNumbers(x, y) /\ d(y) = t
<1>1. DataOk(t)
  BY DEF Refits
<1>2. SameButEv(x, y) /\ HasData(y) /\ d(y) = t
  BY <1>1, SetDataLive
<1>3. Marks(y) = Marks(x)
  BY SetDataMarks
<1> QED
  BY <1>2, <1>3, ButEv DEF Works

LEMMA SetWfWorks ==
    ASSUME NEW x, Flat(x), HasData(x), NEW w, NEW y, y = SetWf(x, w)
    PROVE  Works(x, y) /\ SameNumbers(x, y)
<1> DEFINE t == [d(x) EXCEPT !.waveform = Put(@, w)]
<1>1. /\ DOMAIN t = DOMAIN d(x) /\ t.waveform = Put(d(x).waveform, w)
      /\ t.type = d(x).type /\ t.energy = d(x).energy
  BY DEF HasData, DataOk
<1>2. Refits(d(x), t)
  BY <1>1, PutIsSeq DEF Refits, HasData, DataOk
<1> HIDE DEF t
<1>3. y = SetData(x, t)
  BY DEF SetWf, t
<1> QED
  BY <1>2, <1>3, SetDataWorks

LEMMA SetEnWorks ==
    ASSUME NEW x, Flat(x), HasData(x), NEW e, NEW y, y = SetEn(x, e)
    PROVE  Works(x, y) /\ SameNumbers(x, y)
<1> DEFINE t == [d(x) EXCEPT !.energy = Put(@, e)]
<1>1. /\ DOMAIN t = DOMAIN d(x) /\ t.energy = Put(d(x).energy, e)
      /\ t.type = d(x).type /\ t.waveform = d(x).waveform
  BY DEF HasData, DataOk
<1>2. Refits(d(x), t)
  BY <1>1, PutIsSeq DEF Refits, HasData, DataOk
<1> HIDE DEF t
<1>3. y = SetData(x, t)
  BY DEF SetEn, t
<1> QED
  BY <1>2, <1>3, SetDataWorks

LEMMA TreeWorks ==
    ASSUME NEW x, HasData(x), NEW y, Flat(y), SameMode(x, y), y.st = x.st, SameTree(x, y)
    PROVE  Works(x, y)
<1>1. HasData(y) /\ d(y) = d(x) /\ Marks(y) = Marks(x)
  BY TreeIsEv, TreeIsMarks
<1> QED
  BY <1>1 DEF Works, Refits, HasData

LEMMA WorksOn ==
    ASSUME NEW x, NEW y, NEW z, Works(x, y), Works(y, z) PROVE Works(x, z)
  BY DEF Works, SameMode, Kept, Refits

\* Behind it the machine may go on with data words, in any state of the tags
\* that the tag format has seen to.
LEMMA WorksBasic ==
    ASSUME NEW x, HasData(x), HasParts(x), x.evformat = FMT_BASIC,
           NEW y, Works(x, y), y.st = 5
    PROVE  LeadsTo(x, y)
<1>1. Flat(y) /\ Kept(x, y) /\ HasData(y) /\ Refits(d(x), d(y))
  BY DEF Works, SameMode
<1>2. FMT_BASIC # FMT_TAG
  BY DEF FMT_BASIC, FMT_TAG
<1>3. HasParts(y)
  BY <1>1, <1>2 DEF HasParts, Kept, BasicParts, Refits
<1> QED
  BY <1>1, <1>3 DEF LeadsTo, Live, HasData, HasHit, HasFee, HasBlk

LEMMA Trans07BasicLive ==
    ASSUME NEW x, Live(x), x.st = 4, x.evformat = FMT_BASIC, NEW c
    PROVE  LeadsTo(x, trans07_basic(x, c)) /\ Within(x, trans07_basic(x, c))
<1> DEFINE u == update(x, c)
           y == [u EXCEPT !.energy1_done = FALSE, !.energy2_done = FALSE,
                   !.wflen_done = FALSE, !.rd_wflen = 0, !.st = 5,
                   !.pretrig_done = ~WithEnergy(d(x).type)]
           z == trans07_basic(x, c)
           en2 == [Last(d(y).energy) EXCEPT !.value = Append(@, <<c[x.i].v>>)]
           wf2 == [Last(d(y).waveform) EXCEPT !.pretrig = c[x.i].v]
<1>0. Flat(x) /\ HasData(x) /\ HasParts(x)
  BY DEF Live
<1>1. Updated(x, u)
  BY <1>0, Update
<1>2. z = IF WithEnergy(d(x).type) THEN SetEn(y, en2) ELSE SetWf(y, wf2)
  BY DEF trans07_basic, OnEn, OnWf, OnData, OnHit, OnFee, OnBlk, OnLast, SetEn, SetWf,
         SetData, SetHit, SetFee, SetBlk, Put, d, hit, fee, blk, Last
<1> HIDE DEF u, en2, wf2
<1>3. Flat(y) /\ SameMode(u, y) /\ SameTree(u, y) /\ y.st = 5
  BY <1>1 DEF Updated, Flat, Fields, SameMode, Kept, SameTree
<1>4. SameMode(x, y) /\ SameTree(x, y)
  BY <1>1, <1>3 DEF Updated, SameMode, Kept, SameTree
<1> HIDE DEF y, z
<1>5. HasData(y) /\ d(y) = d(x)
  BY <1>0, <1>4, TreeIsEv
<1>6. HasParts(y) /\ y.evformat = FMT_BASIC
  BY <1>0, <1>4, <1>5 DEF HasParts, SameMode, Kept, FMT_BASIC, FMT_TAG
<1>7. Works(y, z)
  BY <1>2, <1>3, <1>5, SetEnWorks, SetWfWorks
<1>8. LeadsTo(y, z)
  BY <1>3, <1>5, <1>6, <1>7, WorksBasic DEF Works
<1>9. Within(x, z)
  BY <1>3, <1>4, <1>7, TreeIsMarks DEF Within, Works, SameMode
<1> QED
  BY <1>4, <1>8, <1>9 DEF z, LeadsTo, SameMode, Kept

LEMMA GatherSamplesWorks ==
    ASSUME NEW x, Flat(x), HasData(x), x.blklen > 0, x.feelen > 0, NEW c,
           NEW lo \in Nat, lo > 0, NEW n \in Nat, NEW z, z = GatherSamples(x, c, lo, n)
    PROVE  Works(x, z)
<1> DEFINE hi == lo + n - 1
           u == update_fee(update_blk(x, c, lo, hi), c, lo, hi)
           y == [u EXCEPT !.i = hi, !.blklen = @ - 1, !.feelen = @ - 1,
                   !.save_blkcrc = IF n = 0 THEN @ ELSE Xor(x.blkcrc, c, lo, hi - 1),
                   !.save_feecrc = IF n = 0 THEN @ ELSE Xor(x.feecrc, c, lo, hi - 1)]
           w == [Last(d(y).waveform) EXCEPT !.sample =
                    @ \o [k \in 1..n |-> Word(c, lo + k - 1).v]]
<1>1. z = SetWf(y, w)
  <2> DEFINE s == [k \in 1..n |-> Word(c, lo + k - 1).v]
  <2>1. z = OnWf(y, LAMBDA a : [a EXCEPT !.sample = @ \o s])
    BY DEF GatherSamples
  <2> HIDE DEF y, s
  <2>2. z = SetWf(y, [Last(d(y).waveform) EXCEPT !.sample = @ \o s])
    BY <2>1 DEF OnWf, OnData, OnHit, OnFee, OnBlk, OnLast, SetWf, SetData, SetHit, SetFee,
           SetBlk, Put, d, hit, fee, blk, Last
  <2> QED
    BY <2>2 DEF s
<1>2. hi - lo + 1 = n /\ hi \in Nat
  OBVIOUS
<1> HIDE DEF hi, w
<1>3. /\ Flat(u) /\ SameMode(x, u) /\ SameTree(x, u) /\ u.st = x.st
      /\ u.blklen = x.blklen + n /\ u.feelen = x.feelen + n
  BY <1>2, UpdateBoth
<1> HIDE DEF u
<1>4. u.blklen - 1 \in Nat /\ u.feelen - 1 \in Nat
  BY <1>3 DEF Flat
<1>5. Flat(y) /\ SameMode(u, y) /\ SameTree(u, y) /\ y.st = u.st
  BY <1>2, <1>3, <1>4 DEF Flat, Fields, SameMode, Kept, SameTree
<1> HIDE DEF y
<1>6. SameMode(x, y) /\ SameTree(x, y) /\ y.st = x.st
  BY <1>3, <1>5 DEF SameMode, Kept, SameTree
<1>7. Works(x, y)
  BY <1>5, <1>6, TreeWorks
<1>8. Works(y, z)
  BY <1>1, <1>5, <1>7, SetWfWorks DEF Works
<1> QED
  BY <1>7, <1>8, WorksOn

LEMMA SineCosineWorks ==
    ASSUME NEW x, Flat(x), HasData(x), NEW c, NEW z, z = SineCosine(x, c)
    PROVE  /\ Works(x, z) /\ z.i = x.i + 6
           /\ z.blklen = x.blklen + 6 /\ z.feelen = x.feelen + 6
<1> DEFINE lo == x.i
           u == update_fee(update_blk(x, c, lo, lo + 5), c, lo, lo + 5)
           y == [u EXCEPT !.i = lo + 6, !.save_blkcrc = u.blkcrc, !.save_feecrc = u.feecrc]
           t == [d(y) EXCEPT !.sincos = [k \in 1..6 |-> Word(c, lo + k - 1).v]]
<1>1. z = SetData(y, t)
  <2> DEFINE s == [k \in 1..6 |-> Word(c, lo + k - 1).v]
  <2>1. z = OnData(y, LAMBDA a : [a EXCEPT !.sincos = s])
    BY DEF SineCosine
  <2> HIDE DEF y, s
  <2>2. z = SetData(y, [d(y) EXCEPT !.sincos = s])
    BY <2>1 DEF OnData, OnHit, OnFee, OnBlk, OnLast, SetData, SetHit, SetFee, SetBlk, Put,
           d, hit, fee, blk, Last
  <2> QED
    BY <2>2 DEF s
<1>2. (lo + 5) - lo + 1 = 6 /\ lo + 6 \in Nat /\ 6 \in Nat
  BY DEF Flat
<1>3. /\ Flat(u) /\ SameMode(x, u) /\ SameTree(x, u) /\ u.st = x.st
      /\ u.blklen = x.blklen + 6 /\ u.feelen = x.feelen + 6
  <2> HIDE DEF lo
  <2> QED
    BY <1>2, UpdateBoth
<1> HIDE DEF u, lo
<1>5. /\ Flat(y) /\ SameMode(u, y) /\ SameTree(u, y) /\ y.st = u.st
      /\ y.i = lo + 6 /\ y.blklen = u.blklen /\ y.feelen = u.feelen
  BY <1>2, <1>3 DEF Flat, Fields, SameMode, Kept, SameTree
<1> HIDE DEF y
<1>6. SameMode(x, y) /\ SameTree(x, y) /\ y.st = x.st
  BY <1>3, <1>5 DEF SameMode, Kept, SameTree
<1>7. Works(x, y)
  BY <1>5, <1>6, TreeWorks
<1>8. Refits(d(y), t)
  BY <1>7 DEF Works, Refits, HasData, DataOk
<1> HIDE DEF t
<1>9. Works(y, z) /\ SameNumbers(y, z)
  BY <1>1, <1>5, <1>7, <1>8, SetDataWorks DEF Works
<1>10. Works(x, z)
  BY <1>7, <1>9, WorksOn
<1> QED
  BY <1>3, <1>5, <1>9, <1>10 DEF SameNumbers, lo

LEMMA RestoreWorks ==
    ASSUME NEW x, Flat(x), HasData(x), NEW z, z = RestoreCrc(x)
    PROVE  Works(x, z) /\ SameNumbers(x, z)
<1>1. Flat(z) /\ SameMode(x, z) /\ SameTree(x, z) /\ z.st = x.st /\ SameNumbers(x, z)
  BY DEF RestoreCrc, Flat, Fields, SameMode, Kept, SameTree, SameNumbers
<1> QED
  BY <1>1, TreeWorks

LEMMA RunOfDataType ==
    ASSUME NEW c \in Seq(RawWord), NEW lo \in Nat PROVE RunOfData(c, lo) \in Nat
<1>1. Len(c) \in Nat
  OBVIOUS
<1>2. IsFiniteSet(lo..Len(c))
  BY <1>1, FS_Interval
<1>3. IsFiniteSet({k \in lo..Len(c) : \A j \in lo..k : c[j].cls = "DATA"})
  BY <1>2, FS_Subset
<1> QED
  BY <1>3, FS_CardinalityType DEF RunOfData

LEMMA Trans08BasicLive ==
    ASSUME NEW x, Live(x), x.st = 5, x.evformat = FMT_BASIC,
           NEW c \in Seq(RawWord), x.i \in 1..Len(c)
    PROVE  LeadsTo(x, trans08_basic(x, c)) /\ Within(x, trans08_basic(x, c))
<1> DEFINE w == c[x.i]
           type == d(x).type
           u == update(x, c)
           m1 == [u EXCEPT !.st = 5]
           m2 == RestoreCrc(m1)
           m3 == IF type = "ADC" THEN SineCosine(m2, c) ELSE m2
           n == IF WithEnergy(type) THEN RunOfData(c, x.i) ELSE x.rd_wflen
           z == trans08_basic(x, c)
           e == Last(d(m1).energy)
           f == Last(d(m1).waveform)
           e1 == SetEn(m1, [e EXCEPT !.value[1] = Append(@, w.v)])
           e2 == SetEn(m1, [e EXCEPT !.value = Append(@, <<w.v>>)])
           e3 == SetEn(m1, [e EXCEPT !.value[2] = Append(@, w.v)])
           p1 == SetWf(m1, [f EXCEPT !.pretrig = w.v])
<1>0. Flat(x) /\ HasData(x) /\ HasParts(x)
  BY DEF Live
<1>1. Updated(x, u)
  BY <1>0, Update
<1>2. \/ z = [e1 EXCEPT !.energy1_done = TRUE]
      \/ z = e2
      \/ z = [e3 EXCEPT !.energy2_done = TRUE]
      \/ z = [p1 EXCEPT !.pretrig_done = TRUE]
      \/ z = [m1 EXCEPT !.rd_wflen = w.v, !.wflen_done = TRUE]
      \/ z = GatherSamples(m3, c, m3.i, n)
  <2> DEFINE c1 == WithEnergy(type) /\ ~x.energy1_done
             c2 == type = "Q3" /\ x.energy1_done /\ ~x.energy2_done
             c3 == /\ WithEnergy(type) /\ x.energy1_done /\ (type = "Q3" => x.energy2_done)
                   /\ ~x.pretrig_done
             z1 == [OnEn(m1, LAMBDA a : [a EXCEPT !.value[1] = Append(@, w.v)])
                      EXCEPT !.energy1_done = TRUE]
             z2 == OnEn(m1, LAMBDA a : [a EXCEPT !.value = Append(@, <<w.v>>)])
             z3 == [OnEn(m1, LAMBDA a : [a EXCEPT !.value[2] = Append(@, w.v)])
                      EXCEPT !.energy2_done = TRUE]
             z4 == [OnWf(m1, LAMBDA a : [a EXCEPT !.pretrig = w.v]) EXCEPT !.pretrig_done = TRUE]
             z5 == [m1 EXCEPT !.rd_wflen = w.v, !.wflen_done = TRUE]
             z6 == GatherSamples(m3, c, m3.i, n)
  <2>1. z = CASE c1 -> z1
              [] c2 -> IF Len(en(x).value) = 1 THEN z2 ELSE z3
              [] c3 -> z4
              [] OTHER -> IF ~x.wflen_done THEN z5 ELSE z6
    BY DEF trans08_basic
  <2>2. z1 = [e1 EXCEPT !.energy1_done = TRUE] /\ z2 = e2
    BY DEF OnEn, OnData, OnHit, OnFee, OnBlk, OnLast, SetEn, SetData, SetHit, SetFee, SetBlk,
           Put, d, hit, fee, blk, Last
  <2>3. z3 = [e3 EXCEPT !.energy2_done = TRUE]
    BY DEF OnEn, OnData, OnHit, OnFee, OnBlk, OnLast, SetEn, SetData, SetHit, SetFee, SetBlk,
           Put, d, hit, fee, blk, Last
  <2>4. z4 = [p1 EXCEPT !.pretrig_done = TRUE]
    BY DEF OnWf, OnData, OnHit, OnFee, OnBlk, OnLast, SetWf, SetData, SetHit, SetFee, SetBlk,
           Put, d, hit, fee, blk, Last
  <2> HIDE DEF z, c1, c2, c3, z1, z2, z3, z4, z5, z6, e1, e2, e3, p1
  <2>5. z \in {z1, z2, z3, z4, z5, z6}
    BY <2>1
  <2> QED
    BY <2>2, <2>3, <2>4, <2>5 DEF z5, z6
<1>3. w.v \in Nat /\ x.i \in Nat /\ x.i > 0
  <2>1. w \in RawWord
    OBVIOUS
  <2> QED
    BY <2>1 DEF RawWord
<1>4. n \in Nat
  BY <1>0, <1>3, RunOfDataType DEF Flat
<1> HIDE DEF n, w, type, u, z
<1>5. Flat(m1) /\ SameMode(u, m1) /\ SameTree(u, m1) /\ m1.st = 5 /\ SameNumbers(u, m1)
  BY <1>1 DEF Updated, Flat, Fields, SameMode, Kept, SameTree, SameNumbers
<1> HIDE DEF m1
<1>6. Works(x, m1)
  <2>1. SameMode(x, m1) /\ SameTree(x, m1)
    BY <1>1, <1>5 DEF Updated, SameMode, Kept, SameTree
  <2> QED
    BY <1>0, <1>5, <2>1, TreeWorks
<1>7. Flat(m1) /\ HasData(m1) /\ m1.i = x.i /\ m1.blklen > 0 /\ m1.feelen > 0
  BY <1>0, <1>1, <1>5, <1>6 DEF Works, Updated, SameNumbers, Flat
<1>8. ASSUME NEW y, Works(m1, y), NEW g \in {"energy1_done", "energy2_done", "pretrig_done"},
             z = [y EXCEPT ![g] = TRUE]
      PROVE  Works(m1, z)
  <2>1. Flat(z) /\ SameMode(y, z) /\ SameTree(y, z) /\ z.st = y.st
    BY <1>8 DEF Works, Flat, Fields, SameMode, Kept, SameTree
  <2>2. Works(y, z)
    BY <1>8, <2>1, TreeWorks DEF Works
  <2> QED
    BY <1>8, <2>2, WorksOn
<1>9. Works(m1, e1) /\ Works(m1, e2) /\ Works(m1, e3) /\ Works(m1, p1)
  BY <1>7, SetEnWorks, SetWfWorks
<1> HIDE DEF e1, e2, e3, p1
<1>10. ASSUME z = [e1 EXCEPT !.energy1_done = TRUE] PROVE Works(m1, z)
  BY <1>8, <1>9, <1>10
<1>11. ASSUME z = e2 PROVE Works(m1, z)
  BY <1>9, <1>11
<1>12. ASSUME z = [e3 EXCEPT !.energy2_done = TRUE] PROVE Works(m1, z)
  BY <1>8, <1>9, <1>12
<1>13. ASSUME z = [p1 EXCEPT !.pretrig_done = TRUE] PROVE Works(m1, z)
  BY <1>8, <1>9, <1>13
<1>14. ASSUME z = [m1 EXCEPT !.rd_wflen = w.v, !.wflen_done = TRUE] PROVE Works(m1, z)
  <2>1. Flat(z) /\ SameMode(m1, z) /\ SameTree(m1, z) /\ z.st = m1.st
    BY <1>3, <1>7, <1>14 DEF Flat, Fields, SameMode, Kept, SameTree
  <2> QED
    BY <1>7, <2>1, TreeWorks
<1>15. ASSUME z = GatherSamples(m3, c, m3.i, n) PROVE Works(m1, z)
  <2>1. Works(m1, m2) /\ SameNumbers(m1, m2)
    BY <1>7, RestoreWorks
  <2>2. Flat(m2) /\ HasData(m2) /\ m2.i = x.i /\ m2.blklen > 0 /\ m2.feelen > 0
    BY <1>7, <2>1 DEF Works, SameNumbers
  <2> HIDE DEF m2
  <2>3. Works(m2, m3) /\ m3.i \in Nat /\ m3.i > 0 /\ m3.blklen > 0 /\ m3.feelen > 0
    <3>1. CASE m3 = SineCosine(m2, c)
      <4> HIDE DEF m3
      <4>1. Works(m2, m3) /\ m3.i = m2.i + 6 /\ m3.blklen = m2.blklen + 6 /\ m3.feelen = m2.feelen + 6
        BY <2>2, <3>1, SineCosineWorks
      <4> QED
        BY <1>3, <2>2, <4>1 DEF Flat
    <3>2. CASE m3 = m2
      <4> HIDE DEF m3
      <4>1. Works(m2, m2)
        BY <2>2, TreeWorks DEF SameMode, Kept, SameTree
      <4> QED
        BY <1>3, <2>2, <3>2, <4>1
    <3> QED
      BY <3>1, <3>2
  <2> HIDE DEF m3
  <2>4. Works(m3, z)
    BY <1>4, <1>15, <2>3, GatherSamplesWorks DEF Works
  <2> QED
    BY <2>1, <2>3, <2>4, WorksOn
<1>16. Works(m1, z)
  BY <1>2, <1>10, <1>11, <1>12, <1>13, <1>14, <1>15
<1>17. Works(x, z) /\ z.st = 5
  BY <1>5, <1>6, <1>16, WorksOn DEF Works
<1>18. LeadsTo(x, z) /\ Within(x, z)
  BY <1>0, <1>17, WorksBasic DEF Works, SameMode, Within
<1> QED
  BY <1>18 DEF z

-----------------------------------------------------------------------------
(* Data words, tag format.                                                 *)

LEMMA FirstIsSeq ==
    ASSUME NEW s, IsSeq(s), s # <<>>, NEW x
    PROVE  IsSeq([s EXCEPT ![1] = x]) /\ [s EXCEPT ![1] = x] # <<>>
<1>1. PICK S : s \in Seq(S)
  BY DEF IsSeq
<1>2. PICK T : s \in Seq(T) /\ x \in T
  <2>1. s \in Seq(S \cup {x}) /\ x \in S \cup {x}
    BY <1>1
  <2> QED
    BY <2>1
<1>3. Len(s) \in Nat /\ 1 \in 1..Len(s)
  BY <1>2, EmptySeq
<1> DEFINE t == [s EXCEPT ![1] = x]
<1>4. t \in Seq(T) /\ Len(t) = Len(s)
  BY <1>2, <1>3, ExceptSeq
<1>5. t # <<>>
  BY <1>3, <1>4, EmptySeq
<1> QED
  BY <1>4, <1>5 DEF IsSeq

\* Behind a data word of the tag format.
LEMMA TagLive ==
    ASSUME NEW x, Flat(x), HasData(x), x.evformat = FMT_TAG, NEW y, Kept(x, y),
           Flat(y), y.st = 5, HasData(y), y.tag_done => TagParts(d(y), y.tag)
    PROVE  LeadsTo(x, y)
<1>1. HasParts(y)
  BY DEF HasParts, Kept, FMT_BASIC, FMT_TAG
<1> QED
  BY <1>1 DEF LeadsTo, Live, HasData, HasHit, HasFee, HasBlk

\* A tag allocates the submessage that its values go to.
LEMMA StoreTagLive ==
    ASSUME NEW x, Flat(x), HasData(x), x.st = 5, x.evformat = FMT_TAG, NEW v,
           NEW z, z = StoreTag(x, v)
    PROVE  LeadsTo(x, z) /\ Within(x, z)
<1> DEFINE y == [x EXCEPT !.tag = v, !.tag_done = (v # TAG_VOID)]
           t1 == IF d(y).waveform = <<>> THEN [d(y) EXCEPT !.waveform = <<NewWf>>] ELSE d(y)
           t2 == IF d(y).energy = <<>> THEN [d(y) EXCEPT !.energy = <<NewEn(FALSE)>>]
                 ELSE [d(y) EXCEPT !.energy[1].len_error = FALSE]
<1>1. z = IF v \in {TAG_PRETRIGGER, TAG_WAVEFORM} THEN SetData(y, t1)
          ELSE IF v \in {TAG_SLOW, TAG_FAST} THEN SetData(y, t2) ELSE y
  <2> DEFINE z1 == OnData(y, LAMBDA a : IF a.waveform = <<>> THEN [a EXCEPT !.waveform = <<NewWf>>]
                                        ELSE a)
             z2 == OnData(y, LAMBDA a : IF a.energy = <<>> THEN [a EXCEPT !.energy = <<NewEn(FALSE)>>]
                                        ELSE [a EXCEPT !.energy[1].len_error = FALSE])
  <2>1. z = CASE v \in {TAG_PRETRIGGER, TAG_WAVEFORM} -> z1
              [] v \in {TAG_SLOW, TAG_FAST} -> z2
              [] OTHER -> y
    BY DEF StoreTag
  <2>2. z1 = SetData(y, t1)
    BY DEF OnData, OnHit, OnFee, OnBlk, OnLast, SetData, SetHit, SetFee, SetBlk, Put,
           d, hit, fee, blk, Last
  <2>3. z2 = SetData(y, t2)
    BY DEF OnData, OnHit, OnFee, OnBlk, OnLast, SetData, SetHit, SetFee, SetBlk, Put,
           d, hit, fee, blk, Last
  <2>4. {TAG_PRETRIGGER, TAG_WAVEFORM} \cap {TAG_SLOW, TAG_FAST} = {}
    BY DEF TAG_PRETRIGGER, TAG_WAVEFORM, TAG_SLOW, TAG_FAST
  <2> HIDE DEF z1, z2, t1, t2, y
  <2> QED
    BY <2>1, <2>2, <2>3, <2>4
<1>2. /\ Flat(y) /\ Kept(x, y) /\ SameTree(x, y) /\ y.st = 5 /\ y.tag = v
      /\ y.err_in_event = x.err_in_event
  BY DEF Flat, Fields, Kept, SameTree
<1> HIDE DEF y
<1>3. HasData(y)
  BY <1>2, TreeIsEv
<1>4. ASSUME NEW t, DataOk(t), TagParts(t, v), z = SetData(y, t)
      PROVE  LeadsTo(x, z) /\ Within(x, z)
  <2>1. SameButEv(y, z) /\ HasData(z) /\ d(z) = t
    BY <1>2, <1>3, <1>4, SetDataLive
  <2>2. Flat(z) /\ SameMode(y, z) /\ z.st = 5
    BY <1>2, <2>1, ButEv
  <2>3. Kept(x, z) /\ z.tag = v
    BY <1>2, <2>2 DEF SameMode, Kept
  <2>4. Within(x, z)
    BY <1>2, <1>3, <1>4, <2>2, SetDataMarks, TreeIsMarks DEF Within, SameMode
  <2> QED
    BY <1>4, <2>1, <2>2, <2>3, <2>4, TagLive
<1>5. CASE v \in {TAG_PRETRIGGER, TAG_WAVEFORM}
  <2>1. DataOk(t1) /\ t1.waveform # <<>>
    <3>1. CASE d(y).waveform = <<>>
      <4>1. DOMAIN t1 = DOMAIN d(y) /\ t1.waveform = <<NewWf>> /\ t1.energy = d(y).energy
        BY <1>3, <3>1 DEF HasData, DataOk
      <4> QED
        BY <1>3, <4>1, OneIsSeq DEF HasData, DataOk
    <3>2. CASE d(y).waveform # <<>>
      BY <1>3, <3>2 DEF HasData
    <3> QED
      BY <3>1, <3>2
  <2>2. TagParts(t1, v)
    BY <1>5, <2>1 DEF TagParts, TAG_PRETRIGGER, TAG_WAVEFORM, TAG_SLOW, TAG_FAST
  <2> QED
    BY <1>1, <1>4, <1>5, <2>1, <2>2
<1>6. CASE v \in {TAG_SLOW, TAG_FAST}
  <2>1. DataOk(t2) /\ t2.energy # <<>>
    <3>1. CASE d(y).energy = <<>>
      <4>1. DOMAIN t2 = DOMAIN d(y) /\ t2.energy = <<NewEn(FALSE)>> /\ t2.waveform = d(y).waveform
        BY <1>3, <3>1 DEF HasData, DataOk
      <4> QED
        BY <1>3, <4>1, OneIsSeq DEF HasData, DataOk
    <3>2. CASE d(y).energy # <<>>
      <4> DEFINE e == [d(y).energy[1] EXCEPT !.len_error = FALSE]
      <4>1. /\ DOMAIN t2 = DOMAIN d(y) /\ t2.waveform = d(y).waveform
            /\ t2.energy = [d(y).energy EXCEPT ![1] = e]
        BY <1>3, <3>2 DEF HasData, DataOk
      <4> HIDE DEF e
      <4>2. IsSeq(t2.energy) /\ t2.energy # <<>>
        BY <1>3, <3>2, <4>1, FirstIsSeq DEF HasData, DataOk
      <4> QED
        BY <1>3, <4>1, <4>2 DEF HasData, DataOk
    <3> QED
      BY <3>1, <3>2
  <2>2. TagParts(t2, v) /\ v \notin {TAG_PRETRIGGER, TAG_WAVEFORM}
    BY <1>6, <2>1 DEF TagParts, TAG_PRETRIGGER, TAG_WAVEFORM, TAG_SLOW, TAG_FAST
  <2> QED
    BY <1>1, <1>4, <1>6, <2>1, <2>2
<1>7. CASE v \notin {TAG_PRETRIGGER, TAG_WAVEFORM, TAG_SLOW, TAG_FAST}
  <2>1. z = y /\ TagParts(d(y), v)
    BY <1>1, <1>7 DEF TagParts
  <2>2. Within(x, z)
    BY <1>2, <2>1, TreeIsMarks DEF Within
  <2> QED
    BY <1>2, <1>3, <2>1, <2>2, TagLive
<1> QED
  BY <1>5, <1>6, <1>7

LEMMA Trans07TagLive ==
    ASSUME NEW x, Live(x), x.st = 4, x.evformat = FMT_TAG, NEW c
    PROVE  LeadsTo(x, trans07_tag(x, c)) /\ Within(x, trans07_tag(x, c))
<1> DEFINE u == update(x, c)
           y == [u EXCEPT !.tag_done = FALSE, !.wflen_done = FALSE, !.rd_wflen = 0, !.st = 5]
<1>0. Flat(x) /\ HasData(x)
  BY DEF Live
<1>1. Updated(x, u)
  BY <1>0, Update
<1> HIDE DEF u
<1>2. /\ Flat(y) /\ Kept(u, y) /\ SameTree(u, y) /\ y.st = 5
      /\ y.err_in_event = u.err_in_event
  BY <1>1 DEF Updated, Flat, Fields, Kept, SameTree
<1>3. SameTree(x, y) /\ Kept(x, y) /\ (x.err_in_event => y.err_in_event)
  BY <1>1, <1>2 DEF Updated, SameMode, Kept, SameTree
<1>4. trans07_tag(x, c) = StoreTag(y, c[x.i].v)
  BY DEF trans07_tag, u
<1> HIDE DEF y
<1>5. HasData(y) /\ y.evformat = FMT_TAG
  BY <1>0, <1>3, TreeIsEv DEF Kept
<1>6. LeadsTo(y, trans07_tag(x, c)) /\ Within(y, trans07_tag(x, c))
  BY <1>2, <1>4, <1>5, StoreTagLive
<1> QED
  BY <1>2, <1>3, <1>6, TreeIsMarks DEF LeadsTo, Kept, Within

\* next_event_word(), n times, for the data at hand.
LEMMA NextWordWorks ==
    ASSUME NEW x, Flat(x), HasData(x), NEW c, NEW n \in Nat, NEW y, y = next_event_word(x, c, n)
    PROVE  /\ Works(x, y) /\ y.i = x.i + n /\ y.rd_wflen = x.rd_wflen
           /\ y.blklen = x.blklen + n /\ y.feelen = x.feelen + n
  BY NextWord, TreeWorks

LEMMA EnergyWorks ==
    ASSUME NEW x, Flat(x), HasData(x), NEW c, NEW k, NEW z, z = Energy(x, c, k)
    PROVE  Works(x, z)
<1> DEFINE y == next_event_word(x, c, 2)
           low == <<Word(c, x.i + 2).v, c[x.i].v>>
           Set(vs) == IF k \in DOMAIN vs THEN [vs EXCEPT ![k] = @ \o low] ELSE vs
           b == <<Word(c, x.i + 1).v>>
           e2 == [Last(d(y).energy) EXCEPT !.value = Set(Append(@, b))]
<1>1. Works(x, y)
  BY NextWordWorks
<1>2. z = SetEn(y, e2)
  <2>1. z = OnEn(y, LAMBDA a : [a EXCEPT !.value = Set(Append(@, b))])
    BY DEF Energy
  <2> HIDE DEF y, b, Set
  <2> QED
    BY <2>1 DEF OnEn, OnData, OnHit, OnFee, OnBlk, OnLast, SetEn, SetData, SetHit, SetFee,
           SetBlk, Put, d, hit, fee, blk, Last
<1> HIDE DEF y, e2
<1>3. Works(y, z)
  BY <1>1, <1>2, SetEnWorks DEF Works
<1> QED
  BY <1>1, <1>3, WorksOn

LEMMA WaveformWorks ==
    ASSUME NEW x, Flat(x), HasData(x), x.i > 0, x.blklen > 0, x.feelen > 0, NEW c,
           NEW z, z = Waveform(x, c)
    PROVE  Works(x, z)
<1> DEFINE n == x.rd_wflen
           m1 == next_event_word(x, c, n)
           m2 == IF n = 0 THEN m1 ELSE
                 [m1 EXCEPT !.save_blkcrc = Xor(x.blkcrc, c, x.i + 1, x.i + n - 1),
                            !.save_feecrc = Xor(x.feecrc, c, x.i + 1, x.i + n - 1)]
           m3 == [m2 EXCEPT !.i = @ - 1, !.blklen = @ - 1, !.feelen = @ - 1]
           m4 == RestoreCrc(m3)
           w == [Last(d(m4).waveform) EXCEPT !.sample = @ \o [k \in 1..n |-> Word(c, x.i + k - 1).v]]
<1>1. z = SetWf(m4, w)
  <2>1. z = OnWf(m4, LAMBDA a : [a EXCEPT !.sample = @ \o [k \in 1..n |-> Word(c, x.i + k - 1).v]])
    BY DEF Waveform
  <2> HIDE DEF m4
  <2> QED
    BY <2>1 DEF OnWf, OnData, OnHit, OnFee, OnBlk, OnLast, SetWf, SetData, SetHit, SetFee,
           SetBlk, Put, d, hit, fee, blk, Last
<1> HIDE DEF w
<1>2. /\ Works(x, m1) /\ m1.i = x.i + n
      /\ m1.blklen = x.blklen + n /\ m1.feelen = x.feelen + n /\ n \in Nat
  <2>1. n \in Nat
    BY DEF Flat
  <2> QED
    BY <2>1, NextWordWorks
<1> HIDE DEF n, m1
<1>3. Flat(m2) /\ SameMode(m1, m2) /\ SameTree(m1, m2) /\ m2.st = m1.st /\ SameNumbers(m1, m2)
  BY <1>2 DEF Works, Flat, Fields, SameMode, Kept, SameTree, SameNumbers
<1> HIDE DEF m2
<1>4. m2.i - 1 \in Nat /\ m2.blklen - 1 \in Nat /\ m2.feelen - 1 \in Nat
  BY <1>2, <1>3 DEF Flat, SameNumbers
<1>5. Flat(m3) /\ SameMode(m2, m3) /\ SameTree(m2, m3) /\ m3.st = m2.st
  BY <1>3, <1>4 DEF Flat, Fields, SameMode, Kept, SameTree
<1> HIDE DEF m3
<1>6. Works(m1, m3)
  <2>1. SameMode(m1, m3) /\ SameTree(m1, m3) /\ m3.st = m1.st /\ HasData(m1)
    BY <1>2, <1>3, <1>5 DEF Works, SameMode, Kept, SameTree
  <2> QED
    BY <1>5, <2>1, TreeWorks
<1>7. Works(m3, m4)
  BY <1>6, RestoreWorks DEF Works
<1> HIDE DEF m4
<1>8. Works(m4, z)
  BY <1>1, <1>7, SetWfWorks DEF Works
<1> QED
  BY <1>2, <1>6, <1>7, <1>8, WorksOn

LEMMA TrigInfoWorks ==
    ASSUME NEW x, Flat(x), HasData(x), NEW c, NEW e, NEW n \in Nat, n > 0,
           NEW z, z = TrigInfo(x, c, e, n)
    PROVE  Works(x, z)
<1> DEFINE y == next_event_word(x, c, n - 1)
<1>1. n - 1 \in Nat
  OBVIOUS
<1>2. Works(x, y)
  BY <1>1, NextWordWorks
<1>3. z = [y EXCEPT !.ev.trinfo = @ \o e]
  BY DEF TrigInfo
<1> HIDE DEF y
<1>4. Flat(z) /\ SameMode(y, z) /\ SameTree(y, z) /\ z.st = y.st
  BY <1>2, <1>3 DEF Works, Flat, Fields, SameMode, Kept, SameTree, HasData, HasHit, HasFee, HasBlk, HasEv
<1>5. Works(y, z)
  BY <1>2, <1>4, TreeWorks DEF Works
<1> QED
  BY <1>2, <1>5, WorksOn

LEMMA TagValuesWorks ==
    ASSUME NEW x, Flat(x), HasData(x), x.i > 0, x.blklen > 0, x.feelen > 0, NEW c,
           NEW z, z = TagValues(x, c)
    PROVE  Works(x, z)
<1> DEFINE w(k) == Word(c, x.i + k).v
           y == next_event_word(x, c, 1)
           z1 == OnWf(x, LAMBDA f : [f EXCEPT !.pretrig = w(0)])
           z2 == OnData(y, LAMBDA a : [a EXCEPT !.baseline = <<w(0), w(1)>>])
           f1 == [Last(d(x).waveform) EXCEPT !.pretrig = w(0)]
           t2 == [d(y) EXCEPT !.baseline = <<w(0), w(1)>>]
<1>1. z1 = SetWf(x, f1)
  <2> HIDE DEF w
  <2> QED
    BY DEF OnWf, OnData, OnHit, OnFee, OnBlk, OnLast, SetWf, SetData, SetHit, SetFee,
           SetBlk, Put, d, hit, fee, blk, Last
<1>2. z2 = SetData(y, t2)
  <2> HIDE DEF w, y
  <2> QED
    BY DEF OnData, OnHit, OnFee, OnBlk, OnLast, SetData, SetHit, SetFee,
           SetBlk, Put, d, hit, fee, blk, Last
<1>3. Works(x, z1)
  <2> HIDE DEF f1, z1
  <2> QED
    BY <1>1, SetWfWorks
<1>4. Works(x, z2)
  <2>1. Works(x, y)
    BY NextWordWorks
  <2> HIDE DEF y, w
  <2>2. Refits(d(y), t2)
    BY <2>1 DEF Works, Refits, HasData, DataOk
  <2> HIDE DEF t2, z2
  <2>3. Works(y, z2)
    BY <1>2, <2>1, <2>2, SetDataWorks DEF Works
  <2> QED
    BY <2>1, <2>3, WorksOn
<1>5. Works(x, x)
  BY TreeWorks DEF SameMode, Kept, SameTree
<1>6. x.rd_wflen \in Nat
  BY DEF Flat
<1> DEFINE e1 == [k \in 1..x.rd_wflen |-> <<256 + k - 1, w(k - 1)>>]
           e2 == <<<<268, w(0), w(1)>>>>
           e3 == <<<<269, w(0), w(1), hit(x).gttag>>>>
           e4 == <<<<270, w(0), w(1), hit(x).ec>>>>
           e5 == <<<<271, w(0)>>>>
           e6 == <<<<272, w(0)>>>>
           e7 == <<<<512, w(0)>>, <<513, w(1), w(2)>>, <<514, w(3), w(4)>>, <<515, w(5), w(6)>>>>
<1>7. z = CASE x.tag = TAG_PRETRIGGER -> z1
            [] x.tag = TAG_WAVEFORM -> Waveform(x, c)
            [] x.tag = TAG_SLOW -> Energy(x, c, 1)
            [] x.tag = TAG_FAST -> Energy(x, c, 2)
            [] x.tag = TAG_BASELINE -> z2
            [] x.tag = TAG_RB_COUNTERS -> IF x.rd_wflen = 0 THEN x ELSE TrigInfo(x, c, e1, x.rd_wflen)
            [] x.tag = TAG_RB_TIME -> TrigInfo(x, c, e2, 2)
            [] x.tag = TAG_RB_GTTAG -> TrigInfo(x, c, e3, 2)
            [] x.tag = TAG_RB_EC -> TrigInfo(x, c, e4, 2)
            [] x.tag = TAG_RB_TRIGPAT -> TrigInfo(x, c, e5, 1)
            [] x.tag = TAG_RB_TEMP -> TrigInfo(x, c, e6, 1)
            [] x.tag = TAG_RB_CENTRUM -> TrigInfo(x, c, e7, 7)
            [] OTHER -> x
  BY DEF TagValues
<1> HIDE DEF w, z1, z2, e1, e2, e3, e4, e5, e6, e7
<1>8. \/ z \in {x, z1, z2, Waveform(x, c), Energy(x, c, 1), Energy(x, c, 2)}
      \/ x.rd_wflen # 0 /\ z = TrigInfo(x, c, e1, x.rd_wflen)
      \/ z \in {TrigInfo(x, c, e2, 2), TrigInfo(x, c, e3, 2), TrigInfo(x, c, e4, 2)}
      \/ z \in {TrigInfo(x, c, e5, 1), TrigInfo(x, c, e6, 1), TrigInfo(x, c, e7, 7)}
  BY <1>7
<1>9. Works(x, Waveform(x, c)) /\ Works(x, Energy(x, c, 1)) /\ Works(x, Energy(x, c, 2))
  BY WaveformWorks, EnergyWorks
<1>10. ASSUME NEW e, NEW n \in Nat, n # 0 PROVE Works(x, TrigInfo(x, c, e, n))
  BY <1>10, TrigInfoWorks
<1>11. /\ Works(x, TrigInfo(x, c, e2, 2)) /\ Works(x, TrigInfo(x, c, e3, 2))
       /\ Works(x, TrigInfo(x, c, e4, 2)) /\ Works(x, TrigInfo(x, c, e5, 1))
       /\ Works(x, TrigInfo(x, c, e6, 1)) /\ Works(x, TrigInfo(x, c, e7, 7))
  BY <1>10
<1> QED
  BY <1>3, <1>4, <1>5, <1>6, <1>8, <1>9, <1>10, <1>11

\* Behind the values the next word is a tag.
LEMMA EndTagLive ==
    ASSUME NEW x, Flat(x), HasData(x), x.st = 5, x.evformat = FMT_TAG, NEW z, z = EndTag(x)
    PROVE  LeadsTo(x, z) /\ Within(x, z)
<1> DEFINE ok == x.tag = TAG_WAVEFORM => x.rd_wflen = Len(wf(x).sample)
           f == [Last(d(x).waveform) EXCEPT !.len_error = ~ok]
           y == IF x.tag # TAG_WAVEFORM THEN x ELSE SetWf(x, f)
<1>1. z = [y EXCEPT !.err_in_event = @ \/ ~ok, !.tag_done = FALSE, !.wflen_done = FALSE,
                    !.rd_wflen = 0]
  <2> DEFINE v == OnWf(x, LAMBDA a : [a EXCEPT !.len_error = ~ok])
  <2>1. z = [IF x.tag # TAG_WAVEFORM THEN x ELSE v
               EXCEPT !.err_in_event = @ \/ ~ok, !.tag_done = FALSE, !.wflen_done = FALSE,
                    !.rd_wflen = 0]
    BY DEF EndTag
  <2> HIDE DEF ok
  <2>2. v = SetWf(x, f)
    BY DEF OnWf, OnData, OnHit, OnFee, OnBlk, OnLast, SetWf, SetData, SetHit, SetFee,
           SetBlk, Put, d, hit, fee, blk, Last
  <2> HIDE DEF v
  <2> QED
    BY <2>1, <2>2
<1> HIDE DEF ok, f
<1>2. Works(x, y)
  BY SetWfWorks, TreeWorks DEF SameMode, Kept, SameTree
<1> HIDE DEF y
<1>3. Flat(z) /\ Kept(y, z) /\ SameTree(y, z) /\ z.st = y.st /\ z.tag_done = FALSE
  BY <1>1, <1>2 DEF Works, Flat, Fields, Kept, SameTree
<1>6. y.err_in_event => z.err_in_event
  <2>1. z.err_in_event = (y.err_in_event \/ ~ok)
    BY <1>1, <1>2 DEF Works, Flat, Fields
  <2> QED
    BY <2>1
<1>4. HasData(z) /\ Kept(x, z) /\ z.st = 5
  BY <1>2, <1>3, TreeIsEv DEF Works, SameMode, Kept
<1>5. Within(x, z)
  BY <1>2, <1>3, <1>4, <1>6, TreeIsMarks DEF Works, SameMode, Within
<1> QED
  BY <1>3, <1>4, <1>5, TagLive

LEMMA Trans08TagLive ==
    ASSUME NEW x, Live(x), x.st = 5, x.evformat = FMT_TAG,
           NEW c \in Seq(RawWord), x.i \in 1..Len(c)
    PROVE  LeadsTo(x, trans08_tag(x, c)) /\ Within(x, trans08_tag(x, c))
<1> DEFINE w == c[x.i]
           u == update(x, c)
           y == [u EXCEPT !.st = 5]
           z == trans08_tag(x, c)
           z2 == [y EXCEPT !.rd_wflen = w.v, !.wflen_done = TRUE]
<1>0. Flat(x) /\ HasData(x) /\ HasParts(x)
  BY DEF Live
<1>1. Updated(x, u)
  BY <1>0, Update
<1>2. /\ \/ ~x.tag_done /\ z = StoreTag(y, w.v)
         \/ x.tag_done /\ z = z2
         \/ z = EndTag(TagValues(y, c))
      /\ w.v \in Nat
  <2>1. w.v \in Nat
    <3>1. w \in RawWord
      OBVIOUS
    <3> QED
      BY <3>1 DEF RawWord
  <2>2. z = CASE ~x.tag_done                  -> StoreTag(y, w.v)
              [] x.tag_done /\ ~x.wflen_done  -> z2
              [] x.tag_done /\ x.wflen_done   -> EndTag(TagValues(y, c))
    BY DEF trans08_tag
  <2> HIDE DEF z, y, z2
  <2> QED
    BY <2>1, <2>2
<1> HIDE DEF u, w, z
<1>3. Flat(y) /\ SameMode(u, y) /\ SameTree(u, y) /\ y.st = 5 /\ SameNumbers(u, y)
  BY <1>1 DEF Updated, Flat, Fields, SameMode, Kept, SameTree, SameNumbers
<1> HIDE DEF y
<1>4. SameMode(x, y) /\ SameTree(x, y) /\ y.i > 0 /\ y.blklen > 0 /\ y.feelen > 0
  BY <1>0, <1>1, <1>3 DEF Updated, SameMode, Kept, SameTree, SameNumbers, Flat
<1>5. HasData(y) /\ d(y) = d(x) /\ y.evformat = FMT_TAG /\ Kept(x, y)
  BY <1>0, <1>4, TreeIsEv DEF SameMode, Kept
<1>6. ASSUME ~x.tag_done, z = StoreTag(y, w.v) PROVE LeadsTo(y, z) /\ Within(y, z)
  BY <1>3, <1>5, <1>6, StoreTagLive
<1>7. ASSUME x.tag_done, z = z2 PROVE LeadsTo(y, z) /\ Within(y, z)
  <2>1. Flat(z) /\ SameMode(y, z) /\ SameTree(y, z) /\ z.st = 5
    BY <1>2, <1>3, <1>7 DEF Flat, Fields, SameMode, Kept, SameTree
  <2>2. HasData(z) /\ d(z) = d(y)
    BY <1>5, <2>1, TreeIsEv
  <2>3. TagParts(d(x), x.tag)
    BY <1>0, <1>4, <1>5, <1>7 DEF HasParts, SameMode, Kept
  <2>4. TagParts(d(z), z.tag)
    BY <1>4, <1>5, <2>1, <2>2, <2>3 DEF SameMode
  <2>5. Within(y, z)
    BY <2>1, TreeIsMarks DEF SameMode, Within
  <2> QED
    BY <1>3, <1>5, <2>1, <2>2, <2>4, <2>5, TagLive DEF SameMode
<1>8. ASSUME z = EndTag(TagValues(y, c)) PROVE LeadsTo(y, z) /\ Within(y, z)
  <2> DEFINE v == TagValues(y, c)
  <2>1. Works(y, v)
    BY <1>3, <1>4, <1>5, TagValuesWorks
  <2> HIDE DEF v
  <2>2. LeadsTo(v, z) /\ Within(v, z)
    BY <1>3, <1>5, <1>8, <2>1, EndTagLive DEF Works, SameMode, Kept, v
  <2> QED
    BY <2>1, <2>2 DEF LeadsTo, Works, SameMode, Kept, Within
<1>9. LeadsTo(y, z) /\ Within(y, z)
  BY <1>2, <1>6, <1>7, <1>8
<1>10. Within(x, z)
  BY <1>3, <1>4, <1>9, TreeIsMarks DEF Within, SameMode
<1> QED
  BY <1>5, <1>9, <1>10 DEF z, LeadsTo, Kept

-----------------------------------------------------------------------------
(* The end of a data item.                                                 *)

LEMMA CheckDataWorks ==
    ASSUME NEW x, Flat(x), HasData(x), NEW z, z = CheckData(x)
    PROVE  Works(x, z)
<1> DEFINE wfok == x.rd_wflen = Len(wf(x).sample)
           want == IF d(x).type = "Q3" THEN 2 ELSE 1
           enok == WithEnergy(d(x).type) => Len(en(x).value) = want
           y == SetWf(x, [Last(d(x).waveform) EXCEPT !.len_error = ~wfok])
           e == SetEn(y, [Last(d(y).energy) EXCEPT !.len_error = ~enok])
           v == IF WithEnergy(d(x).type) THEN e ELSE y
<1>1. z = [v EXCEPT !.err_in_event = @ \/ ~wfok \/ ~enok]
  <2> DEFINE a1 == OnWf(x, LAMBDA a : [a EXCEPT !.len_error = ~wfok])
             a2 == OnEn(a1, LAMBDA a : [a EXCEPT !.len_error = ~enok])
  <2>1. z = [IF WithEnergy(d(x).type) THEN a2 ELSE a1
               EXCEPT !.err_in_event = @ \/ ~wfok \/ ~enok]
    BY DEF CheckData
  <2> HIDE DEF wfok, enok
  <2>2. a1 = y
    BY DEF OnWf, OnData, OnHit, OnFee, OnBlk, OnLast, SetWf, SetData, SetHit, SetFee,
           SetBlk, Put, d, hit, fee, blk, Last
  <2> HIDE DEF a1, y
  <2>3. a2 = OnEn(y, LAMBDA a : [a EXCEPT !.len_error = ~enok])
    BY <2>2
  <2>4. a2 = e
    BY <2>3 DEF OnEn, OnData, OnHit, OnFee, OnBlk, OnLast, SetEn, SetData, SetHit, SetFee,
           SetBlk, Put, d, hit, fee, blk, Last
  <2> HIDE DEF a2, e
  <2> QED
    BY <2>1, <2>2, <2>4
<1> HIDE DEF wfok, enok
<1>2. Works(x, y)
  BY SetWfWorks
<1> HIDE DEF y
<1>3. Works(y, e)
  BY <1>2, SetEnWorks DEF Works
<1> HIDE DEF e
<1>4. Works(x, v)
  BY <1>2, <1>3, WorksOn
<1> HIDE DEF v
<1>5. Flat(z) /\ SameMode(v, z) /\ SameTree(v, z) /\ z.st = v.st
  <2>1. Flat(v)
    BY <1>4 DEF Works
  <2>2. DOMAIN z = DOMAIN v /\ \A f \in Fields \ {"err_in_event"} : z[f] = v[f]
    BY <1>1, <2>1 DEF Flat
  <2>3. z.err_in_event = (v.err_in_event \/ ~wfok \/ ~enok)
    BY <1>1, <2>1 DEF Flat, Fields
  <2>4. /\ z.i = v.i /\ z.blklen = v.blklen /\ z.feelen = v.feelen
        /\ z.rd_wflen = v.rd_wflen /\ z.st = v.st /\ z.ev = v.ev
    BY <2>2 DEF Fields
  <2>5. /\ z.evformat = v.evformat /\ z.event_is_empty = v.event_is_empty
        /\ z.tag = v.tag /\ z.tag_done = v.tag_done
    BY <2>2 DEF Fields
  <2>6. Flat(z)
    BY <2>1, <2>2, <2>4 DEF Flat
  <2> QED
    BY <2>3, <2>4, <2>5, <2>6 DEF SameMode, Kept, SameTree
<1>6. Works(v, z)
  BY <1>4, <1>5, TreeWorks DEF Works
<1> QED
  BY <1>4, <1>6, WorksOn

LEMMA AddHitLive ==
    ASSUME NEW x, Flat(x), HasFee(x), NEW h, HitOk(h), NEW z, z = AddHit(x, h)
    PROVE  Flat(z) /\ SameMode(x, z) /\ HasHit(z) /\ Marks(z) = Marks(x) /\ z.st = x.st
<1> DEFINE f == [fee(x) EXCEPT !.hit = Append(@, h)]
<1>1. z = SetFee(x, f)
  BY DEF AddHit, OnFee, OnBlk, OnLast, SetFee, SetBlk, Put, fee, blk, Last
<1>2. FeeOk(f) /\ f.hit # <<>> /\ Last(f.hit) = h
  <2>1. DOMAIN f = DOMAIN fee(x) /\ f.hit = Append(fee(x).hit, h)
    BY DEF HasFee, FeeOk
  <2> QED
    BY <2>1, AppendIsSeq DEF HasFee, FeeOk
<1>5. FeeMark(f) = FeeMark(fee(x))
  BY DEF HasFee, FeeOk, FeeMark
<1> HIDE DEF f
<1>3. SameButEv(x, z) /\ HasFee(z) /\ fee(z) = f
  BY <1>1, <1>2, SetFeeLive
<1>4. HasHit(z)
  BY <1>2, <1>3 DEF HasHit, hit
<1>6. Marks(z) = Marks(x)
  BY <1>1, <1>5, SetFeeMarks
<1> QED
  BY <1>3, <1>4, <1>6, ButEv

\* One more hit, behind any work on the data of the last.
LEMMA OneMoreHit ==
    ASSUME NEW x, Live(x), x.st = 5, NEW c, NEW y, Works(update(x, c), y) \/ y = update(x, c),
           NEW h, HitOk(h), NEW z, z = AddHit(y, h)
    PROVE  Flat(z) /\ Kept(x, z) /\ HasHit(z) /\ Within(x, z)
<1> DEFINE u == update(x, c)
<1>1. Flat(x) /\ HasData(x)
  BY DEF Live
<1>2. Updated(x, u)
  BY <1>1, Update
<1> HIDE DEF u
<1>3. Flat(u) /\ HasData(u) /\ Kept(x, u) /\ Within(x, u)
  BY <1>1, <1>2, TreeIsEv, TreeIsMarks DEF Updated, SameMode, Within
<1>4. Flat(y) /\ HasFee(y) /\ Kept(x, y) /\ Within(x, y)
  BY <1>3 DEF Works, SameMode, Kept, HasData, HasHit, Within, u
<1>5. Flat(z) /\ SameMode(y, z) /\ HasHit(z) /\ Marks(z) = Marks(y) /\ z.st = y.st
  BY <1>4, AddHitLive
<1> QED
  BY <1>4, <1>5 DEF SameMode, Kept, Within

LEMMA CheckedUpdate ==
    ASSUME NEW x, Live(x), x.st = 5, NEW c
    PROVE  Works(update(x, c), CheckData(update(x, c)))
<1> DEFINE u == update(x, c)
<1>1. Flat(x) /\ HasData(x)
  BY DEF Live
<1>2. Flat(u) /\ HasData(u)
  BY <1>1, Update, TreeIsEv DEF Updated
<1> QED
  BY <1>2, CheckDataWorks

LEMMA Trans09BasicLive ==
    ASSUME NEW x, Live(x), x.st = 5, NEW c
    PROVE  LeadsTo(x, trans09_basic(x, c)) /\ Within(x, trans09_basic(x, c))
<1> DEFINE v == c[x.i].v
           h == [NewHit(x.ev.ec, FeeId(v), TelId(v)) EXCEPT
                   !.gttag = hit(x).gttag, !.dettag = hit(x).dettag]
           y == AddHit(CheckData(update(x, c)), h)
           z == trans09_basic(x, c)
<1>1. z = AddData(y, v, TRUE)
  BY DEF trans09_basic
<1>2. HitOk(h)
  BY EmptyIsSeq DEF NewHit, HitOk
<1> HIDE DEF h, v
<1>3. Flat(y) /\ Kept(x, y) /\ HasHit(y) /\ Within(x, y)
  BY <1>2, CheckedUpdate, OneMoreHit
<1> HIDE DEF y, z
<1>4. LeadsTo(y, z) /\ Within(y, z)
  BY <1>1, <1>3, AddDataLive
<1> QED
  BY <1>3, <1>4 DEF LeadsTo, Kept, Within, z

LEMMA Trans09TagLive ==
    ASSUME NEW x, Live(x), x.st = 5, NEW c
    PROVE  LeadsTo(x, trans09_tag(x, c)) /\ Within(x, trans09_tag(x, c))
<1> DEFINE v == c[x.i].v
           h == [NewHit(x.ev.ec, FeeId(v), TelId(v)) EXCEPT
                   !.gttag = hit(x).gttag, !.dettag = hit(x).dettag, !.trigpat = hit(x).trigpat]
           y == AddHit(update(x, c), h)
           z == trans09_tag(x, c)
<1>1. z = AddData(y, v, TRUE)
  BY DEF trans09_tag
<1>2. HitOk(h)
  BY EmptyIsSeq DEF NewHit, HitOk
<1> HIDE DEF h, v
<1>3. Flat(y) /\ Kept(x, y) /\ HasHit(y) /\ Within(x, y)
  BY <1>2, OneMoreHit
<1> HIDE DEF y, z
<1>4. LeadsTo(y, z) /\ Within(y, z)
  BY <1>1, <1>3, AddDataLive
<1> QED
  BY <1>3, <1>4 DEF LeadsTo, Kept, Within, z

LEMMA ToS2 ==
    ASSUME NEW x, NEW y, Flat(y), Kept(x, y), HasHit(y), Within(x, y),
           NEW z, z = [y EXCEPT !.st = 2]
    PROVE  LeadsTo(x, z) /\ Within(x, z)
<1>1. Flat(z) /\ SameMode(y, z) /\ SameTree(y, z) /\ z.st = 2
  BY DEF Flat, Fields, SameMode, Kept, SameTree
<1>2. HasHit(z)
  BY <1>1, TreeIsEv
<1>3. Within(x, z)
  BY <1>1, TreeIsMarks DEF Within, SameMode
<1> QED
  BY <1>1, <1>2, <1>3 DEF LeadsTo, Live, SameMode, Kept, HasHit, HasFee, HasBlk

LEMMA Trans10BasicLive ==
    ASSUME NEW x, Live(x), x.st = 5, NEW c
    PROVE  LeadsTo(x, trans10_basic(x, c)) /\ Within(x, trans10_basic(x, c))
<1> DEFINE h == NewHit(x.ev.ec, FeeId(c[x.i].v), TelId(c[x.i].v))
           y == AddHit(CheckData(update(x, c)), h)
<1>1. trans10_basic(x, c) = [y EXCEPT !.st = 2]
  BY DEF trans10_basic
<1>2. HitOk(h)
  BY NewHitOk
<1> HIDE DEF h
<1>3. Flat(y) /\ Kept(x, y) /\ HasHit(y) /\ Within(x, y)
  BY <1>2, CheckedUpdate, OneMoreHit
<1> HIDE DEF y
<1> QED
  BY <1>1, <1>3, ToS2

LEMMA Trans10TagLive ==
    ASSUME NEW x, Live(x), x.st = 5, NEW c
    PROVE  LeadsTo(x, trans10_tag(x, c)) /\ Within(x, trans10_tag(x, c))
<1> DEFINE h == NewHit(x.ev.ec, FeeId(c[x.i].v), TelId(c[x.i].v))
           y == AddHit(update(x, c), h)
<1>1. trans10_tag(x, c) = [y EXCEPT !.st = 2]
  BY DEF trans10_tag
<1>2. HitOk(h)
  BY NewHitOk
<1> HIDE DEF h
<1>3. Flat(y) /\ Kept(x, y) /\ HasHit(y) /\ Within(x, y)
  BY <1>2, OneMoreHit
<1> HIDE DEF y
<1> QED
  BY <1>1, <1>3, ToS2

LEMMA UpdateBlkLive ==
    ASSUME NEW x, Flat(x), NEW c, NEW u, u = update_blk(x, c, x.i, x.i)
    PROVE  Flat(u) /\ SameMode(x, u) /\ SameTree(x, u)
<1>1. x.i - x.i + 1 = 1 /\ 1 \in Nat
  BY DEF Flat
<1> QED
  BY <1>1, UpdateBlk

LEMMA Trans11TagLive ==
    ASSUME NEW x, Live(x), x.st = 5, NEW c, NEW z, z = trans11_tag(x, c)
    PROVE  LeadsTo(x, z) /\ Within(x, z) /\ z.st = 6 /\ HasData(z)
<1> DEFINE u == update_blk(x, c, x.i, x.i)
<1>1. Flat(x) /\ HasData(x)
  BY DEF Live
<1>2. Flat(u) /\ SameMode(x, u) /\ SameTree(x, u)
  BY <1>1, UpdateBlkLive
<1>3. z = [u EXCEPT !.rd_feelen = c[x.i].v, !.st = 6]
  BY DEF trans11_tag
<1> HIDE DEF u
<1>4. Flat(z) /\ SameMode(u, z) /\ SameTree(u, z) /\ z.st = 6
  BY <1>2, <1>3 DEF Flat, Fields, SameMode, Kept, SameTree
<1>5. HasData(z) /\ Kept(x, z)
  BY <1>1, <1>2, <1>4, TreeIsEv DEF SameMode, Kept
<1>6. Within(x, z)
  BY <1>2, <1>4, TreeIsMarks DEF SameMode, Within
<1> QED
  BY <1>4, <1>5, <1>6 DEF LeadsTo, Live, HasData, HasHit, HasFee, HasBlk

LEMMA Trans11BasicLive ==
    ASSUME NEW x, Live(x), x.st = 5, NEW c
    PROVE  LeadsTo(x, trans11_basic(x, c)) /\ Within(x, trans11_basic(x, c))
<1> DEFINE y == trans11_tag(x, c)
           z == trans11_basic(x, c)
<1>1. LeadsTo(x, y) /\ Within(x, y) /\ y.st = 6 /\ HasData(y)
  BY Trans11TagLive
<1>2. z = CheckData(y)
  BY DEF trans11_basic
<1> HIDE DEF y, z
<1>3. Works(y, z)
  BY <1>1, <1>2, CheckDataWorks DEF LeadsTo, Live
<1>4. Flat(z) /\ Kept(x, z) /\ z.st = 6 /\ HasData(z)
  BY <1>1, <1>3 DEF LeadsTo, Works, SameMode, Kept
<1>5. Within(x, z)
  BY <1>1, <1>3 DEF Works, SameMode, Within
<1> QED
  BY <1>4, <1>5 DEF z, LeadsTo, Live, HasData, HasHit, HasFee, HasBlk

-----------------------------------------------------------------------------
(* Trailers.                                                               *)

LEMMA Trans12Live ==
    ASSUME NEW x, Live(x), x.st = 6, NEW c PROVE LeadsTo(x, trans12(x, c))
<1> DEFINE u == update_blk(x, c, x.i, x.i)
           lenok == x.feelen % LengthMod = x.rd_feelen
           crcok == x.feecrc = c[x.i].crc
           f == [fee(u) EXCEPT !.len_error = ~lenok, !.crc_error = ~crcok]
           y == SetFee(u, f)
           z == trans12(x, c)
<1>0. Flat(x) /\ HasHit(x)
  BY DEF Live
<1>1. Flat(u) /\ SameMode(x, u) /\ SameTree(x, u)
  BY <1>0, UpdateBlkLive
<1>2. z = [y EXCEPT !.err_in_event = @ \/ ~lenok \/ ~crcok, !.st = 7]
  BY DEF trans12, OnFee, OnBlk, OnLast, SetFee, SetBlk, Put, fee, blk, Last
<1> HIDE DEF u, lenok, crcok, z
<1>3. HasHit(u)
  BY <1>0, <1>1, TreeIsEv
<1>4. FeeOk(f) /\ f.hit = fee(u).hit
  BY <1>3 DEF HasHit, HasFee, FeeOk
<1> HIDE DEF f
<1>5. SameButEv(u, y) /\ HasFee(y) /\ fee(y) = f
  BY <1>1, <1>3, <1>4, SetFeeLive DEF HasHit
<1> HIDE DEF y
<1>6. HasHit(y)
  BY <1>3, <1>4, <1>5 DEF HasHit, hit
<1>7. Flat(y) /\ SameMode(u, y)
  BY <1>1, <1>5, ButEv
<1>8. Flat(z) /\ Kept(y, z) /\ SameTree(y, z) /\ z.st = 7
  BY <1>2, <1>7 DEF Flat, Fields, Kept, SameTree
<1>9. HasHit(z) /\ Kept(x, z)
  BY <1>1, <1>6, <1>7, <1>8, TreeIsEv DEF SameMode, Kept
<1> QED
  BY <1>8, <1>9 DEF z, LeadsTo, Live, HasHit, HasFee, HasBlk

LEMMA Trans13Live ==
    ASSUME NEW x, Live(x), x.st = 7, NEW c PROVE LeadsTo(x, trans13(x, c))
<1> DEFINE u == update_blk(x, c, x.i, x.i)
           z == trans13(x, c)
<1>0. Flat(x) /\ HasBlk(x)
  BY DEF Live
<1>1. Flat(u) /\ SameMode(x, u) /\ SameTree(x, u)
  BY <1>0, UpdateBlkLive
<1>2. z = [u EXCEPT !.tmp_ec = c[x.i].v, !.tmp_rawec = c[x.i].id, !.st = 1]
  BY DEF trans13
<1> HIDE DEF u, z
<1>3. Flat(z) /\ Kept(u, z) /\ SameTree(u, z) /\ z.st = 1
  BY <1>1, <1>2 DEF Flat, Fields, Kept, SameTree
<1>4. HasBlk(z) /\ Kept(x, z)
  BY <1>0, <1>1, <1>3, TreeIsEv DEF SameMode, Kept
<1> QED
  BY <1>3, <1>4 DEF z, LeadsTo, Live, HasBlk

LEMMA Trans14Live ==
    ASSUME NEW x, Live(x), x.st = 1, NEW c PROVE LeadsTo(x, trans14(x, c))
<1> DEFINE u == update_blk(x, c, x.i, x.i)
           b == [blk(u) EXCEPT !.blkid = c[x.i].v]
           y == SetBlk(u, b)
           z == trans14(x, c)
<1>0. Flat(x) /\ HasBlk(x)
  BY DEF Live
<1>1. Flat(u) /\ SameMode(x, u) /\ SameTree(x, u)
  BY <1>0, UpdateBlkLive
<1>2. z = [y EXCEPT !.st = 8]
  BY DEF trans14, OnBlk, OnLast, SetBlk, Put, blk, Last
<1> HIDE DEF u, z
<1>3. HasBlk(u)
  BY <1>0, <1>1, TreeIsEv
<1>4. BlkOk(b)
  BY <1>3 DEF HasBlk, BlkOk
<1> HIDE DEF b
<1>5. SameButEv(u, y) /\ HasBlk(y)
  BY <1>1, <1>3, <1>4, SetBlkLive
<1> HIDE DEF y
<1>6. Flat(y) /\ SameMode(u, y)
  BY <1>1, <1>5, ButEv
<1>7. Flat(z) /\ Kept(y, z) /\ SameTree(y, z) /\ z.st = 8
  BY <1>2, <1>6 DEF Flat, Fields, Kept, SameTree
<1>8. HasBlk(z) /\ Kept(x, z)
  BY <1>1, <1>5, <1>6, <1>7, TreeIsEv DEF SameMode, Kept
<1> QED
  BY <1>7, <1>8 DEF z, LeadsTo, Live, HasBlk

LEMMA Trans15Live ==
    ASSUME NEW x, Live(x), x.st = 8, NEW c PROVE LeadsTo(x, trans15(x, c))
<1> DEFINE z == trans15(x, c)
<1>0. Flat(x) /\ HasBlk(x)
  BY DEF Live
<1>1. Flat(z) /\ Kept(x, z) /\ SameTree(x, z) /\ z.st = 9
  BY <1>0 DEF trans15, Flat, Fields, Kept, SameTree
<1> HIDE DEF z
<1>2. HasBlk(z)
  BY <1>0, <1>1, TreeIsEv
<1> QED
  BY <1>1, <1>2 DEF z, LeadsTo, Live, HasBlk

LEMMA Trans16Live ==
    ASSUME NEW x, Live(x), x.st = 9, NEW c PROVE LeadsTo(x, trans16(x, c))
<1> DEFINE lenok == BlockLengthOk(x)
           crcok == x.blkcrc = c[x.i].crc
           fake == crcok /\ blk(x).blkid = FAKE_BLOCK
           info == fake /\ x.evformat = FMT_BASIC /\ blk(x).fee # <<>>
           t == read_triggerinfo(blk(x))
           b == [blk(x) EXCEPT !.len_error = ~lenok, !.crc_error = ~crcok]
           y == SetBlk(x, b)
           z == trans16(x, c)
<1>0. Flat(x) /\ HasBlk(x)
  BY DEF Live
<1>1. z = [y EXCEPT !.err_in_event = @ \/ ~lenok \/ ~crcok, !.st = 10,
                    !.ev.trinfo = IF info THEN @ \o t ELSE @,
                    !.ev.block = IF fake THEN Front(@) ELSE @]
  <2> DEFINE v == OnBlk(x, LAMBDA a : [a EXCEPT !.len_error = ~lenok, !.crc_error = ~crcok])
  <2>1. z = [v EXCEPT !.err_in_event = @ \/ ~lenok \/ ~crcok, !.st = 10,
                    !.ev.trinfo = IF info THEN @ \o t ELSE @,
                    !.ev.block = IF fake THEN Front(@) ELSE @]
    BY DEF trans16
  <2> HIDE DEF lenok, crcok
  <2>2. v = y
    BY DEF OnBlk, OnLast, SetBlk, Put, blk, Last
  <2> HIDE DEF v, y, fake, info, t, z
  <2> QED
    BY <2>1, <2>2
<1> HIDE DEF lenok, crcok, fake, info, t, z
<1>2. BlkOk(b)
  BY <1>0 DEF HasBlk, BlkOk
<1> HIDE DEF b
<1>3. SameButEv(x, y) /\ HasBlk(y)
  BY <1>0, <1>2, SetBlkLive
<1> HIDE DEF y
<1>4. Flat(y) /\ SameMode(x, y)
  BY <1>0, <1>3, ButEv
<1>5. HasEv(y)
  BY <1>3 DEF HasBlk
<1>6. Flat(z) /\ Kept(y, z) /\ z.st = 10
  BY <1>1, <1>4 DEF Flat, Fields, Kept
<1>7. /\ DOMAIN z.ev = DOMAIN y.ev
      /\ z.ev.block = IF fake THEN Front(y.ev.block) ELSE y.ev.block
  BY <1>1, <1>4, <1>5 DEF Flat, Fields, HasEv
<1>8. HasEv(z)
  BY <1>5, <1>7, FrontIsSeq DEF HasEv
<1> QED
  BY <1>4, <1>6, <1>8 DEF z, LeadsTo, Live, SameMode, Kept

LEMMA Trans18Live ==
    ASSUME NEW x, Live(x), NEW c, NEW z, z = trans18(x, c)
    PROVE  /\ Live(z) /\ z.evformat = x.evformat /\ z.i = x.i
           /\ z.event_is_empty = EventIsEmpty(x.ev)
<1> DEFINE e == EventIsEmpty(x.ev)
<1>1. z = [x EXCEPT !.ev.regid = c[x.i].v, !.event_is_empty = e, !.st = 0,
                    !.err_in_event = IF e THEN @ ELSE FALSE]
  BY DEF trans18
<1> HIDE DEF e
<1>2. /\ Flat(z) /\ z.evformat = x.evformat /\ z.i = x.i /\ z.st = 0 /\ SameTree(x, z)
      /\ z.event_is_empty = e
  BY <1>1 DEF Live, HasEv, Flat, Fields, SameTree
<1>3. HasEv(z)
  BY <1>2, TreeIsEv DEF Live
<1> QED
  BY <1>2, <1>3 DEF Live, e

LEMMA NoEventOk == DOMAIN NoEvent = {"ec", "regid", "block", "trinfo"} /\ IsSeq(NoEvent.block)
  BY EmptyIsSeq DEF NoEvent

LEMMA Trans00Live == ASSUME NEW x, Live(x) PROVE LeadsTo(x, trans00(x))
<1> DEFINE z == trans00(x)
<1>1. Flat(z) /\ Kept(x, z) /\ z.ev = NoEvent /\ z.st = 0
  BY DEF trans00, Live, Flat, Fields, Kept
<1> QED
  BY <1>1, NoEventOk DEF LeadsTo, Live, HasEv

LEMMA ImportLive ==
    ASSUME NEW x, Flat(x) PROVE LeadsTo(x, import(x)) /\ import(x).i = 1
<1> DEFINE z == import(x)
<1>1. Flat(z) /\ Kept(x, z) /\ z.ev = NoEvent /\ z.st = 0 /\ z.i = 1
  BY DEF import, Flat, Fields, Kept
<1> QED
  BY <1>1, NoEventOk DEF LeadsTo, Live, HasEv

\* event_index++ at the end of an iteration.
LEMMA IncrementLive ==
    ASSUME NEW x, Live(x), NEW y, y = [x EXCEPT !.i = @ + 1]
    PROVE  Live(y) /\ Kept(x, y) /\ y.i = x.i + 1 /\ y.i > 0
<1>0. Flat(x)
  BY DEF Live
<1>1. /\ Flat(y) /\ SameMode(x, y) /\ SameTree(x, y) /\ y.st = x.st
      /\ y.i = x.i + 1 /\ y.i > 0
  BY <1>0 DEF Flat, Fields, SameMode, Kept, SameTree
<1>2. /\ HasEv(y) /\ (x.st \in 1..9 => HasBlk(y)) /\ (x.st \in 2..7 => HasHit(y))
      /\ (x.st \in 4..5 => HasData(y) /\ d(y) = d(x))
  BY <1>1, TreeIsEv DEF Live
<1>3. x.st \in 4..5 => HasParts(y)
  BY <1>1, <1>2 DEF Live, HasParts, SameMode, Kept
<1> QED
  BY <1>0, <1>1, <1>2, <1>3 DEF Live, SameMode

-----------------------------------------------------------------------------
(* The transition matrix: the state in which each transition is entered.   *)

Entered(k, c, s) ==
    /\ k \in {1, 2} => s = 0
    /\ k \in {3, 14} => s = 1
    /\ k = 4 => s = 2
    /\ k \in {5, 6} => s = 3
    /\ k = 7 => s = 4
    /\ k \in {8, 9, 10, 11} => s = 5
    /\ k = 12 => s = 6
    /\ k = 13 => s = 7
    /\ k = 15 => s = 8
    /\ k = 16 => s = 9
    /\ k \in {17, 18} => s = 10
    /\ k = 18 => c = "REGID"
    /\ k = 8 => c = "DATA"

LEMMA Matrix ==
    ASSUME NEW c \in WordClass, c # "EMPTY", NEW s \in 0..10, NEW k, k = ttable[c][s + 1]
    PROVE  Entered(k, c, s)
<1>1. CASE c \in {"DATA", "TELID", "LENGTH"}
  BY <1>1 DEF ttable, Entered
<1>2. CASE c \in {"CRCFE", "REGID", "CRCBL", "EC"}
  BY <1>2 DEF ttable, Entered
<1>3. CASE c \in {"EOE", "DETID", "BLKID"}
  BY <1>3 DEF ttable, Entered
<1> QED
  BY <1>1, <1>2, <1>3 DEF WordClass

-----------------------------------------------------------------------------
(* The thread.                                                             *)

RawOk(ws) == ws \in Seq(RawWord) /\ \A j \in 1..(Len(ws) - 1) : ws[j].cls # "REGID"

Counters == {"in_events", "out_events", "state_invalid", "empty", "bad", "good"}

ThreadOk ==
    /\ pc \in {"recv", "process"}
    /\ RawOk(raw.words)
    /\ Flat(m) /\ m.st \in 0..10 /\ m.evformat \in Formats
    /\ retval \in {PARSE_OK, PARSE_FAIL} /\ verdict \in {"none", "empty", "bad", "good"}
    /\ fsm \in [Counters -> Nat]
    /\ DOMAIN psr = {"in_events", "out_events", "rc"}
    /\ psr.in_events \in 0..MaxEvents /\ psr.out_events \in Nat

\* Inside process() the machine is live.
MachineOk == pc = "process" => Live(m) /\ m.i > 0

\* process() returns PARSE_OK when trans18 has run, on the last word.
VerdictOk ==
    pc = "process" =>
      /\ retval = PARSE_OK <=> verdict # "none"
      /\ verdict # "none" => m.i > Len(raw.words)
      /\ verdict # "none" => (m.event_is_empty <=> verdict = "empty")

\* An event that is counted good or bad is still to be forwarded.
Pending == IF pc = "process" /\ verdict \in {"good", "bad"} THEN 1 ELSE 0
CountOk == fsm.good + fsm.bad = psr.out_events + Pending

ParserInv == ThreadOk /\ MachineOk /\ VerdictOk /\ CountOk

\* One iteration of process() with the machine behind the transition.
Moves == AtWord /\ \E n : LeadsTo(m, n) /\ Become(n)

LEMMA AtWordFacts ==
    ASSUME ParserInv, AtWord
    PROVE  /\ Live(m) /\ raw.words \in Seq(RawWord) /\ m.i \in 1..Len(raw.words)
           /\ raw.words[m.i] \in RawWord /\ raw.words[m.i].cls \in WordClass
           /\ verdict = "none" /\ m.evformat \in {FMT_BASIC, FMT_TAG}
<1>1. Live(m) /\ raw.words \in Seq(RawWord) /\ m.i \in 1..Len(raw.words)
  BY DEF ParserInv, MachineOk, ThreadOk, RawOk, AtWord, Live, Flat
<1>2. raw.words[m.i] \in RawWord
  BY <1>1
<1>3. raw.words[m.i].cls \in WordClass
  BY <1>2 DEF RawWord
<1>4. verdict = "none"
  BY <1>1 DEF ParserInv, VerdictOk, AtWord
<1>5. m.evformat \in {FMT_BASIC, FMT_TAG}
  BY FormatsAssumption DEF ParserInv, ThreadOk
<1> QED
  BY <1>1, <1>2, <1>3, <1>4, <1>5

\* The state of the machine in which transition k fires.
LEMMA FiresIn ==
    ASSUME ParserInv, NEW k, Fires(k)
    PROVE  AtWord /\ Entered(k, raw.words[m.i].cls, m.st)
<1>1. AtWord
  BY DEF Fires
<1>2. raw.words[m.i].cls \in WordClass /\ m.st \in 0..10
  BY <1>1, AtWordFacts DEF ParserInv, ThreadOk
<1>3. raw.words[m.i].cls # "EMPTY" /\ k = ttable[raw.words[m.i].cls][m.st + 1]
  BY DEF Fires
<1> QED
  BY <1>1, <1>2, <1>3, Matrix

\* Transitions that change nothing but the machine and, for trans00, a counter.
LEMMA MovesInv ==
    ASSUME ParserInv, Moves, UNCHANGED <<retval, verdict>>, fsm' \in [Counters -> Nat],
           fsm'.good = fsm.good, fsm'.bad = fsm.bad
    PROVE  ParserInv'
<1>1. PICK n : LeadsTo(m, n) /\ Become(n)
  BY DEF Moves
<1>2. AtWord /\ verdict = "none"
  BY AtWordFacts DEF Moves
<1>3. m' = [n EXCEPT !.i = @ + 1] /\ UNCHANGED <<pc, raw, psr, retval, verdict>>
  BY <1>1 DEF Become
<1>4. PICK y : y = [n EXCEPT !.i = @ + 1]
  OBVIOUS
<1>5. Live(y) /\ Kept(n, y) /\ y.i > 0
  BY <1>1, <1>4, IncrementLive DEF LeadsTo
<1>6. m' = y /\ Live(m') /\ m'.i > 0 /\ m'.evformat = m.evformat
  BY <1>1, <1>3, <1>4, <1>5 DEF LeadsTo, Kept
<1>7. Flat(m') /\ m'.st \in 0..10
  BY <1>6 DEF Live
<1>8. ThreadOk'
  BY <1>3, <1>6, <1>7 DEF ParserInv, ThreadOk
<1>9. MachineOk'
  BY <1>6 DEF MachineOk
<1>10. VerdictOk'
  BY <1>2, <1>3 DEF ParserInv, VerdictOk, AtWord
<1>11. CountOk'
  BY <1>2, <1>3 DEF ParserInv, CountOk, Pending
<1> QED
  BY <1>8, <1>9, <1>10, <1>11 DEF ParserInv

\* One lemma for the transitions that count nothing.
LEMMA QuietMoves ==
    ASSUME ParserInv,
           \/ EmptyWord \/ Trans01 \/ Trans02 \/ Trans03 \/ Trans04 \/ Trans05 \/ Trans06
           \/ Trans07 \/ Trans08 \/ Trans09 \/ Trans10 \/ Trans11 \/ Trans12 \/ Trans13
           \/ Trans14 \/ Trans15 \/ Trans16 \/ Trans17
    PROVE  Moves /\ Quietly
<1> DEFINE c == raw.words
<1>1. ASSUME AtWord PROVE Live(m) /\ c \in Seq(RawWord) /\ m.i \in 1..Len(c)
  BY <1>1, AtWordFacts
<1>2. ASSUME AtWord, NEW n, LeadsTo(m, n), Become(n), Quietly PROVE Moves /\ Quietly
  BY <1>2 DEF Moves
<1>3. ASSUME AtWord
      PROVE  m.evformat = FMT_BASIC \/ (m.evformat = FMT_TAG /\ m.evformat # FMT_BASIC)
  BY <1>3, AtWordFacts DEF FMT_BASIC, FMT_TAG
<1>4. ASSUME AtWord PROVE LeadsTo(m, m)
  BY <1>1, <1>4 DEF LeadsTo, Kept
<1> HIDE DEF c
<1>5. CASE EmptyWord
  BY <1>2, <1>4, <1>5 DEF EmptyWord
<1>6. CASE Trans01
  BY <1>2, <1>4, <1>6, FiresIn DEF Trans01, Entered
<1>7. CASE Trans02
  <2>1. LeadsTo(m, trans02(m, c)) /\ AtWord
    BY <1>1, <1>7, FiresIn, Trans02Live DEF Trans02, Entered
  <2> QED
    BY <1>2, <1>7, <2>1 DEF Trans02, c
<1>8. CASE Trans03
  <2>1. LeadsTo(m, trans03(m, c)) /\ AtWord
    BY <1>1, <1>8, FiresIn, Trans03Live DEF Trans03, Entered
  <2> QED
    BY <1>2, <1>8, <2>1 DEF Trans03, c
<1>9. CASE Trans04
  <2>1. LeadsTo(m, trans04(m, c)) /\ AtWord
    BY <1>1, <1>9, FiresIn, Trans04Live DEF Trans04, Entered
  <2> QED
    BY <1>2, <1>9, <2>1 DEF Trans04, c
<1>10. CASE Trans05
  <2>1. LeadsTo(m, trans05(m, c)) /\ AtWord
    BY <1>1, <1>10, FiresIn, Trans05Live DEF Trans05, Entered
  <2> QED
    BY <1>2, <1>10, <2>1 DEF Trans05, c
<1>11. CASE Trans06
  <2>1. LeadsTo(m, trans06(m, c)) /\ AtWord
    BY <1>1, <1>11, FiresIn, Trans06Live DEF Trans06, Entered
  <2> QED
    BY <1>2, <1>11, <2>1 DEF Trans06, c
<1>12. CASE Trans07
  <2> DEFINE n == Format(trans07_basic(m, c), trans07_tag(m, c))
  <2>1. AtWord /\ m.st = 4
    BY <1>12, FiresIn DEF Trans07, Entered
  <2>2. LeadsTo(m, n)
    BY <1>1, <1>3, <2>1, Trans07BasicLive, Trans07TagLive DEF Format
  <2> HIDE DEF n
  <2> QED
    BY <1>2, <1>12, <2>1, <2>2 DEF Trans07, c, n
<1>13. CASE Trans08
  <2> DEFINE n == Format(trans08_basic(m, c), trans08_tag(m, c))
  <2>1. AtWord /\ m.st = 5
    BY <1>13, FiresIn DEF Trans08, Entered
  <2>2. LeadsTo(m, n)
    BY <1>1, <1>3, <2>1, Trans08BasicLive, Trans08TagLive DEF Format
  <2> HIDE DEF n
  <2> QED
    BY <1>2, <1>13, <2>1, <2>2 DEF Trans08, c, n
<1>14. CASE Trans09
  <2> DEFINE n == Format(trans09_basic(m, c), trans09_tag(m, c))
  <2>1. AtWord /\ m.st = 5
    BY <1>14, FiresIn DEF Trans09, Entered
  <2>2. LeadsTo(m, n)
    BY <1>1, <2>1, Trans09BasicLive, Trans09TagLive DEF Format
  <2> HIDE DEF n
  <2> QED
    BY <1>2, <1>14, <2>1, <2>2 DEF Trans09, c, n
<1>15. CASE Trans10
  <2> DEFINE n == Format(trans10_basic(m, c), trans10_tag(m, c))
  <2>1. AtWord /\ m.st = 5
    BY <1>15, FiresIn DEF Trans10, Entered
  <2>2. LeadsTo(m, n)
    BY <1>1, <2>1, Trans10BasicLive, Trans10TagLive DEF Format
  <2> HIDE DEF n
  <2> QED
    BY <1>2, <1>15, <2>1, <2>2 DEF Trans10, c, n
<1>16. CASE Trans11
  <2> DEFINE n == Format(trans11_basic(m, c), trans11_tag(m, c))
  <2>1. AtWord /\ m.st = 5
    BY <1>16, FiresIn DEF Trans11, Entered
  <2>2. LeadsTo(m, n)
    BY <1>1, <2>1, Trans11BasicLive, Trans11TagLive DEF Format
  <2> HIDE DEF n
  <2> QED
    BY <1>2, <1>16, <2>1, <2>2 DEF Trans11, c, n
<1>17. CASE Trans12
  <2>1. LeadsTo(m, trans12(m, c)) /\ AtWord
    BY <1>1, <1>17, FiresIn, Trans12Live DEF Trans12, Entered
  <2> QED
    BY <1>2, <1>17, <2>1 DEF Trans12, c
<1>18. CASE Trans13
  <2>1. LeadsTo(m, trans13(m, c)) /\ AtWord
    BY <1>1, <1>18, FiresIn, Trans13Live DEF Trans13, Entered
  <2> QED
    BY <1>2, <1>18, <2>1 DEF Trans13, c
<1>19. CASE Trans14
  <2>1. LeadsTo(m, trans14(m, c)) /\ AtWord
    BY <1>1, <1>19, FiresIn, Trans14Live DEF Trans14, Entered
  <2> QED
    BY <1>2, <1>19, <2>1 DEF Trans14, c
<1>20. CASE Trans15
  <2>1. LeadsTo(m, trans15(m, c)) /\ AtWord
    BY <1>1, <1>20, FiresIn, Trans15Live DEF Trans15, Entered
  <2> QED
    BY <1>2, <1>20, <2>1 DEF Trans15, c
<1>21. CASE Trans16
  <2>1. LeadsTo(m, trans16(m, c)) /\ AtWord
    BY <1>1, <1>21, FiresIn, Trans16Live DEF Trans16, Entered
  <2> QED
    BY <1>2, <1>21, <2>1 DEF Trans16, c
<1>22. CASE Trans17
  <2>1. LeadsTo(m, trans17(m, c)) /\ AtWord
    BY <1>1, <1>22, FiresIn, Trans17Live DEF Trans17, Entered
  <2> QED
    BY <1>2, <1>22, <2>1 DEF Trans17, c
<1> QED
  BY <1>5, <1>6, <1>7, <1>8, <1>9, <1>10, <1>11, <1>12, <1>13, <1>14, <1>15, <1>16, <1>17,
     <1>18, <1>19, <1>20, <1>21, <1>22

LEMMA Trans00Inv == ASSUME ParserInv, Trans00 PROVE ParserInv'
<1>1. AtWord /\ LeadsTo(m, trans00(m))
  BY FiresIn, AtWordFacts, Trans00Live DEF Trans00, Entered
<1>2. Moves
  BY <1>1 DEF Trans00, Moves
<1>3. fsm' \in [Counters -> Nat] /\ fsm'.good = fsm.good /\ fsm'.bad = fsm.bad
  BY DEF Trans00, ParserInv, ThreadOk, Counters
<1> QED
  BY <1>2, <1>3, MovesInv DEF Trans00

\* REGID is the last word: the event is counted once.
LEMMA Trans18Inv == ASSUME ParserInv, Trans18 PROVE ParserInv'
<1> DEFINE e == EventIsEmpty(m.ev)
           v == IF e THEN "empty" ELSE IF m.err_in_event THEN "bad" ELSE "good"
<1>1. /\ Fires(18) /\ Become(trans18(m, raw.words))
      /\ retval' = PARSE_OK /\ verdict' = v /\ fsm' = [fsm EXCEPT ![v] = @ + 1]
  BY DEF Trans18
<1>2. AtWord /\ raw.words[m.i].cls = "REGID"
  BY <1>1, FiresIn DEF Entered
<1>3. /\ Live(m) /\ raw.words \in Seq(RawWord) /\ m.i \in 1..Len(raw.words)
      /\ verdict = "none"
  BY <1>2, AtWordFacts
<1>4. m.i = Len(raw.words)
  <2>1. ~(m.i \in 1..(Len(raw.words) - 1))
    BY <1>2 DEF ParserInv, ThreadOk, RawOk
  <2> QED
    BY <1>3, <2>1
<1>5. PICK n : n = trans18(m, raw.words)
  OBVIOUS
<1>6. Live(n) /\ n.evformat = m.evformat /\ n.i = m.i /\ (n.event_is_empty = e)
  BY <1>3, <1>5, Trans18Live
<1>7. PICK y : y = [n EXCEPT !.i = @ + 1]
  OBVIOUS
<1>8. Live(y) /\ Kept(n, y) /\ y.i = n.i + 1 /\ y.i > 0
  BY <1>6, <1>7, IncrementLive
<1>9. m' = y /\ UNCHANGED <<pc, raw, psr>>
  BY <1>1, <1>5, <1>7 DEF Become
<1>10. Live(m') /\ m'.i > 0 /\ m'.evformat = m.evformat /\ m'.i = Len(raw.words) + 1
  BY <1>4, <1>6, <1>8, <1>9 DEF Kept
<1>11. m'.event_is_empty = e
  BY <1>6, <1>8, <1>9 DEF Kept
<1>12. v \in {"empty", "bad", "good"} /\ (v = "empty" <=> e)
  OBVIOUS
<1> HIDE DEF e, v
<1>13. fsm' \in [Counters -> Nat]
  BY <1>1, <1>12 DEF ParserInv, ThreadOk, Counters
<1>14. ThreadOk'
  <2>1. Flat(m') /\ m'.st \in 0..10
    BY <1>10 DEF Live
  <2> QED
    BY <1>1, <1>9, <1>10, <1>12, <1>13, <2>1 DEF ParserInv, ThreadOk
<1>15. MachineOk'
  BY <1>10 DEF MachineOk
<1>16. VerdictOk'
  <2>1. retval' = PARSE_OK /\ verdict' # "none"
    BY <1>1, <1>12
  <2>2. m'.i > Len(raw'.words)
    BY <1>3, <1>9, <1>10
  <2>3. m'.event_is_empty <=> verdict' = "empty"
    BY <1>1, <1>11, <1>12
  <2> QED
    BY <2>1, <2>2, <2>3 DEF VerdictOk
<1>17. CountOk'
  <2>1. pc = "process" /\ pc' = "process" /\ psr' = psr
    BY <1>2, <1>9 DEF AtWord
  <2>2. fsm.good + fsm.bad = psr.out_events
    BY <1>3 DEF ParserInv, CountOk, Pending, ThreadOk
  <2>3. fsm'.good + fsm'.bad = fsm.good + fsm.bad + (IF v \in {"good", "bad"} THEN 1 ELSE 0)
    BY <1>1, <1>12 DEF ParserInv, ThreadOk, Counters
  <2> QED
    BY <1>1, <2>1, <2>2, <2>3 DEF CountOk, Pending
<1> QED
  BY <1>14, <1>15, <1>16, <1>17 DEF ParserInv

\* A forwarded event is one that was counted good or bad.
LEMMA ReturnInv == ASSUME ParserInv, Return PROVE ParserInv'
<1>1. /\ Flat(m) /\ m.st \in 0..10 /\ m.evformat \in Formats
      /\ m' = [m EXCEPT !.ev = NoEvent]
  BY DEF Return, ParserInv, ThreadOk
<1>2. Flat(m') /\ m'.st \in 0..10 /\ m'.evformat \in Formats
  <2>1. PICK y : y = [m EXCEPT !.ev = NoEvent]
    OBVIOUS
  <2>2. Flat(y) /\ y.st = m.st /\ y.evformat = m.evformat
    BY <1>1, <2>1 DEF Flat, Fields
  <2> QED
    BY <1>1, <2>1, <2>2
<1>3. RawOk(raw'.words)
  <2>1. NoRaw.words = <<>> /\ <<>> \in Seq(RawWord) /\ Len(<<>>) = 0
    BY DEF NoRaw
  <2>2. RawOk(<<>>)
    BY <2>1 DEF RawOk
  <2> QED
    BY <2>1, <2>2 DEF Return
<1>4. /\ fsm' \in [Counters -> Nat] /\ fsm'.good = fsm.good /\ fsm'.bad = fsm.bad
      /\ fsm.good \in Nat /\ fsm.bad \in Nat
  BY DEF Return, ParserInv, ThreadOk, Counters
<1>5. pc = "process" /\ pc' = "recv" /\ UNCHANGED <<retval, verdict>>
  BY DEF Return, Parsed
<1>6. Forwards <=> verdict \in {"good", "bad"}
  <2>1. verdict \in {"none", "empty", "bad", "good"}
    BY DEF ParserInv, ThreadOk
  <2>2. /\ retval = PARSE_OK <=> verdict # "none"
        /\ verdict # "none" => (m.event_is_empty <=> verdict = "empty")
    BY <1>5 DEF ParserInv, VerdictOk
  <2>3. Forwards <=> (verdict # "none" /\ ~(verdict = "empty"))
    BY <2>2 DEF Forwards
  <2>4. {"none", "empty"} \cap {"bad", "good"} = {}
    OBVIOUS
  <2> QED
    BY <2>1, <2>3, <2>4
<1>7. /\ DOMAIN psr' = DOMAIN psr /\ psr'.in_events = psr.in_events
      /\ psr'.out_events = psr.out_events + (IF Forwards THEN 1 ELSE 0)
      /\ psr.out_events \in Nat
  BY DEF Return, ParserInv, ThreadOk
<1>8. ThreadOk'
  <2>1. psr'.out_events \in Nat
    BY <1>7
  <2> QED
    BY <1>2, <1>3, <1>4, <1>5, <1>7, <2>1 DEF ParserInv, ThreadOk
<1>9. MachineOk' /\ VerdictOk'
  BY <1>5 DEF MachineOk, VerdictOk
<1>10. CountOk'
  <2>1. fsm.good + fsm.bad = psr.out_events + (IF Forwards THEN 1 ELSE 0)
    BY <1>5, <1>6 DEF ParserInv, CountOk, Pending
  <2>2. fsm'.good + fsm'.bad = psr'.out_events /\ pc' # "process"
    BY <1>4, <1>5, <1>7, <2>1
  <2>3. psr'.out_events + 0 = psr'.out_events
    BY <1>7
  <2> QED
    BY <2>2, <2>3 DEF CountOk, Pending
<1> QED
  BY <1>8, <1>9, <1>10 DEF ParserInv

\* What recv() leaves: a message, or nothing that is analysed as one.
LEMMA Received ==
    ASSUME ParserInv, Recv \/ RecvError
    PROVE  /\ pc = "recv" /\ psr.in_events < MaxEvents
           /\ \E message : Take(message) /\ RawOk(message.words)
<1>1. CASE Recv
  <2>1. m.evformat \in Formats /\ psr.in_events + 1 \in 1..MaxEvents
    BY <1>1, MaxEventsAssumption DEF Recv, ParserInv, ThreadOk
  <2>2. PICK message \in Inputs(m.evformat, psr.in_events + 1) : Take(message)
    BY <1>1 DEF Recv
  <2>3. RawOk(message.words)
    BY <2>1, <2>2, InputsAssumption DEF RawOk
  <2> QED
    BY <1>1, <2>2, <2>3 DEF Recv
<1>2. CASE RecvError
  <2>1. NoRaw.words = <<>> /\ <<>> \in Seq(RawWord) /\ Len(<<>>) = 0
    BY DEF NoRaw
  <2>2. RawOk(NoRaw.words)
    BY <2>1 DEF RawOk
  <2> QED
    BY <1>2, <2>2 DEF RecvError
<1> QED
  BY <1>1, <1>2

LEMMA RecvInv == ASSUME ParserInv, Recv \/ RecvError PROVE ParserInv'
<1>0. PICK message : Take(message) /\ RawOk(message.words)
  BY Received
<1>1. /\ pc = "recv" /\ pc' = "process" /\ m' = import(m)
      /\ retval' = PARSE_FAIL /\ verdict' = "none"
  BY <1>0, Received DEF Take
<1>2. Live(m') /\ m'.i = 1 /\ m'.evformat = m.evformat
  <2>1. PICK y : y = import(m)
    OBVIOUS
  <2>2. LeadsTo(m, y) /\ y.i = 1
    BY <2>1, ImportLive DEF ParserInv, ThreadOk
  <2> QED
    BY <1>1, <2>1, <2>2 DEF LeadsTo, Kept
<1>3. RawOk(raw'.words)
  BY <1>0 DEF Take
<1>4. /\ fsm' \in [Counters -> Nat] /\ fsm'.good = fsm.good /\ fsm'.bad = fsm.bad
      /\ DOMAIN psr' = DOMAIN psr /\ psr'.in_events \in 0..MaxEvents
      /\ psr'.out_events = psr.out_events
  BY <1>0, Received, MaxEventsAssumption DEF Take, ParserInv, ThreadOk, Counters
<1>5. ThreadOk'
  <2>1. Flat(m') /\ m'.st \in 0..10
    BY <1>2 DEF Live
  <2> QED
    BY <1>1, <1>2, <1>3, <1>4, <2>1 DEF ParserInv, ThreadOk
<1>6. MachineOk'
  BY <1>2 DEF MachineOk
<1>7. VerdictOk'
  BY <1>1 DEF VerdictOk, PARSE_OK, PARSE_FAIL
<1>8. CountOk'
  BY <1>1, <1>4 DEF ParserInv, CountOk, Pending
<1> QED
  BY <1>5, <1>6, <1>7, <1>8 DEF ParserInv

LEMMA InitInv == Init => ParserInv
<1> SUFFICES ASSUME Init PROVE ParserInv
  OBVIOUS
<1>1. PICK f \in Formats : \E g \in Garbage : m = Machine(f, g)
  BY DEF Init
<1>2. PICK g \in Garbage : m = Machine(f, g)
  BY <1>1
<1>3. Flat(m) /\ m.st = 0 /\ m.evformat = f
  BY <1>2 DEF Machine, Flat, Fields
<1>4. raw.words = <<>> /\ <<>> \in Seq(RawWord) /\ Len(<<>>) = 0
  BY DEF Init, NoRaw
<1>5. RawOk(raw.words)
  BY <1>4 DEF RawOk
<1>6. ThreadOk
  BY <1>3, <1>5, MaxEventsAssumption DEF Init, ThreadOk, Counters
<1>7. MachineOk /\ VerdictOk /\ CountOk
  BY DEF Init, MachineOk, VerdictOk, CountOk, Pending
<1> QED
  BY <1>6, <1>7 DEF ParserInv

LEMMA NextInv == ParserInv /\ [Next]_vars => ParserInv'
<1> SUFFICES ASSUME ParserInv, [Next]_vars PROVE ParserInv'
  OBVIOUS
<1>1. CASE UNCHANGED vars
  BY <1>1 DEF vars, ParserInv, ThreadOk, MachineOk, VerdictOk, CountOk, Pending
<1>2. CASE RecvTimeout
  <2>1. /\ DOMAIN psr' = DOMAIN psr /\ psr'.in_events = psr.in_events
        /\ psr'.out_events = psr.out_events
    BY <1>2 DEF RecvTimeout, ParserInv, ThreadOk
  <2> QED
    BY <1>2, <2>1 DEF RecvTimeout, ParserInv, ThreadOk, MachineOk, VerdictOk, CountOk, Pending
<1>3. CASE Recv \/ RecvError
  BY <1>3, RecvInv
<1>4. CASE Moves /\ Quietly
  BY <1>4, MovesInv DEF Quietly, ParserInv, ThreadOk
<1>5. CASE Process
  BY <1>4, <1>5, QuietMoves, Trans00Inv, Trans18Inv, ReturnInv DEF Process
<1> QED
  BY <1>1, <1>2, <1>3, <1>5 DEF Next

LEMMA InvHolds == Spec => []ParserInv
  BY InitInv, NextInv, PTL DEF Spec

-----------------------------------------------------------------------------
(* The word index behind each transition, before event_index++.            *)

\* The members are all there and the index has not moved.
Stays(x, y) == DOMAIN y = Fields /\ y.i = x.i

LEMMA UpdateStays == ASSUME NEW x, Flat(x), NEW c PROVE Stays(x, update(x, c)) /\ Flat(update(x, c))
  BY Update DEF Updated, Flat, Stays

LEMMA UpdateBlkStays == ASSUME NEW x, Flat(x), NEW c PROVE Stays(x, update_blk(x, c, x.i, x.i))
  BY DEF update_blk, Flat, Fields, Stays

LEMMA CheckDataStays == ASSUME NEW x, DOMAIN x = Fields PROVE Stays(x, CheckData(x))
  BY DEF CheckData, OnWf, OnEn, OnData, OnHit, OnFee, OnBlk, Fields, Stays

LEMMA AddHitStays == ASSUME NEW x, DOMAIN x = Fields, NEW h PROVE Stays(x, AddHit(x, h))
  BY DEF AddHit, OnFee, OnBlk, Fields, Stays

LEMMA AddDataStays ==
    ASSUME NEW x, DOMAIN x = Fields, NEW v, NEW e PROVE Stays(x, AddData(x, v, e))
  BY DEF AddData, OnHit, OnFee, OnBlk, Fields, Stays

LEMMA StoreTagStays == ASSUME NEW x, DOMAIN x = Fields, NEW v PROVE Stays(x, StoreTag(x, v))
<1> DEFINE y == [x EXCEPT !.tag = v, !.tag_done = (v # TAG_VOID)]
           a == OnData(y, LAMBDA t : IF t.waveform = <<>> THEN [t EXCEPT !.waveform = <<NewWf>>]
                                     ELSE t)
           b == OnData(y, LAMBDA t : IF t.energy = <<>> THEN [t EXCEPT !.energy = <<NewEn(FALSE)>>]
                                     ELSE [t EXCEPT !.energy[1].len_error = FALSE])
<1>1. Stays(x, y)
  BY DEF Fields, Stays
<1>2. Stays(x, a) /\ Stays(x, b)
  <2> HIDE DEF y
  <2> QED
    BY <1>1 DEF OnData, OnHit, OnFee, OnBlk, Fields, Stays
<1>3. StoreTag(x, v) = CASE v \in {TAG_PRETRIGGER, TAG_WAVEFORM} -> a
                         [] v \in {TAG_SLOW, TAG_FAST} -> b
                         [] OTHER -> y
  BY DEF StoreTag
<1> HIDE DEF a, b, y
<1> QED
  BY <1>1, <1>2, <1>3

LEMMA OpeningStays ==
    ASSUME NEW x, Flat(x), NEW c
    PROVE  /\ Stays(x, trans00(x)) /\ Stays(x, trans02(x, c)) /\ Stays(x, trans03(x, c))
           /\ Stays(x, trans04(x, c)) /\ Stays(x, trans05(x, c)) /\ Stays(x, trans06(x, c))
           /\ Stays(x, trans17(x, c))
<1>1. Stays(x, update(x, c)) /\ Stays(x, update_blk(x, c, x.i, x.i)) /\ DOMAIN x = Fields
  BY UpdateStays, UpdateBlkStays DEF Flat
<1>2. Stays(x, trans00(x)) /\ Stays(x, trans02(x, c)) /\ Stays(x, trans17(x, c))
  BY <1>1 DEF trans00, trans02, trans17, StartBlock, Fields, Stays
<1>3. Stays(x, trans03(x, c))
  BY <1>1 DEF trans03, OnBlk, Fields, Stays
<1>4. Stays(x, trans04(x, c)) /\ Stays(x, trans05(x, c))
  BY <1>1 DEF trans04, trans05, OnHit, OnFee, OnBlk, Fields, Stays
<1>5. Stays(x, trans06(x, c))
  BY <1>1, AddDataStays DEF trans06, Stays
<1> QED
  BY <1>2, <1>3, <1>4, <1>5

LEMMA DataStays ==
    ASSUME NEW x, Flat(x), NEW c
    PROVE  /\ Stays(x, trans07_basic(x, c)) /\ Stays(x, trans07_tag(x, c))
           /\ Stays(x, trans09_basic(x, c)) /\ Stays(x, trans09_tag(x, c))
           /\ Stays(x, trans10_basic(x, c)) /\ Stays(x, trans10_tag(x, c))
<1> DEFINE u == update(x, c)
           k == CheckData(u)
<1>1. Stays(x, u)
  BY UpdateStays
<1>2. Stays(x, trans07_basic(x, c))
  <2> HIDE DEF u
  <2> QED
    BY <1>1 DEF trans07_basic, OnEn, OnWf, OnData, OnHit, OnFee, OnBlk, Fields, Stays, u
<1>3. Stays(x, trans07_tag(x, c))
  <2> DEFINE y == [u EXCEPT !.tag_done = FALSE, !.wflen_done = FALSE, !.rd_wflen = 0, !.st = 5]
  <2>1. Stays(x, y)
    BY <1>1 DEF Fields, Stays
  <2>2. trans07_tag(x, c) = StoreTag(y, c[x.i].v)
    BY DEF trans07_tag
  <2> HIDE DEF y
  <2> QED
    BY <2>1, <2>2, StoreTagStays DEF Stays
<1>4. Stays(x, k)
  BY <1>1, CheckDataStays DEF Stays
<1>5. Stays(x, trans09_basic(x, c))
  <2>1. PICK h, v : trans09_basic(x, c) = AddData(AddHit(k, h), v, TRUE)
    BY DEF trans09_basic
  <2> HIDE DEF k
  <2>2. Stays(x, AddHit(k, h))
    BY <1>4, AddHitStays DEF Stays
  <2> QED
    BY <2>1, <2>2, AddDataStays DEF Stays
<1>6. Stays(x, trans09_tag(x, c))
  <2>1. PICK h, v : trans09_tag(x, c) = AddData(AddHit(u, h), v, TRUE)
    BY DEF trans09_tag
  <2> HIDE DEF u
  <2>2. Stays(x, AddHit(u, h))
    BY <1>1, AddHitStays DEF Stays
  <2> QED
    BY <2>1, <2>2, AddDataStays DEF Stays
<1>7. Stays(x, trans10_basic(x, c)) /\ Stays(x, trans10_tag(x, c))
  <2> DEFINE h == NewHit(x.ev.ec, FeeId(c[x.i].v), TelId(c[x.i].v))
  <2>1. Stays(x, AddHit(k, h)) /\ Stays(x, AddHit(u, h))
    BY <1>1, <1>4, AddHitStays DEF Stays
  <2> QED
    BY <2>1 DEF trans10_basic, trans10_tag, Fields, Stays
<1> QED
  BY <1>2, <1>3, <1>5, <1>6, <1>7

LEMMA ClosingStays ==
    ASSUME NEW x, Flat(x), NEW c
    PROVE  /\ Stays(x, trans11_basic(x, c)) /\ Stays(x, trans11_tag(x, c))
           /\ Stays(x, trans12(x, c)) /\ Stays(x, trans13(x, c)) /\ Stays(x, trans14(x, c))
           /\ Stays(x, trans15(x, c)) /\ Stays(x, trans16(x, c)) /\ Stays(x, trans18(x, c))
<1>1. Stays(x, update_blk(x, c, x.i, x.i)) /\ DOMAIN x = Fields
  BY UpdateBlkStays DEF Flat
<1>2. Stays(x, trans11_tag(x, c)) /\ Stays(x, trans13(x, c)) /\ Stays(x, trans15(x, c))
  BY <1>1 DEF trans11_tag, trans13, trans15, Fields, Stays
<1>3. Stays(x, trans11_basic(x, c))
  BY <1>2, CheckDataStays DEF trans11_basic, Stays
<1>4. Stays(x, trans12(x, c)) /\ Stays(x, trans14(x, c))
  BY <1>1 DEF trans12, trans14, OnFee, OnBlk, Fields, Stays
<1>5. Stays(x, trans16(x, c))
  BY <1>1 DEF trans16, OnBlk, Fields, Stays
<1>6. Stays(x, trans18(x, c))
  BY <1>1 DEF trans18, Fields, Stays
<1> QED
  BY <1>2, <1>3, <1>4, <1>5, <1>6

\* A machine whose members are all there and whose index is k.
At(x, k) == DOMAIN x = Fields /\ x.i = k

\* Samples: the index stops at the last of them.
LEMMA GatherSamplesIndex ==
    ASSUME NEW x, DOMAIN x = Fields, NEW c, NEW lo, NEW n
    PROVE  At(GatherSamples(x, c, lo, n), lo + n - 1)
<1> DEFINE hi == lo + n - 1
           u == update_fee(update_blk(x, c, lo, hi), c, lo, hi)
           s == [k \in 1..n |-> Word(c, lo + k - 1).v]
           y == [u EXCEPT !.i = hi, !.blklen = @ - 1, !.feelen = @ - 1,
                   !.save_blkcrc = IF n = 0 THEN @ ELSE Xor(x.blkcrc, c, lo, hi - 1),
                   !.save_feecrc = IF n = 0 THEN @ ELSE Xor(x.feecrc, c, lo, hi - 1)]
<1>1. GatherSamples(x, c, lo, n) = OnWf(y, LAMBDA a : [a EXCEPT !.sample = @ \o s])
  BY DEF GatherSamples
<1> HIDE DEF hi, s
<1>2. DOMAIN u = Fields
  BY DEF update_fee, update_blk
<1> HIDE DEF u
<1>3. DOMAIN y = Fields /\ y.i = hi
  BY <1>2 DEF Fields
<1> HIDE DEF y
<1>4. At(OnWf(y, LAMBDA a : [a EXCEPT !.sample = @ \o s]), y.i)
  BY <1>3 DEF OnWf, OnData, OnHit, OnFee, OnBlk, Fields, At
<1> QED
  BY <1>1, <1>3, <1>4 DEF hi

LEMMA SineCosineIndex ==
    ASSUME NEW x, DOMAIN x = Fields, NEW c PROVE At(SineCosine(x, c), x.i + 6)
<1> DEFINE lo == x.i
           u == update_fee(update_blk(x, c, lo, lo + 5), c, lo, lo + 5)
           y == [u EXCEPT !.i = lo + 6, !.save_blkcrc = u.blkcrc, !.save_feecrc = u.feecrc]
           s == [k \in 1..6 |-> Word(c, lo + k - 1).v]
<1>1. SineCosine(x, c) = OnData(y, LAMBDA a : [a EXCEPT !.sincos = s])
  BY DEF SineCosine
<1>2. At(y, lo + 6)
  BY DEF update_fee, update_blk, Fields, At
<1> HIDE DEF y, s
<1> QED
  BY <1>1, <1>2 DEF OnData, OnHit, OnFee, OnBlk, Fields, At

\* A type with an energy has at least the word that entered the transition.
LEMMA RunOfDataPositive ==
    ASSUME NEW c \in Seq(RawWord), NEW lo \in 1..Len(c), c[lo].cls = "DATA"
    PROVE  RunOfData(c, lo) \in Nat /\ RunOfData(c, lo) > 0
<1> DEFINE S == {k \in lo..Len(c) : \A j \in lo..k : c[j].cls = "DATA"}
<1>1. Len(c) \in Nat
  OBVIOUS
<1>2. IsFiniteSet(lo..Len(c))
  BY <1>1, FS_Interval
<1>3. IsFiniteSet(S)
  BY <1>2, FS_Subset
<1>4. lo \in S
  BY <1>1
<1>5. Cardinality(S) \in Nat /\ Cardinality(S) # 0
  <2> HIDE DEF S
  <2>1. Cardinality(S) \in Nat
    BY <1>3, FS_CardinalityType
  <2>2. Cardinality(S) # 0
    BY <1>3, <1>4, FS_EmptySet
  <2> QED
    BY <2>1, <2>2
<1> QED
  BY <1>5 DEF RunOfData

\* A machine of the basic format whose samples are none.
NoSamples(x) ==
    x.wflen_done /\ x.rd_wflen = 0 /\ ~WithEnergy(d(x).type) /\ d(x).type # "ADC"

LEMMA Trans08BasicIndex ==
    ASSUME NEW x, Flat(x), ~NoSamples(x), NEW c \in Seq(RawWord), x.i \in 1..Len(c),
           c[x.i].cls = "DATA"
    PROVE  LET z == trans08_basic(x, c) IN DOMAIN z = Fields /\ z.i \in Nat /\ z.i >= x.i
<1> DEFINE w == c[x.i]
           type == d(x).type
           u == update(x, c)
           m1 == [u EXCEPT !.st = 5]
           m2 == RestoreCrc(m1)
           m3 == IF type = "ADC" THEN SineCosine(m2, c) ELSE m2
           n == IF WithEnergy(type) THEN RunOfData(c, x.i) ELSE x.rd_wflen
           z == trans08_basic(x, c)
           c1 == WithEnergy(type) /\ ~x.energy1_done
           c2 == type = "Q3" /\ x.energy1_done /\ ~x.energy2_done
           c3 == /\ WithEnergy(type) /\ x.energy1_done /\ (type = "Q3" => x.energy2_done)
                 /\ ~x.pretrig_done
           z1 == [OnEn(m1, LAMBDA a : [a EXCEPT !.value[1] = Append(@, w.v)])
                    EXCEPT !.energy1_done = TRUE]
           z2 == OnEn(m1, LAMBDA a : [a EXCEPT !.value = Append(@, <<w.v>>)])
           z3 == [OnEn(m1, LAMBDA a : [a EXCEPT !.value[2] = Append(@, w.v)])
                    EXCEPT !.energy2_done = TRUE]
           z4 == [OnWf(m1, LAMBDA a : [a EXCEPT !.pretrig = w.v]) EXCEPT !.pretrig_done = TRUE]
           z5 == [m1 EXCEPT !.rd_wflen = w.v, !.wflen_done = TRUE]
           z6 == GatherSamples(m3, c, m3.i, n)
<1>1. z = CASE c1 -> z1
            [] c2 -> IF Len(en(x).value) = 1 THEN z2 ELSE z3
            [] c3 -> z4
            [] OTHER -> IF ~x.wflen_done THEN z5 ELSE z6
  BY DEF trans08_basic
<1>2. z \in {z1, z2, z3, z4, z5} \/ (x.wflen_done /\ z = z6)
  <2> HIDE DEF z, c1, c2, c3, z1, z2, z3, z4, z5, z6
  <2> QED
    BY <1>1
<1>3. Stays(x, m1) /\ Flat(m1)
  <2>1. Stays(x, u) /\ Flat(u)
    BY UpdateStays
  <2> HIDE DEF u
  <2> QED
    BY <2>1 DEF Flat, Fields, Stays
<1>4. Stays(x, z1) /\ Stays(x, z2) /\ Stays(x, z3) /\ Stays(x, z4) /\ Stays(x, z5)
  <2> HIDE DEF m1, w
  <2> QED
    BY <1>3 DEF OnEn, OnWf, OnData, OnHit, OnFee, OnBlk, Fields, Stays
<1>5. x.wflen_done => DOMAIN z6 = Fields /\ z6.i \in Nat /\ z6.i >= x.i
  <2> SUFFICES ASSUME x.wflen_done PROVE DOMAIN z6 = Fields /\ z6.i \in Nat /\ z6.i >= x.i
    OBVIOUS
  <2>1. Stays(x, m2)
    <3> HIDE DEF m1
    <3> QED
      BY <1>3 DEF RestoreCrc, Fields, Stays
  <2>2. n \in Nat /\ (n > 0 \/ type = "ADC")
    <3>1. RunOfData(c, x.i) \in Nat /\ RunOfData(c, x.i) > 0
      BY RunOfDataPositive
    <3> QED
      BY <3>1 DEF NoSamples, Flat
  <2> HIDE DEF m2, n
  <2>3. DOMAIN m3 = Fields /\ (IF type = "ADC" THEN m3.i = x.i + 6 ELSE m3.i = x.i)
    BY <2>1, SineCosineIndex DEF Stays, At
  <2> HIDE DEF m3, type
  <2>4. DOMAIN z6 = Fields /\ z6.i = m3.i + n - 1
    BY <2>3, GatherSamplesIndex DEF At
  <2> QED
    BY <2>2, <2>3, <2>4
<1> HIDE DEF z, z1, z2, z3, z4, z5, z6
<1> QED
  BY <1>2, <1>4, <1>5 DEF Stays, Flat, z

-----------------------------------------------------------------------------
(* Tag format: the word behind a waveform without samples is read again.   *)

LEMMA NextWordIndex ==
    ASSUME NEW x, DOMAIN x = Fields, NEW c, NEW n PROVE At(next_event_word(x, c, n), x.i + n)
  BY DEF next_event_word, update_fee, update_blk, Fields, At

LEMMA EnergyIndex ==
    ASSUME NEW x, DOMAIN x = Fields, NEW c, NEW k PROVE At(Energy(x, c, k), x.i + 2)
<1> DEFINE y == next_event_word(x, c, 2)
           low == <<Word(c, x.i + 2).v, c[x.i].v>>
           Set(vs) == IF k \in DOMAIN vs THEN [vs EXCEPT ![k] = @ \o low] ELSE vs
           b == <<Word(c, x.i + 1).v>>
<1>1. Energy(x, c, k) = OnEn(y, LAMBDA a : [a EXCEPT !.value = Set(Append(@, b))])
  BY DEF Energy
<1>2. At(y, x.i + 2)
  BY NextWordIndex
<1> HIDE DEF y, b, Set
<1> QED
  BY <1>1, <1>2 DEF OnEn, OnData, OnHit, OnFee, OnBlk, Fields, At

LEMMA WaveformIndex ==
    ASSUME NEW x, Flat(x), NEW c PROVE At(Waveform(x, c), x.i + x.rd_wflen - 1)
<1> DEFINE n == x.rd_wflen
           m1 == next_event_word(x, c, n)
           m2 == IF n = 0 THEN m1 ELSE
                 [m1 EXCEPT !.save_blkcrc = Xor(x.blkcrc, c, x.i + 1, x.i + n - 1),
                            !.save_feecrc = Xor(x.feecrc, c, x.i + 1, x.i + n - 1)]
           m3 == [m2 EXCEPT !.i = @ - 1, !.blklen = @ - 1, !.feelen = @ - 1]
           m4 == RestoreCrc(m3)
           s == [k \in 1..n |-> Word(c, x.i + k - 1).v]
<1>1. Waveform(x, c) = OnWf(m4, LAMBDA a : [a EXCEPT !.sample = @ \o s])
  BY DEF Waveform
<1>2. At(m1, x.i + n) /\ x.i \in Nat /\ n \in Nat
  BY NextWordIndex DEF Flat
<1> HIDE DEF m1, s, n
<1>3. At(m2, x.i + n)
  BY <1>2 DEF Fields, At
<1> HIDE DEF m2
<1>4. At(m4, x.i + n - 1)
  <2>1. m2.i - 1 = x.i + n - 1
    BY <1>2, <1>3 DEF At
  <2>2. At(m3, m2.i - 1)
    BY <1>3 DEF Fields, At
  <2> HIDE DEF m3
  <2> QED
    BY <2>1, <2>2 DEF RestoreCrc, Fields, At
<1> HIDE DEF m4
<1>5. At(Waveform(x, c), x.i + n - 1)
  BY <1>1, <1>4 DEF OnWf, OnData, OnHit, OnFee, OnBlk, Fields, At
<1> QED
  BY <1>5 DEF n

LEMMA TrigInfoIndex ==
    ASSUME NEW x, DOMAIN x = Fields, NEW c, NEW e, NEW n
    PROVE  At(TrigInfo(x, c, e, n), x.i + (n - 1))
  BY NextWordIndex DEF TrigInfo, Fields, At

LEMMA TagValuesIndex ==
    ASSUME NEW x, Flat(x), NEW c, NEW z, z = TagValues(x, c)
    PROVE  DOMAIN z = Fields /\ z.i \in Int /\ z.i >= x.i - 1
<1> DEFINE w(k) == Word(c, x.i + k).v
           y == next_event_word(x, c, 1)
           z1 == OnWf(x, LAMBDA f : [f EXCEPT !.pretrig = w(0)])
           z2 == OnData(y, LAMBDA a : [a EXCEPT !.baseline = <<w(0), w(1)>>])
           e1 == [k \in 1..x.rd_wflen |-> <<256 + k - 1, w(k - 1)>>]
           e2 == <<<<268, w(0), w(1)>>>>
           e3 == <<<<269, w(0), w(1), hit(x).gttag>>>>
           e4 == <<<<270, w(0), w(1), hit(x).ec>>>>
           e5 == <<<<271, w(0)>>>>
           e6 == <<<<272, w(0)>>>>
           e7 == <<<<512, w(0)>>, <<513, w(1), w(2)>>, <<514, w(3), w(4)>>, <<515, w(5), w(6)>>>>
<1>1. z = CASE x.tag = TAG_PRETRIGGER -> z1
            [] x.tag = TAG_WAVEFORM -> Waveform(x, c)
            [] x.tag = TAG_SLOW -> Energy(x, c, 1)
            [] x.tag = TAG_FAST -> Energy(x, c, 2)
            [] x.tag = TAG_BASELINE -> z2
            [] x.tag = TAG_RB_COUNTERS -> IF x.rd_wflen = 0 THEN x ELSE TrigInfo(x, c, e1, x.rd_wflen)
            [] x.tag = TAG_RB_TIME -> TrigInfo(x, c, e2, 2)
            [] x.tag = TAG_RB_GTTAG -> TrigInfo(x, c, e3, 2)
            [] x.tag = TAG_RB_EC -> TrigInfo(x, c, e4, 2)
            [] x.tag = TAG_RB_TRIGPAT -> TrigInfo(x, c, e5, 1)
            [] x.tag = TAG_RB_TEMP -> TrigInfo(x, c, e6, 1)
            [] x.tag = TAG_RB_CENTRUM -> TrigInfo(x, c, e7, 7)
            [] OTHER -> x
  BY DEF TagValues
<1>2. DOMAIN x = Fields /\ x.i \in Nat /\ x.rd_wflen \in Nat
  BY DEF Flat
<1>3. At(z1, x.i) /\ At(z2, x.i + 1) /\ At(x, x.i)
  <2>1. At(y, x.i + 1)
    BY <1>2, NextWordIndex
  <2> HIDE DEF y, w
  <2> QED
    BY <1>2, <2>1 DEF OnWf, OnData, OnHit, OnFee, OnBlk, Fields, At
<1> HIDE DEF w, z1, z2, e1, e2, e3, e4, e5, e6, e7
<1>4. \/ z \in {x, z1, z2, Waveform(x, c), Energy(x, c, 1), Energy(x, c, 2)}
      \/ x.rd_wflen # 0 /\ z = TrigInfo(x, c, e1, x.rd_wflen)
      \/ z \in {TrigInfo(x, c, e2, 2), TrigInfo(x, c, e3, 2), TrigInfo(x, c, e4, 2)}
      \/ z \in {TrigInfo(x, c, e5, 1), TrigInfo(x, c, e6, 1), TrigInfo(x, c, e7, 7)}
  BY <1>1
<1>5. /\ At(Waveform(x, c), x.i + x.rd_wflen - 1)
      /\ At(Energy(x, c, 1), x.i + 2) /\ At(Energy(x, c, 2), x.i + 2)
  BY <1>2, WaveformIndex, EnergyIndex
<1>6. /\ At(TrigInfo(x, c, e1, x.rd_wflen), x.i + (x.rd_wflen - 1))
      /\ At(TrigInfo(x, c, e2, 2), x.i + (2 - 1)) /\ At(TrigInfo(x, c, e3, 2), x.i + (2 - 1))
      /\ At(TrigInfo(x, c, e4, 2), x.i + (2 - 1)) /\ At(TrigInfo(x, c, e5, 1), x.i + (1 - 1))
      /\ At(TrigInfo(x, c, e6, 1), x.i + (1 - 1)) /\ At(TrigInfo(x, c, e7, 7), x.i + (7 - 1))
  BY <1>2, TrigInfoIndex
<1>7. \E k \in Int : At(z, k) /\ k >= x.i - 1
  <2>1. /\ x.i \in Int /\ x.i >= x.i - 1 /\ x.i + 1 \in Int /\ x.i + 1 >= x.i - 1
        /\ x.i + 2 \in Int /\ x.i + 2 >= x.i - 1
        /\ x.i + x.rd_wflen - 1 \in Int /\ x.i + x.rd_wflen - 1 >= x.i - 1
        /\ x.i + (x.rd_wflen - 1) \in Int /\ x.i + (x.rd_wflen - 1) >= x.i - 1
        /\ x.i + (2 - 1) \in Int /\ x.i + (2 - 1) >= x.i - 1
        /\ x.i + (1 - 1) \in Int /\ x.i + (1 - 1) >= x.i - 1
        /\ x.i + (7 - 1) \in Int /\ x.i + (7 - 1) >= x.i - 1
    BY <1>2
  <2> QED
    BY <1>3, <1>4, <1>5, <1>6, <2>1
<1> QED
  BY <1>7 DEF At

LEMMA EndTagIndex ==
    ASSUME NEW x, DOMAIN x = Fields PROVE At(EndTag(x), x.i) /\ EndTag(x).tag_done = FALSE
<1> DEFINE ok == x.tag = TAG_WAVEFORM => x.rd_wflen = Len(wf(x).sample)
           y == IF x.tag # TAG_WAVEFORM THEN x ELSE OnWf(x, LAMBDA a : [a EXCEPT !.len_error = ~ok])
<1>1. EndTag(x) = [y EXCEPT !.err_in_event = @ \/ ~ok, !.tag_done = FALSE, !.wflen_done = FALSE,
                            !.rd_wflen = 0]
  BY DEF EndTag
<1> HIDE DEF ok
<1>2. At(y, x.i)
  BY DEF OnWf, OnData, OnHit, OnFee, OnBlk, Fields, At
<1> HIDE DEF y
<1> QED
  BY <1>1, <1>2 DEF Fields, At

LEMMA Trans08TagIndex ==
    ASSUME NEW x, Flat(x), NEW c
    PROVE  LET z == trans08_tag(x, c)
           IN  /\ DOMAIN z = Fields /\ z.i \in Int
               /\ z.i >= x.i \/ (z.i = x.i - 1 /\ x.tag_done /\ z.tag_done = FALSE)
<1> DEFINE u == update(x, c)
           y == [u EXCEPT !.st = 5]
           v == TagValues(y, c)
           z == trans08_tag(x, c)
           z1 == StoreTag(y, c[x.i].v)
           z2 == [y EXCEPT !.rd_wflen = c[x.i].v, !.wflen_done = TRUE]
           z3 == EndTag(v)
<1>1. z = CASE ~x.tag_done                  -> z1
            [] x.tag_done /\ ~x.wflen_done  -> z2
            [] x.tag_done /\ x.wflen_done   -> z3
  BY DEF trans08_tag
<1>2. x.i \in Nat
  BY DEF Flat
<1>3. Stays(x, y) /\ Flat(y)
  <2>1. Stays(x, u) /\ Flat(u)
    BY UpdateStays
  <2> HIDE DEF u
  <2> QED
    BY <2>1 DEF Flat, Fields, Stays
<1> HIDE DEF y
<1>4. Stays(x, z1) /\ Stays(x, z2)
  BY <1>3, StoreTagStays DEF Fields, Stays
<1>5. DOMAIN v = Fields /\ v.i \in Int /\ v.i >= x.i - 1
  <2> HIDE DEF v
  <2> QED
    BY <1>3, TagValuesIndex DEF v, Stays
<1> HIDE DEF v
<1>6. DOMAIN z3 = Fields /\ z3.i = v.i /\ z3.tag_done = FALSE
  BY <1>5, EndTagIndex DEF At
<1>7. z3.i >= x.i \/ z3.i = x.i - 1
  BY <1>2, <1>5, <1>6
<1> HIDE DEF z, z1, z2, z3
<1>8. (z = z1 \/ z = z2) \/ (x.tag_done /\ z = z3)
  BY <1>1
<1>9. CASE z = z1 \/ z = z2
  BY <1>2, <1>4, <1>9 DEF Stays, z
<1>10. CASE x.tag_done /\ z = z3
  BY <1>2, <1>5, <1>6, <1>7, <1>10 DEF z
<1> QED
  BY <1>8, <1>9, <1>10

-----------------------------------------------------------------------------
(* Every iteration of process() comes nearer to the end of the event.      *)

Nearer == m'.i > m.i \/ (m'.i = m.i /\ m.tag_done /\ ~m'.tag_done)

LEMMA StaysIsNearer ==
    ASSUME NEW n, Flat(m), Stays(m, n), Become(n) PROVE Nearer
<1>1. m' = [n EXCEPT !.i = @ + 1] /\ DOMAIN n = Fields /\ n.i = m.i
  BY DEF Become, Stays
<1>2. m'.i = m.i + 1
  BY <1>1 DEF Fields
<1> QED
  BY <1>2 DEF Flat, Nearer

LEMMA SamplesAreNearer == ASSUME ParserInv, Trans08, ~SampleOfNone PROVE Nearer
<1> DEFINE c == raw.words
           b == trans08_basic(m, c)
           t == trans08_tag(m, c)
<1>1. /\ Live(m) /\ c \in Seq(RawWord) /\ m.i \in 1..Len(c) /\ m.st = 5 /\ c[m.i].cls = "DATA"
      /\ m.evformat \in {FMT_BASIC, FMT_TAG}
  BY AtWordFacts, FiresIn DEF Trans08, Entered
<1>2. Flat(m) /\ m.i \in Nat
  BY <1>1 DEF Live, Flat
<1>3. CASE m.evformat = FMT_BASIC
  <2>1. ~NoSamples(m)
    BY <1>3 DEF SampleOfNone, NoSamples, Trans08
  <2>2. DOMAIN b = Fields /\ b.i \in Nat /\ b.i >= m.i
    BY <1>1, <1>2, <2>1, Trans08BasicIndex
  <2>3. m' = [b EXCEPT !.i = @ + 1]
    BY <1>3 DEF Trans08, Become, Format
  <2> HIDE DEF b
  <2>4. m'.i = b.i + 1
    BY <2>2, <2>3 DEF Fields
  <2> QED
    BY <1>2, <2>2, <2>4 DEF Nearer
<1>4. CASE m.evformat = FMT_TAG
  <2>1. /\ DOMAIN t = Fields /\ t.i \in Int
        /\ t.i >= m.i \/ (t.i = m.i - 1 /\ m.tag_done /\ t.tag_done = FALSE)
    BY <1>2, Trans08TagIndex
  <2>2. m' = [t EXCEPT !.i = @ + 1]
    BY <1>4 DEF Trans08, Become, Format, FMT_BASIC, FMT_TAG
  <2> HIDE DEF t
  <2>3. m'.i = t.i + 1 /\ m'.tag_done = t.tag_done
    BY <2>1, <2>2 DEF Fields
  <2>4. CASE t.i >= m.i
    BY <1>2, <2>1, <2>3, <2>4 DEF Nearer
  <2>5. CASE t.i = m.i - 1 /\ m.tag_done /\ t.tag_done = FALSE
    <3>1. m'.i = m.i
      BY <1>2, <2>3, <2>5
    <3> QED
      BY <2>3, <2>5, <3>1 DEF Nearer
  <2> QED
    BY <2>1, <2>4, <2>5
<1> QED
  BY <1>1, <1>3, <1>4

LEMMA IterationIsNearer ==
    ASSUME ParserInv, Process, pc = "process", pc' = "process", ~SampleOfNone PROVE Nearer
<1> DEFINE c == raw.words
<1>1. Flat(m) /\ Stays(m, m)
  BY DEF ParserInv, ThreadOk, Flat, Stays
<1>2. ASSUME NEW n, Stays(m, n), Become(n) PROVE Nearer
  BY <1>1, <1>2, StaysIsNearer
<1>3. CASE EmptyWord \/ Trans01
  BY <1>1, <1>2, <1>3 DEF EmptyWord, Trans01
<1>4. CASE Trans00 \/ Trans02 \/ Trans03 \/ Trans04 \/ Trans05 \/ Trans06 \/ Trans17
  BY <1>1, <1>2, <1>4, OpeningStays
     DEF Trans00, Trans02, Trans03, Trans04, Trans05, Trans06, Trans17
<1>5. CASE Trans07 \/ Trans09 \/ Trans10
  BY <1>1, <1>2, <1>5, DataStays DEF Trans07, Trans09, Trans10, Format
<1>6. CASE Trans08
  BY <1>6, SamplesAreNearer
<1>7. CASE Trans11 \/ Trans12 \/ Trans13 \/ Trans14 \/ Trans15 \/ Trans16
  BY <1>1, <1>2, <1>7, ClosingStays
     DEF Trans11, Trans12, Trans13, Trans14, Trans15, Trans16, Format
<1>8. CASE Trans18
  BY <1>1, <1>2, <1>8, ClosingStays DEF Trans18
<1>9. CASE Return
  BY <1>9 DEF Return
<1> QED
  BY <1>3, <1>4, <1>5, <1>6, <1>7, <1>8, <1>9 DEF Process

-----------------------------------------------------------------------------
(* Error flags: what is true of the marks while no error is remembered.    *)

CleanFee(f) == ~f.len /\ ~f.crc
CleanBlk(b) == ~b.len /\ ~b.crc /\ \A j \in DOMAIN b.fee : CleanFee(b.fee[j])

\* All blocks but the last are clean, and all cards of the last but the one
\* at hand; between the cards those of the last block are all clean, and
\* between the blocks everything.
Spotless(M, st) ==
    /\ \A k \in DOMAIN M.blk : k # M.n \/ st = 10 => CleanBlk(M.blk[k])
    /\ st \in 1..9 =>
         \A j \in DOMAIN M.blk[M.n].fee :
            j # M.blk[M.n].n \/ st \in {1, 7, 8, 9} => CleanFee(M.blk[M.n].fee[j])

Sound(x) ==
    /\ x.st = 0 => x.ev.block = <<>>
    /\ x.st # 0 /\ ~x.err_in_event => Spotless(Marks(x), x.st)

\* The last block has other marks.
Remark(M, b) == [M EXCEPT !.blk[M.n] = b]

LEMMA AppendParts ==
    ASSUME NEW s, IsSeq(s), NEW x, NEW t, t = Append(s, x)
    PROVE  /\ Len(t) = Len(s) + 1 /\ DOMAIN t = DOMAIN s \cup {Len(t)}
           /\ \A k \in DOMAIN s : t[k] = s[k]
<1>1. PICK S : s \in Seq(S)
  BY DEF IsSeq
<1>2. s \in Seq(S \cup {x}) /\ x \in S \cup {x}
  BY <1>1
<1>3. /\ t \in Seq(S \cup {x}) /\ Len(t) = Len(s) + 1 /\ Len(s) \in Nat
      /\ \A k \in 1..Len(s) : t[k] = s[k]
  BY <1>2, AppendProperties
<1>4. DOMAIN t = 1..Len(t) /\ DOMAIN s = 1..Len(s)
  BY <1>2, <1>3
<1>5. 1..Len(t) = (1..Len(s)) \cup {Len(t)}
  BY <1>3
<1> QED
  BY <1>3, <1>4, <1>5

LEMMA FrontParts ==
    ASSUME NEW s, IsSeq(s), NEW t, t = Front(s)
    PROVE  DOMAIN t \subseteq DOMAIN s /\ \A k \in DOMAIN t : t[k] = s[k]
<1>1. PICK S : s \in Seq(S)
  BY DEF IsSeq
<1>2. Len(s) \in Nat /\ DOMAIN s = 1..Len(s) /\ \A k \in 1..(Len(s) - 1) : s[k] \in S
  BY <1>1
<1>3. t = [k \in 1..(Len(s) - 1) |-> s[k]]
  BY <1>2 DEF Front
<1>4. 1..(Len(s) - 1) \subseteq 1..Len(s)
  BY <1>2
<1> QED
  BY <1>2, <1>3, <1>4

\* The marks have a last block when the tree has one.
LEMMA LastMarks ==
    ASSUME NEW x, HasBlk(x), NEW M, M = Marks(x)
    PROVE  /\ DOMAIN M = {"n", "blk"} /\ M.n \in DOMAIN M.blk
           /\ M.blk[M.n] = BlkMark(blk(x))
<1>1. PICK S : x.ev.block \in Seq(S)
  BY DEF HasBlk, HasEv, IsSeq
<1>2. Len(x.ev.block) \in DOMAIN x.ev.block
  BY <1>1, EmptySeq DEF HasBlk
<1> QED
  BY <1>2 DEF Marks, blk, Last

LEMMA SetBlkRemarks ==
    ASSUME NEW x, Flat(x), HasBlk(x), NEW b
    PROVE  Marks(SetBlk(x, b)) = Remark(Marks(x), BlkMark(b))
<1> DEFINE y == SetBlk(x, b)
           s == x.ev.block
<1>1. y.ev.block = Put(s, b)
  BY DEF Flat, Fields, SetBlk, HasBlk, HasEv
<1>2. IsSeq(s) /\ s # <<>>
  BY DEF HasBlk, HasEv
<1> HIDE DEF y, s
<1>3. /\ Len(s) \in DOMAIN s /\ DOMAIN Put(s, b) = DOMAIN s /\ Len(Put(s, b)) = Len(s)
      /\ \A k \in DOMAIN s : Put(s, b)[k] = IF k = Len(s) THEN b ELSE s[k]
  BY <1>2, PutParts
<1>4. \A k \in DOMAIN s : BlkMark(Put(s, b)[k]) = IF k = Len(s) THEN BlkMark(b) ELSE BlkMark(s[k])
  BY <1>3
<1> DEFINE F == [k \in DOMAIN s |-> BlkMark(s[k])]
           G == [k \in DOMAIN s |-> BlkMark(Put(s, b)[k])]
<1>5. Marks(x) = [n |-> Len(s), blk |-> F] /\ Marks(y) = [n |-> Len(s), blk |-> G]
  BY <1>1, <1>3 DEF Marks, s
<1>6. G = [F EXCEPT ![Len(s)] = BlkMark(b)]
  BY <1>3, <1>4
<1> HIDE DEF F, G
<1> QED
  BY <1>5, <1>6 DEF Remark, y

\* A step that leaves the marks alone, inside a card or between cards.
LEMMA WithinSound ==
    ASSUME NEW x, NEW y, Sound(x), Within(x, y),
           \/ x.st \in 2..6
           \/ x.st \in {1, 7, 8, 9} /\ y.st \in {1, 7, 8, 9}
    PROVE  Sound(y)
<1> DEFINE M == Marks(x)
<1>1. Marks(y) = M /\ (x.err_in_event => y.err_in_event) /\ (x.st \in 2..6 => y.st \in 2..6)
  BY DEF Within
<1> HIDE DEF M
<1>2. Spotless(M, x.st) => Spotless(M, y.st)
  BY <1>1 DEF Spotless
<1> QED
  BY <1>1, <1>2 DEF Sound, M

\* The machine is the same but for members that no flag depends on.
LEMMA SameSound ==
    ASSUME NEW x, NEW y, Sound(x), SameTree(x, y), y.st = x.st,
           x.err_in_event => y.err_in_event
    PROVE  Sound(y)
  BY TreeIsMarks DEF Sound, SameTree

\* The last block is another one, all cards of which are clean but, inside a
\* card, the last.
LEMMA LastSound ==
    ASSUME NEW M, DOMAIN M = {"n", "blk"}, M.n \in DOMAIN M.blk,
           NEW s \in 1..9, Spotless(M, s), NEW t \in 1..9, NEW b,
           \A j \in DOMAIN b.fee : j # b.n \/ t \in {1, 7, 8, 9} => CleanFee(b.fee[j])
    PROVE  Spotless(Remark(M, b), t)
<1> DEFINE N == Remark(M, b)
<1>1. /\ N.n = M.n /\ DOMAIN N.blk = DOMAIN M.blk /\ N.blk[M.n] = b
      /\ \A k \in DOMAIN M.blk : k # M.n => N.blk[k] = M.blk[k]
  BY DEF Remark
<1> HIDE DEF N
<1>2. \A k \in DOMAIN N.blk : k # N.n => CleanBlk(N.blk[k])
  BY <1>1 DEF Spotless
<1> QED
  BY <1>1, <1>2 DEF Spotless, N

-----------------------------------------------------------------------------
(* The transitions that open and close cards and blocks.                   *)

LEMMA Trans02Sound ==
    ASSUME NEW x, Live(x), x.st = 0, Sound(x), NEW c PROVE Sound(trans02(x, c))
<1> DEFINE z == trans02(x, c)
<1>1. z.st = 1 /\ z.ev.block = Append(x.ev.block, NewBlock)
  BY DEF trans02, StartBlock, Live, Flat, Fields, HasEv
<1>2. x.ev.block = <<>>
  BY DEF Sound
<1> HIDE DEF z
<1>3. z.ev.block = <<NewBlock>>
  BY <1>1, <1>2
<1>4. Marks(z).n = 1 /\ Marks(z).blk = [k \in {1} |-> BlkMark(NewBlock)]
  BY <1>3 DEF Marks
<1>5. BlkMark(NewBlock).fee = [j \in {} |-> FeeMark(<<>>[j])]
  BY DEF BlkMark, NewBlock
<1>6. Spotless(Marks(z), 1)
  BY <1>4, <1>5 DEF Spotless
<1> QED
  BY <1>1, <1>6 DEF Sound, z

LEMMA Trans17Sound ==
    ASSUME NEW x, Live(x), x.st = 10, Sound(x), NEW c PROVE Sound(trans17(x, c))
<1> DEFINE z == trans17(x, c)
           s == x.ev.block
           t == Append(s, NewBlock)
<1>1. z.st = 1 /\ z.ev.block = t /\ z.err_in_event = x.err_in_event
  BY DEF trans17, StartBlock, Live, Flat, Fields, HasEv
<1>2. /\ Len(t) = Len(s) + 1 /\ DOMAIN t = DOMAIN s \cup {Len(t)}
      /\ \A k \in DOMAIN s : t[k] = s[k]
  BY AppendParts DEF Live, HasEv
<1>3. t[Len(t)] = NewBlock
  BY AppendIsSeq DEF Live, HasEv, Last
<1> HIDE DEF z, t
<1>4. BlkMark(NewBlock).fee = [j \in {} |-> FeeMark(<<>>[j])]
  BY DEF BlkMark, NewBlock
<1>5. ASSUME ~x.err_in_event PROVE Spotless(Marks(z), 1)
  <2>1. \A k \in DOMAIN s : CleanBlk(BlkMark(s[k]))
    <3>1. Spotless(Marks(x), 10)
      BY <1>5 DEF Sound
    <3>2. Marks(x).blk = [k \in DOMAIN s |-> BlkMark(s[k])]
      BY DEF Marks
    <3> QED
      BY <3>1, <3>2 DEF Spotless
  <2>2. /\ Marks(z).n = Len(t) /\ DOMAIN Marks(z).blk = DOMAIN t
        /\ \A k \in DOMAIN t : Marks(z).blk[k] = BlkMark(t[k])
    BY <1>1 DEF Marks
  <2>3. \A k \in DOMAIN t : k # Len(t) => CleanBlk(BlkMark(t[k]))
    BY <1>2, <2>1
  <2>4. Marks(z).blk[Marks(z).n].fee = [j \in {} |-> FeeMark(<<>>[j])]
    BY <1>2, <1>3, <1>4, <2>2
  <2> QED
    BY <2>2, <2>3, <2>4 DEF Spotless
<1> QED
  BY <1>1, <1>5 DEF Sound, z

LEMMA Trans03Sound ==
    ASSUME NEW x, Live(x), x.st = 1, Sound(x), NEW c PROVE Sound(trans03(x, c))
<1> DEFINE w == c[x.i]
           u == update_blk(x, c, x.i, x.i)
           y == [u EXCEPT !.feelen = 2, !.feecrc = SymDiff({x.tmp_rawec}, {w.id}), !.st = 2]
           h == NewHit(x.tmp_ec, FeeId(w.v), TelId(w.v))
           f == [NewFee(FeeId(w.v)) EXCEPT !.hit = <<h>>]
           b == [blk(y) EXCEPT !.fee = Append(@, f)]
           z == trans03(x, c)
<1>0. Flat(x) /\ HasBlk(x)
  BY DEF Live
<1>1. Flat(u) /\ SameMode(x, u) /\ SameTree(x, u)
  BY <1>0, UpdateBlkLive
<1>2. z = SetBlk(y, b)
  BY DEF trans03, OnBlk, OnLast, SetBlk, Put, blk, Last
<1> HIDE DEF u, f
<1>3. Flat(y) /\ SameMode(u, y) /\ SameTree(u, y) /\ y.st = 2
  BY <1>1 DEF Flat, Fields, SameMode, Kept, SameTree
<1>4. HasBlk(y) /\ blk(y) = blk(x) /\ Within(x, y)
  BY <1>0, <1>1, <1>3, TreeIsEv, TreeIsMarks DEF Within, SameMode
<1> HIDE DEF y
<1>5. z.st = 2 /\ z.err_in_event = y.err_in_event
  BY <1>2, <1>3 DEF SetBlk, Flat, Fields
<1>6. Marks(z) = Remark(Marks(x), BlkMark(b))
  BY <1>2, <1>3, <1>4, SetBlkRemarks DEF Within
<1>7. BlkMark(b).n = Len(b.fee) /\ b.fee = Append(blk(x).fee, f) /\ IsSeq(blk(x).fee)
  BY <1>0, <1>4 DEF BlkMark, HasBlk, BlkOk
<1>8. /\ DOMAIN b.fee = DOMAIN blk(x).fee \cup {Len(b.fee)}
      /\ \A k \in DOMAIN blk(x).fee : b.fee[k] = blk(x).fee[k]
  BY <1>7, AppendParts
<1>9. \A j \in DOMAIN BlkMark(b).fee : BlkMark(b).fee[j] = FeeMark(b.fee[j]) /\ j \in DOMAIN b.fee
  BY DEF BlkMark
<1> HIDE DEF b, z
<1>10. ASSUME ~x.err_in_event PROVE Spotless(Marks(z), 2)
  <2>1. Spotless(Marks(x), 1)
    BY <1>10 DEF Sound
  <2>2. \A j \in DOMAIN blk(x).fee : CleanFee(FeeMark(blk(x).fee[j]))
    <3>1. Marks(x).blk[Marks(x).n] = BlkMark(blk(x))
      BY <1>0, LastMarks
    <3>2. \A j \in DOMAIN BlkMark(blk(x)).fee : CleanFee(BlkMark(blk(x)).fee[j])
      BY <2>1, <3>1 DEF Spotless
    <3> QED
      BY <3>2 DEF BlkMark
  <2>3. \A j \in DOMAIN BlkMark(b).fee : j # BlkMark(b).n => CleanFee(BlkMark(b).fee[j])
    BY <1>7, <1>8, <1>9, <2>2
  <2>4. DOMAIN Marks(x) = {"n", "blk"} /\ Marks(x).n \in DOMAIN Marks(x).blk
    BY <1>0, LastMarks
  <2> QED
    BY <1>6, <2>1, <2>3, <2>4, LastSound
<1> QED
  BY <1>4, <1>5, <1>10 DEF Sound, Within, z

\* A card whose length and CRC are right is clean.
LEMMA Trans12Sound ==
    ASSUME NEW x, Live(x), x.st = 6, Sound(x), NEW c PROVE Sound(trans12(x, c))
<1> DEFINE u == update_blk(x, c, x.i, x.i)
           lenok == x.feelen % LengthMod = x.rd_feelen
           crcok == x.feecrc = c[x.i].crc
           f == [fee(u) EXCEPT !.len_error = ~lenok, !.crc_error = ~crcok]
           b == [blk(u) EXCEPT !.fee = Put(@, f)]
           y == SetBlk(u, b)
           z == trans12(x, c)
<1>0. Flat(x) /\ HasFee(x) /\ HasBlk(x)
  BY DEF Live, HasHit, HasFee
<1>1. Flat(u) /\ SameMode(x, u) /\ SameTree(x, u)
  BY <1>0, UpdateBlkLive
<1>2. z = [y EXCEPT !.err_in_event = @ \/ ~lenok \/ ~crcok, !.st = 7]
  BY DEF trans12, OnFee, OnBlk, OnLast, SetBlk, Put, fee, blk, Last
<1> HIDE DEF u, lenok, crcok, z
<1>3. /\ HasFee(u) /\ HasBlk(u) /\ fee(u) = fee(x) /\ blk(u) = blk(x)
      /\ Marks(u) = Marks(x) /\ (x.err_in_event => u.err_in_event)
  BY <1>0, <1>1, TreeIsEv, TreeIsMarks DEF SameMode
<1>4. f.len_error = ~lenok /\ f.crc_error = ~crcok
  BY <1>3 DEF HasFee, FeeOk
<1>5. b.fee = Put(blk(x).fee, f) /\ IsSeq(blk(x).fee) /\ blk(x).fee # <<>>
  BY <1>0, <1>3 DEF HasFee, HasBlk, BlkOk
<1> HIDE DEF f
<1>6. /\ DOMAIN b.fee = DOMAIN blk(x).fee /\ Len(b.fee) = Len(blk(x).fee)
      /\ \A j \in DOMAIN b.fee : b.fee[j] = IF j = Len(b.fee) THEN f ELSE blk(x).fee[j]
  BY <1>5, PutParts
<1> HIDE DEF b
<1>7. Marks(y) = Remark(Marks(x), BlkMark(b))
  BY <1>1, <1>3, SetBlkRemarks
<1>8. y.err_in_event = u.err_in_event /\ DOMAIN y = Fields
  BY <1>1 DEF SetBlk, Flat, Fields
<1> HIDE DEF y
<1>9. /\ z.st = 7 /\ z.ev = y.ev
      /\ z.err_in_event = (y.err_in_event \/ ~lenok \/ ~crcok)
  BY <1>2, <1>8 DEF Fields
<1>10. Marks(z) = Remark(Marks(x), BlkMark(b))
  BY <1>7, <1>9 DEF Marks
<1>11. ASSUME ~z.err_in_event PROVE Spotless(Marks(z), 7)
  <2>1. ~x.err_in_event /\ lenok /\ crcok
    BY <1>3, <1>8, <1>9, <1>11
  <2>2. Spotless(Marks(x), 6)
    BY <2>1 DEF Sound
  <2>3. CleanFee(FeeMark(f))
    BY <1>4, <2>1 DEF CleanFee, FeeMark
  <2>4. /\ DOMAIN Marks(x) = {"n", "blk"} /\ Marks(x).n \in DOMAIN Marks(x).blk
        /\ Marks(x).blk[Marks(x).n] = BlkMark(blk(x))
    BY <1>0, LastMarks
  <2>5. \A j \in DOMAIN blk(x).fee : j # Len(blk(x).fee) => CleanFee(FeeMark(blk(x).fee[j]))
    <3>1. \A j \in DOMAIN BlkMark(blk(x)).fee :
             j # BlkMark(blk(x)).n => CleanFee(BlkMark(blk(x)).fee[j])
      BY <2>2, <2>4 DEF Spotless
    <3> QED
      BY <3>1 DEF BlkMark
  <2>6. \A j \in DOMAIN b.fee : CleanFee(FeeMark(b.fee[j]))
    BY <1>6, <2>3, <2>5
  <2>7. \A j \in DOMAIN BlkMark(b).fee : CleanFee(BlkMark(b).fee[j])
    BY <2>6 DEF BlkMark
  <2> QED
    BY <1>10, <2>2, <2>4, <2>7, LastSound
<1> QED
  BY <1>9, <1>11 DEF Sound, z

LEMMA Trans13Sound ==
    ASSUME NEW x, Live(x), x.st = 7, Sound(x), NEW c PROVE Sound(trans13(x, c))
<1> DEFINE u == update_blk(x, c, x.i, x.i)
           z == trans13(x, c)
<1>1. Flat(u) /\ SameMode(x, u) /\ SameTree(x, u)
  BY UpdateBlkLive DEF Live
<1>2. z = [u EXCEPT !.tmp_ec = c[x.i].v, !.tmp_rawec = c[x.i].id, !.st = 1]
  BY DEF trans13
<1> HIDE DEF u, z
<1>3. SameMode(u, z) /\ SameTree(u, z) /\ z.st = 1
  BY <1>1, <1>2 DEF Flat, Fields, SameMode, Kept, SameTree
<1>4. Within(x, z)
  BY <1>1, <1>3, TreeIsMarks DEF Within, SameMode
<1> QED
  BY <1>3, <1>4, WithinSound DEF z

LEMMA Trans14Sound ==
    ASSUME NEW x, Live(x), x.st = 1, Sound(x), NEW c PROVE Sound(trans14(x, c))
<1> DEFINE u == update_blk(x, c, x.i, x.i)
           b == [blk(u) EXCEPT !.blkid = c[x.i].v]
           y == SetBlk(u, b)
           z == trans14(x, c)
<1>0. Flat(x) /\ HasBlk(x)
  BY DEF Live
<1>1. Flat(u) /\ SameMode(x, u) /\ SameTree(x, u)
  BY <1>0, UpdateBlkLive
<1>2. z = [y EXCEPT !.st = 8]
  BY DEF trans14, OnBlk, OnLast, SetBlk, Put, blk, Last
<1> HIDE DEF u, z
<1>3. HasBlk(u)
  BY <1>0, <1>1, TreeIsEv
<1>4. BlkOk(b) /\ BlkMark(b) = BlkMark(blk(u))
  BY <1>3 DEF HasBlk, BlkOk, BlkMark
<1> HIDE DEF b
<1>5. SameButEv(u, y) /\ Marks(y) = Marks(u)
  BY <1>1, <1>3, <1>4, SetBlkLive, SetBlkMarks
<1> HIDE DEF y
<1>6. Flat(y) /\ SameMode(u, y)
  BY <1>1, <1>5, ButEv
<1>7. SameMode(y, z) /\ SameTree(y, z) /\ z.st = 8
  BY <1>2, <1>6 DEF Flat, Fields, SameMode, Kept, SameTree
<1>8. Within(x, z)
  BY <1>1, <1>5, <1>6, <1>7, TreeIsMarks DEF Within, SameMode
<1> QED
  BY <1>7, <1>8, WithinSound DEF z

LEMMA Trans15Sound ==
    ASSUME NEW x, Live(x), x.st = 8, Sound(x), NEW c PROVE Sound(trans15(x, c))
<1> DEFINE z == trans15(x, c)
<1>1. SameTree(x, z) /\ z.st = 9 /\ z.err_in_event = x.err_in_event
  BY DEF trans15, Live, Flat, Fields, SameTree
<1> HIDE DEF z
<1>2. Within(x, z)
  BY <1>1, TreeIsMarks DEF Within
<1> QED
  BY <1>1, <1>2, WithinSound DEF z

\* A block whose length and CRC are right is clean; the fake block goes.
LEMMA Trans16Sound ==
    ASSUME NEW x, Live(x), x.st = 9, Sound(x), NEW c PROVE Sound(trans16(x, c))
<1> DEFINE lenok == BlockLengthOk(x)
           crcok == x.blkcrc = c[x.i].crc
           fake == crcok /\ blk(x).blkid = FAKE_BLOCK
           info == fake /\ x.evformat = FMT_BASIC /\ blk(x).fee # <<>>
           t == read_triggerinfo(blk(x))
           b == [blk(x) EXCEPT !.len_error = ~lenok, !.crc_error = ~crcok]
           y == SetBlk(x, b)
           z == trans16(x, c)
<1>0. Flat(x) /\ HasBlk(x)
  BY DEF Live
<1>1. z = [y EXCEPT !.err_in_event = @ \/ ~lenok \/ ~crcok, !.st = 10,
                    !.ev.trinfo = IF info THEN @ \o t ELSE @,
                    !.ev.block = IF fake THEN Front(@) ELSE @]
  <2> DEFINE v == OnBlk(x, LAMBDA a : [a EXCEPT !.len_error = ~lenok, !.crc_error = ~crcok])
  <2>1. z = [v EXCEPT !.err_in_event = @ \/ ~lenok \/ ~crcok, !.st = 10,
                    !.ev.trinfo = IF info THEN @ \o t ELSE @,
                    !.ev.block = IF fake THEN Front(@) ELSE @]
    BY DEF trans16
  <2> HIDE DEF lenok, crcok
  <2>2. v = y
    BY DEF OnBlk, OnLast, SetBlk, Put, blk, Last
  <2> HIDE DEF v, y, fake, info, t, z
  <2> QED
    BY <2>1, <2>2
<1> HIDE DEF lenok, crcok, fake, info, t, z
<1>2. BlkOk(b) /\ b.len_error = ~lenok /\ b.crc_error = ~crcok /\ b.fee = blk(x).fee
  BY <1>0 DEF HasBlk, BlkOk
<1> HIDE DEF b
<1>3. SameButEv(x, y) /\ HasBlk(y) /\ Marks(y) = Remark(Marks(x), BlkMark(b))
  BY <1>0, <1>2, SetBlkLive, SetBlkRemarks
<1>4. y.err_in_event = x.err_in_event /\ DOMAIN y = Fields
  BY <1>0 DEF SetBlk, Flat, Fields
<1> HIDE DEF y
<1>5. HasEv(y)
  BY <1>3 DEF HasBlk
<1>6. /\ z.st = 10 /\ z.err_in_event = (y.err_in_event \/ ~lenok \/ ~crcok)
      /\ z.ev.block = IF fake THEN Front(y.ev.block) ELSE y.ev.block
  BY <1>1, <1>4, <1>5 DEF Fields, HasEv
<1>7. ASSUME ~z.err_in_event PROVE Spotless(Marks(z), 10)
  <2>1. ~x.err_in_event /\ lenok /\ crcok
    BY <1>4, <1>6, <1>7
  <2>2. Spotless(Marks(x), 9)
    BY <2>1 DEF Sound
  <2>3. /\ DOMAIN Marks(x) = {"n", "blk"} /\ Marks(x).n \in DOMAIN Marks(x).blk
        /\ Marks(x).blk[Marks(x).n] = BlkMark(blk(x))
    BY <1>0, LastMarks
  <2>4. CleanBlk(BlkMark(b))
    <3>1. \A j \in DOMAIN BlkMark(blk(x)).fee : CleanFee(BlkMark(blk(x)).fee[j])
      BY <2>2, <2>3 DEF Spotless
    <3>2. BlkMark(b).fee = BlkMark(blk(x)).fee
      BY <1>2 DEF BlkMark
    <3>3. ~BlkMark(b).len /\ ~BlkMark(b).crc
      BY <1>2, <2>1 DEF BlkMark
    <3> QED
      BY <3>1, <3>2, <3>3 DEF CleanBlk
  <2>5. \A k \in DOMAIN Marks(y).blk : CleanBlk(Marks(y).blk[k])
    <3>1. /\ DOMAIN Marks(y).blk = DOMAIN Marks(x).blk /\ Marks(y).blk[Marks(x).n] = BlkMark(b)
          /\ \A k \in DOMAIN Marks(x).blk : k # Marks(x).n => Marks(y).blk[k] = Marks(x).blk[k]
      BY <1>3, <2>3 DEF Remark
    <3> QED
      BY <2>2, <2>4, <3>1 DEF Spotless
  <2>6. \A k \in DOMAIN y.ev.block : CleanBlk(BlkMark(y.ev.block[k]))
    BY <2>5 DEF Marks
  <2>7. \A k \in DOMAIN z.ev.block : k \in DOMAIN y.ev.block /\ z.ev.block[k] = y.ev.block[k]
    BY <1>5, <1>6, FrontParts DEF HasEv
  <2>8. \A k \in DOMAIN Marks(z).blk : CleanBlk(Marks(z).blk[k])
    BY <2>6, <2>7 DEF Marks
  <2> QED
    BY <2>8 DEF Spotless
<1> QED
  BY <1>6, <1>7 DEF Sound, z

-----------------------------------------------------------------------------
(* The flags of the event under analysis.                                  *)

AllClean(x) == \A k \in DOMAIN Marks(x).blk : CleanBlk(Marks(x).blk[k])

CleanInv ==
    pc = "process" =>
      /\ verdict = "none" => Sound(m)
      /\ verdict = "good" => AllClean(m)

\* One iteration of process(), up to the REGID.
LEMMA SoundMove ==
    ASSUME ParserInv, CleanInv, AtWord, NEW n, LeadsTo(m, n), Become(n),
           Sound(m) => Sound(n), UNCHANGED verdict
    PROVE  CleanInv'
<1>1. verdict = "none" /\ Sound(m)
  BY AtWordFacts DEF CleanInv, AtWord
<1>2. m' = [n EXCEPT !.i = @ + 1]
  BY DEF Become
<1>3. PICK y : y = [n EXCEPT !.i = @ + 1]
  OBVIOUS
<1>4. SameTree(n, y) /\ y.st = n.st /\ y.err_in_event = n.err_in_event
  BY <1>3 DEF LeadsTo, Live, Flat, Fields, SameTree
<1>5. Sound(y)
  BY <1>1, <1>4, SameSound
<1>6. Sound(m') /\ verdict' = "none"
  BY <1>1, <1>2, <1>3, <1>5
<1> QED
  BY <1>6 DEF CleanInv

\* The transitions inside a card set no flag of a block or a card.
LEMMA InsideMoves ==
    ASSUME ParserInv, CleanInv,
           \/ Trans04 \/ Trans05 \/ Trans06 \/ Trans07 \/ Trans08 \/ Trans09 \/ Trans10 \/ Trans11
    PROVE  CleanInv'
<1> DEFINE c == raw.words
<1>1. ASSUME AtWord
      PROVE  /\ Live(m) /\ c \in Seq(RawWord) /\ m.i \in 1..Len(c)
             /\ m.evformat = FMT_BASIC \/ (m.evformat = FMT_TAG /\ m.evformat # FMT_BASIC)
  BY <1>1, AtWordFacts DEF FMT_BASIC, FMT_TAG
<1>2. ASSUME AtWord, m.st \in 2..6, NEW n, LeadsTo(m, n), Within(m, n), Become(n), Quietly
      PROVE  CleanInv'
  <2>1. Sound(m) => Sound(n)
    BY <1>2, WithinSound
  <2> QED
    BY <1>2, <2>1, SoundMove DEF Quietly
<1> HIDE DEF c
<1>3. CASE Trans04
  <2>1. AtWord /\ m.st = 2
    BY <1>3, FiresIn DEF Trans04, Entered
  <2>2. LeadsTo(m, trans04(m, c)) /\ Within(m, trans04(m, c))
    BY <1>1, <2>1, Trans04Live
  <2> QED
    BY <1>2, <1>3, <2>1, <2>2 DEF Trans04, c
<1>4. CASE Trans05
  <2>1. AtWord /\ m.st = 3
    BY <1>4, FiresIn DEF Trans05, Entered
  <2>2. LeadsTo(m, trans05(m, c)) /\ Within(m, trans05(m, c))
    BY <1>1, <2>1, Trans05Live
  <2> QED
    BY <1>2, <1>4, <2>1, <2>2 DEF Trans05, c
<1>5. CASE Trans06
  <2>1. AtWord /\ m.st = 3
    BY <1>5, FiresIn DEF Trans06, Entered
  <2>2. LeadsTo(m, trans06(m, c)) /\ Within(m, trans06(m, c))
    BY <1>1, <2>1, Trans06Live
  <2> QED
    BY <1>2, <1>5, <2>1, <2>2 DEF Trans06, c
<1>6. CASE Trans07
  <2> DEFINE n == Format(trans07_basic(m, c), trans07_tag(m, c))
  <2>1. AtWord /\ m.st = 4
    BY <1>6, FiresIn DEF Trans07, Entered
  <2>2. LeadsTo(m, n) /\ Within(m, n)
    BY <1>1, <2>1, Trans07BasicLive, Trans07TagLive DEF Format
  <2> HIDE DEF n
  <2> QED
    BY <1>2, <1>6, <2>1, <2>2 DEF Trans07, c, n
<1>7. CASE Trans08
  <2> DEFINE n == Format(trans08_basic(m, c), trans08_tag(m, c))
  <2>1. AtWord /\ m.st = 5
    BY <1>7, FiresIn DEF Trans08, Entered
  <2>2. LeadsTo(m, n) /\ Within(m, n)
    BY <1>1, <2>1, Trans08BasicLive, Trans08TagLive DEF Format
  <2> HIDE DEF n
  <2> QED
    BY <1>2, <1>7, <2>1, <2>2 DEF Trans08, c, n
<1>8. CASE Trans09
  <2> DEFINE n == Format(trans09_basic(m, c), trans09_tag(m, c))
  <2>1. AtWord /\ m.st = 5
    BY <1>8, FiresIn DEF Trans09, Entered
  <2>2. LeadsTo(m, n) /\ Within(m, n)
    BY <1>1, <2>1, Trans09BasicLive, Trans09TagLive DEF Format
  <2> HIDE DEF n
  <2> QED
    BY <1>2, <1>8, <2>1, <2>2 DEF Trans09, c, n
<1>9. CASE Trans10
  <2> DEFINE n == Format(trans10_basic(m, c), trans10_tag(m, c))
  <2>1. AtWord /\ m.st = 5
    BY <1>9, FiresIn DEF Trans10, Entered
  <2>2. LeadsTo(m, n) /\ Within(m, n)
    BY <1>1, <2>1, Trans10BasicLive, Trans10TagLive DEF Format
  <2> HIDE DEF n
  <2> QED
    BY <1>2, <1>9, <2>1, <2>2 DEF Trans10, c, n
<1>10. CASE Trans11
  <2> DEFINE n == Format(trans11_basic(m, c), trans11_tag(m, c))
  <2>1. AtWord /\ m.st = 5
    BY <1>10, FiresIn DEF Trans11, Entered
  <2>2. LeadsTo(m, n) /\ Within(m, n)
    BY <1>1, <2>1, Trans11BasicLive, Trans11TagLive DEF Format
  <2> HIDE DEF n
  <2> QED
    BY <1>2, <1>10, <2>1, <2>2 DEF Trans11, c, n
<1> QED
  BY <1>3, <1>4, <1>5, <1>6, <1>7, <1>8, <1>9, <1>10

\* The transitions that open and close cards and blocks.
LEMMA TrailerMoves ==
    ASSUME ParserInv, CleanInv,
           \/ Trans02 \/ Trans03 \/ Trans12 \/ Trans13 \/ Trans14 \/ Trans15 \/ Trans16 \/ Trans17
    PROVE  CleanInv'
<1> DEFINE c == raw.words
<1>1. ASSUME AtWord PROVE Live(m)
  BY <1>1, AtWordFacts
<1>2. ASSUME AtWord, NEW n, LeadsTo(m, n), Sound(m) => Sound(n), Become(n), Quietly
      PROVE  CleanInv'
  BY <1>2, SoundMove DEF Quietly
<1> HIDE DEF c
<1>3. CASE Trans02
  <2>1. AtWord /\ m.st = 0
    BY <1>3, FiresIn DEF Trans02, Entered
  <2>2. LeadsTo(m, trans02(m, c)) /\ (Sound(m) => Sound(trans02(m, c)))
    BY <1>1, <2>1, Trans02Live, Trans02Sound
  <2> QED
    BY <1>2, <1>3, <2>1, <2>2 DEF Trans02, c
<1>4. CASE Trans03
  <2>1. AtWord /\ m.st = 1
    BY <1>4, FiresIn DEF Trans03, Entered
  <2>2. LeadsTo(m, trans03(m, c)) /\ (Sound(m) => Sound(trans03(m, c)))
    BY <1>1, <2>1, Trans03Live, Trans03Sound
  <2> QED
    BY <1>2, <1>4, <2>1, <2>2 DEF Trans03, c
<1>5. CASE Trans12
  <2>1. AtWord /\ m.st = 6
    BY <1>5, FiresIn DEF Trans12, Entered
  <2>2. LeadsTo(m, trans12(m, c)) /\ (Sound(m) => Sound(trans12(m, c)))
    BY <1>1, <2>1, Trans12Live, Trans12Sound
  <2> QED
    BY <1>2, <1>5, <2>1, <2>2 DEF Trans12, c
<1>6. CASE Trans13
  <2>1. AtWord /\ m.st = 7
    BY <1>6, FiresIn DEF Trans13, Entered
  <2>2. LeadsTo(m, trans13(m, c)) /\ (Sound(m) => Sound(trans13(m, c)))
    BY <1>1, <2>1, Trans13Live, Trans13Sound
  <2> QED
    BY <1>2, <1>6, <2>1, <2>2 DEF Trans13, c
<1>7. CASE Trans14
  <2>1. AtWord /\ m.st = 1
    BY <1>7, FiresIn DEF Trans14, Entered
  <2>2. LeadsTo(m, trans14(m, c)) /\ (Sound(m) => Sound(trans14(m, c)))
    BY <1>1, <2>1, Trans14Live, Trans14Sound
  <2> QED
    BY <1>2, <1>7, <2>1, <2>2 DEF Trans14, c
<1>8. CASE Trans15
  <2>1. AtWord /\ m.st = 8
    BY <1>8, FiresIn DEF Trans15, Entered
  <2>2. LeadsTo(m, trans15(m, c)) /\ (Sound(m) => Sound(trans15(m, c)))
    BY <1>1, <2>1, Trans15Live, Trans15Sound
  <2> QED
    BY <1>2, <1>8, <2>1, <2>2 DEF Trans15, c
<1>9. CASE Trans16
  <2>1. AtWord /\ m.st = 9
    BY <1>9, FiresIn DEF Trans16, Entered
  <2>2. LeadsTo(m, trans16(m, c)) /\ (Sound(m) => Sound(trans16(m, c)))
    BY <1>1, <2>1, Trans16Live, Trans16Sound
  <2> QED
    BY <1>2, <1>9, <2>1, <2>2 DEF Trans16, c
<1>10. CASE Trans17
  <2>1. AtWord /\ m.st = 10
    BY <1>10, FiresIn DEF Trans17, Entered
  <2>2. LeadsTo(m, trans17(m, c)) /\ (Sound(m) => Sound(trans17(m, c)))
    BY <1>1, <2>1, Trans17Live, Trans17Sound
  <2> QED
    BY <1>2, <1>10, <2>1, <2>2 DEF Trans17, c
<1> QED
  BY <1>3, <1>4, <1>5, <1>6, <1>7, <1>8, <1>9, <1>10

\* A word that is skipped, and one that drops the partial event.
LEMMA IdleMoves ==
    ASSUME ParserInv, CleanInv, EmptyWord \/ Trans00 \/ Trans01 PROVE CleanInv'
<1>1. ASSUME AtWord PROVE LeadsTo(m, m) /\ LeadsTo(m, trans00(m))
  BY <1>1, AtWordFacts, Trans00Live DEF LeadsTo, Kept
<1>2. CASE EmptyWord
  BY <1>1, <1>2, SoundMove DEF EmptyWord, Quietly
<1>3. CASE Trans01
  BY <1>1, <1>3, SoundMove DEF Trans01, Fires, Quietly
<1>4. CASE Trans00
  <2>1. AtWord /\ Flat(m)
    BY <1>4, AtWordFacts DEF Trans00, Fires, Live
  <2>2. trans00(m).st = 0 /\ trans00(m).ev.block = <<>>
    BY <2>1 DEF trans00, Flat, Fields, NoEvent
  <2>3. Sound(trans00(m))
    BY <2>2 DEF Sound
  <2> QED
    BY <1>1, <1>4, <2>1, <2>3, SoundMove DEF Trans00
<1> QED
  BY <1>2, <1>3, <1>4

\* REGID counts the event good when no error is remembered.
LEMMA VerdictIsClean == ASSUME ParserInv, CleanInv, Trans18 PROVE CleanInv'
<1> DEFINE n == trans18(m, raw.words)
           y == [n EXCEPT !.i = @ + 1]
<1>1. AtWord /\ m.st = 10
  BY FiresIn DEF Trans18, Entered
<1>2. Live(m) /\ Sound(m)
  BY <1>1, AtWordFacts DEF CleanInv, AtWord
<1>3. DOMAIN n = Fields /\ SameTree(m, n)
  BY <1>2 DEF trans18, Live, HasEv, Flat, Fields, SameTree
<1> HIDE DEF n
<1>4. SameTree(m, y)
  BY <1>3 DEF Fields, SameTree
<1>5. m' = y /\ pc' = pc
  BY DEF Trans18, Become, n
<1> HIDE DEF y
<1>6. Marks(m') = Marks(m)
  BY <1>4, <1>5, TreeIsMarks
<1>7. verdict' # "none" /\ (verdict' = "good" => ~m.err_in_event)
  BY DEF Trans18
<1>8. ~m.err_in_event => AllClean(m)
  BY <1>1, <1>2 DEF Sound, Spotless, AllClean
<1> QED
  BY <1>6, <1>7, <1>8 DEF CleanInv, AllClean

LEMMA CleanNext == ParserInv /\ CleanInv /\ [Next]_vars => CleanInv'
<1> SUFFICES ASSUME ParserInv, CleanInv, [Next]_vars PROVE CleanInv'
  OBVIOUS
<1>1. CASE UNCHANGED vars
  BY <1>1 DEF vars, CleanInv
<1>2. CASE RecvTimeout
  BY <1>2 DEF RecvTimeout, CleanInv
<1>3. CASE Recv \/ RecvError
  <2>0. \E message : Take(message)
    BY <1>3, Received
  <2>1. m' = import(m) /\ verdict' = "none" /\ Flat(m)
    BY <2>0 DEF Take, ParserInv, ThreadOk
  <2>2. PICK y : y = import(m)
    OBVIOUS
  <2>3. y.st = 0 /\ y.ev.block = <<>>
    BY <2>1, <2>2 DEF import, Flat, Fields, NoEvent
  <2>4. Sound(y)
    BY <2>3 DEF Sound
  <2> QED
    BY <2>1, <2>2, <2>4 DEF CleanInv
<1>4. CASE Return
  BY <1>4 DEF Return, CleanInv
<1>5. CASE Process
  BY <1>4, <1>5, InsideMoves, TrailerMoves, IdleMoves, VerdictIsClean DEF Process
<1> QED
  BY <1>1, <1>2, <1>3, <1>5 DEF Next

-----------------------------------------------------------------------------
(* The theorems.                                                           *)

\* The thread's and the machine's members keep their types, whatever words
\* arrive: no state behind S10, no negative length.
THEOREM ParserTypes == Spec => []TypeOK
<1>1. ParserInv => TypeOK
  <2> SUFFICES ASSUME ParserInv PROVE TypeOK
    OBVIOUS
  <2>1. \A k \in DOMAIN raw.words : raw.words[k].cls \in WordClass
    <3> SUFFICES ASSUME NEW k \in DOMAIN raw.words PROVE raw.words[k].cls \in WordClass
      OBVIOUS
    <3>1. raw.words[k] \in RawWord
      BY DEF ParserInv, ThreadOk, RawOk
    <3> QED
      BY <3>1 DEF RawWord
  <2>2. \A c \in DOMAIN fsm : fsm[c] \in Nat
    BY DEF ParserInv, ThreadOk
  <2> QED
    BY <2>1, <2>2 DEF ParserInv, ThreadOk, Flat, TypeOK
<1> QED
  BY <1>1, InvHolds, PTL

\* No transition of FzFSM follows a pointer into a tree that trans00 has
\* dropped, or to a submessage that was never allocated, whatever words the
\* front-end sends.
THEOREM NoDanglingPointer == Spec => []PointersLive
<1>1. ParserInv => PointersLive
  <2> SUFFICES ASSUME ParserInv, pc = "process" PROVE PointersLive
    BY DEF PointersLive
  <2>1. Live(m)
    BY DEF ParserInv, MachineOk
  <2> QED
    BY <2>1 DEF PointersLive, Live, HasBlk, HasFee, HasHit, HasData, HasParts, BasicParts, TagParts
<1> QED
  BY <1>1, InvHolds, PTL

\* FzParser forwards exactly the events that trans18 has counted as good or
\* bad.
THEOREM CountedAreForwarded == Spec => []ForwardedAreCounted
<1>1. ParserInv => ForwardedAreCounted
  BY DEF ParserInv, ThreadOk, CountOk, Pending, ForwardedAreCounted
<1> QED
  BY <1>1, InvHolds, PTL

\* For words of any kind in any order: an event that trans18 counts good has
\* no block and no card whose trailer was wrong, also when the trailer was of
\* an earlier block and when events before it have left err_in_event set.
THEOREM GoodEventsAreClean == Spec => []GoodIsClean
<1>1. Init => CleanInv
  BY DEF Init, CleanInv
<1>2. ParserInv /\ CleanInv => GoodIsClean
  <2> SUFFICES ASSUME CleanInv, pc = "process", verdict = "good", NEW k \in DOMAIN m.ev.block
               PROVE  LET b == m.ev.block[k]
                      IN  /\ ~b.len_error /\ ~b.crc_error
                          /\ \A j \in DOMAIN b.fee : ~b.fee[j].len_error /\ ~b.fee[j].crc_error
    BY DEF GoodIsClean
  <2> DEFINE b == m.ev.block[k]
  <2>1. CleanBlk(BlkMark(b))
    BY DEF CleanInv, AllClean, Marks
  <2> HIDE DEF b
  <2>2. ~b.len_error /\ ~b.crc_error
    BY <2>1 DEF CleanBlk, BlkMark
  <2>3. \A j \in DOMAIN b.fee : CleanFee(FeeMark(b.fee[j]))
    BY <2>1 DEF CleanBlk, BlkMark
  <2>4. \A j \in DOMAIN b.fee : ~b.fee[j].len_error /\ ~b.fee[j].crc_error
    BY <2>3 DEF CleanFee, FeeMark
  <2> QED
    BY <2>2, <2>4 DEF b
<1> QED
  BY <1>1, <1>2, InvHolds, CleanNext, PTL DEF Spec

\* process() comes to an end on any words: each iteration moves the word
\* index forward, or reads the word behind a waveform without samples again
\* as a tag, which the next iteration leaves behind.  The exception is the
\* basic format's sample of a waveform of length zero.
THEOREM ProcessAdvances == Spec => Advances
<1> DEFINE Step == pc = "process" /\ pc' = "process" /\ ~SampleOfNone => Nearer
<1>1. ParserInv /\ [Next]_vars => [Step]_vars
  <2> SUFFICES ASSUME ParserInv, Next, pc = "process", pc' = "process", ~SampleOfNone
               PROVE  Nearer
    OBVIOUS
  <2>1. Process
    BY DEF Next, Recv, RecvTimeout, RecvError
  <2> QED
    BY <2>1, IterationIsNearer
<1>2. [Step]_vars =>
        [pc = "process" /\ pc' = "process" /\ ~SampleOfNone =>
           \/ m'.i > m.i
           \/ m'.i = m.i /\ m.tag_done /\ ~m'.tag_done]_vars
  BY DEF Nearer
<1> QED
  BY <1>1, <1>2, InvHolds, PTL DEF Spec, Advances
=============================================================================

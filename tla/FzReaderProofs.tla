--------------------------- MODULE FzReaderProofs ---------------------------
(***************************************************************************)
(* FzReader for every stream of words, every cut into datagrams and every  *)
(* loss: TypeOK, Reassembly and WholeEvents are invariants.                *)
(*                                                                         *)
(* What the recursive functions TakeWords, NoPad and FlattenSeq compute is *)
(* shown by induction on their index.  The induction is a statement about  *)
(* sets (UpTo), from the least element of a set of numbers, so that it can *)
(* be used with any property.                                              *)
(***************************************************************************)
EXTENDS FzReader, WellFoundedInduction, SequenceTheorems, TLAPS

-----------------------------------------------------------------------------
(* Induction.                                                              *)

\* A set of numbers has a least one.
LEMMA Least ==
    ASSUME NEW T, T \subseteq Nat, T # {}
    PROVE  \E n \in T : \A k \in T : n <= k
<1>1. IsWellFoundedOn(OpToRel(<, Nat), Nat)
  BY NatLessThanWellFounded
<1>2. PICK n \in T : \A k \in T : ~(<<k, n>> \in OpToRel(<, Nat))
  BY <1>1, WFMin
<1>3. ASSUME NEW k \in T PROVE n <= k
  <2>1. k \in Nat /\ n \in Nat
    OBVIOUS
  <2>2. ~(<<k, n>> \in OpToRel(<, Nat))
    BY <1>2
  <2>3. ~(k < n)
    BY <2>1, <2>2 DEF OpToRel
  <2> QED BY <2>1, <2>3
<1> QED
  BY <1>3

\* A set of numbers with 0, and with the successor of each of its numbers.
LEMMA UpTo ==
    ASSUME NEW N \in Nat, NEW P, 0 \in P,
           \A n \in 0..N : n \in P /\ n < N => n + 1 \in P
    PROVE  \A n \in 0..N : n \in P
<1> DEFINE T == {n \in 0..N : n \notin P}
<1>1. SUFFICES ASSUME T # {} PROVE FALSE
  OBVIOUS
<1>2. PICK n \in T : \A k \in T : n <= k
  <2>1. T \subseteq Nat
    OBVIOUS
  <2> HIDE DEF T
  <2> QED BY <1>1, <2>1, Least
<1>3. n \in 0..N /\ n # 0 /\ n \notin P
  OBVIOUS
<1>4. n - 1 \in 0..N /\ n - 1 < N /\ n - 1 \notin T
  BY <1>2, <1>3
<1>5. n - 1 \in P
  BY <1>4
<1> QED
  BY <1>3, <1>4, <1>5

\* f[0], ..., f[N] are the values b, G[1][b], G[2][G[1][b]], ...
Iterates(f, S, N, b, G) ==
    f \in [0..N -> S] /\ f[0] = b /\ \A i \in 1..N : f[i] = G[i][f[i - 1]]

\* They exist as a function.
LEMMA IterationExists ==
    ASSUME NEW S, NEW N \in Nat, NEW b \in S, NEW G \in [1..N -> [S -> S]]
    PROVE  \E f : Iterates(f, S, N, b, G)
<1> DEFINE P == {n \in 0..N : \E f : Iterates(f, S, n, b, G)}
<1>1. 0 \in P
  <2>1. Iterates([i \in 0..0 |-> b], S, 0, b, G)
    BY DEF Iterates
  <2> QED BY <2>1
<1>2. ASSUME NEW n \in 0..N, n \in P, n < N PROVE n + 1 \in P
  <2>1. PICK f : Iterates(f, S, n, b, G)
    BY <1>2
  <2> DEFINE g == [i \in 0..(n + 1) |-> IF i <= n THEN f[i] ELSE G[n + 1][f[n]]]
  <2>2. f[n] \in S /\ n + 1 \in 1..N
    BY <1>2, <2>1 DEF Iterates
  <2>3. G[n + 1][f[n]] \in S
    BY <2>2
  <2>4. g \in [0..(n + 1) -> S]
    BY <2>1, <2>3 DEF Iterates
  <2>5. g[0] = b
    BY <2>1 DEF Iterates
  <2>6. ASSUME NEW i \in 1..(n + 1) PROVE g[i] = G[i][g[i - 1]]
    <3>1. CASE i = n + 1
      BY <3>1
    <3>2. CASE i <= n
      BY <3>2, <2>1 DEF Iterates
    <3> QED BY <3>1, <3>2
  <2>7. Iterates(g, S, n + 1, b, G)
    <3> HIDE DEF g
    <3> QED BY <2>4, <2>5, <2>6 DEF Iterates
  <2>8. n + 1 \in 0..N
    BY <1>2
  <2> QED
    BY <2>7, <2>8
<1>3. N \in P
  <2>1. N \in 0..N
    OBVIOUS
  <2>2. \A n \in 0..N : n \in P /\ n < N => n + 1 \in P
    BY <1>2
  <2> HIDE DEF P
  <2> QED BY <1>1, <2>1, <2>2, UpTo
<1> QED
  BY <1>3

-----------------------------------------------------------------------------
(* The words of a datagram, one after the other.                           *)

Acc == [chunk : Seq(Word), sends : Seq(Seq(Word))]

LEMMA TakeWordType ==
    ASSUME NEW acc \in Acc, NEW w \in Word
    PROVE  TakeWord(acc, w) \in Acc
<1>1. Append(acc.chunk, w) \in Seq(Word)
  BY DEF Acc
<1>2. Append(acc.sends, Append(acc.chunk, w)) \in Seq(Seq(Word))
  BY <1>1 DEF Acc
<1>3. [chunk |-> <<>>, sends |-> Append(acc.sends, Append(acc.chunk, w))] \in Acc
  BY <1>2 DEF Acc
<1>4. [acc EXCEPT !.chunk = Append(acc.chunk, w)] \in Acc
  BY <1>1 DEF Acc
<1> QED
  BY <1>3, <1>4 DEF TakeWord

\* The accumulator after each word.
LEMMA TakeWordsSteps ==
    ASSUME NEW acc \in Acc, NEW words \in Seq(Word)
    PROVE  \E f \in [0..Len(words) -> Acc] :
              /\ f[0] = acc
              /\ \A i \in 1..Len(words) : f[i] = TakeWord(f[i - 1], words[i])
              /\ TakeWords(acc, words) = f[Len(words)]
<1> DEFINE N == Len(words)
           G == [i \in 1..N |-> [a \in Acc |-> TakeWord(a, words[i])]]
           Take(f) == [i \in 0..N |-> IF i = 0 THEN acc ELSE TakeWord(f[i - 1], words[i])]
           take == CHOOSE f : f = Take(f)
<1>1. N \in Nat /\ \A i \in 1..N : words[i] \in Word
  OBVIOUS
<1>2. G \in [1..N -> [Acc -> Acc]]
  <2> HIDE DEF N
  <2> QED BY <1>1, TakeWordType
<1> HIDE DEF N
<1>3. PICK g : Iterates(g, Acc, N, acc, G)
  <2> HIDE DEF G
  <2> QED BY <1>1, <1>2, IterationExists
<1>4. g = Take(g)
  <2>1. ASSUME NEW i \in 0..N, i # 0 PROVE g[i] = TakeWord(g[i - 1], words[i])
    <3>1. i \in 1..N /\ i - 1 \in 0..N
      BY <1>1, <2>1
    <3>2. g[i - 1] \in Acc
      BY <1>3, <3>1 DEF Iterates
    <3> QED BY <1>3, <3>1, <3>2 DEF Iterates
  <2> QED
    BY <1>3, <2>1 DEF Iterates
<1>5. take = Take(take)
  <2> HIDE DEF Take
  <2> QED BY <1>4
<1>6. TakeWords(acc, words) = take[N]
  BY DEF TakeWords, N
<1> HIDE DEF take
<1>7. take[0] = acc /\ \A i \in 1..N : take[i] = TakeWord(take[i - 1], words[i])
  BY <1>1, <1>5
<1>8. take \in [0..N -> Acc]
  <2>1. DOMAIN take = 0..N
    BY <1>5
  <2> DEFINE P == {i \in 0..N : take[i] \in Acc}
  <2>2. 0 \in P
    BY <1>1, <1>7
  <2>3. ASSUME NEW i \in 0..N, i \in P, i < N PROVE i + 1 \in P
    <3>1. i + 1 \in 1..N /\ i + 1 \in 0..N /\ (i + 1) - 1 = i
      BY <1>1, <2>3
    <3>2. take[i + 1] = TakeWord(take[i], words[i + 1])
      BY <1>7, <3>1
    <3> QED BY <1>1, <2>3, <3>1, <3>2, TakeWordType
  <2>4. \A i \in 0..N : i \in P
    <3>1. \A i \in 0..N : i \in P /\ i < N => i + 1 \in P
      BY <2>3
    <3> HIDE DEF P
    <3> QED BY <1>1, <2>2, <3>1, UpTo
  <2> QED
    BY <1>5, <2>4
<1> QED
  BY <1>6, <1>7, <1>8 DEF N

-----------------------------------------------------------------------------
(* The words that are not empty.                                           *)

Keep(k, w) == IF w.n = PAD THEN k ELSE Append(k, w)

LEMMA KeepType ==
    ASSUME NEW k \in Seq(Word), NEW w \in Word
    PROVE  Keep(k, w) \in Seq(Word)
  BY DEF Keep

LEMMA KeepConcat ==
    ASSUME NEW a \in Seq(Word), NEW b \in Seq(Word), NEW w \in Word
    PROVE  Keep(a \o b, w) = a \o Keep(b, w)
<1>1. a \o b \in Seq(Word) /\ <<w>> \in Seq(Word)
  OBVIOUS
<1>2. Append(a \o b, w) = (a \o b) \o <<w>> /\ Append(b, w) = b \o <<w>>
  BY <1>1, AppendIsConcat
<1>3. Append(a \o b, w) = a \o Append(b, w)
  BY <1>1, <1>2, ConcatAssociative
<1> QED
  BY <1>3 DEF Keep

\* What has been kept after each word.
LEMMA NoPadSteps ==
    ASSUME NEW s \in Seq(Word)
    PROVE  \E f \in [0..Len(s) -> Seq(Word)] :
              /\ f[0] = <<>>
              /\ \A i \in 1..Len(s) : f[i] = Keep(f[i - 1], s[i])
              /\ NoPad(s) = f[Len(s)]
<1> DEFINE N == Len(s)
           G == [i \in 1..N |-> [k \in Seq(Word) |-> Keep(k, s[i])]]
           Kept(f) == [i \in 0..N |-> IF i = 0 THEN <<>>
                                      ELSE IF s[i].n = PAD THEN f[i - 1] ELSE Append(f[i - 1], s[i])]
           kept == CHOOSE f : f = Kept(f)
<1>1. N \in Nat /\ \A i \in 1..N : s[i] \in Word
  OBVIOUS
<1>2. G \in [1..N -> [Seq(Word) -> Seq(Word)]] /\ <<>> \in Seq(Word)
  <2> HIDE DEF N
  <2> QED BY <1>1, KeepType
<1> HIDE DEF N
<1>3. PICK g : Iterates(g, Seq(Word), N, <<>>, G)
  <2> HIDE DEF G
  <2> QED BY <1>1, <1>2, IterationExists
<1>4. g = Kept(g)
  <2>1. ASSUME NEW i \in 0..N, i # 0 PROVE g[i] = Keep(g[i - 1], s[i])
    <3>1. i \in 1..N /\ i - 1 \in 0..N
      BY <1>1, <2>1
    <3>2. g[i - 1] \in Seq(Word)
      BY <1>3, <3>1 DEF Iterates
    <3> QED BY <1>3, <3>1, <3>2 DEF Iterates
  <2> QED
    BY <1>3, <2>1 DEF Iterates, Keep
<1>5. kept = Kept(kept)
  <2> HIDE DEF Kept
  <2> QED BY <1>4
<1>6. NoPad(s) = kept[N]
  BY DEF NoPad, N
<1> HIDE DEF kept
<1>7. kept[0] = <<>> /\ \A i \in 1..N : kept[i] = Keep(kept[i - 1], s[i])
  <2>1. 0 \in 0..N /\ \A i \in 1..N : i \in 0..N /\ i # 0
    BY <1>1
  <2>2. kept[0] = <<>>
    BY <1>5, <2>1
  <2>3. ASSUME NEW i \in 1..N PROVE kept[i] = Keep(kept[i - 1], s[i])
    BY <1>5, <2>1 DEF Keep
  <2> QED BY <2>2, <2>3
<1>8. kept \in [0..N -> Seq(Word)]
  <2>1. DOMAIN kept = 0..N
    BY <1>5
  <2> DEFINE P == {i \in 0..N : kept[i] \in Seq(Word)}
  <2>2. 0 \in P
    <3>1. 0 \in 0..N
      BY <1>1
    <3>2. kept[0] \in Seq(Word)
      BY <1>2, <1>7
    <3> QED BY <3>1, <3>2
  <2>3. ASSUME NEW i \in 0..N, i \in P, i < N PROVE i + 1 \in P
    <3>1. i + 1 \in 1..N /\ i + 1 \in 0..N /\ (i + 1) - 1 = i
      BY <1>1, <2>3
    <3>2. kept[i + 1] = Keep(kept[i], s[i + 1])
      BY <1>7, <3>1
    <3> QED BY <1>1, <2>3, <3>1, <3>2, KeepType
  <2>4. \A i \in 0..N : i \in P
    <3>1. \A i \in 0..N : i \in P /\ i < N => i + 1 \in P
      BY <2>3
    <3> HIDE DEF P
    <3> QED BY <1>1, <2>2, <3>1, UpTo
  <2> QED
    BY <1>5, <2>4
<1> QED
  BY <1>6, <1>7, <1>8 DEF N

LEMMA NoPadType ==
    ASSUME NEW s \in Seq(Word)
    PROVE  NoPad(s) \in Seq(Word)
  BY NoPadSteps

LEMMA NoPadEmpty == NoPad(<<>>) = <<>>
<1>1. <<>> \in Seq(Word) /\ Len(<<>>) = 0
  OBVIOUS
<1> QED
  BY <1>1, NoPadSteps

LEMMA NoPadOne ==
    ASSUME NEW w \in Word
    PROVE  NoPad(<<w>>) = IF w.n = PAD THEN <<>> ELSE <<w>>
<1>1. <<w>> \in Seq(Word) /\ Len(<<w>>) = 1 /\ <<w>>[1] = w
  OBVIOUS
<1> DEFINE s == <<w>>
<1> HIDE DEF s
<1>2. PICK f \in [0..Len(s) -> Seq(Word)] :
          /\ f[0] = <<>>
          /\ \A i \in 1..Len(s) : f[i] = Keep(f[i - 1], s[i])
          /\ NoPad(s) = f[Len(s)]
  BY <1>1, NoPadSteps DEF s
<1>3. Len(s) = 1 /\ 1 - 1 = 0 /\ 1 \in 1..Len(s)
  BY <1>1 DEF s
<1>4. NoPad(s) = Keep(<<>>, s[1]) /\ s[1] = w
  BY <1>1, <1>2, <1>3 DEF s
<1>5. Append(<<>>, w) = <<w>>
  OBVIOUS
<1> QED
  BY <1>4, <1>5 DEF s, Keep

\* The empty words of two sequences are left out of each.
LEMMA NoPadConcat ==
    ASSUME NEW s \in Seq(Word), NEW t \in Seq(Word)
    PROVE  NoPad(s \o t) = NoPad(s) \o NoPad(t)
<1> DEFINE M == Len(s)
           N == Len(t)
           u == s \o t
<1>1. /\ u \in Seq(Word) /\ Len(u) = M + N /\ M \in Nat /\ N \in Nat
      /\ \A i \in 1..M : u[i] = s[i]
      /\ \A i \in 1..N : u[M + i] = t[i]
      /\ \A i \in 1..N : t[i] \in Word
  OBVIOUS
<1>2. PICK f \in [0..M -> Seq(Word)] :
          f[0] = <<>> /\ (\A i \in 1..M : f[i] = Keep(f[i - 1], s[i])) /\ NoPad(s) = f[M]
  BY NoPadSteps
<1>3. PICK g \in [0..N -> Seq(Word)] :
          g[0] = <<>> /\ (\A i \in 1..N : g[i] = Keep(g[i - 1], t[i])) /\ NoPad(t) = g[N]
  BY NoPadSteps
<1> HIDE DEF M, N, u
<1>4. PICK h \in [0..(M + N) -> Seq(Word)] :
          /\ h[0] = <<>> /\ (\A i \in 1..(M + N) : h[i] = Keep(h[i - 1], u[i]))
          /\ NoPad(u) = h[M + N]
  BY <1>1, NoPadSteps
<1>5. h[M] = f[M]
  <2> DEFINE P == {i \in 0..M : h[i] = f[i]}
  <2>1. 0 \in P
    BY <1>1, <1>2, <1>4
  <2>2. ASSUME NEW i \in 0..M, i \in P, i < M PROVE i + 1 \in P
    <3>1. i + 1 \in 1..M /\ i + 1 \in 1..(M + N) /\ i + 1 \in 0..M /\ (i + 1) - 1 = i
      BY <1>1, <2>2
    <3>2. f[i + 1] = Keep(f[i], s[i + 1]) /\ h[i + 1] = Keep(h[i], u[i + 1])
      BY <1>2, <1>4, <3>1
    <3> QED BY <1>1, <2>2, <3>1, <3>2
  <2>3. \A i \in 0..M : i \in P /\ i < M => i + 1 \in P
    BY <2>2
  <2>4. \A i \in 0..M : i \in P
    <3> HIDE DEF P
    <3> QED BY <1>1, <2>1, <2>3, UpTo
  <2> QED
    BY <1>1, <2>4
<1>6. h[M + N] = f[M] \o g[N]
  <2> DEFINE P == {i \in 0..N : h[M + i] = f[M] \o g[i]}
  <2>1. 0 \in P
    <3>1. M + 0 = M /\ 0 \in 0..N /\ f[M] \in Seq(Word)
      BY <1>1
    <3>2. f[M] \o <<>> = f[M]
      BY <3>1, ConcatEmptySeq
    <3> QED BY <1>3, <1>5, <3>1, <3>2
  <2>2. ASSUME NEW i \in 0..N, i \in P, i < N PROVE i + 1 \in P
    <3> M \in Nat /\ N \in Nat /\ i \in Nat /\ i < N
      BY <1>1, <2>2
    <3>1. /\ i + 1 \in 1..N /\ M + (i + 1) \in 1..(M + N) /\ i + 1 \in 0..N
          /\ (i + 1) - 1 = i /\ (M + (i + 1)) - 1 = M + i /\ M \in 0..M
      OBVIOUS
    <3>2. g[i + 1] = Keep(g[i], t[i + 1]) /\ h[M + (i + 1)] = Keep(h[M + i], u[M + (i + 1)])
      BY <1>3, <1>4, <3>1
    <3>3. u[M + (i + 1)] = t[i + 1] /\ t[i + 1] \in Word
      BY <1>1, <3>1
    <3>5. f[M] \in Seq(Word) /\ g[i] \in Seq(Word)
      BY <3>1
    <3>6. Keep(f[M] \o g[i], t[i + 1]) = f[M] \o Keep(g[i], t[i + 1])
      BY <3>3, <3>5, KeepConcat
    <3>7. h[M + i] = f[M] \o g[i]
      BY <2>2
    <3> QED BY <3>1, <3>2, <3>3, <3>6, <3>7
  <2>3. \A i \in 0..N : i \in P /\ i < N => i + 1 \in P
    BY <2>2
  <2>4. \A i \in 0..N : i \in P
    <3> HIDE DEF P
    <3> QED BY <1>1, <2>1, <2>3, UpTo
  <2> QED
    BY <1>1, <2>4
<1> QED
  BY <1>2, <1>3, <1>4, <1>6 DEF u

-----------------------------------------------------------------------------
(* Sequences of words put together.                                        *)

Words == Seq(Word)

LEMMA WordsConcat ==
    /\ <<>> \in Words
    /\ \A a, b \in Words : a \o b \in Words /\ Len(a \o b) = Len(a) + Len(b)
    /\ \A a \in Words : <<>> \o a = a /\ a \o <<>> = a
    /\ \A a, b, c \in Words : (a \o b) \o c = a \o (b \o c)
    /\ \A a \in Words : Len(a) \in Nat
<1>1. <<>> \in Words
  BY DEF Words
<1>2. ASSUME NEW a \in Words, NEW b \in Words
      PROVE  a \o b \in Words /\ Len(a \o b) = Len(a) + Len(b)
  BY DEF Words
<1>3. ASSUME NEW a \in Words
      PROVE  <<>> \o a = a /\ a \o <<>> = a
  BY ConcatEmptySeq DEF Words
<1>4. ASSUME NEW a \in Words, NEW b \in Words, NEW c \in Words
      PROVE  (a \o b) \o c = a \o (b \o c)
  BY ConcatAssociative DEF Words
<1>5. ASSUME NEW a \in Words PROVE Len(a) \in Nat
  BY DEF Words
<1> QED
  BY <1>1, <1>2, <1>3, <1>4, <1>5

LEMMA WordsAssoc ==
    ASSUME NEW a \in Words, NEW b \in Words, NEW c \in Words
    PROVE  (a \o b) \o c = a \o (b \o c)
  BY ConcatAssociative DEF Words

\* What has been put together after each sequence.
LEMMA FlattenSteps ==
    ASSUME NEW seqs \in Seq(Words)
    PROVE  \E f \in [0..Len(seqs) -> Words] :
              /\ f[0] = <<>>
              /\ \A i \in 1..Len(seqs) : f[i] = f[i - 1] \o seqs[i]
              /\ FlattenSeq(seqs) = f[Len(seqs)]
<1> DEFINE N == Len(seqs)
           G == [i \in 1..N |-> [k \in Words |-> k \o seqs[i]]]
           Flat(f) == [i \in 1..N |-> IF i = 1 THEN seqs[i] ELSE f[i - 1] \o seqs[i]]
           flatten == CHOOSE f : f = Flat(f)
<1>1. N \in Nat /\ \A i \in 1..N : seqs[i] \in Words
  OBVIOUS
<1>2. N = 0 => seqs = <<>>
  OBVIOUS
<1>3. FlattenSeq(seqs) = IF N = 0 THEN seqs ELSE flatten[N]
  BY DEF FlattenSeq
<1> HIDE DEF N
<1>4. G \in [1..N -> [Words -> Words]] /\ <<>> \in Words
  BY <1>1, WordsConcat
<1>5. PICK g : Iterates(g, Words, N, <<>>, G)
  <2> HIDE DEF G
  <2> QED BY <1>1, <1>4, IterationExists
<1>6. g[0] = <<>> /\ \A i \in 0..N : g[i] \in Words
  BY <1>5 DEF Iterates
<1>7. ASSUME NEW i \in 1..N PROVE g[i] = g[i - 1] \o seqs[i]
  <2>1. i - 1 \in 0..N
    BY <1>1
  <2> QED BY <1>5, <1>6, <2>1 DEF Iterates
<1>8. CASE N = 0
  <2>1. FlattenSeq(seqs) = g[N]
    BY <1>2, <1>3, <1>6, <1>8
  <2>2. g \in [0..N -> Words]
    BY <1>5 DEF Iterates
  <2> QED BY <1>6, <1>7, <2>1, <2>2 DEF N
<1>9. CASE N # 0
  <2> DEFINE h == [i \in 1..N |-> g[i]]
  <2>1. h = Flat(h)
    <3>1. ASSUME NEW i \in 1..N
          PROVE  h[i] = IF i = 1 THEN seqs[i] ELSE h[i - 1] \o seqs[i]
      <4>1. CASE i = 1
        <5>1. g[1] = <<>> \o seqs[1]
          <6>1. 1 - 1 = 0
            OBVIOUS
          <6> QED BY <1>6, <1>7, <4>1, <6>1
        <5>2. <<>> \o seqs[1] = seqs[1]
          BY <1>1, <4>1, WordsConcat
        <5> QED BY <4>1, <5>1, <5>2
      <4>2. CASE i # 1
        <5>1. i - 1 \in 1..N
          BY <1>1, <4>2
        <5> QED BY <1>7, <4>2, <5>1
      <4> QED BY <4>1, <4>2
    <3> QED
      BY <3>1
  <2>2. flatten = Flat(flatten)
    <3> HIDE DEF Flat, h
    <3> QED BY <2>1
  <2>3. FlattenSeq(seqs) = flatten[N]
    BY <1>3, <1>9
  <2> HIDE DEF flatten
  <2> DEFINE f == [i \in 0..N |-> IF i = 0 THEN <<>> ELSE flatten[i]]
  <2>4. ASSUME NEW i \in 1..N PROVE f[i] = f[i - 1] \o seqs[i]
    <3>1. i \in 0..N /\ i # 0 /\ i - 1 \in 0..N
      BY <1>1
    <3>2. f[i] = flatten[i]
      BY <3>1
    <3>3. CASE i = 1
      <4>1. flatten[i] = seqs[i]
        BY <2>2, <3>3
      <4>2. f[i - 1] = <<>>
        BY <3>1, <3>3
      <4>3. <<>> \o seqs[i] = seqs[i]
        BY <1>1, WordsConcat
      <4> HIDE DEF f
      <4> QED BY <3>2, <4>1, <4>2, <4>3
    <3>4. CASE i # 1
      <4>1. flatten[i] = flatten[i - 1] \o seqs[i]
        BY <2>2, <3>4
      <4>2. f[i - 1] = flatten[i - 1]
        BY <3>1, <3>4
      <4> HIDE DEF f
      <4> QED BY <3>2, <4>1, <4>2
    <3> QED BY <3>3, <3>4
  <2>5. f[0] = <<>> /\ f[N] = flatten[N] /\ DOMAIN f = 0..N
    BY <1>1, <1>9
  <2> HIDE DEF f
  <2>6. ASSUME NEW i \in 0..N PROVE f[i] \in Words
    <3> DEFINE P == {j \in 0..N : f[j] \in Words}
    <3>1. 0 \in P
      <4>1. 0 \in 0..N
        BY <1>1
      <4> QED BY <1>4, <2>5, <4>1
    <3>2. ASSUME NEW j \in 0..N, j \in P, j < N PROVE j + 1 \in P
      <4>1. j + 1 \in 1..N /\ j + 1 \in 0..N /\ (j + 1) - 1 = j
        BY <1>1, <3>2
      <4>2. f[j + 1] = f[j] \o seqs[j + 1] /\ f[j] \in Words /\ seqs[j + 1] \in Words
        BY <1>1, <2>4, <3>2, <4>1
      <4> QED BY <4>1, <4>2, WordsConcat
    <3>3. \A j \in 0..N : j \in P /\ j < N => j + 1 \in P
      BY <3>2
    <3>4. \A j \in 0..N : j \in P
      <4> HIDE DEF P
      <4> QED BY <1>1, <3>1, <3>3, UpTo
    <3> QED BY <3>4
  <2>7. f \in [0..N -> Words]
    <3>1. f = [i \in 0..N |-> f[i]]
      BY DEF f
    <3> QED BY <2>6, <3>1
  <2> QED
    BY <2>3, <2>4, <2>5, <2>7 DEF N
<1> QED
  BY <1>8, <1>9

LEMMA FlattenType ==
    ASSUME NEW s \in Seq(Words)
    PROVE  FlattenSeq(s) \in Words
<1>1. Len(s) \in Nat
  OBVIOUS
<1>2. Len(s) \in 0..Len(s)
  BY <1>1
<1>3. PICK f \in [0..Len(s) -> Words] : FlattenSeq(s) = f[Len(s)]
  BY FlattenSteps
<1> QED
  BY <1>2, <1>3

LEMMA FlattenEmpty == FlattenSeq(<<>>) = <<>>
<1>1. <<>> \in Seq(Words) /\ Len(<<>>) = 0
  OBVIOUS
<1> QED
  BY <1>1, FlattenSteps

LEMMA FlattenOne ==
    ASSUME NEW a \in Words
    PROVE  FlattenSeq(<<a>>) = a
<1> DEFINE s == <<a>>
<1>1. s \in Seq(Words) /\ Len(s) = 1 /\ s[1] = a
  OBVIOUS
<1> HIDE DEF s
<1>2. PICK f \in [0..Len(s) -> Words] :
          /\ f[0] = <<>>
          /\ \A i \in 1..Len(s) : f[i] = f[i - 1] \o s[i]
          /\ FlattenSeq(s) = f[Len(s)]
  BY <1>1, FlattenSteps
<1>3. 1 - 1 = 0 /\ 1 \in 1..Len(s)
  BY <1>1
<1>4. FlattenSeq(s) = <<>> \o a
  BY <1>1, <1>2, <1>3
<1> QED
  BY <1>4, WordsConcat DEF s

\* Put together piece by piece, or all at once.
LEMMA FlattenConcat ==
    ASSUME NEW s \in Seq(Words), NEW t \in Seq(Words)
    PROVE  FlattenSeq(s \o t) = FlattenSeq(s) \o FlattenSeq(t)
<1> DEFINE M == Len(s)
           N == Len(t)
           u == s \o t
<1>1. /\ u \in Seq(Words) /\ Len(u) = M + N /\ M \in Nat /\ N \in Nat
      /\ \A i \in 1..M : u[i] = s[i]
      /\ \A i \in 1..N : u[M + i] = t[i]
      /\ \A i \in 1..N : t[i] \in Words
  OBVIOUS
<1>2. PICK f \in [0..M -> Words] :
          f[0] = <<>> /\ (\A i \in 1..M : f[i] = f[i - 1] \o s[i]) /\ FlattenSeq(s) = f[M]
  BY FlattenSteps
<1>3. PICK g \in [0..N -> Words] :
          g[0] = <<>> /\ (\A i \in 1..N : g[i] = g[i - 1] \o t[i]) /\ FlattenSeq(t) = g[N]
  BY FlattenSteps
<1> HIDE DEF M, N, u
<1>4. PICK h \in [0..(M + N) -> Words] :
          /\ h[0] = <<>> /\ (\A i \in 1..(M + N) : h[i] = h[i - 1] \o u[i])
          /\ FlattenSeq(u) = h[M + N]
  BY <1>1, FlattenSteps
<1>5. h[M] = f[M]
  <2> DEFINE P == {i \in 0..M : h[i] = f[i]}
  <2>1. 0 \in P
    BY <1>1, <1>2, <1>4
  <2>2. ASSUME NEW i \in 0..M, i \in P, i < M PROVE i + 1 \in P
    <3>1. i + 1 \in 1..M /\ i + 1 \in 1..(M + N) /\ i + 1 \in 0..M /\ (i + 1) - 1 = i
      BY <1>1, <2>2
    <3>2. f[i + 1] = f[i] \o s[i + 1] /\ h[i + 1] = h[i] \o u[i + 1]
      BY <1>2, <1>4, <3>1
    <3> QED BY <1>1, <2>2, <3>1, <3>2
  <2>3. \A i \in 0..M : i \in P /\ i < M => i + 1 \in P
    BY <2>2
  <2>4. \A i \in 0..M : i \in P
    <3> HIDE DEF P
    <3> QED BY <1>1, <2>1, <2>3, UpTo
  <2> QED
    BY <1>1, <2>4
<1>6. h[M + N] = f[M] \o g[N]
  <2> DEFINE P == {i \in 0..N : h[M + i] = f[M] \o g[i]}
  <2>1. 0 \in P
    <3>1. M + 0 = M /\ 0 \in 0..N /\ f[M] \in Words
      BY <1>1
    <3>2. f[M] \o <<>> = f[M]
      BY <3>1, WordsConcat
    <3> QED BY <1>3, <1>5, <3>1, <3>2
  <2>2. ASSUME NEW i \in 0..N, i \in P, i < N PROVE i + 1 \in P
    <3> M \in Nat /\ N \in Nat /\ i \in Nat /\ i < N
      BY <1>1, <2>2
    <3>1. /\ i + 1 \in 1..N /\ M + (i + 1) \in 1..(M + N) /\ i + 1 \in 0..N
          /\ (i + 1) - 1 = i /\ (M + (i + 1)) - 1 = M + i /\ M \in 0..M
      OBVIOUS
    <3>2. g[i + 1] = g[i] \o t[i + 1] /\ h[M + (i + 1)] = h[M + i] \o u[M + (i + 1)]
      BY <1>3, <1>4, <3>1
    <3>3. u[M + (i + 1)] = t[i + 1] /\ t[i + 1] \in Words
      BY <1>1, <3>1
    <3>4. f[M] \in Words /\ g[i] \in Words
      BY <3>1
    <3>5. (f[M] \o g[i]) \o t[i + 1] = f[M] \o (g[i] \o t[i + 1])
      BY <3>3, <3>4, WordsConcat
    <3>6. h[M + i] = f[M] \o g[i]
      BY <2>2
    <3> QED BY <3>1, <3>2, <3>3, <3>5, <3>6
  <2>3. \A i \in 0..N : i \in P /\ i < N => i + 1 \in P
    BY <2>2
  <2>4. \A i \in 0..N : i \in P
    <3> HIDE DEF P
    <3> QED BY <1>1, <2>1, <2>3, UpTo
  <2> QED
    BY <1>1, <2>4
<1> QED
  BY <1>2, <1>3, <1>4, <1>6 DEF u

-----------------------------------------------------------------------------
(* What the callback does with the words.                                  *)

\* The raw events that are sent, with the chunk behind them, are the words.
LEMMA TakeWordsKeeps ==
    ASSUME NEW acc \in Acc, NEW words \in Words
    PROVE  LET r == TakeWords(acc, words)
           IN  /\ r \in Acc
               /\ FlattenSeq(r.sends) \o r.chunk = (FlattenSeq(acc.sends) \o acc.chunk) \o words
<1> DEFINE N == Len(words)
           All(a) == FlattenSeq(a.sends) \o a.chunk
<1>1. N \in Nat /\ (\A i \in 1..N : words[i] \in Word) /\ N \in 0..N
  BY DEF Words
<1>2. PICK f \in [0..N -> Acc] :
          /\ f[0] = acc
          /\ \A i \in 1..N : f[i] = TakeWord(f[i - 1], words[i])
          /\ TakeWords(acc, words) = f[N]
  BY TakeWordsSteps DEF Words
<1>3. ASSUME NEW a \in Acc PROVE a.sends \in Seq(Words) /\ a.chunk \in Words /\ All(a) \in Words
  <2>1. a.sends \in Seq(Words) /\ a.chunk \in Words
    BY DEF Acc, Words
  <2> QED BY <2>1, FlattenType, WordsConcat
<1>4. ASSUME NEW a \in Acc, NEW w \in Word PROVE All(TakeWord(a, w)) = All(a) \o <<w>>
  <2>1. /\ a.sends \in Seq(Words) /\ a.chunk \in Words /\ <<w>> \in Words
        /\ FlattenSeq(a.sends) \in Words /\ Append(a.chunk, w) \in Words
        /\ Append(a.chunk, w) = a.chunk \o <<w>>
    <3>1. a.sends \in Seq(Words) /\ a.chunk \in Words
      BY <1>3
    <3>2. <<w>> \in Words /\ Append(a.chunk, w) \in Words
      BY <3>1 DEF Words
    <3>3. Append(a.chunk, w) = a.chunk \o <<w>>
      BY <3>1, AppendIsConcat DEF Words
    <3> QED BY <3>1, <3>2, <3>3, FlattenType
  <2>2. FlattenSeq(a.sends) \o Append(a.chunk, w) = All(a) \o <<w>>
    <3>1. (FlattenSeq(a.sends) \o a.chunk) \o <<w>> = FlattenSeq(a.sends) \o (a.chunk \o <<w>>)
      BY <2>1, WordsAssoc
    <3> QED BY <2>1, <3>1
  <2>3. CASE IsRegid(w)
    <3> DEFINE e == Append(a.chunk, w)
    <3>1. TakeWord(a, w).sends = Append(a.sends, e) /\ TakeWord(a, w).chunk = <<>>
      BY <2>3 DEF TakeWord
    <3> HIDE DEF e
    <3>2. e \in Words /\ <<e>> \in Seq(Words)
      BY <2>1 DEF e
    <3>3. Append(a.sends, e) = a.sends \o <<e>>
      BY <2>1, <3>2, AppendIsConcat
    <3>4. FlattenSeq(Append(a.sends, e)) = FlattenSeq(a.sends) \o e
      BY <2>1, <3>2, <3>3, FlattenConcat, FlattenOne
    <3>5. FlattenSeq(a.sends) \o e \in Words
      BY <2>1, <3>2, WordsConcat
    <3> QED
      BY <2>2, <3>1, <3>4, <3>5, WordsConcat DEF e
  <2>4. CASE ~IsRegid(w)
    <3>1. TakeWord(a, w).sends = a.sends /\ TakeWord(a, w).chunk = Append(a.chunk, w)
      BY <2>4 DEF TakeWord, Acc
    <3> QED
      BY <2>2, <3>1
  <2> QED
    BY <2>3, <2>4
<1> HIDE DEF All, N
<1> DEFINE P == {i \in 0..N : All(f[i]) = All(acc) \o SubSeq(words, 1, i)}
<1>5. 0 \in P
  <2>1. SubSeq(words, 1, 0) = <<>> /\ 0 \in 0..N
    BY <1>1
  <2>2. All(acc) \o <<>> = All(acc)
    BY <1>3, WordsConcat
  <2> QED BY <1>2, <2>1, <2>2
<1>6. ASSUME NEW i \in 0..N, i \in P, i < N PROVE i + 1 \in P
  <2>1. i + 1 \in 1..N /\ i + 1 \in 0..N /\ (i + 1) - 1 = i
    BY <1>1, <1>6
  <2>2. f[i + 1] = TakeWord(f[i], words[i + 1]) /\ f[i] \in Acc /\ words[i + 1] \in Word
    BY <1>1, <1>2, <2>1
  <2>3. All(f[i + 1]) = All(f[i]) \o <<words[i + 1]>>
    BY <1>4, <2>2
  <2>4. /\ SubSeq(words, 1, i) \in Words /\ <<words[i + 1]>> \in Words
        /\ SubSeq(words, 1, i + 1) = SubSeq(words, 1, i) \o <<words[i + 1]>>
    <3>1. SubSeq(words, 1, i) \in Words /\ <<words[i + 1]>> \in Words
      BY <1>1, <1>6, <2>2 DEF Words, N
    <3>2. SubSeq(words, 1, i + 1) = SubSeq(words, 1, i) \o <<words[i + 1]>>
      <4>1. 1 \in 1..Len(words) /\ i + 1 \in 1..Len(words)
        BY <1>1, <2>1 DEF N
      <4> QED BY <2>1, <4>1, SubSeqRecursiveSecond DEF Words
    <3> QED BY <3>1, <3>2
  <2>5. All(f[i]) = All(acc) \o SubSeq(words, 1, i)
    BY <1>6
  <2>6. All(acc) \in Words
    BY <1>3
  <2>7. (All(acc) \o SubSeq(words, 1, i)) \o <<words[i + 1]>>
          = All(acc) \o (SubSeq(words, 1, i) \o <<words[i + 1]>>)
    BY <2>4, <2>6, WordsAssoc
  <2>8. All(f[i + 1]) = All(acc) \o SubSeq(words, 1, i + 1)
    BY <2>3, <2>4, <2>5, <2>7
  <2> QED
    BY <2>1, <2>8
<1>7. \A i \in 0..N : i \in P
  <2>1. \A i \in 0..N : i \in P /\ i < N => i + 1 \in P
    BY <1>6
  <2> HIDE DEF P
  <2> QED BY <1>1, <1>5, <2>1, UpTo
<1>8. SubSeq(words, 1, N) = words
  BY SubSeqFull DEF Words, N
<1> QED
  BY <1>1, <1>2, <1>7, <1>8 DEF All

-----------------------------------------------------------------------------
(* The datagram.                                                           *)

Datagram == [head : Int \X Int, data : Words]

HeadFree(d) == PAD \notin {d.head[1], d.head[2]}

LEMMA PayloadType ==
    ASSUME NEW d \in Datagram, d.data # <<>>
    PROVE  Payload(d) \in Words
<1>1. d.data \in Words /\ Tail(d.data) \in Words
  BY DEF Datagram, Words
<1> QED
  BY <1>1 DEF Payload

\* With a sequence number without the empty word only an empty word is skipped.
LEMMA PayloadWords ==
    ASSUME NEW d \in Datagram, d.data # <<>>, HeadFree(d)
    PROVE  \/ Payload(d) = d.data
           \/ /\ d.data[1].n = PAD
              /\ Payload(d) = Tail(d.data)
<1> DEFINE third == <<d.data[1].n>>
<1>1. Payload(d) = IF PAD \in {d.head[1], d.head[2]} \cup ToSet(third) THEN Tail(d.data) ELSE d.data
  BY DEF Payload
<1>2. ToSet(third) = {d.data[1].n}
  BY DEF ToSet
<1> HIDE DEF third
<1> QED
  BY <1>1, <1>2 DEF HeadFree

LEMMA HeadAndTail ==
    ASSUME NEW a \in Words, a # <<>>
    PROVE  /\ a[1] \in Word /\ <<a[1]>> \in Words /\ Tail(a) \in Words
           /\ a = <<a[1]>> \o Tail(a)
           /\ Len(a) = 1 + Len(Tail(a))
           /\ \A i \in 1..Len(Tail(a)) : Tail(a)[i] = a[1 + i]
<1>1. Len(a) \in Nat \ {0} /\ a[1] \in Word /\ Tail(a) \in Words
  BY DEF Words
<1>2. <<a[1]>> \in Words
  BY <1>1 DEF Words
<1>3. Len(Tail(a)) = Len(a) - 1 /\ \A i \in 1..Len(Tail(a)) : Tail(a)[i] = a[i + 1]
  BY HeadTailProperties DEF Words
<1>4. a = <<a[1]>> \o Tail(a)
  <2>1. <<a[1]>> \o Tail(a) \in Words /\ Len(<<a[1]>> \o Tail(a)) = Len(a)
    BY <1>1, <1>2, <1>3 DEF Words
  <2>2. \A i \in 1..Len(a) : (<<a[1]>> \o Tail(a))[i] = a[i]
    BY <1>1, <1>2, <1>3, <2>1 DEF Words
  <2> QED
    BY <2>1, <2>2, SeqEqual DEF Words
<1> QED
  BY <1>1, <1>2, <1>3, <1>4

LEMMA PayloadNoPad ==
    ASSUME NEW d \in Datagram, d.data # <<>>, HeadFree(d)
    PROVE  NoPad(Payload(d)) = NoPad(d.data)
<1>1. d.data \in Words
  BY DEF Datagram
<1>2. CASE Payload(d) = d.data
  BY <1>2
<1>3. CASE d.data[1].n = PAD /\ Payload(d) = Tail(d.data)
  <2>1. /\ d.data[1] \in Word /\ <<d.data[1]>> \in Words /\ Tail(d.data) \in Words
        /\ d.data = <<d.data[1]>> \o Tail(d.data)
    BY <1>1, HeadAndTail
  <2>2. NoPad(d.data) = NoPad(<<d.data[1]>>) \o NoPad(Tail(d.data))
    BY <2>1, NoPadConcat DEF Words
  <2>3. NoPad(<<d.data[1]>>) = <<>>
    BY <1>3, <2>1, NoPadOne
  <2>4. NoPad(Tail(d.data)) \in Words
    BY <2>1, NoPadType DEF Words
  <2> QED
    BY <1>3, <2>2, <2>3, <2>4, WordsConcat
<1> QED
  BY <1>2, <1>3, PayloadWords

LEMMA RecvfromCuts ==
    ASSUME NEW d \in Datagram, d.data # <<>>
    PROVE  LET r == recvfrom(d)
           IN  /\ r \in Datagram /\ r.data # <<>> /\ r.head = d.head
               /\ Len(r.data) <= Len(d.data)
               /\ Len(r.data) = Len(d.data) => r.data = d.data
<1> DEFINE m == IF Len(d.data) > ReceiveBuffer - 2 THEN ReceiveBuffer - 2 ELSE Len(d.data)
           c == SubSeq(d.data, 1, m)
<1>1. d.data \in Words /\ Len(d.data) \in Nat \ {0} /\ d.head \in Int \X Int
  BY DEF Datagram, Words
<1>2. m \in 1..Len(d.data)
  BY <1>1, ReaderAssumption
<1>3. recvfrom(d) = [d EXCEPT !.data = c]
  BY DEF recvfrom
<1> HIDE DEF m
<1>4. c \in Words /\ Len(c) = m
  BY <1>1, <1>2 DEF Words
<1>5. m = Len(d.data) => c = d.data
  BY <1>1, SubSeqFull DEF Words
<1> HIDE DEF c
<1>6. recvfrom(d).head = d.head /\ recvfrom(d).data = c /\ recvfrom(d) \in Datagram
  BY <1>1, <1>3, <1>4 DEF Datagram
<1>7. c # <<>>
  BY <1>2, <1>4
<1> QED
  BY <1>1, <1>2, <1>4, <1>5, <1>6, <1>7

-----------------------------------------------------------------------------
(* Where in the stream of the board the chunk began.                       *)

\* After p words the event that is under way began behind word b.
Begun(b, p) ==
    /\ b \in 0..p
    /\ b = 0 \/ IsRegid(Stream[b])
    /\ \A k \in (b + 1)..p : ~IsRegid(Stream[k])

\* The chunk c is what has come of the event under way after p words.
Aligned(c, p) == \E b : Begun(b, p) /\ NoPad(c) = NoPad(SubSeq(Stream, b + 1, p))

LEMMA StreamWords ==
    /\ Stream \in Words /\ Len(Stream) \in Nat
    /\ \A i \in 1..Len(Stream) :
          Stream[i] \in Word /\ (IsRegid(Stream[i]) => Stream[i].n # PAD)
  BY ReaderAssumption DEF Words, IsRegid

\* One more word of the stream.
LEMMA OneMore ==
    ASSUME NEW p \in 0..Len(Stream), p < Len(Stream), NEW b \in 0..p
    PROVE  /\ SubSeq(Stream, b + 1, p) \in Words /\ <<Stream[p + 1]>> \in Words
           /\ SubSeq(Stream, b + 1, p + 1) = SubSeq(Stream, b + 1, p) \o <<Stream[p + 1]>>
           /\ NoPad(SubSeq(Stream, b + 1, p + 1))
                = NoPad(SubSeq(Stream, b + 1, p)) \o NoPad(<<Stream[p + 1]>>)
<1>1. Stream \in Words /\ p + 1 \in 1..Len(Stream) /\ Stream[p + 1] \in Word
  BY StreamWords
<1>2. SubSeq(Stream, b + 1, p) \in Words
  <2>1. \A i \in (b + 1)..p : Stream[i] \in Word
    BY StreamWords
  <2> QED BY <2>1, SubSeqProperties, StreamWords DEF Words
<1>3. <<Stream[p + 1]>> \in Words
  BY <1>1 DEF Words
<1>4. SubSeq(Stream, b + 1, p + 1) = SubSeq(Stream, b + 1, p) \o <<Stream[p + 1]>>
  <2>1. b + 1 \in 1..Len(Stream) /\ p + 1 \in (b + 1)..Len(Stream) /\ (p + 1) - 1 = p
    BY StreamWords
  <2> QED BY <1>1, <2>1, SubSeqRecursiveSecond DEF Words
<1> QED
  BY <1>2, <1>3, <1>4, NoPadConcat DEF Words

\* An empty word that is skipped.
LEMMA AlignedSkip ==
    ASSUME NEW c \in Words, NEW p \in 0..Len(Stream), p < Len(Stream),
           Aligned(c, p), Stream[p + 1].n = PAD
    PROVE  Aligned(c, p + 1)
<1>1. PICK b : Begun(b, p) /\ NoPad(c) = NoPad(SubSeq(Stream, b + 1, p))
  BY DEF Aligned
<1>2. b \in 0..p /\ p + 1 \in 1..Len(Stream)
  BY <1>1, StreamWords DEF Begun
<1>3. ~IsRegid(Stream[p + 1]) /\ Stream[p + 1] \in Word
  BY <1>2, StreamWords
<1>4. Begun(b, p + 1)
  <2>1. b \in 0..(p + 1) /\ (b = 0 \/ IsRegid(Stream[b]))
    BY <1>1, <1>2 DEF Begun
  <2>2. ASSUME NEW k \in (b + 1)..(p + 1) PROVE ~IsRegid(Stream[k])
    <3>1. k = p + 1 \/ k \in (b + 1)..p
      BY <1>2
    <3> QED BY <1>1, <1>3, <3>1 DEF Begun
  <2> QED BY <2>1, <2>2 DEF Begun
<1>5. NoPad(<<Stream[p + 1]>>) = <<>>
  BY <1>3, NoPadOne
<1>6. NoPad(SubSeq(Stream, b + 1, p)) \in Words
  BY <1>2, OneMore, NoPadType DEF Words
<1>7. NoPad(SubSeq(Stream, b + 1, p + 1)) = NoPad(SubSeq(Stream, b + 1, p)) \o <<>>
  BY <1>2, <1>5, OneMore
<1>8. NoPad(c) = NoPad(SubSeq(Stream, b + 1, p + 1))
  BY <1>1, <1>6, <1>7, WordsConcat
<1> QED
  BY <1>4, <1>8 DEF Aligned

\* A word that is taken: a chunk that is sent off is an event of the board.
LEMMA AlignedTake ==
    ASSUME NEW a \in Acc, NEW p \in 0..Len(Stream), p < Len(Stream),
           Aligned(a.chunk, p), \A k \in 1..Len(a.sends) : Whole(a.sends[k])
    PROVE  LET r == TakeWord(a, Stream[p + 1])
           IN  /\ Aligned(r.chunk, p + 1)
               /\ \A k \in 1..Len(r.sends) : Whole(r.sends[k])
<1> DEFINE w == Stream[p + 1]
           e == Append(a.chunk, w)
<1>1. PICK b : Begun(b, p) /\ NoPad(a.chunk) = NoPad(SubSeq(Stream, b + 1, p))
  BY DEF Aligned
<1>2. b \in 0..p /\ p + 1 \in 1..Len(Stream)
  BY <1>1, StreamWords DEF Begun
<1>3. w \in Word /\ a.chunk \in Words /\ a.sends \in Seq(Words)
  BY <1>2, StreamWords DEF Acc, Words
<1>4. e \in Words /\ NoPad(e) = NoPad(SubSeq(Stream, b + 1, p + 1))
  <2>1. e \in Words /\ <<w>> \in Words /\ e = a.chunk \o <<w>>
    BY <1>3, AppendIsConcat DEF Words
  <2>2. NoPad(e) = NoPad(a.chunk) \o NoPad(<<w>>)
    BY <1>3, <2>1, NoPadConcat DEF Words
  <2> QED
    BY <1>1, <1>2, <2>1, <2>2, OneMore
<1>5. CASE IsRegid(w)
  <2>1. TakeWord(a, w).chunk = <<>> /\ TakeWord(a, w).sends = Append(a.sends, e)
    BY <1>5 DEF TakeWord
  <2>2. Aligned(<<>>, p + 1)
    <3>1. Begun(p + 1, p + 1)
      BY <1>2, <1>5 DEF Begun
    <3>2. SubSeq(Stream, (p + 1) + 1, p + 1) = <<>>
      BY <1>2, SubSeqEmpty
    <3> QED BY <3>1, <3>2 DEF Aligned
  <2>3. Whole(e)
    <3>1. b + 1 \in 1..Len(Stream) /\ b + 1 <= p + 1
      BY <1>2, StreamWords
    <3>2. b + 1 = 1 \/ IsRegid(Stream[(b + 1) - 1])
      <4>1. (b + 1) - 1 = b
        BY <1>2
      <4> QED BY <1>1, <4>1 DEF Begun
    <3>3. \A k \in (b + 1)..((p + 1) - 1) : ~IsRegid(Stream[k])
      <4>1. (p + 1) - 1 = p
        OBVIOUS
      <4> QED BY <1>1, <4>1 DEF Begun
    <3> HIDE DEF e
    <3> QED BY <1>2, <1>4, <1>5, <3>1, <3>2, <3>3 DEF Whole
  <2> HIDE DEF e
  <2>4. ASSUME NEW k \in 1..Len(Append(a.sends, e)) PROVE Whole(Append(a.sends, e)[k])
    <3>1. \/ k \in 1..Len(a.sends) /\ Append(a.sends, e)[k] = a.sends[k]
          \/ Append(a.sends, e)[k] = e
      BY <1>3, <1>4
    <3> QED BY <2>3, <3>1
  <2> HIDE DEF w
  <2> QED
    BY <2>1, <2>2, <2>4 DEF w
<1>6. CASE ~IsRegid(w)
  <2>1. TakeWord(a, w).chunk = e /\ TakeWord(a, w).sends = a.sends
    BY <1>6 DEF TakeWord, Acc
  <2>2. Begun(b, p + 1)
    <3>1. b \in 0..(p + 1) /\ (b = 0 \/ IsRegid(Stream[b]))
      BY <1>1, <1>2 DEF Begun
    <3>2. ASSUME NEW k \in (b + 1)..(p + 1) PROVE ~IsRegid(Stream[k])
      <4>1. k = p + 1 \/ k \in (b + 1)..p
        BY <1>2
      <4> QED BY <1>1, <1>6, <4>1 DEF Begun
    <3> QED BY <3>1, <3>2 DEF Begun
  <2>3. Aligned(e, p + 1)
    <3> HIDE DEF e
    <3> QED BY <1>4, <2>2 DEF Aligned
  <2> QED
    BY <2>1, <2>3
<1> QED
  BY <1>5, <1>6

\* The words of a datagram that follow in the stream.
LEMMA AlignedWords ==
    ASSUME NEW a \in Acc, NEW words \in Words, NEW p \in Nat,
           p + Len(words) <= Len(Stream),
           \A i \in 1..Len(words) : words[i] = Stream[p + i],
           Aligned(a.chunk, p), \A k \in 1..Len(a.sends) : Whole(a.sends[k])
    PROVE  LET r == TakeWords(a, words)
           IN  /\ Aligned(r.chunk, p + Len(words))
               /\ \A k \in 1..Len(r.sends) : Whole(r.sends[k])
<1> DEFINE N == Len(words)
           Good(x, q) == Aligned(x.chunk, q) /\ \A k \in 1..Len(x.sends) : Whole(x.sends[k])
<1>1. N \in Nat /\ Len(Stream) \in Nat /\ p + N <= Len(Stream) /\ N \in 0..N
  BY StreamWords DEF Words
<1>2. PICK f \in [0..N -> Acc] :
          /\ f[0] = a
          /\ \A i \in 1..N : f[i] = TakeWord(f[i - 1], words[i])
          /\ TakeWords(a, words) = f[N]
  BY TakeWordsSteps DEF Words
<1>3. \A i \in 1..N : words[i] = Stream[p + i]
  OBVIOUS
<1> HIDE DEF N
<1>4. ASSUME NEW x \in Acc, NEW q \in 0..Len(Stream), q < Len(Stream), Good(x, q)
      PROVE  Good(TakeWord(x, Stream[q + 1]), q + 1)
  BY <1>4, AlignedTake
<1>5. Good(a, p)
  OBVIOUS
<1> HIDE DEF Good
<1> DEFINE P == {i \in 0..N : Good(f[i], p + i)}
<1>6. 0 \in P
  <2>1. p + 0 = p /\ 0 \in 0..N
    BY <1>1
  <2> QED BY <1>2, <1>5, <2>1
<1>7. ASSUME NEW i \in 0..N, i \in P, i < N PROVE i + 1 \in P
  <2>1. /\ i + 1 \in 1..N /\ i + 1 \in 0..N /\ (i + 1) - 1 = i
        /\ p + i \in 0..Len(Stream) /\ p + i < Len(Stream) /\ (p + i) + 1 = p + (i + 1)
    BY <1>1, <1>7
  <2>2. f[i] \in Acc /\ f[i + 1] = TakeWord(f[i], words[i + 1]) /\ words[i + 1] = Stream[(p + i) + 1]
    BY <1>2, <1>3, <2>1
  <2>3. Good(f[i], p + i)
    BY <1>7
  <2>4. Good(TakeWord(f[i], Stream[(p + i) + 1]), (p + i) + 1)
    BY <1>4, <2>1, <2>2, <2>3
  <2>5. Good(f[i + 1], p + (i + 1))
    BY <2>1, <2>2, <2>4
  <2> QED
    BY <2>1, <2>5
<1>8. \A i \in 0..N : i \in P
  <2>1. \A i \in 0..N : i \in P /\ i < N => i + 1 \in P
    BY <1>7
  <2> HIDE DEF P
  <2> QED BY <1>1, <1>6, <2>1, UpTo
<1>9. Good(TakeWords(a, words), p + N)
  BY <1>1, <1>2, <1>8
<1> QED
  BY <1>9 DEF Good, N

-----------------------------------------------------------------------------
(* Types.                                                                  *)

Report == [in_events : Nat, out_events : Nat, out_bytes : Nat]

TypeInv ==
    /\ sent \in 0..Len(Stream)
    /\ seqno \in Nat /\ seqno >= FirstSeq
    /\ socket \in Seq(Datagram) /\ Len(socket) <= SocketBuffer
    /\ \A i \in 1..Len(socket) : socket[i].data # <<>>
    /\ running \in BOOLEAN
    /\ chunk \in Words /\ Len(chunk) < MAX_EVENT_SIZE
    /\ out \in Seq(Words)
    /\ report \in Report
    /\ arrived \in Words
    /\ discarded \in BOOLEAN

\* The accumulator at the first word, and when the loop is done.
Start == [chunk |-> chunk, sends |-> <<>>]
Done(d) == TakeWords(Start, Payload(d))

LEMMA DoneWords ==
    ASSUME TypeInv, NEW d \in Datagram, d.data # <<>>
    PROVE  /\ Start \in Acc /\ Done(d) \in Acc
           /\ Done(d).sends \in Seq(Words) /\ Done(d).chunk \in Words
           /\ FlattenSeq(Done(d).sends) \o Done(d).chunk = chunk \o Payload(d)
<1>1. chunk \in Words
  BY DEF TypeInv
<1>2. Start \in Acc /\ Start.sends = <<>> /\ Start.chunk = chunk
  BY <1>1 DEF Start, Acc, Words
<1>3. Payload(d) \in Words
  BY PayloadType
<1>4. /\ Done(d) \in Acc
      /\ FlattenSeq(Done(d).sends) \o Done(d).chunk
           = (FlattenSeq(Start.sends) \o Start.chunk) \o Payload(d)
  <2> HIDE DEF Start
  <2> QED BY <1>2, <1>3, TakeWordsKeeps DEF Done
<1>5. FlattenSeq(Start.sends) \o Start.chunk = chunk
  BY <1>1, <1>2, FlattenEmpty, WordsConcat
<1>6. Done(d).sends \in Seq(Words) /\ Done(d).chunk \in Words
  BY <1>4 DEF Acc, Words
<1> QED
  BY <1>2, <1>4, <1>5, <1>6

\* The callback, with the accumulator named.
LEMMA HandlerSteps ==
    ASSUME NEW d, udp_handler(d)
    PROVE  /\ out' = out \o Done(d).sends
           /\ chunk' = IF TooLong(Done(d).chunk) THEN <<>> ELSE Done(d).chunk
           /\ report' = [in_events  |-> report.in_events + Len(Done(d).sends),
                         out_events |-> report.out_events + Len(Done(d).sends),
                         out_bytes  |-> report.out_bytes + 2 * Len(FlattenSeq(Done(d).sends))]
           /\ arrived' = arrived \o d.data
           /\ discarded' = (discarded \/ TooLong(Done(d).chunk))
  BY DEF udp_handler, Done, Start

LEMMA HandlerTypes ==
    ASSUME TypeInv, NEW d \in Datagram, d.data # <<>>, udp_handler(d)
    PROVE  /\ chunk' \in Words /\ Len(chunk') < MAX_EVENT_SIZE
           /\ out' \in Seq(Words)
           /\ report' \in Report
           /\ arrived' \in Words
           /\ discarded' \in BOOLEAN
<1> DEFINE r == Done(d)
<1>1. r.sends \in Seq(Words) /\ r.chunk \in Words
  BY DoneWords
<1>2. Len(r.sends) \in Nat /\ Len(FlattenSeq(r.sends)) \in Nat /\ Len(r.chunk) \in Nat
  BY <1>1, FlattenType, WordsConcat
<1>3. /\ out' = out \o r.sends
      /\ chunk' = IF TooLong(r.chunk) THEN <<>> ELSE r.chunk
      /\ report' = [in_events  |-> report.in_events + Len(r.sends),
                    out_events |-> report.out_events + Len(r.sends),
                    out_bytes  |-> report.out_bytes + 2 * Len(FlattenSeq(r.sends))]
      /\ arrived' = arrived \o d.data
      /\ discarded' = (discarded \/ TooLong(r.chunk))
  BY HandlerSteps
<1> HIDE DEF r
<1>4. chunk' \in Words /\ Len(chunk') < MAX_EVENT_SIZE
  <2>1. CASE TooLong(r.chunk)
    <3>1. Len(<<>>) = 0 /\ <<>> \in Words
      BY DEF Words
    <3> QED BY <1>3, <2>1, <3>1, ReaderAssumption
  <2>2. CASE ~TooLong(r.chunk)
    BY <1>1, <1>2, <1>3, <2>2, ReaderAssumption DEF TooLong
  <2> QED BY <2>1, <2>2
<1>5. out' \in Seq(Words)
  BY <1>1, <1>3 DEF TypeInv
<1>6. report' \in Report
  <2> DEFINE n == Len(r.sends)
             m == Len(FlattenSeq(r.sends))
  <2>1. n \in Nat /\ m \in Nat /\ report.in_events \in Nat /\ report.out_events \in Nat
        /\ report.out_bytes \in Nat
    BY <1>2 DEF TypeInv, Report
  <2>2. report' = [in_events |-> report.in_events + n, out_events |-> report.out_events + n,
                   out_bytes |-> report.out_bytes + 2 * m]
    BY <1>3
  <2> HIDE DEF n, m
  <2>3. report.in_events + n \in Nat /\ report.out_events + n \in Nat
        /\ report.out_bytes + 2 * m \in Nat
    BY <2>1
  <2> QED BY <2>2, <2>3 DEF Report
<1>7. arrived' \in Words
  BY <1>3, WordsConcat DEF TypeInv, Datagram
<1>8. discarded' \in BOOLEAN
  BY <1>3
<1> QED
  BY <1>4, <1>5, <1>6, <1>7, <1>8

\* The datagram at the head of the socket buffer.
LEMMA HeadOfSocket ==
    ASSUME TypeInv, socket # <<>>
    PROVE  /\ Head(socket) = socket[1] /\ Head(socket) \in Datagram /\ Head(socket).data # <<>>
           /\ Len(socket) \in Nat \ {0}
           /\ Tail(socket) \in Seq(Datagram) /\ Len(Tail(socket)) = Len(socket) - 1
           /\ \A i \in 1..Len(Tail(socket)) : Tail(socket)[i] = socket[i + 1]
<1>1. socket \in Seq(Datagram)
  BY DEF TypeInv
<1>2. Len(socket) \in Nat \ {0} /\ Head(socket) = socket[1] /\ 1 \in 1..Len(socket)
  BY <1>1
<1>3. Head(socket).data # <<>>
  BY <1>2 DEF TypeInv
<1> QED
  BY <1>1, <1>2, <1>3, HeadTailProperties

LEMMA InitTypes == Init => TypeInv
<1> SUFFICES ASSUME Init PROVE TypeInv
  OBVIOUS
<1>1. <<>> \in Words /\ Len(<<>>) = 0 /\ <<>> \in Seq(Words) /\ <<>> \in Seq(Datagram)
  BY DEF Words
<1>2. Len(Stream) \in Nat /\ FirstSeq \in Nat /\ SocketBuffer \in Nat /\ MAX_EVENT_SIZE > 0
  BY ReaderAssumption, StreamWords
<1>3. sent \in 0..Len(Stream) /\ seqno \in Nat /\ seqno >= FirstSeq
  BY <1>2 DEF Init
<1>4. socket \in Seq(Datagram) /\ Len(socket) <= SocketBuffer /\ 1..Len(socket) = {}
  BY <1>1, <1>2 DEF Init
<1>5. chunk \in Words /\ Len(chunk) < MAX_EVENT_SIZE /\ out \in Seq(Words) /\ arrived \in Words
  BY <1>1, <1>2, ReaderAssumption DEF Init
<1>6. report \in Report
  BY DEF Init, Report
<1>7. running \in BOOLEAN /\ discarded \in BOOLEAN
  BY DEF Init
<1> QED
  BY <1>3, <1>4, <1>5, <1>6, <1>7 DEF TypeInv

\* The datagram that is sent.
LEMMA TransmitData ==
    ASSUME TypeInv, NEW n \in 1..MaxDatagram, Transmit(n)
    PROVE  LET data == SubSeq(Stream, sent + 1, sent + n)
               d == [head |-> <<seqno \div WordMod, seqno % WordMod>>, data |-> data]
           IN  /\ data \in Words /\ Len(data) = n /\ data # <<>>
               /\ d \in Datagram
<1> DEFINE data == SubSeq(Stream, sent + 1, sent + n)
<1>1. n \in Nat \ {0} /\ sent \in Nat /\ sent + n <= Len(Stream) /\ Len(Stream) \in Nat
  BY StreamWords, ReaderAssumption DEF TypeInv, Transmit
<1>2. data \in Words /\ Len(data) = n
  <2>1. \A i \in (sent + 1)..(sent + n) : Stream[i] \in Word
    BY <1>1, StreamWords
  <2>2. data \in Words /\ Len(data) = IF sent + 1 <= sent + n THEN (sent + n) - (sent + 1) + 1 ELSE 0
    BY <1>1, <2>1, SubSeqProperties DEF Words
  <2> HIDE DEF data
  <2> QED BY <1>1, <2>2
<1>3. data # <<>>
  BY <1>1, <1>2
<1>4. seqno \div WordMod \in Int /\ seqno % WordMod \in Int
  BY ReaderAssumption DEF TypeInv
<1> HIDE DEF data
<1>5. [head |-> <<seqno \div WordMod, seqno % WordMod>>, data |-> data] \in Datagram
  BY <1>2, <1>4 DEF Datagram
<1> QED
  BY <1>2, <1>3, <1>5 DEF data

LEMMA NextTypes == TypeInv /\ [Next]_vars => TypeInv'
<1> SUFFICES ASSUME TypeInv, [Next]_vars PROVE TypeInv'
  OBVIOUS
<1>1. CASE UNCHANGED vars
  BY <1>1 DEF TypeInv, vars
<1>2. ASSUME NEW n \in 1..MaxDatagram, Transmit(n) PROVE TypeInv'
  <2> DEFINE data == SubSeq(Stream, sent + 1, sent + n)
             d == [head |-> <<seqno \div WordMod, seqno % WordMod>>, data |-> data]
  <2>1. data \in Words /\ data # <<>> /\ d \in Datagram /\ d.data = data
    BY <1>2, TransmitData
  <2>2. \/ Len(socket) < SocketBuffer /\ socket' = Append(socket, d)
        \/ UNCHANGED socket
    BY <1>2 DEF Transmit
  <2>3. sent' \in 0..Len(Stream) /\ seqno' \in Nat /\ seqno' >= FirstSeq
    <3>1. sent + n <= Len(Stream) /\ sent' = sent + n /\ seqno' = seqno + 1
      BY <1>2 DEF Transmit
    <3> QED BY <3>1, StreamWords, ReaderAssumption DEF TypeInv
  <2> HIDE DEF data, d
  <2>4. /\ socket' \in Seq(Datagram) /\ Len(socket') <= SocketBuffer
        /\ \A i \in 1..Len(socket') : socket'[i].data # <<>>
    <3>1. CASE UNCHANGED socket
      BY <3>1 DEF TypeInv
    <3>2. CASE Len(socket) < SocketBuffer /\ socket' = Append(socket, d)
      <4>1. socket \in Seq(Datagram) /\ \A i \in 1..Len(socket) : socket[i].data # <<>>
        BY DEF TypeInv
      <4>2. /\ socket' \in Seq(Datagram) /\ Len(socket') = Len(socket) + 1
            /\ \A i \in 1..Len(socket') : socket'[i] = IF i <= Len(socket) THEN socket[i] ELSE d
        BY <2>1, <3>2, <4>1
      <4>3. Len(socket') <= SocketBuffer
        BY <3>2, <4>1, <4>2, ReaderAssumption
      <4>4. ASSUME NEW i \in 1..Len(socket') PROVE socket'[i].data # <<>>
        <5>1. i \in 1..Len(socket) \/ socket'[i] = d
          BY <4>1, <4>2
        <5> QED BY <2>1, <4>1, <4>2, <5>1
      <4> QED BY <4>2, <4>3, <4>4
    <3> QED BY <2>2, <3>1, <3>2
  <2>5. UNCHANGED <<running, chunk, out, report, switches, arrived, discarded>>
    BY <1>2 DEF Transmit
  <2> QED
    BY <2>3, <2>4, <2>5 DEF TypeInv
<1>3. CASE Poll
  <2>1. socket # <<>> /\ socket' = Tail(socket) /\ UNCHANGED <<sent, seqno, running, switches>>
    BY <1>3 DEF Poll, ns_mgr_poll, Readable
  <2>2. /\ socket' \in Seq(Datagram) /\ Len(socket') <= SocketBuffer
        /\ \A i \in 1..Len(socket') : socket'[i].data # <<>>
    <3>1. /\ Tail(socket) \in Seq(Datagram) /\ Len(Tail(socket)) = Len(socket) - 1
          /\ Len(socket) \in Nat
          /\ \A i \in 1..Len(Tail(socket)) : Tail(socket)[i] = socket[i + 1]
      BY <2>1, HeadOfSocket
    <3>2. Len(socket') <= SocketBuffer
      BY <2>1, <3>1, ReaderAssumption DEF TypeInv
    <3>3. ASSUME NEW i \in 1..Len(socket') PROVE socket'[i].data # <<>>
      <4>1. i + 1 \in 1..Len(socket) /\ socket'[i] = socket[i + 1]
        BY <2>1, <3>1
      <4> QED BY <4>1 DEF TypeInv
    <3> QED BY <2>1, <3>1, <3>2, <3>3
  <2>3. /\ chunk' \in Words /\ Len(chunk') < MAX_EVENT_SIZE
        /\ out' \in Seq(Words) /\ report' \in Report /\ arrived' \in Words /\ discarded' \in BOOLEAN
    <3>1. CASE UNCHANGED <<chunk, out, report, arrived, discarded>>
      BY <3>1 DEF TypeInv
    <3>2. CASE udp_handler(recvfrom(Head(socket)))
      <4>1. recvfrom(Head(socket)) \in Datagram /\ recvfrom(Head(socket)).data # <<>>
        BY <2>1, HeadOfSocket, RecvfromCuts
      <4> QED BY <3>2, <4>1, HandlerTypes
    <3> QED BY <1>3, <3>1, <3>2 DEF Poll, ns_mgr_poll, ns_handle_udp, ns_call
  <2> QED
    BY <2>1, <2>2, <2>3 DEF TypeInv
<1>4. CASE Wait
  BY <1>4 DEF Wait, TypeInv, vars
<1>5. ASSUME NEW b \in BOOLEAN, set_rcstate(b) PROVE TypeInv'
  BY <1>5 DEF set_rcstate, TypeInv
<1> QED
  BY <1>1, <1>2, <1>3, <1>4, <1>5 DEF Next

\* The types hold, and the chunk stays below the limit at which udp_handler()
\* discards it, however long the datagrams are and wherever the events end.
THEOREM TypeCorrect == Spec => []TypeOK
<1>1. Spec => []TypeInv
  BY InitTypes, NextTypes, PTL DEF Spec
<1>2. TypeInv => TypeOK
  BY DEF TypeInv, TypeOK, Report
<1> QED
  BY <1>1, <1>2, PTL

-----------------------------------------------------------------------------
(* Nothing that arrived is lost.                                           *)

\* The datagrams in the socket have the sequence numbers of the board.
HeadInv == SeqnoFree => \A i \in 1..Len(socket) : HeadFree(socket[i])

CopyInv == TypeInv /\ HeadInv /\ Reassembly

LEMMA InitCopy == Init => CopyInv
<1> SUFFICES ASSUME Init PROVE CopyInv
  OBVIOUS
<1>1. TypeInv
  BY InitTypes
<1>2. HeadInv
  <2>1. 1..Len(socket) = {}
    BY DEF Init
  <2> QED BY <2>1 DEF HeadInv
<1>3. Reassembly
  <2>1. FlattenSeq(out) \o chunk = <<>>
    BY FlattenEmpty, WordsConcat DEF Init
  <2>2. arrived = <<>>
    BY DEF Init
  <2> QED BY <2>1, <2>2 DEF Reassembly
<1> QED
  BY <1>1, <1>2, <1>3 DEF CopyInv

\* A number of the past stays one.
LEMMA SeqnoFreeBefore ==
    ASSUME TypeInv, seqno' = seqno + 1, SeqnoFree'
    PROVE  SeqnoFree /\ PAD \notin {seqno \div WordMod, seqno % WordMod}
<1>1. seqno \in Nat /\ FirstSeq \in Nat /\ seqno >= FirstSeq
  BY ReaderAssumption DEF TypeInv
<1>2. seqno' - 1 = seqno /\ seqno \in FirstSeq..seqno /\ FirstSeq..(seqno - 1) \subseteq FirstSeq..seqno
  BY <1>1
<1>3. \A q \in FirstSeq..seqno : PAD \notin {q \div WordMod, q % WordMod}
  BY <1>2 DEF SeqnoFree
<1> QED
  BY <1>2, <1>3 DEF SeqnoFree

LEMMA NextHead == TypeInv /\ HeadInv /\ [Next]_vars => HeadInv'
<1> SUFFICES ASSUME TypeInv, HeadInv, [Next]_vars, SeqnoFree',
                    NEW i \in 1..Len(socket')
             PROVE  HeadFree(socket'[i])
  BY DEF HeadInv, HeadFree
<1>0. socket \in Seq(Datagram)
  BY DEF TypeInv
<1>1. CASE UNCHANGED <<socket, seqno>>
  BY <1>1 DEF HeadInv, SeqnoFree
<1>2. ASSUME NEW n \in 1..MaxDatagram, Transmit(n) PROVE HeadFree(socket'[i])
  <2> DEFINE data == SubSeq(Stream, sent + 1, sent + n)
             d == [head |-> <<seqno \div WordMod, seqno % WordMod>>, data |-> data]
  <2>1. d \in Datagram /\ seqno' = seqno + 1
        /\ (socket' = Append(socket, d) \/ UNCHANGED socket)
    BY <1>2, TransmitData DEF Transmit
  <2>2. SeqnoFree /\ HeadFree(d)
    BY <2>1, SeqnoFreeBefore DEF HeadFree
  <2> HIDE DEF d
  <2>3. (i \in 1..Len(socket) /\ socket'[i] = socket[i]) \/ socket'[i] = d
    <3>1. CASE UNCHANGED socket
      BY <3>1
    <3>2. CASE socket' = Append(socket, d)
      BY <1>0, <2>1, <3>2
    <3> QED BY <2>1, <3>1, <3>2
  <2> QED
    BY <2>2, <2>3 DEF HeadInv
<1>3. CASE Poll
  <2>1. socket # <<>> /\ socket' = Tail(socket) /\ seqno' = seqno
    BY <1>3 DEF Poll, ns_mgr_poll, Readable
  <2>2. i + 1 \in 1..Len(socket) /\ socket'[i] = socket[i + 1]
    <3>1. /\ Len(Tail(socket)) = Len(socket) - 1 /\ Len(socket) \in Nat
          /\ \A k \in 1..Len(Tail(socket)) : Tail(socket)[k] = socket[k + 1]
      BY <2>1, HeadOfSocket
    <3> QED BY <2>1, <3>1
  <2>3. SeqnoFree
    BY <2>1 DEF SeqnoFree
  <2> QED
    BY <2>2, <2>3 DEF HeadInv
<1> QED
  BY <1>1, <1>2, <1>3 DEF Next, vars, Wait, set_rcstate

\* The callback appends the words of the datagram.
LEMMA HandlerCopies ==
    ASSUME TypeInv, NEW d \in Datagram, d.data # <<>>, udp_handler(d), ~TooLong(Done(d).chunk)
    PROVE  /\ chunk' = Done(d).chunk
           /\ FlattenSeq(out') \o chunk' = (FlattenSeq(out) \o chunk) \o Payload(d)
<1> DEFINE r == Done(d)
<1>1. chunk' = r.chunk /\ out' = out \o r.sends
  BY HandlerSteps
<1>2. /\ r.sends \in Seq(Words) /\ r.chunk \in Words
      /\ FlattenSeq(r.sends) \o r.chunk = chunk \o Payload(d)
  BY DoneWords
<1> HIDE DEF r
<1>3. out \in Seq(Words) /\ chunk \in Words /\ Payload(d) \in Words
  BY PayloadType DEF TypeInv
<1>4. FlattenSeq(out) \in Words /\ FlattenSeq(r.sends) \in Words
  BY <1>2, <1>3, FlattenType
<1>5. FlattenSeq(out') = FlattenSeq(out) \o FlattenSeq(r.sends)
  BY <1>1, <1>2, <1>3, FlattenConcat
<1>6. (FlattenSeq(out) \o FlattenSeq(r.sends)) \o r.chunk
        = FlattenSeq(out) \o (FlattenSeq(r.sends) \o r.chunk)
  BY <1>2, <1>4, WordsAssoc
<1>7. (FlattenSeq(out) \o chunk) \o Payload(d) = FlattenSeq(out) \o (chunk \o Payload(d))
  BY <1>3, <1>4, WordsAssoc
<1> QED
  BY <1>1, <1>2, <1>5, <1>6, <1>7 DEF r

LEMMA NextReassembly == CopyInv /\ [Next]_vars => Reassembly'
<1> SUFFICES ASSUME CopyInv, [Next]_vars, ~discarded', SeqnoFree'
             PROVE  NoPad(FlattenSeq(out') \o chunk') = NoPad(arrived')
  BY DEF Reassembly, NoPad
<1> USE DEF CopyInv
<1>1. CASE UNCHANGED <<chunk, out, arrived, discarded>> /\ SeqnoFree
  BY <1>1 DEF Reassembly
<1>2. CASE Poll /\ udp_handler(recvfrom(Head(socket)))
  <2> DEFINE d == recvfrom(Head(socket))
  <2>1. socket # <<>> /\ seqno' = seqno
    BY <1>2 DEF Poll, ns_mgr_poll, Readable
  <2>2. SeqnoFree
    BY <2>1 DEF SeqnoFree
  <2>3. Head(socket) \in Datagram /\ Head(socket).data # <<>> /\ HeadFree(Head(socket))
    <3>1. Head(socket) = socket[1] /\ Len(socket) \in Nat \ {0} /\ 1 \in 1..Len(socket)
          /\ Head(socket) \in Datagram /\ Head(socket).data # <<>>
      BY <2>1, HeadOfSocket
    <3> QED BY <2>2, <3>1 DEF HeadInv
  <2>4. d \in Datagram /\ d.data # <<>> /\ HeadFree(d)
    BY <2>3, RecvfromCuts DEF HeadFree
  <2> HIDE DEF d
  <2>5. udp_handler(d)
    BY <1>2 DEF d
  <2>6. arrived' = arrived \o d.data /\ ~discarded /\ ~TooLong(Done(d).chunk)
    BY <2>5, HandlerSteps
  <2>7. FlattenSeq(out') \o chunk' = (FlattenSeq(out) \o chunk) \o Payload(d)
    BY <2>4, <2>5, <2>6, HandlerCopies
  <2>8. /\ FlattenSeq(out) \o chunk \in Words /\ Payload(d) \in Words
        /\ arrived \in Words /\ d.data \in Words
    BY <2>4, PayloadType, FlattenType, WordsConcat DEF TypeInv, Datagram
  <2>9. NoPad(FlattenSeq(out') \o chunk') = NoPad(FlattenSeq(out) \o chunk) \o NoPad(Payload(d))
    BY <2>7, <2>8, NoPadConcat DEF Words
  <2>10. NoPad(arrived') = NoPad(arrived) \o NoPad(d.data)
    BY <2>6, <2>8, NoPadConcat DEF Words
  <2>11. NoPad(Payload(d)) = NoPad(d.data)
    BY <2>4, PayloadNoPad
  <2>12. NoPad(FlattenSeq(out) \o chunk) = NoPad(arrived)
    BY <2>2, <2>6 DEF Reassembly
  <2> QED
    BY <2>9, <2>10, <2>11, <2>12
<1>3. CASE Poll /\ UNCHANGED <<chunk, out, arrived, discarded>>
  <2>1. SeqnoFree
    BY <1>3 DEF Poll, SeqnoFree
  <2> QED BY <1>1, <1>3, <2>1
<1>4. ASSUME NEW n \in 1..MaxDatagram, Transmit(n)
      PROVE  NoPad(FlattenSeq(out') \o chunk') = NoPad(arrived')
  <2>1. SeqnoFree
    BY <1>4, SeqnoFreeBefore DEF Transmit
  <2> QED BY <1>1, <1>4, <2>1 DEF Transmit
<1>5. CASE UNCHANGED <<chunk, out, arrived, discarded, seqno>>
  <2>1. SeqnoFree
    BY <1>5 DEF SeqnoFree
  <2> QED BY <1>1, <1>5, <2>1
<1>6. CASE Poll
  BY <1>2, <1>3, <1>6 DEF Poll, ns_mgr_poll, ns_handle_udp, ns_call
<1> QED
  BY <1>4, <1>5, <1>6 DEF Next, vars, Wait, set_rcstate

\* The words that arrived come out in their order, each once, however the
\* events are cut into datagrams, whatever is lost, and however often the run
\* stops and starts: as long as no sequence number has the empty word in it.
THEOREM ReassemblyCorrect == Spec => []Reassembly
<1>1. CopyInv /\ [Next]_vars => CopyInv'
  BY NextTypes, NextHead, NextReassembly DEF CopyInv
<1>2. CopyInv => Reassembly
  BY DEF CopyInv
<1> QED
  BY InitCopy, <1>1, <1>2, PTL DEF Spec

-----------------------------------------------------------------------------
(* Without loss the raw events are the events of the board.                *)

Datas(q) == [i \in DOMAIN q |-> q[i].data]

LEMMA DatasType ==
    ASSUME NEW q \in Seq(Datagram)
    PROVE  /\ Datas(q) \in Seq(Words) /\ Len(Datas(q)) = Len(q)
           /\ \A i \in 1..Len(q) : Datas(q)[i] = q[i].data
<1>1. DOMAIN q = 1..Len(q) /\ Len(q) \in Nat
  OBVIOUS
<1>2. ASSUME NEW i \in 1..Len(q) PROVE q[i].data \in Words
  <2>1. q[i] \in Datagram
    OBVIOUS
  <2> QED BY <2>1 DEF Datagram
<1> QED
  BY <1>1, <1>2 DEF Datas

LEMMA DatasAppend ==
    ASSUME NEW q \in Seq(Datagram), NEW d \in Datagram
    PROVE  FlattenSeq(Datas(Append(q, d))) = FlattenSeq(Datas(q)) \o d.data
<1>1. d.data \in Words /\ <<d.data>> \in Seq(Words)
  BY DEF Datagram
<1>2. Append(q, d) \in Seq(Datagram) /\ Len(Append(q, d)) = Len(q) + 1 /\ Len(q) \in Nat
  OBVIOUS
<1>3. Datas(Append(q, d)) = Datas(q) \o <<d.data>>
  <2> DEFINE a == Datas(Append(q, d))
             b == Datas(q) \o <<d.data>>
  <2>1. a \in Seq(Words) /\ Len(a) = Len(q) + 1
        /\ \A i \in 1..(Len(q) + 1) : a[i] = Append(q, d)[i].data
    BY <1>2, DatasType
  <2>2. Datas(q) \in Seq(Words) /\ Len(Datas(q)) = Len(q)
        /\ \A i \in 1..Len(q) : Datas(q)[i] = q[i].data
    BY DatasType
  <2>3. b \in Seq(Words) /\ Len(b) = Len(q) + 1
        /\ \A i \in 1..(Len(q) + 1) : b[i] = IF i <= Len(q) THEN Datas(q)[i] ELSE d.data
    BY <1>1, <1>2, <2>2
  <2>4. \A i \in 1..(Len(q) + 1) : Append(q, d)[i] = IF i <= Len(q) THEN q[i] ELSE d
    OBVIOUS
  <2> HIDE DEF a, b
  <2>5. ASSUME NEW i \in 1..Len(a) PROVE a[i] = b[i]
    <3>1. i \in 1..(Len(q) + 1) /\ (i <= Len(q) => i \in 1..Len(q))
      BY <1>2, <2>1
    <3> QED BY <2>1, <2>2, <2>3, <2>4, <3>1
  <2>6. a = b
    BY <2>1, <2>3, <2>5, SeqEqual
  <2> QED BY <2>6 DEF a, b
<1>4. Datas(q) \in Seq(Words)
  BY DatasType
<1> QED
  BY <1>1, <1>3, <1>4, FlattenConcat, FlattenOne

LEMMA DatasTail ==
    ASSUME NEW q \in Seq(Datagram), q # <<>>
    PROVE  FlattenSeq(Datas(q)) = Head(q).data \o FlattenSeq(Datas(Tail(q)))
<1>1. /\ Len(q) \in Nat \ {0} /\ Head(q) = q[1] /\ Head(q) \in Datagram
      /\ Tail(q) \in Seq(Datagram) /\ Len(Tail(q)) = Len(q) - 1
      /\ \A i \in 1..Len(Tail(q)) : Tail(q)[i] = q[i + 1]
  BY HeadTailProperties
<1>2. Head(q).data \in Words /\ <<Head(q).data>> \in Seq(Words)
  BY <1>1 DEF Datagram
<1>3. Datas(q) = <<Head(q).data>> \o Datas(Tail(q))
  <2> DEFINE a == Datas(q)
             h == Head(q).data
             t == Datas(Tail(q))
             b == <<h>> \o t
  <2>1. a \in Seq(Words) /\ Len(a) = Len(q) /\ \A i \in 1..Len(q) : a[i] = q[i].data
    BY DatasType
  <2>2. t \in Seq(Words) /\ Len(t) = Len(q) - 1
        /\ \A i \in 1..(Len(q) - 1) : t[i] = q[i + 1].data
    <3>1. t \in Seq(Words) /\ Len(t) = Len(Tail(q))
          /\ \A i \in 1..Len(Tail(q)) : t[i] = Tail(q)[i].data
      BY <1>1, DatasType
    <3> HIDE DEF t
    <3> QED BY <1>1, <3>1
  <2> HIDE DEF t, h
  <2>3. b \in Seq(Words) /\ Len(b) = Len(q)
        /\ \A i \in 1..Len(q) : b[i] = IF i = 1 THEN h ELSE t[i - 1]
    <3>1. <<h>> \in Seq(Words) /\ Len(<<h>>) = 1 /\ <<h>>[1] = h
      BY <1>2 DEF h
    <3>2. /\ b \in Seq(Words) /\ Len(b) = 1 + Len(t)
          /\ \A i \in 1..(1 + Len(t)) : b[i] = IF i <= 1 THEN <<h>>[i] ELSE t[i - 1]
      BY <2>2, <3>1, ConcatProperties
    <3>3. 1 + Len(t) = Len(q) /\ \A i \in 1..Len(q) : i <= 1 <=> i = 1
      BY <1>1, <2>2
    <3> HIDE DEF b
    <3>4. ASSUME NEW i \in 1..Len(q) PROVE b[i] = IF i = 1 THEN h ELSE t[i - 1]
      <4>1. b[i] = IF i <= 1 THEN <<h>>[i] ELSE t[i - 1]
        BY <3>2, <3>3
      <4>2. i <= 1 <=> i = 1
        BY <3>3
      <4> QED BY <3>1, <4>1, <4>2
    <3> QED BY <3>2, <3>3, <3>4
  <2> HIDE DEF a, b
  <2>4. ASSUME NEW i \in 1..Len(a) PROVE a[i] = b[i]
    <3>1. CASE i = 1
      BY <1>1, <2>1, <2>3, <3>1 DEF h
    <3>2. CASE i # 1
      <4>1. i - 1 \in 1..(Len(q) - 1) /\ (i - 1) + 1 = i /\ i \in 1..Len(q)
        BY <1>1, <2>1, <3>2
      <4> QED BY <2>1, <2>2, <2>3, <3>2, <4>1
    <3> QED BY <3>1, <3>2
  <2>5. a = b
    BY <2>1, <2>3, <2>4, SeqEqual
  <2> QED BY <2>5 DEF a, b, t, h
<1>4. Datas(Tail(q)) \in Seq(Words)
  BY <1>1, DatasType
<1> QED
  BY <1>2, <1>3, <1>4, FlattenConcat, FlattenOne

LEMMA InSocketIs ==
    ASSUME TypeInv
    PROVE  InSocket = FlattenSeq(Datas(socket)) /\ InSocket \in Words /\ Len(InSocket) \in Nat
<1>1. InSocket = FlattenSeq(Datas(socket))
  BY DEF InSocket, Datas
<1>2. Datas(socket) \in Seq(Words)
  BY DatasType DEF TypeInv
<1> QED
  BY <1>1, <1>2, FlattenType, WordsConcat

\* What has arrived and what is in the socket is at most what was sent;
\* without loss it is what was sent.
LossInv ==
    /\ sent >= Len(arrived) + Len(InSocket)
    /\ Lossless => arrived \o InSocket = SubSeq(Stream, 1, sent)

\* Without loss the chunk is what has come of the event under way.
EventInv ==
    Lossless /\ ~discarded /\ SeqnoFree =>
        /\ Aligned(chunk, Len(arrived))
        /\ \A k \in 1..Len(out) : Whole(out[k])

StreamInv == TypeInv /\ HeadInv /\ LossInv /\ EventInv

LEMMA InitStream == Init => StreamInv
<1> SUFFICES ASSUME Init PROVE StreamInv
  OBVIOUS
<1>1. TypeInv /\ HeadInv
  BY InitCopy DEF CopyInv
<1>2. /\ arrived = <<>> /\ socket = <<>> /\ chunk = <<>> /\ out = <<>> /\ sent = 0
      /\ Len(<<>>) = 0 /\ 1..0 = {}
  BY DEF Init
<1>3. InSocket = <<>>
  <2>1. Datas(<<>>) = <<>>
    BY DEF Datas
  <2> QED BY <1>1, <1>2, <2>1, InSocketIs, FlattenEmpty
<1>4. LossInv
  <2>1. <<>> \o <<>> = <<>>
    BY WordsConcat
  <2>2. SubSeq(Stream, 1, 0) = <<>>
    BY SubSeqEmpty
  <2>3. sent >= Len(arrived) + Len(InSocket)
    BY <1>2, <1>3
  <2> QED BY <1>2, <1>3, <2>1, <2>2, <2>3 DEF LossInv
<1>5. EventInv
  <2>1. Begun(0, 0)
    BY DEF Begun
  <2>2. SubSeq(Stream, 0 + 1, 0) = <<>>
    BY SubSeqEmpty
  <2>3. Aligned(<<>>, 0)
    BY <2>1, <2>2 DEF Aligned
  <2>4. Len(arrived) = 0 /\ 1..Len(out) = {}
    BY <1>2
  <2> QED BY <1>2, <2>3, <2>4 DEF EventInv
<1> QED
  BY <1>1, <1>4, <1>5 DEF StreamInv

\* A step that leaves the socket and the words alone.
LEMMA QuietStream ==
    ASSUME StreamInv, UNCHANGED <<sent, seqno, socket, chunk, out, arrived, discarded>>
    PROVE  LossInv' /\ EventInv'
<1>1. InSocket' = InSocket
  BY DEF InSocket
<1>2. LossInv /\ EventInv
  BY DEF StreamInv
<1>3. LossInv'
  BY <1>1, <1>2 DEF LossInv, Lossless
<1>4. EventInv'
  <2>1. (Lossless' <=> Lossless) /\ (SeqnoFree' <=> SeqnoFree)
    BY <1>1 DEF Lossless, SeqnoFree
  <2>2. Aligned(chunk, Len(arrived))' <=> Aligned(chunk, Len(arrived))
    BY DEF Aligned, Begun
  <2>3. (\A k \in 1..Len(out) : Whole(out[k]))' <=> (\A k \in 1..Len(out) : Whole(out[k]))
    BY DEF Whole
  <2> QED BY <1>2, <2>1, <2>2, <2>3 DEF EventInv
<1> QED
  BY <1>3, <1>4

LEMMA TransmitStream ==
    ASSUME StreamInv, NEW n \in 1..MaxDatagram, Transmit(n)
    PROVE  LossInv' /\ EventInv'
<1> DEFINE data == SubSeq(Stream, sent + 1, sent + n)
           d == [head |-> <<seqno \div WordMod, seqno % WordMod>>, data |-> data]
<1>0. TypeInv /\ LossInv /\ EventInv
  BY DEF StreamInv
<1>1. data \in Words /\ Len(data) = n /\ d \in Datagram /\ d.data = data
  BY <1>0, TransmitData
<1>2. /\ sent' = sent + n /\ seqno' = seqno + 1 /\ sent + n <= Len(Stream)
      /\ UNCHANGED <<chunk, out, arrived, discarded>>
      /\ \/ socket' = Append(socket, d)
         \/ UNCHANGED socket
  BY DEF Transmit
<1>3. /\ sent \in Nat /\ n \in Nat \ {0} /\ arrived \in Words /\ Len(arrived) \in Nat
      /\ socket \in Seq(Datagram) /\ Len(InSocket) \in Nat /\ InSocket \in Words
      /\ Len(Stream) \in Nat
  BY <1>0, ReaderAssumption, StreamWords, InSocketIs, WordsConcat DEF TypeInv
<1>4. CASE UNCHANGED socket
  <2>1. InSocket' = InSocket
    BY <1>4 DEF InSocket
  <2>2. sent' > Len(arrived') + Len(InSocket')
    <3>1. sent >= Len(arrived) + Len(InSocket)
      BY <1>0 DEF LossInv
    <3>2. sent' = sent + n /\ Len(arrived') = Len(arrived) /\ Len(InSocket') = Len(InSocket)
      BY <1>2, <2>1
    <3> QED BY <1>3, <3>1, <3>2
  <2>3. ~Lossless' /\ sent' >= Len(arrived') + Len(InSocket')
    <3>1. Len(arrived') + Len(InSocket') \in Nat /\ sent' \in Nat
      BY <1>2, <1>3, <2>1
    <3> QED BY <2>2, <3>1 DEF Lossless
  <2> QED BY <2>3 DEF LossInv, EventInv
<1>5. CASE socket' = Append(socket, d)
  <2>1. InSocket' = InSocket \o data
    <3>1. InSocket = FlattenSeq(Datas(socket))
      BY <1>0, InSocketIs
    <3>2. InSocket' = FlattenSeq(Datas(Append(socket, d)))
      BY <1>5 DEF InSocket, Datas
    <3> HIDE DEF d
    <3> QED BY <1>1, <1>3, <3>1, <3>2, DatasAppend
  <2> HIDE DEF data, d
  <2>2. Len(InSocket') = Len(InSocket) + n
    BY <1>1, <1>3, <2>1, WordsConcat
  <2>3. Lossless' <=> Lossless
    <3>1. sent' = sent + n /\ Len(arrived') = Len(arrived)
      BY <1>2
    <3> QED BY <1>3, <2>2, <3>1 DEF Lossless
  <2>4. sent' >= Len(arrived') + Len(InSocket')
    <3>1. sent >= Len(arrived) + Len(InSocket) /\ sent' = sent + n /\ Len(arrived') = Len(arrived)
      BY <1>0, <1>2 DEF LossInv
    <3> QED BY <1>3, <2>2, <3>1
  <2>5. ASSUME Lossless' PROVE arrived' \o InSocket' = SubSeq(Stream, 1, sent')
    <3>1. arrived \o InSocket = SubSeq(Stream, 1, sent)
      BY <1>0, <2>3, <2>5 DEF LossInv
    <3>2. (arrived \o InSocket) \o data = arrived \o (InSocket \o data)
      BY <1>1, <1>3, WordsAssoc
    <3>3. SubSeq(Stream, 1, sent) \o SubSeq(Stream, sent + 1, sent + n) = SubSeq(Stream, 1, sent + n)
      <4>1. 1 \in 1..(Len(Stream) + 1) /\ sent \in (1 - 1)..Len(Stream) /\ sent + n \in sent..Len(Stream)
        BY <1>2, <1>3
      <4> QED BY <4>1, StreamWords, ConcatAdjacentSubSeq DEF Words
    <3> QED BY <1>2, <2>1, <3>1, <3>2, <3>3 DEF data
  <2>6. EventInv'
    <3>1. SeqnoFree' => SeqnoFree
      BY <1>0, <1>2, SeqnoFreeBefore
    <3>2. Aligned(chunk, Len(arrived))' <=> Aligned(chunk, Len(arrived))
      BY <1>2 DEF Aligned, Begun
    <3>3. (\A k \in 1..Len(out) : Whole(out[k]))' <=> (\A k \in 1..Len(out) : Whole(out[k]))
      BY <1>2 DEF Whole
    <3> QED BY <1>0, <1>2, <2>3, <3>1, <3>2, <3>3 DEF EventInv
  <2> QED BY <2>4, <2>5, <2>6 DEF LossInv
<1> QED
  BY <1>2, <1>4, <1>5

\* The words of a datagram, at their place in the stream.
LEMMA HandlerEvents ==
    ASSUME TypeInv, NEW d \in Datagram, d.data # <<>>, HeadFree(d), NEW p \in Nat,
           p + Len(d.data) <= Len(Stream),
           \A i \in 1..Len(d.data) : d.data[i] = Stream[p + i],
           Aligned(chunk, p)
    PROVE  /\ Aligned(Done(d).chunk, p + Len(d.data))
           /\ \A k \in 1..Len(Done(d).sends) : Whole(Done(d).sends[k])
<1>1. /\ Start \in Acc /\ Start.chunk = chunk /\ 1..Len(Start.sends) = {}
      /\ d.data \in Words /\ chunk \in Words
  <2>1. Start \in Acc
    BY DoneWords
  <2> QED BY <2>1 DEF Start, Datagram, TypeInv
<1>2. CASE Payload(d) = d.data
  <2> HIDE DEF Start
  <2> QED BY <1>1, <1>2, AlignedWords DEF Done
<1>3. CASE d.data[1].n = PAD /\ Payload(d) = Tail(d.data)
  <2> DEFINE t == Tail(d.data)
  <2>1. /\ t \in Words /\ Len(d.data) = 1 + Len(t) /\ Len(t) \in Nat
        /\ \A i \in 1..Len(t) : t[i] = d.data[1 + i]
    BY <1>1, HeadAndTail, WordsConcat
  <2> HIDE DEF t
  <2>2. /\ p \in 0..Len(Stream) /\ p < Len(Stream) /\ p + 1 \in Nat /\ Len(Stream) \in Nat
        /\ (p + 1) + Len(t) = p + Len(d.data) /\ 1 \in 1..Len(d.data)
        /\ (p + 1) + Len(t) <= Len(Stream)
    BY <2>1, StreamWords
  <2>3. Stream[p + 1].n = PAD
    BY <1>3, <2>2
  <2>4. Aligned(chunk, p + 1)
    BY <1>1, <2>2, <2>3, AlignedSkip
  <2>5. ASSUME NEW i \in 1..Len(t) PROVE t[i] = Stream[(p + 1) + i]
    <3>1. 1 + i \in 1..Len(d.data) /\ p + (1 + i) = (p + 1) + i
      BY <2>1
    <3> QED BY <2>1, <3>1
  <2>6. Payload(d) = t
    BY <1>3 DEF t
  <2> HIDE DEF Start
  <2>7. /\ Aligned(TakeWords(Start, t).chunk, (p + 1) + Len(t))
        /\ \A k \in 1..Len(TakeWords(Start, t).sends) : Whole(TakeWords(Start, t).sends[k])
    BY <1>1, <2>1, <2>2, <2>4, <2>5, AlignedWords
  <2> QED
    BY <2>2, <2>6, <2>7 DEF Done
<1> QED
  BY <1>2, <1>3, PayloadWords

LEMMA PollStream ==
    ASSUME StreamInv, Poll
    PROVE  LossInv' /\ EventInv'
<1> DEFINE h == Head(socket)
<1>0. TypeInv /\ HeadInv /\ LossInv /\ EventInv
  BY DEF StreamInv
<1>1. socket # <<>> /\ socket' = Tail(socket) /\ UNCHANGED <<sent, seqno>>
  BY DEF Poll, ns_mgr_poll, Readable
<1>2. /\ h \in Datagram /\ h.data # <<>> /\ h = socket[1] /\ 1 \in 1..Len(socket)
      /\ socket \in Seq(Datagram) /\ socket' \in Seq(Datagram)
  BY <1>0, <1>1, HeadOfSocket DEF TypeInv
<1>3. h.data \in Words /\ Len(h.data) \in Nat \ {0}
  BY <1>2 DEF Datagram, Words
<1>4. InSocket = h.data \o InSocket' /\ InSocket' \in Words
  <2>1. InSocket = FlattenSeq(Datas(socket))
    BY <1>0, InSocketIs
  <2>2. InSocket' = FlattenSeq(Datas(Tail(socket)))
    BY <1>1 DEF InSocket, Datas
  <2>3. FlattenSeq(Datas(Tail(socket))) \in Words
    BY <1>1, <1>2, DatasType, FlattenType
  <2> QED BY <1>1, <1>2, <2>1, <2>2, <2>3, DatasTail
<1> DEFINE rest == InSocket'
<1>5. /\ Len(InSocket) = Len(h.data) + Len(rest) /\ Len(rest) \in Nat /\ sent \in Nat
      /\ arrived \in Words /\ Len(arrived) \in Nat /\ rest \in Words
      /\ sent >= Len(arrived) + (Len(h.data) + Len(rest))
  <2>1. Len(InSocket) = Len(h.data) + Len(rest) /\ Len(rest) \in Nat /\ rest \in Words
    BY <1>3, <1>4, WordsConcat
  <2>2. sent \in Nat /\ arrived \in Words /\ Len(arrived) \in Nat
    BY <1>0, StreamWords, WordsConcat DEF TypeInv
  <2>3. sent >= Len(arrived) + Len(InSocket)
    BY <1>0 DEF LossInv
  <2> HIDE DEF rest
  <2> QED BY <2>1, <2>2, <2>3
<1>6. CASE UNCHANGED <<chunk, out, arrived, discarded>>
  <2> HIDE DEF h
  <2>1. sent' > Len(arrived') + Len(rest)
    <3>1. sent' = sent /\ Len(arrived') = Len(arrived)
      BY <1>1, <1>6
    <3> HIDE DEF rest
    <3> QED BY <1>3, <1>5, <3>1
  <2>2. ~Lossless' /\ sent' >= Len(arrived') + Len(InSocket')
    <3>1. sent' \in Nat /\ Len(arrived') \in Nat /\ Len(rest) \in Nat
      BY <1>1, <1>5, <1>6
    <3>2. (Lossless' <=> sent' = Len(arrived') + Len(rest)) /\ InSocket' = rest
      BY DEF Lossless
    <3> HIDE DEF rest
    <3> QED BY <2>1, <3>1, <3>2
  <2> QED BY <2>2 DEF LossInv, EventInv
<1>7. CASE udp_handler(recvfrom(h))
  <2> DEFINE d == recvfrom(h)
  <2>1. /\ d \in Datagram /\ d.data # <<>> /\ d.head = h.head /\ Len(d.data) <= Len(h.data)
        /\ Len(d.data) = Len(h.data) => d.data = h.data
    <3> HIDE DEF h
    <3> QED BY <1>2, RecvfromCuts
  <2>2. udp_handler(d)
    BY <1>7
  <2> HIDE DEF d, h
  <2>3. d.data \in Words /\ Len(d.data) \in Nat
    BY <2>1, WordsConcat DEF Datagram
  <2>4. arrived' = arrived \o d.data /\ Len(arrived') = Len(arrived) + Len(d.data)
    BY <1>5, <2>2, <2>3, HandlerSteps, WordsConcat
  <2>5. sent' = sent
    BY <1>1
  <2>6. sent' >= Len(arrived') + Len(InSocket')
    <3>1. sent' >= Len(arrived') + Len(rest)
      <4> HIDE DEF rest
      <4> QED BY <1>3, <1>5, <2>1, <2>3, <2>4, <2>5
    <3> QED BY <3>1
  <2>7. ASSUME Lossless'
        PROVE  d.data = h.data /\ Lossless /\ arrived \o InSocket = SubSeq(Stream, 1, sent)
    <3>1. sent = Len(arrived) + Len(d.data) + Len(rest)
      <4>1. sent' = Len(arrived') + Len(rest)
        BY <2>7 DEF Lossless
      <4> HIDE DEF rest
      <4> QED BY <1>5, <2>3, <2>4, <2>5, <4>1
    <3>2. Len(d.data) = Len(h.data)
      <4> HIDE DEF rest
      <4> QED BY <1>3, <1>5, <2>1, <2>3, <3>1
    <3>3. Lossless
      <4>1. sent = Len(arrived) + Len(InSocket)
        <5> HIDE DEF rest
        <5> QED BY <1>3, <1>5, <3>1, <3>2
      <4> QED BY <4>1 DEF Lossless
    <3> QED BY <1>0, <2>1, <3>2, <3>3 DEF LossInv
  <2>8. ASSUME Lossless' PROVE arrived' \o InSocket' = SubSeq(Stream, 1, sent')
    <3>1. (arrived \o h.data) \o rest = arrived \o (h.data \o rest)
      BY <1>3, <1>5, WordsAssoc
    <3>2. arrived' \o rest = SubSeq(Stream, 1, sent)
      BY <1>4, <2>4, <2>7, <2>8, <3>1
    <3> QED BY <2>5, <3>2
  <2>9. ASSUME Lossless', ~discarded', SeqnoFree'
        PROVE  /\ Aligned(chunk', Len(arrived'))
               /\ \A k \in 1..Len(out') : Whole(out'[k])
    <3> DEFINE p == Len(arrived)
               r == Done(d)
    <3>1. /\ out' = out \o r.sends /\ ~discarded /\ ~TooLong(r.chunk) /\ chunk' = r.chunk
      BY <2>2, <2>9, HandlerSteps
    <3>2. SeqnoFree
      BY <1>1, <2>9 DEF SeqnoFree
    <3>3. HeadFree(d)
      <4>1. HeadFree(h)
        BY <1>0, <1>2, <3>2 DEF HeadInv
      <4> QED BY <2>1, <4>1 DEF HeadFree
    <3>4. d.data = h.data /\ Lossless /\ arrived \o InSocket = SubSeq(Stream, 1, sent)
      BY <2>7, <2>9
    <3>5. Aligned(chunk, p) /\ \A k \in 1..Len(out) : Whole(out[k])
      BY <1>0, <3>1, <3>2, <3>4 DEF EventInv
    <3>6. p + Len(d.data) <= Len(Stream)
      <4>1. sent <= Len(Stream) /\ Len(Stream) \in Nat
        BY <1>0, StreamWords DEF TypeInv
      <4>2. p + Len(d.data) <= sent
        <5> HIDE DEF rest
        <5> QED BY <1>3, <1>5, <3>4
      <4> QED BY <1>5, <2>3, <4>1, <4>2
    <3>7. ASSUME NEW i \in 1..Len(d.data) PROVE d.data[i] = Stream[p + i]
      <4>1. /\ p + i \in 1..sent /\ p + i > p /\ (p + i) - p = i /\ i <= Len(h.data)
            /\ p + i <= p + (Len(h.data) + Len(rest)) /\ p + i \in Nat
        <5> HIDE DEF rest
        <5> QED BY <1>3, <1>5, <2>3, <3>4
      <4>2. SubSeq(Stream, 1, sent)[p + i] = Stream[p + i]
        <5>1. \A k \in 1..sent : Stream[k] \in Word
          <6>1. sent <= Len(Stream) /\ Len(Stream) \in Nat
            BY <1>0, StreamWords DEF TypeInv
          <6> QED BY <1>5, <6>1, StreamWords
        <5>2. \A k \in 1..(sent - 1 + 1) : SubSeq(Stream, 1, sent)[k] = Stream[1 + k - 1]
          BY <1>5, <5>1, SubSeqProperties
        <5>3. p + i \in 1..(sent - 1 + 1) /\ 1 + (p + i) - 1 = p + i
          BY <1>5, <4>1
        <5> QED BY <5>2, <5>3
      <4>3. (arrived \o InSocket)[p + i] = InSocket[i]
        <5>1. InSocket \in Words /\ Len(InSocket) = Len(h.data) + Len(rest)
          BY <1>0, <1>5, InSocketIs
        <5>2. p + i \in 1..(Len(arrived) + Len(InSocket)) /\ ~(p + i <= Len(arrived))
          <6> HIDE DEF rest
          <6> QED BY <1>3, <1>5, <4>1, <5>1
        <5>3. (arrived \o InSocket)[p + i] = InSocket[(p + i) - Len(arrived)]
          BY <1>5, <5>1, <5>2, ConcatProperties DEF Words
        <5> QED BY <4>1, <5>3
      <4>4. InSocket[i] = h.data[i]
        <5>1. i \in 1..(Len(h.data) + Len(rest))
          <6> HIDE DEF rest
          <6> QED BY <1>3, <1>5, <4>1, <2>3
        <5>2. (h.data \o rest)[i] = h.data[i]
          BY <1>3, <1>5, <4>1, <5>1, ConcatProperties DEF Words
        <5> QED BY <1>4, <5>2
      <4> QED BY <3>4, <4>2, <4>3, <4>4
    <3>8. Aligned(r.chunk, p + Len(d.data)) /\ \A k \in 1..Len(r.sends) : Whole(r.sends[k])
      <4> p \in Nat
        BY <1>5
      <4> HIDE DEF p
      <4> QED BY <1>0, <2>1, <3>3, <3>5, <3>6, <3>7, HandlerEvents
    <3>9. r.sends \in Seq(Words) /\ out \in Seq(Words)
      BY <1>0, <2>1, DoneWords DEF TypeInv
    <3> HIDE DEF r
    <3>10. ASSUME NEW k \in 1..Len(out') PROVE Whole(out'[k])
      <4>1. \/ k \in 1..Len(out) /\ out'[k] = out[k]
            \/ k - Len(out) \in 1..Len(r.sends) /\ out'[k] = r.sends[k - Len(out)]
        BY <3>1, <3>9
      <4> QED BY <3>5, <3>8, <4>1
    <3> QED BY <2>4, <3>1, <3>8, <3>10
  <2>10. EventInv'
    <3>1. ASSUME Lossless', ~discarded', SeqnoFree'
          PROVE  Aligned(chunk, Len(arrived))' /\ (\A k \in 1..Len(out) : Whole(out[k]))'
      BY <2>9, <3>1 DEF Aligned, Begun, Whole
    <3> QED BY <3>1 DEF EventInv
  <2> QED
    BY <2>6, <2>8, <2>10 DEF LossInv
<1> QED
  BY <1>6, <1>7 DEF Poll, ns_mgr_poll, ns_handle_udp, ns_call

LEMMA NextStream == StreamInv /\ [Next]_vars => StreamInv'
<1> SUFFICES ASSUME StreamInv, [Next]_vars PROVE StreamInv'
  OBVIOUS
<1>1. TypeInv' /\ HeadInv'
  BY NextTypes, NextHead DEF StreamInv
<1>2. LossInv' /\ EventInv'
  <2>1. ASSUME NEW n \in 1..MaxDatagram, Transmit(n) PROVE LossInv' /\ EventInv'
    BY <2>1, TransmitStream
  <2>2. CASE Poll
    BY <2>2, PollStream
  <2>3. CASE UNCHANGED <<sent, seqno, socket, chunk, out, arrived, discarded>>
    BY <2>3, QuietStream
  <2> QED
    BY <2>1, <2>2, <2>3 DEF Next, vars, Wait, set_rcstate
<1> QED
  BY <1>1, <1>2 DEF StreamInv

\* As long as no datagram is lost, damaged or cut off and no chunk discarded,
\* each raw event that FzReader forwards is an event of the board, from the
\* word behind a REGID to the next REGID, empty words aside.
THEOREM WholeEventsCorrect == Spec => []WholeEvents
<1>1. StreamInv => WholeEvents
  <2>1. TypeInv => DOMAIN out = 1..Len(out)
    BY DEF TypeInv
  <2> QED BY <2>1 DEF StreamInv, EventInv, WholeEvents
<1> QED
  BY InitStream, NextStream, <1>1, PTL DEF Spec
=============================================================================

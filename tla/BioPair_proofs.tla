--------------------------- MODULE BioPair_proofs ---------------------------
(***************************************************************************)
(* Proofs about the BIO pair, for every ring size, every call size and     *)
(* every set of byte values: the ring invariants, and that the pair        *)
(* implements two reliable byte pipes.                                     *)
(***************************************************************************)
EXTENDS BioPair, SequenceTheorems, TLAPS

(* Both ends have a peer or neither has, and an end with a peer is alive.  *)
Coupled ==
  /\ init[1] = init[2]
  /\ \A e \in End : init[e] => ~freed[e]
  /\ \A e \in End : ~init[e] => len[e] = 0

Inv == TypeOK /\ RingIsNormal /\ RequestIsWarranted /\ Coupled

(* Where the i-th byte of a ring is: inside the ring, one place for each.  *)
LEMMA WriteOffsetBounds ==
  ASSUME NEW sz \in Nat, NEW off \in Nat, off < sz, NEW n \in Nat, n <= sz
  PROVE  /\ WriteOffset(off, n, sz) \in Nat
         /\ WriteOffset(off, n, sz) < sz
  BY DEF WriteOffset

LEMMA WriteOffsetInjective ==
  ASSUME NEW sz \in Nat, NEW off \in Nat, off < sz,
         NEW i \in Nat, i < sz, NEW j \in Nat, j < sz,
         WriteOffset(off, i, sz) = WriteOffset(off, j, sz)
  PROVE  i = j
  BY DEF WriteOffset

LEMMA WriteOffsetAdds ==
  ASSUME NEW sz \in Nat, NEW off \in Nat, off < sz,
         NEW a \in Nat, NEW b \in Nat, a + b <= sz
  PROVE  WriteOffset(WriteOffset(off, a, sz), b, sz) = WriteOffset(off, a + b, sz)
  BY DEF WriteOffset

(* What a chunk of input is.                                               *)
LEMMA ChunkFacts ==
  ASSUME NEW d \in Chunk
  PROVE  d \in Seq(Byte) /\ Len(d) \in Nat /\ Len(d) <= MaxIo
  BY PairAssumption DEF Chunk

LEMMA ChunkPrefix ==
  ASSUME NEW d \in Seq(Byte), NEW n \in 0..Len(d)
  PROVE  /\ SubSeq(d, 1, n) \in Seq(Byte)
         /\ Len(SubSeq(d, 1, n)) = n
         /\ \A i \in 1..n : SubSeq(d, 1, n)[i] = d[i]
  OBVIOUS

(* The write loop of bio_write stores d behind the n bytes of the ring and *)
(* leaves those n bytes alone, whether or not it wraps.                    *)
LEMMA StoredIsAppend ==
  ASSUME NEW sz \in Nat, NEW off \in Nat, off < sz, NEW n \in Nat,
         NEW bf \in [0..(sz - 1) -> Byte], NEW d \in Seq(Byte),
         Len(d) >= 1, n + Len(d) <= sz
  PROVE  /\ Stored(bf, off, n, sz, d) \in [0..(sz - 1) -> Byte]
         /\ \A i \in 1..n :
              Stored(bf, off, n, sz, d)[WriteOffset(off, i - 1, sz)]
                = bf[WriteOffset(off, i - 1, sz)]
         /\ \A i \in 1..Len(d) :
              Stored(bf, off, n, sz, d)[WriteOffset(off, n + i - 1, sz)] = d[i]
<1> DEFINE at1 == WriteOffset(off, n, sz)
           c   == FirstChunk(at1, Len(d), sz)
           at2 == WriteOffset(off, n + c, sz)
           d1  == SubSeq(d, 1, c)
           d2  == SubSeq(d, c + 1, Len(d))
           b1  == CopyIn(bf, at1, d1)
           b2  == CopyIn(b1, at2, d2)
<1>0. Len(d) \in Nat
  OBVIOUS
<1>1. Stored(bf, off, n, sz, d) = b2
  BY DEF Stored
<1>2. at1 \in Nat /\ at1 < sz
  BY DEF WriteOffset
<1>3. c \in Nat /\ c >= 1 /\ c <= Len(d)
  <2> HIDE DEF at1
  <2> QED BY <1>0, <1>2 DEF FirstChunk
<1>4. at2 \in Nat /\ at2 < sz
  <2> HIDE DEF c
  <2> QED BY <1>3 DEF WriteOffset
<1>5. /\ d1 \in Seq(Byte) /\ Len(d1) = c /\ \A k \in 1..c : d1[k] = d[k]
      /\ d2 \in Seq(Byte) /\ Len(d2) = Len(d) - c
      /\ \A k \in 1..(Len(d) - c) : d2[k] = d[c + k]
  <2> HIDE DEF c
  <2> QED BY <1>3
<1>6. /\ b1 \in [0..(sz - 1) -> Byte]
      /\ \A j \in 0..(sz - 1) :
           b1[j] = IF j >= at1 /\ j < at1 + c THEN d[j - at1 + 1] ELSE bf[j]
  <2> HIDE DEF c, at1, d1
  <2> QED BY <1>2, <1>3, <1>5 DEF CopyIn
<1>7. /\ b2 \in [0..(sz - 1) -> Byte]
      /\ \A j \in 0..(sz - 1) :
           b2[j] = IF j >= at2 /\ j < at2 + (Len(d) - c) THEN d[c + j - at2 + 1] ELSE b1[j]
  <2> HIDE DEF c, at1, at2, d1, d2, b1
  <2>1. DOMAIN b1 = 0..(sz - 1)
    BY <1>6
  <2>2. \A j \in 0..(sz - 1) :
          j >= at2 /\ j < at2 + Len(d2) => /\ d2[j - at2 + 1] = d[c + j - at2 + 1]
                                           /\ d2[j - at2 + 1] \in Byte
    <3> SUFFICES ASSUME NEW j \in 0..(sz - 1), j >= at2, j < at2 + Len(d2)
                 PROVE  /\ d2[j - at2 + 1] = d[c + j - at2 + 1]
                        /\ d2[j - at2 + 1] \in Byte
      OBVIOUS
    <3>1. j - at2 + 1 \in 1..(Len(d) - c) /\ c + (j - at2 + 1) = c + j - at2 + 1
      BY <1>0, <1>3, <1>4, <1>5
    <3> QED BY <1>5, <3>1
  <2> QED BY <1>0, <1>3, <1>5, <1>6, <2>1, <2>2 DEF CopyIn
<1>8. \A j \in 0..(sz - 1) :
        b2[j] = IF j >= at2 /\ j < at2 + (Len(d) - c) THEN d[c + j - at2 + 1]
                ELSE IF j >= at1 /\ j < at1 + c THEN d[j - at1 + 1] ELSE bf[j]
  <2> HIDE DEF c, at1, at2, b1, b2
  <2> QED BY <1>6, <1>7
<1>9. ASSUME NEW i \in 1..n
      PROVE  b2[WriteOffset(off, i - 1, sz)] = bf[WriteOffset(off, i - 1, sz)]
  <2> DEFINE j == WriteOffset(off, i - 1, sz)
  <2>1. j \in 0..(sz - 1)
    BY DEF WriteOffset
  <2>2. ~(j >= at2 /\ j < at2 + (Len(d) - c))
    BY <1>0, <1>2, <1>3 DEF WriteOffset, FirstChunk
  <2>3. ~(j >= at1 /\ j < at1 + c)
    BY <1>0, <1>2, <1>3 DEF WriteOffset, FirstChunk
  <2> HIDE DEF j, b2, at1, at2, c
  <2> QED BY <1>8, <2>1, <2>2, <2>3 DEF j
<1>10. ASSUME NEW i \in 1..Len(d)
       PROVE  b2[WriteOffset(off, n + i - 1, sz)] = d[i]
  <2> DEFINE j == WriteOffset(off, n + i - 1, sz)
  <2>1. j \in 0..(sz - 1)
    BY DEF WriteOffset
  <2>2. CASE i <= c
    <3>1. j = at1 + i - 1
      BY <1>0, <1>2, <1>3, <2>2 DEF WriteOffset, FirstChunk
    <3>2. ~(j >= at2 /\ j < at2 + (Len(d) - c))
      BY <1>0, <1>2, <1>3, <2>2 DEF WriteOffset, FirstChunk
    <3> HIDE DEF j, b2, at1, at2, c
    <3> QED BY <1>2, <1>3, <1>4, <1>8, <2>1, <2>2, <3>1, <3>2 DEF j
  <2>3. CASE i > c
    <3>1. j = at2 + i - c - 1
      BY <1>0, <1>2, <1>3, <2>3 DEF WriteOffset, FirstChunk
    <3> HIDE DEF j, b2, at1, at2, c
    <3>2. c + j - at2 + 1 = i
      BY <1>3, <1>4, <3>1
    <3>3. j >= at2 /\ j < at2 + (Len(d) - c)
      BY <1>3, <1>4, <2>3, <3>1
    <3> QED BY <1>8, <2>1, <3>2, <3>3 DEF j
  <2> QED BY <1>3, <2>2, <2>3
<1> HIDE DEF b2
<1> QED BY <1>1, <1>7, <1>9, <1>10

(* The read loop of bio_read returns the oldest rest of the n bytes, and   *)
(* the offset it leaves is that of the next byte (0 when none is left).    *)
LEMMA FetchedIsPrefix ==
  ASSUME NEW sz \in Nat, NEW off \in Nat, off < sz,
         NEW n \in Nat, n <= sz, NEW rest \in Nat, rest >= 1, rest <= n,
         NEW bf \in [0..(sz - 1) -> Byte]
  PROVE  /\ Fetched(bf, off, n, rest, sz) =
              [i \in 1..rest |-> bf[WriteOffset(off, i - 1, sz)]]
         /\ Advanced(off, n, rest, sz) =
              IF rest = n THEN 0 ELSE WriteOffset(off, rest, sz)
<1> DEFINE c == FirstChunk(off, rest, sz)
           o == Consumed(off, n, c, sz)
           s1 == CopyOut(bf, off, c)
           s2 == CopyOut(bf, o, rest - c)
<1>1. c \in Nat /\ c >= 1 /\ c <= rest
  BY DEF FirstChunk
<1>2. o \in Nat /\ o < sz
  BY <1>1 DEF FirstChunk, Consumed
<1>3. c < rest => o = 0
  BY DEF FirstChunk, Consumed
<1>4. \A i \in 1..c : off + i - 1 = WriteOffset(off, i - 1, sz)
  BY DEF FirstChunk, WriteOffset
<1>5. \A i \in 1..rest : i > c => i - c - 1 = WriteOffset(off, i - 1, sz)
  BY DEF FirstChunk, WriteOffset
<1>6. Fetched(bf, off, n, rest, sz) = s1 \o s2
  BY DEF Fetched
<1>7. /\ s1 \in Seq(Byte) /\ Len(s1) = c
      /\ \A i \in 1..c : s1[i] = bf[off + i - 1]
  <2>1. \A i \in 1..c : off + i - 1 \in 0..(sz - 1)
    BY DEF FirstChunk
  <2> HIDE DEF c
  <2> QED BY <1>1, <2>1 DEF CopyOut
<1>8. /\ s2 \in Seq(Byte) /\ Len(s2) = rest - c
      /\ \A i \in 1..(rest - c) : s2[i] = bf[o + i - 1]
  <2>1. \A i \in 1..(rest - c) : o + i - 1 \in 0..(sz - 1)
    BY <1>1, <1>3
  <2> HIDE DEF c, o
  <2> QED BY <1>1, <2>1 DEF CopyOut
<1>12. \A i \in 1..rest : WriteOffset(off, i - 1, sz) \in 0..(sz - 1)
  BY DEF WriteOffset
<1>9. Fetched(bf, off, n, rest, sz) =
        [i \in 1..rest |-> bf[WriteOffset(off, i - 1, sz)]]
  <2> DEFINE f == [i \in 1..rest |-> bf[WriteOffset(off, i - 1, sz)]]
  <2>1. f \in Seq(Byte) /\ Len(f) = rest
    BY <1>12
  <2>2. ASSUME NEW i \in 1..rest PROVE (s1 \o s2)[i] = f[i]
    <3>1. CASE i <= c
      <4> HIDE DEF s1, s2, c
      <4> QED BY <1>1, <1>4, <1>7, <1>8, <3>1
    <3>2. CASE i > c
      <4>1. (s1 \o s2)[i] = s2[i - c]
        <5> HIDE DEF s1, s2, c
        <5> QED BY <1>1, <1>7, <1>8, <3>2
      <4>2. o = 0 /\ i - c - 1 = WriteOffset(off, i - 1, sz)
        <5> HIDE DEF c, o
        <5> QED BY <1>1, <1>3, <1>5, <3>2
      <4>3. i - c \in 1..(rest - c) /\ o + (i - c) - 1 = WriteOffset(off, i - 1, sz)
        <5> HIDE DEF c, o
        <5> QED BY <1>1, <3>2, <4>2
      <4> HIDE DEF s1, s2, c, o
      <4> QED BY <1>8, <4>1, <4>3
    <3> HIDE DEF c
    <3> QED BY <1>1, <3>1, <3>2
  <2>3. s1 \o s2 \in Seq(Byte) /\ Len(s1 \o s2) = rest
    <3> HIDE DEF s1, s2, c
    <3>1. s1 \o s2 \in Seq(Byte) /\ Len(s1 \o s2) = Len(s1) + Len(s2)
      BY <1>7, <1>8, ConcatProperties
    <3>2. Len(s1) + Len(s2) = rest
      BY <1>1, <1>7, <1>8
    <3> QED BY <3>1, <3>2
  <2> HIDE DEF s1, s2, f
  <2>4. s1 \o s2 = f
    BY <2>1, <2>2, <2>3, SeqEqual
  <2> QED BY <1>6, <2>4 DEF f
<1>10. Advanced(off, n, rest, sz) =
         IF rest = n THEN 0 ELSE WriteOffset(off, rest, sz)
  BY DEF Advanced, Consumed, FirstChunk, WriteOffset
<1> QED BY <1>9, <1>10
------------------------------------------------------------------------------
LEMMA InvInit == Init => Inv
<1> SUFFICES ASSUME Init PROVE Inv
  OBVIOUS
<1>1. size \in [End -> Sizes] /\ \A e \in End : size[e] \in Nat \ {0}
  BY PairAssumption DEF Init, End
<1>2. \A e \in End : buf[e] \in [0..(size[e] - 1) -> Byte]
  <2> TAKE e \in End
  <2>1. PICK n \in Sizes : buf[e] \in [0..(n - 1) -> Byte]
    BY DEF Init
  <2> QED BY <2>1 DEF Init
<1>3. TypeOK
  BY <1>1, <1>2 DEF Init, TypeOK
<1>4. RingIsNormal /\ RequestIsWarranted /\ Coupled
  BY <1>1 DEF Init, RingIsNormal, RequestIsWarranted, Coupled, End
<1> QED BY <1>3, <1>4 DEF Inv

(* What the invariant gives about one end that has a peer.                 *)
LEMMA PairedEnd ==
  ASSUME Inv, NEW e \in End, init[e]
  PROVE  /\ size[e] \in Nat /\ size[e] >= 1 /\ size[e] \in Sizes
         /\ buf[e] \in [0..(size[e] - 1) -> Byte]
         /\ len[e] \in Nat /\ len[e] <= size[e]
         /\ offset[e] \in Nat /\ offset[e] < size[e]
         /\ len[e] = 0 => offset[e] = 0
         /\ request[e] \in Nat
         /\ Peer(e) \in End /\ Peer(e) # e /\ init[Peer(e)]
<1>1. size[e] \in Sizes /\ size[e] \in Nat /\ size[e] >= 1
  <2>1. size[e] \in Sizes
    BY DEF Inv, TypeOK
  <2>2. size[e] \in Nat \ {0}
    BY <2>1, PairAssumption
  <2> QED BY <2>1, <2>2
<1>2. /\ buf[e] \in [0..(size[e] - 1) -> Byte]
      /\ len[e] \in Nat /\ offset[e] \in Nat /\ request[e] \in Nat
  BY DEF Inv, TypeOK
<1>3. /\ len[e] <= size[e] /\ offset[e] < size[e]
      /\ len[e] = 0 => offset[e] = 0
  BY DEF Inv, RingIsNormal
<1>4. Peer(e) \in End /\ Peer(e) # e /\ init[Peer(e)]
  BY DEF Inv, Coupled, End, Peer
<1> QED BY <1>1, <1>2, <1>3, <1>4

LEMMA WriteStep ==
  ASSUME Inv, NEW e \in End, NEW d \in Chunk, Write(e, d)
  PROVE  Inv'
<1> USE DEF Write
<1>1. /\ size[e] \in Nat /\ size[e] >= 1
      /\ buf[e] \in [0..(size[e] - 1) -> Byte]
      /\ len[e] \in Nat /\ len[e] <= size[e]
      /\ offset[e] \in Nat /\ offset[e] < size[e]
  BY PairedEnd
<1>2. Coupled'
  BY DEF Inv, Coupled, TypeOK, ring
<1>3. CASE UNCHANGED ring
  <2>1. /\ init' = init /\ freed' = freed /\ closed' = closed /\ size' = size
        /\ buf' = buf /\ len' = len /\ offset' = offset
        /\ request' = [request EXCEPT ![e] = 0]
    BY <1>3 DEF ring
  <2> HIDE DEF Write
  <2>2. TypeOK'
    BY <2>1 DEF Inv, TypeOK
  <2>3. RingIsNormal'
    BY <2>1 DEF Inv, RingIsNormal
  <2>4. RequestIsWarranted'
    BY <1>1, <2>1 DEF Inv, TypeOK, RequestIsWarranted
  <2> QED BY <1>2, <2>2, <2>3, <2>4 DEF Inv
<1>4. CASE ~UNCHANGED ring
  <2> DEFINE num == Least(Len(d), size[e] - len[e])
             s   == SubSeq(d, 1, num)
             b   == Stored(buf[e], offset[e], len[e], size[e], s)
  <2>1. len[e] # size[e] /\ buf' = [buf EXCEPT ![e] = b] /\ len' = [len EXCEPT ![e] = @ + num]
        /\ UNCHANGED <<size, offset>>
    BY <1>4
  <2>2. d \in Seq(Byte) /\ Len(d) \in Nat /\ Len(d) >= 1
    BY ChunkFacts, EmptySeq
  <2>3. num \in 1..Len(d) /\ len[e] + num <= size[e]
    BY <1>1, <2>1, <2>2 DEF Least
  <2>4. s \in Seq(Byte) /\ Len(s) = num
    <3> HIDE DEF num
    <3> QED BY <2>2, <2>3, ChunkPrefix
  <2>5. b \in [0..(size[e] - 1) -> Byte]
    <3> HIDE DEF num, s, Write
    <3>1. Len(s) >= 1 /\ len[e] + Len(s) <= size[e]
      BY <1>1, <2>3, <2>4
    <3> QED BY <1>1, <2>4, <3>1, StoredIsAppend
  <2> HIDE DEF num, s, b
  <2>9. init' = init /\ freed' = freed /\ closed' = closed
        /\ request' = [request EXCEPT ![e] = 0]
    OBVIOUS
  <2> HIDE DEF Write
  <2>6. TypeOK'
    <3>1. ASSUME NEW x \in End, init[x]
          PROVE  buf'[x] \in [0..(size[x] - 1) -> Byte]
      BY <2>1, <2>5, <3>1, PairedEnd DEF Inv, TypeOK
    <3>2. len' \in [End -> Nat]
      BY <1>1, <2>1, <2>3 DEF Inv, TypeOK
    <3>3. /\ init' = init /\ freed' = freed /\ closed' = closed /\ size' = size
          /\ offset' = offset /\ request' \in [End -> Nat]
      BY <2>1, <2>9 DEF Inv, TypeOK
    <3>4. DOMAIN buf' = End
      BY <2>1 DEF Inv, TypeOK
    <3>5. /\ init' \in [End -> BOOLEAN] /\ freed' \in [End -> BOOLEAN]
          /\ closed' \in [End -> BOOLEAN] /\ size' \in [End -> Sizes]
          /\ offset' \in [End -> Nat]
      BY <3>3 DEF Inv, TypeOK
    <3>6. \A x \in End : init'[x] => buf'[x] \in [0..(size'[x] - 1) -> Byte]
      BY <3>1, <3>3
    <3> QED BY <3>2, <3>3, <3>4, <3>5, <3>6 DEF TypeOK
  <2>7. RingIsNormal'
    <3> SUFFICES ASSUME NEW x \in End, init[x]
                 PROVE  /\ len'[x] <= size[x] /\ offset[x] < size[x]
                        /\ len'[x] = 0 => offset[x] = 0
      BY <2>1, <2>9 DEF RingIsNormal
    <3>1. /\ len[x] <= size[x] /\ offset[x] < size[x]
          /\ len[x] = 0 => offset[x] = 0
      BY DEF Inv, RingIsNormal
    <3>2. len'[x] = IF x = e THEN len[e] + num ELSE len[x]
      BY <2>1 DEF Inv, TypeOK
    <3> QED BY <1>1, <2>3, <3>1, <3>2
  <2>8. RequestIsWarranted'
    BY <1>1, <2>1, <2>3, <2>9 DEF Inv, TypeOK, RequestIsWarranted
  <2> QED BY <1>2, <2>6, <2>7, <2>8 DEF Inv
<1> QED BY <1>3, <1>4

LEMMA ReadStep ==
  ASSUME Inv, NEW e \in End, NEW n \in 0..MaxIo, Read(e, n)
  PROVE  Inv'
<1> DEFINE p == Peer(e)
<1> USE DEF Read
<1>1. /\ p \in End
      /\ size[p] \in Nat /\ size[p] >= 1
      /\ len[p] \in Nat /\ len[p] <= size[p]
      /\ offset[p] \in Nat /\ offset[p] < size[p]
      /\ buf[p] \in [0..(size[p] - 1) -> Byte]
      /\ n \in Nat
  BY PairedEnd, PairAssumption
<1>2. Coupled'
  BY <1>1 DEF Inv, Coupled, TypeOK, ring
<1> HIDE DEF p
<1>3. CASE UNCHANGED ring
  <2>1. request' = [request EXCEPT ![p] = 0]
        \/ (len[p] = 0 /\ request' = [request EXCEPT ![p] = AskedFor(n, size[p])])
    BY <1>3, PairAssumption DEF p, ring
  <2>2. AskedFor(n, size[p]) \in Nat /\ AskedFor(n, size[p]) <= size[p]
    BY <1>1 DEF AskedFor, Least
  <2>3. init' = init /\ freed' = freed /\ closed' = closed /\ size' = size
        /\ buf' = buf /\ len' = len /\ offset' = offset
    BY <1>3 DEF ring
  <2> HIDE DEF Read
  <2>4. TypeOK'
    <3>1. request' \in [End -> Nat]
      <4>1. request \in [End -> Nat]
        BY DEF Inv, TypeOK
      <4>2. CASE request' = [request EXCEPT ![p] = 0]
        BY <4>1, <4>2
      <4>3. CASE request' = [request EXCEPT ![p] = AskedFor(n, size[p])]
        BY <2>2, <4>1, <4>3
      <4> QED BY <2>1, <4>2, <4>3
    <3> QED BY <2>3, <3>1 DEF Inv, TypeOK
  <2>5. RingIsNormal'
    BY <2>3 DEF Inv, RingIsNormal
  <2>6. RequestIsWarranted'
    <3> SUFFICES ASSUME NEW x \in End, init[x]
                 PROVE  /\ request'[x] > 0 => len[x] = 0
                        /\ request'[x] <= size[x] - len[x]
      BY <2>3 DEF RequestIsWarranted
    <3>1. /\ size[x] \in Nat /\ len[x] \in Nat /\ len[x] <= size[x]
          /\ request[x] > 0 => len[x] = 0
          /\ request[x] <= size[x] - len[x]
      BY PairedEnd DEF Inv, RequestIsWarranted
    <3>2. CASE x # p
      BY <2>1, <3>1, <3>2 DEF Inv, TypeOK
    <3>3. CASE x = p
      <4>1. request'[x] = 0 \/ (len[p] = 0 /\ request'[x] = AskedFor(n, size[p]))
        BY <1>1, <2>1, <3>3 DEF Inv, TypeOK
      <4> QED BY <2>2, <3>1, <3>3, <4>1
    <3> QED BY <3>2, <3>3
  <2> QED BY <1>2, <2>4, <2>5, <2>6 DEF Inv
<1>4. CASE ~UNCHANGED ring
  <2> DEFINE rest == Least(n, len[p])
             off  == Advanced(offset[p], len[p], rest, size[p])
  <2>1. /\ len[p] # 0 /\ n # 0
        /\ len' = [len EXCEPT ![p] = @ - rest]
        /\ offset' = [offset EXCEPT ![p] = off]
        /\ request' = [request EXCEPT ![p] = 0]
        /\ UNCHANGED <<size, buf, init, freed, closed>>
    BY <1>4 DEF p
  <2>2. rest \in Nat /\ rest >= 1 /\ rest <= len[p]
    BY <1>1, <2>1 DEF Least
  <2>3. off \in Nat /\ off < size[p] /\ (rest = len[p] => off = 0)
    <3> HIDE DEF rest
    <3>1. off = IF rest = len[p] THEN 0 ELSE WriteOffset(offset[p], rest, size[p])
      BY <1>1, <2>2, FetchedIsPrefix
    <3>2. rest <= size[p]
      BY <1>1, <2>2
    <3>3. WriteOffset(offset[p], rest, size[p]) \in Nat
          /\ WriteOffset(offset[p], rest, size[p]) < size[p]
      BY <1>1, <2>2, <3>2, WriteOffsetBounds
    <3> HIDE DEF off
    <3> QED BY <1>1, <2>2, <3>1, <3>3
  <2> HIDE DEF rest, off, Read
  <2>4. TypeOK'
    BY <1>1, <2>1, <2>2, <2>3 DEF Inv, TypeOK
  <2>5. RingIsNormal'
    BY <1>1, <2>1, <2>2, <2>3 DEF Inv, TypeOK, RingIsNormal
  <2>6. RequestIsWarranted'
    BY <1>1, <2>1, <2>2 DEF Inv, TypeOK, RequestIsWarranted
  <2> QED BY <1>2, <2>4, <2>5, <2>6 DEF Inv
<1> QED BY <1>3, <1>4

LEMMA OtherSteps ==
  ASSUME Inv, NEW e \in End,
         \/ \E d \in Chunk : WriteNothing(e, d)
         \/ \E n \in Sizes : SetBuffSize(e, n)
         \/ ReadUnpaired(e) \/ ShutdownWr(e) \/ ResetReadRequest(e)
         \/ Reset(e) \/ Free(e)
  PROVE  Inv'
<1> USE DEF Inv, TypeOK, RingIsNormal, RequestIsWarranted, Coupled, ring
<1>1. CASE \E d \in Chunk : WriteNothing(e, d)
  BY <1>1 DEF WriteNothing
<1>2. ASSUME NEW n \in Sizes, SetBuffSize(e, n) PROVE Inv'
  <2>1. TypeOK'
    BY <1>2 DEF SetBuffSize
  <2>2. RingIsNormal' /\ RequestIsWarranted' /\ Coupled'
    BY <1>2 DEF SetBuffSize
  <2> QED BY <2>1, <2>2
<1>3. CASE ReadUnpaired(e)
  BY <1>3 DEF ReadUnpaired
<1>4. CASE ShutdownWr(e)
  BY <1>4 DEF ShutdownWr
<1>5. CASE ResetReadRequest(e)
  <2>1. TypeOK' /\ Coupled'
    BY <1>5 DEF ResetReadRequest
  <2>2. RingIsNormal'
    BY <1>5 DEF ResetReadRequest
  <2>3. \A x \in End : init[x] => /\ request'[x] \in {0, request[x]}
                                  /\ size[x] \in Nat /\ len[x] \in Nat
                                  /\ len[x] <= size[x]
    BY <1>5, PairedEnd DEF ResetReadRequest
  <2>4. RequestIsWarranted'
    BY <1>5, <2>3 DEF ResetReadRequest
  <2> QED BY <2>1, <2>2, <2>4
<1>6. CASE Reset(e)
  <2>1. TypeOK' /\ Coupled'
    BY <1>6 DEF Reset
  <2>2. \A x \in End : init[x] =>
           /\ size[x] \in Nat /\ size[x] >= 1 /\ request[x] \in Nat
           /\ (len'[x] = 0 /\ offset'[x] = 0) \/ (len'[x] = len[x] /\ offset'[x] = offset[x])
    BY <1>6, PairedEnd DEF Reset
  <2>3. init' = init /\ size' = size /\ request' = request
    BY <1>6 DEF Reset
  <2>4. RingIsNormal'
    BY <2>2, <2>3
  <2>5. \A x \in End : init[x] => /\ size[x] \in Nat /\ len[x] \in Nat
                                  /\ request[x] <= size[x]
    BY PairedEnd
  <2>6. RequestIsWarranted'
    BY <2>2, <2>3, <2>5
  <2> QED BY <2>1, <2>4, <2>6
<1>7. CASE Free(e)
  <2>1. \A x \in End : init'[x] = FALSE
    BY <1>7 DEF Free, End
  <2>2. TypeOK'
    <3>1. init' \in [End -> BOOLEAN]
      <4>1. init' = [x \in End |-> FALSE] \/ init' = init
        BY <1>7 DEF Free
      <4>2. init \in [End -> BOOLEAN]
        OBVIOUS
      <4> HIDE DEF Inv
      <4> QED BY <4>1, <4>2
    <3>4. DOMAIN buf' = End
      BY <1>7 DEF Free
    <3>2. freed' \in [End -> BOOLEAN] /\ closed' = closed /\ size' = size /\ request' = request
      BY <1>7 DEF Free
    <3>3. len' \in [End -> Nat] /\ offset' \in [End -> Nat]
      <4>1. CASE init[e]
        <5>1. len' = [x \in End |-> 0] /\ offset' = [x \in End |-> 0]
          BY <1>7, <4>1 DEF Free
        <5> HIDE DEF Inv
        <5> QED BY <5>1
      <4>2. CASE ~init[e]
        BY <1>7, <4>2 DEF Free
      <4> QED BY <4>1, <4>2
    <3> QED BY <2>1, <3>1, <3>2, <3>3, <3>4
  <2>3. Coupled'
    BY <1>7, <2>1 DEF Free, End
  <2>4. RingIsNormal' /\ RequestIsWarranted'
    BY <2>1
  <2> QED BY <2>2, <2>3, <2>4
<1> QED BY <1>1, <1>2, <1>3, <1>4, <1>5, <1>6, <1>7

LEMMA InvNext == Inv /\ [Next]_vars => Inv'
<1> SUFFICES ASSUME Inv, [Next]_vars PROVE Inv'
  OBVIOUS
<1>1. CASE UNCHANGED vars
  BY <1>1 DEF vars, ring, Inv, TypeOK, RingIsNormal, RequestIsWarranted, Coupled
<1>2. CASE Next
  BY <1>2, WriteStep, ReadStep, OtherSteps DEF Next
<1> QED BY <1>1, <1>2

(* Every variable of the pair keeps its type, for every pair of ring sizes *)
(* and every interleaving of the two callers: the buffer of an end with a  *)
(* peer is as long as its size says.                                       *)
THEOREM RingTypes == Spec => []TypeOK
<1>1. Inv => TypeOK
  BY DEF Inv
<1> QED BY InvInit, InvNext, <1>1, PTL DEF Spec

(* The offset stays inside the ring and an empty ring starts at 0, as the  *)
(* asserts of the copy loops of pair.c have it.                            *)
THEOREM RingCorrect == Spec => []RingIsNormal
<1>1. Inv => RingIsNormal
  BY DEF Inv
<1> QED BY InvInit, InvNext, <1>1, PTL DEF Spec

(* A read request that is recorded stands over an empty ring and is for no *)
(* more than one write can deliver (the comment of struct bio_bio_st).     *)
THEOREM RequestsAreWarranted == Spec => []RequestIsWarranted
<1>1. Inv => RequestIsWarranted
  BY DEF Inv
<1> QED BY InvInit, InvNext, <1>1, PTL DEF Spec

(* What BIO_ctrl_get_write_guarantee promised is not taken back by         *)
(* anything the other end does, short of freeing the pair: reading only    *)
(* makes room, and a ring that is in use cannot be replaced.               *)
LEMMA GuaranteeStep ==
  ASSUME Inv, NEW x \in End, NEW e \in End,
         \/ \E d \in Chunk : WriteNothing(x, d) \/ (Write(x, d) /\ x # e)
         \/ \E n \in 0..MaxIo : Read(x, n)
         \/ \E n \in Sizes : SetBuffSize(x, n)
         \/ ReadUnpaired(x) \/ (ShutdownWr(x) /\ x # e) \/ ResetReadRequest(x) \/ Reset(x)
  PROVE  WriteGuarantee(e)' >= WriteGuarantee(e)
<1>1. /\ size[e] \in Nat /\ len[e] \in Nat /\ size \in [End -> Sizes] /\ Sizes \subseteq Nat
      /\ len \in [End -> Nat] /\ closed \in [End -> BOOLEAN]
  BY PairAssumption DEF Inv, TypeOK
<1>2. CASE \E d \in Chunk : WriteNothing(x, d)
  BY <1>1, <1>2 DEF WriteNothing, ring, WriteGuarantee
<1>3. CASE \E d \in Chunk : Write(x, d) /\ x # e
  <2>1. PICK d \in Chunk : Write(x, d) /\ x # e
    BY <1>3
  <2>2. len'[e] = len[e] /\ size' = size /\ init' = init /\ closed' = closed
    BY <1>1, <2>1 DEF Write, ring
  <2>. QED BY <1>1, <2>2 DEF WriteGuarantee
<1>4. CASE \E n \in 0..MaxIo : Read(x, n)
  <2>1. PICK n \in 0..MaxIo : Read(x, n)
    BY <1>4
  <2>2. size' = size /\ init' = init /\ closed' = closed
    BY <2>1 DEF Read, ring
  <2>3. Peer(x) \in End /\ n \in Nat
    BY PairAssumption DEF Peer, End
  <2>4. len'[e] \in Nat /\ len'[e] <= len[e]
    <3>1. CASE len' = len
      BY <1>1, <3>1
    <3>2. CASE \E rest \in {Least(n, len[Peer(x)])} : len' = [len EXCEPT ![Peer(x)] = @ - rest]
      <4>. DEFINE rest == Least(n, len[Peer(x)])
      <4>1. len[Peer(x)] \in Nat
        BY <1>1, <2>3
      <4>2. rest \in Nat /\ rest <= len[Peer(x)]
        BY <2>3, <4>1 DEF Least
      <4>3. len' = [len EXCEPT ![Peer(x)] = @ - rest]
        BY <3>2
      <4>. HIDE DEF rest
      <4>. QED BY <1>1, <2>3, <4>1, <4>2, <4>3
    <3>. QED BY <2>1, <3>1, <3>2 DEF Read, ring
  <2>. QED BY <1>1, <2>2, <2>4 DEF WriteGuarantee
<1>5. CASE \E n \in Sizes : SetBuffSize(x, n)
  <2>1. ~init[e] /\ init' = init
    BY <1>5 DEF SetBuffSize, Inv, Coupled, End
  <2>. QED BY <2>1 DEF WriteGuarantee
<1>6. CASE ReadUnpaired(x)
  BY <1>1, <1>6 DEF ReadUnpaired, ring, WriteGuarantee
<1>7. CASE ShutdownWr(x) /\ x # e
  <2>1. closed'[e] = closed[e] /\ size' = size /\ len' = len /\ init' = init
    BY <1>1, <1>7 DEF ShutdownWr, ring
  <2>. QED BY <1>1, <2>1 DEF WriteGuarantee
<1>8. CASE ResetReadRequest(x)
  BY <1>1, <1>8 DEF ResetReadRequest, ring, WriteGuarantee
<1>9. CASE Reset(x)
  <2>1. len'[e] \in {0, len[e]} /\ size' = size /\ closed' = closed /\ init' = init
    BY <1>1, <1>9 DEF Reset
  <2>. QED BY <1>1, <2>1 DEF WriteGuarantee
<1>. QED BY <1>2, <1>3, <1>4, <1>5, <1>6, <1>7, <1>8, <1>9

(* Whoever was given a write guarantee may write that much later, for      *)
(* every ring size and every interleaving of the two callers.              *)
THEOREM GuaranteesHold == Spec => GuaranteeHolds
<1>. DEFINE Kept == \A e \in End :
       \/ WriteGuarantee(e)' >= WriteGuarantee(e)
       \/ \E d \in Chunk : Write(e, d)
       \/ ShutdownWr(e) \/ Free(1) \/ Free(2)
<1>1. Inv /\ [Next]_vars => [Kept]_vars
  <2>. SUFFICES ASSUME Inv, Next
                PROVE  Kept
    BY DEF vars
  <2>. SUFFICES ASSUME NEW e \in End
                PROVE  \/ WriteGuarantee(e)' >= WriteGuarantee(e)
                       \/ \E d \in Chunk : Write(e, d)
                       \/ ShutdownWr(e) \/ Free(1) \/ Free(2)
    OBVIOUS
  <2>1. PICK x \in End :
          \/ \E d \in Chunk : WriteNothing(x, d) \/ Write(x, d)
          \/ \E n \in 0..MaxIo : Read(x, n)
          \/ \E n \in Sizes : SetBuffSize(x, n)
          \/ ReadUnpaired(x) \/ ShutdownWr(x) \/ ResetReadRequest(x) \/ Reset(x) \/ Free(x)
    BY DEF Next
  <2>2. CASE Free(x)
    BY <2>2 DEF End
  <2>3. CASE x = e /\ ((\E d \in Chunk : Write(x, d)) \/ ShutdownWr(x))
    BY <2>3, Zenon
  <2>4. CASE ~Free(x) /\ ~(x = e /\ ((\E d \in Chunk : Write(x, d)) \/ ShutdownWr(x)))
    <3>1. WriteGuarantee(e)' >= WriteGuarantee(e)
      BY <2>1, <2>4, GuaranteeStep
    <3>. QED BY <3>1
  <2>. QED BY <2>2, <2>3, <2>4
<1>. QED BY InvInit, InvNext, <1>1, PTL DEF Spec, GuaranteeHolds
------------------------------------------------------------------------------
(* The refinement.  The bytes in transit are a sequence over Byte.         *)
LEMMA ContentsFacts ==
  ASSUME Inv, NEW e \in End, init[e]
  PROVE  /\ Contents(e) \in Seq(Byte)
         /\ Len(Contents(e)) = len[e]
         /\ \A i \in 1..len[e] :
              Contents(e)[i] = buf[e][WriteOffset(offset[e], i - 1, size[e])]
<1>1. /\ size[e] \in Nat /\ offset[e] \in Nat /\ offset[e] < size[e]
      /\ len[e] \in Nat /\ len[e] <= size[e]
      /\ buf[e] \in [0..(size[e] - 1) -> Byte]
  BY PairedEnd
<1>2. ASSUME NEW i \in 1..len[e]
      PROVE  buf[e][WriteOffset(offset[e], i - 1, size[e])] \in Byte
  BY <1>1 DEF WriteOffset
<1> QED BY <1>1, <1>2 DEF Contents

LEMMA EmptyContents ==
  ASSUME NEW e, len[e] = 0
  PROVE  Contents(e) = <<>>
  BY DEF Contents

LEMMA NonEmptyContents ==
  ASSUME Inv, NEW e \in End, init[e], len[e] # 0
  PROVE  Contents(e) # <<>>
  BY ContentsFacts, PairedEnd

LEMMA WriteRefines ==
  ASSUME Inv, NEW e \in End, NEW d \in Chunk, Write(e, d)
  PROVE  Pipes!WriteSome(e, d) \/ Pipes!WriteRetry(e) \/ Pipes!WriteError(e)
<1> USE DEF Write
<1>1. /\ size[e] \in Nat /\ size[e] >= 1
      /\ buf[e] \in [0..(size[e] - 1) -> Byte]
      /\ len[e] \in Nat /\ len[e] <= size[e]
      /\ offset[e] \in Nat /\ offset[e] < size[e]
  BY PairedEnd
<1>2. init[1]
  BY DEF Inv, Coupled, End
<1>3. CASE UNCHANGED ring
  <2>1. [x \in End |-> Contents(x)]' = [x \in End |-> Contents(x)]
    BY <1>3 DEF ring, Contents
  <2>2. CASE closed[e]
    BY <1>2, <2>1, <2>2 DEF Pipes!WriteError, Pipes!Result, Result
  <2>3. CASE ~closed[e] /\ len[e] = size[e]
    <3>1. Contents(e) # <<>>
      BY <1>1, <2>3, NonEmptyContents
    <3> QED BY <1>2, <2>1, <2>3, <3>1 DEF Pipes!WriteRetry, Pipes!Result, Result
  <2>4. CASE ~closed[e] /\ len[e] # size[e]
    <3>1. d \in Seq(Byte) /\ Len(d) \in Nat /\ Len(d) >= 1
      BY ChunkFacts, EmptySeq
    <3>2. len'[e] = len[e] + Least(Len(d), size[e] - len[e])
      BY <2>4 DEF Inv, TypeOK
    <3>3. Least(Len(d), size[e] - len[e]) \in Nat \ {0}
      BY <1>1, <2>4, <3>1 DEF Least
    <3>4. len'[e] = len[e]
      BY <1>3 DEF ring
    <3> QED BY <1>1, <3>2, <3>3, <3>4
  <2> QED BY <2>2, <2>3, <2>4
<1>4. CASE ~UNCHANGED ring
  <2> DEFINE num == Least(Len(d), size[e] - len[e])
             s   == SubSeq(d, 1, num)
             b   == Stored(buf[e], offset[e], len[e], size[e], s)
  <2>1. /\ len[e] # size[e] /\ ~closed[e] /\ out' = Took(s)
        /\ buf' = [buf EXCEPT ![e] = b] /\ len' = [len EXCEPT ![e] = @ + num]
        /\ UNCHANGED <<size, offset, closed, init>>
    BY <1>4
  <2>2. d \in Seq(Byte) /\ Len(d) \in Nat /\ Len(d) >= 1
    BY ChunkFacts, EmptySeq
  <2>3. num \in 1..Len(d) /\ len[e] + num <= size[e]
    BY <1>1, <2>1, <2>2 DEF Least
  <2>4. s \in Seq(Byte) /\ Len(s) = num
    <3> HIDE DEF num
    <3> QED BY <2>2, <2>3, ChunkPrefix
  <2> HIDE DEF num, s, Write
  <2>5. /\ \A i \in 1..len[e] : b[WriteOffset(offset[e], i - 1, size[e])]
                                  = buf[e][WriteOffset(offset[e], i - 1, size[e])]
        /\ \A i \in 1..num : b[WriteOffset(offset[e], len[e] + i - 1, size[e])] = s[i]
    <3>1. Len(s) >= 1 /\ len[e] + Len(s) <= size[e]
      BY <1>1, <2>3, <2>4
    <3>2. /\ \A i \in 1..len[e] :
                 Stored(buf[e], offset[e], len[e], size[e], s)[WriteOffset(offset[e], i - 1, size[e])]
                   = buf[e][WriteOffset(offset[e], i - 1, size[e])]
          /\ \A i \in 1..Len(s) :
                 Stored(buf[e], offset[e], len[e], size[e], s)[WriteOffset(offset[e], len[e] + i - 1, size[e])]
                   = s[i]
      <4> DEFINE sz == size[e]
                 o  == offset[e]
                 n  == len[e]
                 bf == buf[e]
      <4>1. sz \in Nat /\ o \in Nat /\ o < sz /\ n \in Nat
            /\ bf \in [0..(sz - 1) -> Byte] /\ n + Len(s) <= sz
        BY <1>1, <3>1
      <4> HIDE DEF sz, o, n, bf
      <4>2. /\ \A i \in 1..n : Stored(bf, o, n, sz, s)[WriteOffset(o, i - 1, sz)]
                                = bf[WriteOffset(o, i - 1, sz)]
            /\ \A i \in 1..Len(s) : Stored(bf, o, n, sz, s)[WriteOffset(o, n + i - 1, sz)] = s[i]
        <5>1. Len(s) >= 1 /\ s \in Seq(Byte)
          BY <2>4, <3>1
        <5>2. ASSUME NEW i \in 1..n
              PROVE  Stored(bf, o, n, sz, s)[WriteOffset(o, i - 1, sz)]
                       = bf[WriteOffset(o, i - 1, sz)]
          BY <4>1, <5>1, StoredIsAppend
        <5>3. ASSUME NEW i \in 1..Len(s)
              PROVE  Stored(bf, o, n, sz, s)[WriteOffset(o, n + i - 1, sz)] = s[i]
          BY <4>1, <5>1, StoredIsAppend
        <5> QED BY <5>2, <5>3
      <4> QED BY <4>2 DEF sz, o, n, bf
    <3> QED BY <2>4, <3>2 DEF b
  <2> HIDE DEF b
  <2>6. /\ buf'[e] = b /\ len'[e] = len[e] + num
        /\ \A x \in End : x # e => buf'[x] = buf[x] /\ len'[x] = len[x]
    BY <2>1 DEF Inv, TypeOK
  <2>7. Contents(e)' = Contents(e) \o s
    <3> DEFINE t == Contents(e) \o s
               u == Contents(e)'
    <3>1. /\ Contents(e) \in Seq(Byte) /\ Len(Contents(e)) = len[e]
          /\ \A i \in 1..len[e] : Contents(e)[i]
                = buf[e][WriteOffset(offset[e], i - 1, size[e])]
      BY ContentsFacts, Write(e, d) DEF Write
    <3>2. /\ t \in Seq(Byte) /\ Len(t) = len[e] + num
      <4>1. t \in Seq(Byte) /\ Len(t) = Len(Contents(e)) + Len(s)
        BY <2>4, <3>1, ConcatProperties
      <4> HIDE DEF t
      <4> QED BY <2>4, <3>1, <4>1
    <3>3. u = [i \in 1..(len[e] + num) |-> b[WriteOffset(offset[e], i - 1, size[e])]]
      BY <2>1, <2>6 DEF Contents
    <3>4. ASSUME NEW i \in 1..(len[e] + num) PROVE u[i] = t[i]
      <4>1. u[i] = b[WriteOffset(offset[e], i - 1, size[e])]
        BY <3>3
      <4>2. CASE i <= len[e]
        <5>1. t[i] = Contents(e)[i]
          BY <1>1, <2>3, <2>4, <3>1, <4>2
        <5>2. i \in 1..len[e]
          BY <1>1, <2>3, <4>2
        <5> HIDE DEF t, u
        <5> QED BY <2>5, <3>1, <4>1, <5>1, <5>2
      <4>3. CASE i > len[e]
        <5>1. i - len[e] \in 1..num /\ len[e] + (i - len[e]) - 1 = i - 1
          BY <1>1, <2>3, <4>3
        <5>2. t[i] = s[i - len[e]]
          <6>1. i \in 1..(Len(Contents(e)) + Len(s)) /\ ~(i <= Len(Contents(e)))
            BY <1>1, <2>3, <2>4, <3>1, <4>3
          <6>2. t[i] = s[i - Len(Contents(e))]
            BY <2>4, <3>1, <6>1, ConcatProperties
          <6> QED BY <3>1, <6>2
        <5>3. s[i - len[e]] = b[WriteOffset(offset[e], len[e] + (i - len[e]) - 1, size[e])]
          BY <2>5, <5>1
        <5> HIDE DEF t, u
        <5> QED BY <4>1, <5>1, <5>2, <5>3
      <4>4. i \in Nat
        BY <1>1, <2>3
      <4> HIDE DEF t, u
      <4> QED BY <1>1, <4>2, <4>3, <4>4
    <3>5. u \in Seq(Byte) /\ Len(u) = len[e] + num
      <4>1. ASSUME NEW i \in 1..(len[e] + num) PROVE u[i] \in Byte
        <5>1. i \in 1..Len(t)
          BY <3>2
        <5>2. t[i] \in Byte
          <6> HIDE DEF t
          <6> QED BY <3>2, <5>1, ElementOfSeq
        <5> QED BY <3>4, <5>2
      <4> HIDE DEF u
      <4>2. DOMAIN u = 1..(len[e] + num) /\ len[e] + num \in Nat
        BY <1>1, <2>3, <3>3
      <4>3. u = [i \in 1..(len[e] + num) |-> u[i]]
        BY <3>3
      <4>4. u \in [1..(len[e] + num) -> Byte]
        BY <4>1, <4>3
      <4> QED BY <4>2, <4>4
    <3> HIDE DEF t, u
    <3>6. u = t
      BY <3>2, <3>4, <3>5, SeqEqual
    <3> QED BY <3>6 DEF t, u
  <2>8. \A x \in End : x # e => Contents(x)' = Contents(x)
    BY <2>1, <2>6 DEF Contents
  <2>9. [x \in End |-> Contents(x)]'
          = [[x \in End |-> Contents(x)] EXCEPT ![e] = @ \o s]
    BY <2>7, <2>8
  <2>10. Pipes!WriteSome(e, d)
    BY <1>2, <2>1, <2>3, <2>9 DEF Pipes!WriteSome, Pipes!Took, Took, s
  <2> QED BY <2>10
<1> QED BY <1>3, <1>4

LEMMA ReadRefines ==
  ASSUME Inv, NEW e \in End, NEW n \in 0..MaxIo, Read(e, n)
  PROVE  \/ Pipes!Nothing(e) \/ Pipes!ReadSome(e)
         \/ Pipes!ReadRetry(e) \/ Pipes!ReadEof(e)
<1> DEFINE p == Peer(e)
<1> USE DEF Read
<1>1. /\ p \in End /\ init[p]
      /\ size[p] \in Nat /\ size[p] >= 1
      /\ len[p] \in Nat /\ len[p] <= size[p]
      /\ offset[p] \in Nat /\ offset[p] < size[p]
      /\ buf[p] \in [0..(size[p] - 1) -> Byte]
      /\ n \in Nat
  BY PairedEnd, PairAssumption
<1>2. init[1] /\ Pipes!Peer(e) = p
  BY DEF Inv, Coupled, End, Pipes!Peer, Peer
<1>3. CASE n = 0 \/ len[p] = 0
  <2>1. UNCHANGED <<ring, init, closed>>
    BY <1>3 DEF p
  <2>2. [x \in End |-> Contents(x)]' = [x \in End |-> Contents(x)]
    BY <2>1 DEF ring, Contents
  <2>3. CASE n = 0
    <3>1. out' = Result("zero")
      BY <2>3 DEF p
    <3> QED BY <2>1, <2>2, <3>1 DEF Pipes!Nothing, Pipes!Result, Result
  <2>4. CASE n # 0 /\ len[p] = 0
    <3>1. Contents(p) = <<>>
      BY <2>4, EmptyContents
    <3>2. CASE closed[p]
      <4>1. out' = Result("eof")
        BY <2>4, <3>2 DEF p
      <4> HIDE DEF p
      <4> QED BY <1>1, <1>2, <2>1, <2>2, <3>1, <3>2, <4>1 DEF Pipes!ReadEof, Pipes!Result, Result
    <3>3. CASE ~closed[p]
      <4>1. out' = Result("retry")
        BY <2>4, <3>3 DEF p
      <4> HIDE DEF p
      <4> QED BY <1>1, <1>2, <2>1, <2>2, <3>1, <3>3, <4>1 DEF Pipes!ReadRetry, Pipes!Result, Result
    <3> QED BY <3>2, <3>3
  <2> QED BY <1>3, <2>3, <2>4
<1>4. CASE n # 0 /\ len[p] # 0
  <2> DEFINE rest == Least(n, len[p])
             off  == Advanced(offset[p], len[p], rest, size[p])
             d    == Fetched(buf[p], offset[p], len[p], rest, size[p])
  <2>1. /\ out' = Gave(d)
        /\ len' = [len EXCEPT ![p] = @ - rest]
        /\ offset' = [offset EXCEPT ![p] = off]
        /\ UNCHANGED <<size, buf, init, freed, closed>>
    BY <1>4 DEF p
  <2>2. rest \in Nat /\ rest >= 1 /\ rest <= len[p]
    BY <1>1, <1>4 DEF Least
  <2> HIDE DEF rest, p, Read
  <2>3. /\ d = [i \in 1..rest |-> buf[p][WriteOffset(offset[p], i - 1, size[p])]]
        /\ off = IF rest = len[p] THEN 0 ELSE WriteOffset(offset[p], rest, size[p])
    BY <1>1, <2>2, FetchedIsPrefix
  <2> HIDE DEF off, d
  <2>4. /\ Contents(p) \in Seq(Byte) /\ Len(Contents(p)) = len[p]
        /\ \A i \in 1..len[p] : Contents(p)[i]
              = buf[p][WriteOffset(offset[p], i - 1, size[p])]
    BY <1>1, ContentsFacts
  <2>5. d = SubSeq(Contents(p), 1, rest) /\ Len(d) = rest
    <3>1. SubSeq(Contents(p), 1, rest) = [i \in 1..rest |-> Contents(p)[i]]
      BY <1>1, <2>2, <2>4
    <3>2. \A i \in 1..rest : Contents(p)[i] = buf[p][WriteOffset(offset[p], i - 1, size[p])]
      BY <1>1, <2>2, <2>4
    <3> QED BY <2>2, <2>3, <3>1, <3>2
  <2>6. Contents(p)' = SubSeq(Contents(p), rest + 1, Len(Contents(p)))
    <3>1. /\ len'[p] = len[p] - rest /\ offset'[p] = off
          /\ buf'[p] = buf[p] /\ size'[p] = size[p]
      BY <1>1, <2>1 DEF Inv, TypeOK
    <3>2. Contents(p)' = [i \in 1..(len[p] - rest) |-> buf[p][WriteOffset(off, i - 1, size[p])]]
      BY <3>1 DEF Contents
    <3>3. SubSeq(Contents(p), rest + 1, Len(Contents(p)))
            = [i \in 1..(len[p] - rest) |-> Contents(p)[i + rest]]
      BY <1>1, <2>2, <2>4
    <3>4. ASSUME NEW i \in 1..(len[p] - rest)
          PROVE  buf[p][WriteOffset(off, i - 1, size[p])] = Contents(p)[i + rest]
      <4>1. i + rest \in 1..len[p] /\ rest # len[p] /\ (i + rest) - 1 = rest + i - 1
        BY <1>1, <2>2
      <4>2. WriteOffset(off, i - 1, size[p]) = WriteOffset(offset[p], rest + i - 1, size[p])
        <5>1. off = WriteOffset(offset[p], rest, size[p])
          BY <2>3, <4>1
        <5>2. i \in Nat /\ i >= 1 /\ rest + i <= size[p]
          BY <1>1, <2>2
        <5>3. i - 1 \in Nat /\ rest + (i - 1) <= size[p] /\ rest + (i - 1) = rest + i - 1
          BY <1>1, <2>2, <5>2
        <5> QED BY <1>1, <2>2, <5>1, <5>3, WriteOffsetAdds
      <4> QED BY <2>4, <4>1, <4>2
    <3> QED BY <3>2, <3>3, <3>4
  <2>7. \A x \in End : x # p => Contents(x)' = Contents(x)
    <3>1. \A x \in End : x # p => /\ len'[x] = len[x] /\ offset'[x] = offset[x]
                                  /\ buf'[x] = buf[x] /\ size'[x] = size[x]
      BY <1>1, <2>1 DEF Inv, TypeOK
    <3> QED BY <3>1 DEF Contents
  <2>8. [x \in End |-> Contents(x)]'
          = [[x \in End |-> Contents(x)] EXCEPT ![p] = SubSeq(@, rest + 1, Len(@))]
    BY <2>6, <2>7
  <2>9. Pipes!ReadSome(e)
    <3>1. rest \in 1..Len(Contents(p))
      BY <1>1, <2>2, <2>4
    <3>2. out' = Pipes!Gave(SubSeq(Contents(p), 1, rest))
      BY <2>1, <2>5 DEF Pipes!Gave, Gave
    <3>3. [x \in End |-> Contents(x)][p] = Contents(p)
      BY <1>1
    <3> QED BY <1>2, <2>1, <2>8, <3>1, <3>2, <3>3 DEF Pipes!ReadSome
  <2> QED BY <2>9
<1> QED BY <1>3, <1>4

LEMMA OtherRefine ==
  ASSUME Inv, NEW e \in End,
         \/ \E d \in Chunk : WriteNothing(e, d)
         \/ \E n \in Sizes : SetBuffSize(e, n)
         \/ ReadUnpaired(e) \/ ShutdownWr(e) \/ ResetReadRequest(e)
         \/ Reset(e) \/ Free(e)
  PROVE  [Pipes!Next]_(Pipes!vars)
<1> DEFINE cs == [x \in End |-> Contents(x)]
<1>1. ASSUME NEW d \in Chunk, WriteNothing(e, d) PROVE Pipes!Nothing(e)
  BY <1>1 DEF WriteNothing, Pipes!Nothing, ring, Contents, Pipes!Result, Result
<1>2. ASSUME NEW n \in Sizes, SetBuffSize(e, n) PROVE UNCHANGED Pipes!vars
  <2>1. \A x \in End : len[x] = 0 /\ len'[x] = 0
    BY <1>2 DEF SetBuffSize, Inv, Coupled, End
  <2>2. \A x \in End : Contents(x) = <<>> /\ Contents(x)' = <<>>
    BY <2>1 DEF Contents
  <2>3. cs' = cs
    BY <2>2
  <2> QED BY <1>2, <2>3 DEF SetBuffSize, Pipes!vars
<1>3. CASE ReadUnpaired(e)
  <2>1. Pipes!ReadEof(e)
    BY <1>3 DEF ReadUnpaired, Pipes!ReadEof, ring, Contents, Pipes!Result, Result,
                Inv, Coupled, End
  <2> QED BY <2>1 DEF Pipes!Next, Pipes!End, End
<1>4. CASE ShutdownWr(e)
  <2>1. Pipes!Shutdown(e)
    BY <1>4 DEF ShutdownWr, Pipes!Shutdown, ring, Contents
  <2> QED BY <2>1 DEF Pipes!Next, Pipes!End, End
<1>5. CASE ResetReadRequest(e)
  BY <1>5 DEF ResetReadRequest, Pipes!vars, ring, Contents
<1>6. CASE Reset(e)
  <2>1. /\ len'[e] = 0
        /\ \A x \in End : x # e => len'[x] = len[x] /\ offset'[x] = offset[x]
        /\ UNCHANGED <<buf, size, closed, init, out>>
    BY <1>6 DEF Reset, Inv, TypeOK
  <2>2. Contents(e)' = <<>>
    BY <2>1 DEF Contents
  <2>3. \A x \in End : x # e => Contents(x)' = Contents(x)
    BY <2>1 DEF Contents
  <2>4. cs' = [cs EXCEPT ![e] = <<>>]
    BY <2>2, <2>3
  <2>5. Pipes!Discard(e)
    BY <2>1, <2>4 DEF Pipes!Discard
  <2> QED BY <2>5 DEF Pipes!Next, Pipes!End, End
<1>7. CASE Free(e)
  <2>1. CASE init[e]
    <3>1. \A x \in End : len'[x] = 0 /\ init'[x] = FALSE
      BY <1>7, <2>1 DEF Free
    <3>2. \A x \in End : Contents(x)' = <<>>
      BY <3>1 DEF Contents
    <3>3. cs' = [x \in End |-> <<>>]
      BY <3>2
    <3>4. init[1] /\ init'[1] = FALSE
      BY <2>1, <3>1 DEF Inv, Coupled, End
    <3>5. Pipes!Break
      BY <1>7, <3>3, <3>4 DEF Free, Pipes!Break, Pipes!End, End
    <3> QED BY <3>5 DEF Pipes!Next
  <2>2. CASE ~init[e]
    <3>1. \A x \in End : len[x] = 0
      BY <2>2 DEF Inv, Coupled, End
    <3>2. len' = len
      BY <1>7, <2>2 DEF Free
    <3>3. \A x \in End : Contents(x) = <<>> /\ Contents(x)' = <<>>
      BY <3>1, <3>2 DEF Contents
    <3>4. cs' = cs
      BY <3>3
    <3> QED BY <1>7, <2>2, <3>4 DEF Free, Pipes!vars
  <2> QED BY <2>1, <2>2
<1> QED
  BY <1>1, <1>2, <1>3, <1>4, <1>5, <1>6, <1>7 DEF Pipes!Next, Pipes!End, End

(* The pair implements two reliable byte pipes, for every pair of ring     *)
(* sizes, every size of call and every byte: nothing is lost, duplicated   *)
(* or reordered by the wrap-around of bio_read and bio_write.              *)
THEOREM PairImplementsPipes == Spec => ImplementsPipes
<1>1. Init => Pipes!Init
  <2> SUFFICES ASSUME Init PROVE Pipes!Init
    OBVIOUS
  <2>1. \A x \in End : Contents(x) = <<>>
    BY DEF Init, Contents
  <2> QED BY <2>1 DEF Init, Pipes!Init, Pipes!End, End, Pipes!Result, Result
<1>2. Inv /\ [Next]_vars => [Pipes!Next]_(Pipes!vars)
  <2> SUFFICES ASSUME Inv, [Next]_vars PROVE [Pipes!Next]_(Pipes!vars)
    OBVIOUS
  <2>1. CASE UNCHANGED vars
    BY <2>1 DEF vars, ring, Pipes!vars, Contents
  <2>2. ASSUME NEW e \in End, NEW d \in Chunk, Write(e, d)
        PROVE  Pipes!Next
    BY <2>2, WriteRefines DEF Pipes!Next, Pipes!End, End, Pipes!Chunk, Chunk
  <2>3. ASSUME NEW e \in End, NEW n \in 0..MaxIo, Read(e, n)
        PROVE  Pipes!Next
    BY <2>3, ReadRefines DEF Pipes!Next, Pipes!End, End
  <2> QED BY <2>1, <2>2, <2>3, OtherRefine DEF Next
<1> QED BY InvInit, InvNext, <1>1, <1>2, PTL DEF Spec, ImplementsPipes, Pipes!Spec
=============================================================================

---------------------------- MODULE Libcrypto_proofs ----------------------------
(***************************************************************************)
(* What the buffering BIO, the random numbers and the error queue promise, *)
(* for buffers, rings, processes and threads of any number and size.       *)
(*                                                                         *)
(* BIO buffer: the invariant accounts for every byte of a stream, delivered*)
(* or in a buffer or refused, in the order it was taken.                   *)
(*                                                                         *)
(* Random numbers (RandInv): a place, on a list or in the hands of a       *)
(* thread, whose buffer its process made itself has drawn every byte that  *)
(* is unused in it, nobody was given one of them, and no other such place  *)
(* has a buffer of the same draw.  A step moves buffers from place to place*)
(* (Rearranges), so one lemma, SlotsKeep, serves all steps.                *)
(*                                                                         *)
(* Error queue: Line is the list a ring stands for; each operation on the  *)
(* ring is one on the line.  What ERR_pop_to_mark pops is a recursive      *)
(* function, which is shown to be the one that Closed describes.           *)
(***************************************************************************)
EXTENDS RandBuffers, ErrorQueue, BioBuffer, FiniteSetTheorems, SequenceTheorems,
  WellFoundedInduction, TLAPS

(* The least element of a set of numbers.                                  *)
LEMMA LeastElement ==
  ASSUME NEW T \in SUBSET Nat, T # {}
  PROVE  \E x \in T : \A y \in T : x <= y
<1>. DEFINE R == {p \in Nat \X Nat : p[1] < p[2]}
<1>1. R = OpToRel(<, Nat)
  BY DEF OpToRel
<1>2. IsWellFoundedOn(R, Nat)
  BY <1>1, NatLessThanWellFounded
<1>. HIDE DEF R
<1>3. PICK x \in T : \A y \in T : ~(<<y, x>> \in R)
  BY <1>2, WFMin
<1>4. ASSUME NEW y \in T, ~(x <= y) PROVE FALSE
  <2>1. x \in Nat /\ y \in Nat /\ y < x
    BY <1>4
  <2>2. <<y, x>> \in R
    BY <2>1 DEF R
  <2>. QED BY <1>3, <2>2
<1>. QED BY <1>4

------------------------------------------------------------------------------
(* A part of a stream is put on after the one it follows.                  *)
LEMMA PositionsAreBytes ==
  ASSUME NEW a \in Nat, NEW n \in Nat
  PROVE  Positions(a, n) \in Seq(Nat) /\ Len(Positions(a, n)) = n
BY DEF Positions

LEMMA PositionsFollow ==
  ASSUME NEW a \in Nat, NEW n \in Nat, NEW m \in Nat
  PROVE  Positions(a, n) \o Positions(a + n, m) = Positions(a, n + m)
<1>. DEFINE s == Positions(a, n)
            t == Positions(a + n, m)
<1>1. /\ s \in Seq(Nat) /\ Len(s) = n /\ t \in Seq(Nat) /\ Len(t) = m
      /\ \A i \in 1..n : s[i] = a + i
      /\ \A i \in 1..m : t[i] = a + n + i
  BY DEF Positions
<1>. HIDE DEF s, t
<1>2. /\ s \o t \in Seq(Nat) /\ Len(s \o t) = n + m
      /\ \A i \in 1..n + m : (s \o t)[i] = IF i <= n THEN s[i] ELSE t[i - n]
  BY <1>1, ConcatProperties
<1>3. \A i \in 1..n + m : (s \o t)[i] = a + i
  BY <1>1, <1>2
<1>4. s \o t = [i \in 1..n + m |-> a + i]
  <2>. DEFINE u == s \o t
  <2>1. u \in [1..n + m -> Nat]
    BY <1>2, LenProperties
  <2>2. \A i \in 1..n + m : u[i] = a + i
    BY <1>3
  <2>. HIDE DEF u
  <2>3. u = [i \in 1..n + m |-> a + i]
    BY <2>1, <2>2
  <2>. QED BY <2>3 DEF u
<1>. QED BY <1>4 DEF s, t, Positions

LEMMA Associates ==
  ASSUME NEW s \in Seq(Nat), NEW t \in Seq(Nat), NEW u \in Seq(Nat)
  PROVE  (s \o t) \o u = s \o (t \o u)
BY ConcatAssociative

(* What is taken from the front and what is left is the whole.             *)
LEMMA CutAndLeft ==
  ASSUME NEW s \in Seq(Nat), NEW r \in 0..Len(s)
  PROVE  /\ Upto(s, r) \in Seq(Nat) /\ Len(Upto(s, r)) = r
         /\ From(s, r) \in Seq(Nat) /\ Len(From(s, r)) = Len(s) - r
         /\ Upto(s, r) \o From(s, r) = s
<1>1. Upto(s, r) \in Seq(Nat) /\ Len(Upto(s, r)) = r
  BY SubSeqProperties DEF Upto
<1>2. From(s, r) \in Seq(Nat) /\ Len(From(s, r)) = Len(s) - r
  BY SubSeqProperties DEF From
<1>3. Upto(s, r) \o From(s, r) = s
  <2>1. 1 \in 1..Len(s) + 1 /\ r \in 1 - 1..Len(s) /\ Len(s) \in r..Len(s)
    OBVIOUS
  <2>2. SubSeq(s, 1, r) \o SubSeq(s, r + 1, Len(s)) = SubSeq(s, 1, Len(s))
    BY <2>1, ConcatAdjacentSubSeq
  <2>3. SubSeq(s, 1, Len(s)) = s
    BY SubSeqFull
  <2>. QED BY <2>2, <2>3 DEF Upto, From
<1>. QED BY <1>1, <1>2, <1>3

LEMMA PositionsCut ==
  ASSUME NEW a \in Nat, NEW n \in Nat, NEW r \in 0..n
  PROVE  /\ Upto(Positions(a, n), r) = Positions(a, r)
         /\ From(Positions(a, n), r) = Positions(a + r, n - r)
<1>. DEFINE s == Positions(a, n)
<1>1. s \in Seq(Nat) /\ Len(s) = n /\ \A i \in 1..n : s[i] = a + i
  BY DEF Positions
<1>. HIDE DEF s
<1>2. /\ Upto(s, r) \in Seq(Nat) /\ Len(Upto(s, r)) = r
      /\ \A i \in 1..r : Upto(s, r)[i] = s[i]
  BY <1>1, SubSeqProperties DEF Upto
<1>3. /\ From(s, r) \in Seq(Nat) /\ Len(From(s, r)) = n - r
      /\ \A i \in 1..n - r : From(s, r)[i] = s[r + i]
  <2>1. /\ s \in Seq(Nat) /\ Len(s) = n /\ n \in Nat /\ r \in Nat /\ r <= n
        /\ r + 1 \in 1..Len(s) + 1 /\ n \in r + 1 - 1..Len(s)
    BY <1>1
  <2>2. From(s, r) = SubSeq(s, r + 1, n)
    BY <1>1 DEF From
  <2>3. /\ SubSeq(s, r + 1, n) \in Seq(Nat)
        /\ Len(SubSeq(s, r + 1, n)) = IF r + 1 <= n THEN n - (r + 1) + 1 ELSE 0
        /\ \A i \in 1..n - (r + 1) + 1 : SubSeq(s, r + 1, n)[i] = s[r + 1 + i - 1]
    BY <2>1, SubSeqProperties
  <2>4. n - (r + 1) + 1 = n - r /\ \A i \in 1..n - r : r + 1 + i - 1 = r + i
    OBVIOUS
  <2>5. /\ SubSeq(s, r + 1, n) \in Seq(Nat) /\ Len(SubSeq(s, r + 1, n)) = n - r
        /\ \A i \in 1..n - r : SubSeq(s, r + 1, n)[i] = s[r + i]
    BY <2>1, <2>3, <2>4
  <2>. QED BY <2>2, <2>5
<1>4. Upto(s, r) = [i \in 1..r |-> a + i]
  BY <1>1, <1>2
<1>5. From(s, r) = [i \in 1..n - r |-> a + r + i]
  <2>1. \A i \in 1..n - r : From(s, r)[i] = a + r + i
    BY <1>1, <1>3
  <2>. QED BY <1>3, <2>1
<1>. QED BY <1>4, <1>5 DEF s, Positions

------------------------------------------------------------------------------
OutTypes ==
  /\ obuf \in Seq(Nat) /\ sent \in Seq(Nat) /\ accepted \in Nat
  /\ obufOff \in Nat /\ obufSize \in Nat /\ obufOff + Len(obuf) <= obufSize

(* What was sent and what is in the buffer is a stream of that length.     *)
Taken(n) == sent \o obuf = Positions(0, n)

(* A write that is under way goes on where what was taken ends; past the   *)
(* buffer only when that is empty.                                         *)
Writes(at, num, n) ==
  /\ writing = [at |-> at, rest |-> Positions(accepted + num, n), num |-> num]
  /\ Taken(accepted + num)
  /\ at = "direct" => obuf = <<>> /\ obufOff = 0

OutInv ==
  /\ OutTypes
  /\ \/ writing \in {NoCall, [at |-> "ctrl"]} /\ Taken(accepted)
     \/ \E at \in {"flush", "direct"}, num \in Nat, n \in Nat : Writes(at, num, n)

(* Bytes that follow what was taken are added to the buffer.               *)
LEMMA Adds1 ==
  ASSUME OutTypes, NEW a \in Nat, NEW n \in Nat, Taken(a)
  PROVE  /\ sent \o (obuf \o Positions(a, n)) = Positions(0, a + n)
         /\ obuf \o Positions(a, n) \in Seq(Nat)
         /\ Len(obuf \o Positions(a, n)) = Len(obuf) + n
<1>. DEFINE p == Positions(a, n)
<1>1. p \in Seq(Nat) /\ Len(p) = n
  BY PositionsAreBytes
<1>2. Positions(0, a) \o p = Positions(0, a + n)
  <2>1. Positions(0, a) \o Positions(0 + a, n) = Positions(0, a + n)
    BY PositionsFollow
  <2>2. 0 + a = a
    OBVIOUS
  <2>. QED BY <2>1, <2>2
<1>. HIDE DEF p
<1>3. obuf \in Seq(Nat) /\ sent \in Seq(Nat)
  BY DEF OutTypes
<1>4. sent \o (obuf \o p) = (sent \o obuf) \o p
  BY <1>1, <1>3, Associates
<1>5. obuf \o p \in Seq(Nat) /\ Len(obuf \o p) = Len(obuf) + n
  BY <1>1, <1>3, ConcatProperties
<1>. QED BY <1>2, <1>4, <1>5 DEF Taken, p

LEMMA EnterKeeps ==
  ASSUME OutTypes, NEW num \in Nat, NEW n \in Nat, Taken(accepted + num),
         Enter(Positions(accepted + num, n), num)
  PROVE  OutInv'
<1>. DEFINE rest == Positions(accepted + num, n)
            a == accepted + num
<1>1. /\ a \in Nat /\ accepted \in Nat /\ Room \in Nat /\ obufSize \in Nat /\ obufOff \in Nat
      /\ obuf \in Seq(Nat) /\ sent \in Seq(Nat) /\ Len(obuf) \in Nat
      /\ Room = obufSize - (obufOff + Len(obuf))
      /\ obufSize' = obufSize /\ sent' = sent
  BY DEF OutTypes, Room, Enter
<1>2. rest \in Seq(Nat) /\ Len(rest) = n
  BY <1>1, PositionsAreBytes
<1>. HIDE DEF rest
<1>3. CASE Room >= n
  <2>1. /\ obuf' = obuf \o rest /\ writing' = NoCall /\ accepted' = accepted + (num + n)
        /\ obufOff' = obufOff
    BY <1>2, <1>3 DEF Enter, ReturnWrite, rest
  <2>2. sent \o (obuf \o rest) = Positions(0, a + n)
        /\ obuf \o rest \in Seq(Nat) /\ Len(obuf \o rest) = Len(obuf) + n
    BY <1>1, Adds1 DEF rest
  <2>3. accepted' = a + n /\ accepted' \in Nat
    BY <2>1, <1>1
  <2>4. obufOff' + Len(obuf') <= obufSize'
    BY <1>1, <1>3, <2>1, <2>2
  <2>5. OutTypes'
    BY <1>1, <2>1, <2>2, <2>3, <2>4 DEF OutTypes
  <2>6. Taken(accepted)'
    BY <1>1, <2>1, <2>2, <2>3 DEF Taken
  <2>. QED BY <2>1, <2>5, <2>6 DEF OutInv
<1>4. CASE ~(Room >= n) /\ obuf # <<>>
  <2>0. PICK m \in Nat : m = Room
    BY <1>1
  <2>1. /\ obuf' = obuf \o Upto(rest, m) /\ obufOff' = obufOff /\ accepted' = accepted
        /\ writing' = [at |-> "flush", rest |-> From(rest, m), num |-> num + m]
    BY <1>2, <1>4, <2>0 DEF Enter, rest
  <2>2. m \in 0..n
    BY <1>1, <1>4, <2>0
  <2>3. /\ Upto(rest, m) = Positions(a, m)
        /\ From(rest, m) = Positions(a + m, n - m)
    BY <1>1, <2>2, PositionsCut DEF rest
  <2>4. sent \o (obuf \o Positions(a, m)) = Positions(0, a + m)
        /\ obuf \o Positions(a, m) \in Seq(Nat)
        /\ Len(obuf \o Positions(a, m)) = Len(obuf) + m
    BY <1>1, <2>0, Adds1
  <2>5. OutTypes'
    <3>1. obufOff' + Len(obuf') <= obufSize'
      BY <1>1, <2>0, <2>1, <2>3, <2>4
    <3>. QED BY <3>1, <1>1, <2>1, <2>3, <2>4 DEF OutTypes
  <2>6. num + m \in Nat /\ n - m \in Nat /\ accepted' + (num + m) = a + m
    BY <1>1, <2>1, <2>2
  <2>7. Writes("flush", num + m, n - m)'
    <3>1. writing' = [at |-> "flush", rest |-> Positions(accepted' + (num + m), n - m),
                      num |-> num + m]
      BY <2>1, <2>3, <2>6
    <3>2. sent' \o obuf' = Positions(0, accepted' + (num + m))
      BY <1>1, <2>1, <2>3, <2>4, <2>6
    <3>. QED BY <3>1, <3>2 DEF Writes, Taken
  <2>8. \E at \in {"flush", "direct"}, j \in Nat, k \in Nat : Writes(at, j, k)'
    BY <2>6, <2>7
  <2>. QED BY <2>5, <2>8 DEF OutInv
<1>5. CASE ~(Room >= n) /\ obuf = <<>>
  <2>1. /\ obufOff' = 0 /\ obuf' = obuf /\ accepted' = accepted
        /\ writing' = [at |-> "direct", rest |-> rest, num |-> num]
    BY <1>2, <1>5 DEF Enter, rest
  <2>2. OutTypes'
    <3>1. obufOff' + Len(obuf') <= obufSize'
      BY <1>1, <2>1
    <3>. QED BY <3>1, <1>1, <2>1 DEF OutTypes
  <2>3. Writes("direct", num, n)'
    BY <1>1, <1>5, <2>1 DEF Writes, Taken, rest
  <2>. QED BY <2>2, <2>3 DEF OutInv
<1>. QED BY <1>3, <1>4, <1>5

LEMMA WriteKeeps ==
  ASSUME OutInv, NEW n \in Nat, BufferWrite(n)
  PROVE  OutInv'
<1>1. writing = NoCall /\ Enter(Positions(accepted, n), 0)
  BY DEF BufferWrite
<1>2. Taken(accepted)
  BY <1>1 DEF OutInv, Writes, NoCall
<1>3. OutTypes /\ accepted + 0 = accepted
  BY DEF OutInv, OutTypes
<1>. QED BY <1>1, <1>2, <1>3, EnterKeeps

LEMMA RestKeeps ==
  ASSUME OutInv, RestFits
  PROVE  OutInv'
<1>1. writing.at = "direct" /\ Enter(writing.rest, writing.num)
  BY DEF RestFits
<1>2. PICK at \in {"flush", "direct"}, num \in Nat, n \in Nat : Writes(at, num, n)
  BY <1>1 DEF OutInv, NoCall
<1>3. /\ writing.rest = Positions(accepted + num, n) /\ writing.num = num
      /\ Taken(accepted + num)
  BY <1>2 DEF Writes
<1>. QED BY <1>1, <1>3, EnterKeeps DEF OutInv

LEMMA FailKeeps ==
  ASSUME OutInv, NextFails
  PROVE  OutInv'
<1>1. PICK at \in {"flush", "direct"}, num \in Nat, n \in Nat : Writes(at, num, n)
  BY DEF OutInv, NoCall, NextFails
<1>2. writing' = NoCall /\ accepted' = accepted + num
      /\ UNCHANGED <<obuf, obufOff, obufSize, sent>>
  BY <1>1 DEF NextFails, ReturnWrite, Writes
<1>3. Taken(accepted)' /\ OutTypes'
  BY <1>1, <1>2 DEF Writes, Taken, OutInv, OutTypes
<1>. QED BY <1>2, <1>3 DEF OutInv

(* Taking from the buffer moves bytes from it to what was sent.            *)
LEMMA BufferMoves ==
  ASSUME OutTypes, NEW r \in 0..Len(obuf), NEW a
  PROVE  /\ sent \o Upto(obuf, r) \in Seq(Nat) /\ From(obuf, r) \in Seq(Nat)
         /\ Len(From(obuf, r)) = Len(obuf) - r
         /\ Taken(a) => (sent \o Upto(obuf, r)) \o From(obuf, r) = Positions(0, a)
<1>1. obuf \in Seq(Nat) /\ sent \in Seq(Nat)
  BY DEF OutTypes
<1>2. /\ Upto(obuf, r) \in Seq(Nat) /\ From(obuf, r) \in Seq(Nat)
      /\ Len(From(obuf, r)) = Len(obuf) - r
      /\ Upto(obuf, r) \o From(obuf, r) = obuf
  BY <1>1, CutAndLeft
<1>3. (sent \o Upto(obuf, r)) \o From(obuf, r) = sent \o (Upto(obuf, r) \o From(obuf, r))
  BY <1>1, <1>2, Associates
<1>4. sent \o Upto(obuf, r) \in Seq(Nat)
  BY <1>1, <1>2, ConcatProperties
<1>. QED BY <1>2, <1>3, <1>4 DEF Taken

LEMMA TakesBufferKeeps ==
  ASSUME OutInv, NEW r \in Nat, NextTakesBuffer(r)
  PROVE  OutInv'
<1>1. /\ writing.at \in {"flush", "ctrl"} /\ r \in 1..Len(obuf) /\ r \in 0..Len(obuf)
      /\ sent' = sent \o Upto(obuf, r) /\ obuf' = From(obuf, r)
      /\ obufSize' = obufSize /\ accepted' = accepted
  BY DEF NextTakesBuffer, ConsumedOff, OutInv, OutTypes
<1>2. /\ obufOff' = IF r < Len(obuf) THEN obufOff + r ELSE 0
      /\ writing' = IF r < Len(obuf) THEN writing
                    ELSE IF writing.at = "ctrl" THEN NoCall
                    ELSE [writing EXCEPT !.at = "direct"]
  BY DEF NextTakesBuffer
<1>3. /\ obufOff \in Nat /\ obufSize \in Nat /\ Len(obuf) \in Nat /\ accepted \in Nat
      /\ obufOff + Len(obuf) <= obufSize /\ OutTypes
  BY DEF OutInv, OutTypes
<1>4. /\ sent' \in Seq(Nat) /\ obuf' \in Seq(Nat) /\ Len(obuf') = Len(obuf) - r
      /\ \A a : Taken(a) => sent' \o obuf' = Positions(0, a)
  BY <1>1, <1>3, BufferMoves
<1>5. OutTypes'
  BY <1>1, <1>2, <1>3, <1>4, SMTT(40) DEF OutTypes
<1>6. CASE writing = [at |-> "ctrl"]
  <2>1. Taken(accepted)
    BY <1>6 DEF OutInv, Writes
  <2>2. Taken(accepted)'
    BY <1>1, <1>4, <2>1 DEF Taken
  <2>3. writing' \in {NoCall, [at |-> "ctrl"]}
    BY <1>2, <1>6
  <2>. QED BY <1>5, <2>2, <2>3 DEF OutInv
<1>7. CASE writing # [at |-> "ctrl"]
  <2>1. PICK at \in {"flush", "direct"}, num \in Nat, n \in Nat : Writes(at, num, n)
    BY <1>1, <1>7 DEF OutInv, NoCall
  <2>2. writing = [at |-> "flush", rest |-> Positions(accepted + num, n), num |-> num]
        /\ Taken(accepted + num)
    BY <1>1, <2>1 DEF Writes
  <2>3. Taken(accepted + num)'
    BY <1>1, <1>4, <2>2 DEF Taken
  <2>4. CASE r < Len(obuf)
    <3>1. Writes("flush", num, n)'
      BY <2>2, <2>3, <2>4, <1>1, <1>2 DEF Writes
    <3>. QED BY <3>1, <1>5 DEF OutInv
  <2>5. CASE ~(r < Len(obuf))
    <3>1. writing' = [at |-> "direct", rest |-> Positions(accepted + num, n), num |-> num]
      BY <2>2, <2>5, <1>2
    <3>2. Len(obuf') = 0 /\ obufOff' = 0
      BY <2>5, <1>1, <1>2, <1>3, <1>4
    <3>3. obuf' = <<>>
      BY <3>2, <1>4, EmptySeq
    <3>4. Writes("direct", num, n)'
      BY <3>1, <3>2, <3>3, <2>3, <1>1 DEF Writes
    <3>. QED BY <3>4, <1>5 DEF OutInv
  <2>. QED BY <2>4, <2>5
<1>. QED BY <1>6, <1>7

LEMMA TakesDirectKeeps ==
  ASSUME OutInv, NEW r \in Nat, NextTakesDirect(r)
  PROVE  OutInv'
<1>1. PICK at \in {"flush", "direct"}, num \in Nat, n \in Nat : Writes(at, num, n)
  BY DEF OutInv, NoCall, NextTakesDirect
<1>. DEFINE a == accepted + num
<1>2. /\ writing = [at |-> "direct", rest |-> Positions(a, n), num |-> num]
      /\ sent \o obuf = Positions(0, a) /\ obuf = <<>> /\ obufOff = 0
  BY <1>1 DEF Writes, NextTakesDirect, Taken
<1>3. /\ a \in Nat /\ accepted \in Nat /\ obufSize \in Nat /\ sent \in Seq(Nat)
  BY DEF OutInv, OutTypes
<1>4. sent = Positions(0, a)
  BY <1>2, <1>3, ConcatEmptySeq
<1>5. Len(Positions(a, n)) = n
  BY <1>3, PositionsAreBytes
<1>6. /\ r \in 1..n /\ r \in 0..n /\ sent' = sent \o Upto(Positions(a, n), r)
      /\ UNCHANGED <<obuf, obufOff, obufSize>>
      /\ IF r = n THEN ReturnWrite(num + r)
         ELSE /\ writing' = [writing EXCEPT !.rest = From(@, r), !.num = @ + r]
              /\ UNCHANGED accepted
  BY <1>2, <1>5 DEF NextTakesDirect
<1>7. /\ Upto(Positions(a, n), r) = Positions(a, r)
      /\ From(Positions(a, n), r) = Positions(a + r, n - r)
  BY <1>3, <1>6, PositionsCut
<1>8. sent' = Positions(0, a + r) /\ sent' \in Seq(Nat)
  <2>1. Positions(0, a) \o Positions(0 + a, r) = Positions(0, a + r)
    BY <1>3, PositionsFollow
  <2>2. 0 + a = a /\ a + r \in Nat
    BY <1>3
  <2>3. Positions(0, a + r) \in Seq(Nat)
    BY <2>2, PositionsAreBytes
  <2>. QED BY <2>1, <2>2, <2>3, <1>4, <1>6, <1>7
<1>9. sent' \o obuf' = Positions(0, a + r)
  BY <1>2, <1>6, <1>8, ConcatEmptySeq
<1>10. CASE r = n
  <2>1. writing' = NoCall /\ accepted' = accepted + (num + r)
    BY <1>6, <1>10 DEF ReturnWrite
  <2>2. accepted' = a + r /\ accepted' \in Nat
    BY <2>1, <1>3
  <2>3. Taken(accepted)'
    BY <2>2, <1>9 DEF Taken
  <2>4. OutTypes'
    BY <2>2, <1>2, <1>3, <1>6, <1>8 DEF OutTypes, OutInv
  <2>. QED BY <2>1, <2>3, <2>4 DEF OutInv
<1>11. CASE r # n
  <2>1. /\ writing' = [writing EXCEPT !.rest = From(@, r), !.num = @ + r]
        /\ accepted' = accepted
    BY <1>6, <1>11
  <2>2. writing' = [at |-> "direct", rest |-> Positions(a + r, n - r), num |-> num + r]
    BY <2>1, <1>2, <1>7
  <2>3. accepted' + (num + r) = a + r /\ num + r \in Nat /\ n - r \in Nat
    BY <2>1, <1>3, <1>6
  <2>4. Writes("direct", num + r, n - r)'
    BY <2>2, <2>3, <1>2, <1>6, <1>9 DEF Writes, Taken
  <2>5. OutTypes'
    BY <2>1, <1>2, <1>3, <1>6, <1>8 DEF OutTypes, OutInv
  <2>. QED BY <2>3, <2>4, <2>5 DEF OutInv
<1>. QED BY <1>10, <1>11

LEMMA FlushKeeps ==
  ASSUME OutInv, BufferFlush \/ FlushFails
  PROVE  OutInv'
<1>1. /\ UNCHANGED <<obuf, obufSize, accepted, sent>>
      /\ writing \in {NoCall, [at |-> "ctrl"]} /\ writing' \in {NoCall, [at |-> "ctrl"]}
      /\ \/ obufOff' = obufOff
         \/ obuf = <<>> /\ obufOff' = 0
  BY DEF BufferFlush, FlushFails, OutInv, NoCall, Writes
<1>2. Taken(accepted)'
  BY <1>1 DEF OutInv, Taken, Writes, NoCall
<1>3. OutTypes'
  BY <1>1 DEF OutInv, OutTypes
<1>. QED BY <1>1, <1>2, <1>3 DEF OutInv

------------------------------------------------------------------------------
(* What was delivered and what is in the buffer is the stream received; a  *)
(* read that goes to the next BIO has emptied the buffer.                  *)
Reads(at, want, line) ==
  /\ reading = [at |-> at, want |-> want, line |-> line]
  /\ at # "filled" => ibuf = <<>>

InInv ==
  /\ ibuf \in Seq(Nat) /\ delivered \in Seq(Nat) /\ received \in Nat
  /\ ibufSize \in Nat /\ Len(ibuf) <= ibufSize
  /\ delivered \o ibuf = Positions(0, received)
  /\ \/ reading = NoCall
     \/ \E at, want, line : at \in {"fill", "direct", "filled"} /\ want \in Nat /\ Reads(at, want, line)

LEMMA WantedIsThere ==
  ASSUME ibuf \in Seq(Nat), NEW want \in Nat, NEW line
  PROVE  /\ Wanted(want, line) \in 0..Len(ibuf) /\ Wanted(want, line) <= want
         /\ ~Satisfied(want, line, Wanted(want, line)) => Wanted(want, line) = Len(ibuf)
<1>. DEFINE n == Smaller(want, Len(ibuf))
            ends == {i \in 1..n : ibuf[i] \in LineEnds}
<1>1. /\ n \in Nat /\ n <= want /\ n <= Len(ibuf) /\ Len(ibuf) \in Nat
      /\ n = want \/ n = Len(ibuf)
  BY DEF Smaller
<1>2. Wanted(want, line) = IF line /\ ends # {} THEN CHOOSE i \in ends : \A j \in ends : i <= j ELSE n
  BY DEF Wanted
<1>3. ends \subseteq Nat /\ \A i \in ends : i \in 1..n /\ ibuf[i] \in LineEnds
  BY <1>1
<1>. HIDE DEF n, ends
<1>4. CASE line /\ ends # {}
  <2>1. Wanted(want, line) \in ends
    <3>1. \E i \in ends : \A j \in ends : i <= j
      BY <1>3, <1>4, LeastElement
    <3>2. Wanted(want, line) = CHOOSE i \in ends : \A j \in ends : i <= j
      BY <1>2, <1>4
    <3>. QED BY <3>1, <3>2
  <2>2. Wanted(want, line) \in 1..n /\ ibuf[Wanted(want, line)] \in LineEnds
    BY <2>1, <1>3
  <2>3. Wanted(want, line) \in 0..Len(ibuf) /\ Wanted(want, line) <= want
    BY <2>2, <1>1
  <2>4. Satisfied(want, line, Wanted(want, line))
    <3>1. Wanted(want, line) > 0 /\ ibuf[Wanted(want, line)] \in LineEnds
      BY <2>2, <1>1
    <3>. QED BY <3>1, <1>4, Zenon DEF Satisfied
  <2>. QED BY <2>3, <2>4
<1>5. CASE ~(line /\ ends # {})
  <2>1. Wanted(want, line) = n
    BY <1>2, <1>5
  <2>. QED BY <2>1, <1>1 DEF Satisfied
<1>. QED BY <1>4, <1>5

LEMMA ConsumeKeeps ==
  ASSUME InInv, NEW want \in Nat, NEW line, Consume(want, line)
  PROVE  InInv'
<1>1. /\ ibuf \in Seq(Nat) /\ delivered \in Seq(Nat) /\ received \in Nat
      /\ ibufSize \in Nat /\ Len(ibuf) <= ibufSize /\ Len(ibuf) \in Nat
      /\ delivered \o ibuf = Positions(0, received)
  BY DEF InInv
<1>2. PICK n \in Nat : /\ n = Wanted(want, line) /\ n \in 0..Len(ibuf) /\ n <= want
                       /\ ~Satisfied(want, line, n) => n = Len(ibuf)
  BY <1>1, WantedIsThere
<1>3. /\ delivered' = delivered \o Upto(ibuf, n) /\ ibuf' = From(ibuf, n)
      /\ reading' = IF Satisfied(want, line, n) THEN NoCall
                    ELSE [at |-> Source(want - n, line), want |-> want - n, line |-> line]
      /\ UNCHANGED <<ibufSize, received>>
  BY <1>2 DEF Consume, Left
<1>4. /\ Upto(ibuf, n) \in Seq(Nat) /\ ibuf' \in Seq(Nat) /\ Len(ibuf') = Len(ibuf) - n
      /\ Upto(ibuf, n) \o ibuf' = ibuf
  BY <1>1, <1>2, <1>3, CutAndLeft
<1>5. delivered' \in Seq(Nat)
  BY <1>1, <1>3, <1>4, ConcatProperties
<1>6. delivered' \o ibuf' = Positions(0, received')
  <2>1. (delivered \o Upto(ibuf, n)) \o ibuf' = delivered \o (Upto(ibuf, n) \o ibuf')
    BY <1>1, <1>4, Associates
  <2>. QED BY <2>1, <1>1, <1>3, <1>4
<1>7. \/ reading' = NoCall
      \/ \E at, w, l : at \in {"fill", "direct", "filled"} /\ w \in Nat /\ Reads(at, w, l)'
  <2>1. CASE Satisfied(want, line, n)
    BY <2>1, <1>3
  <2>2. CASE ~Satisfied(want, line, n)
    <3>1. ibuf' = <<>>
      BY <2>2, <1>1, <1>2, <1>4, EmptySeq
    <3>2. Source(want - n, line) \in {"fill", "direct", "filled"} /\ want - n \in Nat
      BY <1>2 DEF Source
    <3>3. PICK at \in {"fill", "direct", "filled"}, w \in Nat :
            at = Source(want - n, line) /\ w = want - n
      BY <3>2
    <3>4. reading' = [at |-> at, want |-> w, line |-> line]
      BY <2>2, <1>3, <3>3
    <3>5. Reads(at, w, line)'
      BY <3>1, <3>4 DEF Reads
    <3>. QED BY <3>5
  <2>. QED BY <2>1, <2>2
<1>8. ibufSize' \in Nat /\ Len(ibuf') <= ibufSize'
  BY <1>1, <1>2, <1>3, <1>4
<1>. QED BY <1>1, <1>3, <1>4, <1>5, <1>6, <1>7, <1>8 DEF InInv

LEMMA TakeMoreKeeps ==
  ASSUME InInv, TakeMore
  PROVE  InInv'
<1>1. PICK at, want, line : at \in {"fill", "direct", "filled"} /\ want \in Nat /\ Reads(at, want, line)
  BY DEF InInv, TakeMore, NoCall
<1>2. Consume(want, line)
  BY <1>1 DEF TakeMore, Reads
<1>. QED BY <1>1, <1>2, ConsumeKeeps

LEMMA FillsKeeps ==
  ASSUME InInv, NEW r \in Nat, NextFills(r)
  PROVE  InInv'
<1>1. PICK want, line : /\ want \in Nat
                         /\ reading = [at |-> "fill", want |-> want, line |-> line]
                         /\ ibuf = <<>>
  BY DEF InInv, NextFills, NoCall, Reads
<1>2. /\ r \in 1..ibufSize /\ received' = received + r /\ ibuf' = Positions(received, r)
      /\ reading' = [at |-> "filled", want |-> want, line |-> line]
      /\ UNCHANGED <<ibufSize, delivered>>
  BY <1>1 DEF NextFills
<1>3. received \in Nat /\ delivered \in Seq(Nat) /\ ibufSize \in Nat
      /\ delivered \o ibuf = Positions(0, received)
  BY DEF InInv
<1>4. delivered = Positions(0, received)
  BY <1>1, <1>3, ConcatEmptySeq
<1>5. delivered' \o ibuf' = Positions(0, received')
  <2>1. Positions(0, received) \o Positions(0 + received, r) = Positions(0, received + r)
    BY <1>3, PositionsFollow
  <2>2. 0 + received = received
    BY <1>3
  <2>. QED BY <2>1, <2>2, <1>2, <1>4
<1>6. ibuf' \in Seq(Nat) /\ Len(ibuf') = r
  BY <1>2, <1>3, PositionsAreBytes
<1>7. Reads("filled", want, line)'
  BY <1>2 DEF Reads
<1>8. received' \in Nat /\ Len(ibuf') <= ibufSize'
  BY <1>2, <1>3, <1>6
<1>9. \E at, w, l : at \in {"fill", "direct", "filled"} /\ w \in Nat /\ Reads(at, w, l)'
  BY <1>1, <1>7
<1>. QED BY <1>2, <1>3, <1>5, <1>6, <1>8, <1>9 DEF InInv

LEMMA GivesKeeps ==
  ASSUME InInv, NEW r \in Nat, NextGives(r)
  PROVE  InInv'
<1>1. PICK want, line : /\ want \in Nat
                         /\ reading = [at |-> "direct", want |-> want, line |-> line]
                         /\ ibuf = <<>>
  BY DEF InInv, NextGives, NoCall, Reads
<1>2. /\ r \in 1..want /\ received' = received + r
      /\ delivered' = delivered \o Positions(received, r)
      /\ reading' = IF r = want THEN NoCall
                    ELSE [at |-> "direct", want |-> want - r, line |-> line]
      /\ UNCHANGED <<ibufSize, ibuf>>
  BY <1>1 DEF NextGives
<1>3. received \in Nat /\ delivered \in Seq(Nat) /\ ibufSize \in Nat
      /\ delivered \o ibuf = Positions(0, received)
  BY DEF InInv
<1>4. delivered = Positions(0, received)
  BY <1>1, <1>3, ConcatEmptySeq
<1>5. delivered' = Positions(0, received') /\ delivered' \in Seq(Nat) /\ received' \in Nat
  <2>1. Positions(0, received) \o Positions(0 + received, r) = Positions(0, received + r)
    BY <1>3, PositionsFollow
  <2>2. 0 + received = received /\ received + r \in Nat
    BY <1>3
  <2>3. Positions(0, received + r) \in Seq(Nat)
    BY <2>2, PositionsAreBytes
  <2>. QED BY <2>1, <2>2, <2>3, <1>2, <1>4
<1>6. delivered' \o ibuf' = Positions(0, received')
  BY <1>1, <1>2, <1>5, ConcatEmptySeq
<1>7. \/ reading' = NoCall
      \/ \E at, w, l : at \in {"fill", "direct", "filled"} /\ w \in Nat /\ Reads(at, w, l)'
  <2>1. CASE r = want
    BY <2>1, <1>2
  <2>2. CASE r # want
    <3>1. want - r \in Nat
      BY <1>1, <1>2
    <3>2. Reads("direct", want - r, line)'
      BY <2>2, <1>1, <1>2 DEF Reads
    <3>. QED BY <3>1, <3>2
  <2>. QED BY <2>1, <2>2
<1>. QED BY <1>1, <1>2, <1>3, <1>5, <1>6, <1>7 DEF InInv

LEMMA EmptyStreams == <<>> \o <<>> = Positions(0, 0)
<1>1. <<>> \o <<>> = <<>>
  BY ConcatEmptySeq, EmptySeq
<1>2. Positions(0, 0) = <<>>
  BY PositionsAreBytes, EmptySeq
<1>. QED BY <1>1, <1>2

LEMMA SizesArePositive == DefaultSize \in Nat /\ \A n \in OtherSizes : n \in Nat
BY BufferAssumption

LEMMA ClearKeeps ==
  ASSUME OutInv, InInv, Clear
  PROVE  OutInv' /\ InInv'
<1>1. /\ obuf' = <<>> /\ obufOff' = 0 /\ ibuf' = <<>> /\ accepted' = 0 /\ sent' = <<>>
      /\ received' = 0 /\ delivered' = <<>> /\ writing' = NoCall /\ reading' = NoCall
  BY DEF Clear
<1>2. obufSize' \in Nat /\ ibufSize' \in Nat
  <2>1. obufSize \in Nat /\ ibufSize \in Nat
    BY DEF OutInv, OutTypes, InInv
  <2>. QED BY <2>1, SizesArePositive DEF Clear, SetBufferSize, NewSize
<1>3. OutTypes'
  BY <1>1, <1>2 DEF OutTypes
<1>4. Taken(accepted)'
  BY <1>1, EmptyStreams DEF Taken
<1>5. OutInv'
  BY <1>1, <1>3, <1>4 DEF OutInv
<1>6. InInv'
  BY <1>1, <1>2, EmptyStreams DEF InInv
<1>. QED BY <1>5, <1>6

LEMMA BufferInitInv == BufferInit => OutInv /\ InInv
<1>. SUFFICES ASSUME BufferInit PROVE OutInv /\ InInv
  OBVIOUS
<1>1. OutTypes /\ Taken(accepted)
  BY EmptyStreams, SizesArePositive DEF BufferInit, OutTypes, Taken
<1>2. OutInv
  BY <1>1 DEF OutInv, BufferInit
<1>3. InInv
  BY EmptyStreams, SizesArePositive DEF BufferInit, InInv
<1>. QED BY <1>2, <1>3

LEMMA OutStays == OutInv /\ UNCHANGED outVars => OutInv'
BY DEF OutInv, OutTypes, Taken, Writes, outVars

LEMMA InStays == InInv /\ UNCHANGED inVars => InInv'
BY DEF InInv, Reads, inVars

LEMMA BufferStep == OutInv /\ InInv /\ [BufferNext]_bufferVars => OutInv' /\ InInv'
<1>. SUFFICES ASSUME OutInv, InInv, [BufferNext]_bufferVars PROVE OutInv' /\ InInv'
  OBVIOUS
<1>0. 1..MaxCall \subseteq Nat /\ 1..MaxStream \subseteq Nat
  BY BufferAssumption
<1>1. ASSUME NEW n \in 1..MaxCall, BufferWrite(n) PROVE OutInv' /\ InInv'
  BY <1>0, <1>1, WriteKeeps, InStays DEF BufferWrite
<1>2. ASSUME NEW n \in 1..MaxCall, BufferRead(n) PROVE OutInv' /\ InInv'
  BY <1>0, <1>2, ConsumeKeeps, OutStays DEF BufferRead, Consume
<1>3. ASSUME NEW n \in 1..MaxCall, BufferGets(n) PROVE OutInv' /\ InInv'
  <2>1. n - 1 \in Nat
    BY <1>0, <1>3 DEF BufferGets
  <2>. QED BY <1>3, <2>1, ConsumeKeeps, OutStays DEF BufferGets, Consume
<1>4. ASSUME NEW r \in 1..MaxStream, NextTakesBuffer(r) PROVE OutInv' /\ InInv'
  BY <1>0, <1>4, TakesBufferKeeps, InStays DEF NextTakesBuffer
<1>5. ASSUME NEW r \in 1..MaxStream, NextTakesDirect(r) PROVE OutInv' /\ InInv'
  BY <1>0, <1>5, TakesDirectKeeps, InStays DEF NextTakesDirect
<1>6. ASSUME NEW r \in 1..MaxStream, NextFills(r) PROVE OutInv' /\ InInv'
  BY <1>0, <1>6, FillsKeeps, OutStays DEF NextFills
<1>7. ASSUME NEW r \in 1..MaxStream, NextGives(r) PROVE OutInv' /\ InInv'
  BY <1>0, <1>7, GivesKeeps, OutStays DEF NextGives
<1>8. CASE NextFails
  BY <1>8, FailKeeps, InStays DEF NextFails, inVars
<1>9. CASE RestFits
  BY <1>9, RestKeeps, InStays DEF RestFits
<1>10. CASE BufferFlush \/ FlushFails
  BY <1>10, FlushKeeps, InStays DEF BufferFlush, FlushFails, inVars
<1>11. CASE TakeMore
  BY <1>11, TakeMoreKeeps, OutStays DEF TakeMore, Consume
<1>12. CASE NextGivesNothing
  <2>1. reading' = NoCall /\ UNCHANGED <<ibuf, ibufSize, received, delivered, outVars>>
    BY <1>12 DEF NextGivesNothing
  <2>. QED BY <2>1, OutStays DEF InInv
<1>13. CASE Clear
  BY <1>13, ClearKeeps
<1>14. CASE UNCHANGED bufferVars
  BY <1>14, OutStays, InStays DEF bufferVars
<1>. QED BY <1>1, <1>2, <1>3, <1>4, <1>5, <1>6, <1>7, <1>8, <1>9, <1>10, <1>11, <1>12,
            <1>13, <1>14 DEF BufferNext

(* Neither stream through a buffering BIO loses, repeats or moves a byte,  *)
(* for every buffer size and every way the next BIO takes and gives what   *)
(* it is offered (buffer_write, buffer_read, buffer_gets).                 *)
THEOREM StreamsStayInOrder == BufferSpec => []StreamsAreInOrder
<1>1. OutInv /\ InInv => StreamsAreInOrder
  <2>1. OutInv => OutputIsInOrder
    <3>1. ASSUME OutInv, writing = NoCall PROVE Taken(accepted)
      BY <3>1 DEF OutInv, NoCall, Writes
    <3>. QED BY <3>1 DEF OutInv, OutTypes, OutputIsInOrder, Taken
  <2>2. InInv => InputIsInOrder
    BY DEF InInv, InputIsInOrder
  <2>. QED BY <2>1, <2>2 DEF StreamsAreInOrder
<1>. QED BY BufferInitInv, BufferStep, <1>1, PTL DEF BufferSpec

------------------------------------------------------------------------------
Buffers == [batch : Nat, used : 0..PerBuf, pid : Nat, ppid : Nat]

(* The places of a process where a buffer can be, on the list or in the    *)
(* hands of a thread, and those whose buffer is the process's own.         *)
Slot == ({0} \X (Nat \ {0})) \union ({1} \X RandThread)
Mine(p, x) ==
  \/ x[1] = 0 /\ x[2] \in 1..Len(list[p]) /\ list[p][x[2]].pid = p
  \/ x[1] = 1 /\ call[p][x[2]].at \in {"fill", "put"}

(* No byte is unused in both of two buffers.                               *)
Apart(b, c) == b.used = PerBuf \/ c.used = PerBuf \/ b.batch # c.batch

(* What is unused in a buffer was drawn and given to nobody.               *)
Unspent(b) ==
  b.used = PerBuf \/ (b.batch < draws /\ \A i \in b.used + 1..PerBuf : <<b.batch, i>> \notin given)

IsCall(p, c) ==
  \/ c = Idle
  \/ \E n \in Nat, pp \in Nat : c = [at |-> "retry", need |-> n, ppid |-> pp]
  \/ \E n \in Nat, b \in Buffers : b.pid = p /\ c = [at |-> "fill", need |-> n, buf |-> b]
  \/ \E b \in Buffers : b.pid = p /\ c = [at |-> "put", need |-> 0, buf |-> b]

RandTypes ==
  /\ list \in [Processes -> Seq(Buffers)]
  /\ parent \in [Processes -> Nat] /\ draws \in Nat /\ twice = FALSE
  /\ call = [p \in Processes |-> [t \in RandThread |-> call[p][t]]]
  /\ \A p \in Processes, t \in RandThread : IsCall(p, call[p][t])
GivenInv == given \subseteq {<<d, i>> : d \in 0..draws - 1, i \in Nat}

(* A buffer was filled for a process that exists, so that one that is made *)
(* by a fork owns nothing.                                                 *)
PidInv ==
  \A p \in Processes : \A j \in 1..Len(list[p]) :
    list[p][j].pid \in Processes /\ Alive(list[p][j].pid)

SlotInv ==
  /\ \A p \in Processes, x \in Slot : Mine(p, x) => Unspent(At(p, x))
  /\ \A p, q \in Processes : \A x, y \in Slot :
       Mine(p, x) /\ Mine(q, y) /\ <<p, x>> # <<q, y>> => Apart(At(p, x), At(q, y))

RandInv == RandTypes /\ GivenInv /\ PidInv /\ SlotInv
------------------------------------------------------------------------------
(* A step in one process p: what slot x has afterwards it has from slot    *)
(* F[x], less n bytes out of slot z, or, in slot w, is drawn anew, or has  *)
(* nothing.                                                                *)
Comes(p, F, x, z, n, w) ==
  \/ /\ Mine(p, F[x])
     /\ At(p, x)'.batch = At(p, F[x]).batch
     /\ At(p, x)'.used >= At(p, F[x]).used + (IF F[x] = z THEN n ELSE 0)
  \/ At(p, x)'.used = PerBuf
  \/ x = w /\ At(p, x)'.batch = draws /\ draws' = draws + 1
Rearranges(p, F, z, n, w) ==
  \A x \in Slot : Mine(p, x)' => At(p, x)' \in Buffers /\ Comes(p, F, x, z, n, w)
OneToOne(p, F) == \A x, y \in Slot : Mine(p, x)' /\ Mine(p, y)' /\ F[x] = F[y] => x = y
OthersStay(p) ==
  \A q \in Processes \ {p}, x \in Slot : Mine(q, x)' => Mine(q, x) /\ At(q, x)' = At(q, x)
(* The bytes given out come from the front of slot z.                      *)
GivesFrom(p, z, n) ==
  \/ n = 0 /\ given' = given
  \/ /\ n > 0 /\ Mine(p, z) /\ n <= PerBuf - At(p, z).used
     /\ given' = given \union Bytes(At(p, z), n)

PerBufIsNat == PerBuf \in Nat /\ PerBuf > 0

LEMMA PerBufs == PerBufIsNat
BY RandAssumption DEF PerBufIsNat

LEMMA SlotTypes ==
  ASSUME RandTypes, NEW p \in Processes, NEW x \in Slot, Mine(p, x)
  PROVE  At(p, x) \in Buffers /\ At(p, x).pid = p
<1>1. CASE x[1] = 0
  BY <1>1 DEF Mine, At, RandTypes
<1>2. CASE x[1] = 1
  <2>1. x[2] \in RandThread /\ call[p][x[2]].at \in {"fill", "put"}
    BY <1>2 DEF Slot, Mine
  <2>2. IsCall(p, call[p][x[2]])
    BY <2>1 DEF RandTypes
  <2>. DEFINE c == call[p][x[2]]
  <2>3. c.at \in {"fill", "put"} /\ IsCall(p, c)
    BY <2>1, <2>2
  <2>. HIDE DEF c
  <2>4. PICK b \in Buffers : b.pid = p /\ c.buf = b
    <3>1. CASE c = Idle
      BY <3>1, <2>3 DEF Idle
    <3>2. CASE \E n \in Nat, pp \in Nat : c = [at |-> "retry", need |-> n, ppid |-> pp]
      BY <3>2, <2>3
    <3>3. CASE \E n \in Nat, b \in Buffers : b.pid = p /\ c = [at |-> "fill", need |-> n, buf |-> b]
      BY <3>3
    <3>4. CASE \E b \in Buffers : b.pid = p /\ c = [at |-> "put", need |-> 0, buf |-> b]
      BY <3>4
    <3>. QED BY <3>1, <3>2, <3>3, <3>4, <2>3 DEF IsCall
  <2>. QED BY <2>1, <2>4, <1>2 DEF At, c
<1>. QED BY <1>1, <1>2 DEF Mine

LEMMA BufferFields ==
  ASSUME NEW b \in Buffers
  PROVE  b.batch \in Nat /\ b.used \in 0..PerBuf /\ b.pid \in Nat /\ b.ppid \in Nat
BY DEF Buffers

(* The bytes of a step were given to nobody before.                        *)
LEMMA BytesAreNew ==
  ASSUME RandInv, NEW p \in Processes, NEW z \in Slot, NEW n \in Nat, GivesFrom(p, z, n)
  PROVE  /\ n > 0 => Bytes(At(p, z), n) \intersect given = {}
         /\ given' \subseteq {<<d, i>> : d \in 0..draws - 1, i \in Nat}
<1>0. PerBuf \in Nat /\ draws \in Nat
  BY PerBufs DEF PerBufIsNat, RandInv, RandTypes
<1>1. CASE n = 0
  BY <1>1 DEF GivesFrom, RandInv, GivenInv
<1>2. CASE n # 0
  <2>1. Mine(p, z) /\ n <= PerBuf - At(p, z).used
    BY <1>2 DEF GivesFrom
  <2>2. PICK b \in Buffers : b = At(p, z)
    BY <2>1, SlotTypes DEF RandInv
  <2>3. b.batch \in Nat /\ b.used \in 0..PerBuf /\ b.used # PerBuf
    BY <2>1, <2>2, <1>0, <1>2, BufferFields
  <2>4. b.batch < draws /\ \A i \in b.used + 1..PerBuf : <<b.batch, i>> \notin given
    BY <2>1, <2>2, <2>3 DEF RandInv, SlotInv, Unspent
  <2>5. \A y \in Bytes(b, n) : \E i \in b.used + 1..PerBuf : i \in Nat /\ y = <<b.batch, i>>
    BY <2>1, <2>2, <2>3, <1>0 DEF Bytes
  <2>6. b.batch \in 0..draws - 1
    BY <2>3, <2>4, <1>0
  <2>. QED BY <2>2, <2>4, <2>5, <2>6 DEF GivesFrom, RandInv, GivenInv
<1>. QED BY <1>1, <1>2

(* The slots keep what they have to themselves.                            *)
LEMMA SlotsKeep ==
  ASSUME RandInv, NEW p \in Processes, NEW F \in [Slot -> Slot],
         NEW z \in Slot, NEW n \in Nat, NEW w,
         Rearranges(p, F, z, n, w), OneToOne(p, F), OthersStay(p), GivesFrom(p, z, n),
         draws' \in {draws, draws + 1}
  PROVE  SlotInv'
<1>0. PerBuf \in Nat /\ draws \in Nat /\ draws' \in Nat /\ draws' >= draws
  BY PerBufs DEF PerBufIsNat, RandInv, RandTypes
<1>2. ASSUME NEW x \in Slot, Mine(p, x)'
      PROVE  Unspent(At(p, x))'
  <2>1. Comes(p, F, x, z, n, w) /\ F[x] \in Slot
    BY <1>2 DEF Rearranges
  <2>2. PICK b \in Buffers : b = At(p, x)'
    BY <1>2 DEF Rearranges
  <2>3. b.batch \in Nat /\ b.used \in 0..PerBuf
    BY <2>2, BufferFields
  <2>4. CASE b.used = PerBuf
    BY <2>2, <2>4 DEF Unspent
  <2>5. CASE b.batch = draws /\ draws' = draws + 1
    <3>1. \A i : <<draws, i>> \notin given'
      <4>1. given' \subseteq {<<d, i>> : d \in 0..draws - 1, i \in Nat}
        BY BytesAreNew
      <4>2. draws \notin 0..draws - 1
        BY <1>0
      <4>. QED BY <4>1, <4>2
    <3>. QED BY <2>2, <2>5, <3>1, <1>0 DEF Unspent
  <2>6. CASE /\ b.used # PerBuf /\ Mine(p, F[x]) /\ b.batch = At(p, F[x]).batch
             /\ b.used >= At(p, F[x]).used + (IF F[x] = z THEN n ELSE 0)
    <3>1. PICK c \in Buffers : c = At(p, F[x])
      BY <2>1, <2>6, SlotTypes DEF RandInv
    <3>2. c.batch \in Nat /\ c.used \in 0..PerBuf
      BY <3>1, BufferFields
    <3>3. c.used # PerBuf /\ b.used >= c.used /\ (F[x] = z => b.used >= c.used + n)
      BY <2>3, <2>6, <3>1, <3>2, <1>0
    <3>4. c.batch < draws /\ \A i \in c.used + 1..PerBuf : <<c.batch, i>> \notin given
      BY <2>1, <2>6, <3>1, <3>3 DEF RandInv, SlotInv, Unspent
    <3>5. \A i \in b.used + 1..PerBuf : <<b.batch, i>> \notin given
      BY <2>3, <2>6, <3>1, <3>2, <3>3, <3>4, <1>0
    <3>6. \A i \in b.used + 1..PerBuf : <<b.batch, i>> \notin given'
      <4>1. CASE n = 0
        BY <4>1, <3>5 DEF GivesFrom
      <4>2. CASE n > 0
        <5>1. /\ Mine(p, z) /\ n <= PerBuf - At(p, z).used
              /\ given' = given \union Bytes(At(p, z), n)
          BY <4>2 DEF GivesFrom
        <5>2. PICK e \in Buffers : e = At(p, z)
          BY <5>1, SlotTypes DEF RandInv
        <5>3. e.batch \in Nat /\ e.used \in 0..PerBuf /\ e.used # PerBuf
          BY <4>2, <5>1, <5>2, <1>0, BufferFields
        <5>4. CASE F[x] = z
          <6>1. e = c /\ b.used >= e.used + n
            BY <5>4, <5>2, <3>1, <3>3
          <6>2. \A i \in b.used + 1..PerBuf : i \notin e.used + 1..e.used + n
            BY <6>1, <2>3, <5>3
          <6>3. \A i \in b.used + 1..PerBuf : <<b.batch, i>> \notin Bytes(e, n)
            BY <6>2 DEF Bytes
          <6>. QED BY <6>3, <5>1, <5>2, <3>5
        <5>5. CASE F[x] # z
          <6>1. Apart(c, e)
            BY <5>5, <5>1, <5>2, <3>1, <2>1, <2>6 DEF RandInv, SlotInv
          <6>2. b.batch # e.batch
            BY <6>1, <5>3, <3>1, <3>3, <2>6 DEF Apart
          <6>3. \A i : <<b.batch, i>> \notin Bytes(e, n)
            BY <6>2 DEF Bytes
          <6>. QED BY <6>3, <5>1, <5>2, <3>5
        <5>. QED BY <5>4, <5>5
      <4>. QED BY <4>1, <4>2
    <3>7. b.batch < draws'
      BY <2>3, <2>6, <3>1, <3>4, <1>0
    <3>. QED BY <2>2, <3>6, <3>7 DEF Unspent
  <2>. QED BY <2>1, <2>2, <2>4, <2>5, <2>6 DEF Comes
<1>3. ASSUME NEW q \in Processes, q # p, NEW x \in Slot, Mine(q, x)'
      PROVE  Unspent(At(q, x))'
  <2>1. Mine(q, x) /\ At(q, x)' = At(q, x)
    BY <1>3 DEF OthersStay
  <2>2. PICK b \in Buffers : b = At(q, x) /\ b = At(q, x)'
    BY <2>1, SlotTypes DEF RandInv
  <2>3. Unspent(b)
    BY <2>1, <2>2 DEF RandInv, SlotInv
  <2>4. b.batch \in Nat /\ b.used \in 0..PerBuf
    BY <2>2, BufferFields
  <2>5. CASE b.used = PerBuf
    BY <2>2, <2>5 DEF Unspent
  <2>6. CASE b.used # PerBuf
    <3>1. b.batch < draws' /\ \A i \in b.used + 1..PerBuf : <<b.batch, i>> \notin given
      BY <2>3, <2>4, <2>6, <1>0 DEF Unspent
    <3>2. \A i \in b.used + 1..PerBuf : <<b.batch, i>> \notin given'
      <4>1. CASE n = 0
        BY <4>1, <3>1 DEF GivesFrom
      <4>2. CASE n > 0
        <5>1. /\ Mine(p, z) /\ n <= PerBuf - At(p, z).used
              /\ given' = given \union Bytes(At(p, z), n)
          BY <4>2 DEF GivesFrom
        <5>2. PICK e \in Buffers : e = At(p, z)
          BY <5>1, SlotTypes DEF RandInv
        <5>3. e.used # PerBuf
          BY <4>2, <5>1, <5>2, <1>0, BufferFields
        <5>4. <<q, x>> # <<p, z>>
          BY <1>3
        <5>5. Apart(b, e)
          BY <5>1, <5>2, <5>4, <2>1, <2>2 DEF RandInv, SlotInv
        <5>6. b.batch # e.batch
          BY <5>3, <5>5, <2>6 DEF Apart
        <5>7. \A i : <<b.batch, i>> \notin Bytes(e, n)
          BY <5>6 DEF Bytes
        <5>. QED BY <5>1, <5>2, <5>7, <3>1
      <4>. QED BY <4>1, <4>2
    <3>. QED BY <2>2, <3>1, <3>2 DEF Unspent
  <2>. QED BY <2>5, <2>6
<1>9. ASSUME NEW x \in Slot, Mine(p, x)'
      PROVE  \/ At(p, x)'.used = PerBuf
             \/ x = w /\ At(p, x)'.batch = draws /\ draws' = draws + 1
             \/ Mine(p, F[x]) /\ At(p, F[x]).used # PerBuf /\ At(p, x)'.batch = At(p, F[x]).batch
                /\ At(p, x)'.batch < draws
  <2>1. Comes(p, F, x, z, n, w) /\ F[x] \in Slot
    BY <1>9 DEF Rearranges
  <2>2. PICK b \in Buffers : b = At(p, x)'
    BY <1>9 DEF Rearranges
  <2>3. b.batch \in Nat /\ b.used \in 0..PerBuf
    BY <2>2, BufferFields
  <2>4. CASE /\ b.used # PerBuf /\ Mine(p, F[x]) /\ b.batch = At(p, F[x]).batch
             /\ b.used >= At(p, F[x]).used + (IF F[x] = z THEN n ELSE 0)
    <3>1. PICK c \in Buffers : c = At(p, F[x])
      BY <2>1, <2>4, SlotTypes DEF RandInv
    <3>2. c.batch \in Nat /\ c.used \in 0..PerBuf
      BY <3>1, BufferFields
    <3>3. c.used # PerBuf
      BY <2>3, <2>4, <3>1, <3>2, <1>0
    <3>4. c.batch < draws
      BY <2>1, <2>4, <3>1, <3>3 DEF RandInv, SlotInv, Unspent
    <3>. QED BY <2>2, <2>4, <3>1, <3>3, <3>4
  <2>. QED BY <2>1, <2>2, <2>4 DEF Comes
<1>4. ASSUME NEW x \in Slot, NEW y \in Slot, Mine(p, x)', Mine(p, y)', x # y
      PROVE  Apart(At(p, x), At(p, y))'
  <2>1. F[x] # F[y] /\ F[x] \in Slot /\ F[y] \in Slot
    BY <1>4 DEF OneToOne
  <2>2. Mine(p, F[x]) /\ Mine(p, F[y]) => Apart(At(p, F[x]), At(p, F[y]))
    BY <2>1 DEF RandInv, SlotInv
  <2>3. CASE At(p, x)'.used = PerBuf \/ At(p, y)'.used = PerBuf
    BY <2>3 DEF Apart
  <2>4. CASE At(p, x)'.used # PerBuf /\ At(p, y)'.used # PerBuf
    <3>1. At(p, x)'.batch # At(p, y)'.batch
      <4>1. CASE x = w /\ At(p, x)'.batch = draws
        BY <4>1, <1>0, <1>4, <1>9, <2>4
      <4>2. CASE y = w /\ At(p, y)'.batch = draws
        BY <4>2, <1>0, <1>4, <1>9, <2>4
      <4>3. CASE /\ Mine(p, F[x]) /\ At(p, F[x]).used # PerBuf /\ At(p, x)'.batch = At(p, F[x]).batch
                 /\ Mine(p, F[y]) /\ At(p, F[y]).used # PerBuf /\ At(p, y)'.batch = At(p, F[y]).batch
        BY <4>3, <2>2 DEF Apart
      <4>. QED BY <4>1, <4>2, <4>3, <1>4, <1>9, <2>4
    <3>. QED BY <3>1 DEF Apart
  <2>. QED BY <2>3, <2>4
<1>5. ASSUME NEW q \in Processes, q # p, NEW x \in Slot, NEW y \in Slot, Mine(p, x)', Mine(q, y)'
      PROVE  Apart(At(p, x), At(q, y))' /\ Apart(At(q, y), At(p, x))'
  <2>1. Mine(q, y) /\ At(q, y)' = At(q, y) /\ F[x] \in Slot
    BY <1>5 DEF OthersStay
  <2>2. At(q, y).used = PerBuf \/ At(q, y).batch < draws
    BY <2>1 DEF RandInv, SlotInv, Unspent
  <2>3. Mine(p, F[x]) => Apart(At(p, F[x]), At(q, y))
    <3>1. <<p, F[x]>> # <<q, y>>
      BY <1>5
    <3>. QED BY <2>1, <3>1 DEF RandInv, SlotInv
  <2>4. CASE At(p, x)'.used = PerBuf \/ At(q, y).used = PerBuf
    BY <2>1, <2>4 DEF Apart
  <2>5. CASE At(p, x)'.used # PerBuf /\ At(q, y).used # PerBuf
    <3>1. At(p, x)'.batch # At(q, y).batch
      <4>1. CASE At(p, x)'.batch = draws
        BY <4>1, <2>2, <2>5, <1>0
      <4>2. CASE Mine(p, F[x]) /\ At(p, F[x]).used # PerBuf /\ At(p, x)'.batch = At(p, F[x]).batch
        BY <4>2, <2>3, <2>5 DEF Apart
      <4>. QED BY <1>5, <1>9, <2>5, <4>1, <4>2
    <3>. QED BY <2>1, <3>1 DEF Apart
  <2>. QED BY <2>4, <2>5
<1>6. ASSUME NEW q \in Processes, q # p, NEW r \in Processes, r # p, NEW x \in Slot, NEW y \in Slot,
             Mine(q, x)', Mine(r, y)', <<q, x>> # <<r, y>>
      PROVE  Apart(At(q, x), At(r, y))'
  BY <1>6 DEF OthersStay, RandInv, SlotInv, Apart
<1>7. ASSUME NEW q \in Processes, NEW x \in Slot, Mine(q, x)'
      PROVE  Unspent(At(q, x))'
  BY <1>2, <1>3, <1>7
<1>8. ASSUME NEW q \in Processes, NEW r \in Processes, NEW x \in Slot, NEW y \in Slot,
             Mine(q, x)', Mine(r, y)', <<q, x>> # <<r, y>>
      PROVE  Apart(At(q, x), At(r, y))'
  <2>1. CASE q = p /\ r = p
    BY <1>4, <1>8, <2>1
  <2>2. CASE q = p /\ r # p
    BY <1>5, <1>8, <2>2
  <2>3. CASE q # p /\ r = p
    BY <1>5, <1>8, <2>3
  <2>4. CASE q # p /\ r # p
    BY <1>6, <1>8, <2>4
  <2>. QED BY <2>1, <2>2, <2>3, <2>4
<1>. QED BY <1>7, <1>8 DEF SlotInv

------------------------------------------------------------------------------
LEMMA CallMoves ==
  ASSUME RandTypes, NEW p \in Processes, NEW t \in RandThread, NEW to, Calls(p, t, to)
  PROVE  /\ call'[p][t] = to
         /\ \A u \in RandThread \ {t} : call'[p][u] = call[p][u]
         /\ \A q \in Processes \ {p}, u \in RandThread : call'[q][u] = call[q][u]
         /\ call' = [q \in Processes |-> [u \in RandThread |-> call'[q][u]]]
<1>1. /\ call = [q \in Processes |-> [u \in RandThread |-> call[q][u]]]
      /\ call' = [call EXCEPT ![p] = [call[p] EXCEPT ![t] = to]]
  BY DEF RandTypes, Calls
<1>2. /\ \A q \in Processes : call[q] = [u \in RandThread |-> call[q][u]]
      /\ DOMAIN call = Processes
  BY <1>1
<1>3. call'[p] = [call[p] EXCEPT ![t] = to] /\ \A q \in Processes \ {p} : call'[q] = call[q]
  BY <1>1, <1>2
<1>4. /\ call'[p][t] = to
      /\ \A u \in RandThread \ {t} : call'[p][u] = call[p][u]
      /\ call'[p] = [u \in RandThread |-> call'[p][u]]
  BY <1>2, <1>3
<1>5. \A q \in Processes : call'[q] = [u \in RandThread |-> call'[q][u]]
  BY <1>2, <1>3, <1>4
<1>6. call' = [q \in Processes |-> call'[q]]
  BY <1>1
<1>. QED BY <1>3, <1>4, <1>5, <1>6

LEMMA TypesMove ==
  ASSUME RandTypes, NEW p \in Processes, NEW t \in RandThread, NEW to, IsCall(p, to),
         Calls(p, t, to), list' \in [Processes -> Seq(Buffers)], parent' = parent,
         draws' \in Nat, twice' = FALSE
  PROVE  RandTypes'
<1>1. /\ call'[p][t] = to
      /\ \A u \in RandThread \ {t} : call'[p][u] = call[p][u]
      /\ \A q \in Processes \ {p}, u \in RandThread : call'[q][u] = call[q][u]
      /\ call' = [q \in Processes |-> [u \in RandThread |-> call'[q][u]]]
  BY CallMoves
<1>2. \A q \in Processes, u \in RandThread : IsCall(q, call[q][u])
  BY DEF RandTypes
<1>3. \A q \in Processes, u \in RandThread : IsCall(q, call'[q][u])
  BY <1>1, <1>2
<1>4. parent' \in [Processes -> Nat]
  BY DEF RandTypes
<1>. QED BY <1>1, <1>3, <1>4 DEF RandTypes

LEMMA ListMoves ==
  ASSUME RandTypes, NEW p \in Processes, NEW L \in Seq(Buffers), list' = [list EXCEPT ![p] = L]
  PROVE  /\ list' \in [Processes -> Seq(Buffers)]
         /\ list'[p] = L /\ \A q \in Processes \ {p} : list'[q] = list[q]
BY DEF RandTypes

(* In the other processes nothing moves.                                   *)
LEMMA OthersAreStill ==
  ASSUME NEW p \in Processes, \A q \in Processes \ {p} : list'[q] = list[q],
         \A q \in Processes \ {p}, u \in RandThread : call'[q][u] = call[q][u]
  PROVE  OthersStay(p)
<1>. SUFFICES ASSUME NEW q \in Processes \ {p}, NEW x \in Slot, Mine(q, x)'
              PROVE  Mine(q, x) /\ At(q, x)' = At(q, x)
  BY DEF OthersStay
<1>1. CASE x[1] = 0
  <2>1. list'[q] = list[q]
    OBVIOUS
  <2>. QED BY <1>1, <2>1 DEF Mine, At
<1>2. CASE x[1] = 1
  <2>1. x[2] \in RandThread
    BY <1>2 DEF Slot
  <2>2. call'[q][x[2]] = call[q][x[2]]
    BY <2>1
  <2>. QED BY <1>2, <2>2 DEF Mine, At
<1>. QED BY <1>1, <1>2 DEF Slot

(* The slots of the process that moves, one by one.                        *)
LEMMA SlotCases ==
  ASSUME NEW x \in Slot
  PROVE  \/ \E j \in Nat \ {0} : x = <<0, j>>
         \/ \E u \in RandThread : x = <<1, u>>
BY DEF Slot

LEMMA ListSlot ==
  ASSUME NEW p, NEW j \in Nat \ {0}
  PROVE  /\ <<0, j>> \in Slot
         /\ Mine(p, <<0, j>>) <=> j \in 1..Len(list[p]) /\ list[p][j].pid = p
         /\ At(p, <<0, j>>) = list[p][j]
         /\ Mine(p, <<0, j>>)' <=> j \in 1..Len(list'[p]) /\ list'[p][j].pid = p
         /\ At(p, <<0, j>>)' = list'[p][j]
BY DEF Slot, Mine, At

LEMMA HandSlot ==
  ASSUME NEW p, NEW u \in RandThread
  PROVE  /\ <<1, u>> \in Slot
         /\ Mine(p, <<1, u>>) <=> call[p][u].at \in {"fill", "put"}
         /\ At(p, <<1, u>>) = call[p][u].buf
         /\ Mine(p, <<1, u>>)' <=> call'[p][u].at \in {"fill", "put"}
         /\ At(p, <<1, u>>)' = call'[p][u].buf
BY DEF Slot, Mine, At

LEMMA PidsMove ==
  ASSUME PidInv, NEW p \in Processes, parent' = parent,
         \A q \in Processes \ {p} : list'[q] = list[q],
         \A j \in 1..Len(list'[p]) :
           list'[p][j].pid \in Processes /\ parent[list'[p][j].pid] # 0
  PROVE  PidInv'
<1>1. \A q \in Processes : \A j \in 1..Len(list[q]) :
        list[q][j].pid \in Processes /\ parent[list[q][j].pid] # 0
  BY DEF PidInv, Alive
<1>2. \A q \in Processes : \A j \in 1..Len(list'[q]) :
        list'[q][j].pid \in Processes /\ parent[list'[q][j].pid] # 0
  BY <1>1
<1>3. \A q \in Processes : \A j \in 1..Len(list'[q]) :
        list'[q][j].pid \in Processes /\ parent'[list'[q][j].pid] # 0
  BY <1>2
<1>. QED BY <1>3 DEF PidInv, Alive

LEMMA GivenMoves ==
  ASSUME RandInv, NEW p \in Processes, NEW z \in Slot, NEW n \in Nat, GivesFrom(p, z, n),
         draws' \in {draws, draws + 1}
  PROVE  GivenInv'
<1>1. given' \subseteq {<<d, i>> : d \in 0..draws - 1, i \in Nat}
  BY BytesAreNew
<1>2. 0..draws - 1 \subseteq 0..draws' - 1
  BY DEF RandInv, RandTypes
<1>. QED BY <1>1, <1>2 DEF GivenInv

(* Giving bytes of a slot, or nothing.                                     *)
LEMMA GivesAreNew ==
  ASSUME RandInv, NEW p \in Processes, NEW z \in Slot, NEW n \in Nat,
         Mine(p, z), n <= PerBuf - At(p, z).used, Gives(Bytes(At(p, z), n))
  PROVE  GivesFrom(p, z, n) /\ twice' = FALSE
<1>1. PICK b \in Buffers : b = At(p, z)
  BY SlotTypes DEF RandInv
<1>2. b.used \in 0..PerBuf
  BY <1>1, BufferFields
<1>3. twice = FALSE
  BY DEF RandInv, RandTypes
<1>4. CASE n = 0
  <2>1. Bytes(b, n) = {}
    BY <1>2, <1>4 DEF Bytes
  <2>. QED BY <1>1, <1>3, <1>4, <2>1 DEF Gives, GivesFrom
<1>5. CASE n > 0
  <2>1. GivesFrom(p, z, n)
    BY <1>5 DEF Gives, GivesFrom
  <2>2. Bytes(At(p, z), n) \intersect given = {}
    BY <2>1, <1>5, BytesAreNew
  <2>. QED BY <1>3, <2>1, <2>2 DEF Gives
<1>6. n = 0 \/ n > 0
  OBVIOUS
<1>. QED BY <1>4, <1>5, <1>6

LEMMA FromHeadKeeps ==
  ASSUME RandInv, NEW p \in Processes, NEW t \in RandThread, NEW pp, NEW n \in Nat,
         call[p][t].at \in {"idle", "retry"}, FromHead(p, pp, t, n)
  PROVE  RandInv'
<1>. DEFINE b == list[p][1]
            nb == [b EXCEPT !.used = @ + n]
            L == [list[p] EXCEPT ![1] = nb]
            F == [x \in Slot |-> x]
<1>1. /\ list[p] \in Seq(Buffers) /\ list[p] # <<>> /\ b.pid = p /\ PerBuf - b.used >= n
      /\ Gives(Bytes(b, n)) /\ Calls(p, t, Idle) /\ parent' = parent /\ draws' = draws
      /\ RandTypes
  BY DEF FromHead, Suffices, Served, Own, RandInv, RandTypes
<1>2. 1 \in 1..Len(list[p]) /\ b \in Buffers
  BY <1>1
<1>3. b.used \in 0..PerBuf /\ PerBuf \in Nat /\ draws \in Nat
  BY <1>2, BufferFields, PerBufs DEF PerBufIsNat, RandInv, RandTypes
<1>4. nb \in Buffers /\ nb.batch = b.batch /\ nb.used = b.used + n /\ nb.pid = b.pid
  <2>1. b.used + n \in 0..PerBuf
    BY <1>1, <1>3
  <2>. QED BY <1>2, <2>1 DEF Buffers
<1>5. list' = [list EXCEPT ![p] = L]
  BY <1>1 DEF FromHead, Served
<1>. HIDE DEF nb
<1>6. L \in Seq(Buffers) /\ Len(L) = Len(list[p]) /\ L[1] = nb
      /\ \A j \in 1..Len(list[p]) : j # 1 => L[j] = list[p][j]
  BY <1>1, <1>2, <1>4, ExceptSeq
<1>. HIDE DEF L
<1>7. /\ list' \in [Processes -> Seq(Buffers)]
      /\ list'[p] = L /\ \A q \in Processes \ {p} : list'[q] = list[q]
  BY <1>1, <1>5, <1>6, ListMoves
<1>8. Mine(p, <<0, 1>>) /\ At(p, <<0, 1>>) = b /\ <<0, 1>> \in Slot
  BY <1>1, <1>2, ListSlot
<1>9. GivesFrom(p, <<0, 1>>, n) /\ twice' = FALSE
  BY <1>1, <1>8, GivesAreNew
<1>10. /\ call'[p][t] = Idle
       /\ \A u \in RandThread \ {t} : call'[p][u] = call[p][u]
       /\ \A q \in Processes \ {p}, u \in RandThread : call'[q][u] = call[q][u]
  BY <1>1, CallMoves
<1>11. RandTypes'
  BY <1>1, <1>3, <1>7, <1>9, TypesMove DEF IsCall
<1>12. PidInv'
  <2>1. \A j \in 1..Len(list[p]) : list[p][j].pid \in Processes /\ parent[list[p][j].pid] # 0
    BY DEF RandInv, PidInv, Alive
  <2>2. \A j \in 1..Len(L) : L[j].pid = list[p][j].pid
    BY <1>4, <1>6
  <2>3. \A j \in 1..Len(list'[p]) : list'[p][j].pid \in Processes /\ parent[list'[p][j].pid] # 0
    BY <2>1, <2>2, <1>6, <1>7
  <2>. QED BY <2>3, <1>1, <1>7, PidsMove DEF RandInv
<1>13. GivenInv'
  BY <1>1, <1>8, <1>9, GivenMoves
<1>14. OthersStay(p)
  BY <1>7, <1>10, OthersAreStill
<1>15. F \in [Slot -> Slot] /\ OneToOne(p, F)
  BY DEF OneToOne
<1>16. Rearranges(p, F, <<0, 1>>, n, 0)
  <2>. SUFFICES ASSUME NEW x \in Slot, Mine(p, x)'
                PROVE  At(p, x)' \in Buffers /\ Comes(p, F, x, <<0, 1>>, n, 0)
    BY DEF Rearranges
  <2>1. ASSUME NEW j \in Nat \ {0}, x = <<0, j>>
        PROVE  At(p, x)' \in Buffers /\ Comes(p, F, x, <<0, 1>>, n, 0)
    <3>1. j \in 1..Len(list[p]) /\ list'[p][j].pid = p /\ At(p, x)' = L[j]
          /\ At(p, x) = list[p][j]
      BY <2>1, <1>6, <1>7, ListSlot
    <3>2. list[p][j] \in Buffers /\ L[j] \in Buffers
      BY <3>1, <1>1, <1>6
    <3>3. CASE j = 1
      <4>1. x = <<0, 1>> /\ F[x] = <<0, 1>>
        BY <2>1, <3>3
      <4>. QED BY <4>1, <3>1, <3>2, <3>3, <1>3, <1>4, <1>6, <1>8 DEF Comes
    <3>4. CASE j # 1
      <4>1. L[j] = list[p][j] /\ Mine(p, x)
        BY <2>1, <3>1, <3>4, <1>6, <1>7, ListSlot
      <4>2. F[x] = x /\ x # <<0, 1>>
        BY <2>1, <3>4
      <4>3. list[p][j].used \in 0..PerBuf
        BY <3>2, BufferFields
      <4>. QED BY <4>1, <4>2, <4>3, <3>1, <3>2, <1>3 DEF Comes
    <3>. QED BY <3>3, <3>4
  <2>2. ASSUME NEW u \in RandThread, x = <<1, u>>
        PROVE  At(p, x)' \in Buffers /\ Comes(p, F, x, <<0, 1>>, n, 0)
    <3>1. u # t
      BY <2>2, <1>10, HandSlot DEF Idle
    <3>2. Mine(p, x) /\ At(p, x)' = At(p, x)
      BY <2>2, <3>1, <1>10, HandSlot
    <3>3. At(p, x) \in Buffers
      BY <3>2, <1>1, SlotTypes
    <3>4. At(p, x).used \in 0..PerBuf
      BY <3>3, BufferFields
    <3>5. F[x] = x /\ x # <<0, 1>>
      BY <2>2
    <3>. QED BY <3>2, <3>3, <3>4, <3>5, <1>3 DEF Comes
  <2>. QED BY <2>1, <2>2, SlotCases
<1>17. SlotInv'
  <2>. HIDE DEF F
  <2>. QED BY <1>1, <1>8, <1>9, <1>14, <1>15, <1>16, SlotsKeep
<1>. QED BY <1>11, <1>12, <1>13, <1>17 DEF RandInv

------------------------------------------------------------------------------
(* What the other threads hold they keep.                                  *)
LEMMA OtherHand ==
  ASSUME RandTypes, NEW p \in Processes, NEW u \in RandThread, call'[p][u] = call[p][u],
         NEW F, F[<<1, u>>] = <<1, u>>, NEW z, z # <<1, u>>, NEW n \in Nat, NEW w,
         Mine(p, <<1, u>>)'
  PROVE  At(p, <<1, u>>)' \in Buffers /\ Comes(p, F, <<1, u>>, z, n, w)
<1>. DEFINE x == <<1, u>>
<1>1. Mine(p, x) /\ At(p, x)' = At(p, x) /\ x \in Slot
  BY HandSlot
<1>2. PICK b \in Buffers : b = At(p, x) /\ b = At(p, x)'
  BY <1>1, SlotTypes
<1>3. b.used \in 0..PerBuf /\ PerBuf \in Nat
  BY <1>2, BufferFields, PerBufs DEF PerBufIsNat
<1>. QED BY <1>1, <1>2, <1>3 DEF Comes

(* A buffer that was on the list and served nobody.                        *)
LEMMA OffTheList ==
  ASSUME RandTypes, NEW p \in Processes, NEW x \in Slot, NEW j \in 1..Len(list[p]),
         At(p, x)' = list[p][j], list[p][j].pid = p, NEW F, F[x] = <<0, j>>, NEW z, NEW n \in Nat,
         z # <<0, j>> \/ n = 0, NEW w
  PROVE  At(p, x)' \in Buffers /\ Comes(p, F, x, z, n, w)
<1>1. list[p] \in Seq(Buffers) /\ j \in Nat \ {0}
  BY DEF RandTypes
<1>2. list[p][j] \in Buffers
  BY <1>1
<1>3. PICK b \in Buffers : b = list[p][j]
  BY <1>2
<1>4. b.used \in 0..PerBuf /\ PerBuf \in Nat
  BY BufferFields, PerBufs DEF PerBufIsNat
<1>5. Mine(p, <<0, j>>) /\ At(p, <<0, j>>) = b
  BY <1>1, <1>3, ListSlot
<1>. QED BY <1>3, <1>4, <1>5 DEF Comes

OneBack(t) == [x \in Slot |-> IF x[1] = 0 THEN <<0, x[2] + 1>> ELSE IF x[2] = t THEN <<0, 1>> ELSE x]
Still == [x \in Slot |-> x]

LEMMA SlotsAre ==
  /\ \A j \in Nat \ {0} : <<0, j>> \in Slot /\ <<0, j + 1>> \in Slot
  /\ <<0, 1>> \in Slot /\ \A u \in RandThread : <<1, u>> \in Slot
BY DEF Slot

LEMMA OneBackOf ==
  ASSUME NEW t \in RandThread
  PROVE  /\ \A j \in Nat \ {0} : OneBack(t)[<<0, j>>] = <<0, j + 1>>
         /\ OneBack(t)[<<1, t>>] = <<0, 1>>
         /\ \A u \in RandThread \ {t} : OneBack(t)[<<1, u>>] = <<1, u>>
         /\ OneBack(t) \in [Slot -> Slot]
<1>1. \A j \in Nat \ {0} : <<0, j>> \in Slot /\ OneBack(t)[<<0, j>>] = <<0, j + 1>> /\ <<0, j + 1>> \in Slot
  <2>. SUFFICES ASSUME NEW j \in Nat \ {0}
                PROVE  <<0, j>> \in Slot /\ OneBack(t)[<<0, j>>] = <<0, j + 1>> /\ <<0, j + 1>> \in Slot
    OBVIOUS
  <2>1. <<0, j>> \in Slot /\ <<0, j + 1>> \in Slot
    BY SlotsAre
  <2>2. OneBack(t)[<<0, j>>] = IF <<0, j>>[1] = 0 THEN <<0, <<0, j>>[2] + 1>>
                            ELSE IF <<0, j>>[2] = t THEN <<0, 1>> ELSE <<0, j>>
    BY <2>1, Zenon DEF OneBack
  <2>3. <<0, j>>[1] = 0 /\ <<0, j>>[2] = j
    OBVIOUS
  <2>. QED BY <2>1, <2>2, <2>3
<1>2. <<1, t>> \in Slot /\ OneBack(t)[<<1, t>>] = <<0, 1>> /\ <<0, 1>> \in Slot
  <2>1. <<1, t>> \in Slot /\ <<0, 1>> \in Slot
    BY SlotsAre
  <2>2. OneBack(t)[<<1, t>>] = IF <<1, t>>[1] = 0 THEN <<0, <<1, t>>[2] + 1>>
                            ELSE IF <<1, t>>[2] = t THEN <<0, 1>> ELSE <<1, t>>
    BY <2>1, Zenon DEF OneBack
  <2>3. <<1, t>>[1] # 0 /\ <<1, t>>[2] = t
    OBVIOUS
  <2>. QED BY <2>1, <2>2, <2>3
<1>3. \A u \in RandThread \ {t} : <<1, u>> \in Slot /\ OneBack(t)[<<1, u>>] = <<1, u>>
  <2>. SUFFICES ASSUME NEW u \in RandThread \ {t}
                PROVE  <<1, u>> \in Slot /\ OneBack(t)[<<1, u>>] = <<1, u>>
    OBVIOUS
  <2>1. <<1, u>> \in Slot
    BY HandSlot
  <2>2. OneBack(t)[<<1, u>>] = IF <<1, u>>[1] = 0 THEN <<0, <<1, u>>[2] + 1>>
                            ELSE IF <<1, u>>[2] = t THEN <<0, 1>> ELSE <<1, u>>
    BY <2>1, Zenon DEF OneBack
  <2>3. <<1, u>>[1] # 0 /\ <<1, u>>[2] = u
    OBVIOUS
  <2>. QED BY <2>1, <2>2, <2>3
<1>4. \A x \in Slot : OneBack(t)[x] \in Slot
  <2>. SUFFICES ASSUME NEW x \in Slot
                PROVE  OneBack(t)[x] \in Slot
    OBVIOUS
  <2>1. CASE \E j \in Nat \ {0} : x = <<0, j>>
    BY <1>1, <2>1
  <2>2. CASE \E u \in RandThread : x = <<1, u>>
    <3>1. PICK u \in RandThread : x = <<1, u>>
      BY <2>2
    <3>. QED BY <1>2, <1>3, <3>1
  <2>. QED BY <2>1, <2>2, SlotCases
<1>5. OneBack(t) = [x \in Slot |-> OneBack(t)[x]]
  BY DEF OneBack
<1>. QED BY <1>1, <1>2, <1>3, <1>4, <1>5

LEMMA OneBackOneToOne ==
  ASSUME NEW p, NEW t \in RandThread
  PROVE  OneToOne(p, OneBack(t))
<1>. SUFFICES ASSUME NEW x \in Slot, NEW y \in Slot, OneBack(t)[x] = OneBack(t)[y]
              PROVE  x = y
  BY DEF OneToOne
<1>1. CASE \E j \in Nat \ {0} : x = <<0, j>>
  <2>1. PICK j \in Nat \ {0} : x = <<0, j>>
    BY <1>1
  <2>2. OneBack(t)[x] = <<0, j + 1>>
    BY <2>1, OneBackOf
  <2>3. CASE \E k \in Nat \ {0} : y = <<0, k>>
    <3>1. PICK k \in Nat \ {0} : y = <<0, k>>
      BY <2>3
    <3>2. OneBack(t)[y] = <<0, k + 1>>
      BY <3>1, OneBackOf
    <3>3. <<0, j + 1>> = <<0, k + 1>>
      BY <2>2, <3>2, Zenon
    <3>. QED BY <2>1, <3>1, <3>3
  <2>4. CASE \E u \in RandThread : y = <<1, u>>
    <3>1. PICK u \in RandThread : y = <<1, u>>
      BY <2>4
    <3>2. OneBack(t)[y] = <<0, 1>> \/ OneBack(t)[y] = <<1, u>>
      BY <3>1, OneBackOf
    <3>3. <<0, j + 1>> = <<0, 1>> \/ <<0, j + 1>> = <<1, u>>
      BY <2>2, <3>2, Zenon
    <3>. QED BY <3>3
  <2>. QED BY <2>3, <2>4, SlotCases
<1>2. CASE \E u \in RandThread : x = <<1, u>>
  <2>1. PICK u \in RandThread : x = <<1, u>>
    BY <1>2
  <2>2. CASE \E k \in Nat \ {0} : y = <<0, k>>
    <3>1. PICK k \in Nat \ {0} : y = <<0, k>>
      BY <2>2
    <3>2. OneBack(t)[y] = <<0, k + 1>>
      BY <3>1, OneBackOf
    <3>3. OneBack(t)[x] = <<0, 1>> \/ OneBack(t)[x] = <<1, u>>
      BY <2>1, OneBackOf
    <3>4. <<0, k + 1>> = <<0, 1>> \/ <<0, k + 1>> = <<1, u>>
      BY <3>2, <3>3, Zenon
    <3>. QED BY <3>4
  <2>3. CASE \E v \in RandThread : y = <<1, v>>
    <3>1. PICK v \in RandThread : y = <<1, v>>
      BY <2>3
    <3>2. OneBack(t)[x] = IF u = t THEN <<0, 1>> ELSE <<1, u>>
      BY <2>1, OneBackOf
    <3>3. OneBack(t)[y] = IF v = t THEN <<0, 1>> ELSE <<1, v>>
      BY <3>1, OneBackOf
    <3>4. (IF u = t THEN <<0, 1>> ELSE <<1, u>>) = (IF v = t THEN <<0, 1>> ELSE <<1, v>>)
      BY <3>2, <3>3, Zenon
    <3>6. u = v
      BY <3>4
    <3>. QED BY <2>1, <3>1, <3>6
  <2>. QED BY <2>2, <2>3, SlotCases
<1>. QED BY <1>1, <1>2, SlotCases

LEMMA StillIs ==
  /\ Still \in [Slot -> Slot] /\ \A x \in Slot : Still[x] = x
  /\ \A p : OneToOne(p, Still)
BY DEF Still, OneToOne

(* The loop with nothing on the list.                                      *)
LEMMA TakeEmptyKeeps ==
  ASSUME RandInv, NEW p \in Processes, NEW t \in RandThread, NEW pp \in Nat, NEW n \in Nat,
         TakeHead(p, pp, t, n), list[p] = <<>>
  PROVE  RandInv'
<1>. DEFINE c == [at |-> "fill", need |-> n, buf |-> Empty(p, pp)]
<1>1. /\ Calls(p, t, c) /\ list' = list /\ parent' = parent /\ draws' = draws /\ given' = given
      /\ twice' = twice /\ RandTypes
  BY DEF TakeHead, RandInv
<1>2. PerBuf \in Nat /\ p \in Nat /\ draws \in Nat
  BY RandAssumption DEF RandInv, RandTypes
<1>3. Empty(p, pp) \in Buffers /\ Empty(p, pp).pid = p /\ Empty(p, pp).used = PerBuf
  BY <1>2 DEF Empty, Buffers
<1>4. c.at = "fill" /\ c.need = n /\ c.buf = Empty(p, pp) /\ IsCall(p, c)
  BY <1>3 DEF IsCall
<1>. HIDE DEF c
<1>5. /\ call'[p][t] = c
      /\ \A u \in RandThread \ {t} : call'[p][u] = call[p][u]
      /\ \A q \in Processes \ {p}, u \in RandThread : call'[q][u] = call[q][u]
  BY <1>1, CallMoves
<1>6. RandTypes'
  <2>1. list' \in [Processes -> Seq(Buffers)] /\ twice' = FALSE /\ draws' \in Nat
    BY <1>1, <1>2 DEF RandTypes
  <2>. QED BY <2>1, <1>1, <1>4, TypesMove
<1>7. PidInv' /\ GivenInv'
  BY <1>1 DEF RandInv, PidInv, GivenInv, Alive
<1>8. OthersStay(p)
  BY <1>1, <1>5, OthersAreStill
<1>9. Rearranges(p, Still, <<0, 1>>, 0, 0)
  <2>. SUFFICES ASSUME NEW x \in Slot, Mine(p, x)'
                PROVE  At(p, x)' \in Buffers /\ Comes(p, Still, x, <<0, 1>>, 0, 0)
    BY DEF Rearranges
  <2>1. ASSUME NEW j \in Nat \ {0}, x = <<0, j>>
        PROVE  FALSE
    <3>1. j \in 1..Len(list'[p])
      BY <2>1, ListSlot
    <3>2. list'[p] = <<>>
      BY <1>1
    <3>. QED BY <3>1, <3>2
  <2>2. ASSUME NEW u \in RandThread \ {t}, x = <<1, u>>
        PROVE  At(p, x)' \in Buffers /\ Comes(p, Still, x, <<0, 1>>, 0, 0)
    <3>1. call'[p][u] = call[p][u] /\ Still[<<1, u>>] = <<1, u>> /\ <<0, 1>> # <<1, u>>
      BY <2>2, <1>5, StillIs
    <3>. QED BY <2>2, <3>1, <1>1, OtherHand
  <2>3. ASSUME x = <<1, t>>
        PROVE  At(p, x)' \in Buffers /\ Comes(p, Still, x, <<0, 1>>, 0, 0)
    <3>1. At(p, x)' = Empty(p, pp)
      BY <2>3, <1>4, <1>5, HandSlot
    <3>. QED BY <3>1, <1>3 DEF Comes
  <2>. QED BY <2>1, <2>2, <2>3, SlotCases
<1>10. SlotInv'
  <2>1. <<0, 1>> \in Slot
    BY DEF Slot
  <2>2. GivesFrom(p, <<0, 1>>, 0)
    BY <1>1 DEF GivesFrom
  <2>. QED BY <2>1, <2>2, <1>1, <1>8, <1>9, StillIs, SlotsKeep
<1>. QED BY <1>6, <1>7, <1>10 DEF RandInv

(* The buffer at the head comes off the list.                              *)
LEMMA TakeOffKeeps ==
  ASSUME RandInv, NEW p \in Processes, NEW t \in RandThread, NEW pp \in Nat, NEW n \in Nat,
         TakeHead(p, pp, t, n), list[p] # <<>>
  PROVE  RandInv'
<1>. DEFINE b == list[p][1]
            c == IF Own(b, p, pp) THEN [at |-> "fill", need |-> n, buf |-> b]
                                  ELSE [at |-> "retry", need |-> n, ppid |-> pp]
            L == Tail(list[p])
<1>1. /\ Calls(p, t, c) /\ list' = [list EXCEPT ![p] = L] /\ parent' = parent /\ draws' = draws
      /\ given' = given /\ twice' = twice /\ RandTypes /\ list[p] \in Seq(Buffers)
  BY DEF TakeHead, TookOff, RandInv, RandTypes
<1>2. b \in Buffers /\ 1 \in 1..Len(list[p])
  BY <1>1
<1>3. draws \in Nat
  BY DEF RandInv, RandTypes
<1>4. IsCall(p, c) /\ (c.at \in {"fill", "put"} => c.buf = b /\ b.pid = p)
  BY <1>2 DEF IsCall, Own
<1>5. L \in Seq(Buffers) /\ Len(L) = Len(list[p]) - 1 /\ \A j \in 1..Len(L) : L[j] = list[p][j + 1]
  BY <1>1
<1>. HIDE DEF c, L
<1>6. /\ call'[p][t] = c
      /\ \A u \in RandThread \ {t} : call'[p][u] = call[p][u]
      /\ \A q \in Processes \ {p}, u \in RandThread : call'[q][u] = call[q][u]
  BY <1>1, CallMoves
<1>7. /\ list' \in [Processes -> Seq(Buffers)]
      /\ list'[p] = L /\ \A q \in Processes \ {p} : list'[q] = list[q]
  BY <1>1, <1>5, ListMoves
<1>8. RandTypes'
  <2>1. twice' = FALSE /\ draws' \in Nat
    BY <1>1, <1>3 DEF RandTypes
  <2>. QED BY <2>1, <1>1, <1>4, <1>7, TypesMove
<1>9. PidInv' /\ GivenInv'
  <2>1. \A j \in 1..Len(list[p]) : list[p][j].pid \in Processes /\ parent[list[p][j].pid] # 0
    BY DEF RandInv, PidInv, Alive
  <2>2. \A j \in 1..Len(L) : j + 1 \in 1..Len(list[p])
    BY <1>1, <1>5
  <2>3. \A j \in 1..Len(list'[p]) : list'[p][j].pid \in Processes /\ parent[list'[p][j].pid] # 0
    BY <2>1, <2>2, <1>5, <1>7
  <2>4. PidInv'
    BY <2>3, <1>1, <1>7, PidsMove DEF RandInv
  <2>. QED BY <2>4, <1>1 DEF RandInv, GivenInv
<1>10. OthersStay(p)
  BY <1>6, <1>7, OthersAreStill
<1>11. <<1, t>> \in Slot /\ GivesFrom(p, <<1, t>>, 0)
  BY <1>1 DEF GivesFrom, Slot
<1>12. Rearranges(p, OneBack(t), <<1, t>>, 0, 0)
  <2>. SUFFICES ASSUME NEW x \in Slot, Mine(p, x)'
                PROVE  At(p, x)' \in Buffers /\ Comes(p, OneBack(t), x, <<1, t>>, 0, 0)
    BY DEF Rearranges
  <2>1. ASSUME NEW j \in Nat \ {0}, x = <<0, j>>
        PROVE  At(p, x)' \in Buffers /\ Comes(p, OneBack(t), x, <<1, t>>, 0, 0)
    <3>1. j \in 1..Len(L) /\ L[j].pid = p /\ At(p, x)' = L[j]
      BY <2>1, <1>7, ListSlot
    <3>2. j + 1 \in 1..Len(list[p]) /\ At(p, x)' = list[p][j + 1] /\ list[p][j + 1].pid = p
      BY <3>1, <1>1, <1>5
    <3>3. OneBack(t)[x] = <<0, j + 1>>
      BY <2>1, OneBackOf
    <3>. QED BY <3>2, <3>3, <1>1, OffTheList
  <2>2. ASSUME NEW u \in RandThread \ {t}, x = <<1, u>>
        PROVE  At(p, x)' \in Buffers /\ Comes(p, OneBack(t), x, <<1, t>>, 0, 0)
    <3>1. call'[p][u] = call[p][u] /\ OneBack(t)[<<1, u>>] = <<1, u>> /\ <<1, t>> # <<1, u>>
      BY <2>2, <1>6, OneBackOf
    <3>. QED BY <2>2, <3>1, <1>1, OtherHand
  <2>3. ASSUME x = <<1, t>>
        PROVE  At(p, x)' \in Buffers /\ Comes(p, OneBack(t), x, <<1, t>>, 0, 0)
    <3>1. At(p, x)' = list[p][1] /\ list[p][1].pid = p
      BY <2>3, <1>4, <1>6, HandSlot
    <3>2. OneBack(t)[x] = <<0, 1>>
      BY <2>3, OneBackOf
    <3>. QED BY <3>1, <3>2, <1>1, <1>2, OffTheList
  <2>. QED BY <2>1, <2>2, <2>3, SlotCases
<1>13. SlotInv'
  BY <1>1, <1>10, <1>11, <1>12, OneBackOf, OneBackOneToOne, SlotsKeep
<1>. QED BY <1>8, <1>9, <1>13 DEF RandInv

------------------------------------------------------------------------------
LEMMA FillCall ==
  ASSUME NEW p, NEW c, IsCall(p, c), c.at \in {"fill", "put"}
  PROVE  /\ c.buf \in Buffers /\ c.buf.pid = p /\ c.need \in Nat
         /\ c.at = "put" => c.need = 0
<1>1. CASE c = Idle
  BY <1>1 DEF Idle
<1>2. CASE \E n \in Nat, pp \in Nat : c = [at |-> "retry", need |-> n, ppid |-> pp]
  BY <1>2
<1>3. CASE \E n \in Nat, b \in Buffers : b.pid = p /\ c = [at |-> "fill", need |-> n, buf |-> b]
  BY <1>3
<1>4. CASE \E b \in Buffers : b.pid = p /\ c = [at |-> "put", need |-> 0, buf |-> b]
  BY <1>4
<1>. QED BY <1>1, <1>2, <1>3, <1>4 DEF IsCall

(* A round of the loop outside the lock, with the buffer nb and the call c *)
(* it leaves.                                                              *)
LEMMA RoundKeeps ==
  ASSUME RandInv, NEW p \in Processes, NEW t \in RandThread, call[p][t].at = "fill",
         NEW todo \in Nat, todo <= PerBuf - call[p][t].buf.used,
         Gives(Bytes(call[p][t].buf, todo)),
         NEW nb \in Buffers, NEW c, IsCall(p, c), c.buf = nb, c.at \in {"fill", "put"},
         Calls(p, t, c), list' = list, parent' = parent,
         \/ nb.batch = call[p][t].buf.batch /\ nb.used = call[p][t].buf.used + todo /\ draws' = draws
         \/ nb.batch = draws /\ draws' = draws + 1
  PROVE  RandInv'
<1>. DEFINE b == call[p][t].buf
            x == <<1, t>>
<1>1. b \in Buffers /\ b.pid = p
  BY FillCall DEF RandInv, RandTypes
<1>2. b.used \in 0..PerBuf /\ PerBuf \in Nat /\ draws \in Nat /\ draws' \in Nat
  BY <1>1, BufferFields, PerBufs DEF PerBufIsNat, RandInv, RandTypes
<1>3. Mine(p, x) /\ At(p, x) = b /\ x \in Slot
  BY HandSlot
<1>4. GivesFrom(p, x, todo) /\ twice' = FALSE
  <2>1. todo <= PerBuf - At(p, x).used /\ Gives(Bytes(At(p, x), todo))
    BY <1>3
  <2>. QED BY <2>1, <1>3, GivesAreNew
<1>5. /\ call'[p][t] = c
      /\ \A u \in RandThread \ {t} : call'[p][u] = call[p][u]
      /\ \A q \in Processes \ {p}, u \in RandThread : call'[q][u] = call[q][u]
  BY CallMoves DEF RandInv
<1>6. RandTypes'
  <2>1. list' \in [Processes -> Seq(Buffers)]
    BY DEF RandInv, RandTypes
  <2>. QED BY <2>1, <1>2, <1>4, TypesMove DEF RandInv
<1>7. PidInv' /\ GivenInv'
  <2>1. PidInv'
    BY DEF RandInv, PidInv, Alive
  <2>2. GivenInv'
    BY <1>3, <1>4, GivenMoves
  <2>. QED BY <2>1, <2>2
<1>8. OthersStay(p)
  BY <1>5, OthersAreStill
<1>9. Rearranges(p, Still, x, todo, x)
  <2>. SUFFICES ASSUME NEW y \in Slot, Mine(p, y)'
                PROVE  At(p, y)' \in Buffers /\ Comes(p, Still, y, x, todo, x)
    BY DEF Rearranges
  <2>1. ASSUME NEW j \in Nat \ {0}, y = <<0, j>>
        PROVE  At(p, y)' \in Buffers /\ Comes(p, Still, y, x, todo, x)
    <3>1. j \in 1..Len(list[p]) /\ list[p][j].pid = p /\ At(p, y)' = list[p][j]
      BY <2>1, ListSlot
    <3>2. Still[y] = <<0, j>> /\ x # <<0, j>>
      BY <2>1, StillIs
    <3>. QED BY <3>1, <3>2, OffTheList DEF RandInv
  <2>2. ASSUME NEW u \in RandThread \ {t}, y = <<1, u>>
        PROVE  At(p, y)' \in Buffers /\ Comes(p, Still, y, x, todo, x)
    <3>1. call'[p][u] = call[p][u] /\ Still[<<1, u>>] = <<1, u>> /\ x # <<1, u>>
      BY <2>2, <1>5, StillIs
    <3>. QED BY <2>2, <3>1, OtherHand DEF RandInv
  <2>3. ASSUME y = x
        PROVE  At(p, y)' \in Buffers /\ Comes(p, Still, y, x, todo, x)
    <3>1. At(p, y)' = nb /\ Still[y] = x
      BY <2>3, <1>5, StillIs, HandSlot
    <3>2. CASE nb.batch = b.batch /\ nb.used = b.used + todo /\ draws' = draws
      BY <3>1, <3>2, <1>2, <1>3 DEF Comes
    <3>3. CASE nb.batch = draws /\ draws' = draws + 1
      BY <2>3, <3>1, <3>3 DEF Comes
    <3>. QED BY <3>2, <3>3
  <2>. QED BY <2>1, <2>2, <2>3, SlotCases
<1>10. SlotInv'
  <2>1. draws' \in {draws, draws + 1}
    OBVIOUS
  <2>. HIDE DEF x
  <2>. QED BY <2>1, <1>3, <1>4, <1>8, <1>9, StillIs, SlotsKeep
<1>. QED BY <1>6, <1>7, <1>10 DEF RandInv

LEMMA FillKeeps ==
  ASSUME RandInv, NEW p \in Processes, NEW t \in RandThread, Fill(p, t)
  PROVE  RandInv'
<1>. DEFINE b == call[p][t].buf
            n == call[p][t].need
            todo == Fewer(PerBuf - b.used, n)
            left == n - todo
            drawn == [b EXCEPT !.batch = draws, !.used = 0]
            rest == [b EXCEPT !.used = @ + todo]
            c == [at |-> IF left > 0 THEN "fill" ELSE "put", need |-> left, buf |-> drawn]
            d == [at |-> "put", need |-> left, buf |-> rest]
<1>1. b \in Buffers /\ b.pid = p /\ n \in Nat /\ call[p][t].at = "fill"
  BY FillCall DEF Fill, RandInv, RandTypes
<1>2. b.used \in 0..PerBuf /\ PerBuf \in Nat /\ draws \in Nat /\ b.batch \in Nat
  BY <1>1, BufferFields, PerBufs DEF PerBufIsNat, RandInv, RandTypes
<1>3. todo \in Nat /\ todo <= PerBuf - b.used /\ left \in Nat /\ (todo # PerBuf - b.used => left = 0)
  BY <1>1, <1>2 DEF Fewer
<1>4. Gives(Bytes(b, todo)) /\ list' = list /\ parent' = parent
  BY DEF Fill
<1>5. \/ b.used + todo = PerBuf /\ draws' = draws + 1 /\ Calls(p, t, c)
      \/ b.used + todo # PerBuf /\ Calls(p, t, d) /\ draws' = draws
  BY DEF Fill, Empties
<1>. HIDE DEF todo
<1>6. CASE b.used + todo = PerBuf /\ draws' = draws + 1 /\ Calls(p, t, c)
  <2>1. drawn \in Buffers /\ drawn.batch = draws /\ drawn.pid = p
    <3>. DEFINE first == [b EXCEPT !.batch = draws]
    <3>1. first \in Buffers /\ first.batch = draws /\ first.pid = p
      BY <1>1, <1>2 DEF Buffers
    <3>2. drawn = [first EXCEPT !.used = 0]
      BY <1>1 DEF Buffers
    <3>. HIDE DEF first
    <3>3. [first EXCEPT !.used = 0] \in Buffers /\ [first EXCEPT !.used = 0].batch = first.batch
          /\ [first EXCEPT !.used = 0].pid = first.pid
      BY <3>1, <1>2 DEF Buffers
    <3>. QED BY <3>1, <3>2, <3>3
  <2>. HIDE DEF drawn
  <2>2. c.buf = drawn /\ c.at \in {"fill", "put"} /\ IsCall(p, c)
    <3>1. CASE left > 0
      BY <3>1, <1>3, <2>1 DEF IsCall
    <3>2. CASE left = 0
      BY <3>2, <1>3, <2>1 DEF IsCall
    <3>. QED BY <3>1, <3>2, <1>3
  <2>. HIDE DEF c
  <2>. QED BY <1>1, <1>3, <1>4, <1>6, <2>1, <2>2, RoundKeeps
<1>7. CASE b.used + todo # PerBuf /\ Calls(p, t, d) /\ draws' = draws
  <2>1. b.used + todo \in 0..PerBuf /\ left = 0
    BY <1>2, <1>3, <1>7
  <2>2. rest \in Buffers /\ rest.batch = b.batch /\ rest.used = b.used + todo /\ rest.pid = p
    BY <1>1, <1>2, <2>1 DEF Buffers
  <2>. HIDE DEF rest
  <2>3. d.buf = rest /\ d.at \in {"fill", "put"} /\ IsCall(p, d)
    BY <2>1, <2>2 DEF IsCall
  <2>. HIDE DEF d
  <2>. QED BY <1>1, <1>3, <1>4, <1>7, <2>2, <2>3, RoundKeeps
<1>. QED BY <1>5, <1>6, <1>7

(* The buffer goes to the head of the list.                                *)
OneOn(t) == [x \in Slot |-> IF x[1] = 1 THEN x ELSE IF x[2] = 1 THEN <<1, t>> ELSE <<0, x[2] - 1>>]

LEMMA OneOnOf ==
  ASSUME NEW t \in RandThread
  PROVE  /\ \A j \in Nat \ {0} : OneOn(t)[<<0, j + 1>>] = <<0, j>>
         /\ OneOn(t)[<<0, 1>>] = <<1, t>>
         /\ \A u \in RandThread : OneOn(t)[<<1, u>>] = <<1, u>>
         /\ OneOn(t) \in [Slot -> Slot]
<1>1. \A j \in Nat \ {0} : OneOn(t)[<<0, j + 1>>] = <<0, j>>
  <2>. SUFFICES ASSUME NEW j \in Nat \ {0}
                PROVE  OneOn(t)[<<0, j + 1>>] = <<0, j>>
    OBVIOUS
  <2>1. <<0, j + 1>> \in Slot
    BY SlotsAre
  <2>2. OneOn(t)[<<0, j + 1>>] = IF <<0, j + 1>>[1] = 1 THEN <<0, j + 1>>
          ELSE IF <<0, j + 1>>[2] = 1 THEN <<1, t>> ELSE <<0, <<0, j + 1>>[2] - 1>>
    BY <2>1, Zenon DEF OneOn
  <2>3. <<0, j + 1>>[1] # 1 /\ <<0, j + 1>>[2] # 1 /\ <<0, j + 1>>[2] - 1 = j
    OBVIOUS
  <2>. QED BY <2>2, <2>3
<1>2. OneOn(t)[<<0, 1>>] = <<1, t>>
  <2>1. <<0, 1>> \in Slot
    BY SlotsAre
  <2>2. OneOn(t)[<<0, 1>>] = IF <<0, 1>>[1] = 1 THEN <<0, 1>>
          ELSE IF <<0, 1>>[2] = 1 THEN <<1, t>> ELSE <<0, <<0, 1>>[2] - 1>>
    BY <2>1, Zenon DEF OneOn
  <2>3. <<0, 1>>[1] # 1 /\ <<0, 1>>[2] = 1
    OBVIOUS
  <2>. QED BY <2>2, <2>3
<1>3. \A u \in RandThread : OneOn(t)[<<1, u>>] = <<1, u>>
  <2>. SUFFICES ASSUME NEW u \in RandThread
                PROVE  OneOn(t)[<<1, u>>] = <<1, u>>
    OBVIOUS
  <2>1. <<1, u>> \in Slot
    BY SlotsAre
  <2>2. OneOn(t)[<<1, u>>] = IF <<1, u>>[1] = 1 THEN <<1, u>>
          ELSE IF <<1, u>>[2] = 1 THEN <<1, t>> ELSE <<0, <<1, u>>[2] - 1>>
    BY <2>1, Zenon DEF OneOn
  <2>3. <<1, u>>[1] = 1
    OBVIOUS
  <2>. QED BY <2>2, <2>3
<1>4. \A x \in Slot : OneOn(t)[x] \in Slot
  <2>1. ASSUME NEW j \in Nat \ {0}
        PROVE  OneOn(t)[<<0, j>>] \in Slot
    <3>1. CASE j = 1
      BY <3>1, <1>2, SlotsAre
    <3>2. CASE j # 1
      <4>1. j - 1 \in Nat \ {0} /\ (j - 1) + 1 = j
        BY <3>2
      <4>2. OneOn(t)[<<0, (j - 1) + 1>>] = <<0, j - 1>> /\ <<0, j - 1>> \in Slot
        BY <4>1, <1>1, SlotsAre
      <4>. QED BY <4>1, <4>2
    <3>. QED BY <3>1, <3>2
  <2>. QED BY <2>1, <1>3, SlotCases, SlotsAre
<1>5. OneOn(t) = [x \in Slot |-> OneOn(t)[x]]
  BY DEF OneOn
<1>. QED BY <1>1, <1>2, <1>3, <1>4, <1>5

------------------------------------------------------------------------------
LEMMA PutBackKeeps ==
  ASSUME RandInv, NEW p \in Processes, NEW t \in RandThread, Alive(p), PutBack(p, t)
  PROVE  RandInv'
<1>. DEFINE b == call[p][t].buf
            L == <<b>> \o list[p]
            x == <<1, t>>
<1>1. b \in Buffers /\ b.pid = p /\ call[p][t].at = "put"
  BY FillCall DEF PutBack, RandInv, RandTypes
<1>2. /\ list' = [list EXCEPT ![p] = L] /\ Calls(p, t, Idle)
      /\ parent' = parent /\ draws' = draws /\ given' = given /\ twice' = twice
      /\ RandTypes /\ list[p] \in Seq(Buffers) /\ draws \in Nat /\ twice = FALSE
  BY DEF PutBack, RandInv, RandTypes
<1>3. /\ L \in Seq(Buffers) /\ Len(L) = Len(list[p]) + 1 /\ L[1] = b
      /\ \A j \in 1..Len(list[p]) : L[j + 1] = list[p][j]
  <2>1. <<b>> \in Seq(Buffers)
    BY <1>1
  <2>2. Len(<<b>>) = 1 /\ <<b>>[1] = b
    OBVIOUS
  <2>. QED BY <2>1, <2>2, <1>2, ConcatProperties
<1>. HIDE DEF L
<1>4. /\ call'[p][t] = Idle
      /\ \A u \in RandThread \ {t} : call'[p][u] = call[p][u]
      /\ \A q \in Processes \ {p}, u \in RandThread : call'[q][u] = call[q][u]
  BY <1>2, CallMoves
<1>5. /\ list' \in [Processes -> Seq(Buffers)]
      /\ list'[p] = L /\ \A q \in Processes \ {p} : list'[q] = list[q]
  BY <1>2, <1>3, ListMoves
<1>6. RandTypes'
  BY <1>2, <1>5, TypesMove DEF IsCall
<1>7. PidInv' /\ GivenInv'
  <2>1. \A j \in 1..Len(list[p]) : list[p][j].pid \in Processes /\ parent[list[p][j].pid] # 0
    BY DEF RandInv, PidInv, Alive
  <2>2. \A j \in 1..Len(L) : L[j].pid \in Processes /\ parent[L[j].pid] # 0
    <3>. SUFFICES ASSUME NEW j \in 1..Len(L)
                  PROVE  L[j].pid \in Processes /\ parent[L[j].pid] # 0
      OBVIOUS
    <3>1. CASE j = 1
      BY <3>1, <1>1, <1>3 DEF Alive
    <3>2. CASE j # 1
      <4>1. j - 1 \in 1..Len(list[p]) /\ L[(j - 1) + 1] = list[p][j - 1] /\ (j - 1) + 1 = j
        BY <3>2, <1>2, <1>3
      <4>. QED BY <4>1, <2>1
    <3>. QED BY <3>1, <3>2
  <2>3. PidInv'
    BY <2>2, <1>2, <1>5, PidsMove DEF RandInv
  <2>. QED BY <2>3, <1>2 DEF RandInv, GivenInv
<1>8. OthersStay(p)
  BY <1>4, <1>5, OthersAreStill
<1>9. x \in Slot /\ GivesFrom(p, x, 0)
  BY <1>2, SlotsAre DEF GivesFrom
<1>10. ~Mine(p, x)'
  BY <1>4, HandSlot DEF Idle
<1>11. Rearranges(p, OneOn(t), x, 0, 0)
  <2>. SUFFICES ASSUME NEW y \in Slot, Mine(p, y)'
                PROVE  At(p, y)' \in Buffers /\ Comes(p, OneOn(t), y, x, 0, 0)
    BY DEF Rearranges
  <2>1. ASSUME NEW j \in Nat \ {0}, y = <<0, j>>
        PROVE  At(p, y)' \in Buffers /\ Comes(p, OneOn(t), y, x, 0, 0)
    <3>1. j \in 1..Len(L) /\ L[j].pid = p /\ At(p, y)' = L[j]
      BY <2>1, <1>5, ListSlot
    <3>2. CASE j = 1
      <4>1. Mine(p, x) /\ At(p, x) = b
        BY <1>1, HandSlot
      <4>2. OneOn(t)[y] = x /\ At(p, y)' = b
        BY <2>1, <3>1, <3>2, <1>3, OneOnOf
      <4>3. b.used \in 0..PerBuf /\ PerBuf \in Nat
        BY <1>1, BufferFields, PerBufs DEF PerBufIsNat
      <4>. QED BY <4>1, <4>2, <4>3, <1>1 DEF Comes
    <3>3. CASE j # 1
      <4>. DEFINE k == j - 1
      <4>1. k \in 1..Len(list[p]) /\ k \in Nat \ {0} /\ L[k + 1] = list[p][k] /\ k + 1 = j
        BY <3>1, <3>3, <1>2, <1>3
      <4>. HIDE DEF k
      <4>2. OneOn(t)[y] = <<0, k>>
        BY <2>1, <4>1, OneOnOf
      <4>3. At(p, y)' = list[p][k] /\ list[p][k].pid = p
        BY <3>1, <4>1
      <4>. QED BY <4>1, <4>2, <4>3, <1>2, OffTheList
    <3>. QED BY <3>2, <3>3
  <2>2. ASSUME NEW u \in RandThread \ {t}, y = <<1, u>>
        PROVE  At(p, y)' \in Buffers /\ Comes(p, OneOn(t), y, x, 0, 0)
    <3>1. call'[p][u] = call[p][u] /\ OneOn(t)[<<1, u>>] = <<1, u>> /\ x # <<1, u>>
      BY <2>2, <1>4, OneOnOf
    <3>. QED BY <2>2, <3>1, <1>2, OtherHand
  <2>. QED BY <2>1, <2>2, <1>10, SlotCases
<1>12. OneToOne(p, OneOn(t))
  <2>. SUFFICES ASSUME NEW y \in Slot, NEW z \in Slot, y # x, z # x, OneOn(t)[y] = OneOn(t)[z]
                PROVE  y = z
    BY <1>10 DEF OneToOne
  <2>1. ASSUME NEW w \in Slot, w # x
        PROVE  \/ w = <<0, 1>> /\ OneOn(t)[w] = <<1, t>>
               \/ \E j \in Nat \ {0} : w = <<0, j + 1>> /\ OneOn(t)[w] = <<0, j>>
               \/ \E u \in RandThread \ {t} : w = <<1, u>> /\ OneOn(t)[w] = <<1, u>>
    <3>1. CASE \E j \in Nat \ {0} : w = <<0, j>>
      <4>1. PICK j \in Nat \ {0} : w = <<0, j>>
        BY <3>1
      <4>2. j = 1 \/ (j - 1 \in Nat \ {0} /\ (j - 1) + 1 = j)
        OBVIOUS
      <4>. QED BY <4>1, <4>2, OneOnOf
    <3>2. CASE \E u \in RandThread : w = <<1, u>>
      BY <2>1, <3>2, OneOnOf
    <3>. QED BY <3>1, <3>2, SlotCases
  <2>. DEFINE f == OneOn(t)[y]
              g == OneOn(t)[z]
  <2>2. \/ y = <<0, 1>> /\ f = <<1, t>>
        \/ \E j \in Nat \ {0} : y = <<0, j + 1>> /\ f = <<0, j>>
        \/ \E u \in RandThread \ {t} : y = <<1, u>> /\ f = <<1, u>>
    BY <2>1
  <2>3. \/ z = <<0, 1>> /\ f = <<1, t>>
        \/ \E j \in Nat \ {0} : z = <<0, j + 1>> /\ f = <<0, j>>
        \/ \E u \in RandThread \ {t} : z = <<1, u>> /\ f = <<1, u>>
    BY <2>1
  <2>. HIDE DEF f, x
  <2>4. CASE y = <<0, 1>> /\ f = <<1, t>>
    BY <2>3, <2>4
  <2>5. CASE \E j \in Nat \ {0} : y = <<0, j + 1>> /\ f = <<0, j>>
    BY <2>3, <2>5
  <2>6. CASE \E u \in RandThread \ {t} : y = <<1, u>> /\ f = <<1, u>>
    BY <2>3, <2>6
  <2>. QED BY <2>2, <2>4, <2>5, <2>6
<1>13. SlotInv'
  <2>. HIDE DEF x
  <2>. QED BY <1>2, <1>8, <1>9, <1>11, <1>12, OneOnOf, SlotsKeep
<1>. QED BY <1>6, <1>7, <1>13 DEF RandInv

(* Nothing moves but that some buffer may be gone.                         *)
LEMMA QuietKeeps ==
  ASSUME SlotInv, draws' = draws, given' = given,
         \A p \in Processes, x \in Slot : Mine(p, x)' => Mine(p, x) /\ At(p, x)' = At(p, x)
  PROVE  SlotInv'
<1>1. ASSUME NEW p \in Processes, NEW x \in Slot, Mine(p, x)'
      PROVE  Unspent(At(p, x))'
  BY <1>1 DEF SlotInv, Unspent
<1>2. ASSUME NEW p \in Processes, NEW q \in Processes, NEW x \in Slot, NEW y \in Slot,
             Mine(p, x)', Mine(q, y)', <<p, x>> # <<q, y>>
      PROVE  Apart(At(p, x), At(q, y))'
  BY <1>2 DEF SlotInv, Apart
<1>. QED BY <1>1, <1>2 DEF SlotInv

LEMMA SameSlots ==
  ASSUME NEW p \in Processes, call' = call, list'[p] = list[p], NEW x \in Slot, Mine(p, x)'
  PROVE  Mine(p, x) /\ At(p, x)' = At(p, x)
BY DEF Mine, At

LEMMA StillTypes ==
  ASSUME RandTypes, call' = call, list' \in [Processes -> Seq(Buffers)],
         parent' \in [Processes -> Nat], draws' = draws, twice' = twice
  PROVE  RandTypes'
<1>1. \A q \in Processes, u \in RandThread : IsCall(q, call'[q][u])
  BY DEF RandTypes
<1>2. call' = [q \in Processes |-> [u \in RandThread |-> call'[q][u]]]
  BY DEF RandTypes
<1>3. draws' \in Nat /\ twice' = FALSE
  BY DEF RandTypes
<1>. QED BY <1>1, <1>2, <1>3 DEF RandTypes

(* A forked process exists only now: it has no buffer of its own.          *)
LEMMA ForkKeeps ==
  ASSUME RandInv, NEW p \in Processes, NEW q \in Processes, NEW t, Fork(p, q, t)
  PROVE  RandInv'
<1>1. /\ Alive(p) /\ ~Alive(q) /\ parent' = [parent EXCEPT ![q] = p]
      /\ list' = [list EXCEPT ![q] = list[p]] /\ call' = call /\ draws' = draws
      /\ given' = given /\ twice' = twice /\ RandTypes
      /\ parent \in [Processes -> Nat] /\ list[p] \in Seq(Buffers)
  BY DEF Fork, RandInv, RandTypes
<1>2. p \in Nat /\ p # 0
  BY RandAssumption
<1>3. /\ list' \in [Processes -> Seq(Buffers)]
      /\ list'[q] = list[p] /\ \A r \in Processes \ {q} : list'[r] = list[r]
  BY <1>1, ListMoves
<1>4. parent' \in [Processes -> Nat] /\ \A r \in Processes : parent[r] # 0 => parent'[r] # 0
  BY <1>1, <1>2
<1>5. RandTypes'
  BY <1>1, <1>3, <1>4, StillTypes
<1>6. \A r \in Processes : \A j \in 1..Len(list[r]) :
        list[r][j].pid \in Processes /\ parent[list[r][j].pid] # 0
  BY DEF RandInv, PidInv, Alive
<1>7. PidInv'
  <2>1. \A r \in Processes : \A j \in 1..Len(list'[r]) :
          list'[r][j].pid \in Processes /\ parent[list'[r][j].pid] # 0
    BY <1>3, <1>6
  <2>2. \A r \in Processes : \A j \in 1..Len(list'[r]) :
          list'[r][j].pid \in Processes /\ parent'[list'[r][j].pid] # 0
    BY <2>1, <1>4
  <2>. QED BY <2>2 DEF PidInv, Alive
<1>8. GivenInv'
  BY <1>1 DEF RandInv, GivenInv
<1>9. ASSUME NEW r \in Processes, NEW x \in Slot, Mine(r, x)'
      PROVE  Mine(r, x) /\ At(r, x)' = At(r, x)
  <2>1. CASE r # q
    BY <2>1, <1>1, <1>3, <1>9, SameSlots
  <2>2. CASE r = q
    <3>1. ASSUME NEW j \in Nat \ {0}, x = <<0, j>>
          PROVE  FALSE
      <4>1. j \in 1..Len(list'[q]) /\ list'[q][j].pid = q
        BY <3>1, <1>9, <2>2, ListSlot
      <4>. QED BY <4>1, <1>1, <1>3, <1>6 DEF Alive
    <3>2. ASSUME NEW u \in RandThread, x = <<1, u>>
          PROVE  Mine(r, x) /\ At(r, x)' = At(r, x)
      BY <3>2, <1>1, <1>9, HandSlot
    <3>. QED BY <3>1, <3>2, SlotCases
  <2>. QED BY <2>1, <2>2
<1>10. SlotInv'
  BY <1>1, <1>9, QuietKeeps DEF RandInv
<1>. QED BY <1>5, <1>7, <1>8, <1>10 DEF RandInv

LEMMA OrphanKeeps ==
  ASSUME RandInv, NEW p \in Processes, Orphan(p)
  PROVE  RandInv'
<1>1. /\ parent' = [parent EXCEPT ![p] = 1] /\ list' = list /\ call' = call /\ draws' = draws
      /\ given' = given /\ twice' = twice /\ RandTypes /\ parent \in [Processes -> Nat]
  BY DEF Orphan, RandInv, RandTypes
<1>2. parent' \in [Processes -> Nat] /\ \A r \in Processes : parent[r] # 0 => parent'[r] # 0
  BY <1>1
<1>3. RandTypes'
  <2>1. list' \in [Processes -> Seq(Buffers)]
    BY <1>1 DEF RandTypes
  <2>. QED BY <2>1, <1>1, <1>2, StillTypes
<1>4. PidInv' /\ GivenInv'
  BY <1>1, <1>2 DEF RandInv, PidInv, Alive, GivenInv
<1>5. SlotInv'
  BY <1>1, SameSlots, QuietKeeps DEF RandInv
<1>. QED BY <1>3, <1>4, <1>5 DEF RandInv

LEMMA CleanupKeeps ==
  ASSUME RandInv, NEW p \in Processes, Cleanup(p)
  PROVE  RandInv'
<1>1. /\ list' = [list EXCEPT ![p] = <<>>] /\ parent' = parent /\ call' = call /\ draws' = draws
      /\ given' = given /\ twice' = twice /\ RandTypes /\ <<>> \in Seq(Buffers)
  BY DEF Cleanup, RandInv
<1>2. /\ list' \in [Processes -> Seq(Buffers)]
      /\ list'[p] = <<>> /\ \A r \in Processes \ {p} : list'[r] = list[r]
  BY <1>1, ListMoves
<1>3. RandTypes'
  <2>1. parent' \in [Processes -> Nat]
    BY <1>1 DEF RandTypes
  <2>. QED BY <2>1, <1>1, <1>2, StillTypes
<1>4. PidInv' /\ GivenInv'
  <2>1. \A j \in 1..Len(list'[p]) : list'[p][j].pid \in Processes /\ parent[list'[p][j].pid] # 0
    BY <1>2
  <2>2. PidInv'
    BY <2>1, <1>1, <1>2, PidsMove DEF RandInv
  <2>. QED BY <2>2, <1>1 DEF RandInv, GivenInv
<1>5. ASSUME NEW r \in Processes, NEW x \in Slot, Mine(r, x)'
      PROVE  Mine(r, x) /\ At(r, x)' = At(r, x)
  <2>1. CASE r # p
    BY <2>1, <1>1, <1>2, <1>5, SameSlots
  <2>2. CASE r = p
    <3>1. ASSUME NEW j \in Nat \ {0}, x = <<0, j>>
          PROVE  FALSE
      <4>1. j \in 1..Len(list'[p])
        BY <3>1, <1>5, <2>2, ListSlot
      <4>. QED BY <4>1, <1>2
    <3>2. ASSUME NEW u \in RandThread, x = <<1, u>>
          PROVE  Mine(r, x) /\ At(r, x)' = At(r, x)
      BY <3>2, <1>1, <1>5, HandSlot
    <3>. QED BY <3>1, <3>2, SlotCases
  <2>. QED BY <2>1, <2>2
<1>6. SlotInv'
  BY <1>1, <1>5, QuietKeeps DEF RandInv
<1>. QED BY <1>3, <1>4, <1>6 DEF RandInv

------------------------------------------------------------------------------
(* Bytes drawn for the caller alone.                                       *)
LEMMA DirectKeeps ==
  ASSUME RandInv, NEW p, NEW t, NEW n \in Nat, Direct(p, t, n)
  PROVE  RandInv'
<1>. DEFINE new == {<<draws, i>> : i \in 1..n}
<1>1. /\ draws' = draws + 1 /\ given' = given \union new
      /\ twice' = (twice \/ new \intersect given # {})
      /\ list' = list /\ parent' = parent /\ call' = call /\ draws \in Nat /\ twice = FALSE
      /\ list \in [Processes -> Seq(Buffers)]
  BY DEF Direct, Gives, RandInv, RandTypes
<1>2. given \subseteq {<<d, i>> : d \in 0..draws - 1, i \in Nat}
  BY DEF RandInv, GivenInv
<1>3. new \intersect given = {}
  <2>. SUFFICES ASSUME NEW y \in new, y \in given
                PROVE  FALSE
    OBVIOUS
  <2>1. PICK i \in 1..n : y = <<draws, i>>
    OBVIOUS
  <2>2. PICK d \in 0..draws - 1, k \in Nat : y = <<d, k>>
    BY <1>2
  <2>. QED BY <2>1, <2>2, <1>1
<1>4. new \subseteq {<<d, i>> : d \in 0..draws, i \in Nat}
  BY <1>1
<1>5. given \subseteq {<<d, i>> : d \in 0..draws, i \in Nat}
  <2>1. 0..draws - 1 \subseteq 0..draws
    BY <1>1
  <2>. QED BY <2>1, <1>2
<1>6. \A d, i : d # draws => <<d, i>> \notin new
  OBVIOUS
<1>. HIDE DEF new
<1>7. GivenInv'
  <2>1. 0..draws' - 1 = 0..draws
    BY <1>1
  <2>. QED BY <2>1, <1>1, <1>4, <1>5 DEF GivenInv
<1>8. RandTypes'
  <2>1. \A q \in Processes, u \in RandThread : IsCall(q, call'[q][u])
    BY <1>1 DEF RandInv, RandTypes
  <2>2. call' = [q \in Processes |-> [u \in RandThread |-> call'[q][u]]]
    BY <1>1 DEF RandInv, RandTypes
  <2>3. draws' \in Nat /\ parent' \in [Processes -> Nat]
    BY <1>1 DEF RandInv, RandTypes
  <2>4. twice' = FALSE
    BY <1>1, <1>3, Zenon
  <2>. QED BY <2>1, <2>2, <2>3, <2>4, <1>1 DEF RandTypes
<1>9. PidInv'
  BY <1>1 DEF RandInv, PidInv, Alive
<1>10. ASSUME NEW q \in Processes, NEW x \in Slot, Mine(q, x)'
       PROVE  Mine(q, x) /\ At(q, x)' = At(q, x)
  BY <1>1, <1>10, SameSlots
<1>11. ASSUME NEW q \in Processes, NEW x \in Slot, Mine(q, x)'
       PROVE  Unspent(At(q, x))'
  <2>1. Mine(q, x) /\ At(q, x)' = At(q, x)
    BY <1>10, <1>11
  <2>2. PICK b \in Buffers : b = At(q, x) /\ b = At(q, x)'
    BY <2>1, SlotTypes DEF RandInv
  <2>3. Unspent(b)
    BY <2>1, <2>2 DEF RandInv, SlotInv
  <2>4. b.batch \in Nat
    BY <2>2, BufferFields
  <2>5. CASE b.used = PerBuf
    BY <2>2, <2>5 DEF Unspent
  <2>6. CASE b.batch < draws /\ \A i \in b.used + 1..PerBuf : <<b.batch, i>> \notin given
    <3>1. b.batch # draws /\ b.batch < draws'
      BY <2>4, <2>6, <1>1
    <3>2. \A i \in b.used + 1..PerBuf : <<b.batch, i>> \notin given'
      BY <3>1, <2>6, <1>1, <1>6
    <3>. QED BY <2>2, <3>1, <3>2 DEF Unspent
  <2>. QED BY <2>3, <2>5, <2>6 DEF Unspent
<1>12. ASSUME NEW q \in Processes, NEW r \in Processes, NEW x \in Slot, NEW y \in Slot,
             Mine(q, x)', Mine(r, y)', <<q, x>> # <<r, y>>
      PROVE  Apart(At(q, x), At(r, y))'
  BY <1>10, <1>12 DEF RandInv, SlotInv, Apart
<1>13. SlotInv'
  BY <1>11, <1>12 DEF SlotInv
<1>. QED BY <1>7, <1>8, <1>9, <1>13 DEF RandInv

LEMMA LockedKeeps ==
  ASSUME RandInv, NEW p \in Processes, NEW t \in RandThread, Locked(p, t)
  PROVE  RandInv'
<1>1. ASSUME NEW pp \in Nat, NEW n \in Nat, call[p][t].at \in {"idle", "retry"},
             Serve(p, pp, t, n)
      PROVE  RandInv'
  <2>1. CASE FromHead(p, pp, t, n)
    BY <1>1, <2>1, FromHeadKeeps
  <2>2. CASE TakeHead(p, pp, t, n)
    BY <1>1, <2>2, TakeEmptyKeeps, TakeOffKeeps
  <2>. QED BY <1>1, <2>1, <2>2 DEF Serve
<1>2. CASE call[p][t] = Idle /\ \E n \in 1..Large : Serve(p, parent[p], t, n)
  <2>1. PICK n \in 1..Large : Serve(p, parent[p], t, n)
    BY <1>2
  <2>2. n \in Nat /\ parent[p] \in Nat /\ call[p][t].at \in {"idle", "retry"}
    BY <1>2, RandAssumption DEF Idle, RandInv, RandTypes
  <2>. QED BY <1>1, <2>1, <2>2
<1>3. CASE call[p][t].at = "retry" /\ Serve(p, call[p][t].ppid, t, call[p][t].need)
  <2>. DEFINE c == call[p][t]
  <2>1. IsCall(p, c) /\ c.at = "retry"
    BY <1>3 DEF RandInv, RandTypes
  <2>. HIDE DEF c
  <2>2. c.ppid \in Nat /\ c.need \in Nat
    <3>1. CASE c = Idle
      BY <2>1, <3>1 DEF Idle
    <3>2. CASE \E n \in Nat, pp \in Nat : c = [at |-> "retry", need |-> n, ppid |-> pp]
      BY <3>2
    <3>3. CASE \E n \in Nat, b \in Buffers : b.pid = p /\ c = [at |-> "fill", need |-> n, buf |-> b]
      BY <2>1, <3>3
    <3>4. CASE \E b \in Buffers : b.pid = p /\ c = [at |-> "put", need |-> 0, buf |-> b]
      BY <2>1, <3>4
    <3>. QED BY <2>1, <3>1, <3>2, <3>3, <3>4 DEF IsCall
  <2>3. call[p][t].ppid \in Nat /\ call[p][t].need \in Nat
    BY <2>2 DEF c
  <2>. QED BY <1>1, <1>3, <2>3
<1>. QED BY <1>2, <1>3 DEF Locked

LEMMA RandStep == RandInv /\ [RandNext]_randVars => RandInv'
<1>. SUFFICES ASSUME RandInv, [RandNext]_randVars
              PROVE  RandInv'
  OBVIOUS
<1>1. ASSUME NEW p \in Processes, NEW t \in RandThread, NEW n \in 1..MaxRequest, Direct(p, t, n)
      PROVE  RandInv'
  BY <1>1, DirectKeeps
<1>2. ASSUME NEW p \in Processes, NEW t \in RandThread, Locked(p, t)
      PROVE  RandInv'
  BY <1>2, LockedKeeps
<1>3. ASSUME NEW p \in Processes, NEW t \in RandThread, Fill(p, t)
      PROVE  RandInv'
  BY <1>3, FillKeeps
<1>4. ASSUME NEW p \in Processes, NEW t \in RandThread, RunsIn(p, t), PutBack(p, t)
      PROVE  RandInv'
  BY <1>4, PutBackKeeps DEF RunsIn
<1>5. ASSUME NEW p \in Processes, NEW q \in Processes, NEW t \in RandThread, Fork(p, q, t)
      PROVE  RandInv'
  BY <1>5, ForkKeeps
<1>6. ASSUME NEW p \in Processes, Orphan(p)
      PROVE  RandInv'
  BY <1>6, OrphanKeeps
<1>7. ASSUME NEW p \in Processes, Cleanup(p)
      PROVE  RandInv'
  BY <1>7, CleanupKeeps
<1>8. CASE UNCHANGED randVars
  <2>1. /\ list' = list /\ parent' = parent /\ call' = call /\ draws' = draws
        /\ given' = given /\ twice' = twice
    BY <1>8 DEF randVars
  <2>2. list \in [Processes -> Seq(Buffers)] /\ parent \in [Processes -> Nat]
    BY DEF RandInv, RandTypes
  <2>3. RandTypes'
    BY <2>1, <2>2, StillTypes DEF RandInv
  <2>4. PidInv' /\ GivenInv'
    BY <2>1 DEF RandInv, PidInv, Alive, GivenInv
  <2>5. SlotInv'
    BY <2>1, SameSlots, QuietKeeps DEF RandInv
  <2>. QED BY <2>3, <2>4, <2>5 DEF RandInv
<1>. QED BY <1>1, <1>2, <1>3, <1>4, <1>5, <1>6, <1>7, <1>8 DEF RandNext

LEMMA RandStart == RandInit => RandInv
<1>. SUFFICES ASSUME RandInit
              PROVE  RandInv
  OBVIOUS
<1>1. RandTypes
  <2>1. <<>> \in Seq(Buffers)
    OBVIOUS
  <2>2. list \in [Processes -> Seq(Buffers)] /\ parent \in [Processes -> Nat]
    BY <2>1 DEF RandInit
  <2>3. \A p \in Processes, t \in RandThread : call[p][t] = Idle
    BY DEF RandInit
  <2>4. call = [p \in Processes |-> [t \in RandThread |-> call[p][t]]]
    BY DEF RandInit
  <2>. QED BY <2>2, <2>3, <2>4 DEF RandInit, RandTypes, IsCall
<1>2. \A p \in Processes : \A j : j \notin 1..Len(list[p])
  BY DEF RandInit
<1>3. \A p \in Processes, x \in Slot : ~Mine(p, x)
  <2>. SUFFICES ASSUME NEW p \in Processes, NEW x \in Slot, Mine(p, x)
                PROVE  FALSE
    OBVIOUS
  <2>1. CASE \E j \in Nat \ {0} : x = <<0, j>>
    BY <2>1, <1>2, ListSlot
  <2>2. CASE \E u \in RandThread : x = <<1, u>>
    <3>1. PICK u \in RandThread : x = <<1, u>>
      BY <2>2
    <3>2. call[p][u].at = "idle"
      BY DEF RandInit, Idle
    <3>. QED BY <3>1, <3>2, HandSlot
  <2>. QED BY <2>1, <2>2, SlotCases
<1>4. PidInv /\ GivenInv
  BY <1>2 DEF RandInit, PidInv, GivenInv
<1>5. SlotInv
  BY <1>3 DEF SlotInv
<1>. QED BY <1>1, <1>4, <1>5 DEF RandInv

LEMMA ApartIsDisjoint ==
  ASSUME NEW b \in Buffers, NEW c \in Buffers, Apart(b, c)
  PROVE  Bytes(b, PerBuf - b.used) \intersect Bytes(c, PerBuf - c.used) = {}
<1>1. b.used \in 0..PerBuf /\ c.used \in 0..PerBuf /\ PerBuf \in Nat
  BY BufferFields, PerBufs DEF PerBufIsNat
<1>2. CASE b.used = PerBuf
  <2>1. b.used + 1 .. b.used + (PerBuf - b.used) = {}
    BY <1>1, <1>2
  <2>. QED BY <2>1 DEF Bytes
<1>3. CASE c.used = PerBuf
  <2>1. c.used + 1 .. c.used + (PerBuf - c.used) = {}
    BY <1>1, <1>3
  <2>. QED BY <2>1 DEF Bytes
<1>4. CASE b.batch # c.batch
  BY <1>4 DEF Bytes
<1>. QED BY <1>2, <1>3, <1>4 DEF Apart

LEMMA UsableIsMine ==
  ASSUME RandTypes, NEW p \in Processes, NEW x \in Usable(p)
  PROVE  x \in Slot /\ Mine(p, x)
<1>1. list[p] \in Seq(Buffers) /\ DOMAIN list[p] = 1..Len(list[p])
  BY DEF RandTypes
<1>2. CASE \E j \in DOMAIN list[p] : Own(list[p][j], p, parent[p]) /\ x = <<0, j>>
  <2>1. PICK j \in 1..Len(list[p]) : Own(list[p][j], p, parent[p]) /\ x = <<0, j>>
    BY <1>1, <1>2
  <2>2. j \in Nat \ {0}
    BY <1>1
  <2>. QED BY <2>1, <2>2, ListSlot DEF Own
<1>3. CASE \E u \in RandThread : call[p][u].at \in {"fill", "put"} /\ x = <<1, u>>
  BY <1>3, HandSlot
<1>. QED BY <1>2, <1>3 DEF Usable

(* No random byte is given out twice, each call is filled, and no two      *)
(* buffers of any threads or processes have an unused byte in common, for  *)
(* any number of processes, threads, buffers and draws (RAND_bytes,        *)
(* "processes that fork will discard all the buffers filled by the parent  *)
(* process").                                                              *)
THEOREM RandomIsFreshAlways == RandSpec => []RandomIsFresh
<1>1. ASSUME RandInv
      PROVE  RandomIsFresh
  <2>1. NoByteTwice
    BY <1>1 DEF NoByteTwice, RandInv, RandTypes
  <2>2. RequestsAreFilled
    <3>. SUFFICES ASSUME NEW p \in Processes, NEW t \in RandThread, call[p][t].at = "put"
                  PROVE  call[p][t].need = 0
      BY DEF RequestsAreFilled
    <3>1. IsCall(p, call[p][t])
      BY <1>1 DEF RandInv, RandTypes
    <3>. QED BY <3>1, FillCall
  <2>3. BuffersAreDisjoint
    <3>. SUFFICES ASSUME NEW p \in Processes, NEW q \in Processes,
                         NEW x \in Usable(p), NEW y \in Usable(q)
                  PROVE  /\ At(p, x).used <= PerBuf
                         /\ <<p, x>> # <<q, y>> =>
                              Bytes(At(p, x), PerBuf - At(p, x).used)
                                \intersect Bytes(At(q, y), PerBuf - At(q, y).used) = {}
      BY DEF BuffersAreDisjoint
    <3>1. x \in Slot /\ Mine(p, x) /\ y \in Slot /\ Mine(q, y)
      BY <1>1, UsableIsMine DEF RandInv
    <3>2. At(p, x) \in Buffers /\ At(q, y) \in Buffers
      BY <1>1, <3>1, SlotTypes DEF RandInv
    <3>3. At(p, x).used <= PerBuf
      BY <3>2, BufferFields, PerBufs DEF PerBufIsNat
    <3>4. <<p, x>> # <<q, y>> => Apart(At(p, x), At(q, y))
      BY <1>1, <3>1 DEF RandInv, SlotInv
    <3>. QED BY <3>2, <3>3, <3>4, ApartIsDisjoint
  <2>. QED BY <2>1, <2>2, <2>3 DEF RandomIsFresh
<1>. QED BY RandStart, RandStep, <1>1, PTL DEF RandSpec

------------------------------------------------------------------------------
Places == 0..NumErrors - 1
Errs == [packed : Nat, data : Strings \union {0}, mark : BOOLEAN]

(* The place k behind b, and how many places the errors take.              *)
Spot(b, k) == IF b + k < NumErrors THEN b + k ELSE b + k - NumErrors
Count(t, b) == IF t >= b THEN t - b ELSE t + NumErrors - b

Entry(e) == [code |-> e.packed, marked |-> e.mark]
Entries == [code : Nat, marked : BOOLEAN]
Line(es, t, b) == [k \in 1..Count(t, b) |-> Entry(es[Spot(b, k)])]

OwnedOnce(es, ow) ==
  /\ \A i \in Places : es[i].data \notin ow
  /\ \A i, j \in Places : es[i].data # 0 /\ es[i].data = es[j].data => i = j

ErrTypes ==
  /\ errors \in [Places -> Errs] /\ errTop \in Places /\ errBottom \in Places
  /\ owned \subseteq Strings
ErrInv == ErrTypes /\ OwnedOnce(errors, owned)

LEMMA RingSize == NumErrors \in Nat /\ NumErrors > 1 /\ 0 \notin Strings /\ ErrorCode \subseteq Nat \ {0}
BY ErrorAssumption

LEMMA RingMod ==
  ASSUME NEW x \in 0..2 * NumErrors - 1
  PROVE  x % NumErrors = IF x < NumErrors THEN x ELSE x - NumErrors
BY ErrorAssumption

LEMMA ModInRing ==
  ASSUME NEW x \in Int
  PROVE  x % NumErrors \in Places
BY ErrorAssumption DEF Places

LEMMA Followings ==
  ASSUME NEW i \in Places
  PROVE  Following(i) = Spot(i, 1) /\ Following(i) \in Places
<1>1. i + 1 \in 0..2 * NumErrors - 1
  BY RingSize DEF Places
<1>. QED BY <1>1, RingMod, RingSize DEF Following, Spot, Places

LEMMA Counts ==
  ASSUME NEW t \in Places, NEW b \in Places
  PROVE  /\ Count(t, b) \in Places /\ (Count(t, b) = 0 <=> t = b)
         /\ Spot(b, Count(t, b)) = t /\ (t + NumErrors - b) % NumErrors = Count(t, b)
<1>1. t + NumErrors - b \in 0..2 * NumErrors - 1
  BY RingSize DEF Places
<1>. QED BY <1>1, RingMod, RingSize DEF Count, Spot, Places

LEMMA Spots ==
  ASSUME NEW b \in Places, NEW k \in Places
  PROVE  /\ Spot(b, k) \in Places /\ Spot(b, 0) = b
         /\ (b + k) % NumErrors = Spot(b, k)
         /\ \A j \in Places : Spot(b, j) = Spot(b, k) => j = k
         /\ k # 0 => Preceding(Spot(b, k)) = Spot(b, k - 1)
         /\ k + 1 \in Places => Spot(Following(b), k) = Spot(b, k + 1)
<1>1. b + k \in 0..2 * NumErrors - 1
  BY RingSize DEF Places
<1>2. Following(b) = Spot(b, 1)
  BY Followings
<1>. QED BY <1>1, <1>2, RingMod, RingSize DEF Preceding, Spot, Places

LEMMA LineIs ==
  ASSUME NEW es \in [Places -> Errs], NEW t \in Places, NEW b \in Places
  PROVE  /\ Line(es, t, b) \in Seq(Entries) /\ Len(Line(es, t, b)) = Count(t, b)
         /\ \A k \in 1..Count(t, b) : k \in Places /\ Spot(b, k) \in Places
                                      /\ es[Spot(b, k)] \in Errs
                                      /\ Line(es, t, b)[k] = Entry(es[Spot(b, k)])
<1>1. Count(t, b) \in Places /\ Count(t, b) \in Nat
  <2>1. Count(t, b) \in Places
    BY Counts
  <2>. QED BY <2>1, RingSize DEF Places
<1>2. \A k \in 1..Count(t, b) : k \in Places
  BY <1>1, RingSize DEF Places
<1>3. \A k \in 1..Count(t, b) : k \in Places /\ Spot(b, k) \in Places /\ es[Spot(b, k)] \in Errs
  BY <1>2, Spots
<1>4. \A e \in Errs : Entry(e) \in Entries
  BY DEF Errs, Entry, Entries
<1>5. Line(es, t, b) \in [1..Count(t, b) -> Entries]
  BY <1>3, <1>4 DEF Line
<1>6. Line(es, t, b) \in Seq(Entries) /\ Len(Line(es, t, b)) = Count(t, b)
  BY <1>1, <1>5
<1>. QED BY <1>3, <1>6 DEF Line

Raw(es, t, b) ==
  [k \in 1..((t + NumErrors - b) % NumErrors) |->
     LET e == es[(b + k) % NumErrors]
     IN  [code |-> e.packed, marked |-> e.mark]]

LEMMA RawIs ==
  ASSUME NEW es, NEW t \in Places, NEW b \in Places
  PROVE  Raw(es, t, b) = Line(es, t, b)
<1>1. (t + NumErrors - b) % NumErrors = Count(t, b) /\ Count(t, b) \in Places
  BY Counts
<1>2. \A k \in 1..Count(t, b) : k \in Places
  BY <1>1, RingSize DEF Places
<1>3. \A k \in 1..Count(t, b) : (b + k) % NumErrors = Spot(b, k)
  BY <1>2, Spots
<1>. QED BY <1>1, <1>3 DEF Raw, Line, Entry

LEMMA QueuedIs ==
  ASSUME errTop \in Places, errBottom \in Places, errTop' \in Places, errBottom' \in Places
  PROVE  Queued = Line(errors, errTop, errBottom) /\ Queued' = Line(errors', errTop', errBottom')
<1>1. Queued = Raw(errors, errTop, errBottom) /\ Queued' = Raw(errors', errTop', errBottom')
  BY DEF Queued, Raw
<1>. QED BY <1>1, RawIs

(* Two lines are the same if they have the same places.                    *)
LEMMA SameLine ==
  ASSUME NEW q \in Seq(Entries), NEW r \in Seq(Entries), Len(q) = Len(r),
         \A k \in 1..Len(q) : q[k] = r[k]
  PROVE  q = r
OBVIOUS

LEMMA OwnedOnceIs ==
  ASSUME NEW es \in [Places -> Errs], NEW ow \in SUBSET Strings, OwnedOnce(es, ow)
  PROVE  /\ ow \intersect ({es[i].data : i \in DOMAIN es} \ {0}) = {}
         /\ \A i, j \in DOMAIN es : es[i].data # 0 /\ es[i].data = es[j].data => i = j
<1>1. DOMAIN es = Places
  OBVIOUS
<1>. QED BY <1>1 DEF OwnedOnce

------------------------------------------------------------------------------
(* ERR_pop_to_mark.  Popping is the function whose value is found by going *)
(* down from a place as far as no mark stops it.                           *)
Back(top, j) == IF top >= j THEN top - j ELSE top + NumErrors - j
Stops(i) == i = errBottom \/ errors[i].mark
Goes(top, j) == \A i \in 0..j : ~Stops(Back(top, i))
Closed == [n \in 0..NumErrors |-> [top \in 0..(NumErrors - 1) |->
             {Back(top, j) : j \in {k \in 0..n - 1 : Goes(top, k)}}]]
Unfolds(f) ==
  f = [n \in 0..NumErrors |-> [top \in 0..(NumErrors - 1) |->
         IF n = 0 \/ top = errBottom \/ errors[top].mark THEN {}
         ELSE {top} \union f[n - 1][Preceding(top)]]]

LEMMA BackIs ==
  ASSUME NEW top \in Places
  PROVE  /\ Back(top, 0) = top /\ Preceding(top) \in Places
         /\ \A j \in 0..NumErrors - 2 : Back(Preceding(top), j) = Back(top, j + 1)
BY RingSize DEF Back, Preceding, Places

LEMMA GoesOn ==
  ASSUME NEW top \in Places, ~Stops(top), NEW j \in 0..NumErrors - 2
  PROVE  Goes(Preceding(top), j) <=> Goes(top, j + 1)
<1>0. j \in Nat /\ NumErrors \in Nat
  BY RingSize
<1>1. ASSUME Goes(Preceding(top), j), NEW i \in 0..j + 1
      PROVE  ~Stops(Back(top, i))
  <2>1. CASE i = 0
    BY <2>1, BackIs
  <2>2. CASE i # 0
    <3>1. i - 1 \in 0..j /\ i - 1 \in 0..NumErrors - 2 /\ (i - 1) + 1 = i
      BY <2>2, <1>0
    <3>2. Back(Preceding(top), i - 1) = Back(top, (i - 1) + 1)
      BY <3>1, BackIs
    <3>. QED BY <1>1, <3>1, <3>2 DEF Goes
  <2>. QED BY <2>1, <2>2
<1>2. ASSUME Goes(top, j + 1), NEW i \in 0..j
      PROVE  ~Stops(Back(Preceding(top), i))
  <2>1. i + 1 \in 0..j + 1 /\ i \in 0..NumErrors - 2
    BY <1>0
  <2>2. Back(Preceding(top), i) = Back(top, i + 1)
    BY <2>1, BackIs
  <2>. QED BY <1>2, <2>1, <2>2 DEF Goes
<1>. QED BY <1>1, <1>2 DEF Goes

LEMMA ClosedUnfolds == Unfolds(Closed)
<1>0. NumErrors \in Nat
  BY RingSize
<1>1. ASSUME NEW n \in 0..NumErrors, NEW top \in Places
      PROVE  Closed[n][top] = IF n = 0 \/ top = errBottom \/ errors[top].mark THEN {}
                              ELSE {top} \union Closed[n - 1][Preceding(top)]
  <2>. DEFINE S(m, u) == {Back(u, j) : j \in {k \in 0..m - 1 : Goes(u, k)}}
  <2>1. \A m \in 0..NumErrors, u \in Places : Closed[m][u] = S(m, u)
    BY DEF Closed, Places
  <2>2. CASE n = 0
    <3>1. 0..n - 1 = {}
      BY <2>2
    <3>. QED BY <2>1, <2>2, <3>1
  <2>3. CASE n # 0 /\ Stops(top)
    <3>1. \A k \in 0..n - 1 : ~Goes(top, k)
      <4>1. \A k \in 0..n - 1 : 0 \in 0..k
        BY <1>0
      <4>. QED BY <4>1, <2>3, BackIs DEF Goes
    <3>2. S(n, top) = {}
      BY <3>1
    <3>. QED BY <2>1, <2>3, <3>2 DEF Stops
  <2>4. CASE n # 0 /\ ~Stops(top)
    <3>1. n - 1 \in 0..NumErrors /\ Preceding(top) \in Places
      BY <2>4, <1>0, BackIs
    <3>2. \A k \in 0..(n - 1) - 1 : k \in 0..NumErrors - 2 /\ k + 1 \in 0..n - 1
      BY <1>0, <2>4
    <3>3. \A y \in S(n - 1, Preceding(top)) : y \in S(n, top)
      <4>. SUFFICES ASSUME NEW k \in 0..(n - 1) - 1, Goes(Preceding(top), k)
                    PROVE  Back(Preceding(top), k) \in S(n, top)
        OBVIOUS
      <4>1. k \in 0..NumErrors - 2 /\ k + 1 \in 0..n - 1
        BY <3>2
      <4>2. Goes(top, k + 1) /\ Back(Preceding(top), k) = Back(top, k + 1)
        BY <4>1, <2>4, GoesOn, BackIs
      <4>. QED BY <4>1, <4>2
    <3>4. top \in S(n, top)
      <4>1. 0 \in 0..n - 1 /\ Back(top, 0) = top
        BY <1>0, <2>4, BackIs
      <4>2. Goes(top, 0)
        <5>1. \A i \in 0..0 : i = 0
          OBVIOUS
        <5>. QED BY <5>1, <4>1, <2>4 DEF Goes
      <4>. QED BY <4>1, <4>2
    <3>5. \A y \in S(n, top) : y = top \/ y \in S(n - 1, Preceding(top))
      <4>. SUFFICES ASSUME NEW j \in 0..n - 1, Goes(top, j), j # 0
                    PROVE  Back(top, j) \in S(n - 1, Preceding(top))
        BY BackIs
      <4>1. j - 1 \in 0..(n - 1) - 1 /\ (j - 1) + 1 = j /\ j - 1 \in 0..NumErrors - 2
        BY <1>0
      <4>2. Goes(Preceding(top), j - 1) /\ Back(Preceding(top), j - 1) = Back(top, (j - 1) + 1)
        BY <4>1, <2>4, GoesOn, BackIs
      <4>. QED BY <4>1, <4>2
    <3>6. S(n, top) = {top} \union S(n - 1, Preceding(top))
      BY <3>3, <3>4, <3>5
    <3>7. Closed[n][top] = S(n, top) /\ Closed[n - 1][Preceding(top)] = S(n - 1, Preceding(top))
      BY <2>1, <3>1
    <3>. HIDE DEF S
    <3>. QED BY <2>4, <3>6, <3>7 DEF Stops
  <2>. QED BY <2>2, <2>3, <2>4
<1>2. Closed = [n \in 0..NumErrors |-> [top \in 0..(NumErrors - 1) |-> Closed[n][top]]]
  BY DEF Closed
<1>3. [n \in 0..NumErrors |-> [top \in 0..(NumErrors - 1) |-> Closed[n][top]]]
      = [n \in 0..NumErrors |-> [top \in 0..(NumErrors - 1) |->
           IF n = 0 \/ top = errBottom \/ errors[top].mark THEN {}
           ELSE {top} \union Closed[n - 1][Preceding(top)]]]
  BY <1>1 DEF Places
<1>. QED BY <1>2, <1>3, Zenon DEF Unfolds

LEMMA PoppingUnfolds == Unfolds(Popping)
<1>1. \E f : Unfolds(f)
  BY ClosedUnfolds
<1>. DEFINE g == CHOOSE f : Unfolds(f)
<1>2. Unfolds(g)
  BY <1>1, Zenon
<1>3. Popping = g
  BY Zenon DEF Popping, Unfolds
<1>. HIDE DEF g
<1>. QED BY <1>2, <1>3

LEMMA PoppingIs ==
  ASSUME NEW n \in 0..NumErrors, NEW top \in Places
  PROVE  Popping[n][top] = IF n = 0 \/ top = errBottom \/ errors[top].mark THEN {}
                           ELSE {top} \union Popping[n - 1][Preceding(top)]
<1>. DEFINE P == Popping
<1>1. Unfolds(P)
  BY PoppingUnfolds
<1>. HIDE DEF P
<1>2. P[n][top] = IF n = 0 \/ top = errBottom \/ errors[top].mark THEN {}
                  ELSE {top} \union P[n - 1][Preceding(top)]
  <2>1. P = [m \in 0..NumErrors |-> [u \in 0..(NumErrors - 1) |->
              IF m = 0 \/ u = errBottom \/ errors[u].mark THEN {}
              ELSE {u} \union P[m - 1][Preceding(u)]]]
    BY <1>1 DEF Unfolds
  <2>2. P[n] = [u \in 0..(NumErrors - 1) |->
                  IF n = 0 \/ u = errBottom \/ errors[u].mark THEN {}
                  ELSE {u} \union P[n - 1][Preceding(u)]]
    BY <2>1, Zenon
  <2>3. top \in 0..(NumErrors - 1)
    BY DEF Places
  <2>. QED BY <2>2, <2>3, Zenon
<1>. QED BY <1>2 DEF P

------------------------------------------------------------------------------
Marked(k) == errors[Spot(errBottom, k)].mark
(* From place k of the ring the first mark down is at m, or there is none  *)
(* and m is 0; what is popped in n rounds is what is between.              *)
StopsAt(k, m) == (m = 0 \/ Marked(m)) /\ \A i \in m + 1..k : ~Marked(i)
PopsTo(n, k, m) ==
  /\ Popping[n][Spot(errBottom, k)] = {Spot(errBottom, j) : j \in m + 1..k}
  /\ IsFiniteSet(Popping[n][Spot(errBottom, k)])
  /\ Cardinality(Popping[n][Spot(errBottom, k)]) = k - m
Down(k) == \A n \in k..NumErrors : \E m \in 0..k : StopsAt(k, m) /\ PopsTo(n, k, m)

LEMMA DownFromBottom ==
  ASSUME ErrTypes
  PROVE  Down(0)
<1>. SUFFICES ASSUME NEW n \in 0..NumErrors
              PROVE  StopsAt(0, 0) /\ PopsTo(n, 0, 0)
  BY DEF Down
<1>1. errBottom \in Places /\ 0 \in Places
  BY RingSize DEF ErrTypes, Places
<1>2. Spot(errBottom, 0) = errBottom
  BY <1>1, Spots
<1>3. Popping[n][errBottom] = {}
  BY <1>1, PoppingIs
<1>4. 0 + 1..0 = {}
  OBVIOUS
<1>. QED BY <1>2, <1>3, <1>4, FS_EmptySet DEF StopsAt, PopsTo

LEMMA DownOnce ==
  ASSUME ErrTypes, NEW k \in Places, k # 0, Down(k - 1)
  PROVE  Down(k)
<1>. SUFFICES ASSUME NEW n \in k..NumErrors
              PROVE  \E m \in 0..k : StopsAt(k, m) /\ PopsTo(n, k, m)
  BY DEF Down
<1>. DEFINE b == errBottom
            s == Spot(b, k)
<1>1. b \in Places /\ 0 \in Places /\ k - 1 \in Places /\ k \in Nat /\ k - 1 \in Nat
  BY RingSize DEF ErrTypes, Places
<1>2. n \in 0..NumErrors /\ n # 0 /\ n - 1 \in k - 1..NumErrors
  BY RingSize, <1>1
<1>3. s \in Places /\ s # b /\ Preceding(s) = Spot(b, k - 1)
        /\ \A j \in Places : j # k => Spot(b, j) # s
  <2>1. Spot(b, 0) = b
    BY <1>1, Spots
  <2>2. s \in Places /\ (\A j \in Places : Spot(b, j) = s => j = k) /\ Preceding(s) = Spot(b, k - 1)
    BY <1>1, Spots
  <2>. QED BY <1>1, <2>1, <2>2
<1>4. Popping[n][s] = IF errors[s].mark THEN {} ELSE {s} \union Popping[n - 1][Spot(b, k - 1)]
  <2>1. Popping[n][s] = IF n = 0 \/ s = errBottom \/ errors[s].mark THEN {}
                        ELSE {s} \union Popping[n - 1][Preceding(s)]
    BY <1>2, <1>3, PoppingIs
  <2>. QED BY <2>1, <1>2, <1>3
<1>5. CASE errors[s].mark
  <2>1. StopsAt(k, k)
    BY <1>1, <1>5 DEF StopsAt, Marked
  <2>2. k + 1..k = {} /\ k - k = 0
    BY <1>1
  <2>3. PopsTo(n, k, k)
    BY <1>4, <1>5, <2>2, FS_EmptySet DEF PopsTo
  <2>4. k \in 0..k
    BY <1>1
  <2>. QED BY <2>1, <2>3, <2>4
<1>6. CASE ~errors[s].mark
  <2>1. PICK m \in 0..k - 1 : StopsAt(k - 1, m) /\ PopsTo(n - 1, k - 1, m)
    BY <1>2 DEF Down
  <2>. DEFINE rest == Popping[n - 1][Spot(b, k - 1)]
  <2>2. /\ rest = {Spot(b, j) : j \in m + 1..k - 1}
        /\ IsFiniteSet(rest) /\ Cardinality(rest) = (k - 1) - m
    BY <2>1 DEF PopsTo
  <2>3. \A j \in m + 1..k - 1 : j \in Places /\ j # k
    BY <1>1, RingSize DEF Places
  <2>4. s \notin rest
    BY <1>3, <2>2, <2>3
  <2>5. \A j \in m + 1..k : j = k \/ j \in m + 1..k - 1
    BY <1>1
  <2>6. k \in m + 1..k /\ \A j \in m + 1..k - 1 : j \in m + 1..k
    BY <1>1
  <2>7. {Spot(b, j) : j \in m + 1..k} = {s} \union {Spot(b, j) : j \in m + 1..k - 1}
    BY <2>5, <2>6
  <2>. HIDE DEF rest
  <2>8. IsFiniteSet(rest \union {s}) /\ Cardinality(rest \union {s}) = Cardinality(rest) + 1
    BY <2>2, <2>4, FS_AddElement
  <2>9. Popping[n][s] = {s} \union rest
    BY <1>4, <1>6 DEF rest
  <2>10. Popping[n][s] = rest \union {s} /\ Popping[n][s] = {Spot(b, j) : j \in m + 1..k}
    BY <2>2, <2>7, <2>9
  <2>11. Cardinality(rest) + 1 = k - m
    BY <2>2, <1>1
  <2>12. PopsTo(n, k, m)
    BY <2>8, <2>10, <2>11 DEF PopsTo
  <2>13. StopsAt(k, m)
    BY <1>6, <2>1, <2>5 DEF StopsAt, Marked
  <2>14. m \in 0..k
    BY <1>1
  <2>. QED BY <2>12, <2>13, <2>14
<1>. QED BY <1>5, <1>6

LEMMA AllDown ==
  ASSUME ErrTypes, NEW k \in Places
  PROVE  Down(k)
<1>. SUFFICES ASSUME ~Down(k)
              PROVE  FALSE
  OBVIOUS
<1>. DEFINE bad == {j \in Places : ~Down(j)}
<1>1. bad \in SUBSET Nat /\ bad # {}
  BY DEF Places
<1>2. PICK x \in bad : \A y \in bad : x <= y
  BY <1>1, LeastElement
<1>3. x # 0
  BY DownFromBottom
<1>4. x - 1 \in Places /\ ~(x <= x - 1)
  BY <1>3, RingSize DEF Places
<1>5. Down(x - 1)
  BY <1>2, <1>4
<1>. QED BY <1>3, <1>5, DownOnce

LEMMA SpotsBack ==
  ASSUME NEW b \in Places, NEW L \in Places, NEW m \in 0..L
  PROVE  (Spot(b, L) + NumErrors - (L - m)) % NumErrors = Spot(b, m)
<1>. DEFINE x == Spot(b, L) + NumErrors - (L - m)
<1>1. /\ b \in Nat /\ L \in Nat /\ m \in Nat /\ m <= L /\ NumErrors \in Nat
      /\ b < NumErrors /\ L < NumErrors
  BY RingSize DEF Places
<1>2. x = IF b + L < NumErrors THEN b + m + NumErrors ELSE b + m
  BY <1>1 DEF Spot
<1>3. x \in 0..2 * NumErrors - 1
  BY <1>1, <1>2
<1>. HIDE DEF x
<1>4. x % NumErrors = IF x < NumErrors THEN x ELSE x - NumErrors
  BY <1>3, RingMod
<1>5. x % NumErrors = Spot(b, m)
  <2>1. CASE b + L < NumErrors
    BY <1>1, <1>2, <1>4, <2>1 DEF Spot
  <2>2. CASE ~(b + L < NumErrors)
    BY <1>1, <1>2, <1>4, <2>2 DEF Spot
  <2>. QED BY <2>1, <2>2
<1>. QED BY <1>5 DEF x

(* What ERR_pop_to_mark does to the line of errors.                        *)
Pops(m) ==
  LET L == Count(errTop, errBottom)
      spots == {Spot(errBottom, j) : j \in m + 1..L}
  IN  /\ m \in 0..L /\ StopsAt(L, m)
      /\ errTop' = Spot(errBottom, m)
      /\ errors' = [i \in Places |->
                      IF i \in spots THEN NoError
                      ELSE IF m # 0 /\ i = Spot(errBottom, m) THEN [errors[i] EXCEPT !.mark = FALSE]
                      ELSE errors[i]]
      /\ errReply' = <<"pop", IF m # 0 THEN 1 ELSE 0>>
      /\ errBottom' = errBottom /\ owned' = owned

LEMMA PopToMarkPops ==
  ASSUME ErrTypes, PopToMark
  PROVE  \E m : Pops(m)
<1>. DEFINE L == Count(errTop, errBottom)
            b == errBottom
            popped == Popping[NumErrors][errTop]
            top == (errTop + NumErrors - Cardinality(popped)) % NumErrors
            found == top # errBottom
<1>1. b \in Places /\ errTop \in Places /\ L \in Places /\ Spot(b, L) = errTop /\ DOMAIN errors = Places
  BY Counts DEF ErrTypes
<1>2. NumErrors \in L..NumErrors
  BY <1>1, RingSize DEF Places
<1>3. PICK m \in 0..L : StopsAt(L, m) /\ PopsTo(NumErrors, L, m)
  BY <1>1, <1>2, AllDown DEF Down
<1>4. popped = {Spot(b, j) : j \in m + 1..L} /\ Cardinality(popped) = L - m
  BY <1>1, <1>3 DEF PopsTo
<1>5. /\ errTop' = top /\ Returns("pop", IF found THEN 1 ELSE 0)
      /\ errors' = [i \in DOMAIN errors |->
                      IF i \in popped THEN NoError
                      ELSE IF found /\ i = top THEN [errors[i] EXCEPT !.mark = FALSE]
                      ELSE errors[i]]
      /\ errBottom' = errBottom /\ owned' = owned
  BY DEF PopToMark
<1>6. top = (errTop + NumErrors - (L - m)) % NumErrors
  BY <1>4
<1>. HIDE DEF popped, top
<1>7. m \in Places /\ 0 \in Places
  BY <1>1, RingSize DEF Places
<1>8. top = Spot(b, m)
  <2>1. (Spot(b, L) + NumErrors - (L - m)) % NumErrors = Spot(b, m)
    <3>1. m \in 0..L
      BY <1>3
    <3>. HIDE DEF L
    <3>. QED BY <1>1, <3>1, SpotsBack
  <2>. QED BY <2>1, <1>1, <1>6
<1>9. found <=> m # 0
  <2>1. Spot(b, 0) = b
    BY <1>1, <1>7, Spots
  <2>2. Spot(b, m) = Spot(b, 0) => m = 0
    BY <1>1, <1>7, Spots
  <2>. QED BY <1>8, <2>1, <2>2
<1>10. Pops(m)
  BY <1>1, <1>3, <1>4, <1>5, <1>8, <1>9 DEF Pops, Returns
<1>. QED BY <1>10

------------------------------------------------------------------------------
LEMMA NoErrorIs ==
  /\ NoError \in Errs /\ NoError.data = 0 /\ Entry(NoError) = [code |-> 0, marked |-> FALSE]
  /\ \A c \in ErrorCode : /\ [NoError EXCEPT !.packed = c] \in Errs
                          /\ [NoError EXCEPT !.packed = c].data = 0
                          /\ Entry([NoError EXCEPT !.packed = c]) = [code |-> c, marked |-> FALSE]
BY RingSize DEF NoError, Errs, Entry

LEMMA HandedIs ==
  ASSUME NEW e \in Errs
  PROVE  /\ Handed(e) \in Errs /\ Handed(e).data = 0 /\ Handed(e).packed = e.packed
         /\ Handed(e).mark = e.mark \/ Handed(e).mark = FALSE
<1>1. CASE e.data = 0
  BY <1>1 DEF Handed
<1>2. CASE e.data # 0
  <2>. DEFINE f == [e EXCEPT !.data = 0]
  <2>1. f \in Errs /\ f.data = 0 /\ f.packed = e.packed
    BY DEF Errs
  <2>2. Handed(e) = [f EXCEPT !.mark = FALSE]
    BY <1>2 DEF Handed, Errs
  <2>. HIDE DEF f
  <2>3. [f EXCEPT !.mark = FALSE] \in Errs /\ [f EXCEPT !.mark = FALSE].data = f.data
        /\ [f EXCEPT !.mark = FALSE].packed = f.packed /\ [f EXCEPT !.mark = FALSE].mark = FALSE
    BY <2>1 DEF Errs
  <2>. QED BY <2>1, <2>2, <2>3
<1>. QED BY <1>1, <1>2

LEMMA ErrStart == ErrInit => ErrInv
<1>. SUFFICES ASSUME ErrInit
              PROVE  ErrInv
  OBVIOUS
<1>1. errors = [i \in Places |-> NoError] /\ owned = {} /\ errTop = 0 /\ errBottom = 0
  BY DEF ErrInit, Places
<1>2. 0 \in Places
  BY RingSize DEF Places
<1>. QED BY <1>1, <1>2, NoErrorIs DEF ErrInv, ErrTypes, OwnedOnce

LEMMA PutKeeps ==
  ASSUME ErrInv, NEW c \in ErrorCode, PutError(c)
  PROVE  ErrInv'
<1>. DEFINE top == Following(errTop)
            e == [NoError EXCEPT !.packed = c]
<1>1. /\ errTop' = top /\ errBottom' = Dropped(top) /\ owned' = owned
      /\ errors' = [errors EXCEPT ![top] = e]
  BY DEF PutError
<1>2. errors \in [Places -> Errs] /\ errTop \in Places /\ errBottom \in Places /\ owned \subseteq Strings
      /\ OwnedOnce(errors, owned)
  BY DEF ErrInv, ErrTypes
<1>3. top \in Places /\ Dropped(top) \in Places /\ e \in Errs /\ e.data = 0
  BY <1>2, Followings, NoErrorIs DEF Dropped
<1>. HIDE DEF top, e
<1>4. errors' \in [Places -> Errs] /\ \A i \in Places : errors'[i] = errors[i] \/ errors'[i] = e
  BY <1>1, <1>2, <1>3
<1>5. 0 \notin owned'
  BY <1>1, <1>2, RingSize
<1>6. OwnedOnce(errors', owned')
  BY <1>1, <1>2, <1>3, <1>4, <1>5 DEF OwnedOnce
<1>. QED BY <1>1, <1>2, <1>3, <1>4, <1>6 DEF ErrInv, ErrTypes

LEMMA GetKeeps ==
  ASSUME ErrInv, NEW remove \in BOOLEAN, NEW top \in BOOLEAN, NEW data \in BOOLEAN,
         GetErrorValues(remove, top, data)
  PROVE  ErrInv'
<1>1. errors \in [Places -> Errs] /\ errTop \in Places /\ errBottom \in Places /\ owned \subseteq Strings
      /\ OwnedOnce(errors, owned) /\ 0 \notin owned
  BY RingSize DEF ErrInv, ErrTypes
<1>2. CASE IsEmpty
  BY <1>2 DEF GetErrorValues, ErrInv, ErrTypes
<1>3. CASE ~IsEmpty
  <2>. DEFINE i == IF top THEN errTop ELSE Following(errBottom)
              e == IF data THEN Handed(errors[i]) ELSE errors[i]
              f == IF remove THEN NoError ELSE e
  <2>1. /\ owned' = IF data THEN owned \union ({errors[i].data} \ {0}) ELSE owned
        /\ errors' = [errors EXCEPT ![i] = f]
        /\ errBottom' = IF remove THEN i ELSE errBottom
        /\ errTop' = errTop
    BY <1>3 DEF GetErrorValues
  <2>2. i \in Places /\ errors[i] \in Errs
    BY <1>1, Followings
  <2>3. f \in Errs /\ (f.data = 0 \/ (f = errors[i] /\ data = FALSE))
    BY <2>2, HandedIs, NoErrorIs
  <2>4. errors[i].data \in Strings \union {0}
    BY <2>2 DEF Errs
  <2>. HIDE DEF i, f
  <2>5. errors' \in [Places -> Errs] /\ errors'[i] = f /\ \A j \in Places \ {i} : errors'[j] = errors[j]
    BY <1>1, <2>1, <2>2, <2>3
  <2>6. owned' \subseteq Strings /\ 0 \notin owned' /\ errBottom' \in Places /\ errTop' \in Places
    BY <1>1, <2>1, <2>2, <2>4, RingSize
  <2>7. OwnedOnce(errors', owned')
    <3>1. CASE data = FALSE
      <4>1. \A j \in Places : errors'[j].data = errors[j].data \/ errors'[j].data = 0
        BY <2>2, <2>3, <2>5
      <4>. QED BY <4>1, <1>1, <2>1, <3>1 DEF OwnedOnce
    <3>2. CASE data = TRUE
      <4>1. f.data = 0 /\ owned' = owned \union ({errors[i].data} \ {0})
        BY <2>1, <2>3, <3>2
      <4>2. \A j \in Places : errors'[j].data \notin owned'
        BY <1>1, <2>2, <2>5, <2>6, <4>1 DEF OwnedOnce
      <4>3. \A j, k \in Places : errors'[j].data # 0 /\ errors'[j].data = errors'[k].data => j = k
        BY <1>1, <2>2, <2>5, <4>1 DEF OwnedOnce
      <4>. QED BY <4>2, <4>3 DEF OwnedOnce
    <3>. QED BY <3>1, <3>2
  <2>. QED BY <2>5, <2>6, <2>7 DEF ErrInv, ErrTypes
<1>. QED BY <1>2, <1>3

LEMMA ClearErrorsKeeps ==
  ASSUME ErrInv, ClearErrors
  PROVE  ErrInv' /\ errTop' = 0 /\ errBottom' = 0
<1>1. errors \in [Places -> Errs] /\ owned \subseteq Strings /\ OwnedOnce(errors, owned)
  BY DEF ErrInv, ErrTypes
<1>2. /\ errors' = [i \in Places |-> NoError] /\ errTop' = 0 /\ errBottom' = 0 /\ owned' = owned
  BY <1>1 DEF ClearErrors
<1>3. 0 \in Places /\ 0 \notin owned
  BY <1>1, RingSize DEF Places
<1>. QED BY <1>1, <1>2, <1>3, NoErrorIs DEF ErrInv, ErrTypes, OwnedOnce

LEMMA AddDataKeeps ==
  ASSUME ErrInv, AddData
  PROVE  ErrInv'
<1>1. errors \in [Places -> Errs] /\ errTop \in Places /\ owned \subseteq Strings
      /\ OwnedOnce(errors, owned) /\ DOMAIN errors = Places
  BY DEF ErrInv, ErrTypes
<1>2. CASE IsEmpty
  BY <1>2 DEF AddData, ErrInv, ErrTypes
<1>3. CASE ~IsEmpty
  <2>1. PICK s \in Strings \ (InErrors \union owned) :
          /\ errors' = [errors EXCEPT ![errTop].data = s, ![errTop].mark = FALSE]
          /\ errTop' = errTop /\ errBottom' = errBottom /\ owned' = owned
    BY <1>3 DEF AddData
  <2>. DEFINE g == [errors[errTop] EXCEPT !.data = s]
              f == [g EXCEPT !.mark = FALSE]
  <2>2. g \in Errs /\ g.data = s
    BY <1>1 DEF Errs
  <2>3. f \in Errs /\ f.data = s
    BY <2>2 DEF Errs
  <2>4. errors' = [errors EXCEPT ![errTop] = f]
    BY <1>1, <2>1
  <2>. HIDE DEF g, f
  <2>5. errors' \in [Places -> Errs] /\ errors'[errTop] = f
        /\ \A j \in Places \ {errTop} : errors'[j] = errors[j]
    BY <1>1, <2>3, <2>4
  <2>6. \A i \in Places : errors[i].data # s
    BY <1>1, <2>1, RingSize DEF InErrors
  <2>7. OwnedOnce(errors', owned')
    BY <1>1, <2>1, <2>3, <2>5, <2>6 DEF OwnedOnce
  <2>. QED BY <2>1, <2>5, <2>7 DEF ErrInv, ErrTypes
<1>. QED BY <1>2, <1>3

LEMMA SetMarkKeeps ==
  ASSUME ErrInv, SetMark
  PROVE  ErrInv'
<1>1. errors \in [Places -> Errs] /\ errTop \in Places /\ owned \subseteq Strings
      /\ OwnedOnce(errors, owned) /\ 0 \notin owned
  BY RingSize DEF ErrInv, ErrTypes
<1>2. CASE IsEmpty
  BY <1>2 DEF SetMark, ErrInv, ErrTypes
<1>3. CASE ~IsEmpty
  <2>. DEFINE f == [errors[errTop] EXCEPT !.mark = TRUE]
  <2>1. errors' = [errors EXCEPT ![errTop] = f] /\ errTop' = errTop /\ errBottom' = errBottom
        /\ owned' = owned
    BY <1>3 DEF SetMark
  <2>2. f \in Errs /\ f.data = errors[errTop].data
    BY <1>1 DEF Errs
  <2>. HIDE DEF f
  <2>3. errors' \in [Places -> Errs] /\ \A j \in Places : errors'[j].data = errors[j].data
    BY <1>1, <2>1, <2>2
  <2>4. OwnedOnce(errors', owned')
    BY <1>1, <2>1, <2>3 DEF OwnedOnce
  <2>. QED BY <2>1, <2>3, <2>4 DEF ErrInv, ErrTypes
<1>. QED BY <1>2, <1>3

(* Who has a string, when no error takes one.                              *)
DataLess(es, fs) == \A i \in Places : fs[i].data = es[i].data \/ fs[i].data = 0

LEMMA OwnedLess ==
  ASSUME NEW es, NEW fs, NEW ow, OwnedOnce(es, ow), DataLess(es, fs), 0 \notin ow
  PROVE  OwnedOnce(fs, ow)
BY DEF OwnedOnce, DataLess

LEMMA PopKeeps ==
  ASSUME ErrInv, PopToMark
  PROVE  ErrInv'
<1>1. errors \in [Places -> Errs] /\ errTop \in Places /\ errBottom \in Places /\ owned \subseteq Strings
      /\ OwnedOnce(errors, owned) /\ 0 \notin owned /\ ErrTypes
  BY RingSize DEF ErrInv, ErrTypes
<1>2. PICK m : Pops(m)
  BY <1>1, PopToMarkPops
<1>. DEFINE spots == {Spot(errBottom, j) : j \in m + 1..Count(errTop, errBottom)}
<1>3. /\ m \in 0..Count(errTop, errBottom) /\ errTop' = Spot(errBottom, m)
      /\ errors' = [i \in Places |->
                      IF i \in spots THEN NoError
                      ELSE IF m # 0 /\ i = Spot(errBottom, m) THEN [errors[i] EXCEPT !.mark = FALSE]
                      ELSE errors[i]]
      /\ errBottom' = errBottom /\ owned' = owned
  BY <1>2 DEF Pops
<1>. HIDE DEF spots
<1>4. \A e \in Errs : [e EXCEPT !.mark = FALSE] \in Errs /\ [e EXCEPT !.mark = FALSE].data = e.data
  BY DEF Errs
<1>5. m \in Places
  <2>1. Count(errTop, errBottom) \in Places
    BY <1>1, Counts
  <2>. QED BY <2>1, <1>3, RingSize DEF Places
<1>6. Spot(errBottom, m) \in Places
  BY <1>1, <1>5, Spots
<1>7. \A i \in Places : errors'[i] \in Errs /\ (errors'[i].data = errors[i].data \/ errors'[i].data = 0)
  BY <1>1, <1>3, <1>4, NoErrorIs
<1>8. errors' \in [Places -> Errs]
  <2>1. errors' = [i \in Places |-> errors'[i]]
    BY <1>3
  <2>. QED BY <2>1, <1>7
<1>9. OwnedOnce(errors', owned')
  <2>1. DataLess(errors, errors')
    BY <1>7 DEF DataLess
  <2>. QED BY <2>1, <1>1, <1>3, OwnedLess
<1>. QED BY <1>1, <1>3, <1>6, <1>8, <1>9 DEF ErrInv, ErrTypes

LEMMA FreeKeeps ==
  ASSUME ErrInv, FreeString
  PROVE  ErrInv'
<1>1. owned' \subseteq owned /\ errors' = errors /\ errTop' = errTop /\ errBottom' = errBottom
  BY DEF FreeString
<1>. QED BY <1>1 DEF ErrInv, ErrTypes, OwnedOnce

LEMMA ErrStep == ErrInv /\ [ErrNext]_errVars => ErrInv'
<1>. SUFFICES ASSUME ErrInv, [ErrNext]_errVars
              PROVE  ErrInv'
  OBVIOUS
<1>1. ASSUME NEW c \in ErrorCode, PutError(c)
      PROVE  ErrInv'
  BY <1>1, PutKeeps
<1>2. CASE GetError
  BY <1>2, GetKeeps DEF GetError
<1>3. CASE PeekError
  BY <1>3, GetKeeps DEF PeekError
<1>4. CASE ClearErrors
  BY <1>4, ClearErrorsKeeps
<1>5. CASE AddData
  BY <1>5, AddDataKeeps
<1>6. CASE SetMark
  BY <1>6, SetMarkKeeps
<1>7. CASE PopToMark
  BY <1>7, PopKeeps
<1>8. CASE FreeString
  BY <1>8, FreeKeeps
<1>9. CASE UNCHANGED errVars
  BY <1>9 DEF errVars, ErrInv, ErrTypes
<1>. QED BY <1>1, <1>2, <1>3, <1>4, <1>5, <1>6, <1>7, <1>8, <1>9 DEF ErrNext

(* A string of the error queue belongs to one error or to the caller, for  *)
(* any size of the ring and any strings (err_clear_data, ERR_FLAG_MALLOCED).*)
THEOREM StringsHaveOneOwner == ErrSpec => []StringsAreOwnedOnce
<1>1. ErrInv => StringsAreOwnedOnce
  BY OwnedOnceIs DEF ErrInv, ErrTypes, StringsAreOwnedOnce, InErrors
<1>. QED BY ErrStart, ErrStep, <1>1, PTL DEF ErrSpec

------------------------------------------------------------------------------
LineOk(es, t, b) ==
  /\ Line(es, t, b) \in Seq(Entries) /\ Len(Line(es, t, b)) = Count(t, b)
  /\ \A k \in 1..Count(t, b) : k \in Places /\ Spot(b, k) \in Places
                               /\ es[Spot(b, k)] \in Errs
                               /\ Line(es, t, b)[k] = Entry(es[Spot(b, k)])

LEMMA LineIsOk ==
  ASSUME NEW es \in [Places -> Errs], NEW t \in Places, NEW b \in Places
  PROVE  LineOk(es, t, b)
BY LineIs DEF LineOk

LEMMA CountMoves ==
  ASSUME NEW t \in Places, NEW b \in Places
  PROVE  /\ \A m \in Places : Count(Spot(b, m), b) = m
         /\ Following(t) # b => Count(Following(t), b) = Count(t, b) + 1 /\ Count(t, b) < NumErrors - 1
         /\ Following(t) = b => Count(t, b) = NumErrors - 1
                                /\ Count(Following(t), Following(b)) = NumErrors - 1
         /\ t # b => Count(t, Following(b)) = Count(t, b) - 1
<1>1. Following(t) = Spot(t, 1) /\ Following(b) = Spot(b, 1)
  BY Followings
<1>. QED BY <1>1, RingSize DEF Count, Spot, Places

(* A line with one error more, which may push out the oldest.              *)
LEMMA LinePut ==
  ASSUME NEW es \in [Places -> Errs], NEW t \in Places, NEW b \in Places, NEW e \in Errs
  PROVE  LET u == Following(t)
             q == Line(es, t, b)
         IN  Line([es EXCEPT ![u] = e], u, IF u = b THEN Following(b) ELSE b)
             = Append(IF Len(q) = NumErrors - 1 THEN Tail(q) ELSE q, Entry(e))
<1>. DEFINE u == Following(t)
            a == IF u = b THEN Following(b) ELSE b
            fs == [es EXCEPT ![u] = e]
            q == Line(es, t, b)
            r == Line(fs, u, a)
            s == IF Len(q) = NumErrors - 1 THEN Tail(q) ELSE q
            L == Count(t, b)
            M == Count(u, a)
<1>1. u \in Places /\ a \in Places /\ Following(b) \in Places
  BY Followings
<1>2. fs \in [Places -> Errs] /\ fs[u] = e /\ \A i \in Places : i # u => fs[i] = es[i]
  BY <1>1
<1>3. /\ q \in Seq(Entries) /\ Len(q) = L
      /\ \A k \in 1..L : k \in Places /\ Spot(b, k) \in Places /\ q[k] = Entry(es[Spot(b, k)])
  BY LineIs
<1>4. L \in Places /\ M \in Places /\ Spot(a, M) = u
  BY <1>1, Counts
<1>5. u = b => L = NumErrors - 1 /\ M = NumErrors - 1
  BY CountMoves
<1>6. u # b => L < NumErrors - 1 /\ M = L + 1
  BY CountMoves
<1>. HIDE DEF u, fs
<1>7. /\ r \in Seq(Entries) /\ Len(r) = M
      /\ \A k \in 1..M : k \in Places /\ Spot(a, k) \in Places /\ r[k] = Entry(fs[Spot(a, k)])
  BY <1>1, <1>2, LineIs
<1>8. \A k \in 1..M : k # M => Spot(a, k) # u
  BY <1>1, <1>4, <1>7, Spots
<1>9. L \in Nat /\ M \in Nat /\ M > 0 /\ NumErrors \in Nat /\ NumErrors > 1
  BY <1>4, <1>5, <1>6, RingSize DEF Places
<1>10. Entry(e) \in Entries
  BY DEF Errs, Entry, Entries
<1>11. s \in Seq(Entries) /\ Len(s) = M - 1
  <2>1. CASE u = b
    BY <2>1, <1>3, <1>5, <1>9
  <2>2. CASE u # b
    BY <2>2, <1>3, <1>6, <1>9
  <2>. QED BY <2>1, <2>2
<1>12. \A k \in 1..M - 1 : s[k] = r[k]
  <2>. SUFFICES ASSUME NEW k \in 1..M - 1
                PROVE  s[k] = r[k]
    OBVIOUS
  <2>1. r[k] = Entry(es[Spot(a, k)])
    BY <1>2, <1>7, <1>8, <1>9
  <2>2. CASE u = b
    <3>1. k + 1 \in 1..L /\ k \in Places /\ k + 1 \in Places
      BY <2>2, <1>5, <1>9 DEF Places
    <3>2. Spot(a, k) = Spot(b, k + 1)
      BY <2>2, <3>1, Spots
    <3>3. s = Tail(q) /\ Tail(q)[k] = q[k + 1]
      BY <2>2, <3>1, <1>3, <1>5, <1>9
    <3>. QED BY <2>1, <3>1, <3>2, <3>3, <1>3
  <2>3. CASE u # b
    <3>1. k \in 1..L /\ s = q /\ a = b
      BY <2>3, <1>3, <1>6, <1>9
    <3>. QED BY <2>1, <3>1, <1>3
  <2>. QED BY <2>2, <2>3
<1>13. r[M] = Entry(e)
  BY <1>2, <1>4, <1>7, <1>9
<1>. HIDE DEF r, s, M, L, q, a
<1>14. r = Append(s, Entry(e))
  <2>. DEFINE w == Append(s, Entry(e))
  <2>1. w \in Seq(Entries) /\ Len(w) = M /\ w[M] = Entry(e) /\ \A k \in 1..M - 1 : w[k] = s[k]
    BY <1>9, <1>10, <1>11, AppendProperties
  <2>. HIDE DEF w
  <2>2. \A k \in 1..M : w[k] = r[k]
    BY <2>1, <1>9, <1>12, <1>13
  <2>. QED BY <2>1, <2>2, <1>7, SameLine DEF w
<1>. QED BY <1>14 DEF r, s, u, a, fs, q

(* A line without its oldest error.                                        *)
LEMMA LineGet ==
  ASSUME NEW es \in [Places -> Errs], NEW t \in Places, NEW b \in Places, NEW e \in Errs, t # b
  PROVE  LET i == Following(b)
         IN  Line([es EXCEPT ![i] = e], t, i) = Tail(Line(es, t, b))
<1>. DEFINE i == Following(b)
            fs == [es EXCEPT ![i] = e]
            q == Line(es, t, b)
            r == Line(fs, t, i)
            L == Count(t, b)
<1>1. i \in Places /\ i = Spot(b, 1)
  BY Followings
<1>2. fs \in [Places -> Errs] /\ \A j \in Places : j # i => fs[j] = es[j]
  BY <1>1
<1>3. /\ q \in Seq(Entries) /\ Len(q) = L
      /\ \A k \in 1..L : k \in Places /\ Spot(b, k) \in Places /\ q[k] = Entry(es[Spot(b, k)])
  BY LineIs
<1>4. L \in Nat /\ L > 0 /\ L < NumErrors /\ Count(t, i) = L - 1 /\ NumErrors \in Nat
  <2>1. L \in Places /\ L # 0
    BY Counts
  <2>2. Count(t, i) = L - 1
    BY CountMoves
  <2>. QED BY <2>1, <2>2, RingSize DEF Places
<1>. HIDE DEF i, fs
<1>5. /\ r \in Seq(Entries) /\ Len(r) = L - 1
      /\ \A k \in 1..L - 1 : k \in Places /\ Spot(i, k) \in Places /\ r[k] = Entry(fs[Spot(i, k)])
  <2>. DEFINE c == Count(t, i)
  <2>1. /\ r \in Seq(Entries) /\ Len(r) = c
        /\ \A k \in 1..c : k \in Places /\ Spot(i, k) \in Places /\ r[k] = Entry(fs[Spot(i, k)])
    <3>1. LineOk(fs, t, i)
      BY <1>1, <1>2, LineIsOk
    <3>. QED BY <3>1 DEF LineOk
  <2>2. c = L - 1
    BY <1>4
  <2>. QED BY <2>1, <2>2
<1>6. Tail(q) \in Seq(Entries) /\ Len(Tail(q)) = L - 1 /\ \A k \in 1..L - 1 : Tail(q)[k] = q[k + 1]
  BY <1>3, <1>4
<1>7. \A k \in 1..L - 1 : Tail(q)[k] = r[k]
  <2>. SUFFICES ASSUME NEW k \in 1..L - 1
                PROVE  Tail(q)[k] = r[k]
    OBVIOUS
  <2>1. k \in Places /\ k + 1 \in Places /\ k + 1 \in 1..L /\ 1 \in Places /\ k + 1 # 1
    BY <1>4 DEF Places
  <2>2. Spot(i, k) = Spot(b, k + 1)
    BY <2>1, Spots DEF i
  <2>3. Spot(b, k + 1) # i
    BY <2>1, <1>1, Spots
  <2>. QED BY <2>1, <2>2, <2>3, <1>2, <1>3, <1>5, <1>6
<1>. HIDE DEF q, r, L
<1>8. Tail(q) = r
  BY <1>5, <1>6, <1>7, SameLine
<1>. QED BY <1>8 DEF q, r, i, fs

(* A line one of whose errors changes.                                     *)
AtOk(es, t, b, e, k) ==
  Line([es EXCEPT ![Spot(b, k)] = e], t, b) = [Line(es, t, b) EXCEPT ![k] = Entry(e)]

LEMMA LineAt ==
  ASSUME NEW es \in [Places -> Errs], NEW t \in Places, NEW b \in Places, NEW e \in Errs,
         NEW k \in 1..Count(t, b)
  PROVE  AtOk(es, t, b, e, k)
<1>. DEFINE i == Spot(b, k)
            fs == [es EXCEPT ![i] = e]
            q == Line(es, t, b)
            r == Line(fs, t, b)
            L == Count(t, b)
            w == [q EXCEPT ![k] = Entry(e)]
<1>1. k \in Places /\ i \in Places
  BY LineIs
<1>2. fs \in [Places -> Errs] /\ fs[i] = e /\ \A j \in Places : j # i => fs[j] = es[j]
  BY <1>1
<1>3. /\ q \in Seq(Entries) /\ Len(q) = L
      /\ \A j \in 1..L : j \in Places /\ Spot(b, j) \in Places /\ q[j] = Entry(es[Spot(b, j)])
  BY LineIs
<1>. HIDE DEF fs
<1>4. /\ r \in Seq(Entries) /\ Len(r) = L
      /\ \A j \in 1..L : r[j] = Entry(fs[Spot(b, j)])
  BY <1>2, LineIs
<1>5. Entry(e) \in Entries
  BY DEF Errs, Entry, Entries
<1>6. w \in Seq(Entries) /\ Len(w) = L /\ w[k] = Entry(e) /\ \A j \in 1..L : j # k => w[j] = q[j]
  BY <1>3, <1>5, ExceptSeq
<1>7. \A j \in 1..L : j # k => Spot(b, j) # i
  BY <1>1, <1>3, Spots
<1>8. \A j \in 1..L : w[j] = r[j]
  <2>1. r[k] = Entry(e)
    BY <1>2, <1>4
  <2>2. ASSUME NEW j \in 1..L, j # k
        PROVE  w[j] = r[j]
    BY <2>2, <1>2, <1>3, <1>4, <1>6, <1>7
  <2>. QED BY <2>1, <2>2, <1>6
<1>. HIDE DEF w, r, L
<1>9. w = r
  BY <1>4, <1>6, <1>8, SameLine
<1>. QED BY <1>9 DEF w, r, fs, q, i, AtOk

LEMMA Unmarked ==
  ASSUME NEW x \in Entries
  PROVE  [x EXCEPT !.marked = FALSE] = [code |-> x.code, marked |-> FALSE]
<1>. DEFINE y == [x EXCEPT !.marked = FALSE]
            z == [code |-> x.code, marked |-> FALSE]
<1>1. y \in Entries /\ y.code = x.code /\ y.marked = FALSE
  BY DEF Entries
<1>2. z \in Entries /\ z.code = x.code /\ z.marked = FALSE
  BY DEF Entries
<1>. HIDE DEF y, z
<1>3. y = z
  BY <1>1, <1>2 DEF Entries
<1>. QED BY <1>3 DEF y, z

LEMMA EntryIs ==
  ASSUME NEW g \in Errs
  PROVE  /\ Entry(g) \in Entries /\ Entry(g).code = g.packed /\ Entry(g).marked = g.mark
         /\ Entry(g) = [code |-> g.packed, marked |-> g.mark]
BY DEF Errs, Entry, Entries

------------------------------------------------------------------------------
(* A line that ends at its place m, the error there without its mark.      *)
PopChanges(es, b, m, fs) ==
  /\ \A j \in 1..m : j # m => fs[Spot(b, j)] = es[Spot(b, j)]
  /\ m # 0 => fs[Spot(b, m)] = [es[Spot(b, m)] EXCEPT !.mark = FALSE]
PopOk(es, t, b, m, fs) ==
  /\ m = 0 => Line(fs, Spot(b, m), b) = <<>>
  /\ m # 0 => Line(fs, Spot(b, m), b) = [SubSeq(Line(es, t, b), 1, m) EXCEPT ![m].marked = FALSE]

LEMMA LinePop ==
  ASSUME NEW es \in [Places -> Errs], NEW t \in Places, NEW b \in Places,
         NEW m \in 0..Count(t, b), NEW fs \in [Places -> Errs],
         PopChanges(es, b, m, fs)
  PROVE  PopOk(es, t, b, m, fs)
<1>. DEFINE q == Line(es, t, b)
            r == Line(fs, Spot(b, m), b)
            L == Count(t, b)
            s == SubSeq(q, 1, m)
            e == [s[m] EXCEPT !.marked = FALSE]
            w == [s EXCEPT ![m] = e]
<1>1. L \in Nat /\ m \in Nat /\ m <= L /\ m \in Places /\ L \in Places
  <2>1. L \in Places
    BY Counts
  <2>. QED BY <2>1, RingSize DEF Places
<1>2. Spot(b, m) \in Places /\ Count(Spot(b, m), b) = m
  BY <1>1, Spots, CountMoves
<1>3. /\ q \in Seq(Entries) /\ Len(q) = L
      /\ \A k \in 1..L : es[Spot(b, k)] \in Errs /\ q[k] = Entry(es[Spot(b, k)])
  <2>1. LineOk(es, t, b)
    BY LineIsOk
  <2>. QED BY <2>1 DEF LineOk
<1>4. /\ r \in Seq(Entries) /\ Len(r) = m
      /\ \A k \in 1..m : r[k] = Entry(fs[Spot(b, k)])
  <2>. DEFINE u == Spot(b, m)
  <2>1. u \in Places /\ Count(u, b) = m
    BY <1>2
  <2>. HIDE DEF u
  <2>2. /\ Line(fs, u, b) \in Seq(Entries) /\ Len(Line(fs, u, b)) = Count(u, b)
        /\ \A k \in 1..Count(u, b) : Line(fs, u, b)[k] = Entry(fs[Spot(b, k)])
    <3>1. LineOk(fs, u, b)
      BY <2>1, LineIsOk
    <3>. QED BY <3>1 DEF LineOk
  <2>. QED BY <2>1, <2>2 DEF u
<1>5. CASE m = 0
  BY <1>4, <1>5 DEF PopOk
<1>6. CASE m # 0
  <2>1. s \in Seq(Entries) /\ Len(s) = m /\ \A k \in 1..m : s[k] = q[k]
    <3>1. 1 \in 1..(Len(q) + 1) /\ m \in 0..Len(q) /\ m - 1 + 1 = m
      BY <1>1, <1>3, <1>6
    <3>2. \A k \in 1..m : q[k] \in Entries
      BY <1>1, <1>3
    <3>. QED BY <1>1, <1>3, <1>6, <3>1, <3>2, SubSeqProperties
  <2>2. m \in 1..m /\ m \in 1..L
    BY <1>1, <1>6
  <2>3. e \in Entries /\ e.code = s[m].code /\ e.marked = FALSE
    <3>1. s[m] \in Entries
      BY <2>1, <2>2, ElementOfSeq
    <3>. HIDE DEF s
    <3>. QED BY <3>1 DEF Entries
  <2>4. Entry(fs[Spot(b, m)]) = e
    <3>. DEFINE g == es[Spot(b, m)]
    <3>1. g \in Errs /\ s[m] = Entry(g)
      BY <1>3, <2>1, <2>2
    <3>2. fs[Spot(b, m)] = [g EXCEPT !.mark = FALSE]
      BY <1>6 DEF PopChanges
    <3>. HIDE DEF g
    <3>3. [g EXCEPT !.mark = FALSE].packed = g.packed /\ [g EXCEPT !.mark = FALSE].mark = FALSE
      BY <3>1 DEF Errs
    <3>4. [Entry(g) EXCEPT !.marked = FALSE] = [code |-> g.packed, marked |-> FALSE]
      BY <3>1, EntryIs, Unmarked
    <3>5. e = [code |-> g.packed, marked |-> FALSE]
      BY <3>1, <3>4
    <3>. QED BY <3>2, <3>3, <3>5 DEF Entry
  <2>. HIDE DEF e, s
  <2>5. w \in Seq(Entries) /\ Len(w) = m /\ w[m] = e /\ \A k \in 1..m : k # m => w[k] = s[k]
    BY <2>1, <2>2, <2>3, ExceptSeq
  <2>6. \A k \in 1..m : w[k] = r[k]
    <3>1. r[m] = e
      BY <1>4, <2>2, <2>4
    <3>2. ASSUME NEW k \in 1..m, k # m
          PROVE  w[k] = r[k]
      <4>1. fs[Spot(b, k)] = es[Spot(b, k)] /\ k \in 1..L
        BY <3>2, <1>1 DEF PopChanges
      <4>. QED BY <3>2, <4>1, <1>3, <1>4, <2>1, <2>5
    <3>. QED BY <3>1, <3>2, <2>5
  <2>. HIDE DEF w, r, L
  <2>7. w = r
    BY <1>4, <2>5, <2>6, SameLine
  <2>8. [s EXCEPT ![m].marked = FALSE] = w
    BY DEF w, e
  <2>. QED BY <1>6, <2>7, <2>8 DEF s, r, PopOk
<1>. QED BY <1>5, <1>6

------------------------------------------------------------------------------
(* Each operation on the ring is the operation on the list, or none.       *)
LEMMA LinesAre ==
  ASSUME ErrInv, ErrInv'
  PROVE  /\ Queued = Line(errors, errTop, errBottom) /\ Queued' = Line(errors', errTop', errBottom')
         /\ Queued \in Seq(Entries) /\ Len(Queued) = Count(errTop, errBottom)
         /\ \A k \in 1..Count(errTop, errBottom) :
              k \in Places /\ Spot(errBottom, k) \in Places
              /\ errors[Spot(errBottom, k)] \in Errs
              /\ Queued[k] = Entry(errors[Spot(errBottom, k)])
         /\ errors \in [Places -> Errs] /\ errTop \in Places /\ errBottom \in Places
<1>1. errors \in [Places -> Errs] /\ errTop \in Places /\ errBottom \in Places
      /\ errTop' \in Places /\ errBottom' \in Places
  BY DEF ErrInv, ErrTypes
<1>2. Queued = Line(errors, errTop, errBottom) /\ Queued' = Line(errors', errTop', errBottom')
  BY <1>1, QueuedIs
<1>. QED BY <1>1, <1>2, LineIs

LEMMA EmptyIs ==
  ASSUME ErrInv, ErrInv'
  PROVE  /\ IsEmpty <=> Queued = <<>>
         /\ Count(errTop, errBottom) \in Nat
         /\ ~IsEmpty => /\ Count(errTop, errBottom) > 0
                        /\ 1 \in 1..Count(errTop, errBottom)
                        /\ Count(errTop, errBottom) \in 1..Count(errTop, errBottom)
<1>1. errTop \in Places /\ errBottom \in Places
  BY DEF ErrInv, ErrTypes
<1>2. Count(errTop, errBottom) \in Places /\ (Count(errTop, errBottom) = 0 <=> errTop = errBottom)
  BY <1>1, Counts
<1>3. Count(errTop, errBottom) \in Nat
  BY <1>2, RingSize DEF Places
<1>4. Queued \in Seq(Entries) /\ Len(Queued) = Count(errTop, errBottom)
  BY LinesAre
<1>. QED BY <1>2, <1>3, <1>4 DEF IsEmpty

LEMMA PutIsListPut ==
  ASSUME ErrInv, ErrInv', NEW c \in ErrorCode, PutError(c)
  PROVE  List!ListPut
<1>. DEFINE u == Following(errTop)
            e == [NoError EXCEPT !.packed = c]
            q == Line(errors, errTop, errBottom)
<1>1. /\ errTop' = u /\ errBottom' = (IF u = errBottom THEN Following(errBottom) ELSE errBottom)
      /\ errors' = [errors EXCEPT ![u] = e] /\ errReply' = <<"put", 1>>
  BY DEF PutError, Dropped, Returns
<1>2. Queued = q /\ Queued' = Line(errors', errTop', errBottom')
      /\ errors \in [Places -> Errs] /\ errTop \in Places /\ errBottom \in Places
  BY LinesAre
<1>3. e \in Errs /\ Entry(e) = [code |-> c, marked |-> FALSE]
  BY NoErrorIs
<1>4. Line([errors EXCEPT ![u] = e], u, IF u = errBottom THEN Following(errBottom) ELSE errBottom)
      = Append(IF Len(q) = NumErrors - 1 THEN Tail(q) ELSE q, Entry(e))
  <2>. HIDE DEF e
  <2>. QED BY <1>2, <1>3, LinePut
<1>5. Queued' = Append(IF Len(Queued) = NumErrors - 1 THEN Tail(Queued) ELSE Queued,
                       [code |-> c, marked |-> FALSE])
  BY <1>1, <1>2, <1>3, <1>4
<1>. QED BY <1>1, <1>5 DEF List!ListPut, List!NewError, List!Returns

LEMMA GetIsListGet ==
  ASSUME ErrInv, ErrInv', NEW remove \in BOOLEAN, NEW top \in BOOLEAN, NEW data \in BOOLEAN,
         GetErrorValues(remove, top, data), remove => ~top
  PROVE  List!ListGet \/ List!ListPeek("peek", 1) \/ List!ListPeek("last", Len(Queued))
<1>. DEFINE name == IF remove THEN "get" ELSE IF top THEN "last" ELSE "peek"
            L == Count(errTop, errBottom)
<1>0. /\ Queued = Line(errors, errTop, errBottom) /\ Queued' = Line(errors', errTop', errBottom')
      /\ errors \in [Places -> Errs] /\ errTop \in Places /\ errBottom \in Places
      /\ Queued \in Seq(Entries) /\ Len(Queued) = L
      /\ \A k \in 1..L : errors[Spot(errBottom, k)] \in Errs
                         /\ Queued[k] = Entry(errors[Spot(errBottom, k)])
  BY LinesAre
<1>1. CASE IsEmpty
  <2>1. errReply' = <<name, 0>> /\ errors' = errors /\ errTop' = errTop /\ errBottom' = errBottom
    BY <1>1 DEF GetErrorValues, Returns
  <2>2. Queued = <<>> /\ Queued' = Queued
    BY <1>0, <1>1, <2>1, EmptyIs
  <2>3. List!Fails(name)
    BY <2>1, <2>2 DEF List!Fails, List!Returns
  <2>4. name = "get" \/ name = "last" \/ name = "peek"
    OBVIOUS
  <2>. HIDE DEF name
  <2>. QED BY <2>3, <2>4 DEF List!ListGet, List!ListPeek
<1>2. CASE ~IsEmpty
  <2>. DEFINE k == IF top THEN L ELSE 1
              i == Spot(errBottom, k)
              e == IF data THEN Handed(errors[i]) ELSE errors[i]
  <2>1. k \in 1..L /\ Queued # <<>>
    BY <1>2, EmptyIs
  <2>2. Spot(errBottom, L) = errTop /\ Spot(errBottom, 1) = Following(errBottom)
    BY <1>0, Counts, Followings
  <2>3. i = IF top THEN errTop ELSE Following(errBottom)
    BY <2>2
  <2>4. /\ errReply' = <<name, errors[i].packed>> /\ errTop' = errTop
        /\ errors' = [errors EXCEPT ![i] = IF remove THEN NoError ELSE e]
        /\ errBottom' = IF remove THEN i ELSE errBottom
    BY <1>2, <2>3 DEF GetErrorValues, Returns
  <2>5. errors[i] \in Errs /\ Queued[k] = Entry(errors[i])
    BY <1>0, <2>1
  <2>6. errReply' = <<name, Queued[k].code>>
    BY <2>4, <2>5 DEF Entry
  <2>7. CASE remove = TRUE
    <3>1. i = Following(errBottom) /\ name = "get" /\ k = 1
      BY <2>2, <2>7
    <3>2. errTop # errBottom
      BY <1>2 DEF IsEmpty
    <3>3. Line([errors EXCEPT ![Following(errBottom)] = NoError], errTop, Following(errBottom))
          = Tail(Line(errors, errTop, errBottom))
      BY <1>0, <3>2, NoErrorIs, LineGet
    <3>4. errors' = [errors EXCEPT ![Following(errBottom)] = NoError] /\ errBottom' = Following(errBottom)
      BY <2>4, <2>7, <3>1
    <3>5. Queued' = Tail(Queued)
      BY <1>0, <2>4, <3>3, <3>4
    <3>. QED BY <2>1, <2>6, <3>1, <3>5 DEF List!ListGet, List!Returns
  <2>8. CASE remove = FALSE
    <3>1. /\ e \in Errs /\ (Entry(e) = Entry(errors[i])
             \/ Entry(e) = [Entry(errors[i]) EXCEPT !.marked = FALSE])
      <4>1. CASE data = FALSE
        BY <4>1, <2>5
      <4>2. CASE data = TRUE
        <5>. DEFINE g == errors[i]
        <5>1. /\ Handed(g) \in Errs /\ Handed(g).packed = g.packed
              /\ Handed(g).mark = g.mark \/ Handed(g).mark = FALSE
          BY <2>5, HandedIs
        <5>2. e = Handed(g)
          BY <4>2
        <5>. HIDE DEF g, e
        <5>3. Entry(g) = [code |-> g.packed, marked |-> g.mark]
              /\ [Entry(g) EXCEPT !.marked = FALSE] = [code |-> g.packed, marked |-> FALSE]
          <6>1. g \in Errs
            BY <2>5 DEF g
          <6>. QED BY <6>1, EntryIs, Unmarked
        <5>4. Entry(e) = [code |-> g.packed, marked |-> Handed(g).mark]
          BY <5>1, <5>2 DEF Entry
        <5>5. Entry(e) = Entry(g) \/ Entry(e) = [Entry(g) EXCEPT !.marked = FALSE]
          BY <5>1, <5>3, <5>4
        <5>. QED BY <5>1, <5>2, <5>5 DEF g
      <4>. QED BY <4>1, <4>2
    <3>. HIDE DEF e
    <3>2. Line([errors EXCEPT ![Spot(errBottom, k)] = e], errTop, errBottom)
          = [Line(errors, errTop, errBottom) EXCEPT ![k] = Entry(e)]
      <4>1. /\ errors \in [Places -> Errs] /\ errTop \in Places /\ errBottom \in Places
            /\ k \in 1..Count(errTop, errBottom) /\ e \in Errs
        BY <1>0, <2>1, <3>1
      <4>. HIDE DEF k
      <4>2. AtOk(errors, errTop, errBottom, e, k)
        BY <4>1, LineAt
      <4>. QED BY <4>2 DEF AtOk
    <3>3. Queued' = [Queued EXCEPT ![k] = Entry(e)]
      BY <1>0, <2>4, <2>8, <3>2
    <3>4. Queued' = Queued \/ Queued' = [Queued EXCEPT ![k].marked = FALSE]
      <4>1. CASE Entry(e) = Entry(errors[i])
        <5>1. Queued' = [Queued EXCEPT ![k] = Queued[k]]
          BY <3>3, <4>1, <2>5
        <5>. HIDE DEF k
        <5>. QED BY <5>1, <1>0
      <4>2. CASE Entry(e) = [Entry(errors[i]) EXCEPT !.marked = FALSE]
        <5>1. Entry(e) = [Queued[k] EXCEPT !.marked = FALSE]
          BY <4>2, <2>5
        <5>. HIDE DEF k
        <5>. QED BY <3>3, <5>1
      <4>. QED BY <3>1, <4>1, <4>2
    <3>5. CASE top = TRUE
      <4>1. k = Len(Queued) /\ name = "last"
        BY <1>0, <2>8, <3>5
      <4>2. /\ Queued' \in {Queued, [Queued EXCEPT ![Len(Queued)].marked = FALSE]}
            /\ errReply' = <<"last", Queued[Len(Queued)].code>>
        BY <2>6, <3>4, <4>1
      <4>. QED BY <2>1, <4>2 DEF List!ListPeek, List!Returns
    <3>6. CASE top = FALSE
      <4>1. k = 1 /\ name = "peek"
        BY <2>8, <3>6
      <4>2. /\ Queued' \in {Queued, [Queued EXCEPT ![1].marked = FALSE]}
            /\ errReply' = <<"peek", Queued[1].code>>
        BY <2>6, <3>4, <4>1
      <4>. QED BY <2>1, <4>2 DEF List!ListPeek, List!Returns
    <3>. QED BY <3>5, <3>6
  <2>. QED BY <2>7, <2>8
<1>. QED BY <1>1, <1>2

------------------------------------------------------------------------------
LEMMA ClearIsListClear ==
  ASSUME ErrInv, ErrInv', ClearErrors
  PROVE  List!ListClear
<1>1. errTop' = 0 /\ errBottom' = 0 /\ errReply' = <<"clear", 1>>
  BY DEF ClearErrors, Returns
<1>2. Queued' = Line(errors', 0, 0)
  BY <1>1, LinesAre
<1>3. Count(0, 0) = 0
  BY RingSize DEF Count
<1>4. Line(errors', 0, 0) = <<>>
  BY <1>3 DEF Line
<1>. QED BY <1>1, <1>2, <1>4 DEF List!ListClear, List!Returns

(* What happens to the most recent error alone.                            *)
LEMMA LastChanges ==
  ASSUME ErrInv, ErrInv', ~IsEmpty, NEW e \in Errs, errors' = [errors EXCEPT ![errTop] = e],
         errTop' = errTop, errBottom' = errBottom
  PROVE  /\ Queued # <<>> /\ Len(Queued) \in 1..Len(Queued)
         /\ Queued' = [Queued EXCEPT ![Len(Queued)] = Entry(e)]
         /\ errors[errTop] \in Errs /\ Queued[Len(Queued)] = Entry(errors[errTop])
<1>. DEFINE L == Count(errTop, errBottom)
<1>1. /\ Queued = Line(errors, errTop, errBottom) /\ Queued' = Line(errors', errTop', errBottom')
      /\ errors \in [Places -> Errs] /\ errTop \in Places /\ errBottom \in Places
      /\ Len(Queued) = L
      /\ \A k \in 1..L : errors[Spot(errBottom, k)] \in Errs
                         /\ Queued[k] = Entry(errors[Spot(errBottom, k)])
  BY LinesAre
<1>2. L \in 1..L /\ Queued # <<>>
  BY EmptyIs
<1>3. Spot(errBottom, L) = errTop
  BY <1>1, Counts
<1>4. AtOk(errors, errTop, errBottom, e, L)
  BY <1>1, <1>2, LineAt
<1>5. Queued' = [Queued EXCEPT ![L] = Entry(e)]
  BY <1>1, <1>3, <1>4 DEF AtOk
<1>. QED BY <1>1, <1>2, <1>3, <1>5

LEMMA AddDataIsListAddData ==
  ASSUME ErrInv, ErrInv', AddData
  PROVE  List!ListAddData
<1>1. CASE IsEmpty
  <2>1. errReply' = <<"add", 0>> /\ errors' = errors /\ errTop' = errTop /\ errBottom' = errBottom
    BY <1>1 DEF AddData, Returns
  <2>2. Queued = <<>> /\ Queued' = Queued
    BY <1>1, <2>1, LinesAre, EmptyIs
  <2>. QED BY <2>1, <2>2 DEF List!ListAddData, List!Fails, List!Returns
<1>2. CASE ~IsEmpty
  <2>1. PICK s \in Strings :
          /\ errors' = [errors EXCEPT ![errTop].data = s, ![errTop].mark = FALSE]
          /\ errReply' = <<"add", errors[errTop].packed>>
          /\ errTop' = errTop /\ errBottom' = errBottom
    BY <1>2 DEF AddData, Returns
  <2>. DEFINE x == errors[errTop]
              g == [x EXCEPT !.data = s]
              f == [g EXCEPT !.mark = FALSE]
  <2>2. x \in Errs /\ errors \in [Places -> Errs] /\ errTop \in Places
    BY DEF ErrInv, ErrTypes
  <2>3. errors' = [errors EXCEPT ![errTop] = f]
    BY <2>1, <2>2
  <2>. HIDE DEF x
  <2>4. g \in Errs /\ g.packed = x.packed
    BY <2>2 DEF Errs
  <2>. HIDE DEF g
  <2>5. f \in Errs /\ f.packed = x.packed /\ f.mark = FALSE
    BY <2>4 DEF Errs
  <2>. HIDE DEF f
  <2>6. /\ Queued # <<>> /\ Len(Queued) \in 1..Len(Queued)
        /\ Queued' = [Queued EXCEPT ![Len(Queued)] = Entry(f)]
        /\ Queued[Len(Queued)] = Entry(x)
    BY <1>2, <2>1, <2>3, <2>5, LastChanges DEF x
  <2>7. Entry(f) = [Entry(x) EXCEPT !.marked = FALSE]
    <3>1. Entry(f) = [code |-> x.packed, marked |-> FALSE]
      BY <2>5, EntryIs
    <3>2. Entry(x) \in Entries /\ Entry(x).code = x.packed
      BY <2>2, EntryIs
    <3>. QED BY <3>1, <3>2, Unmarked
  <2>8. Queued' = [Queued EXCEPT ![Len(Queued)].marked = FALSE]
    BY <2>6, <2>7
  <2>9. errReply' = <<"add", Queued[Len(Queued)].code>>
    <3>1. Entry(x).code = x.packed
      BY <2>2, EntryIs
    <3>. QED BY <2>1, <2>6, <3>1 DEF x
  <2>. QED BY <2>6, <2>8, <2>9 DEF List!ListAddData, List!Returns
<1>. QED BY <1>1, <1>2

LEMMA MarkIsListMark ==
  ASSUME ErrInv, ErrInv', SetMark
  PROVE  List!ListMark
<1>1. CASE IsEmpty
  <2>1. errReply' = <<"mark", 0>> /\ errors' = errors /\ errTop' = errTop /\ errBottom' = errBottom
    BY <1>1 DEF SetMark, Returns
  <2>2. Queued = <<>> /\ Queued' = Queued
    BY <1>1, <2>1, LinesAre, EmptyIs
  <2>. QED BY <2>1, <2>2 DEF List!ListMark, List!Fails, List!Returns
<1>2. CASE ~IsEmpty
  <2>. DEFINE x == errors[errTop]
              f == [x EXCEPT !.mark = TRUE]
  <2>1. /\ errors' = [errors EXCEPT ![errTop] = f]
        /\ errReply' = <<"mark", 1>> /\ errTop' = errTop /\ errBottom' = errBottom
    BY <1>2 DEF SetMark, Returns
  <2>2. x \in Errs
    BY DEF ErrInv, ErrTypes
  <2>. HIDE DEF x
  <2>3. f \in Errs /\ f.packed = x.packed /\ f.mark = TRUE
    BY <2>2 DEF Errs
  <2>. HIDE DEF f
  <2>4. /\ Queued # <<>> /\ Len(Queued) \in 1..Len(Queued)
        /\ Queued' = [Queued EXCEPT ![Len(Queued)] = Entry(f)]
        /\ Queued[Len(Queued)] = Entry(x)
    BY <1>2, <2>1, <2>3, LastChanges DEF x
  <2>5. Entry(f) = [Entry(x) EXCEPT !.marked = TRUE]
    <3>1. Entry(f) \in Entries /\ Entry(f).code = x.packed /\ Entry(f).marked = TRUE
      BY <2>3, EntryIs
    <3>2. Entry(x) \in Entries /\ Entry(x).code = x.packed
      BY <2>2, EntryIs
    <3>. DEFINE y == Entry(x)
                z == [y EXCEPT !.marked = TRUE]
                w == Entry(f)
    <3>3. z \in Entries /\ z.code = y.code /\ z.marked = TRUE
      BY <3>2 DEF Entries
    <3>. HIDE DEF y, z, w
    <3>4. w \in Entries /\ w.code = z.code /\ w.marked = z.marked
      BY <3>1, <3>2, <3>3 DEF y, w
    <3>5. w = z
      BY <3>3, <3>4 DEF Entries
    <3>. QED BY <3>5 DEF w, z, y
  <2>6. Queued' = [Queued EXCEPT ![Len(Queued)].marked = TRUE]
    BY <2>4, <2>5
  <2>. QED BY <2>1, <2>4, <2>6 DEF List!ListMark, List!Returns
<1>. QED BY <1>1, <1>2

LEMMA PopIsListPop ==
  ASSUME ErrInv, ErrInv', PopToMark
  PROVE  List!ListPop
<1>. DEFINE L == Count(errTop, errBottom)
            b == errBottom
<1>1. /\ Queued = Line(errors, errTop, b) /\ Queued' = Line(errors', errTop', errBottom')
      /\ errors \in [Places -> Errs] /\ errTop \in Places /\ b \in Places
      /\ Queued \in Seq(Entries) /\ Len(Queued) = L
      /\ \A k \in 1..L : k \in Places /\ errors[Spot(b, k)] \in Errs
                         /\ Queued[k] = Entry(errors[Spot(b, k)])
  BY LinesAre
<1>2. errors' \in [Places -> Errs] /\ ErrTypes /\ L \in Nat
  BY EmptyIs DEF ErrInv, ErrTypes
<1>3. PICK m : Pops(m)
  BY <1>2, PopToMarkPops
<1>. DEFINE spots == {Spot(b, j) : j \in m + 1..L}
<1>4. /\ m \in 0..L /\ StopsAt(L, m) /\ errTop' = Spot(b, m) /\ errBottom' = b
      /\ errors' = [i \in Places |->
                      IF i \in spots THEN NoError
                      ELSE IF m # 0 /\ i = Spot(b, m) THEN [errors[i] EXCEPT !.mark = FALSE]
                      ELSE errors[i]]
      /\ errReply' = <<"pop", IF m # 0 THEN 1 ELSE 0>>
  BY <1>3 DEF Pops
<1>5. \A j \in 1..m : j \in 1..L /\ j \in Places /\ Spot(b, j) \in Places /\ Spot(b, j) \notin spots
                      /\ (j # m => Spot(b, j) # Spot(b, m))
  <2>. SUFFICES ASSUME NEW j \in 1..m
                PROVE  /\ j \in 1..L /\ j \in Places /\ Spot(b, j) \in Places /\ Spot(b, j) \notin spots
                       /\ (j # m => Spot(b, j) # Spot(b, m))
    OBVIOUS
  <2>1. j \in 1..L /\ j \in Places /\ m \in Places
    BY <1>1, <1>2, <1>4
  <2>2. \A k \in m + 1..L : k \in Places /\ k # j
    BY <1>1, <1>2, <1>4
  <2>. QED BY <2>1, <2>2, <1>1, Spots
<1>. HIDE DEF spots
<1>6. \A j \in 1..m : j # m => errors'[Spot(b, j)] = errors[Spot(b, j)]
  BY <1>4, <1>5
<1>7. m # 0 => errors'[Spot(b, m)] = [errors[Spot(b, m)] EXCEPT !.mark = FALSE]
  <2>1. m # 0 => m \in 1..m
    BY <1>4
  <2>. QED BY <1>4, <1>5, <2>1
<1>8. PopOk(errors, errTop, b, m, errors')
  <2>1. PopChanges(errors, b, m, errors')
    BY <1>6, <1>7 DEF PopChanges
  <2>. QED BY <2>1, <1>1, <1>2, <1>4, LinePop
<1>9. \A k \in 1..L : Queued[k].marked = Marked(k)
  BY <1>1, EntryIs DEF Marked
<1>10. DOMAIN Queued = 1..L
  BY <1>1
<1>11. CASE m = 0
  <2>1. \A k \in 1..L : ~Marked(k)
    BY <1>4, <1>11 DEF StopsAt
  <2>2. Queued' = <<>> /\ errReply' = <<"pop", 0>>
    BY <1>1, <1>4, <1>8, <1>11 DEF PopOk
  <2>3. \A k \in DOMAIN Queued : ~Queued[k].marked
    BY <1>9, <1>10, <2>1
  <2>. QED BY <2>2, <2>3 DEF List!ListPop, List!Returns
<1>12. CASE m # 0
  <2>1. m \in DOMAIN Queued /\ Queued[m].marked
    BY <1>2, <1>4, <1>9, <1>10, <1>12 DEF StopsAt
  <2>2. \A k \in (m + 1)..Len(Queued) : ~Queued[k].marked
    <3>1. \A k \in m + 1..L : k \in 1..L
      BY <1>2, <1>4
    <3>. QED BY <1>1, <1>4, <1>9, <3>1 DEF StopsAt
  <2>3. Queued' = [SubSeq(Queued, 1, m) EXCEPT ![m].marked = FALSE] /\ errReply' = <<"pop", 1>>
    BY <1>1, <1>4, <1>8, <1>12 DEF PopOk
  <2>. QED BY <2>1, <2>2, <2>3 DEF List!ListPop, List!Returns
<1>. QED BY <1>11, <1>12

(* The ring of errors is the list err.h describes, for any size of the     *)
(* ring and any errors: every call on it does to the list, and returns,    *)
(* what the list's operation does (err.c, err.h "removes errors from the   *)
(* most recent to the least recent until ... a marked error").             *)
THEOREM RingIsList == ErrSpec => ImplementsList
<1>1. ErrInit => List!ListInit
  <2>. SUFFICES ASSUME ErrInit
                PROVE  List!ListInit
    OBVIOUS
  <2>1. errTop = 0 /\ errBottom = 0 /\ errReply = <<"none", 0>>
    BY DEF ErrInit
  <2>2. 0 \in Places /\ Count(0, 0) = 0
    BY RingSize DEF Places, Count
  <2>3. Queued = Raw(errors, 0, 0)
    BY <2>1 DEF Queued, Raw
  <2>4. Queued = Line(errors, 0, 0)
    BY <2>2, <2>3, RawIs
  <2>5. Line(errors, 0, 0) = <<>>
    BY <2>2 DEF Line
  <2>. QED BY <2>1, <2>4, <2>5 DEF List!ListInit
<1>2. ErrInv /\ ErrInv' /\ [ErrNext]_errVars => [List!ListNext]_<<Queued, errReply>>
  <2>. SUFFICES ASSUME ErrInv, ErrInv', [ErrNext]_errVars
                PROVE  [List!ListNext]_<<Queued, errReply>>
    OBVIOUS
  <2>1. ASSUME NEW c \in ErrorCode, PutError(c)
        PROVE  List!ListNext
    BY <2>1, PutIsListPut DEF List!ListNext
  <2>2. ASSUME NEW data \in BOOLEAN, GetErrorValues(TRUE, FALSE, data)
        PROVE  List!ListNext
    BY <2>2, GetIsListGet DEF List!ListNext
  <2>3. ASSUME NEW top \in BOOLEAN, NEW data \in BOOLEAN, GetErrorValues(FALSE, top, data)
        PROVE  List!ListNext
    BY <2>3, GetIsListGet DEF List!ListNext
  <2>4. CASE ClearErrors
    BY <2>4, ClearIsListClear DEF List!ListNext
  <2>5. CASE AddData
    BY <2>5, AddDataIsListAddData DEF List!ListNext
  <2>6. CASE SetMark
    BY <2>6, MarkIsListMark DEF List!ListNext
  <2>7. CASE PopToMark
    BY <2>7, PopIsListPop DEF List!ListNext
  <2>8. CASE FreeString \/ UNCHANGED errVars
    <3>1. errors' = errors /\ errTop' = errTop /\ errBottom' = errBottom /\ errReply' = errReply
      BY <2>8 DEF FreeString, errVars
    <3>2. Queued' = Queued
      BY <3>1, LinesAre
    <3>. QED BY <3>1, <3>2
  <2>. QED BY <2>1, <2>2, <2>3, <2>4, <2>5, <2>6, <2>7, <2>8 DEF ErrNext, GetError, PeekError
<1>. QED BY <1>1, <1>2, ErrStart, ErrStep, PTL DEF ErrSpec, ImplementsList, List!ListSpec
================================================================================

---------------------------- MODULE Libssl_proofs ----------------------------
(* Proofs about three parts of a connection, each for every value of the     *)
(* constants.                                                                *)
(*                                                                           *)
(* Part 1, DtlsMessages: messages are read whole, in order and once, and the *)
(* reassembly mask of a message says what has arrived of it, for messages,   *)
(* datagrams and bytes of any size and any number of fragments on the        *)
(* network.  First comes the arithmetic of the mask (d1_both.c marks whole   *)
(* bytes of a long fragment and single bits of a short one), then the        *)
(* invariant of the writer, the network and the reader.                      *)
(*                                                                           *)
(* Part 2, TlsStream: the bytes SSL_read returns are those SSL_write was     *)
(* given, from the first one on and in order, however records, transport     *)
(* calls, retries and alerts divide them.  What is on its way is treated as  *)
(* one sequence of cells, from the record the reader is at to the one the    *)
(* writer still holds; every step leaves it as it is but for records the     *)
(* writer appends and the first one the reader takes.                        *)
(*                                                                           *)
(* Part 3, VersionNegotiation: the versions the ends settle on is the one    *)
(* they should.  A hello and an answer are runs of cells, of which the       *)
(* server has taken the first a and the client the first b.                  *)
EXTENDS DtlsMessages, TlsStream, VersionNegotiation, SequenceTheorems, TLAPS

------------------------------------------------------------------------------
(* PART 1: MESSAGES OF DTLS                                                  *)

------------------------------------------------------------------------------
(* Bytes and bits.                                                          *)

LEMMA Division ==
  ASSUME NEW i \in Nat, NEW B \in Nat \ {0}
  PROVE  /\ i \div B \in Nat /\ i % B \in 0..B - 1
         /\ i = (i \div B) * B + (i % B)
BY SMT

LEMMA Multiples ==
  ASSUME NEW a \in Nat, NEW b \in Nat, NEW B \in Nat \ {0}
  PROVE  /\ a * B \in Nat
         /\ a < b => a * B + B <= b * B
BY SMT

LEMMA Sizes == ByteBits \in Nat \ {0} /\ Mtu \in Nat \ {0} /\ FallbackMtu \in Nat \ {0}
BY SizesArePositive

(* Where a position is in the mask.                                        *)
LEMMA InByte ==
  ASSUME NEW i \in Nat
  PROVE  /\ ByteOf(i) \in Nat \ {0} /\ i % ByteBits \in Bits
         /\ i = (ByteOf(i) - 1) * ByteBits + (i % ByteBits)
<1>1. /\ i \div ByteBits \in Nat /\ i % ByteBits \in 0..ByteBits - 1
      /\ i = (i \div ByteBits) * ByteBits + (i % ByteBits)
  BY Division, Sizes
<1>2. ByteOf(i) = (i \div ByteBits) + 1
  BY DEF ByteOf
<1>3. ByteOf(i) - 1 = i \div ByteBits
  BY <1>1, <1>2
<1>. QED BY <1>1, <1>2, <1>3 DEF Bits

(* Positions are in the order of their bytes, then of their bits.          *)
LEMMA BytesInOrder ==
  ASSUME NEW i \in Nat, NEW j \in Nat
  PROVE  i <= j <=> \/ ByteOf(i) < ByteOf(j)
                    \/ ByteOf(i) = ByteOf(j) /\ i % ByteBits <= j % ByteBits
<1>. DEFINE a == ByteOf(i) - 1
            b == ByteOf(j) - 1
            k == i % ByteBits
            l == j % ByteBits
<1>1. /\ a \in Nat /\ b \in Nat /\ ByteOf(i) = a + 1 /\ ByteOf(j) = b + 1
      /\ k \in Nat /\ l \in Nat /\ k < ByteBits /\ l < ByteBits /\ ByteBits \in Nat
      /\ i = a * ByteBits + k /\ j = b * ByteBits + l
  <2>1. ByteOf(i) \in Nat \ {0} /\ k \in Bits /\ i = a * ByteBits + k
    BY InByte
  <2>2. ByteOf(j) \in Nat \ {0} /\ l \in Bits /\ j = b * ByteBits + l
    BY InByte
  <2>3. a \in Nat /\ b \in Nat /\ ByteOf(i) = a + 1 /\ ByteOf(j) = b + 1
    BY <2>1, <2>2
  <2>4. k \in Nat /\ l \in Nat /\ k < ByteBits /\ l < ByteBits /\ ByteBits \in Nat
    BY <2>1, <2>2, Sizes DEF Bits
  <2>. QED BY <2>1, <2>2, <2>3, <2>4
<1>2. /\ a * ByteBits \in Nat /\ b * ByteBits \in Nat
      /\ a < b => a * ByteBits + ByteBits <= b * ByteBits
      /\ b < a => b * ByteBits + ByteBits <= a * ByteBits
  BY <1>1, Multiples, Sizes
<1>. HIDE DEF a, b, k, l
<1>3. CASE a < b
  BY <1>1, <1>2, <1>3
<1>4. CASE b < a
  BY <1>1, <1>2, <1>4
<1>5. CASE a = b
  BY <1>1, <1>2, <1>5
<1>6. i <= j <=> (a < b \/ (a = b /\ k <= l))
  BY <1>1, <1>2
<1>7. (ByteOf(i) < ByteOf(j) <=> a < b) /\ (ByteOf(i) = ByteOf(j) <=> a = b)
  BY <1>1
<1>. QED BY <1>6, <1>7 DEF k, l

(* The bits of the last byte, bitmask_end_values, end with the last one.   *)
LEMMA EndBits ==
  ASSUME NEW e \in Nat \ {0}
  PROVE  EndValue(e % ByteBits) = 0..((e - 1) % ByteBits)
<1>. DEFINE k == (e - 1) % ByteBits
            a == (e - 1) \div ByteBits
<1>0. e - 1 \in Nat
  OBVIOUS
<1>1. /\ k \in 0..ByteBits - 1 /\ a \in Nat /\ e - 1 = a * ByteBits + k
  BY <1>0, Division, Sizes
<1>2. e % ByteBits = IF k = ByteBits - 1 THEN 0 ELSE k + 1
  <2>. DEFINE c == e \div ByteBits
              l == e % ByteBits
  <2>1. l \in 0..ByteBits - 1 /\ c \in Nat /\ e = c * ByteBits + l
    BY Division, Sizes
  <2>2. /\ a * ByteBits \in Nat /\ c * ByteBits \in Nat
        /\ a < c => a * ByteBits + ByteBits <= c * ByteBits
        /\ c < a => c * ByteBits + ByteBits <= a * ByteBits
    BY <1>1, <2>1, Multiples, Sizes
  <2>3. a + 1 < c => (a + 1) * ByteBits + ByteBits <= c * ByteBits
    BY <1>1, <2>1, Multiples, Sizes
  <2>4. (a + 1) * ByteBits = a * ByteBits + ByteBits
    BY <1>1, Sizes
  <2>. DEFINE aB == a * ByteBits
              cB == c * ByteBits
  <2>5. /\ aB \in Nat /\ cB \in Nat /\ e - 1 = aB + k /\ e = cB + l
        /\ a < c => aB + ByteBits <= cB
        /\ c < a => cB + ByteBits <= aB
        /\ a + 1 < c => aB + ByteBits + ByteBits <= cB
        /\ a = c => aB = cB
        /\ c = a + 1 => cB = aB + ByteBits
    BY <1>1, <2>1, <2>2, <2>3, <2>4
  <2>6. a \in Nat /\ c \in Nat /\ k \in 0..ByteBits - 1 /\ l \in 0..ByteBits - 1
    BY <1>1, <2>1
  <2>. HIDE DEF a, c, aB, cB, k, l
  <2>7. l = IF k = ByteBits - 1 THEN 0 ELSE k + 1
    BY <2>5, <2>6, Sizes
  <2>. QED BY <2>7 DEF l
<1>. HIDE DEF k, a
<1>3. EndValue(e % ByteBits) = 0..k
  BY <1>1, <1>2, Sizes DEF EndValue, Bits
<1>. QED BY <1>3 DEF k

(* The mask of a message has a byte for each of its positions.             *)
LEMMA MaskHasByte ==
  ASSUME NEW len \in Nat, NEW p \in 0..len - 1
  PROVE  MaskSize(len) \in Nat \ {0} /\ ByteOf(p) \in 1..MaskSize(len)
<1>. DEFINE m == (len + ByteBits - 1) \div ByteBits
            r == (len + ByteBits - 1) % ByteBits
            q == p \div ByteBits
            k == p % ByteBits
<1>1. len + ByteBits - 1 \in Nat /\ p \in Nat
  BY Sizes
<1>2. m \in Nat /\ r \in 0..ByteBits - 1 /\ len + ByteBits - 1 = m * ByteBits + r
  BY <1>1, Division, Sizes
<1>3. q \in Nat /\ k \in 0..ByteBits - 1 /\ p = q * ByteBits + k
  BY <1>1, Division, Sizes
<1>4. /\ m * ByteBits \in Nat /\ q * ByteBits \in Nat
      /\ m = q \/ m < q \/ q < m
      /\ m < q => m * ByteBits + ByteBits <= q * ByteBits
  BY <1>2, <1>3, Multiples, Sizes
<1>. DEFINE mB == m * ByteBits
            qB == q * ByteBits
<1>5. /\ mB \in Nat /\ qB \in Nat /\ len + ByteBits - 1 = mB + r /\ p = qB + k
      /\ m = q => mB = qB
      /\ m < q => mB + ByteBits <= qB
  BY <1>2, <1>3, <1>4
<1>6. MaskSize(len) = m /\ ByteOf(p) = q + 1
  BY DEF MaskSize, ByteOf
<1>. HIDE DEF m, r, q, k, mB, qB
<1>7. q < m
  BY <1>2, <1>3, <1>4, <1>5, Sizes
<1>. QED BY <1>2, <1>3, <1>6, <1>7

------------------------------------------------------------------------------
(* Marking.                                                                 *)

Masks(len) == [1..MaskSize(len) -> SUBSET Bits]
Holds(mask, p) == p % ByteBits \in mask[ByteOf(p)]

LEMMA BitsAreMarked ==
  ASSUME NEW len \in Nat, NEW mask \in Masks(len), NEW s \in Nat, NEW e \in Nat,
         NEW p \in 0..len - 1
  PROVE  Holds(MarkedBits(mask, s, e), p) <=> (Holds(mask, p) \/ p \in s..e - 1)
<1>1. ByteOf(p) \in 1..MaskSize(len) /\ p \in Nat
  BY MaskHasByte
<1>2. p % ByteBits \in Bits /\ p = (ByteOf(p) - 1) * ByteBits + (p % ByteBits)
  BY <1>1, InByte
<1>3. ByteOf(p) \in DOMAIN mask
  BY <1>1 DEF Masks
<1>4. MarkedBits(mask, s, e)[ByteOf(p)]
        = mask[ByteOf(p)] \cup {k \in Bits : (ByteOf(p) - 1) * ByteBits + k \in s..e - 1}
  BY <1>3 DEF MarkedBits
<1>5. p % ByteBits \in {k \in Bits : (ByteOf(p) - 1) * ByteBits + k \in s..e - 1}
        <=> p \in s..e - 1
  BY <1>2
<1>. QED BY <1>4, <1>5 DEF Holds

LEMMA BytesAreMarked ==
  ASSUME NEW len \in Nat, NEW mask \in Masks(len), NEW s \in Nat, NEW e \in Nat,
         e - s > ByteBits, NEW p \in 0..len - 1
  PROVE  Holds(MarkedBytes(mask, s, e), p) <=> (Holds(mask, p) \/ p \in s..e - 1)
<1>. DEFINE b == ByteOf(p)
            k == p % ByteBits
<1>1. b \in 1..MaskSize(len) /\ p \in Nat /\ b \in DOMAIN mask
  BY MaskHasByte DEF Masks
<1>2. e \in Nat \ {0} /\ e - 1 \in Nat /\ s + ByteBits \in Nat /\ s + ByteBits <= e - 1
  BY Sizes
<1>3. /\ s <= p <=> (ByteOf(s) < b \/ (ByteOf(s) = b /\ s % ByteBits <= k))
      /\ p <= e - 1 <=> (b < ByteOf(e - 1) \/ (b = ByteOf(e - 1) /\ k <= (e - 1) % ByteBits))
  BY <1>1, <1>2, BytesInOrder
<1>4. ByteOf(s) < ByteOf(e - 1)
  <2>. DEFINE x == ByteOf(s) - 1
              y == ByteOf(e - 1) - 1
  <2>1. /\ x \in Nat /\ y \in Nat /\ ByteOf(s) = x + 1 /\ ByteOf(e - 1) = y + 1
        /\ s = x * ByteBits + (s % ByteBits) /\ s % ByteBits \in Bits
        /\ e - 1 = y * ByteBits + ((e - 1) % ByteBits) /\ (e - 1) % ByteBits \in Bits
    BY <1>2, InByte
  <2>2. /\ x * ByteBits \in Nat /\ y * ByteBits \in Nat
        /\ y < x => y * ByteBits + ByteBits <= x * ByteBits
    BY <2>1, Multiples, Sizes
  <2>. DEFINE xB == x * ByteBits
              yB == y * ByteBits
              u == s % ByteBits
              v == (e - 1) % ByteBits
  <2>3. /\ xB \in Nat /\ yB \in Nat /\ s = xB + u /\ e - 1 = yB + v
        /\ u \in 0..ByteBits - 1 /\ v \in 0..ByteBits - 1
        /\ y < x => yB + ByteBits <= xB
        /\ x = y => xB = yB
    BY <2>1, <2>2 DEF Bits
  <2>4. x \in Nat /\ y \in Nat
    BY <2>1
  <2>. HIDE DEF x, y, xB, yB, u, v
  <2>5. x < y
    BY <1>2, <2>3, <2>4, Sizes
  <2>. QED BY <2>1, <2>5
<1>5. k \in Bits /\ b \in Nat /\ ByteOf(s) \in Nat /\ ByteOf(e - 1) \in Nat
  BY <1>1, <1>2, InByte
<1>6. s % ByteBits \in Bits /\ (e - 1) % ByteBits \in Bits
  BY <1>2, InByte
<1>7. EndValue(e % ByteBits) = 0..((e - 1) % ByteBits)
  BY <1>2, EndBits
<1>8. MarkedBytes(mask, s, e)[b]
        = mask[b] \cup (IF b = ByteOf(s) THEN StartValue(s % ByteBits) ELSE {})
                  \cup (IF b > ByteOf(s) /\ b < ByteOf(e - 1) THEN Bits ELSE {})
                  \cup (IF b = ByteOf(e - 1) THEN EndValue(e % ByteBits) ELSE {})
  BY <1>1 DEF MarkedBytes
<1>9. p \in s..e - 1 <=> (s <= p /\ p <= e - 1)
  BY <1>1, <1>2
<1>10. k \in StartValue(s % ByteBits) <=> s % ByteBits <= k
  BY <1>5, <1>6 DEF StartValue, Bits
<1>11. k \in EndValue(e % ByteBits) <=> k <= (e - 1) % ByteBits
  BY <1>5, <1>6, <1>7 DEF Bits
<1>. HIDE DEF b, k
<1>12. k \in MarkedBytes(mask, s, e)[b]
         <=> \/ k \in mask[b]
             \/ b = ByteOf(s) /\ k \in StartValue(s % ByteBits)
             \/ b > ByteOf(s) /\ b < ByteOf(e - 1)
             \/ b = ByteOf(e - 1) /\ k \in EndValue(e % ByteBits)
  BY <1>5, <1>8
<1>13. (s <= p /\ p <= e - 1)
         <=> \/ b = ByteOf(s) /\ s % ByteBits <= k
             \/ b > ByteOf(s) /\ b < ByteOf(e - 1)
             \/ b = ByteOf(e - 1) /\ k <= (e - 1) % ByteBits
  BY <1>3, <1>4, <1>5
<1>. QED BY <1>9, <1>10, <1>11, <1>12, <1>13 DEF Holds, b, k

(* The mask of a message after a fragment: what it had, and the fragment.  *)
Adds(mask, new, len, s, e) ==
  /\ new \in Masks(len)
  /\ \A p \in 0..len - 1 : Holds(new, p) <=> (Holds(mask, p) \/ p \in s..e - 1)

LEMMA FragmentIsMarked ==
  ASSUME NEW len \in Nat, NEW mask \in Masks(len), NEW s \in Nat, NEW e \in Nat
  PROVE  Adds(mask, Marked(mask, s, e), len, s, e)
<1>1. Marked(mask, s, e) \in Masks(len)
  <2>1. MarkedBits(mask, s, e) \in Masks(len)
    BY DEF MarkedBits, Masks
  <2>2. ASSUME e - s > ByteBits
        PROVE  MarkedBytes(mask, s, e) \in Masks(len)
    <3>1. e \in Nat \ {0} /\ e - 1 \in Nat
      BY <2>2, Sizes
    <3>2. StartValue(s % ByteBits) \subseteq Bits
      BY InByte DEF StartValue, Bits
    <3>3. EndValue(e % ByteBits) \subseteq Bits
      <4>1. (e - 1) % ByteBits \in Bits
        BY <3>1, InByte
      <4>2. EndValue(e % ByteBits) = 0..((e - 1) % ByteBits)
        BY <3>1, EndBits
      <4>. DEFINE v == (e - 1) % ByteBits
      <4>3. v \in 0..ByteBits - 1 /\ ByteBits \in Nat /\ EndValue(e % ByteBits) = 0..v
        BY <4>1, <4>2, Sizes DEF Bits
      <4>. HIDE DEF v
      <4>. QED BY <4>3 DEF Bits
    <3>. QED BY <3>2, <3>3 DEF MarkedBytes, Masks
  <2>. QED BY <2>1, <2>2, Sizes DEF Marked
<1>2. ASSUME NEW p \in 0..len - 1
      PROVE  Holds(Marked(mask, s, e), p) <=> (Holds(mask, p) \/ p \in s..e - 1)
  <2>1. CASE e - s <= ByteBits
    BY <2>1, BitsAreMarked DEF Marked
  <2>2. CASE ~(e - s <= ByteBits)
    <3>1. e - s > ByteBits
      BY <2>2, Sizes
    <3>. QED BY <2>2, <3>1, BytesAreMarked DEF Marked
  <2>. QED BY <2>1, <2>2
<1>. QED BY <1>1, <1>2 DEF Adds

(* A mask that counts as complete has the bit of every position.           *)
LEMMA CompleteIsFull ==
  ASSUME NEW len \in Nat, NEW mask \in Masks(len), IsComplete(mask, len),
         NEW p \in 0..len - 1
  PROVE  Holds(mask, p)
<1>1. p \in Nat /\ len \in Nat \ {0} /\ len - 1 \in Nat /\ p <= len - 1
  OBVIOUS
<1>2. p % ByteBits \in Bits /\ ByteOf(p) \in Nat \ {0} /\ ByteOf(len - 1) \in Nat \ {0}
  BY <1>1, InByte
<1>3. ByteOf(p) < ByteOf(len - 1) \/ (ByteOf(p) = ByteOf(len - 1) /\ p % ByteBits <= (len - 1) % ByteBits)
  BY <1>1, BytesInOrder
<1>4. CASE ByteOf(p) < ByteOf(len - 1)
  <2>1. ByteOf(p) \in 1..ByteOf(len - 1) - 1
    BY <1>2, <1>4
  <2>. QED BY <1>2, <2>1 DEF IsComplete, Holds
<1>5. CASE ByteOf(p) = ByteOf(len - 1) /\ p % ByteBits <= (len - 1) % ByteBits
  <2>1. mask[ByteOf(p)] = 0..((len - 1) % ByteBits)
    BY <1>1, <1>5, EndBits DEF IsComplete
  <2>2. (len - 1) % ByteBits \in Bits
    BY <1>1, InByte
  <2>3. p % ByteBits \in 0..((len - 1) % ByteBits)
    BY <1>2, <1>5, <2>2 DEF Bits
  <2>. QED BY <2>1, <2>3 DEF Holds
<1>. QED BY <1>3, <1>4, <1>5

------------------------------------------------------------------------------
(* The invariant.                                                           *)

Contents == UNION {[Positions(i) -> Positions(i) \cup {Unset}] : i \in Messages}
Itself(i) == [p \in Positions(i) |-> p]

LEMMA LengthsAreNat == \A i \in Messages : Lengths[i] \in Nat /\ i \in 1..Count
BY LengthsAreNaturals DEF Messages, Count

LEMMA CountIsNat == Count \in Nat /\ Messages = 1..Count
BY LengthsAreNaturals DEF Messages, Count

(* A fragment lies in its message and carries what it says it carries,     *)
(* unless the writing of the message blocked half-way.                     *)
FragmentOk(f) ==
  /\ f.seq \in Messages
  /\ f.off \in Nat /\ f.len \in Nat /\ f.from \in Nat
  /\ f.off + f.len <= Lengths[f.seq] /\ f.from + f.len <= Lengths[f.seq]
  /\ f.seq \notin broken => f.from = f.off

(* An item of the queue: content, mask and what was sent agree.            *)
ItemOk(item) ==
  /\ item.seq \in Messages
  /\ item.content \in [Positions(item.seq) -> Positions(item.seq) \cup {Unset}]
  /\ item.reassembly = NULL \/ item.reassembly \in Masks(Lengths[item.seq])
  /\ item = [seq |-> item.seq, content |-> item.content, reassembly |-> item.reassembly]
  /\ \A p \in Positions(item.seq) :
        (item.content[p] # Unset) <=> (item.reassembly = NULL \/ Holds(item.reassembly, p))
  /\ item.seq \notin broken =>
        \A p \in Positions(item.seq) : item.content[p] \in {p, Unset}

ReadOk(r) ==
  /\ r = [next |-> r.next, queue |-> r.queue, got |-> r.got]
  /\ r.next \in 1..Count + 1
  /\ r.got \in Seq(Contents) /\ Len(r.got) = r.next - 1
  /\ \A i \in 1..r.next - 1 : i \notin broken => r.got[i] = Itself(i)
  /\ \A item \in r.queue : ItemOk(item)
  /\ \A item, other \in r.queue : item.seq = other.seq => item = other

WriterInv ==
  /\ next \in 1..Count + 1 /\ off \in Nat /\ fragOff \in Nat /\ fragOff <= off
  /\ next \in Messages => off <= Lengths[next]
  /\ next \notin Messages => off = 0
  /\ next \notin broken => fragOff = off
  /\ mtu \in {Mtu, FallbackMtu} /\ alerts \in 0..AlertLimit
  /\ resend \in 0..next - 1
  /\ broken \subseteq Messages

NetInv == \A f \in net : FragmentOk(f)

Inv == WriterInv /\ NetInv /\ ReadOk(reader)

LEMMA InvImplies == Inv => MessagesAreIntact
<1>. SUFFICES ASSUME Inv
              PROVE  ReadIntact /\ MaskIsFilled
  BY DEF MessagesAreIntact
<1>1. ReadIntact
  <2>1. Len(reader.got) = reader.next - 1 /\ DOMAIN reader.got = 1..reader.next - 1
    BY LenProperties DEF Inv, ReadOk
  <2>. QED BY <2>1 DEF Inv, ReadOk, ReadIntact, Itself
<1>2. MaskIsFilled
  BY DEF Inv, ReadOk, ItemOk, MaskIsFilled, Holds
<1>. QED BY <1>1, <1>2

------------------------------------------------------------------------------
(* The reader's functions keep it.                                          *)

LEMMA CopyContent ==
  ASSUME NEW f, FragmentOk(f), NEW c \in [Positions(f.seq) -> Positions(f.seq) \cup {Unset}]
  PROVE  /\ Copied(c, f) \in [Positions(f.seq) -> Positions(f.seq) \cup {Unset}]
         /\ \A p \in Positions(f.seq) :
              /\ Copied(c, f)[p] # Unset <=> (c[p] # Unset \/ p \in f.off..f.off + f.len - 1)
              /\ f.seq \notin broken /\ c[p] \in {p, Unset} => Copied(c, f)[p] \in {p, Unset}
<1>1. /\ Lengths[f.seq] \in Nat /\ f.off \in Nat /\ f.len \in Nat /\ f.from \in Nat
      /\ f.off + f.len <= Lengths[f.seq] /\ f.from + f.len <= Lengths[f.seq]
      /\ f.seq \notin broken => f.from = f.off
  BY LengthsAreNat DEF FragmentOk
<1>2. \A p \in f.off..f.off + f.len - 1 : p - f.off + f.from \in Positions(f.seq)
  <2>1. \A o, l, m, n \in Nat : m + l <= n => \A p \in o..o + l - 1 : p - o + m \in 0..n - 1
    OBVIOUS
  <2>2. \A p \in f.off..f.off + f.len - 1 : p - f.off + f.from \in 0..Lengths[f.seq] - 1
    BY <1>1, <2>1
  <2>. QED BY <2>2 DEF Positions
<1>3. \A p \in Positions(f.seq) :
        Copied(c, f)[p] = IF p \in f.off..f.off + f.len - 1 THEN p - f.off + f.from ELSE c[p]
  BY DEF Copied, Covers
<1>4. Copied(c, f) = [p \in Positions(f.seq) |->
          IF p \in f.off..f.off + f.len - 1 THEN p - f.off + f.from ELSE c[p]]
  BY DEF Copied, Covers
<1>5. Copied(c, f) \in [Positions(f.seq) -> Positions(f.seq) \cup {Unset}]
  BY <1>2, <1>4
<1>6. ASSUME NEW p \in Positions(f.seq)
      PROVE  /\ Copied(c, f)[p] # Unset <=> (c[p] # Unset \/ p \in f.off..f.off + f.len - 1)
             /\ f.seq \notin broken /\ c[p] \in {p, Unset} => Copied(c, f)[p] \in {p, Unset}
  <2>1. CASE p \in f.off..f.off + f.len - 1
    <3>1. Copied(c, f)[p] = p - f.off + f.from /\ p - f.off + f.from \in Positions(f.seq)
      BY <1>2, <1>3, <2>1
    <3>2. p - f.off + f.from # Unset
      BY <1>1, <3>1 DEF Unset, Positions
    <3>3. f.seq \notin broken => p - f.off + f.from = p
      BY <1>1, <2>1
    <3>. QED BY <2>1, <3>1, <3>2, <3>3
  <2>2. CASE p \notin f.off..f.off + f.len - 1
    BY <1>3, <2>2
  <2>. QED BY <2>1, <2>2
<1>. QED BY <1>5, <1>6

Changed(item, content, reassembly) ==
  [item EXCEPT !.content = content, !.reassembly = reassembly]

LEMMA ItemChanges ==
  ASSUME NEW s, NEW c, NEW m, NEW d, NEW n,
         NEW x, x = [seq |-> s, content |-> c, reassembly |-> m]
  PROVE  Changed(x, d, n) = [seq |-> s, content |-> d, reassembly |-> n]
<1>. DEFINE y == [x EXCEPT !.content = d]
<1>1. y = [seq |-> s, content |-> d, reassembly |-> m]
  OBVIOUS
<1>2. [x EXCEPT !.content = d, !.reassembly = n] = [y EXCEPT !.reassembly = n]
  OBVIOUS
<1>. HIDE DEF y
<1>3. [y EXCEPT !.reassembly = n] = [seq |-> s, content |-> d, reassembly |-> n]
  BY <1>1
<1>. QED BY <1>2, <1>3 DEF Changed

(* An item that was just made                                              *)
LEMMA NewItemOk ==
  ASSUME NEW seq \in Messages, Lengths[seq] # 0
  PROVE  ItemOk(NewItem(seq)) /\ NewItem(seq).seq = seq
<1>. DEFINE c == [p \in Positions(seq) |-> Unset]
            m == [b \in 1..MaskSize(Lengths[seq]) |-> {}]
<1>1. NewItem(seq) = [seq |-> seq, content |-> c, reassembly |-> m]
  BY DEF NewItem
<1>2. c \in [Positions(seq) -> Positions(seq) \cup {Unset}] /\ \A p \in Positions(seq) : c[p] = Unset
  OBVIOUS
<1>3. m \in Masks(Lengths[seq])
  BY DEF Masks
<1>4. Lengths[seq] \in Nat /\ 0 \in 0..Lengths[seq] - 1
  BY LengthsAreNat
<1>5. MaskSize(Lengths[seq]) \in Nat \ {0}
  BY <1>4, MaskHasByte
<1>6. m # NULL
  <2>1. DOMAIN m = 1..MaskSize(Lengths[seq]) /\ 1 \in DOMAIN m
    BY <1>5
  <2>2. DOMAIN NULL = {}
    BY DEF NULL
  <2>. QED BY <2>1, <2>2
<1>7. \A p \in Positions(seq) : ~Holds(m, p)
  <2>1. \A p \in Positions(seq) : ByteOf(p) \in 1..MaskSize(Lengths[seq])
    BY <1>4, MaskHasByte DEF Positions
  <2>. QED BY <2>1 DEF Holds
<1>. HIDE DEF c, m
<1>. QED BY <1>1, <1>2, <1>3, <1>6, <1>7 DEF ItemOk

LEMMA ReassembledOk ==
  ASSUME NEW f, FragmentOk(f), NEW item, ItemOk(item), item.seq = f.seq
  PROVE  ItemOk(Reassembled(item, f)) /\ Reassembled(item, f).seq = f.seq
<1>1. CASE item.reassembly = NULL
  BY <1>1 DEF Reassembled
<1>2. CASE item.reassembly # NULL
  <2>. DEFINE len == Lengths[f.seq]
              c == item.content
              m == Marked(item.reassembly, f.off, f.off + f.len)
              d == Copied(c, f)
              n == IF IsComplete(m, len) THEN NULL ELSE m
  <2>1. /\ len \in Nat /\ f.off \in Nat /\ f.off + f.len \in Nat
        /\ item.reassembly \in Masks(len) /\ f.seq \in Messages
        /\ Positions(f.seq) = 0..len - 1
        /\ c \in [Positions(f.seq) -> Positions(f.seq) \cup {Unset}]
    BY <1>2, LengthsAreNat DEF ItemOk, FragmentOk, Positions
  <2>2. Adds(item.reassembly, m, len, f.off, f.off + f.len)
    BY <2>1, FragmentIsMarked
  <2>3. /\ d \in [Positions(f.seq) -> Positions(f.seq) \cup {Unset}]
        /\ \A p \in Positions(f.seq) :
             /\ d[p] # Unset <=> (c[p] # Unset \/ p \in f.off..f.off + f.len - 1)
             /\ f.seq \notin broken /\ c[p] \in {p, Unset} => d[p] \in {p, Unset}
    BY <2>1, CopyContent
  <2>4. \A p \in Positions(f.seq) : c[p] # Unset <=> Holds(item.reassembly, p)
    BY <1>2 DEF ItemOk
  <2>5. \A p \in Positions(f.seq) : d[p] # Unset <=> Holds(m, p)
    <3>. SUFFICES ASSUME NEW p \in Positions(f.seq)
                  PROVE  d[p] # Unset <=> Holds(m, p)
      OBVIOUS
    <3>1. Holds(m, p) <=> (Holds(item.reassembly, p) \/ p \in f.off..f.off + f.len - 1)
      <4>1. p \in 0..len - 1 /\ f.off + f.len - 1 = (f.off + f.len) - 1
        BY <2>1 DEF FragmentOk
      <4>. HIDE DEF m, len
      <4>2. Holds(m, p) <=> (Holds(item.reassembly, p) \/ p \in f.off..(f.off + f.len) - 1)
        BY <2>2, <4>1 DEF Adds, Holds
      <4>. QED BY <4>1, <4>2
    <3>2. d[p] # Unset <=> (c[p] # Unset \/ p \in f.off..f.off + f.len - 1)
      BY <2>3
    <3>3. c[p] # Unset <=> Holds(item.reassembly, p)
      BY <2>4
    <3>. HIDE DEF m, len, c, d
    <3>. QED BY <3>1, <3>2, <3>3
  <2>6. IsComplete(m, len) => \A p \in Positions(f.seq) : Holds(m, p)
    BY <2>1, <2>2, CompleteIsFull DEF Adds
  <2>7. Reassembled(item, f) = [item EXCEPT !.content = d, !.reassembly = n]
    BY <1>2 DEF Reassembled
  <2>8. f.seq \notin broken => \A p \in Positions(f.seq) : c[p] \in {p, Unset}
    BY DEF ItemOk
  <2>9. item = [seq |-> f.seq, content |-> c, reassembly |-> item.reassembly]
    BY DEF ItemOk
  <2>. HIDE DEF c, d, m, n, len
  <2>10. Reassembled(item, f) = [seq |-> f.seq, content |-> d, reassembly |-> n]
    BY <2>7, <2>9
  <2>11. ASSUME NEW p \in Positions(f.seq)
         PROVE  d[p] # Unset <=> (n = NULL \/ Holds(n, p))
    <3>1. CASE IsComplete(m, len)
      BY <2>5, <2>6, <3>1 DEF n
    <3>2. CASE ~IsComplete(m, len)
      <4>1. n = m
        BY <3>2 DEF n
      <4>2. 0 \in 0..len - 1
        BY <2>1
      <4>3. MaskSize(len) \in Nat \ {0}
        BY <2>1, <4>2, MaskHasByte
      <4>4. DOMAIN m = 1..MaskSize(len) /\ 1 \in DOMAIN m
        BY <2>2, <4>3 DEF Masks, Adds
      <4>5. m # NULL
        <5>1. DOMAIN NULL = {}
          BY DEF NULL
        <5>. QED BY <4>4, <5>1
      <4>. QED BY <2>5, <4>1, <4>5
    <3>. QED BY <3>1, <3>2
  <2>12. n = NULL \/ n \in Masks(Lengths[f.seq])
    BY <2>2 DEF n, len, Adds
  <2>13. f.seq \notin broken => \A p \in Positions(f.seq) : d[p] \in {p, Unset}
    BY <2>3, <2>8
  <2>14. /\ f.seq \in Messages
         /\ d \in [Positions(f.seq) -> Positions(f.seq) \cup {Unset}]
    BY <2>1, <2>3
  <2>. DEFINE x == Reassembled(item, f)
  <2>15. x.seq = f.seq /\ x.content = d /\ x.reassembly = n
    BY <2>10
  <2>16. x = [seq |-> x.seq, content |-> x.content, reassembly |-> x.reassembly]
    BY <2>10, <2>15
  <2>17. \A p \in Positions(x.seq) : x.content[p] # Unset <=> (x.reassembly = NULL \/ Holds(x.reassembly, p))
    BY <2>11, <2>15
  <2>. HIDE DEF x
  <2>18. ItemOk(x)
    BY <2>12, <2>13, <2>14, <2>15, <2>16, <2>17 DEF ItemOk
  <2>. QED BY <2>15, <2>18 DEF x
<1>. QED BY <1>1, <1>2

LEMMA DeliverOk ==
  ASSUME NEW r, ReadOk(r), r.next \in Messages, NEW c \in Contents,
         r.next \notin broken => c = Itself(r.next)
  PROVE  ReadOk(Deliver(r, c))
<1>1. r.next \in 1..Count /\ Count \in Nat
  BY CountIsNat
<1>2. Deliver(r, c) = [next |-> r.next + 1, queue |-> r.queue, got |-> Append(r.got, c)]
  <2>. DEFINE a == r.next
              b == r.queue
              d == r.got
  <2>1. r = [next |-> a, queue |-> b, got |-> d]
    BY DEF ReadOk
  <2>2. Deliver(r, c) = [r EXCEPT !.next = a + 1, !.got = Append(d, c)]
    BY DEF Deliver
  <2>. HIDE DEF a, b, d
  <2>3. Deliver(r, c) = [next |-> a + 1, queue |-> b, got |-> Append(d, c)]
    BY <2>1, <2>2
  <2>. QED BY <2>3 DEF a, b, d
<1>3. /\ Append(r.got, c) \in Seq(Contents) /\ Len(Append(r.got, c)) = r.next
      /\ Append(r.got, c)[r.next] = c
      /\ \A i \in 1..r.next - 1 : Append(r.got, c)[i] = r.got[i]
  <2>1. r.got \in Seq(Contents) /\ Len(r.got) = r.next - 1
    BY DEF ReadOk
  <2>. QED BY <1>1, <2>1, AppendProperties
<1>4. \A i \in 1..r.next : i \notin broken => Append(r.got, c)[i] = Itself(i)
  <2>1. \A i \in 1..r.next : i = r.next \/ i \in 1..r.next - 1
    BY <1>1
  <2>2. \A i \in 1..r.next - 1 : i \notin broken => r.got[i] = Itself(i)
    BY DEF ReadOk
  <2>. QED BY <1>3, <2>1, <2>2
<1>5. /\ Deliver(r, c).next = r.next + 1 /\ Deliver(r, c).queue = r.queue
      /\ Deliver(r, c).got = Append(r.got, c)
  BY <1>2
<1>6. r.next + 1 \in 1..Count + 1 /\ r.next + 1 - 1 = r.next
  BY <1>1
<1>7. /\ \A item \in r.queue : ItemOk(item)
      /\ \A item, other \in r.queue : item.seq = other.seq => item = other
  BY DEF ReadOk
<1>. QED BY <1>2, <1>3, <1>4, <1>5, <1>6, <1>7 DEF ReadOk

LEMMA QueueOk ==
  ASSUME NEW r, ReadOk(r), NEW q, \A item \in q : ItemOk(item),
         \A item, other \in q : item.seq = other.seq => item = other
  PROVE  /\ ReadOk([r EXCEPT !.queue = q])
         /\ [r EXCEPT !.queue = q].next = r.next
<1>1. [r EXCEPT !.queue = q] = [next |-> r.next, queue |-> q, got |-> r.got]
  <2>. DEFINE a == r.next
              b == r.queue
              d == r.got
  <2>1. r = [next |-> a, queue |-> b, got |-> d]
    BY DEF ReadOk
  <2>. HIDE DEF a, b, d
  <2>2. [r EXCEPT !.queue = q] = [next |-> a, queue |-> q, got |-> d]
    BY <2>1
  <2>. QED BY <2>2 DEF a, b, d
<1>. QED BY <1>1 DEF ReadOk

LEMMA ReassembleOk ==
  ASSUME NEW r, ReadOk(r), NEW f, FragmentOk(f), ~IsWhole(f)
  PROVE  ReadOk(Reassemble(r, f))
<1>. DEFINE found == Items(r, f.seq)
            items == IF found = {} THEN {NewItem(f.seq)} ELSE found
            q == (r.queue \ found) \cup {Reassembled(item, f) : item \in items}
<1>1. Reassemble(r, f) = [r EXCEPT !.queue = q]
  BY DEF Reassemble
<1>2. /\ f.seq \in Messages /\ f.len \in Nat /\ f.off \in Nat
      /\ f.off + f.len <= Lengths[f.seq] /\ Lengths[f.seq] \in Nat
  BY LengthsAreNat DEF FragmentOk
<1>3. Lengths[f.seq] # 0
  BY <1>2 DEF IsWhole
<1>4. found \subseteq r.queue /\ \A item \in found : item.seq = f.seq
  BY DEF Items
<1>5. /\ \A item \in r.queue : ItemOk(item)
      /\ \A item, other \in r.queue : item.seq = other.seq => item = other
  BY DEF ReadOk
<1>6. \A item \in items : ItemOk(item) /\ item.seq = f.seq
  BY <1>2, <1>3, <1>4, <1>5, NewItemOk
<1>7. \A item, other \in items : item = other
  BY <1>4, <1>5
<1>8. \A item \in items : ItemOk(Reassembled(item, f)) /\ Reassembled(item, f).seq = f.seq
  BY <1>6, ReassembledOk
<1>9. \A item \in r.queue \ found : item.seq # f.seq
  BY DEF Items
<1>. HIDE DEF found, items
<1>10. \A item \in q : ItemOk(item)
  BY <1>5, <1>8
<1>11. \A item, other \in q : item.seq = other.seq => item = other
  BY <1>5, <1>7, <1>8, <1>9
<1>. HIDE DEF q
<1>. QED BY <1>1, <1>10, <1>11, QueueOk

(* The content of a message that came in one piece                         *)
LEMMA WholeContent ==
  ASSUME NEW f, FragmentOk(f), IsWhole(f)
  PROVE  Content(f) = Itself(f.seq) /\ Content(f) \in Contents
         /\ Content(f) \in [Positions(f.seq) -> Positions(f.seq)]
<1>1. /\ f.seq \in Messages /\ Lengths[f.seq] \in Nat
      /\ f.off = 0 /\ f.from = 0 /\ f.len = Lengths[f.seq]
  BY LengthsAreNat DEF FragmentOk, IsWhole
<1>2. NewItem(f.seq).content = [p \in Positions(f.seq) |-> Unset]
  BY DEF NewItem
<1>3. Content(f) = [p \in Positions(f.seq) |->
          IF p \in Covers(f) THEN p - f.off + f.from ELSE [x \in Positions(f.seq) |-> Unset][p]]
  BY <1>2 DEF Content, Copied
<1>4. \A p \in Positions(f.seq) : p \in Covers(f) /\ p - f.off + f.from = p
  BY <1>1 DEF Positions, Covers
<1>5. Content(f) = Itself(f.seq)
  BY <1>3, <1>4 DEF Itself
<1>6. Itself(f.seq) \in [Positions(f.seq) -> Positions(f.seq)]
  BY DEF Itself
<1>7. Itself(f.seq) \in Contents
  BY <1>1 DEF Itself, Contents
<1>. QED BY <1>5, <1>6, <1>7

LEMMA WholeItemOk ==
  ASSUME NEW f, FragmentOk(f), IsWhole(f)
  PROVE  /\ ItemOk([NewItem(f.seq) EXCEPT !.content = Content(f), !.reassembly = NULL])
         /\ [NewItem(f.seq) EXCEPT !.content = Content(f), !.reassembly = NULL].seq = f.seq
<1>. DEFINE c == Content(f)
            d == [p \in Positions(f.seq) |-> Unset]
            m == [b \in 1..MaskSize(Lengths[f.seq]) |-> {}]
<1>1. NewItem(f.seq) = [seq |-> f.seq, content |-> d, reassembly |-> m]
  BY DEF NewItem
<1>2. c = Itself(f.seq) /\ c \in [Positions(f.seq) -> Positions(f.seq)] /\ f.seq \in Messages
  BY WholeContent DEF FragmentOk
<1>3. \A p \in Positions(f.seq) : c[p] = p /\ p # Unset
  BY <1>2, LengthsAreNat DEF Itself, Positions, Unset
<1>. HIDE DEF c, d, m
<1>4. [NewItem(f.seq) EXCEPT !.content = c, !.reassembly = NULL]
        = [seq |-> f.seq, content |-> c, reassembly |-> NULL]
  <2>1. Changed(NewItem(f.seq), c, NULL) = [seq |-> f.seq, content |-> c, reassembly |-> NULL]
    BY <1>1, ItemChanges
  <2>. QED BY <2>1 DEF Changed
<1>5. ItemOk([seq |-> f.seq, content |-> c, reassembly |-> NULL])
  BY <1>2, <1>3 DEF ItemOk
<1>. QED BY <1>4, <1>5 DEF c

LEMMA OutOfSequenceOk ==
  ASSUME NEW r, ReadOk(r), NEW f, FragmentOk(f)
  PROVE  ReadOk(OutOfSequence(r, f))
<1>1. CASE \/ f.seq < r.next \/ f.seq > r.next + Ahead
           \/ IsWhole(f) /\ Items(r, f.seq) # {}
  BY <1>1 DEF OutOfSequence
<1>2. CASE ~(\/ f.seq < r.next \/ f.seq > r.next + Ahead
             \/ IsWhole(f) /\ Items(r, f.seq) # {}) /\ ~IsWhole(f)
  BY <1>2, ReassembleOk DEF OutOfSequence
<1>3. CASE ~(\/ f.seq < r.next \/ f.seq > r.next + Ahead
             \/ IsWhole(f) /\ Items(r, f.seq) # {}) /\ IsWhole(f)
  <2>. DEFINE whole == [NewItem(f.seq) EXCEPT !.content = Content(f), !.reassembly = NULL]
              q == r.queue \cup {whole}
  <2>1. OutOfSequence(r, f) = [r EXCEPT !.queue = q]
    BY <1>3 DEF OutOfSequence
  <2>2. ItemOk(whole) /\ whole.seq = f.seq
    BY <1>3, WholeItemOk
  <2>. HIDE DEF whole
  <2>3. \A item \in r.queue : ItemOk(item) /\ item.seq # f.seq
    BY <1>3 DEF ReadOk, Items
  <2>4. \A item, other \in r.queue : item.seq = other.seq => item = other
    BY DEF ReadOk
  <2>5. \A item \in q : ItemOk(item)
    BY <2>2, <2>3
  <2>6. \A item, other \in q : item.seq = other.seq => item = other
    BY <2>2, <2>3, <2>4
  <2>. HIDE DEF q
  <2>. QED BY <2>1, <2>5, <2>6, QueueOk
<1>. QED BY <1>1, <1>2, <1>3

LEMMA AcceptOk ==
  ASSUME NEW r, ReadOk(r), NEW f, FragmentOk(f)
  PROVE  ReadOk(Accept(r, f))
<1>1. CASE f.seq # r.next
  BY <1>1, OutOfSequenceOk DEF Accept
<1>2. CASE f.seq = r.next /\ ~IsWhole(f)
  BY <1>2, ReassembleOk DEF Accept
<1>3. CASE f.seq = r.next /\ IsWhole(f)
  <2>1. Content(f) = Itself(r.next) /\ Content(f) \in Contents /\ r.next \in Messages
    BY <1>3, WholeContent DEF FragmentOk
  <2>2. ReadOk(Deliver(r, Content(f)))
    BY <2>1, DeliverOk
  <2>. QED BY <1>3, <2>2 DEF Accept
<1>. QED BY <1>1, <1>2, <1>3

LEMMA RetrieveOk ==
  ASSUME NEW r, ReadOk(r)
  PROVE  ReadOk(Retrieve(r))
<1>1. CASE Retrievable(r) = {}
  BY <1>1 DEF Retrieve
<1>2. CASE Retrievable(r) # {}
  <2>. DEFINE item == CHOOSE i \in Retrievable(r) : TRUE
              q == r.queue \ {item}
              s == [r EXCEPT !.queue = q]
  <2>1. item \in Retrievable(r)
    BY <1>2
  <2>2. Retrieve(r) = Deliver(s, item.content)
    BY <1>2 DEF Retrieve
  <2>. HIDE DEF item
  <2>3. item \in r.queue /\ item.reassembly = NULL /\ item.seq = r.next
    BY <2>1 DEF Retrievable, Peek
  <2>4. ItemOk(item)
    BY <2>3 DEF ReadOk
  <2>5. /\ r.next \in Messages
        /\ item.content \in [Positions(r.next) -> Positions(r.next) \cup {Unset}]
        /\ \A p \in Positions(r.next) : item.content[p] # Unset
        /\ r.next \notin broken => \A p \in Positions(r.next) : item.content[p] \in {p, Unset}
    BY <2>3, <2>4 DEF ItemOk
  <2>6. item.content \in Contents
    BY <2>5 DEF Contents
  <2>7. r.next \notin broken => item.content = Itself(r.next)
    BY <2>5 DEF Itself
  <2>8. /\ \A i \in q : ItemOk(i)
        /\ \A i, j \in q : i.seq = j.seq => i = j
    BY DEF ReadOk
  <2>. HIDE DEF q
  <2>9. ReadOk(s) /\ s.next = r.next
    BY <2>8, QueueOk
  <2>. HIDE DEF s
  <2>10. ReadOk(Deliver(s, item.content))
    BY <2>5, <2>6, <2>7, <2>9, DeliverOk
  <2>. QED BY <2>2, <2>10
<1>. QED BY <1>1, <1>2

------------------------------------------------------------------------------
(* The steps.                                                               *)

LEMMA InitInv == Init => Inv
<1>. SUFFICES ASSUME Init
              PROVE  Inv
  OBVIOUS
<1>1. WriterInv
  BY CountIsNat, LengthsAreNat, SizesArePositive DEF Init, WriterInv
<1>2. NetInv
  BY DEF Init, NetInv
<1>3. ReadOk(reader)
  <2>1. <<>> \in Seq(Contents) /\ Len(<<>>) = 0
    BY EmptySeq
  <2>2. /\ reader.next = 1 /\ reader.queue = {} /\ reader.got = <<>>
        /\ reader = [next |-> reader.next, queue |-> reader.queue, got |-> reader.got]
    BY DEF Init
  <2>. QED BY <2>1, <2>2, CountIsNat DEF ReadOk
<1>. QED BY <1>1, <1>2, <1>3 DEF Inv

(* A step of the writer that breaks no message                             *)
LEMMA NothingBroken ==
  ASSUME Inv, broken' = broken, reader' = reader, WriterInv',
         \A f \in net' : f \in net \/ FragmentOk(f)
  PROVE  Inv'
<1>1. \A f \in net' : FragmentOk(f)
  BY DEF Inv, NetInv
<1>2. NetInv'
  BY <1>1 DEF NetInv, FragmentOk
<1>3. ReadOk(reader)'
  BY DEF Inv, ReadOk, ItemOk
<1>. QED BY <1>2, <1>3 DEF Inv

LEMMA StepWriteFragment == Inv /\ WriteFragment => Inv'
<1>. SUFFICES ASSUME Inv, WriteFragment
              PROVE  Inv'
  OBVIOUS
<1>1. PICK room \in Room :
          LET len == Smaller(room, Lengths[next] - off)
              ends == off + len = Lengths[next]
          IN /\ net' = net \cup {Fragment(next, fragOff, len, off)}
             /\ next' = IF ends THEN next + 1 ELSE next
             /\ off' = IF ends THEN 0 ELSE off + len
             /\ fragOff' = IF ends THEN 0 ELSE fragOff + len
  BY DEF WriteFragment
<1>. DEFINE len == Smaller(room, Lengths[next] - off)
            f == Fragment(next, fragOff, len, off)
<1>2. /\ next \in Messages /\ resend = 0 /\ mtu' = mtu /\ alerts' = alerts
      /\ resend' = resend /\ broken' = broken /\ reader' = reader
  BY DEF WriteFragment
<1>3. /\ next \in 1..Count /\ Count \in Nat /\ Messages = 1..Count /\ Lengths[next] \in Nat
      /\ off \in Nat /\ fragOff \in Nat /\ fragOff <= off /\ off <= Lengths[next]
      /\ next \notin broken => fragOff = off
      /\ mtu \in {Mtu, FallbackMtu} /\ alerts \in 0..AlertLimit /\ broken \subseteq Messages
  BY <1>2, CountIsNat, LengthsAreNat DEF Inv, WriterInv
<1>4. room \in Nat
  BY <1>3, Sizes DEF Room
<1>5. len \in Nat /\ off + len <= Lengths[next]
  BY <1>3, <1>4 DEF Smaller
<1>6. /\ net' = net \cup {f}
      /\ next' = IF off + len = Lengths[next] THEN next + 1 ELSE next
      /\ off' = IF off + len = Lengths[next] THEN 0 ELSE off + len
      /\ fragOff' = IF off + len = Lengths[next] THEN 0 ELSE fragOff + len
  BY <1>1
<1>7. f = [seq |-> next, off |-> fragOff, len |-> len, from |-> off]
  BY DEF Fragment
<1>. HIDE DEF len, f
<1>8. FragmentOk(f)
  BY <1>2, <1>3, <1>5, <1>7 DEF FragmentOk
<1>9. WriterInv'
  <2>1. CASE off + len = Lengths[next]
    <3>1. next' = next + 1 /\ off' = 0 /\ fragOff' = 0
      BY <1>6, <2>1
    <3>2. next' \in 1..Count + 1 /\ 0 \in 0..next' - 1
      BY <1>3, <3>1
    <3>3. next' \in Messages => 0 <= Lengths[next']
      BY LengthsAreNat
    <3>. QED BY <1>2, <1>3, <3>1, <3>2, <3>3 DEF WriterInv
  <2>2. CASE off + len # Lengths[next]
    BY <1>2, <1>3, <1>5, <1>6, <2>2 DEF WriterInv
  <2>. QED BY <2>1, <2>2
<1>10. \A g \in net' : g \in net \/ FragmentOk(g)
  BY <1>6, <1>8
<1>. QED BY <1>2, <1>9, <1>10, NothingBroken

LEMMA StepBlock == Inv /\ Block => Inv'
<1>. SUFFICES ASSUME Inv, Block
              PROVE  Inv'
  OBVIOUS
<1>1. /\ off # 0 /\ fragOff' = 0 /\ broken' = broken \cup {next}
      /\ next' = next /\ off' = off /\ mtu' = mtu /\ alerts' = alerts
      /\ resend' = resend /\ net' = net /\ reader' = reader
  BY DEF Block
<1>2. next \in Messages
  BY <1>1 DEF Inv, WriterInv
<1>3. WriterInv'
  BY <1>1, <1>2 DEF Inv, WriterInv
<1>4. NetInv'
  BY <1>1 DEF Inv, NetInv, FragmentOk
<1>5. ReadOk(reader)'
  <2>1. ReadOk(reader)
    BY DEF Inv
  <2>2. \A item \in reader.queue : ItemOk(item)
    BY <2>1 DEF ReadOk
  <2>3. ASSUME NEW item \in reader.queue
        PROVE  /\ item.seq \in Messages
               /\ item.content \in [Positions(item.seq) -> Positions(item.seq) \cup {Unset}]
               /\ item.reassembly = NULL \/ item.reassembly \in Masks(Lengths[item.seq])
               /\ item = [seq |-> item.seq, content |-> item.content, reassembly |-> item.reassembly]
               /\ \A p \in Positions(item.seq) :
                     (item.content[p] # Unset) <=> (item.reassembly = NULL \/ Holds(item.reassembly, p))
               /\ item.seq \notin broken' =>
                     \A p \in Positions(item.seq) : item.content[p] \in {p, Unset}
    BY <1>1, <2>2 DEF ItemOk
  <2>. QED BY <1>1, <2>1, <2>3 DEF ReadOk, ItemOk
<1>. QED BY <1>3, <1>4, <1>5 DEF Inv

LEMMA StepTimeout == Inv /\ Timeout => Inv'
<1>. SUFFICES ASSUME Inv, Timeout
              PROVE  Inv'
  OBVIOUS
<1>1. /\ next > 1 /\ alerts < AlertLimit /\ alerts' = alerts + 1
      /\ mtu' = IF alerts + 1 > 2 THEN FallbackMtu ELSE mtu
      /\ resend' = 1 /\ next' = next /\ off' = off /\ fragOff' = fragOff
      /\ net' = net /\ broken' = broken /\ reader' = reader
  BY DEF Timeout
<1>2. AlertLimit \in Nat
  BY SizesArePositive
<1>3. WriterInv'
  BY <1>1, <1>2, CountIsNat DEF Inv, WriterInv
<1>. QED BY <1>1, <1>3, NothingBroken

(* A message that is cut without a block carries what it says.             *)
LEMMA CutsAreFragments ==
  ASSUME NEW seq \in Messages, NEW size \in Nat \ {0}, NEW f \in Cut(seq, size)
  PROVE  FragmentOk(f)
<1>1. PICK k \in {0} \cup {j \in 0..Lengths[seq] : j * size < Lengths[seq]} :
          f = Fragment(seq, k * size, Smaller(size, Lengths[seq] - k * size), k * size)
  BY DEF Cut
<1>2. Lengths[seq] \in Nat
  BY LengthsAreNat
<1>. DEFINE start == k * size
            len == Smaller(size, Lengths[seq] - start)
<1>3. start \in Nat /\ start <= Lengths[seq]
  <2>1. k \in Nat /\ (k = 0 \/ start < Lengths[seq])
    BY <1>1, <1>2
  <2>2. start \in Nat
    BY <2>1, Multiples
  <2>3. k = 0 => start = 0
    OBVIOUS
  <2>. HIDE DEF start
  <2>. QED BY <1>2, <2>1, <2>2, <2>3
<1>4. f = [seq |-> seq, off |-> start, len |-> len, from |-> start]
  BY <1>1 DEF Fragment
<1>. HIDE DEF start
<1>5. len \in Nat /\ start + len <= Lengths[seq]
  BY <1>2, <1>3 DEF Smaller
<1>. HIDE DEF len
<1>. QED BY <1>3, <1>4, <1>5 DEF FragmentOk

LEMMA StepRetransmit == Inv /\ RetransmitMessage => Inv'
<1>. SUFFICES ASSUME Inv, RetransmitMessage
              PROVE  Inv'
  OBVIOUS
<1>1. /\ resend # 0 /\ net' = net \cup Cut(resend, mtu)
      /\ resend' = IF resend < next - 1 THEN resend + 1 ELSE 0
      /\ next' = next /\ off' = off /\ fragOff' = fragOff /\ mtu' = mtu
      /\ alerts' = alerts /\ broken' = broken /\ reader' = reader
  BY DEF RetransmitMessage
<1>2. /\ resend \in 0..next - 1 /\ next \in 1..Count + 1 /\ Count \in Nat
      /\ Messages = 1..Count /\ mtu \in Nat \ {0}
  BY CountIsNat, Sizes DEF Inv, WriterInv
<1>3. resend \in Messages
  BY <1>1, <1>2
<1>4. \A f \in Cut(resend, mtu) : FragmentOk(f)
  BY <1>2, <1>3, CutsAreFragments
<1>5. resend' \in 0..next' - 1
  BY <1>1, <1>2
<1>6. WriterInv'
  BY <1>1, <1>5 DEF Inv, WriterInv
<1>. QED BY <1>1, <1>4, <1>6, NothingBroken

(* The steps of the reader                                                 *)
LEMMA OnlyReads ==
  ASSUME Inv, UNCHANGED wVars, ReadOk(reader')
  PROVE  Inv'
<1>1. WriterInv' /\ NetInv'
  BY DEF Inv, WriterInv, NetInv, FragmentOk, wVars
<1>2. ReadOk(reader)'
  BY DEF ReadOk, ItemOk, wVars
<1>. QED BY <1>1, <1>2 DEF Inv

LEMMA StepReadBuffered == Inv /\ ReadBuffered => Inv'
<1>. SUFFICES ASSUME Inv, ReadBuffered
              PROVE  Inv'
  OBVIOUS
<1>1. reader' = Retrieve(reader) /\ UNCHANGED wVars
  BY DEF ReadBuffered
<1>2. ReadOk(Retrieve(reader))
  BY RetrieveOk DEF Inv
<1>. QED BY <1>1, <1>2, OnlyReads

LEMMA StepReadFragment == Inv /\ ReadFragment => Inv'
<1>. SUFFICES ASSUME Inv, ReadFragment
              PROVE  Inv'
  OBVIOUS
<1>1. PICK f \in net : reader' = Accept(reader, f)
  BY DEF ReadFragment
<1>2. UNCHANGED wVars
  BY DEF ReadFragment
<1>3. ReadOk(Accept(reader, f))
  <2>1. ReadOk(reader) /\ FragmentOk(f)
    BY DEF Inv, NetInv
  <2>. QED BY <2>1, AcceptOk
<1>. QED BY <1>1, <1>2, <1>3, OnlyReads

LEMMA StepInv == Inv /\ [Next]_vars => Inv'
<1>. SUFFICES ASSUME Inv, [Next]_vars
              PROVE  Inv'
  OBVIOUS
<1>1. CASE UNCHANGED vars
  <2>1. UNCHANGED wVars /\ reader' = reader
    BY <1>1 DEF vars
  <2>2. ReadOk(reader')
    BY <2>1 DEF Inv
  <2>. QED BY <2>1, <2>2, OnlyReads
<1>. QED BY <1>1, StepWriteFragment, StepBlock, StepTimeout, StepRetransmit,
            StepReadBuffered, StepReadFragment DEF Next

(* For messages, datagrams and bytes of any size: whatever the network     *)
(* loses, repeats or reorders, and however a message was cut and sent      *)
(* again, dtls1_get_message hands up the messages that were sent, whole,   *)
(* once and in their order, and the reassembly mask of a message in the    *)
(* queue has the bits of the positions that arrived.                       *)
THEOREM MessagesArriveWhole == Spec => []MessagesAreIntact
<1>1. Inv /\ UNCHANGED vars => Inv'
  BY StepInv
<1>. QED BY InitInv, StepInv, InvImplies, PTL DEF Spec

------------------------------------------------------------------------------
(* PART 2: THE STREAM OF A TLS CONNECTION                                    *)
-----------------------------------------------------------------------------
(* Cells: whole records, numbered bytes, and what appending and taking away  *)
(* a record does to them.                                                    *)
CellNames == {"type", "length", "data", "alert"}
Descriptions == {"level", "none", "close_notify", "no_renegotiation"}
Cell == [cell : CellNames, of : Nat \cup {"data", "alert"} \cup Descriptions]
CellSeq == Seq(Cell)

(* A record of type T with n cells of contents starts at i.                  *)
RecordAt(cells, i) ==
  /\ cells[i].of \in {"data", "alert"}
  /\ i + 1 <= Len(cells) /\ cells[i + 1].cell = "length" /\ cells[i + 1].of \in Nat \ {0}
  /\ i + 1 + cells[i + 1].of <= Len(cells)
  /\ \A k \in 1 .. cells[i + 1].of : cells[i + 1 + k].cell = cells[i].of
  /\ cells[i].of = "data" =>
       \E from \in Nat : \A k \in 1 .. cells[i + 1].of : cells[i + 1 + k].of = from + k
  /\ cells[i].of = "alert" => cells[i + 1].of = 2

EndsAt(cells, i) == i + 1 + cells[i + 1].of

AreRecords(cells) ==
  /\ cells # <<>> => cells[1].cell = "type"
  /\ \A i \in 1 .. Len(cells) : cells[i].cell = "type" =>
       /\ RecordAt(cells, i)
       /\ EndsAt(cells, i) < Len(cells) => cells[EndsAt(cells, i) + 1].cell = "type"

IsClose(c) == c.cell = "alert" /\ c.of = "close_notify"
HasClose(cells) == \E i \in 1 .. Len(cells) : IsClose(cells[i])
HasData(cells) == \E i \in 1 .. Len(cells) : cells[i].cell = "data"
CloseIsLast(cells) ==
  \A i, j \in 1 .. Len(cells) : IsClose(cells[i]) /\ cells[j].cell = "data" => j < i

LEMMA Joined ==
  ASSUME NEW a \in CellSeq, NEW b \in CellSeq
  PROVE  /\ a \o b \in CellSeq /\ Len(a \o b) = Len(a) + Len(b)
         /\ Len(a) \in Nat /\ Len(b) \in Nat
         /\ DOMAIN a = 1 .. Len(a) /\ DOMAIN b = 1 .. Len(b)
         /\ DOMAIN (a \o b) = 1 .. Len(a) + Len(b)
         /\ \A i \in 1 .. Len(a) : (a \o b)[i] = a[i]
         /\ \A i \in 1 .. Len(b) : (a \o b)[Len(a) + i] = b[i]
<1>1. /\ a \o b \in CellSeq /\ Len(a \o b) = Len(a) + Len(b)
      /\ \A i \in 1 .. Len(a) + Len(b) : (a \o b)[i] = IF i <= Len(a) THEN a[i] ELSE b[i - Len(a)]
  BY ConcatProperties DEF CellSeq
<1>2. /\ Len(a) \in Nat /\ Len(b) \in Nat /\ DOMAIN a = 1 .. Len(a) /\ DOMAIN b = 1 .. Len(b)
  BY LenProperties DEF CellSeq
<1>3. DOMAIN (a \o b) = 1 .. Len(a \o b)
  BY <1>1, LenProperties DEF CellSeq
<1>4. \A i \in 1 .. Len(b) : (a \o b)[Len(a) + i] = b[i]
  BY <1>1, <1>2
<1> QED
  BY <1>1, <1>2, <1>3, <1>4

LEMMA Parted ==
  ASSUME NEW s \in CellSeq, NEW k \in 0 .. Len(s)
  PROVE  /\ SubSeq(s, 1, k) \in CellSeq /\ Len(SubSeq(s, 1, k)) = k
         /\ \A i \in 1 .. k : SubSeq(s, 1, k)[i] = s[i]
         /\ Dropping(s, k) \in CellSeq /\ Len(Dropping(s, k)) = Len(s) - k
         /\ \A i \in 1 .. Len(s) - k : Dropping(s, k)[i] = s[k + i]
         /\ SubSeq(s, 1, k) \o Dropping(s, k) = s
<1>1. Len(s) \in Nat /\ \A i \in 1 .. Len(s) : s[i] \in Cell
  BY LenProperties, ElementOfSeq DEF CellSeq
<1>2. /\ SubSeq(s, 1, k) \in CellSeq /\ Len(SubSeq(s, 1, k)) = IF 1 <= k THEN k - 1 + 1 ELSE 0
      /\ \A i \in 1 .. k - 1 + 1 : SubSeq(s, 1, k)[i] = s[1 + i - 1]
  BY <1>1, SubSeqProperties DEF CellSeq
<1>3. /\ Dropping(s, k) \in CellSeq
      /\ Len(Dropping(s, k)) = IF k + 1 <= Len(s) THEN Len(s) - (k + 1) + 1 ELSE 0
      /\ \A i \in 1 .. Len(s) - (k + 1) + 1 : Dropping(s, k)[i] = s[k + 1 + i - 1]
  <2>1. \A i \in k + 1 .. Len(s) : s[i] \in Cell
    BY <1>1
  <2>2. k + 1 \in Int /\ Len(s) \in Int
    BY <1>1
  <2> HIDE DEF Cell
  <2> QED
    BY <2>1, <2>2, SubSeqProperties DEF CellSeq, Dropping
<1>4. SubSeq(s, 1, k) \o Dropping(s, k) = s
  <2>1. SubSeq(s, 1, k) \o SubSeq(s, k + 1, Len(s)) = SubSeq(s, 1, Len(s))
    <3>1. s \in Seq(Cell) /\ 1 \in 1 .. Len(s) + 1 /\ k \in 1 - 1 .. Len(s) /\ Len(s) \in k .. Len(s)
      BY <1>1 DEF CellSeq
    <3> QED
      BY <3>1, ConcatAdjacentSubSeq
  <2> QED
    BY <2>1, SubSeqFull DEF Dropping, CellSeq
<1>5. k \in Nat /\ k <= Len(s)
  BY <1>1
<1>6. Len(SubSeq(s, 1, k)) = k /\ \A i \in 1 .. k : SubSeq(s, 1, k)[i] = s[i]
  BY <1>2, <1>5
<1>7. Len(Dropping(s, k)) = Len(s) - k /\ \A i \in 1 .. Len(s) - k : Dropping(s, k)[i] = s[k + i]
  BY <1>1, <1>3, <1>5
<1> QED
  BY <1>2, <1>3, <1>4, <1>6, <1>7

LEMMA JoinedThrice ==
  ASSUME NEW a \in CellSeq, NEW b \in CellSeq, NEW c \in CellSeq
  PROVE  (a \o b) \o c = a \o (b \o c)
BY ConcatAssociative DEF CellSeq

(* Cells that move from the front of b to the end of a                       *)
LEMMA MovedOver ==
  ASSUME NEW a \in CellSeq, NEW b \in CellSeq, NEW k \in 0 .. Len(b)
  PROVE  (a \o SubSeq(b, 1, k)) \o Dropping(b, k) = a \o b
<1>1. SubSeq(b, 1, k) \in CellSeq /\ Dropping(b, k) \in CellSeq
  BY Parted
<1>2. SubSeq(b, 1, k) \o Dropping(b, k) = b
  BY Parted
<1> QED
  <2>1. (a \o SubSeq(b, 1, k)) \o Dropping(b, k) = a \o (SubSeq(b, 1, k) \o Dropping(b, k))
    <3> DEFINE u == SubSeq(b, 1, k)
               v == Dropping(b, k)
    <3>1. u \in CellSeq /\ v \in CellSeq
      BY <1>1
    <3> HIDE DEF u, v
    <3>2. (a \o u) \o v = a \o (u \o v)
      BY <3>1, JoinedThrice
    <3> QED
      BY <3>2 DEF u, v
  <2> QED
    BY <1>2, <2>1

LEMMA CellsIn == ASSUME NEW s \in CellSeq PROVE Len(s) \in Nat /\ DOMAIN s = 1 .. Len(s) /\ \A i \in 1 .. Len(s) : s[i] \in Cell
BY LenProperties, ElementOfSeq DEF CellSeq

LEMMA RecordsJoin ==
  ASSUME NEW a \in CellSeq, NEW b \in CellSeq, AreRecords(a), AreRecords(b)
  PROVE  AreRecords(a \o b)
<1> DEFINE c == a \o b
<1>1. /\ Len(c) = Len(a) + Len(b) /\ Len(a) \in Nat /\ Len(b) \in Nat /\ c \in CellSeq
      /\ \A i \in 1 .. Len(a) : c[i] = a[i]
      /\ \A i \in 1 .. Len(b) : c[Len(a) + i] = b[i]
  BY Joined
<1>2. /\ a # <<>> => a[1].cell = "type" /\ Len(a) >= 1
      /\ b # <<>> => b[1].cell = "type" /\ Len(b) >= 1
      /\ c # <<>> => Len(a) >= 1 \/ Len(b) >= 1
      /\ (a = <<>> => Len(a) = 0) /\ (b = <<>> => Len(b) = 0)
  BY <1>1, EmptySeq DEF AreRecords, CellSeq
<1> HIDE DEF c
<1>3. c # <<>> => c[1].cell = "type"
  <2>1. CASE Len(a) >= 1
    BY <1>1, <1>2, <2>1
  <2>2. CASE Len(a) = 0
    BY <1>1, <1>2, <2>2
  <2> QED
    BY <1>1, <2>1, <2>2
<1>4. ASSUME NEW i \in 1 .. Len(c), c[i].cell = "type"
      PROVE  /\ RecordAt(c, i)
             /\ EndsAt(c, i) < Len(c) => c[EndsAt(c, i) + 1].cell = "type"
  <2>1. CASE i <= Len(a)
    <3>1. i \in 1 .. Len(a) /\ c[i] = a[i]
      BY <1>1, <2>1
    <3>2. RecordAt(a, i) /\ (EndsAt(a, i) < Len(a) => a[EndsAt(a, i) + 1].cell = "type")
      BY <1>4, <3>1 DEF AreRecords
    <3>3. i + 1 \in 1 .. Len(a) /\ c[i + 1] = a[i + 1] /\ a[i + 1].of \in Nat \ {0}
          /\ i + 1 + a[i + 1].of <= Len(a)
      BY <1>1, <3>1, <3>2 DEF RecordAt
    <3>4. \A k \in 1 .. a[i + 1].of : c[i + 1 + k] = a[i + 1 + k]
      BY <1>1, <3>3, SMTT(40)
    <3>5. RecordAt(c, i)
      <4>1. i + 1 <= Len(c) /\ i + 1 + c[i + 1].of <= Len(c)
        BY <1>1, <3>3
      <4>2. c[i + 1] = a[i + 1] /\ c[i] = a[i]
        BY <3>1, <3>3
      <4> QED BY <3>2, <3>4, <4>1, <4>2 DEF RecordAt
    <3>6. EndsAt(c, i) = EndsAt(a, i) /\ EndsAt(a, i) \in Nat /\ EndsAt(a, i) <= Len(a)
      BY <3>1, <3>3 DEF EndsAt
    <3>7. EndsAt(c, i) < Len(c) => c[EndsAt(c, i) + 1].cell = "type"
      <4>1. CASE EndsAt(a, i) < Len(a)
        BY <1>1, <3>2, <3>6, <4>1, SMTT(40)
      <4>2. CASE EndsAt(a, i) = Len(a)
        <5>1. Len(b) >= 1 => b # <<>>
          BY <1>2
        <5> QED BY <1>1, <1>2, <3>6, <4>2, <5>1
      <4> QED BY <1>1, <3>6, <4>1, <4>2
    <3> QED BY <3>5, <3>7
  <2>2. CASE i > Len(a)
    <3> DEFINE j == i - Len(a)
    <3>1. j \in 1 .. Len(b) /\ i = Len(a) + j /\ c[i] = b[j]
      BY <1>1, <2>2
    <3> HIDE DEF j
    <3>2. RecordAt(b, j) /\ (EndsAt(b, j) < Len(b) => b[EndsAt(b, j) + 1].cell = "type")
      BY <1>4, <3>1 DEF AreRecords
    <3>3. j + 1 \in 1 .. Len(b) /\ b[j + 1].of \in Nat \ {0} /\ j + 1 + b[j + 1].of <= Len(b)
      BY <1>1, <3>1, <3>2 DEF RecordAt
    <3>4. c[i + 1] = b[j + 1]
      <4>1. i + 1 = Len(a) + (j + 1)
        BY <1>1, <3>1
      <4> QED BY <1>1, <3>3, <4>1
    <3>5. \A k \in 1 .. b[j + 1].of : c[i + 1 + k] = b[j + 1 + k]
      <4> TAKE k \in 1 .. b[j + 1].of
      <4>1. i + 1 + k = Len(a) + (j + 1 + k) /\ j + 1 + k \in 1 .. Len(b)
        BY <1>1, <3>1, <3>3
      <4> QED BY <1>1, <4>1
    <3>6. i + 1 <= Len(c) /\ i + 1 + c[i + 1].of <= Len(c)
      BY <1>1, <3>1, <3>3, <3>4, SMTT(40)
    <3>7. RecordAt(c, i)
      BY <3>1, <3>2, <3>4, <3>5, <3>6, ZenonT(60) DEF RecordAt
    <3>8. EndsAt(c, i) = Len(a) + EndsAt(b, j) /\ EndsAt(b, j) \in Nat /\ EndsAt(b, j) <= Len(b)
      <4>1. EndsAt(c, i) = i + 1 + b[j + 1].of /\ EndsAt(b, j) = j + 1 + b[j + 1].of
        BY <3>4 DEF EndsAt
      <4>2. PICK n \in Nat \ {0} : n = b[j + 1].of
        BY <3>3
      <4>3. EndsAt(c, i) = i + 1 + n /\ EndsAt(b, j) = j + 1 + n /\ j + 1 + n <= Len(b)
        BY <3>3, <4>1, <4>2
      <4>4. i \in Nat /\ j \in Nat /\ i = Len(a) + j
        BY <1>1, <3>1
      <4> QED BY <1>1, <4>3, <4>4
    <3>9. EndsAt(c, i) < Len(c) => c[EndsAt(c, i) + 1].cell = "type"
      <4> HAVE EndsAt(c, i) < Len(c)
      <4>1. EndsAt(b, j) + 1 \in 1 .. Len(b) /\ EndsAt(c, i) + 1 = Len(a) + (EndsAt(b, j) + 1)
        BY <1>1, <3>8
      <4> QED BY <1>1, <3>2, <3>8, <4>1
    <3> QED BY <3>7, <3>9
  <2> QED BY <1>1, <2>1, <2>2
<1> QED
  BY <1>3, <1>4 DEF AreRecords, c

LEMMA Behind ==
  ASSUME NEW m \in Nat, NEW n \in Nat, NEW i \in 1 .. m + n
  PROVE  i \in 1 .. m \/ \E j \in 1 .. n : i = m + j
<1>1. CASE i > m
  <2>1. i - m \in 1 .. n /\ i = m + (i - m)
    BY <1>1
  <2> QED BY <2>1
<1> QED
  BY <1>1

(* What IsRun says, cell by cell                                             *)
HasBytes(cells, from, to) ==
  /\ \A i \in 1 .. Len(cells) : cells[i].cell = "data" => cells[i].of \in from + 1 .. to
  /\ \A v \in from + 1 .. to : \E i \in 1 .. Len(cells) : cells[i].cell = "data" /\ cells[i].of = v
  /\ \A i, j \in 1 .. Len(cells) :
       cells[i].cell = "data" /\ cells[j].cell = "data" /\ i < j => cells[i].of < cells[j].of

LEMMA RunIsBytes ==
  ASSUME NEW cells \in CellSeq, NEW from \in Nat, NEW to \in Nat
  PROVE  IsRun(cells, from, to) <=> HasBytes(cells, from, to)
<1> DEFINE D == {i \in DOMAIN cells : cells[i].cell = "data"}
<1>1. DOMAIN cells = 1 .. Len(cells)
  BY CellsIn
<1>2. {cells[i].of : i \in D} = from + 1 .. to
      <=> /\ \A i \in D : cells[i].of \in from + 1 .. to
          /\ \A v \in from + 1 .. to : \E i \in D : cells[i].of = v
  <2> HIDE DEF D
  <2> QED OBVIOUS
<1>3. \A i : i \in D <=> i \in 1 .. Len(cells) /\ cells[i].cell = "data"
  BY <1>1
<1>4. IsRun(cells, from, to) <=>
         /\ {cells[i].of : i \in D} = from + 1 .. to
         /\ \A i, j \in D : i < j => cells[i].of < cells[j].of
  BY DEF IsRun
<1> HIDE DEF D
<1> QED
  BY <1>2, <1>3, <1>4 DEF HasBytes

LEMMA BytesJoin ==
  ASSUME NEW a \in CellSeq, NEW b \in CellSeq,
         NEW p \in Nat, NEW q \in Nat, NEW r \in Nat, p <= q, q <= r,
         HasBytes(a, p, q), HasBytes(b, q, r)
  PROVE  HasBytes(a \o b, p, r)
<1> DEFINE c == a \o b
<1>1. /\ Len(c) = Len(a) + Len(b) /\ Len(a) \in Nat /\ Len(b) \in Nat
      /\ \A i \in 1 .. Len(a) : c[i] = a[i]
      /\ \A i \in 1 .. Len(b) : c[Len(a) + i] = b[i]
  BY Joined
<1> HIDE DEF c
<1>2. ASSUME NEW i \in 1 .. Len(c)
      PROVE  i \in 1 .. Len(a) \/ \E j \in 1 .. Len(b) : i = Len(a) + j
  <2>1. i \in 1 .. Len(a) + Len(b)
    BY <1>1
  <2> QED BY <1>1, <2>1, Behind
<1>3. ASSUME NEW i \in 1 .. Len(c), c[i].cell = "data"
      PROVE  /\ c[i].of \in p + 1 .. r
             /\ i \in 1 .. Len(a) => c[i].of \in p + 1 .. q
             /\ i \notin 1 .. Len(a) => c[i].of \in q + 1 .. r
  <2>1. CASE i \in 1 .. Len(a)
    <3>1. c[i].of \in p + 1 .. q
      BY <1>1, <1>3, <2>1 DEF HasBytes
    <3> QED BY <2>1, <3>1
  <2>2. CASE i \notin 1 .. Len(a)
    <3>1. PICK j \in 1 .. Len(b) : i = Len(a) + j
      BY <1>2, <2>2
    <3>2. c[i].of \in q + 1 .. r
      BY <1>1, <1>3, <3>1 DEF HasBytes
    <3> QED BY <2>2, <3>2
  <2> QED BY <2>1, <2>2
<1>4. ASSUME NEW v \in p + 1 .. r
      PROVE  \E i \in 1 .. Len(c) : c[i].cell = "data" /\ c[i].of = v
  <2>1. CASE v <= q
    <3>0. v \in p + 1 .. q
      BY <2>1
    <3>1. PICK i \in 1 .. Len(a) : a[i].cell = "data" /\ a[i].of = v
      BY <3>0 DEF HasBytes
    <3>2. i \in 1 .. Len(c) /\ c[i] = a[i]
      BY <1>1
    <3> QED BY <3>1, <3>2
  <2>2. CASE v > q
    <3>0. v \in q + 1 .. r
      BY <2>2
    <3>1. PICK i \in 1 .. Len(b) : b[i].cell = "data" /\ b[i].of = v
      BY <3>0 DEF HasBytes
    <3>2. Len(a) + i \in 1 .. Len(c) /\ c[Len(a) + i] = b[i]
      BY <1>1
    <3> QED BY <3>1, <3>2
  <2> QED BY <2>1, <2>2
<1>5. ASSUME NEW i \in 1 .. Len(c), NEW j \in 1 .. Len(c),
             c[i].cell = "data", c[j].cell = "data", i < j
      PROVE  c[i].of < c[j].of
  <2>1. CASE j \in 1 .. Len(a)
    <3>1. i \in 1 .. Len(a)
      BY <1>1, <1>5, <2>1
    <3> QED BY <1>1, <1>5, <2>1, <3>1 DEF HasBytes
  <2>2. CASE j \notin 1 .. Len(a) /\ i \in 1 .. Len(a)
    <3>1. c[i].of \in p + 1 .. q /\ c[j].of \in q + 1 .. r
      BY <1>3, <1>5, <2>2
    <3> QED BY <3>1
  <2>3. CASE j \notin 1 .. Len(a) /\ i \notin 1 .. Len(a)
    <3>1. PICK ii \in 1 .. Len(b) : i = Len(a) + ii
      BY <1>2, <2>3
    <3>2. PICK jj \in 1 .. Len(b) : j = Len(a) + jj
      BY <1>2, <2>3
    <3>3. ii < jj /\ c[i] = b[ii] /\ c[j] = b[jj]
      BY <1>1, <1>5, <3>1, <3>2
    <3> QED BY <1>5, <3>3 DEF HasBytes
  <2> QED BY <2>1, <2>2, <2>3
<1> QED
  BY <1>3, <1>4, <1>5 DEF HasBytes, c

LEMMA CloseJoins ==
  ASSUME NEW a \in CellSeq, NEW b \in CellSeq,
         CloseIsLast(a), CloseIsLast(b), HasClose(a) => ~HasData(b)
  PROVE  CloseIsLast(a \o b) /\ (HasClose(a \o b) => HasClose(a) \/ HasClose(b))
         /\ (HasData(a \o b) => HasData(a) \/ HasData(b))
<1> DEFINE c == a \o b
<1>1. /\ Len(c) = Len(a) + Len(b) /\ Len(a) \in Nat /\ Len(b) \in Nat
      /\ \A i \in 1 .. Len(a) : c[i] = a[i]
      /\ \A i \in 1 .. Len(b) : c[Len(a) + i] = b[i]
  BY Joined
<1> HIDE DEF c
<1>2. ASSUME NEW i \in 1 .. Len(c)
      PROVE  i \in 1 .. Len(a) \/ \E j \in 1 .. Len(b) : i = Len(a) + j
  <2>1. i \in 1 .. Len(a) + Len(b)
    BY <1>1
  <2> QED BY <1>1, <2>1, Behind
<1>3. (HasClose(c) => HasClose(a) \/ HasClose(b)) /\ (HasData(c) => HasData(a) \/ HasData(b))
  BY <1>1, <1>2 DEF HasClose, HasData
<1>4. ASSUME NEW i \in 1 .. Len(c), NEW j \in 1 .. Len(c), IsClose(c[i]), c[j].cell = "data"
      PROVE  j < i
  <2>1. CASE i \in 1 .. Len(a)
    <3>1. j \in 1 .. Len(a)
      BY <1>1, <1>2, <1>4, <2>1 DEF HasClose, HasData
    <3> QED BY <1>1, <1>4, <2>1, <3>1 DEF CloseIsLast
  <2>2. CASE i \notin 1 .. Len(a)
    <3>1. PICK ii \in 1 .. Len(b) : i = Len(a) + ii
      BY <1>2, <2>2
    <3>2. CASE j \in 1 .. Len(a)
      BY <1>1, <3>1, <3>2
    <3>3. CASE j \notin 1 .. Len(a)
      <4>1. PICK jj \in 1 .. Len(b) : j = Len(a) + jj
        BY <1>2, <3>3
      <4>2. c[i] = b[ii] /\ c[j] = b[jj]
        BY <1>1, <3>1, <4>1
      <4>3. jj < ii
        BY <1>4, <4>2 DEF CloseIsLast
      <4> QED BY <1>1, <3>1, <4>1, <4>3
    <3> QED BY <3>2, <3>3
  <2> QED BY <2>1, <2>2
<1> QED
  BY <1>3, <1>4 DEF CloseIsLast, c

(* Taking away the first record                                              *)
LEMMA FirstRecord ==
  ASSUME NEW c \in CellSeq, AreRecords(c), c # <<>>
  PROVE  /\ Len(c) \in Nat /\ c[1].cell = "type" /\ c[1].of \in {"data", "alert"}
         /\ c[2].cell = "length" /\ c[2].of \in Nat \ {0} /\ 2 + c[2].of <= Len(c)
         /\ \A k \in 1 .. c[2].of : c[2 + k].cell = c[1].of
         /\ c[1].of = "data" =>
              \E from \in Nat : \A k \in 1 .. c[2].of : c[2 + k].of = from + k
         /\ c[1].of = "alert" => c[2].of = 2
         /\ 2 + c[2].of < Len(c) => c[2 + c[2].of + 1].cell = "type"
<1>1. Len(c) \in Nat /\ 1 \in 1 .. Len(c)
  BY EmptySeq, CellsIn DEF CellSeq
<1>2. c[1].cell = "type" /\ RecordAt(c, 1)
      /\ (EndsAt(c, 1) < Len(c) => c[EndsAt(c, 1) + 1].cell = "type")
  BY <1>1 DEF AreRecords
<1>3. EndsAt(c, 1) = 2 + c[2].of /\ 1 + 1 = 2
  BY DEF EndsAt
<1> QED
  BY <1>1, <1>2, <1>3 DEF RecordAt

LEMMA RestOfRecords ==
  ASSUME NEW c \in CellSeq, AreRecords(c), c # <<>>, NEW n \in Nat, n = 2 + c[2].of
  PROVE  AreRecords(Dropping(c, n))
<1> DEFINE d == Dropping(c, n)
<1>1. n \in 0 .. Len(c) /\ Len(c) \in Nat /\ (n < Len(c) => c[n + 1].cell = "type")
  BY FirstRecord
<1>2. d \in CellSeq /\ Len(d) = Len(c) - n /\ \A i \in 1 .. Len(c) - n : d[i] = c[n + i]
  BY <1>1, Parted
<1> HIDE DEF d
<1>3. d # <<>> => d[1].cell = "type"
  <2> HAVE d # <<>>
  <2>0. Len(d) \in Nat \ {0} /\ Len(d) = Len(c) - n
    BY <1>2, EmptySeq DEF CellSeq
  <2>1. 1 \in 1 .. Len(c) - n /\ n < Len(c)
    BY <1>1, <2>0
  <2> QED BY <1>1, <1>2, <2>1
<1>4. ASSUME NEW i \in 1 .. Len(d), d[i].cell = "type"
      PROVE  /\ RecordAt(d, i)
             /\ EndsAt(d, i) < Len(d) => d[EndsAt(d, i) + 1].cell = "type"
  <2>1. n + i \in 1 .. Len(c) /\ d[i] = c[n + i]
    <3>1. i \in 1 .. Len(c) - n
      BY <1>2
    <3>2. n + i \in 1 .. Len(c)
      BY <1>1, <3>1
    <3> QED BY <1>2, <3>1, <3>2
  <2>2. RecordAt(c, n + i) /\ (EndsAt(c, n + i) < Len(c) => c[EndsAt(c, n + i) + 1].cell = "type")
    BY <1>4, <2>1 DEF AreRecords
  <2>3. PICK m \in Nat \ {0} : m = c[n + i + 1].of
    BY <2>2 DEF RecordAt
  <2>4. n + i + 1 <= Len(c) /\ n + i + 1 + m <= Len(c)
    BY <2>2, <2>3 DEF RecordAt
  <2>5. d[i + 1] = c[n + i + 1]
    <3>1. i + 1 \in 1 .. Len(c) - n /\ n + (i + 1) = n + i + 1
      BY <1>1, <1>2, <2>4, SMTT(40)
    <3> QED BY <1>2, <3>1
  <2>6. \A k \in 1 .. m : d[i + 1 + k] = c[n + i + 1 + k]
    <3> TAKE k \in 1 .. m
    <3>1. i + 1 + k \in 1 .. Len(c) - n /\ n + (i + 1 + k) = n + i + 1 + k
      BY <1>1, <1>2, <2>4, SMTT(40)
    <3> QED BY <1>2, <3>1
  <2>7. i + 1 <= Len(d) /\ i + 1 + d[i + 1].of <= Len(d)
    <3>1. i + 1 <= Len(d) /\ i + 1 + m <= Len(d)
      BY <1>1, <1>2, <2>4, SMTT(40)
    <3> QED BY <2>3, <2>5, <3>1
  <2>8. RecordAt(d, i)
    <3>1. /\ c[n + i].of \in {"data", "alert"} /\ c[n + i + 1].cell = "length"
          /\ \A k \in 1 .. m : c[n + i + 1 + k].cell = c[n + i].of
          /\ c[n + i].of = "data" =>
               \E from \in Nat : \A k \in 1 .. m : c[n + i + 1 + k].of = from + k
          /\ c[n + i].of = "alert" => m = 2
      BY <2>2, <2>3 DEF RecordAt
    <3>2. d[i + 1].of = m /\ d[i + 1].cell = "length" /\ d[i].of = c[n + i].of
      BY <2>1, <2>3, <2>5, <3>1
    <3> QED BY <2>6, <2>7, <3>1, <3>2 DEF RecordAt
  <2>9. EndsAt(d, i) = i + 1 + m /\ EndsAt(c, n + i) = n + i + 1 + m
    BY <2>3, <2>5 DEF EndsAt
  <2>10. EndsAt(d, i) < Len(d) => d[EndsAt(d, i) + 1].cell = "type"
    <3> HAVE EndsAt(d, i) < Len(d)
    <3> DEFINE e == i + 1 + m
    <3>1. e < Len(c) - n /\ EndsAt(d, i) = e
      BY <1>2, <2>9
    <3>2. e \in Nat /\ e + 1 \in 1 .. Len(c) - n
      BY <1>1, <3>1
    <3>3. n + i + 1 + m < Len(c) /\ n + i + 1 + m + 1 = n + (e + 1)
      BY <1>1, <3>1, <3>2
    <3>4. d[e + 1] = c[n + (e + 1)]
      BY <1>2, <3>2
    <3> QED BY <2>2, <2>9, <3>1, <3>3, <3>4
  <2> QED BY <2>8, <2>10
<1> QED
  BY <1>3, <1>4 DEF AreRecords, d

LEMMA RestOfBytes ==
  ASSUME NEW c \in CellSeq, AreRecords(c), c # <<>>, NEW n \in Nat, n = 2 + c[2].of,
         NEW p \in Nat, NEW q \in Nat, p <= q, HasBytes(c, p, q)
  PROVE  /\ c[1].of = "alert" => HasBytes(Dropping(c, n), p, q)
         /\ c[1].of = "data" => /\ \A k \in 1 .. c[2].of : c[2 + k].of = p + k
                                /\ p + c[2].of <= q
                                /\ HasBytes(Dropping(c, n), p + c[2].of, q)
<1> DEFINE d == Dropping(c, n)
<1>0. PICK m \in Nat \ {0} : m = c[2].of
  BY FirstRecord
<1>1. /\ n \in 0 .. Len(c) /\ Len(c) \in Nat /\ n = 2 + m /\ n <= Len(c)
      /\ c[1].cell = "type" /\ c[2].cell = "length"
      /\ \A k \in 1 .. m : c[2 + k].cell = c[1].of
      /\ c[1].of \in {"data", "alert"}
  BY <1>0, FirstRecord
<1>2. d \in CellSeq /\ Len(d) = Len(c) - n /\ \A i \in 1 .. Len(c) - n : d[i] = c[n + i]
  BY <1>1, Parted
<1> HIDE DEF d
<1>3. \A i \in 1 .. Len(c) : \/ i = 1 \/ i = 2 \/ \E k \in 1 .. m : i = 2 + k
                             \/ \E j \in 1 .. Len(d) : i = n + j
  <2> TAKE i \in 1 .. Len(c)
  <2>1. i > n => i - n \in 1 .. Len(d) /\ i = n + (i - n)
    BY <1>1, <1>2
  <2>2. i > 2 /\ i <= n => i - 2 \in 1 .. m /\ i = 2 + (i - 2)
    BY <1>1
  <2> QED BY <1>1, <2>1, <2>2
<1>4. ASSUME NEW j \in 1 .. Len(d)
      PROVE  n + j \in 1 .. Len(c) /\ d[j] = c[n + j]
  <2>1. j \in 1 .. Len(c) - n
    BY <1>2
  <2>2. d[j] = c[n + j]
    BY <1>2, <2>1
  <2>3. n + j \in 1 .. Len(c)
    BY <1>1, <2>1
  <2> QED BY <2>2, <2>3
<1>5. ASSUME NEW i \in 1 .. Len(d), NEW j \in 1 .. Len(d), i < j,
             d[i].cell = "data", d[j].cell = "data"
      PROVE  d[i].of < d[j].of
  <2>1. n + i < n + j
    BY <1>1, <1>5
  <2>2. /\ n + i \in 1 .. Len(c) /\ n + j \in 1 .. Len(c)
        /\ d[i] = c[n + i] /\ d[j] = c[n + j]
    BY <1>4
  <2> QED BY <1>5, <2>1, <2>2, SMTT(40) DEF HasBytes
<1>6. CASE c[1].of = "alert"
  <2>1. \A i \in 1 .. Len(c) : c[i].cell = "data" => \E j \in 1 .. Len(d) : i = n + j
    BY <1>1, <1>3, <1>6
  <2>2. ASSUME NEW v \in p + 1 .. q
        PROVE  \E i \in 1 .. Len(d) : d[i].cell = "data" /\ d[i].of = v
    <3>1. PICK i \in 1 .. Len(c) : c[i].cell = "data" /\ c[i].of = v
      BY DEF HasBytes
    <3>2. PICK j \in 1 .. Len(d) : i = n + j
      BY <2>1, <3>1
    <3> QED BY <1>4, <3>1, <3>2
  <2>3. \A i \in 1 .. Len(d) : d[i].cell = "data" => d[i].of \in p + 1 .. q
    BY <1>4, SMTT(40) DEF HasBytes
  <2> QED BY <1>5, <1>6, <2>2, <2>3 DEF HasBytes, d
<1>7. CASE c[1].of = "data"
  <2>1. PICK from \in Nat : \A k \in 1 .. m : c[2 + k].of = from + k
    BY <1>0, <1>7, FirstRecord
  <2>2. 3 \in 1 .. Len(c) /\ 1 \in 1 .. m /\ 2 + 1 = 3 /\ c[3].cell = "data" /\ c[3].of = from + 1
    <3>1. 3 \in 1 .. Len(c) /\ 1 \in 1 .. m /\ 2 + 1 = 3
      BY <1>1
    <3> QED BY <1>1, <1>7, <2>1, <3>1
  <2>3. from + 1 \in p + 1 .. q /\ p + 1 \in p + 1 .. q
    <3>1. from + 1 \in p + 1 .. q
      BY <2>2 DEF HasBytes
    <3> QED BY <3>1
  <2>4. PICK i \in 1 .. Len(c) : c[i].cell = "data" /\ c[i].of = p + 1
    BY <2>3 DEF HasBytes
  <2>5. from = p
    <3>1. i >= 3
      BY <1>1, <2>4
    <3>2. i > 3 => c[3].of < c[i].of
      BY <2>2, <2>4 DEF HasBytes
    <3>3. i = 3 => c[3].of = p + 1
      BY <2>4
    <3> QED BY <2>2, <2>3, <2>4, <3>1, <3>2, <3>3
  <2>6. \A k \in 1 .. m : c[2 + k].of = p + k /\ c[2 + k].cell = "data" /\ 2 + k \in 1 .. Len(c)
    BY <1>1, <1>7, <2>1, <2>5
  <2>7. p + m <= q
    <3>1. m \in 1 .. m
      BY <1>0
    <3>2. c[2 + m].of \in p + 1 .. q /\ c[2 + m].of = p + m
      BY <2>6, <3>1 DEF HasBytes
    <3> QED BY <3>2
  <2>8. ASSUME NEW j \in 1 .. Len(d), d[j].cell = "data"
        PROVE  d[j].of \in p + m + 1 .. q
    <3>1. m \in 1 .. m /\ 2 + m < n + j
      BY <1>0, <1>1, SMTT(40)
    <3>2. c[2 + m].of < c[n + j].of /\ c[n + j].of \in p + 1 .. q
      BY <1>4, <2>6, <2>8, <3>1 DEF HasBytes
    <3>3. c[2 + m].of = p + m /\ d[j] = c[n + j]
      BY <1>4, <2>6, <3>1
    <3>4. \A x \in p + 1 .. q : p + m < x => x \in p + m + 1 .. q
      <4>1. p + m + 1 = (p + m) + 1 /\ p + m \in Nat
        BY <1>0
      <4>2. \A x \in p + 1 .. q : p + m < x => x \in (p + m) + 1 .. q
        BY <4>1
      <4> QED BY <4>1, <4>2
    <3> QED BY <3>2, <3>3, <3>4
  <2>9. ASSUME NEW v \in p + m + 1 .. q
        PROVE  \E j \in 1 .. Len(d) : d[j].cell = "data" /\ d[j].of = v
    <3>1. v \in p + 1 .. q
      BY <2>9
    <3>2. PICK i2 \in 1 .. Len(c) : c[i2].cell = "data" /\ c[i2].of = v
      BY <3>1 DEF HasBytes
    <3>3. ~ \E k \in 1 .. m : i2 = 2 + k
      <4>1. \A k \in 1 .. m : p + k # v
        BY <1>0, <2>9, SMTT(40)
      <4> QED BY <2>6, <3>2, <4>1
    <3>4. PICK j \in 1 .. Len(d) : i2 = n + j
      BY <1>1, <1>3, <3>2, <3>3
    <3> QED BY <1>4, <3>2, <3>4
  <2>10. HasBytes(d, p + m, q)
    <3>1. p + m + 1 = (p + m) + 1
      OBVIOUS
    <3> QED BY <1>5, <2>8, <2>9, <3>1 DEF HasBytes
  <2> QED BY <1>0, <1>7, <2>6, <2>7, <2>10 DEF d
<1> QED
  BY <1>1, <1>6, <1>7

LEMMA RestOfClose ==
  ASSUME NEW c \in CellSeq, NEW n \in 0 .. Len(c), CloseIsLast(c)
  PROVE  /\ CloseIsLast(Dropping(c, n))
         /\ HasClose(Dropping(c, n)) => HasClose(c)
         /\ HasData(Dropping(c, n)) => HasData(c)
         /\ \A i \in 1 .. n : IsClose(c[i]) => ~HasData(Dropping(c, n))
<1> DEFINE d == Dropping(c, n)
<1>1. Len(c) \in Nat /\ d \in CellSeq /\ Len(d) = Len(c) - n
      /\ \A i \in 1 .. Len(c) - n : d[i] = c[n + i]
  BY Parted, CellsIn
<1> HIDE DEF d
<1>2. \A j \in 1 .. Len(d) : n + j \in 1 .. Len(c) /\ d[j] = c[n + j]
  BY <1>1
<1>3. \A i, j \in 1 .. Len(d) : n + j < n + i => j < i
  BY <1>1
<1>4. \A i \in 1 .. n, j \in 1 .. Len(d) : i \in 1 .. Len(c) /\ ~(n + j < i)
  BY <1>1
<1>5. CloseIsLast(d)
  BY <1>2, <1>3 DEF CloseIsLast
<1>6. \A i \in 1 .. n : IsClose(c[i]) => ~HasData(d)
  BY <1>2, <1>4 DEF CloseIsLast, HasData
<1> QED
  BY <1>2, <1>5, <1>6 DEF HasClose, HasData, d

(* The records that are written                                              *)
LEMMA DataRecordIs ==
  ASSUME NEW from \in Nat, NEW n \in Nat \ {0}
  PROVE  /\ DataRecord(from, n) \in CellSeq /\ AreRecords(DataRecord(from, n))
         /\ HasBytes(DataRecord(from, n), from, from + n)
         /\ ~HasClose(DataRecord(from, n)) /\ DataRecord(from, n) # <<>>
<1> DEFINE h == Header("data", n)
           b == DataCells(from, n)
           r == DataRecord(from, n)
<1>1. h \in CellSeq /\ Len(h) = 2 /\ h[1].cell = "type" /\ h[1].of = "data"
      /\ h[2].cell = "length" /\ h[2].of = n
  BY DEF Header, CellSeq, Cell, CellNames
<1>2. b \in CellSeq /\ Len(b) = n /\ \A k \in 1 .. n : b[k] = [cell |-> "data", of |-> from + k]
  <2>1. \A k \in 1 .. n : [cell |-> "data", of |-> from + k] \in Cell
    BY DEF Cell, CellNames
  <2> HIDE DEF Cell
  <2> QED BY <2>1 DEF DataCells, CellSeq
<1>3. r = h \o b
  BY DEF DataRecord
<1> HIDE DEF h, b, r
<1>4. /\ r \in CellSeq /\ Len(r) = 2 + n
      /\ \A i \in 1 .. 2 : r[i] = h[i]
      /\ \A k \in 1 .. n : r[2 + k] = b[k]
  <2>1. /\ r \in CellSeq /\ Len(r) = Len(h) + Len(b)
        /\ \A i \in 1 .. Len(h) : r[i] = h[i]
        /\ \A k \in 1 .. Len(b) : r[Len(h) + k] = b[k]
    BY <1>1, <1>2, <1>3, Joined
  <2> QED BY <1>1, <1>2, <2>1
<1>5. /\ r[1].cell = "type" /\ r[1].of = "data" /\ r[2].cell = "length" /\ r[2].of = n
      /\ \A k \in 1 .. n : r[2 + k].cell = "data" /\ r[2 + k].of = from + k
  <2>1. r[1] = h[1] /\ r[2] = h[2]
    BY <1>4
  <2>2. \A k \in 1 .. n : r[2 + k] = [cell |-> "data", of |-> from + k]
    BY <1>2, <1>4
  <2>3. \A k \in 1 .. n : r[2 + k].cell = "data" /\ r[2 + k].of = from + k
    <3> TAKE k \in 1 .. n
    <3>1. r[2 + k] = [cell |-> "data", of |-> from + k]
      BY <2>2
    <3> QED BY <3>1
  <2> QED BY <1>1, <2>1, <2>3
<1>6. \A i \in 1 .. Len(r) : i = 1 \/ i = 2 \/ \E k \in 1 .. n : i = 2 + k
  <2> TAKE i \in 1 .. Len(r)
  <2>1. i > 2 => i - 2 \in 1 .. n /\ i = 2 + (i - 2)
    BY <1>4
  <2> QED BY <1>4, <2>1
<1>7. AreRecords(r)
  <2>1. RecordAt(r, 1) /\ EndsAt(r, 1) = Len(r)
    <3>1. 1 + 1 = 2 /\ 2 <= Len(r) /\ 2 + n = Len(r)
      BY <1>4
    <3>2. \E f \in Nat : \A k \in 1 .. n : r[2 + k].of = f + k
      BY <1>5
    <3>3. \A k \in 1 .. n : r[1 + 1 + k].cell = "data" /\ r[1 + 1 + k].of = from + k
      <4> TAKE k \in 1 .. n
      <4>1. 1 + 1 + k = 2 + k
        OBVIOUS
      <4> QED BY <1>5, <4>1
    <3>4. r[1 + 1].of = n /\ r[1 + 1].cell = "length" /\ r[1].of = "data"
      BY <1>5, <3>1
    <3>5. 1 + 1 <= Len(r) /\ 1 + 1 + n = Len(r)
      BY <3>1
    <3>6. EndsAt(r, 1) = Len(r)
      BY <3>4, <3>5 DEF EndsAt
    <3>7. \E f \in Nat : \A k \in 1 .. r[1 + 1].of : r[1 + 1 + k].of = f + k
      BY <3>3, <3>4
    <3>8. \A k \in 1 .. r[1 + 1].of : r[1 + 1 + k].cell = r[1].of
      BY <3>3, <3>4
    <3>9. r[1].of # "alert" /\ r[1 + 1].of \in Nat \ {0} /\ 1 + 1 + r[1 + 1].of <= Len(r)
      BY <3>4, <3>5
    <3> QED BY <3>4, <3>5, <3>6, <3>7, <3>8, <3>9 DEF RecordAt
  <2>2. \A i \in 1 .. Len(r) : r[i].cell = "type" => i = 1
    BY <1>5, <1>6
  <2> QED BY <1>4, <1>5, <2>1, <2>2 DEF AreRecords
<1>8. HasBytes(r, from, from + n)
  <2>1. \A i \in 1 .. Len(r) : r[i].cell = "data" => \E k \in 1 .. n : i = 2 + k
    BY <1>5, <1>6
  <2>2. \A i \in 1 .. Len(r) : r[i].cell = "data" => r[i].of \in from + 1 .. from + n /\ r[i].of = from + i - 2
    <3> TAKE i \in 1 .. Len(r)
    <3> HAVE r[i].cell = "data"
    <3>1. PICK k \in 1 .. n : i = 2 + k
      BY <2>1
    <3> QED BY <1>5, <3>1
  <2>3. ASSUME NEW v \in from + 1 .. from + n
        PROVE  \E i \in 1 .. Len(r) : r[i].cell = "data" /\ r[i].of = v
    <3> DEFINE k == v - from
    <3>1. k \in 1 .. n /\ 2 + k \in 1 .. Len(r) /\ from + k = v
      BY <1>4
    <3> HIDE DEF k
    <3> QED BY <1>5, <3>1
  <2>4. \A i, j \in 1 .. Len(r) :
          r[i].cell = "data" /\ r[j].cell = "data" /\ i < j => r[i].of < r[j].of
    <3> TAKE i, j \in 1 .. Len(r)
    <3> HAVE r[i].cell = "data" /\ r[j].cell = "data" /\ i < j
    <3>1. r[i].of = from + i - 2 /\ r[j].of = from + j - 2
      BY <2>2
    <3>2. from + i - 2 < from + j - 2
      BY <1>4
    <3> QED BY <3>1, <3>2
  <2> QED BY <2>2, <2>3, <2>4 DEF HasBytes
<1>9. ~HasClose(r)
  BY <1>5, <1>6 DEF HasClose, IsClose
<1>10. r # <<>>
  BY <1>4
<1> QED BY <1>4, <1>7, <1>8, <1>9, <1>10 DEF r

LEMMA RecordsOfAre ==
  ASSUME NEW from \in Nat, NEW n \in Nat \ {0}, NEW split \in BOOLEAN, split => n > 1
  PROVE  /\ RecordsOf(from, n, split) \in CellSeq /\ AreRecords(RecordsOf(from, n, split))
         /\ HasBytes(RecordsOf(from, n, split), from, from + n)
         /\ ~HasClose(RecordsOf(from, n, split)) /\ RecordsOf(from, n, split) # <<>>
<1>1. CASE ~split
  BY <1>1, DataRecordIs DEF RecordsOf
<1>2. CASE split
  <2> DEFINE a == DataRecord(from, 1)
             b == DataRecord(from + 1, n - 1)
  <2>1. /\ a \in CellSeq /\ AreRecords(a) /\ HasBytes(a, from, from + 1) /\ ~HasClose(a) /\ a # <<>>
    BY DataRecordIs
  <2>2. from + 1 \in Nat /\ n - 1 \in Nat \ {0} /\ (from + 1) + (n - 1) = from + n
    BY <1>2
  <2>3. /\ b \in CellSeq /\ AreRecords(b) /\ HasBytes(b, from + 1, (from + 1) + (n - 1)) /\ ~HasClose(b)
    BY <2>2, DataRecordIs
  <2>4. RecordsOf(from, n, split) = a \o b
    BY <1>2 DEF RecordsOf
  <2> HIDE DEF a, b
  <2>5. HasBytes(b, from + 1, from + n)
    BY <2>2, <2>3
  <2>6. a \o b \in CellSeq /\ AreRecords(a \o b)
    BY <2>1, <2>3, Joined, RecordsJoin
  <2>7. HasBytes(a \o b, from, from + n)
    <3>1. from + n \in Nat /\ from <= from + 1 /\ from + 1 <= from + n
      BY <2>2
    <3> QED BY <2>1, <2>2, <2>3, <2>5, <3>1, BytesJoin
  <2>8. ~HasClose(a \o b)
    <3>1. CloseIsLast(a) /\ CloseIsLast(b)
      BY <2>1, <2>3 DEF CloseIsLast, HasClose
    <3> QED BY <2>1, <2>3, <3>1, CloseJoins
  <2>9. a \o b # <<>>
    BY <2>1, <2>3, ConcatEqualIffEmpty DEF CellSeq
  <2> QED BY <2>4, <2>6, <2>7, <2>8, <2>9
<1> QED BY <1>1, <1>2

LEMMA AlertRecordIs ==
  ASSUME NEW desc \in Descriptions, NEW p \in Nat
  PROVE  /\ AlertRecord(desc) \in CellSeq /\ AreRecords(AlertRecord(desc))
         /\ HasBytes(AlertRecord(desc), p, p) /\ ~HasData(AlertRecord(desc))
         /\ HasClose(AlertRecord(desc)) => desc = "close_notify"
         /\ AlertRecord(desc) # <<>>
<1> DEFINE h == Header("alert", 2)
           b == <<[cell |-> "alert", of |-> "level"], [cell |-> "alert", of |-> desc]>>
           r == AlertRecord(desc)
<1>1. h \in CellSeq /\ Len(h) = 2 /\ h[1].cell = "type" /\ h[1].of = "alert"
      /\ h[2].cell = "length" /\ h[2].of = 2
  BY DEF Header, CellSeq, Cell, CellNames
<1>2. b \in CellSeq /\ Len(b) = 2 /\ b[1].cell = "alert" /\ b[2].cell = "alert"
      /\ b[1].of = "level" /\ b[2].of = desc
  BY DEF CellSeq, Cell, CellNames, Descriptions
<1>3. r = h \o b
  BY DEF AlertRecord
<1> HIDE DEF h, b, r
<1>4. /\ r \in CellSeq /\ Len(r) = 4
      /\ \A i \in 1 .. 2 : r[i] = h[i]
      /\ \A k \in 1 .. 2 : r[2 + k] = b[k]
  <2>1. /\ r \in CellSeq /\ Len(r) = Len(h) + Len(b)
        /\ \A i \in 1 .. Len(h) : r[i] = h[i]
        /\ \A k \in 1 .. Len(b) : r[Len(h) + k] = b[k]
    BY <1>1, <1>2, <1>3, Joined
  <2> QED BY <1>1, <1>2, <2>1
<1>5. /\ r[1].cell = "type" /\ r[1].of = "alert" /\ r[2].cell = "length" /\ r[2].of = 2
      /\ r[3].cell = "alert" /\ r[3].of = "level" /\ r[4].cell = "alert" /\ r[4].of = desc
  <2>1. 2 + 1 = 3 /\ 2 + 2 = 4
    OBVIOUS
  <2> QED BY <1>1, <1>2, <1>4, <2>1
<1>6. 1 .. Len(r) = {1, 2, 3, 4}
  BY <1>4
<1>7. AreRecords(r)
  <2>1. RecordAt(r, 1) /\ EndsAt(r, 1) = Len(r)
    <3>1. 1 + 1 = 2 /\ \A k \in 1 .. 2 : 1 + 1 + k \in {3, 4}
      OBVIOUS
    <3> QED BY <1>4, <1>5, <3>1 DEF RecordAt, EndsAt
  <2>2. \A i \in 1 .. Len(r) : r[i].cell = "type" => i = 1
    BY <1>5, <1>6
  <2> QED BY <1>4, <1>5, <2>1, <2>2 DEF AreRecords
<1>8. ~HasData(r)
  BY <1>5, <1>6 DEF HasData
<1>9. HasBytes(r, p, p)
  <2>1. p + 1 .. p = {}
    OBVIOUS
  <2> QED BY <1>8, <2>1 DEF HasBytes, HasData
<1>10. HasClose(r) => desc = "close_notify"
  BY <1>5, <1>6 DEF HasClose, IsClose
<1>11. r # <<>>
  BY <1>4
<1> QED BY <1>4, <1>7, <1>8, <1>9, <1>10, <1>11 DEF r

-----------------------------------------------------------------------------
(* The invariant of the stream.                                              *)

(* Everything that is on its way, record by record                           *)
All == rd.packet \o rd.left \o wire \o wr.left

(* The bytes that are out of records                                         *)
Had == Len(got) + (IF rd.type = "data" THEN Len(rd.data) ELSE 0)

WriterRecords ==
  [wnum : Nat, left : CellSeq, pend : [type : {"none", "data", "alert"}, tot : Nat],
   split : BOOLEAN, alert : {"none", "no_renegotiation", "close_notify"}, dispatch : BOOLEAN,
   sent : BOOLEAN, failed : BOOLEAN, alerts : Nat]
WriteCalls ==
  {NotCalled} \cup [at : {"alert"}]
    \cup [at : {"loop", "pending", "alert first"}, len : Nat, tot : Nat, moved : BOOLEAN]
ReaderRecords ==
  [packet : CellSeq, left : CellSeq, body : BOOLEAN, type : {"none", "data", "alert"},
   length : Nat, data : CellSeq, fragment : CellSeq, received : BOOLEAN, failed : BOOLEAN]
ReadCalls == {NotCalled} \cup [at : {"start"}, len : Nat, peek : BOOLEAN]

StreamTypes ==
  /\ opts \in StreamOptions
  /\ told \in Nat /\ wr \in WriterRecords /\ wcall \in WriteCalls
  /\ wire \in CellSeq
  /\ rd \in ReaderRecords /\ rcall \in ReadCalls /\ got \in Seq(Nat)

ReaderOk ==
  /\ \A i \in 1 .. Len(got) : got[i] = i
  /\ rd.fragment = <<>>
  /\ ~rd.body => rd.packet = <<>>
  /\ rd.body => /\ rd.data = <<>> /\ Len(rd.packet) = 2
                /\ rd.type = rd.packet[1].of /\ rd.length = rd.packet[2].of
  /\ rd.type = "data" =>
       \A i \in 1 .. Len(rd.data) : rd.data[i].cell = "data" /\ rd.data[i].of = Len(got) + i
  /\ rd.type = "alert" => /\ Len(rd.data) \in {0, 2}
                          /\ \A i \in 1 .. Len(rd.data) : rd.data[i].cell = "alert"
  /\ rd.type = "none" => rd.data = <<>>
  /\ rd.received => rcall = NotCalled /\ rd.type = "alert"

Writing == wcall.at \in {"loop", "pending", "alert first"}

WriterOk(last) ==
  /\ told <= MaxTold
  /\ Writing => /\ told + wcall.len <= MaxTold /\ wcall.tot <= wcall.len
                /\ wr.wnum = 0 /\ ~wr.sent /\ ~wr.failed
  /\ wcall.at = "loop" /\ wr.left = <<>> => wcall.tot < wcall.len
  /\ wcall.at = "pending" => /\ wr.left # <<>> /\ wr.pend.type = "data"
                             /\ wcall.tot + wr.pend.tot <= wcall.len
  /\ wcall.at = "alert first" => wcall.tot < wcall.len
  /\ wcall.at \in {"alert first", "alert"} =>
       wr.left # <<>> /\ wr.pend.type = "alert" /\ ~wr.dispatch
  /\ ~Writing /\ ~wr.sent /\ (wr.left = <<>> \/ wcall.at = "alert") => wr.wnum = 0 /\ ~wr.failed
  /\ wr.sent /\ wr.left = <<>> => ~wr.dispatch
  /\ ~wr.sent => wr.alert # "close_notify"
  /\ ~wr.failed => last = Committed

Ended == rd.received \/ (rd.type = "alert" /\ HasClose(rd.data))

CloseOk(last) ==
  /\ CloseIsLast(All)
  /\ Ended => ~HasData(All)
  /\ HasClose(All) \/ Ended => wr.sent /\ last = told

StreamOk(last) ==
  /\ ReaderOk /\ AreRecords(All)
  /\ Had <= last /\ last <= MaxTold /\ HasBytes(All, Had, last)
  /\ WriterOk(last) /\ CloseOk(last)

StreamInv == StreamTypes /\ \E last \in Nat : StreamOk(last)

(* What the parts are made of                                                *)
LEMMA Fields ==
  ASSUME StreamTypes
  PROVE  /\ wr.left \in CellSeq /\ rd.packet \in CellSeq /\ rd.left \in CellSeq
         /\ rd.data \in CellSeq /\ rd.fragment \in CellSeq /\ wire \in CellSeq
         /\ Had \in Nat /\ Len(got) \in Nat /\ Len(rd.data) \in Nat
         /\ All \in CellSeq
         /\ All = (rd.packet \o rd.left \o wire) \o wr.left
         /\ rd.packet \o rd.left \o wire \in CellSeq
<1>1. /\ wr.left \in CellSeq /\ rd.packet \in CellSeq /\ rd.left \in CellSeq
      /\ rd.data \in CellSeq /\ rd.fragment \in CellSeq /\ wire \in CellSeq
  BY DEF StreamTypes, WriterRecords, ReaderRecords
<1>2. Len(got) \in Nat /\ Len(rd.data) \in Nat
  BY <1>1, CellsIn, LenProperties DEF StreamTypes
<1>3. rd.packet \o rd.left \in CellSeq
  BY <1>1, Joined
<1>4. rd.packet \o rd.left \o wire \in CellSeq
  BY <1>1, <1>3, Joined
<1>5. All = (rd.packet \o rd.left \o wire) \o wr.left
  BY DEF All
<1>6. All \in CellSeq
  BY <1>1, <1>4, <1>5, Joined
<1> QED
  BY <1>1, <1>2, <1>4, <1>5, <1>6 DEF Had

(* A step that leaves what is on its way, and the reader, as they are        *)
LEMMA WriterAlone ==
  ASSUME NEW last \in Nat, StreamOk(last), All' = All, UNCHANGED <<rd, rcall, got>>,
         WriterOk(last)', wr.sent => wr'.sent /\ told' = told
  PROVE  StreamOk(last)'
<1>1. Had' = Had /\ (Ended' <=> Ended)
  BY DEF Had, Ended
<1>2. ReaderOk'
  BY DEF StreamOk, ReaderOk
<1>3. CloseOk(last)'
  BY <1>1 DEF StreamOk, CloseOk
<1> QED
  BY <1>1, <1>2, <1>3 DEF StreamOk

(* A step that appends records                                               *)
LEMMA WriterAppends ==
  ASSUME StreamTypes, NEW last \in Nat, StreamOk(last), wr.left = <<>>,
         UNCHANGED <<told, wire, rd, rcall, got>>,
         wr'.left \in CellSeq, AreRecords(wr'.left),
         NEW new \in Nat, last <= new, new <= MaxTold, HasBytes(wr'.left, last, new),
         CloseIsLast(wr'.left), WriterOk(new)',
         wr.sent => wr'.sent /\ ~HasData(wr'.left) /\ new = last,
         HasClose(wr'.left) => wr'.sent /\ new = told
  PROVE  StreamOk(new)'
<1> DEFINE r == wr'.left
<1>1. All \in CellSeq /\ Had \in Nat
  BY Fields
<1>2. All' = All \o r
  <2>1. All = rd.packet \o rd.left \o wire
    <3>1. (rd.packet \o rd.left \o wire) \o <<>> = rd.packet \o rd.left \o wire
      BY Fields, ConcatEmptySeq DEF CellSeq
    <3> QED BY <3>1, Fields
  <2> QED BY <2>1 DEF All
<1>3. r \in CellSeq /\ AreRecords(r) /\ HasBytes(r, last, new) /\ CloseIsLast(r)
  OBVIOUS
<1>4. Had' = Had /\ (Ended' <=> Ended) /\ ReaderOk'
  BY DEF Had, Ended, StreamOk, ReaderOk
<1>5. AreRecords(All) /\ Had <= last /\ HasBytes(All, Had, last) /\ CloseOk(last)
  BY DEF StreamOk
<1>6. HasClose(All) => wr.sent
  BY <1>5 DEF CloseOk
<1>7. (wr.sent => ~HasData(r)) /\ (HasClose(r) => wr'.sent /\ new = told)
  OBVIOUS
<1>8. CloseIsLast(All)
  BY <1>5 DEF CloseOk
<1> HIDE DEF r
<1>9. AreRecords(All \o r) /\ HasBytes(All \o r, Had, new)
  BY <1>1, <1>3, <1>5, RecordsJoin, BytesJoin
<1>10. /\ CloseIsLast(All \o r) /\ (HasClose(All \o r) => HasClose(All) \/ HasClose(r))
       /\ (HasData(All \o r) => HasData(All) \/ HasData(r))
  BY <1>1, <1>3, <1>6, <1>7, <1>8, CloseJoins
<1>11. CloseOk(new)'
  <2>1. Ended => ~HasData(All) /\ wr.sent
    BY <1>5 DEF CloseOk
  <2>2. HasClose(All) \/ Ended => wr.sent /\ last = told
    BY <1>5 DEF CloseOk
  <2>3. HasClose(All)' => HasClose(All) \/ HasClose(r)
    BY <1>2, <1>10 DEF HasClose
  <2>4. HasData(All)' => HasData(All) \/ HasData(r)
    BY <1>2, <1>10 DEF HasData
  <2>5. CloseIsLast(All)'
    BY <1>2, <1>10 DEF CloseIsLast
  <2> QED BY <1>4, <1>7, <2>1, <2>2, <2>3, <2>4, <2>5 DEF CloseOk
<1>12. AreRecords(All)' /\ HasBytes(All, Had, new)'
  <2> DEFINE c == All \o r
  <2>1. AreRecords(c) /\ HasBytes(c, Had, new)
    BY <1>9
  <2>2. All' = c
    BY <1>2
  <2> HIDE DEF c
  <2>3. AreRecords(All')
    BY <2>1, <2>2
  <2>4. HasBytes(All', Had', new)
    BY <1>4, <2>1, <2>2
  <2> QED BY <2>3, <2>4
<1>13. Had' <= new
  BY <1>1, <1>4, <1>5
<1> QED
  BY <1>4, <1>11, <1>12, <1>13 DEF StreamOk

LEMMA Bounds == MaxTold \in Nat \ {0} /\ MaxFragment \in Nat /\ MaxFragment > 1
BY StreamAssumption

LEMMA WriterFields ==
  ASSUME StreamTypes
  PROVE  /\ wr.wnum \in Nat /\ wr.left \in CellSeq /\ wr.pend.tot \in Nat
         /\ wr.pend.type \in {"none", "data", "alert"} /\ told \in Nat
         /\ wcall.at \in {"none", "alert", "loop", "pending", "alert first"}
         /\ Writing => wcall.len \in Nat /\ wcall.tot \in Nat /\ wcall.moved \in BOOLEAN
         /\ wcall.at = "none" <=> wcall = NotCalled
<1>1. /\ wr.wnum \in Nat /\ wr.left \in CellSeq /\ wr.pend.tot \in Nat
      /\ wr.pend.type \in {"none", "data", "alert"} /\ told \in Nat
  BY DEF StreamTypes, WriterRecords
<1>2. wcall \in WriteCalls
  BY DEF StreamTypes
<1>n. NotCalled.at = "none"
  BY DEF NotCalled
<1>3. CASE wcall = NotCalled
  BY <1>1, <1>3, <1>n DEF Writing
<1>4. CASE wcall \in [at : {"alert"}]
  <2>1. wcall.at = "alert"
    BY <1>4
  <2> QED BY <1>1, <1>n, <2>1 DEF Writing
<1>5. CASE wcall \in [at : {"loop", "pending", "alert first"}, len : Nat, tot : Nat, moved : BOOLEAN]
  <2>1. wcall.at \in {"loop", "pending", "alert first"} /\ wcall.len \in Nat /\ wcall.tot \in Nat
        /\ wcall.moved \in BOOLEAN
    BY <1>5
  <2> QED BY <1>1, <1>n, <2>1 DEF Writing
<1> QED
  BY <1>2, <1>3, <1>4, <1>5 DEF WriteCalls

(* A call in the loop that goes on at another place                          *)
LEMMA CallIsLong ==
  ASSUME StreamTypes, Writing
  PROVE  wcall \in [at : {"loop", "pending", "alert first"}, len : Nat, tot : Nat, moved : BOOLEAN]
<1>1. wcall # NotCalled
  <2>1. NotCalled.at = "none"
    BY DEF NotCalled
  <2> QED BY <2>1 DEF Writing
<1>2. wcall \notin [at : {"alert"}]
  BY DEF Writing
<1> QED BY <1>1, <1>2 DEF StreamTypes, WriteCalls

LEMMA CallMoves ==
  ASSUME StreamTypes, Writing, NEW at \in {"loop", "pending", "alert first"},
         NEW c, c = [wcall EXCEPT !.at = at]
  PROVE  c \in WriteCalls /\ c.at = at /\ c.len = wcall.len /\ c.tot = wcall.tot
<1>1. c \in [at : {"loop", "pending", "alert first"}, len : Nat, tot : Nat, moved : BOOLEAN]
      /\ c.at = at /\ c.len = wcall.len /\ c.tot = wcall.tot
  BY CallIsLong
<1> QED
  BY <1>1 DEF WriteCalls

(* The loop is left with what was written; what is pending stays.            *)
LEMMA Leaving ==
  ASSUME StreamTypes, NEW last \in Nat, WriterOk(last), NEW ww \in WriterRecords,
         LeavesLoop(ww), wcall.at \in {"loop", "pending", "alert first"}, wr.left # <<>>,
         ww.left = wr.left, ww.pend = wr.pend, ww.sent = wr.sent, ww.failed = wr.failed,
         ww.alert = wr.alert, UNCHANGED told
  PROVE  /\ wr' \in WriterRecords /\ wcall' \in WriteCalls
         /\ WriterOk(last)' /\ wr'.left = wr.left /\ wr'.sent = wr.sent
<1>1. /\ wr' = [ww EXCEPT !.wnum = wcall.tot, !.split = FALSE] /\ wcall' = NotCalled
      /\ wcall.tot \in Nat /\ told \in Nat
  BY WriterFields DEF LeavesLoop, Writing
<1>2. wr' \in WriterRecords /\ wcall' \in WriteCalls
  BY <1>1 DEF WriterRecords, WriteCalls
<1>3. /\ wr'.left = wr.left /\ wr'.pend = wr.pend /\ wr'.sent = wr.sent /\ wr'.failed = wr.failed
      /\ wr'.alert = wr.alert /\ wr'.wnum = wcall.tot /\ wcall'.at = "none"
  BY <1>1 DEF WriterRecords, NotCalled
<1>4. Writing /\ ~Writing'
  BY <1>3 DEF Writing
<1>5. ~wr.sent /\ ~wr.failed /\ told <= MaxTold /\ last = Committed /\ wr.alert # "close_notify"
  BY <1>4 DEF WriterOk
<1>6. Committed' = Committed
  BY <1>3, <1>4 DEF Committed, Writing
<1>7. WriterOk(last)'
  BY <1>3, <1>4, <1>5, <1>6 DEF WriterOk
<1> QED
  BY <1>2, <1>3, <1>7

LEMMA StepSSLWrite ==
  ASSUME StreamTypes, NEW last \in Nat, StreamOk(last),
         NEW n \in Nat \ {0}, NEW moved \in BOOLEAN, SSLWrite(n, moved)
  PROVE  StreamTypes' /\ StreamOk(last)'
<1>1. /\ wcall = NotCalled /\ wcall.at = "none" /\ ~wr.sent /\ ~wr.failed /\ told + n <= MaxTold
      /\ wr' = [wr EXCEPT !.wnum = 0, !.failed = n < wr.wnum]
      /\ wcall' = IF n < wr.wnum THEN NotCalled
                  ELSE [at |-> "loop", len |-> n, tot |-> wr.wnum, moved |-> moved]
      /\ UNCHANGED <<opts, told, wire, rd, rcall, got>>
  BY DEF SSLWrite, readerVars, NotCalled
<1>2. wr.wnum \in Nat /\ told \in Nat
  BY WriterFields
<1>3. /\ wr' \in WriterRecords /\ wr'.left = wr.left /\ wr'.pend = wr.pend /\ wr'.sent = wr.sent
      /\ wr'.alert = wr.alert /\ wr'.dispatch = wr.dispatch
      /\ wr'.wnum = 0 /\ (wr'.failed <=> n < wr.wnum)
  <2> DEFINE b == n < wr.wnum
  <2>1. b \in BOOLEAN
    BY <1>2
  <2>2. wr' = [wr EXCEPT !.wnum = 0, !.failed = b] /\ wr \in WriterRecords
    BY <1>1 DEF StreamTypes
  <2> HIDE DEF b
  <2>3. /\ wr' \in WriterRecords /\ wr'.left = wr.left /\ wr'.pend = wr.pend /\ wr'.sent = wr.sent
        /\ wr'.alert = wr.alert /\ wr'.dispatch = wr.dispatch
        /\ wr'.wnum = 0 /\ wr'.failed = b
    BY <2>1, <2>2 DEF WriterRecords
  <2> QED BY <2>1, <2>3 DEF b
<1>4. wcall' \in WriteCalls
  BY <1>1, <1>2 DEF WriteCalls
<1>5. StreamTypes'
  BY <1>1, <1>3, <1>4 DEF StreamTypes
<1>6. All' = All
  BY <1>1, <1>3 DEF All
<1>7. WriterOk(last)
  BY DEF StreamOk
<1>8. ~Writing /\ (wr.left = <<>> => wr.wnum = 0) /\ wr.alert # "close_notify" /\ last = Committed
  BY <1>1, <1>7 DEF WriterOk, Writing
<1>9. CASE n < wr.wnum
  <2>1. wcall'.at = "none" /\ ~Writing' /\ wr'.failed
    BY <1>1, <1>3, <1>9 DEF Writing, NotCalled
  <2>2. wr.left # <<>>
    BY <1>2, <1>8, <1>9
  <2>3. WriterOk(last)'
    BY <1>1, <1>2, <1>3, <1>7, <1>8, <2>1, <2>2 DEF WriterOk
  <2> QED BY <1>1, <1>3, <1>5, <1>6, <2>3, WriterAlone
<1>10. CASE ~(n < wr.wnum)
  <2>1. wcall'.at = "loop" /\ wcall'.len = n /\ wcall'.tot = wr.wnum /\ Writing' /\ ~wr'.failed
    BY <1>1, <1>3, <1>10 DEF Writing
  <2>2. Committed' = Committed
    BY <1>1, <1>2, <1>3, <2>1 DEF Committed
  <2>3. WriterOk(last)'
    <3>a. told' <= MaxTold
      BY <1>1, <1>7 DEF WriterOk
    <3>b. told' + wcall'.len <= MaxTold /\ wcall'.tot <= wcall'.len
      BY <1>1, <1>2, <1>10, <2>1
    <3>c. wr'.left = <<>> => wcall'.tot < wcall'.len
      BY <1>2, <1>3, <1>8, <2>1
    <3>d. last = Committed' /\ wr'.alert # "close_notify" /\ wr'.wnum = 0 /\ ~wr'.sent
      BY <1>1, <1>3, <1>8, <2>2
    <3> QED BY <2>1, <3>a, <3>b, <3>c, <3>d DEF WriterOk
  <2> QED BY <1>1, <1>3, <1>5, <1>6, <2>3, WriterAlone
<1> QED BY <1>9, <1>10

LEMMA StepWriteRecord ==
  ASSUME StreamTypes, NEW last \in Nat, StreamOk(last), WriteRecord
  PROVE  StreamTypes' /\ \E new \in Nat : StreamOk(new)'
<1> DEFINE n == wcall.len - wcall.tot
           nw == LesserOf(n, MaxFragment)
           ww == [wr EXCEPT !.split = @ \/ Splits(n)]
<1>1. /\ wcall.at = "loop" /\ Writing /\ UNCHANGED <<opts, told, wire, rd, rcall, got>>
  BY DEF WriteRecord, readerVars, Writing
<1>2. WriterOk(last) /\ last <= MaxTold
  BY DEF StreamOk
<1>3. /\ wcall.len \in Nat /\ wcall.tot \in Nat /\ wcall.tot <= wcall.len /\ told \in Nat
      /\ told + wcall.len <= MaxTold /\ ~wr.sent /\ ~wr.failed /\ last = Committed
      /\ wr.wnum = 0 /\ wr.alert # "close_notify" /\ wcall \in WriteCalls
      /\ (wr.left = <<>> => wcall.tot < wcall.len)
      /\ wr.alert \in {"none", "no_renegotiation", "close_notify"}
  BY <1>1, <1>2, WriterFields DEF WriterOk, StreamTypes, WriterRecords
<1>4. n \in Nat /\ nw \in Nat /\ nw <= n /\ (wr.left = <<>> => nw # 0)
      /\ (n > 1 => nw > 1)
  BY <1>3, Bounds DEF LesserOf
<1>5. Splits(n) \in BOOLEAN /\ (Splits(n) => n > 1)
  BY <1>4 DEF Splits, StreamTypes, WriterRecords
<1>6. /\ ww \in WriterRecords
      /\ ww.left = wr.left /\ ww.pend = wr.pend /\ ww.sent = wr.sent /\ ww.failed = wr.failed
      /\ ww.alert = wr.alert /\ ww.wnum = wr.wnum /\ ww.dispatch = wr.dispatch
  <2> DEFINE b == wr.split \/ Splits(n)
  <2>1. b \in BOOLEAN
    BY <1>5 DEF StreamTypes, WriterRecords
  <2>2. ww = [wr EXCEPT !.split = b]
    OBVIOUS
  <2> HIDE DEF b, ww
  <2> QED BY <2>1, <2>2 DEF StreamTypes, WriterRecords
<1>9. IF wr.left # <<>>
      THEN IF IsBadRetry("data", nw, wcall.moved)
           THEN LeavesLoop(ww)
           ELSE wr' = ww /\ wcall' = [wcall EXCEPT !.at = "pending"]
      ELSE IF wr.dispatch
      THEN /\ wr' = [ww EXCEPT !.dispatch = FALSE, !.left = AlertRecord(wr.alert),
                              !.pend = [type |-> "alert", tot |-> 2]]
           /\ wcall' = [wcall EXCEPT !.at = "alert first"]
      ELSE IF nw = 0 THEN LeavesLoop(ww)
      ELSE /\ wr' = [ww EXCEPT !.left = RecordsOf(told + wcall.tot, nw, Splits(n)),
                              !.pend = [type |-> "data", tot |-> nw]]
           /\ wcall' = [wcall EXCEPT !.at = "pending"]
  BY DEF WriteRecord
<1> HIDE DEF n, nw, ww
<1>10. CASE wr.left # <<>> /\ IsBadRetry("data", nw, wcall.moved)
  <2>1. /\ wr' \in WriterRecords /\ wcall' \in WriteCalls
        /\ WriterOk(last)' /\ wr'.left = wr.left /\ wr'.sent = wr.sent
    BY <1>1, <1>2, <1>6, <1>9, <1>10, Leaving
  <2>2. All' = All
    BY <1>1, <2>1 DEF All
  <2> QED BY <1>1, <2>1, <2>2, WriterAlone DEF StreamTypes
<1>11. CASE wr.left # <<>> /\ ~IsBadRetry("data", nw, wcall.moved)
  <2>1. wr' = ww /\ wcall' = [wcall EXCEPT !.at = "pending"]
    BY <1>9, <1>11
  <2>2. wcall'.at = "pending" /\ wcall'.len = wcall.len /\ wcall'.tot = wcall.tot /\ wcall' \in WriteCalls
    BY <1>1, <2>1, CallMoves
  <2>3. wr.pend.tot <= nw /\ wr.pend.type = "data" /\ wr.pend.tot \in Nat
    <3>1. ~(wr.pend.tot > nw) /\ wr.pend.type = "data"
      BY <1>11 DEF IsBadRetry
    <3>2. wr.pend.tot \in Nat
      BY WriterFields
    <3> QED BY <1>4, <3>1, <3>2
  <2>4. wcall.tot + wr.pend.tot <= wcall.len
    BY <1>3, <1>4, <2>3 DEF n
  <2>5. Committed' = Committed /\ Writing'
    BY <1>1, <1>6, <2>1, <2>2 DEF Committed, Writing
  <2>6. WriterOk(last)'
    <3>a. told' <= MaxTold
      BY <1>1, <1>2 DEF WriterOk
    <3>b. told' + wcall'.len <= MaxTold /\ wcall'.tot <= wcall'.len /\ wr'.left # <<>>
      BY <1>1, <1>3, <1>6, <1>11, <2>1, <2>2
    <3>c. wr'.pend.type = "data" /\ wcall'.tot + wr'.pend.tot <= wcall'.len
      BY <1>6, <2>1, <2>2, <2>3, <2>4
    <3>d. last = Committed' /\ wr'.alert # "close_notify" /\ wr'.wnum = 0 /\ ~wr'.sent /\ ~wr'.failed
      BY <1>3, <1>6, <2>1, <2>5
    <3> QED BY <2>2, <2>5, <3>a, <3>b, <3>c, <3>d DEF WriterOk
  <2>7. All' = All
    BY <1>1, <1>6, <2>1 DEF All
  <2> QED BY <1>1, <1>6, <2>1, <2>2, <2>6, <2>7, WriterAlone DEF StreamTypes
<1>12. CASE wr.left = <<>> /\ wr.dispatch
  <2>1. /\ wr' = [ww EXCEPT !.dispatch = FALSE, !.left = AlertRecord(wr.alert),
                              !.pend = [type |-> "alert", tot |-> 2]]
        /\ wcall' = [wcall EXCEPT !.at = "alert first"]
    BY <1>9, <1>12
  <2>2. wcall'.at = "alert first" /\ wcall'.len = wcall.len /\ wcall'.tot = wcall.tot /\ wcall' \in WriteCalls
    BY <1>1, <2>1, CallMoves
  <2> DEFINE r == AlertRecord(wr.alert)
  <2>3. /\ r \in CellSeq /\ AreRecords(r) /\ HasBytes(r, last, last) /\ ~HasData(r) /\ ~HasClose(r)
        /\ r # <<>>
    <3>1. wr.alert \in Descriptions
      BY <1>3 DEF Descriptions
    <3> QED BY <1>3, <3>1, AlertRecordIs
  <2> HIDE DEF r
  <2>4. /\ wr' \in WriterRecords /\ wr'.left = r /\ wr'.pend.type = "alert"
        /\ wr'.sent = wr.sent /\ wr'.failed = wr.failed /\ wr'.alert = wr.alert
        /\ wr'.wnum = wr.wnum /\ ~wr'.dispatch
    <3>1. wr' = [ww EXCEPT !.dispatch = FALSE, !.left = r, !.pend = [type |-> "alert", tot |-> 2]]
      BY <2>1 DEF r
    <3> QED BY <1>6, <2>3, <3>1 DEF WriterRecords
  <2>5. Committed' = Committed /\ Writing'
    BY <1>1, <1>12, <2>2, <2>4 DEF Committed, Writing
  <2>6. WriterOk(last)'
    <3>a. told' <= MaxTold
      BY <1>1, <1>2 DEF WriterOk
    <3>b. told' + wcall'.len <= MaxTold /\ wcall'.tot <= wcall'.len /\ wr'.left # <<>>
      BY <1>1, <1>3, <2>2, <2>3, <2>4
    <3>c. wr'.pend.type = "alert" /\ ~wr'.dispatch /\ wcall'.tot < wcall'.len
      BY <1>3, <1>12, <2>2, <2>4
    <3>d. last = Committed' /\ wr'.alert # "close_notify" /\ wr'.wnum = 0 /\ ~wr'.sent /\ ~wr'.failed
      BY <1>3, <2>4, <2>5
    <3> QED BY <2>2, <2>5, <3>a, <3>b, <3>c, <3>d DEF WriterOk
  <2>7. CloseIsLast(r)
    BY <2>3 DEF CloseIsLast, HasClose
  <2>8. StreamOk(last)'
    BY <1>1, <1>2, <1>3, <1>12, <2>3, <2>4, <2>6, <2>7, WriterAppends
  <2> QED BY <1>1, <2>2, <2>4, <2>8 DEF StreamTypes
<1>13. CASE wr.left = <<>> /\ ~wr.dispatch
  <2>1. /\ wr' = [ww EXCEPT !.left = RecordsOf(told + wcall.tot, nw, Splits(n)),
                              !.pend = [type |-> "data", tot |-> nw]]
        /\ wcall' = [wcall EXCEPT !.at = "pending"]
    BY <1>4, <1>9, <1>13
  <2>2. wcall'.at = "pending" /\ wcall'.len = wcall.len /\ wcall'.tot = wcall.tot /\ wcall' \in WriteCalls
    BY <1>1, <2>1, CallMoves
  <2> DEFINE r == RecordsOf(told + wcall.tot, nw, Splits(n))
  <2>3. last = told + wcall.tot
    BY <1>1, <1>3, <1>13 DEF Committed
  <2>4. nw \in Nat \ {0} /\ Splits(n) \in BOOLEAN /\ (Splits(n) => nw > 1)
    BY <1>4, <1>5, <1>13
  <2>5. /\ r \in CellSeq /\ AreRecords(r) /\ HasBytes(r, last, last + nw) /\ ~HasClose(r) /\ r # <<>>
    BY <2>3, <2>4, RecordsOfAre
  <2> HIDE DEF r
  <2>6. /\ wr' \in WriterRecords /\ wr'.left = r /\ wr'.pend.type = "data" /\ wr'.pend.tot = nw
        /\ wr'.sent = wr.sent /\ wr'.failed = wr.failed /\ wr'.alert = wr.alert
        /\ wr'.wnum = wr.wnum /\ wr'.dispatch = wr.dispatch
    <3>1. wr' = [ww EXCEPT !.left = r, !.pend = [type |-> "data", tot |-> nw]]
      BY <2>1 DEF r
    <3> QED BY <1>6, <2>4, <2>5, <3>1 DEF WriterRecords
  <2>7. Committed' = last + nw /\ Writing'
    BY <1>1, <2>2, <2>3, <2>5, <2>6 DEF Committed, Writing
  <2>8. wcall.tot + nw <= wcall.len /\ last + nw <= MaxTold /\ last + nw \in Nat /\ last <= last + nw
    <3>1. wcall.tot + nw <= wcall.len
      BY <1>3, <1>4 DEF n
    <3> QED BY <1>3, <2>3, <2>4, <3>1, Bounds
  <2>9. PICK new \in Nat : new = last + nw
    BY <2>8
  <2>10. WriterOk(new)'
    <3>a. told' <= MaxTold
      BY <1>1, <1>2 DEF WriterOk
    <3>b. told' + wcall'.len <= MaxTold /\ wcall'.tot <= wcall'.len /\ wr'.left # <<>>
      BY <1>1, <1>3, <2>2, <2>5, <2>6
    <3>c. wr'.pend.type = "data" /\ wcall'.tot + wr'.pend.tot <= wcall'.len
      BY <2>2, <2>6, <2>8
    <3>d. new = Committed' /\ wr'.alert # "close_notify" /\ wr'.wnum = 0 /\ ~wr'.sent /\ ~wr'.failed
      BY <1>3, <2>6, <2>7, <2>9
    <3> QED BY <2>2, <2>7, <3>a, <3>b, <3>c, <3>d DEF WriterOk
  <2>11. CloseIsLast(r)
    BY <2>5 DEF CloseIsLast, HasClose
  <2>12. StreamOk(new)'
    <3>1. /\ last <= new /\ new <= MaxTold /\ HasBytes(wr'.left, last, new)
          /\ WriterOk(new)' /\ CloseIsLast(wr'.left) /\ AreRecords(wr'.left) /\ wr'.left \in CellSeq
          /\ ~HasClose(wr'.left) /\ ~wr.sent
      BY <1>3, <2>5, <2>6, <2>8, <2>9, <2>10, <2>11
    <3> QED BY <1>1, <1>13, <3>1, WriterAppends
  <2>13. StreamTypes'
    BY <1>1, <2>2, <2>6 DEF StreamTypes
  <2> QED BY <2>12, <2>13
<1> QED
  BY <1>10, <1>11, <1>12, <1>13

(* Cells that the transport takes are still on their way.                    *)
LEMMA CellsTaken ==
  ASSUME StreamTypes, NEW k \in Nat, TakesCells(k), wr'.left = Dropping(wr.left, k)
  PROVE  /\ All' = All /\ wire' \in CellSeq
         /\ (AllTaken(k) => wr'.left = <<>>) /\ (~AllTaken(k) => wr'.left # <<>>)
         /\ UNCHANGED <<opts, rd, rcall, got>>
<1>1. /\ k \in 0 .. Len(wr.left) /\ wire' = wire \o SubSeq(wr.left, 1, k) /\ UNCHANGED <<opts, rd, rcall, got>>
      /\ Len(wr.left) \in Nat /\ k <= Len(wr.left)
  <2>1. Len(wr.left) \in Nat
    BY Fields, CellsIn
  <2>2. k \in 1 .. Len(wr.left) /\ wire' = wire \o SubSeq(wr.left, 1, k)
    BY DEF TakesCells
  <2>3. UNCHANGED <<opts, rd, rcall, got>>
    BY DEF TakesCells, readerVars
  <2>4. k \in 0 .. Len(wr.left) /\ k <= Len(wr.left)
    BY <2>1, <2>2
  <2> QED BY <2>1, <2>2, <2>3, <2>4
<1> DEFINE p == rd.packet \o rd.left
           a == SubSeq(wr.left, 1, k)
           b == Dropping(wr.left, k)
           l == wr.left
<1>2. /\ a \in CellSeq /\ b \in CellSeq /\ a \o b = l /\ Len(b) = Len(l) - k
      /\ l \in CellSeq /\ wire \in CellSeq
  BY <1>1, Fields, Parted
<1>3. p \in CellSeq /\ p \o wire \in CellSeq
  BY Fields, Joined
<1>4. All = (p \o wire) \o l /\ All' = (p \o (wire \o a)) \o b
  BY <1>1 DEF All
<1>5. (AllTaken(k) => Len(b) = 0) /\ (~AllTaken(k) => Len(b) # 0)
  BY <1>1, <1>2 DEF AllTaken
<1> HIDE DEF p, a, b, l
<1>6. (p \o wire) \o a = p \o (wire \o a)
  BY <1>2, <1>3, JoinedThrice, SMTT(40)
<1>7. ((p \o wire) \o a) \o b = (p \o wire) \o (a \o b)
  <2> DEFINE q == p \o wire
  <2>1. q \in CellSeq
    BY <1>3
  <2> HIDE DEF q
  <2>2. (q \o a) \o b = q \o (a \o b)
    BY <1>2, <2>1, JoinedThrice
  <2> QED BY <2>2 DEF q
<1>8. wire \o a \in CellSeq
  BY <1>2, Joined
<1>9. (AllTaken(k) => b = <<>>) /\ (~AllTaken(k) => b # <<>>)
  BY <1>2, <1>5, EmptySeq DEF CellSeq
<1> QED
  BY <1>1, <1>2, <1>4, <1>6, <1>7, <1>8, <1>9 DEF a, b

LEMMA StepTakesSome ==
  ASSUME StreamTypes, NEW last \in Nat, StreamOk(last), NEW k \in Nat, TakesSome(k)
  PROVE  StreamTypes' /\ StreamOk(last)'
<1>1. /\ TakesCells(k) /\ ~AllTaken(k) /\ wr' = [wr EXCEPT !.left = Dropping(@, k)]
      /\ UNCHANGED <<told, wcall>>
  BY DEF TakesSome
<1>2. k \in 0 .. Len(wr.left) /\ wr.left # <<>> /\ Dropping(wr.left, k) \in CellSeq
  <2>1. Len(wr.left) \in Nat /\ k \in 1 .. Len(wr.left)
    BY <1>1, Fields, CellsIn DEF TakesCells
  <2>2. k \in 0 .. Len(wr.left) /\ Len(wr.left) # 0
    BY <2>1
  <2> QED BY <2>2, Fields, Parted
<1>3. /\ wr' \in WriterRecords /\ wr'.left = Dropping(wr.left, k) /\ wr'.pend = wr.pend
      /\ wr'.sent = wr.sent /\ wr'.failed = wr.failed /\ wr'.alert = wr.alert
      /\ wr'.dispatch = wr.dispatch /\ wr'.wnum = wr.wnum
  <2> DEFINE b == Dropping(wr.left, k)
  <2>1. wr' = [wr EXCEPT !.left = b] /\ b \in CellSeq
    BY <1>1, <1>2
  <2> HIDE DEF b
  <2>2. /\ wr' \in WriterRecords /\ wr'.left = b /\ wr'.pend = wr.pend
        /\ wr'.sent = wr.sent /\ wr'.failed = wr.failed /\ wr'.alert = wr.alert
        /\ wr'.dispatch = wr.dispatch /\ wr'.wnum = wr.wnum
    BY <2>1 DEF StreamTypes, WriterRecords
  <2> QED BY <2>2 DEF b
<1>4. All' = All /\ wire' \in CellSeq /\ wr'.left # <<>> /\ UNCHANGED <<opts, rd, rcall, got>>
  BY <1>1, <1>3, CellsTaken
<1>5. Committed' = Committed /\ (Writing' <=> Writing)
  BY <1>1, <1>2, <1>3, <1>4 DEF Committed, Writing
<1>6. WriterOk(last)
  BY DEF StreamOk
<1>7. WriterOk(last)'
  <2>1. wcall' = wcall /\ told' = told
    BY <1>1
  <2> QED BY <1>2, <1>3, <1>4, <1>5, <1>6, <2>1 DEF WriterOk
<1>8. StreamTypes'
  BY <1>1, <1>3, <1>4 DEF StreamTypes
<1> QED
  BY <1>1, <1>3, <1>4, <1>7, <1>8, WriterAlone

LEMMA TakenAll ==
  ASSUME StreamTypes, NEW k \in Nat, TakesCells(k), AllTaken(k)
  PROVE  Dropping(wr.left, k) = <<>> /\ wr.left # <<>> /\ <<>> \in CellSeq
<1>1. Len(wr.left) \in Nat /\ k = Len(wr.left) /\ k \in 1 .. Len(wr.left)
  BY Fields, CellsIn DEF TakesCells, AllTaken
<1>2. Dropping(wr.left, k) \in CellSeq /\ Len(Dropping(wr.left, k)) = Len(wr.left) - k
  BY <1>1, Fields, Parted
<1>3. Len(Dropping(wr.left, k)) = 0
  BY <1>1, <1>2
<1>4. Dropping(wr.left, k) = <<>>
  BY <1>2, <1>3, EmptySeq DEF CellSeq
<1>5. wr.left # <<>>
  BY <1>1
<1> QED BY <1>4, <1>5, EmptySeq DEF CellSeq

LEMMA StepTakesRecord ==
  ASSUME StreamTypes, NEW last \in Nat, StreamOk(last), NEW k \in Nat, TakesRecord(k)
  PROVE  StreamTypes' /\ StreamOk(last)'
<1> DEFINE ret == wr.pend.tot
<1>1. wcall.at = "pending" /\ TakesCells(k) /\ AllTaken(k) /\ Writing
  BY DEF TakesRecord, Writing
<1>2. \/ /\ EndsCall(ret) /\ told' = told + ToldOf(ret)
         /\ wr' = [wr EXCEPT !.left = <<>>, !.split = FALSE] /\ wcall' = NotCalled
      \/ /\ ~EndsCall(ret) /\ wr' = [wr EXCEPT !.left = <<>>]
         /\ wcall' = [wcall EXCEPT !.at = "loop", !.tot = @ + ret] /\ UNCHANGED told
  BY DEF TakesRecord
<1>3. Dropping(wr.left, k) = <<>> /\ wr.left # <<>> /\ <<>> \in CellSeq
  BY <1>1, TakenAll
<1>4. /\ wr' \in WriterRecords /\ wr'.left = <<>> /\ wr'.pend = wr.pend
      /\ wr'.sent = wr.sent /\ wr'.failed = wr.failed /\ wr'.alert = wr.alert
      /\ wr'.dispatch = wr.dispatch /\ wr'.wnum = wr.wnum
  BY <1>2, <1>3 DEF StreamTypes, WriterRecords
<1>5. All' = All /\ wire' \in CellSeq /\ UNCHANGED <<opts, rd, rcall, got>>
  BY <1>1, <1>3, <1>4, CellsTaken
<1>6. WriterOk(last)
  BY DEF StreamOk
<1>7. /\ wcall.len \in Nat /\ wcall.tot \in Nat /\ told \in Nat /\ ret \in Nat
      /\ wcall.tot + ret <= wcall.len /\ told + wcall.len <= MaxTold /\ ~wr.sent /\ ~wr.failed
      /\ wr.wnum = 0 /\ wr.alert # "close_notify" /\ last = told + (wcall.tot + ret)
  <2>1. /\ wcall.len \in Nat /\ wcall.tot \in Nat /\ told \in Nat /\ ret \in Nat
    BY <1>1, WriterFields
  <2>2. /\ wcall.tot + ret <= wcall.len /\ told + wcall.len <= MaxTold /\ ~wr.sent /\ ~wr.failed
        /\ wr.wnum = 0 /\ wr.alert # "close_notify" /\ last = Committed /\ wr.pend.type = "data"
    BY <1>1, <1>6 DEF WriterOk
  <2>3. Committed = told + wcall.tot + ret
    BY <1>1, <1>3, <2>2 DEF Committed
  <2> QED BY <2>1, <2>2, <2>3
<1> HIDE DEF ret
<1>8. CASE EndsCall(ret)
  <2>1. told' = told + (wcall.tot + ret) /\ wcall' = NotCalled
    BY <1>2, <1>8 DEF ToldOf
  <2>2. wcall'.at = "none" /\ wcall' \in WriteCalls /\ ~Writing'
    BY <2>1 DEF NotCalled, WriteCalls, Writing
  <2>3. told' <= MaxTold /\ told' \in Nat /\ last = told'
    BY <1>7, <2>1, Bounds
  <2>4. Committed' = told'
    <3>1. wcall'.at = "none" /\ wr'.wnum = 0 /\ wr'.left = <<>> /\ told' \in Nat
      BY <1>4, <1>7, <2>2, <2>3
    <3>2. Committed' = (told' + 0) + 0
      BY <3>1 DEF Committed
    <3>3. \A n \in Nat : (n + 0) + 0 = n
      OBVIOUS
    <3>4. (told' + 0) + 0 = told'
      BY <3>1, <3>3, Zenon
    <3> QED BY <3>2, <3>4, Zenon
  <2>5. WriterOk(last)'
    BY <1>4, <1>7, <2>2, <2>3, <2>4 DEF WriterOk
  <2>6. StreamTypes'
    BY <1>4, <1>5, <2>2, <2>3 DEF StreamTypes
  <2> QED BY <1>4, <1>5, <1>7, <2>5, <2>6, WriterAlone
<1>9. CASE ~EndsCall(ret)
  <2>1. UNCHANGED told /\ wcall' = [wcall EXCEPT !.at = "loop", !.tot = @ + ret]
    BY <1>2, <1>9
  <2>2. wcall' \in WriteCalls /\ wcall'.at = "loop" /\ wcall'.len = wcall.len /\ wcall'.tot = wcall.tot + ret
    <3>1. PICK t \in Nat : t = wcall.tot + ret
      BY <1>7
    <3>2. wcall' = [wcall EXCEPT !.at = "loop", !.tot = t]
      BY <2>1, <3>1
    <3>3. wcall' \in WriteCalls /\ wcall'.at = "loop" /\ wcall'.len = wcall.len /\ wcall'.tot = t
      <4>1. wcall \in [at : {"loop", "pending", "alert first"}, len : Nat, tot : Nat, moved : BOOLEAN]
        BY <1>1, CallIsLong
      <4>2. /\ wcall' \in [at : {"loop", "pending", "alert first"}, len : Nat, tot : Nat, moved : BOOLEAN]
            /\ wcall'.at = "loop" /\ wcall'.len = wcall.len /\ wcall'.tot = t
        BY <3>2, <4>1
      <4> QED BY <4>2 DEF WriteCalls
    <3> QED BY <3>1, <3>3
  <2>3. wcall.tot + ret < wcall.len
    BY <1>7, <1>9 DEF EndsCall
  <2>4. Committed' = told + (wcall.tot + ret) /\ Writing'
    BY <1>4, <1>7, <2>1, <2>2 DEF Committed, Writing
  <2>5. WriterOk(last)'
    <3>a. told' <= MaxTold
      BY <1>6, <2>1 DEF WriterOk
    <3>b. told' + wcall'.len <= MaxTold /\ wcall'.tot <= wcall'.len /\ wcall'.tot < wcall'.len
      BY <1>7, <2>1, <2>2, <2>3
    <3>d. last = Committed' /\ wr'.alert # "close_notify" /\ wr'.wnum = 0 /\ ~wr'.sent /\ ~wr'.failed
      BY <1>4, <1>7, <2>4
    <3> QED BY <2>2, <2>4, <3>a, <3>b, <3>d DEF WriterOk
  <2>6. StreamTypes'
    BY <1>4, <1>5, <2>1, <2>2 DEF StreamTypes
  <2> QED BY <1>4, <1>5, <1>7, <2>5, <2>6, WriterAlone
<1> QED BY <1>8, <1>9

LEMMA StepTakesAlert ==
  ASSUME StreamTypes, NEW last \in Nat, StreamOk(last), NEW k \in Nat, TakesAlert(k)
  PROVE  StreamTypes' /\ StreamOk(last)'
<1>1. /\ wcall.at \in {"alert first", "alert"} /\ TakesCells(k) /\ AllTaken(k)
      /\ wr' = [wr EXCEPT !.left = <<>>] /\ UNCHANGED told
      /\ wcall' = IF wcall.at = "alert" THEN NotCalled ELSE [wcall EXCEPT !.at = "loop"]
  BY DEF TakesAlert
<1>2. Dropping(wr.left, k) = <<>> /\ wr.left # <<>> /\ <<>> \in CellSeq
  BY <1>1, TakenAll
<1>3. /\ wr' \in WriterRecords /\ wr'.left = <<>> /\ wr'.pend = wr.pend
      /\ wr'.sent = wr.sent /\ wr'.failed = wr.failed /\ wr'.alert = wr.alert
      /\ wr'.dispatch = wr.dispatch /\ wr'.wnum = wr.wnum
  BY <1>1, <1>2 DEF StreamTypes, WriterRecords
<1>4. All' = All /\ wire' \in CellSeq /\ UNCHANGED <<opts, rd, rcall, got>>
  BY <1>1, <1>2, <1>3, CellsTaken
<1>5. WriterOk(last) /\ wr.pend.type = "alert" /\ ~wr.dispatch /\ told' = told
  BY <1>1 DEF StreamOk, WriterOk
<1>6. CASE wcall.at = "alert"
  <2>1. wcall'.at = "none" /\ wcall' \in WriteCalls /\ ~Writing' /\ ~Writing
    BY <1>1, <1>6 DEF NotCalled, WriteCalls, Writing
  <2>2. Committed' = Committed
    BY <1>3, <1>5, <1>6, <2>1 DEF Committed
  <2>3. WriterOk(last)'
    BY <1>3, <1>5, <1>6, <2>1, <2>2 DEF WriterOk
  <2>4. StreamTypes'
    BY <1>1, <1>3, <1>4, <2>1 DEF StreamTypes
  <2> QED BY <1>3, <1>4, <1>5, <2>3, <2>4, WriterAlone
<1>7. CASE wcall.at = "alert first"
  <2>0. Writing /\ wcall' = [wcall EXCEPT !.at = "loop"]
    BY <1>1, <1>7 DEF Writing
  <2>1. wcall'.at = "loop" /\ wcall' \in WriteCalls /\ wcall'.len = wcall.len /\ wcall'.tot = wcall.tot /\ Writing'
    <3>1. wcall'.at = "loop" /\ wcall' \in WriteCalls /\ wcall'.len = wcall.len /\ wcall'.tot = wcall.tot
      BY <2>0, CallMoves
    <3> QED BY <3>1 DEF Writing
  <2>2. Committed' = Committed
    BY <1>3, <1>5, <1>7, <2>1 DEF Committed
  <2>3. WriterOk(last)'
    <3>1. /\ told <= MaxTold /\ told + wcall.len <= MaxTold /\ wcall.tot <= wcall.len
          /\ wr.wnum = 0 /\ ~wr.sent /\ ~wr.failed /\ wcall.tot < wcall.len
          /\ wr.alert # "close_notify" /\ last = Committed
      BY <1>5, <1>7, <2>0 DEF WriterOk
    <3> QED BY <1>3, <1>5, <2>1, <2>2, <3>1 DEF WriterOk
  <2>4. StreamTypes'
    BY <1>1, <1>3, <1>4, <2>1 DEF StreamTypes
  <2> QED BY <1>3, <1>4, <1>5, <2>3, <2>4, WriterAlone
<1> QED BY <1>1, <1>6, <1>7

LEMMA StepTransportFull ==
  ASSUME StreamTypes, NEW last \in Nat, StreamOk(last), TransportFull
  PROVE  StreamTypes' /\ StreamOk(last)'
<1>1. UNCHANGED <<opts, told, wire, rd, rcall, got>> /\ wcall.at \in {"pending", "alert first", "alert"}
  BY DEF TransportFull, readerVars
<1>2. WriterOk(last) /\ wr \in WriterRecords
  BY DEF StreamOk, StreamTypes
<1>3. wr.left # <<>>
  BY <1>1, <1>2 DEF WriterOk
<1>4. CASE wcall.at \in {"pending", "alert first"}
  <2> DEFINE ww == IF wcall.at = "pending" THEN wr ELSE [wr EXCEPT !.dispatch = TRUE]
  <2>1. LeavesLoop(ww)
    BY <1>4 DEF TransportFull
  <2>2. /\ ww \in WriterRecords /\ ww.left = wr.left /\ ww.pend = wr.pend /\ ww.sent = wr.sent
        /\ ww.failed = wr.failed /\ ww.alert = wr.alert
    BY <1>2 DEF WriterRecords
  <2> HIDE DEF ww
  <2>3. /\ wr' \in WriterRecords /\ wcall' \in WriteCalls
        /\ WriterOk(last)' /\ wr'.left = wr.left /\ wr'.sent = wr.sent
    BY <1>1, <1>2, <1>3, <1>4, <2>1, <2>2, Leaving
  <2>4. All' = All
    BY <1>1, <2>3 DEF All
  <2>5. StreamTypes'
    BY <1>1, <2>3 DEF StreamTypes
  <2> QED BY <1>1, <2>3, <2>4, <2>5, WriterAlone
<1>5. CASE wcall.at = "alert"
  <2>1. wr' = [wr EXCEPT !.dispatch = TRUE] /\ wcall' = NotCalled
    BY <1>5 DEF TransportFull
  <2>2. /\ wr' \in WriterRecords /\ wr'.left = wr.left /\ wr'.pend = wr.pend /\ wr'.sent = wr.sent
        /\ wr'.failed = wr.failed /\ wr'.alert = wr.alert /\ wr'.wnum = wr.wnum
    BY <1>2, <2>1 DEF WriterRecords
  <2>3. wcall'.at = "none" /\ wcall' \in WriteCalls /\ ~Writing' /\ ~Writing
    BY <1>5, <2>1 DEF NotCalled, WriteCalls, Writing
  <2>4. Committed' = Committed
    BY <1>1, <1>5, <2>2, <2>3 DEF Committed
  <2>5. WriterOk(last)'
    BY <1>1, <1>2, <1>3, <1>5, <2>2, <2>3, <2>4 DEF WriterOk
  <2>6. All' = All
    BY <1>1, <2>2 DEF All
  <2>7. StreamTypes'
    BY <1>1, <2>2, <2>3 DEF StreamTypes
  <2> QED BY <1>1, <2>2, <2>5, <2>6, <2>7, WriterAlone
<1> QED BY <1>1, <1>4, <1>5

(* An alert is written now, or waits for the record that is being written.   *)
LEMMA Dispatching ==
  ASSUME StreamTypes, NEW last \in Nat, StreamOk(last), wcall = NotCalled,
         NEW ww \in WriterRecords, DispatchAlert(ww),
         ww.left = wr.left, ww.pend = wr.pend, ww.failed = wr.failed, ww.wnum = wr.wnum,
         wr.sent => ww.sent, ~ww.sent => ww.alert # "close_notify",
         ww.alert = "close_notify" /\ wr.left = <<>> => ww.sent /\ last = told,
         UNCHANGED <<opts, told, wire, rd, rcall, got>>
  PROVE  StreamTypes' /\ StreamOk(last)'
<1>1. WriterOk(last) /\ last <= MaxTold
  BY DEF StreamOk
<1>2. wcall.at = "none" /\ ~Writing
  BY DEF NotCalled, Writing
<1>3. CASE wr.left = <<>>
  <2>1. /\ wr' = [ww EXCEPT !.dispatch = FALSE, !.left = AlertRecord(ww.alert),
                          !.pend = [type |-> "alert", tot |-> 2]]
        /\ wcall' = [at |-> "alert"]
    BY <1>3 DEF DispatchAlert
  <2> DEFINE r == AlertRecord(ww.alert)
  <2>2. /\ r \in CellSeq /\ AreRecords(r) /\ HasBytes(r, last, last) /\ ~HasData(r)
        /\ (HasClose(r) => ww.alert = "close_notify") /\ r # <<>>
    <3>1. ww.alert \in Descriptions
      BY DEF Descriptions, WriterRecords
    <3> QED BY <3>1, AlertRecordIs
  <2> HIDE DEF r
  <2>3. /\ wr' \in WriterRecords /\ wr'.left = r /\ wr'.pend.type = "alert"
        /\ wr'.sent = ww.sent /\ wr'.failed = wr.failed /\ wr'.alert = ww.alert
        /\ wr'.wnum = wr.wnum /\ ~wr'.dispatch
    <3>1. wr' = [ww EXCEPT !.dispatch = FALSE, !.left = r, !.pend = [type |-> "alert", tot |-> 2]]
      BY <2>1 DEF r
    <3> QED BY <2>2, <3>1 DEF WriterRecords
  <2>4. wcall'.at = "alert" /\ wcall' \in WriteCalls /\ ~Writing'
    BY <2>1 DEF WriteCalls, Writing
  <2>5. Committed' = Committed
    BY <1>2, <1>3, <2>2, <2>3, <2>4 DEF Committed
  <2>6. WriterOk(last)'
    <3>1. told <= MaxTold /\ (~wr.sent => wr.wnum = 0 /\ ~wr.failed) /\ (~wr.failed => last = Committed)
      BY <1>1, <1>2, <1>3 DEF WriterOk
    <3> QED BY <2>2, <2>3, <2>4, <2>5, <3>1 DEF WriterOk
  <2>7. CloseIsLast(r)
    BY <2>2 DEF CloseIsLast, HasData
  <2>8. StreamOk(last)'
    BY <1>1, <1>3, <2>2, <2>3, <2>6, <2>7, WriterAppends
  <2> QED BY <2>3, <2>4, <2>8 DEF StreamTypes
<1>4. CASE wr.left # <<>>
  <2>1. wr' = [ww EXCEPT !.dispatch = TRUE] /\ wcall' = wcall
    BY <1>4 DEF DispatchAlert
  <2>2. /\ wr' \in WriterRecords /\ wr'.left = wr.left /\ wr'.pend = wr.pend
        /\ wr'.sent = ww.sent /\ wr'.failed = wr.failed /\ wr'.alert = ww.alert
        /\ wr'.wnum = wr.wnum
    BY <2>1 DEF WriterRecords
  <2>3. Committed' = Committed /\ ~Writing' /\ wcall'.at = "none"
    <3>1. wcall'.at = "none" /\ told' = told
      BY <1>2, <2>1
    <3>2. Committed' = Committed
      BY <1>2, <2>2, <3>1 DEF Committed
    <3> QED BY <3>1, <3>2 DEF Writing
  <2>4. WriterOk(last)'
    BY <1>1, <1>2, <1>4, <2>2, <2>3 DEF WriterOk
  <2>5. All' = All
    BY <2>2 DEF All
  <2>6. StreamTypes'
    BY <2>1, <2>2 DEF StreamTypes
  <2> QED BY <2>2, <2>4, <2>5, <2>6, WriterAlone
<1> QED BY <1>3, <1>4

LEMMA StepRefuseRenegotiation ==
  ASSUME StreamTypes, NEW last \in Nat, StreamOk(last), RefuseRenegotiation
  PROVE  StreamTypes' /\ StreamOk(last)'
<1> DEFINE w1 == [wr EXCEPT !.alerts = @ + 1]
           ww == [w1 EXCEPT !.alert = "no_renegotiation", !.dispatch = TRUE]
<1>1. wcall = NotCalled /\ DispatchAlert(ww) /\ UNCHANGED <<opts, told, wire, rd, rcall, got>>
  BY DEF RefuseRenegotiation, SendAlert, readerVars
<1>2. /\ w1 \in WriterRecords /\ w1.left = wr.left /\ w1.pend = wr.pend /\ w1.failed = wr.failed
      /\ w1.wnum = wr.wnum /\ w1.sent = wr.sent
  <2>1. PICK m \in Nat : m = wr.alerts + 1
    BY DEF StreamTypes, WriterRecords
  <2>2. w1 = [wr EXCEPT !.alerts = m]
    BY <2>1
  <2> HIDE DEF w1
  <2> QED BY <2>2 DEF StreamTypes, WriterRecords
<1> HIDE DEF w1
<1>3. /\ ww \in WriterRecords /\ ww.left = w1.left /\ ww.pend = w1.pend /\ ww.failed = w1.failed
      /\ ww.wnum = w1.wnum /\ ww.sent = w1.sent /\ ww.alert = "no_renegotiation"
  BY <1>2 DEF WriterRecords
<1> HIDE DEF ww
<1> QED BY <1>1, <1>2, <1>3, Dispatching

LEMMA StepSSLShutdown ==
  ASSUME StreamTypes, NEW last \in Nat, StreamOk(last), SSLShutdown
  PROVE  StreamTypes' /\ StreamOk(last)'
<1>1. wcall = NotCalled /\ wcall.at = "none" /\ ~Writing /\ UNCHANGED <<opts, told, wire, rd, rcall, got>>
  BY DEF SSLShutdown, readerVars, Writing, NotCalled
<1>2. WriterOk(last)
  BY DEF StreamOk
<1>3. CASE ~wr.sent
  <2> DEFINE w1 == [wr EXCEPT !.sent = TRUE]
             ww == [w1 EXCEPT !.alert = "close_notify", !.dispatch = TRUE]
  <2>1. DispatchAlert(ww)
    BY <1>3 DEF SSLShutdown, SendAlert
  <2>2. /\ w1 \in WriterRecords /\ w1.left = wr.left /\ w1.pend = wr.pend /\ w1.failed = wr.failed
        /\ w1.wnum = wr.wnum /\ w1.sent
    BY DEF StreamTypes, WriterRecords
  <2> HIDE DEF w1
  <2>3. /\ ww \in WriterRecords /\ ww.left = w1.left /\ ww.pend = w1.pend /\ ww.failed = w1.failed
        /\ ww.wnum = w1.wnum /\ ww.sent
    BY <2>2 DEF WriterRecords
  <2> HIDE DEF ww
  <2>4. wr.left = <<>> => last = told
    <3> HAVE wr.left = <<>>
    <3>1. wr.wnum = 0 /\ last = Committed
      BY <1>1, <1>2, <1>3 DEF WriterOk
    <3>2. Committed = told + 0 + 0 /\ told \in Nat
      BY <1>1, <3>1 DEF Committed, StreamTypes
    <3> QED BY <3>1, <3>2
  <2> QED BY <1>1, <2>1, <2>2, <2>3, <2>4, Dispatching
<1>4. CASE wr.sent
  <2>1. wr.dispatch /\ wr.left # <<>>
    BY <1>2, <1>4 DEF SSLShutdown, WriterOk
  <2>2. wr.pend.type = "alert" /\ wr' = [wr EXCEPT !.dispatch = FALSE] /\ wcall' = [at |-> "alert"]
    BY <1>4, <2>1 DEF SSLShutdown
  <2>3. /\ wr' \in WriterRecords /\ wr'.left = wr.left /\ wr'.pend = wr.pend
        /\ wr'.sent = wr.sent /\ wr'.failed = wr.failed /\ wr'.alert = wr.alert
        /\ wr'.wnum = wr.wnum /\ ~wr'.dispatch
    BY <2>2 DEF StreamTypes, WriterRecords
  <2>4. wcall'.at = "alert" /\ wcall' \in WriteCalls /\ ~Writing'
    BY <2>2 DEF WriteCalls, Writing
  <2>5. Committed' = Committed
    BY <1>1, <2>3, <2>4 DEF Committed
  <2>6. WriterOk(last)'
    BY <1>1, <1>2, <1>4, <2>1, <2>2, <2>3, <2>4, <2>5 DEF WriterOk
  <2>7. All' = All
    BY <1>1, <2>3 DEF All
  <2>8. StreamTypes'
    BY <1>1, <2>3, <2>4 DEF StreamTypes
  <2> QED BY <1>1, <2>3, <2>6, <2>7, <2>8, WriterAlone
<1> QED BY <1>3, <1>4

-----------------------------------------------------------------------------
(* The reader's steps                                                        *)
LEMMA ReaderAlone ==
  ASSUME NEW last \in Nat, StreamOk(last), UNCHANGED <<told, wr, wcall>>, All' = All, Had' = Had,
         Ended' => Ended, ReaderOk'
  PROVE  StreamOk(last)'
<1>1. WriterOk(last)'
  BY DEF StreamOk, WriterOk, Writing, Committed
<1>2. CloseOk(last)'
  BY DEF StreamOk, CloseOk
<1> QED
  BY <1>1, <1>2 DEF StreamOk

LEMMA StepSSLRead ==
  ASSUME StreamTypes, NEW last \in Nat, StreamOk(last),
         NEW n \in Nat, NEW peek \in BOOLEAN, SSLRead(n, peek)
  PROVE  StreamTypes' /\ StreamOk(last)'
<1>1. /\ ~rd.received /\ rcall' = [at |-> "start", len |-> n, peek |-> peek]
      /\ UNCHANGED <<opts, told, wr, wcall, wire, rd, got>>
  BY DEF SSLRead, writerVars
<1>2. rcall' \in ReadCalls
  BY <1>1 DEF ReadCalls
<1>3. ReaderOk'
  BY <1>1 DEF StreamOk, ReaderOk
<1>4. All' = All /\ Had' = Had /\ (Ended' => Ended)
  BY <1>1 DEF All, Had, Ended
<1> QED BY <1>1, <1>2, <1>3, <1>4, ReaderAlone DEF StreamTypes

LEMMA StepTransportEmpty ==
  ASSUME StreamTypes, NEW last \in Nat, StreamOk(last), TransportEmpty
  PROVE  StreamTypes' /\ StreamOk(last)'
<1>1. rcall' = NotCalled /\ UNCHANGED <<opts, told, wr, wcall, wire, rd, got>>
  BY DEF TransportEmpty, writerVars
<1>2. rcall' \in ReadCalls
  BY <1>1 DEF ReadCalls
<1>3. ReaderOk'
  BY <1>1 DEF StreamOk, ReaderOk
<1>4. All' = All /\ Had' = Had /\ (Ended' => Ended)
  BY <1>1 DEF All, Had, Ended
<1> QED BY <1>1, <1>2, <1>3, <1>4, ReaderAlone DEF StreamTypes

LEMMA ReadFields ==
  ASSUME StreamTypes
  PROVE  /\ rd.type \in {"none", "data", "alert"} /\ rd.length \in Nat /\ rd.body \in BOOLEAN
         /\ rcall.at = "start" => rcall # NotCalled /\ rcall.len \in Nat /\ rcall.peek \in BOOLEAN
<1>1. rd.type \in {"none", "data", "alert"} /\ rd.length \in Nat /\ rd.body \in BOOLEAN
  BY DEF StreamTypes, ReaderRecords
<1>2. NotCalled.at = "none"
  BY DEF NotCalled
<1>3. CASE rcall = NotCalled
  BY <1>1, <1>2, <1>3
<1>4. CASE rcall \in [at : {"start"}, len : Nat, peek : BOOLEAN]
  <2>1. rcall.at = "start" /\ rcall.len \in Nat /\ rcall.peek \in BOOLEAN
    BY <1>4
  <2> QED BY <1>1, <1>2, <2>1
<1> QED BY <1>3, <1>4 DEF StreamTypes, ReadCalls

LEMMA StepReadN ==
  ASSUME StreamTypes, NEW last \in Nat, StreamOk(last), NEW k \in Nat, ReadN(k)
  PROVE  StreamTypes' /\ StreamOk(last)'
<1> DEFINE a == SubSeq(wire, 1, k)
           b == Dropping(wire, k)
           l == rd.left \o a
<1>1. /\ rd' = [rd EXCEPT !.left = l] /\ wire' = b
      /\ UNCHANGED <<opts, told, wr, wcall, rcall, got>>
  BY DEF ReadN, writerVars
<1>2. k \in 0 .. Len(wire)
  <2>1. Len(wire) \in Nat
    BY Fields, CellsIn
  <2>2. k \in 1 .. LesserOf(Len(wire), MostToRead(Needs, rd.body) - Len(rd.left))
    BY DEF ReadN
  <2>3. k <= Len(wire)
    <3> DEFINE most == MostToRead(Needs, rd.body) - Len(rd.left)
    <3>1. k \in 1 .. LesserOf(Len(wire), most)
      BY <2>2
    <3>2. most \in Int
      <4>1. Len(rd.left) \in Nat /\ Len(rd.packet) \in Nat /\ Needs \in Nat
        BY Fields, CellsIn, ReadFields DEF Needs
      <4>2. Len(<<>>) = 0
        OBVIOUS
      <4>3. Len(Packet(rd.body)) \in Nat
        BY <4>1, <4>2 DEF Packet
      <4>4. ReadBuffer \in Nat
        BY StreamAssumption
      <4>5. MostToRead(Needs, rd.body) \in Int
        BY <4>1, <4>3, <4>4 DEF MostToRead
      <4> QED BY <4>1, <4>5
    <3> HIDE DEF most
    <3> QED BY <2>1, <3>1, <3>2 DEF LesserOf
  <2> QED BY <2>1, <2>2, <2>3
<1>3. /\ a \in CellSeq /\ b \in CellSeq /\ a \o b = wire /\ l \in CellSeq
      /\ rd.left \in CellSeq /\ rd.packet \in CellSeq
  BY <1>2, Fields, Parted, Joined
<1>4. All' = All
  <2>1. All' = rd.packet \o l \o b \o wr.left
    <3>1. rd'.packet = rd.packet /\ rd'.left = l
      BY <1>1 DEF StreamTypes, ReaderRecords
    <3> QED BY <1>1, <3>1 DEF All
  <2> HIDE DEF a, b
  <2>2. (rd.packet \o rd.left) \o a = rd.packet \o l
    BY <1>3, JoinedThrice
  <2>3. ((rd.packet \o rd.left) \o a) \o b = (rd.packet \o rd.left) \o (a \o b)
    <3> DEFINE p == rd.packet \o rd.left
    <3>1. p \in CellSeq
      BY <1>3, Joined
    <3> HIDE DEF p
    <3>2. (p \o a) \o b = p \o (a \o b)
      BY <1>3, <3>1, JoinedThrice
    <3> QED BY <3>2 DEF p
  <2> QED BY <1>3, <2>1, <2>2, <2>3 DEF All
<1> HIDE DEF l, b
<1>5. /\ rd' \in ReaderRecords /\ rd'.packet = rd.packet /\ rd'.body = rd.body /\ rd'.type = rd.type
      /\ rd'.length = rd.length /\ rd'.data = rd.data /\ rd'.fragment = rd.fragment
      /\ rd'.received = rd.received
  BY <1>1, <1>3 DEF StreamTypes, ReaderRecords
<1>6. ReaderOk'
  BY <1>1, <1>5 DEF StreamOk, ReaderOk
<1>7. Had' = Had /\ (Ended' => Ended)
  BY <1>1, <1>5 DEF Had, Ended
<1> QED BY <1>1, <1>3, <1>4, <1>5, <1>6, <1>7, ReaderAlone DEF StreamTypes

LEMMA DropFront ==
  ASSUME NEW a \in CellSeq, NEW b \in CellSeq
  PROVE  Len(a) \in 0 .. Len(a \o b) /\ Dropping(a \o b, Len(a)) = b
<1>1. /\ a \o b \in CellSeq /\ Len(a \o b) = Len(a) + Len(b) /\ Len(a) \in Nat /\ Len(b) \in Nat
      /\ \A i \in 1 .. Len(b) : (a \o b)[Len(a) + i] = b[i]
  BY Joined
<1> DEFINE c == a \o b
           d == Dropping(c, Len(a))
<1>2. Len(a) \in 0 .. Len(c)
  BY <1>1
<1>3. d \in CellSeq /\ Len(d) = Len(c) - Len(a) /\ \A i \in 1 .. Len(c) - Len(a) : d[i] = c[Len(a) + i]
  BY <1>1, <1>2, Parted
<1>4. Len(d) = Len(b) /\ \A i \in 1 .. Len(b) : d[i] = c[Len(a) + i]
  <2>1. Len(c) - Len(a) = Len(b)
    BY <1>1
  <2> QED BY <1>3, <2>1
<1>5. \A i \in 1 .. Len(b) : d[i] = b[i]
  BY <1>1, <1>4
<1> HIDE DEF d
<1>6. d = b
  BY <1>3, <1>4, <1>5, SeqEqual DEF CellSeq
<1> QED BY <1>2, <1>6 DEF d

LEMMA ThreeJoined ==
  ASSUME NEW b \in CellSeq, NEW c \in CellSeq, NEW d \in CellSeq
  PROVE  b \o c \o d \in CellSeq
<1> DEFINE e == b \o c
<1>1. e \in CellSeq
  BY Joined
<1> HIDE DEF e
<1>2. e \o d \in CellSeq
  BY <1>1, Joined
<1> QED BY <1>2 DEF e

TwoParts(a, r) == a \o r
ThreeParts(b, c, d) == b \o c \o d
FourParts(a, b, c, d) == a \o b \o c \o d

LEMMA FourJoined ==
  ASSUME NEW a \in CellSeq, NEW b \in CellSeq, NEW c \in CellSeq, NEW d \in CellSeq
  PROVE  FourParts(a, b, c, d) = TwoParts(a, ThreeParts(b, c, d))
<1> DEFINE e == b \o c
<1>1. (a \o b) \o c = a \o e
  BY JoinedThrice
<1>2. e \in CellSeq
  BY Joined
<1> HIDE DEF e
<1>3. (a \o e) \o d = a \o (e \o d)
  BY <1>2, JoinedThrice
<1> QED BY <1>1, <1>3 DEF e, FourParts, ThreeParts, TwoParts

(* What the reader has of the first record that is on its way                *)
LEMMA StepGetHeader ==
  ASSUME StreamTypes, NEW last \in Nat, StreamOk(last), GetHeader
  PROVE  StreamTypes' /\ StreamOk(last)'
<1> DEFINE a == SubSeq(rd.left, 1, 2)
           b == Dropping(rd.left, 2)
           p == <<>> \o a
<1>1. /\ rcall.at = "start" /\ rd.data = <<>> /\ ~rd.body /\ Len(rd.left) >= 2
      /\ UNCHANGED <<opts, told, wr, wcall, wire, rcall, got>>
  BY DEF GetHeader, writerVars
<1>2. /\ a \in CellSeq /\ b \in CellSeq /\ a \o b = rd.left /\ Len(a) = 2
      /\ a[1] = rd.left[1] /\ a[2] = rd.left[2] /\ rd.left \in CellSeq
  <2>1. Len(rd.left) \in Nat /\ rd.left \in CellSeq
    BY Fields, CellsIn
  <2>2. 2 \in 0 .. Len(rd.left) /\ 1 \in 1 .. 2 /\ 2 \in 1 .. 2
    BY <1>1, <2>1
  <2> QED BY <2>1, <2>2, Parted
<1>3. p = a
  BY <1>2, ConcatEmptySeq DEF CellSeq
<1>4. rd' = [TakesFromBuffer(2, FALSE) EXCEPT !.body = TRUE,
              !.type = TakesFromBuffer(2, FALSE).packet[1].of,
              !.length = TakesFromBuffer(2, FALSE).packet[2].of]
  BY DEF GetHeader
<1>5. TakesFromBuffer(2, FALSE) = [rd EXCEPT !.packet = a, !.left = b]
  BY <1>3 DEF TakesFromBuffer, Packet
<1>6. rd.packet = <<>> /\ rd.fragment = <<>> /\ ~rd.received
  BY <1>1, ReadFields DEF StreamOk, ReaderOk
<1> HIDE DEF a, b, p
<1>7. All = a \o b \o wire \o wr.left
  <2>1. <<>> \o rd.left = rd.left
    BY <1>2, ConcatEmptySeq DEF CellSeq
  <2> QED BY <1>2, <1>6, <2>1 DEF All
<1>8. /\ All \in CellSeq /\ AreRecords(All) /\ All # <<>>
      /\ All[1] = a[1] /\ All[2] = a[2]
  <2> DEFINE r == b \o wire \o wr.left
  <2>1. r \in CellSeq /\ All = a \o r
    <3>1. wire \in CellSeq /\ wr.left \in CellSeq
      BY Fields
    <3>2. a \in CellSeq /\ b \in CellSeq
      BY <1>2
    <3>3. r \in CellSeq
      BY <3>1, <3>2, ThreeJoined
    <3>4. a \o b \o wire \o wr.left = a \o r
      <4>1. FourParts(a, b, wire, wr.left) = TwoParts(a, ThreeParts(b, wire, wr.left))
        BY <3>1, <3>2, FourJoined
      <4> QED BY <4>1 DEF FourParts, ThreeParts, TwoParts
    <3> QED BY <1>7, <3>3, <3>4
  <2> HIDE DEF r
  <2>0. a \in CellSeq /\ Len(a) = 2
    BY <1>2
  <2>2. /\ Len(a \o r) = 2 + Len(r) /\ Len(r) \in Nat /\ a \o r \in CellSeq
        /\ \A i \in 1 .. 2 : (a \o r)[i] = a[i]
    <3>1. /\ Len(a \o r) = Len(a) + Len(r) /\ Len(r) \in Nat /\ a \o r \in CellSeq
          /\ \A i \in 1 .. Len(a) : (a \o r)[i] = a[i]
      BY <2>0, <2>1, Joined
    <3> QED BY <2>0, <3>1
  <2>3. 1 \in 1 .. 2 /\ 2 \in 1 .. 2
    OBVIOUS
  <2>4. Len(All) # 0
    BY <2>1, <2>2
  <2>5. All # <<>>
    BY <2>4
  <2> QED BY <2>1, <2>2, <2>3, <2>5 DEF StreamOk
<1>9. a[1].of \in {"data", "alert"} /\ a[2].of \in Nat
  BY <1>8, FirstRecord
<1>10. /\ rd' \in ReaderRecords /\ rd'.packet = a /\ rd'.left = b /\ rd'.body = TRUE
       /\ rd'.type = a[1].of /\ rd'.length = a[2].of /\ rd'.data = <<>> /\ rd'.fragment = <<>>
       /\ ~rd'.received
  <2> DEFINE r1 == TakesFromBuffer(2, FALSE)
  <2>1. /\ r1 \in ReaderRecords /\ r1.packet = a /\ r1.left = b /\ r1.data = rd.data
        /\ r1.fragment = rd.fragment /\ r1.received = rd.received
    BY <1>2, <1>5 DEF StreamTypes, ReaderRecords
  <2>2. rd' = [r1 EXCEPT !.body = TRUE, !.type = a[1].of, !.length = a[2].of]
    BY <1>4, <2>1
  <2> HIDE DEF r1
  <2> DEFINE t == a[1].of
             n == a[2].of
  <2>3. t \in {"data", "alert"} /\ n \in Nat /\ rd' = [r1 EXCEPT !.body = TRUE, !.type = t, !.length = n]
    BY <1>9, <2>2
  <2> HIDE DEF t, n
  <2>4. /\ rd' \in ReaderRecords /\ rd'.packet = r1.packet /\ rd'.left = r1.left /\ rd'.body = TRUE
        /\ rd'.type = t /\ rd'.length = n /\ rd'.data = r1.data /\ rd'.fragment = r1.fragment
        /\ rd'.received = r1.received
    BY <2>1, <2>3 DEF ReaderRecords
  <2> QED BY <1>1, <1>6, <2>1, <2>4 DEF t, n
<1>11. All' = All
  BY <1>1, <1>7, <1>10 DEF All
<1>12. ReaderOk'
  <2>1. \A i \in 1 .. Len(got) : got[i] = i
    BY DEF StreamOk, ReaderOk
  <2>2. Len(<<>>) = 0
    OBVIOUS
  <2> QED BY <1>1, <1>2, <1>9, <1>10, <2>1, <2>2 DEF ReaderOk
<1>13. Had' = Had /\ ~Ended'
  <2>1. Len(<<>>) = 0 /\ Len(got) \in Nat
    BY Fields
  <2>2. ~HasClose(rd'.data)
    BY <1>10, <2>1 DEF HasClose
  <2>3. ~Ended'
    <3>1. HasClose(rd.data)' => HasClose(rd'.data)
      BY DEF HasClose
    <3> QED BY <1>10, <2>2, <3>1 DEF Ended
  <2>4. Had = Len(got) /\ Had' = Len(got)
    BY <1>1, <1>10, <2>1 DEF Had
  <2> QED BY <2>3, <2>4
<1>14. StreamTypes'
  BY <1>1, <1>10 DEF StreamTypes
<1> QED BY <1>1, <1>11, <1>12, <1>13, <1>14, ReaderAlone

(* The body of the record is taken: what is left on the way starts with the  *)
(* next record, and its bytes are those behind the ones that were had.       *)
LEMMA StepGetBody ==
  ASSUME StreamTypes, NEW last \in Nat, StreamOk(last), GetBody
  PROVE  StreamTypes' /\ StreamOk(last)'
<1> DEFINE m == rd.length
           p == rd.packet
           a == SubSeq(rd.left, 1, m)
           b == Dropping(rd.left, m)
           f == p \o a
           r == b \o wire \o wr.left
           d == Dropping(f, 2)
<1>1. /\ rcall.at = "start" /\ rd.body /\ Len(rd.left) >= m
      /\ UNCHANGED <<opts, told, wr, wcall, wire, rcall, got>>
  BY DEF GetBody, writerVars
<1>2. /\ rd.data = <<>> /\ Len(p) = 2 /\ rd.type = p[1].of /\ m = p[2].of
      /\ rd.fragment = <<>> /\ ~rd.received /\ \A i \in 1 .. Len(got) : got[i] = i
  BY <1>1, ReadFields DEF StreamOk, ReaderOk
<1>3. /\ m \in Nat /\ p \in CellSeq /\ rd.left \in CellSeq /\ wire \in CellSeq /\ wr.left \in CellSeq
      /\ Len(rd.left) \in Nat /\ rd.type \in {"none", "data", "alert"}
  BY Fields, ReadFields, CellsIn
<1>4. a \in CellSeq /\ Len(a) = m /\ b \in CellSeq /\ a \o b = rd.left
  <2>1. m \in 0 .. Len(rd.left)
    BY <1>1, <1>3
  <2> QED BY <1>3, <2>1, Parted
<1>5. rd' = [TakesFromBuffer(m, TRUE) EXCEPT !.body = FALSE, !.packet = <<>>,
              !.data = Dropping(TakesFromBuffer(m, TRUE).packet, 2)]
  BY DEF GetBody
<1>6. TakesFromBuffer(m, TRUE) = [rd EXCEPT !.packet = f, !.left = b]
  BY DEF TakesFromBuffer, Packet
<1>7. f \in CellSeq /\ Len(f) = 2 + m /\ f[1] = p[1] /\ f[2] = p[2]
  <2>1. /\ f \in CellSeq /\ Len(f) = Len(p) + Len(a) /\ \A i \in 1 .. Len(p) : f[i] = p[i]
    BY <1>3, <1>4, Joined
  <2>2. 1 \in 1 .. 2 /\ 2 \in 1 .. 2
    OBVIOUS
  <2> QED BY <1>2, <1>4, <2>1, <2>2
<1>8. r \in CellSeq /\ All = f \o r
  <2>1. All = ((p \o (a \o b)) \o wire) \o wr.left
    BY <1>4 DEF All
  <2> HIDE DEF a, b, p
  <2>2. p \o (a \o b) = f \o b
    BY <1>3, <1>4, JoinedThrice
  <2> HIDE DEF f
  <2>3. f \o b \o wire \o wr.left = f \o r
    <3>0. f \in CellSeq /\ b \in CellSeq /\ wire \in CellSeq /\ wr.left \in CellSeq
      BY <1>3, <1>4, <1>7
    <3>1. FourParts(f, b, wire, wr.left) = TwoParts(f, ThreeParts(b, wire, wr.left))
      BY <3>0, FourJoined
    <3> QED BY <3>1 DEF FourParts, ThreeParts, TwoParts
  <2>4. r \in CellSeq
    BY <1>3, <1>4, ThreeJoined
  <2> QED BY <2>1, <2>2, <2>3, <2>4
<1>9. /\ d \in CellSeq /\ Len(d) = m /\ \A i \in 1 .. m : d[i] = f[2 + i]
  <2> HIDE DEF f
  <2>1. 2 \in 0 .. Len(f) /\ Len(f) - 2 = m
    BY <1>3, <1>7
  <2>2. d \in CellSeq /\ Len(d) = Len(f) - 2 /\ \A i \in 1 .. Len(f) - 2 : d[i] = f[2 + i]
    BY <1>7, <2>1, Parted
  <2> QED BY <2>1, <2>2
<1>10. /\ rd' \in ReaderRecords /\ rd'.packet = <<>> /\ rd'.left = b /\ rd'.body = FALSE
       /\ rd'.type = rd.type /\ rd'.length = m /\ rd'.data = d /\ rd'.fragment = <<>>
       /\ ~rd'.received
  <2> HIDE DEF b, f
  <2> DEFINE r1 == TakesFromBuffer(m, TRUE)
  <2>1. /\ r1 \in ReaderRecords /\ r1.packet = f /\ r1.left = b /\ r1.type = rd.type
        /\ r1.length = m /\ r1.fragment = rd.fragment /\ r1.received = rd.received
    BY <1>4, <1>6, <1>7 DEF StreamTypes, ReaderRecords
  <2>2. rd' = [r1 EXCEPT !.body = FALSE, !.packet = <<>>, !.data = d]
    BY <1>5, <2>1
  <2>3. <<>> \in CellSeq
    BY DEF CellSeq
  <2> HIDE DEF r1, d
  <2>4. /\ rd' \in ReaderRecords /\ rd'.packet = <<>> /\ rd'.left = r1.left /\ rd'.body = FALSE
        /\ rd'.type = r1.type /\ rd'.length = r1.length /\ rd'.data = d
        /\ rd'.fragment = r1.fragment /\ rd'.received = r1.received
    BY <1>9, <2>1, <2>2, <2>3 DEF ReaderRecords
  <2> QED BY <1>2, <2>1, <2>4
<1> HIDE DEF a, b, f, d, p, m
<1>11. All' = r
  <2>1. All' = <<>> \o b \o wire \o wr.left
    BY <1>1, <1>10 DEF All
  <2>2. <<>> \o b = b
    BY <1>4, ConcatEmptySeq DEF CellSeq
  <2> QED BY <2>1, <2>2
<1> HIDE DEF r
<1>12. /\ All \in CellSeq /\ AreRecords(All) /\ All # <<>> /\ Len(All) \in Nat
       /\ \A i \in 1 .. 2 + m : All[i] = f[i]
       /\ All[1].of = rd.type /\ All[2].of = m
  <2>1. /\ f \o r \in CellSeq /\ Len(f \o r) = Len(f) + Len(r) /\ Len(r) \in Nat
        /\ \A i \in 1 .. Len(f) : (f \o r)[i] = f[i]
    BY <1>7, <1>8, Joined
  <2>2. 1 \in 1 .. 2 + m /\ 2 \in 1 .. 2 + m
    BY <1>3
  <2>3. Len(All) \in Nat \ {0}
    BY <1>3, <1>7, <1>8, <2>1
  <2>4. All # <<>>
    BY <2>3
  <2>5. \A i \in 1 .. 2 + m : All[i] = f[i]
    BY <1>7, <1>8, <2>1
  <2>6. All[1] = f[1] /\ All[2] = f[2]
    BY <2>2, <2>5
  <2> QED BY <1>2, <1>7, <1>8, <2>1, <2>3, <2>4, <2>5, <2>6 DEF StreamOk
<1>13. r = Dropping(All, 2 + m) /\ 2 + m \in 0 .. Len(All) /\ 2 + m \in Nat
  <2>1. Len(f) \in 0 .. Len(f \o r) /\ Dropping(f \o r, Len(f)) = r
    BY <1>7, <1>8, DropFront
  <2> QED BY <1>3, <1>7, <1>8, <2>1
<1>14. /\ m \in Nat \ {0} /\ rd.type \in {"data", "alert"}
       /\ \A i \in 1 .. m : d[i].cell = rd.type
       /\ rd.type = "alert" => m = 2
  <2>1. /\ All[1].of \in {"data", "alert"} /\ All[2].of \in Nat \ {0}
        /\ \A k \in 1 .. All[2].of : All[2 + k].cell = All[1].of
        /\ All[1].of = "alert" => All[2].of = 2
    BY <1>12, FirstRecord
  <2>2. \A i \in 1 .. m : 2 + i \in 1 .. 2 + m
    BY <1>3
  <2> QED BY <1>9, <1>12, <2>1, <2>2
<1>15. AreRecords(r)
  BY <1>12, <1>13, RestOfRecords
<1>16. Had = Len(got) /\ Len(got) \in Nat /\ Had <= last /\ last <= MaxTold /\ HasBytes(All, Had, last)
  <2>1. Len(<<>>) = 0 /\ Len(got) \in Nat
    BY Fields
  <2> QED BY <1>2, <2>1 DEF StreamOk, Had
<1>17. /\ rd.type = "alert" => HasBytes(r, Had, last)
       /\ rd.type = "data" => /\ \A i \in 1 .. m : d[i].of = Len(got) + i
                              /\ Had + m <= last /\ HasBytes(r, Had + m, last)
  <2>1. /\ All[1].of = "alert" => HasBytes(Dropping(All, 2 + m), Had, last)
        /\ All[1].of = "data" => /\ \A k \in 1 .. All[2].of : All[2 + k].of = Had + k
                                 /\ Had + All[2].of <= last
                                 /\ HasBytes(Dropping(All, 2 + m), Had + All[2].of, last)
    BY <1>12, <1>13, <1>16, RestOfBytes
  <2>2. \A i \in 1 .. m : 2 + i \in 1 .. 2 + m
    BY <1>3
  <2> QED BY <1>9, <1>12, <1>13, <1>16, <2>1, <2>2
<1>18. ReaderOk'
  <2>1. Len(d) \in Nat
    BY <1>9, <1>14
  <2> QED BY <1>1, <1>2, <1>9, <1>10, <1>14, <1>17 DEF ReaderOk
<1>19. Had' = IF rd.type = "data" THEN Had + m ELSE Had
  BY <1>1, <1>9, <1>10, <1>16 DEF Had
<1>20. Had' <= last /\ HasBytes(r, Had', last)
  BY <1>14, <1>16, <1>17, <1>19
<1>21. CloseOk(last) /\ WriterOk(last)
  BY DEF StreamOk
<1>22. /\ CloseIsLast(r) /\ (HasClose(r) => HasClose(All)) /\ (HasData(r) => HasData(All))
       /\ \A i \in 1 .. 2 + m : IsClose(All[i]) => ~HasData(r)
  <2>1. CloseIsLast(All)
    BY <1>21 DEF CloseOk
  <2> QED BY <1>12, <1>13, <2>1, RestOfClose
<1>23. Ended' => ~HasData(r) /\ HasClose(All)
  <2> HAVE Ended'
  <2>1. HasClose(d)
    <3>1. HasClose(rd.data)' => HasClose(rd'.data)
      BY DEF HasClose
    <3> QED BY <1>10, <3>1 DEF Ended
  <2>2. PICK i \in 1 .. m : IsClose(d[i])
    BY <1>9, <2>1 DEF HasClose
  <2>3. 2 + i \in 1 .. 2 + m /\ 2 + i \in 1 .. Len(All)
    BY <1>3, <1>12, <1>13
  <2>4. All[2 + i] = d[i]
    BY <1>9, <1>12, <2>3
  <2> QED BY <1>22, <2>2, <2>3, <2>4 DEF HasClose
<1>24. WriterOk(last)'
  BY <1>1, <1>21 DEF WriterOk, Writing, Committed
<1>25. CloseOk(last)'
  <2>1. /\ HasClose(All)' => HasClose(r)
        /\ HasData(All)' => HasData(r)
    BY <1>11 DEF HasClose, HasData
  <2>2. CloseIsLast(All)'
    BY <1>11, <1>22 DEF CloseIsLast
  <2>3. HasClose(All) => wr.sent /\ last = told
    BY <1>21 DEF CloseOk
  <2>4. Ended' => ~HasData(All)'
    BY <1>23, <2>1
  <2>5. HasClose(All)' \/ Ended' => wr'.sent /\ last = told'
    BY <1>1, <1>22, <1>23, <2>1, <2>3
  <2> QED BY <2>2, <2>4, <2>5 DEF CloseOk
<1>26. AreRecords(All)' /\ HasBytes(All, Had, last)'
  <2>1. AreRecords(All') /\ HasBytes(All', Had', last)
    BY <1>11, <1>15, <1>20
  <2> QED BY <2>1
<1>27. StreamTypes'
  BY <1>1, <1>10 DEF StreamTypes
<1> QED BY <1>16, <1>18, <1>20, <1>24, <1>25, <1>26, <1>27 DEF StreamOk
(* Bytes are given to the caller, or shown to it                             *)
LEMMA StepGiveData ==
  ASSUME StreamTypes, NEW last \in Nat, StreamOk(last), GiveData
  PROVE  StreamTypes' /\ StreamOk(last)'
<1>1. /\ rcall.at = "start" /\ ~rd.body /\ rd.type = "data" /\ rcall' = NotCalled
      /\ UNCHANGED <<opts, told, wr, wcall, wire>>
  BY DEF GiveData, NeedsRecord, writerVars
<1>2. /\ \A i \in 1 .. Len(got) : got[i] = i
      /\ rd.fragment = <<>> /\ rd.packet = <<>> /\ ~rd.received
      /\ \A i \in 1 .. Len(rd.data) : rd.data[i].cell = "data" /\ rd.data[i].of = Len(got) + i
  BY <1>1 DEF StreamOk, ReaderOk
<1>3. rcall.len \in Nat /\ rcall.peek \in BOOLEAN
  BY <1>1, ReadFields
<1>4. rd.data \in CellSeq /\ Len(rd.data) \in Nat /\ got \in Seq(Nat) /\ Len(got) \in Nat
  BY Fields DEF StreamTypes
<1> DEFINE n == LesserOf(rcall.len, Len(rd.data))
           d == Dropping(rd.data, n)
           w == [i \in 1 .. n |-> rd.data[i].of]
<1>5. n \in 0 .. Len(rd.data) /\ n \in Nat
  BY <1>3, <1>4 DEF LesserOf
<1>6. d \in CellSeq /\ Len(d) = Len(rd.data) - n /\ \A i \in 1 .. Len(rd.data) - n : d[i] = rd.data[n + i]
  BY <1>4, <1>5, Parted
<1>7. rcall' \in ReadCalls /\ NotCalled.at = "none"
  BY <1>1 DEF ReadCalls, NotCalled
<1>8. CASE rcall.peek
  <2>1. rd' = [rd EXCEPT !.data = rd.data] /\ got' = got
    BY <1>8 DEF GiveData, LeftAfter
  <2>2. rd' = rd
    BY <2>1 DEF StreamTypes, ReaderRecords
  <2>3. ReaderOk'
    BY <1>1, <1>2, <2>1, <2>2 DEF StreamOk, ReaderOk
  <2>4. All' = All /\ Had' = Had /\ (Ended' => Ended)
    BY <1>1, <2>1, <2>2 DEF All, Had, Ended
  <2> QED BY <1>1, <1>7, <2>1, <2>2, <2>3, <2>4, ReaderAlone DEF StreamTypes
<1>9. CASE ~rcall.peek
  <2>1. rd' = [rd EXCEPT !.data = d] /\ got' = got \o w
    BY <1>9 DEF GiveData, LeftAfter
  <2>2. w \in Seq(Nat) /\ Len(w) = n /\ \A i \in 1 .. n : w[i] = Len(got) + i
    <3> HIDE DEF n
    <3>1. \A i \in 1 .. n : i \in 1 .. Len(rd.data)
      BY <1>4, <1>5
    <3>2. \A i \in 1 .. n : rd.data[i].of \in Nat /\ rd.data[i].of = Len(got) + i
      BY <1>2, <1>4, <3>1
    <3>3. w \in [1 .. n -> Nat]
      BY <3>2
    <3> QED BY <1>5, <3>2, <3>3
  <2> HIDE DEF n, d, w
  <2>3. /\ got' \in Seq(Nat) /\ Len(got') = Len(got) + n
        /\ \A i \in 1 .. Len(got') : got'[i] = i
    <3>1. /\ got \o w \in Seq(Nat) /\ Len(got \o w) = Len(got) + Len(w)
          /\ \A i \in 1 .. Len(got) + Len(w) :
               (got \o w)[i] = IF i <= Len(got) THEN got[i] ELSE w[i - Len(got)]
      BY <1>4, <2>2, ConcatProperties
    <3>2. ASSUME NEW i \in 1 .. Len(got) + n
          PROVE  (got \o w)[i] = i
      <4>1. CASE i <= Len(got)
        BY <1>2, <1>4, <1>5, <2>2, <3>1, <4>1
      <4>2. CASE i > Len(got)
        <5>1. i - Len(got) \in 1 .. n /\ Len(got) + (i - Len(got)) = i /\ ~(i <= Len(got))
          BY <1>4, <1>5, <4>2
        <5> QED BY <2>2, <3>1, <5>1
      <4>3. i <= Len(got) \/ i > Len(got)
        BY <1>4, <1>5
      <4> QED BY <4>1, <4>2, <4>3
    <3> QED BY <2>1, <2>2, <3>1, <3>2
  <2>4. /\ rd' \in ReaderRecords /\ rd'.packet = rd.packet /\ rd'.left = rd.left /\ rd'.body = rd.body
        /\ rd'.type = rd.type /\ rd'.data = d /\ rd'.fragment = rd.fragment
        /\ rd'.received = rd.received
    BY <1>6, <2>1 DEF StreamTypes, ReaderRecords
  <2>5. All' = All
    BY <1>1, <2>4 DEF All
  <2>6. Had' = Had /\ ~Ended'
    <3>1. Had' = Len(got') + Len(d) /\ Had = Len(got) + Len(rd.data)
      BY <1>1, <2>4 DEF Had
    <3>2. \A g \in Nat, k \in Nat, l \in Nat : (g + k) + (l - k) = g + l
      OBVIOUS
    <3>3. Had' = (Len(got) + n) + (Len(rd.data) - n)
      BY <1>6, <2>3, <3>1
    <3>4. Had' = Had
      BY <1>4, <1>5, <3>1, <3>2, <3>3
    <3> QED BY <1>1, <1>2, <2>4, <3>4 DEF Ended
  <2>7. \A i \in 1 .. Len(d) : d[i].cell = "data" /\ d[i].of = Len(got') + i
    <3> TAKE i \in 1 .. Len(d)
    <3>1. i \in 1 .. Len(rd.data) - n /\ n + i \in 1 .. Len(rd.data)
          /\ Len(got) + (n + i) = (Len(got) + n) + i
      BY <1>4, <1>5, <1>6
    <3>2. d[i] = rd.data[n + i]
      BY <1>6, <3>1
    <3>3. rd.data[n + i].cell = "data" /\ rd.data[n + i].of = Len(got) + (n + i)
      BY <1>2, <3>1
    <3>4. Len(got') + i = Len(got) + (n + i)
      BY <2>3, <3>1
    <3> QED BY <3>2, <3>3, <3>4
  <2>8. ReaderOk'
    BY <1>1, <1>2, <2>3, <2>4, <2>7 DEF ReaderOk
  <2>9. StreamTypes'
    BY <1>1, <1>7, <2>3, <2>4 DEF StreamTypes
  <2> QED BY <1>1, <2>5, <2>6, <2>8, <2>9, ReaderAlone
<1> QED BY <1>3, <1>8, <1>9

(* An alert is taken: it ends the stream only if it says so                  *)
LEMMA StepTakeAlert ==
  ASSUME StreamTypes, NEW last \in Nat, StreamOk(last), TakeAlert
  PROVE  StreamTypes' /\ StreamOk(last)'
<1>1. /\ rcall.at = "start" /\ ~rd.body /\ rd.data # <<>> /\ rd.type = "alert"
      /\ UNCHANGED <<opts, told, wr, wcall, wire, got>>
  BY DEF TakeAlert, NeedsRecord, writerVars
<1>2. /\ \A i \in 1 .. Len(got) : got[i] = i
      /\ rd.fragment = <<>> /\ rd.packet = <<>>
      /\ Len(rd.data) \in {0, 2} /\ \A i \in 1 .. Len(rd.data) : rd.data[i].cell = "alert"
  BY <1>1 DEF StreamOk, ReaderOk
<1>3. rd.data \in CellSeq /\ Len(rd.data) = 2
  <2>1. rd.data \in CellSeq
    BY Fields
  <2> QED BY <1>1, <1>2, <2>1, EmptySeq DEF CellSeq
<1> DEFINE s == SubSeq(rd.data, 1, 2)
           d == Dropping(rd.data, 2)
<1>4. /\ s \in CellSeq /\ Len(s) = 2 /\ s[2] = rd.data[2] /\ d \in CellSeq /\ Len(d) = 0
  <2>1. rd.data \in CellSeq /\ 2 \in 0 .. Len(rd.data) /\ 2 \in 1 .. 2 /\ Len(rd.data) - 2 = 0
    BY <1>3
  <2>2. s \in CellSeq /\ Len(s) = 2 /\ \A i \in 1 .. 2 : s[i] = rd.data[i]
    BY <2>1, Parted
  <2>3. d \in CellSeq /\ Len(d) = Len(rd.data) - 2
    BY <2>1, Parted
  <2> QED BY <2>1, <2>2, <2>3
<1>5. LesserOf(2 - Len(rd.fragment), Len(rd.data)) = 2
  <2>1. Len(rd.fragment) = 0
    BY <1>2
  <2> QED BY <1>3, <2>1 DEF LesserOf
<1>6. rd.fragment \o SubSeq(rd.data, 1, LesserOf(2 - Len(rd.fragment), Len(rd.data))) = s
  <2> HIDE DEF s
  <2>1. <<>> \o s = s
    BY <1>4, ConcatEmptySeq DEF CellSeq
  <2> QED BY <1>2, <1>5, <2>1 DEF s
<1>7. Dropping(rd.data, LesserOf(2 - Len(rd.fragment), Len(rd.data))) = d
  BY <1>5
<1> HIDE DEF s, d
<1>8. /\ rcall' = NotCalled
      /\ rd' = [[rd EXCEPT !.data = d, !.fragment = s] EXCEPT !.fragment = <<>>,
                  !.received = s[2].of = "close_notify", !.failed = s[2].of = "no_renegotiation"]
  <2>1. IF Len(s) < 2
        THEN rd' = [rd EXCEPT !.data = d, !.fragment = s] /\ UNCHANGED rcall
        ELSE /\ rd' = [[rd EXCEPT !.data = d, !.fragment = s] EXCEPT !.fragment = <<>>,
                        !.received = s[2].of = "close_notify", !.failed = s[2].of = "no_renegotiation"]
             /\ rcall' = NotCalled
    BY <1>6, <1>7, Zenon DEF TakeAlert
  <2>2. ~(Len(s) < 2)
    BY <1>4
  <2> QED BY <2>1, <2>2
<1> DEFINE rec == s[2].of = "close_notify"
           fail == s[2].of = "no_renegotiation"
<1>9. rec \in BOOLEAN /\ fail \in BOOLEAN
  OBVIOUS
<1>10. rd' = [[rd EXCEPT !.data = d, !.fragment = s] EXCEPT !.fragment = <<>>,
                  !.received = rec, !.failed = fail]
  BY <1>8
<1>11. rec => IsClose(rd.data[2])
  BY <1>2, <1>3, <1>4 DEF IsClose
<1> HIDE DEF rec, fail
<1>12. /\ rd' \in ReaderRecords /\ rd'.packet = rd.packet /\ rd'.left = rd.left /\ rd'.body = rd.body
       /\ rd'.type = rd.type /\ rd'.data = d /\ rd'.fragment = <<>>
       /\ rd'.received = rec
  <2>1. rd \in ReaderRecords /\ <<>> \in CellSeq
    BY DEF StreamTypes, CellSeq
  <2>2. rd' = [rd EXCEPT !.data = d, !.fragment = <<>>, !.received = rec, !.failed = fail]
    BY <1>10, <2>1 DEF ReaderRecords
  <2> QED BY <1>4, <1>9, <2>1, <2>2 DEF ReaderRecords
<1>13. rcall' \in ReadCalls
  BY <1>8 DEF ReadCalls
<1>14. ReaderOk'
  <2>1. 1 .. Len(d) = {}
    BY <1>4
  <2> QED BY <1>1, <1>2, <1>4, <1>8, <1>12, <2>1 DEF ReaderOk
<1>15. All' = All /\ Had' = Had
  BY <1>1, <1>12 DEF All, Had
<1>16. Ended' => Ended
  <2> HAVE Ended'
  <2>1. ~HasClose(d)
    BY <1>4 DEF HasClose
  <2>2. HasClose(rd.data)' => HasClose(rd'.data)
    BY DEF HasClose
  <2>3. rec
    BY <1>12, <2>1, <2>2 DEF Ended
  <2>4. 2 \in 1 .. Len(rd.data)
    BY <1>3
  <2> QED BY <1>1, <1>11, <2>3, <2>4 DEF Ended, HasClose
<1>17. StreamTypes'
  BY <1>1, <1>12, <1>13 DEF StreamTypes
<1> QED BY <1>1, <1>14, <1>15, <1>16, <1>17, ReaderAlone
-----------------------------------------------------------------------------
(* The invariant holds, and says what StreamIsWhole says.                    *)
LEMMA StreamStarts == StreamInit => StreamInv
<1> SUFFICES ASSUME StreamInit PROVE StreamInv
  OBVIOUS
<1>1. /\ opts \in StreamOptions /\ told = 0 /\ wire = <<>> /\ got = <<>>
      /\ wr = [wnum |-> 0, left |-> <<>>, pend |-> NothingPending, split |-> FALSE,
              alert |-> "none", dispatch |-> FALSE, sent |-> FALSE,
              failed |-> FALSE, alerts |-> 0]
      /\ wcall = NotCalled
      /\ rd = [packet |-> <<>>, left |-> <<>>, body |-> FALSE, type |-> "none",
              length |-> 0, data |-> <<>>, fragment |-> <<>>, received |-> FALSE,
              failed |-> FALSE]
      /\ rcall = NotCalled
  BY DEF StreamInit
<1>2. <<>> \in CellSeq /\ <<>> \in Seq(Nat) /\ Len(<<>>) = 0
  BY DEF CellSeq
<1>3. StreamTypes
  <2>1. wr \in WriterRecords
    BY <1>1, <1>2 DEF WriterRecords, NothingPending
  <2>2. rd \in ReaderRecords
    BY <1>1, <1>2 DEF ReaderRecords
  <2> QED BY <1>1, <1>2, <2>1, <2>2 DEF StreamTypes, WriteCalls, ReadCalls
<1>4. All = <<>> /\ Had = 0
  <2>1. <<>> \o <<>> = <<>>
    BY <1>2, ConcatEmptySeq
  <2> QED BY <1>1, <1>2, <2>1 DEF All, Had
<1>5. ReaderOk
  BY <1>1, <1>2 DEF ReaderOk
<1>6. WriterOk(0)
  <2>1. wcall.at = "none" /\ ~Writing
    BY <1>1 DEF NotCalled, Writing
  <2>2. Committed = 0
    BY <1>1, <2>1 DEF Committed
  <2> QED BY <1>1, <2>1, <2>2, Bounds DEF WriterOk
<1>7. AreRecords(<<>>) /\ HasBytes(<<>>, 0, 0) /\ CloseIsLast(<<>>) /\ ~HasClose(<<>>)
  BY <1>2 DEF AreRecords, HasBytes, CloseIsLast, HasClose
<1>8. CloseOk(0)
  BY <1>1, <1>4, <1>7 DEF CloseOk, Ended
<1>9. StreamOk(0)
  BY <1>4, <1>5, <1>6, <1>7, <1>8, Bounds DEF StreamOk
<1> QED BY <1>3, <1>9 DEF StreamInv

LEMMA StreamSteps == StreamInv /\ [StreamNext]_streamVars => StreamInv'
<1> SUFFICES ASSUME StreamInv, [StreamNext]_streamVars PROVE StreamInv'
  OBVIOUS
<1>1. StreamTypes
  BY DEF StreamInv
<1>2. PICK last \in Nat : StreamOk(last)
  BY DEF StreamInv
<1>3. ASSUME NEW n \in 1 .. MaxWrite, NEW moved \in BOOLEAN, SSLWrite(n, moved)
      PROVE  StreamInv'
  <2>1. n \in Nat \ {0}
    OBVIOUS
  <2> QED BY <1>1, <1>2, <1>3, <2>1, StepSSLWrite DEF StreamInv
<1>4. ASSUME NEW n \in 1 .. MaxWrite, NEW peek \in BOOLEAN, SSLRead(n, peek)
      PROVE  StreamInv'
  <2>1. n \in Nat
    OBVIOUS
  <2> QED BY <1>1, <1>2, <1>4, <2>1, StepSSLRead DEF StreamInv
<1>5. CASE WriteRecord
  BY <1>1, <1>2, <1>5, StepWriteRecord DEF StreamInv
<1>6. CASE TransportFull
  BY <1>1, <1>2, <1>6, StepTransportFull DEF StreamInv
<1>7. CASE RefuseRenegotiation
  BY <1>1, <1>2, <1>7, StepRefuseRenegotiation DEF StreamInv
<1>8. CASE SSLShutdown
  BY <1>1, <1>2, <1>8, StepSSLShutdown DEF StreamInv
<1>9. ASSUME NEW k \in 1 .. WireCap, TakesSome(k) \/ TakesRecord(k) \/ TakesAlert(k) \/ ReadN(k)
      PROVE  StreamInv'
  <2>0. k \in Nat
    OBVIOUS
  <2>1. CASE TakesSome(k)
    BY <1>1, <1>2, <2>0, <2>1, StepTakesSome DEF StreamInv
  <2>2. CASE TakesRecord(k)
    BY <1>1, <1>2, <2>0, <2>2, StepTakesRecord DEF StreamInv
  <2>3. CASE TakesAlert(k)
    BY <1>1, <1>2, <2>0, <2>3, StepTakesAlert DEF StreamInv
  <2>4. CASE ReadN(k)
    BY <1>1, <1>2, <2>0, <2>4, StepReadN DEF StreamInv
  <2> QED BY <1>9, <2>1, <2>2, <2>3, <2>4
<1>10. CASE TransportEmpty
  BY <1>1, <1>2, <1>10, StepTransportEmpty DEF StreamInv
<1>11. CASE GetHeader
  BY <1>1, <1>2, <1>11, StepGetHeader DEF StreamInv
<1>12. CASE GetBody
  BY <1>1, <1>2, <1>12, StepGetBody DEF StreamInv
<1>13. CASE GiveData
  BY <1>1, <1>2, <1>13, StepGiveData DEF StreamInv
<1>14. CASE TakeAlert
  BY <1>1, <1>2, <1>14, StepTakeAlert DEF StreamInv
<1>15. CASE UNCHANGED streamVars
  <2>1. UNCHANGED <<opts, told, wr, wcall, wire, rd, rcall, got>>
    BY <1>15 DEF streamVars, writerVars, readerVars
  <2>2. StreamTypes'
    BY <1>1, <2>1 DEF StreamTypes
  <2>3. All' = All /\ Had' = Had /\ (Ended' => Ended)
    BY <2>1 DEF All, Had, Ended
  <2>4. ReaderOk'
    BY <1>2, <2>1 DEF StreamOk, ReaderOk
  <2>5. StreamOk(last)'
    BY <1>2, <2>1, <2>3, <2>4, ReaderAlone
  <2> QED BY <2>2, <2>5 DEF StreamInv
<1> QED
  BY <1>3, <1>4, <1>5, <1>6, <1>7, <1>8, <1>9, <1>10, <1>11, <1>12, <1>13, <1>14, <1>15 DEF StreamNext

(* What is between the two callers, with the record the reader is giving     *)
LEMMA BetweenIs ==
  ASSUME StreamTypes, ReaderOk
  PROVE  /\ rd.body => Between = All
         /\ ~rd.body /\ rd.type = "data" => Between = rd.data \o All
         /\ ~rd.body /\ rd.type # "data" => Between = All
         /\ (IF rd.body THEN rd.packet ELSE <<>>) \o rd.left \o wire \o wr.left = All
<1>1. ~rd.body => rd.packet = <<>>
  BY DEF ReaderOk
<1>2. ~rd.body /\ rd.type = "data" => Between = rd.data \o All
  <2> HAVE ~rd.body /\ rd.type = "data"
  <2>1. Between = rd.data \o rd.left \o wire \o wr.left
    BY DEF Between
  <2>2. rd.data \in CellSeq /\ rd.left \in CellSeq /\ wire \in CellSeq /\ wr.left \in CellSeq
    BY Fields
  <2>3. FourParts(rd.data, rd.left, wire, wr.left) = TwoParts(rd.data, ThreeParts(rd.left, wire, wr.left))
    BY <2>2, FourJoined
  <2>4. <<>> \o rd.left = rd.left
    BY <2>2, ConcatEmptySeq DEF CellSeq
  <2>5. All = rd.left \o wire \o wr.left
    BY <1>1, <2>4 DEF All
  <2> QED BY <2>1, <2>3, <2>5 DEF FourParts, ThreeParts, TwoParts
<1>3. rd.body => Between = All
  BY DEF Between, All
<1>4. ~rd.body /\ rd.type # "data" => Between = All
  BY <1>1 DEF Between, All
<1>5. (IF rd.body THEN rd.packet ELSE <<>>) \o rd.left \o wire \o wr.left = All
  BY <1>1 DEF All
<1> QED BY <1>2, <1>3, <1>4, <1>5

LEMMA InvIsIntact == StreamInv => StreamIsIntact
<1> SUFFICES ASSUME StreamInv PROVE StreamIsIntact
  OBVIOUS
<1>1. PICK last \in Nat : StreamOk(last)
  BY DEF StreamInv
<1>2. StreamTypes /\ ReaderOk
  BY <1>1 DEF StreamInv, StreamOk
<1>3. /\ Len(got) \in Nat /\ Had \in Nat /\ All \in CellSeq /\ rd.data \in CellSeq
      /\ Len(rd.data) \in Nat /\ DOMAIN got = 1 .. Len(got)
  BY <1>2, Fields, LenProperties DEF StreamTypes
<1>4. /\ Had <= last /\ last <= MaxTold /\ HasBytes(All, Had, last) /\ (~wr.failed => last = Committed)
  BY <1>1 DEF StreamOk, WriterOk
<1>5. \A i \in DOMAIN got : got[i] = i
  BY <1>2, <1>3 DEF ReaderOk
<1>6. Len(got) <= Had
  BY <1>3 DEF Had
<1>7. Between \in CellSeq /\ HasBytes(Between, Len(got), last)
  <2>1. CASE ~rd.body /\ rd.type = "data"
    <3>1. Between = rd.data \o All /\ Had = Len(got) + Len(rd.data)
      BY <1>2, <2>1, BetweenIs DEF Had
    <3>2. \A i \in 1 .. Len(rd.data) : rd.data[i].cell = "data" /\ rd.data[i].of = Len(got) + i
      BY <1>2, <2>1 DEF ReaderOk
    <3>3. HasBytes(rd.data, Len(got), Had)
      <4>1. \A i \in 1 .. Len(rd.data) : Len(got) + i \in Len(got) + 1 .. Had
        BY <1>3, <3>1
      <4>2. \A v \in Len(got) + 1 .. Had : v - Len(got) \in 1 .. Len(rd.data) /\ Len(got) + (v - Len(got)) = v
        BY <1>3, <3>1
      <4>3. \A i, j \in 1 .. Len(rd.data) : i < j => Len(got) + i < Len(got) + j
        BY <1>3
      <4>4. \A v \in Len(got) + 1 .. Had : \E i \in 1 .. Len(rd.data) : rd.data[i].cell = "data" /\ rd.data[i].of = v
        BY <3>2, <4>2
      <4>5. \A i \in 1 .. Len(rd.data) : rd.data[i].cell = "data" => rd.data[i].of \in Len(got) + 1 .. Had
        BY <3>2, <4>1
      <4>6. \A i, j \in 1 .. Len(rd.data) : i < j => rd.data[i].of < rd.data[j].of
        BY <3>2, <4>3
      <4> QED BY <4>4, <4>5, <4>6 DEF HasBytes
    <3>4. HasBytes(rd.data \o All, Len(got), last) /\ rd.data \o All \in CellSeq
      BY <1>3, <1>4, <1>6, <3>3, BytesJoin, Joined
    <3> QED BY <3>1, <3>4
  <2>2. CASE rd.body
    <3>1. rd.data = <<>>
      BY <1>2, <2>2 DEF ReaderOk
    <3>2. Len(<<>>) = 0
      OBVIOUS
    <3>3. Had = Len(got)
      BY <1>3, <3>1, <3>2 DEF Had
    <3> QED BY <1>2, <1>3, <1>4, <2>2, <3>3, BetweenIs
  <2>3. CASE ~rd.body /\ rd.type # "data"
    <3>1. Had = Len(got)
      BY <1>3, <2>3 DEF Had
    <3> QED BY <1>2, <1>3, <1>4, <2>3, <3>1, BetweenIs
  <2> QED BY <2>1, <2>2, <2>3
<1>8. IsRun(Between, Len(got), last)
  BY <1>3, <1>7, RunIsBytes
<1>9. last \in Len(got) .. MaxTold
  BY <1>3, <1>4, <1>6, Bounds
<1> QED BY <1>4, <1>5, <1>8, <1>9 DEF StreamIsIntact

LEMMA InvIsRecords == StreamInv => WireIsRecords
<1> SUFFICES ASSUME StreamInv PROVE WireIsRecords
  OBVIOUS
<1>1. StreamTypes /\ ReaderOk /\ AreRecords(All)
  BY DEF StreamInv, StreamOk
<1>2. (IF rd.body THEN rd.packet ELSE <<>>) \o rd.left \o wire \o wr.left = All
  BY <1>1, BetweenIs
<1> DEFINE cells == (IF rd.body THEN rd.packet ELSE <<>>) \o rd.left \o wire \o wr.left
           starts == {i \in DOMAIN cells : cells[i].cell = "type"}
           after(i) == i + 2 + cells[i + 1].of
<1>3. cells \in CellSeq /\ AreRecords(cells)
  BY <1>1, <1>2, Fields
<1> HIDE DEF cells
<1>4. DOMAIN cells = 1 .. Len(cells) /\ Len(cells) \in Nat
  BY <1>3, CellsIn
<1>5. cells # <<>> => cells[1].cell = "type"
  BY <1>3 DEF AreRecords
<1>6. ASSUME NEW i \in starts
      PROVE  /\ i < Len(cells) /\ cells[i + 1].cell = "length"
             /\ after(i) = Len(cells) + 1 \/ after(i) \in starts
             /\ \A j \in i + 2 .. after(i) - 1 : cells[j].cell = cells[i].of
  <2>1. i \in 1 .. Len(cells) /\ cells[i].cell = "type"
    BY <1>4
  <2>2. RecordAt(cells, i) /\ (EndsAt(cells, i) < Len(cells) => cells[EndsAt(cells, i) + 1].cell = "type")
    BY <1>3, <2>1 DEF AreRecords
  <2>3. PICK n \in Nat \ {0} : n = cells[i + 1].of
    BY <2>2 DEF RecordAt
  <2>4. /\ i + 1 <= Len(cells) /\ cells[i + 1].cell = "length" /\ i + 1 + n <= Len(cells)
        /\ \A k \in 1 .. n : cells[i + 1 + k].cell = cells[i].of
    BY <2>2, <2>3 DEF RecordAt
  <2>5. EndsAt(cells, i) = i + 1 + n /\ after(i) = i + 2 + n
    BY <2>3 DEF EndsAt
  <2>6. after(i) = EndsAt(cells, i) + 1
    BY <2>1, <2>5
  <2>7. after(i) = Len(cells) + 1 \/ after(i) \in starts
    <3>1. CASE EndsAt(cells, i) = Len(cells)
      BY <2>6, <3>1
    <3>2. CASE EndsAt(cells, i) < Len(cells)
      <4>1. after(i) \in 1 .. Len(cells)
        BY <1>4, <2>1, <2>5, <2>6, <3>2
      <4> HIDE DEF after
      <4> QED BY <1>4, <2>2, <2>6, <3>2, <4>1
    <3> QED BY <1>4, <2>1, <2>4, <2>5, <3>1, <3>2
  <2>8. \A j \in i + 2 .. after(i) - 1 : cells[j].cell = cells[i].of
    <3> TAKE j \in i + 2 .. after(i) - 1
    <3>1. j - (i + 1) \in 1 .. n /\ i + 1 + (j - (i + 1)) = j
      <4>1. j \in i + 2 .. (i + 2 + n) - 1
        BY <2>5
      <4> QED BY <2>1, <4>1, SMTT(40)
    <3> QED BY <2>4, <3>1
  <2> QED BY <1>4, <2>1, <2>4, <2>7, <2>8
<1> QED BY <1>5, <1>6 DEF WireIsRecords, cells

LEMMA InvIsEnd == StreamInv => EndIsTheEnd
<1> SUFFICES ASSUME StreamInv, rd.received PROVE wr.sent /\ Len(got) = told
  BY DEF EndIsTheEnd
<1>1. PICK last \in Nat : StreamOk(last)
  BY DEF StreamInv
<1>2. StreamTypes /\ ReaderOk /\ Had <= last /\ HasBytes(All, Had, last) /\ CloseOk(last)
  BY <1>1 DEF StreamInv, StreamOk
<1>3. wr.sent /\ last = told /\ ~HasData(All)
  BY <1>2 DEF CloseOk, Ended
<1>4. Had = Len(got) /\ Had \in Nat
  <2>1. rd.type = "alert"
    BY <1>2 DEF ReaderOk
  <2> QED BY <1>2, <2>1, Fields DEF Had
<1>5. Had = last
  <2>1. CASE Had < last
    <3>1. last \in Had + 1 .. last
      BY <1>4, <2>1
    <3> QED BY <1>2, <1>3, <3>1 DEF HasBytes, HasData
  <2> QED BY <1>2, <1>4, <2>1
<1> QED BY <1>3, <1>4, <1>5

(* Every byte SSL_write took reaches SSL_read once and in its place, in      *)
(* whole records, and the stream ends where SSL_shutdown ended it, however   *)
(* the transport cuts it and wherever a call is interrupted (s3_pkt.c).      *)
THEOREM StreamArrivesWhole == StreamSpec => []StreamIsWhole
<1>1. StreamInv => StreamIsWhole
  BY InvIsIntact, InvIsRecords, InvIsEnd DEF StreamIsWhole
<1> QED
  BY StreamStarts, StreamSteps, <1>1, PTL DEF StreamSpec

------------------------------------------------------------------------------
(* PART 3: THE VERSION OF A CONNECTION                                       *)
-----------------------------------------------------------------------------
(* Versions, and cells that follow one another.                              *)
LEMMA GreatestIs ==
  ASSUME NEW s \in SUBSET Version, s # {}
  PROVE  Greatest(s) \in s /\ \A w \in s : w <= Greatest(s)
<1>1. \E v \in s : \A w \in s : w <= v
  <2>1. s \subseteq 0 .. 3
    BY DEF Version
  <2>2. 3 \in s \/ 2 \in s \/ 1 \in s \/ 0 \in s
    <3>1. PICK w \in s : TRUE
      OBVIOUS
    <3>2. w \in 0 .. 3
      BY <2>1
    <3>3. w = 3 \/ w = 2 \/ w = 1 \/ w = 0
      BY <3>2
    <3> QED BY <3>3
  <2>3. CASE 3 \in s
    BY <2>1, <2>3
  <2>4. CASE 3 \notin s /\ 2 \in s
    BY <2>1, <2>4
  <2>5. CASE 3 \notin s /\ 2 \notin s /\ 1 \in s
    BY <2>1, <2>5
  <2>6. CASE 3 \notin s /\ 2 \notin s /\ 1 \notin s /\ 0 \in s
    BY <2>1, <2>6
  <2> QED BY <2>2, <2>3, <2>4, <2>5, <2>6
<1> QED
  BY <1>1 DEF Greatest

LEMMA GreatestUnique ==
  ASSUME NEW s \in SUBSET Version, NEW v \in s, \A w \in s : w <= v
  PROVE  Greatest(s) = v
<1>1. Greatest(s) \in s /\ \A w \in s : w <= Greatest(s)
  BY GreatestIs
<1>2. s \subseteq 0 .. 3
  BY DEF Version
<1>3. Greatest(s) \in 0 .. 3 /\ v \in 0 .. 3 /\ v <= Greatest(s) /\ Greatest(s) <= v
  BY <1>1, <1>2
<1> QED BY <1>3

LEMMA LeastIs ==
  ASSUME NEW s \in SUBSET Version, s # {}
  PROVE  \E v \in s : \A w \in s : v <= w
<1>1. s \subseteq 0 .. 3
  BY DEF Version
<1>2. 0 \in s \/ 1 \in s \/ 2 \in s \/ 3 \in s
  <2>1. PICK w \in s : TRUE
    OBVIOUS
  <2>2. w \in 0 .. 3
    BY <1>1
  <2>3. w = 0 \/ w = 1 \/ w = 2 \/ w = 3
    BY <2>2
  <2> QED BY <2>3
<1>3. CASE 0 \in s
  BY <1>1, <1>3
<1>4. CASE 0 \notin s /\ 1 \in s
  BY <1>1, <1>4
<1>5. CASE 0 \notin s /\ 1 \notin s /\ 2 \in s
  BY <1>1, <1>5
<1>6. CASE 0 \notin s /\ 1 \notin s /\ 2 \notin s /\ 3 \in s
  BY <1>1, <1>6
<1> QED BY <1>2, <1>3, <1>4, <1>5, <1>6

Run(i, j) == [k \in 1 .. j - i |-> i + k]

LEMMA RunIs ==
  ASSUME NEW i \in Nat, NEW j \in Nat, i <= j
  PROVE  Run(i, j) \in Seq(Nat) /\ Len(Run(i, j)) = j - i
         /\ \A k \in 1 .. j - i : Run(i, j)[k] = i + k
<1>1. j - i \in Nat
  OBVIOUS
<1>2. Run(i, j) \in [1 .. j - i -> Nat]
  BY DEF Run
<1> QED BY <1>1, <1>2 DEF Run

LEMMA NoRun ==
  ASSUME NEW i \in Nat
  PROVE  Run(i, i) = <<>>
<1>1. Run(i, i) \in Seq(Nat) /\ Len(Run(i, i)) = 0
  BY RunIs
<1> QED BY <1>1, EmptySeq

LEMMA RunsJoin ==
  ASSUME NEW i \in Nat, NEW j \in Nat, NEW k \in Nat, i <= j, j <= k
  PROVE  Run(i, j) \o Run(j, k) = Run(i, k)
<1> DEFINE a == Run(i, j)
           b == Run(j, k)
           c == Run(i, k)
<1>1. a \in Seq(Nat) /\ Len(a) = j - i /\ \A n \in 1 .. j - i : a[n] = i + n
  BY RunIs
<1>2. b \in Seq(Nat) /\ Len(b) = k - j /\ \A n \in 1 .. k - j : b[n] = j + n
  BY RunIs
<1>3. c \in Seq(Nat) /\ Len(c) = k - i /\ \A n \in 1 .. k - i : c[n] = i + n
  <2>1. i <= k
    OBVIOUS
  <2> QED BY <2>1, RunIs
<1> HIDE DEF a, b, c
<1>4. /\ a \o b \in Seq(Nat) /\ Len(a \o b) = Len(a) + Len(b)
      /\ \A n \in 1 .. Len(a) + Len(b) : (a \o b)[n] = IF n <= Len(a) THEN a[n] ELSE b[n - Len(a)]
  BY <1>1, <1>2, ConcatProperties
<1>5. Len(a \o b) = k - i /\ Len(a) + Len(b) = k - i
  BY <1>1, <1>2, <1>4
<1>6. ASSUME NEW n \in 1 .. k - i
      PROVE  (a \o b)[n] = i + n
  <2>1. CASE n <= j - i
    <3>1. n \in 1 .. j - i
      BY <2>1
    <3> QED BY <1>1, <1>4, <1>5, <2>1, <3>1
  <2>2. CASE ~(n <= j - i)
    <3>1. n - (j - i) \in 1 .. k - j /\ j + (n - (j - i)) = i + n
      BY <2>2
    <3> QED BY <1>1, <1>2, <1>4, <1>5, <2>2, <3>1
  <2> QED BY <2>1, <2>2
<1>7. a \o b = c
  <2>1. Len(a \o b) = Len(c) /\ \A n \in 1 .. Len(a \o b) : (a \o b)[n] = c[n]
    BY <1>3, <1>5, <1>6
  <2> QED BY <1>3, <1>4, <2>1, SeqEqual
<1> QED BY <1>7 DEF a, b, c

CutOut(s, p, n) == SubSeq(s, p, n)

LEMMA RunCut ==
  ASSUME NEW i \in Nat, NEW j \in Nat, NEW u \in Nat, NEW v \in Nat, i <= u, u <= v, v <= j,
         NEW p, NEW n, p = u - i + 1, n = v - i
  PROVE  CutOut(Run(i, j), p, n) = Run(u, v)
<1> DEFINE a == Run(i, j)
           b == SubSeq(a, p, n)
           c == Run(u, v)
<1>1. a \in Seq(Nat) /\ Len(a) = j - i /\ \A k \in 1 .. j - i : a[k] = i + k
  <2>1. i <= j
    OBVIOUS
  <2> QED BY <2>1, RunIs
<1>2. c \in Seq(Nat) /\ Len(c) = v - u /\ \A k \in 1 .. v - u : c[k] = u + k
  BY RunIs
<1> HIDE DEF a, c
<1>3. p \in Nat /\ n \in Nat /\ n - p + 1 = v - u
  OBVIOUS
<1>4. /\ b \in Seq(Nat) /\ Len(b) = IF p <= n THEN n - p + 1 ELSE 0
      /\ \A k \in 1 .. n - p + 1 : b[k] = a[p + k - 1]
  <2>1. \A k \in p .. n : a[k] \in Nat
    BY <1>1
  <2> QED BY <1>3, <2>1, SubSeqProperties
<1> HIDE DEF b
<1>5. Len(b) = v - u
  BY <1>3, <1>4
<1>6. ASSUME NEW k \in 1 .. v - u
      PROVE  b[k] = u + k
  <2>1. k \in 1 .. n - p + 1 /\ p + k - 1 \in 1 .. j - i /\ i + (p + k - 1) = u + k
    OBVIOUS
  <2> QED BY <1>1, <1>4, <2>1
<1>7. Len(b) = Len(c) /\ \A k \in 1 .. Len(b) : b[k] = c[k]
  BY <1>2, <1>5, <1>6
<1>8. b = c
  BY <1>2, <1>4, <1>7, SeqEqual
<1> QED BY <1>8 DEF a, b, c, CutOut

LEMMA RunParts ==
  ASSUME NEW i \in Nat, NEW j \in Nat, i <= j, NEW k \in Nat, k <= j - i
  PROVE  Prefix(Run(i, j), k) = Run(i, i + k) /\ Rest(Run(i, j), k) = Run(i + k, j)
<1> DEFINE m == i + k
<1>1. m \in Nat /\ i <= m /\ m <= j /\ 1 = i - i + 1 /\ k = m - i /\ k + 1 = m - i + 1
  OBVIOUS
<1> HIDE DEF m
<1>2. CutOut(Run(i, j), 1, k) = Run(i, m)
  BY <1>1, RunCut
<1>3. CutOut(Run(i, j), k + 1, j - i) = Run(m, j)
  BY <1>1, RunCut
<1>4. Len(Run(i, j)) = j - i
  BY RunIs
<1> QED BY <1>2, <1>3, <1>4 DEF Prefix, Rest, m, CutOut

LEMMA CellsAre == ASSUME NEW n \in Nat PROVE Cells(n) = Run(0, n)
<1>1. n - 0 = n /\ \A k \in 1 .. n : 0 + k = k
  OBVIOUS
<1> QED BY <1>1 DEF Cells, Run

(* What is read moves from the wire to the end of what was read.             *)
Joins(s, t) == s \o t

LEMMA Moves ==
  ASSUME NEW i \in Nat, NEW j \in Nat, i <= j, NEW k \in Nat, k <= j - i
  PROVE  /\ Joins(Run(0, i), Prefix(Run(i, j), k)) = Run(0, i + k)
         /\ Rest(Run(i, j), k) = Run(i + k, j)
         /\ i + k \in Nat /\ i + k <= j
<1>1. Prefix(Run(i, j), k) = Run(i, i + k) /\ Rest(Run(i, j), k) = Run(i + k, j)
  BY RunParts
<1>2. Run(0, i) \o Run(i, i + k) = Run(0, i + k)
  <2>1. 0 <= i /\ i <= i + k /\ i + k \in Nat
    OBVIOUS
  <2> QED BY <2>1, RunsJoin
<1>3. i + k \in Nat /\ i + k <= j
  OBVIOUS
<1> QED BY <1>1, <1>2, <1>3 DEF Joins

LEMMA Sent ==
  ASSUME NEW i \in Nat, NEW j \in Nat, i <= j, NEW n \in Nat, NEW l \in Nat, j + n <= l
  PROVE  Joins(Run(i, j), CutOut(Cells(l), j + 1, j + n)) = Run(i, j + n)
<1> DEFINE q == j + n
           p == j + 1
<1>2. 0 \in Nat /\ 0 <= j /\ j <= q /\ q <= l /\ p = j - 0 + 1 /\ q = q - 0 /\ q \in Nat
  OBVIOUS
<1> HIDE DEF q, p, Joins
<1>3. CutOut(Cells(l), p, q) = Run(j, q)
  <2>1. CutOut(Run(0, l), p, q) = Run(j, q)
    BY <1>2, RunCut
  <2> QED BY <2>1, CellsAre
<1>4. Run(i, j) \o Run(j, q) = Run(i, q)
  BY <1>2, RunsJoin
<1> QED BY <1>3, <1>4 DEF q, p, Joins
-----------------------------------------------------------------------------
(* The invariant of the negotiation.                                         *)
Hellos == [old : BOOLEAN, length : Nat, version : Int, fallback : BOOLEAN]
ClientStates == {"write", "read", "handshake", "done", "failed"}
ServerStates == {"sniff", "old", "handshake", "reply", "done", "failed"}
Clients ==
  [on : SUBSET Version, st : ClientStates, off : Nat, packet : Seq(Nat), rbuf : Seq(Nat),
   version : Int, piece : Nat \ {0}]
Servers ==
  [on : SUBSET Version, st : ServerStates, packet : Seq(Nat), rbuf : Seq(Nat), reuse : BOOLEAN,
   version : Int, read : Seq(Nat), digest : Seq(Nat), off : Nat, reply : {"none", "hello", "alert"}]
VersionTypes == hello \in Hellos /\ cl \in Clients /\ sv \in Servers

HelloOk ==
  /\ cl.on # {} /\ sv.on # {} /\ Sniffed <= hello.length
  /\ hello.version = IF hello.old THEN Greatest(cl.on) ELSE HelloVersion(cl.on)

(* The server has taken a cells of the hello.                                *)
ServerOk(a) ==
  /\ a <= cl.off /\ cl.off <= hello.length /\ up = Run(a, cl.off)
  /\ sv.reply = "none" => sv.off = 0 /\ sv.st \in {"sniff", "old", "handshake", "failed"}
  /\ sv.reply # "none" =>
       /\ sv.st \in {"reply", "done", "failed"} /\ a = hello.length
       /\ sv.read = Run(0, hello.length)
       /\ sv.digest = IF hello.old THEN Run(2, hello.length) ELSE Run(0, hello.length)
  /\ sv.st \in {"sniff", "old"} =>
       sv.packet = Run(0, a) /\ ~sv.reuse /\ sv.rbuf = <<>> /\ sv.reply = "none"
  /\ sv.st = "sniff" => a <= Sniffed
  /\ sv.st = "old" => hello.old
  /\ sv.st = "handshake" => sv.packet = <<>>
  /\ sv.st = "handshake" /\ ~sv.reuse => ~hello.old /\ sv.rbuf = Run(0, a)
  /\ sv.st = "handshake" /\ sv.reuse =>
       /\ hello.old /\ a = hello.length
       /\ sv.read = Run(0, hello.length) /\ sv.digest = Run(2, hello.length)

(* The version it has chosen, and why it refuses                             *)
ChoiceOk ==
  /\ sv.st \in {"old", "handshake"} \/ sv.reply # "none" =>
       HasMutual(sv.on, hello.version) /\ sv.version = Greatest(Mutual(sv.on, hello.version))
  /\ sv.reply = "hello" => ~Inappropriate
  /\ sv.reply = "alert" => Inappropriate
  /\ sv.st = "failed" => sv.reply = "alert" \/ ~HasMutual(sv.on, hello.version)

(* The client has taken b cells of the answer.                               *)
ClientOk(b) ==
  /\ b <= sv.off /\ sv.off <= ReplyLength /\ down = Run(b, sv.off)
  /\ cl.st \in {"write", "read"} => cl.packet = Run(0, b) /\ b <= ReplySniffed
  /\ cl.st \in {"handshake", "done"} =>
       /\ cl.rbuf = Run(0, b) /\ sv.reply = "hello"
       /\ cl.version = sv.version /\ sv.version \in cl.on
  /\ cl.st = "done" => b = ReplyLength
  /\ cl.st = "failed" => sv.reply # "none" /\ ~(sv.version \in cl.on /\ sv.reply = "hello")

VersionOk(a, b) == VersionTypes /\ HelloOk /\ ServerOk(a) /\ ChoiceOk /\ ClientOk(b)
VersionInv == \E a, b \in Nat : VersionOk(a, b)

LEMMA ClientFields ==
  ASSUME VersionTypes
  PROVE  /\ cl.on \in SUBSET Version /\ cl.st \in ClientStates /\ cl.off \in Nat
         /\ cl.packet \in Seq(Nat) /\ cl.rbuf \in Seq(Nat) /\ cl.piece \in Nat \ {0}
         /\ hello.length \in Nat /\ hello.old \in BOOLEAN
         /\ sv.off \in Nat /\ sv.reply \in {"none", "hello", "alert"} /\ sv.st \in ServerStates
         /\ sv.reuse \in BOOLEAN /\ sv.on \in SUBSET Version
         /\ sv.packet \in Seq(Nat) /\ sv.rbuf \in Seq(Nat)
BY DEF VersionTypes, Clients, Servers, Hellos

LEMMA NegotiationStarts == VersionInit => VersionInv
<1> SUFFICES ASSUME VersionInit PROVE VersionInv
  OBVIOUS
<1>1. PICK conv \in VersionSets, sonv \in VersionSets, fallback \in BOOLEAN, old \in BOOLEAN,
            n \in OldHelloLengths, p \in Piece :
    /\ conv # {} /\ sonv # {}
    /\ old => ~fallback
    /\ hello = [old |-> old, length |-> IF old THEN n ELSE HelloLength,
                version |-> IF old THEN Greatest(conv) ELSE HelloVersion(conv),
                fallback |-> fallback]
    /\ ~old => n = CHOOSE x \in OldHelloLengths : TRUE
    /\ cl = [on |-> conv, st |-> "write", off |-> 0, packet |-> <<>>, rbuf |-> <<>>,
             version |-> -1, piece |-> p]
    /\ sv = [on |-> sonv, st |-> "sniff", packet |-> <<>>, rbuf |-> <<>>, reuse |-> FALSE,
             version |-> -1, read |-> <<>>, digest |-> <<>>, off |-> 0, reply |-> "none"]
    /\ up = <<>> /\ down = <<>>
  BY DEF VersionInit
<1>2. /\ conv \in SUBSET Version /\ sonv \in SUBSET Version /\ p \in Nat \ {0}
      /\ n \in Nat /\ Sniffed <= n /\ HelloLength \in Nat /\ Sniffed <= HelloLength
  <2>1. Sniffed \in Nat
    BY DEF Sniffed
  <2> QED BY <2>1, VersionAssumption
<1>3. Greatest(conv) \in Int /\ HelloVersion(conv) \in Int
  <2>1. \A s \in SUBSET Version : s # {} => Greatest(s) \in Int
    <3> TAKE s \in SUBSET Version
    <3> HAVE s # {}
    <3>1. Greatest(s) \in Version
      BY GreatestIs
    <3> QED BY <3>1 DEF Version
  <2>2. HelloVersion(conv) \in Int
    <3> DEFINE Holes == {v \in Version : v \notin conv /\ \E w \in conv : w < v}
    <3>1. CASE Holes = {}
      BY <3>1 DEF HelloVersion
    <3>2. CASE Holes # {}
      <4> DEFINE least == CHOOSE v \in Holes : \A w \in Holes : v <= w
      <4>1. \E v \in Holes : \A w \in Holes : v <= w
        BY <3>2, LeastIs
      <4>2. least \in Holes
        BY <4>1
      <4>3. least \in Int
        <5>1. least \in Version
          BY <4>2
        <5>2. 0 .. 3 \subseteq Int
          OBVIOUS
        <5> HIDE DEF least
        <5> QED BY <5>1, <5>2 DEF Version
      <4>4. HelloVersion(conv) = least - 1
        BY <3>2 DEF HelloVersion
      <4> HIDE DEF least
      <4> QED BY <4>3, <4>4
    <3> QED BY <3>1, <3>2
  <2> QED BY <1>1, <1>2, <2>1, <2>2
<1>4. hello.length \in Nat /\ Sniffed <= hello.length /\ hello.version \in Int
  BY <1>1, <1>2, <1>3
<1>5. <<>> \in Seq(Nat) /\ -1 \in Int
  OBVIOUS
<1>6. VersionTypes
  <2>1. hello \in Hellos
    BY <1>1, <1>2, <1>3 DEF Hellos
  <2>2. cl \in Clients
    BY <1>1, <1>2, <1>5 DEF Clients, ClientStates
  <2>3. sv \in Servers
    BY <1>1, <1>2, <1>5 DEF Servers, ServerStates
  <2> QED BY <2>1, <2>2, <2>3 DEF VersionTypes
<1>7. HelloOk
  BY <1>1, <1>4 DEF HelloOk
<1>8. Run(0, 0) = <<>>
  BY NoRun
<1>9. ServerOk(0)
  BY <1>1, <1>4, <1>8 DEF ServerOk, Sniffed
<1>10. ClientOk(0)
  BY <1>1, <1>8 DEF ClientOk, ReplyLength, ReplySniffed
<1>11. ChoiceOk
  BY <1>1 DEF ChoiceOk
<1>12. VersionOk(0, 0)
  BY <1>6, <1>7, <1>9, <1>10, <1>11 DEF VersionOk
<1> QED BY <1>12 DEF VersionInv
LEMMA LesserIs ==
  ASSUME NEW i \in Nat, NEW j \in Nat
  PROVE  Least2(i, j) \in Nat /\ Least2(i, j) <= i /\ Least2(i, j) <= j
BY DEF Least2

LEMMA Numbers == Sniffed = 11 /\ ReplySniffed = 7 /\ ReplyLength = 8
BY DEF Sniffed, ReplySniffed, ReplyLength

(* A step of the client that the server and its end of the wire do not see   *)
LEMMA ClientMoves ==
  ASSUME NEW a \in Nat, NEW b \in Nat, HelloOk, ServerOk(a), ChoiceOk,
         UNCHANGED <<hello, sv, up>>, cl'.on = cl.on, cl'.off = cl.off
  PROVE  HelloOk' /\ ServerOk(a)' /\ ChoiceOk'
<1>1. HelloOk'
  BY DEF HelloOk
<1>2. ServerOk(a)'
  BY DEF ServerOk
<1>3. ChoiceOk'
  BY DEF ChoiceOk, Inappropriate
<1> QED BY <1>1, <1>2, <1>3

(* A step of the server before it answers                                    *)
LEMMA ServerMoves ==
  ASSUME NEW b \in Nat, ClientOk(b), sv.reply = "none", UNCHANGED <<cl, down>>, sv'.off = sv.off
  PROVE  ClientOk(b)'
<1>1. cl.st \notin {"handshake", "done", "failed"}
  BY DEF ClientOk
<1> QED BY <1>1 DEF ClientOk

LEMMA StepWriteHello ==
  ASSUME NEW a \in Nat, NEW b \in Nat, VersionOk(a, b), WriteHello
  PROVE  VersionOk(a, b)'
<1> DEFINE n == Least2(cl.piece, hello.length - cl.off)
           st == IF cl.off + n = hello.length THEN "read" ELSE cl.st
<1>1. /\ cl.st = "write" /\ up' = up \o SubSeq(Cells(hello.length), cl.off + 1, cl.off + n)
      /\ cl' = [cl EXCEPT !.off = @ + n, !.st = IF cl.off + n = hello.length THEN "read" ELSE @]
      /\ UNCHANGED <<hello, sv, down>>
  BY DEF WriteHello
<1>2. VersionTypes /\ HelloOk /\ ServerOk(a) /\ ChoiceOk /\ ClientOk(b)
  BY DEF VersionOk
<1>3. /\ cl.off \in Nat /\ hello.length \in Nat /\ cl.piece \in Nat
      /\ a <= cl.off /\ cl.off <= hello.length /\ up = Run(a, cl.off)
  BY <1>2, ClientFields DEF ServerOk
<1>4. n \in Nat /\ n <= hello.length - cl.off
  <2>1. hello.length - cl.off \in Nat
    BY <1>3
  <2> QED BY <1>3, <2>1, LesserIs
<1>5. st \in {"write", "read"}
  BY <1>1
<1> HIDE DEF n
<1>6. /\ cl' \in Clients /\ cl'.off = cl.off + n /\ cl'.st = st /\ cl'.on = cl.on
      /\ cl'.packet = cl.packet
  <2>1. cl' = [cl EXCEPT !.off = cl.off + n, !.st = st] /\ cl \in Clients
    BY <1>1, <1>2 DEF VersionTypes
  <2>2. st \in ClientStates /\ cl.off + n \in Nat
    BY <1>3, <1>4, <1>5 DEF ClientStates
  <2> HIDE DEF st
  <2> QED BY <2>1, <2>2 DEF Clients
<1>7. up' = Run(a, cl'.off) /\ a <= cl'.off /\ cl'.off <= hello.length
  <2>1. cl.off + n <= hello.length /\ a <= cl.off + n
    BY <1>3, <1>4
  <2>2. Joins(Run(a, cl.off), CutOut(Cells(hello.length), cl.off + 1, cl.off + n)) = Run(a, cl.off + n)
    BY <1>3, <1>4, <2>1, Sent
  <2>3. up' = Run(a, cl.off + n)
    BY <1>1, <1>3, <2>2 DEF Joins, CutOut
  <2> QED BY <1>6, <2>1, <2>3
<1>8. HelloOk'
  BY <1>1, <1>2, <1>6 DEF HelloOk
<1>9. ServerOk(a)'
  BY <1>1, <1>2, <1>7 DEF ServerOk
<1>10. ChoiceOk'
  BY <1>1, <1>2 DEF ChoiceOk, Inappropriate
<1>11. ClientOk(b)'
  <2>1. b <= sv.off /\ sv.off <= ReplyLength /\ down = Run(b, sv.off) /\ cl.packet = Run(0, b) /\ b <= ReplySniffed
    BY <1>1, <1>2 DEF ClientOk
  <2> HIDE DEF st
  <2> QED BY <1>1, <1>5, <1>6, <2>1 DEF ClientOk
<1>12. VersionTypes'
  BY <1>1, <1>2, <1>6 DEF VersionTypes
<1> QED BY <1>8, <1>9, <1>10, <1>11, <1>12 DEF VersionOk

LEMMA StepReadReply ==
  ASSUME NEW a \in Nat, NEW b \in Nat, VersionOk(a, b), ReadReply
  PROVE  \E c \in Nat : VersionOk(a, c)'
<1> DEFINE k == Got(down, cl.packet, ReplySniffed)
<1>1. /\ cl.st = "read" /\ Len(cl.packet) < ReplySniffed
      /\ cl' = [cl EXCEPT !.packet = @ \o Prefix(down, k)] /\ down' = Rest(down, k)
      /\ UNCHANGED <<hello, sv, up>>
  BY DEF ReadReply
<1>2. VersionTypes /\ HelloOk /\ ServerOk(a) /\ ChoiceOk /\ ClientOk(b)
  BY DEF VersionOk
<1>3. /\ b <= sv.off /\ sv.off <= ReplyLength /\ down = Run(b, sv.off) /\ cl.packet = Run(0, b)
      /\ b <= ReplySniffed /\ sv.off \in Nat /\ cl.piece \in Nat
  BY <1>1, <1>2, ClientFields DEF ClientOk
<1>4. Len(cl.packet) = b /\ Len(down) = sv.off - b
  <2>0. 0 \in Nat /\ 0 <= b
    OBVIOUS
  <2>1. Len(Run(0, b)) = b - 0 /\ Len(Run(b, sv.off)) = sv.off - b
    BY <1>3, <2>0, RunIs
  <2> QED BY <1>3, <2>1
<1>5. k \in Nat /\ k <= sv.off - b /\ k <= ReplySniffed - b
  <2>1. ReplySniffed - b \in Nat /\ sv.off - b \in Nat
    BY <1>3, Numbers
  <2>2. k = Least2(Least2(cl.piece, ReplySniffed - b), sv.off - b)
    BY <1>4 DEF Got, Wanted
  <2>3. Least2(cl.piece, ReplySniffed - b) \in Nat /\ Least2(cl.piece, ReplySniffed - b) <= ReplySniffed - b
    BY <1>3, <2>1, LesserIs
  <2> HIDE DEF k
  <2> DEFINE m == Least2(cl.piece, ReplySniffed - b)
  <2>4. m \in Nat /\ m <= ReplySniffed - b /\ k = Least2(m, sv.off - b)
    BY <2>2, <2>3
  <2> HIDE DEF m
  <2>5. k \in Nat /\ k <= m /\ k <= sv.off - b
    BY <2>1, <2>4, LesserIs
  <2> QED BY <2>1, <2>4, <2>5
<1> HIDE DEF k
<1>0. PICK c \in Nat : c = b + k
  BY <1>5
<1>6. Joins(Run(0, b), Prefix(Run(b, sv.off), k)) = Run(0, c) /\ Rest(Run(b, sv.off), k) = Run(c, sv.off)
      /\ c <= sv.off
  BY <1>0, <1>3, <1>5, Moves
<1>7. c <= ReplySniffed
  BY <1>0, <1>3, <1>5, Numbers
<1>8. Run(0, c) \in Seq(Nat)
  BY RunIs
<1>9. cl' = [cl EXCEPT !.packet = Run(0, c)] /\ down' = Run(c, sv.off)
  BY <1>1, <1>3, <1>6 DEF Joins
<1>10. /\ cl' \in Clients /\ cl'.on = cl.on /\ cl'.off = cl.off /\ cl'.st = "read" /\ cl'.packet = Run(0, c)
  BY <1>1, <1>2, <1>8, <1>9 DEF VersionTypes, Clients
<1>11. HelloOk' /\ ServerOk(a)' /\ ChoiceOk'
  BY <1>1, <1>2, <1>10, ClientMoves
<1>12. ClientOk(c)'
  BY <1>1, <1>3, <1>6, <1>7, <1>9, <1>10 DEF ClientOk
<1>13. VersionTypes'
  BY <1>1, <1>2, <1>10 DEF VersionTypes
<1>14. VersionOk(a, c)'
  BY <1>11, <1>12, <1>13 DEF VersionOk
<1> QED BY <1>14

LEMMA StepGetServerHello ==
  ASSUME NEW a \in Nat, NEW b \in Nat, VersionOk(a, b), GetServerHello
  PROVE  VersionOk(a, b)'
<1>1. /\ cl.st = "read" /\ Len(cl.packet) = ReplySniffed
      /\ cl' = IF TakesVersion(cl.on, sv.version) /\ sv.reply = "hello"
               THEN [cl EXCEPT !.st = "handshake", !.version = sv.version,
                               !.rbuf = cl.packet, !.packet = <<>>]
               ELSE [cl EXCEPT !.st = "failed"]
      /\ UNCHANGED <<hello, sv, up, down>>
  BY DEF GetServerHello
<1>2. VersionTypes /\ HelloOk /\ ServerOk(a) /\ ChoiceOk /\ ClientOk(b)
  BY DEF VersionOk
<1>3. /\ b <= sv.off /\ sv.off <= ReplyLength /\ down = Run(b, sv.off) /\ cl.packet = Run(0, b)
      /\ cl.packet \in Seq(Nat) /\ sv.off \in Nat /\ sv.version \in Int
  BY <1>1, <1>2, ClientFields DEF ClientOk, VersionTypes, Servers
<1>4. b = 7 /\ sv.reply # "none"
  <2>0. 0 \in Nat /\ 0 <= b /\ b - 0 = b
    OBVIOUS
  <2>1. Len(Run(0, b)) = b - 0
    BY <2>0, RunIs
  <2>2. b = 7
    BY <1>1, <1>3, <2>0, <2>1, Numbers
  <2>3. sv.off # 0
    BY <1>3, <2>2
  <2> QED BY <1>2, <2>2, <2>3 DEF ServerOk
<1>5. CASE sv.version \in cl.on /\ sv.reply = "hello"
  <2>1. cl' = [cl EXCEPT !.st = "handshake", !.version = sv.version, !.rbuf = cl.packet, !.packet = <<>>]
    BY <1>1, <1>5 DEF TakesVersion
  <2>2. <<>> \in Seq(Nat) /\ "handshake" \in ClientStates
    BY DEF ClientStates
  <2>3. /\ cl' \in Clients /\ cl'.on = cl.on /\ cl'.off = cl.off /\ cl'.st = "handshake"
        /\ cl'.rbuf = cl.packet /\ cl'.version = sv.version
    BY <1>2, <1>3, <2>1, <2>2 DEF VersionTypes, Clients
  <2>4. HelloOk' /\ ServerOk(a)' /\ ChoiceOk'
    BY <1>1, <1>2, <2>3, ClientMoves
  <2>5. ClientOk(b)'
    BY <1>1, <1>3, <1>5, <2>3 DEF ClientOk
  <2>6. VersionTypes'
    BY <1>1, <1>2, <2>3 DEF VersionTypes
  <2> QED BY <2>4, <2>5, <2>6 DEF VersionOk
<1>6. CASE ~(sv.version \in cl.on /\ sv.reply = "hello")
  <2>1. cl' = [cl EXCEPT !.st = "failed"]
    BY <1>1, <1>6 DEF TakesVersion
  <2>2. /\ cl' \in Clients /\ cl'.on = cl.on /\ cl'.off = cl.off /\ cl'.st = "failed"
    BY <1>2, <2>1 DEF VersionTypes, Clients, ClientStates
  <2>3. HelloOk' /\ ServerOk(a)' /\ ChoiceOk'
    BY <1>1, <1>2, <2>2, ClientMoves
  <2>4. ClientOk(b)'
    BY <1>1, <1>3, <1>4, <1>6, <2>2 DEF ClientOk
  <2>5. VersionTypes'
    BY <1>1, <1>2, <2>2 DEF VersionTypes
  <2> QED BY <2>3, <2>4, <2>5 DEF VersionOk
<1> QED BY <1>5, <1>6

LEMMA StepFillReply ==
  ASSUME NEW a \in Nat, NEW b \in Nat, VersionOk(a, b), FillReply
  PROVE  \E c \in Nat : VersionOk(a, c)'
<1> DEFINE k == Least2(cl.piece, Len(down))
           st == IF Len(cl.rbuf) + k = ReplyLength THEN "done" ELSE "handshake"
<1>1. /\ cl.st = "handshake"
      /\ cl' = [cl EXCEPT !.rbuf = @ \o Prefix(down, k), !.st = st] /\ down' = Rest(down, k)
      /\ UNCHANGED <<hello, sv, up>>
  BY DEF FillReply
<1>2. VersionTypes /\ HelloOk /\ ServerOk(a) /\ ChoiceOk /\ ClientOk(b)
  BY DEF VersionOk
<1>3. /\ b <= sv.off /\ sv.off <= ReplyLength /\ down = Run(b, sv.off) /\ cl.rbuf = Run(0, b)
      /\ sv.off \in Nat /\ cl.piece \in Nat
      /\ sv.reply = "hello" /\ cl.version = sv.version /\ sv.version \in cl.on
  BY <1>1, <1>2, ClientFields DEF ClientOk
<1>4. Len(cl.rbuf) = b /\ Len(down) = sv.off - b
  <2>0. 0 \in Nat /\ 0 <= b
    OBVIOUS
  <2>1. Len(Run(0, b)) = b - 0 /\ Len(Run(b, sv.off)) = sv.off - b
    BY <1>3, <2>0, RunIs
  <2> QED BY <1>3, <2>1
<1>5. k \in Nat /\ k <= sv.off - b
  <2>1. sv.off - b \in Nat
    BY <1>3
  <2> QED BY <1>3, <1>4, <2>1, LesserIs
<1>6. st \in {"handshake", "done"} /\ (st = "done" => b + k = ReplyLength)
  BY <1>4
<1> HIDE DEF k, st
<1>0. PICK c \in Nat : c = b + k
  BY <1>5
<1>7. Joins(Run(0, b), Prefix(Run(b, sv.off), k)) = Run(0, c) /\ Rest(Run(b, sv.off), k) = Run(c, sv.off)
      /\ c <= sv.off
  BY <1>0, <1>3, <1>5, Moves
<1>8. st = "done" => c = ReplyLength
  BY <1>0, <1>6
<1>9. Run(0, c) \in Seq(Nat)
  BY RunIs
<1>10. cl' = [cl EXCEPT !.rbuf = Run(0, c), !.st = st] /\ down' = Run(c, sv.off)
  BY <1>1, <1>3, <1>7 DEF Joins
<1>11. /\ cl' \in Clients /\ cl'.on = cl.on /\ cl'.off = cl.off /\ cl'.st = st /\ cl'.rbuf = Run(0, c)
       /\ cl'.version = cl.version
  BY <1>2, <1>6, <1>9, <1>10 DEF VersionTypes, Clients, ClientStates
<1>12. HelloOk' /\ ServerOk(a)' /\ ChoiceOk'
  BY <1>1, <1>2, <1>11, ClientMoves
<1>13. ClientOk(c)'
  BY <1>1, <1>3, <1>6, <1>7, <1>8, <1>10, <1>11 DEF ClientOk
<1>14. VersionTypes'
  BY <1>1, <1>2, <1>11 DEF VersionTypes
<1>15. VersionOk(a, c)'
  BY <1>12, <1>13, <1>14 DEF VersionOk
<1> QED BY <1>15
(* The server reads: what it has taken grows                                 *)
LEMMA StepServerReads ==
  ASSUME NEW a \in Nat, NEW b \in Nat, VersionOk(a, b), ServerReads
  PROVE  \E c \in Nat : VersionOk(c, b)'
<1> DEFINE k == Got(up, sv.packet, ServerWants)
<1>1. /\ sv.st \in {"sniff", "old"}
      /\ sv' = [sv EXCEPT !.packet = @ \o Prefix(up, k)] /\ up' = Rest(up, k)
      /\ UNCHANGED <<hello, cl, down>>
  BY DEF ServerReads
<1>2. VersionTypes /\ HelloOk /\ ServerOk(a) /\ ChoiceOk /\ ClientOk(b)
  BY DEF VersionOk
<1>3. /\ a <= cl.off /\ cl.off <= hello.length /\ up = Run(a, cl.off)
      /\ sv.packet = Run(0, a) /\ ~sv.reuse /\ sv.rbuf = <<>> /\ sv.reply = "none"
      /\ cl.off \in Nat /\ hello.length \in Nat /\ cl.piece \in Nat
      /\ sv.st = "sniff" => a <= Sniffed
  BY <1>1, <1>2, ClientFields DEF ServerOk
<1>4. Len(sv.packet) = a /\ Len(up) = cl.off - a
  <2>0. 0 \in Nat /\ 0 <= a
    OBVIOUS
  <2>1. Len(Run(0, a)) = a - 0 /\ Len(Run(a, cl.off)) = cl.off - a
    BY <1>3, <2>0, RunIs
  <2> QED BY <1>3, <2>1
<1>5. ServerWants \in Nat /\ a <= ServerWants /\ (sv.st = "sniff" => ServerWants = Sniffed)
  BY <1>1, <1>3, Numbers DEF ServerWants
<1>6. k \in Nat /\ k <= cl.off - a /\ k <= ServerWants - a
  <2>1. ServerWants - a \in Nat /\ cl.off - a \in Nat
    BY <1>3, <1>5
  <2>2. k = Least2(Least2(cl.piece, ServerWants - a), cl.off - a)
    BY <1>4 DEF Got, Wanted
  <2>3. Least2(cl.piece, ServerWants - a) \in Nat /\ Least2(cl.piece, ServerWants - a) <= ServerWants - a
    BY <1>3, <2>1, LesserIs
  <2> HIDE DEF k
  <2> DEFINE m == Least2(cl.piece, ServerWants - a)
  <2>4. m \in Nat /\ m <= ServerWants - a /\ k = Least2(m, cl.off - a)
    BY <2>2, <2>3
  <2> HIDE DEF m
  <2>5. k \in Nat /\ k <= m /\ k <= cl.off - a
    BY <2>1, <2>4, LesserIs
  <2> QED BY <2>1, <2>4, <2>5
<1> HIDE DEF k
<1>0. PICK c \in Nat : c = a + k
  BY <1>6
<1>7. Joins(Run(0, a), Prefix(Run(a, cl.off), k)) = Run(0, c) /\ Rest(Run(a, cl.off), k) = Run(c, cl.off)
      /\ c <= cl.off
  BY <1>0, <1>3, <1>6, Moves
<1>8. sv.st = "sniff" => c <= Sniffed
  BY <1>0, <1>5, <1>6
<1>9. Run(0, c) \in Seq(Nat)
  BY RunIs
<1>10. sv' = [sv EXCEPT !.packet = Run(0, c)] /\ up' = Run(c, cl.off)
  BY <1>1, <1>3, <1>7 DEF Joins
<1>11. /\ sv' \in Servers /\ sv'.on = sv.on /\ sv'.st = sv.st /\ sv'.packet = Run(0, c)
       /\ sv'.rbuf = sv.rbuf /\ sv'.reuse = sv.reuse /\ sv'.version = sv.version
       /\ sv'.off = sv.off /\ sv'.reply = sv.reply
  BY <1>2, <1>9, <1>10 DEF VersionTypes, Servers
<1>12. HelloOk'
  BY <1>1, <1>2, <1>11 DEF HelloOk
<1>13. ServerOk(c)'
  <2>1. sv.off = 0 /\ (sv.st = "old" => hello.old)
    BY <1>2, <1>3 DEF ServerOk
  <2> QED BY <1>1, <1>3, <1>7, <1>8, <1>10, <1>11, <2>1 DEF ServerOk
<1>14. ChoiceOk'
  BY <1>1, <1>2, <1>3, <1>11 DEF ChoiceOk
<1>15. ClientOk(b)'
  BY <1>1, <1>2, <1>3, <1>11, ServerMoves
<1>16. VersionTypes'
  BY <1>1, <1>2, <1>11 DEF VersionTypes
<1>17. VersionOk(c, b)'
  BY <1>12, <1>13, <1>14, <1>15, <1>16 DEF VersionOk
<1> QED BY <1>17

(* The server has the first cells of a hello and picks its version           *)
LEMMA MutualIs ==
  ASSUME VersionTypes, HasMutual(sv.on, hello.version)
  PROVE  Greatest(Mutual(sv.on, hello.version)) \in Int
<1>1. Mutual(sv.on, hello.version) \in SUBSET Version /\ Mutual(sv.on, hello.version) # {}
  BY ClientFields DEF Mutual, HasMutual
<1>2. Greatest(Mutual(sv.on, hello.version)) \in Version
  BY <1>1, GreatestIs
<1> QED BY <1>2 DEF Version

LEMMA StepRefuses ==
  ASSUME NEW a \in Nat, NEW b \in Nat, VersionOk(a, b), sv.reply = "none",
         ~HasMutual(sv.on, hello.version), sv' = [sv EXCEPT !.st = "failed"],
         UNCHANGED <<hello, cl, up, down>>
  PROVE  VersionOk(a, b)'
<1>2. VersionTypes /\ HelloOk /\ ServerOk(a) /\ ChoiceOk /\ ClientOk(b)
  BY DEF VersionOk
<1>3. /\ sv' \in Servers /\ sv'.on = sv.on /\ sv'.st = "failed" /\ sv'.off = sv.off /\ sv'.reply = "none"
  BY <1>2 DEF VersionTypes, Servers, ServerStates
<1>4. HelloOk'
  BY <1>2, <1>3 DEF HelloOk
<1>5. ServerOk(a)'
  BY <1>2, <1>3 DEF ServerOk
<1>6. ChoiceOk'
  BY <1>3 DEF ChoiceOk
<1>7. ClientOk(b)'
  BY <1>2, <1>3, ServerMoves
<1> QED BY <1>2, <1>3, <1>4, <1>5, <1>6, <1>7 DEF VersionOk, VersionTypes

LEMMA StepSniffRecord ==
  ASSUME NEW a \in Nat, NEW b \in Nat, VersionOk(a, b), SniffRecord
  PROVE  VersionOk(a, b)'
<1> DEFINE v == Greatest(Mutual(sv.on, hello.version))
<1>1. /\ sv.st = "sniff" /\ ~hello.old
      /\ sv' = IF HasMutual(sv.on, hello.version)
               THEN [sv EXCEPT !.st = "handshake", !.version = v, !.rbuf = sv.packet, !.packet = <<>>]
               ELSE [sv EXCEPT !.st = "failed"]
      /\ UNCHANGED <<hello, cl, up, down>>
  BY DEF SniffRecord
<1>2. VersionTypes /\ HelloOk /\ ServerOk(a) /\ ChoiceOk /\ ClientOk(b)
  BY DEF VersionOk
<1>3. /\ a <= cl.off /\ cl.off <= hello.length /\ up = Run(a, cl.off)
      /\ sv.packet = Run(0, a) /\ ~sv.reuse /\ sv.reply = "none" /\ sv.off = 0 /\ sv.packet \in Seq(Nat)
  BY <1>1, <1>2, ClientFields DEF ServerOk
<1>4. CASE HasMutual(sv.on, hello.version)
  <2>1. v \in Int
    BY <1>2, <1>4, MutualIs
  <2>2. v = Greatest(Mutual(sv.on, hello.version))
    OBVIOUS
  <2> HIDE DEF v
  <2>3. sv' = [sv EXCEPT !.st = "handshake", !.version = v, !.rbuf = sv.packet, !.packet = <<>>]
    BY <1>1, <1>4
  <2>4. <<>> \in Seq(Nat) /\ "handshake" \in ServerStates
    BY DEF ServerStates
  <2>5. /\ sv' \in Servers /\ sv'.on = sv.on /\ sv'.st = "handshake" /\ sv'.packet = <<>>
        /\ sv'.rbuf = sv.packet /\ sv'.reuse = sv.reuse /\ sv'.version = v
        /\ sv'.off = sv.off /\ sv'.reply = sv.reply
    BY <1>2, <1>3, <2>1, <2>3, <2>4 DEF VersionTypes, Servers
  <2>6. HelloOk'
    BY <1>1, <1>2, <2>5 DEF HelloOk
  <2>7. ServerOk(a)'
    BY <1>1, <1>3, <2>5 DEF ServerOk
  <2>8. ChoiceOk'
    BY <1>1, <1>3, <1>4, <2>2, <2>5 DEF ChoiceOk
  <2>9. ClientOk(b)'
    BY <1>1, <1>2, <1>3, <2>5, ServerMoves
  <2> QED BY <1>1, <1>2, <2>5, <2>6, <2>7, <2>8, <2>9 DEF VersionOk, VersionTypes
<1>5. CASE ~HasMutual(sv.on, hello.version)
  BY <1>1, <1>3, <1>5, StepRefuses
<1> QED BY <1>4, <1>5

LEMMA StepSniffOld ==
  ASSUME NEW a \in Nat, NEW b \in Nat, VersionOk(a, b), SniffOld
  PROVE  VersionOk(a, b)'
<1> DEFINE v == Greatest(Mutual(sv.on, hello.version))
<1>1. /\ sv.st = "sniff" /\ hello.old
      /\ sv' = IF HasMutual(sv.on, hello.version)
               THEN [sv EXCEPT !.st = "old", !.version = v]
               ELSE [sv EXCEPT !.st = "failed"]
      /\ UNCHANGED <<hello, cl, up, down>>
  BY DEF SniffOld
<1>2. VersionTypes /\ HelloOk /\ ServerOk(a) /\ ChoiceOk /\ ClientOk(b)
  BY DEF VersionOk
<1>3. /\ a <= cl.off /\ cl.off <= hello.length /\ up = Run(a, cl.off) /\ sv.rbuf = <<>>
      /\ sv.packet = Run(0, a) /\ ~sv.reuse /\ sv.reply = "none" /\ sv.off = 0
  BY <1>1, <1>2 DEF ServerOk
<1>4. CASE HasMutual(sv.on, hello.version)
  <2>1. v \in Int
    BY <1>2, <1>4, MutualIs
  <2>2. v = Greatest(Mutual(sv.on, hello.version))
    OBVIOUS
  <2> HIDE DEF v
  <2>3. sv' = [sv EXCEPT !.st = "old", !.version = v]
    BY <1>1, <1>4
  <2>5. /\ sv' \in Servers /\ sv'.on = sv.on /\ sv'.st = "old" /\ sv'.packet = sv.packet
        /\ sv'.rbuf = sv.rbuf /\ sv'.reuse = sv.reuse /\ sv'.version = v
        /\ sv'.off = sv.off /\ sv'.reply = sv.reply
    BY <1>2, <2>1, <2>3 DEF VersionTypes, Servers, ServerStates
  <2>6. HelloOk'
    BY <1>1, <1>2, <2>5 DEF HelloOk
  <2>7. ServerOk(a)'
    BY <1>1, <1>3, <2>5 DEF ServerOk
  <2>8. ChoiceOk'
    BY <1>1, <1>3, <1>4, <2>2, <2>5 DEF ChoiceOk
  <2>9. ClientOk(b)'
    BY <1>1, <1>2, <1>3, <2>5, ServerMoves
  <2> QED BY <1>1, <1>2, <2>5, <2>6, <2>7, <2>8, <2>9 DEF VersionOk, VersionTypes
<1>5. CASE ~HasMutual(sv.on, hello.version)
  BY <1>1, <1>3, <1>5, StepRefuses
<1> QED BY <1>4, <1>5
(* The whole SSLv2 hello is there: it is digested and rewritten.             *)
LEMMA StepGetOldHello ==
  ASSUME NEW a \in Nat, NEW b \in Nat, VersionOk(a, b), GetOldHello
  PROVE  VersionOk(a, b)'
<1> DEFINE d == OldDigest(sv.packet)
<1>1. /\ sv.st = "old" /\ Len(sv.packet) = hello.length
      /\ sv' = [sv EXCEPT !.st = "handshake", !.reuse = TRUE, !.digest = d,
                          !.read = sv.packet, !.packet = <<>>, !.rbuf = <<>>]
      /\ UNCHANGED <<hello, cl, up, down>>
  BY DEF GetOldHello
<1>2. VersionTypes /\ HelloOk /\ ServerOk(a) /\ ChoiceOk /\ ClientOk(b)
  BY DEF VersionOk
<1>3. /\ a <= cl.off /\ cl.off <= hello.length /\ up = Run(a, cl.off) /\ hello.length \in Nat
      /\ sv.packet = Run(0, a) /\ sv.reply = "none" /\ sv.off = 0 /\ hello.old /\ sv.packet \in Seq(Nat)
  BY <1>1, <1>2, ClientFields DEF ServerOk
<1>4. a = hello.length
  <2>1. 0 \in Nat /\ 0 <= a /\ a - 0 = a
    OBVIOUS
  <2>2. Len(Run(0, a)) = a - 0
    BY <2>1, RunIs
  <2> QED BY <1>1, <1>3, <2>1, <2>2
<1>5. d = Run(2, hello.length) /\ d \in Seq(Nat)
  <2> DEFINE l == hello.length
  <2>1. l \in Nat /\ 2 <= l /\ 0 <= l /\ 2 <= l - 0 /\ 0 + 2 = 2 /\ 0 \in Nat /\ 2 \in Nat
    BY <1>2, <1>3, Numbers DEF HelloOk
  <2>2. d = Rest(Run(0, l), 2)
    BY <1>3, <1>4 DEF OldDigest
  <2> HIDE DEF l, d
  <2>3. Rest(Run(0, l), 2) = Run(0 + 2, l)
    BY <2>1, RunParts
  <2>4. Run(2, l) \in Seq(Nat)
    BY <2>1, RunIs
  <2> QED BY <2>1, <2>2, <2>3, <2>4 DEF l
<1> HIDE DEF d
<1>6. <<>> \in Seq(Nat) /\ "handshake" \in ServerStates
  BY DEF ServerStates
<1>7. /\ sv' \in Servers /\ sv'.on = sv.on /\ sv'.st = "handshake" /\ sv'.packet = <<>>
      /\ sv'.reuse = TRUE /\ sv'.version = sv.version /\ sv'.read = sv.packet /\ sv'.digest = d
      /\ sv'.off = sv.off /\ sv'.reply = sv.reply
  BY <1>1, <1>2, <1>3, <1>5, <1>6 DEF VersionTypes, Servers
<1>8. HelloOk'
  BY <1>1, <1>2, <1>7 DEF HelloOk
<1>9. ServerOk(a)'
  BY <1>1, <1>3, <1>4, <1>5, <1>7 DEF ServerOk
<1>10. ChoiceOk'
  BY <1>1, <1>2, <1>3, <1>7 DEF ChoiceOk
<1>11. ClientOk(b)'
  BY <1>1, <1>2, <1>3, <1>7, ServerMoves
<1> QED BY <1>1, <1>2, <1>7, <1>8, <1>9, <1>10, <1>11 DEF VersionOk, VersionTypes

LEMMA StepFillHello ==
  ASSUME NEW a \in Nat, NEW b \in Nat, VersionOk(a, b), FillHello
  PROVE  \E c \in Nat : VersionOk(c, b)'
<1> DEFINE k == Least2(cl.piece, Len(up))
<1>1. /\ sv.st = "handshake" /\ ~sv.reuse
      /\ sv' = [sv EXCEPT !.rbuf = @ \o Prefix(up, k)] /\ up' = Rest(up, k)
      /\ UNCHANGED <<hello, cl, down>>
  BY DEF FillHello
<1>2. VersionTypes /\ HelloOk /\ ServerOk(a) /\ ChoiceOk /\ ClientOk(b)
  BY DEF VersionOk
<1>3. /\ a <= cl.off /\ cl.off <= hello.length /\ up = Run(a, cl.off)
      /\ sv.packet = <<>> /\ sv.rbuf = Run(0, a) /\ sv.reply = "none" /\ sv.off = 0 /\ ~hello.old
      /\ cl.off \in Nat /\ hello.length \in Nat /\ cl.piece \in Nat
  BY <1>1, <1>2, ClientFields DEF ServerOk
<1>4. k \in Nat /\ k <= cl.off - a
  <2>0. Len(Run(a, cl.off)) = cl.off - a
    BY <1>3, RunIs
  <2>1. cl.off - a \in Nat /\ Len(up) = cl.off - a
    BY <1>3, <2>0
  <2> QED BY <1>3, <2>1, LesserIs
<1> HIDE DEF k
<1>0. PICK c \in Nat : c = a + k
  BY <1>4
<1>5. Joins(Run(0, a), Prefix(Run(a, cl.off), k)) = Run(0, c) /\ Rest(Run(a, cl.off), k) = Run(c, cl.off)
      /\ c <= cl.off
  BY <1>0, <1>3, <1>4, Moves
<1>6. Run(0, c) \in Seq(Nat)
  BY RunIs
<1>7. sv' = [sv EXCEPT !.rbuf = Run(0, c)] /\ up' = Run(c, cl.off)
  BY <1>1, <1>3, <1>5 DEF Joins
<1>8. /\ sv' \in Servers /\ sv'.on = sv.on /\ sv'.st = sv.st /\ sv'.packet = sv.packet
      /\ sv'.rbuf = Run(0, c) /\ sv'.reuse = sv.reuse /\ sv'.version = sv.version
      /\ sv'.off = sv.off /\ sv'.reply = sv.reply
  BY <1>2, <1>6, <1>7 DEF VersionTypes, Servers
<1>9. HelloOk'
  BY <1>1, <1>2, <1>8 DEF HelloOk
<1>10. ServerOk(c)'
  BY <1>1, <1>3, <1>5, <1>7, <1>8 DEF ServerOk
<1>11. ChoiceOk'
  BY <1>1, <1>2, <1>3, <1>8 DEF ChoiceOk
<1>12. ClientOk(b)'
  BY <1>1, <1>2, <1>3, <1>8, ServerMoves
<1>13. VersionTypes'
  BY <1>1, <1>2, <1>8 DEF VersionTypes
<1>14. VersionOk(c, b)'
  BY <1>9, <1>10, <1>11, <1>12, <1>13 DEF VersionOk
<1> QED BY <1>14

(* The handshake of the version has the hello and answers it.                *)
LEMMA StepGetClientHello ==
  ASSUME NEW a \in Nat, NEW b \in Nat, VersionOk(a, b), GetClientHello
  PROVE  VersionOk(a, b)'
<1> DEFINE r == IF Inappropriate THEN "alert" ELSE "hello"
           d == IF sv.reuse THEN sv.read ELSE sv.rbuf
           e == IF sv.reuse THEN sv.digest ELSE sv.rbuf
<1>1. /\ sv.st = "handshake" /\ sv.reply = "none" /\ (sv.reuse \/ Len(sv.rbuf) = hello.length)
      /\ sv' = [sv EXCEPT !.reply = r, !.read = d, !.digest = e, !.rbuf = <<>>, !.reuse = FALSE,
                          !.st = "reply"]
      /\ UNCHANGED <<hello, cl, up, down>>
  BY DEF GetClientHello
<1>2. VersionTypes /\ HelloOk /\ ServerOk(a) /\ ChoiceOk /\ ClientOk(b)
  BY DEF VersionOk
<1>3. /\ a <= cl.off /\ cl.off <= hello.length /\ up = Run(a, cl.off) /\ hello.length \in Nat
      /\ sv.off = 0 /\ sv.reuse \in BOOLEAN
  BY <1>1, <1>2, ClientFields DEF ServerOk
<1>4. /\ a = hello.length /\ d = Run(0, hello.length)
      /\ e = IF hello.old THEN Run(2, hello.length) ELSE Run(0, hello.length)
  <2>1. CASE sv.reuse
    BY <1>1, <1>2, <2>1 DEF ServerOk
  <2>2. CASE ~sv.reuse
    <3>1. ~hello.old /\ sv.rbuf = Run(0, a) /\ Len(sv.rbuf) = hello.length
      BY <1>1, <1>2, <2>2 DEF ServerOk
    <3>2. 0 \in Nat /\ 0 <= a /\ a - 0 = a
      OBVIOUS
    <3>3. Len(Run(0, a)) = a - 0
      BY <3>2, RunIs
    <3>4. a = hello.length
      BY <3>1, <3>2, <3>3
    <3> QED BY <2>2, <3>1, <3>4
  <2> QED BY <2>1, <2>2
<1>5. d \in Seq(Nat) /\ e \in Seq(Nat)
  <2>1. 0 \in Nat /\ 0 <= hello.length /\ 2 \in Nat /\ 2 <= hello.length
    BY <1>2, <1>3, Numbers DEF HelloOk
  <2>2. Run(0, hello.length) \in Seq(Nat) /\ Run(2, hello.length) \in Seq(Nat)
    BY <1>3, <2>1, RunIs
  <2> QED BY <1>4, <2>2
<1>6. r \in {"hello", "alert"} /\ (r = "hello" => ~Inappropriate) /\ (r = "alert" => Inappropriate)
  OBVIOUS
<1> HIDE DEF r, d, e
<1>7. <<>> \in Seq(Nat) /\ "reply" \in ServerStates
  BY DEF ServerStates
<1>8. /\ sv' \in Servers /\ sv'.on = sv.on /\ sv'.st = "reply" /\ sv'.reply = r
      /\ sv'.read = d /\ sv'.digest = e /\ sv'.version = sv.version /\ sv'.off = sv.off
  BY <1>1, <1>2, <1>5, <1>6, <1>7 DEF VersionTypes, Servers
<1>9. HelloOk'
  BY <1>1, <1>2, <1>8 DEF HelloOk
<1>10. ServerOk(a)'
  BY <1>1, <1>3, <1>4, <1>6, <1>8 DEF ServerOk
<1>11. ChoiceOk'
  <2>1. Inappropriate' <=> Inappropriate
    BY <1>1, <1>8 DEF Inappropriate
  <2> QED BY <1>1, <1>2, <1>6, <1>8, <2>1 DEF ChoiceOk
<1>12. ClientOk(b)'
  BY <1>1, <1>2, <1>8, ServerMoves
<1> QED BY <1>1, <1>2, <1>8, <1>9, <1>10, <1>11, <1>12 DEF VersionOk, VersionTypes

LEMMA StepReply ==
  ASSUME NEW a \in Nat, NEW b \in Nat, VersionOk(a, b), Reply
  PROVE  VersionOk(a, b)'
<1> DEFINE n == Least2(cl.piece, ReplyLength - sv.off)
           st == IF sv.off + n < ReplyLength THEN sv.st
                 ELSE IF sv.reply = "hello" THEN "done" ELSE "failed"
<1>1. /\ sv.st = "reply" /\ down' = down \o SubSeq(Cells(ReplyLength), sv.off + 1, sv.off + n)
      /\ sv' = [sv EXCEPT !.off = @ + n,
                         !.st = IF sv.off + n < ReplyLength THEN @
                                ELSE IF sv.reply = "hello" THEN "done" ELSE "failed"]
      /\ UNCHANGED <<hello, cl, up>>
  BY DEF Reply
<1>2. VersionTypes /\ HelloOk /\ ServerOk(a) /\ ChoiceOk /\ ClientOk(b)
  BY DEF VersionOk
<1>3. /\ sv.reply \in {"hello", "alert"} /\ b <= sv.off /\ sv.off <= ReplyLength
      /\ down = Run(b, sv.off) /\ sv.off \in Nat /\ cl.piece \in Nat /\ ReplyLength \in Nat
  BY <1>1, <1>2, ClientFields, Numbers DEF ServerOk, ClientOk
<1>4. n \in Nat /\ n <= ReplyLength - sv.off
  <2>1. ReplyLength - sv.off \in Nat
    BY <1>3
  <2> QED BY <1>3, <2>1, LesserIs
<1>5. st \in {"reply", "done", "failed"} /\ (st = "failed" => sv.reply = "alert")
  BY <1>1, <1>3
<1> HIDE DEF n
<1>6. sv' = [sv EXCEPT !.off = sv.off + n, !.st = st] /\ sv \in Servers
  BY <1>1, <1>2 DEF VersionTypes
<1> HIDE DEF st
<1>7. /\ sv' \in Servers /\ sv'.on = sv.on /\ sv'.st = st /\ sv'.reply = sv.reply
      /\ sv'.read = sv.read /\ sv'.digest = sv.digest /\ sv'.version = sv.version
      /\ sv'.off = sv.off + n
  <2>1. sv.off + n \in Nat /\ st \in ServerStates
    BY <1>3, <1>4, <1>5 DEF ServerStates
  <2> QED BY <1>6, <2>1 DEF Servers
<1>8. down' = Run(b, sv'.off) /\ b <= sv'.off /\ sv'.off <= ReplyLength
  <2>1. sv.off + n <= ReplyLength /\ b <= sv.off + n
    BY <1>3, <1>4
  <2>2. Joins(Run(b, sv.off), CutOut(Cells(ReplyLength), sv.off + 1, sv.off + n)) = Run(b, sv.off + n)
    BY <1>3, <1>4, <2>1, Sent
  <2>3. down' = Run(b, sv.off + n)
    BY <1>1, <1>3, <2>2 DEF Joins, CutOut
  <2> QED BY <1>7, <2>1, <2>3
<1>9. HelloOk'
  BY <1>1, <1>2, <1>7 DEF HelloOk
<1>10. ServerOk(a)'
  <2>1. /\ a <= cl.off /\ cl.off <= hello.length /\ up = Run(a, cl.off) /\ a = hello.length
        /\ sv.read = Run(0, hello.length)
        /\ sv.digest = IF hello.old THEN Run(2, hello.length) ELSE Run(0, hello.length)
    BY <1>2, <1>3 DEF ServerOk
  <2> QED BY <1>1, <1>3, <1>5, <1>7, <2>1 DEF ServerOk
<1>11. ChoiceOk'
  <2>1. Inappropriate' <=> Inappropriate
    BY <1>1, <1>7 DEF Inappropriate
  <2> QED BY <1>1, <1>2, <1>3, <1>5, <1>7, <2>1 DEF ChoiceOk
<1>12. ClientOk(b)'
  BY <1>1, <1>2, <1>7, <1>8 DEF ClientOk
<1> QED BY <1>1, <1>2, <1>7, <1>9, <1>10, <1>11, <1>12 DEF VersionOk, VersionTypes

LEMMA NegotiationSteps == VersionInv /\ [VersionNext]_versionVars => VersionInv'
<1> SUFFICES ASSUME VersionInv, [VersionNext]_versionVars PROVE VersionInv'
  OBVIOUS
<1>1. PICK a \in Nat, b \in Nat : VersionOk(a, b)
  BY DEF VersionInv
<1>2. CASE WriteHello
  BY <1>1, <1>2, StepWriteHello DEF VersionInv
<1>3. CASE ReadReply
  BY <1>1, <1>3, StepReadReply DEF VersionInv
<1>4. CASE GetServerHello
  BY <1>1, <1>4, StepGetServerHello DEF VersionInv
<1>5. CASE ServerReads
  BY <1>1, <1>5, StepServerReads DEF VersionInv
<1>6. CASE SniffRecord
  BY <1>1, <1>6, StepSniffRecord DEF VersionInv
<1>7. CASE SniffOld
  BY <1>1, <1>7, StepSniffOld DEF VersionInv
<1>8. CASE GetOldHello
  BY <1>1, <1>8, StepGetOldHello DEF VersionInv
<1>9. CASE FillHello
  BY <1>1, <1>9, StepFillHello DEF VersionInv
<1>10. CASE GetClientHello
  BY <1>1, <1>10, StepGetClientHello DEF VersionInv
<1>11. CASE Reply
  BY <1>1, <1>11, StepReply DEF VersionInv
<1>12. CASE FillReply
  BY <1>1, <1>12, StepFillReply DEF VersionInv
<1>13. CASE UNCHANGED versionVars
  <2>1. VersionOk(a, b)'
    BY <1>1, <1>13
       DEF versionVars, VersionOk, VersionTypes, HelloOk, ServerOk, ChoiceOk, ClientOk, Inappropriate
  <2> QED BY <2>1 DEF VersionInv
<1> QED
  BY <1>2, <1>3, <1>4, <1>5, <1>6, <1>7, <1>8, <1>9, <1>10, <1>11, <1>12, <1>13 DEF VersionNext

-----------------------------------------------------------------------------
(* What the invariant says of the hello and of the version                   *)
LEMMA InvIsHandedOver == VersionInv => HelloIsHandedOver
<1> SUFFICES ASSUME VersionInv, sv.reply # "none"
             PROVE  /\ sv.read = Cells(hello.length) /\ up = <<>>
                    /\ sv.digest = IF hello.old THEN Rest(Cells(hello.length), 2) ELSE Cells(hello.length)
                    /\ cl.st = "done" => cl.rbuf = Cells(ReplyLength)
  BY DEF HelloIsHandedOver
<1>1. PICK a \in Nat, b \in Nat : VersionOk(a, b)
  BY DEF VersionInv
<1>2. VersionTypes /\ HelloOk /\ ServerOk(a) /\ ClientOk(b)
  BY <1>1 DEF VersionOk
<1> DEFINE l == hello.length
<1>3. l \in Nat /\ 2 <= l /\ cl.off \in Nat
  BY <1>2, ClientFields, Numbers DEF HelloOk
<1>4. /\ a <= cl.off /\ cl.off <= l /\ up = Run(a, cl.off) /\ a = l /\ sv.read = Run(0, l)
      /\ sv.digest = IF hello.old THEN Run(2, l) ELSE Run(0, l)
  BY <1>2 DEF ServerOk
<1>5. Cells(l) = Run(0, l) /\ Cells(ReplyLength) = Run(0, ReplyLength)
  BY <1>3, CellsAre, Numbers
<1>6. Rest(Cells(l), 2) = Run(2, l)
  <2> HIDE DEF l
  <2>1. 0 \in Nat /\ 0 <= l /\ 2 \in Nat /\ 2 <= l - 0 /\ 0 + 2 = 2
    BY <1>3
  <2>2. Rest(Run(0, l), 2) = Run(0 + 2, l)
    BY <1>3, <2>1, RunParts
  <2> QED BY <1>5, <2>1, <2>2
<1>7. up = <<>>
  <2>1. cl.off = l
    BY <1>3, <1>4
  <2> QED BY <1>3, <1>4, <2>1, NoRun
<1>8. cl.st = "done" => cl.rbuf = Run(0, ReplyLength)
  BY <1>2 DEF ClientOk
<1> QED BY <1>4, <1>5, <1>6, <1>7, <1>8

(* The versions of the client that count are those up to the hello's.        *)
LEMMA CountedAre ==
  ASSUME VersionTypes, HelloOk
  PROVE  /\ \A v \in cl.on : v \in Counted(cl.on) <=> v <= hello.version
         /\ Counted(cl.on) \subseteq cl.on
         /\ \A u \in Version : ~hello.old /\ u \notin cl.on /\ (\E w \in cl.on : w < u) => hello.version < u
<1> DEFINE on == cl.on
           Holes == {v \in Version : v \notin on /\ \E w \in on : w < v}
<1>1. on \in SUBSET Version /\ on # {}
  BY ClientFields DEF HelloOk
<1>2. \A v \in Version : v \in Int /\ v <= 3
  BY DEF Version
<1>3. CASE hello.old
  <2>1. Counted(on) = on
    BY <1>3 DEF Counted
  <2>2. hello.version = Greatest(on)
    BY <1>3 DEF HelloOk
  <2>3. \A w \in on : w <= Greatest(on)
    BY <1>1, GreatestIs
  <2> QED BY <1>3, <2>1, <2>2, <2>3
<1>4. CASE ~hello.old
  <2>1. Counted(on) = {v \in on : ~\E u \in Version : u < v /\ u \notin on /\ \E w \in on : w < u}
    BY <1>4 DEF Counted
  <2>2. hello.version = HelloVersion(on)
    BY <1>4 DEF HelloOk
  <2>3. Counted(on) = {v \in on : ~\E u \in Holes : u < v}
    BY <2>1
  <2>4. CASE Holes = {}
    <3>1. HelloVersion(on) = 3
      BY <2>4 DEF HelloVersion
    <3>2. \A v \in on : v <= 3
      BY <1>1, <1>2
    <3> QED BY <2>2, <2>3, <2>4, <3>1, <3>2
  <2>5. CASE Holes # {}
    <3> DEFINE least == CHOOSE v \in Holes : \A w \in Holes : v <= w
    <3>1. Holes \in SUBSET Version
      OBVIOUS
    <3>2. \E v \in Holes : \A w \in Holes : v <= w
      BY <2>5, <3>1, LeastIs
    <3>3. least \in Holes /\ \A w \in Holes : least <= w
      BY <3>2
    <3>4. HelloVersion(on) = least - 1
      BY <2>5 DEF HelloVersion
    <3> HIDE DEF least
    <3>5. \A u \in Version : u \notin on /\ (\E w \in on : w < u) => u \in Holes
      OBVIOUS
    <3> HIDE DEF Holes
    <3>6. least \in Int /\ least \notin on
      BY <1>2, <3>1, <3>3 DEF Holes
    <3>7. \A v \in on : (~\E u \in Holes : u < v) <=> v <= least - 1
      <4> TAKE v \in on
      <4>1. v \in Int /\ v # least /\ \A w \in Holes : w \in Int
        BY <1>1, <1>2, <3>1, <3>6
      <4>2. CASE v <= least - 1
        BY <3>3, <3>6, <4>1, <4>2
      <4>3. CASE ~(v <= least - 1)
        <5>1. least < v
          BY <3>6, <4>1, <4>3
        <5> QED BY <3>3, <4>3, <5>1
      <4> QED BY <4>2, <4>3
    <3>8. \A u \in Version : u \notin on /\ (\E w \in on : w < u) => least - 1 < u
      BY <1>2, <3>3, <3>5, <3>6
    <3> QED BY <2>2, <2>3, <3>4, <3>7, <3>8
  <2> QED BY <2>4, <2>5
<1> QED BY <1>3, <1>4

LEMMA InvIsBest == VersionInv => VersionIsBest
<1> SUFFICES ASSUME VersionInv PROVE VersionIsBest
  OBVIOUS
<1>1. PICK a \in Nat, b \in Nat : VersionOk(a, b)
  BY DEF VersionInv
<1>2. VersionTypes /\ HelloOk /\ ServerOk(a) /\ ChoiceOk /\ ClientOk(b)
  BY <1>1 DEF VersionOk
<1>3. /\ cl.on \in SUBSET Version /\ sv.on \in SUBSET Version /\ sv.on # {}
      /\ hello.version \in Int /\ \A v \in Version : v \in Int
  BY <1>2, ClientFields DEF HelloOk, VersionTypes, Hellos, Version
<1>4. /\ \A v \in cl.on : v \in Counted(cl.on) <=> v <= hello.version
      /\ Counted(cl.on) \subseteq cl.on
      /\ \A u \in Version : ~hello.old /\ u \notin cl.on /\ (\E w \in cl.on : w < u) => hello.version < u
  BY <1>2, CountedAre
<1> DEFINE M == Mutual(sv.on, hello.version)
<1>5. M \in SUBSET Version /\ \A v : v \in M <=> v \in sv.on /\ v <= hello.version
  BY <1>3 DEF Mutual
<1>6. sv.reply # "none" => /\ sv.version \in M /\ \A w \in M : w <= sv.version
  <2> HAVE sv.reply # "none"
  <2>1. M # {} /\ sv.version = Greatest(M)
    BY <1>2 DEF ChoiceOk, HasMutual
  <2> HIDE DEF M
  <2> QED BY <1>5, <2>1, GreatestIs
<1>7. MaxVersion(sv.on) \in sv.on /\ \A w \in sv.on : w <= MaxVersion(sv.on)
  <2>1. MaxVersion(sv.on) = Greatest(sv.on)
    BY <1>3 DEF MaxVersion
  <2> QED BY <1>3, <2>1, GreatestIs
<1> HIDE DEF M
<1>8. Common \in SUBSET Version /\ \A v : v \in Common <=> v \in Counted(cl.on) /\ v \in sv.on
  BY <1>3, <1>4 DEF Common
<1>9. ASSUME cl.st = "done"
      PROVE  /\ cl.version = sv.version /\ Common # {} /\ cl.version = Greatest(Common)
             /\ hello.fallback => cl.version = MaxVersion(sv.on)
  <2>1. sv.reply = "hello" /\ cl.version = sv.version /\ sv.version \in cl.on /\ ~Inappropriate
    BY <1>2, <1>9 DEF ClientOk, ChoiceOk
  <2>2. sv.version \in M /\ \A w \in M : w <= sv.version
    BY <1>6, <2>1
  <2>3. sv.version \in Common
    BY <1>4, <1>5, <1>8, <2>1, <2>2
  <2>4. \A w \in Common : w <= sv.version
    BY <1>4, <1>5, <1>8, <2>2
  <2>5. Greatest(Common) = sv.version
    BY <1>8, <2>3, <2>4, GreatestUnique
  <2>6. hello.fallback => sv.version = MaxVersion(sv.on)
    <3> HAVE hello.fallback
    <3>1. ~(sv.version < MaxVersion(sv.on))
      BY <2>1 DEF Inappropriate
    <3>2. sv.version \in sv.on
      BY <1>5, <2>2
    <3>3. sv.version \in Int /\ MaxVersion(sv.on) \in Int /\ sv.version <= MaxVersion(sv.on)
      BY <1>3, <1>7, <3>2
    <3> QED BY <3>1, <3>3
  <2> QED BY <2>1, <2>3, <2>5, <2>6
<1>10. ASSUME cl.st = "failed"
       PROVE  \/ Common = {}
              \/ hello.old /\ sv.version \notin cl.on
              \/ hello.fallback /\ sv.version < MaxVersion(sv.on)
  <2>1. sv.reply # "none" /\ ~(sv.version \in cl.on /\ sv.reply = "hello")
    BY <1>2, <1>10 DEF ClientOk
  <2>2. CASE sv.reply = "alert"
    BY <1>2, <2>2 DEF ChoiceOk, Inappropriate
  <2>3. CASE sv.reply # "alert" /\ hello.old
    <3>1. sv.reply = "hello"
      BY <1>2, <2>1, <2>3, ClientFields
    <3> QED BY <2>1, <2>3, <3>1
  <2>4. CASE sv.reply # "alert" /\ ~hello.old
    <3>1. sv.reply = "hello"
      BY <1>2, <2>1, <2>4, ClientFields
    <3>2. sv.version \notin cl.on /\ sv.version \in M /\ \A w \in M : w <= sv.version
      BY <1>6, <2>1, <3>1
    <3>3. ASSUME NEW u \in Common PROVE FALSE
      <4>1. u \in cl.on /\ u \in M
        BY <1>4, <1>5, <1>8
      <4>2. u <= sv.version /\ u # sv.version /\ sv.version \in Version /\ u \in Version
            /\ sv.version <= hello.version
        BY <1>3, <1>5, <3>2, <4>1
      <4>3. u < sv.version /\ sv.version \in Int
        BY <1>3, <4>2
      <4>4. hello.version < sv.version
        BY <1>4, <2>4, <3>2, <4>1, <4>2, <4>3
      <4> QED BY <1>3, <4>2, <4>3, <4>4
    <3> QED BY <3>3
  <2> QED BY <1>2, <2>2, <2>3, <2>4, ClientFields
<1>11. sv.st = "failed" => sv.reply = "alert" \/ Mutual(sv.on, hello.version) = {}
  BY <1>2 DEF ChoiceOk, HasMutual
<1> QED BY <1>9, <1>10, <1>11 DEF VersionIsBest

(* For hellos of any length, cut by the transport in any way, and any sets   *)
(* of enabled versions: ends that finish have the best version both enable,  *)
(* ends that fail share none (or the client fell back), and the handshake    *)
(* of the version reads and digests the hello that was sent (s23_clnt.c,     *)
(* s23_srvr.c).                                                              *)
THEOREM BestVersionIsAgreed == VersionSpec => []VersionIsAgreed
<1>1. VersionInv => VersionIsAgreed
  BY InvIsHandedOver, InvIsBest DEF VersionIsAgreed
<1> QED
  BY NegotiationStarts, NegotiationSteps, <1>1, PTL DEF VersionSpec
==============================================================================

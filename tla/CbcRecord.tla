------------------------------ MODULE CbcRecord ------------------------------
(***************************************************************************)
(* What a decrypted CBC record goes through in ssl/s3_cbc.c: its padding   *)
(* is removed, its MAC copied out and recomputed, all without a branch or  *)
(* an address that depends on the padding.  The functions are compared     *)
(* with what they compute, stated directly.                                *)
(*                                                                         *)
(* A number of 32 bits is the set of its one bits where the code masks it. *)
(* A hash is the sequence of blocks it was given, a byte of a block is     *)
(* named by where it comes from.                                           *)
(***************************************************************************)
EXTENDS Calculation, Integers, Sequences
LOCAL INSTANCE SequencesExt

CONSTANTS
  PaddingCases,   \* [data, mac_size, block_size, explicit]: records to remove padding from
  CopyCases,      \* [orig_len, length, md_size]: records to copy a MAC from
  DigestCases     \* [md, sslv3, size, padding]: records to digest

(* constant_time_ge and the masks made of it: a condition for every bit.   *)
AllBits == 0..31
Masked(condition) == IF condition THEN AllBits ELSE {}
BitsOf(n) == {i \in 0..7 : (n \div 2^i) % 2 = 1}
Xor(a, b) == (a \ b) \union (b \ a)
ShiftedRight(bits, n) == {b - n : b \in {c \in bits : c >= n}}

(* "AND the bottom 8 bits together and duplicate the result".              *)
Spread(bits) ==
  LET a == bits \intersect ShiftedRight(bits, 4)
      b == a \intersect ShiftedRight(a, 2)
      c == b \intersect ShiftedRight(b, 1)
  IN  Masked(0 \in c)
------------------------------------------------------------------------------
(* A record after padding removal: where its data starts, how long it is.  *)
Invalid == [result |-> 0]
Removed(good, start, length, padding) ==
  [result |-> IF 0 \in good THEN 1 ELSE -1, start |-> start,
   length |-> length - (IF 0 \in good THEN padding + 1 ELSE 0)]

ssl3_cbc_remove_padding(data, block_size, mac_size) ==
  LET overhead == 1 + mac_size
      padding == data[Len(data)]
      good == Masked(Len(data) >= padding + overhead)
                \intersect Masked(block_size >= padding + 1)
  IN  IF overhead > Len(data) THEN Invalid ELSE Removed(good, 0, Len(data), padding)

(* The bytes that have to equal the padding length are compared under a    *)
(* mask, 256 of them if the record has as many.                            *)
CheckedAll(data, start, padding) ==         \* fault: the length byte only
  Masked(data[Len(data)] = padding)
Checked(data, start, padding) ==
  LET length == Len(data) - start
      to_check == IF 256 > length THEN length ELSE 256
      step(good, i) ==
        good \ (IF padding >= i THEN Xor(BitsOf(padding), BitsOf(data[Len(data) - i])) ELSE {})
  IN  FoldLeft(step, AllBits, [i \in 1..to_check |-> i - 1])

tls1_cbc_remove_padding(data, explicit, block_size, mac_size) ==
  LET overhead == 1 + mac_size
      start == IF explicit THEN block_size ELSE 0
      length == Len(data) - start
      padding == data[Len(data)]
      good == Masked(length >= overhead + padding) \intersect Checked(data, start, padding)
  IN  IF overhead + start > Len(data) THEN Invalid
      ELSE Removed(Spread(good), start, length, padding)

(* The bytes from scan_start are collected round and round and then put    *)
(* back in order; div_spoiler must not change the result.                  *)
ScanFromEnd(orig_len, md_size) ==           \* fault: the length byte is not counted
  IF orig_len > md_size + 255 THEN orig_len - (md_size + 255) + 1 ELSE 0
ScanStart(orig_len, md_size) ==
  IF orig_len > md_size + 255 + 1 THEN orig_len - (md_size + 255 + 1) ELSE 0

ssl3_cbc_copy_mac(orig_len, length, md_size) ==
  LET mac_end == length
      mac_start == mac_end - md_size
      scan_start == ScanStart(orig_len, md_size)
      div_spoiler == (md_size \div 2) * 2^24
      rotate_offset == (div_spoiler + mac_start - scan_start) % md_size
      rotated == [j \in 0..(md_size - 1) |->
                    {i \in scan_start..(orig_len - 1) :
                       i >= mac_start /\ i < mac_end /\ (i - scan_start) % md_size = j}]
  IN  [i \in 0..(md_size - 1) |-> rotated[(rotate_offset + i) % md_size]]
------------------------------------------------------------------------------
(* The digests: sizes of the result, of a block and of the length field.   *)
Md ==
  [md5    |-> [size |-> 16, block |-> 64, field |-> 8, pad |-> 48],
   sha1   |-> [size |-> 20, block |-> 64, field |-> 8, pad |-> 40],
   sha256 |-> [size |-> 32, block |-> 64, field |-> 8, pad |-> 40],
   sha384 |-> [size |-> 48, block |-> 128, field |-> 16, pad |-> 40]]

(* "header" before the data: sequence number, type, version and length; in *)
(* SSL 3 the secret and its padding too.                                   *)
HeaderLength(md, sslv3) == IF sslv3 THEN md.size + md.pad + 8 + 1 + 2 ELSE 13

VarianceBlocks(sslv3) == IF sslv3 THEN 2 ELSE 6

(* A byte of header and data: zero behind the end of the record.           *)
Zero == <<"byte", 0>>
RecordByte(k, whole) == IF k < whole THEN <<"record", k>> ELSE Zero
LengthByte(bits, j) == <<"length", bits, j>>

(* A block past the ones no padding can affect, built under masks.         *)
FinalBlock(i, md, whole, mac_end_offset, bits) ==
  LET c == mac_end_offset % md.block
      is_block_a == i = mac_end_offset \div md.block
      is_block_b == i = (mac_end_offset + md.field) \div md.block
      masked(j) ==
        IF is_block_a /\ j >= c + 1 THEN Zero
        ELSE IF is_block_a /\ j >= c THEN <<"byte", 128>>
        ELSE RecordByte(i * md.block + j, whole)
      unless_b(j) == IF is_block_b /\ ~is_block_a THEN Zero ELSE masked(j)
  IN  [j \in 0..(md.block - 1) |->
         IF j >= md.block - md.field /\ is_block_b
         THEN LengthByte(bits, j - (md.block - md.field)) ELSE unless_b(j)]

StartingBlock(i, md) == [j \in 0..(md.block - 1) |-> <<"record", i * md.block + j>>]

(* ssl3_cbc_digest_record: the blocks that went into the hash when mac_out *)
(* was taken; {} if it never was.                                          *)
ssl3_cbc_digest_record(name, sslv3, data_plus_mac_size, size) ==
  LET md == Md[name]
      header == HeaderLength(md, sslv3)
      whole == size + header
      max_mac_bytes == whole - md.size - 1
      num_blocks == (max_mac_bytes + 1 + md.field + md.block - 1) \div md.block
      variance == VarianceBlocks(sslv3)
      starting == IF num_blocks > variance + (IF sslv3 THEN 1 ELSE 0)
                  THEN num_blocks - variance ELSE 0
      mac_end_offset == data_plus_mac_size + header - md.size
      bits == 8 * mac_end_offset + (IF sslv3 THEN 0 ELSE 8 * md.block)
      index_b == (mac_end_offset + md.field) \div md.block
      block(i) == IF i < starting THEN StartingBlock(i, md)
                  ELSE FinalBlock(i, md, whole, mac_end_offset, bits)
  IN  {[i \in 0..b |-> block(i)] : b \in {index_b} \intersect starting..(starting + variance)}
------------------------------------------------------------------------------
CbcNext ==
  \/ \E c \in PaddingCases :
       \/ Calculates("ssl3_cbc_remove_padding", c,
                     ssl3_cbc_remove_padding(c.data, c.block_size, c.mac_size))
       \/ Calculates("tls1_cbc_remove_padding", c,
                     tls1_cbc_remove_padding(c.data, c.explicit, c.block_size, c.mac_size))
  \/ \E c \in CopyCases :
       Calculates("ssl3_cbc_copy_mac", c, ssl3_cbc_copy_mac(c.orig_len, c.length, c.md_size))
  \/ \E c \in DigestCases :
       Calculates("ssl3_cbc_digest_record", c,
                  ssl3_cbc_digest_record(c.md, c.sslv3, c.size - c.padding - 1, c.size))
------------------------------------------------------------------------------
(* Padding is accepted if and only if every byte of it, in TLS, equals its *)
(* length and the record has room for it and the MAC; a record is refused  *)
(* openly only if its public length is too small (s3_cbc.c:115, :160).     *)
PaddingIsChecked ==
  LET c == calc.in
      tls == Calculated("tls1_cbc_remove_padding")
      start == IF tls /\ c.explicit THEN c.block_size ELSE 0
      length == Len(c.data) - start
      padding == c.data[Len(c.data)]
      good == /\ padding + 1 + c.mac_size <= length
              /\ IF tls THEN \A i \in 0..padding : c.data[Len(c.data) - i] = padding
                 ELSE padding + 1 <= c.block_size
  IN
  tls \/ Calculated("ssl3_cbc_remove_padding") =>
    calc.out = IF length < 1 + c.mac_size THEN Invalid
               ELSE IF good THEN [result |-> 1, start |-> start,
                                  length |-> length - padding - 1]
               ELSE [result |-> -1, start |-> start, length |-> length]

(* The MAC is copied in order from just before the padding, wherever in    *)
(* the last 256 bytes that is (s3_cbc.c:245).                              *)
MacIsCopied ==
  Calculated("ssl3_cbc_copy_mac") =>
    \A i \in 0..(calc.in.md_size - 1) :
      calc.out[i] = {calc.in.length - calc.in.md_size + i}

(* The digest is that of the header and the data without padding, as the   *)
(* hash function defines it: 0x80, zeros to the end of a block, and the    *)
(* length in bits (s3_cbc.c:397).                                          *)
DigestIsOfTheData ==
  Calculated("ssl3_cbc_digest_record") =>
    LET c == calc.in
        md == Md[c.md]
        n == HeaderLength(md, c.sslv3) + c.size - c.padding - 1 - md.size
        blocks == (n + 1 + md.field + md.block - 1) \div md.block
        end == blocks * md.block - md.field
        bits == 8 * (n + IF c.sslv3 THEN 0 ELSE md.block)
        byte(k) == CASE k < n -> <<"record", k>>
                     [] k = n -> <<"byte", 128>>
                     [] k > n /\ k < end -> Zero
                     [] OTHER -> LengthByte(bits, k - end)
    IN  calc.out = {[i \in 0..(blocks - 1) |->
                       [j \in 0..(md.block - 1) |-> byte(i * md.block + j)]]}

=============================================================================

------------------------------ MODULE RsaPadding ------------------------------
(* The paddings of RSA (padding.c) over octets of OctetBits bits.  What    *)
(* RAND_pseudo_bytes gives is an argument; a hash is any function to       *)
(* sequences of HashLen octets.  The index of a message is found in the    *)
(* source without branches; only the outcome is modelled.                  *)
EXTENDS Integers, Sequences, FiniteSets, Calculation
LOCAL INSTANCE SequencesExt

CONSTANTS
  OctetBits,       \* 8 in the source
  MinPad,          \* the least padding of PKCS #1 v1.5: 8
  Trailer,         \* the last octet of a PSS encoding: 0xbc
  HashLen,         \* the size of a digest
  Digests,         \* the digests a hash has, a sequence
  TLen,            \* the size of a padded message
  Masked,          \* OAEP and PSS encodings that are read
  PssBits,         \* the bits of moduli that PSS encodes for
  SaltLens,        \* the lengths of a salt that are asked for
  Hashed           \* the digests PSS signs

Octet == 0 .. 2 ^ OctetBits - 1
Top == 2 ^ OctetBits - 1                          \* 0xff
PaddingSize == 3 + MinPad                         \* RSA_PKCS1_PADDING_SIZE
Rejected == <<-1>>
Run(n, o) == [i \in 1 .. n |-> o]
From(s, i) == SubSeq(s, i, Len(s))
Places(s, from, S) == {i \in from .. Len(s) : s[i] \in S}
Least(S) == CHOOSE i \in S : \A j \in S : i <= j
Labels == {<<>>, <<1>>}
Fits(m, tlen) == IF Len(m) > tlen THEN Rejected ELSE m

Hash(s) == Digests[(FoldLeft(LAMBDA n, o : (n * 7 + o + 3) % (4 * Len(Digests) + 1), 1, s) % Len(Digests)) + 1]

(* ------------------------------ PKCS #1 v1.5 ------------------------------ *)
AddType1(tlen, m) ==
  IF Len(m) + PaddingSize > tlen THEN Rejected
  ELSE <<0, 1>> \o Run(tlen - 3 - Len(m), Top) \o <<0>> \o m

CheckType1(tlen, em) ==
  LET ends == Places(em, 3, Octet \ {Top})
      end == Least(ends)
  IN IF Len(em) < 2 \/ SubSeq(em, 1, 2) # <<0, 1>> \/ ends = {} THEN Rejected
     ELSE IF em[end] # 0 \/ end - 3 < MinPad THEN Rejected ELSE Fits(From(em, end + 1), tlen)

AddType2(tlen, m, pad) ==                         \* pad: as many octets, none of them 0
  IF Len(m) + PaddingSize > tlen THEN Rejected
  ELSE <<0, 2>> \o SubSeq(pad, 1, tlen - 3 - Len(m)) \o <<0>> \o m

\* 0: no message; otherwise the place behind the first 0
MessageIndex(em) ==
  LET zeros == Places(em, 3, {0})
  IN IF Len(em) < PaddingSize \/ em[1] # 0 \/ em[2] # 2 \/ zeros = {} THEN 0
     ELSE IF Least(zeros) < 3 + MinPad THEN 0 ELSE Least(zeros) + 1
CheckType2(tlen, em) ==
  IF MessageIndex(em) = 0 THEN Rejected ELSE Fits(From(em, MessageIndex(em)), tlen)

AddNone(tlen, m) == IF Len(m) = tlen THEN m ELSE Rejected
CheckNone(tlen, em) == Fits(em, tlen)

(* ---------------------------------- MGF1 ---------------------------------- *)
Xor == [a \in Octet |-> [b \in Octet |->
          FoldLeft(LAMBDA n, i : 2 * n + IF (a \div 2 ^ (OctetBits - i)) % 2 = (b \div 2 ^ (OctetBits - i)) % 2
                                         THEN 0 ELSE 1, 0, [i \in 1 .. OctetBits |-> i])]]
MaskedWith(s, mask) == [i \in 1 .. Len(s) |-> Xor[s[i]][mask[i]]]

MGF1(len, seed) ==
  LET blocks == [c \in 0 .. (len - 1) \div HashLen |-> Hash(seed \o <<c>>)]
  IN [i \in 1 .. len |-> blocks[(i - 1) \div HashLen][((i - 1) % HashLen) + 1]]

(* ---------------------------------- OAEP ---------------------------------- *)
AddOaep(tlen, m, label, seed) ==
  IF tlen < 2 * HashLen + 2 \/ Len(m) > tlen - 2 * HashLen - 2 THEN Rejected
  ELSE LET db == Hash(label) \o Run(tlen - Len(m) - 2 * HashLen - 2, 0) \o <<1>> \o m
           masked == MaskedWith(db, MGF1(Len(db), seed))
       IN <<0>> \o MaskedWith(seed, MGF1(HashLen, masked)) \o masked

OaepDb(em) ==
  LET masked == From(em, HashLen + 2)
      seed == MaskedWith(SubSeq(em, 2, HashLen + 1), MGF1(HashLen, masked))
  IN MaskedWith(masked, MGF1(Len(masked), seed))
\* a mutant: what stands in front of the 1 may be anything
OaepMessageLaxly(em, db, label, tlen) ==
  LET ones == Places(db, HashLen + 1, {1})
  IN IF em[1] # 0 \/ SubSeq(db, 1, HashLen) # Hash(label) \/ ones = {} THEN Rejected
     ELSE Fits(From(db, Least(ones) + 1), tlen)
OaepMessage(em, db, label, tlen) ==
  LET ones == Places(db, HashLen + 1, {1})
  IN IF em[1] # 0 \/ SubSeq(db, 1, HashLen) # Hash(label) \/ ones = {} THEN Rejected
     ELSE IF Places(db, HashLen + 1, Octet \ {0}) # {} /\ db[Least(Places(db, HashLen + 1, Octet \ {0}))] # 1
     THEN Rejected ELSE Fits(From(db, Least(ones) + 1), tlen)
CheckOaep(tlen, em, label) ==
  IF Len(em) < 2 * HashLen + 2 THEN Rejected ELSE OaepMessage(em, OaepDb(em), label, tlen)

(* ----------------------------------- PSS ---------------------------------- *)
MSBits(bits) == (bits - 1) % OctetBits
Size(bits) == (bits + OctetBits - 1) \div OctetBits
\* the octets that encode, when the first of a number of that size is always 0
EmLen(bits) == IF MSBits(bits) = 0 THEN Size(bits) - 1 ELSE Size(bits)
Body(bits, em) == IF MSBits(bits) = 0 THEN Tail(em) ELSE em
SaltedHash(hash, salt) == Hash(Run(8, 0) \o hash \o salt)
LowBits(bits, db) == IF MSBits(bits) = 0 THEN db ELSE <<db[1] % 2 ^ MSBits(bits)>> \o Tail(db)

\* the salt AddPss needs: -1 asks for that of a digest's length, -2 for the longest
SaltLen(bits, sLen) ==
  CASE sLen = -1 -> HashLen [] sLen = -2 -> EmLen(bits) - HashLen - 2 [] OTHER -> sLen
PssFits(bits, sLen) == sLen >= -2 /\ SaltLen(bits, sLen) >= 0 /\ EmLen(bits) >= HashLen + SaltLen(bits, sLen) + 2
AddPss(bits, hash, sLen, salt) ==
  IF ~PssFits(bits, sLen) THEN Rejected
  ELSE LET h == SaltedHash(hash, salt)
           db == Run(EmLen(bits) - Len(salt) - HashLen - 2, 0) \o <<1>> \o salt
       IN (IF MSBits(bits) = 0 THEN <<0>> ELSE <<>>)
            \o LowBits(bits, MaskedWith(db, MGF1(Len(db), h))) \o h \o <<Trailer>>

PssDb(bits, body) ==
  LET masked == SubSeq(body, 1, EmLen(bits) - HashLen - 1)
  IN LowBits(bits, MaskedWith(masked, MGF1(Len(masked), SubSeq(body, Len(masked) + 1, Len(masked) + HashLen))))
FirstOctetFits(bits, em) == em[1] < 2 ^ MSBits(bits)
PssSaltIs(bits, hash, sLen, body, db, one) ==     \* one: the place of the first octet that is not 0
  /\ db[one] = 1
  /\ sLen # -2 => Len(db) - one = SaltLen(bits, sLen)
  /\ SaltedHash(hash, From(db, one + 1)) = SubSeq(body, Len(db) + 1, Len(db) + HashLen)
VerifyPss(bits, hash, em, sLen) ==
  /\ sLen >= -2
  /\ FirstOctetFits(bits, em)
  /\ EmLen(bits) >= HashLen + (IF sLen = -2 THEN -2 ELSE SaltLen(bits, sLen)) + 2
  /\ Body(bits, em)[EmLen(bits)] = Trailer
  /\ LET body == Body(bits, em)
         db == PssDb(bits, body)
     IN PssSaltIs(bits, hash, sLen, body, db, Least(Places(db, 1, Octet \ {0}) \cup {Len(db)}))

(* ------------------------------ calculations ------------------------------ *)
Strings(n) == [1 .. n -> Octet]
UpTo(n) == UNION {Strings(k) : k \in 0 .. n}
Pads(m) == [1 .. TLen - 3 - Len(m) -> 1 .. Top]

WritePkcs1 == \E m \in UpTo(TLen - PaddingSize + 1) : \E pad \in Pads(m) :
  LET type1 == AddType1(TLen, m)
      type2 == AddType2(TLen, m, pad)
  IN Calculates("writePkcs1", [m |-> m],
       [type1 |-> IF type1 = Rejected THEN type1 ELSE CheckType1(TLen, type1),
        type2 |-> IF type2 = Rejected THEN type2 ELSE CheckType2(TLen, type2)])
ReadPkcs1 == \E em \in UpTo(2) \cup Strings(TLen), tlen \in {0, TLen} :
  Calculates("readPkcs1", [em |-> em, tlen |-> tlen], [type1 |-> CheckType1(tlen, em), type2 |-> CheckType2(tlen, em)])
Unpadded == \E em \in UpTo(2), tlen \in 0 .. 2 :
  Calculates("unpadded", [em |-> em, tlen |-> tlen], [pad |-> AddNone(tlen, em), read |-> CheckNone(tlen, em)])
WriteOaep == \E n \in {TLen, TLen + 1} : \E m \in UpTo(n - 2 * HashLen - 1), label \in Labels, seed \in Strings(HashLen) :
  LET em == AddOaep(n, m, label, seed)
  IN Calculates("writeOaep", [m |-> m, n |-> n], IF em = Rejected THEN em ELSE CheckOaep(n, em, label))
ReadOaep == \E em \in Masked, label \in Labels, tlen \in {0, TLen} :
  Calculates("readOaep", [em |-> em, label |-> label, tlen |-> tlen], CheckOaep(tlen, em, label))
WritePss == \E bits \in PssBits, hash \in Hashed, sLen \in SaltLens :
  \E salt \in IF PssFits(bits, sLen) THEN Strings(SaltLen(bits, sLen)) ELSE {<<>>} :
    LET em == AddPss(bits, hash, sLen, salt)
    IN Calculates("writePss", [bits |-> bits, sLen |-> sLen, hash |-> hash],
         IF em = Rejected THEN {} ELSE {h \in Hashed : VerifyPss(bits, h, em, sLen)})
ReadPss == \E bits \in PssBits : \E em \in {e \in Masked : Len(e) = Size(bits)}, hash \in Hashed, sLen \in SaltLens :
  Calculates("readPss", [bits |-> bits, em |-> em, hash |-> hash, sLen |-> sLen], VerifyPss(bits, hash, em, sLen))
RsaPaddingNext ==
  WritePkcs1 \/ ReadPkcs1 \/ Unpadded \/ WriteOaep \/ ReadOaep \/ WritePss \/ ReadPss

\* What is padded, with whatever random octets, is read back, if it fits.
PaddedIsRead ==
  LET i == calc.in
      kept(m, n) == IF Len(m) <= n THEN m ELSE Rejected
  IN /\ Calculated("writePkcs1") => \A kind \in {"type1", "type2"} : calc.out[kind] = kept(i.m, TLen - PaddingSize)
     /\ Calculated("writeOaep") => calc.out = kept(i.m, i.n - 2 * HashLen - 2)
     /\ Calculated("writePss") =>
          IF PssFits(i.bits, i.sLen) THEN i.hash \in calc.out ELSE calc.out = {}
     /\ Calculated("unpadded") => (calc.out.pad # Rejected => calc.out.read = i.em) /\ (Len(i.em) = i.tlen => calc.out.pad = i.em)

\* What is read is the padding of the message it gives, for some random octets.
ReadIsPadded ==
  LET i == calc.in
  IN /\ Calculated("readPkcs1") =>
          /\ calc.out.type1 # Rejected => AddType1(TLen, calc.out.type1) = i.em
          /\ calc.out.type2 # Rejected => \E pad \in Pads(calc.out.type2) : AddType2(TLen, calc.out.type2, pad) = i.em
          /\ \A m \in {calc.out.type1, calc.out.type2} : m = Rejected \/ Len(m) <= i.tlen
     /\ Calculated("readOaep") => \/ calc.out = Rejected
                                  \/ /\ Len(calc.out) <= i.tlen
                                     /\ \E seed \in Strings(HashLen) : AddOaep(Len(i.em), calc.out, i.label, seed) = i.em
     /\ Calculated("readPss") /\ calc.out =>
          \E salt \in UNION {Strings(n) : n \in IF i.sLen = -2 THEN 0 .. TLen - HashLen - 2 ELSE {SaltLen(i.bits, i.sLen)}} :
            AddPss(i.bits, i.hash, Len(salt), salt) = i.em

\* A check accepts exactly what the padding of the message it returns may be:
\* nothing else is taken for one, and nothing that was padded is refused
\* (padding.c).
PaddingsAreRead == PaddedIsRead /\ ReadIsPadded
===============================================================================

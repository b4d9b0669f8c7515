------------------------------- MODULE EcKeys -------------------------------
(* Elliptic curve keys and their encodings: points as octet strings (oct.c), *)
(* keys and what is checked of them (ec_key.c), and the private keys,        *)
(* parameters and public keys that are read and written (ec_asn1.c).  An     *)
(* octet has Base values, a group is one of the built-in curves (ec.c) and   *)
(* DER is left to the templates: a private key is [version, key, params,     *)
(* pub], the last two sequences of at most one element.                      *)
(*                                                                           *)
(* What is done with elliptic curve keys: ECDSA signatures (ecdsa.c) and     *)
(* Diffie-Hellman secrets (ecdh.c).  An octet has OctetBits bits and a       *)
(* digest is a sequence of octets; the numbers drawn are all that may be.    *)
EXTENDS EcGroups, FiniteSets, Calculation
LOCAL INSTANCE SequencesExt

CONSTANTS
  Curves,       \* the built-in curves: [name, p, a, b, x, y, order]
  Base,
  OctetLengths, \* of the strings read as points
  SomeKeys,     \* the keys that are checked, copied and written
  KeyChanges,   \* the arguments of set_public_key_affine_coordinates
  PrivateKeys,  \* the private keys that are read
  SigningCurves, \* [p, a, b, x, y, order]
  OctetBits,    \* 8 in the source
  Digests,      \* the sequences of octets that are signed
  VerifyDigests, \* and those that signatures are verified of
  DrawsFor(_),  \* of a curve: the numbers drawn one after the other
  Secrets,      \* the cases of ECDH_compute_key: [c, priv, pub, outlen]
  HashSize, Derivations  \* the cases of ECDH_KDF_X9_62: [outlen, z, info]

Field(c) == 0 .. c.p - 1
Generator(c) == <<c.x, c.y>>

(* --------------------------------- octets -------------------------------- *)
RECURSIVE NumBytes(_)
NumBytes(n) == IF n = 0 THEN 0 ELSE 1 + NumBytes(n \div Base)
\* BN_bn2bin behind zeros up to len octets, and BN_bin2bn
RECURSIVE Octets(_, _)
Octets(n, len) == IF len = 0 THEN <<>> ELSE Append(Octets(n \div Base, len - 1), n % Base)
Number(s) == FoldLeft(LAMBDA n, o : (n * Base) + o, 0, s)

(* --------------------------- points as octets ---------------------------- *)
Compressed == 2
Uncompressed == 4
Hybrid == 6
FieldLen(c) == NumBytes(c.p)
EncodedLen(c, form) == IF form = Compressed THEN 1 + FieldLen(c) ELSE 1 + 2 * FieldLen(c)

Point2Oct(c, q, form) ==
  IF form \notin {Compressed, Uncompressed, Hybrid} THEN <<>>
  ELSE IF q = <<>> THEN <<0>>
  ELSE <<IF form # Uncompressed THEN form + (q[2] % 2) ELSE form>> \o Octets(q[1], FieldLen(c))
       \o (IF form = Compressed THEN <<>> ELSE Octets(q[2], FieldLen(c)))

\* a result is a sequence of the point, empty if there is none
Fail == <<>>
Root(c, n) == {y \in Field(c) : (y * y) % c.p = n % c.p}
SetCompressed(c, x, bit) ==
  LET ys == {y \in Root(c, x * x * x + c.a * x + c.b) : y % 2 = bit} IN
  IF ys = {} THEN Fail ELSE <<<<x % c.p, CHOOSE y \in ys : TRUE>>>>
\* a mutant: the bit of the hybrid form is not compared
UncompressAny(c, form, bit, x, y) == IF y >= c.p THEN Fail ELSE <<<<x, y>>>>
Uncompress(c, form, bit, x, y) ==
  IF y >= c.p \/ (form = Hybrid /\ bit # y % 2) THEN Fail ELSE <<<<x, y>>>>
CheckedOnCurve(c, res) == IF res # Fail /\ ~OnCurve(c, res[1]) THEN Fail ELSE res
Oct2Coordinates(c, form, bit, s) ==
  LET x == Number(SubSeq(s, 2, 1 + FieldLen(c))) IN
  IF x >= c.p THEN Fail
  ELSE CheckedOnCurve(c,
         IF form = Compressed THEN SetCompressed(c, x, bit)
         ELSE Uncompress(c, form, bit, x, Number(SubSeq(s, 2 + FieldLen(c), Len(s)))))
Oct2Form(c, form, bit, s) ==
  IF form \notin {0, Compressed, Uncompressed, Hybrid} THEN Fail
  ELSE IF form \in {0, Uncompressed} /\ bit = 1 THEN Fail
  ELSE IF form = 0 THEN IF Len(s) = 1 THEN <<<<>>>> ELSE Fail
  ELSE IF Len(s) # EncodedLen(c, form) THEN Fail
  ELSE Oct2Coordinates(c, form, bit, s)
Oct2Point(c, s) ==
  IF s = <<>> THEN Fail ELSE Oct2Form(c, s[1] - (s[1] % 2), s[1] % 2, s)

(* ---------------------------------- keys --------------------------------- *)
\* EC_KEY: group, priv and pub are sequences of at most one element
NoKey == [group |-> <<>>, priv |-> <<>>, pub |-> <<>>, form |-> Uncompressed,
          no_params |-> FALSE, no_pub |-> FALSE, version |-> 1]
NewByCurveName(name) ==
  [NoKey EXCEPT !.group = SetToSeq({c \in Curves : c.name = name})]

\* a public key set for another group is compared with this one's as it is
CheckPublic(c, q) == q # <<>> /\ OnCurve(c, q) /\ Multiple(c, c.order, q) = <<>>
\* a mutant: any multiple of the generator will do
CheckPrivateModulo(c, q, priv) == Multiple(c, priv, Generator(c)) = q
CheckPrivate(c, q, priv) == priv < c.order /\ Multiple(c, priv, Generator(c)) = q
CheckKey(k) ==
  /\ k.group # <<>> /\ k.pub # <<>>
  /\ CheckPublic(k.group[1], k.pub[1])
  /\ k.priv # <<>> => CheckPrivate(k.group[1], k.pub[1], k.priv[1])

\* the point is stored before the key is checked
SetPublicAffine(k, x, y) ==
  IF k.group = <<>> THEN [ok |-> FALSE, key |-> k]
  ELSE IF {x, y} \subseteq Field(k.group[1])
  THEN [ok |-> CheckKey([k EXCEPT !.pub = <<<<x, y>>>>]), key |-> [k EXCEPT !.pub = <<<<x, y>>>>]]
  ELSE [ok |-> FALSE, key |-> k]

\* r is what BN_rand_range draws when it does not draw 0 again
GenerateKey(k, r) ==
  [k EXCEPT !.priv = <<r>>, !.pub = <<Multiple(k.group[1], r, Generator(k.group[1]))>>]

\* of src what it has; dest keeps the rest of what it had
CopyKey(dest, src) ==
  [src EXCEPT !.group = IF src.group # <<>> THEN src.group ELSE dest.group,
              !.pub = IF src.pub # <<>> /\ src.group # <<>> THEN src.pub ELSE dest.pub,
              !.priv = IF src.priv # <<>> THEN src.priv ELSE dest.priv]

SetConvForm(k, form) == [k EXCEPT !.form = form]

(* ----------------------------- keys in files ----------------------------- *)
\* ec_asn1_group2pkparameters names the curve; explicit parameters are known
\* by the order of the group
Params(kind, of) == [kind |-> kind, of |-> of]
Group2Params(c) == <<Params("named", c.name)>>
Params2Group(p) ==
  SetToSeq({c \in Curves : IF p.kind = "named" THEN c.name = p.of ELSE c.order = p.of})

\* the public octets are written into the buffer that holds the private ones
\* and is only as long as they need if it has to grow
InBuffer(s, buf) == IF Len(s) > Len(buf) THEN s ELSE s \o SubSeq(buf, Len(s) + 1, Len(buf))
WrittenKey(k, priv) ==
  [version |-> k.version, key |-> priv,
   params |-> IF k.no_params THEN <<>> ELSE Group2Params(k.group[1]),
   pub |-> IF k.no_pub \/ k.pub = <<>> THEN <<>>
           ELSE <<InBuffer(Point2Oct(k.group[1], k.pub[1], k.form), priv)>>]
WritePrivateKey(k) ==
  IF k.group = <<>> \/ k.priv = <<>> \/ k.priv = <<0>> THEN <<>>
  ELSE <<WrittenKey(k, Octets(k.priv[1], NumBytes(k.priv[1])))>>

\* d2i_ECPrivateKey into the key k
WithPublic(k, pub) ==
  IF pub = <<>> THEN <<k>>
  ELSE IF Oct2Point(k.group[1], pub[1]) = Fail THEN Fail
  ELSE <<[k EXCEPT !.pub = Oct2Point(k.group[1], pub[1]), !.form = pub[1][1] - (pub[1][1] % 2)]>>
ReadInto(k, d) ==
  IF k.group = <<>> THEN Fail
  ELSE WithPublic([k EXCEPT !.version = d.version, !.priv = <<Number(d.key)>>], d.pub)
ReadPrivateKey(k, d) ==
  ReadInto(IF d.params = <<>> THEN k ELSE [k EXCEPT !.group = Params2Group(d.params[1])], d)

\* i2o_ECPublicKey and o2i_ECPublicKey, i2d_ECParameters and d2i_ECParameters
WritePublicKey(k) == Point2Oct(k.group[1], k.pub[1], k.form)
ReadPublicKey(k, s) == IF k.group = <<>> THEN Fail ELSE WithPublic(k, <<s>>)
WriteParameters(k) == Group2Params(k.group[1])
ReadParameters(k, p) ==
  IF Params2Group(p) = <<>> THEN Fail ELSE <<[k EXCEPT !.group = Params2Group(p)]>>

(* --------------------------- what is computed ---------------------------- *)
ReadsPoint == \E c \in Curves, n \in OctetLengths : \E o \in 0 .. 7 :
  \E s \in [1 .. n -> 0 .. Base - 1] :
    Calculates("oct2point", [c |-> c, s |-> <<o>> \o s], Oct2Point(c, <<o>> \o s))
WritesPoint == \E c \in Curves : \E q \in CurvePoints(c), form \in 1 .. 6 :
  Calculates("point2oct", [c |-> c, q |-> q, form |-> form], Point2Oct(c, q, form))
ChecksKey == \E k \in SomeKeys : Calculates("check", k, CheckKey(k))
SetsPublic == \E k \in SomeKeys, xy \in KeyChanges :
  Calculates("affine", [k |-> k, xy |-> xy], SetPublicAffine(k, xy[1], xy[2]))
Generates == \E k \in SomeKeys : k.group # <<>> /\ \E r \in 1 .. k.group[1].order - 1 :
  Calculates("generate", k, GenerateKey(k, r))
Copies == \E dest, src \in SomeKeys :
  Calculates("copy", [dest |-> dest, src |-> src], CopyKey(dest, src))
KeepsKey == \E k \in SomeKeys, into \in {NoKey} \cup {NewByCurveName(c.name) : c \in Curves} :
  /\ WritePrivateKey(k) # <<>>
  /\ Calculates("keep", [k |-> k, into |-> into], ReadPrivateKey(into, WritePrivateKey(k)[1]))
ReadsKey == \E d \in PrivateKeys, into \in {NoKey} \cup {NewByCurveName(c.name) : c \in Curves} :
  Calculates("read", [d |-> d, into |-> into], ReadPrivateKey(into, d))
SendsKey == \E k \in SomeKeys : \E form \in {Compressed, Uncompressed, Hybrid} :
  /\ k.group # <<>> /\ k.pub # <<>>
  /\ LET sent == SetConvForm(k, form)
         got == ReadParameters(NoKey, WriteParameters(sent)[1])[1] IN
     Calculates("send", [k |-> k, form |-> form], ReadPublicKey(got, WritePublicKey(sent)))

EcKeysNext ==
  \/ ReadsPoint \/ WritesPoint \/ ChecksKey \/ SetsPublic \/ Generates \/ Copies
  \/ KeepsKey \/ ReadsKey \/ SendsKey

(* ------------------------------ properties ------------------------------- *)
HasOrder(c, q) ==
  q \in {Multiple(c, i, Generator(c)) : i \in 1 .. c.order - 1}
Encodings ==
  [c \in Curves |->
     {Point2Oct(c, q, f) : q \in CurvePoints(c), f \in {Compressed, Uncompressed, Hybrid}}]
Proper(k) == k.pub # <<>> => k.pub[1] \in CurvePoints(k.group[1]) \ {<<>>}

(* An octet string is read as a point exactly if it is what some point of    *)
(* the curve is written as in some form, and gives that point; a key is      *)
(* accepted exactly if its public point is a multiple of the generator other *)
(* than infinity, and that of its private number if it has one below the     *)
(* order; a generated key is accepted; and a key that is written, sent or    *)
(* copied is the same when it is read, whatever it is read into              *)
(* (oct.c, ec_key.c, ec_asn1.c).                                             *)
EcKeysAreKept ==
  /\ Calculated("oct2point") =>
       LET c == calc.in.c s == calc.in.s IN
       IF s \in Encodings[c]
       THEN /\ calc.out # Fail /\ OnCurve(c, calc.out[1])
            /\ Point2Oct(c, calc.out[1], s[1] - (s[1] % 2)) = s \/ calc.out[1] = <<>>
       ELSE calc.out = Fail
  /\ Calculated("point2oct") /\ calc.in.form \in {Compressed, Uncompressed, Hybrid} =>
       Oct2Point(calc.in.c, calc.out) = <<calc.in.q>>
  /\ Calculated("check") =>
       LET k == calc.in IN
       calc.out = (/\ k.group # <<>> /\ k.pub # <<>>
                   /\ HasOrder(k.group[1], k.pub[1])
                   /\ k.priv # <<>> => \E i \in {k.priv[1]} :
                        i < k.group[1].order /\ k.pub[1] = Multiple(k.group[1], i, Generator(k.group[1])))
  /\ Calculated("affine") /\ calc.out.ok =>
       /\ CheckKey(calc.out.key) /\ calc.out.key.pub = <<calc.in.xy>>
       /\ [calc.out.key EXCEPT !.pub = calc.in.k.pub] = calc.in.k
  /\ Calculated("generate") => CheckKey(calc.out)
  /\ Calculated("copy") /\ calc.in.src.group # <<>> /\ calc.in.src.pub # <<>> =>
       /\ calc.in.src.priv # <<>> => calc.out = calc.in.src
       /\ CheckKey(calc.out) => CheckKey(calc.in.src)
  /\ Calculated("keep") /\ Proper(calc.in.k) =>
       LET k == calc.in.k into == calc.in.into
           group == IF k.no_params THEN into.group ELSE k.group IN
       IF group = <<>> THEN calc.out = Fail
       ELSE group = k.group =>
              calc.out = <<[NoKey EXCEPT !.group = group, !.priv = k.priv, !.version = k.version,
                                         !.pub = IF k.no_pub THEN <<>> ELSE k.pub,
                                         !.form = IF k.no_pub \/ k.pub = <<>> THEN @ ELSE k.form]>>
  /\ Calculated("read") /\ calc.out # Fail =>
       LET k == calc.out[1] IN
       /\ k.group # <<>> /\ k.priv # <<>>
       /\ k.pub # <<>> => OnCurve(k.group[1], k.pub[1])
  /\ Calculated("send") /\ Proper(calc.in.k) =>
       /\ calc.out # Fail
       /\ calc.out[1].pub = calc.in.k.pub /\ calc.out[1].group = calc.in.k.group
       /\ calc.out[1].form = calc.in.form

Start(s, n) == SubSeq(s, 1, IF n < Len(s) THEN n ELSE Len(s))
RECURSIVE NumBits(_)
NumBits(n) == IF n = 0 THEN 0 ELSE 1 + NumBits(n \div 2)
NumOctets(n) == (NumBits(n) + OctetBits - 1) \div OctetBits
NumberOf(s) == FoldLeft(LAMBDA n, o : (n * 2 ^ OctetBits) + o, 0, s)

(* -------------------------------- ECDSA ---------------------------------- *)
\* whole octets are cut off first, then the bits of the last one
\* a mutant: the bits of the last octet are kept
Unshifted(n, len, bits) == n
Shifted(n, len, bits) ==
  IF len * OctetBits > bits THEN n \div 2 ^ (OctetBits - (bits % OctetBits)) ELSE n
DigestToBn(digest, order) ==
  LET bits == NumBits(order)
      kept == IF OctetBits * Len(digest) > bits THEN NumOctets(order) ELSE Len(digest)
  IN Shifted(NumberOf(Start(digest, kept)), kept, bits)

\* the scalar that stands for k has one bit more than the order
FixedLength(k, order) ==
  IF NumBits(k + order) <= NumBits(order) THEN k + order + order ELSE k + order
XOf(c, k) == Multiple(c, FixedLength(k, c.order), Generator(c))[1] % c.order

\* draws with k = 0 or r = 0 are drawn again; s = 0 asks for another setup
Setup(c, k) == [kinv |-> Recip(k, c.order), r |-> XOf(c, k)]
SignatureBy(c, d, m, setup) ==
  [r |-> setup.r, s |-> ((((d * setup.r) + m) % c.order) * setup.kinv) % c.order]
RECURSIVE Sign(_, _, _, _)
Sign(c, d, m, draws) ==
  IF draws = <<>> THEN [r |-> 0, s |-> 0]
  ELSE IF draws[1] = 0 \/ XOf(c, draws[1]) = 0 \/ SignatureBy(c, d, m, Setup(c, draws[1])).s = 0
  THEN Sign(c, d, m, Tail(draws))
  ELSE SignatureBy(c, d, m, Setup(c, draws[1]))

\* ECDSA_do_sign_ex with values that ECDSA_sign_setup made before
SignWith(c, d, m, setup) ==
  IF SignatureBy(c, d, m, setup).s = 0 THEN [r |-> 0, s |-> 0] ELSE SignatureBy(c, d, m, setup)

\* a mutant: negative numbers are let through
OrNegative(c, n) == n # 0 /\ n < c.order
InRange(c, n) == n \in 1 .. c.order - 1
VerifiesAt(c, pub, r, u1, u2) ==
  LET pt == GroupSum(c, Multiple(c, u1, Generator(c)), Multiple(c, u2, pub)) IN
  pt # <<>> /\ pt[1] % c.order = r
Verify(c, pub, m, sig) ==
  /\ InRange(c, sig.r) /\ InRange(c, sig.s)
  /\ LET w == Recip(sig.s, c.order) IN
     VerifiesAt(c, pub, sig.r, (m * w) % c.order, (sig.r * w) % c.order)

\* ECDSA_size: DER of two numbers of the order's octets whose top bits are set
DerLength(len) == 1 + (IF len < 128 THEN 1 ELSE 2) + len
EcdsaSize(octets) == DerLength(2 * DerLength(octets + 1))

(* --------------------------------- ECDH ---------------------------------- *)
RECURSIVE OctetsOf(_, _)
OctetsOf(n, len) == IF len = 0 THEN <<>> ELSE Append(OctetsOf(n \div 2 ^ OctetBits, len - 1), n % 2 ^ OctetBits)

\* the x coordinate, padded to the size of the field and cut; <<>> is the error
ComputeKey(c, priv, pub, outlen) ==
  LET pt == Multiple(c, priv, pub) IN
  IF pt = <<>> THEN <<>>
  ELSE <<Start(OctetsOf(pt[1], NumOctets(c.p)), outlen)>>

\* hashes of the secret, a counter and the shared info, one after the other
Hashed(z, i, info) == [n \in 1 .. HashSize |-> <<z, i, info, n>>]
RECURSIVE DerivedFrom(_, _, _, _)
DerivedFrom(i, outlen, z, info) ==
  IF outlen < HashSize THEN Start(Hashed(z, i, info), outlen)
  ELSE IF outlen = HashSize THEN Hashed(z, i, info)
  ELSE Hashed(z, i, info) \o DerivedFrom(i + 1, outlen - HashSize, z, info)
Derived(outlen, z, info) == DerivedFrom(1, outlen, z, info)

(* --------------------------- what is computed ---------------------------- *)
VerifiedToo(c, d, m, sig) ==
  [sig |-> sig, verifies |-> Verify(c, Multiple(c, d, Generator(c)), m, sig)]
Signs == \E c \in SigningCurves : \E d \in 1 .. c.order - 1, digest \in Digests, draws \in DrawsFor(c) :
  LET m == DigestToBn(digest, c.order) IN
  Calculates("sign", [c |-> c, d |-> d, digest |-> digest, m |-> m],
             VerifiedToo(c, d, m, Sign(c, d, m, draws)))
SignsWith == \E c \in SigningCurves : \E d, k \in 1 .. c.order - 1, digest \in Digests :
  LET m == DigestToBn(digest, c.order) IN
  /\ XOf(c, k) # 0
  /\ Calculates("sign with", [c |-> c, d |-> d, digest |-> digest, m |-> m, k |-> k],
                VerifiedToo(c, d, m, SignWith(c, d, m, Setup(c, k))))
Verifies == \E c \in SigningCurves : \E d \in 1 .. c.order - 1, digest \in VerifyDigests :
  \E r, s \in -1 .. c.order :
    LET m == DigestToBn(digest, c.order) sig == [r |-> r, s |-> s] IN
    Calculates("verify", [c |-> c, d |-> d, digest |-> digest, m |-> m, sig |-> sig],
               Verify(c, Multiple(c, d, Generator(c)), m, sig))
Shares == \E x \in Secrets :
  LET pub(n) == Multiple(x.c, n, Generator(x.c)) IN
  Calculates("share", x, <<ComputeKey(x.c, x.mine, pub(x.theirs), x.outlen),
                           ComputeKey(x.c, x.theirs, pub(x.mine), x.outlen)>>)
Derives == \E x \in Derivations : Calculates("derive", x, Derived(x.outlen, x.z, x.info))

EcSignaturesNext == Signs \/ SignsWith \/ Verifies \/ Shares \/ Derives

(* ------------------------------ properties ------------------------------- *)
\* the leftmost bits of a digest, as many as the order has
Bits(s) == [i \in 1 .. OctetBits * Len(s) |->
  (s[((i - 1) \div OctetBits) + 1] \div 2 ^ (OctetBits - 1 - ((i - 1) % OctetBits))) % 2]
Leftmost(digest, order) ==
  FoldLeft(LAMBDA n, b : (2 * n) + b, 0, Start(Bits(digest), NumBits(order)))
\* what the holder of the private key d may have signed m with
KeyPairs == UNION {{<<c, k, Multiple(c, k, Generator(c))>> : k \in 1 .. c.order - 1} : c \in SigningCurves}
Signed(c, d, m, sig) ==
  \E t \in KeyPairs :
    /\ t[1] = c
    /\ t[3][1] % c.order = sig.r
    /\ (sig.s * t[2] - (m + (d * sig.r))) % c.order = 0

IntegerSize(n) == NumBits(n) \div OctetBits + 1

(* A signature verifies exactly if the private key signs these leading bits  *)
(* of the digest with it for some number drawn, and its numbers are between  *)
(* 1 and the order; one that was made verifies, and is no longer than        *)
(* ECDSA_size says; the scalar computed with always has the same length;     *)
(* both ends of an exchange make the same secret of the size of the field;   *)
(* and a derived key of some length is the start of the longer ones          *)
(* (ecdsa.c, ecdh.c).                                                        *)
EcSecretsAreShared ==
  /\ Calculated("sign") \/ Calculated("sign with") =>
       /\ calc.in.m = Leftmost(calc.in.digest, calc.in.c.order)
       /\ calc.out.sig # [r |-> 0, s |-> 0] => calc.out.verifies
  /\ Calculated("sign with") =>
       LET sig == calc.out.sig IN
       DerLength(DerLength(IntegerSize(sig.r)) + DerLength(IntegerSize(sig.s)))
         <= EcdsaSize(NumOctets(calc.in.c.order))
  /\ Calculated("sign with") =>
       LET k == FixedLength(calc.in.k, calc.in.c.order) IN
       NumBits(k) = NumBits(calc.in.c.order) + 1 /\ k % calc.in.c.order = calc.in.k
  /\ Calculated("verify") =>
       LET c == calc.in.c sig == calc.in.sig IN
       calc.out = (/\ {sig.r, sig.s} \subseteq 1 .. c.order - 1
                   /\ Signed(c, calc.in.d, Leftmost(calc.in.digest, c.order), sig))
  /\ Calculated("share") =>
       /\ calc.out[1] = calc.out[2] /\ calc.out[1] # <<>>
       /\ Len(calc.out[1][1]) = IF calc.in.outlen < NumOctets(calc.in.c.p)
                                THEN calc.in.outlen ELSE NumOctets(calc.in.c.p)
       /\ calc.in.outlen >= NumOctets(calc.in.c.p) =>
            \E t \in KeyPairs : t[1] = calc.in.c /\ t[3][1] = NumberOf(calc.out[1][1])
                               /\ (t[2] - calc.in.mine * calc.in.theirs) % calc.in.c.order = 0
  /\ Calculated("derive") =>
       /\ Len(calc.out) = calc.in.outlen
       /\ \A i \in DOMAIN calc.out :
            calc.out[i] = <<calc.in.z, ((i - 1) \div HashSize) + 1, calc.in.info, ((i - 1) % HashSize) + 1>>
=============================================================================

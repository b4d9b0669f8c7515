------------------------------- MODULE RsaKeys -------------------------------
(* RSA keys and the operations on them (rsa.c, rsa_impl.c) over small      *)
(* numbers, with the paddings of RsaPadding: keys are generated, checked   *)
(* and completed; the private operation takes the remainder theorem's way  *)
(* and checks itself.  0 stands for a number that is missing (NULL).  The  *)
(* Montgomery contexts are those of the key's own moduli; allocations      *)
(* succeed; the cache of blindings is RsaBlindings'.                       *)
EXTENDS Integers, Sequences, FiniteSets, Calculation
LOCAL INSTANCE SequencesExt

CONSTANTS
  OctetBits, MinPad, Trailer, HashLen, Digests,   \* as in RsaPadding
  MaxModulusBits,  \* OPENSSL_RSA_MAX_MODULUS_BITS
  SmallModulusBits, MaxPubExpBits,  \* from which size on, and how much, e is bounded
  OwnKeys,         \* the keys operations are done with
  SigningKeys,     \* those all signatures are tried for
  KeySizes,        \* the sizes of keys that are generated
  Exponents,       \* and their public exponents
  KeyParts,        \* keys that are checked, and
  PublicParts,     \* those that are completed: [n, e, d]
  Messages,        \* what is encrypted and signed
  HashValues,      \* what is signed as a hash
  SigPrefixes,     \* of hashes, a function: the algorithm's identifier
  TlsHash,         \* the hash without a prefix, NID_md5_sha1, and the
  TlsHashLen,      \* size of its digests: 36
  Factors          \* the r of blindings

RECURSIVE NumBits(_)
NumBits(n) == IF n = 0 THEN 0 ELSE 1 + NumBits(n \div 2)
RECURSIVE Power(_, _, _)
Power(b, e, n) ==
  IF e = 0 THEN 1 % n
  ELSE IF e % 2 = 1 THEN (b * Power(b, e - 1, n)) % n ELSE Power((b * b) % n, e \div 2, n)
RECURSIVE Gcd(_, _)
Gcd(a, b) == IF b = 0 THEN a ELSE Gcd(b, a % b)
IsPrime(n) == n > 1 /\ \A d \in 2 .. n - 1 : d * d > n \/ n % d # 0
HasInverse(a, n) == n > 1 /\ Gcd(a, n) = 1
InverseMod(a, n) == CHOOSE x \in 1 .. n - 1 : (a * x) % n = 1
NoKey == [n |-> 0]

Size(key) == (NumBits(key.n) + OctetBits - 1) \div OctetBits
Padding == INSTANCE RsaPadding WITH
  TLen <- 0, Masked <- {}, PssBits <- {}, SaltLens <- {}, Hashed <- {}
Rejected == Padding!Rejected
Number(s) == FoldLeft(LAMBDA n, o : (n * 2 ^ OctetBits) + o, 0, s)
Octets(n, len) == [i \in 1 .. len |-> (n \div 2 ^ (OctetBits * (len - i))) % 2 ^ OctetBits]

(* ---------------------------- the private operation ---------------------------- *)
HasCrt(key) == key.p # 0 /\ key.q # 0 /\ key.dmp1 # 0 /\ key.dmq1 # 0 /\ key.iqmp # 0

\* modulo p, the difference of the two halves times q^-1; then times q, plus the half modulo q
CrtPower(key, x) ==
  LET m1 == Power(x % key.q, key.dmq1, key.q)
      r0 == Power(x % key.p, key.dmp1, key.p) - m1
      r == IF r0 < 0 THEN r0 + key.p ELSE r0
  IN ((r * key.iqmp) % key.p) * key.q + m1
\* a mutant: the result is not verified with the public exponent
ModExpUnverified(key, x) == CrtPower(key, x)
ModExp(key, x) ==
  IF key.e # 0 /\ (Power(CrtPower(key, x), key.e, key.n) - x) % key.n # 0
  THEN Power(x, key.d, key.n) ELSE CrtPower(key, x)

\* x is blinded with r^e and the result with r^-1; r = 1 without blinding
PrivatePower(key, x, r) ==
  LET blinded == (x * Power(r, key.e, key.n)) % key.n
      result == IF HasCrt(key) THEN ModExp(key, blinded) ELSE Power(blinded, key.d, key.n)
  IN (result * InverseMod(r, key.n)) % key.n
PrivateTransform(key, em, r) ==
  IF Number(em) >= key.n THEN Rejected ELSE Octets(PrivatePower(key, Number(em), r), Len(em))

(* ------------------------------- raw operations ------------------------------- *)
ExponentFits(key) ==
  /\ key.n > key.e
  /\ NumBits(key.n) > SmallModulusBits => NumBits(key.e) <= MaxPubExpBits
PublicTransform(key, em) ==
  IF Number(em) >= key.n THEN Rejected ELSE Octets(Power(Number(em), key.e, key.n), Len(em))

\* pad: the random octets of type 2, or the seed of OAEP
Encrypt(key, m, padding, pad) ==
  LET em == CASE padding = "pkcs1" -> Padding!AddType2(Size(key), m, pad)
              [] padding = "oaep" -> Padding!AddOaep(Size(key), m, <<>>, pad)
              [] padding = "none" -> Padding!AddNone(Size(key), m)
  IN IF Size(key) > MaxModulusBits \/ ~ExponentFits(key) \/ em = Rejected THEN Rejected
     ELSE PublicTransform(key, em)

Decrypt(key, c, padding, r) ==
  LET em == PrivateTransform(key, c, r)
  IN IF Len(c) # Size(key) THEN Rejected
     ELSE IF em = Rejected THEN Rejected
     ELSE CASE padding = "pkcs1" -> Padding!CheckType2(Size(key), em)
            [] padding = "oaep" -> Padding!CheckOaep(Size(key), em, <<>>)
            [] padding = "none" -> Padding!CheckNone(Size(key), em)

SignRaw(key, m, padding, r) ==
  LET em == IF padding = "pkcs1" THEN Padding!AddType1(Size(key), m) ELSE Padding!AddNone(Size(key), m)
  IN IF em = Rejected THEN Rejected ELSE PrivateTransform(key, em, r)

VerifyRaw(key, sig, padding) ==
  LET em == PublicTransform(key, sig)
  IN IF NumBits(key.n) > MaxModulusBits \/ ~ExponentFits(key) \/ Len(sig) # Size(key) THEN Rejected
     ELSE IF em = Rejected THEN Rejected
     ELSE IF padding = "pkcs1" THEN Padding!CheckType1(Size(key), em) ELSE Padding!CheckNone(Size(key), em)

(* --------------------------------- signatures --------------------------------- *)
PrefixedMessage(hash, digest) ==
  IF hash = TlsHash THEN IF Len(digest) = TlsHashLen THEN digest ELSE Rejected
  ELSE IF hash \notin DOMAIN SigPrefixes THEN Rejected ELSE SigPrefixes[hash] \o digest

Sign(key, hash, digest, r) ==
  LET msg == PrefixedMessage(hash, digest)
  IN IF msg = Rejected \/ Size(key) < Padding!PaddingSize THEN Rejected
     ELSE IF Len(msg) > Size(key) - Padding!PaddingSize THEN Rejected
     ELSE SignRaw(key, msg, "pkcs1", r)

\* a mutant: what stands behind the digest is not looked at
VerifyStart(key, hash, digest, sig) ==
  LET msg == VerifyRaw(key, sig, "pkcs1")
      expected == PrefixedMessage(hash, digest)
  IN msg # Rejected /\ expected # Rejected /\ IsPrefix(expected, msg)
Verify(key, hash, digest, sig) ==
  LET msg == VerifyRaw(key, sig, "pkcs1")
  IN msg # Rejected /\ msg = PrefixedMessage(hash, digest)

(* ------------------------------------ keys ------------------------------------ *)
\* BN_generate_prime_ex: the two highest bits are set
PrimesOf(bits) == {x \in 3 * 2 ^ (bits - 2) .. 2 ^ bits - 1 : x % 2 = 1 /\ IsPrime(x)}
Completed(p, q, e) ==                             \* p > q
  LET d == InverseMod(e, (p - 1) * (q - 1))
  IN IF ~HasInverse(e, (p - 1) * (q - 1)) THEN NoKey
     ELSE [n |-> p * q, e |-> e, d |-> d, p |-> p, q |-> q,
           dmp1 |-> d % (p - 1), dmq1 |-> d % (q - 1), iqmp |-> InverseMod(q, p)]
BitsP(bits) == (bits + 1) \div 2
Suits(p, e) == Gcd(p - 1, e) = 1
\* the results for every prime drawn; a q that is p is drawn again, twice
Keygen(bits, e) ==
  LET ps == {p \in PrimesOf(BitsP(bits)) : Suits(p, e)}
      qs == PrimesOf(bits - BitsP(bits))
  IN {IF p > q THEN Completed(p, q, e) ELSE Completed(q, p, e) :
        <<p, q>> \in {pq \in ps \X qs : pq[1] # pq[2] /\ Suits(pq[2], e)}}
     \cup (IF ps \cap qs # {} THEN {NoKey} ELSE {})

CheckKey(key) ==
  IF (key.p # 0) # (key.q # 0) \/ key.n = 0 \/ key.e = 0 THEN FALSE
  ELSE IF key.d = 0 \/ key.p = 0 THEN TRUE
  ELSE LET pm1 == key.p - 1
           qm1 == key.q - 1
       IN /\ key.n = key.p * key.q
          /\ (key.d * key.e) % ((pm1 * qm1) \div Gcd(pm1, qm1)) = 1
          /\ (key.dmp1 # 0) = (key.dmq1 # 0) /\ (key.dmp1 # 0) = (key.iqmp # 0)
          /\ key.dmp1 # 0 =>
               /\ HasInverse(key.q, key.p)
               /\ key.dmp1 = key.d % pm1 /\ key.dmq1 = key.d % qm1
               /\ key.iqmp = InverseMod(key.q, key.p)

\* e * d - 1 is some multiple of the totient, found by dividing by n
RecoverCrtParams(k) ==
  LET multiple == ((k.e * k.d - 1) \div k.n) + 1
      totient == (k.e * k.d - 1) \div multiple
      sum == k.n - totient + 1
      square == sum * sum - 4 * k.n
      roots == {s \in 0 .. sum : s * s = square}
      q == (sum - CHOOSE s \in roots : TRUE) \div 2
      p == k.n \div q
  IN IF k.n = 0 \/ k.e = 0 \/ k.d = 0 \/ (k.e * k.d - 1) % multiple # 0 THEN NoKey
     ELSE IF roots = {} THEN NoKey
     ELSE IF p * q # k.n \/ q = 1 \/ ~HasInverse(q, p) THEN NoKey
     ELSE [n |-> k.n, e |-> k.e, d |-> k.d, p |-> p, q |-> q,
           dmp1 |-> k.d % (p - 1), dmq1 |-> k.d % (q - 1), iqmp |-> InverseMod(q, p)]

(* -------------------------------- calculations -------------------------------- *)
Pads(key, m, padding) ==
  CASE padding = "pkcs1" -> IF Len(m) + Padding!PaddingSize <= Size(key)
                            THEN [1 .. Size(key) - 3 - Len(m) -> 1 .. Padding!Top] ELSE {<<>>}
    [] padding = "oaep" -> Padding!Strings(HashLen)
    [] OTHER -> {<<>>}
\* every place of a key is changed for others
Changed(key) == {[key EXCEPT ![f] = v] : f \in DOMAIN key, v \in 0 .. 12}

ComputePrivately == \E key \in OwnKeys, r \in Factors, x \in {5 * i : i \in 0 .. 30} :
  Calculates("private", [key |-> key, x |-> x], PrivatePower(key, x, r))
EncryptAndDecrypt == \E key \in OwnKeys, m \in Messages, padding \in {"pkcs1", "oaep", "none"} :
  \E pad \in Pads(key, m, padding) :
    LET c == Encrypt(key, m, padding, pad)
    IN Calculates("crypt", [key |-> key, m |-> m, padding |-> padding],
         IF c = Rejected THEN c ELSE Decrypt(key, c, padding, 2))
SignAndVerify == \E key \in SigningKeys, hash \in DOMAIN SigPrefixes \cup {TlsHash, "unknown"}, digest \in HashValues :
  Calculates("sign", [key |-> key, hash |-> hash, digest |-> digest],
    [signed |-> Sign(key, hash, digest, 2),
     accepted |-> {x \in 0 .. key.n - 1 : Verify(key, hash, digest, Octets(x, Size(key)))}])
SignRawly == \E key \in OwnKeys, m \in Messages, padding \in {"pkcs1", "none"} :
  LET sig == SignRaw(key, m, padding, 2)
  IN Calculates("signRaw", [key |-> key, m |-> m, padding |-> padding], IF sig = Rejected THEN sig ELSE VerifyRaw(key, sig, padding))
Generate == \E bits \in KeySizes, e \in Exponents :
  Calculates("generate", [bits |-> bits, e |-> e], Keygen(bits, e))
Check == \E base \in KeyParts : \E key \in Changed(base) : Calculates("check", key, CheckKey(key))
Recover == \E k \in PublicParts : Calculates("recover", k, RecoverCrtParams(k))
RsaKeysNext ==
  ComputePrivately \/ EncryptAndDecrypt \/ SignAndVerify \/ SignRawly \/ Generate \/ Check \/ Recover

\* Whatever way the private operation takes, and though the values for the
\* remainder theorem be wrong, its result is the power of the private exponent;
\* what is encrypted is decrypted, if padding and exponent allow it.
Fits(key, m, padding) ==
  CASE padding = "pkcs1" -> Len(m) + Padding!PaddingSize <= Size(key)
    [] padding = "oaep" -> Len(m) <= Size(key) - 2 * HashLen - 2
    [] padding = "none" -> Len(m) = Size(key) /\ Number(m) < key.n
PrivateIsPower ==
  LET i == calc.in
      result(m) == IF ExponentFits(i.key) /\ Fits(i.key, m, i.padding) THEN m ELSE Rejected
  IN /\ Calculated("private") => calc.out = Power(i.x, i.key.d, i.key.n)
     /\ Calculated("crypt") => calc.out = result(i.m)
     /\ Calculated("signRaw") =>
          calc.out = IF NumBits(i.key.n) <= MaxModulusBits THEN result(i.m) ELSE Rejected

\* One signature of a digest verifies, the one that is made for it.
OneSignatureVerifies ==
  LET i == calc.in
  IN Calculated("sign") =>
       calc.out.accepted = IF calc.out.signed = Rejected \/ ~ExponentFits(i.key) THEN {} ELSE {Number(calc.out.signed)}

\* A checked key works: of two primes, its exponents are each other's inverse,
\* and the remainder theorem's values give the same power.
Works(key) ==
  /\ key.n = key.p * key.q
  /\ \A x \in 0 .. key.n - 1 : Power(Power(x, key.e, key.n), key.d, key.n) = x
InReducedForm(key) ==
  /\ key.dmp1 < key.p - 1 /\ key.dmq1 < key.q - 1 /\ key.iqmp < key.p
  /\ \A x \in 0 .. key.n - 1 : CrtPower(key, x) = Power(x, key.d, key.n)
CheckedKeysWork ==
  LET key == calc.in
      primes == IsPrime(key.p) /\ IsPrime(key.q) /\ key.p # key.q
  IN /\ Calculated("check") /\ key.n # 0 /\ key.e # 0 /\ key.d # 0 /\ primes =>
          calc.out = (/\ Works(key)
                      /\ \/ HasCrt(key) /\ InReducedForm(key)
                         \/ key.dmp1 = 0 /\ key.dmq1 = 0 /\ key.iqmp = 0)
     /\ Calculated("check") /\ calc.out => key.n # 0 /\ key.e # 0

\* A generated key is checked, and of the size asked for; generation only fails
\* if the primes are of the same size.  A key is completed if its totient can
\* be told from n, and then it is checked.
MadeKeysAreChecked ==
  LET i == calc.in
      factors == {p \in 2 .. i.n - 1 : i.n % p = 0 /\ IsPrime(p)}
  IN /\ Calculated("generate") =>
          \A key \in calc.out :
            IF key = NoKey THEN i.bits % 2 = 0
            ELSE CheckKey(key) /\ HasCrt(key) /\ NumBits(key.n) = i.bits /\ key.p > key.q /\ key.e = i.e
     /\ Calculated("recover") =>
          /\ calc.out # NoKey => CheckKey(calc.out)
          /\ \A p, q \in factors : p > q /\ p * q = i.n =>
               LET k == (i.e * i.d - 1) \div ((p - 1) * (q - 1))
               IN (i.e * i.d - 1) % ((p - 1) * (q - 1)) = 0 /\ k > 0 /\ k * (p + q - 1) <= i.n =>
                    calc.out # NoKey /\ calc.out.p = p /\ calc.out.q = q


\* Keys that are made or checked work, with every way to the private power,
\* and a signature verifies for what was signed alone (rsa.c, rsa_impl.c).
RsaIsRight == PrivateIsPower /\ OneSignatureVerifies /\ CheckedKeysWork /\ MadeKeysAreChecked
===============================================================================

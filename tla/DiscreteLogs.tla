----------------------------- MODULE DiscreteLogs -----------------------------
(* DSA (dsa_impl.c) and Diffie-Hellman (dh_impl.c, check.c, dh.c) over small *)
(* numbers: parameters as they are generated and checked, keys, signatures   *)
(* and shared secrets.  An octet has OctetBits bits; numbers drawn are all   *)
(* those that may be.  Both kinds of object keep the Montgomery context of   *)
(* the modulus they first computed with: mont is that modulus, or 0.         *)
EXTENDS Integers, Sequences, FiniteSets, Calculation
LOCAL INSTANCE SequencesExt

CONSTANTS
  OctetBits,       \* 8 in the source
  DsaGroups,       \* the parameters keys are made for: [p, q, g]
  DsaSizes,        \* the sizes of q that signatures are verified for (160, 224 and 256)
  MaxModulusBits,  \* 10000 in the source
  Digests,         \* the sequences of octets that are signed
  QBits, PBits,    \* the sizes of generated parameters, and of the bits that
  BlockStep,       \* the counter of hashes in a block is reckoned with (160)
  MaxCounter,      \* 4096 in the source
  Hashes,          \* the hash functions parameters are generated with, on 0 .. 2^QBits - 1
  SeedLists,       \* the seeds RAND_pseudo_bytes gives, and
  GivenSeeds,      \* those the caller does: [len, seed], seed <<>> for NULL
  DhSizes, DhGenerators,  \* the arguments of DH_generate_parameters_ex
  DhObjects,       \* the parameters that are checked: [p, q, g, j], q and j optional
  DhPairs          \* the ends of an exchange: parameters, private lengths, old contexts

RECURSIVE NumBits(_)
NumBits(n) == IF n = 0 THEN 0 ELSE 1 + NumBits(n \div 2)
NumOctets(n) == (NumBits(n) + OctetBits - 1) \div OctetBits
Number(s) == FoldLeft(LAMBDA n, o : (n * 2 ^ OctetBits) + o, 0, s)
Start(s, n) == SubSeq(s, 1, IF n < Len(s) THEN n ELSE Len(s))
IsPrime(n) == n > 1 /\ \A d \in 2 .. n - 1 : n % d # 0
Recip(x, q) == CHOOSE y \in 0 .. q - 1 : (x * y) % q = 1

\* b^e modulo p, by squares
RECURSIVE Power(_, _, _)
Power(b, e, p) ==
  IF e = 0 THEN 1 % p
  ELSE IF e % 2 = 1 THEN (b * Power(b, e - 1, p)) % p ELSE Power((b * b) % p, e \div 2, p)
\* BN_mod_exp_mont; in a context of another modulus it makes no sense
Senseless == -1
MontPower(b, e, p, mont) == IF mont \in {0, p} THEN Power(b, e, p) ELSE Senseless

(* ---------------------------------- DSA ---------------------------------- *)
FixedLength(k, q) == IF NumBits(k + q) <= NumBits(q) THEN k + q + q ELSE k + q
SignSetup(d, k) ==
  [kinv |-> Recip(k, d.q), r |-> MontPower(d.g, FixedLength(k, d.q), d.p, d.mont) % d.q]

\* a mutant: the whole digest is signed
UncutNumber(q, digest) == Number(digest)
SignedNumber(q, digest) == Number(Start(digest, NumOctets(q)))
Reduced(q, s) == IF s > q THEN s - q ELSE s
SignatureBy(d, m, setup) ==
  [r |-> setup.r, s |-> (Reduced(d.q, ((d.priv * setup.r) % d.q) + m) * setup.kinv) % d.q]
HasZero(sig) == sig.r = 0 \/ sig.s = 0

\* <<>> is the error; draws are the numbers k drawn one after the other
RECURSIVE SignDrawn(_, _, _)
SignDrawn(d, m, draws) ==
  IF draws = <<>> THEN <<>>
  ELSE IF draws[1] = 0 \/ HasZero(SignatureBy(d, m, SignSetup(d, draws[1])))
  THEN SignDrawn(d, m, Tail(draws))
  ELSE <<SignatureBy(d, m, SignSetup(d, draws[1]))>>
\* a setup made before is used once, and not redone
DsaSign(d, digest, setup, draws) ==
  LET m == SignedNumber(d.q, digest) IN
  IF setup = <<>> THEN SignDrawn(d, m, draws)
  ELSE IF HasZero(SignatureBy(d, m, setup[1])) THEN <<>> ELSE <<SignatureBy(d, m, setup[1])>>

InRange(n, q) == n \in 1 .. q - 1
VerifyIn(d, m, sig) ==
  LET w == Recip(sig.s, d.q) IN
  ((MontPower(d.g, (m * w) % d.q, d.p, d.mont)
    * MontPower(d.pub, (sig.r * w) % d.q, d.p, d.mont)) % d.p) % d.q = sig.r
\* DSA_do_verify: -1 is the error
DsaVerify(d, digest, sig) ==
  IF NumBits(d.q) \notin DsaSizes \/ NumBits(d.p) > MaxModulusBits THEN -1
  ELSE IF InRange(sig.r, d.q) /\ InRange(sig.s, d.q)
          /\ VerifyIn(d, Number(Start(digest, NumBits(d.q) \div OctetBits)), sig)
  THEN 1 ELSE 0

DsaKeygen(d, x) == [d EXCEPT !.priv = x, !.pub = Power(d.g, x, d.p)]
NoDsaKey(c) == [p |-> c.p, q |-> c.q, g |-> c.g, priv |-> 0, pub |-> 0, mont |-> 0]

(* ---------------------------- DSA parameters ----------------------------- *)
RECURSIVE Xor(_, _, _)
Xor(a, b, bits) ==
  IF bits = 0 THEN 0 ELSE 2 * Xor(a \div 2, b \div 2, bits - 1) + ((a + b) % 2)
WithBit(n, bit) == IF (n \div bit) % 2 = 1 THEN n ELSE n + bit
Next1(seed) == (seed + 1) % 2 ^ QBits
CandidateQ(hash, seed) ==
  WithBit(WithBit(Xor(hash[seed], hash[Next1(seed)], QBits), 2 ^ (QBits - 1)), 1)

\* n + 1 hashes make a number of PBits bits that is 1 modulo 2 q
Blocks == (PBits - 1) \div BlockStep
Wide(hash, seed, counter) ==
  FoldLeft(LAMBDA w, k :
      w + hash[(seed + 1 + counter * (Blocks + 1) + k + 1) % 2 ^ QBits] * 2 ^ (QBits * k),
    0, [k \in 1 .. Blocks + 1 |-> k - 1])
\* a mutant: the number before a multiple is taken
FromWideBelow(w, q) ==
  LET x == (w % 2 ^ (PBits - 1)) + 2 ^ (PBits - 1) IN x - ((x % (2 * q)) + 1)
FromWide(w, q) ==
  LET x == (w % 2 ^ (PBits - 1)) + 2 ^ (PBits - 1) IN x - ((x % (2 * q)) - 1)
CandidateP(hash, seed, counter, q) == FromWide(Wide(hash, seed, counter), q)
Suits(p) == p >= 2 ^ (PBits - 1) /\ IsPrime(p)
SuitingCounters(hash, seed, q) ==
  {c \in 0 .. MaxCounter - 1 : Suits(CandidateP(hash, seed, c, q))}

Least(S) == CHOOSE n \in S : \A m \in S : n <= m
GeneratorH(p, q) == Least({h \in 2 .. p - 1 : Power(h, (p - 1) \div q, p) # 1})
DsaResult(hash, seed, q) ==
  LET c == Least(SuitingCounters(hash, seed, q))
      p == CandidateP(hash, seed, c, q)
      h == GeneratorH(p, q)
  IN [p |-> p, q |-> q, g |-> Power(h, (p - 1) \div q, p), counter |-> c, h |-> h]

\* the seeds are tried one after the other; <<>> when there is none left
RECURSIVE ParamgenFrom(_, _)
ParamgenFrom(hash, seeds) ==
  IF seeds = <<>> THEN <<>>
  ELSE IF IsPrime(CandidateQ(hash, seeds[1]))
          /\ SuitingCounters(hash, seeds[1], CandidateQ(hash, seeds[1])) # {}
  THEN <<DsaResult(hash, seeds[1], CandidateQ(hash, seeds[1]))>>
  ELSE ParamgenFrom(hash, Tail(seeds))
\* a given seed that is too short or NULL is not copied: the buffer has any
FirstSeeds(given) ==
  IF given.len = 0 THEN {<<>>}
  ELSE IF given.len < QBits \div OctetBits \/ given.seed = <<>>
  THEN {<<s>> : s \in 0 .. 2 ^ QBits - 1} ELSE {given.seed}

(* ----------------------------- Diffie-Hellman ---------------------------- *)
\* BN_generate_prime_ex(p, bits, safe, add, rem) and the generator
Congruence(generator) ==
  CASE generator = 2 -> [add |-> 24, rem |-> 11, g |-> 2]
    [] generator = 5 -> [add |-> 10, rem |-> 3, g |-> 5]
    [] OTHER -> [add |-> 2, rem |-> 1, g |-> generator]
SafePrimes(bits, c) ==
  {p \in 2 ^ (bits - 1) .. 2 ^ bits - 1 : p % c.add = c.rem /\ IsPrime(p) /\ IsPrime((p - 1) \div 2)}
GenerateParameters(bits, generator) ==
  IF generator <= 1 THEN {<<>>}
  ELSE {<<[p |-> p, q |-> <<>>, g |-> Congruence(generator).g, j |-> <<>>]>> :
          p \in SafePrimes(bits, Congruence(generator))}

SubgroupProblems(d, q) ==
  (IF d.g <= 1 \/ d.g >= d.p \/ Power(d.g, q, d.p) # 1 THEN {"generator"} ELSE {})
  \cup (IF ~IsPrime(q) THEN {"q not prime"} ELSE {})
  \cup (IF d.p % q # 1 THEN {"q value"} ELSE {})
  \cup (IF d.j # <<>> /\ d.j[1] # d.p \div q THEN {"j value"} ELSE {})
\* a mutant: any odd number goes with 5
GeneratorLaxly(d) ==
  CASE d.g = 2 -> IF d.p % 24 # 11 THEN {"generator"} ELSE {}
    [] d.g = 5 -> {}
    [] OTHER -> {"unable to check"}
GeneratorProblems(d) ==
  CASE d.g = 2 -> IF d.p % 24 # 11 THEN {"generator"} ELSE {}
    [] d.g = 5 -> IF d.p % 10 \notin {3, 7} THEN {"generator"} ELSE {}
    [] OTHER -> {"unable to check"}
ModulusProblems(d) ==
  IF ~IsPrime(d.p) THEN {"p not prime"}
  ELSE IF d.q = <<>> /\ ~IsPrime(d.p \div 2) THEN {"p not safe"} ELSE {}
DhCheck(d) ==
  (IF d.q # <<>> THEN SubgroupProblems(d, d.q[1]) ELSE GeneratorProblems(d))
  \cup ModulusProblems(d)
\* a mutant: p - 1 is let through
DhCheckBelow(d, y) == (IF y <= 1 THEN {"too small"} ELSE {}) \cup (IF y >= d.p THEN {"too large"} ELSE {})
DhCheckPubKey(d, y) ==
  (IF y <= 1 THEN {"too small"} ELSE {}) \cup (IF y >= d.p - 1 THEN {"too large"} ELSE {})

\* the private numbers generate_key may draw; one that is there is kept
Length(d, len) == IF len # 0 THEN len ELSE NumBits(d.p) - 1
PrivateNumbers(d, len) ==
  IF d.q # <<>> THEN 2 .. d.q[1] - 1 ELSE 2 ^ (Length(d, len) - 1) .. 2 ^ Length(d, len) - 1
GenerateKey(d, priv, mont) == [priv |-> priv, pub |-> MontPower(d.g, priv, d.p, mont)]

\* BN_bn2bin, and the secret: -1 is the error
RECURSIVE Octets(_)
Octets(n) == IF n <= 0 THEN <<>> ELSE Append(Octets(n \div 2 ^ OctetBits), n % 2 ^ OctetBits)
ComputeKey(d, key, y, mont) ==
  IF NumBits(d.p) > MaxModulusBits \/ DhCheckPubKey(d, y) # {} THEN <<-1>>
  ELSE Octets(MontPower(y, key.priv, d.p, mont))

\* int_dh_param_copy: to keeps its own subgroup unless from has one (is_x942 is -1)
CopyParams(to, from, is_x942) ==
  [to EXCEPT !.p = from.p, !.g = from.g, !.q = IF is_x942 THEN from.q ELSE @,
             !.j = IF is_x942 THEN from.j ELSE @]
ParamsDup(d) == CopyParams([p |-> 0, q |-> <<>>, g |-> 0, j |-> <<>>], d, d.q # <<>>)

(* --------------------------- what is computed ---------------------------- *)
DsaKeys(c) == {DsaKeygen(NoDsaKey(c), x) : x \in 1 .. c.q - 1}
SignsDsa == \E c \in DsaGroups, digest \in Digests : \E d \in DsaKeys(c), k, k2 \in 0 .. c.q - 1 :
  \E made \in {m \in BOOLEAN : m => k # 0} :
    LET sig == DsaSign(d, digest, IF made THEN <<SignSetup(d, k)>> ELSE <<>>, <<k, k2>>) IN
    /\ made => k2 = 1
    /\ Calculates("dsa sign", [d |-> d, digest |-> digest],
                  IF sig = <<>> THEN <<>> ELSE <<sig[1], DsaVerify(d, digest, sig[1])>>)
VerifiesDsa == \E c \in DsaGroups, digest \in Digests : \E d \in DsaKeys(c), r, s \in -1 .. c.q :
  LET sig == [r |-> r, s |-> s] IN
  Calculates("dsa verify", [d |-> d, digest |-> digest, sig |-> sig], DsaVerify(d, digest, sig))
Paramgens == \E hash \in Hashes, list \in SeedLists, given \in GivenSeeds :
  \E first \in FirstSeeds(given) :
    Calculates("dsa parameters", first, ParamgenFrom(hash, first \o list))
GeneratesDh == \E bits \in DhSizes, generator \in DhGenerators :
  \E d \in GenerateParameters(bits, generator) :
    Calculates("dh parameters", generator,
               IF d = <<>> THEN <<>> ELSE <<d[1], ParamsDup(d[1]), DhCheck(d[1])>>)
ChecksDh == \E d \in DhObjects : Calculates("dh check", d, [found |-> DhCheck(d), dup |-> ParamsDup(d)])
ExchangesDh == \E x \in DhPairs : \E a, b \in PrivateNumbers(x.d, x.len), y \in -1 .. x.d.p :
  LET alice == GenerateKey(x.d, a, 0)
      bob == GenerateKey(x.d, b, 0)
  IN /\ y # bob.pub => b = a
     /\ Calculates("dh exchange", [d |-> x.d, alice |-> alice, bob |-> bob, y |-> y, mont |-> x.mont],
                   <<ComputeKey(x.d, alice, y, 0), ComputeKey(x.d, bob, alice.pub, x.mont)>>)

DiscreteLogsNext ==
  \/ SignsDsa \/ VerifiesDsa \/ Paramgens \/ GeneratesDh \/ ChecksDh \/ ExchangesDh

(* ------------------------------ properties ------------------------------- *)
Order(g, p) == Least({n \in 1 .. p - 1 : Power(g, n, p) = 1})
\* the holder of the private key signs the number with it for some k
SignedBy(d, m, sig) ==
  \E k \in 0 .. d.q - 1 : /\ Power(d.g, k, d.p) % d.q = sig.r
                          /\ (sig.s * k - (m + d.priv * sig.r)) % d.q = 0

(* A signature that was made verifies, and one verifies exactly if its       *)
(* numbers are in range and the private key makes it for some number drawn;  *)
(* generated parameters are primes of their sizes, one dividing the other    *)
(* less one, and a generator of that order; generated Diffie-Hellman         *)
(* parameters are found right by the check, and what it finds right has a    *)
(* generator of the order it should; and both ends make the same secret, not *)
(* from the numbers at the ends of the range, unless one of them has kept    *)
(* the context of an older modulus (dsa_impl.c, dh_impl.c, check.c).         *)
LogsAreRight ==
  /\ Calculated("dsa sign") /\ calc.out # <<>> =>
       calc.out[2] = IF NumBits(calc.in.d.q) \in DsaSizes THEN 1 ELSE -1
  /\ Calculated("dsa verify") =>
       LET d == calc.in.d sig == calc.in.sig IN
       IF NumBits(d.q) \notin DsaSizes THEN calc.out = -1
       ELSE calc.out = IF /\ {sig.r, sig.s} \subseteq 1 .. d.q - 1
                          /\ SignedBy(d, Number(Start(calc.in.digest, NumOctets(d.q))), sig)
                       THEN 1 ELSE 0
  /\ Calculated("dsa parameters") =>
       \A i \in DOMAIN calc.out : LET d == calc.out[i] IN
         /\ IsPrime(d.p) /\ IsPrime(d.q) /\ NumBits(d.p) = PBits /\ NumBits(d.q) = QBits
         /\ (d.p - 1) % d.q = 0 /\ Order(d.g, d.p) = d.q
  /\ Calculated("dh parameters") /\ calc.out # <<>> =>
       /\ calc.out[2] = calc.out[1]
       /\ calc.out[3] = IF calc.in \in {2, 5} THEN {} ELSE {"unable to check"}
       /\ calc.in \in {2, 5} => Order(calc.out[1].g, calc.out[1].p) = calc.out[1].p - 1
  /\ Calculated("dh check") =>
       LET d == calc.in IN
       /\ calc.out.dup.q = <<>> \/ calc.out.dup = d
       /\ calc.out.found = {} =>
            /\ IsPrime(d.p)
            /\ Order(d.g, d.p) = IF d.q # <<>> THEN d.q[1] ELSE d.p - 1
  /\ Calculated("dh exchange") =>
       LET d == calc.in.d IN
       /\ calc.in.y \notin 2 .. d.p - 2 => calc.out[1] = <<-1>>
       /\ /\ calc.in.mont \in {0, d.p} /\ calc.in.y = calc.in.bob.pub /\ calc.out[1] # <<-1>>
          /\ DhCheckPubKey(d, calc.in.alice.pub) = {}
          => /\ calc.out[1] = calc.out[2]
             /\ Number(calc.out[1]) = Power(d.g, calc.in.alice.priv * calc.in.bob.priv, d.p)
=============================================================================

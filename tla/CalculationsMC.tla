--------------------------- MODULE CalculationsMC ---------------------------
(* The functions that keep no state, each on a bounded set of arguments: a  *)
(* behaviour is one call.  Topics are independent; the one chosen at the    *)
(* start says which functions are called.                                   *)
(*   certificates: a path of four, with one certificate of it changed in    *)
(*     any of forty ways, or with self-issued ones, proxies and keys of     *)
(*     several curves, placed among the untrusted ones and the store in     *)
(*     nine ways; and revocation lists for it, alone and in pairs;          *)
(*   algorithms, words: words of four bits, numbers of up to three words,   *)
(*     for long products of up to nine, strings of base three.              *)
EXTENDS CertVerification, BigNumbers

VARIABLE topic   \* which functions are called

(* --------------------------- certificates ------------------------------ *)
Authority(name, by, key, signer) ==
  [Plain EXCEPT !.subject = name, !.issuer = by, !.key = key, !.signed = signer, !.basic = "ca",
                !.skid = key, !.akid = signer, !.kusage = {"keyCertSign", "cRLSign"}]
Root == Authority("R", "R", "kR", "kR")
Mid == Authority("I", "R", "kI", "kR")
LowCA == Authority("J", "I", "kJ", "kI")
Leaf == [Plain EXCEPT !.subject = "L", !.issuer = "J", !.key = "kL", !.signed = "kJ", !.serial = 7,
                      !.akid = "kJ", !.xkusage = {"serverAuth"}, !.kusage = {"digitalSignature"},
                      !.ids = {"HOSTNAME_MISMATCH", "EMAIL_MISMATCH", "IP_ADDRESS_MISMATCH"}]

Variants(c) ==
  {c, [c EXCEPT !.until = 4], [c EXCEPT !.from = 6], [c EXCEPT !.from = 5, !.until = 6],
   [c EXCEPT !.until = 5], [c EXCEPT !.from = -1], [c EXCEPT !.until = -1],
   [c EXCEPT !.signed = "kX"], [c EXCEPT !.key = None], [c EXCEPT !.critical = TRUE],
   [c EXCEPT !.basic = None], [c EXCEPT !.basic = None, !.kusage = Absent],
   [c EXCEPT !.basic = None, !.kusage = Absent, !.version = 1],
   [c EXCEPT !.basic = None, !.kusage = Absent, !.nscert = {"sslCA"}],
   [c EXCEPT !.basic = None, !.kusage = Absent, !.nscert = {"objCA"}],
   [c EXCEPT !.basic = "end"], [c EXCEPT !.basic = "ca"], [c EXCEPT !.basic = "end", !.pathlen = 3],
   [c EXCEPT !.pathlen = 0], [c EXCEPT !.pathlen = 1], [c EXCEPT !.pathlen = -2],
   [c EXCEPT !.kusage = {"keyCertSign"}], [c EXCEPT !.kusage = {"digitalSignature"}],
   [c EXCEPT !.kusage = Absent], [c EXCEPT !.nscert = {"sslClient"}],
   [c EXCEPT !.xkusage = Absent], [c EXCEPT !.xkusage = {"clientAuth"}],
   [c EXCEPT !.xkusage = {"sgc"}], [c EXCEPT !.name = "b"], [c EXCEPT !.permitted = {"a"}],
   [c EXCEPT !.permitted = {"b"}], [c EXCEPT !.excluded = {"a"}], [c EXCEPT !.ids = {}],
   [c EXCEPT !.trusted = {"any"}], [c EXCEPT !.trusted = {"serverAuth"}],
   [c EXCEPT !.rejected = {"any"}], [c EXCEPT !.akserial = 3], [c EXCEPT !.akissuer = "Z"],
   [c EXCEPT !.akid = None]}

P0 == [first |-> FALSE, partial |-> FALSE, strict |-> FALSE, ss |-> FALSE, critical |-> FALSE,
       proxies |-> FALSE, purpose |-> "sslserver", trust |-> "default", depth |-> 9, time |-> 5,
       ids |-> {}, revoked |-> None, extended |-> FALSE, deltas |-> FALSE, suiteb |-> {}]
Params ==
  {P0, [P0 EXCEPT !.first = TRUE], [P0 EXCEPT !.partial = TRUE], [P0 EXCEPT !.strict = TRUE],
   [P0 EXCEPT !.ss = TRUE], [P0 EXCEPT !.critical = TRUE, !.purpose = None],
   [P0 EXCEPT !.trust = "serverAuth", !.ids = {"HOSTNAME_MISMATCH"}],
   [P0 EXCEPT !.depth = 2], [P0 EXCEPT !.depth = 3, !.proxies = TRUE]}

AllErrors ==
  ChainFaults \cup
  {"UNHANDLED_CRITICAL_EXTENSION", "PROXY_CERTIFICATES_NOT_ALLOWED", "INVALID_NON_CA", "INVALID_CA",
   "INVALID_PURPOSE", "PATH_LENGTH_EXCEEDED", "PROXY_PATH_LENGTH_EXCEEDED", "PERMITTED_VIOLATION",
   "EXCLUDED_VIOLATION", "HOSTNAME_MISMATCH", "EMAIL_MISMATCH", "IP_ADDRESS_MISMATCH",
   "ERROR_IN_CRL_LAST_UPDATE_FIELD", "CRL_NOT_YET_VALID", "ERROR_IN_CRL_NEXT_UPDATE_FIELD",
   "CRL_HAS_EXPIRED", "KEYUSAGE_NO_CRL_SIGN", "DIFFERENT_CRL_SCOPE", "CRL_PATH_VALIDATION_ERROR",
   "UNABLE_TO_DECODE_ISSUER_PUBLIC_KEY", "CRL_SIGNATURE_FAILURE", "UNHANDLED_CRITICAL_CRL_EXTENSION",
   "CERT_REVOKED", "UNABLE_TO_GET_CRL", "ERROR_IN_CERT_NOT_BEFORE_FIELD", "CERT_NOT_YET_VALID",
   "ERROR_IN_CERT_NOT_AFTER_FIELD", "CERT_HAS_EXPIRED", "CERT_SIGNATURE_FAILURE",
   "UNABLE_TO_VERIFY_LEAF_SIGNATURE", "SUITE_B_INVALID_ALGORITHM", "SUITE_B_INVALID_SIGNATURE_ALGORITHM",
   "SUITE_B_LOS_NOT_ALLOWED", "SUITE_B_INVALID_CURVE", "SUITE_B_INVALID_VERSION",
   "SUITE_B_CANNOT_SIGN_P_384_WITH_P_256"}

Base == <<Leaf, LowCA, Mid, Root>>
OneOff == UNION {{[Base EXCEPT ![k] = v] : v \in Variants(Base[k])} : k \in 1 .. 4}
(* Self-issued authorities, proxies and certificates that certify each      *)
(* other.                                                                   *)
Self == [LowCA EXCEPT !.subject = "I", !.key = "kJ"]
Proxy == [Leaf EXCEPT !.proxy = TRUE, !.issuer = "J", !.subject = "P"]
Unusual ==
  {<<[Leaf EXCEPT !.issuer = "I"], Self, [Mid EXCEPT !.pathlen = n], Root>> : n \in {-1, 0, 1}}
  \cup {<<[Leaf EXCEPT !.issuer = "I"], [Self EXCEPT !.pathlen = n], Mid, Root>> : n \in {-1, 0, 1}}
  \cup {<<[Proxy EXCEPT !.pcpathlen = n, !.issuer = "L", !.signed = "kL", !.akid = None],
          [Leaf EXCEPT !.issuer = "I", !.signed = "kI", !.akid = None, !.basic = b],
          [Mid EXCEPT !.pathlen = m], Root>> :
           n \in {-1, 0, 1}, m \in {-1, 0, 1}, b \in {None, "ca", "end"}}
  \cup {<<[Proxy EXCEPT !.issuer = "P", !.subject = "PP", !.signed = "kL", !.akid = None],
          [Proxy EXCEPT !.pcpathlen = n, !.issuer = "E", !.signed = "kE", !.akid = None, !.key = "kL"],
          [Leaf EXCEPT !.subject = "E", !.issuer = "R", !.signed = "kR", !.akid = None, !.key = "kE"],
          Root>> : n \in {-1, 0, 1}}
  \cup {<<Leaf, LowCA, Mid, [Root EXCEPT !.issuer = "I", !.signed = "kI", !.akid = "kI"]>>}

Curves == {<<"p256", "p256-sha256">>, <<"p384", "p384-sha384">>, <<"p384", "p256-sha256">>,
           <<"p256", "p384-sha384">>, <<None, "rsa">>}
InSuiteB ==
  {[k \in 1 .. 4 |-> [Base[k] EXCEPT !.curve = (IF k <= n THEN c ELSE d)[1],
                                    !.algorithm = (IF k <= m THEN c ELSE d)[2]]] :
     c, d \in Curves, n \in 0 .. 4, m \in 0 .. 4}
SomeInSuiteB == {x \in InSuiteB : x[3].curve = "p384" \/ x[1].curve # "p384"}
MCCertRequests ==
  {[paths |-> OneOff \cup Unusual, params |-> Params],
   [paths |-> SomeInSuiteB, params |-> {[P0 EXCEPT !.suiteb = l] : l \in {{"128"}, {"192"}, {"128", "192"}}}]}
MCCertErrors == AllErrors

(* Only the root is changed, in how it is trusted.                          *)
MCRejections ==
  {[paths |-> {[Base EXCEPT ![4] = v] : v \in Variants(Root)}, params |-> {P0}]}

Signer == Authority("C", "R", "kC", "kR")
List(by, key) == [PlainCrl EXCEPT !.issuer = by, !.signed = key, !.akid = key]
Entry(serial, by, remove) == [serial |-> serial, issuer |-> by, remove |-> remove]
Of(l) ==
  {l, [l EXCEPT !.entries = <<Entry(7, None, FALSE)>>], [l EXCEPT !.entries = <<Entry(7, None, TRUE)>>],
   [l EXCEPT !.entries = <<Entry(6, "I", FALSE), Entry(7, None, FALSE)>>],
   [l EXCEPT !.until = 4], [l EXCEPT !.until = 4, !.entries = <<Entry(7, None, FALSE)>>],
   [l EXCEPT !.from = 6], [l EXCEPT !.from = -1], [l EXCEPT !.until = -1], [l EXCEPT !.until = 0],
   [l EXCEPT !.critical = TRUE], [l EXCEPT !.critical = TRUE, !.entries = <<Entry(7, None, FALSE)>>],
   [l EXCEPT !.signed = "kX"], [l EXCEPT !.akid = "kX"]}
Scoped(l) ==
  {[l EXCEPT !.idp = TRUE, !.only = o] : o \in {{"user"}, {"ca"}, {"attr"}, {"user", "ca"}}}
  \cup {[l EXCEPT !.idp = TRUE, !.somereasons = TRUE, !.reasons = r] : r \in SUBSET AllReasons}
  \cup {[l EXCEPT !.idp = TRUE, !.point = pt] : pt \in {{"p1"}, {"p2"}}}
Deltas(l) ==
  {[l EXCEPT !.number = 5, !.base = b, !.until = u, !.entries = e] :
     b \in {3, 4}, u \in {4, 9}, e \in {<<>>, <<Entry(7, None, FALSE)>>, <<Entry(7, None, TRUE)>>}}
Indirect ==
  {[List("C", "kC") EXCEPT !.idp = TRUE, !.indirect = TRUE, !.entries = e, !.akid = a] :
     e \in {<<>>, <<Entry(7, "J", FALSE)>>, <<Entry(7, None, FALSE)>>}, a \in {"kC", None}}
  \cup {[List("D", "kD") EXCEPT !.idp = TRUE, !.indirect = TRUE, !.entries = e] :
     e \in {<<>>, <<Entry(7, "J", FALSE)>>}}
  \cup {[List("R", "kR") EXCEPT !.idp = TRUE, !.indirect = TRUE, !.entries = e] :
     e \in {<<>>, <<Entry(7, "J", FALSE)>>}}
ByJ == List("J", "kJ")
Fresh == [ByJ EXCEPT !.number = 3, !.freshest = TRUE]
MCRevocationLists ==
  {<<>>} \cup {<<a>> : a \in Of(ByJ) \cup Scoped(ByJ) \cup Indirect \cup Deltas(ByJ)}
  \cup {<<a, b>> : a \in {ByJ, [ByJ EXCEPT !.entries = <<Entry(7, None, FALSE)>>]},
                  b \in Of(ByJ) \cup Scoped(ByJ) \cup Indirect}
  \cup {<<a, b>> : a, b \in Scoped(ByJ)}
  \cup {<<[Fresh EXCEPT !.until = u, !.entries = e], b>> :
           u \in {4, 9}, e \in {<<>>, <<Entry(7, None, FALSE)>>}, b \in Deltas(ByJ)}
Point(name, issuers, reasons) == [name |-> name, issuers |-> issuers, reasons |-> reasons]
MCRevocationPaths ==
  {Base, [Base EXCEPT ![1].points = <<Point({"p1"}, Absent, AllReasons)>>],
   [Base EXCEPT ![1].points = <<Point({"p2"}, {"C"}, AllReasons), Point(Absent, Absent, {"key"})>>],
   [Base EXCEPT ![2].kusage = {"keyCertSign"}], [Base EXCEPT ![2].key = "kZ", ![1].signed = "kZ"]}
R0 == [P0 EXCEPT !.revoked = "leaf"]
MCRevocationParams ==
  {R0, [R0 EXCEPT !.revoked = "all"], [R0 EXCEPT !.extended = TRUE], [R0 EXCEPT !.deltas = TRUE],
   [R0 EXCEPT !.deltas = TRUE, !.extended = TRUE, !.critical = TRUE]}
OtherRoot == Authority("S", "S", "kS", "kS")
MCOtherSigners == <<Signer, Authority("D", "S", "kD", "kS")>>
MCOtherRoots == <<OtherRoot>>
MCUpperLists == <<List("I", "kI"), List("R", "kR")>>

(* ----------------------------- big numbers ----------------------------- *)
MCWindowLimits == <<9, 7, 5, 3>>
MCSmallPrimes == <<2, 3, 5, 7>>
MCPairs == [a : -21 .. 21, b : -21 .. 21]
MCRoots == -1 .. 101
MCPowers == [a : {0, 1, 2, 7, 15, 16, 22}, m : {1, 2, 6, 9, 15, 16, 17, 25},
             p : {0, 1, 2, 6, 11, 15, 45, 127, 129, 255, 300, 511, 600, 1023, 1500}]
MCSecondPowers == {<<2, 13>>, <<3, 44>>, <<5, 1>>, <<20, 127>>}
Words(lengths) ==
  {d \in UNION {[1 .. n -> {0, 1, 7, 8, 15}] : n \in lengths} : d # <<>> => d[Len(d)] # 0}
Numbers(lengths) == {[neg |-> 0, d |-> d] : d \in Words(lengths)}
NegativeNumbers(lengths) == {[neg |-> 1, d |-> d] : d \in Words(lengths)}
MCBnCases ==
  [a : Numbers(0 .. 3) \cup NegativeNumbers(1 .. 2), b : Numbers(0 .. 2) \cup NegativeNumbers({1})]
Pattern(n, k, x, y) == [i \in 1 .. n |-> IF i % k = 0 THEN x ELSE y]
MCLongCases ==
  {c \in [a : {Pattern(n, k, x, y) : n \in 3 .. 9, k \in 1 .. 3, x \in {9, 15}, y \in {0, 15}},
          b : {Pattern(n, k, x, y) : n \in 3 .. 9, k \in {1, 3}, x \in {1, 15}, y \in {2, 15}}] :
     c.a[Len(c.a)] # 0 /\ c.b[Len(c.b)] # 0}
MCDigitCases == [neg : {0, 1}, digits : UNION {[1 .. n -> {0, 1, 2}] : n \in 0 .. 5}]

(* ------------------------ byte strings, sessions ----------------------- *)
Ones(n) == [i \in 1 .. n |-> 1]
WriterOp(level, kind, len_len, bytes) ==
  [level |-> level, kind |-> kind, len_len |-> len_len, bytes |-> bytes]
WriterOps ==
  {WriterOp(l, "bytes", 0, Ones(n)) : l \in 0 .. 2, n \in {0, 14, 15, 17}}
  \cup {WriterOp(l, "prefix", n, <<>>) : l \in 0 .. 2, n \in 1 .. 2}
  \cup {WriterOp(l, "asn1", 1, <<4>>) : l \in 0 .. 2}
MCWriterCases == [cap : {-1, 34}, ops : UNION {[1 .. n -> WriterOps] : n \in 0 .. 3}]
MCElementCases ==
  [bytes : UNION {[1 .. n -> {0, 1, 4, 16, 17}] : n \in 0 .. 5}, ber : BOOLEAN]
  \cup {[bytes |-> <<4, 16>> \o b, ber |-> TRUE] : b \in [1 .. 5 -> {0, 1, 4, 16}]}
  \cup {[bytes |-> b \o Ones(n), ber |-> FALSE] : n \in {14, 15, 16, 17, 31, 32, 33, 34},
          b \in {<<4, 15>>, <<4, 16>>, <<4, 17, 15>>, <<4, 17, 16>>, <<4, 18, 0, 31>>, <<4, 18, 1, 1>>}}
Strings == INSTANCE ByteStrings WITH
  Octet <- 32, MAX_DEPTH <- 2, WriterCases <- MCWriterCases, ElementCases <- MCElementCases

Kept1(n) == [i \in 1 .. n |-> i]
Gone == <<-1>>
AnySession ==
  [ssl_version |-> 769, cipher |-> 47, session_id |-> Kept1(2), master_key |-> Kept1(3),
   key_arg |-> <<>>, time |-> 5, timeout |-> 7, peer |-> <<7>>, sid_ctx |-> Kept1(2),
   verify_result |-> 0, tlsext_hostname |-> Gone, psk_identity_hint |-> Gone,
   psk_identity |-> Gone, tick_lifetime_hint |-> 0, tlsext_tick |-> Gone,
   peer_sha256 |-> Gone, original_handshake_hash |-> <<>>]
MCCodecSessions ==
  {[AnySession EXCEPT !.ssl_version = v, !.cipher = c, !.key_arg = k, !.time = t, !.timeout = t,
      !.peer = p, !.peer_sha256 = h, !.verify_result = r, !.tick_lifetime_hint = l,
      !.tlsext_tick = k2, !.tlsext_hostname = n, !.psk_identity_hint = n, !.psk_identity = k2,
      !.original_handshake_hash = o] :
     v \in {2, 768}, c \in {0, 47}, k \in {<<>>, Kept1(2)}, t \in {0, 5}, p \in {Gone, <<7>>},
     h \in {Gone, Kept1(3)}, r \in {0, 10}, l \in {-1, 0, 4}, k2 \in {Gone, Kept1(1)},
     n \in {Gone, Kept1(2)}, o \in {<<>>, Kept1(3), Kept1(4)}}
MCCodecStored ==
  {s \in MCCodecSessions :
     /\ s.cipher = 47 /\ s.time = 5 /\ s.verify_result = 0 /\ s.tick_lifetime_hint >= 0
     /\ s.original_handshake_hash # Kept1(3) /\ s.peer = Gone /\ s.peer_sha256 = Gone}
Coded(tag, val) == [tag |-> tag, val |-> val]
MCCodecChanges ==
  [at : 1 .. 12,
   put : {<<>>} \cup {<<Coded(t, Kept1(n))>> : t \in {0, 4, 10, 13, 14, -2}, n \in {0, 2, 3, 4, 5}}
         \cup {<<Coded(-1, n)>> : n \in {2, 256, 768}}
         \cup {<<Coded(a, 4), Coded(b, 0)>> : a \in {1, 2, 5, 9}, b \in {1, 2, 5, 9}}]
Sessions == INSTANCE SessionCodec WITH
  MAX_SESSION_ID <- 4, MAX_MASTER_KEY <- 3, MAX_KEY_ARG <- 2, MAX_SID_CTX <- 2,
  SHA256_SIZE <- 3, EVP_MAX_MD_SIZE <- 4, KnownCiphers <- {47}, Now <- 9,
  CodecSessions <- MCCodecSessions, CodecStored <- MCCodecStored, CodecChanges <- MCCodecChanges

(* ------------------------------- policies ------------------------------ *)
CaOf(policies, maps, explicit, any, map, self_issued) ==
  [policies |-> policies, maps |-> maps, explicit_skip |-> explicit, any_skip |-> any,
   map_skip |-> map, self_issued |-> self_issued, bad |-> FALSE]
Maps(pairs) == [i \in DOMAIN pairs |-> [from |-> pairs[i][1], to |-> pairs[i][2]]]
PlainCas ==
  {CaOf(p, Maps(m), -1, -1, -1, FALSE) :
     p \in {{"A"}, {"anyPolicy"}, {"A", "B"}, {"A", "anyPolicy"}},
     m \in {<<>>, <<<<"A", "B">>>>, <<<<"A", "B">>, <<"A", "C">>>>, <<<<"A", "B">>, <<"B", "A">>>>}}
OddCas ==
  {CaOf(p, Maps(m), t[1], t[2], t[3], t[4]) :
     p \in {{"A"}, {"A", "anyPolicy"}}, m \in {<<>>, <<<<"A", "B">>>>},
     t \in {<<-1, 0, -1, FALSE>>, <<-1, 1, 1, FALSE>>, <<-1, 0, 0, TRUE>>}}
PolicyLeaves ==
  {CaOf(p, <<>>, -1, -1, -1, FALSE) : p \in {{"A"}, {"B"}, {"anyPolicy"}, {"C", "B"}}}
  \cup {CaOf({}, <<>>, 0, -1, -1, FALSE), CaOf({"A"}, <<>>, 0, -1, -1, TRUE)}
Unusable(c) == [c EXCEPT !.bad = TRUE]
MCPolicyChains ==
  {<<>>} \cup {<<u, l>> : u \in PlainCas \cup OddCas, l \in PolicyLeaves}
  \cup {<<u, v, l>> : u \in PlainCas, v \in OddCas, l \in PolicyLeaves}
  \cup {<<u, v, l>> : u \in OddCas, v \in PlainCas, l \in PolicyLeaves}
  \cup {<<Unusable(u), l>> : u \in PlainCas, l \in PolicyLeaves}
  \cup {<<u, Unusable(l)>> : u \in PlainCas, l \in PolicyLeaves}
PolicyRequest(user, explicit, inhibit_any, inhibit_map) ==
  [user |-> user, explicit |-> explicit, inhibit_any |-> inhibit_any, inhibit_map |-> inhibit_map]
MCPolicyRequests ==
  {PolicyRequest(u, TRUE, FALSE, FALSE) : u \in {{}, {"anyPolicy"}, {"A"}}}
  \cup {PolicyRequest({"A"}, FALSE, TRUE, FALSE), PolicyRequest({"A"}, TRUE, FALSE, TRUE)}
Policies == INSTANCE CertPolicies WITH
  PolicyChains <- MCPolicyChains, PolicyRequests <- MCPolicyRequests

(* -------------------------------- names -------------------------------- *)
Strs(cs, ns) == UNION {[1 .. n -> cs] : n \in ns}
HostFlagSets ==
  {{}, {"NO_PARTIAL_WILDCARDS"}, {"MULTI_LABEL_WILDCARDS"}, {"SINGLE_LABEL_SUBDOMAINS"}}
MCHostCases ==
  [pattern : {p \o <<".", "a", ".", "b">> : p \in Strs({"a", ".", "*", "-", "X"}, 0 .. 3)}
             \cup Strs({"a", ".", "*"}, 0 .. 3),
   subject : {<<"A", ".", "a">>, <<".", "a">>, <<".", "a", ".", "b">>, <<"a", ".", "a", ".", "b">>,
              <<"a", "-", ".", "A", ".", "b">>, <<"X", "a", ".", "a", ".", "b">>,
              <<"a", ".", "b", ".", "a", ".", "b">>, <<"*", ".", "a", ".", "b">>,
              <<"a", "a", ".", "a", ".", "b">>},
   flags : HostFlagSets]
NameOfType(t, v) == [type |-> t, value |-> v, converts |-> TRUE]
MCSubjectCases ==
  [type : {"dns"},
   sans : {{}, {NameOfType("dns", <<"*", ".", "a", ".", "b">>)}, {NameOfType("email", <<"a">>)},
           {NameOfType("dns", <<"b">>)}},
   names : {{}, {NameOfType("cn", <<"a", ".", "a", ".", "b">>)}, {NameOfType("cn", <<"B">>)},
            {[NameOfType("cn", <<"B">>) EXCEPT !.converts = FALSE]}},
   chk : {<<"a", ".", "a", ".", "b">>, <<"b">>, <<".", "a", ".", "b">>},
   flags : {{}, {"NO_WILDCARDS"}, {"ALWAYS_CHECK_SUBJECT"}}]
MCMailCases == Strs({"a", "A", "@"}, 1 .. 3) \X Strs({"a", "A", "@"}, 1 .. 3)
MCTreeCases ==
  [type : {"dns"}, name : Strs({"a", "B", "."}, 1 .. 4), base : Strs({"A", "b", "."}, 0 .. 2)]
  \cup [type : {"email"}, name : Strs({"a", "B", ".", "@"}, 1 .. 3),
        base : Strs({"A", ".", "@"}, 0 .. 3)]
  \cup [type : {"uri"}, name : {<<"a", ":", "/", "/">> \o t : t \in Strs({"a", ".", "/", ":"}, 0 .. 4)},
        base : Strs({"A", "."}, 0 .. 3)]
  \cup [type : {"dn"}, name : Strs({"a", "b"}, 0 .. 3), base : Strs({"a", "b"}, 0 .. 3)]
SingleOutcomes == {"match", "no match", "minmax", "unsupported name syntax"}
MCConstraintCases == [permitted : Strs(SingleOutcomes, 0 .. 3), excluded : Strs(SingleOutcomes, 0 .. 2)]
MCAddressCases ==
  Strs({[kind |-> "empty"], [kind |-> "hex", bytes |-> <<1, 2>>],
        [kind |-> "v4", bytes |-> <<9, 8, 7, 6>>], [kind |-> "bad"]}, 1 .. 5)
MCListLines == Strs({"a", " ", ":", ","}, 0 .. 5)
Names == INSTANCE NameMatching WITH
  HostCases <- MCHostCases, SubjectCases <- MCSubjectCases, MailCases <- MCMailCases,
  TreeCases <- MCTreeCases, ConstraintCases <- MCConstraintCases,
  AddressCases <- MCAddressCases, AddressSize <- 8, ListLines <- MCListLines

(* ----------------------------- key exchange ---------------------------- *)
SuiteOf(mkey, auth) == [mkey |-> mkey, auth |-> auth]
MCSuites ==
  {SuiteOf("EDH", "NULL"), SuiteOf("EECDH", "ECDSA"), SuiteOf("EECDH", "NULL"),
   SuiteOf("PSK", "PSK"), SuiteOf("EECDH", "PSK")}
  \cup {SuiteOf(k, "RSA") : k \in {"RSA", "EDH", "EECDH"}}
AServer ==
  [dh |-> "params", ecdh |-> "keyed", group |-> "large", hint |-> "no hint", psk |-> "key",
   keys |-> {"RSA", "ECDSA"}, digest |-> "SHA1", rsa_small |-> FALSE, d5 |-> FALSE]
MCServers ==
  {[AServer EXCEPT !.dh = d, !.ecdh = e] : d \in {"none", "params", "keyed"}, e \in {"none", "params", "keyed"}}
  \cup {[AServer EXCEPT !.psk = p] : p \in {"no callback", "other", "too long"}}
  \cup {[AServer EXCEPT !.keys = k] : k \in {{}, {"RSA"}}}
  \cup {[AServer EXCEPT !.digest = d] : d \in {"none", "not offered"}}
  \cup {[AServer EXCEPT !.group = "tiny"], [AServer EXCEPT !.hint = "hint"],
         [AServer EXCEPT !.rsa_small = TRUE], [AServer EXCEPT !.d5 = TRUE]}
MCClients ==
  [psk : {"key"}, cert : {"RSA", "ECDSA", "ECDSA not for signing"}]
  \cup [psk : {"no callback", "not found", "too long"}, cert : {"none"}]
MCEnds ==
  [server : MCServers, client : [psk : {"key"}, cert : {"RSA", "ECDSA"}]]
  \cup [server : {AServer}, client : MCClients]
MCInterference ==
  [change : {"none", "params", "group", "bad point", "cut", "hint", "long hint", "no signature",
             "own signature", "replayed", "more", "dropped"}, back : {"none"}, hello : {"TLS 1.2"}]
  \cup [change : {"none"}, back : {"none", "identity", "long identity", "more", "not prefixed",
         "no value", "other key", "version", "padding", "length", "modulus"},
        hello : {"TLS 1.2", "TLS 1.0"}]

(* -------------------------------- schedule ------------------------------- *)
MCHandshakes ==
  {h \in [version : {"SSL 3", "TLS 1.0", "TLS 1.2"}, prf : {"DEFAULT", "SHA384"}, hit : BOOLEAN,
          verify_peer : BOOLEAN, requested : BOOLEAN, cert : BOOLEAN, npn : BOOLEAN,
          channel_id : BOOLEAN, ticket : BOOLEAN] :
     /\ h.prf = "SHA384" => h.version = "TLS 1.2"
     /\ h.requested => h.verify_peer
     /\ h.cert => h.requested
     /\ h.npn => h.ticket
     /\ h.hit => ~h.requested}
MCHandshakePairs ==
  {p \in MCHandshakes \X MCHandshakes :
     p[1].version = p[2].version /\ (p[2].ticket => p[1].ticket) /\ ~p[1].channel_id}
Keys == INSTANCE KeyExchange WITH
  Suites <- MCSuites, EndCases <- MCEnds, ExchangeVersions <- {"SSL 3", "TLS 1.0", "TLS 1.2"},
  Interference <- MCInterference,
  MasterSize <- 4, RandomSize <- 2, SecretSizes <- {1, 2, 5, 6},
  OutputSizes <- {1, 16, 20, 33, 50, 70}, HandshakePairs <- MCHandshakePairs,
  Labels <- {<<"x">>, <<"c">>, <<"c", "f">>, <<"m", "s", "x">>, <<"x", "y">>, <<>>, <<"k">>},
  Contexts <- {<<>>, <<<<>>>>, <<<<"x">>>>, <<<<"y">>>>}

(* --------------------------------- points -------------------------------- *)
CurveOf(p, a, b, mont) == [p |-> p, a |-> a, b |-> b, mont |-> mont]
Curve13 == [name |-> "A", p |-> 7, a |-> 0, b |-> 3, x |-> 1, y |-> 2, order |-> 13]
Curve11 == [name |-> "B", p |-> 11, a |-> 1, b |-> 5, x |-> 0, y |-> 4, order |-> 11]
Curve7 == [name |-> "C", p |-> 7, a |-> 0, b |-> 5, x |-> 3, y |-> 2, order |-> 7]
MCCurveCases == [p : {2, 3, 4, 5, 7}, a : -3 .. 5, b : {-1, 0, 1, 2, 9}, mont : BOOLEAN]
MCPointCurves ==
  {CurveOf(7, 4, 4, TRUE), CurveOf(5, 2, 1, TRUE), CurveOf(5, 2, 1, FALSE), CurveOf(7, 0, 3, FALSE)}

(* ------------------------------- multiples ------------------------------- *)
MCTermLists ==
  {<<>>} \cup {<<<<x, q>>>> : x \in {-21, -2, 0, 1, 6, 13, 38, 107}, q \in {0, 1, 45}}
  \cup {<<<<x, 45>>, <<y, q>>>> : x \in {-21, 1}, y \in {-3, 38, 107}, q \in {45, 56}}
CurvesAndPoints == INSTANCE EcPoints WITH
  CurveCases <- MCCurveCases, MontFactor <- 8, PointCurves <- MCPointCurves,
  Scales <- {1, 3}, ListSizes <- {1, 2},
  Order <- 101, WindowSteps <- <<3, 5>>, BlockSize <- 3, LeastWindow <- 2,
  NafScalars <- -40 .. 130, NafWindows <- 1 .. 4,
  GeneratorScalars <- (-21 .. 104) \cup {255, 511, 1365}, TermLists <- MCTermLists

(* --------------------------------- eckeys -------------------------------- *)
Groups == INSTANCE EcGroups
KeyWith(group, priv, pub) ==
  [group |-> group, priv |-> priv, pub |-> pub, form |-> 4, no_params |-> FALSE,
   no_pub |-> FALSE, version |-> 1]
MCKeys ==
  {KeyWith(<<Curve13>>, priv, pub) : priv \in {<<>>, <<0>>, <<1>>, <<6>>, <<12>>, <<14>>},
     pub \in {<<>>, <<<<>>>>, <<<<1, 2>>>>, <<<<1, 5>>>>, <<<<1, 1>>>>,
              <<Groups!Multiple(Curve13, 6, <<1, 2>>)>>}}
  \cup {KeyWith(<<Curve11>>, <<4>>, <<Groups!Multiple(Curve11, 4, <<0, 4>>)>>), KeyWith(<<>>, <<>>, <<>>),
        [KeyWith(<<Curve11>>, <<2>>, <<>>) EXCEPT !.form = 2, !.no_params = TRUE],
        [KeyWith(<<Curve13>>, <<5>>, <<<<6, 3>>>>) EXCEPT !.form = 6, !.no_pub = TRUE],
        [KeyWith(<<Curve13>>, <<5>>, <<<<6, 3>>>>) EXCEPT !.form = 6, !.no_params = TRUE]}
ParamsOf(kind, of) == <<[kind |-> kind, of |-> of]>>
MCPrivateKeys ==
  [version : {1, 2}, key : {<<>>, <<0, 3>>, <<1, 0, 3>>},
   params : {<<>>, ParamsOf("named", "B"), ParamsOf("named", "x"), ParamsOf("explicit", 13),
             ParamsOf("explicit", 14)},
   pub : {<<>>, <<<<0>>>>, <<<<2, 0, 1>>>>, <<<<3, 0, 1>>>>, <<<<4, 0, 1, 0, 2>>>>,
          <<<<4, 0, 0, 1, 0>>>>, <<<<5, 0, 0, 1, 0>>>>}]

(* --------------------------------- ecdsa --------------------------------- *)
MCDraws(c) == {<<0, k, j>> : k \in 1 .. c.order - 1, j \in {1, 5, 6}}
MCSecrets ==
  UNION {[c : {c}, mine : 1 .. c.order - 1, theirs : 1 .. c.order - 1, outlen : {1, 2, 3}] :
           c \in {Curve13, Curve7}}
CurveKeys == INSTANCE EcKeys WITH
  Curves <- {Curve13, Curve11}, Base <- 4, OctetLengths <- 0 .. 4, SomeKeys <- MCKeys,
  KeyChanges <- {-1, 0, 1, 6, 7} \X (-1 .. 8), PrivateKeys <- MCPrivateKeys,
  SigningCurves <- {Curve13, Curve7}, OctetBits <- 3,
  Digests <- {<<>>, <<5>>, <<7>>, <<6, 5>>, <<7, 7>>, <<0, 1, 6>>}, VerifyDigests <- {<<5>>, <<7>>},
  DrawsFor <- MCDraws, Secrets <- MCSecrets, HashSize <- 3,
  Derivations <- [outlen : 0 .. 9, z : {"z"}, info : {"info"}]

(* ---------------------------------- logs --------------------------------- *)
DsaGroup(p, q, g) == [p |-> p, q |-> q, g |-> g]
DhGroup(p, q, g) == [p |-> p, q |-> q, g |-> g, j |-> <<>>]
DhPair(d, len, mont) == [d |-> d, len |-> len, mont |-> mont]
MCDhObjects ==
  [p : {7, 11, 15, 23}, q : {<<>>, <<3>>, <<4>>, <<11>>}, g : {0, 1, 2, 4, 5, 8, 23},
   j : {<<>>, <<2>>, <<4>>}]
MCDhPairs ==
  {DhPair(DhGroup(23, <<11>>, 2), 0, 0), DhPair(DhGroup(23, <<>>, 5), 3, 23),
   DhPair(DhGroup(11, <<>>, 2), 0, 23), DhPair(DhGroup(37, <<>>, 2), 1, 0)}
MCHashes ==
  {[n \in 0 .. 15 |-> (a * n * n + b * n + 5) % 16] : a \in {1, 2}, b \in {3, 6}}
SeedGiven(len, seed) == [len |-> len, seed |-> seed]
Logarithms == INSTANCE DiscreteLogs WITH
  OctetBits <- 2, DsaGroups <- {DsaGroup(23, 11, 2), DsaGroup(29, 7, 7)}, DsaSizes <- {4},
  MaxModulusBits <- 6, Digests <- {<<>>, <<3>>, <<3, 2, 1>>, <<3, 3>>}, QBits <- 4, PBits <- 8,
  BlockStep <- 4, MaxCounter <- 3, Hashes <- MCHashes, SeedLists <- {<<s, t>> : s \in {0, 3, 12}, t \in {7, 9}},
  GivenSeeds <- {SeedGiven(0, <<>>), SeedGiven(1, <<1>>), SeedGiven(2, <<>>), SeedGiven(2, <<9>>), SeedGiven(3, <<4>>)},
  DhSizes <- 3 .. 7, DhGenerators <- 0 .. 7, DhObjects <- MCDhObjects, DhPairs <- MCDhPairs

(* -------------------------------- paddings ------------------------------- *)
MCDigests == [v \in 1 .. 16 |-> <<((v * v + 3) \div 4) % 4, (v * 3 + 1) % 4>>]
MCMasked ==
  {e \in [1 .. 6 -> 0 .. 3] : e[1] \in {0, 1} /\ e[2] # 1 /\ e[6] \in {1, 2}}
    \cup {<<0>> \o e : e \in {f \in [1 .. 6 -> 0 .. 3] : f[6] = 2 /\ f[1] \in {0, 2} /\ f[3] # 2}}
Paddings == INSTANCE RsaPadding WITH
  OctetBits <- 2, MinPad <- 2, Trailer <- 2, HashLen <- 2, Digests <- MCDigests, TLen <- 6, Masked <- MCMasked,
  PssBits <- {11, 12, 13}, SaltLens <- -3 .. 1, Hashed <- {<<>>, <<3>>}

(* ---------------------------------- rsa ---------------------------------- *)
Recip(a, n) == CHOOSE x \in 1 .. n - 1 : (a * x) % n = 1
RsaKey(p, q, e) ==
  LET d == Recip(e, (p - 1) * (q - 1))
  IN [n |-> p * q, e |-> e, d |-> d, p |-> p, q |-> q,
      dmp1 |-> d % (p - 1), dmq1 |-> d % (q - 1), iqmp |-> Recip(q, p)]
WithoutFactors(k) == [k EXCEPT !.p = 0, !.q = 0, !.dmp1 = 0, !.dmq1 = 0, !.iqmp = 0]
MCRsaKey == RsaKey(67, 61, 7)
MCRsaKeys ==
  {MCRsaKey, WithoutFactors(MCRsaKey), [MCRsaKey EXCEPT !.dmp1 = 5], [MCRsaKey EXCEPT !.iqmp = 6],
   [MCRsaKey EXCEPT !.dmq1 = 0], RsaKey(67, 61, 17), RsaKey(31, 29, 17), RsaKey(127, 101, 11)}
MCRsaMessages ==
  {<<>>, <<2>>, <<0, 1>>, <<3, 3>>, <<1, 2, 3>>, <<0, 0, 0, 0, 0, 0>>, <<1, 2, 3, 0, 1, 2>>,
   <<3, 3, 3, 3, 3, 0>>, <<3, 3, 3, 3, 3, 3>>, <<0, 1, 2, 3, 3>>}
Rsa == INSTANCE RsaKeys WITH
  OctetBits <- 2, MinPad <- 1, Trailer <- 2, HashLen <- 2, Digests <- MCDigests, MaxModulusBits <- 12,
  SmallModulusBits <- 11, MaxPubExpBits <- 4, OwnKeys <- MCRsaKeys, SigningKeys <- {RsaKey(37, 29, 5), RsaKey(67, 61, 17)},
  HashValues <- {<<>>, <<3>>, <<1, 2>>, <<2, 1, 2>>}, KeySizes <- 7 .. 12, Exponents <- {1, 3, 5, 7, 17},
  KeyParts <- {RsaKey(7, 5, 5), RsaKey(11, 3, 3), RsaKey(5, 3, 3)},
  PublicParts <- [n : {15, 35, 77, 221}, e : {3, 5, 7, 11}, d : 1 .. 55], Messages <- MCRsaMessages,
  SigPrefixes <- [sha |-> <<1>>, md |-> <<2>>], TlsHash <- "tls", TlsHashLen <- 2, Factors <- {1, 2, 77}

(* ------------------------------- the topics ---------------------------- *)
CalculationsInit ==
  /\ topic \in {"paths", "revocation", "policies", "names", "algorithms", "words",
               "strings", "sessions", "exchange", "schedule", "points", "multiples",
               "eckeys", "ecdsa", "logs", "paddings", "rsa"}
  /\ calc = NotCalculated

CalculationsNext ==
  /\ calc = NotCalculated
  /\ UNCHANGED topic
  /\ \/ topic = "paths" /\ VerifyPath
     \/ topic = "revocation" /\ VerifyRevocation
     \/ topic = "policies" /\ Policies!CertPoliciesNext
     \/ topic = "names" /\ Names!NameMatchingNext
     \/ topic = "algorithms" /\ AlgorithmNext
     \/ topic = "words" /\ WordsNext
     \/ topic = "strings" /\ Strings!ByteStringsNext
     \/ topic = "sessions" /\ Sessions!SessionCodecNext
     \/ topic = "exchange" /\ Keys!KeyExchangeNext
     \/ topic = "schedule" /\ Keys!KeyScheduleNext
     \/ topic = "points" /\ CurvesAndPoints!EcPointsNext
     \/ topic = "multiples" /\ CurvesAndPoints!EcMultiplesNext
     \/ topic = "eckeys" /\ CurveKeys!EcKeysNext
     \/ topic = "ecdsa" /\ CurveKeys!EcSignaturesNext
     \/ topic = "logs" /\ Logarithms!DiscreteLogsNext
     \/ topic = "paddings" /\ Paddings!RsaPaddingNext
     \/ topic = "rsa" /\ Rsa!RsaKeysNext

CalculationsSpec == CalculationsInit /\ [][CalculationsNext]_<<topic, calc>>

\* only paths of certificates
CertificatesSpec == CalculationsInit /\ topic = "paths" /\ [][CalculationsNext]_<<topic, calc>>

(* A chain is accepted only if every rule on paths, revocation, policies    *)
(* and names holds (x509_vfy.c, x_crl.c, pcy_tree.c, v3_utl.c, v3_ncons.c). *)
ChainsAreVerified ==
  CASE topic = "policies" -> Policies!PoliciesAreValid
    [] topic = "names" -> Names!NamesAreMatched
    [] topic \in {"paths", "revocation"} -> CertificatesAreVerified
    [] OTHER -> TRUE

(* The arithmetic of words is that of the integers, that of points is the    *)
(* group's, and the algorithms above them compute what textbooks define      *)
(* (crypto/bn, crypto/ec).                                                   *)
NumbersAreRight ==
  /\ topic \in {"algorithms", "words"} => BigNumbersAreRight
  /\ topic = "points" => CurvesAndPoints!PointsAreRight
  /\ topic = "multiples" => CurvesAndPoints!MultiplesAreSums

(* What is written is read back as it was, and what is read is well formed  *)
(* (cbb.c, cbs.c, ssl_asn1.c).                                              *)
EncodingsAreRight ==
  /\ topic = "strings" => Strings!StringsAreRead
  /\ topic = "sessions" => Sessions!SessionsAreKept
  /\ topic = "eckeys" => CurveKeys!EcKeysAreKept

=============================================================================

------------------------------ MODULE LibsslMC ------------------------------
(* Small instances of the parts of libssl that other runs do not check.    *)
(* The parts share nothing, so a behaviour is one of one part, chosen at   *)
(* the start, while the others stay as they are.                           *)
(*   messages: a DTLS flight of a message that needs two bytes of the mask,*)
(*     one smaller than the MTU, one larger than it and an empty one;      *)
(*   stream: a TLS connection whose records hold two cells;                *)
(*   versions: hellos of 11 to 13 cells, any sets of four versions;        *)
(*   extensions: two handshakes of two ends, one group of extensions in    *)
(*     every configuration and the others off;                             *)
(*   config, bios: two contexts and one SSL, whose CERTs and BIOs are set;  *)
(*   calculations: records under CBC ciphers, lists of cipher suites,      *)
(*     curves, signature algorithms and chains, ClientHellos in cells.     *)
EXTENDS DtlsMessages, TlsStream, VersionNegotiation, TlsExtensions,
        CbcRecord, CipherRules, SslConfig

VARIABLE part   \* the part that moves

MCLengths == <<5, 2, 6, 0>>

(* ------------------------------- stream -------------------------------- *)
MCStreamOptions ==
  {o \in [splits : BOOLEAN, partial : BOOLEAN, moving : BOOLEAN, ahead : BOOLEAN] :
     o.moving = o.ahead}

(* ------------------------------ versions ------------------------------- *)
MCVersionSets == SUBSET (0 .. 3) \ {{}}

(* ----------------------------- extensions ------------------------------ *)
PlainC == [host |-> FALSE, tickets |-> FALSE, npn |-> FALSE, alpn |-> <<>>, channel_id |-> "off",
           srtp |-> <<>>, ecc |-> TRUE, version |-> "TLSv1.2", legacy |-> FALSE]
PlainS == [servername |-> "ok", tickets |-> FALSE, cache |-> FALSE, npn |-> <<>>, alpn |-> {},
           channel_id |-> FALSE, srtp |-> <<>>, ecc |-> TRUE, version |-> "TLSv1.2",
           reneg_resumes |-> FALSE]
NothingAsked == [c |-> PlainC, s |-> PlainS]
Protocols ==
  {[c |-> [PlainC EXCEPT !.npn = cn, !.alpn = ca, !.version = v, !.legacy = v = "SSLv3"],
    s |-> [PlainS EXCEPT !.npn = sn, !.alpn = sa, !.version = v, !.cache = r, !.reneg_resumes = r]] :
     cn, r \in BOOLEAN, ca \in {<<>>, <<"a", "b">>, <<"b">>}, v \in {"SSLv3", "TLSv1"},
     sn \in {<<>>, <<"a">>}, sa \in {{}, {"a"}, {"c"}}}
NamesAndTickets ==
  {[c |-> [PlainC EXCEPT !.host = h, !.tickets = ct],
    s |-> [PlainS EXCEPT !.servername = n, !.tickets = st, !.cache = ca, !.reneg_resumes = r]] :
     h, ct, st, ca, r \in BOOLEAN, n \in {"ok", "noack", "fatal"}}
ChannelIds ==
  {[c |-> [PlainC EXCEPT !.channel_id = id, !.ecc = ce, !.tickets = t],
    s |-> [PlainS EXCEPT !.channel_id = on, !.ecc = se, !.tickets = t, !.cache = TRUE,
                         !.reneg_resumes = r]] :
     id \in {"off", "old", "new"}, ce, se, t, on, r \in BOOLEAN}
SrtpProfiles ==
  {[c |-> [PlainC EXCEPT !.srtp = a, !.version = "TLSv1"],
    s |-> [PlainS EXCEPT !.srtp = b, !.cache = r, !.reneg_resumes = r]] :
     a, b \in {<<>>, <<"x">>, <<"x", "y">>, <<"y", "x">>}, r \in BOOLEAN}
MCExtCases == {NothingAsked} \cup Protocols \cup NamesAndTickets \cup ChannelIds \cup SrtpProfiles

(* ----------------------------- CBC records ----------------------------- *)
MCPadding ==
  {[data |-> d, mac_size |-> 1, block_size |-> 2, explicit |-> e] :
     d \in UNION {[1 .. n -> {0, 1, 2, 3, 9}] : n \in 1 .. 5}, e \in BOOLEAN}

MCCopy ==
  {[orig_len |-> o, length |-> o - p - 1, md_size |-> m] :
     o \in {64, 271, 272, 273, 280, 305, 306, 400}, p \in {0, 1, 15, 16, 23}, m \in {16, 20}}
  \cup {[orig_len |-> o, length |-> o - p - 1, md_size |-> m] :
          o \in {305, 306, 400}, p \in {254, 255}, m \in {16, 20, 48}}

MCDigest ==
  {[md |-> m, sslv3 |-> FALSE, size |-> s, padding |-> p] :
     m \in {"md5", "sha1", "sha256", "sha384"}, s \in {304, 400, 416},
     p \in {0, 1, 15, 50, 100, 200, 250, 254, 255}}
  \cup {c \in [md : {"sha1", "sha256"}, sslv3 : {FALSE}, size : {48, 64, 80, 96}, padding : 0 .. 63] :
          c.padding + 1 + Md[c.md].size <= c.size}
  \cup [md : {"sha1", "md5"}, sslv3 : {TRUE}, size : {48, 64, 112, 128, 176, 192, 256},
        padding : 0 .. 15]

(* ---------------------------- cipher suites ---------------------------- *)
Few == << Suite("kEECDH", "aRSA", "AES128GCM", "AEAD", "TLSV1_2", 128),
          Suite("kEECDH", "aECDSA", "AES256", "SHA1", "TLSV1", 256),
          Suite("kRSA", "aRSA", "AES128", "SHA1", "TLSV1", 128),
          Suite("kEDH", "aRSA", "3DES", "SHA1", "SSLV3", 112) >>
RuleItem(op, sel) == [op |-> op, of |-> sel]
RuleItems ==
  {RuleItem(op, sel) : op \in {"add", "del", "ord", "kill"},
                   sel \in {Kx({"kEECDH"}), Enc({"AES128"}), AnySuite}}
  \cup {RuleItem(op, AnySuite) : op \in {"strength", "[", "]"}}
Adds ==
  {RuleItem("add", sel) : sel \in {Kx({"kEECDH"}), Auth({"aECDSA"}), Kx({"kRSA"}),
                               Enc({"3DES"}), AnySuite}}
Opens == RuleItem("[", AnySuite)
Closes == RuleItem("]", AnySuite)

MCRuleCases ==
  {[table |-> Few, rules |-> r] :
     r \in UNION {[1 .. n -> RuleItems] : n \in 0 .. 3}
             \cup {<<Opens, a, b, Closes, c>> : a, b, c \in Adds}
             \cup {<<a, Opens, b, Closes, Opens, c, d, Closes>> : a, b, c, d \in Adds}}

Rotated(k) == [i \in DOMAIN CipherTable |-> CipherTable[1 + ((i + k) % Len(CipherTable))]]
MCOrderCases == {[aes |-> a, of |-> Rotated(k)] : a \in BOOLEAN, k \in {45, 10, 20, 30, 40}}

Orders == {s \in [1 .. 4 -> {Few[n] : n \in 1 .. 4}] : \A i, j \in 1 .. 4 : s[i] = s[j] => i = j}
MCChoiceCases ==
  {[client |-> [ciphers |-> o, tls12 |-> ct, sigs |-> s, psk |-> FALSE],
    server |-> [ciphers |-> Few, flags |-> f, prefers |-> p, certs |-> k,
                dh |-> TRUE, ecdh |-> TRUE, tls12 |-> st, psk |-> FALSE]] :
     o \in Orders \cup {<<Few[2], Few[4]>>, <<Few[3]>>, <<Few[4], Few[1]>>},
     ct \in BOOLEAN, s \in {{"rsa"}, {"rsa", "ecdsa"}},
     f \in {g \in [1 .. 4 -> {0, 1}] : g[4] = 0}, p \in BOOLEAN,
     k \in {{"rsa"}, {"ecdsa"}, {"rsa", "ecdsa"}}, st \in BOOLEAN}

(* ---------------- curves, signature algorithms, hellos ----------------- *)
SmallSeqs(S, n) == UNION {[1..k -> S] : k \in 0..n}
MCCurveCases ==
  [client : SmallSeqs({23, 24, 25, 27}, 3), server : SmallSeqs({23, 24, 27}, 2), prefers : BOOLEAN]
MCSetCases == SmallSeqs({1, 23, 28, 0, 29, 40}, 3)
MCPairs ==
  {<<"sha256", "rsa">>, <<"sha1", "rsa">>, <<"sha256", "ecdsa">>, <<"md5", "ecdsa">>, <<"sm3", "rsa">>}
MCSigalgCases ==
  [client : SmallSeqs(MCPairs, 3), server : SmallSeqs(MCPairs \ {<<"sm3", "rsa">>}, 2),
   prefers : BOOLEAN, strict : BOOLEAN]
MCCert(sig, curve, issuer) ==
  [sig |-> sig, curve |-> curve, format |-> "uncompressed", issuer |-> issuer]
Sha1Rsa == <<"sha1", "rsa">>
MCLeafs ==
  {MCCert(s, k, "A") :
     s \in {Sha1Rsa, <<"sha256", "rsa">>, <<"sha1", "ecdsa">>},
     k \in {"none", "P-256", "P-384"}}
MCCas == {MCCert(s, k, "B") : s \in {Sha1Rsa, <<"sha256", "rsa">>}, k \in {"none", "P-384"}}
KindOf(cert) == IF cert.curve = "none" THEN "rsa" ELSE "ecdsa"
MCChainCases ==
  {[tls12 |-> v, server |-> TRUE, strict |-> st, kind |-> KindOf(x), x |-> x,
    chain |-> ch, peer |-> p, conf |-> cf, formats |-> f, curves |-> {"P-256", "P-384"},
    peer_curves |-> {"P-256"}, types |-> {}, ca_names |-> {}] :
     v, st \in BOOLEAN, x \in MCLeafs, ch \in {<<>>} \cup {<<a>> : a \in MCCas},
     p \in {<<>>, <<Sha1Rsa>>, <<Sha1Rsa, <<"sha256", "rsa">>>>},
     cf \in {<<>>, <<Sha1Rsa>>, <<<<"sha256", "rsa">>>>}, f \in {{}, {"uncompressed"}, {"compressed"}}}
  \cup
  {[tls12 |-> v, server |-> FALSE, strict |-> st, kind |-> KindOf(x), x |-> x,
    chain |-> ch, peer |-> p, conf |-> <<>>, formats |-> {}, curves |-> {},
    peer_curves |-> {}, types |-> t, ca_names |-> n] :
     v, st \in BOOLEAN, x \in MCLeafs, ch \in {<<>>} \cup {<<a>> : a \in MCCas},
     p \in {<<>>, <<Sha1Rsa>>},
     t \in {{}, {"rsa"}, {"rsa", "ecdsa"}}, n \in {{}, {"A"}, {"B"}, {"C"}}}
MCTails ==
  {<<>>, <<0>>, <<2, 7, 0>>, <<5, 7, 0, 8, 1, 9>>, <<5, 7, 1, 9, 7, 0>>, <<6, 7, 0, 8, 0, 9, 0>>,
   <<3, 7, 0, 8>>, <<2, 7, 0, 5>>}
MCWhole ==
  {[cells |-> <<3, 3>> \o i \o k \o s \o <<1, 0>> \o t, dtls |-> k # <<>>] :
     i \in {<<0>>, <<1, 6>>}, k \in {<<>>, <<0>>, <<2, 4, 5>>},
     s \in {<<2, 1, 1>>, <<0>>, <<3, 1, 1, 1>>, <<4, 0, 1, 0, 2>>}, t \in MCTails}
MCHelloCases ==
  UNION {{[h EXCEPT !.cells = SubSeq(@, 1, n)] : n \in 0..Len(h.cells)}
           \cup {[h EXCEPT !.cells[n] = (@ + 1) % 3] : n \in DOMAIN h.cells} : h \in MCWhole}

(* ------------------------------- the parts ----------------------------- *)
LibsslInit ==
  /\ part \in {"messages", "stream", "versions", "extensions", "config", "bios", "calculations"}
  /\ Init /\ calc = NotCalculated
  /\ StreamInit
  /\ part # "stream" => \A f \in DOMAIN opts : opts[f]
  /\ VersionInit
  /\ part # "versions" => cl.on = {3} /\ sv.on = {3} /\ cl.piece = 20 /\ ~hello.fallback /\ ~hello.old
  /\ ExtInit
  /\ part # "extensions" => exopt = NothingAsked
  /\ ConfigInit

LibsslNext ==
  /\ UNCHANGED part
  /\ \/ part = "messages" /\ Next /\ UNCHANGED <<streamVars, versionVars, extVars, configVars, calc>>
     \/ part = "stream" /\ StreamNext /\ UNCHANGED <<vars, versionVars, extVars, configVars, calc>>
     \/ part = "versions" /\ VersionNext /\ UNCHANGED <<vars, streamVars, extVars, configVars, calc>>
     \/ part = "extensions" /\ ExtNext /\ UNCHANGED <<vars, streamVars, versionVars, configVars, calc>>
     \/ part = "config" /\ CertCall /\ UNCHANGED <<vars, streamVars, versionVars, extVars, calc>>
     \/ part = "bios" /\ BioCall /\ UNCHANGED <<vars, streamVars, versionVars, extVars, calc>>
     \/ part = "calculations" /\ calc = NotCalculated /\ (CbcNext \/ CipherNext \/ AlgorithmNext)
        /\ UNCHANGED <<vars, streamVars, versionVars, extVars, configVars>>

LibsslSpec ==
  LibsslInit /\ [][LibsslNext]_<<part, vars, streamVars, versionVars, extVars, configVars, calc>>

\* only DTLS messages
MessagesSpec ==
  /\ LibsslInit /\ part = "messages"
  /\ [][LibsslNext]_<<part, vars, streamVars, versionVars, extVars, configVars, calc>>

=============================================================================

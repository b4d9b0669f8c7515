---------------------------- MODULE KeyExchange -----------------------------
(* The key exchange of one handshake: what the server sends, what the client *)
(* makes of it, what it answers, and what the server makes of that           *)
(* (s3_srvr.c, s3_clnt.c). Either message may be changed on its way. Numbers *)
(* are terms: a public value is its group and its private key, a shared      *)
(* secret its group and both private keys (Part). A premaster secret is the  *)
(* sequence of its parts, each with its length in front unless it is alone.  *)
(* From a premaster secret to keys (t1_enc.c, s3_enc.c), and the digests of  *)
(* the handshake that Finished, CertificateVerify and Channel ID are made    *)
(* of, at both ends. Digests are terms: a byte of an output is the term and  *)
(* its place, a whole output has the place 0.                                *)
EXTENDS Calculation, Integers, Sequences
LOCAL INSTANCE TLC
LOCAL INSTANCE SequencesExt

CONSTANTS
  Suites,          \* [mkey, auth]
  EndCases,        \* [server, client]; the server is [dh, ecdh, group, hint, psk, keys,
                   \* digest, rsa_small, d5], the client [psk, cert]
  ExchangeVersions,\* of the protocol
  Interference,    \* [change, back, hello]: what happens to either message and to
                   \* the version in the hello
  MasterSize, RandomSize,   \* of the master secret and of the randoms
  SecretSizes,              \* of premaster secrets
  OutputSizes,              \* asked of the PRF
  HandshakePairs,           \* of two handshakes of one connection
  Labels, Contexts          \* of the exporter: sequences of characters

(* An outcome is a record with what was made, or the alert that was sent:    *)
(* "none" for an error that sends none.                                      *)
Fails(alert) == [ok |-> FALSE, alert |-> alert]
Public(group, priv) == [group |-> group, priv |-> priv]
Part(kind, of) == [kind |-> kind, of |-> of]
Shared(public, priv) == Part(public.group, {public.priv, priv})
Chosen(version, random) == Part(version, {random})

IsPsk(c) == c.suite.auth = "PSK"
UsesEdh(c) == c.suite.mkey = "EDH"
UsesEecdh(c) == c.suite.mkey = "EECDH"
UsesRsa(c) == c.suite.mkey = "RSA"
SSL_USE_SIGALGS(c) == c.version = "TLS 1.2"

ssl_cipher_has_server_public_key(c) == c.suite.auth # "NULL" /\ (IsPsk(c) => UsesRsa(c))
ssl_cipher_requires_server_key_exchange(c) == UsesEdh(c) \/ UsesEecdh(c)
------------------------------------------------------------------------------
(* The ServerKeyExchange. The temporary key is the application's, its        *)
(* callback's or for a shared curve; one with a private key is used as it    *)
(* is unless every connection is to have its own.                            *)
ServerPrivate(kind) == IF kind = "keyed" THEN "kept" ELSE "server"
ServerDh(c) ==
  IF c.server.dh = "none" THEN <<>>
  ELSE <<Public(c.server.group, ServerPrivate(c.server.dh))>>
ServerEcdh(c) ==
  IF c.server.ecdh = "none" THEN <<>>
  ELSE <<Public("offered", ServerPrivate(c.server.ecdh))>>
ServerParams(c) == IF UsesEdh(c) THEN ServerDh(c) ELSE IF UsesEecdh(c) THEN ServerEcdh(c) ELSE <<>>

(* The signature is over both randoms, the hint and the parameters. Before   *)
(* TLS 1.2 an RSA key signs two digests; then and for other keys the digest  *)
(* of the key's slot.                                                        *)
SignKey(c) == IF c.suite.auth \in c.server.keys THEN <<c.suite.auth>> ELSE <<>>
DigestOf(c, key, digest) == IF key = "RSA" /\ ~SSL_USE_SIGALGS(c) THEN "MD5 and SHA1" ELSE digest
SignedParams(randoms, hint, params) == [randoms |-> randoms, hint |-> hint, params |-> params]
Signature(key, digest, signed) == [key |-> key, digest |-> digest, over |-> signed]
NoHint == "no hint"
SentHint(c) == IF IsPsk(c) /\ c.server.hint # NoHint THEN c.server.hint ELSE "empty"

SendsServerKeyExchange(c) ==
  ssl_cipher_requires_server_key_exchange(c) \/ (IsPsk(c) /\ c.server.hint # NoHint)
MessageOf(c, sig) ==
  [ok |-> TRUE, kind |-> "ServerKeyExchange", hint |-> SentHint(c), params |-> ServerParams(c),
   sig |-> sig, more |-> FALSE]
ssl3_send_server_key_exchange(c) ==
  IF ssl_cipher_requires_server_key_exchange(c) /\ ServerParams(c) = <<>> THEN Fails("handshake_failure")
  ELSE IF ~ssl_cipher_has_server_public_key(c) THEN MessageOf(c, <<>>)
  ELSE IF SignKey(c) = <<>> THEN Fails("decode_error")
  ELSE IF DigestOf(c, SignKey(c)[1], c.server.digest) = "none" THEN Fails("handshake_failure")
  ELSE MessageOf(c, <<Signature(SignKey(c)[1], DigestOf(c, SignKey(c)[1], c.server.digest),
                                SignedParams("these", SentHint(c), ServerParams(c)))>>)
ServerSends(c) ==
  IF SendsServerKeyExchange(c) THEN ssl3_send_server_key_exchange(c)
  ELSE [ok |-> TRUE, kind |-> "another message"]

(* On its way to the client.                                                 *)
OtherParams(c) == <<Public(IF UsesEecdh(c) THEN "offered" ELSE "large", "stranger")>>
ChangedMessage(c, m) ==
  CASE c.change = "params" -> [m EXCEPT !.params = OtherParams(c)]
    [] c.change = "group" -> [m EXCEPT !.params = <<Public(IF UsesEecdh(c) THEN "unknown" ELSE "tiny", "server")>>]
    [] c.change = "bad point" -> [m EXCEPT !.params = <<Public("offered", "none")>>]
    [] c.change = "cut" -> [m EXCEPT !.params = <<>>, !.sig = <<>>]
    [] c.change = "hint" -> [m EXCEPT !.hint = "other hint"]
    [] c.change = "long hint" -> [m EXCEPT !.hint = "too long"]
    [] c.change = "no signature" -> [m EXCEPT !.sig = <<>>]
    [] c.change = "own signature" ->   \* by a key of the stranger's
         [m EXCEPT !.params = OtherParams(c),
                   !.sig = <<Signature("stranger", "SHA1", SignedParams("these", m.hint, OtherParams(c)))>>]
    [] c.change = "replayed" ->        \* of an earlier connection
         [m EXCEPT !.params = <<Public(IF UsesEecdh(c) THEN "offered" ELSE "large", "old")>>,
                   !.sig = IF m.sig = <<>> THEN <<>>
                           ELSE <<[m.sig[1] EXCEPT !.over = SignedParams("others", m.hint,
                                     <<Public(IF UsesEecdh(c) THEN "offered" ELSE "large", "old")>>)]>>]
    [] c.change = "more" -> [m EXCEPT !.more = TRUE]
    [] OTHER -> m
OnItsWay(c, m) ==
  IF m.kind = "another message"
  THEN IF c.change \in {"params", "own signature"}   \* one is put in
       THEN ChangedMessage(c, MessageOf(c, <<>>))
       ELSE m
  ELSE IF c.change = "dropped" THEN [ok |-> TRUE, kind |-> "another message"]
  ELSE ChangedMessage(c, m)
------------------------------------------------------------------------------
(* The client keeps the hint and the server's temporary key.                 *)
Peer(hint, tmp) == [ok |-> TRUE, hint |-> hint, tmp |-> tmp]
WithoutMessage(c) ==
  IF ssl_cipher_requires_server_key_exchange(c) THEN Fails("unexpected_message") ELSE Peer(NoHint, <<>>)

(* What is wrong with the parameters, "" for nothing.                        *)
ReadsParams(c) == c.suite.mkey # "PSK"
ParamsError(c, m) ==
  CASE m.params = <<>> -> "decode_error"
    [] UsesRsa(c) -> IF c.suite.auth = "RSA" THEN "" ELSE "none"
    [] UsesEdh(c) -> IF m.params[1].group = "tiny" THEN "none" ELSE ""
    [] UsesEecdh(c) -> IF m.params[1].group # "offered" \/ m.params[1].priv = "none" THEN "decode_error" ELSE ""
(* The key that has to have signed is that of the certificate of the type    *)
(* the suite asks for, if there is such a certificate.                       *)
PeerKey(c) ==
  IF ReadsParams(c) /\ c.suite.auth \in {"RSA", "ECDSA"} /\ c.suite.auth = c.client.cert
  THEN <<c.client.cert>> ELSE <<>>
VerifiesAnywhere(c, m, key) ==   \* without the randoms of the connection
  m.sig[1] = Signature(key, DigestOf(c, key, m.sig[1].digest),
                       SignedParams(m.sig[1].over.randoms, m.hint, m.params))
Verifies(c, m, key) ==
  m.sig[1] = Signature(key, DigestOf(c, key, m.sig[1].digest), SignedParams("these", m.hint, m.params))
SignatureError(c, m) ==
  CASE PeerKey(c) = <<>> -> IF ssl_cipher_has_server_public_key(c) THEN "none"
                            ELSE IF m.more \/ m.sig # <<>> \/ (~ReadsParams(c) /\ m.params # <<>>) THEN "decode_error" ELSE ""
    [] OTHER -> IF m.sig = <<>> THEN "decode_error"
                ELSE IF SSL_USE_SIGALGS(c) /\ m.sig[1].digest = "not offered" THEN "illegal_parameter"
                ELSE IF m.more THEN "decode_error"
                ELSE IF Verifies(c, m, PeerKey(c)[1]) THEN "" ELSE "decrypt_error"
ssl3_get_server_key_exchange(c, m) ==
  IF m.kind = "another message" THEN WithoutMessage(c)
  ELSE IF IsPsk(c) /\ m.hint = "too long" THEN Fails("handshake_failure")
  ELSE IF ReadsParams(c) /\ ParamsError(c, m) # "" THEN Fails(ParamsError(c, m))
  ELSE IF SignatureError(c, m) # "" THEN Fails(SignatureError(c, m))
  ELSE Peer(IF IsPsk(c) THEN m.hint ELSE NoHint, m.params)

(* Then the certificate has to fit the suite.                                *)
ssl3_check_cert_and_algorithm(c, peer) ==
  \/ ~ssl_cipher_has_server_public_key(c)
  \/ c.client.cert = "ECDSA"
  \/ c.client.cert = "ECDSA not for signing" /\ c.suite.auth # "ECDSA"
  \/ /\ c.suite.auth # "ECDSA"
     /\ c.suite.auth = "RSA" => c.client.cert = "RSA"
     /\ UsesRsa(c) => c.client.cert = "RSA" \/ peer.tmp # <<>>
     /\ UsesEdh(c) => peer.tmp # <<>>

(* The ClientKeyExchange. The callback's key may be missing or too long; the *)
(* order of the two parts under ECDHE_PSK is the reverse of the server's.    *)
Zeros == Part("zeros", {})
Psk(key) == Part("psk", {key})
PskPremaster(other, key) == <<other, Psk(key)>>
ClientPremaster(c, peer) ==
  CASE UsesRsa(c) -> <<Chosen(c.offered, "client")>>
    [] UsesEecdh(c) /\ IsPsk(c) -> <<Psk(c.client.psk), Shared(peer.tmp[1], "client")>>
    [] UsesEdh(c) \/ UsesEecdh(c) -> <<Shared(peer.tmp[1], "client")>>
    [] OTHER -> PskPremaster(Zeros, c.client.psk)
RsaKey(c, peer) == IF peer.tmp # <<>> THEN peer.tmp[1].priv ELSE c.client.cert
Encrypted(key, version, random) ==
  [key |-> key, version |-> version, random |-> random, padded |-> TRUE, full |-> TRUE, fits |-> TRUE]
ClientValue(c, peer) ==
  CASE UsesRsa(c) -> <<Encrypted(RsaKey(c, peer), c.offered, "client")>>
    [] UsesEdh(c) \/ UsesEecdh(c) -> <<Public(peer.tmp[1].group, "client")>>
    [] OTHER -> <<>>
ClientMessage(c, peer) ==
  [identity |-> IF IsPsk(c) THEN c.client.psk ELSE "none", value |-> ClientValue(c, peer),
   prefixed |-> UsesRsa(c) => c.version # "SSL 3", more |-> FALSE]
PskError(c) ==
  CASE c.client.psk = "no callback" -> "none"
    [] c.client.psk \in {"not found", "too long"} -> "handshake_failure"
    [] OTHER -> ""
ssl3_send_client_key_exchange(c, peer) ==
  IF IsPsk(c) /\ PskError(c) # "" THEN Fails(PskError(c))
  ELSE IF UsesRsa(c) /\ peer.tmp = <<>> /\ c.client.cert # "RSA" THEN Fails("none")
  ELSE [ok |-> TRUE, premaster |-> ClientPremaster(c, peer), message |-> ClientMessage(c, peer)]

(* On its way back.                                                          *)
ChangedAnswer(c, m) ==
  CASE c.back = "identity" -> [m EXCEPT !.identity = "unknown"]
    [] c.back = "long identity" -> [m EXCEPT !.identity = "too long"]
    [] c.back = "more" -> [m EXCEPT !.more = TRUE]
    [] c.back = "not prefixed" -> [m EXCEPT !.prefixed = FALSE]
    [] m.value = <<>> -> m
    [] c.back = "no value" -> [m EXCEPT !.value = <<>>]
    [] UsesRsa(c) ->
         CASE c.back = "other key" -> [m EXCEPT !.value[1].key = "stranger"]
           [] c.back = "version" -> [m EXCEPT !.value[1].version = "TLS 1.0"]
           [] c.back = "padding" -> [m EXCEPT !.value[1].padded = FALSE]
           [] c.back = "length" -> [m EXCEPT !.value[1].full = FALSE]
           [] c.back = "modulus" -> [m EXCEPT !.value[1].fits = FALSE]
           [] OTHER -> m
    [] c.back = "other key" -> [m EXCEPT !.value[1].priv = "stranger"]
    [] c.back = "padding" -> [m EXCEPT !.value[1].priv = "none"]
    [] OTHER -> m
------------------------------------------------------------------------------
(* The server finds the key of the identity, then the other secret.          *)
IdentityError(c, m) ==
  CASE ~IsPsk(c) -> ""
    [] c.suite.mkey = "PSK" /\ m.more -> "decode_error"
    [] c.server.psk = "no callback" -> "internal_error"
    [] m.identity = "too long" -> "illegal_parameter"
    [] c.server.psk = "too long" -> "internal_error"
    [] m.identity # c.server.psk -> "unknown_psk_identity"
    [] OTHER -> ""

(* Whatever does not decrypt to a secret with the version of the hello is    *)
(* replaced by one no one knows.                                             *)
DecryptsToAny(c, value) == value.key = "RSA" /\ value.padded /\ value.full
DecryptsTo(c, value) ==
  value.key = "RSA" /\ value.padded /\ value.full /\ value.version = c.hello
RsaPremaster(c, value) ==
  IF DecryptsTo(c, value) THEN <<Chosen(value.version, value.random)>>
  ELSE <<Chosen(c.hello, "server")>>
Framed(c, m) == c.version = "SSL 3" \/ (m.prefixed /\ ~m.more) \/ c.server.d5
(* Taken as a whole, with its length or with what is behind it, the message  *)
(* is not a number below the modulus.                                        *)
WholeFits(c, m) ==
  /\ m.value # <<>> /\ m.value[1].fits /\ ~m.more
  /\ c.version = "SSL 3" => ~m.prefixed
RsaErrorOfPadding(c, m) ==
  IF m.value # <<>> /\ ~DecryptsTo(c, m.value[1]) THEN "decrypt_error" ELSE ""
RsaError(c, m) ==
  CASE "RSA" \notin c.server.keys -> "handshake_failure"
    [] ~Framed(c, m) -> "decode_error"
    [] c.server.rsa_small -> "decrypt_error"
    [] ~WholeFits(c, m) -> "none"
    [] OTHER -> ""
DhError(c, m) ==
  CASE m.value = <<>> \/ m.more -> "reason for decode_error"   \* not the alert's number
    [] m.value[1].priv = "none" -> "none"
    [] OTHER -> ""
EcdhError(c, m) ==
  CASE m.more -> "decode_error"
    [] m.value = <<>> \/ m.value[1].priv = "none" -> "none"
    [] OTHER -> ""
ValueError(c, m) ==
  CASE UsesRsa(c) -> RsaError(c, m) [] UsesEdh(c) -> DhError(c, m) [] UsesEecdh(c) -> EcdhError(c, m)
    [] OTHER -> ""
OtherSecret(c, m) ==
  CASE UsesRsa(c) -> RsaPremaster(c, m.value[1])
    [] UsesEdh(c) \/ UsesEecdh(c) -> <<Shared(Public(m.value[1].group, m.value[1].priv), ServerParams(c)[1].priv)>>
    [] OTHER -> <<Zeros>>
ServerPremaster(c, m) ==
  IF IsPsk(c) THEN PskPremaster(OtherSecret(c, m)[1], c.server.psk) ELSE OtherSecret(c, m)
ssl3_get_client_key_exchange(c, m) ==
  IF IdentityError(c, m) # "" THEN Fails(IdentityError(c, m))
  ELSE IF ValueError(c, m) # "" THEN Fails(ValueError(c, m))
  ELSE [ok |-> TRUE, premaster |-> ServerPremaster(c, m)]
------------------------------------------------------------------------------
(* One exchange: who failed where, or what both have at the end.             *)
Ended(at, alert) == [at |-> at, alert |-> alert]
Answers(c, peer, sent) ==
  IF ~sent.ok THEN Ended("client", sent.alert)
  ELSE LET got == ssl3_get_client_key_exchange(c, ChangedAnswer(c, sent.message)) IN
       IF ~got.ok THEN Ended("server", got.alert)
       ELSE [at |-> "end", hint |-> peer.hint, tmp |-> peer.tmp, client |-> sent.premaster, server |-> got.premaster]
Continues(c, peer) ==
  IF ~peer.ok THEN Ended("client", peer.alert)
  ELSE IF ~ssl3_check_cert_and_algorithm(c, peer) THEN Ended("client", "handshake_failure")
  ELSE Answers(c, peer, ssl3_send_client_key_exchange(c, peer))
Exchange(c) ==
  LET m == ServerSends(c) IN
  IF ~m.ok THEN Ended("server", m.alert) ELSE Continues(c, ssl3_get_server_key_exchange(c, OnItsWay(c, m)))

KeyExchangeNext ==
  /\ calc = NotCalculated
  /\ \E suite \in Suites, e \in EndCases, version \in ExchangeVersions, way \in Interference :
       LET c == [suite |-> suite, version |-> version, offered |-> "TLS 1.2"] @@ e @@ way
       IN  Calculates("Exchange", c, Exchange(c))
------------------------------------------------------------------------------
(* Ends that both reach the end and were not interfered with have one secret,*)
(* and only if what one made of the other's message is what was sent. Under  *)
(* ECDHE_PSK they never have.                                                *)
Reached == calc.out.at = "end"
SameSecret == calc.out.client = calc.out.server
Untouched(c) == c.change = "none" /\ c.back = "none" /\ c.hello = c.offered
KeysAgree ==
  Calculated("Exchange") /\ Reached =>
    LET c == calc.in IN
    /\ Untouched(c) => (SameSecret <=> ~(IsPsk(c) /\ UsesEecdh(c)))
    /\ SameSecret => calc.out.tmp = ServerParams(c) /\ (UsesRsa(c) => c.hello = c.offered)

(* With a server that is properly set up and a client that accepts its       *)
(* certificate, nothing but a change stops an exchange.                      *)
Prepared(c) ==
  /\ UsesEdh(c) => c.server.dh # "none" /\ c.server.group = "large"
  /\ UsesEecdh(c) => c.server.ecdh # "none"
  /\ ssl_cipher_has_server_public_key(c) =>
       c.suite.auth \in c.server.keys /\ c.client.cert = c.suite.auth /\ c.server.digest = "SHA1"
  /\ UsesRsa(c) => "RSA" \in c.server.keys /\ ~c.server.rsa_small
  /\ IsPsk(c) => c.server.psk = c.client.psk /\ c.client.psk = "key"
ExchangesEnd == Calculated("Exchange") /\ Prepared(calc.in) /\ Untouched(calc.in) => Reached

(* A client goes on with parameters only if the key of the certificate has   *)
(* signed them, in this connection; its callback is given the server's hint, *)
(* or none.                                                                  *)
ParamsAreSigned ==
  Calculated("Exchange") /\ Reached =>
    LET c == calc.in IN
    /\ ssl_cipher_has_server_public_key(c) => calc.out.tmp = ServerParams(c)
    /\ IsPsk(c) /\ c.change = "none" =>
         calc.out.hint \in {c.server.hint} \cup (IF c.server.hint = NoHint THEN {"empty"} ELSE {})

(* Of a message with an encrypted secret that is of the right size the       *)
(* server tells nothing before the handshake fails for want of a common one. *)
Tells(c) == c.back \in {"not prefixed", "more", "no value", "modulus"}
NothingIsTold ==
  Calculated("Exchange") /\ UsesRsa(calc.in) /\ Prepared(calc.in) /\ calc.in.change = "none" =>
    Tells(calc.in) \/ Reached

------------------------------------------------------------------------------
(* The cipher suites of libssl, in the order of their ids (s3_lib.c), and    *)
(* what a suite says of the key block and of the handshake digests           *)
(* (ssl_ciph.c). Names, strengths and descriptions are left out.             *)
Suite(id, mkey, auth, enc, mac, ssl, prf) ==
  [id |-> id, mkey |-> mkey, auth |-> auth, enc |-> enc, mac |-> mac, ssl |-> ssl, prf |-> prf,
   aead |-> "none", fixed_nonce_len |-> 0, nonce_in_record |-> FALSE]
WithAead(suite, fixed_nonce_len, nonce_in_record) ==
  [suite EXCEPT !.aead = "AEAD", !.fixed_nonce_len = fixed_nonce_len,
                !.nonce_in_record = nonce_in_record]
Stateful(suite) == [suite EXCEPT !.aead = "stateful"]

Suites1 == <<
  Stateful(Suite(\h0004, "RSA", "RSA", "RC4", "MD5", "SSL 3", "DEFAULT")),
  Suite(\h0005, "RSA", "RSA", "RC4", "SHA1", "SSL 3", "DEFAULT"),
  Suite(\h000A, "RSA", "RSA", "TDES", "SHA1", "SSL 3", "DEFAULT"),
  Suite(\h0018, "EDH", "NULL", "RC4", "MD5", "SSL 3", "DEFAULT"),
  Suite(\h002F, "RSA", "RSA", "AES128", "SHA1", "TLS 1.0", "DEFAULT"),
  Suite(\h0033, "EDH", "RSA", "AES128", "SHA1", "TLS 1.0", "DEFAULT"),
  Suite(\h0034, "EDH", "NULL", "AES128", "SHA1", "TLS 1.0", "DEFAULT"),
  Suite(\h0035, "RSA", "RSA", "AES256", "SHA1", "TLS 1.0", "DEFAULT"),
  Suite(\h0039, "EDH", "RSA", "AES256", "SHA1", "TLS 1.0", "DEFAULT")>>
Suites2 == <<
  Suite(\h003A, "EDH", "NULL", "AES256", "SHA1", "TLS 1.0", "DEFAULT"),
  Suite(\h003C, "RSA", "RSA", "AES128", "SHA256", "TLS 1.2", "DEFAULT"),
  Suite(\h003D, "RSA", "RSA", "AES256", "SHA256", "TLS 1.2", "DEFAULT"),
  Suite(\h0067, "EDH", "RSA", "AES128", "SHA256", "TLS 1.2", "DEFAULT"),
  Suite(\h006B, "EDH", "RSA", "AES256", "SHA256", "TLS 1.2", "DEFAULT"),
  Suite(\h006C, "EDH", "NULL", "AES128", "SHA256", "TLS 1.2", "DEFAULT"),
  Suite(\h006D, "EDH", "NULL", "AES256", "SHA256", "TLS 1.2", "DEFAULT"),
  Suite(\h008A, "PSK", "PSK", "RC4", "SHA1", "TLS 1.0", "DEFAULT"),
  Suite(\h008C, "PSK", "PSK", "AES128", "SHA1", "TLS 1.0", "DEFAULT")>>
Suites3 == <<
  Suite(\h008D, "PSK", "PSK", "AES256", "SHA1", "TLS 1.0", "DEFAULT"),
  WithAead(Suite(\h009C, "RSA", "RSA", "AES128GCM", "AEAD", "TLS 1.2", "SHA256"), 4, TRUE),
  WithAead(Suite(\h009D, "RSA", "RSA", "AES256GCM", "AEAD", "TLS 1.2", "SHA384"), 4, TRUE),
  WithAead(Suite(\h009E, "EDH", "RSA", "AES128GCM", "AEAD", "TLS 1.2", "SHA256"), 4, TRUE),
  WithAead(Suite(\h009F, "EDH", "RSA", "AES256GCM", "AEAD", "TLS 1.2", "SHA384"), 4, TRUE),
  WithAead(Suite(\h00A6, "EDH", "NULL", "AES128GCM", "AEAD", "TLS 1.2", "SHA256"), 4, TRUE),
  WithAead(Suite(\h00A7, "EDH", "NULL", "AES256GCM", "AEAD", "TLS 1.2", "SHA384"), 4, TRUE),
  Suite(\hC007, "EECDH", "ECDSA", "RC4", "SHA1", "TLS 1.0", "DEFAULT"),
  Suite(\hC009, "EECDH", "ECDSA", "AES128", "SHA1", "TLS 1.0", "DEFAULT")>>
Suites4 == <<
  Suite(\hC00A, "EECDH", "ECDSA", "AES256", "SHA1", "TLS 1.0", "DEFAULT"),
  Suite(\hC011, "EECDH", "RSA", "RC4", "SHA1", "TLS 1.0", "DEFAULT"),
  Suite(\hC013, "EECDH", "RSA", "AES128", "SHA1", "TLS 1.0", "DEFAULT"),
  Suite(\hC014, "EECDH", "RSA", "AES256", "SHA1", "TLS 1.0", "DEFAULT"),
  Suite(\hC016, "EECDH", "NULL", "RC4", "SHA1", "TLS 1.0", "DEFAULT"),
  Suite(\hC018, "EECDH", "NULL", "AES128", "SHA1", "TLS 1.0", "DEFAULT"),
  Suite(\hC019, "EECDH", "NULL", "AES256", "SHA1", "TLS 1.0", "DEFAULT"),
  Suite(\hC023, "EECDH", "ECDSA", "AES128", "SHA256", "TLS 1.2", "SHA256"),
  Suite(\hC024, "EECDH", "ECDSA", "AES256", "SHA384", "TLS 1.2", "SHA384")>>
Suites5 == <<
  Suite(\hC027, "EECDH", "RSA", "AES128", "SHA256", "TLS 1.2", "SHA256"),
  Suite(\hC028, "EECDH", "RSA", "AES256", "SHA384", "TLS 1.2", "SHA384"),
  WithAead(Suite(\hC02B, "EECDH", "ECDSA", "AES128GCM", "AEAD", "TLS 1.2", "SHA256"), 4, TRUE),
  WithAead(Suite(\hC02C, "EECDH", "ECDSA", "AES256GCM", "AEAD", "TLS 1.2", "SHA384"), 4, TRUE),
  WithAead(Suite(\hC02F, "EECDH", "RSA", "AES128GCM", "AEAD", "TLS 1.2", "SHA256"), 4, TRUE),
  WithAead(Suite(\hC030, "EECDH", "RSA", "AES256GCM", "AEAD", "TLS 1.2", "SHA384"), 4, TRUE),
  WithAead(Suite(\hCAFE, "EECDH", "PSK", "AES128GCM", "AEAD", "TLS 1.2", "SHA256"), 4, TRUE),
  WithAead(Suite(\hCC13, "EECDH", "RSA", "CHACHA20POLY1305", "AEAD", "TLS 1.2", "SHA256"), 0, FALSE),
  WithAead(Suite(\hCC14, "EECDH", "ECDSA", "CHACHA20POLY1305", "AEAD", "TLS 1.2", "SHA256"), 0, FALSE)>>
Suites6 == <<
  WithAead(Suite(\hCC15, "EDH", "RSA", "CHACHA20POLY1305", "AEAD", "TLS 1.2", "SHA256"), 0, FALSE)>>
ssl3_ciphers == Suites1 \o Suites2 \o Suites3 \o Suites4 \o Suites5 \o Suites6
NoSuite == [id |-> -1]

(* A suite is looked up by halving the table.                                *)
BinarySearch(value) ==
  LET search[lo \in 1 .. Len(ssl3_ciphers) + 1, hi \in 0 .. Len(ssl3_ciphers)] ==
        LET mid == (lo + hi) \div 2 IN
        IF lo > hi THEN NoSuite
        ELSE IF ssl3_ciphers[mid].id = value THEN ssl3_ciphers[mid]
        ELSE IF ssl3_ciphers[mid].id < value THEN search[mid + 1, hi]
        ELSE search[lo, mid - 1]
  IN search[1, Len(ssl3_ciphers)]
ssl3_get_cipher_by_value(value) == BinarySearch(value)
ssl3_get_cipher(u) ==
  IF u < Len(ssl3_ciphers) THEN ssl3_ciphers[Len(ssl3_ciphers) - u] ELSE NoSuite
------------------------------------------------------------------------------
(* The sizes of digests, and of the keys and nonces of ciphers.              *)
Versions == <<"SSL 3", "TLS 1.0", "TLS 1.1", "TLS 1.2">>
AtLeast(version, than) ==
  \E i, j \in DOMAIN Versions : i >= j /\ Versions[i] = version /\ Versions[j] = than
DigestSize == [MD5 |-> 16, SHA1 |-> 20, SHA256 |-> 32, SHA384 |-> 48]
KeyLength == [TDES |-> 24, RC4 |-> 16, AES128 |-> 16, AES256 |-> 32]
IvLength == [TDES |-> 8, RC4 |-> 0, AES128 |-> 16, AES256 |-> 16]
AeadSizes ==
  [AES128GCM |-> [key |-> 16, nonce |-> 12], AES256GCM |-> [key |-> 32, nonce |-> 12],
   CHACHA20POLY1305 |-> [key |-> 32, nonce |-> 8], RC4 |-> [key |-> 32, nonce |-> 0]]

(* The MAC of an AEAD suite is none, of size 0.                              *)
ssl_cipher_get_mac(suite) ==
  IF suite.mac \in DOMAIN DigestSize THEN [md |-> suite.mac, size |-> DigestSize[suite.mac]]
  ELSE [md |-> "none", size |-> 0]
ssl_cipher_get_evp_aead(suite) ==
  IF suite.enc \in DOMAIN AeadSizes /\ (suite.enc = "RC4" => suite.mac = "MD5") THEN suite.enc ELSE "none"
ssl_cipher_get_evp(suite) ==
  IF suite.aead = "AEAD" \/ suite.enc \notin DOMAIN KeyLength \/ ssl_cipher_get_mac(suite).md = "none"
  THEN "none" ELSE suite.enc

(* The digests of the handshake and of the PRF, in the table's order. TLS    *)
(* 1.2 uses SHA-256 where a suite has the default of before.                 *)
ssl_handshake_digests == <<"MD5", "SHA1", "SHA256", "SHA384">>
ssl_get_algorithm2(version, suite) ==
  IF suite.prf = "DEFAULT" /\ version = "TLS 1.2" THEN "SHA256" ELSE suite.prf
ssl_get_handshake_digest(algorithm2) ==
  IF algorithm2 = "DEFAULT" THEN <<"MD5", "SHA1">> ELSE <<algorithm2>>

Byte(term, place) == [of |-> term, at |-> place]
Whole(term) == <<Byte(term, 0)>>
Bytes(name, n) == [i \in 1 .. n |-> Byte(<<name>>, i)]
Output(term, n) == [i \in 1 .. n |-> Byte(term, i)]
Text(chars) == [i \in DOMAIN chars |-> Byte(<<chars[i]>>, 1)]
ClientRandom == Text(<<"f">>) \o Bytes("client random", RandomSize - 1)
ServerRandom == Bytes("server random", RandomSize)
------------------------------------------------------------------------------
(* Rounds[k] is A(k) of RFC 5246; the last round's output is cut.            *)
tls1_P_hash(md, secret, seed, olen) ==
  LET Rounds[k \in Nat] ==
        Whole(<<"HMAC", md, secret, IF k = 1 THEN seed ELSE Rounds[k - 1]>>)
  IN [i \in 1 .. olen |->
        Byte(<<"HMAC", md, secret, Rounds[(i - 1) \div DigestSize[md] + 1] \o seed>>,
             ((i - 1) % DigestSize[md]) + 1)]

(* Several digests share the secret out evenly: of an odd one the byte in    *)
(* the middle is in both halves.                                             *)
SecretHalf(secret, count, i) ==
  LET len == Len(secret) \div count IN SubSeq(secret, (i - 1) * len + 1, i * len)
SecretOf(secret, count, i) ==
  LET len == Len(secret) \div count
      more == IF count = 1 THEN 0 ELSE Len(secret) % 2
  IN SubSeq(secret, (i - 1) * len + 1, i * len + more)
tls1_PRF(algorithm2, secret, seed, olen) ==
  LET mds == ssl_get_handshake_digest(algorithm2)
      outs == [i \in DOMAIN mds |-> tls1_P_hash(mds[i], SecretOf(secret, Len(mds), i), seed, olen)]
  IN [n \in 1 .. olen |-> Byte(<<"xor", {outs[i][n] : i \in DOMAIN mds}>>, 0)]

tls1_generate_master_secret(algorithm2, premaster) ==
  tls1_PRF(algorithm2, premaster, Text(<<"m", "s">>) \o ClientRandom \o ServerRandom, MasterSize)
tls1_generate_key_block(algorithm2, master, num) ==
  tls1_PRF(algorithm2, master, Text(<<"k", "e">>) \o ServerRandom \o ClientRandom, num)

(* SSL 3: MD5 around SHA1, with a salt of k letters in round k.              *)
Salt(k) == [i \in 1 .. k |-> Byte(<<"letter">>, k)]
Ssl3Round(k, secret, randoms) ==
  <<"MD5", secret \o Whole(<<"SHA1", Salt(k) \o secret \o randoms>>)>>
Ssl3Rounds(secret, randoms, num) ==
  [i \in 1 .. num |->
     Byte(Ssl3Round((i - 1) \div DigestSize["MD5"] + 1, secret, randoms), ((i - 1) % DigestSize["MD5"]) + 1)]
ssl3_generate_master_secret(premaster) ==
  Ssl3Rounds(premaster, ClientRandom \o ServerRandom, 3 * DigestSize["MD5"])
ssl3_generate_key_block(master, num) ==
  IF num > 16 * DigestSize["MD5"] THEN <<>>
  ELSE Ssl3Rounds(master, ServerRandom \o ClientRandom, num)
------------------------------------------------------------------------------
(* The sizes the key block is made of; a connection without a cipher fails.  *)
NoSizes == [mac |-> -1, key |-> -1, iv |-> -1]
AeadKeySizes(suite) ==
  LET aead == ssl_cipher_get_evp_aead(suite)
      mac == ssl_cipher_get_mac(suite).size
  IN IF aead = "none" \/ AeadSizes[aead].key < mac THEN NoSizes
     ELSE [mac |-> mac, key |-> AeadSizes[aead].key - mac, iv |-> suite.fixed_nonce_len]
CipherKeySizes(suite) ==
  LET enc == ssl_cipher_get_evp(suite) IN
  IF enc = "none" THEN NoSizes
  ELSE [mac |-> ssl_cipher_get_mac(suite).size, key |-> KeyLength[enc], iv |-> IvLength[enc]]
UsesAead(version, suite) == version # "SSL 3" /\ suite.aead # "none"
KeySizes(version, suite) ==
  IF UsesAead(version, suite) THEN AeadKeySizes(suite) ELSE CipherKeySizes(suite)
BlockLength(sizes) == 2 * (sizes.mac + sizes.key + sizes.iv)

need_record_splitting(version, suite, mode) ==
  mode /\ ~AtLeast(version, "TLS 1.1") /\ suite.enc # "RC4"

tls1_setup_key_block(version, suite, master, mode) ==
  [sizes |-> KeySizes(version, suite), splits |-> need_record_splitting(version, suite, mode),
   block |-> tls1_generate_key_block(ssl_get_algorithm2(version, suite), master,
                                     BlockLength(KeySizes(version, suite)))]
ssl3_setup_key_block(suite, master, mode) ==
  [sizes |-> CipherKeySizes(suite), splits |-> need_record_splitting("SSL 3", suite, mode),
   block |-> ssl3_generate_key_block(master, BlockLength(CipherKeySizes(suite)))]
Schedule(version, suite, master, mode) ==
  IF KeySizes(version, suite) = NoSizes THEN [sizes |-> NoSizes]
  ELSE IF version = "SSL 3" THEN ssl3_setup_key_block(suite, master, mode)
  ELSE tls1_setup_key_block(version, suite, master, mode)
MasterOf(version, premaster) ==
  IF version = "SSL 3" THEN ssl3_generate_master_secret(premaster)
  ELSE tls1_generate_master_secret(ssl_get_algorithm2(version, [prf |-> "DEFAULT"]), premaster)

(* The keys of one direction: where they are in the block, and the state     *)
(* made of them. which is client or server, and read or write.               *)
Area(first, n) == [from |-> first, to |-> first + n - 1]
OwnKeys(which) == which[1] = "client"
UsesClientKeys(which) == which \in {<<"client", "write">>, <<"server", "read">>}
Areas(sizes, which) ==
  LET side == IF UsesClientKeys(which) THEN 0 ELSE 1 IN
  [mac |-> Area(1 + side * sizes.mac, sizes.mac),
   key |-> Area(1 + 2 * sizes.mac + side * sizes.key, sizes.key),
   iv |-> Area(1 + 2 * (sizes.mac + sizes.key) + side * sizes.iv, sizes.iv)]
Cut(block, area) == SubSeq(block, area.from, area.to)
Direction(block, sizes, which) ==
  [name \in {"mac", "key", "iv"} |-> Cut(block, Areas(sizes, which)[name])]

NoState == [ok |-> FALSE]
(* A stateful AEAD has the MAC key in front of its key and no nonce in the   *)
(* record.                                                                   *)
tls1_change_cipher_state_aead(suite, d) ==
  LET variable == IF suite.aead = "stateful" THEN 0 ELSE 8 IN
  IF variable + Len(d.iv) # AeadSizes[suite.enc].nonce THEN NoState
  ELSE [ok |-> TRUE, key |-> d.mac \o d.key, mac |-> <<>>, iv |-> d.iv, variable |-> variable,
        in_record |-> suite.nonce_in_record]
tls1_change_cipher_state_cipher(d) ==
  [ok |-> TRUE, key |-> d.key, mac |-> d.mac, iv |-> d.iv, variable |-> 0, in_record |-> FALSE]
tls1_change_cipher_state(version, suite, made, which) ==
  IF BlockLength(made.sizes) # Len(made.block) THEN NoState
  ELSE IF UsesAead(version, suite)
  THEN tls1_change_cipher_state_aead(suite, Direction(made.block, made.sizes, which))
  ELSE tls1_change_cipher_state_cipher(Direction(made.block, made.sizes, which))
ssl3_change_cipher_state(made, which) ==
  IF \E area \in {Areas(made.sizes, which)[n] : n \in {"mac", "key", "iv"}} : area.to > Len(made.block)
  THEN NoState
  ELSE tls1_change_cipher_state_cipher(Direction(made.block, made.sizes, which))
StateOf(version, suite, made, which) ==
  IF made.sizes = NoSizes THEN NoState
  ELSE IF version = "SSL 3" THEN ssl3_change_cipher_state(made, which)
  ELSE tls1_change_cipher_state(version, suite, made, which)
------------------------------------------------------------------------------
(* The exporter: the label, the randoms and the context are put together     *)
(* before a reserved label is looked for at the front.                       *)
ReservedLabels == {<<"c", "f">>, <<"s", "f">>, <<"m", "s">>, <<"k", "e">>}
LengthOf(n) == <<Byte(<<"length">>, n)>>
ExporterSeed(label, context) ==
  Text(label) \o ClientRandom \o ServerRandom
  \o (IF context = <<>> THEN <<>> ELSE LengthOf(Len(context[1])) \o Text(context[1]))
Refused == <<>>
tls1_export_keying_material(label, context) ==
  IF \E r \in ReservedLabels : IsPrefix(Text(r), ExporterSeed(label, context)) THEN Refused
  ELSE ExporterSeed(label, context)
------------------------------------------------------------------------------
(* Alerts are sent with the codes of the protocol; <<>> is not sent.         *)
Ssl3Alerts ==
  {"close_notify", "unexpected_message", "bad_record_mac", "decompression_failure",
   "handshake_failure", "no_certificate", "bad_certificate", "unsupported_certificate",
   "certificate_revoked", "certificate_expired", "certificate_unknown", "illegal_parameter",
   "inappropriate_fallback"}
LaterAlerts ==
  {"access_denied", "decode_error", "decrypt_error", "export_restriction", "protocol_version",
   "insufficient_security", "internal_error", "user_cancelled", "unsupported_extension",
   "certificate_unobtainable", "unrecognized_name", "bad_certificate_status_response",
   "bad_certificate_hash_value"}
OtherAlerts ==
  {"decryption_failed", "record_overflow", "unknown_ca", "no_renegotiation", "unknown_psk_identity"}
ssl3_alert_code(alert) ==
  IF alert \in Ssl3Alerts THEN <<alert>>
  ELSE IF alert \in LaterAlerts THEN <<"handshake_failure">>
  ELSE CASE alert \in {"decryption_failed", "record_overflow"} -> <<"bad_record_mac">>
         [] alert = "unknown_ca" -> <<"bad_certificate">>
         [] alert = "no_renegotiation" -> <<>>
         [] OTHER -> <<alert>>
tls1_alert_code(alert) == IF alert = "no_certificate" THEN <<>> ELSE <<alert>>
------------------------------------------------------------------------------
(* The digests of one end: the buffered messages, and what has been digested *)
(* so far with each digest. keep is TLS1_FLAGS_KEEP_HANDSHAKE.               *)
NoTranscript == [buffer |-> <<>>, keep |-> FALSE, digests |-> <<>>, failed |-> FALSE]
ssl3_init_finished_mac(t) == [t EXCEPT !.buffer = <<<<>>>>, !.digests = <<>>]
BufferAll(t, message) ==
  IF t.buffer # <<>> THEN [t EXCEPT !.buffer = <<Append(t.buffer[1], message)>>]
  ELSE [t EXCEPT !.digests = [i \in DOMAIN t.digests |->
         [t.digests[i] EXCEPT !.over = Append(t.digests[i].over, message)]]]
ssl3_finish_mac(t, message) ==
  IF t.buffer # <<>> /\ ~t.keep THEN [t EXCEPT !.buffer = <<Append(t.buffer[1], message)>>]
  ELSE [t EXCEPT !.digests = [i \in DOMAIN t.digests |->
         [t.digests[i] EXCEPT !.over = Append(t.digests[i].over, message)]]]
ssl3_digest_cached_records(t, mds) ==
  IF t.buffer = <<>> THEN [t EXCEPT !.failed = TRUE]
  ELSE [t EXCEPT !.digests = [i \in DOMAIN mds |-> [md |-> mds[i], over |-> t.buffer[1]]],
                 !.buffer = IF t.keep THEN t.buffer ELSE <<>>]
Digested(t, mds) == IF t.buffer = <<>> THEN t ELSE ssl3_digest_cached_records(t, mds)

(* What is made of the digests: the values of all of them, in their order.   *)
(* SSL 3 needs MD5 and SHA1, TLS those of the PRF.                           *)
tls1_handshake_digest(t, mds) ==
  IF [i \in DOMAIN t.digests |-> t.digests[i].md] = mds THEN t.digests ELSE <<>>
tls1_final_finish_mac(t, mds, sender) ==
  [by |-> sender, digests |-> tls1_handshake_digest(Digested(t, mds), mds)]
ssl3_final_finish_mac(t, mds, sender) ==
  [by |-> sender, digests |-> SelectSeq(Digested(t, mds).digests, LAMBDA d : d.md \in {"MD5", "SHA1"})]
Mds(h) == ssl_get_handshake_digest(ssl_get_algorithm2(h.version, [prf |-> h.prf]))
Finish(h, t, sender) ==
  IF h.version = "SSL 3" THEN ssl3_final_finish_mac(t, Mds(h), sender)
  ELSE tls1_final_finish_mac(t, Mds(h), sender)
cert_verify_mac(t) == t.digests

(* A handshake is followed by both ends as a list of what each does with its *)
(* transcript: a message passes, the records are digested if they have to    *)
(* be or if there are any, or a value is made and recorded.                  *)
Msg(name) == [do |-> "message", what |-> name]
Digest == [do |-> "digest", what |-> "now"]
DigestRest == [do |-> "digest", what |-> "if buffered"]
Make(what) == [do |-> "make", what |-> what]
Start == [do |-> "start", what |-> "start"]
Keep == [do |-> "keep", what |-> "keep"]
Drop == [do |-> "drop", what |-> "drop"]
If(c, steps) == IF c THEN steps ELSE <<>>
Sigalgs(h) == h.version = "TLS 1.2"
SendsCertificate(h) == h.requested /\ (h.cert \/ h.version # "SSL 3")

HelloMessages(h) == <<Msg("ServerHello")>>
ServerMessages(h) == <<Msg("Certificate"), Msg("ServerKeyExchange")>>
Extras(h) ==
  If(h.npn, <<Msg("NextProto")>>)
  \o If(h.channel_id, <<Make("channel id"), Msg("ChannelID")>>)
(* The end that finishes first and the one that answers.                     *)
FinishedName == [client |-> "Finished of the client", server |-> "Finished of the server"]
FinishedBy(sender) == <<Make(sender), Msg(FinishedName[sender])>>

ServerClientAuth(h) ==
  If(h.requested, If(SendsCertificate(h), <<Msg("ClientCertificate")>>) \o If(~h.cert, <<DigestRest>>))
  \o <<Msg("ClientKeyExchange")>>
  \o (IF Sigalgs(h) THEN If(h.requested /\ h.cert, <<Keep, Digest>>)
      ELSE <<DigestRest>> \o <<Make("verify digests")>>)
  \o If(h.requested /\ h.cert, <<Msg("CertificateVerify"), Make("verify")>>)
  \o <<Drop>>
ServerScript(h) ==
  <<Start, Msg("ClientHello")>>
  \o If(~Sigalgs(h) \/ ~h.verify_peer, <<Digest>>)
  \o HelloMessages(h)
  \o (IF h.hit THEN If(h.ticket, <<Msg("NewSessionTicket")>>)
                    \o FinishedBy("server") \o Extras(h) \o FinishedBy("client")
      ELSE ServerMessages(h)
           \o (IF h.requested THEN <<Msg("CertificateRequest")>> ELSE <<DigestRest>>)
           \o <<Msg("ServerHelloDone")>> \o ServerClientAuth(h)
           \o Extras(h) \o FinishedBy("client")
           \o If(h.ticket, <<Msg("NewSessionTicket")>>) \o FinishedBy("server"))

ClientVerify(h) ==
  If(h.cert, (IF Sigalgs(h) THEN <<Make("verify"), Digest>>
              ELSE <<DigestRest, Make("verify digests"), Make("verify")>>)
             \o <<Msg("CertificateVerify")>>)
ClientScript(h) ==
  <<Start, Msg("ClientHello"), Msg("ServerHello")>>
  \o If(~Sigalgs(h), <<Digest>>)
  \o (IF h.hit THEN If(h.ticket, <<Msg("NewSessionTicket")>>)
                    \o FinishedBy("server") \o Extras(h) \o FinishedBy("client")
      ELSE ServerMessages(h)
           \o (IF h.requested THEN <<Msg("CertificateRequest"), Msg("ServerHelloDone")>>
               ELSE <<Msg("ServerHelloDone"), DigestRest>>)
           \o If(SendsCertificate(h), <<Msg("ClientCertificate")>>)
           \o <<Msg("ClientKeyExchange")>> \o If(h.requested, ClientVerify(h))
           \o Extras(h) \o FinishedBy("client")
           \o If(h.ticket, <<Msg("NewSessionTicket")>>) \o FinishedBy("server"))

(* One step of a script: e is the transcript and the values made so far.     *)
(* Under TLS 1.2 a CertificateVerify is over the buffer itself, else over    *)
(* the digests taken for it. Finished and Channel ID digest what is left.    *)
MadeBy(h, e, what) ==
  CASE what \in {"client", "server"} -> Finish(h, e.t, what)
    [] what = "channel id" -> [by |-> what, digests |-> tls1_handshake_digest(Digested(e.t, Mds(h)), Mds(h))]
    [] what = "verify digests" -> [by |-> what, digests |-> cert_verify_mac(e.t)]
    [] OTHER -> IF Sigalgs(h) THEN [by |-> "verify", digests |-> [i \in DOMAIN e.t.buffer |->
                                      [md |-> "any", over |-> e.t.buffer[i]]]]
                ELSE [by |-> "verify", digests |-> e.made["verify digests"].digests]
Step(h, e, s) ==
  CASE s.do = "start" -> [e EXCEPT !.t = ssl3_init_finished_mac(e.t)]
    [] s.do = "message" -> [e EXCEPT !.t = ssl3_finish_mac(e.t, s.what)]
    [] s.do = "digest" ->
         [e EXCEPT !.t = IF s.what = "now" THEN ssl3_digest_cached_records(e.t, Mds(h)) ELSE Digested(e.t, Mds(h))]
    [] s.do = "keep" -> [e EXCEPT !.t.keep = TRUE]
    [] s.do = "drop" -> IF e.t.buffer = <<>> THEN e ELSE [e EXCEPT !.t.buffer = <<>>, !.t.keep = FALSE]
    [] OTHER -> [e EXCEPT !.made[s.what] = MadeBy(h, e, s.what),
                          !.t = IF s.what \in {"verify digests", "verify"} THEN e.t ELSE Digested(e.t, Mds(h))]
Values == {"client", "server", "channel id", "verify digests", "verify"}
NothingMade == [w \in Values |-> [by |-> "no one", digests |-> <<>>]]
Follow(h, t, script) ==
  FoldLeft(LAMBDA e, s : Step(h, e, s), [t |-> t, made |-> NothingMade], script)

(* A second handshake starts with what the first one left.                   *)
Handshakes(pair, Script(_)) ==
  LET first == Follow(pair[1], NoTranscript, Script(pair[1]))
  IN [first |-> first, second |-> Follow(pair[2], first.t, Script(pair[2]))]
------------------------------------------------------------------------------
(* The calculations.                                                         *)
SuitesOf(version) == {i \in DOMAIN ssl3_ciphers : AtLeast(version, ssl3_ciphers[i].ssl)}
CalculateSuite ==
  calc = NotCalculated /\ \E i \in DOMAIN ssl3_ciphers, more \in {0, 1} :
    Calculates("suite", [at |-> i, more |-> more],
      [found |-> ssl3_get_cipher_by_value(ssl3_ciphers[i].id + more),
       listed |-> ssl3_get_cipher(Len(ssl3_ciphers) - i)])
Ends(version, suite, made) ==
  [which \in {"client", "server"} \X {"read", "write"} |-> StateOf(version, suite, made, which)]
CalculateSchedule ==
  calc = NotCalculated /\ \E version \in {Versions[i] : i \in DOMAIN Versions}, mode \in BOOLEAN :
    \E i \in SuitesOf(version) :
      LET made == Schedule(version, ssl3_ciphers[i], Bytes("master", MasterSize), mode) IN
      Calculates("keys", [version |-> version, suite |-> ssl3_ciphers[i], mode |-> mode],
                 [made |-> made, ends |-> Ends(version, ssl3_ciphers[i], made)])
CalculateMaster ==
  calc = NotCalculated /\ \E version \in {Versions[i] : i \in DOMAIN Versions}, n \in SecretSizes :
    Calculates("master", [version |-> version, premaster |-> Bytes("premaster", n)],
               MasterOf(version, Bytes("premaster", n)))
CalculatePrf ==
  calc = NotCalculated /\ \E algorithm2 \in {"DEFAULT", "SHA256"}, n \in SecretSizes, olen \in OutputSizes :
    Calculates("prf", [secret |-> Bytes("secret", n), olen |-> olen, algorithm2 |-> algorithm2],
               tls1_PRF(algorithm2, Bytes("secret", n), Text(<<"x">>), olen))
CalculateExport ==
  calc = NotCalculated /\ \E label \in Labels, context \in Contexts :
    Calculates("export", [label |-> label, context |-> context],
               tls1_export_keying_material(label, context))
CalculateAlert ==
  calc = NotCalculated /\ \E alert \in Ssl3Alerts \cup LaterAlerts \cup OtherAlerts :
    Calculates("alert", alert, [ssl3 |-> ssl3_alert_code(alert), tls1 |-> tls1_alert_code(alert)])
CalculateTranscript ==
  calc = NotCalculated /\ \E pair \in HandshakePairs :
    Calculates("transcript", pair,
      [client |-> Handshakes(pair, ClientScript), server |-> Handshakes(pair, ServerScript)])
KeyScheduleNext ==
  \/ CalculateSuite \/ CalculateSchedule \/ CalculateMaster \/ CalculatePrf \/ CalculateExport
  \/ CalculateAlert \/ CalculateTranscript
------------------------------------------------------------------------------
(* A suite is found by its value and nothing else is; no two suites use the  *)
(* same algorithms.                                                          *)
Algorithms(s) == <<s.mkey, s.auth, s.enc, s.mac>>
SuitesAreFound ==
  Calculated("suite") =>
    LET s == ssl3_ciphers[calc.in.at] IN
    /\ calc.out.listed = s
    /\ calc.in.more = 0 => calc.out.found = s
    /\ calc.in.more = 1 => calc.out.found.id \in {-1, s.id + 1}
    /\ \A i \in DOMAIN ssl3_ciphers \ {calc.in.at} : Algorithms(ssl3_ciphers[i]) # Algorithms(s)

(* What one end writes with the other reads with, for every suite a version  *)
(* allows; the two directions share no byte of the block and leave none of   *)
(* it; a chained cipher without IVs of its own splits records if asked to.   *)
Taken(s) == {s.key[i] : i \in DOMAIN s.key} \cup {s.mac[i] : i \in DOMAIN s.mac} \cup {s.iv[i] : i \in DOMAIN s.iv}
KeysAreShared ==
  Calculated("keys") =>
    LET out == calc.out.ends
        cw == out[<<"client", "write">>]
        sw == out[<<"server", "write">>]
    IN /\ cw.ok /\ sw.ok
       /\ cw = out[<<"server", "read">>] /\ sw = out[<<"client", "read">>]
       /\ Len(cw.key) + Len(cw.mac) + Len(cw.iv) + Len(sw.key) + Len(sw.mac) + Len(sw.iv)
            = Len(calc.out.made.block)
       /\ Taken(cw) \cap Taken(sw) = {}
       /\ Taken(cw) \cup Taken(sw) = {calc.out.made.block[i] : i \in DOMAIN calc.out.made.block}
       /\ calc.out.made.splits <=>
            calc.in.mode /\ calc.in.version \in {"SSL 3", "TLS 1.0"}
            /\ calc.in.suite.enc \in {"TDES", "AES128", "AES256"}

(* The PRF never gives a byte twice, what it gives does not depend on how    *)
(* much is asked of it, and it uses every byte of the secret.                *)
Keys(out) == UNION {UNION {{h.of[3][i] : i \in DOMAIN h.of[3]} : h \in b.of[2]} : b \in {out[i] : i \in DOMAIN out}}
OutputsAreRandom ==
  Calculated("prf") =>
    /\ \A i, j \in DOMAIN calc.out : i # j => calc.out[i] # calc.out[j]
    /\ \A more \in OutputSizes :
         more >= calc.in.olen =>
           calc.out = SubSeq(tls1_PRF(calc.in.algorithm2, calc.in.secret, Text(<<"x">>), more), 1, calc.in.olen)
    /\ Keys(calc.out) = {calc.in.secret[i] : i \in DOMAIN calc.in.secret}

MastersAreWhole ==
  Calculated("master") =>
    /\ \A i, j \in DOMAIN calc.out : i # j => calc.out[i] # calc.out[j]
    /\ \A n \in SecretSizes \ {Len(calc.in.premaster)} :
         MasterOf(calc.in.version, Bytes("premaster", n)) # calc.out
    /\ calc.in.version # "SSL 3" =>
         Keys(calc.out) = {calc.in.premaster[i] : i \in DOMAIN calc.in.premaster}

(* Exported material is never what the protocol makes for itself, and        *)
(* another label or context gives other material.                            *)
InternalSeeds ==
  {Text(<<"m", "s">>) \o ClientRandom \o ServerRandom, Text(<<"k", "e">>) \o ServerRandom \o ClientRandom}
  \cup {Text(l) \o Bytes("digest", n) : l \in {<<"c", "f">>, <<"s", "f">>}, n \in 1 .. 4}
ExportsAreApart ==
  (Calculated("export") /\ calc.out # Refused) =>
    /\ \A r \in ReservedLabels : ~IsPrefix(Text(r), calc.out)
    /\ calc.out \notin InternalSeeds
    /\ \A label \in Labels, context \in Contexts :
         <<label, context>> # <<calc.in.label, calc.in.context>> =>
           tls1_export_keying_material(label, context) # calc.out

(* SSL 3 sends its own alerts only; a PSK is not used with it.               *)
AlertsAreKnown ==
  (Calculated("alert") /\ calc.in # "unknown_psk_identity" /\ calc.out.ssl3 # <<>>) =>
    calc.out.ssl3[1] \in Ssl3Alerts

(* Both ends make every value of a handshake over the same messages: all     *)
(* before it, and for a CertificateVerify all up to the ClientKeyExchange;   *)
(* also in a second handshake, whatever the first one kept.                  *)
Messages(h) ==
  LET steps == SelectSeq(ClientScript(h), LAMBDA s : s.do = "message")
  IN [i \in DOMAIN steps |-> steps[i].what]
Before(h, message) ==
  SubSeq(Messages(h), 1, (CHOOSE i \in DOMAIN Messages(h) : Messages(h)[i] = message) - 1)
MadeOver(made, messages) ==
  made.digests # <<>> /\ \A i \in DOMAIN made.digests : made.digests[i].over = messages
HandshakeAgrees(h, c, s) ==
  /\ ~c.t.failed /\ ~s.t.failed
  /\ \A value \in Values \ {"verify digests"} : c.made[value] = s.made[value]
  /\ \A sender \in {"client", "server"} : MadeOver(c.made[sender], Before(h, FinishedName[sender]))
  /\ h.channel_id => MadeOver(c.made["channel id"], Before(h, "ChannelID"))
  /\ (h.requested /\ h.cert /\ ~h.hit) => MadeOver(c.made["verify"], Before(h, "CertificateVerify"))
TranscriptsAgree ==
  Calculated("transcript") =>
    /\ HandshakeAgrees(calc.in[1], calc.out.client.first, calc.out.server.first)
    /\ HandshakeAgrees(calc.in[2], calc.out.client.second, calc.out.server.second)

(* Keys and digests are the same at both ends and used once.                 *)
SchedulesAgree ==
  SuitesAreFound /\ KeysAreShared /\ OutputsAreRandom /\ MastersAreWhole
  /\ ExportsAreApart /\ AlertsAreKnown /\ TranscriptsAgree
=============================================================================

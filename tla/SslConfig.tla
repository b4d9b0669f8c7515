----------------------------- MODULE SslConfig -----------------------------
(* What an application configures on an SSL_CTX and on an SSL: certificates, *)
(* private keys, chains and stores (ssl/ssl_rsa.c, ssl/ssl_cert.c), how an   *)
(* SSL takes a copy of its context's (SSL_new, SSL_set_SSL_CTX), and the two *)
(* BIOs it is given (SSL_set_bio and the descriptors, ssl/ssl_lib.c).        *)
(*                                                                           *)
(* Certificates, keys and stores are objects with a reference count. Every   *)
(* operation on a CERT is an operator that gives the CERT it leaves, the     *)
(* references it takes (X509_up_ref, CRYPTO_add, EVP_PKEY_dup) and those it  *)
(* gives up. An application that hands a reference over (the set0 and add0   *)
(* forms) has taken it before the call, so both forms look alike here.       *)
(* Failed allocations are left out.                                          *)
EXTENDS Integers, Sequences, FiniteSets

CONSTANTS
  ConfigCalls,   \* the most calls that change a configuration
  ConfigBios     \* the most BIOs an application makes

Absent == "none"
SslContexts == {"A", "B"}
LeafCerts == {"r1", "r2", "e1", "d1"}       \* d1: of a type that has no slot
KeyTypes == {"rsa", "ecc"}
PrivateKeys == {"k1", "k2", "ko", "ke"}     \* ko: opaque
ConfigObjects == LeafCerts \cup PrivateKeys \cup {"ca", "root", "trust", "other"}

VARIABLES
  ctxs,     \* per SSL_CTX: cert, cert_store, extra_certs, references, app (the application's own)
  conn,     \* the SSL: live, cert, ctx, initial_ctx
  refs,     \* the reference counts of certificates, keys and stores
  bio,      \* rbio, wbio, the buffering BIO and what lies below it, and the fate of every BIO
  calls
configVars == <<ctxs, conn, refs, bio, calls>>

(* ------------------------------- the CERT ------------------------------ *)
NoChain == [given |-> FALSE, certs |-> <<>>]
NoSlot == [x509 |-> Absent, privatekey |-> Absent, chain |-> NoChain]
ssl_cert_new ==
  [pkeys |-> [t \in KeyTypes |-> NoSlot], key |-> "rsa",
   verify_store |-> Absent, chain_store |-> Absent]

ssl_cert_type(o) == IF o \in {"r1", "r2", "k1", "k2", "ko"} THEN "rsa" ELSE "ecc"
is_opaque(key) == key = "ko"
check_private_key(x, key) == <<x, key>> \in {<<"r1", "k1">>, <<"r2", "k2">>, <<"e1", "ke">>}
Given(o) == IF o = Absent THEN <<>> ELSE <<o>>
Result(c, ups, frees, ok) == [cert |-> c, ups |-> ups, frees |-> frees, ok |-> ok]
Mismatch(x, key) ==
  x # Absent /\ key # Absent /\ ~is_opaque(key) /\ ~check_private_key(x, key)

(* The same, without looking at the key.                                   *)
KeepsAnyKey(c, x, slot) ==
  Result([c EXCEPT !.pkeys[ssl_cert_type(x)] = [slot EXCEPT !.x509 = x], !.key = ssl_cert_type(x)],
         <<x>>, Given(slot.x509), TRUE)

(* A key that does not fit the new certificate goes; the chain stays.      *)
SetCert(c, x, slot) ==
  Result([c EXCEPT !.pkeys[ssl_cert_type(x)] =
            [slot EXCEPT !.x509 = x,
                         !.privatekey = IF Mismatch(x, @) THEN Absent ELSE @],
                   !.key = ssl_cert_type(x)],
         <<x>>,
         Given(slot.x509) \o (IF Mismatch(x, slot.privatekey) THEN <<slot.privatekey>> ELSE <<>>),
         TRUE)
ssl_set_cert(c, x) ==
  IF x = "d1" THEN Result(c, <<>>, <<>>, FALSE)
  ELSE SetCert(c, x, c.pkeys[ssl_cert_type(x)])

(* The same, without looking at the certificate.                           *)
KeepsAnyCertificate(c, k) ==
  Result([c EXCEPT !.pkeys[ssl_cert_type(k)].privatekey = k, !.key = ssl_cert_type(k)],
         <<k>>, Given(c.pkeys[ssl_cert_type(k)].privatekey), TRUE)

(* A certificate that does not fit the new key goes, and the call fails    *)
(* with the slot's earlier key in place.                                   *)
ssl_set_pkey(c, k) ==
  IF Mismatch(c.pkeys[ssl_cert_type(k)].x509, k)
  THEN Result([c EXCEPT !.pkeys[ssl_cert_type(k)].x509 = Absent], <<>>,
              <<c.pkeys[ssl_cert_type(k)].x509>>, FALSE)
  ELSE Result([c EXCEPT !.pkeys[ssl_cert_type(k)].privatekey = k, !.key = ssl_cert_type(k)],
              <<k>>, Given(c.pkeys[ssl_cert_type(k)].privatekey), TRUE)

(* From a file of one of two formats; read is what it held, or Absent.       *)
Formats == {"PEM", "ASN1", "unknown"}
use_certificate_file(c, format, read) ==
  IF format = "unknown" \/ read = Absent THEN Result(c, <<>>, <<>>, FALSE) ELSE ssl_set_cert(c, read)
use_PrivateKey_file(c, format, read) ==
  IF format = "unknown" \/ read = Absent THEN Result(c, <<>>, <<>>, FALSE) ELSE ssl_set_pkey(c, read)

ssl_cert_set1_chain(c, chain) ==
  Result([c EXCEPT !.pkeys[c.key].chain = chain], chain.certs, c.pkeys[c.key].chain.certs, TRUE)
ssl_cert_add1_chain_cert(c, x) ==
  Result([c EXCEPT !.pkeys[c.key].chain = [given |-> TRUE, certs |-> Append(@.certs, x)]],
         <<x>>, <<>>, TRUE)
ssl_cert_select_current(c, x) ==
  IF \E t \in KeyTypes : c.pkeys[t].x509 = x
  THEN Result([c EXCEPT !.key = CHOOSE t \in KeyTypes : c.pkeys[t].x509 = x], <<>>, <<>>, TRUE)
  ELSE Result(c, <<>>, <<>>, FALSE)

(* path: what the verification found above the certificate; NO_ROOT drops  *)
(* a root at its end.                                                      *)
WithoutRoot(path) ==
  IF path # <<>> /\ path[Len(path)] = "root" THEN SubSeq(path, 1, Len(path) - 1) ELSE path
ssl_build_cert_chain(c, path, verified, flags) ==
  IF c.pkeys[c.key].x509 = Absent \/ ~(verified \/ "IGNORE_ERROR" \in flags)
  THEN Result(c, <<>>, <<>>, FALSE)
  ELSE ssl_cert_set1_chain(c,
         [given |-> TRUE, certs |-> IF "NO_ROOT" \in flags THEN WithoutRoot(path) ELSE path])

ssl_cert_set_cert_store(c, chain, store) ==
  IF chain THEN Result([c EXCEPT !.chain_store = store], Given(store), Given(c.chain_store), TRUE)
  ELSE Result([c EXCEPT !.verify_store = store], Given(store), Given(c.verify_store), TRUE)

InSlot(slot) == Given(slot.x509) \o Given(slot.privatekey) \o slot.chain.certs
InSlots(c) == InSlot(c.pkeys["rsa"]) \o InSlot(c.pkeys["ecc"])
InStores(c) == Given(c.verify_store) \o Given(c.chain_store)
ssl_cert_clear_certs(c) ==
  Result([c EXCEPT !.pkeys = [t \in KeyTypes |-> NoSlot]], <<>>, InSlots(c), TRUE)
ssl_cert_free(c) == ssl_cert_clear_certs(c).frees \o InStores(c)
(* A copy that shares the chains without counting them.                    *)
WithoutChain(slot) == [slot EXCEPT !.chain.certs = <<>>]
DupWithoutChains(c) ==
  Result(c, InSlot(WithoutChain(c.pkeys["rsa"])) \o InSlot(WithoutChain(c.pkeys["ecc"])) \o InStores(c),
         <<>>, TRUE)
ssl_cert_dup(c) == Result(c, InSlots(c) \o InStores(c), <<>>, TRUE)

(* file: a certificate, those of the chain, and how reading ends. The new  *)
(* certificate is in place when a later one turns out to be broken.        *)
InTurn(r, q) == Result(q.cert, r.ups \o q.ups, r.frees \o q.frees, q.ok)
SSL_CTX_use_certificate_chain_file(c, file) ==
  IF ~ssl_set_cert(c, file.x509).ok THEN ssl_set_cert(c, file.x509)
  ELSE [InTurn(ssl_set_cert(c, file.x509),
               ssl_cert_set1_chain(ssl_set_cert(c, file.x509).cert,
                                   [given |-> file.chain # <<>>, certs |-> file.chain]))
          EXCEPT !.ok = file.whole]

SSL_check_private_key(c) ==
  /\ c.pkeys[c.key].x509 # Absent /\ c.pkeys[c.key].privatekey # Absent
  /\ check_private_key(c.pkeys[c.key].x509, c.pkeys[c.key].privatekey)

(* --------------------------- contexts and SSLs ------------------------- *)
Times(s, o) == Cardinality({i \in DOMAIN s : s[i] = o})
CountRefs(ups, frees) == refs' = [o \in ConfigObjects |-> refs[o] + Times(ups, o) - Times(frees, o)]

SSL_CTX_new ==
  [cert |-> ssl_cert_new, cert_store |-> Absent, extra_certs |-> NoChain, references |-> 1, app |-> TRUE]
NoSsl == [live |-> FALSE, cert |-> ssl_cert_new, ctx |-> Absent, initial_ctx |-> Absent]
Alive(x) == ctxs[x].references > 0
OfCtx(x) == ctxs[x].extra_certs.certs \o Given(ctxs[x].cert_store) \o ssl_cert_free(ctxs[x].cert)

(* The calls that change a CERT, whoever owns it.                          *)
Paths == {<<>>, <<"ca">>, <<"ca", "root">>}
InChain(c, path) ==
  \A i \in DOMAIN path : \E j \in DOMAIN c.pkeys[c.key].chain.certs :
     c.pkeys[c.key].chain.certs[j] = path[i]
Built(c) ==
  UNION {{ssl_build_cert_chain(c, path, path # <<>> /\ path[Len(path)] = "root", flags) :
            flags \in SUBSET {"IGNORE_ERROR", "NO_ROOT"}} : path \in Paths}
  \cup {ssl_build_cert_chain(c, path, TRUE, {"CHECK"}) :
          path \in {p \in Paths : p # <<>> /\ p[Len(p)] = "root" /\ InChain(c, p)}}
CertCalls(c) ==
  {use_certificate_file(c, f, x) : f \in Formats, x \in LeafCerts \cup {Absent}}
  \cup {use_PrivateKey_file(c, f, k) : f \in Formats, k \in PrivateKeys \cup {Absent}}
  \cup {ssl_cert_set1_chain(c, h) : h \in {NoChain, [given |-> TRUE, certs |-> <<"ca", "root">>]}}
  \cup {ssl_cert_add1_chain_cert(c, "ca")}
  \cup {ssl_cert_select_current(c, x) : x \in {"r1", "e1"}}
  \cup {ssl_cert_set_cert_store(c, ch, st) : ch \in BOOLEAN, st \in {Absent, "trust"}}
  \cup Built(c)
ChainFiles == [x509 : {"r2"}, chain : {<<>>, <<"ca">>}, whole : BOOLEAN]

(* The second context is configured from files only, which keeps the model *)
(* small.                                                                  *)
ConfigureCtx(x) ==
  /\ Alive(x) /\ ctxs[x].app
  /\ \E r \in (IF x = "A" THEN CertCalls(ctxs[x].cert) ELSE {})
             \cup {SSL_CTX_use_certificate_chain_file(ctxs[x].cert, f) : f \in ChainFiles} :
        ctxs' = [ctxs EXCEPT ![x].cert = r.cert] /\ CountRefs(r.ups, r.frees)
  /\ UNCHANGED <<conn, bio>>
ConfigureSsl ==
  /\ conn.live
  /\ \E r \in CertCalls(conn.cert) \cup {ssl_cert_clear_certs(conn.cert)} :
        conn' = [conn EXCEPT !.cert = r.cert] /\ CountRefs(r.ups, r.frees)
  /\ UNCHANGED <<ctxs, bio>>

SSL_CTX_set_cert_store(x) ==
  /\ Alive(x) /\ ctxs[x].app
  /\ ctxs' = [ctxs EXCEPT ![x].cert_store = "other"]
  /\ CountRefs(<<"other">>, Given(ctxs[x].cert_store))
  /\ UNCHANGED <<conn, bio>>
SSL_CTX_extra_chain_cert(x) ==
  /\ Alive(x) /\ ctxs[x].app
  /\ \/ /\ Len(ctxs[x].extra_certs.certs) < 1
        /\ ctxs' = [ctxs EXCEPT ![x].extra_certs = [given |-> TRUE, certs |-> Append(@.certs, "root")]]
        /\ CountRefs(<<"root">>, <<>>)
     \/ /\ ctxs' = [ctxs EXCEPT ![x].extra_certs = NoChain]
        /\ CountRefs(<<>>, ctxs[x].extra_certs.certs)
  /\ UNCHANGED <<conn, bio>>

SSL_new(x) ==
  /\ ~conn.live /\ Alive(x) /\ ctxs[x].app
  /\ conn' = [live |-> TRUE, cert |-> ssl_cert_dup(ctxs[x].cert).cert, ctx |-> x, initial_ctx |-> x]
  /\ ctxs' = [ctxs EXCEPT ![x].references = @ + 2]
  /\ CountRefs(ssl_cert_dup(ctxs[x].cert).ups, <<>>)
  /\ UNCHANGED bio

(* SSL_CTX_free of one of two contexts; the last reference frees what the  *)
(* context holds.                                                          *)
Released(cs, x, n) ==
  IF cs[x].references > n THEN [cs EXCEPT ![x].references = @ - n]
  ELSE [cs EXCEPT ![x] = [SSL_CTX_new EXCEPT !.references = 0, !.app = FALSE]]
GivesNothingUp(cs, x, n) == <<>>   \* a context whose last reference goes leaks what it holds
GivenUp(cs, x, n) == IF cs[x].references > n THEN <<>> ELSE OfCtx(x)
SSL_CTX_free(x) ==
  /\ ctxs[x].app
  /\ ctxs' = Released([ctxs EXCEPT ![x].app = FALSE], x, 1)
  /\ CountRefs(<<>>, GivenUp(ctxs, x, 1))
  /\ UNCHANGED <<conn, bio>>

(* NULL stands for the context the SSL was made from.                      *)
SSL_set_SSL_CTX(to) ==
  /\ conn.live /\ to # conn.ctx /\ Alive(to) /\ (ctxs[to].app \/ to = conn.initial_ctx)
  /\ conn' = [conn EXCEPT !.cert = ssl_cert_dup(ctxs[to].cert).cert, !.ctx = to]
  /\ ctxs' = Released([ctxs EXCEPT ![to].references = @ + 1], conn.ctx, 1)
  /\ CountRefs(ssl_cert_dup(ctxs[to].cert).ups,
             ssl_cert_free(conn.cert) \o GivenUp(ctxs, conn.ctx, 1))
  /\ UNCHANGED bio

FreedCtxs == IF conn.ctx = conn.initial_ctx THEN Released(ctxs, conn.ctx, 2)
             ELSE Released(Released(ctxs, conn.initial_ctx, 1), conn.ctx, 1)
SSL_free ==
  /\ conn.live
  /\ conn' = NoSsl
  /\ ctxs' = FreedCtxs
  /\ CountRefs(<<>>, ssl_cert_free(conn.cert)
                     \o (IF conn.ctx = conn.initial_ctx THEN GivenUp(ctxs, conn.ctx, 2)
                         ELSE GivenUp(ctxs, conn.ctx, 1) \o GivenUp(ctxs, conn.initial_ctx, 1)))
  /\ UNCHANGED bio

(* What goes into the Certificate message for a slot: its chain, else the  *)
(* context's extra certificates, else what verification finds.             *)
ssl_add_cert_chain(s, slot, path, auto) ==
  IF slot.x509 = Absent THEN <<>>
  ELSE <<slot.x509>> \o (IF slot.chain.given THEN slot.chain.certs
                         ELSE IF ctxs[s.ctx].extra_certs.given THEN ctxs[s.ctx].extra_certs.certs
                         ELSE IF auto THEN path ELSE <<>>)

(* -------------------------------- the BIOs ----------------------------- *)
(* 0 is no BIO; Buffer is s->bbio, the buffering BIO of a handshake.       *)
Buffer == ConfigBios + 1
Fresh1 == bio.made + 1
Fresh2 == bio.made + 2
NoBios ==
  [rbio |-> 0, wbio |-> 0, bbio |-> FALSE, below |-> 0, made |-> 0, gone |-> FALSE,
   fd |-> [i \in 1..ConfigBios + 2 |-> 0], freed |-> [i \in 1..ConfigBios + 2 |-> 0], apart |-> TRUE]

Unbuffered(s) == IF s.bbio /\ s.wbio = Buffer THEN [s EXCEPT !.wbio = s.below, !.below = 0] ELSE s
BIO_free_all(s, b) == IF b = 0 THEN s ELSE [s EXCEPT !.freed[b] = @ + 1]
SetBios(s, r, w) ==
  [BIO_free_all(BIO_free_all(s, IF s.rbio # r THEN s.rbio ELSE 0),
                IF s.wbio # w /\ s.rbio # s.wbio THEN s.wbio ELSE 0)
     EXCEPT !.rbio = r, !.wbio = w]
(* The calls that give back a BIO which the code has freed by then are     *)
(* remembered (apart is FALSE): one that replaces the reading BIO, when it *)
(* was the writing one too, and keeps the writing one; one that exchanges  *)
(* the two; and one that hands the buffering BIO in again.                 *)
Keeps(s, r, w) ==
  /\ w # Buffer /\ r # Buffer
  /\ ~(s.rbio # r /\ s.rbio # 0 /\ (w = s.rbio))
  /\ ~(s.wbio # w /\ s.wbio # 0 /\ s.rbio # s.wbio /\ r = s.wbio)
SSL_set_bio(s, r, w) ==
  SetBios([Unbuffered(s) EXCEPT !.apart = @ /\ Keeps(Unbuffered(s), r, w)], r, w)

Made(s, n, d) == [s EXCEPT !.made = @ + n, !.fd[s.made + 1] = d]
GiveBios ==
  \E r, w \in {0, bio.rbio, bio.wbio, Fresh1, Fresh2} :
     /\ (w = Fresh2 => r = Fresh1) /\ r # Fresh2
     /\ (r = 0 <=> w = 0)
     /\ (IF Fresh2 = w THEN 2 ELSE IF Fresh1 \in {r, w} THEN 1 ELSE 0) + bio.made <= ConfigBios
     /\ bio' = SSL_set_bio(Made(bio, IF Fresh2 = w THEN 2 ELSE IF Fresh1 \in {r, w} THEN 1 ELSE 0, 0), r, w)
SSL_set_fd(d) ==
  /\ bio.made < ConfigBios
  /\ bio' = SSL_set_bio(Made(bio, 1, d), Fresh1, Fresh1)
IsFd(s, b, d) == b # 0 /\ b # Buffer /\ s.fd[b] = d
SSL_set_wfd(d) ==
  \/ ~IsFd(bio, bio.rbio, d) /\ bio.made < ConfigBios
     /\ bio' = SSL_set_bio(Made(bio, 1, d), bio.rbio, Fresh1)
  \/ IsFd(bio, bio.rbio, d) /\ bio' = SSL_set_bio(bio, bio.rbio, bio.rbio)
SSL_set_rfd(d) ==
  \/ ~IsFd(bio, bio.wbio, d) /\ bio.made < ConfigBios
     /\ bio' = SSL_set_bio(Made(bio, 1, d), Fresh1, bio.wbio)
  \/ IsFd(bio, bio.wbio, d) /\ bio' = SSL_set_bio(bio, bio.wbio, bio.wbio)

(* A server pushes the buffer at once, a client after its ClientHello.     *)
ssl_init_wbio_buffer(push) ==
  /\ bio.wbio # 0
  /\ bio' = IF push THEN [Unbuffered(bio) EXCEPT !.bbio = TRUE, !.below = Unbuffered(bio).wbio,
                                                 !.wbio = Buffer]
            ELSE [Unbuffered(bio) EXCEPT !.bbio = TRUE]
ssl_free_wbio_buffer ==
  /\ bio.bbio
  /\ bio' = [Unbuffered(bio) EXCEPT !.bbio = FALSE, !.freed[Buffer] = 0]
FreeBios ==
  bio' = [SetBios(Unbuffered(bio), 0, 0) EXCEPT !.bbio = FALSE, !.gone = TRUE]

Calling == calls < ConfigCalls /\ calls' = calls + 1

BioCall ==
  /\ Calling /\ ~bio.gone
  /\ \/ GiveBios \/ (\E d \in 1..2 : SSL_set_fd(d) \/ SSL_set_rfd(d) \/ SSL_set_wfd(d))
     \/ (\E push \in BOOLEAN : ssl_init_wbio_buffer(push)) \/ ssl_free_wbio_buffer \/ FreeBios
  /\ UNCHANGED <<ctxs, conn, refs>>

CertCall ==
  \/ /\ Calling
     /\ \/ \E x \in SslContexts : ConfigureCtx(x) \/ SSL_CTX_set_cert_store(x) \/ SSL_CTX_extra_chain_cert(x)
        \/ ConfigureSsl
  \/ /\ UNCHANGED calls
     /\ (\E x \in SslContexts : SSL_new(x) \/ SSL_CTX_free(x) \/ SSL_set_SSL_CTX(x)) \/ SSL_free

ConfigInit ==
  /\ ctxs = [x \in SslContexts |-> SSL_CTX_new]
  /\ conn = NoSsl
  /\ refs = [o \in ConfigObjects |-> 1]
  /\ bio = NoBios
  /\ calls = 0
ConfigNext == BioCall \/ CertCall

(* ------------------------------ properties ----------------------------- *)
Certs == {ctxs[x].cert : x \in {y \in SslContexts : Alive(y)}} \cup {conn.cert}

(* Whatever the order in which certificates and keys are set, on a context *)
(* or on a connection, and however often they are copied, the certificate  *)
(* and the key of a slot fit each other, unless the key is opaque          *)
(* (ssl_set_cert, ssl_set_pkey, ssl_cert_dup).                             *)
KeysFitCertificates ==
  \A c \in Certs : \A t \in KeyTypes : ~Mismatch(c.pkeys[t].x509, c.pkeys[t].privatekey)

(* Every certificate, key and store has as many references as there are    *)
(* places that hold it, the application's own among them, and a context as *)
(* many as its application and connections have; so nothing that is in use *)
(* has been freed, and nothing is left when all are freed.                 *)
Holders(o) ==
  1 + Times(ssl_cert_free(conn.cert), o)
    + Times(OfCtx("A"), o) + Times(OfCtx("B"), o)
CtxHolders(x) ==
  (IF ctxs[x].app THEN 1 ELSE 0) + (IF conn.ctx = x THEN 1 ELSE 0)
    + (IF conn.initial_ctx = x THEN 1 ELSE 0)
ConfigIsCounted ==
  /\ \A o \in ConfigObjects : refs[o] = Holders(o)
  /\ \A x \in SslContexts : ctxs[x].references = CtxHolders(x)

(* Every BIO an SSL was given is freed once, and only after the SSL no     *)
(* longer reads from it or writes to it, also through the buffering BIO of *)
(* a handshake (SSL_set_bio, SSL_set_rfd, SSL_set_wfd, SSL_free).          *)
InUse(b) == b \in {bio.rbio, bio.wbio, bio.below}
BiosAreOwned ==
  bio.apart => \A b \in 1..bio.made : bio.freed[b] = IF InUse(b) THEN 0 ELSE 1
=============================================================================

------------------------------ MODULE Handshake ------------------------------
(***************************************************************************)
(* The TLS handshake of ssl/s3_clnt.c and ssl/s3_srvr.c, with the parts of *)
(* s3_both.c, s3_pkt.c, s3_lib.c and t1_lib.c that the two state machines  *)
(* drive: full and abbreviated handshakes, session tickets, OCSP stapling, *)
(* client certificates, NPN, Channel ID, cut-through, renegotiation from   *)
(* either end, and application data between and during handshakes.         *)
(*                                                                         *)
(* One client and one server, each an SSL structure, exchange records over *)
(* a reliable transport that holds NetCap records per direction.  A step   *)
(* is one case of the switch in ssl3_connect or ssl3_accept, or one record *)
(* processed by ssl3_read_bytes.  A message is one record; cryptography is *)
(* symbolic: a key is the pair of hello randoms it is derived from, and a  *)
(* Finished carries the transcript it was computed over.                   *)
(***************************************************************************)
EXTENDS Naturals, Sequences, FiniteSets

CONSTANTS
  Options,          \* the configurations of the two applications, see OptionOK
  MaxApp,           \* bound: application records written by each end
  NetCap            \* bound: records the transport holds in one direction

Client == "client"
Server == "server"
Side == {Client, Server}
Peer(x) == IF x = Client THEN Server ELSE Client

\* The key exchanges the state machines tell apart: with or without a server
\* certificate, with or without a ServerKeyExchange, ephemeral or not.
KX == {"rsa", "ecdhe", "psk", "psk_hint"}
HasServerPublicKey(k) == k \in {"rsa", "ecdhe"}
RequiresServerKeyExchange(k) == k = "ecdhe"
SendsServerKeyExchange(k) == RequiresServerKeyExchange(k) \/ k = "psk_hint"

\* A session: id 0 is the empty session ID; hash: the transcript hash of its
\* original handshake, which a resumption with Channel ID signs.
NoSession == [id |-> 0, kx |-> "rsa", hash |-> <<>>]

\* What the applications have configured, for the whole connection, and what
\* they do: kxs is what the server may choose in each handshake,
\* renegotiate bounds the calls of SSL_renegotiate by each end, and drivers are
\* the calls the client makes while it handshakes: "read" (SSL_read) and
\* "handshake" (SSL_do_handshake, SSL_write).
OptionOK(o) ==
  /\ o.ticket \in BOOLEAN /\ o.npn \in BOOLEAN
  /\ o.chid \in BOOLEAN /\ o.certReq \in BOOLEAN /\ o.clientCert \in BOOLEAN
  /\ o.cutthrough \in BOOLEAN
  /\ o.kxs # {} /\ o.kxs \subseteq KX
  /\ o.prior.kx \in KX /\ o.prior.id \in {0, 1} /\ o.known \in BOOLEAN
  /\ o.renegotiate \in Nat
  /\ o.drivers # {} /\ o.drivers \subseteq {"read", "handshake"}

ASSUME OptionsAssumption == \A o \in Options : OptionOK(o)
\* The transport holds the data an end has not read and one record more: an end
\* that is writing a flight does not read, and two such ends would block.
ASSUME BoundsAssumption ==
  MaxApp \in Nat /\ NetCap \in Nat /\ NetCap > MaxApp

VARIABLES
  ssl,    \* ssl[x]: the SSL structure of end x
  net,    \* net[x]: the records end x has sent and its peer has not read
  opt,    \* the configuration of this connection
  calls   \* calls[x]: SSL_renegotiate calls left to end x

vars == <<ssl, net, opt, calls>>

c == ssl[Client]
v == ssl[Server]

NoKey == <<0, 0>>
NoMac == [from |-> "none", tr |-> <<>>]

-----------------------------------------------------------------------------
(* The initial state of a connection whose client may hold a session.       *)

NewSSL(start, sess) ==
  [st |-> start, next |-> "OK",
   renegotiate |-> 0, pending |-> FALSE, newSession |-> FALSE, total |-> 0,
   tr |-> <<>>, rand |-> <<0, 0>>, keyBlock |-> NoKey, wkey |-> NoKey, rkey |-> NoKey,
   expectCCS |-> FALSE, ccs |-> FALSE, reuse |-> <<>>, peerMac |-> NoMac,
   hit |-> FALSE, kx |-> "none", ticket |-> FALSE, npn |-> FALSE,
   chid |-> FALSE, chidNew |-> FALSE, cert |-> 0, peer |-> FALSE, sess |-> sess,
   prevClient |-> NoKey, prevServer |-> NoKey,
   buffering |-> FALSE, bbio |-> <<>>, readApp |-> 0,
   cache |-> {}, tickets |-> {}, log |-> <<>>, sent |-> <<>>, got |-> <<>>, alert |-> "none"]

Init ==
  /\ opt \in Options
  /\ ssl = [x \in Side |->
       IF x = Client THEN NewSSL("CONNECT", opt.prior)
       ELSE [NewSSL("ACCEPT", NoSession) EXCEPT
               !.cache = IF opt.known THEN {opt.prior} ELSE {}]]
  /\ net = [x \in Side |-> <<>>]
  /\ calls = [x \in Side |-> opt.renegotiate]

-----------------------------------------------------------------------------
(* Cipher state, transcript, records.                                       *)

\* setup_key_block: the key block of this handshake, computed once and kept
\* until ssl3_cleanup_key_block.
WithKeyBlock(s) == IF s.keyBlock = NoKey THEN [s EXCEPT !.keyBlock = s.rand] ELSE s
Cleaned(s) == [s EXCEPT !.keyBlock = NoKey]

\* setup_key_block followed by change_cipher_state, which takes the keys of one
\* direction from the key block.
WithReadKeys(s) == LET k == WithKeyBlock(s) IN [k EXCEPT !.rkey = k.keyBlock]
WithWriteKeys(s) == LET k == WithKeyBlock(s) IN [k EXCEPT !.wkey = k.keyBlock]

\* What the renegotiation_info extension of each hello contains, and what its
\* reader compares it with.
ClientBinding(s) == s.prevClient
ServerBinding(s) == <<s.prevClient, s.prevServer>>

\* final_finish_mac: what the Finished of end x must contain.
FinishMac(x, s) == [from |-> x, tr |-> s.tr]

\* What ssl3_finish_mac hashes of message m.
Hashed(m) == <<m.t, IF m.t \in {"ClientHello", "ServerHello"} THEN m.rand ELSE 0>>
Hash(s, m) == [s EXCEPT !.tr = Append(@, Hashed(m))]

\* End x writes record r and moves to s: into the buffering BIO when it is
\* pushed on wbio, else into the transport if that has room.
Put(x, r, s) ==
  IF ssl[x].buffering
    THEN /\ ssl' = [ssl EXCEPT ![x] = [s EXCEPT !.bbio = Append(ssl[x].bbio, r)]]
         /\ UNCHANGED net
    ELSE /\ Len(net[x]) < NetCap
         /\ net' = [net EXCEPT ![x] = Append(@, r)]
         /\ ssl' = [ssl EXCEPT ![x] = s]

Record(x, rt, m) == [rt |-> rt, key |-> ssl[x].wkey, m |-> m]

\* ssl3_do_write of a handshake message.
Send(x, m, s) == Put(x, Record(x, "handshake", m), Hash(s, m))

Move(x, s) == ssl' = [ssl EXCEPT ![x] = s] /\ UNCHANGED net

\* The message get_message would find: the one put back by reuse_message, else
\* the one in the first record, if the record layer lets it through.
Arrived(x) == IF net[Peer(x)] = <<>> THEN {} ELSE {Head(net[Peer(x)])}
Readable(x) ==
  {r \in Arrived(x) : /\ r.key = ssl[x].rkey
                      /\ r.rt = "handshake" => ~ssl[x].expectCCS
                      /\ r.rt # "handshake" => ~ssl[x].ccs}
Message(x) ==
  IF ssl[x].reuse # <<>> THEN {ssl[x].reuse[1]}
  ELSE {r.m : r \in {q \in Readable(x) : q.rt = "handshake"}}
Pop(x) == net' = [net EXCEPT ![Peer(x)] = Tail(@)]

\* tls1_channel_id_hash: what a Channel ID signature covers.
ChannelIdHash(s) == <<s.tr, IF s.hit THEN s.sess.hash ELSE <<>>>>

\* peer_finish_md after get_message: computed anew when a Finished arrives, over
\* the messages that followed the ChangeCipherSpec too.
PeerMac(x, m) == IF m.t = "Finished" THEN FinishMac(Peer(x), ssl[x]) ELSE ssl[x].peerMac

\* What ssl3_get_finished compares.
GoodFinished(x, m) == m.t = "Finished" /\ ssl[x].ccs /\ m.mac = PeerMac(x, m)

\* Whether the handler of state ssl[x].st accepts message m; if not it sends a
\* fatal alert.
Expects(x, m) ==
  LET s == ssl[x]
      Is(t) == m.t = t
  IN CASE s.st = "CR_SRVR_HELLO" -> Is("ServerHello") /\ m.binding = ServerBinding(s)
       [] s.st = "CR_CERT" -> Is("Certificate")
       [] s.st = "CR_KEY_EXCH" -> Is("ServerKeyExchange") \/ ~RequiresServerKeyExchange(s.kx)
       [] s.st = "CR_CERT_REQ" -> Is("CertificateRequest") \/ Is("ServerDone")
       [] s.st = "CR_SRVR_DONE" -> Is("ServerDone")
       [] s.st = "CR_SESSION_TICKET" -> Is("NewSessionTicket")
       [] s.st = "SR_CLNT_HELLO" -> Is("ClientHello") /\ m.binding = ClientBinding(s)
       [] s.st = "SR_CERT" -> Is("Certificate")
       [] s.st = "SR_KEY_EXCH" -> Is("ClientKeyExchange")
       [] s.st = "SR_CERT_VRFY" -> Is("CertificateVerify")
       [] s.st = "SR_NEXT_PROTO" -> Is("NextProto") /\ s.npn /\ s.ccs
       [] s.st = "SR_CHANNEL_ID" ->
            Is("EncryptedExtensions") /\ s.ccs /\ m.sig = ChannelIdHash(s)
       [] OTHER -> GoodFinished(x, m)
Expected(x) == {m \in Message(x) : Expects(x, m)}

\* End x is blocked in get_message.
Awaiting(x) ==
  LET s == ssl[x] IN
  \/ s.st \in {"CR_SRVR_HELLO", "CR_KEY_EXCH", "CR_CERT_REQ", "CR_SRVR_DONE",
               "CR_SESSION_TICKET", "CR_FINISHED", "SR_CLNT_HELLO", "SR_KEY_EXCH",
               "SR_NEXT_PROTO", "SR_CHANNEL_ID", "SR_FINISHED"}
  \/ s.st = "CR_CERT" /\ HasServerPublicKey(s.kx)
  \/ s.st = "SR_CERT" /\ s.cert = 1
  \/ s.st = "SR_CERT_VRFY" /\ s.peer

\* get_message has returned m and the handler moves x to s.  A message that was
\* put back has been hashed already; EncryptedExtensions are hashed by their own
\* handler only.
Take(x, m, s) ==
  /\ ssl' = [ssl EXCEPT ![x] =
       IF ssl[x].reuse # <<>> THEN [s EXCEPT !.reuse = <<>>]
       ELSE IF m.t = "EncryptedExtensions" THEN s ELSE Hash(s, m)]
  /\ IF ssl[x].reuse # <<>> THEN UNCHANGED net ELSE Pop(x)

\* get_message with a message for the next state: it is put back for it.
PutBack(x, m, s) ==
  /\ ssl' = [ssl EXCEPT ![x] =
       IF ssl[x].reuse # <<>> THEN s ELSE [Hash(s, m) EXCEPT !.reuse = <<m>>]]
  /\ IF ssl[x].reuse # <<>> THEN UNCHANGED net ELSE Pop(x)

-----------------------------------------------------------------------------
(* Steps that both state machines have.                                     *)

\* SSL3_RT_CHANGE_CIPHER_SPEC in ssl3_read_bytes, with
\* ssl3_do_change_cipher_spec: switch the read keys, record the Finished that
\* must follow.
ReadChangeCipherSpec(x) ==
  /\ ssl[x].expectCCS /\ ssl[x].kx # "none"
  /\ Awaiting(x)
  /\ \E r \in Readable(x) :
       /\ r.rt = "change_cipher_spec"
       /\ ssl' = [ssl EXCEPT ![x] =
            [WithReadKeys(@) EXCEPT
               !.expectCCS = FALSE, !.ccs = TRUE, !.peerMac = FinishMac(Peer(x), ssl[x])]]
  /\ Pop(x)

\* CR_CHANGE and SR_CHANGE up to the choice of the next state.
ExpectChangeCipherSpec(x, s) ==
  /\ ssl[x].reuse = <<>>
  /\ Move(x, [s EXCEPT !.expectCCS = TRUE])

\* ssl3_send_change_cipher_spec, setup_key_block and change_cipher_state.
SendChangeCipherSpec(x, s) ==
  Put(x, Record(x, "change_cipher_spec", [t |-> "CCS"]), WithWriteKeys(s))

\* ssl3_send_finished: it keeps the value for renegotiation_info.
WithFinishedOf(y, s) ==
  IF y = Client THEN [s EXCEPT !.prevClient = s.rand] ELSE [s EXCEPT !.prevServer = s.rand]
SendFinished(x, s) ==
  Send(x, [t |-> "Finished", mac |-> FinishMac(x, ssl[x])], WithFinishedOf(x, s))

\* ssl3_get_finished: it keeps the value, too.
GetFinished(x, s) ==
  \E m \in Expected(x) :
    Take(x, m, [WithFinishedOf(Peer(x), s) EXCEPT !.ccs = FALSE, !.peerMac = PeerMac(x, m)])

\* Mutant: a partial flush is taken for a complete one.
FlushOnce(x) ==
  /\ ssl[x].st \in {"CW_FLUSH", "SW_FLUSH"}
  /\ IF ssl[x].bbio = <<>>
       THEN Move(x, [ssl[x] EXCEPT !.st = ssl[x].next])
       ELSE /\ Len(net[x]) < NetCap
            /\ net' = [net EXCEPT ![x] = Append(@, Head(ssl[x].bbio))]
            /\ ssl' = [ssl EXCEPT ![x].bbio = Tail(@), ![x].st = ssl[x].next]

\* BIO_flush of the buffering BIO, one record at a time; the state is left when
\* nothing remains.
Flush(x) ==
  /\ ssl[x].st \in {"CW_FLUSH", "SW_FLUSH"}
  /\ IF ssl[x].bbio = <<>>
       THEN Move(x, [ssl[x] EXCEPT !.st = ssl[x].next])
       ELSE /\ Len(net[x]) < NetCap
            /\ net' = [net EXCEPT ![x] = Append(@, Head(ssl[x].bbio))]
            /\ ssl' = [ssl EXCEPT ![x].bbio = Tail(@)]

\* The buffering BIO is full in the middle of a flight and writes ahead.
Overflow(x) ==
  /\ ssl[x].st \notin {"CW_FLUSH", "SW_FLUSH"} /\ ssl[x].bbio # <<>>
  /\ Len(net[x]) < NetCap
  /\ net' = [net EXCEPT ![x] = Append(@, Head(ssl[x].bbio))]
  /\ ssl' = [ssl EXCEPT ![x].bbio = Tail(@)]

\* What the two ends must agree on when the handshake is over.
View(s) == [rand |-> s.rand, hit |-> s.hit, kx |-> s.kx, npn |-> s.npn,
            ticket |-> s.ticket, tr |-> s.tr, keys |-> {s.wkey, s.rkey},
            finished |-> <<s.prevClient, s.prevServer>>]

\* ssl_update_cache.
UpdateCache(s) ==
  IF s.sess.id # 0 /\ ~s.hit THEN [s EXCEPT !.cache = @ \cup {s.sess}] ELSE s

\* ssl_free_wbio_buffer: what the buffering BIO holds is lost.
Unbuffered(s) == [s EXCEPT !.buffering = FALSE, !.bbio = <<>>]

\* Mutant: no ssl3_cleanup_key_block.
ClientOkKeepsKeys ==
  /\ c.st = "OK"
  /\ Move(Client, UpdateCache([Unbuffered(c) EXCEPT
       !.st = "IDLE", !.renegotiate = 0, !.newSession = FALSE, !.log = Append(@, View(c))]))
\* Mutant: the OK state after a HelloRequest is taken for a complete handshake.
ServerOkAlways ==
  /\ v.st = "OK"
  /\ Move(Server, UpdateCache([Unbuffered(v) EXCEPT
       !.st = "IDLE", !.keyBlock = NoKey, !.renegotiate = 0, !.newSession = FALSE,
       !.log = Append(@, View(v))]))

\* SSL_ST_OK: key block, buffering BIO, session cache.
ClientOk ==
  /\ c.st = "OK"
  /\ Move(Client, UpdateCache([Cleaned(Unbuffered(c)) EXCEPT
       !.st = "IDLE", !.renegotiate = 0, !.newSession = FALSE,
       !.log = Append(@, View(c))]))
ServerOk ==
  /\ v.st = "OK"
  /\ LET s == [Cleaned(Unbuffered(v)) EXCEPT !.st = "IDLE"] IN
     Move(Server, IF v.renegotiate = 2
                    THEN UpdateCache([s EXCEPT !.renegotiate = 0, !.newSession = FALSE,
                                               !.log = Append(@, View(v))])
                    ELSE s)

-----------------------------------------------------------------------------
(* The client: the cases of ssl3_connect.                                   *)

\* SSL_cutthrough_complete: in the middle of a handshake, SSL_in_init is false.
CanCutThrough(s) == s.npn /\ s.kx = "ecdhe"
CutThroughComplete ==
  /\ ~c.hit /\ c.readApp = 0 /\ opt.cutthrough /\ CanCutThrough(c)
  /\ c.prevServer = NoKey
  /\ c.st \in {"CR_SESSION_TICKET", "CR_CHANGE", "CR_FINISHED"}

ClientConnect ==
  /\ c.st \in {"CONNECT", "RENEGOTIATE"}
  /\ Move(Client, [Unbuffered(c) EXCEPT
       !.st = "CW_CLNT_HELLO", !.tr = <<>>,
       !.renegotiate = IF c.st = "RENEGOTIATE" THEN 1 ELSE @])

\* ssl3_client_hello and ssl_add_clienthello_tlsext; the hello is written past
\* the buffering BIO, which is pushed for what follows.
ClientHello ==
  /\ c.st = "CW_CLNT_HELLO"
  /\ LET s == [c EXCEPT !.st = "CR_SRVR_HELLO", !.rand[1] = @ + 1, !.buffering = TRUE]
         first == c.prevClient = NoKey
     IN Send(Client, [t |-> "ClientHello", rand |-> s.rand[1],
                      id |-> IF c.newSession THEN 0 ELSE c.sess.id,
                      ticket |-> opt.ticket, npn |-> opt.npn /\ first, chid |-> opt.chid,
                      binding |-> ClientBinding(c)], s)

\* Mutant: the NPN flag of an earlier handshake survives.
ScanServerHelloKeepsNpn(s, m) ==
  [s EXCEPT !.ticket = m.ticket, !.npn = @ \/ m.npn,
            !.chid = @ \/ m.chid, !.chidNew = @ \/ m.chid]

\* ssl3_get_server_hello and ssl_scan_serverhello_tlsext.  The ticket and NPN
\* flags start afresh; the Channel ID flags are only ever set.
ScanServerHello(s, m) ==
  [s EXCEPT !.ticket = m.ticket, !.npn = m.npn /\ s.prevClient = NoKey,
            !.chid = @ \/ m.chid, !.chidNew = @ \/ m.chid]
GetServerHello ==
  /\ c.st = "CR_SRVR_HELLO"
  /\ \E m \in Expected(Client) :
       LET hit == m.id # 0 /\ m.id = c.sess.id
           s == ScanServerHello([c EXCEPT !.rand[2] = m.rand, !.hit = hit, !.kx = m.kx,
                  !.sess = IF hit THEN @ ELSE [id |-> m.id, kx |-> m.kx, hash |-> <<>>]], m)
       IN Take(Client, m, [s EXCEPT !.st =
            IF ~hit THEN "CR_CERT"
            ELSE IF s.ticket THEN "CR_SESSION_TICKET" ELSE "CR_CHANGE"])

GetServerCertificate ==
  /\ c.st = "CR_CERT"
  /\ IF HasServerPublicKey(c.kx)
       THEN \E m \in Expected(Client) :
              Take(Client, m, [c EXCEPT !.st = "CR_KEY_EXCH"])
       ELSE Move(Client, [c EXCEPT !.st = "CR_KEY_EXCH"])

\* ssl3_get_server_key_exchange: the message may be missing, and what arrived
\* in its place is put back.
GetServerKeyExchange ==
  /\ c.st = "CR_KEY_EXCH"
  /\ \E m \in Expected(Client) :
       LET s == [c EXCEPT !.st = "CR_CERT_REQ"] IN
       \/ m.t = "ServerKeyExchange" /\ Take(Client, m, s)
       \/ m.t # "ServerKeyExchange" /\ PutBack(Client, m, s)

GetCertificateRequest ==
  /\ c.st = "CR_CERT_REQ"
  /\ \E m \in Expected(Client) :
       LET s == [c EXCEPT !.st = "CR_SRVR_DONE"] IN
       \/ m.t = "CertificateRequest" /\ Take(Client, m, [s EXCEPT !.cert = 1])
       \/ m.t = "ServerDone" /\ PutBack(Client, m, [s EXCEPT !.cert = 0])

GetServerDone ==
  /\ c.st = "CR_SRVR_DONE"
  /\ \E m \in Expected(Client) :
       Take(Client, m, [c EXCEPT !.st = IF c.cert # 0 THEN "CW_CERT" ELSE "CW_KEY_EXCH"])

\* ssl3_send_client_certificate: without a certificate an empty chain is sent
\* and cert_req becomes 2.
SendClientCertificate ==
  /\ c.st = "CW_CERT"
  /\ Send(Client, [t |-> "Certificate", empty |-> ~opt.clientCert],
          [c EXCEPT !.st = "CW_KEY_EXCH", !.cert = IF opt.clientCert THEN @ ELSE 2])

SendClientKeyExchange ==
  /\ c.st = "CW_KEY_EXCH"
  /\ Send(Client, [t |-> "ClientKeyExchange"],
          IF c.cert = 1 THEN [c EXCEPT !.st = "CW_CERT_VRFY"]
          ELSE [c EXCEPT !.st = "CW_CHANGE", !.ccs = FALSE])

SendClientVerify ==
  /\ c.st = "CW_CERT_VRFY"
  /\ Send(Client, [t |-> "CertificateVerify"], [c EXCEPT !.st = "CW_CHANGE", !.ccs = FALSE])

ClientChange ==
  /\ c.st = "CW_CHANGE"
  /\ SendChangeCipherSpec(Client, [c EXCEPT !.st =
       IF c.npn THEN "CW_NEXT_PROTO" ELSE IF c.chid THEN "CW_CHANNEL_ID" ELSE "CW_FINISHED"])

SendNextProto ==
  /\ c.st = "CW_NEXT_PROTO"
  /\ Send(Client, [t |-> "NextProto"],
          [c EXCEPT !.st = IF c.chid THEN "CW_CHANNEL_ID" ELSE "CW_FINISHED"])

SendChannelId ==
  /\ c.st = "CW_CHANNEL_ID"
  /\ Send(Client, [t |-> "EncryptedExtensions", sig |-> ChannelIdHash(c)],
          [c EXCEPT !.st = "CW_FINISHED"])

\* tls1_record_handshake_hashes_for_channel_id, after this end has hashed the
\* client's Finished.
Recorded(s, tr) == IF ~s.hit /\ s.chidNew THEN [s EXCEPT !.sess.hash = tr] ELSE s
FinishedHash(s) == Append(s.tr, <<"Finished", 0>>)

ClientFinished ==
  /\ c.st = "CW_FINISHED"
  /\ SendFinished(Client, Recorded([c EXCEPT !.st = "CW_FLUSH", !.next =
       IF c.hit THEN "OK"
       ELSE IF opt.cutthrough /\ CanCutThrough(c) /\ c.prevServer = NoKey
         THEN "CUTTHROUGH_COMPLETE"
       ELSE IF c.ticket THEN "CR_SESSION_TICKET" ELSE "CR_CHANGE"], FinishedHash(c)))

CutThrough ==
  /\ c.st = "CUTTHROUGH_COMPLETE"
  /\ Move(Client, [Unbuffered(c) EXCEPT !.st =
       IF c.ticket THEN "CR_SESSION_TICKET" ELSE "CR_CHANGE"])

\* ssl3_get_new_session_ticket: the session takes an ID derived from the ticket.
GetNewSessionTicket ==
  /\ c.st = "CR_SESSION_TICKET"
  /\ \E m \in Expected(Client) :
       Take(Client, m, [c EXCEPT !.st = "CR_CHANGE", !.sess.id = m.id])

ClientExpectChange ==
  c.st = "CR_CHANGE" /\ ExpectChangeCipherSpec(Client, [c EXCEPT !.st = "CR_FINISHED"])

ClientGetFinished ==
  /\ c.st = "CR_FINISHED"
  /\ GetFinished(Client, [c EXCEPT !.st = IF c.hit THEN "CW_CHANGE" ELSE "OK"])

-----------------------------------------------------------------------------
(* The server: the cases of ssl3_accept.                                    *)

ServerAccept ==
  /\ v.st = "ACCEPT"
  /\ Move(Server, [v EXCEPT !.st = "SR_CLNT_HELLO", !.tr = <<>>,
                            !.buffering = TRUE, !.bbio = <<>>])

ServerRenegotiate ==
  /\ v.st = "RENEGOTIATE"
  /\ Move(Server, [v EXCEPT !.st = "SW_HELLO_REQ", !.renegotiate = 1])

\* ssl3_send_hello_request, then the transcript is cleared.
SendHelloRequest ==
  /\ v.st = "SW_HELLO_REQ"
  /\ Put(Server, Record(Server, "handshake", [t |-> "HelloRequest"]),
         [v EXCEPT !.st = "SW_FLUSH", !.next = "SW_HELLO_REQ_C", !.tr = <<>>])

HelloRequestSent == v.st = "SW_HELLO_REQ_C" /\ Move(Server, [v EXCEPT !.st = "OK"])

\* ssl3_get_client_hello: look the session up, choose the cipher, and let
\* ssl_scan_clienthello_tlsext and tls1_process_ticket set the
\* extension flags.
Resumable(m) == {e \in v.cache \cup v.tickets : m.id # 0 /\ e.id = m.id}
ScanClientHello(s, m) ==
  [s EXCEPT !.npn = m.npn /\ opt.npn /\ v.prevServer = NoKey,
            !.chid = @ \/ (m.chid /\ opt.chid), !.chidNew = @ \/ (m.chid /\ opt.chid)]
GetClientHello ==
  /\ v.st = "SR_CLNT_HELLO"
  /\ \E m \in Expected(Server) :
       LET n == v.rand[2] + 1
           s == [v EXCEPT !.st = "SW_SRVR_HELLO", !.renegotiate = 2, !.rand = <<m.rand, n>>]
       IN \/ \E kx \in opt.kxs : Take(Server, m, ScanClientHello([s EXCEPT
               !.hit = FALSE, !.kx = kx, !.ticket = m.ticket, !.peer = FALSE,
               !.sess = [id |-> IF m.ticket THEN 0 ELSE n + 1, kx |-> kx, hash |-> <<>>]], m))
          \/ \E e \in Resumable(m), renew \in {m.ticket, FALSE} :
               Take(Server, m, ScanClientHello([s EXCEPT
                 !.hit = TRUE, !.kx = e.kx, !.ticket = renew, !.sess = e], m))

\* ssl3_send_server_hello and ssl_add_serverhello_tlsext: Channel ID needs an
\* ECDHE cipher and, in a resumption, the hashes of the original handshake.
EchoesChannelId(s) ==
  s.chid /\ s.kx = "ecdhe" /\ ~(s.hit /\ s.chidNew /\ s.sess.hash = <<>>)
SendServerHello ==
  /\ v.st = "SW_SRVR_HELLO"
  /\ LET s == [v EXCEPT !.chid = EchoesChannelId(v), !.st =
                 IF ~v.hit THEN "SW_CERT"
                 ELSE IF v.ticket THEN "SW_SESSION_TICKET" ELSE "SW_CHANGE"]
     IN Send(Server, [t |-> "ServerHello", rand |-> v.rand[2], id |-> v.sess.id, kx |-> v.kx,
                      ticket |-> v.ticket, npn |-> v.npn,
                      chid |-> s.chid, binding |-> ServerBinding(v)], s)

SendServerCertificate ==
  /\ v.st = "SW_CERT"
  /\ IF HasServerPublicKey(v.kx)
       THEN Send(Server, [t |-> "Certificate", empty |-> FALSE],
                 [v EXCEPT !.st = "SW_KEY_EXCH"])
       ELSE Move(Server, [v EXCEPT !.st = "SW_KEY_EXCH"])

SendServerKeyExchange ==
  /\ v.st = "SW_KEY_EXCH"
  /\ LET s == [v EXCEPT !.st = "SW_CERT_REQ"] IN
     IF SendsServerKeyExchange(v.kx) THEN Send(Server, [t |-> "ServerKeyExchange"], s)
     ELSE Move(Server, s)

RequestsCertificate == opt.certReq /\ v.kx \notin {"psk", "psk_hint"}
SendCertificateRequest ==
  /\ v.st = "SW_CERT_REQ"
  /\ IF RequestsCertificate
       THEN Send(Server, [t |-> "CertificateRequest"], [v EXCEPT !.st = "SW_SRVR_DONE", !.cert = 1])
       ELSE Move(Server, [v EXCEPT !.st = "SW_SRVR_DONE", !.cert = 0])

\* Mutant: the flight is not flushed.
SendServerDoneUnflushed ==
  /\ v.st = "SW_SRVR_DONE"
  /\ Send(Server, [t |-> "ServerDone"], [v EXCEPT !.st = "SR_CERT"])

SendServerDone ==
  /\ v.st = "SW_SRVR_DONE"
  /\ Send(Server, [t |-> "ServerDone"], [v EXCEPT !.st = "SW_FLUSH", !.next = "SR_CERT"])

\* ssl3_get_client_certificate, entered only when one was requested.
GetClientCertificate ==
  /\ v.st = "SR_CERT"
  /\ IF v.cert = 1
       THEN \E m \in Expected(Server) :
              Take(Server, m, [v EXCEPT !.st = "SR_KEY_EXCH", !.peer = ~m.empty])
       ELSE Move(Server, [v EXCEPT !.st = "SR_KEY_EXCH"])

GetClientKeyExchange ==
  /\ v.st = "SR_KEY_EXCH"
  /\ \E m \in Expected(Server) :
       Take(Server, m, [v EXCEPT !.st = "SR_CERT_VRFY"])

\* ssl3_get_cert_verify: expected only from a client that sent a certificate.
GetCertVerify ==
  /\ v.st = "SR_CERT_VRFY"
  /\ LET s == [v EXCEPT !.st = "SR_CHANGE"] IN
     IF v.peer
       THEN \E m \in Expected(Server) : Take(Server, m, s)
       ELSE Move(Server, s)

ServerExpectChange ==
  /\ v.st = "SR_CHANGE"
  /\ ExpectChangeCipherSpec(Server, [v EXCEPT !.st =
       IF v.npn THEN "SR_NEXT_PROTO" ELSE IF v.chid THEN "SR_CHANNEL_ID" ELSE "SR_FINISHED"])

GetNextProto ==
  /\ v.st = "SR_NEXT_PROTO"
  /\ \E m \in Expected(Server) :
       Take(Server, m, [v EXCEPT !.st = IF v.chid THEN "SR_CHANNEL_ID" ELSE "SR_FINISHED"])

\* ssl3_get_channel_id hashes the message itself, after the signed hash is taken.
GetChannelId ==
  /\ v.st = "SR_CHANNEL_ID"
  /\ \E m \in Expected(Server) :
       Take(Server, m, Hash([v EXCEPT !.st = "SR_FINISHED"], m))

ServerGetFinished ==
  /\ v.st = "SR_FINISHED"
  /\ GetFinished(Server, Recorded([v EXCEPT !.st =
       IF v.hit THEN "OK" ELSE IF v.ticket THEN "SW_SESSION_TICKET" ELSE "SW_CHANGE"],
       FinishedHash(v)))

\* ssl3_send_newsession_ticket: the ticket holds the session.
SendNewSessionTicket ==
  /\ v.st = "SW_SESSION_TICKET"
  /\ LET id == v.rand[2] + 1 IN
     Send(Server, [t |-> "NewSessionTicket", id |-> id],
          [v EXCEPT !.st = "SW_CHANGE", !.tickets = @ \cup {[v.sess EXCEPT !.id = id]}])

ServerChange ==
  /\ v.st = "SW_CHANGE"
  /\ SendChangeCipherSpec(Server, [v EXCEPT !.st = "SW_FINISHED"])

ServerFinished ==
  /\ v.st = "SW_FINISHED"
  /\ SendFinished(Server, [v EXCEPT !.st = "SW_FLUSH", !.next = IF v.hit THEN "SR_CHANGE" ELSE "OK"])

-----------------------------------------------------------------------------
(* The applications: SSL_renegotiate, SSL_write, SSL_read.                  *)

InitFinished(x) == ssl[x].st = "IDLE"

\* SSL_renegotiate and SSL_renegotiate_abbreviated; here not by a client that is
\* in the cut-through window, although SSL_in_init is false there too.
Renegotiate(x, new) ==
  /\ calls[x] > 0 /\ calls' = [calls EXCEPT ![x] = @ - 1]
  /\ ~ssl[x].pending
  /\ InitFinished(x)
  /\ Move(x, [ssl[x] EXCEPT !.pending = TRUE, !.newSession = new,
                            !.renegotiate = IF @ = 0 THEN 1 ELSE @])

\* ssl3_renegotiate_check, when SSL_write, SSL_read or SSL_do_handshake is
\* called and SSL_in_init is false.
RenegotiateCheck(x) ==
  /\ ssl[x].pending /\ InitFinished(x)
  /\ Move(x, [ssl[x] EXCEPT !.st = "RENEGOTIATE", !.pending = FALSE, !.total = @ + 1])

\* SSL_write of one record.
Write(x) ==
  /\ Len(ssl[x].sent) < MaxApp /\ ~ssl[x].pending
  /\ InitFinished(x) \/ (x = Client /\ CutThroughComplete)
  /\ Put(x, Record(x, "application_data", [t |-> "app", n |-> Len(ssl[x].sent) + 1]),
         [ssl[x] EXCEPT !.sent = Append(@, {ssl[x].wkey})])

\* SSL_read of one record of application data; in the middle of a
\* renegotiation only the client between its hello and the server's hello
\* indulges it, and only inside SSL_read.
MayIndulge == c.total # 0 /\ c.st = "CR_SRVR_HELLO"
Read(x) ==
  \E r \in Readable(x) :
    /\ r.rt = "application_data"
    /\ \/ InitFinished(x) /\ ~ssl[x].pending
       \/ x = Client /\ MayIndulge /\ "read" \in opt.drivers
    /\ Pop(x)
    /\ ssl' = [ssl EXCEPT ![x].got = Append(@, <<r.m.n, {r.key}>>),
                         ![x].readApp = IF InitFinished(x) THEN 0 ELSE 2]

\* Mutant: an idle client does not answer it.
ReadHelloRequestIgnores ==
  /\ \E r \in Readable(Client) : r.m.t = "HelloRequest"
  /\ InitFinished(Client) \/ (Awaiting(Client) /\ c.reuse = <<>>)
  /\ Pop(Client) /\ UNCHANGED ssl

\* A HelloRequest makes an idle client renegotiate, unless it is about to; in
\* a handshake ssl3_get_message skips it.
ReadHelloRequest ==
  \E r \in Readable(Client) :
    /\ r.m.t = "HelloRequest"
    /\ Pop(Client)
    /\ \/ /\ InitFinished(Client) /\ ~c.pending
          /\ ssl' = [ssl EXCEPT ![Client].st = "RENEGOTIATE", ![Client].total = @ + 1,
                               ![Client].readApp = 0]
       \/ Awaiting(Client) /\ c.reuse = <<>> /\ UNCHANGED ssl

\* A ClientHello makes an idle server start over: the unexpected handshake
\* message in ssl3_read_bytes.
ReadClientHello ==
  /\ InitFinished(Server) /\ ~v.pending
  /\ \E r \in Readable(Server) : r.m.t = "ClientHello"
  /\ Move(Server, [v EXCEPT !.st = "ACCEPT", !.renegotiate = 1, !.newSession = TRUE])

-----------------------------------------------------------------------------
(* Failure.                                                                 *)

\* End x reads record r: SSL_read when idle, get_message in a handshake.
Reading(x) == Awaiting(x) \/ (InitFinished(x) /\ ~ssl[x].pending)

\* Application data in a handshake is refused unless ssl3_read_bytes indulges
\* it; a call other than SSL_read finds in_read_app_data clear, or left at 2.
Indulges(x) ==
  x = Client /\ MayIndulge /\ ("read" \in opt.drivers \/ c.readApp = 2)
Refuses(x) ==
  ~Indulges(x) \/ ("handshake" \in opt.drivers /\ c.readApp # 2)

Unexpected(x, r) ==
  \/ r \notin Readable(x)
  \/ r.rt = "change_cipher_spec" /\ ~(ssl[x].expectCCS /\ ssl[x].kx # "none")
  \/ r.rt = "application_data" /\ ~InitFinished(x) /\ Refuses(x)
  \/ /\ r.rt = "handshake" /\ ~(x = Client /\ r.m.t = "HelloRequest")
     /\ IF InitFinished(x) THEN ~(x = Server /\ r.m.t = "ClientHello") ELSE ~Expects(x, r.m)

\* Mutant: the session stays in the cache.
ForgetKeeps(s) == [s EXCEPT !.st = "DEAD"]

\* ssl3_send_alert of a fatal alert: the session leaves the cache, the alert and
\* what is buffered before it are written as far as the transport takes them.
\* Nothing more is asked of this connection.
Forget(s) == [s EXCEPT !.cache = {e \in @ : e.id # s.sess.id}, !.st = "DEAD"]
Abort(x, why) ==
  LET out == ssl[x].bbio \o <<Record(x, "alert", [t |-> "fatal"])>>
      room == NetCap - Len(net[x])
      n == IF Len(out) < room THEN Len(out) ELSE room
  IN /\ ssl' = [ssl EXCEPT ![x] = [Forget(@) EXCEPT !.bbio = <<>>, !.alert = why]]
     /\ net' = [net EXCEPT ![x] = @ \o SubSeq(out, 1, n)]

RejectRecord(x) ==
  /\ Reading(x)
  /\ IF ssl[x].reuse # <<>> THEN Expected(x) = {} /\ Abort(x, "handshake")
     ELSE \E r \in Arrived(x) : Unexpected(x, r) /\ Abort(x, r.rt)

\* A fatal alert from the peer.
ReadAlert(x) ==
  /\ Reading(x) /\ ssl[x].reuse = <<>>
  /\ \E r \in Readable(x) : r.rt = "alert"
  /\ Pop(x) /\ ssl' = [ssl EXCEPT ![x] = Forget(@)]

-----------------------------------------------------------------------------
ClientStep ==
  \/ ClientConnect \/ ClientHello \/ GetServerHello \/ GetServerCertificate
  \/ GetServerKeyExchange \/ GetCertificateRequest \/ GetServerDone
  \/ SendClientCertificate \/ SendClientKeyExchange \/ SendClientVerify \/ ClientChange
  \/ SendNextProto \/ SendChannelId \/ ClientFinished \/ CutThrough
  \/ GetNewSessionTicket \/ ClientExpectChange \/ ClientGetFinished \/ ClientOk
  \/ ReadHelloRequest

ServerStep ==
  \/ ServerAccept \/ ServerRenegotiate \/ SendHelloRequest \/ HelloRequestSent
  \/ GetClientHello \/ SendServerHello \/ SendServerCertificate
  \/ SendServerKeyExchange \/ SendCertificateRequest \/ SendServerDone
  \/ GetClientCertificate \/ GetClientKeyExchange \/ GetCertVerify \/ ServerExpectChange
  \/ GetNextProto \/ GetChannelId \/ ServerGetFinished \/ SendNewSessionTicket
  \/ ServerChange \/ ServerFinished \/ ServerOk \/ ReadClientHello

CommonStep(x) ==
  \/ ReadChangeCipherSpec(x) \/ Flush(x) \/ RenegotiateCheck(x) \/ Read(x)
  \/ RejectRecord(x) \/ ReadAlert(x)

Step(x) ==
  /\ CommonStep(x) \/ (x = Client /\ ClientStep) \/ (x = Server /\ ServerStep)
  /\ UNCHANGED <<opt, calls>>

\* Both ends are idle with nothing in flight, or the connection has failed.
Quiet ==
  /\ \/ \E x \in Side : ssl[x].st = "DEAD"
     \/ \A x \in Side : InitFinished(x) /\ ~ssl[x].pending /\ net[x] = <<>>
  /\ UNCHANGED vars

Next ==
  \/ \E x \in Side : Step(x)
  \/ \E x \in Side : (Overflow(x) \/ Write(x)) /\ UNCHANGED <<opt, calls>>
  \/ \E x \in Side, new \in BOOLEAN : Renegotiate(x, new) /\ UNCHANGED opt
  \/ Quiet

\* Each end keeps calling into the library, which takes every step it can; the
\* buffering BIO need not write ahead and the applications need not write.
Spec == Init /\ [][Next]_vars /\ \A x \in Side : WF_vars(Step(x))

-----------------------------------------------------------------------------
(* Properties.                                                              *)

ClientState == {"CONNECT", "RENEGOTIATE", "CW_CLNT_HELLO", "CR_SRVR_HELLO", "CR_CERT",
  "CR_KEY_EXCH", "CR_CERT_REQ", "CR_SRVR_DONE", "CW_CERT", "CW_KEY_EXCH",
  "CW_CERT_VRFY", "CW_CHANGE", "CW_NEXT_PROTO", "CW_CHANNEL_ID", "CW_FINISHED", "CW_FLUSH",
  "CUTTHROUGH_COMPLETE", "CR_SESSION_TICKET", "CR_CHANGE", "CR_FINISHED", "OK", "IDLE", "DEAD"}
ServerState == {"ACCEPT", "RENEGOTIATE", "SW_HELLO_REQ", "SW_HELLO_REQ_C", "SR_CLNT_HELLO",
  "SW_SRVR_HELLO", "SW_CERT", "SW_KEY_EXCH", "SW_CERT_REQ", "SW_SRVR_DONE",
  "SW_FLUSH", "SR_CERT", "SR_KEY_EXCH", "SR_CERT_VRFY", "SR_CHANGE", "SR_NEXT_PROTO",
  "SR_CHANNEL_ID", "SR_FINISHED", "SW_SESSION_TICKET", "SW_CHANGE", "SW_FINISHED", "OK",
  "IDLE", "DEAD"}

\* The types of the fields, and where the flags of the record layer can be set:
\* a ChangeCipherSpec is expected only by an end that waits for a Finished, the
\* key block exists only in a handshake, a message is put back only by the two
\* optional messages.
TypeOK ==
  /\ c.st \in ClientState /\ v.st \in ServerState
  /\ \A x \in Side :
       LET s == ssl[x] IN
       /\ s.renegotiate \in 0..2 /\ s.cert \in 0..2 /\ s.readApp \in {0, 2}
       /\ s.expectCCS \/ s.ccs =>
            s.st \in {"CR_FINISHED", "SR_NEXT_PROTO", "SR_CHANNEL_ID", "SR_FINISHED", "DEAD"}
       /\ ~(s.expectCCS /\ s.ccs)
       /\ s.st = "IDLE" => s.keyBlock = NoKey /\ s.bbio = <<>>
       /\ s.reuse # <<>> => s.st \in {"CR_CERT_REQ", "CR_SRVR_DONE", "DEAD"}
       /\ Len(net[x]) <= NetCap

\* Two correctly configured ends never tear the connection down: every message
\* is one the peer's state machine accepts, every record decrypts under the keys
\* the reader holds, every Finished and Channel ID signature verifies
\* (ssl3_get_message, ssl3_read_bytes, ssl3_get_finished).  Only a client that
\* drives a renegotiation by another call than SSL_read can fail, over data from
\* the server that is under way.
NoAbort ==
  \A x \in Side :
    \/ ssl[x].alert = "none"
    \/ ssl[x].alert = "application_data" /\ x = Client /\ "handshake" \in opt.drivers

\* A session is in a cache only if a full handshake established it and both
\* Finished messages of that handshake were exchanged, and never when it is the
\* session of a connection that failed (ssl_update_cache, ssl3_send_alert).
CachedSessionsAreProved ==
  \A x \in Side : \A e \in ssl[x].cache :
    /\ ssl[x].st = "DEAD" => e.id # ssl[x].sess.id
    /\ e.id # opt.prior.id => \E i \in DOMAIN ssl[x].log :
         LET w == ssl[x].log[i] IN
         ~w.hit /\ w.rand[2] + 1 = e.id /\ w.finished = <<w.rand, w.rand>>

\* What an end has written is in the buffering BIO or under way until its peer
\* reads it: no step drops a record, as removing the BIO before it is flushed
\* would (ssl_free_wbio_buffer).
InFlight(x) == net[x] \o ssl[x].bbio
NothingLost ==
  [][\A x \in Side : ssl'[x].st # "DEAD" =>
       \/ InFlight(x)' = InFlight(x)
       \/ Len(InFlight(x)') = Len(InFlight(x)) + 1
          /\ SubSeq(InFlight(x)', 1, Len(InFlight(x))) = InFlight(x)
       \/ InFlight(x) # <<>> /\ InFlight(x)' = Tail(InFlight(x))]_vars

\* Every handshake ends: nobody waits for a message that never comes.
HandshakeCompletes == \A x \in Side : ssl[x].st # "IDLE" ~> ssl[x].st = "IDLE"

\* SSL_renegotiate_pending "becomes true when negotiation is requested; false
\* again once a handshake has finished" (ssl_lib.c): a requested negotiation
\* takes place, also when the requests of both ends cross.
RenegotiationHappens == \A x \in Side : ssl[x].renegotiate # 0 ~> ssl[x].renegotiate = 0

\* The connection is the secure channel the applications are promised: the ends
\* agree on the randoms, cipher, extensions, transcript and keys of every
\* handshake they complete, in step, and data never crosses from one to another.
Channel == INSTANCE SecureChannel WITH
  NoKeys <- {NoKey},
  log <- [x \in Side |-> ssl[x].log],
  sent <- [x \in Side |-> ssl[x].sent],
  got <- [x \in Side |-> ssl[x].got]
ImplementsChannel == Channel!Spec
=============================================================================

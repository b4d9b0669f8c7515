--------------------------- MODULE TlsExtensions ----------------------------
(***************************************************************************)
(* The extensions of ClientHello and ServerHello (ssl/t1_lib.c,            *)
(* t1_reneg.c, d1_srtp.c): what each end adds for its configuration and    *)
(* state, how the other end scans it, and what they believe they agreed    *)
(* on, in a first handshake and in a second one that renegotiates on the   *)
(* same connection or resumes the session on a new one.                    *)
(*                                                                         *)
(* An extension block is a function from the types in it to their bodies;  *)
(* it is written and scanned in the order of ClientOrder or ServerOrder.   *)
(* Between ends of this code every body parses.  A verify_data is the      *)
(* number of the handshake whose Finished it is of, 0 before the first.    *)
(*                                                                         *)
(* How the two ends settle on curves and signature algorithms, and whether *)
(* a certificate chain suits what the peer asked for (ssl/t1_lib.c).  A    *)
(* signature algorithm is a pair of a hash and a kind of key, a list that  *)
(* is not configured is <<>>, a curve is its TLS number.  The layout of a  *)
(* ClientHello is read in cells: a number, a length or one unit of a body. *)
(***************************************************************************)
EXTENDS Calculation, Integers, Sequences
LOCAL INSTANCE SequencesExt

CONSTANTS
  CurveCases,   \* [client, server, prefers]: lists of curves and whose order counts
  SetCases,     \* sequences of curves an application asks for
  SigalgCases,  \* [client, server, prefers, strict]: configured lists of pairs
  ChainCases,   \* chains to check, see tls1_check_chain
  HelloCases    \* ClientHellos in cells, whole and damaged

CONSTANT ExtCases  \* configurations of a client c and a server s, see MCExtCases

VARIABLES
  exopt,    \* the configuration
  excl,     \* the client's SSL
  exsv,     \* the server's SSL
  exwire,   \* the block of the last hello
  exstored, \* the session the server can find again
  exstep,   \* where the handshake is
  excount   \* handshakes so far

extVars == <<exopt, excl, exsv, exwire, exstored, exstep, excount>>

ClientOrder == <<"server_name", "renegotiate", "session_ticket", "signature_algorithms",
                 "next_proto_neg", "alpn", "channel_id", "channel_id_new", "use_srtp",
                 "ec_point_formats", "elliptic_curves">>
ServerOrder == <<"server_name", "renegotiate", "ec_point_formats", "session_ticket", "use_srtp",
                 "next_proto_neg", "alpn", "channel_id", "channel_id_new">>

NewSession == [host |-> FALSE, tick |-> FALSE, hash |-> FALSE, formats |-> FALSE, suite |-> "none"]
NewSsl ==
  [session |-> NewSession, hit |-> FALSE, renegotiate |-> FALSE, new_session |-> FALSE,
   finished |-> 0, send_connection_binding |-> FALSE, servername_done |-> FALSE,
   alpn_selected |-> "none", next_proto_neg_seen |-> FALSE, next_proto |-> "none",
   channel_id_valid |-> FALSE, channel_id_new |-> FALSE, srtp_profile |-> "none",
   tlsext_ticket_expected |-> FALSE, alert |-> "none"]
------------------------------------------------------------------------------
(* ssl_add_clienthello_tlsext                                              *)
using_ecc(o) == o.version # "SSLv3" /\ o.ecc
ClientAdds(s, o) ==
  {x \in ToSet(ClientOrder) :
     \/ x = "server_name" /\ o.host
     \/ x = "renegotiate" /\ s.renegotiate
     \/ x = "session_ticket" /\ o.tickets
     \/ x = "signature_algorithms" /\ o.version = "TLSv1.2"
     \/ x = "next_proto_neg" /\ o.npn /\ s.finished = 0
     \/ x = "alpn" /\ o.alpn # <<>> /\ s.finished = 0
     \/ x = "channel_id" /\ o.channel_id = "old"
     \/ x = "channel_id_new" /\ o.channel_id = "new"
     \/ x = "use_srtp" /\ o.srtp # <<>>
     \/ x \in {"ec_point_formats", "elliptic_curves"} /\ using_ecc(o)}
ClientBody(s, o, x) ==
  CASE x = "renegotiate" -> s.finished
    [] x = "session_ticket" -> s.session.tick /\ ~s.new_session
    [] x = "alpn" -> o.alpn
    [] x = "use_srtp" -> o.srtp
    [] OTHER -> "empty"
ssl_add_clienthello_tlsext(s, o) ==
  [x \in IF o.version = "SSLv3" /\ ~s.send_connection_binding THEN {} ELSE ClientAdds(s, o)
     |-> ClientBody(s, o, x)]

(* ssl_add_serverhello_tlsext; the callback that names the protocols for   *)
(* NPN is only asked when the client has offered it.                       *)
answers_npn(s, o) == s.next_proto_neg_seen /\ o.npn # <<>>
ServerAdds(s, o) ==
  {x \in ToSet(ServerOrder) :
     \/ x = "server_name" /\ ~s.hit /\ s.servername_done /\ s.session.host
     \/ x = "renegotiate" /\ s.send_connection_binding
     \/ x = "ec_point_formats" /\ s.session.suite = "ecdhe" /\ s.session.formats
     \/ x = "session_ticket" /\ s.tlsext_ticket_expected /\ o.tickets
     \/ x = "use_srtp" /\ s.srtp_profile # "none"
     \/ x = "next_proto_neg" /\ answers_npn(s, o)
     \/ x = "alpn" /\ s.alpn_selected # "none"
     \/ x = "channel_id" /\ s.channel_id_valid /\ ~s.channel_id_new
     \/ x = "channel_id_new" /\ s.channel_id_valid /\ s.channel_id_new}
ServerBody(s, o, x) ==
  CASE x = "renegotiate" -> s.finished
    [] x = "use_srtp" -> s.srtp_profile
    [] x = "next_proto_neg" -> o.npn
    [] x = "alpn" -> s.alpn_selected
    [] OTHER -> "empty"
ssl_add_serverhello_tlsext(s, o) ==
  [x \in IF o.version = "SSLv3" /\ ~s.send_connection_binding THEN {} ELSE ServerAdds(s, o)
     |-> ServerBody(s, o, x)]
------------------------------------------------------------------------------
(* ssl_scan_clienthello_tlsext                                             *)
Alerted(s, alert) == [s EXCEPT !.alert = alert]

(* A new session takes the name; a resumed one is compared with a name     *)
(* that was never read, so the outcome depends on what was in memory.      *)
server_name(s, same) ==
  IF s.hit THEN [s EXCEPT !.servername_done = s.session.host /\ same]
  ELSE IF s.session.host THEN Alerted(s, "decode_error")
  ELSE [s EXCEPT !.servername_done = TRUE, !.session.host = TRUE]
ssl_parse_clienthello_renegotiate_ext(s, body) ==
  IF body # s.finished THEN Alerted(s, "handshake_failure")
  ELSE [s EXCEPT !.send_connection_binding = TRUE]

FirstOf(list, set) ==
  IF ToSet(list) \cap set = {} THEN "none" ELSE SelectSeq(list, LAMBDA p : p \in set)[1]
(* The application's callback takes the client's first protocol it knows;  *)
(* when there is none, it declines and NPN stays switched off.             *)
alpn_handle_client_hello(s, o, body) ==
  [s EXCEPT !.alpn_selected = IF FirstOf(body, o.alpn) = "none" THEN @ ELSE FirstOf(body, o.alpn),
            !.next_proto_neg_seen = FALSE]
AlpnBesideNpn(s, o, body) ==                \* fault: ALPN does not take precedence
  [s EXCEPT !.alpn_selected = IF FirstOf(body, o.alpn) = "none" THEN @ ELSE FirstOf(body, o.alpn)]
tls1_alpn_handle_client_hello(s, o, body) == alpn_handle_client_hello(s, o, body)

ssl_parse_clienthello_use_srtp_ext(s, o, body) ==
  [s EXCEPT !.srtp_profile = IF FirstOf(o.srtp, ToSet(body)) = "none" THEN @
                             ELSE FirstOf(o.srtp, ToSet(body))]
channel_id(s, new) == [s EXCEPT !.channel_id_valid = TRUE, !.channel_id_new = @ \/ new]

ClientExtension(s, o, x, body, same) ==
  CASE s.alert # "none" -> s
    [] x = "server_name" -> server_name(s, same)
    [] x = "ec_point_formats" /\ ~s.hit -> [s EXCEPT !.session.formats = TRUE]
    [] x = "renegotiate" -> ssl_parse_clienthello_renegotiate_ext(s, body)
    [] x = "next_proto_neg" /\ s.finished = 0 /\ s.alpn_selected = "none" ->
         [s EXCEPT !.next_proto_neg_seen = TRUE]
    [] x = "alpn" /\ o.alpn # {} /\ s.finished = 0 -> tls1_alpn_handle_client_hello(s, o, body)
    [] x = "channel_id" /\ o.channel_id -> channel_id(s, FALSE)
    [] x = "channel_id_new" /\ o.channel_id -> channel_id(s, TRUE)
    [] x = "use_srtp" -> ssl_parse_clienthello_use_srtp_ext(s, o, body)
    [] OTHER -> s
ServerForgets(s) ==
  [s EXCEPT !.servername_done = FALSE, !.next_proto_neg_seen = FALSE, !.alpn_selected = "none"]
NeedsBinding(s, seen) ==
  IF s.alert = "none" /\ ~seen /\ s.renegotiate THEN Alerted(s, "handshake_failure") ELSE s
ssl_scan_clienthello_tlsext(s, o, hello, same) ==
  NeedsBinding(
    FoldLeft(LAMBDA t, x : ClientExtension(t, o, x, hello[x], same), ServerForgets(s),
             SelectSeq(ClientOrder, LAMBDA x : x \in DOMAIN hello)),
    "renegotiate" \in DOMAIN hello)
(* ssl_check_clienthello_tlsext_early: the application's servername        *)
(* callback accepts the name, declines it or refuses the connection.       *)
ssl_check_clienthello_tlsext_early(s, o) ==
  IF s.alert # "none" \/ o.servername = "ok" THEN s
  ELSE IF o.servername = "fatal" THEN Alerted(s, "unrecognized_name")
  ELSE [s EXCEPT !.servername_done = FALSE]
------------------------------------------------------------------------------
(* ssl_scan_serverhello_tlsext                                             *)
ssl_parse_serverhello_renegotiate_ext(s, body) ==
  IF body # s.finished THEN Alerted(s, "handshake_failure")
  ELSE [s EXCEPT !.send_connection_binding = TRUE]
ssl_parse_serverhello_use_srtp_ext(s, o, body) ==
  IF o.srtp = <<>> THEN Alerted(s, "decode_error")
  ELSE IF body \notin ToSet(o.srtp) THEN Alerted(s, "illegal_parameter")
  ELSE [s EXCEPT !.srtp_profile = body]
ServerExtension(s, o, x, body) ==
  CASE s.alert # "none" -> s
    [] x = "server_name" /\ ~o.host -> Alerted(s, "unsupported_extension")
    [] x = "ec_point_formats" /\ ~s.hit -> [s EXCEPT !.session.formats = TRUE]
    [] x = "session_ticket" -> IF o.tickets THEN [s EXCEPT !.tlsext_ticket_expected = TRUE]
                               ELSE Alerted(s, "unsupported_extension")
    [] x = "next_proto_neg" /\ s.finished = 0 ->
         IF o.npn THEN [s EXCEPT !.next_proto_neg_seen = TRUE, !.next_proto = body[1]]
         ELSE Alerted(s, "unsupported_extension")
    [] x = "alpn" -> IF o.alpn # <<>> THEN [s EXCEPT !.alpn_selected = body]
                     ELSE Alerted(s, "unsupported_extension")
    [] x = "channel_id" -> channel_id(s, FALSE)
    [] x = "channel_id_new" -> channel_id(s, TRUE)
    [] x = "renegotiate" -> ssl_parse_serverhello_renegotiate_ext(s, body)
    [] x = "use_srtp" -> ssl_parse_serverhello_use_srtp_ext(s, o, body)
    [] OTHER -> s
ClientForgets(s) ==
  [s EXCEPT !.next_proto_neg_seen = FALSE, !.tlsext_ticket_expected = FALSE,
            !.alpn_selected = "none"]
(* A new session takes the name the server has acknowledged.  The binding  *)
(* is demanded of every server unless old ones are tolerated.              *)
NamesSession(s, acknowledged) ==
  IF s.alert # "none" \/ s.hit \/ ~acknowledged THEN s
  ELSE IF s.session.host THEN Alerted(s, "decode_error")
  ELSE [s EXCEPT !.session.host = TRUE]
DemandsBinding(s, o, seen) ==
  IF s.alert = "none" /\ ~seen /\ ~o.legacy THEN Alerted(s, "handshake_failure") ELSE s
ssl_scan_serverhello_tlsext(s, o, hello) ==
  DemandsBinding(
    NamesSession(
      FoldLeft(LAMBDA t, x : ServerExtension(t, o, x, hello[x]), ClientForgets(s),
               SelectSeq(ServerOrder, LAMBDA x : x \in DOMAIN hello)),
      "server_name" \in DOMAIN hello),
    o, "renegotiate" \in DOMAIN hello)
------------------------------------------------------------------------------
(* tls1_process_ticket and the rest of ssl_get_prev_session: what the      *)
(* server takes up.  "unusable" is a ticket of another key, spoilt or      *)
(* expired; "renew" one of a key that is being replaced.                   *)
TicketOutcomes(s, o, hello) ==
  IF s.renegotiate /\ ~o.reneg_resumes THEN {"ignored"}
  ELSE IF ~o.tickets \/ "session_ticket" \notin DOMAIN hello THEN {"none"}
  ELSE IF ~hello["session_ticket"] THEN {"empty"}
  ELSE {"unusable", "renew", "valid"}
ById(o, s) == o.cache /\ ~s.new_session
Resumes(outcome, by_id) == outcome \in {"renew", "valid"} \/ (outcome \in {"none", "empty"} /\ by_id)
(* A ticket does not carry the point formats.                              *)
FromStore(outcome) ==
  IF outcome \in {"renew", "valid"} THEN [exstored EXCEPT !.formats = FALSE] ELSE exstored
tls1_process_ticket(s, outcome) ==
  IF outcome = "ignored" THEN s             \* no resumption on this renegotiation
  ELSE [s EXCEPT !.tlsext_ticket_expected = outcome \in {"empty", "unusable", "renew"}]
LooksUpSession(s, outcome, hit) ==
  [tls1_process_ticket(s, outcome) EXCEPT
     !.hit = hit, !.session = IF hit THEN FromStore(outcome) ELSE NewSession]

(* ssl3_send_server_hello                                                  *)
KeepsChannelId(s) ==
  [s EXCEPT !.channel_id_valid = /\ @ /\ s.session.suite = "ecdhe"
                                 /\ ~(s.hit /\ s.channel_id_new /\ ~s.session.hash)]
AnyKeyExchange(s) ==                        \* fault: Channel ID with any key exchange
  [s EXCEPT !.channel_id_valid = @ /\ ~(s.hit /\ s.channel_id_new /\ ~s.session.hash)]
ChannelIdOf(s) == KeepsChannelId(s)
------------------------------------------------------------------------------
ExtInit ==
  /\ exopt \in ExtCases
  /\ excl = NewSsl /\ exsv = NewSsl
  /\ exwire = <<>> /\ exstored = NewSession
  /\ exstep = "start" /\ excount = 0

ExtClientHello ==
  /\ exstep = "start"
  /\ exwire' = ssl_add_clienthello_tlsext(excl, exopt.c)
  /\ exstep' = "hello"
  /\ UNCHANGED <<exopt, excl, exsv, exstored, excount>>

(* ssl3_get_client_hello and ssl3_send_server_hello; the suite is one both *)
(* have, the session's when it is resumed.  The cipher suite value in      *)
(* ClientHello stands for the empty renegotiation extension.               *)
Suites == {"rsa"} \cup IF exopt.c.ecc /\ exopt.s.ecc THEN {"ecdhe"} ELSE {}
Scanned(s, hit, same, outcome) ==
  ssl_check_clienthello_tlsext_early(
    ssl_scan_clienthello_tlsext(
      [LooksUpSession(s, outcome, hit) EXCEPT !.send_connection_binding = @ \/ ~s.renegotiate],
      exopt.s, exwire, same), exopt.s)
Chosen(s, suite) ==
  ChannelIdOf([s EXCEPT !.session.suite = IF s.hit THEN @ ELSE suite])
ServerAnswers(s) ==
  IF s.alert # "none" THEN /\ exsv' = s /\ exstep' = "failed"
                           /\ UNCHANGED exwire
  ELSE /\ exwire' = ssl_add_serverhello_tlsext(s, exopt.s)
       /\ exsv' = [s EXCEPT !.next_proto_neg_seen = answers_npn(s, exopt.s)]
       /\ exstep' = "answered"
ExtServerHello ==
  /\ exstep = "hello"
  /\ \E outcome \in TicketOutcomes(exsv, exopt.s, exwire), same \in BOOLEAN :
       \E suite \in Suites, by_id \in {FALSE} \cup {ById(exopt.s, excl) /\ exstored # NewSession} :
         ServerAnswers(Chosen(Scanned(exsv, Resumes(outcome, by_id), same, outcome), suite))
  /\ UNCHANGED <<exopt, excl, exstored, excount>>

(* ssl3_get_server_hello: the client notices a resumption by the session   *)
(* id, and takes a new session otherwise.                                  *)
ExtGetServerHello ==
  /\ exstep = "answered"
  /\ excl' = ssl_scan_serverhello_tlsext(
               [excl EXCEPT !.hit = exsv.hit, !.session = IF exsv.hit THEN @ ELSE NewSession],
               exopt.c, exwire)
  /\ exstep' = IF excl'.alert = "none" THEN "agreed" ELSE "failed"
  /\ UNCHANGED <<exopt, exsv, exwire, exstored, excount>>

(* The rest of the handshake: a new session ticket if the server sends     *)
(* one, the hashes that a later Channel ID signs, both Finished.           *)
AtEnd(s, suite, tick) ==
  [s EXCEPT !.session.suite = suite, !.session.tick = tick,
            !.session.hash = @ \/ (~s.hit /\ s.channel_id_new),
            !.finished = excount + 1, !.renegotiate = FALSE, !.new_session = FALSE]
ExtFinish ==
  /\ exstep = "agreed"
  /\ exsv' = AtEnd(exsv, exsv.session.suite, FALSE)
  /\ excl' = AtEnd(excl, exsv.session.suite, excl.session.tick \/ exsv.tlsext_ticket_expected)
  /\ exstored' = exsv'.session
  /\ exstep' = "done" /\ excount' = excount + 1
  /\ UNCHANGED <<exopt, exwire>>

(* SSL_renegotiate and SSL_renegotiate_abbreviated, then a hello on the    *)
(* connection; or a new connection with the client's session.              *)
ExtRenegotiate ==
  /\ exstep = "done" /\ excount = 1
  /\ \E abbreviated \in BOOLEAN :
       /\ excl' = [excl EXCEPT !.renegotiate = TRUE, !.new_session = ~abbreviated]
       /\ exsv' = [exsv EXCEPT !.renegotiate = TRUE]
  /\ exstep' = "start"
  /\ UNCHANGED <<exopt, exwire, exstored, excount>>
ExtReconnect ==
  /\ exstep = "done" /\ excount = 1
  /\ excl' = [NewSsl EXCEPT !.session = excl.session]
  /\ exsv' = NewSsl
  /\ exstep' = "start"
  /\ UNCHANGED <<exopt, exwire, exstored, excount>>

ExtNext ==
  \/ ExtClientHello \/ ExtServerHello \/ ExtGetServerHello \/ ExtFinish
  \/ ExtRenegotiate \/ ExtReconnect
------------------------------------------------------------------------------
(* Ends of this code understand each other: no hello of one makes the      *)
(* other give up, except where the application refuses the server name,    *)
(* and once the client has read ServerHello both have the same view of     *)
(* what each extension decided, which is what they go by in choosing the   *)
(* messages that follow.  One of ALPN and NPN names the protocol, not      *)
(* both.  A client that has renegotiated from ECDHE to another key         *)
(* exchange keeps believing in Channel ID: nothing resets it.              *)
SameChannelId ==
  \/ excl.channel_id_valid = exsv.channel_id_valid
  \/ excount = 1 /\ excl.finished = 1 /\ excl.channel_id_valid /\ ~exsv.channel_id_valid
SameProtocol ==
  /\ excl.alpn_selected = exsv.alpn_selected
  /\ excl.next_proto_neg_seen = exsv.next_proto_neg_seen
  /\ ~(excl.next_proto_neg_seen /\ excl.alpn_selected # "none")
ExtensionsAgree ==
  /\ exstep = "failed" => exopt.s.servername = "fatal"
  /\ exstep = "agreed" =>
       /\ SameProtocol /\ SameChannelId
       /\ excl.channel_id_valid => excl.channel_id_new = exsv.channel_id_new
       /\ excl.tlsext_ticket_expected = exsv.tlsext_ticket_expected
       /\ excl.srtp_profile = exsv.srtp_profile
       /\ excl.send_connection_binding /\ exsv.send_connection_binding
       /\ excl.session.host => exsv.session.host
       /\ ~excl.hit => (excl.session.host = exsv.servername_done)

(* Channel ID needs ECDHE, and on a resumption in its new form the hashes  *)
(* of the first handshake: what the server still expects, it can verify.   *)
ChannelIdIsBound ==
  exstep = "agreed" /\ exsv.channel_id_valid =>
    /\ exsv.session.suite = "ecdhe"
    /\ exsv.hit /\ exsv.channel_id_new => exsv.session.hash

OrElse(list, default) == IF list = <<>> THEN default ELSE list
FirstShared(pref, allow) == SelectSeq(pref, LAMBDA x : Contains(allow, x))
------------------------------------------------------------------------------
(* Curves.                                                                 *)
nid_list == 1..28
eccurves_default == <<23, 24, 25>>
tls1_ec_nid2curve_id(nid) == IF nid \in nid_list THEN nid ELSE 0

(* The list of the client, as it sent it, or the own list.                 *)
tls1_get_curvelist(c, get_client_curves) ==
  IF get_client_curves THEN c.client ELSE OrElse(c.server, eccurves_default)
tls1_get_shared_curve(c) ==
  LET shared == FirstShared(tls1_get_curvelist(c, ~c.prefers), tls1_get_curvelist(c, c.prefers))
  IN  IF shared = <<>> THEN 0 ELSE shared[1]
(* The client looks for the curve of ServerKeyExchange in its own list.    *)
tls1_check_curve(c, curve) == Contains(c.client, curve)

(* Duplicates are found by a bit map of the numbers.                       *)
Taken(set, id) ==
  IF set.failed \/ id = 0 \/ id \in set.dup THEN [set EXCEPT !.failed = TRUE]
  ELSE [set EXCEPT !.dup = @ \cup {id}, !.ids = Append(@, id)]
TakenTwice(set, id) ==                       \* fault: the bit map is not kept
  IF set.failed \/ id = 0 \/ id \in set.dup THEN [set EXCEPT !.failed = TRUE]
  ELSE [set EXCEPT !.ids = Append(@, id)]
TakeCurve(set, id) == Taken(set, id)
tls1_set_curves(curves) ==
  FoldLeft(LAMBDA set, nid : TakeCurve(set, tls1_ec_nid2curve_id(nid)),
           [ids |-> <<>>, dup |-> {}, failed |-> FALSE], curves)
------------------------------------------------------------------------------
(* Signature algorithms.                                                   *)
Hashes == {"md5", "sha1", "sha224", "sha256", "sha384", "sha512"}
Kinds == {"rsa", "ecdsa"}
tls12_sigalgs ==
  << <<"sha512", "rsa">>, <<"sha512", "ecdsa">>, <<"sha384", "rsa">>, <<"sha384", "ecdsa">>,
     <<"sha256", "rsa">>, <<"sha256", "ecdsa">>, <<"sha224", "rsa">>, <<"sha224", "ecdsa">>,
     <<"sha1", "rsa">>, <<"sha1", "ecdsa">> >>
tls12_get_psigalgs(list) == OrElse(list, tls12_sigalgs)

Supported(list) == SelectSeq(list, LAMBDA p : p[1] \in Hashes /\ p[2] \in Kinds)
tls12_do_shared_sigalgs(pref, allow) == FirstShared(Supported(pref), allow)
tls1_set_shared_sigalgs(c) ==
  LET own == tls12_get_psigalgs(c.server)
      peer == tls12_get_psigalgs(c.client)
  IN  IF c.prefers THEN tls12_do_shared_sigalgs(own, peer)
      ELSE tls12_do_shared_sigalgs(peer, own)

(* The digest of each kind of key: of the first shared pair, or SHA-1.     *)
FirstDigest(digests, p) ==
  IF digests[p[2]] = "none" THEN [digests EXCEPT ![p[2]] = p[1]] ELSE digests
LastDigest(digests, p) == [digests EXCEPT ![p[2]] = p[1]]   \* fault: later pairs override
SetDigest(digests, p) == FirstDigest(digests, p)
tls1_process_sigalgs(c) ==
  LET shared == FoldLeft(SetDigest, [k \in Kinds |-> "none"], tls1_set_shared_sigalgs(c))
  IN  [k \in Kinds |-> IF shared[k] = "none" /\ ~c.strict THEN "sha1" ELSE shared[k]]

(* What the client says to a signature made with a pair.                   *)
tls12_check_peer_sigalg(c, pair) ==
  \/ Contains(tls12_get_psigalgs(c.client), pair) /\ pair[1] \in Hashes
  \/ pair[1] = "sha1" /\ ~c.strict
------------------------------------------------------------------------------
(* tls1_check_chain.  A certificate is [sig, param]: the pair it is signed *)
(* with and whether its key suits the curves and point formats sent, which *)
(* is tls1_check_cert_param; the names and types matter to a client.       *)
tls1_check_ec_key(c, cert) ==
  /\ c.formats = {} \/ cert.format \in c.formats
  /\ ~c.server \/ (cert.curve \in c.curves /\ cert.curve \in c.peer_curves)
tls1_check_cert_param(c, cert) == cert.curve = "none" \/ tls1_check_ec_key(c, cert)

tls1_check_sig_alg(c, cert) ==
  IF c.peer = <<>> THEN cert.sig = <<"sha1", c.kind>>
  ELSE Contains(c.peer, cert.sig)
NoDefault(c) == c.peer = <<>> /\ c.conf # <<>> /\ ~Contains(c.conf, <<"sha1", c.kind>>)

SignatureFlags(c, strict, user) ==
  IF c.tls12 /\ strict
  THEN IF NoDefault(c) THEN {}
       ELSE {f \in {"EE_SIGNATURE", "CA_SIGNATURE"} :
               \/ f = "EE_SIGNATURE" /\ tls1_check_sig_alg(c, c.x)
               \/ f = "CA_SIGNATURE" /\ \A i \in DOMAIN c.chain : tls1_check_sig_alg(c, c.chain[i])}
  ELSE {"EE_SIGNATURE", "CA_SIGNATURE"}
ParamFlags(c, strict) ==
  {f \in {"EE_PARAM", "CA_PARAM"} :
     \/ f = "EE_PARAM" /\ tls1_check_cert_param(c, c.x)
     \/ f = "CA_PARAM" /\ \/ ~c.server
                          \/ strict /\ \A i \in DOMAIN c.chain : tls1_check_cert_param(c, c.chain[i])}
ssl_check_ca_name(c, cert) == cert.issuer \in c.ca_names
NameFlags(c, strict) ==
  IF c.server \/ ~strict THEN {"ISSUER_NAME", "CERT_TYPE"}
  ELSE {f \in {"ISSUER_NAME", "CERT_TYPE"} :
          \/ f = "CERT_TYPE" /\ c.kind \in c.types
          \/ f = "ISSUER_NAME" /\ \/ c.ca_names = {} \/ ssl_check_ca_name(c, c.x)
                                  \/ \E i \in DOMAIN c.chain : ssl_check_ca_name(c, c.chain[i])}
ValidFlags == {"EE_SIGNATURE", "EE_PARAM"}
StrictFlags == ValidFlags \cup {"CA_SIGNATURE", "CA_PARAM", "ISSUER_NAME", "CERT_TYPE"}

(* SSL_check_chain, for the application: always the strict checks, judged  *)
(* by the flags that the certificate's mode asks for.                      *)
UserFlags(c) == SignatureFlags(c, TRUE, TRUE) \cup ParamFlags(c, TRUE) \cup NameFlags(c, TRUE)
SSL_check_chain(c) == (IF c.strict THEN StrictFlags ELSE ValidFlags) \subseteq UserFlags(c)
(* tls1_check_chain for the SSL's own use: the first check that fails ends *)
(* it; in strict mode all of them are made.                                *)
OwnChecks(c) ==
  /\ c.strict => {"EE_SIGNATURE", "CA_SIGNATURE"} \subseteq SignatureFlags(c, TRUE, FALSE)
  /\ "EE_PARAM" \in ParamFlags(c, c.strict)
  /\ c.strict => "CA_PARAM" \in ParamFlags(c, TRUE)
  /\ {"ISSUER_NAME", "CERT_TYPE"} \subseteq NameFlags(c, c.strict)
AnyName(c) ==                               \* fault: CA names are not compared
  /\ c.strict => {"EE_SIGNATURE", "CA_SIGNATURE"} \subseteq SignatureFlags(c, TRUE, FALSE)
  /\ "EE_PARAM" \in ParamFlags(c, c.strict)
  /\ c.strict => "CA_PARAM" \in ParamFlags(c, TRUE)
tls1_check_chain(c) == OwnChecks(c)
------------------------------------------------------------------------------
(* ssl_early_callback_init: the ClientHello is taken apart field by field. *)
Truncated == [ok |-> FALSE, body |-> <<>>, rest |-> <<>>]
Prefixed(cells) ==
  IF cells = <<>> THEN Truncated
  ELSE IF Len(cells) - 1 < cells[1] THEN Truncated
  ELSE [ok |-> TRUE, body |-> SubSeq(cells, 2, 1 + cells[1]),
        rest |-> SubSeq(cells, 2 + cells[1], Len(cells))]
Rejected == [ok |-> FALSE, session_id |-> <<>>, cipher_suites |-> <<>>,
             compression_methods |-> <<>>, extensions |-> <<>>]

(* The extensions of a block, <<>> in front if it does not come out even.  *)
TakeExtension(block) ==
  IF Len(block.rest) < 2 THEN [block EXCEPT !.ok = FALSE]
  ELSE LET body == Prefixed(Tail(block.rest)) IN
       [ok |-> body.ok, rest |-> body.rest,
        list |-> Append(block.list, [type |-> block.rest[1], body |-> body.body])]
AllExtensions(cells) ==
  FoldLeft(LAMBDA block, i : IF block.rest = <<>> \/ ~block.ok THEN block ELSE TakeExtension(block),
           [ok |-> TRUE, rest |-> cells, list |-> <<>>], [i \in DOMAIN cells |-> i])
tls1_check_duplicate_extensions(block) ==
  /\ block.ok /\ block.rest = <<>>
  /\ \A i, j \in DOMAIN block.list : block.list[i].type = block.list[j].type => i = j
AnyExtensions(block) == block.ok            \* fault: a type may come twice
ExtensionsAreGood(block) == tls1_check_duplicate_extensions(block)

WithExtensions(id, suites, methods, rest) ==
  LET field == Prefixed(rest)
      block == AllExtensions(field.body)
      ctx(list) == [ok |-> TRUE, session_id |-> id, cipher_suites |-> suites,
                    compression_methods |-> methods, extensions |-> list]
  IN  IF rest = <<>> THEN ctx(<<>>)
      ELSE IF field.ok /\ ExtensionsAreGood(block) /\ field.rest = <<>> THEN ctx(block.list)
      ELSE Rejected
AfterId(id, suites) ==
  LET methods == Prefixed(suites.rest) IN
  IF ~suites.ok \/ Len(suites.body) < 2 \/ Len(suites.body) % 2 # 0 \/ ~methods.ok
     \/ Len(methods.body) < 1
  THEN Rejected
  ELSE WithExtensions(id.body, suites.body, methods.body, methods.rest)
(* A DTLS hello has a cookie after the session id.                         *)
AfterCookie(id, rest) == IF id.ok /\ rest.ok THEN AfterId(id, Prefixed(rest.rest)) ELSE Rejected
ssl_early_callback_init(hello, dtls) ==
  LET id == Prefixed(SubSeq(hello, 3, Len(hello))) IN
  IF Len(hello) < 2 THEN Rejected
  ELSE AfterCookie(id, IF dtls THEN Prefixed(id.rest) ELSE [ok |-> TRUE, body |-> <<>>, rest |-> id.rest])
SSL_early_callback_ctx_extension_get(ctx, type) ==
  SelectSeq(ctx.extensions, LAMBDA e : e.type = type)[1].body

(* Padding keeps a hello out of the lengths 0x100..0x1ff, which some       *)
(* servers cannot take; the extension has four bytes of its own.           *)
Padding(header_len) ==
  LET room == 512 - header_len IN
  IF header_len <= 255 \/ header_len >= 512 THEN 0
  ELSE IF room >= 5 THEN room ELSE 5
------------------------------------------------------------------------------
AlgorithmNext ==
  /\ calc = NotCalculated
  /\ \/ \E c \in CurveCases : Calculates("tls1_get_shared_curve", c, tls1_get_shared_curve(c))
     \/ \E c \in SetCases : Calculates("tls1_set_curves", c, tls1_set_curves(c))
     \/ \E c \in SigalgCases : Calculates("tls1_process_sigalgs", c, tls1_process_sigalgs(c))
     \/ \E c \in ChainCases :
          Calculates("tls1_check_chain", c,
                     [own |-> tls1_check_chain(c), user |-> SSL_check_chain(c)])
     \/ \E h \in HelloCases :
          Calculates("ssl_early_callback_init", h, ssl_early_callback_init(h.cells, h.dtls))
     \/ \E n \in {200, 251, 255, 256, 300, 507, 508, 511, 512} :
          Calculates("padding", n, n + Padding(n))

(* The server's curve is one the client will accept, there is one whenever *)
(* the lists have one in common, and none that both have comes before it   *)
(* in the list of the end whose order counts.  A list an application sets  *)
(* holds known curves, each once, as it gave them.                         *)
CurvesAreShared ==
  /\ Calculated("tls1_get_shared_curve") =>
       LET c == calc.in
           own == OrElse(c.server, eccurves_default)
           first == IF c.prefers THEN own ELSE c.client
       IN  IF calc.out = 0 THEN ToSet(own) \cap ToSet(c.client) = {}
           ELSE /\ tls1_check_curve(c, calc.out) /\ Contains(own, calc.out)
                /\ \E j \in DOMAIN first :
                     /\ first[j] = calc.out
                     /\ \A i \in 1..(j - 1) : ~(Contains(own, first[i]) /\ Contains(c.client, first[i]))
  /\ Calculated("tls1_set_curves") =>
       IF calc.out.failed
       THEN \/ \E i \in DOMAIN calc.in : calc.in[i] \notin nid_list
            \/ \E i, j \in DOMAIN calc.in : i # j /\ calc.in[i] = calc.in[j]
       ELSE calc.out.ids = calc.in /\ IsInjective(calc.in)

(* The client accepts the signature the server makes with any of its keys, *)
(* and only a server without a common pair for the key falls back on SHA-1 *)
(* (unless the client is strict too), else it takes the first common one.  *)
SignaturesAreAcceptable ==
  Calculated("tls1_process_sigalgs") =>
    LET c == calc.in
        sent == tls12_get_psigalgs(c.client)
        own == tls12_get_psigalgs(c.server)
        both == {p \in ToSet(sent) \cap ToSet(own) : p[1] \in Hashes}
    IN  \A k \in Kinds :
          LET shared == {p \in both : p[2] = k}
              order == IF c.prefers THEN own ELSE sent
          IN  /\ calc.out[k] # "none" => tls12_check_peer_sigalg(c, <<calc.out[k], k>>)
              /\ IF shared = {} THEN calc.out[k] = (IF c.strict THEN "none" ELSE "sha1")
                 ELSE /\ <<calc.out[k], k>> \in shared
                      /\ \E i \in DOMAIN order :
                           order[i] = <<calc.out[k], k>> /\ \A j \in 1..(i - 1) : order[j] \notin shared

(* What an application learns of a chain from SSL_check_chain is what the  *)
(* handshake will find: the same in strict mode, otherwise no chain is     *)
(* called valid that the handshake would then refuse.                      *)
ChainVerdictsAgree ==
  Calculated("tls1_check_chain") =>
    /\ calc.out.user => calc.out.own
    /\ calc.in.strict => (calc.out.user = calc.out.own)

(* A hello that is accepted is its fields put together again, so that cut  *)
(* off anywhere, or with something behind it, it is another or is refused; *)
(* its extensions are of different types, and looked up they are found.    *)
Joined(list) == FlattenSeq([i \in DOMAIN list |-> <<list[i].type, Len(list[i].body)>> \o list[i].body])
WithLength(cells) == <<Len(cells)>> \o cells
HellosAreRead ==
  /\ Calculated("ssl_early_callback_init") /\ calc.out.ok =>
       LET o == calc.out
           fields == WithLength(o.cipher_suites) \o WithLength(o.compression_methods)
           head == Len(WithLength(o.session_id)) + 2
       IN  /\ SubSeq(calc.in.cells, 3, head) = WithLength(o.session_id)
           /\ \E rest \in {<<>>, WithLength(Joined(o.extensions))} :
                LET tail == fields \o rest IN
                /\ Len(tail) <= Len(calc.in.cells) - head
                /\ SubSeq(calc.in.cells, Len(calc.in.cells) - Len(tail) + 1, Len(calc.in.cells)) = tail
                /\ ~calc.in.dtls => Len(calc.in.cells) = head + Len(tail)
           /\ \A i \in DOMAIN o.extensions :
                SSL_early_callback_ctx_extension_get(o, o.extensions[i].type) = o.extensions[i].body
  /\ Calculated("padding") => calc.out \notin 256..511 /\ calc.out - calc.in \notin 1..4
=============================================================================

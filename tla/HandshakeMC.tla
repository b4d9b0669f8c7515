----------------------------- MODULE HandshakeMC -----------------------------
(* Configurations of the two applications for the runs of Handshake.        *)
EXTENDS Handshake

Prior(k, hash) == [id |-> 1, kx |-> k, hash |-> hash]
OldHash == <<<<"ClientHello", 0>>>>

Plain == [ticket |-> FALSE, npn |-> FALSE, chid |-> FALSE,
          certReq |-> FALSE, clientCert |-> FALSE, cutthrough |-> FALSE,
          kxs |-> {"ecdhe"}, prior |-> NoSession, known |-> FALSE,
          renegotiate |-> 1, drivers |-> {"read"}]

\* One handshake, every feature on or off; the first connection, or one that
\* offers a session.
EveryOption ==
  {o \in [ticket : BOOLEAN, npn : BOOLEAN, chid : BOOLEAN,
          certReq : BOOLEAN, clientCert : BOOLEAN, cutthrough : BOOLEAN,
          kxs : {{k} : k \in KX},
          prior : {NoSession, Prior("rsa", <<>>), Prior("ecdhe", <<>>), Prior("ecdhe", OldHash)},
          known : BOOLEAN, renegotiate : {0}, drivers : {{"read"}}] :
     /\ o.clientCert => o.certReq
     /\ o.cutthrough => o.npn /\ o.kxs = {"ecdhe"}
     /\ o.known => o.prior # NoSession /\ o.kxs = {"ecdhe"} /\ ~o.certReq}

\* Connections that renegotiate.  Left out is the combination in which a flag
\* that the first ServerHello left behind misleads the client in the second
\* handshake: Channel ID with a key exchange that changes from ephemeral to another.
Renegotiating ==
  {[o EXCEPT !.drivers = {"read", "handshake"}] : o \in
  {[Plain EXCEPT !.ticket = t] : t \in BOOLEAN}
  \cup {[Plain EXCEPT !.ticket = t, !.npn = TRUE, !.cutthrough = TRUE] : t \in BOOLEAN}
  \cup {[Plain EXCEPT !.chid = TRUE, !.prior = Prior("ecdhe", OldHash), !.known = TRUE]}
  \cup {[Plain EXCEPT !.certReq = TRUE, !.clientCert = TRUE, !.kxs = {"rsa", "psk"}]}}

Everything == EveryOption \cup Renegotiating

\* Fewer of them, for liveness.
RenegotiatingLive ==
  {Plain, [Plain EXCEPT !.ticket = TRUE, !.npn = TRUE, !.cutthrough = TRUE]}
=============================================================================
